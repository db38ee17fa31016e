--------------------------- MODULE OutagesProofs ---------------------------
(***************************************************************************)
(* Proofs about module Outages, for every set of nodes and all times.      *)
(*                                                                         *)
(* OnePeriodAtATime needs to know of an online node that the timer of its  *)
(* departure is never without that of its return (InPairs).  The           *)
(* refinement needs, as long as the clock has not rolled over, how far     *)
(* ahead of the clock the targets lie (OnSchedule).                        *)
(***************************************************************************)
EXTENDS Outages, TLAPS

InPairs ==
    \A n \in Nodes : nodeStatus[n] => (goOffline[n].set <=> backOnline[n].set)

TimersInv == TypeOK /\ OnePeriodAtATime /\ InPairs
-----------------------------------------------------------------------------
LEMMA RolledOverType ==
    ASSUME NEW count \in Nat, count <= Rollover + Rollover
    PROVE  RolledOver(count) \in 0 .. Rollover
BY ClockAssumption DEF RolledOver

LEMMA SetTimerType ==
    ASSUME TypeOK, NEW units \in Nat, units <= Rollover
    PROVE  setTimer(units) \in Timer /\ setTimer(units).set
<1>1. systemCount + units \in Nat /\ systemCount + units <= Rollover + Rollover
  BY ClockAssumption DEF TypeOK
<1>2. RolledOver(systemCount + units) \in 0 .. Rollover
  BY <1>1, RolledOverType
<1> QED
  BY <1>2 DEF setTimer, Timer

(* One call of eventTick, for one node. *)
EventTickAt(n, d, o) ==
    /\ goOffline'[n] = IF Unscheduled(n) THEN setTimer(d)
                       ELSE IF n \in GoneOffline THEN NoTimer ELSE goOffline[n]
    /\ backOnline'[n] = IF Unscheduled(n) THEN ReturnTimer(d, o) ELSE backOnline[n]
    /\ nodeStatus'[n] = StatusAfter(n)

LEMMA NodeByNode ==
    ASSUME TypeOK, EventTick, NEW n \in Nodes
    PROVE  \E d \in 1 .. MaxOnline, o \in 1 .. MaxOffline : EventTickAt(n, d, o)
<1>1. PICK toDisconnect \in [Nodes -> 1 .. MaxOnline], offline \in [Nodes -> 1 .. MaxOffline] :
         /\ goOffline' = [m \in Nodes |->
                IF Unscheduled(m) THEN setTimer(toDisconnect[m])
                ELSE IF m \in GoneOffline THEN NoTimer ELSE goOffline[m]]
         /\ backOnline' = [m \in Nodes |->
                IF Unscheduled(m) THEN ReturnTimer(toDisconnect[m], offline[m])
                ELSE backOnline[m]]
  BY DEF EventTick
<1>2. nodeStatus' = [m \in Nodes |-> StatusAfter(m)]
  BY DEF EventTick
<1>3. EventTickAt(n, toDisconnect[n], offline[n])
  BY <1>1, <1>2, Zenon DEF EventTickAt
<1> QED
  BY <1>1, <1>3

LEMMA TimersAt ==
    ASSUME TypeOK, NEW n \in Nodes, NEW d \in 1 .. MaxOnline, NEW o \in 1 .. MaxOffline,
           EventTickAt(n, d, o)
    PROVE  goOffline'[n] \in Timer /\ backOnline'[n] \in Timer /\ nodeStatus'[n] \in BOOLEAN
<1>1. setTimer(d) \in Timer /\ ReturnTimer(d, o) \in Timer
  BY SetTimerType, DrawsAssumption, ClockAssumption, TimerAssumption DEF ReturnTimer
<1>2. NoTimer \in Timer /\ goOffline[n] \in Timer /\ backOnline[n] \in Timer
  BY ClockAssumption DEF NoTimer, Timer, TypeOK
<1>3. nodeStatus[n] \in BOOLEAN
  BY DEF TypeOK
<1> QED
  BY <1>1, <1>2, <1>3 DEF EventTickAt, StatusAfter

LEMMA InitTimers == Init => TimersInv
BY ClockAssumption DEF Init, TimersInv, TypeOK, Timer, NoTimer, OnePeriodAtATime, InPairs

LEMMA NextTypeOK == TypeOK /\ [Next]_vars => TypeOK'
<1> SUFFICES ASSUME TypeOK, [Next]_vars PROVE TypeOK'
  OBVIOUS
<1>1. CASE EventTick
  <2>1. systemCount' \in 0 .. Rollover
    BY <1>1, RolledOverType, ClockAssumption DEF EventTick, TypeOK
  <2>2. /\ goOffline' = [n \in Nodes |-> goOffline'[n]]
        /\ backOnline' = [n \in Nodes |-> backOnline'[n]]
        /\ nodeStatus' = [n \in Nodes |-> nodeStatus'[n]]
    BY <1>1, Zenon DEF EventTick
  <2>3. \A n \in Nodes : /\ goOffline'[n] \in Timer
                         /\ backOnline'[n] \in Timer
                         /\ nodeStatus'[n] \in BOOLEAN
    BY <1>1, NodeByNode, TimersAt
  <2> QED
    BY <2>1, <2>2, <2>3 DEF TypeOK
<1>2. CASE UNCHANGED vars
  BY <1>2 DEF vars, TypeOK
<1> QED
  BY <1>1, <1>2 DEF Next

LEMMA NextTimers == TimersInv /\ [Next]_vars => TimersInv'
<1> SUFFICES ASSUME TimersInv, [Next]_vars PROVE TimersInv'
  OBVIOUS
<1>1. TypeOK /\ TypeOK'
  BY NextTypeOK DEF TimersInv
<1>2. CASE EventTick
  <2>1. ASSUME NEW n \in Nodes
        PROVE  /\ ~nodeStatus'[n] => backOnline'[n].set /\ ~goOffline'[n].set
               /\ nodeStatus'[n] => (goOffline'[n].set <=> backOnline'[n].set)
    <3>1. PICK d \in 1 .. MaxOnline, o \in 1 .. MaxOffline : EventTickAt(n, d, o)
      BY <1>1, <1>2, NodeByNode
    <3>2. setTimer(d).set /\ ReturnTimer(d, o).set /\ ~NoTimer.set
      BY DEF setTimer, ReturnTimer, NoTimer
    <3>3. /\ ~nodeStatus[n] => backOnline[n].set /\ ~goOffline[n].set
          /\ nodeStatus[n] => (goOffline[n].set <=> backOnline[n].set)
      BY DEF TimersInv, OnePeriodAtATime, InPairs
    <3> QED
      BY <1>1, <3>1, <3>2, <3>3
      DEF EventTickAt, Unscheduled, StatusAfter, WokenUp, GoneOffline, Ended, TypeOK, Timer
  <2> QED
    BY <1>1, <2>1 DEF TimersInv, OnePeriodAtATime, InPairs
<1>3. CASE UNCHANGED vars
  BY <1>1, <1>3 DEF vars, TimersInv, OnePeriodAtATime, InPairs
<1> QED
  BY <1>2, <1>3 DEF Next

(* Clock, timers and node status have their types in every state, also     *)
(* when targets and clock roll over.                                       *)
THEOREM TimersTypeCorrect == Spec => []TypeOK
BY InitTimers, NextTypeOK, PTL DEF Spec, TimersInv

(* sendOffline: while a node is offline its return is scheduled and no     *)
(* further outage is, whatever times are drawn and also when the clock     *)
(* rolls over.                                                             *)
THEOREM OneOutageAtATime == Spec => []OnePeriodAtATime
<1>1. TimersInv => OnePeriodAtATime
  BY DEF TimersInv
<1> QED
  BY <1>1, InitTimers, NextTimers, PTL DEF Spec
-----------------------------------------------------------------------------
(* The refinement.  NeverRollsOver is what it assumes of the constants.    *)
NeverRollsOver == LastTick + MaxOnline + MaxOffline <= Rollover

OnScheduleAt(n) ==
    /\ ~backOnline[n].set => nodeStatus[n] /\ ~goOffline[n].set
    /\ backOnline[n].set /\ nodeStatus[n] =>
          /\ goOffline[n].set
          /\ goOffline[n].target - systemCount + 1 \in 1 .. MaxOnline
          /\ backOnline[n].target - goOffline[n].target \in 1 .. MaxOffline
    /\ backOnline[n].set /\ ~nodeStatus[n] =>
          /\ ~goOffline[n].set
          /\ backOnline[n].target - systemCount + 1 \in 1 .. MaxOffline

OnSchedule == TypeOK /\ systemCount <= LastTick /\ \A n \in Nodes : OnScheduleAt(n)

LEMMA SetTimerAhead ==
    ASSUME NeverRollsOver, TypeOK, systemCount < LastTick,
           NEW units \in Nat, units <= MaxOnline + MaxOffline
    PROVE  setTimer(units) = [set |-> TRUE, target |-> systemCount + units]
<1>1. systemCount \in Nat /\ LastTick \in Nat /\ MaxOnline \in Nat /\ MaxOffline \in Nat
  BY ClockAssumption, DrawsAssumption DEF TypeOK
<1>2. Rollover \in Nat /\ ~(systemCount + units > Rollover)
  BY <1>1, ClockAssumption DEF NeverRollsOver
<1> QED
  BY <1>2 DEF setTimer, RolledOver

LEMMA ClockAdvances ==
    ASSUME NeverRollsOver, TypeOK, EventTick
    PROVE  systemCount' = systemCount + 1 /\ systemCount < LastTick /\ systemCount \in Nat
BY ClockAssumption, DrawsAssumption DEF NeverRollsOver, TypeOK, EventTick, RolledOver

LEMMA ScheduleAt ==
    ASSUME NeverRollsOver, OnSchedule, EventTick, NEW n \in Nodes
    PROVE  /\ OnScheduleAt(n)'
           /\ TicksLeft(n)' \in Nat
           /\ \/ /\ TicksLeft(n) > 1
                 /\ TicksLeft(n)' = TicksLeft(n) - 1
                 /\ nodeStatus'[n] = nodeStatus[n]
              \/ /\ TicksLeft(n) = 0
                 /\ TicksLeft(n)' \in 1 .. MaxOnline
                 /\ nodeStatus'[n] = nodeStatus[n]
              \/ /\ TicksLeft(n) = 1
                 /\ nodeStatus'[n] = ~nodeStatus[n]
                 /\ TicksLeft(n)' \in 1 .. (IF nodeStatus'[n] THEN MaxOnline ELSE MaxOffline)
<1> DEFINE now == systemCount
<1>1. PICK d \in 1 .. MaxOnline, o \in 1 .. MaxOffline : EventTickAt(n, d, o)
  BY NodeByNode DEF OnSchedule
<1>2. now \in Nat /\ now < LastTick /\ systemCount' = now + 1
  BY ClockAdvances DEF OnSchedule
<1>3. /\ setTimer(d) = [set |-> TRUE, target |-> now + d]
      /\ ReturnTimer(d, o) = [set |-> TRUE, target |-> now + (d + o)]
  <2>1. /\ d \in Nat /\ d <= MaxOnline + MaxOffline
        /\ d + o \in Nat /\ d + o <= MaxOnline + MaxOffline
    BY DrawsAssumption
  <2> QED
    BY <1>2, <2>1, SetTimerAhead DEF OnSchedule, ReturnTimer
<1>4. /\ goOffline[n].target \in Nat /\ backOnline[n].target \in Nat
      /\ goOffline[n].set \in BOOLEAN /\ backOnline[n].set \in BOOLEAN
      /\ nodeStatus[n] \in BOOLEAN /\ OnScheduleAt(n)
  <2>1. goOffline[n] \in Timer /\ backOnline[n] \in Timer
    BY DEF OnSchedule, TypeOK
  <2>2. nodeStatus[n] \in BOOLEAN /\ OnScheduleAt(n)
    BY DEF OnSchedule, TypeOK
  <2> QED
    BY <2>1, <2>2, ClockAssumption DEF Timer
<1>5. MaxOnline \in Nat /\ MaxOffline \in Nat
  BY DrawsAssumption
<1>6. CASE Unscheduled(n)
  <2>1. goOffline'[n] = setTimer(d) /\ backOnline'[n] = ReturnTimer(d, o)
    BY <1>1, <1>6 DEF EventTickAt
  <2>2. nodeStatus'[n] = TRUE
    BY <1>1, <1>4, <1>6
    DEF EventTickAt, StatusAfter, Unscheduled, WokenUp, GoneOffline, Ended, OnScheduleAt
  <2>3. TicksLeft(n)' = d /\ OnScheduleAt(n)'
    BY <1>2, <1>3, <1>5, <2>1, <2>2 DEF TicksLeft, OnScheduleAt
  <2>4. IF backOnline[n].set THEN ~nodeStatus[n] /\ TicksLeft(n) = 1
                             ELSE nodeStatus[n] /\ TicksLeft(n) = 0
    BY <1>2, <1>4, <1>5, <1>6 DEF Unscheduled, WokenUp, Ended, OnScheduleAt, TicksLeft
  <2>5. TicksLeft(n)' \in Nat /\ TicksLeft(n)' \in 1 .. MaxOnline
    BY <1>5, <2>3
  <2>6. CASE backOnline[n].set
    <3>1. nodeStatus'[n] = ~nodeStatus[n]
      BY <2>2, <2>4, <2>6
    <3>2. TicksLeft(n)' \in 1 .. (IF nodeStatus'[n] THEN MaxOnline ELSE MaxOffline)
      BY <2>2, <2>5
    <3> QED
      BY <2>3, <2>4, <2>5, <2>6, <3>1, <3>2, Zenon
  <2>7. CASE ~backOnline[n].set
    <3>1. nodeStatus'[n] = nodeStatus[n]
      BY <1>4, <2>2, <2>4, <2>7
    <3> QED
      BY <2>3, <2>4, <2>5, <2>7, <3>1, Zenon
  <2> QED
    BY <2>6, <2>7, Zenon
<1>7. CASE ~Unscheduled(n) /\ n \in GoneOffline
  <2>1. goOffline'[n] = NoTimer /\ backOnline'[n] = backOnline[n] /\ nodeStatus'[n] = FALSE
    BY <1>1, <1>7 DEF EventTickAt, StatusAfter, Unscheduled
  <2>2. backOnline[n].set /\ nodeStatus[n] /\ goOffline[n].target = now
    <3>1. backOnline[n].set /\ goOffline[n].set /\ goOffline[n].target <= now
      BY <1>7 DEF Unscheduled, GoneOffline, Ended
    <3>2. nodeStatus[n] /\ goOffline[n].target - now + 1 \in 1 .. MaxOnline
      BY <1>4, <3>1 DEF OnScheduleAt
    <3> QED
      BY <1>2, <1>4, <1>5, <3>1, <3>2
  <2>3. TicksLeft(n) = 1 /\ TicksLeft(n)' = backOnline[n].target - now /\ OnScheduleAt(n)'
    BY <1>2, <1>4, <1>5, <2>1, <2>2 DEF TicksLeft, OnScheduleAt, NoTimer
  <2>4. backOnline[n].target - now \in 1 .. MaxOffline /\ TicksLeft(n)' \in Nat
    BY <1>2, <1>4, <1>5, <2>2, <2>3 DEF OnScheduleAt
  <2>5. nodeStatus'[n] = ~nodeStatus[n]
    BY <2>1, <2>2
  <2>6. TicksLeft(n)' \in 1 .. (IF nodeStatus'[n] THEN MaxOnline ELSE MaxOffline)
    BY <2>1, <2>3, <2>4
  <2> QED
    BY <2>3, <2>4, <2>5, <2>6, Zenon
<1>8. CASE ~Unscheduled(n) /\ n \notin GoneOffline
  <2>1. /\ goOffline'[n] = goOffline[n] /\ backOnline'[n] = backOnline[n]
        /\ nodeStatus'[n] = nodeStatus[n]
    BY <1>1, <1>8 DEF EventTickAt, StatusAfter, Unscheduled
  <2>2. /\ backOnline[n].set /\ backOnline[n].target > now
        /\ goOffline[n].set => goOffline[n].target > now
    <3>1. backOnline[n].set /\ ~Ended(backOnline[n]) /\ ~Ended(goOffline[n])
      BY <1>8 DEF Unscheduled, WokenUp, GoneOffline
    <3> QED
      BY <1>2, <1>4, <3>1 DEF Ended
  <2>3. TicksLeft(n) > 1 /\ TicksLeft(n)' = TicksLeft(n) - 1 /\ OnScheduleAt(n)'
    BY <1>2, <1>4, <1>5, <2>1, <2>2 DEF TicksLeft, OnScheduleAt
  <2>4. TicksLeft(n) \in Int
    BY <1>2, <1>4 DEF TicksLeft
  <2> QED
    BY <2>1, <2>3, <2>4
<1> QED
  BY <1>6, <1>7, <1>8

LEMMA NextOnSchedule ==
    ASSUME NeverRollsOver, OnSchedule, [Next]_vars
    PROVE  OnSchedule' /\ [Abstract!Tick]_<< nodeStatus, [n \in Nodes |-> TicksLeft(n)] >>
<1>1. TypeOK'
  BY NextTypeOK DEF OnSchedule
<1>2. CASE EventTick
  <2>1. systemCount' <= LastTick
    BY <1>2, ClockAdvances, ClockAssumption DEF OnSchedule
  <2>2. OnSchedule'
    BY <1>1, <1>2, <2>1, ScheduleAt DEF OnSchedule
  <2>3. Abstract!Tick
    <3>1. nodeStatus' \in [Nodes -> BOOLEAN]
      BY <1>1 DEF TypeOK
    <3>2. [n \in Nodes |-> TicksLeft(n)]' \in [Nodes -> Nat]
      BY <1>2, ScheduleAt
    <3>3. ASSUME NEW n \in Nodes
          PROVE  Abstract!Waits(n) \/ Abstract!FirstDraw(n) \/ Abstract!Changes(n)
      BY <1>2, ScheduleAt DEF Abstract!Waits, Abstract!FirstDraw, Abstract!Changes
    <3> QED
      BY <3>1, <3>2, <3>3 DEF Abstract!Tick
  <2> QED
    BY <2>2, <2>3
<1>3. CASE UNCHANGED vars
  BY <1>1, <1>3 DEF vars, OnSchedule, OnScheduleAt, TicksLeft
<1> QED
  BY <1>2, <1>3 DEF Next

LEMMA InitOnSchedule ==
    ASSUME Init
    PROVE  OnSchedule /\ Abstract!Init
<1>1. OnSchedule
  BY InitTimers, ClockAssumption DEF TimersInv, OnSchedule, OnScheduleAt, Init, NoTimer
<1>2. Abstract!Init
  BY DEF Init, Abstract!Init, TicksLeft, NoTimer
<1> QED
  BY <1>1, <1>2

(* Unless the clock rolls over before the simulation is over, the two      *)
(* timers of GeometricDisconnect make every node alternate between exactly *)
(* the times online and offline that were drawn for it, in every tick.     *)
THEOREM TimersImplementAvailability ==
    ASSUME NeverRollsOver
    PROVE  Spec => Abstract!Spec /\ ImplementsAvailability
<1>1. Init => OnSchedule /\ Abstract!Init
  BY InitOnSchedule
<1>2. OnSchedule /\ [Next]_vars =>
        OnSchedule' /\ [Abstract!Tick]_<< nodeStatus, [n \in Nodes |-> TicksLeft(n)] >>
  BY NextOnSchedule
<1>3. Spec => Abstract!Spec
  BY <1>1, <1>2, PTL DEF Spec, Abstract!Spec
<1>4. Abstract!Spec => ImplementsAvailability
  <2>1. Abstract!Tick =>
          (systemCount + MaxOnline + MaxOffline <= Rollover => Abstract!Tick)
    OBVIOUS
  <2> QED
    BY <2>1, PTL DEF ImplementsAvailability, Abstract!Spec
<1> QED
  BY <1>3, <1>4
=============================================================================
