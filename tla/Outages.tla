------------------------------- MODULE Outages -------------------------------
(***************************************************************************)
(* The event generator GeometricDisconnect and the SimulationClock whose   *)
(* timers it uses.  For every node it keeps two timers, one until the node *)
(* goes offline and one until it is back, and replaces both when the       *)
(* second has gone off.                                                    *)
(*                                                                         *)
(* Timer ids are never reused, so the model keeps each timer with the node *)
(* it is for.  A timer that has ended is cleared and erased in the call    *)
(* that notices it.                                                        *)
(***************************************************************************)
EXTENDS Integers

CONSTANTS
    Nodes,
    MaxOnline,      \* bound of the model: the largest value of getTimeOffline()
    MaxOffline,     \* bound of the model: the largest value of getTimeOnline()
    Rollover,       \* ROLLOVER_VALUE
    LastTick        \* the clock at which the simulation is over

ASSUME DrawsAssumption == MaxOnline \in Nat \ {0} /\ MaxOffline \in Nat \ {0}
ASSUME ClockAssumption == Rollover \in Nat \ {0} /\ LastTick \in Nat
ASSUME TimerAssumption == MaxOnline + MaxOffline < Rollover

VARIABLES
    systemCount,    \* the clock
    goOffline,      \* goOfflineTimer and the timer it names
    backOnline,     \* backOnlineTimer and the timer it names
    nodeStatus      \* Network::nodeStatus: which nodes are online

vars == << systemCount, goOffline, backOnline, nodeStatus >>

Timer == [set : BOOLEAN, target : 0 .. Rollover]
NoTimer == [set |-> FALSE, target |-> 0]

TypeOK ==
    /\ systemCount \in 0 .. Rollover
    /\ goOffline \in [Nodes -> Timer]
    /\ backOnline \in [Nodes -> Timer]
    /\ nodeStatus \in [Nodes -> BOOLEAN]

Init ==
    /\ systemCount = 0
    /\ goOffline = [n \in Nodes |-> NoTimer]
    /\ backOnline = [n \in Nodes |-> NoTimer]
    /\ nodeStatus = [n \in Nodes |-> TRUE]
-----------------------------------------------------------------------------
(* Mutant: the clock rolls over one tick late. *)
RolledOverLate(count) == IF count > Rollover + 1 THEN count - Rollover ELSE count

RolledOver(count) == IF count > Rollover THEN count - Rollover ELSE count

setTimer(units) == [set |-> TRUE, target |-> RolledOver(systemCount + units)]

Ended(timer) == timer.set /\ timer.target <= systemCount

(* checkOffline() *)
GoneOffline == { n \in Nodes : Ended(goOffline[n]) }
WokenUp     == { n \in Nodes : Ended(backOnline[n]) }

(* Mutant: enableNode() is not called. *)
NeverEnabled(n) == IF n \in GoneOffline THEN FALSE ELSE nodeStatus[n]

StatusAfter(n) ==
    IF n \in WokenUp THEN TRUE ELSE IF n \in GoneOffline THEN FALSE ELSE nodeStatus[n]

(* Mutant: the test looks into the other map. *)
NotAboutToLeave(n) == ~goOffline[n].set \/ n \in GoneOffline

(* sendOffline(): only a node without a timer for its return gets new ones. *)
Unscheduled(n) == ~backOnline[n].set \/ n \in WokenUp

(* Mutant: the time offline counts from now, not from going offline. *)
ReturnTooEarly(toDisconnect, offline) == setTimer(offline)

ReturnTimer(toDisconnect, offline) == setTimer(toDisconnect + offline)

(* eventTick(): check the timers, schedule, advance the clock. *)
EventTick ==
    /\ systemCount < LastTick
    /\ \E toDisconnect \in [Nodes -> 1 .. MaxOnline], offline \in [Nodes -> 1 .. MaxOffline] :
         /\ goOffline' = [n \in Nodes |->
                IF Unscheduled(n) THEN setTimer(toDisconnect[n])
                ELSE IF n \in GoneOffline THEN NoTimer ELSE goOffline[n]]
         /\ backOnline' = [n \in Nodes |->
                IF Unscheduled(n) THEN ReturnTimer(toDisconnect[n], offline[n])
                ELSE backOnline[n]]
    /\ nodeStatus' = [n \in Nodes |-> StatusAfter(n)]
    /\ systemCount' = RolledOver(systemCount + 1)

Next == EventTick

Spec == Init /\ [][Next]_vars

(* The main loop calls eventTick() in every tick. *)
FairSpec == Spec /\ WF_vars(Next)
-----------------------------------------------------------------------------
(* "only allow a node to have one offline period set at a time": while a   *)
(* node is offline its return is scheduled and no further outage is.       *)
OnePeriodAtATime ==
    \A n \in Nodes : ~nodeStatus[n] => backOnline[n].set /\ ~goOffline[n].set

(* A node that goes offline comes back, even across a rollover of the      *)
(* clock.                                                                  *)
AlwaysBack == \A n \in Nodes : ~nodeStatus[n] ~> nodeStatus[n]

(* Except when the clock is about to roll over, the timers make every node *)
(* alternate between the times online and offline that were drawn for it.  *)
TicksLeft(n) ==
    IF ~backOnline[n].set THEN 0
    ELSE IF nodeStatus[n] THEN goOffline[n].target - systemCount + 1
         ELSE backOnline[n].target - systemCount + 1

Abstract == INSTANCE Availability WITH
                online <- nodeStatus,
                left   <- [n \in Nodes |-> TicksLeft(n)]

ImplementsAvailability ==
    Abstract!Init
      /\ [][systemCount + MaxOnline + MaxOffline <= Rollover => Abstract!Tick]_<< nodeStatus, [n \in Nodes |-> TicksLeft(n)] >>
=============================================================================
