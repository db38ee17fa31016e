---------------------------- MODULE Availability ----------------------------
(***************************************************************************)
(* What the event generator promises about each node, whatever its timers: *)
(* the node is online for a while, then offline for a while, and so on for *)
(* ever; when a change comes the length of the next while is drawn, and    *)
(* the change after it comes exactly that many ticks later.                *)
(***************************************************************************)
EXTENDS Integers

CONSTANTS
    Nodes,
    MaxOnline,      \* the longest time online that is drawn
    MaxOffline      \* the longest time offline that is drawn

VARIABLES
    online,         \* whether each node is online
    left            \* ticks until that changes; 0 before the first draw

Init ==
    /\ online = [n \in Nodes |-> TRUE]
    /\ left = [n \in Nodes |-> 0]

Waits(n) ==
    /\ left[n] > 1
    /\ left'[n] = left[n] - 1
    /\ online'[n] = online[n]

FirstDraw(n) ==
    /\ left[n] = 0
    /\ left'[n] \in 1 .. MaxOnline
    /\ online'[n] = online[n]

Changes(n) ==
    /\ left[n] = 1
    /\ online'[n] = ~online[n]
    /\ left'[n] \in 1 .. (IF online'[n] THEN MaxOnline ELSE MaxOffline)

Tick ==
    /\ online' \in [Nodes -> BOOLEAN]
    /\ left' \in [Nodes -> Nat]
    /\ \A n \in Nodes : Waits(n) \/ FirstDraw(n) \/ Changes(n)

Spec == Init /\ [][Tick]_<< online, left >>
=============================================================================
