------------------------------ MODULE Statistics ------------------------------
(***************************************************************************)
(* What nodes report about themselves and what adak() concludes from it.   *)
(*                                                                         *)
(* Simulation lets block sharing serve any peers but those it rules out;   *)
(* this module follows the ratios themselves to see when it serves any.    *)
(* They are doubles, some of them x/0 or 0/0; all that is kept of one is   *)
(* whether it is not a number, zero, positive or infinite.  Comparing two  *)
(* positive ones may come out either way (BlockSharing compares them).     *)
(*                                                                         *)
(* A message may arrive at any time after it was sent, out of order, more  *)
(* than once (it is sent again with the record it had) or never; Node and  *)
(* Simulation say which of these happen when.                              *)
(***************************************************************************)
EXTENDS Naturals, FiniteSets

CONSTANTS
    Nodes,
    Root,        \* the node that starts with the whole keyspace
    Links,       \* the pairs of nodes that are peers
    Consumers,   \* the nodes that create objects
    MaxRecords   \* bounds the different records sent to one peer; there are 4

ASSUME NodesAssumption ==
    /\ Root \in Nodes
    /\ Consumers \subseteq Nodes
    /\ \A l \in Links : \E p, q \in Nodes : p # q /\ l = {p, q}
    /\ MaxRecords \in Nat

VARIABLES
    holds,       \* whether a node has any keyspace
    keysUsed,    \* whether it has used any keys
    heard,       \* the record in the last heartbeat heard from each peer
    sent         \* the messages to each peer

vars == << holds, keysUsed, heard, sent >>

Peers(n) == { p \in Nodes : {n, p} \in Links }
-----------------------------------------------------------------------------
(* Doubles. *)
Total(V) == IF "inf" \in V THEN "inf" ELSE IF "pos" \in V THEN "pos" ELSE "zero"

Over(a, b) ==
    IF "nan" \in {a, b} \/ (a = b /\ a \in {"zero", "inf"}) THEN "nan"
    ELSE IF a = "inf" \/ b = "zero" THEN "inf"
    ELSE IF a = "zero" \/ b = "inf" THEN "zero" ELSE "pos"

(* Whether ACE::isLessThan can hold. *)
isLessThan(a, b) == "nan" \notin {a, b} /\ a # "inf" /\ b # "zero"
-----------------------------------------------------------------------------
(* The keys used, at least one, over those from the smallest one left      *)
(* upwards: rounded to zero unless they are many, or the smallest is near  *)
(* the end.                                                                *)
shortTermAllocationRatio == {"zero", "pos"}

(* What a heartbeat says: the keys created, on average, and whether the    *)
(* long and the short ratio are both 1.  (The long ratio of any heartbeat  *)
(* is positive; the short one is only read by subBlocks.)                  *)
Record   == [created : {"zero", "pos"}, empty : BOOLEAN]
NoRecord == [created |-> "none", empty |-> FALSE]

(* A message is known by its record: one with keyspace has none. *)
Message == Record \cup {NoRecord}

Heard(n) == { p \in Peers(n) : heard[n][p] # NoRecord }

Created(n) == IF keysUsed[n] THEN "pos" ELSE "zero"

(* calcLongAggregate() and calcShortAggregate(), which add up alike: what  *)
(* the others reported, scaled, and what the node created itself, divided  *)
(* by their number.                                                        *)
CreatedBy(n, others) == { heard[n][p].created : p \in others } \cup {Created(n)}

(* Mutants: the node itself is not counted; and 1 is substituted for 0.    *)
AggregateOfPeers(n, others) ==
    Over(Total(CreatedBy(n, others)), IF others = {} THEN "zero" ELSE "pos")
AggregateNotZero(n, others) == "pos"

Aggregate(n, others) == Over(Total(CreatedBy(n, others)), "pos")

(* Mutant: the peer that is told is not left out. *)
AggregateOfAll(n, target) == Aggregate(n, Heard(n))

calcAggregate(n, target) == Aggregate(n, Heard(n) \ {target})

(* heartbeat() and getHeartbeatMessage(): the ratios are brought up to     *)
(* date, and a node without keyspace sends ones instead, to get some.      *)
NewRecord(n, target) == [created |-> calcAggregate(n, target), empty |-> ~holds[n]]
-----------------------------------------------------------------------------
(* adak() *)
Askers(n) == { p \in Heard(n) : heard[n][p].empty }

(* canSendKeyspace() says no as long as a keyspace message is unconfirmed; *)
(* when that is, Node follows.                                             *)
canSendKeyspace(n, p) == IF NoRecord \in sent[n][p] THEN BOOLEAN ELSE {TRUE}

provisioning(r) == Over("pos", r.created)
avgProv(n) == Over(Total({ provisioning(heard[n][p]) : p \in Heard(n) }),
                   IF Heard(n) = {} THEN "zero" ELSE "pos")

(* The demand over the supply of the node, whose short ratio is v. *)
provShortRatio(n, v) == Over(Aggregate(n, Heard(n)), v)

(* The peers that may be in deficit.  A peer is below the average only if  *)
(* it is below another one.                                                *)
Deficit(n, v) ==
    { p \in Heard(n) :
        LET prov == provisioning(heard[n][p])
        IN  /\ isLessThan(avgProv(n), provShortRatio(n, v))
            /\ isLessThan(prov, avgProv(n))
            /\ \E q \in Heard(n) \ {p} : isLessThan(prov, provisioning(heard[n][q]))
            /\ isLessThan(Over(prov, provShortRatio(n, v)), "pos")
            /\ ~heard[n][p].empty }
-----------------------------------------------------------------------------
TypeOK ==
    /\ holds \in [Nodes -> BOOLEAN]
    /\ keysUsed \in [Nodes -> BOOLEAN]
    /\ heard \in [Nodes -> [Nodes -> Message]]
    /\ sent \in [Nodes -> [Nodes -> SUBSET Message]]

Init ==
    /\ holds = [n \in Nodes |-> n = Root]
    /\ keysUsed = [n \in Nodes |-> FALSE]
    /\ heard = [n \in Nodes |-> [p \in Nodes |-> NoRecord]]
    /\ sent = [n \in Nodes |-> [p \in Nodes |-> {}]]

(* consumeObjects(): one more key is used, perhaps the last of the node.   *)
Consume(n) ==
    /\ n \in Consumers
    /\ holds[n]
    /\ keysUsed' = [keysUsed EXCEPT ![n] = TRUE]
    /\ \E h \in BOOLEAN : holds' = [holds EXCEPT ![n] = h]
    /\ UNCHANGED << heard, sent >>

(* heartbeat() for one peer.  What was sent may arrive from now on. *)
Heartbeat(n, p) ==
    /\ p \in Peers(n)
    /\ sent' = [sent EXCEPT ![n][p] = @ \cup {NewRecord(n, p)}]
    /\ Cardinality(sent'[n][p] \ {NoRecord}) <= MaxRecords
    /\ UNCHANGED << holds, keysUsed, heard >>

(* receiveMessage(): the record of a heartbeat is kept, in order or not,   *)
(* or the keyspace is taken, again perhaps.                                *)
Receive(n, p) ==
    /\ \E m \in sent[p][n] :
         \/ /\ m # NoRecord
            /\ heard' = [heard EXCEPT ![n][p] = m]
            /\ UNCHANGED holds
         \/ /\ m = NoRecord
            /\ holds' = [holds EXCEPT ![n] = TRUE]
            /\ UNCHANGED heard
    /\ UNCHANGED << keysUsed, sent >>

(* sendCustKeyspace() *)
sendKeyspace(n, S) ==
    sent' = [sent EXCEPT ![n] = [p \in Nodes |-> IF p \in S THEN @[p] \cup {NoRecord} ELSE @[p]]]

(* adak(): half of a block for a peer that asks, or else block sharing.    *)
GiveHalf(n) ==
    /\ holds[n]
    /\ \E p \in Askers(n) : TRUE \in canSendKeyspace(n, p) /\ sendKeyspace(n, {p})
    /\ UNCHANGED << holds, keysUsed, heard >>

(* What is sent for a share depends on the conversion of its digits to     *)
(* int and on the blocks there are: it may be all that the node has        *)
(* (BlockSharing).                                                         *)
ShareBlocks(n) ==
    /\ holds[n]
    /\ \A p \in Askers(n) : FALSE \in canSendKeyspace(n, p)
    /\ \E v \in shortTermAllocationRatio :
         \E D \in SUBSET Deficit(n, v) : D # {} /\ sendKeyspace(n, D)
    /\ \E h \in BOOLEAN : holds' = [holds EXCEPT ![n] = h]
    /\ UNCHANGED << keysUsed, heard >>

Next ==
    \/ \E n \in Nodes : Consume(n) \/ GiveHalf(n) \/ ShareBlocks(n)
    \/ \E n, p \in Nodes : Heartbeat(n, p) \/ Receive(n, p)

Spec == Init /\ [][Next]_vars
-----------------------------------------------------------------------------
(* No block is shared before some node has used a key (adak): before, the  *)
(* ratio of no demand to the supply is never above the average.            *)
SharingNeedsDemand ==
    \A n \in Nodes : \A v \in shortTermAllocationRatio :
      Deficit(n, v) # {} => \E q \in Nodes : keysUsed[q]

(* The nodes that n only hears of from its peer p. *)
Beyond(n, p) ==
    { q \in Nodes : \A S \in SUBSET (Nodes \ {n}) :
                      (p \in S /\ \A a \in S : Peers(a) \ {n} \subseteq S) => q \in S }

(* The aggregates leave out the peer they are for: without cycles of       *)
(* links, what a node hears of demand never is its own coming back to it,  *)
(* however late, often and out of order the records arrive.                *)
NoEcho ==
    \A n \in Nodes : \A p \in Heard(n) :
      heard[n][p].created = "pos" => \E q \in Beyond(n, p) : keysUsed[q]
=============================================================================
