--------------------------- MODULE StatisticsProofs ---------------------------
(***************************************************************************)
(* What the statistics come to, for any nodes and links between them.      *)
(* All of it follows from when a node reports demand: once it has used a   *)
(* key, or while it has a report of demand from another than the one it    *)
(* reports to.  What is said of the records heard must hold of those on    *)
(* their way as well, which may arrive at any time.                        *)
(***************************************************************************)
EXTENDS Statistics, TLAPS

NothingUsed == \A q \in Nodes : ~keysUsed[q]

NothingCreated ==
    \A n, p \in Nodes : /\ heard[n][p].created # "pos"
                        /\ \A m \in sent[n][p] : m.created # "pos"

(* What p has to report to n. *)
Demand(p, n) ==
    keysUsed[p] \/ \E q \in Peers(p) \ {n} : heard[p][q].created = "pos"

IInv == TypeOK /\ (NothingUsed => NothingCreated)
-----------------------------------------------------------------------------
LEMMA OverValues ==
    /\ \A a \in {"zero", "pos"} : Over(a, "pos") = a
    /\ Over("zero", "pos") = "zero"
    /\ Over("zero", "zero") = "nan"
  BY DEF Over

LEMMA TotalOfRates ==
    ASSUME NEW V \in SUBSET {"zero", "pos"}
    PROVE  /\ Total(V) \in {"zero", "pos"}
           /\ "pos" \in V <=> Total(V) = "pos"
  BY DEF Total

(* An aggregate is zero, or positive if the node or one of those counted   *)
(* has created something.                                                  *)
LEMMA AggregateValues ==
    ASSUME TypeOK, NEW n \in Nodes, NEW others \in SUBSET Heard(n)
    PROVE  /\ Aggregate(n, others) \in {"zero", "pos"}
           /\ Aggregate(n, others) = "pos" <=>
                 (keysUsed[n] \/ \E q \in others : heard[n][q].created = "pos")
  <1> DEFINE V == CreatedBy(n, others)
  <1>1. \A q \in others : q \in Nodes /\ heard[n][q] \in Record
    BY DEF Heard, Peers, TypeOK, Message
  <1>2. V \in SUBSET {"zero", "pos"}
    BY <1>1 DEF CreatedBy, Record, Created, TypeOK
  <1>3. "pos" \in V <=> (keysUsed[n] \/ \E q \in others : heard[n][q].created = "pos")
    BY <1>1 DEF CreatedBy, Record, Created, TypeOK
  <1>4. Aggregate(n, others) = Over(Total(V), "pos")
    BY DEF Aggregate
  <1> HIDE DEF V
  <1>5. Total(V) \in {"zero", "pos"} /\ ("pos" \in V <=> Total(V) = "pos")
    BY <1>2, TotalOfRates
  <1> QED
    BY <1>3, <1>4, <1>5, OverValues

(* What a heartbeat says of the creation of keys. *)
LEMMA ReportedDemand ==
    ASSUME TypeOK, NEW p \in Nodes, NEW n \in Nodes
    PROVE  /\ calcAggregate(p, n) \in {"zero", "pos"}
           /\ calcAggregate(p, n) = "pos" <=> Demand(p, n)
  <1>1. Heard(p) \ {n} \in SUBSET Heard(p)
    OBVIOUS
  <1>2. \A q \in Peers(p) : heard[p][q].created = "pos" => q \in Heard(p)
    BY DEF Heard, NoRecord
  <1>3. Heard(p) \subseteq Peers(p)
    BY DEF Heard
  <1> QED
    BY <1>1, <1>2, <1>3, AggregateValues DEF calcAggregate, Demand

LEMMA RecordValues ==
    ASSUME TypeOK, NEW p \in Nodes, NEW n \in Nodes
    PROVE  /\ NewRecord(p, n) \in Record
           /\ NewRecord(p, n).created = "pos" <=> Demand(p, n)
  <1>1. /\ calcAggregate(p, n) \in {"zero", "pos"}
        /\ calcAggregate(p, n) = "pos" <=> Demand(p, n)
    BY ReportedDemand
  <1>2. NewRecord(p, n) = [created |-> calcAggregate(p, n), empty |-> ~holds[p]]
    BY DEF NewRecord
  <1>3. (~holds[p]) \in BOOLEAN
    BY DEF TypeOK
  <1> QED
    BY <1>1, <1>2, <1>3 DEF Record
-----------------------------------------------------------------------------
LEMMA InitHolds == Init => IInv
  <1> SUFFICES ASSUME Init PROVE IInv
    OBVIOUS
  <1>1. TypeOK
    BY DEF Init, TypeOK, Message
  <1>2. NothingCreated
    BY DEF Init, NothingCreated, NoRecord
  <1> QED
    BY <1>1, <1>2 DEF IInv

(* What a heartbeat adds to the messages, and what a message adds to what  *)
(* is heard.                                                               *)
LEMMA HeartbeatSends ==
    ASSUME TypeOK, NEW n \in Nodes, NEW p \in Nodes, Heartbeat(n, p)
    PROVE  /\ TypeOK'
           /\ UNCHANGED << keysUsed, heard >>
           /\ \A a, b \in Nodes : \A m \in sent'[a][b] :
                \/ m \in sent[a][b]
                \/ a = n /\ b = p /\ (m.created = "pos" <=> Demand(n, p))
  <1> DEFINE r == NewRecord(n, p)
  <1>1. UNCHANGED << holds, keysUsed, heard >> /\ sent' = [sent EXCEPT ![n][p] = @ \cup {r}]
    BY DEF Heartbeat
  <1>2. r \in Record /\ (r.created = "pos" <=> Demand(n, p))
    BY RecordValues
  <1> HIDE DEF r
  <1>3. sent' \in [Nodes -> [Nodes -> SUBSET Message]]
    BY <1>1, <1>2 DEF TypeOK, Message
  <1>4. TypeOK'
    BY <1>1, <1>3 DEF TypeOK
  <1>5. \A a, b \in Nodes : sent'[a][b] = IF a = n /\ b = p THEN sent[a][b] \cup {r} ELSE sent[a][b]
    BY <1>1 DEF TypeOK
  <1> QED
    BY <1>1, <1>2, <1>4, <1>5

LEMMA ReceiveHears ==
    ASSUME TypeOK, NEW n \in Nodes, NEW p \in Nodes, Receive(n, p)
    PROVE  /\ TypeOK'
           /\ UNCHANGED << keysUsed, sent >>
           /\ \A a, b \in Nodes : \/ heard'[a][b] = heard[a][b]
                                  \/ a = n /\ b = p /\ heard'[a][b] \in sent[b][a]
  <1>1. PICK m \in sent[p][n] :
          \/ heard' = [heard EXCEPT ![n][p] = m] /\ UNCHANGED holds
          \/ holds' = [holds EXCEPT ![n] = TRUE] /\ UNCHANGED heard
    BY DEF Receive
  <1>2. UNCHANGED << keysUsed, sent >>
    BY DEF Receive
  <1>3. m \in Message
    BY DEF TypeOK
  <1>4. heard' \in [Nodes -> [Nodes -> Message]] /\ holds' \in [Nodes -> BOOLEAN]
    <2>1. heard \in [Nodes -> [Nodes -> Message]] /\ holds \in [Nodes -> BOOLEAN]
      BY DEF TypeOK
    <2>2. [heard EXCEPT ![n][p] = m] \in [Nodes -> [Nodes -> Message]]
      BY <1>3, <2>1
    <2>3. [holds EXCEPT ![n] = TRUE] \in [Nodes -> BOOLEAN]
      BY <2>1
    <2> QED
      BY <1>1, <2>1, <2>2, <2>3
  <1>5. TypeOK'
    BY <1>2, <1>4 DEF TypeOK
  <1>6. \A a, b \in Nodes : \/ heard'[a][b] = heard[a][b]
                            \/ a = n /\ b = p /\ heard'[a][b] = m
    BY <1>1 DEF TypeOK
  <1> QED
    BY <1>2, <1>5, <1>6

(* Giving and sharing send messages without a record. *)
LEMMA KeyspaceSends ==
    ASSUME TypeOK, NEW n \in Nodes, NEW S, sendKeyspace(n, S)
    PROVE  /\ sent' \in [Nodes -> [Nodes -> SUBSET Message]]
           /\ \A a, b \in Nodes : sent'[a][b] \subseteq sent[a][b] \cup {NoRecord}
  <1> DEFINE to == [p \in Nodes |-> IF p \in S THEN sent[n][p] \cup {NoRecord} ELSE sent[n][p]]
  <1>1. sent' = [sent EXCEPT ![n] = to]
    BY DEF sendKeyspace, TypeOK
  <1>2. to \in [Nodes -> SUBSET Message] /\ \A b \in Nodes : to[b] \subseteq sent[n][b] \cup {NoRecord}
    BY DEF TypeOK, Message
  <1> HIDE DEF to
  <1> QED
    BY <1>1, <1>2 DEF TypeOK

(* All other steps leave what is heard alone, take back no use of a key,   *)
(* and send no record.                                                     *)
Silent ==
    /\ TypeOK'
    /\ heard' = heard
    /\ \A q \in Nodes : keysUsed[q] => keysUsed'[q]
    /\ \A a, b \in Nodes : sent'[a][b] \subseteq sent[a][b] \cup {NoRecord}

LEMMA Steps ==
    ASSUME TypeOK, [Next]_vars
    PROVE  \/ \E n, p \in Nodes : Heartbeat(n, p) \/ Receive(n, p)
           \/ Silent
  <1>1. ASSUME NEW n \in Nodes, Consume(n) PROVE Silent
    <2>1. PICK h \in BOOLEAN : holds' = [holds EXCEPT ![n] = h]
      BY <1>1 DEF Consume
    <2>2. keysUsed' = [keysUsed EXCEPT ![n] = TRUE] /\ UNCHANGED << heard, sent >>
      BY <1>1 DEF Consume
    <2> QED
      BY <2>1, <2>2 DEF Silent, TypeOK
  <1>2. ASSUME NEW n \in Nodes, GiveHalf(n) PROVE Silent
    <2>1. PICK p : sendKeyspace(n, {p})
      BY <1>2 DEF GiveHalf
    <2>2. UNCHANGED << holds, keysUsed, heard >>
      BY <1>2 DEF GiveHalf
    <2> QED
      BY <2>1, <2>2, KeyspaceSends DEF Silent, TypeOK
  <1>3. ASSUME NEW n \in Nodes, ShareBlocks(n) PROVE Silent
    <2>1. PICK D : sendKeyspace(n, D)
      BY <1>3 DEF ShareBlocks
    <2>2. PICK h \in BOOLEAN : holds' = [holds EXCEPT ![n] = h]
      BY <1>3 DEF ShareBlocks
    <2>3. UNCHANGED << keysUsed, heard >>
      BY <1>3 DEF ShareBlocks
    <2> QED
      BY <2>1, <2>2, <2>3, KeyspaceSends DEF Silent, TypeOK
  <1>4. CASE UNCHANGED vars
    BY <1>4 DEF vars, Silent, TypeOK
  <1> QED
    BY <1>1, <1>2, <1>3, <1>4 DEF Next

LEMMA NextHolds == IInv /\ [Next]_vars => IInv'
  <1> SUFFICES ASSUME IInv, [Next]_vars PROVE IInv'
    OBVIOUS
  <1>1. CASE Silent
    <2>1. NothingUsed' => NothingUsed
      BY <1>1 DEF Silent, NothingUsed
    <2>2. NothingCreated => NothingCreated'
      BY <1>1 DEF Silent, NothingCreated, NoRecord
    <2> QED
      BY <1>1, <2>1, <2>2 DEF Silent, IInv
  <1>2. ASSUME NEW n \in Nodes, NEW p \in Nodes, Heartbeat(n, p) PROVE IInv'
    <2>1. /\ TypeOK'
          /\ UNCHANGED << keysUsed, heard >>
          /\ \A a, b \in Nodes : \A m \in sent'[a][b] :
               \/ m \in sent[a][b]
               \/ m.created = "pos" <=> Demand(n, p)
      BY <1>2, HeartbeatSends DEF IInv
    <2>2. NothingUsed /\ NothingCreated => ~Demand(n, p)
      BY DEF NothingUsed, NothingCreated, Demand, Peers
    <2> QED
      BY <2>1, <2>2 DEF IInv, NothingUsed, NothingCreated
  <1>3. ASSUME NEW n \in Nodes, NEW p \in Nodes, Receive(n, p) PROVE IInv'
    <2>1. /\ TypeOK'
          /\ UNCHANGED << keysUsed, sent >>
          /\ \A a, b \in Nodes : heard'[a][b] = heard[a][b] \/ heard'[a][b] \in sent[b][a]
      BY <1>3, ReceiveHears DEF IInv
    <2>2. NothingUsed' => NothingUsed
      BY <2>1 DEF NothingUsed
    <2>3. NothingCreated => NothingCreated'
      BY <2>1 DEF NothingCreated
    <2> QED
      BY <2>1, <2>2, <2>3 DEF IInv
  <1> QED
    BY <1>1, <1>2, <1>3, Steps DEF IInv

LEMMA Inductive == Spec => []IInv
  BY InitHolds, NextHolds, PTL DEF Spec

(* Reports and messages stay well formed: what a report says is created is *)
(* always zero or positive, as its divisor is never 0 (calcLongAggregate,  *)
(* calcShortAggregate).                                                    *)
THEOREM StatisticsTypeCorrect == Spec => []TypeOK
  <1>1. IInv => TypeOK
    BY DEF IInv
  <1> QED
    BY <1>1, Inductive, PTL
-----------------------------------------------------------------------------
(* No block is shared before a node has used a key (adak): until then the  *)
(* demand is 0, and its ratio to any supply is not above the average.      *)
THEOREM SharingAfterDemand == Spec => []SharingNeedsDemand
  <1>1. IInv => SharingNeedsDemand
    <2> SUFFICES ASSUME IInv, NothingUsed, NEW n \in Nodes,
                        NEW v \in shortTermAllocationRatio, Deficit(n, v) # {}
                 PROVE  FALSE
      BY DEF SharingNeedsDemand, NothingUsed
    <2>1. isLessThan(avgProv(n), provShortRatio(n, v))
      BY DEF Deficit
    <2>2. Aggregate(n, Heard(n)) = "zero"
      <3>1. \A q \in Heard(n) : q \in Nodes /\ heard[n][q].created # "pos"
        BY DEF IInv, NothingCreated, Heard, Peers
      <3> QED
        BY <3>1, AggregateValues DEF IInv, NothingUsed
    <2>3. provShortRatio(n, v) \in {"nan", "zero"}
      BY <2>2, OverValues DEF provShortRatio, shortTermAllocationRatio
    <2> QED
      BY <2>1, <2>3 DEF isLessThan
  <1> QED
    BY <1>1, Inductive, PTL
-----------------------------------------------------------------------------
(* Without cycles of links, n is not beyond any other peer of its peer p.  *)
NoCycles ==
    \A n \in Nodes : \A p \in Peers(n) : \A q \in Peers(p) \ {n} : n \notin Beyond(p, q)

(* What lies beyond a peer of p lies beyond p, for its other peers.        *)
LEMMA BeyondPeer ==
    ASSUME NoCycles, NEW n \in Nodes, NEW p \in Peers(n), NEW q \in Peers(p) \ {n},
           NEW x \in Beyond(p, q)
    PROVE  x \in Beyond(n, p)
  <1> SUFFICES ASSUME NEW S \in SUBSET (Nodes \ {n}), p \in S,
                      \A a \in S : Peers(a) \ {n} \subseteq S
               PROVE  x \in S
    BY DEF Beyond
  <1> DEFINE T == (S \ {p}) \cap Beyond(p, q)
  <1>1. n \notin Beyond(p, q)
    BY DEF NoCycles
  <1>2. q \in T
    <2>1. q \in S
      BY DEF Peers
    <2>2. q # p /\ q \in Beyond(p, q)
      BY NodesAssumption DEF Peers, Beyond
    <2> QED
      BY <2>1, <2>2
  <1>3. \A a \in T : Peers(a) \ {p} \subseteq T
    <2> SUFFICES ASSUME NEW a \in T, NEW b \in Peers(a) \ {p} PROVE b \in T
      OBVIOUS
    <2>1. b \in Beyond(p, q)
      BY DEF Beyond, Peers
    <2>2. b \in S
      BY <1>1, <2>1
    <2> QED
      BY <2>1, <2>2
  <1>4. T \in SUBSET (Nodes \ {p})
    OBVIOUS
  <1> HIDE DEF T
  <1>5. x \in T
    BY <1>2, <1>3, <1>4 DEF Beyond
  <1> QED
    BY <1>5 DEF T

(* NoEcho, of all peers, and of what is on its way from them. *)
UsedBeyond(n, p) == \E x \in Beyond(n, p) : keysUsed[x]

EchoFree ==
    \A n \in Nodes : \A p \in Peers(n) :
      /\ heard[n][p].created = "pos" => UsedBeyond(n, p)
      /\ \A m \in sent[p][n] : m.created = "pos" => UsedBeyond(n, p)

(* What a has to report to its peer b is from beyond a, for b. *)
LEMMA DemandBeyond ==
    ASSUME NoCycles, EchoFree, NEW b \in Nodes, NEW a \in Peers(b), Demand(a, b)
    PROVE  UsedBeyond(b, a)
  <1>1. CASE keysUsed[a]
    <2>1. a \in Beyond(b, a)
      BY DEF Beyond, Peers
    <2> QED
      BY <1>1, <2>1 DEF UsedBeyond
  <1>2. CASE \E q \in Peers(a) \ {b} : heard[a][q].created = "pos"
    <2>1. PICK q \in Peers(a) \ {b} : heard[a][q].created = "pos"
      BY <1>2
    <2>2. a \in Nodes
      BY DEF Peers
    <2>3. PICK x \in Beyond(a, q) : keysUsed[x]
      BY <2>1, <2>2 DEF EchoFree, UsedBeyond
    <2>4. x \in Beyond(b, a)
      BY BeyondPeer
    <2> QED
      BY <2>3, <2>4 DEF UsedBeyond
  <1> QED
    BY <1>1, <1>2 DEF Demand

LEMMA EchoFreeKept ==
    ASSUME NoCycles, TypeOK, EchoFree, [Next]_vars
    PROVE  EchoFree'
  <1>0. \A n \in Nodes : \A p \in Peers(n) : p \in Nodes
    BY DEF Peers
  <1>1. ASSUME \A q \in Nodes : keysUsed[q] => keysUsed'[q]
        PROVE  \A n, p : UsedBeyond(n, p) => UsedBeyond(n, p)'
    BY <1>1 DEF UsedBeyond, Beyond, Peers
  <1>2. CASE Silent
    <2>1. \A n, p : UsedBeyond(n, p) => UsedBeyond(n, p)'
      BY <1>1, <1>2 DEF Silent
    <2> SUFFICES ASSUME NEW n \in Nodes, NEW p \in Peers(n)
                 PROVE  /\ heard'[n][p].created = "pos" => UsedBeyond(n, p)'
                        /\ \A m \in sent'[p][n] : m.created = "pos" => UsedBeyond(n, p)'
      BY DEF EchoFree, Peers
    <2>2. heard' = heard /\ sent'[p][n] \subseteq sent[p][n] \cup {NoRecord}
      BY <1>0, <1>2 DEF Silent
    <2> QED
      BY <2>1, <2>2 DEF EchoFree, NoRecord
  <1>3. ASSUME NEW a \in Nodes, NEW b \in Nodes, Heartbeat(a, b) PROVE EchoFree'
    <2>1. /\ UNCHANGED << keysUsed, heard >>
          /\ \A c, d \in Nodes : \A m \in sent'[c][d] :
                \/ m \in sent[c][d]
                \/ c = a /\ d = b /\ (m.created = "pos" <=> Demand(a, b))
      BY <1>3, HeartbeatSends
    <2>2. \A n, p : UsedBeyond(n, p) => UsedBeyond(n, p)'
      BY <1>1, <2>1
    <2> SUFFICES ASSUME NEW n \in Nodes, NEW p \in Peers(n)
                 PROVE  /\ heard'[n][p].created = "pos" => UsedBeyond(n, p)'
                        /\ \A m \in sent'[p][n] : m.created = "pos" => UsedBeyond(n, p)'
      BY DEF EchoFree, Peers
    <2>3. heard'[n][p].created = "pos" => UsedBeyond(n, p)'
      BY <2>1, <2>2 DEF EchoFree
    <2>4. ASSUME NEW m \in sent'[p][n], m.created = "pos" PROVE UsedBeyond(n, p)'
      <3>1. CASE m \in sent[p][n]
        BY <2>2, <2>4, <3>1 DEF EchoFree
      <3>2. CASE p = a /\ n = b /\ Demand(a, b)
        BY <2>2, <3>2, DemandBeyond
      <3> QED
        BY <1>0, <2>1, <2>4, <3>1, <3>2
    <2> QED
      BY <2>3, <2>4
  <1>4. ASSUME NEW a \in Nodes, NEW b \in Nodes, Receive(a, b) PROVE EchoFree'
    <2>1. /\ UNCHANGED << keysUsed, sent >>
          /\ \A c, d \in Nodes : heard'[c][d] = heard[c][d] \/ heard'[c][d] \in sent[d][c]
      BY <1>4, ReceiveHears
    <2>2. \A n, p : UsedBeyond(n, p) => UsedBeyond(n, p)'
      BY <1>1, <2>1
    <2> SUFFICES ASSUME NEW n \in Nodes, NEW p \in Peers(n)
                 PROVE  /\ heard'[n][p].created = "pos" => UsedBeyond(n, p)'
                        /\ \A m \in sent'[p][n] : m.created = "pos" => UsedBeyond(n, p)'
      BY DEF EchoFree, Peers
    <2>3. heard'[n][p] = heard[n][p] \/ heard'[n][p] \in sent[p][n]
      BY <1>0, <2>1
    <2> QED
      BY <2>1, <2>2, <2>3 DEF EchoFree
  <1> QED
    BY <1>2, <1>3, <1>4, Steps

(* Without cycles of links, the demand a node hears of is never its own:   *)
(* some node beyond the peer it hears it from has used a key, however late *)
(* and often reports arrive (calcLongAggregate, calcShortAggregate leave   *)
(* out the target).                                                        *)
THEOREM NoDemandComesBack ==
    ASSUME NoCycles
    PROVE  Spec => []NoEcho
  <1>1. Init => EchoFree
    <2> SUFFICES ASSUME Init, NEW n \in Nodes, NEW p \in Peers(n)
                 PROVE  heard[n][p].created # "pos" /\ sent[p][n] = {}
      BY DEF EchoFree
    <2> QED
      BY DEF Init, NoRecord, Peers
  <1>2. TypeOK /\ EchoFree /\ [Next]_vars => EchoFree'
    BY EchoFreeKept
  <1>3. EchoFree => NoEcho
    BY DEF EchoFree, NoEcho, Heard, UsedBeyond
  <1> QED
    BY <1>1, <1>2, <1>3, StatisticsTypeCorrect, PTL DEF Spec
=============================================================================
