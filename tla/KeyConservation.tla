--------------------------- MODULE KeyConservation ---------------------------
(***************************************************************************)
(* The keys of a simulation as a whole, wherever they are: in blocks, in   *)
(* messages on their way, kept for retransmission, or issued.  The module  *)
(* relates Simulation to the abstract KeyLedger and states what becomes of *)
(* the keys and of the messages that carry them.                           *)
(***************************************************************************)
EXTENDS Simulation, Lists

(* Every message between the queue it was put on and its delivery, with    *)
(* the place where it waits.                                               *)
Waiting(batch) ==
    UNION { UNION { { << n, i, m >> : m \in batch[n][i] } : i \in DOMAIN batch[n] } : n \in Nodes }

InFlight ==
    { << 0, w >> : w \in Waiting([n \in Nodes |-> nodes[n].queue]) }
      \cup { << 1, w >> : w \in Waiting(inbox) }
      \cup UNION { { << 1 + j, w >> : w \in Waiting(toSend[j]) } : j \in DOMAIN toSend }

Carried(f) == KeysOf(f[2][3].blocks)

(* Where key k is: the blocks that contain it, the messages that carry it, *)
(* the nodes that have issued it.                                          *)
BlocksWith(k)   == UNION { { << n, b >> : b \in { c \in nodes[n].keyspaces : k \in Keys(c) } } : n \in Nodes }
MessagesWith(k) == { f \in InFlight : k \in Carried(f) }
Copies(k)       == Len(issued[k]) + Cardinality(BlocksWith(k)) + Cardinality(MessagesWith(k))

AllKeysOnce == \A k \in Key : Copies(k) = 1

(* checkAllKeyspace(): what the nodes hold, and what is in messages that   *)
(* are queued or wait out the latency, in units of a block of the largest  *)
(* stride.  The batch that is being delivered has left the queue.          *)
Whole == MaxKey + 1
Percent(b) == Whole \div b.stride

checkAllKeyspace ==
    LET held  == UNION { { << n, b >> : b \in FullBlocks(nodes[n].keyspaces) } : n \in Nodes }
        sent  == UNION { { << f, b >> : b \in f[2][3].blocks } : f \in { g \in InFlight : g[1] # 1 } }
        share(w) == Percent(w[2])
    IN  FSE!MapThenSumSet(share, held) + FSE!MapThenSumSet(share, sent)
-----------------------------------------------------------------------------
(* The refinement mapping.  A key that is in no place, or in two, has no   *)
(* counterpart in the ledger.                                              *)
placeOf(k) ==
    IF Copies(k) # 1 THEN << "nowhere", Root >>
    ELSE IF issued[k] # << >> THEN << "issued", issued[k][1] >>
    ELSE IF BlocksWith(k) # {} THEN << "held", (CHOOSE w \in BlocksWith(k) : TRUE)[1] >>
    ELSE << "sent", (CHOOSE f \in MessagesWith(k) : TRUE)[2][3].dst >>

Ledger == INSTANCE KeyLedger WITH place <- [k \in Key |-> placeOf(k)]

(* While no node goes offline, every step of the simulation is a step of   *)
(* the ledger: a key is never lost, never in two hands, never issued       *)
(* twice, and every node issues its smallest key first.                    *)
ImplementsLedger == Ledger!LedgerSpec
-----------------------------------------------------------------------------
(* Without outages.                                                        *)

(* Nothing is ever sent twice: by the time the confirmation loop asks      *)
(* whether a message is 2 * latency old, its acknowledgement has come.     *)
NothingResent ==
    [][phase = "deliver" => \A n \in Nodes : nodes'[n].queue = nodes[n].queue]_vars

(* A node hears every message of a peer, in order and without a gap.       *)
HeardInOrder ==
    [][\A n, p \in Nodes :
         nodes'[n].heard[p].id \in { nodes[n].heard[p].id, nodes[n].heard[p].id + 1 }]_vars

(* As long as no block is used up and no node has been offline, the sizes  *)
(* of all blocks add up to the whole keyspace: checkAllKeyspace finds      *)
(* 100 %.                                                                  *)
KeyspaceComplete == (phase # "deliver" /\ outages = 0) => checkAllKeyspace = Whole
-----------------------------------------------------------------------------
(* With outages as well.                                                   *)

(* The confirmation loop never erases the last entry of confirmMsg, after  *)
(* which it would step its iterator past the end (undefined behaviour).    *)
NeverPastEnd ==
    \A n \in NextSender : \A m \in FirstOf(Head(inbox[n])) :
      Arrives(m) => LET st == nodes[m.dst] IN
                    ~stepsPastEnd(st.confirm, m.src, heardAfter(st.heard[m.src], m).ack)

(* What a node keeps of a peer always has the ratios that heartbeat() and  *)
(* adak() read from it: the first message heard is never a keyspace one.   *)
RatiosReadable == \A n, p \in Nodes : nodes[n].heard[p].kind # "keyspace"

(* canSendKeyspace: half of a block is given to a peer only once that peer *)
(* has heard the last keyspace message sent to it.  (What the giver keeps  *)
(* of it need not say so: a keyspace message that is sent again repeats    *)
(* its old acknowledgement and takes the one kept back with it.)           *)
GiveAfterHeard ==
    [][phase = "beat" => \A n, p \in Nodes :
         lastShare'[n][p] # lastShare[n][p] => nodes[p].heard[n].id >= lastShare[n][p]]_vars

(* A key that no node has issued is in a block that a node holds, in a     *)
(* message on its way, or kept to be sent again.                           *)
NoKeyLost ==
    \A k \in Key : \/ issued[k] # << >>
                   \/ BlocksWith(k) # {}
                   \/ MessagesWith(k) # {}
                   \/ \E n \in Nodes : \E e \in nodes[n].confirm : k \in KeysOf(e.msg.blocks)

(* No key is issued twice. *)
IssuedOnce == \A k \in Key : Len(issued[k]) <= 1
-----------------------------------------------------------------------------
(* In a long enough run without outages every node is given keyspace, from *)
(* hand to hand if need be.                                                *)
EveryNodeProvisioned ==
    [](outages = 0) => \A n \in Nodes : <>(nodes[n].keyspaces # {})

(* Once the last outage is over, and if there is time enough left, what    *)
(* was lost is sent again until every node has keyspace.                   *)
Recovery == 2 * (Latency + HeartbeatFrequency)
OutagesOver ==
    /\ outages = MaxOutages
    /\ \A n \in Nodes : online[n]
    /\ now + Recovery <= N - 1 + SimLength

HasHadKeyspace(n) == nodes[n].keyspaces # {} \/ \E k \in Key : n \in SE!ToSet(issued[k])

ProvisionedAfterOutages == OutagesOver ~> \A n \in Nodes : HasHadKeyspace(n)
=============================================================================
