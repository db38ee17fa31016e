-------------------------------- MODULE Node --------------------------------
(***************************************************************************)
(* One node (class Node): the state it keeps and what each of its member   *)
(* functions makes of that state.  The operators are pure; module          *)
(* Simulation applies them to the nodes of a network.                      *)
(*                                                                         *)
(* Nodes are numbers: their order is the order of their UUIDs, in which    *)
(* the code walks its maps.  Allocation ratios and creation rates are      *)
(* abstracted to the one bit that the protocol tests exactly: whether a    *)
(* heartbeat reports both ratios as 1, which it does when the sender       *)
(* holds no block at all.                                                  *)
(***************************************************************************)
EXTENDS Keyspace, Sequences, FiniteSets

CONSTANTS
    N,          \* number of nodes (numNodes)
    Latency     \* ticks from sending to delivery (latency)

ASSUME NAssumption == N \in Nat \ {0, 1}     \* a lone node only broadcasts to nobody
ASSUME LatencyAssumption == Latency \in Nat \ {0}

Nodes == 1 .. N

(* blocks is empty in a heartbeat, empty is FALSE in a keyspace message. *)
Message == [kind : {"info", "keyspace"}, src : Nodes, dst : Nodes,
            id : Nat, ack : Nat, empty : BOOLEAN, blocks : SUBSET Block]

(* The message a node keeps for a peer (peers[p].first), as far as it is   *)
(* read again; kind is "none" for nullptr.                                 *)
Heard == [kind : {"none", "info", "keyspace"}, id : Nat, ack : Nat, empty : BOOLEAN]

NoData == [kind |-> "none", id |-> 0, ack |-> 0, empty |-> FALSE]

(* confirmMsg[id] together with timeStamps[id]: both are maps keyed by the *)
(* message id alone, shared by all the peers of the node.                  *)
Entry == [msg : Message, sent : Nat]

(* heard and nextId are the two halves of the map peers; queue is          *)
(* sendQueue, whose elements are the bursts that one call appends: the     *)
(* heartbeats to all peers, one keyspace message, or the resends to one    *)
(* peer.  Inside a burst the order is that of (dst, id).                   *)
NodeState == [keyspaces : SUBSET Block,
              heard     : [Nodes -> Heard],
              nextId    : [Nodes -> Nat \ {0}],
              confirm   : SUBSET Entry,
              queue     : Seq(SUBSET Message)]

NewNode(blocks) == [keyspaces |-> blocks,
                    heard     |-> [p \in Nodes |-> NoData],
                    nextId    |-> [p \in Nodes |-> 1],
                    confirm   |-> {},
                    queue     |-> << >>]
-----------------------------------------------------------------------------
(* Sending. *)

(* confirmMsg[id] = m and timeStamps[id] = currentTick for each message of *)
(* a burst, in the order of the peers: an entry with the same id is        *)
(* replaced, whichever peer it was for.                                    *)
Filed(confirm, burst, now) ==
    { e \in confirm : \A m \in burst : m.id # e.msg.id }
      \cup { [msg |-> m, sent |-> now] :
               m \in { x \in burst : \A y \in burst : y.id = x.id => y.dst <= x.dst } }

(* The counters after getNextMsgId has been called for each of the peers. *)
idsAfter(st, peers) ==
    [p \in Nodes |-> IF p \in peers THEN st.nextId[p] + 1 ELSE st.nextId[p]]

(* Mutant: a node without blocks reports ratios other than 1. *)
EmptyNotReported(st, n, p) ==
    [kind |-> "info", src |-> n, dst |-> p, id |-> st.nextId[p],
     ack |-> st.heard[p].id, empty |-> FALSE, blocks |-> {}]

heartbeatMessage(st, n, p) ==
    [kind |-> "info", src |-> n, dst |-> p, id |-> st.nextId[p],
     ack |-> st.heard[p].id, empty |-> st.keyspaces = {}, blocks |-> {}]

(* heartbeat(): one message to every peer. *)
heartbeat(st, n, peers, now) ==
    LET burst == { heartbeatMessage(st, n, p) : p \in peers }
    IN  [st EXCEPT !.nextId  = idsAfter(st, peers),
                   !.queue   = Append(@, burst),
                   !.confirm = Filed(@, burst, now)]

(* Mutant: the keyspace message overtakes the heartbeat queued before it. *)
KeyspaceFirst(st, n, p, blocks, now) ==
    LET m == [kind |-> "keyspace", src |-> n, dst |-> p, id |-> st.nextId[p],
              ack |-> st.heard[p].id, empty |-> FALSE, blocks |-> blocks]
    IN  [st EXCEPT !.keyspaces = @ \ blocks,
                   !.nextId    = idsAfter(st, {p}),
                   !.queue     = << {m} >> \o @,
                   !.confirm   = Filed(@, {m}, now)]

(* Mutant: the blocks stay with the node as well. *)
KeyspaceKept(st, n, p, blocks, now) ==
    LET m == [kind |-> "keyspace", src |-> n, dst |-> p, id |-> st.nextId[p],
              ack |-> st.heard[p].id, empty |-> FALSE, blocks |-> blocks]
    IN  [st EXCEPT !.nextId  = idsAfter(st, {p}),
                   !.queue   = Append(@, {m}),
                   !.confirm = Filed(@, {m}, now)]

(* The two sendCustKeyspace: the blocks leave the node at once. *)
sendCustKeyspace(st, n, p, blocks, now) ==
    LET m == [kind |-> "keyspace", src |-> n, dst |-> p, id |-> st.nextId[p],
              ack |-> st.heard[p].id, empty |-> FALSE, blocks |-> blocks]
    IN  [st EXCEPT !.keyspaces = @ \ blocks,
                   !.nextId    = idsAfter(st, {p}),
                   !.queue     = Append(@, {m}),
                   !.confirm   = Filed(@, {m}, now)]

(* Mutant: keyspace is sent whatever is pending. *)
PendingIgnored(st, p) == TRUE

canSendKeyspace(st, p) ==
    ~ \E e \in st.confirm : e.msg.kind # "info" /\ e.msg.dst = p
-----------------------------------------------------------------------------
(* Receiving. *)

(* Mutant: a keyspace message is stored like a heartbeat. *)
KeyspaceStored(h, m) ==
    [kind |-> m.kind, id |-> m.id, ack |-> m.ack, empty |-> m.empty]

(* What the node keeps of its peer once m has come from it.  A heartbeat   *)
(* that is not the next one in order brings new data but keeps the old id  *)
(* and acknowledgement; a keyspace message is taken at its word.           *)
heardAfter(h, m) ==
    CASE h.kind = "none"     -> [kind |-> m.kind, id |-> m.id, ack |-> m.ack, empty |-> m.empty]
      [] h.kind # "none" /\ m.kind = "keyspace" -> [h EXCEPT !.id = m.id, !.ack = m.ack]
      [] h.kind # "none" /\ m.kind = "info" ->
            [kind  |-> "info",
             id    |-> IF m.id = h.id + 1 THEN m.id ELSE h.id,
             ack   |-> IF m.id = h.id + 1 THEN m.ack ELSE h.ack,
             empty |-> m.empty]

(* The entries the confirmation loop looks at.  It erases what the peer    *)
(* has acknowledged and then steps its iterator once more, over the entry  *)
(* that follows the erased one.                                            *)
(* Mutants: any message from the peer confirms; one message too many is    *)
(* confirmed.                                                              *)
AckedUnseen(e, src, ack) == e.msg.dst = src
AckedEarly(e, src, ack) == e.msg.dst = src /\ ack + 1 >= e.msg.id

Acked(e, src, ack) == e.msg.dst = src /\ ack >= e.msg.id

visited(confirm, src, ack) ==
    LET ids == { e.msg.id : e \in confirm }
        Looks[i \in ids] ==
            \A j \in ids :
                (/\ j < i
                 /\ \A k \in ids : k < i => k <= j)      \* j comes just before i
                => ~ (/\ Looks[j]
                      /\ \E e \in confirm : e.msg.id = j /\ Acked(e, src, ack))
    IN  { e \in confirm : Looks[e.msg.id] }

erased(confirm, src, ack) ==
    { e \in visited(confirm, src, ack) : Acked(e, src, ack) }

(* Mutant: resent after one latency instead of two. *)
DueTooSoon(confirm, src, ack, now) ==
    { e \in visited(confirm, src, ack) :
        /\ e.msg.dst = src
        /\ ~Acked(e, src, ack)
        /\ now - e.sent >= Latency }

(* Mutant: nothing is sent again. *)
NeverResent(confirm, src, ack, now) == {}

due(confirm, src, ack, now) ==
    { e \in visited(confirm, src, ack) :
        /\ e.msg.dst = src
        /\ ~Acked(e, src, ack)
        /\ now - e.sent >= 2 * Latency }

(* Erasing the last entry makes the loop step its iterator past end().     *)
stepsPastEnd(confirm, src, ack) ==
    \E e \in erased(confirm, src, ack) : \A f \in confirm : f.msg.id <= e.msg.id

(* receiveMessage(): remember the peer, drop what it confirms, queue again *)
(* what it should have confirmed by now, and take the blocks it sends      *)
(* (a block identical to one already held is not taken twice).             *)
receiveMessage(st, m, now) ==
    LET h      == heardAfter(st.heard[m.src], m)
        gone   == erased(st.confirm, m.src, h.ack)
        resend == due(st.confirm, m.src, h.ack, now)
    IN  [st EXCEPT !.heard     = [@ EXCEPT ![m.src] = h],
                   !.confirm   = (@ \ (gone \cup resend))
                                   \cup { [e EXCEPT !.sent = now] : e \in resend },
                   !.queue     = IF resend = {} THEN @
                                 ELSE Append(@, { e.msg : e \in resend }),
                   !.keyspaces = @ \cup m.blocks]
-----------------------------------------------------------------------------
(* Keys. *)

(* splitKeyspace() *)
splitKeyspace(st, b) ==
    [st EXCEPT !.keyspaces = (@ \ {b}) \cup {FirstHalf(b), SecondHalf(b)}]

(* The blocks minimumKeyspaceIndex may pick. *)
minimumKeyspace(st) ==
    { b \in st.keyspaces :
        /\ isKeyAvailable(b)
        /\ \A c \in st.keyspaces : isKeyAvailable(c) => b.start <= c.start }

(* getNextKey(): b gives the key b.start and is dropped once exhausted. *)
getNextKey(st, b) ==
    [st EXCEPT !.keyspaces = (@ \ {b}) \cup
                             (IF isKeyAvailable(AfterNextKey(b)) THEN {AfterNextKey(b)} ELSE {})]
=============================================================================
