----------------------------- MODULE Simulation -----------------------------
(***************************************************************************)
(* The program: Simulation::run driving a Network of nodes, tick by tick.  *)
(* It is one thread; the steps of the model are the calls its loops make.  *)
(*                                                                         *)
(*   setup  (one tick per node that joins):                                *)
(*       add -> [beat -> share]* -> collect -> deliver* -> tick            *)
(*   run    (SimLength ticks):                                             *)
(*       collect -> deliver* -> [beat -> share]* -> [events] -> consume*   *)
(*       -> tick                                                           *)
(*                                                                         *)
(* The heartbeat phase comes only every HeartbeatFrequency ticks.          *)
(***************************************************************************)
EXTENDS ControlStrategy

CONSTANTS
    JoinOrder,           \* the order in which the nodes are added; the first is the root
    Links,               \* the pairs of nodes that get a channel (connectionMode)
    HeartbeatFrequency,  \* ticks between heartbeats (heartbeatFrequency)
    SimLength,           \* ticks to simulate once all nodes are there (simLength)
    RunEvents,           \* whether nodes go offline (runEvents)
    Consumers,           \* the nodes that create objects at all (custom lambda 3)
    MaxOutages           \* bound of the model: how many times a node may go offline

ASSUME JoinOrderAssumption ==
    /\ JoinOrder \in [1 .. N -> Nodes]
    /\ \A n \in Nodes : \E i \in 1 .. N : JoinOrder[i] = n
ASSUME LinksAssumption ==      \* every node is linked to one that joined before it
    /\ \A l \in Links : \E p, q \in Nodes : p # q /\ l = {p, q}
    /\ \A i \in 2 .. N : \E j \in 1 .. (i - 1) : {JoinOrder[i], JoinOrder[j]} \in Links
ASSUME ScheduleAssumption ==
    /\ HeartbeatFrequency \in Nat \ {0}
    /\ SimLength \in Nat
    /\ MaxOutages \in Nat
    /\ RunEvents \in BOOLEAN
    /\ Consumers \subseteq Nodes

VARIABLES
    nodes,         \* the state of every node
    toSend,        \* batches waiting out the latency, oldest first
    inbox,         \* what is left of the batch being delivered, by sender
    latencyStall,  \* how many batches are held back so far
    online,        \* nodeStatus
    outages,       \* how many times a node has gone offline (bounds the model)
    now,           \* ticks done (every node's currentTick, up to an offset)
    phase,         \* the call of the loop that comes next
    turn,          \* position in JoinOrder of the node whose turn it is
    deficit,       \* peers that block sharing still has to serve
    digit,         \* the binary digit it has reached, as a stride
    issued,        \* history: the nodes that have handed out each key, in turn
    lastShare      \* history: id of the last keyspace message from one node to another

vars == << nodes, toSend, inbox, latencyStall, online, outages, now, phase, turn,
           deficit, digit, issued, lastShare >>
network == << toSend, inbox, latencyStall >>
status  == << online, outages >>
sharing == << deficit, digit >>
history == << issued, lastShare >>

Root == JoinOrder[1]
Peers(n, joined) == { p \in joined : {n, p} \in Links }

Batch == [Nodes -> Seq(SUBSET Message)]
NoMessages == [n \in Nodes |-> << >>]

(* Setup adds node number now + 2 in the tick now. *)
InSetup == now < N - 1
JoinedCount == IF ~InSetup THEN N ELSE IF phase = "add" THEN now + 1 ELSE now + 2
Joined == { JoinOrder[i] : i \in 1 .. JoinedCount }

HeartbeatDue ==
    (IF InSetup THEN now + 1 ELSE now - (N - 1)) % HeartbeatFrequency = 0

AfterAdd     == IF HeartbeatDue THEN "beat" ELSE "collect"
AfterBeats   == IF InSetup THEN "collect" ELSE IF RunEvents THEN "events" ELSE "consume"
AfterDeliver == IF InSetup THEN "tick" ELSE IF HeartbeatDue THEN "beat" ELSE AfterBeats
AfterTick    == IF now + 1 < N - 1 THEN "add"
                ELSE IF now + 1 = N - 1 + SimLength THEN "done" ELSE "collect"

TypeOK ==
    /\ nodes \in [Nodes -> NodeState]
    /\ toSend \in Seq(Batch)
    /\ inbox \in Batch
    /\ latencyStall \in Nat \ {0}
    /\ online \in [Nodes -> BOOLEAN]
    /\ outages \in Nat
    /\ now \in Nat
    /\ phase \in {"add", "beat", "share", "collect", "deliver", "events",
                  "consume", "tick", "done", "died"}
    /\ turn \in 1 .. N
    /\ deficit \in SUBSET Nodes
    /\ digit \in Nat
    /\ issued \in [Key -> Seq(Nodes)]
    /\ lastShare \in [Nodes -> [Nodes -> Nat]]

Init ==
    /\ nodes = [n \in Nodes |-> NewNode(IF n = Root THEN {RootBlock} ELSE {})]
    /\ toSend = << >>
    /\ inbox = NoMessages
    /\ latencyStall = 1
    /\ online = [n \in Nodes |-> TRUE]
    /\ outages = 0
    /\ now = 0
    /\ phase = "add"
    /\ turn = 1
    /\ deficit = {}
    /\ digit = 1
    /\ issued = [k \in Key |-> << >>]
    /\ lastShare = [n \in Nodes |-> [p \in Nodes |-> 0]]
-----------------------------------------------------------------------------
(* An exception that nothing catches ends the program. *)
Dies == phase' = "died" /\ UNCHANGED << nodes, network, status, now, turn, sharing, history >>

(* addEmptyNode(): the node and its channels. *)
AddNode ==
    /\ phase = "add"
    /\ phase' = AfterAdd
    /\ UNCHANGED << nodes, network, status, now, turn, sharing, history >>
-----------------------------------------------------------------------------
(* doAllHeartbeat(): for each node heartbeat(), then adak().               *)

InTurn == JoinOrder[turn]
PeersInTurn == Peers(InTurn, Joined)
Beaten == heartbeat(nodes[InTurn], InTurn, PeersInTurn, now)

NextTurn == IF turn < JoinedCount
            THEN turn' = turn + 1 /\ phase' = "beat"
            ELSE turn' = 1 /\ phase' = AfterBeats

NoteShare(p) ==
    lastShare' = [lastShare EXCEPT ![InTurn][p] = nodes'[InTurn].nextId[p] - 1]

BeatAndGive ==
    /\ phase = "beat"
    /\ \E p \in FirstAsker(Beaten, PeersInTurn), b \in Largest(Beaten.keyspaces) :
         IF SplitThrows(b) THEN Dies
         ELSE /\ nodes' = [nodes EXCEPT ![InTurn] = giveHalf(Beaten, InTurn, p, b, now)]
              /\ NoteShare(p)
              /\ NextTurn
              /\ UNCHANGED << network, status, now, sharing, issued >>

BeatOnly ==
    /\ phase = "beat"
    /\ FirstAsker(Beaten, PeersInTurn) = {}
    /\ nodes' = [nodes EXCEPT ![InTurn] = Beaten]
    /\ NextTurn
    /\ UNCHANGED << network, status, now, sharing, history >>

(* Peers below the average: never all of those heard, and none that        *)
(* reported an empty keyspace.                                             *)
HeardPeers(st) == { p \in PeersInTurn : st.heard[p].kind # "none" }

BeatThenShare ==
    /\ phase = "beat"
    /\ Beaten.keyspaces # {}
    /\ FirstAsker(Beaten, PeersInTurn) = {}
    /\ \E D \in SUBSET { p \in HeardPeers(Beaten) : ~Beaten.heard[p].empty } :
         /\ D # {}
         /\ D # HeardPeers(Beaten)
         /\ deficit' = D
    /\ nodes' = [nodes EXCEPT ![InTurn] = Beaten]
    /\ phase' = "share"
    /\ UNCHANGED << network, status, now, turn, digit, history >>

(* The loops over the peers in deficit and over the digits of their share. *)
Neediest == { p \in deficit : \A q \in deficit : p <= q }

ShareDigit ==
    /\ phase = "share"
    /\ \E p \in Neediest, w \in Strides :
         /\ w > digit
         /\ \E s \in Shares(nodes[InTurn].keyspaces, w) :
              IF ShareThrows(s) THEN Dies
              ELSE /\ nodes' = [nodes EXCEPT ![InTurn] = shareBlocks(@, InTurn, p, s, now)]
                   /\ NoteShare(p)
                   /\ digit' = w
                   /\ UNCHANGED << network, status, now, phase, turn, deficit, issued >>

ShareNext ==
    /\ phase = "share"
    /\ deficit' = deficit \ Neediest
    /\ digit' = 1
    /\ IF deficit' = {} THEN NextTurn ELSE UNCHANGED << phase, turn >>
    /\ UNCHANGED << nodes, network, status, now, history >>
-----------------------------------------------------------------------------
(* checkAndSendAllNodesLatency(): take what the nodes have queued, then    *)
(* deliver the oldest batch once enough of them are held back.             *)

Collect ==
    LET batch  == [n \in Nodes |-> nodes[n].queue]
        queued == Append(toSend, batch)
    IN  /\ phase = "collect"
        /\ nodes' = [n \in Nodes |-> [nodes[n] EXCEPT !.queue = << >>]]
        /\ IF Latency > latencyStall
           THEN /\ latencyStall' = latencyStall + 1
                /\ toSend' = queued
                /\ UNCHANGED inbox
           ELSE /\ inbox' = Head(queued)
                /\ toSend' = Tail(queued)
                /\ UNCHANGED latencyStall
        /\ phase' = IF inbox' = NoMessages THEN AfterDeliver ELSE "deliver"
        /\ UNCHANGED << status, now, turn, sharing, history >>

(* The next message of the batch: senders in UUID order, each one's        *)
(* messages in the order it queued them.                                   *)
NextSender == { n \in Nodes : /\ inbox[n] # << >>
                              /\ \A q \in Nodes : inbox[q] # << >> => n <= q }
FirstOf(burst) ==
    { m \in burst : \A x \in burst : m.dst < x.dst \/ (m.dst = x.dst /\ m.id <= x.id) }
InboxAfter(n, m) ==
    [inbox EXCEPT ![n] = IF Head(@) = {m} THEN Tail(@) ELSE << Head(@) \ {m} >> \o Tail(@)]

(* sendMsg(): a message between two nodes that are online when the batch   *)
(* is delivered arrives; any other is gone.                                *)
Arrives(m) == online[m.src] /\ online[m.dst]

Deliver ==
    /\ phase = "deliver"
    /\ \E n \in NextSender : \E m \in FirstOf(Head(inbox[n])) :
         /\ IF Arrives(m)
            THEN nodes' = [nodes EXCEPT ![m.dst] = receiveMessage(@, m, now)]
            ELSE UNCHANGED nodes
         /\ inbox' = InboxAfter(n, m)
    /\ phase' = IF inbox' = NoMessages THEN AfterDeliver ELSE "deliver"
    /\ UNCHANGED << toSend, latencyStall, status, now, turn, sharing, history >>
-----------------------------------------------------------------------------
(* eventTick(): nodes go offline and come back; none in the first tick.    *)
Events ==
    /\ phase = "events"
    /\ \E toggled \in SUBSET Nodes :
         /\ now = N - 1 => toggled = {}
         /\ outages + Cardinality({ n \in toggled : online[n] }) <= MaxOutages
         /\ outages' = outages + Cardinality({ n \in toggled : online[n] })
         /\ online' = [n \in Nodes |-> (n \in toggled) # online[n]]
    /\ phase' = "consume"
    /\ UNCHANGED << nodes, network, now, turn, sharing, history >>

(* tellAllNodesToConsumeObjects(): a node that has used up a whole key     *)
(* takes the next one.                                                     *)
(* Mutant: the loop over the nodes runs one too far. *)
ConsumerPastLast == IF turn <= N
                    THEN turn' = turn + 1 /\ phase' = "consume"
                    ELSE turn' = 1 /\ phase' = "tick"

NextConsumer == IF turn < N
                THEN turn' = turn + 1 /\ phase' = "consume"
                ELSE turn' = 1 /\ phase' = "tick"

ConsumeKey ==
    /\ phase = "consume"
    /\ InTurn \in Consumers
    /\ \E b \in minimumKeyspace(nodes[InTurn]) :
         /\ nodes' = [nodes EXCEPT ![InTurn] = getNextKey(@, b)]
         /\ issued' = [issued EXCEPT ![b.start] = Append(@, InTurn)]
    /\ NextConsumer
    /\ UNCHANGED << network, status, now, sharing, lastShare >>

ConsumeNothing ==
    /\ phase = "consume"
    /\ NextConsumer
    /\ UNCHANGED << nodes, network, status, now, sharing, history >>

(* doAllTicks() *)
Tick ==
    /\ phase = "tick"
    /\ now' = now + 1
    /\ phase' = AfterTick
    /\ UNCHANGED << nodes, network, status, turn, sharing, history >>

Next ==
    \/ AddNode \/ Tick
    \/ BeatAndGive \/ BeatOnly \/ BeatThenShare \/ ShareDigit \/ ShareNext
    \/ Collect \/ Deliver
    \/ Events \/ ConsumeKey \/ ConsumeNothing

Spec == Init /\ [][Next]_vars

(* One thread: while the program has a step to take, it takes one. *)
FairSpec == Spec /\ WF_vars(Next)
=============================================================================
