---------------------------- MODULE TopologyProofs ----------------------------
(***************************************************************************)
(* Proofs about module Topology, for every set of nodes and every mode:    *)
(* what channels and peers have to do with each other, and what the setup  *)
(* leaves in mode single.  The properties of peers speak of all pairs of   *)
(* nodes and are inductive once the variables are typed; the work is in    *)
(* the pairs that connectNodes adds.  The spanning tree counts channels    *)
(* and nodes, which are finitely many at any time.                         *)
(***************************************************************************)
EXTENDS Topology, FiniteSetTheorems, TLAPS

LEMMA InitTypeOK == Init => TypeOK
BY DEF Init, TypeOK

(* What connecting the pairs asked for means for a pair of nodes. *)
LEMMA ConnectedPairs ==
    ASSUME TypeOK, NEW asked, connectNodes(asked), NEW p \in Nodes, NEW q \in Nodes
    PROVE  LET new(a, b) == << a, b >> \in asked /\ a # b /\ ~channelExists(a, b)
           IN  /\ channelExists(p, q)' <=> channelExists(p, q) \/ new(p, q) \/ new(q, p)
               /\ q \in peers'[p] <=> q \in peers[p] \/ new(p, q) \/ new(q, p)
<1> DEFINE fresh == { l \in asked : l[1] # l[2] /\ ~channelExists(l[1], l[2]) }
<1>1. channels' = channels \cup fresh /\ peers' = addPeers(fresh)
  BY DEF connectNodes
<1>2. \A a, b : << a, b >> \in fresh <=> << a, b >> \in asked /\ a # b /\ ~channelExists(a, b)
  OBVIOUS
<1> HIDE DEF fresh
<1>3. channelExists(p, q)' <=>
          channelExists(p, q) \/ << p, q >> \in fresh \/ << q, p >> \in fresh
  BY <1>1 DEF channelExists
<1>4. peers'[p] = peers[p] \cup { r \in Nodes : << p, r >> \in fresh \/ << r, p >> \in fresh }
  BY <1>1 DEF addPeers
<1>5. q \in peers'[p] <=> q \in peers[p] \/ << p, q >> \in fresh \/ << q, p >> \in fresh
  BY <1>4
<1> QED
  BY <1>2, <1>3, <1>5

(* Every step connects nodes that are there or that it adds, or adds a     *)
(* node without any connection, or disconnects two nodes.                  *)
Connects == \E n \in Nodes :
                /\ joined' = joined \cup {n}
                /\ UNCHANGED connectionType
                /\ \E asked \in SUBSET (joined' \X joined') :
                     connectNodes(asked)
Adds == \E n \in Nodes :
            joined' = joined \cup {n} /\ UNCHANGED << connectionType, channels, peers >>
Disconnects == \E p, q \in Nodes : Disconnect(p, q)

LEMMA ConnectTypeOK == ASSUME TypeOK, Connects PROVE TypeOK'
<1>1. PICK n \in Nodes : /\ joined' = joined \cup {n}
                         /\ UNCHANGED connectionType
                         /\ \E asked \in SUBSET (joined' \X joined') : connectNodes(asked)
  BY DEF Connects
<1>2. PICK asked \in SUBSET (joined' \X joined') : connectNodes(asked)
  BY <1>1
<1> DEFINE fresh == { l \in asked : l[1] # l[2] /\ ~channelExists(l[1], l[2]) }
<1>3. channels' = channels \cup fresh /\ peers' = addPeers(fresh)
  BY <1>2 DEF connectNodes
<1>4. joined \subseteq joined' /\ joined' \subseteq Nodes
  BY <1>1 DEF TypeOK
<1>5. fresh \subseteq joined' \X joined'
  OBVIOUS
<1> HIDE DEF fresh
<1>6. channels \subseteq joined' \X joined'
  BY <1>4 DEF TypeOK
<1>7. \A p \in Nodes :
        peers[p] \cup { q \in Nodes : << p, q >> \in fresh \/ << q, p >> \in fresh } \subseteq joined'
  BY <1>4, <1>5 DEF TypeOK
<1>8. peers' \in [Nodes -> SUBSET joined']
  BY <1>3, <1>7 DEF addPeers
<1> QED
  BY <1>1, <1>3, <1>4, <1>5, <1>6, <1>8 DEF TypeOK

(* A node that joins asks for pairs of itself and nodes that are there. *)
LEMMA JoinLinks ==
    ASSUME NEW n \in Nodes, connectNodeToNetwork(n)
    PROVE  \/ \E asked \in SUBSET ((joined \cup {n}) \X (joined \cup {n})) : connectNodes(asked)
           \/ UNCHANGED << channels, peers >>
<1> DEFINE Pairs == (joined \cup {n}) \X (joined \cup {n})
<1>1. CASE connectNodes({n} \X joined)
  <2>1. {n} \X joined \in SUBSET Pairs
    OBVIOUS
  <2> QED
    BY <1>1, <2>1
<1>2. ASSUME NEW p \in joined, connectNodes({<< n, p >>})
      PROVE  \E asked \in SUBSET Pairs : connectNodes(asked)
  <2>1. {<< n, p >>} \in SUBSET Pairs
    OBVIOUS
  <2> QED
    BY <1>2, <2>1
<1>3. ASSUME NEW p \in joined, NEW c, connectNodes(partialLinks(c) \cup {<< n, p >>})
      PROVE  \E asked \in SUBSET Pairs : connectNodes(asked)
  <2>1. partialLinks(c) \cup {<< n, p >>} \in SUBSET Pairs
    BY DEF partialLinks
  <2> QED
    BY <1>3, <2>1
<1> QED
  BY <1>1, <1>2, <1>3 DEF connectNodeToNetwork, OtherNode

LEMMA SetupSteps == Setup => Connects \/ Adds
<1> SUFFICES ASSUME NEW n \in Nodes, AddEmptyNode(n) PROVE Connects \/ Adds
  BY DEF Setup, Adds, AddRoot
<1>1. joined' = joined \cup {n} /\ UNCHANGED connectionType /\ connectNodeToNetwork(n)
  BY DEF AddEmptyNode
<1> QED
  BY <1>1, JoinLinks DEF Connects, Adds

LEMMA ConnectSteps == \A p, q \in Nodes : Connect(p, q) => Connects
<1> SUFFICES ASSUME NEW p \in Nodes, NEW q \in Nodes, Connect(p, q) PROVE Connects
  OBVIOUS
<1>1. /\ {<< p, q >>} \in SUBSET (joined' \X joined')
      /\ connectNodes({<< p, q >>})
      /\ joined' = joined \cup {p} /\ UNCHANGED connectionType
  BY DEF Connect
<1> QED
  BY <1>1 DEF Connects

LEMMA NextSteps == Next => Connects \/ Adds \/ Disconnects
BY SetupSteps, ConnectSteps DEF Next, Disconnects

LEMMA StepTypeOK ==
    ASSUME TypeOK, Connects \/ Adds \/ Disconnects PROVE TypeOK'
<1>1. CASE Connects
  BY <1>1, ConnectTypeOK DEF Connects
<1>2. CASE Adds
  BY <1>2 DEF Adds, TypeOK
<1>3. CASE Disconnects
  BY <1>3 DEF Disconnects, Disconnect, removePeer, TypeOK
<1> QED
  BY <1>1, <1>2, <1>3
-----------------------------------------------------------------------------
(* The nodes, channels and peers are always those of nodes that have       *)
(* joined.                                                                 *)
THEOREM TopologyTypeCorrect == Spec => []TypeOK
<1>1. TypeOK /\ [Next]_vars => TypeOK'
  <2>1. TypeOK /\ UNCHANGED vars => TypeOK'
    BY DEF TypeOK, vars
  <2> QED
    BY <2>1, NextSteps, StepTypeOK
<1> QED
  BY InitTypeOK, <1>1, PTL DEF Spec

(* The two ends of a channel know each other as peers, whatever nodes are  *)
(* added, connected and disconnected.                                      *)
THEOREM EndsArePeers == Spec => []ChannelEndsArePeers
<1>1. Init => ChannelEndsArePeers
  BY DEF Init, ChannelEndsArePeers, channelExists
<1>2. TypeOK /\ ChannelEndsArePeers /\ [Next]_vars => ChannelEndsArePeers'
  <2> SUFFICES ASSUME TypeOK, ChannelEndsArePeers, [Next]_vars,
                      NEW p \in Nodes, NEW q \in Nodes, channelExists(p, q)'
               PROVE  q \in peers'[p]
    BY DEF ChannelEndsArePeers
  <2>1. CASE Connects
    <3>1. PICK asked : connectNodes(asked)
      BY <2>1 DEF Connects
    <3> QED
      BY <3>1, ConnectedPairs DEF ChannelEndsArePeers
  <2>2. CASE Adds
    BY <2>2 DEF Adds, ChannelEndsArePeers, channelExists
  <2>3. CASE Disconnects
    BY <2>3 DEF Disconnects, Disconnect, removePeer, ChannelEndsArePeers, channelExists
  <2>4. CASE UNCHANGED vars
    BY <2>4 DEF vars, ChannelEndsArePeers, channelExists
  <2> QED
    BY <2>1, <2>2, <2>3, <2>4, NextSteps
<1> QED
  BY <1>1, <1>2, TopologyTypeCorrect, PTL DEF Spec

(* Connecting nodes, while a network is set up or afterwards, keeps the    *)
(* peers of a node exactly the nodes it has a channel with.                *)
THEOREM ConnectedPeers == Spec => ConnectingKeepsPeers
<1> DEFINE Joins == Setup \/ \E p, q \in Nodes : Connect(p, q)
<1>1. TypeOK /\ Joins /\ PeersAreChannels => PeersAreChannels'
  <2> SUFFICES ASSUME TypeOK, Joins, PeersAreChannels,
                      NEW p \in Nodes, NEW q \in Nodes
               PROVE  q \in peers'[p] <=> channelExists(p, q)'
    BY DEF PeersAreChannels
  <2>1. CASE Connects
    <3>1. PICK asked : connectNodes(asked)
      BY <2>1 DEF Connects
    <3> QED
      BY <3>1, ConnectedPairs DEF PeersAreChannels
  <2>2. CASE Adds
    BY <2>2 DEF Adds, PeersAreChannels, channelExists
  <2> QED
    BY <2>1, <2>2, SetupSteps, ConnectSteps
<1>2. TypeOK => [Joins /\ PeersAreChannels => PeersAreChannels']_vars
  BY <1>1
<1> QED
  BY <1>2, TopologyTypeCorrect, PTL DEF ConnectingKeepsPeers

(* As long as nodes are only added, as in a simulation, the peers of a     *)
(* node are exactly the nodes it has a channel with.                       *)
THEOREM SetupKeepsPeersAndChannels == SetupSpec => []PeersAreChannels
<1>1. Init => PeersAreChannels
  BY DEF Init, PeersAreChannels, channelExists
<1>2. [Setup]_vars => [Next]_vars
  BY DEF Next
<1>3. PeersAreChannels /\ [Setup]_vars
        /\ [(Setup \/ \E p, q \in Nodes : Connect(p, q)) /\ PeersAreChannels
               => PeersAreChannels']_vars
      => PeersAreChannels'
  BY DEF vars, PeersAreChannels, channelExists
<1> QED
  BY <1>1, <1>2, <1>3, ConnectedPeers, PTL DEF SetupSpec, Spec, ConnectingKeepsPeers
-----------------------------------------------------------------------------
(* The spanning tree.  Nodes join one by one, so that there are finitely   *)
(* many of them, whatever Nodes is, and their number means something.      *)

FinitelyMany == IsFiniteSet(joined) /\ IsFiniteSet(channels)

LEMMA StepFinite ==
    ASSUME FinitelyMany, Connects \/ Adds \/ Disconnects
    PROVE  FinitelyMany'
<1>1. \A n : IsFiniteSet(joined \cup {n})
  BY FS_AddElement DEF FinitelyMany
<1>2. CASE Connects
  <2>1. PICK n \in Nodes : /\ joined' = joined \cup {n}
                           /\ \E asked \in SUBSET (joined' \X joined') : connectNodes(asked)
    BY <1>2 DEF Connects
  <2>2. PICK asked \in SUBSET (joined' \X joined') : connectNodes(asked)
    BY <2>1
  <2> DEFINE fresh == { l \in asked : l[1] # l[2] /\ ~channelExists(l[1], l[2]) }
  <2>3. channels' = channels \cup fresh
    BY <2>2 DEF connectNodes
  <2>4. IsFiniteSet(joined' \X joined')
    BY <1>1, <2>1, FS_Product
  <2>5. IsFiniteSet(fresh)
    BY <2>4, FS_Subset
  <2> QED
    BY <1>1, <2>1, <2>3, <2>5, FS_Union DEF FinitelyMany
<1>3. CASE Adds
  BY <1>1, <1>3 DEF Adds, FinitelyMany
<1>4. CASE Disconnects
  <2>1. joined' = joined /\ channels' \subseteq channels
    BY <1>4 DEF Disconnects, Disconnect
  <2> QED
    BY <2>1, FS_Subset DEF FinitelyMany
<1> QED
  BY <1>2, <1>3, <1>4

LEMMA AlwaysFinite == Spec => []FinitelyMany
<1>1. Init => FinitelyMany
  BY FS_EmptySet DEF Init, FinitelyMany
<1>2. FinitelyMany /\ [Next]_vars => FinitelyMany'
  <2>1. FinitelyMany /\ UNCHANGED vars => FinitelyMany'
    BY DEF FinitelyMany, vars
  <2> QED
    BY <2>1, NextSteps, StepFinite
<1> QED
  BY <1>1, <1>2, PTL DEF Spec

(* No part of the nodes is cut off. *)
Connected == \A S \in SUBSET joined :
                S # {} /\ S # joined => \E p \in S, q \in joined \ S : channelExists(p, q)

(* A leaf: a new node with one channel, to a node that is there. *)
LEMMA LeafConnected ==
    ASSUME Connected, NEW n, n \notin joined, NEW r \in joined,
           joined' = joined \cup {n}, channels' = channels \cup {<< n, r >>}
    PROVE  Connected'
<1>1. /\ \A p, q : channelExists(p, q) => channelExists(p, q)'
      /\ channelExists(n, r)' /\ channelExists(r, n)'
  BY DEF channelExists
<1> SUFFICES ASSUME NEW S, S \subseteq joined', S # {}, S # joined'
             PROVE  \E p \in S, q \in joined' \ S : channelExists(p, q)'
  BY DEF Connected
<1> DEFINE T == S \ {n}
<1>2. CASE T # {} /\ T # joined
  <2>1. T \in SUBSET joined
    OBVIOUS
  <2>2. PICK p \in T, q \in joined \ T : channelExists(p, q)
    BY <1>2, <2>1 DEF Connected
  <2>3. p \in S /\ q \in joined' \ S
    BY <2>2
  <2> QED
    BY <1>1, <2>2, <2>3
<1>3. CASE T = {}
  <2>1. n \in S /\ r \in joined' \ S
    BY <1>3
  <2> QED
    BY <1>1, <2>1
<1>4. CASE T = joined
  <2>1. r \in S /\ n \in joined' \ S
    BY <1>4
  <2> QED
    BY <1>1, <2>1
<1> QED
  BY <1>2, <1>3, <1>4

LEMMA RootTree ==
    ASSUME TypeOK, NEW n \in Nodes, AddRoot(n)
    PROVE  SpanningTree'
<1>1. joined' = {n} /\ channels' = {}
  BY DEF AddRoot, TypeOK
<1>2. Cardinality(channels') = 0 /\ Cardinality(joined') = 1
  BY <1>1, FS_EmptySet, FS_Singleton
<1>3. \A S \in SUBSET joined' : S = {} \/ S = joined'
  BY <1>1
<1> QED
  BY <1>2, <1>3 DEF SpanningTree

LEMMA LeafTree ==
    ASSUME TypeOK, FinitelyMany, SpanningTree, NEW n \in Nodes, AddEmptyNode(n)
    PROVE  SpanningTree'
<1>1. joined # {} /\ n \notin joined /\ joined' = joined \cup {n} /\ connectionType' = connectionType
  BY DEF AddEmptyNode
<1> SUFFICES ASSUME connectionType = "single" PROVE SpanningTree'
  BY <1>1 DEF SpanningTree
<1>2. Cardinality(channels) = Cardinality(joined) - 1 /\ Connected
  BY <1>1 DEF SpanningTree, Connected
<1>3. PICK r \in joined : connectNodes({<< n, r >>})
  BY DEF AddEmptyNode, connectNodeToNetwork, OtherNode
<1>4. << n, r >> \notin channels /\ << r, n >> \notin channels
  BY <1>1 DEF TypeOK
<1>5. channels' = channels \cup {<< n, r >>}
  <2>1. { l \in {<< n, r >>} : l[1] # l[2] /\ ~channelExists(l[1], l[2]) } = {<< n, r >>}
    BY <1>1, <1>4 DEF channelExists
  <2> QED
    BY <1>3, <2>1 DEF connectNodes
<1>6. Connected'
  BY <1>1, <1>2, <1>5, LeafConnected
<1>7. /\ Cardinality(channels') = Cardinality(channels) + 1
      /\ Cardinality(joined') = Cardinality(joined) + 1
      /\ Cardinality(channels) \in Nat /\ Cardinality(joined) \in Nat
  BY <1>1, <1>4, <1>5, FS_AddElement, FS_CardinalityType DEF FinitelyMany
<1>8. Cardinality(channels') = Cardinality(joined') - 1
  BY <1>2, <1>7
<1> QED
  BY <1>6, <1>8 DEF SpanningTree, Connected

LEMMA SetupTree ==
    ASSUME TypeOK, FinitelyMany, SpanningTree, Setup
    PROVE  SpanningTree'
BY RootTree, LeafTree DEF Setup

(* In mode single a node that joins while the network is a spanning tree   *)
(* leaves it one, whichever peer is drawn (singleConnect).                 *)
THEOREM TreesGrow == Spec => TreeGrows
<1>1. TypeOK /\ FinitelyMany => [Setup /\ SpanningTree => SpanningTree']_vars
  BY SetupTree
<1> QED
  BY <1>1, TopologyTypeCorrect, AlwaysFinite, PTL DEF TreeGrows

(* So the network that a simulation sets up in this mode is connected,     *)
(* with one channel fewer than nodes: every node can be given keyspace, if *)
(* only from hand to hand.                                                 *)
THEOREM SetupMakesTree == SetupSpec => []SpanningTree
<1>1. Init => SpanningTree
  BY DEF Init, SpanningTree
<1>2. [Setup]_vars => [Next]_vars
  BY DEF Next
<1>3. TypeOK /\ FinitelyMany /\ SpanningTree /\ [Setup]_vars => SpanningTree'
  <2>1. SpanningTree /\ UNCHANGED vars => SpanningTree'
    BY DEF vars, SpanningTree, channelExists
  <2> QED
    BY <2>1, SetupTree
<1> QED
  BY <1>1, <1>2, <1>3, TopologyTypeCorrect, AlwaysFinite, PTL DEF SetupSpec, Spec
=============================================================================
