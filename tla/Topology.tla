------------------------------ MODULE Topology ------------------------------
(***************************************************************************)
(* Which nodes are connected (class Network): the channels, and the peers  *)
(* that each node keeps of its own.  Messages do not use the channels; a   *)
(* node sends to its peers.                                                *)
(***************************************************************************)
EXTENDS Integers, FiniteSets

CONSTANTS
    Nodes,
    PERCENT_CONNECTED   \* visiblePeers, in thousandths: 1000 is 100 %

ASSUME PercentAssumption == PERCENT_CONNECTED \in Nat

VARIABLES
    connectionType,     \* the mode: a choice of the configuration
    joined,     \* the nodes of the network
    channels,   \* channels, as pairs << node, peer >>
    peers       \* the peers that each node knows

vars == << connectionType, joined, channels, peers >>

(* Config::Config rejects mode custom, but lets any other string through   *)
(* as Invalid (Configuration!NotImplemented).                              *)
ConnectionType == {"full", "partial", "single", "Invalid"}

TypeOK ==
    /\ connectionType \in ConnectionType
    /\ joined \subseteq Nodes
    /\ channels \subseteq joined \X joined
    /\ peers \in [Nodes -> SUBSET joined]

Init ==
    /\ connectionType \in ConnectionType
    /\ joined = {}
    /\ channels = {}
    /\ peers = [n \in Nodes |-> {}]

channelExists(p, q) == << p, q >> \in channels \/ << q, p >> \in channels

(* Mutant: only the node that connects learns of its peers. *)
addPeersOneWay(links) ==
    [p \in Nodes |-> peers[p] \cup { q \in Nodes : << p, q >> \in links }]

(* addPeer() at both ends. *)
addPeers(links) ==
    [p \in Nodes |-> peers[p] \cup
                       { q \in Nodes : << p, q >> \in links \/ << q, p >> \in links }]

(* connectNodes() for all the pairs asked for, no two of which are of the  *)
(* same nodes: not from a node to itself, and not twice.                   *)
connectNodes(asked) ==
    LET new == { l \in asked : l[1] # l[2] /\ ~channelExists(l[1], l[2]) }
    IN  /\ channels' = channels \cup new
        /\ peers' = addPeers(new)

(* Mutants: the new node may pick itself; a node that is still to come.   *)
SelfOrOther(n) == joined \cup {n}
NotYetJoined(n) == Nodes \ {n}

(* singleConnect() draws again as long as getRandomNode() is n. *)
OtherNode(n) == joined

(* The links that mode partial asks for if coinFlip is 0: of every node    *)
(* that is there, to itself.                                               *)
partialLinks(coinFlip) == IF coinFlip = 0 THEN { << q, q >> : q \in joined } ELSE {}

(* connectNodeToNetwork().  With PERCENT_CONNECTED = 0, below 0.1 %, the   *)
(* draw of coinFlip divides by zero, and the program does not get further. *)
connectNodeToNetwork(n) ==
    \/ connectionType = "full" /\ connectNodes({n} \X joined)
    \/ /\ connectionType = "partial"
       /\ \E coinFlip \in 0 .. (PERCENT_CONNECTED - 1), p \in OtherNode(n) :
            connectNodes(partialLinks(coinFlip) \cup {<< n, p >>})
    \/ connectionType = "single" /\ \E p \in OtherNode(n) : connectNodes({<< n, p >>})
    \/ connectionType = "Invalid" /\ UNCHANGED << channels, peers >>

AddRoot(n) ==
    /\ joined = {}
    /\ joined' = {n}
    /\ UNCHANGED << connectionType, channels, peers >>

AddEmptyNode(n) ==
    /\ joined # {}
    /\ n \notin joined
    /\ joined' = joined \cup {n}
    /\ connectNodeToNetwork(n)
    /\ UNCHANGED connectionType

Setup == \E n \in Nodes : AddRoot(n) \/ AddEmptyNode(n)

SetupSpec == Init /\ [][Setup]_vars
-----------------------------------------------------------------------------
(* The operations that the class offers once the nodes are there. *)
Connect(p, q) ==
    /\ p \in joined /\ q \in joined
    /\ connectNodes({<< p, q >>})
    /\ UNCHANGED << connectionType, joined >>

(* Node::removePeer() returns early when it finds the peer: none goes. *)
removePeer(P, p, q) == P

Disconnect(p, q) ==
    /\ channelExists(p, q)
    /\ channels' = channels \ { << p, q >>, << q, p >> }
    /\ peers' = removePeer(removePeer(peers, p, q), q, p)
    /\ UNCHANGED << connectionType, joined >>

Next == Setup \/ \E p, q \in Nodes : Connect(p, q) \/ Disconnect(p, q)

Spec == Init /\ [][Next]_vars
-----------------------------------------------------------------------------
(* Setup in mode single makes a spanning tree ("randomly connected MST",   *)
(* singleConnect): with one channel fewer than nodes, every node can still *)
(* get keyspace from the root, if only from hand to hand.                  *)
SpanningTree ==
    connectionType = "single" /\ joined # {} =>
      /\ Cardinality(channels) = Cardinality(joined) - 1
      /\ \A S \in SUBSET joined :
           S # {} /\ S # joined => \E p \in S, q \in joined \ S : channelExists(p, q)

TreeGrows == [][Setup /\ SpanningTree => SpanningTree']_vars

(* A node sends to exactly the nodes it has a channel with: connectNodes   *)
(* keeps the two representations together, both when a network is set up   *)
(* and afterwards.  (Disconnecting does not: see removePeer.)              *)
PeersAreChannels == \A p, q \in Nodes : q \in peers[p] <=> channelExists(p, q)

ConnectingKeepsPeers ==
    [][(Setup \/ \E p, q \in Nodes : Connect(p, q)) /\ PeersAreChannels
          => PeersAreChannels']_vars

(* disconnectNodes() never makes removePeer() erase the end of the map,    *)
(* which it does when it does not find the peer.                           *)
ChannelEndsArePeers == \A p, q \in Nodes : channelExists(p, q) => q \in peers[p]

(* In mode partial visiblePeers is the chance that a new node is connected *)
(* to another (README, connectNodeToNetwork): with 100 % it is to all.     *)
AllVisibleConnected ==
    connectionType = "partial" /\ PERCENT_CONNECTED = 1000 =>
      \A p, q \in joined : p # q => channelExists(p, q)
=============================================================================
