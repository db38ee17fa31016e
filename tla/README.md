# DistKeySim in TLA+

DistKeySim simulates ADAK, a scheme by which the nodes of a peer-to-peer
database generate primary keys without a coordinator. One node starts with the
whole keyspace as a single *block*; blocks are split, sent in messages and used
up, and no key may be issued by two nodes. This directory holds a model of the
program (not of ADAK as such): TLA+ modules translated from `src/src` and
`src/include`, TLC runs, and proofs for TLAPS. Paths below are relative to the
repository root, `src/`.

    tlc -config trio_sharing.cfg MCSimulation.tla      # any run: <run>.cfg, see below
    tlapm SimulationProofs.tla                         # any module named *Proofs

## 1. Inventory

| component | state | operations |
|---|---|---|
| Keyspace block (`Keyspace.cpp/h`) | start, end, suffix (stride 2^suffix) | take the next key, split in two halves |
| Node (`Node.cpp/h`) | blocks; for each peer the last message heard and the next message id; unconfirmed messages with time stamps; send queue | `heartbeat`, `receiveMessage`, `sendCustKeyspace`, `canSendKeyspace`, `splitKeyspace`, `getNextKey`, `consumeObjects`, `getMessages`, `tick`, `addPeer`, `removePeer` |
| ControlStrategy (`ControlStrategy.cpp`) | none | `adak`: give half to a peer without keyspace; block sharing by binary digits; sub-block sharing (`subBlocks`) |
| Network (`Network.cpp/h`) | nodes in join order, channels, who is online, the latency pipeline `toSend` | add nodes, connect and disconnect, `sendMsg`, `doAllHeartbeat`, `checkAndSendAllNodesLatency`, `doAllTicks`, `tellAllNodesToConsumeObjects`, `disableNode`/`enableNode` |
| Simulation (`Simulation.cpp`) | loop counters | `run` |
| GeometricDisconnect, SimulationClock | two timers per node, the clock | `eventTick`, `setTimer`, `checkTimer` |
| NodeData, Damping, areCloseEnough | keys used, short and long ratio | averages, ratios, comparisons |
| message.cpp, message.proto | none | builders of messages |
| config, main | `config.json`, read twice into two configurations | `Config::Config`, `write`; `saveLogs`, `signalHandler` |
| Logger | log streams; `num.txt` and the numbered copies of past runs | `deleteOldLog`, `copyFile` |
| Factory, UUID, Random, DoNothingStrategy, CompareAsInt, scripts and GUI | - | construction, post-processing |

**Interaction.** The program is one thread. `Simulation::run` calls the network,
the network calls its nodes in join order, the control strategy is called with
each node right after its heartbeat, and a node's messages wait in its queue
until `checkAndSendAllNodesLatency` moves them into the pipeline; `latency`
ticks later they are handed to `receiveMessage` of their destination, or
dropped if either end is offline *then*. So there is no data race, and yet the
system is a distributed protocol: what a node knows of its peers is stale,
acknowledgements travel with later messages, and outages lose messages.

**What is hard here** (the list with lines is in `PROJECT.json`, "hazards"):
conservation of keys through splitting, digit expansion, transit and use;
acknowledgement by message id, with ids counted per peer but unconfirmed
messages kept in a map keyed by the id alone; duplicates from retransmission;
the iterator of the confirmation loop, which advances twice; messages lost in
one direction; a provisioning chain that must reach every node; timers across
the rollover of the clock; two representations of the topology; ratios that are
divided by 0; lists that are changed while they are gone through by index; and
around the simulation, output files that are numbered and may be interrupted
at any step.

**What makes each component correct.** Blocks: the halves partition the block.
Nodes and network: every key is in one place; a pending keyspace message is
confirmed before another is given; nothing is lost for good. Strategy: every node is
provisioned. Outages: a node alternates between times online and offline and
always comes back. Topology: connected, and the same seen from both ends.
Statistics: demand is real and not an echo. Sharing: the right peers are
served. Output: no record is lost or mixed up, and later runs have higher
numbers. Configuration: a simulation runs only in a mode that is implemented.

## 2. Modules

| module | what it is | code |
|---|---|---|
| `Keyspace` | a block: keys, next key, halves | `Keyspace.cpp`, `Node::splitKeyspace` |
| `Node` | one node as a record and pure operators for its member functions | `Node.cpp` |
| `ControlStrategy` | what `adak` does with a node: whom to give half, what a digit of a share splits and sends | `ControlStrategy.cpp` |
| `Simulation` | the program: state, one action per call of its loops, `Spec`, `FairSpec` | `Simulation.cpp`, `Network.cpp` |
| `KeyLedger` | abstract: every key is in one hand at a time | the promise of README:5 |
| `KeyConservation` | refinement mapping to `KeyLedger` and the properties of `Simulation` | |
| `MCSimulation` | constants for TLC | |
| `Availability` | abstract: each node alternates between drawn times online and offline | |
| `Outages` | timers and clock; implements `Availability` | `GeometricDisconnect.cpp`, `SystemClock.cpp` |
| `Topology` | channels and peers | `Network.cpp`, `Node::addPeer`, `removePeer` |
| `Statistics` | what nodes report of the keys created, and what `adak` concludes from the ratios | `Node.cpp` (aggregates, heartbeat), `NodeData.cpp`, `ControlStrategy.cpp` |
| `BlockSharing` | whom block sharing serves: the loop over the peers in deficit | `ControlStrategy.cpp` 118-341 |
| `SubBlock` | blocks as a vector: `makeSubBlock`, and sending a list of indices | `Node.cpp` 661-749 |
| `Configuration` | what a reading of `config.json` gives: values, defaults, exceptions | `config.cpp` |
| `OutputFiles` | the numbered output of several runs, SIGINT and kill | `main.cpp`, `Logger::copyFile` |
| `Program` | `OutputFiles` with the two readings of the configuration that decide how far a run gets | `main.cpp`, `Simulation.cpp` 25-34 |
| `MCProgram` | the configuration files for TLC | |
| `Lists` | vectors of indices in the order of a loop, and names for the community modules on sums and sequences | `ControlStrategy.cpp` |
| `KeyspaceProofs` | theorems on blocks, arithmetic and sums | |
| `SimulationProofs`, `KeyConservationProofs`, `SharingProofs`, `OutagesProofs`, `TopologyProofs`, `StatisticsProofs`, `ProgramProofs` | theorems on the specifications | |

`Node` extends `Keyspace`, `ControlStrategy` extends `Node`, `Simulation`
extends `ControlStrategy`, `KeyConservation` extends `Simulation`. `Outages`
justifies the `Events` action of `Simulation`, and `Topology` its constant
`Links`. `Statistics`, `BlockSharing` and `ControlStrategy` are three views of
one function: when `adak` shares at all, which peers it serves, and which
blocks they get; `Simulation` composes the last with everything else and leaves
the first two open. `SubBlock` extends `Keyspace`, and like `BlockSharing` and
`KeyConservation` also `Lists`. `Program`, which
extends `Configuration` and `OutputFiles`, is what surrounds a simulation in `main`.

### How `Simulation` corresponds to the code

`phase` is the program counter of `Simulation::run`, `turn` the index of the
loops over `uuids`. In setup a tick is `AddNode`, the heartbeats when due,
`Collect`, `Deliver` for each message, `Tick`; in the run it is `Collect`,
`Deliver`, the heartbeats when due, `Events` when enabled, `ConsumeKey` or
`ConsumeNothing` for each node, `Tick`.

* A heartbeat and the call of `adak` that follows it are one action up to the
  decision: `BeatAndGive` (half of a largest block to the first peer that
  reports none), `BeatOnly` (nothing to do), `BeatThenShare` (block sharing
  starts, the peers in deficit are chosen), then `ShareDigit` and `ShareNext`.
* `Deliver` is one `sendMsg` with the whole of `receiveMessage`: what is kept of
  the peer, the confirmation loop with its double advance, resends, the blocks.
* `splitKeyspace` throws an `int` that nothing catches; the action then leads to
  phase `died`, which is final. This is why deadlock is not checked in the runs
  of `MCSimulation`: a simulation ends, `done` or `died`.
* A node's queue is a sequence of *bursts*: what one call appended. Within a
  burst the order is that of the code's maps (peer, then id), computed at
  delivery.

### Abstractions

* **Ratios.** `adak` compares floating-point quotients, which are often 0/0.
  The one exact test, whether both reported ratios are close to 1, is kept as
  the bit `empty`: an empty node reports 1 and 1, and any other node a short
  ratio of the order of keys used over 2^32, far from 1. The rest - which peers
  are in deficit and which binary digits their shares have - is
  nondeterministic: every non-empty proper subset of the heard, non-empty peers,
  any increasing list of digits. The code never finds all heard peers below
  their own average. `Statistics` and `BlockSharing` follow the ratios.
* **Blocks** are a set, where the code has a vector; where the order of the
  vector matters (the scan for a digit, the choice of a largest block) the model
  allows every order. UINT_MAX is the constant `MaxKey`; a suffix appears as the stride 2^suffix.
* **Sub-blocks** never arise in a run: `subBlocks` leaves its list of recipients
  empty (a `continue` that the `if` before it does not cover,
  ControlStrategy.cpp:422-424).
* **Time.** Each node counts its own ticks from when it joined; only differences
  are used, so one clock `now` serves all.
* **Consumption.** Any node of `Consumers` may use up a key in any tick, at most
  one per tick as in `consumeObjects`. Nodes outside of it stand for a custom
  lambda 3 so large that they create nothing within the run.
* **Peers that are not known** cannot send: channels make both ends peers of
  each other (`ChannelEndsArePeers`), so that branch of `receiveMessage` is left out.
* **Message ids** of two nodes, the creation statistics, logging and the layout
  of messages are left out or taken as values. N is at least 2: a lone node
  only broadcasts to nobody.
* **Events.** In a tick any set of nodes may change sides, none in the first
  tick: getTimeOffline and getTimeOnline are at least 1, and timers are first set
  at the end of the first `eventTick`. `MaxOutages` bounds how many times.
* History variables: `issued` (who issued each key) and `lastShare` (the id of
  the last keyspace message for each pair).

### The other modules

* **`Statistics`.** A double is one of zero, pos, inf, nan; `Total` and `Over`
  are addition and division of these, and a comparison of two positive ones may
  come out either way; but a peer is below the average only if it is below some
  other peer. The short ratio is zero (a few of 2^32 keys round to 0 in
  `updateShortTermAllocationRatio`) or positive. `sent` has every message that was ever
  sent to a peer, and `Receive` takes any of them at any time: so messages may be
  late, out of order, repeated with the records they had (Node.cpp:400-406), or
  lost. Which of this happens when, and when a keyspace message is confirmed, `Node`
  and `Simulation` say; here it is a choice, of which the code's behaviour is one.
  The other actions correspond to `consumeObjects`, `heartbeat` for one peer, and
  the two halves of `adak`, the second of which may send all blocks of the node.
* **`BlockSharing`.** Ratios are whole numbers or infinite, as they are until
  thousands of keys are used (`Infinite`, above all others). Divisions are multiplied
  out, so the model compares exactly; where the code's answer hangs on how doubles
  are rounded, a peer with exactly the threshold of the deficit, both are possible
  (`tooLittle`, `atMostTooLittle`). One action per turn of the loop: `Dismiss`
  erases the peer under the index, `Give` serves it and moves on, `Refuse` leaves
  `adak` as line 249 does. A share that is not a number is never refused. How much
  `Give` sends is anything from nothing to all that is left: lines 252-341 round
  digits, count blocks finer than the accuracy as nothing and send them, and take a
  digit of a share that is not a number for a one.
* **`SubBlock`.** One action per turn of the loops of `makeSubBlock` and
  `sendCustKeyspace`. `splitKeyspace` and `getNextKey` produce the blocks they
  start from. An index past the end leads to phase `undefined`.
* **`Topology`.** `connectionType` is the mode of the configuration, set once;
  `Invalid` stands for the strings that are no mode and connects nobody. In mode
  partial the code asks for further links, from each node to itself, which
  `connectNodes` refuses. `PERCENT_CONNECTED` is `visiblePeers` in thousandths; at 0
  the draw of `coinFlip` divides by zero, and the action is not enabled.
* **`Configuration`.** A few settings stand for all (its header says
  which is which). A value the constructor never assigns is `unset`.
* **`OutputFiles`.** `pc` is the next system call of `main` or of the handler:
  opening a file empties it, closing it makes what was written visible.
  SIGINT and kills come before any step. `forgotten` remembers the directories
  where one came between emptying num.txt and writing to it. A file has as contents
  the run it is from.
* **`Program`.** The actions are those of `OutputFiles`, with the choices the
  configuration makes: `LoadConfig` in `main`, `Reload` or `ReloadThrows` in
  `Simulation::run`, `Write` of `full_config.json`. `Edit` changes the file
  between runs, or between its two readings.

Reading a ratio out of a stored keyspace message, and stepping an iterator past
the end, would be undefined behaviour; the model has no action for it and shows
it unreachable instead (`RatiosReadable`, `NeverPastEnd`).

## 3. Runs

Simulations:

* **trio_sharing** - no outages; three nodes, all connected, latency 2, heartbeats every 2
  ticks, 7 keys, shares down to a quarter, 7 ticks, node 3 (the root here) using
  keys. `ImplementsLedger`: every step is a step of `KeyLedger`, so keys are
  neither lost nor doubled and each node issues its smallest key. `NothingResent`:
  with latency L an acknowledgement is back before a message is 2L old *and*
  looked at, because nodes send in bursts that all take L ticks. `HeardInOrder`:
  no gaps, hence the branch for a missed message is for outages alone. The join
  order is reversed, so that join order and UUID order differ. 7 keys
  are enough for the three shapes of a share (one block cut, several blocks,
  several and a rest) and small enough for blocks to run out and splitting to throw.
* **chain_outages** - three nodes in a chain, latency 2, 31 keys, heartbeats every
  tick, 9 ticks, one change between online and offline. `NeverPastEnd`: the
  newest entry of the confirmation table is never acknowledged when a message is
  handled, since heartbeats to all peers carry higher ids by then.
  `RatiosReadable`: the first message a node hears from a peer is a heartbeat,
  as only somebody heard from is given keyspace. `EveryNodeProvisioned`, in the
  behaviours without an outage, under `FairSpec`: the run and the keyspace are
  long enough, for with few keys a split throws first, a known end of the
  program (README:660), and the property would be about that.
  `KeyspaceComplete`, likewise without an outage: the sum `checkAllKeyspace`
  computes from nodes, queues and pipeline is the whole keyspace whenever no
  batch is being handed out (that batch is in neither).
* **pair_outages** - two nodes, latency 1, heartbeats every 2 ticks, 16 ticks, four
  changes between online and offline, node 2 using keys. `NoKeyLost`: a key that
  is not issued is in a block, in a message or kept for retransmission. `GiveAfterHeard`:
  half a block is given only to a peer that has heard the last share, though what the
  giver keeps of the peer may no longer say so: a keyspace message that is sent again
  repeats its old acknowledgement, and its receiver keeps that one. Both properties
  hold with one peer each, where message ids are unique.
  `ProvisionedAfterOutages`, under `FairSpec`: if all outages are over
  `Recovery` ticks before the end, both nodes have had keyspace by then, the
  message that was lost having been sent again. Two nodes, for with three it may be
  forgotten (`keys_lost`).

Timers and topology:

* **outage_timers** - two nodes, times up to 3 and 2 ticks, the clock rolling over
  at 9. `ImplementsAvailability`: as long as no target lies past the rollover,
  each tick is one of `Availability`. A timer set across the rollover ends
  early, so times are not kept then, and nothing in the repository claims
  otherwise; but a node has one outage at a time (`OnePeriodAtATime`) and,
  under `FairSpec`, always comes back (`AlwaysBack`).
* **topology** - four nodes in every mode, every order of joining and choice of a
  random peer, connecting and disconnecting at will; visiblePeers is 0.2 %, so that
  `coinFlip` is sometimes 0. `TreeGrows`: in mode single a node that joins leaves a
  spanning tree one ("randomly connected MST", README:73). `ConnectingKeepsPeers`:
  connecting keeps peers and channels the same relation.
  `ChannelEndsArePeers` also holds across disconnecting; the converse does not, see below.

Ratios and shares:

* **block_sharing** - three nodes in a chain, the outer two creating objects; two
  different records from each node to each peer, of the four there are (with three the
  run passes too, in five minutes). `SharingNeedsDemand`: nothing is shared
  before a key is used. `NoEcho`: the demand heard from a peer stems from beyond
  that peer, however old, repeated or out of order the records; it holds because the
  aggregate leaves out the peer it is for and the links have no cycle (in a
  triangle demand does come back).
* **share_sizes** - four peers with ratios up to 3 or infinite, a threshold of 1/3 in
  place of 1/20, so that one to four peers can be dismissed. `RightOnesServed`: at
  the end of the loop those with more than the threshold are served, none with less,
  though others are erased from the list that is gone through. `AdakEnds`.
* **sub_block** - 16 keys, up to 4 blocks, 4 keys asked for. `EachKeyOnce`,
  `EnoughListed`, `SendsWhatIsListed`, `Ends`. The largest int is above all
  keys here: from 2^31 on the start of a block turns negative, and blocks are
  listed twice. `SendsWhatIsListed` is about lists from block sharing, whose
  indices increase; those of `makeSubBlock` are in the order of the starts of the
  blocks and may be sent wrongly, or point past the end.

Around the simulation:

* **program** - two runs of the program, SIGINT and kill before every step, no file or
  files with at most one setting out of order, one edit. `RecordsKept`: no record
  is written over. `OneRunPerNumber`: the files of a number are from one run.
  `LatestFirst`: every record, complete or not, is below the number in num.txt, and
  later runs have higher numbers, so that who goes back from num.txt, as the
  Makefile does by one (lines 142-143), meets the latest first. All three leave
  out the directories in which a stop has left num.txt empty (`forgotten`), where
  they are false. The configured directory exists and the default one does not, so
  that both ways of saving occur.

Deadlock is checked in `outage_timers`, `topology` and `block_sharing`, whose systems
go on forever. Elsewhere loops, simulations, programs and the setup of a network end.

Where the code does not do what its comments say:

* **keys_lost** (`NoKeyLost`) - Node.cpp:367: "if a newer message is old enough
  and was not confimed, resend it". `confirmMsg` is keyed by message id, ids are
  counted per peer: a heartbeat to another peer with the same id replaces the
  entry. If the message was lost, its keys are in no block, message or table any
  more. The same replacement, without any outage, lets `canSendKeyspace` pass
  and a peer that still waits be given a second half (Node.h:180 says it checks
  "if the last keyspace message sent to the peer was confirmed").
* **issued_twice** (`IssuedOnce`) - Node.cpp:423: "make sure keyspace is not a
  duplicate". A resent keyspace message is compared with the receiver's blocks
  as they are now; after one key was taken the copy looks new.
* **partial_links** (`AllVisibleConnected`) - README:285, "this is the % chance that
  the new node is connected to another node". With 100 %, three nodes end up in a
  chain: Network.cpp:270-271 asks for channels from nodes to themselves, which
  `connectNodes` refuses, so mode partial equals single at any percentage. (And
  `coinFlip`, drawn once for all nodes, is 0 the less often the higher the
  percentage.) The property asks only for what no draw could excuse.

Noticed while modelling, without a run; the modules follow the code:

* Network.h:79, "Disconnects the two nodes": `removePeer` returns when it finds the
  peer, so peers remain after their channel is gone (`Topology!removePeer`).
* ControlStrategy.cpp:169, "never give away all of thier keyspace": a short ratio
  that rounds to 0 makes the node's own ratio infinite and the part to give
  infinity over infinity; the guards of lines 170 and 247 do not reject it, and
  `int temp = tempFract` (line 259) is a one at every digit on x86. The remedy,
  quoted at message.cpp:13-18, is commented out. Blocks finer than the accuracy are
  sent for nothing as well (lines 309-320). So nothing bounds what `Give` sends, and a
  later peer may be refused at line 247 ("Giving away too much keyspace").
* ControlStrategy.cpp:228: of 20 peers in equal need all may be dismissed, as
  the rounding of doubles has it, and of more than 20 all are; the comment after it asks
  "what about if the number of peers is 100?".
* ControlStrategy.cpp:424, "want factored in, but do not consider sending to": the
  `if` of line 422 has no braces, so only its log line depends on it, and the
  `continue` is taken for every peer in deficit. No sub-block is ever shared. (To see
  it takes two heard peers of different short ratios and many thousands of keys.)
* Node.cpp:343-352 and 405: a heartbeat out of order leaves the id kept as it is, so an
  older one that is sent again is taken after it, and the node goes back to older
  ratios; a report of demand may be followed by one of none.
* Node.h:183, "of the designated size": Node.cpp:717 compares a block with all that is
  asked for, not with the rest (`SubBlock`).
* README:113, the copies are "used to keep a record of past tests": stopped
  between lines 112 and 114 of Logger.cpp the program forgets the number and
  starts over at 1, over the records there (`OutputFiles!Stop`). Stopped in
  copying, what it leaves has the highest number: the Makefile's LAST_RUN then
  finds an incomplete record or none, with complete ones below it.
* Simulation.cpp:28 reads config.json again: edited in between, the network goes by one
  version and the simulation by another (`Program!Edit`).
* config.cpp:255, "fall back to all default values": nine settings of some thirty, the
  others keep whatever was in memory;
  README:492, "the program will simply store the default value": two options
  become -1; config.cpp:59, "the only implemented connection modes": others are
  accepted (`Configuration`).
* The header of GeometricDisconnect speaks of 1 to 10 nodes per tick, the code
  schedules every node; the mode custom of README:75 is rejected by
  config.cpp:61-64 (`ProgramProofs!CustomNeverRuns`).
* `checkAllKeyspace` is called by nothing; `KeyspaceComplete` is about the sum it
  would find. `simLength` is an int, so no run gets near the rollover of the clock.

**Bounds.** Two nodes show what acknowledgement alone does, three what shared
message ids do, and a chain of three what passing on does. Latency 2 is the smallest
that keeps a batch back in the pipeline. `FinestStride` 4 gives shares of
two digits. A simulation is as long as its `SimLength`; 7 to 16 ticks hold two or more
round trips after setup. One change between online and offline (`MaxOutages` 1)
already loses messages in one direction; 2 let a node come back, or give one
to each end of a link. For the statistics a chain of three is the least with
a node that passes on what it hears. The other bounds are with their runs.

**Fairness.** `FairSpec` is weak fairness of `Next`: the program is one thread
that goes on while there is a next call (`Simulation::run`, and `eventTick` in
every tick for `Outages`). No action is favoured; random draws are adversarial.
`BlockSharing` and `SubBlock` have weak fairness of the steps of a call in
progress, for the same reason; whether a call is made at all is left open.

## 4. Proofs

* `SimulationProofs!TypeCorrect`: `Spec => []TypeOK` for every number of nodes and
  keys, latency, finest share, join order, links and schedule. `TypeOK` is inductive
  as it stands. Lemmas first type the operators of `Node` and `ControlStrategy` (a heartbeat,
  a receipt, a split, every share built from digits keeps `NodeState`), then one
  step per action.
* `KeyspaceProofs!SplitPartitions`, `NextKeyRemovesOne`, `CutPartitions` and
  `SimulationProofs!ChainPartitions`: the halves of a
  block, and the blocks of a chain of splits, have exactly its keys and none in common;
  taking a key removes the smallest and nothing else; a sub-block and what it was cut
  off partition the keys. The argument is arithmetic on
  start + i * stride; a lemma first removes the bound on i that makes `Keys` finite
  for TLC. A chain has any length: of the chains that lose or repeat a key one would be
  shortest, and one split leads from it to a shorter one.
* `SimulationProofs`, as long as no node goes offline (`[](outages = 0)`, the hypothesis in
  each statement): `CalmDelivered` (every message arrives, `Latency` ticks after its
  batch was collected), `SentOnlyOnce` (`NothingResent`: no answer is ever late) and
  `InOrderHeard` (`HeardInOrder`). The invariant looks at a message's whole way as one line of
  levels: the inbox, the batches in the pipeline, the queues. Along it the ids from one
  node to another have no gaps and only the first is delivered, and an entry of
  `confirmMsg` younger than 2 * `Latency` has its message or the answer still in the
  line, at a level that its age gives.
* `KeyConservationProofs`, under the same hypothesis: `CalmKeysKept`,
  `CalmKeysOnce` (`AllKeysOnce`, `NoKeyLost`, `IssuedOnce`) and `LedgerImplemented`, the refinement
  `ImplementsLedger` by steps: a consumed key is an issue of the ledger, every other
  step a stutter. The invariant: each key is in one block of one node, or in one
  block of one message on the way, or issued once; what remains in `confirmMsg` is of messages that
  arrived or are on the way. Splits of a share keep it by `ChainPartitions`. `LedgerIssuesOnce`: in
  every system that implements the ledger an issued key stays issued.
  `PairKeepsKeys`, with any outages, losses and repetitions but two nodes: `NoKeyLost`. The
  property is not inductive, as a keyspace message may be dropped from `confirmMsg`: what was
  dropped must have arrived. The invariant `PairInv` therefore says of each key that it is issued,
  in a block, or in an entry that is *unheard* (`Unheard`): its receiver has kept a lower
  id of the sender, and no acknowledgement on its way back, or kept by the sender,
  reaches the id of the entry. It rests on `RoundInv` and on what is true of two nodes only: no two
  messages of a sender share an id, and no keyspace message follows one that waits for its
  answer (`canSendKeyspace`), so nothing can set the id kept past it except
  the message itself. `PairHeardBefore`, under the same hypothesis: `GiveAfterHeard`. The id a
  receiver has kept does not only grow, as a keyspace message sent again takes it
  back, so the invariant also has the keyspace messages of a node, copies included,
  on their way in the order of their ids (`InKeyOrder`), and of the last share that
  it is still unheard, or heard with no copy of an earlier one left (`Settled`).
* `SimulationProofs`, for any number of outages, losses and repetitions: `NeverSteppedPastEnd`
  (`NeverPastEnd`: the second increment in the loop of `receiveMessage` stays within
  the list) and `RatiosAlwaysReadable` (`RatiosReadable`: what a node keeps of a peer always has the
  ratios `adak` and `heartbeat` read). Neither is inductive: a message may
  acknowledge its receiver's last message if the receiver has not had its turn in this round of
  heartbeats. The invariant `RoundInv` therefore tells the pairs of nodes whose
  heartbeat of the round is still to come from those whose heartbeat is sent; with it
  a message acknowledges only what has been sent, the last message to each peer is still
  kept when an answer arrives, and two nodes hear of each other at the same
  delivery, so a block is never the first thing a node hears of a peer.
* `KeyConservationProofs!UnissuedIsComplete`, `KeyspaceAlwaysComplete`: `KeyspaceComplete`, until
  a key is issued, or always if no node creates objects, as in `chain_outages`.
  `AllKeysOnce` is not enough: `checkAllKeyspace` adds percentages 1/2^suffix, not keys.
  The invariant `WholeInv` keeps every block, wherever it is, one that
  no key was taken from (`WholeBlock`). Such a block is a class of keys, those
  that leave its start over when divided by its stride, and its percentage counts
  the members of the class from 0 to `MaxKey` (`SlotsCounted`). Two classes that meet
  have a key in common (`SlotsApart`), which `CalmKeys` excludes; every key is in one, and
  `MaxKey`, which is no key, in the class of the key half a keyspace below
  (`LastSlot`). The hypothesis, a power of two as the size of the keyspace, is what
  2^32 is; with other sizes the percentages are not whole.
* `SharingProofs`, of `BlockSharing`, for any number of peers, ratios (infinite ones
  included), threshold and whatever `Give` sends: `SharesTypeCorrect` and
  `EnoughServed`. The invariant `SharesInv` says what the loop by index over a
  list that shrinks has done: the list has no peer twice and still has all with more
  than enough of the deficit, and those before the index are none with less.
* `SharingProofs`, of `SubBlock`, for any keyspace and number of keys asked for:
  `SubBlockTypeCorrect`; `KeysStayOnce` (`EachKeyOnce`), by `SplitPartitions`,
  `NextKeyRemovesOne` and `CutPartitions`; `SentAsListed` (`SendsWhatIsListed`): sent from
  the back, the indices that are left are below the one erased, so they
  still point to what was listed (`Listing`); `EnoughIsListed` (`EnoughListed`). Its
  hypothesis `[]StartsAreInts`, no block starts above the largest int, is needed: a
  larger start turns negative at Node.cpp:715, `makeSubBlock` starts over from there and may
  list a block twice. It follows by `Found`: what is listed starts in
  rising order, so no block is listed twice and the numbers of keys add up.
* `OutagesProofs`: `TimersTypeCorrect`, from MaxOnline + MaxOffline < Rollover;
  `OneOutageAtATime`, where the property alone is not inductive: that an online
  node has either both timers set or neither (`InPairs`) has to be added;
  `TimersImplementAvailability`, both `Availability` itself and the property
  `ImplementsAvailability` of the run, under the assumption `NeverRollsOver`, by mapping the ticks left of an `Availability` period to the
  distance between a target and the clock.
* `TopologyProofs`, in every mode: `EndsArePeers` for adding, connecting and disconnecting in any
  order; `ConnectedPeers` (the action property `ConnectingKeepsPeers`) and
  `SetupKeepsPeersAndChannels`; `TreesGrow` (the action property `TreeGrows`) and
  `SetupMakesTree`: in mode single the setup ends in a spanning tree.
  All over the type invariant `TopologyTypeCorrect`. One lemma says what
  connecting a node means for a pair of nodes; every step of the setup is such a
  connection or the arrival of the root. For the tree, channels are counted, which
  takes the invariant that they are finitely many (`AlwaysFinite`; `Nodes` itself need
  not be finite); a set of nodes that nothing connects to the others would be one of
  the network without the new leaf, or the leaf alone.

* `StatisticsProofs`, for any nodes and links, and any order, loss and repetition of
  messages: `StatisticsTypeCorrect`, `SharingAfterDemand`, and `NoDemandComesBack` if
  links have no cycles. The argument: a positive record, heard or still on its way from p to
  n, has a node beyond p that has used a key; a record is positive only if its
  sender has used one or has heard a positive one from another than n. A lemma on
  reachability (`BeyondPeer`): without cycles, what is beyond a peer of p is beyond p.
* `ProgramProofs`, of `OutputFiles` and `Program`, for any number of runs, directories,
  configuration files and edits, interrupted or killed before any step:
  `OutputTypeCorrect`, `SavedRecordsKept`, `NumbersOfOneRun`, `LaterRunsHigher`
  (`LatestFirst`). The invariant: outside of `forgotten`, no file exists under a
  number that num.txt has not reached (or will not reach with the next step), the
  numbers of earlier runs are below those of later ones, and the number in use belongs
  to the run in progress. They carry over to `Program` as each of its steps is one of
  `OutputFiles` or leaves its variables alone; `ProgramTypeCorrect`;
  `CustomNeverRuns`, which is why `Topology` has no mode custom.

**Sums and lists without induction.** A sum over a set is a fold, a recursive
function, and what it is for every set would take induction over data. Instead, of
the sets for which a claim about sums fails one would be smallest, and the claim
holds for it without one of its members (`KeyspaceProofs!LeastNatural`, `BySmaller`,
`SumsExist`). A list in the order of a loop is described (`Lists!Ascending`), not
computed.

The assumptions are those named in the modules, and the hypotheses named
above. Every invariant and action property of a passing run is stated by a
theorem, for every value of the constants or for those the hypotheses
name. Only model-checked are:

* liveness (`AlwaysBack`, `EveryNodeProvisioned`, `ProvisionedAfterOutages`, `AdakEnds`,
  `Ends`), out of reach of the prover;
* that the runs `keys_lost`, `issued_twice` and `partial_links` find what they find.

What is proved of two nodes with outages does not extend: `NoKeyLost` is false of three
(`keys_lost`), and `IssuedOnce` already of two (`issued_twice`).

## 5. Not modelled

* Vendored code: `json.hpp` (22875 lines), `picoSHA2.h`, and `CompareAsInt.cpp`, a
  third-party sample that nothing calls. They are most of the repository's
  lines, so a share of all lines says little about the program itself.
* `Random`, `RealSecondsClock`, `checkAndSendAllNodes`, `customConnect`, `addNode`,
  the setters and unread averages of `NodeData`: nothing calls or reaches them.
* `DoNothingStrategy`: its `adak` is empty. `Factory`, `UUID`: construction.
* `subBlocks`: whom it puts into the total deficit, and the rest (ControlStrategy.cpp:429
  ff.), which runs over an empty list.
* The lines of the logs and statistics, scripts and GUI.
* Random distributions: the times and rates drawn are arbitrary in the models.
* Rounding of doubles, beyond what becomes 0 or is left open where it decides; how
  much is sent for a share; the narrowing of a key to `int` in
  `getNextKey`, which only affects what is logged.
* What a signal handler may do to the library's own state (it uses streams and
  allocates), and two programs at once in one directory.

## 6. Plan

1. Done: the core (`Keyspace`, `Node`, `ControlStrategy`, `Simulation`), the
   ledger, outages, topology; statistics, shares, sub-blocks, configuration and
   output; the theorems of section 4.
2. Done: delivery without outages, conservation of keys with it and the refinement
   of the ledger; rounds of heartbeats with outages; between two nodes no key lost and
   every share heard before the next; spanning trees.
3. Done: the sum of `checkAllKeyspace`, who is served a share, sub-blocks.
4. Left: liveness, should a prover for it become available; of the sum of `checkAllKeyspace`, what
   it is once blocks are used up, for which the repository states nothing.
