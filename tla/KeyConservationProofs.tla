----------------------- MODULE KeyConservationProofs -----------------------
(***************************************************************************)
(* While no node goes offline every key is in exactly one place, and every *)
(* step of the simulation is a step of the ledger: proofs, for any size of *)
(* keyspace, any number of nodes, any latency, schedule and sharing.       *)
(*                                                                         *)
(* The invariant says of each key where it is, in the terms of module      *)
(* SimulationProofs: the states nds of the nodes, the line lv of batches   *)
(* up to level top, and the history iss.                                   *)
(*                                                                         *)
(* Then there are two nodes that go offline: no key is lost, and keyspace  *)
(* is given only to a peer that heard the last share.  The last part is    *)
(* about the sizes of blocks: before a key is issued they add up to the    *)
(* whole keyspace.                                                         *)
(***************************************************************************)
EXTENDS SimulationProofs
-----------------------------------------------------------------------------
(* Where a key is.                                                         *)

NotHeld(nds, k) == \A n \in Nodes : \A b \in nds[n].keyspaces : k \notin Keys(b)

HeldBy(nds, k, n) ==
    \E b \in nds[n].keyspaces :
      /\ n \in Nodes /\ k \in Keys(b)
      /\ \A q \in Nodes : \A c \in nds[q].keyspaces : k \in Keys(c) => q = n /\ c = b

Carries(lv, top, k, l, n, i, m, b) ==
    Way(lv, top, l, n, i, m) /\ b \in m.blocks /\ k \in Keys(b)

NotSent(lv, top, k) == \A l, n, i, m, b : ~ Carries(lv, top, k, l, n, i, m, b)

SentTo(lv, top, k, p) ==
    \E l, n, i, m, b :
      /\ Carries(lv, top, k, l, n, i, m, b) /\ m.dst = p
      /\ \A l2, n2, i2, m2, b2 : Carries(lv, top, k, l2, n2, i2, m2, b2) =>
           l2 = l /\ n2 = n /\ i2 = i /\ m2 = m /\ b2 = b

(* Key k is in the state t with node n, and nowhere else. *)
At(nds, lv, top, iss, k, t, n) ==
    \/ t = "held"   /\ iss[k] = << >>   /\ HeldBy(nds, k, n) /\ NotSent(lv, top, k)
    \/ t = "sent"   /\ iss[k] = << >>   /\ NotHeld(nds, k) /\ SentTo(lv, top, k, n)
    \/ t = "issued" /\ iss[k] = << n >> /\ NotHeld(nds, k) /\ NotSent(lv, top, k)

(* The invariant: every key is somewhere, and all blocks, held or on their *)
(* way, are ones that can be cut.                                          *)
EachAt(nds, lv, top, iss) ==
    \A k \in Key : \E t \in {"held", "sent", "issued"}, n \in Nodes : At(nds, lv, top, iss, k, t, n)

AllFull(nds, lv, top) ==
    /\ \A n \in Nodes : nds[n].keyspaces \subseteq FullBlock
    /\ \A l, n, i, m : Way(lv, top, l, n, i, m) => m.blocks \subseteq FullBlock

Placed == EachAt(nodes, line, Top, issued) /\ AllFull(nodes, line, Top)

(* Block sharing never sends a node's keyspace to itself. *)
OthersServed == phase = "share" => InTurn \notin deficit

CalmKeys == outages = 0 => Placed /\ OthersServed
-----------------------------------------------------------------------------
(* What is on its way after each kind of step.                             *)

LEMMA ShiftSent ==
    ASSUME NEW top \in Nat, NEW top2 \in Nat, NEW d \in {0, 1},
           NEW lv, NEW lv2, NEW k,
           \A l, n, i, m : Way(lv2, top2, l, n, i, m) <=> l \in Nat /\ Way(lv, top, l + d, n, i, m),
           \A n, i, m : d = 1 => ~ Way(lv, top, 0, n, i, m)
    PROVE  /\ NotSent(lv, top, k) => NotSent(lv2, top2, k)
           /\ \A p : SentTo(lv, top, k, p) => SentTo(lv2, top2, k, p)
<1>1. \A l, n, i, m, b : Carries(lv2, top2, k, l, n, i, m, b)
                           <=> l \in Nat /\ Carries(lv, top, k, l + d, n, i, m, b)
  BY DEF Carries
<1>2. NotSent(lv, top, k) => NotSent(lv2, top2, k)
  BY <1>1 DEF NotSent
<1>3. ASSUME NEW p, SentTo(lv, top, k, p) PROVE SentTo(lv2, top2, k, p)
  <2>1. PICK l, n, i, m, b :
          /\ Carries(lv, top, k, l, n, i, m, b) /\ m.dst = p
          /\ \A l2, n2, i2, m2, b2 : Carries(lv, top, k, l2, n2, i2, m2, b2) =>
               l2 = l /\ n2 = n /\ i2 = i /\ m2 = m /\ b2 = b
    BY <1>3 DEF SentTo
  <2>2. l \in Nat /\ l - d \in Nat /\ (l - d) + d = l
    <3>1. Way(lv, top, l, n, i, m)
      BY <2>1 DEF Carries
    <3>2. l \in Nat /\ (d = 1 => l # 0)
      BY <3>1 DEF Way
    <3> QED
      BY <3>2
  <2>3. Carries(lv2, top2, k, l - d, n, i, m, b)
    BY <1>1, <2>1, <2>2
  <2>4. ASSUME NEW l2, NEW n2, NEW i2, NEW m2, NEW b2, Carries(lv2, top2, k, l2, n2, i2, m2, b2)
        PROVE  l2 = l - d /\ n2 = n /\ i2 = i /\ m2 = m /\ b2 = b
    <3>1. l2 \in Nat /\ Carries(lv, top, k, l2 + d, n2, i2, m2, b2)
      BY <1>1, <2>4
    <3>2. l2 + d = l /\ n2 = n /\ i2 = i /\ m2 = m /\ b2 = b
      BY <2>1, <3>1
    <3> QED
      BY <2>2, <3>1, <3>2
  <2> QED
    BY <2>1, <2>3, <2>4 DEF SentTo
<1> QED
  BY <1>2, <1>3

(* A burst that does not carry k is queued. *)
LEMMA QueueOtherSent ==
    ASSUME NEW top \in Nat, NEW lv \in [0 .. top -> Batch], NEW a \in Nodes,
           NEW burst \in SUBSET Message, NEW k,
           \A m \in burst : \A b \in m.blocks : k \notin Keys(b)
    PROVE  /\ NotSent(lv, top, k) => NotSent(Queued(lv, top, a, burst), top, k)
           /\ \A p : SentTo(lv, top, k, p) => SentTo(Queued(lv, top, a, burst), top, k, p)
<1> DEFINE lv2 == Queued(lv, top, a, burst)
<1>1. \A l, n, i, m, b : Carries(lv2, top, k, l, n, i, m, b) <=> Carries(lv, top, k, l, n, i, m, b)
  BY WayQueued DEF Carries
<1> HIDE DEF lv2
<1>2. NotSent(lv, top, k) => NotSent(lv2, top, k)
  BY <1>1 DEF NotSent
<1>3. \A p : SentTo(lv, top, k, p) => SentTo(lv2, top, k, p)
  BY <1>1 DEF SentTo
<1> QED
  BY <1>2, <1>3 DEF lv2

(* One that does is queued. *)
LEMMA QueueThisSent ==
    ASSUME NEW top \in Nat, NEW lv \in [0 .. top -> Batch], NEW a \in Nodes,
           NEW m \in Message, NEW k, NEW b \in m.blocks, k \in Keys(b),
           \A c \in m.blocks : k \in Keys(c) => c = b,
           NotSent(lv, top, k)
    PROVE  SentTo(Queued(lv, top, a, {m}), top, k, m.dst)
<1> DEFINE lv2 == Queued(lv, top, a, {m})
           j   == Len(lv[top][a]) + 1
<1>1. \A l, n, i, x : Way(lv2, top, l, n, i, x) <=>
         Way(lv, top, l, n, i, x) \/ (l = top /\ n = a /\ i = j /\ x = m)
  <2>1. {m} \in SUBSET Message
    OBVIOUS
  <2> QED
    BY <2>1, WayQueued
<1> HIDE DEF lv2, j
<1>2. Carries(lv2, top, k, top, a, j, m, b)
  BY <1>1 DEF Carries
<1>3. ASSUME NEW l2, NEW n2, NEW i2, NEW m2, NEW b2, Carries(lv2, top, k, l2, n2, i2, m2, b2)
      PROVE  l2 = top /\ n2 = a /\ i2 = j /\ m2 = m /\ b2 = b
  <2>1. ~ Way(lv, top, l2, n2, i2, m2)
    BY <1>3 DEF NotSent, Carries
  <2> QED
    BY <1>1, <1>3, <2>1 DEF Carries
<1>4. ASSUME NEW p, p = m.dst PROVE SentTo(lv2, top, k, p)
  BY <1>2, <1>3, <1>4 DEF SentTo
<1> QED
  BY <1>4 DEF lv2

(* The first message of a sender leaves the inbox. *)
LEMMA RestSent ==
    ASSUME NEW top \in Nat, NEW lv \in [0 .. top -> Batch],
           NEW a \in Nodes, lv[0][a] # << >>, NEW m \in Head(lv[0][a]), NEW k
    PROVE  /\ NotSent(lv, top, k) => NotSent(Rest(lv, a, m), top, k)
           /\ \A p : SentTo(lv, top, k, p) /\ (\A b \in m.blocks : k \notin Keys(b)) =>
                       SentTo(Rest(lv, a, m), top, k, p)
           /\ \A p : \A b \in m.blocks : SentTo(lv, top, k, p) /\ k \in Keys(b) =>
                       /\ NotSent(Rest(lv, a, m), top, k)
                       /\ p = m.dst
                       /\ \A c \in m.blocks : k \in Keys(c) => c = b
           /\ \A b \in m.blocks : k \in Keys(b) => ~ NotSent(lv, top, k)
<1> DEFINE lv2 == Rest(lv, a, m)
<1>1. Way(lv, top, 0, a, 1, m)
  BY WayRest
<1>2. PICK d \in {0, 1} :
        /\ d = 1 => \A x : Way(lv, top, 0, a, 1, x) => x = m
        /\ \A l, n, i, x : Way(lv2, top, l, n, i, x) <=>
             IF l = 0 /\ n = a
             THEN i \in Nat \ {0} /\ Way(lv, top, 0, a, i + d, x) /\ ~(i + d = 1 /\ x = m)
             ELSE Way(lv, top, l, n, i, x)
  BY WayRest
<1> HIDE DEF lv2
<1> DEFINE Old(l, n, i) == IF l = 0 /\ n = a THEN i + d ELSE i
<1>3. ASSUME NEW l, NEW n, NEW i, NEW x, NEW b, Carries(lv2, top, k, l, n, i, x, b)
      PROVE  /\ Carries(lv, top, k, l, n, Old(l, n, i), x, b)
             /\ ~ (l = 0 /\ n = a /\ Old(l, n, i) = 1 /\ x = m)
             /\ (l = 0 /\ n = a => i \in Nat)
  BY <1>2, <1>3 DEF Carries
<1>4. ASSUME NEW l, NEW n, NEW i, NEW x, NEW b, Carries(lv, top, k, l, n, i, x, b),
             ~ (l = 0 /\ n = a /\ i = 1 /\ x = m)
      PROVE  \E j : Carries(lv2, top, k, l, n, j, x, b) /\ Old(l, n, j) = i
  <2>1. CASE l = 0 /\ n = a
    <3>1. i \in Nat \ {0}
      <4>1. Way(lv, top, l, n, i, x)
        BY <1>4 DEF Carries
      <4>2. lv[l][n] \in Seq(SUBSET Message) /\ i \in 1 .. Len(lv[l][n])
        BY <4>1, WayType
      <4> QED
        BY <4>2
    <3>2. i - d \in Nat \ {0} /\ (i - d) + d = i
      BY <1>2, <1>4, <2>1, <3>1 DEF Carries
    <3> QED
      BY <1>2, <1>4, <2>1, <3>2 DEF Carries
  <2>2. CASE ~(l = 0 /\ n = a)
    BY <1>2, <1>4, <2>2 DEF Carries
  <2> QED
    BY <2>1, <2>2
<1>5. NotSent(lv, top, k) => NotSent(lv2, top, k)
  BY <1>3 DEF NotSent
<1>6. ASSUME NEW b \in m.blocks, k \in Keys(b) PROVE Carries(lv, top, k, 0, a, 1, m, b)
  BY <1>1, <1>6 DEF Carries
<1>7. ASSUME NEW p, SentTo(lv, top, k, p), \A b \in m.blocks : k \notin Keys(b)
      PROVE  SentTo(lv2, top, k, p)
  <2>1. PICK l, n, i, x, b :
          /\ Carries(lv, top, k, l, n, i, x, b) /\ x.dst = p
          /\ \A l2, n2, i2, m2, b2 : Carries(lv, top, k, l2, n2, i2, m2, b2) =>
               l2 = l /\ n2 = n /\ i2 = i /\ m2 = x /\ b2 = b
    BY <1>7 DEF SentTo
  <2>2. x # m
    BY <1>7, <2>1 DEF Carries
  <2>3. PICK j : Carries(lv2, top, k, l, n, j, x, b) /\ Old(l, n, j) = i
    BY <1>4, <2>1, <2>2
  <2>4. ASSUME NEW l2, NEW n2, NEW i2, NEW m2, NEW b2, Carries(lv2, top, k, l2, n2, i2, m2, b2)
        PROVE  l2 = l /\ n2 = n /\ i2 = j /\ m2 = x /\ b2 = b
    <3>1. Carries(lv, top, k, l2, n2, Old(l2, n2, i2), m2, b2)
      BY <1>3, <2>4
    <3>2. l2 = l /\ n2 = n /\ Old(l2, n2, i2) = i /\ m2 = x /\ b2 = b
      BY <2>1, <3>1
    <3>3. l = 0 /\ n = a => i2 \in Nat /\ j \in Nat
      BY <1>3, <2>3, <2>4, <3>2
    <3>4. i2 = j
      BY <2>3, <3>2, <3>3
    <3> QED
      BY <3>2, <3>4
  <2> HIDE DEF Old
  <2> QED
    BY <2>1, <2>3, <2>4 DEF SentTo
<1>8. ASSUME NEW p, NEW b \in m.blocks, SentTo(lv, top, k, p), k \in Keys(b)
      PROVE  /\ NotSent(lv2, top, k)
             /\ p = m.dst
             /\ \A c \in m.blocks : k \in Keys(c) => c = b
  <2>1. PICK l, n, i, x, c :
          /\ Carries(lv, top, k, l, n, i, x, c) /\ x.dst = p
          /\ \A l2, n2, i2, m2, b2 : Carries(lv, top, k, l2, n2, i2, m2, b2) =>
               l2 = l /\ n2 = n /\ i2 = i /\ m2 = x /\ b2 = c
    BY <1>8 DEF SentTo
  <2>2. l = 0 /\ n = a /\ i = 1 /\ x = m /\ b = c
    BY <1>6, <1>8, <2>1
  <2>3. NotSent(lv2, top, k)
    <3> HIDE DEF Old
    <3>1. SUFFICES ASSUME NEW l2, NEW n2, NEW i2, NEW m2, NEW b2,
                          Carries(lv2, top, k, l2, n2, i2, m2, b2)
                   PROVE  FALSE
      BY DEF NotSent
    <3>2. Carries(lv, top, k, l2, n2, Old(l2, n2, i2), m2, b2)
      BY <1>3, <3>1
    <3> QED
      BY <1>3, <2>1, <2>2, <3>1, <3>2
  <2> QED
    BY <1>6, <2>1, <2>2, <2>3
<1> QED
  BY <1>5, <1>6, <1>7, <1>8 DEF NotSent, lv2
-----------------------------------------------------------------------------
(* Blocks that are cut up before some of them are sent: K1 has the keys of *)
(* K, and still each in one block.                                         *)

OneAtMost(K, k) == \A b, c \in K : k \in Keys(b) /\ k \in Keys(c) => b = c

SameKey(K, K1, k) ==
    /\ (\E b \in K : k \in Keys(b)) <=> (\E c \in K1 : k \in Keys(c))
    /\ OneAtMost(K, k) => OneAtMost(K1, k)

Recut(K, K1) == K1 \subseteq FullBlock /\ \A k : SameKey(K, K1, k)

LEMMA RecutNothing ==
    ASSUME NEW K \in SUBSET FullBlock
    PROVE  Recut(K, K)
BY DEF Recut, SameKey

LEMMA BlockReplaced ==
    ASSUME NEW K, NEW b \in K, NEW P, NEW k,
           k \in Keys(b) <=> \E c \in P : k \in Keys(c),
           \A c, d \in P : k \in Keys(c) /\ k \in Keys(d) => c = d
    PROVE  SameKey(K, (K \ {b}) \cup P, k)
<1> DEFINE K1 == (K \ {b}) \cup P
<1>1. (\E c \in K : k \in Keys(c)) <=> (\E c \in K1 : k \in Keys(c))
  OBVIOUS
<1>2. ASSUME OneAtMost(K, k), NEW c \in K1, NEW d \in K1, k \in Keys(c), k \in Keys(d)
      PROVE  c = d
  <2>1. c \in P \/ (c \in K /\ c # b)
    OBVIOUS
  <2>2. d \in P \/ (d \in K /\ d # b)
    OBVIOUS
  <2>3. c \in P \/ d \in P => k \in Keys(b)
    BY <1>2
  <2>4. \A e \in K : k \in Keys(e) /\ k \in Keys(b) => e = b
    BY <1>2 DEF OneAtMost
  <2>5. c \in K /\ d \in K => c = d
    BY <1>2 DEF OneAtMost
  <2> QED
    BY <1>2, <2>1, <2>2, <2>3, <2>4, <2>5
<1>3. OneAtMost(K, k) => OneAtMost(K1, k)
  BY <1>2 DEF OneAtMost
<1> QED
  BY <1>1, <1>3 DEF SameKey

LEMMA RecutBlock ==
    ASSUME NEW K \in SUBSET FullBlock, NEW b \in K, NEW P, CutInto(b, P)
    PROVE  Recut(K, (K \ {b}) \cup P)
<1>1. \A k : SameKey(K, (K \ {b}) \cup P, k)
  BY BlockReplaced DEF CutInto
<1>2. (K \ {b}) \cup P \subseteq FullBlock
  BY DEF CutInto
<1> QED
  BY <1>1, <1>2 DEF Recut

(* What block sharing cuts and sends: one block or none is cut, and what   *)
(* is sent is there after the cut.                                         *)
AfterCut(blocks, s) == (blocks \ s.cut) \cup UNION { Chain(b, s.down) : b \in s.cut }

LEMMA SharesCut ==
    ASSUME NEW blocks \in SUBSET Block, NEW w \in Strides, NEW s \in Shares(blocks, w)
    PROVE  /\ \/ s.cut = {}
              \/ \E b \in blocks : s.cut = {b} /\ s.down \in Strides /\ b.stride <= s.down
           /\ s.sent \subseteq AfterCut(blocks, s)
<1>1. CASE s \in ShareOne(blocks, w)
  <2>1. PICK b \in FullBlocks(blocks) \ Smaller(blocks, w) :
          s = [cut |-> {b}, down |-> w, sent |-> {LastPiece(b, w)}]
    BY <1>1 DEF ShareOne
  <2>2. s.cut = {b} /\ s.down = w /\ s.sent = {LastPiece(b, w)}
    BY <2>1
  <2>3. b \in blocks /\ b.stride <= w
    BY StridesType DEF FullBlocks, Smaller, Block
  <2>4. s.sent \subseteq AfterCut(blocks, s)
    <3>1. AfterCut(blocks, s) = (blocks \ {b}) \cup Chain(b, w)
      BY <2>2 DEF AfterCut
    <3> QED
      BY <2>2, <3>1, PiecesOfChain
  <2> QED
    BY <2>2, <2>3, <2>4
<1>2. CASE s \in ShareSeveral(blocks, w)
  <2>1. PICK T \in SUBSET Smaller(blocks, w) : s = [cut |-> {}, down |-> w, sent |-> T]
    BY <1>2 DEF ShareSeveral
  <2>2. s.cut = {} /\ s.sent = T /\ T \subseteq blocks
    BY <2>1 DEF Smaller, FullBlocks
  <2> QED
    BY <2>2 DEF AfterCut
<1>3. CASE s \in ShareAndFinish(blocks, w)
  <2>1. PICK T \in SUBSET Smaller(blocks, w), b \in Smaller(blocks, w) :
          b \notin T /\ \E v \in FinishStrides(b, Need(w) - TotalUnits(T)) :
            s = [cut |-> {b}, down |-> v,
                 sent |-> T \cup FinishPieces(b, Need(w) - TotalUnits(T), v)]
    BY <1>3 DEF ShareAndFinish, Finish
  <2> DEFINE rest == Need(w) - TotalUnits(T)
  <2> HIDE DEF rest
  <2>2. PICK v \in FinishStrides(b, rest) :
          s = [cut |-> {b}, down |-> v, sent |-> T \cup FinishPieces(b, rest, v)]
    BY <2>1 DEF rest
  <2>3. s.cut = {b} /\ s.down = v /\ s.sent = T \cup FinishPieces(b, rest, v)
    BY <2>2
  <2>4. b \in blocks /\ b \in Block /\ T \subseteq blocks \ {b}
    BY <2>1 DEF Smaller, FullBlocks
  <2>5. v \in Strides /\ b.stride <= v
    <3>1. v \in Strides /\ 2 * b.stride <= v
      BY DEF FinishStrides
    <3> QED
      BY <2>4, <3>1, StridesType DEF Block
  <2>6. s.sent \subseteq AfterCut(blocks, s)
    <3>1. AfterCut(blocks, s) = (blocks \ {b}) \cup Chain(b, v)
      BY <2>3 DEF AfterCut
    <3> QED
      BY <2>3, <2>4, <3>1, PiecesOfChain
  <2> QED
    BY <2>3, <2>4, <2>5, <2>6
<1> QED
  BY <1>1, <1>2, <1>3 DEF Shares

LEMMA SharesRecut ==
    ASSUME NEW blocks \in SUBSET FullBlock, NEW w \in Strides, NEW s \in Shares(blocks, w)
    PROVE  Recut(blocks, AfterCut(blocks, s)) /\ s.sent \subseteq AfterCut(blocks, s)
<1>1. blocks \in SUBSET Block
  BY DEF FullBlock
<1>2. s.sent \subseteq AfterCut(blocks, s)
  BY <1>1, SharesCut
<1>3. CASE s.cut = {}
  <2>1. AfterCut(blocks, s) = blocks
    BY <1>3 DEF AfterCut
  <2> QED
    BY <1>2, <2>1, RecutNothing
<1>4. CASE s.cut # {}
  <2>1. PICK b \in blocks : s.cut = {b} /\ s.down \in Strides /\ b.stride <= s.down
    BY <1>1, <1>4, SharesCut
  <2>2. AfterCut(blocks, s) = (blocks \ {b}) \cup Chain(b, s.down)
    BY <2>1 DEF AfterCut
  <2>3. CutInto(b, Chain(b, s.down))
    BY <2>1, ChainPartitions
  <2> QED
    BY <1>2, <2>2, <2>3, RecutBlock
<1> QED
  BY <1>3, <1>4
-----------------------------------------------------------------------------
(* Where a key is after each kind of step.                                 *)

LEMMA KeptAt ==
    ASSUME NEW nds, NEW nds2, NEW lv, NEW lv2, NEW top, NEW top2, NEW iss, NEW iss2, NEW k,
           NotHeld(nds, k) => NotHeld(nds2, k),
           \A n : HeldBy(nds, k, n) => HeldBy(nds2, k, n),
           NotSent(lv, top, k) => NotSent(lv2, top2, k),
           \A p : SentTo(lv, top, k, p) => SentTo(lv2, top2, k, p),
           iss2[k] = iss[k]
    PROVE  \A t, n : At(nds, lv, top, iss, k, t, n) => At(nds2, lv2, top2, iss2, k, t, n)
BY DEF At

LEMMA SameHeld ==
    ASSUME NEW nds, NEW nds2, \A n \in Nodes : nds2[n].keyspaces = nds[n].keyspaces, NEW k
    PROVE  /\ NotHeld(nds, k) => NotHeld(nds2, k)
           /\ \A n : HeldBy(nds, k, n) => HeldBy(nds2, k, n)
BY DEF NotHeld, HeldBy

(* Node a cuts its blocks into K1 and sends some of them: k is where it    *)
(* was, or among what is sent.                                             *)
Leaves(nds, nds2, a, sent, k) ==
    /\ NotHeld(nds, k) => NotHeld(nds2, k) /\ \A b \in sent : k \notin Keys(b)
    /\ \A n : HeldBy(nds, k, n) =>
         \/ HeldBy(nds2, k, n) /\ \A b \in sent : k \notin Keys(b)
         \/ /\ n = a /\ NotHeld(nds2, k)
            /\ \E b \in sent : k \in Keys(b) /\ \A c \in sent : k \in Keys(c) => c = b

LEMMA RecutHeld ==
    ASSUME NEW nds, NEW nds2, NEW a \in Nodes, NEW K1, NEW sent, \A b \in sent : b \in K1, NEW k,
           SameKey(nds[a].keyspaces, K1, k),
           \A b : b \in nds2[a].keyspaces <=> b \in K1 /\ b \notin sent,
           \A n \in Nodes : n # a => nds2[n].keyspaces = nds[n].keyspaces
    PROVE  Leaves(nds, nds2, a, sent, k)
<1> DEFINE K == nds[a].keyspaces
<1>1. /\ (\E b \in K : k \in Keys(b)) <=> (\E c \in K1 : k \in Keys(c))
      /\ OneAtMost(K, k) => OneAtMost(K1, k)
  BY DEF SameKey
<1>2. NotHeld(nds, k) => NotHeld(nds2, k) /\ \A b \in sent : k \notin Keys(b)
  BY <1>1 DEF NotHeld
<1>3. ASSUME NEW n, HeldBy(nds, k, n)
      PROVE  \/ HeldBy(nds2, k, n) /\ \A b \in sent : k \notin Keys(b)
             \/ /\ n = a /\ NotHeld(nds2, k)
                /\ \E b \in sent : k \in Keys(b) /\ \A c \in sent : k \in Keys(c) => c = b
  <2>1. PICK b \in nds[n].keyspaces :
          /\ n \in Nodes /\ k \in Keys(b)
          /\ \A q \in Nodes : \A c \in nds[q].keyspaces : k \in Keys(c) => q = n /\ c = b
    BY <1>3 DEF HeldBy
  <2>2. CASE n # a
    <3>1. \A c \in K1 : k \notin Keys(c)
      BY <1>1, <2>1, <2>2
    <3>2. HeldBy(nds2, k, n)
      BY <2>1, <2>2, <3>1 DEF HeldBy
    <3> QED
      BY <3>1, <3>2
  <2>3. CASE n = a
    <3>1. OneAtMost(K, k)
      BY <2>1, <2>3 DEF OneAtMost
    <3>2. PICK c \in K1 : k \in Keys(c)
      BY <1>1, <2>1, <2>3
    <3>3. \A d \in K1 : k \in Keys(d) => d = c
      BY <1>1, <3>1, <3>2 DEF OneAtMost
    <3>4. \A q \in Nodes : q # a => \A d \in nds2[q].keyspaces : k \notin Keys(d)
      BY <2>1, <2>3
    <3>5. CASE c \in sent
      <4>1. NotHeld(nds2, k)
        BY <3>3, <3>4, <3>5 DEF NotHeld
      <4> QED
        BY <2>3, <3>2, <3>3, <3>5, <4>1
    <3>6. CASE c \notin sent
      <4>1. c \in nds2[n].keyspaces
        BY <2>3, <3>6
      <4>2. \A q \in Nodes : \A d \in nds2[q].keyspaces : k \in Keys(d) => q = n /\ d = c
        BY <2>3, <3>3, <3>4
      <4>3. HeldBy(nds2, k, n)
        BY <2>1, <3>2, <4>1, <4>2 DEF HeldBy
      <4> QED
        BY <3>3, <3>6, <4>3
    <3> QED
      BY <3>5, <3>6
  <2> QED
    BY <2>2, <2>3
<1> QED
  BY <1>2, <1>3 DEF Leaves

(* A keyspace message is queued, with blocks that leave the sender. *)
LEMMA SendAt ==
    ASSUME NEW top \in Nat, NEW lv \in [0 .. top -> Batch], NEW iss, NEW k,
           NEW nds, NEW nds2, NEW a \in Nodes, NEW m \in Message, NEW K1, \A b \in m.blocks : b \in K1,
           SameKey(nds[a].keyspaces, K1, k),
           \A b : b \in nds2[a].keyspaces <=> b \in K1 /\ b \notin m.blocks,
           \A n \in Nodes : n # a => nds2[n].keyspaces = nds[n].keyspaces
    PROVE  LET lv2 == Queued(lv, top, a, {m})
           IN  \A t, n : At(nds, lv, top, iss, k, t, n) =>
                 \/ At(nds2, lv2, top, iss, k, t, n)
                 \/ t = "held" /\ n = a /\ At(nds2, lv2, top, iss, k, "sent", m.dst)
<1> DEFINE lv2 == Queued(lv, top, a, {m})
<1>1. /\ NotHeld(nds, k) => NotHeld(nds2, k) /\ \A b \in m.blocks : k \notin Keys(b)
      /\ \A n : HeldBy(nds, k, n) =>
           \/ HeldBy(nds2, k, n) /\ \A b \in m.blocks : k \notin Keys(b)
           \/ /\ n = a /\ NotHeld(nds2, k)
              /\ \E b \in m.blocks : k \in Keys(b) /\ \A c \in m.blocks : k \in Keys(c) => c = b
  <2>1. Leaves(nds, nds2, a, m.blocks, k)
    BY RecutHeld
  <2> QED
    BY <2>1 DEF Leaves
<1>2. ASSUME \A b \in m.blocks : k \notin Keys(b)
      PROVE  /\ NotSent(lv, top, k) => NotSent(lv2, top, k)
             /\ \A p : SentTo(lv, top, k, p) => SentTo(lv2, top, k, p)
  <2>1. {m} \in SUBSET Message /\ \A x \in {m} : \A b \in x.blocks : k \notin Keys(b)
    BY <1>2
  <2> QED
    BY <2>1, QueueOtherSent
<1>3. ASSUME NEW b \in m.blocks, k \in Keys(b), \A c \in m.blocks : k \in Keys(c) => c = b,
             NotSent(lv, top, k)
      PROVE  SentTo(lv2, top, k, m.dst)
  BY <1>3, QueueThisSent
<1> HIDE DEF lv2
<1>4. ASSUME NEW t, NEW n, At(nds, lv, top, iss, k, t, n)
      PROVE  \/ At(nds2, lv2, top, iss, k, t, n)
             \/ t = "held" /\ n = a /\ At(nds2, lv2, top, iss, k, "sent", m.dst)
  <2>1. CASE t = "held" /\ iss[k] = << >> /\ HeldBy(nds, k, n) /\ NotSent(lv, top, k)
    <3>1. CASE HeldBy(nds2, k, n) /\ \A b \in m.blocks : k \notin Keys(b)
      BY <1>2, <2>1, <3>1 DEF At
    <3>2. CASE /\ n = a /\ NotHeld(nds2, k)
               /\ \E b \in m.blocks : k \in Keys(b) /\ \A c \in m.blocks : k \in Keys(c) => c = b
      <4>1. SentTo(lv2, top, k, m.dst)
        BY <1>3, <2>1, <3>2
      <4> QED
        BY <2>1, <3>2, <4>1 DEF At
    <3> QED
      BY <1>1, <2>1, <3>1, <3>2
  <2>2. CASE t = "sent" /\ iss[k] = << >> /\ NotHeld(nds, k) /\ SentTo(lv, top, k, n)
    BY <1>1, <1>2, <2>2 DEF At
  <2>3. CASE t = "issued" /\ iss[k] = << n >> /\ NotHeld(nds, k) /\ NotSent(lv, top, k)
    BY <1>1, <1>2, <2>3 DEF At
  <2> QED
    BY <1>4, <2>1, <2>2, <2>3 DEF At
<1> QED
  BY <1>4 DEF lv2

(* The first message of the inbox is delivered. *)
LEMMA DeliverAt ==
    ASSUME NEW top \in Nat, NEW lv \in [0 .. top -> Batch], NEW iss, NEW k,
           NEW nds, NEW nds2,
           NEW a \in Nodes, lv[0][a] # << >>, NEW m \in Head(lv[0][a]), m.dst \in Nodes,
           \A n \in Nodes : nds2[n].keyspaces =
              IF n = m.dst THEN nds[n].keyspaces \cup m.blocks ELSE nds[n].keyspaces
    PROVE  LET lv2 == Rest(lv, a, m)
           IN  \A t, n : At(nds, lv, top, iss, k, t, n) =>
                 \/ At(nds2, lv2, top, iss, k, t, n)
                 \/ t = "sent" /\ n = m.dst /\ At(nds2, lv2, top, iss, k, "held", m.dst)
<1> DEFINE lv2 == Rest(lv, a, m)
<1>1. /\ NotSent(lv, top, k) => NotSent(lv2, top, k)
      /\ \A p : SentTo(lv, top, k, p) /\ (\A b \in m.blocks : k \notin Keys(b)) =>
                  SentTo(lv2, top, k, p)
      /\ \A p : \A b \in m.blocks : SentTo(lv, top, k, p) /\ k \in Keys(b) =>
                  /\ NotSent(lv2, top, k)
                  /\ p = m.dst
                  /\ \A c \in m.blocks : k \in Keys(c) => c = b
      /\ \A b \in m.blocks : k \in Keys(b) => ~ NotSent(lv, top, k)
  BY RestSent
<1> HIDE DEF lv2
<1>2. ASSUME \A b \in m.blocks : k \notin Keys(b)
      PROVE  /\ NotHeld(nds, k) => NotHeld(nds2, k)
             /\ \A n : HeldBy(nds, k, n) => HeldBy(nds2, k, n)
  <2>1. \A n \in Nodes : \A b : k \in Keys(b) => (b \in nds2[n].keyspaces <=> b \in nds[n].keyspaces)
    BY <1>2
  <2> QED
    BY <2>1 DEF NotHeld, HeldBy
<1>3. ASSUME NEW b \in m.blocks, k \in Keys(b), \A c \in m.blocks : k \in Keys(c) => c = b,
             NotHeld(nds, k)
      PROVE  HeldBy(nds2, k, m.dst)
  <2>1. b \in nds2[m.dst].keyspaces
    OBVIOUS
  <2>2. \A q \in Nodes : \A c \in nds2[q].keyspaces : k \in Keys(c) => q = m.dst /\ c = b
    BY <1>3 DEF NotHeld
  <2> QED
    BY <1>3, <2>1, <2>2 DEF HeldBy
<1>4. ASSUME NEW t, NEW n, At(nds, lv, top, iss, k, t, n)
      PROVE  \/ At(nds2, lv2, top, iss, k, t, n)
             \/ t = "sent" /\ n = m.dst /\ At(nds2, lv2, top, iss, k, "held", m.dst)
  <2>1. CASE \A b \in m.blocks : k \notin Keys(b)
    BY <1>1, <1>2, <1>4, <2>1 DEF At
  <2>2. CASE \E b \in m.blocks : k \in Keys(b)
    <3>1. PICK b \in m.blocks : k \in Keys(b)
      BY <2>2
    <3>2. t = "sent" /\ iss[k] = << >> /\ NotHeld(nds, k) /\ SentTo(lv, top, k, n)
      BY <1>1, <1>4, <3>1 DEF At
    <3>3. NotSent(lv2, top, k) /\ n = m.dst /\ \A c \in m.blocks : k \in Keys(c) => c = b
      BY <1>1, <3>1, <3>2
    <3>4. HeldBy(nds2, k, m.dst)
      BY <1>3, <3>1, <3>2, <3>3
    <3> QED
      BY <3>2, <3>3, <3>4 DEF At
  <2> QED
    BY <2>1, <2>2
<1> QED
  BY <1>4 DEF lv2

(* A node takes the first key of one of its blocks. *)
LEMMA ConsumeAt ==
    ASSUME NEW lv, NEW top, NEW iss \in [Key -> Seq(Nodes)], NEW k \in Key,
           NEW nds, NEW nds2, NEW a \in Nodes,
           NEW b \in nds[a].keyspaces, b \in FullBlock, isKeyAvailable(b),
           \A n \in Nodes : nds2[n].keyspaces =
              IF n = a THEN (nds[a].keyspaces \ {b}) \cup
                            (IF isKeyAvailable(AfterNextKey(b)) THEN {AfterNextKey(b)} ELSE {})
              ELSE nds[n].keyspaces
    PROVE  LET iss2 == [iss EXCEPT ![b.start] = Append(@, a)]
           IN  \A t, n : At(nds, lv, top, iss, k, t, n) =>
                 IF k = b.start
                 THEN t = "held" /\ n = a /\ At(nds2, lv, top, iss2, k, "issued", a)
                 ELSE At(nds2, lv, top, iss2, k, t, n)
<1> DEFINE iss2 == [iss EXCEPT ![b.start] = Append(@, a)]
           P    == IF isKeyAvailable(AfterNextKey(b)) THEN {AfterNextKey(b)} ELSE {}
           K    == nds[a].keyspaces
           K1   == (K \ {b}) \cup P
<1>1. /\ b \in BoundedBlock
      /\ Keys(b) = {b.start} \cup Keys(AfterNextKey(b))
      /\ \A j \in Keys(AfterNextKey(b)) : b.start < j
      /\ b.start \in Nat
  BY FullBlockHalves, NextKeyRemovesOne, BlockFields DEF FullBlock
<1>2. b.start \in Keys(b) /\ b.start \notin Keys(AfterNextKey(b))
  BY <1>1
<1>3. \A c \in P : c = AfterNextKey(b)
  OBVIOUS
<1>4. ASSUME k # b.start PROVE k \in Keys(b) <=> \E c \in P : k \in Keys(c)
  <2>1. k \in Keys(AfterNextKey(b)) => isKeyAvailable(AfterNextKey(b))
    <3>1. AfterNextKey(b) \in BoundedBlock
      BY FullBlockHalves
    <3>2. AfterNextKey(b).start \in Nat /\ AfterNextKey(b).end \in Nat
      BY <3>1 DEF BoundedBlock, Block
    <3> QED
      BY <3>2 DEF Keys, isKeyAvailable
  <2> QED
    BY <1>1, <1>4, <2>1
<1> HIDE DEF P
<1>5. ASSUME k # b.start, NEW t, NEW n, At(nds, lv, top, iss, k, t, n)
      PROVE  At(nds2, lv, top, iss2, k, t, n)
  <2>1. SameKey(K, K1, k)
    BY <1>3, <1>4, <1>5, BlockReplaced
  <2>2. iss2[k] = iss[k]
    BY <1>5
  <2> HIDE DEF K1, iss2
  <2>3. /\ \A c : c \in nds2[a].keyspaces <=> c \in K1 /\ c \notin {}
        /\ \A q \in Nodes : q # a => nds2[q].keyspaces = nds[q].keyspaces
    BY DEF K1, P
  <2>4. Leaves(nds, nds2, a, {}, k)
    BY <2>1, <2>3, RecutHeld
  <2>5. /\ NotHeld(nds, k) => NotHeld(nds2, k)
        /\ \A q : HeldBy(nds, k, q) => HeldBy(nds2, k, q)
    BY <2>4 DEF Leaves
  <2> QED
    BY <1>5, <2>2, <2>5, KeptAt
<1>6. ASSUME k = b.start, NEW t, NEW n, At(nds, lv, top, iss, k, t, n)
      PROVE  t = "held" /\ n = a /\ At(nds2, lv, top, iss2, k, "issued", a)
  <2>1. k \in Keys(b)
    BY <1>2, <1>6
  <2>2. t = "held" /\ iss[k] = << >> /\ HeldBy(nds, k, n) /\ NotSent(lv, top, k)
    BY <1>6, <2>1 DEF At, NotHeld
  <2>3. PICK c \in nds[n].keyspaces :
          /\ n \in Nodes /\ k \in Keys(c)
          /\ \A q \in Nodes : \A d \in nds[q].keyspaces : k \in Keys(d) => q = n /\ d = c
    BY <2>2 DEF HeldBy
  <2>4. n = a /\ c = b
    BY <2>1, <2>3
  <2>5. NotHeld(nds2, k)
    <3>1. \A c2 \in P : k \notin Keys(c2)
      BY <1>2, <1>3, <1>6
    <3>2. \A q \in Nodes : nds2[q].keyspaces = IF q = a THEN (K \ {b}) \cup P ELSE nds[q].keyspaces
      BY DEF P
    <3> QED
      BY <2>3, <2>4, <3>1, <3>2 DEF NotHeld
  <2>6. iss2[k] = << a >>
    BY <1>6, <2>2
  <2> QED
    BY <2>2, <2>4, <2>5, <2>6 DEF At
<1> QED
  BY <1>5, <1>6
-----------------------------------------------------------------------------
(* All blocks stay full, and where each key goes: one lemma per kind of    *)
(* step.                                                                   *)

LEMMA HeartbeatPlaces ==
    ASSUME NEW top \in Nat, NEW lv \in [0 .. top -> Batch], NEW iss,
           NEW nds, NEW nds2, NEW a \in Nodes, NEW burst \in SUBSET Message,
           \A m \in burst : m.blocks = {},
           \A n \in Nodes : nds2[n].keyspaces = nds[n].keyspaces,
           AllFull(nds, lv, top)
    PROVE  /\ AllFull(nds2, Queued(lv, top, a, burst), top)
           /\ \A k, t, n : At(nds, lv, top, iss, k, t, n) =>
                            At(nds2, Queued(lv, top, a, burst), top, iss, k, t, n)
<1> DEFINE lv2 == Queued(lv, top, a, burst)
<1>1. \A l, n, i, m : Way(lv2, top, l, n, i, m) => Way(lv, top, l, n, i, m) \/ m \in burst
  BY WayQueued
<1>2. ASSUME NEW k
      PROVE  /\ NotSent(lv, top, k) => NotSent(lv2, top, k)
             /\ \A p : SentTo(lv, top, k, p) => SentTo(lv2, top, k, p)
  <2>1. \A m \in burst : \A b \in m.blocks : k \notin Keys(b)
    OBVIOUS
  <2> QED
    BY <2>1, QueueOtherSent
<1> HIDE DEF lv2
<1>3. AllFull(nds2, lv2, top)
  BY <1>1 DEF AllFull
<1>4. ASSUME NEW k
      PROVE  \A t, n : At(nds, lv, top, iss, k, t, n) => At(nds2, lv2, top, iss, k, t, n)
  <2>1. /\ NotHeld(nds, k) => NotHeld(nds2, k)
        /\ \A n : HeldBy(nds, k, n) => HeldBy(nds2, k, n)
    BY SameHeld
  <2> QED
    BY <1>2, <2>1, KeptAt
<1> QED
  BY <1>3, <1>4 DEF lv2

LEMMA SendPlaces ==
    ASSUME NEW top \in Nat, NEW lv \in [0 .. top -> Batch], NEW iss,
           NEW nds, NEW nds2, NEW a \in Nodes, NEW m \in Message, NEW K1, \A b \in m.blocks : b \in K1,
           Recut(nds[a].keyspaces, K1),
           \A b : b \in nds2[a].keyspaces <=> b \in K1 /\ b \notin m.blocks,
           \A n \in Nodes : n # a => nds2[n].keyspaces = nds[n].keyspaces,
           AllFull(nds, lv, top)
    PROVE  LET lv2 == Queued(lv, top, a, {m})
           IN  /\ AllFull(nds2, lv2, top)
               /\ \A k, t, n : At(nds, lv, top, iss, k, t, n) =>
                    \/ At(nds2, lv2, top, iss, k, t, n)
                    \/ t = "held" /\ n = a /\ At(nds2, lv2, top, iss, k, "sent", m.dst)
<1> DEFINE lv2 == Queued(lv, top, a, {m})
<1>1. \A l, n, i, x : Way(lv2, top, l, n, i, x) => Way(lv, top, l, n, i, x) \/ x = m
  <2>1. {m} \in SUBSET Message
    OBVIOUS
  <2> QED
    BY <2>1, WayQueued
<1>2. K1 \subseteq FullBlock /\ \A k : SameKey(nds[a].keyspaces, K1, k)
  BY DEF Recut
<1>3. ASSUME NEW k
      PROVE  \A t, n : At(nds, lv, top, iss, k, t, n) =>
                \/ At(nds2, lv2, top, iss, k, t, n)
                \/ t = "held" /\ n = a /\ At(nds2, lv2, top, iss, k, "sent", m.dst)
  BY <1>2, SendAt
<1> HIDE DEF lv2
<1>4. AllFull(nds2, lv2, top)
  BY <1>1, <1>2 DEF AllFull
<1> QED
  BY <1>3, <1>4 DEF lv2

LEMMA ShiftPlaces ==
    ASSUME NEW top \in Nat, NEW top2 \in Nat, NEW d \in {0, 1},
           NEW lv, NEW lv2, NEW iss, NEW nds, NEW nds2,
           \A l, n, i, m : Way(lv2, top2, l, n, i, m) <=> l \in Nat /\ Way(lv, top, l + d, n, i, m),
           \A n, i, m : d = 1 => ~ Way(lv, top, 0, n, i, m),
           \A n \in Nodes : nds2[n].keyspaces = nds[n].keyspaces,
           AllFull(nds, lv, top)
    PROVE  /\ AllFull(nds2, lv2, top2)
           /\ \A k, t, n : At(nds, lv, top, iss, k, t, n) => At(nds2, lv2, top2, iss, k, t, n)
<1>1. AllFull(nds2, lv2, top2)
  BY DEF AllFull
<1>2. ASSUME NEW k
      PROVE  \A t, n : At(nds, lv, top, iss, k, t, n) => At(nds2, lv2, top2, iss, k, t, n)
  <2>1. /\ NotHeld(nds, k) => NotHeld(nds2, k)
        /\ \A n : HeldBy(nds, k, n) => HeldBy(nds2, k, n)
    BY SameHeld
  <2>2. /\ NotSent(lv, top, k) => NotSent(lv2, top2, k)
        /\ \A p : SentTo(lv, top, k, p) => SentTo(lv2, top2, k, p)
    BY ShiftSent
  <2> QED
    BY <2>1, <2>2, KeptAt
<1> QED
  BY <1>1, <1>2

LEMMA DeliverPlaces ==
    ASSUME NEW top \in Nat, NEW lv \in [0 .. top -> Batch], NEW iss, NEW nds, NEW nds2,
           NEW a \in Nodes, lv[0][a] # << >>, NEW m \in Head(lv[0][a]), m.dst \in Nodes,
           \A n \in Nodes : nds2[n].keyspaces =
              IF n = m.dst THEN nds[n].keyspaces \cup m.blocks ELSE nds[n].keyspaces,
           AllFull(nds, lv, top)
    PROVE  LET lv2 == Rest(lv, a, m)
           IN  /\ AllFull(nds2, lv2, top)
               /\ \A k, t, n : At(nds, lv, top, iss, k, t, n) =>
                    \/ At(nds2, lv2, top, iss, k, t, n)
                    \/ t = "sent" /\ n = m.dst /\ At(nds2, lv2, top, iss, k, "held", m.dst)
<1> DEFINE lv2 == Rest(lv, a, m)
<1>1. \A l, n, i, x : Way(lv2, top, l, n, i, x) => \E j : Way(lv, top, l, n, j, x)
  <2>1. PICK d \in {0, 1} :
          \A l, n, i, x : Way(lv2, top, l, n, i, x) <=>
             IF l = 0 /\ n = a
             THEN i \in Nat \ {0} /\ Way(lv, top, 0, a, i + d, x) /\ ~(i + d = 1 /\ x = m)
             ELSE Way(lv, top, l, n, i, x)
    BY WayRest
  <2> QED
    BY <2>1
<1>2. m.blocks \subseteq FullBlock
  BY WayRest DEF AllFull
<1>3. ASSUME NEW k
      PROVE  \A t, n : At(nds, lv, top, iss, k, t, n) =>
                \/ At(nds2, lv2, top, iss, k, t, n)
                \/ t = "sent" /\ n = m.dst /\ At(nds2, lv2, top, iss, k, "held", m.dst)
  BY DeliverAt
<1> HIDE DEF lv2
<1>4. AllFull(nds2, lv2, top)
  BY <1>1, <1>2 DEF AllFull
<1> QED
  BY <1>3, <1>4 DEF lv2
-----------------------------------------------------------------------------
(* The steps of the simulation.  Each keeps all keys where they are, or    *)
(* sends some from one node to another, or delivers some, or issues the    *)
(* smallest key of a node.                                                 *)

AtNow(k, t, n) == At(nodes, line, Top, issued, k, t, n)

AllStay == \A k, t, n : AtNow(k, t, n) => AtNow(k, t, n)'

SomeSent(a, p) ==
    \A k, t, n : AtNow(k, t, n) =>
      \/ AtNow(k, t, n)'
      \/ t = "held" /\ n = a /\ AtNow(k, "sent", p)'

SomeTaken(p) ==
    \A k, t, n : AtNow(k, t, n) =>
      \/ AtNow(k, t, n)'
      \/ t = "sent" /\ n = p /\ AtNow(k, "held", p)'

OneIssued(a, j) ==
    /\ AtNow(j, "held", a) /\ AtNow(j, "issued", a)'
    /\ \A k \in Key : AtNow(k, "held", a) => j <= k
    /\ \A k \in Key : \A t, n : k # j /\ AtNow(k, t, n) => AtNow(k, t, n)'

KeysMove ==
    \/ AllStay
    \/ \E a, p \in Nodes : a # p /\ SomeSent(a, p)
    \/ \E p \in Nodes : SomeTaken(p)
    \/ \E a \in Nodes, j \in Key : OneIssued(a, j)

LEMMA MovedPlaces ==
    ASSUME EachAt(nodes, line, Top, issued), KeysMove
    PROVE  EachAt(nodes', line', Top', issued')
<1> SUFFICES ASSUME NEW k \in Key
             PROVE  \E t \in {"held", "sent", "issued"}, n \in Nodes : AtNow(k, t, n)'
  BY DEF EachAt, AtNow
<1>1. PICK t \in {"held", "sent", "issued"}, n \in Nodes : AtNow(k, t, n)
  BY DEF EachAt, AtNow
<1>2. CASE AllStay
  BY <1>1, <1>2 DEF AllStay
<1>3. CASE \E a, p \in Nodes : a # p /\ SomeSent(a, p)
  BY <1>1, <1>3 DEF SomeSent
<1>4. CASE \E p \in Nodes : SomeTaken(p)
  BY <1>1, <1>4 DEF SomeTaken
<1>5. CASE \E a \in Nodes, j \in Key : OneIssued(a, j)
  BY <1>1, <1>5 DEF OneIssued
<1> QED
  BY <1>2, <1>3, <1>4, <1>5 DEF KeysMove

(* A step that leaves the blocks and the messages alone. *)
LEMMA StayStep ==
    ASSUME Placed, UNCHANGED << nodes, toSend, inbox, issued >>
    PROVE  Placed' /\ KeysMove
<1>1. line' = line /\ Top' = Top /\ nodes' = nodes /\ issued' = issued
  BY DEF line, Top
<1>2. AllStay
  BY <1>1 DEF AllStay, AtNow
<1> QED
  BY <1>1, <1>2 DEF Placed, KeysMove

LEMMA CollectKeys ==
    ASSUME TypeOK, TypeOK', CalmDelivery, outages = 0, Placed, Collect
    PROVE  Placed' /\ KeysMove
<1>1. PICK d \in {0, 1} :
        /\ \A l, n, i, m : Way(line', Top', l, n, i, m)
                            <=> l \in Nat /\ Way(line, Top, l + d, n, i, m)
        /\ \A n, i, m : d = 1 => ~ Way(line, Top, 0, n, i, m)
  BY CollectStep
<1>2. \A n \in Nodes : nodes'[n].keyspaces = nodes[n].keyspaces
  BY CollectStep
<1>3. Top \in Nat /\ Top' \in Nat
  BY StateLine DEF Top, TypeOK
<1>4. issued' = issued
  BY DEF Collect, history
<1>5. /\ AllFull(nodes', line', Top')
      /\ \A k, t, n : At(nodes, line, Top, issued, k, t, n) =>
                       At(nodes', line', Top', issued, k, t, n)
  BY <1>1, <1>2, <1>3, ShiftPlaces DEF Placed
<1>6. KeysMove
  BY <1>4, <1>5 DEF KeysMove, AllStay, AtNow
<1> QED
  BY <1>5, <1>6, MovedPlaces DEF Placed

LEMMA DeliverKeys ==
    ASSUME TypeOK, TypeOK', CalmDelivery, outages = 0, Placed, Deliver
    PROVE  Placed' /\ KeysMove
<1>1. PICK a \in Nodes, m \in Message :
        /\ line[0][a] # << >> /\ m \in Head(line[0][a])
        /\ line' = Rest(line, a, m) /\ Top' = Top
        /\ \A n \in Nodes : n # m.dst => nodes'[n] = nodes[n]
        /\ nodes'[m.dst].keyspaces = nodes[m.dst].keyspaces \cup m.blocks
  BY DeliverStep
<1>2. Top \in Nat /\ line \in [0 .. Top -> Batch] /\ m.dst \in Nodes /\ issued' = issued
  BY StateLine DEF Message, Deliver, history
<1>3. \A n \in Nodes : nodes'[n].keyspaces =
              IF n = m.dst THEN nodes[n].keyspaces \cup m.blocks ELSE nodes[n].keyspaces
  BY <1>1
<1>4. AllFull(nodes, line, Top)
  BY DEF Placed
<1>5. /\ AllFull(nodes', Rest(line, a, m), Top)
      /\ \A k, t, n : At(nodes, line, Top, issued, k, t, n) =>
           \/ At(nodes', Rest(line, a, m), Top, issued, k, t, n)
           \/ t = "sent" /\ n = m.dst /\ At(nodes', Rest(line, a, m), Top, issued, k, "held", m.dst)
  BY <1>1, <1>2, <1>3, <1>4, DeliverPlaces
<1>6. SomeTaken(m.dst)
  BY <1>1, <1>2, <1>5 DEF SomeTaken, AtNow
<1>7. KeysMove
  BY <1>2, <1>6 DEF KeysMove
<1> QED
  BY <1>1, <1>5, <1>7, MovedPlaces DEF Placed

LEMMA ConsumeKeys ==
    ASSUME TypeOK, TypeOK', Placed, ConsumeKey
    PROVE  Placed' /\ KeysMove
<1>0. PICK a \in Nodes : a = InTurn
  BY InTurnType
<1>1. PICK b \in minimumKeyspace(nodes[a]) :
        /\ nodes' = [nodes EXCEPT ![a] = getNextKey(@, b)]
        /\ issued' = [issued EXCEPT ![b.start] = Append(@, a)]
  BY <1>0 DEF ConsumeKey
<1>2. /\ a \in Nodes /\ nodes \in [Nodes -> NodeState] /\ issued \in [Key -> Seq(Nodes)]
      /\ toSend' = toSend /\ inbox' = inbox
      /\ EachAt(nodes, line, Top, issued) /\ AllFull(nodes, line, Top)
  BY InTurnType DEF TypeOK, ConsumeKey, network, Placed
<1>3. /\ b \in nodes[a].keyspaces /\ isKeyAvailable(b) /\ b \in FullBlock
      /\ \A c \in nodes[a].keyspaces : isKeyAvailable(c) => b.start <= c.start
  BY <1>2 DEF minimumKeyspace, AllFull
<1> DEFINE P == IF isKeyAvailable(AfterNextKey(b)) THEN {AfterNextKey(b)} ELSE {}
           own == (nodes[a].keyspaces \ {b}) \cup P
<1>4. \A n \in Nodes : nodes'[n] = IF n = a THEN [nodes[n] EXCEPT !.keyspaces = own] ELSE nodes[n]
  BY <1>1, <1>2 DEF getNextKey
<1> HIDE DEF P
<1>5. /\ \A n \in Nodes : nodes'[n].keyspaces = IF n = a THEN own ELSE nodes[n].keyspaces
      /\ \A n \in Nodes : nodes'[n].queue = nodes[n].queue
  <2> HIDE DEF own
  <2>1. \A st \in NodeState : /\ [st EXCEPT !.keyspaces = own].keyspaces = own
                               /\ [st EXCEPT !.keyspaces = own].queue = st.queue
    BY DEF NodeState
  <2>2. \A n \in Nodes : nodes[n] \in NodeState
    BY <1>2
  <2> QED
    BY <1>4, <2>1, <2>2
<1>6. line' = line /\ Top' = Top
  <2>1. [n \in Nodes |-> nodes'[n].queue] = [n \in Nodes |-> nodes[n].queue]
    BY <1>5, Zenon
  <2> QED
    BY <1>2, <2>1 DEF line, LineOf, Top
<1>7. b.start \in Key
  <2>1. b.start \in Nat /\ b.end = MaxKey
    BY <1>3 DEF FullBlock, Block
  <2> QED
    BY <1>3, <2>1, MaxKeyAssumption DEF isKeyAvailable, Key
<1> DEFINE iss2 == [issued EXCEPT ![b.start] = Append(@, a)]
<1>8. ASSUME NEW k \in Key
      PROVE  \A t, n : At(nodes, line, Top, issued, k, t, n) =>
                 IF k = b.start
                 THEN t = "held" /\ n = a /\ At(nodes', line, Top, iss2, k, "issued", a)
                 ELSE At(nodes', line, Top, iss2, k, t, n)
  BY <1>2, <1>3, <1>5, ConsumeAt DEF P
<1>9. issued' = iss2
  BY <1>1
<1> HIDE DEF iss2
<1>10. AtNow(b.start, "held", a) /\ AtNow(b.start, "issued", a)'
  <2>1. PICK t, n : At(nodes, line, Top, issued, b.start, t, n)
    BY <1>2, <1>7 DEF EachAt
  <2>2. t = "held" /\ n = a /\ At(nodes', line, Top, iss2, b.start, "issued", a)
    BY <1>7, <1>8, <2>1
  <2>3. At(nodes, line, Top, issued, b.start, "held", a)
    BY <2>1, <2>2
  <2> QED
    BY <1>6, <1>9, <2>2, <2>3 DEF AtNow
<1>11. ASSUME NEW k \in Key, AtNow(k, "held", a) PROVE b.start <= k
  <2>1. HeldBy(nodes, k, a)
    BY <1>11 DEF AtNow, At
  <2>2. PICK c \in nodes[a].keyspaces : k \in Keys(c)
    BY <2>1 DEF HeldBy
  <2>3. c \in FullBlock /\ c.start \in Nat /\ c.end \in Nat
    BY <1>2 DEF AllFull, FullBlock, Block
  <2>4. isKeyAvailable(c) /\ c.start <= k
    BY <2>2, <2>3 DEF Keys, isKeyAvailable
  <2>5. b.start <= c.start /\ b.start \in Nat /\ k \in Nat
    BY <1>3, <1>7, <2>4, MaxKeyAssumption DEF Key
  <2> QED
    BY <2>3, <2>4, <2>5
<1>12. \A k \in Key : \A t, n : k # b.start /\ AtNow(k, t, n) => AtNow(k, t, n)'
  BY <1>6, <1>8, <1>9 DEF AtNow
<1>13. KeysMove
  <2>1. OneIssued(a, b.start)
    BY <1>10, <1>11, <1>12 DEF OneIssued
  <2> QED
    BY <1>2, <1>7, <2>1 DEF KeysMove
<1>14. AllFull(nodes', line', Top')
  <2>1. P \subseteq FullBlock
    BY <1>3, FullBlockHalves DEF P
  <2> QED
    BY <1>2, <1>5, <1>6, <2>1 DEF AllFull
<1> QED
  BY <1>2, <1>13, <1>14, MovedPlaces DEF Placed

(* A burst is queued at the top of the line. *)
LEMMA LineSent ==
    ASSUME TypeOK, UNCHANGED << toSend, inbox >>, NEW a \in Nodes, NEW burst, NEW st2,
           st2.queue = Append(nodes[a].queue, burst),
           nodes' = [nodes EXCEPT ![a] = st2]
    PROVE  line' = Queued(line, Top, a, burst) /\ Top' = Top
<1>1. nodes \in [Nodes -> NodeState] /\ toSend \in Seq(Batch) /\ inbox \in Batch
  BY DEF TypeOK
<1>2. \A n \in Nodes : nodes'[n].queue = IF n = a THEN Append(nodes[a].queue, burst)
                                          ELSE nodes[n].queue
  BY <1>1
<1>3. ASSUME NEW nds2, nds2 = nodes'
      PROVE  LineOf(nds2, toSend, inbox)
                = Queued(LineOf(nodes, toSend, inbox), Len(toSend) + 1, a, burst)
  <2>1. \A n \in Nodes : nds2[n].queue = IF n = a THEN Append(nodes[a].queue, burst)
                                          ELSE nodes[n].queue
    BY <1>2, <1>3
  <2> QED
    BY ONLY <1>1, <2>1, LineQueued, a \in Nodes
<1> QED
  BY <1>3 DEF line, Top

LEMMA BeatenSends ==
    ASSUME TypeOK
    PROVE  /\ Sends(nodes[InTurn], Beaten, InTurn, PeersInTurn,
                    Beats(nodes[InTurn], InTurn, PeersInTurn), now)
           /\ Beaten.keyspaces = nodes[InTurn].keyspaces
           /\ Beats(nodes[InTurn], InTurn, PeersInTurn) \in SUBSET Message
           /\ \A m \in Beats(nodes[InTurn], InTurn, PeersInTurn) : m.blocks = {}
<1>1. nodes[InTurn] \in NodeState /\ InTurn \in Nodes /\ PeersInTurn \in SUBSET Nodes /\ now \in Nat
  BY InTurnType DEF TypeOK
<1>2. /\ Sends(nodes[InTurn], Beaten, InTurn, PeersInTurn,
               Beats(nodes[InTurn], InTurn, PeersInTurn), now)
      /\ Beaten.keyspaces = nodes[InTurn].keyspaces
  BY <1>1, HeartbeatSends DEF Beaten
<1>3. Beats(nodes[InTurn], InTurn, PeersInTurn) \in SUBSET Message
  BY <1>2 DEF Sends, NextFor
<1>4. \A m \in Beats(nodes[InTurn], InTurn, PeersInTurn) : m.blocks = {}
  BY DEF Beats, heartbeatMessage
<1> QED
  BY <1>2, <1>3, <1>4

LEMMA BeatKeys ==
    ASSUME TypeOK, TypeOK', Placed, BeatOnly \/ BeatThenShare
    PROVE  Placed' /\ KeysMove
<1>1. PICK a \in Nodes : a = InTurn
  BY InTurnType
<1>2. /\ nodes' = [nodes EXCEPT ![a] = Beaten]
      /\ UNCHANGED << toSend, inbox, issued >>
  BY <1>1 DEF BeatOnly, BeatThenShare, network, history
<1> DEFINE burst == Beats(nodes[InTurn], InTurn, PeersInTurn)
<1>3. /\ Beaten.queue = Append(nodes[a].queue, burst) /\ Beaten.keyspaces = nodes[a].keyspaces
      /\ burst \in SUBSET Message /\ \A m \in burst : m.blocks = {}
  BY <1>1, BeatenSends DEF Sends
<1> HIDE DEF burst
<1>4. line' = Queued(line, Top, a, burst) /\ Top' = Top
  BY <1>2, <1>3, LineSent
<1>5. \A n \in Nodes : nodes'[n].keyspaces = nodes[n].keyspaces
  BY <1>2, <1>3 DEF TypeOK
<1>6. Top \in Nat /\ line \in [0 .. Top -> Batch] /\ AllFull(nodes, line, Top)
  BY StateLine DEF Placed
<1>7. /\ AllFull(nodes', Queued(line, Top, a, burst), Top)
      /\ \A k, t, n : At(nodes, line, Top, issued, k, t, n) =>
                       At(nodes', Queued(line, Top, a, burst), Top, issued, k, t, n)
  BY <1>3, <1>5, <1>6, HeartbeatPlaces
<1>8. KeysMove
  BY <1>2, <1>4, <1>7 DEF KeysMove, AllStay, AtNow
<1> QED
  BY <1>4, <1>7, <1>8, MovedPlaces DEF Placed

(* No node is a peer of itself. *)
LEMMA PeersAreOthers == InTurn \notin PeersInTurn
BY LinksAssumption DEF PeersInTurn, Peers

LEMMA ShareKeys ==
    ASSUME TypeOK, TypeOK', Placed, OthersServed, ShareDigit, ~ Dies
    PROVE  Placed' /\ KeysMove
<1>1. PICK a \in Nodes : a = InTurn
  BY InTurnType
<1>2. PICK p \in Neediest, w \in Strides :
        \E s \in Shares(nodes[a].keyspaces, w) :
          /\ nodes' = [nodes EXCEPT ![a] = shareBlocks(@, a, p, s, now)]
          /\ UNCHANGED << network, issued >>
  BY <1>1 DEF ShareDigit
<1>3. PICK s \in Shares(nodes[a].keyspaces, w) :
        /\ nodes' = [nodes EXCEPT ![a] = shareBlocks(@, a, p, s, now)]
        /\ UNCHANGED << network, issued >>
  BY <1>2
<1>4. /\ p \in Nodes /\ a # p /\ nodes \in [Nodes -> NodeState] /\ now \in Nat
      /\ Top \in Nat /\ line \in [0 .. Top -> Batch]
      /\ AllFull(nodes, line, Top)
  BY <1>1, StateLine DEF TypeOK, Neediest, OthersServed, ShareDigit, Placed
<1> DEFINE st  == nodes[a]
           own == AfterCut(st.keyspaces, s)
           st2 == shareBlocks(st, a, p, s, now)
           m   == custMessage(st, a, p, s.sent)
<1>5. Recut(st.keyspaces, own) /\ s.sent \subseteq own /\ own \subseteq FullBlock
  <2>1. st.keyspaces \in SUBSET FullBlock
    BY <1>4 DEF AllFull
  <2>2. Recut(st.keyspaces, own) /\ s.sent \subseteq own
    BY <2>1, SharesRecut
  <2> QED
    BY <2>2 DEF Recut
<1>6. own \in SUBSET Block /\ s.sent \in SUBSET Block /\ st \in NodeState
  BY <1>4, <1>5 DEF FullBlock
<1>7. st2 = sendCustKeyspace([st EXCEPT !.keyspaces = own], a, p, s.sent, now)
  BY Zenon DEF shareBlocks, AfterCut
<1>8. nodes' = [nodes EXCEPT ![a] = st2]
  BY <1>3
<1> HIDE DEF own, st2
<1>9. Sends(st, st2, a, {p}, {m}, now) /\ KeepsRest(st2, own, s.sent)
  <2> HIDE DEF st
  <2>1. /\ Sends(st, st2, a, {p}, {custMessage(st, a, p, s.sent)}, now)
        /\ KeepsRest(st2, own, s.sent)
    BY <1>4, <1>6, <1>7, CustSends
  <2> QED
    BY <2>1
<1>10. m.blocks = s.sent /\ m.dst = p
  BY DEF custMessage
<1> HIDE DEF m
<1>11. st2.queue = Append(nodes[a].queue, {m}) /\ m \in Message
  BY <1>9 DEF Sends, NextFor
<1>12. line' = Queued(line, Top, a, {m}) /\ Top' = Top
  BY <1>3, <1>8, <1>11, LineSent DEF network
<1>13. /\ \A b : b \in nodes'[a].keyspaces <=> b \in own /\ b \notin m.blocks
       /\ \A n \in Nodes : n # a => nodes'[n].keyspaces = nodes[n].keyspaces
       /\ \A b \in m.blocks : b \in own
  BY <1>4, <1>5, <1>8, <1>9, <1>10 DEF KeepsRest
<1>14. /\ AllFull(nodes', Queued(line, Top, a, {m}), Top)
       /\ \A k, t, n : At(nodes, line, Top, issued, k, t, n) =>
            \/ At(nodes', Queued(line, Top, a, {m}), Top, issued, k, t, n)
            \/ t = "held" /\ n = a /\ At(nodes', Queued(line, Top, a, {m}), Top, issued, k, "sent", m.dst)
  BY <1>4, <1>5, <1>11, <1>13, SendPlaces
<1> DEFINE lv2 == Queued(line, Top, a, {m})
<1>15. SomeSent(a, p)
  <2>1. line' = lv2 /\ Top' = Top /\ issued' = issued
    BY <1>3, <1>12 DEF lv2
  <2>2. \A k, t, n : At(nodes, line, Top, issued, k, t, n) =>
           \/ At(nodes', lv2, Top, issued, k, t, n)
           \/ t = "held" /\ n = a /\ At(nodes', lv2, Top, issued, k, "sent", p)
    BY <1>10, <1>14 DEF lv2
  <2> HIDE DEF lv2
  <2> QED
    BY <2>1, <2>2 DEF SomeSent, AtNow
<1>16. KeysMove
  BY <1>4, <1>15 DEF KeysMove
<1> QED
  BY <1>12, <1>14, <1>16, MovedPlaces DEF Placed

(* Two bursts are queued, one after the other. *)
LEMMA LineSentTwice ==
    ASSUME TypeOK, UNCHANGED << toSend, inbox >>, NEW a \in Nodes, NEW burst, NEW burst2,
           NEW st2 \in NodeState, NEW st3,
           st2.queue = Append(nodes[a].queue, burst),
           st3.queue = Append(st2.queue, burst2),
           nodes' = [nodes EXCEPT ![a] = st3]
    PROVE  line' = Queued(Queued(line, Top, a, burst), Top, a, burst2) /\ Top' = Top
<1>1. nodes \in [Nodes -> NodeState] /\ toSend \in Seq(Batch) /\ inbox \in Batch
  BY DEF TypeOK
<1>2. \A n \in Nodes : nodes'[n].queue = IF n = a THEN st3.queue ELSE nodes[n].queue
  BY <1>1
<1> DEFINE mid == [nodes EXCEPT ![a] = st2]
<1>3. mid \in [Nodes -> NodeState] /\ mid[a] = st2
  BY <1>1
<1>4. \A n \in Nodes : mid[n].queue = IF n = a THEN Append(nodes[a].queue, burst)
                                        ELSE nodes[n].queue
  BY <1>1
<1> HIDE DEF mid
<1>5. LineOf(mid, toSend, inbox)
        = Queued(LineOf(nodes, toSend, inbox), Len(toSend) + 1, a, burst)
  BY ONLY <1>1, <1>4, LineQueued, a \in Nodes
<1>6. ASSUME NEW nds2, nds2 = nodes'
      PROVE  LineOf(nds2, toSend, inbox)
                = Queued(LineOf(mid, toSend, inbox), Len(toSend) + 1, a, burst2)
  <2>1. \A n \in Nodes : nds2[n].queue = IF n = a THEN Append(mid[a].queue, burst2)
                                          ELSE mid[n].queue
    BY <1>2, <1>3, <1>4, <1>6
  <2> QED
    BY ONLY <1>1, <1>3, <2>1, LineQueued, a \in Nodes
<1> QED
  BY <1>5, <1>6 DEF line, Top

LEMMA GiveKeys ==
    ASSUME TypeOK, TypeOK', Placed, BeatAndGive, ~ Dies
    PROVE  Placed' /\ KeysMove
<1>1. PICK a \in Nodes : a = InTurn
  BY InTurnType
<1>2. PICK p \in FirstAsker(Beaten, PeersInTurn), b \in Largest(Beaten.keyspaces) :
        /\ nodes' = [nodes EXCEPT ![a] = giveHalf(Beaten, a, p, b, now)]
        /\ UNCHANGED << network, issued >>
  BY <1>1 DEF BeatAndGive
<1>3. /\ p \in Nodes /\ a # p /\ nodes \in [Nodes -> NodeState] /\ now \in Nat
      /\ Beaten \in NodeState /\ b \in Beaten.keyspaces
      /\ Top \in Nat /\ line \in [0 .. Top -> Batch]
      /\ AllFull(nodes, line, Top)
  BY <1>1, <1>2, StateLine, BeatenType, PeersAreOthers, InTurnType
     DEF TypeOK, FirstAsker, Askers, Largest, FullBlocks, Placed
<1> DEFINE beats == Beats(nodes[InTurn], InTurn, PeersInTurn)
           st    == Beaten
           K1    == (st.keyspaces \ {b}) \cup {FirstHalf(b), SecondHalf(b)}
           st3   == giveHalf(st, a, p, b, now)
           m     == custMessage(st, a, p, {SecondHalf(b)})
<1>4. /\ st.queue = Append(nodes[a].queue, beats) /\ st.keyspaces = nodes[a].keyspaces
      /\ beats \in SUBSET Message /\ \A x \in beats : x.blocks = {}
  BY <1>1, BeatenSends DEF Sends
<1>5. Recut(st.keyspaces, K1)
  <2>1. st.keyspaces \in SUBSET FullBlock
    BY <1>3, <1>4 DEF AllFull
  <2>2. CutInto(b, {FirstHalf(b), SecondHalf(b)})
    BY <1>3, <2>1, CutInHalves
  <2> QED
    BY <1>3, <2>1, <2>2, RecutBlock
<1>6. /\ K1 \in SUBSET Block /\ {SecondHalf(b)} \in SUBSET Block
      /\ SecondHalf(b) \in K1
  BY <1>5 DEF Recut, FullBlock
<1>7. st3 = sendCustKeyspace([st EXCEPT !.keyspaces = K1], a, p, {SecondHalf(b)}, now)
  BY Zenon DEF giveHalf, splitKeyspace
<1>st. st \in NodeState
  BY <1>3
<1> HIDE DEF beats, st, K1, st3
<1>8. Sends(st, st3, a, {p}, {m}, now) /\ KeepsRest(st3, K1, {SecondHalf(b)})
  BY <1>3, <1>6, <1>7, <1>st, CustSends
<1>9. m.blocks = {SecondHalf(b)} /\ m.dst = p
  BY DEF custMessage
<1> HIDE DEF m
<1>10. st3.queue = Append(st.queue, {m}) /\ m \in Message /\ nodes' = [nodes EXCEPT ![a] = st3]
  BY <1>2, <1>8 DEF Sends, NextFor, st3, st
<1> DEFINE mid == [nodes EXCEPT ![a] = st]
           lv1 == Queued(line, Top, a, beats)
           lv2 == Queued(lv1, Top, a, {m})
<1>11. line' = lv2 /\ Top' = Top
  <2>1. UNCHANGED << toSend, inbox >>
    BY <1>2 DEF network
  <2> QED
    BY <1>4, <1>10, <1>st, <2>1, LineSentTwice
<1>12. \A n \in Nodes : mid[n].keyspaces = nodes[n].keyspaces
  BY <1>3, <1>4
<1>13. /\ \A c : c \in nodes'[a].keyspaces <=> c \in K1 /\ c \notin m.blocks
       /\ \A n \in Nodes : n # a => nodes'[n].keyspaces = mid[n].keyspaces
       /\ \A c \in m.blocks : c \in K1
       /\ Recut(mid[a].keyspaces, K1)
  BY <1>3, <1>5, <1>6, <1>8, <1>9, <1>10 DEF KeepsRest
<1> HIDE DEF mid
<1>14. /\ AllFull(mid, lv1, Top)
       /\ \A k, t, n : At(nodes, line, Top, issued, k, t, n) =>
                        At(mid, lv1, Top, issued, k, t, n)
  BY <1>3, <1>4, <1>12, HeartbeatPlaces
<1>15. lv1 \in [0 .. Top -> Batch]
  BY <1>3, <1>4, WayQueued
<1> HIDE DEF lv1
<1>16. /\ AllFull(nodes', lv2, Top)
       /\ \A k, t, n : At(mid, lv1, Top, issued, k, t, n) =>
            \/ At(nodes', lv2, Top, issued, k, t, n)
            \/ t = "held" /\ n = a /\ At(nodes', lv2, Top, issued, k, "sent", m.dst)
  <2>1. ASSUME NEW nds2, nds2 = nodes'
        PROVE  /\ AllFull(nds2, Queued(lv1, Top, a, {m}), Top)
               /\ \A k, t, n : At(mid, lv1, Top, issued, k, t, n) =>
                    \/ At(nds2, Queued(lv1, Top, a, {m}), Top, issued, k, t, n)
                    \/ /\ t = "held" /\ n = a
                       /\ At(nds2, Queued(lv1, Top, a, {m}), Top, issued, k, "sent", m.dst)
    <3>1. /\ \A c : c \in nds2[a].keyspaces <=> c \in K1 /\ c \notin m.blocks
          /\ \A n \in Nodes : n # a => nds2[n].keyspaces = mid[n].keyspaces
      BY <1>13, <2>1
    <3>2. m \in Message /\ Top \in Nat /\ \A c \in m.blocks : c \in K1
      BY <1>3, <1>10, <1>13
    <3> QED
      BY ONLY a \in Nodes, <1>13, <1>14, <1>15, <3>1, <3>2, SendPlaces
  <2> QED
    BY <2>1 DEF lv2
<1> HIDE DEF lv2
<1>17. SomeSent(a, p)
  <2>1. issued' = issued
    BY <1>2
  <2>2. \A k, t, n : At(nodes, line, Top, issued, k, t, n) =>
           \/ At(nodes', lv2, Top, issued, k, t, n)
           \/ t = "held" /\ n = a /\ At(nodes', lv2, Top, issued, k, "sent", p)
    BY <1>9, <1>14, <1>16
  <2> QED
    BY <1>11, <2>1, <2>2 DEF SomeSent, AtNow
<1>18. KeysMove
  BY <1>3, <1>17 DEF KeysMove
<1> QED
  BY <1>11, <1>16, <1>18, MovedPlaces DEF Placed

(* A node in the middle of block sharing stays in turn until the peers in  *)
(* deficit are served, and these were among its peers.                     *)
LEMMA OthersStayServed ==
    ASSUME TypeOK, OthersServed, [Next]_vars
    PROVE  OthersServed'
<1> SUFFICES ASSUME phase' = "share" PROVE InTurn' \notin deficit'
  BY DEF OthersServed
<1>1. CASE UNCHANGED vars
  BY <1>1 DEF vars, OthersServed, InTurn
<1>2. CASE BeatThenShare
  <2>1. deficit' \subseteq PeersInTurn /\ InTurn' = InTurn
    BY <1>2 DEF BeatThenShare, HeardPeers, InTurn
  <2> QED
    BY <2>1, PeersAreOthers
<1>3. CASE ShareDigit
  <2>1. phase = "share" /\ turn' = turn /\ deficit' = deficit
    BY <1>3 DEF ShareDigit, Dies, sharing
  <2> QED
    BY <2>1 DEF OthersServed, InTurn
<1>4. CASE ShareNext
  <2>1. phase = "share" /\ turn' = turn /\ deficit' = deficit \ Neediest
    BY <1>4 DEF ShareNext, NextTurn, AfterBeats
  <2> QED
    BY <2>1 DEF OthersServed, InTurn
<1>5. CASE AddNode \/ Tick \/ BeatAndGive \/ BeatOnly \/ Collect \/ Deliver
             \/ Events \/ ConsumeKey \/ ConsumeNothing
  <2>1. phase' # "share"
    BY <1>5 DEF AddNode, Tick, BeatAndGive, BeatOnly, Collect, Deliver, Events, ConsumeKey,
                ConsumeNothing, Dies, NextTurn, NextConsumer, AfterAdd, AfterBeats,
                AfterDeliver, AfterTick
  <2> QED
    BY <2>1
<1> QED
  BY <1>1, <1>2, <1>3, <1>4, <1>5 DEF Next

LEMMA NextKeys ==
    ASSUME TypeOK, TypeOK', CalmDelivery, outages = 0, Placed, OthersServed, [Next]_vars
    PROVE  Placed' /\ KeysMove
<1>1. CASE BeatAndGive /\ ~ Dies
  BY <1>1, GiveKeys
<1>2. CASE BeatOnly \/ BeatThenShare
  BY <1>2, BeatKeys
<1>3. CASE ShareDigit /\ ~ Dies
  BY <1>3, ShareKeys
<1>4. CASE Collect
  BY <1>4, CollectKeys
<1>5. CASE Deliver
  BY <1>5, DeliverKeys
<1>6. CASE ConsumeKey
  BY <1>6, ConsumeKeys
<1>7. CASE UNCHANGED vars \/ Dies \/ AddNode \/ Tick \/ ShareNext \/ Events \/ ConsumeNothing
  <2>1. UNCHANGED << nodes, toSend, inbox, issued >>
    BY <1>7 DEF vars, Dies, AddNode, Tick, ShareNext, Events, ConsumeNothing, network, history
  <2> QED
    BY <2>1, StayStep
<1> QED
  BY <1>1, <1>2, <1>3, <1>4, <1>5, <1>6, <1>7 DEF Next

(* The root starts with all the keys. *)
LEMMA InitAt ==
    ASSUME Init
    PROVE  /\ \A k \in Key : AtNow(k, "held", Root)
           /\ AllFull(nodes, line, Top)
<1>1. /\ toSend = << >> /\ inbox = NoMessages /\ phase = "add"
      /\ issued = [k \in Key |-> << >>]
  BY DEF Init
<1>2. \A n \in Nodes : /\ nodes[n].queue = << >>
                       /\ nodes[n].keyspaces = IF n = Root THEN {RootBlock} ELSE {}
  BY DEF Init, NewNode
<1>3. Root \in Nodes
  BY JoinOrderAssumption, NAssumption DEF Root
<1>4. RootBlock \in FullBlock
  <2>1. 1 \in PowersOf2
    BY DEF PowersOf2, IsPowerOf2
  <2> QED
    BY <2>1, RootBlockType DEF FullBlock, RootBlock
<1>5. ASSUME NEW k \in Key PROVE k \in Keys(RootBlock)
  <2>1. k \in Nat /\ k < MaxKey /\ k = 0 + k * 1
    BY <1>5, MaxKeyAssumption DEF Key
  <2>2. /\ RootBlock \in BoundedBlock /\ RootBlock.end = MaxKey
        /\ RootBlock.start = 0 /\ RootBlock.stride = 1
    BY <1>4, FullBlockHalves DEF RootBlock
  <2> QED
    BY <2>1, <2>2, KeysUnbounded
<1>6. \A l, n, i, m : ~ Way(line, Top, l, n, i, m)
  <2>1. TypeOK
    BY InitTypeOK
  <2>2. Top = 1 /\ line \in [0 .. 1 -> Batch] /\ line[0] = NoMessages
    BY <1>1, <2>1, StateLine DEF Top
  <2>3. line[1] = NoMessages
    <3>1. [n \in Nodes |-> nodes[n].queue] = NoMessages
      BY <1>2, Zenon DEF NoMessages
    <3> QED
      BY <2>1, <2>2, <3>1, StateLine
  <2> QED
    BY <2>2, <2>3 DEF Way, NoMessages
<1>7. ASSUME NEW k \in Key PROVE At(nodes, line, Top, issued, k, "held", Root)
  <2>1. NotSent(line, Top, k)
    BY <1>6 DEF NotSent, Carries
  <2>2. HeldBy(nodes, k, Root)
    BY <1>2, <1>3, <1>5 DEF HeldBy
  <2> QED
    BY <1>1, <2>1, <2>2 DEF At
<1>8. AllFull(nodes, line, Top)
  BY <1>2, <1>4, <1>6 DEF AllFull
<1> QED
  BY <1>7, <1>8 DEF AtNow

LEMMA InitKeys == Init => Placed /\ OthersServed
<1>1. Root \in Nodes
  BY JoinOrderAssumption, NAssumption DEF Root
<1> QED
  BY <1>1, InitAt DEF Placed, EachAt, AtNow, OthersServed, Init

(* While no node has been offline each key is held by one node, in one of  *)
(* its blocks, or carried by one message in one block, or issued once: no  *)
(* call of the nodes or of the network loses or duplicates a key.          *)
THEOREM CalmKeysKept == Spec => []CalmKeys
<1>1. Init => CalmKeys
  BY InitKeys DEF CalmKeys
<1>2. TypeOK /\ TypeOK' /\ CalmDelivery /\ CalmKeys /\ [Next]_vars => CalmKeys'
  <2> SUFFICES ASSUME TypeOK, TypeOK', CalmDelivery, CalmKeys, [Next]_vars, outages' = 0
               PROVE  Placed' /\ OthersServed'
    BY DEF CalmKeys
  <2>1. outages = 0
    BY OutagesCount
  <2> QED
    BY <2>1, NextKeys, OthersStayServed DEF CalmKeys
<1> QED
  BY <1>1, <1>2, TypeCorrect, CalmDelivered, PTL DEF Spec
-----------------------------------------------------------------------------
(* The copies of a key, as KeyConservation counts them.                    *)

LEMMA BlocksWithKey ==
    ASSUME NEW k, NEW w
    PROVE  w \in BlocksWith(k) <=>
             \E n \in Nodes : \E b \in nodes[n].keyspaces : k \in Keys(b) /\ w = << n, b >>
BY DEF BlocksWith

LEMMA HeldBlocks ==
    ASSUME NEW k
    PROVE  /\ NotHeld(nodes, k) => BlocksWith(k) = {}
           /\ \A n : HeldBy(nodes, k, n) => \E b : BlocksWith(k) = { << n, b >> }
<1>1. NotHeld(nodes, k) => BlocksWith(k) = {}
  BY BlocksWithKey DEF NotHeld
<1>2. ASSUME NEW n, HeldBy(nodes, k, n) PROVE \E b : BlocksWith(k) = { << n, b >> }
  <2>1. PICK b \in nodes[n].keyspaces :
          /\ n \in Nodes /\ k \in Keys(b)
          /\ \A q \in Nodes : \A c \in nodes[q].keyspaces : k \in Keys(c) => q = n /\ c = b
    BY <1>2 DEF HeldBy
  <2>2. << n, b >> \in BlocksWith(k)
    BY <2>1, BlocksWithKey
  <2>3. \A w \in BlocksWith(k) : w = << n, b >>
    BY <2>1, BlocksWithKey
  <2>4. BlocksWith(k) = { << n, b >> }
    BY <2>2, <2>3
  <2> QED
    BY <2>4
<1> QED
  BY <1>1, <1>2

(* A message that waits, with the tag of the place where it does. *)
Tagged(l, n, i, m) == << IF l = Top THEN 0 ELSE 1 + l, << n, i, m >> >>

LEMMA WaitingIn ==
    ASSUME NEW batch, NEW w
    PROVE  w \in Waiting(batch) <=>
             \E n \in Nodes : \E i \in DOMAIN batch[n] : \E m \in batch[n][i] : w = << n, i, m >>
BY DEF Waiting

LEMMA InFlightOnLine ==
    ASSUME TypeOK, NEW f
    PROVE  f \in InFlight <=>
             \E l, n, i, m : Way(line, Top, l, n, i, m) /\ f = Tagged(l, n, i, m)
<1>1. /\ Top \in Nat \ {0} /\ Top = Len(toSend) + 1
      /\ line[0] = inbox /\ line[Top] = [n \in Nodes |-> nodes[n].queue]
      /\ \A l \in 1 .. Len(toSend) : line[l] = toSend[l]
  BY StateLine
<1>2. Len(toSend) \in Nat /\ DOMAIN toSend = 1 .. Len(toSend)
  BY DEF TypeOK
<1>3. f \in InFlight <=>
        \/ \E w \in Waiting(line[Top]) : f = << 0, w >>
        \/ \E w \in Waiting(line[0]) : f = << 1, w >>
        \/ \E j \in DOMAIN toSend : \E w \in Waiting(toSend[j]) : f = << 1 + j, w >>
  <2> DEFINE queues == [n \in Nodes |-> nodes[n].queue]
             A    == { << 0, w >> : w \in Waiting(queues) }
             B    == { << 1, w >> : w \in Waiting(inbox) }
             C(j) == { << 1 + j, w >> : w \in Waiting(toSend[j]) }
             D    == UNION { C(j) : j \in DOMAIN toSend }
  <2>1. InFlight = A \cup B \cup D
    BY Zenon DEF InFlight
  <2>2. line[Top] = queues
    BY <1>1
  <2> HIDE DEF queues
  <2>3. f \in A <=> \E w \in Waiting(queues) : f = << 0, w >>
    OBVIOUS
  <2>4. f \in B <=> \E w \in Waiting(inbox) : f = << 1, w >>
    OBVIOUS
  <2>5. \A j : f \in C(j) <=> \E w \in Waiting(toSend[j]) : f = << 1 + j, w >>
    OBVIOUS
  <2> HIDE DEF A, B, C
  <2>6. f \in D <=> \E j \in DOMAIN toSend : f \in C(j)
    OBVIOUS
  <2>7. f \in D <=> \E j \in DOMAIN toSend : \E w \in Waiting(toSend[j]) : f = << 1 + j, w >>
    BY <2>5, <2>6
  <2> HIDE DEF D
  <2> QED
    BY <1>1, <2>1, <2>2, <2>3, <2>4, <2>7
<1>4. ASSUME f \in InFlight
      PROVE  \E l, n, i, m : Way(line, Top, l, n, i, m) /\ f = Tagged(l, n, i, m)
  <2>1. PICK l \in 0 .. Top : \E w \in Waiting(line[l]) :
                                 f = << IF l = Top THEN 0 ELSE 1 + l, w >>
    <3>1. CASE \E w \in Waiting(line[Top]) : f = << 0, w >>
      BY <1>1, <3>1
    <3>2. CASE \E w \in Waiting(line[0]) : f = << 1, w >>
      BY <1>1, <3>2
    <3>3. CASE \E j \in DOMAIN toSend : \E w \in Waiting(toSend[j]) : f = << 1 + j, w >>
      <4>1. PICK j \in 1 .. Len(toSend) : \E w \in Waiting(toSend[j]) : f = << 1 + j, w >>
        BY <1>2, <3>3
      <4>2. j \in 0 .. Top /\ j # Top /\ line[j] = toSend[j]
        BY <1>1, <1>2, <4>1
      <4> QED
        BY <4>1, <4>2
    <3> QED
      BY <1>3, <1>4, <3>1, <3>2, <3>3
  <2>2. PICK w \in Waiting(line[l]) : f = << IF l = Top THEN 0 ELSE 1 + l, w >>
    BY <2>1
  <2>3. PICK n \in Nodes : \E i \in DOMAIN line[l][n] : \E m \in line[l][n][i] : w = << n, i, m >>
    BY <2>2, WaitingIn
  <2>4. PICK i \in DOMAIN line[l][n] : \E m \in line[l][n][i] : w = << n, i, m >>
    BY <2>3
  <2>5. PICK m \in line[l][n][i] : w = << n, i, m >>
    BY <2>4
  <2>6. Way(line, Top, l, n, i, m)
    BY <2>1, <2>3, <2>4, <2>5 DEF Way
  <2> QED
    BY <2>2, <2>5, <2>6 DEF Tagged
<1>5. ASSUME NEW l, NEW n, NEW i, NEW m, Way(line, Top, l, n, i, m), f = Tagged(l, n, i, m)
      PROVE  f \in InFlight
  <2>1. l \in 0 .. Top /\ << n, i, m >> \in Waiting(line[l])
    BY <1>5, WaitingIn DEF Way
  <2>2. CASE l = Top
    BY <1>3, <1>5, <2>1, <2>2 DEF Tagged
  <2>3. CASE l = 0
    BY <1>1, <1>3, <1>5, <2>1, <2>3 DEF Tagged
  <2>4. CASE l # 0 /\ l # Top
    <3>1. l \in 1 .. Len(toSend)
      BY <1>1, <1>2, <2>1, <2>4
    <3>2. << n, i, m >> \in Waiting(toSend[l]) /\ l \in DOMAIN toSend
      BY <1>1, <1>2, <2>1, <3>1
    <3>3. f = << 1 + l, << n, i, m >> >>
      BY <1>5, <2>4 DEF Tagged
    <3> QED
      BY <1>3, <3>2, <3>3
  <2> QED
    BY <2>2, <2>3, <2>4
<1> QED
  BY <1>4, <1>5

LEMMA MessagesWithKey ==
    ASSUME TypeOK, NEW k, NEW f
    PROVE  f \in MessagesWith(k) <=>
             \E l, n, i, m, b : Carries(line, Top, k, l, n, i, m, b) /\ f = Tagged(l, n, i, m)
<1>1. \A l, n, i, m : f = Tagged(l, n, i, m) =>
         (k \in Carried(f) <=> \E b \in m.blocks : k \in Keys(b))
  BY DEF Carried, KeysOf, Tagged
<1>2. f \in MessagesWith(k) <=> f \in InFlight /\ k \in Carried(f)
  BY DEF MessagesWith
<1> QED
  BY <1>1, <1>2, InFlightOnLine DEF Carries

LEMMA SentMessages ==
    ASSUME TypeOK, NEW k
    PROVE  /\ NotSent(line, Top, k) => MessagesWith(k) = {}
           /\ \A p : SentTo(line, Top, k, p) =>
                \E f : MessagesWith(k) = {f} /\ f[2][3].dst = p
<1>1. NotSent(line, Top, k) => MessagesWith(k) = {}
  BY MessagesWithKey DEF NotSent
<1>2. ASSUME NEW p, SentTo(line, Top, k, p)
      PROVE  \E f : MessagesWith(k) = {f} /\ f[2][3].dst = p
  <2>1. PICK l, n, i, m, b :
          /\ Carries(line, Top, k, l, n, i, m, b) /\ m.dst = p
          /\ \A l2, n2, i2, m2, b2 : Carries(line, Top, k, l2, n2, i2, m2, b2) =>
               l2 = l /\ n2 = n /\ i2 = i /\ m2 = m /\ b2 = b
    BY <1>2 DEF SentTo
  <2> DEFINE f == Tagged(l, n, i, m)
  <2>2. f \in MessagesWith(k)
    BY <2>1, MessagesWithKey
  <2>3. \A g \in MessagesWith(k) : g = f
    BY <2>1, MessagesWithKey
  <2>4. f[2][3].dst = p
    BY <2>1 DEF Tagged
  <2> HIDE DEF f
  <2>5. MessagesWith(k) = {f}
    BY <2>2, <2>3
  <2> QED
    BY <2>4, <2>5
<1> QED
  BY <1>1, <1>2

(* A key that is in one place is there once, and the refinement mapping    *)
(* finds it.                                                               *)
PlaceKnown ==
    \A k \in Key : \A t, n : AtNow(k, t, n) => Copies(k) = 1 /\ placeOf(k) = << t, n >>

LEMMA PlacesFound == TypeOK => PlaceKnown
<1> SUFFICES ASSUME TypeOK, NEW k \in Key, NEW t, NEW n, AtNow(k, t, n)
             PROVE  Copies(k) = 1 /\ placeOf(k) = << t, n >>
  BY DEF PlaceKnown
<1>1. Cardinality({}) = 0 /\ \A x : Cardinality({x}) = 1
  BY FS_EmptySet, FS_Singleton
<1>2. CASE t = "held" /\ issued[k] = << >> /\ HeldBy(nodes, k, n) /\ NotSent(line, Top, k)
  <2>1. MessagesWith(k) = {}
    BY <1>2, SentMessages
  <2>2. PICK b : BlocksWith(k) = { << n, b >> }
    BY <1>2, HeldBlocks
  <2>3. Copies(k) = 1
    <3>1. /\ Len(issued[k]) = 0 /\ Cardinality(MessagesWith(k)) = 0
          /\ Cardinality(BlocksWith(k)) = 1
      BY <1>1, <1>2, <2>1, <2>2
    <3> QED
      BY <3>1 DEF Copies
  <2>4. (CHOOSE w \in BlocksWith(k) : TRUE)[1] = n /\ BlocksWith(k) # {}
    <3>1. (CHOOSE w \in BlocksWith(k) : TRUE) \in BlocksWith(k)
      BY <2>2, Zenon
    <3> QED
      BY <2>2, <3>1
  <2> QED
    BY <1>2, <2>3, <2>4 DEF placeOf
<1>3. CASE t = "sent" /\ issued[k] = << >> /\ NotHeld(nodes, k) /\ SentTo(line, Top, k, n)
  <2>1. BlocksWith(k) = {}
    BY <1>3, HeldBlocks
  <2>2. PICK f : MessagesWith(k) = {f} /\ f[2][3].dst = n
    BY <1>3, SentMessages
  <2>3. Copies(k) = 1
    <3>1. /\ Len(issued[k]) = 0 /\ Cardinality(BlocksWith(k)) = 0
          /\ Cardinality(MessagesWith(k)) = 1
      BY <1>1, <1>3, <2>1, <2>2
    <3> QED
      BY <3>1 DEF Copies
  <2>4. (CHOOSE g \in MessagesWith(k) : TRUE)[2][3].dst = n
    <3>1. (CHOOSE g \in MessagesWith(k) : TRUE) \in MessagesWith(k)
      BY <2>2, Zenon
    <3> QED
      BY <2>2, <3>1
  <2> QED
    BY <1>3, <2>1, <2>3, <2>4 DEF placeOf
<1>4. CASE t = "issued" /\ issued[k] = << n >> /\ NotHeld(nodes, k) /\ NotSent(line, Top, k)
  <2>1. BlocksWith(k) = {} /\ MessagesWith(k) = {}
    BY <1>4, HeldBlocks, SentMessages
  <2>2. Copies(k) = 1
    BY <1>1, <1>4, <2>1 DEF Copies
  <2>3. issued[k] # << >> /\ issued[k][1] = n
    BY <1>4
  <2> QED
    BY <1>4, <2>2, <2>3 DEF placeOf
<1> QED
  BY <1>2, <1>3, <1>4 DEF AtNow, At
-----------------------------------------------------------------------------
(* The simulation implements the ledger.                                   *)

places == [k \in Key |-> placeOf(k)]

(* The mapping, key by key. *)
LEMMA PlaceOfKey ==
    ASSUME PlaceKnown, NEW k \in Key, NEW t, NEW n, AtNow(k, t, n)
    PROVE  places[k] = << t, n >>
BY DEF PlaceKnown, places

LEMMA PlaceOfKeyNext ==
    ASSUME PlaceKnown', NEW k \in Key, NEW t, NEW n, AtNow(k, t, n)'
    PROVE  places'[k] = << t, n >>
BY DEF PlaceKnown, places

LEMMA MovesInLedger ==
    ASSUME TypeOK, Placed, Placed', PlaceKnown, PlaceKnown', KeysMove
    PROVE  [Ledger!LedgerNext]_places
<1>1. ASSUME NEW k \in Key
      PROVE  \E t \in {"held", "sent", "issued"}, n \in Nodes :
               AtNow(k, t, n) /\ places[k] = << t, n >>
  BY PlaceOfKey DEF Placed, EachAt, AtNow
<1>2. ASSUME NEW k \in Key
      PROVE  \E t \in {"held", "sent", "issued"}, n \in Nodes : places'[k] = << t, n >>
  BY PlaceOfKeyNext DEF Placed, EachAt, AtNow
<1>3. places' \in [Key -> Ledger!Place]
  BY <1>2 DEF places, Ledger!Place
<1>4. ASSUME AllStay PROVE places' = places
  <2>1. \A k \in Key : places'[k] = places[k]
    BY <1>1, <1>4, PlaceOfKeyNext DEF AllStay
  <2> QED
    BY <2>1 DEF places
<1>5. ASSUME NEW a \in Nodes, NEW p \in Nodes, a # p, SomeSent(a, p)
      PROVE  Ledger!Give(a, p)
  <2>1. ASSUME NEW k \in Key
        PROVE  \/ places'[k] = places[k]
               \/ places[k] = << "held", a >> /\ places'[k] = << "sent", p >>
    BY <1>1, <1>5, PlaceOfKeyNext DEF SomeSent
  <2> QED
    BY <1>5, <2>1 DEF Ledger!Give, Ledger!Held, Ledger!SentTo, places
<1>6. ASSUME NEW p \in Nodes, SomeTaken(p)
      PROVE  Ledger!Take(p)
  <2>1. ASSUME NEW k \in Key
        PROVE  \/ places'[k] = places[k]
               \/ places[k] = << "sent", p >> /\ places'[k] = << "held", p >>
    BY <1>1, <1>6, PlaceOfKeyNext DEF SomeTaken
  <2> QED
    BY <2>1 DEF Ledger!Take, Ledger!Held, Ledger!SentTo, places
<1>7. ASSUME NEW a \in Nodes, NEW j \in Key, OneIssued(a, j)
      PROVE  Ledger!Issue(a, j)
  <2>1. places[j] = << "held", a >> /\ places'[j] = << "issued", a >>
    BY <1>7, PlaceOfKey, PlaceOfKeyNext DEF OneIssued
  <2>2. ASSUME NEW k \in Key, places[k] = << "held", a >> PROVE j <= k
    BY <1>1, <1>7, <2>2 DEF OneIssued
  <2>3. \A k \in Key : k # j => places'[k] = places[k]
    BY <1>1, <1>7, PlaceOfKeyNext DEF OneIssued
  <2>4. places' = [places EXCEPT ![j] = << "issued", a >>]
    BY <2>1, <2>3 DEF places
  <2> QED
    BY <2>1, <2>2, <2>4 DEF Ledger!Issue, Ledger!Held, Ledger!Issued, Ledger!KeysHeld, places
<1>8. Ledger!LedgerNext \/ places' = places
  BY <1>3, <1>4, <1>5, <1>6, <1>7 DEF KeysMove, Ledger!LedgerNext, places
<1> QED
  BY <1>8

LEMMA InitInLedger == Init => Ledger!LedgerInit
<1> SUFFICES ASSUME Init PROVE Ledger!LedgerInit
  OBVIOUS
<1>1. PlaceKnown
  BY InitTypeOK, PlacesFound
<1>2. ASSUME NEW k \in Key PROVE places[k] = << "held", Root >>
  BY <1>1, InitAt, PlaceOfKey
<1> QED
  BY <1>2 DEF Ledger!LedgerInit, Ledger!Held, places

(* While no node has been offline every step of the program is a step of   *)
(* the key ledger: what a node sends another leaves it at once and arrives *)
(* there, splitting and block sharing lose no key and give none twice, and *)
(* every node issues its smallest key first.                               *)
THEOREM LedgerImplemented == Spec /\ [](outages = 0) => ImplementsLedger
<1>1. Init => Ledger!LedgerInit
  BY InitInLedger
<1>2. TypeOK /\ TypeOK' /\ CalmDelivery /\ CalmKeys /\ outages = 0 /\ PlaceKnown /\ PlaceKnown'
        /\ [Next]_vars => [Ledger!LedgerNext]_places
  BY NextKeys, MovesInLedger DEF CalmKeys
<1>3. Spec => []PlaceKnown
  BY TypeCorrect, PlacesFound, PTL
<1>4. Spec /\ [](outages = 0) => [][Ledger!LedgerNext]_places
  BY <1>2, <1>3, TypeCorrect, CalmDelivered, CalmKeysKept, PTL DEF Spec
<1> QED
  BY <1>1, <1>4, PTL DEF Spec, ImplementsLedger, Ledger!LedgerSpec, places

(* While no node has been offline every key is counted once, so none is    *)
(* lost and none issued twice.                                             *)
THEOREM CalmKeysOnce == Spec => [](outages = 0 => AllKeysOnce /\ NoKeyLost /\ IssuedOnce)
<1> DEFINE Kept == AllKeysOnce /\ NoKeyLost /\ IssuedOnce
<1>1. TypeOK /\ CalmKeys /\ PlaceKnown => (outages = 0 => Kept)
  <2> SUFFICES ASSUME TypeOK, CalmKeys, PlaceKnown, outages = 0 PROVE Kept
    OBVIOUS
  <2>1. ASSUME NEW k \in Key PROVE Copies(k) = 1 /\ Len(issued[k]) <= 1
    <3>1. PICK t \in {"held", "sent", "issued"}, n \in Nodes : AtNow(k, t, n)
      BY DEF CalmKeys, Placed, EachAt, AtNow
    <3>2. Copies(k) = 1
      BY <3>1 DEF PlaceKnown
    <3>3. issued[k] = << >> \/ issued[k] = << n >>
      BY <3>1 DEF AtNow, At
    <3>4. Len(<< >>) = 0 /\ Len(<< n >>) = 1 /\ 0 <= 1 /\ 1 <= 1
      OBVIOUS
    <3>5. Len(issued[k]) <= 1
      BY <3>3, <3>4, Zenon
    <3> QED
      BY <3>2, <3>5
  <2>2. ASSUME NEW k \in Key, issued[k] = << >>, BlocksWith(k) = {}, MessagesWith(k) = {} PROVE FALSE
    <3>1. Len(issued[k]) = 0 /\ Cardinality(BlocksWith(k)) = 0 /\ Cardinality(MessagesWith(k)) = 0
      BY <2>2, FS_EmptySet
    <3>2. Copies(k) = 0
      BY <3>1 DEF Copies
    <3> QED
      BY <2>1, <3>2
  <2> QED
    BY <2>1, <2>2 DEF AllKeysOnce, NoKeyLost, IssuedOnce
<1> QED
  BY <1>1, TypeCorrect, CalmKeysKept, PlacesFound, PTL

(* In the ledger, and so in everything that implements it, an issued key   *)
(* stays issued: it is never held or sent again, and never issued by       *)
(* another node.                                                           *)
THEOREM LedgerIssuesOnce == Ledger!LedgerSpec => Ledger!IssuedForGood
<1> DEFINE Kept == \A k \in Key, n \in Nodes :
                     places[k] = << "issued", n >> => places'[k] = << "issued", n >>
<1>1. ASSUME Ledger!LedgerNext PROVE Kept
  <2> SUFFICES ASSUME NEW k \in Key, NEW n \in Nodes, places[k] = << "issued", n >>
               PROVE  places'[k] = << "issued", n >>
    OBVIOUS
  <2>1. \A p \in Nodes : places[k] # << "held", p >> /\ places[k] # << "sent", p >>
    OBVIOUS
  <2>2. CASE \E m, p \in Nodes : Ledger!Give(m, p)
    BY <2>1, <2>2 DEF Ledger!Give, Ledger!Held, Ledger!SentTo, places
  <2>3. CASE \E p \in Nodes : Ledger!Take(p)
    BY <2>1, <2>3 DEF Ledger!Take, Ledger!Held, Ledger!SentTo, places
  <2>4. CASE \E m \in Nodes, j \in Key : Ledger!Issue(m, j)
    <3>1. PICK m \in Nodes, j \in Key : Ledger!Issue(m, j)
      BY <2>4
    <3>2. j # k /\ places' = [places EXCEPT ![j] = << "issued", m >>]
      BY <2>1, <3>1 DEF Ledger!Issue, Ledger!Held, Ledger!Issued, places
    <3> QED
      BY <3>2
  <2> QED
    BY <1>1, <2>2, <2>3, <2>4 DEF Ledger!LedgerNext
<1>2. [Ledger!LedgerNext]_places => [Kept]_places
  BY <1>1
<1> QED
  BY <1>2, PTL DEF Ledger!LedgerSpec, Ledger!IssuedForGood, Ledger!Issued, places
-----------------------------------------------------------------------------
(* Two nodes, however often they go offline.                               *)

OnePeer == \A n, p, q \in Nodes : p # n /\ q # n => p = q

(* The messages of each node, on their way or kept to be sent again. *)
Mail(nds, lv, top) ==
    [n \in Nodes |-> { m \in Message : \/ \E l : Waits(lv, top, l, n, m)
                                       \/ \E e \in nds[n].confirm : e.msg = m }]

(* What the rounds say of them. *)
Books(nds, M) ==
    /\ \A n \in Nodes : \A e \in nds[n].confirm : e.msg \in M[n]
    /\ \A n \in Nodes : \A m \in M[n] :
         /\ m \in Message /\ m.src = n
         /\ m.id < nds[n].nextId[m.dst] /\ m.ack < nds[m.dst].nextId[n]
         /\ m.kind = "keyspace" => Met(nds, m.dst, n)
    /\ \A n, p \in Nodes :
         /\ nds[p].heard[n].id < nds[n].nextId[p]
         /\ Met(nds, n, p) => nds[n].heard[p].ack < nds[n].nextId[p]

(* No message to oneself, no two messages of one id; and the keyspace      *)
(* message that waits for its answer is the last one.                      *)
PairMail(nds, M) ==
    /\ \A n \in Nodes : nds[n].keyspaces \subseteq FullBlock
    /\ \A n \in Nodes : \A m \in M[n] : m.dst # n /\ m.blocks \subseteq FullBlock
    /\ \A n \in Nodes : \A m, x \in M[n] : m.id = x.id => m = x
    /\ \A n \in Nodes : \A e \in nds[n].confirm : \A m \in M[n] :
         e.msg.kind = "keyspace" /\ m.kind = "keyspace" => m.id <= e.msg.id

(* The keyspace message of entry e has not been heard, and nothing that    *)
(* its receiver has sent confirms it.                                      *)
Unheard(nds, M, n, e) ==
    /\ e.msg.kind = "keyspace"
    /\ nds[e.msg.dst].heard[n].id < e.msg.id
    /\ nds[n].heard[e.msg.dst].ack < e.msg.id
    /\ \A m \in M[e.msg.dst] : m.ack < e.msg.id

Holds(nds, k) == \E n \in Nodes : \E b \in nds[n].keyspaces : k \in Keys(b)

(* Message x of n is kept and unheard. *)
Awaited(nds, M, n, x) == \E e \in nds[n].confirm : e.msg = x /\ Unheard(nds, M, n, e)

Waited(nds, M, k) ==
    \E n \in Nodes : \E x : Awaited(nds, M, n, x) /\ \E b \in x.blocks : k \in Keys(b)

(* What a step makes of the mail. *)
Gains(M, M2, a, burst) == \A n \in Nodes : \A m \in M2[n] : m \in M[n] \/ (n = a /\ m \in burst)
Shrinks(M, M2) == \A n \in Nodes : \A m \in M2[n] : m \in M[n]
StillAwaited(nds, M, nds2, M2) ==
    \A n \in Nodes : \A x : Awaited(nds, M, n, x) => Awaited(nds2, M2, n, x)

(* Node a may send these messages. *)
MaySend(nds, a, burst) ==
    \A m \in burst :
      /\ m.dst # a /\ m.blocks \subseteq FullBlock
      /\ m.kind = "keyspace" => canSendKeyspace(nds[a], m.dst) /\ Met(nds, a, m.dst)
-----------------------------------------------------------------------------
LEMMA RoundsBooks ==
    ASSUME NEW nds \in [Nodes -> NodeState], NEW top \in Nat, NEW lv \in [0 .. top -> Batch],
           NEW on, NEW pend, NEW done, Rounds(nds, lv, top, on, pend, done)
    PROVE  Books(nds, Mail(nds, lv, top))
<1> DEFINE M == Mail(nds, lv, top)
<1>1. \A n \in Nodes : \A m : m \in M[n] <=>
        m \in Message /\ ((\E l : Waits(lv, top, l, n, m)) \/ \E e \in nds[n].confirm : e.msg = m)
  BY DEF Mail
<1> HIDE DEF M
<1>2. \A n \in Nodes : \A e \in nds[n].confirm : e.msg \in M[n]
  BY <1>1, FieldTypes
<1>3. SoundInv(nds, lv, top, pend) /\ CountInv(nds, done)
  BY DEF Rounds
<1>4. ASSUME NEW n \in Nodes, NEW m \in M[n] PROVE Sound(nds, pend, n, m)
  BY <1>1, <1>3, SoundFlat
<1>5. \A n, p \in Nodes : nds[n].heard[p].ack \in Nat /\ nds[n].nextId[p] \in Nat
  BY CountTypes
<1>6. \A n, p \in Nodes :
         /\ nds[p].heard[n].id < nds[n].nextId[p]
         /\ Met(nds, n, p) => nds[n].heard[p].ack < nds[n].nextId[p]
  <2> SUFFICES ASSUME NEW n \in Nodes, NEW p \in Nodes
               PROVE  /\ nds[p].heard[n].id < nds[n].nextId[p]
                      /\ Met(nds, n, p) => nds[n].heard[p].ack < nds[n].nextId[p]
    OBVIOUS
  <2>1. /\ nds[p].heard[n].id < nds[n].nextId[p]
        /\ Met(nds, n, p) => nds[n].heard[p].ack + 1 < nds[n].nextId[p]
    BY <1>3, Zenon DEF CountInv
  <2>2. nds[n].heard[p].ack + 1 < nds[n].nextId[p] => nds[n].heard[p].ack < nds[n].nextId[p]
    BY <1>5
  <2> QED
    BY <2>1, <2>2, Zenon
<1>7. \A n \in Nodes : \A m \in M[n] :
         /\ m \in Message /\ m.src = n
         /\ m.id < nds[n].nextId[m.dst] /\ m.ack < nds[m.dst].nextId[n]
         /\ m.kind = "keyspace" => Met(nds, m.dst, n)
  BY <1>1, <1>4 DEF Sound
<1> QED
  BY <1>2, <1>6, <1>7 DEF Books, M

LEMMA StillWaited ==
    ASSUME NEW nds, NEW nds2, NEW M, NEW M2, StillAwaited(nds, M, nds2, M2)
    PROVE  \A k : Waited(nds, M, k) => Waited(nds2, M2, k)
BY Zenon DEF StillAwaited, Waited

LEMMA PairStays ==
    ASSUME NEW nds, NEW nds2, SameRecords(nds, nds2), NEW M, NEW M2, Shrinks(M, M2),
           \A n \in Nodes : \A m \in M[n] : m \in Message,
           \A n \in Nodes : \A e \in nds[n].confirm : e.msg.dst \in Nodes,
           \A n \in Nodes : nds2[n].keyspaces \subseteq FullBlock,
           PairMail(nds, M)
    PROVE  PairMail(nds2, M2) /\ StillAwaited(nds, M, nds2, M2)
<1>1. PairMail(nds2, M2)
  BY DEF PairMail, Shrinks, SameRecords
<1>2. ASSUME NEW n \in Nodes, NEW x, Awaited(nds, M, n, x) PROVE Awaited(nds2, M2, n, x)
  <2>1. PICK e \in nds[n].confirm : e.msg = x /\ Unheard(nds, M, n, e)
    BY <1>2 DEF Awaited
  <2>2. e \in nds2[n].confirm /\ Unheard(nds2, M2, n, e)
    BY <2>1 DEF Unheard, SameRecords, Shrinks
  <2> QED
    BY <2>1, <2>2 DEF Awaited
<1> QED
  BY <1>1, <1>2 DEF StillAwaited

(* Sending: the new message has the highest id, and its entry replaces     *)
(* none; nothing that is sent confirms what was not heard.                 *)
LEMMA PairSends ==
    ASSUME OnePeer, NEW nds \in [Nodes -> NodeState], NEW t \in Nat,
           NEW a \in Nodes, NEW peers \in SUBSET Nodes, NEW burst, NEW st2,
           Sends(nds[a], st2, a, peers, burst, t), MaySend(nds, a, burst),
           NEW M, NEW M2, Gains(M, M2, a, burst),
           Books(nds, M), PairMail(nds, M), st2.keyspaces \subseteq FullBlock
    PROVE  LET nds2 == [nds EXCEPT ![a] = st2]
           IN  /\ PairMail(nds2, M2)
               /\ StillAwaited(nds, M, nds2, M2)
               /\ \A m \in burst : m.kind = "keyspace" => Awaited(nds2, M2, a, m)
<1> DEFINE nds2 == [nds EXCEPT ![a] = st2]
<1>1. \A n \in Nodes : nds2[n] = IF n = a THEN st2 ELSE nds[n]
  OBVIOUS
<1>2. st2.heard = nds[a].heard /\ st2.confirm = Filed(nds[a].confirm, burst, t)
  BY DEF Sends
<1>3. \A m \in burst : /\ m \in Message /\ m.dst \in Nodes /\ m.dst # a /\ m.src = a
                       /\ m.id \in Nat /\ m.ack \in Nat
                       /\ m.id = nds[a].nextId[m.dst] /\ m.ack = nds[a].heard[m.dst].id
                       /\ m.blocks \subseteq FullBlock
                       /\ m.kind = "keyspace" => canSendKeyspace(nds[a], m.dst) /\ Met(nds, a, m.dst)
  BY DEF Sends, NextFor, MaySend, Message
<1>4. \A m, x \in burst : m = x
  BY <1>3 DEF Sends, NextFor, OnePeer
<1>5. \A n \in Nodes : \A m \in M[n] :
         /\ m \in Message /\ m.src = n /\ m.dst \in Nodes /\ m.dst # n
         /\ m.id \in Nat /\ m.ack \in Nat
         /\ m.id < nds[n].nextId[m.dst] /\ m.ack < nds[m.dst].nextId[n]
         /\ m.blocks \subseteq FullBlock
  BY DEF Books, PairMail, Message
<1>6. /\ \A n, p \in Nodes : /\ nds[n].heard[p].id \in Nat /\ nds[n].heard[p].ack \in Nat
                             /\ nds[n].nextId[p] \in Nat
      /\ \A n \in Nodes : \A e \in nds[n].confirm : e.msg \in M[n]
  BY CountTypes DEF Books
<1>7. ASSUME NEW m \in M[a], NEW x \in burst PROVE m.id < x.id /\ m.dst = x.dst
  <2>1. m.dst = x.dst
    BY <1>3, <1>5 DEF OnePeer
  <2> QED
    BY <1>3, <1>5, <2>1
<1>8. \A e \in nds[a].confirm : e \in st2.confirm
  <2>1. ASSUME NEW e \in nds[a].confirm, NEW x \in burst PROVE x.id # e.msg.id
    <3>1. e.msg \in M[a]
      BY <1>6
    <3>2. e.msg.id < x.id /\ e.msg.id \in Nat /\ x.id \in Nat
      BY <1>3, <1>5, <1>7, <3>1
    <3> QED
      BY <3>2
  <2> QED
    BY <1>2, <2>1 DEF Filed
<1>9. \A m \in burst : \E e \in st2.confirm : e.msg = m
  <2> SUFFICES ASSUME NEW m \in burst PROVE \E e \in st2.confirm : e.msg = m
    OBVIOUS
  <2>1. m.dst \in Int
    BY <1>3, NAssumption DEF Nodes
  <2>2. \A y \in burst : y.dst <= m.dst
    BY <1>4, <2>1
  <2>3. m \in { x \in burst : \A y \in burst : y.id = x.id => y.dst <= x.dst }
    BY <2>2
  <2>4. [msg |-> m, sent |-> t] \in st2.confirm
    BY <1>2, <2>3, Zenon DEF Filed
  <2> QED
    BY <2>4
<1>10. \A e \in st2.confirm : e \in nds[a].confirm \/ e.msg \in burst
  BY <1>2 DEF Filed
<1>11. \A n \in Nodes : \A m \in M2[n] : m \in M[n] \/ (n = a /\ m \in burst)
  BY DEF Gains
<1>12. \A n \in Nodes : nds2[n].heard = nds[n].heard
  BY <1>1, <1>2
<1>13. /\ \A n \in Nodes : \A e \in nds2[n].confirm : e \in nds[n].confirm \/ (n = a /\ e.msg \in burst)
       /\ \A n \in Nodes : \A e \in nds[n].confirm : e \in nds2[n].confirm
       /\ \A m \in burst : \E e \in nds2[a].confirm : e.msg = m
  BY <1>1, <1>8, <1>9, <1>10
<1>14. \A n \in Nodes : nds2[n].keyspaces \subseteq FullBlock
  BY <1>1 DEF PairMail
<1> HIDE DEF nds2
<1>15. PairMail(nds2, M2)
  <2>1. \A n \in Nodes : \A m \in M2[n] : m.dst # n /\ m.blocks \subseteq FullBlock
    BY <1>3, <1>5, <1>11
  <2>2. ASSUME NEW n \in Nodes, NEW m \in M2[n], NEW x \in M2[n], m.id = x.id PROVE m = x
    <3>1. CASE m \in M[n] /\ x \in M[n]
      BY <2>2, <3>1 DEF PairMail
    <3>2. CASE n = a /\ m \in burst /\ x \in burst
      BY <1>4, <3>2
    <3>3. CASE n = a /\ m \in M[a] /\ x \in burst
      BY <1>3, <1>5, <1>7, <2>2, <3>3
    <3>4. CASE n = a /\ x \in M[a] /\ m \in burst
      BY <1>3, <1>5, <1>7, <2>2, <3>4
    <3> QED
      BY <1>11, <3>1, <3>2, <3>3, <3>4
  <2>3. ASSUME NEW n \in Nodes, NEW e \in nds2[n].confirm, NEW m \in M2[n],
               e.msg.kind = "keyspace", m.kind = "keyspace"
        PROVE  m.id <= e.msg.id
    <3>1. CASE e \in nds[n].confirm /\ m \in M[n]
      BY <2>3, <3>1 DEF PairMail
    <3>2. CASE e \in nds[n].confirm /\ n = a /\ m \in burst
      <4>1. e.msg.dst = m.dst
        BY <1>6, <1>7, <3>2
      <4>2. canSendKeyspace(nds[a], m.dst)
        BY <1>3, <2>3, <3>2
      <4> QED
        BY <2>3, <3>2, <4>1, <4>2 DEF canSendKeyspace
    <3>3. CASE n = a /\ e.msg \in burst
      <4>1. CASE m \in burst
        BY <1>3, <1>4, <3>3, <4>1
      <4>2. CASE m \in M[a]
        BY <1>3, <1>5, <1>7, <3>3, <4>2
      <4> QED
        BY <1>11, <3>3, <4>1, <4>2
    <3> QED
      BY <1>11, <1>13, <3>1, <3>2, <3>3
  <2> QED
    BY <1>14, <2>1, <2>2, <2>3 DEF PairMail
<1>16. ASSUME NEW n \in Nodes, NEW z, Awaited(nds, M, n, z) PROVE Awaited(nds2, M2, n, z)
  <2>1. PICK e \in nds[n].confirm : e.msg = z /\ Unheard(nds, M, n, e)
    BY <1>16 DEF Awaited
  <2>2. e.msg.dst \in Nodes /\ e.msg.dst # n
    BY <1>5, <1>6
  <2>3. ASSUME NEW x \in M2[e.msg.dst] PROVE x.ack < e.msg.id
    <3>1. CASE x \in M[e.msg.dst]
      BY <2>1, <3>1 DEF Unheard
    <3>2. CASE e.msg.dst = a /\ x \in burst
      <4>1. x.dst = n
        BY <1>3, <2>2, <3>2 DEF OnePeer
      <4>2. x.ack = nds[a].heard[n].id
        BY <1>3, <3>2, <4>1
      <4> QED
        BY <2>1, <3>2, <4>2 DEF Unheard
    <3> QED
      BY <1>11, <2>2, <3>1, <3>2
  <2>4. Unheard(nds2, M2, n, e) /\ e \in nds2[n].confirm
    BY <1>12, <1>13, <2>1, <2>2, <2>3 DEF Unheard
  <2> QED
    BY <2>1, <2>4 DEF Awaited
<1>17. ASSUME NEW m \in burst, m.kind = "keyspace"
       PROVE  Awaited(nds2, M2, a, m)
  <2>1. PICK e \in nds2[a].confirm : e.msg = m
    BY <1>13
  <2>2. m.dst \in Nodes /\ m.dst # a /\ m.id = nds[a].nextId[m.dst] /\ Met(nds, a, m.dst)
    BY <1>3, <1>17
  <2>3. nds[m.dst].heard[a].id < m.id /\ nds[a].heard[m.dst].ack < m.id
    BY <2>2 DEF Books
  <2>4. ASSUME NEW x \in M2[m.dst] PROVE x.ack < m.id
    <3>1. x \in M[m.dst]
      BY <1>11, <2>2
    <3>2. x.dst = a
      BY <1>5, <2>2, <3>1 DEF OnePeer
    <3> QED
      BY <1>5, <2>2, <3>1, <3>2
  <2>5. Unheard(nds2, M2, a, e)
    BY <1>12, <1>17, <2>1, <2>2, <2>3, <2>4 DEF Unheard
  <2> QED
    BY <2>1, <2>5 DEF Awaited
<1> QED
  BY <1>15, <1>16, <1>17 DEF nds2, StillAwaited

(* Of a peer that has been heard the id kept is that of the message, if it *)
(* is a keyspace message or the next one in order, or stays.               *)
LEMMA HeardMoves ==
    ASSUME NEW h \in Heard, NEW m \in Message
    PROVE  \/ h.kind = "none"
           \/ heardAfter(h, m).id = h.id
           \/ /\ heardAfter(h, m).id = m.id
              /\ m.kind = "keyspace" \/ m.id = h.id + 1
<1>1. CASE h.kind # "none" /\ m.kind = "keyspace"
  BY <1>1 DEF heardAfter, Heard, Message
<1>2. CASE h.kind # "none" /\ m.kind = "info"
  BY <1>2 DEF heardAfter, Heard, Message
<1> QED
  BY <1>1, <1>2 DEF Message

LEMMA ReceivedBlocks ==
    ASSUME NEW st \in NodeState, NEW m \in Message, NEW t \in Nat
    PROVE  receiveMessage(st, m, t).keyspaces = st.keyspaces \cup m.blocks
<1>1. \A heard, kept, queued, own :
        [st EXCEPT !.heard = heard, !.confirm = kept, !.queue = queued, !.keyspaces = own].keyspaces = own
  BY NodeStateFields
<1> DEFINE h      == heardAfter(st.heard[m.src], m)
           gone   == erased(st.confirm, m.src, h.ack)
           resend == due(st.confirm, m.src, h.ack, t)
           again  == { [e EXCEPT !.sent = t] : e \in resend }
           kept   == (st.confirm \ (gone \cup resend)) \cup again
           queued == IF resend = {} THEN st.queue ELSE Append(st.queue, { e.msg : e \in resend })
           heard  == [st.heard EXCEPT ![m.src] = h]
<1>2. receiveMessage(st, m, t)
        = [st EXCEPT !.heard = heard, !.confirm = kept, !.queue = queued,
                     !.keyspaces = st.keyspaces \cup m.blocks]
  BY Zenon DEF receiveMessage
<1> HIDE DEF kept, queued, heard
<1> QED
  BY <1>1, <1>2

(* Receiving: a keyspace message that was not heard is taken, or no other  *)
(* message makes its receiver count it as heard, or its sender as          *)
(* confirmed.                                                              *)
LEMMA PairReceives ==
    ASSUME OnePeer, NEW nds \in [Nodes -> NodeState], NEW t \in Nat,
           NEW M, NEW M2, Shrinks(M, M2), Books(nds, M), PairMail(nds, M),
           NEW m, m.src \in Nodes, m \in M[m.src]
    PROVE  LET nds2 == Received(nds, m, t)
           IN  /\ PairMail(nds2, M2)
               /\ \A k : Holds(nds, k) => Holds(nds2, k)
               /\ m.blocks \subseteq nds2[m.dst].keyspaces
               /\ \A n \in Nodes : \A x : Awaited(nds, M, n, x) => Awaited(nds2, M2, n, x) \/ x = m
<1> DEFINE a    == m.src
           b    == m.dst
           old  == nds[b].heard[a]
           h    == heardAfter(old, m)
           st2  == receiveMessage(nds[b], m, t)
           nds2 == Received(nds, m, t)
<1>1. \A n \in Nodes : \A x \in M[n] :
         /\ x \in Message /\ x.src = n /\ x.dst \in Nodes /\ x.dst # n
         /\ x.id \in Nat /\ x.ack \in Nat
         /\ x.blocks \subseteq FullBlock
         /\ x.kind = "keyspace" => Met(nds, x.dst, n)
  BY DEF Books, PairMail, Message
<1>2. /\ \A n, p \in Nodes : /\ nds[n].heard[p].id \in Nat /\ nds[n].heard[p].ack \in Nat
                             /\ nds[n].heard[p] \in Heard
      /\ \A n \in Nodes : \A e \in nds[n].confirm : e.msg \in M[n]
  BY CountTypes DEF Books
<1>3. m \in Message /\ a \in Nodes /\ b \in Nodes /\ a # b /\ old \in Heard /\ nds[b] \in NodeState
  BY <1>1, <1>2
<1>4. /\ h \in Heard /\ h.id \in Nat /\ h.ack \in Nat
      /\ h.ack = m.ack \/ h.ack = old.ack
  <2>1. h \in Heard
    BY <1>3, HeardAfterType
  <2>2. h.ack = m.ack \/ h.ack = old.ack
    BY <1>3, HeardNumbers
  <2>3. \A g \in Heard : g.id \in Nat /\ g.ack \in Nat
    BY DEF Heard
  <2> HIDE DEF h
  <2> QED
    BY <2>1, <2>2, <2>3
<1>5. \/ old.kind = "none"
      \/ h.id = old.id
      \/ h.id = m.id /\ (m.kind = "keyspace" \/ m.id = old.id + 1)
  BY <1>3, HeardMoves
<1>6. /\ st2.heard = [nds[b].heard EXCEPT ![a] = h]
      /\ \A e \in st2.confirm : \E f \in nds[b].confirm : e.msg = f.msg
      /\ \A f \in nds[b].confirm : Acked(f, a, h.ack) \/ \E e \in st2.confirm : e.msg = f.msg
  <2>1. Receives(nds[b], st2, a, h)
    BY <1>3, ReceiveEffect
  <2> HIDE DEF st2, h
  <2> QED
    BY <2>1 DEF Receives
<1>7. st2.keyspaces = nds[b].keyspaces \cup m.blocks
  BY <1>3, ReceivedBlocks
<1>8. \A n \in Nodes : nds2[n] = IF n = b THEN st2 ELSE nds[n]
  BY <1>3 DEF Received
<1> HIDE DEF st2, h, nds2
<1>9. \A n, p \in Nodes : nds2[n].heard[p] = IF n = b /\ p = a THEN h ELSE nds[n].heard[p]
  <2>1. nds[b].heard \in [Nodes -> Heard]
    BY <1>3, NodeStateFields
  <2>2. \A p \in Nodes : st2.heard[p] = IF p = a THEN h ELSE nds[b].heard[p]
    BY <1>3, <1>6, <2>1
  <2> QED
    BY <1>8, <2>2
<1>10. /\ \A n \in Nodes : \A e \in nds2[n].confirm : \E f \in nds[n].confirm : e.msg = f.msg
       /\ \A n \in Nodes : \A f \in nds[n].confirm :
            n # b \/ ~ Acked(f, a, h.ack) => \E e \in nds2[n].confirm : e.msg = f.msg
  BY <1>6, <1>8
<1>11. \A n \in Nodes : nds2[n].keyspaces
         = IF n = b THEN nds[n].keyspaces \cup m.blocks ELSE nds[n].keyspaces
  BY <1>7, <1>8
<1>12. \A n \in Nodes : \A x \in M2[n] : x \in M[n]
  BY DEF Shrinks
<1>13. PairMail(nds2, M2)
  <2>1. \A n \in Nodes : nds2[n].keyspaces \subseteq FullBlock
    BY <1>1, <1>3, <1>11 DEF PairMail
  <2>2. /\ \A n \in Nodes : \A x \in M2[n] : x.dst # n /\ x.blocks \subseteq FullBlock
        /\ \A n \in Nodes : \A x, y \in M2[n] : x.id = y.id => x = y
    BY <1>12 DEF PairMail
  <2>3. \A n \in Nodes : \A e \in nds2[n].confirm : \A x \in M2[n] :
          e.msg.kind = "keyspace" /\ x.kind = "keyspace" => x.id <= e.msg.id
    <3> SUFFICES ASSUME NEW n \in Nodes, NEW e \in nds2[n].confirm, NEW x \in M2[n],
                        e.msg.kind = "keyspace", x.kind = "keyspace"
                 PROVE  x.id <= e.msg.id
      OBVIOUS
    <3>1. PICK f \in nds[n].confirm : e.msg = f.msg
      BY <1>10
    <3> QED
      BY <1>12, <3>1 DEF PairMail
  <2> QED
    BY <2>1, <2>2, <2>3 DEF PairMail
<1>14. \A k : Holds(nds, k) => Holds(nds2, k)
  BY <1>11 DEF Holds
<1>15. ASSUME NEW n \in Nodes, NEW z, Awaited(nds, M, n, z), z # m PROVE Awaited(nds2, M2, n, z)
  <2>1. PICK e \in nds[n].confirm : e.msg = z /\ Unheard(nds, M, n, e)
    BY <1>15 DEF Awaited
  <2>2. /\ e.msg \in M[n] /\ e.msg.dst \in Nodes /\ e.msg.dst # n /\ e.msg.id \in Nat
        /\ e.msg.kind = "keyspace" /\ Met(nds, e.msg.dst, n)
        /\ nds[e.msg.dst].heard[n].id < e.msg.id /\ nds[n].heard[e.msg.dst].ack < e.msg.id
        /\ \A x \in M[e.msg.dst] : x.ack < e.msg.id
    BY <1>1, <1>2, <2>1 DEF Unheard
  <2>3. \A x \in M2[e.msg.dst] : x.ack < e.msg.id
    BY <1>12, <2>2
  <2>4. CASE n = b
    <3>1. e.msg.dst = a
      BY <1>3, <2>2, <2>4 DEF OnePeer
    <3>2. h.ack < e.msg.id
      BY <1>4, <2>2, <2>4, <3>1
    <3>3. ~ Acked(e, a, h.ack)
      BY <1>4, <2>2, <3>2 DEF Acked
    <3>4. PICK f \in nds2[n].confirm : f.msg = e.msg
      BY <1>10, <3>3
    <3>5. /\ nds2[e.msg.dst].heard[n].id < e.msg.id
          /\ nds2[n].heard[e.msg.dst].ack < e.msg.id
      BY <1>3, <1>9, <2>2, <2>4, <3>1, <3>2
    <3>6. Unheard(nds2, M2, n, f)
      BY <2>2, <2>3, <3>4, <3>5 DEF Unheard
    <3> QED
      BY <2>1, <3>4, <3>6 DEF Awaited
  <2>5. CASE n # b
    <3>1. n = a /\ e.msg.dst = b
      BY <1>3, <2>2, <2>5 DEF OnePeer
    <3>2. m # e.msg
      BY <1>15, <2>1
    <3>3. m.id # e.msg.id
      BY <2>2, <3>1, <3>2 DEF PairMail
    <3>4. m.kind = "keyspace" => m.id <= e.msg.id
      BY <2>1, <2>2, <3>1 DEF PairMail
    <3>5. old.kind # "none" /\ old.id < e.msg.id
      BY <2>2, <3>1 DEF Met
    <3>6. h.id < e.msg.id
      <4>1. m.id \in Nat /\ old.id \in Nat /\ e.msg.id \in Nat
        BY <1>1, <1>2, <1>3, <2>2
      <4>2. h.id = old.id \/ (h.id = m.id /\ (m.kind = "keyspace" \/ m.id = old.id + 1))
        BY <1>5, <3>5
      <4> HIDE DEF old
      <4> QED
        BY <3>3, <3>4, <3>5, <4>1, <4>2
    <3>7. PICK f \in nds2[n].confirm : f.msg = e.msg
      BY <1>10, <2>5
    <3>8. /\ nds2[e.msg.dst].heard[n].id < e.msg.id
          /\ nds2[n].heard[e.msg.dst].ack < e.msg.id
      BY <1>3, <1>9, <2>2, <3>1, <3>6
    <3>9. Unheard(nds2, M2, n, f)
      BY <2>2, <2>3, <3>7, <3>8 DEF Unheard
    <3> QED
      BY <2>1, <3>7, <3>9 DEF Awaited
  <2> QED
    BY <2>4, <2>5
<1>16. m.blocks \subseteq nds2[b].keyspaces
  BY <1>3, <1>11
<1> QED
  BY <1>13, <1>14, <1>15, <1>16 DEF nds2

-----------------------------------------------------------------------------
(* Shares of the keyspace on their way.                                    *)

(* Keyspace messages of a node are on their way in the order of their ids, *)
(* copies included.                                                        *)
InKeyOrder(lv, top) ==
    \A l, k, n, i, j, m, x :
      /\ Way(lv, top, l, n, i, m) /\ Way(lv, top, k, n, j, x) /\ Before(l, i, k, j)
      /\ m.kind = "keyspace" /\ x.kind = "keyspace"
      => m.id <= x.id

(* The share d of n has been heard by p, and no copy of an earlier one can *)
(* still be heard.                                                         *)
Settled(nds, M, n, p, d) ==
    /\ d <= nds[p].heard[n].id
    /\ \A m \in M[n] : m.kind = "keyspace" => d <= m.id

(* The last share of n for p has been heard, or waits to be.  (last: the   *)
(* ids of the last shares.)                                                *)
Given(nds, M, last) ==
    \A n, p \in Nodes : p # n /\ last[n][p] # 0 =>
      /\ Met(nds, p, n)
      /\ \/ Settled(nds, M, n, p, last[n][p])
         \/ \E x : x.id = last[n][p] /\ Awaited(nds, M, n, x)

Ids(last) == \A n, p \in Nodes : last[n][p] \in Nat

LeastIn(burst, m) == \A x \in burst : m.id <= x.id

(* All of what is said of two nodes and the messages between them. *)
PairLine(nds, lv, top, last) ==
    /\ InKeyOrder(lv, top)
    /\ PairMail(nds, Mail(nds, lv, top))
    /\ Given(nds, Mail(nds, lv, top), last)

LEMMA OrderQueued ==
    ASSUME NEW top \in Nat, NEW lv \in [0 .. top -> Batch],
           NEW a \in Nodes, NEW burst \in SUBSET Message, InKeyOrder(lv, top),
           \A m \in burst : \A l, x : m.kind = "keyspace" /\ x.kind = "keyspace"
                                      /\ Waits(lv, top, l, a, x) => x.id <= m.id
    PROVE  InKeyOrder(Queued(lv, top, a, burst), top)
<1> DEFINE lv2 == Queued(lv, top, a, burst)
           end == Len(lv[top][a]) + 1
<1>1. \A l, n, i, m : Way(lv2, top, l, n, i, m) <=>
        Way(lv, top, l, n, i, m) \/ (l = top /\ n = a /\ i = end /\ m \in burst)
  BY WayQueued
<1>2. \A l, n, i, m : Way(lv, top, l, n, i, m) => /\ l \in 0 .. top /\ n \in Nodes
                                                  /\ i \in 1 .. Len(lv[l][n])
  BY WayType
<1>3. end \in Nat /\ end = Len(lv[top][a]) + 1
  <2>1. lv[top][a] \in Seq(SUBSET Message)
    BY DEF Batch
  <2> QED
    BY <2>1
<1> HIDE DEF lv2, end
<1> SUFFICES ASSUME NEW l, NEW k, NEW n, NEW i, NEW j, NEW m, NEW x,
                    Way(lv2, top, l, n, i, m), Way(lv2, top, k, n, j, x), Before(l, i, k, j),
                    m.kind = "keyspace", x.kind = "keyspace"
             PROVE  m.id <= x.id
  BY Zenon DEF InKeyOrder, lv2
<1>4. CASE Way(lv, top, l, n, i, m) /\ Way(lv, top, k, n, j, x)
  BY <1>4, Zenon DEF InKeyOrder
<1>5. CASE Way(lv, top, l, n, i, m) /\ n = a /\ x \in burst
  BY <1>5, Zenon DEF Waits
<1>6. CASE l = top /\ n = a /\ i = end /\ Way(lv, top, k, n, j, x)
  BY <1>2, <1>3, <1>6 DEF Before
<1>7. CASE l = top /\ i = end /\ k = top /\ j = end
  BY <1>3, <1>7 DEF Before
<1> QED
  BY <1>1, <1>4, <1>5, <1>6, <1>7

LEMMA OrderRest ==
    ASSUME NEW top \in Nat, NEW lv \in [0 .. top -> Batch],
           NEW a \in Nodes, lv[0][a] # << >>, NEW m \in Head(lv[0][a]), InKeyOrder(lv, top)
    PROVE  InKeyOrder(Rest(lv, a, m), top)
<1> DEFINE lv2 == Rest(lv, a, m)
<1>1. PICK d \in {0, 1} : \A l, n, i, x : Way(lv2, top, l, n, i, x) <=>
        IF l = 0 /\ n = a
        THEN i \in Nat \ {0} /\ Way(lv, top, 0, a, i + d, x) /\ ~(i + d = 1 /\ x = m)
        ELSE Way(lv, top, l, n, i, x)
  BY WayRest
<1>2. \A l, n, i, x : Way(lv, top, l, n, i, x) => l \in 0 .. top /\ i \in 1 .. Len(lv[l][n])
  BY WayType
<1> DEFINE Was(l, n, i) == IF l = 0 /\ n = a THEN i + d ELSE i
<1>3. \A l, n, i, x : Way(lv2, top, l, n, i, x) => Way(lv, top, l, n, Was(l, n, i), x)
  BY <1>1
<1>4. \A l, n, i, x : Way(lv2, top, l, n, i, x) => i \in Int /\ l \in Int
  BY <1>1, <1>2
<1> HIDE DEF lv2
<1>5. \A l, k, n, i, j : i \in Int /\ j \in Int /\ l \in Int /\ k \in Int /\ Before(l, i, k, j)
         => Before(l, Was(l, n, i), k, Was(k, n, j))
  BY DEF Before
<1> HIDE DEF Was
<1> SUFFICES ASSUME NEW l, NEW k, NEW n, NEW i, NEW j, NEW y, NEW x,
                    Way(lv2, top, l, n, i, y), Way(lv2, top, k, n, j, x), Before(l, i, k, j),
                    y.kind = "keyspace", x.kind = "keyspace"
             PROVE  y.id <= x.id
  BY Zenon DEF InKeyOrder, lv2
<1>6. /\ Way(lv, top, l, n, Was(l, n, i), y) /\ Way(lv, top, k, n, Was(k, n, j), x)
      /\ Before(l, Was(l, n, i), k, Was(k, n, j))
  BY <1>3, <1>4, <1>5
<1> QED
  BY <1>6, Zenon DEF InKeyOrder

LEMMA OrderCollected ==
    ASSUME NEW lv, NEW top \in Nat, lv \in [0 .. top -> Batch], NEW lv2, NEW top2, NEW d \in {0, 1},
           \A l, n, i, m : Way(lv2, top2, l, n, i, m) <=> l \in Nat /\ Way(lv, top, l + d, n, i, m),
           InKeyOrder(lv, top)
    PROVE  InKeyOrder(lv2, top2)
<1>1. \A l, n, i, x : Way(lv, top, l, n, i, x) => i \in Nat
  BY WayType
<1> SUFFICES ASSUME NEW l, NEW k, NEW n, NEW i, NEW j, NEW m, NEW x,
                    Way(lv2, top2, l, n, i, m), Way(lv2, top2, k, n, j, x), Before(l, i, k, j),
                    m.kind = "keyspace", x.kind = "keyspace"
             PROVE  m.id <= x.id
  BY Zenon DEF InKeyOrder
<1>2. /\ l \in Nat /\ Way(lv, top, l + d, n, i, m)
      /\ k \in Nat /\ Way(lv, top, k + d, n, j, x)
  OBVIOUS
<1>3. Before(l + d, i, k + d, j)
  BY <1>1, <1>2 DEF Before
<1> QED
  BY <1>2, <1>3, Zenon DEF InKeyOrder

(* The first message of a sender is its earliest share. *)
LEMMA FirstIsLeast ==
    ASSUME NEW top \in Nat, NEW lv \in [0 .. top -> Batch],
           NEW a \in Nodes, lv[0][a] # << >>, NEW m \in Head(lv[0][a]),
           LeastIn(Head(lv[0][a]), m),
           InKeyOrder(lv, top), m.kind = "keyspace"
    PROVE  \A l, x : Waits(lv, top, l, a, x) /\ x.kind = "keyspace" => m.id <= x.id
<1> SUFFICES ASSUME NEW l, NEW i, NEW x, Way(lv, top, l, a, i, x), x.kind = "keyspace"
             PROVE  m.id <= x.id
  BY DEF Waits
<1>1. l \in 0 .. top /\ i \in 1 .. Len(lv[l][a]) /\ lv[l][a] \in Seq(SUBSET Message)
  BY WayType
<1>2. Way(lv, top, 0, a, 1, m)
  BY WayRest
<1>3. CASE l = 0 /\ i = 1
  <2>1. x \in lv[0][a][1]
    BY <1>3 DEF Way
  <2> QED
    BY <1>1, <1>3, <2>1 DEF LeastIn
<1>4. CASE ~ (l = 0 /\ i = 1)
  <2>1. Before(0, 1, l, i)
    BY <1>1, <1>4 DEF Before
  <2> QED
    BY <1>2, <2>1, Zenon DEF InKeyOrder
<1> QED
  BY <1>3, <1>4

LEMMA GivenStays ==
    ASSUME NEW nds, NEW nds2, SameRecords(nds, nds2), NEW M, NEW M2, Shrinks(M, M2),
           StillAwaited(nds, M, nds2, M2), NEW last, Given(nds, M, last)
    PROVE  Given(nds2, M2, last)
<1> SUFFICES ASSUME NEW n \in Nodes, NEW p \in Nodes, p # n, last[n][p] # 0
             PROVE  /\ Met(nds2, p, n)
                    /\ \/ Settled(nds2, M2, n, p, last[n][p])
                       \/ \E x : x.id = last[n][p] /\ Awaited(nds2, M2, n, x)
  BY DEF Given
<1>1. nds2[p].heard = nds[p].heard
  BY DEF SameRecords
<1>2. Met(nds2, p, n)
  BY <1>1 DEF Given, Met
<1>3. CASE Settled(nds, M, n, p, last[n][p])
  BY <1>1, <1>2, <1>3 DEF Settled, Shrinks
<1>4. CASE \E x : x.id = last[n][p] /\ Awaited(nds, M, n, x)
  BY <1>2, <1>4 DEF StillAwaited
<1> QED
  BY <1>3, <1>4 DEF Given

(* Sending: a new share has a higher id than the last one. *)
LEMMA GivenSends ==
    ASSUME OnePeer, NEW nds \in [Nodes -> NodeState], NEW nds2, NEW a \in Nodes, NEW burst,
           \A n \in Nodes : nds2[n].heard = nds[n].heard,
           \A m \in burst : m.dst \in Nodes /\ m.dst # a /\ m.id = nds[a].nextId[m.dst],
           NEW M, NEW M2, Gains(M, M2, a, burst), Books(nds, M), PairMail(nds, M),
           StillAwaited(nds, M, nds2, M2),
           NEW last, Ids(last), Given(nds, M, last)
    PROVE  Given(nds2, M2, last)
<1> SUFFICES ASSUME NEW n \in Nodes, NEW p \in Nodes, p # n, last[n][p] # 0
             PROVE  /\ Met(nds2, p, n)
                    /\ \/ Settled(nds2, M2, n, p, last[n][p])
                       \/ \E x : x.id = last[n][p] /\ Awaited(nds2, M2, n, x)
  BY DEF Given
<1>1. Met(nds2, p, n)
  BY DEF Given, Met
<1>2. CASE Settled(nds, M, n, p, last[n][p])
  <2>1. ASSUME NEW m \in M2[n], m.kind = "keyspace" PROVE last[n][p] <= m.id
    <3>1. CASE m \in M[n]
      BY <1>2, <2>1, <3>1 DEF Settled
    <3>2. CASE n = a /\ m \in burst
      <4>1. m.dst = p
        BY <3>2 DEF OnePeer
      <4>2. /\ last[n][p] <= nds[p].heard[n].id /\ nds[p].heard[n].id < nds[n].nextId[p]
            /\ nds[p].heard[n].id \in Nat /\ nds[n].nextId[p] \in Nat
        BY <1>2, CountTypes DEF Settled, Books
      <4>3. m.id = nds[n].nextId[p]
        BY <3>2, <4>1
      <4>4. last[n][p] \in Nat
        BY DEF Ids
      <4> QED
        BY <4>2, <4>3, <4>4
    <3> QED
      BY <3>1, <3>2 DEF Gains
  <2> QED
    BY <1>1, <1>2, <2>1 DEF Settled
<1>3. CASE \E x : x.id = last[n][p] /\ Awaited(nds, M, n, x)
  BY <1>1, <1>3 DEF StillAwaited
<1> QED
  BY <1>2, <1>3 DEF Given

(* Receiving: the share that was waited for settles; no other message      *)
(* takes the id kept below that of a settled one.                          *)
LEMMA GivenReceives ==
    ASSUME OnePeer, NEW nds \in [Nodes -> NodeState], NEW nds2, NEW m, NEW h,
           m.src \in Nodes, m.dst \in Nodes, m \in Message,
           h = heardAfter(nds[m.dst].heard[m.src], m),
           \A n, p \in Nodes : nds2[n].heard[p] = IF n = m.dst /\ p = m.src THEN h
                                                 ELSE nds[n].heard[p],
           NEW M, NEW M2, Shrinks(M, M2), Books(nds, M), PairMail(nds, M), m \in M[m.src],
           \A n \in Nodes : \A x : Awaited(nds, M, n, x) => Awaited(nds2, M2, n, x) \/ x = m,
           m.kind = "keyspace" => \A x \in M2[m.src] : x.kind = "keyspace" => m.id <= x.id,
           NEW last, Ids(last), Given(nds, M, last)
    PROVE  Given(nds2, M2, last)
<1> DEFINE old == nds[m.dst].heard[m.src]
<1>1. /\ old \in Heard /\ old.id \in Nat /\ m.id \in Nat
      /\ m.kind \in {"info", "keyspace"}
  BY CountTypes DEF Message
<1>2. h.kind # "none"
  BY <1>1, HeardNumbers
<1>3. \/ old.kind = "none"
      \/ h.id = old.id
      \/ h.id = m.id /\ (m.kind = "keyspace" \/ m.id = old.id + 1)
  BY <1>1, HeardMoves
<1>4. m.kind = "keyspace" /\ old.kind # "none" => h.id = m.id
  BY <1>1 DEF heardAfter, Heard
<1> HIDE DEF old
<1> SUFFICES ASSUME NEW n \in Nodes, NEW p \in Nodes, p # n, last[n][p] # 0
             PROVE  /\ Met(nds2, p, n)
                    /\ \/ Settled(nds2, M2, n, p, last[n][p])
                       \/ \E x : x.id = last[n][p] /\ Awaited(nds2, M2, n, x)
  BY DEF Given
<1>5. Met(nds, p, n)
  BY DEF Given
<1>6. Met(nds2, p, n)
  BY <1>2, <1>5 DEF Met
<1>7. CASE Settled(nds, M, n, p, last[n][p])
  <2>1. \A x \in M2[n] : x.kind = "keyspace" => last[n][p] <= x.id
    BY <1>7 DEF Settled, Shrinks
  <2>2. CASE ~ (p = m.dst /\ n = m.src)
    BY <1>6, <1>7, <2>1, <2>2 DEF Settled
  <2>3. CASE p = m.dst /\ n = m.src
    <3>1. old.kind # "none" /\ last[n][p] <= old.id /\ last[n][p] \in Nat
      BY <1>5, <1>7, <2>3 DEF Met, Settled, old, Ids
    <3>2. m.kind = "keyspace" => last[n][p] <= m.id
      BY <1>7, <2>3 DEF Settled
    <3>3. last[n][p] <= h.id
      BY <1>1, <1>3, <3>1, <3>2
    <3>4. nds2[p].heard[n].id = h.id
      BY <2>3
    <3> QED
      BY <1>6, <2>1, <3>3, <3>4 DEF Settled
  <2> QED
    BY <2>2, <2>3
<1>8. ASSUME NEW x, x.id = last[n][p], Awaited(nds, M, n, x)
      PROVE  \/ Settled(nds2, M2, n, p, last[n][p])
             \/ \E y : y.id = last[n][p] /\ Awaited(nds2, M2, n, y)
  <2>1. CASE Awaited(nds2, M2, n, x)
    BY <1>8, <2>1
  <2>2. CASE x = m
    <3>1. m.kind = "keyspace" /\ m \in M[n]
      BY <1>8, <2>2 DEF Awaited, Unheard, Books
    <3>2. n = m.src
      BY <3>1 DEF Books
    <3>3. m.dst # n
      BY <3>1 DEF PairMail
    <3>4. p = m.dst
      BY <3>3 DEF OnePeer
    <3>5. old.kind # "none"
      BY <1>5, <3>2, <3>4 DEF Met, old
    <3>6. nds2[p].heard[n].id = m.id
      BY <1>4, <3>1, <3>2, <3>4, <3>5
    <3>7. last[n][p] <= nds2[p].heard[n].id
      BY <1>1, <1>8, <2>2, <3>6
    <3> QED
      BY <1>8, <2>2, <3>1, <3>2, <3>7 DEF Settled
  <2> QED
    BY <1>8, <2>1, <2>2
<1> QED
  BY <1>6, <1>7, <1>8 DEF Given

-----------------------------------------------------------------------------
(* What the steps of the simulation make of the mail. *)

LEMMA InMail ==
    ASSUME NEW nds, NEW lv, NEW top, NEW n \in Nodes
    PROVE  \A m : m \in Mail(nds, lv, top)[n] <=>
             m \in Message /\ ((\E l : Waits(lv, top, l, n, m)) \/ \E e \in nds[n].confirm : e.msg = m)
BY DEF Mail

(* A node sends one burst. *)
LEMMA SentPair ==
    ASSUME OnePeer, NEW nds \in [Nodes -> NodeState],
           NEW ts \in Seq(Batch), NEW ib \in Batch, NEW t \in Nat,
           NEW a \in Nodes, NEW peers \in SUBSET Nodes, NEW burst, NEW st2,
           Sends(nds[a], st2, a, peers, burst, t), MaySend(nds, a, burst),
           NEW on, NEW pend, NEW done,
           Rounds(nds, LineOf(nds, ts, ib), Len(ts) + 1, on, pend, done),
           NEW last, Ids(last),
           PairLine(nds, LineOf(nds, ts, ib), Len(ts) + 1, last),
           st2.keyspaces \subseteq FullBlock
    PROVE  LET nds2 == [nds EXCEPT ![a] = st2]
               M    == Mail(nds, LineOf(nds, ts, ib), Len(ts) + 1)
               M2   == Mail(nds2, LineOf(nds2, ts, ib), Len(ts) + 1)
           IN  /\ PairLine(nds2, LineOf(nds2, ts, ib), Len(ts) + 1, last)
               /\ StillAwaited(nds, M, nds2, M2)
               /\ \A m \in burst : m.kind = "keyspace" => Awaited(nds2, M2, a, m)
<1> DEFINE nds2 == [nds EXCEPT ![a] = st2]
           top  == Len(ts) + 1
           lv   == LineOf(nds, ts, ib)
           lv2  == LineOf(nds2, ts, ib)
           M    == Mail(nds, lv, top)
           M2   == Mail(nds2, lv2, top)
<1>1. /\ burst \in SUBSET Message /\ st2.queue = Append(nds[a].queue, burst)
      /\ st2.confirm = Filed(nds[a].confirm, burst, t) /\ st2.heard = nds[a].heard
      /\ \A m \in burst : m.dst \in Nodes /\ m.dst # a /\ m.id = nds[a].nextId[m.dst]
  BY DEF Sends, NextFor, MaySend, Message
<1>2. \A n \in Nodes : nds2[n] = IF n = a THEN st2 ELSE nds[n]
  OBVIOUS
<1>3. top \in Nat /\ lv \in [0 .. top -> Batch]
  BY LineType
<1> HIDE DEF nds2
<1>4. lv2 = Queued(lv, top, a, burst)
  <2>1. \A n \in Nodes : nds2[n].queue = IF n = a THEN Append(nds[a].queue, burst) ELSE nds[n].queue
    BY <1>1, <1>2
  <2> QED
    BY <2>1, LineQueued
<1>5. Books(nds, M)
  BY <1>3, RoundsBooks
<1> HIDE DEF lv, lv2, top
<1>6. \A l, n, m : Waits(lv2, top, l, n, m) => Waits(lv, top, l, n, m) \/ (n = a /\ m \in burst)
  BY <1>1, <1>3, <1>4, WaitsQueued
<1>7. Gains(M, M2, a, burst)
  <2> SUFFICES ASSUME NEW n \in Nodes, NEW m \in M2[n], ~ (n = a /\ m \in burst)
               PROVE  m \in M[n]
    BY DEF Gains
  <2>1. m \in Message /\ ((\E l : Waits(lv2, top, l, n, m)) \/ \E e \in nds2[n].confirm : e.msg = m)
    BY InMail
  <2>2. CASE \E l : Waits(lv2, top, l, n, m)
    BY <1>6, <2>1, <2>2, InMail
  <2>3. CASE \E e \in nds2[n].confirm : e.msg = m
    <3>1. PICK e \in nds2[n].confirm : e.msg = m
      BY <2>3
    <3>2. e \in nds[n].confirm
      BY <1>1, <1>2, <3>1 DEF Filed
    <3> QED
      BY <2>1, <3>1, <3>2, InMail
  <2> QED
    BY <2>1, <2>2, <2>3
<1> HIDE DEF M, M2
<1>8. PairMail(nds, M) /\ InKeyOrder(lv, top) /\ Given(nds, M, last)
  BY DEF M, lv, top, PairLine
<1>9. LET nds3 == [nds EXCEPT ![a] = st2]
      IN  /\ PairMail(nds3, M2)
          /\ StillAwaited(nds, M, nds3, M2)
          /\ \A m \in burst : m.kind = "keyspace" => Awaited(nds3, M2, a, m)
  BY <1>5, <1>7, <1>8, PairSends
<1>10. PairMail(nds2, M2) /\ StillAwaited(nds, M, nds2, M2)
       /\ \A m \in burst : m.kind = "keyspace" => Awaited(nds2, M2, a, m)
  BY <1>9 DEF nds2
<1>11. InKeyOrder(lv2, top)
  <2>1. ASSUME NEW m \in burst, NEW l, NEW x, Waits(lv, top, l, a, x) PROVE x.id <= m.id
    <3>1. x \in Message
      BY <1>3, <2>1, WaitsType
    <3>2. x \in M[a]
      BY <2>1, <3>1, InMail DEF M
    <3>3. x.dst \in Nodes /\ x.id \in Nat /\ x.dst # a /\ x.id < nds[a].nextId[x.dst]
      BY <1>5, <1>8, <3>1, <3>2 DEF Books, PairMail, Message
    <3>4. x.dst = m.dst
      BY <1>1, <3>3 DEF OnePeer
    <3>5. m.id = nds[a].nextId[x.dst] /\ nds[a].nextId[x.dst] \in Nat
      BY <1>1, <3>3, <3>4, CountTypes
    <3> QED
      BY <3>3, <3>5
  <2> QED
    BY <1>1, <1>3, <1>4, <1>8, <2>1, OrderQueued
<1>12. Given(nds2, M2, last)
  <2>1. \A n \in Nodes : nds2[n].heard = nds[n].heard
    BY <1>1, <1>2
  <2> QED
    BY <1>1, <1>5, <1>7, <1>8, <1>10, <2>1, GivenSends
<1> QED
  BY <1>10, <1>11, <1>12 DEF M, M2, nds2, lv, lv2, top, PairLine

(* A message is delivered, or lost. *)
LEMMA DeliveredPair ==
    ASSUME OnePeer, NEW nds \in [Nodes -> NodeState], NEW ts \in Seq(Batch), NEW ib \in Batch,
           NEW t \in Nat, NEW on, NEW a \in Nodes, ib[a] # << >>, NEW m \in Head(ib[a]), NEW nds2,
           LeastIn(Head(ib[a]), m),
           nds2 = Received(nds, m, t) \/ nds2 = nds,
           Rounds(nds, LineOf(nds, ts, ib), Len(ts) + 1, on, {}, {}),
           NEW last, Ids(last),
           PairLine(nds, LineOf(nds, ts, ib), Len(ts) + 1, last)
    PROVE  LET M  == Mail(nds, LineOf(nds, ts, ib), Len(ts) + 1)
               M2 == Mail(nds2, LineOf(nds2, ts, FirstGone(ib, a, m)), Len(ts) + 1)
           IN  /\ PairLine(nds2, LineOf(nds2, ts, FirstGone(ib, a, m)), Len(ts) + 1, last)
               /\ \A k : Holds(nds, k) => Holds(nds2, k)
               /\ \A k : Waited(nds, M, k) => Waited(nds2, M2, k) \/ Holds(nds2, k)
<1> DEFINE top == Len(ts) + 1
           lv  == LineOf(nds, ts, ib)
           lv2 == LineOf(nds2, ts, FirstGone(ib, a, m))
           M   == Mail(nds, lv, top)
           M2  == Mail(nds2, lv2, top)
<1>1. top \in Nat \ {0} /\ lv \in [0 .. top -> Batch] /\ lv[0] = ib
  BY LineType
<1>2. Books(nds, M)
  BY <1>1, RoundsBooks
<1>3. Waits(lv, top, 0, a, m)
  <2>1. lv[0][a] # << >> /\ m \in Head(lv[0][a])
    BY <1>1
  <2> HIDE DEF lv, top
  <2> QED
    BY <1>1, <2>1, WaitsRest
<1>4. m \in Message /\ m \in M[a]
  <2> HIDE DEF lv, top
  <2>1. m \in Message
    BY <1>1, <1>3, WaitsType
  <2> QED
    BY <1>3, <2>1, InMail
<1>5. m.src = a /\ m.dst \in Nodes
  BY <1>2, <1>4 DEF Books, Message
<1>6. /\ PairMail(nds, M) /\ InKeyOrder(lv, top) /\ Given(nds, M, last)
      /\ Ids(last)
  BY DEF M, lv, top, PairLine
<1>7. lv[0][a] # << >> /\ m \in Head(lv[0][a]) /\ LeastIn(Head(lv[0][a]), m)
  BY <1>1
<1>8. InKeyOrder(Rest(lv, a, m), top) /\ Rest(lv, a, m) \in [0 .. top -> Batch]
  <2> HIDE DEF lv, top
  <2> QED
    BY <1>1, <1>6, <1>7, OrderRest, WaitsRest
<1>9. CASE nds2 = Received(nds, m, t)
  <2> DEFINE b   == m.dst
             h   == heardAfter(nds[b].heard[m.src], m)
             st2 == receiveMessage(nds[b], m, t)
  <2>1. /\ Taken(nds, lv, lv2, top, m)
        /\ \E burst \in SUBSET Message :
             /\ \A x \in burst : \E f \in nds[b].confirm : f.msg = x
             /\ lv2 = Rest(lv, a, m) \/ lv2 = Queued(Rest(lv, a, m), top, b, burst)
    BY <1>4, <1>5, <1>9, LineReceived
  <2>2. Receives(nds[b], st2, m.src, h)
    BY <1>4, <1>5, ReceiveEffect
  <2>3. \A n \in Nodes : nds2[n] = IF n = b THEN st2 ELSE nds[n]
    BY <1>5, <1>9 DEF Received
  <2> HIDE DEF st2, h
  <2>4. \A n \in Nodes : \A e \in nds2[n].confirm : \E f \in nds[n].confirm : e.msg = f.msg
    BY <2>2, <2>3 DEF Receives
  <2>5. \A n, p \in Nodes : nds2[n].heard[p] = IF n = m.dst /\ p = m.src THEN h ELSE nds[n].heard[p]
    <3>1. nds[b].heard \in [Nodes -> Heard] /\ st2.heard = [nds[b].heard EXCEPT ![m.src] = h]
      BY <1>5, <2>2, NodeStateFields DEF Receives
    <3>2. \A p \in Nodes : st2.heard[p] = IF p = m.src THEN h ELSE nds[b].heard[p]
      BY <3>1
    <3> QED
      BY <2>3, <3>2
  <2> HIDE DEF lv, lv2, top
  <2>6. Shrinks(M, M2)
    <3> SUFFICES ASSUME NEW n \in Nodes, NEW x \in M2[n] PROVE x \in M[n]
      BY DEF Shrinks
    <3>1. x \in Message /\ ((\E l : Waits(lv2, top, l, n, x)) \/ \E e \in nds2[n].confirm : e.msg = x)
      BY InMail
    <3>2. (\E l : Waits(lv, top, l, n, x)) \/ \E f \in nds[n].confirm : f.msg = x
      BY <2>1, <2>4, <3>1 DEF Taken
    <3> QED
      BY <3>1, <3>2, InMail
  <2>7. InKeyOrder(lv2, top)
    <3>1. PICK burst \in SUBSET Message :
             /\ \A x \in burst : \E f \in nds[b].confirm : f.msg = x
             /\ lv2 = Rest(lv, a, m) \/ lv2 = Queued(Rest(lv, a, m), top, b, burst)
      BY <2>1
    <3>2. ASSUME NEW y \in burst, NEW l, NEW x, y.kind = "keyspace", x.kind = "keyspace",
                 Waits(Rest(lv, a, m), top, l, b, x)
          PROVE  x.id <= y.id
      <4>1. Waits(lv, top, l, b, x)
        BY <1>1, <1>7, <3>2, WaitsRest
      <4>2. x \in Message
        BY <1>1, <4>1, WaitsType
      <4>3. x \in M[b]
        BY <1>5, <4>1, <4>2, InMail
      <4>4. PICK f \in nds[b].confirm : f.msg = y
        BY <3>1
      <4> QED
        BY <1>5, <1>6, <3>2, <4>3, <4>4 DEF PairMail
    <3>3. InKeyOrder(Queued(Rest(lv, a, m), top, b, burst), top)
      BY <1>1, <1>5, <1>8, <3>2, OrderQueued
    <3> QED
      BY <1>8, <3>1, <3>3
  <2>8. ASSUME m.kind = "keyspace", NEW x \in M2[m.src], x.kind = "keyspace"
        PROVE  m.id <= x.id
    <3>1. x \in Message /\ ((\E l : Waits(lv2, top, l, a, x)) \/ \E e \in nds2[a].confirm : e.msg = x)
      BY <1>5, <2>8, InMail
    <3>2. CASE \E e \in nds[a].confirm : e.msg = x
      BY <1>4, <1>6, <2>8, <3>2 DEF PairMail
    <3>3. CASE \E l : Waits(lv, top, l, a, x)
      BY <1>1, <1>6, <1>7, <2>8, <3>3, FirstIsLeast
    <3> QED
      BY <2>1, <2>4, <3>1, <3>2, <3>3 DEF Taken
  <2> HIDE DEF M, M2
  <2>9. m \in M[m.src] /\ m.src \in Nodes
    BY <1>4, <1>5
  <2>10. LET nds3 == Received(nds, m, t)
         IN  /\ PairMail(nds3, M2)
             /\ \A k : Holds(nds, k) => Holds(nds3, k)
             /\ m.blocks \subseteq nds3[m.dst].keyspaces
             /\ \A n \in Nodes : \A x : Awaited(nds, M, n, x) => Awaited(nds3, M2, n, x) \/ x = m
    BY <1>2, <1>6, <2>6, <2>9, PairReceives
  <2>11. /\ PairMail(nds2, M2)
         /\ \A k : Holds(nds, k) => Holds(nds2, k)
         /\ m.blocks \subseteq nds2[m.dst].keyspaces
         /\ \A n \in Nodes : \A x : Awaited(nds, M, n, x) => Awaited(nds2, M2, n, x) \/ x = m
    BY <1>9, <2>10
  <2>12. Given(nds2, M2, last)
    <3>1. h = heardAfter(nds[m.dst].heard[m.src], m)
      BY DEF h
    <3>2. m.kind = "keyspace" => \A x \in M2[m.src] : x.kind = "keyspace" => m.id <= x.id
      BY <2>8
    <3> QED
      BY ONLY OnePeer, nds \in [Nodes -> NodeState], <1>2, <1>4, <1>5, <1>6, <2>5, <2>6, <2>9,
              <2>11, <3>1, <3>2, GivenReceives
  <2>13. ASSUME NEW k, Waited(nds, M, k) PROVE Waited(nds2, M2, k) \/ Holds(nds2, k)
    <3>0. PICK n \in Nodes : \E x : Awaited(nds, M, n, x) /\ \E c \in x.blocks : k \in Keys(c)
      BY <2>13 DEF Waited
    <3>1. PICK x : Awaited(nds, M, n, x) /\ \E c \in x.blocks : k \in Keys(c)
      BY <3>0
    <3>2. CASE Awaited(nds2, M2, n, x)
      BY <3>1, <3>2 DEF Waited
    <3>3. CASE x = m
      BY <1>5, <2>11, <3>1, <3>3 DEF Holds
    <3> QED
      BY <2>11, <3>1, <3>2, <3>3
  <2> QED
    BY <2>7, <2>11, <2>12, <2>13 DEF M, M2, lv, lv2, top, PairLine
<1>10. CASE nds2 = nds
  <2>1. lv2 = Rest(lv, a, m)
    BY <1>10, LineRest
  <2>2. \A l, n, x : Waits(lv2, top, l, n, x) => Waits(lv, top, l, n, x)
    <3> HIDE DEF lv, lv2, top
    <3> QED
      BY <1>1, <1>7, <2>1, WaitsRest
  <2> HIDE DEF lv, lv2, top
  <2>3. Shrinks(M, M2)
    <3> SUFFICES ASSUME NEW n \in Nodes, NEW x \in M2[n] PROVE x \in M[n]
      BY DEF Shrinks
    <3> QED
      BY <1>10, <2>2, InMail
  <2> HIDE DEF M, M2
  <2>4. /\ SameRecords(nds, nds2)
        /\ \A n \in Nodes : \A x \in M[n] : x \in Message
        /\ \A n \in Nodes : \A e \in nds[n].confirm : e.msg.dst \in Nodes
        /\ \A n \in Nodes : nds2[n].keyspaces \subseteq FullBlock
    BY <1>2, <1>6, <1>10, FieldTypes DEF SameRecords, Books, PairMail
  <2>5. PairMail(nds2, M2) /\ StillAwaited(nds, M, nds2, M2)
    BY <1>6, <2>3, <2>4, PairStays
  <2>6. Given(nds2, M2, last)
    BY <1>6, <2>3, <2>4, <2>5, GivenStays
  <2>7. \A k : Waited(nds, M, k) => Waited(nds2, M2, k)
    BY <2>5, StillWaited
  <2> QED
    BY <1>8, <1>10, <2>1, <2>5, <2>6, <2>7 DEF M, M2, lv, lv2, top, PairLine
<1> QED
  BY <1>9, <1>10

(* A key is handed out. *)
LEMMA ConsumedHolds ==
    ASSUME NEW nds, NEW nds2, NEW a \in Nodes,
           NEW b \in nds[a].keyspaces, b \in FullBlock, isKeyAvailable(b),
           \A n \in Nodes : nds2[n].keyspaces =
              IF n = a THEN (nds[a].keyspaces \ {b}) \cup
                            (IF isKeyAvailable(AfterNextKey(b)) THEN {AfterNextKey(b)} ELSE {})
              ELSE nds[n].keyspaces
    PROVE  \A k : Holds(nds, k) => k = b.start \/ Holds(nds2, k)
<1>1. Keys(b) = {b.start} \cup Keys(AfterNextKey(b))
  BY FullBlockHalves, NextKeyRemovesOne
<1>2. \A k \in Keys(AfterNextKey(b)) : isKeyAvailable(AfterNextKey(b))
  <2>1. AfterNextKey(b) \in BoundedBlock
    BY FullBlockHalves
  <2>2. AfterNextKey(b).start \in Nat /\ AfterNextKey(b).end \in Nat
    BY <2>1 DEF BoundedBlock, Block
  <2> QED
    BY <2>2 DEF Keys, isKeyAvailable
<1> SUFFICES ASSUME NEW k, Holds(nds, k), k # b.start PROVE Holds(nds2, k)
  OBVIOUS
<1>3. PICK n \in Nodes : \E c \in nds[n].keyspaces : k \in Keys(c)
  BY DEF Holds
<1>4. PICK c \in nds[n].keyspaces : k \in Keys(c)
  BY <1>3
<1>5. CASE n = a /\ c = b
  <2>1. k \in Keys(AfterNextKey(b)) /\ isKeyAvailable(AfterNextKey(b))
    BY <1>1, <1>2, <1>4, <1>5
  <2>2. AfterNextKey(b) \in nds2[a].keyspaces
    BY <2>1
  <2> QED
    BY <2>1, <2>2 DEF Holds
<1>6. CASE ~ (n = a /\ c = b)
  <2>1. c \in nds2[n].keyspaces
    BY <1>4, <1>6
  <2> QED
    BY <1>4, <2>1 DEF Holds
<1> QED
  BY <1>5, <1>6
-----------------------------------------------------------------------------
(* The invariant of a pair. *)

mail == Mail(nodes, line, Top)

Accounted(nds, M, iss) == \A k \in Key : iss[k] # << >> \/ Holds(nds, k) \/ Waited(nds, M, k)

PairInv ==
    /\ phase # "share"
    /\ PairLine(nodes, line, Top, lastShare)
    /\ Accounted(nodes, mail, issued)

LEMMA TwoNodes == ASSUME N = 2 PROVE OnePeer
BY DEF OnePeer, Nodes

LEMMA InitPair == Init => PairInv
<1> SUFFICES ASSUME Init PROVE PairInv
  OBVIOUS
<1>1. TypeOK /\ phase = "add" /\ toSend = << >> /\ inbox = NoMessages
  BY InitTypeOK DEF Init
<1>2. \A k \in Key : AtNow(k, "held", Root)
  BY InitAt
<1>3. AllFull(nodes, line, Top)
  BY InitAt
<1>4. \A n \in Nodes : nodes[n].queue = << >> /\ nodes[n].confirm = {}
  BY DEF Init, NewNode
<1>5. /\ \A n \in Nodes : \A m : m \notin mail[n]
      /\ \A l, n, m : ~ Waits(line, Top, l, n, m)
  <2>1. Top = 1 /\ line \in [0 .. 1 -> Batch] /\ line[0] = NoMessages
    BY <1>1, StateLine DEF Top
  <2>2. line[1] = NoMessages
    <3>1. [n \in Nodes |-> nodes[n].queue] = NoMessages
      BY <1>4, Zenon DEF NoMessages
    <3> QED
      BY <1>1, <2>1, <3>1, StateLine
  <2>3. \A l, n, m : ~ Waits(line, Top, l, n, m)
    BY <2>1, <2>2 DEF Waits, Way, NoMessages
  <2> QED
    BY <1>4, <2>3, InMail DEF mail
<1>6. PairLine(nodes, line, Top, lastShare)
  <2>1. PairMail(nodes, mail)
    BY <1>3, <1>4, <1>5 DEF PairMail, AllFull
  <2>2. InKeyOrder(line, Top)
    BY <1>5, Zenon DEF InKeyOrder, Waits
  <2>3. \A n, p \in Nodes : lastShare[n][p] = 0
    BY DEF Init
  <2> QED
    BY <2>1, <2>2, <2>3 DEF PairLine, Given, mail
<1>7. \A k \in Key : Holds(nodes, k)
  BY <1>2 DEF AtNow, At, HeldBy, Holds
<1> QED
  BY <1>1, <1>6, <1>7 DEF PairInv, Accounted

(* A step that touches no message and no block. *)
LEMMA PairQuiet ==
    ASSUME PairInv, UNCHANGED << nodes, toSend, inbox, issued, lastShare >>, phase' # "share"
    PROVE  PairInv'
<1>1. line' = line /\ Top' = Top
  BY DEF line, Top
<1>2. mail' = mail
  BY <1>1 DEF mail
<1>3. issued' = issued /\ nodes' = nodes /\ lastShare' = lastShare
  OBVIOUS
<1> QED
  BY <1>1, <1>2, <1>3 DEF PairInv

(* The invariant, step by step: what the state-free lemmas give. *)
LEMMA PairStep ==
    ASSUME PairInv, phase' # "share", PairLine(nodes', line', Top', lastShare'),
           \A k \in Key : issued[k] # << >> => issued'[k] # << >>,
           \A k \in Key : Holds(nodes, k) =>
              issued'[k] # << >> \/ Holds(nodes', k) \/ Waited(nodes', mail', k),
           \A k \in Key : Waited(nodes, mail, k) => Waited(nodes', mail', k) \/ Holds(nodes', k)
    PROVE  PairInv'
BY DEF PairInv, Accounted

LEMMA SameHolds ==
    ASSUME NEW nds, NEW nds2, \A n \in Nodes : nds2[n].keyspaces = nds[n].keyspaces
    PROVE  \A k : Holds(nds, k) => Holds(nds2, k)
BY DEF Holds

LEMMA MailTypes ==
    ASSUME TypeOK
    PROVE  /\ \A n \in Nodes : \A m \in mail[n] : m \in Message
           /\ \A n \in Nodes : \A e \in nodes[n].confirm : e.msg.dst \in Nodes
<1>1. nodes \in [Nodes -> NodeState]
  BY DEF TypeOK
<1> QED
  BY <1>1, FieldTypes, InMail DEF mail

LEMMA CollectPair ==
    ASSUME TypeOK, TypeOK', RoundInv, PairInv, Collect
    PROVE  PairInv'
<1>1. inbox = NoMessages /\ phase' # "share" /\ issued' = issued /\ lastShare' = lastShare
  BY DEF RoundInv, Collect, AfterDeliver, AfterBeats, history
<1>2. /\ SameRecords(nodes, nodes')
      /\ \A n \in Nodes : nodes'[n].keyspaces = nodes[n].keyspaces
  BY <1>1, CollectLine
<1>3. PICK d \in {0, 1} :
        \A l, n, i, m : Way(line', Top', l, n, i, m)
                            <=> l \in Nat /\ Way(line, Top, l + d, n, i, m)
  BY <1>1, CollectLine
<1> SUFFICES ASSUME NEW nds2, NEW lv2, NEW top2, nds2 = nodes', lv2 = line', top2 = Top'
             PROVE  /\ PairLine(nds2, lv2, top2, lastShare)
                    /\ \A k \in Key : Holds(nodes, k) => Holds(nds2, k)
                    /\ \A k \in Key : Waited(nodes, mail, k) => Waited(nds2, Mail(nds2, lv2, top2), k)
  BY <1>1, PairStep DEF mail
<1>4. SameRecords(nodes, nds2) /\ \A n \in Nodes : nds2[n].keyspaces = nodes[n].keyspaces
  BY <1>2
<1>5. Shrinks(mail, Mail(nds2, lv2, top2))
  <2> SUFFICES ASSUME NEW n \in Nodes, NEW m \in Mail(nds2, lv2, top2)[n] PROVE m \in mail[n]
    BY DEF Shrinks
  <2>1. m \in Message /\ ((\E l : Waits(lv2, top2, l, n, m)) \/ \E e \in nds2[n].confirm : e.msg = m)
    BY InMail
  <2>2. CASE \E l : Waits(lv2, top2, l, n, m)
    <3>1. PICK l, i : Way(lv2, top2, l, n, i, m)
      BY <2>2 DEF Waits
    <3>2. Way(line, Top, l + d, n, i, m)
      BY <1>3, <3>1
    <3>3. Waits(line, Top, l + d, n, m)
      BY <3>2, Zenon DEF Waits
    <3> QED
      BY <2>1, <3>3, InMail DEF mail
  <2>3. CASE \E e \in nds2[n].confirm : e.msg = m
    BY <1>4, <2>1, <2>3, InMail DEF mail, SameRecords
  <2> QED
    BY <2>1, <2>2, <2>3
<1>6. /\ PairMail(nodes, mail) /\ InKeyOrder(line, Top) /\ Given(nodes, mail, lastShare)
      /\ \A n \in Nodes : nds2[n].keyspaces \subseteq FullBlock
  BY <1>4 DEF PairInv, PairLine, PairMail, mail
<1>7. /\ PairMail(nds2, Mail(nds2, lv2, top2))
      /\ StillAwaited(nodes, mail, nds2, Mail(nds2, lv2, top2))
  BY ONLY <1>4, <1>5, <1>6, MailTypes, TypeOK, PairStays
<1>8. Given(nds2, Mail(nds2, lv2, top2), lastShare)
  BY ONLY <1>4, <1>5, <1>6, <1>7, GivenStays
<1>9. InKeyOrder(lv2, top2)
  <2>1. Top \in Nat /\ line \in [0 .. Top -> Batch]
    BY StateLine DEF TypeOK
  <2>2. \A l, n, i, m : Way(lv2, top2, l, n, i, m) <=> l \in Nat /\ Way(line, Top, l + d, n, i, m)
    BY <1>3
  <2> QED
    BY ONLY <1>6, <2>1, <2>2, d \in {0, 1}, OrderCollected
<1>10. \A k : Waited(nodes, mail, k) => Waited(nds2, Mail(nds2, lv2, top2), k)
  BY <1>7, StillWaited
<1> QED
  BY <1>4, <1>7, <1>8, <1>9, <1>10, SameHolds DEF PairLine

LEMMA DeliverPair ==
    ASSUME OnePeer, TypeOK, RoundInv, PairInv, Deliver
    PROVE  PairInv'
<1>1. /\ nodes \in [Nodes -> NodeState] /\ toSend \in Seq(Batch) /\ inbox \in Batch /\ now \in Nat
      /\ Top = Len(toSend) + 1 /\ line = LineOf(nodes, toSend, inbox)
  BY DEF TypeOK, Top, line
<1>2. /\ Rounds(nodes, LineOf(nodes, toSend, inbox), Len(toSend) + 1, Online, {}, {})
      /\ phase' # "share" /\ issued' = issued /\ lastShare' = lastShare
  <2>1. Pending = {} /\ Done = {} /\ phase = "deliver"
    BY Pairs DEF InRound, Deliver
  <2>2. Rounds(nodes, line, Top, Online, {}, {})
    BY <2>1 DEF RoundInv
  <2> QED
    BY <1>1, <2>2 DEF Deliver, AfterDeliver, AfterBeats, history
<1>3. PICK a \in NextSender : \E m \in FirstOf(Head(inbox[a])) :
        /\ IF Arrives(m)
           THEN nodes' = [nodes EXCEPT ![m.dst] = receiveMessage(@, m, now)]
           ELSE UNCHANGED nodes
        /\ inbox' = InboxAfter(a, m)
  BY DEF Deliver
<1>4. PICK m \in FirstOf(Head(inbox[a])) :
        /\ IF Arrives(m)
           THEN nodes' = [nodes EXCEPT ![m.dst] = receiveMessage(@, m, now)]
           ELSE UNCHANGED nodes
        /\ inbox' = InboxAfter(a, m)
  BY <1>3
<1>5. a \in Nodes /\ inbox[a] # << >> /\ m \in Head(inbox[a])
  BY DEF NextSender, FirstOf
<1>0. PairLine(nodes, LineOf(nodes, toSend, inbox), Len(toSend) + 1, lastShare)
  BY <1>1 DEF PairInv
<1>50. LeastIn(Head(inbox[a]), m)
  <2>1. Top \in Nat /\ line \in [0 .. Top -> Batch] /\ line[0] = inbox
    BY StateLine DEF TypeOK
  <2>2. ASSUME NEW x \in Head(inbox[a]) PROVE x.dst \in Nodes /\ x.dst # a /\ x.id \in Nat
    <3>1. Waits(line, Top, 0, a, x)
      <4>1. line[0][a] # << >> /\ x \in Head(line[0][a])
        BY <1>5, <2>1
      <4> QED
        BY <1>5, <2>1, <4>1, WaitsRest
    <3>2. x \in Message
      BY <2>1, <3>1, WaitsType
    <3>3. x \in mail[a]
      BY <1>5, <3>1, <3>2, InMail DEF mail
    <3> QED
      BY <1>5, <3>2, <3>3 DEF PairInv, PairLine, PairMail, mail, Message
  <2>3. ASSUME NEW x \in Head(inbox[a]) PROVE m.id <= x.id
    <3>1. m.dst = x.dst
      BY <1>5, <2>2 DEF OnePeer
    <3>2. m.dst \in Int
      BY <1>5, <2>2, NAssumption DEF Nodes
    <3> QED
      BY <3>1, <3>2 DEF FirstOf
  <2> QED
    BY <2>3 DEF LeastIn
<1>6. nodes' = Received(nodes, m, now) \/ nodes' = nodes
  BY <1>4 DEF Received
<1>7. inbox' = FirstGone(inbox, a, m)
  BY <1>4 DEF InboxAfter, FirstGone
<1>8. /\ mail' = Mail(nodes', LineOf(nodes', toSend, FirstGone(inbox, a, m)), Len(toSend) + 1)
      /\ line' = LineOf(nodes', toSend, FirstGone(inbox, a, m)) /\ Top' = Len(toSend) + 1
  BY <1>7 DEF mail, line, Top, Deliver
<1> SUFFICES ASSUME NEW nds2, nds2 = nodes'
             PROVE  LET M2 == Mail(nds2, LineOf(nds2, toSend, FirstGone(inbox, a, m)), Len(toSend) + 1)
                    IN  /\ PairLine(nds2, LineOf(nds2, toSend, FirstGone(inbox, a, m)), Len(toSend) + 1,
                                    lastShare)
                        /\ \A k \in Key : Holds(nodes, k) => Holds(nds2, k)
                        /\ \A k \in Key : Waited(nodes, mail, k) => Waited(nds2, M2, k) \/ Holds(nds2, k)
  BY <1>2, <1>8, PairStep
<1>9. nds2 = Received(nodes, m, now) \/ nds2 = nodes
  BY <1>6
<1>10. Ids(lastShare)
  BY DEF TypeOK, Ids
<1>11. LET M  == Mail(nodes, LineOf(nodes, toSend, inbox), Len(toSend) + 1)
           M2 == Mail(nds2, LineOf(nds2, toSend, FirstGone(inbox, a, m)), Len(toSend) + 1)
       IN  /\ PairLine(nds2, LineOf(nds2, toSend, FirstGone(inbox, a, m)), Len(toSend) + 1, lastShare)
           /\ \A k : Holds(nodes, k) => Holds(nds2, k)
           /\ \A k : Waited(nodes, M, k) => Waited(nds2, M2, k) \/ Holds(nds2, k)
  BY ONLY OnePeer, <1>0, <1>1, <1>2, <1>5, <1>50, <1>9, <1>10, DeliveredPair
<1> QED
  BY <1>1, <1>11 DEF mail

LEMMA ConsumePair ==
    ASSUME TypeOK, PairInv, ConsumeKey
    PROVE  PairInv'
<1>0. PICK a \in Nodes : a = InTurn
  BY InTurnType
<1>1. PICK b \in minimumKeyspace(nodes[a]) :
        /\ nodes' = [nodes EXCEPT ![a] = getNextKey(@, b)]
        /\ issued' = [issued EXCEPT ![b.start] = Append(@, a)]
  BY <1>0 DEF ConsumeKey
<1>2. /\ a \in Nodes /\ nodes \in [Nodes -> NodeState] /\ issued \in [Key -> Seq(Nodes)]
      /\ toSend' = toSend /\ inbox' = inbox /\ phase' # "share" /\ lastShare' = lastShare
  BY InTurnType DEF TypeOK, ConsumeKey, network, NextConsumer
<1>3. /\ PairMail(nodes, mail) /\ InKeyOrder(line, Top) /\ Given(nodes, mail, lastShare)
      /\ \A n \in Nodes : nodes[n].keyspaces \subseteq FullBlock
  BY DEF PairInv, PairLine, PairMail, mail
<1>4. b \in nodes[a].keyspaces /\ isKeyAvailable(b) /\ b \in FullBlock
  BY <1>2, <1>3 DEF minimumKeyspace
<1> DEFINE P   == IF isKeyAvailable(AfterNextKey(b)) THEN {AfterNextKey(b)} ELSE {}
           own == (nodes[a].keyspaces \ {b}) \cup P
<1>5. \A n \in Nodes : nodes'[n] = IF n = a THEN [nodes[n] EXCEPT !.keyspaces = own] ELSE nodes[n]
  BY <1>1, <1>2 DEF getNextKey
<1>6. P \subseteq FullBlock
  BY <1>4, FullBlockHalves
<1>7. /\ \A n \in Nodes : nodes'[n].keyspaces = IF n = a THEN own ELSE nodes[n].keyspaces
      /\ \A n \in Nodes : nodes'[n].queue = nodes[n].queue
      /\ SameRecords(nodes, nodes')
  <2> HIDE DEF own
  <2>1. \A st \in NodeState : LET st2 == [st EXCEPT !.keyspaces = own]
          IN  /\ st2.keyspaces = own /\ st2.queue = st.queue
              /\ st2.heard = st.heard /\ st2.nextId = st.nextId /\ st2.confirm = st.confirm
    BY DEF NodeState
  <2>2. \A n \in Nodes : nodes[n] \in NodeState
    BY <1>2
  <2> QED
    BY <1>5, <2>1, <2>2 DEF SameRecords
<1>8. line' = line /\ Top' = Top
  <2>1. [n \in Nodes |-> nodes'[n].queue] = [n \in Nodes |-> nodes[n].queue]
    BY <1>7, Zenon
  <2> QED
    BY <1>2, <2>1 DEF line, LineOf, Top
<1>9. \A k \in Key : /\ issued[k] # << >> => issued'[k] # << >>
                     /\ k = b.start => issued'[k] # << >>
  <2>1. \A k \in Key : issued'[k] = IF k = b.start THEN Append(issued[k], a) ELSE issued[k]
    BY <1>1, <1>2
  <2>2. \A k \in Key : Append(issued[k], a) # << >>
    BY <1>2
  <2> QED
    BY <2>1, <2>2
<1> SUFFICES ASSUME NEW nds2, nds2 = nodes'
             PROVE  /\ PairLine(nds2, line, Top, lastShare)
                    /\ \A k \in Key : Holds(nodes, k) => k = b.start \/ Holds(nds2, k)
                    /\ \A k \in Key : Waited(nodes, mail, k) => Waited(nds2, Mail(nds2, line, Top), k)
  BY <1>2, <1>8, <1>9, PairStep DEF mail
<1>10. /\ SameRecords(nodes, nds2)
       /\ \A n \in Nodes : nds2[n].keyspaces =
            IF n = a THEN (nodes[a].keyspaces \ {b}) \cup
                          (IF isKeyAvailable(AfterNextKey(b)) THEN {AfterNextKey(b)} ELSE {})
            ELSE nodes[n].keyspaces
  BY <1>7
<1> HIDE DEF P
<1>11. \A n \in Nodes : nds2[n].keyspaces \subseteq FullBlock
  <2>1. \A n \in Nodes : nds2[n].keyspaces = IF n = a THEN own ELSE nodes[n].keyspaces
    BY <1>10 DEF P
  <2> QED
    BY <1>3, <1>6, <2>1
<1>12. Shrinks(mail, Mail(nds2, line, Top))
  <2> SUFFICES ASSUME NEW n \in Nodes, NEW m \in Mail(nds2, line, Top)[n] PROVE m \in mail[n]
    BY DEF Shrinks
  <2>1. m \in Message /\ ((\E l : Waits(line, Top, l, n, m)) \/ \E e \in nds2[n].confirm : e.msg = m)
    BY InMail
  <2>2. nds2[n].confirm = nodes[n].confirm
    BY <1>10 DEF SameRecords
  <2> QED
    BY <2>1, <2>2, InMail DEF mail
<1>13. /\ PairMail(nds2, Mail(nds2, line, Top))
       /\ StillAwaited(nodes, mail, nds2, Mail(nds2, line, Top))
  BY ONLY <1>3, <1>10, <1>11, <1>12, MailTypes, TypeOK, PairStays
<1>14. \A k : Holds(nodes, k) => k = b.start \/ Holds(nds2, k)
  BY ONLY <1>4, <1>10, a \in Nodes, ConsumedHolds
<1>15. Given(nds2, Mail(nds2, line, Top), lastShare)
  BY ONLY <1>3, <1>10, <1>12, <1>13, GivenStays
<1>16. \A k : Waited(nodes, mail, k) => Waited(nds2, Mail(nds2, line, Top), k)
  BY <1>13, StillWaited
<1> QED
  BY <1>3, <1>13, <1>14, <1>15, <1>16 DEF PairLine

(* The heartbeats of a node, as a step on the way to what follows them. *)
LEMMA BeatPair ==
    ASSUME OnePeer, TypeOK, RoundInv, PairInv, phase = "beat"
    PROVE  LET nds2 == [nodes EXCEPT ![InTurn] = Beaten]
               M2   == Mail(nds2, LineOf(nds2, toSend, inbox), Len(toSend) + 1)
           IN  /\ nds2 \in [Nodes -> NodeState] /\ nds2[InTurn] = Beaten
               /\ Rounds(nds2, LineOf(nds2, toSend, inbox), Len(toSend) + 1, Online, StillPending, ThenDone)
               /\ PairLine(nds2, LineOf(nds2, toSend, inbox), Len(toSend) + 1, lastShare)
               /\ \A n \in Nodes : nds2[n].keyspaces = nodes[n].keyspaces
               /\ \A n \in Nodes : nds2[n].heard = nodes[n].heard
               /\ StillAwaited(nodes, mail, nds2, M2)
<1> DEFINE burst == Beats(nodes[InTurn], InTurn, PeersInTurn)
           nds2  == [nodes EXCEPT ![InTurn] = Beaten]
           M2    == Mail(nds2, LineOf(nds2, toSend, inbox), Len(toSend) + 1)
<1>1. /\ nodes \in [Nodes -> NodeState] /\ toSend \in Seq(Batch) /\ inbox \in Batch /\ now \in Nat
      /\ InTurn \in Nodes /\ PeersInTurn \in SUBSET Nodes
      /\ Top = Len(toSend) + 1 /\ line = LineOf(nodes, toSend, inbox)
      /\ mail = Mail(nodes, LineOf(nodes, toSend, inbox), Len(toSend) + 1)
  BY InTurnType DEF TypeOK, Top, line, mail
<1>2. InRound /\ turn <= JoinedCount /\ Rounds(nodes, line, Top, Online, Pending, Done)
  BY InRoundFacts DEF InRound
<1>3. /\ nds2 \in [Nodes -> NodeState]
      /\ Rounds(nds2, LineOf(nds2, toSend, inbox), Len(toSend) + 1, Online, StillPending, ThenDone)
  BY <1>1, <1>2, BeatRound
<1>4. /\ Sends(nodes[InTurn], Beaten, InTurn, PeersInTurn, burst, now)
      /\ Beaten.keyspaces = nodes[InTurn].keyspaces
  BY BeatenSends
<1>5. MaySend(nodes, InTurn, burst)
  <2>1. \A m \in burst : m.kind = "info" /\ m.dst \in PeersInTurn /\ m.blocks = {}
    BY DEF Beats, heartbeatMessage
  <2> HIDE DEF burst
  <2> QED
    BY <2>1, PeersAreOthers DEF MaySend
<1>6. Beaten.keyspaces \subseteq FullBlock
  BY <1>1, <1>4 DEF PairInv, PairLine, PairMail
<1>7. PairLine(nodes, LineOf(nodes, toSend, inbox), Len(toSend) + 1, lastShare) /\ Ids(lastShare)
  BY <1>1 DEF PairInv, TypeOK, Ids
<1>8. Rounds(nodes, LineOf(nodes, toSend, inbox), Len(toSend) + 1, Online, Pending, Done)
  BY <1>1, <1>2
<1> HIDE DEF burst
<1>9. /\ PairLine(nds2, LineOf(nds2, toSend, inbox), Len(toSend) + 1, lastShare)
      /\ StillAwaited(nodes, Mail(nodes, LineOf(nodes, toSend, inbox), Len(toSend) + 1), nds2, M2)
  BY ONLY OnePeer, <1>1, <1>4, <1>5, <1>6, <1>7, <1>8, SentPair
<1>10. /\ nds2[InTurn] = Beaten /\ \A n \in Nodes : nds2[n].keyspaces = nodes[n].keyspaces
       /\ \A n \in Nodes : nds2[n].heard = nodes[n].heard
  BY <1>1, <1>4 DEF Sends
<1> QED
  BY <1>1, <1>3, <1>9, <1>10

LEMMA BeatOnlyPair ==
    ASSUME OnePeer, TypeOK, RoundInv, PairInv, BeatOnly
    PROVE  PairInv'
<1>1. /\ phase = "beat" /\ nodes' = [nodes EXCEPT ![InTurn] = Beaten]
      /\ UNCHANGED << toSend, inbox, issued, lastShare >> /\ phase' # "share"
  BY DEF BeatOnly, network, history, NextTurn, AfterBeats
<1> DEFINE nds2 == [nodes EXCEPT ![InTurn] = Beaten]
           M2   == Mail(nds2, LineOf(nds2, toSend, inbox), Len(toSend) + 1)
<1>2. /\ PairLine(nds2, LineOf(nds2, toSend, inbox), Len(toSend) + 1, lastShare)
      /\ \A n \in Nodes : nds2[n].keyspaces = nodes[n].keyspaces
      /\ StillAwaited(nodes, mail, nds2, M2)
  BY <1>1, BeatPair
<1> HIDE DEF nds2
<1>3. /\ nodes' = nds2 /\ mail' = M2
      /\ line' = LineOf(nds2, toSend, inbox) /\ Top' = Len(toSend) + 1
  BY <1>1 DEF mail, line, Top, nds2
<1>4. \A k : Holds(nodes, k) => Holds(nds2, k)
  BY <1>2, SameHolds
<1>5. \A k : Waited(nodes, mail, k) => Waited(nds2, M2, k)
  BY <1>2, StillWaited
<1> HIDE DEF M2
<1> QED
  BY <1>1, <1>2, <1>3, <1>4, <1>5, PairStep

(* With one peer nobody is below the average of all. *)
LEMMA NoSharePair ==
    ASSUME OnePeer, TypeOK
    PROVE  ~ BeatThenShare
<1> SUFFICES ASSUME BeatThenShare PROVE FALSE
  OBVIOUS
<1>1. PICK D \in SUBSET { p \in HeardPeers(Beaten) : ~Beaten.heard[p].empty } :
        D # {} /\ D # HeardPeers(Beaten)
  BY DEF BeatThenShare
<1>2. D \subseteq HeardPeers(Beaten) /\ InTurn \in Nodes
  BY InTurnType
<1>3. \A p \in HeardPeers(Beaten) : p \in Nodes /\ p # InTurn
  BY InTurnType, PeersAreOthers DEF HeardPeers
<1>4. \A p, q \in HeardPeers(Beaten) : p = q
  BY <1>2, <1>3 DEF OnePeer
<1> QED
  BY <1>1, <1>2, <1>4

(* What a node gives away waits for its answer; the rest it keeps. *)
LEMMA GivenHolds ==
    ASSUME NEW nds, NEW a \in Nodes, NEW st3, NEW K1, NEW c, NEW nds3, NEW M3,
           Recut(nds[a].keyspaces, K1), KeepsRest(st3, K1, {c}),
           \A n \in Nodes : nds3[n] = IF n = a THEN st3 ELSE nds[n],
           \A k : k \in Keys(c) => Waited(nds3, M3, k)
    PROVE  \A k : Holds(nds, k) => Holds(nds3, k) \/ Waited(nds3, M3, k)
<1> SUFFICES ASSUME NEW k, Holds(nds, k) PROVE Holds(nds3, k) \/ Waited(nds3, M3, k)
  OBVIOUS
<1>1. PICK n \in Nodes : \E d \in nds[n].keyspaces : k \in Keys(d)
  BY DEF Holds
<1>2. CASE n = a
  <2>1. PICK d \in K1 : k \in Keys(d)
    BY <1>1, <1>2 DEF Recut, SameKey
  <2>2. CASE d = c
    BY <2>1, <2>2
  <2>3. CASE d # c
    <3>1. d \in nds3[a].keyspaces
      BY <2>1, <2>3 DEF KeepsRest
    <3> QED
      BY <2>1, <3>1 DEF Holds
  <2> QED
    BY <2>2, <2>3
<1>3. CASE n # a
  <2>1. nds3[n].keyspaces = nds[n].keyspaces
    BY <1>3
  <2> QED
    BY <1>1, <2>1 DEF Holds
<1> QED
  BY <1>2, <1>3

(* The share is the last one. *)
LEMMA NoteGiven ==
    ASSUME NEW nds, NEW M, NEW last \in [Nodes -> [Nodes -> Nat]], Given(nds, M, last),
           NEW a \in Nodes, NEW p \in Nodes, NEW m, Awaited(nds, M, a, m), Met(nds, p, a),
           NEW last2, last2 = [last EXCEPT ![a][p] = m.id]
    PROVE  Given(nds, M, last2)
<1>1. \A n, q \in Nodes : last2[n][q] = IF n = a /\ q = p THEN m.id ELSE last[n][q]
  OBVIOUS
<1> SUFFICES ASSUME NEW n \in Nodes, NEW q \in Nodes, q # n, last2[n][q] # 0
             PROVE  /\ Met(nds, q, n)
                    /\ \/ Settled(nds, M, n, q, last2[n][q])
                       \/ \E x : x.id = last2[n][q] /\ Awaited(nds, M, n, x)
  BY DEF Given
<1>2. CASE n = a /\ q = p
  BY <1>1, <1>2
<1>3. CASE ~ (n = a /\ q = p)
  BY <1>1, <1>3 DEF Given
<1> QED
  BY <1>2, <1>3

LEMMA GivePair ==
    ASSUME OnePeer, TypeOK, RoundInv, PairInv, RoundInv', BeatAndGive, ~ Dies
    PROVE  /\ PairInv'
           /\ \A n, p \in Nodes : lastShare'[n][p] # lastShare[n][p]
                                   => nodes[p].heard[n].id >= lastShare[n][p]
<1>1. PICK a \in Nodes : a = InTurn
  BY InTurnType
<1>2. PICK p \in FirstAsker(Beaten, PeersInTurn), b \in Largest(Beaten.keyspaces) :
        /\ nodes' = [nodes EXCEPT ![a] = giveHalf(Beaten, a, p, b, now)]
        /\ lastShare' = [lastShare EXCEPT ![a][p] = nodes'[a].nextId[p] - 1]
        /\ NextTurn
        /\ UNCHANGED << network, issued >>
  BY <1>1 DEF BeatAndGive, NoteShare
<1>3. /\ nodes \in [Nodes -> NodeState] /\ toSend \in Seq(Batch) /\ inbox \in Batch /\ now \in Nat
      /\ p \in Nodes /\ a # p /\ Beaten \in NodeState /\ b \in Beaten.keyspaces
      /\ Beaten.heard[p].kind # "none" /\ canSendKeyspace(Beaten, p)
  BY <1>1, <1>2, BeatenType, PeersAreOthers, InTurnType
     DEF TypeOK, FirstAsker, Askers, Largest, FullBlocks
<1>4. phase = "beat" /\ phase' # "share" /\ issued' = issued /\ toSend' = toSend /\ inbox' = inbox
  BY <1>2 DEF BeatAndGive, NextTurn, AfterBeats, network
<1> DEFINE nds1 == [nodes EXCEPT ![a] = Beaten]
           lv1  == LineOf(nds1, toSend, inbox)
           M1   == Mail(nds1, lv1, Len(toSend) + 1)
           K1   == (Beaten.keyspaces \ {b}) \cup {FirstHalf(b), SecondHalf(b)}
           st3  == giveHalf(Beaten, a, p, b, now)
           m    == custMessage(Beaten, a, p, {SecondHalf(b)})
<1>5. /\ nds1 \in [Nodes -> NodeState] /\ nds1[a] = Beaten
      /\ Rounds(nds1, lv1, Len(toSend) + 1, Online, StillPending, ThenDone)
      /\ PairLine(nds1, lv1, Len(toSend) + 1, lastShare)
      /\ \A n \in Nodes : nds1[n].keyspaces = nodes[n].keyspaces
      /\ \A n \in Nodes : nds1[n].heard = nodes[n].heard
      /\ StillAwaited(nodes, mail, nds1, M1)
  BY <1>1, <1>4, BeatPair
<1>6. nodes' = [nds1 EXCEPT ![a] = st3]
  <2> HIDE DEF st3
  <2>1. nodes' = [nodes EXCEPT ![a] = st3]
    BY <1>2 DEF st3
  <2> QED
    BY <1>3, <2>1
<1> HIDE DEF nds1
<1>7. Beaten.keyspaces \subseteq FullBlock
  BY <1>5 DEF PairLine, PairMail
<1>8. Recut(Beaten.keyspaces, K1)
  <2>1. CutInto(b, {FirstHalf(b), SecondHalf(b)})
    BY <1>3, <1>7, CutInHalves
  <2> QED
    BY <1>3, <1>7, <2>1, RecutBlock
<1>9. /\ K1 \in SUBSET Block /\ {SecondHalf(b)} \in SUBSET Block
      /\ K1 \subseteq FullBlock /\ SecondHalf(b) \in FullBlock
  BY <1>8 DEF Recut, FullBlock
<1>10. st3 = sendCustKeyspace([Beaten EXCEPT !.keyspaces = K1], a, p, {SecondHalf(b)}, now)
  BY Zenon DEF giveHalf, splitKeyspace
<1> HIDE DEF K1, st3
<1>11. Sends(nds1[a], st3, a, {p}, {m}, now) /\ KeepsRest(st3, K1, {SecondHalf(b)})
  <2>1. Sends(Beaten, st3, a, {p}, {m}, now) /\ KeepsRest(st3, K1, {SecondHalf(b)})
    BY <1>3, <1>9, <1>10, CustSends
  <2> QED
    BY <1>5, <2>1
<1>12. /\ m.kind = "keyspace" /\ m.blocks = {SecondHalf(b)} /\ m.dst = p
       /\ m.id = Beaten.nextId[p]
  BY DEF custMessage
<1> HIDE DEF m
<1>13. MaySend(nds1, a, {m})
  <2>1. canSendKeyspace(nds1[a], p) /\ Met(nds1, a, p)
    BY <1>3, <1>5 DEF Met
  <2> QED
    BY <1>3, <1>9, <1>12, <2>1 DEF MaySend
<1>14. st3.keyspaces \subseteq FullBlock
  BY <1>9, <1>11 DEF KeepsRest
<1> DEFINE nds3 == [nds1 EXCEPT ![a] = st3]
           M3   == Mail(nds3, LineOf(nds3, toSend, inbox), Len(toSend) + 1)
<1>15. /\ PairLine(nds3, LineOf(nds3, toSend, inbox), Len(toSend) + 1, lastShare)
       /\ StillAwaited(nds1, M1, nds3, M3)
       /\ \A x \in {m} : x.kind = "keyspace" => Awaited(nds3, M3, a, x)
  <2>1. {p} \in SUBSET Nodes /\ a \in Nodes /\ Ids(lastShare)
    BY <1>3 DEF TypeOK, Ids
  <2> QED
    BY ONLY OnePeer, <1>3, <1>5, <1>11, <1>13, <1>14, <2>1, SentPair
<1>16. \A n \in Nodes : nds3[n] = IF n = a THEN st3 ELSE nds1[n]
  BY <1>5
<1>17. /\ nodes' = nds3 /\ mail' = M3
       /\ line' = LineOf(nds3, toSend, inbox) /\ Top' = Len(toSend) + 1
  BY <1>4, <1>6 DEF mail, line, Top
<1> HIDE DEF M1, M3, nds3
<1>18. /\ Awaited(nds3, M3, a, m)
       /\ \A k : k \in Keys(SecondHalf(b)) => Waited(nds3, M3, k)
  BY <1>12, <1>15 DEF Waited
<1>19. \A k : Holds(nds1, k) => Holds(nds3, k) \/ Waited(nds3, M3, k)
  <2>1. Recut(nds1[a].keyspaces, K1)
    BY <1>5, <1>8
  <2> QED
    BY ONLY a \in Nodes, <1>11, <1>16, <1>18, <2>1, GivenHolds
<1>20. \A k : Holds(nodes, k) => Holds(nds1, k)
  BY <1>5, SameHolds
<1>21. /\ \A k : Holds(nodes, k) => Holds(nds3, k) \/ Waited(nds3, M3, k)
       /\ \A k : Waited(nodes, mail, k) => Waited(nds3, M3, k)
  <2>1. /\ \A k : Waited(nodes, mail, k) => Waited(nds1, M1, k)
        /\ \A k : Waited(nds1, M1, k) => Waited(nds3, M3, k)
    BY <1>5, <1>15, StillWaited
  <2> QED
    BY <1>19, <1>20, <2>1
<1>22. lastShare' = [lastShare EXCEPT ![a][p] = m.id]
  <2>1. st3.nextId = idsAfter(Beaten, {p})
    BY <1>5, <1>11 DEF Sends
  <2>2. Beaten.nextId[p] \in Nat
    BY <1>3, NodeStateFields
  <2>3. st3.nextId[p] = Beaten.nextId[p] + 1
    BY <1>3, <2>1 DEF idsAfter
  <2>4. nodes'[a] = st3
    BY <1>16, <1>17
  <2>5. nodes'[a].nextId[p] - 1 = m.id
    <3>1. m.id \in Nat
      BY <1>12, <2>2
    <3>2. nodes'[a].nextId[p] = m.id + 1
      BY <1>12, <2>3, <2>4
    <3> QED
      BY ONLY <3>1, <3>2
  <2>6. lastShare' = [lastShare EXCEPT ![a][p] = nodes'[a].nextId[p] - 1]
    BY <1>2
  <2> QED
    BY ONLY <2>5, <2>6, Zenon
<1>23. Met(nds3, p, a)
  <2>1. Rounds(nodes', line', Top', Online', Pending', Done')
    BY <1>2 DEF RoundInv, NextTurn, AfterBeats
  <2>2. SoundInv(nds3, LineOf(nds3, toSend, inbox), Len(toSend) + 1, Pending')
    BY <1>17, <2>1 DEF Rounds
  <2>3. PICK e \in nds3[a].confirm : e.msg = m
    BY <1>18 DEF Awaited
  <2>4. Sound(nds3, Pending', a, m)
    BY <2>2, <2>3 DEF SoundInv
  <2> QED
    BY <1>12, <2>4 DEF Sound
<1>24. PairLine(nodes', line', Top', lastShare')
  <2>1. Given(nds3, M3, lastShare)
    BY <1>15 DEF PairLine, M3
  <2>2. lastShare \in [Nodes -> [Nodes -> Nat]]
    BY DEF TypeOK
  <2> SUFFICES ASSUME NEW last2, last2 = lastShare'
               PROVE  PairLine(nodes', line', Top', last2)
    OBVIOUS
  <2>3. last2 = [lastShare EXCEPT ![a][p] = m.id]
    BY <1>22
  <2>4. Given(nds3, M3, last2)
    BY ONLY <1>3, <1>18, <1>23, <2>1, <2>2, <2>3, a \in Nodes, NoteGiven
  <2> QED
    BY <1>15, <1>17, <2>4 DEF PairLine, M3
<1>25. ASSUME NEW n \in Nodes, NEW q \in Nodes, lastShare'[n][q] # lastShare[n][q]
       PROVE  nodes[q].heard[n].id >= lastShare[n][q]
  <2>1. lastShare \in [Nodes -> [Nodes -> Nat]]
    BY DEF TypeOK
  <2>2. n = a /\ q = p
    BY <1>22, <1>25, <2>1
  <2>3. nodes[p].heard[a].id \in Nat /\ lastShare[a][p] \in Nat
    BY <1>3, <2>1, CountTypes
  <2>4. CASE lastShare[a][p] = 0
    BY <2>2, <2>3, <2>4
  <2>5. CASE lastShare[a][p] # 0
    <3>1. \/ Settled(nds1, M1, a, p, lastShare[a][p])
          \/ \E x : Awaited(nds1, M1, a, x)
      BY <1>3, <1>5, <2>5 DEF PairLine, Given, M1
    <3>2. CASE \E x : Awaited(nds1, M1, a, x)
      <4>1. PICK e \in Beaten.confirm : e.msg.kind = "keyspace"
        BY <1>5, <3>2 DEF Awaited, Unheard
      <4>2. e.msg.dst \in Nodes
        BY <1>5, <4>1, FieldTypes
      <4>3. e.msg \in M1[a]
        BY <1>5, <4>1, FieldTypes, InMail DEF M1
      <4>4. e.msg.dst = p
        BY <1>3, <1>5, <4>2, <4>3 DEF PairLine, PairMail, OnePeer, M1
      <4> QED
        BY <1>3, <4>1, <4>4 DEF canSendKeyspace
    <3>3. CASE Settled(nds1, M1, a, p, lastShare[a][p])
      BY <1>3, <1>5, <2>2, <2>3, <3>3 DEF Settled
    <3> QED
      BY <3>1, <3>2, <3>3
  <2> QED
    BY <2>4, <2>5
<1> QED
  BY <1>4, <1>17, <1>21, <1>24, <1>25, PairStep

LEMMA NextPair ==
    ASSUME OnePeer, TypeOK, TypeOK', RoundInv, RoundInv', PairInv, [Next]_vars
    PROVE  PairInv'
<1>1. CASE BeatAndGive /\ ~ Dies
  BY <1>1, GivePair
<1>2. CASE BeatOnly
  BY <1>2, BeatOnlyPair
<1>3. CASE BeatThenShare \/ ShareDigit \/ ShareNext
  <2>1. phase # "share"
    BY DEF PairInv
  <2> QED
    BY <1>3, <2>1, NoSharePair DEF ShareDigit, ShareNext
<1>4. CASE Collect
  BY <1>4, CollectPair
<1>5. CASE Deliver
  BY <1>5, DeliverPair
<1>6. CASE ConsumeKey
  BY <1>6, ConsumePair
<1>7. CASE UNCHANGED vars \/ Dies \/ AddNode \/ Tick \/ Events \/ ConsumeNothing
  <2>1. UNCHANGED << nodes, toSend, inbox, issued, lastShare >>
    BY <1>7 DEF vars, Dies, AddNode, Tick, Events, ConsumeNothing, network, history
  <2>2. phase' # "share"
    BY <1>7 DEF vars, Dies, AddNode, Tick, Events, ConsumeNothing, NextConsumer, AfterAdd, AfterTick,
                PairInv
  <2> QED
    BY <2>1, <2>2, PairQuiet
<1> QED
  BY <1>1, <1>2, <1>3, <1>4, <1>5, <1>6, <1>7 DEF Next

LEMMA PairFindsKeys == PairInv => NoKeyLost
<1> SUFFICES ASSUME PairInv, NEW k \in Key
             PROVE  \/ issued[k] # << >>
                    \/ BlocksWith(k) # {}
                    \/ MessagesWith(k) # {}
                    \/ \E n \in Nodes : \E e \in nodes[n].confirm : k \in KeysOf(e.msg.blocks)
  BY DEF NoKeyLost
<1>1. issued[k] # << >> \/ Holds(nodes, k) \/ Waited(nodes, mail, k)
  BY DEF PairInv, Accounted
<1>2. ASSUME Holds(nodes, k) PROVE BlocksWith(k) # {}
  <2>1. PICK n \in Nodes : \E b \in nodes[n].keyspaces : k \in Keys(b)
    BY <1>2 DEF Holds
  <2>2. PICK b \in nodes[n].keyspaces : k \in Keys(b)
    BY <2>1
  <2>3. << n, b >> \in BlocksWith(k)
    BY <2>2, BlocksWithKey
  <2> QED
    BY <2>3
<1>3. ASSUME Waited(nodes, mail, k)
      PROVE  \E n \in Nodes : \E e \in nodes[n].confirm : k \in KeysOf(e.msg.blocks)
  <2>1. PICK n \in Nodes : \E x : Awaited(nodes, mail, n, x) /\ \E b \in x.blocks : k \in Keys(b)
    BY <1>3 DEF Waited
  <2>2. PICK x : Awaited(nodes, mail, n, x) /\ \E b \in x.blocks : k \in Keys(b)
    BY <2>1
  <2>3. PICK e \in nodes[n].confirm : e.msg = x
    BY <2>2 DEF Awaited
  <2>4. k \in KeysOf(e.msg.blocks)
    BY <2>2, <2>3 DEF KeysOf
  <2> QED
    BY <2>4
<1> QED
  BY <1>1, <1>2, <1>3

LEMMA PairKept == ASSUME OnePeer PROVE Spec => []PairInv
<1>1. TypeOK /\ TypeOK' /\ RoundInv /\ RoundInv' /\ PairInv /\ [Next]_vars => PairInv'
  BY NextPair
<1> QED
  BY <1>1, InitPair, TypeCorrect, RoundsKept, PTL DEF Spec

(* Two nodes, however often they go offline: a key that neither has issued *)
(* is in a block of one of them, or in a message that its sender keeps     *)
(* until it is answered.                                                   *)
THEOREM PairKeepsKeys == ASSUME N = 2 PROVE Spec => []NoKeyLost
<1>1. OnePeer
  BY TwoNodes
<1>2. Spec => []PairInv
  BY <1>1, PairKept
<1> QED
  BY <1>2, PairFindsKeys, PTL

(* Two nodes, however often they go offline: a node is given keyspace only *)
(* once it has heard the last share of the giver.                          *)
THEOREM PairHeardBefore == ASSUME N = 2 PROVE Spec => GiveAfterHeard
<1> DEFINE Heeds == phase = "beat" => \A n, p \in Nodes :
             lastShare'[n][p] # lastShare[n][p] => nodes[p].heard[n].id >= lastShare[n][p]
<1>1. OnePeer
  BY TwoNodes
<1>2. TypeOK /\ RoundInv /\ RoundInv' /\ PairInv /\ [Next]_vars => [Heeds]_vars
  <2> SUFFICES ASSUME TypeOK, RoundInv, RoundInv', PairInv, Next, phase = "beat" PROVE Heeds
    OBVIOUS
  <2>1. CASE BeatAndGive /\ ~ Dies
    BY <1>1, <2>1, GivePair
  <2>2. CASE ~ BeatAndGive \/ Dies
    <3>1. lastShare' = lastShare
      BY <2>2 DEF Next, Dies, AddNode, Tick, BeatOnly, BeatThenShare, ShareDigit, ShareNext, Collect,
                  Deliver, Events, ConsumeKey, ConsumeNothing, history
    <3> QED
      BY <3>1
  <2> QED
    BY <2>1, <2>2
<1>3. Spec => []PairInv
  BY <1>1, PairKept
<1> QED
  BY <1>2, <1>3, TypeCorrect, RoundsKept, PTL DEF Spec, GiveAfterHeard
-----------------------------------------------------------------------------
(* The whole keyspace.  As long as no key has been issued, checkAllKeyspace*)
(* finds 100 %.  A block from which no key was taken is a class of keys:   *)
(* those that leave its start over when they are divided by its stride.    *)
(* Its percentage counts the members of the class up to MaxKey, which is   *)
(* no key itself.                                                          *)

Slots(b) == { k \in 0 .. MaxKey : \E i \in Nat : k = b.start + i * b.stride }

(* The blocks of this program before a key is taken.  One with a single    *)
(* key is never the one half a keyspace below MaxKey: its other half would *)
(* have had none.                                                          *)
WholeBlock ==
    { b \in FullBlock : /\ b.stride <= Whole
                        /\ b.start < b.stride /\ b.start < MaxKey
                        /\ b.stride = Whole => 2 * (b.start + 1) # Whole }

WholeIsPower == Whole \in PowersOf2

LEMMA WholeFields ==
    ASSUME NEW b \in WholeBlock
    PROVE  /\ b \in FullBlock /\ b \in BoundedBlock /\ b.stride \in PowersOf2
           /\ b.start \in Nat /\ b.end = MaxKey /\ b.stride \in Nat \ {0}
           /\ b.stride <= Whole /\ b.start < b.stride /\ b.start < MaxKey
           /\ b.start \in Key
<1>1. /\ b \in FullBlock /\ b.stride \in PowersOf2 /\ b.end = MaxKey /\ b \in Block
      /\ b.stride <= Whole /\ b.start < b.stride /\ b.start < MaxKey
  BY DEF WholeBlock, FullBlock
<1>2. b \in BoundedBlock
  BY <1>1, FullBlockHalves
<1>3. b.start \in Nat /\ b.stride \in Nat \ {0}
  BY <1>1, BlockFields
<1>4. b.start \in Key
  BY <1>1, <1>3, MaxKeyAssumption DEF Key
<1> QED
  BY <1>1, <1>2, <1>3, <1>4

LEMMA KeysAreSlots ==
    ASSUME NEW b \in WholeBlock, NEW k \in Key
    PROVE  k \in Keys(b) <=> k \in Slots(b)
<1>1. b \in BoundedBlock /\ b.end = MaxKey
  BY WholeFields
<1>2. k \in Keys(b) <=> k \in Nat /\ k < b.end /\ \E i \in Nat : k = b.start + i * b.stride
  BY <1>1, KeysUnbounded
<1>3. k \in Nat /\ k < MaxKey /\ k \in 0 .. MaxKey
  BY MaxKeyAssumption DEF Key
<1> QED
  BY <1>1, <1>2, <1>3 DEF Slots

(* The percentage of a block is the size of its class. *)
LEMMA SlotsCounted ==
    ASSUME WholeIsPower, NEW b \in WholeBlock
    PROVE  IsFiniteSet(Slots(b)) /\ Cardinality(Slots(b)) = Percent(b) /\ Percent(b) \in Nat
<1> DEFINE s == b.stride
           f == b.start
<1>1. f \in Nat /\ s \in Nat \ {0} /\ f < s /\ s \in PowersOf2 /\ s <= Whole
  BY WholeFields
<1>2. PICK r \in PowersOf2 : Whole = s * r
  BY <1>1, PowersDivide DEF WholeIsPower
<1>3. r \in Nat \ {0} /\ Whole = MaxKey + 1 /\ MaxKey \in Nat
  BY MaxKeyAssumption DEF PowersOf2, Whole
<1>4. Percent(b) = r
  <2> HIDE DEF s
  <2>1. (s * r) \div s = r
    BY <1>1, <1>3
  <2>2. Percent(b) = Whole \div s
    BY DEF Percent, s
  <2> QED
    BY <1>2, <2>1, <2>2
<1> HIDE DEF s, f
<1>5. Slots(b) = { k \in 0 .. MaxKey : \E i \in Nat : k = f + i * s }
  BY DEF Slots, s, f
<1> DEFINE g == [i \in 1..r |-> f + (i - 1) * s]
<1>6. ASSUME NEW i \in 1..r PROVE f + (i - 1) * s \in Slots(b)
  <2>1. i - 1 \in Nat /\ (i - 1) * s \in Nat /\ (i - 1) * s + s = i * s /\ i * s \in Nat
    BY <1>1
  <2>2. i * s <= r * s /\ r * s = s * r
    BY <1>1, <1>3, TimesMonotone
  <2>3. f + (i - 1) * s \in 0 .. MaxKey
    BY <1>1, <1>2, <1>3, <2>1, <2>2
  <2> QED
    BY <1>5, <2>1, <2>3
<1>7. ASSUME NEW i \in 1..r, NEW j \in 1..r, f + (i - 1) * s = f + (j - 1) * s
      PROVE  i = j
  <2>1. i - 1 \in Int /\ j - 1 \in Int /\ (i - 1) * s \in Int /\ (j - 1) * s \in Int
    BY <1>1
  <2>2. (i - 1) * s = (j - 1) * s
    BY <1>1, <1>7, <2>1
  <2>3. i - 1 = j - 1
    BY <1>1, <2>1, <2>2, SameProduct
  <2> QED
    BY <2>3
<1>8. ASSUME NEW k \in Slots(b)
      PROVE  \E i \in 1..r : k = f + (i - 1) * s
  <2>1. k \in 0 .. MaxKey
    BY <1>5
  <2>2. PICK i \in Nat : k = f + i * s
    BY <1>5
  <2>3. i * s \in Nat /\ r * s \in Nat /\ r * s = s * r
    BY <1>1, <1>3, <2>2
  <2>4. i * s < r * s
    BY <1>1, <1>2, <1>3, <2>1, <2>2, <2>3
  <2>5. i < r
    <3>1. ~(r <= i)
      <4>1. r <= i => r * s <= i * s
        BY <1>1, <1>3, <2>2, TimesMonotone
      <4> QED
        BY <2>3, <2>4, <4>1
    <3> QED
      BY <1>3, <2>2, <3>1
  <2>6. i + 1 \in 1..r /\ (i + 1) - 1 = i
    BY <1>3, <2>2, <2>5
  <2> QED
    BY <2>2, <2>6
<1>9. g \in Bijection(1..r, Slots(b))
  <2>1. g \in [1..r -> Slots(b)]
    BY <1>6
  <2>2. \A i, j \in 1..r : g[i] = g[j] => i = j
    BY <1>7
  <2>3. \A k \in Slots(b) : \E i \in 1..r : g[i] = k
    BY <1>8
  <2> HIDE DEF g
  <2> QED
    BY <2>1, <2>2, <2>3 DEF Bijection, Injection, Surjection, IsInjective
<1>10. IsFiniteSet(1..r) /\ Cardinality(1..r) = r
  BY <1>3, FS_Interval
<1>11. ExistsBijection(1..r, Slots(b))
  BY <1>9 DEF ExistsBijection
<1>12. IsFiniteSet(Slots(b)) /\ Cardinality(Slots(b)) = r
  BY <1>3, <1>11, FS_CountingElements, FS_NatBijection
<1> QED
  BY <1>3, <1>4, <1>12

(* Two classes that meet: the one of the larger stride lies inside the     *)
(* other.                                                                  *)
LEMMA SlotsApart ==
    ASSUME NEW b \in WholeBlock, NEW c \in WholeBlock, b.stride <= c.stride,
           NEW k \in Slots(b), k \in Slots(c)
    PROVE  c.start \in Keys(b) /\ c.start \in Keys(c)
<1> DEFINE s == b.stride
           f == b.start
           g == c.start
<1>1. /\ f \in Nat /\ s \in Nat \ {0} /\ f < s /\ s \in PowersOf2
      /\ g \in Nat /\ g \in Key /\ c.stride \in PowersOf2 /\ c.stride \in Nat \ {0}
  BY WholeFields
<1>2. PICK r \in PowersOf2 : c.stride = s * r
  BY <1>1, PowersDivide
<1>3. PICK i \in Nat : k = f + i * s
  BY DEF Slots
<1>4. PICK j \in Nat : k = g + j * c.stride
  BY DEF Slots
<1>5. r \in Nat /\ k \in Nat
  BY DEF PowersOf2, Slots
<1>6. c.start \in Slots(c) /\ g \in 0 .. MaxKey
  <2>1. g \in 0 .. MaxKey
    BY <1>1, MaxKeyAssumption DEF Key
  <2>2. g = c.start + 0 * c.stride
    BY <1>1
  <2>3. 0 \in Nat
    OBVIOUS
  <2> QED
    BY <2>1, <2>2, <2>3 DEF Slots
<1>7. c.start \in Slots(b)
  <2> HIDE DEF s, f, g
  <2>1. j * r \in Nat /\ j * (s * r) = (j * r) * s
    BY <1>1, <1>5, <1>4
  <2> DEFINE d == i - j * r
  <2>2. d \in Int /\ d * s = i * s - (j * r) * s /\ i * s \in Int /\ (j * r) * s \in Int
    <3> DEFINE y == j * r
    <3>1. i \in Int /\ y \in Int
      BY <1>3, <2>1
    <3> HIDE DEF y
    <3>2. (i - y) * s = i * s - y * s /\ i - y \in Int /\ i * s \in Int /\ y * s \in Int
      BY <1>1, <3>1
    <3> QED
      BY <3>2 DEF y
  <2>3. k = g + (j * r) * s
    BY <1>2, <1>4, <2>1 DEF g
  <2>4. g = f + d * s
    BY <1>1, <1>3, <2>2, <2>3
  <2> HIDE DEF d
  <2>5. d \in Nat
    <3>1. d * s \in Int /\ 0 - s < d * s
      BY <1>1, <2>2, <2>4
    <3>2. ASSUME d <= -1 PROVE FALSE
      <4>1. -1 \in Int
        OBVIOUS
      <4>2. d * s <= (-1) * s
        BY <1>1, <2>2, <3>2, <4>1, TimesMonotone
      <4> QED
        BY <1>1, <3>1, <4>2
    <3> QED
      BY <2>2, <3>2
  <2> QED
    BY <1>6, <2>4, <2>5 DEF Slots, g, f, s
<1> QED
  BY <1>1, <1>6, <1>7, KeysAreSlots

(* MaxKey is counted to the block that has the key half a keyspace below.  *)
LEMMA LastSlot ==
    ASSUME WholeIsPower
    PROVE  \E k \in Key : \A b \in WholeBlock : k \in Keys(b) => MaxKey \in Slots(b)
<1>1. Whole \in PowersOf2 /\ Whole = MaxKey + 1 /\ MaxKey \in Nat \ {0}
  BY MaxKeyAssumption DEF WholeIsPower, Whole
<1>2. PICK h \in PowersOf2 : Whole = 2 * h
  BY <1>1, PowerHalved
<1>3. h \in Nat \ {0}
  BY DEF PowersOf2
<1>4. h - 1 \in Key /\ MaxKey = (h - 1) + h
  BY <1>1, <1>2, <1>3 DEF Key
<1>5. ASSUME NEW b \in WholeBlock, h - 1 \in Keys(b) PROVE MaxKey \in Slots(b)
  <2> DEFINE s == b.stride
             f == b.start
  <2>1. f \in Nat /\ s \in Nat \ {0} /\ s \in PowersOf2 /\ s <= Whole /\ f < s
    BY WholeFields
  <2>2. PICK i \in Nat : h - 1 = f + i * s
    BY <1>4, <1>5, KeysAreSlots DEF Slots
  <2>3. s <= h
    <3> SUFFICES ASSUME h < s PROVE FALSE
      BY <1>3, <2>1
    <3>1. PICK r \in PowersOf2 : Whole = s * r
      BY <1>1, <2>1, PowersDivide
    <3>2. r \in Nat \ {0}
      BY DEF PowersOf2
    <3> HIDE DEF s, f
    <3>3. r = 1
      <4>1. 2 <= r => 2 * s <= r * s
        BY <2>1, <3>2, TimesMonotone
      <4>2. r * s = s * r /\ r * s \in Nat
        BY <2>1, <3>2
      <4> QED
        BY <1>2, <1>3, <2>1, <3>1, <3>2, <4>1, <4>2
    <3>4. s = Whole
      BY <2>1, <3>1, <3>3
    <3>5. i * s \in Nat /\ (i # 0 => s <= i * s)
      BY <2>1, ProductAtLeast
    <3>6. f = h - 1
      <4>1. i # 0 => FALSE
        BY <1>3, <2>1, <2>2, <3>5
      <4>2. i = 0 => i * s = 0
        BY <2>1
      <4> QED
        BY <1>3, <2>1, <2>2, <4>1, <4>2
    <3>7. 2 * (f + 1) = Whole
      BY <1>2, <1>3, <3>6
    <3> QED
      BY <3>4, <3>7 DEF WholeBlock, s, f
  <2>4. PICK r \in PowersOf2 : h = s * r
    BY <2>1, <2>3, PowersDivide
  <2>5. r \in Nat
    BY DEF PowersOf2
  <2> HIDE DEF s, f
  <2>6. i + r \in Nat /\ (i + r) * s = i * s + s * r /\ i * s \in Int /\ s * r \in Int
    BY <2>1, <2>2, <2>5
  <2>7. MaxKey = f + (i + r) * s
    BY <1>3, <1>4, <2>1, <2>2, <2>4, <2>6
  <2>8. MaxKey \in 0 .. MaxKey
    BY <1>1
  <2> QED
    BY <2>6, <2>7, <2>8 DEF Slots, s, f
<1> QED
  BY <1>4, <1>5
-----------------------------------------------------------------------------
(* Splitting and sharing make blocks of that kind again.                   *)

LEMMA RootWhole == RootBlock \in WholeBlock
<1>1. RootBlock = [start |-> 0, end |-> MaxKey, stride |-> 1] /\ RootBlock \in Block
  BY RootBlockType DEF RootBlock
<1>2. 1 \in PowersOf2
  BY DEF PowersOf2, IsPowerOf2
<1>3. MaxKey \in Nat \ {0} /\ Whole = MaxKey + 1
  BY MaxKeyAssumption DEF Whole
<1> QED
  BY <1>1, <1>2, <1>3 DEF WholeBlock, FullBlock

(* A block that is cut from b and has a key. *)
LEMMA CutWhole ==
    ASSUME WholeIsPower, NEW b \in WholeBlock, NEW c \in FullBlock, NEW w \in PowersOf2,
           2 * b.stride <= c.stride, c.stride <= w,
           b.start + w - b.stride < MaxKey,
           \/ c.start = b.start /\ c.stride = 2 * b.stride
           \/ 2 * c.start = 2 * b.start + c.stride - 2 * b.stride
           \/ c.start = b.start + c.stride - b.stride
    PROVE  c \in WholeBlock
<1> DEFINE s == b.stride
           f == b.start
           q == c.stride
           g == c.start
<1>1. /\ f \in Nat /\ s \in Nat \ {0} /\ f < s /\ s <= Whole /\ s \in PowersOf2
  BY WholeFields
<1>2. q \in PowersOf2 /\ q \in Nat \ {0} /\ w \in Nat \ {0} /\ g \in Nat
  BY BlockFields DEF FullBlock, PowersOf2
<1>3. Whole \in PowersOf2 /\ Whole = MaxKey + 1 /\ MaxKey \in Nat \ {0} /\ Whole \in Nat
  BY MaxKeyAssumption DEF WholeIsPower, Whole
<1> HIDE DEF s, f, q, g
<1>4. /\ 2 * s <= q /\ q <= w /\ f + w - s < MaxKey
      /\ \/ g = f /\ q = 2 * s
         \/ 2 * g = 2 * f + q - 2 * s
         \/ g = f + q - s
  BY DEF s, f, q, g
<1>5. w <= Whole
  <2> SUFFICES ASSUME Whole < w PROVE FALSE
    BY <1>2, <1>3
  <2>1. PICK r \in PowersOf2 : w = Whole * r
    BY <1>2, <1>3, PowersDivide
  <2>2. r \in Nat \ {0}
    BY DEF PowersOf2
  <2>3. r # 1
    BY <1>3, <2>1
  <2>4. 2 * Whole <= r * Whole /\ r * Whole = Whole * r
    BY <1>3, <2>2, <2>3, TimesMonotone
  <2> QED
    BY <1>1, <1>2, <1>3, <1>4, <2>1, <2>4
<1>6. q <= Whole /\ g < q /\ g < MaxKey
  BY <1>1, <1>2, <1>3, <1>4, <1>5
<1>7. q = Whole => 2 * (g + 1) # Whole
  BY <1>1, <1>2, <1>3, <1>4, <1>5
<1> QED
  BY <1>6, <1>7 DEF WholeBlock, q, g

LEMMA HalvesWhole ==
    ASSUME WholeIsPower, NEW b \in WholeBlock, ~ SplitThrows(b)
    PROVE  FirstHalf(b) \in WholeBlock /\ SecondHalf(b) \in WholeBlock
<1>1. /\ b \in FullBlock /\ b \in Block /\ b.end = MaxKey
      /\ b.start \in Nat /\ b.stride \in Nat \ {0} /\ b.stride \in PowersOf2
  BY WholeFields DEF FullBlock
<1>2. FirstHalf(b) \in FullBlock /\ SecondHalf(b) \in FullBlock
  BY <1>1, FullBlockHalves
<1>3. /\ FirstHalf(b).start = b.start /\ FirstHalf(b).stride = 2 * b.stride
      /\ SecondHalf(b).start = b.start + b.stride /\ SecondHalf(b).stride = 2 * b.stride
      /\ SecondHalf(b).end = b.end
  BY <1>1, BlockFields
<1>4. b.start + b.stride < MaxKey
  BY <1>1, <1>3 DEF SplitThrows, isKeyAvailable
<1>5. 2 * b.stride \in PowersOf2
  BY <1>1, PowerDoubled
<1> DEFINE w == 2 * b.stride
<1>6. /\ w \in PowersOf2 /\ FirstHalf(b).stride = w /\ SecondHalf(b).stride = w
      /\ b.start + w - b.stride < MaxKey /\ w <= w
      /\ SecondHalf(b).start = b.start + w - b.stride
  BY <1>1, <1>3, <1>4, <1>5
<1> HIDE DEF w
<1>7. FirstHalf(b) \in WholeBlock
  BY <1>2, <1>3, <1>6, CutWhole DEF w
<1>8. SecondHalf(b) \in WholeBlock
  BY <1>2, <1>3, <1>6, CutWhole DEF w
<1> QED
  BY <1>7, <1>8

LEMMA ChainWhole ==
    ASSUME WholeIsPower, NEW b \in WholeBlock, NEW w \in Strides, b.stride <= w,
           \A c \in Chain(b, w) : isKeyAvailable(c)
    PROVE  Chain(b, w) \subseteq WholeBlock
<1>1. /\ b \in FullBlock /\ b \in Block /\ b.end = MaxKey
      /\ b.start \in Nat /\ b.stride \in Nat \ {0} /\ b.stride \in PowersOf2
  BY WholeFields DEF FullBlock
<1>2. w \in PowersOf2 /\ w \in Nat \ {0}
  BY StridesArePowers, StridesType
<1>4. LastPiece(b, w) = [start |-> b.start + w - b.stride, end |-> b.end, stride |-> w]
  BY <1>1, PieceFields
<1>5. b.start + w - b.stride < MaxKey
  <2>1. isKeyAvailable(LastPiece(b, w))
    BY DEF Chain
  <2> QED
    BY <1>1, <1>4, <2>1 DEF isKeyAvailable
<1>6. CutInto(b, Chain(b, w))
  BY <1>1, ChainPartitions
<1>7. Chain(b, w) \subseteq FullBlock
  BY <1>6 DEF CutInto
<1>8. CASE b.stride = w
  <2>1. \A c \in Chain(b, w) : c = LastPiece(b, w)
    BY <1>1, <1>2, <1>8, StridesType DEF Chain
  <2>2. LastPiece(b, w) = b
    <3>1. PICK x \in Nat, y \in Nat, z \in Nat \ {0} : b = [start |-> x, end |-> y, stride |-> z]
      BY <1>1, Zenon DEF Block
    <3> QED
      BY <1>1, <1>4, <1>8, <3>1
  <2> QED
    BY <2>1, <2>2
<1>9. CASE b.stride # w
  <2>1. 2 * b.stride <= w
    BY <1>1, <1>2, <1>9, DoubleFits
  <2>2. LastPiece(b, w) \in WholeBlock
    <3>1. /\ LastPiece(b, w) \in FullBlock
          /\ LastPiece(b, w).stride = w /\ LastPiece(b, w).start = b.start + w - b.stride
      BY <1>4, <1>7 DEF Chain
    <3> QED
      BY <1>2, <1>5, <2>1, <3>1, CutWhole
  <2>3. ASSUME NEW q \in Strides, 2 * b.stride <= q, q <= w
        PROVE  Piece(b, q) \in WholeBlock
    <3>1. Piece(b, q) \in FullBlock
      BY <1>7, <2>3 DEF Chain
    <3>2. Piece(b, q) = [start |-> b.start + (q \div 2) - b.stride, end |-> b.end, stride |-> q]
      BY <1>1, PieceFields
    <3>3. q \in PowersOf2 /\ q \in Nat \ {0}
      BY StridesArePowers, StridesType
    <3>4. PICK h \in PowersOf2 : q = 2 * h
      BY <1>1, <2>3, <3>3, PowerHalved
    <3>5. h \in Nat /\ q \div 2 = h
      BY <3>4 DEF PowersOf2
    <3>6. 2 * Piece(b, q).start = 2 * b.start + q - 2 * b.stride /\ Piece(b, q).stride = q
      BY <1>1, <3>2, <3>4, <3>5
    <3> QED
      BY <1>2, <1>5, <2>3, <3>1, <3>6, CutWhole
  <2> QED
    BY <2>2, <2>3 DEF Chain
<1> QED
  BY <1>8, <1>9

LEMMA SharesWhole ==
    ASSUME WholeIsPower, NEW blocks \in SUBSET WholeBlock, NEW w \in Strides,
           NEW s \in Shares(blocks, w), ~ ShareThrows(s)
    PROVE  AfterCut(blocks, s) \subseteq WholeBlock /\ s.sent \subseteq WholeBlock
<1>1. blocks \in SUBSET Block
  BY DEF WholeBlock, FullBlock
<1>2. s.sent \subseteq AfterCut(blocks, s)
  BY <1>1, SharesCut
<1>3. CASE s.cut = {}
  BY <1>2, <1>3 DEF AfterCut
<1>4. CASE s.cut # {}
  <2>1. PICK b \in blocks : s.cut = {b} /\ s.down \in Strides /\ b.stride <= s.down
    BY <1>1, <1>4, SharesCut
  <2>2. \A c \in Chain(b, s.down) : isKeyAvailable(c)
    BY <2>1 DEF ShareThrows
  <2>3. Chain(b, s.down) \subseteq WholeBlock
    BY <2>1, <2>2, ChainWhole
  <2> QED
    BY <1>2, <2>1, <2>3 DEF AfterCut
<1> QED
  BY <1>3, <1>4
-----------------------------------------------------------------------------
(* Until a key is issued, every block is one from which none was taken:    *)
(* those held, those in messages on their way and those kept to be sent    *)
(* again.                                                                  *)

WholeMessage == { m \in Message : m.blocks \subseteq WholeBlock }
WholeEntry   == { e \in Entry : e.msg \in WholeMessage }
WholeState   == { st \in NodeState : /\ st.keyspaces \subseteq WholeBlock
                                     /\ st.confirm \subseteq WholeEntry
                                     /\ st.queue \in Seq(SUBSET WholeMessage) }
WholeBatch   == [Nodes -> Seq(SUBSET WholeMessage)]

WholeInv == nodes \in [Nodes -> WholeState] /\ toSend \in Seq(WholeBatch) /\ inbox \in WholeBatch

NothingIssued == \A k \in Key : issued[k] = << >>


LEMMA FiledWhole ==
    ASSUME NEW confirm \in SUBSET WholeEntry, NEW burst \in SUBSET WholeMessage, NEW t \in Nat
    PROVE  Filed(confirm, burst, t) \subseteq WholeEntry
BY DEF Filed, WholeEntry, WholeMessage, Entry

LEMMA HeartbeatWhole ==
    ASSUME NEW st \in WholeState, NEW n \in Nodes, NEW peers \in SUBSET Nodes, NEW t \in Nat
    PROVE  heartbeat(st, n, peers, t) \in WholeState
<1> DEFINE burst == { heartbeatMessage(st, n, p) : p \in peers }
           ids == idsAfter(st, peers)
           next == heartbeat(st, n, peers, t)
<1>1. st \in NodeState /\ st.queue \in Seq(SUBSET WholeMessage) /\ st.confirm \subseteq WholeEntry
      /\ st.keyspaces \subseteq WholeBlock
  BY DEF WholeState
<1>2. next \in NodeState
  BY <1>1, HeartbeatType
<1>3. burst \in SUBSET WholeMessage
  <2>1. \A p \in peers : heartbeatMessage(st, n, p) \in Message
    BY <1>1, HeartbeatMessageType
  <2>2. \A p \in peers : heartbeatMessage(st, n, p).blocks = {}
    BY DEF heartbeatMessage
  <2> QED
    BY <2>1, <2>2 DEF WholeMessage
<1>4. next = [st EXCEPT !.nextId = ids, !.queue = Append(st.queue, burst),
                        !.confirm = Filed(st.confirm, burst, t)]
  BY Zenon DEF heartbeat
<1> HIDE DEF burst, ids, next
<1>5. /\ next.keyspaces = st.keyspaces /\ next.queue = Append(st.queue, burst)
      /\ next.confirm = Filed(st.confirm, burst, t)
  BY <1>1, <1>4, NodeStateFields
<1>6. next.queue \in Seq(SUBSET WholeMessage)
  BY <1>1, <1>3, <1>5, QueueType
<1>7. next.confirm \subseteq WholeEntry
  BY <1>1, <1>3, <1>5, FiledWhole
<1> QED
  BY <1>1, <1>2, <1>5, <1>6, <1>7 DEF WholeState, next

LEMMA SendWhole ==
    ASSUME NEW st \in WholeState, NEW n \in Nodes, NEW p \in Nodes,
           NEW blocks \in SUBSET WholeBlock, NEW t \in Nat
    PROVE  sendCustKeyspace(st, n, p, blocks, t) \in WholeState
<1> DEFINE m == [kind |-> "keyspace", src |-> n, dst |-> p, id |-> st.nextId[p],
                 ack |-> st.heard[p].id, empty |-> FALSE, blocks |-> blocks]
           ids == idsAfter(st, {p})
           own == st.keyspaces \ blocks
           next == sendCustKeyspace(st, n, p, blocks, t)
<1>1. st \in NodeState /\ st.queue \in Seq(SUBSET WholeMessage) /\ st.confirm \subseteq WholeEntry
      /\ st.keyspaces \subseteq WholeBlock /\ blocks \in SUBSET Block
  BY DEF WholeState, WholeBlock, FullBlock
<1>2. next \in NodeState
  BY <1>1, SendCustKeyspaceType
<1>3. {m} \in SUBSET WholeMessage
  <2>1. st.heard[p].id \in Nat /\ st.nextId[p] \in Nat
    BY <1>1, NodeStateFields DEF Heard
  <2>2. m \in Message
    BY <1>1, <2>1 DEF Message
  <2>3. m.blocks \subseteq WholeBlock
    OBVIOUS
  <2> QED
    BY <2>2, <2>3 DEF WholeMessage
<1>4. next = [st EXCEPT !.keyspaces = own, !.nextId = ids,
                        !.queue = Append(st.queue, {m}), !.confirm = Filed(st.confirm, {m}, t)]
  BY Zenon DEF sendCustKeyspace
<1> HIDE DEF m, ids, next, own
<1>5. /\ next.keyspaces = own /\ next.queue = Append(st.queue, {m})
      /\ next.confirm = Filed(st.confirm, {m}, t)
  BY <1>1, <1>4, NodeStateFields
<1>6. next.queue \in Seq(SUBSET WholeMessage)
  BY <1>1, <1>3, <1>5, QueueType
<1>7. next.confirm \subseteq WholeEntry
  BY <1>1, <1>3, <1>5, FiledWhole
<1>8. next.keyspaces \subseteq WholeBlock
  BY <1>1, <1>5 DEF own
<1> QED
  BY <1>2, <1>6, <1>7, <1>8 DEF WholeState, next

LEMMA RecutWhole ==
    ASSUME NEW st \in WholeState, NEW own \in SUBSET WholeBlock
    PROVE  [st EXCEPT !.keyspaces = own] \in WholeState
<1>1. st \in NodeState /\ own \in SUBSET Block
  BY DEF WholeState, WholeBlock, FullBlock
<1>2. [st EXCEPT !.keyspaces = own] \in NodeState
  BY <1>1, KeyspacesReplaced
<1>3. /\ [st EXCEPT !.keyspaces = own].keyspaces = own
      /\ [st EXCEPT !.keyspaces = own].queue = st.queue
      /\ [st EXCEPT !.keyspaces = own].confirm = st.confirm
  BY <1>1, NodeStateFields
<1> QED
  BY <1>2, <1>3 DEF WholeState

LEMMA GiveWhole ==
    ASSUME WholeIsPower, NEW st \in WholeState, NEW n \in Nodes, NEW p \in Nodes,
           NEW b \in st.keyspaces, ~ SplitThrows(b), NEW t \in Nat
    PROVE  giveHalf(st, n, p, b, t) \in WholeState
<1>1. b \in WholeBlock /\ st.keyspaces \subseteq WholeBlock
  BY DEF WholeState
<1>2. FirstHalf(b) \in WholeBlock /\ SecondHalf(b) \in WholeBlock
  BY <1>1, HalvesWhole
<1>3. splitKeyspace(st, b) \in WholeState
  BY <1>1, <1>2, RecutWhole DEF splitKeyspace
<1> QED
  BY <1>2, <1>3, SendWhole DEF giveHalf

LEMMA ShareWhole ==
    ASSUME WholeIsPower, NEW st \in WholeState, NEW n \in Nodes, NEW p \in Nodes, NEW w \in Strides,
           NEW s \in Shares(st.keyspaces, w), ~ ShareThrows(s), NEW t \in Nat
    PROVE  shareBlocks(st, n, p, s, t) \in WholeState
<1>1. st.keyspaces \in SUBSET WholeBlock
  BY DEF WholeState
<1>2. AfterCut(st.keyspaces, s) \in SUBSET WholeBlock /\ s.sent \in SUBSET WholeBlock
  BY <1>1, SharesWhole
<1>3. [st EXCEPT !.keyspaces = AfterCut(st.keyspaces, s)] \in WholeState
  BY <1>2, RecutWhole
<1>4. shareBlocks(st, n, p, s, t)
        = sendCustKeyspace([st EXCEPT !.keyspaces = AfterCut(st.keyspaces, s)], n, p, s.sent, t)
  BY Zenon DEF shareBlocks, AfterCut
<1> QED
  BY <1>2, <1>3, <1>4, SendWhole

LEMMA ReceiveWhole ==
    ASSUME NEW st \in WholeState, NEW m \in WholeMessage, NEW t \in Nat
    PROVE  receiveMessage(st, m, t) \in WholeState
<1> DEFINE h      == heardAfter(st.heard[m.src], m)
           gone   == erased(st.confirm, m.src, h.ack)
           resend == due(st.confirm, m.src, h.ack, t)
           again  == { [e EXCEPT !.sent = t] : e \in resend }
           kept   == (st.confirm \ (gone \cup resend)) \cup again
           burst  == { e.msg : e \in resend }
           queued == IF resend = {} THEN st.queue ELSE Append(st.queue, burst)
           heard  == [st.heard EXCEPT ![m.src] = h]
           own    == st.keyspaces \cup m.blocks
           next   == receiveMessage(st, m, t)
<1>1. st \in NodeState /\ st.queue \in Seq(SUBSET WholeMessage) /\ st.confirm \subseteq WholeEntry
      /\ st.keyspaces \subseteq WholeBlock /\ m \in Message /\ m.blocks \subseteq WholeBlock
  BY DEF WholeState, WholeMessage
<1>2. next \in NodeState
  BY <1>1, ReceiveMessageType
<1>3. resend \subseteq st.confirm
  BY DEF due, visited
<1>4. next = [st EXCEPT !.heard = heard, !.confirm = kept, !.queue = queued, !.keyspaces = own]
  BY Zenon DEF receiveMessage
<1> HIDE DEF resend, gone, h, next, own
<1>5. again \subseteq WholeEntry /\ burst \in SUBSET WholeMessage
  BY <1>1, <1>3 DEF WholeEntry, Entry
<1>6. kept \subseteq WholeEntry
  BY <1>1, <1>5
<1>7. queued \in Seq(SUBSET WholeMessage)
  BY <1>1, <1>5, QueueType
<1> HIDE DEF kept, queued, heard
<1>8. next.keyspaces = own /\ next.queue = queued /\ next.confirm = kept
  BY <1>1, <1>4, NodeStateFields
<1>9. own \subseteq WholeBlock
  BY <1>1 DEF own
<1> QED
  BY <1>2, <1>6, <1>7, <1>8, <1>9 DEF WholeState, next

LEMMA InitWhole == Init => WholeInv
<1> SUFFICES ASSUME Init PROVE WholeInv
  OBVIOUS
<1>1. << >> \in Seq(SUBSET WholeMessage)
  OBVIOUS
<1>2. ASSUME NEW blocks \in SUBSET WholeBlock PROVE NewNode(blocks) \in WholeState
  <2>1. blocks \in SUBSET Block
    BY DEF WholeBlock, FullBlock
  <2>2. NewNode(blocks) \in NodeState
    BY <2>1, NewNodeType
  <2> QED
    BY <1>1, <2>2 DEF NewNode, WholeState
<1>3. nodes \in [Nodes -> WholeState]
  BY <1>2, RootWhole DEF Init
<1>4. toSend \in Seq(WholeBatch) /\ inbox \in WholeBatch
  BY <1>1 DEF Init, WholeBatch, NoMessages
<1> QED
  BY <1>3, <1>4 DEF WholeInv

LEMMA NodeWhole ==
    ASSUME WholeInv, NEW a \in Nodes, NEW st \in WholeState, nodes' = [nodes EXCEPT ![a] = st],
           UNCHANGED << toSend, inbox >>
    PROVE  WholeInv'
BY DEF WholeInv

LEMMA StillWhole ==
    ASSUME WholeInv, UNCHANGED << nodes, toSend, inbox >>
    PROVE  WholeInv'
BY DEF WholeInv

LEMMA CollectWhole ==
    ASSUME TypeOK, WholeInv, Collect
    PROVE  WholeInv'
<1> DEFINE batch == [n \in Nodes |-> nodes[n].queue]
           queued == Append(toSend, batch)
<1>1. /\ nodes \in [Nodes -> WholeState] /\ toSend \in Seq(WholeBatch) /\ inbox \in WholeBatch
      /\ nodes \in [Nodes -> NodeState]
  BY DEF WholeInv, TypeOK
<1>2. batch \in WholeBatch
  <2>1. \A n \in Nodes : nodes[n].queue \in Seq(SUBSET WholeMessage)
    BY <1>1 DEF WholeState
  <2> QED
    BY <2>1 DEF WholeBatch
<1>3. nodes' \in [Nodes -> WholeState]
  <2>1. << >> \in Seq(SUBSET WholeMessage) /\ << >> \in Seq(SUBSET Message)
    OBVIOUS
  <2>2. ASSUME NEW st \in WholeState PROVE [st EXCEPT !.queue = << >>] \in WholeState
    <3>1. st \in NodeState
      BY DEF WholeState
    <3>2. [st EXCEPT !.queue = << >>] \in NodeState
      BY <2>1, <3>1 DEF NodeState
    <3>3. /\ [st EXCEPT !.queue = << >>].queue = << >>
          /\ [st EXCEPT !.queue = << >>].keyspaces = st.keyspaces
          /\ [st EXCEPT !.queue = << >>].confirm = st.confirm
      BY <3>1, NodeStateFields
    <3> QED
      BY <2>1, <3>2, <3>3 DEF WholeState
  <2> QED
    BY <1>1, <2>2 DEF Collect
<1>4. /\ \/ toSend' = queued \/ toSend' = Tail(queued)
      /\ \/ inbox' = Head(queued) \/ inbox' = inbox
  BY DEF Collect
<1> HIDE DEF batch
<1>5. queued \in Seq(WholeBatch) /\ Head(queued) \in WholeBatch /\ Tail(queued) \in Seq(WholeBatch)
  BY <1>1, <1>2, QueueType
<1> HIDE DEF queued
<1>6. toSend' \in Seq(WholeBatch) /\ inbox' \in WholeBatch
  BY <1>1, <1>4, <1>5, Zenon
<1> QED
  BY <1>3, <1>6 DEF WholeInv

LEMMA DeliverWhole ==
    ASSUME TypeOK, WholeInv, Deliver
    PROVE  WholeInv'
<1>1. /\ nodes \in [Nodes -> WholeState] /\ toSend \in Seq(WholeBatch) /\ inbox \in WholeBatch
      /\ now \in Nat
  BY DEF WholeInv, TypeOK
<1>2. PICK n \in NextSender : \E m \in FirstOf(Head(inbox[n])) :
        /\ IF Arrives(m)
           THEN nodes' = [nodes EXCEPT ![m.dst] = receiveMessage(@, m, now)]
           ELSE UNCHANGED nodes
        /\ inbox' = InboxAfter(n, m)
  BY DEF Deliver
<1>3. PICK m \in FirstOf(Head(inbox[n])) :
        /\ IF Arrives(m)
           THEN nodes' = [nodes EXCEPT ![m.dst] = receiveMessage(@, m, now)]
           ELSE UNCHANGED nodes
        /\ inbox' = InboxAfter(n, m)
  BY <1>2
<1>4. n \in Nodes /\ inbox[n] # << >>
  BY DEF NextSender
<1>5. inbox[n] \in Seq(SUBSET WholeMessage)
  BY <1>1, <1>4 DEF WholeBatch
<1>6. Head(inbox[n]) \in SUBSET WholeMessage /\ Tail(inbox[n]) \in Seq(SUBSET WholeMessage)
  BY <1>4, <1>5
<1>7. m \in WholeMessage /\ m.dst \in Nodes
  BY <1>3, <1>6 DEF FirstOf, WholeMessage, Message
<1>8. nodes' \in [Nodes -> WholeState]
  <2>1. receiveMessage(nodes[m.dst], m, now) \in WholeState
    BY <1>1, <1>7, ReceiveWhole
  <2> QED
    BY <1>1, <1>3, <2>1
<1>9. inbox' \in WholeBatch
  <2>1. << Head(inbox[n]) \ {m} >> \in Seq(SUBSET WholeMessage)
    BY <1>6
  <2>2. << Head(inbox[n]) \ {m} >> \o Tail(inbox[n]) \in Seq(SUBSET WholeMessage)
    BY <1>6, <2>1
  <2> QED
    BY <1>1, <1>3, <1>6, <2>2 DEF InboxAfter, WholeBatch
<1>10. toSend' = toSend
  BY DEF Deliver
<1> QED
  BY <1>1, <1>8, <1>9, <1>10 DEF WholeInv

(* One step per action.  Only the one that issues a key leaves other       *)
(* blocks than whole ones.                                                 *)
LEMMA NextWhole ==
    ASSUME WholeIsPower, TypeOK, NothingIssued => WholeInv, [Next]_vars, NothingIssued'
    PROVE  WholeInv'
<1>1. ASSUME WholeInv, ConsumeKey PROVE FALSE
  <2>1. PICK b \in minimumKeyspace(nodes[InTurn]) : issued' = [issued EXCEPT ![b.start] = Append(@, InTurn)]
    BY <1>1 DEF ConsumeKey
  <2>2. InTurn \in Nodes /\ issued \in [Key -> Seq(Nodes)]
    BY InTurnType DEF TypeOK
  <2>3. b \in WholeBlock
    BY <1>1, <2>1, <2>2 DEF WholeInv, WholeState, minimumKeyspace
  <2>4. b.start \in Key
    BY <2>3, WholeFields
  <2>5. issued'[b.start] = Append(issued[b.start], InTurn)
    BY <2>1, <2>2, <2>4
  <2>6. Append(issued[b.start], InTurn) # << >>
    BY <2>2, <2>4, QueueType
  <2> QED
    BY <2>4, <2>5, <2>6 DEF NothingIssued
<1>2. ASSUME ~ ConsumeKey PROVE issued' = issued
  BY <1>2 DEF Next, vars, history, AddNode, Tick, BeatAndGive, BeatOnly, BeatThenShare, ShareDigit,
     ShareNext, Collect, Deliver, Events, ConsumeNothing, Dies
<1>3. NothingIssued
  <2>1. ASSUME ConsumeKey, ~ NothingIssued PROVE FALSE
    <3>1. PICK b \in minimumKeyspace(nodes[InTurn]) : issued' = [issued EXCEPT ![b.start] = Append(@, InTurn)]
      BY <2>1 DEF ConsumeKey
    <3>2. InTurn \in Nodes /\ issued \in [Key -> Seq(Nodes)]
      BY InTurnType DEF TypeOK
    <3>3. PICK k \in Key : issued[k] # << >>
      BY <2>1 DEF NothingIssued
    <3>4. issued'[k] = issued[k] \/ issued'[k] = Append(issued[k], InTurn)
      BY <3>1, <3>2
    <3>5. Append(issued[k], InTurn) # << >>
      BY <3>2, QueueType
    <3> QED
      BY <3>3, <3>4, <3>5 DEF NothingIssued
  <2> QED
    BY <1>2, <2>1 DEF NothingIssued
<1>4. WholeInv /\ ~ ConsumeKey
  BY <1>1, <1>3
<1>5. /\ InTurn \in Nodes /\ PeersInTurn \subseteq Nodes /\ now \in Nat
      /\ nodes \in [Nodes -> WholeState]
  BY <1>4, InTurnType DEF TypeOK, WholeInv
<1>6. Beaten \in WholeState
  BY <1>5, HeartbeatWhole DEF Beaten
<1>7. CASE UNCHANGED << nodes, toSend, inbox >>
  BY <1>4, <1>7, StillWhole
<1>8. CASE BeatAndGive
  <2>1. PICK p \in FirstAsker(Beaten, PeersInTurn), b \in Largest(Beaten.keyspaces) :
          IF SplitThrows(b) THEN Dies
          ELSE /\ nodes' = [nodes EXCEPT ![InTurn] = giveHalf(Beaten, InTurn, p, b, now)]
               /\ UNCHANGED network
    BY <1>8 DEF BeatAndGive
  <2>2. p \in Nodes /\ b \in Beaten.keyspaces
    BY <1>5, <2>1 DEF FirstAsker, Askers, Largest, FullBlocks
  <2>3. CASE SplitThrows(b)
    BY <1>7, <2>1, <2>3 DEF Dies, network
  <2>4. CASE ~ SplitThrows(b)
    <3>1. giveHalf(Beaten, InTurn, p, b, now) \in WholeState
      BY <1>5, <1>6, <2>2, <2>4, GiveWhole
    <3>2. /\ nodes' = [nodes EXCEPT ![InTurn] = giveHalf(Beaten, InTurn, p, b, now)]
          /\ UNCHANGED << toSend, inbox >>
      BY <2>1, <2>4 DEF network
    <3> QED
      BY <1>4, <1>5, <3>1, <3>2, NodeWhole
  <2> QED
    BY <2>3, <2>4
<1>9. CASE BeatOnly \/ BeatThenShare
  <2>1. nodes' = [nodes EXCEPT ![InTurn] = Beaten] /\ UNCHANGED << toSend, inbox >>
    BY <1>9 DEF BeatOnly, BeatThenShare, network
  <2> QED
    BY <1>4, <1>5, <1>6, <2>1, NodeWhole
<1>10. CASE ShareDigit
  <2>1. PICK p \in Neediest, w \in Strides :
          \E s \in Shares(nodes[InTurn].keyspaces, w) :
             IF ShareThrows(s) THEN Dies
             ELSE /\ nodes' = [nodes EXCEPT ![InTurn] = shareBlocks(@, InTurn, p, s, now)]
                  /\ UNCHANGED network
    BY <1>10 DEF ShareDigit
  <2>2. PICK s \in Shares(nodes[InTurn].keyspaces, w) :
             IF ShareThrows(s) THEN Dies
             ELSE /\ nodes' = [nodes EXCEPT ![InTurn] = shareBlocks(@, InTurn, p, s, now)]
                  /\ UNCHANGED network
    BY <2>1
  <2>3. p \in Nodes
    BY DEF Neediest, TypeOK
  <2>4. CASE ShareThrows(s)
    BY <1>7, <2>2, <2>4 DEF Dies, network
  <2>5. CASE ~ ShareThrows(s)
    <3>1. shareBlocks(nodes[InTurn], InTurn, p, s, now) \in WholeState
      BY <1>5, <2>3, <2>5, ShareWhole
    <3>2. /\ nodes' = [nodes EXCEPT ![InTurn] = shareBlocks(nodes[InTurn], InTurn, p, s, now)]
          /\ UNCHANGED << toSend, inbox >>
      BY <2>2, <2>5 DEF network
    <3> QED
      BY <1>4, <1>5, <3>1, <3>2, NodeWhole
  <2> QED
    BY <2>4, <2>5
<1>11. CASE Collect
  BY <1>4, <1>11, CollectWhole
<1>12. CASE Deliver
  BY <1>4, <1>12, DeliverWhole
<1>13. CASE AddNode \/ Tick \/ ShareNext \/ Events \/ ConsumeNothing \/ UNCHANGED vars
  <2>1. UNCHANGED << nodes, toSend, inbox >>
    BY <1>13 DEF AddNode, Tick, ShareNext, Events, ConsumeNothing, vars, network
  <2> QED
    BY <1>7, <2>1
<1> QED
  BY <1>4, <1>8, <1>9, <1>10, <1>11, <1>12, <1>13 DEF Next

LEMMA WholeKept == ASSUME WholeIsPower PROVE Spec => [](NothingIssued => WholeInv)
<1>1. Init => (NothingIssued => WholeInv)
  BY InitWhole
<1>2. TypeOK /\ (NothingIssued => WholeInv) /\ [Next]_vars => (NothingIssued => WholeInv)'
  BY NextWhole
<1> QED
  BY <1>1, <1>2, TypeCorrect, PTL DEF Spec
-----------------------------------------------------------------------------
(* What checkAllKeyspace adds up.                                          *)

HeldShares == UNION { { << n, b >> : b \in FullBlocks(nodes[n].keyspaces) } : n \in Nodes }
SentShares == UNION { { << f, b >> : b \in f[2][3].blocks } : f \in { g \in InFlight : g[1] # 1 } }

Folded(S) ==
    (CHOOSE g : g = [s \in SUBSET S |-> IF s = {} THEN 0 ELSE Percent(Any(s)[2]) + g[s \ {Any(s)}]])[S]

LEMMA SharesAdded == checkAllKeyspace = Folded(HeldShares) + Folded(SentShares)
BY Zenon DEF checkAllKeyspace, FSE!MapThenSumSet, FSE!MapThenFoldSet, Folded, HeldShares, SentShares, Any

LEMMA FoldedIsSum ==
    ASSUME NEW S, IsFiniteSet(S), NEW f, \A x \in S : f[x] = Percent(x[2])
    PROVE  Folded(S) = Sum(f, S)
<1> DEFINE Adds(g) == g = [s \in SUBSET S |-> IF s = {} THEN 0 ELSE Percent(Any(s)[2]) + g[s \ {Any(s)}]]
           h == CHOOSE g : Adds(g)
<1>1. Folded(S) = h[S]
  BY Zenon DEF Folded
<1>2. ASSUME NEW g PROVE Adds(g) <=> AddsUp(g, f, S)
  <2>1. \A s \in SUBSET S : (IF s = {} THEN 0 ELSE Percent(Any(s)[2]) + g[s \ {Any(s)}])
                            = (IF s = {} THEN 0 ELSE f[Any(s)] + g[s \ {Any(s)}])
    BY AnyIn
  <2> QED
    BY <2>1 DEF AddsUp
<1>3. PICK g : AddsUp(g, f, S)
  BY SumsExist
<1>4. Adds(h)
  <2>1. Adds(g)
    BY <1>2, <1>3
  <2> HIDE DEF Adds
  <2> QED
    BY <2>1
<1>5. AddsUp(h, f, S)
  BY <1>2, <1>4
<1> HIDE DEF h
<1>6. AddsUp((CHOOSE x : AddsUp(x, f, S)), f, S)
  BY <1>3
<1>7. (CHOOSE x : AddsUp(x, f, S))[S] = h[S]
  BY <1>5, <1>6, SumsAgree
<1> QED
  BY <1>1, <1>7 DEF Sum

(* The sizes of disjoint sets add up to the size of their union. *)
LEMMA ClassesAddUp ==
    ASSUME NEW S, IsFiniteSet(S), NEW f, NEW cls,
           \A x \in S : IsFiniteSet(cls[x]) /\ f[x] = Cardinality(cls[x]),
           \A x, y \in S : x # y => cls[x] \cap cls[y] = {}
    PROVE  /\ IsFiniteSet(UNION { cls[x] : x \in S })
           /\ Sum(f, S) = Cardinality(UNION { cls[x] : x \in S })
<1> DEFINE all(s) == UNION { cls[x] : x \in s }
           Good == { s \in SUBSET S : IsFiniteSet(all(s)) /\ Sum(f, s) = Cardinality(all(s)) }
<1>1. \A x \in S : f[x] \in Nat
  BY FS_CardinalityType
<1>2. ASSUME NEW s \in SUBSET S, \A x \in s : s \ {x} \in Good
      PROVE  s \in Good
  <2>1. IsFiniteSet(s)
    BY FS_Subset
  <2>2. CASE s = {}
    <3>1. Sum(f, s) = 0
      BY <2>1, <2>2, SumRec
    <3>2. all(s) = {}
      BY <2>2
    <3> QED
      BY <3>1, <3>2, FS_EmptySet
  <2>3. CASE s # {}
    <3>1. PICK x \in s : TRUE
      BY <2>3
    <3> DEFINE r == s \ {x}
    <3>2. r \in Good
      BY <1>2, <3>1
    <3>3. IsFiniteSet(all(r)) /\ Sum(f, r) = Cardinality(all(r))
      BY <3>2
    <3>4. Sum(f, s) = f[x] + Sum(f, r)
      BY <1>1, <2>1, <3>1, SumOne
    <3>5. all(s) = cls[x] \cup all(r)
      BY <3>1
    <3>6. cls[x] \cap all(r) = {}
      BY <3>1
    <3>7. IsFiniteSet(cls[x]) /\ f[x] = Cardinality(cls[x])
      BY <3>1
    <3> HIDE DEF all, r
    <3>8. /\ IsFiniteSet(cls[x] \cup all(r))
          /\ Cardinality(cls[x] \cup all(r))
               = Cardinality(cls[x]) + Cardinality(all(r)) - Cardinality(cls[x] \cap all(r))
      BY <3>3, <3>7, FS_Union
    <3>9. Cardinality(cls[x] \cap all(r)) = 0
      BY <3>6, FS_EmptySet
    <3>10. Cardinality(cls[x]) \in Nat /\ Cardinality(all(r)) \in Nat
      BY <3>3, <3>7, FS_CardinalityType
    <3>11. IsFiniteSet(all(s)) /\ Sum(f, s) = Cardinality(all(s))
      BY <3>3, <3>4, <3>5, <3>7, <3>8, <3>9, <3>10
    <3> QED
      BY <3>11
  <2> QED
    BY <2>2, <2>3
<1>3. S \in Good
  <2> HIDE DEF Good
  <2> QED
    BY <1>2, BySmaller
<1> QED
  BY <1>3

(* Blocks of which no two have a key in common are finitely many, and      *)
(* their percentages add up to the size of their classes.                  *)
LEMMA WholesCounted ==
    ASSUME WholeIsPower, NEW S, \A w \in S : w[2] \in WholeBlock,
           \A w, v \in S : \A k \in Key : k \in Keys(w[2]) /\ k \in Keys(v[2]) => w = v
    PROVE  /\ IsFiniteSet(UNION { Slots(w[2]) : w \in S })
           /\ Folded(S) = Cardinality(UNION { Slots(w[2]) : w \in S })
<1> DEFINE first == [w \in S |-> w[2].start]
           f     == [w \in S |-> Percent(w[2])]
           cls   == [w \in S |-> Slots(w[2])]
<1>1. ASSUME NEW w \in S PROVE w[2].start \in Key /\ w[2].start \in Keys(w[2])
  <2>1. w[2] \in WholeBlock
    OBVIOUS
  <2>2. PICK b \in WholeBlock : b = w[2]
    BY <2>1
  <2>3. b.start \in Key /\ b.stride \in Nat /\ b.start \in Nat
    BY WholeFields
  <2>4. b.start = b.start + 0 * b.stride /\ 0 \in Nat
    BY <2>3
  <2>5. b.start \in 0 .. MaxKey
    BY <2>3, MaxKeyAssumption DEF Key
  <2>6. b.start \in Slots(b)
    BY <2>4, <2>5 DEF Slots
  <2>7. b.start \in Keys(b)
    BY <2>3, <2>6, KeysAreSlots
  <2> QED
    BY <2>2, <2>3, <2>7
<1>2. IsFiniteSet(S)
  <2>1. first \in [S -> Key]
    BY <1>1
  <2>2. ASSUME NEW w \in S, NEW v \in S, first[w] = first[v] PROVE w = v
    <3>1. w[2].start = v[2].start
      BY <2>2
    <3>2. w[2].start \in Key /\ w[2].start \in Keys(w[2]) /\ w[2].start \in Keys(v[2])
      BY <1>1, <3>1
    <3> QED
      BY <3>2
  <2> HIDE DEF first
  <2>3. first \in Injection(S, Key)
    BY <2>1, <2>2 DEF Injection, IsInjective
  <2>4. IsFiniteSet(Key)
    <3>1. MaxKey - 1 \in Int /\ 0 \in Int
      BY MaxKeyAssumption
    <3> QED
      BY <3>1, FS_Interval DEF Key
  <2> QED
    BY <2>3, <2>4, FS_Injection
<1>3. ASSUME NEW w \in S PROVE IsFiniteSet(cls[w]) /\ f[w] = Cardinality(cls[w])
  <2>1. w[2] \in WholeBlock
    OBVIOUS
  <2>2. IsFiniteSet(Slots(w[2])) /\ Cardinality(Slots(w[2])) = Percent(w[2])
    BY <2>1, SlotsCounted
  <2> QED
    BY <2>2
<1>4. ASSUME NEW w \in S, NEW v \in S, w # v PROVE cls[w] \cap cls[v] = {}
  <2> SUFFICES ASSUME NEW k \in Slots(w[2]), k \in Slots(v[2]) PROVE FALSE
    OBVIOUS
  <2>1. PICK b \in WholeBlock : b = w[2]
    OBVIOUS
  <2>2. PICK c \in WholeBlock : c = v[2]
    OBVIOUS
  <2>3. b.stride \in Nat /\ c.stride \in Nat /\ b.start \in Key /\ c.start \in Key
    BY WholeFields
  <2>4. k \in Slots(b) /\ k \in Slots(c)
    BY <2>1, <2>2
  <2>5. CASE b.stride <= c.stride
    <3>1. c.start \in Keys(b) /\ c.start \in Keys(c)
      BY <2>4, <2>5, SlotsApart
    <3> QED
      BY <1>4, <2>1, <2>2, <2>3, <3>1
  <2>6. CASE c.stride <= b.stride
    <3>1. b.start \in Keys(c) /\ b.start \in Keys(b)
      BY <2>4, <2>6, SlotsApart
    <3> QED
      BY <1>4, <2>1, <2>2, <2>3, <3>1
  <2> QED
    BY <2>3, <2>5, <2>6
<1>5. Folded(S) = Sum(f, S)
  <2>1. \A x \in S : f[x] = Percent(x[2])
    OBVIOUS
  <2> HIDE DEF f
  <2> QED
    BY <1>2, <2>1, FoldedIsSum
<1>6. { cls[w] : w \in S } = { Slots(w[2]) : w \in S }
  OBVIOUS
<1> HIDE DEF f, cls, first
<1>7. /\ IsFiniteSet(UNION { cls[x] : x \in S })
      /\ Sum(f, S) = Cardinality(UNION { cls[x] : x \in S })
  <2>1. \A x \in S : IsFiniteSet(cls[x]) /\ f[x] = Cardinality(cls[x])
    BY <1>3
  <2>2. \A x, y \in S : x # y => cls[x] \cap cls[y] = {}
    BY <1>4
  <2> QED
    BY ONLY <1>2, <2>1, <2>2, ClassesAddUp
<1> QED
  BY <1>5, <1>6, <1>7
-----------------------------------------------------------------------------
(* Where the shares are: every key is in one of them.                      *)

LEMMA HeldShare ==
    ASSUME WholeInv, NEW w
    PROVE  w \in HeldShares <=>
             \E n \in Nodes : \E b \in nodes[n].keyspaces : w = << n, b >> /\ b \in WholeBlock
<1>1. \A n \in Nodes : nodes[n].keyspaces \subseteq WholeBlock
  BY DEF WholeInv, WholeState
<1>2. \A b \in WholeBlock : IsFull(b)
  BY WholeFields DEF IsFull
<1> QED
  BY <1>1, <1>2 DEF HeldShares, FullBlocks

LEMMA WholeLine ==
    ASSUME TypeOK, WholeInv, NEW l, NEW n, NEW i, NEW m, Way(line, Top, l, n, i, m)
    PROVE  m.blocks \subseteq WholeBlock
<1>1. /\ Top \in Nat \ {0} /\ Top = Len(toSend) + 1
      /\ line[0] = inbox /\ line[Top] = [q \in Nodes |-> nodes[q].queue]
      /\ \A j \in 1 .. Len(toSend) : line[j] = toSend[j]
  BY StateLine
<1>2. l \in 0 .. Top /\ n \in Nodes /\ i \in DOMAIN line[l][n] /\ m \in line[l][n][i]
  BY DEF Way
<1>3. line[l] \in WholeBatch
  <2>1. CASE l = 0
    BY <1>1, <2>1 DEF WholeInv
  <2>2. CASE l = Top
    <3>1. \A q \in Nodes : nodes[q].queue \in Seq(SUBSET WholeMessage)
      BY DEF WholeInv, WholeState
    <3> QED
      BY <1>1, <2>2, <3>1 DEF WholeBatch
  <2>3. CASE l # 0 /\ l # Top
    <3>1. toSend \in Seq(WholeBatch) /\ Len(toSend) \in Nat
      BY DEF WholeInv
    <3>2. l \in 1 .. Len(toSend)
      BY <1>1, <1>2, <2>3, <3>1
    <3>3. toSend[l] \in WholeBatch
      BY <3>1, <3>2
    <3> QED
      BY <1>1, <3>2, <3>3
  <2> QED
    BY <2>1, <2>2, <2>3
<1>4. line[l][n] \in Seq(SUBSET WholeMessage)
  BY <1>2, <1>3 DEF WholeBatch
<1>5. line[l][n][i] \in SUBSET WholeMessage
  BY <1>2, <1>4
<1> QED
  BY <1>2, <1>5 DEF WholeMessage

LEMMA SentShare ==
    ASSUME TypeOK, WholeInv, inbox = NoMessages, NEW w
    PROVE  w \in SentShares <=>
             \E l, n, i, m, b : /\ Way(line, Top, l, n, i, m) /\ b \in m.blocks /\ b \in WholeBlock
                                /\ w = << Tagged(l, n, i, m), b >>
<1>1. Top \in Nat \ {0} /\ line[0] = inbox
  BY StateLine
<1>2. ASSUME NEW l, NEW n, NEW i, NEW m, Way(line, Top, l, n, i, m)
      PROVE  /\ Tagged(l, n, i, m)[1] # 1
             /\ Tagged(l, n, i, m)[2][3] = m
  <2>1. l \in 0 .. Top
    BY <1>2 DEF Way
  <2>2. l # 0
    BY <1>1, <1>2 DEF Way, NoMessages
  <2> QED
    BY <1>1, <2>1, <2>2 DEF Tagged
<1>3. w \in SentShares <=> \E f \in InFlight : f[1] # 1 /\ \E b \in f[2][3].blocks : w = << f, b >>
  BY DEF SentShares
<1>4. ASSUME NEW f \in InFlight, f[1] # 1, NEW b \in f[2][3].blocks, w = << f, b >>
      PROVE  \E l, n, i, m, c : /\ Way(line, Top, l, n, i, m) /\ c \in m.blocks /\ c \in WholeBlock
                                /\ w = << Tagged(l, n, i, m), c >>
  <2>1. PICK l, n, i, m : Way(line, Top, l, n, i, m) /\ f = Tagged(l, n, i, m)
    BY InFlightOnLine
  <2>2. b \in m.blocks /\ b \in WholeBlock
    BY <1>2, <1>4, <2>1, WholeLine
  <2> QED
    BY <1>4, <2>1, <2>2
<1>5. ASSUME NEW l, NEW n, NEW i, NEW m, NEW b, Way(line, Top, l, n, i, m), b \in m.blocks,
             w = << Tagged(l, n, i, m), b >>
      PROVE  w \in SentShares
  <2>1. Tagged(l, n, i, m) \in InFlight
    BY <1>5, InFlightOnLine
  <2>2. Tagged(l, n, i, m)[1] # 1 /\ b \in Tagged(l, n, i, m)[2][3].blocks
    BY <1>2, <1>5
  <2> QED
    BY <1>3, <1>5, <2>1, <2>2
<1> QED
  BY <1>3, <1>4, <1>5

LEMMA KeyInOneShare ==
    ASSUME TypeOK, WholeInv, NothingIssued, Placed, inbox = NoMessages, NEW k \in Key
    PROVE  /\ \A w, v \in HeldShares : k \in Keys(w[2]) /\ k \in Keys(v[2]) => w = v
           /\ \A w, v \in SentShares : k \in Keys(w[2]) /\ k \in Keys(v[2]) => w = v
           /\ ~ \E w \in HeldShares, v \in SentShares : k \in Keys(w[2]) /\ k \in Keys(v[2])
           /\ \E w \in HeldShares \cup SentShares : k \in Keys(w[2]) /\ w[2] \in WholeBlock
<1>1. PICK t \in {"held", "sent", "issued"}, p \in Nodes : At(nodes, line, Top, issued, k, t, p)
  BY DEF Placed, EachAt
<1>2. issued[k] = << >>
  BY DEF NothingIssued
<1>3. \/ HeldBy(nodes, k, p) /\ NotSent(line, Top, k)
      \/ NotHeld(nodes, k) /\ SentTo(line, Top, k, p)
  <2>1. << >> # << p >>
    OBVIOUS
  <2> QED
    BY <1>1, <1>2, <2>1 DEF At
<1>4. \A w \in HeldShares : \E n \in Nodes : \E b \in nodes[n].keyspaces : w = << n, b >> /\ b \in WholeBlock
  BY HeldShare
<1>5. \A w \in SentShares : \E l, n, i, m, b :
        Way(line, Top, l, n, i, m) /\ b \in m.blocks /\ w = << Tagged(l, n, i, m), b >>
  BY SentShare
<1>6. CASE HeldBy(nodes, k, p) /\ NotSent(line, Top, k)
  <2>1. PICK b \in nodes[p].keyspaces :
          /\ k \in Keys(b)
          /\ \A q \in Nodes : \A c \in nodes[q].keyspaces : k \in Keys(c) => q = p /\ c = b
    BY <1>6 DEF HeldBy
  <2>2. ASSUME NEW w \in HeldShares, k \in Keys(w[2]) PROVE w = << p, b >>
    BY <1>4, <2>1, <2>2
  <2>3. ASSUME NEW w \in SentShares, k \in Keys(w[2]) PROVE FALSE
    <3>1. PICK l, n, i, m, c :
            Way(line, Top, l, n, i, m) /\ c \in m.blocks /\ w = << Tagged(l, n, i, m), c >>
      BY <1>5
    <3>2. Carries(line, Top, k, l, n, i, m, c)
      BY <2>3, <3>1 DEF Carries
    <3> QED
      BY <1>6, <3>2 DEF NotSent
  <2>4. b \in WholeBlock
    BY <2>1 DEF WholeInv, WholeState
  <2>5. << p, b >> \in HeldShares
    BY <2>4, HeldShare
  <2>6. << p, b >>[2] = b
    OBVIOUS
  <2> QED
    BY <2>1, <2>2, <2>3, <2>4, <2>5, <2>6
<1>7. CASE NotHeld(nodes, k) /\ SentTo(line, Top, k, p)
  <2>1. PICK l, n, i, m, b :
          /\ Carries(line, Top, k, l, n, i, m, b)
          /\ \A l2, n2, i2, m2, b2 : Carries(line, Top, k, l2, n2, i2, m2, b2) =>
               l2 = l /\ n2 = n /\ i2 = i /\ m2 = m /\ b2 = b
    BY <1>7 DEF SentTo
  <2> DEFINE here == << Tagged(l, n, i, m), b >>
  <2>2. ASSUME NEW w \in SentShares, k \in Keys(w[2]) PROVE w = here
    <3>1. PICK l2, n2, i2, m2, b2 :
            Way(line, Top, l2, n2, i2, m2) /\ b2 \in m2.blocks /\ w = << Tagged(l2, n2, i2, m2), b2 >>
      BY <1>5
    <3>2. Carries(line, Top, k, l2, n2, i2, m2, b2)
      BY <2>2, <3>1 DEF Carries
    <3> QED
      BY <2>1, <3>1, <3>2
  <2>3. ASSUME NEW w \in HeldShares, k \in Keys(w[2]) PROVE FALSE
    BY <1>4, <1>7, <2>3 DEF NotHeld
  <2>4. Way(line, Top, l, n, i, m) /\ b \in m.blocks /\ k \in Keys(b)
    BY <2>1 DEF Carries
  <2>5. b \in WholeBlock
    BY <2>4, WholeLine
  <2>6. here \in SentShares
    BY <2>4, <2>5, SentShare
  <2>7. here[2] = b
    OBVIOUS
  <2> HIDE DEF here
  <2> QED
    BY <2>2, <2>3, <2>4, <2>5, <2>6, <2>7
<1> QED
  BY <1>3, <1>6, <1>7

LEMMA AllShares ==
    ASSUME WholeIsPower, TypeOK, WholeInv, NothingIssued, Placed, inbox = NoMessages
    PROVE  checkAllKeyspace = Whole
<1> DEFINE H == UNION { Slots(w[2]) : w \in HeldShares }
           S == UNION { Slots(w[2]) : w \in SentShares }
<1>1. \A w \in HeldShares : w[2] \in WholeBlock
  BY HeldShare
<1>2. \A w \in SentShares : w[2] \in WholeBlock
  BY SentShare
<1>3. IsFiniteSet(H) /\ Folded(HeldShares) = Cardinality(H)
  BY <1>1, KeyInOneShare, WholesCounted
<1>4. IsFiniteSet(S) /\ Folded(SentShares) = Cardinality(S)
  BY <1>2, KeyInOneShare, WholesCounted
<1>5. H \cap S = {}
  <2> SUFFICES ASSUME NEW w \in HeldShares, NEW v \in SentShares,
                      NEW k \in Slots(w[2]), k \in Slots(v[2])
               PROVE  FALSE
    OBVIOUS
  <2>1. PICK b \in WholeBlock : b = w[2]
    BY <1>1
  <2>2. PICK c \in WholeBlock : c = v[2]
    BY <1>2
  <2>3. b.stride \in Nat /\ c.stride \in Nat /\ b.start \in Key /\ c.start \in Key
    BY WholeFields
  <2>4. k \in Slots(b) /\ k \in Slots(c)
    BY <2>1, <2>2
  <2>5. b.stride <= c.stride => c.start \in Keys(b) /\ c.start \in Keys(c)
    BY <2>4, SlotsApart
  <2>6. c.stride <= b.stride => b.start \in Keys(c) /\ b.start \in Keys(b)
    BY <2>4, SlotsApart
  <2>7. PICK j \in Key : j \in Keys(w[2]) /\ j \in Keys(v[2])
    BY <2>1, <2>2, <2>3, <2>5, <2>6
  <2> QED
    BY <2>7, KeyInOneShare
<1>6. H \cup S = 0 .. MaxKey
  <2>1. H \cup S \subseteq 0 .. MaxKey
    BY DEF Slots
  <2>2. ASSUME NEW k \in Key
        PROVE  \E w \in HeldShares \cup SentShares : k \in Keys(w[2]) /\ w[2] \in WholeBlock
    BY KeyInOneShare
  <2>3. ASSUME NEW k \in Key PROVE k \in H \cup S
    <3>1. PICK w \in HeldShares \cup SentShares : k \in Keys(w[2]) /\ w[2] \in WholeBlock
      BY <2>2
    <3>2. k \in Slots(w[2])
      BY <3>1, KeysAreSlots
    <3> QED
      BY <3>2
  <2>4. MaxKey \in H \cup S
    <3>1. PICK k \in Key : \A b \in WholeBlock : k \in Keys(b) => MaxKey \in Slots(b)
      BY LastSlot
    <3>2. PICK w \in HeldShares \cup SentShares : k \in Keys(w[2]) /\ w[2] \in WholeBlock
      BY <2>2
    <3>3. MaxKey \in Slots(w[2])
      BY <3>1, <3>2
    <3> QED
      BY <3>3
  <2>5. \A k \in 0 .. MaxKey : k \in Key \/ k = MaxKey
    BY MaxKeyAssumption DEF Key
  <2> HIDE DEF H, S
  <2> QED
    BY <2>1, <2>3, <2>4, <2>5
<1> HIDE DEF H, S
<1>7. Cardinality(H \cup S) = Cardinality(H) + Cardinality(S)
  <2>1. Cardinality(H \cap S) = 0 /\ Cardinality(H) \in Nat /\ Cardinality(S) \in Nat
    BY <1>3, <1>4, <1>5, FS_EmptySet, FS_CardinalityType
  <2>2. Cardinality(H \cup S) = Cardinality(H) + Cardinality(S) - Cardinality(H \cap S)
    BY <1>3, <1>4, FS_Union
  <2> QED
    BY <2>1, <2>2
<1>8. Cardinality(0 .. MaxKey) = Whole
  <2>1. MaxKey \in Nat /\ 0 \in Int /\ Whole = MaxKey + 1
    BY MaxKeyAssumption DEF Whole
  <2> QED
    BY <2>1, FS_Interval
<1> QED
  BY <1>3, <1>4, <1>6, <1>7, <1>8, SharesAdded

(* As long as no key has been issued and no node has been offline,         *)
(* checkAllKeyspace finds 100 %: what the nodes hold and what is queued or *)
(* waits out the latency are shares of 1, 1/2, 1/4 ... that add up to the  *)
(* whole, however often blocks were split and shared.  For any keyspace    *)
(* whose size is a power of two, as 2^32 is.                               *)
THEOREM UnissuedIsComplete ==
    ASSUME IsPowerOf2(Whole)
    PROVE  Spec => [](NothingIssued => KeyspaceComplete)
<1>1. WholeIsPower
  BY MaxKeyAssumption DEF WholeIsPower, PowersOf2, Whole
<1>2. /\ TypeOK /\ CalmDelivery /\ CalmKeys /\ (NothingIssued => WholeInv)
      => (NothingIssued => KeyspaceComplete)
  <2> SUFFICES ASSUME TypeOK, CalmDelivery, CalmKeys, NothingIssued, WholeInv,
                      phase # "deliver", outages = 0
               PROVE  checkAllKeyspace = Whole
    BY DEF KeyspaceComplete
  <2>1. inbox = NoMessages
    BY DEF CalmDelivery, LoopInv
  <2>2. Placed
    BY DEF CalmKeys
  <2> QED
    BY <1>1, <2>1, <2>2, AllShares
<1>3. Spec => [](NothingIssued => WholeInv)
  BY <1>1, WholeKept
<1> QED
  BY <1>2, <1>3, TypeCorrect, CalmDelivered, CalmKeysKept, PTL

(* If no node creates objects, the keyspace is complete in every state of  *)
(* a run without outages.                                                  *)
THEOREM KeyspaceAlwaysComplete ==
    ASSUME IsPowerOf2(Whole), Consumers = {}
    PROVE  Spec => []KeyspaceComplete
<1>1. Init => NothingIssued
  BY DEF Init, NothingIssued
<1>2. NothingIssued /\ [Next]_vars => NothingIssued'
  <2> SUFFICES ASSUME [Next]_vars PROVE issued' = issued
    BY DEF NothingIssued
  <2>1. ~ ConsumeKey
    BY DEF ConsumeKey
  <2> QED
    BY <2>1 DEF Next, vars, history, AddNode, Tick, BeatAndGive, BeatOnly, BeatThenShare,
       ShareDigit, ShareNext, Collect, Deliver, Events, ConsumeNothing, Dies
<1>3. Spec => []NothingIssued
  BY <1>1, <1>2, PTL DEF Spec
<1> QED
  BY <1>3, UnissuedIsComplete, PTL
=============================================================================
