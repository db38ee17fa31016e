----------------------------- MODULE SharingProofs -----------------------------
(***************************************************************************)
(* Proofs about sharing: who is given a share of blocks (BlockSharing),    *)
(* and which sub-blocks are cut, listed and sent (SubBlock).               *)
(***************************************************************************)
EXTENDS BlockSharing, SubBlock, KeyspaceProofs, SequenceTheorems

(* The loop over the shares.  What peers report, which does not change     *)
(* while adak goes through its list: *)
Inputs ==
    /\ prov \in [Peers -> Ratio]
    /\ looksEmpty \in [Peers -> BOOLEAN]
    /\ provShortRatio \in Ratio

(* Those that are surely served, and those that may be. *)
Enough == { p \in Deficit : ~atMostTooLittle(p) }
NotTooLittle == { p \in Deficit : ~tooLittle(p) }

LEMMA Peers_ ==
    /\ IsFiniteSet(Peers)
    /\ N \in Nat \ {0}
    /\ Held \in Nat \ {0} /\ Threshold \in Nat \ {0} /\ MaxRatio \in Nat \ {0}
<1>1. IsFiniteSet(Peers) /\ Peers # {}
  BY BlockSharingAssumption
<1>2. PICK p \in Peers : TRUE
  BY <1>1
<1>3. Cardinality(Peers) \in Nat \ {0}
  BY <1>1, <1>2, OneFewer
<1> QED
  BY <1>1, <1>3, BlockSharingAssumption DEF N

(* The peers served so far are the first j - 1 of the list. *)
Served == { defs[k] : k \in 1 .. j - 1 }

(* The invariant of adak: those with enough of the deficit are in the      *)
(* list, each peer of which is there once, and all that the index has      *)
(* passed are served for their need.                                       *)
SharesInv ==
    /\ Inputs
    /\ step \in {"averages", "sharing", "done", "refused"}
    /\ defs \in Seq(Deficit) /\ j \in 1 .. Len(defs) + 1
    /\ left \in 0..Held
    /\ step = "averages" => defs = << >> /\ j = 1
    /\ step = "sharing" => Richer
    /\ step = "done" /\ Richer => j = Len(defs) + 1
    /\ step # "averages" /\ Richer =>
         /\ SE!IsInjective(defs)
         /\ \A p \in Enough : \E i \in DOMAIN defs : defs[i] = p
         /\ Served \subseteq NotTooLittle

LEMMA SameInputs ==
    ASSUME UNCHANGED inputs
    PROVE  /\ Inputs' = Inputs /\ Richer' = Richer /\ Deficit' = Deficit
           /\ Enough' = Enough /\ NotTooLittle' = NotTooLittle
<1>1. Inputs' = Inputs
  BY DEF Inputs, inputs
<1>2. avgProv' = avgProv
  BY Zenon DEF avgProv, inputs, FSE!MapThenSumSet, FSE!MapThenFoldSet
<1>3. totalDef' = totalDef
  BY Zenon DEF totalDef, def, Deficit, avgProv, inputs, N, FSE!MapThenSumSet, FSE!MapThenFoldSet
<1>4. prov' = prov /\ looksEmpty' = looksEmpty /\ provShortRatio' = provShortRatio
  BY DEF inputs
<1>5. Richer' = Richer
  BY <1>2, <1>4 DEF Richer, N
<1>6. Deficit' = Deficit
  BY <1>2, <1>4 DEF Deficit, def, N
<1>7. Enough' = Enough
  BY <1>2, <1>3, <1>4, <1>6 DEF Enough, atMostTooLittle, def, N
<1>8. NotTooLittle' = NotTooLittle
  BY <1>2, <1>3, <1>4, <1>6 DEF NotTooLittle, tooLittle, def, N
<1> QED
  BY <1>1, <1>5, <1>6, <1>7, <1>8

(* A list in the order of the loop has every member once. *)
LEMMA Listed ==
    ASSUME NEW S, S \subseteq Int, IsFiniteSet(S), NEW list \in Ascending(S)
    PROVE  /\ list \in Seq(S) /\ Len(list) = Cardinality(S)
           /\ SE!IsInjective(list)
           /\ \A i, k \in 1 .. Len(list) : i < k => list[i] < list[k]
           /\ \A x \in S : \E i \in 1 .. Len(list) : list[i] = x
<1> DEFINE n == Cardinality(S)
<1>1. n \in Nat
  BY FS_CardinalityType
<1>2. list \in [1..n -> S] /\ \A i, k \in 1..n : i < k => list[i] < list[k]
  BY DEF Ascending
<1> HIDE DEF n
<1>3. list \in Seq(S) /\ Len(list) = n /\ DOMAIN list = 1..n
  BY <1>1, <1>2
<1>4. \A i, k \in 1..n : list[i] = list[k] => i = k
  <2> SUFFICES ASSUME NEW i \in 1..n, NEW k \in 1..n, i # k PROVE list[i] # list[k]
    OBVIOUS
  <2>1. list[i] \in Int /\ list[k] \in Int
    BY <1>2
  <2>2. list[i] < list[k] \/ list[k] < list[i]
    BY <1>1, <1>2
  <2> QED
    BY <2>1, <2>2
<1>5. list \in Injection(1..n, S)
  BY <1>2, <1>4 DEF Injection, IsInjective
<1>6. IsFiniteSet(1..n) /\ Cardinality(1..n) = n
  BY <1>1, FS_Interval
<1>7. list \in Surjection(1..n, S)
  BY <1>5, <1>6, FS_Injection DEF n
<1> QED
  BY <1>2, <1>3, <1>4, <1>7 DEF Surjection, SE!IsInjective, n

LEMMA OneLess ==
    ASSUME NEW S, NEW s \in Seq(S), NEW i \in 1 .. Len(s)
    PROVE  LET r == SubSeq(s, 1, i - 1) \o SubSeq(s, i + 1, Len(s))
           IN  /\ r \in Seq(S) /\ Len(r) = Len(s) - 1
               /\ \A k \in 1 .. i - 1 : r[k] = s[k]
               /\ \A k \in i .. Len(s) - 1 : r[k] = s[k + 1]
<1> DEFINE a == SubSeq(s, 1, i - 1)
           b == SubSeq(s, i + 1, Len(s))
           r == a \o b
<1>1. Len(s) \in Nat /\ \A k \in 1 .. Len(s) : s[k] \in S
  OBVIOUS
<1>2. /\ a \in Seq(S) /\ Len(a) = i - 1
      /\ \A k \in 1 .. i - 1 : a[k] = s[k]
  <2>1. \A k \in 1 .. i - 1 : s[k] \in S
    BY <1>1
  <2>2. /\ a \in Seq(S) /\ Len(a) = IF 1 <= i - 1 THEN (i - 1) - 1 + 1 ELSE 0
        /\ \A k \in 1 .. (i - 1) - 1 + 1 : a[k] = s[1 + k - 1]
    BY <1>1, <2>1, SubSeqProperties
  <2> QED
    BY <1>1, <2>2
<1>3. /\ b \in Seq(S) /\ Len(b) = Len(s) - i
      /\ \A k \in 1 .. Len(s) - i : b[k] = s[i + k]
  <2>1. \A k \in i + 1 .. Len(s) : s[k] \in S
    BY <1>1
  <2>2. /\ b \in Seq(S) /\ Len(b) = IF i + 1 <= Len(s) THEN Len(s) - (i + 1) + 1 ELSE 0
        /\ \A k \in 1 .. Len(s) - (i + 1) + 1 : b[k] = s[(i + 1) + k - 1]
    BY <1>1, <2>1, SubSeqProperties
  <2> QED
    BY <1>1, <2>2
<1> HIDE DEF a, b
<1>4. /\ r \in Seq(S) /\ Len(r) = Len(s) - 1
      /\ \A k \in 1 .. Len(s) - 1 : r[k] = IF k <= i - 1 THEN a[k] ELSE b[k - (i - 1)]
  <2>1. /\ r \in Seq(S) /\ Len(r) = Len(a) + Len(b)
        /\ \A k \in 1 .. Len(a) + Len(b) : r[k] = IF k <= Len(a) THEN a[k] ELSE b[k - Len(a)]
    BY <1>2, <1>3, ConcatProperties
  <2> QED
    BY <1>1, <1>2, <1>3, <2>1
<1> HIDE DEF r
<1>5. \A k \in 1 .. i - 1 : r[k] = s[k]
  BY <1>1, <1>2, <1>4
<1>6. ASSUME NEW k \in i .. Len(s) - 1 PROVE r[k] = s[k + 1]
  <2>1. k \in 1 .. Len(s) - 1 /\ ~(k <= i - 1) /\ k - (i - 1) \in 1 .. Len(s) - i /\ i + (k - (i - 1)) = k + 1
    BY <1>1
  <2> QED
    BY <1>3, <1>4, <2>1
<1> QED
  BY <1>4, <1>5, <1>6 DEF a, b, r

LEMMA SharesStart == AdakInit => SharesInv
<1> SUFFICES ASSUME AdakInit PROVE SharesInv
  OBVIOUS
<1>1. Inputs /\ step = "averages" /\ defs = << >> /\ j = 1 /\ left = Held
  BY DEF AdakInit, Inputs
<1>2. defs \in Seq(Deficit) /\ Len(defs) = 0 /\ Held \in 0..Held
  BY <1>1, Peers_
<1> QED
  BY <1>1, <1>2 DEF SharesInv

LEMMA FindStep ==
    ASSUME SharesInv, FindDeficits
    PROVE  SharesInv'
<1>1. UNCHANGED << inputs, j, left >> /\ step = "averages" /\ defs = << >> /\ j = 1
  BY DEF FindDeficits, SharesInv
<1>2. /\ Inputs' = Inputs /\ Richer' = Richer /\ Deficit' = Deficit
      /\ Enough' = Enough /\ NotTooLittle' = NotTooLittle
  BY <1>1, SameInputs
<1>3. CASE ~Richer
  <2>1. step' = "done" /\ defs' = << >>
    BY <1>1, <1>3 DEF FindDeficits
  <2>2. defs' \in Seq(Deficit) /\ Len(defs') = 0
    BY <2>1
  <2> QED
    BY <1>1, <1>2, <1>3, <2>1, <2>2 DEF SharesInv
<1>4. CASE Richer
  <2>1. step' = "sharing" /\ defs' \in Ascending(Deficit)
    BY <1>1, <1>4 DEF FindDeficits
  <2>2. Deficit \subseteq Int /\ IsFiniteSet(Deficit)
    <3>1. Deficit \subseteq Peers
      BY DEF Deficit
    <3>2. IsFiniteSet(Deficit)
      BY <3>1, Peers_, FS_Subset
    <3>3. Peers \subseteq Int
      BY BlockSharingAssumption
    <3> QED
      BY <3>1, <3>2, <3>3
  <2>3. /\ defs' \in Seq(Deficit) /\ SE!IsInjective(defs')
        /\ \A p \in Deficit : \E i \in 1 .. Len(defs') : defs'[i] = p
    BY <2>1, <2>2, Listed
  <2>4. Len(defs') \in Nat /\ DOMAIN defs' = 1 .. Len(defs')
    BY <2>3
  <2>5. \A p \in Enough : \E i \in DOMAIN defs' : defs'[i] = p
    BY <2>3, <2>4 DEF Enough
  <2>6. Served' = {}
    BY <1>1 DEF Served
  <2> QED
    BY <1>1, <1>2, <1>4, <2>1, <2>3, <2>4, <2>5, <2>6 DEF SharesInv
<1> QED
  BY <1>3, <1>4

LEMMA DismissStep ==
    ASSUME SharesInv, Dismiss
    PROVE  SharesInv'
<1>1. UNCHANGED << inputs, step, j, left >> /\ step = "sharing"
      /\ j <= Len(defs) /\ atMostTooLittle(defs[j]) /\ defs' = SE!RemoveAt(defs, j)
  BY DEF Dismiss
<1>2. /\ Inputs' = Inputs /\ Richer' = Richer /\ Deficit' = Deficit
      /\ Enough' = Enough /\ NotTooLittle' = NotTooLittle
  BY <1>1, SameInputs
<1>3. defs \in Seq(Deficit) /\ j \in 1 .. Len(defs) /\ Len(defs) \in Nat /\ Richer
  BY <1>1 DEF SharesInv
<1>4. /\ defs' \in Seq(Deficit) /\ Len(defs') = Len(defs) - 1
      /\ \A k \in 1 .. j - 1 : defs'[k] = defs[k]
      /\ \A k \in j .. Len(defs) - 1 : defs'[k] = defs[k + 1]
  BY <1>1, <1>3, OneLess DEF SE!RemoveAt
<1>5. DOMAIN defs = 1 .. Len(defs) /\ DOMAIN defs' = 1 .. Len(defs) - 1
  BY <1>3, <1>4
<1>6. SE!IsInjective(defs')
  <2>1. \A i, k \in 1 .. Len(defs) : defs[i] = defs[k] => i = k
    BY <1>1, <1>3, <1>5 DEF SharesInv, SE!IsInjective
  <2> SUFFICES ASSUME NEW i \in 1 .. Len(defs) - 1, NEW k \in 1 .. Len(defs) - 1, defs'[i] = defs'[k]
               PROVE  i = k
    BY <1>5 DEF SE!IsInjective
  <2> DEFINE Old(x) == IF x < j THEN x ELSE x + 1
  <2>2. ASSUME NEW x \in 1 .. Len(defs) - 1
        PROVE  Old(x) \in 1 .. Len(defs) /\ defs'[x] = defs[Old(x)]
    <3>1. x \in 1 .. j - 1 \/ x \in j .. Len(defs) - 1
      BY <1>3
    <3>2. CASE x \in 1 .. j - 1
      BY <1>3, <1>4, <3>2
    <3>3. CASE x \in j .. Len(defs) - 1
      BY <1>3, <1>4, <3>3
    <3> QED
      BY <3>1, <3>2, <3>3
  <2>3. Old(i) = Old(k)
    BY <2>1, <2>2
  <2> QED
    BY <1>3, <2>3
<1>7. \A p \in Enough : \E i \in DOMAIN defs' : defs'[i] = p
  <2> SUFFICES ASSUME NEW p \in Enough PROVE \E i \in DOMAIN defs' : defs'[i] = p
    OBVIOUS
  <2>1. PICK i \in 1 .. Len(defs) : defs[i] = p
    BY <1>1, <1>3, <1>5 DEF SharesInv
  <2>2. i # j
    BY <1>1, <2>1 DEF Enough
  <2>3. i \in 1 .. j - 1 \/ i - 1 \in j .. Len(defs) - 1
    BY <1>3, <2>2
  <2>4. (i \in 1 .. j - 1 => defs'[i] = p) /\ (i - 1 \in j .. Len(defs) - 1 => defs'[i - 1] = p)
    BY <1>4, <2>1
  <2> QED
    BY <1>3, <1>5, <2>3, <2>4
<1>8. Served' = Served
  <2>1. { defs'[k] : k \in 1 .. j - 1 } = { defs[k] : k \in 1 .. j - 1 }
    BY <1>4
  <2> QED
    BY <1>1, <2>1 DEF Served
<1> QED
  BY <1>1, <1>2, <1>3, <1>4, <1>6, <1>7, <1>8 DEF SharesInv

LEMMA GiveStep ==
    ASSUME SharesInv, Give
    PROVE  SharesInv'
<1>1. UNCHANGED << inputs, defs, step >> /\ step = "sharing" /\ j <= Len(defs)
      /\ ~tooLittle(defs[j]) /\ left' \in 0..left /\ j' = j + 1
  BY DEF Give
<1>2. /\ Inputs' = Inputs /\ Richer' = Richer /\ Deficit' = Deficit
      /\ Enough' = Enough /\ NotTooLittle' = NotTooLittle
  BY <1>1, SameInputs
<1>3. /\ defs \in Seq(Deficit) /\ j \in 1 .. Len(defs) /\ Len(defs) \in Nat /\ Richer
      /\ left \in 0..Held /\ Held \in Nat
  BY <1>1, Peers_ DEF SharesInv
<1>4. defs[j] \in NotTooLittle
  BY <1>1, <1>3 DEF NotTooLittle
<1>5. Served' = Served \cup {defs[j]}
  <2>1. Served' = { defs[k] : k \in 1 .. (j + 1) - 1 }
    BY <1>1 DEF Served
  <2>2. 1 .. (j + 1) - 1 = (1 .. j - 1) \cup {j}
    BY <1>3
  <2> QED
    BY <2>1, <2>2 DEF Served
<1>6. left' \in 0..Held /\ j' \in 1 .. Len(defs) + 1
  BY <1>1, <1>3
<1> QED
  BY <1>1, <1>2, <1>3, <1>4, <1>5, <1>6 DEF SharesInv

LEMMA LastSteps ==
    ASSUME SharesInv, Refuse \/ Finish \/ UNCHANGED adakVars
    PROVE  SharesInv'
<1>1. /\ UNCHANGED << inputs, defs, j, left >>
      /\ \/ step = "sharing" /\ step' = "refused"
         \/ step = "sharing" /\ step' = "done" /\ j > Len(defs)
         \/ UNCHANGED step
  BY DEF Refuse, Finish, adakVars, inputs
<1>2. /\ Inputs' = Inputs /\ Richer' = Richer /\ Deficit' = Deficit
      /\ Enough' = Enough /\ NotTooLittle' = NotTooLittle
  BY <1>1, SameInputs
<1>3. Served' = Served
  BY <1>1 DEF Served
<1>4. j > Len(defs) => j = Len(defs) + 1
  BY DEF SharesInv
<1> QED
  BY <1>1, <1>2, <1>3, <1>4 DEF SharesInv

LEMMA SharesKept == AdakSpec => []SharesInv
<1>1. SharesInv /\ [AdakNext]_adakVars => SharesInv'
  BY FindStep, DismissStep, GiveStep, LastSteps DEF AdakNext
<1> QED
  BY <1>1, SharesStart, PTL DEF AdakSpec

(* However many peers there are and whatever they report, the list, the    *)
(* index in it and what the node has left stay within bounds.              *)
THEOREM SharesTypeCorrect == AdakSpec => []SharesTypeOK
<1>1. SharesInv => SharesTypeOK
  <2> SUFFICES ASSUME SharesInv PROVE SharesTypeOK
    OBVIOUS
  <2>1. Deficit \subseteq Peers
    BY DEF Deficit
  <2>2. defs \in Seq(Peers)
    BY <2>1 DEF SharesInv
  <2> QED
    BY <2>2 DEF SharesInv, SharesTypeOK, Inputs
<1> QED
  BY <1>1, SharesKept, PTL

(* All those with enough of the deficit are served and none with less,     *)
(* though others are erased from the list while adak goes through it.      *)
THEOREM EnoughServed == AdakSpec => []RightOnesServed
<1>1. SharesInv => RightOnesServed
  <2> SUFFICES ASSUME SharesInv, step = "done", Richer
               PROVE  /\ \A p \in Deficit : ~atMostTooLittle(p) => p \in SE!ToSet(defs)
                      /\ \A p \in SE!ToSet(defs) : p \in Deficit /\ ~tooLittle(p)
    BY DEF RightOnesServed
  <2>1. /\ defs \in Seq(Deficit) /\ j = Len(defs) + 1
        /\ \A p \in Enough : \E i \in DOMAIN defs : defs[i] = p
        /\ Served \subseteq NotTooLittle
    BY DEF SharesInv
  <2>2. Len(defs) \in Nat /\ DOMAIN defs = 1 .. Len(defs) /\ j - 1 = Len(defs)
    BY <2>1
  <2>3. SE!ToSet(defs) = Served
    BY <2>2 DEF SE!ToSet, Served
  <2>4. Enough \subseteq Served
    BY <2>1, <2>2 DEF Served
  <2> QED
    BY <2>1, <2>3, <2>4 DEF Enough, NotTooLittle
<1> QED
  BY <1>1, SharesKept, PTL
-----------------------------------------------------------------------------
(* Which blocks are cut, listed and sent.  Where a key is in a vector of   *)
(* blocks: *)
Nowhere(v, k) == \A q \in DOMAIN v : k \notin Keys(v[q])
Once(v, k) == \E m \in DOMAIN v : \A q \in DOMAIN v : k \in Keys(v[q]) <=> q = m

(* A block is replaced by two that have its keys between them. *)
LEMMA InTwo ==
    ASSUME NEW v \in Seq(BoundedBlock), NEW i \in DOMAIN v,
           NEW x \in BoundedBlock, NEW y \in BoundedBlock,
           Keys(v[i]) = Keys(x) \cup Keys(y), Keys(x) \cap Keys(y) = {}
    PROVE  LET w == Append([v EXCEPT ![i] = x], y)
           IN  /\ w \in Seq(BoundedBlock) /\ Len(w) = Len(v) + 1
               /\ \A k : (Nowhere(v, k) => Nowhere(w, k)) /\ (Once(v, k) => Once(w, k))
<1> DEFINE u == [v EXCEPT ![i] = x]
           w == Append(u, y)
           n == Len(v)
<1>1. n \in Nat /\ DOMAIN v = 1..n /\ i \in 1..n
  OBVIOUS
<1>2. u \in Seq(BoundedBlock) /\ Len(u) = n /\ \A q \in 1..n : u[q] = IF q = i THEN x ELSE v[q]
  BY <1>1
<1> HIDE DEF u, n
<1>3. /\ w \in Seq(BoundedBlock) /\ Len(w) = n + 1 /\ DOMAIN w = 1 .. n + 1
      /\ \A q \in 1..n : w[q] = IF q = i THEN x ELSE v[q]
      /\ w[n + 1] = y
  BY <1>1, <1>2
<1> HIDE DEF w
<1>4. ASSUME NEW k, Nowhere(v, k) PROVE Nowhere(w, k)
  <2>1. k \notin Keys(x) /\ k \notin Keys(y)
    BY <1>1, <1>4 DEF Nowhere
  <2>2. ASSUME NEW q \in 1 .. n + 1 PROVE k \notin Keys(w[q])
    <3>1. q \in 1..n \/ q = n + 1
      BY <1>1
    <3> QED
      BY <1>1, <1>3, <1>4, <2>1, <3>1 DEF Nowhere
  <2> QED
    BY <1>3, <2>2 DEF Nowhere
<1>5. ASSUME NEW k, Once(v, k) PROVE Once(w, k)
  <2>0. PICK m \in DOMAIN v : \A q \in DOMAIN v : k \in Keys(v[q]) <=> q = m
    BY <1>5, Zenon DEF Once
  <2>1. m \in 1..n /\ \A q \in 1..n : k \in Keys(v[q]) <=> q = m
    BY <1>1, <2>0
  <2> DEFINE p == IF k \in Keys(y) THEN n + 1 ELSE m
  <2>2. p \in 1 .. n + 1
    <3>1. n + 1 \in 1 .. n + 1 /\ m \in 1 .. n + 1
      BY <1>1, <2>1
    <3>2. CASE k \in Keys(y)
      BY <3>1, <3>2
    <3>3. CASE k \notin Keys(y)
      BY <3>1, <3>3
    <3> QED
      BY <3>2, <3>3
  <2>3. (k \in Keys(x) \/ k \in Keys(y)) <=> m = i
    BY <1>1, <2>1
  <2>4. ~(k \in Keys(x) /\ k \in Keys(y))
    OBVIOUS
  <2>5. ASSUME NEW q \in 1..n PROVE k \in Keys(w[q]) <=> q = p
    <3>1. n + 1 # q
      BY <1>1
    <3>2. CASE q = i
      BY <1>3, <2>3, <2>4, <3>1, <3>2
    <3>3. CASE q # i
      BY <1>3, <2>1, <2>3, <3>1, <3>3
    <3> QED
      BY <3>2, <3>3
  <2>6. k \in Keys(w[n + 1]) <=> n + 1 = p
    BY <1>1, <1>3, <2>1
  <2>7. \A q \in 1 .. n + 1 : k \in Keys(w[q]) <=> q = p
    <3>1. \A q \in 1 .. n + 1 : q \in 1..n \/ q = n + 1
      BY <1>1
    <3> HIDE DEF p
    <3> QED
      BY <2>5, <2>6, <3>1
  <2> HIDE DEF p
  <2>8. p \in DOMAIN w /\ \A q \in DOMAIN w : k \in Keys(w[q]) <=> q = p
    BY <1>3, <2>2, <2>7
  <2> QED
    BY <2>8, Zenon DEF Once
<1> QED
  BY <1>3, <1>4, <1>5 DEF u, w, n

(* A block is taken out of the vector. *)
LEMMA TakenOut ==
    ASSUME NEW v \in Seq(BoundedBlock), NEW i \in DOMAIN v
    PROVE  /\ Without(v, i) \in Seq(BoundedBlock)
           /\ \A k : Nowhere(v, k) => Nowhere(Without(v, i), k)
           /\ \A k : k \in Keys(v[i]) /\ Once(v, k) => Nowhere(Without(v, i), k)
           /\ \A k : k \notin Keys(v[i]) /\ Once(v, k) => Once(Without(v, i), k)
<1> DEFINE w == Without(v, i)
           n == Len(v)
           Old(q) == IF q < i THEN q ELSE q + 1
<1>1. n \in Nat /\ DOMAIN v = 1..n /\ i \in 1..n
  OBVIOUS
<1>2. /\ w \in Seq(BoundedBlock) /\ Len(w) = n - 1
      /\ \A q \in 1 .. i - 1 : w[q] = v[q]
      /\ \A q \in i .. n - 1 : w[q] = v[q + 1]
  BY <1>1, OneLess DEF Without
<1>3. DOMAIN w = 1 .. n - 1
  BY <1>1, <1>2
<1> HIDE DEF w, n
<1>4. ASSUME NEW q \in 1 .. n - 1
      PROVE  Old(q) \in 1..n /\ Old(q) # i /\ w[q] = v[Old(q)]
  <2>1. q \in 1 .. i - 1 \/ q \in i .. n - 1
    BY <1>1
  <2>2. CASE q \in 1 .. i - 1
    BY <1>1, <1>2, <2>2
  <2>3. CASE q \in i .. n - 1
    BY <1>1, <1>2, <2>3
  <2> QED
    BY <2>1, <2>2, <2>3
<1>5. ASSUME NEW k, Nowhere(v, k) PROVE Nowhere(w, k)
  BY <1>1, <1>3, <1>4, <1>5 DEF Nowhere
<1>6. ASSUME NEW k, k \in Keys(v[i]), Once(v, k) PROVE Nowhere(w, k)
  <2>1. \A q \in 1..n : k \in Keys(v[q]) => q = i
    BY <1>1, <1>6 DEF Once
  <2> QED
    BY <1>3, <1>4, <2>1 DEF Nowhere
<1>7. ASSUME NEW k, k \notin Keys(v[i]), Once(v, k) PROVE Once(w, k)
  <2>0. PICK m \in DOMAIN v : \A q \in DOMAIN v : k \in Keys(v[q]) <=> q = m
    BY <1>7, Zenon DEF Once
  <2>1. m \in 1..n /\ \A q \in 1..n : k \in Keys(v[q]) <=> q = m
    BY <1>1, <2>0
  <2>2. m # i
    BY <1>1, <1>7, <2>1
  <2> DEFINE p == IF m < i THEN m ELSE m - 1
  <2>3. p \in 1 .. n - 1
    BY <1>1, <2>1, <2>2
  <2>4. \A q \in 1 .. n - 1 : Old(q) = m <=> q = p
    BY <1>1, <2>1, <2>2
  <2>5. \A q \in 1 .. n - 1 : k \in Keys(w[q]) <=> q = p
    <3> HIDE DEF p, Old
    <3> QED
      BY <1>4, <2>1, <2>4
  <2> HIDE DEF p
  <2> QED
    BY <1>3, <2>3, <2>5 DEF Once
<1> QED
  BY <1>2, <1>5, <1>6, <1>7 DEF w

(* A block gives its first key. *)
LEMMA KeyTaken ==
    ASSUME NEW v \in Seq(BoundedBlock), NEW i \in DOMAIN v, NEW x \in BoundedBlock,
           NEW first, Keys(x) = Keys(v[i]) \ {first}, first \in Keys(v[i])
    PROVE  LET w == [v EXCEPT ![i] = x]
           IN  /\ w \in Seq(BoundedBlock)
               /\ \A k : Nowhere(v, k) => Nowhere(w, k)
               /\ Once(v, first) => Nowhere(w, first)
               /\ \A k : k # first /\ Once(v, k) => Once(w, k)
<1> DEFINE w == [v EXCEPT ![i] = x]
<1>1. w \in Seq(BoundedBlock) /\ DOMAIN w = DOMAIN v
      /\ \A q \in DOMAIN v : w[q] = IF q = i THEN x ELSE v[q]
  OBVIOUS
<1> HIDE DEF w
<1>2. ASSUME NEW k, Nowhere(v, k) PROVE Nowhere(w, k)
  BY <1>1, <1>2 DEF Nowhere
<1>3. ASSUME Once(v, first) PROVE Nowhere(w, first)
  <2>1. \A q \in DOMAIN v : first \in Keys(v[q]) => q = i
    BY <1>3 DEF Once
  <2> QED
    BY <1>1, <2>1 DEF Nowhere
<1>4. ASSUME NEW k, k # first, Once(v, k) PROVE Once(w, k)
  <2>1. \A q \in DOMAIN v : k \in Keys(w[q]) <=> k \in Keys(v[q])
    BY <1>1, <1>4
  <2> QED
    BY <1>1, <1>4, <2>1 DEF Once
<1> QED
  BY <1>1, <1>2, <1>3, <1>4 DEF w

(* A block is added to the message. *)
LEMMA PutIn ==
    ASSUME NEW v \in Seq(BoundedBlock), NEW b \in BoundedBlock
    PROVE  LET w == Append(v, b)
           IN  /\ w \in Seq(BoundedBlock)
               /\ \A k : k \in Keys(b) /\ Nowhere(v, k) => Once(w, k)
               /\ \A k : k \notin Keys(b) /\ Nowhere(v, k) => Nowhere(w, k)
               /\ \A k : k \notin Keys(b) /\ Once(v, k) => Once(w, k)
<1> DEFINE w == Append(v, b)
           n == Len(v)
<1>1. n \in Nat /\ DOMAIN v = 1..n
  OBVIOUS
<1>2. /\ w \in Seq(BoundedBlock) /\ DOMAIN w = 1 .. n + 1
      /\ \A q \in 1..n : w[q] = v[q]
      /\ w[n + 1] = b
  OBVIOUS
<1> HIDE DEF w, n
<1>3. n + 1 \in 1 .. n + 1 /\ \A q \in 1 .. n + 1 : q \in 1..n \/ q = n + 1
  BY <1>1
<1>4. n + 1 \notin 1..n /\ 1..n \subseteq 1 .. n + 1
  BY <1>1
<1>5. ASSUME NEW k, k \in Keys(b), Nowhere(v, k) PROVE Once(w, k)
  <2>1. \A q \in 1 .. n + 1 : k \in Keys(w[q]) <=> q = n + 1
    BY <1>1, <1>2, <1>3, <1>4, <1>5 DEF Nowhere
  <2> QED
    BY <1>2, <1>3, <2>1 DEF Once
<1>6. ASSUME NEW k, k \notin Keys(b), Nowhere(v, k) PROVE Nowhere(w, k)
  BY <1>1, <1>2, <1>3, <1>6 DEF Nowhere
<1>7. ASSUME NEW k, k \notin Keys(b), Once(v, k) PROVE Once(w, k)
  <2>0. PICK m \in DOMAIN v : \A q \in DOMAIN v : k \in Keys(v[q]) <=> q = m
    BY <1>7, Zenon DEF Once
  <2>1. m \in 1..n /\ \A q \in 1..n : k \in Keys(v[q]) <=> q = m
    BY <1>1, <2>0
  <2>2. \A q \in 1 .. n + 1 : k \in Keys(w[q]) <=> q = m
    BY <1>2, <1>3, <1>4, <1>7, <2>1
  <2> QED
    BY <1>2, <1>4, <2>1, <2>2 DEF Once
<1> QED
  BY <1>2, <1>5, <1>6, <1>7 DEF w

LEMMA PartsBounded ==
    ASSUME NEW b \in BoundedBlock
    PROVE  FirstHalf(b) \in BoundedBlock /\ SecondHalf(b) \in BoundedBlock
           /\ AfterNextKey(b) \in BoundedBlock
BY BlockFields DEF BoundedBlock, Block

(* What the functions work on is well formed, and makeSubBlock goes on     *)
(* only while it has not found enough.                                     *)
Formed ==
    /\ keyspaces \in Seq(BoundedBlock) /\ listed \in Seq(BoundedBlock)
    /\ message \in Seq(BoundedBlock)
    /\ phase \in {"idle", "making", "sending", "sent", "thrown", "undefined"}
    /\ call \in {"none", "sharing", "subBlock"}
    /\ indices \in Seq(Nat \ {0})
    /\ used \in Nat
    /\ oldMin \in -(MaxKey + 1) .. MaxKey
    /\ issued \subseteq Key
    /\ phase = "idle" => used = 0
    /\ phase = "making" => used < Wanted

LEMMA Sizes ==
    ASSUME NEW b \in BoundedBlock, isKeyAvailable(b)
    PROVE  /\ getSize(b) \in Nat /\ getSize(b) * b.stride <= b.end - b.start
           /\ b.start + getSize(b) * b.stride <= b.end
           /\ b.start \in Key /\ AsInt(b.start) \in -(MaxKey + 1) .. MaxKey
<1>1. b.start \in Nat /\ b.end \in Nat /\ b.stride \in Nat \ {0} /\ b.end <= MaxKey /\ b.start < b.end
  BY BlockFields DEF BoundedBlock, isKeyAvailable
<1>2. b.end - b.start \in Nat
  BY <1>1
<1>3. getSize(b) \in Nat /\ getSize(b) * b.stride <= b.end - b.start
  BY <1>1, <1>2, Quotient DEF getSize
<1>4. getSize(b) * b.stride \in Nat
  BY <1>1, <1>3
<1>5. b.start \in Key /\ AsInt(b.start) \in -(MaxKey + 1) .. MaxKey
  BY <1>1, MaxKeyAssumption, SubBlockAssumption DEF Key, AsInt
<1> QED
  BY <1>1, <1>3, <1>4, <1>5

LEMMA FoundBlock ==
    ASSUME Formed, NEW min \in Int, NEW i \in minimumKeyspaceIndex(min)
    PROVE  /\ i \in DOMAIN keyspaces /\ i \in Nat \ {0}
           /\ keyspaces[i] \in BoundedBlock /\ isKeyAvailable(keyspaces[i])
           /\ keyspaces[i].start > min
<1>1. i \in DOMAIN keyspaces /\ isKeyAvailable(keyspaces[i]) /\ keyspaces[i].start > min
  BY DEF minimumKeyspaceIndex, Above
<1>2. keyspaces \in Seq(BoundedBlock)
  BY DEF Formed
<1> QED
  BY <1>1, <1>2

(* The block that is cut, and its two parts. *)
LEMMA CutParts ==
    ASSUME Formed, phase = "making", NEW i \in minimumKeyspaceIndex(oldMin), getSize(keyspaces[i]) > Wanted
    PROVE  LET b == keyspaces[i]
               x == [b EXCEPT !.start = Joint(b)]
               y == [b EXCEPT !.end = Joint(b)]
           IN  /\ x \in BoundedBlock /\ y \in BoundedBlock
               /\ Keys(b) = Keys(x) \cup Keys(y) /\ Keys(x) \cap Keys(y) = {}
               /\ y.start = b.start /\ y.stride = b.stride /\ y.end = b.start + (Wanted - used) * b.stride
               /\ [keyspaces EXCEPT ![i].start = Joint(b)] = [keyspaces EXCEPT ![i] = x]
<1> DEFINE b == keyspaces[i]
           d == Wanted - used
           s == b.stride
           x == [b EXCEPT !.start = Joint(b)]
           y == [b EXCEPT !.end = Joint(b)]
<1>1. i \in DOMAIN keyspaces /\ b \in BoundedBlock /\ isKeyAvailable(b) /\ keyspaces \in Seq(BoundedBlock)
  <2>1. oldMin \in Int
    BY MaxKeyAssumption DEF Formed
  <2> QED
    BY <2>1, FoundBlock DEF Formed
<1>2. d \in Nat /\ d <= Wanted /\ Wanted \in Nat
  BY SubBlockAssumption DEF Formed
<1>3. b.start \in Nat /\ b.end \in Nat /\ s \in Nat \ {0}
  BY <1>1, BlockFields DEF BoundedBlock
<1>4. getSize(b) \in Nat /\ b.start + getSize(b) * s <= b.end
  BY <1>1, Sizes
<1>5. b.start + d * s <= b.end
  <2> HIDE DEF b, d, s
  <2>1. d <= getSize(b) /\ d \in Int /\ getSize(b) \in Int /\ s \in Nat
    BY <1>2, <1>3, <1>4 DEF b
  <2>2. d * s <= getSize(b) * s /\ d * s \in Int /\ getSize(b) * s \in Int
    BY <2>1, TimesMonotone, Zenon
  <2> QED
    BY <1>3, <1>4, <2>2
<1>6. Joint(b) = b.start + d * s
  BY DEF Joint
<1>7. b = [start |-> b.start, end |-> b.end, stride |-> b.stride]
  BY <1>1, Zenon DEF BoundedBlock, Block
<1> HIDE DEF b
<1>8. y.start = b.start /\ y.stride = b.stride /\ y.end = b.start + d * s
  BY <1>6, <1>7
<1>9. /\ x \in BoundedBlock /\ y \in BoundedBlock
      /\ Keys(b) = Keys(x) \cup Keys(y) /\ Keys(x) \cap Keys(y) = {}
  BY <1>1, <1>2, <1>5, <1>6, CutPartitions
<1>10. [keyspaces EXCEPT ![i].start = Joint(b)] = [keyspaces EXCEPT ![i] = x]
  BY <1>1 DEF b
<1> QED
  BY <1>8, <1>9, <1>10 DEF b

(* What block sharing lists: blocks of the node, from the first to the     *)
(* last.                                                                   *)
LEMMA BlocksListed ==
    ASSUME Formed, ShareBlocks
    PROVE  /\ indices' \in Seq(Nat \ {0}) /\ Len(indices') \in Nat
           /\ \A m \in 1 .. Len(indices') : indices'[m] \in DOMAIN keyspaces
           /\ \A m, n \in 1 .. Len(indices') : m < n => indices'[m] < indices'[n]
           /\ listed' \in Seq(BoundedBlock) /\ Len(listed') = Len(indices')
           /\ \A m \in 1 .. Len(indices') : listed'[m] = keyspaces[indices'[m]]
<1>1. PICK chosen \in SUBSET DOMAIN keyspaces : indices' \in Ascending(chosen)
  BY DEF ShareBlocks
<1>2. listed' = [m \in DOMAIN indices' |-> keyspaces[indices'[m]]]
  BY DEF ShareBlocks
<1>3. keyspaces \in Seq(BoundedBlock) /\ DOMAIN keyspaces = 1 .. Len(keyspaces) /\ Len(keyspaces) \in Nat
  BY DEF Formed
<1>4. chosen \subseteq Int /\ chosen \subseteq Nat \ {0} /\ IsFiniteSet(chosen)
  <2>1. IsFiniteSet(1 .. Len(keyspaces))
    BY <1>3, FS_Interval
  <2> QED
    BY <1>3, <2>1, FS_Subset
<1>5. /\ indices' \in Seq(chosen)
      /\ \A m, n \in 1 .. Len(indices') : m < n => indices'[m] < indices'[n]
  BY <1>1, <1>4, Listed
<1>6. /\ indices' \in Seq(Nat \ {0}) /\ Len(indices') \in Nat /\ DOMAIN indices' = 1 .. Len(indices')
      /\ \A m \in 1 .. Len(indices') : indices'[m] \in DOMAIN keyspaces
  BY <1>4, <1>5
<1>7. \A m \in 1 .. Len(indices') : keyspaces[indices'[m]] \in BoundedBlock
  BY <1>3, <1>6
<1>8. listed' \in Seq(BoundedBlock) /\ Len(listed') = Len(indices')
      /\ \A m \in 1 .. Len(indices') : listed'[m] = keyspaces[indices'[m]]
  BY <1>2, <1>6, <1>7
<1> QED
  BY <1>5, <1>6, <1>8

(* What sendCustKeyspace does with the last index of the list. *)
LEMMA BlockSent ==
    ASSUME Formed, SendBlock, NEW i, i = indices[Len(indices)], i \in DOMAIN keyspaces
    PROVE  /\ message' = Append(message, keyspaces[i]) /\ keyspaces' = Without(keyspaces, i)
           /\ keyspaces[i] \in BoundedBlock
           /\ indices' \in Seq(Nat \ {0}) /\ Len(indices) \in Nat \ {0} /\ Len(indices') = Len(indices) - 1
           /\ \A m \in 1 .. Len(indices) - 1 : indices'[m] = indices[m]
           /\ phase' = IF indices' = << >> THEN "sent" ELSE "sending"
           /\ phase = "sending" /\ UNCHANGED << call, listed, used, oldMin, issued >>
<1>1. indices \in Seq(Nat \ {0}) /\ indices # << >> /\ keyspaces \in Seq(BoundedBlock)
  BY DEF Formed, SendBlock
<1>2. Len(indices) \in Nat \ {0} /\ Len(indices) \in 1 .. Len(indices)
  BY <1>1
<1>3. /\ message' = Append(message, keyspaces[i]) /\ keyspaces' = Without(keyspaces, i)
      /\ indices' = Without(indices, Len(indices))
      /\ phase' = IF indices' = << >> THEN "sent" ELSE "sending"
  BY DEF SendBlock, NextOfList
<1>4. /\ indices' \in Seq(Nat \ {0}) /\ Len(indices') = Len(indices) - 1
      /\ \A m \in 1 .. Len(indices) - 1 : indices'[m] = indices[m]
  BY <1>1, <1>2, <1>3, OneLess DEF Without
<1>5. phase = "sending" /\ UNCHANGED << call, listed, used, oldMin, issued >>
  BY DEF SendBlock
<1> QED
  BY <1>1, <1>2, <1>3, <1>4, <1>5

LEMMA FormedStart == Init => Formed
<1> SUFFICES ASSUME Init PROVE Formed
  OBVIOUS
<1>1. RootBlock \in BoundedBlock
  BY MaxKeyAssumption DEF RootBlock, BoundedBlock, Block
<1>2. << RootBlock >> \in Seq(BoundedBlock)
  BY <1>1
<1> QED
  BY <1>2, MaxKeyAssumption DEF Init, Formed

LEMMA FormedStep ==
    ASSUME Formed, [Next]_vars
    PROVE  Formed'
<1>1. ASSUME NEW i \in DOMAIN keyspaces, splitKeyspace(i)
      PROVE  Formed'
  <2>1. keyspaces \in Seq(BoundedBlock) /\ keyspaces[i] \in BoundedBlock
    BY DEF Formed
  <2>2. FirstHalf(keyspaces[i]) \in BoundedBlock /\ SecondHalf(keyspaces[i]) \in BoundedBlock
    BY <2>1, PartsBounded
  <2>3. keyspaces' \in Seq(BoundedBlock)
    BY <1>1, <2>1, <2>2 DEF splitKeyspace
  <2> QED
    BY <1>1, <2>3 DEF splitKeyspace, Formed
<1>2. ASSUME getNextKey
      PROVE  Formed'
  <2>1. PICK i \in minimumKeyspaceIndex(-1) :
               LET rest == AfterNextKey(keyspaces[i])
               IN  /\ issued' = issued \cup {keyspaces[i].start}
                   /\ keyspaces' = IF isKeyAvailable(rest) THEN [keyspaces EXCEPT ![i] = rest]
                                   ELSE Without(keyspaces, i)
    BY <1>2 DEF getNextKey
  <2>2. /\ i \in DOMAIN keyspaces /\ keyspaces[i] \in BoundedBlock /\ isKeyAvailable(keyspaces[i])
        /\ keyspaces \in Seq(BoundedBlock)
    <3>1. -1 \in Int /\ keyspaces \in Seq(BoundedBlock)
      BY DEF Formed
    <3> QED
      BY <3>1, FoundBlock
  <2>3. keyspaces[i].start \in Key /\ AfterNextKey(keyspaces[i]) \in BoundedBlock
    BY <2>2, Sizes, PartsBounded
  <2>4. Without(keyspaces, i) \in Seq(BoundedBlock)
    BY <2>2, TakenOut
  <2>5. [keyspaces EXCEPT ![i] = AfterNextKey(keyspaces[i])] \in Seq(BoundedBlock)
    BY <2>2, <2>3
  <2>6. keyspaces' \in Seq(BoundedBlock)
    BY <2>1, <2>4, <2>5
  <2>7. issued' \subseteq Key
    BY <2>1, <2>3 DEF Formed
  <2> QED
    BY <1>2, <2>6, <2>7 DEF getNextKey, Formed
<1>3. ASSUME ShareBlocks
      PROVE  Formed'
  <2>1. listed' \in Seq(BoundedBlock) /\ indices' \in Seq(Nat \ {0})
    BY <1>3, BlocksListed
  <2> QED
    BY <1>3, <2>1 DEF ShareBlocks, Formed
<1>4. ASSUME MakeSubBlock
      PROVE  Formed'
  BY <1>4, SubBlockAssumption DEF MakeSubBlock, Formed
<1>5. ASSUME ListBlock
      PROVE  Formed'
  <2>1. PICK i \in minimumKeyspaceIndex(oldMin) :
         /\ indices' = Append(indices, i)
         /\ listed' = Append(listed, keyspaces[i])
         /\ used' = used + getSize(keyspaces[i])
         /\ oldMin' = AsInt(keyspaces[i].start)
    BY <1>5 DEF ListBlock
  <2>2. oldMin \in Int
    BY MaxKeyAssumption DEF Formed
  <2>3. i \in Nat \ {0} /\ keyspaces[i] \in BoundedBlock /\ isKeyAvailable(keyspaces[i])
    BY <2>2, FoundBlock
  <2>4. getSize(keyspaces[i]) \in Nat /\ AsInt(keyspaces[i].start) \in -(MaxKey + 1) .. MaxKey
    BY <2>3, Sizes
  <2>5. /\ indices' \in Seq(Nat \ {0}) /\ listed' \in Seq(BoundedBlock) /\ used' \in Nat
        /\ oldMin' \in -(MaxKey + 1) .. MaxKey
    BY <2>1, <2>3, <2>4 DEF Formed
  <2>6. phase' = (IF used' < Wanted THEN "making" ELSE "sending")
        /\ UNCHANGED << keyspaces, call, message, issued >>
    BY <1>5 DEF ListBlock
  <2> QED
    BY <2>5, <2>6 DEF Formed
<1>6. ASSUME CutBlock
      PROVE  Formed'
  <2>1. PICK i \in minimumKeyspaceIndex(oldMin) :
             /\ getSize(keyspaces[i]) > Wanted
             /\ keyspaces' = Append([keyspaces EXCEPT ![i].start = Joint(keyspaces[i])],
                                    [keyspaces[i] EXCEPT !.end = Joint(keyspaces[i])])
             /\ listed' = Append(listed, [keyspaces[i] EXCEPT !.end = Joint(keyspaces[i])])
             /\ oldMin' = AsInt(keyspaces[i].start)
    BY <1>6 DEF CutBlock
  <2> DEFINE b == keyspaces[i]
             x == [b EXCEPT !.start = Joint(b)]
             y == [b EXCEPT !.end = Joint(b)]
  <2>2. phase = "making" /\ indices' = Append(indices, Len(keyspaces')) /\ used' = Wanted
        /\ phase' = "sending" /\ UNCHANGED << call, message, issued >>
    BY <1>6 DEF CutBlock
  <2>3. /\ x \in BoundedBlock /\ y \in BoundedBlock
        /\ [keyspaces EXCEPT ![i].start = Joint(b)] = [keyspaces EXCEPT ![i] = x]
    BY <2>1, <2>2, CutParts
  <2>4. oldMin \in Int /\ keyspaces \in Seq(BoundedBlock) /\ listed \in Seq(BoundedBlock)
        /\ indices \in Seq(Nat \ {0})
    BY MaxKeyAssumption DEF Formed
  <2>5. i \in DOMAIN keyspaces /\ b \in BoundedBlock /\ isKeyAvailable(b)
    BY <2>4, FoundBlock
  <2>6. AsInt(b.start) \in -(MaxKey + 1) .. MaxKey
    BY <2>5, Sizes
  <2>7. keyspaces' = Append([keyspaces EXCEPT ![i] = x], y) /\ listed' = Append(listed, y)
    BY <2>1, <2>3
  <2> HIDE DEF x, y
  <2>8. keyspaces' \in Seq(BoundedBlock) /\ Len(keyspaces') \in Nat \ {0} /\ listed' \in Seq(BoundedBlock)
    BY <2>3, <2>4, <2>5, <2>7
  <2>9. indices' \in Seq(Nat \ {0})
    BY <2>2, <2>4, <2>8
  <2>10. oldMin' \in -(MaxKey + 1) .. MaxKey /\ used' \in Nat
    BY <2>1, <2>2, <2>6, SubBlockAssumption
  <2> QED
    BY <2>2, <2>8, <2>9, <2>10 DEF Formed
<1>7. ASSUME NotEnough
      PROVE  Formed'
  BY <1>7 DEF NotEnough, Formed
<1>8. ASSUME SendBlock
      PROVE  Formed'
  <2> DEFINE i == indices[Len(indices)]
  <2>1. CASE i \in DOMAIN keyspaces
    <3>1. /\ message' = Append(message, keyspaces[i]) /\ keyspaces' = Without(keyspaces, i)
          /\ keyspaces[i] \in BoundedBlock /\ indices' \in Seq(Nat \ {0})
          /\ phase' \in {"sent", "sending"}
          /\ UNCHANGED << call, listed, used, oldMin, issued >>
      BY <1>8, <2>1, BlockSent
    <3>2. keyspaces' \in Seq(BoundedBlock) /\ message' \in Seq(BoundedBlock)
      BY <2>1, <3>1, TakenOut DEF Formed
    <3> QED
      BY <3>1, <3>2 DEF Formed
  <2>2. CASE i \notin DOMAIN keyspaces
    BY <1>8, <2>2 DEF SendBlock, NextOfList, Formed
  <2> QED
    BY <2>1, <2>2
<1>9. ASSUME UNCHANGED vars
      PROVE  Formed'
  BY <1>9 DEF vars, Formed
<1> QED
  BY <1>1, <1>2, <1>3, <1>4, <1>5, <1>6, <1>7, <1>8, <1>9 DEF Next

LEMMA StaysFormed == Spec => []Formed
BY FormedStart, FormedStep, PTL DEF Spec

(* Whatever a node splits, uses, cuts and sends, its vectors of blocks and *)
(* of indices are well formed and the counts within bounds.                *)
THEOREM SubBlockTypeCorrect == Spec => []TypeOK
<1>1. Formed => TypeOK
  <2> SUFFICES ASSUME Formed PROVE TypeOK
    OBVIOUS
  <2>1. \A s \in Seq(BoundedBlock) : s \in Seq(Block) /\ \A i \in DOMAIN s : s[i].end <= MaxKey
    BY DEF BoundedBlock
  <2> QED
    BY <2>1 DEF Formed, TypeOK
<1> QED
  BY <1>1, StaysFormed, PTL

(* Where the keys are: each in one block of the node, or in one of the     *)
(* message, or handed out.                                                 *)
Spread ==
    \A k \in Key :
      \/ Once(keyspaces, k) /\ Nowhere(message, k) /\ k \notin issued
      \/ Nowhere(keyspaces, k) /\ Once(message, k) /\ k \notin issued
      \/ Nowhere(keyspaces, k) /\ Nowhere(message, k) /\ k \in issued

LEMMA SpreadStart == Init => Spread
<1> SUFFICES ASSUME Init, NEW k \in Key
             PROVE  Once(keyspaces, k) /\ Nowhere(message, k) /\ k \notin issued
  BY DEF Spread
<1>1. keyspaces = << RootBlock >> /\ message = << >> /\ issued = {}
  BY DEF Init
<1>2. k \in Keys(RootBlock)
  <2>1. RootBlock \in BoundedBlock /\ RootBlock.start = 0 /\ RootBlock.end = MaxKey /\ RootBlock.stride = 1
    BY MaxKeyAssumption DEF RootBlock, BoundedBlock, Block
  <2>2. k \in Nat /\ k < MaxKey /\ k = 0 + k * 1
    BY MaxKeyAssumption DEF Key
  <2> QED
    BY <2>1, <2>2, KeysUnbounded
<1>3. DOMAIN keyspaces = {1} /\ keyspaces[1] = RootBlock /\ DOMAIN message = {}
  BY <1>1
<1>4. Once(keyspaces, k)
  BY <1>2, <1>3 DEF Once
<1>5. Nowhere(message, k)
  BY <1>3 DEF Nowhere
<1> QED
  BY <1>1, <1>4, <1>5

LEMMA SpreadStep ==
    ASSUME Formed, Spread, [Next]_vars
    PROVE  Spread'
<1>1. keyspaces \in Seq(BoundedBlock) /\ message \in Seq(BoundedBlock)
  BY DEF Formed
<1>2. ASSUME UNCHANGED << keyspaces, message, issued >>
      PROVE  Spread'
  BY <1>2 DEF Spread, Once, Nowhere
<1>3. ASSUME UNCHANGED << message, issued >>,
             \A k : (Nowhere(keyspaces, k) => Nowhere(keyspaces', k)) /\ (Once(keyspaces, k) => Once(keyspaces', k))
      PROVE  Spread'
  <2>1. ASSUME NEW k \in Key
        PROVE  \/ Once(keyspaces', k) /\ Nowhere(message, k) /\ k \notin issued
               \/ Nowhere(keyspaces', k) /\ Once(message, k) /\ k \notin issued
               \/ Nowhere(keyspaces', k) /\ Nowhere(message, k) /\ k \in issued
    BY <1>3 DEF Spread
  <2>2. message' = message /\ issued' = issued
    BY <1>3
  <2> QED
    BY <2>1, <2>2 DEF Spread
<1>4. ASSUME NEW i \in DOMAIN keyspaces, splitKeyspace(i)
      PROVE  Spread'
  <2>1. keyspaces[i] \in BoundedBlock
    BY <1>1
  <2>2. /\ FirstHalf(keyspaces[i]) \in BoundedBlock /\ SecondHalf(keyspaces[i]) \in BoundedBlock
        /\ Keys(keyspaces[i]) = Keys(FirstHalf(keyspaces[i])) \cup Keys(SecondHalf(keyspaces[i]))
        /\ Keys(FirstHalf(keyspaces[i])) \cap Keys(SecondHalf(keyspaces[i])) = {}
    BY <2>1, PartsBounded, SplitPartitions
  <2>3. /\ keyspaces' = Append([keyspaces EXCEPT ![i] = FirstHalf(keyspaces[i])], SecondHalf(keyspaces[i]))
        /\ UNCHANGED << message, issued >>
    BY <1>4 DEF splitKeyspace
  <2>4. \A k : (Nowhere(keyspaces, k) => Nowhere(keyspaces', k)) /\ (Once(keyspaces, k) => Once(keyspaces', k))
    BY <1>1, <2>2, <2>3, InTwo
  <2> QED
    BY <1>3, <2>3, <2>4
<1>5. ASSUME CutBlock
      PROVE  Spread'
  <2>1. PICK i \in minimumKeyspaceIndex(oldMin) :
             /\ getSize(keyspaces[i]) > Wanted
             /\ keyspaces' = Append([keyspaces EXCEPT ![i].start = Joint(keyspaces[i])],
                                    [keyspaces[i] EXCEPT !.end = Joint(keyspaces[i])])
    BY <1>5 DEF CutBlock
  <2> DEFINE b == keyspaces[i]
             x == [b EXCEPT !.start = Joint(b)]
             y == [b EXCEPT !.end = Joint(b)]
  <2>2. phase = "making" /\ UNCHANGED << message, issued >>
    BY <1>5 DEF CutBlock
  <2>3. /\ x \in BoundedBlock /\ y \in BoundedBlock
        /\ Keys(b) = Keys(x) \cup Keys(y) /\ Keys(x) \cap Keys(y) = {}
        /\ [keyspaces EXCEPT ![i].start = Joint(b)] = [keyspaces EXCEPT ![i] = x]
    BY <2>1, <2>2, CutParts
  <2>4. i \in DOMAIN keyspaces
    BY DEF minimumKeyspaceIndex, Above
  <2>5. keyspaces' = Append([keyspaces EXCEPT ![i] = x], y)
    BY <2>1, <2>3
  <2> HIDE DEF x, y
  <2>6. \A k : (Nowhere(keyspaces, k) => Nowhere(keyspaces', k)) /\ (Once(keyspaces, k) => Once(keyspaces', k))
    BY <1>1, <2>3, <2>4, <2>5, InTwo
  <2> QED
    BY <1>3, <2>2, <2>6
<1>6. ASSUME getNextKey
      PROVE  Spread'
  <2>1. PICK i \in minimumKeyspaceIndex(-1) :
               LET rest == AfterNextKey(keyspaces[i])
               IN  /\ issued' = issued \cup {keyspaces[i].start}
                   /\ keyspaces' = IF isKeyAvailable(rest) THEN [keyspaces EXCEPT ![i] = rest]
                                   ELSE Without(keyspaces, i)
    BY <1>6 DEF getNextKey
  <2> DEFINE b == keyspaces[i]
             first == b.start
             rest == AfterNextKey(b)
  <2>2. i \in DOMAIN keyspaces /\ b \in BoundedBlock /\ isKeyAvailable(b)
    <3>1. -1 \in Int
      OBVIOUS
    <3> QED
      BY <3>1, FoundBlock
  <2>3. message' = message /\ issued' = issued \cup {first}
    BY <1>6, <2>1 DEF getNextKey
  <2>4. rest \in BoundedBlock /\ Keys(rest) = Keys(b) \ {first} /\ first \in Keys(b)
    <3>1. Keys(b) = {first} \cup Keys(rest) /\ \A k \in Keys(rest) : first < k
      BY <2>2, NextKeyRemovesOne
    <3>2. rest \in BoundedBlock
      BY <2>2, PartsBounded
    <3>3. first \in Nat
      BY <2>2, BlockFields DEF BoundedBlock
    <3>4. first \notin Keys(rest)
      BY <3>1, <3>3
    <3> QED
      BY <3>1, <3>2, <3>4
  <2>5. ~isKeyAvailable(rest) => Keys(rest) = {}
    <3> SUFFICES ASSUME ~isKeyAvailable(rest), NEW k \in Keys(rest) PROVE FALSE
      OBVIOUS
    <3>1. rest.start \in Nat /\ rest.end \in Nat
      BY <2>4, BlockFields DEF BoundedBlock
    <3>2. k \in rest.start .. rest.end - 1
      BY DEF Keys
    <3> HIDE DEF rest
    <3> QED
      BY <3>1, <3>2 DEF isKeyAvailable
  <2>6. keyspaces' = IF isKeyAvailable(rest) THEN [keyspaces EXCEPT ![i] = rest] ELSE Without(keyspaces, i)
    BY <2>1
  <2> HIDE DEF first, rest
  <2>7. /\ \A k : Nowhere(keyspaces, k) => Nowhere(keyspaces', k)
        /\ Once(keyspaces, first) => Nowhere(keyspaces', first)
        /\ \A k : k # first /\ Once(keyspaces, k) => Once(keyspaces', k)
    <3>1. CASE isKeyAvailable(rest)
      BY <1>1, <2>2, <2>4, <2>6, <3>1, KeyTaken
    <3>2. CASE ~isKeyAvailable(rest)
      <4>1. Keys(b) = {first}
        BY <2>4, <2>5, <3>2
      <4>2. /\ \A k : Nowhere(keyspaces, k) => Nowhere(keyspaces', k)
            /\ \A k : k \in Keys(b) /\ Once(keyspaces, k) => Nowhere(keyspaces', k)
            /\ \A k : k \notin Keys(b) /\ Once(keyspaces, k) => Once(keyspaces', k)
        BY <1>1, <2>2, <2>6, <3>2, TakenOut
      <4> QED
        BY <4>1, <4>2
    <3> QED
      BY <3>1, <3>2
  <2>8. ~Nowhere(keyspaces, first)
    BY <2>2, <2>4 DEF Nowhere
  <2>9. ASSUME NEW k \in Key
        PROVE  \/ Once(keyspaces', k) /\ Nowhere(message, k) /\ k \notin issued \cup {first}
               \/ Nowhere(keyspaces', k) /\ Once(message, k) /\ k \notin issued \cup {first}
               \/ Nowhere(keyspaces', k) /\ Nowhere(message, k) /\ k \in issued \cup {first}
    <3>1. CASE k = first
      BY <2>7, <2>8, <3>1 DEF Spread
    <3>2. CASE k # first
      BY <2>7, <3>2 DEF Spread
    <3> QED
      BY <3>1, <3>2
  <2> QED
    BY <2>3, <2>9 DEF Spread
<1>7. ASSUME SendBlock
      PROVE  Spread'
  <2> DEFINE i == indices[Len(indices)]
             b == keyspaces[i]
  <2>1. CASE i \in DOMAIN keyspaces
    <3>1. /\ message' = Append(message, b) /\ keyspaces' = Without(keyspaces, i)
          /\ b \in BoundedBlock /\ issued' = issued
      BY <1>7, <2>1, BlockSent
    <3>2. /\ \A k : Nowhere(keyspaces, k) => Nowhere(keyspaces', k)
          /\ \A k : k \in Keys(b) /\ Once(keyspaces, k) => Nowhere(keyspaces', k)
          /\ \A k : k \notin Keys(b) /\ Once(keyspaces, k) => Once(keyspaces', k)
      BY <1>1, <2>1, <3>1, TakenOut
    <3>3. /\ \A k : k \in Keys(b) /\ Nowhere(message, k) => Once(message', k)
          /\ \A k : k \notin Keys(b) /\ Nowhere(message, k) => Nowhere(message', k)
          /\ \A k : k \notin Keys(b) /\ Once(message, k) => Once(message', k)
      BY <1>1, <3>1, PutIn
    <3>4. \A k : k \in Keys(b) => ~Nowhere(keyspaces, k)
      BY <2>1 DEF Nowhere
    <3> HIDE DEF b
    <3>5. ASSUME NEW k \in Key
          PROVE  \/ Once(keyspaces', k) /\ Nowhere(message', k) /\ k \notin issued
                 \/ Nowhere(keyspaces', k) /\ Once(message', k) /\ k \notin issued
                 \/ Nowhere(keyspaces', k) /\ Nowhere(message', k) /\ k \in issued
      BY <3>2, <3>3, <3>4 DEF Spread
    <3> QED
      BY <3>1, <3>5 DEF Spread
  <2>2. CASE i \notin DOMAIN keyspaces
    <3>1. UNCHANGED << keyspaces, message, issued >>
      BY <1>7, <2>2 DEF SendBlock, NextOfList
    <3> QED
      BY <1>2, <3>1
  <2> QED
    BY <2>1, <2>2
<1>8. ASSUME ShareBlocks \/ MakeSubBlock \/ ListBlock \/ NotEnough \/ UNCHANGED vars
      PROVE  Spread'
  <2>1. UNCHANGED << keyspaces, message, issued >>
    BY <1>8 DEF ShareBlocks, MakeSubBlock, ListBlock, NotEnough, vars
  <2> QED
    BY <1>2, <2>1
<1> QED
  BY <1>4, <1>5, <1>6, <1>7, <1>8 DEF Next

LEMMA StaysSpread == Spec => []Spread
<1>1. Init => Formed /\ Spread
  BY FormedStart, SpreadStart
<1>2. Formed /\ Spread /\ [Next]_vars => (Formed /\ Spread)'
  BY FormedStep, SpreadStep
<1> QED
  BY <1>1, <1>2, PTL DEF Spec

(* However the node splits, cuts and sends its blocks, every key stays in  *)
(* exactly one place.                                                      *)
THEOREM KeysStayOnce == Spec => []EachKeyOnce
<1>1. Spread => EachKeyOnce
  <2> SUFFICES ASSUME Spread, NEW k \in Key PROVE Places(k) = 1
    BY DEF EachKeyOnce
  <2> DEFINE A == { i \in DOMAIN keyspaces : k \in Keys(keyspaces[i]) }
             B == { i \in DOMAIN message : k \in Keys(message[i]) }
  <2>1. Once(keyspaces, k) => Cardinality(A) = 1
    <3> SUFFICES ASSUME Once(keyspaces, k)
                 PROVE  \E m : A = {m}
      BY FS_Singleton
    <3>1. PICK m \in DOMAIN keyspaces : \A q \in DOMAIN keyspaces : k \in Keys(keyspaces[q]) <=> q = m
      BY Zenon DEF Once
    <3>2. A = {m}
      BY <3>1
    <3> QED
      BY <3>2
  <2>2. Once(message, k) => Cardinality(B) = 1
    <3> SUFFICES ASSUME Once(message, k)
                 PROVE  \E m : B = {m}
      BY FS_Singleton
    <3>1. PICK m \in DOMAIN message : \A q \in DOMAIN message : k \in Keys(message[q]) <=> q = m
      BY Zenon DEF Once
    <3>2. B = {m}
      BY <3>1
    <3> QED
      BY <3>2
  <2>3. Nowhere(keyspaces, k) => Cardinality(A) = 0
    <3>1. Nowhere(keyspaces, k) => A = {}
      BY DEF Nowhere
    <3> QED
      BY <3>1, FS_EmptySet
  <2>4. Nowhere(message, k) => Cardinality(B) = 0
    <3>1. Nowhere(message, k) => B = {}
      BY DEF Nowhere
    <3> QED
      BY <3>1, FS_EmptySet
  <2>5. Places(k) = Cardinality(A) + Cardinality(B) + (IF k \in issued THEN 1 ELSE 0)
    BY DEF Places
  <2> HIDE DEF A, B
  <2> QED
    BY <2>1, <2>2, <2>3, <2>4, <2>5 DEF Spread
<1> QED
  BY <1>1, StaysSpread, PTL

(* What block sharing has listed is still there, in ascending positions,   *)
(* and what it has sent is the rest of the list, from the back.            *)
Listing ==
    /\ phase = "idle" => call = "none" /\ listed = << >> /\ indices = << >>
    /\ phase \in {"idle", "making"} => message = << >>
    /\ call = "none" => phase = "idle"
    /\ call = "sharing" =>
         /\ phase \in {"sending", "sent"}
         /\ \A m, n \in 1 .. Len(indices) : m < n => indices[m] < indices[n]
         /\ \A m \in 1 .. Len(indices) : indices[m] \in DOMAIN keyspaces /\ listed[m] = keyspaces[indices[m]]
         /\ Len(message) + Len(indices) = Len(listed)
         /\ \A n \in 1 .. Len(message) : message[n] = listed[Len(listed) + 1 - n]
         /\ phase = "sent" => indices = << >>

(* Sending one block of the list leaves the others where they are listed.  *)
LEMMA ListingSent ==
    ASSUME Formed, Listing, call = "sharing", SendBlock
    PROVE  Listing'
<1> DEFINE l == Len(indices)
           i == indices[l]
           b == keyspaces[i]
<1>1. /\ indices \in Seq(Nat \ {0}) /\ keyspaces \in Seq(BoundedBlock) /\ message \in Seq(BoundedBlock)
      /\ listed \in Seq(BoundedBlock)
  BY DEF Formed
<1>2. l \in Nat \ {0} /\ i \in DOMAIN keyspaces /\ listed[l] = b
  <2>1. indices # << >>
    BY DEF SendBlock
  <2>2. l \in 1 .. l /\ l \in Nat \ {0}
    BY <1>1, <2>1
  <2> QED
    BY <2>2 DEF Listing
<1>3. /\ message' = Append(message, b) /\ keyspaces' = Without(keyspaces, i)
      /\ indices' \in Seq(Nat \ {0}) /\ Len(indices') = l - 1
      /\ \A m \in 1 .. l - 1 : indices'[m] = indices[m]
      /\ phase' = IF indices' = << >> THEN "sent" ELSE "sending"
      /\ UNCHANGED << call, listed >> /\ b \in BoundedBlock
  BY <1>2, BlockSent
<1> HIDE DEF b, i
<1>4. /\ keyspaces' \in Seq(BoundedBlock) /\ Len(keyspaces') = Len(keyspaces) - 1
      /\ \A k \in 1 .. i - 1 : keyspaces'[k] = keyspaces[k]
  <2>1. i \in 1 .. Len(keyspaces) /\ keyspaces' = Without(keyspaces, i)
    BY <1>1, <1>2, <1>3
  <2> QED
    BY <1>1, <2>1, OneLess DEF Without
<1>5. ASSUME NEW m \in 1 .. l - 1
      PROVE  indices'[m] \in DOMAIN keyspaces' /\ listed[m] = keyspaces'[indices'[m]]
  <2>1. m \in 1 .. l /\ l \in 1 .. l /\ m < l
    BY <1>2
  <2>2. indices[m] < i /\ indices[m] \in DOMAIN keyspaces /\ listed[m] = keyspaces[indices[m]]
    BY <2>1 DEF Listing, i
  <2>3. indices[m] \in 1 .. i - 1 /\ indices[m] \in 1 .. Len(keyspaces) - 1
    BY <1>1, <1>2, <2>2
  <2> QED
    BY <1>3, <1>4, <2>2, <2>3
<1>6. \A m, n \in 1 .. l - 1 : m < n => indices'[m] < indices'[n]
  <2>1. \A m \in 1 .. l - 1 : m \in 1 .. l
    BY <1>2
  <2> QED
    BY <1>3, <2>1 DEF Listing
<1>7. Len(message) + l = Len(listed) /\ Len(message) \in Nat /\ Len(listed) \in Nat
  BY <1>1 DEF Listing
<1>8. Len(message') = Len(message) + 1 /\ Len(message') + Len(indices') = Len(listed)
  <2>1. message' = Append(message, b) /\ b \in BoundedBlock /\ Len(indices') = l - 1
    BY <1>3
  <2>2. Len(message') = Len(message) + 1
    BY <1>1, <2>1
  <2> QED
    BY <1>2, <1>7, <2>1, <2>2
<1>9. ASSUME NEW n \in 1 .. Len(message')
      PROVE  message'[n] = listed[Len(listed) + 1 - n]
  <2>1. CASE n \in 1 .. Len(message)
    BY <1>1, <1>3, <2>1 DEF Listing
  <2>2. CASE n = Len(message) + 1
    <3>1. Len(listed) + 1 - n = l
      BY <1>2, <1>7, <2>2
    <3>2. message'[n] = b
      BY <1>1, <1>3, <2>2
    <3> QED
      BY <1>2, <3>1, <3>2
  <2> QED
    BY <1>7, <1>8, <2>1, <2>2
<1>10. phase' \in {"sending", "sent"} /\ (phase' = "sent" => indices' = << >>)
  BY <1>3
<1>11. listed' = listed /\ call' = "sharing" /\ Len(indices') = l - 1
  BY <1>3
<1> QED
  BY <1>5, <1>6, <1>8, <1>9, <1>10, <1>11 DEF Listing

LEMMA ListingStep ==
    ASSUME Formed, Listing, [Next]_vars
    PROVE  Listing'
<1>1. ASSUME UNCHANGED << phase, call, indices, listed, message >>, phase = "idle"
      PROVE  Listing'
  BY <1>1 DEF Listing
<1>2. ASSUME NEW i \in DOMAIN keyspaces, splitKeyspace(i)
      PROVE  Listing'
  BY <1>1, <1>2 DEF splitKeyspace
<1>3. ASSUME getNextKey
      PROVE  Listing'
  BY <1>1, <1>3 DEF getNextKey
<1>4. ASSUME ShareBlocks
      PROVE  Listing'
  <2>1. /\ \A m \in 1 .. Len(indices') : indices'[m] \in DOMAIN keyspaces
        /\ \A m, n \in 1 .. Len(indices') : m < n => indices'[m] < indices'[n]
        /\ Len(indices') \in Nat /\ Len(listed') = Len(indices')
        /\ \A m \in 1 .. Len(indices') : listed'[m] = keyspaces[indices'[m]]
    BY <1>4, BlocksListed
  <2>2. phase' = "sending" /\ call' = "sharing" /\ keyspaces' = keyspaces /\ message' = << >>
    BY <1>4 DEF ShareBlocks, Listing
  <2>3. Len(message') = 0
    BY <2>2
  <2> QED
    BY <2>1, <2>2, <2>3 DEF Listing
<1>5. ASSUME MakeSubBlock
      PROVE  Listing'
  BY <1>5 DEF MakeSubBlock, Listing
<1>6. ASSUME ListBlock \/ CutBlock \/ NotEnough
      PROVE  Listing'
  <2>1. phase = "making" /\ phase' \in {"making", "sending", "thrown"} /\ call' = call /\ message' = message
    BY <1>6 DEF ListBlock, CutBlock, NotEnough
  <2>2. call # "sharing" /\ call # "none" /\ message' = << >>
    BY <2>1 DEF Listing
  <2> QED
    BY <2>1, <2>2 DEF Listing
<1>7. ASSUME SendBlock
      PROVE  Listing'
  <2>1. CASE call = "sharing"
    BY <1>7, <2>1, ListingSent
  <2>2. CASE call # "sharing"
    <3>1. phase = "sending" /\ phase' \in {"sending", "sent", "undefined"} /\ call' = call
      BY <1>7, Zenon DEF SendBlock
    <3> QED
      BY <2>2, <3>1 DEF Listing
  <2> QED
    BY <2>1, <2>2
<1>8. ASSUME UNCHANGED vars
      PROVE  Listing'
  BY <1>8 DEF vars, Listing
<1> QED
  BY <1>2, <1>3, <1>4, <1>5, <1>6, <1>7, <1>8 DEF Next

LEMMA StaysListing == Spec => []Listing
<1>1. Init => Formed /\ Listing
  <2>1. Init => Listing
    BY DEF Init, Listing
  <2> QED
    BY <2>1, FormedStart
<1>2. Formed /\ Listing /\ [Next]_vars => (Formed /\ Listing)'
  BY FormedStep, ListingStep
<1> QED
  BY <1>1, <1>2, PTL DEF Spec

(* Block sharing sends the blocks it listed, from the last to the first,   *)
(* and never asks for a position that is not there.                        *)
THEOREM SentAsListed == Spec => []SendsWhatIsListed
<1>1. Formed /\ Listing => SendsWhatIsListed
  <2> SUFFICES ASSUME Formed, Listing, call = "sharing"
               PROVE  phase # "undefined" /\ (phase = "sent" => message = SE!Reverse(listed))
    BY DEF SendsWhatIsListed
  <2>1. phase # "undefined"
    BY DEF Listing
  <2>2. ASSUME phase = "sent" PROVE message = SE!Reverse(listed)
    <3>1. message \in Seq(BoundedBlock) /\ listed \in Seq(BoundedBlock)
      BY DEF Formed
    <3>2. /\ indices = << >> /\ Len(message) + Len(indices) = Len(listed)
          /\ \A n \in 1 .. Len(message) : message[n] = listed[Len(listed) + 1 - n]
      BY <2>2 DEF Listing
    <3>3. Len(message) = Len(listed) /\ Len(listed) \in Nat
      BY <3>1, <3>2
    <3>4. message = [n \in 1 .. Len(listed) |-> listed[Len(listed) + 1 - n]]
      BY <3>1, <3>2, <3>3
    <3>5. \A n \in 1 .. Len(listed) : Len(listed) + 1 - n = (Len(listed) - n) + 1
      BY <3>3
    <3> QED
      BY <3>4, <3>5 DEF SE!Reverse
  <2> QED
    BY <2>1, <2>2
<1>2. Spec => [](Formed /\ Listing)
  BY StaysFormed, StaysListing, PTL
<1> QED
  BY <1>1, <1>2, PTL

(* What makeSubBlock lists: blocks that start one after the other and      *)
(* share no key.                                                           *)
Apart(v) ==
    \A m, n \in 1 .. Len(v) :
      m < n => v[m].start < v[n].start /\ Keys(v[m]) \cap Keys(v[n]) = {}

KeysIn(v) == UNION { Keys(v[q]) : q \in DOMAIN v }

LEMMA OneMore ==
    ASSUME NEW v \in Seq(BoundedBlock), Apart(v), NEW y \in BoundedBlock,
           \A m \in 1 .. Len(v) : v[m].start < y.start /\ Keys(v[m]) \cap Keys(y) = {},
           NEW u \in Nat, u <= Cardinality(KeysIn(v)),
           NEW d \in Nat, y.start + d * y.stride <= y.end
    PROVE  Apart(Append(v, y)) /\ u + d <= Cardinality(KeysIn(Append(v, y)))
<1> DEFINE l == Len(v)
           w == Append(v, y)
<1>1. l \in Nat /\ DOMAIN v = 1..l
  OBVIOUS
<1>2. Len(w) = l + 1 /\ DOMAIN w = 1 .. l + 1 /\ w[l + 1] = y /\ \A m \in 1..l : w[m] = v[m]
  BY <1>1
<1> HIDE DEF w
<1>3. Apart(w)
  <2> SUFFICES ASSUME NEW m \in 1 .. l + 1, NEW n \in 1 .. l + 1, m < n
               PROVE  w[m].start < w[n].start /\ Keys(w[m]) \cap Keys(w[n]) = {}
    BY <1>2 DEF Apart
  <2>1. m \in 1..l
    BY <1>1
  <2>2. CASE n = l + 1
    BY <1>2, <2>1, <2>2
  <2>3. CASE n \in 1..l
    BY <1>2, <2>1, <2>3 DEF Apart
  <2> QED
    BY <1>1, <2>2, <2>3
<1>4. KeysIn(w) = KeysIn(v) \cup Keys(y)
  BY <1>1, <1>2 DEF KeysIn
<1>5. KeysIn(v) \cap Keys(y) = {}
  BY <1>1 DEF KeysIn
<1>6. IsFiniteSet(KeysIn(v)) /\ IsFiniteSet(Keys(y))
  <2>1. KeysIn(v) \subseteq Key
    <3>1. \A m \in 1..l : v[m] \in BoundedBlock
      BY <1>1
    <3> QED
      BY <1>1, <3>1, KeysCounted DEF KeysIn
  <2>2. IsFiniteSet(Key)
    BY MaxKeyAssumption, FS_Interval DEF Key
  <2> QED
    BY <2>1, <2>2, FS_Subset, KeysCounted
<1>7. Cardinality(KeysIn(w)) = Cardinality(KeysIn(v)) + Cardinality(Keys(y))
  <2> DEFINE S == KeysIn(v)
             T == Keys(y)
  <2>1. IsFiniteSet(S) /\ IsFiniteSet(T) /\ S \cap T = {} /\ KeysIn(w) = S \cup T
    BY <1>4, <1>5, <1>6
  <2> HIDE DEF S, T
  <2>2. Cardinality(S \cup T) = Cardinality(S) + Cardinality(T) - Cardinality(S \cap T)
    BY <2>1, FS_Union
  <2>3. Cardinality(S \cap T) = 0
    BY <2>1, FS_EmptySet
  <2>4. Cardinality(S) \in Nat /\ Cardinality(T) \in Nat
    BY <2>1, FS_CardinalityType
  <2>5. Cardinality(KeysIn(w)) = Cardinality(S) + Cardinality(T)
    BY <2>1, <2>2, <2>3, <2>4
  <2> QED
    BY <2>5 DEF S, T
<1>8. d <= Cardinality(Keys(y))
  BY KeysCounted
<1>9. u + d <= Cardinality(KeysIn(w))
  <2>1. Cardinality(KeysIn(v)) \in Nat /\ Cardinality(Keys(y)) \in Nat
    BY <1>6, FS_CardinalityType
  <2> QED
    BY <1>7, <1>8, <2>1
<1> QED
  BY <1>3, <1>9 DEF w

(* Starts of blocks fit in an int; one that does not turns negative in     *)
(* makeSubBlock, which may then list a block twice.                        *)
StartsAreInts == \A q \in DOMAIN keyspaces : keyspaces[q].start <= IntMax

(* While it looks for blocks, makeSubBlock has listed blocks of the node   *)
(* that start at oldMin or before, with as many keys as it counts at least.*)
Found ==
    call = "subBlock" =>
      /\ phase = "making" =>
           \A m \in 1 .. Len(listed) :
             listed[m].start <= oldMin /\ \E p \in DOMAIN keyspaces : listed[m] = keyspaces[p]
      /\ Apart(listed)
      /\ used <= Cardinality(KeysIn(listed))
      /\ phase \notin {"making", "thrown"} => used >= Wanted

(* The next block, or a part of it, goes on the list.                      *)
LEMMA NextListed ==
    ASSUME Formed, Spread, Found, phase = "making", call = "subBlock",
           NEW i \in minimumKeyspaceIndex(oldMin), NEW y \in BoundedBlock,
           y.start = keyspaces[i].start, Keys(y) \subseteq Keys(keyspaces[i]),
           NEW d \in Nat, y.start + d * y.stride <= y.end
    PROVE  /\ Apart(Append(listed, y))
           /\ used + d <= Cardinality(KeysIn(Append(listed, y)))
           /\ \A m \in 1 .. Len(listed) : listed[m].start < y.start
<1>1. keyspaces \in Seq(BoundedBlock) /\ listed \in Seq(BoundedBlock) /\ used \in Nat
  BY DEF Formed
<1>2. oldMin \in Int
  BY MaxKeyAssumption DEF Formed
<1>3. i \in DOMAIN keyspaces /\ keyspaces[i].start > oldMin /\ keyspaces[i] \in BoundedBlock
  BY <1>2, FoundBlock
<1>4. Apart(listed) /\ used <= Cardinality(KeysIn(listed))
  BY DEF Found
<1>5. ASSUME NEW m \in 1 .. Len(listed)
      PROVE  listed[m].start < y.start /\ Keys(listed[m]) \cap Keys(y) = {}
  <2>1. PICK p \in DOMAIN keyspaces : listed[m] = keyspaces[p]
    BY DEF Found
  <2>2. listed[m].start <= oldMin
    BY DEF Found
  <2>3. listed[m] \in BoundedBlock
    BY <1>1
  <2>4. listed[m].start \in Nat /\ y.start \in Nat
    BY <2>3, BlockFields DEF BoundedBlock
  <2>5. listed[m].start < y.start
    BY <1>2, <1>3, <2>2, <2>4
  <2>6. p # i
    BY <1>3, <2>1, <2>4, <2>5
  <2>7. ASSUME NEW k \in Keys(keyspaces[p]), k \in Keys(keyspaces[i])
        PROVE  FALSE
    <3>1. k \in Key
      BY <1>3, <2>7, KeysCounted
    <3>2. ~Nowhere(keyspaces, k)
      BY DEF Nowhere
    <3>3. Once(keyspaces, k)
      BY <3>1, <3>2 DEF Spread
    <3>4. PICK n \in DOMAIN keyspaces : \A q \in DOMAIN keyspaces : k \in Keys(keyspaces[q]) <=> q = n
      BY <3>3, Zenon DEF Once
    <3> QED
      BY <1>3, <2>6, <2>7, <3>4
  <2> QED
    BY <2>1, <2>5, <2>7
<1> QED
  BY <1>1, <1>4, <1>5, OneMore

LEMMA FoundStep ==
    ASSUME Formed, Spread, Listing, Found, StartsAreInts, [Next]_vars
    PROVE  Found'
<1>1. ASSUME call' # "subBlock"
      PROVE  Found'
  BY <1>1 DEF Found
<1>2. ASSUME phase = "idle", call' = call
      PROVE  Found'
  <2>1. call' # "subBlock"
    BY <1>2 DEF Listing
  <2> QED
    BY <1>1, <2>1
<1>3. ASSUME phase = "making"
      PROVE  call = "subBlock"
  BY <1>3 DEF Formed, Listing
<1>4. ASSUME MakeSubBlock
      PROVE  Found'
  <2>1. listed' = << >> /\ used' = 0 /\ phase' = "making"
    BY <1>4 DEF MakeSubBlock, Formed, Listing
  <2>2. KeysIn(<< >>) = {} /\ Apart(<< >>)
    BY DEF KeysIn, Apart
  <2>3. Cardinality({}) = 0
    BY FS_EmptySet
  <2> QED
    BY <2>1, <2>2, <2>3 DEF Found
<1>5. ASSUME ListBlock
      PROVE  Found'
  <2>1. PICK i \in minimumKeyspaceIndex(oldMin) :
         /\ listed' = Append(listed, keyspaces[i])
         /\ used' = used + getSize(keyspaces[i])
         /\ oldMin' = AsInt(keyspaces[i].start)
    BY <1>5 DEF ListBlock
  <2> DEFINE b == keyspaces[i]
             d == getSize(b)
  <2>2. phase = "making" /\ phase' = (IF used' < Wanted THEN "making" ELSE "sending")
        /\ keyspaces' = keyspaces /\ call' = call
    BY <1>5 DEF ListBlock
  <2>3. call = "subBlock"
    BY <1>3, <2>2
  <2>4. oldMin \in Int /\ listed \in Seq(BoundedBlock) /\ used \in Nat
    BY MaxKeyAssumption DEF Formed
  <2>5. i \in DOMAIN keyspaces /\ b \in BoundedBlock /\ isKeyAvailable(b) /\ b.start > oldMin
    BY <2>4, FoundBlock
  <2>6. d \in Nat /\ b.start + d * b.stride <= b.end /\ b.start \in Nat
    <3>1. b.start \in Key
      BY <2>5, Sizes
    <3> QED
      BY <2>5, <3>1, Sizes DEF Key
  <2>7. oldMin' = b.start
    BY <2>1, <2>5 DEF AsInt, StartsAreInts
  <2>8. listed' = Append(listed, b) /\ used' = used + d
    BY <2>1
  <2> HIDE DEF b, d
  <2>9. /\ Apart(Append(listed, b)) /\ used + d <= Cardinality(KeysIn(Append(listed, b)))
        /\ \A m \in 1 .. Len(listed) : listed[m].start < b.start
    BY <2>2, <2>3, <2>5, <2>6, NextListed DEF b
  <2>10. ASSUME NEW m \in 1 .. Len(listed')
         PROVE  listed'[m].start <= oldMin' /\ \E p \in DOMAIN keyspaces' : listed'[m] = keyspaces'[p]
    <3>1. CASE m \in 1 .. Len(listed)
      <4>1. listed'[m] = listed[m] /\ listed[m] \in BoundedBlock
        BY <2>4, <2>8, <3>1
      <4>2. listed[m].start <= b.start
        BY <2>6, <2>9, <3>1, <4>1, BlockFields DEF BoundedBlock
      <4>3. \E p \in DOMAIN keyspaces : listed[m] = keyspaces[p]
        BY <2>2, <2>3, <3>1 DEF Found
      <4> QED
        BY <2>2, <2>7, <4>1, <4>2, <4>3
    <3>2. CASE m = Len(listed) + 1
      <4>1. listed'[m] = b
        BY <2>4, <2>5, <2>8, <3>2
      <4> QED
        BY <2>2, <2>5, <2>6, <2>7, <4>1 DEF b
    <3> QED
      BY <2>4, <2>5, <2>8, <3>1, <3>2
  <2>11. phase' \notin {"making", "thrown"} => used' >= Wanted
    BY <2>2, <2>4, <2>6, <2>8, SubBlockAssumption
  <2> QED
    BY <2>8, <2>9, <2>10, <2>11 DEF Found
<1>6. ASSUME CutBlock
      PROVE  Found'
  <2>1. PICK i \in minimumKeyspaceIndex(oldMin) :
             /\ getSize(keyspaces[i]) > Wanted
             /\ listed' = Append(listed, [keyspaces[i] EXCEPT !.end = Joint(keyspaces[i])])
    BY <1>6 DEF CutBlock
  <2> DEFINE b == keyspaces[i]
             x == [b EXCEPT !.start = Joint(b)]
             y == [b EXCEPT !.end = Joint(b)]
             d == Wanted - used
  <2>2. phase = "making" /\ phase' = "sending" /\ used' = Wanted /\ call' = call
    BY <1>6 DEF CutBlock
  <2>3. call = "subBlock"
    BY <1>3, <2>2
  <2>4. /\ y \in BoundedBlock /\ Keys(b) = Keys(x) \cup Keys(y)
        /\ y.start = b.start /\ y.stride = b.stride /\ y.end = b.start + d * b.stride
    BY <2>1, <2>2, CutParts
  <2>5. d \in Nat /\ used + d = Wanted /\ used \in Nat
    BY <2>2, SubBlockAssumption DEF Formed
  <2>6. listed' = Append(listed, y)
    BY <2>1
  <2> HIDE DEF x, y, d
  <2>7. y.start + d * y.stride <= y.end
    <3>1. y.end \in Nat
      BY <2>4, BlockFields DEF BoundedBlock
    <3> QED
      BY <2>4, <3>1
  <2>8. Apart(Append(listed, y)) /\ used + d <= Cardinality(KeysIn(Append(listed, y)))
    BY <2>2, <2>3, <2>4, <2>5, <2>7, NextListed
  <2>9. Wanted \in Nat
    BY SubBlockAssumption
  <2> QED
    BY <2>2, <2>5, <2>6, <2>8, <2>9 DEF Found
<1>7. ASSUME NotEnough \/ SendBlock
      PROVE  Found'
  <2>1. /\ \/ phase = "making" /\ phase' = "thrown"
           \/ phase = "sending" /\ phase' \in {"sending", "sent", "undefined"}
        /\ UNCHANGED << call, listed, used >>
    <3>1. ASSUME NotEnough
          PROVE  phase = "making" /\ phase' = "thrown" /\ UNCHANGED << call, listed, used >>
      BY <3>1 DEF NotEnough
    <3>2. ASSUME SendBlock
          PROVE  phase = "sending" /\ phase' \in {"sending", "sent", "undefined"} /\ UNCHANGED << call, listed, used >>
      BY <3>2, Zenon DEF SendBlock
    <3> QED
      BY <1>7, <3>1, <3>2
  <2> QED
    BY <2>1 DEF Found
<1>8. ASSUME UNCHANGED vars
      PROVE  Found'
  BY <1>8 DEF vars, Found
<1>9. ASSUME ShareBlocks
      PROVE  Found'
  BY <1>1, <1>9 DEF ShareBlocks
<1>10. ASSUME getNextKey \/ \E i \in DOMAIN keyspaces : splitKeyspace(i)
       PROVE  Found'
  BY <1>2, <1>10 DEF getNextKey, splitKeyspace
<1> QED
  BY <1>4, <1>5, <1>6, <1>7, <1>8, <1>9, <1>10 DEF Next

(* As long as every block starts within the ints, the blocks makeSubBlock  *)
(* lists are different and have at least the keys it was asked for.        *)
THEOREM EnoughIsListed == Spec /\ []StartsAreInts => []EnoughListed
<1>1. Init => Found
  <2> SUFFICES ASSUME Init PROVE Found
    OBVIOUS
  <2>1. call # "subBlock"
    BY DEF Init
  <2> QED
    BY <2>1 DEF Found
<1>2. Formed /\ Found => EnoughListed
  <2> SUFFICES ASSUME Formed, Found, call = "subBlock", phase = "sending"
               PROVE  SE!IsInjective(listed) /\ Cardinality(KeysListed) >= Wanted
    BY DEF EnoughListed
  <2>1. Apart(listed) /\ used <= Cardinality(KeysIn(listed)) /\ used >= Wanted
    BY DEF Found
  <2>2. listed \in Seq(BoundedBlock) /\ used \in Nat /\ Wanted \in Nat
    BY SubBlockAssumption DEF Formed
  <2>3. SE!IsInjective(listed)
    <3> SUFFICES ASSUME NEW m \in 1 .. Len(listed), NEW n \in 1 .. Len(listed), listed[m] = listed[n]
                 PROVE  m = n
      BY <2>2 DEF SE!IsInjective
    <3>1. listed[m] \in BoundedBlock
      BY <2>2
    <3>2. listed[m].start \in Nat
      BY <3>1, BlockFields DEF BoundedBlock
    <3>3. m < n => listed[m].start < listed[n].start
      BY <2>1 DEF Apart
    <3>4. n < m => listed[n].start < listed[m].start
      BY <2>1 DEF Apart
    <3>5. ~(m < n) /\ ~(n < m)
      BY <3>2, <3>3, <3>4
    <3> QED
      BY <2>2, <3>5
  <2>4. KeysListed = KeysIn(listed)
    BY DEF KeysListed, KeysIn
  <2>5. Cardinality(KeysIn(listed)) \in Nat
    <3>1. KeysIn(listed) \subseteq Key
      <4>1. \A m \in DOMAIN listed : listed[m] \in BoundedBlock
        BY <2>2
      <4> QED
        BY <4>1, KeysCounted DEF KeysIn
    <3>2. IsFiniteSet(Key)
      BY MaxKeyAssumption, FS_Interval DEF Key
    <3> QED
      BY <3>1, <3>2, FS_Subset, FS_CardinalityType
  <2> QED
    BY <2>1, <2>2, <2>3, <2>4, <2>5
<1>3. Formed /\ Spread /\ Listing /\ Found /\ StartsAreInts /\ [Next]_vars => Found'
  BY FoundStep
<1> QED
  BY <1>1, <1>2, <1>3, StaysFormed, StaysSpread, StaysListing, PTL DEF Spec
=============================================================================
