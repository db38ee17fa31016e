--------------------------- MODULE KeyspaceProofs ---------------------------
(***************************************************************************)
(* Facts about the data of the models.  What splitting a block, cutting a  *)
(* sub-block from it and taking a key do to the keys, for blocks of every  *)
(* size: the conservation of keys rests on it.  Then the arithmetic and    *)
(* the facts about sums that several models need.                          *)
(***************************************************************************)
EXTENDS Keyspace, FiniteSetTheorems, WellFoundedInduction, TLAPS

(* Blocks that the program makes end at UINT_MAX or below. *)
BoundedBlock == { b \in Block : b.end <= MaxKey }

LEMMA BlockFields ==
    ASSUME NEW b \in Block
    PROVE  /\ b.start \in Nat /\ b.end \in Nat /\ b.stride \in Nat \ {0}
           /\ FirstHalf(b) = [start |-> b.start, end |-> b.end, stride |-> 2 * b.stride]
           /\ SecondHalf(b) = [start |-> b.start + b.stride, end |-> b.end, stride |-> 2 * b.stride]
           /\ AfterNextKey(b) = [start |-> b.start + b.stride, end |-> b.end, stride |-> b.stride]
<1>1. b.start \in Nat /\ b.end \in Nat /\ b.stride \in Nat \ {0}
  BY DEF Block
<1>2. PICK x \in Nat, y \in Nat, z \in Nat \ {0} : b = [start |-> x, end |-> y, stride |-> z]
  BY Zenon DEF Block
<1>3. FirstHalf(b) = [start |-> b.start, end |-> b.end, stride |-> 2 * b.stride]
  BY <1>2 DEF FirstHalf
<1>4. SecondHalf(b) = [start |-> b.start + b.stride, end |-> b.end, stride |-> 2 * b.stride]
  <2>1. SecondHalf(b) = [FirstHalf(b) EXCEPT !.start = b.start + b.stride]
    BY <1>2 DEF SecondHalf, FirstHalf
  <2> QED
    BY <1>3, <2>1
<1>5. AfterNextKey(b) = [start |-> b.start + b.stride, end |-> b.end, stride |-> b.stride]
  BY <1>2 DEF AfterNextKey
<1> QED
  BY <1>1, <1>3, <1>4, <1>5

LEMMA ProductAtLeast ==
    ASSUME NEW i \in Nat, NEW s \in Nat \ {0}
    PROVE  i * s \in Nat /\ i <= i * s
<1>1. i * s = i + i * (s - 1)
  OBVIOUS
<1>2. i * (s - 1) \in Nat
  OBVIOUS
<1> QED
  BY <1>1, <1>2

LEMMA ZeroProduct ==
    ASSUME NEW x \in Int, NEW s \in Nat \ {0}, x * s = 0
    PROVE  x = 0
<1>1. ASSUME x > 0 PROVE FALSE
  <2>1. x <= x * s
    BY <1>1, ProductAtLeast
  <2> QED
    BY <1>1, <2>1
<1>2. ASSUME x < 0 PROVE FALSE
  <2>1. -x \in Nat /\ -x <= (-x) * s
    BY <1>2, ProductAtLeast
  <2>2. (-x) * s = -(x * s)
    OBVIOUS
  <2> QED
    BY <1>2, <2>1, <2>2
<1> QED
  BY <1>1, <1>2

LEMMA SameProduct ==
    ASSUME NEW x \in Int, NEW y \in Int, NEW s \in Nat \ {0}, x * s = y * s
    PROVE  x = y
<1>1. (x - y) * s = x * s - y * s
  OBVIOUS
<1>2. x * s \in Int /\ y * s \in Int
  OBVIOUS
<1>3. (x - y) * s = 0
  BY <1>1, <1>2
<1>4. x - y \in Int
  OBVIOUS
<1>5. x - y = 0
  BY <1>3, <1>4, ZeroProduct
<1> QED
  BY <1>5

LEMMA TimesMonotone ==
    ASSUME NEW x \in Int, NEW y \in Int, NEW c \in Nat, x <= y
    PROVE  x * c \in Int /\ y * c \in Int /\ x * c <= y * c
<1>1. (y - x) * c = y * c - x * c
  OBVIOUS
<1>2. (y - x) * c \in Nat
  <2> DEFINE d == y - x
  <2>1. d \in Nat
    OBVIOUS
  <2> HIDE DEF d
  <2>2. d * c \in Nat
    BY <2>1
  <2> QED
    BY <2>2 DEF d
<1>3. x * c \in Int /\ y * c \in Int
  OBVIOUS
<1> QED
  BY <1>1, <1>2, <1>3

LEMMA CancelFactor ==
    ASSUME NEW x \in Int, NEW y \in Int, NEW c \in Nat \ {0}, x * c <= y * c
    PROVE  x <= y
<1> SUFFICES ASSUME y + 1 <= x PROVE FALSE
  OBVIOUS
<1>1. y + 1 \in Int /\ (y + 1) * c <= x * c /\ x * c \in Int /\ y * c \in Int
  BY TimesMonotone
<1>2. (y + 1) * c = y * c + c
  OBVIOUS
<1> QED
  BY <1>1, <1>2

LEMMA Quotient ==
    ASSUME NEW a \in Nat, NEW b \in Nat \ {0}
    PROVE  a \div b \in Nat /\ (a \div b) * b <= a /\ a < (a \div b + 1) * b
<1>1. a \div b \in Int
  OBVIOUS
<1>2. (a \div b) * b <= a
  OBVIOUS
<1>3. a < (a \div b + 1) * b
  OBVIOUS
<1>4. a \div b >= 0
  OBVIOUS
<1> QED
  BY <1>1, <1>2, <1>3, <1>4

(* The bound on the multiple in Keys says nothing for a bounded block. *)
LEMMA KeysUnbounded ==
    ASSUME NEW b \in BoundedBlock, NEW k
    PROVE  k \in Keys(b) <=>
             k \in Nat /\ k < b.end /\ \E i \in Nat : k = b.start + i * b.stride
<1>1. b.start \in Nat /\ b.end \in Nat /\ b.end <= MaxKey /\ b.stride \in Nat \ {0}
  BY BlockFields DEF BoundedBlock
<1>2. ASSUME k \in Keys(b)
      PROVE  k \in Nat /\ k < b.end /\ \E i \in Nat : k = b.start + i * b.stride
  BY <1>1, <1>2, MaxKeyAssumption DEF Keys
<1>3. ASSUME k \in Nat, k < b.end, NEW i \in Nat, k = b.start + i * b.stride
      PROVE  k \in Keys(b)
  <2>1. i * b.stride \in Nat /\ i <= i * b.stride
    BY <1>1, ProductAtLeast
  <2>2. i \in 0 .. MaxKey /\ k \in b.start .. (b.end - 1)
    BY <1>1, <1>3, <2>1, MaxKeyAssumption
  <2> QED
    BY <1>3, <2>2 DEF Keys
<1> QED
  BY <1>2, <1>3

(* splitKeyspace: no key is lost and none is in both halves. *)
THEOREM SplitPartitions ==
    ASSUME NEW b \in BoundedBlock
    PROVE  /\ Keys(b) = Keys(FirstHalf(b)) \cup Keys(SecondHalf(b))
           /\ Keys(FirstHalf(b)) \cap Keys(SecondHalf(b)) = {}
<1> DEFINE s == b.stride
<1>1. b.start \in Nat /\ b.end \in Nat /\ b.end <= MaxKey /\ s \in Nat \ {0}
  BY BlockFields DEF BoundedBlock
<1>2. FirstHalf(b) \in BoundedBlock /\ SecondHalf(b) \in BoundedBlock
  BY <1>1, BlockFields DEF BoundedBlock, Block
<1>3. \A k : k \in Keys(FirstHalf(b)) <=>
               k \in Nat /\ k < b.end /\ \E i \in Nat : k = b.start + i * (2 * s)
  BY <1>2, KeysUnbounded, BlockFields DEF BoundedBlock
<1>4. \A k : k \in Keys(SecondHalf(b)) <=>
               k \in Nat /\ k < b.end /\ \E i \in Nat : k = b.start + s + i * (2 * s)
  BY <1>2, KeysUnbounded, BlockFields DEF BoundedBlock
<1>5. \A k : k \in Keys(b) <=>
               k \in Nat /\ k < b.end /\ \E i \in Nat : k = b.start + i * s
  BY KeysUnbounded
<1>6. \A i \in Nat : i * (2 * s) = (2 * i) * s /\ s + i * (2 * s) = (2 * i + 1) * s
  BY <1>1
<1>7. ASSUME NEW k \in Keys(b) PROVE k \in Keys(FirstHalf(b)) \cup Keys(SecondHalf(b))
  <2>1. PICK i \in Nat : k = b.start + i * s
    BY <1>5
  <2>2. PICK j \in Nat : i = 2 * j \/ i = 2 * j + 1
    <3>1. i \div 2 \in Nat /\ (i = 2 * (i \div 2) \/ i = 2 * (i \div 2) + 1)
      OBVIOUS
    <3> QED
      BY <3>1
  <2>3. k = b.start + j * (2 * s) \/ k = b.start + s + j * (2 * s)
    <3>1. i * s = j * (2 * s) \/ i * s = s + j * (2 * s)
      BY <1>6, <2>2
    <3>2. i * s \in Int /\ j * (2 * s) \in Int
      BY <1>1
    <3> QED
      BY <1>1, <2>1, <3>1, <3>2
  <2> QED
    BY <1>3, <1>4, <1>5, <2>3
<1>8. ASSUME NEW k \in Keys(FirstHalf(b)) PROVE k \in Keys(b)
  BY <1>3, <1>5, <1>6
<1>9. ASSUME NEW k \in Keys(SecondHalf(b)) PROVE k \in Keys(b)
  <2>1. PICK i \in Nat : k = b.start + s + i * (2 * s)
    BY <1>4
  <2>2. k = b.start + (2 * i + 1) * s /\ 2 * i + 1 \in Nat
    <3> DEFINE pairs == i * (2 * s)
               odd   == (2 * i + 1) * s
    <3>1. pairs \in Int /\ s + pairs = odd
      BY <1>1, <1>6
    <3>2. k = b.start + s + pairs /\ 2 * i + 1 \in Nat
      BY <2>1
    <3> HIDE DEF pairs, odd
    <3>3. k = b.start + odd
      BY <1>1, <3>1, <3>2
    <3> QED
      BY <3>2, <3>3 DEF odd
  <2> QED
    BY <1>4, <1>5, <2>2
<1>10. ASSUME NEW k \in Keys(FirstHalf(b)), k \in Keys(SecondHalf(b)) PROVE FALSE
  <2>1. PICK i \in Nat, j \in Nat :
          k = b.start + i * (2 * s) /\ k = b.start + s + j * (2 * s)
    BY <1>3, <1>4, <1>10
  <2>2. (2 * i) * s = (2 * j + 1) * s
    <3>1. i * (2 * s) \in Int /\ j * (2 * s) \in Int
      BY <1>1
    <3>2. i * (2 * s) = s + j * (2 * s)
      BY <1>1, <2>1, <3>1
    <3> QED
      BY <1>6, <3>2
  <2>3. 2 * i \in Int /\ 2 * j + 1 \in Int
    OBVIOUS
  <2>4. 2 * i = 2 * j + 1
    BY <1>1, <2>2, <2>3, SameProduct
  <2> QED
    BY <2>4
<1> QED
  BY <1>7, <1>8, <1>9, <1>10

(* getNextAvailableKey: a block with a key left gives its first one and    *)
(* keeps exactly the others.                                               *)
THEOREM NextKeyRemovesOne ==
    ASSUME NEW b \in BoundedBlock, isKeyAvailable(b)
    PROVE  /\ Keys(b) = {b.start} \cup Keys(AfterNextKey(b))
           /\ \A k \in Keys(AfterNextKey(b)) : b.start < k
<1> DEFINE s == b.stride
<1>1. b.start \in Nat /\ b.end \in Nat /\ b.end <= MaxKey /\ s \in Nat \ {0}
  BY BlockFields DEF BoundedBlock
<1>2. AfterNextKey(b) \in BoundedBlock
  BY <1>1, BlockFields DEF BoundedBlock, Block
<1>3. \A k : k \in Keys(AfterNextKey(b)) <=>
               k \in Nat /\ k < b.end /\ \E i \in Nat : k = b.start + s + i * s
  BY <1>2, KeysUnbounded, BlockFields DEF BoundedBlock
<1>4. \A k : k \in Keys(b) <=>
               k \in Nat /\ k < b.end /\ \E i \in Nat : k = b.start + i * s
  BY KeysUnbounded
<1>5. \A i \in Nat : i * s \in Nat /\ s + i * s = (i + 1) * s
  BY <1>1
<1>6. ASSUME NEW k \in Keys(AfterNextKey(b)) PROVE k \in Keys(b) /\ b.start < k
  <2>1. PICK i \in Nat : k = b.start + s + i * s
    BY <1>3
  <2>2. i + 1 \in Nat /\ i * s \in Nat /\ s + i * s = (i + 1) * s
    BY <1>5
  <2>3. k = b.start + (i + 1) * s /\ b.start < k
    BY <1>1, <2>1, <2>2
  <2>4. k \in Nat /\ k < b.end
    BY <1>3
  <2> QED
    BY <1>4, <2>2, <2>3, <2>4
<1>7. ASSUME NEW k \in Keys(b), k # b.start PROVE k \in Keys(AfterNextKey(b))
  <2>1. PICK i \in Nat : k = b.start + i * s
    BY <1>4
  <2>2. i # 0
    BY <1>1, <1>7, <2>1
  <2>3. i - 1 \in Nat /\ k = b.start + s + (i - 1) * s
    <3>1. i - 1 \in Nat
      BY <2>2
    <3>2. (i - 1) * s \in Nat /\ s + (i - 1) * s = i * s
      BY <1>5, <3>1
    <3> QED
      BY <1>1, <2>1, <3>1, <3>2
  <2> QED
    BY <1>3, <1>4, <2>3
<1>8. b.start \in Keys(b)
  <2>1. b.start = b.start + 0 * s
    BY <1>1
  <2> QED
    BY <1>1, <1>4, <2>1 DEF isKeyAvailable
<1> QED
  BY <1>6, <1>7, <1>8

(* Cutting a block at one of its keys, or at its end.                      *)
THEOREM CutPartitions ==
    ASSUME NEW b \in BoundedBlock, NEW n \in Nat, b.start + n * b.stride <= b.end
    PROVE  LET c == b.start + n * b.stride
               x == [b EXCEPT !.start = c]
               y == [b EXCEPT !.end = c]
           IN  /\ x \in BoundedBlock /\ y \in BoundedBlock
               /\ Keys(b) = Keys(x) \cup Keys(y)
               /\ Keys(x) \cap Keys(y) = {}
<1> DEFINE s == b.stride
           f == b.start
           c == f + n * s
           x == [b EXCEPT !.start = c]
           y == [b EXCEPT !.end = c]
<1>1. f \in Nat /\ b.end \in Nat /\ b.end <= MaxKey /\ s \in Nat \ {0}
  BY BlockFields DEF BoundedBlock
<1>2. b = [start |-> f, end |-> b.end, stride |-> s]
  BY Zenon DEF BoundedBlock, Block
<1>3. n * s \in Nat /\ c \in Nat /\ c <= b.end
  BY <1>1
<1>4. x = [start |-> c, end |-> b.end, stride |-> s] /\ y = [start |-> f, end |-> c, stride |-> s]
  BY <1>2
<1>5. x \in BoundedBlock /\ y \in BoundedBlock
  <2> HIDE DEF c, x, y, s, f
  <2> QED
    BY <1>1, <1>3, <1>4, MaxKeyAssumption DEF BoundedBlock, Block
<1>6. \A k : k \in Keys(b) <=> k \in Nat /\ k < b.end /\ \E i \in Nat : k = f + i * s
  BY KeysUnbounded
<1>7. \A k : k \in Keys(x) <=> k \in Nat /\ k < b.end /\ \E i \in Nat : k = c + i * s
  <2> HIDE DEF x
  <2>1. \A k : k \in Keys(x) <=> k \in Nat /\ k < x.end /\ \E i \in Nat : k = x.start + i * x.stride
    BY <1>5, KeysUnbounded
  <2> QED
    BY <1>4, <2>1
<1>8. \A k : k \in Keys(y) <=> k \in Nat /\ k < c /\ \E i \in Nat : k = f + i * s
  <2> HIDE DEF y
  <2>1. \A k : k \in Keys(y) <=> k \in Nat /\ k < y.end /\ \E i \in Nat : k = y.start + i * y.stride
    BY <1>5, KeysUnbounded
  <2> QED
    BY <1>4, <2>1
<1> HIDE DEF c, x, y, s, f
<1>9. ASSUME NEW k \in Keys(x) PROVE k \in Keys(b) /\ k \notin Keys(y)
  <2>1. PICK i \in Nat : k = c + i * s
    BY <1>7
  <2>2. k \in Nat /\ k < b.end
    BY <1>7
  <2>3. n + i \in Nat /\ i * s \in Nat /\ (n + i) * s = n * s + i * s
    BY <1>1, <2>1
  <2>4. k = f + (n + i) * s
    BY <1>1, <1>3, <2>1, <2>3 DEF c
  <2>5. c <= k
    BY <1>3, <2>1, <2>3
  <2> QED
    BY <1>3, <1>6, <1>8, <2>2, <2>3, <2>4, <2>5
<1>10. Keys(y) \subseteq Keys(b)
  <2> SUFFICES ASSUME NEW k \in Keys(y) PROVE k \in Keys(b)
    OBVIOUS
  <2>1. k \in Nat /\ k < c /\ \E i \in Nat : k = f + i * s
    BY <1>8
  <2>2. k < b.end
    BY <1>1, <1>3, <2>1
  <2> QED
    BY <1>6, <2>1, <2>2
<1>11. ASSUME NEW k \in Keys(b), k \notin Keys(y) PROVE k \in Keys(x)
  <2>1. PICK i \in Nat : k = f + i * s
    BY <1>6
  <2>2. k \in Nat /\ k < b.end /\ c <= k
    BY <1>3, <1>6, <1>8, <1>11
  <2>3. n * s <= i * s
    <3>1. i * s \in Nat
      BY <1>1, <2>1
    <3> QED
      BY <1>1, <1>3, <2>1, <2>2, <3>1 DEF c
  <2>4. n <= i
    BY <1>1, <2>1, <2>3, CancelFactor
  <2>5. i - n \in Nat /\ (i - n) * s = i * s - n * s /\ i * s \in Nat
    BY <1>1, <2>1, <2>4
  <2>6. k = c + (i - n) * s
    BY <1>1, <1>3, <2>1, <2>5 DEF c
  <2> QED
    BY <1>7, <2>2, <2>5, <2>6
<1>12. Keys(b) = Keys(x) \cup Keys(y) /\ Keys(x) \cap Keys(y) = {}
  BY <1>9, <1>10, <1>11
<1> QED
  BY <1>5, <1>12 DEF c, x, y, s, f

(* A block has at least as many keys as fit between its start and its end. *)
LEMMA KeysCounted ==
    ASSUME NEW b \in BoundedBlock
    PROVE  /\ IsFiniteSet(Keys(b)) /\ Keys(b) \subseteq Key
           /\ \A n \in Nat : b.start + n * b.stride <= b.end => n <= Cardinality(Keys(b))
<1> DEFINE s == b.stride
           f == b.start
<1>1. f \in Nat /\ b.end \in Nat /\ b.end <= MaxKey /\ s \in Nat \ {0}
  BY BlockFields DEF BoundedBlock
<1>2. \A k : k \in Keys(b) <=> k \in Nat /\ k < b.end /\ \E i \in Nat : k = f + i * s
  BY KeysUnbounded
<1>3. Keys(b) \subseteq Key
  BY <1>1, <1>2, MaxKeyAssumption DEF Key
<1>4. IsFiniteSet(Keys(b))
  <2>1. IsFiniteSet(Key)
    BY MaxKeyAssumption, FS_Interval DEF Key
  <2> QED
    BY <1>3, <2>1, FS_Subset
<1>5. ASSUME NEW n \in Nat, f + n * s <= b.end PROVE n <= Cardinality(Keys(b))
  <2> HIDE DEF s, f
  <2> DEFINE g == [i \in 1..n |-> f + (i - 1) * s]
  <2>1. ASSUME NEW i \in 1..n PROVE f + (i - 1) * s \in Keys(b)
    <3>1. (i - 1) * s \in Nat /\ (i - 1) * s + s = i * s /\ i * s \in Nat
      BY <1>1
    <3>2. i * s <= n * s /\ n * s \in Nat
      BY <1>1, TimesMonotone
    <3>3. f + (i - 1) * s < b.end
      BY <1>1, <1>5, <3>1, <3>2
    <3>4. i - 1 \in Nat /\ f + (i - 1) * s \in Nat
      BY <1>1, <3>1
    <3> QED
      BY <1>2, <3>3, <3>4
  <2>2. ASSUME NEW i \in 1..n, NEW k \in 1..n, f + (i - 1) * s = f + (k - 1) * s
        PROVE  i = k
    <3>1. i - 1 \in Int /\ k - 1 \in Int /\ (i - 1) * s \in Int /\ (k - 1) * s \in Int
      BY <1>1
    <3>2. (i - 1) * s = (k - 1) * s
      BY <1>1, <2>2, <3>1
    <3>3. i - 1 = k - 1
      BY <1>1, <3>1, <3>2, SameProduct
    <3> QED
      BY <3>3
  <2>3. g \in Injection(1..n, Keys(b))
    BY <2>1, <2>2 DEF Injection, IsInjective
  <2>4. Cardinality(1..n) <= Cardinality(Keys(b))
    BY <1>4, <2>3, FS_Injection
  <2>5. Cardinality(1..n) = n
    BY FS_Interval
  <2> QED
    BY <2>4, <2>5
<1> QED
  BY <1>3, <1>4, <1>5
-----------------------------------------------------------------------------
(* A set of natural numbers has a least one: how facts about all numbers,  *)
(* or sets of any size, are proved, from a smallest counterexample.        *)

LEMMA LeastNatural ==
    ASSUME NEW T \in SUBSET Nat, T # {}
    PROVE  \E x \in T : \A y \in T : x <= y
<1>1. PICK x \in T : \A y \in T : ~ (<< y, x >> \in OpToRel(<, Nat))
  <2>1. \E x \in T : \A y \in T : ~ (<< y, x >> \in OpToRel(<, Nat))
    BY NatLessThanWellFounded, WFMin
  <2> QED
    BY <2>1
<1>2. ASSUME NEW y \in T PROVE x <= y
  <2>1. ~ (y < x)
    BY <1>1 DEF OpToRel
  <2> QED
    BY <2>1
<1> QED
  BY <1>2

LEMMA Multiple ==
    ASSUME NEW h \in Nat, NEW d \in Nat \ {0}
    PROVE  h % d = 0 <=> \E q \in Nat : h = d * q
<1>1. ASSUME h % d = 0 PROVE h = d * (h \div d) /\ h \div d \in Nat
  BY <1>1
<1>2. ASSUME NEW q \in Nat, h = d * q PROVE h % d = 0
  BY <1>2
<1> QED
  BY <1>1, <1>2
-----------------------------------------------------------------------------
(* Sums.  The sums of the models are taken element by element, in an order *)
(* nobody knows, from a function on all the subsets; that there is such a  *)
(* function, and only one, is where the work is.                           *)

Any(s) == CHOOSE x \in s : TRUE

AddsUp(g, f, S) ==
    g = [s \in SUBSET S |-> IF s = {} THEN 0 ELSE f[Any(s)] + g[s \ {Any(s)}]]

Sum(f, S) == (CHOOSE g : AddsUp(g, f, S))[S]

LEMMA AnyIn == \A s : s # {} => Any(s) \in s
BY DEF Any

LEMMA AddsUpStep ==
    ASSUME NEW g, NEW f, NEW S, AddsUp(g, f, S), NEW s \in SUBSET S
    PROVE  g[s] = IF s = {} THEN 0 ELSE f[Any(s)] + g[s \ {Any(s)}]
BY DEF AddsUp

LEMMA OneFewer ==
    ASSUME NEW S, IsFiniteSet(S), NEW x \in S
    PROVE  /\ IsFiniteSet(S \ {x})
           /\ Cardinality(S) \in Nat \ {0}
           /\ Cardinality(S \ {x}) = Cardinality(S) - 1
<1>1. IsFiniteSet(S \ {x}) /\ Cardinality(S) \in Nat /\ Cardinality(S \ {x}) = Cardinality(S) - 1
  BY FS_RemoveElement, FS_CardinalityType
<1>2. Cardinality(S \ {x}) \in Nat
  BY <1>1, FS_CardinalityType
<1> QED
  BY <1>1, <1>2

LEMMA SumsExist ==
    ASSUME NEW f, NEW S, IsFiniteSet(S)
    PROVE  \E g : AddsUp(g, f, S)
<1> DEFINE Upto(n)  == { s \in SUBSET S : Cardinality(s) <= n }
           Part(g, n) == g = [s \in Upto(n) |-> IF s = {} THEN 0 ELSE f[Any(s)] + g[s \ {Any(s)}]]
           Bad == { n \in Nat : ~ \E g : Part(g, n) }
<1>1. \A s \in SUBSET S : IsFiniteSet(s) /\ Cardinality(s) \in Nat /\ Cardinality(s) <= Cardinality(S)
  BY FS_Subset, FS_CardinalityType
<1>2. \A n \in Nat : \A s \in Upto(n) :
        s # {} => n # 0 /\ s \ {Any(s)} \in Upto(n - 1)
  <2> SUFFICES ASSUME NEW n \in Nat, NEW s \in Upto(n), s # {}
               PROVE  n # 0 /\ s \ {Any(s)} \in Upto(n - 1)
    OBVIOUS
  <2>1. Any(s) \in s /\ IsFiniteSet(s) /\ s \in SUBSET S /\ Cardinality(s) <= n
    BY <1>1, AnyIn
  <2>2. Cardinality(s) \in Nat \ {0} /\ Cardinality(s \ {Any(s)}) = Cardinality(s) - 1
    BY <2>1, OneFewer
  <2>3. s \ {Any(s)} \in SUBSET S
    BY <2>1
  <2> QED
    BY <2>1, <2>2, <2>3
<1>3. Bad = {}
  <2> SUFFICES ASSUME Bad # {} PROVE FALSE
    OBVIOUS
  <2>1. PICK n \in Bad : \A k \in Bad : n <= k
    <3>1. Bad \in SUBSET Nat
      OBVIOUS
    <3> HIDE DEF Bad
    <3> QED
      BY <3>1, LeastNatural
  <2>2. n \in Nat /\ ~ \E g : Part(g, n)
    OBVIOUS
  <2>3. CASE n = 0
    <3> DEFINE g == [s \in Upto(0) |-> 0]
    <3>1. \A s \in Upto(0) : s = {}
      BY <1>2
    <3>2. Part(g, 0)
      BY <3>1
    <3> QED
      BY <2>2, <2>3, <3>2
  <2>4. CASE n # 0
    <3>1. n - 1 \in Nat /\ n - 1 \notin Bad
      <4> HIDE DEF Bad
      <4> QED
        BY <2>1, <2>2, <2>4
    <3>2. PICK g : Part(g, n - 1)
      BY <3>1
    <3> DEFINE h == [s \in Upto(n) |-> IF s = {} THEN 0 ELSE f[Any(s)] + g[s \ {Any(s)}]]
    <3>3. \A s \in Upto(n - 1) : s \in Upto(n) /\ h[s] = g[s]
      <4>1. \A s \in Upto(n - 1) : s \in Upto(n)
        <5>1. \A s \in Upto(n - 1) : s \in SUBSET S /\ Cardinality(s) <= n - 1 /\ Cardinality(s) \in Nat
          BY <1>1
        <5> QED
          BY <2>2, <5>1
      <4>2. \A s \in Upto(n - 1) : g[s] = IF s = {} THEN 0 ELSE f[Any(s)] + g[s \ {Any(s)}]
        BY <3>2
      <4> HIDE DEF Upto
      <4> QED
        BY <4>1, <4>2
    <3>4. \A s \in Upto(n) : s # {} => h[s \ {Any(s)}] = g[s \ {Any(s)}]
      <4> HIDE DEF Upto, h
      <4> QED
        BY <1>2, <2>2, <3>3
    <3>5. Part(h, n)
      <4>1. \A s \in Upto(n) : (IF s = {} THEN 0 ELSE f[Any(s)] + g[s \ {Any(s)}])
                               = (IF s = {} THEN 0 ELSE f[Any(s)] + h[s \ {Any(s)}])
        BY <3>4
      <4> HIDE DEF Upto
      <4> QED
        BY <4>1
    <3> QED
      BY <2>2, <3>5
  <2> QED
    BY <2>3, <2>4
<1>4. Cardinality(S) \in Nat /\ Upto(Cardinality(S)) = SUBSET S
  BY <1>1, FS_CardinalityType
<1>5. PICK g : Part(g, Cardinality(S))
  BY <1>3, <1>4
<1> QED
  BY <1>4, <1>5 DEF AddsUp

(* Induction on a finite set, with a set of subsets in the place of a      *)
(* predicate.                                                              *)
LEMMA BySmaller ==
    ASSUME NEW S, IsFiniteSet(S), NEW Good,
           \A s \in SUBSET S : (\A x \in s : s \ {x} \in Good) => s \in Good
    PROVE  S \in Good
<1> DEFINE Bad == { n \in Nat : \E s \in SUBSET S : s \notin Good /\ Cardinality(s) = n }
<1>1. \A s \in SUBSET S : IsFiniteSet(s) /\ Cardinality(s) \in Nat
  BY FS_Subset, FS_CardinalityType
<1>2. Bad = {}
  <2> SUFFICES ASSUME Bad # {} PROVE FALSE
    OBVIOUS
  <2>1. PICK n \in Bad : \A k \in Bad : n <= k
    <3>1. Bad \in SUBSET Nat
      OBVIOUS
    <3> HIDE DEF Bad
    <3> QED
      BY <3>1, LeastNatural
  <2>2. PICK s \in SUBSET S : s \notin Good /\ Cardinality(s) = n
    OBVIOUS
  <2>3. PICK x \in s : s \ {x} \notin Good
    BY <2>2
  <2>4. Cardinality(s \ {x}) = n - 1 /\ n - 1 \in Nat /\ n \in Nat
    BY <1>1, <2>2, OneFewer
  <2>5. n - 1 \in Bad
    BY <2>3, <2>4
  <2> HIDE DEF Bad
  <2> QED
    BY <2>1, <2>4, <2>5
<1>3. S \in SUBSET S /\ Cardinality(S) \in Nat
  BY <1>1
<1> QED
  BY <1>2, <1>3

LEMMA SumsAgree ==
    ASSUME NEW f, NEW S, NEW T, NEW g, NEW h, AddsUp(g, f, S), AddsUp(h, f, T),
           IsFiniteSet(S), S \subseteq T
    PROVE  g[S] = h[S]
<1> DEFINE Good == { s \in SUBSET S : g[s] = h[s] }
<1>1. ASSUME NEW s \in SUBSET S, \A x \in s : s \ {x} \in Good
      PROVE  s \in Good
  <2>1. s \in SUBSET T
    OBVIOUS
  <2>2. g[s] = IF s = {} THEN 0 ELSE f[Any(s)] + g[s \ {Any(s)}]
    BY AddsUpStep
  <2>3. h[s] = IF s = {} THEN 0 ELSE f[Any(s)] + h[s \ {Any(s)}]
    BY <2>1, AddsUpStep
  <2>4. s # {} => g[s \ {Any(s)}] = h[s \ {Any(s)}]
    BY <1>1, AnyIn
  <2> QED
    BY <2>2, <2>3, <2>4
<1>2. S \in Good
  <2> HIDE DEF Good
  <2> QED
    BY <1>1, BySmaller
<1> QED
  BY <1>2

LEMMA SumRec ==
    ASSUME NEW f, NEW S, IsFiniteSet(S)
    PROVE  Sum(f, S) = IF S = {} THEN 0 ELSE f[Any(S)] + Sum(f, S \ {Any(S)})
<1> DEFINE g == CHOOSE x : AddsUp(x, f, S)
           T == S \ {Any(S)}
           h == CHOOSE x : AddsUp(x, f, T)
<1>1. IsFiniteSet(T) /\ T \subseteq S
  BY FS_Subset
<1>2. AddsUp(g, f, S) /\ AddsUp(h, f, T)
  BY <1>1, SumsExist
<1>3. Sum(f, S) = g[S] /\ Sum(f, T) = h[T]
  BY DEF Sum
<1> HIDE DEF g, h, T
<1>4. h[T] = g[T]
  BY <1>1, <1>2, SumsAgree
<1>5. g[S] = IF S = {} THEN 0 ELSE f[Any(S)] + g[T]
  BY <1>2, AddsUpStep DEF T
<1> QED
  BY <1>3, <1>4, <1>5 DEF T

LEMMA SumInt ==
    ASSUME NEW f, NEW S, IsFiniteSet(S), \A x \in S : f[x] \in Int
    PROVE  Sum(f, S) \in Int
<1> DEFINE Good == { s \in SUBSET S : Sum(f, s) \in Int }
<1>1. ASSUME NEW s \in SUBSET S, \A x \in s : s \ {x} \in Good
      PROVE  s \in Good
  <2>1. IsFiniteSet(s)
    BY FS_Subset
  <2>2. Sum(f, s) = IF s = {} THEN 0 ELSE f[Any(s)] + Sum(f, s \ {Any(s)})
    BY <2>1, SumRec
  <2>3. s # {} => f[Any(s)] \in Int /\ Sum(f, s \ {Any(s)}) \in Int
    BY <1>1, AnyIn
  <2> QED
    BY <2>2, <2>3
<1>2. S \in Good
  <2> HIDE DEF Good
  <2> QED
    BY <1>1, BySmaller
<1> QED
  BY <1>2

(* It does not matter which member is added first. *)
LEMMA SumOne ==
    ASSUME NEW f, NEW S, IsFiniteSet(S), \A x \in S : f[x] \in Int
    PROVE  \A x \in S : Sum(f, S) = f[x] + Sum(f, S \ {x})
<1> DEFINE Good == { s \in SUBSET S : \A x \in s : Sum(f, s) = f[x] + Sum(f, s \ {x}) }
<1>1. ASSUME NEW s \in SUBSET S, \A x \in s : s \ {x} \in Good
      PROVE  s \in Good
  <2> SUFFICES ASSUME NEW x \in s PROVE Sum(f, s) = f[x] + Sum(f, s \ {x})
    OBVIOUS
  <2> DEFINE a == Any(s)
  <2>1. a \in s
    BY AnyIn
  <2>2. Sum(f, s) = f[a] + Sum(f, s \ {a})
    BY FS_Subset, SumRec
  <2> HIDE DEF a
  <2>3. CASE x = a
    BY <2>2, <2>3
  <2>4. CASE x # a
    <3>1. s \ {a} \in Good /\ s \ {x} \in Good /\ x \in s \ {a} /\ a \in s \ {x}
      BY <1>1, <2>1, <2>4
    <3>2. Sum(f, s \ {a}) = f[x] + Sum(f, (s \ {a}) \ {x})
      BY <3>1
    <3>3. Sum(f, s \ {x}) = f[a] + Sum(f, (s \ {x}) \ {a})
      BY <3>1
    <3>4. (s \ {a}) \ {x} = (s \ {x}) \ {a}
      OBVIOUS
    <3>5. f[x] \in Int /\ f[a] \in Int /\ Sum(f, (s \ {a}) \ {x}) \in Int
      <4>1. IsFiniteSet((s \ {a}) \ {x}) /\ (s \ {a}) \ {x} \subseteq S
        BY FS_Subset
      <4> QED
        BY <2>1, <4>1, SumInt
    <3>6. Sum(f, s \ {x}) = f[a] + Sum(f, (s \ {a}) \ {x})
      BY <3>3, <3>4, Zenon
    <3> QED
      BY <2>2, <3>2, <3>5, <3>6
  <2> QED
    BY <2>3, <2>4
<1>2. S \in Good
  <2> HIDE DEF Good
  <2> QED
    BY <1>1, BySmaller
<1> QED
  BY <1>2
=============================================================================
