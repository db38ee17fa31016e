-------------------------- MODULE SimulationProofs --------------------------
(***************************************************************************)
(* The type correctness of the simulation, for any number of nodes, any    *)
(* size of keyspace, any latency and any schedule; then how messages are   *)
(* delivered, while no node goes offline and when nodes do.                *)
(***************************************************************************)
EXTENDS KeyConservation, KeyspaceProofs
-----------------------------------------------------------------------------
(* Powers of two, and the shares that are made of them.                    *)

PowersOf2 == { q \in Nat \ {0} : IsPowerOf2(q) }

LEMMA PowerDivisor ==
    ASSUME NEW q \in PowersOf2, NEW d \in Nat \ {0}, NEW r \in Nat \ {0}, q = d * r
    PROVE  d \in PowersOf2
<1>1. SUFFICES ASSUME NEW c \in 2 .. d, d % c = 0 PROVE c % 2 = 0
  BY DEF PowersOf2, IsPowerOf2
<1>2. PICK x \in Nat : d = c * x
  BY <1>1, Multiple
<1>3. q = c * (x * r) /\ x * r \in Nat
  <2>1. c \in Nat /\ r \in Nat
    OBVIOUS
  <2>2. (c * x) * r = c * (x * r) /\ x * r \in Nat
    BY <1>2, <2>1
  <2> QED
    BY <1>2, <2>2
<1>4. q \in Nat /\ c \in Nat \ {0} /\ q % c = 0
  <2>1. q \in Nat /\ c \in Nat \ {0}
    BY DEF PowersOf2
  <2> QED
    BY <1>3, <2>1, Multiple
<1>5. d <= q
  <2>1. d * r = d + d * (r - 1) /\ d * (r - 1) \in Nat
    OBVIOUS
  <2> QED
    BY <2>1
<1> QED
  BY <1>1, <1>4, <1>5 DEF PowersOf2, IsPowerOf2

LEMMA PowerHalved ==
    ASSUME NEW q \in PowersOf2, q # 1
    PROVE  \E h \in PowersOf2 : q = 2 * h
<1>1. q \in Nat /\ q >= 2 /\ IsPowerOf2(q)
  BY DEF PowersOf2
<1>2. q % q = 0
  BY <1>1
<1>3. q % 2 = 0
  BY <1>1, <1>2 DEF IsPowerOf2
<1>4. PICK h \in Nat : q = 2 * h
  BY <1>1, <1>3, Multiple
<1>5. h \in Nat \ {0} /\ q = h * 2
  BY <1>1, <1>4
<1>6. h \in PowersOf2
  BY <1>5, PowerDivisor
<1> QED
  BY <1>4, <1>6

(* A power of two divides every larger one. *)
LEMMA PowersDivide ==
    ASSUME NEW a \in PowersOf2, NEW c \in PowersOf2, a <= c
    PROVE  \E r \in PowersOf2 : c = a * r
<1> DEFINE Bad == { x \in PowersOf2 : \E y \in PowersOf2 :
                      x <= y /\ \A r \in PowersOf2 : y # x * r }
<1>1. SUFFICES Bad = {}
  OBVIOUS
<1>2. SUFFICES ASSUME Bad # {} PROVE FALSE
  OBVIOUS
<1>3. PICK x \in Bad : \A z \in Bad : x <= z
  <2>1. Bad \in SUBSET Nat
    BY DEF PowersOf2
  <2> HIDE DEF Bad
  <2> QED
    BY <1>2, <2>1, LeastNatural
<1>4. PICK y \in PowersOf2 : x <= y /\ \A r \in PowersOf2 : y # x * r
  OBVIOUS
<1>5. x \in PowersOf2 /\ x \in Nat \ {0} /\ y \in Nat \ {0}
  BY DEF PowersOf2
<1>6. CASE x = 1
  BY <1>4, <1>5, <1>6
<1>7. CASE x # 1
  <2>1. y # 1
    BY <1>4, <1>5, <1>7
  <2>2. PICK g \in PowersOf2 : x = 2 * g
    BY <1>5, <1>7, PowerHalved
  <2>3. PICK h \in PowersOf2 : y = 2 * h
    BY <2>1, PowerHalved
  <2>4. g \in Nat \ {0} /\ h \in Nat \ {0}
    BY DEF PowersOf2
  <2>5. g <= h /\ g < x
    BY <1>4, <2>2, <2>3, <2>4
  <2>6. g \notin Bad
    BY <1>3, <1>5, <2>4, <2>5
  <2>7. PICK r \in PowersOf2 : h = g * r
    BY <2>5, <2>6
  <2>8. y = x * r
    <3>1. r \in Nat
      BY DEF PowersOf2
    <3>2. 2 * (g * r) = (2 * g) * r
      BY <2>4, <3>1
    <3> QED
      BY <2>2, <2>3, <2>7, <3>2
  <2> QED
    BY <1>4, <2>8
<1> QED
  BY <1>6, <1>7

LEMMA PowerDoubled ==
    ASSUME NEW q \in PowersOf2
    PROVE  2 * q \in PowersOf2
<1>1. q \in Nat \ {0} /\ IsPowerOf2(q) /\ 2 * q \in Nat \ {0}
  BY DEF PowersOf2
<1>2. SUFFICES ASSUME NEW c \in 2 .. (2 * q), (2 * q) % c = 0, c % 2 # 0
               PROVE  FALSE
  BY <1>1 DEF PowersOf2, IsPowerOf2
<1>3. c \in Nat \ {0}
  OBVIOUS
<1>4. PICK x \in Nat : 2 * q = c * x
  BY <1>1, <1>2, <1>3, Multiple
<1>5. PICK y \in Nat : c = 2 * y + 1
  <2>1. c \div 2 \in Nat /\ c = 2 * (c \div 2) + 1
    BY <1>2, <1>3
  <2> QED
    BY <2>1
<1>6. x = 2 * (q - y * x)
  <2>1. c * x = 2 * (y * x) + x /\ y * x \in Nat
    BY <1>4, <1>5
  <2> QED
    BY <1>1, <1>4, <2>1
<1>7. q - y * x \in Nat
  <2>1. y * x \in Nat
    BY <1>4, <1>5
  <2> QED
    BY <1>1, <1>4, <1>6, <2>1
<1>8. q = c * (q - y * x)
  <2>1. c * (2 * (q - y * x)) = 2 * (c * (q - y * x)) /\ c * (q - y * x) \in Nat
    BY <1>3, <1>7
  <2> QED
    BY <1>1, <1>4, <1>6, <2>1
<1>9. q % c = 0
  BY <1>1, <1>3, <1>7, <1>8, Multiple
<1>10. c <= q
  <2> DEFINE z == q - y * x
  <2>1. z \in Nat \ {0}
    BY <1>1, <1>3, <1>7, <1>8
  <2>2. q = c + c * (z - 1) /\ c * (z - 1) \in Nat
    BY <1>3, <1>8, <2>1
  <2> QED
    BY <1>1, <1>3, <2>2
<1> QED
  BY <1>1, <1>2, <1>3, <1>9, <1>10 DEF IsPowerOf2

LEMMA StridesArePowers == Strides \subseteq PowersOf2
BY DEF Strides, PowersOf2

(* Between a stride and a larger one lies its double. *)
LEMMA DoubleFits ==
    ASSUME NEW s \in PowersOf2, NEW w \in Strides, s < w
    PROVE  2 * s \in Strides /\ 2 * s <= w /\ 2 * s \in PowersOf2
<1>1. w \in PowersOf2 /\ s \in Nat \ {0} /\ w \in Nat \ {0} /\ w <= FinestStride
  BY StridesArePowers, FinestStrideAssumption DEF PowersOf2, Strides
<1>2. PICK r \in PowersOf2 : w = s * r
  BY <1>1, PowersDivide
<1>3. r # 1
  BY <1>1, <1>2
<1>4. PICK h \in PowersOf2 : r = 2 * h
  BY <1>3, PowerHalved
<1>5. h \in Nat \ {0}
  BY DEF PowersOf2
<1>6. w = (2 * s) * h
  <2>1. s * (2 * h) = (2 * s) * h
    BY <1>1, <1>5
  <2> QED
    BY <1>2, <1>4, <2>1
<1>7. 2 * s \in Nat \ {0}
  BY <1>1
<1>8. 2 * s \in PowersOf2
  BY <1>1, <1>5, <1>6, <1>7, PowerDivisor
<1>9. 2 * s <= w
  <2>1. (2 * s) * h = 2 * s + (2 * s) * (h - 1) /\ (2 * s) * (h - 1) \in Nat
    BY <1>5, <1>7
  <2> QED
    BY <1>6, <1>7, <2>1
<1> QED
  BY <1>1, <1>7, <1>8, <1>9, FinestStrideAssumption DEF Strides, PowersOf2
-----------------------------------------------------------------------------
(* Cutting blocks up. *)

(* The blocks of this program: full, with a power of two for a stride. *)
FullBlock == { b \in Block : b.end = MaxKey /\ b.stride \in PowersOf2 }

(* The keys of b are those of the blocks K, each in one of them. *)
CutInto(b, K) ==
    /\ K \subseteq FullBlock
    /\ \A k : k \in Keys(b) <=> \E c \in K : k \in Keys(c)
    /\ \A c, d \in K : \A k : k \in Keys(c) /\ k \in Keys(d) => c = d

LEMMA FullBlockHalves ==
    ASSUME NEW b \in FullBlock
    PROVE  /\ b \in BoundedBlock
           /\ FirstHalf(b) \in FullBlock
           /\ SecondHalf(b) \in FullBlock
           /\ AfterNextKey(b) \in FullBlock
           /\ FirstHalf(b).stride = 2 * b.stride
           /\ SecondHalf(b).stride = 2 * b.stride
<1>1. b \in Block /\ b.end = MaxKey /\ b.stride \in PowersOf2
  BY DEF FullBlock
<1>2. b \in BoundedBlock
  BY <1>1, MaxKeyAssumption DEF BoundedBlock
<1>3. 2 * b.stride \in PowersOf2
  BY <1>1, PowerDoubled
<1>4. 2 * b.stride \in Nat \ {0}
  BY <1>3 DEF PowersOf2
<1> QED
  BY <1>1, <1>2, <1>3, <1>4, BlockFields DEF FullBlock, Block

LEMMA CutInHalves ==
    ASSUME NEW b \in FullBlock
    PROVE  CutInto(b, {FirstHalf(b), SecondHalf(b)})
BY FullBlockHalves, SplitPartitions DEF CutInto

(* Cutting the second half further. *)
LEMMA CutSecondHalf ==
    ASSUME NEW b \in FullBlock, NEW K, CutInto(SecondHalf(b), K)
    PROVE  CutInto(b, {FirstHalf(b)} \cup K)
<1> DEFINE f == FirstHalf(b)
           g == SecondHalf(b)
<1>1. /\ f \in FullBlock
      /\ \A k : k \in Keys(b) <=> k \in Keys(f) \/ k \in Keys(g)
      /\ \A k : ~ (k \in Keys(f) /\ k \in Keys(g))
  BY FullBlockHalves, SplitPartitions
<1>2. /\ K \subseteq FullBlock
      /\ \A k : k \in Keys(g) <=> \E c \in K : k \in Keys(c)
      /\ \A c, d \in K : \A k : k \in Keys(c) /\ k \in Keys(d) => c = d
  BY DEF CutInto
<1> HIDE DEF f, g
<1>3. \A k : k \in Keys(b) <=> \E c \in {f} \cup K : k \in Keys(c)
  BY <1>1, <1>2
<1>4. \A c, d \in {f} \cup K : \A k : k \in Keys(c) /\ k \in Keys(d) => c = d
  BY <1>1, <1>2
<1> QED
  BY <1>1, <1>2, <1>3, <1>4 DEF CutInto, f

LEMMA PieceFields ==
    ASSUME NEW b \in Block, NEW q
    PROVE  /\ Piece(b, q) = [start |-> b.start + (q \div 2) - b.stride, end |-> b.end, stride |-> q]
           /\ LastPiece(b, q) = [start |-> b.start + q - b.stride, end |-> b.end, stride |-> q]
<1>1. PICK x \in Nat, y \in Nat, z \in Nat \ {0} : b = [start |-> x, end |-> y, stride |-> z]
  BY Zenon DEF Block
<1>2. ASSUME NEW v
      PROVE  [b EXCEPT !.start = v, !.stride = q] = [start |-> v, end |-> y, stride |-> q]
  <2>1. [b EXCEPT !.start = v, !.stride = q] = [[b EXCEPT !.start = v] EXCEPT !.stride = q]
    OBVIOUS
  <2>2. [b EXCEPT !.start = v] = [start |-> v, end |-> y, stride |-> z]
    BY <1>1
  <2>3. [[start |-> v, end |-> y, stride |-> z] EXCEPT !.stride = q]
          = [start |-> v, end |-> y, stride |-> q]
    OBVIOUS
  <2> QED
    BY Zenon, <2>1, <2>2, <2>3
<1>3. b.start = x /\ b.end = y /\ b.stride = z
  BY <1>1
<1>4. Piece(b, q) = [b EXCEPT !.start = b.start + (q \div 2) - b.stride, !.stride = q]
  BY Zenon DEF Piece
<1>5. LastPiece(b, q) = [b EXCEPT !.start = b.start + q - b.stride, !.stride = q]
  BY Zenon DEF LastPiece
<1> QED
  BY Zenon, <1>2, <1>3, <1>4, <1>5

(* One more split at the top of a chain. *)
LEMMA ChainOfHalf ==
    ASSUME NEW b \in FullBlock, NEW w \in Strides, b.stride < w
    PROVE  Chain(b, w) = {FirstHalf(b)} \cup Chain(SecondHalf(b), w)
<1> DEFINE s == b.stride
           g == SecondHalf(b)
<1>1. /\ b \in Block /\ g \in Block
      /\ s \in PowersOf2 /\ s \in Nat \ {0} /\ b.start \in Nat /\ b.end \in Nat
      /\ b = [start |-> b.start, end |-> b.end, stride |-> s]
      /\ FirstHalf(b) = [start |-> b.start, end |-> b.end, stride |-> 2 * s]
      /\ g = [start |-> b.start + s, end |-> b.end, stride |-> 2 * s]
  <2>1. b \in Block /\ s \in PowersOf2
    BY DEF FullBlock
  <2>2. b = [start |-> b.start, end |-> b.end, stride |-> s]
    BY <2>1 DEF Block
  <2>3. g \in Block
    BY FullBlockHalves DEF FullBlock
  <2> QED
    BY <2>1, <2>2, <2>3, BlockFields
<1>2. 2 * s \in Strides /\ 2 * s <= w /\ 2 * s \in PowersOf2
  BY <1>1, DoubleFits
<1>3. w \in Nat \ {0} /\ Strides \subseteq Nat
  BY FinestStrideAssumption DEF Strides
<1>4. g.start = b.start + s /\ g.stride = 2 * s /\ g.end = b.end
  BY <1>1
<1>5. LastPiece(b, w) = LastPiece(g, w)
  <2>1. LastPiece(b, w) = [start |-> b.start + w - s, end |-> b.end, stride |-> w]
    BY <1>1, PieceFields
  <2>2. LastPiece(g, w) = [start |-> b.start + s + w - 2 * s, end |-> b.end, stride |-> w]
    BY <1>1, <1>4, PieceFields
  <2>3. b.start + s + w - 2 * s = b.start + w - s
    BY <1>1, <1>3
  <2> QED
    BY <2>1, <2>2, <2>3
<1>6. ASSUME NEW q \in Nat
      PROVE  Piece(b, q) = Piece(g, q)
  <2>1. Piece(b, q) = [start |-> b.start + (q \div 2) - s, end |-> b.end, stride |-> q]
    BY <1>1, PieceFields
  <2>2. Piece(g, q) = [start |-> b.start + s + (q \div 2) - 2 * s, end |-> b.end, stride |-> q]
    BY <1>1, <1>4, PieceFields
  <2>3. b.start + s + (q \div 2) - 2 * s = b.start + (q \div 2) - s
    BY <1>1
  <2> QED
    BY <2>1, <2>2, <2>3
<1>7. Piece(b, 2 * s) = FirstHalf(b)
  <2>1. Piece(b, 2 * s) = [start |-> b.start + ((2 * s) \div 2) - s, end |-> b.end, stride |-> 2 * s]
    BY <1>1, PieceFields
  <2>2. b.start + ((2 * s) \div 2) - s = b.start
    BY <1>1
  <2> QED
    BY <1>1, <2>1, <2>2
<1>8. { q \in Strides : 2 * s <= q /\ q <= w }
        = {2 * s} \cup { q \in Strides : 2 * (2 * s) <= q /\ q <= w }
  <2>1. ASSUME NEW q \in Strides, 2 * s <= q, q # 2 * s
        PROVE  2 * (2 * s) <= q
    BY <1>1, <1>2, <1>3, <2>1, DoubleFits
  <2> QED
    BY <1>1, <1>2, <1>3, <2>1
<1>9. Chain(b, w) = { Piece(b, q) : q \in { x \in Strides : 2 * s <= x /\ x <= w } }
                      \cup {LastPiece(b, w)}
  BY DEF Chain
<1>10. Chain(g, w) = { Piece(g, q) : q \in { x \in Strides : 2 * (2 * s) <= x /\ x <= w } }
                      \cup {LastPiece(g, w)}
  BY <1>4 DEF Chain
<1> DEFINE R == { x \in Strides : 2 * (2 * s) <= x /\ x <= w }
<1>11. { Piece(b, q) : q \in R } = { Piece(g, q) : q \in R }
  BY <1>3, <1>6
<1>12. Chain(b, w) = { Piece(b, q) : q \in {2 * s} \cup R } \cup {LastPiece(b, w)}
  BY <1>8, <1>9
<1> HIDE DEF R, s, g
<1>13. { Piece(b, q) : q \in {2 * s} \cup R } = {Piece(b, 2 * s)} \cup { Piece(b, q) : q \in R }
  OBVIOUS
<1> QED
  BY <1>5, <1>7, <1>10, <1>11, <1>12, <1>13 DEF R, g

LEMMA ChainOfNothing ==
    ASSUME NEW b \in FullBlock, b.stride \in Strides
    PROVE  Chain(b, b.stride) = {b}
<1>1. b \in Block /\ b.stride \in Nat \ {0} /\ b.start \in Nat
  BY DEF FullBlock, Block
<1>2. { x \in Strides : 2 * b.stride <= x /\ x <= b.stride } = {}
  BY <1>1, FinestStrideAssumption DEF Strides
<1>3. LastPiece(b, b.stride) = b
  <2>1. b = [start |-> b.start, end |-> b.end, stride |-> b.stride]
    BY <1>1 DEF Block
  <2>2. LastPiece(b, b.stride) = [start |-> b.start + b.stride - b.stride, end |-> b.end, stride |-> b.stride]
    BY <1>1, PieceFields
  <2>3. b.start + b.stride - b.stride = b.start
    BY <1>1
  <2> QED
    BY <2>1, <2>2, <2>3
<1> QED
  BY <1>2, <1>3 DEF Chain

(* Block sharing: splitting a block's second half again and again, down to *)
(* the stride of a share, loses no key and puts none in two pieces.  From  *)
(* the shortest chain that did.                                            *)
THEOREM ChainPartitions ==
    ASSUME NEW b \in FullBlock, NEW w \in Strides, b.stride <= w
    PROVE  CutInto(b, Chain(b, w))
<1> DEFINE Bad == { x \in Nat : \E c \in FullBlock : /\ c.stride <= w
                                                   /\ x = w - c.stride
                                                   /\ ~ CutInto(c, Chain(c, w)) }
<1>1. w \in Nat /\ w \in PowersOf2
  BY StridesArePowers DEF PowersOf2
<1>2. ASSUME NEW c \in FullBlock PROVE c.stride \in Nat \ {0} /\ c.stride \in PowersOf2
  BY DEF FullBlock, PowersOf2
<1>3. SUFFICES ASSUME Bad # {} PROVE FALSE
  <2>1. w - b.stride \in Nat
    BY <1>1, <1>2
  <2> QED
    BY <2>1
<1>4. PICK x \in Bad : \A y \in Bad : x <= y
  <2>1. Bad \in SUBSET Nat
    OBVIOUS
  <2> HIDE DEF Bad
  <2> QED
    BY <1>3, <2>1, LeastNatural
<1>5. PICK c \in FullBlock : c.stride <= w /\ x = w - c.stride /\ ~ CutInto(c, Chain(c, w))
  OBVIOUS
<1>6. CASE c.stride = w
  <2>1. Chain(c, w) = {c}
    BY <1>6, ChainOfNothing
  <2>2. CutInto(c, {c})
    BY DEF CutInto
  <2> QED
    BY <1>5, <2>1, <2>2
<1>7. CASE c.stride # w
  <2>1. c.stride < w
    BY <1>1, <1>2, <1>5, <1>7
  <2>2. /\ SecondHalf(c) \in FullBlock /\ SecondHalf(c).stride = 2 * c.stride
        /\ 2 * c.stride <= w
    BY <1>2, <2>1, FullBlockHalves, DoubleFits
  <2>3. w - 2 * c.stride \in Nat /\ w - 2 * c.stride < x
    BY <1>1, <1>2, <1>5, <2>2
  <2>4. w - 2 * c.stride \notin Bad
    BY <1>1, <1>4, <1>5, <2>3
  <2>5. CutInto(SecondHalf(c), Chain(SecondHalf(c), w))
    BY <2>2, <2>3, <2>4
  <2>6. CutInto(c, Chain(c, w))
    BY <2>1, <2>5, CutSecondHalf, ChainOfHalf
  <2> QED
    BY <1>5, <2>6
<1> QED
  BY <1>6, <1>7

(* What is sent is among the pieces. *)
LEMMA PiecesOfChain ==
    ASSUME NEW b, NEW rest, NEW w
    PROVE  /\ LastPiece(b, w) \in Chain(b, w)
           /\ FinishPieces(b, rest, w) \subseteq Chain(b, w)
BY DEF Chain, FinishPieces
-----------------------------------------------------------------------------
(* Blocks stay blocks. *)

LEMMA RootBlockType == RootBlock \in Block
BY MaxKeyAssumption DEF RootBlock, Block

LEMMA HalvesType ==
    ASSUME NEW b \in Block
    PROVE  FirstHalf(b) \in Block /\ SecondHalf(b) \in Block /\ AfterNextKey(b) \in Block
<1>1. b.stride \in Nat \ {0} /\ b.start \in Nat /\ b.end \in Nat
  BY DEF Block
<1>2. 2 * b.stride \in Nat \ {0} /\ b.start + b.stride \in Nat
  BY <1>1
<1> QED
  BY <1>1, <1>2 DEF FirstHalf, SecondHalf, AfterNextKey, Block

LEMMA StridesType == Strides \subseteq Nat \ {0}
BY FinestStrideAssumption DEF Strides

LEMMA PieceType ==
    ASSUME NEW b \in Block, NEW q \in Strides, 2 * b.stride <= q
    PROVE  Piece(b, q) \in Block
<1>1. q \in Nat \ {0} /\ b.stride \in Nat \ {0} /\ b.start \in Nat /\ b.end \in Nat
  BY StridesType DEF Block
<1>2. q \div 2 \in Nat /\ q \div 2 >= b.stride
  BY <1>1
<1>3. b.start + (q \div 2) - b.stride \in Nat
  BY <1>1, <1>2
<1> QED
  BY <1>1, <1>3 DEF Piece, Block

LEMMA LastPieceType ==
    ASSUME NEW b \in Block, NEW w \in Strides, b.stride <= w
    PROVE  LastPiece(b, w) \in Block
<1>1. w \in Nat \ {0} /\ b.stride \in Nat \ {0} /\ b.start \in Nat /\ b.end \in Nat
  BY StridesType DEF Block
<1>2. b.start + w - b.stride \in Nat
  BY <1>1
<1> QED
  BY <1>1, <1>2 DEF LastPiece, Block

LEMMA ChainType ==
    ASSUME NEW b \in Block, NEW w \in Strides, b.stride <= w
    PROVE  Chain(b, w) \subseteq Block
BY PieceType, LastPieceType DEF Chain

(* What block sharing cuts and sends are blocks, and it cuts downwards. *)
ShareType(blocks) ==
    { s \in [cut : SUBSET blocks, down : Strides, sent : SUBSET Block] :
        \A b \in s.cut : b.stride <= s.down }

LEMMA SharesType ==
    ASSUME NEW blocks \in SUBSET Block, NEW w \in Strides
    PROVE  Shares(blocks, w) \subseteq ShareType(blocks)
<1>1. ShareOne(blocks, w) \subseteq ShareType(blocks)
  <2> SUFFICES ASSUME NEW b \in FullBlocks(blocks) \ Smaller(blocks, w)
               PROVE  [cut |-> {b}, down |-> w, sent |-> {LastPiece(b, w)}] \in ShareType(blocks)
    BY DEF ShareOne
  <2>1. b \in blocks /\ b \in Block /\ b.stride <= w
    BY StridesType DEF FullBlocks, Smaller, Block
  <2>2. LastPiece(b, w) \in Block
    BY <2>1, LastPieceType
  <2> QED
    BY <2>1, <2>2 DEF ShareType
<1>2. ShareSeveral(blocks, w) \subseteq ShareType(blocks)
  <2> SUFFICES ASSUME NEW T \in SUBSET Smaller(blocks, w)
               PROVE  [cut |-> {}, down |-> w, sent |-> T] \in ShareType(blocks)
    BY DEF ShareSeveral
  <2> QED
    BY DEF ShareType, Smaller, FullBlocks
<1>3. ShareAndFinish(blocks, w) \subseteq ShareType(blocks)
  <2> SUFFICES ASSUME NEW T \in SUBSET Smaller(blocks, w), NEW b \in Smaller(blocks, w) \ T,
                      NEW v \in FinishStrides(b, Need(w) - TotalUnits(T))
               PROVE  [cut |-> {b}, down |-> v,
                       sent |-> T \cup FinishPieces(b, Need(w) - TotalUnits(T), v)]
                         \in ShareType(blocks)
    BY DEF ShareAndFinish, Finish
  <2>1. b \in blocks /\ b \in Block /\ T \subseteq Block
    BY DEF Smaller, FullBlocks
  <2>2. v \in Strides /\ 2 * b.stride <= v
    BY DEF FinishStrides
  <2>3. b.stride <= v
    BY <2>1, <2>2, StridesType DEF Block
  <2>4. FinishPieces(b, Need(w) - TotalUnits(T), v) \subseteq Block
    BY <2>1, <2>2, <2>3, PieceType, LastPieceType DEF FinishPieces
  <2> QED
    BY <2>1, <2>2, <2>3, <2>4 DEF ShareType
<1> QED
  BY <1>1, <1>2, <1>3 DEF Shares
-----------------------------------------------------------------------------
(* What the member functions of a node make of its state is again a state. *)

LEMMA NodeStateFields ==
    ASSUME NEW st \in NodeState
    PROVE  /\ st.keyspaces \subseteq Block
           /\ st.heard \in [Nodes -> Heard]
           /\ st.nextId \in [Nodes -> Nat \ {0}]
           /\ st.confirm \subseteq Entry
           /\ st.queue \in Seq(SUBSET Message)
           /\ st = [keyspaces |-> st.keyspaces, heard |-> st.heard, nextId |-> st.nextId,
                    confirm |-> st.confirm, queue |-> st.queue]
BY DEF NodeState

LEMMA NewNodeType ==
    ASSUME NEW blocks \in SUBSET Block
    PROVE  NewNode(blocks) \in NodeState
BY DEF NewNode, NodeState, NoData, Heard

LEMMA FiledType ==
    ASSUME NEW confirm \in SUBSET Entry, NEW burst \in SUBSET Message, NEW t \in Nat
    PROVE  Filed(confirm, burst, t) \in SUBSET Entry
BY DEF Filed, Entry

LEMMA HeartbeatMessageType ==
    ASSUME NEW st \in NodeState, NEW n \in Nodes, NEW p \in Nodes
    PROVE  heartbeatMessage(st, n, p) \in Message
<1>1. st.heard[p].id \in Nat /\ st.nextId[p] \in Nat
  BY NodeStateFields DEF Heard
<1> QED
  BY <1>1 DEF heartbeatMessage, Message

LEMMA HeartbeatType ==
    ASSUME NEW st \in NodeState, NEW n \in Nodes, NEW peers \in SUBSET Nodes, NEW t \in Nat
    PROVE  heartbeat(st, n, peers, t) \in NodeState
<1> DEFINE burst == { heartbeatMessage(st, n, p) : p \in peers }
           ids == idsAfter(st, peers)
<1>1. burst \in SUBSET Message
  BY HeartbeatMessageType
<1>2. ids \in [Nodes -> Nat \ {0}]
  BY NodeStateFields DEF idsAfter
<1>3. Append(st.queue, burst) \in Seq(SUBSET Message)
  BY <1>1, NodeStateFields
<1>4. Filed(st.confirm, burst, t) \in SUBSET Entry
  BY <1>1, FiledType, NodeStateFields
<1>5. heartbeat(st, n, peers, t) =
        [st EXCEPT !.nextId = ids, !.queue = Append(st.queue, burst),
                   !.confirm = Filed(st.confirm, burst, t)]
  BY Zenon DEF heartbeat
<1> HIDE DEF burst, ids
<1> QED
  BY <1>2, <1>3, <1>4, <1>5 DEF NodeState

LEMMA SendCustKeyspaceType ==
    ASSUME NEW st \in NodeState, NEW n \in Nodes, NEW p \in Nodes,
           NEW blocks \in SUBSET Block, NEW t \in Nat
    PROVE  sendCustKeyspace(st, n, p, blocks, t) \in NodeState
<1> DEFINE m == [kind |-> "keyspace", src |-> n, dst |-> p, id |-> st.nextId[p],
                 ack |-> st.heard[p].id, empty |-> FALSE, blocks |-> blocks]
           ids == idsAfter(st, {p})
<1>1. st.heard[p].id \in Nat /\ st.nextId[p] \in Nat
  BY NodeStateFields DEF Heard
<1>2. m \in Message
  BY <1>1 DEF Message
<1>3. ids \in [Nodes -> Nat \ {0}]
  BY NodeStateFields DEF idsAfter
<1>4. Append(st.queue, {m}) \in Seq(SUBSET Message)
  BY <1>2, NodeStateFields
<1>5. Filed(st.confirm, {m}, t) \in SUBSET Entry
  BY <1>2, FiledType, NodeStateFields
<1>6. sendCustKeyspace(st, n, p, blocks, t) =
        [st EXCEPT !.keyspaces = st.keyspaces \ blocks, !.nextId = ids,
                   !.queue = Append(st.queue, {m}), !.confirm = Filed(st.confirm, {m}, t)]
  BY Zenon DEF sendCustKeyspace
<1> HIDE DEF m, ids
<1>7. st.keyspaces \ blocks \in SUBSET Block
  BY NodeStateFields
<1> QED
  BY <1>3, <1>4, <1>5, <1>6, <1>7 DEF NodeState

LEMMA KeyspacesReplaced ==
    ASSUME NEW st \in NodeState, NEW blocks \in SUBSET Block
    PROVE  [st EXCEPT !.keyspaces = blocks] \in NodeState
BY DEF NodeState

LEMMA GiveHalfType ==
    ASSUME NEW st \in NodeState, NEW n \in Nodes, NEW p \in Nodes,
           NEW b \in st.keyspaces, NEW t \in Nat
    PROVE  giveHalf(st, n, p, b, t) \in NodeState
<1>1. b \in Block /\ FirstHalf(b) \in Block /\ SecondHalf(b) \in Block
  BY NodeStateFields, HalvesType
<1>2. splitKeyspace(st, b) \in NodeState
  BY <1>1, NodeStateFields, KeyspacesReplaced DEF splitKeyspace
<1> QED
  BY <1>1, <1>2, SendCustKeyspaceType DEF giveHalf

LEMMA ShareBlocksType ==
    ASSUME NEW st \in NodeState, NEW n \in Nodes, NEW p \in Nodes,
           NEW s \in ShareType(st.keyspaces), NEW t \in Nat
    PROVE  shareBlocks(st, n, p, s, t) \in NodeState
<1> DEFINE blocks == (st.keyspaces \ s.cut) \cup UNION { Chain(b, s.down) : b \in s.cut }
<1>1. \A b \in s.cut : Chain(b, s.down) \subseteq Block
  BY ChainType, NodeStateFields DEF ShareType
<1>2. blocks \in SUBSET Block
  BY <1>1, NodeStateFields
<1>3. [st EXCEPT !.keyspaces = blocks] \in NodeState
  BY <1>2, KeyspacesReplaced
<1>4. s.sent \in SUBSET Block
  BY DEF ShareType
<1> QED
  BY <1>3, <1>4, SendCustKeyspaceType DEF shareBlocks

LEMMA HeardAfterType ==
    ASSUME NEW h \in Heard, NEW m \in Message
    PROVE  heardAfter(h, m) \in Heard
<1>1. CASE h.kind = "none"
  BY <1>1 DEF heardAfter, Heard, Message
<1>2. CASE h.kind # "none" /\ m.kind = "keyspace"
  BY <1>2 DEF heardAfter, Heard, Message
<1>3. CASE h.kind # "none" /\ m.kind = "info"
  BY <1>3 DEF heardAfter, Heard, Message
<1> QED
  BY <1>1, <1>2, <1>3 DEF Message

LEMMA ReceiveMessageType ==
    ASSUME NEW st \in NodeState, NEW m \in Message, NEW t \in Nat
    PROVE  receiveMessage(st, m, t) \in NodeState
<1> DEFINE h      == heardAfter(st.heard[m.src], m)
           gone   == erased(st.confirm, m.src, h.ack)
           resend == due(st.confirm, m.src, h.ack, t)
           again  == { [e EXCEPT !.sent = t] : e \in resend }
           kept   == (st.confirm \ (gone \cup resend)) \cup again
           burst  == { e.msg : e \in resend }
           queued == IF resend = {} THEN st.queue ELSE Append(st.queue, burst)
           heard  == [st.heard EXCEPT ![m.src] = h]
<1>1. m.src \in Nodes /\ m.blocks \in SUBSET Block
  BY DEF Message
<1>2. h \in Heard
  BY <1>1, HeardAfterType, NodeStateFields
<1>3. resend \subseteq st.confirm
  BY DEF due, visited
<1> HIDE DEF resend, gone, h
<1>4. again \subseteq Entry /\ burst \in SUBSET Message
  BY <1>3, NodeStateFields DEF Entry
<1>5. kept \in SUBSET Entry
  BY <1>4, NodeStateFields
<1>6. queued \in Seq(SUBSET Message)
  BY <1>4, NodeStateFields
<1>7. heard \in [Nodes -> Heard]
  BY <1>1, <1>2, NodeStateFields
<1>8. st.keyspaces \cup m.blocks \in SUBSET Block
  BY <1>1, NodeStateFields
<1>9. receiveMessage(st, m, t) =
        [st EXCEPT !.heard = heard, !.confirm = kept, !.queue = queued,
                   !.keyspaces = st.keyspaces \cup m.blocks]
  BY Zenon DEF receiveMessage, resend, gone, h
<1> HIDE DEF kept, queued, heard
<1> QED
  BY <1>5, <1>6, <1>7, <1>8, <1>9 DEF NodeState

LEMMA GetNextKeyType ==
    ASSUME NEW st \in NodeState, NEW b \in st.keyspaces
    PROVE  getNextKey(st, b) \in NodeState
<1>1. b \in Block /\ AfterNextKey(b) \in Block
  BY NodeStateFields, HalvesType
<1>2. (st.keyspaces \ {b}) \cup (IF isKeyAvailable(AfterNextKey(b)) THEN {AfterNextKey(b)} ELSE {})
        \in SUBSET Block
  BY <1>1, NodeStateFields
<1> QED
  BY <1>2, KeyspacesReplaced DEF getNextKey
-----------------------------------------------------------------------------
(* The network and the order of turns. *)

LEMMA QueueType ==
    ASSUME NEW S, NEW s \in Seq(S), NEW x \in S
    PROVE  /\ Append(s, x) \in Seq(S)
           /\ Append(s, x) # << >>
           /\ Head(Append(s, x)) \in S
           /\ Tail(Append(s, x)) \in Seq(S)
OBVIOUS

LEMMA InTurnType ==
    ASSUME TypeOK
    PROVE  InTurn \in Nodes /\ PeersInTurn \subseteq Nodes /\ JoinedCount \in 1 .. N
<1>1. InTurn \in Nodes
  BY JoinOrderAssumption DEF InTurn, TypeOK
<1>2. JoinedCount \in 1 .. N
  BY NAssumption DEF JoinedCount, InSetup, TypeOK
<1>3. Joined \subseteq Nodes
  BY <1>2, JoinOrderAssumption, NAssumption DEF Joined
<1> QED
  BY <1>1, <1>2, <1>3 DEF PeersInTurn, Peers

LEMMA NextTurnType ==
    ASSUME TypeOK, NextTurn
    PROVE  /\ turn' \in 1 .. N
           /\ phase' \in {"beat", "collect", "events", "consume"}
<1>1. turn \in 1 .. N /\ JoinedCount \in 1 .. N /\ N \in Nat \ {0, 1}
  BY InTurnType, NAssumption DEF TypeOK
<1> QED
  BY <1>1 DEF NextTurn, AfterBeats

LEMMA BeatenType ==
    ASSUME TypeOK
    PROVE  Beaten \in NodeState
BY InTurnType, HeartbeatType DEF Beaten, TypeOK

LEMMA InboxAfterType ==
    ASSUME TypeOK, NEW n \in Nodes, inbox[n] # << >>, NEW m
    PROVE  InboxAfter(n, m) \in Batch
<1>1. inbox[n] \in Seq(SUBSET Message)
  BY DEF TypeOK, Batch
<1>2. Head(inbox[n]) \subseteq Message /\ Tail(inbox[n]) \in Seq(SUBSET Message)
  BY <1>1
<1>3. << Head(inbox[n]) \ {m} >> \in Seq(SUBSET Message)
  BY <1>2
<1>4. << Head(inbox[n]) \ {m} >> \o Tail(inbox[n]) \in Seq(SUBSET Message)
  BY <1>2, <1>3
<1> QED
  BY <1>2, <1>4 DEF InboxAfter, TypeOK, Batch

LEMMA NoteShareType ==
    ASSUME TypeOK, nodes' \in [Nodes -> NodeState], NEW p \in Nodes, NoteShare(p)
    PROVE  lastShare' \in [Nodes -> [Nodes -> Nat]]
<1>1. nodes'[InTurn].nextId[p] - 1 \in Nat
  BY InTurnType, NodeStateFields
<1> QED
  BY <1>1, InTurnType DEF NoteShare, TypeOK
-----------------------------------------------------------------------------
LEMMA InitTypeOK == Init => TypeOK
<1> SUFFICES ASSUME Init PROVE TypeOK
  OBVIOUS
<1>1. nodes \in [Nodes -> NodeState]
  BY NewNodeType, RootBlockType DEF Init
<1>2. toSend \in Seq(Batch) /\ inbox \in Batch
  BY DEF Init, Batch, NoMessages
<1>3. turn \in 1 .. N
  BY NAssumption DEF Init
<1>4. issued \in [Key -> Seq(Nodes)] /\ lastShare \in [Nodes -> [Nodes -> Nat]]
  BY DEF Init
<1>5. online \in [Nodes -> BOOLEAN]
  BY Zenon DEF Init
<1>6. /\ latencyStall \in Nat \ {0} /\ outages \in Nat /\ now \in Nat
      /\ phase = "add" /\ deficit = {} /\ digit \in Nat
  BY DEF Init
<1> QED
  BY <1>1, <1>2, <1>3, <1>4, <1>5, <1>6 DEF TypeOK

(* One step per action of the simulation. *)
LEMMA NextTypeOK == TypeOK /\ [Next]_vars => TypeOK'
<1> SUFFICES ASSUME TypeOK, [Next]_vars PROVE TypeOK'
  OBVIOUS
<1> USE DEF TypeOK
<1>0. CASE Dies
  BY <1>0 DEF Dies, network, status, sharing, history
<1>1. CASE AddNode
  BY <1>1 DEF AddNode, AfterAdd, network, status, sharing, history
<1>2. CASE BeatAndGive
  <2>1. PICK p \in FirstAsker(Beaten, PeersInTurn), b \in Largest(Beaten.keyspaces) :
          IF SplitThrows(b) THEN Dies
          ELSE /\ nodes' = [nodes EXCEPT ![InTurn] = giveHalf(Beaten, InTurn, p, b, now)]
               /\ NoteShare(p)
               /\ NextTurn
               /\ UNCHANGED << network, status, now, sharing, issued >>
    BY <1>2 DEF BeatAndGive
  <2>2. CASE SplitThrows(b)
    BY <1>0, <2>1, <2>2
  <2>3. CASE ~SplitThrows(b)
    <3>0. p \in PeersInTurn /\ b \in Beaten.keyspaces
      BY <2>1 DEF FirstAsker, Askers, Largest, FullBlocks
    <3>1. p \in Nodes /\ b \in Beaten.keyspaces
      BY <3>0, InTurnType
    <3>2. nodes' \in [Nodes -> NodeState]
      <4>1. giveHalf(Beaten, InTurn, p, b, now) \in NodeState
        BY <3>1, BeatenType, GiveHalfType, InTurnType
      <4> QED
        BY <2>1, <2>3, <4>1
    <3>3. lastShare' \in [Nodes -> [Nodes -> Nat]]
      BY <2>1, <2>3, <3>1, <3>2, NoteShareType
    <3>4. turn' \in 1 .. N /\ phase' \in {"beat", "collect", "events", "consume"}
      BY <2>1, <2>3, NextTurnType
    <3> QED
      BY <2>1, <2>3, <3>2, <3>3, <3>4 DEF network, status, sharing
  <2> QED
    BY <2>2, <2>3
<1>3. CASE BeatOnly
  <2>1. nodes' \in [Nodes -> NodeState]
    BY <1>3, BeatenType, InTurnType DEF BeatOnly
  <2>2. turn' \in 1 .. N /\ phase' \in {"beat", "collect", "events", "consume"}
    BY <1>3, NextTurnType DEF BeatOnly
  <2> QED
    BY <1>3, <2>1, <2>2 DEF BeatOnly, network, status, sharing, history
<1>4. CASE BeatThenShare
  <2>1. nodes' \in [Nodes -> NodeState]
    BY <1>4, BeatenType, InTurnType DEF BeatThenShare
  <2>2. deficit' \in SUBSET Nodes
    BY <1>4, InTurnType DEF BeatThenShare, HeardPeers
  <2> QED
    BY <1>4, <2>1, <2>2 DEF BeatThenShare, network, status, sharing, history
<1>5. CASE ShareDigit
  <2>0. PICK p \in Neediest, w \in Strides :
          /\ w > digit
          /\ \E s \in Shares(nodes[InTurn].keyspaces, w) :
               IF ShareThrows(s) THEN Dies
               ELSE /\ nodes' = [nodes EXCEPT ![InTurn] = shareBlocks(@, InTurn, p, s, now)]
                    /\ NoteShare(p)
                    /\ digit' = w
                    /\ UNCHANGED << network, status, now, phase, turn, deficit, issued >>
    BY <1>5 DEF ShareDigit
  <2>1. PICK s \in Shares(nodes[InTurn].keyspaces, w) :
          IF ShareThrows(s) THEN Dies
          ELSE /\ nodes' = [nodes EXCEPT ![InTurn] = shareBlocks(@, InTurn, p, s, now)]
               /\ NoteShare(p)
               /\ digit' = w
               /\ UNCHANGED << network, status, now, phase, turn, deficit, issued >>
    BY <2>0
  <2>2. CASE ShareThrows(s)
    BY <1>0, <2>1, <2>2
  <2>3. CASE ~ShareThrows(s)
    <3>1. p \in Nodes /\ w \in Nat
      BY StridesType DEF Neediest
    <3>2. nodes[InTurn] \in NodeState /\ nodes[InTurn].keyspaces \in SUBSET Block
      BY InTurnType, NodeStateFields
    <3>3. s \in ShareType(nodes[InTurn].keyspaces)
      BY <3>2, SharesType
    <3>4. shareBlocks(nodes[InTurn], InTurn, p, s, now) \in NodeState
      BY <3>1, <3>2, <3>3, InTurnType, ShareBlocksType
    <3>5. nodes' \in [Nodes -> NodeState]
      BY <2>1, <2>3, <3>4
    <3>6. lastShare' \in [Nodes -> [Nodes -> Nat]]
      BY <2>1, <2>3, <3>1, <3>5, NoteShareType
    <3> QED
      BY <2>1, <2>3, <3>1, <3>5, <3>6 DEF network, status
  <2> QED
    BY <2>2, <2>3
<1>6. CASE ShareNext
  <2>1. turn' \in 1 .. N
    BY <1>6, NextTurnType DEF ShareNext
  <2>2. phase' \in {"beat", "collect", "events", "consume", phase}
    BY <1>6, NextTurnType DEF ShareNext
  <2> QED
    BY <1>6, <2>1, <2>2 DEF ShareNext, network, status, history
<1>7. CASE Collect
  <2> DEFINE batch == [n \in Nodes |-> nodes[n].queue]
             queued == Append(toSend, batch)
  <2>0. \A n \in Nodes : nodes[n].queue \in Seq(SUBSET Message)
    BY NodeStateFields
  <2>1. batch \in Batch
    BY <2>0 DEF Batch
  <2> HIDE DEF batch
  <2>2. queued \in Seq(Batch) /\ queued # << >> /\ Head(queued) \in Batch /\ Tail(queued) \in Seq(Batch)
    BY <2>1, QueueType
  <2> HIDE DEF queued
  <2>3. nodes' \in [Nodes -> NodeState]
    <3>1. << >> \in Seq(SUBSET Message)
      OBVIOUS
    <3>2. \A st \in NodeState : [st EXCEPT !.queue = << >>] \in NodeState
      BY <3>1 DEF NodeState
    <3> QED
      BY <1>7, <3>2 DEF Collect
  <2>4. /\ toSend' \in Seq(Batch)
        /\ inbox' \in Batch
        /\ latencyStall' \in Nat \ {0}
    <3>1. /\ \/ latencyStall' = latencyStall + 1 \/ latencyStall' = latencyStall
          /\ \/ toSend' = queued \/ toSend' = Tail(queued)
          /\ \/ inbox' = Head(queued) \/ inbox' = inbox
      BY <1>7 DEF Collect, batch, queued
    <3>2. latencyStall' \in Nat \ {0}
      BY <3>1
    <3>3. toSend' \in Seq(Batch) /\ inbox' \in Batch
      BY <2>2, <3>1, Zenon
    <3> QED
      BY <3>2, <3>3
  <2>5. phase' \in {"deliver", "tick", "beat", "events", "consume", "collect"}
    BY <1>7 DEF Collect, AfterDeliver, AfterBeats
  <2> QED
    BY <1>7, <2>3, <2>4, <2>5 DEF Collect, status, sharing, history
<1>8. CASE Deliver
  <2>0. PICK n \in NextSender : \E m \in FirstOf(Head(inbox[n])) :
          /\ IF Arrives(m)
             THEN nodes' = [nodes EXCEPT ![m.dst] = receiveMessage(@, m, now)]
             ELSE UNCHANGED nodes
          /\ inbox' = InboxAfter(n, m)
    BY <1>8 DEF Deliver
  <2>1. PICK m \in FirstOf(Head(inbox[n])) :
          /\ IF Arrives(m)
             THEN nodes' = [nodes EXCEPT ![m.dst] = receiveMessage(@, m, now)]
             ELSE UNCHANGED nodes
          /\ inbox' = InboxAfter(n, m)
    BY <2>0
  <2>2. n \in Nodes /\ inbox[n] # << >>
    BY DEF NextSender
  <2>3. inbox[n] \in Seq(SUBSET Message)
    BY <2>2 DEF Batch
  <2>4. m \in Message
    <3>1. Head(inbox[n]) \in SUBSET Message
      BY <2>2, <2>3
    <3> QED
      BY <2>1, <3>1 DEF FirstOf
  <2>5. m.dst \in Nodes
    BY <2>4 DEF Message
  <2>6. nodes' \in [Nodes -> NodeState]
    <3>1. nodes[m.dst] \in NodeState
      BY <2>5
    <3>2. receiveMessage(nodes[m.dst], m, now) \in NodeState
      BY <2>4, <3>1, ReceiveMessageType
    <3> QED
      BY <2>1, <3>2
  <2>7. inbox' \in Batch
    BY <2>1, <2>2, InboxAfterType
  <2>8. phase' \in {"deliver", "tick", "beat", "events", "consume", "collect"}
    BY <1>8 DEF Deliver, AfterDeliver, AfterBeats
  <2> QED
    BY <1>8, <2>6, <2>7, <2>8 DEF Deliver, status, sharing, history
<1>9. CASE Events
  <2>1. outages' \in Nat
    <3>1. PICK toggled \in SUBSET Nodes :
            outages' = outages + Cardinality({ n \in toggled : online[n] })
      BY <1>9 DEF Events
    <3>2. IsFiniteSet(Nodes)
      BY FS_Interval, NAssumption DEF Nodes
    <3>3. Cardinality({ n \in toggled : online[n] }) \in Nat
      BY <3>2, FS_Subset, FS_CardinalityType
    <3> QED
      BY <3>1, <3>3
  <2>2. online' \in [Nodes -> BOOLEAN]
    BY <1>9 DEF Events
  <2> QED
    BY <1>9, <2>1, <2>2 DEF Events, network, sharing, history
<1>10. CASE ConsumeKey
  <2>1. PICK b \in minimumKeyspace(nodes[InTurn]) :
          /\ nodes' = [nodes EXCEPT ![InTurn] = getNextKey(@, b)]
          /\ issued' = [issued EXCEPT ![b.start] = Append(@, InTurn)]
    BY <1>10 DEF ConsumeKey
  <2>2. nodes[InTurn] \in NodeState /\ b \in nodes[InTurn].keyspaces
    BY <2>1, InTurnType DEF minimumKeyspace
  <2>3. nodes' \in [Nodes -> NodeState]
    <3>1. getNextKey(nodes[InTurn], b) \in NodeState
      BY <2>2, GetNextKeyType
    <3> QED
      BY <2>1, <3>1
  <2>4. issued' \in [Key -> Seq(Nodes)]
    <3>1. \A k \in Key : Append(issued[k], InTurn) \in Seq(Nodes)
      BY InTurnType, QueueType
    <3> QED
      BY <2>1, <3>1
  <2>5. turn' \in 1 .. N /\ phase' \in {"consume", "tick"}
    BY <1>10, NAssumption DEF ConsumeKey, NextConsumer
  <2> QED
    BY <1>10, <2>3, <2>4, <2>5 DEF ConsumeKey, network, status, sharing
<1>11. CASE ConsumeNothing
  <2>1. turn' \in 1 .. N /\ phase' \in {"consume", "tick"}
    BY <1>11, NAssumption DEF ConsumeNothing, NextConsumer
  <2> QED
    BY <1>11, <2>1 DEF ConsumeNothing, network, status, sharing, history
<1>12. CASE Tick
  <2>1. now' \in Nat /\ phase' \in {"add", "done", "collect"}
    BY <1>12 DEF Tick, AfterTick
  <2> QED
    BY <1>12, <2>1 DEF Tick, network, status, sharing, history
<1>13. CASE UNCHANGED vars
  BY <1>13 DEF vars
<1> QED
  BY <1>1, <1>2, <1>3, <1>4, <1>5, <1>6, <1>7, <1>8, <1>9, <1>10, <1>11, <1>12, <1>13
  DEF Next

(* The state of every node, the batches on their way and the bookkeeping   *)
(* of the loops have their types in every reachable state: no split, share *)
(* or confirmation makes an ill-formed block, message or entry.            *)
THEOREM TypeCorrect == Spec => []TypeOK
BY InitTypeOK, NextTypeOK, PTL DEF Spec
-----------------------------------------------------------------------------
(***************************************************************************)
(* While no node goes offline every message is delivered, in order and     *)
(* confirmed in time, so that nothing is ever sent again: proofs, for any  *)
(* number of nodes, any latency and any schedule.                          *)
(*                                                                         *)
(* A message waits at a level: in the batch being delivered (level 0), in  *)
(* a batch that waits out the latency (1 .. Len(toSend)), or in the queue  *)
(* of its sender (the level above).  The batches of all levels are the     *)
(* line; the invariant is about a line lv with its top level, the states   *)
(* nds of the nodes, and the tick c of the next collection, so that one    *)
(* lemma covers every way of sending.                                      *)
(***************************************************************************)

(* Message m of sender n waits at level l, in the i-th burst. *)
Way(lv, top, l, n, i, m) ==
    /\ l \in 0 .. top
    /\ n \in Nodes
    /\ i \in DOMAIN lv[l][n]
    /\ m \in lv[l][n][i]

Before(l, i, k, j) == l < k \/ (l = k /\ i < j)

(* The tick in which the batch of level l is delivered. *)
Due(top, c, l) == c + Latency - 1 + l - top
-----------------------------------------------------------------------------
(* The messages of one node to another are on their way in the order of    *)
(* their ids, each id between the last one heard and the next one to be    *)
(* given exactly once.                                                     *)
SourceInv(nds, lv, top) ==
    \A l \in 0 .. top, n \in Nodes : \A i \in DOMAIN lv[l][n] : \A m \in lv[l][n][i] :
        /\ m.src = n
        /\ nds[m.dst].heard[n].id < m.id
        /\ m.id < nds[n].nextId[m.dst]

OrderInv(lv, top) ==
    \A l, k \in 0 .. top, n \in Nodes :
      \A i \in DOMAIN lv[l][n], j \in DOMAIN lv[k][n] :
        \A m \in lv[l][n][i], x \in lv[k][n][j] :
          m.dst = x.dst => /\ Before(l, i, k, j) => m.id < x.id
                           /\ l = k /\ i = j => m = x

NoGapInv(nds, lv, top) ==
    \A n, p \in Nodes :
      \A d \in (nds[p].heard[n].id + 1) .. (nds[n].nextId[p] - 1) :
        \E l \in 0 .. top : \E i \in DOMAIN lv[l][n] : \E m \in lv[l][n][i] :
          m.dst = p /\ m.id = d

HeardInv(nds) == \A n, p \in Nodes : nds[p].heard[n].id < nds[n].nextId[p]

(* What is kept for confirmation was sent, and is delivered a latency      *)
(* after it was filed at the latest; a message that does not confirm it    *)
(* comes before two latencies are over.                                    *)
FiledInv(nds) ==
    \A n \in Nodes : \A e \in nds[n].confirm : e.msg.id < nds[n].nextId[e.msg.dst]

SentInv(nds, lv, top, c) ==
    \A l \in 0 .. top, n \in Nodes : \A i \in DOMAIN lv[l][n] : \A m \in lv[l][n][i] :
      \A e \in nds[n].confirm :
        e.msg.dst = m.dst /\ e.msg.id = m.id => Due(top, c, l) <= e.sent + Latency

AnswerInv(nds, lv, top, c) ==
    \A l \in 0 .. top, n \in Nodes : \A i \in DOMAIN lv[l][n] : \A m \in lv[l][n][i] :
      \A e \in nds[m.dst].confirm :
        e.msg.dst = n /\ m.ack < e.msg.id => Due(top, c, l) < e.sent + 2 * Latency

Orderly(nds, lv, top, c) ==
    /\ SourceInv(nds, lv, top)
    /\ OrderInv(lv, top)
    /\ NoGapInv(nds, lv, top)
    /\ HeardInv(nds)
    /\ FiledInv(nds)
    /\ SentInv(nds, lv, top, c)
    /\ AnswerInv(nds, lv, top, c)
-----------------------------------------------------------------------------
(* The invariant of the simulation.                                        *)

Top == Len(toSend) + 1

LineOf(nds, batches, first) ==
    [l \in 0 .. Len(batches) + 1 |->
        IF l = 0 THEN first
        ELSE IF l <= Len(batches) THEN batches[l] ELSE [n \in Nodes |-> nds[n].queue]]

line == LineOf(nodes, toSend, inbox)

(* No step but a collection, which shifts the levels, changes it. *)
NextCollect ==
    IF \/ phase \in {"deliver", "tick", "events", "consume"}
       \/ ~InSetup /\ phase \in {"beat", "share", "died"}
    THEN now + 1 ELSE now

(* The order of the loop, and how much the latency holds back. *)
LoopInv ==
    /\ \A n \in Nodes : online[n]
    /\ phase = "add" => InSetup
    /\ phase # "deliver" => inbox = NoMessages
    /\ phase = "deliver" => Top = Latency
    /\ Top = latencyStall
    /\ latencyStall <= Latency

CalmDelivery == outages = 0 => LoopInv /\ Orderly(nodes, line, Top, NextCollect)
-----------------------------------------------------------------------------
LEMMA SourceFlat ==
    ASSUME NEW nds, NEW lv, NEW top
    PROVE  SourceInv(nds, lv, top) <=>
             \A l, n, i, m : Way(lv, top, l, n, i, m) =>
                /\ m.src = n
                /\ nds[m.dst].heard[n].id < m.id
                /\ m.id < nds[n].nextId[m.dst]
BY Zenon DEF SourceInv, Way

LEMMA OrderFlat ==
    ASSUME NEW lv, NEW top
    PROVE  OrderInv(lv, top) <=>
             \A l, k, n, i, j, m, x :
               Way(lv, top, l, n, i, m) /\ Way(lv, top, k, n, j, x) /\ m.dst = x.dst =>
                 /\ Before(l, i, k, j) => m.id < x.id
                 /\ l = k /\ i = j => m = x
<1> DEFINE Flat == \A l, k, n, i, j, m, x :
                     Way(lv, top, l, n, i, m) /\ Way(lv, top, k, n, j, x) /\ m.dst = x.dst =>
                       /\ Before(l, i, k, j) => m.id < x.id
                       /\ l = k /\ i = j => m = x
<1>1. ASSUME OrderInv(lv, top) PROVE Flat
  <2> SUFFICES ASSUME NEW l, NEW k, NEW n, NEW i, NEW j, NEW m, NEW x,
                      Way(lv, top, l, n, i, m), Way(lv, top, k, n, j, x), m.dst = x.dst
               PROVE  /\ Before(l, i, k, j) => m.id < x.id
                      /\ l = k /\ i = j => m = x
    OBVIOUS
  <2> QED
    BY <1>1 DEF OrderInv, Way
<1>2. ASSUME Flat PROVE OrderInv(lv, top)
  <2> SUFFICES ASSUME NEW l \in 0 .. top, NEW k \in 0 .. top, NEW n \in Nodes,
                      NEW i \in DOMAIN lv[l][n], NEW j \in DOMAIN lv[k][n],
                      NEW m \in lv[l][n][i], NEW x \in lv[k][n][j], m.dst = x.dst
               PROVE  /\ Before(l, i, k, j) => m.id < x.id
                      /\ l = k /\ i = j => m = x
    BY Zenon DEF OrderInv
  <2>1. Way(lv, top, l, n, i, m) /\ Way(lv, top, k, n, j, x)
    BY Zenon DEF Way
  <2> QED
    BY <1>2, <2>1
<1> QED
  BY <1>1, <1>2

LEMMA NoGapFlat ==
    ASSUME NEW nds, NEW lv, NEW top
    PROVE  NoGapInv(nds, lv, top) <=>
             \A n, p \in Nodes :
               \A d \in (nds[p].heard[n].id + 1) .. (nds[n].nextId[p] - 1) :
                 \E l, i, m : Way(lv, top, l, n, i, m) /\ m.dst = p /\ m.id = d
<1>1. \A n \in Nodes : \A p, d :
        (\E l \in 0 .. top : \E i \in DOMAIN lv[l][n] : \E m \in lv[l][n][i] :
            m.dst = p /\ m.id = d)
        <=> \E l, i, m : Way(lv, top, l, n, i, m) /\ m.dst = p /\ m.id = d
  BY Zenon DEF Way
<1> DEFINE There(n, p, d) == \E l \in 0 .. top : \E i \in DOMAIN lv[l][n] : \E m \in lv[l][n][i] :
                                m.dst = p /\ m.id = d
           Some(n, p, d) == \E l, i, m : Way(lv, top, l, n, i, m) /\ m.dst = p /\ m.id = d
           Gap(n, p) == (nds[p].heard[n].id + 1) .. (nds[n].nextId[p] - 1)
<1>2. NoGapInv(nds, lv, top) <=> \A n, p \in Nodes : \A d \in Gap(n, p) : There(n, p, d)
  BY DEF NoGapInv
<1>3. \A n \in Nodes : \A p, d : There(n, p, d) <=> Some(n, p, d)
  BY <1>1
<1> HIDE DEF There, Some, Gap
<1>4. NoGapInv(nds, lv, top) <=> \A n, p \in Nodes : \A d \in Gap(n, p) : Some(n, p, d)
  BY <1>2, <1>3
<1> QED
  BY <1>4 DEF Some, Gap

LEMMA SentFlat ==
    ASSUME NEW nds, NEW lv, NEW top, NEW c
    PROVE  SentInv(nds, lv, top, c) <=>
             \A l, n, i, m : Way(lv, top, l, n, i, m) =>
               \A e \in nds[n].confirm :
                 e.msg.dst = m.dst /\ e.msg.id = m.id => Due(top, c, l) <= e.sent + Latency
BY Zenon DEF SentInv, Way

LEMMA AnswerFlat ==
    ASSUME NEW nds, NEW lv, NEW top, NEW c
    PROVE  AnswerInv(nds, lv, top, c) <=>
             \A l, n, i, m : Way(lv, top, l, n, i, m) =>
               \A e \in nds[m.dst].confirm :
                 e.msg.dst = n /\ m.ack < e.msg.id => Due(top, c, l) < e.sent + 2 * Latency
BY Zenon DEF AnswerInv, Way
-----------------------------------------------------------------------------
(* What waits in the line after each kind of step. *)

LEMMA WayType ==
    ASSUME NEW top \in Nat, NEW lv \in [0 .. top -> Batch],
           NEW l, NEW n, NEW i, NEW m, Way(lv, top, l, n, i, m)
    PROVE  /\ l \in 0 .. top /\ n \in Nodes /\ m \in Message
           /\ lv[l][n] \in Seq(SUBSET Message)
           /\ i \in 1 .. Len(lv[l][n])
<1>1. l \in 0 .. top /\ n \in Nodes /\ i \in DOMAIN lv[l][n] /\ m \in lv[l][n][i]
  BY DEF Way
<1>2. lv[l][n] \in Seq(SUBSET Message)
  BY <1>1 DEF Batch
<1>3. i \in 1 .. Len(lv[l][n]) /\ lv[l][n][i] \in SUBSET Message
  BY <1>1, <1>2
<1> QED
  BY <1>1, <1>2, <1>3

(* A burst is queued. *)
Queued(lv, top, a, burst) ==
    [lv EXCEPT ![top] = [lv[top] EXCEPT ![a] = Append(lv[top][a], burst)]]

LEMMA WayQueued ==
    ASSUME NEW top \in Nat, NEW lv \in [0 .. top -> Batch],
           NEW a \in Nodes, NEW burst \in SUBSET Message
    PROVE  /\ Queued(lv, top, a, burst) \in [0 .. top -> Batch]
           /\ \A l, n, i, m : Way(Queued(lv, top, a, burst), top, l, n, i, m) <=>
                \/ Way(lv, top, l, n, i, m)
                \/ l = top /\ n = a /\ i = Len(lv[top][a]) + 1 /\ m \in burst
<1> DEFINE old == lv[top][a]
           new == Append(old, burst)
           lv2 == Queued(lv, top, a, burst)
<1>1. top \in 0 .. top /\ lv[top] \in [Nodes -> Seq(SUBSET Message)] /\ old \in Seq(SUBSET Message)
  BY DEF Batch
<1> HIDE DEF old
<1>2. /\ new \in Seq(SUBSET Message)
      /\ DOMAIN new = 1 .. Len(old) + 1
      /\ DOMAIN old = 1 .. Len(old)
      /\ Len(old) \in Nat
      /\ \A i \in 1 .. Len(old) : new[i] = old[i]
      /\ new[Len(old) + 1] = burst
  BY <1>1
<1> HIDE DEF new
<1>3. lv2 = [lv EXCEPT ![top] = [lv[top] EXCEPT ![a] = new]]
  BY Zenon DEF new, Queued, old
<1>4. /\ lv2 \in [0 .. top -> Batch]
      /\ \A l \in 0 .. top, n \in Nodes :
            lv2[l][n] = IF l = top /\ n = a THEN new ELSE lv[l][n]
  BY <1>1, <1>2, <1>3 DEF Batch
<1> HIDE DEF lv2
<1>5. ASSUME NEW l \in 0 .. top, NEW n \in Nodes, NEW i, NEW m
      PROVE  Way(lv2, top, l, n, i, m) <=>
                \/ Way(lv, top, l, n, i, m)
                \/ l = top /\ n = a /\ i = Len(old) + 1 /\ m \in burst
  <2>1. CASE ~(l = top /\ n = a)
    BY <1>4, <2>1 DEF Way
  <2>2. CASE l = top /\ n = a
    <3>1. lv2[l][n] = new /\ lv[l][n] = old
      BY <1>4, <2>2 DEF old
    <3>2. Way(lv2, top, l, n, i, m) <=> i \in 1 .. Len(old) + 1 /\ m \in new[i]
      BY <1>2, <3>1 DEF Way
    <3>3. Way(lv, top, l, n, i, m) <=> i \in 1 .. Len(old) /\ m \in old[i]
      BY <1>2, <3>1 DEF Way
    <3> QED
      BY <1>2, <2>2, <3>2, <3>3
  <2> QED
    BY <2>1, <2>2
<1>6. \A l, n, i, m : Way(lv2, top, l, n, i, m) \/ Way(lv, top, l, n, i, m) =>
                         l \in 0 .. top /\ n \in Nodes
  BY Zenon DEF Way
<1> QED
  BY <1>1, <1>4, <1>5, <1>6 DEF lv2, old

(* The levels move up by one, or down. *)
HeldBack(lv, top) == [l \in 0 .. top + 1 |-> IF l <= top THEN lv[l] ELSE NoMessages]
Shifted(lv, top) == [l \in 0 .. top |-> IF l < top THEN lv[l + 1] ELSE NoMessages]

LEMMA WayHeldBack ==
    ASSUME NEW top \in Nat, NEW lv \in [0 .. top -> Batch]
    PROVE  \A l, n, i, m : Way(HeldBack(lv, top), top + 1, l, n, i, m) <=> Way(lv, top, l, n, i, m)
<1> TAKE l, n, i, m
<1>1. Way(HeldBack(lv, top), top + 1, l, n, i, m) =>
        l \in 0 .. top + 1 /\ n \in Nodes /\ i \in DOMAIN HeldBack(lv, top)[l][n]
  BY Zenon DEF Way
<1>2. ASSUME n \in Nodes PROVE NoMessages[n] = << >> /\ DOMAIN NoMessages[n] = {}
  BY <1>2 DEF NoMessages
<1>3. CASE l \in 0 .. top
  BY <1>3 DEF Way, HeldBack
<1>4. CASE l = top + 1
  <2>1. HeldBack(lv, top)[l] = NoMessages /\ l \notin 0 .. top
    BY <1>4 DEF HeldBack
  <2> QED
    BY <1>1, <1>2, <2>1 DEF Way
<1> QED
  BY <1>1, <1>3, <1>4 DEF Way

LEMMA WayShifted ==
    ASSUME NEW top \in Nat \ {0}, NEW lv \in [0 .. top -> Batch]
    PROVE  \A l, n, i, m : Way(Shifted(lv, top), top, l, n, i, m) <=>
                             l \in Nat /\ Way(lv, top, l + 1, n, i, m)
<1> TAKE l, n, i, m
<1>1. ASSUME n \in Nodes PROVE NoMessages[n] = << >> /\ DOMAIN NoMessages[n] = {}
  BY <1>1 DEF NoMessages
<1>2. CASE l \in 0 .. top - 1
  <2>1. l \in 0 .. top /\ l + 1 \in 0 .. top /\ Shifted(lv, top)[l] = lv[l + 1]
    BY <1>2 DEF Shifted
  <2> QED
    BY <2>1 DEF Way
<1>3. CASE l = top
  <2>1. Shifted(lv, top)[l] = NoMessages /\ l + 1 \notin 0 .. top
    BY <1>3 DEF Shifted
  <2> QED
    BY <1>1, <2>1 DEF Way
<1>4. CASE l \notin 0 .. top
  BY <1>4 DEF Way
<1> QED
  BY <1>2, <1>3, <1>4

(* The first message of a sender leaves the inbox. *)
Rest(lv, n, m) ==
    [lv EXCEPT ![0] = [lv[0] EXCEPT ![n] =
        IF Head(lv[0][n]) = {m} THEN Tail(lv[0][n])
        ELSE << Head(lv[0][n]) \ {m} >> \o Tail(lv[0][n])]]

LEMMA WayRest ==
    ASSUME NEW top \in Nat, NEW lv \in [0 .. top -> Batch],
           NEW a \in Nodes, lv[0][a] # << >>, NEW m \in Head(lv[0][a])
    PROVE  /\ Rest(lv, a, m) \in [0 .. top -> Batch]
           /\ Way(lv, top, 0, a, 1, m)
           /\ \E d \in {0, 1} :
               /\ d = 1 => \A x : Way(lv, top, 0, a, 1, x) => x = m
               /\ \A l, n, i, x : Way(Rest(lv, a, m), top, l, n, i, x) <=>
                    IF l = 0 /\ n = a
                    THEN i \in Nat \ {0} /\ Way(lv, top, 0, a, i + d, x) /\ ~(i + d = 1 /\ x = m)
                    ELSE Way(lv, top, l, n, i, x)
<1> DEFINE old == lv[0][a]
           new == IF Head(old) = {m} THEN Tail(old) ELSE << Head(old) \ {m} >> \o Tail(old)
           d   == IF Head(old) = {m} THEN 1 ELSE 0
           lv2 == Rest(lv, a, m)
<1>1. /\ 0 \in 0 .. top /\ lv[0] \in [Nodes -> Seq(SUBSET Message)]
      /\ old \in Seq(SUBSET Message) /\ old # << >> /\ m \in Head(old)
  BY DEF Batch
<1>2. lv2 = [lv EXCEPT ![0] = [lv[0] EXCEPT ![a] = new]]
  BY Zenon DEF Rest
<1> HIDE DEF old
<1>3. /\ Head(old) \in SUBSET Message /\ Head(old) = old[1]
      /\ Tail(old) \in Seq(SUBSET Message) /\ Len(old) \in Nat \ {0}
      /\ Len(Tail(old)) = Len(old) - 1 /\ DOMAIN Tail(old) = 1 .. Len(old) - 1
      /\ \A i \in 1 .. Len(old) - 1 : Tail(old)[i] = old[i + 1]
      /\ DOMAIN old = 1 .. Len(old)
  BY <1>1
<1>4. << Head(old) \ {m} >> \in Seq(SUBSET Message) /\ Len(<< Head(old) \ {m} >>) = 1
      /\ << Head(old) \ {m} >>[1] = Head(old) \ {m}
  BY <1>3
<1>5. new \in Seq(SUBSET Message)
  BY <1>3, <1>4
<1>6. \A i, x : i \in DOMAIN new /\ x \in new[i] <=>
          i \in Nat \ {0} /\ i + d \in DOMAIN old /\ x \in old[i + d] /\ ~(i + d = 1 /\ x = m)
  <2> TAKE i, x
  <2>1. CASE Head(old) = {m}
    <3>1. new = Tail(old) /\ d = 1
      BY <2>1
    <3>2. DOMAIN new = 1 .. Len(old) - 1
      BY <1>3, <3>1
    <3>3. i \in DOMAIN new <=> i \in Nat \ {0} /\ i + 1 \in DOMAIN old
      BY <1>3, <3>2
    <3> HIDE DEF new, d
    <3>4. ASSUME i \in DOMAIN new PROVE new[i] = old[i + d] /\ i + d # 1
      BY <1>3, <3>1, <3>2, <3>4
    <3> QED
      BY <3>1, <3>3, <3>4
  <2>2. CASE Head(old) # {m}
    <3>1. new = << Head(old) \ {m} >> \o Tail(old) /\ d = 0
      BY <2>2
    <3>2. /\ DOMAIN new = 1 .. Len(old) /\ new[1] = Head(old) \ {m}
          /\ \A j \in 2 .. Len(old) : new[j] = old[j]
      BY <1>3, <1>4, <3>1
    <3> HIDE DEF new, d
    <3>3. i \in DOMAIN new <=> i \in Nat \ {0} /\ i + 0 \in DOMAIN old
      BY <1>3, <3>2
    <3>4. ASSUME i \in DOMAIN new PROVE x \in new[i] <=> x \in old[i + 0] /\ ~(i + 0 = 1 /\ x = m)
      <4>1. CASE i = 1
        BY <1>3, <3>2, <4>1
      <4>2. CASE i \in 2 .. Len(old)
        BY <1>3, <3>2, <4>2
      <4> QED
        BY <3>2, <3>4, <4>1, <4>2
    <3> QED
      BY <3>1, <3>3, <3>4
  <2> QED
    BY <2>1, <2>2
<1>7. d \in {0, 1}
  OBVIOUS
<1>11. d = 1 => \A x : Way(lv, top, 0, a, 1, x) => x = m
  BY <1>3 DEF Way, old
<1> HIDE DEF new, d
<1>8. /\ lv2 \in [0 .. top -> Batch]
      /\ \A l \in 0 .. top, n \in Nodes :
            lv2[l][n] = IF l = 0 /\ n = a THEN new ELSE lv[l][n]
  BY <1>1, <1>2, <1>5 DEF Batch
<1> HIDE DEF lv2
<1>9. Way(lv, top, 0, a, 1, m)
  BY <1>1, <1>3 DEF Way, old
<1>10. \A l, n, i, x : Way(lv2, top, l, n, i, x) <=>
                 IF l = 0 /\ n = a
                 THEN i \in Nat \ {0} /\ Way(lv, top, 0, a, i + d, x) /\ ~(i + d = 1 /\ x = m)
                 ELSE Way(lv, top, l, n, i, x)
  <2> TAKE l, n, i, x
  <2>1. CASE l = 0 /\ n = a
    <3>1. lv2[0][a] = new
      BY <1>8, <1>1
    <3>2. Way(lv2, top, l, n, i, x) <=> i \in DOMAIN new /\ x \in new[i]
      BY <1>1, <2>1, <3>1 DEF Way
    <3>3. Way(lv, top, 0, a, i + d, x) <=> i + d \in DOMAIN old /\ x \in old[i + d]
      BY <1>1 DEF Way, old
    <3> QED
      BY <1>6, <2>1, <3>2, <3>3
  <2>2. CASE ~(l = 0 /\ n = a)
    BY <1>8, <2>2 DEF Way
  <2> QED
    BY <2>1, <2>2
<1> QED
  BY <1>7, <1>8, <1>9, <1>10, <1>11 DEF lv2
-----------------------------------------------------------------------------
(* Sending.  Whatever a call puts on the queue, the heartbeats or one      *)
(* keyspace message, it is the next message for each of some peers.        *)

NextFor(st, a, peers, burst) ==
    /\ burst \subseteq Message
    /\ \A m \in burst : /\ m.src = a
                        /\ m.dst \in peers
                        /\ m.id = st.nextId[m.dst]
                        /\ m.ack = st.heard[m.dst].id
    /\ \A p \in peers : \E m \in burst : m.dst = p
    /\ \A m, x \in burst : m.dst = x.dst => m = x

(* The state st2 of a node that has sent the burst in the tick t. *)
Sends(st, st2, a, peers, burst, t) ==
    /\ NextFor(st, a, peers, burst)
    /\ st2 \in NodeState
    /\ st2.heard = st.heard
    /\ st2.nextId = idsAfter(st, peers)
    /\ st2.queue = Append(st.queue, burst)
    /\ st2.confirm = Filed(st.confirm, burst, t)

LEMMA FieldTypes ==
    ASSUME NEW nds \in [Nodes -> NodeState]
    PROVE  /\ \A n, p \in Nodes : nds[n].heard[p].id \in Nat /\ nds[n].nextId[p] \in Nat
           /\ \A n \in Nodes : \A e \in nds[n].confirm :
                e.sent \in Nat /\ e.msg \in Message /\ e.msg.dst \in Nodes /\ e.msg.id \in Nat
<1>1. \A n \in Nodes : nds[n].heard \in [Nodes -> Heard] /\ nds[n].nextId \in [Nodes -> Nat \ {0}]
                        /\ nds[n].confirm \subseteq Entry
  BY NodeStateFields
<1> QED
  BY <1>1 DEF Entry, Message, Heard

LEMMA SendOrderly ==
    ASSUME NEW nds \in [Nodes -> NodeState],
           NEW top \in Nat, NEW lv \in [0 .. top -> Batch], lv[0] = NoMessages, top <= Latency,
           NEW t \in Nat, NEW c \in Nat, c <= t + 1,
           NEW a \in Nodes, NEW peers \in SUBSET Nodes, NEW burst, NEW st2,
           Sends(nds[a], st2, a, peers, burst, t),
           Orderly(nds, lv, top, c)
    PROVE  Orderly([nds EXCEPT ![a] = st2], Queued(lv, top, a, burst), top, c)
<1> DEFINE nds2 == [nds EXCEPT ![a] = st2]
           lv2  == Queued(lv, top, a, burst)
           last == Len(lv[top][a]) + 1
           Old(l, n, i, m) == Way(lv, top, l, n, i, m)
           New(l, n, i, m) == l = top /\ n = a /\ i = last /\ m \in burst
<1>0. NextFor(nds[a], a, peers, burst) /\ burst \in SUBSET Message
  BY DEF Sends, NextFor
<1>1. \A l, n, i, m : Way(lv2, top, l, n, i, m) <=> Old(l, n, i, m) \/ New(l, n, i, m)
  BY <1>0, WayQueued
<1>2. \A m \in burst : /\ m.src = a /\ m.dst \in peers /\ m.dst \in Nodes
                       /\ m.id = nds[a].nextId[m.dst] /\ m.ack = nds[a].heard[m.dst].id
                       /\ m \in Message /\ m.id \in Nat /\ m.ack \in Nat
  BY <1>0 DEF NextFor, Message
<1>3. /\ \A p \in peers : \E m \in burst : m.dst = p
      /\ \A m, x \in burst : m.dst = x.dst => m = x
  BY <1>0 DEF NextFor
<1>4. /\ \A n \in Nodes : nds2[n].heard = nds[n].heard
      /\ \A n, p \in Nodes : nds2[n].nextId[p] =
            IF n = a /\ p \in peers THEN nds[n].nextId[p] + 1 ELSE nds[n].nextId[p]
      /\ \A n \in Nodes : \A e \in nds2[n].confirm :
            \/ e \in nds[n].confirm
            \/ n = a /\ e.msg \in burst /\ e.sent = t
  <2>1. \A n \in Nodes : nds2[n] = IF n = a THEN st2 ELSE nds[n]
    OBVIOUS
  <2>2. \A p \in Nodes : st2.nextId[p] =
            IF p \in peers THEN nds[a].nextId[p] + 1 ELSE nds[a].nextId[p]
    BY DEF Sends, idsAfter
  <2>3. \A e \in st2.confirm : e \in nds[a].confirm \/ (e.msg \in burst /\ e.sent = t)
    BY DEF Sends, Filed
  <2>4. st2.heard = nds[a].heard
    BY DEF Sends
  <2> HIDE DEF nds2
  <2> QED
    BY <2>1, <2>2, <2>3, <2>4
<1>5. /\ \A n, p \in Nodes : nds[n].heard[p].id \in Nat /\ nds[n].nextId[p] \in Nat
      /\ \A n \in Nodes : \A e \in nds[n].confirm :
            e.sent \in Nat /\ e.msg \in Message /\ e.msg.dst \in Nodes /\ e.msg.id \in Nat
  BY FieldTypes
<1>6. /\ \A l, n, i, m : Old(l, n, i, m) => /\ l \in 0 .. top /\ n \in Nodes /\ i \in 1 .. Len(lv[l][n])
                                            /\ m.dst \in Nodes /\ m.id \in Nat /\ m.ack \in Nat
      /\ \A i, m : Old(top, a, i, m) => i \in Nat /\ i < last
      /\ last \in Nat
      /\ \A l, n, i, m : Old(l, n, i, m) => l # 0
  <2>1. \A l, n, i, m : Old(l, n, i, m) => /\ l \in 0 .. top /\ n \in Nodes /\ m \in Message
                                          /\ i \in 1 .. Len(lv[l][n])
    BY WayType
  <2>2. lv[top][a] \in Seq(SUBSET Message)
    BY DEF Batch
  <2>3. Len(lv[top][a]) \in Nat
    BY <2>2
  <2>4. \A n, i, m : ~ Old(0, n, i, m)
    BY DEF Way, NoMessages
  <2> HIDE DEF Old
  <2> QED
    BY <2>1, <2>3, <2>4 DEF Message
<1> HIDE DEF nds2, lv2, last, Old
<1>src. \A l, n, i, m : Old(l, n, i, m) =>
            m.src = n /\ nds[m.dst].heard[n].id < m.id /\ m.id < nds[n].nextId[m.dst]
  BY SourceFlat DEF Orderly, Old
<1>ord. \A l, k, n, i, j, m, x : Old(l, n, i, m) /\ Old(k, n, j, x) /\ m.dst = x.dst =>
            (Before(l, i, k, j) => m.id < x.id) /\ (l = k /\ i = j => m = x)
  BY OrderFlat DEF Orderly, Old
<1>gap. \A n, p \in Nodes : \A d \in (nds[p].heard[n].id + 1) .. (nds[n].nextId[p] - 1) :
            \E l, i, m : Old(l, n, i, m) /\ m.dst = p /\ m.id = d
  BY NoGapFlat DEF Orderly, Old
<1>hrd. \A n, p \in Nodes : nds[p].heard[n].id < nds[n].nextId[p]
  BY DEF Orderly, HeardInv
<1>fil. \A n \in Nodes : \A e \in nds[n].confirm : e.msg.id < nds[n].nextId[e.msg.dst]
  BY DEF Orderly, FiledInv
<1>8. /\ \A l, n, i, m : Old(l, n, i, m) => \A e \in nds[n].confirm :
            e.msg.dst = m.dst /\ e.msg.id = m.id => Due(top, c, l) <= e.sent + Latency
      /\ \A l, n, i, m : Old(l, n, i, m) => \A e \in nds[m.dst].confirm :
            e.msg.dst = n /\ m.ack < e.msg.id => Due(top, c, l) < e.sent + 2 * Latency
  BY SentFlat, AnswerFlat DEF Orderly, Old
<1>9. SourceInv(nds2, lv2, top)
  <2> SUFFICES ASSUME NEW l, NEW n, NEW i, NEW m, Old(l, n, i, m) \/ New(l, n, i, m)
               PROVE  m.src = n /\ nds2[m.dst].heard[n].id < m.id /\ m.id < nds2[n].nextId[m.dst]
    BY <1>1, SourceFlat
  <2>1. CASE Old(l, n, i, m)
    <3>1. n \in Nodes /\ m.dst \in Nodes /\ m.id \in Nat /\ nds[n].nextId[m.dst] \in Nat
      BY <1>5, <1>6, <2>1
    <3>2. m.src = n /\ nds[m.dst].heard[n].id < m.id /\ m.id < nds[n].nextId[m.dst]
      BY <1>src, <2>1
    <3> QED
      BY <1>4, <3>1, <3>2
  <2>2. CASE New(l, n, i, m)
    BY <1>2, <1>4, <1>5, <1>hrd, <2>2
  <2> QED
    BY <2>1, <2>2
<1>10. OrderInv(lv2, top)
  <2> SUFFICES ASSUME NEW l, NEW k, NEW n, NEW i, NEW j, NEW m, NEW x,
                      Way(lv2, top, l, n, i, m), Way(lv2, top, k, n, j, x), m.dst = x.dst
               PROVE  /\ Before(l, i, k, j) => m.id < x.id
                      /\ l = k /\ i = j => m = x
    BY OrderFlat
  <2>1. CASE Old(l, n, i, m) /\ Old(k, n, j, x)
    BY <1>ord, <2>1
  <2>2. CASE Old(l, n, i, m) /\ New(k, n, j, x)
    BY <1>2, <1>6, <1>src, <2>2 DEF Before
  <2>3. CASE New(l, n, i, m) /\ Old(k, n, j, x)
    BY <1>6, <2>3 DEF Before
  <2>4. CASE New(l, n, i, m) /\ New(k, n, j, x)
    BY <1>3, <1>6, <2>4 DEF Before
  <2> QED
    BY <1>1, <2>1, <2>2, <2>3, <2>4
<1>11. NoGapInv(nds2, lv2, top)
  <2> SUFFICES ASSUME NEW n \in Nodes, NEW p \in Nodes,
                      NEW d \in (nds2[p].heard[n].id + 1) .. (nds2[n].nextId[p] - 1)
               PROVE  \E l, i, m : Way(lv2, top, l, n, i, m) /\ m.dst = p /\ m.id = d
    BY NoGapFlat
  <2>1. CASE d \in (nds[p].heard[n].id + 1) .. (nds[n].nextId[p] - 1)
    BY <1>1, <1>gap, <2>1
  <2>2. CASE d \notin (nds[p].heard[n].id + 1) .. (nds[n].nextId[p] - 1)
    <3>1. n = a /\ p \in peers /\ d = nds[n].nextId[p]
      BY <1>4, <1>5, <2>2
    <3>2. PICK m \in burst : m.dst = p
      BY <1>3, <3>1
    <3>3. New(top, n, last, m) /\ m.id = d
      BY <1>2, <3>1, <3>2
    <3> QED
      BY <1>1, <3>2, <3>3
  <2> QED
    BY <2>1, <2>2
<1>12. HeardInv(nds2) /\ FiledInv(nds2)
  <2>1. HeardInv(nds2)
    BY <1>4, <1>5, <1>hrd DEF HeardInv
  <2>2. ASSUME NEW n \in Nodes, NEW e \in nds2[n].confirm
        PROVE  e.msg.id < nds2[n].nextId[e.msg.dst]
    <3>1. CASE e \in nds[n].confirm
      <4>1. /\ e.msg.id < nds[n].nextId[e.msg.dst] /\ e.msg.id \in Nat
            /\ e.msg.dst \in Nodes /\ nds[n].nextId[e.msg.dst] \in Nat
        BY <1>5, <1>fil, <3>1
      <4> QED
        BY <1>4, <4>1
    <3>2. CASE n = a /\ e.msg \in burst
      BY <1>2, <1>4, <1>5, <3>2
    <3> QED
      BY <1>4, <3>1, <3>2
  <2> QED
    BY <2>1, <2>2 DEF FiledInv
<1>13. SentInv(nds2, lv2, top, c)
  <2> SUFFICES ASSUME NEW l, NEW n, NEW i, NEW m, Old(l, n, i, m) \/ New(l, n, i, m),
                      NEW e \in nds2[n].confirm, e.msg.dst = m.dst, e.msg.id = m.id
               PROVE  Due(top, c, l) <= e.sent + Latency
    BY <1>1, SentFlat
  <2>0. n \in Nodes /\ m.dst \in Nodes
    BY <1>2, <1>6
  <2>1. CASE e \in nds[n].confirm
    <3>1. Old(l, n, i, m)
      BY <1>2, <1>5, <1>fil, <2>0, <2>1
    <3> QED
      BY <1>8, <2>1, <3>1
  <2>2. CASE e \notin nds[n].confirm
    <3>1. n = a /\ e.msg \in burst /\ e.sent = t
      BY <1>4, <2>0, <2>2
    <3>2. New(l, n, i, m)
      <4>1. e.msg.id = nds[a].nextId[m.dst] /\ nds[a].nextId[m.dst] \in Nat
        BY <1>2, <1>5, <2>0, <3>1
      <4>2. CASE Old(l, n, i, m)
        <5>1. m.id < nds[a].nextId[m.dst]
          BY <1>src, <3>1, <4>2
        <5> QED
          BY <4>1, <5>1
      <4> QED
        BY <4>2
    <3> QED
      BY <3>1, <3>2, LatencyAssumption DEF Due
  <2> QED
    BY <2>1, <2>2
<1>14. AnswerInv(nds2, lv2, top, c)
  <2> SUFFICES ASSUME NEW l, NEW n, NEW i, NEW m, Old(l, n, i, m) \/ New(l, n, i, m),
                      NEW e \in nds2[m.dst].confirm, e.msg.dst = n, m.ack < e.msg.id
               PROVE  Due(top, c, l) < e.sent + 2 * Latency
    BY <1>1, AnswerFlat
  <2>0. n \in Nodes /\ m.dst \in Nodes /\ l \in 0 .. top
    BY <1>2, <1>6
  <2>1. CASE e \notin nds[m.dst].confirm
    <3>1. e.sent = t
      BY <1>4, <2>0, <2>1
    <3> QED
      BY <2>0, <3>1, LatencyAssumption DEF Due
  <2>2. CASE e \in nds[m.dst].confirm /\ Old(l, n, i, m)
    BY <1>8, <2>2
  <2>3. CASE e \in nds[m.dst].confirm /\ New(l, n, i, m)
    <3>1. /\ e.msg.id \in Nat /\ e.sent \in Nat
          /\ nds[a].heard[m.dst].id < e.msg.id /\ e.msg.id < nds[m.dst].nextId[a]
          /\ nds[a].heard[m.dst].id \in Nat /\ nds[m.dst].nextId[a] \in Nat
      BY <1>2, <1>5, <1>fil, <2>0, <2>3
    <3>2. e.msg.id \in (nds[a].heard[m.dst].id + 1) .. (nds[m.dst].nextId[a] - 1)
      BY <3>1
    <3>3. PICK k, j, x : Old(k, m.dst, j, x) /\ x.dst = a /\ x.id = e.msg.id
      BY <1>gap, <2>0, <3>2
    <3>4. Due(top, c, k) <= e.sent + Latency
      BY <1>8, <2>3, <3>3
    <3>5. k \in 1 .. top
      BY <1>6, <3>3
    <3> QED
      BY <2>3, <3>1, <3>4, <3>5, LatencyAssumption DEF Due
  <2> QED
    BY <2>1, <2>2, <2>3
<1> QED
  BY <1>9, <1>10, <1>11, <1>12, <1>13, <1>14 DEF Orderly, nds2, lv2
-----------------------------------------------------------------------------
(* Collecting: the levels move, and with them the ticks of delivery; or    *)
(* nothing does.                                                           *)

SameRecords(nds, nds2) ==
    \A n \in Nodes : /\ nds2[n].heard = nds[n].heard
                     /\ nds2[n].nextId = nds[n].nextId
                     /\ nds2[n].confirm = nds[n].confirm

LEMMA ShiftOrderly ==
    ASSUME NEW nds, NEW nds2, SameRecords(nds, nds2),
           NEW top \in Nat, NEW top2 \in Nat, NEW c \in Nat, NEW c2 \in Nat, NEW d \in {0, 1},
           NEW lv \in [0 .. top -> Batch], NEW lv2,
           \A l, n, i, m : Way(lv2, top2, l, n, i, m) <=> l \in Nat /\ Way(lv, top, l + d, n, i, m),
           \A n, i, m : d = 1 => ~ Way(lv, top, 0, n, i, m),
           c2 - top2 = c - top + d,
           Orderly(nds, lv, top, c)
    PROVE  Orderly(nds2, lv2, top2, c2)
<1>1. \A l, n, i, m : Way(lv2, top2, l, n, i, m) =>
        l \in Nat /\ Way(lv, top, l + d, n, i, m) /\ n \in Nodes /\ m.dst \in Nodes
  <2> TAKE l, n, i, m
  <2> HAVE Way(lv2, top2, l, n, i, m)
  <2>1. l \in Nat /\ Way(lv, top, l + d, n, i, m)
    OBVIOUS
  <2>2. n \in Nodes /\ m \in Message
    BY <2>1, WayType
  <2> QED
    BY <2>1, <2>2 DEF Message
<1>2. \A l \in Nat : Due(top2, c2, l) = Due(top, c, l + d)
  BY LatencyAssumption DEF Due
<1>3. SourceInv(nds2, lv2, top2)
  <2> SUFFICES ASSUME NEW l, NEW n, NEW i, NEW m, Way(lv2, top2, l, n, i, m)
               PROVE  m.src = n /\ nds2[m.dst].heard[n].id < m.id /\ m.id < nds2[n].nextId[m.dst]
    BY SourceFlat
  <2> QED
    BY <1>1, SourceFlat DEF Orderly, SameRecords
<1>4. OrderInv(lv2, top2)
  <2> SUFFICES ASSUME NEW l, NEW k, NEW n, NEW i, NEW j, NEW m, NEW x,
                      Way(lv2, top2, l, n, i, m), Way(lv2, top2, k, n, j, x), m.dst = x.dst
               PROVE  /\ Before(l, i, k, j) => m.id < x.id
                      /\ l = k /\ i = j => m = x
    BY OrderFlat
  <2>1. /\ l \in Nat /\ Way(lv, top, l + d, n, i, m)
        /\ k \in Nat /\ Way(lv, top, k + d, n, j, x)
    BY <1>1
  <2>2. /\ Before(l + d, i, k + d, j) => m.id < x.id
        /\ l + d = k + d /\ i = j => m = x
    BY <2>1, OrderFlat DEF Orderly
  <2> QED
    BY <2>1, <2>2 DEF Before
<1>5. NoGapInv(nds2, lv2, top2)
  <2> SUFFICES ASSUME NEW n \in Nodes, NEW p \in Nodes,
                      NEW g \in (nds2[p].heard[n].id + 1) .. (nds2[n].nextId[p] - 1)
               PROVE  \E l, i, m : Way(lv2, top2, l, n, i, m) /\ m.dst = p /\ m.id = g
    BY NoGapFlat
  <2>1. g \in (nds[p].heard[n].id + 1) .. (nds[n].nextId[p] - 1)
    BY DEF SameRecords
  <2>2. PICK l, i, m : Way(lv, top, l, n, i, m) /\ m.dst = p /\ m.id = g
    BY <2>1, NoGapFlat DEF Orderly
  <2>3. l \in Nat /\ (d = 1 => l # 0)
    BY <2>2, WayType
  <2>4. l - d \in Nat /\ l - d + d = l
    BY <2>3
  <2>5. Way(lv2, top2, l - d, n, i, m)
    BY <2>2, <2>4
  <2> QED
    BY <2>2, <2>5
<1>6. HeardInv(nds2) /\ FiledInv(nds2)
  BY DEF Orderly, HeardInv, FiledInv, SameRecords
<1>7. SentInv(nds2, lv2, top2, c2)
  <2> SUFFICES ASSUME NEW l, NEW n, NEW i, NEW m, Way(lv2, top2, l, n, i, m),
                      NEW e \in nds2[n].confirm, e.msg.dst = m.dst, e.msg.id = m.id
               PROVE  Due(top2, c2, l) <= e.sent + Latency
    BY SentFlat
  <2>1. l \in Nat /\ Way(lv, top, l + d, n, i, m) /\ e \in nds[n].confirm
    BY <1>1 DEF SameRecords
  <2> QED
    BY <1>2, <2>1, SentFlat DEF Orderly
<1>8. AnswerInv(nds2, lv2, top2, c2)
  <2> SUFFICES ASSUME NEW l, NEW n, NEW i, NEW m, Way(lv2, top2, l, n, i, m),
                      NEW e \in nds2[m.dst].confirm, e.msg.dst = n, m.ack < e.msg.id
               PROVE  Due(top2, c2, l) < e.sent + 2 * Latency
    BY AnswerFlat
  <2>1. l \in Nat /\ Way(lv, top, l + d, n, i, m) /\ e \in nds[m.dst].confirm
    BY <1>1 DEF SameRecords
  <2> QED
    BY <1>2, <2>1, AnswerFlat DEF Orderly
<1> QED
  BY <1>3, <1>4, <1>5, <1>6, <1>7, <1>8 DEF Orderly
-----------------------------------------------------------------------------
(* Delivering: the message is the next one its receiver expects of its     *)
(* sender, it confirms what is old enough to be sent again, and what is    *)
(* left is in order.                                                       *)

LEMMA HeardNext ==
    ASSUME NEW h \in Heard, NEW m \in Message, m.id = h.id + 1
    PROVE  heardAfter(h, m).id = m.id /\ heardAfter(h, m).ack = m.ack
<1>1. CASE h.kind = "none"
  BY <1>1 DEF heardAfter, Heard, Message
<1>2. CASE h.kind # "none" /\ m.kind = "keyspace"
  BY <1>2 DEF heardAfter, Heard, Message
<1>3. CASE h.kind # "none" /\ m.kind = "info"
  BY <1>3 DEF heardAfter, Heard, Message
<1> QED
  BY <1>1, <1>2, <1>3 DEF Message

LEMMA FirstIsNext ==
    ASSUME NEW nds \in [Nodes -> NodeState],
           NEW top \in Nat, NEW lv \in [0 .. top -> Batch], NEW c,
           NEW a \in Nodes, NEW m, Way(lv, top, 0, a, 1, m),
           Orderly(nds, lv, top, c)
    PROVE  m.id = nds[m.dst].heard[a].id + 1
<1>1. m \in Message /\ m.dst \in Nodes /\ m.id \in Nat
  BY WayType DEF Message
<1>2. nds[m.dst].heard[a].id < m.id /\ m.id < nds[a].nextId[m.dst]
  BY SourceFlat DEF Orderly
<1>3. nds[m.dst].heard[a].id \in Nat /\ nds[a].nextId[m.dst] \in Nat
  BY <1>1, FieldTypes
<1> DEFINE g == nds[m.dst].heard[a].id + 1
<1>4. g \in (nds[m.dst].heard[a].id + 1) .. (nds[a].nextId[m.dst] - 1)
  BY <1>1, <1>2, <1>3
<1>5. PICK l, i, x : Way(lv, top, l, a, i, x) /\ x.dst = m.dst /\ x.id = g
  BY <1>1, <1>4, NoGapFlat DEF Orderly
<1>6. l \in Nat /\ i \in Nat \ {0}
  <2>1. l \in 0 .. top /\ lv[l][a] \in Seq(SUBSET Message) /\ i \in 1 .. Len(lv[l][a])
    BY <1>5, WayType
  <2> QED
    BY <2>1
<1>7. CASE l = 0 /\ i = 1
  BY <1>5, <1>7, OrderFlat DEF Orderly
<1>8. CASE ~(l = 0 /\ i = 1)
  <2>1. Before(0, 1, l, i)
    BY <1>6, <1>8 DEF Before
  <2>2. m.id < x.id
    BY <1>5, <2>1, OrderFlat DEF Orderly
  <2> QED
    BY <1>1, <1>2, <1>3, <1>5, <2>2
<1> QED
  BY <1>7, <1>8

LEMMA NothingDue ==
    ASSUME NEW nds \in [Nodes -> NodeState],
           NEW top \in Nat, NEW lv \in [0 .. top -> Batch], NEW t \in Nat,
           NEW a \in Nodes, NEW m, Way(lv, top, 0, a, 1, m), top = Latency,
           Orderly(nds, lv, top, t + 1)
    PROVE  due(nds[m.dst].confirm, a, m.ack, t) = {}
<1>1. m \in Message /\ m.dst \in Nodes /\ m.ack \in Nat
  BY WayType DEF Message
<1>2. SUFFICES ASSUME NEW e \in nds[m.dst].confirm, e.msg.dst = a,
                      ~ Acked(e, a, m.ack), t - e.sent >= 2 * Latency
               PROVE  FALSE
  BY DEF due, visited
<1>3. e.sent \in Nat /\ e.msg.id \in Nat
  BY <1>1, FieldTypes
<1>4. m.ack < e.msg.id
  BY <1>1, <1>2, <1>3 DEF Acked
<1>5. Due(top, t + 1, 0) < e.sent + 2 * Latency
  BY <1>2, <1>4, AnswerFlat DEF Orderly
<1> QED
  BY <1>2, <1>3, <1>5, LatencyAssumption DEF Due

LEMMA ReceiveOrderly ==
    ASSUME NEW nds \in [Nodes -> NodeState],
           NEW top \in Nat, NEW lv \in [0 .. top -> Batch], NEW t \in Nat,
           NEW a \in Nodes, lv[0][a] # << >>, NEW m \in Head(lv[0][a]), top = Latency,
           Orderly(nds, lv, top, t + 1)
    PROVE  LET st2 == receiveMessage(nds[m.dst], m, t)
           IN  /\ st2.queue = nds[m.dst].queue
               /\ st2.keyspaces = nds[m.dst].keyspaces \cup m.blocks
               /\ \A p \in Nodes : st2.heard[p].id \in
                     { nds[m.dst].heard[p].id, nds[m.dst].heard[p].id + 1 }
               /\ Orderly([nds EXCEPT ![m.dst] = st2], Rest(lv, a, m), top, t + 1)
<1> DEFINE b    == m.dst
           h    == nds[b].heard[a]
           st2  == receiveMessage(nds[b], m, t)
           nds2 == [nds EXCEPT ![b] = st2]
           lv2  == Rest(lv, a, m)
           Old(l, n, i, x) == Way(lv, top, l, n, i, x)
<1>0. Old(0, a, 1, m)
  BY WayRest
<1>1. m \in Message /\ b \in Nodes /\ m.ack \in Nat /\ m.id \in Nat
  BY <1>0, WayType DEF Message
<1>2. m.src = a /\ m.id = h.id + 1 /\ h \in Heard
  <2>1. m.src = a
    BY <1>0, SourceFlat DEF Orderly
  <2>2. m.id = h.id + 1
    BY <1>0, FirstIsNext
  <2>3. h \in Heard
    BY <1>1, NodeStateFields
  <2> QED
    BY <2>1, <2>2, <2>3
<1>3. heardAfter(h, m).id = m.id /\ heardAfter(h, m).ack = m.ack
  BY <1>1, <1>2, HeardNext
<1>4. due(nds[b].confirm, m.src, heardAfter(h, m).ack, t) = {}
  BY <1>0, <1>2, <1>3, NothingDue
<1>5. /\ st2.queue = nds[b].queue
      /\ st2.keyspaces = nds[b].keyspaces \cup m.blocks
      /\ st2.heard = [nds[b].heard EXCEPT ![a] = heardAfter(h, m)]
      /\ st2.nextId = nds[b].nextId
      /\ st2.confirm \subseteq nds[b].confirm
  <2> DEFINE gone == erased(nds[b].confirm, m.src, heardAfter(h, m).ack)
             resend == due(nds[b].confirm, m.src, heardAfter(h, m).ack, t)
             kept == (nds[b].confirm \ (gone \cup resend)) \cup { [e EXCEPT !.sent = t] : e \in resend }
             queued == IF resend = {} THEN nds[b].queue ELSE Append(nds[b].queue, { e.msg : e \in resend })
             heard == [nds[b].heard EXCEPT ![m.src] = heardAfter(nds[b].heard[m.src], m)]
  <2>1. st2 = [nds[b] EXCEPT !.heard = heard, !.confirm = kept, !.queue = queued,
                             !.keyspaces = nds[b].keyspaces \cup m.blocks]
    BY <1>2, Zenon DEF receiveMessage
  <2>2. kept \subseteq nds[b].confirm /\ queued = nds[b].queue
    BY <1>4
  <2>3. heard = [nds[b].heard EXCEPT ![a] = heardAfter(h, m)]
    BY <1>2
  <2> HIDE DEF st2, kept, queued, heard
  <2>4. nds[b] \in NodeState
    BY <1>1
  <2> QED
    BY <2>1, <2>2, <2>3, <2>4, NodeStateFields
<1>6. /\ \A n, p \in Nodes : nds2[n].heard[p].id =
            IF n = b /\ p = a THEN m.id ELSE nds[n].heard[p].id
      /\ \A n, p \in Nodes : nds2[n].nextId[p] = nds[n].nextId[p]
      /\ \A n \in Nodes : nds2[n].confirm \subseteq nds[n].confirm
  <2>1. \A n \in Nodes : nds2[n] = IF n = b THEN st2 ELSE nds[n]
    BY <1>1
  <2>2. nds[b].heard \in [Nodes -> Heard]
    BY <1>1, NodeStateFields
  <2> HIDE DEF nds2, st2
  <2> QED
    BY <1>3, <1>5, <2>1, <2>2
<1>7. PICK d \in {0, 1} :
        /\ d = 1 => \A x : Old(0, a, 1, x) => x = m
        /\ \A l, n, i, x : Way(lv2, top, l, n, i, x) <=>
          IF l = 0 /\ n = a
          THEN i \in Nat \ {0} /\ Old(0, a, i + d, x) /\ ~(i + d = 1 /\ x = m)
          ELSE Old(l, n, i, x)
  BY WayRest
<1> DEFINE pos(l, n, i) == IF l = 0 /\ n = a THEN i + d ELSE i
<1>8. /\ \A l, n, i, x : Old(l, n, i, x) => /\ l \in 0 .. top /\ n \in Nodes /\ i \in Nat \ {0}
                                            /\ x.dst \in Nodes /\ x.id \in Nat
  <2>1. \A l, n, i, x : Old(l, n, i, x) => /\ l \in 0 .. top /\ n \in Nodes /\ x \in Message
                                          /\ lv[l][n] \in Seq(SUBSET Message)
                                          /\ i \in 1 .. Len(lv[l][n])
    BY WayType
  <2>2. ASSUME NEW q \in Seq(SUBSET Message), NEW i \in 1 .. Len(q) PROVE i \in Nat \ {0}
    OBVIOUS
  <2> HIDE DEF Old
  <2> QED
    BY <2>1, <2>2 DEF Message
<1> HIDE DEF Old, lv2, nds2
<1>9. \A l, n, i, x : Way(lv2, top, l, n, i, x) =>
        /\ Old(l, n, pos(l, n, i), x)
        /\ l \in 0 .. top /\ n \in Nodes /\ i \in Nat \ {0}
        /\ x.dst \in Nodes /\ x.id \in Nat
        /\ ~(l = 0 /\ n = a /\ pos(l, n, i) = 1 /\ x = m)
  BY <1>7, <1>8
<1>src. \A l, n, i, x : Old(l, n, i, x) =>
            x.src = n /\ nds[x.dst].heard[n].id < x.id /\ x.id < nds[n].nextId[x.dst]
  BY SourceFlat DEF Orderly, Old
<1>ord. \A l, k, n, i, j, y, x : Old(l, n, i, y) /\ Old(k, n, j, x) /\ y.dst = x.dst =>
            (Before(l, i, k, j) => y.id < x.id) /\ (l = k /\ i = j => y = x)
  BY OrderFlat DEF Orderly, Old
<1>gap. \A n, p \in Nodes : \A g \in (nds[p].heard[n].id + 1) .. (nds[n].nextId[p] - 1) :
            \E l, i, x : Old(l, n, i, x) /\ x.dst = p /\ x.id = g
  BY NoGapFlat DEF Orderly, Old
<1>typ. \A n, p \in Nodes : nds[n].heard[p].id \in Nat /\ nds[n].nextId[p] \in Nat
  BY FieldTypes
<1>10. SourceInv(nds2, lv2, top)
  <2> SUFFICES ASSUME NEW l, NEW n, NEW i, NEW x, Way(lv2, top, l, n, i, x)
               PROVE  x.src = n /\ nds2[x.dst].heard[n].id < x.id /\ x.id < nds2[n].nextId[x.dst]
    BY SourceFlat
  <2> DEFINE j == pos(l, n, i)
  <2>1. /\ Old(l, n, j, x) /\ l \in 0 .. top /\ n \in Nodes /\ x.dst \in Nodes /\ x.id \in Nat
        /\ ~(l = 0 /\ n = a /\ j = 1 /\ x = m)
    BY <1>9
  <2> HIDE DEF j
  <2>2. x.src = n /\ nds[x.dst].heard[n].id < x.id /\ x.id < nds[n].nextId[x.dst]
    BY <1>src, <2>1
  <2>3. CASE ~(n = a /\ x.dst = b)
    BY <1>6, <2>1, <2>2, <2>3
  <2>4. CASE n = a /\ x.dst = b
    <3>1. CASE l = 0 /\ j = 1
      <4>1. x = m
        BY <1>0, <1>ord, <2>1, <2>4, <3>1
      <4> QED
        BY <2>1, <2>4, <3>1, <4>1
    <3>2. CASE ~(l = 0 /\ j = 1)
      <4>1. Before(0, 1, l, j)
        BY <1>8, <2>1, <3>2 DEF Before
      <4>2. m.id < x.id
        BY <1>0, <1>ord, <2>1, <2>4, <4>1
      <4> QED
        BY <1>6, <2>1, <2>2, <2>4, <4>2
    <3> QED
      BY <3>1, <3>2
  <2> QED
    BY <2>3, <2>4
<1>11. OrderInv(lv2, top)
  <2>1. ASSUME NEW l, NEW k, NEW n, NEW i, NEW j, NEW y, NEW x,
               Way(lv2, top, l, n, i, y), Way(lv2, top, k, n, j, x), y.dst = x.dst
        PROVE  /\ Before(l, i, k, j) => y.id < x.id
               /\ l = k /\ i = j => y = x
    <3>1. /\ Old(l, n, pos(l, n, i), y) /\ Old(k, n, pos(k, n, j), x)
          /\ i \in Nat /\ j \in Nat /\ l \in Nat /\ k \in Nat
      BY <1>9, <2>1
    <3>2. Before(l, i, k, j) => Before(l, pos(l, n, i), k, pos(k, n, j))
      BY <3>1 DEF Before
    <3>3. l = k /\ i = j => pos(l, n, i) = pos(k, n, j)
      OBVIOUS
    <3> HIDE DEF pos
    <3> QED
      BY <1>ord, <2>1, <3>1, <3>2, <3>3
  <2> QED
    BY ONLY <2>1, OrderFlat
<1>12. NoGapInv(nds2, lv2, top)
  <2> SUFFICES ASSUME NEW n \in Nodes, NEW p \in Nodes,
                      NEW g \in (nds2[p].heard[n].id + 1) .. (nds2[n].nextId[p] - 1)
               PROVE  \E l, i, x : Way(lv2, top, l, n, i, x) /\ x.dst = p /\ x.id = g
    BY NoGapFlat
  <2>1. g \in (nds[p].heard[n].id + 1) .. (nds[n].nextId[p] - 1) /\ (n = a /\ p = b => g # m.id)
    <3>1. nds2[n].nextId[p] = nds[n].nextId[p]
      BY <1>6
    <3>2. nds2[p].heard[n].id = IF p = b /\ n = a THEN m.id ELSE nds[p].heard[n].id
      BY <1>6
    <3>3. nds[p].heard[n].id \in Nat /\ nds[n].nextId[p] \in Nat
      BY <1>typ
    <3>4. m.id \in Nat /\ (p = b /\ n = a => nds[p].heard[n].id < m.id)
      BY <1>0, <1>1, <1>2, <1>src, <1>8
    <3> HIDE DEF nds2, lv2, Old
    <3> QED
      BY ONLY <3>1, <3>2, <3>3, <3>4, g \in (nds2[p].heard[n].id + 1) .. (nds2[n].nextId[p] - 1)
  <2>2. PICK l, i, x : Old(l, n, i, x) /\ x.dst = p /\ x.id = g
    BY <1>gap, <2>1
  <2>3. x # m
    BY <1>src, <1>0, <2>1, <2>2
  <2>4. CASE ~(l = 0 /\ n = a)
    BY <1>7, <2>2, <2>4
  <2>5. CASE l = 0 /\ n = a
    <3>1. i \in Nat \ {0} /\ i - d + d = i
      BY <1>8, <2>2
    <3>2. ~(d = 1 /\ i = 1)
      BY <1>7, <2>2, <2>3, <2>5
    <3>3. i - d \in Nat \ {0} /\ ~(i - d + d = 1 /\ x = m) /\ Old(0, a, i - d + d, x)
      BY <2>2, <2>3, <2>5, <3>1, <3>2
    <3>4. Way(lv2, top, 0, a, i - d, x)
      BY <1>7, <3>3
    <3> QED
      BY <2>2, <2>5, <3>4
  <2> QED
    BY <2>4, <2>5
<1>13. HeardInv(nds2) /\ FiledInv(nds2)
  <2>1. HeardInv(nds2)
    <3>1. m.id < nds[a].nextId[b]
      BY <1>0, <1>src
    <3>2. \A n, p \in Nodes : nds[p].heard[n].id < nds[n].nextId[p]
      BY DEF Orderly, HeardInv
    <3> QED
      BY <1>6, <3>1, <3>2 DEF HeardInv
  <2>2. FiledInv(nds2)
    <3>1. \A n \in Nodes : \A e \in nds[n].confirm :
            e.msg.dst \in Nodes /\ e.msg.id < nds[n].nextId[e.msg.dst]
      BY FieldTypes DEF Orderly, FiledInv
    <3> QED
      BY <1>6, <3>1 DEF FiledInv
  <2> QED
    BY <2>1, <2>2
<1>14. SentInv(nds2, lv2, top, t + 1)
  <2> SUFFICES ASSUME NEW l, NEW n, NEW i, NEW x, Way(lv2, top, l, n, i, x),
                      NEW e \in nds2[n].confirm, e.msg.dst = x.dst, e.msg.id = x.id
               PROVE  Due(top, t + 1, l) <= e.sent + Latency
    BY SentFlat
  <2>1. Old(l, n, pos(l, n, i), x) /\ e \in nds[n].confirm
    BY <1>6, <1>9
  <2> HIDE DEF pos
  <2> QED
    BY <2>1, SentFlat DEF Orderly, Old
<1>15. AnswerInv(nds2, lv2, top, t + 1)
  <2> SUFFICES ASSUME NEW l, NEW n, NEW i, NEW x, Way(lv2, top, l, n, i, x),
                      NEW e \in nds2[x.dst].confirm, e.msg.dst = n, x.ack < e.msg.id
               PROVE  Due(top, t + 1, l) < e.sent + 2 * Latency
    BY AnswerFlat
  <2>1. Old(l, n, pos(l, n, i), x) /\ e \in nds[x.dst].confirm
    BY <1>6, <1>9
  <2> HIDE DEF pos
  <2> QED
    BY <2>1, AnswerFlat DEF Orderly, Old
<1>16. Orderly(nds2, lv2, top, t + 1)
  BY <1>10, <1>11, <1>12, <1>13, <1>14, <1>15 DEF Orderly
<1>17. \A p \in Nodes : st2.heard[p].id \in { nds[b].heard[p].id, nds[b].heard[p].id + 1 }
  <2>1. nds[b].heard \in [Nodes -> Heard]
    BY <1>1, NodeStateFields
  <2> HIDE DEF st2
  <2> QED
    BY <1>2, <1>3, <1>5, <2>1
<1> QED
  BY <1>5, <1>16, <1>17 DEF nds2, lv2
-----------------------------------------------------------------------------
(* The line of a state, and of the state after a call that sends.          *)

LEMMA LineType ==
    ASSUME NEW nds \in [Nodes -> NodeState], NEW ts \in Seq(Batch), NEW ib \in Batch
    PROVE  /\ Len(ts) \in Nat /\ Len(ts) + 1 \in Nat \ {0}
           /\ LineOf(nds, ts, ib) \in [0 .. Len(ts) + 1 -> Batch]
           /\ LineOf(nds, ts, ib)[0] = ib
           /\ LineOf(nds, ts, ib)[Len(ts) + 1] = [n \in Nodes |-> nds[n].queue]
           /\ \A l \in 1 .. Len(ts) : LineOf(nds, ts, ib)[l] = ts[l]
<1>1. [n \in Nodes |-> nds[n].queue] \in Batch
  BY NodeStateFields DEF Batch
<1>2. Len(ts) \in Nat /\ \A l \in 1 .. Len(ts) : ts[l] \in Batch
  OBVIOUS
<1> DEFINE q == [n \in Nodes |-> nds[n].queue]
<1> HIDE DEF q
<1>3. LineOf(nds, ts, ib) = [l \in 0 .. Len(ts) + 1 |->
                               IF l = 0 THEN ib ELSE IF l <= Len(ts) THEN ts[l] ELSE q]
  BY Zenon DEF LineOf, q
<1>4. q \in Batch
  BY <1>1 DEF q
<1> DEFINE L == Len(ts)
<1>5. L \in Nat /\ \A l \in 1 .. L : ts[l] \in Batch
  BY <1>2
<1>6. LineOf(nds, ts, ib) = [l \in 0 .. L + 1 |-> IF l = 0 THEN ib ELSE IF l <= L THEN ts[l] ELSE q]
  BY <1>3
<1> HIDE DEF L
<1>7. LineOf(nds, ts, ib) \in [0 .. L + 1 -> Batch]
  <2>1. ASSUME NEW l \in 0 .. L + 1
        PROVE  (IF l = 0 THEN ib ELSE IF l <= L THEN ts[l] ELSE q) \in Batch
    BY ONLY <1>4, <1>5, ib \in Batch
  <2> QED
    BY ONLY <1>6, <2>1
<1>8. LineOf(nds, ts, ib)[0] = ib /\ LineOf(nds, ts, ib)[L + 1] = q
  BY ONLY <1>5, <1>6
<1>9. \A l \in 1 .. L : LineOf(nds, ts, ib)[l] = ts[l]
  BY ONLY <1>5, <1>6
<1> QED
  <2>1. q = [n \in Nodes |-> nds[n].queue] /\ L = Len(ts) /\ L + 1 \in Nat \ {0}
    BY <1>5 DEF L, q
  <2> HIDE DEF q
  <2> QED
    BY <1>5, <1>7, <1>8, <1>9, <2>1, Zenon

LEMMA LineQueued ==
    ASSUME NEW nds \in [Nodes -> NodeState], NEW ts \in Seq(Batch), NEW ib \in Batch,
           NEW a \in Nodes, NEW burst, NEW nds2,
           \A n \in Nodes : nds2[n].queue = IF n = a THEN Append(nds[a].queue, burst)
                                           ELSE nds[n].queue
    PROVE  LineOf(nds2, ts, ib) = Queued(LineOf(nds, ts, ib), Len(ts) + 1, a, burst)
<1> DEFINE q    == [n \in Nodes |-> nds[n].queue]
           q2   == [n \in Nodes |-> nds2[n].queue]
           lv   == LineOf(nds, ts, ib)
           lv2  == LineOf(nds2, ts, ib)
           top  == Len(ts) + 1
<1>1. /\ top \in 0 .. top /\ lv \in [0 .. top -> Batch] /\ lv[top] = q /\ Len(ts) \in Nat
      /\ lv[0] = ib
  BY LineType
<1>2. q2 = [q EXCEPT ![a] = Append(q[a], burst)]
  <2>1. q[a] = nds[a].queue
    BY Zenon
  <2> DEFINE q3 == [q EXCEPT ![a] = Append(q[a], burst)]
  <2>2. q2 = [n \in Nodes |-> q2[n]] /\ q3 = [n \in Nodes |-> q3[n]]
    BY Zenon
  <2>3. \A n \in Nodes : q2[n] = q3[n]
    BY <2>1
  <2> QED
    BY <2>2, <2>3, Zenon
<1>3. \A l \in 0 .. top : lv2[l] = IF l = top THEN q2 ELSE lv[l]
  BY <1>1 DEF LineOf
<1>4. Queued(lv, top, a, burst) = [lv EXCEPT ![top] = [lv[top] EXCEPT ![a] = Append(lv[top][a], burst)]]
  BY Zenon DEF Queued
<1>5. lv2 = [l \in 0 .. top |-> lv2[l]]
  BY DEF LineOf
<1> HIDE DEF q, q2, lv, lv2
<1>6. Queued(lv, top, a, burst) = [lv EXCEPT ![top] = q2]
  BY <1>1, <1>2, <1>4
<1> DEFINE f == [l \in 0 .. top |-> IF l = top THEN q2 ELSE lv[l]]
<1>7. Queued(lv, top, a, burst) = f
  BY <1>1, <1>6
<1>8. lv2 = f
  BY <1>3, <1>5
<1> QED
  BY <1>7, <1>8 DEF lv, lv2

LEMMA SendLine ==
    ASSUME NEW nds \in [Nodes -> NodeState], NEW ts \in Seq(Batch), Len(ts) + 1 <= Latency,
           NEW t \in Nat, NEW c \in Nat, c <= t + 1,
           NEW a \in Nodes, NEW peers \in SUBSET Nodes, NEW burst, NEW st2,
           Sends(nds[a], st2, a, peers, burst, t),
           Orderly(nds, LineOf(nds, ts, NoMessages), Len(ts) + 1, c)
    PROVE  LET nds2 == [nds EXCEPT ![a] = st2]
           IN  /\ nds2 \in [Nodes -> NodeState]
               /\ Orderly(nds2, LineOf(nds2, ts, NoMessages), Len(ts) + 1, c)
<1>1. NoMessages \in Batch
  BY DEF NoMessages, Batch
<1>2. st2 \in NodeState /\ st2.queue = Append(nds[a].queue, burst)
  BY DEF Sends
<1> DEFINE nds2 == [nds EXCEPT ![a] = st2]
<1>6. \A n \in Nodes : nds2[n].queue = IF n = a THEN Append(nds[a].queue, burst)
                                      ELSE nds[n].queue
  BY <1>2
<1> HIDE DEF nds2
<1>3. LineOf(nds2, ts, NoMessages)
        = Queued(LineOf(nds, ts, NoMessages), Len(ts) + 1, a, burst)
  BY <1>1, <1>2, <1>6, LineQueued
<1>4. /\ Len(ts) + 1 \in Nat
      /\ LineOf(nds, ts, NoMessages) \in [0 .. Len(ts) + 1 -> Batch]
      /\ LineOf(nds, ts, NoMessages)[0] = NoMessages
  BY <1>1, LineType
<1>5. Orderly([nds EXCEPT ![a] = st2], Queued(LineOf(nds, ts, NoMessages), Len(ts) + 1, a, burst),
              Len(ts) + 1, c)
  BY <1>4, SendOrderly
<1> QED
  BY <1>2, <1>3, <1>5 DEF nds2

(* The bursts of the calls that send. *)
Beats(st, n, peers) == { heartbeatMessage(st, n, p) : p \in peers }

custMessage(st, n, p, blocks) ==
    [kind |-> "keyspace", src |-> n, dst |-> p, id |-> st.nextId[p],
     ack |-> st.heard[p].id, empty |-> FALSE, blocks |-> blocks]

LEMMA HeartbeatSends ==
    ASSUME NEW st \in NodeState, NEW n \in Nodes, NEW peers \in SUBSET Nodes, NEW t \in Nat
    PROVE  /\ Sends(st, heartbeat(st, n, peers, t), n, peers, Beats(st, n, peers), t)
           /\ heartbeat(st, n, peers, t).keyspaces = st.keyspaces
<1> DEFINE burst == Beats(st, n, peers)
           st2   == heartbeat(st, n, peers, t)
<1>1. burst \subseteq Message
  BY HeartbeatMessageType DEF Beats
<1>2. \A p \in peers : LET m == heartbeatMessage(st, n, p)
                        IN  /\ m.src = n /\ m.dst = p
                            /\ m.id = st.nextId[p] /\ m.ack = st.heard[p].id
  BY DEF heartbeatMessage
<1>3. NextFor(st, n, peers, burst)
  BY <1>1, <1>2 DEF NextFor, Beats
<1>4. st2 \in NodeState
  BY HeartbeatType
<1>5. st2 = [st EXCEPT !.nextId = idsAfter(st, peers), !.queue = Append(st.queue, burst),
                       !.confirm = Filed(st.confirm, burst, t)]
  BY Zenon DEF heartbeat, Beats
<1>6. /\ st2.heard = st.heard /\ st2.nextId = idsAfter(st, peers)
      /\ st2.queue = Append(st.queue, burst) /\ st2.confirm = Filed(st.confirm, burst, t)
      /\ st2.keyspaces = st.keyspaces
  <2> HIDE DEF st2, burst
  <2> QED
    BY <1>5, NodeStateFields
<1> QED
  BY <1>3, <1>4, <1>6 DEF Sends

(* What is left of a node's blocks. *)
KeepsRest(st2, own, blocks) == \A b : b \in st2.keyspaces <=> b \in own /\ b \notin blocks

LEMMA CustSends ==
    ASSUME NEW st \in NodeState, NEW n \in Nodes, NEW p \in Nodes, NEW t \in Nat,
           NEW own \in SUBSET Block, NEW blocks \in SUBSET Block
    PROVE  LET st2 == sendCustKeyspace([st EXCEPT !.keyspaces = own], n, p, blocks, t)
           IN  /\ Sends(st, st2, n, {p}, {custMessage(st, n, p, blocks)}, t)
               /\ KeepsRest(st2, own, blocks)
<1> DEFINE st1 == [st EXCEPT !.keyspaces = own]
           m   == custMessage(st, n, p, blocks)
           st2 == sendCustKeyspace(st1, n, p, blocks, t)
<1>1. /\ st1 \in NodeState /\ st1.keyspaces = own /\ st1.heard = st.heard
      /\ st1.nextId = st.nextId /\ st1.confirm = st.confirm /\ st1.queue = st.queue
  BY KeyspacesReplaced DEF NodeState
<1>2. m \in Message /\ m.src = n /\ m.dst = p /\ m.id = st.nextId[p] /\ m.ack = st.heard[p].id
  <2>1. st.heard[p].id \in Nat /\ st.nextId[p] \in Nat
    BY NodeStateFields DEF Heard
  <2> QED
    BY <2>1 DEF custMessage, Message
<1>3. NextFor(st, n, {p}, {m})
  BY <1>2 DEF NextFor
<1> HIDE DEF st1
<1>4. st2 \in NodeState
  BY <1>1, SendCustKeyspaceType
<1>5. st2 = [st1 EXCEPT !.keyspaces = own \ blocks, !.nextId = idsAfter(st1, {p}),
                        !.queue = Append(st1.queue, {m}), !.confirm = Filed(st1.confirm, {m}, t)]
  BY <1>1, Zenon DEF sendCustKeyspace, custMessage
<1>6. idsAfter(st1, {p}) = idsAfter(st, {p})
  BY <1>1 DEF idsAfter
<1>7. /\ st2.heard = st.heard /\ st2.nextId = idsAfter(st, {p})
      /\ st2.queue = Append(st.queue, {m}) /\ st2.confirm = Filed(st.confirm, {m}, t)
      /\ st2.keyspaces = own \ blocks
  <2> HIDE DEF st2, m
  <2> QED
    BY <1>1, <1>5, <1>6, NodeStateFields
<1>8. KeepsRest(st2, own, blocks)
  BY <1>7 DEF KeepsRest
<1> QED
  BY <1>3, <1>4, <1>7, <1>8 DEF Sends, st1
-----------------------------------------------------------------------------
(* The steps of the simulation. *)

LEMMA StateLine ==
    ASSUME TypeOK
    PROVE  /\ Top \in Nat \ {0} /\ Top = Len(toSend) + 1 /\ NextCollect \in Nat
           /\ line \in [0 .. Top -> Batch] /\ line[0] = inbox
           /\ line[Top] = [n \in Nodes |-> nodes[n].queue]
           /\ \A l \in 1 .. Len(toSend) : line[l] = toSend[l]
<1>1. nodes \in [Nodes -> NodeState] /\ toSend \in Seq(Batch) /\ inbox \in Batch /\ now \in Nat
  BY DEF TypeOK
<1>2. NextCollect \in Nat
  BY <1>1 DEF NextCollect
<1>3. /\ Len(toSend) + 1 \in Nat \ {0}
      /\ LineOf(nodes, toSend, inbox) \in [0 .. Len(toSend) + 1 -> Batch]
      /\ LineOf(nodes, toSend, inbox)[0] = inbox
      /\ LineOf(nodes, toSend, inbox)[Len(toSend) + 1] = [n \in Nodes |-> nodes[n].queue]
      /\ \A l \in 1 .. Len(toSend) : LineOf(nodes, toSend, inbox)[l] = toSend[l]
  BY ONLY <1>1, LineType, ZenonT(60)
<1> QED
  BY <1>2, <1>3, Zenon DEF Top, line

LEMMA NobodyWaits ==
    ASSUME NEW top \in Nat, NEW lv, NEW l, lv[l] = NoMessages
    PROVE  \A n, i, m : ~ Way(lv, top, l, n, i, m)
BY DEF Way, NoMessages

(* A step that touches neither the line nor what the nodes know of each    *)
(* other.                                                                  *)
LEMMA QuietStep ==
    ASSUME TypeOK, TypeOK', CalmDelivery, outages = 0,
           UNCHANGED << toSend, inbox >>, SameRecords(nodes, nodes'),
           \A n \in Nodes : nodes'[n].queue = nodes[n].queue,
           NextCollect' = NextCollect, LoopInv'
    PROVE  CalmDelivery'
<1>1. Orderly(nodes, line, Top, NextCollect)
  BY DEF CalmDelivery
<1>2. line' = line /\ Top' = Top
  <2>1. [n \in Nodes |-> nodes'[n].queue] = [n \in Nodes |-> nodes[n].queue]
    BY Zenon
  <2> QED
    BY <2>1 DEF line, Top, LineOf
<1>3. Top \in Nat /\ line \in [0 .. Top -> Batch] /\ NextCollect \in Nat
  BY StateLine
<1>4. \A l, n, i, m : Way(line, Top, l, n, i, m) <=> l \in Nat /\ Way(line, Top, l + 0, n, i, m)
  BY <1>3 DEF Way
<1>5. Orderly(nodes', line, Top, NextCollect)
  BY <1>1, <1>3, <1>4, ShiftOrderly
<1> QED
  BY <1>2, <1>5 DEF CalmDelivery

(* The phases of a heartbeat round come after the delivery of the tick     *)
(* when the simulation runs, before its collection during setup.           *)
LEMMA RoundTick ==
    ASSUME TypeOK, phase \in {"beat", "share"}, now' = now,
           phase' \in {"beat", "share", "died", AfterBeats}
    PROVE  /\ NextCollect' = NextCollect /\ NextCollect \in Nat /\ NextCollect <= now + 1
           /\ phase' # "add" /\ phase' # "deliver"
<1>1. now \in Nat
  BY DEF TypeOK
<1>2. AfterBeats = IF InSetup THEN "collect" ELSE IF RunEvents THEN "events" ELSE "consume"
  BY DEF AfterBeats
<1>3. InSetup' = InSetup
  BY DEF InSetup
<1> QED
  BY <1>1, <1>2, <1>3 DEF NextCollect

LEMMA LoopKept ==
    ASSUME LoopInv, phase \in {"beat", "share"},
           UNCHANGED << network, status, now >>, phase' # "add", phase' # "deliver"
    PROVE  LoopInv'
BY DEF LoopInv, network, status, Top, InSetup

LEMMA SendStep ==
    ASSUME TypeOK, CalmDelivery, outages = 0, phase \in {"beat", "share"},
           UNCHANGED << network, status, now >>,
           phase' \in {"beat", "share", "died", AfterBeats},
           NEW peers \in SUBSET Nodes, NEW burst, NEW st2,
           Sends(nodes[InTurn], st2, InTurn, peers, burst, now),
           nodes' = [nodes EXCEPT ![InTurn] = st2]
    PROVE  CalmDelivery'
<1>1. /\ LoopInv /\ Orderly(nodes, line, Top, NextCollect)
      /\ inbox = NoMessages /\ Top <= Latency
  BY DEF CalmDelivery, LoopInv
<1>2. /\ NextCollect' = NextCollect /\ NextCollect \in Nat /\ NextCollect <= now + 1
      /\ LoopInv'
  BY <1>1, RoundTick, LoopKept
<1>3. /\ nodes \in [Nodes -> NodeState] /\ toSend \in Seq(Batch) /\ now \in Nat
      /\ InTurn \in Nodes
  BY InTurnType DEF TypeOK
<1>4. Orderly(nodes', LineOf(nodes', toSend, NoMessages), Len(toSend) + 1, NextCollect)
  BY <1>1, <1>2, <1>3, SendLine DEF line, Top
<1> QED
  BY <1>1, <1>2, <1>4 DEF CalmDelivery, line, Top, network

(* The heartbeats and then a keyspace message: two calls of one step. *)
LEMMA SendTwiceStep ==
    ASSUME TypeOK, CalmDelivery, outages = 0, phase \in {"beat", "share"},
           UNCHANGED << network, status, now >>,
           phase' \in {"beat", "share", "died", AfterBeats},
           NEW peers \in SUBSET Nodes, NEW burst, NEW st2,
           Sends(nodes[InTurn], st2, InTurn, peers, burst, now),
           NEW peers3 \in SUBSET Nodes, NEW burst3, NEW st3,
           Sends(st2, st3, InTurn, peers3, burst3, now),
           nodes' = [nodes EXCEPT ![InTurn] = st3]
    PROVE  CalmDelivery'
<1>1. /\ LoopInv /\ Orderly(nodes, line, Top, NextCollect)
      /\ inbox = NoMessages /\ Top <= Latency
  BY DEF CalmDelivery, LoopInv
<1>2. /\ NextCollect' = NextCollect /\ NextCollect \in Nat /\ NextCollect <= now + 1
      /\ LoopInv'
  BY <1>1, RoundTick, LoopKept
<1>3. /\ nodes \in [Nodes -> NodeState] /\ toSend \in Seq(Batch) /\ now \in Nat
      /\ InTurn \in Nodes
  BY InTurnType DEF TypeOK
<1> DEFINE nds2 == [nodes EXCEPT ![InTurn] = st2]
<1>4. /\ nds2 \in [Nodes -> NodeState]
      /\ Orderly(nds2, LineOf(nds2, toSend, NoMessages), Len(toSend) + 1, NextCollect)
  BY <1>1, <1>2, <1>3, SendLine DEF line, Top
<1>5. nds2[InTurn] = st2
  BY <1>3
<1>6. nodes' = [nds2 EXCEPT ![InTurn] = st3]
  BY <1>3
<1> HIDE DEF nds2
<1>8. Sends(nds2[InTurn], st3, InTurn, peers3, burst3, now) /\ Len(toSend) + 1 <= Latency
  BY <1>1, <1>5 DEF Top
<1> DEFINE nds3 == [nds2 EXCEPT ![InTurn] = st3]
<1>9. Orderly(nds3, LineOf(nds3, toSend, NoMessages), Len(toSend) + 1, NextCollect)
  BY <1>2, <1>3, <1>4, <1>8, SendLine
<1> HIDE DEF nds3
<1>10. nodes' = nds3
  BY <1>6 DEF nds3
<1>7. Orderly(nodes', LineOf(nodes', toSend, NoMessages), Len(toSend) + 1, NextCollect)
  BY <1>9, <1>10, Zenon
<1> QED
  BY <1>1, <1>2, <1>7 DEF CalmDelivery, line, Top, network

(* A collection: the batches move up to make room, or one level down.      *)
LEMMA CollectLine ==
    ASSUME TypeOK, TypeOK', inbox = NoMessages, Collect
    PROVE  /\ SameRecords(nodes, nodes')
           /\ \A n \in Nodes : nodes'[n].keyspaces = nodes[n].keyspaces
           /\ \A n, i, m : ~ Way(line, Top, 0, n, i, m)
           /\ \E d \in {0, 1} :
                /\ \A l, n, i, m : Way(line', Top', l, n, i, m)
                                    <=> l \in Nat /\ Way(line, Top, l + d, n, i, m)
                /\ Top' = Top + 1 - d
                /\ d = 0 => /\ Latency > latencyStall /\ latencyStall' = latencyStall + 1
                            /\ inbox' = NoMessages
                /\ d = 1 => ~(Latency > latencyStall) /\ latencyStall' = latencyStall
<1> DEFINE batch  == [n \in Nodes |-> nodes[n].queue]
           queued == Append(toSend, batch)
<1>1. /\ nodes \in [Nodes -> NodeState] /\ toSend \in Seq(Batch)
      /\ Top \in Nat \ {0} /\ Top = Len(toSend) + 1
      /\ line \in [0 .. Top -> Batch] /\ line[0] = inbox
      /\ latencyStall \in Nat
  BY StateLine DEF TypeOK
<1>2. \A n \in Nodes : nodes'[n] = [nodes[n] EXCEPT !.queue = << >>]
  BY DEF Collect
<1>held. \A n \in Nodes : nodes'[n].keyspaces = nodes[n].keyspaces
  <2>1. \A st \in NodeState : [st EXCEPT !.queue = << >>].keyspaces = st.keyspaces
    BY DEF NodeState
  <2> QED
    BY <1>1, <1>2, <2>1
<1>3. SameRecords(nodes, nodes') /\ \A n \in Nodes : nodes'[n].queue = << >>
  <2>1. \A st \in NodeState : \A st2 : st2 = [st EXCEPT !.queue = << >>] =>
          /\ st2.heard = st.heard /\ st2.nextId = st.nextId
          /\ st2.confirm = st.confirm /\ st2.queue = << >>
    BY DEF NodeState
  <2>2. \A n \in Nodes : nodes[n] \in NodeState
    BY <1>1
  <2> QED
    BY <1>2, <2>1, <2>2 DEF SameRecords
<1>4. line[Top] = batch
  BY StateLine
<1>5. batch \in Batch
  BY <1>1, <1>4
<1>6. [n \in Nodes |-> nodes'[n].queue] = NoMessages
  BY <1>3, Zenon DEF NoMessages
<1>9. \A n, i, m : ~ Way(line, Top, 0, n, i, m)
  BY <1>1, NobodyWaits
<1>10. CASE Latency > latencyStall
  <2>1. /\ latencyStall' = latencyStall + 1 /\ toSend' = queued /\ inbox' = inbox
    BY <1>10 DEF Collect
  <2>2. Len(queued) = Len(toSend) + 1 /\ queued[Len(toSend) + 1] = batch
        /\ \A l \in 1 .. Len(toSend) : queued[l] = toSend[l]
    BY <1>1, <1>5
  <2> HIDE DEF queued
  <2>3. Top' = Top + 1
    BY <1>1, <2>1, <2>2 DEF Top
  <2>4. line' = HeldBack(line, Top)
    <3>1. \A l \in 0 .. Top + 1 : line'[l] = IF l <= Top THEN line[l] ELSE NoMessages
      <4>1. line' = [l \in 0 .. Top + 1 |-> IF l = 0 THEN inbox
                                             ELSE IF l <= Top THEN queued[l] ELSE NoMessages]
        BY <1>1, <1>6, <2>1, <2>2, <2>3 DEF line, LineOf, Top
      <4>2. \A l \in 1 .. Top : queued[l] = line[l]
        BY <1>1, <1>4, <2>2, StateLine
      <4> QED
        BY <1>1, <4>1, <4>2
    <3>2. line' = [l \in 0 .. Top + 1 |-> line'[l]]
      BY <1>1, <2>1, <2>2 DEF line, LineOf
    <3> QED
      BY <3>1, <3>2 DEF HeldBack
  <2>5. \A l, n, i, m : Way(line', Top', l, n, i, m) <=> l \in Nat /\ Way(line, Top, l + 0, n, i, m)
    <3>1. \A l, n, i, m : Way(line, Top, l, n, i, m) => l \in Nat
      BY <1>1 DEF Way
    <3> QED
      BY <1>1, <2>3, <2>4, <3>1, WayHeldBack
  <2> QED
    BY <1>1, <1>3, <1>held, <1>9, <1>10, <2>1, <2>3, <2>5
<1>11. CASE ~(Latency > latencyStall)
  <2>1. /\ latencyStall' = latencyStall /\ toSend' = Tail(queued) /\ inbox' = Head(queued)
    BY <1>11 DEF Collect
  <2>2. /\ Len(Tail(queued)) = Len(toSend) /\ Head(queued) = IF Len(toSend) = 0 THEN batch ELSE toSend[1]
        /\ \A l \in 1 .. Len(toSend) :
              Tail(queued)[l] = IF l = Len(toSend) THEN batch ELSE toSend[l + 1]
    BY <1>1, <1>5
  <2> HIDE DEF queued
  <2>3. Top' = Top
    BY <1>1, <2>1, <2>2 DEF Top
  <2>4. line' = Shifted(line, Top)
    <3>1. \A l \in 0 .. Top : line'[l] = IF l < Top THEN line[l + 1] ELSE NoMessages
      <4>1. line' = [l \in 0 .. Top |-> IF l = 0 THEN Head(queued)
                                         ELSE IF l < Top THEN Tail(queued)[l] ELSE NoMessages]
        BY <1>1, <1>6, <2>1, <2>2, <2>3 DEF line, LineOf, Top
      <4>2. \A l \in 1 .. Top - 1 : Tail(queued)[l] = line[l + 1]
        <5> TAKE l \in 1 .. Top - 1
        <5>1. l \in 1 .. Len(toSend) /\ l + 1 \in 1 .. Top
          BY <1>1
        <5>2. CASE l = Len(toSend)
          BY <1>1, <1>4, <2>2, <5>1, <5>2
        <5>3. CASE l # Len(toSend)
          BY <1>1, <2>2, <5>1, <5>3, StateLine
        <5> QED
          BY <5>2, <5>3
      <4>3. Head(queued) = line[1]
        BY <1>1, <1>4, <2>2, StateLine
      <4> HIDE DEF batch
      <4>4. Top \in Nat
        BY <1>1
      <4>5. ASSUME NEW l \in 0 .. Top PROVE line'[l] = IF l < Top THEN line[l + 1] ELSE NoMessages
        <5>1. CASE l = 0
          BY <4>1, <4>3, <4>4, <5>1, <1>1
        <5>2. CASE l \in 1 .. Top - 1
          <6>1. l \in 0 .. Top /\ l # 0 /\ l < Top
            BY <4>4, <5>2
          <6>2. line'[l] = Tail(queued)[l]
            BY <4>1, <6>1, Zenon
          <6> QED
            BY <4>2, <5>2, <6>1, <6>2, Zenon
        <5>3. CASE l = Top
          BY <4>1, <4>4, <5>3, <1>1
        <5> QED
          BY <4>4, <5>1, <5>2, <5>3
      <4> QED
        BY <4>5
    <3>2. line' = [l \in 0 .. Top |-> line'[l]]
      BY <1>1, <2>1, <2>2 DEF line, LineOf
    <3> QED
      BY <3>1, <3>2 DEF Shifted
  <2>5. \A l, n, i, m : Way(line', Top', l, n, i, m) <=> l \in Nat /\ Way(line, Top, l + 1, n, i, m)
    BY <1>1, <2>3, <2>4, WayShifted
  <2> QED
    BY <1>1, <1>3, <1>held, <1>9, <1>11, <2>1, <2>3, <2>5
<1> QED
  BY <1>10, <1>11

LEMMA CollectStep ==
    ASSUME TypeOK, TypeOK', CalmDelivery, outages = 0, Collect
    PROVE  /\ CalmDelivery' /\ SameRecords(nodes, nodes')
           /\ \A n \in Nodes : nodes'[n].keyspaces = nodes[n].keyspaces
           /\ \E d \in {0, 1} :
                /\ \A l, n, i, m : Way(line', Top', l, n, i, m)
                                    <=> l \in Nat /\ Way(line, Top, l + d, n, i, m)
                /\ \A n, i, m : d = 1 => ~ Way(line, Top, 0, n, i, m)
<1>0. /\ LoopInv /\ Orderly(nodes, line, Top, NextCollect)
      /\ inbox = NoMessages /\ phase = "collect" /\ Top = latencyStall /\ latencyStall <= Latency
  BY DEF CalmDelivery, LoopInv, Collect
<1>1. /\ now \in Nat /\ Top \in Nat \ {0} /\ NextCollect \in Nat
      /\ line \in [0 .. Top -> Batch] /\ latencyStall \in Nat
  BY StateLine DEF TypeOK
<1>2. /\ SameRecords(nodes, nodes')
      /\ \A n \in Nodes : nodes'[n].keyspaces = nodes[n].keyspaces
      /\ \A n, i, m : ~ Way(line, Top, 0, n, i, m)
  BY <1>0, CollectLine
<1>3. PICK d \in {0, 1} :
        /\ \A l, n, i, m : Way(line', Top', l, n, i, m)
                            <=> l \in Nat /\ Way(line, Top, l + d, n, i, m)
        /\ Top' = Top + 1 - d
        /\ d = 0 => /\ Latency > latencyStall /\ latencyStall' = latencyStall + 1
                    /\ inbox' = NoMessages
        /\ d = 1 => ~(Latency > latencyStall) /\ latencyStall' = latencyStall
  BY <1>0, CollectLine
<1>4. NextCollect = now /\ NextCollect' = now + 1
  BY <1>0, <1>1 DEF Collect, NextCollect, InSetup, AfterDeliver, AfterBeats, status
<1>5. phase' # "collect" /\ phase' # "add" /\ (phase' = "deliver" <=> inbox' # NoMessages)
  BY DEF Collect, AfterDeliver, AfterBeats, InSetup
<1>6. Orderly(nodes', line', Top', NextCollect')
  <2>1. /\ Top' \in Nat /\ NextCollect' \in Nat
        /\ NextCollect' - Top' = NextCollect - Top + d
    BY <1>1, <1>3, <1>4
  <2> QED
    BY <1>0, <1>1, <1>2, <1>3, <1>4, <2>1, ShiftOrderly
<1>7. LoopInv'
  <2>1. online' = online
    BY DEF Collect, status
  <2> QED
    BY <1>0, <1>1, <1>3, <1>5, <2>1, LatencyAssumption DEF LoopInv, InSetup
<1> QED
  BY <1>2, <1>3, <1>6, <1>7 DEF CalmDelivery

LEMMA DeliverStep ==
    ASSUME TypeOK, TypeOK', CalmDelivery, outages = 0, Deliver
    PROVE  /\ CalmDelivery'
           /\ \E a \in Nodes : \E m \in Message :
                /\ Way(line, Top, 0, a, 1, m)
                /\ line[0][a] # << >> /\ m \in Head(line[0][a])
                /\ line' = Rest(line, a, m) /\ Top' = Top
                /\ \A n \in Nodes : n # m.dst => nodes'[n] = nodes[n]
                /\ nodes'[m.dst].keyspaces = nodes[m.dst].keyspaces \cup m.blocks
                /\ \A n \in Nodes : nodes'[n].queue = nodes[n].queue
                /\ \A n, p \in Nodes : nodes'[n].heard[p].id \in
                      { nodes[n].heard[p].id, nodes[n].heard[p].id + 1 }
<1>1. /\ LoopInv /\ Orderly(nodes, line, Top, NextCollect)
      /\ phase = "deliver" /\ Top = Latency /\ NextCollect = now + 1
      /\ \A n \in Nodes : online[n]
  BY DEF CalmDelivery, LoopInv, Deliver, NextCollect
<1>2. /\ nodes \in [Nodes -> NodeState] /\ toSend \in Seq(Batch) /\ inbox \in Batch /\ now \in Nat
      /\ Top \in Nat \ {0} /\ Top = Len(toSend) + 1
      /\ line \in [0 .. Top -> Batch] /\ line[0] = inbox
      /\ line[Top] = [n \in Nodes |-> nodes[n].queue]
  BY StateLine DEF TypeOK
<1>3. PICK a \in NextSender : \E m \in FirstOf(Head(inbox[a])) :
        /\ IF Arrives(m)
           THEN nodes' = [nodes EXCEPT ![m.dst] = receiveMessage(@, m, now)]
           ELSE UNCHANGED nodes
        /\ inbox' = InboxAfter(a, m)
  BY DEF Deliver
<1>4. PICK m \in FirstOf(Head(inbox[a])) :
        /\ IF Arrives(m)
           THEN nodes' = [nodes EXCEPT ![m.dst] = receiveMessage(@, m, now)]
           ELSE UNCHANGED nodes
        /\ inbox' = InboxAfter(a, m)
  BY <1>3
<1>5. /\ a \in Nodes /\ line[0][a] # << >> /\ m \in Head(line[0][a])
      /\ inbox[a] # << >>
  BY <1>2 DEF NextSender, FirstOf
<1>6. Way(line, Top, 0, a, 1, m)
  BY <1>2, <1>5, WayRest
<1>7. m \in Message /\ m.src = a /\ m.dst \in Nodes
  <2>1. m \in Message
    BY <1>2, <1>6, WayType
  <2>2. m.src = a
    BY <1>1, <1>6, SourceFlat DEF Orderly
  <2> QED
    BY <2>1, <2>2 DEF Message
<1> DEFINE st2 == receiveMessage(nodes[m.dst], m, now)
           nds2 == [nodes EXCEPT ![m.dst] = st2]
<1>8. nodes' = nds2
  <2>1. Arrives(m)
    BY <1>1, <1>5, <1>7 DEF Arrives
  <2> QED
    BY <1>4, <2>1, Zenon
<1>9. /\ st2.queue = nodes[m.dst].queue
      /\ st2.keyspaces = nodes[m.dst].keyspaces \cup m.blocks
      /\ \A p \in Nodes : st2.heard[p].id \in
            { nodes[m.dst].heard[p].id, nodes[m.dst].heard[p].id + 1 }
      /\ Orderly(nds2, Rest(line, a, m), Top, now + 1)
  BY <1>1, <1>2, <1>5, ReceiveOrderly
<1>10. \A n \in Nodes : nodes'[n] = IF n = m.dst THEN st2 ELSE nodes[n]
  BY <1>2, <1>7, <1>8
<1> HIDE DEF st2, nds2
<1>11. \A n \in Nodes : nodes'[n].queue = nodes[n].queue
  BY <1>9, <1>10
<1>12. Top' = Top /\ toSend' = toSend
  BY DEF Deliver, Top
<1>13. line' = Rest(line, a, m)
  <2> DEFINE new == IF Head(inbox[a]) = {m} THEN Tail(inbox[a])
                    ELSE << Head(inbox[a]) \ {m} >> \o Tail(inbox[a])
             first == [inbox EXCEPT ![a] = new]
  <2>1. inbox' = first
    BY <1>4 DEF InboxAfter
  <2>2. Rest(line, a, m) = [line EXCEPT ![0] = first]
    BY <1>2, Zenon DEF Rest
  <2> HIDE DEF first
  <2>3. [n \in Nodes |-> nodes'[n].queue] = [n \in Nodes |-> nodes[n].queue]
    BY <1>11, Zenon
  <2> DEFINE q == [n \in Nodes |-> nodes[n].queue]
  <2> HIDE DEF q
  <2>4. line' = [l \in 0 .. Top |-> IF l = 0 THEN first ELSE IF l <= Len(toSend) THEN toSend[l] ELSE q]
    BY <1>2, <1>12, <2>1, <2>3 DEF line, LineOf, q
  <2>5. line = [l \in 0 .. Top |-> IF l = 0 THEN inbox ELSE IF l <= Len(toSend) THEN toSend[l] ELSE q]
    BY <1>2 DEF line, LineOf, q
  <2> QED
    BY <1>2, <2>2, <2>4, <2>5
<1>14. NextCollect' = now + 1 /\ phase' # "add" /\ (phase' = "deliver" <=> inbox' # NoMessages)
  <2>1. phase' = IF inbox' = NoMessages THEN AfterDeliver ELSE "deliver"
    BY DEF Deliver
  <2>2. AfterDeliver = IF InSetup THEN "tick" ELSE IF HeartbeatDue THEN "beat"
                       ELSE IF RunEvents THEN "events" ELSE "consume"
    BY DEF AfterDeliver, AfterBeats
  <2>3. now' = now /\ InSetup' = InSetup
    BY DEF Deliver, InSetup
  <2> QED
    BY <2>1, <2>2, <2>3 DEF NextCollect
<1>15. LoopInv'
  BY <1>1, <1>12, <1>14 DEF LoopInv, Deliver, status
<1>16. CalmDelivery'
  BY <1>8, <1>9, <1>12, <1>13, <1>14, <1>15 DEF CalmDelivery
<1>17. \A n, p \in Nodes : nodes'[n].heard[p].id \in
          { nodes[n].heard[p].id, nodes[n].heard[p].id + 1 }
  BY <1>9, <1>10
<1> QED
  BY <1>5, <1>6, <1>7, <1>9, <1>10, <1>11, <1>12, <1>13, <1>16, <1>17
-----------------------------------------------------------------------------
LEMMA InitCalm == Init => CalmDelivery
<1> SUFFICES ASSUME Init PROVE LoopInv /\ Orderly(nodes, line, Top, NextCollect)
  BY DEF CalmDelivery
<1>1. TypeOK
  BY InitTypeOK
<1>2. toSend = << >> /\ inbox = NoMessages /\ now = 0 /\ phase = "add" /\ latencyStall = 1
  BY DEF Init
<1>3. Top = 1 /\ line \in [0 .. 1 -> Batch] /\ line[0] = NoMessages
  BY <1>1, <1>2, StateLine DEF Top
<1>4. \A n \in Nodes : /\ nodes[n].queue = << >> /\ nodes[n].confirm = {}
                       /\ \A p \in Nodes : nodes[n].heard[p].id = 0 /\ nodes[n].nextId[p] = 1
  BY DEF Init, NewNode, NoData
<1>5. line[1] = NoMessages
  <2>1. [n \in Nodes |-> nodes[n].queue] = NoMessages
    BY <1>4, Zenon DEF NoMessages
  <2> QED
    BY <1>1, <1>3, <2>1, StateLine
<1>6. \A l, n, i, m : ~ Way(line, Top, l, n, i, m)
  BY <1>3, <1>5 DEF Way, NoMessages
<1>7. LoopInv
  BY <1>2, <1>3, NAssumption, LatencyAssumption DEF LoopInv, InSetup, Init
<1>8. SourceInv(nodes, line, Top) /\ SentInv(nodes, line, Top, NextCollect)
      /\ AnswerInv(nodes, line, Top, NextCollect) /\ OrderInv(line, Top)
  BY <1>6, SourceFlat, SentFlat, AnswerFlat, OrderFlat
<1>9. NoGapInv(nodes, line, Top) /\ HeardInv(nodes) /\ FiledInv(nodes)
  BY <1>4 DEF NoGapInv, HeardInv, FiledInv
<1> QED
  BY <1>7, <1>8, <1>9 DEF Orderly

(* What a step that is neither a collection nor a delivery sends: nothing, *)
(* the heartbeats of a node, a keyspace message, or both in this order.    *)
LEMMA NextCalm ==
    ASSUME TypeOK, TypeOK', CalmDelivery, outages = 0, [Next]_vars
    PROVE  /\ outages' = 0 => CalmDelivery'
           /\ phase = "deliver" => \A n \in Nodes : nodes'[n].queue = nodes[n].queue
           /\ \A n, p \in Nodes : nodes'[n].heard[p].id \in
                 { nodes[n].heard[p].id, nodes[n].heard[p].id + 1 }
<1> DEFINE Calm  == outages' = 0 => CalmDelivery'
           Quiet == phase = "deliver" => \A n \in Nodes : nodes'[n].queue = nodes[n].queue
           Heeds == \A n, p \in Nodes : nodes'[n].heard[p].id \in
                       { nodes[n].heard[p].id, nodes[n].heard[p].id + 1 }
<1> SUFFICES Calm /\ Quiet /\ Heeds
  OBVIOUS
<1>0. /\ LoopInv /\ nodes \in [Nodes -> NodeState] /\ InTurn \in Nodes /\ PeersInTurn \subseteq Nodes
      /\ now \in Nat /\ Beaten \in NodeState
  BY InTurnType, BeatenType DEF CalmDelivery, TypeOK
<1>same. ASSUME UNCHANGED nodes PROVE Heeds /\ Quiet /\ SameRecords(nodes, nodes')
                                     /\ \A n \in Nodes : nodes'[n].queue = nodes[n].queue
  BY <1>same DEF SameRecords
<1>one. ASSUME NEW st2, nodes' = [nodes EXCEPT ![InTurn] = st2], st2.heard = nodes[InTurn].heard
        PROVE  Heeds
  <2>1. \A n \in Nodes : nodes'[n].heard = nodes[n].heard
    BY <1>0, <1>one
  <2> QED
    BY <2>1
<1>dies. ASSUME Dies, phase \in {"beat", "share"} PROVE Calm /\ Quiet /\ Heeds
  <2>1. NextCollect' = NextCollect /\ LoopInv'
    BY <1>0, <1>dies, RoundTick, LoopKept DEF Dies
  <2> QED
    BY <1>dies, <1>same, <2>1, QuietStep DEF Dies, network
<1>1. CASE AddNode
  <2>1. phase = "add" /\ InSetup /\ now' = now /\ phase' \in {"beat", "collect"}
    BY <1>0, <1>1 DEF AddNode, LoopInv, AfterAdd
  <2>2. NextCollect' = NextCollect
    BY <2>1 DEF NextCollect, InSetup
  <2>3. LoopInv'
    BY <1>0, <1>1, <2>1 DEF AddNode, LoopInv, network, status, Top
  <2> QED
    BY <1>1, <1>same, <2>2, <2>3, QuietStep DEF AddNode, network
<1>beat. /\ Sends(nodes[InTurn], Beaten, InTurn, PeersInTurn, Beats(nodes[InTurn], InTurn, PeersInTurn), now)
         /\ Beaten.heard = nodes[InTurn].heard
  <2>1. nodes[InTurn] \in NodeState
    BY <1>0
  <2> QED
    BY <1>0, <2>1, HeartbeatSends DEF Beaten, Sends
<1>2. CASE BeatAndGive
  <2>1. PICK p \in FirstAsker(Beaten, PeersInTurn), b \in Largest(Beaten.keyspaces) :
          IF SplitThrows(b) THEN Dies
          ELSE /\ nodes' = [nodes EXCEPT ![InTurn] = giveHalf(Beaten, InTurn, p, b, now)]
               /\ NoteShare(p)
               /\ NextTurn
               /\ UNCHANGED << network, status, now, sharing, issued >>
    BY <1>2 DEF BeatAndGive
  <2>2. CASE SplitThrows(b)
    BY <1>2, <1>dies, <2>1, <2>2 DEF BeatAndGive
  <2>3. CASE ~SplitThrows(b)
    <3>1. p \in Nodes /\ b \in Beaten.keyspaces /\ phase = "beat"
      BY <1>0, <1>2, <2>1 DEF FirstAsker, Askers, Largest, FullBlocks, BeatAndGive
    <3> DEFINE st3 == giveHalf(Beaten, InTurn, p, b, now)
               own == (Beaten.keyspaces \ {b}) \cup {FirstHalf(b), SecondHalf(b)}
    <3>2. own \in SUBSET Block /\ {SecondHalf(b)} \in SUBSET Block
      BY <1>0, <3>1, NodeStateFields, HalvesType
    <3>3. st3 = sendCustKeyspace([Beaten EXCEPT !.keyspaces = own], InTurn, p, {SecondHalf(b)}, now)
      BY Zenon DEF giveHalf, splitKeyspace
    <3> HIDE DEF own, st3
    <3>4. Sends(Beaten, st3, InTurn, {p}, {custMessage(Beaten, InTurn, p, {SecondHalf(b)})}, now)
      BY <1>0, <3>1, <3>2, <3>3, CustSends
    <3>5. st3.heard = nodes[InTurn].heard
      BY <1>beat, <3>4 DEF Sends
    <3>6. nodes' = [nodes EXCEPT ![InTurn] = st3]
      BY <2>1, <2>3 DEF st3
    <3>7. phase' \in {"beat", "share", "died", AfterBeats} /\ UNCHANGED << network, status, now >>
      BY <2>1, <2>3 DEF NextTurn
    <3>8. CalmDelivery'
      BY <1>0, <1>beat, <3>1, <3>4, <3>6, <3>7, SendTwiceStep
    <3> QED
      BY <1>one, <3>1, <3>5, <3>6, <3>8
  <2> QED
    BY <2>2, <2>3
<1>3. CASE BeatOnly
  <2>1. /\ nodes' = [nodes EXCEPT ![InTurn] = Beaten] /\ phase = "beat"
        /\ phase' \in {"beat", "share", "died", AfterBeats} /\ UNCHANGED << network, status, now >>
    BY <1>3 DEF BeatOnly, NextTurn
  <2>2. CalmDelivery'
    BY <1>0, <1>beat, <2>1, SendStep
  <2> QED
    BY <1>beat, <1>one, <2>1, <2>2
<1>4. CASE BeatThenShare
  <2>1. /\ nodes' = [nodes EXCEPT ![InTurn] = Beaten] /\ phase = "beat"
        /\ phase' \in {"beat", "share", "died", AfterBeats} /\ UNCHANGED << network, status, now >>
    BY <1>4 DEF BeatThenShare
  <2>2. CalmDelivery'
    BY <1>0, <1>beat, <2>1, SendStep
  <2> QED
    BY <1>beat, <1>one, <2>1, <2>2
<1>5. CASE ShareDigit
  <2>0. PICK p \in Neediest, w \in Strides :
          /\ w > digit
          /\ \E s \in Shares(nodes[InTurn].keyspaces, w) :
               IF ShareThrows(s) THEN Dies
               ELSE /\ nodes' = [nodes EXCEPT ![InTurn] = shareBlocks(@, InTurn, p, s, now)]
                    /\ NoteShare(p)
                    /\ digit' = w
                    /\ UNCHANGED << network, status, now, phase, turn, deficit, issued >>
    BY <1>5 DEF ShareDigit
  <2>1. PICK s \in Shares(nodes[InTurn].keyspaces, w) :
          IF ShareThrows(s) THEN Dies
          ELSE /\ nodes' = [nodes EXCEPT ![InTurn] = shareBlocks(@, InTurn, p, s, now)]
               /\ NoteShare(p)
               /\ digit' = w
               /\ UNCHANGED << network, status, now, phase, turn, deficit, issued >>
    BY <2>0
  <2>2. CASE ShareThrows(s)
    BY <1>5, <1>dies, <2>1, <2>2 DEF ShareDigit
  <2>3. CASE ~ShareThrows(s)
    <3> DEFINE st  == nodes[InTurn]
               own == (st.keyspaces \ s.cut) \cup UNION { Chain(b, s.down) : b \in s.cut }
               st2 == shareBlocks(st, InTurn, p, s, now)
    <3>1. phase = "share" /\ p \in Nodes /\ st \in NodeState /\ st.keyspaces \in SUBSET Block
      BY <1>0, <1>5, NodeStateFields DEF ShareDigit, Neediest, TypeOK
    <3>2. s \in ShareType(st.keyspaces)
      BY <3>1, SharesType
    <3>3. own \in SUBSET Block /\ s.sent \in SUBSET Block
      <4>1. \A b \in s.cut : Chain(b, s.down) \subseteq Block
        BY <3>1, <3>2, ChainType DEF ShareType
      <4> QED
        BY <3>1, <3>2, <4>1 DEF ShareType
    <3>4. st2 = sendCustKeyspace([st EXCEPT !.keyspaces = own], InTurn, p, s.sent, now)
      BY Zenon DEF shareBlocks
    <3>5. nodes' = [nodes EXCEPT ![InTurn] = st2]
      BY <2>1, <2>3
    <3> HIDE DEF own, st2
    <3>6. Sends(st, st2, InTurn, {p}, {custMessage(st, InTurn, p, s.sent)}, now)
      BY <1>0, <3>1, <3>3, <3>4, CustSends
    <3>7. st2.heard = st.heard
      BY <3>6 DEF Sends
    <3>8. CalmDelivery'
      BY <1>0, <2>1, <2>3, <3>1, <3>5, <3>6, SendStep
    <3> QED
      BY <1>one, <3>1, <3>5, <3>7, <3>8
  <2> QED
    BY <2>2, <2>3
<1>6. CASE ShareNext
  <2>1. /\ phase = "share" /\ phase' \in {"beat", "share", "died", AfterBeats}
        /\ UNCHANGED << nodes, network, status, now >>
    BY <1>6 DEF ShareNext, NextTurn
  <2>2. NextCollect' = NextCollect /\ LoopInv'
    BY <1>0, <2>1, RoundTick, LoopKept
  <2> QED
    BY <1>same, <2>1, <2>2, QuietStep DEF network
<1>7. CASE Collect
  <2>1. CalmDelivery' /\ SameRecords(nodes, nodes') /\ phase # "deliver"
    BY <1>7, CollectStep DEF Collect
  <2> QED
    BY <2>1 DEF SameRecords
<1>8. CASE Deliver
  BY <1>8, DeliverStep
<1>9. CASE Events
  <2>1. phase = "events" /\ phase' = "consume" /\ UNCHANGED << nodes, network, now >>
    BY <1>9 DEF Events
  <2>2. ASSUME outages' = 0 PROVE \A n \in Nodes : online'[n]
    <3>1. PICK toggled \in SUBSET Nodes :
            /\ outages' = outages + Cardinality({ n \in toggled : online[n] })
            /\ online' = [n \in Nodes |-> (n \in toggled) # online[n]]
      BY <1>9 DEF Events
    <3>2. IsFiniteSet({ n \in toggled : online[n] })
      <4>1. IsFiniteSet(Nodes)
        BY FS_Interval, NAssumption DEF Nodes
      <4> QED
        BY <4>1, FS_Subset
    <3>3. Cardinality({ n \in toggled : online[n] }) = 0
      BY <2>2, <3>1, <3>2, FS_CardinalityType
    <3>4. { n \in toggled : online[n] } = {}
      BY <3>2, <3>3, FS_EmptySet
    <3>5. toggled = {}
      BY <1>0, <3>4 DEF LoopInv
    <3>6. \A n \in Nodes : online'[n] = ((n \in toggled) # online[n])
      BY <3>1, Zenon
    <3> QED
      BY <1>0, <3>5, <3>6 DEF LoopInv
  <2>3. NextCollect' = NextCollect
    BY <2>1 DEF NextCollect
  <2>4. ASSUME outages' = 0 PROVE LoopInv'
    BY <1>0, <2>1, <2>2, <2>4 DEF LoopInv, network, Top
  <2> QED
    BY <1>same, <2>1, <2>3, <2>4, QuietStep DEF network
<1>10. CASE ConsumeKey
  <2>1. PICK b \in minimumKeyspace(nodes[InTurn]) :
          nodes' = [nodes EXCEPT ![InTurn] = getNextKey(@, b)]
    BY <1>10 DEF ConsumeKey
  <2>2. /\ phase = "consume" /\ phase' \in {"consume", "tick"} /\ UNCHANGED << network, status, now >>
    BY <1>10 DEF ConsumeKey, NextConsumer
  <2>3. LET st2 == getNextKey(nodes[InTurn], b)
        IN  /\ st2.heard = nodes[InTurn].heard /\ st2.nextId = nodes[InTurn].nextId
            /\ st2.confirm = nodes[InTurn].confirm /\ st2.queue = nodes[InTurn].queue
    <3>1. \A st \in NodeState : \A own : LET st2 == [st EXCEPT !.keyspaces = own]
            IN  /\ st2.heard = st.heard /\ st2.nextId = st.nextId
                /\ st2.confirm = st.confirm /\ st2.queue = st.queue
      BY DEF NodeState
    <3> QED
      BY <1>0, <3>1 DEF getNextKey
  <2>4. /\ SameRecords(nodes, nodes') /\ \A n \in Nodes : nodes'[n].queue = nodes[n].queue
        /\ Heeds
    <3> DEFINE st2 == getNextKey(nodes[InTurn], b)
    <3>1. \A n \in Nodes : nodes'[n] = IF n = InTurn THEN st2 ELSE nodes[n]
      BY <1>0, <2>1
    <3>2. st2.heard = nodes[InTurn].heard /\ st2.nextId = nodes[InTurn].nextId
          /\ st2.confirm = nodes[InTurn].confirm /\ st2.queue = nodes[InTurn].queue
      BY <2>3
    <3> HIDE DEF st2
    <3> QED
      BY <3>1, <3>2 DEF SameRecords
  <2>5. NextCollect' = NextCollect
    BY <2>2 DEF NextCollect
  <2>6. LoopInv'
    BY <1>0, <2>2 DEF LoopInv, network, status, Top
  <2> QED
    BY <2>2, <2>4, <2>5, <2>6, QuietStep DEF network
<1>11. CASE ConsumeNothing
  <2>1. /\ phase = "consume" /\ phase' \in {"consume", "tick"}
        /\ UNCHANGED << nodes, network, status, now >>
    BY <1>11 DEF ConsumeNothing, NextConsumer
  <2>2. NextCollect' = NextCollect
    BY <2>1 DEF NextCollect
  <2>3. LoopInv'
    BY <1>0, <2>1 DEF LoopInv, network, status, Top
  <2> QED
    BY <1>same, <2>1, <2>2, <2>3, QuietStep DEF network
<1>12. CASE Tick
  <2>1. /\ phase = "tick" /\ phase' = AfterTick /\ now' = now + 1
        /\ UNCHANGED << nodes, network, status >>
    BY <1>12 DEF Tick
  <2>2. phase' \in {"add", "done", "collect"} /\ (phase' = "add" => now + 1 < N - 1)
    BY <2>1 DEF AfterTick
  <2>3. NextCollect' = NextCollect
    BY <2>1, <2>2 DEF NextCollect
  <2>4. LoopInv'
    BY <1>0, <2>1, <2>2 DEF LoopInv, network, status, Top, InSetup
  <2> QED
    BY <1>same, <2>1, <2>3, <2>4, QuietStep DEF network
<1>13. CASE UNCHANGED vars
  <2>1. NextCollect' = NextCollect /\ LoopInv'
    BY <1>0, <1>13 DEF vars, NextCollect, InSetup, LoopInv, Top
  <2> QED
    BY <1>13, <1>same, <2>1, QuietStep DEF vars
<1> QED
  BY <1>1, <1>2, <1>3, <1>4, <1>5, <1>6, <1>7, <1>8, <1>9, <1>10, <1>11, <1>12, <1>13
  DEF Next
-----------------------------------------------------------------------------
LEMMA OutagesCount == ASSUME TypeOK, [Next]_vars PROVE outages' = 0 => outages = 0
<1>1. CASE Events
  <2>1. PICK toggled \in SUBSET Nodes :
          outages' = outages + Cardinality({ n \in toggled : online[n] })
    BY <1>1 DEF Events
  <2>2. Cardinality({ n \in toggled : online[n] }) \in Nat
    <3>1. IsFiniteSet(Nodes)
      BY FS_Interval, NAssumption DEF Nodes
    <3> QED
      BY <3>1, FS_Subset, FS_CardinalityType
  <2> QED
    BY <2>1, <2>2 DEF TypeOK
<1>2. CASE ~Events
  <2>1. outages' = outages
    BY <1>2 DEF Next, vars, Dies, AddNode, BeatAndGive, BeatOnly, BeatThenShare, ShareDigit,
                ShareNext, Collect, Deliver, ConsumeKey, ConsumeNothing, Tick, status
  <2> QED
    BY <2>1
<1> QED
  BY <1>1, <1>2

(* Before the first outage the latency line is in order: every message on  *)
(* its way is the next one, or follows the next one, that its receiver     *)
(* expects, and will be there before its sender could want to repeat it.   *)
THEOREM CalmDelivered == Spec => []CalmDelivery
<1>1. TypeOK /\ TypeOK' /\ CalmDelivery /\ [Next]_vars => CalmDelivery'
  <2> SUFFICES ASSUME TypeOK, TypeOK', CalmDelivery, [Next]_vars PROVE CalmDelivery'
    OBVIOUS
  <2>1. CASE outages = 0
    <3>1. outages' = 0 => CalmDelivery'
      BY <2>1, NextCalm
    <3> QED
      BY <3>1 DEF CalmDelivery
  <2>2. CASE outages # 0
    BY <2>2, OutagesCount DEF CalmDelivery
  <2> QED
    BY <2>1, <2>2
<1> QED
  BY <1>1, InitCalm, TypeCorrect, PTL DEF Spec

(* While no node has been offline the confirmation loop of receiveMessage  *)
(* never finds a message due to be sent again, whatever the latency.       *)
THEOREM SentOnlyOnce == Spec /\ [](outages = 0) => NothingResent
<1> DEFINE Quiet == phase = "deliver" => \A n \in Nodes : nodes'[n].queue = nodes[n].queue
<1>1. TypeOK /\ TypeOK' /\ CalmDelivery /\ outages = 0 /\ [Next]_vars => [Quiet]_vars
  BY NextCalm
<1> QED
  BY <1>1, TypeCorrect, CalmDelivered, PTL DEF Spec, NothingResent

(* While no node has been offline, no step takes what a node has heard of  *)
(* a peer further than to the next id: nothing is skipped, nothing comes   *)
(* twice or out of order.                                                  *)
THEOREM InOrderHeard == Spec /\ [](outages = 0) => HeardInOrder
<1> DEFINE Heeds == \A n, p \in Nodes : nodes'[n].heard[p].id \in
                       { nodes[n].heard[p].id, nodes[n].heard[p].id + 1 }
<1>1. TypeOK /\ TypeOK' /\ CalmDelivery /\ outages = 0 /\ [Next]_vars => [Heeds]_vars
  BY NextCalm
<1> QED
  BY <1>1, TypeCorrect, CalmDelivered, PTL DEF Spec, HeardInOrder
-----------------------------------------------------------------------------
(***************************************************************************)
(* What holds however often the nodes go offline: the confirmation loop    *)
(* never steps past the end of confirmMsg, and what is kept of a peer      *)
(* always has ratios to read.                                              *)
(*                                                                         *)
(* Both rest on the rounds in which all nodes send their heartbeats: in    *)
(* the middle of a round some nodes have sent theirs and others have not   *)
(* (the pairs pend of a sender and a receiver whose heartbeat is still to  *)
(* come, and the pairs done), so that a message may acknowledge the last   *)
(* one its receiver has sent, but only until that one's turn has come.     *)
(* Two nodes hear of each other at the same delivery or not at all, since  *)
(* heartbeats of the same round travel in the same batch and nodes do not  *)
(* go offline while it is delivered.                                       *)
(***************************************************************************)


(* Node n has heard from p. *)
Met(nds, n, p) == nds[n].heard[p].kind # "none"

(* A heartbeat of n for p waits at level l. *)
Greets(lv, l, n, p) ==
    \E i \in DOMAIN lv[l][n] : \E m \in lv[l][n][i] : m.kind = "info" /\ m.dst = p

(* Message m, sent by n, is numbered below the next one, acknowledges less *)
(* than the last message its receiver has sent to n, or that one only if   *)
(* the receiver's heartbeat is still to come, and carries blocks only      *)
(* between nodes that have heard from each other.                          *)
Sound(nds, pend, n, m) ==
    /\ m.src = n
    /\ m.id < nds[n].nextId[m.dst]
    /\ m.ack < nds[m.dst].nextId[n]
    /\ m.ack + 1 < nds[m.dst].nextId[n] \/ << m.dst, n >> \in pend
    /\ m.kind = "keyspace" => Met(nds, m.dst, n) /\ Met(nds, n, m.dst)

SoundInv(nds, lv, top, pend) ==
    /\ \A l \in 0 .. top, n \in Nodes : \A i \in DOMAIN lv[l][n] : \A m \in lv[l][n][i] :
         Sound(nds, pend, n, m)
    /\ \A n \in Nodes : \A e \in nds[n].confirm : Sound(nds, pend, n, e.msg)

(* What has been heard of a node is behind its counters, by more than one  *)
(* once it has sent its heartbeat of this round.                           *)
CountInv(nds, done) ==
    \A n, p \in Nodes :
      /\ nds[p].heard[n].id < nds[n].nextId[p]
      /\ << n, p >> \in done => nds[p].heard[n].id + 1 < nds[n].nextId[p]
      /\ Met(nds, n, p) => nds[n].heard[p].ack + 1 < nds[n].nextId[p]

(* The last message to a peer, or one with a higher id, is still kept. *)
KeptInv(nds) ==
    \A n, p \in Nodes :
      nds[n].nextId[p] > 1 => \E e \in nds[n].confirm : nds[n].nextId[p] <= e.msg.id + 1

(* Nodes hear from each other at the same delivery, in either order. *)
MeetInv(nds, lv, top, on, pend, done) ==
    /\ \A n, p \in Nodes :
         Met(nds, n, p) /\ ~Met(nds, p, n) => n \in on /\ p \in on /\ Greets(lv, 0, n, p)
    /\ \A n, p \in Nodes : ~Met(nds, n, p) /\ ~Met(nds, p, n) =>
         /\ n \in on /\ p \in on /\ Greets(lv, 0, p, n) => Greets(lv, 0, n, p)
         /\ \A l \in 1 .. top :
              Greets(lv, l, p, n) => Greets(lv, l, n, p) \/ (l = top /\ << n, p >> \in pend)
    /\ \A n, p \in Nodes : << n, p >> \in done => Greets(lv, top, n, p)

RatioInv(nds) == \A n, p \in Nodes : nds[n].heard[p].kind # "keyspace"

Rounds(nds, lv, top, on, pend, done) ==
    /\ SoundInv(nds, lv, top, pend)
    /\ CountInv(nds, done)
    /\ KeptInv(nds)
    /\ MeetInv(nds, lv, top, on, pend, done)
    /\ RatioInv(nds)
-----------------------------------------------------------------------------
(* Message m of n waits at level l, wherever in the batch. *)
Waits(lv, top, l, n, m) == \E i : Way(lv, top, l, n, i, m)

LEMMA SoundFlat ==
    ASSUME NEW nds, NEW lv, NEW top, NEW pend
    PROVE  SoundInv(nds, lv, top, pend) <=>
             /\ \A l, n, m : Waits(lv, top, l, n, m) => Sound(nds, pend, n, m)
             /\ \A n \in Nodes : \A e \in nds[n].confirm : Sound(nds, pend, n, e.msg)
BY Zenon DEF SoundInv, Waits, Way

LEMMA GreetsFlat ==
    ASSUME NEW lv, NEW top, NEW l \in 0 .. top, NEW n \in Nodes, NEW p
    PROVE  Greets(lv, l, n, p) <=> \E m : Waits(lv, top, l, n, m) /\ m.kind = "info" /\ m.dst = p
BY Zenon DEF Greets, Waits, Way

LEMMA WaitsType ==
    ASSUME NEW top \in Nat, NEW lv \in [0 .. top -> Batch], NEW l, NEW n, NEW m, Waits(lv, top, l, n, m)
    PROVE  l \in 0 .. top /\ n \in Nodes /\ m \in Message
BY WayType, Zenon DEF Waits

LEMMA WaitsQueued ==
    ASSUME NEW top \in Nat, NEW lv \in [0 .. top -> Batch],
           NEW a \in Nodes, NEW burst \in SUBSET Message
    PROVE  \A l, n, m : Waits(Queued(lv, top, a, burst), top, l, n, m) <=>
             Waits(lv, top, l, n, m) \/ (l = top /\ n = a /\ m \in burst)
<1> DEFINE lv2 == Queued(lv, top, a, burst)
<1>1. \A l, n, i, m : Way(lv2, top, l, n, i, m) <=>
        Way(lv, top, l, n, i, m) \/ (l = top /\ n = a /\ i = Len(lv[top][a]) + 1 /\ m \in burst)
  BY WayQueued
<1> HIDE DEF lv2
<1> SUFFICES ASSUME NEW l, NEW n, NEW m
             PROVE  Waits(lv2, top, l, n, m) <=>
                      Waits(lv, top, l, n, m) \/ (l = top /\ n = a /\ m \in burst)
  BY DEF lv2
<1>2. ASSUME Waits(lv2, top, l, n, m)
      PROVE  Waits(lv, top, l, n, m) \/ (l = top /\ n = a /\ m \in burst)
  <2>1. PICK i : Way(lv2, top, l, n, i, m)
    BY <1>2 DEF Waits
  <2>2. Way(lv, top, l, n, i, m) => Waits(lv, top, l, n, m)
    BY Zenon DEF Waits
  <2> QED
    BY <1>1, <2>1, <2>2
<1>3. ASSUME Waits(lv, top, l, n, m) PROVE Waits(lv2, top, l, n, m)
  BY <1>1, <1>3, Zenon DEF Waits
<1>4. ASSUME l = top, n = a, m \in burst PROVE Waits(lv2, top, l, n, m)
  <2>1. Way(lv2, top, l, n, Len(lv[top][a]) + 1, m)
    BY <1>1, <1>4
  <2> QED
    BY <2>1, Zenon DEF Waits
<1> QED
  BY <1>2, <1>3, <1>4

LEMMA CountTypes ==
    ASSUME NEW nds \in [Nodes -> NodeState]
    PROVE  \A n, p \in Nodes : /\ nds[n].heard[p] \in Heard
                               /\ nds[n].heard[p].id \in Nat /\ nds[n].heard[p].ack \in Nat
                               /\ nds[n].nextId[p] \in Nat \ {0}
<1>1. \A n \in Nodes : nds[n].heard \in [Nodes -> Heard] /\ nds[n].nextId \in [Nodes -> Nat \ {0}]
  BY NodeStateFields
<1> QED
  BY <1>1 DEF Heard
-----------------------------------------------------------------------------
(* Sending. *)

(* An entry replaces one with the same id: the ids that are kept grow. *)
LEMMA FiledIds ==
    ASSUME NEW confirm \in SUBSET Entry, NEW burst \in SUBSET Message, NEW t \in Nat,
           NEW m, m \in burst \/ \E e \in confirm : e.msg = m
    PROVE  \E e \in Filed(confirm, burst, t) : e.msg.id = m.id
<1>1. CASE \E x \in burst : x.id = m.id
  <2> DEFINE Same == { x \in burst : x.id = m.id }
             Room == { N - x.dst : x \in Same }
  <2>1. \A x \in burst : x.dst \in Nat /\ N - x.dst \in Nat
    BY NAssumption DEF Message, Nodes
  <2>2. Room \in SUBSET Nat /\ Room # {}
    BY <1>1, <2>1
  <2>3. PICK r \in Room : \A s \in Room : r <= s
    <3> HIDE DEF Room
    <3> QED
      BY <2>2, LeastNatural
  <2>4. PICK x \in Same : r = N - x.dst
    BY <2>3
  <2>5. \A y \in Same : y.dst <= x.dst
    <3>1. \A y \in Same : N - x.dst <= N - y.dst
      BY <2>3, <2>4
    <3>2. \A y \in Same : y.dst \in Nat
      BY <2>1
    <3> QED
      BY <3>1, <3>2, NAssumption
  <2>6. x \in burst /\ x.id = m.id
    BY <2>4
  <2>7. x \in { z \in burst : \A y \in burst : y.id = z.id => y.dst <= z.dst }
    BY <2>5, <2>6
  <2>8. [msg |-> x, sent |-> t] \in Filed(confirm, burst, t)
    BY <2>7, Zenon DEF Filed
  <2>9. [msg |-> x, sent |-> t].msg = x
    OBVIOUS
  <2> QED
    BY <2>6, <2>8, <2>9, Zenon
<1>2. CASE ~ \E x \in burst : x.id = m.id
  <2>1. PICK e \in confirm : e.msg = m
    BY <1>2
  <2>2. e \in Filed(confirm, burst, t)
    BY <1>2, <2>1 DEF Filed
  <2> QED
    BY <2>1, <2>2
<1> QED
  BY <1>1, <1>2

(* What the turn of node a does to the pairs: it answers those that have   *)
(* sent it their heartbeat and those that will.                            *)
GreetsIn(burst, p) == \E m \in burst : m.kind = "info" /\ m.dst = p

TakesTurn(nds, a, burst, pend, done, pend2, done2) ==
    /\ \A n, p \in Nodes : << n, p >> \in pend =>
         << n, p >> \in pend2 \/ (n = a /\ GreetsIn(burst, p))
    /\ \A n, p \in Nodes : << n, p >> \in done2 =>
         << n, p >> \in done \/ (n = a /\ GreetsIn(burst, p))
    /\ \A m \in burst :
         /\ m.dst # a
         /\ << m.dst, a >> \in pend \/ << m.dst, a >> \in done
         /\ m.kind = "keyspace" => Met(nds, m.dst, a) /\ Met(nds, a, m.dst)

LEMMA SendRound ==
    ASSUME NEW nds \in [Nodes -> NodeState],
           NEW top \in Nat \ {0}, NEW lv \in [0 .. top -> Batch], NEW t \in Nat,
           NEW a \in Nodes, NEW peers \in SUBSET Nodes, NEW burst, NEW st2,
           Sends(nds[a], st2, a, peers, burst, t),
           NEW on, NEW pend, NEW done, NEW pend2, NEW done2,
           TakesTurn(nds, a, burst, pend, done, pend2, done2),
           Rounds(nds, lv, top, on, pend, done)
    PROVE  Rounds([nds EXCEPT ![a] = st2], Queued(lv, top, a, burst), top, on, pend2, done2)
<1> DEFINE nds2 == [nds EXCEPT ![a] = st2]
           lv2  == Queued(lv, top, a, burst)
           Old(l, n, m) == Waits(lv, top, l, n, m)
           New(l, n, m) == Waits(lv2, top, l, n, m)
<1>0. NextFor(nds[a], a, peers, burst) /\ burst \in SUBSET Message
  BY DEF Sends, NextFor
<1>1. \A l, n, m : New(l, n, m) <=> Old(l, n, m) \/ (l = top /\ n = a /\ m \in burst)
  BY <1>0, WaitsQueued
<1>2. \A m \in burst : /\ m \in Message /\ m.src = a /\ m.dst \in peers /\ m.dst \in Nodes
                       /\ m.id = nds[a].nextId[m.dst] /\ m.ack = nds[a].heard[m.dst].id
  BY <1>0 DEF NextFor, Message
<1>3. \A p \in peers : \E m \in burst : m.dst = p
  BY <1>0 DEF NextFor
<1>4. /\ \A n, p \in Nodes : nds2[n].heard[p] = nds[n].heard[p]
      /\ \A n, p \in Nodes : nds2[n].nextId[p] =
            IF n = a /\ p \in peers THEN nds[n].nextId[p] + 1 ELSE nds[n].nextId[p]
      /\ \A n \in Nodes : n # a => nds2[n].confirm = nds[n].confirm
      /\ nds2[a].confirm = Filed(nds[a].confirm, burst, t)
  <2>1. \A n \in Nodes : nds2[n] = IF n = a THEN st2 ELSE nds[n]
    OBVIOUS
  <2>2. \A p \in Nodes : st2.nextId[p] =
            IF p \in peers THEN nds[a].nextId[p] + 1 ELSE nds[a].nextId[p]
    BY DEF Sends, idsAfter
  <2>3. st2.heard = nds[a].heard /\ st2.confirm = Filed(nds[a].confirm, burst, t)
    BY DEF Sends
  <2> HIDE DEF nds2
  <2> QED
    BY <2>1, <2>2, <2>3
<1>5. \A n, p \in Nodes : /\ nds[n].heard[p].id \in Nat /\ nds[n].heard[p].ack \in Nat
                          /\ nds[n].nextId[p] \in Nat \ {0}
  BY CountTypes
<1>6. \A n, p \in Nodes : Met(nds2, n, p) <=> Met(nds, n, p)
  BY <1>4, Zenon DEF Met
<1>7. /\ SoundInv(nds, lv, top, pend) /\ CountInv(nds, done) /\ KeptInv(nds)
      /\ MeetInv(nds, lv, top, on, pend, done) /\ RatioInv(nds)
  BY DEF Rounds
<1>8. /\ \A n, p \in Nodes : << n, p >> \in pend =>
            << n, p >> \in pend2 \/ (n = a /\ GreetsIn(burst, p) /\ p \in peers)
      /\ \A n, p \in Nodes : << n, p >> \in done2 =>
            << n, p >> \in done \/ (n = a /\ GreetsIn(burst, p) /\ p \in peers)
      /\ \A m \in burst :
            /\ m.dst # a
            /\ << m.dst, a >> \in pend \/ << m.dst, a >> \in done
            /\ m.kind = "keyspace" => Met(nds, m.dst, a) /\ Met(nds, a, m.dst)
  BY <1>2 DEF TakesTurn, GreetsIn
<1>flat. /\ \A l \in 0 .. top, n \in Nodes : \A p :
              Greets(lv, l, n, p) <=> \E m : Old(l, n, m) /\ m.kind = "info" /\ m.dst = p
         /\ \A l \in 0 .. top, n \in Nodes : \A p :
              Greets(lv2, l, n, p) <=> \E m : New(l, n, m) /\ m.kind = "info" /\ m.dst = p
  BY GreetsFlat, Zenon
<1>kept. /\ \A m \in burst : \E e \in nds2[a].confirm : e.msg.id = m.id
         /\ \A f \in nds[a].confirm : \E e \in nds2[a].confirm : e.msg.id = f.msg.id
  <2>1. nds[a].confirm \in SUBSET Entry
    BY NodeStateFields
  <2>2. \A m : m \in burst \/ (\E e \in nds[a].confirm : e.msg = m) =>
          \E e \in Filed(nds[a].confirm, burst, t) : e.msg.id = m.id
    BY <1>0, <2>1, FiledIds, Zenon
  <2> HIDE DEF nds2
  <2> QED
    BY <1>4, <2>2, Zenon
<1>grow. \A n, p \in Nodes : nds[n].nextId[p] <= nds2[n].nextId[p] /\ nds2[n].nextId[p] \in Nat
  BY <1>4, <1>5
<1> HIDE DEF nds2, lv2, Old, New
<1>9. ASSUME NEW n \in Nodes, NEW m \in Message, Sound(nds, pend, n, m)
      PROVE  Sound(nds2, pend2, n, m)
  <2>1. m.id \in Nat /\ m.ack \in Nat /\ m.dst \in Nodes
    BY DEF Message
  <2>2. m.src = n /\ m.id < nds2[n].nextId[m.dst] /\ m.ack < nds2[m.dst].nextId[n]
    <3>1. m.src = n /\ m.id < nds[n].nextId[m.dst] /\ m.ack < nds[m.dst].nextId[n]
      BY <1>9 DEF Sound
    <3>2. /\ nds[n].nextId[m.dst] \in Nat /\ nds[m.dst].nextId[n] \in Nat
          /\ nds2[n].nextId[m.dst] \in Nat /\ nds2[m.dst].nextId[n] \in Nat
          /\ nds[n].nextId[m.dst] <= nds2[n].nextId[m.dst]
          /\ nds[m.dst].nextId[n] <= nds2[m.dst].nextId[n]
      BY <1>5, <1>grow, <2>1
    <3> QED
      BY <2>1, <3>1, <3>2
  <2>3. m.ack + 1 < nds2[m.dst].nextId[n] \/ << m.dst, n >> \in pend2
    <3>1. CASE m.ack + 1 < nds[m.dst].nextId[n]
      BY <1>4, <1>5, <2>1, <3>1
    <3>2. CASE << m.dst, n >> \in pend /\ m.ack < nds[m.dst].nextId[n]
      BY <1>4, <1>5, <1>8, <2>1, <3>2
    <3> QED
      BY <1>9, <3>1, <3>2 DEF Sound
  <2>4. m.kind = "keyspace" => Met(nds2, m.dst, n) /\ Met(nds2, n, m.dst)
    BY <1>6, <1>9, <2>1 DEF Sound
  <2> QED
    BY <2>2, <2>3, <2>4 DEF Sound
<1>10. ASSUME NEW m \in burst PROVE Sound(nds2, pend2, a, m)
  <2>1. /\ m.src = a /\ m.dst \in Nodes /\ m.dst \in peers /\ m.dst # a
        /\ m.id = nds[a].nextId[m.dst] /\ m.ack = nds[a].heard[m.dst].id
        /\ << m.dst, a >> \in pend \/ << m.dst, a >> \in done
        /\ m.kind = "keyspace" => Met(nds2, m.dst, a) /\ Met(nds2, a, m.dst)
    BY <1>2, <1>6, <1>8
  <2>2. m.id < nds2[a].nextId[m.dst]
    BY <1>4, <1>5, <2>1
  <2>3. /\ m.ack < nds[m.dst].nextId[a]
        /\ << m.dst, a >> \in done => m.ack + 1 < nds[m.dst].nextId[a]
    BY <1>7, <2>1 DEF CountInv
  <2>4. nds2[m.dst].nextId[a] = nds[m.dst].nextId[a]
    BY <1>4, <2>1
  <2>5. << m.dst, a >> \in pend => << m.dst, a >> \in pend2
    BY <1>8, <2>1
  <2> QED
    BY <2>1, <2>2, <2>3, <2>4, <2>5 DEF Sound
<1>11. SoundInv(nds2, lv2, top, pend2)
  <2>1. ASSUME NEW l, NEW n, NEW m, Waits(lv2, top, l, n, m) PROVE Sound(nds2, pend2, n, m)
    <3>1. CASE Old(l, n, m)
      <4>1. n \in Nodes /\ m \in Message
        BY <3>1, WaitsType DEF Old
      <4>2. Sound(nds, pend, n, m)
        BY <1>7, <3>1, SoundFlat DEF Old
      <4> QED
        BY <1>9, <4>1, <4>2
    <3>2. CASE n = a /\ m \in burst
      BY <1>10, <3>2
    <3> QED
      BY <1>1, <2>1, <3>1, <3>2 DEF New
  <2>2. ASSUME NEW n \in Nodes, NEW e \in nds2[n].confirm PROVE Sound(nds2, pend2, n, e.msg)
    <3>1. e \in nds[n].confirm \/ (n = a /\ e.msg \in burst)
      BY <1>4, <2>2 DEF Filed
    <3>2. CASE e \in nds[n].confirm
      <4>1. e.msg \in Message
        BY <3>2, FieldTypes
      <4>2. Sound(nds, pend, n, e.msg)
        BY <1>7, <3>2, SoundFlat
      <4> QED
        BY <1>9, <4>1, <4>2
    <3> QED
      BY <1>10, <3>1, <3>2
  <2> QED
    BY <2>1, <2>2, SoundFlat
<1>12. CountInv(nds2, done2)
  <2> SUFFICES ASSUME NEW n \in Nodes, NEW p \in Nodes
               PROVE  /\ nds2[p].heard[n].id < nds2[n].nextId[p]
                      /\ << n, p >> \in done2 => nds2[p].heard[n].id + 1 < nds2[n].nextId[p]
                      /\ Met(nds2, n, p) => nds2[n].heard[p].ack + 1 < nds2[n].nextId[p]
    BY DEF CountInv
  <2>1. /\ nds[p].heard[n].id < nds[n].nextId[p]
        /\ << n, p >> \in done => nds[p].heard[n].id + 1 < nds[n].nextId[p]
        /\ Met(nds, n, p) => nds[n].heard[p].ack + 1 < nds[n].nextId[p]
    BY <1>7 DEF CountInv
  <2>2. /\ nds2[p].heard[n] = nds[p].heard[n] /\ nds2[n].heard[p] = nds[n].heard[p]
        /\ nds2[n].nextId[p] = IF n = a /\ p \in peers THEN nds[n].nextId[p] + 1 ELSE nds[n].nextId[p]
        /\ Met(nds2, n, p) <=> Met(nds, n, p)
        /\ nds[p].heard[n].id \in Nat /\ nds[n].heard[p].ack \in Nat /\ nds[n].nextId[p] \in Nat
    BY <1>4, <1>5, <1>6
  <2>3. << n, p >> \in done2 => << n, p >> \in done \/ (n = a /\ p \in peers)
    BY <1>8
  <2> QED
    BY <2>1, <2>2, <2>3
<1>13. KeptInv(nds2)
  <2> SUFFICES ASSUME NEW n \in Nodes, NEW p \in Nodes, nds2[n].nextId[p] > 1
               PROVE  \E e \in nds2[n].confirm : nds2[n].nextId[p] <= e.msg.id + 1
    BY DEF KeptInv
  <2>2. CASE n = a /\ p \in peers
    <3>1. PICK m \in burst : m.dst = p
      BY <1>3, <2>2
    <3>2. PICK e \in nds2[n].confirm : e.msg.id = m.id
      BY <1>kept, <2>2
    <3>3. m.id = nds[n].nextId[p] /\ nds2[n].nextId[p] = nds[n].nextId[p] + 1
      BY <1>2, <1>4, <2>2, <3>1
    <3> QED
      BY <1>5, <3>2, <3>3
  <2>3. CASE ~(n = a /\ p \in peers)
    <3>1. nds2[n].nextId[p] = nds[n].nextId[p]
      BY <1>4, <2>3
    <3>2. PICK e \in nds[n].confirm : nds[n].nextId[p] <= e.msg.id + 1
      BY <1>7, <3>1 DEF KeptInv
    <3>3. \E f \in nds2[n].confirm : f.msg.id = e.msg.id
      <4>1. CASE n = a
        BY <1>kept, <3>2, <4>1
      <4>2. CASE n # a
        BY <1>4, <3>2, <4>2
      <4> QED
        BY <4>1, <4>2
    <3> QED
      BY <3>1, <3>2, <3>3
  <2> QED
    BY <2>2, <2>3
<1>14. /\ \A l \in 0 .. top, n, p \in Nodes : Greets(lv, l, n, p) => Greets(lv2, l, n, p)
       /\ \A l \in 0 .. top, n, p \in Nodes : Greets(lv2, l, n, p) =>
            Greets(lv, l, n, p) \/ (l = top /\ n = a /\ GreetsIn(burst, p))
       /\ \A p \in Nodes : GreetsIn(burst, p) => Greets(lv2, top, a, p)
  <2>1. ASSUME NEW l \in 0 .. top, NEW n \in Nodes, NEW p \in Nodes, Greets(lv, l, n, p)
        PROVE  Greets(lv2, l, n, p)
    <3>1. PICK m : Old(l, n, m) /\ m.kind = "info" /\ m.dst = p
      BY <1>flat, <2>1
    <3>2. New(l, n, m)
      BY <1>1, <3>1
    <3> QED
      BY <1>flat, <3>1, <3>2
  <2>2. ASSUME NEW l \in 0 .. top, NEW n \in Nodes, NEW p \in Nodes, Greets(lv2, l, n, p)
        PROVE  Greets(lv, l, n, p) \/ (l = top /\ n = a /\ GreetsIn(burst, p))
    <3>1. PICK m : New(l, n, m) /\ m.kind = "info" /\ m.dst = p
      BY <1>flat, <2>2
    <3>2. CASE Old(l, n, m)
      BY <1>flat, <3>1, <3>2
    <3>3. CASE l = top /\ n = a /\ m \in burst
      BY <3>1, <3>3 DEF GreetsIn
    <3> QED
      BY <1>1, <3>1, <3>2, <3>3
  <2>3. ASSUME NEW p \in Nodes, GreetsIn(burst, p) PROVE Greets(lv2, top, a, p)
    <3>1. PICK m \in burst : m.kind = "info" /\ m.dst = p
      BY <2>3 DEF GreetsIn
    <3>2. New(top, a, m) /\ top \in 0 .. top
      BY <1>1
    <3> QED
      BY <1>flat, <3>1, <3>2
  <2> QED
    BY <2>1, <2>2, <2>3
<1>15. MeetInv(nds2, lv2, top, on, pend2, done2)
  <2>0. 0 \in 0 .. top /\ 0 # top /\ top \in 0 .. top /\ \A l \in 1 .. top : l \in 0 .. top
    OBVIOUS
  <2>1. ASSUME NEW n \in Nodes, NEW p \in Nodes, Met(nds2, n, p), ~Met(nds2, p, n)
        PROVE  n \in on /\ p \in on /\ Greets(lv2, 0, n, p)
    BY <1>6, <1>7, <1>14, <2>0, <2>1 DEF MeetInv
  <2>2. ASSUME NEW n \in Nodes, NEW p \in Nodes, ~Met(nds2, n, p), ~Met(nds2, p, n),
               n \in on, p \in on, Greets(lv2, 0, p, n)
        PROVE  Greets(lv2, 0, n, p)
    <3>1. Greets(lv, 0, p, n)
      BY <1>14, <2>0, <2>2
    <3>2. Greets(lv, 0, n, p)
      BY <1>6, <1>7, <2>2, <3>1 DEF MeetInv
    <3> QED
      BY <1>14, <2>0, <3>2
  <2>3. ASSUME NEW n \in Nodes, NEW p \in Nodes, ~Met(nds2, n, p), ~Met(nds2, p, n),
               NEW l \in 1 .. top, Greets(lv2, l, p, n)
        PROVE  Greets(lv2, l, n, p) \/ (l = top /\ << n, p >> \in pend2)
    <3>0. /\ l \in 0 .. top /\ ~Met(nds, n, p) /\ ~Met(nds, p, n)
          /\ Greets(lv, l, p, n) => Greets(lv, l, n, p) \/ (l = top /\ << n, p >> \in pend)
      BY <1>6, <1>7, <2>0, <2>3 DEF MeetInv
    <3>1. CASE Greets(lv, l, p, n)
      BY <1>8, <1>14, <2>0, <3>0, <3>1
    <3>2. CASE l = top /\ p = a /\ GreetsIn(burst, n)
      <4>1. n # a /\ (<< n, a >> \in pend \/ << n, a >> \in done)
        BY <1>8, <3>2 DEF GreetsIn
      <4>2. << n, a >> \in pend => << n, a >> \in pend2
        BY <1>8, <4>1
      <4>3. << n, a >> \in done => Greets(lv, top, n, a)
        BY <1>7 DEF MeetInv
      <4> QED
        BY <1>14, <2>0, <3>2, <4>1, <4>2, <4>3
    <3> QED
      BY <1>14, <2>3, <3>0, <3>1, <3>2
  <2>4. ASSUME NEW n \in Nodes, NEW p \in Nodes, << n, p >> \in done2
        PROVE  Greets(lv2, top, n, p)
    <3>1. << n, p >> \in done => Greets(lv, top, n, p)
      BY <1>7 DEF MeetInv
    <3> QED
      BY <1>8, <1>14, <2>0, <2>4, <3>1
  <2> QED
    BY <2>1, <2>2, <2>3, <2>4 DEF MeetInv
<1>16. RatioInv(nds2)
  BY <1>4, <1>7 DEF RatioInv
<1> QED
  BY <1>11, <1>12, <1>13, <1>15, <1>16 DEF Rounds, nds2, lv2
-----------------------------------------------------------------------------
(* Steps that leave the records of the nodes as they are. *)

LEMMA SoundKept ==
    ASSUME NEW nds, NEW nds2, SameRecords(nds, nds2), NEW pend, NEW pend2,
           \A n, p \in Nodes : << n, p >> \in pend => << n, p >> \in pend2,
           NEW n \in Nodes, NEW m \in Message, Sound(nds, pend, n, m)
    PROVE  Sound(nds2, pend2, n, m)
<1>1. m.dst \in Nodes
  BY DEF Message
<1>2. \A q \in Nodes : nds2[q].heard = nds[q].heard /\ nds2[q].nextId = nds[q].nextId
  BY DEF SameRecords
<1> QED
  BY <1>1, <1>2 DEF Sound, Met

LEMMA RecordsKept ==
    ASSUME NEW nds, NEW nds2, SameRecords(nds, nds2), NEW done, NEW done2,
           \A n, p \in Nodes : << n, p >> \in done2 => << n, p >> \in done,
           CountInv(nds, done), KeptInv(nds), RatioInv(nds)
    PROVE  /\ CountInv(nds2, done2) /\ KeptInv(nds2) /\ RatioInv(nds2)
           /\ \A n, p \in Nodes : Met(nds2, n, p) <=> Met(nds, n, p)
<1>1. \A q \in Nodes : /\ nds2[q].heard = nds[q].heard /\ nds2[q].nextId = nds[q].nextId
                       /\ nds2[q].confirm = nds[q].confirm
  BY DEF SameRecords
<1>2. CountInv(nds2, done2)
  BY <1>1 DEF CountInv, Met
<1>3. KeptInv(nds2)
  BY <1>1 DEF KeptInv
<1> QED
  BY <1>1, <1>2, <1>3 DEF RatioInv, Met

(* The line stays; a round begins or goes on, or the nodes that are online *)
(* change while nothing is being delivered.                                *)
LEMMA QuietRound ==
    ASSUME NEW nds \in [Nodes -> NodeState], NEW nds2, SameRecords(nds, nds2),
           NEW top \in Nat \ {0}, NEW lv \in [0 .. top -> Batch],
           NEW on, NEW on2, on2 = on \/ \A n, i, m : ~ Way(lv, top, 0, n, i, m),
           NEW pend, NEW pend2, \A n, p \in Nodes : << n, p >> \in pend => << n, p >> \in pend2,
           NEW done, NEW done2, \A n, p \in Nodes : << n, p >> \in done2 => << n, p >> \in done,
           Rounds(nds, lv, top, on, pend, done)
    PROVE  Rounds(nds2, lv, top, on2, pend2, done2)
<1>1. /\ SoundInv(nds, lv, top, pend) /\ CountInv(nds, done) /\ KeptInv(nds)
      /\ MeetInv(nds, lv, top, on, pend, done) /\ RatioInv(nds)
  BY DEF Rounds
<1>2. /\ CountInv(nds2, done2) /\ KeptInv(nds2) /\ RatioInv(nds2)
      /\ \A n, p \in Nodes : Met(nds2, n, p) <=> Met(nds, n, p)
  BY <1>1, RecordsKept
<1>3. SoundInv(nds2, lv, top, pend2)
  <2>1. ASSUME NEW l, NEW n, NEW m, Waits(lv, top, l, n, m) PROVE Sound(nds2, pend2, n, m)
    <3>1. n \in Nodes /\ m \in Message
      BY <2>1, WaitsType
    <3>2. Sound(nds, pend, n, m)
      BY <1>1, <2>1, SoundFlat
    <3> QED
      BY <3>1, <3>2, SoundKept
  <2>2. ASSUME NEW n \in Nodes, NEW e \in nds2[n].confirm PROVE Sound(nds2, pend2, n, e.msg)
    <3>1. e \in nds[n].confirm
      BY DEF SameRecords
    <3>2. e.msg \in Message
      BY <3>1, FieldTypes
    <3>3. Sound(nds, pend, n, e.msg)
      BY <1>1, <3>1, SoundFlat
    <3> QED
      BY <3>2, <3>3, SoundKept
  <2> QED
    BY <2>1, <2>2, SoundFlat
<1>4. on2 # on => \A n, p \in Nodes : ~ Greets(lv, 0, n, p)
  <2> SUFFICES ASSUME on2 # on, NEW n \in Nodes, NEW p \in Nodes, Greets(lv, 0, n, p)
               PROVE  FALSE
    OBVIOUS
  <2>1. 0 \in 0 .. top
    OBVIOUS
  <2>2. \E m : Waits(lv, top, 0, n, m)
    BY <2>1, GreetsFlat
  <2> QED
    BY <2>2 DEF Waits
<1>5. MeetInv(nds2, lv, top, on2, pend2, done2)
  BY <1>1, <1>2, <1>4 DEF MeetInv
<1> QED
  BY <1>2, <1>3, <1>5 DEF Rounds

(* The levels move while nothing is being delivered, between two rounds. *)
LEMMA ShiftRound ==
    ASSUME NEW nds \in [Nodes -> NodeState], NEW nds2, SameRecords(nds, nds2),
           NEW top \in Nat \ {0}, NEW lv \in [0 .. top -> Batch], NEW top2 \in Nat, NEW lv2,
           NEW d \in {0, 1}, top2 = top + 1 - d,
           \A l, n, i, m : Way(lv2, top2, l, n, i, m) <=> l \in Nat /\ Way(lv, top, l + d, n, i, m),
           \A n, i, m : ~ Way(lv, top, 0, n, i, m),
           NEW on, Rounds(nds, lv, top, on, {}, {})
    PROVE  Rounds(nds2, lv2, top2, on, {}, {})
<1>1. /\ SoundInv(nds, lv, top, {}) /\ CountInv(nds, {}) /\ KeptInv(nds)
      /\ MeetInv(nds, lv, top, on, {}, {}) /\ RatioInv(nds)
  BY DEF Rounds
<1>2. /\ CountInv(nds2, {}) /\ KeptInv(nds2) /\ RatioInv(nds2)
      /\ \A n, p \in Nodes : Met(nds2, n, p) <=> Met(nds, n, p)
  BY <1>1, RecordsKept
<1>3. /\ \A l, n, m : Waits(lv2, top2, l, n, m) <=> l \in Nat /\ Waits(lv, top, l + d, n, m)
      /\ \A n, m : ~ Waits(lv, top, 0, n, m)
  <2>1. \A n, m : ~ Waits(lv, top, 0, n, m)
    BY DEF Waits
  <2>2. ASSUME NEW l, NEW n, NEW m
        PROVE  Waits(lv2, top2, l, n, m) <=> l \in Nat /\ Waits(lv, top, l + d, n, m)
    BY Zenon DEF Waits
  <2> QED
    BY <2>1, <2>2
<1>4. SoundInv(nds2, lv2, top2, {})
  <2>1. ASSUME NEW l, NEW n, NEW m, Waits(lv2, top2, l, n, m) PROVE Sound(nds2, {}, n, m)
    <3>1. Waits(lv, top, l + d, n, m)
      BY <1>3, <2>1
    <3>2. n \in Nodes /\ m \in Message
      BY <3>1, WaitsType
    <3>3. Sound(nds, {}, n, m)
      BY <1>1, <3>1, SoundFlat
    <3> QED
      BY <3>2, <3>3, SoundKept
  <2>2. ASSUME NEW n \in Nodes, NEW e \in nds2[n].confirm PROVE Sound(nds2, {}, n, e.msg)
    <3>1. e \in nds[n].confirm
      BY DEF SameRecords
    <3>2. e.msg \in Message
      BY <3>1, FieldTypes
    <3>3. Sound(nds, {}, n, e.msg)
      BY <1>1, <3>1, SoundFlat
    <3> QED
      BY <3>2, <3>3, SoundKept
  <2> QED
    BY <2>1, <2>2, SoundFlat
<1>5. /\ \A l \in 0 .. top2, n, p \in Nodes :
           Greets(lv2, l, n, p) => l + d \in 1 .. top /\ Greets(lv, l + d, n, p)
      /\ \A l \in 0 .. top2, n, p \in Nodes :
           l + d \in 1 .. top /\ Greets(lv, l + d, n, p) => Greets(lv2, l, n, p)
      /\ \A n, p \in Nodes : ~ Greets(lv, 0, n, p)
  <2>1. ASSUME NEW l \in 0 .. top2, NEW n \in Nodes, NEW p \in Nodes, Greets(lv2, l, n, p)
        PROVE  l + d \in 1 .. top /\ Greets(lv, l + d, n, p)
    <3>1. PICK m : Waits(lv2, top2, l, n, m) /\ m.kind = "info" /\ m.dst = p
      BY <2>1, GreetsFlat
    <3>2. Waits(lv, top, l + d, n, m) /\ ~ Waits(lv, top, 0, n, m)
      BY <1>3, <3>1
    <3>3. l + d \in 0 .. top /\ l + d # 0
      BY <3>2, WaitsType
    <3>4. Greets(lv, l + d, n, p)
      BY <3>1, <3>2, <3>3, GreetsFlat
    <3> QED
      BY <3>3, <3>4
  <2>2. ASSUME NEW l \in 0 .. top2, NEW n \in Nodes, NEW p \in Nodes,
               l + d \in 1 .. top, Greets(lv, l + d, n, p)
        PROVE  Greets(lv2, l, n, p)
    <3>0. l + d \in 0 .. top /\ l \in Nat
      BY <2>2
    <3>1. PICK m : Waits(lv, top, l + d, n, m) /\ m.kind = "info" /\ m.dst = p
      BY <2>2, <3>0, GreetsFlat
    <3>2. Waits(lv2, top2, l, n, m)
      BY <1>3, <3>0, <3>1
    <3> QED
      BY <3>1, <3>2, GreetsFlat
  <2>3. ASSUME NEW n \in Nodes, NEW p \in Nodes, Greets(lv, 0, n, p) PROVE FALSE
    <3>1. 0 \in 0 .. top
      OBVIOUS
    <3>2. \E m : Waits(lv, top, 0, n, m)
      BY <2>3, <3>1, GreetsFlat
    <3> QED
      BY <1>3, <3>2
  <2> QED
    BY <2>1, <2>2, <2>3
<1>6. MeetInv(nds2, lv2, top2, on, {}, {})
  <2>1. \A n, p \in Nodes : Met(nds, n, p) => Met(nds, p, n)
    BY <1>1, <1>5 DEF MeetInv
  <2>2. ASSUME NEW n \in Nodes, NEW p \in Nodes, ~Met(nds, n, p), ~Met(nds, p, n),
               NEW l \in 0 .. top2, Greets(lv2, l, p, n)
        PROVE  Greets(lv2, l, n, p)
    <3>1. l + d \in 1 .. top /\ Greets(lv, l + d, p, n)
      BY <1>5, <2>2
    <3>2. Greets(lv, l + d, n, p)
      BY <1>1, <2>2, <3>1 DEF MeetInv
    <3> QED
      BY <1>5, <3>1, <3>2
  <2>3. 0 \in 0 .. top2 /\ \A l \in 1 .. top2 : l \in 0 .. top2
    OBVIOUS
  <2> QED
    BY <1>2, <2>1, <2>2, <2>3 DEF MeetInv
<1> QED
  BY <1>2, <1>4, <1>6 DEF Rounds
-----------------------------------------------------------------------------
(* Receiving. *)

(* What the node keeps of its peer: numbers of the message, or its own;    *)
(* ratios, unless a keyspace message is the first.                         *)
LEMMA HeardNumbers ==
    ASSUME NEW h \in Heard, NEW m \in Message
    PROVE  LET g == heardAfter(h, m)
           IN  /\ g.kind # "none"
               /\ g.kind = "keyspace" => h.kind = "keyspace" \/ (h.kind = "none" /\ m.kind = "keyspace")
               /\ g.id = h.id \/ g.id = m.id
               /\ g.ack = m.ack \/ (g.ack = h.ack /\ h.kind # "none")
<1>1. CASE h.kind = "none"
  BY <1>1 DEF heardAfter, Heard, Message
<1>2. CASE h.kind # "none" /\ m.kind = "keyspace"
  BY <1>2 DEF heardAfter, Heard, Message
<1>3. CASE h.kind # "none" /\ m.kind = "info"
  BY <1>3 DEF heardAfter, Heard, Message
<1> QED
  BY <1>1, <1>2, <1>3 DEF Message

(* The state st2 of a node that has received a message of src, of which it *)
(* now keeps h: only what is acknowledged is erased, and what is queued    *)
(* again was kept.                                                         *)
Receives(st, st2, src, h) ==
    /\ st2.nextId = st.nextId
    /\ st2.heard = [st.heard EXCEPT ![src] = h]
    /\ \A e \in st2.confirm : \E f \in st.confirm : e.msg = f.msg
    /\ \A f \in st.confirm : Acked(f, src, h.ack) \/ \E e \in st2.confirm : e.msg = f.msg
    /\ \E burst \in SUBSET Message :
         /\ st2.queue = st.queue \/ st2.queue = Append(st.queue, burst)
         /\ \A x \in burst : x.dst = src /\ \E f \in st.confirm : f.msg = x

LEMMA ReceiveEffect ==
    ASSUME NEW st \in NodeState, NEW m \in Message, NEW t \in Nat
    PROVE  Receives(st, receiveMessage(st, m, t), m.src, heardAfter(st.heard[m.src], m))
<1> DEFINE st2    == receiveMessage(st, m, t)
           h      == heardAfter(st.heard[m.src], m)
           gone   == erased(st.confirm, m.src, h.ack)
           resend == due(st.confirm, m.src, h.ack, t)
           again  == { [e EXCEPT !.sent = t] : e \in resend }
           kept   == (st.confirm \ (gone \cup resend)) \cup again
           burst  == { e.msg : e \in resend }
           queued == IF resend = {} THEN st.queue ELSE Append(st.queue, burst)
           heard  == [st.heard EXCEPT ![m.src] = h]
<1>1. /\ \A e \in resend : e \in st.confirm /\ e.msg.dst = m.src
      /\ \A e \in gone : Acked(e, m.src, h.ack)
      /\ \A e \in st.confirm : e \in Entry
  BY NodeStateFields DEF due, visited, erased
<1>2. st2 = [st EXCEPT !.heard = heard, !.confirm = kept, !.queue = queued,
                       !.keyspaces = st.keyspaces \cup m.blocks]
  BY Zenon DEF receiveMessage
<1> HIDE DEF st2, h, gone, resend
<1>3. /\ st2.nextId = st.nextId /\ st2.heard = heard /\ st2.confirm = kept /\ st2.queue = queued
  <2> HIDE DEF kept, queued, heard
  <2> QED
    BY <1>2, NodeStateFields
<1>4. \A e \in Entry : [e EXCEPT !.sent = t].msg = e.msg
  BY DEF Entry
<1>5. \A e \in kept : \E f \in st.confirm : e.msg = f.msg
  BY <1>1, <1>4
<1>6. ASSUME NEW f \in st.confirm, ~ Acked(f, m.src, h.ack) PROVE \E e \in kept : e.msg = f.msg
  <2>1. CASE f \in resend
    <3>1. [f EXCEPT !.sent = t] \in kept
      BY <2>1
    <3> QED
      BY <1>1, <1>4, <3>1
  <2>2. CASE f \notin resend
    BY <1>1, <1>6, <2>2
  <2> QED
    BY <2>1, <2>2
<1>7. burst \in SUBSET Message
  BY <1>1 DEF Entry
<1>8. \A x \in burst : x.dst = m.src /\ \E f \in st.confirm : f.msg = x
  BY <1>1
<1>9. queued = st.queue \/ queued = Append(st.queue, burst)
  BY Zenon
<1> HIDE DEF kept, queued, heard, burst
<1>10. \E b \in SUBSET Message :
         /\ st2.queue = st.queue \/ st2.queue = Append(st.queue, b)
         /\ \A x \in b : x.dst = m.src /\ \E f \in st.confirm : f.msg = x
  BY <1>3, <1>7, <1>8, <1>9
<1> QED
  BY <1>3, <1>5, <1>6, <1>10, Zenon DEF st2, h, heard, Receives

(* What a message acknowledges, once it is taken, is less than the last    *)
(* that the node has sent to its peer, which is kept.                      *)
LEMMA LastKept ==
    ASSUME NEW nds \in [Nodes -> NodeState], NEW m \in Message,
           Sound(nds, {}, m.src, m), CountInv(nds, {}), KeptInv(nds)
    PROVE  LET h == heardAfter(nds[m.dst].heard[m.src], m)
           IN  /\ h.ack + 1 < nds[m.dst].nextId[m.src]
               /\ \E f \in nds[m.dst].confirm :
                    /\ h.ack < f.msg.id
                    /\ nds[m.dst].nextId[m.src] <= f.msg.id + 1
<1> DEFINE h == heardAfter(nds[m.dst].heard[m.src], m)
           next == nds[m.dst].nextId[m.src]
<1>1. m.src \in Nodes /\ m.dst \in Nodes /\ m.ack \in Nat
  BY DEF Message
<1>2. /\ nds[m.dst].heard[m.src] \in Heard /\ nds[m.dst].heard[m.src].ack \in Nat /\ next \in Nat
  BY <1>1, CountTypes
<1>3. h.ack = m.ack \/ (h.ack = nds[m.dst].heard[m.src].ack /\ nds[m.dst].heard[m.src].kind # "none")
  BY <1>2, HeardNumbers
<1>4. m.ack + 1 < next
  BY DEF Sound
<1>5. nds[m.dst].heard[m.src].kind # "none" => nds[m.dst].heard[m.src].ack + 1 < next
  BY <1>1 DEF CountInv, Met
<1> HIDE DEF h, next
<1>6. h.ack \in Nat /\ h.ack + 1 < next
  BY <1>1, <1>2, <1>3, <1>4, <1>5
<1>7. next > 1
  BY <1>2, <1>6
<1>8. PICK f \in nds[m.dst].confirm : next <= f.msg.id + 1
  BY <1>1, <1>7 DEF KeptInv, next
<1>9. f.msg.id \in Nat
  BY <1>1, FieldTypes
<1>10. h.ack < f.msg.id
  BY <1>2, <1>6, <1>8, <1>9
<1> QED
  BY <1>6, <1>8, <1>10 DEF h, next

(* Message m, delivered, leaves the line; its receiver may queue again     *)
(* what it has kept for the sender.                                        *)
Taken(nds, lv, lv2, top, m) ==
    /\ \A l, n, x : Waits(lv2, top, l, n, x) =>
         \/ Waits(lv, top, l, n, x)
         \/ n = m.dst /\ x.dst = m.src /\ \E f \in nds[n].confirm : f.msg = x
    /\ \A l, n, x : Waits(lv, top, l, n, x) =>
         Waits(lv2, top, l, n, x) \/ (n = m.src /\ x = m)

Received(nds, m, t) == [nds EXCEPT ![m.dst] = receiveMessage(nds[m.dst], m, t)]

LEMMA ReceiveRound ==
    ASSUME NEW nds \in [Nodes -> NodeState],
           NEW top \in Nat \ {0}, NEW lv \in [0 .. top -> Batch], NEW lv2 \in [0 .. top -> Batch],
           NEW t \in Nat, NEW m \in Message, Waits(lv, top, 0, m.src, m),
           NEW on, m.src \in on, m.dst \in on,
           Taken(nds, lv, lv2, top, m),
           Rounds(nds, lv, top, on, {}, {})
    PROVE  Rounds(Received(nds, m, t), lv2, top, on, {}, {})
<1> DEFINE a    == m.src
           b    == m.dst
           h    == heardAfter(nds[b].heard[a], m)
           st2  == receiveMessage(nds[b], m, t)
           nds2 == Received(nds, m, t)
<1>1. /\ SoundInv(nds, lv, top, {}) /\ CountInv(nds, {}) /\ KeptInv(nds)
      /\ MeetInv(nds, lv, top, on, {}, {}) /\ RatioInv(nds)
  BY DEF Rounds
<1>2. a \in Nodes /\ b \in Nodes /\ m.id \in Nat /\ m.ack \in Nat /\ nds[b].heard[a] \in Heard
  <2>1. a \in Nodes /\ b \in Nodes /\ m.id \in Nat /\ m.ack \in Nat
    BY DEF Message
  <2> QED
    BY <2>1, CountTypes
<1>3. Sound(nds, {}, a, m)
  BY <1>1, SoundFlat
<1>4. /\ h.ack + 1 < nds[b].nextId[a]
      /\ \E f \in nds[b].confirm : h.ack < f.msg.id /\ nds[b].nextId[a] <= f.msg.id + 1
  BY <1>1, <1>3, LastKept
<1>5. /\ h.kind # "none"
      /\ h.kind = "keyspace" =>
           nds[b].heard[a].kind = "keyspace" \/ (nds[b].heard[a].kind = "none" /\ m.kind = "keyspace")
      /\ h.id = nds[b].heard[a].id \/ h.id = m.id
  BY <1>2, HeardNumbers
<1>6. /\ st2.nextId = nds[b].nextId
      /\ st2.heard = [nds[b].heard EXCEPT ![a] = h]
      /\ \A e \in st2.confirm : \E f \in nds[b].confirm : e.msg = f.msg
      /\ \A f \in nds[b].confirm : Acked(f, a, h.ack) \/ \E e \in st2.confirm : e.msg = f.msg
  <2>1. nds[b] \in NodeState
    BY <1>2
  <2>2. Receives(nds[b], st2, a, h)
    BY <2>1, ReceiveEffect
  <2> HIDE DEF st2, h
  <2> QED
    BY <2>2 DEF Receives
<1>7. \A n \in Nodes : nds2[n] = IF n = b THEN st2 ELSE nds[n]
  BY <1>2 DEF Received
<1>taken. /\ \A l, n, x : Waits(lv2, top, l, n, x) =>
               \/ Waits(lv, top, l, n, x)
               \/ n = b /\ x.dst = a /\ \E f \in nds[n].confirm : f.msg = x
          /\ \A l, n, x : Waits(lv, top, l, n, x) =>
               Waits(lv2, top, l, n, x) \/ (n = a /\ x = m)
  BY Zenon DEF Taken
<1> HIDE DEF st2, h, nds2
<1>8. /\ \A n, p \in Nodes : nds2[n].heard[p] = IF n = b /\ p = a THEN h ELSE nds[n].heard[p]
      /\ \A n, p \in Nodes : nds2[n].nextId[p] = nds[n].nextId[p]
      /\ \A n \in Nodes : \A e \in nds2[n].confirm : \E f \in nds[n].confirm : e.msg = f.msg
  <2>1. nds[b].heard \in [Nodes -> Heard]
    BY <1>2, NodeStateFields
  <2>2. \A p \in Nodes : st2.heard[p] = IF p = a THEN h ELSE nds[b].heard[p]
    BY <1>2, <1>6, <2>1
  <2>3. \A n, p \in Nodes : nds2[n].heard[p] = IF n = b /\ p = a THEN h ELSE nds[n].heard[p]
    BY <1>7, <2>2
  <2>4. \A n, p \in Nodes : nds2[n].nextId[p] = nds[n].nextId[p]
    BY <1>6, <1>7
  <2>5. ASSUME NEW n \in Nodes, NEW e \in nds2[n].confirm
        PROVE  \E f \in nds[n].confirm : e.msg = f.msg
    <3>1. CASE n = b
      BY <1>6, <1>7, <2>5, <3>1
    <3>2. CASE n # b
      BY <1>7, <2>5, <3>2
    <3> QED
      BY <3>1, <3>2
  <2> QED
    BY <2>3, <2>4, <2>5
<1>flat. /\ \A l \in 0 .. top, n \in Nodes : \A p :
              Greets(lv, l, n, p) <=> \E x : Waits(lv, top, l, n, x) /\ x.kind = "info" /\ x.dst = p
         /\ \A l \in 0 .. top, n \in Nodes : \A p :
              Greets(lv2, l, n, p) <=> \E x : Waits(lv2, top, l, n, x) /\ x.kind = "info" /\ x.dst = p
  BY ONLY GreetsFlat, Zenon
<1>9. /\ Met(nds2, b, a)
      /\ \A n, p \in Nodes : Met(nds2, n, p) <=> Met(nds, n, p) \/ (n = b /\ p = a)
  BY <1>2, <1>5, <1>8 DEF Met
<1>10. ASSUME NEW n \in Nodes, NEW x \in Message, Sound(nds, {}, n, x) PROVE Sound(nds2, {}, n, x)
  <2>1. x.dst \in Nodes
    BY DEF Message
  <2> QED
    BY <1>8, <1>9, <1>10, <2>1 DEF Sound
<1>11. SoundInv(nds2, lv2, top, {})
  <2>1. ASSUME NEW n \in Nodes, NEW f \in nds[n].confirm PROVE Sound(nds2, {}, n, f.msg)
    <3>1. f.msg \in Message
      BY FieldTypes
    <3>2. Sound(nds, {}, n, f.msg)
      BY <1>1, SoundFlat
    <3> QED
      BY <1>10, <3>1, <3>2
  <2>2. ASSUME NEW l, NEW n, NEW x, Waits(lv2, top, l, n, x) PROVE Sound(nds2, {}, n, x)
    <3>1. n \in Nodes /\ x \in Message
      BY <2>2, WaitsType
    <3>2. CASE Waits(lv, top, l, n, x)
      <4>1. Sound(nds, {}, n, x)
        BY <1>1, <3>2, SoundFlat
      <4> QED
        BY <1>10, <3>1, <4>1
    <3>3. CASE \E f \in nds[n].confirm : f.msg = x
      BY <2>1, <3>1, <3>3
    <3> QED
      BY <1>taken, <2>2, <3>2, <3>3
  <2>3. ASSUME NEW n \in Nodes, NEW e \in nds2[n].confirm PROVE Sound(nds2, {}, n, e.msg)
    <3>1. PICK f \in nds[n].confirm : e.msg = f.msg
      BY <1>8
    <3>2. Sound(nds2, {}, n, f.msg)
      BY <2>1
    <3> QED
      BY <3>1, <3>2
  <2> QED
    BY <2>2, <2>3, SoundFlat
<1>12. CountInv(nds2, {})
  <2> SUFFICES ASSUME NEW n \in Nodes, NEW p \in Nodes
               PROVE  /\ nds2[p].heard[n].id < nds2[n].nextId[p]
                      /\ Met(nds2, n, p) => nds2[n].heard[p].ack + 1 < nds2[n].nextId[p]
    BY DEF CountInv
  <2>1. /\ nds[p].heard[n].id < nds[n].nextId[p]
        /\ Met(nds, n, p) => nds[n].heard[p].ack + 1 < nds[n].nextId[p]
    BY <1>1 DEF CountInv
  <2>2. m.id < nds[a].nextId[b]
    BY <1>3 DEF Sound
  <2>3. nds2[n].nextId[p] = nds[n].nextId[p]
    BY <1>8
  <2>4. nds2[p].heard[n].id < nds2[n].nextId[p]
    <3>1. CASE p = b /\ n = a
      BY <1>5, <1>8, <2>1, <2>2, <2>3, <3>1
    <3>2. CASE ~(p = b /\ n = a)
      BY <1>8, <2>1, <2>3, <3>2
    <3> QED
      BY <3>1, <3>2
  <2>5. Met(nds2, n, p) => nds2[n].heard[p].ack + 1 < nds2[n].nextId[p]
    <3>1. CASE n = b /\ p = a
      BY <1>4, <1>8, <2>3, <3>1
    <3>2. CASE ~(n = b /\ p = a)
      BY <1>8, <1>9, <2>1, <2>3, <3>2
    <3> QED
      BY <3>1, <3>2
  <2> QED
    BY <2>4, <2>5
<1>13. KeptInv(nds2)
  <2> SUFFICES ASSUME NEW n \in Nodes, NEW p \in Nodes, nds2[n].nextId[p] > 1
               PROVE  \E e \in nds2[n].confirm : nds2[n].nextId[p] <= e.msg.id + 1
    BY DEF KeptInv
  <2>1. nds2[n].nextId[p] = nds[n].nextId[p]
    BY <1>8
  <2>2. PICK f \in nds[n].confirm : nds[n].nextId[p] <= f.msg.id + 1
    BY <1>1, <2>1 DEF KeptInv
  <2>3. CASE n # b
    BY <1>7, <2>1, <2>2, <2>3
  <2>4. CASE n = b
    <3>1. PICK g \in nds[b].confirm : h.ack < g.msg.id /\ nds[b].nextId[a] <= g.msg.id + 1
      BY <1>4
    <3>2. /\ f.msg.id \in Nat /\ g.msg.id \in Nat /\ nds[n].nextId[p] \in Nat /\ nds[b].nextId[a] \in Nat
          /\ h.ack \in Nat
      <4>1. h \in Heard
        BY <1>2, HeardAfterType DEF h
      <4> QED
        BY <1>2, <2>4, <4>1, CountTypes, FieldTypes DEF Heard
    <3>3. ~ Acked(g, a, h.ack)
      BY <3>1, <3>2 DEF Acked
    <3>4. PICK e \in nds2[n].confirm : e.msg = g.msg
      BY <1>6, <1>7, <2>4, <3>3
    <3>5. CASE Acked(f, a, h.ack)
      <4>1. f.msg.id <= h.ack
        BY <3>2, <3>5 DEF Acked
      <4>2. nds[n].nextId[p] <= e.msg.id + 1
        BY <2>2, <3>1, <3>2, <3>4, <4>1
      <4> QED
        BY <2>1, <4>2
    <3>6. CASE ~ Acked(f, a, h.ack)
      <4>1. PICK i \in nds2[n].confirm : i.msg = f.msg
        BY <1>6, <1>7, <2>4, <3>6
      <4> QED
        BY <2>1, <2>2, <4>1
    <3> QED
      BY <3>5, <3>6
  <2> QED
    BY <2>3, <2>4
<1>14. /\ \A l \in 0 .. top, n, p \in Nodes :
            Greets(lv, l, n, p) => Greets(lv2, l, n, p) \/ (n = a /\ p = b)
       /\ \A l \in 0 .. top, n, p \in Nodes :
            Greets(lv2, l, n, p) => Greets(lv, l, n, p) \/ (n = b /\ p = a)
  <2>1. ASSUME NEW l \in 0 .. top, NEW n \in Nodes, NEW p \in Nodes, Greets(lv, l, n, p)
        PROVE  Greets(lv2, l, n, p) \/ (n = a /\ p = b)
    <3>1. PICK x : Waits(lv, top, l, n, x) /\ x.kind = "info" /\ x.dst = p
      BY <1>flat, <2>1
    <3>2. Waits(lv2, top, l, n, x) \/ (n = a /\ x = m)
      BY <1>taken, <3>1
    <3> QED
      BY <1>flat, <3>1, <3>2
  <2>2. ASSUME NEW l \in 0 .. top, NEW n \in Nodes, NEW p \in Nodes, Greets(lv2, l, n, p)
        PROVE  Greets(lv, l, n, p) \/ (n = b /\ p = a)
    <3>1. PICK x : Waits(lv2, top, l, n, x) /\ x.kind = "info" /\ x.dst = p
      BY <1>flat, <2>2
    <3>2. Waits(lv, top, l, n, x) \/ (n = b /\ x.dst = a)
      BY <1>taken, <3>1
    <3> QED
      BY <1>flat, <3>1, <3>2
  <2> QED
    BY <2>1, <2>2
<1>15. m.kind = "info" => Greets(lv, 0, a, b)
  <2>1. 0 \in 0 .. top
    OBVIOUS
  <2> QED
    BY <1>2, <1>flat, <2>1
<1>16. MeetInv(nds2, lv2, top, on, {}, {})
  <2>0. 0 \in 0 .. top /\ \A l \in 1 .. top : l \in 0 .. top /\ l # 0
    OBVIOUS
  <2>1. ASSUME NEW n \in Nodes, NEW p \in Nodes, Met(nds2, n, p), ~Met(nds2, p, n)
        PROVE  n \in on /\ p \in on /\ Greets(lv2, 0, n, p)
    <3>1. ~Met(nds, p, n) /\ ~(n = a /\ p = b)
      BY <1>9, <2>1
    <3>2. n \in on /\ p \in on /\ Greets(lv, 0, n, p)
      <4>1. CASE Met(nds, n, p)
        BY <1>1, <3>1, <4>1 DEF MeetInv
      <4>2. CASE ~Met(nds, n, p)
        <5>1. n = b /\ p = a
          BY <1>9, <2>1, <4>2
        <5>2. m.kind # "keyspace"
          BY <1>3, <4>2, <5>1 DEF Sound
        <5>3. m.kind = "info"
          BY <5>2 DEF Message
        <5>4. Greets(lv, 0, b, a)
          BY <1>1, <1>2, <1>15, <3>1, <4>2, <5>1, <5>3 DEF MeetInv
        <5> QED
          BY <5>1, <5>4
      <4> QED
        BY <4>1, <4>2
    <3> QED
      BY <1>14, <2>0, <3>1, <3>2
  <2>2. ASSUME NEW n \in Nodes, NEW p \in Nodes, ~Met(nds2, n, p), ~Met(nds2, p, n),
               NEW l \in 0 .. top, Greets(lv2, l, p, n), l = 0 => n \in on /\ p \in on
        PROVE  Greets(lv2, l, n, p)
    <3>1. ~Met(nds, n, p) /\ ~Met(nds, p, n) /\ ~(n = a /\ p = b) /\ ~(n = b /\ p = a)
      BY <1>9, <2>2
    <3>2. Greets(lv, l, p, n)
      BY <1>14, <2>2, <3>1
    <3>3. Greets(lv, l, n, p)
      BY <1>1, <2>2, <3>1, <3>2 DEF MeetInv
    <3> QED
      BY <1>14, <3>1, <3>3
  <2>3. ASSUME NEW n \in Nodes, NEW p \in Nodes, ~Met(nds2, n, p), ~Met(nds2, p, n)
        PROVE  /\ n \in on /\ p \in on /\ Greets(lv2, 0, p, n) => Greets(lv2, 0, n, p)
               /\ \A l \in 1 .. top : Greets(lv2, l, p, n) => Greets(lv2, l, n, p)
    BY <2>0, <2>2, <2>3
  <2> QED
    BY <2>1, <2>3 DEF MeetInv
<1>17. RatioInv(nds2)
  <2> SUFFICES ASSUME NEW n \in Nodes, NEW p \in Nodes, nds2[n].heard[p].kind = "keyspace"
               PROVE  FALSE
    BY DEF RatioInv
  <2>1. \A q, r \in Nodes : nds[q].heard[r].kind # "keyspace"
    BY <1>1 DEF RatioInv
  <2>2. n = b /\ p = a /\ nds[b].heard[a].kind = "none" /\ m.kind = "keyspace"
    BY <1>2, <1>5, <1>8, <2>1
  <2> QED
    BY <1>3, <2>2 DEF Sound, Met
<1> QED
  BY <1>11, <1>12, <1>13, <1>16, <1>17 DEF Rounds, nds2

(* A message to or from a node that is offline is lost. *)
LEMMA LostRound ==
    ASSUME NEW nds \in [Nodes -> NodeState],
           NEW top \in Nat \ {0}, NEW lv \in [0 .. top -> Batch], NEW lv2 \in [0 .. top -> Batch],
           NEW m, NEW on, ~ (m.src \in on /\ m.dst \in on),
           \A l, n, x : Waits(lv2, top, l, n, x) => Waits(lv, top, l, n, x),
           \A l, n, x : Waits(lv, top, l, n, x) =>
              Waits(lv2, top, l, n, x) \/ (l = 0 /\ n = m.src /\ x = m),
           Rounds(nds, lv, top, on, {}, {})
    PROVE  Rounds(nds, lv2, top, on, {}, {})
<1>1. /\ SoundInv(nds, lv, top, {}) /\ MeetInv(nds, lv, top, on, {}, {})
  BY DEF Rounds
<1>2. SoundInv(nds, lv2, top, {})
  BY <1>1, SoundFlat
<1>flat. /\ \A l \in 0 .. top, n \in Nodes : \A p :
              Greets(lv, l, n, p) <=> \E x : Waits(lv, top, l, n, x) /\ x.kind = "info" /\ x.dst = p
         /\ \A l \in 0 .. top, n \in Nodes : \A p :
              Greets(lv2, l, n, p) <=> \E x : Waits(lv2, top, l, n, x) /\ x.kind = "info" /\ x.dst = p
  BY GreetsFlat, Zenon
<1>3. /\ \A l \in 0 .. top, n, p \in Nodes : Greets(lv2, l, n, p) => Greets(lv, l, n, p)
      /\ \A l \in 0 .. top, n, p \in Nodes :
           Greets(lv, l, n, p) => Greets(lv2, l, n, p) \/ (l = 0 /\ n = m.src /\ p = m.dst)
  <2>1. ASSUME NEW l \in 0 .. top, NEW n \in Nodes, NEW p \in Nodes, Greets(lv2, l, n, p)
        PROVE  Greets(lv, l, n, p)
    BY <1>flat, <2>1
  <2>2. ASSUME NEW l \in 0 .. top, NEW n \in Nodes, NEW p \in Nodes, Greets(lv, l, n, p)
        PROVE  Greets(lv2, l, n, p) \/ (l = 0 /\ n = m.src /\ p = m.dst)
    <3>1. PICK x : Waits(lv, top, l, n, x) /\ x.kind = "info" /\ x.dst = p
      BY <1>flat, <2>2
    <3>2. Waits(lv2, top, l, n, x) \/ (l = 0 /\ n = m.src /\ x = m)
      BY <3>1
    <3> QED
      BY <1>flat, <3>1, <3>2
  <2> QED
    BY <2>1, <2>2
<1>4. MeetInv(nds, lv2, top, on, {}, {})
  <2>0. 0 \in 0 .. top /\ \A l \in 1 .. top : l \in 0 .. top /\ l # 0
    OBVIOUS
  <2>1. ASSUME NEW n \in Nodes, NEW p \in Nodes, Met(nds, n, p), ~Met(nds, p, n)
        PROVE  n \in on /\ p \in on /\ Greets(lv2, 0, n, p)
    <3>1. n \in on /\ p \in on /\ Greets(lv, 0, n, p)
      BY <1>1, <2>1 DEF MeetInv
    <3> QED
      BY <1>3, <2>0, <3>1
  <2>2. ASSUME NEW n \in Nodes, NEW p \in Nodes, ~Met(nds, n, p), ~Met(nds, p, n),
               NEW l \in 0 .. top, Greets(lv2, l, p, n), l = 0 => n \in on /\ p \in on
        PROVE  Greets(lv2, l, n, p)
    <3>1. Greets(lv, l, p, n)
      BY <1>3, <2>2
    <3>2. Greets(lv, l, n, p)
      BY <1>1, <2>2, <3>1 DEF MeetInv
    <3> QED
      BY <1>3, <2>2, <3>2
  <2>3. ASSUME NEW n \in Nodes, NEW p \in Nodes, ~Met(nds, n, p), ~Met(nds, p, n)
        PROVE  /\ n \in on /\ p \in on /\ Greets(lv2, 0, p, n) => Greets(lv2, 0, n, p)
               /\ \A l \in 1 .. top : Greets(lv2, l, p, n) => Greets(lv2, l, n, p)
    BY <2>0, <2>2, <2>3
  <2> QED
    BY <2>1, <2>3 DEF MeetInv
<1> QED
  BY <1>2, <1>4 DEF Rounds
-----------------------------------------------------------------------------
(* The rounds of the simulation. *)

InRound == phase \in {"beat", "share"}
ToBeat  == { n \in Nodes : \E i \in turn .. JoinedCount :
                             JoinOrder[i] = n /\ (i = turn => phase = "beat") }
Pending == { w \in Nodes \X Nodes : InRound /\ w[1] \in ToBeat /\ w[2] \in Peers(w[1], Joined) }
Done    == { w \in Nodes \X Nodes : /\ InRound /\ w[1] \in Joined /\ w[1] \notin ToBeat
                                    /\ w[2] \in Peers(w[1], Joined) }
Online  == { n \in Nodes : online[n] }

(* Every peer in deficit is one that has been heard. *)
SharesWithHeard ==
    phase = "share" => \A p \in deficit : p \in PeersInTurn /\ Met(nodes, InTurn, p)

RoundInv ==
    /\ phase # "deliver" => inbox = NoMessages
    /\ RatioInv(nodes)
    /\ phase # "died" =>
         /\ phase \notin {"beat", "share", "consume"} => turn = 1
         /\ InRound => turn <= JoinedCount
         /\ SharesWithHeard
         /\ Rounds(nodes, line, Top, Online, Pending, Done)

LEMMA Pairs ==
    /\ \A n, p \in Nodes : << n, p >> \in Pending <=>
         InRound /\ n \in ToBeat /\ p \in Peers(n, Joined)
    /\ \A n, p \in Nodes : << n, p >> \in Done <=>
         InRound /\ n \in Joined /\ n \notin ToBeat /\ p \in Peers(n, Joined)
    /\ ~InRound => Pending = {} /\ Done = {}
BY DEF Pending, Done

LEMMA Crowd ==
    ASSUME TypeOK
    PROVE  /\ JoinedCount \in 1 .. N /\ Joined \subseteq Nodes
           /\ turn <= JoinedCount => InTurn \in Joined
           /\ \A n, p : p \in Peers(n, Joined) <=> p \in Joined /\ {n, p} \in Links
           /\ \A n, p : {n, p} \in Links => n # p /\ n \in Nodes /\ p \in Nodes
<1>1. now \in Nat /\ turn \in 1 .. N /\ N \in Nat /\ N >= 2
  BY NAssumption DEF TypeOK
<1>2. JoinedCount \in 1 .. N
  BY <1>1 DEF JoinedCount, InSetup
<1>3. Joined \subseteq Nodes
  BY <1>1, <1>2, JoinOrderAssumption DEF Joined
<1>4. turn <= JoinedCount => InTurn \in Joined
  BY <1>1, <1>2 DEF InTurn, Joined
<1>5. ASSUME NEW n, NEW p, {n, p} \in Links PROVE n # p /\ n \in Nodes /\ p \in Nodes
  <2>1. PICK q, r \in Nodes : q # r /\ {n, p} = {q, r}
    BY <1>5, LinksAssumption
  <2> QED
    BY <2>1
<1> QED
  BY <1>2, <1>3, <1>4, <1>5 DEF Peers
-----------------------------------------------------------------------------
(* The heartbeats of one node. *)

StillPending == { w \in Pending : w[1] # InTurn }
ThenDone == Done \cup { << InTurn, p >> : p \in PeersInTurn }

LEMMA SendLineRound ==
    ASSUME NEW nds \in [Nodes -> NodeState], NEW ts \in Seq(Batch), NEW ib \in Batch,
           NEW t \in Nat, NEW a \in Nodes, NEW peers \in SUBSET Nodes, NEW burst, NEW st2,
           Sends(nds[a], st2, a, peers, burst, t),
           NEW on, NEW pend, NEW done, NEW pend2, NEW done2,
           TakesTurn(nds, a, burst, pend, done, pend2, done2),
           Rounds(nds, LineOf(nds, ts, ib), Len(ts) + 1, on, pend, done)
    PROVE  LET nds2 == [nds EXCEPT ![a] = st2]
           IN  /\ nds2 \in [Nodes -> NodeState]
               /\ Rounds(nds2, LineOf(nds2, ts, ib), Len(ts) + 1, on, pend2, done2)
<1> DEFINE nds2 == [nds EXCEPT ![a] = st2]
<1>1. st2 \in NodeState /\ st2.queue = Append(nds[a].queue, burst)
  BY DEF Sends
<1>2. \A n \in Nodes : nds2[n].queue = IF n = a THEN Append(nds[a].queue, burst)
                                      ELSE nds[n].queue
  BY <1>1
<1>3. nds2 \in [Nodes -> NodeState]
  BY <1>1
<1>4. /\ Len(ts) + 1 \in Nat \ {0}
      /\ LineOf(nds, ts, ib) \in [0 .. Len(ts) + 1 -> Batch]
  BY LineType
<1>5. Rounds(nds2, Queued(LineOf(nds, ts, ib), Len(ts) + 1, a, burst), Len(ts) + 1, on, pend2, done2)
  BY <1>4, SendRound
<1> HIDE DEF nds2
<1>6. LineOf(nds2, ts, ib) = Queued(LineOf(nds, ts, ib), Len(ts) + 1, a, burst)
  BY <1>2, LineQueued
<1> QED
  BY <1>3, <1>5, <1>6 DEF nds2

(* Between two nodes that are linked, one is still to send its heartbeat   *)
(* or has done so.                                                         *)
LEMMA PeerInRound ==
    ASSUME TypeOK, InRound, turn <= JoinedCount, NEW p \in PeersInTurn
    PROVE  /\ p \in Nodes /\ InTurn \in Nodes /\ p # InTurn
           /\ << p, InTurn >> \in Pending \/ << p, InTurn >> \in Done
<1>1. p \in Joined /\ {InTurn, p} \in Links
  BY Crowd DEF PeersInTurn
<1>2. {p, InTurn} \in Links /\ p \in Nodes /\ InTurn \in Nodes /\ p # InTurn
  BY <1>1, Crowd
<1>3. InTurn \in Peers(p, Joined)
  BY <1>2, Crowd
<1> QED
  BY <1>1, <1>2, <1>3, Pairs

LEMMA BeatRound ==
    ASSUME TypeOK, phase = "beat", turn <= JoinedCount,
           Rounds(nodes, line, Top, Online, Pending, Done)
    PROVE  LET nds2 == [nodes EXCEPT ![InTurn] = Beaten]
           IN  /\ nds2 \in [Nodes -> NodeState]
               /\ Rounds(nds2, LineOf(nds2, toSend, inbox), Top, Online, StillPending, ThenDone)
               /\ Beaten.heard = nodes[InTurn].heard
<1>1. /\ nodes \in [Nodes -> NodeState] /\ toSend \in Seq(Batch) /\ inbox \in Batch /\ now \in Nat
      /\ InTurn \in Nodes /\ PeersInTurn \in SUBSET Nodes /\ nodes[InTurn] \in NodeState
  BY InTurnType DEF TypeOK
<1> DEFINE burst == Beats(nodes[InTurn], InTurn, PeersInTurn)
<1>2. Sends(nodes[InTurn], Beaten, InTurn, PeersInTurn, burst, now)
  BY <1>1, HeartbeatSends DEF Beaten
<1>3. ASSUME NEW p \in PeersInTurn PROVE \E m \in burst : m.kind = "info" /\ m.dst = p
  <2> DEFINE m == heartbeatMessage(nodes[InTurn], InTurn, p)
  <2>1. m \in burst
    BY DEF Beats
  <2>2. m.kind = "info" /\ m.dst = p
    BY DEF heartbeatMessage
  <2> HIDE DEF m
  <2> QED
    BY <2>1, <2>2
<1>4. \A m \in burst : m.kind = "info" /\ m.dst \in PeersInTurn
  BY DEF Beats, heartbeatMessage
<1> HIDE DEF burst
<1>5. \A n, p \in Nodes : << n, p >> \in Pending =>
        << n, p >> \in StillPending \/ (n = InTurn /\ GreetsIn(burst, p))
  <2> SUFFICES ASSUME NEW n \in Nodes, NEW p \in Nodes, << n, p >> \in Pending, n = InTurn
               PROVE  GreetsIn(burst, p)
    BY DEF StillPending
  <2>1. p \in PeersInTurn
    BY Pairs DEF PeersInTurn
  <2> QED
    BY <1>3, <2>1 DEF GreetsIn
<1>6. \A n, p \in Nodes : << n, p >> \in ThenDone =>
        << n, p >> \in Done \/ (n = InTurn /\ GreetsIn(burst, p))
  BY <1>3 DEF ThenDone, GreetsIn
<1>7. \A m \in burst : /\ m.dst # InTurn
                       /\ << m.dst, InTurn >> \in Pending \/ << m.dst, InTurn >> \in Done
  BY <1>4, PeerInRound DEF InRound
<1>8. TakesTurn(nodes, InTurn, burst, Pending, Done, StillPending, ThenDone)
  BY <1>4, <1>5, <1>6, <1>7 DEF TakesTurn
<1>9. Top = Len(toSend) + 1 /\ line = LineOf(nodes, toSend, inbox)
  BY DEF Top, line
<1> QED
  BY <1>1, <1>2, <1>8, <1>9, SendLineRound DEF Sends

(* A keyspace message in the middle of a turn. *)
LEMMA GiveRound ==
    ASSUME TypeOK, InRound, turn <= JoinedCount,
           NEW nds \in [Nodes -> NodeState],
           NEW pend, NEW done,
           \A n, p \in Nodes : << n, p >> \in Pending /\ n # InTurn => << n, p >> \in pend,
           \A n, p \in Nodes : << n, p >> \in Done => << n, p >> \in done,
           Rounds(nds, LineOf(nds, toSend, inbox), Top, Online, pend, done),
           inbox = NoMessages,
           NEW p \in PeersInTurn, Met(nds, InTurn, p),
           NEW blocks, NEW st2,
           Sends(nds[InTurn], st2, InTurn, {p}, {custMessage(nds[InTurn], InTurn, p, blocks)}, now)
    PROVE  LET nds2 == [nds EXCEPT ![InTurn] = st2]
           IN  /\ nds2 \in [Nodes -> NodeState]
               /\ Rounds(nds2, LineOf(nds2, toSend, inbox), Top, Online, pend, done)
<1> DEFINE m == custMessage(nds[InTurn], InTurn, p, blocks)
<1>1. /\ toSend \in Seq(Batch) /\ inbox \in Batch /\ now \in Nat
      /\ InTurn \in Nodes /\ p \in Nodes /\ p # InTurn
  BY PeerInRound DEF TypeOK
<1>2. m.kind = "keyspace" /\ m.dst = p
  BY DEF custMessage
<1>3. << p, InTurn >> \in pend \/ << p, InTurn >> \in done
  BY <1>1, PeerInRound
<1>4. Met(nds, p, InTurn)
  <2>1. /\ Len(toSend) + 1 \in Nat /\ Top = Len(toSend) + 1
        /\ LineOf(nds, toSend, inbox)[0] = NoMessages
    BY <1>1, LineType DEF Top
  <2>2. ~ Greets(LineOf(nds, toSend, inbox), 0, InTurn, p)
    <3>1. NoMessages[InTurn] = << >> /\ DOMAIN NoMessages[InTurn] = {}
      BY <1>1 DEF NoMessages
    <3> QED
      BY <2>1, <3>1 DEF Greets
  <2> QED
    BY <1>1, <2>2 DEF Rounds, MeetInv
<1> HIDE DEF m
<1>5. TakesTurn(nds, InTurn, {m}, pend, done, pend, done)
  BY <1>1, <1>2, <1>3, <1>4 DEF TakesTurn
<1>6. Top = Len(toSend) + 1 /\ {p} \in SUBSET Nodes
  BY <1>1 DEF Top
<1>7. Sends(nds[InTurn], st2, InTurn, {p}, {m}, now)
  BY DEF m
<1> QED
  BY <1>1, <1>5, <1>6, <1>7, SendLineRound
-----------------------------------------------------------------------------
(* The end of a turn. *)

LEMMA TurnEnds ==
    ASSUME TypeOK, InRound, turn <= JoinedCount, now' = now,
           NextTurn \/ (phase' = "share" /\ turn' = turn)
    PROVE  /\ \A n, p \in Nodes : << n, p >> \in Pending /\ (n # InTurn \/ phase = "share") =>
                << n, p >> \in Pending'
           /\ \A n, p \in Nodes : << n, p >> \in Done' => << n, p >> \in Done \/
                                    (n = InTurn /\ p \in PeersInTurn /\ phase = "beat")
           /\ phase' \in {"beat", "share", "collect", "events", "consume"}
           /\ phase' \notin {"beat", "share"} => turn' = 1
           /\ InRound' => turn' <= JoinedCount'
<1>1. turn \in 1 .. N /\ JoinedCount \in 1 .. N /\ N \in Nat /\ InTurn \in Joined
  BY Crowd, NAssumption DEF TypeOK
<1>2. phase # "add" /\ phase' # "add"
  BY DEF InRound, NextTurn, AfterBeats
<1>3. JoinedCount' = JoinedCount
  BY <1>2 DEF JoinedCount, InSetup
<1>4. Joined' = Joined
  BY <1>3 DEF Joined
<1>5. /\ phase' \in {"beat", "share", "collect", "events", "consume"}
      /\ phase' \notin {"beat", "share"} => turn' = 1 /\ turn = JoinedCount
      /\ InRound' => turn' <= JoinedCount /\ \/ phase' = "beat" /\ turn' = turn + 1
                                             \/ phase' = "share" /\ turn' = turn
  BY <1>1 DEF NextTurn, AfterBeats, InRound
<1>6. ASSUME NEW n \in Nodes, n \in ToBeat, n # InTurn \/ phase = "share"
      PROVE  InRound' /\ n \in ToBeat'
  <2>1. PICK i \in turn .. JoinedCount : JoinOrder[i] = n /\ (i = turn => phase = "beat")
    BY <1>6 DEF ToBeat
  <2>2. i \in turn + 1 .. JoinedCount /\ turn < JoinedCount
    BY <1>1, <1>6, <2>1 DEF InTurn, InRound
  <2>3. InRound' /\ i \in turn' .. JoinedCount' /\ (i = turn' => phase' = "beat")
    BY <1>1, <1>3, <1>5, <2>2 DEF InRound
  <2> QED
    BY <2>1, <2>3 DEF ToBeat
<1>7. ASSUME NEW n \in Nodes, NEW p \in Nodes, << n, p >> \in Pending,
             n # InTurn \/ phase = "share"
      PROVE  << n, p >> \in Pending'
  <2>1. n \in ToBeat /\ p \in Peers(n, Joined)
    BY <1>7, Pairs
  <2>2. InRound' /\ n \in ToBeat'
    BY <1>6, <1>7, <2>1
  <2> QED
    BY <1>4, <2>1, <2>2 DEF Pending
<1>8. ASSUME NEW n \in Nodes, NEW p \in Nodes, << n, p >> \in Done',
             n # InTurn \/ phase = "share"
      PROVE  << n, p >> \in Done
  <2>1. InRound' /\ n \in Joined /\ n \notin ToBeat' /\ p \in Peers(n, Joined)
    BY <1>4, <1>8 DEF Done
  <2>2. n \notin ToBeat
    BY <1>6, <1>8, <2>1
  <2> QED
    BY <2>1, <2>2, Pairs
<1>9. ASSUME NEW p \in Nodes, << InTurn, p >> \in Done' PROVE p \in PeersInTurn
  BY <1>4, <1>9 DEF Done, PeersInTurn
<1>10. phase \in {"beat", "share"}
  BY DEF InRound
<1> QED
  BY <1>3, <1>5, <1>7, <1>8, <1>9, <1>10

(* Out of a round, and when one begins, nobody has sent its heartbeat.     *)
LEMMA NoneDone ==
    ASSUME TypeOK', phase' # "share", phase' = "beat" => turn' = 1
    PROVE  /\ \A n, p \in Nodes : << n, p >> \notin Done'
           /\ InRound' => turn' <= JoinedCount'
<1>1. JoinedCount' \in 1 .. N /\ N \in Nat
  <2>1. now' \in Nat /\ N \in Nat /\ N >= 2
    BY NAssumption DEF TypeOK
  <2>2. \/ JoinedCount' = N
        \/ now' < N - 1 /\ (JoinedCount' = now' + 1 \/ JoinedCount' = now' + 2)
    BY Zenon DEF JoinedCount, InSetup
  <2> QED
    BY <2>1, <2>2
<1>2. ASSUME NEW n \in Nodes, NEW p \in Nodes, << n, p >> \in Done' PROVE FALSE
  <2>1. phase' = "beat" /\ turn' = 1 /\ n \in Joined' /\ n \notin ToBeat'
    BY <1>2 DEF Done, InRound
  <2>2. PICK i \in 1 .. JoinedCount' : JoinOrder[i] = n
    BY <2>1 DEF Joined
  <2>3. n \in ToBeat'
    BY <2>1, <2>2 DEF ToBeat
  <2> QED
    BY <2>1, <2>3
<1> QED
  BY <1>1, <1>2 DEF InRound

(* A step outside the rounds and deliveries that only changes blocks,      *)
(* clocks and who is online.                                               *)
LEMMA QuietRoundStep ==
    ASSUME TypeOK, TypeOK', RoundInv, phase \notin {"beat", "share", "died", "deliver"},
           UNCHANGED << toSend, inbox >>, SameRecords(nodes, nodes'),
           \A n \in Nodes : nodes'[n].queue = nodes[n].queue,
           phase' \notin {"share", "died"},
           phase' # "consume" => turn' = 1
    PROVE  RoundInv'
<1>1. /\ nodes \in [Nodes -> NodeState] /\ Top \in Nat \ {0} /\ line \in [0 .. Top -> Batch]
      /\ line[0] = inbox
  BY StateLine DEF TypeOK
<1>2. Rounds(nodes, line, Top, Online, {}, {})
  <2>1. Pending = {} /\ Done = {}
    BY Pairs DEF InRound
  <2> QED
    BY <2>1 DEF RoundInv
<1>3. line' = line /\ Top' = Top
  <2>1. [n \in Nodes |-> nodes'[n].queue] = [n \in Nodes |-> nodes[n].queue]
    BY Zenon
  <2> QED
    BY <2>1 DEF line, Top, LineOf
<1>4. inbox = NoMessages /\ \A n, i, m : ~ Way(line, Top, 0, n, i, m)
  BY <1>1, NobodyWaits DEF RoundInv
<1>5. /\ \A n, p \in Nodes : << n, p >> \notin Done'
      /\ InRound' => turn' <= JoinedCount'
  BY NoneDone
<1>6. \A n, p \in Nodes : /\ << n, p >> \in {} => << n, p >> \in Pending'
                          /\ << n, p >> \in Done' => << n, p >> \in {}
  BY <1>5
<1>7. Rounds(nodes', line, Top, Online', Pending', Done')
  <2> SUFFICES ASSUME NEW on2, on2 = Online', NEW pend2, pend2 = Pending', NEW done2, done2 = Done',
                      NEW nds2, nds2 = nodes'
               PROVE  Rounds(nds2, line, Top, on2, pend2, done2)
    OBVIOUS
  <2>1. /\ on2 = Online \/ \A n, i, m : ~ Way(line, Top, 0, n, i, m)
        /\ \A n, p \in Nodes : << n, p >> \in {} => << n, p >> \in pend2
        /\ \A n, p \in Nodes : << n, p >> \in done2 => << n, p >> \in {}
        /\ SameRecords(nodes, nds2)
    BY <1>4, <1>6
  <2> QED
    BY ONLY <1>1, <1>2, <2>1, QuietRound
<1> QED
  BY <1>3, <1>4, <1>5, <1>7 DEF RoundInv, SharesWithHeard, Rounds

(* A step that ends the program. *)
LEMMA DiesRound ==
    ASSUME RoundInv, Dies, phase # "deliver"
    PROVE  RoundInv'
BY DEF RoundInv, Dies, network, RatioInv

LEMMA CollectRound ==
    ASSUME TypeOK, TypeOK', RoundInv, Collect
    PROVE  RoundInv'
<1>1. /\ nodes \in [Nodes -> NodeState] /\ Top \in Nat \ {0} /\ line \in [0 .. Top -> Batch]
      /\ inbox = NoMessages
  BY StateLine DEF TypeOK, RoundInv, Collect
<1>2. Rounds(nodes, line, Top, Online, {}, {}) /\ phase = "collect" /\ turn = 1
  <2>1. Pending = {} /\ Done = {}
    BY Pairs DEF InRound, Collect
  <2> QED
    BY <2>1 DEF RoundInv, Collect
<1>3. SameRecords(nodes, nodes') /\ \A n, i, m : ~ Way(line, Top, 0, n, i, m)
  BY <1>1, CollectLine
<1>4. PICK d \in {0, 1} :
        /\ \A l, n, i, m : Way(line', Top', l, n, i, m)
                            <=> l \in Nat /\ Way(line, Top, l + d, n, i, m)
        /\ Top' = Top + 1 - d
  BY <1>1, CollectLine
<1>5. /\ nodes' \in [Nodes -> NodeState] /\ Top' \in Nat \ {0} /\ line' \in [0 .. Top' -> Batch]
  <2>1. Top' = Len(toSend') + 1 /\ line' = LineOf(nodes', toSend', inbox')
    BY DEF Top, line
  <2>2. nodes' \in [Nodes -> NodeState] /\ toSend' \in Seq(Batch) /\ inbox' \in Batch
    BY DEF TypeOK
  <2> QED
    BY <2>1, <2>2, LineType
<1>6. Rounds(nodes', line', Top', Online, {}, {})
  BY <1>1, <1>2, <1>3, <1>4, <1>5, ShiftRound
<1>7. /\ phase' \in {"deliver", "tick", "beat", "events", "consume"} /\ turn' = 1
      /\ phase' # "deliver" => inbox' = NoMessages
      /\ Online' = Online
  BY <1>2 DEF Collect, AfterDeliver, AfterBeats, status, Online
<1>8. /\ \A n, p \in Nodes : << n, p >> \notin Done'
      /\ InRound' => turn' <= JoinedCount'
  BY <1>7, NoneDone
<1>9. SameRecords(nodes', nodes')
  BY DEF SameRecords
<1>10. Rounds(nodes', line', Top', Online', Pending', Done')
  <2>1. \A n, p \in Nodes : /\ << n, p >> \in {} => << n, p >> \in Pending'
                            /\ << n, p >> \in Done' => << n, p >> \in {}
    BY <1>8
  <2> QED
    BY <1>5, <1>6, <1>7, <1>9, <2>1, QuietRound
<1> QED
  BY <1>7, <1>8, <1>10 DEF RoundInv, SharesWithHeard, Rounds
-----------------------------------------------------------------------------
(* A delivery. *)

LEMMA WaitsRest ==
    ASSUME NEW top \in Nat, NEW lv \in [0 .. top -> Batch],
           NEW a \in Nodes, lv[0][a] # << >>, NEW m \in Head(lv[0][a])
    PROVE  /\ Rest(lv, a, m) \in [0 .. top -> Batch]
           /\ Waits(lv, top, 0, a, m)
           /\ \A l, n, x : Waits(Rest(lv, a, m), top, l, n, x) => Waits(lv, top, l, n, x)
           /\ \A l, n, x : Waits(lv, top, l, n, x) =>
                Waits(Rest(lv, a, m), top, l, n, x) \/ (l = 0 /\ n = a /\ x = m)
<1> DEFINE lv2 == Rest(lv, a, m)
<1>1. lv2 \in [0 .. top -> Batch] /\ Way(lv, top, 0, a, 1, m)
  BY WayRest
<1>2. PICK d \in {0, 1} :
        /\ d = 1 => \A x : Way(lv, top, 0, a, 1, x) => x = m
        /\ \A l, n, i, x : Way(lv2, top, l, n, i, x) <=>
             IF l = 0 /\ n = a
             THEN i \in Nat \ {0} /\ Way(lv, top, 0, a, i + d, x) /\ ~(i + d = 1 /\ x = m)
             ELSE Way(lv, top, l, n, i, x)
  BY WayRest
<1> HIDE DEF lv2
<1>3. ASSUME NEW l, NEW n, NEW x, Waits(lv2, top, l, n, x) PROVE Waits(lv, top, l, n, x)
  <2>1. PICK i : Way(lv2, top, l, n, i, x)
    BY <1>3 DEF Waits
  <2>2. Way(lv, top, l, n, i + d, x) \/ Way(lv, top, l, n, i, x)
    BY <1>2, <2>1
  <2> QED
    BY <2>2, Zenon DEF Waits
<1>4. ASSUME NEW l, NEW n, NEW x, Waits(lv, top, l, n, x), ~(l = 0 /\ n = a /\ x = m)
      PROVE  Waits(lv2, top, l, n, x)
  <2>1. PICK i : Way(lv, top, l, n, i, x)
    BY <1>4 DEF Waits
  <2>2. i \in Nat \ {0}
    <3>1. lv[l][n] \in Seq(SUBSET Message) /\ i \in 1 .. Len(lv[l][n])
      BY <2>1, WayType
    <3> QED
      BY <3>1
  <2>3. CASE ~(l = 0 /\ n = a)
    <3>1. Way(lv2, top, l, n, i, x)
      BY <1>2, <2>1, <2>3
    <3> QED
      BY <3>1, Zenon DEF Waits
  <2>4. CASE l = 0 /\ n = a /\ d = 0
    <3>1. Way(lv2, top, l, n, i, x)
      BY <1>2, <1>4, <2>1, <2>2, <2>4
    <3> QED
      BY <3>1, Zenon DEF Waits
  <2>5. CASE l = 0 /\ n = a /\ d = 1
    <3>1. i # 1
      BY <1>2, <1>4, <2>1, <2>5
    <3>2. i - 1 \in Nat \ {0} /\ (i - 1) + d = i
      BY <2>2, <2>5, <3>1
    <3>3. Way(lv2, top, l, n, i - 1, x)
      BY <1>2, <2>1, <2>5, <3>1, <3>2
    <3> QED
      BY <3>3, Zenon DEF Waits
  <2> QED
    BY <2>3, <2>4, <2>5
<1> QED
  BY <1>1, <1>3, <1>4, Zenon DEF Waits, lv2

(* The inbox without m. *)
FirstGone(ib, a, m) ==
    [ib EXCEPT ![a] = IF Head(ib[a]) = {m} THEN Tail(ib[a])
                      ELSE << Head(ib[a]) \ {m} >> \o Tail(ib[a])]

LEMMA LineRest ==
    ASSUME NEW nds \in [Nodes -> NodeState], NEW ts \in Seq(Batch), NEW ib \in Batch, NEW a, NEW m
    PROVE  LineOf(nds, ts, FirstGone(ib, a, m)) = Rest(LineOf(nds, ts, ib), a, m)
<1> DEFINE first == FirstGone(ib, a, m)
           q     == [n \in Nodes |-> nds[n].queue]
           lv    == LineOf(nds, ts, ib)
<1>1. Len(ts) \in Nat /\ lv[0] = ib
  BY LineType
<1>2. Rest(lv, a, m) = [lv EXCEPT ![0] = first]
  BY <1>1, Zenon DEF Rest, FirstGone
<1> HIDE DEF first, q
<1>3. lv = [l \in 0 .. Len(ts) + 1 |-> IF l = 0 THEN ib ELSE IF l <= Len(ts) THEN ts[l] ELSE q]
  BY Zenon DEF LineOf, q
<1>4. LineOf(nds, ts, first)
        = [l \in 0 .. Len(ts) + 1 |-> IF l = 0 THEN first ELSE IF l <= Len(ts) THEN ts[l] ELSE q]
  BY Zenon DEF LineOf, q
<1> HIDE DEF lv
<1> QED
  BY <1>1, <1>2, <1>3, <1>4 DEF lv, first

(* The line once m has been received. *)
LEMMA LineReceived ==
    ASSUME NEW nds \in [Nodes -> NodeState], NEW ts \in Seq(Batch), NEW ib \in Batch,
           NEW t \in Nat, NEW a \in Nodes, ib[a] # << >>, NEW m \in Head(ib[a]),
           m \in Message, m.src = a, NEW nds2, nds2 = Received(nds, m, t)
    PROVE  LET top == Len(ts) + 1
               lv  == LineOf(nds, ts, ib)
               lv2 == LineOf(nds2, ts, FirstGone(ib, a, m))
           IN  /\ lv2 \in [0 .. top -> Batch] /\ Taken(nds, lv, lv2, top, m)
               /\ \E burst \in SUBSET Message :
                    /\ \A x \in burst : \E f \in nds[m.dst].confirm : f.msg = x
                    /\ \/ lv2 = Rest(lv, a, m)
                       \/ lv2 = Queued(Rest(lv, a, m), top, m.dst, burst)
<1> DEFINE top == Len(ts) + 1
           lv  == LineOf(nds, ts, ib)
           lv1 == Rest(lv, a, m)
           b   == m.dst
           st2 == receiveMessage(nds[b], m, t)
           h   == heardAfter(nds[b].heard[m.src], m)
           ib1 == FirstGone(ib, a, m)
           lv2 == LineOf(nds2, ts, ib1)
<1>1. top \in Nat \ {0} /\ lv \in [0 .. top -> Batch] /\ lv[0] = ib
  BY LineType
<1>2. LineOf(nds, ts, FirstGone(ib, a, m)) = lv1
  BY LineRest
<1> HIDE DEF top, lv
<1>3. /\ lv1 \in [0 .. top -> Batch]
      /\ \A l, n, x : Waits(lv1, top, l, n, x) => Waits(lv, top, l, n, x)
      /\ \A l, n, x : Waits(lv, top, l, n, x) =>
           Waits(lv1, top, l, n, x) \/ (l = 0 /\ n = a /\ x = m)
  <2>1. lv[0][a] # << >> /\ m \in Head(lv[0][a])
    BY <1>1
  <2> QED
    BY <1>1, <2>1, WaitsRest
<1> HIDE DEF lv1
<1>4. b \in Nodes /\ nds[b] \in NodeState /\ nds2 = [nds EXCEPT ![b] = st2]
  BY DEF Received, Message
<1>5. Receives(nds[b], st2, m.src, h)
  BY <1>4, ReceiveEffect
<1> HIDE DEF st2, h, ib1, lv2
<1>6. PICK burst \in SUBSET Message :
        /\ st2.queue = nds[b].queue \/ st2.queue = Append(nds[b].queue, burst)
        /\ \A x \in burst : x.dst = m.src /\ \E f \in nds[b].confirm : f.msg = x
  BY <1>5 DEF Receives
<1>7. \A n \in Nodes : nds2[n].queue = IF n = b THEN st2.queue ELSE nds[n].queue
  BY <1>4
<1>8. /\ lv2 \in [0 .. top -> Batch]
      /\ \A l, n, x : Waits(lv1, top, l, n, x) => Waits(lv2, top, l, n, x)
      /\ \A l, n, x : Waits(lv2, top, l, n, x) =>
           Waits(lv1, top, l, n, x) \/ (n = b /\ x \in burst)
      /\ lv2 = lv1 \/ lv2 = Queued(lv1, top, b, burst)
  <2>1. CASE st2.queue = nds[b].queue
    <3>1. \A n \in Nodes : nds2[n].queue = nds[n].queue
      BY <1>7, <2>1
    <3>2. [n \in Nodes |-> nds2[n].queue] = [n \in Nodes |-> nds[n].queue]
      BY <3>1, Zenon
    <3>3. lv2 = lv1
      BY <1>2, <3>2 DEF lv2, ib1, LineOf
    <3> QED
      BY <1>3, <3>3
  <2>2. CASE st2.queue = Append(nds[b].queue, burst)
    <3>1. ib1 \in Batch
      <4>1. LineOf(nds, ts, ib1) = lv1
        BY <1>2 DEF ib1
      <4>2. LineOf(nds, ts, ib1)[0] = ib1
        BY DEF LineOf
      <4>3. 0 \in 0 .. top
        BY <1>1
      <4> QED
        BY <1>3, <4>1, <4>2, <4>3
    <3>2. \A n \in Nodes : nds2[n].queue = IF n = b THEN Append(nds[b].queue, burst)
                                          ELSE nds[n].queue
      BY <1>7, <2>2
    <3>3. lv2 = Queued(lv1, top, b, burst)
      <4>1. nds \in [Nodes -> NodeState] /\ ts \in Seq(Batch) /\ b \in Nodes
        BY <1>4
      <4>2. LineOf(nds2, ts, ib1) = Queued(LineOf(nds, ts, ib1), Len(ts) + 1, b, burst)
        BY ONLY <3>1, <3>2, <4>1, LineQueued
      <4> QED
        BY <1>2, <4>2 DEF lv2, ib1, top
    <3>4. lv2 \in [0 .. top -> Batch]
      BY <1>1, <1>3, <1>4, <3>3, WayQueued
    <3>5. \A l, n, x : Waits(lv2, top, l, n, x) <=>
            Waits(lv1, top, l, n, x) \/ (l = top /\ n = b /\ x \in burst)
      BY <1>1, <1>3, <1>4, <3>3, WaitsQueued
    <3> QED
      BY <3>3, <3>4, <3>5
  <2> QED
    BY <1>6, <2>1, <2>2
<1>9. Taken(nds, lv, lv2, top, m)
  BY <1>3, <1>6, <1>8 DEF Taken
<1> QED
  BY <1>6, <1>8, <1>9 DEF top, lv, lv1, lv2, ib1

LEMMA DeliveredRound ==
    ASSUME NEW nds \in [Nodes -> NodeState], NEW ts \in Seq(Batch), NEW ib \in Batch,
           NEW t \in Nat, NEW on, NEW a \in Nodes, ib[a] # << >>, NEW m \in Head(ib[a]), NEW nds2,
           m.src \in on /\ m.dst \in on => nds2 = Received(nds, m, t),
           ~ (m.src \in on /\ m.dst \in on) => nds2 = nds,
           Rounds(nds, LineOf(nds, ts, ib), Len(ts) + 1, on, {}, {})
    PROVE  Rounds(nds2, LineOf(nds2, ts, FirstGone(ib, a, m)), Len(ts) + 1, on, {}, {})
<1> DEFINE top == Len(ts) + 1
           lv  == LineOf(nds, ts, ib)
           lv1 == Rest(lv, a, m)
<1>1. top \in Nat \ {0} /\ lv \in [0 .. top -> Batch] /\ lv[0] = ib
  BY LineType
<1>2. LineOf(nds, ts, FirstGone(ib, a, m)) = lv1
  BY LineRest
<1> HIDE DEF top, lv
<1>3. /\ lv1 \in [0 .. top -> Batch] /\ Waits(lv, top, 0, a, m)
      /\ \A l, n, x : Waits(lv1, top, l, n, x) => Waits(lv, top, l, n, x)
      /\ \A l, n, x : Waits(lv, top, l, n, x) =>
           Waits(lv1, top, l, n, x) \/ (l = 0 /\ n = a /\ x = m)
  <2>1. lv[0][a] # << >> /\ m \in Head(lv[0][a])
    BY <1>1
  <2> QED
    BY <1>1, <2>1, WaitsRest
<1> HIDE DEF lv1
<1>4. m \in Message /\ m.src = a /\ m.dst \in Nodes
  <2>1. m \in Message
    BY <1>1, <1>3, WaitsType
  <2>2. SoundInv(nds, lv, top, {})
    BY DEF Rounds, lv, top
  <2>3. Sound(nds, {}, a, m)
    BY <1>3, <2>2, SoundFlat
  <2> QED
    BY <2>1, <2>3 DEF Sound, Message
<1>5. Rounds(nds, lv, top, on, {}, {})
  BY DEF lv, top
<1>6. CASE ~ (m.src \in on /\ m.dst \in on)
  <2>1. Rounds(nds, lv1, top, on, {}, {})
    BY <1>1, <1>3, <1>4, <1>5, <1>6, LostRound
  <2> QED
    BY <1>2, <1>6, <2>1 DEF top
<1>7. CASE m.src \in on /\ m.dst \in on
  <2> DEFINE lv2 == LineOf(nds2, ts, FirstGone(ib, a, m))
  <2>1. nds2 = Received(nds, m, t)
    BY <1>7
  <2>2. lv2 \in [0 .. top -> Batch] /\ Taken(nds, lv, lv2, top, m)
    BY <1>4, <2>1, LineReceived DEF top, lv
  <2> HIDE DEF lv2
  <2>3. Waits(lv, top, 0, m.src, m)
    BY <1>3, <1>4
  <2>4. Rounds(nds2, lv2, top, on, {}, {})
    <3>1. /\ nds \in [Nodes -> NodeState] /\ top \in Nat \ {0} /\ t \in Nat /\ m \in Message
          /\ lv \in [0 .. top -> Batch] /\ lv2 \in [0 .. top -> Batch]
      BY <1>1, <1>4, <2>2
    <3> QED
      BY ONLY <3>1, <1>5, <1>7, <2>1, <2>2, <2>3, ReceiveRound
  <2> QED
    BY <2>4 DEF lv2, top
<1> QED
  BY <1>6, <1>7

LEMMA DeliverRound ==
    ASSUME TypeOK, TypeOK', RoundInv, Deliver
    PROVE  RoundInv'
<1>1. /\ nodes \in [Nodes -> NodeState] /\ toSend \in Seq(Batch) /\ inbox \in Batch /\ now \in Nat
      /\ Top \in Nat \ {0} /\ Top = Len(toSend) + 1
      /\ line \in [0 .. Top -> Batch] /\ line[0] = inbox
  BY StateLine DEF TypeOK
<1>2. Rounds(nodes, line, Top, Online, {}, {}) /\ phase = "deliver" /\ turn = 1
  <2>1. Pending = {} /\ Done = {}
    BY Pairs DEF InRound, Deliver
  <2> QED
    BY <2>1 DEF RoundInv, Deliver
<1>3. PICK a \in NextSender : \E m \in FirstOf(Head(inbox[a])) :
        /\ IF Arrives(m)
           THEN nodes' = [nodes EXCEPT ![m.dst] = receiveMessage(@, m, now)]
           ELSE UNCHANGED nodes
        /\ inbox' = InboxAfter(a, m)
  BY DEF Deliver
<1>4. PICK m \in FirstOf(Head(inbox[a])) :
        /\ IF Arrives(m)
           THEN nodes' = [nodes EXCEPT ![m.dst] = receiveMessage(@, m, now)]
           ELSE UNCHANGED nodes
        /\ inbox' = InboxAfter(a, m)
  BY <1>3
<1>5. a \in Nodes /\ inbox[a] # << >> /\ m \in Head(inbox[a])
  BY DEF NextSender, FirstOf
<1>6. m.src \in Nodes /\ m.dst \in Nodes
  <2>1. Way(line, Top, 0, a, 1, m)
    BY <1>1, <1>5, WayRest
  <2>2. m \in Message
    BY <1>1, <2>1, WayType
  <2> QED
    BY <2>2 DEF Message
<1>7. Arrives(m) <=> m.src \in Online /\ m.dst \in Online
  BY <1>6 DEF Arrives, Online
<1>8. /\ m.src \in Online /\ m.dst \in Online => nodes' = Received(nodes, m, now)
      /\ ~ (m.src \in Online /\ m.dst \in Online) => nodes' = nodes
  BY <1>4, <1>7 DEF Received
<1>9. Rounds(nodes', LineOf(nodes', toSend, FirstGone(inbox, a, m)), Top, Online, {}, {})
  <2> SUFFICES ASSUME NEW nds2, nds2 = nodes'
               PROVE  Rounds(nds2, LineOf(nds2, toSend, FirstGone(inbox, a, m)), Top, Online, {}, {})
    OBVIOUS
  <2>1. /\ m.src \in Online /\ m.dst \in Online => nds2 = Received(nodes, m, now)
        /\ ~ (m.src \in Online /\ m.dst \in Online) => nds2 = nodes
    BY <1>8
  <2>2. Rounds(nodes, LineOf(nodes, toSend, inbox), Len(toSend) + 1, Online, {}, {})
    BY <1>1, <1>2 DEF line
  <2>3. Rounds(nds2, LineOf(nds2, toSend, FirstGone(inbox, a, m)), Len(toSend) + 1, Online, {}, {})
    BY ONLY <1>1, <1>5, <2>1, <2>2, DeliveredRound
  <2> QED
    BY <1>1, <2>3
<1>10. inbox' = FirstGone(inbox, a, m)
  BY <1>4 DEF InboxAfter, FirstGone
<1>11. Top' = Top /\ line' = LineOf(nodes', toSend, inbox') /\ Online' = Online
  BY DEF Deliver, Top, line, status, Online
<1>12. Rounds(nodes', line', Top', Online', {}, {})
  BY <1>9, <1>10, <1>11
<1>13. /\ nodes' \in [Nodes -> NodeState] /\ Top' \in Nat \ {0} /\ line' \in [0 .. Top' -> Batch]
  <2>1. nodes' \in [Nodes -> NodeState] /\ toSend' \in Seq(Batch) /\ inbox' \in Batch
    BY DEF TypeOK
  <2>2. Top' = Len(toSend') + 1 /\ line' = LineOf(nodes', toSend', inbox')
    BY DEF Top, line
  <2> QED
    BY <2>1, <2>2, LineType
<1>14. /\ phase' \in {"deliver", "tick", "beat", "events", "consume"} /\ turn' = 1
       /\ phase' # "deliver" => inbox' = NoMessages
  BY <1>2 DEF Deliver, AfterDeliver, AfterBeats
<1>15. /\ \A n, p \in Nodes : << n, p >> \notin Done'
       /\ InRound' => turn' <= JoinedCount'
  BY <1>14, NoneDone
<1>16. Rounds(nodes', line', Top', Online', Pending', Done')
  <2>1. \A n, p \in Nodes : /\ << n, p >> \in {} => << n, p >> \in Pending'
                            /\ << n, p >> \in Done' => << n, p >> \in {}
    BY <1>15
  <2>2. SameRecords(nodes', nodes')
    BY DEF SameRecords
  <2> QED
    BY <1>12, <1>13, <2>1, <2>2, QuietRound
<1> QED
  BY <1>14, <1>15, <1>16 DEF RoundInv, SharesWithHeard, Rounds
-----------------------------------------------------------------------------
(* The steps of a round. *)

LEMMA RoundStep ==
    ASSUME TypeOK, TypeOK', InRound, inbox = NoMessages, UNCHANGED << network, status >>,
           NEW pend, NEW done,
           Rounds(nodes', LineOf(nodes', toSend, inbox), Top, Online, pend, done),
           \A n, p \in Nodes : << n, p >> \in pend => << n, p >> \in Pending',
           \A n, p \in Nodes : << n, p >> \in Done' => << n, p >> \in done,
           phase' \in {"beat", "share", "collect", "events", "consume"},
           phase' \notin {"beat", "share"} => turn' = 1,
           InRound' => turn' <= JoinedCount',
           SharesWithHeard'
    PROVE  RoundInv'
<1>1. /\ nodes' \in [Nodes -> NodeState] /\ Top' \in Nat \ {0} /\ line' \in [0 .. Top' -> Batch]
  <2>1. nodes' \in [Nodes -> NodeState] /\ toSend' \in Seq(Batch) /\ inbox' \in Batch
    BY DEF TypeOK
  <2>2. Top' = Len(toSend') + 1 /\ line' = LineOf(nodes', toSend', inbox')
    BY DEF Top, line
  <2> QED
    BY <2>1, <2>2, LineType
<1>2. /\ Top' = Top /\ line' = LineOf(nodes', toSend, inbox) /\ Online' = Online
      /\ inbox' = NoMessages
  BY DEF network, status, Top, line, Online
<1>3. Rounds(nodes', line', Top', Online', pend, done)
  BY <1>2
<1>4. Rounds(nodes', line', Top', Online', Pending', Done')
  <2>1. SameRecords(nodes', nodes')
    BY DEF SameRecords
  <2> QED
    BY <1>1, <1>3, <2>1, QuietRound
<1> QED
  BY <1>2, <1>4 DEF RoundInv, Rounds

LEMMA TurnPairs ==
    ASSUME TypeOK
    PROVE  /\ \A n, p \in Nodes : << n, p >> \in StillPending <=> << n, p >> \in Pending /\ n # InTurn
           /\ \A n, p \in Nodes : << n, p >> \in ThenDone <=>
                << n, p >> \in Done \/ (n = InTurn /\ p \in PeersInTurn)
<1>1. \A n, p \in Nodes : << n, p >> \in StillPending <=> << n, p >> \in Pending /\ n # InTurn
  BY DEF StillPending
<1>2. \A n, p \in Nodes : << n, p >> \in ThenDone <=>
                << n, p >> \in Done \/ (n = InTurn /\ p \in PeersInTurn)
  BY DEF ThenDone
<1> QED
  BY <1>1, <1>2

LEMMA InRoundFacts ==
    ASSUME RoundInv, InRound
    PROVE  /\ inbox = NoMessages /\ turn <= JoinedCount
           /\ Rounds(nodes, line, Top, Online, Pending, Done)
           /\ phase # "deliver"
BY DEF RoundInv, InRound

LEMMA BeatOnlyRound ==
    ASSUME TypeOK, TypeOK', RoundInv, BeatOnly
    PROVE  RoundInv'
<1>1. /\ phase = "beat" /\ NextTurn /\ UNCHANGED << network, status, now >>
      /\ nodes' = [nodes EXCEPT ![InTurn] = Beaten]
  BY DEF BeatOnly
<1>2. InRound /\ inbox = NoMessages /\ turn <= JoinedCount
      /\ Rounds(nodes, line, Top, Online, Pending, Done)
  BY <1>1, InRoundFacts DEF InRound
<1>3. Rounds(nodes', LineOf(nodes', toSend, inbox), Top, Online, StillPending, ThenDone)
  BY <1>1, <1>2, BeatRound
<1>4. /\ \A n, p \in Nodes : << n, p >> \in Pending /\ n # InTurn => << n, p >> \in Pending'
      /\ \A n, p \in Nodes : << n, p >> \in Done' => << n, p >> \in Done \/
                               (n = InTurn /\ p \in PeersInTurn)
      /\ phase' \in {"beat", "share", "collect", "events", "consume"}
      /\ phase' \notin {"beat", "share"} => turn' = 1
      /\ InRound' => turn' <= JoinedCount'
  BY <1>1, <1>2, TurnEnds
<1>5. /\ \A n, p \in Nodes : << n, p >> \in StillPending => << n, p >> \in Pending'
      /\ \A n, p \in Nodes : << n, p >> \in Done' => << n, p >> \in ThenDone
  BY <1>4, TurnPairs
<1>6. SharesWithHeard'
  BY <1>1 DEF SharesWithHeard, NextTurn, AfterBeats
<1> QED
  BY <1>1, <1>2, <1>3, <1>4, <1>5, <1>6, RoundStep

LEMMA BeatThenShareRound ==
    ASSUME TypeOK, TypeOK', RoundInv, BeatThenShare
    PROVE  RoundInv'
<1>1. /\ phase = "beat" /\ phase' = "share" /\ turn' = turn /\ UNCHANGED << network, status, now >>
      /\ nodes' = [nodes EXCEPT ![InTurn] = Beaten]
      /\ deficit' \subseteq HeardPeers(Beaten)
  BY DEF BeatThenShare
<1>2. InRound /\ inbox = NoMessages /\ turn <= JoinedCount
      /\ Rounds(nodes, line, Top, Online, Pending, Done)
  BY <1>1, InRoundFacts DEF InRound
<1>3. Rounds(nodes', LineOf(nodes', toSend, inbox), Top, Online, StillPending, ThenDone)
  BY <1>1, <1>2, BeatRound
<1>4. /\ \A n, p \in Nodes : << n, p >> \in Pending /\ n # InTurn => << n, p >> \in Pending'
      /\ \A n, p \in Nodes : << n, p >> \in Done' => << n, p >> \in Done \/
                               (n = InTurn /\ p \in PeersInTurn)
      /\ phase' \in {"beat", "share", "collect", "events", "consume"}
      /\ phase' \notin {"beat", "share"} => turn' = 1
      /\ InRound' => turn' <= JoinedCount'
  BY <1>1, <1>2, TurnEnds
<1>5. /\ \A n, p \in Nodes : << n, p >> \in StillPending => << n, p >> \in Pending'
      /\ \A n, p \in Nodes : << n, p >> \in Done' => << n, p >> \in ThenDone
  BY <1>4, TurnPairs
<1>6. SharesWithHeard'
  <2>1. InTurn' = InTurn /\ PeersInTurn' = PeersInTurn
    <3>1. JoinedCount' = JoinedCount
      BY <1>1 DEF JoinedCount, InSetup
    <3> QED
      BY <1>1, <3>1 DEF InTurn, PeersInTurn, Joined
  <2>2. nodes'[InTurn] = Beaten
    BY <1>1, InTurnType DEF TypeOK
  <2>3. \A p \in deficit' : p \in PeersInTurn /\ Beaten.heard[p].kind # "none"
    BY <1>1 DEF HeardPeers
  <2> QED
    BY <2>1, <2>2, <2>3 DEF SharesWithHeard, Met
<1> QED
  BY <1>1, <1>2, <1>3, <1>4, <1>5, <1>6, RoundStep

LEMMA BeatAndGiveRound ==
    ASSUME TypeOK, TypeOK', RoundInv, BeatAndGive
    PROVE  RoundInv'
<1>1. PICK p \in FirstAsker(Beaten, PeersInTurn), b \in Largest(Beaten.keyspaces) :
        IF SplitThrows(b) THEN Dies
        ELSE /\ nodes' = [nodes EXCEPT ![InTurn] = giveHalf(Beaten, InTurn, p, b, now)]
             /\ NextTurn
             /\ UNCHANGED << network, status, now >>
  BY DEF BeatAndGive
<1>2. phase = "beat" /\ InRound /\ inbox = NoMessages /\ turn <= JoinedCount
      /\ Rounds(nodes, line, Top, Online, Pending, Done)
  BY InRoundFacts DEF InRound, BeatAndGive
<1>3. CASE SplitThrows(b)
  BY <1>1, <1>2, <1>3, DiesRound
<1>4. CASE ~SplitThrows(b)
  <2>1. /\ nodes \in [Nodes -> NodeState] /\ now \in Nat /\ InTurn \in Nodes
        /\ PeersInTurn \subseteq Nodes /\ Beaten \in NodeState
    BY InTurnType, BeatenType DEF TypeOK
  <2>2. /\ nodes' = [nodes EXCEPT ![InTurn] = giveHalf(Beaten, InTurn, p, b, now)]
        /\ NextTurn /\ UNCHANGED << network, status, now >>
    BY <1>1, <1>4
  <2>3. p \in PeersInTurn /\ Beaten.heard[p].kind # "none" /\ b \in Beaten.keyspaces
    BY DEF FirstAsker, Askers, Largest, FullBlocks
  <2> DEFINE nds == [nodes EXCEPT ![InTurn] = Beaten]
             st3 == giveHalf(Beaten, InTurn, p, b, now)
             own == (Beaten.keyspaces \ {b}) \cup {FirstHalf(b), SecondHalf(b)}
  <2>4. own \in SUBSET Block /\ {SecondHalf(b)} \in SUBSET Block
    BY <2>1, <2>3, NodeStateFields, HalvesType
  <2>5. st3 = sendCustKeyspace([Beaten EXCEPT !.keyspaces = own], InTurn, p, {SecondHalf(b)}, now)
    BY Zenon DEF giveHalf, splitKeyspace
  <2>6. /\ nds \in [Nodes -> NodeState] /\ nds[InTurn] = Beaten
        /\ nodes' = [nds EXCEPT ![InTurn] = st3]
    <3> HIDE DEF st3
    <3>1. nodes' = [nodes EXCEPT ![InTurn] = st3]
      BY <2>2 DEF st3
    <3> QED
      BY <2>1, <3>1
  <2>7. Rounds(nds, LineOf(nds, toSend, inbox), Top, Online, StillPending, ThenDone)
    BY <1>2, BeatRound
  <2> HIDE DEF own, st3, nds
  <2>8. Sends(nds[InTurn], st3, InTurn, {p}, {custMessage(nds[InTurn], InTurn, p, {SecondHalf(b)})}, now)
    <3>1. Sends(Beaten, st3, InTurn, {p}, {custMessage(Beaten, InTurn, p, {SecondHalf(b)})}, now)
      BY <2>1, <2>3, <2>4, <2>5, CustSends
    <3> QED
      BY <2>6, <3>1
  <2>9. Rounds(nodes', LineOf(nodes', toSend, inbox), Top, Online, StillPending, ThenDone)
    <3>1. \A n, q \in Nodes : /\ << n, q >> \in Pending /\ n # InTurn => << n, q >> \in StillPending
                              /\ << n, q >> \in Done => << n, q >> \in ThenDone
      BY TurnPairs
    <3>2. Met(nds, InTurn, p)
      BY <2>3, <2>6 DEF Met
    <3> DEFINE nds3 == [nds EXCEPT ![InTurn] = st3]
    <3>3. Rounds(nds3, LineOf(nds3, toSend, inbox), Top, Online, StillPending, ThenDone)
      BY <1>2, <2>3, <2>6, <2>7, <2>8, <3>1, <3>2, GiveRound
    <3> HIDE DEF nds3
    <3>4. nodes' = nds3
      BY <2>6 DEF nds3
    <3> QED
      BY <3>3, <3>4
  <2>10. /\ \A n, q \in Nodes : << n, q >> \in Pending /\ n # InTurn => << n, q >> \in Pending'
         /\ \A n, q \in Nodes : << n, q >> \in Done' => << n, q >> \in Done \/
                                  (n = InTurn /\ q \in PeersInTurn)
         /\ phase' \in {"beat", "share", "collect", "events", "consume"}
         /\ phase' \notin {"beat", "share"} => turn' = 1
         /\ InRound' => turn' <= JoinedCount'
    BY <1>2, <2>2, TurnEnds
  <2>11. /\ \A n, q \in Nodes : << n, q >> \in StillPending => << n, q >> \in Pending'
         /\ \A n, q \in Nodes : << n, q >> \in Done' => << n, q >> \in ThenDone
    BY <2>10, TurnPairs
  <2>12. SharesWithHeard'
    BY <1>2, <2>2 DEF SharesWithHeard, NextTurn, AfterBeats
  <2> QED
    BY <1>2, <2>2, <2>9, <2>10, <2>11, <2>12, RoundStep
<1> QED
  BY <1>3, <1>4

LEMMA ShareDigitRound ==
    ASSUME TypeOK, TypeOK', RoundInv, ShareDigit
    PROVE  RoundInv'
<1>0. PICK p \in Neediest, w \in Strides :
        \E s \in Shares(nodes[InTurn].keyspaces, w) :
          IF ShareThrows(s) THEN Dies
          ELSE /\ nodes' = [nodes EXCEPT ![InTurn] = shareBlocks(@, InTurn, p, s, now)]
               /\ UNCHANGED << network, status, now, phase, turn, deficit, issued >>
  BY DEF ShareDigit
<1>1. PICK s \in Shares(nodes[InTurn].keyspaces, w) :
        IF ShareThrows(s) THEN Dies
        ELSE /\ nodes' = [nodes EXCEPT ![InTurn] = shareBlocks(@, InTurn, p, s, now)]
             /\ UNCHANGED << network, status, now, phase, turn, deficit, issued >>
  BY <1>0
<1>2. phase = "share" /\ InRound /\ inbox = NoMessages /\ turn <= JoinedCount
      /\ Rounds(nodes, line, Top, Online, Pending, Done) /\ SharesWithHeard
  BY InRoundFacts DEF InRound, ShareDigit, RoundInv
<1>3. CASE ShareThrows(s)
  BY <1>1, <1>2, <1>3, DiesRound
<1>4. CASE ~ShareThrows(s)
  <2> DEFINE st  == nodes[InTurn]
             own == (st.keyspaces \ s.cut) \cup UNION { Chain(b, s.down) : b \in s.cut }
             st2 == shareBlocks(st, InTurn, p, s, now)
  <2>1. /\ nodes \in [Nodes -> NodeState] /\ now \in Nat /\ InTurn \in Nodes
        /\ st \in NodeState /\ st.keyspaces \in SUBSET Block
    BY InTurnType, NodeStateFields DEF TypeOK
  <2>2. /\ nodes' = [nodes EXCEPT ![InTurn] = st2]
        /\ UNCHANGED << network, status, now, phase, turn, deficit, issued >>
    BY <1>1, <1>4
  <2>3. p \in PeersInTurn /\ Met(nodes, InTurn, p) /\ p \in Nodes
    BY <1>2, InTurnType DEF Neediest, SharesWithHeard
  <2>4. own \in SUBSET Block /\ s.sent \in SUBSET Block
    <3>1. s \in ShareType(st.keyspaces)
      BY <2>1, SharesType
    <3>2. \A b \in s.cut : Chain(b, s.down) \subseteq Block
      BY <2>1, <3>1, ChainType DEF ShareType
    <3> QED
      BY <2>1, <3>1, <3>2 DEF ShareType
  <2>5. st2 = sendCustKeyspace([st EXCEPT !.keyspaces = own], InTurn, p, s.sent, now)
    BY Zenon DEF shareBlocks
  <2> HIDE DEF own, st2
  <2>6. Sends(st, st2, InTurn, {p}, {custMessage(st, InTurn, p, s.sent)}, now)
    BY <2>1, <2>3, <2>4, <2>5, CustSends
  <2>7. st2.heard = st.heard
    BY <2>6 DEF Sends
  <2>8. Rounds(nodes', LineOf(nodes', toSend, inbox), Top, Online, Pending, Done)
    <3> DEFINE nds3 == [nodes EXCEPT ![InTurn] = st2]
    <3>1. Rounds(nodes, LineOf(nodes, toSend, inbox), Top, Online, Pending, Done)
      BY <1>2 DEF line
    <3>2. Rounds(nds3, LineOf(nds3, toSend, inbox), Top, Online, Pending, Done)
      BY <1>2, <2>1, <2>3, <2>6, <3>1, GiveRound
    <3> HIDE DEF nds3
    <3>3. nodes' = nds3
      BY <2>2 DEF nds3
    <3> QED
      BY <3>2, <3>3
  <2>9. JoinedCount' = JoinedCount /\ ToBeat' = ToBeat /\ Joined' = Joined /\ InRound' = InRound
        /\ InTurn' = InTurn /\ phase' = "share" /\ turn' = turn
    <3>1. JoinedCount' = JoinedCount
      BY <2>2 DEF JoinedCount, InSetup
    <3> QED
      BY <1>2, <2>2, <3>1 DEF ToBeat, Joined, InRound, InTurn
  <2>10. /\ \A n, q \in Nodes : << n, q >> \in Pending => << n, q >> \in Pending'
         /\ \A n, q \in Nodes : << n, q >> \in Done' => << n, q >> \in Done
    BY <2>9 DEF Pending, Done
  <2>11. SharesWithHeard'
    <3>1. PeersInTurn' = PeersInTurn /\ deficit' = deficit
      BY <2>2, <2>9 DEF PeersInTurn
    <3>2. nodes'[InTurn].heard = nodes[InTurn].heard
      BY <2>1, <2>2, <2>7
    <3> QED
      BY <1>2, <2>9, <3>1, <3>2 DEF SharesWithHeard, Met
  <2> QED
    BY <1>2, <2>2, <2>8, <2>9, <2>10, <2>11, RoundStep
<1> QED
  BY <1>3, <1>4

LEMMA ShareNextRound ==
    ASSUME TypeOK, TypeOK', RoundInv, ShareNext
    PROVE  RoundInv'
<1>1. /\ phase = "share" /\ deficit' \subseteq deficit
      /\ NextTurn \/ (phase' = "share" /\ turn' = turn)
      /\ UNCHANGED << nodes, network, status, now >>
  BY DEF ShareNext
<1>2. InRound /\ inbox = NoMessages /\ turn <= JoinedCount
      /\ Rounds(nodes, line, Top, Online, Pending, Done) /\ SharesWithHeard
  BY <1>1, InRoundFacts DEF InRound, RoundInv
<1>3. /\ \A n, p \in Nodes : << n, p >> \in Pending => << n, p >> \in Pending'
      /\ \A n, p \in Nodes : << n, p >> \in Done' => << n, p >> \in Done
      /\ phase' \in {"beat", "share", "collect", "events", "consume"}
      /\ phase' \notin {"beat", "share"} => turn' = 1
      /\ InRound' => turn' <= JoinedCount'
  BY <1>1, <1>2, TurnEnds
<1>4. Rounds(nodes', LineOf(nodes', toSend, inbox), Top, Online, Pending, Done)
  BY <1>1, <1>2 DEF line
<1>5. SharesWithHeard'
  <2>1. CASE phase' # "share"
    BY <2>1 DEF SharesWithHeard
  <2>2. CASE phase' = "share"
    <3>1. turn' = turn
      BY <1>1, <2>2 DEF NextTurn, AfterBeats
    <3>2. JoinedCount' = JoinedCount
      BY <1>1, <2>2 DEF JoinedCount, InSetup
    <3>3. InTurn' = InTurn /\ PeersInTurn' = PeersInTurn
      BY <3>1, <3>2 DEF InTurn, PeersInTurn, Joined
    <3> QED
      BY <1>1, <1>2, <3>3 DEF SharesWithHeard
  <2> QED
    BY <2>1, <2>2
<1> QED
  BY <1>1, <1>2, <1>3, <1>4, <1>5, RoundStep
-----------------------------------------------------------------------------
(* The invariant. *)

LEMMA InitRound == Init => RoundInv
<1> SUFFICES ASSUME Init PROVE RoundInv
  OBVIOUS
<1>1. TypeOK
  BY InitTypeOK
<1>2. toSend = << >> /\ inbox = NoMessages /\ phase = "add" /\ turn = 1
  BY DEF Init
<1>3. Top = 1 /\ line \in [0 .. 1 -> Batch] /\ line[0] = NoMessages
  BY <1>1, <1>2, StateLine DEF Top
<1>4. \A n \in Nodes : /\ nodes[n].queue = << >> /\ nodes[n].confirm = {}
                       /\ \A p \in Nodes : nodes[n].heard[p] = NoData /\ nodes[n].nextId[p] = 1
  BY DEF Init, NewNode
<1>5. line[1] = NoMessages
  <2>1. [n \in Nodes |-> nodes[n].queue] = NoMessages
    BY <1>4, Zenon DEF NoMessages
  <2> QED
    BY <1>1, <1>3, <2>1, StateLine
<1>6. \A l, n, m : ~ Waits(line, Top, l, n, m)
  BY <1>3, <1>5 DEF Waits, Way, NoMessages
<1>7. \A l \in 0 .. Top, n \in Nodes : \A p : ~ Greets(line, l, n, p)
  BY <1>6, GreetsFlat
<1>8. Pending = {} /\ Done = {} /\ ~InRound
  BY <1>2, Pairs DEF InRound
<1>9. SoundInv(nodes, line, Top, {})
  BY <1>4, <1>6, SoundFlat
<1>10. CountInv(nodes, {}) /\ KeptInv(nodes) /\ RatioInv(nodes)
  BY <1>4 DEF CountInv, KeptInv, RatioInv, Met, NoData
<1>11. MeetInv(nodes, line, Top, Online, {}, {})
  <2>1. \A n, p \in Nodes : ~Met(nodes, n, p)
    BY <1>4 DEF Met, NoData
  <2>2. 0 \in 0 .. Top /\ \A l \in 1 .. Top : l \in 0 .. Top
    BY <1>3
  <2> QED
    BY <1>7, <2>1, <2>2 DEF MeetInv
<1> QED
  BY <1>2, <1>8, <1>9, <1>10, <1>11 DEF RoundInv, Rounds, SharesWithHeard

LEMMA NextRound ==
    ASSUME TypeOK, TypeOK', RoundInv, [Next]_vars
    PROVE  RoundInv'
<1>same. ASSUME UNCHANGED nodes
         PROVE  SameRecords(nodes, nodes') /\ \A n \in Nodes : nodes'[n].queue = nodes[n].queue
  BY <1>same DEF SameRecords
<1>1. CASE AddNode
  <2>1. /\ phase = "add" /\ turn' = turn /\ UNCHANGED << nodes, toSend, inbox >>
        /\ phase' \in {"beat", "collect"}
    BY <1>1 DEF AddNode, AfterAdd, network
  <2>2. turn' = 1
    BY <2>1 DEF RoundInv
  <2> QED
    BY <1>same, <2>1, <2>2, QuietRoundStep
<1>2. CASE BeatAndGive
  BY <1>2, BeatAndGiveRound
<1>3. CASE BeatOnly
  BY <1>3, BeatOnlyRound
<1>4. CASE BeatThenShare
  BY <1>4, BeatThenShareRound
<1>5. CASE ShareDigit
  BY <1>5, ShareDigitRound
<1>6. CASE ShareNext
  BY <1>6, ShareNextRound
<1>7. CASE Collect
  BY <1>7, CollectRound
<1>8. CASE Deliver
  BY <1>8, DeliverRound
<1>9. CASE Events
  <2>1. phase = "events" /\ phase' = "consume" /\ UNCHANGED << nodes, toSend, inbox >>
    BY <1>9 DEF Events, network
  <2> QED
    BY <1>same, <2>1, QuietRoundStep
<1>10. CASE ConsumeKey
  <2>1. PICK b \in minimumKeyspace(nodes[InTurn]) :
          nodes' = [nodes EXCEPT ![InTurn] = getNextKey(@, b)]
    BY <1>10 DEF ConsumeKey
  <2>2. /\ phase = "consume" /\ UNCHANGED << toSend, inbox >>
        /\ phase' \in {"consume", "tick"} /\ (phase' # "consume" => turn' = 1)
    BY <1>10 DEF ConsumeKey, NextConsumer, network
  <2>3. nodes \in [Nodes -> NodeState] /\ InTurn \in Nodes
    BY InTurnType DEF TypeOK
  <2>4. /\ SameRecords(nodes, nodes')
        /\ \A n \in Nodes : nodes'[n].queue = nodes[n].queue
    <3> DEFINE st2 == getNextKey(nodes[InTurn], b)
    <3>1. \A n \in Nodes : nodes'[n] = IF n = InTurn THEN st2 ELSE nodes[n]
      BY <2>1, <2>3
    <3>2. /\ st2.heard = nodes[InTurn].heard /\ st2.nextId = nodes[InTurn].nextId
          /\ st2.confirm = nodes[InTurn].confirm /\ st2.queue = nodes[InTurn].queue
      <4>1. \A st \in NodeState : \A own : LET st3 == [st EXCEPT !.keyspaces = own]
              IN  /\ st3.heard = st.heard /\ st3.nextId = st.nextId
                  /\ st3.confirm = st.confirm /\ st3.queue = st.queue
        BY DEF NodeState
      <4> QED
        BY <2>3, <4>1 DEF getNextKey
    <3> HIDE DEF st2
    <3> QED
      BY <3>1, <3>2 DEF SameRecords
  <2> QED
    BY <2>2, <2>4, QuietRoundStep
<1>11. CASE ConsumeNothing
  <2>1. /\ phase = "consume" /\ UNCHANGED << nodes, toSend, inbox >>
        /\ phase' \in {"consume", "tick"} /\ (phase' # "consume" => turn' = 1)
    BY <1>11 DEF ConsumeNothing, NextConsumer, network
  <2> QED
    BY <1>same, <2>1, QuietRoundStep
<1>12. CASE Tick
  <2>1. /\ phase = "tick" /\ turn' = turn /\ UNCHANGED << nodes, toSend, inbox >>
        /\ phase' \in {"add", "done", "collect"}
    BY <1>12 DEF Tick, AfterTick, network
  <2>2. turn' = 1
    BY <2>1 DEF RoundInv
  <2> QED
    BY <1>same, <2>1, <2>2, QuietRoundStep
<1>13. CASE UNCHANGED vars
  <2>1. /\ UNCHANGED << nodes, toSend, inbox, online, now, phase, turn, deficit >>
    BY <1>13 DEF vars
  <2>2. /\ line' = line /\ Top' = Top /\ Online' = Online /\ Pending' = Pending /\ Done' = Done
        /\ InRound' = InRound /\ JoinedCount' = JoinedCount /\ SharesWithHeard' = SharesWithHeard
    <3>1. JoinedCount' = JoinedCount
      BY <2>1 DEF JoinedCount, InSetup
    <3>2. Joined' = Joined /\ InRound' = InRound
      BY <2>1, <3>1 DEF Joined, InRound
    <3>3. ToBeat' = ToBeat /\ PeersInTurn' = PeersInTurn /\ InTurn' = InTurn
      BY <2>1, <3>1, <3>2 DEF ToBeat, PeersInTurn, InTurn
    <3> QED
      BY <2>1, <3>1, <3>2, <3>3 DEF line, Top, Online, Pending, Done, SharesWithHeard
  <2> QED
    BY <2>1, <2>2 DEF RoundInv
<1> QED
  BY <1>1, <1>2, <1>3, <1>4, <1>5, <1>6, <1>7, <1>8, <1>9, <1>10, <1>11, <1>12, <1>13
  DEF Next

(* What the invariant says of the message that is delivered next. *)
LEMMA NothingErasedLast ==
    TypeOK /\ RoundInv => NeverPastEnd /\ RatiosReadable
<1> SUFFICES ASSUME TypeOK, RoundInv PROVE NeverPastEnd /\ RatiosReadable
  OBVIOUS
<1>1. RatiosReadable
  BY DEF RatiosReadable, RoundInv, RatioInv
<1>2. ASSUME NEW a \in NextSender, NEW m \in FirstOf(Head(inbox[a]))
      PROVE  LET st == nodes[m.dst] IN
             ~stepsPastEnd(st.confirm, m.src, heardAfter(st.heard[m.src], m).ack)
  <2>1. /\ nodes \in [Nodes -> NodeState] /\ Top \in Nat \ {0}
        /\ line \in [0 .. Top -> Batch] /\ line[0] = inbox
    BY StateLine DEF TypeOK
  <2>2. a \in Nodes /\ inbox[a] # << >> /\ m \in Head(inbox[a])
    BY <1>2 DEF NextSender, FirstOf
  <2>3. Way(line, Top, 0, a, 1, m)
    BY <2>1, <2>2, WayRest
  <2>4. m \in Message
    BY <2>1, <2>3, WayType
  <2>5. phase = "deliver"
    BY <2>2 DEF RoundInv, NoMessages
  <2>6. Rounds(nodes, line, Top, Online, {}, {})
    <3>1. Pending = {} /\ Done = {}
      BY <2>5, Pairs DEF InRound
    <3> QED
      BY <2>5, <3>1 DEF RoundInv
  <2>7. Sound(nodes, {}, m.src, m)
    <3>1. Sound(nodes, {}, a, m)
      BY <2>3, <2>6, SoundFlat DEF Rounds, Waits
    <3> QED
      BY <3>1 DEF Sound
  <2> DEFINE h == heardAfter(nodes[m.dst].heard[m.src], m)
  <2>8. PICK f \in nodes[m.dst].confirm : h.ack < f.msg.id
    BY <2>1, <2>4, <2>6, <2>7, LastKept DEF Rounds
  <2>9. h.ack \in Nat /\ m.dst \in Nodes
    <3>1. m.dst \in Nodes /\ m.src \in Nodes
      BY <2>4 DEF Message
    <3>2. nodes[m.dst].heard[m.src] \in Heard
      BY <2>1, <3>1, CountTypes
    <3>3. h \in Heard
      BY <2>4, <3>2, HeardAfterType
    <3> QED
      BY <3>1, <3>3 DEF Heard
  <2> HIDE DEF h
  <2>10. ASSUME NEW e \in nodes[m.dst].confirm, Acked(e, m.src, h.ack), f.msg.id <= e.msg.id
         PROVE  FALSE
    <3>1. e.msg.id \in Nat /\ f.msg.id \in Nat
      BY <2>1, <2>9, FieldTypes
    <3>2. e.msg.id <= h.ack
      BY <2>10, <2>9, <3>1 DEF Acked
    <3> QED
      BY <2>8, <2>9, <2>10, <3>1, <3>2
  <2>11. ~stepsPastEnd(nodes[m.dst].confirm, m.src, h.ack)
    BY <2>8, <2>10 DEF stepsPastEnd, erased, visited
  <2> QED
    BY <2>11 DEF h
<1> QED
  BY <1>1, <1>2 DEF NeverPastEnd

(* In every round, with any number of outages: a message acknowledges only *)
(* what has been sent, the last message sent to a peer is still kept, and  *)
(* two nodes hear of each other at the same delivery (receiveMessage,      *)
(* heartbeat, sendCustKeyspace).                                           *)
THEOREM RoundsKept == Spec => []RoundInv
<1>1. TypeOK /\ RoundInv /\ [Next]_vars /\ TypeOK' => RoundInv'
  BY NextRound
<1> QED
  BY <1>1, InitRound, TypeCorrect, PTL DEF Spec

(* However often nodes go offline, and whatever is lost or sent again, the *)
(* confirmation loop of receiveMessage never erases the last entry of      *)
(* confirmMsg, so that its second increment never passes the end.          *)
THEOREM NeverSteppedPastEnd == Spec => []NeverPastEnd
BY RoundsKept, TypeCorrect, NothingErasedLast, PTL

(* Whatever arrives first from a peer, in any order of losses, what is     *)
(* kept of it has the ratios that heartbeat() and adak() read.             *)
THEOREM RatiosAlwaysReadable == Spec => []RatiosReadable
BY RoundsKept, TypeCorrect, NothingErasedLast, PTL
=============================================================================
