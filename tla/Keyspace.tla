------------------------------ MODULE Keyspace ------------------------------
(***************************************************************************)
(* A keyspace block (class Keyspace).  A block hands out the keys          *)
(* start, start + 2^suffix, start + 2*2^suffix, ... below its end.  The    *)
(* code only ever uses the suffix as the power 2^suffix, so the model      *)
(* keeps that power, the stride, and a block is "larger" when its stride   *)
(* is smaller.  UINT_MAX, the end of every full block, is the constant     *)
(* MaxKey: it is itself never handed out, since a key is below its end.    *)
(***************************************************************************)
EXTENDS Integers

CONSTANT MaxKey    \* UINT_MAX scaled down; the program uses 2^32 - 1

ASSUME MaxKeyAssumption == MaxKey \in Nat \ {0}

Key == 0 .. (MaxKey - 1)

Block == [start : Nat, end : Nat, stride : Nat \ {0}]

(* Keyspace(0, UINT_MAX, 0), the block the root node is created with. *)
RootBlock == [start |-> 0, end |-> MaxKey, stride |-> 1]

(* The test the code writes getEnd() == UINT_MAX; what is not a full block *)
(* is a sub-block.                                                         *)
IsFull(b) == b.end = MaxKey

isKeyAvailable(b) == b.start < b.end

(* The keys that a block still has to give. *)
Keys(b) == { k \in b.start .. (b.end - 1) :
                \E i \in 0 .. MaxKey : k = b.start + i * b.stride }

KeysOf(blocks) == UNION { Keys(b) : b \in blocks }

(* What is left of a full block once getNextAvailableKey has returned      *)
(* b.start.  (For a sub-block percent is 0 and the conversion of 1.0/0 to  *)
(* unsigned long is undefined; no block of this model is a sub-block.)     *)
AfterNextKey(b) == [b EXCEPT !.start = b.start + b.stride]

(* The two halves that Node::splitKeyspace makes of a block.  The first    *)
(* operator is a mutant: a second half that starts where the first does.   *)
SecondHalfNotShifted(b) == [b EXCEPT !.stride = 2 * b.stride]

FirstHalf(b)  == [b EXCEPT !.stride = 2 * b.stride]
SecondHalf(b) == [b EXCEPT !.start = b.start + b.stride,
                           !.stride = 2 * b.stride]

(* splitKeyspace throws an int, which nothing catches, when either half    *)
(* has no key left.                                                        *)
SplitThrows(b) == ~isKeyAvailable(FirstHalf(b)) \/ ~isKeyAvailable(SecondHalf(b))
=============================================================================
