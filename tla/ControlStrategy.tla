--------------------------- MODULE ControlStrategy ---------------------------
(***************************************************************************)
(* What class ControlStrategy decides for one node.  Its two mechanisms    *)
(* that move keyspace are here: giving half of the largest block to a peer *)
(* that reports it has none, and block sharing by binary expansion.  The   *)
(* third, sub-block sharing, never finds a recipient (subBlocks leaves its *)
(* list empty), so adak ends with block sharing.                           *)
(*                                                                         *)
(* The ratios that adak compares are floating-point quotients of creation  *)
(* counts, often 0/0: which peers are in deficit and which binary digits   *)
(* their share has are choices of module Simulation.  What is done with a  *)
(* digit is computed here.                                                 *)
(***************************************************************************)
EXTENDS Node

LOCAL FSE == INSTANCE FiniteSetsExt

CONSTANT FinestStride     \* 2^accuracy (longTermPrecision), the smallest share

IsPowerOf2(q) == \A d \in 2 .. q : q % d = 0 => d % 2 = 0

ASSUME FinestStrideAssumption == FinestStride \in Nat \ {0} /\ IsPowerOf2(FinestStride)

Strides == { q \in 1 .. FinestStride : IsPowerOf2(q) }
-----------------------------------------------------------------------------
(* Giving half of the largest block. *)

FullBlocks(blocks) == { b \in blocks : IsFull(b) }

Largest(blocks) ==
    { b \in FullBlocks(blocks) : \A c \in FullBlocks(blocks) : b.stride <= c.stride }

(* The peers that adak would give half to: they have been heard, have no   *)
(* keyspace message pending, and reported an empty keyspace.               *)
Askers(st, peers) ==
    { p \in peers : /\ st.heard[p].kind # "none"
                    /\ canSendKeyspace(st, p)
                    /\ st.heard[p].empty }

(* The first of them in UUID order, when there is a full block to split. *)
FirstAsker(st, peers) ==
    { p \in Askers(st, peers) : /\ FullBlocks(st.keyspaces) # {}
                                /\ \A q \in Askers(st, peers) : p <= q }

(* splitKeyspace(largest), then sendCustKeyspace of the new half. *)
giveHalf(st, n, p, b, now) ==
    sendCustKeyspace(splitKeyspace(st, b), n, p, {SecondHalf(b)}, now)
-----------------------------------------------------------------------------
(* Block sharing.  Splitting a block again and again, each time its second *)
(* half, down to stride w leaves one piece for every stride on the way and *)
(* a last piece of stride w.                                               *)

Piece(b, q) == [b EXCEPT !.start = b.start + (q \div 2) - b.stride, !.stride = q]
LastPiece(b, w) == [b EXCEPT !.start = b.start + w - b.stride, !.stride = w]

Chain(b, w) ==
    { Piece(b, q) : q \in { s \in Strides : 2 * b.stride <= s /\ s <= w } }
      \cup { LastPiece(b, w) }

(* Blocks count in units of the finest share, truncated to an int. *)
Units(b) == FinestStride \div b.stride
TotalUnits(blocks) == FSE!MapThenSumSet(Units, blocks)

(* The powers of two that add up to rest, which lies below FinestStride. *)
Digits(rest) == { d \in Strides : (rest \div d) % 2 = 1 }

(* Finishing off a need of rest units from b: b is split for the binary    *)
(* digits of rest that lie below its own, down to the stride of the last.  *)
(* A piece already listed is split again for the next digit, so all but    *)
(* the last are sent at half their size.                                   *)
FinishStrides(b, rest) ==
    { w \in Strides : /\ 2 * b.stride <= w
                      /\ \E d \in Digits(rest) : /\ w * d = FinestStride
                                                 /\ \A c \in Digits(rest) : d <= c }
FinishPieces(b, rest, w) ==
    { Piece(b, q) : q \in { s \in Strides : /\ 2 * b.stride <= s
                                            /\ s <= w
                                            /\ \E d \in Digits(rest) : s * d = 2 * FinestStride } }
      \cup { LastPiece(b, w) }

(* What one binary digit, that of stride w, does to a node's blocks: the   *)
(* blocks it splits (cut, into pieces of strides up to down) and those it  *)
(* sends.  The blocks are scanned in the order of a vector; the model      *)
(* allows for every order.                                                 *)
Smaller(blocks, w) == { b \in FullBlocks(blocks) : b.stride > w }

ShareOne(blocks, w) ==
    { [cut |-> {b}, down |-> w, sent |-> {LastPiece(b, w)}] :
        b \in FullBlocks(blocks) \ Smaller(blocks, w) }

Need(w) == FinestStride \div w

ShareSeveral(blocks, w) ==
    { [cut |-> {}, down |-> w, sent |-> T] :
        T \in { S \in SUBSET Smaller(blocks, w) :
                  \/ TotalUnits(S) = Need(w)
                  \/ S = FullBlocks(blocks) /\ TotalUnits(S) < Need(w) } }

Finish(b, T, rest) ==
    { [cut |-> {b}, down |-> v, sent |-> T \cup FinishPieces(b, rest, v)] :
        v \in FinishStrides(b, rest) }

ShareAndFinish(blocks, w) ==
    UNION { UNION { Finish(b, T, Need(w) - TotalUnits(T)) :
                b \in { c \in Smaller(blocks, w) \ T : TotalUnits(T) + Units(c) > Need(w) } } :
            T \in { S \in SUBSET Smaller(blocks, w) : TotalUnits(S) < Need(w) } }

Shares(blocks, w) ==
    ShareOne(blocks, w) \cup ShareSeveral(blocks, w) \cup ShareAndFinish(blocks, w)

ShareThrows(s) == \E b \in s.cut : \E c \in Chain(b, s.down) : ~isKeyAvailable(c)

shareBlocks(st, n, p, s, now) ==
    sendCustKeyspace([st EXCEPT !.keyspaces =
                         (@ \ s.cut) \cup UNION { Chain(b, s.down) : b \in s.cut }],
                     n, p, s.sent, now)
=============================================================================
