----------------------------- MODULE BlockSharing -----------------------------
(***************************************************************************)
(* How much block sharing gives to whom (adak).                            *)
(*                                                                         *)
(* Statistics tells when a node shares at all, ControlStrategy how a share *)
(* is made up of blocks; here is the loop over the shares.  The ratios are *)
(* whole numbers of some unit, or infinite: they are divided by what was   *)
(* created and by a ratio that is rounded to 0 until thousands of keys are *)
(* used.  Sums of fractions are compared with the divisions multiplied     *)
(* out, without the tolerance of 10^-6; where the outcome hangs on the     *)
(* rounding of doubles it is left open.  What is sent for a share may be   *)
(* more or less than the share: its digits are rounded, blocks finer than  *)
(* the accuracy count as nothing, and of a share that is not a number      *)
(* every digit is sent.                                                    *)
(***************************************************************************)
EXTENDS Lists

CONSTANTS
    Peers,       \* those heard from, numbered in the order of the map
    MaxRatio,    \* bound of the model on the finite ratios
    Held,        \* what the node has, in the smallest parts it gives away
    Threshold    \* below 1/Threshold of the deficit there is no share (20)

ASSUME BlockSharingAssumption ==
    /\ Peers \subseteq Nat /\ IsFiniteSet(Peers) /\ Peers # {}
    /\ {MaxRatio, Held, Threshold} \subseteq Nat \ {0}

VARIABLES
    prov,           \* the long ratio of each peer over what it reports created
    looksEmpty,     \* whether its ratios are both 1
    provShortRatio, \* what the node hears is created over its short ratio
    step,           \* "averages", "sharing" or "done", or "refused" (line 247)
    defs,           \* the peers in deficit that are not dismissed
    j,              \* the index in defs
    left            \* what the node has left

inputs == << prov, looksEmpty, provShortRatio >>
adakVars == << prov, looksEmpty, provShortRatio, step, defs, j, left >>

(* x/0, which is more than any average and than any ratio over 0.75.  A    *)
(* 0/0 is less than nothing and makes the average no number: for the       *)
(* comparisons it is infinite among prov, and 0 as provShortRatio.         *)
Infinite == 2 * MaxRatio
Ratio == 0..MaxRatio \cup {Infinite}

N == Cardinality(Peers)
avgProv == FSE!MapThenSumSet(LAMBDA p : prov[p], Peers)     \* N times the average

(* The node shares when it provides for more than the average.             *)
Richer == (\A p \in Peers : prov[p] # Infinite) /\ avgProv < N * provShortRatio

(* N times the deficit of a peer, and the peers in deficit. *)
def(p) == avgProv - N * prov[p]
Deficit ==
    { p \in Peers : def(p) > 0 /\ 4 * prov[p] < 3 * provShortRatio /\ ~looksEmpty[p] }

totalDef == FSE!MapThenSumSet(def, Deficit)

(* The part of its keyspace that the node gives away, a fraction: half of  *)
(* 105%, and never above 95%; of an infinite ratio it is no number.        *)
Excess == << provShortRatio * N - avgProv, provShortRatio * N >>
excessKeys ==
    IF 105 * Excess[1] > 2 * 95 * Excess[2] THEN << 95, 100 >>
    ELSE << 105 * Excess[1], 200 * Excess[2] >>

(* The share of a peer, a fraction.  Without a number it is never found to *)
(* be more than what is left.                                              *)
fractOfGlobalGive(p) ==
    << excessKeys[1] * def(p) * Held, excessKeys[2] * totalDef >>

tooMuch(p) ==
    /\ provShortRatio # Infinite
    /\ fractOfGlobalGive(p)[1] > left * fractOfGlobalGive(p)[2]
-----------------------------------------------------------------------------
SharesTypeOK ==
    /\ prov \in [Peers -> Ratio]
    /\ looksEmpty \in [Peers -> BOOLEAN]
    /\ provShortRatio \in Ratio
    /\ step \in {"averages", "sharing", "done", "refused"}
    /\ defs \in Seq(Peers) /\ j \in 1 .. Len(defs) + 1
    /\ left \in 0..Held

AdakInit ==
    /\ prov \in [Peers -> Ratio]
    /\ looksEmpty \in [Peers -> BOOLEAN]
    /\ provShortRatio \in Ratio
    /\ step = "averages"
    /\ defs = << >> /\ j = 1
    /\ left = Held

(* The node compares itself with the average and lists those in deficit,   *)
(* in the order of the map.                                                *)
FindDeficits ==
    /\ step = "averages"
    /\ IF Richer
       THEN step' = "sharing" /\ defs' \in Ascending(Deficit)
       ELSE step' = "done" /\ UNCHANGED defs
    /\ UNCHANGED << inputs, j, left >>

(* The need of a peer is too little, or exactly what is asked: then it is  *)
(* the rounding of doubles that decides.                                   *)
tooLittle(p) == Threshold * def(p) < totalDef
atMostTooLittle(p) == Threshold * def(p) <= totalDef

(* The next peer is dismissed for its little need: its place in the list   *)
(* is taken by the one after it.  Mutants: which is passed over then; and  *)
(* the peer stays in the list.                                             *)
DismissAndSkip ==
    /\ step = "sharing" /\ j <= Len(defs)
    /\ atMostTooLittle(defs[j])
    /\ defs' = SE!RemoveAt(defs, j) /\ j' = j + 1
    /\ UNCHANGED << inputs, step, left >>

DismissNobody ==
    /\ step = "sharing" /\ j <= Len(defs)
    /\ atMostTooLittle(defs[j])
    /\ UNCHANGED adakVars

Dismiss ==
    /\ step = "sharing" /\ j <= Len(defs)
    /\ atMostTooLittle(defs[j])
    /\ defs' = SE!RemoveAt(defs, j)
    /\ UNCHANGED << inputs, step, j, left >>

(* Or it is sent something for its share, which may be all that is left.   *)
Give ==
    /\ step = "sharing" /\ j <= Len(defs)
    /\ ~tooLittle(defs[j]) /\ ~tooMuch(defs[j])
    /\ left' \in 0..left
    /\ j' = j + 1
    /\ UNCHANGED << inputs, step, defs >>

(* Or its share is more than that, and adak is left.                       *)
Refuse ==
    /\ step = "sharing" /\ j <= Len(defs)
    /\ ~tooLittle(defs[j]) /\ tooMuch(defs[j])
    /\ step' = "refused"
    /\ UNCHANGED << inputs, defs, j, left >>

Finish ==
    /\ step = "sharing" /\ j > Len(defs)
    /\ step' = "done"
    /\ UNCHANGED << inputs, defs, j, left >>

AdakNext == FindDeficits \/ Dismiss \/ Give \/ Refuse \/ Finish

(* One thread runs adak() to its end. *)
AdakSpec == AdakInit /\ [][AdakNext]_adakVars /\ WF_adakVars(AdakNext)
-----------------------------------------------------------------------------
(* All those with enough of the deficit are served and none with less,     *)
(* though others are erased from the list while it is gone through (line   *)
(* 228).                                                                   *)
RightOnesServed ==
    step = "done" /\ Richer =>
      /\ \A p \in Deficit : ~atMostTooLittle(p) => p \in SE!ToSet(defs)
      /\ \A p \in SE!ToSet(defs) : p \in Deficit /\ ~tooLittle(p)

(* The loop comes to its end: each turn erases a peer, serves it and goes  *)
(* on to the next, or refuses it and leaves adak.                          *)
AdakEnds == <>(step \in {"done", "refused"})
=============================================================================
