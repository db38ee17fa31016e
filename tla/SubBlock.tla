------------------------------- MODULE SubBlock -------------------------------
(***************************************************************************)
(* Cutting a sub-block off a node's keyspace (makeSubBlock) and sending    *)
(* several blocks in one message (sendCustKeyspace of a list of indices).  *)
(*                                                                         *)
(* Here the blocks are what they are in the code, a vector: both functions *)
(* pass indices around.  subBlocks() never gets as far as calling          *)
(* makeSubBlock, as a continue outside of the braces it belongs in skips   *)
(* every peer (line 424); the module is about the function as it stands,   *)
(* on the blocks a node may have.                                          *)
(***************************************************************************)
EXTENDS Keyspace, Lists

CONSTANTS
    Wanted,       \* the number of keys asked for (chunkiness)
    IntMax,       \* the largest int; a larger start turns negative
    MaxBlocks    \* bound of the model: how many blocks the node splits into

ASSUME SubBlockAssumption ==
    /\ Wanted \in Nat \ {0}
    /\ IntMax \in Nat
    /\ MaxBlocks \in Nat \ {0}

VARIABLES
    keyspaces,   \* the blocks of the node
    phase,       \* "idle", or what it is doing
    call,        \* who asked for it: "sharing" or "subBlock"
    indices,     \* the indices of the blocks listed and not yet sent
    listed,      \* the blocks these indices stood for when they were listed
    used,        \* makeSubBlock: how many keys the blocks listed count for
    oldMin,      \* ... and where the last of them starts, as an int
    message,     \* the blocks in the message
    issued       \* the keys handed out

vars == << keyspaces, phase, call, indices, listed, used, oldMin, message, issued >>

AsInt(k) == IF k <= IntMax THEN k ELSE k - (MaxKey + 1)

getSize(b) == (b.end - b.start) \div b.stride

(* The block with the smallest start above newMin.  Mutant: or at newMin.  *)
AtOrAbove(newMin) ==
    { i \in DOMAIN keyspaces : isKeyAvailable(keyspaces[i]) /\ keyspaces[i].start >= newMin }

Above(newMin) ==
    { i \in DOMAIN keyspaces : isKeyAvailable(keyspaces[i]) /\ keyspaces[i].start > newMin }
minimumKeyspaceIndex(newMin) ==
    { i \in Above(newMin) : \A j \in Above(newMin) : keyspaces[i].start <= keyspaces[j].start }

TypeOK ==
    /\ keyspaces \in Seq(Block)
    /\ \A i \in DOMAIN keyspaces : keyspaces[i].end <= MaxKey
    /\ phase \in {"idle", "making", "sending", "sent", "thrown", "undefined"}
    /\ call \in {"none", "sharing", "subBlock"}
    /\ indices \in Seq(Nat \ {0})
    /\ listed \in Seq(Block)
    /\ used \in Nat
    /\ oldMin \in -(MaxKey + 1) .. MaxKey
    /\ message \in Seq(Block)
    /\ issued \subseteq Key

Init ==
    /\ keyspaces = << RootBlock >>
    /\ phase = "idle"
    /\ call = "none"
    /\ indices = << >>
    /\ listed = << >>
    /\ used = 0
    /\ oldMin = -1
    /\ message = << >>
    /\ issued = {}

Without(v, i) == SubSeq(v, 1, i - 1) \o SubSeq(v, i + 1, Len(v))
-----------------------------------------------------------------------------
(* What the node does before: split blocks and use keys. *)

splitKeyspace(i) ==
    /\ phase = "idle"
    /\ Len(keyspaces) < MaxBlocks
    /\ ~SplitThrows(keyspaces[i])
    /\ keyspaces' = Append([keyspaces EXCEPT ![i] = FirstHalf(@)], SecondHalf(keyspaces[i]))
    /\ UNCHANGED << phase, call, indices, listed, used, oldMin, message, issued >>

getNextKey ==
    /\ phase = "idle"
    /\ \E i \in minimumKeyspaceIndex(-1) :
         LET rest == AfterNextKey(keyspaces[i])
         IN  /\ issued' = issued \cup {keyspaces[i].start}
             /\ keyspaces' = IF isKeyAvailable(rest) THEN [keyspaces EXCEPT ![i] = rest]
                             ELSE Without(keyspaces, i)
    /\ UNCHANGED << phase, call, indices, listed, used, oldMin, message >>
-----------------------------------------------------------------------------
(* Block sharing lists blocks by their position, from the first to the     *)
(* last, and so does the list it sends.                                    *)
ShareBlocks ==
    /\ phase = "idle"
    /\ \E chosen \in SUBSET DOMAIN keyspaces :
         /\ chosen # {}
         /\ indices' \in Ascending(chosen)
    /\ listed' = [j \in DOMAIN indices' |-> keyspaces[indices'[j]]]
    /\ phase' = "sending"
    /\ call' = "sharing"
    /\ UNCHANGED << keyspaces, used, oldMin, message, issued >>
-----------------------------------------------------------------------------
(* makeSubBlock(), one round of its loop at a time. *)

MakeSubBlock ==
    /\ phase = "idle"
    /\ phase' = "making"
    /\ call' = "subBlock"
    /\ UNCHANGED << keyspaces, indices, listed, used, oldMin, message, issued >>

(* A small block is listed as a whole, by its size rounded down. *)
ListBlock ==
    /\ phase = "making"
    /\ \E i \in minimumKeyspaceIndex(oldMin) :
         /\ getSize(keyspaces[i]) <= Wanted
         /\ indices' = Append(indices, i)
         /\ listed' = Append(listed, keyspaces[i])
         /\ used' = used + getSize(keyspaces[i])
         /\ oldMin' = AsInt(keyspaces[i].start)
    /\ phase' = IF used' < Wanted THEN "making" ELSE "sending"
    /\ UNCHANGED << keyspaces, call, message, issued >>

(* What is still to be found is cut off the beginning of a larger block.   *)
(* Mutants: keys that do not lie next to each other are counted as if they *)
(* did; and what has been found counts the wrong way.                      *)
CutInKeys(b) == b.start + Wanted - used

CutAtSum(b) == b.start + (Wanted + used) * b.stride

Joint(b) == b.start + (Wanted - used) * b.stride

CutBlock ==
    /\ phase = "making"
    /\ \E i \in minimumKeyspaceIndex(oldMin) :
         LET b == keyspaces[i]
         IN  /\ getSize(b) > Wanted
             /\ keyspaces' = Append([keyspaces EXCEPT ![i].start = Joint(b)],
                                    [b EXCEPT !.end = Joint(b)])
             /\ listed' = Append(listed, [b EXCEPT !.end = Joint(b)])
             /\ oldMin' = AsInt(b.start)
    /\ indices' = Append(indices, Len(keyspaces'))
    /\ used' = Wanted
    /\ phase' = "sending"
    /\ UNCHANGED << call, message, issued >>

(* Mutant: nothing happens when no block is found. *)
LooksAgain ==
    /\ phase = "making"
    /\ minimumKeyspaceIndex(oldMin) = {}
    /\ UNCHANGED vars

NotEnough ==
    /\ phase = "making"
    /\ minimumKeyspaceIndex(oldMin) = {}
    /\ phase' = "thrown"
    /\ UNCHANGED << keyspaces, call, indices, listed, used, oldMin, message, issued >>
-----------------------------------------------------------------------------
(* sendCustKeyspace(), one block at a time, from the last listed to the    *)
(* first; an index past the end is undefined behaviour.                    *)
(* Mutant: from the first to the last. *)
FirstOfList(list) == 1

NextOfList(list) == Len(list)

SendBlock ==
    /\ phase = "sending"
    /\ indices # << >>
    /\ LET j == NextOfList(indices)
           i == indices[j]
       IN  IF i \in DOMAIN keyspaces
           THEN /\ message' = Append(message, keyspaces[i])
                /\ keyspaces' = Without(keyspaces, i)
                /\ indices' = Without(indices, j)
                /\ phase' = IF indices' = << >> THEN "sent" ELSE "sending"
           ELSE /\ phase' = "undefined"
                /\ UNCHANGED << keyspaces, indices, message >>
    /\ UNCHANGED << call, listed, used, oldMin, issued >>

Next ==
    \/ \E i \in DOMAIN keyspaces : splitKeyspace(i)
    \/ getNextKey
    \/ ShareBlocks
    \/ MakeSubBlock \/ ListBlock \/ CutBlock \/ NotEnough
    \/ SendBlock

Spec == Init /\ [][Next]_vars

(* Once called, the functions run to their end. *)
FairSpec == Spec /\ WF_vars(ListBlock \/ CutBlock \/ NotEnough \/ SendBlock)
-----------------------------------------------------------------------------
(* However the node splits, cuts and sends its blocks, every key stays in  *)
(* exactly one place (splitKeyspace, makeSubBlock, sendCustKeyspace).      *)
Places(k) ==
    Cardinality({ i \in DOMAIN keyspaces : k \in Keys(keyspaces[i]) })
      + Cardinality({ i \in DOMAIN message : k \in Keys(message[i]) })
      + (IF k \in issued THEN 1 ELSE 0)

EachKeyOnce == \A k \in Key : Places(k) = 1

(* The blocks that makeSubBlock lists are all different, and have between  *)
(* them at least as many keys as were asked for.                           *)
KeysListed == UNION { Keys(listed[j]) : j \in DOMAIN listed }

EnoughListed ==
    (call = "subBlock" /\ phase = "sending") =>
      /\ SE!IsInjective(listed)
      /\ Cardinality(KeysListed) >= Wanted

(* What block sharing lists is what sendCustKeyspace sends, though each    *)
(* block it erases moves those behind it: it has to go from the last index *)
(* to the first.                                                           *)
SendsWhatIsListed ==
    call = "sharing" =>
      /\ phase # "undefined"
      /\ phase = "sent" => message = SE!Reverse(listed)

(* makeSubBlock always returns or throws: each round it looks for a block  *)
(* that starts further on.                                                 *)
Ends == phase = "making" ~> phase # "making"
=============================================================================
