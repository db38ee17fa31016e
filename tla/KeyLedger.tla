------------------------------ MODULE KeyLedger ------------------------------
(***************************************************************************)
(* What the keying scheme promises, whatever the blocks, the messages and  *)
(* the control strategy: every key is in one hand at a time.  A node holds *)
(* it, or it is on its way to a node, or it has been issued, once and for  *)
(* all.  Keys move between nodes in consignments; a node issues its        *)
(* smallest key first, which is what keeps the key sequence without holes. *)
(***************************************************************************)
EXTENDS Integers

CONSTANTS Nodes, Key, Root

VARIABLE place       \* where each key is

Held(n)   == << "held", n >>
SentTo(n) == << "sent", n >>
Issued(n) == << "issued", n >>

Place == { "held", "sent", "issued" } \X Nodes

LedgerTypeOK == place \in [Key -> Place]

KeysHeld(n) == { k \in Key : place[k] = Held(n) }

LedgerInit == place = [k \in Key |-> Held(Root)]

(* n gives some of its keys away to p. *)
Give(n, p) ==
    /\ n # p
    /\ \A k \in Key : \/ place'[k] = place[k]
                      \/ place[k] = Held(n) /\ place'[k] = SentTo(p)

(* A consignment arrives. *)
Take(p) ==
    /\ \A k \in Key : \/ place'[k] = place[k]
                      \/ place[k] = SentTo(p) /\ place'[k] = Held(p)

(* n issues the smallest key it holds. *)
Issue(n, k) ==
    /\ place[k] = Held(n)
    /\ \A j \in KeysHeld(n) : k <= j
    /\ place' = [place EXCEPT ![k] = Issued(n)]

LedgerNext ==
    /\ place' \in [Key -> Place]
    /\ \/ \E n, p \in Nodes : Give(n, p)
       \/ \E p \in Nodes : Take(p)
       \/ \E n \in Nodes, k \in Key : Issue(n, k)

LedgerSpec == LedgerInit /\ [][LedgerNext]_place
-----------------------------------------------------------------------------
(* An issued key stays issued, by the node that issued it: nothing that    *)
(* node or any other does makes it available again.                        *)
IssuedForGood ==
    [][\A k \in Key, n \in Nodes : place[k] = Issued(n) => place'[k] = Issued(n)]_place
=============================================================================
