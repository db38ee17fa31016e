---------------------------- MODULE MCSimulation ----------------------------
(***************************************************************************)
(* Values for the constants of Simulation.                                 *)
(***************************************************************************)
EXTENDS KeyConservation

(* The root node has the smallest UUID, or the largest. *)
InOrder  == [i \in 1 .. N |-> i]
Reversed == [i \in 1 .. N |-> N + 1 - i]

(* connectionMode Full, and one outcome of Single. *)
FullLinks  == { {p, q} : p, q \in Nodes } \ { {p} : p \in Nodes }
ChainLinks == { {p, p + 1} : p \in 1 .. (N - 1) }
=============================================================================
