------------------------------ MODULE MCProgram ------------------------------
(***************************************************************************)
(* Values for the constants of Program.                                    *)
(***************************************************************************)
EXTENDS Program

Given ==
    [numNodes |-> "given", latency |-> "given", connectionMode |-> "full",
     AdakStrategy |-> "Control", AlgorithmStrategy |-> "option"]

(* No file, all settings, or all but one as expected. *)
OneOff ==
    {Given, NoFile}
      \cup { [Given EXCEPT !.numNodes = v] : v \in {"absent", "mistyped"} }
      \cup { [Given EXCEPT !.latency = "absent"] }
      \cup { [Given EXCEPT !.connectionMode = v] : v \in {"absent", "custom", "other"} }
      \cup { [Given EXCEPT !.AdakStrategy = v] : v \in {"absent", "other"} }
      \cup { [Given EXCEPT !.AlgorithmStrategy = "other"] }
=============================================================================
