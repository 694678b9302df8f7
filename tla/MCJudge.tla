------------------------------ MODULE MCJudge ------------------------------
(* Small instances of the submission of judge jobs for TLC. *)
EXTENDS JudgeProperties, TLC

CONSTANT TheKey

\* Every run's config names the same input object.
SharedKey == [r \in Runs |-> TheKey]

Symmetry ==
  Permutations(Runs) \cup Permutations(Data) \cup Permutations(Procs) \cup Permutations(Files)
    \cup Permutations(Jobs)
=============================================================================
