------------------------- MODULE MCJudgeCollection -------------------------
(* A small instance of the collection of judge results for TLC. *)
EXTENDS JudgeCollection, TLC

CONSTANT TheKey

\* Every run's config names the same input object.
SharedKey == [r \in Runs |-> TheKey]

Symmetry ==
  Permutations(Runs) \cup Permutations(Data) \cup Permutations(Files) \cup Permutations(Jobs)
    \cup Permutations(Collectors)

\* No preparation goes stale: only submissions look at that, which their own
\* run explores, and a collection reads nothing of it.
AllCurrent == stale = {}
=============================================================================
