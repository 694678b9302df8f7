--------------------------- MODULE MCJudgeCapture ---------------------------
(* A small instance of the query API and the capture of its answers for TLC. *)
EXTENDS JudgeCapture, TLC

\* One owner's supported case and another's without an answer.
MCScopeOf == [s \in Subjects |-> IF s = "deductible" THEN "one_auto" ELSE "two_auto"]
MCCases == <<"deductible", "exclusion">>
MCAllowed == [s \in Subjects |-> IF s = "deductible" THEN {"policy_one"} ELSE {"policy_two"}]
MCRight == [s \in Subjects |-> {"amount"}]

P(scope, document, size) == [scope |-> scope, document |-> document, size |-> size]
One == P("one_auto", "policy_one", 1)
MCRetrievals ==
  {<<>>, <<One>>, <<P("one_auto", "policy_one", 0), One>>,
   <<One, P("two_auto", "policy_two", 1)>>, <<P("two_auto", "policy_two", 1)>>,
   <<P("one_auto", NoDocument, 0)>>, <<P("one_auto", "policy_one", 3)>>}
MCDrafts ==
  {[answer |-> "amount", ids |-> {1, 2}, insufficient |-> FALSE, usage |-> TRUE],
   [answer |-> "amount", ids |-> {3}, insufficient |-> FALSE, usage |-> FALSE]}
MCOtherEvents ==
  {[operator |-> TRUE, valid |-> TRUE, subject |-> "deductible", capture |-> FALSE],
   [operator |-> FALSE, valid |-> TRUE, subject |-> "exclusion", capture |-> TRUE],
   [operator |-> TRUE, valid |-> FALSE, subject |-> NoSubject, capture |-> FALSE]}

Symmetry ==
  Permutations(Calls) \cup Permutations(Requests) \cup Permutations(Commands)
    \cup Permutations(Outs) \cup Permutations(Exports)
=============================================================================
