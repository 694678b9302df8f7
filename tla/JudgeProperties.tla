-------------------------- MODULE JudgeProperties --------------------------
(***************************************************************************)
(* What makes the submission of judge jobs correct.                        *)
(***************************************************************************)
EXTENDS JudgeSubmission

\* Every variable holds what its description says.
TypeOK ==
  /\ proc \in [Procs -> {Idle} \cup Upload \cup Submission]
  /\ stale \subseteq Runs
  /\ receipts \in [Receipts -> Papers]
  /\ states \in [Files -> Papers]
  /\ inputs \in [Keys -> Data \cup {NoData}]
  /\ jobs \in [Jobs -> Job]

\* A prepared run is paid for once ("ambiguous failures retain the same
\* token"): whatever replies are lost, processes die or state files differ.
OneJobPerRun ==
  \A i, j \in Jobs : Exists(i) /\ Exists(j) /\ jobs[i].run = jobs[j].run => i = j

\* No job is paid for and forgotten ("persist request before sending"): a
\* state file holds its request, so that submit can be repeated and collect
\* can follow, even if every process that knew of the job has died.
PaidJobIsOnFile ==
  \A j \in Jobs : Exists(j) =>
    \E f \in Files : states[f].text = "whole" /\ states[f].run = jobs[j].run

\* Scores will be matched with the rows they are of: the job in a state file
\* is that of its run, and has read the dataset the file describes, though
\* runs share keys and a run may be exported and submitted more than once.
SavedJobReadsSavedData ==
  \A f \in Files, j \in Jobs : states[f].job = j =>
    /\ Exists(j) /\ jobs[j].run = states[f].run
    /\ jobs[j].data \in {NoData, states[f].data}

\* An upload receipt is true: the object has the dataset it names.
ReceiptIsTrue ==
  \A f \in Receipts : receipts[f].text = "whole" => inputs[KeyOf[receipts[f].run]] = receipts[f].data

\* A saved request stays what it is, and so does the ARN once it is known:
\* no later command, with whatever arguments, changes or empties the file.
SavedRequestIsKept ==
  [][\A f \in Files : states[f].text = "whole" =>
       states'[f] \in {states[f]} \cup
         {Paper(states[f].run, states[f].data, j) : j \in IF states[f].job = NoJob THEN Jobs ELSE {}}]_vars

\* What state files and Bedrock say of a run.
FilesOf(r) == {f \in Files : states[f].text = "whole" /\ states[f].run = r}
JobsOf(r) == {j \in Jobs : Exists(j) /\ jobs[j].run = r}
ArnsOf(r) == {states[f].job : f \in FilesOf(r)} \ {NoJob}

Payment == INSTANCE JudgePayment WITH
  requested <- {r \in Runs : FilesOf(r) # {}},
  paid <- [r \in Runs |-> JobsOf(r)],
  known <- [r \in Runs |-> ArnsOf(r)]

\* Commands that die, lose replies, share files and are repeated implement a
\* payment of each run: "persist request before sending", then one job, and
\* its ARN for good ("ambiguous failures retain the same token").
ImplementsPayment == Payment!Spec

\* An ambiguous submission is resolved by repeating it, also when the run's
\* preparation is long out of date ("recovery uses the original request even
\* after pricing/captures expire").
RequestIsResolved ==
  \A f \in Files, r \in Runs, d \in Data :
    states[f] = Paper(r, d, NoJob) /\ inputs[KeyOf[r]] = d ~> states[f].job # NoJob
=============================================================================
