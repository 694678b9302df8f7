-------------------------- MODULE JudgeSubmission --------------------------
(***************************************************************************)
(* The paid half of the judge evaluation: operator commands that upload    *)
(* the dataset of a prepared run to S3 and submit one Bedrock evaluation   *)
(* job for it.  Commands are processes that may run side by side and die   *)
(* anywhere; what they share are local files, the bucket and Bedrock,      *)
(* whose replies can be lost.                                              *)
(*                                                                         *)
(* An action is the code between two calls or file operations.  A dataset  *)
(* stands for an export: its rows and the manifest that hashes them.  The  *)
(* request of a run is the run: prepared once, compared whole.             *)
(***************************************************************************)
CONSTANTS
  Runs, NoRun,     \* prepared runs
  Data, NoData,    \* exported datasets
  Keys, KeyOf,     \* input objects, and the one each run's config names
  Procs,           \* commands at a time
  Receipts, Files, \* --state of upload, --state of submit
  NoPath,
  Jobs, NoJob      \* job ARNs Bedrock may give out

ASSUME JudgeAssumption ==
  /\ NoRun \notin Runs /\ NoData \notin Data /\ NoJob \notin Jobs
  /\ KeyOf \in [Runs -> Keys]

VARIABLES
  proc,      \* the commands, and what each has in memory
  stale,     \* runs whose pricing or fixtures are no longer current
  receipts,  \* the upload receipts
  states,    \* the submission state files
  inputs,    \* the objects under the input keys
  jobs       \* the evaluation jobs

vars == <<proc, stale, receipts, states, inputs, jobs>>

-----------------------------------------------------------------------------

\* A file; it is "broken" when its writer died in the exclusive write.
NoPaper == [text |-> "absent", run |-> NoRun, data |-> NoData, job |-> NoJob]
Broken == [NoPaper EXCEPT !.text = "broken"]
Paper(r, d, j) == [text |-> "whole", run |-> r, data |-> d, job |-> j]
Papers == {NoPaper, Broken}
  \cup [text: {"whole"}, run: Runs, data: Data, job: Jobs \cup {NoJob}]

Uploading == {"putting", "noting"}
Submitting == {"opening", "verifying", "sending", "saving"}

Idle == [pc |-> "idle", run |-> NoRun, data |-> NoData, path |-> NoPath, job |-> NoJob]
Upload == [pc: Uploading, run: Runs, data: Data, path: Receipts, job: {NoJob}]
Submission == [pc: Submitting, run: Runs, data: Data, path: Files, job: Jobs \cup {NoJob}]

NotCreated == [status |-> "none", token |-> NoRun, run |-> NoRun, data |-> NoData]
Job == {NotCreated} \cup
  [status: {"running", "completed", "failed"}, token: Runs, run: Runs, data: Data \cup {NoData}]
Exists(j) == jobs[j].status # "none"

Goes(p, pc) == proc' = [proc EXCEPT ![p].pc = pc]
Ends(p) == proc' = [proc EXCEPT ![p] = Idle]
Starts(p, pc, r, d, f) ==
  proc' = [proc EXCEPT ![p] = [pc |-> pc, run |-> r, data |-> d, path |-> f, job |-> NoJob]]

\* What the command's process would save before its job has an ARN.
Mine(p) == Paper(proc[p].run, proc[p].data, NoJob)
Input(p) == inputs[KeyOf[proc[p].run]]

-----------------------------------------------------------------------------
(* upload *)

\* Prepared and export are valid, and the receipt is not another upload's.
BeginUpload(p, r, d, f) ==
  /\ proc[p] = Idle /\ r \notin stale
  /\ receipts[f] \in {NoPaper, Paper(r, d, NoJob)}
  /\ Starts(p, "putting", r, d, f)
  /\ UNCHANGED <<stale, receipts, states, inputs, jobs>>

\* Mutant: the write is not conditional.
PutAlways(p) ==
  /\ proc[p].pc = "putting"
  /\ inputs' = [inputs EXCEPT ![KeyOf[proc[p].run]] = proc[p].data]
  /\ Goes(p, "noting") \/ Ends(p)
  /\ UNCHANGED <<stale, receipts, states, jobs>>

\* The conditional write; an object that is there must be the same.  The
\* reply may be lost after the write.
Put(p) ==
  LET k == KeyOf[proc[p].run]
  IN  /\ proc[p].pc = "putting"
      /\ inputs' = [inputs EXCEPT ![k] = IF @ = NoData THEN proc[p].data ELSE @]
      /\ \/ inputs'[k] = proc[p].data /\ Goes(p, "noting")
         \/ Ends(p)
      /\ UNCHANGED <<stale, receipts, states, jobs>>

\* The receipt, unless there is one by now; the process may die writing it.
Note(p) ==
  /\ proc[p].pc = "noting"
  /\ \E text \in {Mine(p), Broken} :
       receipts' = [receipts EXCEPT ![proc[p].path] = IF @ = NoPaper THEN text ELSE @]
  /\ Ends(p)
  /\ UNCHANGED <<stale, states, inputs, jobs>>

-----------------------------------------------------------------------------
(* submit *)

\* Mutant: recovery, too, needs a current preparation.
BeginSubmitFresh(p, r, d, f) ==
  /\ proc[p] = Idle /\ \A q \in Procs : proc[q].path # f
  /\ r \notin stale
  /\ Starts(p, "opening", r, d, f)
  /\ UNCHANGED <<stale, receipts, states, inputs, jobs>>

\* One command for each state file at a time, says the runbook.  Without a
\* state file the preparation must be current; with one it need not be.
BeginSubmit(p, r, d, f) ==
  /\ proc[p] = Idle /\ \A q \in Procs : proc[q].path # f
  /\ states[f] = NoPaper => r \notin stale
  /\ Starts(p, "opening", r, d, f)
  /\ UNCHANGED <<stale, receipts, states, inputs, jobs>>

\* Mutants: the request is saved with the ARN only; a saved one is replaced.
OpenInMemory(p) ==
  /\ proc[p].pc = "opening"
  /\ states[proc[p].path] \in {NoPaper, Mine(p)}
  /\ Goes(p, "verifying")
  /\ UNCHANGED <<stale, receipts, states, inputs, jobs>>
OpenAnew(p) ==
  /\ proc[p].pc = "opening"
  /\ states' = [states EXCEPT ![proc[p].path] = Mine(p)]
  /\ Goes(p, "verifying")
  /\ UNCHANGED <<stale, receipts, inputs, jobs>>

\* The request is on disk before anything is sent: the one saved earlier, or
\* an exclusive write, in which the process may die.
Open(p) ==
  LET f == proc[p].path
  IN  /\ proc[p].pc = "opening"
      /\ \/ states[f] = Mine(p) /\ Goes(p, "verifying") /\ UNCHANGED states
         \/ /\ states[f] = NoPaper
            /\ \/ states' = [states EXCEPT ![f] = Mine(p)] /\ Goes(p, "verifying")
               \/ states' = [states EXCEPT ![f] = Broken] /\ Ends(p)
      /\ UNCHANGED <<stale, receipts, inputs, jobs>>

\* The file has the ARN already, is of another submission, or is broken.
Decline(p) ==
  /\ proc[p].pc = "opening" /\ states[proc[p].path] \notin {NoPaper, Mine(p)}
  /\ Ends(p)
  /\ UNCHANGED <<stale, receipts, states, inputs, jobs>>

\* Mutant: the object is not compared with the export.
VerifyNothing(p) ==
  /\ proc[p].pc = "verifying"
  /\ Goes(p, "sending")
  /\ UNCHANGED <<stale, receipts, states, inputs, jobs>>

Verify(p) ==
  /\ proc[p].pc = "verifying"
  /\ IF Input(p) = proc[p].data THEN Goes(p, "sending") ELSE Ends(p)
  /\ UNCHANGED <<stale, receipts, states, inputs, jobs>>

\* Mutant: each state file has a token of its own.
TokenOfFile(r, f) == f

\* The client token: a digest of the run's request and identity, whatever
\* the state file.
Token(r, f) == r

\* Bedrock creates one job for each token and repeats its ARN.
Replies(token) ==
  LET known == {j \in Jobs : Exists(j) /\ jobs[j].token = token}
  IN  IF known # {} THEN known ELSE {j \in Jobs : ~Exists(j)}

Created(p, token) ==
  [status |-> "running", token |-> token, run |-> proc[p].run, data |-> NoData]

\* The paid call, whose reply with the ARN may be lost.
Send(p) ==
  LET token == Token(proc[p].run, proc[p].path)
  IN  /\ proc[p].pc = "sending"
      /\ \E j \in Replies(token) :
           /\ jobs' = [jobs EXCEPT ![j] = IF Exists(j) THEN @ ELSE Created(p, token)]
           /\ \/ proc' = [proc EXCEPT ![p].pc = "saving", ![p].job = j]
              \/ Ends(p)
      /\ UNCHANGED <<stale, receipts, states, inputs>>

\* The ARN replaces the file in one step, or not at all.
Save(p) ==
  /\ proc[p].pc = "saving"
  /\ states' = [states EXCEPT ![proc[p].path] = Paper(proc[p].run, proc[p].data, proc[p].job)]
  /\ Ends(p)
  /\ UNCHANGED <<stale, receipts, inputs, jobs>>

\* A call or write raises without effect, or the process dies.
Fail(p) ==
  /\ proc[p] # Idle
  /\ Ends(p)
  /\ UNCHANGED <<stale, receipts, states, inputs, jobs>>

-----------------------------------------------------------------------------
(* Time and Bedrock. *)

\* The pricing date passes, or the fixtures change.
GoStale(r) ==
  /\ r \notin stale
  /\ stale' = stale \cup {r}
  /\ UNCHANGED <<proc, receipts, states, inputs, jobs>>

\* The job reads its input at some time after it was created.
JobReads(j) ==
  /\ jobs[j].status = "running" /\ jobs[j].data = NoData
  /\ jobs' = [jobs EXCEPT ![j].data = inputs[KeyOf[jobs[j].run]]]
  /\ UNCHANGED <<proc, stale, receipts, states, inputs>>

JobEnds(j) ==
  /\ jobs[j].status = "running"
  /\ \E status \in {"completed", "failed"} :
       /\ status = "completed" => jobs[j].data # NoData
       /\ jobs' = [jobs EXCEPT ![j].status = status]
  /\ UNCHANGED <<proc, stale, receipts, states, inputs>>

-----------------------------------------------------------------------------

Init ==
  /\ proc = [p \in Procs |-> Idle]
  /\ stale = {}
  /\ receipts = [f \in Receipts |-> NoPaper]
  /\ states = [f \in Files |-> NoPaper]
  /\ inputs = [k \in Keys |-> NoData]
  /\ jobs = [j \in Jobs |-> NotCreated]

Step(p) ==
  \/ Put(p) \/ Note(p) \/ Open(p) \/ Decline(p) \/ Verify(p) \/ Send(p) \/ Save(p)

Begin(p) ==
  \E r \in Runs, d \in Data :
    \/ \E f \in Receipts : BeginUpload(p, r, d, f)
    \/ \E f \in Files : BeginSubmit(p, r, d, f)

Next ==
  \/ \E p \in Procs : Begin(p) \/ Step(p) \/ Fail(p)
  \/ \E r \in Runs : GoStale(r)
  \/ \E j \in Jobs : JobReads(j) \/ JobEnds(j)

Spec == Init /\ [][Next]_vars

\* The same command again, for a request that is on file without an ARN.
Resubmit(f) ==
  \E p \in Procs, r \in Runs, d \in Data : states[f] = Paper(r, d, NoJob) /\ BeginSubmit(p, r, d, f)

\* The operator repeats a command until it gets through: no call fails every time.
GetsThrough(f) ==
  /\ SF_vars(Resubmit(f))
  /\ SF_vars(\E p \in Procs : proc[p].path = f /\ Open(p))
  /\ SF_vars(\E p \in Procs : proc[p].path = f /\ Verify(p))
  /\ SF_vars(\E p \in Procs : proc[p].path = f /\ Send(p) /\ proc'[p].pc = "saving")
  /\ SF_vars(\E p \in Procs : proc[p].path = f /\ Save(p))

FairSpec ==
  /\ Spec
  /\ \A p \in Procs : WF_vars(Step(p))
  /\ \A f \in Files : GetsThrough(f)
=============================================================================
