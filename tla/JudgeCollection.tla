-------------------------- MODULE JudgeCollection --------------------------
(***************************************************************************)
(* The other half of the judge evaluation: jobs write results to S3, and   *)
(* collect commands download those of the job in a state file and report   *)
(* them.  It runs beside JudgeSubmission, and without the care the runbook *)
(* asks for: an input object may go at any time and its key be used again. *)
(***************************************************************************)
EXTENDS JudgeSubmission

CONSTANTS
  Collectors,  \* collect commands at a time
  Outs,        \* --output directories
  NoOut,
  Parts        \* the scores a job gives to a dataset, in a file each

ASSUME CollectionAssumption == Parts # {}

VARIABLES
  collect,  \* the collect commands, and what each has in memory
  outputs,  \* the local output directories
  results   \* what each job has written to S3

collectVars == <<collect, outputs, results>>

-----------------------------------------------------------------------------

NotCollecting == [pc |-> "idle", run |-> NoRun, data |-> NoData, job |-> NoJob, out |-> NoOut]

NotReported == [job |-> NoJob, data |-> NoData, complete |-> FALSE]
Reported(o) == outputs[o].report # NotReported

Comes(c, pc) == collect' = [collect EXCEPT ![c].pc = pc]
Leaves(c) == collect' = [collect EXCEPT ![c] = NotCollecting]

\* The state file has an ARN, and the job's status is Completed.
Collectable(s) == s.job # NoJob /\ jobs[s.job].status = "completed"

\* What was saved is read once, and the job it names is looked at.
BeginCollect(c, f, o) ==
  LET s == states[f]
  IN  /\ collect[c] = NotCollecting
      /\ Collectable(s)
      /\ collect' = [collect EXCEPT ![c] = [pc |-> "reading", run |-> s.run, data |-> s.data,
                                            job |-> s.job, out |-> o]]
      /\ UNCHANGED <<vars, outputs, results>>

\* The input must still hash to what was saved.
ReadInput(c) ==
  /\ collect[c].pc = "reading"
  /\ IF inputs[KeyOf[collect[c].run]] = collect[c].data THEN Comes(c, "making") ELSE Leaves(c)
  /\ UNCHANGED <<vars, outputs, results>>

\* Mutant: a directory that exists is used as long as nothing is in it.
MakeUnlessUsed(c) ==
  LET o == collect[c].out
  IN  /\ collect[c].pc = "making"
      /\ outputs' = [outputs EXCEPT ![o].made = TRUE]
      /\ IF outputs[o].artifacts # {} \/ Reported(o) THEN Leaves(c) ELSE Comes(c, "downloading")
      /\ UNCHANGED <<vars, results>>

\* The directory must be new.
Make(c) ==
  LET o == collect[c].out
  IN  /\ collect[c].pc = "making"
      /\ outputs' = [outputs EXCEPT ![o].made = TRUE]
      /\ IF outputs[o].made THEN Leaves(c) ELSE Comes(c, "downloading")
      /\ UNCHANGED <<vars, results>>

\* What the job has written and the directory lacks.
Wanted(c) ==
  {[job |-> collect[c].job, part |-> part] : part \in results[collect[c].job]}
    \ outputs[collect[c].out].artifacts

Download(c) ==
  /\ collect[c].pc = "downloading"
  /\ \E artifact \in Wanted(c) :
       outputs' = [outputs EXCEPT ![collect[c].out].artifacts = @ \cup {artifact}]
  /\ UNCHANGED <<vars, collect, results>>

\* Mutant: a record belongs to the row in its place.
MatchesByPlace(artifact, d) == TRUE

\* A record belongs to the row it repeats: one of the dataset's, or none.
Matches(artifact, d) == jobs[artifact.job].data = d

\* summarize: complete when everything downloaded matches and every score is there.
Complete(artifacts, d) ==
  /\ \A artifact \in artifacts : Matches(artifact, d)
  /\ Parts = {artifact.part : artifact \in artifacts}

\* The report is of all that is in the directory.
WriteReport(c) ==
  LET o == collect[c].out
  IN  /\ collect[c].pc = "downloading" /\ Wanted(c) = {}
      /\ outputs' = [outputs EXCEPT ![o].report =
                       [job |-> collect[c].job, data |-> collect[c].data,
                        complete |-> Complete(outputs[o].artifacts, collect[c].data)]]
      /\ Leaves(c)
      /\ UNCHANGED <<vars, results>>

\* A call or write raises, or the process dies: the directory stays as it is.
FailCollect(c) ==
  /\ collect[c] # NotCollecting
  /\ Leaves(c)
  /\ UNCHANGED <<vars, outputs, results>>

-----------------------------------------------------------------------------
(* Bedrock and the bucket. *)

\* A running job writes its scores one by one; it may end without some.
JobWrites(j) ==
  /\ jobs[j].status = "running" /\ jobs[j].data # NoData
  /\ \E part \in Parts \ results[j] : results' = [results EXCEPT ![j] = @ \cup {part}]
  /\ UNCHANGED <<vars, collect, outputs>>

\* An input object goes; its key may be used for another upload.
FreeKey(k) ==
  /\ inputs[k] # NoData
  /\ inputs' = [inputs EXCEPT ![k] = NoData]
  /\ UNCHANGED <<proc, stale, receipts, states, jobs, collectVars>>

-----------------------------------------------------------------------------

CollectInit ==
  /\ Init
  /\ collect = [c \in Collectors |-> NotCollecting]
  /\ outputs = [o \in Outs |-> [made |-> FALSE, artifacts |-> {}, report |-> NotReported]]
  /\ results = [j \in Jobs |-> {}]

CollectNext ==
  \/ Next /\ UNCHANGED collectVars
  \/ \E c \in Collectors :
       \/ \E f \in Files, o \in Outs : BeginCollect(c, f, o)
       \/ ReadInput(c) \/ Make(c) \/ Download(c) \/ WriteReport(c) \/ FailCollect(c)
  \/ \E j \in Jobs : JobWrites(j)
  \/ \E k \in Keys : FreeKey(k)

CollectSpec == CollectInit /\ [][CollectNext]_<<vars, collectVars>>

-----------------------------------------------------------------------------

\* A report is of everything its job had to say and of nothing else: the job
\* had ended, and no result of another job, or of another collect that used
\* the directory before or at the same time, is among its artifacts.
ReportIsOfOneJob ==
  \A o \in Outs : Reported(o) =>
    LET j == outputs[o].report.job
    IN  /\ jobs[j].status = "completed"
        /\ outputs[o].artifacts = {[job |-> j, part |-> part] : part \in results[j]}

\* Scores are never shown against other rows than the judge saw: a complete
\* report is of the dataset its job read, even when the key was freed and
\* used again, or the ARN was repeated for another export of the run.
CompleteReportIsOfItsDataset ==
  \A o \in Outs : outputs[o].report.complete =>
    jobs[outputs[o].report.job].data = outputs[o].report.data
=============================================================================
