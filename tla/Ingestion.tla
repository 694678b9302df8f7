----------------------------- MODULE Ingestion -----------------------------
(***************************************************************************)
(* Offline ingestion: runs that upload a snapshot of the policy corpus to  *)
(* one S3 prefix and let Bedrock index it, one run at a time under a lock  *)
(* object.  Runs are separate processes on separate machines; they share   *)
(* the bucket and the data source, whose replies can be lost, and each may *)
(* be killed at any point.                                                 *)
(*                                                                         *)
(* An action is the code between two calls to AWS, with the save of the    *)
(* report that belongs to it.  Fail is any call, check or save that raises *)
(* without effect; a call that takes effect and then raises is a branch of *)
(* its own action.                                                         *)
(***************************************************************************)
EXTENDS Naturals

CONSTANTS
  Runs,       \* run ids; each is also the client token of its job
  NoRun,
  FileCount   \* the corpus' objects, uploaded in the order of their names

ASSUME IngestionAssumption == NoRun \notin Runs /\ FileCount \in Nat \ {0}

VARIABLES
  run,      \* where each process is, and what it knows of its calls
  report,   \* the report in its memory
  disk,     \* the report it has saved
  lock,     \* the lock object: the run it names
  objects,  \* the documents under the prefix: the run that wrote each
  jobs,     \* the ingestion jobs the runs' tokens started
  sync      \* whether a job started by something else is active

vars == <<run, report, disk, lock, objects, jobs, sync>>

-----------------------------------------------------------------------------

Files == 1..FileCount

\* "INCOMPLETE" is COMPLETE with failed documents, or without statistics.
Terminal == {"COMPLETE", "INCOMPLETE", "FAILED", "STOPPED"}
JobStatus == {"none", "active"} \cup Terminal

Report == [status: {"VALIDATING", "UPLOADING", "STARTING", "INGESTING",
                    "COMPLETE", "FAILED", "TIMEOUT"},
           uploaded: 0..FileCount, start_attempted: BOOLEAN,
           job: JobStatus, lock_retained: BOOLEAN]
NoReport == [status |-> "VALIDATING", uploaded |-> 0, start_attempted |-> FALSE,
             job |-> "none", lock_retained |-> FALSE]

\* The calls a run is about to make.
Working == {"validating", "locking", "checking", "uploading", "starting", "ingesting"}
Leaving == {"leaving", "reporting"}
Stopped == {"ended", "killed"}

Process == [pc: {"new"} \cup Working \cup Leaving \cup Stopped,
            etag: BOOLEAN, start_attempted: BOOLEAN, terminal: BOOLEAN]

Active(r) == jobs[r] = "active"

\* readiness: no job of the data source is active.
Ready == ~sync /\ \A r \in Runs : ~Active(r)

Goes(r, pc) == run' = [run EXCEPT ![r].pc = pc]

Writes(r, text) == report' = [report EXCEPT ![r] = text]

Saves(r, text) == Writes(r, text) /\ disk' = [disk EXCEPT ![r] = text]

\* The run is left by way of finally, which saves the report.
Raises(r, text) == Goes(r, "leaving") /\ Writes(r, [text EXCEPT !.status = "FAILED"])

-----------------------------------------------------------------------------
(* The run's steps, in the order of the code. *)

\* The report's destination is verified before any call.
Begin(r) ==
  /\ run[r].pc = "new"
  /\ Goes(r, "validating")
  /\ Saves(r, NoReport)
  /\ UNCHANGED <<lock, objects, jobs, sync>>

\* Settings, snapshot and configuration are valid and nothing is syncing.
Validate(r) ==
  /\ run[r].pc = "validating" /\ Ready
  /\ Goes(r, "locking")
  /\ Writes(r, [report[r] EXCEPT !.status = "UPLOADING"])
  /\ UNCHANGED <<disk, lock, objects, jobs, sync>>

Acquired(r) == run' = [run EXCEPT ![r].pc = "checking", ![r].etag = TRUE] /\ UNCHANGED report

\* Mutant: a lost reply is a plain failure.
AcquireUnnoted(r) ==
  /\ run[r].pc = "locking" /\ lock = NoRun
  /\ lock' = r
  /\ Acquired(r) \/ Raises(r, report[r])
  /\ UNCHANGED <<disk, objects, jobs, sync>>

\* The conditional write; a reply that is lost leaves a lock without an ETag.
Acquire(r) ==
  /\ run[r].pc = "locking" /\ lock = NoRun
  /\ lock' = r
  /\ Acquired(r) \/ Raises(r, [report[r] EXCEPT !.lock_retained = TRUE])
  /\ UNCHANGED <<disk, objects, jobs, sync>>

\* Mutant: readiness is not checked again under the lock.
RecheckBlindly(r) ==
  /\ run[r].pc = "checking"
  /\ Goes(r, "uploading")
  /\ UNCHANGED <<report, disk, lock, objects, jobs, sync>>

\* The second readiness and the listing of the prefix.
Recheck(r) ==
  /\ run[r].pc = "checking" /\ Ready
  /\ Goes(r, "uploading")
  /\ UNCHANGED <<report, disk, lock, objects, jobs, sync>>

\* Mutant: a file whose upload raised is skipped.
UploadSkipping(r) ==
  LET n == report[r].uploaded + 1
  IN  /\ run[r].pc = "uploading" /\ n \in Files
      /\ objects' \in {[objects EXCEPT ![n] = r], objects}
      /\ Saves(r, [report[r] EXCEPT !.uploaded = n])
      /\ UNCHANGED <<run, lock, jobs, sync>>

\* One file, in order; the upload's reply or the save after it may be lost.
Upload(r) ==
  LET n == report[r].uploaded + 1
  IN  /\ run[r].pc = "uploading" /\ n \in Files
      /\ objects' = [objects EXCEPT ![n] = r]
      /\ \/ Saves(r, [report[r] EXCEPT !.uploaded = n]) /\ UNCHANGED run
         \/ /\ \E text \in {report[r], [report[r] EXCEPT !.uploaded = n]} : Raises(r, text)
            /\ UNCHANGED disk
      /\ UNCHANGED <<lock, jobs, sync>>

Announced(r) == [report[r] EXCEPT !.status = "STARTING", !.start_attempted = TRUE]

\* Mutant: the report is not saved before the start.
AnnounceInMemory(r) ==
  /\ run[r].pc = "uploading" /\ report[r].uploaded = FileCount
  /\ Goes(r, "starting") /\ Writes(r, Announced(r))
  /\ UNCHANGED <<disk, lock, objects, jobs, sync>>

\* The report is saved before the start; when that fails nothing was started.
Announce(r) ==
  /\ run[r].pc = "uploading" /\ report[r].uploaded = FileCount
  /\ \/ Goes(r, "starting") /\ Saves(r, Announced(r))
     \/ Raises(r, Announced(r)) /\ UNCHANGED disk
  /\ UNCHANGED <<lock, objects, jobs, sync>>

\* The reply may be lost, the job started or not; or the save after it.
Start(r) ==
  /\ run[r].pc = "starting"
  /\ \/ /\ jobs' = [jobs EXCEPT ![r] = "active"]
        /\ run' = [run EXCEPT ![r].pc = "ingesting", ![r].start_attempted = TRUE]
        /\ Saves(r, [report[r] EXCEPT !.status = "INGESTING", !.job = "active"])
     \/ /\ jobs' \in {jobs, [jobs EXCEPT ![r] = "active"]}
        /\ run' = [run EXCEPT ![r].pc = "leaving", ![r].start_attempted = TRUE]
        /\ \/ Writes(r, [report[r] EXCEPT !.status = "FAILED"])
           \/ /\ jobs' # jobs
              /\ Writes(r, [report[r] EXCEPT !.status = "FAILED", !.job = "active"])
        /\ UNCHANGED disk
  /\ UNCHANGED <<lock, objects, sync>>

\* Mutants: every COMPLETE job is a success; the deadline is never looked at.
VerdictOnStatus(job) ==
  CASE job = "active" -> {"INGESTING", "TIMEOUT"}
    [] job \in {"COMPLETE", "INCOMPLETE"} -> {"COMPLETE"}
    [] OTHER -> {"FAILED"}
VerdictWithoutDeadline(job) ==
  CASE job = "active" -> {"INGESTING"}
    [] job = "COMPLETE" -> {"COMPLETE"}
    [] OTHER -> {"FAILED"}

\* poll_job: what one look at the job may lead to.
Verdict(job) ==
  CASE job = "active" -> {"INGESTING", "TIMEOUT"}
    [] job = "COMPLETE" -> {"COMPLETE"}
    [] OTHER -> {"FAILED"}

\* What a look at the job leaves in memory.
Sees(r, status) ==
  /\ Writes(r, [report[r] EXCEPT !.job = jobs[r], !.status = status])
  /\ run' = [run EXCEPT ![r].pc = IF status = "INGESTING" THEN "ingesting" ELSE "leaving",
                        ![r].terminal = jobs[r] \in Terminal]

\* One look at the job: its state is noted and saved, then judged.
Poll(r) ==
  /\ run[r].pc = "ingesting"
  /\ disk' = [disk EXCEPT ![r] = [report[r] EXCEPT !.job = jobs[r]]]
  /\ \E status \in Verdict(jobs[r]) : Sees(r, status)
  /\ UNCHANGED <<lock, objects, jobs, sync>>

\* A look whose save raises: the run ends with what it has seen.
PollUnsaved(r) ==
  /\ run[r].pc = "ingesting"
  /\ Sees(r, "FAILED")
  /\ UNCHANGED <<disk, lock, objects, jobs, sync>>

\* What a raise adds to the report: while it takes the lock, a run cannot
\* tell whose lock is there.
Noted(r) == [report[r] EXCEPT !.lock_retained = @ \/ run[r].pc = "locking"]

\* A job is active, or the lock is taken.
Refuse(r) ==
  /\ \/ run[r].pc \in {"validating", "checking"} /\ ~Ready
     \/ run[r].pc = "locking" /\ lock # NoRun
  /\ Raises(r, Noted(r))
  /\ UNCHANGED <<disk, lock, objects, jobs, sync>>

\* Any other check, call or save raises without effect.
Fail(r) ==
  /\ run[r].pc \in Working
  /\ Raises(r, Noted(r))
  /\ UNCHANGED <<disk, lock, objects, jobs, sync>>

-----------------------------------------------------------------------------
(* finally: the lock is released or retained, and the report saved. *)

\* Mutant: the lock is released whenever it is held.
ReleasesAlways(r) == run[r].etag

\* A lock the run holds goes once no job of its own can be active.
Releases(r) == run[r].etag /\ (~run[r].start_attempted \/ run[r].terminal)

\* Deletes nothing but the object with the run's own ETag.  The delete may
\* fail, before or after it took effect.
Release(r) ==
  /\ run[r].pc = "leaving" /\ Releases(r)
  /\ Goes(r, "reporting")
  /\ \/ lock = r /\ lock' = NoRun /\ UNCHANGED report
     \/ /\ lock' \in {lock, IF lock = r THEN NoRun ELSE lock}
        /\ Writes(r, [report[r] EXCEPT !.status = "FAILED", !.lock_retained = TRUE])
  /\ UNCHANGED <<disk, objects, jobs, sync>>

Retain(r) ==
  /\ run[r].pc = "leaving" /\ ~Releases(r)
  /\ Goes(r, "reporting")
  /\ Writes(r, [report[r] EXCEPT !.lock_retained = @ \/ run[r].etag])
  /\ UNCHANGED <<disk, lock, objects, jobs, sync>>

SaveReport(r) ==
  /\ run[r].pc = "reporting"
  /\ Goes(r, "ended")
  /\ Saves(r, report[r])
  /\ UNCHANGED <<lock, objects, jobs, sync>>

\* The process dies, or cannot save its last report.
Kill(r) ==
  /\ run[r].pc \in Working \cup Leaving
  /\ Goes(r, "killed")
  /\ UNCHANGED <<report, disk, lock, objects, jobs, sync>>

-----------------------------------------------------------------------------
(* AWS, and the operator who follows the recovery procedure. *)

JobEnds(r) ==
  /\ Active(r)
  /\ \E status \in Terminal : jobs' = [jobs EXCEPT ![r] = status]
  /\ UNCHANGED <<run, report, disk, lock, objects, sync>>

\* A sync nobody's run started, begun while no run holds the lock.
OtherSync ==
  /\ IF sync THEN TRUE ELSE lock = NoRun
  /\ sync' = ~sync
  /\ UNCHANGED <<run, report, disk, lock, objects, jobs>>

\* The attempt of a stopped run is repeated with its own token.
StartAgain(r) ==
  /\ lock = r /\ run[r].pc \in Stopped
  /\ disk[r].start_attempted /\ disk[r].uploaded = FileCount /\ jobs[r] = "none"
  /\ jobs' = [jobs EXCEPT ![r] = "active"]
  /\ UNCHANGED <<run, report, disk, lock, objects, sync>>

\* The lock of a stopped run goes once no job is active.
Recover(r) ==
  /\ lock = r /\ run[r].pc \in Stopped /\ Ready
  /\ lock' = NoRun
  /\ UNCHANGED <<run, report, disk, objects, jobs, sync>>

-----------------------------------------------------------------------------

Init ==
  /\ run = [r \in Runs |-> [pc |-> "new", etag |-> FALSE, start_attempted |-> FALSE,
                            terminal |-> FALSE]]
  /\ report = [r \in Runs |-> NoReport]
  /\ disk = [r \in Runs |-> NoReport]
  /\ lock = NoRun
  /\ objects = [f \in Files |-> NoRun]
  /\ jobs = [r \in Runs |-> "none"]
  /\ sync = FALSE

Step(r) ==
  \/ Validate(r) \/ Acquire(r) \/ Recheck(r) \/ Upload(r) \/ Announce(r) \/ Start(r)
  \/ Poll(r) \/ Refuse(r) \/ Release(r) \/ Retain(r) \/ SaveReport(r)

Next ==
  \/ \E r \in Runs : \/ Begin(r) \/ Step(r) \/ PollUnsaved(r) \/ Fail(r) \/ Kill(r)
                    \/ JobEnds(r) \/ StartAgain(r) \/ Recover(r)
  \/ OtherSync

Spec == Init /\ [][Next]_vars

\* A process that is running goes on running, and its clock does: a job that
\* stays active reaches the deadline.  No call has to fail.
FairSpec == Spec /\ \A r \in Runs : WF_vars(Step(r))
=============================================================================
