------------------------ MODULE IngestionProperties ------------------------
(***************************************************************************)
(* What makes offline ingestion correct.                                   *)
(***************************************************************************)
EXTENDS Ingestion

\* Every variable holds what its description says.
TypeOK ==
  /\ run \in [Runs -> Process]
  /\ report \in [Runs -> Report]
  /\ disk \in [Runs -> Report]
  /\ lock \in Runs \cup {NoRun}
  /\ objects \in [Files -> Runs \cup {NoRun}]
  /\ jobs \in [Runs -> JobStatus]
  /\ sync \in BOOLEAN

\* A run that may still upload, and a job that may still read, have the lock
\* ("a slow uploader or timed-out job must never lose its lock"): no timeout,
\* lost reply, kill or failed release takes it from them.
LockOutlivesWork ==
  \A r \in Runs :
    run[r].pc \in {"checking", "uploading", "starting", "ingesting"} \/ Active(r) => lock = r

\* Bedrock never reads a mixture: while a job is active the prefix holds the
\* complete snapshot of the run that started it, also when the operator
\* starts it again after the run died.
JobReadsOneSnapshot ==
  \A r \in Runs : Active(r) => \A f \in Files : objects[f] = r

\* A start can always be resolved: whenever a job exists its run's saved
\* report says that the start was attempted, after every upload, even if the
\* process died within the call.
StartIsDurable ==
  \A r \in Runs : jobs[r] # "none" =>
    disk[r].start_attempted /\ disk[r].uploaded = FileCount

\* A lock that a run leaves behind is never a surprise: the report it ended
\* with says that a lock may be there.
LockIsReported ==
  \A r \in Runs : run[r].pc = "ended" /\ lock = r => disk[r].lock_retained

\* A run that reports COMPLETE had all its documents indexed and has given
\* the lock back.
CompleteIsIngested ==
  \A r \in Runs : disk[r].status = "COMPLETE" =>
    jobs[r] = "COMPLETE" /\ lock # r /\ ~disk[r].lock_retained

\* No document changes while a job is active, whoever started it: the first
\* look at the jobs is not enough, for one can begin before the lock is taken.
NoUploadDuringSync == [][objects' # objects => Ready]_vars

\* A run that was begun ends by itself, however long its job takes.
RunsEnd == \A r \in Runs : run[r].pc = "validating" ~> run[r].pc \in Stopped
=============================================================================
