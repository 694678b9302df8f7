-------------------------- MODULE IngestionProofs --------------------------
(***************************************************************************)
(* Offline ingestion is safe for every set of runs and every corpus.       *)
(*                                                                         *)
(* The invariants of IngestionProperties are not inductive: that a job has *)
(* its lock rests on what its process knows (Phases, Jobs), that it reads  *)
(* one snapshot on what the lock's owner has written (Written), and that a *)
(* lock left behind is reported on what the process still has in memory    *)
(* (Reports).  IngestionInv is the conjunction of these for every run.     *)
(***************************************************************************)
EXTENDS IngestionProperties, TLAPS

Unlocked == {"new", "validating", "locking"}
Owning == {"checking", "uploading", "starting", "ingesting"}

\* Where a process is tells what it holds.
Phases(r) ==
  /\ run[r].pc \in Unlocked => lock # r /\ ~run[r].etag /\ report[r].uploaded = 0
  /\ run[r].pc \in Owning => lock = r /\ run[r].etag
  /\ run[r].pc \in Unlocked \cup (Owning \ {"ingesting"}) => ~run[r].start_attempted
  /\ run[r].pc = "ingesting" => run[r].start_attempted
  /\ run[r].pc = "uploading" => ~sync

\* What a process knows of its job, and the lock over the job.
Jobs(r) ==
  /\ Active(r) => lock = r
  /\ run[r].pc \notin Stopped /\ ~run[r].start_attempted => jobs[r] = "none"
  /\ run[r].terminal => jobs[r] \in Terminal

\* What is under the prefix while a run has the lock.
Written(r) ==
  /\ lock = r => \A f \in Files : f <= report[r].uploaded => objects[f] = r
  /\ Active(r) => \A f \in Files : objects[f] = r
  /\ disk[r].uploaded <= report[r].uploaded

\* A start is announced before it is made, in memory and in the saved report.
Starts(r) ==
  /\ run[r].pc = "starting" \/ run[r].start_attempted =>
       report[r].start_attempted /\ report[r].uploaded = FileCount
  /\ run[r].pc = "starting" \/ jobs[r] # "none" =>
       disk[r].start_attempted /\ disk[r].uploaded = FileCount

\* What a process is about to report of its lock and its job.
Reports(r) ==
  /\ report[r].lock_retained => run[r].pc \in Leaving \cup Stopped
  /\ lock = r /\ run[r].pc = "leaving" => run[r].etag \/ report[r].lock_retained
  /\ lock = r /\ run[r].pc = "reporting" => report[r].lock_retained
  /\ lock = r /\ run[r].pc = "ended" => disk[r].lock_retained
  /\ report[r].status = "COMPLETE" =>
       /\ run[r].pc \in Leaving \cup Stopped
       /\ jobs[r] = "COMPLETE"
       /\ run[r].pc \in Leaving => ~report[r].lock_retained
       /\ run[r].pc = "leaving" => run[r].etag /\ run[r].terminal
       /\ run[r].pc = "reporting" => lock # r
  /\ disk[r].status = "COMPLETE" =>
       run[r].pc = "ended" /\ jobs[r] = "COMPLETE" /\ lock # r /\ ~disk[r].lock_retained

RunInv(r) == Phases(r) /\ Jobs(r) /\ Written(r) /\ Starts(r) /\ Reports(r)

IngestionInv == TypeOK /\ \A r \in Runs : RunInv(r)

-----------------------------------------------------------------------------

\* A step of one run leaves what is known of another, unless it touches the
\* other's lock, or its documents while it has the lock.
LEMMA OthersUnmoved ==
  ASSUME NEW q \in Runs, RunInv(q),
         run'[q] = run[q], report'[q] = report[q], disk'[q] = disk[q], jobs'[q] = jobs[q],
         lock' = q <=> lock = q,
         lock = q => objects' = objects /\ sync' = sync
  PROVE RunInv(q)'
<1>1. Phases(q)' /\ Jobs(q)'
  BY DEF RunInv, Phases, Jobs, Active, Unlocked, Owning
<1>2. Written(q)'
  BY DEF RunInv, Jobs, Written, Active
<1>3. Starts(q)' /\ Reports(q)'
  BY DEF RunInv, Starts, Reports
<1>4. QED
  BY <1>1, <1>2, <1>3 DEF RunInv

\* Goes changes nothing but where the run is.
LEMMA GoesThere ==
  ASSUME TypeOK, NEW r \in Runs, NEW pc \in Working \cup Leaving \cup Stopped, Goes(r, pc)
  PROVE  /\ run' \in [Runs -> Process]
         /\ run'[r].pc = pc
         /\ run'[r].etag = run[r].etag
         /\ run'[r].start_attempted = run[r].start_attempted
         /\ run'[r].terminal = run[r].terminal
         /\ \A q \in Runs \ {r} : run'[q] = run[q]
<1>1. run[r] \in Process
  BY DEF TypeOK
<1>2. QED
  BY <1>1 DEF TypeOK, Goes, Process

\* Writes changes the report of no other run.
LEMMA WritesThere ==
  ASSUME TypeOK, NEW r \in Runs, NEW text \in Report, Writes(r, text)
  PROVE  /\ report' \in [Runs -> Report]
         /\ report'[r] = text
         /\ \A q \in Runs \ {r} : report'[q] = report[q]
  BY DEF TypeOK, Writes

\* Saves does both, in memory and on disk.
LEMMA SavesThere ==
  ASSUME TypeOK, NEW r \in Runs, NEW text \in Report, Saves(r, text)
  PROVE  /\ report' \in [Runs -> Report] /\ disk' \in [Runs -> Report]
         /\ report'[r] = text /\ disk'[r] = text
         /\ \A q \in Runs \ {r} : report'[q] = report[q] /\ disk'[q] = disk[q]
  BY WritesThere DEF TypeOK, Saves

\* A run that raises keeps all it knows.
LEMMA RaisesThere ==
  ASSUME TypeOK, NEW r \in Runs, NEW text \in Report, Raises(r, text)
  PROVE  /\ run' \in [Runs -> Process] /\ report' \in [Runs -> Report]
         /\ run'[r].pc = "leaving"
         /\ run'[r].etag = run[r].etag
         /\ run'[r].start_attempted = run[r].start_attempted
         /\ run'[r].terminal = run[r].terminal
         /\ report'[r].status = "FAILED"
         /\ report'[r].uploaded = text.uploaded
         /\ report'[r].start_attempted = text.start_attempted
         /\ report'[r].lock_retained = text.lock_retained
         /\ \A q \in Runs \ {r} : run'[q] = run[q] /\ report'[q] = report[q]
<1>1. [text EXCEPT !.status = "FAILED"] \in Report
  BY DEF Report
<1>2. Goes(r, "leaving") /\ Writes(r, [text EXCEPT !.status = "FAILED"])
  BY DEF Raises
<1>3. report' \in [Runs -> Report] /\ report'[r] = [text EXCEPT !.status = "FAILED"]
  BY <1>1, <1>2, WritesThere
<1>4. \A q \in Runs \ {r} : report'[q] = report[q]
  BY <1>1, <1>2, WritesThere
<1>5. "leaving" \in Working \cup Leaving \cup Stopped
  BY DEF Leaving
<1>6. QED
  BY <1>2, <1>3, <1>4, <1>5, GoesThere DEF Report

\* The other runs, when r acts and nobody else's lock or documents move.
LEMMA OthersKept ==
  ASSUME IngestionInv, NEW r \in Runs,
         \A q \in Runs \ {r} : /\ run'[q] = run[q] /\ report'[q] = report[q]
                               /\ disk'[q] = disk[q] /\ jobs'[q] = jobs[q],
         \A q \in Runs \ {r} : lock' = q <=> lock = q,
         lock \in Runs \ {r} => objects' = objects /\ sync' = sync
  PROVE  \A q \in Runs \ {r} : RunInv(q)'
  BY OthersUnmoved DEF IngestionInv

\* A run that raises keeps the invariant: what it has started it has
\* announced, and a lock that may be its own is held or noted.
LEMMA RaiseKeeps ==
  ASSUME IngestionInv, NEW r \in Runs, run[r].pc \in Working,
         NEW text \in Report, Raises(r, text),
         report[r].start_attempted => text.start_attempted,
         disk' = disk, jobs' = jobs, sync' = sync,
         lock' = lock \/ (lock = NoRun /\ lock' = r /\ run[r].pc = "locking"),
         lock' = r => run[r].etag \/ text.lock_retained,
         \/ objects' = objects /\ text.uploaded = report[r].uploaded
         \/ /\ run[r].pc = "uploading" /\ report[r].uploaded + 1 \in Files
            /\ objects' = [objects EXCEPT ![report[r].uploaded + 1] = r]
            /\ text.uploaded \in {report[r].uploaded, report[r].uploaded + 1}
  PROVE  IngestionInv'
<1> USE IngestionAssumption
<1>1. TypeOK /\ RunInv(r)
  BY DEF IngestionInv
<1>2. run[r] \in Process /\ report[r] \in Report
  BY <1>1 DEF TypeOK
<1>3. run[r].pc = "uploading" => lock = r /\ jobs[r] = "none"
  BY <1>1 DEF RunInv, Phases, Jobs, Unlocked, Owning, Stopped
<1>4. TypeOK'
  BY <1>1, RaisesThere DEF TypeOK
<1>5. Phases(r)' /\ Jobs(r)'
  BY <1>1, RaisesThere DEF RunInv, Phases, Jobs, Active, Unlocked, Owning, Working, Stopped
<1>6. Written(r)'
  <2>1. lock' = r => \A f \in Files : f <= text.uploaded => objects'[f] = r
    BY <1>1, <1>2 DEF TypeOK, RunInv, Phases, Written, Unlocked, Report, Files
  <2>2. jobs[r] = "active" => objects' = objects
    BY <1>3
  <2>3. disk[r].uploaded <= text.uploaded
    BY <1>1, <1>2 DEF RunInv, Written, TypeOK, Report
  <2>4. QED
    BY <1>1, <2>1, <2>2, <2>3, RaisesThere DEF RunInv, Written, Active
<1>7. Starts(r)' /\ Reports(r)'
  <2>1. Starts(r)'
    <3>1. run[r].pc = "uploading" => ~run[r].start_attempted /\ jobs[r] = "none"
      BY <1>1, <1>3 DEF RunInv, Phases, Unlocked, Owning
    <3>2. QED
      BY <1>1, <3>1, RaisesThere DEF RunInv, Starts
  <2>2. disk[r].status # "COMPLETE"
    BY <1>1 DEF RunInv, Reports, Working
  <2>3. QED
    BY <1>1, <2>1, <2>2, RaisesThere DEF RunInv, Reports, Leaving
<1>8. \A q \in Runs \ {r} : RunInv(q)'
  <2>1. lock \in Runs \ {r} => objects' = objects
    BY <1>3
  <2>2. QED
    BY <1>1, <2>1, RaisesThere, OthersKept
<1>9. QED
  BY <1>4, <1>5, <1>6, <1>7, <1>8 DEF IngestionInv, RunInv

\* Upload: the owner of the lock writes one more object.
LEMMA UploadKeeps ==
  ASSUME IngestionInv, NEW r \in Runs, Upload(r)
  PROVE IngestionInv'
<1> USE IngestionAssumption
<1> DEFINE n == report[r].uploaded + 1
           wrote == [report[r] EXCEPT !.uploaded = n]
<1>1. TypeOK /\ RunInv(r)
  BY DEF IngestionInv
<1>2. run[r].pc = "uploading" /\ report[r] \in Report /\ n \in Files
  BY <1>1 DEF Upload, TypeOK
<1>3. /\ wrote \in Report /\ wrote.uploaded = n
      /\ wrote.status = report[r].status /\ wrote.start_attempted = report[r].start_attempted
      /\ wrote.lock_retained = report[r].lock_retained
  BY <1>2 DEF Report, Files
<1>4. /\ objects' = [objects EXCEPT ![n] = r] /\ objects' \in [Files -> Runs \cup {NoRun}]
      /\ lock' = lock /\ jobs' = jobs /\ sync' = sync
  BY <1>1, <1>2 DEF Upload, TypeOK
<1>5. lock = r /\ ~run[r].start_attempted /\ jobs[r] = "none" /\ run[r].etag
  BY <1>1, <1>2 DEF RunInv, Phases, Jobs, Unlocked, Owning, Stopped
<1>6. CASE Saves(r, wrote) /\ run' = run
  <2>1. TypeOK'
    BY <1>1, <1>3, <1>4, <1>6, SavesThere DEF TypeOK
  <2>2. report'[r] = wrote /\ disk'[r] = wrote
    BY <1>1, <1>3, <1>6, SavesThere
  <2>3. Phases(r)' /\ Jobs(r)'
    BY <1>1, <1>2, <1>4, <1>5, <1>6, <2>2 DEF RunInv, Phases, Jobs, Active, Unlocked
  <2>4. Written(r)' /\ Starts(r)' /\ Reports(r)'
    BY <1>1, <1>2, <1>3, <1>4, <1>5, <1>6, <2>2
    DEF RunInv, TypeOK, Written, Starts, Reports, Active, Files, Leaving, Stopped, Report
  <2>5. \A q \in Runs \ {r} : RunInv(q)'
    BY <1>1, <1>3, <1>4, <1>5, <1>6, SavesThere, OthersKept
  <2>6. QED
    BY <2>1, <2>3, <2>4, <2>5 DEF IngestionInv, RunInv
<1>7. CASE Raises(r, report[r]) /\ disk' = disk
  BY <1>2, <1>4, <1>5, <1>7, RaiseKeeps DEF Working
<1>8. CASE Raises(r, wrote) /\ disk' = disk
  BY <1>2, <1>3, <1>4, <1>5, <1>8, RaiseKeeps DEF Working
<1>9. QED
  BY <1>6, <1>7, <1>8 DEF Upload

-----------------------------------------------------------------------------
(* The way to the lock. *)

\* Begin: nothing is held, and nothing is reported.
LEMMA BeginKeeps ==
  ASSUME IngestionInv, NEW r \in Runs, Begin(r)
  PROVE IngestionInv'
<1> USE IngestionAssumption
<1>1. TypeOK /\ RunInv(r)
  BY DEF IngestionInv
<1>2. /\ run[r].pc = "new" /\ Goes(r, "validating") /\ Saves(r, NoReport)
      /\ lock' = lock /\ objects' = objects /\ jobs' = jobs /\ sync' = sync
  BY DEF Begin
<1>3. NoReport \in Report
  BY DEF NoReport, Report, JobStatus
<1>4. /\ run' \in [Runs -> Process] /\ run'[r].pc = "validating" /\ run'[r].etag = run[r].etag
      /\ run'[r].start_attempted = run[r].start_attempted /\ run'[r].terminal = run[r].terminal
      /\ \A q \in Runs \ {r} : run'[q] = run[q]
  BY <1>1, <1>2, GoesThere DEF Working
<1>5. /\ report'[r] = NoReport /\ disk'[r] = NoReport
      /\ report' \in [Runs -> Report] /\ disk' \in [Runs -> Report]
      /\ \A q \in Runs \ {r} : report'[q] = report[q] /\ disk'[q] = disk[q]
  BY <1>1, <1>2, <1>3, SavesThere
<1>6. TypeOK'
  BY <1>1, <1>2, <1>4, <1>5 DEF TypeOK
<1>7. Phases(r)' /\ Jobs(r)' /\ Written(r)'
  BY <1>1, <1>2, <1>4, <1>5
  DEF RunInv, Phases, Jobs, Written, Active, Unlocked, Owning, Stopped, NoReport
<1>8. Starts(r)' /\ Reports(r)'
  BY <1>1, <1>2, <1>4, <1>5
  DEF RunInv, Phases, Jobs, Starts, Reports, Unlocked, Leaving, Stopped, NoReport
<1>9. \A q \in Runs \ {r} : RunInv(q)'
  BY <1>2, <1>4, <1>5, OthersKept
<1>10. QED
  BY <1>6, <1>7, <1>8, <1>9 DEF IngestionInv, RunInv

\* Validate: a run that saw no job goes on to the lock, still without one.
LEMMA ValidateKeeps ==
  ASSUME IngestionInv, NEW r \in Runs, Validate(r)
  PROVE IngestionInv'
<1> DEFINE text == [report[r] EXCEPT !.status = "UPLOADING"]
<1>1. TypeOK /\ RunInv(r)
  BY DEF IngestionInv
<1>2. /\ run[r].pc = "validating" /\ Goes(r, "locking") /\ Writes(r, text)
      /\ disk' = disk /\ lock' = lock /\ objects' = objects /\ jobs' = jobs /\ sync' = sync
  BY DEF Validate
<1>3. report[r] \in Report
  BY <1>1 DEF TypeOK
<1>4. /\ text \in Report /\ text.uploaded = report[r].uploaded
      /\ text.start_attempted = report[r].start_attempted /\ text.status = "UPLOADING"
      /\ text.lock_retained = report[r].lock_retained
  BY <1>3 DEF Report
<1>5. /\ run' \in [Runs -> Process] /\ run'[r].pc = "locking" /\ run'[r].etag = run[r].etag
      /\ run'[r].start_attempted = run[r].start_attempted /\ run'[r].terminal = run[r].terminal
      /\ \A q \in Runs \ {r} : run'[q] = run[q]
  BY <1>1, <1>2, GoesThere DEF Working
<1>6. /\ report'[r] = text /\ report' \in [Runs -> Report]
      /\ \A q \in Runs \ {r} : report'[q] = report[q]
  BY <1>1, <1>2, <1>4, WritesThere
<1>7. TypeOK'
  BY <1>1, <1>2, <1>5, <1>6 DEF TypeOK
<1>8. Phases(r)' /\ Jobs(r)' /\ Written(r)'
  BY <1>1, <1>2, <1>4, <1>5, <1>6
  DEF RunInv, Phases, Jobs, Written, Active, Unlocked, Owning, Stopped
<1>9. Starts(r)' /\ Reports(r)'
  BY <1>1, <1>2, <1>4, <1>5, <1>6 DEF RunInv, Starts, Reports, Leaving, Stopped
<1>10. \A q \in Runs \ {r} : RunInv(q)'
  BY <1>2, <1>5, <1>6, OthersKept
<1>11. QED
  BY <1>7, <1>8, <1>9, <1>10 DEF IngestionInv, RunInv

\* Acquire: the lock goes to the run that wrote it, with its ETag or a note.
LEMMA AcquireKeeps ==
  ASSUME IngestionInv, NEW r \in Runs, Acquire(r)
  PROVE IngestionInv'
<1> USE IngestionAssumption
<1> DEFINE text == [report[r] EXCEPT !.lock_retained = TRUE]
<1>1. TypeOK /\ RunInv(r)
  BY DEF IngestionInv
<1>2. /\ run[r].pc = "locking" /\ lock = NoRun /\ lock' = r
      /\ disk' = disk /\ objects' = objects /\ jobs' = jobs /\ sync' = sync
  BY DEF Acquire
<1>3. run[r] \in Process /\ report[r] \in Report
  BY <1>1 DEF TypeOK
<1>4. CASE Acquired(r)
  <2>1. /\ run' \in [Runs -> Process] /\ run'[r].pc = "checking" /\ run'[r].etag
        /\ run'[r].start_attempted = run[r].start_attempted /\ run'[r].terminal = run[r].terminal
        /\ \A q \in Runs \ {r} : run'[q] = run[q]
    BY <1>1, <1>3, <1>4 DEF Acquired, TypeOK, Process, Working
  <2>2. report' = report
    BY <1>4 DEF Acquired
  <2>3. TypeOK'
    BY <1>1, <1>2, <2>1, <2>2 DEF TypeOK
  <2>4. Phases(r)' /\ Jobs(r)'
    BY <1>1, <1>2, <2>1, <2>2 DEF RunInv, Phases, Jobs, Active, Unlocked, Owning, Stopped
  <2>5. Written(r)'
    BY <1>1, <1>2, <1>3, <2>1, <2>2 DEF RunInv, Phases, Written, Active, Unlocked, Files
  <2>6. Starts(r)' /\ Reports(r)'
    BY <1>1, <1>2, <2>1, <2>2 DEF RunInv, Starts, Reports, Leaving, Stopped
  <2>7. \A q \in Runs \ {r} : RunInv(q)'
    BY <1>2, <2>1, <2>2, OthersKept
  <2>8. QED
    BY <2>3, <2>4, <2>5, <2>6, <2>7 DEF IngestionInv, RunInv
<1>5. CASE Raises(r, text)
  <2>1. /\ text \in Report /\ text.uploaded = report[r].uploaded /\ text.lock_retained
        /\ text.start_attempted = report[r].start_attempted
    BY <1>3 DEF Report
  <2>2. QED
    BY <1>2, <1>5, <2>1, RaiseKeeps DEF Working
<1>6. QED
  BY <1>4, <1>5 DEF Acquire

\* Recheck: the owner of the lock saw no job and no other sync under it.
LEMMA RecheckKeeps ==
  ASSUME IngestionInv, NEW r \in Runs, Recheck(r)
  PROVE IngestionInv'
<1>1. TypeOK /\ RunInv(r)
  BY DEF IngestionInv
<1>2. /\ run[r].pc = "checking" /\ ~sync /\ Goes(r, "uploading") /\ report' = report
      /\ disk' = disk /\ lock' = lock /\ objects' = objects /\ jobs' = jobs /\ sync' = sync
  BY DEF Recheck, Ready
<1>3. /\ run' \in [Runs -> Process] /\ run'[r].pc = "uploading" /\ run'[r].etag = run[r].etag
      /\ run'[r].start_attempted = run[r].start_attempted /\ run'[r].terminal = run[r].terminal
      /\ \A q \in Runs \ {r} : run'[q] = run[q]
  BY <1>1, <1>2, GoesThere DEF Working
<1>4. TypeOK'
  BY <1>1, <1>2, <1>3 DEF TypeOK
<1>5. Phases(r)' /\ Jobs(r)' /\ Written(r)'
  BY <1>1, <1>2, <1>3
  DEF RunInv, Phases, Jobs, Written, Active, Unlocked, Owning, Stopped
<1>6. Starts(r)' /\ Reports(r)'
  BY <1>1, <1>2, <1>3 DEF RunInv, Starts, Reports, Leaving, Stopped
<1>7. \A q \in Runs \ {r} : RunInv(q)'
  BY <1>2, <1>3, OthersKept
<1>8. QED
  BY <1>4, <1>5, <1>6, <1>7 DEF IngestionInv, RunInv

-----------------------------------------------------------------------------
(* The job. *)

\* Announce: the start is saved after every upload, or the run leaves without one.
LEMMA AnnounceKeeps ==
  ASSUME IngestionInv, NEW r \in Runs, Announce(r)
  PROVE IngestionInv'
<1> USE IngestionAssumption
<1>1. TypeOK /\ RunInv(r)
  BY DEF IngestionInv
<1>2. /\ run[r].pc = "uploading" /\ report[r].uploaded = FileCount
      /\ lock' = lock /\ objects' = objects /\ jobs' = jobs /\ sync' = sync
  BY DEF Announce
<1>3. report[r] \in Report
  BY <1>1 DEF TypeOK
<1>4. /\ Announced(r) \in Report /\ Announced(r).uploaded = FileCount
      /\ Announced(r).start_attempted /\ Announced(r).status = "STARTING"
      /\ Announced(r).lock_retained = report[r].lock_retained
  BY <1>2, <1>3 DEF Announced, Report
<1>5. lock = r /\ run[r].etag /\ ~run[r].start_attempted /\ jobs[r] = "none"
  BY <1>1, <1>2 DEF RunInv, Phases, Jobs, Unlocked, Owning, Stopped
<1>6. CASE Goes(r, "starting") /\ Saves(r, Announced(r))
  <2>1. /\ run' \in [Runs -> Process] /\ run'[r].pc = "starting" /\ run'[r].etag = run[r].etag
        /\ run'[r].start_attempted = run[r].start_attempted /\ run'[r].terminal = run[r].terminal
        /\ \A q \in Runs \ {r} : run'[q] = run[q]
    BY <1>1, <1>6, GoesThere DEF Working
  <2>2. /\ report'[r] = Announced(r) /\ disk'[r] = Announced(r)
        /\ report' \in [Runs -> Report] /\ disk' \in [Runs -> Report]
        /\ \A q \in Runs \ {r} : report'[q] = report[q] /\ disk'[q] = disk[q]
    BY <1>1, <1>4, <1>6, SavesThere
  <2>3. TypeOK'
    BY <1>1, <1>2, <2>1, <2>2 DEF TypeOK
  <2>4. Phases(r)' /\ Jobs(r)'
    BY <1>1, <1>2, <1>5, <2>1 DEF RunInv, Phases, Jobs, Active, Unlocked, Owning, Stopped
  <2>5. Written(r)' /\ Starts(r)'
    BY <1>1, <1>2, <1>4, <1>5, <2>2 DEF RunInv, Written, Starts, Active
  <2>6. Reports(r)'
    BY <1>1, <1>2, <1>4, <2>1, <2>2 DEF RunInv, Reports, Leaving, Stopped
  <2>7. \A q \in Runs \ {r} : RunInv(q)'
    BY <1>2, <2>1, <2>2, OthersKept
  <2>8. QED
    BY <2>3, <2>4, <2>5, <2>6, <2>7 DEF IngestionInv, RunInv
<1>7. CASE Raises(r, Announced(r)) /\ disk' = disk
  BY <1>2, <1>4, <1>5, <1>7, RaiseKeeps DEF Working
<1>8. QED
  BY <1>6, <1>7 DEF Announce

\* Start: the job of a complete and announced snapshot may be active now.
LEMMA StartKeeps ==
  ASSUME IngestionInv, NEW r \in Runs, Start(r)
  PROVE IngestionInv'
<1> USE IngestionAssumption
<1> DEFINE begun == [report[r] EXCEPT !.status = "INGESTING", !.job = "active"]
           failed == [report[r] EXCEPT !.status = "FAILED"]
           unsaved == [report[r] EXCEPT !.status = "FAILED", !.job = "active"]
<1>1. TypeOK /\ RunInv(r)
  BY DEF IngestionInv
<1>2. /\ run[r].pc = "starting"
      /\ lock' = lock /\ objects' = objects /\ sync' = sync
      /\ jobs' \in {jobs, [jobs EXCEPT ![r] = "active"]}
  BY DEF Start
<1>3. run[r] \in Process /\ report[r] \in Report
  BY <1>1 DEF TypeOK
<1>4. /\ begun \in Report /\ begun.uploaded = report[r].uploaded
      /\ begun.start_attempted = report[r].start_attempted
      /\ begun.lock_retained = report[r].lock_retained /\ begun.status = "INGESTING"
  BY <1>3 DEF Report, JobStatus
<1>5. \A text \in {failed, unsaved} :
        /\ text \in Report /\ text.uploaded = report[r].uploaded
        /\ text.start_attempted = report[r].start_attempted
        /\ text.lock_retained = report[r].lock_retained /\ text.status = "FAILED"
  BY <1>3 DEF Report, JobStatus
<1>6. /\ lock = r /\ run[r].etag /\ ~run[r].start_attempted /\ jobs[r] = "none" /\ ~run[r].terminal
      /\ report[r].start_attempted /\ report[r].uploaded = FileCount
      /\ disk[r].start_attempted /\ disk[r].uploaded = FileCount
  BY <1>1, <1>2 DEF RunInv, Phases, Jobs, Starts, Unlocked, Owning, Stopped, Terminal
<1>7. /\ jobs' \in [Runs -> JobStatus] /\ jobs'[r] \in {"none", "active"}
      /\ \A q \in Runs \ {r} : jobs'[q] = jobs[q]
  BY <1>1, <1>2, <1>6 DEF TypeOK, JobStatus
<1>8. \A f \in Files : f <= FileCount /\ objects[f] = r
  BY <1>1, <1>6 DEF RunInv, Written, Files
<1>9. CASE /\ run' = [run EXCEPT ![r].pc = "ingesting", ![r].start_attempted = TRUE]
           /\ Saves(r, begun)
  <2>1. /\ run' \in [Runs -> Process] /\ run'[r].pc = "ingesting" /\ run'[r].start_attempted
        /\ run'[r].etag = run[r].etag /\ run'[r].terminal = run[r].terminal
        /\ \A q \in Runs \ {r} : run'[q] = run[q]
    BY <1>1, <1>3, <1>9 DEF TypeOK, Process, Working
  <2>2. /\ report'[r] = begun /\ disk'[r] = begun
        /\ report' \in [Runs -> Report] /\ disk' \in [Runs -> Report]
        /\ \A q \in Runs \ {r} : report'[q] = report[q] /\ disk'[q] = disk[q]
    BY <1>1, <1>4, <1>9, SavesThere
  <2>3. TypeOK'
    BY <1>1, <1>2, <1>7, <2>1, <2>2 DEF TypeOK
  <2>4. Phases(r)' /\ Jobs(r)'
    BY <1>2, <1>6, <2>1 DEF Phases, Jobs, Active, Unlocked, Owning
  <2>5. Written(r)' /\ Starts(r)'
    BY <1>1, <1>2, <1>4, <1>6, <1>8, <2>2 DEF RunInv, Written, Starts
  <2>6. Reports(r)'
    BY <1>1, <1>2, <1>4, <2>1, <2>2 DEF RunInv, Reports, Leaving, Stopped
  <2>7. \A q \in Runs \ {r} : RunInv(q)'
    BY <1>2, <1>7, <2>1, <2>2, OthersKept
  <2>8. QED
    BY <2>3, <2>4, <2>5, <2>6, <2>7 DEF IngestionInv, RunInv
<1>10. ASSUME NEW text \in {failed, unsaved}, Writes(r, text), disk' = disk,
               run' = [run EXCEPT ![r].pc = "leaving", ![r].start_attempted = TRUE]
       PROVE IngestionInv'
  <2>1. /\ run' \in [Runs -> Process] /\ run'[r].pc = "leaving" /\ run'[r].start_attempted
        /\ run'[r].etag = run[r].etag /\ run'[r].terminal = run[r].terminal
        /\ \A q \in Runs \ {r} : run'[q] = run[q]
    BY <1>1, <1>3, <1>10 DEF TypeOK, Process, Leaving
  <2>2. /\ report'[r] = text /\ report' \in [Runs -> Report]
        /\ \A q \in Runs \ {r} : report'[q] = report[q]
    BY <1>1, <1>5, <1>10, WritesThere
  <2>3. TypeOK'
    BY <1>1, <1>2, <1>7, <1>10, <2>1, <2>2 DEF TypeOK
  <2>4. Phases(r)' /\ Jobs(r)'
    BY <1>2, <1>6, <2>1 DEF Phases, Jobs, Active, Unlocked, Owning
  <2>5. Written(r)' /\ Starts(r)'
    BY <1>1, <1>2, <1>5, <1>6, <1>8, <1>10, <2>2 DEF RunInv, Written, Starts
  <2>6. Reports(r)'
    BY <1>1, <1>2, <1>5, <1>6, <1>10, <2>1, <2>2 DEF RunInv, Reports, Leaving, Stopped
  <2>7. \A q \in Runs \ {r} : RunInv(q)'
    BY <1>2, <1>7, <1>10, <2>1, <2>2, OthersKept
  <2>8. QED
    BY <2>3, <2>4, <2>5, <2>6, <2>7 DEF IngestionInv, RunInv
<1>11. QED
  BY <1>2, <1>9, <1>10 DEF Start

\* Poll, PollUnsaved: what was read of the job is what the run knows of it.
LEMMA PollKeeps ==
  ASSUME IngestionInv, NEW r \in Runs, Poll(r) \/ PollUnsaved(r)
  PROVE IngestionInv'
<1>1. TypeOK /\ RunInv(r)
  BY DEF IngestionInv
<1> DEFINE seen == [report[r] EXCEPT !.job = jobs[r]]
<1>2. PICK status \in Verdict(jobs[r]) \cup {"FAILED"} :
        /\ run[r].pc = "ingesting"
        /\ disk' = disk \/ disk' = [disk EXCEPT ![r] = seen]
        /\ Writes(r, [seen EXCEPT !.status = status])
        /\ run' = [run EXCEPT ![r].pc = IF status = "INGESTING" THEN "ingesting" ELSE "leaving",
                              ![r].terminal = jobs[r] \in Terminal]
        /\ lock' = lock /\ objects' = objects /\ jobs' = jobs /\ sync' = sync
  <2> DEFINE Looks(status) ==
        /\ Writes(r, [seen EXCEPT !.status = status])
        /\ run' = [run EXCEPT ![r].pc = IF status = "INGESTING" THEN "ingesting" ELSE "leaving",
                              ![r].terminal = jobs[r] \in Terminal]
  <2>1. ASSUME NEW status, Sees(r, status) PROVE Looks(status)
    <3>1. [report[r] EXCEPT !.job = jobs[r], !.status = status] = [seen EXCEPT !.status = status]
      BY <1>1 DEF TypeOK, Report
    <3>2. QED
      BY <2>1, <3>1 DEF Sees
  <2>2. PICK status \in Verdict(jobs[r]) \cup {"FAILED"} :
          Sees(r, status) /\ (disk' = disk \/ disk' = [disk EXCEPT ![r] = seen])
    BY DEF Poll, PollUnsaved
  <2>3. QED
    BY <2>1, <2>2 DEF Poll, PollUnsaved
<1> DEFINE judged == [seen EXCEPT !.status = status]
<1>3. run[r] \in Process /\ report[r] \in Report /\ jobs[r] \in JobStatus
  BY <1>1 DEF TypeOK
<1>4. /\ status \in {"INGESTING", "TIMEOUT", "COMPLETE", "FAILED"}
      /\ status = "COMPLETE" => jobs[r] = "COMPLETE"
  BY DEF Verdict
<1>5. /\ seen \in Report /\ seen.uploaded = report[r].uploaded
      /\ seen.start_attempted = report[r].start_attempted
      /\ seen.lock_retained = report[r].lock_retained /\ seen.status = report[r].status
  BY <1>3 DEF Report
<1>6. /\ judged \in Report /\ judged.uploaded = report[r].uploaded
      /\ judged.start_attempted = report[r].start_attempted
      /\ judged.lock_retained = report[r].lock_retained /\ judged.status = status
  BY <1>4, <1>5 DEF Report
<1>7. /\ lock = r /\ run[r].etag /\ run[r].start_attempted
      /\ report[r].status # "COMPLETE" /\ ~report[r].lock_retained
  BY <1>1, <1>2 DEF RunInv, Phases, Reports, Owning, Leaving, Stopped
<1> DEFINE place == IF status = "INGESTING" THEN "ingesting" ELSE "leaving"
           over == jobs[r] \in Terminal
<1>8. /\ run' \in [Runs -> Process] /\ run'[r].etag = run[r].etag
      /\ run'[r].pc = place /\ run'[r].terminal = over
      /\ run'[r].start_attempted = run[r].start_attempted
      /\ \A q \in Runs \ {r} : run'[q] = run[q]
  <2>1. run' = [run EXCEPT ![r].pc = place, ![r].terminal = over]
    BY <1>2
  <2>2. place \in {"ingesting", "leaving"} /\ over \in BOOLEAN
    OBVIOUS
  <2> HIDE DEF place, over
  <2>3. QED
    BY <1>1, <1>3, <2>1, <2>2 DEF TypeOK, Process, Working, Leaving
<1>9. /\ report'[r] = judged /\ report' \in [Runs -> Report]
      /\ \A q \in Runs \ {r} : report'[q] = report[q]
  BY <1>1, <1>2, <1>6, WritesThere
<1>10. /\ disk'[r] \in {seen, disk[r]} /\ disk' \in [Runs -> Report]
       /\ \A q \in Runs \ {r} : disk'[q] = disk[q]
  BY <1>1, <1>2, <1>5 DEF TypeOK
<1> DEFINE saved == disk'[r]
<1>11. /\ saved.uploaded <= report[r].uploaded /\ saved.status # "COMPLETE"
       /\ jobs[r] # "none" => saved.start_attempted /\ saved.uploaded = FileCount
  <2>1. CASE saved = seen
    BY <1>1, <1>2, <1>3, <1>5, <1>7, <2>1, IngestionAssumption DEF RunInv, Starts, Report
  <2>2. CASE saved = disk[r]
    BY <1>1, <1>2, <2>2 DEF RunInv, Written, Starts, Reports
  <2>3. QED
    BY <1>10, <2>1, <2>2
<1>12. TypeOK'
  BY <1>1, <1>2, <1>8, <1>9, <1>10 DEF TypeOK
<1>13. Phases(r)' /\ Jobs(r)'
  <2>1. run'[r].terminal => jobs'[r] \in Terminal
    BY <1>2, <1>8, Zenon
  <2>2. run'[r].pc \in {"ingesting", "leaving"}
    BY <1>8
  <2> HIDE DEF place, over
  <2>3. QED
    BY <1>1, <1>2, <1>7, <1>8, <2>1, <2>2
    DEF RunInv, Phases, Jobs, Active, Unlocked, Owning, Stopped
<1>14. Written(r)' /\ Starts(r)'
  BY <1>1, <1>2, <1>6, <1>7, <1>8, <1>9, <1>11
  DEF RunInv, Written, Starts, Active
<1>15. Reports(r)'
  <2>1. status = "COMPLETE" => over /\ place = "leaving"
    BY <1>4 DEF Terminal
  <2>2. status = "COMPLETE" => run'[r].terminal /\ run'[r].pc = "leaving"
    BY <1>8, <2>1, Zenon
  <2>3. run'[r].pc \in {"ingesting", "leaving"}
    BY <1>8
  <2> HIDE DEF place, over
  <2>4. QED
    BY <1>2, <1>4, <1>6, <1>7, <1>8, <1>9, <1>11, <2>2, <2>3
    DEF Reports, Leaving, Stopped
<1>16. \A q \in Runs \ {r} : RunInv(q)'
  BY <1>2, <1>8, <1>9, <1>10, OthersKept
<1>17. QED
  BY <1>12, <1>13, <1>14, <1>15, <1>16 DEF IngestionInv, RunInv

-----------------------------------------------------------------------------
(* Raising and leaving. *)

\* A raise notes a lock only where the lock is taken.
LEMMA NotedReport ==
  ASSUME TypeOK, NEW r \in Runs
  PROVE  /\ Noted(r) \in Report
         /\ Noted(r).uploaded = report[r].uploaded
         /\ Noted(r).start_attempted = report[r].start_attempted
         /\ run[r].pc = "locking" => Noted(r).lock_retained
<1> DEFINE kept == report[r].lock_retained \/ run[r].pc = "locking"
<1>1. report[r] \in Report
  BY DEF TypeOK
<1>2. Noted(r) = [report[r] EXCEPT !.lock_retained = kept]
  BY DEF Noted
<1>3. kept \in BOOLEAN /\ (run[r].pc = "locking" => kept = TRUE)
  OBVIOUS
<1> HIDE DEF kept
<1>4. QED
  BY <1>1, <1>2, <1>3 DEF Report

\* Refuse, Fail: a run that raises without effect.
LEMMA RefusalKeeps ==
  ASSUME IngestionInv, NEW r \in Runs, Refuse(r) \/ Fail(r)
  PROVE IngestionInv'
<1>1. TypeOK /\ RunInv(r)
  BY DEF IngestionInv
<1>2. /\ run[r].pc \in Working /\ Raises(r, Noted(r))
      /\ disk' = disk /\ lock' = lock /\ objects' = objects /\ jobs' = jobs /\ sync' = sync
  BY DEF Refuse, Fail, Working
<1>3. lock = r => run[r].etag
  BY <1>1, <1>2 DEF RunInv, Phases, Working, Unlocked, Owning
<1>4. QED
  BY <1>1, <1>2, <1>3, NotedReport, RaiseKeeps

\* Release: the lock goes only when no job of the run can be active.
LEMMA ReleaseKeeps ==
  ASSUME IngestionInv, NEW r \in Runs, Release(r)
  PROVE IngestionInv'
<1> USE IngestionAssumption
<1> DEFINE text == [report[r] EXCEPT !.status = "FAILED", !.lock_retained = TRUE]
<1>1. TypeOK /\ RunInv(r)
  BY DEF IngestionInv
<1>2. /\ run[r].pc = "leaving" /\ Releases(r) /\ Goes(r, "reporting")
      /\ \/ lock = r /\ lock' = NoRun /\ report' = report
         \/ Writes(r, text)
      /\ lock' \in {lock, IF lock = r THEN NoRun ELSE lock}
      /\ disk' = disk /\ objects' = objects /\ jobs' = jobs /\ sync' = sync
  BY DEF Release
<1>3. report[r] \in Report
  BY <1>1 DEF TypeOK
<1>4. /\ text \in Report /\ text.uploaded = report[r].uploaded
      /\ text.start_attempted = report[r].start_attempted
      /\ text.lock_retained = TRUE /\ text.status = "FAILED"
  BY <1>3 DEF Report
<1>5. /\ run' \in [Runs -> Process] /\ run'[r].pc = "reporting" /\ run'[r].etag = run[r].etag
      /\ run'[r].start_attempted = run[r].start_attempted /\ run'[r].terminal = run[r].terminal
      /\ \A q \in Runs \ {r} : run'[q] = run[q]
  BY <1>1, <1>2, GoesThere DEF Leaving
<1>6. /\ report' \in [Runs -> Report]
      /\ \A q \in Runs \ {r} : report'[q] = report[q]
      /\ report'[r].uploaded = report[r].uploaded
      /\ report'[r].start_attempted = report[r].start_attempted
      /\ \/ report'[r] = report[r] /\ lock' # r
         \/ report'[r].status = "FAILED" /\ report'[r].lock_retained
  <2>1. CASE lock = r /\ lock' = NoRun /\ report' = report
    BY <1>1, <2>1 DEF TypeOK
  <2>2. CASE Writes(r, text)
    BY <1>1, <1>4, <2>2, WritesThere
  <2>3. QED
    BY <1>2, <2>1, <2>2
<1>7. ~Active(r) /\ run[r].etag
  <2>1. CASE run[r].terminal
    BY <1>1, <1>2, <2>1 DEF RunInv, Jobs, Releases, Active, Terminal
  <2>2. CASE ~run[r].start_attempted
    BY <1>1, <1>2, <2>2 DEF RunInv, Jobs, Releases, Active, Stopped
  <2>3. QED
    BY <1>2, <2>1, <2>2 DEF Releases
<1>8. lock' = r => lock = r
  BY <1>2
<1>9. TypeOK'
  BY <1>1, <1>2, <1>5, <1>6 DEF TypeOK
<1>10. Phases(r)' /\ Jobs(r)'
  BY <1>1, <1>2, <1>5, <1>7 DEF RunInv, Phases, Jobs, Active, Unlocked, Owning, Stopped
<1>11. Written(r)' /\ Starts(r)'
  BY <1>1, <1>2, <1>5, <1>6, <1>7, <1>8 DEF RunInv, Written, Starts, Active
<1>12. Reports(r)'
  BY <1>1, <1>2, <1>5, <1>6, <1>8 DEF RunInv, Reports, Leaving, Stopped
<1>13. \A q \in Runs \ {r} : RunInv(q)'
  <2>1. \A q \in Runs \ {r} : lock' = q <=> lock = q
    BY <1>2
  <2>2. QED
    BY <1>2, <1>5, <1>6, <2>1, OthersKept
<1>14. QED
  BY <1>9, <1>10, <1>11, <1>12, <1>13 DEF IngestionInv, RunInv

\* Retain: a lock that stays is noted.
LEMMA RetainKeeps ==
  ASSUME IngestionInv, NEW r \in Runs, Retain(r)
  PROVE IngestionInv'
<1> DEFINE kept == report[r].lock_retained \/ run[r].etag
           text == [report[r] EXCEPT !.lock_retained = kept]
<1>1. TypeOK /\ RunInv(r)
  BY DEF IngestionInv
<1>2. /\ run[r].pc = "leaving" /\ ~Releases(r) /\ Goes(r, "reporting") /\ Writes(r, text)
      /\ disk' = disk /\ lock' = lock /\ objects' = objects /\ jobs' = jobs /\ sync' = sync
  BY DEF Retain
<1>3. report[r] \in Report /\ run[r] \in Process
  BY <1>1 DEF TypeOK
<1>4. kept \in BOOLEAN /\ (run[r].etag => kept = TRUE) /\ (report[r].lock_retained => kept = TRUE)
  OBVIOUS
<1>5. /\ text \in Report /\ text.uploaded = report[r].uploaded /\ text.lock_retained = kept
      /\ text.start_attempted = report[r].start_attempted /\ text.status = report[r].status
  <2> HIDE DEF kept
  <2>1. QED
    BY <1>3, <1>4 DEF Report
<1>6. report[r].status # "COMPLETE"
  BY <1>1, <1>2 DEF RunInv, Reports, Releases
<1> HIDE DEF kept
<1>7. /\ run' \in [Runs -> Process] /\ run'[r].pc = "reporting" /\ run'[r].etag = run[r].etag
      /\ run'[r].start_attempted = run[r].start_attempted /\ run'[r].terminal = run[r].terminal
      /\ \A q \in Runs \ {r} : run'[q] = run[q]
  BY <1>1, <1>2, GoesThere DEF Leaving
<1>8. /\ report'[r] = text /\ report' \in [Runs -> Report]
      /\ \A q \in Runs \ {r} : report'[q] = report[q]
  BY <1>1, <1>2, <1>5, WritesThere
<1>9. TypeOK'
  BY <1>1, <1>2, <1>7, <1>8 DEF TypeOK
<1>10. Phases(r)' /\ Jobs(r)'
  BY <1>1, <1>2, <1>7 DEF RunInv, Phases, Jobs, Active, Unlocked, Owning, Stopped
<1>11. Written(r)' /\ Starts(r)'
  BY <1>1, <1>2, <1>5, <1>7, <1>8 DEF RunInv, Written, Starts, Active
<1>12. Reports(r)'
  BY <1>1, <1>2, <1>4, <1>5, <1>6, <1>7, <1>8 DEF RunInv, Reports, Leaving, Stopped
<1>13. \A q \in Runs \ {r} : RunInv(q)'
  BY <1>2, <1>7, <1>8, OthersKept
<1>14. QED
  BY <1>9, <1>10, <1>11, <1>12, <1>13 DEF IngestionInv, RunInv

\* SaveReport: the saved report says what the run knows.
LEMMA SaveReportKeeps ==
  ASSUME IngestionInv, NEW r \in Runs, SaveReport(r)
  PROVE IngestionInv'
<1> USE IngestionAssumption
<1>1. TypeOK /\ RunInv(r)
  BY DEF IngestionInv
<1>2. /\ run[r].pc = "reporting" /\ Goes(r, "ended") /\ Saves(r, report[r])
      /\ lock' = lock /\ objects' = objects /\ jobs' = jobs /\ sync' = sync
  BY DEF SaveReport
<1>3. report[r] \in Report
  BY <1>1 DEF TypeOK
<1>4. /\ run' \in [Runs -> Process] /\ run'[r].pc = "ended" /\ run'[r].etag = run[r].etag
      /\ run'[r].start_attempted = run[r].start_attempted /\ run'[r].terminal = run[r].terminal
      /\ \A q \in Runs \ {r} : run'[q] = run[q]
  BY <1>1, <1>2, GoesThere DEF Stopped
<1>5. /\ report'[r] = report[r] /\ disk'[r] = report[r]
      /\ report' \in [Runs -> Report] /\ disk' \in [Runs -> Report]
      /\ \A q \in Runs \ {r} : report'[q] = report[q] /\ disk'[q] = disk[q]
  BY <1>1, <1>2, <1>3, SavesThere
<1>6. TypeOK'
  BY <1>1, <1>2, <1>4, <1>5 DEF TypeOK
<1>7. Phases(r)' /\ Jobs(r)'
  BY <1>1, <1>2, <1>4 DEF RunInv, Phases, Jobs, Active, Unlocked, Owning, Stopped
<1>8. Written(r)' /\ Starts(r)'
  BY <1>1, <1>2, <1>3, <1>4, <1>5 DEF RunInv, Jobs, Written, Starts, Active, Report, Stopped
<1>9. Reports(r)'
  BY <1>1, <1>2, <1>4, <1>5 DEF RunInv, Reports, Leaving, Stopped
<1>10. \A q \in Runs \ {r} : RunInv(q)'
  BY <1>2, <1>4, <1>5, OthersKept
<1>11. QED
  BY <1>6, <1>7, <1>8, <1>9, <1>10 DEF IngestionInv, RunInv

\* Kill: a killed process leaves everything as it is.
LEMMA KillKeeps ==
  ASSUME IngestionInv, NEW r \in Runs, Kill(r)
  PROVE IngestionInv'
<1>1. TypeOK /\ RunInv(r)
  BY DEF IngestionInv
<1>2. /\ run[r].pc \in Working \cup Leaving /\ Goes(r, "killed") /\ report' = report
      /\ disk' = disk /\ lock' = lock /\ objects' = objects /\ jobs' = jobs /\ sync' = sync
  BY DEF Kill
<1>3. /\ run' \in [Runs -> Process] /\ run'[r].pc = "killed" /\ run'[r].etag = run[r].etag
      /\ run'[r].start_attempted = run[r].start_attempted /\ run'[r].terminal = run[r].terminal
      /\ \A q \in Runs \ {r} : run'[q] = run[q]
  BY <1>1, <1>2, GoesThere DEF Stopped
<1>4. TypeOK'
  BY <1>1, <1>2, <1>3 DEF TypeOK
<1>5. Phases(r)' /\ Jobs(r)'
  BY <1>1, <1>2, <1>3 DEF RunInv, Phases, Jobs, Active, Unlocked, Owning, Stopped
<1>6. Written(r)' /\ Starts(r)'
  BY <1>1, <1>2, <1>3 DEF RunInv, Written, Starts, Active
<1>7. Reports(r)'
  BY <1>1, <1>2, <1>3 DEF RunInv, Reports, Working, Leaving, Stopped
<1>8. \A q \in Runs \ {r} : RunInv(q)'
  BY <1>2, <1>3, OthersKept
<1>9. QED
  BY <1>4, <1>5, <1>6, <1>7, <1>8 DEF IngestionInv, RunInv

-----------------------------------------------------------------------------
(* AWS and the operator. *)

\* JobEnds: a job only stops being active, and an ended one stays as it is.
LEMMA JobEndsKeeps ==
  ASSUME IngestionInv, NEW r \in Runs, JobEnds(r)
  PROVE IngestionInv'
<1>1. TypeOK /\ RunInv(r)
  BY DEF IngestionInv
<1>2. PICK status \in Terminal :
        /\ jobs[r] = "active" /\ jobs' = [jobs EXCEPT ![r] = status]
        /\ run' = run /\ report' = report
        /\ disk' = disk /\ lock' = lock /\ objects' = objects /\ sync' = sync
  BY DEF JobEnds, Active
<1>3. /\ jobs' \in [Runs -> JobStatus] /\ jobs'[r] = status
      /\ \A q \in Runs \ {r} : jobs'[q] = jobs[q]
  BY <1>1, <1>2 DEF TypeOK, JobStatus
<1>4. TypeOK'
  BY <1>1, <1>2, <1>3 DEF TypeOK
<1>5. Phases(r)' /\ Jobs(r)'
  BY <1>1, <1>2, <1>3 DEF RunInv, Phases, Jobs, Active, Terminal
<1>6. Written(r)' /\ Starts(r)' /\ Reports(r)'
  BY <1>1, <1>2, <1>3 DEF RunInv, Written, Starts, Reports, Active, Terminal
<1>7. \A q \in Runs \ {r} : RunInv(q)'
  BY <1>2, <1>3, OthersKept
<1>8. QED
  BY <1>4, <1>5, <1>6, <1>7 DEF IngestionInv, RunInv

\* StartAgain: the stopped run announced its start after its last upload, and
\* the lock kept its documents.
LEMMA StartAgainKeeps ==
  ASSUME IngestionInv, NEW r \in Runs, StartAgain(r)
  PROVE IngestionInv'
<1> USE IngestionAssumption
<1>1. TypeOK /\ RunInv(r)
  BY DEF IngestionInv
<1>2. /\ lock = r /\ run[r].pc \in Stopped /\ jobs[r] = "none"
      /\ disk[r].start_attempted /\ disk[r].uploaded = FileCount
      /\ jobs' = [jobs EXCEPT ![r] = "active"] /\ run' = run /\ report' = report
      /\ disk' = disk /\ lock' = lock /\ objects' = objects /\ sync' = sync
  BY DEF StartAgain
<1>3. /\ jobs' \in [Runs -> JobStatus] /\ jobs'[r] = "active"
      /\ \A q \in Runs \ {r} : jobs'[q] = jobs[q]
  BY <1>1, <1>2 DEF TypeOK, JobStatus
<1>4. report[r] \in Report
  BY <1>1 DEF TypeOK
<1>5. TypeOK'
  BY <1>1, <1>2, <1>3 DEF TypeOK
<1>6. Phases(r)' /\ Jobs(r)'
  BY <1>1, <1>2, <1>3 DEF RunInv, Phases, Jobs, Active, Stopped, Terminal
<1>7. Written(r)'
  BY <1>1, <1>2, <1>4 DEF RunInv, Written, Report, Files
<1>8. Starts(r)' /\ Reports(r)'
  BY <1>1, <1>2, <1>3 DEF RunInv, Starts, Reports
<1>9. \A q \in Runs \ {r} : RunInv(q)'
  BY <1>2, <1>3, OthersKept
<1>10. QED
  BY <1>5, <1>6, <1>7, <1>8, <1>9 DEF IngestionInv, RunInv

\* Recover: no job is active when the lock of a stopped run goes.
LEMMA RecoverKeeps ==
  ASSUME IngestionInv, NEW r \in Runs, Recover(r)
  PROVE IngestionInv'
<1> USE IngestionAssumption
<1>1. TypeOK /\ RunInv(r)
  BY DEF IngestionInv
<1>2. /\ lock = r /\ run[r].pc \in Stopped /\ ~Active(r) /\ lock' = NoRun
      /\ run' = run /\ report' = report
      /\ disk' = disk /\ objects' = objects /\ jobs' = jobs /\ sync' = sync
  BY DEF Recover, Ready
<1>3. TypeOK'
  BY <1>1, <1>2 DEF TypeOK
<1>4. RunInv(r)'
  BY <1>1, <1>2
  DEF RunInv, Phases, Jobs, Written, Starts, Reports, Active, Unlocked, Owning, Stopped
<1>5. \A q \in Runs \ {r} : RunInv(q)'
  <2>1. \A q \in Runs \ {r} : lock' = q <=> lock = q
    BY <1>2
  <2>2. QED
    BY <1>2, <2>1, OthersKept
<1>6. QED
  BY <1>3, <1>4, <1>5 DEF IngestionInv

\* OtherSync: none begins while a run uploads, for that run has the lock.
LEMMA OtherSyncKeeps ==
  ASSUME IngestionInv, OtherSync
  PROVE IngestionInv'
<1> USE IngestionAssumption
<1>1. /\ sync' = ~sync /\ (sync \/ lock = NoRun)
      /\ run' = run /\ report' = report
      /\ disk' = disk /\ lock' = lock /\ objects' = objects /\ jobs' = jobs
  BY DEF OtherSync
<1>2. TypeOK'
  BY <1>1 DEF IngestionInv, TypeOK
<1>3. ASSUME NEW r \in Runs PROVE RunInv(r)'
  <2>1. RunInv(r)
    BY DEF IngestionInv
  <2>2. run[r].pc = "uploading" => ~sync'
    BY <1>1, <2>1 DEF RunInv, Phases, Owning
  <2>3. Phases(r)'
    BY <1>1, <2>1, <2>2 DEF RunInv, Phases
  <2>4. Jobs(r)' /\ Written(r)' /\ Starts(r)' /\ Reports(r)'
    BY <1>1, <2>1 DEF RunInv, Jobs, Written, Starts, Reports, Active
  <2>5. QED
    BY <2>3, <2>4 DEF RunInv
<1>4. QED
  BY <1>2, <1>3 DEF IngestionInv

-----------------------------------------------------------------------------
(* The theorems. *)

\* Before any run nothing is held, written or reported.
LEMMA InitSafe == Init => IngestionInv
<1> SUFFICES ASSUME Init PROVE IngestionInv
  OBVIOUS
<1> USE IngestionAssumption DEF Init
<1>1. NoReport \in Report
  BY DEF NoReport, Report, JobStatus
<1>2. TypeOK
  BY <1>1 DEF TypeOK, Process, JobStatus
<1>3. ASSUME NEW r \in Runs PROVE RunInv(r)
  BY <1>3 DEF RunInv, Phases, Jobs, Written, Starts, Reports, Active, NoReport,
              Unlocked, Owning, Leaving, Stopped
<1>4. QED
  BY <1>2, <1>3 DEF IngestionInv

\* Every step keeps the invariant.
LEMMA NextSafe == IngestionInv /\ [Next]_vars => IngestionInv'
<1> SUFFICES ASSUME IngestionInv, [Next]_vars PROVE IngestionInv'
  OBVIOUS
<1>1. ASSUME NEW r \in Runs, Step(r) PROVE IngestionInv'
  BY <1>1, ValidateKeeps, AcquireKeeps, RecheckKeeps, UploadKeeps, AnnounceKeeps, StartKeeps,
     PollKeeps, RefusalKeeps, ReleaseKeeps, RetainKeeps, SaveReportKeeps DEF Step
<1>2. ASSUME NEW r \in Runs,
             \/ Begin(r) \/ PollUnsaved(r) \/ Fail(r) \/ Kill(r)
             \/ JobEnds(r) \/ StartAgain(r) \/ Recover(r)
      PROVE IngestionInv'
  BY <1>2, BeginKeeps, PollKeeps, RefusalKeeps, KillKeeps, JobEndsKeeps, StartAgainKeeps, RecoverKeeps
<1>3. CASE UNCHANGED vars
  BY <1>3 DEF vars, IngestionInv, TypeOK, RunInv, Phases, Jobs, Written, Starts, Reports, Active
<1>4. QED
  BY <1>1, <1>2, <1>3, OtherSyncKeeps DEF Next

\* IngestionInv is an invariant of every run of every instance.
THEOREM IngestionInvariant == Spec => []IngestionInv
  BY InitSafe, NextSafe, PTL DEF Spec

\* The variables hold what their descriptions say.
THEOREM IngestionTypes == Spec => []TypeOK
<1>1. IngestionInv => TypeOK
  BY DEF IngestionInv
<1>2. QED
  BY <1>1, IngestionInvariant, PTL

\* A run that may upload and a job that may read have the lock.
THEOREM LockIsKept == Spec => []LockOutlivesWork
<1>1. IngestionInv => LockOutlivesWork
  BY DEF IngestionInv, RunInv, Phases, Jobs, Owning, LockOutlivesWork
<1>2. QED
  BY <1>1, IngestionInvariant, PTL

\* An active job has before it the complete snapshot of its run.
THEOREM SnapshotIsWhole == Spec => []JobReadsOneSnapshot
<1>1. IngestionInv => JobReadsOneSnapshot
  BY DEF IngestionInv, RunInv, Written, JobReadsOneSnapshot
<1>2. QED
  BY <1>1, IngestionInvariant, PTL

\* A job that exists was announced in the saved report of its run.
THEOREM StartIsAnnounced == Spec => []StartIsDurable
<1>1. IngestionInv => StartIsDurable
  BY DEF IngestionInv, RunInv, Starts, StartIsDurable
<1>2. QED
  BY <1>1, IngestionInvariant, PTL

\* A lock left behind by a run that ended is in its report.
THEOREM LockIsNoted == Spec => []LockIsReported
<1>1. IngestionInv => LockIsReported
  BY DEF IngestionInv, RunInv, Reports, LockIsReported
<1>2. QED
  BY <1>1, IngestionInvariant, PTL

\* A run reported COMPLETE was indexed and has released the lock.
THEOREM CompleteIsTrue == Spec => []CompleteIsIngested
<1>1. IngestionInv => CompleteIsIngested
  BY DEF IngestionInv, RunInv, Reports, CompleteIsIngested
<1>2. QED
  BY <1>1, IngestionInvariant, PTL

\* No document changes while any job is active.
THEOREM NothingMovesDuringSync == Spec => NoUploadDuringSync
<1>1. IngestionInv /\ [Next]_vars => [objects' # objects => Ready]_vars
  <2> SUFFICES ASSUME IngestionInv, Next, objects' # objects PROVE Ready
    OBVIOUS
  <2>1. PICK r \in Runs : Upload(r)
    BY DEF Next, Begin, Step, Validate, Acquire, Recheck, Announce, Start, Poll, PollUnsaved,
           Refuse, Fail, Release, Retain, SaveReport, Kill, JobEnds, StartAgain, Recover, OtherSync
  <2>2. run[r].pc = "uploading"
    BY <2>1 DEF Upload
  <2>3. ~sync /\ lock = r /\ jobs[r] = "none"
    BY <2>2 DEF IngestionInv, RunInv, Phases, Jobs, Unlocked, Owning, Stopped
  <2>4. \A q \in Runs : ~Active(q)
    BY <2>3 DEF IngestionInv, RunInv, Jobs, Active
  <2>5. QED
    BY <2>3, <2>4 DEF Ready
<1>2. QED
  BY <1>1, IngestionInvariant, PTL DEF Spec, NoUploadDuringSync
=============================================================================
