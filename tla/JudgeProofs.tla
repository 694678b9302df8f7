---------------------------- MODULE JudgeProofs ----------------------------
(***************************************************************************)
(* The submission of judge jobs: type correctness, and the invariant from  *)
(* which one paid job for each prepared run, its place on file and its     *)
(* dataset follow, for any number of runs, files and commands.  Then the   *)
(* collection of their results, where input keys may be used again.        *)
(***************************************************************************)
EXTENDS JudgeProperties, JudgeCollection, TLAPS

Commands == {Idle} \cup Upload \cup Submission

\* What a command is at each of its points.
LEMMA CommandKinds ==
  ASSUME TypeOK, NEW p \in Procs
  PROVE  /\ proc[p].pc \in Uploading => proc[p] \in Upload
         /\ proc[p].pc \in Submitting => proc[p] \in Submission
         /\ proc[p] # Idle => proc[p].pc \in Uploading \cup Submitting
  BY DEF TypeOK, Idle, Upload, Submission, Uploading, Submitting

\* A command that ends, or moves on within its kind, stays a command.
LEMMA CommandMoves ==
  ASSUME TypeOK, NEW p \in Procs
  PROVE  /\ Ends(p) => proc' \in [Procs -> Commands]
         /\ \A pc \in Uploading :
              proc[p].pc \in Uploading /\ Goes(p, pc) => proc' \in [Procs -> Commands]
         /\ \A pc \in Submitting :
              proc[p].pc \in Submitting /\ Goes(p, pc) => proc' \in [Procs -> Commands]
<1> USE DEF TypeOK, Commands
<1>1. Ends(p) => proc' \in [Procs -> Commands]
  BY DEF Ends
<1>2. ASSUME NEW pc \in Uploading, proc[p].pc \in Uploading, Goes(p, pc)
      PROVE  proc' \in [Procs -> Commands]
  <2>1. [proc[p] EXCEPT !.pc = pc] \in Upload
    BY <1>2, CommandKinds DEF Upload
  <2> QED BY <1>2, <2>1 DEF Goes
<1>3. ASSUME NEW pc \in Submitting, proc[p].pc \in Submitting, Goes(p, pc)
      PROVE  proc' \in [Procs -> Commands]
  <2>1. [proc[p] EXCEPT !.pc = pc] \in Submission
    BY <1>3, CommandKinds DEF Submission
  <2> QED BY <1>3, <2>1 DEF Goes
<1> QED BY <1>1, <1>2, <1>3

\* What a command saves is a file.
LEMMA MineIsPaper ==
  ASSUME TypeOK, NEW p \in Procs, proc[p].pc \in Uploading \cup Submitting
  PROVE  Mine(p) \in Papers /\ Broken \in Papers
  BY CommandKinds DEF Mine, Paper, Papers, Upload, Submission

-----------------------------------------------------------------------------

\* Every step keeps every variable of JudgeSubmission in its type, also when a
\* command dies.
LEMMA NextType ==
  ASSUME TypeOK, [Next]_vars
  PROVE  TypeOK'
<1>1. ASSUME NEW p \in Procs, Begin(p) PROVE TypeOK'
  <2>1. ASSUME NEW r \in Runs, NEW d \in Data, NEW f \in Receipts, BeginUpload(p, r, d, f)
        PROVE  TypeOK'
    <3>1. [pc |-> "putting", run |-> r, data |-> d, path |-> f, job |-> NoJob] \in Upload
      BY DEF Upload, Uploading
    <3> QED BY <2>1, <3>1 DEF BeginUpload, Starts, TypeOK
  <2>2. ASSUME NEW r \in Runs, NEW d \in Data, NEW f \in Files, BeginSubmit(p, r, d, f)
        PROVE  TypeOK'
    <3>1. [pc |-> "opening", run |-> r, data |-> d, path |-> f, job |-> NoJob] \in Submission
      BY DEF Submission, Submitting
    <3> QED BY <2>2, <3>1 DEF BeginSubmit, Starts, TypeOK
  <2> QED BY <1>1, <2>1, <2>2 DEF Begin
<1>2. ASSUME NEW p \in Procs, Put(p) PROVE TypeOK'
  <2>1. proc' \in [Procs -> Commands]
    BY <1>2, CommandMoves DEF Put, Uploading
  <2>2. proc[p].data \in Data
    BY <1>2, CommandKinds DEF Put, Uploading, Upload
  <2>3. inputs' \in [Keys -> Data \cup {NoData}]
    BY <1>2, <2>2 DEF Put, TypeOK
  <2> QED BY <1>2, <2>1, <2>3 DEF Put, TypeOK, Commands
<1>3. ASSUME NEW p \in Procs, Note(p) PROVE TypeOK'
  <2>1. Mine(p) \in Papers /\ Broken \in Papers
    BY <1>3, MineIsPaper DEF Note, Uploading
  <2>2. receipts' \in [Receipts -> Papers]
    BY <1>3, <2>1 DEF Note, TypeOK
  <2>3. proc' \in [Procs -> Commands]
    BY <1>3, CommandMoves DEF Note
  <2> QED BY <1>3, <2>2, <2>3 DEF Note, TypeOK, Commands
<1>4. ASSUME NEW p \in Procs, Open(p) PROVE TypeOK'
  <2>1. Mine(p) \in Papers /\ Broken \in Papers
    BY <1>4, MineIsPaper DEF Open, Submitting
  <2>2. states' \in [Files -> Papers]
    BY <1>4, <2>1 DEF Open, TypeOK
  <2>3. proc' \in [Procs -> Commands]
    BY <1>4, CommandMoves DEF Open, Submitting
  <2> QED BY <1>4, <2>2, <2>3 DEF Open, TypeOK, Commands
<1>5. ASSUME NEW p \in Procs, Decline(p) \/ Verify(p) \/ Fail(p) PROVE TypeOK'
  <2>1. proc' \in [Procs -> Commands]
    BY <1>5, CommandMoves DEF Decline, Verify, Fail, Submitting
  <2> QED BY <1>5, <2>1 DEF Decline, Verify, Fail, TypeOK, Commands
<1>6. ASSUME NEW p \in Procs, Send(p) PROVE TypeOK'
  <2> DEFINE token == Token(proc[p].run, proc[p].path)
  <2>1. PICK j \in Replies(token) :
          /\ jobs' = [jobs EXCEPT ![j] = IF Exists(j) THEN @ ELSE Created(p, token)]
          /\ proc' = [proc EXCEPT ![p].pc = "saving", ![p].job = j] \/ Ends(p)
    BY <1>6 DEF Send
  <2>2. j \in Jobs
    BY DEF Replies
  <2>3. proc[p] \in Submission
    BY <1>6, CommandKinds DEF Send, Submitting
  <2>4. Created(p, token) \in Job
    BY <2>3 DEF Created, Token, Job, Submission
  <2>5. jobs' \in [Jobs -> Job]
    BY <2>1, <2>2, <2>4 DEF TypeOK
  <2>6. [proc[p] EXCEPT !.pc = "saving", !.job = j] \in Submission
    BY <2>2, <2>3 DEF Submission, Submitting
  <2>7. proc' \in [Procs -> Commands]
    BY <2>1, <2>6, CommandMoves DEF TypeOK, Commands
  <2> QED BY <1>6, <2>5, <2>7 DEF Send, TypeOK, Commands
<1>7. ASSUME NEW p \in Procs, Save(p) PROVE TypeOK'
  <2>1. Paper(proc[p].run, proc[p].data, proc[p].job) \in Papers
    BY <1>7, CommandKinds DEF Save, Paper, Papers, Submission, Submitting
  <2>2. states' \in [Files -> Papers]
    BY <1>7, <2>1 DEF Save, TypeOK
  <2>3. proc' \in [Procs -> Commands]
    BY <1>7, CommandMoves DEF Save
  <2> QED BY <1>7, <2>2, <2>3 DEF Save, TypeOK, Commands
<1>8. ASSUME NEW r \in Runs, GoStale(r) PROVE TypeOK'
  BY <1>8 DEF GoStale, TypeOK
<1>9. ASSUME NEW j \in Jobs, JobReads(j) PROVE TypeOK'
  <2>1. jobs[j].run \in Runs /\ jobs[j] # NotCreated
    BY <1>9 DEF JobReads, TypeOK, Job, NotCreated
  <2>2. inputs[KeyOf[jobs[j].run]] \in Data \cup {NoData}
    BY <2>1, JudgeAssumption DEF TypeOK
  <2>3. [jobs[j] EXCEPT !.data = inputs[KeyOf[jobs[j].run]]] \in Job
    BY <2>1, <2>2 DEF TypeOK, Job
  <2> QED BY <1>9, <2>3 DEF JobReads, TypeOK
<1>10. ASSUME NEW j \in Jobs, JobEnds(j) PROVE TypeOK'
  <2>1. jobs[j] # NotCreated
    BY <1>10 DEF JobEnds, NotCreated
  <2>2. \A status \in {"completed", "failed"} : [jobs[j] EXCEPT !.status = status] \in Job
    BY <2>1 DEF TypeOK, Job
  <2> QED BY <1>10, <2>2 DEF JobEnds, TypeOK
<1>11. CASE UNCHANGED vars
  BY <1>11 DEF vars, TypeOK
<1> QED
  BY <1>1, <1>2, <1>3, <1>4, <1>5, <1>6, <1>7, <1>8, <1>9, <1>10, <1>11 DEF Next, Step

\* Every variable of JudgeSubmission has its type at all times.
THEOREM TypeCorrect == Spec => []TypeOK
<1>1. Init => TypeOK
  BY DEF Init, TypeOK, Papers, Job
<1> QED
  BY <1>1, NextType, PTL DEF Spec

-----------------------------------------------------------------------------
(* The invariant. *)

\* A file that holds the request of a run for a dataset.
Holds(f, r, d) == states[f].text = "whole" /\ states[f].run = r /\ states[f].data = d

\* What a command may rely on at each of its points: the request on file, and
\* the job.
Remembers(p) ==
  /\ proc[p].pc \in {"verifying", "sending", "saving"} =>
       Holds(proc[p].path, proc[p].run, proc[p].data)
  /\ proc[p].pc = "saving" =>
       /\ proc[p].job \in Jobs /\ Exists(proc[p].job)
       /\ jobs[proc[p].job].run = proc[p].run

\* A job is of its token's run, and that one's request is on file.
Backed(j) ==
  Exists(j) =>
    /\ jobs[j].token = jobs[j].run
    /\ \E f \in Files : states[f].text = "whole" /\ states[f].run = jobs[j].run

\* An ARN on file is of a job of the same run.
Linked(f) ==
  states[f].job # NoJob => Exists(states[f].job) /\ jobs[states[f].job].run = states[f].run

TokensAreUsedOnce ==
  \A i, j \in Jobs : Exists(i) /\ Exists(j) /\ jobs[i].token = jobs[j].token => i = j

\* What holds whatever becomes of the inputs.
PaidInv ==
  /\ \A p \in Procs : Remembers(p)
  /\ \A j \in Jobs : Backed(j)
  /\ \A f \in Files : Linked(f)
  /\ TokensAreUsedOnce

\* What a command has seen under the key, and what a job and a file with its
\* ARN have of it.
Verified(p) == proc[p].pc \in {"noting", "sending", "saving"} => Input(p) = proc[p].data
HasRead(j) == Exists(j) => jobs[j].data \in {NoData, inputs[KeyOf[jobs[j].run]]}
Describes(f) == states[f].job # NoJob => inputs[KeyOf[states[f].run]] = states[f].data

\* What holds as long as no input is taken away.
InputInv ==
  /\ \A p \in Procs : Verified(p)
  /\ \A j \in Jobs : HasRead(j)
  /\ \A f \in Files : Describes(f)
  /\ ReceiptIsTrue

JudgeInv == PaidInv /\ InputInv

-----------------------------------------------------------------------------
(* Requests and jobs, whatever becomes of the inputs. *)

\* A step of the submission, or one that may take an input away.
PaidStep == [Next]_vars \/ UNCHANGED <<proc, states, jobs>>

\* What no step takes back: saved requests and jobs.
Keeps ==
  /\ \A f \in Files : states[f].text = "whole" =>
       states'[f].text = "whole" /\ states'[f].run = states[f].run /\ states'[f].data = states[f].data
  /\ \A j \in Jobs : Exists(j) =>
       Exists(j)' /\ jobs'[j].run = jobs[j].run /\ jobs'[j].token = jobs[j].token

\* Every step, of whatever command, keeps those.
LEMMA StepsKeep ==
  ASSUME TypeOK, PaidInv, PaidStep
  PROVE  Keeps
<1>1. ASSUME NEW p \in Procs, Open(p) PROVE Keeps
  BY <1>1 DEF Open, Keeps, TypeOK, Exists, NoPaper, Mine, Paper
<1>2. ASSUME NEW p \in Procs, Send(p) PROVE Keeps
  <2>1. PICK j \in Jobs :
          jobs' = [jobs EXCEPT ![j] = IF Exists(j) THEN @
                                      ELSE Created(p, Token(proc[p].run, proc[p].path))]
    BY <1>2 DEF Send, Replies
  <2> QED BY <1>2, <2>1 DEF Send, Keeps, TypeOK, Exists
<1>3. ASSUME NEW p \in Procs, Save(p) PROVE Keeps
  <2>1. Holds(proc[p].path, proc[p].run, proc[p].data)
    BY <1>3 DEF Save, PaidInv, Remembers
  <2> QED BY <1>3, <2>1 DEF Save, Keeps, TypeOK, Exists, Holds, Paper
<1>4. ASSUME NEW j \in Jobs, JobReads(j) \/ JobEnds(j) PROVE Keeps
  BY <1>4 DEF JobReads, JobEnds, Keeps, TypeOK, Exists, Job, NotCreated
<1>5. ASSUME UNCHANGED <<states, jobs>> PROVE Keeps
  BY <1>5 DEF Keeps, Exists
<1> QED
  BY <1>1, <1>2, <1>3, <1>4, <1>5
     DEF PaidStep, Next, Step, Begin, BeginUpload, BeginSubmit, Put, Note, Decline, Verify, Fail,
         GoStale, vars

\* A command that ends is at no point of its code.
LEMMA CommandEnds ==
  ASSUME TypeOK, NEW q \in Procs, Ends(q)
  PROVE  proc'[q].pc = "idle"
  BY DEF TypeOK, Ends, Idle

\* A command that goes on from here to there.
LEMMA GoesOn ==
  ASSUME TypeOK, NEW q \in Procs, NEW pc, Goes(q, pc), proc[q].pc \in Uploading \cup Submitting
  PROVE  proc'[q].pc = pc /\ proc'[q].run = proc[q].run /\ proc'[q].data = proc[q].data
  BY CommandKinds DEF TypeOK, Goes, Upload, Submission

\* Only its own steps move a command.
LEMMA OthersStay ==
  ASSUME TypeOK, NEW p \in Procs, NEW q \in Procs, p # q, Begin(p) \/ Step(p) \/ Fail(p)
  PROVE  proc'[q] = proc[q]
  BY DEF Begin, BeginUpload, BeginSubmit, Starts, Step, Put, Note, Open, Decline, Verify,
         Send, Save, Fail, Goes, Ends, TypeOK

\* The command that moved remembers what it has done, the others as before.
LEMMA RemembersNext ==
  ASSUME TypeOK, PaidInv, Keeps, PaidStep, NEW q \in Procs
  PROVE  Remembers(q)'
<1>1. Remembers(q)
  BY DEF PaidInv
<1>2. CASE proc'[q] = proc[q]
  <2>1. ASSUME proc[q].pc \in {"verifying", "sending", "saving"}
        PROVE  Holds(proc[q].path, proc[q].run, proc[q].data)'
    BY <1>1, <1>2, <2>1, CommandKinds DEF Submission, Submitting, Remembers, Holds, Keeps
  <2>2. ASSUME proc[q].pc = "saving"
        PROVE  Exists(proc[q].job)' /\ jobs'[proc[q].job].run = proc[q].run
    BY <1>1, <1>2, <2>2 DEF Remembers, Keeps, Exists
  <2> QED BY <1>1, <1>2, <2>1, <2>2 DEF Remembers
<1>3. CASE proc'[q].pc \notin {"verifying", "sending", "saving"}
  BY <1>3 DEF Remembers
<1>4. ASSUME Open(q), Goes(q, "verifying") PROVE Remembers(q)'
  <2>1. proc[q] \in Submission /\ proc'[q] = [proc[q] EXCEPT !.pc = "verifying"]
    BY <1>4, CommandKinds DEF Open, Goes, Submitting, TypeOK
  <2>2. /\ proc'[q].pc = "verifying" /\ proc'[q].path = proc[q].path /\ proc[q].path \in Files
        /\ proc'[q].run = proc[q].run /\ proc'[q].data = proc[q].data
    BY <2>1 DEF Submission
  <2>3. states'[proc[q].path] = Mine(q)
    BY <1>4, <2>2, CommandEnds DEF Open, TypeOK
  <2> QED BY <2>2, <2>3 DEF Remembers, Holds, Mine, Paper
<1>5. ASSUME Verify(q), Goes(q, "sending") PROVE Remembers(q)'
  <2>1. proc[q] \in Submission /\ proc'[q] = [proc[q] EXCEPT !.pc = "sending"]
    BY <1>5, CommandKinds DEF Verify, Goes, Submitting, TypeOK
  <2>2. /\ proc'[q].pc = "sending" /\ proc'[q].path = proc[q].path
        /\ proc'[q].run = proc[q].run /\ proc'[q].data = proc[q].data
    BY <2>1 DEF Submission
  <2> QED BY <1>1, <1>5, <2>2 DEF Verify, Remembers, Holds
<1>6. ASSUME Send(q), proc'[q].pc = "saving" PROVE Remembers(q)'
  <2> DEFINE token == Token(proc[q].run, proc[q].path)
  <2>1. PICK j \in Jobs :
          /\ Exists(j) => jobs[j].token = token
          /\ jobs' = [jobs EXCEPT ![j] = IF Exists(j) THEN @ ELSE Created(q, token)]
          /\ proc' = [proc EXCEPT ![q].pc = "saving", ![q].job = j]
    BY <1>6, CommandEnds DEF Send, Replies
  <2>2. Exists(j)' /\ jobs'[j].run = proc[q].run
    BY <2>1 DEF TypeOK, Exists, Created, Token, PaidInv, Backed
  <2>3. proc[q] \in Submission /\ proc'[q] = [proc[q] EXCEPT !.pc = "saving", !.job = j]
    BY <1>6, <2>1, CommandKinds DEF Send, Submitting, TypeOK
  <2>4. /\ proc'[q].pc = "saving" /\ proc'[q].path = proc[q].path /\ proc'[q].job = j
        /\ proc'[q].run = proc[q].run /\ proc'[q].data = proc[q].data
    BY <2>3 DEF Submission
  <2> QED BY <1>1, <1>6, <2>2, <2>4 DEF Send, Remembers, Holds
<1>7. ASSUME Begin(q) \/ Step(q) \/ Fail(q) PROVE Remembers(q)'
  <2>1. CASE Begin(q) \/ Put(q) \/ Note(q) \/ Decline(q) \/ Save(q) \/ Fail(q)
    <3>1. Begin(q) => proc'[q].pc \in {"putting", "opening"}
      BY DEF Begin, BeginUpload, BeginSubmit, Starts, TypeOK
    <3>2. Put(q) => proc'[q].pc \in {"noting", "idle"}
      BY GoesOn, CommandEnds DEF Put, Uploading
    <3> QED BY <1>3, <2>1, <3>1, <3>2, CommandEnds DEF Note, Decline, Save, Fail
  <2>2. CASE Open(q)
    BY <1>3, <1>4, <2>2, CommandEnds DEF Open
  <2>3. CASE Verify(q)
    BY <1>3, <1>5, <2>3, CommandEnds DEF Verify
  <2>4. CASE Send(q)
    <3>1. proc[q] \in Submission
      BY <2>4, CommandKinds DEF Send, Submitting
    <3>2. \/ proc'[q].pc = "idle"
          \/ \E j \in Jobs : proc'[q] = [proc[q] EXCEPT !.pc = "saving", !.job = j]
      BY <2>4, CommandEnds DEF Send, TypeOK, Replies
    <3>3. proc'[q].pc \in {"idle", "saving"}
      BY <3>1, <3>2 DEF Submission
    <3> QED BY <1>3, <1>6, <2>4, <3>3
  <2> QED BY <1>7, <2>1, <2>2, <2>3, <2>4 DEF Step
<1> QED
  BY <1>2, <1>7, OthersStay DEF PaidStep, Next, GoStale, JobReads, JobEnds, vars

\* Only a call of submit creates a job, under a token that no other job has,
\* and a job that exists stays backed.
LEMMA JobsNext ==
  ASSUME TypeOK, PaidInv, Keeps, PaidStep
  PROVE  (\A j \in Jobs : Backed(j))' /\ TokensAreUsedOnce'
<1>1. ASSUME NEW j \in Jobs, Exists(j) PROVE Backed(j)'
  BY <1>1 DEF PaidInv, Backed, Keeps
<1>2. ASSUME \A j \in Jobs : Exists(j)' => Exists(j)
      PROVE  (\A j \in Jobs : Backed(j))' /\ TokensAreUsedOnce'
  <2>1. \A j \in Jobs : Exists(j)' => jobs'[j].token = jobs[j].token
    BY <1>2 DEF Keeps
  <2> QED BY <1>1, <1>2, <2>1 DEF TokensAreUsedOnce, PaidInv, Backed
<1>3. ASSUME NEW p \in Procs, Send(p)
      PROVE  (\A j \in Jobs : Backed(j))' /\ TokensAreUsedOnce'
  <2> DEFINE token == Token(proc[p].run, proc[p].path)
  <2>1. PICK i \in Replies(token) :
          jobs' = [jobs EXCEPT ![i] = IF Exists(i) THEN @ ELSE Created(p, token)]
    BY <1>3 DEF Send
  <2>2. i \in Jobs /\ (~Exists(i) => \A j \in Jobs : Exists(j) => jobs[j].token # token)
    BY <2>1 DEF Replies
  <2>3. CASE Exists(i)
    <3>1. jobs' = jobs
      BY <2>1, <2>2, <2>3 DEF TypeOK
    <3> QED BY <1>2, <3>1 DEF Exists
  <2>4. CASE ~Exists(i)
    <3>1. jobs'[i] = Created(p, token) /\ \A j \in Jobs \ {i} : jobs'[j] = jobs[j]
      BY <2>1, <2>2, <2>4 DEF TypeOK
    <3>2. /\ proc[p].path \in Files
          /\ states[proc[p].path].text = "whole" /\ states[proc[p].path].run = proc[p].run
      BY <1>3, CommandKinds DEF Send, Submission, Submitting, PaidInv, Remembers, Holds
    <3>3. Backed(i)'
      BY <1>3, <3>1, <3>2 DEF Backed, Created, Token, Send
    <3>4. (\A j \in Jobs : Backed(j))'
      BY <1>1, <3>1, <3>3 DEF Backed, Exists
    <3>5. TokensAreUsedOnce'
      BY <2>2, <2>4, <3>1 DEF TokensAreUsedOnce, PaidInv, Exists, Created
    <3> QED BY <3>4, <3>5
  <2> QED BY <2>3, <2>4
<1>4. ASSUME NEW i \in Jobs, JobReads(i) \/ JobEnds(i) PROVE \A j \in Jobs : Exists(j)' => Exists(j)
  BY <1>4 DEF JobReads, JobEnds, TypeOK, Exists
<1>5. ASSUME UNCHANGED jobs PROVE \A j \in Jobs : Exists(j)' => Exists(j)
  BY <1>5 DEF Exists
<1> QED
  BY <1>2, <1>3, <1>4, <1>5
     DEF PaidStep, Next, Begin, BeginUpload, BeginSubmit, Step, Put, Note, Open, Decline, Verify, Save,
         Fail, GoStale, vars

\* A file gets its ARN from a command that knows the job.
LEMMA FilesNext ==
  ASSUME TypeOK, PaidInv, Keeps, PaidStep, NEW f \in Files
  PROVE  Linked(f)'
<1>1. ASSUME states'[f] = states[f] PROVE Linked(f)'
  <2>1. states[f].job \in Jobs \cup {NoJob}
    BY DEF TypeOK, Papers, NoPaper, Broken
  <2> QED BY <1>1, <2>1 DEF PaidInv, Linked, Keeps
<1>2. ASSUME NEW p \in Procs, Open(p) PROVE Linked(f)'
  <2>1. states'[f] = states[f] \/ states'[f].job = NoJob
    BY <1>2 DEF Open, TypeOK, Mine, Paper, Broken, NoPaper
  <2> QED BY <1>1, <2>1 DEF Linked
<1>3. ASSUME NEW p \in Procs, Save(p) PROVE Linked(f)'
  BY <1>3 DEF Save, TypeOK, Linked, PaidInv, Remembers, Paper, Exists
<1> QED
  BY <1>1, <1>2, <1>3
     DEF PaidStep, Next, Begin, BeginUpload, BeginSubmit, Step, Put, Note, Decline, Verify, Send,
         Fail, GoStale, JobReads, JobEnds, vars

\* Every step keeps PaidInv, also one that takes an input away.
LEMMA PaidNext ==
  ASSUME TypeOK, PaidInv, PaidStep
  PROVE  PaidInv'
  BY StepsKeep, RemembersNext, JobsNext, FilesNext DEF PaidInv

-----------------------------------------------------------------------------
(* What is said of the inputs, which no step of the submission changes. *)

InputsStay == \A k \in Keys : inputs[k] # NoData => inputs'[k] = inputs[k]

\* The write is conditional.
LEMMA StepsKeepInputs ==
  ASSUME TypeOK, [Next]_vars
  PROVE  InputsStay
<1>1. ASSUME NEW p \in Procs, Put(p) PROVE InputsStay
  BY <1>1 DEF Put, InputsStay, TypeOK
<1>2. ASSUME UNCHANGED inputs PROVE InputsStay
  BY <1>2 DEF InputsStay
<1> QED
  BY <1>1, <1>2
     DEF Next, Step, Begin, BeginUpload, BeginSubmit, Note, Open, Decline, Verify, Send, Save, Fail,
         GoStale, JobReads, JobEnds, vars

\* A command has verified what it wrote or compared.
LEMMA VerifiedNext ==
  ASSUME TypeOK, InputInv, InputsStay, [Next]_vars, NEW q \in Procs
  PROVE  Verified(q)'
<1>1. Verified(q)
  BY DEF InputInv
<1>2. ASSUME proc[q].pc \in {"noting", "sending", "saving"},
             proc'[q].run = proc[q].run, proc'[q].data = proc[q].data
      PROVE  Verified(q)'
  <2>1. proc[q].run \in Runs /\ proc[q].data \in Data
    BY <1>2, CommandKinds DEF Submission, Submitting, Upload, Uploading
  <2>2. Input(q) # NoData /\ KeyOf[proc[q].run] \in Keys
    BY <1>1, <1>2, <2>1, JudgeAssumption DEF Verified
  <2> QED BY <1>1, <1>2, <2>2 DEF Verified, Input, InputsStay
<1>3. CASE proc'[q] = proc[q]
  BY <1>1, <1>2, <1>3 DEF Verified
<1>4. CASE proc'[q].pc \notin {"noting", "sending", "saving"}
  BY <1>4 DEF Verified
<1>5. ASSUME Put(q), Goes(q, "noting") PROVE Verified(q)'
  <2>1. proc'[q].pc = "noting" /\ proc'[q].run = proc[q].run /\ proc'[q].data = proc[q].data
    BY <1>5, GoesOn DEF Put, Uploading
  <2>2. inputs'[KeyOf[proc[q].run]] = proc[q].data
    BY <1>5, <2>1, CommandEnds DEF Put
  <2> QED BY <2>1, <2>2 DEF Verified, Input
<1>6. ASSUME Verify(q), Goes(q, "sending") PROVE Verified(q)'
  <2>1. proc'[q].pc = "sending" /\ proc'[q].run = proc[q].run /\ proc'[q].data = proc[q].data
    BY <1>6, GoesOn DEF Verify, Submitting
  <2>2. Input(q) = proc[q].data
    BY <1>6, <2>1, CommandEnds DEF Verify
  <2> QED BY <1>6, <2>1, <2>2 DEF Verify, Verified, Input
<1>7. ASSUME Begin(q) \/ Step(q) \/ Fail(q) PROVE Verified(q)'
  <2>1. CASE Begin(q) \/ Note(q) \/ Open(q) \/ Decline(q) \/ Save(q) \/ Fail(q)
    <3>1. Begin(q) => proc'[q].pc \in {"putting", "opening"}
      BY DEF Begin, BeginUpload, BeginSubmit, Starts, TypeOK
    <3>2. Open(q) => proc'[q].pc \in {"verifying", "idle"}
      BY GoesOn, CommandEnds DEF Open, Submitting
    <3> QED BY <1>4, <2>1, <3>1, <3>2, CommandEnds DEF Note, Decline, Save, Fail
  <2>2. CASE Put(q)
    BY <1>4, <1>5, <2>2, CommandEnds DEF Put
  <2>3. CASE Verify(q)
    BY <1>4, <1>6, <2>3, CommandEnds DEF Verify
  <2>4. CASE Send(q)
    <3>1. proc[q] \in Submission /\ proc[q].pc = "sending"
      BY <2>4, CommandKinds DEF Send, Submitting
    <3>2. \/ proc'[q].pc = "idle"
          \/ \E j \in Jobs : proc'[q] = [proc[q] EXCEPT !.pc = "saving", !.job = j]
      BY <2>4, CommandEnds DEF Send, TypeOK, Replies
    <3>3. proc'[q].pc = "idle" \/ (proc'[q].run = proc[q].run /\ proc'[q].data = proc[q].data)
      BY <3>1, <3>2 DEF Submission
    <3> QED BY <1>2, <1>4, <3>1, <3>3
  <2> QED BY <1>7, <2>1, <2>2, <2>3, <2>4 DEF Step
<1> QED
  BY <1>3, <1>7, OthersStay DEF Next, GoStale, JobReads, JobEnds, vars

\* A job reads what is under the key, and that stays there.
LEMMA JobsReadInputs ==
  ASSUME TypeOK, InputInv, InputsStay, [Next]_vars, NEW j \in Jobs
  PROVE  HasRead(j)'
<1>1. HasRead(j)
  BY DEF InputInv
<1>2. ASSUME jobs'[j] = jobs[j] PROVE HasRead(j)'
  <2>1. Exists(j) => KeyOf[jobs[j].run] \in Keys
    BY JudgeAssumption DEF TypeOK, Job, NotCreated, Exists
  <2> QED BY <1>1, <1>2, <2>1 DEF HasRead, InputsStay, Exists
<1>3. ASSUME NEW p \in Procs, Send(p) PROVE HasRead(j)'
  <2>1. jobs'[j] \in {jobs[j], Created(p, Token(proc[p].run, proc[p].path))}
    BY <1>3 DEF Send, Replies, TypeOK
  <2> QED BY <1>2, <2>1 DEF HasRead, Created
<1>4. ASSUME NEW i \in Jobs, JobReads(i) \/ JobEnds(i) PROVE HasRead(j)'
  <2>1. CASE i # j
    BY <1>2, <1>4, <2>1 DEF JobReads, JobEnds, TypeOK
  <2>2. CASE i = j
    <3>1. jobs[j] \in [status: {"running", "completed", "failed"}, token: Runs, run: Runs,
                       data: Data \cup {NoData}]
      BY <1>4, <2>2 DEF JobReads, JobEnds, TypeOK, Job, NotCreated
    <3>2. /\ Exists(j) /\ jobs'[j].run = jobs[j].run /\ UNCHANGED inputs
          /\ jobs'[j].data \in {jobs[j].data, inputs[KeyOf[jobs[j].run]]}
      BY <1>4, <2>2, <3>1 DEF JobReads, JobEnds, TypeOK, Exists
    <3> QED BY <1>1, <3>2 DEF HasRead
  <2> QED BY <2>1, <2>2
<1> QED
  BY <1>2, <1>3, <1>4
     DEF Next, Begin, BeginUpload, BeginSubmit, Step, Put, Note, Open, Decline, Verify, Save,
         Fail, GoStale, vars

\* A file gets its ARN from a command that has verified the input.
LEMMA FilesDescribeInputs ==
  ASSUME TypeOK, InputInv, InputsStay, [Next]_vars, NEW f \in Files
  PROVE  Describes(f)'
<1>1. ASSUME states'[f] = states[f] PROVE Describes(f)'
  <2>1. states[f].job # NoJob => states[f].data # NoData /\ KeyOf[states[f].run] \in Keys
    BY JudgeAssumption DEF TypeOK, Papers, NoPaper, Broken
  <2> QED BY <1>1, <2>1 DEF InputInv, Describes, InputsStay
<1>2. ASSUME NEW p \in Procs, Open(p) PROVE Describes(f)'
  <2>1. states'[f] = states[f] \/ states'[f].job = NoJob
    BY <1>2 DEF Open, TypeOK, Mine, Paper, Broken, NoPaper
  <2> QED BY <1>1, <2>1 DEF Describes
<1>3. ASSUME NEW p \in Procs, Save(p) PROVE Describes(f)'
  <2>1. Input(p) = proc[p].data /\ UNCHANGED inputs
    BY <1>3 DEF Save, InputInv, Verified
  <2>2. states'[f] \in {states[f], Paper(proc[p].run, proc[p].data, proc[p].job)}
    BY <1>3 DEF Save, TypeOK
  <2> QED BY <1>1, <2>1, <2>2 DEF Describes, Paper, Input
<1> QED
  BY <1>1, <1>2, <1>3
     DEF Next, Begin, BeginUpload, BeginSubmit, Step, Put, Note, Decline, Verify, Send,
         Fail, GoStale, JobReads, JobEnds, vars

\* A receipt is written by a command that knows the input.
LEMMA ReceiptsNext ==
  ASSUME TypeOK, InputInv, InputsStay, [Next]_vars
  PROVE  ReceiptIsTrue'
<1>1. ASSUME NEW f \in Receipts, receipts'[f] = receipts[f], receipts[f].text = "whole"
      PROVE  inputs'[KeyOf[receipts[f].run]] = receipts[f].data
  <2>1. KeyOf[receipts[f].run] \in Keys /\ receipts[f].data # NoData
    BY <1>1, JudgeAssumption DEF TypeOK, Papers, NoPaper, Broken
  <2> QED BY <1>1, <2>1 DEF InputInv, ReceiptIsTrue, InputsStay
<1>2. CASE UNCHANGED receipts
  BY <1>1, <1>2 DEF ReceiptIsTrue
<1>3. ASSUME NEW p \in Procs, Note(p) PROVE ReceiptIsTrue'
  <2>1. \A f \in Receipts : receipts'[f] \in {receipts[f], Mine(p), Broken}
    BY <1>3 DEF Note, TypeOK
  <2>2. UNCHANGED inputs /\ Input(p) = proc[p].data
    BY <1>3 DEF Note, InputInv, Verified
  <2> QED BY <1>1, <2>1, <2>2 DEF ReceiptIsTrue, Mine, Paper, Broken, NoPaper, Input
<1> QED
  BY <1>2, <1>3
     DEF Next, Begin, BeginUpload, BeginSubmit, Step, Put, Open, Decline, Verify, Send, Save,
         Fail, GoStale, JobReads, JobEnds, vars

\* Nothing is known and nothing is there at first.
LEMMA InitInv == Init => JudgeInv
  BY DEF Init, JudgeInv, PaidInv, Remembers, Idle, Backed, Linked, TokensAreUsedOnce, InputInv,
         Verified, HasRead, Describes, ReceiptIsTrue, Exists, NotCreated, NoPaper

\* JudgeInv is inductive, with the types.
THEOREM JudgeInvariant == Spec => []JudgeInv
<1>1. TypeOK /\ JudgeInv /\ [Next]_vars => JudgeInv'
  <2> SUFFICES ASSUME TypeOK, JudgeInv, [Next]_vars PROVE JudgeInv'
    OBVIOUS
  <2>1. PaidInv'
    BY PaidNext DEF JudgeInv, PaidStep
  <2>2. InputInv'
    BY StepsKeepInputs, VerifiedNext, JobsReadInputs, FilesDescribeInputs, ReceiptsNext
       DEF JudgeInv, InputInv
  <2> QED BY <2>1, <2>2 DEF JudgeInv
<1> QED
  BY <1>1, InitInv, TypeCorrect, PTL DEF Spec

-----------------------------------------------------------------------------

\* However submissions of a run are repeated, from whatever files, Bedrock
\* is asked with one token and has one job for it.
THEOREM PaidOnce == Spec => []OneJobPerRun
<1>1. JudgeInv => OneJobPerRun
  BY DEF JudgeInv, PaidInv, OneJobPerRun, Backed, TokensAreUsedOnce
<1> QED
  BY <1>1, JudgeInvariant, PTL

\* Every job has its request in a state file, which was written before the
\* call and outlives every process.
THEOREM PaidIsOnFile == Spec => []PaidJobIsOnFile
<1>1. JudgeInv => PaidJobIsOnFile
  BY DEF JudgeInv, PaidInv, PaidJobIsOnFile, Backed
<1> QED
  BY <1>1, JudgeInvariant, PTL

\* The job whose ARN a file has reads the dataset the file describes.
THEOREM JobReadsItsDataset == Spec => []SavedJobReadsSavedData
<1>1. TypeOK /\ JudgeInv => SavedJobReadsSavedData
  BY JudgeAssumption
     DEF JudgeInv, PaidInv, InputInv, SavedJobReadsSavedData, Linked, HasRead, Describes
<1> QED
  BY <1>1, TypeCorrect, JudgeInvariant, PTL

\* A receipt names what is under the key.
THEOREM ReceiptsAreTrue == Spec => []ReceiptIsTrue
<1>1. JudgeInv => ReceiptIsTrue
  BY DEF JudgeInv, InputInv
<1> QED
  BY <1>1, JudgeInvariant, PTL

\* No step changes a saved request, and none changes an ARN.
THEOREM RequestsAreKept == Spec => SavedRequestIsKept
<1> DEFINE Kept(f) ==
      states'[f] \in {states[f]} \cup
        {Paper(states[f].run, states[f].data, j) : j \in IF states[f].job = NoJob THEN Jobs ELSE {}}
<1>1. ASSUME TypeOK, JudgeInv, Next, NEW f \in Files, states[f].text = "whole"
      PROVE  Kept(f)
  <2>1. CASE states'[f] = states[f]
    BY <2>1
  <2>2. ASSUME NEW p \in Procs, Open(p) PROVE states'[f] = states[f]
    BY <1>1, <2>2 DEF Open, TypeOK, NoPaper
  <2>3. ASSUME NEW p \in Procs, Save(p), f = proc[p].path PROVE Kept(f)
    <3>1. Holds(f, proc[p].run, proc[p].data) /\ proc[p].job \in Jobs
      BY <1>1, <2>3 DEF Save, JudgeInv, PaidInv, Remembers
    <3>2. states'[f] = Paper(states[f].run, states[f].data, proc[p].job)
      BY <1>1, <2>3, <3>1 DEF Save, Holds, TypeOK
    <3>3. CASE states[f].job = NoJob
      BY <3>1, <3>2, <3>3
    <3>4. CASE states[f].job # NoJob
      <4>1. states[f].job \in Jobs /\ states[f] = Paper(states[f].run, states[f].data, states[f].job)
        BY <1>1, <3>4 DEF TypeOK, Papers, Paper, NoPaper, Broken
      <4>2. proc[p].job = states[f].job
        BY <1>1, <2>3, <3>1, <3>4, <4>1
           DEF Save, JudgeInv, PaidInv, Remembers, Linked, Backed, Holds, TokensAreUsedOnce
      <4> QED BY <3>2, <4>1, <4>2
    <3> QED BY <3>3, <3>4
  <2>4. ASSUME NEW p \in Procs, Save(p), f # proc[p].path PROVE states'[f] = states[f]
    BY <2>4, <1>1 DEF Save, TypeOK
  <2>5. states' = states \/ \E p \in Procs : Open(p) \/ Save(p)
    BY <1>1 DEF Next, Begin, BeginUpload, BeginSubmit, Step, Put, Note, Decline, Verify, Send,
                Fail, GoStale, JobReads, JobEnds
  <2> QED
    BY <2>1, <2>2, <2>3, <2>4, <2>5
<1>2. TypeOK /\ JudgeInv /\ [Next]_vars =>
        [\A f \in Files : states[f].text = "whole" => Kept(f)]_vars
  BY <1>1
<1> QED
  BY <1>2, TypeCorrect, JudgeInvariant, PTL DEF Spec, SavedRequestIsKept

-----------------------------------------------------------------------------
(* Collection. *)

\* The artifacts that make up all a job has written.
ArtifactsOf(j) == {[job |-> j, part |-> part] : part \in results[j]}

Collecting == [pc: {"reading", "making", "downloading"}, run: Runs, data: Data, job: Jobs, out: Outs]
Artifacts == [job: Jobs, part: Parts]
Output == [made: BOOLEAN, artifacts: SUBSET Artifacts,
           report: {NotReported} \cup [job: Jobs, data: Data, complete: BOOLEAN]]

CollectType ==
  /\ TypeOK
  /\ collect \in [Collectors -> {NotCollecting} \cup Collecting]
  /\ outputs \in [Outs -> Output]
  /\ results \in [Jobs -> SUBSET Parts]

\* What is collected is of a job that has ended, which is why nothing below
\* changes under a collect command.
Collects(c) == collect[c] # NotCollecting => jobs[collect[c].job].status = "completed"

\* A command that downloads made the directory, and is the only one there.
Downloads(c) ==
  collect[c].pc = "downloading" =>
    /\ outputs[collect[c].out].made /\ ~Reported(collect[c].out)
    /\ outputs[collect[c].out].artifacts \subseteq ArtifactsOf(collect[c].job)
    /\ \A d \in Collectors :
         collect[d].pc = "downloading" /\ collect[d].out = collect[c].out => d = c

\* A directory that was not made holds nothing.
Unmade(o) == ~outputs[o].made => outputs[o].artifacts = {} /\ ~Reported(o)

\* What is true of a report when it is written stays true.
Shows(o) ==
  Reported(o) =>
    /\ \A c \in Collectors : collect[c].pc = "downloading" => collect[c].out # o
    /\ jobs[outputs[o].report.job].status = "completed"
    /\ outputs[o].artifacts = ArtifactsOf(outputs[o].report.job)
    /\ outputs[o].report.complete =>
         jobs[outputs[o].report.job].data = outputs[o].report.data

CollectInv ==
  /\ \A c \in Collectors : Collects(c) /\ Downloads(c)
  /\ \A o \in Outs : Unmade(o) /\ Shows(o)

\* What a step leaves alone of a job that has ended: the job and its results.
HasEnded(j) == jobs[j].status = "completed"
EndedStays ==
  \A j \in Jobs : HasEnded(j) => jobs'[j] = jobs[j] /\ results'[j] = results[j]

\* What a collect command has in memory once it runs.
LEMMA CollectorKinds ==
  ASSUME CollectType, NEW c \in Collectors
  PROVE  /\ collect[c] # NotCollecting => collect[c] \in Collecting
         /\ collect[c].pc # "idle" => collect[c] # NotCollecting
  BY DEF CollectType, NotCollecting, Collecting

\* A command that leaves, or moves on, stays a command.
LEMMA CollectorMoves ==
  ASSUME CollectType, NEW c \in Collectors
  PROVE  /\ Leaves(c) => collect' \in [Collectors -> {NotCollecting} \cup Collecting]
         /\ \A pc \in {"making", "downloading"} :
              collect[c].pc # "idle" /\ Comes(c, pc)
                => collect' \in [Collectors -> {NotCollecting} \cup Collecting]
<1>1. Leaves(c) => collect' \in [Collectors -> {NotCollecting} \cup Collecting]
  BY DEF Leaves, CollectType
<1>2. ASSUME NEW pc \in {"making", "downloading"}, collect[c].pc # "idle", Comes(c, pc)
      PROVE  collect' \in [Collectors -> {NotCollecting} \cup Collecting]
  <2>1. [collect[c] EXCEPT !.pc = pc] \in Collecting
    BY <1>2, CollectorKinds DEF Collecting
  <2> QED BY <1>2, <2>1 DEF Comes, CollectType
<1> QED BY <1>1, <1>2

\* Jobs and results of jobs that have ended are changed by no step: commands
\* and Bedrock only touch jobs that run or are not there yet.
LEMMA EndedJobsStay ==
  ASSUME CollectType, [CollectNext]_<<vars, collectVars>>
  PROVE  EndedStays
<1>1. ASSUME NEW p \in Procs, Send(p), UNCHANGED collectVars PROVE EndedStays
  <2>1. PICK j \in Jobs :
          jobs' = [jobs EXCEPT ![j] = IF Exists(j) THEN @
                                      ELSE Created(p, Token(proc[p].run, proc[p].path))]
    BY <1>1 DEF Send, Replies
  <2> QED BY <1>1, <2>1 DEF CollectType, TypeOK, EndedStays, HasEnded, Exists, collectVars
<1>2. ASSUME NEW j \in Jobs, JobReads(j) \/ JobEnds(j), UNCHANGED collectVars PROVE EndedStays
  BY <1>2 DEF JobReads, JobEnds, CollectType, TypeOK, EndedStays, HasEnded, collectVars
<1>3. ASSUME NEW j \in Jobs, JobWrites(j) PROVE EndedStays
  BY <1>3 DEF JobWrites, CollectType, EndedStays, HasEnded, vars
<1>4. ASSUME UNCHANGED <<jobs, results>> PROVE EndedStays
  BY <1>4 DEF EndedStays
<1>5. ASSUME Next, UNCHANGED collectVars PROVE EndedStays
  BY <1>1, <1>2, <1>4, <1>5
     DEF Next, Begin, BeginUpload, BeginSubmit, Step, Put, Note, Open, Decline, Verify, Save, Fail,
         GoStale, collectVars
<1> QED
  BY <1>3, <1>4, <1>5
     DEF CollectNext, BeginCollect, ReadInput, Make, Download, WriteReport, FailCollect, FreeKey,
         vars, collectVars

\* Every step keeps the types; that an input object goes does so too.
LEMMA CollectTypeNext ==
  ASSUME CollectType, [CollectNext]_<<vars, collectVars>>
  PROVE  CollectType'
<1>1. ASSUME [Next]_vars, UNCHANGED collectVars PROVE CollectType'
  <2>1. TypeOK'
    BY <1>1, NextType DEF CollectType
  <2> QED BY <1>1, <2>1 DEF CollectType, collectVars
<1>2. ASSUME UNCHANGED vars PROVE TypeOK'
  BY <1>2 DEF CollectType, TypeOK, vars
<1>3. ASSUME NEW c \in Collectors, NEW f \in Files, NEW o \in Outs, BeginCollect(c, f, o)
      PROVE  CollectType'
  <2>1. states[f] \in Papers /\ states[f].job # NoJob
    BY <1>3 DEF BeginCollect, Collectable, CollectType, TypeOK
  <2>2. states[f].run \in Runs /\ states[f].data \in Data /\ states[f].job \in Jobs
    BY <2>1 DEF Papers, NoPaper, Broken
  <2>3. [pc |-> "reading", run |-> states[f].run, data |-> states[f].data,
         job |-> states[f].job, out |-> o] \in Collecting
    BY <2>2 DEF Collecting
  <2> QED BY <1>2, <1>3, <2>3 DEF BeginCollect, CollectType
<1>4. ASSUME NEW c \in Collectors, ReadInput(c) \/ FailCollect(c) PROVE CollectType'
  <2>1. collect' \in [Collectors -> {NotCollecting} \cup Collecting]
    BY <1>4, CollectorMoves DEF ReadInput, FailCollect
  <2> QED BY <1>2, <1>4, <2>1 DEF ReadInput, FailCollect, CollectType
<1>5. ASSUME NEW c \in Collectors, Make(c) PROVE CollectType'
  <2>1. collect' \in [Collectors -> {NotCollecting} \cup Collecting]
    BY <1>5, CollectorMoves DEF Make
  <2>2. outputs' \in [Outs -> Output]
    BY <1>5 DEF Make, CollectType, Output
  <2> QED BY <1>2, <1>5, <2>1, <2>2 DEF Make, CollectType
<1>6. ASSUME NEW c \in Collectors, Download(c) PROVE CollectType'
  <2>1. collect[c].out \in Outs /\ collect[c].job \in Jobs
    BY <1>6, CollectorKinds DEF Download, Collecting
  <2>2. Wanted(c) \subseteq Artifacts
    BY <2>1 DEF Wanted, Artifacts, CollectType
  <2>3. outputs' \in [Outs -> Output]
    BY <1>6, <2>1, <2>2 DEF Download, CollectType, Output
  <2> QED BY <1>2, <1>6, <2>3 DEF Download, CollectType
<1>7. ASSUME NEW c \in Collectors, WriteReport(c) PROVE CollectType'
  <2>1. collect[c].out \in Outs /\ collect[c].job \in Jobs /\ collect[c].data \in Data
    BY <1>7, CollectorKinds DEF WriteReport, Collecting
  <2>2. Complete(outputs[collect[c].out].artifacts, collect[c].data) \in BOOLEAN
    BY DEF Complete
  <2>3. outputs' \in [Outs -> Output]
    BY <1>7, <2>1, <2>2 DEF WriteReport, CollectType, Output
  <2>4. collect' \in [Collectors -> {NotCollecting} \cup Collecting]
    BY <1>7, CollectorMoves DEF WriteReport
  <2> QED BY <1>2, <1>7, <2>3, <2>4 DEF WriteReport, CollectType
<1>8. ASSUME NEW j \in Jobs, JobWrites(j) PROVE CollectType'
  BY <1>2, <1>8 DEF JobWrites, CollectType
<1>9. ASSUME NEW k \in Keys, FreeKey(k) PROVE CollectType'
  BY <1>9 DEF FreeKey, CollectType, TypeOK, collectVars
<1> QED
  BY <1>1, <1>3, <1>4, <1>5, <1>6, <1>7, <1>8, <1>9 DEF CollectNext

\* A step that leaves the directories alone, and after which no command
\* downloads that did not before, keeps the invariant.
LEMMA OutputsStay ==
  ASSUME CollectType, CollectInv, EndedStays, UNCHANGED outputs,
         \A c \in Collectors :
           collect'[c] = collect[c] \/ (collect'[c].pc # "downloading" /\ Collects(c)')
  PROVE  CollectInv'
<1>1. ASSUME NEW c \in Collectors PROVE Collects(c)'
  <2>1. CASE collect'[c] = collect[c] /\ collect[c] # NotCollecting
    <3>1. collect[c].job \in Jobs
      BY <2>1, CollectorKinds DEF Collecting
    <3> QED BY <2>1, <3>1 DEF CollectInv, Collects, EndedStays, HasEnded
  <2> QED BY <2>1 DEF Collects
<1>2. ASSUME NEW c \in Collectors, collect'[c].pc = "downloading" PROVE Downloads(c)'
  <2>1. /\ collect'[c] = collect[c] /\ Downloads(c)
        /\ collect[c].job \in Jobs /\ HasEnded(collect[c].job)
    BY <1>2, CollectorKinds DEF CollectInv, Collects, Collecting, HasEnded
  <2>2. results'[collect'[c].job] = results[collect[c].job]
    BY <2>1 DEF EndedStays
  <2>3. \A d \in Collectors :
          collect'[d].pc = "downloading" /\ collect'[d].out = collect'[c].out => d = c
    BY <1>2, <2>1 DEF Downloads
  <2> QED BY <1>2, <2>1, <2>2, <2>3 DEF Downloads, ArtifactsOf, Reported
<1>3. ASSUME NEW o \in Outs PROVE Unmade(o)'
  BY DEF CollectInv, Unmade, Reported
<1>4. ASSUME NEW o \in Outs, Reported(o) PROVE Shows(o)'
  <2>1. /\ Shows(o) /\ outputs[o].report.job \in Jobs
        /\ HasEnded(outputs[o].report.job)
    BY <1>4 DEF CollectInv, Shows, CollectType, Output, Reported, HasEnded
  <2>2. /\ jobs'[outputs'[o].report.job] = jobs[outputs[o].report.job]
        /\ results'[outputs'[o].report.job] = results[outputs[o].report.job]
    BY <2>1 DEF EndedStays
  <2> QED BY <1>4, <2>1, <2>2 DEF Shows, ArtifactsOf
<1>5. ASSUME NEW o \in Outs PROVE Shows(o)'
  BY <1>4, <1>5 DEF Shows, Reported
<1> QED
  BY <1>1, <1>2, <1>3, <1>5 DEF CollectInv, Downloads

\* Commands, before they make a directory, and every way to leave.
LEMMA WithoutOutputs ==
  ASSUME CollectType, CollectInv, EndedStays, NEW c \in Collectors,
         \/ \E f \in Files, o \in Outs : BeginCollect(c, f, o)
         \/ ReadInput(c)
         \/ Make(c) /\ outputs[collect[c].out].made
         \/ FailCollect(c)
  PROVE  CollectInv'
<1>1. \A d \in Collectors \ {c} : collect'[d] = collect[d]
  BY DEF BeginCollect, ReadInput, Make, FailCollect, Leaves, Comes, CollectType
<1>2. \/ \E f \in Files, o \in Outs : BeginCollect(c, f, o)
      \/ collect[c].pc = "reading" /\ Comes(c, "making") /\ jobs' = jobs
      \/ Leaves(c)
  BY DEF ReadInput, Make, FailCollect, vars
<1>3. collect'[c].pc # "downloading" /\ Collects(c)'
  <2>1. CASE \E f \in Files, o \in Outs : BeginCollect(c, f, o)
    BY <2>1 DEF BeginCollect, Collectable, Collects, CollectType, vars
  <2>2. CASE collect[c].pc = "reading" /\ Comes(c, "making") /\ jobs' = jobs
    <3>1. collect'[c].job = collect[c].job /\ collect'[c].pc = "making"
      BY <2>2 DEF Comes, CollectType
    <3>2. collect[c] # NotCollecting
      BY <2>2 DEF NotCollecting
    <3> QED BY <2>2, <3>1, <3>2 DEF CollectInv, Collects
  <2>3. CASE Leaves(c)
    BY <2>3 DEF Leaves, Collects, CollectType, NotCollecting
  <2> QED BY <1>2, <2>1, <2>2, <2>3
<1>4. outputs' = outputs
  <2>1. CASE Make(c) /\ outputs[collect[c].out].made
    <3>1. [outputs[collect[c].out] EXCEPT !.made = TRUE] = outputs[collect[c].out]
      <4>1. collect[c].out \in Outs
        BY <2>1, CollectorKinds DEF Make, Collecting
      <4> QED BY <2>1, <4>1 DEF CollectType, Output
    <3> QED BY <2>1, <3>1 DEF Make, CollectType
  <2> QED BY <2>1 DEF BeginCollect, ReadInput, FailCollect
<1> QED
  BY <1>1, <1>3, <1>4, OutputsStay

\* What a command that is past its reading has, whatever it does next.
LEMMA AtWork ==
  ASSUME CollectType, CollectInv, NEW c \in Collectors, collect[c].pc # "idle"
  PROVE  /\ collect[c].out \in Outs /\ collect[c].job \in Jobs
         /\ HasEnded(collect[c].job)
  BY CollectorKinds DEF CollectInv, Collects, HasEnded, Collecting

\* A new directory is empty, and nobody else's.
LEMMA MakeNew ==
  ASSUME CollectType, CollectInv, NEW c \in Collectors, Make(c), ~outputs[collect[c].out].made
  PROVE  CollectInv'
<1> DEFINE o == collect[c].out
<1>1. o \in Outs /\ HasEnded(collect[c].job) /\ collect[c].pc = "making"
  BY AtWork DEF Make
<1>2. /\ outputs' = [outputs EXCEPT ![o].made = TRUE]
      /\ collect' = [collect EXCEPT ![c].pc = "downloading"]
      /\ jobs' = jobs /\ results' = results
  BY DEF Make, Comes, vars
<1>3. outputs[o].artifacts = {} /\ ~Reported(o)
  BY <1>1 DEF CollectInv, Unmade
<1>4. \A d \in Collectors : collect[d].pc = "downloading" => collect[d].out # o
  BY DEF CollectInv, Downloads
<1>5. \A d \in Collectors : Collects(d)'
  BY <1>1, <1>2 DEF CollectType, CollectInv, Collects, HasEnded
<1>6. \A x \in Outs :
        /\ outputs'[x].artifacts = outputs[x].artifacts /\ outputs'[x].report = outputs[x].report
        /\ outputs'[x].made = (x = o \/ outputs[x].made)
  BY <1>1, <1>2 DEF CollectType, Output
<1>7. \A d \in Collectors :
        /\ collect'[d].out = collect[d].out /\ collect'[d].job = collect[d].job
        /\ collect'[d].pc = IF d = c THEN "downloading" ELSE collect[d].pc
  BY <1>2 DEF CollectType
<1>8. ASSUME NEW d \in Collectors, collect'[d].pc = "downloading" PROVE Downloads(d)'
  <2>1. CASE d = c
    <3>1. outputs'[o].made /\ outputs'[o].report = NotReported /\ outputs'[o].artifacts = {}
      BY <1>1, <1>3, <1>6 DEF Reported
    <3>2. \A e \in Collectors :
            collect'[e].pc = "downloading" /\ collect'[e].out = o => e = c
      BY <1>4, <1>7
    <3>3. collect'[d].out = o
      BY <1>7, <2>1
    <3> QED BY <3>1, <3>2, <3>3 DEF Downloads, Reported
  <2>2. CASE d # c
    <3>1. collect[d].pc = "downloading" /\ Downloads(d) /\ collect[d].out \in Outs \ {o}
      BY <1>4, <1>7, <1>8, <2>2, AtWork DEF CollectInv
    <3> QED BY <1>2, <1>6, <1>7, <3>1 DEF Downloads, ArtifactsOf, Reported
  <2> QED BY <2>1, <2>2
<1>9. ASSUME NEW x \in Outs PROVE Unmade(x)' /\ Shows(x)'
  <2>1. Unmade(x) /\ Shows(x)
    BY DEF CollectInv
  <2>2. Unmade(x)'
    BY <1>6, <2>1 DEF Unmade, Reported
  <2>3. Shows(x)'
    BY <1>2, <1>3, <1>6, <1>7, <2>1 DEF Shows, Reported, ArtifactsOf
  <2> QED BY <2>2, <2>3
<1> QED
  BY <1>5, <1>8, <1>9 DEF CollectInv, Downloads

\* A download adds an artifact of the command's job to its own directory.
LEMMA DownloadAdds ==
  ASSUME CollectType, CollectInv, NEW c \in Collectors, Download(c)
  PROVE  CollectInv'
<1> DEFINE o == collect[c].out
<1>1. o \in Outs /\ collect[c].job \in Jobs /\ collect[c].pc = "downloading" /\ Downloads(c)
  BY AtWork DEF Download, CollectInv
<1>2. PICK artifact \in Wanted(c) :
        outputs' = [outputs EXCEPT ![o].artifacts = @ \cup {artifact}]
  BY DEF Download
<1>3. collect' = collect /\ jobs' = jobs /\ results' = results
  BY DEF Download, vars
<1>4. outputs'[o].artifacts \subseteq ArtifactsOf(collect[c].job)
  BY <1>1, <1>2 DEF Wanted, ArtifactsOf, Downloads, CollectType, Output
<1>5. \A x \in Outs :
        /\ outputs'[x].made = outputs[x].made /\ outputs'[x].report = outputs[x].report
        /\ x # o => outputs'[x].artifacts = outputs[x].artifacts
  BY <1>2 DEF CollectType, Output
<1>6. ASSUME NEW d \in Collectors PROVE Collects(d)'
  BY <1>3 DEF CollectInv, Collects
<1>7. ASSUME NEW d \in Collectors, collect[d].pc = "downloading" PROVE Downloads(d)'
  <2>1. Downloads(d) /\ collect[d].out \in Outs
    BY <1>7, AtWork DEF CollectInv
  <2>2. CASE d = c
    BY <1>3, <1>4, <1>5, <2>1, <2>2 DEF Downloads, ArtifactsOf, Reported
  <2>3. CASE d # c
    <3>1. collect[d].out # o
      BY <1>1, <1>7, <2>3 DEF Downloads
    <3> QED BY <1>3, <1>5, <2>1, <3>1 DEF Downloads, ArtifactsOf, Reported
  <2> QED BY <2>2, <2>3
<1>8. ASSUME NEW x \in Outs PROVE Unmade(x)' /\ Shows(x)'
  <2>1. Unmade(x) /\ Shows(x)
    BY DEF CollectInv
  <2>2. x = o => outputs[x].made /\ ~Reported(x)
    BY <1>1 DEF Downloads
  <2> QED BY <1>3, <1>5, <2>1, <2>2 DEF Unmade, Shows, Reported, ArtifactsOf
<1> QED
  BY <1>3, <1>6, <1>7, <1>8 DEF CollectInv, Downloads

\* A complete report has an artifact, and the artifacts are all of the job
\* that is reported: the job has read the dataset the rows are of.
LEMMA CompleteIsMatched ==
  ASSUME CollectType, NEW c \in Collectors,
         outputs[collect[c].out].artifacts \subseteq ArtifactsOf(collect[c].job),
         Complete(outputs[collect[c].out].artifacts, collect[c].data)
  PROVE  jobs[collect[c].job].data = collect[c].data
<1> DEFINE artifacts == outputs[collect[c].out].artifacts
<1>1. artifacts # {}
  BY CollectionAssumption DEF Complete
<1>2. PICK artifact \in artifacts : artifact.job = collect[c].job
  BY <1>1 DEF ArtifactsOf
<1> QED BY <1>2 DEF Complete, Matches

\* A report is written when all the job has to say is there.
LEMMA WriteIsOfAll ==
  ASSUME CollectType, CollectInv, NEW c \in Collectors, WriteReport(c)
  PROVE  CollectInv'
<1> DEFINE o == collect[c].out
           report == [job |-> collect[c].job, data |-> collect[c].data,
                      complete |-> Complete(outputs[o].artifacts, collect[c].data)]
<1>1. /\ o \in Outs /\ collect[c].job \in Jobs /\ HasEnded(collect[c].job)
      /\ collect[c].pc = "downloading" /\ Downloads(c)
  BY AtWork DEF WriteReport, CollectInv
<1>2. /\ outputs' = [outputs EXCEPT ![o].report = report]
      /\ collect' = [collect EXCEPT ![c] = NotCollecting]
      /\ jobs' = jobs /\ results' = results
  BY DEF WriteReport, Leaves, vars
<1>3. outputs[o].artifacts = ArtifactsOf(collect[c].job)
  BY <1>1 DEF WriteReport, Wanted, ArtifactsOf, Downloads
<1>4. \A x \in Outs :
        /\ outputs'[x].made = outputs[x].made /\ outputs'[x].artifacts = outputs[x].artifacts
        /\ outputs'[x].report = IF x = o THEN report ELSE outputs[x].report
  BY <1>1, <1>2 DEF CollectType, Output
<1>5. \A d \in Collectors :
        IF d = c THEN collect'[d] = NotCollecting ELSE collect'[d] = collect[d]
  BY <1>2 DEF CollectType
<1>6. ASSUME NEW d \in Collectors PROVE Collects(d)'
  BY <1>2, <1>5 DEF CollectInv, Collects
<1>7. ASSUME NEW d \in Collectors, collect'[d].pc = "downloading" PROVE Downloads(d)'
  <2>1. d # c /\ collect'[d] = collect[d]
    BY <1>5, <1>7 DEF NotCollecting
  <2>2. Downloads(d) /\ collect[d].out \in Outs
    BY <1>7, <2>1, AtWork DEF CollectInv
  <2>3. collect[d].out # o
    BY <1>1, <1>7, <2>1 DEF Downloads
  <2>4. \A e \in Collectors : collect'[e].pc = "downloading" => collect'[e] = collect[e]
    BY <1>5 DEF NotCollecting
  <2> QED BY <1>2, <1>4, <1>7, <2>1, <2>2, <2>3, <2>4 DEF Downloads, ArtifactsOf, Reported
<1>8. ASSUME NEW x \in Outs PROVE Unmade(x)'
  <2>1. x = o => outputs[x].made
    BY <1>1 DEF Downloads
  <2> QED BY <1>4, <2>1 DEF CollectInv, Unmade, Reported
<1>9. ASSUME NEW x \in Outs PROVE Shows(x)'
  <2>1. \A d \in Collectors : collect'[d].pc = "downloading" =>
          collect[d].pc = "downloading" /\ collect'[d].out = collect[d].out /\ d # c
    BY <1>5 DEF NotCollecting
  <2>2. CASE x = o
    <3>1. \A d \in Collectors : collect'[d].pc = "downloading" => collect'[d].out # x
      BY <1>1, <2>1, <2>2 DEF Downloads
    <3>2. report.complete => jobs[report.job].data = report.data
      BY <1>3, CompleteIsMatched
    <3>3. outputs'[x].report = report
      BY <1>4, <2>2
    <3>4. outputs'[x].artifacts = ArtifactsOf(report.job)
      BY <1>3, <1>4, <2>2
    <3> QED BY <1>1, <1>2, <3>1, <3>2, <3>3, <3>4 DEF Shows, ArtifactsOf, HasEnded
  <2>3. CASE x # o
    BY <1>2, <1>4, <2>1, <2>3 DEF CollectInv, Shows, ArtifactsOf, Reported
  <2> QED BY <2>2, <2>3
<1> QED
  BY <1>6, <1>7, <1>8, <1>9 DEF CollectInv, Downloads

\* The invariant of the collection, for any number of collect commands, of
\* directories and of jobs, while keys are freed and used again.
THEOREM CollectionInvariant == CollectSpec => [](CollectType /\ CollectInv)
<1>1. CollectInit => CollectType /\ CollectInv
  <2> SUFFICES ASSUME CollectInit PROVE CollectType /\ CollectInv
    OBVIOUS
  <2>1. TypeOK
    BY DEF CollectInit, Init, TypeOK, Papers, Job
  <2>2. CollectType
    BY <2>1 DEF CollectInit, CollectType, Output
  <2> QED
    BY <2>2 DEF CollectInit, CollectInv, Collects, Downloads, Unmade, Shows, Reported, NotCollecting
<1>2. CollectType /\ CollectInv /\ [CollectNext]_<<vars, collectVars>> => CollectType' /\ CollectInv'
  <2> SUFFICES ASSUME CollectType, CollectInv, [CollectNext]_<<vars, collectVars>>
               PROVE  CollectType' /\ CollectInv'
    OBVIOUS
  <2>1. CollectType' /\ EndedStays
    BY CollectTypeNext, EndedJobsStay
  <2>2. ASSUME NEW c \in Collectors,
               \/ \E f \in Files, o \in Outs : BeginCollect(c, f, o)
               \/ ReadInput(c) \/ Make(c) \/ FailCollect(c)
        PROVE  CollectInv'
    BY <2>1, <2>2, WithoutOutputs, MakeNew
  <2>3. ASSUME NEW c \in Collectors, Download(c) \/ WriteReport(c) PROVE CollectInv'
    BY <2>3, DownloadAdds, WriteIsOfAll
  <2>4. ASSUME UNCHANGED <<collect, outputs>> PROVE CollectInv'
    BY <2>1, <2>4, OutputsStay
  <2> QED
    BY <2>1, <2>2, <2>3, <2>4 DEF CollectNext, JobWrites, FreeKey, collectVars
<1> QED
  BY <1>1, <1>2, PTL DEF CollectSpec

\* A report is of everything its job had to say and of nothing else, whatever
\* commands share the directory, die in it or run beside.
THEOREM ReportsAreOfOneJob == CollectSpec => []ReportIsOfOneJob
<1>1. CollectType /\ CollectInv => ReportIsOfOneJob
  BY DEF CollectInv, Shows, ReportIsOfOneJob, ArtifactsOf
<1> QED
  BY <1>1, CollectionInvariant, PTL

\* A complete report is of the dataset its job read, although nothing keeps
\* the input under its key.
THEOREM CompleteReportsMatch == CollectSpec => []CompleteReportIsOfItsDataset
<1>1. CollectType /\ CollectInv => CompleteReportIsOfItsDataset
  BY DEF CollectType, CollectInv, Shows, Reported, NotReported, CompleteReportIsOfItsDataset
<1> QED
  BY <1>1, CollectionInvariant, PTL

-----------------------------------------------------------------------------
(* The payment, also where keys are freed. *)

Requested == {r \in Runs : FilesOf(r) # {}}
Paid == [r \in Runs |-> JobsOf(r)]
Known == [r \in Runs |-> ArnsOf(r)]
Pays == <<Requested, Paid, Known>>

\* A run has at most one job, and its files know no other.
LEMMA OneIsPaid ==
  ASSUME TypeOK, PaidInv, NEW r \in Runs
  PROVE  /\ \A i, j \in JobsOf(r) : i = j
         /\ ArnsOf(r) \subseteq JobsOf(r)
<1>1. \A i, j \in JobsOf(r) : i = j
  BY DEF PaidInv, JobsOf, Backed, TokensAreUsedOnce
<1>2. ASSUME NEW f \in FilesOf(r), states[f].job # NoJob PROVE states[f].job \in JobsOf(r)
  <2>1. f \in Files /\ states[f].run = r /\ Linked(f)
    BY DEF FilesOf, PaidInv
  <2>2. states[f].job \in Jobs
    BY <1>2, <2>1 DEF TypeOK, Papers, NoPaper, Broken
  <2> QED BY <1>2, <2>1, <2>2 DEF JobsOf, Linked
<1> QED BY <1>1, <1>2 DEF ArnsOf

\* What becomes of the payment is what becomes of each run's part in it.
LEMMA PaymentStays ==
  /\ (\A r \in Runs : FilesOf(r)' = FilesOf(r)) => Requested' = Requested
  /\ (\A r \in Runs : JobsOf(r)' = JobsOf(r)) => Paid' = Paid
  /\ (\A r \in Runs : ArnsOf(r)' = ArnsOf(r)) => Known' = Known
  BY DEF Requested, Paid, Known

\* A request on file is a request of the payment.
LEMMA OpenRequests ==
  ASSUME TypeOK, PaidInv, NEW p \in Procs, Open(p)
  PROVE  Pays' = Pays \/ Payment!Next
<1> DEFINE f == proc[p].path
<1>0. PICK q \in Runs : q = proc[p].run
  BY CommandKinds DEF Open, Submission, Submitting
<1>1. f \in Files /\ jobs' = jobs
  BY CommandKinds DEF Open, Submission, Submitting
<1>2. Paid' = Paid
  BY <1>1 DEF Paid, JobsOf, Exists
<1>3. ASSUME NEW r \in Runs, FilesOf(r)' = FilesOf(r), \A g \in FilesOf(r) : states'[g] = states[g]
      PROVE  ArnsOf(r)' = ArnsOf(r)
  BY <1>3 DEF ArnsOf
<1>4. CASE states' = states
  BY <1>2, <1>4 DEF Pays, Requested, Known, FilesOf, ArnsOf
<1>5. CASE states[f] = NoPaper /\ states' = [states EXCEPT ![f] = Broken]
  <2>1. ASSUME NEW r \in Runs PROVE FilesOf(r)' = FilesOf(r) /\ ArnsOf(r)' = ArnsOf(r)
    <3>1. f \notin FilesOf(r) /\ FilesOf(r)' = FilesOf(r)
      BY <1>1, <1>5 DEF FilesOf, NoPaper, Broken, TypeOK
    <3>2. \A g \in FilesOf(r) : states'[g] = states[g]
      BY <1>5, <3>1 DEF TypeOK, FilesOf
    <3> QED BY <1>3, <3>1, <3>2
  <2> QED BY <1>2, <2>1, PaymentStays DEF Pays
<1>6. CASE states[f] = NoPaper /\ states' = [states EXCEPT ![f] = Mine(p)]
  <2>1. /\ states'[f].text = "whole" /\ states'[f].run = q /\ states'[f].job = NoJob
        /\ \A g \in Files \ {f} : states'[g] = states[g]
    BY <1>0, <1>1, <1>6 DEF TypeOK, Mine, Paper
  <2>2. ASSUME NEW r \in Runs, r # q PROVE FilesOf(r)' = FilesOf(r) /\ ArnsOf(r)' = ArnsOf(r)
    <3>1. f \notin FilesOf(r) /\ FilesOf(r)' = FilesOf(r)
      BY <1>6, <2>1, <2>2 DEF FilesOf, NoPaper
    <3> QED BY <1>3, <2>1, <3>1 DEF FilesOf
  <2>3. FilesOf(q)' = FilesOf(q) \cup {f} /\ f \notin FilesOf(q)
    BY <1>1, <1>6, <2>1 DEF FilesOf, NoPaper
  <2>4. ArnsOf(q)' = ArnsOf(q)
    BY <2>1, <2>3 DEF ArnsOf, FilesOf
  <2>5. Known' = Known
    BY <2>2, <2>4, PaymentStays
  <2>6. Requested' = Requested \cup {q}
    BY <2>2, <2>3 DEF Requested
  <2>7. CASE q \in Requested
    BY <1>2, <2>5, <2>6, <2>7 DEF Pays
  <2>8. CASE q \notin Requested
    BY <1>2, <2>5, <2>6, <2>8 DEF Payment!Next, Payment!Request, Requested, Paid, Known
  <2> QED BY <2>7, <2>8
<1> QED
  BY <1>4, <1>5, <1>6 DEF Open

\* A job that the call creates is the first of its run, whose request is on file.
LEMMA SendPays ==
  ASSUME TypeOK, PaidInv, NEW p \in Procs, Send(p)
  PROVE  Pays' = Pays \/ Payment!Next
<1>0. PICK q \in Runs : q = proc[p].run
  BY CommandKinds DEF Send, Submission, Submitting
<1>1. proc[p].path \in Files /\ states' = states
  BY CommandKinds DEF Send, Submission, Submitting
<1>2. PICK j \in Replies(q) :
        jobs' = [jobs EXCEPT ![j] = IF Exists(j) THEN @ ELSE Created(p, q)]
  BY <1>0 DEF Send, Token
<1>3. Requested' = Requested /\ Known' = Known
  BY <1>1 DEF Requested, Known, FilesOf, ArnsOf
<1>4. j \in Jobs
  BY <1>2 DEF Replies
<1>5. CASE Exists(j)
  <2>1. jobs' = jobs
    BY <1>2, <1>4, <1>5 DEF TypeOK
  <2>2. Paid' = Paid
    BY <2>1 DEF Paid, JobsOf, Exists
  <2> QED BY <1>3, <2>2 DEF Pays
<1>6. CASE ~Exists(j)
  <2>1. /\ Exists(j)' /\ jobs'[j].run = q
        /\ \A i \in Jobs \ {j} : jobs'[i] = jobs[i]
    BY <1>0, <1>2, <1>4, <1>6 DEF TypeOK, Exists, Created
  <2>2. \A r \in Runs : r # q => JobsOf(r)' = JobsOf(r)
    BY <1>6, <2>1 DEF JobsOf, Exists
  <2>3. JobsOf(q) = {}
    BY <1>2, <1>6 DEF Replies, JobsOf, PaidInv, Backed
  <2>4. JobsOf(q)' = {j}
    BY <1>4, <2>1, <2>3 DEF JobsOf, Exists
  <2>5. proc[p].path \in FilesOf(q)
    BY <1>0, <1>1 DEF Send, PaidInv, Remembers, Holds, FilesOf
  <2>6. Paid' = [Paid EXCEPT ![q] = {j}]
    BY <2>2, <2>4 DEF Paid
  <2>7. q \in Requested /\ Paid[q] = {} /\ \A r \in Runs : j \notin Paid[r]
    BY <1>6, <2>3, <2>5 DEF Requested, Paid, JobsOf
  <2> QED BY <1>3, <1>4, <2>6, <2>7 DEF Payment!Next, Payment!Pay, Requested, Paid, Known
<1> QED BY <1>5, <1>6

\* The ARN that is saved is of the one job of the run, as is any there was.
LEMMA SaveLearns ==
  ASSUME TypeOK, PaidInv, NEW p \in Procs, Save(p)
  PROVE  Pays' = Pays \/ Payment!Next
<1> DEFINE f == proc[p].path
           j == proc[p].job
<1>0. PICK q \in Runs : q = proc[p].run
  BY CommandKinds DEF Save, Submission, Submitting
<1>1. f \in Files /\ jobs' = jobs
  BY CommandKinds DEF Save, Submission, Submitting
<1>2. j \in Jobs /\ j \in JobsOf(q) /\ f \in FilesOf(q)
  BY <1>0, <1>1 DEF Save, PaidInv, Remembers, Holds, JobsOf, FilesOf
<1>3. /\ states'[f].text = "whole" /\ states'[f].run = q /\ states'[f].job = j
      /\ \A g \in Files \ {f} : states'[g] = states[g]
  BY <1>0, <1>1 DEF Save, TypeOK, Paper
<1>4. \A r \in Runs : FilesOf(r)' = FilesOf(r)
  BY <1>1, <1>2, <1>3 DEF FilesOf
<1>5. Requested' = Requested /\ Paid' = Paid
  BY <1>1, <1>4, PaymentStays DEF JobsOf, Exists
<1>6. ASSUME NEW r \in Runs, r # q PROVE ArnsOf(r)' = ArnsOf(r)
  <2>1. \A g \in FilesOf(r) : states'[g] = states[g]
    BY <1>2, <1>3, <1>6 DEF FilesOf
  <2> QED BY <1>4, <2>1 DEF ArnsOf
<1>7. JobsOf(q) = {j} /\ ArnsOf(q) \subseteq {j}
  BY <1>2, OneIsPaid
<1>8. ArnsOf(q)' = {j}
  <2>1. j # NoJob
    BY <1>2, JudgeAssumption
  <2>2. \A g \in FilesOf(q) : states'[g].job \in {j, NoJob}
    BY <1>3, <1>7 DEF ArnsOf, FilesOf
  <2> QED BY <1>2, <1>3, <1>4, <2>1, <2>2 DEF ArnsOf
<1>9. CASE ArnsOf(q) = {j}
  BY <1>5, <1>6, <1>8, <1>9, PaymentStays DEF Pays
<1>10. CASE ArnsOf(q) = {}
  <2>1. Paid[q] = {j} /\ Known[q] = {}
    BY <1>7, <1>10 DEF Paid, Known
  <2>2. Known' = [Known EXCEPT ![q] = Paid[q]]
    BY <1>6, <1>8, <2>1 DEF Known
  <2> QED BY <1>5, <2>1, <2>2 DEF Payment!Next, Payment!Learn, Requested, Paid, Known
<1> QED BY <1>7, <1>9, <1>10

\* Every step is one of the payment, or none.
LEMMA StepsPay ==
  ASSUME TypeOK, PaidInv, PaidStep
  PROVE  Pays' = Pays \/ Payment!Next
<1>1. ASSUME NEW i \in Jobs, JobReads(i) \/ JobEnds(i) PROVE Pays' = Pays
  <2>1. states' = states /\ \A j \in Jobs : Exists(j)' = Exists(j) /\ jobs'[j].run = jobs[j].run
    BY <1>1 DEF JobReads, JobEnds, TypeOK, Exists, Job, NotCreated
  <2> QED BY <2>1 DEF Pays, Requested, Paid, Known, FilesOf, JobsOf, ArnsOf
<1>2. ASSUME UNCHANGED <<states, jobs>> PROVE Pays' = Pays
  BY <1>2 DEF Pays, Requested, Paid, Known, FilesOf, JobsOf, ArnsOf, Exists
<1> QED
  BY <1>1, <1>2, OpenRequests, SendPays, SaveLearns
     DEF PaidStep, Next, Step, Begin, BeginUpload, BeginSubmit, Put, Note, Decline, Verify, Fail,
         GoStale, vars

\* Nothing is requested at first.
LEMMA InitPays == Init => Payment!Init
<1> SUFFICES ASSUME Init PROVE Payment!Init
  OBVIOUS
<1>1. \A r \in Runs : FilesOf(r) = {} /\ JobsOf(r) = {} /\ ArnsOf(r) = {}
  BY DEF Init, FilesOf, JobsOf, ArnsOf, Exists, NoPaper, NotCreated
<1> QED BY <1>1 DEF Payment!Init

\* PaidInv holds although keys are freed and used again.
THEOREM PaidInvariant == CollectSpec => []PaidInv
<1>1. CollectInit => PaidInv
  BY InitInv DEF CollectInit, JudgeInv
<1>2. CollectType /\ PaidInv /\ [CollectNext]_<<vars, collectVars>> => PaidInv'
  <2> SUFFICES ASSUME CollectType, PaidInv, [CollectNext]_<<vars, collectVars>> PROVE PaidInv'
    OBVIOUS
  <2>1. TypeOK /\ PaidStep
    BY DEF CollectType, PaidStep, CollectNext, BeginCollect, ReadInput, Make, Download, WriteReport,
           FailCollect, JobWrites, FreeKey, vars
  <2> QED BY <2>1, PaidNext
<1> QED
  BY <1>1, <1>2, CollectionInvariant, PTL DEF CollectSpec

\* That a run is paid for once, for a request on file, does not rest on the
\* care for input keys.
THEOREM PaidWhateverTheKeys == CollectSpec => [](OneJobPerRun /\ PaidJobIsOnFile)
<1>1. PaidInv => OneJobPerRun /\ PaidJobIsOnFile
  BY DEF PaidInv, OneJobPerRun, PaidJobIsOnFile, Backed, TokensAreUsedOnce
<1> QED
  BY <1>1, PaidInvariant, PTL

\* Commands, whatever happens to them and to their replies, request a run
\* once, pay for one job and learn its ARN for good.
THEOREM SubmissionImplementsPayment == Spec => ImplementsPayment
<1>1. TypeOK /\ JudgeInv /\ [Next]_vars => [Payment!Next]_Payment!payment
  BY StepsPay DEF JudgeInv, PaidStep, Payment!payment, Pays, Requested, Paid, Known
<1> QED
  BY <1>1, InitPays, TypeCorrect, JudgeInvariant, PTL DEF Spec, ImplementsPayment, Payment!Spec

\* They do so also while keys are freed and used again.
THEOREM CollectionImplementsPayment == CollectSpec => ImplementsPayment
<1>1. CollectInit => Payment!Init
  BY InitPays DEF CollectInit
<1>2. CollectType /\ PaidInv /\ [CollectNext]_<<vars, collectVars>> => [Payment!Next]_Payment!payment
  <2> SUFFICES ASSUME CollectType, PaidInv, [CollectNext]_<<vars, collectVars>>
               PROVE  [Payment!Next]_Payment!payment
    OBVIOUS
  <2>1. TypeOK /\ PaidStep
    BY DEF CollectType, PaidStep, CollectNext, BeginCollect, ReadInput, Make, Download, WriteReport,
           FailCollect, JobWrites, FreeKey, vars
  <2> QED BY <2>1, StepsPay DEF Payment!payment, Pays, Requested, Paid, Known
<1> QED
  BY <1>1, <1>2, CollectionInvariant, PaidInvariant, PTL
     DEF CollectSpec, ImplementsPayment, Payment!Spec
=============================================================================
