# Verification of the insurance platform

TLA+ modules, TLC runs and TLAPS proofs for the platform in this repository. Paths below are relative to
the repository's root, so `src/apps/service.py` is the application service.

Four parts of the platform keep state that several actors change and that must survive crashes and lost
replies, and they are modelled here:

- the **journey**: the local application that takes a customer from a first message to a submitted claim
  and an employee's review of it (`src/apps`, `src/workflows`, `src/insurance_domain`, `src/adapters`);
- **offline ingestion**: the command that uploads the policy corpus to S3 and has Bedrock index it, under
  a shared lock (`src/ingestion/offline.py`, `src/ingestion/jobs.py`);
- the **policy query and its capture**: the Lambda that answers a question from retrieved policy documents
  (`src/apps/query_lambda/query.py`), and the commands that send it the baseline's cases, check and record its
  answers, and export them as a dataset (`capture` and `export` in `src/evaluation`, `scripts/test_online_rag.py`);
- the **judge evaluation**: the commands that reserve a budget, upload that dataset, submit one paid Bedrock job
  for it and collect its scores (`src/evaluation/judge_workflow.py`, `src/evaluation/judge.py`).

## 1. Inventory

### Components

| component | state it keeps | operations | correct means |
|---|---|---|---|
| Application service `apps/service.py` | none of its own; all in the store | `create`, `help`, `enqueue`, `work_once` (`process`), `reconcile`, `decide`; reads: `get_task`, `reviews` | accepted work is processed once and never fails; reviews are about the current draft; urgency is never lost |
| Durable store `apps/storage.py` | SQLite: conversations, tasks, outbox, actions, reviews, decisions, help sessions | `transaction` (BEGIN IMMEDIATE, commit or roll back) | an operation is all or nothing |
| Action service `apps/action_service/service.py` | the action row of a conversation: the confirmed draft, `pending`, `unknown` or `confirmed` | `prepare`, `execute` | one intent per conversation; the core gets the confirmed draft, at most once |
| Synthetic core `adapters/insurance/synthetic.py` | a receipt store of its own, keyed by action id | `authorize`, `validate_draft`, `lookup`, `submit`, `claim_status` | idempotent by action id |
| Planning graph `workflows/auto.py` | none that answers anything (its checkpoint is cleared on every call) | `invoke` | stage, priority and team follow from the facts and the receipt; an urgent priority stays |
| Review graph `workflows/review.py`, `checkpoints.py` | checkpoint threads, one for each review and version, in a database of their own | `run` | a thread that was resumed by a rolled-back decision is restarted |
| Domain `insurance_domain/*` | none | facts, missing fields, digest, urgency screen, routing | pure rules |
| API, contracts, worker `apps/api`, `contracts/api.py`, `apps/worker` | none | requests, strict inputs; drain the outbox, reconcile | only well-formed inputs reach the application |
| Language adapters `adapters/models/*` | none | `interpret` | any interpretation or a failure; extracted facts are never confirmed |
| Offline ingestion `ingestion/offline.py`, `jobs.py` | the report file; in S3 the lock and the documents; in Bedrock the jobs | `run`: readiness, lock, recheck, upload, start, poll, release | no document moves while a job reads; a job reads one snapshot; the lock is never lost or forgotten |
| Corpus preparation `ingestion/corpus.py`, `metadata.py`, `pdf.py` | generated files | one sequential program | deterministic output |
| Query Lambda `apps/query_lambda/query.py` | none; an optional capture object in S3, by request id | retrieve, isolate evidence, draft, answer, capture, within a deadline | no answer from foreign evidence; a captured answer is the one that was replied; the handler, not the platform, ends a slow invocation |
| Judge capture and export `evaluation/judge_workflow.py` (`capture`), `judge.py` (`export_dataset`), `online.py`, `scripts/test_online_rag.py` (`run`) | the report file, the export directory | send each case, read its capture, check, record; export | no case paid for twice; every paid case but the last on file; a row is an answer of the prepared deployment |
| Judge workflow `evaluation/judge_workflow.py`, `judge.py` | submission state file, S3 inputs, a budget ledger | upload, submit, status, collect, reserve | one paid job per prepared run; results associated with the dataset the job read; the budget is never passed |
| Fixtures `evaluation/fixtures.py` | none | validation of the repository's own files | pure |
| Web page, AgentCore entry, scripts, infrastructure, examples | none of interest | — | configuration and command lines |

### How they interact

The API calls the application inside one `BEGIN IMMEDIATE` transaction per request, so operations on the
store never interleave. The worker takes the oldest undelivered outbox row and processes it in one such
transaction. Inside a transaction two other stores are called, and both **commit on their own** before it
does: the core's receipt store (`execute` → `lookup`, `submit`) and the review graph's checkpoints
(`upsert_review`, `decide` → `ReviewWorkflow.run`). What the code must get right is what happens when the
outer transaction dies after the inner commit, when the core's reply is lost after the claim was filed, and
when messages, decisions and reconciliations of one conversation come in any order between transactions.

Ingestion runs are processes on different machines that share a bucket and a Bedrock data source. Between
any two of their calls another run, the operator or another client of the data source may act, each call may
lose its reply, and each process may die.

Invocations of the query Lambda run side by side and share the capture bucket. API Gateway may deliver a
request id twice, the platform stops an invocation at its timeout or loses its sandbox, and the operator may
deploy another package at any time. A capture command is one of several clients of that API: it posts a case,
waits for the reply, reads the capture object the reply names, and replaces its report file after every case.

Judge commands are short processes on operators' machines. They share local files (upload receipts,
submission state files, output directories, the ledger), the input objects in S3 and the jobs of Bedrock. A
job reads its input some time after it was created, and the paid call may lose its reply.

### What is hard

- a claim filed and the transaction lost (`service.py:240`), a claim filed and the reply lost
  (`action_service/service.py:39`), the draft edited between the two attempts (`action_service/service.py:28`);
- a message processed while the outcome of a submission is unknown (`service.py:253`);
- orphan checkpoints of decisions that were rolled back (`review.py:37`);
- versions that move under pending reviews (`service.py:178`, `215`, `234`), decisions that race messages
  (`service.py:312`), urgency that arrives after a decision (`service.py:325`, `auto.py:39`);
- tasks that wait for a review nobody can decide any more (`service.py:337`);
- the lock: its creation with a lost reply (`offline.py:166`), the job that outlives the process or the
  deadline (`offline.py:204`), the start whose outcome is unknown (`offline.py:191`), the failed release
  (`offline.py:207`), the check that is stale when the lock is taken (`offline.py:174`);
- the paid call whose reply or whose saved ARN is lost (`judge_workflow.py:127`), its retry when the prices are
  out of date (`:261`), input keys that are used again between submission and collection (`:304`), output
  directories that are used twice (`:197`), two reservations at once (`judge.py:92`);
- the deadline of a query, which is looked at between the calls but has to hold during them (`query.py:152`), the
  put that takes effect and whose reply is lost (`query.py:297`), evidence of another owner among good evidence
  (`query.py:182`), a capture that dies between two paid requests (`judge_workflow.py:241`) or shares its report
  with another (`:230`), a redeployment between two cases (`judge.py:134`).

`PROJECT.json` lists every hazard at its line with the properties that would catch it.

## 2. Modules

```
AutoIntake      pure rules: facts, missing fields, urgency, planning, validation
  ReviewBoard     review rows of a conversation, checkpoint threads
    ActionService   intent rows, one attempt at the core
      Application     the whole journey: every operation, every crash
        JourneyProperties   what makes it correct; the refinement of Submission
          MCApplication       instances for TLC
          JourneySafety       proof: types, the submission invariant, Application implements Submission
            JourneyReviewProofs   proof: reviews, urgency, checkpoints, no accepted task fails
Submission      the abstract promise: one intent, one claim, one receipt

Ingestion       offline ingestion: runs, lock, documents, jobs, operator
  IngestionProperties
    MCIngestion         instances for TLC
    IngestionProofs     proof: the inductive invariant and what follows from it

QueryLambda     invocations of the query handler, their calls, the capture bucket, the platform
  QueryProofs     proof: the inductive invariant, what follows from it, and the deadline
  JudgeCapture    capture commands, reports and exports, composed with the Lambda
    MCJudgeCapture      instances for TLC
    CaptureProofs       proof: reports account for what was paid, rows are answers

JudgeSubmission upload and submit commands, state files, inputs, jobs
  JudgeProperties   what makes it correct; the refinement of JudgePayment
    MCJudge             instances for TLC
  JudgeCollection   beside it: jobs that write results, collect commands, keys used again
    MCJudgeCollection   instances for TLC
  JudgeProofs       proof: the inductive invariants, what follows, JudgeSubmission implements JudgePayment
JudgePayment    the abstract promise: one request, one paid job, one ARN for each run
JudgeSummary    the loop of summarize over result records
  SummaryProofs   proof: scores and completeness do not depend on the order
BudgetLedger    the shared budget: transactions that read, decide and insert
  MCBudgetLedger  an instance for TLC
  LedgerProofs    proof: sums over finite sets, and that the budget holds
```

### The journey

A variable is a table: `conv` (the conversation's owner and state column), `tasks`, `outbox`, `actions`,
`reviews` (a board with at most one row of each kind, as the table's UNIQUE says), `decisions`,
`helpSessions`; plus the two stores outside the transaction, `claims` (the core) and `threads` (the
checkpoints that hold a decision). An action is one transaction:

| action | code |
|---|---|
| `Create`, `Attach` | `Application.create` without and with a help token |
| `Help` | `Application.help` |
| `EnqueueMessage`, `EnqueueConfirmation` | `Application.enqueue` of the two kinds of payload, `prepare` included |
| `WorkOnce` | `Application.work_once` with `process`, `execute`, the planning graph and every review it proposes |
| `WorkCrash` | the same, dead before its commit: only `claims` and restarts of `threads` remain |
| `Reconcile`, `ReconcileCrash` | `Application.reconcile`, one attempt for each unknown action |
| `Decide`, `DecideCrash` | `Application.decide`; a crash may leave the review thread restarted or resumed |

A request that the code refuses, and a repeated request that returns what was stored, change nothing: they
are the guards of these actions, not steps of their own.

Inside one attempt the connection to the core may break before the lookup, before the submit, or after the
core filed the claim (`CoreReplies`). `Execute` follows the code: look up, submit the draft **of the action
row**, and make the action `unknown` on a lost reply.

Data is cut down to what the properties tell apart. Four of the eight intake fields are kept, one of each
behaviour: the two status fields that trigger urgency and two references that the core authorizes. A digest
stands for the components it hashes. A text is what an interpretation may make of it (`Interpretations`)
and whether it holds an urgent phrase. References drawn at random are fresh: nobody has them yet. Of a
proposal only the triage team is kept, of a task's result only which review it waits for.

`Submission` is what a customer is promised: a draft is intended at most once, a claim is filed for an
intended draft, once, and the receipt shown is that claim's. `JourneyProperties` maps the tables to it; the
claims of a conversation are *all* claims the core has for its intake, under any action id, so a second
claim under a second id would break it.

### Offline ingestion

An action is the code between two calls to AWS, with the save of the report that belongs to it. For every
run: `run` (where the process is, and its variables `etag`, `start_attempted`, `terminal`), `report` (in
memory) and `disk` (as saved). Shared: `lock` (the lock object's run), `objects` (who wrote each document),
`jobs` (the job of each client token), `sync` (a job of something else).

`Begin` … `SaveReport` are the lines of `run` in order; `Poll` is one turn of `poll_job`. A call that takes
effect and whose reply is lost, or whose report cannot be saved, is a branch of its action; `Fail` is every
check, call or save that raises without effect; `Kill` is the death of the process at any point. Around
them: `JobEnds` (Bedrock), `OtherSync` (a job started by another client), and the operator's recovery
procedure of `docs/aws/OFFLINE_INGESTION_REFERENCE.md`: `StartAgain` repeats a start whose outcome is
unknown with the same token, `Recover` deletes the lock of a stopped run when no job is active.

Three assumptions come from that document and not from the code: other syncs do not begin while a run has
the lock (line 106), a lock is only recovered when its process is stopped and no job is active, and a start
is only repeated from a report that says it was attempted. A run id is fresh, so a run is begun once.
`PollUnsaved`, a poll whose report cannot be saved, is an action of its own so that no fairness holds for it.

### The policy query and its capture

`QueryLambda`. `call` is each invocation: where it is, its request, the time since it began, its artifact (what
`_capture` would write: subject, results, evidence, answer, citations, model use, deployment), and what it
replied. `store` is the bucket under a request id, `events` what API Gateway accepted, `deployed` the package.
An action is the code between two calls to AWS:

| action | code |
|---|---|
| `Begin` | `handler` up to the retrieval: authorization, body, capture configuration |
| `Retrieve` | the retrieval and, by `Retrieved`, isolation, context limits, the answer without evidence |
| `Converse` | `_draft` and, by `Drafted`, citations and the unsupported answer |
| `Save` | the conditional put; the reply with the capture, or 503 |
| `Ask`, `Kill`, `Redeploy` | API Gateway, the platform, the operator |

Every stage that looks at the deadline does so in the model (`Late`), with the code's rule: half a second or less
is too late. Time is counted in half seconds, per invocation, and passes only in calls; how long a call may take
is any of `Durations` up to its limit, which is the connect and the read timeout the code gives that client
(`CallLimit`, once for both Bedrock clients; `SaveLimit`, from what is left, for S3). So a call that outlasts its
connect and read timeouts together, by a trickle of bytes, is outside the model, as are the fractions of a half
second that the code itself uses. An invocation past `Lifetime` is stopped by the platform (`Goes`).

A passage is its owner and line of business, its document, and its size; a draft is an answer, the evidence ids
it cites, and whether it has token counts; an answer is what a check can tell apart. An artifact's hash is the
artifact. The order of `Evidence`'s positions is that of the results, as the ids `E1`, `E2`, … are.

`JudgeCapture` adds the commands: `Start` (the report created with mode `x`), `Send` (the POST), `Receive` and
`Miss` (the checks of the reply and of the capture object; any failure is a sample that did not pass), `Record`
(the replaced report), `Abort` (death or an exception), and `Export` (`export_dataset` with the files `main`
writes; dead half-way, a directory without manifest). A command's report is only its own because its file must be new.
`posted` is history: for which report and case a request was sent. Left out of `Accepted`, because they only
refuse more: the age of a capture, and the equality of guardrail and configuration hashes across samples.

### Judge evaluation

`JudgeSubmission`. `proc` is what each command has in memory and where it is; the rest is shared: `receipts`
(`--state` of upload), `states` (`--state` of submit), `inputs` (the objects), `jobs` (Bedrock's), and `stale`
(the runs for which `load_prepared` raises). An action is the code between two calls or file operations:

| action | code |
|---|---|
| `BeginUpload`, `Put`, `Note` | `execute` up to `upload`, the conditional write and the comparison, the receipt |
| `BeginSubmit` | `execute` up to `submit`; `load_prepared` only without a state file |
| `Open`, `Decline` | the exclusive write of the request, or the saved one that is the same; otherwise return or raise |
| `Verify`, `Send`, `Save` | the comparison with the object, `create_evaluation_job`, the replacing write of the ARN |
| `Fail` | a call or write that raises without effect, or the death of the process |
| `GoStale`, `JobReads`, `JobEnds` | the pricing date and fixtures; Bedrock |

A write that replaces (`temporary.replace`) happens or does not; an exclusive one can leave a broken file,
which every later command refuses. A dataset stands for an export (rows and manifest, compared by digest), a
run for its preparation (request and identity, compared whole; the client token is their digest).

`JudgeCollection` adds the results jobs write and the collect commands, one action for each call or local
write. The runbook (`docs/aws/BEDROCK_RAG_JUDGE_LOCAL.md`) says to keep the input key while a job runs; there,
`FreeKey` does not: an object may go and its key be used again at any time. `summarize` is there the one fact
that a record belongs to the row it repeats; `JudgeSummary` has the loop itself, one action for each turn.

`JudgePayment` is what the submissions of a run promise, without commands, files, keys and replies: a request is
recorded for good (`Request`), one job is then paid for, which is no other run's (`Pay`), and its ARN is recorded for
good (`Learn`). `JudgeProperties` maps it to the state: a run is requested if a whole state file names it, paid for
by the jobs Bedrock has for it, and known by the ARNs in its files. Payment does not need the care for input keys:
it is proved beside `FreeKey` too. `PaidJobIsOnFile` is a consequence of it, and so has no run of its own.

`BudgetLedger` is `reserve`: a transaction reads the tables (`Begin`), then inserts (`Commit`) or not
(`Rollback`); `BEGIN IMMEDIATE` is the guard on `writer`. Amounts are units. That `reserve` also refuses a stale
preparation only makes it do less, and is left out. Nothing in the code makes submit depend on a
reservation, so the two modules are not composed.

Assumptions from outside the code: Bedrock answers a token it knows with the ARN it gave for it; an S3
conditional write is atomic; one command runs for each state file at a time (the runbook, line 55); in
`JudgeSubmission` alone, input objects are not removed (the same line).

## 3. Runs

All runs finish in well under five minutes with two workers. Deadlock is not checked: a
journey without requests and a corpus without runs are complete, and the bounded request ids run out.

| run | instance | checks |
|---|---|---|
| `journey_submission` | 1 conversation, 4 messages, 2 action ids; edits, urgent texts, help, questions | `TypeOK`, `OneClaimPerConversation`, `ClaimMatchesIntent`, `ReceiptIsBacked`, `UnknownOutcomeIsPursued`, `AcceptedNeverFails`, `ConfirmationIsOffered`, `ImplementsSubmission` |
| `journey_reviews` | 1 conversation, 2 messages, 2 decision ids; all reviews decided, reopened and decided across crashes | `PendingReviewIsCurrent`, `UrgencyIsReviewed`, `TriageIsCurrent`, `UrgencyFloor`, `CheckpointMatchesDecision`, `HelpAndSubmissionCanBeReleased` |
| `journey_liveness` | 2 conversations, 2 messages, under `FairSpec` | `AcceptedIsProcessed`, `UnknownIsSettled` |
| `ingestion_safety` | 3 runs, 2 documents | `LockOutlivesWork`, `JobReadsOneSnapshot`, `StartIsDurable`, `LockIsReported`, `CompleteIsIngested`, `NoUploadDuringSync` |
| `ingestion_liveness` | 2 runs, 2 documents, under `FairSpec` | `RunsEnd` |
| `judge_capture` | 2 invocations, 3 requests, 2 capture commands with one report, 2 cases, 2 packages, a 25 second Lambda; other clients | `TypeOK`, `AnswersAreBacked`, `DeadlineIsEnforced`, `ExportedRowsAreAnswers`, `EachCaseIsSentOnce`, `PaidRequestsAreOnFile` |
| `query_deadline` | 1 invocation, a 10 second Lambda | finds `DeadlineIsEnforced` **violated** |
| `judge_submission` | 2 runs with one key, 2 datasets, 2 commands, 2 state files, 2 jobs | `OneJobPerRun`, `SavedJobReadsSavedData`, `ReceiptIsTrue`, `SavedRequestIsKept`, `ImplementsPayment` |
| `judge_liveness` | 1 run, 2 datasets, 1 command, 2 state files, under `FairSpec` | `RequestIsResolved` |
| `judge_collection` | 2 runs, 2 datasets under one key, 2 state files, 2 collect commands at a time into one directory | `ReportIsOfOneJob`, `CompleteReportIsOfItsDataset` |
| `budget_ledger` | 3 runs, 2 commands, budgets up to 4 units | `WithinBudget` |
| `judge_summary` | 2 cases, 2 metrics, all sequences of up to 2 records of up to 2 scores | `ScoresAreAsDownloaded`, `CompleteIsExact` |

**The violated property.** `infra/pocs/aws_bedrock/README.md:303-304` asks to "enforce the overall deadline across
retrieval, generation and SDK retries", and `query.tf:32` admits timeouts of 5 to 28 seconds, the deadline two
seconds below. The code sizes the read timeout of both Bedrock clients once, from the time before the first call.
With a 10 second timeout a slow retrieval leaves time to begin a generation that may last longer than the Lambda
lives; the caller then gets the platform's error and not the 504 of the handler. From 25 seconds on (the
default is 28) both calls and the put fit, which `judge_capture` checks and `QueryProofs` proves.

**No release for a later message.** Not every task that is left `awaiting_review` can leave it. A decision
releases help requests (`service.py:336-346`) and, once submitted, confirmations (`350-353`). An ordinary message
processed beside a submission, when it is unknown or was made, also gets the status (`266-268`), for no review
of its own, and nothing releases it. No document, comment or test promises that something would, so this is no
violated property; `HelpAndSubmissionCanBeReleased` says what holds: a help request waits beside a service
review that an employee can decide, a submission beside the triage that releases it or, while its outcome is
unknown, beside the submission review that reconciliation closes, and any other message waits only beside a
submission.

**Bounds.** The journey's state space is bounded by the request ids alone: a message, a decision and a help
request use theirs up, and nothing else grows. Four messages are enough for one before the confirmation,
one between an unknown attempt and its reconciliation and two after it; two action ids for a second claim
to be possible; two decisions for a decision, a reopening and a second decision, or two decisions that race
on one thread. Two conversations are what a reconciliation batch, a hand-over and a foreign reference need.
Message, decision, action and run ids are interchangeable, so the safety runs use symmetry over them; the
liveness runs do not. Three ingestion runs are one that died, one that recovers and one that races it; two
documents make a partial upload.

In the judge's runs commands begin for ever and nothing grows but jobs, of which a run has one. Two runs with
one key are what a contest for an input needs, two exports what a second submission under the same token needs,
two state files what a lost one needs; collection needs two jobs and two commands for a shared directory, and
two datasets for a key that is used again; two commands are one that uses what another left as well as one that
overlaps another, and the mutant of `ReportIsOfOneJob` is one that only an overlap breaks. The constraint
`AllCurrent` keeps the preparations of that run current: collecting reads nothing of them, and for submission
`judge_submission` lets them go stale. Two invocations are one request delivered twice, or a capture's and
another client's; a request of a capture that is delivered twice is not also exported within these bounds, as
an export of two cases takes an invocation for each: that case of `ExportedRowsAreAnswers` is the theorem's.
three requests are one for each of two cases and one of another client or of a second command; two commands on
one report are the race for its file; the retrievals hold a good one, none, a blank passage, a foreign
one, one among good ones, one without a document and one too long; the durations are a fast call, one above the half
and one at the limit of 12 seconds. Three reservations are two that
fit and one that does not; two scores and two records are the first and second place of a duplicate.

**Fairness.** `journey_liveness` assumes that a committed `work_once` happens if the outbox stays non-empty
(`apps/worker/main.py` drains it on every invocation, crashes do not go on for ever) and that a `reconcile`
whose attempts are all answered happens if some action stays unknown (the worker ends with `reconcile`, and
a core that is up long enough answers). Nothing is assumed of customers and employees. `ingestion_liveness`
assumes only that a process that is running goes on and that its clock does: `WF` on the run's own steps,
none on the job's end, on failures or on the operator. So `RunsEnd` rests on the deadline of `poll_job`,
not on the job. `judge_liveness` assumes what the runbook asks of the operator: the same command is repeated
while the request has no ARN, and of the calls a repeated command makes none fails every time (`SF` on each
step, on `Send` with its reply). Nothing is assumed of prices, so `RequestIsResolved` rests on recovery not
needing a current preparation.

Every property is shown to depend on the code by a mutant in `PROJECT.json`: a plausible mistake in one
definition under which TLC finds the property violated.

## 4. Proofs

TLC checks the instances above; these theorems hold for every value of the constants, from the `ASSUME`s
in `AutoIntake`, `ActionService`, `Application`, `Ingestion`, `QueryLambda`, `JudgeCapture`, `JudgeSubmission`,
`JudgeCollection`, `JudgeSummary` and `BudgetLedger` (which TLC evaluates for each instance). Every inductive
invariant below was first checked by TLC on the instance of its run.

- `JourneySafety!TypeCorrect`: `Spec => []TypeOK`, with one lemma for each helper that builds a row.
- `JourneySafety!SubmissionInvariant`. `OneClaimPerConversation` is not inductive: that a conversation has
  one claim rests on a claim being filed only under the id of its own action row, on two conversations
  never sharing an action id, and on an action id that is drawn having no claim. `SubmissionInv` is
  the conjunction of those facts; it is kept by each operation, also by those that lose their transaction. From it
  follow `AtMostOneClaim`, `ClaimsMatchIntents` and `ReceiptsAreBacked`.
- `JourneySafety!JourneyImplementsSubmission`: every step of the journey, the crashes included, is for
  each conversation one of `Intend`, `File`, `Acknowledge`, `FileAndAcknowledge` or no change of the promise.
- `JourneyReviewProofs!ReviewInvariant`, for any number of customers, conversations, messages, decisions and
  action ids. A transaction of the worker changes the state and the review board of a conversation in several
  steps, and between them the properties do not hold: an edit raises the version before `follow_up` has
  superseded what was pending. So each step is shown to keep what holds *between* steps (`Sound`: no review is
  ahead of the draft or lacks its reason), planning to establish `Planned` (the stage fits the missing facts and
  the intent), and `FollowUp`, which ends every transaction, to make the board `Current` again. The three
  together are the desk of a conversation, and the desks are not inductive alone:
  - that an accepted task never fails needs `DeliveriesAreAcceptable`: what is queued stays acceptable while
    other transactions run, because an accepted confirmation has its intent row, which nothing withdraws;
  - that a review can be told from an earlier one of its kind, and so that a decision cannot be taken twice, needs
    `DecisionsArePast`: a recorded decision is of an earlier version of its review, or the review is not pending;
  - that a crash between checkpoint and commit is harmless needs `CheckpointMatchesDecision` itself beside it: the
    thread is restarted before a decision is resumed in it.
  From it follow all nine invariants about reviews and tasks: `UnknownOutcomesArePursued`, `NoAcceptedTaskFails`,
  `ConfirmationsAreOffered`, `PendingReviewsAreCurrent`, `UrgencyIsAlwaysReviewed`, `TriageIsAlwaysCurrent`,
  `UrgencyFloorHolds`, `CheckpointsMatchDecisions` and `HelpAndSubmissionsCanBeReleased`.
- `IngestionProofs!IngestionInvariant`, for every set of runs and every corpus size. The properties rest
  on what a process at each point knows and holds (`Phases`), on what it knows of its job (`Jobs`), on
  what the lock's owner has written so far (`Written`), on the announced start (`Starts`) and on what it
  still has to report (`Reports`). From it follow `LockIsKept`, `SnapshotIsWhole`, `StartIsAnnounced`,
  `LockIsNoted`, `CompleteIsTrue` and, as an action property, `NothingMovesDuringSync`.
- `QueryProofs!QueryInvariant`, for any requests, documents, drafts and durations. `AnswersAreBacked` is not
  inductive: that nothing else is in the bucket rests on nothing being stored unless its event asked for it
  (`StoreInv`), that what is there is what was replied on a put never replacing (`PutKeeps`), and that a citation
  names a passage on the evidence being that of the results at every point (`Cited`). From it follow
  `QueryTypes` and `AnswersBacked`. `DeadlineEnforced` needs `TimeInv` beside it (the time of an invocation at
  each of its points) and the hypothesis `LongEnough`: a timeout of 25 seconds or more with the deadline two
  seconds before it. `query_deadline` shows that the hypothesis is not idle.
- `CaptureProofs!CaptureUsesQuery`: a run of the composition is a run of `QueryLambda`, so its theorems
  carry over. `CaptureInvariant` says what a command at each point knows of its report, and that a report has one
  command; from it follow `CasesAreSentOnce` and `PaidIsOnFile`. `RowsAreAnswers` rests on `DataInv` beside it:
  a sample that passed was read from a reply and from the bucket, and neither changes (`RepliesStay`).
- `JudgeProofs!JudgeInvariant`, for any number of runs, files and commands. It has two parts. `PaidInv` is of
  requests and jobs: from `Open` on a command's request is on file, after `Send` it has a job of its run
  (`Remembers`); a job has its run's token, and its request is on file (`Backed`). `InputInv` is of what lies under
  the keys: from `Verify` on a command's dataset is there (`Verified`), and jobs, ARNs and receipts agree with it. What
  is known stays true because no step takes back a saved request or a job (`Keeps`), nor, in
  `JudgeSubmission`, an input (`InputsStay`). From it follow `PaidOnce`, `PaidIsOnFile`,
  `JobReadsItsDataset`, `ReceiptsAreTrue` and, as an action property, `RequestsAreKept`.
- `JudgeProofs!PaidInvariant`: `PaidInv` by itself is inductive under `CollectSpec`, where keys are freed and
  used again. `PaidWhateverTheKeys` and `CollectionImplementsPayment` follow, and by the same lemmas
  `SubmissionImplementsPayment`: `Open` is `Request` or nothing, `Send`
  is `Pay` or nothing, `Save` is `Learn` or nothing (it may replace an ARN only by the same), all others are nothing.
- `JudgeProofs!CollectionInvariant`, for any number of collect commands, directories and jobs. `JudgeInv` does not
  hold here, because inputs go and keys are used again; what holds is that a job that has ended is never
  changed (`EndedJobsStay`), that a command downloads only into a directory that it made and is alone in
  (`Downloads`), and that what was true of a report when it was written stays so (`Shows`). `ReportsAreOfOneJob`
  and `CompleteReportsMatch` follow. The second needs `CollectionAssumption`, that there is a metric at all: a
  complete report then has a record, and its row is the dataset the job has read.
- `LedgerProofs!LedgerInvariant`: `WithinBudget` is about a sum, and rests on the writer having read the tables as
  they still are (`ReadsLatest`, from `BEGIN IMMEDIATE`) and on one budget for all reservations (`AsPrepared`).
  That the sum is a sum (`SumsExist`: the recursion of the fold is well defined on a finite set; `SumWithOneMore`:
  one more reservation adds its amount) is an induction over sets, see below. It is why `LedgerAssumption` says that
  the runs are finitely many. `BudgetHolds` follows.
- `SummaryProofs!SummaryInvariant`, for any number of rows, metrics, records and scores in a record: what is seen,
  scored and an issue is what the entries *taken so far* say, and one turn of the loop takes one entry or none
  (`TakeItemTakesOne`, `TakeRecordTakesNone`). At the end all are taken; `ScoresDependOnRecords` and
  `CompletenessIsExact` follow.

Induction. The library's induction theorems take an operator as a parameter and no installed prover
instantiates one. `LedgerProofs` uses the well-foundedness they come from, which is first-order: the set of
counterexamples, if it were not empty, would have a least member (`LeastNumber`, `SmallestMember`).

Every safety invariant, action property and refinement that a run checks is thus a theorem. One has a hypothesis:
`DeadlineIsEnforced` is proved under `LongEnough`, and fails without it. Only model-checked is liveness
(`AcceptedIsProcessed`, `UnknownIsSettled`, `RunsEnd`, `RequestIsResolved`), whose fairness is out of the prover's
reach.

## 5. Not modelled

- Authentication and authorization of HTTP requests, error mapping, configuration: no state; the model
  starts where a request carries an identity.
- Loading and validating catalogs, rules and fixtures; effective dates of catalog sources. They are fixed
  while the application runs; a changed fixture between two attempts could make the core refuse a draft it accepted.
- The stored `missing_fields`: it is recomputed wherever it decides anything.
- The task results' text, the messages to customers, decision notes.
- Two workers at once are not more than one: `BEGIN IMMEDIATE` makes their transactions exclusive. The AWS
  deployment that a comment in `work_once` mentions does not exist in this repository.
- Corpus generation, fixtures, scripts, infrastructure, the Databricks example: sequential
  programs or configuration. `test_online_rag.py`'s own command sends one case and writes its report once; what
  it shares with `capture` (`run`, `read_capture`, `check_answer`) is modelled there.
- The costs of `estimate` and `prepare`: arithmetic on a price list, whose result is a choice of the model.
- Two hazards are left to the runbooks and have no property, as `PROJECT.json` notes where it applies: the
  smoke command starts an ingestion job without the lock (it is `OtherSync`, which the operator must not run
  during a run), and two submit commands with one state file share the name of its temporary file.

## 6. Plan

Done: the journey, `Submission`, offline ingestion, the policy query and its capture, the judge evaluation, and
theorems of every safety property the runs check. Left: an abstract specification of ingestion (one snapshot at a
time is offered to one job), and that `Ingestion` implements it.
