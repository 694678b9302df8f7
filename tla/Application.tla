---------------------------- MODULE Application ----------------------------
(***************************************************************************)
(* The insurance journey: conversations, durable tasks, the worker,        *)
(* reviews and their decisions, pre-login help, and reconciliation.        *)
(*                                                                         *)
(* Every operation runs in one BEGIN IMMEDIATE transaction, so an action   *)
(* of this module is a whole operation, and an operation that raises       *)
(* leaves no trace in these tables.  Two stores commit on their own while  *)
(* a transaction is still open: the core's claims and the review threads.  *)
(* The ...Crash actions are transactions that lose everything but those.   *)
(***************************************************************************)
EXTENDS ActionService, Sequences

CONSTANTS
  RequestIds,      \* client-generated help request ids
  MessageInputs,   \* what customers may send: the content of a message
  Interpretations  \* what the language adapter may make of a text

VARIABLES
  conv,          \* conversations: the state column and the owner
  tasks,         \* tasks
  outbox,        \* the undelivered outbox rows with their tasks' payloads
  actions,       \* actions, UNIQUE(conversation)
  reviews,       \* reviews, UNIQUE(conversation, kind)
  decisions,     \* decisions
  helpSessions,  \* help_sessions
  claims,        \* the core's receipts, by action id
  threads        \* the review graph's checkpoints that hold a decision

vars == <<conv, tasks, outbox, actions, reviews, decisions, helpSessions, claims, threads>>

-----------------------------------------------------------------------------
(* Rows. *)

Stages == {"awaiting_customer", "awaiting_confirmation", "awaiting_review",
           "pending_submission", "review_completed"}

Outcome == [decision: Decisions \cup {"none"}, team: TeamOrNone]
NoOutcome == [decision |-> "none", team |-> NoTeam]

\* receipt is the draft version the core's receipt names, 0 without one.
State == [version: Nat, facts: FactMap, priority: Priorities, stage: Stages,
          team: TeamOrNone, receipt: Nat, outcome: Outcome]
Conversation == [owner: Owners, state: State]

InitialState(facts) ==
  [version |-> 1, facts |-> facts, priority |-> "routine", stage |-> "awaiting_customer",
   team |-> NoTeam, receipt |-> 0, outcome |-> NoOutcome]

Created(c) == conv[c].owner # NoOwner

Intents == {"intake", "policy_status", "claim_status", "service", "employee_help"}

\* The content of a message and of an interpretation.  "trigger": the text
\* holds an urgent phrase.  "known": the catalog answers the question.
Input == [intent: Intents \cup {"auto"}, reports: ReportMap, policy: Policies \cup {"none"},
          known: BOOLEAN, trigger: BOOLEAN]
NoInput == [intent |-> "intake", reports |-> NoReports, policy |-> "none",
            known |-> FALSE, trigger |-> FALSE]
HelpInput == [NoInput EXCEPT !.intent = "employee_help"]

\* The contract's rules: facts only with intent "intake", and an automatic
\* message is text only.
ASSUME InputAssumption ==
  /\ MessageInputs \subseteq Input
  /\ \A m \in MessageInputs : /\ Reported(m.reports) # {} => m.intent = "intake"
                              /\ m.trigger => m.intent = "auto"
  /\ Interpretations \subseteq [intent: Intents, reports: ReportMap,
                                policy: Policies \cup {"none"}, known: BOOLEAN,
                                trigger: {FALSE}]

TaskStatuses == {"queued", "completed", "failed", "awaiting_review", "awaiting_customer"}

\* A task's request_key is its message, or its draft version for a
\* confirmation.  "awaits" is pending_review_ref.  "running" is never seen
\* outside the worker's transaction.
Task == [conv: Conversations, kind: {"message", "confirmation"},
         message: MessageIds \cup {NoMessage}, version: Nat,
         status: TaskStatuses, awaits: {"service", "none"}]
Delivery == [conv: Conversations, kind: {"message", "confirmation"},
             message: MessageIds \cup {NoMessage}, version: Nat, input: Input]

\* Mutant: a conversation takes a second task while one is queued.
NeverBusy(c) == FALSE

Busy(c) == \E t \in tasks : t.conv = c /\ t.status = "queued"

-----------------------------------------------------------------------------
(* create: a conversation for a customer, or one attached to a help token. *)

Create(owner) ==
  \E c \in Conversations :
    /\ ~Created(c)
    /\ conv' = [conv EXCEPT ![c] = [owner |-> owner, state |-> Plan(InitialState(NoFacts))]]
    /\ UNCHANGED <<tasks, outbox, actions, reviews, decisions, helpSessions, claims, threads>>

\* The token is known to whoever made the request; it names the conversation.
Attach(owner, session) ==
  /\ session \in helpSessions
  /\ conv[session.conv].owner \in {"preauth", owner}
  /\ conv' = [conv EXCEPT ![session.conv].owner = owner]
  /\ UNCHANGED <<tasks, outbox, actions, reviews, decisions, helpSessions, claims, threads>>

(* help: a request before login.  A repeated request id changes nothing. *)

PreauthFacts(injury, drivable) ==
  [NoFacts EXCEPT
    !["injury_reported"] = [NoFact EXCEPT !.value = injury, !.source = "preauth_status"],
    !["drivable"] = [NoFact EXCEPT !.value = drivable, !.source = "preauth_status"]]

Help(request, injury, drivable) ==
  \E c \in Conversations :
    LET state == Plan(InitialState(PreauthFacts(injury, drivable)))
        work == UpsertReview(c, [state |-> state, board |-> reviews[c], threads |-> threads],
                             IF state.priority = "urgent" THEN "urgency" ELSE "service")
    IN  /\ \A session \in helpSessions : session.request # request
        /\ ~Created(c)
        /\ conv' = [conv EXCEPT ![c] = [owner |-> "preauth", state |-> state]]
        /\ reviews' = [reviews EXCEPT ![c] = work.board]
        /\ threads' = work.threads
        /\ helpSessions' = helpSessions \cup {[request |-> request, conv |-> c]}
        /\ UNCHANGED <<tasks, outbox, actions, decisions, claims>>

-----------------------------------------------------------------------------
(* enqueue: durable acceptance.  A repeated request_key returns the task it *)
(* already has, or a conflict, and changes nothing.                         *)

Accept(c, kind, message, input) ==
  LET version == conv[c].state.version
  IN  /\ tasks' = tasks \cup {[conv |-> c, kind |-> kind, message |-> message,
                               version |-> version, status |-> "queued", awaits |-> "none"]}
      /\ outbox' = Append(outbox, [conv |-> c, kind |-> kind, message |-> message,
                                   version |-> version, input |-> input])

\* The references a message asks about belong to its owner.
Accessible(owner, input) ==
  /\ input.intent = "policy_status" => Authorized(owner, input.policy)
  /\ input.intent = "claim_status" => ClaimKnown(claims, owner)

\* An accepted message names the current version (stale_version).
EnqueueMessage(owner, c, message, input) ==
  /\ conv[c].owner = owner
  /\ \A t \in tasks : ~(t.conv = c /\ t.message = message)
  /\ ~Busy(c)
  /\ Reported(input.reports) # {} =>
       ValidDraft(owner, UpdateFacts(conv[c].state.facts, input.reports, message))
  /\ Accessible(owner, input)
  /\ Accept(c, "message", message, input)
  /\ UNCHANGED <<conv, actions, reviews, decisions, helpSessions, claims, threads>>

\* An accepted confirmation carries the version and the digest of the
\* current draft (stale_confirmation), which misses nothing.
EnqueueConfirmation(owner, c) ==
  LET state == conv[c].state
  IN  /\ conv[c].owner = owner
      /\ \A t \in tasks : ~(t.conv = c /\ t.kind = "confirmation" /\ t.version = state.version)
      /\ ~Busy(c)
      /\ ValidDraft(owner, state.facts)
      /\ Missing(state.facts) = {}
      /\ \E row \in Prepared(actions, claims, c, Draft(c, state)) :
           actions' = [actions EXCEPT ![c] = row]
      /\ Accept(c, "confirmation", NoMessage, NoInput)
      /\ UNCHANGED <<conv, reviews, decisions, helpSessions, claims, threads>>

-----------------------------------------------------------------------------
(* process: what the worker makes of a delivery.  The steps below thread    *)
(* the transaction's work through in the order of the code.                 *)

\* A text that holds an urgent phrase, before anything interprets it.
Escalate(c, work) ==
  LET version == work.state.version + 1
  IN  UpsertReview(c, [work EXCEPT !.state = [@ EXCEPT !.version = version,
                                                       !.outcome = NoOutcome,
                                                       !.priority = "urgent"],
                                   !.board = Invalidated(@, version)], "urgency")

\* What an automatic message is taken to ask.  Extracted facts are never
\* confirmed, and conflict with another value on file.  Any DomainError on
\* the way turns the message into a request for an employee.
Understood(owner, facts, message, reading) ==
  LET reports == [f \in Fields |->
        IF reading.reports[f].value = Absent THEN Silent
        ELSE [value |-> reading.reports[f].value, confirmed |-> FALSE,
              conflicting |-> facts[f].value \notin {Absent, reading.reports[f].value}]]
  IN  IF ValidDraft(owner, UpdateFacts(facts, reports, message)) /\ Accessible(owner, reading)
      THEN [reading EXCEPT !.reports = reports]
      ELSE HelpInput

RecordFacts(work, facts, changed) ==
  LET version == work.state.version + 1
  IN  IF changed
      THEN [work EXCEPT !.state = [@ EXCEPT !.facts = facts, !.version = version,
                                            !.outcome = NoOutcome],
                        !.board = Invalidated(@, version)]
      ELSE work

\* A request after a decided one needs a version of its own.
AskEmployee(c, work) ==
  LET open == work.board["service"].status \in {"absent", "pending"}
      version == work.state.version + (IF open THEN 0 ELSE 1)
  IN  UpsertReview(c, [work EXCEPT !.state = [@ EXCEPT !.version = version]], "service")

\* Mutant: an alert raised earlier is not proposed again.
FollowUpWithoutAlert(c, work, actionStatus) ==
  LET routed == IF work.state.receipt # 0 THEN UpsertReview(c, work, "triage") ELSE work
  IN  IF actionStatus = "unknown"
      THEN UpsertReview(c, [routed EXCEPT !.state = [@ EXCEPT !.stage = "pending_submission"]], "submission")
      ELSE routed

\* Mutant: the submission under way is forgotten once it is unknown.
FollowUpWithoutSubmission(c, work, actionStatus) ==
  LET alerted == IF work.state.priority = "urgent"
                 THEN UpsertReview(c, work, "urgency") ELSE work
  IN  IF work.state.receipt # 0 THEN UpsertReview(c, alerted, "triage") ELSE alerted

\* The proposals every processed task leaves behind.
FollowUp(c, work, actionStatus) ==
  LET alerted == IF work.state.priority = "urgent"
                 THEN UpsertReview(c, work, "urgency") ELSE work
      routed == IF work.state.receipt # 0
                THEN UpsertReview(c, alerted, "triage") ELSE alerted
  IN  IF actionStatus = "unknown"
      THEN UpsertReview(c, [routed EXCEPT !.state = [@ EXCEPT !.stage = "pending_submission"]], "submission")
      ELSE routed

\* Mutant: a message is not done before the submission is settled.
StageStatusQueued(stage) ==
  CASE stage = "review_completed" -> "completed"
    [] stage = "awaiting_review" -> "awaiting_review"
    [] stage = "pending_submission" -> "queued"
    [] OTHER -> "awaiting_customer"

StageStatus(stage) ==
  CASE stage = "review_completed" -> "completed"
    [] stage \in {"awaiting_review", "pending_submission"} -> "awaiting_review"
    [] OTHER -> "awaiting_customer"

\* The result of a delivery: its work, the rows of the action and the claim,
\* and the task's new status.
Result(work, action, claim, status, awaits) ==
  [work |-> work, action |-> action, claim |-> claim, status |-> status, awaits |-> awaits]

Work(c) == [state |-> conv[c].state, board |-> reviews[c], threads |-> threads]

ClaimOf(action) == IF action.id = NoAction THEN NoClaim ELSE claims[action.id]

\* stale_version, or a message its owner may not send: the task fails.
Rejected(d, facts) ==
  \/ d.version # conv[d.conv].state.version
  \/ /\ d.input.intent # "auto"
     /\ \/ d.input.intent = "intake" /\ ~ValidDraft(conv[d.conv].owner, facts)
        \/ ~Accessible(conv[d.conv].owner, d.input)

ProcessMessage(d, reading) ==
  LET c == d.conv
      escalated == IF d.input.trigger THEN Escalate(c, Work(c)) ELSE Work(c)
      old == escalated.state.facts
      input == IF d.input.intent = "auto"
               THEN Understood(conv[c].owner, old, d.message, reading) ELSE d.input
      facts == UpdateFacts(old, input.reports, d.message)
      changed == d.input.trigger \/ facts # old
      recorded == IF input.intent = "intake" \/ Reported(input.reports) # {}
                  THEN RecordFacts(escalated, facts, changed) ELSE escalated
      help == input.intent = "employee_help" \/ (input.intent = "service" /\ ~input.known)
      asked == IF help THEN AskEmployee(c, recorded) ELSE recorded
      answered == input.intent # "intake"
      planned == IF changed \/ (~answered /\ asked.state.receipt = 0)
                 THEN [asked EXCEPT !.state = Plan(@)] ELSE asked
      done == FollowUp(c, planned, actions[c].status)
  IN  IF Rejected(d, facts)
      THEN Result(Work(c), actions[c], ClaimOf(actions[c]), "failed", "none")
      ELSE Result(done, actions[c], ClaimOf(actions[c]),
                  IF help THEN "awaiting_review"
                  ELSE IF answered THEN "completed"
                  ELSE StageStatus(done.state.stage),
                  IF help THEN "service" ELSE "none")

ProcessConfirmation(d, reply) ==
  LET c == d.conv
      attempt == Execute(actions[c], ClaimOf(actions[c]), conv[c].owner, reply)
      waiting == UpsertReview(c, [Work(c) EXCEPT !.state = [@ EXCEPT !.stage = "pending_submission"]], "submission")
      filed == [Work(c) EXCEPT !.state = Plan([@ EXCEPT !.receipt = attempt.action.receipt])]
      done == FollowUp(c, filed, attempt.action.status)
  IN  IF attempt.refused
      THEN Result(Work(c), actions[c], attempt.claim, "failed", "none")
      ELSE IF attempt.action.status = "unknown"
      THEN Result(waiting, attempt.action, attempt.claim, "awaiting_review", "none")
      ELSE Result(done, attempt.action, attempt.claim, StageStatus(done.state.stage), "none")

\* Every result the next delivery may have.
Readings(d) == IF d.input.intent = "auto" THEN Interpretations \cup {HelpInput} ELSE {d.input}
Results(d) ==
  IF d.kind = "message"
  THEN {ProcessMessage(d, reading) : reading \in Readings(d)}
  ELSE {ProcessConfirmation(d, reply) : reply \in CoreReplies}

SetClaim(action, claim) ==
  IF action.id = NoAction THEN claims ELSE [claims EXCEPT ![action.id] = claim]

\* work_once: the transaction of one delivery, in task order.
Deliver(d, r) ==
  /\ conv' = [conv EXCEPT ![d.conv].state = r.work.state]
  /\ reviews' = [reviews EXCEPT ![d.conv] = r.work.board]
  /\ threads' = r.work.threads
  /\ actions' = [actions EXCEPT ![d.conv] = r.action]
  /\ claims' = SetClaim(r.action, r.claim)
  /\ tasks' = {IF t.conv = d.conv /\ t.kind = d.kind /\ t.message = d.message
                   /\ t.version = d.version
               THEN [t EXCEPT !.status = r.status, !.awaits = r.awaits] ELSE t : t \in tasks}
  /\ outbox' = Tail(outbox)
  /\ UNCHANGED <<decisions, helpSessions>>

WorkOnce == outbox # <<>> /\ \E r \in Results(Head(outbox)) : Deliver(Head(outbox), r)

\* The worker dies before its commit: the claim it may have filed stays, and
\* so do the restarts of some review threads.
WorkCrash ==
  /\ outbox # <<>>
  /\ \E r \in Results(Head(outbox)) :
       /\ claims' = SetClaim(r.action, r.claim)
       /\ \E lost \in SUBSET (threads \ r.work.threads) : threads' = threads \ lost
  /\ UNCHANGED <<conv, tasks, outbox, actions, reviews, decisions, helpSessions>>

-----------------------------------------------------------------------------
(* reconcile: one attempt for every unknown action, in one transaction.  A  *)
(* refusal by the core would abort it like a crash.                         *)

\* Mutant: only actions that were never tried are reconciled.
UnknownUntried == {c \in Conversations : actions[c].status = "pending"}

Unknown == {c \in Conversations : actions[c].status = "unknown"}

Attempts(replies) ==
  [c \in Unknown |-> Execute(actions[c], ClaimOf(actions[c]), conv[c].owner, replies[c])]

\* Mutant: the settled receipt does not reach the conversation.
ReconciledSilently(c, attempt) ==
  LET board == [reviews[c] EXCEPT !["submission"] =
                  IF @.status = "absent" THEN @ ELSE [@ EXCEPT !.status = "reconciled"]]
  IN  UpsertReview(c, [state |-> Plan(conv[c].state), board |-> board, threads |-> threads], "triage")

Reconciled(c, attempt) ==
  LET state == Plan([conv[c].state EXCEPT !.receipt = attempt.action.receipt])
      board == [reviews[c] EXCEPT !["submission"] =
                  IF @.status = "absent" THEN @ ELSE [@ EXCEPT !.status = "reconciled"]]
  IN  UpsertReview(c, [state |-> state, board |-> board, threads |-> threads], "triage")

\* The claims after every attempt: each action's id names its own.
ClaimsAfter(attempts) ==
  [a \in ActionIds |->
     IF \E c \in Unknown : actions[c].id = a
     THEN attempts[CHOOSE c \in Unknown : actions[c].id = a].claim
     ELSE claims[a]]

\* The work on the conversations whose attempt was answered, and the threads
\* it leaves.
Settled(attempts) ==
  [c \in {d \in Unknown : attempts[d].action.status = "confirmed"} |-> Reconciled(c, attempts[c])]

ThreadsLeft(work) == {t \in threads : \A c \in DOMAIN work : t \in work[c].threads}

ReconcileWith(replies) ==
  LET attempts == Attempts(replies)
      work == Settled(attempts)
      resolved == DOMAIN work
  IN  /\ Unknown # {}
      /\ \A c \in Unknown : ~attempts[c].refused
      /\ conv' = [c \in Conversations |->
                    IF c \in resolved THEN [conv[c] EXCEPT !.state = work[c].state] ELSE conv[c]]
      /\ reviews' = [c \in Conversations |-> IF c \in resolved THEN work[c].board ELSE reviews[c]]
      /\ threads' = ThreadsLeft(work)
      /\ actions' = [c \in Conversations |->
                       IF c \in Unknown THEN attempts[c].action ELSE actions[c]]
      /\ claims' = ClaimsAfter(attempts)
      /\ UNCHANGED <<tasks, outbox, decisions, helpSessions>>

Reconcile == \E replies \in [Unknown -> CoreReplies] : ReconcileWith(replies)

ReconcileCrash ==
  /\ Unknown # {}
  /\ \E replies \in [Unknown -> CoreReplies] :
       /\ claims' = ClaimsAfter(Attempts(replies))
       /\ \E lost \in SUBSET (threads \ ThreadsLeft(Settled(Attempts(replies)))) :
            threads' = threads \ lost
  /\ UNCHANGED <<conv, tasks, outbox, actions, reviews, decisions, helpSessions>>

-----------------------------------------------------------------------------
(* decide: an employee's decision on a review of the current version.  A    *)
(* repeated decision id returns its result, or a conflict.                  *)

\* Mutant: the urgency floor is not enforced.
AdmissibleAnyTeam(c, kind, decision, team) ==
  LET review == reviews[c][kind]
  IN  /\ ~Busy(c)
      /\ review.status = "pending"
      /\ review.version = conv[c].state.version
      /\ kind # "submission"
      /\ IF decision = "amend" THEN kind = "triage" /\ team \in Teams ELSE team = NoTeam

\* A decision names the version it is about, and the team it amends to.
Admissible(c, kind, decision, team) ==
  LET review == reviews[c][kind]
  IN  /\ ~Busy(c)
      /\ review.status = "pending"
      /\ review.version = conv[c].state.version
      /\ kind # "submission"
      /\ IF decision = "amend"
         THEN /\ kind = "triage"
              /\ team \in Teams
              /\ conv[c].state.priority = "urgent" => team = UrgentTeam
         ELSE team = NoTeam

VerdictOn(c, kind, id, decision, team) ==
  [conv |-> c, kind |-> kind, version |-> reviews[c][kind].version,
   id |-> id, decision |-> decision, team |-> team]

\* The reviewed recommendation, for a decision that has one.
Reviewed(c, decision, team) ==
  [decision |-> decision,
   team |-> CASE decision = "amend" -> team
              [] decision = "accept" -> reviews[c]["triage"].team
              [] OTHER -> NoTeam]

\* Mutant: only submissions are released.
ReleasedSubmission(c, kind, t) ==
  /\ t.conv = c
  /\ t.status = "awaiting_review"
  /\ kind = "triage" /\ t.kind = "confirmation"

\* What a decision releases: the help requests that wait for a service
\* review, the submission that waits for a triage review.
Released(c, kind, t) ==
  /\ t.conv = c
  /\ t.status = "awaiting_review"
  /\ \/ kind = "service" /\ t.awaits = "service"
     \/ kind = "triage" /\ t.kind = "confirmation"

Decide(c, kind, id, decision, team) ==
  LET verdict == VerdictOn(c, kind, id, decision, team)
      asks == decision = "request_information"
  IN  /\ \A v \in decisions : v.id # id
      /\ Admissible(c, kind, decision, team)
      /\ threads' = Resumed(threads, verdict)
      /\ reviews' = [reviews EXCEPT ![c][kind].status = decision]
      /\ decisions' = decisions \cup {verdict}
      /\ tasks' = {IF Released(c, kind, t)
                   THEN [t EXCEPT !.status = IF asks THEN "awaiting_customer" ELSE "completed"]
                   ELSE t : t \in tasks}
      /\ conv' = IF kind = "triage"
                 THEN [conv EXCEPT
                        ![c].state.outcome = Reviewed(c, decision, team),
                        ![c].state.stage = IF asks THEN "awaiting_customer" ELSE "review_completed"]
                 ELSE conv
      /\ UNCHANGED <<outbox, actions, helpSessions, claims>>

\* The process dies before its own commit: after the review graph restarted
\* the thread, or after it resumed it.
DecideCrash(c, kind, id, decision, team) ==
  /\ \A v \in decisions : v.id # id
  /\ Admissible(c, kind, decision, team)
  /\ threads' \in {Restarted(threads, c, kind, reviews[c][kind].version),
                   Resumed(threads, VerdictOn(c, kind, id, decision, team))}
  /\ UNCHANGED <<conv, tasks, outbox, actions, reviews, decisions, helpSessions, claims>>

-----------------------------------------------------------------------------
Init ==
  /\ conv = [c \in Conversations |->
              [owner |-> NoOwner, state |-> [InitialState(NoFacts) EXCEPT !.version = 0]]]
  /\ tasks = {}
  /\ outbox = <<>>
  /\ actions = [c \in Conversations |-> NoIntent(c)]
  /\ reviews = [c \in Conversations |-> EmptyBoard]
  /\ decisions = {}
  /\ helpSessions = {}
  /\ claims = [a \in ActionIds |-> NoClaim]
  /\ threads = {}

\* The API's requests.
CustomerNext ==
  \/ \E owner \in Customers : Create(owner)
  \/ \E owner \in Customers, session \in helpSessions : Attach(owner, session)
  \/ \E request \in RequestIds, injury, drivable \in ReportedStatus :
       Help(request, injury, drivable)
  \/ \E owner \in Customers, c \in Conversations, m \in MessageIds, input \in MessageInputs :
       EnqueueMessage(owner, c, m, input)
  \/ \E owner \in Customers, c \in Conversations : EnqueueConfirmation(owner, c)

EmployeeNext ==
  \E c \in Conversations, kind \in Kinds, id \in DecisionIds,
     decision \in Decisions, team \in TeamOrNone :
       \/ Decide(c, kind, id, decision, team)
       \/ DecideCrash(c, kind, id, decision, team)

\* The worker's entry point.
WorkerNext == WorkOnce \/ WorkCrash \/ Reconcile \/ ReconcileCrash

Next == CustomerNext \/ EmployeeNext \/ WorkerNext

Spec == Init /\ [][Next]_vars

\* The worker keeps being run, and a core that can be reached long enough
\* answers: nothing is assumed of customers and employees.  The two actions
\* name a committed work_once and a reconcile in which every attempt is
\* answered by what only these steps of Next do.
Delivered ==
  outbox # <<>> /\ outbox' = Tail(outbox)

Answered ==
  /\ Unknown # {}
  /\ actions' = [c \in Conversations |->
                   IF c \in Unknown
                   THEN [actions[c] EXCEPT !.status = "confirmed",
                                           !.receipt = actions[c].draft.version]
                   ELSE actions[c]]

FairSpec == Spec /\ WF_outbox(Delivered) /\ WF_actions(Answered)
=============================================================================
