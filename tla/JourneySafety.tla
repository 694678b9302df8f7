--------------------------- MODULE JourneySafety ---------------------------
(***************************************************************************)
(* What the core files and what the customer is shown, proved for any      *)
(* number of customers, conversations, messages and action ids.            *)
(*                                                                         *)
(* First the type invariant: what the operators of the intake, the reviews *)
(* and the worker return, then one step per action.                        *)
(*                                                                         *)
(* Then the submission.  Its inductive invariant SubmissionInv adds to the *)
(* checked invariants what they silently rely on: an action id names one   *)
(* conversation, an intent belongs to a customer and names a real version, *)
(* and a queued confirmation has its intent.  Its steps are of two kinds:  *)
(* requests, which touch neither claims nor receipts, and "progress",      *)
(* which may file the claim of an intent and show the receipt of a filed   *)
(* claim.                                                                  *)
(*                                                                         *)
(* Last, that the journey implements Submission.  Under the invariant a    *)
(* conversation's submission is determined by three flags of its intent:   *)
(* recorded, filed, confirmed (Shape).  Every step only raises them        *)
(* (Advance), and raising them is a step of Submission.                    *)
(***************************************************************************)
EXTENDS JourneyProperties, TLAPS

-----------------------------------------------------------------------------
(* Types. *)

WorkSet == [state: State, board: Board, threads: SUBSET Verdict]

\* What a step of the worker may not do to a conversation's state: it keeps
\* the receipt, and never lowers the version.
Keeps(work, next) ==
  /\ next \in WorkSet
  /\ next.state.receipt = work.state.receipt
  /\ next.state.version >= work.state.version

-----------------------------------------------------------------------------
(* The intake. *)

\* The values without content are of their types.
LEMMA NullTypes ==
  /\ NoFact \in Fact
  /\ NoFacts \in FactMap
  /\ NoReports \in ReportMap
  /\ NoInput \in Input
  /\ HelpInput \in Input
  /\ NoReview \in Review
  /\ NoOutcome \in Outcome
<1>1. NoFact \in Fact
  BY DEF NoFact, Fact, Values, Sources
<1>2. NoFacts \in FactMap
  BY <1>1 DEF NoFacts, FactMap
<1>3. NoReports \in ReportMap
  BY DEF NoReports, ReportMap, Silent, Report, Values
<1>4. NoInput \in Input /\ HelpInput \in Input
  BY <1>3 DEF NoInput, HelpInput, Input, Intents
<1>5. NoReview \in Review /\ NoOutcome \in Outcome
  BY DEF NoReview, Review, ReviewStatuses, TeamOrNone, NoOutcome, Outcome
<1> QED
  BY <1>1, <1>2, <1>3, <1>4, <1>5

\* Updating a draft's facts gives facts of a draft.
LEMMA UpdateFactsType ==
  ASSUME NEW facts \in FactMap, NEW reports \in ReportMap, NEW source \in Sources
  PROVE  UpdateFacts(facts, reports, source) \in FactMap
<1>1. ASSUME NEW f \in Fields
      PROVE  [value |-> reports[f].value, source |-> source,
              confirmed |-> reports[f].confirmed, conflicting |-> reports[f].conflicting] \in Fact
  BY DEF ReportMap, Report, Fact
<1> QED
  BY <1>1 DEF UpdateFacts, FactMap

\* A priority always comes out of the screen, and has a team.
LEMMA ScreenType ==
  /\ \A facts : Screen(facts) \in Priorities
  /\ \A priority : Team(priority) \in Teams
BY CatalogAssumption DEF Screen, Priorities, Team

\* Planning changes the priority, the stage and the team only.
LEMMA PlanType ==
  ASSUME NEW state \in State
  PROVE  /\ Plan(state) \in State
         /\ Plan(state).receipt = state.receipt
         /\ Plan(state).version = state.version
<1> DEFINE priority == IF state.priority = "urgent" THEN "urgent" ELSE Screen(state.facts)
<1>1. priority \in Priorities
  BY ScreenType DEF Priorities
<1>2. Team(priority) \in TeamOrNone
  BY ScreenType DEF TeamOrNone
<1> HIDE DEF priority
<1>3. CASE state.receipt # 0
  <2>1. Plan(state) = [state EXCEPT !.priority = priority, !.stage = "awaiting_review",
                                    !.team = Team(priority)]
    BY <1>3 DEF Plan, priority
  <2> QED
    BY <2>1, <1>1, <1>2 DEF State, Stages
<1>4. CASE state.receipt = 0
  <2> DEFINE stage == IF Missing(state.facts) = {} THEN "awaiting_confirmation"
                                                   ELSE "awaiting_customer"
  <2>1. Plan(state) = [state EXCEPT !.priority = priority, !.stage = stage]
    BY <1>4 DEF Plan, priority
  <2>2. stage \in Stages
    BY DEF Stages
  <2> HIDE DEF stage
  <2> QED
    BY <2>1, <2>2, <1>1 DEF State
<1> QED
  BY <1>3, <1>4

-----------------------------------------------------------------------------
(* The reviews. *)

\* Threads are only forgotten by a restart.
LEMMA RestartedSubset ==
  \A held, c, kind, version : Restarted(held, c, kind, version) \subseteq held
BY DEF Restarted

\* A proposed row is a row.
LEMMA ProposedType ==
  ASSUME NEW row \in Review, NEW kind \in Kinds, NEW state \in State
  PROVE  Proposed(row, kind, state) \in Review
<1> DEFINE team == IF kind = "triage" THEN state.team ELSE NoTeam
<1>1. team \in TeamOrNone
  BY DEF State, TeamOrNone
<1> HIDE DEF team
<1>2. [status |-> "pending", version |-> state.version, team |-> team] \in Review
  BY <1>1 DEF Review, ReviewStatuses, State
<1> QED
  BY <1>2 DEF Proposed, team

\* An upsert leaves the state alone, and the rows of the other kinds.
LEMMA UpsertType ==
  ASSUME NEW c \in Conversations, NEW work \in WorkSet, NEW kind \in Kinds
  PROVE  /\ UpsertReview(c, work, kind) \in WorkSet
         /\ UpsertReview(c, work, kind).state = work.state
<1> DEFINE row == Proposed(work.board[kind], kind, work.state)
           board == [work.board EXCEPT ![kind] = row]
           threads1 == IF row.status = "pending" /\ kind # "submission"
                       THEN Restarted(work.threads, c, kind, row.version)
                       ELSE work.threads
<1>1. row \in Review
  BY ProposedType DEF WorkSet, Board
<1>2. board \in Board
  BY <1>1 DEF Board, WorkSet
<1>3. threads1 \subseteq Verdict
  BY RestartedSubset DEF WorkSet
<1>4. UpsertReview(c, work, kind) = [work EXCEPT !.board = board, !.threads = threads1]
  BY DEF UpsertReview
<1> HIDE DEF board, threads1
<1> QED
  BY <1>2, <1>3, <1>4 DEF WorkSet

\* An invalidated board is a board.
LEMMA InvalidatedType ==
  ASSUME NEW board \in Board, NEW version \in Nat
  PROVE  Invalidated(board, version) \in Board
<1>1. ASSUME NEW k \in Kinds
      PROVE  /\ board[k] \in Review
             /\ [board[k] EXCEPT !.version = version] \in Review
             /\ [board[k] EXCEPT !.status = "stale"] \in Review
  BY DEF Board, Review, ReviewStatuses
<1> QED
  BY <1>1 DEF Invalidated, Board

-----------------------------------------------------------------------------
(* The worker's steps. *)

\* Raising an alert.
LEMMA EscalateType ==
  ASSUME NEW c \in Conversations, NEW work \in WorkSet
  PROVE  Keeps(work, Escalate(c, work))
<1> DEFINE version == work.state.version + 1
           state == [work.state EXCEPT !.version = version, !.outcome = NoOutcome,
                                       !.priority = "urgent"]
           board == Invalidated(work.board, version)
           next == [work EXCEPT !.state = state, !.board = board]
<1>1. version \in Nat /\ version >= work.state.version
  BY DEF WorkSet, State
<1>2. /\ state \in State
      /\ state.receipt = work.state.receipt
      /\ state.version = version
  BY <1>1, NullTypes DEF WorkSet, State, Priorities
<1>3. board \in Board
  BY <1>1, InvalidatedType DEF WorkSet
<1>4. Escalate(c, work) = UpsertReview(c, next, "urgency")
  BY DEF Escalate
<1> HIDE DEF state, board, version
<1>5. next \in WorkSet /\ next.state = state
  BY <1>2, <1>3 DEF WorkSet
<1> HIDE DEF next
<1>6. /\ UpsertReview(c, next, "urgency") \in WorkSet
      /\ UpsertReview(c, next, "urgency").state = state
  BY <1>5, UpsertType DEF Kinds
<1> QED
  BY <1>1, <1>2, <1>4, <1>6 DEF Keeps

\* Recording facts.
LEMMA RecordFactsType ==
  ASSUME NEW work \in WorkSet, NEW facts \in FactMap, NEW changed \in BOOLEAN
  PROVE  Keeps(work, RecordFacts(work, facts, changed))
<1> DEFINE version == work.state.version + 1
           state == [work.state EXCEPT !.facts = facts, !.version = version,
                                       !.outcome = NoOutcome]
           board == Invalidated(work.board, version)
           next == [work EXCEPT !.state = state, !.board = board]
<1>1. version \in Nat /\ version >= work.state.version
  BY DEF WorkSet, State
<1>2. /\ state \in State
      /\ state.receipt = work.state.receipt
      /\ state.version = version
  BY <1>1, NullTypes DEF WorkSet, State
<1>3. board \in Board
  BY <1>1, InvalidatedType DEF WorkSet
<1>4. CASE changed
  <2>1. RecordFacts(work, facts, changed) = next
    BY <1>4 DEF RecordFacts
  <2> HIDE DEF state, board, version
  <2>2. next \in WorkSet /\ next.state = state
    BY <1>2, <1>3 DEF WorkSet
  <2> QED
    BY <1>1, <1>2, <2>1, <2>2 DEF Keeps
<1>5. CASE ~changed
  <2>1. RecordFacts(work, facts, changed) = work
    BY <1>5 DEF RecordFacts
  <2> QED
    BY <2>1 DEF Keeps, WorkSet, State
<1> QED
  BY <1>4, <1>5

\* The steps compose.
LEMMA KeepsTransitive ==
  ASSUME NEW a \in WorkSet, NEW b, NEW c, Keeps(a, b), Keeps(b, c)
  PROVE  Keeps(a, c)
BY DEF Keeps, WorkSet, State

\* An upsert keeps what a step must keep.
LEMMA UpsertKeeps ==
  ASSUME NEW c \in Conversations, NEW work \in WorkSet, NEW kind \in Kinds
  PROVE  Keeps(work, UpsertReview(c, work, kind))
<1>1. work.state.version \in Nat
  BY DEF WorkSet, State
<1> QED
  BY <1>1, UpsertType DEF Keeps

\* Asking for an employee.
LEMMA AskEmployeeType ==
  ASSUME NEW c \in Conversations, NEW work \in WorkSet
  PROVE  Keeps(work, AskEmployee(c, work))
<1> DEFINE open == work.board["service"].status \in {"absent", "pending"}
           version == work.state.version + (IF open THEN 0 ELSE 1)
           state == [work.state EXCEPT !.version = version]
           next == [work EXCEPT !.state = state]
<1>1. version \in Nat /\ version >= work.state.version
  BY DEF WorkSet, State
<1>2. AskEmployee(c, work) = UpsertReview(c, next, "service")
  BY DEF AskEmployee
<1> HIDE DEF version
<1>3. /\ state \in State
      /\ state.receipt = work.state.receipt
      /\ state.version = version
  BY <1>1 DEF WorkSet, State
<1> HIDE DEF state
<1>4. next \in WorkSet /\ next.state = state
  BY <1>3 DEF WorkSet
<1>5. Keeps(work, next)
  BY <1>1, <1>3, <1>4 DEF Keeps
<1> HIDE DEF next
<1>6. Keeps(next, UpsertReview(c, next, "service"))
  BY <1>4, UpsertKeeps DEF Kinds
<1> QED
  BY <1>2, <1>5, <1>6, KeepsTransitive

\* A stage replaced in a step's work.
LEMMA StageType ==
  ASSUME NEW work \in WorkSet, NEW stage \in Stages
  PROVE  Keeps(work, [work EXCEPT !.state = [@ EXCEPT !.stage = stage]])
<1> DEFINE state == [work.state EXCEPT !.stage = stage]
           next == [work EXCEPT !.state = state]
<1>1. /\ state \in State
      /\ state.receipt = work.state.receipt
      /\ state.version >= work.state.version
  BY DEF WorkSet, State
<1> HIDE DEF state
<1>2. next \in WorkSet /\ next.state = state
  BY <1>1 DEF WorkSet
<1>3. Keeps(work, next)
  BY <1>1, <1>2 DEF Keeps
<1> QED
  BY <1>3 DEF state

\* The follow-up proposals.
LEMMA FollowUpType ==
  ASSUME NEW c \in Conversations, NEW work \in WorkSet, NEW status
  PROVE  Keeps(work, FollowUp(c, work, status))
<1> DEFINE alerted == IF work.state.priority = "urgent"
                      THEN UpsertReview(c, work, "urgency") ELSE work
           routed == IF work.state.receipt # 0
                     THEN UpsertReview(c, alerted, "triage") ELSE alerted
           staged == [routed EXCEPT !.state = [@ EXCEPT !.stage = "pending_submission"]]
<1>0. Keeps(work, work)
  BY DEF Keeps, WorkSet, State
<1>1. Keeps(work, alerted) /\ alerted \in WorkSet
  BY <1>0, UpsertKeeps DEF Kinds, Keeps
<1> HIDE DEF alerted
<1>2. Keeps(work, routed) /\ routed \in WorkSet
  <2>1. Keeps(work, UpsertReview(c, alerted, "triage"))
    BY <1>1, UpsertKeeps, KeepsTransitive DEF Kinds
  <2> QED
    BY <1>1, <2>1 DEF Keeps
<1> HIDE DEF routed
<1>3. Keeps(work, staged) /\ staged \in WorkSet
  <2>1. Keeps(routed, staged)
    BY <1>2, StageType DEF Stages
  <2> QED
    BY <1>2, <2>1, KeepsTransitive DEF Keeps
<1> HIDE DEF staged
<1>4. Keeps(work, UpsertReview(c, staged, "submission"))
  BY <1>3, UpsertKeeps, KeepsTransitive DEF Kinds
<1>5. FollowUp(c, work, status) =
        IF status = "unknown" THEN UpsertReview(c, staged, "submission") ELSE routed
  BY DEF FollowUp, staged, routed, alerted
<1> QED
  BY <1>2, <1>4, <1>5

\* Replanning a step's work.
LEMMA PlannedType ==
  ASSUME NEW work \in WorkSet
  PROVE  Keeps(work, [work EXCEPT !.state = Plan(@)])
<1>1. /\ Plan(work.state) \in State
      /\ Plan(work.state).receipt = work.state.receipt
      /\ Plan(work.state).version >= work.state.version
  BY PlanType DEF WorkSet, State
<1> DEFINE state == Plan(work.state)
<1> HIDE DEF state
<1>2. [work EXCEPT !.state = state] \in WorkSet /\ [work EXCEPT !.state = state].state = state
  BY <1>1 DEF WorkSet, state
<1> QED
  BY <1>1, <1>2 DEF Keeps, state

\* An interpretation is understood as a message.
LEMMA UnderstoodType ==
  ASSUME NEW owner, NEW facts \in FactMap, NEW message, NEW reading \in Input
  PROVE  Understood(owner, facts, message, reading) \in Input
<1> DEFINE reports == [f \in Fields |->
             IF reading.reports[f].value = Absent THEN Silent
             ELSE [value |-> reading.reports[f].value, confirmed |-> FALSE,
                   conflicting |-> facts[f].value \notin {Absent, reading.reports[f].value}]]
<1>1. ASSUME NEW f \in Fields
      PROVE  [value |-> reading.reports[f].value, confirmed |-> FALSE,
              conflicting |-> facts[f].value \notin {Absent, reading.reports[f].value}] \in Report
  BY DEF Input, ReportMap, Report
<1>2. Silent \in Report
  BY DEF Silent, Report, Values
<1>3. reports \in ReportMap
  BY <1>1, <1>2 DEF ReportMap
<1> HIDE DEF reports
<1>4. [reading EXCEPT !.reports = reports] \in Input
  BY <1>3 DEF Input
<1>5. \/ Understood(owner, facts, message, reading) = [reading EXCEPT !.reports = reports]
      \/ Understood(owner, facts, message, reading) = HelpInput
  BY DEF Understood, reports
<1> QED
  BY <1>4, <1>5, NullTypes

\* The work a transaction starts from.
LEMMA WorkType ==
  ASSUME TypeOK, NEW c \in Conversations
  PROVE  Work(c) \in WorkSet /\ Work(c).state = conv[c].state /\ Keeps(Work(c), Work(c))
<1>1. conv[c].state \in State /\ reviews[c] \in Board /\ threads \subseteq Verdict
  BY DEF TypeOK, Conversation
<1>2. conv[c].state.version \in Nat
  BY <1>1 DEF State
<1> QED
  BY <1>1, <1>2 DEF Work, WorkSet, Keeps

\* A task's status follows the stage.
LEMMA StageStatusType ==
  \A stage : StageStatus(stage) \in TaskStatuses
BY DEF StageStatus, TaskStatuses

\* Every input a delivery may be read as is a message's content.
LEMMA ReadingsType ==
  ASSUME NEW d \in Delivery
  PROVE  Readings(d) \subseteq Input
<1>1. Interpretations \subseteq Input
  BY InputAssumption DEF Input
<1> QED
  BY <1>1, NullTypes DEF Readings, Delivery

\* What processing a message may do.
LEMMA ProcessMessageType ==
  ASSUME TypeOK, NEW d \in Delivery, NEW reading \in Input
  PROVE  LET r == ProcessMessage(d, reading)
         IN  /\ Keeps(Work(d.conv), r.work)
             /\ r.action = actions[d.conv]
             /\ r.claim = ClaimOf(actions[d.conv])
             /\ r.status \in TaskStatuses
             /\ r.awaits \in {"service", "none"}
<1> DEFINE c == d.conv
           escalated == IF d.input.trigger THEN Escalate(c, Work(c)) ELSE Work(c)
           old == escalated.state.facts
           input == IF d.input.intent = "auto"
                    THEN Understood(conv[c].owner, old, d.message, reading) ELSE d.input
           facts == UpdateFacts(old, input.reports, d.message)
           changed == d.input.trigger \/ facts # old
           recorded == IF input.intent = "intake" \/ Reported(input.reports) # {}
                       THEN RecordFacts(escalated, facts, changed) ELSE escalated
           help == input.intent = "employee_help" \/ (input.intent = "service" /\ ~input.known)
           asked == IF help THEN AskEmployee(c, recorded) ELSE recorded
           answered == input.intent # "intake"
           planned == IF changed \/ (~answered /\ asked.state.receipt = 0)
                      THEN [asked EXCEPT !.state = Plan(@)] ELSE asked
           done == FollowUp(c, planned, actions[c].status)
           status == IF help THEN "awaiting_review"
                     ELSE IF answered THEN "completed" ELSE StageStatus(done.state.stage)
           awaits == IF help THEN "service" ELSE "none"
<1>0. c \in Conversations /\ d.input \in Input /\ d.message \in Sources
  BY DEF Delivery, Sources
<1>1. Work(c) \in WorkSet /\ Keeps(Work(c), Work(c))
  BY <1>0, WorkType
<1>2. Keeps(Work(c), escalated) /\ escalated \in WorkSet
  BY <1>0, <1>1, EscalateType DEF Keeps
<1>3. old \in FactMap
  BY <1>2 DEF WorkSet, State
<1> HIDE DEF escalated
<1>4. input \in Input
  BY <1>0, <1>3, UnderstoodType
<1>5. facts \in FactMap
  <2> HIDE DEF input, old
  <2> QED
    BY <1>0, <1>3, <1>4, UpdateFactsType DEF Input
<1>6. changed \in BOOLEAN
  BY <1>0 DEF Input
<1> HIDE DEF input, old, facts, changed
<1>7. Keeps(Work(c), recorded) /\ recorded \in WorkSet
  <2>1. Keeps(Work(c), RecordFacts(escalated, facts, changed))
    BY <1>1, <1>2, <1>5, <1>6, RecordFactsType, KeepsTransitive
  <2> QED
    BY <1>2, <2>1 DEF Keeps
<1> HIDE DEF recorded
<1>8. Keeps(Work(c), asked) /\ asked \in WorkSet
  <2>1. Keeps(Work(c), AskEmployee(c, recorded))
    BY <1>0, <1>1, <1>7, AskEmployeeType, KeepsTransitive
  <2> QED
    BY <1>7, <2>1 DEF Keeps
<1> HIDE DEF asked
<1>9. Keeps(Work(c), planned) /\ planned \in WorkSet
  <2>1. Keeps(Work(c), [asked EXCEPT !.state = Plan(@)])
    BY <1>1, <1>8, PlannedType, KeepsTransitive
  <2> QED
    BY <1>8, <2>1 DEF Keeps
<1> HIDE DEF planned
<1>10. Keeps(Work(c), done)
  BY <1>0, <1>1, <1>9, FollowUpType, KeepsTransitive
<1>11. status \in TaskStatuses /\ awaits \in {"service", "none"}
  BY StageStatusType DEF TaskStatuses
<1>12. \/ ProcessMessage(d, reading) =
            Result(Work(c), actions[c], ClaimOf(actions[c]), "failed", "none")
       \/ ProcessMessage(d, reading) =
            Result(done, actions[c], ClaimOf(actions[c]), status, awaits)
  BY DEF ProcessMessage, planned, asked, recorded, changed, facts, input, old, escalated
<1> HIDE DEF done, status, awaits
<1> QED
  BY <1>1, <1>10, <1>11, <1>12 DEF Result, TaskStatuses

-----------------------------------------------------------------------------
(* The submission. *)

\* Intents, drafts and claims are of their types.
LEMMA SubmissionNullTypes ==
  /\ NoClaim \in Claim
  /\ \A c \in Conversations : NoIntent(c) \in Action
  /\ \A c \in Conversations, state \in State : Draft(c, state) \in DraftSet
<1>1. NoClaim \in Claim
  BY NullTypes DEF NoClaim, Claim, Owners
<1>2. ASSUME NEW c \in Conversations
      PROVE  NoIntent(c) \in Action
  <2>1. NoDraft(c) \in DraftSet
    BY NullTypes DEF NoDraft, DraftSet
  <2> QED
    BY <2>1 DEF NoIntent, Action, ActionStatuses
<1>3. ASSUME NEW c \in Conversations, NEW state \in State
      PROVE  Draft(c, state) \in DraftSet
  BY DEF Draft, DraftSet, State
<1> QED
  BY <1>1, <1>2, <1>3

\* A prepared row is an action row for the draft.
LEMMA PreparedType ==
  ASSUME NEW c \in Conversations, NEW draft \in DraftSet, actions \in [Conversations -> Action]
  PROVE  Prepared(actions, claims, c, draft) \subseteq Action
<1> DEFINE fresh == {a \in ActionIds : ~Filed(claims, a) /\ \A d \in Conversations : actions[d].id # a}
<1>1. [id: fresh, status: {"pending"}, draft: {draft}, receipt: {0}] \subseteq Action
  BY DEF Action, ActionStatuses
<1>2. {row \in {actions[c]} : row.draft = draft} \subseteq Action
  OBVIOUS
<1> QED
  BY <1>1, <1>2 DEF Prepared

\* An attempt returns an action row with the same id and draft, and a claim.
LEMMA ExecuteType ==
  ASSUME NEW action \in Action, NEW claim \in Claim, NEW owner \in Owners, NEW reply
  PROVE  LET attempt == Execute(action, claim, owner, reply)
         IN  /\ attempt.action \in Action
             /\ attempt.action.id = action.id
             /\ attempt.action.draft = action.draft
             /\ attempt.claim \in Claim
<1> DEFINE asks == claim = NoClaim /\ reply # "lookup_lost"
           files == asks /\ reply # "submit_lost"
           answered == IF files THEN CoreSubmit(claim, owner, action.draft) ELSE claim
           unknown == [action EXCEPT !.status = "unknown"]
           confirmed == [action EXCEPT !.status = "confirmed", !.receipt = answered.version]
           attempt == Execute(action, claim, owner, reply)
<1>1. ClaimFor(owner, action.draft) \in Claim
  BY DEF ClaimFor, Claim, Action, DraftSet
<1>2. answered \in Claim
  BY <1>1 DEF CoreSubmit
<1>3. answered.version \in Nat
  BY <1>2 DEF Claim
<1>4. /\ attempt.claim \in {claim, answered}
      /\ attempt.action \in {action, unknown, confirmed}
  BY DEF Execute
<1> HIDE DEF answered, attempt
<1>5. /\ unknown \in Action
      /\ unknown.id = action.id /\ unknown.draft = action.draft
      /\ confirmed \in Action
      /\ confirmed.id = action.id /\ confirmed.draft = action.draft
  BY <1>3 DEF Action, ActionStatuses
<1> HIDE DEF unknown, confirmed
<1> QED
  BY <1>2, <1>4, <1>5 DEF attempt

\* The claim an action stands for.
LEMMA ClaimOfType ==
  ASSUME TypeOK, NEW action \in Action
  PROVE  ClaimOf(action) \in Claim
BY SubmissionNullTypes DEF ClaimOf, TypeOK, Action

\* What processing a confirmation may do.
LEMMA ProcessConfirmationType ==
  ASSUME TypeOK, NEW d \in Delivery, NEW reply
  PROVE  LET c == d.conv
             attempt == Execute(actions[c], ClaimOf(actions[c]), conv[c].owner, reply)
             r == ProcessConfirmation(d, reply)
         IN  /\ r.work \in WorkSet
             /\ r.action \in Action
             /\ r.claim \in Claim
             /\ r.status \in TaskStatuses
             /\ r.awaits \in {"service", "none"}
             /\ r.claim = attempt.claim
             /\ r.work.state.version >= conv[c].state.version
             /\ r.action = IF attempt.refused THEN actions[c] ELSE attempt.action
             /\ r.work.state.receipt = IF attempt.refused \/ attempt.action.status = "unknown"
                                       THEN conv[c].state.receipt
                                       ELSE attempt.action.receipt
<1> DEFINE c == d.conv
           attempt == Execute(actions[c], ClaimOf(actions[c]), conv[c].owner, reply)
           staged == [Work(c) EXCEPT !.state = [@ EXCEPT !.stage = "pending_submission"]]
           waiting == UpsertReview(c, staged, "submission")
           state == [Work(c).state EXCEPT !.receipt = attempt.action.receipt]
           filed == [Work(c) EXCEPT !.state = Plan(state)]
           done == FollowUp(c, filed, attempt.action.status)
           r == ProcessConfirmation(d, reply)
<1>0. c \in Conversations /\ Work(c) \in WorkSet /\ Keeps(Work(c), Work(c))
  BY WorkType DEF Delivery
<1>1. actions[c] \in Action /\ ClaimOf(actions[c]) \in Claim /\ conv[c].owner \in Owners
  BY <1>0, ClaimOfType DEF TypeOK, Conversation
<1>2. attempt.action \in Action /\ attempt.claim \in Claim
  BY <1>1, ExecuteType
<1>3. Work(c).state = conv[c].state /\ conv[c].state.version \in Nat
  BY <1>0, WorkType DEF TypeOK, Conversation, State
<1> HIDE DEF attempt
<1>4. Keeps(Work(c), staged)
  BY <1>0, StageType DEF Stages
<1> HIDE DEF staged
<1>5. Keeps(Work(c), waiting)
  BY <1>0, <1>4, UpsertKeeps, KeepsTransitive DEF Kinds, Keeps
<1> HIDE DEF waiting
<1>6. /\ state \in State
      /\ state.receipt = attempt.action.receipt
      /\ state.version = conv[c].state.version
  BY <1>0, <1>2, <1>3 DEF WorkSet, State, Action
<1> HIDE DEF state
<1>7. /\ filed \in WorkSet
      /\ filed.state.receipt = attempt.action.receipt
      /\ filed.state.version = conv[c].state.version
  BY <1>0, <1>6, PlanType DEF WorkSet
<1> HIDE DEF filed
<1>8. Keeps(filed, done)
  BY <1>0, <1>7, FollowUpType
<1> HIDE DEF done
<1>9. CASE attempt.refused
  <2>1. r = Result(Work(c), actions[c], attempt.claim, "failed", "none")
    BY <1>9 DEF ProcessConfirmation, attempt
  <2> QED
    BY <1>0, <1>1, <1>2, <1>3, <1>9, <2>1 DEF Result, TaskStatuses, attempt
<1>10. CASE ~attempt.refused /\ attempt.action.status = "unknown"
  <2>1. r = Result(waiting, attempt.action, attempt.claim, "awaiting_review", "none")
    BY <1>10 DEF ProcessConfirmation, attempt, waiting, staged
  <2> QED
    BY <1>2, <1>3, <1>5, <1>10, <2>1 DEF Result, TaskStatuses, Keeps, attempt
<1>11. CASE ~attempt.refused /\ attempt.action.status # "unknown"
  <2>1. r = Result(done, attempt.action, attempt.claim, StageStatus(done.state.stage), "none")
    BY <1>11 DEF ProcessConfirmation, attempt, done, filed, state
  <2> QED
    BY <1>2, <1>7, <1>8, <1>11, <2>1, StageStatusType DEF Result, TaskStatuses, Keeps, attempt
<1> QED
  BY <1>9, <1>10, <1>11

-----------------------------------------------------------------------------
(* The actions. *)

ResultType(r) ==
  /\ r.work \in WorkSet
  /\ r.action \in Action
  /\ r.claim \in Claim
  /\ r.status \in TaskStatuses
  /\ r.awaits \in {"service", "none"}

\* Every result of a delivery is well typed.
LEMMA ResultsType ==
  ASSUME TypeOK, NEW d \in Delivery, NEW r \in Results(d)
  PROVE  ResultType(r)
<1>0. d.conv \in Conversations
  BY DEF Delivery
<1>1. CASE d.kind = "message"
  <2>1. PICK reading \in Readings(d) : r = ProcessMessage(d, reading)
    BY <1>1 DEF Results
  <2>2. reading \in Input
    BY ReadingsType
  <2>3. actions[d.conv] \in Action /\ ClaimOf(actions[d.conv]) \in Claim
    BY <1>0, ClaimOfType DEF TypeOK
  <2> QED
    BY <2>1, <2>2, <2>3, ProcessMessageType DEF Keeps, ResultType
<1>2. CASE d.kind # "message"
  <2>1. PICK reply \in CoreReplies : r = ProcessConfirmation(d, reply)
    BY <1>2 DEF Results
  <2> QED
    BY <2>1, ProcessConfirmationType DEF ResultType
<1> QED
  BY <1>1, <1>2

\* Setting an action's claim.
LEMMA SetClaimType ==
  ASSUME TypeOK, NEW action \in Action, NEW claim \in Claim
  PROVE  SetClaim(action, claim) \in [ActionIds -> Claim]
BY DEF SetClaim, TypeOK, Action

\* The state a new conversation starts with.
LEMMA InitialStateType ==
  ASSUME NEW facts \in FactMap
  PROVE  /\ InitialState(facts) \in State
         /\ InitialState(facts).version = 1
         /\ InitialState(facts).receipt = 0
BY NullTypes DEF InitialState, State, Priorities, Stages, TeamOrNone

\* The first state is well typed.
LEMMA InitType == Init => TypeOK
<1> SUFFICES ASSUME Init PROVE TypeOK
  OBVIOUS
<1>1. [InitialState(NoFacts) EXCEPT !.version = 0] \in State
  <2>1. InitialState(NoFacts) \in State
    BY NullTypes, InitialStateType
  <2> QED
    BY <2>1 DEF State
<1>2. conv \in [Conversations -> Conversation]
  BY <1>1 DEF Init, Conversation, Owners
<1>3. actions \in [Conversations -> Action] /\ claims \in [ActionIds -> Claim]
  BY SubmissionNullTypes DEF Init
<1>4. reviews \in [Conversations -> Board]
  BY NullTypes DEF Init, EmptyBoard, Board
<1> QED
  BY <1>2, <1>3, <1>4 DEF Init, TypeOK

\* Opening a conversation.
LEMMA CreateType ==
  ASSUME TypeOK, NEW owner \in Customers, Create(owner)
  PROVE  TypeOK'
<1>1. Plan(InitialState(NoFacts)) \in State
  BY NullTypes, InitialStateType, PlanType
<1>2. [owner |-> owner, state |-> Plan(InitialState(NoFacts))] \in Conversation
  BY <1>1 DEF Conversation, Owners
<1> QED
  BY <1>2 DEF Create, TypeOK

\* Attaching a conversation changes its owner only.
LEMMA AttachType ==
  ASSUME TypeOK, NEW owner \in Customers, NEW session \in helpSessions, Attach(owner, session)
  PROVE  TypeOK'
<1>1. session.conv \in Conversations
  BY DEF TypeOK
<1>2. [conv[session.conv] EXCEPT !.owner = owner] \in Conversation
  BY <1>1 DEF TypeOK, Conversation, Owners
<1>3. conv' \in [Conversations -> Conversation]
  BY <1>1, <1>2 DEF Attach, TypeOK
<1> QED
  BY <1>3 DEF Attach, TypeOK

\* The facts of a help request are facts of a draft.
LEMMA PreauthFactsType ==
  ASSUME NEW injury \in ReportedStatus, NEW drivable \in ReportedStatus
  PROVE  PreauthFacts(injury, drivable) \in FactMap
<1>1. ASSUME NEW v \in ReportedStatus
      PROVE  [NoFact EXCEPT !.value = v, !.source = "preauth_status"] \in Fact
  BY <1>1, NullTypes DEF Fact, Values, Sources
<1>2. /\ [NoFact EXCEPT !.value = injury, !.source = "preauth_status"] \in Fact
      /\ [NoFact EXCEPT !.value = drivable, !.source = "preauth_status"] \in Fact
  BY <1>1
<1> QED
  BY <1>2, NullTypes DEF PreauthFacts, FactMap

\* Help before login opens a conversation with one review.
LEMMA HelpType ==
  ASSUME TypeOK, NEW request \in RequestIds,
         NEW injury \in ReportedStatus, NEW drivable \in ReportedStatus,
         Help(request, injury, drivable)
  PROVE  TypeOK'
<1> DEFINE state == Plan(InitialState(PreauthFacts(injury, drivable)))
           start(c) == [state |-> state, board |-> reviews[c], threads |-> threads]
           kind == IF state.priority = "urgent" THEN "urgency" ELSE "service"
           work(c) == UpsertReview(c, start(c), kind)
<1>1. state \in State
  BY PreauthFactsType, InitialStateType, PlanType
<1>2. kind \in Kinds
  BY DEF Kinds
<1>3. PICK c \in Conversations :
        /\ conv' = [conv EXCEPT ![c] = [owner |-> "preauth", state |-> state]]
        /\ reviews' = [reviews EXCEPT ![c] = work(c).board]
        /\ threads' = work(c).threads
        /\ helpSessions' = helpSessions \cup {[request |-> request, conv |-> c]}
        /\ UNCHANGED <<tasks, outbox, actions, decisions, claims>>
  BY DEF Help
<1> HIDE DEF state, kind
<1>4. start(c) \in WorkSet
  BY <1>1 DEF WorkSet, TypeOK
<1>5. work(c) \in WorkSet
  BY <1>2, <1>4, UpsertType
<1>6. [owner |-> "preauth", state |-> state] \in Conversation
  BY <1>1 DEF Conversation, Owners
<1> HIDE DEF work
<1> QED
  BY <1>3, <1>5, <1>6 DEF TypeOK, WorkSet

\* Accepting a task: its row and its delivery.
LEMMA AcceptType ==
  ASSUME TypeOK, NEW c \in Conversations, NEW kind \in {"message", "confirmation"},
         NEW message \in MessageIds \cup {NoMessage}, NEW input \in Input,
         Accept(c, kind, message, input)
  PROVE  tasks' \subseteq Task /\ outbox' \in Seq(Delivery)
<1> DEFINE version == conv[c].state.version
           task == [conv |-> c, kind |-> kind, message |-> message, version |-> version,
                    status |-> "queued", awaits |-> "none"]
           delivery == [conv |-> c, kind |-> kind, message |-> message, version |-> version,
                        input |-> input]
<1>1. version \in Nat
  BY DEF TypeOK, Conversation, State
<1> HIDE DEF version
<1>2. task \in Task
  BY <1>1 DEF Task, TaskStatuses
<1>3. delivery \in Delivery
  BY <1>1 DEF Delivery
<1>4. tasks' = tasks \cup {task} /\ outbox' = Append(outbox, delivery)
  BY DEF Accept, version
<1> QED
  BY <1>2, <1>3, <1>4 DEF TypeOK

\* Accepting a message.
LEMMA EnqueueMessageType ==
  ASSUME TypeOK, NEW owner \in Customers, NEW c \in Conversations, NEW m \in MessageIds,
         NEW input \in MessageInputs, EnqueueMessage(owner, c, m, input)
  PROVE  TypeOK'
<1>1. tasks' \subseteq Task /\ outbox' \in Seq(Delivery)
  BY AcceptType, InputAssumption DEF EnqueueMessage
<1> QED
  BY <1>1 DEF EnqueueMessage, TypeOK

\* Accepting a confirmation, with its intent.
LEMMA EnqueueConfirmationType ==
  ASSUME TypeOK, NEW owner \in Customers, NEW c \in Conversations,
         EnqueueConfirmation(owner, c)
  PROVE  TypeOK'
<1>1. tasks' \subseteq Task /\ outbox' \in Seq(Delivery)
  BY AcceptType, NullTypes DEF EnqueueConfirmation
<1>2. Draft(c, conv[c].state) \in DraftSet
  BY SubmissionNullTypes DEF TypeOK, Conversation
<1>3. PICK row \in Prepared(actions, claims, c, Draft(c, conv[c].state)) :
        actions' = [actions EXCEPT ![c] = row]
  BY DEF EnqueueConfirmation
<1>4. row \in Action
  BY <1>2, PreparedType DEF TypeOK
<1>5. actions' \in [Conversations -> Action]
  BY <1>3, <1>4 DEF TypeOK
<1> QED
  BY <1>1, <1>5 DEF EnqueueConfirmation, TypeOK

\* Committing the work on a delivery.
LEMMA WorkOnceType ==
  ASSUME TypeOK, WorkOnce
  PROVE  TypeOK'
<1> DEFINE d == Head(outbox)
<1>1. d \in Delivery /\ Tail(outbox) \in Seq(Delivery)
  BY DEF TypeOK, WorkOnce
<1>2. d.conv \in Conversations
  BY <1>1 DEF Delivery
<1>3. PICK r \in Results(d) : Deliver(d, r)
  BY DEF WorkOnce
<1> HIDE DEF d
<1>4. ResultType(r)
  BY <1>1, ResultsType
<1>5. conv' \in [Conversations -> Conversation]
  <2>1. [conv[d.conv] EXCEPT !.state = r.work.state] \in Conversation
    BY <1>2, <1>4 DEF ResultType, WorkSet, Conversation, TypeOK
  <2> QED
    BY <1>2, <1>3, <2>1 DEF Deliver, TypeOK
<1>6. /\ reviews' \in [Conversations -> Board]
      /\ threads' \subseteq Verdict
      /\ actions' \in [Conversations -> Action]
  BY <1>2, <1>3, <1>4 DEF Deliver, TypeOK, ResultType, WorkSet
<1>7. claims' \in [ActionIds -> Claim]
  BY <1>3, <1>4, SetClaimType DEF Deliver, ResultType
<1>8. tasks' \subseteq Task
  <2>1. ASSUME NEW t \in Task
        PROVE  [t EXCEPT !.status = r.status, !.awaits = r.awaits] \in Task
    BY <1>4 DEF Task, ResultType
  <2> QED
    BY <1>3, <2>1 DEF Deliver, TypeOK
<1>9. outbox' \in Seq(Delivery)
  BY <1>1, <1>3 DEF Deliver, d
<1> QED
  BY <1>3, <1>5, <1>6, <1>7, <1>8, <1>9 DEF Deliver, TypeOK

\* Losing the work on a delivery.
LEMMA WorkCrashType ==
  ASSUME TypeOK, WorkCrash
  PROVE  TypeOK'
<1> DEFINE d == Head(outbox)
<1>1. d \in Delivery
  BY DEF TypeOK, WorkCrash
<1>2. PICK r \in Results(d) :
        /\ claims' = SetClaim(r.action, r.claim)
        /\ threads' \subseteq threads
  BY DEF WorkCrash
<1> HIDE DEF d
<1>3. ResultType(r)
  BY <1>1, ResultsType
<1>4. claims' \in [ActionIds -> Claim]
  BY <1>2, <1>3, SetClaimType DEF ResultType
<1> QED
  BY <1>2, <1>4 DEF WorkCrash, TypeOK

\* The attempts of a reconciliation, and the claims they leave.
LEMMA AttemptsType ==
  ASSUME TypeOK, NEW replies
  PROVE  /\ \A c \in Unknown : /\ Attempts(replies)[c].action \in Action
                               /\ Attempts(replies)[c].claim \in Claim
         /\ ClaimsAfter(Attempts(replies)) \in [ActionIds -> Claim]
<1>1. ASSUME NEW c \in Unknown
      PROVE  /\ Attempts(replies)[c].action \in Action
             /\ Attempts(replies)[c].claim \in Claim
  <2>1. actions[c] \in Action /\ ClaimOf(actions[c]) \in Claim /\ conv[c].owner \in Owners
    BY ClaimOfType DEF Unknown, TypeOK, Conversation
  <2>2. Attempts(replies)[c] =
          Execute(actions[c], ClaimOf(actions[c]), conv[c].owner, replies[c])
    BY DEF Attempts
  <2> QED
    BY <2>1, <2>2, ExecuteType
<1>2. ASSUME NEW a \in ActionIds
      PROVE  (IF \E c \in Unknown : actions[c].id = a
              THEN Attempts(replies)[CHOOSE c \in Unknown : actions[c].id = a].claim
              ELSE claims[a]) \in Claim
  <2>1. CASE \E c \in Unknown : actions[c].id = a
    <3>1. (CHOOSE c \in Unknown : actions[c].id = a) \in Unknown
      BY <2>1
    <3> QED
      BY <1>1, <2>1, <3>1
  <2>2. CASE ~ \E c \in Unknown : actions[c].id = a
    BY <2>2 DEF TypeOK
  <2> QED
    BY <2>1, <2>2
<1> QED
  BY <1>1, <1>2 DEF ClaimsAfter

\* A settled conversation.
LEMMA ReconciledType ==
  ASSUME TypeOK, NEW c \in Conversations, NEW attempt, attempt.action \in Action
  PROVE  /\ Reconciled(c, attempt) \in WorkSet
         /\ Reconciled(c, attempt).state.receipt = attempt.action.receipt
         /\ Reconciled(c, attempt).state.version = conv[c].state.version
<1> DEFINE state == [conv[c].state EXCEPT !.receipt = attempt.action.receipt]
           old == reviews[c]["submission"]
           row == IF old.status = "absent" THEN old ELSE [old EXCEPT !.status = "reconciled"]
           board == [reviews[c] EXCEPT !["submission"] = row]
           next == [state |-> Plan(state), board |-> board, threads |-> threads]
<1>1. /\ state \in State
      /\ state.receipt = attempt.action.receipt
      /\ state.version = conv[c].state.version
  BY DEF TypeOK, Conversation, State, Action
<1> HIDE DEF state
<1>2. row \in Review
  <2>1. old \in Review
    BY DEF TypeOK, Board, Kinds
  <2> HIDE DEF old
  <2>2. [old EXCEPT !.status = "reconciled"] \in Review
    BY <2>1 DEF Review, ReviewStatuses
  <2> QED
    BY <2>1, <2>2
<1> HIDE DEF row
<1>3. board \in Board
  BY <1>2 DEF TypeOK, Board
<1> HIDE DEF board
<1>4. /\ next \in WorkSet
      /\ next.state.receipt = attempt.action.receipt
      /\ next.state.version = conv[c].state.version
  BY <1>1, <1>3, PlanType DEF WorkSet, TypeOK
<1> HIDE DEF next
<1>5. Reconciled(c, attempt) = UpsertReview(c, next, "triage")
  BY DEF Reconciled, next, board, row, state
<1> QED
  BY <1>4, <1>5, UpsertType DEF Kinds

\* The settled conversations of a reconciliation.
LEMMA SettledType ==
  ASSUME TypeOK, NEW replies
  PROVE  LET work == Settled(Attempts(replies))
         IN  /\ DOMAIN work = {c \in Unknown : Attempts(replies)[c].action.status = "confirmed"}
             /\ \A c \in DOMAIN work :
                  /\ work[c] = Reconciled(c, Attempts(replies)[c])
                  /\ work[c] \in WorkSet
                  /\ work[c].state.receipt = Attempts(replies)[c].action.receipt
<1> DEFINE attempts == Attempts(replies)
           resolved == {c \in Unknown : attempts[c].action.status = "confirmed"}
           work == Settled(attempts)
<1>1. DOMAIN work = resolved /\ \A c \in resolved : work[c] = Reconciled(c, attempts[c])
  BY DEF Settled
<1>2. ASSUME NEW c \in resolved
      PROVE  attempts[c].action \in Action /\ c \in Conversations
  BY AttemptsType DEF Unknown
<1> HIDE DEF attempts, work
<1>3. ASSUME NEW c \in resolved
      PROVE  /\ Reconciled(c, attempts[c]) \in WorkSet
             /\ Reconciled(c, attempts[c]).state.receipt = attempts[c].action.receipt
  BY <1>2, ReconciledType
<1> QED
  BY <1>1, <1>3 DEF work, attempts

\* A batch of attempts, committed.
LEMMA ReconcileType ==
  ASSUME TypeOK, NEW replies, ReconcileWith(replies)
  PROVE  TypeOK'
<1> DEFINE attempts == Attempts(replies)
           work == Settled(attempts)
           resolved == DOMAIN work
<1>1. /\ conv' = [c \in Conversations |->
                    IF c \in resolved THEN [conv[c] EXCEPT !.state = work[c].state] ELSE conv[c]]
      /\ reviews' = [c \in Conversations |-> IF c \in resolved THEN work[c].board ELSE reviews[c]]
      /\ threads' = ThreadsLeft(work)
      /\ actions' = [c \in Conversations |->
                       IF c \in Unknown THEN attempts[c].action ELSE actions[c]]
      /\ claims' = ClaimsAfter(attempts)
      /\ UNCHANGED <<tasks, outbox, decisions, helpSessions>>
  BY DEF ReconcileWith
<1>2. \A c \in resolved : work[c] \in WorkSet
  BY SettledType
<1>3. /\ \A c \in Unknown : attempts[c].action \in Action
      /\ ClaimsAfter(attempts) \in [ActionIds -> Claim]
  BY AttemptsType
<1> HIDE DEF attempts, work
<1>4. ASSUME NEW c \in Conversations
      PROVE  /\ (IF c \in resolved THEN [conv[c] EXCEPT !.state = work[c].state] ELSE conv[c])
                  \in Conversation
             /\ (IF c \in resolved THEN work[c].board ELSE reviews[c]) \in Board
             /\ (IF c \in Unknown THEN attempts[c].action ELSE actions[c]) \in Action
  <2>1. conv[c] \in Conversation /\ reviews[c] \in Board /\ actions[c] \in Action
    BY DEF TypeOK
  <2>2. c \in resolved => work[c].state \in State /\ work[c].board \in Board
    BY <1>2 DEF WorkSet
  <2>3. c \in resolved => [conv[c] EXCEPT !.state = work[c].state] \in Conversation
    BY <2>1, <2>2 DEF Conversation
  <2> QED
    BY <1>3, <2>1, <2>2, <2>3
<1>5. /\ conv' \in [Conversations -> Conversation]
      /\ reviews' \in [Conversations -> Board]
      /\ actions' \in [Conversations -> Action]
  BY <1>1, <1>4
<1>6. threads' \subseteq Verdict
  BY <1>1 DEF ThreadsLeft, TypeOK
<1> QED
  BY <1>1, <1>3, <1>5, <1>6 DEF TypeOK

\* A batch of attempts, lost.
LEMMA ReconcileCrashType ==
  ASSUME TypeOK, ReconcileCrash
  PROVE  TypeOK'
<1>1. PICK replies \in [Unknown -> CoreReplies] :
        claims' = ClaimsAfter(Attempts(replies)) /\ threads' \subseteq threads
  BY DEF ReconcileCrash
<1> QED
  BY <1>1, AttemptsType DEF ReconcileCrash, TypeOK

\* A verdict on a review row that exists.
LEMMA VerdictType ==
  ASSUME TypeOK, NEW c \in Conversations, NEW kind \in Kinds, NEW id \in DecisionIds,
         NEW decision \in Decisions, NEW team \in TeamOrNone
  PROVE  /\ VerdictOn(c, kind, id, decision, team) \in Verdict
         /\ Resumed(threads, VerdictOn(c, kind, id, decision, team)) \subseteq Verdict
         /\ Reviewed(c, decision, team) \in Outcome
<1>1. reviews[c][kind].version \in Nat /\ reviews[c]["triage"].team \in TeamOrNone
  BY DEF TypeOK, Board, Kinds, Review
<1>2. VerdictOn(c, kind, id, decision, team) \in Verdict
  BY <1>1 DEF VerdictOn, Verdict
<1>3. Resumed(threads, VerdictOn(c, kind, id, decision, team)) \subseteq Verdict
  BY <1>2, RestartedSubset DEF Resumed, TypeOK
<1>4. Reviewed(c, decision, team) \in Outcome
  BY <1>1 DEF Reviewed, Outcome, TeamOrNone
<1> QED
  BY <1>2, <1>3, <1>4

\* An employee's decision.
LEMMA DecideType ==
  ASSUME TypeOK, NEW c \in Conversations, NEW kind \in Kinds, NEW id \in DecisionIds,
         NEW decision \in Decisions, NEW team \in TeamOrNone,
         Decide(c, kind, id, decision, team)
  PROVE  TypeOK'
<1> DEFINE verdict == VerdictOn(c, kind, id, decision, team)
           asks == decision = "request_information"
           stage == IF asks THEN "awaiting_customer" ELSE "review_completed"
           status == IF asks THEN "awaiting_customer" ELSE "completed"
           outcome == Reviewed(c, decision, team)
           decided == [[conv[c].state EXCEPT !.outcome = outcome] EXCEPT !.stage = stage]
<1>1. verdict \in Verdict /\ Resumed(threads, verdict) \subseteq Verdict /\ outcome \in Outcome
  BY VerdictType
<1>2. stage \in Stages /\ status \in TaskStatuses
  BY DEF Stages, TaskStatuses
<1>3. conv' \in [Conversations -> Conversation]
  <2>1. decided \in State
    BY <1>1, <1>2 DEF TypeOK, Conversation, State
  <2>2. [conv[c] EXCEPT !.state = decided] \in Conversation
    BY <2>1 DEF TypeOK, Conversation
  <2>3. \/ conv' = [conv EXCEPT ![c] = [conv[c] EXCEPT !.state = decided]]
        \/ conv' = conv
    BY DEF Decide, TypeOK, Conversation, State
  <2> QED
    BY <2>2, <2>3 DEF TypeOK
<1>4. reviews' \in [Conversations -> Board]
  <2>0. reviews[c][kind] \in Review /\ decision \in ReviewStatuses
    BY DEF TypeOK, Board, ReviewStatuses
  <2>1. [reviews[c][kind] EXCEPT !.status = decision] \in Review
    BY <2>0 DEF Review
  <2>2. [reviews[c] EXCEPT ![kind] = [reviews[c][kind] EXCEPT !.status = decision]] \in Board
    BY <2>1 DEF TypeOK, Board
  <2>3. reviews' = [reviews EXCEPT ![c] =
          [reviews[c] EXCEPT ![kind] = [reviews[c][kind] EXCEPT !.status = decision]]]
    BY DEF Decide
  <2> QED
    BY <2>2, <2>3 DEF TypeOK
<1>5. tasks' \subseteq Task
  <2>1. tasks' = {IF Released(c, kind, t) THEN [t EXCEPT !.status = status] ELSE t : t \in tasks}
    BY DEF Decide
  <2>2. ASSUME NEW t \in tasks
        PROVE  [t EXCEPT !.status = status] \in Task
    BY <1>2 DEF TypeOK, Task
  <2> QED
    BY <2>1, <2>2 DEF TypeOK
<1>6. decisions' \subseteq Verdict /\ threads' \subseteq Verdict
  BY <1>1 DEF Decide, TypeOK
<1> QED
  BY <1>3, <1>4, <1>5, <1>6 DEF Decide, TypeOK

\* A decision that is lost.
LEMMA DecideCrashType ==
  ASSUME TypeOK, NEW c \in Conversations, NEW kind \in Kinds, NEW id \in DecisionIds,
         NEW decision \in Decisions, NEW team \in TeamOrNone,
         DecideCrash(c, kind, id, decision, team)
  PROVE  TypeOK'
<1>1. /\ Resumed(threads, VerdictOn(c, kind, id, decision, team)) \subseteq Verdict
      /\ Restarted(threads, c, kind, reviews[c][kind].version) \subseteq Verdict
  BY VerdictType, RestartedSubset DEF TypeOK
<1> QED
  BY <1>1 DEF DecideCrash, TypeOK

\* Every step keeps the tables well typed.
LEMMA NextType == TypeOK /\ [Next]_vars => TypeOK'
<1> SUFFICES ASSUME TypeOK, [Next]_vars PROVE TypeOK'
  OBVIOUS
<1>1. CASE CustomerNext
  BY <1>1, CreateType, AttachType, HelpType, EnqueueMessageType, EnqueueConfirmationType
     DEF CustomerNext
<1>2. CASE EmployeeNext
  BY <1>2, DecideType, DecideCrashType DEF EmployeeNext
<1>3. CASE WorkerNext
  BY <1>3, WorkOnceType, WorkCrashType, ReconcileType, ReconcileCrashType
     DEF WorkerNext, Reconcile
<1>4. CASE UNCHANGED vars
  BY <1>4 DEF vars, TypeOK
<1> QED
  BY <1>1, <1>2, <1>3, <1>4 DEF Next

\* Every table only ever holds rows of its schema, whatever the number of
\* customers, conversations and messages.
THEOREM TypeCorrect == Spec => []TypeOK
<1>1. Init => TypeOK
  BY InitType
<1>2. TypeOK /\ [Next]_vars => TypeOK'
  BY NextType
<1> QED
  BY <1>1, <1>2, PTL DEF Spec

-----------------------------------------------------------------------------
(* Submission: the inductive invariant. *)

VersionsAreReal == \A c \in Conversations : Created(c) => conv[c].state.version >= 1

IntentsAreDistinct ==
  \A c, d \in Conversations :
    actions[c].id = actions[d].id /\ actions[c].id # NoAction => c = d

IntentsAreOwned ==
  \A c \in Conversations :
    /\ actions[c].draft.intake = c
    /\ actions[c].status = "none" <=> actions[c].id = NoAction
    /\ actions[c].status # "none" => conv[c].owner \in Customers /\ actions[c].draft.version >= 1

ReceiptsAreFiled ==
  \A c \in Conversations :
    /\ conv[c].state.receipt # 0 <=> actions[c].status = "confirmed"
    /\ actions[c].status = "confirmed" =>
         /\ Filed(claims, actions[c].id)
         /\ conv[c].state.receipt = claims[actions[c].id].version
         /\ actions[c].receipt = claims[actions[c].id].version

ConfirmationsHaveIntents ==
  \A i \in 1..Len(outbox) :
    outbox[i].kind = "confirmation" => actions[outbox[i].conv].status # "none"

SubmissionInv ==
  /\ TypeOK
  /\ VersionsAreReal
  /\ IntentsAreDistinct
  /\ IntentsAreOwned
  /\ ClaimMatchesIntent
  /\ ReceiptsAreFiled
  /\ ConfirmationsHaveIntents

-----------------------------------------------------------------------------
(* Progress. *)

IntentsStay ==
  \A c \in Conversations :
    /\ conv'[c].owner = conv[c].owner
    /\ conv'[c].state.version >= conv[c].state.version
    /\ actions'[c].id = actions[c].id
    /\ actions'[c].draft = actions[c].draft
    /\ actions'[c].status = "none" <=> actions[c].status = "none"

ClaimsGrow ==
  \A a \in ActionIds :
    \/ claims'[a] = claims[a]
    \/ /\ ~Filed(claims, a)
       /\ \E c \in Conversations :
            /\ actions[c].id = a
            /\ claims'[a] = ClaimFor(conv[c].owner, actions[c].draft)

SameReceipt(c) ==
  /\ conv'[c].state.receipt = conv[c].state.receipt
  /\ actions'[c].receipt = actions[c].receipt
  /\ actions'[c].status = "confirmed" <=> actions[c].status = "confirmed"

NewReceipt(c) ==
  /\ actions'[c].status = "confirmed"
  /\ Filed(claims', actions'[c].id)
  /\ conv'[c].state.receipt = claims'[actions'[c].id].version
  /\ actions'[c].receipt = claims'[actions'[c].id].version

Progress ==
  /\ IntentsStay
  /\ ClaimsGrow
  /\ \A c \in Conversations : SameReceipt(c) \/ NewReceipt(c)
  /\ outbox' = outbox \/ (outbox # <<>> /\ outbox' = Tail(outbox))

\* A claim filed for an intent is not the absence of one, and an owned
\* intent has an id.
LEMMA ClaimForIsFiled ==
  ASSUME NEW owner, NEW draft \in DraftSet
  PROVE  ClaimFor(owner, draft) # NoClaim
BY NullAssumption DEF ClaimFor, NoClaim, DraftSet

\* Each filed claim is the one of the only intent with its id.
LEMMA ClaimIsOfIntent ==
  ASSUME SubmissionInv, NEW c \in Conversations, actions[c].status # "none"
  PROVE  /\ actions[c].id \in ActionIds
         /\ ClaimOf(actions[c]) = claims[actions[c].id]
         /\ Filed(claims, actions[c].id) =>
              claims[actions[c].id] = ClaimFor(conv[c].owner, actions[c].draft)
<1>1. actions[c].id # NoAction
  BY DEF SubmissionInv, IntentsAreOwned
<1>2. actions[c].id \in ActionIds
  BY <1>1 DEF SubmissionInv, TypeOK, Action
<1>3. ASSUME Filed(claims, actions[c].id)
      PROVE  claims[actions[c].id] = ClaimFor(conv[c].owner, actions[c].draft)
  <2>1. PICK d \in Conversations :
          /\ actions[d].id = actions[c].id
          /\ claims[actions[c].id] = ClaimFor(conv[d].owner, actions[d].draft)
    BY <1>2, <1>3 DEF SubmissionInv, ClaimMatchesIntent
  <2>2. d = c
    BY <1>1, <2>1 DEF SubmissionInv, IntentsAreDistinct
  <2> QED
    BY <2>1, <2>2
<1> QED
  BY <1>1, <1>2, <1>3 DEF ClaimOf

\* Progress keeps the invariant.
LEMMA ProgressKeepsInv ==
  ASSUME SubmissionInv, TypeOK', Progress
  PROVE  SubmissionInv'
<1>1. VersionsAreReal'
  <2>1. \A c \in Conversations : conv[c].state.version \in Nat /\ conv'[c].state.version \in Nat
    BY DEF SubmissionInv, TypeOK, Conversation, State
  <2> QED
    BY <2>1 DEF SubmissionInv, VersionsAreReal, Progress, IntentsStay, Created
<1>2. IntentsAreDistinct'
  BY DEF SubmissionInv, IntentsAreDistinct, Progress, IntentsStay
<1>3. IntentsAreOwned'
  BY DEF SubmissionInv, IntentsAreOwned, Progress, IntentsStay
<1>4. ClaimMatchesIntent'
  <2> SUFFICES ASSUME NEW a \in ActionIds, Filed(claims', a)
               PROVE  \E c \in Conversations :
                        /\ actions'[c].id = a
                        /\ claims'[a] = ClaimFor(conv'[c].owner, actions'[c].draft)
    BY DEF ClaimMatchesIntent, Filed
  <2>1. \E c \in Conversations :
          actions[c].id = a /\ claims'[a] = ClaimFor(conv[c].owner, actions[c].draft)
    <3>1. CASE claims'[a] = claims[a]
      BY <3>1 DEF SubmissionInv, ClaimMatchesIntent, Filed
    <3>2. CASE claims'[a] # claims[a]
      BY <3>2 DEF Progress, ClaimsGrow
    <3> QED
      BY <3>1, <3>2
  <2> QED
    BY <2>1 DEF Progress, IntentsStay
<1>5. ReceiptsAreFiled'
  <2> SUFFICES ASSUME NEW c \in Conversations
               PROVE  /\ conv'[c].state.receipt # 0 <=> actions'[c].status = "confirmed"
                      /\ actions'[c].status = "confirmed" =>
                           /\ Filed(claims', actions'[c].id)
                           /\ conv'[c].state.receipt = claims'[actions'[c].id].version
                           /\ actions'[c].receipt = claims'[actions'[c].id].version
    BY DEF ReceiptsAreFiled, Filed
  <2>1. CASE SameReceipt(c) /\ actions[c].status = "confirmed"
    <3>1. actions[c].id \in ActionIds /\ actions'[c].id = actions[c].id
      BY <2>1, ClaimIsOfIntent DEF Progress, IntentsStay
    <3>2. Filed(claims, actions[c].id)
      BY <2>1 DEF SubmissionInv, ReceiptsAreFiled
    <3>3. claims'[actions[c].id] = claims[actions[c].id]
      BY <3>1, <3>2 DEF Progress, ClaimsGrow
    <3> QED
      BY <2>1, <3>1, <3>2, <3>3 DEF SubmissionInv, ReceiptsAreFiled, SameReceipt, Filed
  <2>2. CASE SameReceipt(c) /\ actions[c].status # "confirmed"
    BY <2>2 DEF SubmissionInv, ReceiptsAreFiled, SameReceipt
  <2>3. CASE NewReceipt(c)
    <3>1. actions[c].status # "none"
      BY <2>3 DEF NewReceipt, Progress, IntentsStay
    <3>2. actions'[c].id \in ActionIds
      BY <3>1, ClaimIsOfIntent DEF Progress, IntentsStay
    <3>3. PICK d \in Conversations :
            /\ actions'[d].id = actions'[c].id
            /\ claims'[actions'[c].id] = ClaimFor(conv'[d].owner, actions'[d].draft)
      BY <1>4, <2>3, <3>2 DEF ClaimMatchesIntent, NewReceipt, Filed
    <3>4. actions'[c].id # NoAction
      BY <3>2, NullAssumption
    <3>5. d = c
      BY <1>2, <3>3, <3>4 DEF IntentsAreDistinct
    <3>6. claims'[actions'[c].id].version = actions'[c].draft.version
      BY <3>3, <3>5 DEF ClaimFor
    <3>7. actions'[c].draft.version >= 1 /\ actions'[c].draft.version \in Nat
      BY <1>3, <2>3 DEF IntentsAreOwned, NewReceipt, TypeOK, Action, DraftSet
    <3> QED
      BY <2>3, <3>6, <3>7 DEF NewReceipt
  <2> QED
    BY <2>1, <2>2, <2>3 DEF Progress
<1>6. ConfirmationsHaveIntents'
  <2> SUFFICES ASSUME NEW i \in 1..Len(outbox'), outbox'[i].kind = "confirmation"
               PROVE  actions'[outbox'[i].conv].status # "none"
    BY DEF ConfirmationsHaveIntents
  <2>1. \E j \in 1..Len(outbox) : outbox[j] = outbox'[i]
    <3>1. CASE outbox' = outbox
      BY <3>1
    <3>2. CASE outbox # <<>> /\ outbox' = Tail(outbox)
      <4>1. i + 1 \in 1..Len(outbox) /\ outbox[i + 1] = outbox'[i]
        BY <3>2 DEF SubmissionInv, TypeOK
      <4> QED
        BY <4>1
    <3> QED
      BY <3>1, <3>2 DEF Progress
  <2>2. PICK j \in 1..Len(outbox) : outbox[j] = outbox'[i]
    BY <2>1
  <2>3. outbox[j].conv \in Conversations
    <3>1. outbox[j] \in Delivery
      BY DEF SubmissionInv, TypeOK
    <3> QED
      BY <3>1 DEF Delivery
  <2> QED
    BY <2>2, <2>3 DEF SubmissionInv, ConfirmationsHaveIntents, Progress, IntentsStay
<1> QED
  BY <1>1, <1>2, <1>3, <1>4, <1>5, <1>6 DEF SubmissionInv

-----------------------------------------------------------------------------
(* The worker's steps are progress. *)

\* One attempt for an intent files at most its own claim, and confirms it only
\* with the receipt of a filed claim.
LEMMA ExecuteProgress ==
  ASSUME SubmissionInv, NEW c \in Conversations, actions[c].status # "none", NEW reply
  PROVE  LET attempt == Execute(actions[c], ClaimOf(actions[c]), conv[c].owner, reply)
         IN  /\ attempt.action.id = actions[c].id
             /\ attempt.action.draft = actions[c].draft
             /\ attempt.action.status # "none"
             /\ \/ attempt.claim = claims[actions[c].id]
                \/ /\ ~Filed(claims, actions[c].id)
                   /\ attempt.claim = ClaimFor(conv[c].owner, actions[c].draft)
             /\ actions[c].status = "confirmed" => attempt.action = actions[c] /\ ~attempt.refused
             /\ attempt.action.status = "confirmed" =>
                  attempt.claim # NoClaim /\ attempt.action.receipt = attempt.claim.version
             /\ ~attempt.refused => attempt.action.status \in {"unknown", "confirmed"}
             /\ attempt.action.status = "unknown" => attempt.action.receipt = actions[c].receipt
<1> DEFINE action == actions[c]
           claim == ClaimOf(action)
           owner == conv[c].owner
           asks == claim = NoClaim /\ reply # "lookup_lost"
           refused == asks /\ ~ValidDraft(owner, action.draft.facts)
           lost == reply = "lookup_lost" \/ (asks /\ reply # "answers")
           files == asks /\ reply # "submit_lost"
           answered == IF files THEN CoreSubmit(claim, owner, action.draft) ELSE claim
           attempt == Execute(action, claim, owner, reply)
<1>1. action \in Action /\ action.draft \in DraftSet
  BY DEF SubmissionInv, TypeOK, Action
<1>2. claim = claims[action.id] /\ (claim # NoClaim <=> Filed(claims, action.id))
  BY ClaimIsOfIntent DEF Filed
<1>3. answered = claim \/ (claim = NoClaim /\ answered = ClaimFor(owner, action.draft))
  BY DEF CoreSubmit
<1>4. files => answered # NoClaim
  BY <1>1, ClaimForIsFiled DEF CoreSubmit
<1>5. ~lost => answered # NoClaim
  BY <1>4
<1>6. action.status = "confirmed" => claim # NoClaim /\ action.receipt = claim.version
  BY <1>2 DEF SubmissionInv, ReceiptsAreFiled
<1> HIDE DEF claim, answered, lost, refused
<1>7. attempt = IF action.status = "confirmed" \/ refused
                THEN [action |-> action, claim |-> claim, refused |-> action.status # "confirmed"]
                ELSE [action |-> IF lost THEN [action EXCEPT !.status = "unknown"]
                                 ELSE [action EXCEPT !.status = "confirmed",
                                                     !.receipt = answered.version],
                      claim |-> answered, refused |-> FALSE]
  BY DEF Execute, answered, lost, refused
<1> HIDE DEF attempt
<1>8. CASE action.status = "confirmed" \/ refused
  <2>1. /\ attempt.action = action
        /\ attempt.claim = claim
        /\ attempt.refused <=> action.status # "confirmed"
    BY <1>7, <1>8
  <2> QED
    BY <1>2, <1>6, <2>1 DEF attempt, claim
<1>9. CASE ~(action.status = "confirmed" \/ refused) /\ lost
  <2>1. /\ attempt.action = [action EXCEPT !.status = "unknown"]
        /\ attempt.claim = answered
        /\ ~attempt.refused
    BY <1>7, <1>9
  <2>2. /\ attempt.action.status = "unknown"
        /\ attempt.action.id = action.id
        /\ attempt.action.draft = action.draft
        /\ attempt.action.receipt = action.receipt
    BY <1>1, <2>1 DEF Action
  <2> QED
    BY <1>2, <1>3, <1>9, <2>1, <2>2 DEF attempt, claim
<1>10. CASE ~(action.status = "confirmed" \/ refused) /\ ~lost
  <2>1. /\ attempt.action = [action EXCEPT !.status = "confirmed", !.receipt = answered.version]
        /\ attempt.claim = answered
        /\ ~attempt.refused
    BY <1>7, <1>10
  <2>2. /\ attempt.action.status = "confirmed"
        /\ attempt.action.id = action.id
        /\ attempt.action.draft = action.draft
        /\ attempt.action.receipt = answered.version
    BY <1>1, <2>1 DEF Action
  <2> QED
    BY <1>2, <1>3, <1>5, <1>10, <2>1, <2>2 DEF attempt, claim
<1> QED
  BY <1>8, <1>9, <1>10

\* What a delivery's result may change of the submission.
ResultProgress(r, c) ==
  /\ r.work.state.version >= conv[c].state.version
  /\ r.action.id = actions[c].id
  /\ r.action.draft = actions[c].draft
  /\ r.action.status = "none" <=> actions[c].status = "none"
  /\ \/ r.claim = ClaimOf(actions[c])
     \/ /\ ~Filed(claims, actions[c].id)
        /\ r.claim = ClaimFor(conv[c].owner, actions[c].draft)
  /\ \/ /\ r.work.state.receipt = conv[c].state.receipt
        /\ r.action.receipt = actions[c].receipt
        /\ r.action.status = "confirmed" <=> actions[c].status = "confirmed"
     \/ /\ r.action.status = "confirmed"
        /\ r.claim # NoClaim
        /\ r.work.state.receipt = r.claim.version
        /\ r.action.receipt = r.claim.version

\* The results of the next delivery are such.
LEMMA ResultsProgress ==
  ASSUME SubmissionInv, NEW d \in Delivery, NEW r \in Results(d),
         d.kind = "confirmation" => actions[d.conv].status # "none"
  PROVE  ResultProgress(r, d.conv)
<1> DEFINE c == d.conv
<1>0. c \in Conversations /\ TypeOK
  BY DEF Delivery, SubmissionInv
<1>1. CASE d.kind = "message"
  <2>1. PICK reading \in Readings(d) : r = ProcessMessage(d, reading)
    BY <1>1 DEF Results
  <2>2. reading \in Input
    BY ReadingsType
  <2>3. /\ Keeps(Work(c), r.work)
        /\ r.action = actions[c]
        /\ r.claim = ClaimOf(actions[c])
    BY <1>0, <2>1, <2>2, ProcessMessageType
  <2>4. Work(c).state = conv[c].state
    BY DEF Work
  <2> QED
    BY <2>3, <2>4 DEF Keeps, ResultProgress
<1>2. CASE d.kind # "message"
  <2> DEFINE attempt(reply) == Execute(actions[c], ClaimOf(actions[c]), conv[c].owner, reply)
  <2>1. PICK reply \in CoreReplies : r = ProcessConfirmation(d, reply)
    BY <1>2 DEF Results
  <2>2. actions[c].status # "none"
    BY <1>2 DEF Delivery
  <2>3. /\ r.claim = attempt(reply).claim
        /\ r.work.state.version >= conv[c].state.version
        /\ r.action = IF attempt(reply).refused THEN actions[c] ELSE attempt(reply).action
        /\ r.work.state.receipt = IF attempt(reply).refused \/ attempt(reply).action.status = "unknown"
                                  THEN conv[c].state.receipt
                                  ELSE attempt(reply).action.receipt
    BY <1>0, <2>1, ProcessConfirmationType
  <2>4. /\ attempt(reply).action.id = actions[c].id
        /\ attempt(reply).action.draft = actions[c].draft
        /\ attempt(reply).action.status # "none"
        /\ \/ attempt(reply).claim = claims[actions[c].id]
           \/ /\ ~Filed(claims, actions[c].id)
              /\ attempt(reply).claim = ClaimFor(conv[c].owner, actions[c].draft)
        /\ actions[c].status = "confirmed" => attempt(reply).action = actions[c] /\ ~attempt(reply).refused
        /\ attempt(reply).action.status = "confirmed" =>
             /\ attempt(reply).claim # NoClaim
             /\ attempt(reply).action.receipt = attempt(reply).claim.version
        /\ ~attempt(reply).refused => attempt(reply).action.status \in {"unknown", "confirmed"}
        /\ attempt(reply).action.status = "unknown" => attempt(reply).action.receipt = actions[c].receipt
    BY <1>0, <2>2, ExecuteProgress
  <2>5. ClaimOf(actions[c]) = claims[actions[c].id]
    BY <1>0, <2>2, ClaimIsOfIntent
  <2> HIDE DEF attempt
  <2> QED
    BY <2>2, <2>3, <2>4, <2>5 DEF ResultProgress
<1> QED
  BY <1>1, <1>2

\* Setting a result's claim files at most the claim of its intent.
LEMMA SetClaimGrows ==
  ASSUME SubmissionInv, NEW c \in Conversations, NEW r, ResultProgress(r, c),
         claims' = SetClaim(r.action, r.claim)
  PROVE  /\ ClaimsGrow
         /\ actions[c].id \in ActionIds => claims'[actions[c].id] = r.claim
<1>1. CASE actions[c].id = NoAction
  BY <1>1, NullAssumption DEF ResultProgress, SetClaim, ClaimsGrow
<1>2. CASE actions[c].id # NoAction
  <2>1. actions[c].status # "none"
    BY <1>2 DEF SubmissionInv, IntentsAreOwned
  <2>2. actions[c].id \in ActionIds /\ ClaimOf(actions[c]) = claims[actions[c].id]
    BY <2>1, ClaimIsOfIntent
  <2>3. claims' = [claims EXCEPT ![actions[c].id] = r.claim]
    BY <1>2 DEF ResultProgress, SetClaim
  <2>4. claims \in [ActionIds -> Claim]
    BY DEF SubmissionInv, TypeOK
  <2> QED
    BY <2>2, <2>3, <2>4 DEF ResultProgress, ClaimsGrow
<1> QED
  BY <1>1, <1>2

\* The next delivery is one, and a confirmation has its intent.
LEMMA HeadHasIntent ==
  ASSUME SubmissionInv, outbox # <<>>
  PROVE  /\ Head(outbox) \in Delivery
         /\ Head(outbox).kind = "confirmation" => actions[Head(outbox).conv].status # "none"
<1>1. outbox \in Seq(Delivery)
  BY DEF SubmissionInv, TypeOK
<1>2. Head(outbox) = outbox[1] /\ 1 \in 1..Len(outbox)
  BY <1>1
<1> QED
  BY <1>1, <1>2 DEF SubmissionInv, ConfirmationsHaveIntents

\* A committed delivery is progress.
LEMMA WorkOnceProgress ==
  ASSUME SubmissionInv, WorkOnce
  PROVE  Progress
<1> DEFINE d == Head(outbox)
           c == d.conv
<1>1. d \in Delivery /\ (d.kind = "confirmation" => actions[c].status # "none")
  BY HeadHasIntent DEF WorkOnce
<1>2. c \in Conversations
  BY <1>1 DEF Delivery
<1>3. PICK r \in Results(d) : Deliver(d, r)
  BY DEF WorkOnce
<1>4. outbox # <<>> /\ outbox' = Tail(outbox)
  BY <1>3 DEF WorkOnce, Deliver
<1> HIDE DEF d
<1>5. ResultProgress(r, c)
  BY <1>1, <1>3, ResultsProgress
<1>6. /\ conv' = [conv EXCEPT ![c].state = r.work.state]
      /\ actions' = [actions EXCEPT ![c] = r.action]
      /\ claims' = SetClaim(r.action, r.claim)
  BY <1>3 DEF Deliver
<1>7. /\ conv \in [Conversations -> Conversation]
      /\ actions \in [Conversations -> Action]
  BY DEF SubmissionInv, TypeOK
<1>8. \A e \in Conversations : conv[e].state.version \in Nat
  BY <1>7 DEF Conversation, State
<1>9. /\ conv'[c].owner = conv[c].owner
      /\ conv'[c].state = r.work.state
      /\ actions'[c] = r.action
      /\ \A e \in Conversations \ {c} : conv'[e] = conv[e] /\ actions'[e] = actions[e]
  BY <1>2, <1>6, <1>7 DEF Conversation
<1>10. IntentsStay
  BY <1>2, <1>5, <1>8, <1>9 DEF IntentsStay, ResultProgress
<1>11. ClaimsGrow /\ (actions[c].id \in ActionIds => claims'[actions[c].id] = r.claim)
  BY <1>2, <1>5, <1>6, SetClaimGrows
<1>12. SameReceipt(c) \/ NewReceipt(c)
  <2>1. actions[c].status # "none" => actions[c].id \in ActionIds
    BY <1>2, ClaimIsOfIntent
  <2> QED
    BY <1>5, <1>9, <1>11, <2>1 DEF ResultProgress, SameReceipt, NewReceipt, Filed
<1>13. \A e \in Conversations \ {c} : SameReceipt(e)
  BY <1>9 DEF SameReceipt
<1> QED
  BY <1>4, <1>10, <1>11, <1>12, <1>13 DEF Progress

\* A lost delivery is progress: it may have filed a claim.
LEMMA WorkCrashProgress ==
  ASSUME SubmissionInv, WorkCrash
  PROVE  Progress
<1> DEFINE d == Head(outbox)
<1>1. d \in Delivery /\ (d.kind = "confirmation" => actions[d.conv].status # "none")
  BY HeadHasIntent DEF WorkCrash
<1>2. PICK r \in Results(d) : claims' = SetClaim(r.action, r.claim)
  BY DEF WorkCrash
<1> HIDE DEF d
<1>3. ResultProgress(r, d.conv) /\ d.conv \in Conversations
  BY <1>1, <1>2, ResultsProgress DEF Delivery
<1>4. ClaimsGrow
  BY <1>2, <1>3, SetClaimGrows
<1>5. conv' = conv /\ actions' = actions /\ outbox' = outbox
  BY DEF WorkCrash
<1>6. \A e \in Conversations : conv[e].state.version \in Nat
  BY DEF SubmissionInv, TypeOK, Conversation, State
<1> QED
  BY <1>4, <1>5, <1>6 DEF Progress, IntentsStay, SameReceipt

\* A batch of attempts files at most the claims of the intents it attempts.
LEMMA AttemptsProgress ==
  ASSUME SubmissionInv, NEW replies, claims' = ClaimsAfter(Attempts(replies))
  PROVE  /\ ClaimsGrow
         /\ \A c \in Unknown : claims'[actions[c].id] = Attempts(replies)[c].claim
<1> DEFINE attempts == Attempts(replies)
<1>1. ASSUME NEW c \in Unknown
      PROVE  /\ c \in Conversations
             /\ actions[c].id \in ActionIds
             /\ \/ attempts[c].claim = claims[actions[c].id]
                \/ /\ ~Filed(claims, actions[c].id)
                   /\ attempts[c].claim = ClaimFor(conv[c].owner, actions[c].draft)
  <2>1. c \in Conversations /\ actions[c].status # "none"
    BY DEF Unknown
  <2>2. actions[c].id \in ActionIds
    BY <2>1, ClaimIsOfIntent
  <2>3. attempts[c] = Execute(actions[c], ClaimOf(actions[c]), conv[c].owner, replies[c])
    BY DEF Attempts
  <2> QED
    BY <2>1, <2>2, <2>3, ExecuteProgress
<1>2. ASSUME NEW c \in Unknown, NEW d \in Unknown, actions[c].id = actions[d].id
      PROVE  c = d
  BY <1>1, <1>2, NullAssumption DEF SubmissionInv, IntentsAreDistinct
<1> HIDE DEF attempts
<1>3. ASSUME NEW a \in ActionIds
      PROVE  claims'[a] = IF \E c \in Unknown : actions[c].id = a
                          THEN attempts[CHOOSE c \in Unknown : actions[c].id = a].claim
                          ELSE claims[a]
  BY DEF ClaimsAfter, attempts
<1>4. ASSUME NEW c \in Unknown
      PROVE  claims'[actions[c].id] = attempts[c].claim
  <2>1. actions[c].id \in ActionIds
    BY <1>1
  <2>2. (CHOOSE d \in Unknown : actions[d].id = actions[c].id) \in Unknown
    OBVIOUS
  <2>3. actions[CHOOSE d \in Unknown : actions[d].id = actions[c].id].id = actions[c].id
    OBVIOUS
  <2>4. (CHOOSE d \in Unknown : actions[d].id = actions[c].id) = c
    BY <1>2, <2>2, <2>3
  <2> QED
    BY <1>3, <2>1, <2>4
<1>5. ClaimsGrow
  <2> SUFFICES ASSUME NEW a \in ActionIds, claims'[a] # claims[a]
               PROVE  /\ ~Filed(claims, a)
                      /\ \E c \in Conversations :
                           /\ actions[c].id = a
                           /\ claims'[a] = ClaimFor(conv[c].owner, actions[c].draft)
    BY DEF ClaimsGrow
  <2>1. PICK c \in Unknown : actions[c].id = a
    BY <1>3
  <2> QED
    BY <1>1, <1>4, <2>1
<1> QED
  BY <1>4, <1>5 DEF attempts

\* A committed batch is progress.
LEMMA ReconcileProgress ==
  ASSUME SubmissionInv, NEW replies, ReconcileWith(replies)
  PROVE  Progress
<1> DEFINE attempts == Attempts(replies)
           work == Settled(attempts)
           resolved == DOMAIN work
<1>1. /\ conv' = [c \in Conversations |->
                    IF c \in resolved THEN [conv[c] EXCEPT !.state = work[c].state] ELSE conv[c]]
      /\ actions' = [c \in Conversations |->
                       IF c \in Unknown THEN attempts[c].action ELSE actions[c]]
      /\ claims' = ClaimsAfter(attempts)
      /\ outbox' = outbox
      /\ \A c \in Unknown : ~attempts[c].refused
  BY DEF ReconcileWith
<1>2. /\ resolved = {c \in Unknown : attempts[c].action.status = "confirmed"}
      /\ \A c \in resolved : /\ work[c] = Reconciled(c, attempts[c])
                             /\ work[c].state.receipt = attempts[c].action.receipt
  BY SettledType DEF SubmissionInv
<1>3. ClaimsGrow /\ \A c \in Unknown : claims'[actions[c].id] = attempts[c].claim
  BY <1>1, AttemptsProgress
<1>4. ASSUME NEW c \in Unknown
      PROVE  /\ c \in Conversations
             /\ actions[c].status = "unknown"
             /\ attempts[c].action.id = actions[c].id
             /\ attempts[c].action.draft = actions[c].draft
             /\ attempts[c].action.status \in {"unknown", "confirmed"}
             /\ attempts[c].action.status = "confirmed" =>
                  attempts[c].claim # NoClaim /\ attempts[c].action.receipt = attempts[c].claim.version
             /\ attempts[c].action.status = "unknown" =>
                  attempts[c].action.receipt = actions[c].receipt
  <2>1. c \in Conversations /\ actions[c].status = "unknown"
    BY DEF Unknown
  <2>2. attempts[c] = Execute(actions[c], ClaimOf(actions[c]), conv[c].owner, replies[c])
    BY DEF Attempts
  <2>3. ~attempts[c].refused
    BY <1>1
  <2> HIDE DEF attempts
  <2> QED
    BY <2>1, <2>2, <2>3, ExecuteProgress
<1>5. ASSUME NEW c \in resolved
      PROVE  work[c].state.version = conv[c].state.version
  <2>1. c \in Unknown /\ work[c] = Reconciled(c, attempts[c]) /\ TypeOK
    BY <1>2 DEF SubmissionInv
  <2>2. attempts[c].action \in Action /\ c \in Conversations
    BY <1>4, <2>1, AttemptsType
  <2> HIDE DEF attempts
  <2> QED
    BY <2>1, <2>2, ReconciledType
<1> HIDE DEF attempts, work
<1>6. \A c \in Conversations : conv[c] \in Conversation /\ conv[c].state.version \in Nat
  BY DEF SubmissionInv, TypeOK, Conversation, State
<1>7. IntentsStay
  BY <1>1, <1>2, <1>4, <1>5, <1>6 DEF IntentsStay, Conversation
<1>8. ASSUME NEW c \in Conversations
      PROVE  SameReceipt(c) \/ NewReceipt(c)
  <2>1. CASE c \in resolved
    <3>1. c \in Unknown /\ actions'[c] = attempts[c].action
      BY <1>1, <1>2, <2>1
    <3>2. conv'[c].state.receipt = attempts[c].action.receipt
      BY <1>1, <1>2, <1>6, <2>1 DEF Conversation
    <3> QED
      BY <1>2, <1>3, <1>4, <2>1, <3>1, <3>2 DEF NewReceipt, Filed
  <2>2. CASE c \notin resolved
    BY <1>1, <1>2, <1>4, <2>2 DEF SameReceipt
  <2> QED
    BY <2>1, <2>2
<1> QED
  BY <1>1, <1>3, <1>7, <1>8 DEF Progress

\* A lost batch is progress.
LEMMA ReconcileCrashProgress ==
  ASSUME SubmissionInv, ReconcileCrash
  PROVE  Progress
<1>1. PICK replies \in [Unknown -> CoreReplies] : claims' = ClaimsAfter(Attempts(replies))
  BY DEF ReconcileCrash
<1>2. ClaimsGrow
  BY <1>1, AttemptsProgress
<1>3. conv' = conv /\ actions' = actions /\ outbox' = outbox
  BY DEF ReconcileCrash
<1>4. \A e \in Conversations : conv[e].state.version \in Nat
  BY DEF SubmissionInv, TypeOK, Conversation, State
<1> QED
  BY <1>2, <1>3, <1>4 DEF Progress, IntentsStay, SameReceipt

\* A decision is progress: it changes the outcome and the stage only.
LEMMA DecideProgress ==
  ASSUME SubmissionInv, NEW c \in Conversations, NEW kind, NEW id, NEW decision, NEW team,
         Decide(c, kind, id, decision, team) \/ DecideCrash(c, kind, id, decision, team)
  PROVE  Progress
<1>1. UNCHANGED <<actions, claims, outbox>>
  BY DEF Decide, DecideCrash
<1>2. \A e \in Conversations : conv[e] \in Conversation
  BY DEF SubmissionInv, TypeOK
<1>3. ASSUME NEW e \in Conversations
      PROVE  /\ conv'[e].owner = conv[e].owner
             /\ conv'[e].state.version = conv[e].state.version
             /\ conv'[e].state.receipt = conv[e].state.receipt
  <2> DEFINE asks == decision = "request_information"
             outcome == Reviewed(c, decision, team)
             stage == IF asks THEN "awaiting_customer" ELSE "review_completed"
             decided == [[conv[c].state EXCEPT !.outcome = outcome] EXCEPT !.stage = stage]
  <2>1. /\ decided.version = conv[c].state.version
        /\ decided.receipt = conv[c].state.receipt
    BY <1>2 DEF Conversation, State
  <2>2. \/ conv' = [conv EXCEPT ![c] = [conv[c] EXCEPT !.state = decided]]
        \/ conv' = conv
    BY <1>2 DEF Decide, DecideCrash, Conversation, State
  <2> HIDE DEF decided
  <2>3. conv \in [Conversations -> Conversation]
    BY DEF SubmissionInv, TypeOK
  <2> QED
    BY <1>2, <2>1, <2>2, <2>3 DEF Conversation
<1>4. \A e \in Conversations : conv[e].state.version \in Nat
  BY <1>2 DEF Conversation, State
<1> QED
  BY <1>1, <1>3, <1>4 DEF Progress, IntentsStay, ClaimsGrow, SameReceipt

-----------------------------------------------------------------------------
(* The requests. *)

\* A planned conversation that has just been opened.
LEMMA OpenedState ==
  ASSUME NEW facts \in FactMap
  PROVE  /\ Plan(InitialState(facts)).version = 1
         /\ Plan(InitialState(facts)).receipt = 0
BY InitialStateType, PlanType

\* A conversation that was not created has no intent, no receipt and no
\* claim, so opening it disturbs nothing.
LEMMA OpeningKeepsInv ==
  ASSUME SubmissionInv, TypeOK', NEW c \in Conversations, ~Created(c), NEW owner, NEW state,
         owner # NoOwner, state.version = 1, state.receipt = 0,
         conv' = [conv EXCEPT ![c] = [owner |-> owner, state |-> state]],
         UNCHANGED <<actions, claims, outbox>>
  PROVE  SubmissionInv'
<1>1. actions[c].status = "none"
  BY NullAssumption DEF SubmissionInv, IntentsAreOwned, Created
<1>2. /\ conv'[c].owner = owner /\ conv'[c].state = state
      /\ \A e \in Conversations \ {c} : conv'[e] = conv[e]
  BY DEF SubmissionInv, TypeOK
<1>3. VersionsAreReal'
  BY <1>2 DEF SubmissionInv, VersionsAreReal, Created
<1>4. IntentsAreDistinct' /\ IntentsAreOwned' /\ ConfirmationsHaveIntents'
  BY <1>1, <1>2 DEF SubmissionInv, IntentsAreDistinct, IntentsAreOwned, ConfirmationsHaveIntents
<1>5. ClaimMatchesIntent'
  <2> SUFFICES ASSUME NEW a \in ActionIds, Filed(claims, a)
               PROVE  \E d \in Conversations :
                        /\ actions[d].id = a
                        /\ claims[a] = ClaimFor(conv'[d].owner, actions[d].draft)
    BY DEF ClaimMatchesIntent, Filed
  <2>1. PICK d \in Conversations :
          actions[d].id = a /\ claims[a] = ClaimFor(conv[d].owner, actions[d].draft)
    BY DEF SubmissionInv, ClaimMatchesIntent
  <2>2. d # c
    BY <1>1, <2>1, NullAssumption DEF SubmissionInv, IntentsAreOwned
  <2> QED
    BY <1>2, <2>1, <2>2
<1>6. ReceiptsAreFiled'
  BY <1>1, <1>2 DEF SubmissionInv, ReceiptsAreFiled, Filed
<1> QED
  BY <1>3, <1>4, <1>5, <1>6 DEF SubmissionInv

\* A new conversation keeps the invariant.
LEMMA CreateKeepsInv ==
  ASSUME SubmissionInv, TypeOK', NEW owner \in Customers, Create(owner)
  PROVE  SubmissionInv'
<1>1. PICK c \in Conversations :
        /\ ~Created(c)
        /\ conv' = [conv EXCEPT ![c] = [owner |-> owner, state |-> Plan(InitialState(NoFacts))]]
  BY DEF Create
<1> QED
  BY <1>1, NullTypes, OpenedState, OpeningKeepsInv, NullAssumption DEF Create

\* Help before login keeps the invariant.
LEMMA HelpKeepsInv ==
  ASSUME SubmissionInv, TypeOK', NEW request \in RequestIds,
         NEW injury \in ReportedStatus, NEW drivable \in ReportedStatus,
         Help(request, injury, drivable)
  PROVE  SubmissionInv'
<1> DEFINE state == Plan(InitialState(PreauthFacts(injury, drivable)))
<1>1. PICK c \in Conversations :
        /\ ~Created(c)
        /\ conv' = [conv EXCEPT ![c] = [owner |-> "preauth", state |-> state]]
        /\ UNCHANGED <<actions, claims, outbox>>
  BY DEF Help
<1>2. state.version = 1 /\ state.receipt = 0
  BY PreauthFactsType, OpenedState
<1> HIDE DEF state
<1> QED
  BY <1>1, <1>2, OpeningKeepsInv DEF NoOwner

\* An intent's conversation already has the customer who attaches it.
LEMMA AttachKeepsInv ==
  ASSUME SubmissionInv, TypeOK', NEW owner \in Customers, NEW session \in helpSessions,
         Attach(owner, session)
  PROVE  SubmissionInv'
<1> DEFINE c == session.conv
<1>1. c \in Conversations /\ conv \in [Conversations -> Conversation]
  BY DEF SubmissionInv, TypeOK
<1>2. /\ conv'[c].owner = owner /\ conv'[c].state = conv[c].state
      /\ \A e \in Conversations \ {c} : conv'[e] = conv[e]
  BY <1>1 DEF Attach, Conversation
<1>3. UNCHANGED <<actions, claims, outbox>> /\ conv[c].owner \in {"preauth", owner}
  BY DEF Attach
<1> HIDE DEF c
<1>4. actions[c].status # "none" => conv[c].owner = owner
  BY <1>1, <1>3, NullAssumption DEF SubmissionInv, IntentsAreOwned
<1>5. VersionsAreReal'
  BY <1>1, <1>2, <1>3 DEF SubmissionInv, VersionsAreReal, Created, NoOwner
<1>6. IntentsAreDistinct' /\ IntentsAreOwned' /\ ConfirmationsHaveIntents'
  BY <1>1, <1>2, <1>3 DEF SubmissionInv, IntentsAreDistinct, IntentsAreOwned, ConfirmationsHaveIntents
<1>7. ClaimMatchesIntent'
  <2> SUFFICES ASSUME NEW a \in ActionIds, Filed(claims, a)
               PROVE  \E d \in Conversations :
                        /\ actions[d].id = a
                        /\ claims[a] = ClaimFor(conv'[d].owner, actions[d].draft)
    BY <1>3 DEF ClaimMatchesIntent, Filed
  <2>1. PICK d \in Conversations :
          actions[d].id = a /\ claims[a] = ClaimFor(conv[d].owner, actions[d].draft)
    BY DEF SubmissionInv, ClaimMatchesIntent
  <2>2. actions[d].status # "none"
    BY <2>1, NullAssumption DEF SubmissionInv, IntentsAreOwned
  <2>3. conv'[d].owner = conv[d].owner
    BY <1>2, <1>4, <2>2
  <2> QED
    BY <2>1, <2>3
<1>8. ReceiptsAreFiled'
  BY <1>1, <1>2, <1>3 DEF SubmissionInv, ReceiptsAreFiled, Filed
<1> QED
  BY <1>5, <1>6, <1>7, <1>8 DEF SubmissionInv

\* An accepted task of a conversation with the intent it needs.
LEMMA AcceptKeepsIntents ==
  ASSUME SubmissionInv, NEW c \in Conversations, NEW kind, NEW message, NEW input,
         Accept(c, kind, message, input),
         kind = "confirmation" => actions'[c].status # "none",
         \A e \in Conversations : actions[e].status # "none" => actions'[e].status # "none"
  PROVE  ConfirmationsHaveIntents'
<1> DEFINE d == [conv |-> c, kind |-> kind, message |-> message,
                 version |-> conv[c].state.version, input |-> input]
<1>1. outbox \in Seq(Delivery) /\ outbox' = Append(outbox, d)
  BY DEF SubmissionInv, TypeOK, Accept
<1> SUFFICES ASSUME NEW i \in 1..Len(outbox'), outbox'[i].kind = "confirmation"
             PROVE  actions'[outbox'[i].conv].status # "none"
  BY DEF ConfirmationsHaveIntents
<1>2. CASE i = Len(outbox) + 1
  <2>1. outbox'[i] = d
    BY <1>1, <1>2
  <2> QED
    BY <2>1
<1>3. CASE i # Len(outbox) + 1
  <2>1. i \in 1..Len(outbox) /\ outbox'[i] = outbox[i] /\ outbox[i] \in Delivery
    BY <1>1, <1>3
  <2>2. outbox[i].conv \in Conversations
    BY <2>1 DEF Delivery
  <2> QED
    BY <2>1, <2>2 DEF SubmissionInv, ConfirmationsHaveIntents
<1> QED
  BY <1>2, <1>3

\* Accepting a message keeps the invariant.
LEMMA EnqueueMessageKeepsInv ==
  ASSUME SubmissionInv, TypeOK', NEW owner, NEW c \in Conversations, NEW m, NEW input,
         EnqueueMessage(owner, c, m, input)
  PROVE  SubmissionInv'
<1>1. UNCHANGED <<conv, actions, claims>> /\ Accept(c, "message", m, input)
  BY DEF EnqueueMessage
<1>2. ConfirmationsHaveIntents'
  BY <1>1, AcceptKeepsIntents
<1>3. VersionsAreReal' /\ IntentsAreDistinct' /\ IntentsAreOwned'
  BY <1>1 DEF SubmissionInv, VersionsAreReal, Created, IntentsAreDistinct, IntentsAreOwned
<1>4. ClaimMatchesIntent' /\ ReceiptsAreFiled'
  BY <1>1 DEF SubmissionInv, ClaimMatchesIntent, ReceiptsAreFiled, Filed
<1> QED
  BY <1>2, <1>3, <1>4 DEF SubmissionInv

\* A confirmation leaves a new intent for a conversation without one, under an
\* id nobody uses, or the intent that is there.
LEMMA ConfirmationRow ==
  ASSUME SubmissionInv, NEW owner \in Customers, NEW c \in Conversations,
         EnqueueConfirmation(owner, c)
  PROVE  \E row :
           /\ actions' = [actions EXCEPT ![c] = row]
           /\ \/ row = actions[c] /\ actions[c].status # "none"
              \/ /\ actions[c].status = "none"
                 /\ row.id \in ActionIds
                 /\ ~Filed(claims, row.id)
                 /\ \A d \in Conversations : actions[d].id # row.id
                 /\ row.status = "pending"
                 /\ row.draft = Draft(c, conv[c].state)
<1>1. PICK row \in Prepared(actions, claims, c, Draft(c, conv[c].state)) :
        actions' = [actions EXCEPT ![c] = row]
  BY DEF EnqueueConfirmation
<1>2. CASE actions[c].status = "none"
  BY <1>1, <1>2 DEF Prepared
<1>3. CASE actions[c].status # "none"
  BY <1>1, <1>3 DEF Prepared
<1> QED
  BY <1>1, <1>2, <1>3

\* Accepting a confirmation keeps the invariant: its intent is new, or the one
\* that is there.
LEMMA EnqueueConfirmationKeepsInv ==
  ASSUME SubmissionInv, TypeOK', NEW owner \in Customers, NEW c \in Conversations,
         EnqueueConfirmation(owner, c)
  PROVE  SubmissionInv'
<1>1. PICK row :
        /\ actions' = [actions EXCEPT ![c] = row]
        /\ \/ row = actions[c] /\ actions[c].status # "none"
           \/ /\ actions[c].status = "none"
              /\ row.id \in ActionIds
              /\ ~Filed(claims, row.id)
              /\ \A d \in Conversations : actions[d].id # row.id
              /\ row.status = "pending"
              /\ row.draft = Draft(c, conv[c].state)
  BY ConfirmationRow
<1>2. /\ conv' = conv /\ claims' = claims
      /\ conv[c].owner = owner
      /\ Accept(c, "confirmation", NoMessage, NoInput)
  BY DEF EnqueueConfirmation
<1>3. /\ actions'[c] = row
      /\ \A e \in Conversations \ {c} : actions'[e] = actions[e]
  BY <1>1 DEF SubmissionInv, TypeOK
<1>4. conv[c].state.version >= 1
  BY <1>2, NullAssumption DEF SubmissionInv, VersionsAreReal, Created
<1>5. VersionsAreReal'
  BY <1>2 DEF SubmissionInv, VersionsAreReal, Created
<1>6. IntentsAreDistinct'
  BY <1>1, <1>3 DEF SubmissionInv, IntentsAreDistinct
<1>7. IntentsAreOwned'
  BY <1>1, <1>2, <1>3, <1>4, NullAssumption DEF SubmissionInv, IntentsAreOwned, Draft
<1>8. ClaimMatchesIntent'
  <2> SUFFICES ASSUME NEW a \in ActionIds, Filed(claims, a)
               PROVE  \E d \in Conversations :
                        /\ actions'[d].id = a
                        /\ claims[a] = ClaimFor(conv[d].owner, actions'[d].draft)
    BY <1>2 DEF ClaimMatchesIntent, Filed
  <2>1. PICK d \in Conversations :
          actions[d].id = a /\ claims[a] = ClaimFor(conv[d].owner, actions[d].draft)
    BY DEF SubmissionInv, ClaimMatchesIntent
  <2>2. actions[d].status # "none"
    BY <2>1, NullAssumption DEF SubmissionInv, IntentsAreOwned
  <2>3. actions'[d] = actions[d]
    BY <1>1, <1>3, <2>2
  <2> QED
    BY <2>1, <2>3
<1>9. ReceiptsAreFiled'
  BY <1>1, <1>2, <1>3 DEF SubmissionInv, ReceiptsAreFiled, Filed
<1>10. ConfirmationsHaveIntents'
  BY <1>1, <1>2, <1>3, AcceptKeepsIntents
<1> QED
  BY <1>5, <1>6, <1>7, <1>8, <1>9, <1>10 DEF SubmissionInv

-----------------------------------------------------------------------------
(* The theorems. *)

\* The first state satisfies the invariant: there is nothing to protect.
LEMMA InitSubmission == Init => SubmissionInv
<1> SUFFICES ASSUME Init PROVE SubmissionInv
  OBVIOUS
<1>1. TypeOK
  BY InitType
<1>2. VersionsAreReal
  BY DEF Init, VersionsAreReal, Created
<1>3. \A c \in Conversations : actions[c] = NoIntent(c) /\ conv[c].state.receipt = 0
  <2>1. [InitialState(NoFacts) EXCEPT !.version = 0].receipt = 0
    BY DEF InitialState
  <2> QED
    BY <2>1 DEF Init
<1>4. \A c \in Conversations : /\ actions[c].id = NoAction
                              /\ actions[c].status = "none"
                              /\ actions[c].draft.intake = c
  <2> SUFFICES ASSUME NEW c \in Conversations
               PROVE  /\ actions[c].id = NoAction
                      /\ actions[c].status = "none"
                      /\ actions[c].draft.intake = c
    OBVIOUS
  <2>1. actions[c] = [id |-> NoAction, status |-> "none", draft |-> NoDraft(c), receipt |-> 0]
    BY <1>3 DEF NoIntent
  <2>2. NoDraft(c).intake = c
    BY DEF NoDraft
  <2> QED
    BY <2>1, <2>2
<1>5. IntentsAreDistinct /\ IntentsAreOwned /\ ReceiptsAreFiled
  BY <1>3, <1>4 DEF IntentsAreDistinct, IntentsAreOwned, ReceiptsAreFiled
<1>6. ClaimMatchesIntent /\ ConfirmationsHaveIntents
  BY DEF Init, ClaimMatchesIntent, Filed, ConfirmationsHaveIntents
<1> QED
  BY <1>1, <1>2, <1>5, <1>6 DEF SubmissionInv

\* Every step keeps the invariant.
LEMMA NextSubmission == SubmissionInv /\ [Next]_vars => SubmissionInv'
<1> SUFFICES ASSUME SubmissionInv, [Next]_vars PROVE SubmissionInv'
  OBVIOUS
<1>1. TypeOK'
  BY NextType DEF SubmissionInv
<1>2. CASE CustomerNext
  BY <1>1, <1>2, CreateKeepsInv, AttachKeepsInv, HelpKeepsInv, EnqueueMessageKeepsInv,
     EnqueueConfirmationKeepsInv DEF CustomerNext
<1>3. CASE EmployeeNext
  BY <1>1, <1>3, DecideProgress, ProgressKeepsInv DEF EmployeeNext
<1>4. CASE WorkerNext
  BY <1>1, <1>4, WorkOnceProgress, WorkCrashProgress, ReconcileProgress,
     ReconcileCrashProgress, ProgressKeepsInv DEF WorkerNext, Reconcile
<1>5. CASE UNCHANGED vars
  BY <1>1, <1>5 DEF vars, SubmissionInv, VersionsAreReal, Created, IntentsAreDistinct,
     IntentsAreOwned, ClaimMatchesIntent, Filed, ReceiptsAreFiled, ConfirmationsHaveIntents
<1> QED
  BY <1>2, <1>3, <1>4, <1>5 DEF Next

\* The inductive invariant holds in every reachable state.
THEOREM SubmissionInvariant == Spec => []SubmissionInv
<1>1. Init => SubmissionInv
  BY InitSubmission
<1>2. SubmissionInv /\ [Next]_vars => SubmissionInv'
  BY NextSubmission
<1> QED
  BY <1>1, <1>2, PTL DEF Spec

\* Two claims of one conversation are the claim of its only intent.
LEMMA InvOneClaim == SubmissionInv => OneClaimPerConversation
<1> SUFFICES ASSUME SubmissionInv,
                    NEW a \in ActionIds, NEW b \in ActionIds,
                    Filed(claims, a), Filed(claims, b), claims[a].intake = claims[b].intake
             PROVE  a = b
  BY DEF OneClaimPerConversation
<1>1. PICK c \in Conversations :
        actions[c].id = a /\ claims[a] = ClaimFor(conv[c].owner, actions[c].draft)
  BY DEF SubmissionInv, ClaimMatchesIntent
<1>2. PICK d \in Conversations :
        actions[d].id = b /\ claims[b] = ClaimFor(conv[d].owner, actions[d].draft)
  BY DEF SubmissionInv, ClaimMatchesIntent
<1>3. claims[a].intake = c /\ claims[b].intake = d
  BY <1>1, <1>2 DEF SubmissionInv, IntentsAreOwned, ClaimFor
<1> QED
  BY <1>1, <1>2, <1>3

\* Whatever is lost or repeated between the application and the core, a
\* conversation has at most one claim there.
THEOREM AtMostOneClaim == Spec => []OneClaimPerConversation
BY SubmissionInvariant, InvOneClaim, PTL

\* A filed claim is always the owner's, for the draft the customer confirmed.
THEOREM ClaimsMatchIntents == Spec => []ClaimMatchesIntent
<1>1. SubmissionInv => ClaimMatchesIntent
  BY DEF SubmissionInv
<1> QED
  BY <1>1, SubmissionInvariant, PTL

\* A receipt the customer sees is always one of a claim the core has.
THEOREM ReceiptsAreBacked == Spec => []ReceiptIsBacked
<1>1. SubmissionInv => ReceiptIsBacked
  BY DEF SubmissionInv, ReceiptsAreFiled, ReceiptIsBacked
<1> QED
  BY <1>1, SubmissionInvariant, PTL

-----------------------------------------------------------------------------
(* Refinement. *)

FiledFor(c) == actions[c].status # "none" /\ Filed(claims, actions[c].id)

Shape(c) ==
  [intents |-> IF actions[c].status = "none" THEN {} ELSE {actions[c].draft},
   claims |-> IF FiledFor(c) THEN {[id |-> actions[c].id, draft |-> actions[c].draft]} ELSE {},
   receipt |-> IF actions[c].status = "confirmed" THEN actions[c].draft.version ELSE 0]

ShapesHold ==
  \A c \in Conversations :
    /\ SubmissionOf(c) = Shape(c)
    /\ actions[c].status = "confirmed" => FiledFor(c)

\* The claims filed for a conversation are the claim of its intent, if any.
LEMMA ClaimsOfIntent ==
  ASSUME SubmissionInv, NEW c \in Conversations
  PROVE  ClaimsOf(c) = IF FiledFor(c)
                       THEN {[id |-> actions[c].id, draft |-> actions[c].draft]} ELSE {}
<1> DEFINE entry(a) == [id |-> a, draft |-> [intake |-> c, version |-> claims[a].version,
                                             facts |-> claims[a].facts]]
           mine == {a \in ActionIds : claims[a].intake = c}
<1>1. ASSUME NEW a \in mine
      PROVE  /\ a = actions[c].id
             /\ FiledFor(c)
             /\ claims[a] = ClaimFor(conv[c].owner, actions[c].draft)
  <2>1. Filed(claims, a)
    BY <1>1, NullAssumption DEF Filed, NoClaim
  <2>2. PICK d \in Conversations :
          actions[d].id = a /\ claims[a] = ClaimFor(conv[d].owner, actions[d].draft)
    BY <1>1, <2>1 DEF SubmissionInv, ClaimMatchesIntent
  <2>3. claims[a].intake = d
    BY <2>2 DEF ClaimFor, SubmissionInv, IntentsAreOwned
  <2>4. d = c
    BY <1>1, <2>3
  <2>5. actions[c].status # "none"
    BY <1>1, <2>2, <2>4, NullAssumption DEF SubmissionInv, IntentsAreOwned
  <2> QED
    BY <2>1, <2>2, <2>4, <2>5 DEF FiledFor
<1>2. ASSUME FiledFor(c)
      PROVE  /\ actions[c].id \in mine
             /\ entry(actions[c].id) = [id |-> actions[c].id, draft |-> actions[c].draft]
  <2>1. /\ actions[c].id \in ActionIds
        /\ claims[actions[c].id] = ClaimFor(conv[c].owner, actions[c].draft)
    BY <1>2, ClaimIsOfIntent DEF FiledFor
  <2>2. actions[c].draft \in DraftSet /\ actions[c].draft.intake = c
    BY DEF SubmissionInv, IntentsAreOwned, TypeOK, Action
  <2>3. actions[c].draft = [intake |-> c, version |-> actions[c].draft.version,
                            facts |-> actions[c].draft.facts]
    BY <2>2 DEF DraftSet
  <2> QED
    BY <2>1, <2>2, <2>3 DEF ClaimFor
<1>3. ClaimsOf(c) = {entry(a) : a \in mine}
  BY DEF ClaimsOf
<1> HIDE DEF entry, mine
<1> QED
  BY <1>1, <1>2, <1>3

\* The invariant fixes the shape of every submission.
LEMMA InvShapes == SubmissionInv => ShapesHold
<1> SUFFICES ASSUME SubmissionInv, NEW c \in Conversations
             PROVE  /\ SubmissionOf(c) = Shape(c)
                    /\ actions[c].status = "confirmed" => FiledFor(c)
  BY DEF ShapesHold
<1>1. ClaimsOf(c) = IF FiledFor(c)
                    THEN {[id |-> actions[c].id, draft |-> actions[c].draft]} ELSE {}
  BY ClaimsOfIntent
<1>2. actions[c].status = "confirmed" => FiledFor(c)
  BY DEF SubmissionInv, ReceiptsAreFiled, FiledFor
<1>3. conv[c].state.receipt = IF actions[c].status = "confirmed"
                              THEN actions[c].draft.version ELSE 0
  <2>1. CASE actions[c].status = "confirmed"
    <3>1. conv[c].state.receipt = claims[actions[c].id].version
      BY <2>1 DEF SubmissionInv, ReceiptsAreFiled
    <3>2. claims[actions[c].id] = ClaimFor(conv[c].owner, actions[c].draft)
      BY <1>2, <2>1, ClaimIsOfIntent DEF FiledFor
    <3> QED
      BY <2>1, <3>1, <3>2 DEF ClaimFor
  <2>2. CASE actions[c].status # "confirmed"
    BY <2>2 DEF SubmissionInv, ReceiptsAreFiled
  <2> QED
    BY <2>1, <2>2
<1> QED
  BY <1>1, <1>2, <1>3 DEF SubmissionOf, Shape

\* So it does after a step that keeps it.
LEMMA InvShapesNext == SubmissionInv' => ShapesHold'
BY InvShapes, PTL

-----------------------------------------------------------------------------
(* Steps. *)

Advance(c) ==
  \/ /\ actions[c].status = "none"
     /\ ~FiledFor(c)'
     /\ actions'[c].status # "confirmed"
  \/ /\ actions[c].status # "none"
     /\ actions'[c].status # "none"
     /\ actions'[c].id = actions[c].id
     /\ actions'[c].draft = actions[c].draft
     /\ FiledFor(c) => FiledFor(c)'
     /\ actions[c].status = "confirmed" => actions'[c].status = "confirmed"

\* A step that leaves intents and claims alone.
LEMMA IdleAdvance ==
  ASSUME UNCHANGED <<actions, claims>>, NEW c
  PROVE  Advance(c)
BY DEF Advance, FiledFor, Filed

\* Progress raises flags only.
LEMMA ProgressAdvance ==
  ASSUME SubmissionInv, SubmissionInv', Progress, NEW c \in Conversations
  PROVE  Advance(c)
<1>1. /\ actions'[c].id = actions[c].id
      /\ actions'[c].draft = actions[c].draft
      /\ actions'[c].status = "none" <=> actions[c].status = "none"
  BY DEF Progress, IntentsStay
<1>2. FiledFor(c) => FiledFor(c)'
  <2> SUFFICES ASSUME FiledFor(c) PROVE FiledFor(c)'
    OBVIOUS
  <2>1. actions[c].status # "none" /\ actions[c].id \in ActionIds /\ Filed(claims, actions[c].id)
    BY ClaimIsOfIntent DEF FiledFor
  <2>2. claims'[actions[c].id] = claims[actions[c].id]
    BY <2>1 DEF Progress, ClaimsGrow
  <2> QED
    BY <1>1, <2>1, <2>2 DEF FiledFor, Filed
<1>3. actions[c].status = "confirmed" => actions'[c].status = "confirmed"
  BY DEF Progress, SameReceipt, NewReceipt
<1> QED
  BY <1>1, <1>2, <1>3 DEF Advance, FiledFor

\* A confirmation records an intent that is not filed yet.
LEMMA ConfirmationAdvance ==
  ASSUME SubmissionInv, NEW owner \in Customers, NEW d \in Conversations,
         EnqueueConfirmation(owner, d), NEW c \in Conversations
  PROVE  Advance(c)
<1>1. PICK row :
        /\ actions' = [actions EXCEPT ![d] = row]
        /\ \/ row = actions[d] /\ actions[d].status # "none"
           \/ /\ actions[d].status = "none"
              /\ row.id \in ActionIds
              /\ ~Filed(claims, row.id)
              /\ \A e \in Conversations : actions[e].id # row.id
              /\ row.status = "pending"
              /\ row.draft = Draft(d, conv[d].state)
  BY ConfirmationRow
<1>2. claims' = claims
  BY DEF EnqueueConfirmation
<1>3. actions \in [Conversations -> Action]
  BY DEF SubmissionInv, TypeOK
<1>4. CASE c = d
  BY <1>1, <1>2, <1>3, <1>4 DEF Advance, FiledFor, Filed
<1>5. CASE c # d
  BY <1>1, <1>2, <1>3, <1>5 DEF Advance, FiledFor, Filed
<1> QED
  BY <1>4, <1>5

\* Every step raises flags only.
LEMMA NextAdvance ==
  ASSUME SubmissionInv, SubmissionInv', [Next]_vars, NEW c \in Conversations
  PROVE  Advance(c)
<1>1. CASE CustomerNext
  BY <1>1, IdleAdvance, ConfirmationAdvance
     DEF CustomerNext, Create, Attach, Help, EnqueueMessage
<1>2. CASE EmployeeNext
  BY <1>2, IdleAdvance DEF EmployeeNext, Decide, DecideCrash
<1>3. CASE WorkerNext
  BY <1>3, WorkOnceProgress, WorkCrashProgress, ReconcileProgress, ReconcileCrashProgress,
     ProgressAdvance DEF WorkerNext, Reconcile
<1>4. CASE UNCHANGED vars
  BY <1>4, IdleAdvance DEF vars
<1> QED
  BY <1>1, <1>2, <1>3, <1>4 DEF Next

\* Raising flags is a step of Submission.
LEMMA AdvanceIsStep ==
  ASSUME ShapesHold, ShapesHold', NEW c \in Conversations, Advance(c)
  PROVE  \/ SubmissionOf(c)' = SubmissionOf(c)
         \/ Promise!Intend(c)
         \/ Promise!File(c)
         \/ Promise!Acknowledge(c)
         \/ Promise!FileAndAcknowledge(c)
<1> DEFINE old == SubmissionOf(c)
           new == SubmissionOf(c)'
           draft == actions[c].draft
           claim == [id |-> actions[c].id, draft |-> draft]
<1>1. old = Shape(c) /\ new = Shape(c)'
  BY DEF ShapesHold
<1>2. actions'[c].status = "confirmed" => FiledFor(c)'
  BY DEF ShapesHold
<1>3. actions[c].status = "confirmed" => FiledFor(c)
  BY DEF ShapesHold
<1> HIDE DEF old, new
<1>4. CASE actions[c].status = "none"
  <2>1. old = [intents |-> {}, claims |-> {}, receipt |-> 0]
    BY <1>1, <1>4 DEF Shape, FiledFor
  <2>2. CASE actions'[c].status = "none"
    <3>1. new = [intents |-> {}, claims |-> {}, receipt |-> 0]
      BY <1>1, <2>2 DEF Shape, FiledFor
    <3> QED
      BY <2>1, <3>1 DEF old, new
  <2>3. CASE actions'[c].status # "none"
    <3>1. new = [intents |-> {actions'[c].draft}, claims |-> {}, receipt |-> 0]
      BY <1>1, <1>4, <2>3 DEF Shape, Advance
    <3>2. Promise!Intend(c)
      BY <2>1, <3>1 DEF Promise!Intend, old, new
    <3> QED
      BY <3>2
  <2> QED
    BY <2>2, <2>3
<1>5. CASE actions[c].status # "none"
  <2>1. /\ actions'[c].status # "none"
        /\ actions'[c].id = actions[c].id
        /\ actions'[c].draft = draft
        /\ FiledFor(c) => FiledFor(c)'
        /\ actions[c].status = "confirmed" => actions'[c].status = "confirmed"
    BY <1>5 DEF Advance
  <2>2. old = [intents |-> {draft},
               claims |-> IF FiledFor(c) THEN {claim} ELSE {},
               receipt |-> IF actions[c].status = "confirmed" THEN draft.version ELSE 0]
    BY <1>1, <1>5 DEF Shape
  <2>3. new = [intents |-> {draft},
               claims |-> IF FiledFor(c)' THEN {claim} ELSE {},
               receipt |-> IF actions'[c].status = "confirmed" THEN draft.version ELSE 0]
    BY <1>1, <2>1 DEF Shape
  <2>4. CASE /\ FiledFor(c) <=> FiledFor(c)'
             /\ actions[c].status = "confirmed" <=> actions'[c].status = "confirmed"
    BY <2>2, <2>3, <2>4 DEF old, new
  <2>5. CASE FiledFor(c) /\ actions[c].status # "confirmed" /\ actions'[c].status = "confirmed"
    <3>1. /\ old = [intents |-> {draft}, claims |-> {claim}, receipt |-> 0]
          /\ new = [intents |-> {draft}, claims |-> {claim}, receipt |-> draft.version]
      BY <2>1, <2>2, <2>3, <2>5
    <3>2. /\ old.receipt = 0
          /\ claim \in old.claims
          /\ new = [old EXCEPT !.receipt = claim.draft.version]
      BY <3>1
    <3> HIDE DEF claim
    <3>3. Promise!Acknowledge(c)
      BY <3>2 DEF Promise!Acknowledge, old, new
    <3> QED
      BY <3>3
  <2>6. CASE ~FiledFor(c) /\ FiledFor(c)' /\ actions'[c].status # "confirmed"
    <3>1. /\ old = [intents |-> {draft}, claims |-> {}, receipt |-> 0]
          /\ new = [intents |-> {draft}, claims |-> {claim}, receipt |-> 0]
      BY <1>3, <2>2, <2>3, <2>6
    <3>2. /\ old.claims = {}
          /\ claim \in new.claims
          /\ claim.draft \in old.intents
          /\ new = [old EXCEPT !.claims = {claim}]
      BY <3>1
    <3> HIDE DEF claim
    <3>3. Promise!File(c)
      BY <3>2 DEF Promise!File, old, new
    <3> QED
      BY <3>3
  <2>7. CASE ~FiledFor(c) /\ FiledFor(c)' /\ actions'[c].status = "confirmed"
    <3>1. /\ old = [intents |-> {draft}, claims |-> {}, receipt |-> 0]
          /\ new = [intents |-> {draft}, claims |-> {claim}, receipt |-> draft.version]
      BY <1>3, <2>2, <2>3, <2>7
    <3>2. /\ old.claims = {}
          /\ claim \in new.claims
          /\ claim.draft \in old.intents
          /\ new = [intents |-> old.intents, claims |-> {claim}, receipt |-> claim.draft.version]
      BY <3>1
    <3> HIDE DEF claim
    <3>3. Promise!FileAndAcknowledge(c)
      BY <3>2 DEF Promise!FileAndAcknowledge, old, new
    <3> QED
      BY <3>3
  <2> QED
    BY <1>2, <1>3, <2>1, <2>4, <2>5, <2>6, <2>7
<1> QED
  BY <1>4, <1>5

-----------------------------------------------------------------------------
\* The journey starts as Submission does: nothing is intended.
LEMMA InitRefines == Init => Promise!Init
<1> SUFFICES ASSUME Init PROVE Promise!Init
  OBVIOUS
<1>1. ShapesHold
  BY InitSubmission, InvShapes
<1>2. ASSUME NEW c \in Conversations
      PROVE  SubmissionOf(c) = [intents |-> {}, claims |-> {}, receipt |-> 0]
  <2>1. actions[c].status = "none"
    BY DEF Init, NoIntent
  <2> QED
    BY <1>1, <2>1 DEF ShapesHold, Shape, FiledFor
<1> QED
  BY <1>2 DEF Promise!Init

\* Every step of the journey is one of Submission, or changes nothing there.
LEMMA NextRefines == SubmissionInv /\ SubmissionInv' /\ [Next]_vars => Promise!Next
<1> SUFFICES ASSUME SubmissionInv, SubmissionInv', [Next]_vars PROVE Promise!Next
  OBVIOUS
<1>1. ShapesHold /\ ShapesHold'
  BY InvShapes, InvShapesNext
<1>2. ASSUME NEW c \in Conversations
      PROVE  \/ SubmissionOf(c)' = SubmissionOf(c)
             \/ Promise!Intend(c)
             \/ Promise!File(c)
             \/ Promise!Acknowledge(c)
             \/ Promise!FileAndAcknowledge(c)
  BY <1>1, NextAdvance, AdvanceIsStep
<1> QED
  BY <1>2 DEF Promise!Next

\* Tasks, lost replies, crashes and reconciliation together file one claim
\* for one confirmed draft and show its receipt, as Submission promises.
THEOREM JourneyImplementsSubmission == Spec => ImplementsSubmission
<1>1. Init => Promise!Init
  BY InitRefines
<1>2. SubmissionInv /\ SubmissionInv' /\ [Next]_vars => Promise!Next
  BY NextRefines
<1> QED
  BY <1>1, <1>2, SubmissionInvariant, PTL DEF Spec, ImplementsSubmission, Promise!Spec
=============================================================================
