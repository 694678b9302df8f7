------------------------ MODULE JourneyReviewProofs ------------------------
(***************************************************************************)
(* What employees decide about, what the customer is told meanwhile and    *)
(* that no accepted task fails, proved for any number of customers,        *)
(* conversations, messages, decisions and action ids.                      *)
(*                                                                         *)
(* The worker changes the state and the board of a conversation together,  *)
(* in steps between which the properties do not hold.  What holds in       *)
(* between is Sound; a transaction ends with FollowUp, which makes the     *)
(* reviews Current again.  The desk of a conversation is both.             *)
(***************************************************************************)
EXTENDS JourneySafety

-----------------------------------------------------------------------------
(* The inductive invariant: the desk. *)

There(row) == row.status # "absent"
Live(row) == row.status \in Decisions \cup {"pending"}

\* No review is ahead of the draft, none is without its reason, and one of
\* the current version is not stale.
RowsFit(work, status) ==
  LET state == work.state
      board == work.board
      current(k) == There(board[k]) /\ board[k].version = state.version
  IN  /\ \A k \in Kinds : board[k].version <= state.version
      /\ board["service"].status = "pending" => board["service"].version = state.version
      /\ There(board["urgency"]) => state.priority = "urgent"
      /\ current("urgency") => Live(board["urgency"])
      /\ There(board["triage"]) => state.receipt # 0
      /\ current("triage") =>
           Live(board["triage"]) /\ board["triage"].team = Team(state.priority)
      /\ There(board["submission"]) => status \in {"unknown", "confirmed"}
      /\ board["submission"].status = "pending" => status = "unknown"
      /\ current("submission") /\ status = "unknown" => board["submission"].status = "pending"

Floor(state) ==
  state.priority = "urgent" /\ state.outcome.decision \in {"accept", "amend"}
    => state.outcome.team = UrgentTeam

Sound(work, status) ==
  /\ RowsFit(work, status)
  /\ Floor(work.state)
  /\ work.state.receipt # 0 <=> status = "confirmed"

\* The core may have the claim.
Submitted(status) == status \in {"unknown", "confirmed"}

\* What the planning graph leaves, and only a change of the facts disturbs.
Planned(state, status) ==
  /\ Triggered(state.facts) => state.priority = "urgent"
  /\ state.receipt # 0 => state.team = Team(state.priority)
  /\ status # "unknown" =>
       (state.stage = "awaiting_confirmation" <=>
          Missing(state.facts) = {} /\ status # "confirmed")
  /\ state.stage \in {"awaiting_review", "pending_submission"} => Submitted(status)

\* What a draft that has just moved on has: nothing that was decided of it.
Fresh(work) ==
  /\ work.state.outcome = NoOutcome
  /\ There(work.board["triage"]) => work.board["triage"].version < work.state.version

\* What FollowUp leaves: every review there is a reason for, up to date.
Current(work, status) ==
  LET current(k) == There(work.board[k]) /\ work.board[k].version = work.state.version
  IN  /\ work.state.priority = "urgent" => current("urgency")
      /\ work.state.receipt # 0 => current("triage")
      /\ status = "unknown" => current("submission") /\ work.state.stage = "pending_submission"

Desk(work, status) == Sound(work, status) /\ Planned(work.state, status) /\ Current(work, status)

DesksAreInOrder == \A c \in Conversations : Desk(Work(c), actions[c].status)

-----------------------------------------------------------------------------
(* The inductive invariant: decisions and tasks. *)

\* A decision was about an earlier version of the review, or the review is
\* no longer pending.
DecisionsArePast ==
  \A v \in decisions :
    LET row == reviews[v.conv][v.kind]
    IN  /\ There(row)
        /\ v.version <= row.version
        /\ v.version = row.version => row.status # "pending"

NothingUnopened == \A c \in Conversations : ~Created(c) => reviews[c] = EmptyBoard

\* Only a customer's conversation has references, and they are the customer's.
FactsAreValid ==
  \A c \in Conversations :
    LET facts == conv[c].state.facts
    IN  /\ ValidDraft(conv[c].owner, facts)
        /\ conv[c].owner \notin Customers =>
             facts["policy_ref"].value = Absent /\ facts["vehicle_ref"].value = Absent

\* An intent is for a draft the core accepts, and its confirmation is a task.
IntentsAreValid ==
  \A c \in Conversations : actions[c].status # "none" =>
    /\ ValidDraft(conv[c].owner, actions[c].draft.facts)
    /\ \E t \in tasks : /\ t.conv = c /\ t.kind = "confirmation"
                        /\ t.version = actions[c].draft.version

IsDeliveryOf(d, t) ==
  t.conv = d.conv /\ t.kind = d.kind /\ t.message = d.message /\ t.version = d.version

\* The worker may take the delivery: nothing changed since it was accepted.
Acceptable(d) ==
  /\ d.version = conv[d.conv].state.version
  /\ conv[d.conv].owner \in Customers
  /\ d.kind = "confirmation" => actions[d.conv].status = "pending"
  /\ d.kind = "message" =>
       /\ d.input \in MessageInputs
       /\ d.input.intent # "auto" => Accessible(conv[d.conv].owner, d.input)
       /\ d.input.intent = "intake" =>
            ValidDraft(conv[d.conv].owner,
                       UpdateFacts(conv[d.conv].state.facts, d.input.reports, d.message))

DeliveriesAreAcceptable ==
  \A i \in 1..Len(outbox) :
    /\ Acceptable(outbox[i])
    /\ \E t \in tasks : IsDeliveryOf(outbox[i], t) /\ t.status = "queued"
    /\ \A j \in 1..Len(outbox) : outbox[i].conv = outbox[j].conv => i = j

\* Whoever waits for a review has one pending, or a submission to settle.
WaitingTasksAreFollowed ==
  \A t \in tasks : t.status = "awaiting_review" =>
    /\ t.awaits = "service" => reviews[t.conv]["service"].status = "pending"
    /\ t.kind = "confirmation" =>
         \/ actions[t.conv].status = "unknown"
         \/ reviews[t.conv]["triage"].status = "pending"
    /\ t.kind = "message" /\ t.awaits = "none" => Submitted(actions[t.conv].status)

ReviewInv ==
  /\ SubmissionInv
  /\ DesksAreInOrder
  /\ DecisionsArePast
  /\ CheckpointMatchesDecision
  /\ NothingUnopened
  /\ FactsAreValid
  /\ IntentsAreValid
  /\ DeliveriesAreAcceptable
  /\ AcceptedNeverFails
  /\ WaitingTasksAreFollowed

-----------------------------------------------------------------------------
(* What a step of a transaction may do to its work, besides keeping it sound. *)

\* The submission waits for a triage decision, or for a new proposal.
AwaitsTriage(work) ==
  LET row == work.board["triage"]
  IN  There(row) /\ (row.status = "pending" \/ row.version < work.state.version)

\* Reviews are never taken back, none is reopened at its version, and nobody
\* who waits for one is forgotten.
Continues(work, next) ==
  /\ next \in WorkSet
  /\ next.threads \subseteq work.threads
  /\ \A k \in Kinds : There(work.board[k]) =>
       /\ There(next.board[k])
       /\ work.board[k].version <= next.board[k].version
       /\ next.board[k].version = work.board[k].version /\ next.board[k].status = "pending"
            => work.board[k].status = "pending"
  /\ work.board["service"].status = "pending" => next.board["service"].status = "pending"
  /\ AwaitsTriage(work) => AwaitsTriage(next)

\* The rows of a board are rows, and versions are numbers.
LEMMA BoardRows ==
  ASSUME NEW work \in WorkSet
  PROVE  /\ \A k \in Kinds : work.board[k] \in Review /\ work.board[k].version \in Nat
         /\ work.state.version \in Nat
         /\ work.state \in State /\ work.board \in Board
BY DEF WorkSet, State, Board, Review

LEMMA ContinuesReflexive ==
  ASSUME NEW work \in WorkSet
  PROVE  Continues(work, work)
BY BoardRows DEF Continues

\* The steps compose.
LEMMA ContinuesTransitive ==
  ASSUME NEW a \in WorkSet, NEW b \in WorkSet, NEW c \in WorkSet,
         Continues(a, b), Continues(b, c)
  PROVE  Continues(a, c)
<1>1. \A k \in Kinds : /\ a.board[k].version \in Nat
                       /\ b.board[k].version \in Nat
                       /\ c.board[k].version \in Nat
  BY BoardRows
<1>2. ASSUME NEW k \in Kinds, There(a.board[k])
      PROVE  /\ There(c.board[k])
             /\ a.board[k].version <= c.board[k].version
             /\ c.board[k].version = a.board[k].version /\ c.board[k].status = "pending"
                  => a.board[k].status = "pending"
  BY <1>1, <1>2 DEF Continues
<1> QED
  BY <1>2 DEF Continues

\* A proposal is new, at the current version, or the row of that version.
LEMMA ProposedRow ==
  ASSUME NEW row \in Review, NEW kind, NEW state \in State
  PROVE  LET next == Proposed(row, kind, state)
         IN  \/ /\ There(row) /\ row.version = state.version
                /\ next = row
             \/ /\ ~There(row) \/ row.version # state.version
                /\ next.status = "pending"
                /\ next.version = state.version
                /\ kind = "triage" => next.team = state.team
BY DEF Proposed, There

\* What proposing a review does to the work.
LEMMA UpsertEffect ==
  ASSUME NEW c \in Conversations, NEW work \in WorkSet, NEW kind \in Kinds
  PROVE  LET next == UpsertReview(c, work, kind)
         IN  /\ next \in WorkSet
             /\ next.state = work.state
             /\ next.threads \subseteq work.threads
             /\ next.board[kind] = Proposed(work.board[kind], kind, work.state)
             /\ \A k \in Kinds \ {kind} : next.board[k] = work.board[k]
<1> DEFINE row == Proposed(work.board[kind], kind, work.state)
           board == [work.board EXCEPT ![kind] = row]
           left == IF row.status = "pending" /\ kind # "submission"
                   THEN Restarted(work.threads, c, kind, row.version)
                   ELSE work.threads
           next == UpsertReview(c, work, kind)
<1>1. next \in WorkSet /\ next.state = work.state
  BY UpsertType
<1>2. left \subseteq work.threads
  BY RestartedSubset
<1>3. next = [work EXCEPT !.board = board, !.threads = left]
  BY DEF UpsertReview
<1>4. board[kind] = row /\ \A k \in Kinds \ {kind} : board[k] = work.board[k]
  BY DEF WorkSet, Board
<1> HIDE DEF row, board, left
<1>5. next.board = board /\ next.threads = left
  BY <1>3 DEF WorkSet
<1> HIDE DEF next
<1> QED
  BY <1>1, <1>2, <1>4, <1>5 DEF next, row

LEMMA UpsertContinues ==
  ASSUME NEW c \in Conversations, NEW work \in WorkSet, NEW kind \in Kinds,
         work.board[kind].version <= work.state.version
  PROVE  Continues(work, UpsertReview(c, work, kind))
<1> DEFINE next == UpsertReview(c, work, kind)
<1>1. /\ next \in WorkSet
      /\ next.state = work.state
      /\ next.threads \subseteq work.threads
      /\ next.board[kind] = Proposed(work.board[kind], kind, work.state)
      /\ \A k \in Kinds \ {kind} : next.board[k] = work.board[k]
  BY UpsertEffect
<1>2. \/ next.board[kind] = work.board[kind]
      \/ /\ ~There(work.board[kind]) \/ work.board[kind].version # work.state.version
         /\ next.board[kind].status = "pending"
         /\ next.board[kind].version = work.state.version
  BY <1>1, ProposedRow, BoardRows
<1> HIDE DEF next
<1>3. \A k \in Kinds : work.board[k].version \in Nat /\ work.state.version \in Nat
  BY BoardRows
<1>4. ASSUME NEW k \in Kinds, There(work.board[k])
      PROVE  /\ There(next.board[k])
             /\ work.board[k].version <= next.board[k].version
             /\ next.board[k].version = work.board[k].version /\ next.board[k].status = "pending"
                  => work.board[k].status = "pending"
  BY <1>1, <1>2, <1>3, <1>4 DEF There
<1>5. work.board["service"].status = "pending" => next.board["service"].status = "pending"
  BY <1>1, <1>2 DEF Kinds
<1>6. AwaitsTriage(work) => AwaitsTriage(next)
  BY <1>1, <1>2, <1>3 DEF AwaitsTriage, There, Kinds
<1> QED
  BY <1>1, <1>4, <1>5, <1>6 DEF Continues, next

-----------------------------------------------------------------------------
(* The steps of a transaction keep the work sound. *)

\* A new version keeps a pending service request and makes the rest stale.
LEMMA InvalidatedRows ==
  ASSUME NEW board \in Board, NEW version \in Nat, NEW k \in Kinds
  PROVE  LET row == board[k]
             next == Invalidated(board, version)[k]
         IN  /\ There(row) <=> There(next)
             /\ k = "service" /\ row.status = "pending" =>
                  next.status = "pending" /\ next.version = version
             /\ k = "service" /\ row.status # "pending" => next = row
             /\ k # "service" => next.version = row.version /\ next.status \in {"absent", "stale"}
<1> DEFINE row == board[k]
           next == Invalidated(board, version)[k]
<1>1. row \in Review
  BY DEF Board
<1>2. next = IF k = "service"
             THEN IF row.status = "pending" THEN [row EXCEPT !.version = version] ELSE row
             ELSE IF row.status = "absent" THEN row ELSE [row EXCEPT !.status = "stale"]
  BY DEF Invalidated
<1> HIDE DEF row, next
<1>3. /\ [row EXCEPT !.version = version].status = row.status
      /\ [row EXCEPT !.version = version].version = version
      /\ [row EXCEPT !.status = "stale"].status = "stale"
      /\ [row EXCEPT !.status = "stale"].version = row.version
  BY <1>1 DEF Review
<1>4. CASE k = "service" /\ row.status = "pending"
  BY <1>2, <1>3, <1>4 DEF There, row, next
<1>5. CASE k = "service" /\ row.status # "pending"
  BY <1>2, <1>5 DEF There, row, next
<1>6. CASE k # "service" /\ row.status = "absent"
  BY <1>2, <1>6 DEF There, row, next
<1>7. CASE k # "service" /\ row.status # "absent"
  BY <1>2, <1>3, <1>7 DEF There, row, next
<1> QED
  BY <1>4, <1>5, <1>6, <1>7

\* A draft that moves on: Escalate and RecordFacts begin like this.
LEMMA NewVersionSound ==
  ASSUME NEW work \in WorkSet, NEW status, Sound(work, status), NEW state \in State,
         state.version = work.state.version + 1,
         state.outcome = NoOutcome,
         state.receipt = work.state.receipt,
         work.state.priority = "urgent" => state.priority = "urgent"
  PROVE  LET next == [work EXCEPT !.state = state,
                                  !.board = Invalidated(work.board, state.version)]
         IN  /\ next \in WorkSet /\ next.state = state
             /\ Sound(next, status) /\ Fresh(next) /\ Continues(work, next)
<1> DEFINE next == [work EXCEPT !.state = state,
                                !.board = Invalidated(work.board, state.version)]
<1>1. state.version \in Nat /\ Invalidated(work.board, state.version) \in Board
  BY InvalidatedType DEF State, WorkSet
<1>2. /\ next \in WorkSet
      /\ next.state = state
      /\ next.board = Invalidated(work.board, state.version)
      /\ next.threads = work.threads
  BY <1>1 DEF WorkSet
<1> HIDE DEF next
<1>3. \A k \in Kinds :
        /\ There(work.board[k]) <=> There(next.board[k])
        /\ k = "service" /\ work.board[k].status = "pending" =>
             next.board[k].status = "pending" /\ next.board[k].version = state.version
        /\ k = "service" /\ work.board[k].status # "pending" => next.board[k] = work.board[k]
        /\ k # "service" => /\ next.board[k].version = work.board[k].version
                            /\ next.board[k].status \in {"absent", "stale"}
  BY <1>1, <1>2, InvalidatedRows, BoardRows
<1>4. \A k \in Kinds : /\ work.board[k].version \in Nat /\ next.board[k].version \in Nat
                       /\ work.board[k].version <= work.state.version
                       /\ work.state.version \in Nat
  BY <1>2, BoardRows DEF Sound, RowsFit
<1>5. RowsFit(next, status)
  BY <1>2, <1>3, <1>4 DEF Sound, RowsFit, There, Kinds
<1>6. Floor(state) /\ Fresh(next)
  BY <1>2, <1>3, <1>4 DEF Floor, Fresh, NoOutcome, Kinds
<1>7. Sound(next, status)
  BY <1>2, <1>5, <1>6 DEF Sound
<1>8. Continues(work, next)
  <2>1. ASSUME NEW k \in Kinds, There(work.board[k])
        PROVE  /\ There(next.board[k])
               /\ work.board[k].version <= next.board[k].version
               /\ next.board[k].version = work.board[k].version /\ next.board[k].status = "pending"
                    => work.board[k].status = "pending"
    BY <1>3, <1>4, <2>1
  <2>2. AwaitsTriage(next) \/ ~There(work.board["triage"])
    BY <1>2, <1>3, <1>4 DEF AwaitsTriage, Kinds
  <2> QED
    BY <1>2, <1>3, <2>1, <2>2 DEF Continues, Kinds, AwaitsTriage
<1> QED
  BY <1>2, <1>6, <1>7, <1>8 DEF next

\* A review is proposed for its reason.
Reason(kind, state, status) ==
  /\ kind = "urgency" => state.priority = "urgent"
  /\ kind = "triage" => state.receipt # 0 /\ state.team = Team(state.priority)
  /\ kind = "submission" => status = "unknown"

LEMMA UpsertSound ==
  ASSUME NEW c \in Conversations, NEW work \in WorkSet, NEW status, Sound(work, status),
         NEW kind \in Kinds, Reason(kind, work.state, status)
  PROVE  LET next == UpsertReview(c, work, kind)
         IN  /\ Sound(next, status)
             /\ There(next.board[kind]) /\ next.board[kind].version = work.state.version
             /\ Fresh(work) /\ kind # "triage" => Fresh(next)
<1> DEFINE next == UpsertReview(c, work, kind)
<1>1. /\ next.state = work.state
      /\ next.board[kind] = Proposed(work.board[kind], kind, work.state)
      /\ \A k \in Kinds \ {kind} : next.board[k] = work.board[k]
  BY UpsertEffect
<1>2. \/ /\ There(work.board[kind]) /\ work.board[kind].version = work.state.version
         /\ next.board[kind] = work.board[kind]
      \/ /\ ~There(work.board[kind]) \/ work.board[kind].version # work.state.version
         /\ next.board[kind].status = "pending"
         /\ next.board[kind].version = work.state.version
         /\ kind = "triage" => next.board[kind].team = work.state.team
  BY <1>1, ProposedRow, BoardRows
<1> HIDE DEF next
<1>3. \A k \in Kinds : work.board[k].version \in Nat /\ work.state.version \in Nat
  BY BoardRows
<1>4. RowsFit(next, status)
  BY <1>1, <1>2, <1>3 DEF Sound, RowsFit, Reason, There, Live, Kinds
<1>5. Sound(next, status)
  BY <1>1, <1>4 DEF Sound
<1>6. There(next.board[kind]) /\ next.board[kind].version = work.state.version
  BY <1>2 DEF There
<1>7. Fresh(work) /\ kind # "triage" => Fresh(next)
  BY <1>1 DEF Fresh, Kinds
<1> QED
  BY <1>5, <1>6, <1>7 DEF next

\* An alert makes the draft a new, urgent version with an urgency review.
LEMMA EscalateSound ==
  ASSUME NEW c \in Conversations, NEW work \in WorkSet, NEW status, Sound(work, status)
  PROVE  LET next == Escalate(c, work)
         IN  /\ next \in WorkSet /\ Sound(next, status) /\ Fresh(next) /\ Continues(work, next)
             /\ next.state.facts = work.state.facts
             /\ next.state.receipt = work.state.receipt
<1> DEFINE version == work.state.version + 1
           state == [work.state EXCEPT !.version = version, !.outcome = NoOutcome,
                                       !.priority = "urgent"]
           begun == [work EXCEPT !.state = state, !.board = Invalidated(work.board, version)]
           next == Escalate(c, work)
<1>0. version \in Nat
  BY BoardRows
<1>1. /\ state \in State
      /\ state.version = version
      /\ state.outcome = NoOutcome
      /\ state.receipt = work.state.receipt
      /\ state.facts = work.state.facts
      /\ state.priority = "urgent"
  BY <1>0, NullTypes DEF WorkSet, State, Priorities
<1>2. next = UpsertReview(c, begun, "urgency")
  BY DEF Escalate
<1> HIDE DEF state
<1>3. /\ begun \in WorkSet /\ begun.state = state
      /\ Sound(begun, status) /\ Fresh(begun) /\ Continues(work, begun)
  BY <1>1, NewVersionSound
<1> HIDE DEF begun, next
<1>4. next \in WorkSet /\ next.state = state
  BY <1>2, <1>3, UpsertEffect DEF Kinds
<1>5. Sound(next, status) /\ Fresh(next)
  BY <1>1, <1>2, <1>3, UpsertSound DEF Reason, Kinds
<1>6. Continues(begun, next)
  BY <1>2, <1>3, UpsertContinues DEF Sound, RowsFit, Kinds
<1> QED
  BY <1>1, <1>3, <1>4, <1>5, <1>6, ContinuesTransitive DEF next

\* Recorded facts make the draft a new version.
LEMMA RecordFactsSound ==
  ASSUME NEW work \in WorkSet, NEW status, Sound(work, status), NEW facts \in FactMap
  PROVE  LET next == RecordFacts(work, facts, TRUE)
         IN  /\ next \in WorkSet /\ Sound(next, status) /\ Fresh(next) /\ Continues(work, next)
             /\ next.state.facts = facts
             /\ next.state.receipt = work.state.receipt
<1> DEFINE version == work.state.version + 1
           state == [work.state EXCEPT !.facts = facts, !.version = version, !.outcome = NoOutcome]
           next == [work EXCEPT !.state = state, !.board = Invalidated(work.board, version)]
<1>0. version \in Nat
  BY BoardRows
<1>1. /\ state \in State
      /\ state.version = version
      /\ state.outcome = NoOutcome
      /\ state.receipt = work.state.receipt
      /\ state.facts = facts
      /\ state.priority = work.state.priority
  BY <1>0, NullTypes DEF WorkSet, State
<1>2. RecordFacts(work, facts, TRUE) = next
  BY DEF RecordFacts
<1> HIDE DEF state
<1>3. /\ next \in WorkSet /\ next.state = state
      /\ Sound(next, status) /\ Fresh(next) /\ Continues(work, next)
  BY <1>1, NewVersionSound
<1> HIDE DEF next
<1> QED
  BY <1>1, <1>2, <1>3

\* A request for an employee leaves one that is pending, at a version of its
\* own if the last one was decided.
LEMMA AskEmployeeSound ==
  ASSUME NEW c \in Conversations, NEW work \in WorkSet, NEW status, Sound(work, status)
  PROVE  LET next == AskEmployee(c, work)
         IN  /\ next \in WorkSet /\ Sound(next, status) /\ Continues(work, next)
             /\ Fresh(work) => Fresh(next)
             /\ next.board["service"].status = "pending"
             /\ \E version \in Nat : next.state = [work.state EXCEPT !.version = version]
<1> DEFINE row == work.board["service"]
           open == row.status \in {"absent", "pending"}
           version == work.state.version + (IF open THEN 0 ELSE 1)
           state == [work.state EXCEPT !.version = version]
           begun == [work EXCEPT !.state = state]
           next == AskEmployee(c, work)
<1>0. next = UpsertReview(c, begun, "service")
  BY DEF AskEmployee
<1>1. /\ version \in Nat
      /\ work.state.version \in Nat
      /\ open => version = work.state.version
      /\ ~open => version = work.state.version + 1
  BY BoardRows
<1>2. state \in State /\ state.version = version
  BY <1>1 DEF WorkSet, State
<1>3. /\ begun \in WorkSet /\ begun.state = state
      /\ begun.board = work.board /\ begun.threads = work.threads
  BY <1>2 DEF WorkSet
<1>4. /\ state.priority = work.state.priority
      /\ state.receipt = work.state.receipt
      /\ state.outcome = work.state.outcome
  BY DEF WorkSet, State
<1> HIDE DEF version, begun, next
<1>5. \A k \in Kinds : work.board[k].version \in Nat /\ work.board[k].version <= work.state.version
  BY BoardRows DEF Sound, RowsFit
<1> HIDE DEF state
<1>6. RowsFit(begun, status)
  BY <1>1, <1>2, <1>3, <1>4, <1>5 DEF Sound, RowsFit, There, Kinds
<1>7. Sound(begun, status) /\ (Fresh(work) => Fresh(begun))
  BY <1>1, <1>2, <1>3, <1>4, <1>5, <1>6 DEF Sound, Floor, Fresh, Kinds
<1>8. Continues(work, begun)
  BY <1>1, <1>2, <1>3, <1>5 DEF Continues, AwaitsTriage, Kinds
<1>9. Sound(next, status) /\ (Fresh(work) => Fresh(next))
  BY <1>0, <1>3, <1>7, UpsertSound DEF Reason, Kinds
<1>10. Continues(begun, next)
  BY <1>0, <1>3, <1>6, UpsertContinues DEF RowsFit, Kinds
<1>11. next \in WorkSet /\ next.state = state
  BY <1>0, <1>3, UpsertEffect DEF Kinds
<1>12. next.board["service"].status = "pending"
  <2>1. next.board["service"] = Proposed(row, "service", state)
    BY <1>0, <1>3, UpsertEffect DEF Kinds
  <2>2. \/ There(row) /\ row.version = state.version /\ next.board["service"] = row
        \/ next.board["service"].status = "pending"
    BY <1>2, <2>1, ProposedRow, BoardRows DEF Kinds
  <2>3. There(row) /\ row.version = version => row.status = "pending"
    BY <1>1, <1>5 DEF There, Kinds
  <2> QED
    BY <1>2, <2>2, <2>3
<1>13. Continues(work, next)
  BY <1>3, <1>8, <1>10, <1>11, ContinuesTransitive
<1> QED
  BY <1>1, <1>9, <1>11, <1>12, <1>13 DEF next, state

\* What planning does to a state: the priority only ever rises to urgent by
\* the facts, and the team follows it after a submission.
LEMMA PlanEffect ==
  ASSUME NEW state \in State
  PROVE  LET next == Plan(state)
         IN  /\ next \in State
             /\ next.version = state.version
             /\ next.facts = state.facts
             /\ next.receipt = state.receipt
             /\ next.outcome = state.outcome
             /\ state.priority = "urgent" => next.priority = "urgent"
             /\ Triggered(state.facts) => next.priority = "urgent"
             /\ state.priority # "urgent" /\ ~Triggered(state.facts) => next.priority # "urgent"
             /\ state.receipt # 0 => next.team = Team(next.priority) /\ next.stage = "awaiting_review"
             /\ state.receipt = 0 =>
                  /\ next.stage \in {"awaiting_customer", "awaiting_confirmation"}
                  /\ next.stage = "awaiting_confirmation" <=> Missing(state.facts) = {}
<1> DEFINE priority == IF state.priority = "urgent" THEN "urgent" ELSE Screen(state.facts)
           stage == IF Missing(state.facts) = {} THEN "awaiting_confirmation"
                                                 ELSE "awaiting_customer"
           next == Plan(state)
<1>1. next \in State /\ next.version = state.version /\ next.receipt = state.receipt
  BY PlanType
<1>2. /\ state.priority = "urgent" => priority = "urgent"
      /\ Triggered(state.facts) => priority = "urgent"
      /\ state.priority # "urgent" /\ ~Triggered(state.facts) => priority # "urgent"
  BY DEF Screen
<1>3. /\ stage \in {"awaiting_customer", "awaiting_confirmation"}
      /\ stage = "awaiting_confirmation" <=> Missing(state.facts) = {}
  OBVIOUS
<1>4. next = IF state.receipt # 0
             THEN [state EXCEPT !.priority = priority, !.stage = "awaiting_review",
                                !.team = Team(priority)]
             ELSE [state EXCEPT !.priority = priority, !.stage = stage]
  BY DEF Plan
<1> HIDE DEF priority, stage, next
<1>5. CASE state.receipt # 0
  <2>1. /\ next.priority = priority /\ next.stage = "awaiting_review"
        /\ next.team = Team(priority)
        /\ next.facts = state.facts /\ next.outcome = state.outcome
    BY <1>4, <1>5 DEF State
  <2> QED
    BY <1>1, <1>2, <1>5, <2>1 DEF next
<1>6. CASE state.receipt = 0
  <2>1. /\ next.priority = priority /\ next.stage = stage
        /\ next.facts = state.facts /\ next.outcome = state.outcome
    BY <1>4, <1>6 DEF State
  <2> QED
    BY <1>1, <1>2, <1>3, <1>6, <2>1 DEF next
<1> QED
  BY <1>5, <1>6

\* The work whose state was planned.
LEMMA PlannedWork ==
  ASSUME NEW work \in WorkSet
  PROVE  LET next == [work EXCEPT !.state = Plan(@)]
         IN  /\ next \in WorkSet
             /\ next.state = Plan(work.state)
             /\ next.board = work.board
             /\ next.threads = work.threads
             /\ Continues(work, next)
<1> DEFINE state == Plan(work.state)
           next == [work EXCEPT !.state = state]
<1>1. state \in State /\ state.version = work.state.version
  BY PlanType, BoardRows
<1> HIDE DEF state
<1>2. /\ next \in WorkSet /\ next.state = state
      /\ next.board = work.board /\ next.threads = work.threads
  BY <1>1 DEF WorkSet
<1>3. Continues(work, next)
  BY <1>1, <1>2, BoardRows DEF Continues, AwaitsTriage
<1> QED
  BY <1>2, <1>3 DEF state

\* Planning may raise the priority only of a draft that nothing was decided of.
LEMMA PlanSound ==
  ASSUME NEW work \in WorkSet, NEW status, Sound(work, status),
         Fresh(work) \/ (Triggered(work.state.facts) => work.state.priority = "urgent")
  PROVE  LET next == [work EXCEPT !.state = Plan(@)]
         IN  Sound(next, status) /\ Planned(next.state, status)
<1> DEFINE next == [work EXCEPT !.state = Plan(@)]
           state == Plan(work.state)
<1>1. next.state = state /\ next.board = work.board
  BY PlannedWork
<1>2. /\ state.version = work.state.version
      /\ state.facts = work.state.facts
      /\ state.receipt = work.state.receipt
      /\ state.outcome = work.state.outcome
      /\ work.state.priority = "urgent" => state.priority = "urgent"
      /\ Triggered(work.state.facts) => state.priority = "urgent"
      /\ work.state.priority # "urgent" /\ ~Triggered(work.state.facts)
           => state.priority # "urgent"
      /\ work.state.receipt # 0 => state.team = Team(state.priority) /\ state.stage = "awaiting_review"
      /\ work.state.receipt = 0 =>
           /\ state.stage \in {"awaiting_customer", "awaiting_confirmation"}
           /\ state.stage = "awaiting_confirmation" <=> Missing(work.state.facts) = {}
  BY PlanEffect, BoardRows
<1> HIDE DEF next, state
<1>3. Fresh(work) \/ Team(state.priority) = Team(work.state.priority)
  BY <1>2 DEF Team
<1>4. \A k \in Kinds : work.board[k].version \in Nat /\ work.state.version \in Nat
  BY BoardRows
<1>5. RowsFit(next, status)
  BY <1>1, <1>2, <1>3, <1>4 DEF Sound, RowsFit, Fresh, Kinds
<1>6. Floor(state)
  BY <1>2 DEF Sound, Floor, Fresh, NoOutcome
<1>7. Sound(next, status)
  BY <1>1, <1>2, <1>5, <1>6 DEF Sound
<1>8. Planned(state, status)
  BY <1>2 DEF Sound, Planned, Submitted
<1> QED
  BY <1>1, <1>7, <1>8 DEF next

\* The last step of a transaction puts the desk in order.
LEMMA FollowUpDesk ==
  ASSUME NEW c \in Conversations, NEW work \in WorkSet, NEW status,
         Sound(work, status), Planned(work.state, status)
  PROVE  LET next == FollowUp(c, work, status)
         IN  /\ next \in WorkSet /\ Desk(next, status) /\ Continues(work, next)
             /\ next.state.facts = work.state.facts
             /\ status # "unknown" => next.state = work.state
             /\ work.state.receipt # 0 /\ ~There(work.board["triage"]) =>
                  next.board["triage"].status = "pending"
<1> DEFINE alerted == IF work.state.priority = "urgent"
                      THEN UpsertReview(c, work, "urgency") ELSE work
           routed == IF work.state.receipt # 0
                     THEN UpsertReview(c, alerted, "triage") ELSE alerted
           state == [routed.state EXCEPT !.stage = "pending_submission"]
           staged == [routed EXCEPT !.state = state]
           next == FollowUp(c, work, status)
           current(w, k) == There(w.board[k]) /\ w.board[k].version = w.state.version
<1>0. next = IF status = "unknown" THEN UpsertReview(c, staged, "submission") ELSE routed
  BY DEF FollowUp
<1> HIDE DEF next
<1>1. /\ alerted \in WorkSet /\ alerted.state = work.state
      /\ Sound(alerted, status) /\ Continues(work, alerted)
      /\ work.state.priority = "urgent" => current(alerted, "urgency")
      /\ alerted.board["triage"] = work.board["triage"]
  <2>1. CASE work.state.priority = "urgent"
    <3>1. alerted = UpsertReview(c, work, "urgency") /\ Reason("urgency", work.state, status)
      BY <2>1 DEF Reason
    <3> HIDE DEF alerted
    <3>2. /\ alerted \in WorkSet /\ alerted.state = work.state
          /\ alerted.board["triage"] = work.board["triage"]
      BY <3>1, UpsertEffect DEF Kinds
    <3>3. Sound(alerted, status) /\ current(alerted, "urgency")
      BY <3>1, <3>2, UpsertSound DEF Kinds
    <3>4. Continues(work, alerted)
      BY <3>1, UpsertContinues DEF Kinds, Sound, RowsFit
    <3> QED
      BY <3>2, <3>3, <3>4
  <2>2. CASE work.state.priority # "urgent"
    BY <2>2, ContinuesReflexive
  <2> QED
    BY <2>1, <2>2
<1> HIDE DEF alerted
<1>2. /\ routed \in WorkSet /\ routed.state = work.state
      /\ Sound(routed, status) /\ Continues(alerted, routed)
      /\ work.state.receipt # 0 => current(routed, "triage")
      /\ routed.board["urgency"] = alerted.board["urgency"]
      /\ work.state.receipt # 0 /\ ~There(work.board["triage"]) =>
           routed.board["triage"].status = "pending"
  <2>1. CASE work.state.receipt # 0
    <3>1. Reason("triage", alerted.state, status)
      BY <1>1, <2>1 DEF Planned, Reason
    <3>2. routed = UpsertReview(c, alerted, "triage")
      BY <2>1
    <3> HIDE DEF routed
    <3>3. /\ routed \in WorkSet /\ routed.state = work.state
          /\ routed.board["urgency"] = alerted.board["urgency"]
          /\ routed.board["triage"] = Proposed(alerted.board["triage"], "triage", alerted.state)
      BY <1>1, <3>2, UpsertEffect DEF Kinds
    <3>4. Sound(routed, status) /\ current(routed, "triage")
      BY <1>1, <3>1, <3>2, <3>3, UpsertSound DEF Kinds
    <3>5. Continues(alerted, routed)
      BY <1>1, <3>2, UpsertContinues DEF Kinds, Sound, RowsFit
    <3>6. ~There(work.board["triage"]) => routed.board["triage"].status = "pending"
      BY <1>1, <3>3, ProposedRow, BoardRows DEF Kinds
    <3> QED
      BY <3>3, <3>4, <3>5, <3>6
  <2>2. CASE work.state.receipt = 0
    BY <1>1, <2>2, ContinuesReflexive
  <2> QED
    BY <1>1, <2>1, <2>2
<1> HIDE DEF routed
<1>3. Continues(work, routed)
  BY <1>1, <1>2, ContinuesTransitive
<1>4. /\ work.state.priority = "urgent" => current(routed, "urgency")
      /\ work.state.receipt # 0 => current(routed, "triage")
  BY <1>1, <1>2
<1>5. CASE status # "unknown"
  <2>1. next = routed
    BY <1>0, <1>5
  <2>2. Desk(next, status)
    BY <1>2, <1>4, <1>5, <2>1 DEF Desk, Current
  <2> QED
    BY <1>2, <1>3, <2>1, <2>2 DEF next
<1>6. CASE status = "unknown"
  <2>1. /\ state \in State /\ state.stage = "pending_submission"
        /\ state.version = work.state.version
        /\ state.facts = work.state.facts
        /\ state.priority = work.state.priority
        /\ state.receipt = work.state.receipt
        /\ state.team = work.state.team
        /\ state.outcome = work.state.outcome
    BY <1>2 DEF WorkSet, State, Stages
  <2> HIDE DEF state
  <2>2. /\ staged \in WorkSet /\ staged.state = state
        /\ staged.board = routed.board /\ staged.threads = routed.threads
    BY <1>2, <2>1 DEF WorkSet
  <2> HIDE DEF staged
  <2>3. Sound(staged, status) /\ Planned(state, status)
    BY <1>2, <1>6, <2>1, <2>2 DEF Sound, RowsFit, Floor, Planned, Submitted
  <2>4. Continues(routed, staged)
    BY <1>2, <2>1, <2>2, BoardRows DEF Continues, AwaitsTriage
  <2>5. next = UpsertReview(c, staged, "submission")
    BY <1>0, <1>6
  <2>6. /\ next \in WorkSet /\ next.state = state
        /\ next.board["urgency"] = routed.board["urgency"]
        /\ next.board["triage"] = routed.board["triage"]
    BY <2>2, <2>5, UpsertEffect DEF Kinds
  <2>7. Sound(next, status) /\ current(next, "submission")
    BY <1>6, <2>2, <2>3, <2>5, <2>6, UpsertSound DEF Reason, Kinds
  <2>8. Continues(staged, next)
    BY <2>2, <2>3, <2>5, UpsertContinues DEF Kinds, Sound, RowsFit
  <2>9. Continues(work, next)
    BY <1>2, <1>3, <2>2, <2>4, <2>6, <2>8, ContinuesTransitive
  <2>10. Desk(next, status)
    BY <1>2, <1>4, <2>1, <2>3, <2>6, <2>7 DEF Desk, Current
  <2> QED
    BY <1>2, <1>6, <2>1, <2>6, <2>9, <2>10 DEF next
<1> QED
  BY <1>5, <1>6

-----------------------------------------------------------------------------
(* A message. *)

\* A message that says nothing of the facts leaves them.
LEMMA UpdateFactsSilent ==
  ASSUME NEW facts \in FactMap, NEW reports, NEW source, Reported(reports) = {}
  PROVE  UpdateFacts(facts, reports, source) = facts
BY DEF UpdateFacts, FactMap

\* What is made of a text keeps the draft valid.
LEMMA UnderstoodValid ==
  ASSUME NEW owner, NEW facts \in FactMap, NEW message, NEW reading \in Input,
         ValidDraft(owner, facts)
  PROVE  ValidDraft(owner, UpdateFacts(facts, Understood(owner, facts, message, reading).reports,
                                       message))
<1> DEFINE reports == [f \in Fields |->
             IF reading.reports[f].value = Absent THEN Silent
             ELSE [value |-> reading.reports[f].value, confirmed |-> FALSE,
                   conflicting |-> facts[f].value \notin {Absent, reading.reports[f].value}]]
           understood == Understood(owner, facts, message, reading)
<1>1. understood = IF /\ ValidDraft(owner, UpdateFacts(facts, reports, message))
                      /\ Accessible(owner, reading)
                   THEN [reading EXCEPT !.reports = reports]
                   ELSE HelpInput
  BY DEF Understood
<1> HIDE DEF reports, understood
<1>2. CASE understood = HelpInput
  <2>1. understood.reports = NoReports
    BY <1>2 DEF HelpInput, NoInput
  <2>2. Reported(NoReports) = {}
    BY DEF Reported, NoReports, Silent
  <2>3. UpdateFacts(facts, understood.reports, message) = facts
    BY <2>1, <2>2, UpdateFactsSilent
  <2> QED
    BY <2>3 DEF understood
<1>3. CASE understood # HelpInput
  <2>1. /\ ValidDraft(owner, UpdateFacts(facts, reports, message))
        /\ understood = [reading EXCEPT !.reports = reports]
    BY <1>1, <1>3
  <2>2. understood.reports = reports
    BY <2>1 DEF Input
  <2> QED
    BY <2>1, <2>2 DEF understood
<1> QED
  BY <1>2, <1>3

\* Work on an acceptable message succeeds, whatever it is understood as, and
\* leaves the desk in order.
LEMMA ProcessMessageDesk ==
  ASSUME TypeOK, NEW d \in Delivery, d.kind = "message", Acceptable(d),
         NEW reading \in Readings(d),
         Desk(Work(d.conv), actions[d.conv].status),
         ValidDraft(conv[d.conv].owner, conv[d.conv].state.facts)
  PROVE  LET c == d.conv
             r == ProcessMessage(d, reading)
         IN  /\ Desk(r.work, actions[c].status)
             /\ Continues(Work(c), r.work)
             /\ ValidDraft(conv[c].owner, r.work.state.facts)
             /\ r.action = actions[c]
             /\ r.status # "failed"
             /\ r.awaits = "service" => r.work.board["service"].status = "pending"
             /\ r.status = "awaiting_review" /\ r.awaits = "none" => Submitted(actions[c].status)
<1> DEFINE c == d.conv
           status == actions[c].status
           owner == conv[c].owner
           escalated == IF d.input.trigger THEN Escalate(c, Work(c)) ELSE Work(c)
           old == escalated.state.facts
           input == IF d.input.intent = "auto"
                    THEN Understood(owner, old, d.message, reading) ELSE d.input
           facts == UpdateFacts(old, input.reports, d.message)
           changed == d.input.trigger \/ facts # old
           recorded == IF input.intent = "intake" \/ Reported(input.reports) # {}
                       THEN RecordFacts(escalated, facts, changed) ELSE escalated
           help == input.intent = "employee_help" \/ (input.intent = "service" /\ ~input.known)
           asked == IF help THEN AskEmployee(c, recorded) ELSE recorded
           answered == input.intent # "intake"
           planned == IF changed \/ (~answered /\ asked.state.receipt = 0)
                      THEN [asked EXCEPT !.state = Plan(@)] ELSE asked
           done == FollowUp(c, planned, status)
           ends == IF help THEN "awaiting_review"
                   ELSE IF answered THEN "completed" ELSE StageStatus(done.state.stage)
           awaits == IF help THEN "service" ELSE "none"
<1>0. /\ c \in Conversations /\ d.input \in Input /\ d.message \in Sources
      /\ reading \in Input
  BY ReadingsType DEF Delivery, Sources
<1>1. /\ Work(c) \in WorkSet /\ Work(c).state = conv[c].state
      /\ Sound(Work(c), status) /\ Planned(conv[c].state, status)
      /\ Continues(Work(c), Work(c))
  BY <1>0, WorkType, ContinuesReflexive DEF Desk
<1>2. /\ escalated \in WorkSet /\ Sound(escalated, status) /\ Continues(Work(c), escalated)
      /\ old = conv[c].state.facts
      /\ d.input.trigger => Fresh(escalated)
      /\ ~d.input.trigger => escalated = Work(c)
  <2>1. CASE d.input.trigger
    BY <1>0, <1>1, <2>1, EscalateSound
  <2>2. CASE ~d.input.trigger
    BY <1>1, <2>2
  <2> QED
    BY <2>1, <2>2
<1>3. old \in FactMap /\ ValidDraft(owner, old)
  BY <1>2 DEF WorkSet, State
<1> HIDE DEF escalated
<1>4. input \in Input
  BY <1>0, <1>3, UnderstoodType
<1>5. facts \in FactMap
  <2> HIDE DEF input, old
  <2> QED
    BY <1>0, <1>3, <1>4, UpdateFactsType DEF Input
<1>6. ValidDraft(owner, facts)
  <2>1. CASE d.input.intent = "auto"
    <3> HIDE DEF old
    <3> QED
      BY <1>0, <1>3, <2>1, UnderstoodValid
  <2>2. CASE d.input.intent = "intake"
    BY <1>2, <2>2 DEF Acceptable
  <2>3. CASE d.input.intent \notin {"auto", "intake"}
    <3>1. input = d.input /\ Reported(input.reports) = {}
      BY <2>3, InputAssumption DEF Acceptable
    <3> HIDE DEF old, input
    <3> QED
      BY <1>3, <3>1, UpdateFactsSilent
  <2> QED
    BY <2>1, <2>2, <2>3
<1>7. changed \in BOOLEAN
  BY <1>0 DEF Input
<1>8. Reported(input.reports) = {} => facts = old
  <2> HIDE DEF input, old
  <2> QED
    BY <1>3, UpdateFactsSilent
<1>9. ~Rejected(d, facts)
  <2>1. d.input.intent # "auto" => input = d.input
    OBVIOUS
  <2> HIDE DEF facts, input
  <2> QED
    BY <1>6, <2>1 DEF Rejected, Acceptable
<1>10. ProcessMessage(d, reading) = Result(done, actions[c], ClaimOf(actions[c]), ends, awaits)
  <2>1. ProcessMessage(d, reading) =
          IF Rejected(d, facts)
          THEN Result(Work(c), actions[c], ClaimOf(actions[c]), "failed", "none")
          ELSE Result(done, actions[c], ClaimOf(actions[c]), ends, awaits)
    BY DEF ProcessMessage, escalated
  <2> HIDE DEF done, ends, awaits, facts
  <2> QED
    BY <1>9, <2>1
<1> HIDE DEF input, old, facts
<1>11. /\ recorded \in WorkSet /\ Sound(recorded, status) /\ Continues(Work(c), recorded)
       /\ changed => Fresh(recorded)
       /\ ~changed => recorded = Work(c)
       /\ recorded.state.facts \in {facts, conv[c].state.facts}
  <2>1. CASE changed /\ (input.intent = "intake" \/ Reported(input.reports) # {})
    <3>1. recorded = RecordFacts(escalated, facts, TRUE)
      BY <1>7, <2>1
    <3> HIDE DEF recorded, changed
    <3> QED
      BY <1>1, <1>2, <1>5, <2>1, <3>1, RecordFactsSound, ContinuesTransitive
  <2>2. CASE ~changed
    <3>1. escalated = Work(c)
      BY <1>2, <2>2
    <3>2. recorded = Work(c)
      BY <2>2, <3>1 DEF RecordFacts
    <3> HIDE DEF recorded, changed
    <3> QED
      BY <1>1, <2>2, <3>2
  <2>3. CASE changed /\ ~(input.intent = "intake" \/ Reported(input.reports) # {})
    <3>1. recorded = escalated /\ d.input.trigger
      BY <1>8, <2>3
    <3> HIDE DEF recorded, changed
    <3> QED
      BY <1>2, <2>3, <3>1 DEF old
  <2> QED
    BY <1>7, <2>1, <2>2, <2>3
<1> HIDE DEF recorded, changed
<1>12. /\ asked \in WorkSet /\ Sound(asked, status) /\ Continues(Work(c), asked)
       /\ changed => Fresh(asked)
       /\ ~changed => Planned(asked.state, status)
       /\ asked.state.facts \in {facts, conv[c].state.facts}
       /\ help => asked.board["service"].status = "pending"
  <2>1. CASE help
    <3>1. asked = AskEmployee(c, recorded)
      BY <2>1
    <3> HIDE DEF asked, help
    <3>2. /\ asked \in WorkSet /\ Sound(asked, status) /\ Continues(recorded, asked)
          /\ Fresh(recorded) => Fresh(asked)
          /\ asked.board["service"].status = "pending"
      BY <1>0, <1>11, <3>1, AskEmployeeSound
    <3>3. PICK version \in Nat : asked.state = [recorded.state EXCEPT !.version = version]
      BY <1>0, <1>11, <3>1, AskEmployeeSound
    <3>4. /\ asked.state.facts = recorded.state.facts
          /\ asked.state.priority = recorded.state.priority
          /\ asked.state.receipt = recorded.state.receipt
          /\ asked.state.team = recorded.state.team
          /\ asked.state.stage = recorded.state.stage
      BY <1>11, <3>3 DEF WorkSet, State
    <3>5. ~changed => Planned(asked.state, status)
      BY <1>1, <1>11, <3>4 DEF Planned
    <3>6. Continues(Work(c), asked)
      BY <1>1, <1>11, <3>2, ContinuesTransitive
    <3> QED
      BY <1>11, <3>2, <3>4, <3>5, <3>6
  <2>2. CASE ~help
    BY <1>1, <1>11, <2>2
  <2> QED
    BY <2>1, <2>2
<1> HIDE DEF asked, help
<1>13. /\ planned \in WorkSet /\ Sound(planned, status) /\ Continues(Work(c), planned)
       /\ Planned(planned.state, status)
       /\ planned.state.facts \in {facts, conv[c].state.facts}
       /\ planned.board = asked.board
  <2> DEFINE plan == [asked EXCEPT !.state = Plan(@)]
  <2>1. Fresh(asked) \/ (Triggered(asked.state.facts) => asked.state.priority = "urgent")
    BY <1>12 DEF Planned
  <2>2. /\ plan \in WorkSet /\ plan.board = asked.board /\ plan.state = Plan(asked.state)
        /\ Continues(asked, plan)
    BY <1>12, PlannedWork
  <2>3. Sound(plan, status) /\ Planned(plan.state, status)
    BY <1>12, <2>1, PlanSound
  <2>4. plan.state.facts = asked.state.facts
    BY <1>12, <2>2, PlanEffect, BoardRows
  <2>5. planned = plan \/ (planned = asked /\ ~changed)
    OBVIOUS
  <2> HIDE DEF plan, planned
  <2>6. Continues(Work(c), plan)
    BY <1>1, <1>12, <2>2, ContinuesTransitive
  <2> QED
    BY <1>12, <2>2, <2>3, <2>4, <2>5, <2>6
<1> HIDE DEF planned
<1>14. /\ done \in WorkSet /\ Desk(done, status) /\ Continues(planned, done)
       /\ done.state.facts = planned.state.facts
  BY <1>0, <1>13, FollowUpDesk
<1> HIDE DEF done
<1>15. Continues(Work(c), done)
  BY <1>1, <1>13, <1>14, ContinuesTransitive
<1>16. ValidDraft(owner, done.state.facts)
  BY <1>6, <1>13, <1>14
<1>17. awaits = "service" => done.board["service"].status = "pending"
  BY <1>12, <1>13, <1>14 DEF Continues
<1>18. ends # "failed"
  BY DEF StageStatus
<1>19. ends = "awaiting_review" /\ awaits = "none" => Submitted(status)
  <2>1. Planned(done.state, status)
    BY <1>14 DEF Desk
  <2> QED
    BY <2>1 DEF StageStatus, Planned
<1> HIDE DEF ends, awaits
<1> QED
  BY <1>10, <1>14, <1>15, <1>16, <1>17, <1>18, <1>19 DEF Result

-----------------------------------------------------------------------------
(* A submission. *)

\* An attempt without an answer leaves a submission review of the draft.
LEMMA WaitingDesk ==
  ASSUME NEW c \in Conversations, NEW work \in WorkSet, Desk(work, "pending")
  PROVE  LET next == UpsertReview(c, [work EXCEPT !.state = [@ EXCEPT !.stage = "pending_submission"]],
                                  "submission")
         IN  /\ Desk(next, "unknown") /\ Continues(work, next)
             /\ next.state.facts = work.state.facts
<1> DEFINE state == [work.state EXCEPT !.stage = "pending_submission"]
           staged == [work EXCEPT !.state = state]
           next == UpsertReview(c, staged, "submission")
           current(w, k) == There(w.board[k]) /\ w.board[k].version = w.state.version
<1>1. /\ state \in State /\ state.stage = "pending_submission"
      /\ state.version = work.state.version
      /\ state.facts = work.state.facts
      /\ state.priority = work.state.priority
      /\ state.receipt = work.state.receipt
      /\ state.team = work.state.team
      /\ state.outcome = work.state.outcome
  BY DEF WorkSet, State, Stages
<1> HIDE DEF state
<1>2. /\ staged \in WorkSet /\ staged.state = state
      /\ staged.board = work.board /\ staged.threads = work.threads
  BY <1>1 DEF WorkSet
<1> HIDE DEF staged
<1>3. /\ work.state.receipt = 0
      /\ ~There(work.board["triage"])
      /\ ~There(work.board["submission"])
  BY DEF Desk, Sound, RowsFit
<1>4. Sound(staged, "unknown") /\ Planned(state, "unknown")
  BY <1>1, <1>2, <1>3 DEF Desk, Sound, RowsFit, Floor, Planned, There, Submitted
<1>5. Continues(work, staged)
  BY <1>1, <1>2, BoardRows DEF Continues, AwaitsTriage
<1>6. /\ next \in WorkSet /\ next.state = state
      /\ next.board["urgency"] = work.board["urgency"]
  BY <1>2, UpsertEffect DEF Kinds
<1>7. Sound(next, "unknown") /\ current(next, "submission")
  BY <1>2, <1>4, <1>6, UpsertSound DEF Reason, Kinds
<1>8. Continues(staged, next)
  BY <1>2, <1>4, UpsertContinues DEF Kinds, Sound, RowsFit
<1> HIDE DEF next
<1>9. Continues(work, next)
  BY <1>2, <1>5, <1>6, <1>8, ContinuesTransitive
<1>10. Desk(next, "unknown")
  BY <1>1, <1>3, <1>4, <1>6, <1>7 DEF Desk, Current
<1> QED
  BY <1>1, <1>6, <1>9, <1>10 DEF next, staged, state

\* A receipt gives the draft a team, and makes no alert of it.
LEMMA ReceiptSound ==
  ASSUME NEW work \in WorkSet, NEW status \in {"pending", "unknown"}, Desk(work, status),
         NEW receipt \in Nat, receipt # 0, NEW board \in Board,
         \A k \in Kinds \ {"submission"} : board[k] = work.board[k],
         There(board["submission"]) <=> There(work.board["submission"]),
         board["submission"].version = work.board["submission"].version,
         board["submission"].status # "pending"
  PROVE  LET next == [state |-> Plan([work.state EXCEPT !.receipt = receipt]),
                      board |-> board, threads |-> work.threads]
         IN  /\ next \in WorkSet
             /\ Sound(next, "confirmed") /\ Planned(next.state, "confirmed")
             /\ Continues(work, next)
             /\ next.state.facts = work.state.facts
             /\ next.state.receipt = receipt
             /\ next.state.priority = "urgent" =>
                  /\ There(next.board["urgency"])
                  /\ next.board["urgency"].version = next.state.version
             /\ ~There(next.board["triage"])
<1> DEFINE filed == [work.state EXCEPT !.receipt = receipt]
           state == Plan(filed)
           next == [state |-> state, board |-> board, threads |-> work.threads]
<1>1. /\ filed \in State
      /\ filed.version = work.state.version
      /\ filed.facts = work.state.facts
      /\ filed.priority = work.state.priority
      /\ filed.receipt = receipt
      /\ filed.outcome = work.state.outcome
  BY DEF WorkSet, State
<1> HIDE DEF filed
<1>2. /\ state \in State
      /\ state.version = work.state.version
      /\ state.facts = work.state.facts
      /\ state.receipt = receipt
      /\ state.outcome = work.state.outcome
      /\ work.state.priority = "urgent" => state.priority = "urgent"
      /\ work.state.priority # "urgent" /\ ~Triggered(work.state.facts)
           => state.priority # "urgent"
      /\ Triggered(state.facts) => state.priority = "urgent"
      /\ state.team = Team(state.priority) /\ state.stage = "awaiting_review"
  BY <1>1, PlanEffect
<1>3. state.priority = "urgent" <=> work.state.priority = "urgent"
  BY <1>2 DEF Desk, Planned
<1> HIDE DEF state
<1>4. /\ next \in WorkSet /\ next.state = state
      /\ next.board = board /\ next.threads = work.threads
  BY <1>2 DEF WorkSet
<1> HIDE DEF next
<1>5. ~There(board["triage"])
  BY DEF Desk, Sound, RowsFit, Kinds
<1>6. \A k \in Kinds : board[k].version = work.board[k].version
  BY DEF Kinds
<1>7. RowsFit(next, "confirmed")
  BY <1>2, <1>3, <1>4, <1>5, <1>6 DEF Desk, Sound, RowsFit, Kinds
<1>8. Sound(next, "confirmed") /\ Planned(state, "confirmed")
  BY <1>2, <1>3, <1>4, <1>7 DEF Desk, Sound, Floor, Planned, Submitted
<1>9. Continues(work, next)
  <2>1. \A k \in Kinds : work.board[k].version \in Nat
    BY BoardRows
  <2>2. ~AwaitsTriage(work)
    BY <1>5 DEF AwaitsTriage, Kinds
  <2>3. \A k \in Kinds : There(work.board[k]) => There(board[k])
    OBVIOUS
  <2>4. \A k \in Kinds : board[k].status = "pending" => work.board[k].status = "pending"
    OBVIOUS
  <2> QED
    BY <1>4, <1>6, <2>1, <2>2, <2>3, <2>4 DEF Continues, Kinds
<1>10. state.priority = "urgent" =>
         There(board["urgency"]) /\ board["urgency"].version = state.version
  BY <1>2, <1>3 DEF Desk, Current, Kinds
<1> QED
  BY <1>2, <1>4, <1>5, <1>8, <1>9, <1>10 DEF next, state, filed

\* An answered attempt for a confirmation puts the submission on the desk of
\* the triage team.
LEMMA ProcessConfirmationDesk ==
  ASSUME SubmissionInv, NEW d \in Delivery, d.kind = "confirmation", Acceptable(d),
         NEW reply \in CoreReplies,
         Desk(Work(d.conv), actions[d.conv].status),
         ValidDraft(conv[d.conv].owner, actions[d.conv].draft.facts)
  PROVE  LET c == d.conv
             r == ProcessConfirmation(d, reply)
         IN  /\ Desk(r.work, r.action.status)
             /\ Continues(Work(c), r.work)
             /\ r.work.state.facts = conv[c].state.facts
             /\ r.action.draft = actions[c].draft
             /\ r.status # "failed" /\ r.awaits = "none"
             /\ r.action.status = "unknown" \/ r.work.board["triage"].status = "pending"
<1> DEFINE c == d.conv
           attempt == Execute(actions[c], ClaimOf(actions[c]), conv[c].owner, reply)
           state == [Work(c).state EXCEPT !.stage = "pending_submission"]
           waiting == UpsertReview(c, [Work(c) EXCEPT !.state = [@ EXCEPT !.stage = "pending_submission"]], "submission")
           filed == [Work(c) EXCEPT !.state = Plan([@ EXCEPT !.receipt = attempt.action.receipt])]
           done == FollowUp(c, filed, attempt.action.status)
           r == ProcessConfirmation(d, reply)
<1>0. /\ c \in Conversations /\ actions[c].status = "pending"
      /\ actions[c] \in Action /\ TypeOK
  BY DEF Delivery, Acceptable, SubmissionInv, TypeOK
<1>1. /\ attempt.action.draft = actions[c].draft
      /\ ~attempt.refused => attempt.action.status \in {"unknown", "confirmed"}
      /\ attempt.action.status = "confirmed" => attempt.claim # NoClaim
      /\ attempt.action.status = "confirmed" => attempt.action.receipt = attempt.claim.version
      /\ \/ attempt.claim = claims[actions[c].id]
         \/ attempt.claim = ClaimFor(conv[c].owner, actions[c].draft)
  BY <1>0, ExecuteProgress
<1>2. ~attempt.refused
  BY <1>0 DEF Execute
<1>3. attempt.action.status = "confirmed" =>
        attempt.action.receipt \in Nat /\ attempt.action.receipt # 0
  <2>1. /\ Filed(claims, actions[c].id) =>
             claims[actions[c].id] = ClaimFor(conv[c].owner, actions[c].draft)
    BY <1>0, ClaimIsOfIntent
  <2>2. actions[c].draft.version >= 1 /\ actions[c].draft.version \in Nat
    BY <1>0 DEF SubmissionInv, IntentsAreOwned, Action, DraftSet
  <2>3. attempt.action.status = "confirmed" => attempt.claim.version = actions[c].draft.version
    <3> HIDE DEF attempt
    <3> QED
      BY <1>1, <2>1 DEF Filed, ClaimFor
  <2> HIDE DEF attempt
  <2> QED
    BY <1>1, <2>2, <2>3
<1>4. /\ Work(c) \in WorkSet /\ Work(c).state = conv[c].state /\ Desk(Work(c), "pending")
  BY <1>0, WorkType
<1> HIDE DEF attempt
<1>5. r = IF attempt.action.status = "unknown"
          THEN Result(waiting, attempt.action, attempt.claim, "awaiting_review", "none")
          ELSE Result(done, attempt.action, attempt.claim, StageStatus(done.state.stage), "none")
  BY <1>2 DEF ProcessConfirmation, attempt
<1>6. CASE attempt.action.status = "unknown"
  <2>1. /\ Desk(waiting, "unknown") /\ Continues(Work(c), waiting)
        /\ waiting.state.facts = conv[c].state.facts
    BY <1>0, <1>4, WaitingDesk
  <2> HIDE DEF waiting
  <2> QED
    BY <1>1, <1>5, <1>6, <2>1 DEF Result
<1>7. CASE attempt.action.status # "unknown"
  <2>1. attempt.action.status = "confirmed"
    BY <1>1, <1>2, <1>7
  <2> DEFINE receipt == attempt.action.receipt
             next == [state |-> Plan([Work(c).state EXCEPT !.receipt = receipt]),
                      board |-> Work(c).board, threads |-> Work(c).threads]
  <2>2. receipt \in Nat /\ receipt # 0
    BY <1>3, <2>1
  <2> HIDE DEF receipt
  <2>3. Work(c).board["submission"].status = "absent" /\ Work(c).board \in Board
    BY <1>4, BoardRows DEF Desk, Sound, RowsFit, There
  <2>4. /\ next \in WorkSet
        /\ Sound(next, "confirmed") /\ Planned(next.state, "confirmed")
        /\ Continues(Work(c), next)
        /\ next.state.facts = Work(c).state.facts
        /\ next.state.receipt = receipt
        /\ ~There(next.board["triage"])
    BY <1>4, <2>2, <2>3, ReceiptSound
  <2>5. filed = next
    BY DEF Work, receipt
  <2> HIDE DEF next, filed
  <2>6. done = FollowUp(c, filed, "confirmed")
    BY <2>1
  <2> HIDE DEF done
  <2>7. /\ done \in WorkSet /\ Desk(done, "confirmed") /\ Continues(filed, done)
        /\ done.state.facts = filed.state.facts
        /\ done.board["triage"].status = "pending"
    BY <1>0, <2>2, <2>4, <2>5, <2>6, FollowUpDesk
  <2>8. Continues(Work(c), done)
    BY <1>4, <2>4, <2>5, <2>7, ContinuesTransitive
  <2>9. StageStatus(done.state.stage) # "failed"
    BY DEF StageStatus
  <2> QED
    BY <1>1, <1>4, <1>5, <1>7, <2>1, <2>4, <2>5, <2>7, <2>8, <2>9 DEF Result
<1> QED
  BY <1>6, <1>7

\* A reconciled submission is on the desk of the triage team.
LEMMA ReconciledDesk ==
  ASSUME TypeOK, NEW c \in Conversations, Desk(Work(c), "unknown"),
         NEW attempt, attempt.action.receipt \in Nat, attempt.action.receipt # 0
  PROVE  LET next == Reconciled(c, attempt)
         IN  /\ Desk(next, "confirmed")
             /\ Continues(Work(c), next)
             /\ next.state.facts = conv[c].state.facts
             /\ next.board["triage"].status = "pending"
<1> DEFINE receipt == attempt.action.receipt
           row == reviews[c]["submission"]
           closed == IF row.status = "absent" THEN row ELSE [row EXCEPT !.status = "reconciled"]
           board == [reviews[c] EXCEPT !["submission"] = closed]
           filed == [state |-> Plan([Work(c).state EXCEPT !.receipt = receipt]),
                     board |-> board, threads |-> Work(c).threads]
           next == Reconciled(c, attempt)
<1>1. /\ Work(c) \in WorkSet /\ Work(c).state = conv[c].state
      /\ Work(c).board = reviews[c] /\ Work(c).threads = threads
      /\ reviews[c] \in Board /\ row \in Review
  BY WorkType DEF Work, TypeOK, Board, Kinds
<1>2. /\ closed \in Review /\ closed.version = row.version /\ closed.status # "pending"
      /\ closed.status = "absent" <=> row.status = "absent"
  <2>1. CASE row.status = "absent"
    BY <1>1, <2>1
  <2>2. CASE row.status # "absent"
    BY <1>1, <2>2 DEF Review, ReviewStatuses
  <2> QED
    BY <2>1, <2>2
<1>3. next = UpsertReview(c, filed, "triage")
  BY <1>1 DEF Reconciled
<1> HIDE DEF closed
<1>4. /\ board \in Board /\ board["submission"] = closed
      /\ \A k \in Kinds \ {"submission"} : board[k] = reviews[c][k]
  BY <1>1, <1>2 DEF Board, Kinds
<1> HIDE DEF board, receipt, next
<1>5. receipt \in Nat /\ receipt # 0
  BY DEF receipt
<1>6. There(board["submission"]) <=> There(Work(c).board["submission"])
  BY <1>1, <1>2, <1>4 DEF There
<1>7. /\ filed \in WorkSet
      /\ Sound(filed, "confirmed") /\ Planned(filed.state, "confirmed")
      /\ Continues(Work(c), filed)
      /\ filed.state.facts = Work(c).state.facts
      /\ filed.state.receipt = receipt
      /\ filed.state.priority = "urgent" =>
           /\ There(filed.board["urgency"])
           /\ filed.board["urgency"].version = filed.state.version
      /\ ~There(filed.board["triage"])
  BY <1>1, <1>2, <1>4, <1>5, <1>6, ReceiptSound
<1> HIDE DEF filed
<1>8. Reason("triage", filed.state, "confirmed")
  BY <1>5, <1>7 DEF Planned, Reason
<1>9. /\ next \in WorkSet /\ next.state = filed.state
      /\ next.board["urgency"] = filed.board["urgency"]
      /\ next.board["triage"] = Proposed(filed.board["triage"], "triage", filed.state)
  BY <1>3, <1>7, UpsertEffect DEF Kinds
<1>10. /\ Sound(next, "confirmed")
       /\ There(next.board["triage"]) /\ next.board["triage"].version = filed.state.version
  BY <1>3, <1>7, <1>8, UpsertSound DEF Kinds
<1>11. Continues(filed, next)
  BY <1>3, <1>7, UpsertContinues DEF Sound, RowsFit, Kinds
<1>12. next.board["triage"].status = "pending"
  BY <1>7, <1>9, ProposedRow, BoardRows DEF Kinds
<1>13. Continues(Work(c), next)
  BY <1>1, <1>7, <1>9, <1>11, ContinuesTransitive
<1>14. Desk(next, "confirmed")
  BY <1>7, <1>9, <1>10 DEF Desk, Current
<1> QED
  BY <1>1, <1>7, <1>9, <1>12, <1>13, <1>14 DEF next

-----------------------------------------------------------------------------
(* What every step keeps. *)

\* A desk is in order whatever the threads hold.
LEMMA DeskOf ==
  ASSUME NEW a, NEW b, NEW status, a.state = b.state, a.board = b.board, Desk(a, status)
  PROVE  Desk(b, status)
BY DEF Desk, Sound, RowsFit, Current

\* Whoever waits for a triage decision does so at a pending review.
LEMMA TriageStays ==
  ASSUME NEW work \in WorkSet, NEW status, Desk(work, status), AwaitsTriage(work)
  PROVE  work.board["triage"].status = "pending"
<1>1. work.board["triage"].version \in Nat /\ work.state.version \in Nat
  BY BoardRows DEF Kinds
<1> QED
  BY <1>1 DEF Desk, Sound, RowsFit, Current, AwaitsTriage

\* A customer the core knows stays known.
LEMMA AccessStays ==
  ASSUME SubmissionInv, ClaimsGrow, NEW owner \in Customers, NEW input, Accessible(owner, input)
  PROVE  Accessible(owner, input)'
<1>1. ASSUME NEW a \in ActionIds, claims[a].owner = owner
      PROVE  claims'[a].owner = owner
  <2>1. claims[a] # NoClaim
    BY <1>1, NullAssumption DEF NoClaim
  <2> QED
    BY <1>1, <2>1 DEF ClaimsGrow, Filed
<1>2. ClaimKnown(claims, owner) => ClaimKnown(claims', owner)
  BY <1>1 DEF ClaimKnown
<1> QED
  BY <1>2 DEF Accessible

\* A step that carries the boards on and adds no thread keeps the decisions in
\* the past and the checkpoints they resumed.
LEMMA DecisionsStay ==
  ASSUME ReviewInv, TypeOK', decisions' = decisions, threads' \subseteq threads,
         \A c \in Conversations, k \in Kinds : There(reviews[c][k]) =>
           /\ There(reviews'[c][k])
           /\ reviews[c][k].version <= reviews'[c][k].version
           /\ reviews'[c][k].version = reviews[c][k].version /\ reviews'[c][k].status = "pending"
                => reviews[c][k].status = "pending"
  PROVE  DecisionsArePast' /\ CheckpointMatchesDecision'
<1>1. ASSUME NEW v \in decisions
      PROVE  LET row == reviews'[v.conv][v.kind]
             IN  /\ There(row)
                 /\ v.version <= row.version
                 /\ v.version = row.version => row.status # "pending"
  <2>1. v.conv \in Conversations /\ v.kind \in Kinds /\ v.version \in Nat
    BY DEF ReviewInv, SubmissionInv, TypeOK, Verdict
  <2>2. /\ reviews[v.conv][v.kind].version \in Nat
        /\ reviews'[v.conv][v.kind].version \in Nat
    BY <2>1 DEF ReviewInv, SubmissionInv, TypeOK, Board, Review
  <2>3. /\ There(reviews[v.conv][v.kind])
        /\ v.version <= reviews[v.conv][v.kind].version
        /\ v.version = reviews[v.conv][v.kind].version =>
             reviews[v.conv][v.kind].status # "pending"
    BY DEF ReviewInv, DecisionsArePast
  <2> QED
    BY <2>1, <2>2, <2>3
<1>2. DecisionsArePast'
  BY <1>1 DEF DecisionsArePast, There
<1>3. CheckpointMatchesDecision'
  BY DEF ReviewInv, CheckpointMatchesDecision
<1> QED
  BY <1>2, <1>3

\* A delivery stays acceptable while nothing happens to its conversation, and
\* its task stays queued.
LEMMA DeliveryStays ==
  ASSUME ReviewInv, ClaimsGrow, NEW i \in 1..Len(outbox), NEW d, d = outbox[i],
         conv'[d.conv].owner = conv[d.conv].owner,
         conv'[d.conv].state.version = conv[d.conv].state.version,
         conv'[d.conv].state.facts = conv[d.conv].state.facts,
         actions[d.conv].status = "pending" => actions'[d.conv].status = "pending",
         \A t \in tasks : t.conv = d.conv => t \in tasks'
  PROVE  /\ d \in Delivery
         /\ Acceptable(d)'
         /\ \E t \in tasks' : IsDeliveryOf(d, t) /\ t.status = "queued"
<1>1. d \in Delivery
  BY DEF ReviewInv, SubmissionInv, TypeOK
<1>2. Acceptable(d) /\ \E t \in tasks : IsDeliveryOf(d, t) /\ t.status = "queued"
  BY DEF ReviewInv, DeliveriesAreAcceptable
<1>3. conv[d.conv].owner \in Customers /\ SubmissionInv
  BY <1>2 DEF Acceptable, ReviewInv
<1>4. \A owner \in Customers : Accessible(owner, d.input) => Accessible(owner, d.input)'
  BY <1>3, AccessStays
<1>5. Acceptable(d)'
  BY <1>2, <1>4 DEF Acceptable, Accessible
<1> QED
  BY <1>1, <1>2, <1>5 DEF IsDeliveryOf

\* So it is for a whole outbox that loses at most its head.
LEMMA OutboxStays ==
  ASSUME ReviewInv, ClaimsGrow,
         outbox' = outbox \/ (outbox # <<>> /\ outbox' = Tail(outbox)),
         \A i \in 1..Len(outbox) :
           outbox[i] \in {outbox'[j] : j \in 1..Len(outbox')} =>
             LET c == outbox[i].conv
             IN  /\ conv'[c].owner = conv[c].owner
                 /\ conv'[c].state.version = conv[c].state.version
                 /\ conv'[c].state.facts = conv[c].state.facts
                 /\ actions[c].status = "pending" => actions'[c].status = "pending"
                 /\ \A t \in tasks : t.conv = c => t \in tasks'
  PROVE  DeliveriesAreAcceptable'
<1>1. outbox \in Seq(Delivery)
  BY DEF ReviewInv, SubmissionInv, TypeOK
<1>2. ASSUME NEW j \in 1..Len(outbox')
      PROVE  LET i == IF outbox' = outbox THEN j ELSE j + 1
             IN  i \in 1..Len(outbox) /\ outbox[i] = outbox'[j]
  <2>1. CASE outbox' = outbox
    BY <2>1
  <2>2. CASE outbox' # outbox
    BY <1>1, <2>2
  <2> QED
    BY <2>1, <2>2
<1>3. ASSUME NEW j \in 1..Len(outbox'), NEW d, d = outbox'[j]
      PROVE  Acceptable(d)' /\ \E t \in tasks' : IsDeliveryOf(d, t) /\ t.status = "queued"
  <2>1. PICK i \in 1..Len(outbox) : outbox[i] = d
    BY <1>2, <1>3
  <2> QED
    BY <1>3, <2>1, DeliveryStays
<1>4. ASSUME NEW j \in 1..Len(outbox'), NEW k \in 1..Len(outbox'),
             outbox'[j].conv = outbox'[k].conv
      PROVE  j = k
  <2> DEFINE at(m) == IF outbox' = outbox THEN m ELSE m + 1
  <2>1. /\ at(j) \in 1..Len(outbox) /\ at(k) \in 1..Len(outbox)
        /\ outbox[at(j)] = outbox'[j] /\ outbox[at(k)] = outbox'[k]
    BY <1>2
  <2>2. at(j) = at(k)
    <3> HIDE DEF at
    <3> QED
      BY <1>4, <2>1 DEF ReviewInv, DeliveriesAreAcceptable
  <2> QED
    BY <2>2
<1> QED
  BY <1>3, <1>4 DEF DeliveriesAreAcceptable, Acceptable, IsDeliveryOf, Accessible

\* An accepted task is the only one of its conversation in the outbox.
LEMMA AcceptedOutbox ==
  ASSUME ReviewInv, NEW c \in Conversations, NEW kind, NEW message, NEW input,
         ~Busy(c), Accept(c, kind, message, input), UNCHANGED <<conv, claims>>,
         \A e \in Conversations \ {c} : actions'[e] = actions[e],
         NEW new, new = [conv |-> c, kind |-> kind, message |-> message,
                         version |-> conv[c].state.version, input |-> input],
         Acceptable(new)'
  PROVE  DeliveriesAreAcceptable'
<1>1. outbox \in Seq(Delivery)
  BY DEF ReviewInv, SubmissionInv, TypeOK
<1>2. /\ outbox' = Append(outbox, new)
      /\ tasks' = tasks \cup {[conv |-> c, kind |-> kind, message |-> message,
                               version |-> conv[c].state.version, status |-> "queued",
                               awaits |-> "none"]}
  BY DEF Accept
<1>3. /\ Len(outbox') = Len(outbox) + 1 /\ outbox'[Len(outbox) + 1] = new
      /\ \A i \in 1..Len(outbox) : outbox'[i] = outbox[i]
      /\ Len(outbox) \in Nat
  BY <1>1, <1>2
<1>4. ASSUME NEW i \in 1..Len(outbox), NEW d, d = outbox[i]
      PROVE  /\ d.conv # c /\ d \in Delivery /\ Acceptable(d)'
             /\ \E t \in tasks' : IsDeliveryOf(d, t) /\ t.status = "queued"
  <2>1. PICK t \in tasks : IsDeliveryOf(d, t) /\ t.status = "queued"
    BY <1>4 DEF ReviewInv, DeliveriesAreAcceptable
  <2>2. d.conv # c
    BY <2>1 DEF Busy, IsDeliveryOf
  <2>3. d \in Delivery /\ d.conv \in Conversations
    <3>1. d \in Delivery
      BY <1>1, <1>4
    <3> QED
      BY <3>1 DEF Delivery
  <2>4. ClaimsGrow
    BY DEF ClaimsGrow
  <2>5. /\ conv' = conv /\ actions'[d.conv] = actions[d.conv]
        /\ \A s \in tasks : s \in tasks'
    BY <1>2, <2>2, <2>3
  <2>6. Acceptable(d)' /\ \E s \in tasks' : IsDeliveryOf(d, s) /\ s.status = "queued"
    BY <1>4, <2>4, <2>5, DeliveryStays
  <2> QED
    BY <2>2, <2>3, <2>6
<1>5. new.conv = c /\ \E t \in tasks' : IsDeliveryOf(new, t) /\ t.status = "queued"
  <2> DEFINE t == [conv |-> c, kind |-> kind, message |-> message,
                   version |-> conv[c].state.version, status |-> "queued", awaits |-> "none"]
  <2>1. t \in tasks' /\ IsDeliveryOf(new, t) /\ t.status = "queued"
    BY <1>2 DEF IsDeliveryOf
  <2> QED
    BY <2>1
<1>6. ASSUME NEW i \in 1..Len(outbox'), NEW d, d = outbox'[i]
      PROVE  Acceptable(d)' /\ \E t \in tasks' : IsDeliveryOf(d, t) /\ t.status = "queued"
  <2>1. i \in 1..Len(outbox) \/ d = new
    BY <1>3, <1>6
  <2> QED
    BY <1>3, <1>4, <1>5, <1>6, <2>1
<1>7. ASSUME NEW i \in 1..Len(outbox'), NEW j \in 1..Len(outbox'),
             outbox'[i].conv = outbox'[j].conv
      PROVE  i = j
  <2>1. CASE i \in 1..Len(outbox) /\ j \in 1..Len(outbox)
    BY <1>3, <1>7, <2>1 DEF ReviewInv, DeliveriesAreAcceptable
  <2>2. CASE ~(i \in 1..Len(outbox) /\ j \in 1..Len(outbox))
    BY <1>3, <1>4, <1>5, <1>7, <2>2
  <2> QED
    BY <2>1, <2>2
<1> QED
  BY <1>6, <1>7 DEF DeliveriesAreAcceptable, Acceptable, IsDeliveryOf, Accessible

-----------------------------------------------------------------------------
(* The requests. *)

\* A new desk: nothing has been asked of an employee.
LEMMA OpenedDesk ==
  ASSUME NEW facts \in FactMap, NEW held \in SUBSET Verdict
  PROVE  LET work == [state |-> Plan(InitialState(facts)), board |-> EmptyBoard, threads |-> held]
         IN  /\ work \in WorkSet
             /\ Sound(work, "none") /\ Planned(work.state, "none")
             /\ work.state.facts = facts
             /\ work.state.receipt = 0
             /\ work.state.priority = "urgent" <=> Triggered(facts)
<1> DEFINE opened == InitialState(facts)
           state == Plan(opened)
           work == [state |-> state, board |-> EmptyBoard, threads |-> held]
<1>1. /\ opened \in State /\ opened.version = 1 /\ opened.receipt = 0
      /\ opened.facts = facts /\ opened.priority = "routine" /\ opened.outcome = NoOutcome
  BY InitialStateType DEF InitialState
<1> HIDE DEF opened
<1>2. /\ state \in State /\ state.version = 1 /\ state.receipt = 0
      /\ state.facts = facts /\ state.outcome = NoOutcome
      /\ state.priority = "urgent" <=> Triggered(facts)
      /\ state.stage \in {"awaiting_customer", "awaiting_confirmation"}
      /\ state.stage = "awaiting_confirmation" <=> Missing(facts) = {}
  BY <1>1, PlanEffect
<1> HIDE DEF state
<1>3. EmptyBoard \in Board /\ \A k \in Kinds : EmptyBoard[k] = NoReview
  BY NullTypes DEF EmptyBoard, Board
<1>4. NoReview.status = "absent" /\ NoReview.version = 0
  BY DEF NoReview
<1>5. work \in WorkSet /\ work.state = state /\ work.board = EmptyBoard
  BY <1>2, <1>3 DEF WorkSet
<1> HIDE DEF work
<1>6. RowsFit(work, "none")
  BY <1>2, <1>3, <1>4, <1>5 DEF RowsFit, There, Kinds
<1>7. Floor(state)
  BY <1>2 DEF Floor, NoOutcome
<1>8. Sound(work, "none") /\ Planned(state, "none")
  BY <1>2, <1>5, <1>6, <1>7 DEF Sound, Planned
<1> QED
  BY <1>2, <1>5, <1>8 DEF work, state, opened

\* Opening a conversation disturbs no other.
LEMMA OpeningReviews ==
  ASSUME ReviewInv, SubmissionInv', NEW c \in Conversations, ~Created(c), NEW owner,
         NEW work \in WorkSet,
         conv' = [conv EXCEPT ![c] = [owner |-> owner, state |-> work.state]],
         reviews' = [reviews EXCEPT ![c] = work.board],
         threads' \subseteq threads,
         UNCHANGED <<tasks, outbox, actions, decisions, claims>>,
         owner # NoOwner, Desk(work, "none"), ValidDraft(owner, work.state.facts),
         owner \notin Customers =>
           /\ work.state.facts["policy_ref"].value = Absent
           /\ work.state.facts["vehicle_ref"].value = Absent
  PROVE  ReviewInv'
<1>0. SubmissionInv /\ TypeOK /\ TypeOK'
  BY DEF ReviewInv, SubmissionInv
<1>1. /\ conv'[c].owner = owner /\ conv'[c].state = work.state /\ reviews'[c] = work.board
      /\ \A e \in Conversations \ {c} : conv'[e] = conv[e] /\ reviews'[e] = reviews[e]
  BY <1>0 DEF TypeOK
<1>2. /\ actions[c].status = "none"
      /\ \A k \in Kinds : ~There(reviews[c][k]) /\ reviews[c][k].status # "pending"
      /\ conv[c].owner \notin Customers
  BY NullAssumption DEF ReviewInv, SubmissionInv, IntentsAreOwned, Created, NothingUnopened,
     EmptyBoard, NoReview, There
<1>3. DesksAreInOrder'
  <2> SUFFICES ASSUME NEW e \in Conversations
               PROVE  Desk([state |-> conv'[e].state, board |-> reviews'[e], threads |-> threads'],
                           actions[e].status)
    BY DEF DesksAreInOrder, Work
  <2>1. CASE e = c
    BY <1>1, <1>2, <2>1, DeskOf
  <2>2. CASE e # c
    <3>1. Desk(Work(e), actions[e].status)
      BY DEF ReviewInv, DesksAreInOrder
    <3>2. Work(e).state = conv'[e].state /\ Work(e).board = reviews'[e]
      BY <1>1, <2>2 DEF Work
    <3> QED
      BY <3>1, <3>2, DeskOf
  <2> QED
    BY <2>1, <2>2
<1>4. DecisionsArePast' /\ CheckpointMatchesDecision'
  <2>1. \A e \in Conversations, k \in Kinds : There(reviews[e][k]) => reviews'[e] = reviews[e]
    BY <1>1, <1>2
  <2>2. \A e \in Conversations, k \in Kinds : reviews[e][k].version \in Nat
    BY <1>0 DEF TypeOK, Board, Review
  <2> QED
    BY <1>0, <2>1, <2>2, DecisionsStay
<1>5. NothingUnopened'
  BY <1>1 DEF ReviewInv, NothingUnopened, Created
<1>6. FactsAreValid'
  BY <1>1 DEF ReviewInv, FactsAreValid
<1>7. IntentsAreValid'
  BY <1>1, <1>2 DEF ReviewInv, IntentsAreValid
<1>8. DeliveriesAreAcceptable'
  <2>1. ASSUME NEW i \in 1..Len(outbox)
        PROVE  outbox[i].conv \in Conversations \ {c}
    <3>1. outbox[i] \in Delivery
      BY <1>0 DEF TypeOK
    <3>2. outbox[i].conv \in Conversations
      BY <3>1 DEF Delivery
    <3> QED
      BY <1>2, <3>2 DEF ReviewInv, DeliveriesAreAcceptable, Acceptable
  <2>2. ClaimsGrow
    BY DEF ClaimsGrow
  <2> QED
    BY <1>1, <2>1, <2>2, OutboxStays
<1>9. AcceptedNeverFails'
  BY DEF ReviewInv, AcceptedNeverFails
<1>10. WaitingTasksAreFollowed'
  <2> SUFFICES ASSUME NEW t \in tasks, t.status = "awaiting_review"
               PROVE  /\ t.awaits = "service" => reviews'[t.conv]["service"].status = "pending"
                      /\ t.kind = "confirmation" =>
                           \/ actions[t.conv].status = "unknown"
                           \/ reviews'[t.conv]["triage"].status = "pending"
                      /\ t.kind = "message" /\ t.awaits = "none" => Submitted(actions[t.conv].status)
    BY DEF WaitingTasksAreFollowed
  <2>1. t.conv \in Conversations
    BY <1>0 DEF TypeOK, Task
  <2>2. /\ t.awaits = "service" => reviews[t.conv]["service"].status = "pending"
        /\ t.kind = "confirmation" =>
             \/ actions[t.conv].status = "unknown"
             \/ reviews[t.conv]["triage"].status = "pending"
        /\ t.kind = "message" /\ t.awaits = "none" => Submitted(actions[t.conv].status)
    BY DEF ReviewInv, WaitingTasksAreFollowed
  <2>3. t.conv = c => t.awaits # "service" /\ t.kind # "confirmation"
    BY <1>2, <2>2 DEF Kinds
  <2> QED
    BY <1>1, <2>1, <2>2, <2>3
<1> QED
  BY <1>3, <1>4, <1>5, <1>6, <1>7, <1>8, <1>9, <1>10 DEF ReviewInv

\* A customer's new conversation starts with an empty desk.
LEMMA CreateReviews ==
  ASSUME ReviewInv, SubmissionInv', NEW owner \in Customers, Create(owner)
  PROVE  ReviewInv'
<1> DEFINE work == [state |-> Plan(InitialState(NoFacts)), board |-> EmptyBoard, threads |-> threads]
<1>0. TypeOK
  BY DEF ReviewInv, SubmissionInv
<1>1. PICK c \in Conversations :
        /\ ~Created(c)
        /\ conv' = [conv EXCEPT ![c] = [owner |-> owner, state |-> work.state]]
        /\ UNCHANGED <<tasks, outbox, actions, reviews, decisions, claims, threads>>
  BY DEF Create
<1>2. ~Triggered(NoFacts) /\ ValidDraft(owner, NoFacts)
  BY DEF Triggered, ValidDraft, NoFacts, NoFact, Absent, Fields, StatusFields
<1>3. /\ work \in WorkSet /\ Sound(work, "none") /\ Planned(work.state, "none")
      /\ work.state.facts = NoFacts /\ work.state.receipt = 0
      /\ work.state.priority # "urgent"
      /\ work.board = EmptyBoard
  BY <1>0, <1>2, OpenedDesk, NullTypes DEF TypeOK
<1> HIDE DEF work
<1>4. Desk(work, "none")
  BY <1>3 DEF Desk, Current
<1>5. reviews' = [reviews EXCEPT ![c] = work.board]
  BY <1>0, <1>1, <1>3 DEF ReviewInv, NothingUnopened, TypeOK
<1>6. owner # NoOwner
  BY NullAssumption
<1> QED
  BY <1>1, <1>2, <1>3, <1>4, <1>5, <1>6, OpeningReviews

\* What a person without a login reports holds no reference.
LEMMA PreauthFactsValid ==
  ASSUME NEW owner, NEW injury \in ReportedStatus, NEW drivable \in ReportedStatus
  PROVE  LET facts == PreauthFacts(injury, drivable)
         IN  /\ ValidDraft(owner, facts)
             /\ facts["policy_ref"].value = Absent
             /\ facts["vehicle_ref"].value = Absent
<1> DEFINE facts == PreauthFacts(injury, drivable)
<1>1. /\ facts["policy_ref"].value = Absent
      /\ facts["vehicle_ref"].value = Absent
      /\ facts["injury_reported"].value = injury
      /\ facts["drivable"].value = drivable
  BY DEF PreauthFacts, NoFacts, NoFact, Fields, StatusFields
<1> HIDE DEF facts
<1> QED
  BY <1>1 DEF ValidDraft, StatusFields, facts

\* A request for help before login starts with an alert, or with a request
\* for an employee.
LEMMA HelpReviews ==
  ASSUME ReviewInv, SubmissionInv', NEW request,
         NEW injury \in ReportedStatus, NEW drivable \in ReportedStatus,
         Help(request, injury, drivable)
  PROVE  ReviewInv'
<1> DEFINE facts == PreauthFacts(injury, drivable)
           state == Plan(InitialState(facts))
           kind == IF state.priority = "urgent" THEN "urgency" ELSE "service"
           begun == [state |-> state, board |-> EmptyBoard, threads |-> threads]
           work(c) == UpsertReview(c, begun, kind)
<1>0. TypeOK
  BY DEF ReviewInv, SubmissionInv
<1>1. PICK c \in Conversations :
        LET next == UpsertReview(c, [state |-> state, board |-> reviews[c], threads |-> threads], kind)
        IN  /\ ~Created(c)
            /\ conv' = [conv EXCEPT ![c] = [owner |-> "preauth", state |-> state]]
            /\ reviews' = [reviews EXCEPT ![c] = next.board]
            /\ threads' = next.threads
            /\ UNCHANGED <<tasks, outbox, actions, decisions, claims>>
  BY DEF Help
<1>2. reviews[c] = EmptyBoard
  BY <1>1 DEF ReviewInv, NothingUnopened
<1>3. facts \in FactMap
  BY PreauthFactsType
<1>4. /\ ValidDraft("preauth", facts)
      /\ facts["policy_ref"].value = Absent /\ facts["vehicle_ref"].value = Absent
  BY PreauthFactsValid
<1> HIDE DEF facts
<1>5. /\ begun \in WorkSet /\ Sound(begun, "none") /\ Planned(begun.state, "none")
      /\ begun.state = state /\ begun.threads = threads
      /\ state.facts = facts /\ state.receipt = 0
      /\ begun.board = EmptyBoard
  BY <1>0, <1>3, OpenedDesk DEF TypeOK
<1> HIDE DEF state
<1>6. kind \in Kinds /\ Reason(kind, state, "none")
  BY DEF Reason, Kinds
<1>7. /\ conv' = [conv EXCEPT ![c] = [owner |-> "preauth", state |-> state]]
      /\ reviews' = [reviews EXCEPT ![c] = work(c).board]
      /\ threads' = work(c).threads
  BY <1>1, <1>2
<1>8. ~Created(c) /\ UNCHANGED <<tasks, outbox, actions, decisions, claims>>
  BY <1>1
<1> HIDE DEF begun
<1>9. /\ work(c) \in WorkSet /\ work(c).state = state
      /\ work(c).threads \subseteq threads
  BY <1>5, <1>6, UpsertEffect
<1>10. /\ Sound(work(c), "none")
       /\ There(work(c).board[kind]) /\ work(c).board[kind].version = state.version
  BY <1>5, <1>6, UpsertSound
<1>11. Desk(work(c), "none")
  BY <1>5, <1>9, <1>10 DEF Desk, Current
<1>12. "preauth" # NoOwner
  BY DEF NoOwner
<1> HIDE DEF work, kind
<1> QED
  BY <1>4, <1>5, <1>7, <1>8, <1>9, <1>11, <1>12, OpeningReviews

\* Attaching changes the owner only: what was reported before login holds no
\* reference, and whoever has a task or an intent is the owner already.
LEMMA AttachReviews ==
  ASSUME ReviewInv, SubmissionInv', NEW owner \in Customers, NEW session \in helpSessions,
         Attach(owner, session)
  PROVE  ReviewInv'
<1> DEFINE c == session.conv
<1>0. SubmissionInv /\ TypeOK /\ TypeOK'
  BY DEF ReviewInv, SubmissionInv
<1>1. c \in Conversations /\ conv \in [Conversations -> Conversation]
  BY <1>0 DEF TypeOK
<1>2. /\ conv'[c].owner = owner /\ conv'[c].state = conv[c].state
      /\ \A e \in Conversations \ {c} : conv'[e] = conv[e]
  BY <1>1 DEF Attach, Conversation
<1>3. /\ UNCHANGED <<tasks, outbox, actions, reviews, decisions, claims, threads>>
      /\ conv[c].owner \in {"preauth", owner}
  BY DEF Attach
<1> HIDE DEF c
<1>4. "preauth" \notin Customers /\ "preauth" # NoOwner /\ NoOwner \notin Customers
  BY NullAssumption DEF NoOwner
<1>5. conv[c].owner \in Customers => conv'[c].owner = conv[c].owner
  BY <1>2, <1>3, <1>4
<1>6. DesksAreInOrder'
  <2> SUFFICES ASSUME NEW e \in Conversations
               PROVE  Desk([state |-> conv'[e].state, board |-> reviews[e], threads |-> threads],
                           actions[e].status)
    BY <1>3 DEF DesksAreInOrder, Work
  <2>1. conv'[e].state = conv[e].state /\ Desk(Work(e), actions[e].status)
    BY <1>2 DEF ReviewInv, DesksAreInOrder
  <2> QED
    BY <2>1 DEF Work
<1>7. DecisionsArePast' /\ CheckpointMatchesDecision'
  BY <1>3 DEF ReviewInv, DecisionsArePast, There, CheckpointMatchesDecision
<1>8. NothingUnopened'
  BY <1>1, <1>2, <1>3, <1>4 DEF ReviewInv, NothingUnopened, Created
<1>9. FactsAreValid'
  <2> SUFFICES ASSUME NEW e \in Conversations
               PROVE  LET facts == conv'[e].state.facts
                      IN  /\ ValidDraft(conv'[e].owner, facts)
                          /\ conv'[e].owner \notin Customers =>
                               /\ facts["policy_ref"].value = Absent
                               /\ facts["vehicle_ref"].value = Absent
    BY DEF FactsAreValid
  <2>1. CASE e # c \/ conv[c].owner = owner
    BY <1>2, <2>1 DEF ReviewInv, FactsAreValid
  <2>2. CASE e = c /\ conv[c].owner # owner
    <3>1. conv[c].owner \notin Customers
      BY <1>3, <1>4, <2>2
    <3>2. LET facts == conv[c].state.facts
          IN  /\ ValidDraft(conv[c].owner, facts)
              /\ facts["policy_ref"].value = Absent
              /\ facts["vehicle_ref"].value = Absent
      BY <1>1, <3>1 DEF ReviewInv, FactsAreValid
    <3>3. ValidDraft(owner, conv[c].state.facts)
      BY <3>2 DEF ValidDraft
    <3> QED
      BY <1>2, <2>2, <3>2, <3>3
  <2> QED
    BY <2>1, <2>2
<1>10. IntentsAreValid'
  <2>1. \A e \in Conversations : actions[e].status # "none" => conv'[e].owner = conv[e].owner
    BY <1>0, <1>2, <1>5 DEF SubmissionInv, IntentsAreOwned
  <2> QED
    BY <1>3, <2>1 DEF ReviewInv, IntentsAreValid
<1>11. DeliveriesAreAcceptable'
  <2>1. ASSUME NEW i \in 1..Len(outbox)
        PROVE  /\ outbox[i].conv \in Conversations
               /\ conv[outbox[i].conv].owner \in Customers
    <3>1. outbox[i] \in Delivery
      BY <1>0 DEF TypeOK
    <3>2. outbox[i].conv \in Conversations
      BY <3>1 DEF Delivery
    <3> QED
      BY <3>2 DEF ReviewInv, DeliveriesAreAcceptable, Acceptable
  <2>2. ClaimsGrow
    BY <1>3 DEF ClaimsGrow
  <2>3. ASSUME NEW i \in 1..Len(outbox)
        PROVE  conv'[outbox[i].conv] = conv[outbox[i].conv] \/
               /\ conv'[outbox[i].conv].owner = conv[outbox[i].conv].owner
               /\ conv'[outbox[i].conv].state = conv[outbox[i].conv].state
    BY <1>2, <1>5, <2>1
  <2> QED
    BY <1>3, <2>2, <2>3, OutboxStays
<1>12. AcceptedNeverFails' /\ WaitingTasksAreFollowed'
  BY <1>3 DEF ReviewInv, AcceptedNeverFails, WaitingTasksAreFollowed
<1> QED
  BY <1>6, <1>7, <1>8, <1>9, <1>10, <1>11, <1>12 DEF ReviewInv

\* An accepted message stays acceptable until the worker takes it.
LEMMA EnqueueMessageReviews ==
  ASSUME ReviewInv, SubmissionInv', NEW owner \in Customers, NEW c \in Conversations,
         NEW m \in MessageIds, NEW input \in MessageInputs, EnqueueMessage(owner, c, m, input)
  PROVE  ReviewInv'
<1>0. SubmissionInv /\ TypeOK
  BY DEF ReviewInv, SubmissionInv
<1>1. /\ conv[c].owner = owner /\ ~Busy(c)
      /\ UNCHANGED <<conv, actions, reviews, decisions, helpSessions, claims, threads>>
      /\ Accept(c, "message", m, input)
      /\ Accessible(owner, input)
  BY DEF EnqueueMessage
<1> DEFINE d == [conv |-> c, kind |-> "message", message |-> m,
                 version |-> conv[c].state.version, input |-> input]
<1>2. input.intent = "intake" =>
        ValidDraft(owner, UpdateFacts(conv[c].state.facts, input.reports, m))
  <2>1. CASE Reported(input.reports) # {}
    BY <2>1 DEF EnqueueMessage
  <2>2. CASE Reported(input.reports) = {}
    <3>1. conv[c].state.facts \in FactMap
      BY <1>0 DEF TypeOK, Conversation, State
    <3>2. UpdateFacts(conv[c].state.facts, input.reports, m) = conv[c].state.facts
      BY <2>2, <3>1, UpdateFactsSilent
    <3> QED
      BY <1>1, <3>2 DEF ReviewInv, FactsAreValid
  <2> QED
    BY <2>1, <2>2
<1>3. ASSUME NEW new, new = d
      PROVE  Acceptable(new)'
  <2>1. Accessible(owner, input)'
    BY <1>1 DEF Accessible
  <2> QED
    BY <1>1, <1>2, <1>3, <2>1 DEF Acceptable, Accessible
<1>4. DeliveriesAreAcceptable'
  BY <1>1, <1>3, AcceptedOutbox
<1>5. tasks' = tasks \cup {[conv |-> c, kind |-> "message", message |-> m,
                            version |-> conv[c].state.version, status |-> "queued",
                            awaits |-> "none"]}
  BY <1>1 DEF Accept
<1>6. AcceptedNeverFails' /\ WaitingTasksAreFollowed'
  BY <1>1, <1>5 DEF ReviewInv, AcceptedNeverFails, WaitingTasksAreFollowed
<1>7. DesksAreInOrder'
  BY <1>1 DEF ReviewInv, DesksAreInOrder, Work
<1>8. DecisionsArePast' /\ CheckpointMatchesDecision'
  BY <1>1 DEF ReviewInv, DecisionsArePast, There, CheckpointMatchesDecision
<1>9. NothingUnopened' /\ FactsAreValid'
  BY <1>1 DEF ReviewInv, NothingUnopened, Created, FactsAreValid
<1>10. IntentsAreValid'
  BY <1>1, <1>5 DEF ReviewInv, IntentsAreValid
<1> QED
  BY <1>4, <1>6, <1>7, <1>8, <1>9, <1>10 DEF ReviewInv

\* An accepted confirmation is the first of its conversation: another one of
\* the same version is refused, and of a later one it is too late.
LEMMA ConfirmationIsFirst ==
  ASSUME ReviewInv, NEW owner \in Customers, NEW c \in Conversations,
         EnqueueConfirmation(owner, c)
  PROVE  /\ actions[c].status = "none"
         /\ actions'[c].status = "pending"
         /\ actions'[c].draft = Draft(c, conv[c].state)
         /\ \A e \in Conversations \ {c} : actions'[e] = actions[e]
<1>1. PICK row \in Prepared(actions, claims, c, Draft(c, conv[c].state)) :
        actions' = [actions EXCEPT ![c] = row]
  BY DEF EnqueueConfirmation
<1>2. /\ actions'[c] = row
      /\ \A e \in Conversations \ {c} : actions'[e] = actions[e]
  BY <1>1 DEF ReviewInv, SubmissionInv, TypeOK
<1>3. ASSUME actions[c].status # "none"
      PROVE  FALSE
  <2>1. row = actions[c] /\ row.draft = Draft(c, conv[c].state)
    BY <1>1, <1>3 DEF Prepared
  <2>2. actions[c].draft.version = conv[c].state.version
    BY <2>1 DEF Draft
  <2>3. \E t \in tasks : t.conv = c /\ t.kind = "confirmation" /\ t.version = conv[c].state.version
    BY <1>3, <2>2 DEF ReviewInv, IntentsAreValid
  <2> QED
    BY <2>3 DEF EnqueueConfirmation
<1>4. row.status = "pending" /\ row.draft = Draft(c, conv[c].state)
  BY <1>1, <1>3 DEF Prepared
<1> QED
  BY <1>2, <1>3, <1>4

\* Accepting a confirmation starts the submission.
LEMMA EnqueueConfirmationReviews ==
  ASSUME ReviewInv, SubmissionInv', NEW owner \in Customers, NEW c \in Conversations,
         EnqueueConfirmation(owner, c)
  PROVE  ReviewInv'
<1>0. SubmissionInv /\ TypeOK
  BY DEF ReviewInv, SubmissionInv
<1>1. /\ conv[c].owner = owner /\ ~Busy(c)
      /\ UNCHANGED <<conv, reviews, decisions, helpSessions, claims, threads>>
      /\ Accept(c, "confirmation", NoMessage, NoInput)
      /\ ValidDraft(owner, conv[c].state.facts)
  BY DEF EnqueueConfirmation
<1>2. /\ actions[c].status = "none"
      /\ actions'[c].status = "pending"
      /\ actions'[c].draft.facts = conv[c].state.facts
      /\ actions'[c].draft.version = conv[c].state.version
      /\ \A e \in Conversations \ {c} : actions'[e] = actions[e]
  <2>1. /\ actions[c].status = "none"
        /\ actions'[c].status = "pending"
        /\ actions'[c].draft = Draft(c, conv[c].state)
        /\ \A e \in Conversations \ {c} : actions'[e] = actions[e]
    BY ConfirmationIsFirst
  <2> QED
    BY <2>1 DEF Draft
<1> DEFINE d == [conv |-> c, kind |-> "confirmation", message |-> NoMessage,
                 version |-> conv[c].state.version, input |-> NoInput]
<1>3. ASSUME NEW new, new = d
      PROVE  Acceptable(new)'
  <2>1. /\ new.conv = c /\ new.kind = "confirmation"
        /\ new.version = conv[c].state.version
    BY <1>3
  <2> QED
    BY <1>1, <1>2, <2>1 DEF Acceptable
<1>4. DeliveriesAreAcceptable'
  <2>1. PICK new : new = d
    OBVIOUS
  <2>2. Acceptable(new)' /\ UNCHANGED <<conv, claims>>
    BY <1>1, <1>3, <2>1
  <2> QED
    BY <1>1, <1>2, <2>1, <2>2, AcceptedOutbox
<1>5. tasks' = tasks \cup {[conv |-> c, kind |-> "confirmation", message |-> NoMessage,
                            version |-> conv[c].state.version, status |-> "queued",
                            awaits |-> "none"]}
  BY <1>1 DEF Accept
<1>6. AcceptedNeverFails' /\ WaitingTasksAreFollowed'
  <2>1. ASSUME NEW t \in tasks, t.status = "awaiting_review"
        PROVE  /\ t.awaits = "service" => reviews[t.conv]["service"].status = "pending"
               /\ t.kind = "confirmation" =>
                    \/ actions'[t.conv].status = "unknown"
                    \/ reviews[t.conv]["triage"].status = "pending"
               /\ t.kind = "message" /\ t.awaits = "none" => Submitted(actions'[t.conv].status)
    <3>1. t.conv \in Conversations
      BY <1>0 DEF TypeOK, Task
    <3>2. /\ actions[t.conv].status = "unknown" => actions'[t.conv].status = "unknown"
          /\ Submitted(actions[t.conv].status) => Submitted(actions'[t.conv].status)
      BY <1>2, <3>1 DEF Submitted
    <3> QED
      BY <2>1, <3>2 DEF ReviewInv, WaitingTasksAreFollowed
  <2> QED
    BY <1>1, <1>5, <2>1 DEF ReviewInv, AcceptedNeverFails, WaitingTasksAreFollowed
<1>7. DesksAreInOrder'
  <2> SUFFICES ASSUME NEW e \in Conversations
               PROVE  Desk(Work(e), actions'[e].status)
    BY <1>1 DEF DesksAreInOrder, Work
  <2>1. Desk(Work(e), actions[e].status)
    BY DEF ReviewInv, DesksAreInOrder
  <2>2. CASE e = c
    <3>1. Desk(Work(c), "none")
      BY <1>2, <2>1, <2>2
    <3>2. Desk(Work(c), "pending")
      BY <3>1 DEF Desk, Sound, RowsFit, Planned, Current, There, Submitted
    <3> QED
      BY <1>2, <2>2, <3>2
  <2>3. CASE e # c
    BY <1>2, <2>1, <2>3
  <2> QED
    BY <2>2, <2>3
<1>8. DecisionsArePast' /\ CheckpointMatchesDecision'
  BY <1>1 DEF ReviewInv, DecisionsArePast, There, CheckpointMatchesDecision
<1>9. NothingUnopened' /\ FactsAreValid'
  BY <1>1 DEF ReviewInv, NothingUnopened, Created, FactsAreValid
<1>10. IntentsAreValid'
  <2> SUFFICES ASSUME NEW e \in Conversations, actions'[e].status # "none"
               PROVE  /\ ValidDraft(conv[e].owner, actions'[e].draft.facts)
                      /\ \E t \in tasks' : /\ t.conv = e /\ t.kind = "confirmation"
                                           /\ t.version = actions'[e].draft.version
    BY <1>1 DEF IntentsAreValid
  <2>1. CASE e = c
    <3> DEFINE t == [conv |-> c, kind |-> "confirmation", message |-> NoMessage,
                     version |-> conv[c].state.version, status |-> "queued", awaits |-> "none"]
    <3>1. t \in tasks' /\ t.conv = c /\ t.kind = "confirmation" /\ t.version = conv[c].state.version
      BY <1>5
    <3> QED
      BY <1>1, <1>2, <2>1, <3>1
  <2>2. CASE e # c
    BY <1>2, <1>5, <2>2 DEF ReviewInv, IntentsAreValid
  <2> QED
    BY <2>1, <2>2
<1> QED
  BY <1>4, <1>6, <1>7, <1>8, <1>9, <1>10 DEF ReviewInv

-----------------------------------------------------------------------------
(* The worker. *)

\* Whatever the worker makes of an acceptable delivery, the desk is in order,
\* nobody who waits is forgotten, and the task has not failed.
LEMMA ResultsDesk ==
  ASSUME ReviewInv, NEW d \in Delivery, Acceptable(d), NEW r \in Results(d)
  PROVE  LET c == d.conv
         IN  /\ r.work \in WorkSet
             /\ Desk(r.work, r.action.status)
             /\ Continues(Work(c), r.work)
             /\ ValidDraft(conv[c].owner, r.work.state.facts)
             /\ r.action.draft = actions[c].draft
             /\ actions[c].status = "unknown" => r.action.status = "unknown"
             /\ r.status # "failed"
             /\ r.awaits = "service" => r.work.board["service"].status = "pending"
             /\ d.kind = "confirmation" =>
                  r.action.status = "unknown" \/ r.work.board["triage"].status = "pending"
             /\ Submitted(actions[c].status) => Submitted(r.action.status)
             /\ d.kind = "message" /\ r.status = "awaiting_review" /\ r.awaits = "none" =>
                  Submitted(r.action.status)
<1> DEFINE c == d.conv
<1>0. c \in Conversations /\ TypeOK /\ SubmissionInv
  BY DEF Delivery, ReviewInv, SubmissionInv
<1>1. Desk(Work(c), actions[c].status) /\ ValidDraft(conv[c].owner, conv[c].state.facts)
  BY <1>0 DEF ReviewInv, DesksAreInOrder, FactsAreValid
<1>2. CASE d.kind = "message"
  <2>1. PICK reading \in Readings(d) : r = ProcessMessage(d, reading)
    BY <1>2 DEF Results
  <2>2. /\ Desk(r.work, actions[c].status)
        /\ Continues(Work(c), r.work)
        /\ ValidDraft(conv[c].owner, r.work.state.facts)
        /\ r.action = actions[c]
        /\ r.status # "failed"
        /\ r.awaits = "service" => r.work.board["service"].status = "pending"
        /\ r.status = "awaiting_review" /\ r.awaits = "none" => Submitted(actions[c].status)
    BY <1>0, <1>1, <1>2, <2>1, ProcessMessageDesk
  <2> QED
    BY <1>2, <2>2 DEF Continues
<1>3. CASE d.kind # "message"
  <2>0. d.kind = "confirmation"
    BY <1>3 DEF Delivery
  <2>1. PICK reply \in CoreReplies : r = ProcessConfirmation(d, reply)
    BY <1>3 DEF Results
  <2>2. actions[c].status = "pending"
    BY <2>0 DEF Acceptable
  <2>3. ValidDraft(conv[c].owner, actions[c].draft.facts)
    BY <1>0, <2>2 DEF ReviewInv, IntentsAreValid
  <2>4. /\ Desk(r.work, r.action.status)
        /\ Continues(Work(c), r.work)
        /\ r.work.state.facts = conv[c].state.facts
        /\ r.action.draft = actions[c].draft
        /\ r.status # "failed" /\ r.awaits = "none"
        /\ r.action.status = "unknown" \/ r.work.board["triage"].status = "pending"
    BY <1>0, <1>1, <2>0, <2>1, <2>3, ProcessConfirmationDesk
  <2> QED
    BY <1>1, <2>0, <2>2, <2>4 DEF Continues, Submitted
<1> QED
  BY <1>2, <1>3

\* The head of the outbox is acceptable, and no other delivery is for its
\* conversation.
LEMMA HeadIsAcceptable ==
  ASSUME ReviewInv, outbox # <<>>, NEW d, d = Head(outbox)
  PROVE  /\ d \in Delivery /\ d.conv \in Conversations /\ Acceptable(d)
         /\ \A j \in 1..Len(Tail(outbox)) : Tail(outbox)[j].conv # d.conv
<1>1. outbox \in Seq(Delivery)
  BY DEF ReviewInv, SubmissionInv, TypeOK
<1>2. d = outbox[1] /\ 1 \in 1..Len(outbox) /\ d \in Delivery
  BY <1>1
<1>3. d.conv \in Conversations
  BY <1>2 DEF Delivery
<1>4. Acceptable(d)
  BY <1>2 DEF ReviewInv, DeliveriesAreAcceptable
<1>5. ASSUME NEW j \in 1..Len(Tail(outbox))
      PROVE  Tail(outbox)[j].conv # d.conv
  <2>1. j + 1 \in 1..Len(outbox) /\ Tail(outbox)[j] = outbox[j + 1] /\ j + 1 # 1
    BY <1>1
  <2> QED
    BY <1>2, <2>1 DEF ReviewInv, DeliveriesAreAcceptable
<1> QED
  BY <1>2, <1>3, <1>4, <1>5

\* A committed delivery keeps the invariant.
LEMMA WorkOnceReviews ==
  ASSUME ReviewInv, SubmissionInv', WorkOnce
  PROVE  ReviewInv'
<1>0. SubmissionInv /\ TypeOK /\ TypeOK'
  BY DEF ReviewInv, SubmissionInv
<1>1. PICK d : d = Head(outbox)
  OBVIOUS
<1>2. PICK r \in Results(d) : Deliver(d, r)
  BY <1>1 DEF WorkOnce
<1>3. Progress /\ outbox # <<>> /\ outbox' = Tail(outbox)
  BY <1>0, <1>2, WorkOnceProgress DEF WorkOnce, Deliver
<1> DEFINE c == d.conv
           matches(t) == t.conv = d.conv /\ t.kind = d.kind /\ t.message = d.message
                         /\ t.version = d.version
           after(t) == IF matches(t) THEN [t EXCEPT !.status = r.status, !.awaits = r.awaits] ELSE t
<1>4. /\ d \in Delivery /\ c \in Conversations /\ Acceptable(d)
      /\ \A j \in 1..Len(outbox') : outbox'[j].conv # c
  BY <1>1, <1>3, HeadIsAcceptable
<1>5. /\ r.work \in WorkSet
      /\ Desk(r.work, r.action.status)
      /\ Continues(Work(c), r.work)
      /\ ValidDraft(conv[c].owner, r.work.state.facts)
      /\ r.action.draft = actions[c].draft
      /\ actions[c].status = "unknown" => r.action.status = "unknown"
      /\ r.status # "failed"
      /\ r.awaits = "service" => r.work.board["service"].status = "pending"
      /\ d.kind = "confirmation" =>
           r.action.status = "unknown" \/ r.work.board["triage"].status = "pending"
      /\ Submitted(actions[c].status) => Submitted(r.action.status)
      /\ d.kind = "message" /\ r.status = "awaiting_review" /\ r.awaits = "none" =>
           Submitted(r.action.status)
  BY <1>2, <1>4, ResultsDesk
<1>6. /\ conv' = [conv EXCEPT ![c].state = r.work.state]
      /\ reviews' = [reviews EXCEPT ![c] = r.work.board]
      /\ threads' = r.work.threads
      /\ actions' = [actions EXCEPT ![c] = r.action]
      /\ tasks' = {after(t) : t \in tasks}
      /\ decisions' = decisions
  BY <1>2 DEF Deliver
<1>7. /\ conv'[c].owner = conv[c].owner /\ conv'[c].state = r.work.state
      /\ reviews'[c] = r.work.board /\ actions'[c] = r.action
      /\ \A e \in Conversations \ {c} : /\ conv'[e] = conv[e]
                                        /\ reviews'[e] = reviews[e]
                                        /\ actions'[e] = actions[e]
  BY <1>0, <1>4, <1>6 DEF TypeOK, Conversation
<1>8. \A t \in tasks : t \in Task
  BY <1>0 DEF TypeOK
<1>9. ASSUME NEW t \in tasks
      PROVE  /\ after(t).conv = t.conv /\ after(t).kind = t.kind /\ after(t).version = t.version
             /\ matches(t) => after(t).status = r.status /\ after(t).awaits = r.awaits
             /\ ~matches(t) => after(t) = t
  BY <1>8 DEF Task
<1> HIDE DEF after
<1>10. DesksAreInOrder'
  <2> SUFFICES ASSUME NEW e \in Conversations
               PROVE  Desk([state |-> conv'[e].state, board |-> reviews'[e], threads |-> threads'],
                           actions'[e].status)
    BY DEF DesksAreInOrder, Work
  <2>1. CASE e = c
    BY <1>5, <1>7, <2>1, DeskOf
  <2>2. CASE e # c
    <3>1. Desk(Work(e), actions[e].status)
      BY DEF ReviewInv, DesksAreInOrder
    <3>2. Work(e).state = conv'[e].state /\ Work(e).board = reviews'[e]
      BY <1>7, <2>2 DEF Work
    <3>3. actions'[e] = actions[e]
      BY <1>7, <2>2
    <3> QED
      BY <3>1, <3>2, <3>3, DeskOf
  <2> QED
    BY <2>1, <2>2
<1>11. DecisionsArePast' /\ CheckpointMatchesDecision'
  <2>1. threads' \subseteq threads
    BY <1>5, <1>6 DEF Continues, Work
  <2>2. ASSUME NEW e \in Conversations, NEW k \in Kinds, There(reviews[e][k])
        PROVE  /\ There(reviews'[e][k])
               /\ reviews[e][k].version <= reviews'[e][k].version
               /\ reviews'[e][k].version = reviews[e][k].version /\ reviews'[e][k].status = "pending"
                    => reviews[e][k].status = "pending"
    <3>1. CASE e = c
      <4>1. Work(c).board = reviews[c]
        BY DEF Work
      <4> QED
        BY <1>5, <1>7, <2>2, <3>1, <4>1 DEF Continues
    <3>2. CASE e # c
      <4>1. reviews[e][k].version \in Nat
        BY <1>0 DEF TypeOK, Board, Review
      <4> QED
        BY <1>7, <2>2, <3>2, <4>1
    <3> QED
      BY <3>1, <3>2
  <2> QED
    BY <1>0, <1>6, <2>1, <2>2, DecisionsStay
<1>12. NothingUnopened'
  <2>1. Created(c)
    BY <1>4, NullAssumption DEF Acceptable, Created
  <2> QED
    BY <1>7, <2>1 DEF ReviewInv, NothingUnopened, Created
<1>13. FactsAreValid'
  <2>1. conv[c].owner \in Customers
    BY <1>4 DEF Acceptable
  <2> QED
    BY <1>5, <1>7, <2>1 DEF ReviewInv, FactsAreValid
<1>14. IntentsAreValid'
  <2> SUFFICES ASSUME NEW e \in Conversations, actions'[e].status # "none"
               PROVE  /\ ValidDraft(conv'[e].owner, actions'[e].draft.facts)
                      /\ \E t \in tasks' : /\ t.conv = e /\ t.kind = "confirmation"
                                           /\ t.version = actions'[e].draft.version
    BY DEF IntentsAreValid
  <2>1. actions[e].status # "none" /\ actions'[e].draft = actions[e].draft
    BY <1>3 DEF Progress, IntentsStay
  <2>2. PICK t \in tasks : /\ t.conv = e /\ t.kind = "confirmation"
                           /\ t.version = actions[e].draft.version
    BY <2>1 DEF ReviewInv, IntentsAreValid
  <2>3. after(t) \in tasks'
    BY <1>6
  <2>4. \E s \in tasks' : /\ s.conv = e /\ s.kind = "confirmation"
                          /\ s.version = actions'[e].draft.version
    BY <1>9, <2>1, <2>2, <2>3
  <2>5. conv'[e].owner = conv[e].owner
    BY <1>3 DEF Progress, IntentsStay
  <2> QED
    BY <2>1, <2>4, <2>5 DEF ReviewInv, IntentsAreValid
<1>15. DeliveriesAreAcceptable'
  <2>1. ASSUME NEW i \in 1..Len(outbox),
               outbox[i] \in {outbox'[j] : j \in 1..Len(outbox')}
        PROVE  outbox[i].conv \in Conversations \ {c}
    <3>1. outbox[i] \in Delivery
      BY <1>0 DEF TypeOK
    <3>2. outbox[i].conv \in Conversations
      BY <3>1 DEF Delivery
    <3> QED
      BY <1>4, <2>1, <3>2
  <2>2. \A t \in tasks : t.conv # c => t \in tasks'
    BY <1>6, <1>9
  <2>3. ClaimsGrow
    BY <1>3 DEF Progress
  <2> QED
    BY <1>3, <1>7, <2>1, <2>2, <2>3, OutboxStays
<1>16. AcceptedNeverFails'
  <2> SUFFICES ASSUME NEW t \in tasks
               PROVE  after(t).status # "failed"
    BY <1>6 DEF AcceptedNeverFails
  <2> QED
    BY <1>5, <1>9 DEF ReviewInv, AcceptedNeverFails
<1>17. WaitingTasksAreFollowed'
  <2> SUFFICES ASSUME NEW t \in tasks, after(t).status = "awaiting_review"
               PROVE  /\ after(t).awaits = "service" => reviews'[t.conv]["service"].status = "pending"
                      /\ t.kind = "confirmation" =>
                           \/ actions'[t.conv].status = "unknown"
                           \/ reviews'[t.conv]["triage"].status = "pending"
                      /\ t.kind = "message" /\ after(t).awaits = "none" => Submitted(actions'[t.conv].status)
    BY <1>6, <1>9 DEF WaitingTasksAreFollowed
  <2>1. CASE matches(t)
    BY <1>5, <1>7, <1>9, <2>1
  <2>2. CASE ~matches(t)
    <3>1. after(t) = t /\ t.conv \in Conversations
      BY <1>8, <1>9, <2>2 DEF Task
    <3>2. /\ t.awaits = "service" => reviews[t.conv]["service"].status = "pending"
          /\ t.kind = "confirmation" =>
               \/ actions[t.conv].status = "unknown"
               \/ reviews[t.conv]["triage"].status = "pending"
          /\ t.kind = "message" /\ t.awaits = "none" => Submitted(actions[t.conv].status)
      BY <3>1 DEF ReviewInv, WaitingTasksAreFollowed
    <3>3. CASE t.conv # c
      BY <1>7, <3>1, <3>2, <3>3
    <3>4. CASE t.conv = c
      <4>1. Work(c).board = reviews[c]
        BY DEF Work
      <4>2. reviews[c]["service"].status = "pending" => r.work.board["service"].status = "pending"
        BY <1>5, <4>1 DEF Continues
      <4>3. reviews[c]["triage"].status = "pending" => r.work.board["triage"].status = "pending"
        <5>1. reviews[c]["triage"].status = "pending" => AwaitsTriage(Work(c))
          BY <4>1 DEF AwaitsTriage, There
        <5> QED
          BY <1>5, <5>1, TriageStays DEF Continues
      <4> QED
        BY <1>5, <1>7, <3>1, <3>2, <3>4, <4>2, <4>3
    <3> QED
      BY <3>3, <3>4
  <2> QED
    BY <2>1, <2>2
<1> QED
  BY <1>10, <1>11, <1>12, <1>13, <1>14, <1>15, <1>16, <1>17 DEF ReviewInv

\* A step that changes the core's claims and the threads only.
LEMMA StandstillReviews ==
  ASSUME ReviewInv, SubmissionInv', ClaimsGrow, CheckpointMatchesDecision',
         UNCHANGED <<conv, tasks, outbox, actions, reviews, decisions>>
  PROVE  ReviewInv'
<1>1. DesksAreInOrder'
  <2> SUFFICES ASSUME NEW e \in Conversations
               PROVE  Desk([state |-> conv[e].state, board |-> reviews[e], threads |-> threads'],
                           actions[e].status)
    BY DEF DesksAreInOrder, Work
  <2>1. Desk(Work(e), actions[e].status)
    BY DEF ReviewInv, DesksAreInOrder
  <2> QED
    BY <2>1, DeskOf DEF Work
<1>2. DeliveriesAreAcceptable'
  BY OutboxStays
<1>3. DecisionsArePast' /\ NothingUnopened' /\ FactsAreValid' /\ IntentsAreValid'
  BY DEF ReviewInv, DecisionsArePast, There, NothingUnopened, Created, FactsAreValid,
     IntentsAreValid
<1>4. AcceptedNeverFails' /\ WaitingTasksAreFollowed'
  BY DEF ReviewInv, AcceptedNeverFails, WaitingTasksAreFollowed
<1> QED
  BY <1>1, <1>2, <1>3, <1>4 DEF ReviewInv

\* A lost delivery keeps the invariant.
LEMMA WorkCrashReviews ==
  ASSUME ReviewInv, SubmissionInv', WorkCrash
  PROVE  ReviewInv'
<1>1. ClaimsGrow
  BY WorkCrashProgress DEF ReviewInv, Progress
<1>2. threads' \subseteq threads /\ decisions' = decisions
  BY DEF WorkCrash
<1>3. CheckpointMatchesDecision'
  BY <1>2 DEF ReviewInv, CheckpointMatchesDecision
<1>4. UNCHANGED <<conv, tasks, outbox, actions, reviews, decisions>>
  BY DEF WorkCrash
<1> QED
  BY <1>1, <1>3, <1>4, StandstillReviews

\* A lost batch keeps the invariant.
LEMMA ReconcileCrashReviews ==
  ASSUME ReviewInv, SubmissionInv', ReconcileCrash
  PROVE  ReviewInv'
<1>1. ClaimsGrow
  BY ReconcileCrashProgress DEF ReviewInv, Progress
<1>2. threads' \subseteq threads /\ decisions' = decisions
  BY DEF ReconcileCrash
<1>3. CheckpointMatchesDecision'
  BY <1>2 DEF ReviewInv, CheckpointMatchesDecision
<1>4. UNCHANGED <<conv, tasks, outbox, actions, reviews, decisions>>
  BY DEF ReconcileCrash
<1> QED
  BY <1>1, <1>3, <1>4, StandstillReviews

\* A committed batch puts every settled submission on a desk.
LEMMA ReconcileReviews ==
  ASSUME ReviewInv, SubmissionInv', NEW replies, ReconcileWith(replies)
  PROVE  ReviewInv'
<1> DEFINE attempts == Attempts(replies)
           work == Settled(attempts)
           resolved == DOMAIN work
<1>0. SubmissionInv /\ TypeOK /\ TypeOK'
  BY DEF ReviewInv, SubmissionInv
<1>1. /\ conv' = [c \in Conversations |->
                    IF c \in resolved THEN [conv[c] EXCEPT !.state = work[c].state] ELSE conv[c]]
      /\ reviews' = [c \in Conversations |-> IF c \in resolved THEN work[c].board ELSE reviews[c]]
      /\ threads' = ThreadsLeft(work)
      /\ actions' = [c \in Conversations |->
                       IF c \in Unknown THEN attempts[c].action ELSE actions[c]]
      /\ UNCHANGED <<tasks, outbox, decisions>>
      /\ \A c \in Unknown : ~attempts[c].refused
  BY DEF ReconcileWith
<1>2. Progress
  BY <1>0, ReconcileProgress
<1>3. /\ resolved = {c \in Unknown : attempts[c].action.status = "confirmed"}
      /\ \A c \in resolved : /\ work[c] = Reconciled(c, attempts[c])
                             /\ work[c] \in WorkSet
                             /\ work[c].state.receipt = attempts[c].action.receipt
  BY <1>0, SettledType
<1>4. /\ \A c \in Unknown : c \in Conversations /\ actions[c].status = "unknown"
      /\ \A c \in Conversations \ Unknown : actions[c].status # "unknown"
  BY DEF Unknown
<1>5. ASSUME NEW c \in Unknown
      PROVE  attempts[c].action.status \in {"unknown", "confirmed"} /\ attempts[c].action \in Action
  <2>1. attempts[c] = Execute(actions[c], ClaimOf(actions[c]), conv[c].owner, replies[c])
    BY DEF Attempts
  <2>2. ~attempts[c].refused
    BY <1>1
  <2>3. attempts[c].action \in Action
    BY <1>0, AttemptsType
  <2> HIDE DEF attempts
  <2> QED
    BY <1>0, <1>4, <2>1, <2>2, <2>3, ExecuteProgress
<1> HIDE DEF attempts, work
<1>6. ASSUME NEW c \in Conversations
      PROVE  IF c \in resolved
             THEN /\ conv'[c].state = work[c].state /\ reviews'[c] = work[c].board
                  /\ actions[c].status = "unknown" /\ actions'[c] = attempts[c].action
                  /\ actions'[c].status = "confirmed"
             ELSE /\ conv'[c] = conv[c] /\ reviews'[c] = reviews[c]
                  /\ actions'[c].status = actions[c].status
  <2>1. conv[c] \in Conversation
    BY <1>0 DEF TypeOK
  <2>2. CASE c \in resolved
    BY <1>1, <1>3, <1>4, <2>1, <2>2 DEF Conversation
  <2>3. CASE c \notin resolved
    BY <1>1, <1>3, <1>4, <1>5, <2>3
  <2> QED
    BY <2>2, <2>3
<1>7. ASSUME NEW c \in resolved
      PROVE  /\ c \in Conversations
             /\ Desk(work[c], "confirmed")
             /\ Continues(Work(c), work[c])
             /\ work[c].state.facts = conv[c].state.facts
             /\ work[c].state.version = conv[c].state.version
             /\ work[c].board["triage"].status = "pending"
  <2>1. c \in Conversations /\ actions[c].status = "unknown" /\ work[c] = Reconciled(c, attempts[c])
    BY <1>3, <1>4
  <2>2. conv'[c].state.receipt = attempts[c].action.receipt /\ actions'[c].status = "confirmed"
    BY <1>3, <1>6, <2>1
  <2>3. attempts[c].action.receipt # 0
    BY <2>1, <2>2 DEF SubmissionInv, ReceiptsAreFiled
  <2>4. attempts[c].action \in Action
    BY <1>3, <1>5
  <2>5. attempts[c].action.receipt \in Nat
    BY <2>4 DEF Action
  <2>6. Desk(Work(c), "unknown")
    BY <2>1 DEF ReviewInv, DesksAreInOrder
  <2> QED
    BY <1>0, <2>1, <2>3, <2>4, <2>5, <2>6, ReconciledDesk, ReconciledType
<1>8. DesksAreInOrder'
  <2> SUFFICES ASSUME NEW e \in Conversations
               PROVE  Desk([state |-> conv'[e].state, board |-> reviews'[e], threads |-> threads'],
                           actions'[e].status)
    BY DEF DesksAreInOrder, Work
  <2>1. CASE e \in resolved
    BY <1>6, <1>7, <2>1, DeskOf
  <2>2. CASE e \notin resolved
    <3>1. Desk(Work(e), actions[e].status)
      BY DEF ReviewInv, DesksAreInOrder
    <3>2. Work(e).state = conv'[e].state /\ Work(e).board = reviews'[e]
      BY <1>6, <2>2 DEF Work
    <3> QED
      BY <1>6, <2>2, <3>1, <3>2, DeskOf
  <2> QED
    BY <2>1, <2>2
<1>9. DecisionsArePast' /\ CheckpointMatchesDecision'
  <2>1. threads' \subseteq threads
    BY <1>1 DEF ThreadsLeft
  <2>2. ASSUME NEW e \in Conversations, NEW k \in Kinds, There(reviews[e][k])
        PROVE  /\ There(reviews'[e][k])
               /\ reviews[e][k].version <= reviews'[e][k].version
               /\ reviews'[e][k].version = reviews[e][k].version /\ reviews'[e][k].status = "pending"
                    => reviews[e][k].status = "pending"
    <3>1. CASE e \in resolved
      <4>1. Work(e).board = reviews[e]
        BY DEF Work
      <4> QED
        BY <1>6, <1>7, <2>2, <3>1, <4>1 DEF Continues
    <3>2. CASE e \notin resolved
      <4>1. reviews[e][k].version \in Nat
        BY <1>0 DEF TypeOK, Board, Review
      <4> QED
        BY <1>6, <2>2, <3>2, <4>1
    <3> QED
      BY <3>1, <3>2
  <2> QED
    BY <1>0, <1>1, <2>1, <2>2, DecisionsStay
<1>10. \A e \in Conversations : conv'[e].owner = conv[e].owner
  BY <1>2 DEF Progress, IntentsStay
<1>11. NothingUnopened'
  <2>1. \A e \in resolved : Created(e)
    BY <1>0, <1>3, <1>4, NullAssumption DEF SubmissionInv, IntentsAreOwned, Created
  <2> QED
    BY <1>6, <1>10, <2>1 DEF ReviewInv, NothingUnopened, Created
<1>12. \A e \in Conversations : /\ conv'[e].state.facts = conv[e].state.facts
                               /\ conv'[e].state.version = conv[e].state.version
  BY <1>6, <1>7
<1>13. FactsAreValid'
  BY <1>10, <1>12 DEF ReviewInv, FactsAreValid
<1>14. IntentsAreValid'
  BY <1>1, <1>2, <1>10 DEF ReviewInv, IntentsAreValid, Progress, IntentsStay
<1>15. DeliveriesAreAcceptable'
  <2>1. ASSUME NEW i \in 1..Len(outbox)
        PROVE  outbox[i].conv \in Conversations
    <3>1. outbox[i] \in Delivery
      BY <1>0 DEF TypeOK
    <3> QED
      BY <3>1 DEF Delivery
  <2>2. \A e \in Conversations : actions[e].status = "pending" => actions'[e].status = "pending"
    BY <1>6
  <2>3. ClaimsGrow
    BY <1>2 DEF Progress
  <2> QED
    BY <1>1, <1>10, <1>12, <2>1, <2>2, <2>3, OutboxStays
<1>16. AcceptedNeverFails'
  BY <1>1 DEF ReviewInv, AcceptedNeverFails
<1>17. WaitingTasksAreFollowed'
  <2> SUFFICES ASSUME NEW t \in tasks, t.status = "awaiting_review"
               PROVE  /\ t.awaits = "service" => reviews'[t.conv]["service"].status = "pending"
                      /\ t.kind = "confirmation" =>
                           \/ actions'[t.conv].status = "unknown"
                           \/ reviews'[t.conv]["triage"].status = "pending"
                      /\ t.kind = "message" /\ t.awaits = "none" => Submitted(actions'[t.conv].status)
    BY <1>1 DEF WaitingTasksAreFollowed
  <2>1. t.conv \in Conversations
    BY <1>0 DEF TypeOK, Task
  <2>2. /\ t.awaits = "service" => reviews[t.conv]["service"].status = "pending"
        /\ t.kind = "confirmation" =>
             \/ actions[t.conv].status = "unknown"
             \/ reviews[t.conv]["triage"].status = "pending"
        /\ t.kind = "message" /\ t.awaits = "none" => Submitted(actions[t.conv].status)
    BY DEF ReviewInv, WaitingTasksAreFollowed
  <2>3. CASE t.conv \in resolved
    <3>1. Work(t.conv).board = reviews[t.conv]
      BY DEF Work
    <3> QED
      BY <1>6, <1>7, <2>1, <2>2, <2>3, <3>1 DEF Continues, Submitted
  <2>4. CASE t.conv \notin resolved
    BY <1>6, <2>1, <2>2, <2>4
  <2> QED
    BY <2>3, <2>4
<1> QED
  BY <1>8, <1>9, <1>11, <1>13, <1>14, <1>15, <1>16, <1>17 DEF ReviewInv

-----------------------------------------------------------------------------
(* The employee. *)

\* The state and the board a decision leaves.
DecidedState(c, kind, decision, team) ==
  IF kind = "triage"
  THEN [conv[c].state EXCEPT !.outcome = Reviewed(c, decision, team),
                             !.stage = IF decision = "request_information"
                                       THEN "awaiting_customer" ELSE "review_completed"]
  ELSE conv[c].state

DecidedBoard(c, kind, decision) ==
  [reviews[c] EXCEPT ![kind] = [reviews[c][kind] EXCEPT !.status = decision]]

\* A decision changes one row, and the outcome and the stage of a triage.
LEMMA DecidedEffect ==
  ASSUME TypeOK, NEW c \in Conversations, NEW kind \in Kinds, NEW decision \in Decisions, NEW team
  PROVE  LET state == DecidedState(c, kind, decision, team)
             board == DecidedBoard(c, kind, decision)
         IN  /\ state.version = conv[c].state.version
             /\ state.facts = conv[c].state.facts
             /\ state.priority = conv[c].state.priority
             /\ state.receipt = conv[c].state.receipt
             /\ state.team = conv[c].state.team
             /\ kind # "triage" => state = conv[c].state
             /\ kind = "triage" => state.outcome = Reviewed(c, decision, team)
             /\ kind = "triage" => state.stage \in {"awaiting_customer", "review_completed"}
             /\ board[kind].status = decision
             /\ board[kind].version = reviews[c][kind].version
             /\ board[kind].team = reviews[c][kind].team
             /\ \A k \in Kinds \ {kind} : board[k] = reviews[c][k]
<1>1. conv[c].state \in State /\ reviews[c] \in Board /\ reviews[c][kind] \in Review
  BY DEF TypeOK, Conversation, Board
<1>2. CASE kind = "triage"
  <2> DEFINE outcome == Reviewed(c, decision, team)
             stage == IF decision = "request_information"
                      THEN "awaiting_customer" ELSE "review_completed"
  <2>1. DecidedState(c, kind, decision, team) =
          [conv[c].state EXCEPT !.outcome = outcome, !.stage = stage]
    BY <1>2 DEF DecidedState
  <2>2. stage \in {"awaiting_customer", "review_completed"}
    OBVIOUS
  <2> HIDE DEF outcome, stage
  <2>3. LET state == [conv[c].state EXCEPT !.outcome = outcome, !.stage = stage]
        IN  /\ state.version = conv[c].state.version
            /\ state.facts = conv[c].state.facts
            /\ state.priority = conv[c].state.priority
            /\ state.receipt = conv[c].state.receipt
            /\ state.team = conv[c].state.team
            /\ state.outcome = outcome
            /\ state.stage = stage
    BY <1>1 DEF State
  <2>4. LET board == DecidedBoard(c, kind, decision)
        IN  /\ board[kind].status = decision
            /\ board[kind].version = reviews[c][kind].version
            /\ board[kind].team = reviews[c][kind].team
            /\ \A k \in Kinds \ {kind} : board[k] = reviews[c][k]
    BY <1>1 DEF DecidedBoard, Board, Review
  <2> QED
    BY <1>2, <2>1, <2>2, <2>3, <2>4 DEF outcome
<1>3. CASE kind # "triage"
  <2>1. LET board == DecidedBoard(c, kind, decision)
        IN  /\ board[kind].status = decision
            /\ board[kind].version = reviews[c][kind].version
            /\ board[kind].team = reviews[c][kind].team
            /\ \A k \in Kinds \ {kind} : board[k] = reviews[c][k]
    BY <1>1 DEF DecidedBoard, Board, Review
  <2> QED
    BY <1>3, <2>1 DEF DecidedState
<1> QED
  BY <1>2, <1>3

\* An admissible decision leaves the desk in order, and an urgent draft with
\* the urgent team.
LEMMA DecidedDesk ==
  ASSUME ReviewInv, NEW c \in Conversations, NEW kind \in Kinds, NEW decision \in Decisions,
         NEW team, Admissible(c, kind, decision, team), NEW held
  PROVE  Desk([state |-> DecidedState(c, kind, decision, team),
               board |-> DecidedBoard(c, kind, decision), threads |-> held],
              actions[c].status)
<1> DEFINE state == DecidedState(c, kind, decision, team)
           board == DecidedBoard(c, kind, decision)
           work == [state |-> state, board |-> board, threads |-> held]
           status == actions[c].status
<1>0. TypeOK /\ Desk(Work(c), status) /\ Work(c).state = conv[c].state /\ Work(c).board = reviews[c]
  BY DEF ReviewInv, SubmissionInv, DesksAreInOrder, Work
<1>1. /\ state.version = conv[c].state.version
      /\ state.facts = conv[c].state.facts
      /\ state.priority = conv[c].state.priority
      /\ state.receipt = conv[c].state.receipt
      /\ state.team = conv[c].state.team
      /\ kind # "triage" => state = conv[c].state
      /\ kind = "triage" => state.outcome = Reviewed(c, decision, team)
      /\ kind = "triage" => state.stage \in {"awaiting_customer", "review_completed"}
      /\ board[kind].status = decision
      /\ board[kind].version = reviews[c][kind].version
      /\ board[kind].team = reviews[c][kind].team
      /\ \A k \in Kinds \ {kind} : board[k] = reviews[c][k]
  BY <1>0, DecidedEffect
<1>2. /\ reviews[c][kind].status = "pending"
      /\ reviews[c][kind].version = conv[c].state.version
      /\ kind # "submission"
      /\ decision = "amend" /\ conv[c].state.priority = "urgent" => team = UrgentTeam
  BY DEF Admissible
<1>3. work.state = state /\ work.board = board
  OBVIOUS
<1> HIDE DEF state, board, work
<1>4. decision # "pending" /\ decision # "absent" /\ decision \in Decisions
  BY DEF Decisions
<1>5. /\ \A k \in Kinds : board[k].version = reviews[c][k].version
      /\ \A k \in Kinds : board[k].team = reviews[c][k].team
      /\ \A k \in Kinds : There(board[k]) <=> There(reviews[c][k])
      /\ \A k \in Kinds : board[k].status = "pending" => reviews[c][k].status = "pending"
      /\ \A k \in Kinds : Live(reviews[c][k]) => Live(board[k])
      /\ board["submission"] = reviews[c]["submission"]
  BY <1>1, <1>2, <1>4 DEF There, Live, Kinds
<1>6. RowsFit(work, status)
  BY <1>0, <1>1, <1>3, <1>5 DEF Desk, Sound, RowsFit, Kinds
<1>7. kind = "triage" => conv[c].state.receipt # 0 /\ status = "confirmed"
  BY <1>0, <1>2 DEF Desk, Sound, RowsFit, There
<1>8. Floor(state)
  <2>1. CASE kind # "triage"
    BY <1>0, <1>1, <2>1 DEF Desk, Sound
  <2>2. CASE kind = "triage"
    <3>1. reviews[c]["triage"].team = Team(conv[c].state.priority)
      BY <1>0, <1>2, <2>2 DEF Desk, Sound, RowsFit, There
    <3> QED
      BY <1>1, <1>2, <2>2, <3>1 DEF Floor, Reviewed, Team
  <2> QED
    BY <2>1, <2>2
<1>9. Sound(work, status)
  BY <1>0, <1>1, <1>3, <1>6, <1>8 DEF Desk, Sound
<1>10. Planned(state, status)
  BY <1>0, <1>1, <1>7 DEF Desk, Planned
<1>11. Current(work, status)
  BY <1>0, <1>1, <1>3, <1>5, <1>7 DEF Desk, Current, Kinds
<1> QED
  BY <1>3, <1>9, <1>10, <1>11 DEF Desk, work, state, board

\* The thread a decision resumes holds no other recorded decision.
LEMMA ResumedCheckpoints ==
  ASSUME ReviewInv, NEW c \in Conversations, NEW kind \in Kinds, NEW verdict,
         reviews[c][kind].status = "pending",
         verdict.conv = c, verdict.kind = kind, verdict.version = reviews[c][kind].version,
         NEW v \in decisions, NEW t \in Resumed(threads, verdict),
         v.conv = t.conv, v.kind = t.kind, v.version = t.version
  PROVE  v = t /\ t \in threads
<1>1. ~(v.conv = c /\ v.kind = kind /\ v.version = reviews[c][kind].version)
  BY DEF ReviewInv, DecisionsArePast
<1>2. t \in threads
  BY <1>1 DEF Resumed, Restarted
<1> QED
  BY <1>2 DEF ReviewInv, CheckpointMatchesDecision

\* A recorded decision keeps the invariant.
LEMMA DecideReviews ==
  ASSUME ReviewInv, SubmissionInv', NEW c \in Conversations, NEW kind \in Kinds,
         NEW id \in DecisionIds, NEW decision \in Decisions, NEW team \in TeamOrNone,
         Decide(c, kind, id, decision, team)
  PROVE  ReviewInv'
<1> DEFINE verdict == VerdictOn(c, kind, id, decision, team)
           state == DecidedState(c, kind, decision, team)
           board == DecidedBoard(c, kind, decision)
           after(t) == IF Released(c, kind, t)
                       THEN [t EXCEPT !.status = IF decision = "request_information"
                                                 THEN "awaiting_customer" ELSE "completed"]
                       ELSE t
<1>0. SubmissionInv /\ TypeOK /\ TypeOK'
  BY DEF ReviewInv, SubmissionInv
<1>1. /\ Admissible(c, kind, decision, team)
      /\ threads' = Resumed(threads, verdict)
      /\ reviews' = [reviews EXCEPT ![c][kind].status = decision]
      /\ decisions' = decisions \cup {verdict}
      /\ tasks' = {after(t) : t \in tasks}
      /\ UNCHANGED <<outbox, actions, claims>>
  BY DEF Decide
<1>2. /\ reviews[c][kind].status = "pending" /\ ~Busy(c)
      /\ decision # "pending" /\ decision # "absent"
  BY <1>1 DEF Admissible, Decisions
<1>3. verdict.conv = c /\ verdict.kind = kind /\ verdict.version = reviews[c][kind].version
  BY DEF VerdictOn
<1>4. /\ state.version = conv[c].state.version
      /\ state.facts = conv[c].state.facts
      /\ board[kind].status = decision
      /\ board[kind].version = reviews[c][kind].version
      /\ \A k \in Kinds \ {kind} : board[k] = reviews[c][k]
  BY <1>0, DecidedEffect
<1>5. /\ reviews'[c] = board
      /\ \A e \in Conversations \ {c} : reviews'[e] = reviews[e]
  <2>1. reviews \in [Conversations -> Board] /\ reviews[c] \in Board
    BY <1>0 DEF TypeOK
  <2> QED
    BY <1>1, <2>1 DEF DecidedBoard, Board
<1>6. /\ conv'[c].owner = conv[c].owner /\ conv'[c].state = state
      /\ \A e \in Conversations \ {c} : conv'[e] = conv[e]
  <2>1. conv \in [Conversations -> Conversation] /\ conv[c] \in Conversation
    BY <1>0 DEF TypeOK
  <2>2. CASE kind # "triage"
    BY <2>1, <2>2 DEF Decide, DecidedState
  <2>3. CASE kind = "triage"
    <3>1. conv' = [conv EXCEPT ![c] = [conv[c] EXCEPT !.state = state]]
      BY <2>1, <2>3 DEF Decide, DecidedState, Conversation, State
    <3> HIDE DEF state
    <3> QED
      BY <2>1, <3>1 DEF Conversation
  <2> QED
    BY <2>2, <2>3
<1>7. ASSUME NEW held
      PROVE  Desk([state |-> state, board |-> board, threads |-> held], actions[c].status)
  BY <1>1, DecidedDesk
<1> HIDE DEF verdict, state, board
<1>8. \A t \in tasks : t \in Task
  BY <1>0 DEF TypeOK
<1>9. ASSUME NEW t \in tasks
      PROVE  /\ after(t).conv = t.conv /\ after(t).kind = t.kind /\ after(t).version = t.version
             /\ after(t).awaits = t.awaits
             /\ Released(c, kind, t) => after(t).status \in {"awaiting_customer", "completed"}
             /\ ~Released(c, kind, t) => after(t) = t
             /\ t.conv # c => after(t) = t
  BY <1>8 DEF Task, Released
<1> HIDE DEF after
<1>10. DesksAreInOrder'
  <2> SUFFICES ASSUME NEW e \in Conversations
               PROVE  Desk([state |-> conv'[e].state, board |-> reviews'[e], threads |-> threads'],
                           actions[e].status)
    BY <1>1 DEF DesksAreInOrder, Work
  <2>1. CASE e = c
    BY <1>5, <1>6, <1>7, <2>1
  <2>2. CASE e # c
    <3>1. Desk(Work(e), actions[e].status)
      BY DEF ReviewInv, DesksAreInOrder
    <3>2. Work(e).state = conv'[e].state /\ Work(e).board = reviews'[e]
      BY <1>5, <1>6, <2>2 DEF Work
    <3> QED
      BY <3>1, <3>2, DeskOf
  <2> QED
    BY <2>1, <2>2
<1>11. DecisionsArePast'
  <2> SUFFICES ASSUME NEW v \in decisions'
               PROVE  LET row == reviews'[v.conv][v.kind]
                      IN  /\ There(row)
                          /\ v.version <= row.version
                          /\ v.version = row.version => row.status # "pending"
    BY DEF DecisionsArePast, There
  <2>1. CASE v = verdict
    <3>1. reviews[c][kind].version \in Nat
      BY <1>0 DEF TypeOK, Board, Review
    <3> QED
      BY <1>2, <1>3, <1>4, <1>5, <2>1, <3>1 DEF There
  <2>2. CASE v \in decisions
    <3>1. v.conv \in Conversations /\ v.kind \in Kinds
      BY <1>0, <2>2 DEF TypeOK, Verdict
    <3>2. LET row == reviews[v.conv][v.kind]
          IN  /\ There(row)
              /\ v.version <= row.version
              /\ v.version = row.version => row.status # "pending"
      BY <2>2 DEF ReviewInv, DecisionsArePast
    <3> QED
      BY <1>2, <1>4, <1>5, <3>1, <3>2 DEF There
  <2> QED
    BY <1>1, <2>1, <2>2
<1>12. CheckpointMatchesDecision'
  <2> SUFFICES ASSUME NEW v \in decisions', NEW t \in threads',
                      v.conv = t.conv, v.kind = t.kind, v.version = t.version
               PROVE  v = t
    BY DEF CheckpointMatchesDecision
  <2>1. CASE v \in decisions
    BY <1>1, <1>2, <1>3, <2>1, ResumedCheckpoints
  <2>2. CASE v = verdict
    BY <1>1, <1>3, <2>2 DEF Resumed, Restarted
  <2> QED
    BY <1>1, <2>1, <2>2
<1>13. \A e \in Conversations : /\ conv'[e].owner = conv[e].owner
                               /\ conv'[e].state.facts = conv[e].state.facts
                               /\ conv'[e].state.version = conv[e].state.version
  BY <1>4, <1>6
<1>14. NothingUnopened'
  <2>1. Created(c)
    BY <1>2 DEF ReviewInv, NothingUnopened, EmptyBoard, NoReview
  <2> QED
    BY <1>5, <1>13, <2>1 DEF ReviewInv, NothingUnopened, Created
<1>15. FactsAreValid'
  BY <1>13 DEF ReviewInv, FactsAreValid
<1>16. IntentsAreValid'
  <2> SUFFICES ASSUME NEW e \in Conversations, actions[e].status # "none"
               PROVE  /\ ValidDraft(conv'[e].owner, actions[e].draft.facts)
                      /\ \E t \in tasks' : /\ t.conv = e /\ t.kind = "confirmation"
                                           /\ t.version = actions[e].draft.version
    BY <1>1 DEF IntentsAreValid
  <2>1. PICK t \in tasks : /\ t.conv = e /\ t.kind = "confirmation"
                           /\ t.version = actions[e].draft.version
    BY DEF ReviewInv, IntentsAreValid
  <2>2. after(t) \in tasks'
    BY <1>1
  <2> QED
    BY <1>9, <1>13, <2>1, <2>2 DEF ReviewInv, IntentsAreValid
<1>17. DeliveriesAreAcceptable'
  <2>1. ASSUME NEW i \in 1..Len(outbox)
        PROVE  outbox[i].conv \in Conversations \ {c}
    <3>1. outbox[i] \in Delivery
      BY <1>0 DEF TypeOK
    <3>2. outbox[i].conv \in Conversations
      BY <3>1 DEF Delivery
    <3>3. \E t \in tasks : t.conv = outbox[i].conv /\ t.status = "queued"
      BY DEF ReviewInv, DeliveriesAreAcceptable, IsDeliveryOf
    <3> QED
      BY <1>2, <3>2, <3>3 DEF Busy
  <2>2. \A t \in tasks : t.conv # c => t \in tasks'
    BY <1>1, <1>9
  <2>3. ClaimsGrow
    BY <1>1 DEF ClaimsGrow
  <2> QED
    BY <1>1, <1>13, <2>1, <2>2, <2>3, OutboxStays
<1>18. AcceptedNeverFails'
  <2> SUFFICES ASSUME NEW t \in tasks
               PROVE  after(t).status # "failed"
    BY <1>1 DEF AcceptedNeverFails
  <2> QED
    BY <1>9 DEF ReviewInv, AcceptedNeverFails
<1>19. WaitingTasksAreFollowed'
  <2> SUFFICES ASSUME NEW t \in tasks, after(t).status = "awaiting_review"
               PROVE  /\ t.awaits = "service" => reviews'[t.conv]["service"].status = "pending"
                      /\ t.kind = "confirmation" =>
                           \/ actions[t.conv].status = "unknown"
                           \/ reviews'[t.conv]["triage"].status = "pending"
                      /\ t.kind = "message" /\ t.awaits = "none" => Submitted(actions[t.conv].status)
    BY <1>1, <1>9 DEF WaitingTasksAreFollowed
  <2>1. ~Released(c, kind, t) /\ after(t) = t /\ t.conv \in Conversations
    BY <1>8, <1>9 DEF Task
  <2>2. /\ t.awaits = "service" => reviews[t.conv]["service"].status = "pending"
        /\ t.kind = "confirmation" =>
             \/ actions[t.conv].status = "unknown"
             \/ reviews[t.conv]["triage"].status = "pending"
        /\ t.kind = "message" /\ t.awaits = "none" => Submitted(actions[t.conv].status)
    BY <2>1 DEF ReviewInv, WaitingTasksAreFollowed
  <2>3. CASE t.conv # c
    BY <1>5, <2>1, <2>2, <2>3
  <2>4. CASE t.conv = c
    <3>1. t.awaits = "service" => kind # "service"
      BY <2>1, <2>4 DEF Released
    <3>2. t.kind = "confirmation" => kind # "triage"
      BY <2>1, <2>4 DEF Released
    <3> QED
      BY <1>4, <1>5, <2>2, <2>4, <3>1, <3>2 DEF Kinds
  <2> QED
    BY <2>3, <2>4
<1> QED
  BY <1>10, <1>11, <1>12, <1>14, <1>15, <1>16, <1>17, <1>18, <1>19 DEF ReviewInv

\* A decision that is lost leaves at most a thread without one.
LEMMA DecideCrashReviews ==
  ASSUME ReviewInv, SubmissionInv', NEW c \in Conversations, NEW kind \in Kinds,
         NEW id \in DecisionIds, NEW decision \in Decisions, NEW team \in TeamOrNone,
         DecideCrash(c, kind, id, decision, team)
  PROVE  ReviewInv'
<1> DEFINE verdict == VerdictOn(c, kind, id, decision, team)
<1>1. /\ UNCHANGED <<conv, tasks, outbox, actions, reviews, decisions, claims>>
      /\ reviews[c][kind].status = "pending"
      /\ threads' \in {Restarted(threads, c, kind, reviews[c][kind].version),
                       Resumed(threads, verdict)}
  BY DEF DecideCrash, Admissible
<1>2. verdict.conv = c /\ verdict.kind = kind /\ verdict.version = reviews[c][kind].version
  BY DEF VerdictOn
<1> HIDE DEF verdict
<1>3. CheckpointMatchesDecision'
  <2> SUFFICES ASSUME NEW v \in decisions, NEW t \in threads',
                      v.conv = t.conv, v.kind = t.kind, v.version = t.version
               PROVE  v = t
    BY <1>1 DEF CheckpointMatchesDecision
  <2>1. CASE t \in threads
    BY <2>1 DEF ReviewInv, CheckpointMatchesDecision
  <2>2. CASE t \in Resumed(threads, verdict)
    BY <1>1, <1>2, <2>2, ResumedCheckpoints
  <2> QED
    BY <1>1, <2>1, <2>2, RestartedSubset
<1>4. ClaimsGrow
  BY <1>1 DEF ClaimsGrow
<1> QED
  BY <1>1, <1>3, <1>4, StandstillReviews

-----------------------------------------------------------------------------
(* The theorems. *)

\* At first nothing was asked, reported or decided.
LEMMA InitReviews == Init => ReviewInv
<1> SUFFICES ASSUME Init PROVE ReviewInv
  OBVIOUS
<1> DEFINE state == [InitialState(NoFacts) EXCEPT !.version = 0]
<1>1. SubmissionInv
  BY InitSubmission
<1>2. /\ state.version = 0 /\ state.facts = NoFacts /\ state.priority = "routine"
      /\ state.stage = "awaiting_customer" /\ state.receipt = 0 /\ state.outcome = NoOutcome
  BY DEF InitialState
<1> HIDE DEF state
<1>3. ASSUME NEW c \in Conversations
      PROVE  /\ conv[c].owner = NoOwner /\ conv[c].state = state
             /\ reviews[c] = EmptyBoard
             /\ actions[c].status = "none"
  BY DEF Init, NoIntent, state
<1>4. \A k \in Kinds : EmptyBoard[k].status = "absent" /\ EmptyBoard[k].version = 0
  BY DEF EmptyBoard, NoReview
<1>5. ~Triggered(NoFacts) /\ Missing(NoFacts) # {}
  <2>1. "drivable" \in Missing(NoFacts)
    BY DEF Missing, NoFacts, NoFact, Fields, StatusFields
  <2> QED
    BY <2>1 DEF Triggered, NoFacts, NoFact, Absent, Fields, StatusFields
<1>6. DesksAreInOrder
  <2> SUFFICES ASSUME NEW c \in Conversations
               PROVE  Desk(Work(c), "none")
    BY <1>3 DEF DesksAreInOrder
  <2>1. Work(c).state = state /\ Work(c).board = EmptyBoard
    BY <1>3 DEF Work
  <2>2. Sound(Work(c), "none")
    BY <1>2, <1>4, <2>1 DEF Sound, RowsFit, Floor, There, Kinds, NoOutcome
  <2>3. Planned(state, "none")
    BY <1>2, <1>5 DEF Planned
  <2> QED
    BY <1>2, <2>1, <2>2, <2>3 DEF Desk, Current
<1>7. FactsAreValid
  <2>1. ASSUME NEW owner
        PROVE  ValidDraft(owner, NoFacts)
    BY DEF ValidDraft, NoFacts, NoFact, Absent, Fields, StatusFields
  <2>2. NoFacts["policy_ref"].value = Absent /\ NoFacts["vehicle_ref"].value = Absent
    BY DEF NoFacts, NoFact, Fields
  <2> QED
    BY <1>2, <1>3, <2>1, <2>2 DEF FactsAreValid
<1>8. NothingUnopened /\ IntentsAreValid
  BY <1>3 DEF NothingUnopened, IntentsAreValid
<1>9. decisions = {} /\ tasks = {} /\ outbox = <<>>
  BY DEF Init
<1>10. DecisionsArePast /\ CheckpointMatchesDecision
  BY <1>9 DEF DecisionsArePast, CheckpointMatchesDecision
<1>11. AcceptedNeverFails /\ WaitingTasksAreFollowed
  BY <1>9 DEF AcceptedNeverFails, WaitingTasksAreFollowed
<1>12. DeliveriesAreAcceptable
  BY <1>9 DEF DeliveriesAreAcceptable
<1> QED
  BY <1>1, <1>6, <1>7, <1>8, <1>10, <1>11, <1>12 DEF ReviewInv

\* Every step keeps the invariant.
LEMMA NextReviews == ReviewInv /\ [Next]_vars => ReviewInv'
<1> SUFFICES ASSUME ReviewInv, [Next]_vars PROVE ReviewInv'
  OBVIOUS
<1>1. SubmissionInv'
  BY NextSubmission DEF ReviewInv
<1>2. CASE CustomerNext
  BY <1>1, <1>2, CreateReviews, AttachReviews, HelpReviews, EnqueueMessageReviews,
     EnqueueConfirmationReviews DEF CustomerNext
<1>3. CASE EmployeeNext
  BY <1>1, <1>3, DecideReviews, DecideCrashReviews DEF EmployeeNext
<1>4. CASE WorkerNext
  BY <1>1, <1>4, WorkOnceReviews, WorkCrashReviews, ReconcileReviews,
     ReconcileCrashReviews DEF WorkerNext, Reconcile
<1>5. CASE UNCHANGED vars
  <2>1. UNCHANGED <<conv, tasks, outbox, actions, reviews, decisions, claims, threads>>
    BY <1>5 DEF vars
  <2>2. ClaimsGrow
    BY <2>1 DEF ClaimsGrow
  <2>3. CheckpointMatchesDecision'
    BY <2>1 DEF ReviewInv, CheckpointMatchesDecision
  <2> QED
    BY <1>1, <2>1, <2>2, <2>3, StandstillReviews
<1> QED
  BY <1>2, <1>3, <1>4, <1>5 DEF Next

\* The inductive invariant holds in every reachable state.
THEOREM ReviewInvariant == Spec => []ReviewInv
<1>1. Init => ReviewInv
  BY InitReviews
<1>2. ReviewInv /\ [Next]_vars => ReviewInv'
  BY NextReviews
<1> QED
  BY <1>1, <1>2, PTL DEF Spec

\* The invariant's part of an unknown outcome.
LEMMA UnknownIsPursued == ReviewInv => UnknownOutcomeIsPursued
BY DEF ReviewInv, DesksAreInOrder, Desk, Sound, RowsFit, Current, UnknownOutcomeIsPursued, Work

\* The invariant's part of the pending reviews: a row that is there and is not
\* current has been decided or superseded.
LEMMA PendingAreCurrent == ReviewInv => PendingReviewIsCurrent
<1> SUFFICES ASSUME ReviewInv, NEW c \in Conversations, NEW k \in Kinds,
                    reviews[c][k].status = "pending"
             PROVE  reviews[c][k].version = conv[c].state.version
  BY DEF PendingReviewIsCurrent
<1>1. /\ Desk(Work(c), actions[c].status)
      /\ Work(c).state = conv[c].state /\ Work(c).board = reviews[c]
  BY DEF ReviewInv, DesksAreInOrder, Work
<1>2. /\ There(reviews[c][k])
      /\ k = "urgency" => conv[c].state.priority = "urgent"
      /\ k = "triage" => conv[c].state.receipt # 0
      /\ k = "submission" => actions[c].status = "unknown"
  BY <1>1 DEF Desk, Sound, RowsFit, There
<1> QED
  BY <1>1, <1>2 DEF Desk, Sound, RowsFit, Current, Kinds

\* While the core's answer is missing, the customer reads that the submission
\* is pending and its review stays open, whatever messages, replannings and
\* decisions come in between.
THEOREM UnknownOutcomesArePursued == Spec => []UnknownOutcomeIsPursued
BY UnknownIsPursued, ReviewInvariant, PTL

\* The worker never fails a task that was accepted: version, owner and
\* authorization still stand when it takes the delivery.
THEOREM NoAcceptedTaskFails == Spec => []AcceptedNeverFails
<1>1. ReviewInv => AcceptedNeverFails
  BY DEF ReviewInv
<1> QED
  BY <1>1, ReviewInvariant, PTL

\* A draft is offered for confirmation exactly while it is complete and not
\* submitted.
THEOREM ConfirmationsAreOffered == Spec => []ConfirmationIsOffered
<1>1. ReviewInv => ConfirmationIsOffered
  <2> SUFFICES ASSUME ReviewInv, NEW c \in Conversations
               PROVE  conv[c].state.stage = "awaiting_confirmation" <=>
                        /\ Missing(conv[c].state.facts) = {}
                        /\ actions[c].status \in {"none", "pending"}
    BY DEF ConfirmationIsOffered
  <2>1. Desk(Work(c), actions[c].status) /\ Work(c).state = conv[c].state
    BY DEF ReviewInv, DesksAreInOrder, Work
  <2>2. actions[c].status \in ActionStatuses
    BY DEF ReviewInv, SubmissionInv, TypeOK, Action
  <2> QED
    BY <2>1, <2>2 DEF Desk, Planned, Current, ActionStatuses
<1> QED
  BY <1>1, ReviewInvariant, PTL

\* Every pending review can be decided: its version is the draft's.
THEOREM PendingReviewsAreCurrent == Spec => []PendingReviewIsCurrent
BY PendingAreCurrent, ReviewInvariant, PTL

\* An alert is never without a review of the current version, and is never
\* screened away.
THEOREM UrgencyIsAlwaysReviewed == Spec => []UrgencyIsReviewed
<1>1. ReviewInv => UrgencyIsReviewed
  <2> SUFFICES ASSUME ReviewInv, NEW c \in Conversations
               PROVE  LET state  == conv[c].state
                          review == reviews[c]["urgency"]
                      IN  /\ Triggered(state.facts) \/ review.status # "absent"
                               => state.priority = "urgent"
                          /\ state.priority = "urgent" =>
                               /\ review.version = state.version
                               /\ review.status \in Decisions \cup {"pending"}
    BY DEF UrgencyIsReviewed
  <2>1. /\ Desk(Work(c), actions[c].status)
        /\ Work(c).state = conv[c].state /\ Work(c).board = reviews[c]
    BY DEF ReviewInv, DesksAreInOrder, Work
  <2> QED
    BY <2>1 DEF Desk, Sound, RowsFit, Planned, Current, There, Live
<1> QED
  BY <1>1, ReviewInvariant, PTL

\* After a submission the triage review is of the current version and of the
\* team of the current priority.
THEOREM TriageIsAlwaysCurrent == Spec => []TriageIsCurrent
<1>1. ReviewInv => TriageIsCurrent
  <2> SUFFICES ASSUME ReviewInv, NEW c \in Conversations, conv[c].state.receipt # 0
               PROVE  LET state  == conv[c].state
                          review == reviews[c]["triage"]
                      IN  /\ review.version = state.version
                          /\ review.status \in Decisions \cup {"pending"}
                          /\ review.team = Team(state.priority)
    BY DEF TriageIsCurrent
  <2>1. /\ Desk(Work(c), actions[c].status)
        /\ Work(c).state = conv[c].state /\ Work(c).board = reviews[c]
    BY DEF ReviewInv, DesksAreInOrder, Work
  <2> QED
    BY <2>1 DEF Desk, Sound, RowsFit, Current, Live
<1> QED
  BY <1>1, ReviewInvariant, PTL

\* No decision leaves an urgent conversation with another team than the
\* urgent one.
THEOREM UrgencyFloorHolds == Spec => []UrgencyFloor
<1>1. ReviewInv => UrgencyFloor
  BY DEF ReviewInv, DesksAreInOrder, Desk, Sound, Floor, UrgencyFloor, Work
<1> QED
  BY <1>1, ReviewInvariant, PTL

\* A checkpoint that holds a decision on a decided review holds the recorded
\* one, wherever the process died.
THEOREM CheckpointsMatchDecisions == Spec => []CheckpointMatchesDecision
<1>1. ReviewInv => CheckpointMatchesDecision
  BY DEF ReviewInv
<1> QED
  BY <1>1, ReviewInvariant, PTL

\* A help request waits for a review that an employee can decide, and so does
\* a submission, unless its outcome is unknown and reconcile will open the
\* triage.  Other messages await a review only beside a submission.
THEOREM HelpAndSubmissionsCanBeReleased == Spec => []HelpAndSubmissionCanBeReleased
<1>1. ReviewInv => HelpAndSubmissionCanBeReleased
  <2> SUFFICES ASSUME ReviewInv, NEW t \in tasks, t.status = "awaiting_review"
               PROVE  /\ t.awaits = "service" => UnderReview(t.conv, "service")
                      /\ t.kind = "confirmation" =>
                           IF actions[t.conv].status = "unknown"
                           THEN /\ conv[t.conv].state.stage = "pending_submission"
                                /\ UnderReview(t.conv, "submission")
                           ELSE UnderReview(t.conv, "triage")
                      /\ t.kind = "message" /\ t.awaits = "none" =>
                           actions[t.conv].status \in {"unknown", "confirmed"}
    BY DEF HelpAndSubmissionCanBeReleased
  <2>1. t.conv \in Conversations
    BY DEF ReviewInv, SubmissionInv, TypeOK, Task
  <2>2. PendingReviewIsCurrent /\ UnknownOutcomeIsPursued
    BY PendingAreCurrent, UnknownIsPursued
  <2>3. /\ t.awaits = "service" => reviews[t.conv]["service"].status = "pending"
        /\ t.kind = "confirmation" =>
             \/ actions[t.conv].status = "unknown"
             \/ reviews[t.conv]["triage"].status = "pending"
        /\ t.kind = "message" /\ t.awaits = "none" =>
             actions[t.conv].status \in {"unknown", "confirmed"}
    BY DEF ReviewInv, WaitingTasksAreFollowed, Submitted
  <2> QED
    BY <2>1, <2>2, <2>3 DEF UnderReview, PendingReviewIsCurrent, UnknownOutcomeIsPursued, Kinds
<1> QED
  BY <1>1, ReviewInvariant, PTL
=============================================================================
