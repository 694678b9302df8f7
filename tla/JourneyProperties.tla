------------------------- MODULE JourneyProperties -------------------------
(***************************************************************************)
(* What makes the insurance journey correct.                               *)
(***************************************************************************)
EXTENDS Application

\* Every table holds rows of its schema.
TypeOK ==
  /\ conv \in [Conversations -> Conversation]
  /\ tasks \subseteq Task
  /\ outbox \in Seq(Delivery)
  /\ actions \in [Conversations -> Action]
  /\ reviews \in [Conversations -> Board]
  /\ decisions \subseteq Verdict
  /\ helpSessions \subseteq [request: RequestIds, conv: Conversations]
  /\ claims \in [ActionIds -> Claim]
  /\ threads \subseteq Verdict

-----------------------------------------------------------------------------
(* Submission: the intent, the core and what the customer is shown. *)

\* A conversation never has two claims at the core, whatever is lost or
\* repeated between the two stores (README: unknown outcomes "cannot be
\* approved into a second submission").
OneClaimPerConversation ==
  \A a, b \in ActionIds :
    Filed(claims, a) /\ Filed(claims, b) /\ claims[a].intake = claims[b].intake => a = b

\* A claim is filed only for a committed intent, for the draft the customer
\* confirmed and in the name of the conversation's owner, however the facts
\* moved on between the confirmation and the attempt that reached the core.
ClaimMatchesIntent ==
  \A a \in ActionIds : Filed(claims, a) =>
    \E c \in Conversations :
      /\ actions[c].id = a
      /\ claims[a] = ClaimFor(conv[c].owner, actions[c].draft)

\* The customer sees a receipt exactly when the action is confirmed, and it
\* is the receipt of a claim the core has.
ReceiptIsBacked ==
  \A c \in Conversations :
    LET action == actions[c]
    IN  /\ conv[c].state.receipt # 0 <=> action.status = "confirmed"
        /\ action.status = "confirmed" =>
             /\ Filed(claims, action.id)
             /\ conv[c].state.receipt = claims[action.id].version

\* While the outcome of a submission is unknown, the customer is told so and
\* a submission review of the current draft stays open: neither a message
\* nor a replanning in between may hide it.
UnknownOutcomeIsPursued ==
  \A c \in Conversations : actions[c].status = "unknown" =>
    /\ conv[c].state.stage = "pending_submission"
    /\ reviews[c]["submission"].status = "pending"

\* A task the API accepted is never failed by the worker: nothing that can
\* run between acceptance and processing makes it stale or unauthorized.
AcceptedNeverFails == \A t \in tasks : t.status # "failed"

-----------------------------------------------------------------------------
(* Reviews: what employees see is about the current draft. *)

\* A pending review is of the current version, or nobody could decide it:
\* decide refuses any other as stale_review.
PendingReviewIsCurrent ==
  \A c \in Conversations, kind \in Kinds :
    reviews[c][kind].status = "pending" => reviews[c][kind].version = conv[c].state.version

\* An urgent conversation always has an urgency review of its current
\* version, pending or decided; reported urgent facts are urgent; and an alert
\* that was ever raised is not screened away by an edit, a decision, a
\* reconciliation or a replanning.
UrgencyIsReviewed ==
  \A c \in Conversations : Created(c) =>
    LET state  == conv[c].state
        review == reviews[c]["urgency"]
    IN  /\ Triggered(state.facts) \/ review.status # "absent" => state.priority = "urgent"
        /\ state.priority = "urgent" =>
             review.version = state.version /\ review.status \in Decisions \cup {"pending"}

\* After a submission the triage review is about the current version, and a
\* pending one proposes the team of the current priority.
TriageIsCurrent ==
  \A c \in Conversations : conv[c].state.receipt # 0 =>
    LET state  == conv[c].state
        review == reviews[c]["triage"]
    IN  /\ review.version = state.version
        /\ review.status \in Decisions \cup {"pending"}
        /\ review.team = Team(state.priority)

\* No employee decision routes an urgent conversation to another team than
\* the urgent one, even when it turns urgent after the decision.
UrgencyFloor ==
  \A c \in Conversations :
    LET state == conv[c].state
    IN  state.priority = "urgent" /\ state.outcome.decision \in {"accept", "amend"}
          => state.outcome.team = UrgentTeam

\* The checkpoint of a decided review resumed with the decision that was
\* recorded, not with one whose transaction was rolled back.
CheckpointMatchesDecision ==
  \A v \in decisions, t \in threads :
    v.conv = t.conv /\ v.kind = t.kind /\ v.version = t.version => v = t

\* The review is pending for the current version.
UnderReview(c, kind) ==
  /\ reviews[c][kind].status = "pending"
  /\ reviews[c][kind].version = conv[c].state.version

\* A help request or a submission that awaits review is not forgotten.  The
\* service review of a help request can be decided, and so can the triage
\* review of a submission, and the decision releases it; while the outcome is
\* unknown decide refuses, and the submission is left to reconcile, which
\* opens the triage.  Any other message reads awaiting_review only
\* beside a submission, whose stage it repeats.  Nothing releases such a
\* message, and nothing is said here of what becomes of it.
HelpAndSubmissionCanBeReleased ==
  \A t \in tasks : t.status = "awaiting_review" =>
    /\ t.awaits = "service" => UnderReview(t.conv, "service")
    /\ t.kind = "confirmation" =>
         IF actions[t.conv].status = "unknown"
         THEN conv[t.conv].state.stage = "pending_submission" /\ UnderReview(t.conv, "submission")
         ELSE UnderReview(t.conv, "triage")
    /\ t.kind = "message" /\ t.awaits = "none" =>
         actions[t.conv].status \in {"unknown", "confirmed"}

\* The customer is asked to confirm exactly when the draft can be submitted.
ConfirmationIsOffered ==
  \A c \in Conversations : Created(c) =>
    (conv[c].state.stage = "awaiting_confirmation" <=>
       /\ Missing(conv[c].state.facts) = {}
       /\ actions[c].status \in {"none", "pending"})

-----------------------------------------------------------------------------
(* The journey keeps the promise of Submission: the claims of a conversation *)
(* are those the core filed for its intake, under whatever action id.        *)

ClaimsOf(c) ==
  {[id |-> a, draft |-> [intake |-> c, version |-> claims[a].version, facts |-> claims[a].facts]] :
     a \in {b \in ActionIds : claims[b].intake = c}}

SubmissionOf(c) ==
  [intents |-> IF actions[c].status = "none" THEN {} ELSE {actions[c].draft},
   claims |-> ClaimsOf(c),
   receipt |-> conv[c].state.receipt]

Promise == INSTANCE Submission WITH sub <- [c \in Conversations |-> SubmissionOf(c)]

\* The tasks, the worker, its crashes and the reconciliation implement the
\* submission a customer was promised (README: "Action intent and the
\* original confirmed snapshot commit before a core write").
ImplementsSubmission == Promise!Spec

-----------------------------------------------------------------------------
(* Liveness. *)

\* Every accepted task is processed.
AcceptedIsProcessed ==
  \A c \in Conversations : Busy(c) ~> ~Busy(c)

\* An unknown outcome is settled.
UnknownIsSettled ==
  \A c \in Conversations :
    actions[c].status = "unknown" ~> actions[c].status = "confirmed"
=============================================================================
