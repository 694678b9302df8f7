---------------------------- MODULE ReviewBoard ----------------------------
(***************************************************************************)
(* The review rows of one conversation and the review graph's checkpoint   *)
(* threads.                                                                *)
(*                                                                         *)
(* A "board" maps each review kind to its only row (UNIQUE(conversation,   *)
(* kind)).  The proposal is kept where a property reads it: the team of a  *)
(* triage proposal.                                                        *)
(*                                                                         *)
(* A checkpoint thread is named by a review and its version.  It commits   *)
(* apart from the application's database, so it may hold the decision of   *)
(* a transaction that was rolled back.  Only threads that hold a decision  *)
(* are kept: a thread that does not exist and one that waits at its        *)
(* interrupt answer every call alike.                                      *)
(***************************************************************************)
EXTENDS AutoIntake

CONSTANTS
  Conversations,  \* conversation references
  DecisionIds     \* reviewer-chosen decision ids

Kinds == {"service", "urgency", "triage", "submission"}
Decisions == {"accept", "amend", "reject", "request_information"}
ReviewStatuses == Decisions \cup {"absent", "pending", "stale", "reconciled"}

NoTeam == "no_team"
TeamOrNone == Teams \cup {NoTeam}

Review == [status: ReviewStatuses, version: Nat, team: TeamOrNone]
Board == [Kinds -> Review]

NoReview == [status |-> "absent", version |-> 0, team |-> NoTeam]
EmptyBoard == [k \in Kinds |-> NoReview]

\* A decision with the thread it resumes and the row it decides.
Verdict == [conv: Conversations, kind: Kinds, version: Nat,
            id: DecisionIds, decision: Decisions, team: TeamOrNone]

\* A run without a decision, or with another one than the thread holds,
\* starts the thread afresh.
Restarted(threads, c, kind, version) ==
  {t \in threads : ~(t.conv = c /\ t.kind = kind /\ t.version = version)}

\* Mutant: a thread that already holds a decision is left alone.
ResumedOnce(threads, verdict) ==
  IF Restarted(threads, verdict.conv, verdict.kind, verdict.version) # threads
  THEN threads ELSE threads \cup {verdict}

Resumed(threads, verdict) ==
  Restarted(threads, verdict.conv, verdict.kind, verdict.version) \cup {verdict}

-----------------------------------------------------------------------------
(* The worker's operations act on the work of one transaction: the state   *)
(* of the conversation, its board, and the checkpoint threads.             *)

\* Mutant: a review that exists is never proposed again.
ProposedOnce(row, kind, state) ==
  IF row.status = "absent"
  THEN [status |-> "pending", version |-> state.version,
        team |-> IF kind = "triage" THEN state.team ELSE NoTeam]
  ELSE row

\* A row is proposed anew only when the draft has moved on since.
Proposed(row, kind, state) ==
  IF row.status = "absent" \/ row.version # state.version
  THEN [status |-> "pending", version |-> state.version,
        team |-> IF kind = "triage" THEN state.team ELSE NoTeam]
  ELSE row

UpsertReview(c, work, kind) ==
  LET row == Proposed(work.board[kind], kind, work.state)
  IN  [work EXCEPT
        !.board = [@ EXCEPT ![kind] = row],
        !.threads = IF row.status = "pending" /\ kind # "submission"
                    THEN Restarted(@, c, kind, row.version)
                    ELSE @]

\* Mutant: the pending service request stays at the old version.
InvalidatedOthers(board, version) ==
  [k \in Kinds |-> IF k = "service" \/ board[k].status = "absent" THEN board[k]
                   ELSE [board[k] EXCEPT !.status = "stale"]]

\* A new draft version: a waiting employee keeps the service request, every
\* other review is about an older draft.
Invalidated(board, version) ==
  [k \in Kinds |->
     IF k = "service"
     THEN IF board[k].status = "pending" THEN [board[k] EXCEPT !.version = version]
                                         ELSE board[k]
     ELSE IF board[k].status = "absent" THEN board[k]
                                        ELSE [board[k] EXCEPT !.status = "stale"]]
=============================================================================
