--------------------------- MODULE ActionService ---------------------------
(***************************************************************************)
(* The durable submission intent and the core write it authorizes.         *)
(*                                                                         *)
(* An action row is the intent: the draft the customer confirmed, under an *)
(* id that is also the core's idempotency key.  The core keeps its claims  *)
(* in a store of its own, which commits apart from the application's.      *)
(***************************************************************************)
EXTENDS ReviewBoard

CONSTANT ActionIds  \* fresh references drawn for actions

NoAction == "no_action"
NoOwner == "no_owner"

\* No identity has the subject that marks a pre-login conversation.
ASSUME NullAssumption ==
  /\ NoAction \notin ActionIds
  /\ {NoOwner, "preauth"} \cap Customers = {}
  /\ "no_intake" \notin Conversations

Owners == Customers \cup {"preauth", NoOwner}

ActionStatuses == {"none", "pending", "unknown", "confirmed"}

DraftSet == [intake: Conversations, version: Nat, facts: FactMap]
NoDraft(c) == [intake |-> c, version |-> 0, facts |-> NoFacts]

Action == [id: ActionIds \cup {NoAction}, status: ActionStatuses,
           draft: DraftSet, receipt: Nat]
NoIntent(c) == [id |-> NoAction, status |-> "none", draft |-> NoDraft(c), receipt |-> 0]

\* A claim the core has filed, with the draft its receipt was given for.
\* A receipt names the draft's version, so 0 is no receipt.
Claim == [owner: Owners, version: Nat, facts: FactMap,
          intake: Conversations \cup {"no_intake"}]
NoClaim == [owner |-> NoOwner, version |-> 0, facts |-> NoFacts, intake |-> "no_intake"]
ClaimFor(owner, draft) == [owner |-> owner, version |-> draft.version,
                           facts |-> draft.facts, intake |-> draft.intake]
Filed(claims, a) == claims[a] # NoClaim

\* Where the connection to the core can break during one attempt.
CoreReplies == {"answers", "lookup_lost", "submit_lost", "submit_reply_lost"}

-----------------------------------------------------------------------------
\* Mutant: every confirmation is an intent of its own.
PreparedAnew(actions, claims, c, draft) ==
  [id: {a \in ActionIds : ~Filed(claims, a) /\ \A d \in Conversations : actions[d].id # a},
   status: {"pending"}, draft: {draft}, receipt: {0}]

\* Mutant: a later confirmation replaces the draft of the intent.
PreparedAgain(actions, claims, c, draft) ==
  LET fresh == {a \in ActionIds : ~Filed(claims, a) /\ \A d \in Conversations : actions[d].id # a}
  IN  IF actions[c].status = "none"
      THEN [id: fresh, status: {"pending"}, draft: {draft}, receipt: {0}]
      ELSE {[actions[c] EXCEPT !.status = "pending", !.draft = draft]}

\* The action rows a confirmation may leave: a fresh intent for a
\* conversation that has none, the existing one for the same draft, and
\* none at all (submission_already_started) for another draft.
Prepared(actions, claims, c, draft) ==
  LET fresh == {a \in ActionIds : ~Filed(claims, a) /\ \A d \in Conversations : actions[d].id # a}
  IN  IF actions[c].status = "none"
      THEN [id: fresh, status: {"pending"}, draft: {draft}, receipt: {0}]
      ELSE {row \in {actions[c]} : row.draft = draft}

\* The core files a draft once per action id, and answers with its claim.
CoreSubmit(claim, owner, draft) ==
  IF claim = NoClaim THEN ClaimFor(owner, draft) ELSE claim

\* Mutant: an attempt without an answer counts as a success.
ExecuteOptimistic(action, claim, owner, reply) ==
  LET files == claim = NoClaim /\ reply \in {"answers", "submit_reply_lost"}
      answered == IF files THEN CoreSubmit(claim, owner, action.draft) ELSE claim
  IN  [action |-> [action EXCEPT !.status = "confirmed", !.receipt = action.draft.version],
       claim |-> answered, refused |-> FALSE]

\* One attempt: look the action up, submit its own draft if the core does
\* not know it.  A lost reply leaves the outcome unknown; a DomainError of
\* the core (refused) leaves everything as it was.
Execute(action, claim, owner, reply) ==
  LET asks == claim = NoClaim /\ reply # "lookup_lost"
      refused == asks /\ ~ValidDraft(owner, action.draft.facts)
      lost == reply = "lookup_lost" \/ (asks /\ reply # "answers")
      files == asks /\ reply # "submit_lost"
      answered == IF files THEN CoreSubmit(claim, owner, action.draft) ELSE claim
  IN  IF action.status = "confirmed" \/ refused
      THEN [action |-> action, claim |-> claim, refused |-> action.status # "confirmed"]
      ELSE [action |-> IF lost THEN [action EXCEPT !.status = "unknown"]
                       ELSE [action EXCEPT !.status = "confirmed", !.receipt = answered.version],
            claim |-> answered, refused |-> FALSE]

\* The core knows a claim of this owner: claim_status answers for it.
ClaimKnown(claims, owner) == \E a \in ActionIds : claims[a].owner = owner
=============================================================================
