----------------------------- MODULE Submission -----------------------------
(***************************************************************************)
(* What submitting an intake promises, without tasks, timeouts, crashes or *)
(* reconciliation: one draft is intended, one claim is filed for it, and   *)
(* the receipt of that claim is what the customer is shown.                *)
(***************************************************************************)
CONSTANT Conversations

\* sub[c] has the draft intended (a set of at most one), the claims filed,
\* each with its id and draft, and the version on the receipt shown (0: none).
VARIABLE sub

Init == sub = [c \in Conversations |-> [intents |-> {}, claims |-> {}, receipt |-> 0]]

\* The customer confirms a draft: the intent is recorded before any filing.
Intend(c) ==
  /\ sub[c].intents = {}
  /\ \E draft \in sub'[c].intents : sub'[c] = [sub[c] EXCEPT !.intents = {draft}]

\* The first claim is filed, for the intended draft.
File(c) ==
  /\ sub[c].claims = {}
  /\ \E claim \in sub'[c].claims :
       /\ claim.draft \in sub[c].intents
       /\ sub'[c] = [sub[c] EXCEPT !.claims = {claim}]

\* The claim's receipt is shown, for good.
Acknowledge(c) ==
  /\ sub[c].receipt = 0
  /\ \E claim \in sub[c].claims :
       sub'[c] = [sub[c] EXCEPT !.receipt = claim.draft.version]

\* Filing and showing may be one step.
FileAndAcknowledge(c) ==
  /\ sub[c].claims = {}
  /\ \E claim \in sub'[c].claims :
       /\ claim.draft \in sub[c].intents
       /\ sub'[c] = [intents |-> sub[c].intents, claims |-> {claim},
                     receipt |-> claim.draft.version]

\* A reconciliation settles several conversations in one step.
Next ==
  \A c \in Conversations :
    \/ sub'[c] = sub[c]
    \/ Intend(c)
    \/ File(c)
    \/ Acknowledge(c)
    \/ FileAndAcknowledge(c)

Spec == Init /\ [][Next]_sub
=============================================================================
