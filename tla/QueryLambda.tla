---------------------------- MODULE QueryLambda ----------------------------
(***************************************************************************)
(* The policy query Lambda: an invocation retrieves evidence for one owner *)
(* and line of business, lets a model draft an answer from it, and replies *)
(* in time or not at all; on request it first stores what it used under a  *)
(* key of the request id.  Invocations run side by side, share the capture *)
(* bucket, and may be stopped at any point by the platform.                *)
(*                                                                         *)
(* An action is the code between two calls to AWS.  Time passes in calls,  *)
(* counted in half seconds since the invocation began.                     *)
(***************************************************************************)
EXTENDS Integers, Sequences, Functions

CONSTANTS
  Calls,               \* invocations of the handler
  Requests, NoRequest, \* request ids; one may be delivered twice
  Subjects, NoSubject, \* what can be asked: a question with its owner and LOB
  ScopeOf,             \* a subject's owner and LOB
  Scopes, NoScope,     \* owners with LOBs, as retrieved metadata has them
  Documents, NoDocument,
  ResultCount, MaxPassage, MaxContext,
  Retrievals,          \* what the knowledge base may return
  Answers, Blank, Insufficient,
  Drafts,              \* payloads the answer model may return
  Deployments,
  CaptureOn,           \* the deployments that capture
  Lifetime,            \* the platform's limit on an invocation
  QueryDeadline,       \* QUERY_DEADLINE_SECONDS
  Durations            \* how long a call may take

Passage == [scope: Scopes \cup {NoScope}, document: Documents \cup {NoDocument}, size: Nat]
Draft == [answer: Answers, ids: SUBSET Nat, insufficient: BOOLEAN, usage: BOOLEAN]

ASSUME QueryAssumption ==
  /\ NoRequest \notin Requests /\ NoSubject \notin Subjects
  /\ NoScope \notin Scopes /\ NoDocument \notin Documents
  /\ ScopeOf \in [Subjects -> Scopes]
  /\ ResultCount \in Nat /\ MaxPassage \in Nat /\ MaxContext \in Nat
  /\ Retrievals \subseteq Seq(Passage) /\ <<>> \in Retrievals
  /\ {Blank, Insufficient} \subseteq Answers /\ Blank # Insufficient
  /\ Drafts \subseteq Draft
  /\ CaptureOn \subseteq Deployments
  /\ Lifetime \in Nat /\ QueryDeadline \in Nat /\ QueryDeadline >= 2 /\ Durations \subseteq Nat

VARIABLES
  events,   \* the requests that API Gateway has accepted
  call,     \* each invocation, what it has gathered and what it replied
  store,    \* the capture bucket, by the request id its keys are made of
  deployed  \* the deployment that new invocations run

queryVars == <<events, call, store, deployed>>

-----------------------------------------------------------------------------

\* A request of the operator or of someone else; its body is valid or not.
Event == [operator: BOOLEAN, valid: {TRUE}, subject: Subjects, capture: BOOLEAN]
           \cup [operator: BOOLEAN, valid: {FALSE}, subject: {NoSubject}, capture: {FALSE}]
NoEvent == [subject |-> NoSubject]

\* What an answer is made from; evidence and citations are the positions of
\* passages in the results, as in their ids E1, E2, ...
Artifact == [deployment: Deployments, subject: Subjects, results: Retrievals,
             evidence: SUBSET Nat, invoked: BOOLEAN, usage: BOOLEAN,
             answer: Answers, cites: SUBSET Nat]
NoArtifact == [subject |-> NoSubject]

Working == {"retrieving", "drafting", "saving"}
Points == {"idle", "replied", "timed_out", "killed"} \cup Working
Statuses == {0, 200, 400, 403, 503, 504}
Call == [pc: Points,
         request: Requests \cup {NoRequest}, elapsed: Nat,
         artifact: Artifact \cup {NoArtifact}, captured: BOOLEAN,
         status: Statuses]
NotCalled == [pc |-> "idle", request |-> NoRequest, elapsed |-> 0,
              artifact |-> NoArtifact, captured |-> FALSE, status |-> 0]

-----------------------------------------------------------------------------
(* The deadline and the limits of the calls. *)

Least(a, b) == IF a <= b THEN a ELSE b
Most(a, b) == IF a <= b THEN b ELSE a

Deadline == Least(QueryDeadline, Most(2, Lifetime - 1))

Remaining(e) == Deadline - e

\* Mutant: the deadline is computed and never looked at.
LateNever(e) == FALSE

Late(e) == Remaining(e) <= 1

\* The read timeout of the clients for Bedrock, made before the first call.
ReadTimeout == 2 * Most(1, Least(10, (Remaining(0) - 1) \div 2))

\* One attempt to connect and one to read.
CallLimit == Least(4, ReadTimeout) + ReadTimeout
SaveLimit(e) == 2 + 2 * Most(1, Least(3, Remaining(e) \div 2))

\* When a call of invocation c that takes no longer than limit may return.
Ends(c, limit) == {call[c].elapsed + t : t \in {d \in Durations : d <= limit}}

At(c, e) == [call[c] EXCEPT !.elapsed = e]

\* The platform stops an invocation that is past its lifetime.
Goes(c, k) ==
  call' = [call EXCEPT ![c] =
             IF k.elapsed > Lifetime THEN [NotCalled EXCEPT !.pc = "timed_out", !.request = k.request]
             ELSE IF k.pc = "replied" THEN [k EXCEPT !.elapsed = 0]
             ELSE k]

-----------------------------------------------------------------------------
(* The stages of an invocation k. *)

Refused(k, status) == [k EXCEPT !.pc = "replied", !.status = status, !.artifact = NoArtifact]
Replied(k, a) == [k EXCEPT !.pc = "replied", !.status = 200, !.artifact = a]

\* Blank passages are no evidence.
Evidence(results) == {i \in DOMAIN results : results[i].size > 0}

\* Metadata must name a document of the owner and LOB, blank passages' too.
Isolated(results, s) ==
  \A i \in DOMAIN results :
    results[i].scope = ScopeOf[s] /\ results[i].document # NoDocument

Fits(results) ==
  /\ Len(results) <= ResultCount
  /\ \A i \in DOMAIN results : results[i].size <= MaxPassage
  /\ FoldFunction(+, 0, [i \in DOMAIN results |-> results[i].size]) <= MaxContext

\* An answer is replied, or stored first when that was asked for.
Answered(k, a) ==
  IF ~events[k.request].capture THEN Replied(k, a)
  ELSE IF Late(k.elapsed) THEN Refused(k, 504)
  ELSE [k EXCEPT !.pc = "saving", !.artifact = a]

\* Without evidence the model is not asked.
Retrieved(k, results) ==
  LET a == [k.artifact EXCEPT !.results = results, !.evidence = Evidence(results)]
  IN  IF ~Isolated(results, a.subject) \/ ~Fits(results) THEN Refused(k, 503)
      ELSE IF a.evidence = {} THEN Answered(k, a)
      ELSE IF Late(k.elapsed) THEN Refused(k, 504)
      ELSE [k EXCEPT !.pc = "drafting", !.artifact = a]

\* Citations of unknown evidence are dropped; without any there is no answer.
Drafted(k, draft) ==
  LET cites == draft.ids \cap k.artifact.evidence
      unsupported == draft.insufficient \/ draft.answer = Blank \/ cites = {}
  IN  IF Late(k.elapsed) THEN Refused(k, 504)
      ELSE Answered(k, [k.artifact EXCEPT
             !.invoked = TRUE, !.usage = draft.usage,
             !.answer = IF unsupported THEN Insufficient ELSE draft.answer,
             !.cites = IF unsupported THEN {} ELSE cites])

-----------------------------------------------------------------------------
(* Steps. *)

\* API Gateway gives a request its id.
Ask(r, event) ==
  /\ events[r] = NoEvent
  /\ events' = [events EXCEPT ![r] = event]

\* Mutant: a body is used as it is.
RejectionUnread(event) ==
  IF ~event.operator THEN 403
  ELSE IF event.capture /\ deployed \notin CaptureOn THEN 400
  ELSE 0

\* The status of a request that is turned away before any call.
Rejection(event) ==
  IF ~event.operator THEN 403
  ELSE IF ~event.valid \/ (event.capture /\ deployed \notin CaptureOn) THEN 400
  ELSE 0

Begin(c, r) ==
  LET event == events[r]
      k == [NotCalled EXCEPT !.request = r]
      fresh == [deployment |-> deployed, subject |-> event.subject, results |-> <<>>,
                evidence |-> {}, invoked |-> FALSE, usage |-> TRUE,
                answer |-> Insufficient, cites |-> {}]
  IN  /\ call[c] = NotCalled /\ event # NoEvent
      /\ Goes(c, IF Rejection(event) # 0 THEN Refused(k, Rejection(event))
                 ELSE [k EXCEPT !.pc = "retrieving", !.artifact = fresh])
      /\ UNCHANGED <<events, store, deployed>>

\* retrieve returns passages, or raises.
Retrieve(c) ==
  /\ call[c].pc = "retrieving"
  /\ \E e \in Ends(c, CallLimit) :
       \/ Goes(c, Refused(At(c, e), 503))
       \/ \E results \in Retrievals : Goes(c, Retrieved(At(c, e), results))
  /\ UNCHANGED <<events, store, deployed>>

\* converse returns a payload; or it raises, is cut off, or is no such payload.
Converse(c) ==
  /\ call[c].pc = "drafting"
  /\ \E e \in Ends(c, CallLimit) :
       \/ Goes(c, Refused(At(c, e), 503))
       \/ \E draft \in Drafts : Goes(c, Drafted(At(c, e), draft))
  /\ UNCHANGED <<events, store, deployed>>

\* Mutant: a put without IfNoneMatch replaces what is there.
SaveOver(c) ==
  LET r == call[c].request
  IN  /\ call[c].pc = "saving"
      /\ \E e \in Ends(c, SaveLimit(call[c].elapsed)) :
           \/ /\ store' = [store EXCEPT ![r] = call[c].artifact]
              /\ \/ Goes(c, [Replied(At(c, e), call[c].artifact) EXCEPT !.captured = TRUE])
                 \/ Goes(c, Refused(At(c, e), 503))
           \/ Goes(c, Refused(At(c, e), 503)) /\ UNCHANGED store
      /\ UNCHANGED <<events, deployed>>

\* The put takes effect if the key is free, and its reply may be lost; every
\* error refuses the answer.
Save(c) ==
  LET r == call[c].request
  IN  /\ call[c].pc = "saving"
      /\ \E e \in Ends(c, SaveLimit(call[c].elapsed)) :
           \/ /\ store[r] = NoArtifact
              /\ store' = [store EXCEPT ![r] = call[c].artifact]
              /\ \/ Goes(c, [Replied(At(c, e), call[c].artifact) EXCEPT !.captured = TRUE])
                 \/ Goes(c, Refused(At(c, e), 503))
           \/ Goes(c, Refused(At(c, e), 503)) /\ UNCHANGED store
      /\ UNCHANGED <<events, deployed>>

\* The sandbox of an invocation dies.
Kill(c) ==
  /\ call[c].pc \in Working
  /\ call' = [call EXCEPT ![c] = [NotCalled EXCEPT !.pc = "killed", !.request = call[c].request]]
  /\ UNCHANGED <<events, store, deployed>>

Redeploy ==
  /\ \E d \in Deployments \ {deployed} : deployed' = d
  /\ UNCHANGED <<events, call, store>>

-----------------------------------------------------------------------------

QueryInit ==
  /\ events = [r \in Requests |-> NoEvent]
  /\ call = [c \in Calls |-> NotCalled]
  /\ store = [r \in Requests |-> NoArtifact]
  /\ deployed \in Deployments

HandlerNext ==
  \/ \E c \in Calls :
       \/ \E r \in Requests : Begin(c, r)
       \/ Retrieve(c) \/ Converse(c) \/ Save(c) \/ Kill(c)
  \/ Redeploy

AnyRequest ==
  /\ \E r \in Requests, event \in Event : Ask(r, event)
  /\ UNCHANGED <<call, store, deployed>>

QuerySpec == QueryInit /\ [][HandlerNext \/ AnyRequest]_queryVars

-----------------------------------------------------------------------------

\* Every variable holds what its description says.
TypeOK ==
  /\ events \in [Requests -> Event \cup {NoEvent}]
  /\ call \in [Calls -> Call]
  /\ store \in [Requests -> Artifact \cup {NoArtifact}]
  /\ deployed \in Deployments

\* An answer rests on what its caller may see and nothing else: all that was
\* retrieved is of documents of the owner and LOB asked for, and a citation is
\* the place, among all that was retrieved, of a passage that is not blank.  If
\* evidence was asked for, the bucket has exactly what this invocation used and
\* replied, though the request may have been delivered twice and the replies
\* of the bucket be lost; else nothing is there.
AnswersAreBacked ==
  \A c \in Calls : call[c].status = 200 =>
    LET k == call[c]
        event == events[k.request]
        results == k.artifact.results
    IN  /\ event.operator /\ k.artifact.subject = event.subject
        /\ \A i \in DOMAIN results :
             results[i].scope = ScopeOf[event.subject] /\ results[i].document # NoDocument
        /\ \A i \in k.artifact.cites : i \in DOMAIN results /\ results[i].size > 0
        /\ store[k.request] = IF event.capture THEN k.artifact ELSE NoArtifact

\* The deadline is enforced by the handler: its time-outs end every call
\* before the platform would stop the invocation without a reply, though the
\* clients' time-outs are set once and a call may begin just before the
\* deadline ("Enforce the overall deadline across retrieval, generation and
\* SDK retries").
DeadlineIsEnforced == \A c \in Calls : call[c].pc # "timed_out"
=============================================================================
