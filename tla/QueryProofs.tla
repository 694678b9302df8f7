---------------------------- MODULE QueryProofs ----------------------------
(***************************************************************************)
(* The query Lambda: type correctness, what an answer rests on, and the    *)
(* deadline, for any number of invocations and requests, any documents and *)
(* drafts, and any durations of the calls within their limits.             *)
(***************************************************************************)
EXTENDS QueryLambda, TLAPS

-----------------------------------------------------------------------------
(* The inductive invariant: what an invocation has at each of its points.  *)

\* The evidence is that of the results, and citations are of it.
Cited(a) == a.evidence = Evidence(a.results) /\ a.cites \subseteq a.evidence

\* An invocation at work, or with an answer, is about the operator's request.
Known(k) ==
  /\ k.request \in Requests /\ events[k.request] # NoEvent /\ events[k.request].operator
  /\ k.artifact \in Artifact /\ k.artifact.subject = events[k.request].subject
  /\ Cited(k.artifact)

Owned(a) ==
  \A i \in DOMAIN a.results :
    a.results[i].scope = ScopeOf[a.subject] /\ a.results[i].document # NoDocument

CallInv(k, st) ==
  /\ k \in Call
  /\ k.pc \in Working => k.status = 0 /\ Known(k)
  /\ k.pc \in {"retrieving", "drafting"} => k.artifact.cites = {}
  /\ k.pc \in {"drafting", "saving"} => Owned(k.artifact)
  /\ k.pc = "saving" => events[k.request].capture
  /\ k.status = 200 =>
       /\ k.pc = "replied" /\ Known(k) /\ Owned(k.artifact)
       /\ st[k.request] = IF events[k.request].capture THEN k.artifact ELSE NoArtifact

\* Only what was asked for is stored.
StoreInv == \A r \in Requests : store[r] # NoArtifact => events[r] # NoEvent /\ events[r].capture

QueryInv == TypeOK /\ StoreInv /\ \A c \in Calls : CallInv(call[c], store)

-----------------------------------------------------------------------------
(* The operators of the model. *)

\* The deadline and the limits of the calls are numbers, whatever was configured.
LEMMA Limits ==
  /\ Deadline \in Nat
  /\ \A e \in Nat : Remaining(e) \in Int /\ SaveLimit(e) \in Nat
  /\ CallLimit \in Nat
  BY QueryAssumption DEF Deadline, Remaining, SaveLimit, CallLimit, ReadTimeout, Least, Most

\* An artifact is not the empty place in the bucket.
LEMMA ArtifactIsSomething ==
  ASSUME NEW a \in Artifact PROVE a # NoArtifact
  BY QueryAssumption DEF Artifact, NoArtifact

\* An event with a valid body has a subject.
LEMMA EventKinds ==
  ASSUME NEW event \in Event
  PROVE  /\ event.operator \in BOOLEAN /\ event.valid \in BOOLEAN /\ event.capture \in BOOLEAN
         /\ event.valid => event.subject \in Subjects
  BY DEF Event

\* The positions of the evidence are numbers.
LEMMA EvidenceIsPositions ==
  ASSUME NEW results \in Retrievals PROVE Evidence(results) \in SUBSET Nat
<1>1. results \in Seq(Passage)
  BY QueryAssumption
<1>2. DOMAIN results \subseteq Nat
  BY <1>1
<1> QED BY <1>2 DEF Evidence

\* What the steps of an invocation change, field by field.
LEMMA FieldsOfTime ==
  ASSUME NEW k \in Call, NEW e \in Nat, NEW m, m = [k EXCEPT !.elapsed = e]
  PROVE  /\ m \in Call /\ m.elapsed = e
         /\ m.pc = k.pc /\ m.request = k.request /\ m.status = k.status /\ m.artifact = k.artifact
  BY DEF Call

LEMMA FieldsOfRefusal ==
  ASSUME NEW k \in Call, NEW status \in Statuses, NEW m, m = Refused(k, status)
  PROVE  m \in Call /\ m.pc = "replied" /\ m.status = status /\ m.elapsed = k.elapsed
<1>1. "replied" \in Points
  BY DEF Points
<1> QED BY <1>1 DEF Call, Refused

LEMMA FieldsOfReply ==
  ASSUME NEW k \in Call, NEW a \in Artifact, NEW m, m = Replied(k, a)
  PROVE  /\ m \in Call /\ m.pc = "replied" /\ m.status = 200 /\ m.elapsed = k.elapsed
         /\ m.request = k.request /\ m.artifact = a
<1>1. "replied" \in Points /\ 200 \in Statuses
  BY DEF Points, Statuses
<1> QED BY <1>1 DEF Call, Replied

Works(k, pc, a) == [k EXCEPT !.pc = pc, !.artifact = a]

LEMMA FieldsOfWork ==
  ASSUME NEW k \in Call, NEW a \in Artifact, NEW pc \in Points, NEW m, m = Works(k, pc, a)
  PROVE  /\ m \in Call /\ m.pc = pc /\ m.status = k.status /\ m.elapsed = k.elapsed
         /\ m.request = k.request /\ m.artifact = a
  BY DEF Call, Works

\* A refused invocation keeps the invariant.
LEMMA RefusedKeeps ==
  ASSUME NEW st, NEW k \in Call, NEW status \in Statuses, status # 200
  PROVE  CallInv(Refused(k, status), st)
<1> DEFINE m == Refused(k, status)
<1>1. m \in Call /\ m.pc = "replied" /\ m.status = status
  BY FieldsOfRefusal
<1> HIDE DEF m
<1>2. m.pc \notin Working /\ m.status # 200
  BY <1>1 DEF Working
<1>3. CallInv(m, st)
  BY <1>1, <1>2 DEF CallInv, Working
<1> QED BY <1>3 DEF m

\* The time of an invocation matters to none of this.
LEMMA TimeKeeps ==
  ASSUME NEW st, NEW k, CallInv(k, st), NEW e \in Nat
  PROVE  CallInv([k EXCEPT !.elapsed = e], st)
<1> DEFINE m == [k EXCEPT !.elapsed = e]
<1>1. k \in Call
  BY DEF CallInv
<1>2. /\ m \in Call /\ m.pc = k.pc /\ m.request = k.request /\ m.status = k.status
      /\ m.artifact = k.artifact
  BY <1>1, FieldsOfTime
<1>3. Known(k) => Known(m)
  BY <1>2 DEF Known
<1> HIDE DEF m
<1>4. CallInv(m, st)
  BY <1>2, <1>3 DEF CallInv
<1> QED BY <1>4 DEF m

\* What an answer of k would be about.
KnownWith(k, a) ==
  /\ k.request \in Requests /\ events[k.request] # NoEvent /\ events[k.request].operator
  /\ a \in Artifact /\ a.subject = events[k.request].subject
  /\ Cited(a)

\* A supported artifact is answered, refused, or stored first.
LEMMA AnsweredKeeps ==
  ASSUME StoreInv, NEW k \in Call, k.status = 0, NEW a \in Artifact, KnownWith(k, a), Owned(a)
  PROVE  CallInv(Answered(k, a), store)
<1>1. CASE ~events[k.request].capture
  <2>1. store[k.request] = NoArtifact
    BY <1>1 DEF StoreInv, KnownWith
  <2> DEFINE m == Replied(k, a)
  <2>2. m \in Call /\ m.pc = "replied" /\ m.status = 200 /\ m.request = k.request /\ m.artifact = a
    BY FieldsOfReply
  <2>3. Answered(k, a) = m
    BY <1>1 DEF Answered
  <2> HIDE DEF m
  <2> QED BY <1>1, <2>1, <2>2, <2>3 DEF CallInv, Known, KnownWith, Working
<1>2. CASE events[k.request].capture /\ Late(k.elapsed)
  BY <1>2, RefusedKeeps DEF Answered, Statuses
<1>3. CASE events[k.request].capture /\ ~Late(k.elapsed)
  <2> DEFINE m == Works(k, "saving", a)
  <2>1. m \in Call /\ m.pc = "saving" /\ m.status = 0 /\ m.request = k.request /\ m.artifact = a
    <3>1. "saving" \in Points
      BY DEF Points, Working
    <3> QED BY <3>1, FieldsOfWork
  <2>2. Answered(k, a) = m
    BY <1>3 DEF Answered, Works
  <2> HIDE DEF m
  <2> QED BY <1>3, <2>1, <2>2 DEF CallInv, Known, KnownWith, Working
<1> QED BY <1>1, <1>2, <1>3

\* What the two calls add to an artifact.
Gathered(a, results) == [a EXCEPT !.results = results, !.evidence = Evidence(results)]
Written(a, draft, answer, cites) ==
  [a EXCEPT !.invoked = TRUE, !.usage = draft.usage, !.answer = answer, !.cites = cites]

LEMMA FieldsOfArtifact ==
  ASSUME NEW a \in Artifact
  PROVE  /\ \A results \in Retrievals :
              /\ Gathered(a, results) \in Artifact
              /\ Gathered(a, results).subject = a.subject
              /\ Gathered(a, results).results = results
              /\ Gathered(a, results).evidence = Evidence(results)
              /\ Gathered(a, results).cites = a.cites
         /\ \A draft \in Drafts, answer \in Answers, cites \in SUBSET Nat :
              /\ Written(a, draft, answer, cites) \in Artifact
              /\ Written(a, draft, answer, cites).subject = a.subject
              /\ Written(a, draft, answer, cites).results = a.results
              /\ Written(a, draft, answer, cites).evidence = a.evidence
              /\ Written(a, draft, answer, cites).cites = cites
<1>1. ASSUME NEW results \in Retrievals
      PROVE  /\ Gathered(a, results) \in Artifact
             /\ Gathered(a, results).subject = a.subject
             /\ Gathered(a, results).results = results
             /\ Gathered(a, results).evidence = Evidence(results)
             /\ Gathered(a, results).cites = a.cites
  BY EvidenceIsPositions DEF Artifact, Gathered
<1>2. ASSUME NEW draft \in Drafts, NEW answer \in Answers, NEW cites \in SUBSET Nat
      PROVE  /\ Written(a, draft, answer, cites) \in Artifact
             /\ Written(a, draft, answer, cites).subject = a.subject
             /\ Written(a, draft, answer, cites).results = a.results
             /\ Written(a, draft, answer, cites).evidence = a.evidence
             /\ Written(a, draft, answer, cites).cites = cites
  <2>1. draft.usage \in BOOLEAN
    BY QueryAssumption DEF Draft
  <2> QED BY <2>1 DEF Artifact, Written
<1> QED BY <1>1, <1>2

\* What was retrieved is refused unless it is the owner's, and then answered
\* or handed to the model.
LEMMA RetrievedKeeps ==
  ASSUME StoreInv, NEW k, CallInv(k, store), k.pc = "retrieving", NEW results \in Retrievals
  PROVE  CallInv(Retrieved(k, results), store)
<1> DEFINE a == Gathered(k.artifact, results)
<1>1. k \in Call /\ k.status = 0 /\ Known(k) /\ k.artifact.cites = {}
  BY DEF CallInv, Working
<1>2. /\ a \in Artifact /\ a.subject = k.artifact.subject /\ a.results = results
      /\ a.evidence = Evidence(results) /\ a.cites = {}
  BY <1>1, FieldsOfArtifact DEF Known
<1>3. Retrieved(k, results) =
        IF ~Isolated(results, a.subject) \/ ~Fits(results) THEN Refused(k, 503)
        ELSE IF a.evidence = {} THEN Answered(k, a)
        ELSE IF Late(k.elapsed) THEN Refused(k, 504)
        ELSE Works(k, "drafting", a)
  BY DEF Retrieved, Gathered, Works
<1> HIDE DEF a
<1>4. CallInv(Refused(k, 503), store) /\ CallInv(Refused(k, 504), store)
  BY <1>1, RefusedKeeps DEF Statuses
<1>5. ASSUME Isolated(results, a.subject)
      PROVE  CallInv(Answered(k, a), store) /\ CallInv(Works(k, "drafting", a), store)
  <2>1. Owned(a) /\ KnownWith(k, a)
    BY <1>1, <1>2, <1>5 DEF Isolated, Owned, Known, KnownWith, Cited
  <2>2. CallInv(Answered(k, a), store)
    BY <1>1, <1>2, <2>1, AnsweredKeeps
  <2> DEFINE m == Works(k, "drafting", a)
  <2>3. m \in Call /\ m.pc = "drafting" /\ m.status = 0 /\ m.request = k.request /\ m.artifact = a
    <3>1. "drafting" \in Points
      BY DEF Points, Working
    <3> QED BY <1>1, <1>2, <3>1, FieldsOfWork
  <2> HIDE DEF m
  <2>4. CallInv(m, store)
    BY <1>2, <2>1, <2>3 DEF CallInv, Known, KnownWith, Working
  <2> QED BY <2>2, <2>4 DEF m
<1> QED BY <1>3, <1>4, <1>5

\* A draft is refused, or answered with citations of the evidence.
LEMMA DraftedKeeps ==
  ASSUME StoreInv, NEW k, CallInv(k, store), k.pc = "drafting", NEW draft \in Drafts
  PROVE  CallInv(Drafted(k, draft), store)
<1> DEFINE cites == draft.ids \cap k.artifact.evidence
           unsupported == draft.insufficient \/ draft.answer = Blank \/ cites = {}
           answer == IF unsupported THEN Insufficient ELSE draft.answer
           cited == IF unsupported THEN {} ELSE cites
           a == Written(k.artifact, draft, answer, cited)
<1>1. k \in Call /\ k.status = 0 /\ Known(k) /\ Owned(k.artifact)
  BY DEF CallInv, Working
<1>2. answer \in Answers /\ cited \in SUBSET Nat /\ cited \subseteq k.artifact.evidence
  BY QueryAssumption DEF Draft
<1>3. Drafted(k, draft) = IF Late(k.elapsed) THEN Refused(k, 504) ELSE Answered(k, a)
  BY DEF Drafted, Written
<1> HIDE DEF answer, cited
<1>4. /\ a \in Artifact /\ a.subject = k.artifact.subject /\ a.results = k.artifact.results
      /\ a.evidence = k.artifact.evidence /\ a.cites = cited
  BY <1>1, <1>2, FieldsOfArtifact DEF Known
<1> HIDE DEF a
<1>5. KnownWith(k, a) /\ Owned(a)
  BY <1>1, <1>2, <1>4 DEF Known, KnownWith, Owned, Cited
<1>6. CallInv(Refused(k, 504), store) /\ CallInv(Answered(k, a), store)
  BY <1>1, <1>4, <1>5, RefusedKeeps, AnsweredKeeps DEF Statuses
<1> QED BY <1>3, <1>6

-----------------------------------------------------------------------------
(* The steps. *)

Stopped(pc, r) == [NotCalled EXCEPT !.pc = pc, !.request = r]

\* An invocation that was stopped has nothing.
LEMMA StoppedKeeps ==
  ASSUME NEW st, NEW pc \in {"timed_out", "killed"}, NEW r \in Requests \cup {NoRequest}
  PROVE  CallInv(Stopped(pc, r), st)
<1> DEFINE m == Stopped(pc, r)
<1>1. pc \in Points /\ 0 \in Statuses
  BY DEF Points, Statuses
<1>2. /\ m \in Call /\ m.pc = pc /\ m.status = 0
  BY <1>1 DEF Stopped, NotCalled, Call
<1> HIDE DEF m
<1>3. CallInv(m, st)
  BY <1>2 DEF CallInv, Working
<1> QED BY <1>3 DEF m

\* An invocation that changes alone keeps the invariant.
LEMMA ChangeKeeps ==
  ASSUME QueryInv, NEW c \in Calls, NEW k, CallInv(k, store), call' = [call EXCEPT ![c] = k],
         UNCHANGED <<events, store>>, deployed' \in Deployments
  PROVE  QueryInv'
<1>1. k \in Call /\ call \in [Calls -> Call]
  BY DEF CallInv, QueryInv, TypeOK
<1>2. TypeOK'
  BY <1>1 DEF QueryInv, TypeOK
<1>3. StoreInv'
  BY DEF QueryInv, StoreInv
<1>4. ASSUME NEW d \in Calls PROVE CallInv(call[d], store)'
  <2>1. CallInv(call'[d], store)
    BY <1>1 DEF QueryInv
  <2>2. CallInv(call[d], store)' = CallInv(call'[d], store)
    BY DEF CallInv, Known
  <2> QED BY <2>1, <2>2
<1> QED BY <1>2, <1>3, <1>4 DEF QueryInv

\* What an invocation is when the platform may stop it.
Gone(k) ==
  IF k.elapsed > Lifetime THEN Stopped("timed_out", k.request)
  ELSE IF k.pc = "replied" THEN [k EXCEPT !.elapsed = 0] ELSE k

LEMMA GoneKeeps ==
  ASSUME NEW st, NEW k, CallInv(k, st), NEW c \in Calls, Goes(c, k)
  PROVE  CallInv(Gone(k), st) /\ call' = [call EXCEPT ![c] = Gone(k)]
<1>1. k.request \in Requests \cup {NoRequest}
  BY DEF CallInv, Call
<1>2. CallInv(Stopped("timed_out", k.request), st) /\ CallInv([k EXCEPT !.elapsed = 0], st)
  BY <1>1, StoppedKeeps, TimeKeeps
<1> QED BY <1>2 DEF Goes, Gone, Stopped

LEMMA GoesKeeps ==
  ASSUME QueryInv, NEW c \in Calls, NEW k, CallInv(k, store), Goes(c, k),
         UNCHANGED <<events, store, deployed>>
  PROVE  QueryInv'
<1>1. CallInv(Gone(k), store) /\ call' = [call EXCEPT ![c] = Gone(k)]
  BY GoneKeeps
<1>2. deployed' \in Deployments
  BY DEF QueryInv, TypeOK
<1> QED BY <1>1, <1>2, ChangeKeeps

\* Time that passes in a call is a number.
LEMMA EndsAreTimes ==
  ASSUME QueryInv, NEW c \in Calls, NEW limit, NEW e \in Ends(c, limit)
  PROVE  e \in Nat /\ CallInv(At(c, e), store)
<1>1. call[c].elapsed \in Nat
  BY DEF QueryInv, TypeOK, Call
<1>2. e \in Nat
  BY <1>1, QueryAssumption DEF Ends
<1> QED BY <1>2, TimeKeeps DEF At, QueryInv

\* The point of an invocation does not change while its call is out.
LEMMA PointAt ==
  ASSUME QueryInv, NEW c \in Calls, NEW e \in Nat
  PROVE  /\ At(c, e) \in Call /\ At(c, e).pc = call[c].pc /\ At(c, e).elapsed = e
         /\ At(c, e).request = call[c].request /\ At(c, e).artifact = call[c].artifact
         /\ At(c, e).status = call[c].status
  BY FieldsOfTime DEF At, QueryInv, TypeOK

\* A request is turned away, or its invocation begins.
LEMMA BeginKeeps ==
  ASSUME QueryInv, NEW c \in Calls, NEW r \in Requests, Begin(c, r)
  PROVE  QueryInv'
<1> DEFINE event == events[r]
           k == [NotCalled EXCEPT !.request = r]
           fresh == [deployment |-> deployed, subject |-> event.subject, results |-> <<>>,
                     evidence |-> {}, invoked |-> FALSE, usage |-> TRUE,
                     answer |-> Insufficient, cites |-> {}]
<1>1. event \in Event /\ event # NoEvent /\ deployed \in Deployments
  BY DEF QueryInv, TypeOK, Begin
<1>2. k \in Call /\ k.status = 0 /\ k.request = r
  <2>1. "idle" \in Points /\ 0 \in Statuses
    BY DEF Points, Statuses
  <2> QED BY <2>1 DEF NotCalled, Call
<1>3. CASE Rejection(event) # 0
  <2>1. Rejection(event) \in {400, 403}
    BY <1>3 DEF Rejection
  <2>2. CallInv(Refused(k, Rejection(event)), store)
    BY <1>2, <2>1, RefusedKeeps DEF Statuses
  <2>3. Goes(c, Refused(k, Rejection(event))) /\ UNCHANGED <<events, store, deployed>>
    BY <1>3 DEF Begin
  <2> HIDE DEF k
  <2> QED BY <2>2, <2>3, GoesKeeps
<1>4. CASE Rejection(event) = 0
  <2>1. event.operator /\ event.subject \in Subjects
    BY <1>1, <1>4, EventKinds DEF Rejection
  <2>2. fresh \in Artifact
    BY <1>1, <2>1, QueryAssumption DEF Artifact
  <2> DEFINE m == Works(k, "retrieving", fresh)
  <2>3. "retrieving" \in Points
    BY DEF Points, Working
  <2>4. fresh.subject = event.subject /\ fresh.cites = {} /\ Cited(fresh)
    <3>1. Evidence(<<>>) = {}
      BY DEF Evidence
    <3> QED BY <3>1 DEF Cited
  <2>5. Goes(c, m) /\ UNCHANGED <<events, store, deployed>>
    BY <1>4 DEF Begin, Works
  <2> HIDE DEF fresh, k
  <2>6. m \in Call /\ m.pc = "retrieving" /\ m.status = 0 /\ m.request = r /\ m.artifact = fresh
    BY <1>2, <2>2, <2>3, FieldsOfWork
  <2> HIDE DEF m
  <2>7. CallInv(m, store)
    BY <1>1, <2>1, <2>2, <2>4, <2>6 DEF CallInv, Known, Working
  <2> QED BY <2>5, <2>7, GoesKeeps
<1> QED BY <1>3, <1>4

LEMMA RetrieveKeeps ==
  ASSUME QueryInv, NEW c \in Calls, Retrieve(c)
  PROVE  QueryInv'
<1> PICK e \in Ends(c, CallLimit) :
      \/ Goes(c, Refused(At(c, e), 503))
      \/ \E results \in Retrievals : Goes(c, Retrieved(At(c, e), results))
  BY DEF Retrieve
<1>1. e \in Nat /\ CallInv(At(c, e), store)
  BY EndsAreTimes
<1>2. At(c, e) \in Call /\ At(c, e).pc = "retrieving" /\ UNCHANGED <<events, store, deployed>>
  BY <1>1, PointAt DEF Retrieve
<1>3. CallInv(Refused(At(c, e), 503), store)
  BY <1>2, RefusedKeeps DEF Statuses
<1>4. \A results \in Retrievals : CallInv(Retrieved(At(c, e), results), store)
  BY <1>1, <1>2, RetrievedKeeps DEF QueryInv
<1> QED BY <1>2, <1>3, <1>4, GoesKeeps

LEMMA ConverseKeeps ==
  ASSUME QueryInv, NEW c \in Calls, Converse(c)
  PROVE  QueryInv'
<1> PICK e \in Ends(c, CallLimit) :
      \/ Goes(c, Refused(At(c, e), 503))
      \/ \E draft \in Drafts : Goes(c, Drafted(At(c, e), draft))
  BY DEF Converse
<1>1. e \in Nat /\ CallInv(At(c, e), store)
  BY EndsAreTimes
<1>2. At(c, e) \in Call /\ At(c, e).pc = "drafting" /\ UNCHANGED <<events, store, deployed>>
  BY <1>1, PointAt DEF Converse
<1>3. CallInv(Refused(At(c, e), 503), store)
  BY <1>2, RefusedKeeps DEF Statuses
<1>4. \A draft \in Drafts : CallInv(Drafted(At(c, e), draft), store)
  BY <1>1, <1>2, DraftedKeeps DEF QueryInv
<1> QED BY <1>2, <1>3, <1>4, GoesKeeps

\* The put fills an empty place, so that no other answer rests on it.
LEMMA PutKeeps ==
  ASSUME QueryInv, NEW c \in Calls, call[c].pc = "saving", store[call[c].request] = NoArtifact,
         store' = [store EXCEPT ![call[c].request] = call[c].artifact],
         UNCHANGED <<events, deployed>>, NEW k, CallInv(k, store'), call' = [call EXCEPT ![c] = k]
  PROVE  QueryInv'
<1> DEFINE r == call[c].request
<1>1. /\ r \in Requests /\ events[r] # NoEvent /\ events[r].capture /\ call[c].artifact \in Artifact
  BY DEF QueryInv, CallInv, Known, Working
<1>2. /\ store' \in [Requests -> Artifact \cup {NoArtifact}] /\ store'[r] = call[c].artifact
      /\ \A q \in Requests \ {r} : store'[q] = store[q]
  BY <1>1 DEF QueryInv, TypeOK
<1>3. TypeOK'
  <2>1. k \in Call
    BY DEF CallInv
  <2> QED BY <1>2, <2>1 DEF QueryInv, TypeOK
<1>4. StoreInv'
  BY <1>1, <1>2 DEF QueryInv, StoreInv
<1>5. ASSUME NEW d \in Calls PROVE CallInv(call[d], store)'
  <2>1. CallInv(call'[d], store')
    <3>1. CASE d = c
      BY <3>1 DEF QueryInv, TypeOK
    <3>2. CASE d # c
      <4>1. call'[d] = call[d] /\ CallInv(call[d], store)
        BY <3>2 DEF QueryInv, TypeOK
      <4>2. call[d].status = 200 => call[d].request # r
        BY <4>1, <1>1, ArtifactIsSomething DEF CallInv, Known
      <4>3. call[d].status = 200 => store'[call[d].request] = store[call[d].request]
        BY <4>1, <4>2, <1>2 DEF CallInv, Known
      <4> QED BY <4>1, <4>3 DEF CallInv, Known
    <3> QED BY <3>1, <3>2
  <2>2. CallInv(call[d], store)' = CallInv(call'[d], store')
    BY DEF CallInv, Known
  <2> QED BY <2>1, <2>2
<1> QED BY <1>3, <1>4, <1>5 DEF QueryInv

\* The put takes effect or not, and its reply arrives or not.
LEMMA SaveKeeps ==
  ASSUME QueryInv, NEW c \in Calls, Save(c)
  PROVE  QueryInv'
<1> DEFINE r == call[c].request
<1> PICK e \in Ends(c, SaveLimit(call[c].elapsed)) :
      \/ /\ store[r] = NoArtifact
         /\ store' = [store EXCEPT ![r] = call[c].artifact]
         /\ \/ Goes(c, [Replied(At(c, e), call[c].artifact) EXCEPT !.captured = TRUE])
            \/ Goes(c, Refused(At(c, e), 503))
      \/ Goes(c, Refused(At(c, e), 503)) /\ UNCHANGED store
  BY DEF Save
<1>1. call[c].pc = "saving" /\ UNCHANGED <<events, deployed>>
  BY DEF Save
<1>2. e \in Nat /\ CallInv(At(c, e), store) /\ CallInv(call[c], store)
  BY EndsAreTimes DEF QueryInv
<1>3. /\ At(c, e) \in Call /\ At(c, e).request = r /\ At(c, e).artifact = call[c].artifact
  BY <1>2, PointAt
<1> DEFINE no == Refused(At(c, e), 503)
<1>4. \A st : CallInv(no, st)
  BY <1>3, RefusedKeeps DEF Statuses
<1>5. CASE UNCHANGED store /\ Goes(c, no)
  BY <1>1, <1>4, <1>5, GoesKeeps
<1>6. CASE /\ store[r] = NoArtifact
           /\ store' = [store EXCEPT ![r] = call[c].artifact]
           /\ \/ Goes(c, [Replied(At(c, e), call[c].artifact) EXCEPT !.captured = TRUE])
              \/ Goes(c, no)
  <2>1. /\ r \in Requests /\ events[r] # NoEvent /\ events[r].operator /\ events[r].capture
        /\ call[c].artifact \in Artifact /\ call[c].artifact.subject = events[r].subject
        /\ Cited(call[c].artifact) /\ Owned(call[c].artifact)
    BY <1>1, <1>2 DEF CallInv, Known, Working
  <2>2. store'[r] = call[c].artifact
    BY <2>1, <1>6 DEF QueryInv, TypeOK
  <2> DEFINE plain == Replied(At(c, e), call[c].artifact)
             ok == [plain EXCEPT !.captured = TRUE]
  <2>3. /\ plain \in Call /\ plain.pc = "replied" /\ plain.status = 200 /\ plain.request = r
        /\ plain.artifact = call[c].artifact
    BY <1>3, <2>1, FieldsOfReply
  <2> HIDE DEF plain, no
  <2>4. /\ ok \in Call /\ ok.pc = "replied" /\ ok.status = 200 /\ ok.request = r
        /\ ok.artifact = call[c].artifact
    BY <2>3 DEF Call
  <2>5. \E k : k \in {ok, no} /\ Goes(c, k)
    BY <1>6 DEF plain
  <2> HIDE DEF ok
  <2>6. CallInv(ok, store')
    BY <2>1, <2>2, <2>4 DEF CallInv, Known, Working
  <2> PICK k \in {ok, no} : Goes(c, k)
    BY <2>5
  <2>7. CallInv(Gone(k), store') /\ call' = [call EXCEPT ![c] = Gone(k)]
    BY <1>4, <2>6, GoneKeeps
  <2> QED BY <1>1, <1>6, <2>7, PutKeeps
<1> QED BY <1>5, <1>6

LEMMA KillKeeps ==
  ASSUME QueryInv, NEW c \in Calls, Kill(c)
  PROVE  QueryInv'
<1>1. call[c].request \in Requests \cup {NoRequest}
  BY DEF QueryInv, TypeOK, Call
<1>2. CallInv(Stopped("killed", call[c].request), store)
  BY <1>1, StoppedKeeps
<1>3. /\ call' = [call EXCEPT ![c] = Stopped("killed", call[c].request)]
      /\ UNCHANGED <<events, store>> /\ deployed' \in Deployments
  BY DEF Kill, Stopped, QueryInv, TypeOK
<1> QED BY <1>2, <1>3, ChangeKeeps

\* Nothing that is at work or on file was about an event that is still to come.
LEMMA AskKeeps ==
  ASSUME QueryInv, NEW r \in Requests, NEW event \in Event, Ask(r, event),
         UNCHANGED <<call, store, deployed>>
  PROVE  QueryInv'
<1>1. /\ events[r] = NoEvent /\ events' = [events EXCEPT ![r] = event]
      /\ \A q \in Requests : events[q] # NoEvent => events'[q] = events[q]
  BY DEF Ask, QueryInv, TypeOK
<1>2. TypeOK'
  BY <1>1 DEF QueryInv, TypeOK
<1>3. StoreInv'
  BY <1>1 DEF QueryInv, StoreInv
<1>4. ASSUME NEW c \in Calls PROVE CallInv(call[c], store)'
  <2>1. CallInv(call[c], store)
    BY DEF QueryInv
  <2>2. \A k : Known(k) => events'[k.request] = events[k.request]
    BY <1>1 DEF Known
  <2>3. call[c].pc = "saving" \/ call[c].status = 200 => Known(call[c])
    BY <2>1 DEF CallInv, Working
  <2> QED BY <2>1, <2>2, <2>3 DEF CallInv, Known
<1> QED BY <1>2, <1>3, <1>4 DEF QueryInv

\* A step of the handler, of the platform or of a client keeps the invariant.
LEMMA QueryStepKeeps ==
  ASSUME QueryInv, [HandlerNext \/ AnyRequest]_queryVars
  PROVE  QueryInv'
<1>1. ASSUME NEW c \in Calls, NEW r \in Requests, Begin(c, r) PROVE QueryInv'
  BY <1>1, BeginKeeps
<1>2. ASSUME NEW c \in Calls, Retrieve(c) PROVE QueryInv'
  BY <1>2, RetrieveKeeps
<1>3. ASSUME NEW c \in Calls, Converse(c) PROVE QueryInv'
  BY <1>3, ConverseKeeps
<1>4. ASSUME NEW c \in Calls, Save(c) PROVE QueryInv'
  BY <1>4, SaveKeeps
<1>5. ASSUME NEW c \in Calls, Kill(c) PROVE QueryInv'
  BY <1>5, KillKeeps
<1>6. ASSUME Redeploy PROVE QueryInv'
  <2>1. UNCHANGED <<events, call, store>> /\ deployed' \in Deployments
    BY <1>6 DEF Redeploy
  <2> QED BY <2>1 DEF QueryInv, TypeOK, StoreInv, CallInv, Known
<1>7. ASSUME AnyRequest PROVE QueryInv'
  BY <1>7, AskKeeps DEF AnyRequest
<1>8. ASSUME UNCHANGED queryVars PROVE QueryInv'
  BY <1>8 DEF queryVars, QueryInv, TypeOK, StoreInv, CallInv, Known
<1> QED BY <1>1, <1>2, <1>3, <1>4, <1>5, <1>6, <1>7, <1>8 DEF HandlerNext

LEMMA QueryInitInv == QueryInit => QueryInv
<1> SUFFICES ASSUME QueryInit PROVE QueryInv
  OBVIOUS
<1>1. NotCalled \in Call /\ NotCalled.pc = "idle" /\ NotCalled.status = 0
  <2>1. "idle" \in Points /\ 0 \in Statuses
    BY DEF Points, Statuses
  <2> QED BY <2>1 DEF NotCalled, Call
<1>2. CallInv(NotCalled, store)
  BY <1>1 DEF CallInv, Working
<1>3. TypeOK /\ StoreInv
  BY <1>1 DEF QueryInit, TypeOK, StoreInv
<1> QED BY <1>2, <1>3 DEF QueryInit, QueryInv

-----------------------------------------------------------------------------

THEOREM QueryInvariant == QuerySpec => []QueryInv
<1> QED BY QueryInitInv, QueryStepKeeps, PTL DEF QuerySpec

\* Every variable of the query Lambda keeps its type.
THEOREM QueryTypes == QuerySpec => []TypeOK
<1>1. QueryInv => TypeOK
  BY DEF QueryInv
<1> QED BY <1>1, QueryInvariant, PTL

LEMMA InvBacks == QueryInv => AnswersAreBacked
<1> SUFFICES ASSUME QueryInv, NEW c \in Calls, call[c].status = 200
             PROVE  LET k == call[c]
                        event == events[k.request]
                        results == k.artifact.results
                    IN  /\ event.operator /\ k.artifact.subject = event.subject
                        /\ \A i \in DOMAIN results :
                             /\ results[i].scope = ScopeOf[event.subject]
                             /\ results[i].document # NoDocument
                        /\ \A i \in k.artifact.cites : i \in DOMAIN results /\ results[i].size > 0
                        /\ store[k.request] = IF event.capture THEN k.artifact ELSE NoArtifact
  BY DEF AnswersAreBacked
<1>1. CallInv(call[c], store)
  BY DEF QueryInv
<1> QED BY <1>1 DEF CallInv, Known, Owned, Cited, Evidence

\* An answer is about the caller's request and the owner's documents, its
\* citations are the places of passages that are not blank, and what was
\* stored for it is what this invocation used: handler stores before it
\* replies, and only where nothing is.
THEOREM AnswersBacked == QuerySpec => []AnswersAreBacked
  BY InvBacks, QueryInvariant, PTL

-----------------------------------------------------------------------------
(* The deadline, for Lambda timeouts of 25 seconds and more.               *)

\* As query.tf sets them: the deadline is two seconds before the timeout.
LongEnough == Lifetime >= 50 /\ QueryDeadline = Lifetime - 4

\* Where the time of an invocation is at each of its points.
Timely(k) ==
  /\ k.pc # "timed_out" /\ k.elapsed <= Lifetime
  /\ k.pc = "retrieving" => k.elapsed = 0
  /\ k.pc = "drafting" => k.elapsed <= 24
  /\ k.pc = "saving" => ~Late(k.elapsed)

TimeInv == \A c \in Calls : Timely(call[c])

\* Two calls at their limits end before the timeout, and a put that begins
\* before the deadline ends before it too.
LEMMA LimitsFit ==
  ASSUME LongEnough
  PROVE  /\ CallLimit = 24
         /\ \A e \in Nat : ~Late(e) => e + SaveLimit(e) <= Lifetime
<1>1. Deadline = Lifetime - 4
  BY QueryAssumption DEF LongEnough, Deadline, Least, Most
<1>2. ReadTimeout = 20
  BY <1>1, QueryAssumption DEF LongEnough, ReadTimeout, Remaining, Least, Most
<1>3. ASSUME NEW e \in Nat, ~Late(e) PROVE e + SaveLimit(e) <= Lifetime
  <2> DEFINE left == Lifetime - 4 - e
  <2>1. Remaining(e) = left /\ left \in Nat /\ left > 1
    BY <1>1, <1>3, QueryAssumption DEF Remaining, Late
  <2>2. SaveLimit(e) = 2 + 2 * Most(1, Least(3, left \div 2))
    BY <2>1 DEF SaveLimit
  <2>3. 2 * (left \div 2) <= left /\ left \div 2 >= 1 /\ left \div 2 \in Nat
    BY <2>1
  <2> HIDE DEF left
  <2>4. SaveLimit(e) <= 2 + left
    BY <2>1, <2>2, <2>3 DEF Most, Least
  <2>5. left = Lifetime - 4 - e /\ Lifetime \in Nat /\ SaveLimit(e) \in Nat
    BY Limits, QueryAssumption DEF left
  <2> QED BY <2>4, <2>5
<1> QED BY <1>2, <1>3 DEF CallLimit, Least

\* A call that ends in time leaves its invocation to the handler.
LEMMA GoneInTime ==
  ASSUME TypeOK, TimeInv, NEW c \in Calls, NEW k \in Call, Timely(k), Goes(c, k)
  PROVE  TimeInv'
<1> DEFINE m == [k EXCEPT !.elapsed = 0]
           n == IF k.pc = "replied" THEN m ELSE k
<1>1. Lifetime \in Nat /\ k.elapsed \in Nat /\ k.elapsed <= Lifetime
  BY QueryAssumption DEF Call, Timely
<1>2. m.elapsed = 0 /\ m.pc = k.pc
  BY FieldsOfTime
<1>3. ~(k.elapsed > Lifetime)
  BY <1>1
<1>4. call' = [call EXCEPT ![c] = n]
  BY <1>3 DEF Goes
<1> HIDE DEF m
<1>5. Timely(n)
  BY <1>1, <1>2 DEF Timely
<1> HIDE DEF n
<1> QED BY <1>4, <1>5 DEF TimeInv, TypeOK

\* What ends an invocation in time is in time.
LEMMA RefusedInTime ==
  ASSUME NEW k \in Call, k.elapsed <= Lifetime, NEW status \in Statuses
  PROVE  Refused(k, status) \in Call /\ Timely(Refused(k, status))
<1> DEFINE m == Refused(k, status)
<1>1. m \in Call /\ m.pc = "replied" /\ m.elapsed = k.elapsed
  BY FieldsOfRefusal
<1> HIDE DEF m
<1>2. m \in Call /\ Timely(m)
  BY <1>1 DEF Timely
<1> QED BY <1>2 DEF m

LEMMA AnsweredInTime ==
  ASSUME NEW k \in Call, k.elapsed <= Lifetime, NEW a \in Artifact
  PROVE  Answered(k, a) \in Call /\ Timely(Answered(k, a))
<1>1. Refused(k, 504) \in Call /\ Timely(Refused(k, 504))
  BY RefusedInTime DEF Statuses
<1> DEFINE m == Replied(k, a)
           w == Works(k, "saving", a)
<1>2. m \in Call /\ m.pc = "replied" /\ m.elapsed = k.elapsed
  BY FieldsOfReply
<1>3. w \in Call /\ w.pc = "saving" /\ w.elapsed = k.elapsed
  <2>1. "saving" \in Points
    BY DEF Points, Working
  <2> QED BY <2>1, FieldsOfWork
<1>4. Answered(k, a) = IF ~events[k.request].capture THEN m
                       ELSE IF Late(k.elapsed) THEN Refused(k, 504)
                       ELSE w
  BY DEF Answered, Works
<1> HIDE DEF m, w
<1>5. Timely(m) /\ (~Late(k.elapsed) => Timely(w))
  BY <1>2, <1>3 DEF Timely
<1> QED BY <1>1, <1>2, <1>3, <1>4, <1>5

LEMMA BeginInTime ==
  ASSUME TypeOK, TimeInv, NEW c \in Calls, NEW r \in Requests, Begin(c, r)
  PROVE  TimeInv'
<1> DEFINE event == events[r]
           k == [NotCalled EXCEPT !.request = r]
           fresh == [deployment |-> deployed, subject |-> event.subject, results |-> <<>>,
                     evidence |-> {}, invoked |-> FALSE, usage |-> TRUE,
                     answer |-> Insufficient, cites |-> {}]
<1>1. event \in Event /\ deployed \in Deployments
  BY DEF TypeOK, Begin
<1>2. k \in Call /\ k.elapsed = 0
  <2>1. "idle" \in Points /\ 0 \in Statuses
    BY DEF Points, Statuses
  <2> QED BY <2>1 DEF NotCalled, Call
<1>3. 0 <= Lifetime
  BY QueryAssumption
<1>4. CASE Rejection(event) # 0
  <2>1. Rejection(event) \in Statuses
    BY <1>4 DEF Rejection, Statuses
  <2>2. Goes(c, Refused(k, Rejection(event)))
    BY <1>4 DEF Begin
  <2> HIDE DEF k
  <2> QED BY <1>2, <1>3, <2>1, <2>2, RefusedInTime, GoneInTime
<1>5. CASE Rejection(event) = 0
  <2>1. event.operator /\ event.subject \in Subjects
    BY <1>1, <1>5, EventKinds DEF Rejection
  <2>2. fresh \in Artifact
    BY <1>1, <2>1, QueryAssumption DEF Artifact
  <2> DEFINE m == Works(k, "retrieving", fresh)
  <2>3. "retrieving" \in Points
    BY DEF Points, Working
  <2>4. Goes(c, m)
    BY <1>5 DEF Begin, Works
  <2> HIDE DEF fresh, k
  <2>5. m \in Call /\ m.pc = "retrieving" /\ m.elapsed = 0
    BY <1>2, <2>2, <2>3, FieldsOfWork
  <2> HIDE DEF m
  <2>6. Timely(m)
    BY <1>3, <2>5 DEF Timely
  <2> QED BY <2>4, <2>5, <2>6, GoneInTime
<1> QED BY <1>4, <1>5

LEMMA RetrieveInTime ==
  ASSUME LongEnough, QueryInv, TimeInv, NEW c \in Calls, Retrieve(c)
  PROVE  TimeInv'
<1> PICK e \in Ends(c, CallLimit) :
      \/ Goes(c, Refused(At(c, e), 503))
      \/ \E results \in Retrievals : Goes(c, Retrieved(At(c, e), results))
  BY DEF Retrieve
<1> DEFINE k == At(c, e)
<1>1. call[c].pc = "retrieving" /\ call[c].elapsed = 0
  BY DEF Retrieve, TimeInv, Timely
<1>2. e \in Nat /\ e <= 24 /\ e <= Lifetime
  <2>1. \A d \in Durations : d \in Nat
    BY QueryAssumption
  <2> QED BY <1>1, <2>1, LimitsFit, QueryAssumption DEF Ends, LongEnough
<1>3. k \in Call /\ k.elapsed = e /\ k.artifact \in Artifact
  <2>1. call[c].artifact \in Artifact
    BY <1>1 DEF QueryInv, CallInv, Known, Working
  <2> QED BY <1>2, <2>1, PointAt
<1> HIDE DEF k
<1>4. /\ Refused(k, 503) \in Call /\ Timely(Refused(k, 503))
      /\ Refused(k, 504) \in Call /\ Timely(Refused(k, 504))
  BY <1>2, <1>3, RefusedInTime DEF Statuses
<1>5. ASSUME NEW results \in Retrievals
      PROVE  Retrieved(k, results) \in Call /\ Timely(Retrieved(k, results))
  <2> DEFINE a == Gathered(k.artifact, results)
             w == Works(k, "drafting", a)
  <2>1. Retrieved(k, results) =
          IF ~Isolated(results, a.subject) \/ ~Fits(results) THEN Refused(k, 503)
          ELSE IF a.evidence = {} THEN Answered(k, a)
          ELSE IF Late(k.elapsed) THEN Refused(k, 504)
          ELSE w
    BY DEF Retrieved, Gathered, Works
  <2>2. a \in Artifact
    BY <1>3, FieldsOfArtifact
  <2> HIDE DEF a
  <2>3. w \in Call /\ w.pc = "drafting" /\ w.elapsed = e
    <3>1. "drafting" \in Points
      BY DEF Points, Working
    <3> QED BY <1>3, <2>2, <3>1, FieldsOfWork
  <2> HIDE DEF w
  <2>4. Timely(w)
    BY <1>2, <2>3 DEF Timely
  <2> QED BY <1>2, <1>3, <1>4, <2>1, <2>2, <2>3, <2>4, AnsweredInTime
<1>6. \E m \in Call : Timely(m) /\ Goes(c, m)
  BY <1>4, <1>5 DEF k
<1> QED BY <1>6, GoneInTime DEF QueryInv

LEMMA ConverseInTime ==
  ASSUME LongEnough, QueryInv, TimeInv, NEW c \in Calls, Converse(c)
  PROVE  TimeInv'
<1> PICK e \in Ends(c, CallLimit) :
      \/ Goes(c, Refused(At(c, e), 503))
      \/ \E draft \in Drafts : Goes(c, Drafted(At(c, e), draft))
  BY DEF Converse
<1> DEFINE k == At(c, e)
<1>1. call[c].pc = "drafting" /\ call[c].elapsed <= 24 /\ call[c].elapsed \in Nat
  BY DEF Converse, TimeInv, Timely, QueryInv, TypeOK, Call
<1>2. e \in Nat /\ e <= Lifetime
  <2>1. \A d \in Durations : d \in Nat
    BY QueryAssumption
  <2> QED BY <1>1, <2>1, LimitsFit, QueryAssumption DEF Ends, LongEnough
<1>3. k \in Call /\ k.elapsed = e /\ k.artifact \in Artifact
  <2>1. call[c].artifact \in Artifact
    BY <1>1 DEF QueryInv, CallInv, Known, Working
  <2> QED BY <1>2, <2>1, PointAt
<1> HIDE DEF k
<1>4. /\ Refused(k, 503) \in Call /\ Timely(Refused(k, 503))
      /\ Refused(k, 504) \in Call /\ Timely(Refused(k, 504))
  BY <1>2, <1>3, RefusedInTime DEF Statuses
<1>5. ASSUME NEW draft \in Drafts
      PROVE  Drafted(k, draft) \in Call /\ Timely(Drafted(k, draft))
  <2> DEFINE cites == draft.ids \cap k.artifact.evidence
             unsupported == draft.insufficient \/ draft.answer = Blank \/ cites = {}
             answer == IF unsupported THEN Insufficient ELSE draft.answer
             cited == IF unsupported THEN {} ELSE cites
             a == Written(k.artifact, draft, answer, cited)
  <2>1. answer \in Answers /\ cited \in SUBSET Nat
    BY <1>3, QueryAssumption DEF Draft, Artifact
  <2>2. Drafted(k, draft) \in {Refused(k, 504), Answered(k, a)}
    BY DEF Drafted, Written
  <2> HIDE DEF answer, cited
  <2>3. a \in Artifact
    BY <1>3, <2>1, FieldsOfArtifact
  <2> HIDE DEF a
  <2> QED BY <1>2, <1>3, <1>4, <2>2, <2>3, AnsweredInTime
<1>6. \E m \in Call : Timely(m) /\ Goes(c, m)
  BY <1>4, <1>5 DEF k
<1> QED BY <1>6, GoneInTime DEF QueryInv

LEMMA SaveInTime ==
  ASSUME LongEnough, QueryInv, TimeInv, NEW c \in Calls, Save(c)
  PROVE  TimeInv'
<1> DEFINE b == call[c].elapsed
<1> PICK e \in Ends(c, SaveLimit(b)) :
      \/ Goes(c, [Replied(At(c, e), call[c].artifact) EXCEPT !.captured = TRUE])
      \/ Goes(c, Refused(At(c, e), 503))
  BY DEF Save
<1> DEFINE k == At(c, e)
<1>1. call[c].pc = "saving" /\ b \in Nat /\ ~Late(b)
  BY DEF Save, TimeInv, Timely, QueryInv, TypeOK, Call
<1>2. e \in Nat /\ e <= Lifetime
  <2>1. SaveLimit(b) \in Nat /\ b + SaveLimit(b) <= Lifetime /\ Lifetime \in Nat
    BY <1>1, Limits, LimitsFit, QueryAssumption
  <2>2. PICK d \in Durations : d <= SaveLimit(b) /\ e = b + d
    BY DEF Ends
  <2>3. d \in Nat
    BY QueryAssumption
  <2> HIDE DEF b
  <2> QED BY <1>1, <2>1, <2>2, <2>3
<1>3. k \in Call /\ k.elapsed = e /\ call[c].artifact \in Artifact
  <2>1. call[c].artifact \in Artifact
    BY <1>1 DEF QueryInv, CallInv, Known, Working
  <2> QED BY <1>2, <2>1, PointAt
<1> HIDE DEF k
<1> DEFINE plain == Replied(k, call[c].artifact)
           ok == [plain EXCEPT !.captured = TRUE]
<1>4. Refused(k, 503) \in Call /\ Timely(Refused(k, 503))
  BY <1>2, <1>3, RefusedInTime DEF Statuses
<1>5. plain \in Call /\ plain.pc = "replied" /\ plain.elapsed = e
  BY <1>3, FieldsOfReply
<1>6. Goes(c, ok) \/ Goes(c, Refused(k, 503))
  BY DEF k
<1> HIDE DEF plain
<1>7. ok \in Call /\ ok.pc = "replied" /\ ok.elapsed = e
  <2> HIDE DEF b
  <2>1. plain.pc = "replied" /\ plain.elapsed = e
    BY <1>5
  <2>2. plain \in Call
    BY <1>5
  <2>3. ok \in Call /\ ok.pc = plain.pc /\ ok.elapsed = plain.elapsed
    BY <2>2 DEF Call
  <2> QED BY <2>1, <2>3
<1> HIDE DEF ok
<1>8. Timely(ok)
  BY <1>2, <1>7 DEF Timely
<1> QED BY <1>4, <1>6, <1>7, <1>8, GoneInTime DEF QueryInv

LEMMA KillInTime ==
  ASSUME TypeOK, TimeInv, NEW c \in Calls, Kill(c)
  PROVE  TimeInv'
<1> DEFINE m == [NotCalled EXCEPT !.pc = "killed", !.request = call[c].request]
<1>1. m.pc = "killed" /\ m.elapsed = 0 /\ 0 <= Lifetime
  BY QueryAssumption DEF NotCalled
<1>2. call' = [call EXCEPT ![c] = m]
  BY DEF Kill
<1> HIDE DEF m
<1>3. Timely(m)
  BY <1>1 DEF Timely
<1> QED BY <1>2, <1>3 DEF TimeInv, TypeOK

LEMMA StepInTime ==
  ASSUME LongEnough, QueryInv, TimeInv, [HandlerNext \/ AnyRequest]_queryVars
  PROVE  TimeInv'
<1>1. TypeOK
  BY DEF QueryInv
<1>2. ASSUME NEW c \in Calls, NEW r \in Requests, Begin(c, r) PROVE TimeInv'
  BY <1>1, <1>2, BeginInTime
<1>3. ASSUME NEW c \in Calls, Retrieve(c) PROVE TimeInv'
  BY <1>3, RetrieveInTime
<1>4. ASSUME NEW c \in Calls, Converse(c) PROVE TimeInv'
  BY <1>4, ConverseInTime
<1>5. ASSUME NEW c \in Calls, Save(c) PROVE TimeInv'
  BY <1>5, SaveInTime
<1>6. ASSUME NEW c \in Calls, Kill(c) PROVE TimeInv'
  BY <1>1, <1>6, KillInTime
<1>7. ASSUME UNCHANGED call PROVE TimeInv'
  BY <1>7 DEF TimeInv, Timely, Late, Remaining
<1> QED BY <1>2, <1>3, <1>4, <1>5, <1>6, <1>7 DEF HandlerNext, AnyRequest, Redeploy, queryVars

LEMMA InitInTime == QueryInit => TimeInv
<1>1. NotCalled.pc = "idle" /\ NotCalled.elapsed = 0 /\ 0 <= Lifetime
  BY QueryAssumption DEF NotCalled
<1>2. Timely(NotCalled)
  BY <1>1 DEF Timely
<1> QED BY <1>2 DEF QueryInit, TimeInv

\* With a timeout of 25 seconds or more, the platform never stops an
\* invocation that waits for its calls: query.py sizes the clients' time-outs
\* from the deadline, refuses to go on when it is near, and sizes those of
\* the put from what is left.
THEOREM DeadlineEnforced == QuerySpec => [](LongEnough => DeadlineIsEnforced)
<1> DEFINE Punctual == LongEnough => TimeInv
<1>1. QueryInit => Punctual
  BY InitInTime
<1>2. QueryInv /\ Punctual /\ [HandlerNext \/ AnyRequest]_queryVars => Punctual'
  <2> SUFFICES ASSUME QueryInv, Punctual, [HandlerNext \/ AnyRequest]_queryVars, LongEnough
               PROVE  TimeInv'
    BY DEF LongEnough
  <2> QED BY StepInTime
<1>3. Punctual => (LongEnough => DeadlineIsEnforced)
  BY DEF TimeInv, Timely, DeadlineIsEnforced
<1> HIDE DEF Punctual
<1> QED BY <1>1, <1>2, <1>3, QueryInvariant, PTL DEF QuerySpec
=============================================================================
