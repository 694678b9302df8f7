---------------------------- MODULE JudgeCapture ----------------------------
(***************************************************************************)
(* From paid answers to a dataset for the judge: capture commands send the *)
(* baseline's cases to the query API one by one and keep a report on disk; *)
(* export turns a report into the dataset that is submitted.  Commands may *)
(* die, replies be lost, others use the API and the Lambda be redeployed   *)
(* meanwhile.                                                              *)
(***************************************************************************)
EXTENDS QueryLambda

CONSTANTS
  Commands,       \* capture commands
  Outs, NoOut,    \* --output paths of their reports
  Exports,        \* --output directories of exports
  CaseCount,
  Cases,          \* the subject of each case
  Supported,      \* the subjects whose expected status is supported
  RightAnswers,   \* answers with the expected amounts, by subject
  Allowed,        \* allowed_document_ids, by subject
  Prepared,       \* the deployment id the run was prepared for
  OtherEvents     \* what other clients send

ASSUME CaptureAssumption ==
  /\ NoOut \notin Outs
  /\ CaseCount \in Nat \ {0} /\ Cases \in [1..CaseCount -> Subjects]
  /\ Supported \subseteq Subjects
  /\ RightAnswers \in [Subjects -> SUBSET Answers] /\ Allowed \in [Subjects -> SUBSET Documents]
  /\ Prepared \in Deployments /\ OtherEvents \subseteq Event

VARIABLES
  command,  \* the capture commands
  reports,  \* the reports on disk
  exports,  \* the exported datasets
  posted    \* the report and case each request was sent for

captureVars == <<command, reports, exports, posted>>

-----------------------------------------------------------------------------

CaseIds == 1..CaseCount

Idle == [pc |-> "idle", out |-> NoOut, at |-> 0, request |-> NoRequest]
Capturing == [pc: {"sending", "waiting"}, out: Outs, at: CaseIds,
              request: Requests \cup {NoRequest}]

\* A sample has the reply, with its hash, and the evidence that was read for it.
Sample == [request: Requests, passed: BOOLEAN,
           response: Artifact \cup {NoArtifact}, evidence: Artifact \cup {NoArtifact}]

NoReport == [text |-> "none", results |-> <<>>]
Report == [text: {"none", "broken", "whole"}, results: Seq(Sample)]

NoPost == [out |-> NoOut, at |-> 0]
NoExport == [text |-> "none", out |-> NoOut, rows |-> <<>>]

-----------------------------------------------------------------------------
(* The checks of a reply to a case about s. *)

\* check_answer: isolation, and an answer with citations or a refusal without.
Checked(s, a) ==
  /\ \A i \in a.cites : a.results[i].document \in Allowed[s] /\ a.results[i].scope = ScopeOf[s]
  /\ IF s \in Supported
     THEN a.cites # {} /\ a.answer \in RightAnswers[s] \ {Insufficient}
     ELSE a.cites = {} /\ a.answer = Insufficient

\* read_capture: the object hashes to what was replied and is of this request.
Matching(s, response, object) ==
  /\ object = response /\ object.subject = s
  /\ \A i \in DOMAIN object.results : object.results[i].scope = ScopeOf[s]

Permitted(s, object) == \A i \in DOMAIN object.results : object.results[i].document \in Allowed[s]

-----------------------------------------------------------------------------
(* A capture command. *)

Does(k, step) == command' = [command EXCEPT ![k] = step]

\* Mutant: a report that exists is overwritten.
StartOver(k, o) ==
  /\ command[k] = Idle
  /\ reports' = [reports EXCEPT ![o] = [text |-> "whole", results |-> <<>>]]
  /\ Does(k, [Idle EXCEPT !.pc = "sending", !.out = o, !.at = 1])
  /\ UNCHANGED <<exports, posted, queryVars>>

\* The report's file must be new; the command may die while it is written.
Start(k, o) ==
  /\ command[k] = Idle /\ reports[o] = NoReport
  /\ \/ /\ reports' = [reports EXCEPT ![o].text = "whole"]
        /\ Does(k, [Idle EXCEPT !.pc = "sending", !.out = o, !.at = 1])
     \/ reports' = [reports EXCEPT ![o].text = "broken"] /\ UNCHANGED command
  /\ UNCHANGED <<exports, posted, queryVars>>

\* One paid request for the case, with evidence capture.
Send(k) ==
  /\ command[k].pc = "sending"
  /\ \E r \in Requests :
       /\ Ask(r, [operator |-> TRUE, valid |-> TRUE,
                  subject |-> Cases[command[k].at], capture |-> TRUE])
       /\ posted' = [posted EXCEPT ![r] = [out |-> command[k].out, at |-> command[k].at]]
       /\ Does(k, [command[k] EXCEPT !.pc = "waiting", !.request = r])
  /\ UNCHANGED <<call, store, deployed, reports, exports>>

\* Mutant: the report is written when all cases are done.
RecordAtEnd(k, sample) ==
  LET o == command[k].out
      last == command[k].at = CaseCount
  IN  /\ reports' = IF last THEN [reports EXCEPT ![o].results = Append(@, sample)] ELSE reports
      /\ Does(k, IF last \/ ~sample.passed THEN Idle
                 ELSE [command[k] EXCEPT !.pc = "sending", !.at = @ + 1, !.request = NoRequest])

\* The report is replaced after each case; the first that fails is the last.
Record(k, sample) ==
  /\ reports' = [reports EXCEPT ![command[k].out].results = Append(@, sample)]
  /\ Does(k, IF command[k].at = CaseCount \/ ~sample.passed THEN Idle
             ELSE [command[k] EXCEPT !.pc = "sending", !.at = @ + 1, !.request = NoRequest])

\* An answer whose evidence was read and belongs to it.
Receive(k) ==
  LET r == command[k].request
      s == Cases[command[k].at]
  IN  /\ command[k].pc = "waiting"
      /\ \E c \in Calls :
           LET a == call[c].artifact
           IN  /\ call[c].request = r /\ call[c].status = 200
               /\ Matching(s, a, store[r])
               /\ Record(k, [request |-> r, passed |-> Permitted(s, store[r]) /\ Checked(s, a),
                             response |-> a, evidence |-> store[r]])
      /\ UNCHANGED <<exports, posted, queryVars>>

\* Another status, no reply in time, or no evidence: a sample that failed.
Miss(k) ==
  /\ command[k].pc = "waiting"
  /\ Record(k, [request |-> command[k].request, passed |-> FALSE,
                response |-> NoArtifact, evidence |-> NoArtifact])
  /\ UNCHANGED <<exports, posted, queryVars>>

\* The command dies or raises; its report stays as it is.
Abort(k) ==
  /\ command[k] # Idle
  /\ Does(k, Idle)
  /\ UNCHANGED <<reports, exports, posted, queryVars>>

-----------------------------------------------------------------------------
(* The export of a report. *)

\* Mutant: the deployment that answered is not compared.
AcceptedAnywhere(i, sample) ==
  LET s == Cases[i]
      a == sample.evidence
  IN  /\ sample.passed /\ Matching(s, sample.response, a) /\ Permitted(s, a)
      /\ Isolated(a.results, s) /\ Fits(a.results) /\ a.evidence = Evidence(a.results)
      /\ a.invoked = (a.evidence # {}) /\ a.usage
      /\ Checked(s, a) /\ a.cites \subseteq a.evidence

\* Every check of the capture is made again from the file, and those of the
\* deployment, the evidence recomputed, the model's use and its token counts.
Accepted(i, sample) ==
  LET s == Cases[i]
      a == sample.evidence
  IN  /\ sample.passed /\ Matching(s, sample.response, a) /\ Permitted(s, a)
      /\ a.deployment = Prepared
      /\ Isolated(a.results, s) /\ Fits(a.results) /\ a.evidence = Evidence(a.results)
      /\ a.invoked = (a.evidence # {}) /\ a.usage
      /\ Checked(s, a) /\ a.cites \subseteq a.evidence

\* All cases, each with a request of its own.
Exportable(results) ==
  /\ Len(results) = CaseCount
  /\ \A i \in CaseIds : Accepted(i, results[i])
  /\ \A i, j \in CaseIds : results[i].request = results[j].request => i = j

Row(sample) ==
  [request |-> sample.request, answer |-> sample.response.answer,
   passages |-> [i \in sample.evidence.evidence |-> sample.evidence.results[i]]]

\* A new directory gets the dataset and its manifest; a death leaves it broken.
Export(x, o) ==
  /\ exports[x] = NoExport
  /\ reports[o].text = "whole" /\ Exportable(reports[o].results)
  /\ \E text \in {"whole", "broken"} :
       exports' = [exports EXCEPT ![x] =
                     [text |-> text, out |-> o, rows |-> [i \in CaseIds |-> Row(reports[o].results[i])]]]
  /\ UNCHANGED <<command, reports, posted, queryVars>>

-----------------------------------------------------------------------------

OtherClient ==
  /\ \E r \in Requests, event \in OtherEvents : Ask(r, event)
  /\ UNCHANGED <<call, store, deployed, captureVars>>

CaptureInit ==
  /\ QueryInit
  /\ command = [k \in Commands |-> Idle]
  /\ reports = [o \in Outs |-> NoReport]
  /\ exports = [x \in Exports |-> NoExport]
  /\ posted = [r \in Requests |-> NoPost]

CaptureNext ==
  \/ HandlerNext /\ UNCHANGED captureVars
  \/ OtherClient
  \/ \E k \in Commands :
       \/ \E o \in Outs : Start(k, o)
       \/ Send(k) \/ Receive(k) \/ Miss(k) \/ Abort(k)
  \/ \E x \in Exports, o \in Outs : Export(x, o)

CaptureSpec == CaptureInit /\ [][CaptureNext]_<<queryVars, captureVars>>

-----------------------------------------------------------------------------

\* What the judge will score is what the deployed pipeline did: each row of a
\* dataset is the answer that an invocation of the prepared deployment replied
\* to one request for that case, with the passages its model was given, and
\* the capture bucket can show it.
ExportedRowsAreAnswers ==
  \A x \in Exports : exports[x].text = "whole" =>
    \A i \in CaseIds :
      LET row == exports[x].rows[i]
      IN  /\ posted[row.request] = [out |-> exports[x].out, at |-> i]
          /\ \E c \in Calls :
               LET a == call[c].artifact
               IN  /\ call[c].request = row.request /\ call[c].status = 200
                   /\ a.subject = Cases[i] /\ a.deployment = Prepared
                   /\ row.answer = a.answer
                   /\ row.passages = [p \in a.evidence |-> a.results[p]]
                   /\ store[row.request] = a

\* No case is paid for twice for one report, whatever commands were given its
\* path ("Send exactly six paid API requests [...] no retries").
EachCaseIsSentOnce ==
  \A q, r \in Requests : posted[q] = posted[r] /\ posted[q] # NoPost => q = r

\* A report accounts for what was paid: a case is sent only when the results
\* of all before it are on disk and passed, so that at most the last request
\* is missing ("records each response as it arrives", "stops on a failed check").
PaidRequestsAreOnFile ==
  \A r \in Requests : posted[r] # NoPost =>
    LET results == reports[posted[r].out].results
    IN  /\ posted[r].at <= Len(results) + 1
        /\ \A i \in 1..posted[r].at - 1 :
             results[i].passed /\ posted[results[i].request] = [out |-> posted[r].out, at |-> i]
=============================================================================
