--------------------------- MODULE CaptureProofs ---------------------------
(***************************************************************************)
(* The capture of paid answers: what the reports on disk account for, and  *)
(* where the rows of a dataset come from, for any number of commands,      *)
(* reports, cases and requests.                                            *)
(***************************************************************************)
EXTENDS JudgeCapture, QueryProofs, SequenceTheorems

-----------------------------------------------------------------------------
(* The capture and the other clients use the query Lambda as it is.        *)

LEMMA CaptureStepIsQueryStep ==
  ASSUME TypeOK, [CaptureNext]_<<queryVars, captureVars>>, 
         command \in [Commands -> Capturing \cup {Idle}]
  PROVE  [HandlerNext \/ AnyRequest]_queryVars
<1>1. ASSUME NEW k \in Commands, Send(k) PROVE AnyRequest
  <2> DEFINE event == [operator |-> TRUE, valid |-> TRUE,
                       subject |-> Cases[command[k].at], capture |-> TRUE]
  <2>1. command[k] \in Capturing
    BY <1>1 DEF Send, Idle
  <2>2. command[k].at \in CaseIds
    BY <2>1 DEF Capturing
  <2>3. event \in Event
    BY <2>2, CaptureAssumption DEF Event, CaseIds
  <2>4. \E r \in Requests : Ask(r, event) /\ UNCHANGED <<call, store, deployed>>
    BY <1>1 DEF Send
  <2> QED BY <2>3, <2>4 DEF AnyRequest
<1>2. ASSUME OtherClient PROVE AnyRequest
  BY <1>2, CaptureAssumption DEF OtherClient, AnyRequest
<1>3. ASSUME NEW k \in Commands, \/ \E o \in Outs : Start(k, o)
                                 \/ Receive(k) \/ Miss(k) \/ Abort(k)
      PROVE  UNCHANGED queryVars
  BY <1>3 DEF Start, Receive, Miss, Abort
<1>4. ASSUME NEW x \in Exports, NEW o \in Outs, Export(x, o) PROVE UNCHANGED queryVars
  BY <1>4 DEF Export
<1> QED BY <1>1, <1>2, <1>3, <1>4 DEF CaptureNext

-----------------------------------------------------------------------------
(* The inductive invariant of the commands and their reports.              *)

CaptureTypes ==
  /\ command \in [Commands -> Capturing \cup {Idle}]
  /\ reports \in [Outs -> Report]
  /\ posted \in [Requests -> [out: Outs, at: CaseIds] \cup {NoPost}]

\* A command continues a report whose cases have passed so far; the request
\* for the next one was sent by this command or by nobody.
CommandInv(k) ==
  command[k] # Idle =>
    LET o == command[k].out
        results == reports[o].results
    IN  /\ reports[o].text = "whole" /\ Len(results) = command[k].at - 1
        /\ \A i \in DOMAIN results : results[i].passed
        /\ command[k].pc = "waiting" =>
             /\ command[k].request \in Requests
             /\ posted[command[k].request] = [out |-> o, at |-> command[k].at]
        /\ command[k].pc = "sending" =>
             \A r \in Requests : posted[r] # [out |-> o, at |-> command[k].at]

OneCommand ==
  \A j, k \in Commands :
    command[j] # Idle /\ command[k] # Idle /\ command[j].out = command[k].out => j = k

PostInv(r) ==
  posted[r] # NoPost =>
    LET report == reports[posted[r].out]
    IN  /\ events[r] # NoEvent
        /\ report.text = "whole" /\ posted[r].at <= Len(report.results) + 1
        /\ \A i \in 1..posted[r].at - 1 : report.results[i].passed

FiledInv(o) ==
  \A i \in DOMAIN reports[o].results :
    posted[reports[o].results[i].request] = [out |-> o, at |-> i]

FileInv ==
  /\ CaptureTypes
  /\ \A k \in Commands : CommandInv(k)
  /\ OneCommand
  /\ \A r \in Requests : PostInv(r)
  /\ \A o \in Outs : FiledInv(o)
  /\ EachCaseIsSentOnce

-----------------------------------------------------------------------------
(* The steps that leave the files alone.                                   *)

LEMMA KindsOfCommands ==
  ASSUME CaptureTypes, NEW k \in Commands, command[k] # Idle
  PROVE  /\ command[k] \in Capturing /\ command[k].pc \in {"sending", "waiting"}
         /\ command[k].out \in Outs /\ command[k].at \in CaseIds
  BY DEF CaptureTypes, Capturing

LEMMA PostsArePlaces ==
  ASSUME CaptureTypes, NEW r \in Requests, posted[r] # NoPost
  PROVE  /\ posted[r] = [out |-> posted[r].out, at |-> posted[r].at]
         /\ posted[r].out \in Outs /\ posted[r].at \in CaseIds
  BY DEF CaptureTypes

\* A place in a report is not the mark of an unsent request.
LEMMA PlacesArePosts ==
  ASSUME NEW o \in Outs, NEW i PROVE [out |-> o, at |-> i] # NoPost
  BY CaptureAssumption DEF NoPost

\* Requests that are accepted, invocations and exports disturb no file.
LEMMA OthersKeep ==
  ASSUME FileInv, UNCHANGED <<command, reports, posted>>,
         \A r \in Requests : events[r] # NoEvent => events'[r] # NoEvent
  PROVE  FileInv'
<1>1. CaptureTypes' /\ OneCommand' /\ EachCaseIsSentOnce' /\ \A o \in Outs : FiledInv(o)'
  BY DEF FileInv, CaptureTypes, OneCommand, EachCaseIsSentOnce, FiledInv
<1>2. ASSUME NEW k \in Commands PROVE CommandInv(k)'
  BY DEF FileInv, CommandInv
<1>3. ASSUME NEW r \in Requests PROVE PostInv(r)'
  BY DEF FileInv, PostInv
<1> QED BY <1>1, <1>2, <1>3 DEF FileInv

\* The mark of an unsent request is no event.
LEMMA EventIsSomething ==
  ASSUME NEW event \in Event PROVE event # NoEvent
<1>1. DOMAIN event = {"operator", "valid", "subject", "capture"}
  BY DEF Event
<1>2. DOMAIN NoEvent = {"subject"}
  BY DEF NoEvent
<1> QED BY <1>1, <1>2

LEMMA AskedIsKnown ==
  ASSUME TypeOK, NEW r \in Requests, NEW event \in Event \ {NoEvent}, Ask(r, event)
  PROVE  \A q \in Requests : events[q] # NoEvent => events'[q] # NoEvent
  BY DEF Ask, TypeOK

\* A command that stops leaves its report to no other.
LEMMA AbortKeeps ==
  ASSUME FileInv, NEW k \in Commands, Abort(k)
  PROVE  FileInv'
<1>1. /\ command' = [command EXCEPT ![k] = Idle]
      /\ UNCHANGED <<reports, posted, events>>
  BY DEF Abort, Does, queryVars
<1>2. CaptureTypes' /\ EachCaseIsSentOnce' /\ \A o \in Outs : FiledInv(o)'
  BY <1>1 DEF FileInv, CaptureTypes, EachCaseIsSentOnce, FiledInv
<1>3. \A j \in Commands : command'[j] = Idle \/ command'[j] = command[j]
  BY <1>1 DEF FileInv, CaptureTypes
<1>4. OneCommand'
  BY <1>3 DEF FileInv, OneCommand
<1>5. ASSUME NEW j \in Commands PROVE CommandInv(j)'
  BY <1>1, <1>3 DEF FileInv, CommandInv
<1>6. ASSUME NEW r \in Requests PROVE PostInv(r)'
  BY <1>1 DEF FileInv, PostInv
<1> QED BY <1>2, <1>4, <1>5, <1>6 DEF FileInv

-----------------------------------------------------------------------------
(* The steps of a command.                                                 *)

\* A new report has no results, and nothing was sent for it.
LEMMA StartKeeps ==
  ASSUME FileInv, NEW k \in Commands, NEW o \in Outs, Start(k, o)
  PROVE  FileInv'
<1> DEFINE begun == [Idle EXCEPT !.pc = "sending", !.out = o, !.at = 1]
<1>1. /\ UNCHANGED <<posted, events>> /\ command[k] = Idle /\ reports[o] = NoReport
      /\ \/ /\ reports' = [reports EXCEPT ![o].text = "whole"]
            /\ command' = [command EXCEPT ![k] = begun]
         \/ reports' = [reports EXCEPT ![o].text = "broken"] /\ UNCHANGED command
  BY DEF Start, Does, queryVars
<1>2. /\ reports' \in [Outs -> Report] /\ reports'[o].results = <<>>
      /\ \A p \in Outs \ {o} : reports'[p] = reports[p]
  <2>1. /\ reports \in [Outs -> Report] /\ reports[o] \in Report /\ reports[o].results = <<>>
        /\ \E text \in {"whole", "broken"} : reports' = [reports EXCEPT ![o].text = text]
    BY <1>1 DEF FileInv, CaptureTypes, NoReport
  <2> PICK text \in {"whole", "broken"} : reports' = [reports EXCEPT ![o].text = text]
    BY <2>1
  <2>2. reports' = [reports EXCEPT ![o] = [reports[o] EXCEPT !.text = text]]
    BY <2>1
  <2>3. [reports[o] EXCEPT !.text = text] \in Report
    BY <2>1 DEF Report
  <2>4. [reports[o] EXCEPT !.text = text].results = reports[o].results
    BY <2>1 DEF Report
  <2> QED BY <2>1, <2>2, <2>3, <2>4
<1>3. begun \in Capturing /\ begun.pc = "sending" /\ begun.out = o /\ begun.at = 1
  <2>1. 1 \in CaseIds
    BY CaptureAssumption DEF CaseIds
  <2> QED BY <2>1 DEF Capturing, Idle
<1>4. \A r \in Requests : posted[r] # NoPost => posted[r].out # o
  BY <1>1 DEF FileInv, PostInv, NoReport
<1>5. \A j \in Commands : command[j] # Idle => command[j].out # o
  <2>1. reports[o].text = "none"
    BY <1>1 DEF NoReport
  <2>2. \A j \in Commands : command[j] # Idle => reports[command[j].out].text = "whole"
    BY DEF FileInv, CommandInv
  <2> QED BY <2>1, <2>2
<1> HIDE DEF begun
<1>6. \A j \in Commands :
        \/ command'[j] = command[j]
        \/ j = k /\ command'[j] = begun /\ reports'[o].text = "whole"
  <2>1. reports[o] \in Report
    BY DEF FileInv, CaptureTypes
  <2> QED BY <1>1, <2>1 DEF FileInv, CaptureTypes, Report
<1>7. CaptureTypes'
  BY <1>1, <1>2, <1>3 DEF FileInv, CaptureTypes
<1>8. ASSUME NEW j \in Commands PROVE CommandInv(j)'
  <2>1. CASE command'[j] = command[j]
    <3>1. command[j] # Idle => reports'[command[j].out] = reports[command[j].out]
      BY <1>2, <1>5, KindsOfCommands DEF FileInv
    <3> QED BY <1>1, <2>1, <3>1 DEF FileInv, CommandInv
  <2>2. CASE command'[j] = begun /\ reports'[o].text = "whole"
    <3>1. \A r \in Requests : posted[r] # [out |-> o, at |-> 1]
      BY <1>4, PlacesArePosts
    <3> QED BY <1>1, <1>2, <1>3, <2>2, <3>1 DEF CommandInv
  <2> QED BY <1>6, <2>1, <2>2
<1>9. OneCommand'
  BY <1>3, <1>5, <1>6 DEF FileInv, OneCommand
<1>10. ASSUME NEW r \in Requests PROVE PostInv(r)'
  <2>1. posted[r] # NoPost => reports'[posted[r].out] = reports[posted[r].out]
    BY <1>2, <1>4, PostsArePlaces DEF FileInv
  <2> QED BY <1>1, <2>1 DEF FileInv, PostInv
<1>11. ASSUME NEW p \in Outs PROVE FiledInv(p)'
  BY <1>1, <1>2 DEF FileInv, FiledInv
<1>12. EachCaseIsSentOnce'
  BY <1>1 DEF FileInv, EachCaseIsSentOnce
<1> QED BY <1>7, <1>8, <1>9, <1>10, <1>11, <1>12 DEF FileInv

\* The one working command sends what was not sent.
LEMMA SendKeeps ==
  ASSUME FileInv, TypeOK, NEW k \in Commands, Send(k)
  PROVE  FileInv'
<1> DEFINE o == command[k].out
           n == command[k].at
           event == [operator |-> TRUE, valid |-> TRUE, subject |-> Cases[n], capture |-> TRUE]
<1> PICK r \in Requests :
      /\ Ask(r, event)
      /\ posted' = [posted EXCEPT ![r] = [out |-> o, at |-> n]]
      /\ command' = [command EXCEPT ![k] = [command[k] EXCEPT !.pc = "waiting", !.request = r]]
  BY DEF Send, Does
<1> DEFINE sent == [command[k] EXCEPT !.pc = "waiting", !.request = r]
<1>1. command[k].pc = "sending" /\ UNCHANGED reports
  BY DEF Send
<1>2. /\ command[k] # Idle /\ command[k] \in Capturing /\ o \in Outs /\ n \in CaseIds
      /\ CommandInv(k)
  BY <1>1, KindsOfCommands DEF FileInv, Idle
<1>3. /\ reports[o].text = "whole" /\ Len(reports[o].results) = n - 1
      /\ \A i \in DOMAIN reports[o].results : reports[o].results[i].passed
      /\ \A q \in Requests : posted[q] # [out |-> o, at |-> n]
  BY <1>1, <1>2 DEF CommandInv
<1>4. event \in Event \ {NoEvent}
  <2>1. event \in Event /\ event.subject \in Subjects /\ NoEvent.subject = NoSubject
    BY <1>2, CaptureAssumption DEF Event, CaseIds, NoEvent
  <2> QED BY <2>1, QueryAssumption
<1>5. /\ \A q \in Requests : events[q] # NoEvent => events'[q] # NoEvent
      /\ events[r] = NoEvent /\ events'[r] # NoEvent
  <2> HIDE DEF event
  <2>1. \A q \in Requests : events[q] # NoEvent => events'[q] # NoEvent
    BY <1>4, AskedIsKnown
  <2> QED BY <1>4, <2>1 DEF Ask, TypeOK
<1> HIDE DEF event
<1>6. posted[r] = NoPost
  BY <1>5 DEF FileInv, PostInv
<1>7. /\ posted'[r] = [out |-> o, at |-> n] /\ \A q \in Requests \ {r} : posted'[q] = posted[q]
      /\ posted' \in [Requests -> [out: Outs, at: CaseIds] \cup {NoPost}]
  BY <1>2 DEF FileInv, CaptureTypes
<1>8. /\ sent \in Capturing /\ sent.pc = "waiting" /\ sent.out = o /\ sent.at = n
      /\ sent.request = r
  BY <1>2 DEF Capturing
<1>9. \A j \in Commands : IF j = k THEN command'[j] = sent ELSE command'[j] = command[j]
  BY DEF FileInv, CaptureTypes
<1>10. sent # Idle
  BY <1>8 DEF Idle
<1> HIDE DEF sent
<1>11. CaptureTypes'
  BY <1>1, <1>7, <1>8 DEF FileInv, CaptureTypes, sent
<1>12. OneCommand'
  BY <1>2, <1>8, <1>9 DEF FileInv, OneCommand
<1>13. ASSUME NEW j \in Commands PROVE CommandInv(j)'
  <2>1. CASE j = k
    BY <1>1, <1>2, <1>3, <1>7, <1>8, <1>9, <2>1 DEF CommandInv
  <2>2. CASE j # k /\ command[j] # Idle
    <3>1. command'[j] = command[j] /\ command[j].out # o
      BY <1>2, <1>9, <2>2 DEF FileInv, OneCommand
    <3>2. /\ reports[command[j].out].text = "whole"
          /\ Len(reports[command[j].out].results) = command[j].at - 1
          /\ \A i \in DOMAIN reports[command[j].out].results :
               reports[command[j].out].results[i].passed
      BY <2>2 DEF FileInv, CommandInv
    <3>3. CASE command[j].pc = "waiting"
      <4>1. /\ command[j].request \in Requests
            /\ posted[command[j].request] = [out |-> command[j].out, at |-> command[j].at]
        BY <2>2, <3>3 DEF FileInv, CommandInv
      <4>2. command[j].request # r
        BY <1>6, <2>2, <4>1, PlacesArePosts, KindsOfCommands DEF FileInv
      <4> QED BY <1>1, <1>7, <3>1, <3>2, <3>3, <4>1, <4>2 DEF CommandInv
    <3>4. CASE command[j].pc = "sending"
      <4>1. \A q \in Requests : posted[q] # [out |-> command[j].out, at |-> command[j].at]
        BY <2>2, <3>4 DEF FileInv, CommandInv
      <4>2. \A q \in Requests : posted'[q] # [out |-> command[j].out, at |-> command[j].at]
        BY <1>7, <3>1, <4>1
      <4> QED BY <1>1, <3>1, <3>2, <3>4, <4>2 DEF CommandInv
    <3> QED BY <2>2, <3>3, <3>4, KindsOfCommands DEF FileInv
  <2>3. CASE j # k /\ command[j] = Idle
    BY <1>9, <2>3 DEF CommandInv
  <2> QED BY <2>1, <2>2, <2>3
<1>14. ASSUME NEW q \in Requests PROVE PostInv(q)'
  <2>1. CASE q = r
    BY <1>1, <1>2, <1>3, <1>5, <1>7, <2>1 DEF PostInv, FileInv, CaptureTypes, Report, CaseIds
  <2>2. CASE q # r
    BY <1>1, <1>5, <1>7, <2>2 DEF PostInv, FileInv
  <2> QED BY <2>1, <2>2
<1>15. ASSUME NEW p \in Outs PROVE FiledInv(p)'
  <2> SUFFICES ASSUME NEW i \in DOMAIN reports[p].results
               PROVE  posted'[reports[p].results[i].request] = [out |-> p, at |-> i]
    BY <1>1 DEF FiledInv
  <2>1. posted[reports[p].results[i].request] = [out |-> p, at |-> i]
    BY DEF FileInv, FiledInv
  <2>2. reports[p].results[i].request \in Requests
    <3>1. reports[p].results \in Seq(Sample)
      BY DEF FileInv, CaptureTypes, Report
    <3>2. reports[p].results[i] \in Sample
      BY <3>1
    <3> QED BY <3>2 DEF Sample
  <2>3. reports[p].results[i].request # r
    BY <1>6, <2>1, PlacesArePosts
  <2> QED BY <1>7, <2>1, <2>2, <2>3
<1>16. EachCaseIsSentOnce'
  BY <1>3, <1>7 DEF FileInv, EachCaseIsSentOnce
<1> QED BY <1>11, <1>12, <1>13, <1>14, <1>15, <1>16 DEF FileInv

LEMMA Appended ==
  ASSUME NEW S, NEW old \in Seq(S), NEW e \in S, NEW new, new = Append(old, e)
  PROVE  LET n == Len(old)
         IN  /\ new \in Seq(S) /\ n \in Nat /\ Len(new) = n + 1
             /\ DOMAIN old = 1..n /\ DOMAIN new = 1..n + 1
             /\ \A i \in 1..n : new[i] = old[i]
             /\ new[n + 1] = e
  BY AppendProperties, LenProperties

\* Recording a sample adds it to one report and moves its command on.
LEMMA RecordChanges ==
  ASSUME CaptureTypes, NEW k \in Commands, command[k].pc = "waiting",
         NEW sample \in Sample, Record(k, sample)
  PROVE  LET o == command[k].out
             n == Len(reports[o].results)
         IN  /\ o \in Outs /\ reports' \in [Outs -> Report]
             /\ \A p \in Outs \ {o} : reports'[p] = reports[p]
             /\ reports'[o].text = reports[o].text
             /\ n \in Nat /\ Len(reports'[o].results) = n + 1
             /\ DOMAIN reports[o].results = 1..n /\ DOMAIN reports'[o].results = 1..n + 1
             /\ \A i \in 1..n : reports'[o].results[i] = reports[o].results[i]
             /\ reports'[o].results[n + 1] = sample
             /\ \A j \in Commands \ {k} : command'[j] = command[j]
             /\ command' \in [Commands -> Capturing \cup {Idle}]
             /\ \/ command'[k] = Idle
                \/ /\ sample.passed /\ command'[k].pc = "sending"
                   /\ command'[k].out = o /\ command'[k].at = command[k].at + 1
<1> DEFINE o == command[k].out
           old == reports[o].results
           new == Append(old, sample)
           n == Len(old)
           next == [command[k] EXCEPT !.pc = "sending", !.at = @ + 1, !.request = NoRequest]
<1>1. command[k] \in Capturing /\ o \in Outs /\ command[k].at \in CaseIds
  BY KindsOfCommands DEF Idle
<1>2. reports \in [Outs -> Report] /\ reports[o] \in Report /\ old \in Seq(Sample)
  BY <1>1 DEF CaptureTypes, Report
<1>3. /\ new \in Seq(Sample) /\ n \in Nat /\ Len(new) = n + 1
      /\ DOMAIN old = 1..n /\ DOMAIN new = 1..n + 1
      /\ \A i \in 1..n : new[i] = old[i]
      /\ new[n + 1] = sample
  <2>1. new = Append(old, sample)
    OBVIOUS
  <2> HIDE DEF new, old
  <2> QED BY <1>2, <2>1, Appended
<1>4. reports' = [reports EXCEPT ![o] = [reports[o] EXCEPT !.results = new]]
  BY DEF Record
<1> HIDE DEF new
<1>5. /\ [reports[o] EXCEPT !.results = new] \in Report
      /\ [reports[o] EXCEPT !.results = new].results = new
      /\ [reports[o] EXCEPT !.results = new].text = reports[o].text
  BY <1>2, <1>3 DEF Report
<1>6. /\ reports' \in [Outs -> Report] /\ reports'[o].results = new
      /\ reports'[o].text = reports[o].text
      /\ \A p \in Outs \ {o} : reports'[p] = reports[p]
  BY <1>1, <1>2, <1>4, <1>5
<1>7. command[k].at # CaseCount =>
        next \in Capturing /\ next.pc = "sending" /\ next.out = o /\ next.at = command[k].at + 1
  <2> SUFFICES ASSUME command[k].at # CaseCount
               PROVE  /\ next \in Capturing /\ next.pc = "sending" /\ next.out = o
                      /\ next.at = command[k].at + 1
    OBVIOUS
  <2>1. command[k].at + 1 \in CaseIds
    BY <1>1, CaptureAssumption DEF CaseIds
  <2> QED BY <1>1, <2>1 DEF Capturing
<1>8. command' = [command EXCEPT ![k] =
                    IF command[k].at = CaseCount \/ ~sample.passed THEN Idle ELSE next]
  BY DEF Record, Does
<1> HIDE DEF next
<1>9. /\ command' \in [Commands -> Capturing \cup {Idle}]
      /\ \A j \in Commands \ {k} : command'[j] = command[j]
      /\ \/ command'[k] = Idle
         \/ /\ sample.passed /\ command'[k].pc = "sending"
            /\ command'[k].out = o /\ command'[k].at = command[k].at + 1
  BY <1>7, <1>8 DEF CaptureTypes
<1> QED BY <1>1, <1>3, <1>6, <1>9

\* The reply to a request, or its absence, is filed where it was sent for.
LEMMA RecordKeeps ==
  ASSUME FileInv, NEW k \in Commands, command[k].pc = "waiting", UNCHANGED <<events, posted>>,
         NEW sample \in Sample, sample.request = command[k].request, Record(k, sample)
  PROVE  FileInv'
<1> DEFINE o == command[k].out
           n == Len(reports[o].results)
<1>1. /\ o \in Outs /\ reports' \in [Outs -> Report]
      /\ \A p \in Outs \ {o} : reports'[p] = reports[p]
      /\ reports'[o].text = reports[o].text
  BY RecordChanges DEF FileInv
<1>2. /\ n \in Nat /\ Len(reports'[o].results) = n + 1
      /\ DOMAIN reports[o].results = 1..n /\ DOMAIN reports'[o].results = 1..n + 1
      /\ \A i \in 1..n : reports'[o].results[i] = reports[o].results[i]
      /\ reports'[o].results[n + 1] = sample
  BY RecordChanges DEF FileInv
<1>3. /\ \A j \in Commands \ {k} : command'[j] = command[j]
      /\ command' \in [Commands -> Capturing \cup {Idle}]
      /\ \/ command'[k] = Idle
         \/ /\ sample.passed /\ command'[k].pc = "sending"
            /\ command'[k].out = o /\ command'[k].at = command[k].at + 1
  BY RecordChanges DEF FileInv
<1>4. /\ command[k] # Idle /\ command[k].at \in CaseIds
      /\ reports[o].text = "whole" /\ n = command[k].at - 1
      /\ \A i \in 1..n : reports[o].results[i].passed
      /\ command[k].request \in Requests
      /\ posted[command[k].request] = [out |-> o, at |-> command[k].at]
  <2>1. command[k] # Idle /\ command[k].at \in CaseIds
    BY KindsOfCommands DEF FileInv, Idle
  <2> QED BY <1>2, <2>1 DEF FileInv, CommandInv
<1>5. command[k].at = n + 1 /\ \A r \in Requests : posted[r] # NoPost => posted[r].at \in Nat
  <2>1. command[k].at = n + 1
    <3>1. command[k].at \in Nat
      BY <1>4, CaptureAssumption DEF CaseIds
    <3> HIDE DEF n
    <3> QED BY <1>2, <1>4, <3>1
  <2>2. \A r \in Requests : posted[r] # NoPost => posted[r].at \in Nat
    <3>1. CaseIds \subseteq Nat
      BY CaptureAssumption DEF CaseIds
    <3>2. \A r \in Requests : posted[r] # NoPost => posted[r].at \in CaseIds
      BY PostsArePlaces DEF FileInv
    <3> QED BY <3>1, <3>2
  <2> QED BY <2>1, <2>2
<1> HIDE DEF n
<1>6. CaptureTypes'
  BY <1>1, <1>3 DEF FileInv, CaptureTypes
<1>7. OneCommand'
  BY <1>3, <1>4 DEF FileInv, OneCommand
<1>8. ASSUME NEW j \in Commands PROVE CommandInv(j)'
  <2>1. CASE j # k
    <3>1. command[j] # Idle => command[j].out # o /\ command[j].out \in Outs
      BY <1>4, <2>1, KindsOfCommands DEF FileInv, OneCommand
    <3>2. command'[j] = command[j]
      BY <1>3, <2>1
    <3>3. command[j] # Idle => reports'[command[j].out] = reports[command[j].out]
      BY <1>1, <3>1
    <3> QED BY <3>2, <3>3 DEF FileInv, CommandInv
  <2>2. CASE j = k /\ command'[k] # Idle
    <3>1. /\ sample.passed /\ command'[k].pc = "sending"
          /\ command'[k].out = o /\ command'[k].at = n + 2
      BY <1>2, <1>3, <1>5, <2>2
    <3>2. \A i \in 1..n + 1 : reports'[o].results[i].passed
      <4>1. \A i \in 1..n + 1 : i \in 1..n \/ i = n + 1
        BY <1>2
      <4> QED BY <1>2, <1>4, <3>1, <4>1
    <3>3. \A r \in Requests : posted[r] # [out |-> o, at |-> n + 2]
      <4> SUFFICES ASSUME NEW r \in Requests, posted[r] = [out |-> o, at |-> n + 2]
                   PROVE  FALSE
        OBVIOUS
      <4>1. posted[r] # NoPost /\ posted[r].out = o /\ posted[r].at = n + 2
        BY <1>1, PlacesArePosts
      <4>2. posted[r].at <= n + 1
        BY <4>1 DEF FileInv, PostInv, n
      <4> QED BY <1>2, <4>1, <4>2
    <3>4. Len(reports'[o].results) = n + 2 - 1
      BY <1>2
    <3> QED BY <1>1, <1>2, <1>4, <2>2, <3>1, <3>2, <3>3, <3>4 DEF CommandInv
  <2>3. CASE j = k /\ command'[k] = Idle
    BY <2>3 DEF CommandInv
  <2> QED BY <2>1, <2>2, <2>3
<1>9. ASSUME NEW r \in Requests PROVE PostInv(r)'
  <2> SUFFICES ASSUME posted[r] # NoPost
               PROVE  /\ events[r] # NoEvent
                      /\ reports'[posted[r].out].text = "whole"
                      /\ posted[r].at <= Len(reports'[posted[r].out].results) + 1
                      /\ \A i \in 1..posted[r].at - 1 :
                           reports'[posted[r].out].results[i].passed
    BY DEF PostInv
  <2>1. /\ events[r] # NoEvent /\ posted[r].out \in Outs
        /\ reports[posted[r].out].text = "whole"
        /\ posted[r].at <= Len(reports[posted[r].out].results) + 1
        /\ \A i \in 1..posted[r].at - 1 : reports[posted[r].out].results[i].passed
    BY PostsArePlaces DEF FileInv, PostInv
  <2>2. CASE posted[r].out = o
    <3>1. posted[r].at \in Nat /\ posted[r].at <= n + 1
      BY <1>5, <2>1, <2>2 DEF n
    <3>2. \A i \in 1..posted[r].at - 1 : i \in 1..n
      BY <1>2, <3>1
    <3>3. \A i \in 1..posted[r].at - 1 : reports'[o].results[i].passed
      BY <1>2, <2>1, <2>2, <3>2
    <3>4. posted[r].at <= Len(reports'[o].results) + 1
      BY <1>2, <3>1
    <3> QED BY <1>1, <2>1, <2>2, <3>3, <3>4
  <2>3. CASE posted[r].out # o
    BY <1>1, <2>1, <2>3
  <2> QED BY <2>2, <2>3
<1>10. ASSUME NEW p \in Outs PROVE FiledInv(p)'
  <2>1. CASE p = o
    <3>1. \A i \in 1..n : posted[reports[o].results[i].request] = [out |-> o, at |-> i]
      BY <1>2, <2>1 DEF FileInv, FiledInv
    <3>2. posted[sample.request] = [out |-> o, at |-> n + 1]
      BY <1>4, <1>5
    <3>3. \A i \in 1..n + 1 : i \in 1..n \/ i = n + 1
      BY <1>2
    <3>4. \A i \in 1..n + 1 : posted'[reports'[o].results[i].request] = [out |-> o, at |-> i]
      BY <1>2, <3>1, <3>2, <3>3
    <3> QED BY <1>2, <2>1, <3>4 DEF FiledInv
  <2>2. CASE p # o
    BY <1>1, <2>2 DEF FileInv, FiledInv
  <2> QED BY <2>1, <2>2
<1>11. EachCaseIsSentOnce'
  BY DEF FileInv, EachCaseIsSentOnce
<1> QED BY <1>6, <1>7, <1>8, <1>9, <1>10, <1>11 DEF FileInv

LEMMA ReceiveKeeps ==
  ASSUME FileInv, NEW k \in Commands, NEW sample \in Sample, command[k].pc = "waiting",
         sample.request = command[k].request, Record(k, sample), UNCHANGED <<posted, queryVars>>
  PROVE  FileInv'
  BY RecordKeeps DEF queryVars

\* What a waiting command can read is an answer of its request.
LEMMA ReceiveIsRecord ==
  ASSUME FileInv, QueryInv, NEW k \in Commands, Receive(k)
  PROVE  \E sample \in Sample, c \in Calls :
           /\ Record(k, sample) /\ sample.request = command[k].request
           /\ call[c].request = sample.request /\ call[c].status = 200
           /\ sample.response = call[c].artifact /\ sample.response \in Artifact
           /\ sample.evidence = sample.response /\ store[sample.request] = sample.response
<1> DEFINE r == command[k].request
           s == Cases[command[k].at]
<1> PICK c \in Calls :
      /\ call[c].request = r /\ call[c].status = 200
      /\ Matching(s, call[c].artifact, store[r])
      /\ Record(k, [request |-> r,
                    passed |-> Permitted(s, store[r]) /\ Checked(s, call[c].artifact),
                    response |-> call[c].artifact, evidence |-> store[r]])
  BY DEF Receive
<1> DEFINE sample == [request |-> r,
                      passed |-> Permitted(s, store[r]) /\ Checked(s, call[c].artifact),
                      response |-> call[c].artifact, evidence |-> store[r]]
<1>1. r \in Requests /\ call[c].artifact \in Artifact
  BY DEF QueryInv, CallInv, Known
<1>2. store[r] = call[c].artifact
  BY DEF Matching
<1>3. (Permitted(s, store[r]) /\ Checked(s, call[c].artifact)) \in BOOLEAN
  BY DEF Permitted, Checked
<1> DEFINE passed == Permitted(s, store[r]) /\ Checked(s, call[c].artifact)
<1> HIDE DEF passed
<1>4. [request |-> r, passed |-> passed, response |-> call[c].artifact, evidence |-> store[r]]
        \in Sample
  BY <1>1, <1>2, <1>3 DEF Sample, passed
<1>5. sample \in Sample
  BY <1>4 DEF passed
<1> QED BY <1>1, <1>2, <1>5

LEMMA MissIsRecord ==
  ASSUME FileInv, NEW k \in Commands, Miss(k)
  PROVE  \E sample \in Sample :
           Record(k, sample) /\ sample.request = command[k].request /\ ~sample.passed
<1> DEFINE sample == [request |-> command[k].request, passed |-> FALSE,
                      response |-> NoArtifact, evidence |-> NoArtifact]
<1>1. command[k] # Idle
  BY DEF Miss, Idle
<1>2. command[k].request \in Requests
  BY <1>1 DEF FileInv, CommandInv, Miss
<1>3. sample \in Sample
  BY <1>2 DEF Sample
<1> QED BY <1>3 DEF Miss

LEMMA FileStepKeeps ==
  ASSUME FileInv, QueryInv, [CaptureNext]_<<queryVars, captureVars>>
  PROVE  FileInv'
<1>1. ASSUME NEW k \in Commands, NEW o \in Outs, Start(k, o) PROVE FileInv'
  BY <1>1, StartKeeps
<1>2. ASSUME NEW k \in Commands, Send(k) PROVE FileInv'
  BY <1>2, SendKeeps DEF QueryInv
<1>3. ASSUME NEW k \in Commands, Receive(k) PROVE FileInv'
  <2>1. command[k].pc = "waiting" /\ UNCHANGED <<posted, queryVars>>
    BY <1>3 DEF Receive
  <2>2. \E sample \in Sample : Record(k, sample) /\ sample.request = command[k].request
    BY <1>3, ReceiveIsRecord
  <2> QED BY <2>1, <2>2, ReceiveKeeps
<1>4. ASSUME NEW k \in Commands, Miss(k) PROVE FileInv'
  <2>1. command[k].pc = "waiting" /\ UNCHANGED <<posted, queryVars>>
    BY <1>4 DEF Miss
  <2>2. \E sample \in Sample : Record(k, sample) /\ sample.request = command[k].request
    BY <1>4, MissIsRecord
  <2> QED BY <2>1, <2>2, ReceiveKeeps
<1>5. ASSUME NEW k \in Commands, Abort(k) PROVE FileInv'
  BY <1>5, AbortKeeps
<1>6. ASSUME NEW x \in Exports, NEW o \in Outs, Export(x, o) PROVE FileInv'
  <2>1. UNCHANGED <<command, reports, posted, events>>
    BY <1>6 DEF Export, queryVars
  <2> QED BY <2>1, OthersKeep
<1>7. ASSUME OtherClient PROVE FileInv'
  <2> PICK r \in Requests, event \in OtherEvents : Ask(r, event)
    BY <1>7 DEF OtherClient
  <2>1. event # NoEvent
    <3>1. event \in Event
      BY CaptureAssumption
    <3> QED BY <3>1, EventIsSomething
  <2>2. UNCHANGED <<command, reports, posted>>
    BY <1>7 DEF OtherClient, captureVars
  <2>3. \A q \in Requests : events[q] # NoEvent => events'[q] # NoEvent
    BY CaptureAssumption, <2>1, AskedIsKnown DEF QueryInv
  <2> QED BY <2>2, <2>3, OthersKeep
<1>8. ASSUME UNCHANGED <<captureVars, events>> PROVE FileInv'
  BY <1>8, OthersKeep DEF captureVars
<1>9. ASSUME HandlerNext PROVE UNCHANGED events
  BY <1>9 DEF HandlerNext, Begin, Retrieve, Converse, Save, Kill, Redeploy
<1> QED BY <1>1, <1>2, <1>3, <1>4, <1>5, <1>6, <1>7, <1>8, <1>9 DEF CaptureNext, queryVars

LEMMA FileInitInv == CaptureInit => FileInv
<1> SUFFICES ASSUME CaptureInit PROVE FileInv
  OBVIOUS
<1>1. /\ \A k \in Commands : command[k] = Idle
      /\ \A o \in Outs : reports[o] = NoReport
      /\ \A r \in Requests : posted[r] = NoPost
  BY DEF CaptureInit
<1>2. NoReport \in Report /\ NoReport.results = <<>> /\ NoReport.results \in Seq(Sample)
  <2>1. <<>> \in Seq(Sample)
    OBVIOUS
  <2> QED BY <2>1 DEF NoReport, Report
<1>3. CaptureTypes
  BY <1>2 DEF CaptureInit, CaptureTypes
<1>4. \A o \in Outs : DOMAIN reports[o].results = {}
  BY <1>1, <1>2
<1> QED BY <1>1, <1>3, <1>4
        DEF FileInv, CommandInv, OneCommand, PostInv, FiledInv, EachCaseIsSentOnce

-----------------------------------------------------------------------------

\* The files, with the invocations they were answered by.
BothInv == QueryInv /\ FileInv

LEMMA BothStepKeeps == BothInv /\ [CaptureNext]_<<queryVars, captureVars>> => BothInv'
<1> SUFFICES ASSUME BothInv, [CaptureNext]_<<queryVars, captureVars>> PROVE BothInv'
  OBVIOUS
<1>1. [HandlerNext \/ AnyRequest]_queryVars
  BY CaptureStepIsQueryStep DEF BothInv, QueryInv, FileInv, CaptureTypes
<1> QED BY <1>1, QueryStepKeeps, FileStepKeeps DEF BothInv

THEOREM CaptureInvariant == CaptureSpec => []BothInv
<1>1. CaptureInit => BothInv
  BY QueryInitInv, FileInitInv DEF CaptureInit, BothInv
<1> QED BY <1>1, BothStepKeeps, PTL DEF CaptureSpec

\* Capture commands, exports and other clients are clients of the query
\* Lambda: what is proved of it holds while answers are captured.
THEOREM CaptureUsesQuery == CaptureSpec => QuerySpec
<1>1. CaptureInit => QueryInit
  BY DEF CaptureInit
<1>2. BothInv /\ [CaptureNext]_<<queryVars, captureVars>> => [HandlerNext \/ AnyRequest]_queryVars
  BY CaptureStepIsQueryStep DEF BothInv, QueryInv, FileInv, CaptureTypes
<1> QED BY <1>1, <1>2, CaptureInvariant, PTL DEF CaptureSpec, QuerySpec

\* No case is paid for twice for one report: capture creates the report's file
\* with mode x, and sends a case only after the one before it is on file.
THEOREM CasesAreSentOnce == CaptureSpec => []EachCaseIsSentOnce
<1>1. BothInv => EachCaseIsSentOnce
  BY DEF BothInv, FileInv
<1> QED BY <1>1, CaptureInvariant, PTL

LEMMA InvAccounts == FileInv => PaidRequestsAreOnFile
<1> SUFFICES ASSUME FileInv, NEW r \in Requests, posted[r] # NoPost
             PROVE  LET results == reports[posted[r].out].results
                    IN  /\ posted[r].at <= Len(results) + 1
                        /\ \A i \in 1..posted[r].at - 1 :
                             /\ results[i].passed
                             /\ posted[results[i].request] = [out |-> posted[r].out, at |-> i]
  BY DEF PaidRequestsAreOnFile
<1> DEFINE o == posted[r].out
           n == Len(reports[o].results)
<1>1. o \in Outs /\ posted[r].at \in CaseIds
  BY PostsArePlaces DEF FileInv
<1>2. reports[o].results \in Seq(Sample)
  BY <1>1 DEF FileInv, CaptureTypes, Report
<1>3. /\ posted[r].at <= n + 1
      /\ \A i \in 1..posted[r].at - 1 : reports[o].results[i].passed
  BY DEF FileInv, PostInv
<1>4. posted[r].at \in Nat /\ n \in Nat /\ DOMAIN reports[o].results = 1..n
  <2>1. CaseIds \subseteq Nat
    BY CaptureAssumption DEF CaseIds
  <2> QED BY <1>1, <1>2, <2>1, LenProperties
<1> HIDE DEF n
<1>5. \A i \in 1..posted[r].at - 1 : i \in DOMAIN reports[o].results
  BY <1>3, <1>4
<1>6. \A i \in DOMAIN reports[o].results :
        posted[reports[o].results[i].request] = [out |-> o, at |-> i]
  BY <1>1 DEF FileInv, FiledInv
<1> HIDE DEF o
<1> QED BY <1>3, <1>5, <1>6 DEF o, n

\* A report accounts for what was paid: the file is replaced after each case,
\* and the first that fails is the last.
THEOREM PaidIsOnFile == CaptureSpec => []PaidRequestsAreOnFile
  BY InvAccounts, CaptureInvariant, PTL DEF BothInv

-----------------------------------------------------------------------------
(* Where the rows of a dataset come from.                                  *)

\* Invocation c replied artifact a to request r, and the bucket can show it.
Replies(c, r, a) ==
  call[c].request = r /\ call[c].status = 200 /\ call[c].artifact = a /\ store[r] = a

\* The change of an invocation that has not answered changes no answer.
LEMMA OthersStay ==
  ASSUME TypeOK, NEW c \in Calls, call[c].status # 200, NEW k, call' = [call EXCEPT ![c] = k]
  PROVE  \A d \in Calls : call[d].status = 200 => call'[d] = call[d]
  BY DEF TypeOK

\* A reply is never taken back, and what is stored is never replaced.
LEMMA RepliesStay ==
  ASSUME QueryInv, HandlerNext
  PROVE  /\ \A d \in Calls : call[d].status = 200 => call'[d] = call[d]
         /\ \A r \in Requests : store[r] # NoArtifact => store'[r] = store[r]
<1>1. \A c \in Calls : call[c].pc \in Working => call[c].status # 200
  BY DEF QueryInv, CallInv
<1>2. \A c \in Calls : \A k : Goes(c, k) => \E m : call' = [call EXCEPT ![c] = m]
  BY DEF Goes
<1>3. ASSUME NEW c \in Calls, NEW r \in Requests, Begin(c, r)
      PROVE  call[c].status # 200 /\ UNCHANGED store /\ \E k : Goes(c, k)
  <2>1. call[c].status = 0
    BY <1>3 DEF Begin, NotCalled
  <2> QED BY <1>3, <2>1 DEF Begin
<1>4. ASSUME NEW c \in Calls, Retrieve(c) \/ Converse(c)
      PROVE  call[c].status # 200 /\ UNCHANGED store /\ \E k : Goes(c, k)
  BY <1>1, <1>4 DEF Retrieve, Converse, Working
<1>5. ASSUME NEW c \in Calls, Save(c)
      PROVE  /\ call[c].status # 200 /\ \E k : Goes(c, k)
             /\ \A r \in Requests : store[r] # NoArtifact => store'[r] = store[r]
  <2>1. call[c].status # 200 /\ \E k : Goes(c, k)
    BY <1>1, <1>5 DEF Save, Working
  <2>2. \/ UNCHANGED store
        \/ /\ store[call[c].request] = NoArtifact
           /\ store' = [store EXCEPT ![call[c].request] = call[c].artifact]
    BY <1>5 DEF Save
  <2> QED BY <2>1, <2>2 DEF QueryInv, TypeOK
<1>6. ASSUME NEW c \in Calls, Kill(c)
      PROVE  /\ call[c].status # 200 /\ UNCHANGED store
             /\ \E k : call' = [call EXCEPT ![c] = k]
  BY <1>1, <1>6 DEF Kill
<1>7. ASSUME Redeploy PROVE UNCHANGED <<call, store>>
  BY <1>7 DEF Redeploy
<1>8. CASE UNCHANGED <<call, store>>
  BY <1>8
<1>9. CASE \E c \in Calls : /\ call[c].status # 200
                            /\ \E k : call' = [call EXCEPT ![c] = k]
                            /\ \A r \in Requests : store[r] # NoArtifact => store'[r] = store[r]
  BY <1>9, OthersStay DEF QueryInv
<1> QED BY <1>2, <1>3, <1>4, <1>5, <1>6, <1>7, <1>8, <1>9 DEF HandlerNext

LEMMA ReplyIsArtifact ==
  ASSUME QueryInv, NEW c \in Calls, NEW r, NEW a, Replies(c, r, a)
  PROVE  r \in Requests /\ a \in Artifact
  BY DEF QueryInv, CallInv, Known, Replies

LEMMA ReplyStays ==
  ASSUME BothInv, [CaptureNext]_<<queryVars, captureVars>>,
         NEW c \in Calls, NEW r, NEW a, Replies(c, r, a)
  PROVE  Replies(c, r, a)'
<1>1. r \in Requests /\ a \in Artifact
  BY ReplyIsArtifact DEF BothInv
<1>2. CASE HandlerNext
  <2>1. call'[c] = call[c] /\ store'[r] = store[r]
    BY <1>1, <1>2, RepliesStay, ArtifactIsSomething DEF BothInv, Replies
  <2> QED BY <2>1 DEF Replies
<1>3. CASE UNCHANGED <<call, store>>
  BY <1>3 DEF Replies
<1>4. [HandlerNext \/ AnyRequest]_queryVars
  BY CaptureStepIsQueryStep DEF BothInv, QueryInv, FileInv, CaptureTypes
<1> QED BY <1>2, <1>3, <1>4 DEF AnyRequest, queryVars

\* A sample that passed has what an invocation replied to its request.
SampleInv(sample) ==
  sample.passed =>
    /\ sample.evidence = sample.response
    /\ \E c \in Calls : Replies(c, sample.request, sample.response)

\* A row is made of an answer of the prepared deployment to case i.
MadeOf(row, a, i) ==
  /\ a.subject = Cases[i] /\ a.deployment = Prepared
  /\ row.answer = a.answer
  /\ row.passages = [p \in a.evidence |-> a.results[p]]

RowInv(row, o, i) ==
  /\ posted[row.request] = [out |-> o, at |-> i]
  /\ \E c \in Calls, a \in Artifact : Replies(c, row.request, a) /\ MadeOf(row, a, i)

DataInv ==
  /\ \A o \in Outs : \A i \in DOMAIN reports[o].results : SampleInv(reports[o].results[i])
  /\ exports = [x \in Exports |-> exports[x]]
  /\ \A x \in Exports : exports[x].text = "whole" =>
       /\ exports[x].out \in Outs
       /\ \A i \in CaseIds : RowInv(exports[x].rows[i], exports[x].out, i)

LEMMA SampleStays ==
  ASSUME BothInv, [CaptureNext]_<<queryVars, captureVars>>, NEW sample, SampleInv(sample)
  PROVE  sample.passed =>
           /\ sample.evidence = sample.response
           /\ \E c \in Calls : Replies(c, sample.request, sample.response)'
<1>1. \A c \in Calls : Replies(c, sample.request, sample.response)
                         => Replies(c, sample.request, sample.response)'
  BY ReplyStays
<1> QED BY <1>1 DEF SampleInv

LEMMA RowStays ==
  ASSUME BothInv, [CaptureNext]_<<queryVars, captureVars>>,
         \A r \in Requests : posted[r] # NoPost => posted'[r] = posted[r],
         NEW row, NEW o \in Outs, NEW i, RowInv(row, o, i)
  PROVE  /\ posted'[row.request] = [out |-> o, at |-> i]
         /\ \E c \in Calls, a \in Artifact : Replies(c, row.request, a)' /\ MadeOf(row, a, i)
<1> PICK c \in Calls, a \in Artifact : Replies(c, row.request, a) /\ MadeOf(row, a, i)
  BY DEF RowInv
<1>1. Replies(c, row.request, a)' /\ row.request \in Requests
  BY ReplyStays, ReplyIsArtifact DEF BothInv
<1>2. posted'[row.request] = [out |-> o, at |-> i]
  BY <1>1, PlacesArePosts DEF RowInv
<1> QED BY <1>1, <1>2

\* What a request was sent for does not change.
LEMMA PostsStay ==
  ASSUME BothInv, [CaptureNext]_<<queryVars, captureVars>>
  PROVE  \A r \in Requests : posted[r] # NoPost => posted'[r] = posted[r]
<1>1. ASSUME NEW k \in Commands, Send(k)
      PROVE  \A r \in Requests : posted[r] # NoPost => posted'[r] = posted[r]
  <2> PICK q \in Requests : \E event, post :
        Ask(q, event) /\ posted' = [posted EXCEPT ![q] = post]
    BY <1>1 DEF Send
  <2>1. posted[q] = NoPost
    BY DEF Ask, BothInv, FileInv, PostInv
  <2> QED BY <2>1 DEF BothInv, FileInv, CaptureTypes
<1>2. ASSUME \/ \E k \in Commands : \/ \E o \in Outs : Start(k, o)
                                    \/ Receive(k) \/ Miss(k) \/ Abort(k)
             \/ \E x \in Exports, o \in Outs : Export(x, o)
             \/ OtherClient \/ UNCHANGED captureVars
      PROVE  UNCHANGED posted
  BY <1>2 DEF Start, Receive, Miss, Abort, Export, OtherClient, captureVars
<1>3. (\E k \in Commands : Send(k)) \/ UNCHANGED posted
  BY <1>2 DEF CaptureNext, captureVars
<1> QED BY <1>1, <1>3

\* A row that passes export's checks is of an answer.
LEMMA ExportedRow ==
  ASSUME BothInv, DataInv, NEW o \in Outs, NEW i \in CaseIds,
         Len(reports[o].results) = CaseCount, Accepted(i, reports[o].results[i])
  PROVE  RowInv(Row(reports[o].results[i]), o, i)
<1> DEFINE sample == reports[o].results[i]
           row == Row(sample)
<1>1. i \in DOMAIN reports[o].results
  <2>1. reports[o].results \in Seq(Sample)
    BY DEF BothInv, FileInv, CaptureTypes, Report
  <2>2. DOMAIN reports[o].results = 1..CaseCount
    BY <2>1, LenProperties
  <2> QED BY <2>2 DEF CaseIds
<1>2. SampleInv(sample)
  BY <1>1 DEF DataInv
<1>3. posted[sample.request] = [out |-> o, at |-> i]
  BY <1>1 DEF BothInv, FileInv, FiledInv
<1>4. /\ sample.passed /\ sample.evidence.subject = Cases[i]
      /\ sample.evidence.deployment = Prepared
  BY DEF Accepted, Matching
<1> HIDE DEF sample
<1>5. PICK c \in Calls : Replies(c, sample.request, sample.response)
  BY <1>2, <1>4 DEF SampleInv
<1>6. sample.evidence = sample.response /\ sample.response \in Artifact
  BY <1>2, <1>4, <1>5, ReplyIsArtifact DEF SampleInv, BothInv
<1>7. /\ row.request = sample.request /\ row.answer = sample.response.answer
      /\ row.passages = [p \in sample.response.evidence |-> sample.response.results[p]]
  BY <1>6 DEF Row
<1> HIDE DEF row
<1>8. RowInv(row, o, i)
  BY <1>3, <1>4, <1>5, <1>6, <1>7 DEF RowInv, MadeOf
<1> QED BY <1>8 DEF row, sample

LEMMA ExportKeeps ==
  ASSUME BothInv, DataInv, [CaptureNext]_<<queryVars, captureVars>>,
         NEW x \in Exports, NEW o \in Outs, Export(x, o)
  PROVE  DataInv'
<1> DEFINE rows == [i \in CaseIds |-> Row(reports[o].results[i])]
<1> PICK text \in {"whole", "broken"} :
      exports' = [exports EXCEPT ![x] = [text |-> text, out |-> o, rows |-> rows]]
  BY DEF Export
<1>1. Exportable(reports[o].results) /\ UNCHANGED reports
  BY DEF Export
<1>2. \A i \in CaseIds : RowInv(rows[i], o, i)
  BY <1>1, ExportedRow DEF Exportable
<1> DEFINE new == [text |-> text, out |-> o, rows |-> rows]
<1>3. new.out = o /\ new.rows = rows
  OBVIOUS
<1> HIDE DEF rows, new
<1>4. /\ exports' = [y \in Exports |-> exports'[y]]
      /\ exports'[x] = new /\ \A y \in Exports \ {x} : exports'[y] = exports[y]
  <2>1. exports' = [exports EXCEPT ![x] = new]
    BY DEF new
  <2>2. exports = [y \in Exports |-> exports[y]]
    BY DEF DataInv
  <2> QED BY <2>1, <2>2
<1>5. \A y \in Exports : exports'[y].text = "whole" =>
        /\ exports'[y].out \in Outs
        /\ \A i \in CaseIds : RowInv(exports'[y].rows[i], exports'[y].out, i)
  BY <1>2, <1>3, <1>4 DEF DataInv
<1>6. \A y \in Exports : exports'[y].text = "whole" =>
        /\ exports'[y].out \in Outs
        /\ \A i \in CaseIds : RowInv(exports[y].rows[i], exports[y].out, i)'
  <2> SUFFICES ASSUME NEW y \in Exports, exports'[y].text = "whole", NEW i \in CaseIds
               PROVE  exports'[y].out \in Outs /\ RowInv(exports[y].rows[i], exports[y].out, i)'
    BY <1>5, CaptureAssumption DEF CaseIds
  <2> DEFINE row == exports'[y].rows[i]
             p == exports'[y].out
  <2>1. p \in Outs /\ RowInv(row, p, i)
    BY <1>5
  <2>2. UNCHANGED posted /\ UNCHANGED <<call, store>>
    BY DEF Export, queryVars
  <2> QED BY <2>1, <2>2 DEF RowInv, Replies, MadeOf
<1>7. \A p \in Outs : \A i \in DOMAIN reports'[p].results : SampleInv(reports[p].results[i])'
  <2> SUFFICES ASSUME NEW p \in Outs, NEW i \in DOMAIN reports[p].results
               PROVE  SampleInv(reports[p].results[i])'
    BY <1>1
  <2>1. SampleInv(reports[p].results[i])
    BY DEF DataInv
  <2>2. UNCHANGED <<call, store>>
    BY DEF Export, queryVars
  <2> QED BY <1>1, <2>1, <2>2 DEF SampleInv, Replies
<1> QED BY <1>4, <1>6, <1>7 DEF DataInv

\* A step that exports nothing leaves the datasets to what they are made of.
LEMMA RowsKeep ==
  ASSUME BothInv, DataInv, [CaptureNext]_<<queryVars, captureVars>>, UNCHANGED exports
  PROVE  \A x \in Exports : exports'[x].text = "whole" =>
           /\ exports'[x].out \in Outs
           /\ \A i \in CaseIds : RowInv(exports[x].rows[i], exports[x].out, i)'
<1> SUFFICES ASSUME NEW x \in Exports, exports[x].text = "whole"
             PROVE  /\ exports[x].out \in Outs
                    /\ \A i \in CaseIds : RowInv(exports[x].rows[i], exports[x].out, i)'
  OBVIOUS
<1>1. exports[x].out \in Outs
  BY DEF DataInv
<1>2. ASSUME NEW i \in CaseIds PROVE RowInv(exports[x].rows[i], exports[x].out, i)'
  <2> PICK row, o : row = exports[x].rows[i] /\ o = exports[x].out
    OBVIOUS
  <2>1. RowInv(row, o, i)
    BY DEF DataInv
  <2>2. \A r \in Requests : posted[r] # NoPost => posted'[r] = posted[r]
    BY PostsStay
  <2>3. exports'[x].rows[i] = row /\ exports'[x].out = o
    OBVIOUS
  <2>4. /\ posted'[row.request] = [out |-> o, at |-> i]
        /\ \E c \in Calls, a \in Artifact : Replies(c, row.request, a)' /\ MadeOf(row, a, i)
    <3>1. o \in Outs
      BY <1>1
    <3> QED BY <2>1, <2>2, <3>1, RowStays
  <2> QED BY <2>3, <2>4 DEF RowInv, Replies, MadeOf
<1> QED BY <1>1, <1>2

\* A sample that is filed passed only if its answer was read.
LEMMA FiledSamples ==
  ASSUME BothInv, DataInv, [CaptureNext]_<<queryVars, captureVars>>,
         NEW k \in Commands, command[k].pc = "waiting",
         NEW sample \in Sample, SampleInv(sample), Record(k, sample)
  PROVE  \A p \in Outs : \A i \in DOMAIN reports'[p].results : SampleInv(reports[p].results[i])'
<1> DEFINE o == command[k].out
           n == Len(reports[o].results)
<1>1. CaptureTypes
  BY DEF BothInv, FileInv
<1>2. /\ \A p \in Outs \ {o} : reports'[p] = reports[p]
      /\ n \in Nat /\ o \in Outs
      /\ DOMAIN reports[o].results = 1..n /\ DOMAIN reports'[o].results = 1..n + 1
      /\ \A i \in 1..n : reports'[o].results[i] = reports[o].results[i]
      /\ reports'[o].results[n + 1] = sample
  BY <1>1, RecordChanges
<1> HIDE DEF n
<1> SUFFICES ASSUME NEW p \in Outs, NEW i \in DOMAIN reports'[p].results
             PROVE  SampleInv(reports[p].results[i])'
  OBVIOUS
<1> PICK it : it = reports'[p].results[i]
  OBVIOUS
<1>3. SampleInv(it)
  <2>1. CASE p # o
    <3>1. reports'[p] = reports[p]
      BY <1>2, <2>1
    <3>2. it = reports[p].results[i] /\ i \in DOMAIN reports[p].results
      BY <3>1
    <3> QED BY <3>2 DEF DataInv
  <2>2. CASE p = o /\ i \in 1..n
    <3>1. it = reports[o].results[i] /\ i \in DOMAIN reports[o].results
      BY <1>2, <2>2
    <3> QED BY <1>2, <3>1 DEF DataInv
  <2>3. CASE p = o /\ i = n + 1
    BY <1>2, <2>3
  <2>4. p = o => i \in 1..n \/ i = n + 1
    BY <1>2
  <2> QED BY <2>1, <2>2, <2>3, <2>4
<1>4. it.passed => it.evidence = it.response /\ \E c \in Calls : Replies(c, it.request, it.response)'
  BY <1>3, SampleStays
<1> QED BY <1>4 DEF SampleInv, Replies

LEMMA DataStepKeeps ==
  ASSUME BothInv, DataInv, [CaptureNext]_<<queryVars, captureVars>>
  PROVE  DataInv'
<1>1. ASSUME UNCHANGED exports,
             \A p \in Outs : \A i \in DOMAIN reports'[p].results : SampleInv(reports[p].results[i])'
      PROVE  DataInv'
  BY <1>1, RowsKeep DEF DataInv
<1>2. ASSUME \A p \in Outs : reports'[p].results = reports[p].results
      PROVE  \A p \in Outs : \A i \in DOMAIN reports'[p].results : SampleInv(reports[p].results[i])'
  <2> SUFFICES ASSUME NEW p \in Outs, NEW i \in DOMAIN reports'[p].results
               PROVE  SampleInv(reports[p].results[i])'
    OBVIOUS
  <2> PICK it : it = reports'[p].results[i]
    OBVIOUS
  <2>1. SampleInv(it)
    BY <1>2 DEF DataInv
  <2>2. it.passed => it.evidence = it.response
                     /\ \E c \in Calls : Replies(c, it.request, it.response)'
    BY <2>1, SampleStays
  <2> QED BY <2>2 DEF SampleInv, Replies
<1>3. ASSUME NEW k \in Commands, NEW o \in Outs, Start(k, o) PROVE DataInv'
  <2>1. \A p \in Outs : reports'[p].results = reports[p].results
    <3>1. reports \in [Outs -> Report]
      BY DEF BothInv, FileInv, CaptureTypes
    <3>2. \E text : reports' = [reports EXCEPT ![o] = [reports[o] EXCEPT !.text = text]]
      BY <1>3 DEF Start
    <3> PICK text : reports' = [reports EXCEPT ![o] = [reports[o] EXCEPT !.text = text]]
      BY <3>2
    <3>3. [reports[o] EXCEPT !.text = text].results = reports[o].results
      BY <3>1 DEF Report
    <3> QED BY <3>1, <3>3
  <2> QED BY <1>1, <1>2, <1>3, <2>1 DEF Start
<1>4. ASSUME NEW k \in Commands, Send(k) \/ Abort(k) PROVE DataInv'
  BY <1>1, <1>2, <1>4 DEF Send, Abort
<1>5. ASSUME NEW k \in Commands, Receive(k) PROVE DataInv'
  <2>1. command[k].pc = "waiting" /\ UNCHANGED exports
    BY <1>5 DEF Receive
  <2> PICK sample \in Sample, c \in Calls :
        /\ Record(k, sample) /\ sample.request = command[k].request
        /\ call[c].request = sample.request /\ call[c].status = 200
        /\ sample.response = call[c].artifact /\ sample.response \in Artifact
        /\ sample.evidence = sample.response /\ store[sample.request] = sample.response
    BY <1>5, ReceiveIsRecord DEF BothInv
  <2>2. SampleInv(sample)
    BY DEF SampleInv, Replies
  <2> QED BY <1>1, <2>1, <2>2, FiledSamples
<1>6. ASSUME NEW k \in Commands, Miss(k) PROVE DataInv'
  <2>1. command[k].pc = "waiting" /\ UNCHANGED exports
    BY <1>6 DEF Miss
  <2> PICK sample \in Sample :
        Record(k, sample) /\ sample.request = command[k].request /\ ~sample.passed
    BY <1>6, MissIsRecord DEF BothInv
  <2>2. SampleInv(sample)
    BY DEF SampleInv
  <2> QED BY <1>1, <2>1, <2>2, FiledSamples
<1>7. ASSUME NEW x \in Exports, NEW o \in Outs, Export(x, o) PROVE DataInv'
  BY <1>7, ExportKeeps
<1>8. ASSUME OtherClient \/ UNCHANGED captureVars PROVE DataInv'
  BY <1>1, <1>2, <1>8 DEF OtherClient, captureVars
<1> QED BY <1>3, <1>4, <1>5, <1>6, <1>7, <1>8 DEF CaptureNext

LEMMA DataInitInv == CaptureInit => DataInv
<1> SUFFICES ASSUME CaptureInit PROVE DataInv
  OBVIOUS
<1>1. \A o \in Outs : DOMAIN reports[o].results = {}
  BY DEF CaptureInit, NoReport
<1>2. exports = [x \in Exports |-> NoExport] /\ NoExport.text = "none"
  BY DEF CaptureInit, NoExport
<1> QED BY <1>1, <1>2 DEF DataInv

LEMMA DataIsAnswers == DataInv => ExportedRowsAreAnswers
<1> SUFFICES ASSUME DataInv, NEW x \in Exports, exports[x].text = "whole", NEW i \in CaseIds
             PROVE  LET row == exports[x].rows[i]
                    IN  /\ posted[row.request] = [out |-> exports[x].out, at |-> i]
                        /\ \E c \in Calls :
                             LET a == call[c].artifact
                             IN  /\ call[c].request = row.request /\ call[c].status = 200
                                 /\ a.subject = Cases[i] /\ a.deployment = Prepared
                                 /\ row.answer = a.answer
                                 /\ row.passages = [p \in a.evidence |-> a.results[p]]
                                 /\ store[row.request] = a
  BY DEF ExportedRowsAreAnswers
<1>1. RowInv(exports[x].rows[i], exports[x].out, i)
  BY DEF DataInv
<1> QED BY <1>1 DEF RowInv, MadeOf, Replies

\* What the judge will score is what the deployed pipeline did: a row passes
\* export's checks only if its answer was read from an invocation's reply and
\* from the bucket, and neither ever changes.
THEOREM RowsAreAnswers == CaptureSpec => []ExportedRowsAreAnswers
<1>1. CaptureInit => DataInv
  BY DataInitInv
<1>2. BothInv /\ DataInv /\ [CaptureNext]_<<queryVars, captureVars>> => DataInv'
  BY DataStepKeeps
<1> QED BY <1>1, <1>2, CaptureInvariant, DataIsAnswers, PTL DEF CaptureSpec
=============================================================================
