\* Two capture commands, a baseline of two cases, and a Lambda of 25 seconds.
SPECIFICATION CaptureSpec
CONSTANTS
  Calls = {c1, c2}
  Requests = {r1, r2, r3}
  NoRequest = NoRequest
  Subjects = {"deductible", "exclusion"}
  NoSubject = NoSubject
  ScopeOf <- MCScopeOf
  Scopes = {"one_auto", "two_auto"}
  NoScope = NoScope
  Documents = {"policy_one", "policy_two"}
  NoDocument = NoDocument
  ResultCount = 2
  MaxPassage = 2
  MaxContext = 2
  Retrievals <- MCRetrievals
  Answers = {"amount", "", "insufficient"}
  Blank = ""
  Insufficient = "insufficient"
  Drafts <- MCDrafts
  Deployments = {"zip_one", "zip_two"}
  CaptureOn = {"zip_one", "zip_two"}
  Lifetime = 50
  QueryDeadline = 46
  Durations = {4, 15, 24}
  Commands = {k1, k2}
  Outs = {o1}
  NoOut = NoOut
  Exports = {x1}
  CaseCount = 2
  Cases <- MCCases
  Supported = {"deductible"}
  RightAnswers <- MCRight
  Allowed <- MCAllowed
  Prepared = "zip_one"
  OtherEvents <- MCOtherEvents
SYMMETRY Symmetry
INVARIANTS
  TypeOK
  AnswersAreBacked
  DeadlineIsEnforced
  ExportedRowsAreAnswers
  EachCaseIsSentOnce
  PaidRequestsAreOnFile
CHECK_DEADLOCK FALSE
