\* One invocation of a Lambda of ten seconds, which Terraform allows.
SPECIFICATION CaptureSpec
CONSTANTS
  Calls = {c1}
  Requests = {r1, r2}
  NoRequest = NoRequest
  Subjects = {"deductible", "exclusion"}
  NoSubject = NoSubject
  ScopeOf <- MCScopeOf
  Scopes = {"one_auto", "two_auto"}
  NoScope = NoScope
  Documents = {"policy_one", "policy_two"}
  NoDocument = NoDocument
  ResultCount = 2
  MaxPassage = 2
  MaxContext = 2
  Retrievals <- MCRetrievals
  Answers = {"amount", "", "insufficient"}
  Blank = ""
  Insufficient = "insufficient"
  Drafts <- MCDrafts
  Deployments = {"zip_one", "zip_two"}
  CaptureOn = {"zip_one", "zip_two"}
  Lifetime = 20
  QueryDeadline = 16
  Durations = {0, 14}
  Commands = {k1}
  Outs = {o1}
  NoOut = NoOut
  Exports = {x1}
  CaseCount = 2
  Cases <- MCCases
  Supported = {"deductible"}
  RightAnswers <- MCRight
  Allowed <- MCAllowed
  Prepared = "zip_one"
  OtherEvents <- MCOtherEvents
SYMMETRY Symmetry
INVARIANTS
  DeadlineIsEnforced
CHECK_DEADLOCK FALSE
