\* One conversation: every review, decided, reopened, and decided across crashes.
SPECIFICATION Spec
CONSTANTS
  Conversations = {c1}
  Customers <- Alice
  PolicyHolder <- AliceHolds
  MessageIds = {m1, m2}
  DecisionIds = {d1, d2}
  ActionIds = {a1}
  RequestIds = {}
  Policies <- MCPolicies
  Vehicles <- MCVehicles
  VehicleHolder <- MCVehicleHolder
  VehiclePolicy <- MCVehiclePolicy
  Teams = {"priority_claims", "auto_claims"}
  UrgentTeam = "priority_claims"
  RoutineTeam = "auto_claims"
  MessageInputs <- ReviewInputs
  Interpretations <- ReviewReadings
SYMMETRY MCSymmetry
INVARIANTS
  PendingReviewIsCurrent
  UrgencyIsReviewed
  TriageIsCurrent
  UrgencyFloor
  CheckpointMatchesDecision
  HelpAndSubmissionCanBeReleased
CHECK_DEADLOCK FALSE
