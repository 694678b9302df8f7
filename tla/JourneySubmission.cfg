\* Two customers, hand-over from help, four messages of every kind, and a
\* submission whose replies and commits are lost.
SPECIFICATION Spec
CONSTANTS
  Conversations = {c1}
  Customers <- AliceAndBob
  PolicyHolder <- BobHoldsB
  MessageIds = {m1, m2, m3, m4}
  DecisionIds = {}
  ActionIds = {a1, a2}
  RequestIds = {r1}
  Policies <- MCPolicies
  Vehicles <- MCVehicles
  VehicleHolder <- MCVehicleHolder
  VehiclePolicy <- MCVehiclePolicy
  Teams = {"priority_claims", "auto_claims"}
  UrgentTeam = "priority_claims"
  RoutineTeam = "auto_claims"
  MessageInputs <- JourneyInputs
  Interpretations <- JourneyReadings
SYMMETRY MCSymmetry
INVARIANTS
  TypeOK
  OneClaimPerConversation
  ClaimMatchesIntent
  ReceiptIsBacked
  UnknownOutcomeIsPursued
  AcceptedNeverFails
  ConfirmationIsOffered
PROPERTIES
  ImplementsSubmission
CHECK_DEADLOCK FALSE
