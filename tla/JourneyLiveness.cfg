\* Two conversations and one worker that keeps being run.
SPECIFICATION FairSpec
CONSTANTS
  Conversations = {c1, c2}
  Customers <- Alice
  PolicyHolder <- AliceHolds
  MessageIds = {m1, m2}
  DecisionIds = {}
  ActionIds = {a1, a2}
  RequestIds = {}
  Policies <- MCPolicies
  Vehicles <- MCVehicles
  VehicleHolder <- MCVehicleHolder
  VehiclePolicy <- MCVehiclePolicy
  Teams = {"priority_claims", "auto_claims"}
  UrgentTeam = "priority_claims"
  RoutineTeam = "auto_claims"
  MessageInputs <- WorkInputs
  Interpretations <- WorkReadings
PROPERTIES
  AcceptedIsProcessed
  UnknownIsSettled
CHECK_DEADLOCK FALSE
