--------------------------- MODULE MCApplication ---------------------------
(* Small instances of the journey for TLC. *)
EXTENDS JourneyProperties, TLC

\* As in the test fixtures each customer has a policy; one has a second
\* policy that does not cover the vehicle.
MCPolicies == {"policy_a", "policy_b", "policy_c"}
MCVehicles == {"vehicle_a"}
MCVehicleHolder == [v \in MCVehicles |-> "alice"]
MCVehiclePolicy == [v \in MCVehicles |-> "policy_a"]

\* One customer who holds every policy, or two.
Alice == {"alice"}
AliceHolds == [p \in MCPolicies |-> "alice"]
AliceAndBob == {"alice", "bob"}
BobHoldsB == [p \in MCPolicies |-> IF p = "policy_b" THEN "bob" ELSE "alice"]

Say(v) == [value |-> v, confirmed |-> TRUE, conflicting |-> FALSE]
Guess(v) == [value |-> v, confirmed |-> FALSE, conflicting |-> FALSE]

Full(injury) == [f \in Fields |-> CASE f = "policy_ref" -> Say("policy_a")
                                    [] f = "vehicle_ref" -> Say("vehicle_a")
                                    [] f = "injury_reported" -> Say(injury)
                                    [] f = "drivable" -> Say("yes")]
Only(f, report) == [NoReports EXCEPT ![f] = report]

Msg(intent, reports) == [NoInput EXCEPT !.intent = intent, !.reports = reports]
Question(known) == [Msg("service", NoReports) EXCEPT !.known = known]
Policy(p) == [Msg("policy_status", NoReports) EXCEPT !.policy = p]
Text(trigger) == [Msg("auto", NoReports) EXCEPT !.trigger = trigger]
Help0 == Msg("employee_help", NoReports)
Intake(injury) == Msg("intake", Full(injury))

\* Submission: every kind of message, before, between and after the attempts.
JourneyInputs ==
  {Intake("no"), Msg("intake", Only("policy_ref", Say("policy_b"))),
   Msg("intake", Only("policy_ref", Say("policy_c"))), Msg("intake", NoReports),
   Question(TRUE), Question(FALSE), Policy("policy_a"), Policy("policy_b"),
   Msg("claim_status", NoReports), Text(TRUE), Text(FALSE), Help0}
JourneyReadings ==
  {Msg("intake", Only("drivable", Guess("no"))),
   Msg("intake", Only("policy_ref", Guess("unknown"))), Policy("policy_b"),
   Msg("claim_status", NoReports), Msg("intake", NoReports), Question(TRUE),
   [Question(FALSE) EXCEPT !.reports = Only("drivable", Guess("no"))]}

\* Review: everything an employee may have to decide about.
ReviewInputs == {Intake("no"), Text(TRUE), Help0}
ReviewReadings == {Msg("intake", Only("injury_reported", Guess("yes")))}

\* Liveness: tasks that wait, fail to be understood, submit and ask for help.
WorkInputs == {Intake("no"), Msg("intake", NoReports), Text(FALSE), Help0}
WorkReadings == {Msg("intake", Only("drivable", Guess("no")))}

MCSymmetry == Permutations(MessageIds) \cup Permutations(DecisionIds) \cup Permutations(ActionIds)
=============================================================================
