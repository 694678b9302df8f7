----------------------------- MODULE AutoIntake -----------------------------
(***************************************************************************)
(* The pure rules of the auto intake: the facts of a draft, what is still  *)
(* missing, the urgency screen, the planning graph and the validation the  *)
(* insurance core applies.  Nothing here has state.                        *)
(*                                                                         *)
(* Of the eight AUTO_FIELDS one field of each behaviour is kept: the two   *)
(* status fields that trigger urgency, and two references that the core    *)
(* authorizes alone and jointly.  Free text behaves as a reference every   *)
(* owner may use, and is left out.                                         *)
(***************************************************************************)
EXTENDS Integers, FiniteSets

CONSTANTS
  Customers,      \* authenticated subjects with the role "customer"
  MessageIds,     \* client-chosen message ids
  Policies,       \* policy references of the core's fixtures
  Vehicles,       \* vehicle references of the core's fixtures
  PolicyHolder,   \* the owner of each policy
  VehicleHolder,  \* the owner of each vehicle
  VehiclePolicy,  \* the policy that covers each vehicle
  Teams,          \* the teams of the catalog
  UrgentTeam,     \* routing["urgent"]
  RoutineTeam     \* routing["routine"]

ASSUME FixtureAssumption ==
  /\ PolicyHolder \in [Policies -> Customers]
  /\ VehicleHolder \in [Vehicles -> Customers]
  /\ VehiclePolicy \in [Vehicles -> Policies]

ASSUME CatalogAssumption ==
  /\ UrgentTeam \in Teams
  /\ RoutineTeam \in Teams

-----------------------------------------------------------------------------
(* Facts.  A field without a fact holds NoFact. *)

Absent == "absent"
StatusFields == {"injury_reported", "drivable"}
Fields == StatusFields \cup {"policy_ref", "vehicle_ref"}
ReportedStatus == {"yes", "no", "unknown"}
Values == Policies \cup Vehicles \cup ReportedStatus \cup {Absent}
NoMessage == "no_message"
Sources == MessageIds \cup {"preauth_status", NoMessage}

Fact == [value: Values, source: Sources, confirmed: BOOLEAN, conflicting: BOOLEAN]
FactMap == [Fields -> Fact]

NoFact == [value |-> Absent, source |-> NoMessage, confirmed |-> FALSE, conflicting |-> FALSE]
NoFacts == [f \in Fields |-> NoFact]

\* What a message says of a field: a fact without its source.
Report == [value: Values, confirmed: BOOLEAN, conflicting: BOOLEAN]
ReportMap == [Fields -> Report]
Silent == [value |-> Absent, confirmed |-> FALSE, conflicting |-> FALSE]
NoReports == [f \in Fields |-> Silent]

Reported(reports) == {f \in Fields : reports[f].value # Absent}

\* The draft's facts after every reported field was updated from one source.
UpdateFacts(facts, reports, source) ==
  [f \in Fields |->
     IF f \in Reported(reports)
     THEN [value |-> reports[f].value, source |-> source,
           confirmed |-> reports[f].confirmed, conflicting |-> reports[f].conflicting]
     ELSE facts[f]]

Missing(facts) ==
  {f \in Fields : \/ facts[f].value = Absent
                  \/ ~facts[f].confirmed
                  \/ facts[f].conflicting}

\* The digest is a SHA-256 of exactly these components, so equal digests
\* stand for equal drafts.
Draft(conversation, state) ==
  [intake |-> conversation, version |-> state.version, facts |-> state.facts]

-----------------------------------------------------------------------------
(* What the core accepts. *)

Authorized(owner, policy) ==
  policy \in Policies /\ PolicyHolder[policy] = owner

ValidDraft(owner, facts) ==
  LET policy  == facts["policy_ref"].value
      vehicle == facts["vehicle_ref"].value
  IN  /\ \A f \in StatusFields : facts[f].value \in ReportedStatus \cup {Absent}
      /\ policy # Absent => Authorized(owner, policy)
      /\ vehicle # Absent => vehicle \in Vehicles /\ VehicleHolder[vehicle] = owner
      /\ policy # Absent /\ vehicle # Absent => VehiclePolicy[vehicle] = policy

-----------------------------------------------------------------------------
(* Urgency and planning. *)

Priorities == {"urgent", "needs_clarification", "routine"}

Triggered(facts) ==
  facts["injury_reported"].value = "yes" \/ facts["drivable"].value = "no"

\* A reported urgent fact acts before the customer confirms it.
Screen(facts) ==
  IF Triggered(facts) THEN "urgent"
  ELSE IF \E f \in StatusFields : \/ facts[f].value \in {Absent, "unknown"}
                                  \/ facts[f].conflicting
       THEN "needs_clarification"
       ELSE "routine"

\* Mutant: the recommendation names the priority instead of its team.
TeamUnrouted(priority) == priority

Team(priority) == IF priority = "urgent" THEN UrgentTeam ELSE RoutineTeam

\* Mutant: a submitted intake is planned like any other.
PlanUnsubmitted(state) ==
  [state EXCEPT !.priority = IF @ = "urgent" THEN @ ELSE Screen(state.facts),
                !.stage = IF Missing(state.facts) = {}
                          THEN "awaiting_confirmation" ELSE "awaiting_customer"]

\* urgency_screening, then triage_recommendation for a submitted intake and
\* intake_validation for any other.  handoff_required is priority = "urgent".
Plan(state) ==
  LET priority == IF state.priority = "urgent" THEN "urgent" ELSE Screen(state.facts)
  IN  IF state.receipt # 0
      THEN [state EXCEPT !.priority = priority,
                         !.stage = "awaiting_review",
                         !.team = Team(priority)]
      ELSE [state EXCEPT !.priority = priority,
                         !.stage = IF Missing(state.facts) = {}
                                   THEN "awaiting_confirmation"
                                   ELSE "awaiting_customer"]
=============================================================================
