---------------------------- MODULE JudgePayment ----------------------------
(***************************************************************************)
(* What submitting a prepared run promises, without commands, files, keys  *)
(* or lost replies: its request is recorded for good, one job is then paid *)
(* for, and what is learned of the run is that job.                        *)
(***************************************************************************)
CONSTANTS Runs, Jobs

VARIABLES
  requested,  \* the runs whose request is on file
  paid,       \* the jobs paid for each run (a set of at most one)
  known       \* those whose ARN is on file

payment == <<requested, paid, known>>

Init ==
  /\ requested = {}
  /\ paid = [r \in Runs |-> {}]
  /\ known = [r \in Runs |-> {}]

Request(r) ==
  /\ r \notin requested
  /\ requested' = requested \cup {r}
  /\ UNCHANGED <<paid, known>>

\* A job is paid for once, for a request on file, and is no other run's.
Pay(r) ==
  /\ r \in requested /\ paid[r] = {}
  /\ \E j \in Jobs :
       /\ \A q \in Runs : j \notin paid[q]
       /\ paid' = [paid EXCEPT ![r] = {j}]
  /\ UNCHANGED <<requested, known>>

\* The ARN is on file, for good.
Learn(r) ==
  /\ paid[r] # {} /\ known[r] = {}
  /\ known' = [known EXCEPT ![r] = paid[r]]
  /\ UNCHANGED <<requested, paid>>

Next == \E r \in Runs : Request(r) \/ Pay(r) \/ Learn(r)

Spec == Init /\ [][Next]_payment
=============================================================================
