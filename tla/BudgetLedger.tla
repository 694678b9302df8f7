---------------------------- MODULE BudgetLedger ----------------------------
(***************************************************************************)
(* The ledger of the judge evaluation's budget: one SQLite file in which   *)
(* operators reserve what their prepared runs may cost.  A reservation is  *)
(* a transaction that reads, decides and inserts; its process may die in   *)
(* it.  BEGIN IMMEDIATE lets one transaction write at a time.              *)
(***************************************************************************)
EXTENDS Naturals, FiniteSets, Functions

CONSTANTS
  Runs, NoRun,
  Procs, NoProc,  \* reserve commands at a time
  MaxBudget       \* amounts are counted in units of which a budget has few

ASSUME LedgerAssumption ==
  /\ NoRun \notin Runs /\ IsFiniteSet(Runs)
  /\ NoProc \notin Procs /\ MaxBudget \in Nat \ {0}

VARIABLES
  prepared,  \* each run's estimate and budget; 0 while it is not prepared
  ledger,    \* the committed tables: the budget and the reservations, 0 for none
  writer,    \* the command whose transaction is open
  reading    \* the run a command reserves for, and the tables as it reads them

vars == <<prepared, ledger, writer, reading>>

-----------------------------------------------------------------------------

Estimate == [estimated: 0..MaxBudget, budget: 0..MaxBudget]
NotPrepared == [estimated |-> 0, budget |-> 0]

Empty == [budget |-> 0, reserved |-> [r \in Runs |-> 0]]

NotReading == [run |-> NoRun, tables |-> Empty]

\* prepare: an estimate that exceeds its budget is refused.
Prepare(r) ==
  /\ prepared[r] = NotPrepared
  /\ \E estimate \in Estimate :
       /\ 0 < estimate.estimated /\ estimate.estimated <= estimate.budget
       /\ prepared' = [prepared EXCEPT ![r] = estimate]
  /\ UNCHANGED <<ledger, writer, reading>>

\* Mutant: the tables are read before the transaction begins.
BeginLate(p, r) ==
  /\ reading[p] = NotReading /\ prepared[r] # NotPrepared
  /\ writer' = p
  /\ reading' = [reading EXCEPT ![p] = [run |-> r, tables |-> ledger]]
  /\ UNCHANGED <<prepared, ledger>>

\* BEGIN IMMEDIATE waits until no other transaction is open.
Begin(p, r) ==
  /\ writer = NoProc /\ reading[p] = NotReading /\ prepared[r] # NotPrepared
  /\ writer' = p
  /\ reading' = [reading EXCEPT ![p] = [run |-> r, tables |-> ledger]]
  /\ UNCHANGED <<prepared, ledger>>

Used(tables) == FoldFunction(+, 0, tables.reserved)

\* The budget is the first reservation's, what is left of it is enough, and
\* the run is not in the table.
Admissible(r, tables) ==
  /\ tables.budget \in {0, prepared[r].budget}
  /\ Used(tables) + prepared[r].estimated <= prepared[r].budget
  /\ tables.reserved[r] = 0

\* closing(connection): the transaction ends with the command, however it ends.
Closes(p) ==
  /\ writer' = NoProc
  /\ reading' = [reading EXCEPT ![p] = NotReading]

Commit(p) ==
  LET r == reading[p].run
  IN  /\ r # NoRun /\ Admissible(r, reading[p].tables)
      /\ ledger' = [budget |-> prepared[r].budget,
                    reserved |-> [ledger.reserved EXCEPT ![r] = prepared[r].estimated]]
      /\ Closes(p)
      /\ UNCHANGED prepared

\* The reservation is refused, or its process dies.
Rollback(p) ==
  /\ reading[p] # NotReading
  /\ Closes(p)
  /\ UNCHANGED <<prepared, ledger>>

-----------------------------------------------------------------------------

Init ==
  /\ prepared = [r \in Runs |-> NotPrepared]
  /\ ledger = Empty
  /\ writer = NoProc
  /\ reading = [p \in Procs |-> NotReading]

Next ==
  \/ \E r \in Runs : Prepare(r)
  \/ \E p \in Procs : Commit(p) \/ Rollback(p) \/ \E r \in Runs : Begin(p, r)

Spec == Init /\ [][Next]_vars

-----------------------------------------------------------------------------

\* What the reserved runs together may cost is within the budget that each
\* of them was prepared with, whoever reserves at the same time and whatever
\* budget later preparations bring ("shared ledger budget cannot change").
WithinBudget ==
  \A r \in Runs : ledger.reserved[r] # 0 =>
    /\ ledger.reserved[r] = prepared[r].estimated
    /\ Used(ledger) <= prepared[r].budget
=============================================================================
