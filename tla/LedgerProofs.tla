---------------------------- MODULE LedgerProofs ----------------------------
(***************************************************************************)
(* The reservations never exceed the budget, proved for any number of runs *)
(* and commands and any amounts.                                           *)
(*                                                                         *)
(* The ledger's sum is a fold, whose recursion over a finite set is first  *)
(* shown to be well defined; that one more reservation adds its amount to  *)
(* the sum follows by looking at a smallest set for which it would not.    *)
(***************************************************************************)
EXTENDS BudgetLedger, FiniteSetTheorems, WellFoundedInduction, TLAPS

-----------------------------------------------------------------------------
(* Sums over finite sets. *)

Chosen(s) == CHOOSE x \in s : TRUE

\* One turn of the recursion by which a fold adds up f.
Turn(f, S, sum) ==
  [s \in SUBSET S |-> IF s = {} THEN 0 ELSE f[Chosen(s)] + sum[s \ {Chosen(s)}]]

SumsOf(f, S) == CHOOSE sum : sum = Turn(f, S, sum)

\* A set of numbers that is not empty has a least one.
LEMMA LeastNumber ==
  ASSUME NEW T, T \subseteq Nat, T # {}
  PROVE  \E x \in T : \A y \in T : ~(y < x)
<1> DEFINE R == {pair \in Nat \X Nat : pair[1] < pair[2]}
<1>1. IsWellFoundedOn(R, Nat)
  BY NatLessThanWellFounded DEF OpToRel
<1>2. \E x \in T : \A y \in T : <<y, x>> \notin R
  <2> HIDE DEF R
  <2> QED BY <1>1, WFMin
<1> QED BY <1>2

\* A family of subsets of a finite set has a member that has none below it.
LEMMA SmallestMember ==
  ASSUME NEW S, IsFiniteSet(S), NEW B, B \subseteq SUBSET S, B # {}
  PROVE  \E s \in B : \A t \in B : t \subseteq s => t = s
<1>1. IsWellFoundedOn(StrictSubsetOrdering(S), SUBSET S)
  BY FS_StrictSubsetOrderingWellFounded, FS_FiniteSubsetsOfFinite
<1>2. PICK s \in B : \A t \in B : <<t, s>> \notin StrictSubsetOrdering(S)
  BY <1>1, WFMin
<1> QED BY <1>2 DEF StrictSubsetOrdering

\* The recursion stops on a finite set, so the fold is what it says it is.
LEMMA SumsExist ==
  ASSUME NEW f, NEW S, IsFiniteSet(S)
  PROVE  SumsOf(f, S) = Turn(f, S, SumsOf(f, S))
<1> DEFINE Right(sum, n) ==
             \A s \in SUBSET S : Cardinality(s) <= n => sum[s] = Turn(f, S, sum)[s]
           Wrong == {n \in Nat : \A sum : ~Right(sum, n)}
<1>1. ASSUME NEW s \in SUBSET S, s # {}
      PROVE  /\ Chosen(s) \in s /\ s \ {Chosen(s)} \in SUBSET S
             /\ Cardinality(s) \in Nat /\ Cardinality(s) # 0
             /\ Cardinality(s \ {Chosen(s)}) = Cardinality(s) - 1
  <2>1. Chosen(s) \in s
    BY <1>1 DEF Chosen
  <2>2. IsFiniteSet(s)
    BY FS_Subset
  <2> QED BY <1>1, <2>1, <2>2, FS_RemoveElement, FS_CardinalityType, FS_EmptySet
<1>2. 0 \notin Wrong
  <2> DEFINE zero == [s \in SUBSET S |-> 0]
  <2>1. ASSUME NEW s \in SUBSET S, Cardinality(s) <= 0 PROVE s = {}
    <3> SUFFICES ASSUME s # {} PROVE FALSE
      OBVIOUS
    <3>1. Cardinality(s) \in Nat /\ Cardinality(s) # 0
      BY <1>1
    <3> QED BY <2>1, <3>1
  <2>2. Right(zero, 0)
    BY <2>1 DEF Turn
  <2> QED BY <2>2
<1>3. ASSUME NEW n \in Nat, n \notin Wrong PROVE n + 1 \notin Wrong
  <2>1. PICK sum : Right(sum, n)
    BY <1>3
  <2> DEFINE next == Turn(f, S, sum)
  <2>2. ASSUME NEW s \in SUBSET S, Cardinality(s) <= n + 1
        PROVE  next[s] = Turn(f, S, next)[s]
    <3>1. CASE s = {}
      BY <3>1 DEF Turn
    <3>2. CASE s # {}
      <4>1. Cardinality(s \ {Chosen(s)}) <= n /\ s \ {Chosen(s)} \in SUBSET S
        BY <1>1, <2>2, <3>2
      <4>2. sum[s \ {Chosen(s)}] = next[s \ {Chosen(s)}]
        BY <2>1, <4>1
      <4>3. next[s] = f[Chosen(s)] + sum[s \ {Chosen(s)}]
        BY <3>2 DEF Turn
      <4>4. Turn(f, S, next)[s] = f[Chosen(s)] + next[s \ {Chosen(s)}]
        BY <3>2 DEF Turn
      <4> QED BY <4>2, <4>3, <4>4
    <3> QED BY <3>1, <3>2
  <2>3. Right(next, n + 1)
    BY <2>2
  <2> QED BY <2>3
<1>4. Wrong = {}
  <2> SUFFICES ASSUME Wrong # {} PROVE FALSE
    OBVIOUS
  <2>1. PICK n \in Wrong : \A k \in Wrong : ~(k < n)
    <3> HIDE DEF Right
    <3> QED BY LeastNumber
  <2>2. n \in Nat /\ n # 0
    BY <1>2
  <2>3. n - 1 \in Nat /\ n - 1 \notin Wrong
    <3> HIDE DEF Wrong
    <3> QED BY <2>1, <2>2
  <2> HIDE DEF Wrong
  <2> QED BY <1>3, <2>1, <2>2, <2>3
<1>5. PICK sum : Right(sum, Cardinality(S))
  BY <1>4, FS_CardinalityType
<1>6. \A s \in SUBSET S : sum[s] = Turn(f, S, sum)[s]
  BY <1>5, FS_Subset
<1> DEFINE result == Turn(f, S, sum)
<1>7. Turn(f, S, result) = result
  <2>1. \A s \in SUBSET S : s # {} => result[s \ {Chosen(s)}] = sum[s \ {Chosen(s)}]
    BY <1>1, <1>6
  <2> QED BY <2>1 DEF Turn
<1> HIDE DEF result
<1> QED BY <1>7 DEF SumsOf

\* The recursion of the sums of naturals, and that they are naturals.
LEMMA SumsOfNaturals ==
  ASSUME NEW S, IsFiniteSet(S), NEW f \in [S -> Nat]
  PROVE  /\ SumsOf(f, S)[{}] = 0
         /\ \A s \in SUBSET S : s # {} =>
              /\ Chosen(s) \in s /\ s \ {Chosen(s)} \in SUBSET S
              /\ SumsOf(f, S)[s] = f[Chosen(s)] + SumsOf(f, S)[s \ {Chosen(s)}]
         /\ \A s \in SUBSET S : SumsOf(f, S)[s] \in Nat
<1> DEFINE sum == SumsOf(f, S)
           Wrong == {s \in SUBSET S : sum[s] \notin Nat}
<1>1. sum = Turn(f, S, sum)
  BY SumsExist
<1> HIDE DEF sum
<1>2. sum[{}] = 0
  <2>1. Turn(f, S, sum)[{}] = 0
    BY DEF Turn
  <2> QED BY <1>1, <2>1
<1>3. ASSUME NEW s \in SUBSET S, s # {}
      PROVE  /\ Chosen(s) \in s /\ s \ {Chosen(s)} \in SUBSET S
             /\ sum[s] = f[Chosen(s)] + sum[s \ {Chosen(s)}]
  <2>1. Turn(f, S, sum)[s] = f[Chosen(s)] + sum[s \ {Chosen(s)}]
    BY <1>3 DEF Turn
  <2> QED BY <1>1, <1>3, <2>1 DEF Chosen
<1>4. Wrong = {}
  <2> SUFFICES ASSUME Wrong # {} PROVE FALSE
    OBVIOUS
  <2>1. PICK s \in Wrong : \A t \in Wrong : t \subseteq s => t = s
    <3>1. Wrong \subseteq SUBSET S
      OBVIOUS
    <3> HIDE DEF Wrong
    <3> QED BY <3>1, SmallestMember
  <2>2. s # {}
    BY <1>2
  <2>3. Chosen(s) \in s /\ sum[s] = f[Chosen(s)] + sum[s \ {Chosen(s)}]
    BY <1>3, <2>2
  <2>4. s \ {Chosen(s)} \notin Wrong
    BY <2>1, <2>3
  <2> QED BY <2>3, <2>4
<1> QED BY <1>2, <1>3, <1>4 DEF sum

\* One more amount adds to the sum what it is.
LEMMA SumWithOneMore ==
  ASSUME NEW S, IsFiniteSet(S), NEW f \in [S -> Nat], NEW r \in S, f[r] = 0, NEW n \in Nat
  PROVE  SumsOf([f EXCEPT ![r] = n], S)[S] = SumsOf(f, S)[S] + n
<1> DEFINE h == [f EXCEPT ![r] = n]
           old == SumsOf(f, S)
           new == SumsOf(h, S)
           Wrong == {s \in SUBSET S : new[s] # old[s] + (IF r \in s THEN n ELSE 0)}
<1>1. /\ old[{}] = 0 /\ new[{}] = 0
      /\ \A s \in SUBSET S : s # {} =>
           /\ Chosen(s) \in s /\ s \ {Chosen(s)} \in SUBSET S
           /\ old[s] = f[Chosen(s)] + old[s \ {Chosen(s)}]
           /\ new[s] = h[Chosen(s)] + new[s \ {Chosen(s)}]
      /\ \A s \in SUBSET S : old[s] \in Nat /\ new[s] \in Nat
  <2>1. h \in [S -> Nat]
    OBVIOUS
  <2> HIDE DEF h
  <2> QED BY <2>1, SumsOfNaturals
<1> HIDE DEF old, new
<1>2. Wrong = {}
  <2> SUFFICES ASSUME Wrong # {} PROVE FALSE
    OBVIOUS
  <2>1. PICK s \in Wrong : \A t \in Wrong : t \subseteq s => t = s
    <3>1. Wrong \subseteq SUBSET S
      OBVIOUS
    <3> HIDE DEF Wrong
    <3> QED BY <3>1, SmallestMember
  <2> DEFINE x == Chosen(s)
             rest == s \ {x}
  <2>2. s # {}
    <3> SUFFICES ASSUME s = {} PROVE FALSE
      OBVIOUS
    <3>1. new[s] = 0 /\ old[s] = 0 /\ r \notin s
      BY <1>1
    <3> QED BY <2>1, <3>1
  <2>3. /\ x \in s /\ rest \in SUBSET S
        /\ old[s] = f[x] + old[rest] /\ new[s] = h[x] + new[rest]
        /\ old[rest] \in Nat /\ new[rest] \in Nat /\ x \in S
    BY <1>1, <2>2
  <2> HIDE DEF x
  <2>4. new[rest] = old[rest] + (IF r \in rest THEN n ELSE 0)
    BY <2>1, <2>3
  <2>5. new[s] # old[s] + (IF r \in s THEN n ELSE 0)
    BY <2>1
  <2>6. CASE x = r
    <3>1. h[x] = n /\ f[x] = 0 /\ r \in s /\ r \notin rest
      BY <2>3, <2>6
    <3> HIDE DEF rest
    <3> QED BY <2>3, <2>4, <2>5, <3>1
  <2>7. CASE x # r
    <3>1. h[x] = f[x] /\ f[x] \in Nat /\ (r \in rest <=> r \in s)
      BY <2>3, <2>7
    <3> HIDE DEF rest, h
    <3> QED BY <2>3, <2>4, <2>5, <3>1
  <2> QED BY <2>6, <2>7
<1> QED BY <1>2 DEF old, new

-----------------------------------------------------------------------------
(* The ledger. *)

Tables == [budget: 0..MaxBudget, reserved: [Runs -> 0..MaxBudget]]

LedgerType ==
  /\ prepared \in [Runs -> Estimate]
  /\ ledger \in Tables
  /\ writer \in Procs \cup {NoProc}
  /\ reading \in [Procs -> {NotReading} \cup [run: Runs, tables: Tables]]

\* A preparation costs something, and no more than its budget.
Affordable(r) ==
  prepared[r] # NotPrepared =>
    0 < prepared[r].estimated /\ prepared[r].estimated <= prepared[r].budget

\* A command that has read the tables is the one that may write, so they
\* still are what it has read.
ReadsLatest(p) ==
  reading[p] # NotReading =>
    /\ writer = p /\ reading[p].tables = ledger
    /\ prepared[reading[p].run] # NotPrepared

\* A reservation is of what its run was prepared with.
AsPrepared(r) ==
  ledger.reserved[r] # 0 =>
    /\ ledger.reserved[r] = prepared[r].estimated
    /\ ledger.budget = prepared[r].budget

LedgerInv ==
  /\ \A r \in Runs : Affordable(r) /\ AsPrepared(r)
  /\ \A p \in Procs : ReadsLatest(p)
  /\ ledger.budget # 0 => Used(ledger) <= ledger.budget

\* What is used of a budget is the sum of the reservations; one more adds its
\* amount to it.
LEMMA UsedWithOneMore ==
  ASSUME NEW tables \in Tables, NEW r \in Runs, tables.reserved[r] = 0,
         NEW more, NEW n \in Nat, more.reserved = [tables.reserved EXCEPT ![r] = n]
  PROVE  Used(more) = Used(tables) + n /\ Used(tables) \in Nat
<1> DEFINE f == tables.reserved
<1>1. f \in [Runs -> Nat] /\ DOMAIN f = Runs /\ DOMAIN [f EXCEPT ![r] = n] = Runs
  BY LedgerAssumption DEF Tables
<1>2. ASSUME NEW t PROVE Used(t) = SumsOf(t.reserved, DOMAIN t.reserved)[DOMAIN t.reserved]
  BY DEF Used, FoldFunction, FoldFunctionOnSet, MapThenFoldSet, SumsOf, Turn, Chosen
<1>3. /\ Used(tables) = SumsOf(f, Runs)[Runs]
      /\ Used(more) = SumsOf([f EXCEPT ![r] = n], Runs)[Runs]
  BY <1>1, <1>2
<1>4. SumsOf([f EXCEPT ![r] = n], Runs)[Runs] = SumsOf(f, Runs)[Runs] + n
  BY <1>1, SumWithOneMore, LedgerAssumption
<1>5. SumsOf(f, Runs)[Runs] \in Nat
  <2> HIDE DEF f
  <2> QED BY <1>1, SumsOfNaturals, LedgerAssumption
<1> QED BY <1>3, <1>4, <1>5

\* Every step keeps the types; only the amounts of a preparation are stored.
LEMMA LedgerTypeNext ==
  ASSUME LedgerType, [Next]_vars
  PROVE  LedgerType'
<1>1. ASSUME NEW r \in Runs, Prepare(r) PROVE LedgerType'
  BY <1>1 DEF Prepare, LedgerType
<1>2. ASSUME NEW p \in Procs, NEW r \in Runs, Begin(p, r) PROVE LedgerType'
  BY <1>2 DEF Begin, LedgerType
<1>3. ASSUME NEW p \in Procs, Closes(p)
      PROVE  /\ writer' \in Procs \cup {NoProc}
             /\ reading' \in [Procs -> {NotReading} \cup [run: Runs, tables: Tables]]
  BY <1>3 DEF Closes, LedgerType
<1>4. ASSUME NEW p \in Procs, Commit(p) PROVE LedgerType'
  <2> DEFINE r == reading[p].run
  <2>1. r \in Runs
    BY <1>4 DEF Commit, LedgerType, NotReading
  <2>2. prepared[r].budget \in 0..MaxBudget /\ prepared[r].estimated \in 0..MaxBudget
    BY <2>1 DEF LedgerType, Estimate
  <2>3. ledger' \in Tables
    BY <1>4, <2>1, <2>2 DEF Commit, LedgerType, Tables
  <2> QED BY <1>3, <1>4, <2>3 DEF Commit, LedgerType
<1>5. ASSUME NEW p \in Procs, Rollback(p) PROVE LedgerType'
  BY <1>3, <1>5 DEF Rollback, LedgerType
<1>6. CASE UNCHANGED vars
  BY <1>6 DEF vars, LedgerType
<1> QED
  BY <1>1, <1>2, <1>4, <1>5, <1>6 DEF Next

\* A transaction that ends, in whatever way, leaves no other reader.
LEMMA NobodyReads ==
  ASSUME LedgerType, LedgerInv, NEW p \in Procs, reading[p] # NotReading, Closes(p)
  PROVE  \A q \in Procs : reading'[q] = NotReading
<1>1. ASSUME NEW q \in Procs, q # p PROVE reading[q] = NotReading
  BY <1>1, LedgerAssumption DEF LedgerInv, ReadsLatest
<1> QED BY <1>1 DEF LedgerType, Closes

\* A reservation is decided on the tables as they are when it is committed.
LEMMA CommitFits ==
  ASSUME LedgerType, LedgerInv, NEW p \in Procs, Commit(p)
  PROVE  LedgerInv'
<1> DEFINE r == reading[p].run
           n == prepared[r].estimated
<1>1. /\ r \in Runs /\ reading[p] # NotReading
      /\ Admissible(r, ledger) /\ prepared[r] # NotPrepared
  BY DEF Commit, LedgerType, NotReading, LedgerInv, ReadsLatest
<1>2. /\ ledger'.budget = prepared[r].budget
      /\ ledger'.reserved = [ledger.reserved EXCEPT ![r] = n]
      /\ Closes(p) /\ prepared' = prepared
  BY DEF Commit
<1>3. ledger \in Tables /\ prepared[r] \in Estimate
  BY <1>1 DEF LedgerType
<1> HIDE DEF r
<1>4. n \in Nat /\ prepared[r].budget \in Nat
  BY <1>3, LedgerAssumption DEF Estimate
<1>5. Used(ledger') = Used(ledger) + n /\ Used(ledger) \in Nat
  <2> HIDE DEF n
  <2> QED BY <1>1, <1>2, <1>3, <1>4, UsedWithOneMore DEF Admissible
<1>6. Used(ledger)' <= ledger'.budget
  BY <1>1, <1>2, <1>5 DEF Admissible
<1>7. ASSUME NEW q \in Runs PROVE Affordable(q)' /\ AsPrepared(q)'
  <2>1. Affordable(q)'
    BY <1>2 DEF LedgerInv, Affordable
  <2>2. CASE q = r
    <3>1. ledger'.reserved[q] = n
      BY <1>1, <1>2, <1>3, <2>2 DEF Tables
    <3> QED BY <1>2, <2>1, <2>2, <3>1 DEF AsPrepared
  <2>3. CASE q # r
    <3>1. ledger'.reserved[q] = ledger.reserved[q]
      BY <1>2, <1>3, <2>3 DEF Tables
    <3>2. ASSUME ledger.reserved[q] # 0 PROVE ledger.budget = prepared[r].budget
      <4>1. prepared[q].estimated # 0 /\ ledger.budget = prepared[q].budget
        BY <3>2 DEF LedgerInv, AsPrepared
      <4>2. ledger.budget # 0
        BY <4>1, LedgerAssumption DEF LedgerInv, Affordable, NotPrepared, LedgerType, Estimate
      <4> QED BY <1>1, <4>2 DEF Admissible
    <3> QED BY <1>2, <2>1, <3>1, <3>2 DEF LedgerInv, AsPrepared
  <2> QED BY <2>1, <2>2, <2>3
<1>8. ASSUME NEW q \in Procs PROVE ReadsLatest(q)'
  BY <1>1, <1>2, NobodyReads DEF ReadsLatest
<1> QED BY <1>6, <1>7, <1>8 DEF LedgerInv

\* The invariant of the ledger, for any number of runs and commands.
THEOREM LedgerInvariant == Spec => [](LedgerType /\ LedgerInv)
<1>1. Init => LedgerType /\ LedgerInv
  BY LedgerAssumption
     DEF Init, LedgerType, LedgerInv, Empty, Tables, Estimate, NotPrepared, Affordable, AsPrepared,
         ReadsLatest
<1>2. LedgerType /\ LedgerInv /\ [Next]_vars => LedgerType' /\ LedgerInv'
  <2> SUFFICES ASSUME LedgerType, LedgerInv, [Next]_vars PROVE LedgerType' /\ LedgerInv'
    OBVIOUS
  <2>1. ASSUME NEW r \in Runs, Prepare(r) PROVE LedgerInv'
    <3>1. ledger.reserved[r] = 0
      <4> SUFFICES ASSUME ledger.reserved[r] # 0 PROVE FALSE
        OBVIOUS
      <4>1. ledger.reserved[r] = prepared[r].estimated
        BY DEF LedgerInv, AsPrepared
      <4> QED BY <2>1, <4>1 DEF Prepare, NotPrepared
    <3>2. ASSUME NEW q \in Runs PROVE Affordable(q)' /\ AsPrepared(q)'
      BY <2>1, <3>1 DEF Prepare, LedgerType, LedgerInv, Affordable, AsPrepared
    <3>3. ASSUME NEW p \in Procs PROVE ReadsLatest(p)'
      <4>1. ASSUME reading[p] # NotReading PROVE prepared'[reading[p].run] # NotPrepared
        <5>1. reading[p].run \in Runs /\ prepared[reading[p].run] # NotPrepared
          BY <4>1 DEF LedgerType, LedgerInv, ReadsLatest
        <5> QED BY <2>1, <5>1 DEF Prepare, LedgerType
      <4> QED BY <2>1, <4>1 DEF Prepare, LedgerInv, ReadsLatest
    <3> QED BY <2>1, <3>2, <3>3 DEF Prepare, LedgerInv
  <2>2. ASSUME NEW p \in Procs, NEW r \in Runs, Begin(p, r) PROVE LedgerInv'
    <3>1. ASSUME NEW q \in Procs PROVE ReadsLatest(q)'
      <4>1. q # p => reading[q] = NotReading
        BY <2>2, LedgerAssumption DEF Begin, LedgerInv, ReadsLatest
      <4> QED BY <2>2, <4>1 DEF Begin, LedgerType, ReadsLatest
    <3> QED BY <2>2, <3>1 DEF Begin, LedgerInv, Affordable, AsPrepared
  <2>3. ASSUME NEW p \in Procs, Rollback(p) PROVE LedgerInv'
    <3>1. \A q \in Procs : reading'[q] = NotReading
      BY <2>3, NobodyReads DEF Rollback
    <3> QED BY <2>3, <3>1 DEF Rollback, LedgerInv, Affordable, AsPrepared, ReadsLatest
  <2>4. ASSUME UNCHANGED vars PROVE LedgerInv'
    BY <2>4 DEF vars, LedgerInv, Affordable, AsPrepared, ReadsLatest
  <2> QED
    BY <2>1, <2>2, <2>3, <2>4, LedgerTypeNext, CommitFits DEF Next
<1> QED
  BY <1>1, <1>2, PTL DEF Spec

\* The reserved runs together never exceed the budget each was prepared with,
\* whoever reserves at the same time.
THEOREM BudgetHolds == Spec => []WithinBudget
<1>1. LedgerType /\ LedgerInv => WithinBudget
  <2> SUFFICES ASSUME LedgerType, LedgerInv, NEW r \in Runs, ledger.reserved[r] # 0
               PROVE  /\ ledger.reserved[r] = prepared[r].estimated
                      /\ Used(ledger) <= prepared[r].budget
    BY DEF WithinBudget
  <2>1. ledger.reserved[r] = prepared[r].estimated /\ ledger.budget = prepared[r].budget
    BY DEF LedgerInv, AsPrepared
  <2>2. ledger.budget # 0
    BY <2>1, LedgerAssumption DEF LedgerInv, Affordable, NotPrepared, LedgerType, Estimate
  <2> QED BY <2>1, <2>2 DEF LedgerInv
<1> QED
  BY <1>1, LedgerInvariant, PTL
=============================================================================
