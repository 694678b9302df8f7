---------------------------- MODULE JudgeSummary ----------------------------
(***************************************************************************)
(* summarize: the loop that turns the downloaded result records into the   *)
(* scores of the six cases.  Records come in any order and in any number   *)
(* of files, one record may hold the scores of several metrics, and some   *)
(* may be missing, invalid, unknown or there twice.                        *)
(***************************************************************************)
EXTENDS Naturals, Sequences, FiniteSets

CONSTANTS
  RowCount, NoRow,     \* the dataset's rows; a record's input that is none of them
  Builtins, Custom,    \* the metrics, and a name that is none
  NoMetric,
  MaxRecords, MaxItems \* bounds on the records and on the scores in each

ASSUME SummaryAssumption ==
  /\ RowCount \in Nat /\ NoRow \notin 1..RowCount /\ NoMetric \notin Builtins \cup {Custom}
  /\ MaxRecords \in Nat /\ MaxItems \in Nat

VARIABLES
  records,  \* what was downloaded
  at,       \* the record and the score in it that the loop has come to
  scores, seen, issues,
  outcome   \* "running", "raised" or "done"

vars == <<records, at, scores, seen, issues, outcome>>

-----------------------------------------------------------------------------

Rows == 1..RowCount
Metrics == Builtins \cup {Custom}

\* Scores: 0 and 1, a number between them, and none (null, NaN, text).
Values == {"pass", "between", "none"}
NoScore == "none"

Items == [metric: Metrics, value: Values] \cup {[metric |-> NoMetric, value |-> "pass"]}
Lists == UNION {[1..n -> Items] : n \in 0..MaxItems}
Records == [row: Rows, items: Lists] \cup {[row |-> NoRow, items |-> <<>>]}

\* Mutant: the custom metric may have any number.
ValidNumber(item) == item.value # "none"

\* A finite number, and 0 or 1 for the custom metric.
Valid(item) == item.value # "none" /\ (item.metric = Custom => item.value # "between")

Record == records[at[1]]
Item == Record.items[at[2]]

\* Mutant: the first record is the first row's, and so on.
RowInPlace == IF at[1] \in Rows THEN at[1] ELSE Record.row

\* The row that a record repeats.
Row == Record.row

Recognized == Item.metric \in Metrics
Repeated == <<Row, Item.metric>> \in seen

\* A record that is no row's, or has no scores, is an issue.
TakeRecord ==
  /\ outcome = "running" /\ at[1] <= Len(records) /\ at[2] = 0
  /\ IF Row = NoRow \/ Record.items = <<>>
     THEN at' = <<at[1] + 1, 0>> /\ issues' = TRUE
     ELSE at' = <<at[1], 1>> /\ UNCHANGED issues
  /\ UNCHANGED <<records, scores, seen, outcome>>

\* A score that is no metric's or not valid is an issue; the others are kept.
TakeItem ==
  /\ outcome = "running" /\ at[2] > 0 /\ ~Repeated
  /\ at' = IF at[2] < Len(Record.items) THEN <<at[1], at[2] + 1>> ELSE <<at[1] + 1, 0>>
  /\ seen' = IF Recognized THEN seen \cup {<<Row, Item.metric>>} ELSE seen
  /\ IF Recognized /\ Valid(Item)
     THEN scores' = [scores EXCEPT ![Row][Item.metric] = Item.value] /\ UNCHANGED issues
     ELSE issues' = TRUE /\ UNCHANGED scores
  /\ UNCHANGED <<records, outcome>>

\* A second score for a pair raises.
Raise ==
  /\ outcome = "running" /\ at[2] > 0 /\ Repeated
  /\ outcome' = "raised"
  /\ UNCHANGED <<records, at, scores, seen, issues>>

Finish ==
  /\ outcome = "running" /\ at = <<Len(records) + 1, 0>>
  /\ outcome' = "done"
  /\ UNCHANGED <<records, at, scores, seen, issues>>

\* scores_complete.
Complete == ~issues /\ \A r \in Rows, m \in Metrics : scores[r][m] # NoScore

-----------------------------------------------------------------------------

Init ==
  /\ \E n \in 0..MaxRecords : records \in [1..n -> Records]
  /\ at = <<1, 0>>
  /\ scores = [r \in Rows |-> [m \in Metrics |-> NoScore]]
  /\ seen = {} /\ issues = FALSE
  /\ outcome = "running"

Next == TakeRecord \/ TakeItem \/ Raise \/ Finish

Spec == Init /\ [][Next]_vars

-----------------------------------------------------------------------------
(* What was downloaded, without regard to its order. *)

Entries == {e \in (1..MaxRecords) \X (1..MaxItems) :
              e[1] <= Len(records) /\ e[2] <= Len(records[e[1]].items)}
Of(r, m) == {e \in Entries : records[e[1]].row = r /\ records[e[1]].items[e[2]].metric = m}
At(e) == records[e[1]].items[e[2]]

Duplicated == \E r \in Rows, m \in Metrics : Cardinality(Of(r, m)) > 1

\* The scores depend on the records and not on their order: a case has for a
\* metric the one valid score that was downloaded for it, or none; and the loop
\* raises exactly on two for one pair, in whatever records and places they are
\* ("Duplicate case/metric results fail explicitly").
ScoresAreAsDownloaded ==
  /\ outcome = "raised" => Duplicated
  /\ outcome = "done" =>
       /\ ~Duplicated
       /\ \A r \in Rows, m \in Metrics :
            scores[r][m] = IF \E e \in Of(r, m) : Valid(At(e))
                           THEN (CHOOSE v \in Values : \E e \in Of(r, m) : At(e).value = v)
                           ELSE NoScore

\* "Missing results remain incomplete": complete means that every case has a
\* number for every metric, 0 or 1 for the custom one, and nothing was unknown.
CompleteIsExact ==
  outcome = "done" =>
    (Complete <=>
       /\ \A i \in 1..Len(records) : records[i].row # NoRow /\ records[i].items # <<>>
       /\ \A e \in Entries : At(e).metric # NoMetric
       /\ \A r \in Rows, m \in Metrics :
            \E e \in Of(r, m) : At(e).value = "pass" \/ (At(e).value = "between" /\ m # Custom))
=============================================================================
