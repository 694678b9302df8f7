--------------------------- MODULE SummaryProofs ---------------------------
(***************************************************************************)
(* What summarize reports depends on what was downloaded and not on its    *)
(* order: the scores and the completeness of a summary, proved for any     *)
(* number of cases, metrics, records and scores in a record.               *)
(*                                                                         *)
(* The invariant says of the entries that the loop has taken what the      *)
(* properties say of all entries.                                          *)
(***************************************************************************)
EXTENDS JudgeSummary, FiniteSetTheorems, SequenceTheorems, TLAPS

-----------------------------------------------------------------------------
(* The invariant. *)

SummaryType ==
  /\ \E n \in 0..MaxRecords : records \in [1..n -> Records]
  /\ at \in (1..(Len(records) + 1)) \X (0..MaxItems)
  /\ scores \in [Rows -> [Metrics -> Values]]
  /\ seen \subseteq Rows \X Metrics
  /\ issues \in BOOLEAN
  /\ outcome \in {"running", "raised", "done"}

\* The loop is between two records, or at a score of a record that is a row's.
Place ==
  at[2] > 0 =>
    at[1] <= Len(records) /\ Row \in Rows /\ at[2] <= Len(Record.items)

\* The entries the loop has taken.
Taken == {e \in Entries : e[1] < at[1] \/ (e[1] = at[1] /\ e[2] < at[2])}
TakenOf(r, m) == Taken \cap Of(r, m)

\* The pairs that were seen are those taken, each once.
SeenIsTaken ==
  \A r \in Rows, m \in Metrics :
    /\ <<r, m>> \in seen <=> TakenOf(r, m) # {}
    /\ \A d, e \in TakenOf(r, m) : d = e

\* A score is that of the one entry taken for its pair, if it is valid.
ScoresAreTaken ==
  \A r \in Rows, m \in Metrics :
    /\ \A e \in TakenOf(r, m) : Valid(At(e)) => scores[r][m] = At(e).value
    /\ scores[r][m] # NoScore => \E e \in TakenOf(r, m) : Valid(At(e))

\* Something was an issue exactly when something taken is one.
Empty(i) == records[i].row = NoRow \/ records[i].items = <<>>
Bad(e) == At(e).metric = NoMetric \/ ~Valid(At(e))
IssuesAreTaken ==
  issues <=> \/ \E i \in 1..Len(records) : i < at[1] /\ Empty(i)
             \/ \E e \in Taken : Bad(e)

\* The loop ends at a repeated pair, or after the last record.
Ends ==
  /\ outcome = "raised" => at[2] > 0 /\ Repeated
  /\ outcome = "done" => at = <<Len(records) + 1, 0>>

SummaryInv == SummaryType /\ Place /\ SeenIsTaken /\ ScoresAreTaken /\ IssuesAreTaken /\ Ends

-----------------------------------------------------------------------------

\* What a downloaded record is, wherever it stands.
LEMMA RecordTypes ==
  ASSUME SummaryType
  PROVE  /\ Len(records) \in 0..MaxRecords
         /\ \A i \in 1..Len(records) :
              /\ records[i].row \in Rows \cup {NoRow}
              /\ Len(records[i].items) \in 0..MaxItems
              /\ records[i].items = <<>> <=> Len(records[i].items) = 0
              /\ records[i].row = NoRow => records[i].items = <<>>
              /\ \A k \in 1..Len(records[i].items) :
                   /\ records[i].items[k] \in Items
                   /\ records[i].items[k].metric \in Metrics \cup {NoMetric}
                   /\ records[i].items[k].value \in Values
<1>1. PICK n \in 0..MaxRecords : records \in [1..n -> Records]
  BY DEF SummaryType
<1>2. n \in Nat /\ Len(records) = n
  <2>1. records \in Seq(Records)
    BY <1>1, SeqDef, SummaryAssumption
  <2> QED BY <1>1, <2>1, LenProperties, SummaryAssumption
<1>3. ASSUME NEW items \in Lists
      PROVE  /\ Len(items) \in 0..MaxItems
             /\ items = <<>> <=> Len(items) = 0
             /\ \A k \in 1..Len(items) : items[k] \in Items
  <2>1. PICK m \in 0..MaxItems : items \in [1..m -> Items]
    BY DEF Lists
  <2>2. items \in Seq(Items)
    BY <2>1, SeqDef, SummaryAssumption
  <2>3. Len(items) = m
    BY <2>1, <2>2, LenProperties, SummaryAssumption
  <2> QED BY <2>1, <2>2, <2>3, EmptySeq
<1>4. ASSUME NEW item \in Items
      PROVE  item.metric \in Metrics \cup {NoMetric} /\ item.value \in Values
  BY DEF Items, Values
<1>5. ASSUME NEW record \in Records
      PROVE  /\ record.row \in Rows \cup {NoRow} /\ record.items \in Lists
             /\ record.row = NoRow => record.items = <<>>
  <2>1. <<>> \in Lists
    <3>1. <<>> \in [1..0 -> Items]
      OBVIOUS
    <3> QED BY <3>1, SummaryAssumption DEF Lists
  <2> QED BY <2>1, SummaryAssumption DEF Records, Rows
<1>6. \A i \in 1..Len(records) : records[i] \in Records
  BY <1>1, <1>2
<1> QED BY <1>2, <1>3, <1>4, <1>5, <1>6

\* Every entry is a score of a row's record.
LEMMA EntryTypes ==
  ASSUME SummaryType, NEW e \in Entries
  PROVE  /\ e[1] \in 1..Len(records) /\ e[2] \in 1..Len(records[e[1]].items)
         /\ e = <<e[1], e[2]>>
         /\ records[e[1]].row \in Rows /\ records[e[1]].items # <<>>
         /\ At(e).metric \in Metrics \cup {NoMetric} /\ At(e).value \in Values
<1>1. /\ e[1] \in 1..MaxRecords /\ e[2] \in 1..MaxItems /\ e = <<e[1], e[2]>>
      /\ e[1] <= Len(records) /\ e[2] <= Len(records[e[1]].items)
  BY DEF Entries
<1>2. e[1] \in 1..Len(records)
  BY <1>1, RecordTypes, SummaryAssumption
<1>3. e[2] \in 1..Len(records[e[1]].items)
  BY <1>1, <1>2, RecordTypes, SummaryAssumption
<1>4. records[e[1]].items # <<>>
  BY <1>2, <1>3, RecordTypes
<1> QED BY <1>1, <1>2, <1>3, <1>4, RecordTypes DEF At

\* The place inside a record is an entry, and not yet taken.
LEMMA PlaceIsEntry ==
  ASSUME SummaryType, Place, at[2] > 0
  PROVE  /\ at \in Entries /\ at \notin Taken
         /\ At(at) = Item /\ Row \in Rows /\ at = <<at[1], at[2]>>
         /\ at[1] \in 1..Len(records) /\ at[2] \in 1..Len(Record.items)
<1>1. /\ at[1] \in 1..(Len(records) + 1) /\ at[2] \in 0..MaxItems /\ at = <<at[1], at[2]>>
      /\ at[1] <= Len(records) /\ Row \in Rows /\ at[2] <= Len(Record.items)
  BY DEF SummaryType, Place
<1>2. at[1] \in 1..Len(records) /\ Len(records) \in 0..MaxRecords
  BY <1>1, RecordTypes, SummaryAssumption
<1>3. at[2] \in 1..Len(Record.items) /\ Len(Record.items) \in 0..MaxItems
  BY <1>1, <1>2, RecordTypes, SummaryAssumption DEF Record
<1>4. at \in Entries
  <2>1. at[1] \in 1..MaxRecords /\ at[2] \in 1..MaxItems
    BY <1>2, <1>3, SummaryAssumption
  <2> QED BY <1>1, <1>2, <1>3, <2>1 DEF Entries, Record
<1>5. at \notin Taken
  BY <1>1 DEF Taken
<1> QED BY <1>1, <1>2, <1>3, <1>4, <1>5 DEF At, Item, Record

\* Going to the next record, or into this one, takes no entry.
LEMMA TakeRecordTakesNone ==
  ASSUME SummaryType, Place, TakeRecord
  PROVE  Taken' = Taken
<1>1. /\ at[2] = 0 /\ at[1] \in 1..Len(records) /\ Entries' = Entries
      /\ at[1] \in Nat
  BY RecordTypes DEF TakeRecord, SummaryType, Entries
<1>2. ASSUME NEW e \in Entries
      PROVE  (e[1] < at[1] \/ (e[1] = at[1] /\ e[2] < at[2]))
               <=> (e[1] < at'[1] \/ (e[1] = at'[1] /\ e[2] < at'[2]))
  <2>1. /\ e[1] \in Nat /\ e[2] \in Nat /\ e[2] > 0
        /\ records[e[1]].row \in Rows /\ records[e[1]].items # <<>>
    BY EntryTypes
  <2>2. CASE Row = NoRow \/ Record.items = <<>>
    <3>1. e[1] # at[1]
      BY <2>1, <2>2, SummaryAssumption DEF Row, Record, Rows
    <3>2. at' = <<at[1] + 1, 0>>
      BY <2>2 DEF TakeRecord
    <3> QED BY <1>1, <2>1, <3>1, <3>2
  <2>3. CASE ~(Row = NoRow \/ Record.items = <<>>)
    <3>1. at' = <<at[1], 1>>
      BY <2>3 DEF TakeRecord
    <3> QED BY <1>1, <2>1, <3>1
  <2> QED BY <2>2, <2>3
<1> QED BY <1>1, <1>2 DEF Taken

\* Going on from a score takes that entry.
LEMMA TakeItemTakesOne ==
  ASSUME SummaryType, Place, TakeItem
  PROVE  Taken' = Taken \cup {at}
<1>1. /\ at[2] > 0 /\ Entries' = Entries /\ at \in Entries
      /\ at = <<at[1], at[2]>> /\ at[1] \in Nat /\ at[2] \in Nat /\ Len(Record.items) \in Nat
  BY PlaceIsEntry, RecordTypes DEF TakeItem, Entries, Record
<1>2. ASSUME NEW e \in Entries
      PROVE  (e[1] < at[1] \/ (e[1] = at[1] /\ e[2] < at[2]) \/ e = at)
               <=> (e[1] < at'[1] \/ (e[1] = at'[1] /\ e[2] < at'[2]))
  <2>1. /\ e[1] \in Nat /\ e[2] \in Nat /\ e[2] > 0 /\ e = <<e[1], e[2]>>
        /\ e[1] = at[1] => e[2] <= Len(Record.items)
    BY EntryTypes DEF Record
  <2>2. e = at <=> e[1] = at[1] /\ e[2] = at[2]
    BY <1>1, <2>1
  <2>3. CASE at[2] < Len(Record.items)
    <3>1. at' = <<at[1], at[2] + 1>>
      BY <2>3 DEF TakeItem
    <3> QED BY <1>1, <2>1, <2>2, <3>1
  <2>4. CASE ~(at[2] < Len(Record.items))
    <3>1. at' = <<at[1] + 1, 0>>
      BY <2>4 DEF TakeItem
    <3>2. at[2] = Len(Record.items)
      BY <2>4, PlaceIsEntry, <1>1
    <3> QED BY <1>1, <2>1, <2>2, <3>1, <3>2
  <2> QED BY <2>3, <2>4
<1> QED BY <1>1, <1>2 DEF Taken

-----------------------------------------------------------------------------

\* A recognized score is of a pair of a row and a metric.
LEMMA ItemTypes ==
  ASSUME SummaryType, Place, at[2] > 0
  PROVE  /\ Row \in Rows /\ Item.metric \in Metrics \cup {NoMetric} /\ Item.value \in Values
         /\ \A r \in Rows, m \in Metrics :
              at \in Of(r, m) <=> Recognized /\ r = Row /\ m = Item.metric
<1>1. at \in Entries /\ At(at) = Item /\ Row \in Rows
  BY PlaceIsEntry
<1>2. Item.metric \in Metrics \cup {NoMetric} /\ Item.value \in Values
  BY <1>1, EntryTypes
<1>3. records[at[1]].row = Row /\ records[at[1]].items[at[2]] = Item
  BY DEF Row, Record, Item
<1> QED BY <1>1, <1>2, <1>3 DEF Of, Recognized

\* Every step keeps the types and the place.
LEMMA SummaryTypeNext ==
  ASSUME SummaryType, Place, [Next]_vars
  PROVE  SummaryType' /\ Place'
<1>1. ASSUME TakeRecord PROVE SummaryType' /\ Place'
  <2>1. /\ at[1] \in 1..Len(records) /\ Len(records) \in 0..MaxRecords /\ Row \in Rows \cup {NoRow}
        /\ Len(Record.items) \in 0..MaxItems /\ (Record.items = <<>> <=> Len(Record.items) = 0)
        /\ at[1] \in Nat
    BY <1>1, RecordTypes DEF TakeRecord, SummaryType, Row, Record
  <2>2. CASE Row = NoRow \/ Record.items = <<>>
    <3>1. at' = <<at[1] + 1, 0>> /\ issues' \in BOOLEAN
      BY <1>1, <2>2 DEF TakeRecord
    <3>2. at' \in (1..(Len(records) + 1)) \X (0..MaxItems)
      BY <2>1, <3>1, SummaryAssumption
    <3> QED BY <1>1, <3>1, <3>2 DEF TakeRecord, SummaryType, Place
  <2>3. CASE ~(Row = NoRow \/ Record.items = <<>>)
    <3>1. at' = <<at[1], 1>> /\ issues' = issues
      BY <1>1, <2>3 DEF TakeRecord
    <3>2. Row \in Rows /\ 1 <= Len(Record.items) /\ 1 \in 0..MaxItems
      BY <2>1, <2>3, SummaryAssumption
    <3>3. at' \in (1..(Len(records) + 1)) \X (0..MaxItems)
      BY <2>1, <3>1, <3>2, SummaryAssumption
    <3>4. Place'
      BY <1>1, <2>1, <3>1, <3>2 DEF TakeRecord, Place, Row, Record
    <3> QED BY <1>1, <3>1, <3>3, <3>4 DEF TakeRecord, SummaryType
  <2> QED BY <2>2, <2>3
<1>2. ASSUME TakeItem PROVE SummaryType' /\ Place'
  <2>1. /\ at[1] \in 1..Len(records) /\ at[2] \in 1..Len(Record.items)
        /\ Len(records) \in 0..MaxRecords /\ Len(Record.items) \in 0..MaxItems
    BY <1>2, PlaceIsEntry, RecordTypes DEF TakeItem, Record
  <2>2. Row \in Rows /\ Item.value \in Values
    BY <1>2, ItemTypes DEF TakeItem
  <2>3. scores' \in [Rows -> [Metrics -> Values]]
    BY <1>2, <2>2 DEF TakeItem, SummaryType, Recognized
  <2>4. seen' \subseteq Rows \X Metrics /\ issues' \in BOOLEAN
    <3>1. issues' = TRUE \/ issues' = issues
      BY <1>2 DEF TakeItem
    <3>2. seen' = seen \/ (Recognized /\ seen' = seen \cup {<<Row, Item.metric>>})
      BY <1>2 DEF TakeItem
    <3>3. seen' \subseteq Rows \X Metrics
      BY <2>2, <3>2 DEF SummaryType, Recognized
    <3>4. issues' \in BOOLEAN
      BY <3>1 DEF SummaryType
    <3> QED BY <3>3, <3>4
  <2>5. CASE at[2] < Len(Record.items)
    <3>1. at' = <<at[1], at[2] + 1>>
      BY <1>2, <2>5 DEF TakeItem
    <3>2. at' \in (1..(Len(records) + 1)) \X (0..MaxItems)
      BY <2>1, <2>5, <3>1, SummaryAssumption
    <3>3. Place'
      BY <1>2, <2>1, <2>2, <2>5, <3>1, SummaryAssumption DEF TakeItem, Place, Row, Record
    <3> QED BY <1>2, <2>3, <2>4, <3>2, <3>3 DEF TakeItem, SummaryType
  <2>6. CASE ~(at[2] < Len(Record.items))
    <3>1. at' = <<at[1] + 1, 0>>
      BY <1>2, <2>6 DEF TakeItem
    <3>2. at' \in (1..(Len(records) + 1)) \X (0..MaxItems)
      BY <2>1, <3>1, SummaryAssumption
    <3> QED BY <1>2, <2>3, <2>4, <3>1, <3>2 DEF TakeItem, SummaryType, Place
  <2> QED BY <2>5, <2>6
<1>3. ASSUME Raise \/ Finish \/ UNCHANGED vars PROVE SummaryType' /\ Place'
  BY <1>3 DEF Raise, Finish, vars, SummaryType, Place, Row, Record
<1> QED BY <1>1, <1>2, <1>3 DEF Next

\* What was seen and scored is that of the entries taken.
LEMMA TakenNext ==
  ASSUME SummaryInv, [Next]_vars
  PROVE  SeenIsTaken' /\ ScoresAreTaken'
<1> USE DEF SummaryInv
<1>1. ASSUME Taken' = Taken, UNCHANGED <<records, seen, scores>>
      PROVE  SeenIsTaken' /\ ScoresAreTaken'
  BY <1>1 DEF SeenIsTaken, ScoresAreTaken, TakenOf, Of, At, Entries
<1>2. ASSUME TakeItem, NEW r \in Rows, NEW m \in Metrics
      PROVE  /\ (<<r, m>> \in seen <=> TakenOf(r, m) # {})'
             /\ (\A d, e \in TakenOf(r, m) : d = e)'
             /\ (\A e \in TakenOf(r, m) : Valid(At(e)) => scores[r][m] = At(e).value)'
             /\ (scores[r][m] # NoScore => \E e \in TakenOf(r, m) : Valid(At(e)))'
  <2>1. Taken' = Taken \cup {at} /\ at[2] > 0 /\ records' = records /\ ~Repeated
    BY <1>2, TakeItemTakesOne DEF TakeItem
  <2>2. /\ Row \in Rows /\ At(at) = Item
        /\ at \in Of(r, m) <=> Recognized /\ r = Row /\ m = Item.metric
    BY <2>1, ItemTypes, PlaceIsEntry
  <2>3. Of(r, m)' = Of(r, m) /\ \A e : At(e)' = At(e)
    BY <2>1 DEF Of, Entries, At
  <2>4. /\ <<r, m>> \in seen <=> TakenOf(r, m) # {}
        /\ \A d, e \in TakenOf(r, m) : d = e
        /\ \A e \in TakenOf(r, m) : Valid(At(e)) => scores[r][m] = At(e).value
        /\ scores[r][m] # NoScore => \E e \in TakenOf(r, m) : Valid(At(e))
    BY DEF SeenIsTaken, ScoresAreTaken
  <2>5. CASE at \in Of(r, m)
    <3>1. Recognized /\ r = Row /\ m = Item.metric
      BY <2>2, <2>5
    <3>2. TakenOf(r, m) = {} /\ seen' = seen \cup {<<r, m>>}
      BY <1>2, <2>1, <2>4, <3>1 DEF Repeated, TakeItem
    <3>3. TakenOf(r, m)' = {at}
      BY <2>1, <2>3, <2>5, <3>2 DEF TakenOf
    <3>4. CASE Valid(Item)
      <4>1. scores'[r][m] = Item.value
        BY <1>2, <3>1, <3>4 DEF TakeItem, SummaryType
      <4> QED BY <2>2, <2>3, <3>2, <3>3, <3>4, <4>1 DEF Valid
    <3>5. CASE ~Valid(Item)
      <4>1. scores' = scores
        BY <1>2, <3>5 DEF TakeItem
      <4> QED BY <2>2, <2>3, <2>4, <3>2, <3>3, <3>5, <4>1 DEF Valid
    <3> QED BY <3>4, <3>5
  <2>6. CASE at \notin Of(r, m)
    <3>1. TakenOf(r, m)' = TakenOf(r, m)
      BY <2>1, <2>3, <2>6 DEF TakenOf
    <3>2. ~Recognized \/ r # Row \/ m # Item.metric
      BY <2>2, <2>6
    <3>3. <<r, m>> \in seen' <=> <<r, m>> \in seen
      BY <1>2, <3>2 DEF TakeItem
    <3>4. scores'[r][m] = scores[r][m]
      BY <1>2, <2>2, <3>2 DEF TakeItem, SummaryType
    <3> QED BY <2>3, <2>4, <3>1, <3>3, <3>4 DEF Valid
  <2> QED BY <2>5, <2>6
<1>3. ASSUME TakeItem PROVE SeenIsTaken' /\ ScoresAreTaken'
  BY <1>2, <1>3 DEF SeenIsTaken, ScoresAreTaken
<1>4. ASSUME TakeRecord PROVE SeenIsTaken' /\ ScoresAreTaken'
  BY <1>1, <1>4, TakeRecordTakesNone DEF TakeRecord
<1>5. ASSUME Raise \/ Finish \/ UNCHANGED vars PROVE SeenIsTaken' /\ ScoresAreTaken'
  <2>1. Taken' = Taken /\ UNCHANGED <<records, seen, scores>>
    BY <1>5 DEF Raise, Finish, vars, Taken, Entries
  <2> QED BY <1>1, <2>1
<1> QED BY <1>3, <1>4, <1>5 DEF Next

\* Something was an issue exactly when something taken is one.
LEMMA IssuesNext ==
  ASSUME SummaryInv, [Next]_vars
  PROVE  IssuesAreTaken'
<1> USE DEF SummaryInv
<1> DEFINE EmptyBefore(n) == \E i \in 1..Len(records) : i < n /\ Empty(i)
           BadTaken == \E e \in Taken : Bad(e)
<1>1. issues <=> EmptyBefore(at[1]) \/ BadTaken
  BY DEF IssuesAreTaken
<1>2. ASSUME records' = records
      PROVE  /\ \A i : Empty(i)' = Empty(i)
             /\ \A e : Bad(e)' = Bad(e)
             /\ Len(records)' = Len(records)
  BY <1>2 DEF Empty, Bad, At, Valid
<1>3. CASE TakeRecord
  <2>1. Taken' = Taken /\ records' = records /\ at[1] \in 1..Len(records) /\ Len(records) \in Nat
    <3>1. Len(records) \in Nat
      BY RecordTypes
    <3>2. at[1] \in 1..(Len(records) + 1) /\ at[1] <= Len(records)
      BY <1>3 DEF TakeRecord, SummaryType
    <3>3. Taken' = Taken /\ records' = records
      BY <1>3, TakeRecordTakesNone DEF TakeRecord
    <3> QED BY <3>1, <3>2, <3>3
  <2>2. BadTaken' = BadTaken
    BY <1>2, <2>1
  <2>3. CASE Empty(at[1])
    <3>1. issues' /\ at'[1] = at[1] + 1
      BY <1>3, <2>3 DEF TakeRecord, Empty, Row, Record
    <3>2. \E i \in 1..Len(records) : i < at'[1] /\ Empty(i)
      BY <2>1, <2>3, <3>1
    <3> QED BY <1>2, <2>1, <3>1, <3>2 DEF IssuesAreTaken
  <2>4. CASE ~Empty(at[1])
    <3>1. issues' = issues /\ at'[1] = at[1]
      BY <1>3, <2>4 DEF TakeRecord, Empty, Row, Record
    <3> QED BY <1>1, <1>2, <2>1, <2>2, <3>1 DEF IssuesAreTaken
  <2> QED BY <2>3, <2>4
<1>4. CASE TakeItem
  <2>1. /\ Taken' = Taken \cup {at} /\ records' = records /\ at[2] > 0
        /\ at[1] \in 1..Len(records) /\ at[2] \in 1..Len(Record.items)
        /\ At(at) = Item /\ Row \in Rows /\ Len(records) \in Nat
    <3>1. at[2] > 0 /\ records' = records
      BY <1>4 DEF TakeItem
    <3>2. Taken' = Taken \cup {at}
      BY <1>4, TakeItemTakesOne
    <3>3. Len(records) \in Nat
      BY RecordTypes
    <3> QED BY <3>1, <3>2, <3>3, PlaceIsEntry
  <2>2. Item.metric \in Metrics \cup {NoMetric}
    BY <2>1, ItemTypes
  <2>3. ~Empty(at[1])
    BY <2>1, RecordTypes, SummaryAssumption DEF Empty, Row, Record, Rows
  <2>4. EmptyBefore(at'[1]) <=> EmptyBefore(at[1])
    <3>1. at'[1] \in {at[1], at[1] + 1}
      BY <1>4 DEF TakeItem
    <3>2. \A i \in 1..Len(records) : Empty(i) => (i < at'[1] <=> i < at[1])
      BY <2>1, <2>3, <3>1
    <3> QED BY <3>2
  <2>5. Bad(at) <=> ~(Recognized /\ Valid(Item))
    BY <2>1, <2>2, SummaryAssumption DEF Bad, Recognized, Metrics
  <2>6. issues' <=> issues \/ Bad(at)
    BY <1>4, <2>5 DEF TakeItem
  <2>7. (\E e \in Taken' : Bad(e)) <=> BadTaken \/ Bad(at)
    BY <2>1
  <2> QED BY <1>1, <1>2, <2>1, <2>4, <2>6, <2>7 DEF IssuesAreTaken
<1>5. CASE Raise \/ Finish \/ UNCHANGED vars
  <2>1. Taken' = Taken /\ UNCHANGED <<records, issues, at>>
    BY <1>5 DEF Raise, Finish, vars, Taken, Entries
  <2> QED BY <1>1, <1>2, <2>1 DEF IssuesAreTaken
<1> QED BY <1>3, <1>4, <1>5 DEF Next

\* The loop goes on or ends at a repeated pair or after the last record.
LEMMA EndsNext ==
  ASSUME SummaryInv, [Next]_vars
  PROVE  Ends'
<1>1. CASE TakeRecord \/ TakeItem
  BY <1>1 DEF TakeRecord, TakeItem, Ends
<1>2. CASE Raise \/ Finish \/ UNCHANGED vars
  <2>1. UNCHANGED <<records, at, seen>>
    BY <1>2 DEF Raise, Finish, vars
  <2>2. Repeated' = Repeated
    BY <2>1 DEF Repeated, Row, Item, Record
  <2> QED BY <1>2, <2>1, <2>2 DEF Raise, Finish, vars, SummaryInv, Ends
<1> QED BY <1>1, <1>2 DEF Next

\* The invariant of the loop, for any records in any order.
THEOREM SummaryInvariant == Spec => []SummaryInv
<1>1. Init => SummaryInv
  <2> SUFFICES ASSUME Init PROVE SummaryInv
    OBVIOUS
  <2>1. SummaryType
    <3>1. PICK n \in 0..MaxRecords : records \in [1..n -> Records]
      BY DEF Init
    <3>2. n \in Nat /\ Len(records) = n
      <4>1. records \in Seq(Records)
        BY <3>1, SeqDef, SummaryAssumption
      <4> QED BY <3>1, <4>1, LenProperties, SummaryAssumption
    <3>3. at \in (1..(Len(records) + 1)) \X (0..MaxItems)
      BY <3>2, SummaryAssumption DEF Init
    <3> QED BY <3>1, <3>3 DEF Init, SummaryType, Values, NoScore
  <2>2. Taken = {}
    <3>1. ASSUME NEW e \in Entries PROVE ~(e[1] < at[1] \/ (e[1] = at[1] /\ e[2] < at[2]))
      <4>1. e[1] \in Nat /\ e[1] > 0 /\ e[2] \in Nat
        BY <2>1, EntryTypes, RecordTypes
      <4> QED BY <4>1 DEF Init
    <3> QED BY <3>1 DEF Taken
  <2>3. ~\E i \in 1..Len(records) : i < at[1]
    BY DEF Init
  <2> QED
    BY <2>1, <2>2, <2>3
       DEF Init, SummaryInv, Place, SeenIsTaken, ScoresAreTaken, TakenOf, IssuesAreTaken, Ends
<1>2. SummaryInv /\ [Next]_vars => SummaryInv'
  BY SummaryTypeNext, TakenNext, IssuesNext, EndsNext DEF SummaryInv
<1> QED
  BY <1>1, <1>2, PTL DEF Spec

-----------------------------------------------------------------------------
(* The theorems. *)

\* At the end every entry was taken.
LEMMA AllTaken ==
  ASSUME SummaryInv, outcome = "done"
  PROVE  /\ Taken = Entries
         /\ \A r \in Rows, m \in Metrics : TakenOf(r, m) = Of(r, m)
         /\ \A i \in 1..Len(records) : i < at[1]
<1>1. at[1] = Len(records) + 1 /\ Len(records) \in Nat /\ SummaryType
  BY RecordTypes DEF SummaryInv, Ends
<1>2. \A i \in 1..Len(records) : i < at[1]
  BY <1>1
<1>3. \A e \in Entries : e[1] < at[1]
  BY <1>1, <1>2, EntryTypes
<1> QED BY <1>2, <1>3 DEF Taken, TakenOf, Of

\* At the end what is true of the entries taken is true of all.
LEMMA AllScored ==
  ASSUME SummaryInv, outcome = "done", NEW r \in Rows, NEW m \in Metrics
  PROVE  /\ \A d, e \in Of(r, m) : d = e
         /\ \A e \in Of(r, m) : Valid(At(e)) => scores[r][m] = At(e).value
         /\ scores[r][m] # NoScore => \E e \in Of(r, m) : Valid(At(e))
<1>1. TakenOf(r, m) = Of(r, m)
  BY AllTaken
<1>2. /\ \A d, e \in TakenOf(r, m) : d = e
      /\ \A e \in TakenOf(r, m) : Valid(At(e)) => scores[r][m] = At(e).value
      /\ scores[r][m] # NoScore => \E e \in TakenOf(r, m) : Valid(At(e))
  BY DEF SummaryInv, SeenIsTaken, ScoresAreTaken
<1> QED BY <1>1, <1>2

\* A pair has two entries exactly when they can be told apart.
LEMMA TwoEntries ==
  ASSUME SummaryType, NEW r \in Rows, NEW m \in Metrics
  PROVE  Cardinality(Of(r, m)) > 1 <=> \E d, e \in Of(r, m) : d # e
<1>1. IsFiniteSet(Of(r, m))
  <2>1. IsFiniteSet(1..MaxRecords) /\ IsFiniteSet(1..MaxItems)
    BY FS_Interval, SummaryAssumption
  <2>2. IsFiniteSet((1..MaxRecords) \X (1..MaxItems))
    BY <2>1, FS_Product
  <2>3. Of(r, m) \in SUBSET ((1..MaxRecords) \X (1..MaxItems))
    BY DEF Of, Entries
  <2> QED BY <2>2, <2>3, FS_Subset
<1>2. Cardinality(Of(r, m)) \in Nat
  BY <1>1, FS_CardinalityType
<1>3. ASSUME NEW d \in Of(r, m), NEW e \in Of(r, m), d # e PROVE Cardinality(Of(r, m)) > 1
  <2>1. Cardinality(Of(r, m)) # 0
    BY <1>1, <1>3, FS_EmptySet
  <2>2. Cardinality(Of(r, m)) # 1
    <3> SUFFICES ASSUME Cardinality(Of(r, m)) = 1 PROVE FALSE
      OBVIOUS
    <3>1. PICK x : Of(r, m) = {x}
      BY <1>1, FS_Singleton
    <3> QED BY <1>3, <3>1
  <2> QED BY <1>2, <2>1, <2>2
<1>4. ASSUME \A d, e \in Of(r, m) : d = e PROVE ~(Cardinality(Of(r, m)) > 1)
  <2>1. CASE Of(r, m) = {}
    BY <2>1, FS_EmptySet
  <2>2. CASE Of(r, m) # {}
    <3>1. PICK x : x \in Of(r, m)
      BY <2>2
    <3>2. Of(r, m) = {x}
      BY <1>4, <3>1
    <3> QED BY <3>2, FS_Singleton
  <2> QED BY <2>1, <2>2
<1> QED BY <1>3, <1>4

\* The loop raises only on two scores for one pair: the earlier one was taken,
\* the other is the one it has come to.
LEMMA RaisedIsDuplicated ==
  ASSUME SummaryInv, outcome = "raised"
  PROVE  Duplicated
<1>1. SummaryType /\ Place /\ at[2] > 0 /\ Repeated
  BY DEF SummaryInv, Ends
<1>2. Row \in Rows /\ Item.metric \in Metrics
  BY <1>1 DEF SummaryType, Repeated
<1>3. PICK e : e \in TakenOf(Row, Item.metric)
  BY <1>1, <1>2 DEF SummaryInv, SeenIsTaken, Repeated
<1>4. at \in Of(Row, Item.metric) /\ at \notin Taken
  BY <1>1, <1>2, ItemTypes, PlaceIsEntry DEF Recognized
<1>5. Cardinality(Of(Row, Item.metric)) > 1
  BY <1>1, <1>2, <1>3, <1>4, TwoEntries DEF TakenOf
<1> QED BY <1>2, <1>5 DEF Duplicated

\* The scores are what was downloaded for each pair, in whatever order, and
\* the loop raises exactly on a duplicate.
THEOREM ScoresDependOnRecords == Spec => []ScoresAreAsDownloaded
<1>1. SummaryInv => ScoresAreAsDownloaded
  <2> SUFFICES ASSUME SummaryInv, outcome = "done"
               PROVE  /\ ~Duplicated
                      /\ \A r \in Rows, m \in Metrics :
                           scores[r][m] = IF \E e \in Of(r, m) : Valid(At(e))
                                          THEN (CHOOSE v \in Values : \E e \in Of(r, m) : At(e).value = v)
                                          ELSE NoScore
    BY RaisedIsDuplicated DEF ScoresAreAsDownloaded
  <2>1. SummaryType
    BY DEF SummaryInv
  <2>2. ASSUME NEW r \in Rows, NEW m \in Metrics
        PROVE  /\ \A d, e \in Of(r, m) : d = e
               /\ \A e \in Of(r, m) : Valid(At(e)) => scores[r][m] = At(e).value
               /\ scores[r][m] # NoScore => \E e \in Of(r, m) : Valid(At(e))
    BY AllScored
  <2>3. ~Duplicated
    BY <2>1, <2>2, TwoEntries DEF Duplicated
  <2>4. ASSUME NEW r \in Rows, NEW m \in Metrics, NEW e \in Of(r, m), Valid(At(e))
        PROVE  scores[r][m] = CHOOSE v \in Values : \E d \in Of(r, m) : At(d).value = v
    <3>1. At(e).value \in Values
      BY <2>1, EntryTypes DEF Of
    <3>2. \A v \in Values : (\E d \in Of(r, m) : At(d).value = v) <=> v = At(e).value
      BY <2>2, <2>4, <3>1
    <3>3. (CHOOSE v \in Values : \E d \in Of(r, m) : At(d).value = v) = At(e).value
      BY <3>1, <3>2
    <3> QED BY <2>2, <2>4, <3>3
  <2>5. ASSUME NEW r \in Rows, NEW m \in Metrics, \A e \in Of(r, m) : ~Valid(At(e))
        PROVE  scores[r][m] = NoScore
    BY <2>2, <2>5
  <2> QED BY <2>3, <2>4, <2>5
<1> QED
  BY <1>1, SummaryInvariant, PTL

\* A summary is complete exactly when every case has a valid score for every
\* metric and nothing that was downloaded is unknown or empty.
THEOREM CompletenessIsExact == Spec => []CompleteIsExact
<1>1. SummaryInv => CompleteIsExact
  <2> DEFINE Known == /\ \A i \in 1..Len(records) : records[i].row # NoRow /\ records[i].items # <<>>
                      /\ \A e \in Entries : At(e).metric # NoMetric
             Good(e, m) == At(e).value = "pass" \/ (At(e).value = "between" /\ m # Custom)
  <2> SUFFICES ASSUME SummaryInv, outcome = "done"
               PROVE  Complete <=>
                        Known /\ \A r \in Rows, m \in Metrics : \E e \in Of(r, m) : Good(e, m)
    BY DEF CompleteIsExact
  <2>1. SummaryType
    BY DEF SummaryInv
  <2>2. ASSUME NEW r \in Rows, NEW m \in Metrics
        PROVE  /\ \A d, e \in Of(r, m) : d = e
               /\ \A e \in Of(r, m) : Valid(At(e)) => scores[r][m] = At(e).value
               /\ scores[r][m] # NoScore => \E e \in Of(r, m) : Valid(At(e))
               /\ \A e \in Of(r, m) : Valid(At(e)) <=> Good(e, m)
    <3>1. \A e \in Of(r, m) : Valid(At(e)) <=> Good(e, m)
      <4>1. \A e \in Of(r, m) : At(e).metric = m /\ At(e).value \in Values
        BY <2>1, EntryTypes DEF Of, At
      <4> QED BY <4>1 DEF Valid, Values
    <3> QED BY <3>1, AllScored
  <2>3. ~issues <=> Known /\ \A e \in Entries : Valid(At(e))
    BY AllTaken DEF SummaryInv, IssuesAreTaken, Empty, Bad
  <2>4. ASSUME NEW r \in Rows, NEW m \in Metrics
        PROVE  scores[r][m] # NoScore <=> \E e \in Of(r, m) : Good(e, m)
    BY <2>2 DEF Valid, NoScore
  <2>5. ASSUME Known, \A r \in Rows, m \in Metrics : \E e \in Of(r, m) : Good(e, m),
               NEW e \in Entries
        PROVE  Valid(At(e))
    <3> DEFINE r == records[e[1]].row
               m == At(e).metric
    <3>1. r \in Rows /\ m \in Metrics /\ e \in Of(r, m)
      BY <2>1, <2>5, EntryTypes DEF Of, At
    <3> HIDE DEF r, m
    <3> QED BY <2>2, <2>5, <3>1
  <2> HIDE DEF Known, Good
  <2> QED BY <2>3, <2>4, <2>5 DEF Complete
<1> QED
  BY <1>1, SummaryInvariant, PTL
=============================================================================
