---------------------------- MODULE TablesProofs -----------------------------
(***************************************************************************)
(* Theorems about the tables and who reads them: Partitions, for any       *)
(* calendar, retention and number of scripts, wherever they fail; and      *)
(* Stats, for any kinds of click, ranges and bounds.                       *)
(***************************************************************************)
EXTENDS Partitions, Stats, DataLemmas, TLAPS

-----------------------------------------------------------------------------
(* The partitions, made ahead and dropped.                                 *)

\* What a script that began in this month has made so far.
ScriptMade ==
  roller # 0 /\ FirstDay[month] <= began =>
    \A s \in CreateSteps : s < roller => <<TableOf(s), MonthOf(s)>> \in parts

\* What a finished script and a passed check promise is still there.
RolledMade ==
  \A t \in Tables, m \in rolled..rolled + 2 : m >= month => <<t, m>> \in parts
CheckedMade ==
  checked > 0 /\ month <= checked => \A t \in Tables : <<t, checked>> \in parts

\* A row lies in its partition's month, and is lost only past its cutoff.
RowInItsMonth ==
  row # NoRow => row.month <= month /\ row.day < FirstDay[row.month + 1]
LostIsPast ==
  row # NoRow /\ ~row.stored => PastCutoff(row.table, row.day + 1)

PartitionsInv ==
  /\ PartitionsTypeOK
  /\ ScriptMade /\ RolledMade /\ CheckedMade
  /\ RowInItsMonth /\ LostIsPast

-----------------------------------------------------------------------------
\* The numbers there are.
LEMMA Calendar ==
  ASSUME PartitionsTypeOK
  PROVE  /\ month \in Nat /\ month <= LastMonth /\ LastMonth \in Nat
         /\ today \in Nat /\ LinkMonths \in Nat /\ RawDays \in Nat
         /\ FirstDay[month] <= today /\ today < FirstDay[month + 1]
         /\ \A m \in MonthsAhead : FirstDay[m] \in Nat /\ m \in Nat
         /\ \A m, n \in MonthsAhead : m < n => FirstDay[m] < FirstDay[n]
         /\ \A m \in Nat : m <= LastMonth + 3 => m \in MonthsAhead
  BY PartitionsAssumption DEF PartitionsTypeOK, MonthsAhead

\* The cutoff of the links is a day, of today or before.
LEMMA CutoffBeforeToday ==
  ASSUME PartitionsTypeOK, month >= LinkMonths
  PROVE  MonthsBefore(LinkMonths) \in Nat /\ MonthsBefore(LinkMonths) <= today
<1> DEFINE m == month - LinkMonths
<1>1. /\ m \in Nat /\ m <= month /\ m + 1 \in MonthsAhead /\ m \in MonthsAhead
      /\ month \in MonthsAhead
  BY Calendar
<1>2. FirstDay[m] \in Nat /\ FirstDay[m + 1] \in Nat /\ FirstDay[month] \in Nat
  BY <1>1, Calendar
<1>3. FirstDay[m] <= FirstDay[month] /\ FirstDay[m] < FirstDay[m + 1]
  BY <1>1, <1>2, Calendar
<1> HIDE DEF m
<1> QED
  BY <1>1, <1>2, <1>3, Calendar DEF MonthsBefore, m

\* Nothing of this month or a later one is ever droppable.
LEMMA HomesStay ==
  ASSUME PartitionsTypeOK, NEW t \in Tables, NEW m \in Nat, m >= month, m <= LastMonth + 2
  PROVE  ~Droppable(t, m)
<1>1. m + 1 \in MonthsAhead /\ month + 1 \in MonthsAhead
  BY Calendar
<1>2. FirstDay[m + 1] \in Nat /\ FirstDay[month + 1] \in Nat
  BY <1>1, Calendar
<1>3. FirstDay[month + 1] <= FirstDay[m + 1]
  BY <1>1, <1>2, Calendar
<1>4. today < FirstDay[m + 1]
  BY <1>2, <1>3, Calendar
<1> QED
  BY <1>2, <1>4, Calendar, CutoffBeforeToday DEF Droppable, PastCutoff

\* A cutoff only moves on: what is past it stays past it.
LEMMA PastStaysPast ==
  ASSUME PartitionsTypeOK, NextDay, NEW t \in Tables, NEW day \in Nat, PastCutoff(t, day)
  PROVE  PastCutoff(t, day)'
<1>1. CASE t # "links"
  BY <1>1, Calendar DEF PastCutoff, NextDay
<1>2. CASE t = "links"
  <2> DEFINE m == month - LinkMonths
  <2>1. month >= LinkMonths /\ day <= MonthsBefore(LinkMonths)
    BY <1>2 DEF PastCutoff
  <2>2. /\ m \in Nat /\ m \in MonthsAhead /\ m + 1 \in MonthsAhead /\ m + 2 \in MonthsAhead
        /\ month \in MonthsAhead /\ month + 1 \in MonthsAhead
    BY <2>1, Calendar
  <2>3. /\ FirstDay[m] \in Nat /\ FirstDay[m + 1] \in Nat /\ FirstDay[m + 2] \in Nat
        /\ FirstDay[month] \in Nat /\ FirstDay[month + 1] \in Nat
        /\ FirstDay[m + 1] < FirstDay[m + 2]
    BY <2>2, Calendar
  <2>4. CASE month' = month /\ today' = today + 1
    BY <1>2, <2>1, <2>2, <2>3, <2>4, Calendar DEF PastCutoff, MonthsBefore
  <2>5. CASE month' = month + 1 /\ today' = FirstDay[month + 1]
    <3>1. month' - LinkMonths = m + 1 /\ month' >= LinkMonths
      BY <2>1, <2>2, <2>5, Calendar
    <3>2. MonthsBefore(LinkMonths)' = FirstDay[m + 1]
      <4>1. FirstDay[m + 1] + (today' - FirstDay[month']) = FirstDay[m + 1]
        BY <2>3, <2>5
      <4>2. (m + 1) + 1 = m + 2
        BY <2>2
      <4> QED
        BY <2>3, <3>1, <4>1, <4>2 DEF MonthsBefore
    <3>3. day <= FirstDay[m + 1]
      BY <2>1, <2>2, <2>3, Calendar DEF MonthsBefore
    <3> QED
      BY <1>2, <3>1, <3>2, <3>3 DEF PastCutoff
  <2> QED
    BY <2>4, <2>5 DEF NextDay
<1> QED
  BY <1>1, <1>2

-----------------------------------------------------------------------------
LEMMA PartitionsInvInit == PartitionsInit => PartitionsInv
<1> SUFFICES ASSUME PartitionsInit PROVE PartitionsInv
  OBVIOUS
<1>1. /\ 0 \in MonthsAhead /\ 1 \in MonthsAhead /\ 2 \in MonthsAhead
      /\ 0 < FirstDay[1] /\ FirstDay[0] = 0
  BY PartitionsAssumption DEF MonthsAhead
<1>2. PartitionsTypeOK
  BY <1>1, PartitionsAssumption DEF PartitionsInit, PartitionsTypeOK
<1>3. RolledMade
  BY DEF PartitionsInit, RolledMade
<1> QED
  BY <1>2, <1>3
  DEF PartitionsInit, PartitionsInv, ScriptMade, CheckedMade, RowInItsMonth, LostIsPast

LEMMA StartKeeps ==
  ASSUME PartitionsInv, StartRoll
  PROVE  PartitionsInv'
<1>1. PartitionsTypeOK'
  BY PartitionsAssumption DEF StartRoll, PartitionsInv, PartitionsTypeOK
<1>2. ScriptMade'
  BY DEF StartRoll, ScriptMade, CreateSteps
<1> QED
  BY <1>1, <1>2 DEF StartRoll, PartitionsInv, RolledMade, CheckedMade, RowInItsMonth,
     LostIsPast, PastCutoff, MonthsBefore

LEMMA CreateKeeps ==
  ASSUME PartitionsInv, CreatePartition
  PROVE  PartitionsInv'
<1>1. /\ roller \in CreateSteps /\ roller' = roller + 1
      /\ parts' = parts \cup {<<TableOf(roller), MonthOf(roller)>>}
      /\ UNCHANGED <<month, today, began, runs, row, rolled, checked>>
  BY DEF CreatePartition
<1>2. TableOf(roller) \in Tables
  BY <1>1 DEF TableOf, Tables, CreateSteps
<1>3. MonthOf(roller) \in MonthsAhead
  BY <1>1, Calendar DEF MonthOf, CreateSteps, PartitionsInv
<1>4. roller' \in 0..12
  BY <1>1 DEF CreateSteps
<1>5. PartitionsTypeOK'
  BY <1>1, <1>2, <1>3, <1>4 DEF PartitionsInv, PartitionsTypeOK
<1>6. ScriptMade'
  <2>1. \A s \in CreateSteps : s < roller + 1 => s < roller \/ s = roller
    BY <1>1 DEF CreateSteps
  <2>2. roller # 0
    BY <1>1 DEF CreateSteps
  <2> QED
    BY <1>1, <2>1, <2>2 DEF PartitionsInv, ScriptMade, MonthOf
<1> QED
  BY <1>1, <1>5, <1>6 DEF PartitionsInv, RolledMade, CheckedMade, RowInItsMonth,
     LostIsPast, PastCutoff, MonthsBefore

LEMMA DropKeeps ==
  ASSUME PartitionsInv, DropPartitions
  PROVE  PartitionsInv'
<1> DEFINE t == TableOf(roller)
           past == {p \in parts : p[1] = t /\ Droppable(t, p[2])}
<1>1. /\ roller \in DropSteps /\ parts' = parts \ past
      /\ row' = IF row # NoRow /\ <<row.table, row.month>> \in past
                  THEN [row EXCEPT !.stored = FALSE] ELSE row
      /\ roller' = (roller + 1) % 13
      /\ rolled' = IF roller = 12 /\ FirstDay[month] <= began THEN month ELSE rolled
      /\ began' = IF roller = 12 THEN 0 ELSE began
      /\ UNCHANGED <<month, today, runs, checked>>
  BY DEF DropPartitions
<1>2. t \in Tables
  BY <1>1 DEF TableOf, Tables, DropSteps
<1>3. PartitionsTypeOK
  BY DEF PartitionsInv
<1>4. \A u \in Tables, m \in Nat :
        m >= month /\ m <= LastMonth + 2 /\ <<u, m>> \in parts => <<u, m>> \in parts'
  <2> SUFFICES ASSUME NEW u \in Tables, NEW m \in Nat, m >= month, m <= LastMonth + 2,
                      <<u, m>> \in past
               PROVE  FALSE
    BY <1>1
  <2>1. Droppable(t, m)
    OBVIOUS
  <2> QED
    BY <1>2, <1>3, <2>1, HomesStay
<1>5. PartitionsTypeOK'
  <2>1. roller' \in 0..12
    BY <1>1 DEF DropSteps
  <2>2. row' \in Rows \cup {NoRow}
    BY <1>1, <1>3 DEF PartitionsTypeOK, Rows
  <2>3. parts' \subseteq Tables \X MonthsAhead /\ began' \in Nat
    BY <1>1, <1>3 DEF PartitionsTypeOK
  <2>4. rolled' \in 0..month
    BY <1>1, <1>3, Calendar DEF PartitionsTypeOK
  <2> HIDE DEF t, past
  <2> QED
    BY <1>1, <1>3, <2>1, <2>2, <2>3, <2>4 DEF PartitionsTypeOK
<1> HIDE DEF t, past
<1>6. ScriptMade'
  <2> SUFFICES ASSUME NEW s \in CreateSteps, roller # 12, FirstDay[month] <= began
               PROVE  <<TableOf(s), MonthOf(s)>> \in parts'
    <3>1. roller = 12 => roller' = 0
      BY <1>1
    <3> QED
      BY <1>1, <3>1 DEF ScriptMade, MonthOf
  <2>1. <<TableOf(s), MonthOf(s)>> \in parts
    BY <1>1 DEF PartitionsInv, ScriptMade, CreateSteps, DropSteps
  <2>2. TableOf(s) \in Tables
    BY DEF TableOf, Tables, CreateSteps
  <2>3. MonthOf(s) \in Nat /\ MonthOf(s) >= month /\ MonthOf(s) <= LastMonth + 2
    BY <1>3, Calendar DEF MonthOf, CreateSteps
  <2> QED
    BY <1>4, <2>1, <2>2, <2>3
<1>7. RolledMade'
  <2>1. CASE rolled' = rolled
    <3> SUFFICES ASSUME NEW u \in Tables, NEW m \in rolled..rolled + 2, m >= month
                 PROVE  <<u, m>> \in parts'
      BY <1>1, <2>1 DEF RolledMade
    <3>1. m \in Nat /\ m <= LastMonth + 2
      BY <1>3, Calendar DEF PartitionsTypeOK
    <3> QED
      BY <1>4, <3>1 DEF PartitionsInv, RolledMade
  <2>2. CASE roller = 12 /\ FirstDay[month] <= began /\ rolled' = month
    <3> SUFFICES ASSUME NEW u \in Tables, NEW m \in month..month + 2
                 PROVE  <<u, m>> \in parts'
      BY <1>1, <2>2 DEF RolledMade
    <3>1. PICK s \in CreateSteps : TableOf(s) = u /\ MonthOf(s) = m
      <4>1. m = month \/ m = month + 1 \/ m = month + 2
        BY <1>3, Calendar
      <4>2. CASE u = "links"
        <5>1. /\ TableOf(1) = u /\ MonthOf(1) = month /\ TableOf(2) = u /\ MonthOf(2) = month + 1
              /\ TableOf(3) = u /\ MonthOf(3) = month + 2
          BY <1>3, <4>2, Calendar DEF TableOf, MonthOf
        <5> QED
          BY <4>1, <5>1 DEF CreateSteps
      <4>3. CASE u = "clicks"
        <5>1. /\ TableOf(4) = u /\ MonthOf(4) = month /\ TableOf(5) = u /\ MonthOf(5) = month + 1
              /\ TableOf(6) = u /\ MonthOf(6) = month + 2
          BY <1>3, <4>3, Calendar DEF TableOf, MonthOf
        <5> QED
          BY <4>1, <5>1 DEF CreateSteps
      <4>4. CASE u = "shorten_audit"
        <5>1. /\ TableOf(7) = u /\ MonthOf(7) = month /\ TableOf(8) = u /\ MonthOf(8) = month + 1
              /\ TableOf(9) = u /\ MonthOf(9) = month + 2
          BY <1>3, <4>4, Calendar DEF TableOf, MonthOf
        <5> QED
          BY <4>1, <5>1 DEF CreateSteps
      <4> QED
        BY <4>2, <4>3, <4>4 DEF Tables
    <3>2. s < roller /\ roller # 0
      BY <2>2 DEF CreateSteps
    <3>3. <<u, m>> \in parts
      BY <2>2, <3>1, <3>2 DEF PartitionsInv, ScriptMade
    <3>4. m \in Nat /\ m >= month /\ m <= LastMonth + 2
      BY <1>3, Calendar
    <3> QED
      BY <1>4, <3>3, <3>4
  <2> QED
    BY <1>1, <2>1, <2>2
<1>8. CheckedMade'
  <2> SUFFICES ASSUME NEW u \in Tables, checked > 0, month <= checked
               PROVE  <<u, checked>> \in parts'
    BY <1>1 DEF CheckedMade
  <2>1. checked \in Nat /\ checked <= LastMonth + 2
    BY <1>3, Calendar DEF PartitionsTypeOK
  <2> QED
    BY <1>4, <2>1 DEF PartitionsInv, CheckedMade
<1>9. RowInItsMonth' /\ LostIsPast'
  <2>1. CASE row = NoRow
    BY <1>1, <2>1 DEF RowInItsMonth, LostIsPast
  <2>2. CASE row # NoRow
    <3>1. row \in Rows
      BY <1>3, <2>2 DEF PartitionsTypeOK
    <3>2. /\ row' \in Rows /\ row'.month = row.month /\ row'.day = row.day
          /\ row'.table = row.table /\ row' # NoRow
      <4>1. \A x \in Rows : x # NoRow
        <5>1. \A x \in Rows : x.table # "none"
          BY DEF Rows, Tables
        <5>2. NoRow.table = "none"
          BY DEF NoRow
        <5> QED
          BY <5>1, <5>2
      <4>2. CASE row' = [row EXCEPT !.stored = FALSE]
        <5>1. /\ row' \in Rows /\ row'.month = row.month /\ row'.day = row.day
              /\ row'.table = row.table
          BY <3>1, <4>2 DEF Rows
        <5> QED
          BY <4>1, <5>1
      <4>3. CASE row' = row
        BY <2>2, <3>1, <4>3
      <4> QED
        BY <1>1, <4>2, <4>3
    <3>3. row.month <= month /\ row.day < FirstDay[row.month + 1]
      BY <2>2 DEF PartitionsInv, RowInItsMonth
    <3>4. PastCutoff(row.table, row.day + 1)' = PastCutoff(row.table, row.day + 1)
      BY <1>1, <3>2 DEF PastCutoff, MonthsBefore
    <3>5. ASSUME ~row'.stored PROVE PastCutoff(row.table, row.day + 1)
      <4>1. CASE row.stored
        <5>1. <<row.table, row.month>> \in past
          BY <1>1, <3>5, <4>1
        <5>2. PastCutoff(row.table, FirstDay[row.month + 1])
          BY <5>1 DEF past, t, Droppable
        <5>3. /\ row.month \in Nat /\ row.month + 1 \in MonthsAhead /\ row.day \in Nat
          BY <1>3, <3>1, Calendar DEF Rows
        <5>4. FirstDay[row.month + 1] \in Nat /\ row.day + 1 <= FirstDay[row.month + 1]
          BY <1>3, <3>3, <5>3, Calendar
        <5>5. month >= LinkMonths => MonthsBefore(LinkMonths) \in Nat
          BY <1>3, CutoffBeforeToday
        <5> QED
          BY <1>3, <5>2, <5>3, <5>4, <5>5, Calendar DEF PastCutoff
      <4>2. CASE ~row.stored
        BY <2>2, <4>2 DEF PartitionsInv, LostIsPast
      <4> QED
        BY <4>1, <4>2
    <3>6. LostIsPast'
      BY <1>1, <3>2, <3>5 DEF LostIsPast, PastCutoff, MonthsBefore
    <3> QED
      BY <1>1, <3>2, <3>3, <3>6 DEF RowInItsMonth
  <2> QED
    BY <2>1, <2>2
<1> QED
  BY <1>5, <1>6, <1>7, <1>8, <1>9 DEF PartitionsInv

LEMMA InsertKeeps ==
  ASSUME PartitionsInv, NEW t \in Tables, Insert(t)
  PROVE  PartitionsInv'
<1>1. /\ row' = [table |-> t, month |-> month, day |-> today, stored |-> TRUE]
      /\ UNCHANGED <<month, today, parts, roller, began, runs, rolled, checked>>
  BY DEF Insert
<1>2. row' \in Rows /\ row'.month = month /\ row'.day = today /\ row'.stored
  BY <1>1 DEF PartitionsInv, PartitionsTypeOK, Rows
<1>3. PartitionsTypeOK'
  BY <1>1, <1>2 DEF PartitionsInv, PartitionsTypeOK
<1>4. RowInItsMonth' /\ LostIsPast'
  BY <1>1, <1>2, Calendar DEF PartitionsInv, RowInItsMonth, LostIsPast
<1> QED
  BY <1>1, <1>3, <1>4 DEF PartitionsInv, ScriptMade, MonthOf, RolledMade, CheckedMade

LEMMA DayKeeps ==
  ASSUME PartitionsInv, NextDay
  PROVE  PartitionsInv'
<1>1. /\ PartitionsTypeOK /\ today' = today + 1
      /\ UNCHANGED <<parts, roller, began, runs, row, rolled, checked>>
      /\ roller # 0 => today = began
      /\ \/ today + 1 = FirstDay[month + 1] /\ month < LastMonth /\ month' = month + 1
         \/ today + 1 # FirstDay[month + 1] /\ month' = month
  BY DEF NextDay, PartitionsInv
<1>2. /\ month + 1 \in MonthsAhead /\ month + 2 \in MonthsAhead
      /\ FirstDay[month + 1] \in Nat /\ FirstDay[month + 2] \in Nat
      /\ FirstDay[month + 1] < FirstDay[month + 2]
  BY <1>1, Calendar
<1>3. /\ month' \in 0..LastMonth /\ month <= month'
      /\ today' \in Nat /\ FirstDay[month'] <= today' /\ today' < FirstDay[month' + 1]
  BY <1>1, <1>2, Calendar
<1>4. PartitionsTypeOK'
  <2>1. rolled' \in 0..month'
    BY <1>1, <1>3, Calendar DEF PartitionsTypeOK
  <2> QED
    BY <1>1, <1>3, <2>1 DEF PartitionsTypeOK
<1>5. ScriptMade'
  <2>1. CASE month' = month
    BY <1>1, <2>1 DEF PartitionsInv, ScriptMade, MonthOf
  <2>2. CASE month' = month + 1
    <3>1. roller # 0 => began < FirstDay[month']
      BY <1>1, <1>2, <2>2, Calendar
    <3> QED
      BY <1>1, <1>2, <2>2, <3>1, Calendar DEF ScriptMade
  <2> QED
    BY <1>1, <2>1, <2>2
<1>6. RolledMade' /\ CheckedMade'
  <2>1. /\ \A m \in Nat : m >= month' => m >= month
        /\ checked \in Nat /\ rolled \in Nat
    BY <1>1, <1>3, Calendar DEF PartitionsTypeOK
  <2>2. RolledMade'
    BY <1>1, <2>1 DEF PartitionsInv, RolledMade
  <2>3. CheckedMade'
    BY <1>1, <1>3, <2>1, Calendar DEF PartitionsInv, CheckedMade
  <2> QED
    BY <2>2, <2>3
<1>7. RowInItsMonth' /\ LostIsPast'
  <2>1. CASE row = NoRow
    BY <1>1, <2>1 DEF RowInItsMonth, LostIsPast
  <2>2. CASE row # NoRow
    <3>1. row.table \in Tables /\ row.month \in Nat /\ row.day + 1 \in Nat
      BY <1>1, <2>2 DEF PartitionsTypeOK, Rows
    <3>2. RowInItsMonth'
      BY <1>1, <1>3, <2>2, <3>1, Calendar DEF PartitionsInv, RowInItsMonth
    <3>3. ~row.stored => PastCutoff(row.table, row.day + 1)'
      BY <1>1, <2>2, <3>1, PastStaysPast DEF PartitionsInv, LostIsPast
    <3> QED
      BY <1>1, <3>2, <3>3 DEF LostIsPast, PastCutoff, MonthsBefore
  <2> QED
    BY <2>1, <2>2
<1> QED
  BY <1>4, <1>5, <1>6, <1>7 DEF PartitionsInv

\* The invariant is inductive.
LEMMA PartitionsInvNext ==
  ASSUME PartitionsInv, [PartitionsNext]_partitionVars
  PROVE  PartitionsInv'
<1>1. ASSUME RollFails PROVE PartitionsInv'
  <2>1. PartitionsTypeOK'
    BY <1>1 DEF RollFails, PartitionsInv, PartitionsTypeOK
  <2> QED
    BY <1>1, <2>1 DEF RollFails, PartitionsInv, ScriptMade, RolledMade, CheckedMade,
       RowInItsMonth, LostIsPast, PastCutoff, MonthsBefore
<1>2. ASSUME CheckPartitions PROVE PartitionsInv'
  <2>1. /\ \A t \in Tables : <<t, month + 1>> \in parts
        /\ checked' = month + 1
        /\ UNCHANGED <<month, today, parts, roller, began, runs, row, rolled>>
    BY <1>2 DEF CheckPartitions, CheckTables
  <2>2. PartitionsTypeOK'
    BY <2>1, Calendar DEF PartitionsInv, PartitionsTypeOK
  <2> QED
    BY <2>1, <2>2 DEF PartitionsInv, ScriptMade, MonthOf, RolledMade, CheckedMade,
       RowInItsMonth, LostIsPast, PastCutoff, MonthsBefore
<1>3. CASE UNCHANGED partitionVars
  BY <1>3 DEF partitionVars, PartitionsInv, PartitionsTypeOK, ScriptMade, MonthOf,
     RolledMade, CheckedMade, RowInItsMonth, LostIsPast, PastCutoff, MonthsBefore
<1> QED
  BY <1>1, <1>2, <1>3, StartKeeps, CreateKeeps, DropKeeps, InsertKeeps, DayKeeps
  DEF PartitionsNext

LEMMA PartitionsInvHolds == PartitionsSpec => []PartitionsInv
  BY PartitionsInvInit, PartitionsInvNext, PTL DEF PartitionsSpec

-----------------------------------------------------------------------------
\* Every reachable state is well-typed.
THEOREM PartitionsTypeCorrect == PartitionsSpec => []PartitionsTypeOK
<1>1. PartitionsInv => PartitionsTypeOK
  BY DEF PartitionsInv
<1> QED
  BY <1>1, PartitionsInvHolds, PTL

\* A script that began and ended in a month is good for it and the next two,
\* whatever the scripts after it fail at.
THEOREM RolledMeansHomeHolds == PartitionsSpec => []RolledMeansHome
<1>1. ASSUME PartitionsInv PROVE RolledMeansHome
  <2> SUFFICES ASSUME NEW t \in Tables, month <= rolled + 2
               PROVE  <<t, month>> \in parts
    BY DEF RolledMeansHome, Homes
  <2>1. month \in rolled..rolled + 2 /\ month >= month
    BY <1>1, Calendar DEF PartitionsInv, PartitionsTypeOK
  <2> QED
    BY <1>1, <2>1 DEF PartitionsInv, RolledMade
<1> QED
  BY <1>1, PartitionsInvHolds, PTL

\* A month the check found the next one's partitions in, is followed by one that
\* has them.
THEOREM CheckedMeansHomeHolds == PartitionsSpec => []CheckedMeansHome
<1>1. ASSUME PartitionsInv PROVE CheckedMeansHome
  <2> SUFFICES ASSUME checked > 0, month = checked PROVE Homes
    BY DEF CheckedMeansHome
  <2>1. month <= checked
    BY <1>1, Calendar DEF PartitionsInv
  <2> QED
    BY <1>1, <2>1 DEF PartitionsInv, CheckedMade, Homes
<1> QED
  BY <1>1, PartitionsInvHolds, PTL

\* No row inside its retention is ever dropped, on any calendar.
THEOREM RetainedStoredHolds == PartitionsSpec => []RetainedStored
<1>1. ASSUME PartitionsInv PROVE RetainedStored
  <2> SUFFICES ASSUME row # NoRow, ~PastCutoff(row.table, row.day + 1)
               PROVE  row.stored
    BY DEF RetainedStored
  <2>1. row.stored \in BOOLEAN
    BY <1>1 DEF PartitionsInv, PartitionsTypeOK, Rows
  <2> QED
    BY <1>1, <2>1 DEF PartitionsInv, LostIsPast
<1> QED
  BY <1>1, PartitionsInvHolds, PTL

-----------------------------------------------------------------------------
(* The numbers on one screen.                                              *)

\* The rows of the link: none is without its count in the rollup, and the rollup
\* has no count but for a row that is there or was dropped.
CellOf(k) == <<k.day, k.country>>
KindsIn(C) == {k \in Kinds : CellOf(k) \in C}
Counts ==
  /\ \A C \in SUBSET Cells : Sum(raw, KindsIn(C)) <= Sum(daily, C)
  /\ Sum(daily, Cells) = Sum(raw, Kinds) + dropped
  /\ Sum(daily, Cells) <= MaxClicks
  /\ touched <= Sum(daily, Cells) + dropped

StatsTyped ==
  /\ raw \in [Kinds -> Nat] /\ daily \in [Cells -> Nat]
  /\ dropped \in Nat /\ touched \in Nat

ScreenTyped ==
  screen # NoScreen =>
    /\ DOMAIN screen = {"at", "from", "to", "got"}
    /\ screen.at \in {"loading", "queries", "shown", "off", "error"}
    /\ screen.from \in Days /\ screen.to \in Days
    /\ DOMAIN screen.got \subseteq Queries
    /\ screen.at = "loading" => DOMAIN screen.got = {}
    /\ screen.at = "shown" => DOMAIN screen.got = Queries

\* What the tables hold of the range now: raw clicks, those of them in a webview,
\* and counts of the rollup.
Within(day) == screen.from <= day /\ day <= screen.to
RangeKinds == {k \in Kinds : Within(k.day)}
RangeWebview == {k \in RangeKinds : k.webview}
RangeCells == {c \in Cells : Within(c[1])}

\* What the screen makes of the results got.
SplitOf(devices, webview) ==
  Total([d \in {x \in DOMAIN devices : x[2] = webview} |-> devices[d]])
Near(a, b, t) == a <= b + t /\ b <= a + t

\* The numbers of the results got.
RowsOf(got) == got["totals"].total
VisitorsOf(got) == got["totals"].uniq
WebviewOf(got) == SplitOf(got["byDevice"], TRUE)
BrowsersOf(got) == SplitOf(got["byDevice"], FALSE)
NetworksOf(got) == Total(got["byNetwork"])
DaysOf(got) == Total(got["byDay"])
CountriesOf(got) == Total(got["byCountry"])
ReferrersOf(got) == Total(got["referrers"])
Has(got, q) == q \in DOMAIN got
Off(n, v, t) == n \in Nat /\ Near(n, v, t)
AtMost(n, v, t) == n \in Nat /\ n <= v + t

\* Each is off what the tables hold now by no more than was touched since.
Answered(got, r, w, d, t) ==
  /\ Has(got, "totals") => /\ Off(RowsOf(got), r, t)
                           /\ AtMost(VisitorsOf(got), RowsOf(got), 0)
  /\ Has(got, "byDevice") => /\ Off(WebviewOf(got), w, t) /\ BrowsersOf(got) \in Nat
                             /\ Off(WebviewOf(got) + BrowsersOf(got), r, t)
  /\ Has(got, "byNetwork") => Off(NetworksOf(got), w, t)
  /\ Has(got, "byDay") => Off(DaysOf(got), d, t)
  /\ Has(got, "byCountry") => Off(CountriesOf(got), d, t)
  /\ Has(got, "referrers") => AtMost(ReferrersOf(got), r, t)

\* Any two are off each other by no more than was touched in between.
Paired(got, t, gone) ==
  /\ Has(got, "totals") /\ Has(got, "byDevice") =>
       Near(RowsOf(got), WebviewOf(got) + BrowsersOf(got), t)
  /\ Has(got, "byDevice") /\ Has(got, "byNetwork") => Near(WebviewOf(got), NetworksOf(got), t)
  /\ Has(got, "byDay") /\ Has(got, "byCountry") => Near(DaysOf(got), CountriesOf(got), t)
  /\ Has(got, "totals") /\ Has(got, "byDay") =>
       RowsOf(got) <= DaysOf(got) + t /\ DaysOf(got) <= RowsOf(got) + gone + t
  /\ Has(got, "totals") /\ Has(got, "referrers") =>
       ReferrersOf(got) <= RowsOf(got) + t

Reading == screen # NoScreen /\ screen.at \in {"queries", "shown"}
ResultsHold ==
  Reading => /\ Answered(screen.got, Sum(raw, RangeKinds), Sum(raw, RangeWebview),
                         Sum(daily, RangeCells), touched)
             /\ Paired(screen.got, touched, dropped)

StatsInv == StatsTyped /\ ScreenTyped /\ Counts /\ ResultsHold

-----------------------------------------------------------------------------
LEMMA Finite ==
  /\ IsFiniteSet(Kinds) /\ IsFiniteSet(Cells)
  /\ \A k \in Kinds : k.day \in Days /\ k.webview \in BOOLEAN /\ CellOf(k) \in Cells
<1>1. IsFiniteSet(Kinds) /\ LastDay \in Nat
  BY StatsAssumption
<1>2. IsFiniteSet(Days)
  BY <1>1, FS_Interval, 0 \in Int, LastDay \in Int DEF Days
<1> DEFINE Countries == {k.country : k \in Kinds}
           f == [k \in Kinds |-> k.country]
<1>3. IsFiniteSet(Countries)
  <2>1. f \in Surjection(Kinds, Countries)
    BY DEF Surjection
  <2> QED
    BY <1>1, <2>1, FS_Surjection
<1>4. IsFiniteSet(Days \X Countries)
  <2> HIDE DEF Countries
  <2> QED
    BY <1>2, <1>3, FS_Product
<1>5. \A k \in Kinds : k.day \in Days /\ k.webview \in BOOLEAN
  BY StatsAssumption
<1>6. \A k \in Kinds : CellOf(k) \in Cells
  BY <1>5 DEF CellOf, Cells
<1> QED
  BY <1>1, <1>4, <1>5, <1>6 DEF Cells

\* Every sum over kinds or cells is of finitely many natural numbers.
LEMMA KindSums ==
  ASSUME NEW f, \A k \in Kinds : f[k] \in Nat, NEW U, U \subseteq Kinds
  PROVE  IsFiniteSet(U) /\ Sum(f, U) \in Nat
<1>1. IsFiniteSet(U)
  BY Finite, FS_Subset
<1> QED
  BY <1>1, SumNat

LEMMA CellSums ==
  ASSUME NEW f, \A c \in Cells : f[c] \in Nat, NEW C, C \subseteq Cells
  PROVE  IsFiniteSet(C) /\ Sum(f, C) \in Nat
<1>1. IsFiniteSet(C)
  BY Finite, FS_Subset
<1> QED
  BY <1>1, SumNat

\* Total is a sum over its argument's domain.
LEMMA TotalIsSum ==
  ASSUME NEW f, NEW S, DOMAIN f = S
  PROVE  Total(f) = Sum(f, S)
BY DEF Total, SumFunction, Sum

LEMMA TotalOver ==
  ASSUME NEW f, NEW g, NEW S, IsFiniteSet(S), f = [x \in S |-> g[x]]
  PROVE  Total(f) = Sum(g, S)
<1>1. DOMAIN f = S /\ \A x \in S : f[x] = g[x]
  OBVIOUS
<1>2. Sum(f, S) = Sum(g, S)
  BY <1>1, SumSame
<1> QED
  BY <1>1, <1>2, TotalIsSum

\* What the tables hold of the range is in step up to what was dropped.
LEMMA InStep ==
  ASSUME StatsTyped, Counts
  PROVE  /\ Sum(raw, RangeKinds) \in Nat /\ Sum(raw, RangeWebview) \in Nat
         /\ Sum(daily, RangeCells) \in Nat
         /\ Sum(raw, RangeWebview) <= Sum(raw, RangeKinds)
         /\ Sum(raw, RangeKinds) <= Sum(daily, RangeCells)
         /\ Sum(daily, RangeCells) <= Sum(raw, RangeKinds) + dropped
<1> DEFINE Rest == Cells \ RangeCells
<1>1. /\ RangeKinds \subseteq Kinds /\ RangeWebview \subseteq RangeKinds
      /\ RangeCells \subseteq Cells /\ Rest \subseteq Cells
      /\ RangeKinds \ RangeWebview \subseteq Kinds /\ RangeWebview \subseteq Kinds
  BY DEF RangeKinds, RangeWebview, RangeCells
<1>2. KindsIn(RangeCells) = RangeKinds /\ KindsIn(Rest) = Kinds \ RangeKinds
  BY Finite DEF KindsIn, RangeCells, RangeKinds, CellOf
<1>3. (\A k \in Kinds : raw[k] \in Nat) /\ (\A c \in Cells : daily[c] \in Nat)
      /\ dropped \in Nat
  BY DEF StatsTyped
<1> HIDE DEF Rest
<1>4. /\ Sum(raw, RangeKinds) \in Nat /\ Sum(raw, RangeWebview) \in Nat
      /\ Sum(raw, RangeKinds \ RangeWebview) \in Nat /\ IsFiniteSet(RangeKinds)
      /\ Sum(raw, Kinds \ RangeKinds) \in Nat /\ Sum(raw, Kinds) \in Nat
  <2>1. Kinds \ RangeKinds \subseteq Kinds /\ Kinds \subseteq Kinds
    OBVIOUS
  <2> QED
    BY <1>1, <1>3, <2>1, KindSums
<1>5. /\ Sum(daily, RangeCells) \in Nat /\ Sum(daily, Rest) \in Nat
      /\ Sum(daily, Cells) \in Nat
  BY <1>1, <1>3, CellSums
<1>6. Sum(raw, RangeKinds) = Sum(raw, RangeWebview) + Sum(raw, RangeKinds \ RangeWebview)
  <2>1. \A k \in RangeKinds : raw[k] \in Nat
    BY <1>1, <1>3
  <2> QED
    BY <1>1, <1>4, <2>1, SumSplit
<1>7. Sum(raw, Kinds) = Sum(raw, RangeKinds) + Sum(raw, Kinds \ RangeKinds)
  BY <1>1, <1>3, Finite, SumSplit
<1>8. Sum(daily, Cells) = Sum(daily, RangeCells) + Sum(daily, Rest)
  BY <1>1, <1>3, Finite, SumSplit DEF Rest
<1>9. /\ Sum(raw, RangeKinds) <= Sum(daily, RangeCells)
      /\ Sum(raw, Kinds \ RangeKinds) <= Sum(daily, Rest)
      /\ Sum(daily, Cells) = Sum(raw, Kinds) + dropped
  BY <1>1, <1>2 DEF Counts
<1> QED
  BY <1>3, <1>4, <1>5, <1>6, <1>7, <1>8, <1>9

-----------------------------------------------------------------------------
\* GROUP BY, for a column h of the rows in S that f counts.
IsGroup(g, f, S, h) ==
  g = [v \in {h[x] : x \in S} |-> Total([x \in AtValue(S, h, v) |-> f[x]])]
Having(S, h, P) == {x \in S : h[x] \in P}

LEMMA Grouped ==
  ASSUME NEW f, NEW S, IsFiniteSet(S), \A x \in S : f[x] \in Nat, NEW h,
         NEW g, IsGroup(g, f, S, h), NEW P, P \subseteq DOMAIN g
  PROVE  IsFiniteSet(P) /\ Sum(g, P) = Sum(f, Having(S, h, P))
<1> DEFINE H == Having(S, h, P)
<1>1. H \subseteq S /\ P = Values(H, h) /\ DOMAIN g = {h[x] : x \in S}
  BY DEF IsGroup, Having, Values
<1>2. IsFiniteSet(H) /\ \A x \in H : f[x] \in Nat
  BY <1>1, FS_Subset
<1>3. ASSUME NEW v \in P PROVE g[v] = Sum(f, AtValue(H, h, v))
  <2>1. AtValue(S, h, v) = AtValue(H, h, v) /\ AtValue(H, h, v) \subseteq H
    BY <1>1, <1>3 DEF AtValue, Having
  <2>2. IsFiniteSet(AtValue(H, h, v))
    BY <1>2, <2>1, FS_Subset
  <2> DEFINE A == AtValue(H, h, v)
             r == [x \in A |-> f[x]]
  <2>3. g[v] = Total(r)
    BY <1>1, <1>3, <2>1 DEF IsGroup
  <2>4. Total(r) = Sum(f, A)
    <3>1. IsFiniteSet(A) /\ r = [x \in A |-> f[x]]
      BY <2>2
    <3> HIDE DEF A, r
    <3> QED
      BY <3>1, TotalOver
  <2> QED
    BY <2>3, <2>4
<1>4. IsFiniteSet(P) /\ Sum(g, P) = Sum(f, H)
  <2>1. GroupSums(g, f, H, h)
    BY <1>1, <1>3 DEF GroupSums
  <2> HIDE DEF H
  <2> QED
    BY <1>1, <1>2, <2>1, SumFibers
<1> QED
  BY <1>4

\* What a query answers, when the tables hold r raw clicks of the range, w of them
\* in a webview, and d in the rollup.
Right(q, result, r, w, d) ==
  /\ q = "totals" => result.total = r /\ result.uniq \in Nat /\ result.uniq <= r
  /\ q = "byDevice" => SplitOf(result, TRUE) = w /\ SplitOf(result, FALSE) = r - w
  /\ q = "byNetwork" => Total(result) = w
  /\ q \in {"byDay", "byCountry"} => Total(result) = d
  /\ q = "referrers" => Total(result) \in Nat /\ Total(result) <= r

\* The condition of the queries selects every row of the range.
LEMMA Selected ==
  ASSUME StatsTyped, ScreenTyped, screen # NoScreen
  PROVE  /\ RawRange \subseteq RangeKinds /\ IsFiniteSet(RawRange)
         /\ \A k \in RawRange : raw[k] \in Nat \ {0}
         /\ Sum(raw, RawRange) = Sum(raw, RangeKinds)
         /\ DailyRange \subseteq RangeCells /\ IsFiniteSet(DailyRange)
         /\ \A c \in DailyRange : daily[c] \in Nat
         /\ Sum(daily, DailyRange) = Sum(daily, RangeCells)
<1>1. (\A k \in Kinds : raw[k] \in Nat) /\ \A c \in Cells : daily[c] \in Nat
  BY DEF StatsTyped
<1>2. /\ screen.from \in Nat /\ screen.to \in Nat /\ \A k \in Kinds : k.day \in Nat
      /\ \A c \in Cells : c[1] \in Nat
  BY Finite, StatsAssumption DEF ScreenTyped, Days, Cells
<1>3. /\ RawRange \subseteq RangeKinds /\ RangeKinds \subseteq Kinds
      /\ \A k \in RawRange : raw[k] \in Nat \ {0}
      /\ \A k \in RangeKinds \ RawRange : raw[k] = 0
  BY <1>1, <1>2 DEF RawRange, RangeKinds, Within
<1>4. /\ DailyRange \subseteq RangeCells /\ RangeCells \subseteq Cells
      /\ \A c \in RangeCells \ DailyRange : daily[c] = 0
  BY <1>1, <1>2 DEF DailyRange, RangeCells, Within
<1>5. IsFiniteSet(RangeKinds) /\ IsFiniteSet(RawRange)
  <2>1. RawRange \subseteq Kinds
    BY <1>3
  <2> QED
    BY <1>1, <1>3, <2>1, KindSums
<1>6. IsFiniteSet(RangeCells) /\ IsFiniteSet(DailyRange)
  <2>1. DailyRange \subseteq Cells
    BY <1>4
  <2> QED
    BY <1>1, <1>4, <2>1, CellSums
<1>7. Sum(raw, RawRange) = Sum(raw, RangeKinds)
  <2>1. \A k \in RangeKinds : raw[k] \in Nat
    BY <1>1, <1>3
  <2> QED
    BY <1>3, <1>5, <2>1, SumOfPart
<1>8. Sum(daily, DailyRange) = Sum(daily, RangeCells)
  <2>1. \A c \in RangeCells : daily[c] \in Nat
    BY <1>1, <1>4
  <2> QED
    BY <1>4, <1>6, <2>1, SumOfPart
<1> QED
  BY <1>1, <1>3, <1>4, <1>5, <1>6, <1>7, <1>8

LEMMA RightTotals ==
  ASSUME StatsTyped, ScreenTyped, screen # NoScreen, NEW result \in Results("totals")
  PROVE  /\ result.total = Sum(raw, RangeKinds)
         /\ result.uniq \in Nat /\ result.uniq <= Sum(raw, RangeKinds)
<1> DEFINE S == RawRange
           t == [k \in S |-> raw[k]]
           V == {k.visitor : k \in S}
           f == [k \in S |-> k.visitor]
<1>1. result = [total |-> Total(t), uniq |-> Cardinality(V)]
  BY DEF Results
<1>2. Total(t) = Sum(raw, RangeKinds)
  <2>1. IsFiniteSet(S) /\ t = [k \in S |-> raw[k]] /\ Sum(raw, S) = Sum(raw, RangeKinds)
    BY Selected
  <2> HIDE DEF S, t
  <2> QED
    BY <2>1, TotalOver
<1>3. IsFiniteSet(V) /\ Cardinality(V) <= Cardinality(S) /\ Cardinality(S) \in Nat
  <2>1. f \in Surjection(S, V) /\ IsFiniteSet(S)
    BY Selected DEF Surjection
  <2> HIDE DEF S, V, f
  <2> QED
    BY <2>1, FS_Surjection, FS_CardinalityType
<1>4. Cardinality(S) <= Sum(raw, RangeKinds) /\ Sum(raw, RangeKinds) \in Nat
  <2>1. IsFiniteSet(S) /\ (\A k \in S : raw[k] \in Nat \ {0})
        /\ Sum(raw, S) = Sum(raw, RangeKinds)
    BY Selected
  <2> HIDE DEF S
  <2>2. Cardinality(S) <= Sum(raw, S) /\ Sum(raw, S) \in Nat
    BY <2>1, SumAtLeastOneEach, SumNat
  <2> QED
    BY <2>1, <2>2
<1>5. Cardinality(V) \in Nat
  <2> HIDE DEF V
  <2> QED
    BY <1>3, FS_CardinalityType
<1> HIDE DEF S, t, V
<1> QED
  BY <1>1, <1>2, <1>3, <1>4, <1>5

\* What a part P of a grouped result adds up to.
LEMMA PartOfGroups ==
  ASSUME NEW f, NEW S, IsFiniteSet(S), \A x \in S : f[x] \in Nat, NEW h,
         NEW g, IsGroup(g, f, S, h), NEW P, P \subseteq DOMAIN g,
         NEW p, p = [v \in P |-> g[v]]
  PROVE  Total(p) = Sum(f, Having(S, h, P))
<1>1. IsFiniteSet(P) /\ Sum(g, P) = Sum(f, Having(S, h, P))
  BY Grouped
<1>2. Total(p) = Sum(g, P)
  BY <1>1, TotalOver
<1> QED
  BY <1>1, <1>2

LEMMA WholeGroups ==
  ASSUME NEW f, NEW S, IsFiniteSet(S), \A x \in S : f[x] \in Nat, NEW h,
         NEW g, IsGroup(g, f, S, h)
  PROVE  Total(g) = Sum(f, S)
<1> DEFINE P == DOMAIN g
<1>1. g = [v \in P |-> g[v]] /\ P \subseteq DOMAIN g
  BY DEF IsGroup
<1>2. Having(S, h, P) = S
  BY DEF IsGroup, Having
<1> HIDE DEF P
<1>3. Total(g) = Sum(f, Having(S, h, P))
  BY <1>1, PartOfGroups
<1> QED
  BY <1>2, <1>3

LEMMA RightDevices ==
  ASSUME StatsTyped, ScreenTyped, screen # NoScreen, NEW result \in Results("byDevice")
  PROVE  /\ SplitOf(result, TRUE) = Sum(raw, RangeWebview)
         /\ SplitOf(result, FALSE) = Sum(raw, RangeKinds) - Sum(raw, RangeWebview)
<1> DEFINE S == RawRange
           h == [k \in Kinds |-> <<k.device, k.webview>>]
           In(w) == {x \in DOMAIN result : x[2] = w}
<1>1. /\ S \subseteq RangeKinds /\ S \subseteq Kinds /\ IsFiniteSet(S)
      /\ \A k \in S : raw[k] \in Nat
      /\ Sum(raw, S) = Sum(raw, RangeKinds)
  BY Selected DEF RangeKinds
<1>2. IsGroup(result, raw, S, h)
  BY <1>1 DEF Results, GroupBy, IsGroup, AtValue
<1>3. ASSUME NEW w \in BOOLEAN
      PROVE  SplitOf(result, w) = Sum(raw, {k \in S : k.webview = w})
  <2>1. DOMAIN result = {h[k] : k \in S}
    BY <1>2 DEF IsGroup
  <2>2. Having(S, h, In(w)) = {k \in S : k.webview = w}
    BY <1>1, <2>1 DEF Having
  <2> DEFINE P == In(w)
             p == [v \in P |-> result[v]]
  <2>3. P \subseteq DOMAIN result /\ SplitOf(result, w) = Total(p)
    BY DEF SplitOf
  <2>4. Total(p) = Sum(raw, Having(S, h, P))
    <3>1. P \subseteq DOMAIN result /\ p = [v \in P |-> result[v]]
      BY <2>3
    <3> HIDE DEF S, h, P, p
    <3> QED
      BY <1>1, <1>2, <3>1, PartOfGroups
  <2> QED
    BY <2>2, <2>3, <2>4
<1> DEFINE T == {k \in S : k.webview = TRUE}
           F == {k \in S : k.webview = FALSE}
<1>4. T \subseteq RangeWebview /\ \A k \in RangeWebview \ T : raw[k] = 0
  <2>1. screen.from \in Nat /\ screen.to \in Nat /\ \A k \in Kinds : k.day \in Nat
    BY Finite, StatsAssumption DEF ScreenTyped, Days
  <2> QED
    BY <1>1, <2>1 DEF RangeWebview, RangeKinds, RawRange, Within, StatsTyped
<1>5. Sum(raw, T) = Sum(raw, RangeWebview)
  <2>1. RangeWebview \subseteq Kinds /\ \A k \in Kinds : raw[k] \in Nat
    BY DEF RangeWebview, RangeKinds, StatsTyped
  <2>2. IsFiniteSet(RangeWebview) /\ \A k \in RangeWebview : raw[k] \in Nat
    BY <2>1, KindSums
  <2> HIDE DEF T
  <2> QED
    BY <1>4, <2>2, SumOfPart
<1>6. Sum(raw, S) = Sum(raw, T) + Sum(raw, F)
  <2>1. F = S \ T /\ T \subseteq S
    BY <1>1, Finite
  <2> HIDE DEF S, T, F
  <2> QED
    BY <1>1, <2>1, SumSplit
<1>7. Sum(raw, S) \in Nat /\ Sum(raw, T) \in Nat /\ Sum(raw, F) \in Nat
  <2>1. T \subseteq Kinds /\ F \subseteq Kinds /\ \A k \in Kinds : raw[k] \in Nat
    BY <1>1 DEF StatsTyped
  <2> HIDE DEF S, T, F
  <2> QED
    BY <1>1, <2>1, KindSums
<1>8. SplitOf(result, TRUE) = Sum(raw, T) /\ SplitOf(result, FALSE) = Sum(raw, F)
  BY <1>3
<1> DEFINE t == Sum(raw, T)
           n == Sum(raw, F)
<1>9. t \in Nat /\ n \in Nat /\ Sum(raw, RangeKinds) = t + n
  <2> HIDE DEF S, T, F
  <2> QED
    BY <1>1, <1>6, <1>7
<1>10. /\ SplitOf(result, TRUE) = t /\ SplitOf(result, FALSE) = n
       /\ Sum(raw, RangeWebview) = t
  BY <1>5, <1>8
<1> HIDE DEF t, n
<1>11. (t + n) - t = n
  BY <1>9
<1> QED
  BY <1>9, <1>10, <1>11

LEMMA RightNetworks ==
  ASSUME StatsTyped, ScreenTyped, screen # NoScreen, NEW result \in Results("byNetwork")
  PROVE  Total(result) = Sum(raw, RangeWebview)
<1> DEFINE S == {k \in RawRange : k.webview}
           h == [k \in Kinds |-> k.network]
<1>1. /\ S \subseteq RangeWebview /\ RangeWebview \subseteq Kinds
      /\ \A k \in RangeWebview \ S : raw[k] = 0
      /\ \A k \in Kinds : raw[k] \in Nat
  <2>1. screen.from \in Nat /\ screen.to \in Nat /\ \A k \in Kinds : k.day \in Nat
    BY Finite, StatsAssumption DEF ScreenTyped, Days
  <2> QED
    BY <2>1 DEF RangeWebview, RangeKinds, RawRange, Within, StatsTyped
<1>2. IsGroup(result, raw, S, h)
  BY <1>1 DEF Results, GroupBy, IsGroup, AtValue
<1> HIDE DEF S, h
<1>3. IsFiniteSet(RangeWebview) /\ IsFiniteSet(S)
  <2>1. S \subseteq Kinds
    BY <1>1
  <2> QED
    BY <1>1, <2>1, KindSums
<1>4. \A k \in RangeWebview : raw[k] \in Nat
  BY <1>1
<1>5. Sum(raw, S) = Sum(raw, RangeWebview)
  BY <1>1, <1>3, <1>4, SumOfPart
<1>6. \A k \in S : raw[k] \in Nat
  BY <1>1, <1>4
<1>7. Total(result) = Sum(raw, S)
  BY <1>2, <1>3, <1>6, WholeGroups
<1> QED
  BY <1>5, <1>7

LEMMA RightDays ==
  ASSUME StatsTyped, ScreenTyped, screen # NoScreen, NEW result \in Results("byDay")
  PROVE  Total(result) = Sum(daily, RangeCells)
<1> DEFINE S == DailyRange
           h == [c \in Cells |-> c[1]]
<1>1. IsGroup(result, daily, S, h)
  BY DEF Results, IsGroup, AtValue, DailyRange
<1>2. /\ IsFiniteSet(S) /\ \A c \in S : daily[c] \in Nat
      /\ Sum(daily, S) = Sum(daily, RangeCells)
  BY Selected
<1> HIDE DEF S, h
<1>3. Total(result) = Sum(daily, S)
  BY <1>1, <1>2, WholeGroups
<1> QED
  BY <1>2, <1>3

LEMMA RightCountries ==
  ASSUME StatsTyped, ScreenTyped, screen # NoScreen, NEW result \in Results("byCountry")
  PROVE  Total(result) = Sum(daily, RangeCells)
<1> DEFINE S == DailyRange
           h == [c \in Cells |-> c[2]]
<1>1. IsGroup(result, daily, S, h)
  BY DEF Results, IsGroup, AtValue, DailyRange
<1>2. /\ IsFiniteSet(S) /\ \A c \in S : daily[c] \in Nat
      /\ Sum(daily, S) = Sum(daily, RangeCells)
  BY Selected
<1> HIDE DEF S, h
<1>3. Total(result) = Sum(daily, S)
  BY <1>1, <1>2, WholeGroups
<1> QED
  BY <1>2, <1>3

\* The referrers shown are some of them.
LEMMA RightReferrers ==
  ASSUME StatsTyped, ScreenTyped, screen # NoScreen, NEW result \in Results("referrers")
  PROVE  Total(result) \in Nat /\ Total(result) <= Sum(raw, RangeKinds)
<1> DEFINE S == RawRange
           h == [k \in Kinds |-> k.referer]
           g == GroupBy(RawRange, LAMBDA k : k.referer)
<1>1. /\ S \subseteq Kinds /\ IsFiniteSet(S) /\ \A k \in S : raw[k] \in Nat
      /\ Sum(raw, S) = Sum(raw, RangeKinds)
  BY Selected DEF RawRange
<1>2. IsGroup(g, raw, S, h)
  BY <1>1 DEF GroupBy, IsGroup, AtValue
<1>3. result \in Top(g)
  BY DEF Results
<1> HIDE DEF S, h, g
<1>4. PICK P \in SUBSET DOMAIN g : result = [v \in P |-> g[v]]
  BY <1>3 DEF Top
<1>5. Total(result) = Sum(raw, Having(S, h, P))
  <2>1. P \subseteq DOMAIN g
    BY <1>4
  <2> QED
    BY <1>1, <1>2, <1>4, <2>1, PartOfGroups
<1> DEFINE H == Having(S, h, P)
<1>6. H \subseteq S
  BY DEF Having
<1> HIDE DEF H
<1>7. Sum(raw, S) = Sum(raw, H) + Sum(raw, S \ H)
  BY <1>1, <1>6, SumSplit
<1>8. Sum(raw, S) \in Nat /\ Sum(raw, H) \in Nat /\ Sum(raw, S \ H) \in Nat
  <2>1. H \subseteq Kinds /\ S \ H \subseteq Kinds /\ \A k \in Kinds : raw[k] \in Nat
    BY <1>1, <1>6 DEF StatsTyped
  <2> QED
    BY <1>1, <2>1, KindSums
<1> QED
  BY <1>1, <1>5, <1>7, <1>8 DEF H

LEMMA RightResults ==
  ASSUME StatsTyped, ScreenTyped, screen # NoScreen,
         NEW q \in Queries, NEW result \in Results(q)
  PROVE  Right(q, result, Sum(raw, RangeKinds), Sum(raw, RangeWebview),
               Sum(daily, RangeCells))
BY RightTotals, RightDevices, RightNetworks, RightDays, RightCountries,
   RightReferrers DEF Right

-----------------------------------------------------------------------------
\* While n rows are written or dropped, no count of the tables moves further.
LEMMA Drifted ==
  ASSUME NEW r \in Nat, NEW w \in Nat, NEW d \in Nat, NEW t \in Nat, NEW gone \in Nat,
         NEW r2 \in Nat, NEW w2 \in Nat, NEW d2 \in Nat, NEW n \in Nat, NEW gone2 \in Nat,
         Near(r, r2, n), Near(w, w2, n), Near(d, d2, n), gone <= gone2,
         NEW got, Answered(got, r, w, d, t), Paired(got, t, gone)
  PROVE  Answered(got, r2, w2, d2, t + n) /\ Paired(got, t + n, gone2)
<1>1. \A x : /\ Off(x, r, t) => Off(x, r2, t + n)
             /\ Off(x, w, t) => Off(x, w2, t + n)
             /\ Off(x, d, t) => Off(x, d2, t + n)
             /\ AtMost(x, r, t) => AtMost(x, r2, t + n)
  BY DEF Off, AtMost, Near
<1>2. Answered(got, r2, w2, d2, t + n)
  BY <1>1 DEF Answered
<1>3. /\ Has(got, "totals") => RowsOf(got) \in Nat
      /\ Has(got, "byDevice") => WebviewOf(got) \in Nat /\ BrowsersOf(got) \in Nat
      /\ Has(got, "byNetwork") => NetworksOf(got) \in Nat
      /\ Has(got, "byDay") => DaysOf(got) \in Nat
      /\ Has(got, "byCountry") => CountriesOf(got) \in Nat
      /\ Has(got, "referrers") => ReferrersOf(got) \in Nat
  BY DEF Answered, Off, AtMost
<1>4. Paired(got, t + n, gone2)
  BY <1>3 DEF Paired, Near
<1> QED
  BY <1>2, <1>4

\* A result joins those already there.
LEMMA Joined ==
  ASSUME NEW r \in Nat, NEW w \in Nat, NEW d \in Nat, NEW t \in Nat, NEW gone \in Nat,
         w <= r, r <= d, d <= r + gone,
         NEW got, Answered(got, r, w, d, t), Paired(got, t, gone),
         NEW q \in Queries, q \notin DOMAIN got, NEW result, Right(q, result, r, w, d),
         NEW got2, got2 = [x \in DOMAIN got \cup {q} |-> IF x = q THEN result ELSE got[x]]
  PROVE  Answered(got2, r, w, d, t) /\ Paired(got2, t, gone)
<1>1. \A p : Has(got2, p) <=> Has(got, p) \/ p = q
  BY DEF Has
<1>2. \A p : Has(got, p) => p # q
  BY DEF Has
<1>3. /\ got2[q] = result
      /\ \A p : Has(got, p) => got2[p] = got[p]
  BY <1>2 DEF Has
<1>4. /\ Has(got, "totals") => /\ RowsOf(got2) = RowsOf(got)
                               /\ VisitorsOf(got2) = VisitorsOf(got)
      /\ Has(got, "byDevice") => /\ WebviewOf(got2) = WebviewOf(got)
                                 /\ BrowsersOf(got2) = BrowsersOf(got)
      /\ Has(got, "byNetwork") => NetworksOf(got2) = NetworksOf(got)
      /\ Has(got, "byDay") => DaysOf(got2) = DaysOf(got)
      /\ Has(got, "byCountry") => CountriesOf(got2) = CountriesOf(got)
      /\ Has(got, "referrers") => ReferrersOf(got2) = ReferrersOf(got)
  BY <1>3 DEF RowsOf, VisitorsOf, WebviewOf, BrowsersOf, NetworksOf, DaysOf,
              CountriesOf, ReferrersOf
<1>5. /\ q = "totals" => /\ RowsOf(got2) = r
                         /\ VisitorsOf(got2) \in Nat /\ VisitorsOf(got2) <= r
      /\ q = "byDevice" => WebviewOf(got2) = w /\ BrowsersOf(got2) = r - w
      /\ q = "byNetwork" => NetworksOf(got2) = w
      /\ q = "byDay" => DaysOf(got2) = d
      /\ q = "byCountry" => CountriesOf(got2) = d
      /\ q = "referrers" => ReferrersOf(got2) \in Nat /\ ReferrersOf(got2) <= r
  BY <1>3 DEF Right, RowsOf, VisitorsOf, WebviewOf, BrowsersOf, NetworksOf, DaysOf,
              CountriesOf, ReferrersOf
<1>6. /\ Off(r, r, t) /\ Off(w, w, t) /\ Off(d, d, t)
      /\ \A n \in Nat : n <= r => AtMost(n, r, 0) /\ AtMost(n, r, t)
      /\ r - w \in Nat /\ w + (r - w) = r
  BY DEF Off, AtMost, Near
<1>7. Answered(got2, r, w, d, t)
  BY <1>1, <1>4, <1>5, <1>6 DEF Answered
<1>8. \A x \in Nat :
        /\ Off(x, r, t) => Near(x, r, t) /\ Near(r, x, t) /\ x <= d + t /\ d <= x + gone + t
        /\ Off(x, w, t) => Near(x, w, t) /\ Near(w, x, t)
        /\ Off(x, d, t) => Near(x, d, t) /\ Near(d, x, t) /\ r <= x + t /\ x <= r + gone + t
        /\ AtMost(x, r, t) => x <= r + t
        /\ Off(x, r, t) => \A y \in Nat : y <= r => y <= x + t
  BY DEF Off, AtMost, Near
<1>9. /\ Has(got, "totals") => RowsOf(got) \in Nat /\ Off(RowsOf(got), r, t)
      /\ Has(got, "byDevice") =>
           /\ WebviewOf(got) \in Nat /\ Off(WebviewOf(got), w, t)
           /\ WebviewOf(got) + BrowsersOf(got) \in Nat
           /\ Off(WebviewOf(got) + BrowsersOf(got), r, t)
      /\ Has(got, "byNetwork") => NetworksOf(got) \in Nat /\ Off(NetworksOf(got), w, t)
      /\ Has(got, "byDay") => DaysOf(got) \in Nat /\ Off(DaysOf(got), d, t)
      /\ Has(got, "byCountry") => CountriesOf(got) \in Nat /\ Off(CountriesOf(got), d, t)
      /\ Has(got, "referrers") => ReferrersOf(got) \in Nat /\ AtMost(ReferrersOf(got), r, t)
  BY DEF Answered, Off, AtMost
<1>10. Paired(got2, t, gone)
  BY <1>1, <1>4, <1>5, <1>6, <1>8, <1>9 DEF Paired, Queries
<1> QED
  BY <1>7, <1>10

-----------------------------------------------------------------------------
\* A click flushed is one row more of its kind, and one more in its cell.
LEMMA FlushedRows ==
  ASSUME StatsTyped, NEW k \in Kinds, FlushClick(k), NEW U, U \subseteq Kinds
  PROVE  Sum(raw', U) = IF k \in U THEN Sum(raw, U) + 1 ELSE Sum(raw, U)
<1>1. \A x \in U : raw[x] \in Nat /\ raw'[x] = IF x = k THEN raw[x] + 1 ELSE raw[x]
  BY DEF StatsTyped, FlushClick
<1>2. IsFiniteSet(U)
  BY Finite, FS_Subset
<1> DEFINE g == raw'
<1>3. (\A x \in U : raw[x] \in Nat) /\ \A x \in U : g[x] = IF x = k THEN raw[x] + 1 ELSE raw[x]
  BY <1>1
<1> HIDE DEF g
<1>4. Sum(g, U) = IF k \in U THEN Sum(raw, U) + 1 ELSE Sum(raw, U)
  BY <1>2, <1>3, SumOneMore
<1> QED
  BY <1>4 DEF g

LEMMA FlushedCounts ==
  ASSUME StatsTyped, NEW k \in Kinds, FlushClick(k), NEW C, C \subseteq Cells
  PROVE  Sum(daily', C) = IF CellOf(k) \in C THEN Sum(daily, C) + 1 ELSE Sum(daily, C)
<1> DEFINE g == daily'
           a == CellOf(k)
<1>1. IsFiniteSet(C)
  BY Finite, FS_Subset
<1>2. (\A x \in C : daily[x] \in Nat) /\ \A x \in C : g[x] = IF x = a THEN daily[x] + 1 ELSE daily[x]
  BY DEF StatsTyped, FlushClick, CellOf
<1> HIDE DEF g, a
<1>3. Sum(g, C) = IF a \in C THEN Sum(daily, C) + 1 ELSE Sum(daily, C)
  BY <1>1, <1>2, SumOneMore
<1> QED
  BY <1>3 DEF g, a

\* What roll_partitions drops, it drops from what is there.
Gone(d) == Total([k \in {j \in Kinds : j.day <= d} |-> raw[k]])

LEMMA DroppedRows ==
  ASSUME StatsTyped, NEW d \in Days, DropClicks(d), NEW U, U \subseteq Kinds
  PROVE  /\ Gone(d) \in Nat /\ Sum(raw, U) \in Nat /\ Sum(raw', U) \in Nat
         /\ Sum(raw', U) <= Sum(raw, U) /\ Sum(raw, U) <= Sum(raw', U) + Gone(d)
         /\ Sum(raw, Kinds) = Sum(raw', Kinds) + Gone(d)
<1> DEFINE Old == {j \in Kinds : j.day <= d}
           g == [k \in Kinds |-> IF k.day <= d THEN raw[k] ELSE 0]
           h == raw'
           o == [k \in Old |-> raw[k]]
<1>1. \A k \in Kinds : raw[k] \in Nat /\ g[k] \in Nat /\ h[k] \in Nat /\ raw[k] = h[k] + g[k]
  BY DEF StatsTyped, DropClicks
<1>2. Old \subseteq Kinds /\ (\A k \in Kinds \ Old : g[k] = 0) /\ \A k \in Old : g[k] = raw[k]
  OBVIOUS
<1>3. Gone(d) = Total(o)
  BY DEF Gone
<1>4. o = [k \in Old |-> raw[k]]
  OBVIOUS
<1> HIDE DEF Old, g, h, o
<1>5. (\A k \in Kinds : raw[k] \in Nat) /\ (\A k \in Kinds : g[k] \in Nat)
      /\ \A k \in Kinds : h[k] \in Nat
  BY <1>1
<1>6. Gone(d) = Sum(g, Kinds)
  <2>1. IsFiniteSet(Old) /\ IsFiniteSet(Kinds)
    BY <1>2, <1>5, KindSums, Finite
  <2>2. Total(o) = Sum(raw, Old)
    BY <1>4, <2>1, TotalOver
  <2>3. Sum(raw, Old) = Sum(g, Old)
    BY <1>2, <2>1, SumSame
  <2>4. Sum(g, Old) = Sum(g, Kinds)
    BY <1>2, <1>5, <2>1, SumOfPart
  <2> QED
    BY <1>3, <2>2, <2>3, <2>4
<1>7. ASSUME NEW W, W \subseteq Kinds
      PROVE  /\ Sum(raw, W) \in Nat /\ Sum(h, W) \in Nat /\ Sum(g, W) \in Nat
             /\ Sum(raw, W) = Sum(h, W) + Sum(g, W)
  <2>1. Sum(raw, W) \in Nat /\ Sum(h, W) \in Nat /\ Sum(g, W) \in Nat /\ IsFiniteSet(W)
    BY <1>5, <1>7, KindSums
  <2>2. \A k \in W : h[k] \in Nat /\ g[k] \in Nat /\ raw[k] = h[k] + g[k]
    BY <1>1, <1>7
  <2>3. Sum(raw, W) = Sum(h, W) + Sum(g, W)
    BY <2>1, <2>2, SumPlus
  <2> QED
    BY <2>1, <2>3
<1>8. Sum(g, Kinds) = Sum(g, U) + Sum(g, Kinds \ U)
  BY <1>5, Finite, SumSplit
<1>9. Kinds \subseteq Kinds /\ Kinds \ U \subseteq Kinds
  OBVIOUS
<1>10. Sum(g, Kinds) \in Nat /\ Sum(g, U) \in Nat /\ Sum(g, Kinds \ U) \in Nat
  BY <1>7, <1>9
<1>11. /\ Sum(raw, U) \in Nat /\ Sum(h, U) \in Nat /\ Sum(raw, U) = Sum(h, U) + Sum(g, U)
       /\ Sum(raw, Kinds) = Sum(h, Kinds) + Sum(g, Kinds)
  BY <1>7, <1>9
<1>12. Sum(h, U) <= Sum(raw, U) /\ Sum(raw, U) <= Sum(h, U) + Sum(g, Kinds)
  BY <1>8, <1>10, <1>11
<1> QED
  BY <1>6, <1>10, <1>11, <1>12 DEF h

-----------------------------------------------------------------------------
LEMMA StatsInvInit == StatsInit => StatsInv
<1> SUFFICES ASSUME StatsInit PROVE StatsInv
  OBVIOUS
<1>1. StatsTyped
  BY DEF StatsInit, StatsTyped
<1>2. ScreenTyped /\ ResultsHold
  BY DEF StatsInit, ScreenTyped, ResultsHold, Reading
<1>3. ASSUME NEW U, U \subseteq Kinds PROVE Sum(raw, U) = 0
  <2>1. IsFiniteSet(U) /\ \A k \in U : raw[k] = 0
    BY <1>3, Finite, FS_Subset DEF StatsInit
  <2> QED
    BY <2>1, SumZeros
<1>4. ASSUME NEW C, C \subseteq Cells PROVE Sum(daily, C) = 0
  <2>1. IsFiniteSet(C) /\ \A c \in C : daily[c] = 0
    BY <1>4, Finite, FS_Subset DEF StatsInit
  <2> QED
    BY <2>1, SumZeros
<1>5. Counts
  <2>1. \A C \in SUBSET Cells : Sum(raw, KindsIn(C)) <= Sum(daily, C)
    BY <1>3, <1>4 DEF KindsIn
  <2>2. Sum(raw, Kinds) = 0 /\ Sum(daily, Cells) = 0
    BY <1>3, <1>4
  <2> QED
    BY <2>1, <2>2, StatsAssumption DEF Counts, StatsInit
<1> QED
  BY <1>1, <1>2, <1>5 DEF StatsInv

\* The counts are kept by every step that touches the tables.
LEMMA CountsFlushed ==
  ASSUME StatsTyped, Counts, NEW k \in Kinds, FlushClick(k)
  PROVE  StatsTyped' /\ Counts'
<1>1. StatsTyped'
  <2>1. \A x \in Kinds : raw[x] + 1 \in Nat
    BY DEF StatsTyped
  <2>2. raw' \in [Kinds -> Nat]
    BY <2>1 DEF StatsTyped, FlushClick
  <2>3. \A c \in Cells : daily[c] + 1 \in Nat
    BY DEF StatsTyped
  <2>4. daily' \in [Cells -> Nat]
    BY <2>3 DEF StatsTyped, FlushClick
  <2>5. dropped' \in Nat /\ touched' \in Nat
    BY DEF StatsTyped, FlushClick
  <2> QED
    BY <2>2, <2>4, <2>5 DEF StatsTyped
<1>2. (\A x \in Kinds : raw[x] \in Nat) /\ \A c \in Cells : daily[c] \in Nat
  BY DEF StatsTyped
<1>3. ASSUME NEW C \in SUBSET Cells PROVE Sum(raw', KindsIn(C)) <= Sum(daily', C)
  <2>1. KindsIn(C) \subseteq Kinds /\ C \subseteq Cells /\ (k \in KindsIn(C) <=> CellOf(k) \in C)
    BY DEF KindsIn
  <2>2. Sum(raw, KindsIn(C)) \in Nat /\ Sum(daily, C) \in Nat
    BY <1>2, <2>1, KindSums, CellSums
  <2>3. Sum(raw, KindsIn(C)) <= Sum(daily, C)
    BY DEF Counts
  <2>4. /\ Sum(raw', KindsIn(C)) = IF k \in KindsIn(C) THEN Sum(raw, KindsIn(C)) + 1
                                                       ELSE Sum(raw, KindsIn(C))
        /\ Sum(daily', C) = IF CellOf(k) \in C THEN Sum(daily, C) + 1 ELSE Sum(daily, C)
    BY <2>1, FlushedRows, FlushedCounts
  <2> QED
    BY <2>1, <2>2, <2>3, <2>4
<1>4. Sum(raw', Kinds) = Sum(raw, Kinds) + 1 /\ Sum(daily', Cells) = Sum(daily, Cells) + 1
  <2>1. Kinds \subseteq Kinds /\ Cells \subseteq Cells /\ CellOf(k) \in Cells
    BY Finite
  <2> QED
    BY <2>1, FlushedRows, FlushedCounts
<1>5. Sum(raw, Kinds) \in Nat /\ Sum(daily, Cells) \in Nat
  <2>1. Kinds \subseteq Kinds /\ Cells \subseteq Cells
    OBVIOUS
  <2> QED
    BY <1>2, <2>1, KindSums, CellSums
<1>6. Sum(daily, Cells) < MaxClicks /\ dropped' = dropped
      /\ (touched' = touched + 1 \/ touched' = touched)
  <2>1. Total(daily) = Sum(daily, Cells)
    BY TotalIsSum DEF StatsTyped
  <2> QED
    BY <2>1 DEF FlushClick
<1>7. /\ Sum(daily', Cells) = Sum(raw', Kinds) + dropped'
      /\ Sum(daily', Cells) <= MaxClicks
      /\ touched' <= Sum(daily', Cells) + dropped'
  <2>1. /\ Sum(daily, Cells) = Sum(raw, Kinds) + dropped
        /\ touched <= Sum(daily, Cells) + dropped
        /\ dropped \in Nat /\ touched \in Nat /\ MaxClicks \in Nat
    BY StatsAssumption DEF Counts, StatsTyped
  <2> QED
    BY <1>4, <1>5, <1>6, <2>1
<1>8. \A C \in SUBSET Cells : Sum(raw', KindsIn(C)) <= Sum(daily', C)
  BY <1>3
<1> QED
  BY <1>1, <1>7, <1>8 DEF Counts

LEMMA CountsDropped ==
  ASSUME StatsTyped, Counts, NEW d \in Days, DropClicks(d)
  PROVE  StatsTyped' /\ Counts'
<1>1. Gone(d) \in Nat
  BY DroppedRows
<1>2. /\ raw' = [k \in Kinds |-> IF k.day <= d THEN 0 ELSE raw[k]]
      /\ dropped' = dropped + Gone(d) /\ daily' = daily
      /\ touched' = touched + Gone(d) \/ touched' = touched
  BY DEF DropClicks, Gone
<1>3. StatsTyped'
  BY <1>1, <1>2 DEF StatsTyped
<1>4. ASSUME NEW C \in SUBSET Cells PROVE Sum(raw', KindsIn(C)) <= Sum(daily', C)
  <2>1. KindsIn(C) \subseteq Kinds /\ C \subseteq Cells
    BY DEF KindsIn
  <2>2. Sum(raw', KindsIn(C)) <= Sum(raw, KindsIn(C))
        /\ Sum(raw', KindsIn(C)) \in Nat /\ Sum(raw, KindsIn(C)) \in Nat
    BY <2>1, DroppedRows
  <2>3. Sum(raw, KindsIn(C)) <= Sum(daily, C)
    BY DEF Counts
  <2>4. Sum(daily, C) \in Nat
    <3>1. \A c \in Cells : daily[c] \in Nat
      BY DEF StatsTyped
    <3> QED
      BY <2>1, <3>1, CellSums
  <2> QED
    BY <1>2, <2>2, <2>3, <2>4
<1>5. /\ Sum(raw, Kinds) = Sum(raw', Kinds) + Gone(d)
      /\ Sum(raw', Kinds) \in Nat /\ Sum(raw, Kinds) \in Nat
  <2>1. Kinds \subseteq Kinds
    OBVIOUS
  <2> QED
    BY <2>1, DroppedRows
<1>6. /\ Sum(daily, Cells) = Sum(raw, Kinds) + dropped
      /\ Sum(daily, Cells) <= MaxClicks
      /\ touched <= Sum(daily, Cells) + dropped
      /\ dropped \in Nat /\ touched \in Nat /\ MaxClicks \in Nat
  BY StatsAssumption DEF Counts, StatsTyped
<1>7. /\ Sum(daily', Cells) = Sum(raw', Kinds) + dropped'
      /\ Sum(daily', Cells) <= MaxClicks
      /\ touched' <= Sum(daily', Cells) + dropped'
  BY <1>1, <1>2, <1>5, <1>6
<1>8. \A C \in SUBSET Cells : Sum(raw', KindsIn(C)) <= Sum(daily', C)
  BY <1>4
<1> QED
  BY <1>3, <1>7, <1>8 DEF Counts

\* Nothing but the screen changes, and what was touched at most starts again.
LEMMA CountsKept ==
  ASSUME StatsTyped, Counts, raw' = raw, daily' = daily, dropped' = dropped,
         touched' = touched \/ touched' = 0
  PROVE  StatsTyped' /\ Counts'
<1>1. StatsTyped'
  BY DEF StatsTyped
<1>2. Sum(daily, Cells) \in Nat
  <2>1. (\A c \in Cells : daily[c] \in Nat) /\ Cells \subseteq Cells
    BY DEF StatsTyped
  <2> QED
    BY <2>1, CellSums
<1>3. touched' <= Sum(daily, Cells) + dropped
  BY <1>2 DEF Counts, StatsTyped
<1>4. Counts'
  BY <1>3 DEF Counts
<1> QED
  BY <1>1, <1>4

-----------------------------------------------------------------------------
\* The results answered stay as near to the tables as what was touched allows.
LEMMA ResultsFlushed ==
  ASSUME StatsInv, NEW k \in Kinds, FlushClick(k)
  PROVE  ScreenTyped' /\ ResultsHold'
<1>1. ScreenTyped'
  BY DEF StatsInv, ScreenTyped, FlushClick
<1>2. ASSUME Reading'
      PROVE  /\ Answered(screen.got, Sum(raw', RangeKinds), Sum(raw', RangeWebview),
                         Sum(daily', RangeCells), touched')
             /\ Paired(screen.got, touched', dropped')
  <2>1. Reading /\ touched' = touched + 1 /\ dropped' = dropped
    BY <1>2 DEF FlushClick, Reading
  <2> DEFINE r == Sum(raw, RangeKinds)
             w == Sum(raw, RangeWebview)
             d == Sum(daily, RangeCells)
             r2 == Sum(raw', RangeKinds)
             w2 == Sum(raw', RangeWebview)
             d2 == Sum(daily', RangeCells)
  <2>2. r \in Nat /\ w \in Nat /\ d \in Nat /\ touched \in Nat /\ dropped \in Nat
    BY InStep DEF StatsInv, StatsTyped
  <2>3. (r2 = r \/ r2 = r + 1) /\ (w2 = w \/ w2 = w + 1) /\ (d2 = d \/ d2 = d + 1)
    <3>1. RangeKinds \subseteq Kinds /\ RangeWebview \subseteq Kinds /\ RangeCells \subseteq Cells
      BY DEF RangeKinds, RangeWebview, RangeCells
    <3> QED
      BY <3>1, FlushedRows, FlushedCounts DEF StatsInv
  <2>4. Answered(screen.got, r, w, d, touched) /\ Paired(screen.got, touched, dropped)
    BY <2>1 DEF StatsInv, ResultsHold
  <2> HIDE DEF r, w, d, r2, w2, d2
  <2>5. /\ r2 \in Nat /\ w2 \in Nat /\ d2 \in Nat /\ 1 \in Nat
        /\ Near(r, r2, 1) /\ Near(w, w2, 1) /\ Near(d, d2, 1) /\ dropped <= dropped
    BY <2>2, <2>3 DEF Near
  <2>6. Answered(screen.got, r2, w2, d2, touched + 1) /\ Paired(screen.got, touched + 1, dropped)
    BY <2>2, <2>4, <2>5, Drifted
  <2> QED
    BY <2>1, <2>6 DEF r2, w2, d2
<1>3. screen' = screen
  BY DEF FlushClick
<1>4. RangeKinds' = RangeKinds /\ RangeWebview' = RangeWebview /\ RangeCells' = RangeCells
  BY <1>3 DEF RangeKinds, RangeWebview, RangeCells, Within
<1>5. ResultsHold'
  BY <1>2, <1>3, <1>4 DEF ResultsHold
<1> QED
  BY <1>1, <1>5

LEMMA ResultsDropped ==
  ASSUME StatsInv, NEW day \in Days, DropClicks(day)
  PROVE  ScreenTyped' /\ ResultsHold'
<1>1. ScreenTyped'
  BY DEF StatsInv, ScreenTyped, DropClicks
<1>2. ASSUME Reading'
      PROVE  /\ Answered(screen.got, Sum(raw', RangeKinds), Sum(raw', RangeWebview),
                         Sum(daily', RangeCells), touched')
             /\ Paired(screen.got, touched', dropped')
  <2> DEFINE n == Gone(day)
             r == Sum(raw, RangeKinds)
             w == Sum(raw, RangeWebview)
             d == Sum(daily, RangeCells)
             r2 == Sum(raw', RangeKinds)
             w2 == Sum(raw', RangeWebview)
  <2>1. /\ Reading /\ touched' = touched + n /\ dropped' = dropped + n
        /\ daily' = daily
    BY <1>2 DEF DropClicks, Reading, Gone
  <2>2. r \in Nat /\ w \in Nat /\ d \in Nat /\ touched \in Nat /\ dropped \in Nat
    BY InStep DEF StatsInv, StatsTyped
  <2>3. /\ n \in Nat /\ r2 \in Nat /\ w2 \in Nat
        /\ r2 <= r /\ r <= r2 + n /\ w2 <= w /\ w <= w2 + n
    <3>1. RangeKinds \subseteq Kinds /\ RangeWebview \subseteq Kinds
      BY DEF RangeKinds, RangeWebview
    <3> QED
      BY <3>1, DroppedRows DEF StatsInv
  <2>4. Answered(screen.got, r, w, d, touched) /\ Paired(screen.got, touched, dropped)
    BY <2>1 DEF StatsInv, ResultsHold
  <2> HIDE DEF n, r, w, d, r2, w2
  <2>5. /\ Near(r, r2, n) /\ Near(w, w2, n) /\ Near(d, d, n)
        /\ dropped + n \in Nat /\ dropped <= dropped + n
    BY <2>2, <2>3 DEF Near
  <2>6. /\ Answered(screen.got, r2, w2, d, touched + n)
        /\ Paired(screen.got, touched + n, dropped + n)
    BY <2>2, <2>3, <2>4, <2>5, Drifted
  <2> QED
    BY <2>1, <2>6 DEF r2, w2, d
<1>3. screen' = screen
  BY DEF DropClicks
<1>4. RangeKinds' = RangeKinds /\ RangeWebview' = RangeWebview /\ RangeCells' = RangeCells
  BY <1>3 DEF RangeKinds, RangeWebview, RangeCells, Within
<1>5. ResultsHold'
  BY <1>2, <1>3, <1>4 DEF ResultsHold
<1> QED
  BY <1>1, <1>5

\* Every step keeps what the screen shows near to the tables.
LEMMA ResultsNext ==
  ASSUME StatsInv, StatsNext
  PROVE  ScreenTyped' /\ ResultsHold'
<1>1. ASSUME NEW range \in Ranges, Open(range)
      PROVE  ScreenTyped' /\ ResultsHold'
  <2>1. range[1] \in Days /\ range[2] \in Days
    BY StatsAssumption
  <2>2. DOMAIN << >> = {}
    OBVIOUS
  <2>3. screen' = [at |-> "loading", from |-> range[1], to |-> range[2], got |-> << >>]
    BY <1>1 DEF Open
  <2>4. ScreenTyped'
    BY <2>1, <2>2, <2>3 DEF ScreenTyped
  <2>5. ~Reading'
    BY <2>3 DEF Reading
  <2> QED
    BY <2>4, <2>5 DEF ResultsHold
<1>2. ASSUME NEW link \in LinkRows, ResolveLink(link)
      PROVE  ScreenTyped' /\ ResultsHold'
  <2>1. screen # NoScreen /\ screen.at = "loading" /\ ScreenTyped
    BY <1>2 DEF ResolveLink, NoScreen, StatsInv
  <2>2. PICK at \in {"error", "off", "queries"} : screen' = [screen EXCEPT !.at = at]
    BY <1>2 DEF ResolveLink
  <2>3. /\ DOMAIN screen' = {"at", "from", "to", "got"} /\ screen'.at = at
        /\ screen'.from = screen.from /\ screen'.to = screen.to /\ screen'.got = screen.got
    BY <2>1, <2>2 DEF ScreenTyped
  <2>4. DOMAIN screen'.got = {}
    BY <2>1, <2>3 DEF ScreenTyped
  <2>5. ScreenTyped'
    BY <2>1, <2>3, <2>4 DEF ScreenTyped
  <2>6. ResultsHold'
    BY <2>4 DEF ResultsHold, Answered, Paired, Has
  <2> QED
    BY <2>5, <2>6
<1>3. ASSUME NEW q \in Queries, RunQuery(q)
      PROVE  ScreenTyped' /\ ResultsHold'
  <2>1. screen # NoScreen /\ screen.at = "queries" /\ ScreenTyped /\ q \notin DOMAIN screen.got
    BY <1>3 DEF RunQuery, NoScreen, StatsInv
  <2>2. CASE screen' = [screen EXCEPT !.at = "error"]
    <3>1. /\ DOMAIN screen' = {"at", "from", "to", "got"} /\ screen'.at = "error"
          /\ screen'.from = screen.from /\ screen'.to = screen.to /\ screen'.got = screen.got
      BY <2>1, <2>2 DEF ScreenTyped
    <3> QED
      BY <2>1, <3>1 DEF ScreenTyped, ResultsHold, Reading
  <2>3. ASSUME NEW result \in Results(q),
               screen' = [screen EXCEPT !.got = [x \in DOMAIN @ \cup {q} |->
                                                    IF x = q THEN result ELSE @[x]]]
        PROVE  ScreenTyped' /\ ResultsHold'
    <3> DEFINE got2 == [x \in DOMAIN screen.got \cup {q} |->
                          IF x = q THEN result ELSE screen.got[x]]
               r == Sum(raw, RangeKinds)
               w == Sum(raw, RangeWebview)
               d == Sum(daily, RangeCells)
    <3>1. /\ DOMAIN screen' = {"at", "from", "to", "got"} /\ screen'.at = "queries"
          /\ screen'.from = screen.from /\ screen'.to = screen.to /\ screen'.got = got2
      BY <2>1, <2>3 DEF ScreenTyped
    <3>2. DOMAIN got2 = DOMAIN screen.got \cup {q}
      OBVIOUS
    <3>3. ScreenTyped'
      BY <2>1, <3>1, <3>2 DEF ScreenTyped
    <3>4. /\ r \in Nat /\ w \in Nat /\ d \in Nat /\ touched \in Nat /\ dropped \in Nat
          /\ w <= r /\ r <= d /\ d <= r + dropped
      BY InStep DEF StatsInv, StatsTyped
    <3>5. Right(q, result, r, w, d)
      BY <2>1, <2>3, RightResults DEF StatsInv
    <3>6. Answered(screen.got, r, w, d, touched) /\ Paired(screen.got, touched, dropped)
      BY <2>1 DEF StatsInv, ResultsHold, Reading
    <3> DEFINE got == screen.got
    <3>7. q \notin DOMAIN got /\ Answered(got, r, w, d, touched) /\ Paired(got, touched, dropped)
          /\ got2 = [x \in DOMAIN got \cup {q} |-> IF x = q THEN result ELSE got[x]]
      BY <2>1, <3>6
    <3> HIDE DEF got, got2, r, w, d
    <3>8. Answered(got2, r, w, d, touched) /\ Paired(got2, touched, dropped)
      BY <3>4, <3>5, <3>7, Joined
    <3>9. /\ RangeKinds' = RangeKinds /\ RangeWebview' = RangeWebview
          /\ RangeCells' = RangeCells
      BY <3>1 DEF RangeKinds, RangeWebview, RangeCells, Within
    <3>10. raw' = raw /\ daily' = daily /\ dropped' = dropped /\ touched' = touched
      BY <1>3 DEF RunQuery
    <3>11. ResultsHold'
      BY <3>1, <3>8, <3>9, <3>10 DEF ResultsHold, r, w, d
    <3> QED
      BY <3>3, <3>11
  <2> QED
    BY <1>3, <2>2, <2>3 DEF RunQuery
<1>4. ASSUME ShowStats
      PROVE  ScreenTyped' /\ ResultsHold'
  <2>1. screen # NoScreen /\ screen.at = "queries" /\ ScreenTyped /\ DOMAIN screen.got = Queries
    BY <1>4 DEF ShowStats, NoScreen, StatsInv
  <2>2. /\ DOMAIN screen' = {"at", "from", "to", "got"} /\ screen'.at = "shown"
        /\ screen'.from = screen.from /\ screen'.to = screen.to /\ screen'.got = screen.got
        /\ UNCHANGED <<raw, daily, dropped, touched>>
    BY <1>4, <2>1 DEF ShowStats, ScreenTyped
  <2>3. ScreenTyped'
    BY <2>1, <2>2 DEF ScreenTyped
  <2>4. RangeKinds' = RangeKinds /\ RangeWebview' = RangeWebview /\ RangeCells' = RangeCells
    BY <2>2 DEF RangeKinds, RangeWebview, RangeCells, Within
  <2>5. ResultsHold'
    BY <2>1, <2>2, <2>4 DEF StatsInv, ResultsHold, Reading
  <2> QED
    BY <2>3, <2>5
<1>5. ASSUME Back
      PROVE  ScreenTyped' /\ ResultsHold'
  BY <1>5 DEF Back, ScreenTyped, ResultsHold, Reading
<1>6. ASSUME NEW k \in Kinds, FlushClick(k)
      PROVE  ScreenTyped' /\ ResultsHold'
  BY <1>6, ResultsFlushed
<1>7. ASSUME NEW day \in Days, DropClicks(day)
      PROVE  ScreenTyped' /\ ResultsHold'
  BY <1>7, ResultsDropped
<1> QED
  BY <1>1, <1>2, <1>3, <1>4, <1>5, <1>6, <1>7 DEF StatsNext

LEMMA CountsNext ==
  ASSUME StatsInv, StatsNext
  PROVE  StatsTyped' /\ Counts'
<1>1. ASSUME NEW range \in Ranges, Open(range)
      PROVE  StatsTyped' /\ Counts'
  BY <1>1, CountsKept DEF StatsInv, Open
<1>2. ASSUME NEW link \in LinkRows, ResolveLink(link)
      PROVE  StatsTyped' /\ Counts'
  BY <1>2, CountsKept DEF StatsInv, ResolveLink
<1>3. ASSUME NEW q \in Queries, RunQuery(q)
      PROVE  StatsTyped' /\ Counts'
  BY <1>3, CountsKept DEF StatsInv, RunQuery
<1>4. ASSUME ShowStats
      PROVE  StatsTyped' /\ Counts'
  BY <1>4, CountsKept DEF StatsInv, ShowStats
<1>5. ASSUME Back
      PROVE  StatsTyped' /\ Counts'
  BY <1>5, CountsKept DEF StatsInv, Back
<1>6. ASSUME NEW k \in Kinds, FlushClick(k)
      PROVE  StatsTyped' /\ Counts'
  BY <1>6, CountsFlushed DEF StatsInv
<1>7. ASSUME NEW day \in Days, DropClicks(day)
      PROVE  StatsTyped' /\ Counts'
  BY <1>7, CountsDropped DEF StatsInv
<1> QED
  BY <1>1, <1>2, <1>3, <1>4, <1>5, <1>6, <1>7 DEF StatsNext

LEMMA StatsInvNext == StatsInv /\ [StatsNext]_statsVars => StatsInv'
<1> SUFFICES ASSUME StatsInv, [StatsNext]_statsVars PROVE StatsInv'
  OBVIOUS
<1>1. CASE StatsNext
  <2>1. StatsTyped' /\ Counts'
    BY <1>1, CountsNext
  <2>2. ScreenTyped' /\ ResultsHold'
    BY <1>1, ResultsNext
  <2> QED
    BY <2>1, <2>2 DEF StatsInv
<1>2. CASE UNCHANGED statsVars
  <2>1. StatsTyped' /\ Counts'
    BY <1>2 DEF StatsInv, statsVars, StatsTyped, Counts
  <2>2. ScreenTyped'
    BY <1>2 DEF StatsInv, statsVars, ScreenTyped
  <2>3. RangeKinds' = RangeKinds /\ RangeWebview' = RangeWebview /\ RangeCells' = RangeCells
    BY <1>2 DEF statsVars, RangeKinds, RangeWebview, RangeCells, Within
  <2>4. ResultsHold'
    BY <1>2, <2>3 DEF StatsInv, statsVars, ResultsHold, Reading
  <2> QED
    BY <2>1, <2>2, <2>4 DEF StatsInv
<1> QED
  BY <1>1, <1>2

LEMMA StatsInvariant == StatsSpec => []StatsInv
BY StatsInvInit, StatsInvNext, PTL DEF StatsSpec

\* Every reachable state is well-typed; no count is above MaxClicks, since each is
\* part of the rollup's sum.
THEOREM StatsTypeCorrect == StatsSpec => []StatsTypeOK
<1>1. StatsInv => StatsTypeOK
  <2> SUFFICES ASSUME StatsInv PROVE StatsTypeOK
    OBVIOUS
  <2>1. /\ \A k \in Kinds : raw[k] \in Nat
        /\ \A c \in Cells : daily[c] \in Nat
        /\ dropped \in Nat /\ touched \in Nat /\ MaxClicks \in Nat
    BY StatsAssumption DEF StatsInv, StatsTyped
  <2>2. /\ Sum(daily, Cells) = Sum(raw, Kinds) + dropped
        /\ Sum(daily, Cells) <= MaxClicks
        /\ touched <= Sum(daily, Cells) + dropped
    BY DEF StatsInv, Counts
  <2>3. /\ Sum(daily, Cells) \in Nat /\ Sum(raw, Kinds) \in Nat
        /\ \A c \in Cells : Sum(daily, Cells \ {c}) \in Nat
        /\ \A k \in Kinds : Sum(raw, Kinds \ {k}) \in Nat
    <3>1. /\ Kinds \subseteq Kinds /\ Cells \subseteq Cells
          /\ \A c \in Cells : Cells \ {c} \subseteq Cells
          /\ \A k \in Kinds : Kinds \ {k} \subseteq Kinds
      OBVIOUS
    <3> QED
      BY <2>1, <3>1, KindSums, CellSums
  <2>4. ASSUME NEW k \in Kinds PROVE raw[k] \in 0..MaxClicks
    <3>1. Sum(raw, Kinds) = raw[k] + Sum(raw, Kinds \ {k})
      BY <2>1, Finite, SumTake
    <3> QED
      BY <2>1, <2>2, <2>3, <3>1
  <2>5. ASSUME NEW c \in Cells PROVE daily[c] \in 0..MaxClicks
    <3>1. Sum(daily, Cells) = daily[c] + Sum(daily, Cells \ {c})
      BY <2>1, Finite, SumTake
    <3> QED
      BY <2>1, <2>2, <2>3, <3>1
  <2>6. raw \in [Kinds -> 0..MaxClicks] /\ daily \in [Cells -> 0..MaxClicks]
    BY <2>4, <2>5 DEF StatsInv, StatsTyped
  <2>7. dropped \in 0..MaxClicks /\ touched \in 0..(2 * MaxClicks)
    BY <2>1, <2>2, <2>3
  <2> QED
    BY <2>6, <2>7 DEF StatsTypeOK, StatsInv, ScreenTyped
<1> QED
  BY <1>1, StatsInvariant, PTL

\* The numbers on one screen, read at six moments from two tables, are off each
\* other by no more than was written and dropped between the first and the last.
THEOREM StatsAgreeHolds == StatsSpec => []StatsAgree
<1>1. StatsInv => StatsAgree
  <2> SUFFICES ASSUME StatsInv, screen.at = "shown" PROVE StatsAgree
    BY DEF StatsAgree
  <2> DEFINE got == screen.got
  <2>1. Reading /\ DOMAIN got = Queries
    BY DEF NoScreen, Reading, StatsInv, ScreenTyped
  <2>2. /\ Answered(got, Sum(raw, RangeKinds), Sum(raw, RangeWebview),
                    Sum(daily, RangeCells), touched)
        /\ Paired(got, touched, dropped)
    BY <2>1 DEF StatsInv, ResultsHold
  <2> HIDE DEF got
  <2>3. \A q \in Queries : Has(got, q)
    BY <2>1 DEF Has
  <2>4. /\ Near(RowsOf(got), WebviewOf(got) + BrowsersOf(got), touched)
        /\ Near(WebviewOf(got), NetworksOf(got), touched)
        /\ Near(DaysOf(got), CountriesOf(got), touched)
        /\ RowsOf(got) <= DaysOf(got) + touched
        /\ DaysOf(got) <= RowsOf(got) + dropped + touched
        /\ ReferrersOf(got) <= RowsOf(got) + touched
    BY <2>2, <2>3 DEF Paired, Queries
  <2>5. VisitorsOf(got) <= RowsOf(got)
    BY <2>2, <2>3 DEF Answered, Queries, AtMost, Off
  <2>6. /\ totalClicks = RowsOf(got) /\ Split(TRUE) = WebviewOf(got)
        /\ Split(FALSE) = BrowsersOf(got)
    BY DEF totalClicks, Split, RowsOf, WebviewOf, BrowsersOf, SplitOf, got
  <2>7. /\ Total(screen.got["byNetwork"]) = NetworksOf(got)
        /\ Total(screen.got["byDay"]) = DaysOf(got)
        /\ Total(screen.got["byCountry"]) = CountriesOf(got)
        /\ Total(screen.got["referrers"]) = ReferrersOf(got)
        /\ screen.got["totals"].uniq = VisitorsOf(got)
    BY DEF NetworksOf, DaysOf, CountriesOf, ReferrersOf, VisitorsOf, got
  <2> QED
    BY <2>4, <2>5, <2>6, <2>7 DEF StatsAgree, Close, Near
<1> QED
  BY <1>1, StatsInvariant, PTL
=============================================================================
