----------------------------- MODULE Partitions -----------------------------
(***************************************************************************)
(* Monthly partitions: roll_partitions.sql as roll-partitions.sh runs it,   *)
(* create_month_partition.sql, check-partitions.sh, and the rows they keep  *)
(* a place for.                                                            *)
(*                                                                         *)
(* A partition <<t, m>> holds the rows of table t created in month m; there *)
(* is no DEFAULT partition.  The script is a sequence of statements, each   *)
(* committed on its own and reading the clock for itself; the first error  *)
(* ends it (ON_ERROR_STOP), and it may be run again at any time.           *)
(***************************************************************************)
EXTENDS Naturals

CONSTANTS
  FirstDay,    \* month -> its first day, on a calendar that starts at day 0
  LastMonth,   \* bound on the clock
  MaxRuns,     \* bound: scripts started
  RawDays,     \* RAW_CLICK_RETENTION_DAYS
  LinkMonths   \* LINK_RETENTION_MONTHS

Tables == {"links", "clicks", "shorten_audit"}
MonthsAhead == 0..LastMonth + 3

ASSUME PartitionsAssumption ==
  /\ LastMonth \in Nat /\ MaxRuns \in Nat /\ RawDays \in Nat /\ LinkMonths \in Nat
  /\ FirstDay \in [MonthsAhead -> Nat] /\ FirstDay[0] = 0
  /\ \A m, n \in MonthsAhead : m < n => FirstDay[m] < FirstDay[n]

NoRow == [table |-> "none"]
Rows == [table : Tables, month : 0..LastMonth, day : Nat, stored : BOOLEAN]

VARIABLES
  month, today,  \* the clock; today lies in month
  parts,         \* partitions there are
  roller,        \* next statement of roll_partitions.sql, 0 when it is not run
  began,         \* the day the running script began
  runs,          \* scripts started
  row,           \* any one row, of any table: the one followed
  rolled,        \* history: the latest month a script began and reached its end in
  checked        \* history: 1 + the latest month check-partitions.sh found all
                 \* well in, 0 for none

partitionVars == <<month, today, parts, roller, began, runs, row, rolled, checked>>

\* The statements in the order of the file: three creations for each table,
\* then the three DO blocks that drop.
CreateSteps == 1..9
DropSteps == 10..12
TableOf(s) ==
  CASE s \in 1..3 -> "links" [] s \in 4..6 -> "clicks" [] s \in 7..9 -> "shorten_audit"
    [] s = 10 -> "clicks" [] s = 11 -> "shorten_audit" [] OTHER -> "links"

PartitionsTypeOK ==
  /\ month \in 0..LastMonth
  /\ today \in Nat /\ FirstDay[month] <= today /\ today < FirstDay[month + 1]
  /\ parts \subseteq Tables \X MonthsAhead
  /\ roller \in 0..12
  /\ began \in Nat /\ runs \in 0..MaxRuns
  /\ row \in Rows \cup {NoRow}
  /\ rolled \in 0..month
  /\ checked \in 0..LastMonth + 1

\* 001_schema.sql and 003_abuse.sql: three months of links and clicks, one of the
\* audit; roll-partitions.sh has been run once since, as its notes ask.
PartitionsInit ==
  /\ month = 0 /\ today = 0
  /\ parts = Tables \X {0, 1, 2}
  /\ roller = 0 /\ began = 0 /\ runs = 0
  /\ row = NoRow
  /\ rolled = 0 /\ checked = 0

-----------------------------------------------------------------------------
\* The day n months before today: the same day of that month or its last.
MonthsBefore(n) ==
  LET m == month - n
      sameDay == FirstDay[m] + (today - FirstDay[month])
  IN IF sameDay < FirstDay[m + 1] THEN sameDay ELSE FirstDay[m + 1] - 1

\* Is a day before the cutoff of its table?  current_date minus RawDays, or minus
\* LinkMonths.
PastCutoff(t, day) ==
  IF t = "links" THEN month >= LinkMonths /\ day <= MonthsBefore(LinkMonths)
                 ELSE day + RawDays <= today

\* Only "once ALL of its rows are older": the month's end, exclusive, decides.
MutDroppable(t, m) == PastCutoff(t, FirstDay[m])
Droppable(t, m) == PastCutoff(t, FirstDay[m + 1])

\* The month that creation statement s makes room for: this one or the next two.
MutMonthOf(s) == month + (IF (s - 1) % 3 = 2 THEN 1 ELSE ((s - 1) % 3))
MonthOf(s) == month + ((s - 1) % 3)

StartRoll ==
  /\ roller = 0 /\ runs < MaxRuns
  /\ roller' = 1 /\ began' = today /\ runs' = runs + 1
  /\ UNCHANGED <<month, today, parts, row, rolled, checked>>

\* create_month_partition: nothing when the partition exists.
CreatePartition ==
  /\ roller \in CreateSteps
  /\ parts' = parts \cup {<<TableOf(roller), MonthOf(roller)>>}
  /\ roller' = roller + 1
  /\ UNCHANGED <<month, today, began, runs, row, rolled, checked>>

\* A DO block drops every partition of its table that is past retention, and the
\* rows with it; links_code_lookup keeps its rows.
DropPartitions ==
  LET t == TableOf(roller)
      past == {p \in parts : p[1] = t /\ Droppable(t, p[2])}
  IN /\ roller \in DropSteps
     /\ parts' = parts \ past
     /\ row' = IF row # NoRow /\ <<row.table, row.month>> \in past
                 THEN [row EXCEPT !.stored = FALSE] ELSE row
     /\ roller' = (roller + 1) % 13
     /\ rolled' = IF roller = 12 /\ FirstDay[month] <= began THEN month ELSE rolled
     /\ began' = IF roller = 12 THEN 0 ELSE began
     /\ UNCHANGED <<month, today, runs, checked>>

\* Any statement may fail: a lock it does not get, a connection, the host.
RollFails ==
  /\ roller # 0
  /\ roller' = 0 /\ began' = 0
  /\ UNCHANGED <<month, today, parts, runs, row, rolled, checked>>

\* check-partitions.sh: next month's partition of every table.
MutCheckTables == {"links", "clicks"}
CheckTables == Tables
CheckPartitions ==
  /\ \A t \in CheckTables : <<t, month + 1>> \in parts
  /\ checked' = month + 1
  /\ UNCHANGED <<month, today, parts, roller, began, runs, row, rolled>>

\* An INSERT of a link, of clicks or of an audit record: without a partition for
\* today it fails.  Any one row may be the one to follow.
Insert(t) ==
  /\ <<t, month>> \in parts /\ row = NoRow
  /\ row' = [table |-> t, month |-> month, day |-> today, stored |-> TRUE]
  /\ UNCHANGED <<month, today, parts, roller, began, runs, rolled, checked>>

\* A script takes seconds: at most one midnight passes while it runs.
NextDay ==
  /\ roller # 0 => today = began
  /\ today' = today + 1
  /\ IF today + 1 = FirstDay[month + 1]
       THEN month < LastMonth /\ month' = month + 1
       ELSE UNCHANGED month
  /\ UNCHANGED <<parts, roller, began, runs, row, rolled, checked>>

PartitionsNext ==
  \/ StartRoll \/ CreatePartition \/ DropPartitions \/ RollFails
  \/ CheckPartitions
  \/ \E t \in Tables : Insert(t)
  \/ NextDay

PartitionsSpec == PartitionsInit /\ [][PartitionsNext]_partitionVars

-----------------------------------------------------------------------------
\* Is there somewhere to put today's rows?
Homes == \A t \in Tables : <<t, month>> \in parts

\* A script that began and ended in a month is good for it and the next two,
\* whatever failed since: "so data always has a home before it arrives".  Two
\* monthly runs in a row may fail without an INSERT failing.  Of a script that
\* runs across the end of a month it does not hold: its statements read
\* different months, and one in between may be skipped.
RolledMeansHome == month <= rolled + 2 => Homes

\* A check that found all well in some month covers the next one.
CheckedMeansHome == checked > 0 /\ month = checked => Homes

\* "Never deleting data still inside" retention: a row is there until its own day
\* is past the cutoff of its table, so a name in links_code_lookup without its
\* row, and a day in clicks_daily without its clicks, are past it as well.
RetainedStored ==
  row # NoRow /\ ~PastCutoff(row.table, row.day + 1) => row.stored
=============================================================================
