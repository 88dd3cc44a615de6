------------------------------ MODULE IdsProofs ------------------------------
(***************************************************************************)
(* What TLAPS proves of Ids, for any replicas, machine ids, field widths    *)
(* and bounds: type correctness; and, outside the incidents the comments   *)
(* exclude, that no backend hands out an id twice, no recovery is undone,  *)
(* no boot sets the sequence back, and Ids is a source of ids as IdSource  *)
(* has it.                                                                 *)
(***************************************************************************)
EXTENDS Ids, DataLemmas

NobodyUp == \A p \in Replicas : phase[p] # "up"
Pending(p) == task[p].step = "write"

\* redis: the counter is past every id handed out; or nobody is up yet, these
\* are links, and what a recovery is about to write is past them.
Past == \A id \in issued : id <= counter
NotYetPast ==
  /\ NobodyUp /\ issued \subseteq stored
  /\ \A p \in Replicas : Pending(p) =>
       IF task[p].value = 0 THEN issued = {} ELSE \A id \in issued : id < task[p].value
RedisInv == backend = "redis" => Past \/ NotYetPast

\* postgres: the same of a sequence in use; and what an alignment is about to
\* write is not below an id handed out, since drawing one meanwhile is an
\* incident.
Aligned == sequence.called /\ \A id \in issued : id <= sequence.last
AlignmentsGood ==
  \A p \in Replicas : Pending(p) =>
    IF task[p].value = 0 THEN Aligned \/ issued = {}
                         ELSE \A id \in issued : id <= task[p].value
PostgresInv ==
  backend = "postgres" =>
    /\ Aligned \/ (NobodyUp /\ issued \subseteq stored) \/ issued = {}
    /\ AlignmentsGood /\ script.step = "none"

\* snowflake: an id carries the machine, a millisecond and a sequence number
\* that its generator is past: or that its machine was, before it restarted.
PastMint(p, ts, seq) ==
  IF generator[p].last = 0 THEN ts <= minted[p]
  ELSE ts < generator[p].last \/ (ts = generator[p].last /\ seq <= generator[p].seq)

SnowflakeInv ==
  backend = "snowflake" =>
    /\ script.step = "none"
    /\ \A p \in Replicas : generator[p].last <= minted[p]
    /\ \A id \in issued :
         \E p \in Replicas, ts \in 0..MaxClock, seq \in 0..(SequenceCount - 1) :
           id = Pack(ts, MachineOf[p], seq) /\ PastMint(p, ts, seq)

\* There are finitely many links, and 0 (no id drawn) is none of them.
Typed == TypeOK /\ IsFiniteSet(stored) /\ 0 \notin stored

\* What the script is about to SET is not below the last link it saw.
ScriptSeen == script.seen <= script.value

IdsInv ==
  /\ Typed /\ RedisInv /\ PostgresInv /\ SnowflakeInv /\ ScriptSeen
  /\ PastPersisted /\ IssuedOnce

-----------------------------------------------------------------------------
(* Facts about the operators.                                              *)

\* The maximum is the links'; every link is at most that.
LEMMA MaxLinkIdIsMax ==
  ASSUME stored \subseteq Nat, IsFiniteSet(stored)
  PROVE  MaxLinkId \in Nat /\ \A id \in stored : id <= MaxLinkId
<1>1. CASE stored = {}
  BY <1>1 DEF MaxLinkId
<1>2. CASE stored # {}
  <2>1. \E id \in stored : \A other \in stored : other <= id
    BY <1>2, GreatestNatural
  <2> QED
    BY <1>2, <2>1 DEF MaxLinkId
<1> QED
  BY <1>1, <1>2

\* With the machine below MachineCount and the sequence number below
\* SequenceCount, two ids are equal only if their fields are.
LEMMA Digits ==
  ASSUME NEW n \in Nat, NEW a \in Nat, NEW b \in Nat, NEW x \in Nat, NEW y \in Nat,
         x < n, y < n, a * n + x = b * n + y
  PROVE  a = b /\ x = y
<1>1. ASSUME NEW c \in Nat, NEW d \in Nat, c < d PROVE c * n + n <= d * n
  <2>1. d = c + 1 + (d - c - 1) /\ d - c - 1 \in Nat
    BY <1>1
  <2> DEFINE e == d - c - 1
  <2>2. d * n = c * n + n + e * n
    BY <2>1
  <2>3. e * n \in Nat /\ c * n \in Nat
    BY <2>1
  <2> QED
    BY <2>2, <2>3
<1>2. a * n \in Nat /\ b * n \in Nat
  OBVIOUS
<1>3. ~(a < b)
  BY <1>1, <1>2
<1>4. ~(b < a)
  BY <1>1, <1>2
<1> QED
  BY <1>2, <1>3, <1>4

LEMMA PackInjective ==
  ASSUME NEW t \in Nat, NEW u \in Nat, NEW p \in Replicas, NEW q \in Replicas,
         NEW x \in 0..(SequenceCount - 1), NEW y \in 0..(SequenceCount - 1),
         Pack(t, MachineOf[p], x) = Pack(u, MachineOf[q], y)
  PROVE  t = u /\ p = q /\ x = y
<1> DEFINE m == MachineOf[p]
           l == MachineOf[q]
<1>1. m \in Nat /\ l \in Nat /\ m < MachineCount /\ l < MachineCount
  BY IdsAssumption
<1>2. /\ MachineCount \in Nat /\ SequenceCount \in Nat
      /\ x \in Nat /\ y \in Nat /\ x < SequenceCount /\ y < SequenceCount
  BY IdsAssumption
<1>3. t * MachineCount + m \in Nat /\ u * MachineCount + l \in Nat
  BY <1>1, <1>2
<1>4. t * MachineCount + m = u * MachineCount + l /\ x = y
  BY <1>2, <1>3, Digits DEF Pack
<1>5. t = u /\ m = l
  BY <1>1, <1>2, <1>4, Digits
<1> QED
  BY <1>4, <1>5, IdsAssumption

LEMMA PackNat ==
  ASSUME NEW t \in Nat, NEW p \in Replicas, NEW x \in Nat
  PROVE  Pack(t, MachineOf[p], x) \in Nat
<1>1. MachineOf[p] \in Nat /\ MachineCount \in Nat /\ SequenceCount \in Nat
  BY IdsAssumption
<1>2. t * MachineCount + MachineOf[p] \in Nat
  BY <1>1
<1> QED
  BY <1>1, <1>2 DEF Pack

\* The next sequence number: one more, until it wraps to 0.
LEMMA NextSeqIs ==
  ASSUME TypeOK, NEW p \in Replicas
  PROVE  /\ NextSeq(p) \in 0..(SequenceCount - 1)
         /\ clock[p] = generator[p].last =>
              NextSeq(p) = IF generator[p].seq + 1 = SequenceCount
                           THEN 0 ELSE generator[p].seq + 1
<1>1. /\ generator[p].seq \in Nat /\ generator[p].seq < SequenceCount
      /\ SequenceCount \in Nat /\ SequenceCount > 0
  BY IdsAssumption DEF TypeOK
<1>2. ASSUME NEW n \in Nat, NEW s \in Nat, s > 0, n < s PROVE n % s = n
  BY <1>2
<1>3. ASSUME NEW s \in Nat, s > 0 PROVE s % s = 0
  BY <1>3
<1>4. CASE clock[p] = generator[p].last
  <2>1. CASE generator[p].seq + 1 = SequenceCount
    <3>1. NextSeq(p) = 0
      BY <1>1, <1>3, <1>4, <2>1 DEF NextSeq
    <3> QED
      BY <1>1, <2>1, <3>1
  <2>2. CASE generator[p].seq + 1 # SequenceCount
    <3> DEFINE n == generator[p].seq + 1
    <3>0. n \in Nat /\ n < SequenceCount
      BY <1>1, <2>2
    <3>1. NextSeq(p) = generator[p].seq + 1
      <4> HIDE DEF n
      <4>1. n % SequenceCount = n
        BY <1>1, <1>2, <3>0
      <4> QED
        BY <1>4, <4>1 DEF NextSeq, n
    <3> QED
      BY <1>1, <2>2, <3>1
  <2> QED
    BY <2>1, <2>2
<1>5. CASE clock[p] # generator[p].last
  BY <1>1, <1>5 DEF NextSeq
<1> QED
  BY <1>4, <1>5

LEMMA MintTimeIs ==
  ASSUME TypeOK, NEW p \in Replicas, ClockUsable(p)
  PROVE  /\ MintTime(p) \in Nat /\ MintTime(p) >= clock[p] /\ MintTime(p) > 0
         /\ clock[p] \in Nat /\ generator[p].last \in Nat
BY DEF TypeOK, ClockUsable, MintTime

-----------------------------------------------------------------------------
(* Type correctness.                                                       *)

Sequences == [last : Nat, called : BOOLEAN]
Generators == [last : 0..MaxClock, seq : 0..(SequenceCount - 1)]

LEMMA TypeInit == Init => Typed
<1> SUFFICES ASSUME Init PROVE Typed
  OBVIOUS
<1>1. PICK k \in (IF backend = "snowflake" THEN {0} ELSE 0..MaxStored) :
        /\ stored = 1..k /\ issued = 1..k
        /\ counter \in IF backend = "redis" THEN 0..k ELSE {0}
        /\ sequence \in IF backend = "postgres"
                        THEN [last : 1..(k + 1), called : {FALSE}]
                               \cup [last : 1..k, called : {TRUE}]
                        ELSE {[last |-> 1, called |-> FALSE]}
  BY DEF Init
<1>2. k \in Nat
  BY <1>1, IdsAssumption
<1>3. stored \subseteq Nat /\ issued \subseteq Nat /\ IsFiniteSet(stored) /\ 0 \notin stored
  BY <1>1, <1>2, FS_Interval
<1>4. counter \in Nat
  BY <1>1, <1>2
<1>5. sequence \in Sequences
  <2>1. 1..(k + 1) \subseteq Nat /\ 1..k \subseteq Nat /\ {FALSE} \subseteq BOOLEAN /\ {TRUE} \subseteq BOOLEAN
    BY <1>2
  <2>2. [last : 1..(k + 1), called : {FALSE}] \subseteq Sequences
    BY <2>1 DEF Sequences
  <2>3. [last : 1..k, called : {TRUE}] \subseteq Sequences
    BY <2>1 DEF Sequences
  <2>4. [last |-> 1, called |-> FALSE] \in Sequences
    BY DEF Sequences
  <2>5. CASE backend = "postgres"
    <3>1. sequence \in [last : 1..(k + 1), called : {FALSE}]
                         \cup [last : 1..k, called : {TRUE}]
      BY <1>1, <2>5
    <3> QED
      BY <2>2, <2>3, <3>1
  <2>6. CASE backend # "postgres"
    BY <1>1, <2>4, <2>6
  <2> QED
    BY <2>5, <2>6
<1>6. clock \in [Replicas -> 0..MaxClock]
  <2>1. 0 \in 0..MaxClock /\ 0..1 \subseteq 0..MaxClock
    BY IdsAssumption
  <2>2. CASE backend = "snowflake"
    BY <2>1, <2>2 DEF Init
  <2>3. CASE backend # "snowflake"
    BY <2>1, <2>3 DEF Init
  <2> QED
    BY <2>2, <2>3
<1>7. /\ generator \in [Replicas -> Generators]
      /\ minted \in [Replicas -> 0..MaxClock]
  BY IdsAssumption DEF Init, NewGenerator, Generators
<1>8. /\ phase \in [Replicas -> {"down", "boot", "up"}]
      /\ link \in [Replicas -> {"up", "lost"}]
      /\ drawn \in [Replicas -> Nat]
  BY DEF Init
<1>9. /\ task \in [Replicas -> [step : {"none", "read", "write"}, value : Nat]]
      /\ script \in [step : {"none", "write"}, value : Nat, seen : Nat]
  BY DEF Init, NoTask, NoScript
<1>10. /\ failovers \in 0..MaxFailovers /\ floor \in Nat /\ owed \in Nat
       /\ twice \in BOOLEAN /\ incident \in BOOLEAN /\ backend \in Backends
  <2>1. /\ failovers = 0 /\ floor = 0 /\ owed = 0 /\ twice = FALSE
        /\ incident = FALSE /\ backend \in Backends
    BY DEF Init
  <2>2. 0 \in 0..MaxFailovers
    BY IdsAssumption
  <2> QED
    BY <2>1, <2>2
<1> QED
  BY <1>3, <1>4, <1>5, <1>6, <1>7, <1>8, <1>9, <1>10
  DEF Typed, TypeOK, Sequences, Generators

LEMMA AlignmentNat ==
  ASSUME TypeOK, IsFiniteSet(stored)
  PROVE  Alignment \in Nat /\ Recovery \in Nat
BY MaxLinkIdIsMax DEF TypeOK, Alignment, Recovery, Greatest

LEMMA DrawType ==
  ASSUME TypeOK, NEW p \in Replicas, NEW id \in Nat, Issue(p, id)
  PROVE  /\ drawn' \in [Replicas -> Nat]
         /\ issued' \subseteq Nat /\ twice' \in BOOLEAN
<1>1. drawn \in [Replicas -> Nat] /\ issued \subseteq Nat /\ twice \in BOOLEAN
  BY DEF TypeOK
<1> QED
  BY <1>1 DEF Issue

LEMMA MintType ==
  ASSUME TypeOK, NEW p \in Replicas, NextSnowflake(p)
  PROVE  TypeOK'
<1>1. /\ MintTime(p) \in 0..MaxClock /\ NextSeq(p) \in 0..(SequenceCount - 1)
      /\ NextSeq(p) \in Nat
  BY NextSeqIs, MintTimeIs, IdsAssumption DEF NextSnowflake, TypeOK
<1>2. Pack(MintTime(p), MachineOf[p], NextSeq(p)) \in Nat
  BY <1>1, PackNat
<1>3. /\ drawn' \in [Replicas -> Nat]
      /\ issued' \subseteq Nat /\ twice' \in BOOLEAN
  BY <1>2, DrawType DEF NextSnowflake
<1>4. incident' \in BOOLEAN
  BY DEF NextSnowflake, TypeOK
<1>5. clock' \in [Replicas -> 0..MaxClock]
  BY <1>1 DEF NextSnowflake, TypeOK
<1>6. generator' \in [Replicas -> [last : 0..MaxClock, seq : 0..(SequenceCount - 1)]]
  BY <1>1 DEF NextSnowflake, TypeOK
<1>7. minted' \in [Replicas -> 0..MaxClock]
  BY <1>1 DEF NextSnowflake, TypeOK, Greatest
<1> QED
  BY <1>3, <1>4, <1>5, <1>6, <1>7 DEF NextSnowflake, TypeOK, processVars

LEMMA NoLinkZero == 0 \notin stored /\ [Next]_vars => 0 \notin stored'
BY DEF vars, Next, Recover, Boot, TaskRead, RaiseCounter, AlignSequence, TaskFails, Die, Ready,
       Failover, ScriptReads, ScriptSets, NextRedis, NextOffline, Increment, NextPostgres,
       NextSnowflake, TimestampExhausted, Insert, Fail, Delete, ClockMoves

LEMMA TypeStep == Typed /\ [Next]_vars => Typed'
<1> SUFFICES ASSUME TypeOK, IsFiniteSet(stored), [Next]_vars
             PROVE  TypeOK' /\ IsFiniteSet(stored')
  BY NoLinkZero DEF Typed
<1>1. CASE UNCHANGED vars
  BY <1>1 DEF vars, TypeOK
<1>2. ASSUME NEW p \in Replicas, Boot(p) PROVE TypeOK' /\ IsFiniteSet(stored')
  <2>1. NewGenerator \in Generators
    BY IdsAssumption DEF NewGenerator, Generators
  <2>2. generator' \in [Replicas -> Generators]
    BY <1>2, <2>1 DEF Boot, TypeOK, Generators
  <2>3. /\ phase' \in [Replicas -> {"down", "boot", "up"}]
        /\ link' \in [Replicas -> {"up", "lost"}]
        /\ task' \in [Replicas -> [step : {"none", "read", "write"}, value : Nat]]
    <3>1. CASE backend = "snowflake"
      BY <1>2, <3>1 DEF Boot, TypeOK
    <3>2. CASE backend # "snowflake"
      <4>1. [step |-> "read", value |-> 0] \in [step : {"none", "read", "write"}, value : Nat]
        OBVIOUS
      <4>2. /\ phase' = [phase EXCEPT ![p] = "boot"]
            /\ link' = [link EXCEPT ![p] = "up"]
            /\ task' = [task EXCEPT ![p] = [step |-> "read", value |-> 0]]
        BY <1>2, <3>2 DEF Boot
      <4>3. task' \in [Replicas -> [step : {"none", "read", "write"}, value : Nat]]
        BY <4>1, <4>2 DEF TypeOK
      <4> QED
        BY <4>2, <4>3 DEF TypeOK
    <3> QED
      BY <3>1, <3>2
  <2> QED
    BY <1>2, <2>2, <2>3 DEF Boot, TypeOK, Generators, historyVars
<1>3. ASSUME NEW p \in Replicas, TaskRead(p) PROVE TypeOK' /\ IsFiniteSet(stored')
  BY <1>3, AlignmentNat DEF TaskRead, TypeOK, historyVars
<1>4. ASSUME NEW p \in Replicas, RaiseCounter(p) PROVE TypeOK' /\ IsFiniteSet(stored')
  BY <1>4 DEF RaiseCounter, TypeOK, Raise, Greatest, EndTask, NoTask
<1>5. ASSUME NEW p \in Replicas, AlignSequence(p) PROVE TypeOK' /\ IsFiniteSet(stored')
  BY <1>5 DEF AlignSequence, TypeOK, EndTask, NoTask, historyVars
<1>6. ASSUME NEW p \in Replicas, TaskFails(p) \/ Die(p) \/ Ready(p)
      PROVE  TypeOK' /\ IsFiniteSet(stored')
  <2>1. CASE TaskFails(p)
    BY <2>1 DEF TaskFails, TypeOK, NoTask
  <2>2. CASE Die(p)
    BY <2>2 DEF Die, TypeOK, NoTask, historyVars
  <2>3. CASE Ready(p)
    BY <2>3 DEF Ready, TypeOK, historyVars
  <2> QED
    BY <1>6, <2>1, <2>2, <2>3
<1>7. ASSUME NEW value \in 0..counter, Failover(value)
      PROVE  TypeOK' /\ IsFiniteSet(stored')
  BY <1>7, MaxLinkIdIsMax, IdsAssumption DEF Failover, TypeOK, Incident
<1>8. CASE ScriptReads
  BY <1>8, AlignmentNat, MaxLinkIdIsMax DEF ScriptReads, TypeOK, historyVars
<1>9. CASE ScriptSets
  <2>1. InUse \subseteq Nat
    <3>1. \A p \in Replicas : drawn[p] \in Nat
      BY DEF TypeOK
    <3>2. {drawn[p] : p \in Replicas} \subseteq Nat /\ stored \subseteq Nat
      BY <3>1 DEF TypeOK
    <3> QED
      BY <3>2 DEF InUse
  <2>2. script.value \in Nat
    BY DEF TypeOK
  <2>3. floor' \in Nat /\ issued' \subseteq Nat /\ counter' \in Nat
    <3>1. counter' = script.value
      BY <1>9 DEF ScriptSets
    <3>2. \/ issued' = {} /\ floor' = 0
          \/ issued' = InUse /\ floor' = IF script.value = 0 THEN 0 ELSE script.value - 1
      BY <1>9 DEF ScriptSets
    <3>3. script.value # 0 => script.value - 1 \in Nat
      BY <2>2
    <3>4. issued' \subseteq Nat
      BY <2>1, <3>2
    <3>5. floor' \in Nat
      BY <3>2, <3>3
    <3> QED
      BY <2>2, <3>1, <3>4, <3>5
  <2>4. /\ incident' \in BOOLEAN
        /\ script' \in [step : {"none", "write"}, value : Nat, seen : Nat]
    BY <1>9 DEF ScriptSets, TypeOK, NoScript
  <2> QED
    BY <1>9, <2>3, <2>4 DEF ScriptSets, TypeOK
<1>10. ASSUME NEW p \in Replicas, NextRedis(p) \/ NextOffline(p)
       PROVE  TypeOK' /\ IsFiniteSet(stored')
  <2>1. Increment(p) /\ counter + 1 \in Nat
    BY <1>10 DEF NextRedis, NextOffline, TypeOK
  <2>2. /\ drawn' \in [Replicas -> Nat]
        /\ issued' \subseteq Nat /\ twice' \in BOOLEAN
    BY <2>1, DrawType DEF Increment
  <2> QED
    BY <2>1, <2>2 DEF Increment, TypeOK, processVars
<1>11. ASSUME NEW p \in Replicas, NextPostgres(p) PROVE TypeOK' /\ IsFiniteSet(stored')
  <2> DEFINE id == IF sequence.called THEN sequence.last + 1 ELSE sequence.last
  <2>1. id \in Nat
    BY DEF TypeOK
  <2>2. /\ drawn' \in [Replicas -> Nat]
        /\ issued' \subseteq Nat /\ twice' \in BOOLEAN
    <3> HIDE DEF id
    <3>1. Issue(p, id)
      BY <1>11 DEF NextPostgres, id
    <3> QED
      BY <2>1, <3>1, DrawType
  <2> QED
    BY <1>11, <2>1, <2>2 DEF NextPostgres, TypeOK, processVars
<1>12. ASSUME NEW p \in Replicas, NextSnowflake(p) PROVE TypeOK' /\ IsFiniteSet(stored')
  BY <1>12, MintType DEF NextSnowflake
<1>13. ASSUME NEW p \in Replicas, TimestampExhausted(p)
       PROVE  TypeOK' /\ IsFiniteSet(stored')
  BY <1>13, NextSeqIs DEF TimestampExhausted, Incident, TypeOK, processVars
<1>14. ASSUME NEW p \in Replicas, Insert(p) \/ Fail(p)
       PROVE  TypeOK' /\ IsFiniteSet(stored')
  <2>1. IsFiniteSet(stored \cup {drawn[p]})
    BY FS_AddElement
  <2>2. CASE Insert(p)
    <3>1. stored' \subseteq Nat /\ IsFiniteSet(stored')
      BY <2>1, <2>2 DEF Insert, TypeOK
    <3> QED
      BY <2>2, <3>1 DEF Insert, TypeOK, processVars, historyVars
  <2>3. CASE Fail(p)
    BY <2>3 DEF Fail, TypeOK, processVars, historyVars
  <2> QED
    BY <1>14, <2>2, <2>3
<1>15. ASSUME NEW p \in Replicas, NEW id \in stored, Delete(p, id)
       PROVE  TypeOK' /\ IsFiniteSet(stored')
  <2>1. IsFiniteSet(stored \ {id})
    BY FS_Subset
  <2> QED
    BY <1>15, <2>1 DEF Delete, TypeOK, processVars
<1>16. ASSUME NEW p \in Replicas, NEW ms \in 0..MaxClock, ClockMoves(p, ms)
       PROVE  TypeOK' /\ IsFiniteSet(stored')
  BY <1>16 DEF ClockMoves, TypeOK, processVars, historyVars
<1> QED
  BY <1>1, <1>2, <1>3, <1>4, <1>5, <1>6, <1>7, <1>8, <1>9, <1>10, <1>11, <1>12,
     <1>13, <1>14, <1>15, <1>16
  DEF Next, Recover

\* Every reachable state is well-typed.
THEOREM IdsTypeCorrect == Spec => []TypeOK
<1>1. Typed => TypeOK
  BY DEF Typed
<1> QED
  BY <1>1, TypeInit, TypeStep, PTL DEF Spec

-----------------------------------------------------------------------------
(* redis.                                                                  *)

LEMMA RedisStep == Typed /\ RedisInv /\ ScriptSeen /\ [Next]_vars => RedisInv'
<1> SUFFICES ASSUME TypeOK, IsFiniteSet(stored), RedisInv, ScriptSeen, [Next]_vars,
                    backend' = "redis"
             PROVE  Past' \/ NotYetPast'
  BY DEF Typed, RedisInv
<1>1. CASE UNCHANGED vars
  BY <1>1 DEF vars, RedisInv, Past, NotYetPast, NobodyUp, Pending
<1> SUFFICES ASSUME Next PROVE Past' \/ NotYetPast'
  BY <1>1
<1>2. backend = "redis"
  BY DEF Next, Recover, Boot, TaskRead, RaiseCounter, AlignSequence, TaskFails, Die, Ready,
         Failover, ScriptReads, ScriptSets, NextRedis, NextOffline, Increment, NextPostgres,
         NextSnowflake, TimestampExhausted, Insert, Fail, Delete, ClockMoves
<1>3. Past \/ NotYetPast
  BY <1>2 DEF RedisInv
<1>4. ASSUME NEW p \in Replicas, Boot(p) PROVE Past' \/ NotYetPast'
  <2>1. UNCHANGED <<issued, counter, stored>>
    BY <1>4 DEF Boot, historyVars
  <2>2. /\ phase' = [phase EXCEPT ![p] = "boot"]
        /\ task' = [task EXCEPT ![p] = [step |-> "read", value |-> 0]]
    BY <1>2, <1>4 DEF Boot
  <2>3. \A q \in Replicas : phase'[q] = "up" => phase[q] = "up"
    BY <2>2 DEF TypeOK
  <2>4. \A q \in Replicas : Pending(q)' => task'[q] = task[q]
    BY <2>2 DEF TypeOK, Pending
  <2> QED
    BY <1>3, <2>1, <2>3, <2>4 DEF Past, NotYetPast, NobodyUp, Pending
<1>5. ASSUME NEW p \in Replicas, TaskRead(p) PROVE Past' \/ NotYetPast'
  <2>1. CASE Past
    BY <1>5, <2>1 DEF TaskRead, historyVars, Past
  <2>2. CASE NotYetPast
    <3>1. IF Recovery = 0 THEN issued = {} ELSE \A id \in issued : id < Recovery
      BY <2>2, MaxLinkIdIsMax DEF NotYetPast, Recovery, TypeOK
    <3> QED
      BY <1>2, <1>5, <2>2, <3>1
      DEF TaskRead, historyVars, TypeOK, NotYetPast, NobodyUp, Pending
  <2> QED
    BY <1>3, <2>1, <2>2
<1>6. ASSUME NEW p \in Replicas, RaiseCounter(p) PROVE Past' \/ NotYetPast'
  <2>1. /\ issued' = issued /\ task[p].value \in Nat /\ issued \subseteq Nat
        /\ counter \in Nat
    BY <1>6 DEF RaiseCounter, TypeOK
  <2>2. IF task[p].value = 0 THEN counter' = counter
                             ELSE counter' = Greatest(counter, task[p].value)
    BY <1>6 DEF RaiseCounter, Raise
  <2>3. Past \/ (IF task[p].value = 0 THEN issued = {}
                                      ELSE \A id \in issued : id < task[p].value)
    BY <1>3, <1>6 DEF RaiseCounter, NotYetPast, Pending
  <2> QED
    BY <2>1, <2>2, <2>3 DEF Past, Greatest
<1>7. ASSUME NEW p \in Replicas, TaskFails(p) \/ Die(p) \/ Ready(p)
      PROVE  Past' \/ NotYetPast'
  <2>1. UNCHANGED <<issued, counter, stored>>
    BY <1>7 DEF TaskFails, Die, Ready, historyVars
  <2>2. \A q \in Replicas : phase'[q] = "up" => phase[q] = "up"
    BY <1>7 DEF TaskFails, Die, Ready, TypeOK
  <2>3. \A q \in Replicas : Pending(q)' => task'[q] = task[q]
    BY <1>7 DEF TaskFails, Die, Ready, TypeOK, Pending, NoTask
  <2> QED
    BY <1>3, <2>1, <2>2, <2>3 DEF Past, NotYetPast, NobodyUp, Pending
<1>8. ASSUME NEW value \in 0..counter, Failover(value) PROVE Past' \/ NotYetPast'
  BY <1>8 DEF Failover, Incident, Past
<1>9. CASE ScriptReads
  BY <1>3, <1>9 DEF ScriptReads, historyVars, Past, NotYetPast, NobodyUp, Pending
<1>10. CASE ScriptSets
  <2>1. CASE incident'
    BY <1>10, <2>1 DEF ScriptSets, Past
  <2>2. CASE ~incident'
    <3>1. /\ issued' = InUse /\ counter' = script.value
          /\ ~\E id \in InUse : id > script.seen /\ id > script.value
      BY <1>10, <2>2 DEF ScriptSets
    <3>2. InUse \subseteq Nat /\ script.value \in Nat /\ script.seen \in Nat
      <4>1. {drawn[p] : p \in Replicas} \subseteq Nat
        BY DEF TypeOK
      <4> QED
        BY <4>1 DEF InUse, TypeOK
    <3> HIDE DEF InUse
    <3> QED
      BY <3>1, <3>2 DEF Past, ScriptSeen
  <2> QED
    BY <2>1, <2>2
<1>11. ASSUME NEW p \in Replicas, NextRedis(p) \/ NextOffline(p)
       PROVE  Past' \/ NotYetPast'
  <2>1. /\ phase[p] = "up" /\ counter' = counter + 1
        /\ issued' \subseteq issued \cup {counter + 1}
    BY <1>11 DEF NextRedis, NextOffline, Increment, Idle, Issue
  <2>2. Past
    BY <1>3, <2>1 DEF NotYetPast, NobodyUp
  <2>3. counter \in Nat /\ issued \subseteq Nat
    BY DEF TypeOK
  <2> QED
    BY <2>1, <2>2, <2>3 DEF Past
<1>12. ASSUME NEW p \in Replicas, Insert(p) \/ Fail(p) PROVE Past' \/ NotYetPast'
  BY <1>2, <1>3, <1>12
  DEF Insert, Fail, processVars, historyVars, Past, NotYetPast, NobodyUp, Pending
<1>13. ASSUME NEW p \in Replicas, NEW id \in stored, Delete(p, id)
       PROVE  Past' \/ NotYetPast'
  BY <1>3, <1>13 DEF Delete, Past, NotYetPast, NobodyUp
<1> QED
  BY <1>2, <1>4, <1>5, <1>6, <1>7, <1>8, <1>9, <1>10, <1>11, <1>12, <1>13
  DEF Next, Recover, AlignSequence, NextPostgres, NextSnowflake, TimestampExhausted,
      ClockMoves

\* The script's query answers for the last link it sees.
LEMMA ScriptSeenStep == Typed /\ ScriptSeen /\ [Next]_vars => ScriptSeen'
<1> SUFFICES ASSUME Typed, ScriptSeen, [Next]_vars PROVE ScriptSeen'
  OBVIOUS
<1>1. CASE ScriptReads
  <2>1. script'.seen = MaxLinkId /\ script'.value = Recovery
    BY <1>1 DEF ScriptReads
  <2>2. MaxLinkId \in Nat /\ MaxLinkId <= Recovery
    <3>1. MaxLinkId \in Nat
      BY MaxLinkIdIsMax DEF Typed, TypeOK
    <3> QED
      BY <3>1 DEF Recovery, MaxLinkId
  <2> QED
    BY <2>1, <2>2 DEF ScriptSeen
<1>2. CASE ScriptSets
  BY <1>2 DEF ScriptSets, NoScript, ScriptSeen
<1>3. CASE script' = script
  BY <1>3 DEF ScriptSeen
<1>4. script' = script \/ ScriptReads \/ ScriptSets
  BY DEF vars, Next, Recover, Boot, TaskRead, RaiseCounter, AlignSequence, TaskFails, Die,
         Ready, Failover, NextRedis, NextOffline, Increment, NextPostgres, NextSnowflake,
         TimestampExhausted, Insert, Fail, Delete, ClockMoves, processVars
<1> QED
  BY <1>1, <1>2, <1>3, <1>4

-----------------------------------------------------------------------------
(* postgres.                                                               *)

LEMMA PostgresStep == Typed /\ PostgresInv /\ [Next]_vars => PostgresInv'
<1> DEFINE Good == Aligned \/ (NobodyUp /\ issued \subseteq stored) \/ issued = {}
<1> SUFFICES ASSUME TypeOK, IsFiniteSet(stored), PostgresInv, [Next]_vars,
                    0 \notin stored, backend' = "postgres"
             PROVE  Good' /\ AlignmentsGood' /\ script'.step = "none"
  BY DEF Typed, PostgresInv
<1>1. CASE UNCHANGED vars
  BY <1>1 DEF vars, PostgresInv, Aligned, AlignmentsGood, NobodyUp, Pending
<1> SUFFICES ASSUME Next PROVE Good' /\ AlignmentsGood' /\ script'.step = "none"
  BY <1>1
<1>2. backend = "postgres"
  BY DEF Next, Recover, Boot, TaskRead, RaiseCounter, AlignSequence, TaskFails, Die, Ready,
         Failover, ScriptReads, ScriptSets, NextRedis, NextOffline, Increment, NextPostgres,
         NextSnowflake, TimestampExhausted, Insert, Fail, Delete, ClockMoves
<1>3. Good /\ AlignmentsGood /\ script.step = "none"
  BY <1>2 DEF PostgresInv
<1>script. script' = script
  BY <1>2, <1>3
  DEF Next, Recover, Boot, TaskRead, RaiseCounter, AlignSequence, TaskFails, Die, Ready,
      Failover, ScriptReads, ScriptSets, NextRedis, NextOffline, Increment, NextPostgres,
      NextSnowflake, TimestampExhausted, Insert, Fail, Delete, ClockMoves, processVars
<1>4. ASSUME NEW p \in Replicas, Boot(p) PROVE Good' /\ AlignmentsGood'
  <2>1. UNCHANGED <<issued, sequence, stored>>
    BY <1>4 DEF Boot, historyVars
  <2>2. /\ phase' = [phase EXCEPT ![p] = "boot"]
        /\ task' = [task EXCEPT ![p] = [step |-> "read", value |-> 0]]
    BY <1>2, <1>4 DEF Boot
  <2>3. \A q \in Replicas : phase'[q] = "up" => phase[q] = "up"
    BY <2>2 DEF TypeOK
  <2>4. \A q \in Replicas : Pending(q)' => task'[q] = task[q]
    BY <2>2 DEF TypeOK, Pending
  <2> QED
    BY <1>3, <2>1, <2>3, <2>4 DEF Aligned, AlignmentsGood, NobodyUp, Pending
<1>5. ASSUME NEW p \in Replicas, TaskRead(p) PROVE Good' /\ AlignmentsGood'
  <2>1. Good'
    BY <1>3, <1>5 DEF TaskRead, historyVars, Aligned, NobodyUp
  <2>2. MaxLinkId \in Nat /\ (\A id \in stored : id <= MaxLinkId) /\ sequence.last \in Nat
    BY MaxLinkIdIsMax DEF TypeOK
  <2>3. IF Alignment = 0 THEN Aligned \/ issued = {}
                         ELSE \A id \in issued : id <= Alignment
    <3>1. CASE Aligned
      BY <2>2, <3>1 DEF Aligned, Alignment, Greatest, TypeOK
    <3>2. CASE issued \subseteq stored
      <4>1. CASE stored = {}
        BY <3>2, <4>1 DEF Alignment
      <4>2. CASE stored # {}
        <5>1. \A id \in stored : id <= Alignment
          BY <2>2, <4>2 DEF Alignment, Greatest, TypeOK
        <5>2. Alignment # 0
          <6>1. MaxLinkId > 0
            <7>1. PICK id \in stored : TRUE
              BY <4>2
            <7>2. id \in Nat /\ id # 0 /\ id <= MaxLinkId
              BY <2>2, <7>1 DEF TypeOK
            <7> QED
              BY <2>2, <7>2
          <6> QED
            BY <2>2, <4>2, <6>1 DEF Alignment, Greatest
        <5> QED
          BY <3>2, <5>1, <5>2
      <4> QED
        BY <4>1, <4>2
    <3>3. CASE issued = {}
      BY <3>3
    <3> QED
      BY <1>3, <3>1, <3>2, <3>3
  <2>4. /\ UNCHANGED <<issued, sequence>>
        /\ task' = [task EXCEPT ![p] = [step |-> "write", value |-> Alignment]]
    BY <1>2, <1>5 DEF TaskRead, historyVars
  <2>5. task'[p].value = Alignment /\ \A q \in Replicas \ {p} : task'[q] = task[q]
    BY <2>4 DEF TypeOK
  <2>6. Aligned' = Aligned
    BY <2>4 DEF Aligned
  <2>7. AlignmentsGood'
    BY <1>3, <2>3, <2>4, <2>5, <2>6 DEF AlignmentsGood, Pending
  <2> QED
    BY <2>1, <2>7
<1>6. ASSUME NEW p \in Replicas, AlignSequence(p) PROVE Good' /\ AlignmentsGood'
  <2>1. /\ Pending(p) /\ issued' = issued
        /\ sequence' = IF task[p].value = 0 THEN sequence
                       ELSE [last |-> task[p].value, called |-> TRUE]
    BY <1>6 DEF AlignSequence, Pending, historyVars
  <2>2. Good'
    <3>1. CASE task[p].value = 0
      BY <1>3, <2>1, <3>1 DEF AlignmentsGood, Aligned, NobodyUp
    <3>2. CASE task[p].value # 0
      BY <1>3, <2>1, <3>2 DEF AlignmentsGood, Aligned
    <3> QED
      BY <3>1, <3>2
  <2>3. \A q \in Replicas : Pending(q)' => task'[q] = task[q]
    BY <1>6 DEF AlignSequence, EndTask, NoTask, TypeOK, Pending
  <2>4. Aligned => Aligned'
    <3>1. CASE task[p].value = 0
      BY <2>1, <3>1 DEF Aligned
    <3>2. CASE task[p].value # 0
      BY <1>3, <2>1, <3>2 DEF AlignmentsGood, Aligned
    <3> QED
      BY <3>1, <3>2
  <2> QED
    BY <1>3, <2>1, <2>2, <2>3, <2>4 DEF AlignmentsGood, Pending
<1>7. ASSUME NEW p \in Replicas, TaskFails(p) \/ Die(p) PROVE Good' /\ AlignmentsGood'
  <2>1. UNCHANGED <<issued, sequence, stored>>
    BY <1>7 DEF TaskFails, Die, historyVars
  <2>2. \A q \in Replicas : phase'[q] = "up" => phase[q] = "up"
    BY <1>7 DEF TaskFails, Die, TypeOK
  <2>3. \A q \in Replicas : Pending(q)' => task'[q] = task[q]
    BY <1>7 DEF TaskFails, Die, TypeOK, Pending, NoTask
  <2> QED
    BY <1>3, <2>1, <2>2, <2>3 DEF Aligned, AlignmentsGood, NobodyUp, Pending
<1>8. ASSUME NEW p \in Replicas, NextPostgres(p) PROVE Good' /\ AlignmentsGood'
  <2> DEFINE id == IF sequence.called THEN sequence.last + 1 ELSE sequence.last
  <2>1. /\ phase[p] = "up" /\ sequence' = [last |-> id, called |-> TRUE]
        /\ UNCHANGED task
    BY <1>8 DEF NextPostgres, Idle, processVars
  <2>2. Aligned \/ issued = {}
    BY <1>3, <2>1 DEF NobodyUp
  <2>3. sequence.last \in Nat /\ issued \subseteq Nat
    BY DEF TypeOK
  <2>4. CASE incident'
    <3>1. issued' = {}
      BY <1>8, <2>4 DEF NextPostgres, Issue
    <3>2. Aligned'
      BY <2>1, <3>1 DEF Aligned
    <3> QED
      BY <3>1, <3>2 DEF AlignmentsGood
  <2>5. CASE ~incident'
    <3>1. issued' = issued \cup {id} /\ \A q \in Replicas : ~Pending(q)
      BY <1>8, <2>5 DEF NextPostgres, Issue, Pending
    <3>2. Aligned'
      BY <2>1, <2>2, <2>3, <3>1 DEF Aligned
    <3> QED
      BY <2>1, <3>1, <3>2 DEF AlignmentsGood, Pending
  <2> QED
    BY <2>4, <2>5
<1>9. ASSUME NEW p \in Replicas, Insert(p) \/ Fail(p) PROVE Good' /\ AlignmentsGood'
  BY <1>3, <1>9
  DEF Insert, Fail, processVars, historyVars, Aligned, AlignmentsGood, NobodyUp, Pending
<1>10. ASSUME NEW p \in Replicas, NEW id \in stored, Delete(p, id)
       PROVE  Good' /\ AlignmentsGood'
  BY <1>3, <1>10
  DEF Delete, processVars, Aligned, AlignmentsGood, NobodyUp, Pending
<1> QED
  BY <1>2, <1>3, <1>script, <1>4, <1>5, <1>6, <1>7, <1>8, <1>9, <1>10
  DEF Next, Recover, RaiseCounter, Ready, Failover, NextRedis, NextOffline, Increment,
      NextSnowflake, TimestampExhausted, ClockMoves, ScriptReads, ScriptSets

-----------------------------------------------------------------------------
(* snowflake.                                                              *)

\* Where a generator stands and what it has minted only moves forward.
LEMMA PastMintStays ==
  ASSUME TypeOK, NEW p \in Replicas, NextSnowflake(p), ~incident',
         generator[p].last <= minted[p],
         NEW ts \in 0..MaxClock, NEW seq \in 0..(SequenceCount - 1), PastMint(p, ts, seq)
  PROVE  /\ ts < MintTime(p) \/ (ts = MintTime(p) /\ seq < NextSeq(p))
<1>1. /\ MintTime(p) \in Nat /\ MintTime(p) >= clock[p] /\ MintTime(p) > 0
      /\ clock[p] \in Nat /\ generator[p].last \in Nat
      /\ clock[p] > 0 /\ clock[p] >= generator[p].last
  BY MintTimeIs DEF NextSnowflake, ClockUsable
<1>2. generator[p].seq \in Nat /\ NextSeq(p) \in Nat /\ seq \in Nat /\ ts \in Nat
      /\ minted[p] \in Nat
  BY NextSeqIs, IdsAssumption DEF TypeOK
<1>3. CASE generator[p].last = 0
  <2>1. ts <= minted[p] /\ clock[p] > minted[p]
    <3>1. ~(generator[p].last = 0 /\ clock[p] <= minted[p])
      BY DEF NextSnowflake
    <3>2. ts <= minted[p]
      BY <1>3 DEF PastMint
    <3> QED
      BY <1>1, <1>2, <1>3, <3>1, <3>2
  <2> QED
    BY <1>1, <1>2, <2>1
<1>4. CASE generator[p].last # 0
  <2>1. ts < generator[p].last \/ (ts = generator[p].last /\ seq <= generator[p].seq)
    BY <1>4 DEF PastMint
  <2>2. CASE clock[p] # generator[p].last
    BY <1>1, <1>2, <2>1, <2>2
  <2>3. CASE clock[p] = generator[p].last /\ NextSeq(p) = 0
    <3>1. MintTime(p) = clock[p] + 1
      BY <2>3 DEF MintTime
    <3> QED
      BY <1>1, <1>2, <2>1, <2>3, <3>1
  <2>4. CASE clock[p] = generator[p].last /\ NextSeq(p) # 0
    <3>1. MintTime(p) = clock[p]
      BY <2>4 DEF MintTime
    <3>2. NextSeq(p) = generator[p].seq + 1
      BY <2>4, NextSeqIs
    <3> QED
      BY <1>1, <1>2, <2>1, <2>4, <3>1, <3>2
  <2> QED
    BY <2>2, <2>3, <2>4
<1> QED
  BY <1>3, <1>4

LEMMA SnowflakeStep == Typed /\ SnowflakeInv /\ [Next]_vars => SnowflakeInv'
<1> DEFINE Held(p, id) ==
      \E ts \in 0..MaxClock, seq \in 0..(SequenceCount - 1) :
        id = Pack(ts, MachineOf[p], seq) /\ PastMint(p, ts, seq)
<1> DEFINE Behind == \A p \in Replicas : generator[p].last <= minted[p]
<1> DEFINE AllHeld == \A id \in issued : \E p \in Replicas : Held(p, id)
<1> SUFFICES ASSUME TypeOK, SnowflakeInv, [Next]_vars, backend' = "snowflake"
             PROVE  script'.step = "none" /\ Behind' /\ AllHeld'
  BY DEF Typed, SnowflakeInv
<1>1. CASE UNCHANGED vars
  BY <1>1 DEF vars, SnowflakeInv, PastMint
<1> SUFFICES ASSUME Next PROVE script'.step = "none" /\ Behind' /\ AllHeld'
  BY <1>1
<1>2. backend = "snowflake"
  BY DEF Next, Recover, Boot, TaskRead, RaiseCounter, AlignSequence, TaskFails, Die, Ready,
         Failover, ScriptReads, ScriptSets, NextRedis, NextOffline, Increment, NextPostgres,
         NextSnowflake, TimestampExhausted, Insert, Fail, Delete, ClockMoves
<1>3. script.step = "none" /\ Behind /\ AllHeld
  BY <1>2 DEF SnowflakeInv
<1>script. script' = script
  BY <1>2, <1>3
  DEF Next, Recover, Boot, TaskRead, RaiseCounter, AlignSequence, TaskFails, Die, Ready,
      Failover, ScriptReads, ScriptSets, NextRedis, NextOffline, Increment, NextPostgres,
      NextSnowflake, TimestampExhausted, Insert, Fail, Delete, ClockMoves, processVars
<1>4. CASE UNCHANGED <<issued, generator, minted>>
  <2>1. \A p \in Replicas, ts \in 0..MaxClock, seq \in 0..(SequenceCount - 1) :
          PastMint(p, ts, seq)' <=> PastMint(p, ts, seq)
    BY <1>4 DEF PastMint
  <2>2. AllHeld'
    BY <1>3, <1>4, <2>1
  <2>3. Behind'
    BY <1>3, <1>4
  <2> QED
    BY <1>3, <1>script, <2>2, <2>3
<1>5. ASSUME NEW p \in Replicas, Boot(p) PROVE Behind' /\ AllHeld'
  <2>1. /\ generator' = [generator EXCEPT ![p] = NewGenerator]
        /\ UNCHANGED <<issued, minted>>
    BY <1>5 DEF Boot, historyVars
  <2>2. /\ generator'[p].last = 0
        /\ \A q \in Replicas \ {p} : generator'[q] = generator[q]
        /\ minted[p] \in Nat /\ generator[p].last \in Nat
    BY <2>1 DEF TypeOK, NewGenerator
  <2>3. Behind'
    BY <1>3, <2>1, <2>2
  <2>4. ASSUME NEW q \in Replicas, NEW ts \in 0..MaxClock,
               NEW seq \in 0..(SequenceCount - 1), PastMint(q, ts, seq)
        PROVE  PastMint(q, ts, seq)'
    <3>1. CASE q = p
      BY <1>3, <2>1, <2>2, <2>4, <3>1 DEF PastMint
    <3>2. CASE q # p
      BY <2>1, <2>2, <2>4, <3>2 DEF PastMint
    <3> QED
      BY <3>1, <3>2
  <2>5. AllHeld'
    BY <1>3, <2>1, <2>4
  <2> QED
    BY <2>3, <2>5
<1>6. ASSUME NEW p \in Replicas, NextSnowflake(p) PROVE Behind' /\ AllHeld'
  <2>1. /\ generator' = [generator EXCEPT ![p] = [last |-> MintTime(p), seq |-> NextSeq(p)]]
        /\ minted' = [minted EXCEPT ![p] = Greatest(@, MintTime(p))]
    BY <1>6 DEF NextSnowflake
  <2>2. /\ generator'[p].last = MintTime(p) /\ generator'[p].seq = NextSeq(p)
        /\ minted'[p] = Greatest(minted[p], MintTime(p))
        /\ \A q \in Replicas \ {p} : generator'[q] = generator[q] /\ minted'[q] = minted[q]
    BY <2>1 DEF TypeOK
  <2>3. /\ MintTime(p) \in 0..MaxClock /\ MintTime(p) > 0
        /\ NextSeq(p) \in 0..(SequenceCount - 1)
        /\ minted[p] \in Nat
    BY <1>6, MintTimeIs, NextSeqIs, IdsAssumption DEF NextSnowflake, TypeOK
  <2>4. Behind'
    BY <1>3, <2>2, <2>3 DEF Greatest
  <2>5. CASE incident'
    <3>1. issued' = {}
      BY <1>6, <2>5 DEF NextSnowflake, Issue
    <3> QED
      BY <2>4, <3>1
  <2>6. CASE ~incident'
    <3> DEFINE new == Pack(MintTime(p), MachineOf[p], NextSeq(p))
    <3>1. issued' = issued \cup {new}
      BY <1>6, <2>6 DEF NextSnowflake, Issue
    <3>3. \E ts \in 0..MaxClock, seq \in 0..(SequenceCount - 1) :
            new = Pack(ts, MachineOf[p], seq) /\ PastMint(p, ts, seq)'
      <4> DEFINE t == MintTime(p)
                 s == NextSeq(p)
      <4>1. /\ t \in 0..MaxClock /\ s \in 0..(SequenceCount - 1) /\ t > 0
            /\ generator'[p].last = t /\ generator'[p].seq = s
            /\ new = Pack(t, MachineOf[p], s)
        BY <2>2, <2>3
      <4> HIDE DEF t, s
      <4>2. \A u \in 0..MaxClock, r \in 0..(SequenceCount - 1) :
              generator'[p].last = u /\ generator'[p].seq = r /\ u > 0
                => PastMint(p, u, r)'
        BY IdsAssumption DEF PastMint
      <4> QED
        BY <4>1, <4>2
    <3>4. ASSUME NEW q \in Replicas, NEW ts \in 0..MaxClock,
                 NEW seq \in 0..(SequenceCount - 1), PastMint(q, ts, seq)
          PROVE  PastMint(q, ts, seq)'
      <4>1. CASE q = p
        <5>1. ts < MintTime(p) \/ (ts = MintTime(p) /\ seq < NextSeq(p))
          BY <1>3, <1>6, <2>6, <3>4, <4>1, PastMintStays
        <5>2. seq \in Nat /\ NextSeq(p) \in Nat /\ ts \in Nat /\ MintTime(p) \in Nat
          BY <2>3, IdsAssumption
        <5> QED
          BY <2>2, <2>3, <4>1, <5>1, <5>2 DEF PastMint
      <4>2. CASE q # p
        BY <2>2, <3>4, <4>2 DEF PastMint
      <4> QED
        BY <4>1, <4>2
    <3> HIDE DEF new
    <3>5. AllHeld'
      BY <1>3, <3>1, <3>3, <3>4
    <3> QED
      BY <2>4, <3>5
  <2> QED
    BY <2>5, <2>6
<1>7. ASSUME NEW p \in Replicas, TimestampExhausted(p) PROVE Behind' /\ AllHeld'
  <2>1. /\ issued' = {} /\ UNCHANGED minted
        /\ generator' = [generator EXCEPT ![p].seq = NextSeq(p)]
    BY <1>7 DEF TimestampExhausted, Incident
  <2>2. \A q \in Replicas : generator'[q].last = generator[q].last
    BY <2>1 DEF TypeOK
  <2> QED
    BY <1>3, <2>1, <2>2
<1>8. UNCHANGED <<issued, generator, minted>>
        \/ \E p \in Replicas : Boot(p) \/ NextSnowflake(p) \/ TimestampExhausted(p)
  BY <1>2, <1>3
  DEF Next, Recover, TaskRead, RaiseCounter, AlignSequence, TaskFails, Die, Ready,
      Failover, ScriptReads, ScriptSets, NextRedis, NextOffline, Increment, NextPostgres,
      Insert, Fail, Delete, ClockMoves, historyVars
<1> QED
  BY <1>3, <1>script, <1>4, <1>5, <1>6, <1>7, <1>8

-----------------------------------------------------------------------------
(* The two invariants the runs check.                                      *)

LEMMA PastPersistedStep == TypeOK /\ PastPersisted /\ [Next]_vars => PastPersisted'
<1> SUFFICES ASSUME TypeOK, PastPersisted, [Next]_vars PROVE PastPersisted'
  OBVIOUS
<1>1. counter \in Nat /\ floor \in Nat /\ script.value \in Nat
  BY DEF TypeOK
<1>2. ASSUME NEW p \in Replicas, RaiseCounter(p) PROVE PastPersisted'
  <2>1. task[p].value \in Nat
    BY DEF TypeOK
  <2>2. CASE task[p].value = 0
    BY <1>2, <2>2 DEF RaiseCounter, PastPersisted
  <2>3. CASE task[p].value # 0
    <3>1. /\ counter' = Greatest(counter, task[p].value)
          /\ floor' = Greatest(floor, task[p].value - 1)
      BY <1>2, <2>3 DEF RaiseCounter, Raise
    <3> QED
      BY <1>1, <2>1, <2>3, <3>1 DEF Greatest, PastPersisted
  <2> QED
    BY <2>2, <2>3
<1>3. CASE ScriptSets
  <2>1. /\ counter' = script.value
        /\ floor' = 0 \/ floor' = IF script.value = 0 THEN 0 ELSE script.value - 1
    BY <1>3 DEF ScriptSets
  <2> QED
    BY <1>1, <2>1 DEF PastPersisted
<1>4. ASSUME NEW p \in Replicas, Increment(p) PROVE PastPersisted'
  BY <1>1, <1>4 DEF Increment, PastPersisted
<1>5. ASSUME NEW value \in 0..counter, Failover(value) PROVE PastPersisted'
  BY <1>5 DEF Failover, PastPersisted
<1>6. CASE UNCHANGED <<counter, floor>>
  BY <1>6 DEF PastPersisted
<1>7. \/ UNCHANGED <<counter, floor>>
      \/ \E p \in Replicas : RaiseCounter(p) \/ Increment(p)
      \/ \E value \in 0..counter : Failover(value)
      \/ ScriptSets
  BY DEF vars, Next, Recover, Boot, TaskRead, AlignSequence, TaskFails, Die, Ready,
         ScriptReads, NextRedis, NextOffline, NextPostgres, NextSnowflake,
         TimestampExhausted, Insert, Fail, Delete, ClockMoves, historyVars
<1> QED
  BY <1>2, <1>3, <1>4, <1>5, <1>6, <1>7

LEMMA IssuedOnceStep ==
  Typed /\ RedisInv /\ PostgresInv /\ SnowflakeInv /\ IssuedOnce /\ [Next]_vars
    => IssuedOnce'
<1> SUFFICES ASSUME TypeOK, RedisInv, PostgresInv, SnowflakeInv, ~twice, [Next]_vars
             PROVE  ~twice'
  BY DEF Typed, IssuedOnce
<1>1. counter \in Nat /\ issued \subseteq Nat /\ sequence.last \in Nat
  BY DEF TypeOK
<1>2. ASSUME NEW p \in Replicas, Increment(p) PROVE ~twice'
  <2>1. Past
    BY <1>2 DEF Increment, Idle, RedisInv, NotYetPast, NobodyUp
  <2>2. counter + 1 \notin issued
    BY <1>1, <2>1 DEF Past
  <2> QED
    BY <1>2, <2>2 DEF Increment, Issue
<1>3. ASSUME NEW p \in Replicas, NextPostgres(p) PROVE ~twice'
  <2> DEFINE id == IF sequence.called THEN sequence.last + 1 ELSE sequence.last
  <2>1. Aligned \/ issued = {}
    BY <1>3 DEF NextPostgres, Idle, PostgresInv, NobodyUp
  <2>2. id \notin issued
    BY <1>1, <2>1 DEF Aligned
  <2> QED
    BY <1>3, <2>2 DEF NextPostgres, Issue
<1>4. ASSUME NEW p \in Replicas, NextSnowflake(p) PROVE ~twice'
  <2> DEFINE new == Pack(MintTime(p), MachineOf[p], NextSeq(p))
  <2>1. CASE incident'
    BY <1>4, <2>1 DEF NextSnowflake, Issue
  <2>2. CASE ~incident'
    <3>1. SUFFICES ASSUME new \in issued PROVE FALSE
      BY <1>4 DEF NextSnowflake, Issue
    <3>2. PICK q \in Replicas, ts \in 0..MaxClock, seq \in 0..(SequenceCount - 1) :
            new = Pack(ts, MachineOf[q], seq) /\ PastMint(q, ts, seq)
      BY <1>4, <3>1 DEF NextSnowflake, SnowflakeInv
    <3>3. /\ MintTime(p) \in Nat /\ NextSeq(p) \in 0..(SequenceCount - 1) /\ ts \in Nat
          /\ generator[p].last <= minted[p]
      BY <1>4, MintTimeIs, NextSeqIs DEF NextSnowflake, SnowflakeInv
    <3>4. MintTime(p) = ts /\ p = q /\ NextSeq(p) = seq
      BY <3>2, <3>3, PackInjective
    <3>5. ts < MintTime(p) \/ (ts = MintTime(p) /\ seq < NextSeq(p))
      BY <1>4, <2>2, <3>2, <3>3, <3>4, PastMintStays
    <3>6. seq \in Nat
      BY IdsAssumption
    <3> QED
      BY <3>3, <3>4, <3>5, <3>6
  <2> QED
    BY <2>1, <2>2
<1>5. \/ twice' = twice
      \/ \E p \in Replicas : Increment(p) \/ NextPostgres(p) \/ NextSnowflake(p)
  BY DEF vars, Next, Recover, Boot, TaskRead, RaiseCounter, AlignSequence, TaskFails, Die,
         Ready, Failover, ScriptReads, ScriptSets, NextRedis, NextOffline,
         TimestampExhausted, Insert, Fail, Delete, ClockMoves, historyVars
<1> QED
  BY <1>2, <1>3, <1>4, <1>5

LEMMA IdsInit ==
  Init => RedisInv /\ PostgresInv /\ SnowflakeInv /\ ScriptSeen /\ PastPersisted /\ IssuedOnce
<1> SUFFICES ASSUME Init
             PROVE  /\ RedisInv /\ PostgresInv /\ SnowflakeInv /\ ScriptSeen
                    /\ PastPersisted /\ IssuedOnce
  OBVIOUS
<1>1. PICK k \in (IF backend = "snowflake" THEN {0} ELSE 0..MaxStored) :
        stored = 1..k /\ issued = 1..k
  BY DEF Init
<1>2. NobodyUp /\ issued = stored /\ (\A p \in Replicas : ~Pending(p)) /\ script.step = "none"
  BY <1>1 DEF Init, NobodyUp, Pending, NoTask, NoScript
<1>3. RedisInv /\ PostgresInv
  BY <1>2 DEF RedisInv, NotYetPast, PostgresInv, AlignmentsGood
<1>4. SnowflakeInv
  <2>1. backend = "snowflake" => issued = {}
    BY <1>1
  <2>2. \A p \in Replicas : generator[p].last <= minted[p]
    BY DEF Init, NewGenerator
  <2> QED
    BY <1>2, <2>1, <2>2 DEF SnowflakeInv
<1>5. ScriptSeen /\ PastPersisted /\ IssuedOnce
  BY DEF Init, NoScript, ScriptSeen, PastPersisted, IssuedOnce
<1> QED
  BY <1>3, <1>4, <1>5

LEMMA IdsInvariant == Spec => []IdsInv
<1>1. Init => IdsInv
  BY TypeInit, IdsInit DEF IdsInv
<1>2. IdsInv /\ [Next]_vars => IdsInv'
  BY TypeStep, RedisStep, PostgresStep, SnowflakeStep, ScriptSeenStep, PastPersistedStep,
     IssuedOnceStep
  DEF IdsInv, Typed
<1> QED
  BY <1>1, <1>2, PTL DEF Spec

\* No id is handed out twice: a counter in use is past the ids handed out, and
\* so is every value a recovery is about to write; a snowflake id is behind
\* the generator, or the earlier one, of the machine it names.
THEOREM IssuedOnceHolds == Spec => []IssuedOnce
<1>1. IdsInv => IssuedOnce
  BY DEF IdsInv
<1> QED
  BY <1>1, IdsInvariant, PTL

\* The counter stays past every link a recovery has raised it past, until
\* Redis loses writes again.
THEOREM PastPersistedHolds == Spec => []PastPersisted
<1>1. IdsInv => PastPersisted
  BY DEF IdsInv
<1> QED
  BY <1>1, IdsInvariant, PTL

-----------------------------------------------------------------------------
(* The source of ids: Ids implements IdSource.                             *)

\* The ids a link may have.
LinkIds == IF backend = "snowflake" THEN issued \ {drawn[p] : p \in Replicas} ELSE stored
idVars == <<drawn, LinkIds, incident>>

\* Until an incident, ids in use were handed out, and to one creation each; a
\* sequence never stands at 0; the script is of the redis counter.
InUseIssued ==
  ~incident =>
    /\ InUse \subseteq issued
    /\ \A p, q \in Replicas : drawn[p] # 0 /\ drawn[p] = drawn[q] => p = q
SourceInv ==
  /\ InUseIssued /\ 0 \notin issued
  /\ sequence.last > 0
  /\ script.step = "write" => backend = "redis"

\* The id a creation draws is none (0) of the marks there are for no id.
LEMMA MintPositive ==
  ASSUME TypeOK, NEW p \in Replicas, NextSnowflake(p)
  PROVE  Pack(MintTime(p), MachineOf[p], NextSeq(p)) \in Nat \ {0}
<1>1. /\ MintTime(p) \in Nat /\ MintTime(p) >= clock[p] /\ clock[p] > 0 /\ clock[p] \in Nat
      /\ NextSeq(p) \in Nat
  BY NextSeqIs, IdsAssumption DEF NextSnowflake, ClockUsable, MintTime, TypeOK
<1>2. /\ MachineOf[p] \in Nat /\ MachineCount \in Nat /\ MachineCount > 0
      /\ SequenceCount \in Nat /\ SequenceCount > 0
  BY IdsAssumption
<1>3. ASSUME NEW a \in Nat, NEW b \in Nat, a > 0, b > 0 PROVE a * b \in Nat /\ a * b > 0
  BY <1>3
<1>4. /\ MintTime(p) * MachineCount + MachineOf[p] \in Nat
      /\ MintTime(p) * MachineCount + MachineOf[p] > 0
  BY <1>1, <1>2, <1>3
<1>5. /\ (MintTime(p) * MachineCount + MachineOf[p]) * SequenceCount \in Nat
      /\ (MintTime(p) * MachineCount + MachineOf[p]) * SequenceCount > 0
  BY <1>2, <1>3, <1>4
<1> QED
  BY <1>1, <1>5 DEF Pack

\* An id that is handed out is fresh: until an incident it was in no use.
LEMMA Handed ==
  ASSUME TypeOK, IssuedOnce, IssuedOnce', InUseIssued, 0 \notin issued, NEW p \in Replicas,
         NEW id \in Nat \ {0}, Idle(p), Issue(p, id), UNCHANGED <<backend, stored>>,
         incident => incident', incident' \in BOOLEAN
  PROVE  InUseIssued' /\ 0 \notin issued' /\ (~incident' => Source!Draw(p))
<1>1. /\ drawn \in [Replicas -> Nat] /\ drawn' = [drawn EXCEPT ![p] = id] /\ drawn[p] = 0
      /\ incident \in BOOLEAN
  BY DEF TypeOK, Issue, Idle
<1>2. CASE incident'
  BY <1>2 DEF InUseIssued, Issue
<1>3. CASE ~incident'
  <2>1. issued' = issued \cup {id} /\ id \notin issued /\ ~incident /\ incident' = incident
    BY <1>1, <1>3 DEF Issue, IssuedOnce
  <2>2. id \notin stored /\ \A q \in Replicas : drawn[q] # id
    BY <1>1, <2>1 DEF InUseIssued, InUse
  <2>3. InUse' \subseteq InUse \cup {id}
    BY <1>1 DEF InUse
  <2>4. InUseIssued'
    BY <1>1, <2>1, <2>2, <2>3 DEF InUseIssued
  <2>5. LinkIds' = LinkIds
    <3>1. CASE backend = "snowflake"
      <4>1. \A other \in issued : (\E q \in Replicas : drawn'[q] = other)
                                  <=> (\E q \in Replicas : drawn[q] = other)
        BY <1>1, <2>1
      <4> QED
        BY <1>1, <2>1, <3>1, <4>1 DEF LinkIds
    <3> QED
      BY <3>1 DEF LinkIds
  <2>6. id \notin LinkIds
    BY <2>1, <2>2 DEF LinkIds
  <2>7. Source!Draw(p)
    BY <1>1, <2>1, <2>2, <2>5, <2>6 DEF Source!Draw, LinkIds
  <2> QED
    BY <2>1, <2>4, <2>7
<1> QED
  BY <1>2, <1>3

\* What each step is for the source.
LEMMA SourceStep ==
  ASSUME IdsInv, IdsInv', SourceInv, [Next]_vars
  PROVE  SourceInv' /\ [Source!Next]_idVars
<1>0. /\ TypeOK /\ Typed /\ TypeOK' /\ IssuedOnce /\ IssuedOnce' /\ InUseIssued
      /\ drawn \in [Replicas -> Nat] /\ incident \in BOOLEAN /\ incident' \in BOOLEAN
      /\ sequence.last \in Nat /\ sequence.last > 0
      /\ 0 \notin issued /\ 0 \notin stored
      /\ script.step = "write" => backend = "redis"
      /\ backend' = backend
  BY DEF IdsInv, Typed, TypeOK, SourceInv, vars, Next, Recover, Boot, TaskRead, RaiseCounter,
     AlignSequence, TaskFails, Die, Ready, Failover, ScriptReads, ScriptSets, NextRedis,
     NextOffline, Increment, NextPostgres, NextSnowflake, TimestampExhausted, Insert, Fail,
     Delete, ClockMoves
\* An incident takes the promise back.
<1>1. incident' => [Source!Next]_idVars /\ InUseIssued'
  BY DEF Source!Next, InUseIssued
\* A draw.
<1>2. ASSUME NEW p \in Replicas, NextRedis(p) \/ NextOffline(p)
      PROVE  SourceInv' /\ [Source!Next]_idVars
  <2>1. /\ Idle(p) /\ Issue(p, counter + 1) /\ counter + 1 \in Nat \ {0}
        /\ incident' = incident /\ UNCHANGED <<stored, sequence, script>>
    BY <1>0, <1>2 DEF NextRedis, NextOffline, Increment, TypeOK, processVars
  <2>2. InUseIssued' /\ 0 \notin issued' /\ (~incident' => Source!Draw(p))
    BY <1>0, <2>1, Handed
  <2> QED
    BY <1>0, <1>1, <2>1, <2>2 DEF SourceInv, Source!Next
<1>3. ASSUME NEW p \in Replicas, NextPostgres(p)
      PROVE  SourceInv' /\ [Source!Next]_idVars
  <2> DEFINE id == IF sequence.called THEN sequence.last + 1 ELSE sequence.last
  <2>1. /\ Idle(p) /\ Issue(p, id) /\ id \in Nat \ {0} /\ sequence'.last = id
        /\ (incident => incident') /\ UNCHANGED <<stored, script>>
    BY <1>0, <1>3 DEF NextPostgres, processVars
  <2> HIDE DEF id
  <2>2. InUseIssued' /\ 0 \notin issued' /\ (~incident' => Source!Draw(p))
    BY <1>0, <2>1, Handed
  <2>3. sequence'.last > 0
    BY <2>1
  <2> QED
    BY <1>0, <1>1, <2>1, <2>2, <2>3 DEF SourceInv, Source!Next
<1>4. ASSUME NEW p \in Replicas, NextSnowflake(p)
      PROVE  SourceInv' /\ [Source!Next]_idVars
  <2> DEFINE id == Pack(MintTime(p), MachineOf[p], NextSeq(p))
  <2>1. id \in Nat \ {0}
    BY <1>0, <1>4, MintPositive
  <2>2. /\ Idle(p) /\ Issue(p, id)
        /\ (incident => incident') /\ UNCHANGED <<stored, sequence, script>>
    BY <1>0, <1>4 DEF NextSnowflake, processVars
  <2> HIDE DEF id
  <2>3. InUseIssued' /\ 0 \notin issued' /\ (~incident' => Source!Draw(p))
    BY <1>0, <2>1, <2>2, Handed
  <2> QED
    BY <1>0, <1>1, <2>2, <2>3 DEF SourceInv, Source!Next
\* The end of a creation: of snowflake the id it lets go of may be a link's.
<1>5. ASSUME NEW p \in Replicas, Insert(p) \/ Fail(p) \/ Die(p)
      PROVE  SourceInv' /\ [Source!Next]_idVars
  <2>1. /\ drawn' = [drawn EXCEPT ![p] = 0] /\ UNCHANGED <<sequence, issued, incident>>
        /\ stored' = stored \/ (drawn[p] # 0 /\ stored' = stored \cup {drawn[p]})
        /\ script' = script
    BY <1>5 DEF Insert, Fail, Die, historyVars, processVars
  <2>2. InUse' \subseteq InUse
    BY <1>0, <2>1 DEF InUse
  <2>3. SourceInv'
    BY <1>0, <2>1, <2>2 DEF SourceInv, InUseIssued
  <2>4. CASE drawn[p] = 0
    BY <1>0, <2>1, <2>3, <2>4 DEF LinkIds, idVars
  <2>5. CASE drawn[p] # 0 /\ ~incident'
    <3>1. LinkIds' = LinkIds \/ LinkIds' = LinkIds \cup {drawn[p]}
      <4>1. CASE backend = "snowflake"
        <5>1. drawn[p] \in issued
          BY <1>0, <2>1, <2>5 DEF InUseIssued, InUse
        <5>2. \A id \in issued : (\E q \in Replicas : drawn'[q] = id)
                                 <=> (id # drawn[p] /\ \E q \in Replicas : drawn[q] = id)
          BY <1>0, <2>1, <2>5 DEF InUseIssued
        <5> QED
          BY <1>0, <2>1, <4>1, <5>1, <5>2 DEF LinkIds
      <4>2. CASE backend # "snowflake"
        BY <1>0, <2>1, <4>2 DEF LinkIds
      <4> QED
        BY <4>1, <4>2
    <3>2. Source!Store(p) \/ Source!Burn(p)
      BY <2>1, <2>5, <3>1 DEF Source!Store, Source!Burn, Source!LetGo, LinkIds
    <3> QED
      BY <2>3, <3>2 DEF Source!Next
  <2> QED
    BY <1>1, <2>3, <2>4, <2>5
<1>6. ASSUME NEW p \in Replicas, NEW id \in stored, Delete(p, id)
      PROVE  SourceInv' /\ [Source!Next]_idVars
  <2>1. stored' = stored \ {id} /\ UNCHANGED <<drawn, issued, incident, sequence, script>>
    BY <1>6 DEF Delete, processVars
  <2>2. InUse' \subseteq InUse
    BY <2>1 DEF InUse
  <2>3. SourceInv'
    BY <1>0, <2>1, <2>2 DEF SourceInv, InUseIssued
  <2>4. CASE backend = "snowflake"
    BY <1>0, <2>1, <2>3, <2>4 DEF LinkIds, idVars
  <2>5. CASE backend # "snowflake"
    <3>1. id \in LinkIds /\ Source!Delete(id)
      BY <1>0, <2>1, <2>5 DEF Source!Delete, LinkIds
    <3> QED
      BY <2>3, <3>1 DEF Source!Next, LinkIds
  <2> QED
    BY <2>4, <2>5
<1>7. ASSUME (\E value \in 0..counter : Failover(value))
               \/ \E p \in Replicas : TimestampExhausted(p)
      PROVE  SourceInv' /\ [Source!Next]_idVars
  BY <1>0, <1>1, <1>7 DEF Failover, TimestampExhausted, Incident, SourceInv, processVars
<1>8. CASE ScriptSets
  <2>1. /\ UNCHANGED <<drawn, stored, sequence>> /\ (incident => incident')
        /\ (incident' /\ issued' = {}) \/ (~incident' /\ issued' = InUse)
        /\ script'.step = "none" /\ backend = "redis"
    BY <1>0, <1>8 DEF ScriptSets, NoScript
  <2>2. InUse' = InUse /\ 0 \notin InUse
    BY <1>0, <2>1 DEF InUse
  <2>3. SourceInv'
    BY <1>0, <1>1, <2>1, <2>2 DEF SourceInv, InUseIssued
  <2>4. ~incident' => UNCHANGED idVars
    BY <1>0, <2>1 DEF idVars, LinkIds
  <2> QED
    BY <1>1, <2>3, <2>4
<1>9. ASSUME NEW p \in Replicas, AlignSequence(p)
      PROVE  SourceInv' /\ [Source!Next]_idVars
  <2>1. task[p].value \in Nat /\ UNCHANGED <<drawn, stored, issued, incident, script>>
    BY <1>0, <1>9 DEF AlignSequence, TypeOK, historyVars
  <2>2. sequence'.last > 0
    BY <1>0, <1>9, <2>1 DEF AlignSequence
  <2> QED
    BY <1>0, <2>1, <2>2 DEF SourceInv, InUseIssued, InUse, LinkIds, idVars
<1>10. CASE /\ UNCHANGED <<drawn, stored, incident, issued, sequence>>
            /\ script' = script \/ backend = "redis"
  BY <1>0, <1>10 DEF SourceInv, InUseIssued, InUse, LinkIds, idVars
<1>11. \/ /\ UNCHANGED <<drawn, stored, incident, issued, sequence>>
          /\ script' = script \/ backend = "redis"
       \/ ScriptSets
       \/ \E p \in Replicas :
            \/ NextRedis(p) \/ NextOffline(p) \/ NextPostgres(p) \/ NextSnowflake(p)
            \/ Insert(p) \/ Fail(p) \/ Die(p) \/ AlignSequence(p) \/ TimestampExhausted(p)
            \/ \E id \in stored : Delete(p, id)
       \/ \E value \in 0..counter : Failover(value)
  BY DEF vars, Next, Recover, Boot, TaskRead, RaiseCounter, TaskFails, Ready,
         ScriptReads, ClockMoves, historyVars, processVars
<1> QED
  BY <1>2, <1>3, <1>4, <1>5, <1>6, <1>7, <1>8, <1>9, <1>10, <1>11

LEMMA SourceInvInit == Init => SourceInv
<1> SUFFICES ASSUME Init PROVE SourceInv
  OBVIOUS
<1>1. stored = issued /\ InUse \subseteq stored
  BY DEF Init, InUse
<1>2. PICK k \in (IF backend = "snowflake" THEN {0} ELSE 0..MaxStored) :
        /\ stored = 1..k /\ issued = 1..k
        /\ counter \in IF backend = "redis" THEN 0..k ELSE {0}
        /\ sequence \in IF backend = "postgres"
                        THEN [last : 1..(k + 1), called : {FALSE}]
                               \cup [last : 1..k, called : {TRUE}]
                        ELSE {[last |-> 1, called |-> FALSE]}
  BY DEF Init
<1>3. sequence.last > 0
  <2>0. k \in Nat
    BY <1>2, IdsAssumption
  <2>1. CASE sequence \in [last : 1..(k + 1), called : {FALSE}]
    BY <2>0, <2>1
  <2>2. CASE sequence \in [last : 1..k, called : {TRUE}]
    BY <2>0, <2>2
  <2>3. CASE sequence = [last |-> 1, called |-> FALSE]
    BY <2>3
  <2> QED
    BY <1>2, <2>1, <2>2, <2>3
<1>4. \A p \in Replicas : drawn[p] = 0
  BY DEF Init
<1>5. 0 \notin issued /\ script.step = "none"
  BY <1>2, IdsAssumption DEF Init, NoScript
<1> QED
  BY <1>1, <1>3, <1>4, <1>5 DEF SourceInv, InUseIssued

\* The counter, the sequence and the generators are one source of ids, whatever
\* boots, crashes and recoveries do to them.
THEOREM ImplementsSource == Spec => SourceSpec
<1>1. Init => Source!Init /\ SourceInv
  BY SourceInvInit DEF Init, Source!Init
<1>2. IdsInv /\ IdsInv' /\ SourceInv /\ [Next]_vars
        => SourceInv' /\ [Source!Next]_idVars
  BY SourceStep
<1> QED
  BY <1>1, <1>2, IdsInvariant, PTL
  DEF Spec, SourceSpec, Source!Spec, Source!sourceVars, idVars, LinkIds

\* The abstract source keeps what it is for.
LEMMA SourceUnshared == Source!Spec => []Source!Unshared
<1> DEFINE Map == drawn = [p \in Replicas |-> drawn[p]]
           Inv == incident \/ (Source!Unshared /\ Map)
<1>1. Source!Init => Inv
  BY DEF Source!Init, Source!Unshared
<1>2. Inv /\ [Source!Next]_idVars => Inv'
  <2> SUFFICES ASSUME Inv, [Source!Next]_idVars, ~incident, ~incident'
               PROVE  (Source!Unshared /\ Map)'
    <3>1. [Source!Next]_idVars /\ incident => incident'
      BY DEF Source!Next, Source!Draw, Source!Store, Source!Burn, Source!Delete, idVars
    <3> QED
      BY <3>1
  <2>1. Source!Unshared' <=>
          \A h \in Replicas : drawn'[h] # 0 =>
            drawn'[h] \notin LinkIds' /\ \A other \in Replicas \ {h} : drawn'[other] # drawn'[h]
    BY DEF Source!Unshared, LinkIds
  <2>2. \A h \in Replicas : drawn[h] # 0 =>
          drawn[h] \notin LinkIds /\ \A other \in Replicas \ {h} : drawn[other] # drawn[h]
    BY DEF Source!Unshared, LinkIds
  <2>3. CASE UNCHANGED idVars
    BY <2>1, <2>2, <2>3 DEF idVars
  <2>4. ASSUME NEW p \in Replicas, Source!Draw(p) PROVE (Source!Unshared /\ Map)'
    <3>1. /\ drawn'[p] \notin LinkIds /\ \A other \in Replicas : drawn'[p] # drawn[other]
          /\ drawn' = [drawn EXCEPT ![p] = drawn'[p]] /\ LinkIds' = LinkIds
      BY <2>4 DEF Source!Draw, LinkIds
    <3> QED
      BY <2>1, <2>2, <3>1
  <2>5. ASSUME NEW p \in Replicas, Source!Store(p) \/ Source!Burn(p)
        PROVE  (Source!Unshared /\ Map)'
    <3>1. /\ drawn[p] # 0 /\ drawn' = [drawn EXCEPT ![p] = 0]
          /\ LinkIds' = LinkIds \/ LinkIds' = LinkIds \cup {drawn[p]}
      BY <2>5 DEF Source!Store, Source!Burn, Source!LetGo, LinkIds
    <3> QED
      BY <2>1, <2>2, <3>1
  <2>6. ASSUME NEW id \in LinkIds, Source!Delete(id) PROVE (Source!Unshared /\ Map)'
    <3>1. drawn' = drawn /\ LinkIds' = LinkIds \ {id}
      BY <2>6 DEF Source!Delete, LinkIds
    <3> QED
      BY <2>1, <2>2, <3>1
  <2> QED
    BY <2>3, <2>4, <2>5, <2>6 DEF Source!Next, LinkIds
<1>3. Inv => Source!Unshared
  BY DEF Source!Unshared
<1> QED
  BY <1>1, <1>2, <1>3, PTL DEF Source!Spec, Source!sourceVars, idVars, LinkIds

\* Until an incident no two creations hold the same id, and none holds an id of
\* a link.
THEOREM UnsharedHolds == Spec => []Source!Unshared
  BY ImplementsSource, SourceUnshared, PTL DEF SourceSpec

-----------------------------------------------------------------------------
(* Concurrent boots: the sequence goes back only past an incident.         *)

\* Outside the race of a boot with nextval, a sequence in use is only raised.
RaisedUnlessRaced ==
  [][sequence.called /\ ~incident => sequence'.last >= sequence.last]_vars

\* The sequence is in use and past the ids in use; or no replica ever came up;
\* or there are no links, and none ever drew an id.  In each case the alignments
\* under way agree, since nobody draws an id meanwhile.
InUseAligned ==
  /\ sequence.called /\ \A id \in InUse : id <= sequence.last
  /\ \A p \in Replicas : Pending(p) => task[p].value \in {0, sequence.last}
BeforeFirst ==
  /\ NobodyUp /\ \A p \in Replicas : drawn[p] = 0
  /\ \A p \in Replicas : Pending(p) => task[p].value = Alignment
NoneYet ==
  /\ InUse = {} /\ ~sequence.called
  /\ \A p \in Replicas : Pending(p) => task[p].value = 0
BootsInv ==
  backend = "postgres" /\ ~incident => InUseAligned \/ BeforeFirst \/ NoneYet

LEMMA AlignmentIs ==
  ASSUME Typed
  PROVE  /\ Alignment \in Nat
         /\ stored = {} => Alignment = 0
         /\ stored # {} => /\ \A id \in stored : id <= Alignment
                           /\ sequence.called => Alignment >= sequence.last
                           /\ Alignment # 0
                           /\ sequence.called /\ (\A id \in stored : id <= sequence.last)
                                => Alignment = sequence.last
<1>1. /\ stored \subseteq Nat /\ IsFiniteSet(stored) /\ 0 \notin stored
      /\ sequence.last \in Nat /\ TypeOK
  BY DEF Typed, TypeOK
<1>2. MaxLinkId \in Nat /\ \A id \in stored : id <= MaxLinkId
  BY <1>1, MaxLinkIdIsMax
<1>3. stored # {} => MaxLinkId \in stored
  <2>1. stored # {} => \E id \in stored : \A other \in stored : other <= id
    BY <1>1, GreatestNatural
  <2> QED
    BY <2>1 DEF MaxLinkId
<1> QED
  BY <1>1, <1>2, <1>3 DEF Alignment, Greatest

LEMMA BootsStep ==
  ASSUME Typed, BootsInv, [Next]_vars, backend = "postgres"
  PROVE  /\ BootsInv'
         /\ sequence.called /\ ~incident => sequence'.last >= sequence.last
<1> DEFINE Goal == /\ BootsInv'
                   /\ sequence.called /\ ~incident => sequence'.last >= sequence.last
<1>0. /\ TypeOK /\ sequence.last \in Nat /\ stored \subseteq Nat
      /\ drawn \in [Replicas -> Nat] /\ phase \in [Replicas -> {"down", "boot", "up"}]
      /\ task \in [Replicas -> [step : {"none", "read", "write"}, value : Nat]]
      /\ incident \in BOOLEAN
  BY DEF Typed, TypeOK
<1>1. CASE incident'
  <2>1. ~incident => UNCHANGED sequence \/ \E p \in Replicas : NextPostgres(p)
    BY <1>1 DEF vars, Next, Recover, Boot, TaskRead, RaiseCounter, AlignSequence, TaskFails, Die,
       Ready, Failover, ScriptReads, ScriptSets, NextRedis, NextOffline, Increment,
       NextSnowflake, TimestampExhausted, Insert, Fail, Delete, ClockMoves, historyVars
  <2>2. ASSUME NEW p \in Replicas, NextPostgres(p), sequence.called
        PROVE  sequence'.last >= sequence.last
    <3>1. sequence'.last = sequence.last + 1
      BY <2>2 DEF NextPostgres
    <3> QED
      BY <1>0, <3>1
  <2> QED
    BY <1>0, <1>1, <2>1, <2>2 DEF BootsInv
<1> SUFFICES ASSUME ~incident', ~incident, InUseAligned \/ BeforeFirst \/ NoneYet
             PROVE  /\ InUseAligned' \/ BeforeFirst' \/ NoneYet'
                    /\ sequence.called => sequence'.last >= sequence.last
  <2>1. incident => incident'
    BY DEF vars, Next, Recover, Boot, TaskRead, RaiseCounter, AlignSequence, TaskFails, Die,
       Ready, Failover, ScriptReads, ScriptSets, NextRedis, NextOffline, Increment, NextPostgres,
       NextSnowflake, TimestampExhausted, Insert, Fail, Delete, ClockMoves, historyVars, Incident
  <2> QED
    BY <1>1, <2>1 DEF BootsInv
<1> HIDE DEF Goal
<1> USE <1>0
<1>2. ASSUME NEW p \in Replicas, Boot(p) \/ TaskFails(p) \/ Die(p)
      PROVE  /\ InUseAligned' \/ BeforeFirst' \/ NoneYet'
             /\ sequence.called => sequence'.last >= sequence.last
  <2>1. /\ UNCHANGED <<sequence, stored>>
        /\ \A q \in Replicas : drawn'[q] \in {0, drawn[q]}
        /\ \A q \in Replicas : Pending(q)' => Pending(q) /\ task'[q] = task[q]
        /\ \A q \in Replicas : phase'[q] = "up" => phase[q] = "up"
    BY <1>2 DEF Boot, TaskFails, Die, Pending, NoTask
  <2>2. InUse' \subseteq InUse /\ Alignment' = Alignment
    BY <2>1 DEF InUse, Alignment, MaxLinkId
  <2> QED
    BY <2>1, <2>2 DEF InUseAligned, BeforeFirst, NoneYet, NobodyUp
<1>3. ASSUME NEW p \in Replicas, TaskRead(p)
      PROVE  /\ InUseAligned' \/ BeforeFirst' \/ NoneYet'
             /\ sequence.called => sequence'.last >= sequence.last
  <2>1. /\ UNCHANGED <<sequence, stored, drawn, phase>>
        /\ \A q \in Replicas : Pending(q)' =>
             task'[q].value = Alignment \/ (Pending(q) /\ task'[q] = task[q])
    BY <1>3 DEF TaskRead, Pending
  <2>2. InUse' = InUse /\ Alignment' = Alignment /\ stored \subseteq InUse
    BY <2>1 DEF InUse, Alignment, MaxLinkId
  <2> QED
    BY <2>1, <2>2, AlignmentIs DEF InUseAligned, BeforeFirst, NoneYet, NobodyUp
<1>4. ASSUME NEW p \in Replicas, AlignSequence(p)
      PROVE  /\ InUseAligned' \/ BeforeFirst' \/ NoneYet'
             /\ sequence.called => sequence'.last >= sequence.last
  <2>1. /\ UNCHANGED <<stored, drawn>> /\ Pending(p) /\ task[p].value \in Nat
        /\ task[p].value = 0 => sequence' = sequence
        /\ task[p].value # 0 => sequence'.last = task[p].value /\ sequence'.called
        /\ \A q \in Replicas : Pending(q)' => Pending(q) /\ task'[q] = task[q]
    BY <1>4 DEF AlignSequence, EndTask, Pending, NoTask
  <2>2. InUse' = InUse /\ stored \subseteq InUse
    BY <2>1 DEF InUse
  <2>3. CASE InUseAligned
    BY <2>1, <2>2, <2>3 DEF InUseAligned
  <2>4. CASE NoneYet
    BY <2>1, <2>2, <2>4 DEF NoneYet
  <2>5. CASE BeforeFirst
    <3>1. InUse = stored
      BY <2>5 DEF BeforeFirst, InUse
    <3>2. CASE stored = {}
      BY <2>1, <2>2, <2>5, <3>1, <3>2, AlignmentIs DEF BeforeFirst, InUseAligned, NoneYet
    <3>3. CASE stored # {}
      BY <2>1, <2>2, <2>5, <3>1, <3>3, AlignmentIs DEF BeforeFirst, InUseAligned
    <3> QED
      BY <3>2, <3>3
  <2> QED
    BY <2>3, <2>4, <2>5
<1>5. ASSUME NEW p \in Replicas, NextPostgres(p)
      PROVE  /\ InUseAligned' \/ BeforeFirst' \/ NoneYet'
             /\ sequence.called => sequence'.last >= sequence.last
  <2> DEFINE id == IF sequence.called THEN sequence.last + 1 ELSE sequence.last
  <2>1. /\ \A q \in Replicas : ~Pending(q) /\ ~Pending(q)'
        /\ sequence'.last = id /\ sequence'.called /\ id \in Nat
        /\ drawn' = [drawn EXCEPT ![p] = id] /\ stored' = stored /\ phase[p] = "up"
    <3>1. /\ ~(\E q \in Replicas : task[q].step = "write") /\ task' = task
          /\ stored' = stored /\ phase[p] = "up"
      BY <1>5 DEF NextPostgres, processVars, Idle
    <3>2. sequence' = [last |-> id, called |-> TRUE] /\ drawn' = [drawn EXCEPT ![p] = id]
      BY <1>5 DEF NextPostgres, Issue
    <3> QED
      BY <3>1, <3>2 DEF Pending
  <2>2. InUse' \subseteq InUse \cup {id}
    BY <2>1 DEF InUse
  <2>3. InUse \subseteq Nat
    BY DEF InUse
  <2>4. ~BeforeFirst
    BY <2>1 DEF BeforeFirst, NobodyUp
  <2> QED
    BY <2>1, <2>2, <2>3, <2>4 DEF InUseAligned, NoneYet
<1>6. ASSUME NEW p \in Replicas, Insert(p) \/ Fail(p) \/ \E id \in stored : Delete(p, id)
      PROVE  /\ InUseAligned' \/ BeforeFirst' \/ NoneYet'
             /\ sequence.called => sequence'.last >= sequence.last
  <2>1. /\ UNCHANGED <<sequence, task, phase>> /\ ~BeforeFirst
    BY <1>6 DEF Insert, Fail, Delete, processVars, BeforeFirst, NobodyUp
  <2>2. InUse' \subseteq InUse
    BY <1>6 DEF Insert, Fail, Delete, InUse
  <2> QED
    BY <2>1, <2>2 DEF InUseAligned, NoneYet, Pending
<1>7. ASSUME UNCHANGED <<sequence, stored, drawn, task, phase>>
      PROVE  /\ InUseAligned' \/ BeforeFirst' \/ NoneYet'
             /\ sequence.called => sequence'.last >= sequence.last
  BY <1>7 DEF InUseAligned, BeforeFirst, NoneYet, NobodyUp, Pending, InUse, Alignment, MaxLinkId
<1>8. \/ UNCHANGED <<sequence, stored, drawn, task, phase>>
      \/ \E p \in Replicas :
           \/ Boot(p) \/ TaskFails(p) \/ Die(p) \/ TaskRead(p) \/ AlignSequence(p)
           \/ NextPostgres(p) \/ Insert(p) \/ Fail(p) \/ \E id \in stored : Delete(p, id)
  BY DEF vars, Next, Recover, RaiseCounter, Ready, Failover, ScriptReads, ScriptSets, NextRedis,
     NextOffline, Increment, NextSnowflake, TimestampExhausted, ClockMoves, processVars
<1> QED
  BY <1>2, <1>3, <1>4, <1>5, <1>6, <1>7, <1>8
LEMMA BootsInit == Init => BootsInv
<1> SUFFICES ASSUME Init PROVE BeforeFirst
  BY DEF BootsInv
<1> QED
  BY DEF Init, BeforeFirst, NobodyUp, Pending, NoTask

\* counter.ts of the sequence: "we never lower it (which keeps concurrent boots
\* ... safe)".  True but for the race of a nextval with a setval whose value is
\* already computed: that sets the sequence back, nothing else does, however many
\* replicas boot, crash and draw.
THEOREM RaisedUnlessRacedHolds == Spec => RaisedUnlessRaced
<1>1. IdsInv /\ BootsInv /\ [Next]_vars
        => BootsInv' /\ (sequence.called /\ ~incident => sequence'.last >= sequence.last)
  <2> SUFFICES ASSUME IdsInv, BootsInv, [Next]_vars
               PROVE  BootsInv' /\ (sequence.called /\ ~incident => sequence'.last >= sequence.last)
    OBVIOUS
  <2>1. backend' = backend /\ sequence.last \in Nat
    BY DEF IdsInv, Typed, TypeOK, vars, Next, Recover, Boot, TaskRead, RaiseCounter, AlignSequence,
       TaskFails, Die, Ready, Failover, ScriptReads, ScriptSets, NextRedis, NextOffline, Increment,
       NextPostgres, NextSnowflake, TimestampExhausted, Insert, Fail, Delete, ClockMoves
  <2>2. CASE backend = "postgres"
    BY <2>2, BootsStep DEF IdsInv
  <2>3. CASE backend # "postgres"
    <3>1. sequence' = sequence
      BY <2>3 DEF vars, Next, Recover, Boot, TaskRead, RaiseCounter, AlignSequence,
         TaskFails, Die, Ready, Failover, ScriptReads, ScriptSets, NextRedis, NextOffline, Increment,
         NextPostgres, NextSnowflake, TimestampExhausted, Insert, Fail, Delete, ClockMoves
    <3> QED
      BY <2>1, <2>3, <3>1 DEF BootsInv
  <2> QED
    BY <2>2, <2>3
<1> QED
  BY <1>1, BootsInit, IdsInvariant, PTL DEF Spec, RaisedUnlessRaced
=============================================================================
