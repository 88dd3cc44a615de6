--------------------------------- MODULE Ids ---------------------------------
(***************************************************************************)
(* The ids of links (counter.ts, snowflake.ts): how replicas draw them from *)
(* one of three backends, and what each does at boot and after a failure   *)
(* so that no id is drawn twice.                                           *)
(*                                                                         *)
(*   redis       INCR of one key, raised past MAX(link_id) at boot and     *)
(*               whenever the connection is ready again                    *)
(*   postgres    nextval of a sequence, aligned with MAX(link_id) at boot  *)
(*   snowflake   clock, machine id and a sequence number, no shared state  *)
(*                                                                         *)
(* A creation draws an id, and inserts it into links_code_lookup in a later *)
(* step (ShortenLinkUseCase.ts); a crash or a failure in between burns the *)
(* id.  COUNTER_OFFSET is 0, which snowflake enforces and the others need. *)
(***************************************************************************)
EXTENDS Naturals, FiniteSets

CONSTANTS
  Replicas,       \* each draws one id at a time (a bound)
  Backends,       \* the values of COUNTER_BACKEND to check
  MachineOf,      \* MACHINE_ID of each replica
  MachineCount,   \* 1024: machine ids that fit their field
  SequenceCount,  \* 4096: ids of one machine in one millisecond
  MaxClock,       \* the last millisecond that fits the timestamp field
  MaxStored,      \* bound: links there are at the start
  MaxId,          \* bound: ids drawn from the counter or the sequence
  MaxFailovers    \* bound: times Redis loses its last INCRs

\* Every replica has a MACHINE_ID of its own (snowflake.ts warns of others).
ASSUME IdsAssumption ==
  /\ Backends \subseteq {"redis", "postgres", "snowflake"}
  /\ MachineCount \in Nat /\ SequenceCount \in Nat \ {0}
  /\ MaxClock \in Nat \ {0} /\ MaxStored \in Nat /\ MaxId \in Nat
  /\ MaxFailovers \in Nat
  /\ MachineOf \in [Replicas -> 0..(MachineCount - 1)]
  /\ \A p, q \in Replicas : MachineOf[p] = MachineOf[q] => p = q

VARIABLES
  backend,
  stored,      \* links_code_lookup: the link ids
  counter,     \* klipo:counter, 0 also when the key is absent
  sequence,    \* link_id_seq
  clock,       \* replica -> its wall clock in ms, 0 before EPOCH
  generator,   \* replica -> lastTimestamp (0: none) and sequence
  phase,       \* replica -> process state
  link,        \* replica -> its connection to the Redis master
  task,        \* replica -> recoverCounter or the alignment: what it is to write
  script,      \* recover-counter.sh: what it is to SET, and the last link it saw
  drawn,       \* replica -> the id its creation has drawn, 0 for none
  failovers,
  issued,      \* history: the ids handed out, until an incident
  twice,       \* history: an id was handed out twice before any incident
  floor,       \* history: MAX(link_id) the counter was raised past
  owed,        \* history: MAX(link_id) when Redis lost its last INCRs
  minted,      \* history: replica -> the latest millisecond it minted in
  incident     \* history: something the comments exclude has happened

processVars == <<phase, link, task, script>>
historyVars == <<issued, twice, floor, owed, minted, incident>>
vars == <<backend, stored, counter, sequence, clock, generator, phase, link,
          task, script, drawn, failovers, issued, twice, floor, owed, minted, incident>>

NoTask == [step |-> "none", value |-> 0]
NoScript == [step |-> "none", value |-> 0, seen |-> 0]
NewGenerator == [last |-> 0, seq |-> 0]

TypeOK ==
  /\ backend \in Backends
  /\ stored \subseteq Nat
  /\ counter \in Nat
  /\ sequence \in [last : Nat, called : BOOLEAN]
  /\ clock \in [Replicas -> 0..MaxClock]
  /\ generator \in [Replicas -> [last : 0..MaxClock, seq : 0..(SequenceCount - 1)]]
  /\ phase \in [Replicas -> {"down", "boot", "up"}]
  /\ link \in [Replicas -> {"up", "lost"}]
  /\ task \in [Replicas -> [step : {"none", "read", "write"}, value : Nat]]
  /\ script \in [step : {"none", "write"}, value : Nat, seen : Nat]
  /\ drawn \in [Replicas -> Nat]
  /\ failovers \in 0..MaxFailovers
  /\ issued \subseteq Nat /\ twice \in BOOLEAN
  /\ floor \in Nat /\ owed \in Nat
  /\ minted \in [Replicas -> 0..MaxClock]
  /\ incident \in BOOLEAN

\* Before the first boot the links 1..k may exist: restored, or drawn from
\* another backend.  The counter and the sequence may be behind them, and a
\* sequence that was never used may start ahead of them.
Init ==
  /\ backend \in Backends
  /\ \E k \in IF backend = "snowflake" THEN {0} ELSE 0..MaxStored :
       /\ stored = 1..k /\ issued = 1..k
       /\ counter \in IF backend = "redis" THEN 0..k ELSE {0}
       /\ sequence \in IF backend = "postgres"
                       THEN [last : 1..(k + 1), called : {FALSE}]
                              \cup [last : 1..k, called : {TRUE}]
                       ELSE {[last |-> 1, called |-> FALSE]}
  /\ clock \in IF backend = "snowflake" THEN [Replicas -> 0..1]
                                         ELSE {[p \in Replicas |-> 0]}
  /\ generator = [p \in Replicas |-> NewGenerator]
  /\ phase = [p \in Replicas |-> "down"]
  /\ link = [p \in Replicas |-> "up"]
  /\ task = [p \in Replicas |-> NoTask]
  /\ script = NoScript
  /\ drawn = [p \in Replicas |-> 0]
  /\ failovers = 0 /\ twice = FALSE /\ floor = 0 /\ owed = 0
  /\ incident = FALSE
  /\ minted = [p \in Replicas |-> 0]

-----------------------------------------------------------------------------
(* Boot and recovery.                                                      *)

\* SELECT MAX(link_id) FROM links_code_lookup; 0 when there are no links.
MaxLinkId == IF stored = {} THEN 0
             ELSE CHOOSE id \in stored : \A other \in stored : other <= id

Greatest(a, b) == IF a < b THEN b ELSE a

\* initCounter.  SET NX of the offset 0 leaves an absent key what it was.
Boot(p) ==
  /\ phase[p] = "down"
  /\ generator' = [generator EXCEPT ![p] = NewGenerator]
  /\ link' = [link EXCEPT ![p] = "up"]
  /\ IF backend = "snowflake"
     THEN /\ phase' = [phase EXCEPT ![p] = "up"]
          /\ UNCHANGED task
     ELSE /\ phase' = [phase EXCEPT ![p] = "boot"]
          /\ task' = [task EXCEPT ![p] = [step |-> "read", value |-> 0]]
  /\ UNCHANGED <<backend, stored, counter, sequence, clock, drawn, script,
                 failovers, historyVars>>

\* Mutant: the sequence is aligned with the links, whatever it has issued.
MutAlignment == MaxLinkId

\* What setval is called with; 0 (no call) when there are no links.
Alignment ==
  IF stored = {} THEN 0
  ELSE IF sequence.called THEN Greatest(sequence.last, MaxLinkId)
  ELSE MaxLinkId

\* What the counter is raised to; 0 (no call) when there are no links.
Recovery == IF stored = {} THEN 0 ELSE MaxLinkId + 1

\* The query of recoverCounter; or the statement of initPostgresCounter reads
\* the sequence and the links.
TaskRead(p) ==
  /\ task[p].step = "read"
  /\ task' = [task EXCEPT ![p] =
       [step |-> "write",
        value |-> IF backend = "redis" THEN Recovery ELSE Alignment]]
  /\ UNCHANGED <<backend, stored, counter, sequence, clock, generator, phase,
                 link, drawn, script, failovers, historyVars>>

\* Mutant: the barrier is never taken down.
MutEndTask(p) == phase' = [phase EXCEPT ![p] = "up"] /\ UNCHANGED task

EndTask(p) ==
  /\ task' = [task EXCEPT ![p] = NoTask]
  /\ phase' = [phase EXCEPT ![p] = "up"]

\* Mutant: a plain SET, so that the counter may go down.
MutRaise(value) == counter' = value

\* RAISE_COUNTER_LUA.
Raise(value) == counter' = Greatest(counter, value)

\* recoverCounter raises the counter of the master it is connected to, unless
\* there are no links.
RaiseCounter(p) ==
  /\ backend = "redis"
  /\ task[p].step = "write"
  /\ IF task[p].value = 0
     THEN UNCHANGED <<counter, floor>>
     ELSE /\ link[p] = "up"
          /\ Raise(task[p].value)
          /\ floor' = Greatest(floor, task[p].value - 1)
  /\ EndTask(p)
  /\ UNCHANGED <<backend, stored, sequence, clock, generator, link, drawn,
                 script, failovers, issued, twice, owed, minted, incident>>

\* The statement of initPostgresCounter calls setval with the value it has
\* computed.
AlignSequence(p) ==
  /\ backend = "postgres"
  /\ task[p].step = "write"
  /\ sequence' = IF task[p].value = 0 THEN sequence
                 ELSE [last |-> task[p].value, called |-> TRUE]
  /\ EndTask(p)
  /\ UNCHANGED <<backend, stored, counter, clock, generator, link, drawn,
                 script, failovers, historyVars>>

\* A query or the script fails: at boot the process exits; later the error is
\* logged and the barrier taken down.
TaskFails(p) ==
  /\ task[p].step # "none"
  /\ task' = [task EXCEPT ![p] = NoTask]
  /\ phase' = [phase EXCEPT ![p] = IF @ = "boot" THEN "down" ELSE @]
  /\ owed' = IF phase[p] = "up" THEN 0 ELSE owed
  /\ UNCHANGED <<backend, stored, counter, sequence, clock, generator, link,
                 drawn, script, failovers, issued, twice, floor, minted, incident>>

Die(p) ==
  /\ phase[p] # "down"
  /\ phase' = [phase EXCEPT ![p] = "down"]
  /\ task' = [task EXCEPT ![p] = NoTask]
  /\ drawn' = [drawn EXCEPT ![p] = 0]
  /\ UNCHANGED <<backend, stored, counter, sequence, clock, generator, link,
                 script, failovers, historyVars>>

\* What the comments exclude has happened: the ids so far no longer matter.
Incident == incident' = TRUE /\ issued' = {}

\* A replica that lags is promoted, or Redis restarts without its last writes
\* (value 0: without the key).  Every connection is lost.
Failover(value) ==
  /\ backend = "redis"
  /\ failovers < MaxFailovers
  /\ failovers' = failovers + 1
  /\ counter' = value
  /\ link' = [p \in Replicas |-> "lost"]
  /\ floor' = 0 /\ owed' = MaxLinkId
  /\ Incident
  /\ UNCHANGED <<backend, stored, sequence, clock, generator, phase, task,
                 script, drawn, twice, minted>>

\* The connection is ready again: the listener starts a recovery, unless one
\* is pending.  A booting process has no listener yet, but its own recovery.
Ready(p) ==
  /\ backend = "redis"
  /\ link[p] = "lost"
  /\ link' = [link EXCEPT ![p] = "up"]
  /\ task' = IF phase[p] = "up" /\ task[p].step = "none"
             THEN [task EXCEPT ![p] = [step |-> "read", value |-> 0]]
             ELSE task
  /\ UNCHANGED <<backend, stored, counter, sequence, clock, generator, phase,
                 drawn, script, failovers, historyVars>>

\* recover-counter.sh, which may be run at any time (bound: not after an
\* incident) and asks for the master of the moment: its query ...
ScriptReads ==
  /\ backend = "redis"
  /\ script.step = "none" /\ ~incident
  /\ script' = [step |-> "write", value |-> Recovery, seen |-> MaxLinkId]
  /\ UNCHANGED <<backend, stored, counter, sequence, clock, generator, phase,
                 link, task, drawn, failovers, historyVars>>

\* ... and its SET, which takes back what was drawn in between.  Ids that no
\* link and no creation has may be drawn again from now on; it is an incident
\* when one has an id above the value that is no link the query saw.
InUse == stored \cup ({drawn[p] : p \in Replicas} \ {0})
ScriptSets ==
  /\ script.step = "write"
  /\ counter' = script.value
  /\ script' = NoScript
  /\ incident' = (incident \/ \E id \in InUse : id > script.seen /\ id > script.value)
  /\ IF incident' THEN issued' = {} /\ floor' = 0
     ELSE issued' = InUse /\ floor' = IF script.value = 0 THEN 0 ELSE script.value - 1
  /\ owed' = 0
  /\ UNCHANGED <<backend, stored, sequence, clock, generator, phase, link, task,
                 drawn, failovers, twice, minted>>

-----------------------------------------------------------------------------
(* A creation: getNextId, then createLink.                                 *)

Issue(p, id) ==
  /\ drawn' = [drawn EXCEPT ![p] = id]
  /\ IF incident' THEN issued' = {} /\ twice' = twice
     ELSE issued' = issued \cup {id} /\ twice' = (twice \/ id \in issued)

Idle(p) == phase[p] = "up" /\ drawn[p] = 0

Increment(p) ==
  /\ backend = "redis"
  /\ Idle(p)
  /\ task[p].step = "none"
  /\ counter < MaxId
  /\ counter' = counter + 1
  /\ incident' = incident
  /\ Issue(p, counter + 1)
  /\ UNCHANGED <<backend, stored, sequence, clock, generator, processVars,
                 failovers, floor, owed, minted>>

\* INCR, once no recovery is pending (the barrier).
NextRedis(p) == link[p] = "up" /\ Increment(p)

\* INCR was queued while the connection was lost: the queue is drained before
\* the listener hears of the new master.
NextOffline(p) == link[p] = "lost" /\ Increment(p)

\* nextval.  It is an incident when a booting replica is about to call setval
\* with a value computed before.
NextPostgres(p) ==
  /\ backend = "postgres"
  /\ Idle(p)
  /\ sequence.last < MaxId
  /\ incident' = (incident \/ \E q \in Replicas : task[q].step = "write")
  /\ LET id == IF sequence.called THEN sequence.last + 1 ELSE sequence.last
     IN /\ sequence' = [last |-> id, called |-> TRUE]
        /\ Issue(p, id)
  /\ UNCHANGED <<backend, stored, counter, clock, generator, processVars,
                 failovers, floor, owed, minted>>

\* The three fields of an id, shifted and or-ed.
Pack(ts, machine, seq) == (ts * MachineCount + machine) * SequenceCount + seq

\* Mutant: the sequence is not masked to its field.
MutNextSeq(p) == IF clock[p] = generator[p].last THEN generator[p].seq + 1 ELSE 0

\* Same millisecond: the sequence counts on, and when it wraps the process
\* waits for the next millisecond.  A later one: the sequence restarts.
NextSeq(p) == IF clock[p] = generator[p].last
              THEN (generator[p].seq + 1) % SequenceCount ELSE 0
MintTime(p) == IF clock[p] = generator[p].last /\ NextSeq(p) = 0
               THEN clock[p] + 1 ELSE clock[p]

\* A clock before EPOCH, or behind the last id, is refused.
ClockUsable(p) == clock[p] > 0 /\ clock[p] >= generator[p].last

\* SnowflakeGenerator.next.  It is an incident when a restarted process has
\* forgotten a millisecond it minted in.
NextSnowflake(p) ==
  /\ backend = "snowflake"
  /\ Idle(p)
  /\ ClockUsable(p)
  /\ MintTime(p) <= MaxClock
  /\ incident' = (incident \/ (generator[p].last = 0 /\ clock[p] <= minted[p]))
  /\ generator' = [generator EXCEPT ![p] = [last |-> MintTime(p),
                                            seq |-> NextSeq(p)]]
  /\ clock' = [clock EXCEPT ![p] = MintTime(p)]
  /\ Issue(p, Pack(MintTime(p), MachineOf[p], NextSeq(p)))
  /\ minted' = [minted EXCEPT ![p] = Greatest(@, MintTime(p))]
  /\ UNCHANGED <<backend, stored, counter, sequence, processVars, failovers,
                 floor, owed>>

\* The wait ends past the timestamp field: the id is refused, but the sequence
\* has wrapped already.  The comments take this to be 69 years away.
TimestampExhausted(p) ==
  /\ backend = "snowflake"
  /\ Idle(p)
  /\ ClockUsable(p)
  /\ MintTime(p) > MaxClock
  /\ generator' = [generator EXCEPT ![p].seq = NextSeq(p)]
  /\ Incident
  /\ UNCHANGED <<backend, stored, counter, sequence, clock, processVars, drawn,
                 failovers, twice, floor, owed, minted>>

\* createLink.  A generated code that is taken conflicts and stores nothing
\* new; an alias stores the id whether or not another link has it.  Nothing
\* of snowflake reads the table, so its links are not kept.
Insert(p) ==
  /\ drawn[p] # 0
  /\ stored' = IF backend = "snowflake" THEN stored
               ELSE stored \cup {drawn[p]}
  /\ drawn' = [drawn EXCEPT ![p] = 0]
  /\ UNCHANGED <<backend, counter, sequence, clock, generator, processVars,
                 failovers, historyVars>>

\* The alias is taken, or the insert fails: the id is burnt.
Fail(p) ==
  /\ drawn[p] # 0
  /\ drawn' = [drawn EXCEPT ![p] = 0]
  /\ UNCHANGED <<backend, stored, counter, sequence, clock, generator,
                 processVars, failovers, historyVars>>

\* DELETE /api/v1/links/:code removes the id from the lookup table.
Delete(p, id) ==
  /\ phase[p] = "up"
  /\ id \in stored
  /\ stored' = stored \ {id}
  /\ owed' = IF id = owed THEN 0 ELSE owed
  /\ UNCHANGED <<backend, counter, sequence, clock, generator, processVars,
                 drawn, failovers, issued, twice, floor, minted, incident>>

\* The wall clock moves on, or is set back.
ClockMoves(p, ms) ==
  /\ backend = "snowflake"
  /\ clock' = [clock EXCEPT ![p] = ms]
  /\ UNCHANGED <<backend, stored, counter, sequence, generator, processVars,
                 drawn, failovers, historyVars>>

-----------------------------------------------------------------------------
Recover(p) ==
  TaskRead(p) \/ RaiseCounter(p) \/ AlignSequence(p) \/ Ready(p)

Next ==
  \/ \E p \in Replicas :
       \/ Boot(p) \/ Recover(p) \/ TaskFails(p) \/ Die(p)
       \/ NextRedis(p) \/ NextOffline(p) \/ NextPostgres(p)
       \/ NextSnowflake(p) \/ TimestampExhausted(p) \/ Insert(p) \/ Fail(p)
       \/ \E id \in stored : Delete(p, id)
       \/ \E ms \in 0..MaxClock : ClockMoves(p, ms)
  \/ \E value \in 0..counter : Failover(value)
  \/ ScriptReads \/ ScriptSets

Spec == Init /\ [][Next]_vars

\* Queries are answered and connections come back; nothing else has to happen.
FairSpec == Spec /\ \A p \in Replicas : WF_vars(Recover(p))

-----------------------------------------------------------------------------
\* No id is drawn twice, however boots, crashes and creations overlap and the
\* clocks jump, as long as nothing happens that the comments exclude.
IssuedOnce == ~twice

\* Whatever Redis has lost, a recovery is final: until it loses something
\* again, the counter stays past every link a recovery has seen.
PastPersisted == floor > 0 => counter > floor

\* Whatever the backend, boots, recoveries, crashes and creations do, a creation
\* draws an id that no link has and no other creation holds.  Of snowflake any id
\* it issued may be a link's.
Source == INSTANCE IdSource WITH
  Holders <- Replicas, NoId <- 0, held <- drawn, void <- incident,
  links <- IF backend = "snowflake" THEN issued \ {drawn[p] : p \in Replicas} ELSE stored
SourceSpec == Source!Spec

\* A recovery never holds up creations for ever.
BarrierLifts ==
  \A p \in Replicas : task[p].step # "none" ~> task[p].step = "none"

\* counter.ts, of the barrier: a replica never INCRs a stale counter on the new
\* master.  It draws no id up to the highest link there was at the failover,
\* unless that link is gone, a recovery failed, or the INCR was queued.
NeverStale ==
  [][\A p \in Replicas : NextRedis(p) => counter' > owed]_vars

\* counter.ts, of concurrent boots: the sequence in use is only raised, so a
\* peer that already advanced it is not stomped.
SequenceOnlyRaised ==
  [][sequence.called => sequence'.last >= sequence.last]_vars
=============================================================================
