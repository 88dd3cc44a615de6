------------------------------- MODULE Clicks -------------------------------
(***************************************************************************)
(* Click analytics (analytics/clickWriter.ts, and recordClick in           *)
(* routes/redirect.ts): each replica queues the clicks it serves in memory *)
(* and writes them in batches to two tables all replicas share, clicks and *)
(* the rollup clicks_daily.                                                *)
(*                                                                         *)
(* A replica is one node process.  Its steps are the callbacks of the      *)
(* event loop, each from one await to the next: recordClick's setImmediate *)
(* callback, the query it awaits when a cache hit left the link id         *)
(* unknown, the flush timer, the statements of writeBatch, and the awaits  *)
(* of stopClickWriter.  A replica may be killed at any step and started    *)
(* again.                                                                  *)
(***************************************************************************)
EXTENDS Naturals, Sequences, FiniteSets, Functions

CONSTANTS
  Replicas,
  Clicks,       \* the clicks that may be served; each is served once
  Keys,         \* keys of clicks_daily: (link, day, country)
  KeyOf,        \* the key each click counts under
  ServedBy,     \* bound: the replicas nginx may send each click to
  Killable,     \* bound: the replicas that may be killed
  BatchLimit    \* rows one INSERT can bind: 16 bits count ten values per row

ASSUME ClicksAssumption ==
  /\ IsFiniteSet(Clicks)
  /\ KeyOf \in [Clicks -> Keys]
  /\ ServedBy \in [Clicks -> SUBSET Replicas]
  /\ Killable \subseteq Replicas
  /\ BatchLimit \in Nat \ {0}

VARIABLES
  served,       \* clicks whose redirect has been answered
  scheduled,    \* replica -> clicks whose setImmediate callback is due
  resolving,    \* replica -> clicks waiting for the query of their link id
  queue,        \* replica -> queue
  flush,        \* replica -> the pending flush: its step, batch, row locks
  stop,         \* replica -> how far stopClickWriter has come
  rows,         \* clicks: how often each click has been inserted
  rollup,       \* clicks_daily: key -> clicks
  lost,         \* history: clicks that were given up, whatever the reason
  unresolved    \* history: replica -> its resolving clicks at the final flush

loopVars == <<scheduled, resolving, queue>>
tables == <<rows, rollup>>
vars == <<served, scheduled, resolving, queue, flush, stop, rows, rollup,
          lost, unresolved>>

FlushSteps == {"none", "insert", "upsert"}
StopSteps == {"running", "flush1", "yield", "flush2", "closing", "down"}

NoFlush == [pc |-> "none", batch |-> <<>>, locks |-> {}]

TypeOK ==
  /\ served \subseteq Clicks
  /\ scheduled \in [Replicas -> SUBSET Clicks]
  /\ resolving \in [Replicas -> SUBSET Clicks]
  /\ queue \in [Replicas -> Seq(Clicks)]
  /\ flush \in [Replicas ->
                  [pc : FlushSteps, batch : Seq(Clicks), locks : SUBSET Keys]]
  /\ stop \in [Replicas -> StopSteps]
  /\ rows \in [Clicks -> Nat]
  /\ rollup \in [Keys -> Nat]
  /\ lost \subseteq Clicks
  /\ unresolved \in [Replicas -> SUBSET Clicks]

Init ==
  /\ served = {}
  /\ scheduled = [r \in Replicas |-> {}]
  /\ resolving = [r \in Replicas |-> {}]
  /\ queue = [r \in Replicas |-> <<>>]
  /\ flush = [r \in Replicas |-> NoFlush]
  /\ stop = [r \in Replicas |-> "running"]
  /\ rows = [c \in Clicks |-> 0]
  /\ rollup = [k \in Keys |-> 0]
  /\ lost = {}
  /\ unresolved = [r \in Replicas |-> {}]

Up(r) == stop[r] # "down"
Idle(r) == flush[r].pc = "none"

-----------------------------------------------------------------------------
(* A redirect records its click.                                           *)

\* recordClick schedules its callback and the response is sent.  onClose runs
\* after the last request, so a stopping replica serves none.
Serve(r, c) ==
  /\ r \in ServedBy[c]
  /\ stop[r] = "running"
  /\ c \notin served
  /\ served' = served \cup {c}
  /\ scheduled' = [scheduled EXCEPT ![r] = @ \cup {c}]
  /\ UNCHANGED <<resolving, queue, flush, stop, tables, lost, unresolved>>

Enqueue(r, c) == queue' = [queue EXCEPT ![r] = Append(@, c)]

\* The callback runs: after a cache miss the link id is known, and the click
\* is queued.
Record(r, c) ==
  /\ Up(r)
  /\ c \in scheduled[r]
  /\ scheduled' = [scheduled EXCEPT ![r] = @ \ {c}]
  /\ Enqueue(r, c)
  /\ UNCHANGED <<served, resolving, flush, stop, tables, lost, unresolved>>

\* After a cache hit it is not, and the callback awaits a query.
Resolve(r, c) ==
  /\ Up(r)
  /\ c \in scheduled[r]
  /\ scheduled' = [scheduled EXCEPT ![r] = @ \ {c}]
  /\ resolving' = [resolving EXCEPT ![r] = @ \cup {c}]
  /\ UNCHANGED <<served, queue, flush, stop, tables, lost, unresolved>>

Resolved(r, c) ==
  /\ Up(r)
  /\ c \in resolving[r]
  /\ resolving' = [resolving EXCEPT ![r] = @ \ {c}]
  /\ Enqueue(r, c)
  /\ UNCHANGED <<served, scheduled, flush, stop, tables, lost, unresolved>>

\* The code is gone, or the query fails: the click is dropped.
Unresolvable(r, c) ==
  /\ Up(r)
  /\ c \in resolving[r]
  /\ resolving' = [resolving EXCEPT ![r] = @ \ {c}]
  /\ lost' = lost \cup {c}
  /\ UNCHANGED <<served, scheduled, queue, flush, stop, tables, unresolved>>

-----------------------------------------------------------------------------
(* flush, doFlush and writeBatch.                                          *)

\* Mutant: the queue is handed to the flush, and kept.
MutStartFlush(r) ==
  /\ IF Idle(r) /\ queue[r] # <<>>
     THEN flush' = [flush EXCEPT ![r] = [NoFlush EXCEPT !.pc = "insert",
                                                        !.batch = queue[r]]]
     ELSE UNCHANGED flush
  /\ UNCHANGED queue

\* flush(): a flush that is pending is shared, an empty queue needs none.
StartFlush(r) ==
  IF Idle(r) /\ queue[r] # <<>>
  THEN /\ flush' = [flush EXCEPT ![r] = [NoFlush EXCEPT !.pc = "insert",
                                                       !.batch = queue[r]]]
       /\ queue' = [queue EXCEPT ![r] = <<>>]
  ELSE UNCHANGED <<flush, queue>>

\* The interval, until stopClickWriter clears it.
TimerFlush(r) ==
  /\ stop[r] = "running"
  /\ Idle(r)
  /\ queue[r] # <<>>
  /\ StartFlush(r)
  /\ UNCHANGED <<served, scheduled, resolving, stop, tables, lost, unresolved>>

EndFlush(r) == flush' = [flush EXCEPT ![r] = NoFlush]

\* BEGIN and the INSERT into clicks; nothing is visible before COMMIT.
InsertRows(r) ==
  /\ flush[r].pc = "insert"
  /\ Len(flush[r].batch) <= BatchLimit
  /\ flush' = [flush EXCEPT ![r].pc = "upsert"]
  /\ UNCHANGED <<served, loopVars, stop, tables, lost, unresolved>>

\* The keys of the batch, in the order the UPSERT visits them.
Unlocked(r) == {i \in DOMAIN flush[r].batch :
                  KeyOf[flush[r].batch[i]] \notin flush[r].locks}
NextKey(r) == KeyOf[flush[r].batch[CHOOSE i \in Unlocked(r) :
                                     \A j \in Unlocked(r) : i <= j]]

Wants(r) == flush[r].pc = "upsert" /\ Unlocked(r) # {}

\* r waits for a row another replica's transaction has updated.
BlockedBy(r, other) ==
  other # r /\ Wants(r) /\ NextKey(r) \in flush[other].locks

\* The UPSERT updates one row of clicks_daily and holds its lock.
UpsertKey(r) ==
  /\ Wants(r)
  /\ \A other \in Replicas : ~BlockedBy(r, other)
  /\ flush' = [flush EXCEPT ![r].locks = @ \cup {NextKey(r)}]
  /\ UNCHANGED <<served, loopVars, stop, tables, lost, unresolved>>

CountOf(batch, key) == Cardinality({i \in DOMAIN batch : KeyOf[batch[i]] = key})

InsertBatch(batch) ==
  rows' = [c \in Clicks |->
             rows[c] + Cardinality({i \in DOMAIN batch : batch[i] = c})]

UpsertBatch(batch) ==
  rollup' = [k \in Keys |-> rollup[k] + CountOf(batch, k)]

\* COMMIT publishes both tables' changes; the driver may not learn of it.
Commit(r) ==
  /\ flush[r].pc = "upsert"
  /\ Unlocked(r) = {}
  /\ InsertBatch(flush[r].batch)
  /\ UpsertBatch(flush[r].batch)
  /\ EndFlush(r)
  /\ UNCHANGED <<served, loopVars, stop, lost, unresolved>>

\* Mutant: the clicks of a failed batch are queued again.
MutDiscard(r) ==
  /\ queue' = [queue EXCEPT ![r] = flush[r].batch \o @]
  /\ EndFlush(r)
  /\ UNCHANGED <<scheduled, resolving, lost>>

\* The batch is logged and discarded, not queued again.
Discard(r) ==
  /\ lost' = lost \cup Range(flush[r].batch)
  /\ EndFlush(r)
  /\ UNCHANGED loopVars

\* COMMIT took effect, but its answer is lost: to the code the batch failed.
CommitUnacknowledged(r) ==
  /\ flush[r].pc = "upsert"
  /\ Unlocked(r) = {}
  /\ InsertBatch(flush[r].batch)
  /\ UpsertBatch(flush[r].batch)
  /\ Discard(r)
  /\ UNCHANGED <<served, stop, unresolved>>

\* Mutant: without BEGIN, a failure leaves the first INSERT behind.
MutWriteFails(r) ==
  /\ ~Idle(r)
  /\ IF flush[r].pc = "upsert" THEN InsertBatch(flush[r].batch)
                               ELSE UNCHANGED rows
  /\ Discard(r)
  /\ UNCHANGED <<served, stop, rollup, unresolved>>

\* No connection, or a statement fails: ROLLBACK.
WriteFails(r) ==
  /\ ~Idle(r)
  /\ Discard(r)
  /\ UNCHANGED <<served, stop, tables, unresolved>>

\* More rows than the INSERT can bind: the whole batch fails.
BatchTooLarge(r) ==
  /\ flush[r].pc = "insert"
  /\ Len(flush[r].batch) > BatchLimit
  /\ Discard(r)
  /\ UNCHANGED <<served, stop, tables, unresolved>>

\* A set of transactions that only wait for each other.
DeadlockSet(rs) == rs # {} /\ \A r \in rs : \E other \in rs : BlockedBy(r, other)

\* Mutant: the database aborts nobody.
MutDeadlockAbort(r) == FALSE /\ UNCHANGED vars

\* Two batches that visit the same keys in different orders deadlock;
\* Postgres aborts one of them.
DeadlockAbort(r) ==
  /\ \E rs \in SUBSET Replicas : r \in rs /\ DeadlockSet(rs)
  /\ Discard(r)
  /\ UNCHANGED <<served, stop, tables, unresolved>>

-----------------------------------------------------------------------------
(* stopClickWriter, closeDb and exit; crash and restart.                   *)

\* SIGTERM, and the requests in flight are done: the timer is cleared, and
\* what is queued is flushed, or the pending flush awaited.
StopBegin(r) ==
  /\ stop[r] = "running"
  /\ stop' = [stop EXCEPT ![r] = "flush1"]
  /\ StartFlush(r)
  /\ UNCHANGED <<served, scheduled, resolving, tables, lost, unresolved>>

\* Mutant: the first flush is not awaited.
MutStopYield(r) ==
  /\ stop[r] = "flush1"
  /\ stop' = [stop EXCEPT ![r] = "yield"]
  /\ UNCHANGED <<served, loopVars, flush, tables, lost, unresolved>>

\* Mutant: it waits for the queue to be empty, with the timer cleared.
MutStopYieldEmpty(r) ==
  /\ stop[r] = "flush1"
  /\ Idle(r)
  /\ queue[r] = <<>>
  /\ stop' = [stop EXCEPT ![r] = "yield"]
  /\ UNCHANGED <<served, loopVars, flush, tables, lost, unresolved>>

\* The first flush is done; setImmediate is awaited.
StopYield(r) ==
  /\ stop[r] = "flush1"
  /\ Idle(r)
  /\ stop' = [stop EXCEPT ![r] = "yield"]
  /\ UNCHANGED <<served, loopVars, flush, tables, lost, unresolved>>

\* The yield lets every callback scheduled before it run; then the final flush.
StopFlush(r) ==
  /\ stop[r] = "yield"
  /\ scheduled[r] = {}
  /\ stop' = [stop EXCEPT ![r] = "flush2"]
  /\ unresolved' = [unresolved EXCEPT ![r] = resolving[r]]
  /\ StartFlush(r)
  /\ UNCHANGED <<served, scheduled, resolving, tables, lost>>

\* The final flush is done; closeDb begins.
StopClose(r) ==
  /\ stop[r] = "flush2"
  /\ Idle(r)
  /\ stop' = [stop EXCEPT ![r] = "closing"]
  /\ UNCHANGED <<served, loopVars, flush, tables, lost, unresolved>>

Volatile(r) == scheduled[r] \cup resolving[r] \cup Range(queue[r])
                 \cup Range(flush[r].batch)

\* The process ends: its memory is gone and its transaction rolled back.
Die(r) ==
  /\ stop' = [stop EXCEPT ![r] = "down"]
  /\ lost' = lost \cup Volatile(r)
  /\ scheduled' = [scheduled EXCEPT ![r] = {}]
  /\ resolving' = [resolving EXCEPT ![r] = {}]
  /\ queue' = [queue EXCEPT ![r] = <<>>]
  /\ EndFlush(r)
  /\ unresolved' = [unresolved EXCEPT ![r] = {}]
  /\ UNCHANGED <<served, tables>>

\* process.exit after the pools are closed.
Exit(r) == stop[r] = "closing" /\ Die(r)

Crash(r) == r \in Killable /\ stop[r] \notin {"closing", "down"} /\ Die(r)

Restart(r) ==
  /\ stop[r] = "down"
  /\ stop' = [stop EXCEPT ![r] = "running"]
  /\ UNCHANGED <<served, loopVars, flush, tables, lost, unresolved>>

-----------------------------------------------------------------------------
Callback(r) ==
  \E c \in Clicks : Record(r, c) \/ Resolve(r, c) \/ Resolved(r, c)

Write(r) ==
  \/ InsertRows(r) \/ UpsertKey(r) \/ Commit(r)
  \/ BatchTooLarge(r) \/ DeadlockAbort(r)

Stop(r) == StopYield(r) \/ StopFlush(r) \/ StopClose(r) \/ Exit(r)

Next ==
  \E r \in Replicas :
    \/ \E c \in Clicks : Serve(r, c) \/ Unresolvable(r, c)
    \/ Callback(r) \/ TimerFlush(r) \/ Write(r) \/ Stop(r)
    \/ CommitUnacknowledged(r) \/ WriteFails(r)
    \/ StopBegin(r) \/ Crash(r) \/ Restart(r)

Spec == Init /\ [][Next]_vars

\* The event loop runs every callback, the timer fires while it is set, and
\* Postgres answers every statement and aborts one transaction of a deadlock.
\* Nothing obliges a visitor to click, a replica to be stopped or to fail.
Fairness ==
  \A r \in Replicas :
    /\ WF_vars(Callback(r)) /\ WF_vars(TimerFlush(r))
    /\ WF_vars(Write(r)) /\ WF_vars(Stop(r))

FairSpec == Spec /\ Fairness

-----------------------------------------------------------------------------
(* Safety.                                                                 *)

\* The rollup the dashboard reads agrees with the clicks it sums, although two
\* statements write them and replicas write them concurrently.
RollupMatchesRows ==
  \A k \in Keys : rollup[k] =
    SumFunctionOnSet(rows, {c \in Clicks : KeyOf[c] = k})

\* A click is counted at most once, and only if it was served: coalesced
\* flushes, a COMMIT whose answer is lost and restarts never repeat one.
CountedOnce == \A c \in Clicks : rows[c] <= 1 /\ (rows[c] = 1 => c \in served)

\* When a graceful stop reaches closeDb, all it leaves behind are clicks whose
\* link id was still being looked up at the final flush.
OnlyUnresolvedLeftBehind ==
  \A r \in Replicas :
    stop[r] = "closing" => Volatile(r) \subseteq unresolved[r]

\* The fate of every click is decided once and for good, by whole batches, and
\* the rollup grows in the very step that books them: all that the queues,
\* transactions, deadlocks, stops and crashes of the replicas amount to.
Ledger == INSTANCE ClickLedger WITH
  open <- UNION {Volatile(r) : r \in Replicas},
  booked <- {c \in Clicks : rows[c] > 0}
LedgerSpec == Ledger!Spec

-----------------------------------------------------------------------------
(* Liveness.                                                               *)

\* Every click served is eventually counted or given up: no flush is stuck
\* behind another one's row locks, a failed flush or a stop.  (Both are for
\* good and the clicks of a run finitely many, so one formula says it of all.)
EventuallySettled == <>[](\A c \in served : rows[c] = 1 \/ c \in lost)

\* A stop ends: nothing it awaits waits for ever.
StopTerminates ==
  \A r \in Replicas : stop[r] = "flush1" ~> stop[r] = "down"

-----------------------------------------------------------------------------
(* What the documentation says, and the code does not do.                  *)

\* clickWriter.ts, of the callbacks queued at a stop: the yield lets every
\* already scheduled one run and enqueue, and the final flush writes it; so no
\* click is left in the buffer when the process ends.
GracefulStopDrains ==
  [][\A r \in Replicas : Exit(r) => queue[r] = <<>>]_vars
=============================================================================
