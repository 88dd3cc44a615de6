---------------------------- MODULE ClicksProofs ----------------------------
(***************************************************************************)
(* What TLAPS proves of Clicks, for any replicas, clicks, keys and batch    *)
(* limit: type correctness, its safety invariants, and that it implements  *)
(* ClickLedger, from one inductive invariant, whose core is that a click   *)
(* is in one place at a time, of one replica, and in none once it is       *)
(* counted.                                                                *)
(***************************************************************************)
EXTENDS Clicks, SequenceTheorems, DataLemmas

Queued(r) == Range(queue[r])
Flushing(r) == Range(flush[r].batch)
NoRepeat(s) == \A i, j \in DOMAIN s : s[i] = s[j] => i = j

\* No click is in two places of a replica, nor twice in one.
Apart(r) ==
  /\ NoRepeat(queue[r]) /\ NoRepeat(flush[r].batch)
  /\ scheduled[r] \cap resolving[r] = {}
  /\ (scheduled[r] \cup resolving[r]) \cap Queued(r) = {}
  /\ (scheduled[r] \cup resolving[r] \cup Queued(r)) \cap Flushing(r) = {}

\* When no flush is pending, no batch and no locks are left of one; and how far
\* a stop has come tells what is left in the process.
Progress(r) ==
  /\ Idle(r) => flush[r] = NoFlush
  /\ stop[r] \in {"yield", "closing", "down"} => Idle(r)
  /\ stop[r] \in {"flush2", "closing"} =>
       scheduled[r] = {} /\ resolving[r] \cup Queued(r) \subseteq unresolved[r]
  /\ stop[r] = "down" => Volatile(r) = {}

\* Who holds a click has served it, and it is not in the tables yet.
HeldUncounted ==
  \A r \in Replicas : \A c \in Volatile(r) : c \in served /\ rows[c] = 0

\* No two replicas hold one click.
ReplicasApart ==
  \A r, q \in Replicas : r # q => Volatile(r) \cap Volatile(q) = {}

\* A click that was served is counted, given up, or still in some process.
NothingVanishes ==
  \A c \in served : rows[c] = 1 \/ c \in lost \/ \E r \in Replicas : c \in Volatile(r)

PlacesInv ==
  /\ \A r \in Replicas : Apart(r) /\ Progress(r)
  /\ CountedOnce /\ HeldUncounted /\ ReplicasApart /\ NothingVanishes

ClicksInv == TypeOK /\ PlacesInv /\ RollupMatchesRows

-----------------------------------------------------------------------------
(* Sequences of clicks.                                                    *)

LEMMA EmptyRange ==
  Range(<<>>) = {} /\ NoRepeat(<<>>)
BY DEF Range, NoRepeat

LEMMA AppendRange ==
  ASSUME NEW s \in Seq(Clicks), NEW c \in Clicks
  PROVE  /\ Range(Append(s, c)) = Range(s) \cup {c}
         /\ NoRepeat(s) /\ c \notin Range(s) => NoRepeat(Append(s, c))
<1> DEFINE t == Append(s, c)
<1>1. /\ DOMAIN s = 1..Len(s) /\ Len(s) \in Nat /\ DOMAIN t = 1..(Len(s) + 1)
      /\ \A i \in 1..Len(s) : t[i] = s[i]
      /\ t[Len(s) + 1] = c
  BY AppendProperties, LenProperties
<1> HIDE DEF t
<1>2. Range(t) = Range(s) \cup {c}
  BY <1>1 DEF Range
<1>3. ASSUME NoRepeat(s), c \notin Range(s) PROVE NoRepeat(t)
  <2> SUFFICES ASSUME NEW i \in DOMAIN t, NEW j \in DOMAIN t, t[i] = t[j]
               PROVE  i = j
    BY DEF NoRepeat
  <2>1. \A k \in 1..Len(s) : s[k] # c
    BY <1>1, <1>3 DEF Range
  <2>2. \A k \in DOMAIN t : k \in 1..Len(s) \/ k = Len(s) + 1
    BY <1>1
  <2>3. CASE i \in 1..Len(s) /\ j \in 1..Len(s)
    BY <1>1, <1>3, <2>3 DEF NoRepeat
  <2> QED
    BY <1>1, <2>1, <2>2, <2>3
<1> QED
  BY <1>2, <1>3 DEF t

LEMMA SeqRange ==
  ASSUME NEW s \in Seq(Clicks)
  PROVE  /\ Range(s) \subseteq Clicks
         /\ DOMAIN s = 1..Len(s) /\ Len(s) \in Nat /\ IsFiniteSet(DOMAIN s)
         /\ s # <<>> => Range(s) # {}
<1>1. DOMAIN s = 1..Len(s) /\ Len(s) \in Nat /\ \A i \in DOMAIN s : s[i] \in Clicks
  BY LenProperties, ElementOfSeq
<1>2. IsFiniteSet(DOMAIN s)
  BY <1>1, FS_Interval
<1>3. s # <<>> => 1 \in DOMAIN s
  BY <1>1, EmptySeq
<1> QED
  BY <1>1, <1>2, <1>3 DEF Range

\* A batch without repetitions adds one to the rows of each of its clicks.
LEMMA BatchCounts ==
  ASSUME NEW s \in Seq(Clicks), NEW c \in Clicks
  PROVE  /\ Cardinality({i \in DOMAIN s : s[i] = c}) \in Nat
         /\ c \notin Range(s) => Cardinality({i \in DOMAIN s : s[i] = c}) = 0
         /\ NoRepeat(s) /\ c \in Range(s)
              => Cardinality({i \in DOMAIN s : s[i] = c}) = 1
<1> DEFINE at == {i \in DOMAIN s : s[i] = c}
<1>1. Cardinality(at) \in Nat
  BY SeqRange, FS_Subset, FS_CardinalityType
<1>2. ASSUME c \notin Range(s) PROVE Cardinality(at) = 0
  <2>1. at = {}
    BY <1>2 DEF Range
  <2> QED
    BY <2>1, FS_EmptySet
<1>3. ASSUME NoRepeat(s), c \in Range(s) PROVE Cardinality(at) = 1
  <2>1. PICK i \in DOMAIN s : s[i] = c
    BY <1>3 DEF Range
  <2>2. at = {i}
    BY <1>3, <2>1 DEF NoRepeat
  <2> QED
    BY <2>2, FS_Singleton
<1> QED
  BY <1>1, <1>2, <1>3

-----------------------------------------------------------------------------
(* Type correctness.                                                       *)

LEMMA TypeInit == Init => TypeOK
<1>1. <<>> \in Seq(Clicks)
  BY EmptySeq
<1> QED
  BY <1>1 DEF Init, TypeOK, NoFlush, FlushSteps, StopSteps

Flushes == [pc : FlushSteps, batch : Seq(Clicks), locks : SUBSET Keys]

\* What flush() leaves, whether it starts one or not.
LEMMA StartFlushDoes ==
  ASSUME TypeOK, NEW r \in Replicas, StartFlush(r)
  PROVE  \/ /\ Idle(r) /\ queue[r] # <<>>
            /\ queue' = [queue EXCEPT ![r] = <<>>]
            /\ flush' = [flush EXCEPT ![r] =
                           [pc |-> "insert", batch |-> queue[r], locks |-> {}]]
         \/ /\ ~Idle(r) \/ queue[r] = <<>>
            /\ UNCHANGED <<flush, queue>>
BY DEF StartFlush, NoFlush

LEMMA StartFlushType ==
  ASSUME TypeOK, NEW r \in Replicas, StartFlush(r)
  PROVE  queue' \in [Replicas -> Seq(Clicks)] /\ flush' \in [Replicas -> Flushes]
<1>1. <<>> \in Seq(Clicks)
  BY EmptySeq
<1>2. queue \in [Replicas -> Seq(Clicks)] /\ flush \in [Replicas -> Flushes]
  BY DEF TypeOK, Flushes
<1>3. [pc |-> "insert", batch |-> queue[r], locks |-> {}] \in Flushes
  BY <1>2 DEF Flushes, FlushSteps
<1> QED
  BY <1>1, <1>2, <1>3, StartFlushDoes

LEMMA EndFlushType ==
  ASSUME TypeOK, NEW r \in Replicas, EndFlush(r)
  PROVE  flush' \in [Replicas -> Flushes]
<1>1. NoFlush \in Flushes
  BY EmptySeq DEF NoFlush, Flushes, FlushSteps
<1> QED
  BY <1>1 DEF TypeOK, EndFlush, Flushes

LEMMA EnqueueType ==
  ASSUME TypeOK, NEW r \in Replicas, NEW c \in Clicks, Enqueue(r, c)
  PROVE  queue' \in [Replicas -> Seq(Clicks)]
BY AppendProperties DEF TypeOK, Enqueue

LEMMA DiscardType ==
  ASSUME TypeOK, NEW r \in Replicas, Discard(r)
  PROVE  flush' \in [Replicas -> Flushes] /\ lost' \subseteq Clicks
<1>1. flush' \in [Replicas -> Flushes]
  BY EndFlushType DEF Discard
<1>2. Range(flush[r].batch) \subseteq Clicks
  BY SeqRange DEF TypeOK
<1> QED
  BY <1>1, <1>2 DEF Discard, TypeOK

LEMMA VolatileType ==
  ASSUME TypeOK, NEW r \in Replicas
  PROVE  Volatile(r) \subseteq Clicks
BY SeqRange DEF TypeOK, Volatile

LEMMA BatchType ==
  ASSUME TypeOK, NEW r \in Replicas,
         InsertBatch(flush[r].batch), UpsertBatch(flush[r].batch)
  PROVE  rows' \in [Clicks -> Nat] /\ rollup' \in [Keys -> Nat]
<1> DEFINE b == flush[r].batch
<1>1. b \in Seq(Clicks)
  BY DEF TypeOK
<1>2. \A c \in Clicks : Cardinality({i \in DOMAIN b : b[i] = c}) \in Nat
  BY <1>1, BatchCounts
<1>3. \A k \in Keys : CountOf(b, k) \in Nat
  BY <1>1, SeqRange, FS_Subset, FS_CardinalityType DEF CountOf
<1>4. rows \in [Clicks -> Nat] /\ rollup \in [Keys -> Nat]
  BY DEF TypeOK
<1>5. rows' = [c \in Clicks |-> rows[c] + Cardinality({i \in DOMAIN b : b[i] = c})]
  BY DEF InsertBatch
<1>6. rollup' = [k \in Keys |-> rollup[k] + CountOf(b, k)]
  BY DEF UpsertBatch
<1> HIDE DEF b
<1>7. rows' \in [Clicks -> Nat]
  BY <1>2, <1>4, <1>5
<1>8. rollup' \in [Keys -> Nat]
  BY <1>3, <1>4, <1>6
<1> QED
  BY <1>7, <1>8

LEMMA TypeStep == TypeOK /\ [Next]_vars => TypeOK'
<1> SUFFICES ASSUME TypeOK, [Next]_vars PROVE TypeOK'
  OBVIOUS
<1>1. CASE UNCHANGED vars
  BY <1>1 DEF TypeOK, vars
<1>2. ASSUME NEW r \in Replicas, NEW c \in Clicks, Serve(r, c) \/ Unresolvable(r, c)
      PROVE  TypeOK'
  <2>1. CASE Serve(r, c)
    BY <2>1 DEF TypeOK, Serve, tables
  <2>2. CASE Unresolvable(r, c)
    BY <2>2 DEF TypeOK, Unresolvable, tables
  <2> QED
    BY <1>2, <2>1, <2>2
<1>3. ASSUME NEW r \in Replicas, Callback(r) PROVE TypeOK'
  <2>1. PICK c \in Clicks : Record(r, c) \/ Resolve(r, c) \/ Resolved(r, c)
    BY <1>3 DEF Callback
  <2>2. CASE Resolve(r, c)
    BY <2>2 DEF TypeOK, Resolve, tables
  <2>3. CASE Record(r, c) \/ Resolved(r, c)
    <3>1. queue' \in [Replicas -> Seq(Clicks)]
      BY <2>3, EnqueueType DEF Record, Resolved
    <3> QED
      BY <2>3, <3>1 DEF TypeOK, Record, Resolved, tables
  <2> QED
    BY <2>1, <2>2, <2>3
<1>4. ASSUME NEW r \in Replicas, TimerFlush(r) \/ StopBegin(r) \/ StopFlush(r)
      PROVE  TypeOK'
  <2>1. queue' \in [Replicas -> Seq(Clicks)] /\ flush' \in [Replicas -> Flushes]
    BY <1>4, StartFlushType DEF TimerFlush, StopBegin, StopFlush
  <2> QED
    BY <1>4, <2>1 DEF TypeOK, Flushes, TimerFlush, StopBegin, StopFlush, tables, StopSteps
<1>5. ASSUME NEW r \in Replicas, InsertRows(r) PROVE TypeOK'
  BY <1>5 DEF TypeOK, InsertRows, loopVars, tables, FlushSteps
<1>6. ASSUME NEW r \in Replicas, UpsertKey(r) PROVE TypeOK'
  <2>1. NextKey(r) \in Keys
    <3> DEFINE b == flush[r].batch
    <3>1. b \in Seq(Clicks) /\ Unlocked(r) \subseteq DOMAIN b /\ Unlocked(r) # {}
      BY <1>6 DEF TypeOK, UpsertKey, Wants, Unlocked
    <3>2. Unlocked(r) \subseteq Nat
      BY <3>1, SeqRange
    <3>3. \E i \in Unlocked(r) : \A j \in Unlocked(r) : i <= j
      BY <3>1, <3>2, LeastNatural
    <3>4. \A i \in Unlocked(r) : KeyOf[b[i]] \in Keys
      <4>1. \A i \in Unlocked(r) : b[i] \in Clicks
        BY <3>1, ElementOfSeq, LenProperties
      <4> QED
        BY <4>1, ClicksAssumption
    <3> QED
      BY <3>3, <3>4 DEF NextKey
  <2> QED
    BY <1>6, <2>1 DEF TypeOK, UpsertKey, loopVars, tables
<1>7. ASSUME NEW r \in Replicas, Commit(r) PROVE TypeOK'
  <2>1. flush' \in [Replicas -> Flushes]
    BY <1>7, EndFlushType DEF Commit
  <2>2. rows' \in [Clicks -> Nat] /\ rollup' \in [Keys -> Nat]
    BY <1>7, BatchType DEF Commit
  <2> QED
    BY <1>7, <2>1, <2>2 DEF TypeOK, Flushes, Commit, loopVars
<1>8. ASSUME NEW r \in Replicas, CommitUnacknowledged(r) PROVE TypeOK'
  <2>1. flush' \in [Replicas -> Flushes] /\ lost' \subseteq Clicks
    BY <1>8, DiscardType DEF CommitUnacknowledged
  <2>2. rows' \in [Clicks -> Nat] /\ rollup' \in [Keys -> Nat]
    BY <1>8, BatchType DEF CommitUnacknowledged
  <2> QED
    BY <1>8, <2>1, <2>2 DEF TypeOK, Flushes, CommitUnacknowledged, Discard, loopVars
<1>9. ASSUME NEW r \in Replicas, WriteFails(r) \/ BatchTooLarge(r) \/ DeadlockAbort(r)
      PROVE  TypeOK'
  <2>1. flush' \in [Replicas -> Flushes] /\ lost' \subseteq Clicks
    BY <1>9, DiscardType DEF WriteFails, BatchTooLarge, DeadlockAbort
  <2> QED
    BY <1>9, <2>1
    DEF TypeOK, Flushes, WriteFails, BatchTooLarge, DeadlockAbort, Discard, loopVars, tables
<1>10. ASSUME NEW r \in Replicas, StopYield(r) \/ StopClose(r) \/ Restart(r) PROVE TypeOK'
  BY <1>10 DEF TypeOK, StopYield, StopClose, Restart, loopVars, tables, StopSteps
<1>11. ASSUME NEW r \in Replicas, Exit(r) \/ Crash(r) PROVE TypeOK'
  <2>1. Die(r)
    BY <1>11 DEF Exit, Crash
  <2>2. flush' \in [Replicas -> Flushes] /\ Volatile(r) \subseteq Clicks
    BY <2>1, EndFlushType, VolatileType DEF Die
  <2>3. queue' \in [Replicas -> Seq(Clicks)]
    BY <2>1, EmptySeq DEF Die, TypeOK
  <2> QED
    BY <2>1, <2>2, <2>3 DEF TypeOK, Flushes, Die, tables, StopSteps
<1> QED
  BY <1>1, <1>2, <1>3, <1>4, <1>5, <1>6, <1>7, <1>8, <1>9, <1>10, <1>11
  DEF Next, Write, Stop

\* Every reachable state is well-typed.
THEOREM ClicksTypeCorrect == Spec => []TypeOK
BY TypeInit, TypeStep, PTL DEF Spec

-----------------------------------------------------------------------------
(* Every click in one place.                                               *)

\* The part of the state that only replica q's own steps change.
Untouched(q) ==
  /\ scheduled'[q] = scheduled[q] /\ resolving'[q] = resolving[q]
  /\ queue'[q] = queue[q] /\ flush'[q] = flush[q]
  /\ stop'[q] = stop[q] /\ unresolved'[q] = unresolved[q]

\* What a step of replica r has to respect: it keeps its own places apart, takes
\* no click but one it serves, and drops none without counting it or giving it
\* up; the tables gain only clicks it held and no longer holds.
LEMMA StepOfReplica ==
  ASSUME TypeOK, TypeOK', PlacesInv, NEW r \in Replicas,
         \A q \in Replicas \ {r} : Untouched(q),
         Apart(r)', Progress(r)',
         served \subseteq served', lost \subseteq lost',
         served' \ served \subseteq Volatile(r)',
         Volatile(r)' \subseteq Volatile(r) \cup (served' \ served),
         Volatile(r) \ Volatile(r)' \subseteq lost' \cup {c \in Clicks : rows'[c] = 1},
         \A c \in Clicks : \/ rows'[c] = rows[c]
                           \/ c \in Volatile(r) \ Volatile(r)' /\ rows'[c] = 1
  PROVE  PlacesInv'
<1>1. \A q \in Replicas \ {r} : Volatile(q)' = Volatile(q)
  BY DEF Untouched, Volatile
<1>2. \A q \in Replicas \ {r} : Apart(q)' /\ Progress(q)'
  BY DEF PlacesInv, Untouched, Volatile, Apart, Progress, Queued, Flushing, Idle
<1>3. \A q \in Replicas : Volatile(q) \subseteq served
  BY DEF PlacesInv, HeldUncounted
<1>4. \A q \in Replicas : Volatile(q) \subseteq Clicks
  BY VolatileType
<1>5. \A q \in Replicas \ {r} : Volatile(q)' \cap Volatile(r)' = {}
  BY <1>1, <1>3 DEF PlacesInv, ReplicasApart
<1>6. ReplicasApart'
  BY <1>1, <1>5 DEF PlacesInv, ReplicasApart
<1>7. CountedOnce'
  BY <1>3 DEF PlacesInv, CountedOnce
<1>8. HeldUncounted'
  <2>1. ASSUME NEW q \in Replicas \ {r}, NEW c \in Volatile(q)'
        PROVE  c \in served' /\ rows'[c] = 0
    <3>1. c \in Volatile(q) /\ c \in Clicks /\ c \notin Volatile(r)
      BY <1>1, <1>4, <2>1 DEF PlacesInv, ReplicasApart
    <3> QED
      BY <3>1 DEF PlacesInv, HeldUncounted
  <2>2. ASSUME NEW c \in Volatile(r)' PROVE c \in served' /\ rows'[c] = 0
    <3>1. c \in served'
      BY <1>3, <2>2
    <3>2. CASE c \in Volatile(r)
      <4>1. rows[c] = 0 /\ c \in Clicks
        BY <1>4, <3>2 DEF PlacesInv, HeldUncounted
      <4> QED
        BY <2>2, <3>1, <4>1
    <3>3. CASE c \in served' \ served
      <4>1. c \in Clicks /\ c \notin Volatile(r)
        BY <1>3, <3>3 DEF TypeOK
      <4>2. rows[c] = 0
        BY <3>3, <4>1 DEF PlacesInv, CountedOnce, TypeOK
      <4> QED
        BY <3>1, <4>1, <4>2
    <3> QED
      BY <2>2, <3>2, <3>3
  <2> QED
    BY <2>1, <2>2 DEF HeldUncounted
<1>9. NothingVanishes'
  <2> SUFFICES ASSUME NEW c \in served'
               PROVE  rows'[c] = 1 \/ c \in lost' \/ \E q \in Replicas : c \in Volatile(q)'
    BY DEF NothingVanishes
  <2>1. CASE c \in served' \ served
    BY <2>1
  <2>2. CASE c \in served
    <3>1. c \in Clicks
      BY <2>2 DEF TypeOK
    <3>2. rows[c] = 1 \/ c \in lost \/ \E q \in Replicas : c \in Volatile(q)
      BY <2>2 DEF PlacesInv, NothingVanishes
    <3>3. rows[c] = 1 => rows'[c] = 1
      BY <3>1
    <3>4. ASSUME NEW q \in Replicas, c \in Volatile(q)
          PROVE  rows'[c] = 1 \/ c \in lost' \/ c \in Volatile(q)'
      BY <1>1, <3>4
    <3> QED
      BY <3>2, <3>3, <3>4
  <2> QED
    BY <2>1, <2>2
<1> QED
  BY <1>2, <1>6, <1>7, <1>8, <1>9 DEF PlacesInv

\* A click goes from one set of waiting callbacks to the queue or to the other.
LEMMA CallbackPlaces ==
  ASSUME TypeOK, TypeOK', PlacesInv, NEW r \in Replicas, Callback(r)
  PROVE  PlacesInv'
<1>1. PICK c \in Clicks : Record(r, c) \/ Resolve(r, c) \/ Resolved(r, c)
  BY DEF Callback
<1>2. \A q \in Replicas \ {r} : Untouched(q)
  BY <1>1 DEF Record, Resolve, Resolved, Enqueue, TypeOK, Untouched
<1>3. Apart(r) /\ Progress(r) /\ queue[r] \in Seq(Clicks)
  BY DEF PlacesInv, TypeOK
<1>4. UNCHANGED <<served, lost, rows, flush, stop, unresolved>>
  BY <1>1 DEF Record, Resolve, Resolved, tables
<1>5. /\ Apart(r)' /\ Progress(r)' /\ Volatile(r)' = Volatile(r)
  <2>1. CASE Resolve(r, c)
    <3>1. /\ c \in scheduled[r]
          /\ scheduled'[r] = scheduled[r] \ {c} /\ resolving'[r] = resolving[r] \cup {c}
          /\ queue'[r] = queue[r]
      BY <2>1 DEF Resolve, TypeOK
    <3> QED
      BY <1>3, <1>4, <3>1 DEF Apart, Progress, Volatile, Queued, Flushing, Idle
  <2>2. CASE Record(r, c)
    <3>1. /\ c \in scheduled[r] /\ Up(r)
          /\ scheduled'[r] = scheduled[r] \ {c} /\ resolving'[r] = resolving[r]
          /\ queue'[r] = Append(queue[r], c)
      BY <2>2 DEF Record, Enqueue, TypeOK
    <3>2. c \notin Queued(r)
      BY <1>3, <3>1 DEF Apart
    <3>3. NoRepeat(queue'[r]) /\ Queued(r)' = Queued(r) \cup {c}
      BY <1>3, <3>1, <3>2, AppendRange DEF Apart, Queued
    <3> QED
      BY <1>3, <1>4, <3>1, <3>3 DEF Apart, Progress, Volatile, Queued, Flushing, Idle, Up
  <2>3. CASE Resolved(r, c)
    <3>1. /\ c \in resolving[r] /\ Up(r)
          /\ resolving'[r] = resolving[r] \ {c} /\ scheduled'[r] = scheduled[r]
          /\ queue'[r] = Append(queue[r], c)
      BY <2>3 DEF Resolved, Enqueue, TypeOK
    <3>2. c \notin Queued(r)
      BY <1>3, <3>1 DEF Apart
    <3>3. NoRepeat(queue'[r]) /\ Queued(r)' = Queued(r) \cup {c}
      BY <1>3, <3>1, <3>2, AppendRange DEF Apart, Queued
    <3> QED
      BY <1>3, <1>4, <3>1, <3>3 DEF Apart, Progress, Volatile, Queued, Flushing, Idle, Up
  <2> QED
    BY <1>1, <2>1, <2>2, <2>3
<1> QED
  BY <1>2, <1>4, <1>5, StepOfReplica

LEMMA ServePlaces ==
  ASSUME TypeOK, TypeOK', PlacesInv, NEW r \in Replicas, NEW c \in Clicks, Serve(r, c)
  PROVE  PlacesInv'
<1>1. \A q \in Replicas \ {r} : Untouched(q)
  BY DEF Serve, TypeOK, Untouched
<1>2. /\ stop[r] = "running" /\ c \notin served /\ served' = served \cup {c}
      /\ scheduled'[r] = scheduled[r] \cup {c}
      /\ UNCHANGED <<resolving, queue, flush, stop, rows, lost, unresolved>>
  BY DEF Serve, TypeOK, tables
<1>3. c \notin Volatile(r) /\ Apart(r) /\ Progress(r)
  BY <1>2 DEF PlacesInv, HeldUncounted
<1>4. Apart(r)' /\ Progress(r)' /\ Volatile(r)' = Volatile(r) \cup {c}
  BY <1>2, <1>3 DEF Apart, Progress, Volatile, Queued, Flushing, Idle
<1> QED
  BY <1>1, <1>2, <1>4, StepOfReplica

LEMMA UnresolvablePlaces ==
  ASSUME TypeOK, TypeOK', PlacesInv, NEW r \in Replicas, NEW c \in Clicks,
         Unresolvable(r, c)
  PROVE  PlacesInv'
<1>1. \A q \in Replicas \ {r} : Untouched(q)
  BY DEF Unresolvable, TypeOK, Untouched
<1>2. /\ resolving'[r] = resolving[r] \ {c} /\ lost' = lost \cup {c}
      /\ UNCHANGED <<served, scheduled, queue, flush, stop, rows, unresolved>>
  BY DEF Unresolvable, TypeOK, tables
<1>3. Apart(r) /\ Progress(r)
  BY DEF PlacesInv
<1>4. /\ Apart(r)' /\ Progress(r)' /\ Volatile(r)' \subseteq Volatile(r)
      /\ Volatile(r) \ Volatile(r)' \subseteq {c}
  BY <1>2, <1>3 DEF Apart, Progress, Volatile, Queued, Flushing, Idle
<1> QED
  BY <1>1, <1>2, <1>4, StepOfReplica

\* flush() moves the whole queue to the batch, when no batch is pending.
LEMMA FlushMoves ==
  ASSUME TypeOK, NEW r \in Replicas, Apart(r), Progress(r), StartFlush(r),
         UNCHANGED <<scheduled, resolving>>
  PROVE  /\ Apart(r)' /\ Volatile(r)' = Volatile(r)
         /\ Idle(r) => Queued(r)' = {}
         /\ Idle(r)' => flush'[r] = NoFlush /\ Idle(r)
         /\ Queued(r)' \subseteq Queued(r)
         /\ \A q \in Replicas \ {r} : queue'[q] = queue[q] /\ flush'[q] = flush[q]
<1>1. CASE /\ Idle(r) /\ queue[r] # <<>>
           /\ queue' = [queue EXCEPT ![r] = <<>>]
           /\ flush' = [flush EXCEPT ![r] =
                          [pc |-> "insert", batch |-> queue[r], locks |-> {}]]
  <2>1. queue'[r] = <<>> /\ flush'[r].batch = queue[r] /\ flush'[r].pc = "insert"
    BY <1>1 DEF TypeOK
  <2>2. flush[r].batch = <<>>
    BY <1>1 DEF Progress, NoFlush
  <2>3. \A q \in Replicas \ {r} : queue'[q] = queue[q] /\ flush'[q] = flush[q]
    BY <1>1 DEF TypeOK
  <2> QED
    BY <2>1, <2>2, <2>3, EmptyRange DEF Apart, Volatile, Queued, Flushing, Idle
<1>2. CASE (~Idle(r) \/ queue[r] = <<>>) /\ UNCHANGED <<flush, queue>>
  BY <1>2, EmptyRange DEF Apart, Volatile, Queued, Flushing, Idle, Progress
<1> QED
  BY <1>1, <1>2, StartFlushDoes

LEMMA FlushPlaces ==
  ASSUME TypeOK, TypeOK', PlacesInv, NEW r \in Replicas,
         TimerFlush(r) \/ StopBegin(r) \/ StopFlush(r)
  PROVE  PlacesInv'
<1>1. /\ StartFlush(r) /\ Apart(r) /\ Progress(r)
      /\ UNCHANGED <<served, scheduled, resolving, rows, lost>>
  BY DEF TimerFlush, StopBegin, StopFlush, tables, PlacesInv
<1>2. /\ Apart(r)' /\ Volatile(r)' = Volatile(r)
      /\ Idle(r) => Queued(r)' = {}
      /\ Idle(r)' => flush'[r] = NoFlush /\ Idle(r)
      /\ Queued(r)' \subseteq Queued(r)
      /\ \A q \in Replicas \ {r} : queue'[q] = queue[q] /\ flush'[q] = flush[q]
  BY <1>1, FlushMoves
<1>3. \A q \in Replicas \ {r} : Untouched(q)
  BY <1>1, <1>2 DEF TimerFlush, StopBegin, StopFlush, TypeOK, Untouched
<1>4. Progress(r)'
  <2>1. CASE TimerFlush(r)
    BY <1>1, <1>2, <2>1 DEF TimerFlush, Progress
  <2>2. CASE StopBegin(r)
    <3>1. stop'[r] = "flush1"
      BY <2>2 DEF StopBegin, TypeOK
    <3> QED
      BY <1>2, <3>1 DEF Progress
  <2>3. CASE StopFlush(r)
    <3>1. /\ stop[r] = "yield" /\ stop'[r] = "flush2" /\ scheduled[r] = {}
          /\ unresolved'[r] = resolving[r]
      BY <2>3 DEF StopFlush, TypeOK
    <3> QED
      BY <1>1, <1>2, <3>1 DEF Progress
  <2> QED
    BY <2>1, <2>2, <2>3
<1> QED
  BY <1>1, <1>2, <1>3, <1>4, StepOfReplica

\* The steps of a write and of a stop that move no click.
LEMMA QuietPlaces ==
  ASSUME TypeOK, TypeOK', PlacesInv, NEW r \in Replicas,
         InsertRows(r) \/ UpsertKey(r) \/ StopYield(r) \/ StopClose(r) \/ Restart(r)
  PROVE  PlacesInv'
<1>1. /\ UNCHANGED <<served, scheduled, resolving, queue, rows, lost, unresolved>>
      /\ Apart(r) /\ Progress(r)
  BY DEF InsertRows, UpsertKey, StopYield, StopClose, Restart, loopVars, tables, PlacesInv
<1>2. \A q \in Replicas \ {r} : Untouched(q)
  BY <1>1 DEF InsertRows, UpsertKey, StopYield, StopClose, Restart, TypeOK, Untouched
<1>3. flush'[r].batch = flush[r].batch
  BY DEF InsertRows, UpsertKey, StopYield, StopClose, Restart, TypeOK
<1>4. Apart(r)' /\ Volatile(r)' = Volatile(r)
  BY <1>1, <1>3 DEF Apart, Volatile, Queued, Flushing
<1>5. Progress(r)'
  <2>1. CASE InsertRows(r) \/ UpsertKey(r)
    <3>1. stop' = stop /\ ~Idle(r) /\ ~Idle(r)'
      BY <2>1 DEF InsertRows, UpsertKey, Wants, Idle, TypeOK
    <3> QED
      BY <1>1, <1>4, <3>1 DEF Progress, Queued
  <2>2. CASE StopYield(r)
    <3>1. flush' = flush /\ stop'[r] = "yield" /\ Idle(r)
      BY <2>2 DEF StopYield, TypeOK
    <3> QED
      BY <1>1, <3>1 DEF Progress, Idle
  <2>3. CASE StopClose(r)
    <3>1. flush' = flush /\ stop[r] = "flush2" /\ stop'[r] = "closing" /\ Idle(r)
      BY <2>3 DEF StopClose, TypeOK
    <3> QED
      BY <1>1, <3>1 DEF Progress, Idle, Queued
  <2>4. CASE Restart(r)
    <3>1. flush' = flush /\ stop'[r] = "running"
      BY <2>4 DEF Restart, loopVars, TypeOK
    <3> QED
      BY <1>1, <3>1 DEF Progress, Idle
  <2> QED
    BY <2>1, <2>2, <2>3, <2>4
<1> QED
  BY <1>1, <1>2, <1>4, <1>5, StepOfReplica

\* The end of a flush empties its batch, and nothing else.
LEMMA FlushEnds ==
  ASSUME TypeOK, NEW r \in Replicas, Apart(r), Progress(r), ~Idle(r), EndFlush(r),
         UNCHANGED <<scheduled, resolving, queue, stop, unresolved>>
  PROVE  /\ Apart(r)' /\ Progress(r)'
         /\ Volatile(r)' = Volatile(r) \ Flushing(r) /\ Flushing(r) \subseteq Volatile(r)
         /\ \A q \in Replicas \ {r} : Untouched(q)
<1>1. flush'[r] = NoFlush /\ \A q \in Replicas \ {r} : flush'[q] = flush[q]
  BY DEF EndFlush, TypeOK
<1>2. flush'[r].batch = <<>> /\ Idle(r)'
  BY <1>1 DEF NoFlush, Idle
<1>3. Flushing(r)' = {} /\ NoRepeat(flush'[r].batch)
  BY <1>2, EmptyRange DEF Flushing
<1>4. Apart(r)' /\ Volatile(r)' = Volatile(r) \ Flushing(r)
  BY <1>3 DEF Apart, Volatile, Queued, Flushing
<1>5. Progress(r)'
  BY <1>1, <1>2, <1>4 DEF Progress, Queued
<1> QED
  BY <1>1, <1>4, <1>5 DEF Untouched, Volatile, Flushing

LEMMA DiscardPlaces ==
  ASSUME TypeOK, TypeOK', PlacesInv, NEW r \in Replicas,
         WriteFails(r) \/ BatchTooLarge(r) \/ DeadlockAbort(r)
  PROVE  PlacesInv'
<1>1. /\ Discard(r) /\ Apart(r) /\ Progress(r)
      /\ UNCHANGED <<served, stop, rows, unresolved>>
  BY DEF WriteFails, BatchTooLarge, DeadlockAbort, tables, PlacesInv
<1>2. ~Idle(r)
  <2>1. CASE DeadlockAbort(r)
    <3>1. \E other \in Replicas : BlockedBy(r, other)
      BY <2>1 DEF DeadlockAbort, DeadlockSet
    <3> QED
      BY <3>1 DEF BlockedBy, Wants, Idle
  <2> QED
    BY <2>1 DEF WriteFails, BatchTooLarge, Idle
<1>3. /\ EndFlush(r) /\ lost' = lost \cup Flushing(r)
      /\ UNCHANGED <<scheduled, resolving, queue>>
  BY <1>1 DEF Discard, loopVars, Flushing
<1>4. /\ Apart(r)' /\ Progress(r)'
      /\ Volatile(r)' = Volatile(r) \ Flushing(r)
      /\ \A q \in Replicas \ {r} : Untouched(q)
  BY <1>1, <1>2, <1>3, FlushEnds
<1> QED
  BY <1>1, <1>3, <1>4, StepOfReplica

LEMMA CommitPlaces ==
  ASSUME TypeOK, TypeOK', PlacesInv, NEW r \in Replicas,
         Commit(r) \/ CommitUnacknowledged(r)
  PROVE  PlacesInv'
<1>1. /\ Apart(r) /\ Progress(r) /\ ~Idle(r) /\ EndFlush(r)
      /\ InsertBatch(flush[r].batch) /\ lost \subseteq lost'
      /\ UNCHANGED <<served, scheduled, resolving, queue, stop, unresolved>>
  BY DEF Commit, CommitUnacknowledged, Discard, loopVars, PlacesInv, Idle
<1>2. /\ Apart(r)' /\ Progress(r)'
      /\ Volatile(r)' = Volatile(r) \ Flushing(r) /\ Flushing(r) \subseteq Volatile(r)
      /\ \A q \in Replicas \ {r} : Untouched(q)
  BY <1>1, FlushEnds
<1> DEFINE b == flush[r].batch
<1>3. b \in Seq(Clicks) /\ NoRepeat(b)
  BY <1>1 DEF TypeOK, Apart
<1>4. ASSUME NEW c \in Clicks
      PROVE  rows'[c] = IF c \in Flushing(r) THEN 1 ELSE rows[c]
  <2>1. rows'[c] = rows[c] + Cardinality({i \in DOMAIN b : b[i] = c})
    BY <1>1 DEF InsertBatch
  <2>2. rows[c] \in Nat /\ (c \in Flushing(r) => rows[c] = 0)
    BY <1>2 DEF TypeOK, PlacesInv, HeldUncounted
  <2>3. Cardinality({i \in DOMAIN b : b[i] = c}) = IF c \in Flushing(r) THEN 1 ELSE 0
    BY <1>3, BatchCounts DEF Flushing
  <2> QED
    BY <2>1, <2>2, <2>3
<1>5. Flushing(r) \subseteq Clicks
  BY <1>2, VolatileType
<1> QED
  BY <1>1, <1>2, <1>4, <1>5, StepOfReplica

LEMMA DiePlaces ==
  ASSUME TypeOK, TypeOK', PlacesInv, NEW r \in Replicas, Die(r)
  PROVE  PlacesInv'
<1>1. /\ stop'[r] = "down" /\ lost' = lost \cup Volatile(r)
      /\ scheduled'[r] = {} /\ resolving'[r] = {} /\ queue'[r] = <<>>
      /\ flush'[r] = NoFlush /\ UNCHANGED <<served, rows>>
  BY DEF Die, EndFlush, tables, TypeOK
<1>2. \A q \in Replicas \ {r} : Untouched(q)
  BY DEF Die, EndFlush, TypeOK, Untouched
<1>3. flush'[r].batch = <<>> /\ flush'[r].pc = "none"
  BY <1>1 DEF NoFlush
<1>4. Volatile(r)' = {} /\ Apart(r)' /\ Progress(r)'
  BY <1>1, <1>3, EmptyRange DEF Volatile, Apart, Progress, Queued, Flushing, Idle
<1> QED
  BY <1>1, <1>2, <1>4, StepOfReplica

LEMMA PlacesInit == Init => PlacesInv
<1> SUFFICES ASSUME Init PROVE PlacesInv
  OBVIOUS
<1>1. ASSUME NEW r \in Replicas
      PROVE  Volatile(r) = {} /\ Apart(r) /\ Progress(r)
  BY EmptyRange
  DEF Init, NoFlush, Volatile, Apart, Progress, Queued, Flushing, Idle
<1> QED
  BY <1>1
  DEF Init, PlacesInv, CountedOnce, HeldUncounted, ReplicasApart, NothingVanishes

LEMMA PlacesStep == TypeOK /\ PlacesInv /\ [Next]_vars => PlacesInv'
<1> SUFFICES ASSUME TypeOK, PlacesInv, [Next]_vars PROVE PlacesInv'
  OBVIOUS
<1>1. TypeOK'
  BY TypeStep
<1>2. CASE UNCHANGED vars
  BY <1>2
  DEF vars, PlacesInv, Apart, Progress, Volatile, Queued, Flushing, Idle,
      CountedOnce, HeldUncounted, ReplicasApart, NothingVanishes
<1>3. ASSUME NEW r \in Replicas, NEW c \in Clicks, Serve(r, c) \/ Unresolvable(r, c)
      PROVE  PlacesInv'
  BY <1>1, <1>3, ServePlaces, UnresolvablePlaces
<1>4. ASSUME NEW r \in Replicas, Callback(r) PROVE PlacesInv'
  BY <1>1, <1>4, CallbackPlaces
<1>5. ASSUME NEW r \in Replicas, TimerFlush(r) \/ StopBegin(r) \/ StopFlush(r)
      PROVE  PlacesInv'
  BY <1>1, <1>5, FlushPlaces
<1>6. ASSUME NEW r \in Replicas,
             InsertRows(r) \/ UpsertKey(r) \/ StopYield(r) \/ StopClose(r) \/ Restart(r)
      PROVE  PlacesInv'
  BY <1>1, <1>6, QuietPlaces
<1>7. ASSUME NEW r \in Replicas, WriteFails(r) \/ BatchTooLarge(r) \/ DeadlockAbort(r)
      PROVE  PlacesInv'
  BY <1>1, <1>7, DiscardPlaces
<1>8. ASSUME NEW r \in Replicas, Commit(r) \/ CommitUnacknowledged(r) PROVE PlacesInv'
  BY <1>1, <1>8, CommitPlaces
<1>9. ASSUME NEW r \in Replicas, Exit(r) \/ Crash(r) PROVE PlacesInv'
  BY <1>1, <1>9, DiePlaces DEF Exit, Crash
<1> QED
  BY <1>2, <1>3, <1>4, <1>5, <1>6, <1>7, <1>8, <1>9 DEF Next, Write, Stop

-----------------------------------------------------------------------------
(* The rollup.                                                             *)

\* The clicks of a batch that count under a key are those of all its clicks.
LEMMA BatchSum ==
  ASSUME NEW b \in Seq(Clicks), NEW k
  PROVE  LET of == {c \in Clicks : KeyOf[c] = k}
         IN  Sum([c \in Clicks |-> Cardinality({i \in DOMAIN b : b[i] = c})], of)
               = CountOf(b, k)
<1> DEFINE of == {c \in Clicks : KeyOf[c] = k}
           g == [c \in Clicks |-> Cardinality({i \in DOMAIN b : b[i] = c})]
<1>1. IsFiniteSet(of) /\ IsFiniteSet(DOMAIN b)
  BY ClicksAssumption, FS_Subset, SeqRange
<1>2. \A c \in of : g[c] = Cardinality({i \in DOMAIN b : b[i] = c})
  OBVIOUS
<1>3. Sum(g, of) = CountIn(DOMAIN b, b, of)
  <2>1. \A c \in of : {i \in DOMAIN b : b[i] \in {c}} = {i \in DOMAIN b : b[i] = c}
    OBVIOUS
  <2>2. \A c \in of : g[c] = CountIn(DOMAIN b, b, {c})
    BY <1>2, <2>1 DEF CountIn
  <2> HIDE DEF g, of
  <2> QED
    BY <1>1, <2>2, SumCounts
<1>4. {i \in DOMAIN b : b[i] \in of} = {i \in DOMAIN b : KeyOf[b[i]] = k}
  <2>1. \A i \in DOMAIN b : b[i] \in Clicks
    BY ElementOfSeq, LenProperties
  <2> QED
    BY <2>1
<1> QED
  BY <1>3, <1>4 DEF CountOf, CountIn

LEMMA RollupInit == Init => RollupMatchesRows
<1> SUFFICES ASSUME Init, NEW k \in Keys
             PROVE  rollup[k] = SumFunctionOnSet(rows, {c \in Clicks : KeyOf[c] = k})
  BY DEF RollupMatchesRows
<1> DEFINE of == {c \in Clicks : KeyOf[c] = k}
<1>1. IsFiniteSet(of)
  BY ClicksAssumption, FS_Subset
<1>2. \A c \in of : rows[c] = 0
  BY DEF Init
<1>3. Sum(rows, of) = 0
  <2> HIDE DEF of
  <2>1. \A S : CountIn({}, rows, S) = 0
    BY FS_EmptySet DEF CountIn
  <2>2. \A x \in of : rows[x] = CountIn({}, rows, {x})
    BY <1>2, <2>1
  <2>3. IsFiniteSet({})
    BY FS_EmptySet
  <2>4. Sum(rows, of) = CountIn({}, rows, of)
    BY <1>1, <2>2, <2>3, SumCounts
  <2> QED
    BY <2>1, <2>4
<1> QED
  BY <1>3 DEF Init, Sum

LEMMA RollupStep == TypeOK /\ RollupMatchesRows /\ [Next]_vars => RollupMatchesRows'
<1> SUFFICES ASSUME TypeOK, RollupMatchesRows, [Next]_vars PROVE RollupMatchesRows'
  OBVIOUS
<1>1. CASE UNCHANGED tables
  BY <1>1 DEF tables, RollupMatchesRows
<1>2. ASSUME NEW r \in Replicas, Commit(r) \/ CommitUnacknowledged(r)
      PROVE  RollupMatchesRows'
  <2> SUFFICES ASSUME NEW k \in Keys
               PROVE  rollup'[k] = Sum(rows', {c \in Clicks : KeyOf[c] = k})
    BY DEF RollupMatchesRows, Sum
  <2> DEFINE of == {c \in Clicks : KeyOf[c] = k}
             b == flush[r].batch
             g == [c \in Clicks |-> Cardinality({i \in DOMAIN b : b[i] = c})]
  <2>1. b \in Seq(Clicks) /\ rows \in [Clicks -> Nat]
    BY DEF TypeOK
  <2>2. rollup'[k] = rollup[k] + CountOf(b, k)
    BY <1>2 DEF Commit, CommitUnacknowledged, UpsertBatch
  <2>3. \A c \in Clicks : rows'[c] = rows[c] + g[c]
    BY <1>2 DEF Commit, CommitUnacknowledged, InsertBatch
  <2>4. \A c \in Clicks : g[c] \in Nat
    BY <2>1, BatchCounts
  <2>5. Sum(g, of) = CountOf(b, k)
    BY <2>1, BatchSum
  <2>6. rollup[k] = Sum(rows, of)
    BY DEF RollupMatchesRows, Sum
  <2>7. IsFiniteSet(of)
    BY ClicksAssumption, FS_Subset
  <2>8. Sum(rows', of) = Sum(rows, of) + Sum(g, of)
    <3>1. \A c \in of : rows[c] \in Nat /\ g[c] \in Nat /\ rows'[c] = rows[c] + g[c]
      BY <2>1, <2>3, <2>4
    <3> HIDE DEF of, g
    <3> QED
      BY <2>7, <3>1, SumPlus
  <2> QED
    BY <2>2, <2>5, <2>6, <2>8
<1>3. ASSUME Next, ~UNCHANGED tables
      PROVE  \E r \in Replicas : Commit(r) \/ CommitUnacknowledged(r)
  <2>1. PICK r \in Replicas :
          \/ \E c \in Clicks : Serve(r, c) \/ Unresolvable(r, c)
          \/ Callback(r) \/ TimerFlush(r) \/ Write(r) \/ Stop(r)
          \/ CommitUnacknowledged(r) \/ WriteFails(r)
          \/ StopBegin(r) \/ Crash(r) \/ Restart(r)
    BY <1>3 DEF Next
  <2>2. ~(\E c \in Clicks : Serve(r, c) \/ Unresolvable(r, c)) /\ ~Callback(r)
    BY <1>3 DEF Serve, Unresolvable, Callback, Record, Resolve, Resolved
  <2>3. /\ ~TimerFlush(r) /\ ~StopBegin(r) /\ ~Crash(r) /\ ~Restart(r) /\ ~WriteFails(r)
    BY <1>3 DEF TimerFlush, StopBegin, Crash, Die, Restart, WriteFails, tables
  <2>4. ~Stop(r)
    BY <1>3 DEF Stop, StopYield, StopFlush, StopClose, Exit, Die, tables
  <2>5. Write(r) => Commit(r)
    BY <1>3 DEF Write, InsertRows, UpsertKey, BatchTooLarge, DeadlockAbort
  <2> QED
    BY <2>1, <2>2, <2>3, <2>4, <2>5
<1> QED
  BY <1>1, <1>2, <1>3 DEF vars, tables

-----------------------------------------------------------------------------
(* The theorems.                                                           *)

LEMMA ClicksInvariant == Spec => []ClicksInv
<1>1. Init => ClicksInv
  BY TypeInit, PlacesInit, RollupInit DEF ClicksInv
<1>2. ClicksInv /\ [Next]_vars => ClicksInv'
  BY TypeStep, PlacesStep, RollupStep DEF ClicksInv
<1> QED
  BY <1>1, <1>2, PTL DEF Spec

\* A click is counted at most once, and only if it was served: for any number
\* of replicas, through coalesced flushes, lost answers, crashes and restarts.
THEOREM CountedOnceHolds == Spec => []CountedOnce
<1>1. ClicksInv => CountedOnce
  BY DEF ClicksInv, PlacesInv
<1> QED
  BY <1>1, ClicksInvariant, PTL

\* The rollup is the sum of the rows it summarises, whatever batches commit.
THEOREM RollupMatchesRowsHolds == Spec => []RollupMatchesRows
<1>1. ClicksInv => RollupMatchesRows
  BY DEF ClicksInv
<1> QED
  BY <1>1, ClicksInvariant, PTL

\* A graceful stop that has reached closeDb leaves only clicks whose link id was
\* still being looked up at its final flush.
THEOREM OnlyUnresolvedLeftBehindHolds == Spec => []OnlyUnresolvedLeftBehind
<1>1. ClicksInv => OnlyUnresolvedLeftBehind
  <2> SUFFICES ASSUME ClicksInv, NEW r \in Replicas, stop[r] = "closing"
               PROVE  Volatile(r) \subseteq unresolved[r]
    BY DEF OnlyUnresolvedLeftBehind
  <2>1. Progress(r)
    BY DEF ClicksInv, PlacesInv
  <2>2. Range(flush[r].batch) = {}
    BY <2>1, EmptyRange DEF Progress, NoFlush
  <2> QED
    BY <2>1, <2>2 DEF Progress, Volatile, Queued
<1> QED
  BY <1>1, ClicksInvariant, PTL

\* No click vanishes: served, it is in the tables, known to be given up, or in
\* the memory of a process that is up.
THEOREM NoClickVanishes == Spec => []NothingVanishes
<1>1. ClicksInv => NothingVanishes
  BY DEF ClicksInv, PlacesInv
<1> QED
  BY <1>1, ClicksInvariant, PTL
-----------------------------------------------------------------------------
(* The ledger: Clicks implements ClickLedger.                              *)

Held == UNION {Volatile(r) : r \in Replicas}
Booked == {c \in Clicks : rows[c] > 0}

\* A replica settles clicks it holds: the others keep theirs, and nobody holds
\* the settled ones.
LEMMA HeldStep ==
  ASSUME ClicksInv, NEW r \in Replicas, \A q \in Replicas \ {r} : Untouched(q),
         NEW batch, batch \subseteq Volatile(r), Volatile(r)' = Volatile(r) \ batch
  PROVE  Held' = Held \ batch /\ batch \subseteq Held
<1>1. \A q \in Replicas \ {r} : Volatile(q)' = Volatile(q)
  BY DEF Untouched, Volatile
<1>2. \A q \in Replicas \ {r} : Volatile(q) \cap batch = {}
  BY DEF ClicksInv, PlacesInv, ReplicasApart
<1> QED
  BY <1>1, <1>2 DEF Held

\* A step that leaves the tables alone and moves clicks within a replica.
LEMMA HeldSame ==
  ASSUME NEW r \in Replicas, \A q \in Replicas \ {r} : Untouched(q),
         Volatile(r)' = Volatile(r)
  PROVE  Held' = Held
<1>1. \A q \in Replicas : Volatile(q)' = Volatile(q)
  BY DEF Untouched, Volatile
<1> QED
  BY <1>1 DEF Held

\* A batch without repetitions counts under a key as often as it has clicks of it.
LEMMA CountOfClicks ==
  ASSUME NEW b \in Seq(Clicks), NoRepeat(b), NEW k
  PROVE  CountOf(b, k) = Cardinality({c \in Range(b) : KeyOf[c] = k})
<1> DEFINE S == {i \in DOMAIN b : KeyOf[b[i]] = k}
           T == {c \in Range(b) : KeyOf[c] = k}
           f == [i \in S |-> b[i]]
<1>1. IsFiniteSet(S)
  BY SeqRange, FS_Subset
<1>2. f \in [S -> T]
  BY DEF Range
<1>3. \A i, j \in S : f[i] = f[j] => i = j
  BY DEF NoRepeat
<1>4. \A c \in T : \E i \in S : f[i] = c
  BY DEF Range
<1>5. f \in Bijection(S, T)
  BY <1>2, <1>3, <1>4 DEF Bijection, Injection, Surjection, IsInjective
<1>6. Cardinality(T) = Cardinality(S)
  BY <1>1, <1>5, FS_Bijection DEF ExistsBijection
<1> QED
  BY <1>6 DEF CountOf

\* The abstract specification counts as this one does.
LEMMA SameCardinality == \A S : Ledger!Cardinality(S) = Cardinality(S)
  BY DEF Ledger!Cardinality, Cardinality, Ledger!IsFiniteSet, IsFiniteSet

\* Clicks given up are dropped.
LEMMA DropStep ==
  ASSUME ClicksInv, NEW r \in Replicas, \A q \in Replicas \ {r} : Untouched(q),
         NEW batch, batch \subseteq Volatile(r), Volatile(r)' = Volatile(r) \ batch,
         UNCHANGED <<served, rows, rollup>>
  PROVE  Ledger!Next
<1>1. Held' = Held \ batch /\ batch \subseteq Held
  BY HeldStep
<1>2. Booked' = Booked
  BY DEF Booked
<1> QED
  BY <1>1, <1>2 DEF Ledger!Next, Ledger!Drop, Held, Booked

LEMMA BookStep ==
  ASSUME ClicksInv, NEW r \in Replicas, Commit(r) \/ CommitUnacknowledged(r)
  PROVE  Ledger!Next
<1>0. PICK done : done = Flushing(r)
  OBVIOUS
<1>1. /\ Apart(r) /\ Progress(r) /\ ~Idle(r) /\ EndFlush(r)
      /\ InsertBatch(flush[r].batch) /\ UpsertBatch(flush[r].batch)
      /\ UNCHANGED <<served, scheduled, resolving, queue, stop, unresolved>>
  BY DEF Commit, CommitUnacknowledged, Discard, loopVars, ClicksInv, PlacesInv, Idle
<1>2. /\ Volatile(r)' = Volatile(r) \ done /\ done \subseteq Volatile(r)
      /\ \A q \in Replicas \ {r} : Untouched(q)
  BY <1>0, <1>1, FlushEnds DEF ClicksInv
<1>3. flush[r].batch \in Seq(Clicks) /\ NoRepeat(flush[r].batch) /\ done \subseteq Clicks
  BY <1>0, <1>1, SeqRange DEF ClicksInv, TypeOK, Apart, Flushing
<1>4. Held' = Held \ done /\ done \subseteq Held
  BY <1>2, HeldStep
<1>5. ASSUME NEW c \in Clicks
      PROVE  rows'[c] > 0 <=> rows[c] > 0 \/ c \in done
  <2> DEFINE n == Cardinality({i \in DOMAIN flush[r].batch : flush[r].batch[i] = c})
  <2>1. rows'[c] = rows[c] + n
    BY <1>1 DEF InsertBatch
  <2>2. rows[c] \in Nat
    BY DEF ClicksInv, TypeOK
  <2>3. n = IF c \in done THEN 1 ELSE 0
    BY <1>0, <1>3, BatchCounts DEF Flushing
  <2> HIDE DEF n
  <2> QED
    BY <2>1, <2>2, <2>3
<1>6. Booked' = Booked \cup done
  BY <1>3, <1>5 DEF Booked
<1>7. rollup' = [k \in Keys |-> rollup[k] + Cardinality({c \in done : KeyOf[c] = k})]
  <2>1. \A k : CountOf(flush[r].batch, k) = Cardinality({c \in done : KeyOf[c] = k})
    BY <1>0, <1>3, CountOfClicks DEF Flushing
  <2> QED
    BY <1>1, <2>1 DEF UpsertBatch
<1>8. Ledger!Book(done)
  BY <1>1, <1>4, <1>6, <1>7, SameCardinality DEF Ledger!Book, Held, Booked
<1> QED
  BY <1>4, <1>8 DEF Ledger!Next, Held

LEMMA LedgerStep ==
  ASSUME ClicksInv, [Next]_vars
  PROVE  Ledger!Next \/ UNCHANGED <<served, Held, Booked, rollup>>
<1>0. TypeOK /\ PlacesInv
  BY DEF ClicksInv
<1>1. CASE UNCHANGED vars
  BY <1>1 DEF vars, Held, Booked, Volatile
<1>2. ASSUME NEW r \in Replicas, NEW c \in Clicks, Serve(r, c) PROVE Ledger!Next
  <2>1. \A q \in Replicas \ {r} : Untouched(q)
    BY <1>0, <1>2 DEF Serve, TypeOK, Untouched
  <2>2. /\ Volatile(r)' = Volatile(r) \cup {c}
        /\ c \notin served /\ served' = served \cup {c} /\ UNCHANGED <<rows, rollup>>
    BY <1>0, <1>2 DEF Serve, TypeOK, Volatile, tables
  <2>3. \A q \in Replicas \ {r} : Volatile(q)' = Volatile(q)
    BY <2>1 DEF Untouched, Volatile
  <2>4. Held' = Held \cup {c} /\ Booked' = Booked
    BY <2>2, <2>3 DEF Held, Booked
  <2> QED
    BY <2>2, <2>4 DEF Ledger!Next, Ledger!Serve, Held, Booked
<1>3. ASSUME NEW r \in Replicas, NEW c \in Clicks, Unresolvable(r, c) PROVE Ledger!Next
  <2>1. \A q \in Replicas \ {r} : Untouched(q)
    BY <1>0, <1>3 DEF Unresolvable, TypeOK, Untouched
  <2>2. /\ c \in resolving[r] /\ resolving'[r] = resolving[r] \ {c}
        /\ UNCHANGED <<served, scheduled, queue, flush, rows, rollup>>
    BY <1>0, <1>3 DEF Unresolvable, TypeOK, tables
  <2>3. Apart(r)
    BY <1>0 DEF PlacesInv
  <2>4. {c} \subseteq Volatile(r) /\ Volatile(r)' = Volatile(r) \ {c}
    BY <2>2, <2>3 DEF Volatile, Apart, Queued, Flushing
  <2> QED
    BY <2>1, <2>2, <2>4, DropStep
<1>4. ASSUME NEW r \in Replicas, Callback(r)
      PROVE  UNCHANGED <<served, Held, Booked, rollup>>
  <2>1. PICK c \in Clicks : Record(r, c) \/ Resolve(r, c) \/ Resolved(r, c)
    BY <1>4 DEF Callback
  <2>2. /\ \A q \in Replicas \ {r} : Untouched(q)
        /\ UNCHANGED <<served, flush, rows, rollup>>
    BY <1>0, <2>1 DEF Record, Resolve, Resolved, Enqueue, TypeOK, Untouched, tables
  <2>3. Volatile(r)' = Volatile(r)
    <3>1. queue[r] \in Seq(Clicks)
      BY <1>0 DEF TypeOK
    <3>2. CASE Resolve(r, c)
      BY <1>0, <2>2, <3>2 DEF Resolve, TypeOK, Volatile
    <3>3. CASE Record(r, c) \/ Resolved(r, c)
      <4>1. Range(queue'[r]) = Range(queue[r]) \cup {c}
        BY <1>0, <3>1, <3>3, AppendRange DEF Record, Resolved, Enqueue, TypeOK
      <4> QED
        BY <1>0, <2>2, <3>3, <4>1 DEF Record, Resolved, TypeOK, Volatile
    <3> QED
      BY <2>1, <3>2, <3>3
  <2> QED
    BY <2>2, <2>3, HeldSame DEF Booked
<1>5. ASSUME NEW r \in Replicas, TimerFlush(r) \/ StopBegin(r) \/ StopFlush(r)
      PROVE  UNCHANGED <<served, Held, Booked, rollup>>
  <2>1. /\ StartFlush(r) /\ Apart(r) /\ Progress(r)
        /\ UNCHANGED <<served, scheduled, resolving, rows, rollup>>
    BY <1>0, <1>5 DEF TimerFlush, StopBegin, StopFlush, tables, PlacesInv
  <2>2. /\ Volatile(r)' = Volatile(r)
        /\ \A q \in Replicas \ {r} : queue'[q] = queue[q] /\ flush'[q] = flush[q]
    BY <1>0, <2>1, FlushMoves
  <2>3. \A q \in Replicas \ {r} : Untouched(q)
    BY <1>0, <1>5, <2>1, <2>2 DEF TimerFlush, StopBegin, StopFlush, TypeOK, Untouched
  <2> QED
    BY <2>1, <2>2, <2>3, HeldSame DEF Booked
<1>6. ASSUME NEW r \in Replicas,
             InsertRows(r) \/ UpsertKey(r) \/ StopYield(r) \/ StopClose(r) \/ Restart(r)
      PROVE  UNCHANGED <<served, Held, Booked, rollup>>
  <2>1. UNCHANGED <<served, scheduled, resolving, queue, rows, rollup>>
    BY <1>6 DEF InsertRows, UpsertKey, StopYield, StopClose, Restart, loopVars, tables
  <2>2. \A q \in Replicas : flush'[q].batch = flush[q].batch
    <3> SUFFICES ASSUME NEW q \in Replicas PROVE flush'[q].batch = flush[q].batch
      OBVIOUS
    <3>1. flush[q] \in [pc : FlushSteps, batch : Seq(Clicks), locks : SUBSET Keys]
      BY <1>0 DEF TypeOK
    <3>2. CASE UNCHANGED flush
      BY <3>2
    <3>3. CASE InsertRows(r) \/ UpsertKey(r)
      <4>1. \/ flush'[q] = flush[q] \/ flush'[q] = [flush[q] EXCEPT !.pc = "upsert"]
            \/ flush'[q] = [flush[q] EXCEPT !.locks = @ \cup {NextKey(q)}]
        BY <1>0, <3>3 DEF InsertRows, UpsertKey, TypeOK
      <4> QED
        BY <3>1, <4>1
    <3> QED
      BY <1>6, <3>2, <3>3 DEF StopYield, StopClose, Restart
  <2>3. \A q \in Replicas : Volatile(q)' = Volatile(q)
    BY <2>1, <2>2 DEF Volatile
  <2> QED
    BY <2>1, <2>3 DEF Held, Booked
<1>7. ASSUME NEW r \in Replicas, WriteFails(r) \/ BatchTooLarge(r) \/ DeadlockAbort(r)
      PROVE  Ledger!Next
  <2>1. /\ Discard(r) /\ Apart(r) /\ Progress(r)
        /\ UNCHANGED <<served, stop, rows, rollup, unresolved>>
    BY <1>0, <1>7 DEF WriteFails, BatchTooLarge, DeadlockAbort, tables, PlacesInv
  <2>2. ~Idle(r)
    BY <1>7 DEF WriteFails, BatchTooLarge, DeadlockAbort, DeadlockSet, BlockedBy, Wants, Idle
  <2>3. EndFlush(r) /\ UNCHANGED <<scheduled, resolving, queue>>
    BY <2>1 DEF Discard, loopVars
  <2>4. /\ Volatile(r)' = Volatile(r) \ Flushing(r) /\ Flushing(r) \subseteq Volatile(r)
        /\ \A q \in Replicas \ {r} : Untouched(q)
    BY <1>0, <2>1, <2>2, <2>3, FlushEnds
  <2> QED
    BY <2>1, <2>4, DropStep
<1>8. ASSUME NEW r \in Replicas, Exit(r) \/ Crash(r) PROVE Ledger!Next
  <2>1. Die(r)
    BY <1>8 DEF Exit, Crash
  <2>2. /\ scheduled'[r] = {} /\ resolving'[r] = {} /\ queue'[r] = <<>>
        /\ flush'[r] = NoFlush /\ UNCHANGED <<served, rows, rollup>>
        /\ \A q \in Replicas \ {r} : Untouched(q)
    BY <1>0, <2>1 DEF Die, EndFlush, tables, TypeOK, Untouched
  <2>3. Volatile(r)' = Volatile(r) \ Volatile(r)
    <3>1. flush'[r].batch = <<>>
      BY <2>2 DEF NoFlush
    <3> QED
      BY <2>2, <3>1, EmptyRange DEF Volatile
  <2> QED
    BY <2>2, <2>3, DropStep
<1> QED
  BY <1>1, <1>2, <1>3, <1>4, <1>5, <1>6, <1>7, <1>8, BookStep DEF Next, Write, Stop

\* However many replicas queue, batch, deadlock, stop and crash, the tables they
\* share behave as one ledger that decides each click's fate once.
THEOREM ImplementsLedger == Spec => LedgerSpec
<1>1. Init => Ledger!Init
  <2> SUFFICES ASSUME Init PROVE Ledger!Init
    OBVIOUS
  <2>1. \A r \in Replicas : Volatile(r) = {}
    BY EmptyRange DEF Init, NoFlush, Volatile
  <2>2. Booked = {} /\ Held = {}
    BY <2>1 DEF Init, Booked, Held
  <2> QED
    BY <2>2 DEF Init, Ledger!Init, Booked, Held
<1>2. ClicksInv /\ [Next]_vars => [Ledger!Next]_<<served, Held, Booked, rollup>>
  BY LedgerStep
<1> QED
  BY <1>1, <1>2, ClicksInvariant, PTL DEF Spec, LedgerSpec, Ledger!Spec, Held, Booked
=============================================================================
