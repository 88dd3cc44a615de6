--------------------------- MODULE EntranceProofs ----------------------------
(***************************************************************************)
(* Theorems about what stands before the handlers: RateLimit, for any      *)
(* surfaces, limits, addresses, users and length of the window; and        *)
(* EdgeCache, for any views of the link, requests in flight and lifetimes. *)
(***************************************************************************)
EXTENDS RateLimit, EdgeCache, DataLemmas, TLAPS

-----------------------------------------------------------------------------
(* The rate limiter.                                                       *)

LimitInv == LimitTypeOK /\ NoKeyStuck

-----------------------------------------------------------------------------
\* Whatever a client writes into its headers, the key is made of the address the
\* trusted proxy saw.
LEMMA ClientIpIsTheirs ==
  ASSUME NEW a \in ClientIps, NEW req \in Arrivals(a)
  PROVE  ClientIp(req) = a
<1>1. CASE req \in {[realIp |-> <<a>>, forwarded |-> <<hop, a>>] : hop \in Ips}
  BY <1>1 DEF ClientIp
<1>2. CASE req \in {[realIp |-> <<>>, forwarded |-> <<hop, a>>] : hop \in Ips}
  BY <1>2 DEF ClientIp
<1> QED
  BY <1>1, <1>2 DEF Arrivals

\* Every key charged is one of Keys, with a limit.
LEMMA KeysCharged ==
  ASSUME NEW s \in Surfaces, NEW a \in ClientIps, NEW u \in Callers
  PROVE  LimitKey(s, a, u) \in Keys /\ KeyLimit(LimitKey(s, a, u)) \in Nat
<1>1. Bucket[a] \in Buckets
  BY RateLimitAssumption DEF Buckets
<1>2. CASE s = "shorten" /\ u # Anon
  <2>1. LimitKey(s, a, u) = <<"shorten-user", u>> /\ u \in Users
    BY <1>2 DEF LimitKey, Callers, AuthSurfaces
  <2> QED
    BY <2>1, RateLimitAssumption DEF Keys, KeyLimit
<1>3. CASE ~(s = "shorten" /\ u # Anon) /\ s \in AuthSurfaces
  <2>1. LimitKey(s, a, u) = <<"auth", Bucket[a]>>
    BY <1>3 DEF LimitKey, AuthSurfaces
  <2>2. "auth" \in Surfaces
    BY <1>3, RateLimitAssumption DEF AuthSurfaces
  <2>3. Limit["auth"] \in Nat /\ ("auth-verify" \in Surfaces => Limit["auth-verify"] \in Nat)
    BY <2>2, RateLimitAssumption
  <2>4. KeyLimit(<<"auth", Bucket[a]>>) \in Nat
    BY <2>3 DEF KeyLimit
  <2> QED
    BY <1>1, <2>1, <2>2, <2>4 DEF Keys
<1>4. CASE ~(s = "shorten" /\ u # Anon) /\ s \notin AuthSurfaces
  <2>1. LimitKey(s, a, u) = <<s, Bucket[a]>>
    BY <1>4 DEF LimitKey
  <2>2. s # "auth" /\ s # "shorten-user" /\ Limit[s] \in Nat
    BY <1>4, RateLimitAssumption DEF AuthSurfaces
  <2>3. KeyLimit(<<s, Bucket[a]>>) \in Nat
    BY <2>2 DEF KeyLimit
  <2> QED
    BY <1>1, <2>1, <2>3 DEF Keys
<1> QED
  BY <1>2, <1>3, <1>4

LEMMA LimitInvInit == LimitInit => LimitInv
  BY RateLimitAssumption DEF LimitInit, LimitInv, LimitTypeOK, NoKeyStuck

\* Counting one more in the first tick.
LEMMA BumpTyped ==
  ASSUME NEW S, NEW f \in [S -> [1..WindowTicks -> Nat]], NEW m \in S, 1 \in 1..WindowTicks
  PROVE  [f EXCEPT ![m][1] = @ + 1] \in [S -> [1..WindowTicks -> Nat]]
<1>1. f[m] \in [1..WindowTicks -> Nat]
  OBVIOUS
<1>2. \A g \in [1..WindowTicks -> Nat] : [g EXCEPT ![1] = g[1] + 1] \in [1..WindowTicks -> Nat]
  <2> SUFFICES ASSUME NEW g \in [1..WindowTicks -> Nat]
               PROVE  [g EXCEPT ![1] = g[1] + 1] \in [1..WindowTicks -> Nat]
    OBVIOUS
  <2>1. g[1] \in Nat
    OBVIOUS
  <2>2. g[1] + 1 \in Nat
    BY <2>1
  <2> QED
    BY <2>2
<1> QED
  BY <1>1, <1>2

\* An admission is counted for a payer there is.
LEMMA AdmitTyped ==
  ASSUME LimitInv, NEW s \in Surfaces, NEW a \in ClientIps, NEW u \in Callers,
         Admit(s, a, u) \/ UNCHANGED recent
  PROVE  recent' \in [Surfaces \X Metered -> [1..WindowTicks -> Nat]]
<1>1. recent \in [Surfaces \X Metered -> [1..WindowTicks -> Nat]] /\ 1 \in 1..WindowTicks
  BY RateLimitAssumption DEF LimitInv, LimitTypeOK
<1>2. PayerOf(s, a, u) \in Metered
  BY RateLimitAssumption DEF PayerOf, Metered, Buckets, Callers
<1>3. CASE Admit(s, a, u)
  <2>1. PICK m \in Surfaces \X Metered : recent' = [recent EXCEPT ![m][1] = @ + 1]
    BY <1>2, <1>3 DEF Admit
  <2> QED
    BY <1>1, <2>1, BumpTyped
<1> QED
  BY <1>1, <1>3

LEMMA HitKeeps ==
  ASSUME LimitInv, NEW s \in Surfaces, NEW a \in ClientIps, NEW u \in Callers, Hit(s, a, u)
  PROVE  LimitInv'
<1> DEFINE key == LimitKey(s, a, u)
<1>1. /\ hits < MaxHits
      /\ count' = [count EXCEPT ![key] = IF count[key] + 1 > KeyLimit(key)
                                           THEN KeyLimit(key) + 1 ELSE count[key] + 1]
      /\ ttl' = [ttl EXCEPT ![key] = TtlAfterHit(key)]
      /\ Admit(s, a, u) \/ UNCHANGED recent
      /\ hits' = hits + 1 /\ lost' = lost \ {key}
      /\ UNCHANGED <<redis, faults>>
  BY ClientIpIsTheirs DEF Hit
<1>2. key \in Keys /\ KeyLimit(key) \in Nat
  BY KeysCharged
<1> HIDE DEF key
<1>3. /\ count \in [Keys -> Nat] /\ ttl \in [Keys -> 0..WindowTicks]
      /\ WindowTicks \in Nat \ {0} /\ hits \in 0..MaxHits /\ MaxHits \in Nat
  BY RateLimitAssumption DEF LimitInv, LimitTypeOK
<1>4. TtlAfterHit(key) \in 1..WindowTicks
  BY <1>2, <1>3 DEF TtlAfterHit
<1>5. count' \in [Keys -> Nat] /\ ttl' \in [Keys -> 0..WindowTicks]
  BY <1>1, <1>2, <1>3, <1>4
<1>6. recent' \in [Surfaces \X Metered -> [1..WindowTicks -> Nat]]
  BY <1>1, AdmitTyped
<1>7. LimitTypeOK'
  <2>1. hits' \in 0..MaxHits /\ lost' \subseteq Keys
    BY <1>1, <1>3 DEF LimitInv, LimitTypeOK
  <2> QED
    BY <1>1, <1>5, <1>6, <2>1 DEF LimitInv, LimitTypeOK
<1>8. NoKeyStuck'
  <2> SUFFICES ASSUME NEW k \in Keys, count'[k] > 0
               PROVE  ttl'[k] > 0 \/ k \in lost'
    BY DEF NoKeyStuck
  <2>1. CASE k = key
    BY <1>1, <1>2, <1>3, <1>4, <2>1
  <2>2. CASE k # key
    BY <1>1, <1>2, <1>3, <2>2 DEF LimitInv, NoKeyStuck
  <2> QED
    BY <2>1, <2>2
<1> QED
  BY <1>7, <1>8 DEF LimitInv

\* The invariant is inductive.
LEMMA LimitInvNext ==
  ASSUME LimitInv, [LimitNext]_limitVars
  PROVE  LimitInv'
<1>1. /\ count \in [Keys -> Nat] /\ ttl \in [Keys -> 0..WindowTicks]
      /\ WindowTicks \in Nat \ {0} /\ hits \in 0..MaxHits /\ MaxHits \in Nat
      /\ faults \in 0..MaxFaults /\ MaxFaults \in Nat /\ lost \subseteq Keys
  BY RateLimitAssumption DEF LimitInv, LimitTypeOK
<1>2. ASSUME NEW s \in Surfaces, NEW a \in ClientIps, NEW u \in Callers,
             HitWithoutRedis(s, a, u)
      PROVE  LimitInv'
  <2>1. /\ hits < MaxHits /\ hits' = hits + 1
        /\ Admit(s, a, u) \/ UNCHANGED recent
        /\ UNCHANGED <<redis, count, ttl, faults, lost>>
    BY <1>2 DEF HitWithoutRedis
  <2>2. LimitTypeOK'
    <3>1. recent' \in [Surfaces \X Metered -> [1..WindowTicks -> Nat]]
      BY <2>1, AdmitTyped
    <3>2. hits' \in 0..MaxHits
      BY <1>1, <2>1
    <3> QED
      BY <2>1, <3>1, <3>2 DEF LimitInv, LimitTypeOK
  <2> QED
    BY <2>1, <2>2 DEF LimitInv, NoKeyStuck
<1>3. ASSUME Tick PROVE LimitInv'
  <2>1. recent' \in [Surfaces \X Metered -> [1..WindowTicks -> Nat]]
    <3>1. recent \in [Surfaces \X Metered -> [1..WindowTicks -> Nat]]
      BY DEF LimitInv, LimitTypeOK
    <3>2. \A m \in Surfaces \X Metered, i \in 1..WindowTicks :
            (IF i = 1 THEN 0 ELSE recent[m][i - 1]) \in Nat
      BY <1>1, <3>1
    <3> QED
      BY <1>3, <3>2 DEF Tick
  <2>2. /\ count' \in [Keys -> Nat] /\ ttl' \in [Keys -> 0..WindowTicks]
        /\ hits' \in 0..MaxHits /\ UNCHANGED <<redis, faults, lost>>
    BY <1>1, <1>3 DEF Tick
  <2>3. NoKeyStuck'
    BY <1>1, <1>3 DEF Tick, LimitInv, NoKeyStuck
  <2> QED
    BY <2>1, <2>2, <2>3 DEF LimitInv, LimitTypeOK
<1>4. ASSUME RedisToggles PROVE LimitInv'
  BY <1>4 DEF RedisToggles, LimitInv, LimitTypeOK, NoKeyStuck
<1>5. ASSUME NEW k \in Keys, LosesExpiry(k) PROVE LimitInv'
  <2>1. LimitTypeOK'
    BY <1>1, <1>5 DEF LosesExpiry, LimitInv, LimitTypeOK
  <2>2. NoKeyStuck'
    BY <1>1, <1>5 DEF LosesExpiry, LimitInv, NoKeyStuck
  <2> QED
    BY <2>1, <2>2 DEF LimitInv
<1>6. CASE UNCHANGED limitVars
  BY <1>6 DEF limitVars, LimitInv, LimitTypeOK, NoKeyStuck
<1> QED
  BY <1>2, <1>3, <1>4, <1>5, <1>6, HitKeeps DEF LimitNext

LEMMA LimitInvHolds == LimitSpec => []LimitInv
  BY LimitInvInit, LimitInvNext, PTL DEF LimitSpec

-----------------------------------------------------------------------------
\* Every reachable state is well-typed.
THEOREM LimitTypeCorrect == LimitSpec => []LimitTypeOK
<1>1. LimitInv => LimitTypeOK
  BY DEF LimitInv
<1> QED
  BY <1>1, LimitInvHolds, PTL

\* No counter outlives its window, unless it has lost its expiry and was not asked
\* since.
THEOREM NoKeyStuckHolds == LimitSpec => []NoKeyStuck
<1>1. LimitInv => NoKeyStuck
  BY DEF LimitInv
<1> QED
  BY <1>1, LimitInvHolds, PTL

-----------------------------------------------------------------------------
(* Bursts.  What a counter shows about the admissions of its window.        *)

\* Requests admitted in the last n ticks.
Admitted(g, n) == Sum(g, 1..n)
Smaller(a, b) == IF a < b THEN a ELSE b

\* A counter that stands at c with t ticks to its expiry, the limit L of a
\* surface it counts for, and what that surface admitted in each tick: when the
\* counter is gone, its last window has lost the tick of the hit that opened it.
\* When it is there, its window opened some tick ago, with no more admissions
\* since than hits (and fewer since the tick after), and fewer than the limit in
\* the ticks before; or it opened before the ticks we look at.
Windowed(c, t, L, g) ==
  IF c = 0
  THEN g[1] = 0 /\ Admitted(g, WindowTicks) < L
  ELSE \/ \E o \in 1..WindowTicks :
            /\ Admitted(g, o) <= Smaller(c, L) /\ Admitted(g, o - 1) < Smaller(c, L)
            /\ Admitted(g, WindowTicks) < L + Admitted(g, o)
            /\ t > 0 => WindowTicks < o + t
       \/ Admitted(g, WindowTicks) < Smaller(c, L)

\* The key a surface charges for a payer, if it charges that payer at all.
IsCharged(s, p) == p \in Buckets \/ s = "shorten"
KeyOf(s, p) == IF p \in Users THEN <<"shorten-user", p>>
               ELSE IF s \in AuthSurfaces THEN <<"auth", p>> ELSE <<s, p>>

\* What the two auth surfaces admit together.
Pairwise(g, h) == [i \in 1..WindowTicks |-> g[i] + h[i]]
Both(b) == Pairwise(recent[<<"auth", b>>], recent[<<"auth-verify", b>>])

MeterKept(s, p) ==
  Windowed(count[KeyOf(s, p)], ttl[KeyOf(s, p)], PayerLimit(s, p), recent[<<s, p>>])
AuthMeterKept(b) ==
  Windowed(count[<<"auth", b>>], ttl[<<"auth", b>>], KeyLimit(<<"auth", b>>), Both(b))

BurstInv ==
  /\ \A s \in Surfaces, p \in Metered :
       IF IsCharged(s, p) THEN s # "redirect" => MeterKept(s, p)
                          ELSE recent[<<s, p>>] = [i \in 1..WindowTicks |-> 0]
  /\ AuthSurfaces \subseteq Surfaces => \A b \in Buckets : AuthMeterKept(b)

(* One counter.                                                            *)

LEMMA AdmittedFacts ==
  ASSUME NEW g \in [1..WindowTicks -> Nat]
  PROVE  /\ \A n \in 0..WindowTicks : Admitted(g, n) \in Nat
         /\ \A n \in 0..WindowTicks : Admitted(g, n) <= Admitted(g, WindowTicks)
         /\ Admitted(g, 0) = 0
         /\ Admitted(g, 1) = g[1]
<1>1. WindowTicks \in Nat /\ WindowTicks >= 1 /\ \A i \in 1..WindowTicks : g[i] \in Nat
  BY RateLimitAssumption
<1>2. \A n \in 0..WindowTicks : Admitted(g, n) \in Nat /\ Admitted(g, n) <= Admitted(g, WindowTicks)
  BY <1>1, SumGrows DEF Admitted
<1>3. 0 \in Nat /\ \A i \in 1..(0 + 1) : g[i] \in Nat
  BY <1>1
<1>4. Admitted(g, 0) = 0 /\ Sum(g, 1..(0 + 1)) = Sum(g, 1..0) + g[0 + 1]
  BY <1>3, SumUpTo DEF Admitted
<1>5. Admitted(g, 1) = g[1]
  <2>1. 0 + 1 = 1 /\ g[1] \in Nat
    BY <1>1
  <2> QED
    BY <1>4, <2>1 DEF Admitted
<1> QED
  BY <1>2, <1>4, <1>5

LEMMA AdmittedOneMore ==
  ASSUME NEW g \in [1..WindowTicks -> Nat], NEW f, f = [g EXCEPT ![1] = @ + 1]
  PROVE  \A n \in 1..WindowTicks : Admitted(f, n) = Admitted(g, n) + 1
<1> SUFFICES ASSUME NEW n \in 1..WindowTicks PROVE Admitted(f, n) = Admitted(g, n) + 1
  OBVIOUS
<1>1. WindowTicks \in Nat
  BY RateLimitAssumption
<1>2. Bumped(f, g, WindowTicks)
  BY <1>1 DEF Bumped
<1>3. NaturalTo(g, WindowTicks)
  BY DEF NaturalTo
<1>4. Sum(f, 1..n) = Sum(g, 1..n) + 1
  BY <1>1, <1>2, <1>3, SumBumped
<1> QED
  BY <1>4 DEF Admitted

\* Two ways to establish it of a counter that is there.
LEMMA OpenedAgo ==
  ASSUME NEW c, c # 0, NEW t, NEW L, NEW g, NEW o \in 1..WindowTicks,
         Admitted(g, o) <= Smaller(c, L), Admitted(g, o - 1) < Smaller(c, L),
         Admitted(g, WindowTicks) < L + Admitted(g, o), t > 0 => WindowTicks < o + t
  PROVE  Windowed(c, t, L, g)
BY DEF Windowed

LEMMA OpenedEarlier ==
  ASSUME NEW c, c # 0, NEW t, NEW L, NEW g, Admitted(g, WindowTicks) < Smaller(c, L)
  PROVE  Windowed(c, t, L, g)
BY DEF Windowed

\* A hit may raise both sides.
LEMMA OneMoreHit ==
  ASSUME NEW c \in Nat, NEW d \in Nat, NEW L \in Nat, d = c + 1 \/ (L < d /\ d <= c + 1),
         NEW a \in Nat, NEW b \in Nat, b = a \/ (c + 1 <= L /\ b = a + 1)
  PROVE  /\ a < Smaller(c, L) => b < Smaller(d, L)
         /\ a <= Smaller(c, L) => b <= Smaller(d, L)
BY DEF Smaller

LEMMA AdmittedTickAgo ==
  ASSUME NEW g \in [1..WindowTicks -> Nat], NEW f, Shifted(f, g, WindowTicks)
  PROVE  \A n \in 1..WindowTicks : Admitted(f, n) = Admitted(g, n - 1)
<1> SUFFICES ASSUME NEW n \in 1..WindowTicks PROVE Admitted(f, n) = Admitted(g, n - 1)
  OBVIOUS
<1>1. WindowTicks \in Nat /\ NaturalTo(g, WindowTicks)
  BY RateLimitAssumption DEF NaturalTo
<1>2. Sum(f, 1..n) = Sum(g, 1..(n - 1))
  BY <1>1, SumShifted
<1> QED
  BY <1>2 DEF Admitted

\* A hit, whether or not the surface we look at admits it.
LEMMA WindowedHit ==
  ASSUME NEW c \in Nat, NEW t \in 0..WindowTicks, NEW L \in Nat \ {0}, NEW K \in Nat, L <= K,
         NEW g \in [1..WindowTicks -> Nat], NEW f \in [1..WindowTicks -> Nat],
         Windowed(c, t, L, g),
         f = g \/ (c + 1 <= L /\ f = [g EXCEPT ![1] = @ + 1])
  PROVE  Windowed(IF c + 1 > K THEN K + 1 ELSE c + 1,
                  IF c = 0 \/ t = 0 THEN WindowTicks ELSE t, L, f)
<1> DEFINE W == WindowTicks
           d == IF c + 1 > K THEN K + 1 ELSE c + 1
           u == IF c = 0 \/ t = 0 THEN W ELSE t
           A(n) == Admitted(g, n)
           B(n) == Admitted(f, n)
<1>1. W \in Nat /\ W >= 1 /\ W \in 0..W
  BY RateLimitAssumption
<1>2. /\ \A n \in 0..W : A(n) \in Nat
      /\ \A n \in 0..W : A(n) <= A(W)
      /\ A(0) = 0 /\ A(1) = g[1]
  BY AdmittedFacts
<1>3. /\ \A n \in 0..W : B(n) \in Nat
      /\ B(0) = 0 /\ B(1) = f[1]
  BY AdmittedFacts
<1>4. \/ \A n \in 0..W : B(n) = A(n)
      \/ c + 1 <= L /\ \A n \in 1..W : B(n) = A(n) + 1
  <2>1. CASE f = g
    BY <2>1
  <2>2. CASE c + 1 <= L /\ f = [g EXCEPT ![1] = @ + 1]
    <3>1. \A n \in 1..W : B(n) = A(n) + 1
      BY <2>2, AdmittedOneMore
    <3> QED
      BY <2>2, <3>1
  <2> QED
    BY <2>1, <2>2
<1>5. /\ d \in Nat /\ d # 0 /\ u \in 1..W
      /\ Smaller(c, L) \in Nat /\ Smaller(d, L) \in Nat
      /\ Smaller(c, L) <= Smaller(d, L) /\ Smaller(c, L) <= L
      /\ c + 1 <= L => Smaller(d, L) = c + 1 /\ Smaller(c, L) = c
      /\ Smaller(d, L) >= 1
  BY <1>1 DEF Smaller
<1>6. d = c + 1 \/ (L < d /\ d <= c + 1)
  OBVIOUS
<1>7. ASSUME c = 0 PROVE Windowed(d, u, L, f)
  <2>1. A(1) = 0 /\ A(W) < L
    BY <1>2, <1>7 DEF Windowed
  <2>2. 1 \in 0..W /\ 1 \in 1..W /\ W \in 1..W /\ 1 - 1 = 0 /\ u = W
    BY <1>1, <1>7
  <2>3. B(1) = 0 \/ B(1) = 1
    BY <1>4, <2>1, <2>2
  <2>4. B(W) < L + B(1)
    <3>1. \/ B(W) = A(W) /\ B(1) = A(1)
          \/ B(W) = A(W) + 1 /\ B(1) = A(1) + 1
      BY <1>1, <1>4, <2>2
    <3>2. A(W) \in Nat
      BY <1>1, <1>2
    <3> HIDE DEF A, B
    <3> QED
      BY <2>1, <3>1, <3>2
  <2>5. B(1) <= Smaller(d, L) /\ B(1 - 1) < Smaller(d, L)
    <3> HIDE DEF A, B, d
    <3> QED
      BY <1>3, <1>5, <2>2, <2>3
  <2>6. u > 0 => W < 1 + u
    BY <1>1, <2>2
  <2> HIDE DEF d, u
  <2> QED
    BY <1>5, <2>2, <2>4, <2>5, <2>6, OpenedAgo
<1>8. ASSUME c # 0, A(W) < Smaller(c, L) PROVE Windowed(d, u, L, f)
  <2>1. A(W) \in Nat /\ B(W) \in Nat /\ (B(W) = A(W) \/ (c + 1 <= L /\ B(W) = A(W) + 1))
    BY <1>1, <1>2, <1>3, <1>4
  <2> HIDE DEF A, B, d, u
  <2>2. B(W) < Smaller(d, L)
    BY <1>5, <1>6, <1>8, <2>1, OneMoreHit
  <2> QED
    BY <1>5, <2>2, OpenedEarlier DEF B
<1>9. ASSUME c # 0, NEW o \in 1..W,
             A(o) <= Smaller(c, L), A(o - 1) < Smaller(c, L),
             A(W) < L + A(o), t > 0 => W < o + t
      PROVE  Windowed(d, u, L, f)
  <2>1. o \in 0..W /\ o - 1 \in 0..W /\ W \in 1..W /\ (o - 1 = 0 \/ o - 1 \in 1..W)
    BY <1>1
  <2>2. /\ A(o) \in Nat /\ A(o - 1) \in Nat /\ A(W) \in Nat
        /\ B(o) \in Nat /\ B(o - 1) \in Nat /\ B(W) \in Nat
    BY <1>1, <1>2, <1>3, <2>1
  <2>3. \/ B(o) = A(o) /\ B(W) = A(W)
        \/ c + 1 <= L /\ B(o) = A(o) + 1 /\ B(W) = A(W) + 1
    BY <1>1, <1>4, <2>1
  <2>4. B(o - 1) = A(o - 1) \/ (c + 1 <= L /\ B(o - 1) = A(o - 1) + 1)
    BY <1>2, <1>3, <1>4, <2>1
  <2>5. u > 0 => W < o + u
    BY <1>1, <1>9
  <2> HIDE DEF A, B, d, u
  <2>6. B(o) <= Smaller(d, L)
    BY <1>5, <1>6, <1>9, <2>2, <2>3, OneMoreHit
  <2>7. B(o - 1) < Smaller(d, L)
    <3> DEFINE x == A(o - 1)
               y == B(o - 1)
    <3>1. /\ x \in Nat /\ y \in Nat /\ (y = x \/ (c + 1 <= L /\ y = x + 1))
          /\ x < Smaller(c, L)
      BY <1>9, <2>2, <2>4
    <3> HIDE DEF x, y
    <3>2. y < Smaller(d, L)
      BY <1>5, <1>6, <3>1, OneMoreHit
    <3> QED
      BY <3>2 DEF y
  <2>8. B(W) < L + B(o)
    BY <1>9, <2>2, <2>3
  <2> QED
    BY <1>5, <2>5, <2>6, <2>7, <2>8, OpenedAgo DEF B
<1>10. \/ c = 0
       \/ c # 0 /\ A(W) < Smaller(c, L)
       \/ c # 0 /\ \E o \in 1..W : /\ A(o) <= Smaller(c, L) /\ A(o - 1) < Smaller(c, L)
                                   /\ A(W) < L + A(o) /\ (t > 0 => W < o + t)
  BY DEF Windowed
<1>11. Windowed(d, u, L, f)
  <2> HIDE DEF A, d, u
  <2> QED
    BY <1>7, <1>8, <1>9, <1>10
<1> QED
  BY <1>11

\* A tick: the window slides, and a counter whose time is up is gone.
LEMMA WindowedTick ==
  ASSUME NEW c \in Nat, NEW t \in 0..WindowTicks, NEW L \in Nat \ {0},
         NEW g \in [1..WindowTicks -> Nat], NEW f \in [1..WindowTicks -> Nat],
         Windowed(c, t, L, g),
         Shifted(f, g, WindowTicks)
  PROVE  Windowed(IF t = 1 THEN 0 ELSE c, IF t = 0 THEN 0 ELSE t - 1, L, f)
<1> DEFINE W == WindowTicks
           d == IF t = 1 THEN 0 ELSE c
           u == IF t = 0 THEN 0 ELSE t - 1
           A(n) == Admitted(g, n)
           B(n) == Admitted(f, n)
<1>1. W \in Nat /\ W >= 1 /\ 1 \in 1..W /\ W \in 1..W /\ W - 1 \in 0..W
  BY RateLimitAssumption
<1>2. /\ \A n \in 0..W : A(n) \in Nat
      /\ \A n \in 0..W : A(n) <= A(W)
  BY AdmittedFacts
<1>3. \A n \in 1..W : B(n) = A(n - 1)
  BY AdmittedTickAgo
<1>4. f[1] = 0 /\ Smaller(c, L) \in Nat /\ Smaller(c, L) <= L
  BY <1>1 DEF Smaller, Shifted
<1>4a. ASSUME c # 0, B(W) < Smaller(c, L), B(W) < L PROVE Windowed(d, u, L, f)
  <2>1. d = 0 \/ d = c
    OBVIOUS
  <2> HIDE DEF d, u
  <2>2. CASE d = 0
    BY <1>4, <1>4a, <2>2 DEF Windowed
  <2>3. CASE d = c
    BY <1>4a, <2>3, OpenedEarlier
  <2> QED
    BY <2>1, <2>2, <2>3
<1>5. ASSUME c = 0 PROVE Windowed(d, u, L, f)
  <2>1. A(W) < L
    BY <1>5 DEF Windowed
  <2>2. B(W) = A(W - 1) /\ A(W - 1) <= A(W) /\ A(W) \in Nat /\ A(W - 1) \in Nat /\ d = 0
    BY <1>1, <1>2, <1>3, <1>5
  <2> HIDE DEF A, B, d, u
  <2>3. B(W) < L
    BY <2>1, <2>2
  <2> QED
    BY <1>4, <2>2, <2>3 DEF Windowed, B
<1>5a. ASSUME c # 0, A(W) < Smaller(c, L) PROVE Windowed(d, u, L, f)
  <2>1. B(W) = A(W - 1) /\ A(W - 1) <= A(W) /\ A(W) \in Nat /\ A(W - 1) \in Nat
    BY <1>1, <1>2, <1>3
  <2> HIDE DEF A, B, d, u
  <2>2. B(W) < Smaller(c, L) /\ B(W) < L
    BY <1>4, <1>5a, <2>1
  <2> QED
    BY <1>4a, <1>5a, <2>2
<1>6. ASSUME c # 0, NEW o \in 1..W,
             A(o) <= Smaller(c, L), A(o - 1) < Smaller(c, L),
             A(W) < L + A(o), t > 0 => W < o + t
      PROVE  Windowed(d, u, L, f)
  <2>1. CASE o = W
    <3>1. B(W) < Smaller(c, L) /\ B(W) < L
      <4> HIDE DEF A, B
      <4> QED
        BY <1>1, <1>2, <1>3, <1>4, <1>6, <2>1
    <3> HIDE DEF A, B, d, u
    <3> QED
      BY <1>4a, <1>6, <3>1
  <2>2. CASE o # W
    <3>1. t # 1 /\ d = c /\ (u > 0 => W < (o + 1) + u)
      BY <1>1, <1>6, <2>2
    <3>2. o + 1 \in 1..W /\ (o + 1) - 1 = o /\ o \in 0..W /\ o - 1 \in 0..W /\ W \in 0..W
      BY <1>1, <2>2
    <3>3. B(o + 1) = A(o) /\ B((o + 1) - 1) = A(o - 1) /\ B(W) = A(W - 1)
      BY <1>1, <1>3, <3>2
    <3>4. A(W - 1) <= A(W) /\ A(W) \in Nat /\ A(W - 1) \in Nat /\ A(o) \in Nat
      BY <1>1, <1>2, <3>2
    <3> HIDE DEF A, B, d, u
    <3>5. /\ B(o + 1) <= Smaller(c, L) /\ B((o + 1) - 1) < Smaller(c, L)
          /\ B(W) < L + B(o + 1)
      BY <1>6, <3>3, <3>4
    <3> QED
      BY <1>6, <3>1, <3>2, <3>5, OpenedAgo DEF B
  <2> QED
    BY <2>1, <2>2
<1>7. \/ c = 0
      \/ c # 0 /\ A(W) < Smaller(c, L)
      \/ c # 0 /\ \E o \in 1..W : /\ A(o) <= Smaller(c, L) /\ A(o - 1) < Smaller(c, L)
                                  /\ A(W) < L + A(o) /\ (t > 0 => W < o + t)
  BY DEF Windowed
<1>8. Windowed(d, u, L, f)
  <2> HIDE DEF A, d, u
  <2> QED
    BY <1>5, <1>5a, <1>6, <1>7
<1> QED
  BY <1>8

\* A counter that loses its expiry.
LEMMA WindowedLost ==
  ASSUME NEW c, NEW t, NEW L, NEW g, Windowed(c, t, L, g)
  PROVE  Windowed(c, 0, L, g)
BY DEF Windowed

\* Twice the limit is out of reach.
LEMMA WindowedBound ==
  ASSUME NEW c \in Nat, NEW t, NEW L \in Nat \ {0}, NEW g \in [1..WindowTicks -> Nat],
         Windowed(c, t, L, g)
  PROVE  Admitted(g, WindowTicks) < 2 * L
<1>1. /\ \A n \in 0..WindowTicks : Admitted(g, n) \in Nat
      /\ WindowTicks \in 0..WindowTicks /\ \A o \in 1..WindowTicks : o \in 0..WindowTicks
  BY AdmittedFacts, RateLimitAssumption
<1>2. Smaller(c, L) <= L /\ Smaller(c, L) \in Nat
  BY DEF Smaller
<1>3. CASE c = 0
  BY <1>1, <1>3 DEF Windowed
<1>4. CASE Admitted(g, WindowTicks) < Smaller(c, L)
  BY <1>1, <1>2, <1>4
<1>5. ASSUME NEW o \in 1..WindowTicks, Admitted(g, o) <= Smaller(c, L),
             Admitted(g, WindowTicks) < L + Admitted(g, o)
      PROVE  Admitted(g, WindowTicks) < 2 * L
  BY <1>1, <1>2, <1>5
<1> QED
  BY <1>3, <1>4, <1>5 DEF Windowed

-----------------------------------------------------------------------------
(* All counters.                                                           *)

LEMMA PayersApart == \A b \in Buckets : b \notin Users /\ b \in Metered
BY RateLimitAssumption DEF Buckets, Metered

\* What the code charges is a function of surface and payer.
LEMMA ChargesKeyOf ==
  ASSUME NEW s \in Surfaces, NEW a \in ClientIps, NEW u \in Callers
  PROVE  /\ PayerOf(s, a, u) \in Metered /\ IsCharged(s, PayerOf(s, a, u))
         /\ LimitKey(s, a, u) = KeyOf(s, PayerOf(s, a, u))
         /\ LimitOf(s, u) = PayerLimit(s, PayerOf(s, a, u))
<1>1. Bucket[a] \in Buckets /\ Bucket[a] \notin Users
  BY RateLimitAssumption DEF Buckets
<1>2. CASE s = "shorten" /\ u # Anon
  <2>1. u \in Users
    BY <1>2 DEF Callers
  <2> QED
    BY <1>2, <2>1
    DEF PayerOf, Metered, IsCharged, LimitKey, KeyOf, LimitOf, PayerLimit, AuthSurfaces
<1>3. CASE ~(s = "shorten" /\ u # Anon)
  <2>1. PayerOf(s, a, u) = Bucket[a] /\ LimitOf(s, u) = Limit[s]
    BY <1>3 DEF PayerOf, LimitOf
  <2>2. LimitKey(s, a, u) = IF s \in AuthSurfaces THEN <<"auth", Bucket[a]>> ELSE <<s, Bucket[a]>>
    BY <1>3 DEF LimitKey
  <2> QED
    BY <1>1, <2>1, <2>2 DEF Metered, IsCharged, KeyOf, PayerLimit
<1> QED
  BY <1>2, <1>3

LEMMA KeyHasRoom ==
  ASSUME NEW s \in Surfaces, NEW p \in Metered, IsCharged(s, p)
  PROVE  /\ KeyOf(s, p) \in Keys
         /\ PayerLimit(s, p) \in Nat \ {0} /\ KeyLimit(KeyOf(s, p)) \in Nat
         /\ PayerLimit(s, p) <= KeyLimit(KeyOf(s, p))
<1>1. CASE p \in Users
  <2>1. KeyOf(s, p) = <<"shorten-user", p>> /\ PayerLimit(s, p) = UserLimit
    BY <1>1 DEF KeyOf, PayerLimit
  <2>2. KeyLimit(<<"shorten-user", p>>) = UserLimit /\ UserLimit \in Nat \ {0}
    BY RateLimitAssumption DEF KeyLimit
  <2> QED
    BY <1>1, <2>1, <2>2 DEF Keys
<1>2. CASE p \notin Users
  <2>1. p \in Buckets /\ PayerLimit(s, p) = Limit[s] /\ Limit[s] \in Nat \ {0}
    BY <1>2, RateLimitAssumption DEF Metered, PayerLimit
  <2>2. CASE s \in AuthSurfaces
    <3>1. KeyOf(s, p) = <<"auth", p>> /\ "auth" \in Surfaces /\ Limit["auth"] \in Nat
      BY <1>2, <2>2, RateLimitAssumption DEF KeyOf, AuthSurfaces
    <3>2. KeyLimit(<<"auth", p>>) =
            IF "auth-verify" \in Surfaces
            THEN IF Limit["auth"] < Limit["auth-verify"] THEN Limit["auth-verify"]
                                                         ELSE Limit["auth"]
            ELSE Limit["auth"]
      BY DEF KeyLimit
    <3>3. "auth-verify" \in Surfaces => Limit["auth-verify"] \in Nat
      BY RateLimitAssumption
    <3>4. s = "auth" \/ (s = "auth-verify" /\ "auth-verify" \in Surfaces)
      BY <2>2 DEF AuthSurfaces
    <3>5. KeyLimit(<<"auth", p>>) \in Nat /\ Limit[s] <= KeyLimit(<<"auth", p>>)
      BY <2>1, <3>1, <3>2, <3>3, <3>4
    <3> QED
      BY <2>1, <3>1, <3>5 DEF Keys
  <2>3. CASE s \notin AuthSurfaces
    <3>1. KeyOf(s, p) = <<s, p>> /\ s # "auth" /\ s # "shorten-user"
      BY <1>2, <2>3, RateLimitAssumption DEF KeyOf, AuthSurfaces
    <3>2. KeyLimit(<<s, p>>) = Limit[s]
      BY <3>1 DEF KeyLimit
    <3> QED
      BY <2>1, <3>1, <3>2 DEF Keys
  <2> QED
    BY <2>2, <2>3
<1> QED
  BY <1>1, <1>2

LEMMA AuthKeyHasRoom ==
  ASSUME AuthSurfaces \subseteq Surfaces, NEW b \in Buckets
  PROVE  /\ <<"auth", b>> \in Keys /\ KeyLimit(<<"auth", b>>) \in Nat \ {0}
         /\ KeyOf("auth", b) = <<"auth", b>> /\ KeyOf("auth-verify", b) = <<"auth", b>>
<1>1. "auth" \in Surfaces /\ IsCharged("auth", b) /\ b \in Metered /\ b \notin Users
  BY PayersApart DEF AuthSurfaces, IsCharged
<1>2. KeyOf("auth", b) = <<"auth", b>> /\ KeyOf("auth-verify", b) = <<"auth", b>>
  BY <1>1 DEF KeyOf, AuthSurfaces
<1> QED
  BY <1>1, <1>2, KeyHasRoom

LEMMA NoneAdmitted == Admitted([i \in 1..WindowTicks |-> 0], WindowTicks) = 0
<1> DEFINE None == [i \in 1..WindowTicks |-> 0]
<1>1. WindowTicks \in Nat
  BY RateLimitAssumption
<1>2. Admitted(None, WindowTicks) = 0
  <2>1. IsFiniteSet(1..WindowTicks)
    BY <1>1, FS_Interval
  <2>2. \A x \in 1..WindowTicks : None[x] \in Nat /\ None[x] = None[x] + None[x]
    OBVIOUS
  <2> HIDE DEF None
  <2>3. Sum(None, 1..WindowTicks) = Sum(None, 1..WindowTicks) + Sum(None, 1..WindowTicks)
    BY <2>1, <2>2, SumPlus
  <2>4. Sum(None, 1..WindowTicks) \in Nat
    BY <2>1, <2>2, SumNat
  <2> QED
    BY <2>3, <2>4 DEF Admitted
<1> QED
  BY <1>2

LEMMA BurstInit == LimitInit => BurstInv
<1> SUFFICES ASSUME LimitInit PROVE BurstInv
  OBVIOUS
<1> DEFINE None == [i \in 1..WindowTicks |-> 0]
<1>1. None \in [1..WindowTicks -> Nat] /\ 1 \in 1..WindowTicks /\ WindowTicks \in Nat
  BY RateLimitAssumption
<1>2. Admitted(None, WindowTicks) = 0
  BY NoneAdmitted
<1>3. ASSUME NEW L \in Nat \ {0}, NEW t PROVE Windowed(0, t, L, None)
  <2>1. None[1] = 0 /\ 0 < L
    BY <1>1
  <2> HIDE DEF None
  <2> QED
    BY <1>2, <2>1 DEF Windowed
<1>4. ASSUME NEW s \in Surfaces, NEW p \in Metered
      PROVE  IF IsCharged(s, p) THEN s # "redirect" => MeterKept(s, p)
                                ELSE recent[<<s, p>>] = None
  <2>1. recent[<<s, p>>] = None
    BY DEF LimitInit
  <2>2. CASE IsCharged(s, p)
    <3>1. count[KeyOf(s, p)] = 0 /\ PayerLimit(s, p) \in Nat \ {0}
      BY <2>2, KeyHasRoom DEF LimitInit
    <3> HIDE DEF None
    <3> QED
      BY <1>3, <2>1, <2>2, <3>1 DEF MeterKept
  <2> QED
    BY <2>1, <2>2
<1>5. ASSUME AuthSurfaces \subseteq Surfaces, NEW b \in Buckets PROVE AuthMeterKept(b)
  <2>1. Both(b) = None
    <3>1. /\ recent[<<"auth", b>>] = None /\ recent[<<"auth-verify", b>>] = None
      BY <1>5, PayersApart DEF LimitInit, AuthSurfaces
    <3> QED
      BY <3>1 DEF Both, Pairwise
  <2>2. count[<<"auth", b>>] = 0 /\ KeyLimit(<<"auth", b>>) \in Nat \ {0}
    BY <1>5, AuthKeyHasRoom DEF LimitInit
  <2> HIDE DEF None
  <2> QED
    BY <1>3, <2>1, <2>2 DEF AuthMeterKept
<1> QED
  BY <1>4, <1>5 DEF BurstInv

LEMMA RecentTyped ==
  ASSUME LimitTypeOK
  PROVE  /\ \A s \in Surfaces, p \in Metered : recent[<<s, p>>] \in [1..WindowTicks -> Nat]
         /\ \A k \in Keys : count[k] \in Nat /\ ttl[k] \in 0..WindowTicks
         /\ AuthSurfaces \subseteq Surfaces =>
              \A b \in Buckets : Both(b) \in [1..WindowTicks -> Nat]
<1>1. \A s \in Surfaces, p \in Metered : recent[<<s, p>>] \in [1..WindowTicks -> Nat]
  BY DEF LimitTypeOK
<1>2. \A k \in Keys : count[k] \in Nat /\ ttl[k] \in 0..WindowTicks
  BY DEF LimitTypeOK
<1>3. ASSUME AuthSurfaces \subseteq Surfaces, NEW b \in Buckets
      PROVE  Both(b) \in [1..WindowTicks -> Nat]
  <2>1. /\ recent[<<"auth", b>>] \in [1..WindowTicks -> Nat]
        /\ recent[<<"auth-verify", b>>] \in [1..WindowTicks -> Nat]
    BY <1>1, <1>3, PayersApart DEF AuthSurfaces
  <2>2. ASSUME NEW g \in [1..WindowTicks -> Nat], NEW h \in [1..WindowTicks -> Nat]
        PROVE  [i \in 1..WindowTicks |-> g[i] + h[i]] \in [1..WindowTicks -> Nat]
    <3>1. \A i \in 1..WindowTicks : g[i] + h[i] \in Nat
      <4>1. \A i \in 1..WindowTicks : g[i] \in Nat /\ h[i] \in Nat
        OBVIOUS
      <4> QED
        BY <4>1
    <3> QED
      BY <3>1
  <2> QED
    BY <2>1, <2>2 DEF Both, Pairwise
<1> QED
  BY <1>1, <1>2, <1>3

LEMMA BumpOf ==
  ASSUME NEW S, NEW F \in [S -> [1..WindowTicks -> Nat]], NEW m \in S, NEW x \in S
  PROVE  [F EXCEPT ![m][1] = @ + 1][x] = IF x = m THEN [F[x] EXCEPT ![1] = @ + 1] ELSE F[x]
OBVIOUS

\* An admission changes one surface's count for one payer, in the first tick.
LEMMA AdmitEffect ==
  ASSUME LimitTypeOK, NEW s \in Surfaces, NEW a \in ClientIps, NEW u \in Callers,
         Admit(s, a, u), NEW r \in Surfaces, NEW p \in Metered
  PROVE  recent'[<<r, p>>] = IF r = s /\ p = PayerOf(s, a, u)
                             THEN [recent[<<r, p>>] EXCEPT ![1] = @ + 1]
                             ELSE recent[<<r, p>>]
<1> DEFINE P == PayerOf(s, a, u)
<1>1. P \in Metered /\ recent \in [Surfaces \X Metered -> [1..WindowTicks -> Nat]]
  BY ChargesKeyOf DEF LimitTypeOK
<1>2. recent' = [recent EXCEPT ![<<s, P>>][1] = @ + 1]
  BY DEF Admit
<1> HIDE DEF P
<1> DEFINE m == <<s, P>>
           x == <<r, p>>
<1>3. m \in Surfaces \X Metered /\ x \in Surfaces \X Metered
      /\ (x = m <=> r = s /\ p = P)
  BY <1>1
<1>4. recent'[x] = IF x = m THEN [recent[x] EXCEPT ![1] = @ + 1] ELSE recent[x]
  <2> HIDE DEF m, x
  <2>1. recent' = [recent EXCEPT ![m][1] = @ + 1]
    BY <1>2 DEF m
  <2> QED
    BY <1>1, <1>3, <2>1, BumpOf
<1> QED
  BY <1>3, <1>4 DEF P

LEMMA OneSideMore ==
  ASSUME 1 \in 1..WindowTicks, NEW g \in [1..WindowTicks -> Nat],
         NEW h \in [1..WindowTicks -> Nat], NEW f, f = [g EXCEPT ![1] = @ + 1]
  PROVE  Pairwise(f, h) = [Pairwise(g, h) EXCEPT ![1] = @ + 1]
<1>1. \A i \in 1..WindowTicks : f[i] = IF i = 1 THEN g[1] + 1 ELSE g[i]
  OBVIOUS
<1>2. \A i \in 1..WindowTicks : g[i] \in Nat /\ h[i] \in Nat
  OBVIOUS
<1>3. \A i \in 1..WindowTicks : f[i] + h[i] = IF i = 1 THEN (g[1] + h[1]) + 1 ELSE g[i] + h[i]
  BY <1>1, <1>2
<1> QED
  BY <1>3 DEF Pairwise

LEMMA EitherSide ==
  ASSUME NEW g, NEW h, \A i \in 1..WindowTicks : g[i] \in Nat /\ h[i] \in Nat
  PROVE  Pairwise(g, h) = Pairwise(h, g)
<1>1. \A i \in 1..WindowTicks : g[i] + h[i] = h[i] + g[i]
  OBVIOUS
<1> QED
  BY <1>1 DEF Pairwise

LEMMA BurstHit ==
  ASSUME LimitTypeOK, BurstInv,
         NEW s \in Surfaces, NEW a \in ClientIps, NEW u \in Callers, Hit(s, a, u)
  PROVE  BurstInv'
<1> DEFINE K == LimitKey(s, a, u)
           P == PayerOf(s, a, u)
<1>1. /\ count' = [count EXCEPT ![K] = IF count[K] + 1 > KeyLimit(K) THEN KeyLimit(K) + 1
                                                                   ELSE count[K] + 1]
      /\ ttl' = [ttl EXCEPT ![K] = TtlAfterHit(K)]
      /\ (count[K] + 1 <= LimitOf(s, u) /\ Admit(s, a, u)) \/ UNCHANGED recent
  BY ClientIpIsTheirs DEF Hit
<1>2. /\ P \in Metered /\ IsCharged(s, P) /\ K = KeyOf(s, P)
      /\ LimitOf(s, u) = PayerLimit(s, P)
  BY ChargesKeyOf
<1>3. /\ K \in Keys /\ PayerLimit(s, P) \in Nat \ {0} /\ KeyLimit(K) \in Nat
      /\ PayerLimit(s, P) <= KeyLimit(K)
  BY <1>2, KeyHasRoom
<1>4. ASSUME NEW r \in Surfaces, NEW p \in Metered
      PROVE  \/ recent'[<<r, p>>] = recent[<<r, p>>]
             \/ /\ r = s /\ p = P /\ count[K] + 1 <= PayerLimit(s, P)
                /\ recent'[<<r, p>>] = [recent[<<r, p>>] EXCEPT ![1] = @ + 1]
  BY <1>1, <1>2, AdmitEffect
<1>5. /\ count'[K] = IF count[K] + 1 > KeyLimit(K) THEN KeyLimit(K) + 1 ELSE count[K] + 1
      /\ ttl'[K] = IF count[K] = 0 \/ ttl[K] = 0 THEN WindowTicks ELSE ttl[K]
      /\ \A k \in Keys \ {K} : count'[k] = count[k] /\ ttl'[k] = ttl[k]
      /\ count[K] \in Nat /\ ttl[K] \in 0..WindowTicks
  BY <1>1, <1>3 DEF LimitTypeOK, TtlAfterHit
<1>6. /\ \A r \in Surfaces, p \in Metered : recent[<<r, p>>] \in [1..WindowTicks -> Nat]
      /\ 1 \in 1..WindowTicks
  <2>1. 1 \in 1..WindowTicks
    BY RateLimitAssumption
  <2> QED
    BY <2>1, RecentTyped
<1> HIDE DEF K, P
<1>7. ASSUME NEW L \in Nat \ {0}, L <= KeyLimit(K),
             NEW g \in [1..WindowTicks -> Nat], NEW f, Windowed(count[K], ttl[K], L, g),
             f = g \/ (count[K] + 1 <= L /\ f = [g EXCEPT ![1] = @ + 1])
      PROVE  Windowed(count'[K], ttl'[K], L, f)
  <2>1. f \in [1..WindowTicks -> Nat]
    <3>1. g[1] + 1 \in Nat
      BY <1>6
    <3> QED
      BY <1>6, <1>7, <3>1
  <2> DEFINE c == count[K]
             t == ttl[K]
             M == KeyLimit(K)
  <2>2. /\ c \in Nat /\ t \in 0..WindowTicks /\ M \in Nat /\ L <= M
        /\ Windowed(c, t, L, g) /\ (f = g \/ (c + 1 <= L /\ f = [g EXCEPT ![1] = @ + 1]))
        /\ count'[K] = IF c + 1 > M THEN M + 1 ELSE c + 1
        /\ ttl'[K] = IF c = 0 \/ t = 0 THEN WindowTicks ELSE t
    BY <1>3, <1>5, <1>7
  <2> HIDE DEF c, t, M
  <2>3. Windowed(IF c + 1 > M THEN M + 1 ELSE c + 1,
                 IF c = 0 \/ t = 0 THEN WindowTicks ELSE t, L, f)
    BY <2>1, <2>2, WindowedHit
  <2> QED
    BY <2>2, <2>3
<1>8. ASSUME NEW r \in Surfaces, NEW p \in Metered
      PROVE  IF IsCharged(r, p) THEN r # "redirect" => MeterKept(r, p)'
                                ELSE recent'[<<r, p>>] = [i \in 1..WindowTicks |-> 0]
  <2>1. CASE ~IsCharged(r, p)
    <3>1. ~(r = s /\ p = P)
      BY <1>2, <2>1
    <3>2. recent'[<<r, p>>] = recent[<<r, p>>]
      BY <1>4, <3>1
    <3> QED
      BY <2>1, <3>2 DEF BurstInv
  <2>2. CASE IsCharged(r, p) /\ r # "redirect"
    <3> DEFINE k == KeyOf(r, p)
    <3>1. /\ Windowed(count[k], ttl[k], PayerLimit(r, p), recent[<<r, p>>])
          /\ k \in Keys /\ PayerLimit(r, p) \in Nat \ {0} /\ PayerLimit(r, p) <= KeyLimit(k)
      BY <2>2, KeyHasRoom DEF BurstInv, MeterKept
    <3>2. SUFFICES Windowed(count'[k], ttl'[k], PayerLimit(r, p), recent'[<<r, p>>])
      BY <2>2 DEF MeterKept, KeyOf, PayerLimit
    <3>3. CASE k = K
      <4>1. \/ recent'[<<r, p>>] = recent[<<r, p>>]
            \/ /\ count[K] + 1 <= PayerLimit(r, p)
               /\ recent'[<<r, p>>] = [recent[<<r, p>>] EXCEPT ![1] = @ + 1]
        BY <1>4
      <4> HIDE DEF k
      <4> QED
        BY <1>6, <1>7, <3>1, <3>3, <4>1
    <3>4. CASE k # K
      <4>1. recent'[<<r, p>>] = recent[<<r, p>>]
        BY <1>2, <1>4, <3>4
      <4> HIDE DEF k
      <4> QED
        BY <1>5, <3>1, <3>4, <4>1
    <3> QED
      BY <3>3, <3>4
  <2> QED
    BY <2>1, <2>2
<1>9. ASSUME AuthSurfaces \subseteq Surfaces, NEW b \in Buckets PROVE AuthMeterKept(b)'
  <2> DEFINE k == <<"auth", b>>
             f == Pairwise(recent'[<<"auth", b>>], recent'[<<"auth-verify", b>>])
  <2>1. /\ Windowed(count[k], ttl[k], KeyLimit(k), Both(b))
        /\ k \in Keys /\ KeyLimit(k) \in Nat \ {0}
        /\ KeyOf("auth", b) = k /\ KeyOf("auth-verify", b) = k
    BY <1>9, AuthKeyHasRoom DEF BurstInv, AuthMeterKept
  <2>2. SUFFICES Windowed(count'[k], ttl'[k], KeyLimit(k), f)
    BY DEF AuthMeterKept, KeyLimit, Both, Pairwise
  <2>3. /\ "auth" \in Surfaces /\ "auth-verify" \in Surfaces /\ b \in Metered
        /\ Both(b) \in [1..WindowTicks -> Nat]
        /\ recent[<<"auth", b>>] \in [1..WindowTicks -> Nat]
        /\ recent[<<"auth-verify", b>>] \in [1..WindowTicks -> Nat]
    BY <1>9, PayersApart, RecentTyped DEF AuthSurfaces
  <2>4. \/ /\ recent'[<<"auth", b>>] = recent[<<"auth", b>>]
           /\ recent'[<<"auth-verify", b>>] = recent[<<"auth-verify", b>>]
        \/ /\ k = K /\ count[K] + 1 <= PayerLimit(s, P)
           /\ \/ /\ recent'[<<"auth", b>>] = [recent[<<"auth", b>>] EXCEPT ![1] = @ + 1]
                 /\ recent'[<<"auth-verify", b>>] = recent[<<"auth-verify", b>>]
              \/ /\ recent'[<<"auth-verify", b>>] =
                      [recent[<<"auth-verify", b>>] EXCEPT ![1] = @ + 1]
                 /\ recent'[<<"auth", b>>] = recent[<<"auth", b>>]
    <3>1. \/ recent'[<<"auth", b>>] = recent[<<"auth", b>>]
          \/ /\ "auth" = s /\ b = P /\ count[K] + 1 <= PayerLimit(s, P)
             /\ recent'[<<"auth", b>>] = [recent[<<"auth", b>>] EXCEPT ![1] = @ + 1]
      BY <1>4, <2>3
    <3>2. \/ recent'[<<"auth-verify", b>>] = recent[<<"auth-verify", b>>]
          \/ /\ "auth-verify" = s /\ b = P /\ count[K] + 1 <= PayerLimit(s, P)
             /\ recent'[<<"auth-verify", b>>] =
                  [recent[<<"auth-verify", b>>] EXCEPT ![1] = @ + 1]
      BY <1>4, <2>3
    <3>3. b = P /\ (s = "auth" \/ s = "auth-verify") => k = K
      BY <1>2, <2>1
    <3> QED
      BY <3>1, <3>2, <3>3
  <2>5. f = Both(b) \/ (k = K /\ count[K] + 1 <= KeyLimit(K) /\ f = [Both(b) EXCEPT ![1] = @ + 1])
    <3>1. ASSUME recent'[<<"auth", b>>] = recent[<<"auth", b>>],
                 recent'[<<"auth-verify", b>>] = recent[<<"auth-verify", b>>]
          PROVE  f = Both(b)
      BY <3>1 DEF Both
    <3>2. ASSUME recent'[<<"auth", b>>] = [recent[<<"auth", b>>] EXCEPT ![1] = @ + 1],
                 recent'[<<"auth-verify", b>>] = recent[<<"auth-verify", b>>]
          PROVE  f = [Both(b) EXCEPT ![1] = @ + 1]
      <4> DEFINE g == recent[<<"auth", b>>]
                 h == recent[<<"auth-verify", b>>]
                 e == recent'[<<"auth", b>>]
      <4>1. /\ g \in [1..WindowTicks -> Nat] /\ h \in [1..WindowTicks -> Nat]
            /\ e = [g EXCEPT ![1] = @ + 1] /\ 1 \in 1..WindowTicks
        BY <1>6, <2>3, <3>2
      <4>2. f = Pairwise(e, h) /\ Both(b) = Pairwise(g, h)
        BY <3>2 DEF Both
      <4> HIDE DEF e, f, g, h
      <4>3. Pairwise(e, h) = [Pairwise(g, h) EXCEPT ![1] = @ + 1]
        BY <4>1, OneSideMore
      <4> QED
        BY <4>2, <4>3
    <3>3. ASSUME recent'[<<"auth-verify", b>>] =
                   [recent[<<"auth-verify", b>>] EXCEPT ![1] = @ + 1],
                 recent'[<<"auth", b>>] = recent[<<"auth", b>>]
          PROVE  f = [Both(b) EXCEPT ![1] = @ + 1]
      <4> DEFINE g == recent[<<"auth-verify", b>>]
                 h == recent[<<"auth", b>>]
                 e == recent'[<<"auth-verify", b>>]
      <4>1. /\ g \in [1..WindowTicks -> Nat] /\ h \in [1..WindowTicks -> Nat]
            /\ e = [g EXCEPT ![1] = @ + 1] /\ 1 \in 1..WindowTicks
        BY <1>6, <2>3, <3>3
      <4>2. f = Pairwise(h, e) /\ Both(b) = Pairwise(h, g)
        BY <3>3 DEF Both
      <4> HIDE DEF e, f, g, h
      <4>3. \A i \in 1..WindowTicks : g[i] \in Nat /\ h[i] \in Nat /\ e[i] \in Nat
        BY <4>1
      <4>4. Pairwise(h, e) = Pairwise(e, h) /\ Pairwise(h, g) = Pairwise(g, h)
        BY <4>3, EitherSide
      <4>5. Pairwise(e, h) = [Pairwise(g, h) EXCEPT ![1] = @ + 1]
        BY <4>1, OneSideMore
      <4> QED
        BY <4>2, <4>4, <4>5
    <3>4. count[K] + 1 <= PayerLimit(s, P) => count[K] + 1 <= KeyLimit(K)
      <4>1. PayerLimit(s, P) \in Nat /\ KeyLimit(K) \in Nat /\ count[K] \in Nat
            /\ PayerLimit(s, P) <= KeyLimit(K)
        BY <1>3, <1>5
      <4> QED
        BY <4>1
    <3> HIDE DEF f, k
    <3> QED
      BY <2>4, <3>1, <3>2, <3>3, <3>4
  <2> HIDE DEF f
  <2>6. CASE k = K
    <3>1. KeyLimit(K) \in Nat \ {0} /\ KeyLimit(K) <= KeyLimit(K)
      BY <2>1, <2>6
    <3> HIDE DEF k
    <3> QED
      BY <1>7, <2>1, <2>3, <2>5, <2>6, <3>1
  <2>7. CASE k # K
    <3> HIDE DEF k
    <3> QED
      BY <1>5, <2>1, <2>5, <2>7
  <2> QED
    BY <2>6, <2>7
<1> QED
  BY <1>8, <1>9 DEF BurstInv

LEMMA BurstTick ==
  ASSUME LimitTypeOK, BurstInv, Tick
  PROVE  BurstInv'
<1>1. /\ \A k \in Keys : /\ count'[k] = IF ttl[k] = 1 THEN 0 ELSE count[k]
                         /\ ttl'[k] = IF ttl[k] = 0 THEN 0 ELSE ttl[k] - 1
                         /\ count[k] \in Nat /\ ttl[k] \in 0..WindowTicks
      /\ WindowTicks \in Nat
  BY RecentTyped, RateLimitAssumption DEF Tick
<1>2. ASSUME NEW r \in Surfaces, NEW p \in Metered
      PROVE  /\ recent[<<r, p>>] \in [1..WindowTicks -> Nat]
             /\ recent'[<<r, p>>] = [i \in 1..WindowTicks |->
                                      IF i = 1 THEN 0 ELSE recent[<<r, p>>][i - 1]]
  BY RecentTyped DEF Tick
<1>3. ASSUME NEW g \in [1..WindowTicks -> Nat], NEW f,
             f = [i \in 1..WindowTicks |-> IF i = 1 THEN 0 ELSE g[i - 1]]
      PROVE  f \in [1..WindowTicks -> Nat] /\ Shifted(f, g, WindowTicks)
  <2>1. \A i \in 1..WindowTicks : f[i] = IF i = 1 THEN 0 ELSE g[i - 1]
    BY <1>3
  <2>2. \A i \in 1..WindowTicks : f[i] \in Nat
    BY <1>1, <2>1
  <2> QED
    BY <1>3, <2>1, <2>2 DEF Shifted
<1>4. ASSUME NEW k \in Keys, NEW L \in Nat \ {0}, NEW g \in [1..WindowTicks -> Nat],
             NEW f \in [1..WindowTicks -> Nat], Shifted(f, g, WindowTicks),
             Windowed(count[k], ttl[k], L, g)
      PROVE  Windowed(count'[k], ttl'[k], L, f)
  <2> DEFINE c == count[k]
             t == ttl[k]
  <2>1. /\ c \in Nat /\ t \in 0..WindowTicks /\ Windowed(c, t, L, g)
        /\ count'[k] = IF t = 1 THEN 0 ELSE c
        /\ ttl'[k] = IF t = 0 THEN 0 ELSE t - 1
    BY <1>1, <1>4
  <2> HIDE DEF c, t
  <2>2. Windowed(IF t = 1 THEN 0 ELSE c, IF t = 0 THEN 0 ELSE t - 1, L, f)
    BY <1>4, <2>1, WindowedTick
  <2> QED
    BY <2>1, <2>2
<1>5. ASSUME NEW r \in Surfaces, NEW p \in Metered
      PROVE  IF IsCharged(r, p) THEN r # "redirect" => MeterKept(r, p)'
                                ELSE recent'[<<r, p>>] = [i \in 1..WindowTicks |-> 0]
  <2>1. CASE ~IsCharged(r, p)
    <3>1. recent[<<r, p>>] = [i \in 1..WindowTicks |-> 0]
      BY <2>1 DEF BurstInv
    <3>2. \A i \in 1..WindowTicks : (IF i = 1 THEN 0 ELSE recent[<<r, p>>][i - 1]) = 0
      BY <1>1, <3>1
    <3> QED
      BY <1>2, <2>1, <3>2
  <2>2. CASE IsCharged(r, p) /\ r # "redirect"
    <3> DEFINE k == KeyOf(r, p)
               g == recent[<<r, p>>]
               f == recent'[<<r, p>>]
               L == PayerLimit(r, p)
    <3>1. /\ Windowed(count[k], ttl[k], L, g)
          /\ k \in Keys /\ L \in Nat \ {0}
      BY <2>2, KeyHasRoom DEF BurstInv, MeterKept
    <3>2. SUFFICES Windowed(count'[k], ttl'[k], L, f)
      BY <2>2 DEF MeterKept, KeyOf, PayerLimit
    <3>3. /\ g \in [1..WindowTicks -> Nat]
          /\ f = [i \in 1..WindowTicks |-> IF i = 1 THEN 0 ELSE g[i - 1]]
      BY <1>2
    <3> HIDE DEF k, g, f, L
    <3>4. f \in [1..WindowTicks -> Nat] /\ Shifted(f, g, WindowTicks)
      BY <1>3, <3>3
    <3> QED
      BY <1>4, <3>1, <3>3, <3>4
  <2> QED
    BY <2>1, <2>2
<1>6. ASSUME AuthSurfaces \subseteq Surfaces, NEW b \in Buckets PROVE AuthMeterKept(b)'
  <2> DEFINE k == <<"auth", b>>
             g == Both(b)
             f == Pairwise(recent'[<<"auth", b>>], recent'[<<"auth-verify", b>>])
             L == KeyLimit(k)
  <2>1. /\ Windowed(count[k], ttl[k], L, g) /\ k \in Keys /\ L \in Nat \ {0}
        /\ g \in [1..WindowTicks -> Nat]
    BY <1>6, AuthKeyHasRoom, RecentTyped DEF BurstInv, AuthMeterKept
  <2>2. SUFFICES Windowed(count'[k], ttl'[k], L, f)
    BY DEF AuthMeterKept, KeyLimit, Both, Pairwise
  <2>3. "auth" \in Surfaces /\ "auth-verify" \in Surfaces /\ b \in Metered
    BY <1>6, PayersApart DEF AuthSurfaces
  <2>4. \A i \in 1..WindowTicks : f[i] = IF i = 1 THEN 0 ELSE g[i - 1]
    <3> SUFFICES ASSUME NEW i \in 1..WindowTicks PROVE f[i] = IF i = 1 THEN 0 ELSE g[i - 1]
      OBVIOUS
    <3>1. /\ recent'[<<"auth", b>>][i] = IF i = 1 THEN 0 ELSE recent[<<"auth", b>>][i - 1]
          /\ recent'[<<"auth-verify", b>>][i] =
               IF i = 1 THEN 0 ELSE recent[<<"auth-verify", b>>][i - 1]
      <4>1. /\ recent'[<<"auth", b>>] = [j \in 1..WindowTicks |->
                                         IF j = 1 THEN 0 ELSE recent[<<"auth", b>>][j - 1]]
            /\ recent'[<<"auth-verify", b>>] = [j \in 1..WindowTicks |->
                                 IF j = 1 THEN 0 ELSE recent[<<"auth-verify", b>>][j - 1]]
        BY <1>2, <2>3
      <4> QED
        BY <4>1
    <3>2. f[i] = recent'[<<"auth", b>>][i] + recent'[<<"auth-verify", b>>][i]
      BY DEF Pairwise
    <3>3. i # 1 => i - 1 \in 1..WindowTicks
      BY <1>1
    <3>4. i # 1 => g[i - 1] = recent[<<"auth", b>>][i - 1] + recent[<<"auth-verify", b>>][i - 1]
      BY <3>3 DEF Both, Pairwise
    <3> HIDE DEF f, g
    <3> QED
      BY <3>1, <3>2, <3>4
  <2>5. f = [i \in 1..WindowTicks |-> IF i = 1 THEN 0 ELSE g[i - 1]]
    <3>1. f = [i \in 1..WindowTicks |-> f[i]]
      BY DEF Pairwise
    <3> HIDE DEF f, g
    <3> QED
      BY <2>4, <3>1
  <2> HIDE DEF k, f, g, L
  <2>6. f \in [1..WindowTicks -> Nat] /\ Shifted(f, g, WindowTicks)
    BY <1>3, <2>1, <2>5
  <2> QED
    BY <1>4, <2>1, <2>6
<1> QED
  BY <1>5, <1>6 DEF BurstInv

LEMMA BurstLost ==
  ASSUME LimitTypeOK, BurstInv, NEW x \in Keys, LosesExpiry(x)
  PROVE  BurstInv'
<1>1. /\ UNCHANGED <<count, recent>>
      /\ \A k \in Keys : ttl'[k] = ttl[k] \/ ttl'[k] = 0
  BY DEF LosesExpiry, LimitTypeOK
<1>2. ASSUME NEW k \in Keys, NEW L, NEW g, Windowed(count[k], ttl[k], L, g)
      PROVE  Windowed(count'[k], ttl'[k], L, g)
  BY <1>1, <1>2, WindowedLost
<1>3. ASSUME NEW r \in Surfaces, NEW p \in Metered
      PROVE  IF IsCharged(r, p) THEN r # "redirect" => MeterKept(r, p)'
                                ELSE recent'[<<r, p>>] = [i \in 1..WindowTicks |-> 0]
  <2>1. CASE ~IsCharged(r, p)
    BY <1>1, <2>1 DEF BurstInv
  <2>2. CASE IsCharged(r, p) /\ r # "redirect"
    <3> DEFINE k == KeyOf(r, p)
               g == recent[<<r, p>>]
               L == PayerLimit(r, p)
    <3>1. Windowed(count[k], ttl[k], L, g) /\ k \in Keys
      BY <2>2, KeyHasRoom DEF BurstInv, MeterKept
    <3>2. SUFFICES Windowed(count'[k], ttl'[k], L, g)
      BY <1>1, <2>2 DEF MeterKept, KeyOf, PayerLimit
    <3> HIDE DEF k, g, L
    <3> QED
      BY <1>2, <3>1
  <2> QED
    BY <2>1, <2>2
<1>4. ASSUME AuthSurfaces \subseteq Surfaces, NEW b \in Buckets PROVE AuthMeterKept(b)'
  <2> DEFINE k == <<"auth", b>>
             g == Both(b)
             L == KeyLimit(k)
  <2>1. Windowed(count[k], ttl[k], L, g) /\ k \in Keys
    BY <1>4, AuthKeyHasRoom DEF BurstInv, AuthMeterKept
  <2>2. SUFFICES Windowed(count'[k], ttl'[k], L, g)
    BY <1>1 DEF AuthMeterKept, KeyLimit, Both, Pairwise
  <2> HIDE DEF k, g, L
  <2> QED
    BY <1>2, <2>1
<1> QED
  BY <1>3, <1>4 DEF BurstInv

\* Without Redis only the redirect path admits, and it is not measured.
LEMMA BurstWithoutRedis ==
  ASSUME LimitTypeOK, BurstInv,
         NEW s \in Surfaces, NEW a \in ClientIps, NEW u \in Callers, HitWithoutRedis(s, a, u)
  PROVE  BurstInv'
<1>1. UNCHANGED <<count, ttl>> /\ ((s = "redirect" /\ Admit(s, a, u)) \/ UNCHANGED recent)
  BY DEF HitWithoutRedis, FailsOpen
<1>2. IsCharged(s, PayerOf(s, a, u))
  BY ChargesKeyOf
<1>3. ASSUME NEW r \in Surfaces, NEW p \in Metered, ~IsCharged(r, p) \/ r # "redirect"
      PROVE  recent'[<<r, p>>] = recent[<<r, p>>]
  <2>1. CASE UNCHANGED recent
    BY <2>1
  <2>2. CASE s = "redirect" /\ Admit(s, a, u)
    <3>1. ~(r = s /\ p = PayerOf(s, a, u))
      BY <1>2, <1>3, <2>2
    <3>2. recent'[<<r, p>>] = IF r = s /\ p = PayerOf(s, a, u)
                              THEN [recent[<<r, p>>] EXCEPT ![1] = @ + 1]
                              ELSE recent[<<r, p>>]
      <4>1. Admit(s, a, u)
        BY <2>2
      <4> QED
        BY <4>1, AdmitEffect
    <3> QED
      BY <3>1, <3>2
  <2> QED
    BY <1>1, <2>1, <2>2
<1>4. ASSUME NEW r \in Surfaces, NEW p \in Metered
      PROVE  IF IsCharged(r, p) THEN r # "redirect" => MeterKept(r, p)'
                                ELSE recent'[<<r, p>>] = [i \in 1..WindowTicks |-> 0]
  <2>1. CASE ~IsCharged(r, p)
    BY <1>3, <2>1 DEF BurstInv
  <2>2. CASE IsCharged(r, p) /\ r # "redirect"
    <3>1. recent'[<<r, p>>] = recent[<<r, p>>] /\ MeterKept(r, p)
      BY <1>3, <2>2 DEF BurstInv
    <3> QED
      BY <1>1, <2>2, <3>1 DEF MeterKept, KeyOf, PayerLimit
  <2> QED
    BY <2>1, <2>2
<1>5. ASSUME AuthSurfaces \subseteq Surfaces, NEW b \in Buckets PROVE AuthMeterKept(b)'
  <2>1. /\ recent'[<<"auth", b>>] = recent[<<"auth", b>>]
        /\ recent'[<<"auth-verify", b>>] = recent[<<"auth-verify", b>>]
    BY <1>3, <1>5, PayersApart DEF AuthSurfaces
  <2>2. AuthMeterKept(b)
    BY <1>5 DEF BurstInv
  <2> QED
    BY <1>1, <2>1, <2>2 DEF AuthMeterKept, KeyLimit, Both, Pairwise
<1> QED
  BY <1>4, <1>5 DEF BurstInv

LEMMA BurstNext ==
  ASSUME LimitTypeOK, BurstInv, [LimitNext]_limitVars
  PROVE  BurstInv'
<1>1. ASSUME NEW s \in Surfaces, NEW a \in ClientIps, NEW u \in Callers, Hit(s, a, u)
      PROVE  BurstInv'
  BY <1>1, BurstHit
<1>2. ASSUME NEW s \in Surfaces, NEW a \in ClientIps, NEW u \in Callers, HitWithoutRedis(s, a, u)
      PROVE  BurstInv'
  BY <1>2, BurstWithoutRedis
<1>3. CASE Tick
  BY <1>3, BurstTick
<1>4. ASSUME NEW k \in Keys, LosesExpiry(k) PROVE BurstInv'
  BY <1>4, BurstLost
<1>5. CASE UNCHANGED <<count, ttl, recent>>
  BY <1>5 DEF BurstInv, MeterKept, AuthMeterKept, Both, Pairwise, KeyOf, PayerLimit, IsCharged, KeyLimit
<1>6. CASE RedisToggles \/ UNCHANGED limitVars
  BY <1>5, <1>6 DEF RedisToggles, limitVars
<1> QED
  BY <1>1, <1>2, <1>3, <1>4, <1>6 DEF LimitNext

\* Nobody exceeds twice the limit at any time.
LEMMA BurstInvBounds ==
  ASSUME LimitTypeOK, BurstInv
  PROVE  BurstBound
<1> DEFINE None == [i \in 1..WindowTicks |-> 0]
<1>1. WindowTicks \in Nat /\ WindowTicks \in 0..WindowTicks
  BY RateLimitAssumption
<1>2. ASSUME NEW g \in [1..WindowTicks -> Nat]
      PROVE  SumFunction(g) = Admitted(g, WindowTicks)
  BY DOMAIN g = 1..WindowTicks DEF SumFunction, Admitted, Sum, FoldFunction
<1>3. ASSUME NEW s \in Surfaces, NEW p \in Metered, s # "redirect"
      PROVE  RecentSum(s, p) < 2 * PayerLimit(s, p)
  <2>1. /\ recent[<<s, p>>] \in [1..WindowTicks -> Nat]
        /\ RecentSum(s, p) = Admitted(recent[<<s, p>>], WindowTicks)
    BY <1>2, RecentTyped DEF RecentSum
  <2>2. CASE IsCharged(s, p)
    <3> DEFINE k == KeyOf(s, p)
               g == recent[<<s, p>>]
               L == PayerLimit(s, p)
    <3>1. /\ Windowed(count[k], ttl[k], L, g) /\ count[k] \in Nat /\ L \in Nat \ {0}
      BY <1>3, <2>2, KeyHasRoom, RecentTyped DEF BurstInv, MeterKept
    <3>2. Admitted(g, WindowTicks) < 2 * L
      <4> HIDE DEF k, L, g
      <4>1. g \in [1..WindowTicks -> Nat]
        BY <2>1 DEF g
      <4> QED
        BY <3>1, <4>1, WindowedBound
    <3> QED
      BY <2>1, <3>2
  <2>3. CASE ~IsCharged(s, p)
    <3>1. recent[<<s, p>>] = None /\ p \in Users
      BY <2>3 DEF BurstInv, IsCharged, Metered
    <3>2. Admitted(None, WindowTicks) = 0
      BY NoneAdmitted
    <3>3. PayerLimit(s, p) \in Nat \ {0}
      BY <3>1, RateLimitAssumption DEF PayerLimit
    <3> HIDE DEF None
    <3> QED
      BY <2>1, <3>1, <3>2, <3>3
  <2> QED
    BY <2>2, <2>3
<1>4. ASSUME AuthSurfaces \subseteq Surfaces, NEW b \in Buckets
      PROVE  RecentSum("auth", b) + RecentSum("auth-verify", b) < 2 * KeyLimit(<<"auth", b>>)
  <2> DEFINE g == recent[<<"auth", b>>]
             h == recent[<<"auth-verify", b>>]
             k == <<"auth", b>>
             L == KeyLimit(k)
  <2>1. "auth" \in Surfaces /\ "auth-verify" \in Surfaces /\ b \in Metered
    BY <1>4, PayersApart DEF AuthSurfaces
  <2>2. /\ g \in [1..WindowTicks -> Nat] /\ h \in [1..WindowTicks -> Nat]
        /\ RecentSum("auth", b) = Admitted(g, WindowTicks)
        /\ RecentSum("auth-verify", b) = Admitted(h, WindowTicks)
    BY <1>2, <2>1, RecentTyped DEF RecentSum
  <2>3. /\ Both(b) = Pairwise(g, h) /\ Both(b) \in [1..WindowTicks -> Nat]
        /\ Windowed(count[k], ttl[k], L, Both(b)) /\ count[k] \in Nat /\ L \in Nat \ {0}
    BY <1>4, AuthKeyHasRoom, RecentTyped DEF BurstInv, AuthMeterKept, Both
  <2>4. Admitted(Both(b), WindowTicks) < 2 * L
    <3> HIDE DEF g, h, k, L
    <3> QED
      BY <2>3, WindowedBound
  <2>5. Admitted(Both(b), WindowTicks) = Admitted(g, WindowTicks) + Admitted(h, WindowTicks)
    <3> HIDE DEF g, h, k, L
    <3>1. IsFiniteSet(1..WindowTicks)
      BY <1>1, FS_Interval
    <3>2. \A i \in 1..WindowTicks : /\ g[i] \in Nat /\ h[i] \in Nat
                                   /\ Both(b)[i] = g[i] + h[i]
      BY <2>2, <2>3 DEF Pairwise
    <3> QED
      BY <3>1, <3>2, SumPlus DEF Admitted
  <2> QED
    BY <2>2, <2>4, <2>5
<1> QED
  BY <1>3, <1>4 DEF BurstBound

\* Bursts: however they are timed, a fail-closed surface admits less than twice
\* its limit in any stretch of one window's length, for each payer, and the two
\* auth surfaces less than twice the larger one together.
THEOREM BurstBoundHolds == LimitSpec => []BurstBound
<1>1. LimitTypeOK /\ BurstInv /\ [LimitNext]_limitVars => BurstInv'
  BY BurstNext
<1>2. LimitSpec => []LimitTypeOK
  BY LimitTypeCorrect
<1>3. LimitInit => BurstInv
  BY BurstInit
<1>4. LimitSpec => []BurstInv
  BY <1>1, <1>2, <1>3, PTL DEF LimitSpec
<1>5. LimitTypeOK /\ BurstInv => BurstBound
  BY BurstInvBounds
<1> QED
  BY <1>2, <1>4, <1>5, PTL

-----------------------------------------------------------------------------
(* The answers the proxy stores.                                           *)

Upstreams == [at : {"upstream"}, who : Askers]
Replies == [at : {"reply"}, kind : Storable, from : Views, age : 0..1]
Entries == [kind : Storable, from : Views, age : 0..MaxAge, held : 0..MaxAge,
            idle : 0..InactiveTicks]

\* The application gave that answer, of that view, to somebody who did not say
\* who he was; or nobody answered.
GivenToAnyone(kind, v) ==
  \/ kind = "5xx"
  \/ \E who \in Askers : ~who.signed /\ kind \in AppAnswers(v, who)

RepliesGiven ==
  \A r \in Requests : ask[r].at = "reply" => GivenToAnyone(ask[r].kind, ask[r].from)

\* An answer is stored a tick after it was made at most.
EntryGiven ==
  entry # NoEntry => /\ GivenToAnyone(entry.kind, entry.from)
                     /\ entry.age <= entry.held + 1

EdgeInv == EdgeTypeOK /\ RepliesGiven /\ EntryGiven

-----------------------------------------------------------------------------
LEMMA EdgeTypes ==
  EdgeTypeOK <=> /\ view \in Views
                 /\ entry \in Entries \cup {NoEntry}
                 /\ ask \in [Requests -> Upstreams \cup Replies \cup {NoRequest}]
  BY DEF EdgeTypeOK, Upstreams, Replies, Entries

LEMMA EdgeNumbers ==
  /\ MaxAge \in Nat /\ MaxAge > 1 /\ InactiveTicks \in Nat
  /\ NotFoundTicks \in Nat /\ ErrorTicks \in Nat
  /\ NotFoundTicks < MaxAge /\ ErrorTicks < MaxAge
  BY EdgeAssumption

LEMMA EdgeInvInit == EdgeInit => EdgeInv
<1> SUFFICES ASSUME EdgeInit PROVE EdgeInv
  OBVIOUS
<1>1. EdgeTypeOK
  BY EdgeTypes DEF EdgeInit
<1>2. RepliesGiven
  BY DEF EdgeInit, RepliesGiven, NoRequest
<1> QED
  BY <1>1, <1>2 DEF EdgeInit, EdgeInv, EntryGiven

LEMMA AskKeeps ==
  ASSUME EdgeInv, NEW r \in Requests, NEW who \in Askers, AskEdge(r, who)
  PROVE  EdgeInv'
<1>1. /\ view \in Views /\ view' = view
      /\ entry \in Entries \cup {NoEntry}
      /\ ask \in [Requests -> Upstreams \cup Replies \cup {NoRequest}]
  BY EdgeTypes DEF EdgeInv, AskEdge
<1>2. CASE /\ entry # NoEntry
           /\ entry' = [entry EXCEPT !.idle = 0] /\ UNCHANGED ask
  <2>1. entry \in Entries /\ 0 \in 0..InactiveTicks
    BY <1>1, <1>2, EdgeNumbers
  <2>2. entry' \in Entries
    BY <1>2, <2>1 DEF Entries
  <2>3. entry'.kind = entry.kind /\ entry'.from = entry.from
        /\ entry'.age = entry.age /\ entry'.held = entry.held
    BY <1>2, <2>1 DEF Entries
  <2>4. EntryGiven'
    BY <1>2, <2>3 DEF EdgeInv, EntryGiven
  <2>5. RepliesGiven'
    BY <1>2 DEF EdgeInv, RepliesGiven
  <2> QED
    BY <1>1, <1>2, <2>2, <2>4, <2>5, EdgeTypes DEF EdgeInv, EdgeTypeOK, Entries
<1>3. CASE /\ ask' = [ask EXCEPT ![r] = [at |-> "upstream", who |-> who]]
           /\ UNCHANGED entry
  <2>1. [at |-> "upstream", who |-> who] \in Upstreams
    BY DEF Upstreams
  <2>2. ask' \in [Requests -> Upstreams \cup Replies \cup {NoRequest}]
    BY <1>1, <1>3, <2>1
  <2>3. EdgeTypeOK'
    BY <1>1, <1>3, <2>2 DEF EdgeTypeOK, Upstreams, Replies, Entries
  <2>4. RepliesGiven'
    BY <1>1, <1>3 DEF EdgeInv, RepliesGiven
  <2> QED
    BY <1>3, <2>3, <2>4 DEF EdgeInv, EntryGiven
<1> QED
  BY <1>2, <1>3 DEF AskEdge

LEMMA AppKeeps ==
  ASSUME EdgeInv, NEW r \in Requests, AppReplies(r)
  PROVE  EdgeInv'
<1>1. /\ view \in Views /\ view' = view
      /\ entry \in Entries \cup {NoEntry} /\ entry' = entry
      /\ ask \in [Requests -> Upstreams \cup Replies \cup {NoRequest}]
  BY EdgeTypes DEF EdgeInv, AppReplies
<1>2. PICK kind \in AppAnswers(view, ask[r].who) \cup {"5xx"} :
        ask' = [ask EXCEPT ![r] =
                  IF kind \in Storable /\ ~Bypass(ask[r].who)
                    THEN [at |-> "reply", kind |-> kind, from |-> view, age |-> 0]
                    ELSE NoRequest]
  BY DEF AppReplies
<1>3. ask[r].who \in Askers
  <2>1. ask[r].at = "upstream"
    BY DEF AppReplies
  <2>2. ask[r] \in Upstreams
    BY <1>1, <2>1 DEF Replies, NoRequest
  <2> QED
    BY <2>2 DEF Upstreams
<1>4. CASE kind \in Storable /\ ~Bypass(ask[r].who)
  <2>1. PICK reply \in Replies :
          /\ ask' = [ask EXCEPT ![r] = reply]
          /\ reply.kind = kind /\ reply.from = view
    <3> DEFINE new == [at |-> "reply", kind |-> kind, from |-> view, age |-> 0]
    <3>1. new \in Replies /\ new.kind = kind /\ new.from = view
      BY <1>1, <1>4 DEF Replies
    <3>2. ask' = [ask EXCEPT ![r] = new]
      BY <1>2, <1>4
    <3> HIDE DEF new
    <3> QED
      BY <3>1, <3>2
  <2>2. ask' \in [Requests -> Upstreams \cup Replies \cup {NoRequest}]
    BY <1>1, <2>1
  <2>3. GivenToAnyone(kind, view)
    BY <1>2, <1>3, <1>4 DEF GivenToAnyone, Bypass
  <2>4. RepliesGiven'
    <3> SUFFICES ASSUME NEW q \in Requests, ask'[q].at = "reply"
                 PROVE  GivenToAnyone(ask'[q].kind, ask'[q].from)
      BY DEF RepliesGiven, GivenToAnyone, AppAnswers
    <3> QED
      BY <1>1, <2>1, <2>3 DEF EdgeInv, RepliesGiven
  <2> QED
    BY <1>1, <2>2, <2>4 DEF EdgeInv, EdgeTypeOK, EntryGiven, Upstreams, Replies, Entries
<1>5. CASE ~(kind \in Storable /\ ~Bypass(ask[r].who))
  <2>1. ask' = [ask EXCEPT ![r] = NoRequest]
    BY <1>2, <1>5
  <2>2. ask' \in [Requests -> Upstreams \cup Replies \cup {NoRequest}]
    BY <1>1, <2>1
  <2>3. RepliesGiven'
    BY <1>1, <2>1 DEF EdgeInv, RepliesGiven, NoRequest
  <2> QED
    BY <1>1, <2>2, <2>3 DEF EdgeInv, EdgeTypeOK, EntryGiven, Upstreams, Replies, Entries
<1> QED
  BY <1>4, <1>5

LEMMA StoreKeeps ==
  ASSUME EdgeInv, NEW r \in Requests, StoreReply(r)
  PROVE  EdgeInv'
<1>1. /\ view \in Views /\ view' = view
      /\ ask \in [Requests -> Upstreams \cup Replies \cup {NoRequest}]
      /\ ask' = [ask EXCEPT ![r] = NoRequest]
  BY EdgeTypes DEF EdgeInv, StoreReply
<1>2. ask[r] \in Replies /\ GivenToAnyone(ask[r].kind, ask[r].from)
  BY <1>1 DEF StoreReply, Upstreams, NoRequest, EdgeInv, RepliesGiven
<1>3. /\ ask[r].kind \in Storable /\ ask[r].from \in Views /\ ask[r].age \in 0..1
      /\ ask[r].age \in 0..MaxAge /\ 0 \in 0..MaxAge /\ 0 \in 0..InactiveTicks
  BY <1>2, EdgeNumbers DEF Replies
<1>4. entry' = [kind |-> ask[r].kind, from |-> ask[r].from, age |-> ask[r].age,
                held |-> 0, idle |-> 0]
  BY DEF StoreReply
<1>5. entry' \in Entries
  BY <1>3, <1>4 DEF Entries
<1>6. EntryGiven'
  BY <1>2, <1>3, <1>4 DEF EntryGiven, GivenToAnyone, AppAnswers
<1>7. ask' \in [Requests -> Upstreams \cup Replies \cup {NoRequest}]
  BY <1>1
<1>8. RepliesGiven'
  BY <1>1 DEF EdgeInv, RepliesGiven, NoRequest
<1> QED
  BY <1>1, <1>5, <1>6, <1>7, <1>8 DEF EdgeInv, EdgeTypeOK, Upstreams, Replies, Entries

LEMMA TickKeeps ==
  ASSUME EdgeInv, EdgeTick
  PROVE  EdgeInv'
<1>1. /\ view \in Views /\ view' = view
      /\ entry \in Entries \cup {NoEntry}
      /\ ask \in [Requests -> Upstreams \cup Replies \cup {NoRequest}]
  BY EdgeTypes DEF EdgeInv, EdgeTick
<1>2. ASSUME NEW r \in Requests
      PROVE  /\ ask'[r] \in Upstreams \cup Replies \cup {NoRequest}
             /\ ask'[r].at = "reply" => GivenToAnyone(ask'[r].kind, ask'[r].from)
  <2>1. CASE ask[r].at = "reply"
    <3>1. ask[r] \in Replies /\ GivenToAnyone(ask[r].kind, ask[r].from)
      BY <1>1, <2>1 DEF Upstreams, NoRequest, EdgeInv, RepliesGiven
    <3>2. ask'[r] = [ask[r] EXCEPT !.age = 1]
      BY <2>1 DEF EdgeTick
    <3>3. ask'[r] \in Replies /\ ask'[r].kind = ask[r].kind /\ ask'[r].from = ask[r].from
      BY <3>1, <3>2 DEF Replies
    <3> QED
      BY <3>1, <3>3
  <2>2. CASE ask[r].at # "reply"
    <3>1. ask'[r] = ask[r]
      BY <2>2 DEF EdgeTick
    <3> QED
      BY <1>1, <2>2, <3>1
  <2> QED
    BY <2>1, <2>2
<1>3. /\ ask' \in [Requests -> Upstreams \cup Replies \cup {NoRequest}]
      /\ RepliesGiven'
  <2>1. ask' = [r \in Requests |-> ask'[r]]
    BY DEF EdgeTick
  <2>2. RepliesGiven'
    BY <1>2 DEF RepliesGiven, GivenToAnyone, AppAnswers
  <2> QED
    BY <1>2, <2>1, <2>2
<1>4. entry' \in Entries \cup {NoEntry} /\ EntryGiven'
  <2>1. CASE entry' = NoEntry
    BY <2>1 DEF EntryGiven
  <2>2. CASE /\ entry # NoEntry /\ entry.idle < InactiveTicks
             /\ entry' = [entry EXCEPT !.age = NextAge(@), !.held = NextAge(@), !.idle = @ + 1]
    <3>1. entry \in Entries
      BY <1>1, <2>2
    <3>2. /\ entry.age \in 0..MaxAge /\ entry.held \in 0..MaxAge
          /\ entry.idle \in 0..InactiveTicks
          /\ GivenToAnyone(entry.kind, entry.from) /\ entry.age <= entry.held + 1
      BY <2>2, <3>1 DEF Entries, EdgeInv, EntryGiven
    <3>3. /\ NextAge(entry.age) \in 0..MaxAge /\ NextAge(entry.held) \in 0..MaxAge
          /\ NextAge(entry.age) <= NextAge(entry.held) + 1
          /\ entry.idle + 1 \in 0..InactiveTicks
      BY <2>2, <3>2, EdgeNumbers DEF NextAge
    <3>4. entry' \in Entries
      BY <2>2, <3>1, <3>3 DEF Entries
    <3>5. /\ entry'.kind = entry.kind /\ entry'.from = entry.from
          /\ entry'.age = NextAge(entry.age) /\ entry'.held = NextAge(entry.held)
      BY <2>2, <3>1 DEF Entries
    <3> QED
      BY <3>2, <3>3, <3>4, <3>5 DEF EntryGiven, GivenToAnyone, AppAnswers
  <2> QED
    BY <2>1, <2>2 DEF EdgeTick
<1> QED
  BY <1>1, <1>3, <1>4 DEF EdgeInv, EdgeTypeOK, Upstreams, Replies, Entries

\* The invariant is inductive.
LEMMA EdgeInvNext ==
  ASSUME EdgeInv, [EdgeNext]_edgeVars
  PROVE  EdgeInv'
<1>1. ASSUME ViewChanges PROVE EdgeInv'
  BY <1>1 DEF ViewChanges, EdgeInv, EdgeTypeOK, RepliesGiven, EntryGiven, GivenToAnyone, AppAnswers
<1>2. CASE UNCHANGED edgeVars
  BY <1>2 DEF edgeVars, EdgeInv, EdgeTypeOK, RepliesGiven, EntryGiven, GivenToAnyone, AppAnswers
<1> QED
  BY <1>1, <1>2, AskKeeps, AppKeeps, StoreKeeps, TickKeeps DEF EdgeNext

LEMMA EdgeInvHolds == EdgeSpec => []EdgeInv
  BY EdgeInvInit, EdgeInvNext, PTL DEF EdgeSpec

-----------------------------------------------------------------------------
\* Every reachable state is well-typed.
THEOREM EdgeTypeCorrect == EdgeSpec => []EdgeTypeOK
<1>1. EdgeInv => EdgeTypeOK
  BY DEF EdgeInv
<1> QED
  BY <1>1, EdgeInvHolds, PTL

\* The cache serves only what any anonymous visitor would be answered, but for
\* the 301 an in-app browser gets, and only a 301 for longer than its time.
THEOREM EdgeServesAnyoneHolds == EdgeSpec => []EdgeServesAnyone
<1>1. ASSUME EdgeInv PROVE EdgeServesAnyone
  <2> SUFFICES ASSUME NEW who \in Askers, Served(who)
               PROVE  LET own == AppAnswers(entry.from, who)
                      IN /\ ~who.signed
                         /\ entry.kind = "301" => ~entry.from.private /\ entry.from.exists /\ ~entry.from.disabled
                         /\ \/ entry.kind \in own \cup {"5xx"}
                            \/ who.app /\ own = {"escape"} /\ entry.kind = "301"
                         /\ entry.kind = "301" \/ entry.age <= (IF entry.kind = "404" THEN NotFoundTicks ELSE ErrorTicks)
    BY DEF EdgeServesAnyone
  <2>1. /\ entry \in Entries /\ Valid(entry) /\ ~who.signed
        /\ GivenToAnyone(entry.kind, entry.from) /\ entry.age <= entry.held + 1
    BY <1>1, EdgeTypes DEF EdgeInv, EntryGiven, Served, Bypass
  <2>2. entry.age \in Nat /\ entry.held \in Nat /\ entry.kind \in Storable
    BY <2>1, EdgeNumbers DEF Entries
  <2>3. entry.kind # "301" =>
          entry.held < (IF entry.kind = "404" THEN NotFoundTicks ELSE ErrorTicks)
    BY <2>1, <2>2 DEF Valid, Storable
  <2>4. entry.kind = "301" \/ entry.age <= (IF entry.kind = "404" THEN NotFoundTicks ELSE ErrorTicks)
    BY <2>1, <2>2, <2>3, EdgeNumbers
  <2>5. \A w \in Askers : ~w.signed => ~w.owner
    BY DEF Askers
  <2>6. entry.kind = "5xx" \/ \E w \in Askers : ~w.owner /\ entry.kind \in AppAnswers(entry.from, w)
    BY <2>1, <2>5 DEF GivenToAnyone
  <2>7. ~who.owner
    BY <2>1, <2>5
  <2>8. /\ entry.kind = "301" => ~entry.from.private /\ entry.from.exists /\ ~entry.from.disabled
        /\ \/ entry.kind \in AppAnswers(entry.from, who) \cup {"5xx"}
           \/ who.app /\ AppAnswers(entry.from, who) = {"escape"} /\ entry.kind = "301"
    BY <2>2, <2>6, <2>7 DEF AppAnswers, Storable
  <2> QED
    BY <2>1, <2>4, <2>8
<1> QED
  BY <1>1, EdgeInvHolds, PTL
=============================================================================
