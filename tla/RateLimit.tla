------------------------------ MODULE RateLimit ------------------------------
(***************************************************************************)
(* The rate limiter (security/rateLimit.ts): one fixed-window counter in    *)
(* Redis for each key, hit by a single Lua script before the handler runs. *)
(*                                                                         *)
(* Time is a count of ticks; a window lasts WindowTicks of them.  A request *)
(* comes from an address, may be signed in, and has passed one trusted     *)
(* proxy, which states the address in X-Real-IP or appends it to the       *)
(* X-Forwarded-For of earlier hops.  What a surface may admit is measured  *)
(* by the client's own network, whatever key the code charges.             *)
(***************************************************************************)
EXTENDS Naturals, Sequences, Functions

CONSTANTS
  Surfaces,     \* the routes checked: "shorten", "auth", "auth-verify", ...
  Limit,        \* surface -> anonLimit of its route
  UserLimit,    \* authLimit of "shorten"
  Ips,          \* a header may name
  ClientIps,    \* those requests come from
  Bucket,       \* ipBucket: an IPv4 address as it is, IPv6 by its /64
  Users,
  Anon,         \* no signed-in user
  WindowTicks,  \* WINDOW_SECONDS
  MaxHits,      \* bound: requests in one tick
  MaxFaults     \* bound: keys that lose their expiry

ASSUME RateLimitAssumption ==
  /\ Limit \in [Surfaces -> Nat \ {0}] /\ UserLimit \in Nat \ {0}
  /\ ClientIps \subseteq Ips /\ DOMAIN Bucket = Ips
  /\ "auth-verify" \in Surfaces => "auth" \in Surfaces
  /\ "shorten-user" \notin Surfaces
  /\ Anon \notin Users /\ \A a \in Ips : Bucket[a] \notin Users
  /\ WindowTicks \in Nat \ {0} /\ MaxHits \in Nat /\ MaxFaults \in Nat

Buckets == {Bucket[a] : a \in Ips}
Callers == Users \cup {Anon}

\* The key charged: "shorten" by user when signed in, the two auth surfaces by
\* one key, the others by surface; all but the first by address.
Keys == (Surfaces \X Buckets) \cup ({"shorten-user"} \X Users)

\* Who a surface means to bound: a signed-in user of "shorten", else a network.
Metered == Buckets \cup Users

VARIABLES
  redis,     \* can Redis be reached?
  count,     \* key -> value of the counter, 0 when there is no key; it stops
             \* one above the key's limit, where every further hit is alike
  ttl,       \* key -> ticks to its expiry, 0 when there is no key or no expiry
  hits,      \* requests in this tick
  faults,
  lost,      \* history: keys that lost their expiry and were not asked since
  recent     \* history: surface, payer -> requests admitted in each of the last
             \* WindowTicks ticks, this one first

limitVars == <<redis, count, ttl, hits, faults, lost, recent>>

LimitTypeOK ==
  /\ redis \in BOOLEAN
  /\ count \in [Keys -> Nat]
  /\ ttl \in [Keys -> 0..WindowTicks]
  /\ hits \in 0..MaxHits /\ faults \in 0..MaxFaults /\ lost \subseteq Keys
  /\ recent \in [Surfaces \X Metered -> [1..WindowTicks -> Nat]]

LimitInit ==
  /\ redis = TRUE
  /\ count = [k \in Keys |-> 0]
  /\ ttl = [k \in Keys |-> 0]
  /\ hits = 0 /\ faults = 0 /\ lost = {}
  /\ recent = [m \in Surfaces \X Metered |-> [i \in 1..WindowTicks |-> 0]]

-----------------------------------------------------------------------------
\* Headers a request arrives with: the proxy at the edge knows the client.
Arrivals(a) ==
  {[realIp |-> <<a>>, forwarded |-> <<hop, a>>] : hop \in Ips}
    \cup {[realIp |-> <<>>, forwarded |-> <<hop, a>>] : hop \in Ips}

MutLeftMost(req) == IF req.realIp # <<>> THEN req.realIp[1] ELSE req.forwarded[1]
\* X-Real-IP, else the entry of X-Forwarded-For the trusted proxy appended.
ClientIp(req) ==
  IF req.realIp # <<>> THEN req.realIp[1]
                       ELSE req.forwarded[Len(req.forwarded)]

AuthSurfaces == {"auth", "auth-verify"}
LimitKey(s, ip, user) ==
  CASE s = "shorten" /\ user # Anon -> <<"shorten-user", user>>
    [] s \in AuthSurfaces -> <<"auth", Bucket[ip]>>
    [] OTHER -> <<s, Bucket[ip]>>

LimitOf(s, user) == IF s = "shorten" /\ user # Anon THEN UserLimit ELSE Limit[s]

\* The most any surface of a key allows in a window.
KeyLimit(k) ==
  CASE k[1] = "shorten-user" -> UserLimit
    [] k[1] = "auth" /\ "auth-verify" \in Surfaces ->
         IF Limit["auth"] < Limit["auth-verify"] THEN Limit["auth-verify"]
                                                 ELSE Limit["auth"]
    [] OTHER -> Limit[k[1]]

\* SURFACES: only the redirect path lets requests through without Redis.
FailsOpen(s) == s = "redirect"

PayerOf(s, a, user) == IF s = "shorten" /\ user # Anon THEN user ELSE Bucket[a]
Admit(s, a, user) == recent' = [recent EXCEPT ![<<s, PayerOf(s, a, user)>>][1] = @ + 1]

MutNoRepair(k) == IF count[k] = 0 THEN WindowTicks ELSE ttl[k]
\* RATE_LIMIT_LUA: INCR; EXPIRE on the first hit and when there is no expiry.
TtlAfterHit(k) == IF count[k] = 0 \/ ttl[k] = 0 THEN WindowTicks ELSE ttl[k]

Hit(s, a, user) ==
  \E req \in Arrivals(a) :
    LET key == LimitKey(s, ClientIp(req), user)
        hit == count[key] + 1
    IN /\ redis /\ hits < MaxHits
       /\ count' = [count EXCEPT ![key] = IF hit > KeyLimit(key) THEN KeyLimit(key) + 1
                                                                ELSE hit]
       /\ ttl' = [ttl EXCEPT ![key] = TtlAfterHit(key)]
       /\ IF hit <= LimitOf(s, user) THEN Admit(s, a, user)
                                     ELSE UNCHANGED recent
       /\ hits' = hits + 1 /\ lost' = lost \ {key}
       /\ UNCHANGED <<redis, faults>>

\* consumeRateLimit throws: let through uncounted, or 503.
HitWithoutRedis(s, a, user) ==
  /\ ~redis /\ hits < MaxHits
  /\ hits' = hits + 1
  /\ IF FailsOpen(s) THEN Admit(s, a, user) ELSE UNCHANGED recent
  /\ UNCHANGED <<redis, count, ttl, faults, lost>>

\* A second passes; Redis removes the keys whose time is up.
Tick ==
  /\ count' = [k \in Keys |-> IF ttl[k] = 1 THEN 0 ELSE count[k]]
  /\ ttl' = [k \in Keys |-> IF ttl[k] = 0 THEN 0 ELSE ttl[k] - 1]
  /\ recent' = [m \in Surfaces \X Metered |-> [i \in 1..WindowTicks |->
                                             IF i = 1 THEN 0 ELSE recent[m][i - 1]]]
  /\ hits' = 0
  /\ UNCHANGED <<redis, faults, lost>>

RedisToggles == redis' = ~redis /\ UNCHANGED <<count, ttl, hits, faults, lost, recent>>

\* "A key that somehow lost its expiry".
LosesExpiry(k) ==
  /\ faults < MaxFaults /\ ttl[k] > 0
  /\ faults' = faults + 1 /\ lost' = lost \cup {k}
  /\ ttl' = [ttl EXCEPT ![k] = 0]
  /\ UNCHANGED <<redis, count, hits, recent>>

LimitNext ==
  \/ \E s \in Surfaces, a \in ClientIps, u \in Callers :
       Hit(s, a, u) \/ HitWithoutRedis(s, a, u)
  \/ Tick
  \/ RedisToggles
  \/ \E k \in Keys : LosesExpiry(k)

LimitSpec == LimitInit /\ [][LimitNext]_limitVars

-----------------------------------------------------------------------------
RecentSum(s, p) == SumFunction(recent[<<s, p>>])

PayerLimit(s, p) == IF p \in Users THEN UserLimit ELSE Limit[s]

\* "Bursts that straddle a window boundary can briefly reach 2x the limit"
\* (rateLimit.ts:19), and stay below it, since the first hit opens its window:
\* on a surface that fails closed, whatever headers a client sends, however
\* often Redis goes and comes back and a key loses its expiry, no stretch of one
\* window's length admits twice the limit, nor do the two auth surfaces
\* together admit twice the larger one.
BurstBound ==
  /\ \A s \in Surfaces, p \in Metered :
       s # "redirect" => RecentSum(s, p) < 2 * PayerLimit(s, p)
  /\ AuthSurfaces \subseteq Surfaces =>
       \A b \in Buckets : RecentSum("auth", b) + RecentSum("auth-verify", b)
                            < 2 * KeyLimit(<<"auth", b>>)

\* "So a counter can never get stuck forever": every counter that refuses or
\* counts is on its way to expiry, unless it has lost it and nobody has asked
\* since; refused requests count, but do not put the expiry off.
NoKeyStuck ==
  \A k \in Keys : count[k] > 0 => ttl[k] > 0 \/ k \in lost
=============================================================================
