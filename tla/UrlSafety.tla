----------------------------- MODULE UrlSafety -----------------------------
(***************************************************************************)
(* Destination checks (security/urlSafety.ts) and the block list that       *)
(* routes/admin.ts keeps.                                                  *)
(*                                                                         *)
(* validateUrl is a chain of awaits: DNS, the block list, the verdict       *)
(* cache, Safe Browsing, the verdict's write.  Others block domains, the    *)
(* threat list changes and verdicts age in between.  A tick is long against *)
(* a validation, whose calls time out after seconds.  Safe Browsing has its  *)
(* API key; without one every verdict would be SAFE.                       *)
(***************************************************************************)
EXTENDS Naturals, FiniteSets

CONSTANTS
  Validations,
  Urls,        \* [scheme, host, dot]: dot is a trailing "." of the host
  HostKind,    \* host -> "name", "address", "local" (localhost and below it)
               \* or "own" (SHORT_DOMAIN and below it)
  AddressOf,   \* host of kind "address" -> address
  Addresses,   \* [form, range, inner]: form is "v4", "v6", "mapped" or
               \* "compatible"; range is what ipaddr.js says of it; inner is
               \* the range of the IPv4 address the last two embed
  SafeTTL,     \* ticks: SAFE_BROWSING_TTL
  Listed,      \* bound: urls the threat lists ever name
  MaxBlocked   \* bound: rows of blocked_domains

Hosts == DOMAIN HostKind

ASSUME UrlSafetyAssumption ==
  /\ \A u \in Urls : u.host \in Hosts /\ u.dot \in BOOLEAN
  /\ \A h \in Hosts : HostKind[h] = "address" => AddressOf[h] \in Addresses
  /\ \A a \in Addresses : a.form \in {"v4", "v6", "mapped", "compatible"}
  /\ SafeTTL \in Nat \ {0} /\ Listed \subseteq Urls /\ MaxBlocked \in Nat

\* A row of blocked_domains as an admin types it, with its dots.
Entries == [host : {h \in Hosts : HostKind[h] = "name"}, lead : BOOLEAN, trail : BOOLEAN]

Verdicts == {"SAFE", "MALICIOUS"}
NotCached == [verdict |-> "none", ttl |-> 0]
Idle == [at |-> "idle"]

VARIABLES
  blocked,    \* blocked_domains
  flagged,    \* Urls the threat lists name now
  verdicts,   \* url -> [verdict, ttl], the key in Redis
  check,      \* validation -> [at, url, seen, barred, alarm, open, verdict]:
              \* the step it awaits, the addresses DNS answered; whether its
              \* host was blocked when it began, its url flagged ever since,
              \* Safe Browsing failing; the verdict it is about to cache
  sinceSafe   \* history: url -> ticks since it was not flagged, SafeTTL + 1
              \* for longer

safetyVars == <<blocked, flagged, verdicts, check, sinceSafe>>

Checks ==
  [at : {"resolve", "blocklist", "cached", "fetch", "store", "accepted"},
   url : Urls, seen : SUBSET Addresses, barred : BOOLEAN, alarm : BOOLEAN,
   open : BOOLEAN, verdict : Verdicts \cup {"none"}]

SafetyTypeOK ==
  /\ blocked \subseteq Entries
  /\ flagged \subseteq Urls
  /\ verdicts \in [Urls -> [verdict : Verdicts, ttl : 1..SafeTTL] \cup {NotCached}]
  /\ check \in [Validations -> Checks \cup {Idle}]
  /\ sinceSafe \in [Urls -> 0..SafeTTL + 1]

SafetyInit ==
  /\ blocked = {} /\ flagged = {}
  /\ verdicts = [u \in Urls |-> NotCached]
  /\ check = [v \in Validations |-> Idle]
  /\ sinceSafe = [u \in Urls |-> 0]

-----------------------------------------------------------------------------
\* isBlockedIp: an embedded IPv4 address decides, else ipaddr.js's range.
MutIsBlockedIp(a) == IF a.form = "mapped" THEN a.inner # "unicast" ELSE a.range # "unicast"
IsBlockedIp(a) ==
  IF a.form \in {"mapped", "compatible"} THEN a.inner # "unicast"
                                         ELSE a.range # "unicast"

\* checkDomainBlocklist: domain = host or domain = "." + host; the host has lost
\* its trailing dot, the entry has not.
MutOnBlocklist(u) == \E e \in blocked : e = [host |-> u.host, lead |-> FALSE, trail |-> u.dot]
OnBlocklist(u) == \E e \in blocked, dot \in BOOLEAN :
                    e = [host |-> u.host, lead |-> dot, trail |-> FALSE]

\* What an admin means by an entry: this very host.
Barred(u) == \E e \in blocked : e.host = u.host /\ ~e.trail

Go(v, c) == check' = [check EXCEPT ![v] = c]
Rejected(v) == Go(v, Idle)

\* The checks of the url alone: scheme, localhost, literal address.
Validate(v, u) ==
  /\ check[v] = Idle
  /\ u.scheme \in {"http", "https"}
  /\ HostKind[u.host] # "local"
  /\ HostKind[u.host] = "address" => ~IsBlockedIp(AddressOf[u.host])
  /\ Go(v, [at |-> IF HostKind[u.host] = "address" THEN "blocklist" ELSE "resolve",
            url |-> u,
            seen |-> IF HostKind[u.host] = "address" THEN {AddressOf[u.host]} ELSE {},
            barred |-> Barred(u), alarm |-> u \in flagged,
            open |-> FALSE, verdict |-> "none"])
  /\ UNCHANGED <<blocked, flagged, verdicts, sinceSafe>>

\* resolve4 and resolve6 together: what fails, is empty or late adds nothing;
\* then the comparison with SHORT_DOMAIN.
Resolve(v) ==
  /\ check[v].at = "resolve"
  /\ \E r4 \in SUBSET {a \in Addresses : a.form = "v4"},
        r6 \in SUBSET {a \in Addresses : a.form # "v4"} :
       IF \/ r4 \cup r6 = {}
          \/ \E a \in r4 \cup r6 : IsBlockedIp(a)
          \/ HostKind[check[v].url.host] = "own"
         THEN Rejected(v)
         ELSE Go(v, [check[v] EXCEPT !.at = "blocklist", !.seen = r4 \cup r6])
  /\ UNCHANGED <<blocked, flagged, verdicts, sinceSafe>>

\* One query; if it fails the request does.
QueryBlocklist(v) ==
  /\ check[v].at = "blocklist"
  /\ \/ ~OnBlocklist(check[v].url) /\ Go(v, [check[v] EXCEPT !.at = "cached"])
     \/ Rejected(v)
  /\ UNCHANGED <<blocked, flagged, verdicts, sinceSafe>>

\* Redis GET of the verdict; a failure reads as nothing cached.
ReadVerdict(v) ==
  LET verdict == verdicts[check[v].url].verdict
  IN /\ check[v].at = "cached"
     /\ \/ verdict = "SAFE" /\ Go(v, [check[v] EXCEPT !.at = "accepted"])
        \/ verdict = "MALICIOUS" /\ Rejected(v)
        \/ Go(v, [check[v] EXCEPT !.at = "fetch"])
     /\ UNCHANGED <<blocked, flagged, verdicts, sinceSafe>>

\* threatMatches:find; an error, a timeout or another status lets the url pass.
MutFetch(v) ==
  LET found == IF check[v].url \in flagged THEN "MALICIOUS" ELSE "SAFE"
  IN /\ check[v].at = "fetch"
     /\ \/ Go(v, [check[v] EXCEPT !.at = "store", !.verdict = found])
        \/ Go(v, [check[v] EXCEPT !.at = "store", !.open = TRUE, !.verdict = "SAFE"])
     /\ UNCHANGED <<blocked, flagged, verdicts, sinceSafe>>
Fetch(v) ==
  LET found == IF check[v].url \in flagged THEN "MALICIOUS" ELSE "SAFE"
  IN /\ check[v].at = "fetch"
     /\ \/ Go(v, [check[v] EXCEPT !.at = "store", !.verdict = found])
        \/ Go(v, [check[v] EXCEPT !.at = "accepted", !.open = TRUE])
     /\ UNCHANGED <<blocked, flagged, verdicts, sinceSafe>>

\* SET ... EX, best effort; the verdict then decides.
StoreVerdict(v) ==
  LET c == check[v]
  IN /\ c.at = "store"
     /\ \/ verdicts' = [verdicts EXCEPT ![c.url] = [verdict |-> c.verdict, ttl |-> SafeTTL]]
        \/ UNCHANGED verdicts
     /\ IF c.verdict = "SAFE" THEN Go(v, [c EXCEPT !.at = "accepted"]) ELSE Rejected(v)
     /\ UNCHANGED <<blocked, flagged, sinceSafe>>

\* validateUrl returns.
Return(v) ==
  /\ check[v].at = "accepted"
  /\ Rejected(v)
  /\ UNCHANGED <<blocked, flagged, verdicts, sinceSafe>>

-----------------------------------------------------------------------------
\* POST /admin/block-domain: an upsert, and rows are never removed.
BlockDomain(e) ==
  /\ Cardinality(blocked) < MaxBlocked
  /\ blocked' = blocked \cup {e}
  /\ UNCHANGED <<flagged, verdicts, check, sinceSafe>>

\* The threat lists take a url in, or let it go.
ThreatListChanges(u) ==
  /\ flagged' = IF u \in flagged THEN flagged \ {u} ELSE flagged \cup {u}
  /\ check' = [v \in Validations |->
                 IF check[v] # Idle /\ check[v].url = u
                   THEN [check[v] EXCEPT !.alarm = FALSE] ELSE check[v]]
  /\ sinceSafe' = [sinceSafe EXCEPT ![u] = 0]
  /\ UNCHANGED <<blocked, verdicts>>

SafetyTick ==
  /\ \A v \in Validations : check[v] = Idle
  /\ verdicts' = [u \in Urls |->
                    IF verdicts[u].ttl <= 1 THEN NotCached
                                            ELSE [verdicts[u] EXCEPT !.ttl = @ - 1]]
  /\ sinceSafe' = [u \in Urls |->
                     IF u \notin flagged THEN 0
                     ELSE IF sinceSafe[u] > SafeTTL THEN sinceSafe[u]
                     ELSE sinceSafe[u] + 1]
  /\ UNCHANGED <<blocked, flagged, check>>

SafetyNext ==
  \/ \E v \in Validations :
       \/ \E u \in Urls : Validate(v, u)
       \/ Resolve(v) \/ QueryBlocklist(v) \/ ReadVerdict(v) \/ Fetch(v)
       \/ StoreVerdict(v) \/ Return(v)
  \/ \E e \in Entries : BlockDomain(e)
  \/ \E u \in Listed : ThreatListChanges(u)
  \/ SafetyTick

SafetySpec == SafetyInit /\ [][SafetyNext]_safetyVars

-----------------------------------------------------------------------------
Accepted(v) == check[v].at = "accepted"

\* Where a connection to an address ends up.
Public(a) == IF a.form \in {"v4", "v6"} THEN a.range = "unicast" ELSE a.inner = "unicast"

\* A destination is accepted only if some address was found for it and every
\* one of them, of either family and in whatever form an IPv4 address is
\* written, is public; and never this shortener itself.
AnswersPublic ==
  \A v \in Validations : Accepted(v) =>
    /\ check[v].seen # {} /\ \A a \in check[v].seen : Public(a)
    /\ HostKind[check[v].url.host] # "own"

\* A domain blocked before the validation began is not accepted, with or without
\* a leading dot in the list or a trailing dot in the url, whatever is cached.
BlockedStaysOut == \A v \in Validations : Accepted(v) => ~check[v].barred

\* Availability over strict blocking, and no further: a url the threat lists
\* have named all along passes only because Safe Browsing failed during this
\* very validation, or because it was clean less than a verdict's life ago.
FlaggedPassesOnlyStale ==
  \A v \in Validations : Accepted(v) /\ check[v].alarm =>
    check[v].open \/ sinceSafe[check[v].url] <= SafeTTL
=============================================================================
