---------------------------- MODULE ShortenProofs ----------------------------
(***************************************************************************)
(* Theorems about UrlSafety, for any urls, addresses, block list and       *)
(* number of concurrent validations; and about Creation, for any number of *)
(* creations in flight, payers, quotas, aliases and ids.                   *)
(***************************************************************************)
EXTENDS UrlSafety, Creation, FiniteSetTheorems, TLAPS

-----------------------------------------------------------------------------
(* The validation of a destination.                                        *)

\* What a validation has established at the step it awaits.
Established(c) ==
  /\ c.at # "resolve" =>
       /\ c.seen # {} /\ \A a \in c.seen : Public(a)
       /\ HostKind[c.url.host] # "own"
  /\ c.barred => Barred(c.url)
  /\ c.at \notin {"resolve", "blocklist"} => ~c.barred
  /\ c.alarm => c.url \in flagged
  /\ c.at = "store" => c.verdict # "none"
  /\ c.at = "store" /\ c.verdict = "SAFE" => sinceSafe[c.url] = 0 /\ ~c.alarm
  /\ c.at = "accepted" /\ c.alarm => c.open \/ sinceSafe[c.url] <= SafeTTL

ChecksSound == \A v \in Validations : check[v] # Idle => Established(check[v])

\* A verdict is no older than the time it has left of its life says.
VerdictsAge ==
  \A u \in Urls :
    verdicts[u].verdict = "SAFE" => sinceSafe[u] + verdicts[u].ttl <= SafeTTL

CleanIsSafe == \A u \in Urls : u \notin flagged => sinceSafe[u] = 0

SafetyInv == SafetyTypeOK /\ ChecksSound /\ VerdictsAge /\ CleanIsSafe

-----------------------------------------------------------------------------
\* isBlockedIp decides by the address a connection would go to.
LEMMA UnblockedIsPublic ==
  ASSUME NEW a \in Addresses, ~IsBlockedIp(a)
  PROVE  Public(a)
<1>1. a.form \in {"v4", "v6", "mapped", "compatible"}
  BY UrlSafetyAssumption DEF UrlSafetyAssumption
<1> QED
  BY <1>1 DEF IsBlockedIp, Public

\* A validation that awaits something has a record.
LEMMA AwaitingHasRecord ==
  ASSUME SafetyInv, NEW v \in Validations, check[v].at # "idle"
  PROVE  check[v] \in Checks /\ Established(check[v])
<1>1. check[v] # Idle
  BY DEF Idle
<1> QED
  BY <1>1 DEF SafetyInv, SafetyTypeOK, ChecksSound

\* A validation that moves to a state it has established.
LEMMA Going ==
  ASSUME SafetyInv, NEW v \in Validations, NEW c \in Checks \cup {Idle}, Go(v, c),
         c # Idle => Established(c), UNCHANGED <<blocked, flagged, sinceSafe>>
  PROVE  /\ check' \in [Validations -> Checks \cup {Idle}]
         /\ ChecksSound' /\ CleanIsSafe'
<1>1. /\ check \in [Validations -> Checks \cup {Idle}]
      /\ check' = [check EXCEPT ![v] = c]
  BY DEF SafetyInv, SafetyTypeOK, Go
<1>2. ASSUME NEW w \in Validations, check'[w] # Idle PROVE Established(check[w])'
  <2>1. Established(check'[w])
    BY <1>1, <1>2 DEF SafetyInv, ChecksSound
  <2> QED
    BY <2>1 DEF Established, Barred
<1>3. ChecksSound'
  BY <1>2 DEF ChecksSound
<1> QED
  BY <1>1, <1>3 DEF SafetyInv, CleanIsSafe

\* The same when nothing but the check changes.
LEMMA GoingAlone ==
  ASSUME SafetyInv, NEW v \in Validations, NEW c \in Checks \cup {Idle}, Go(v, c),
         c # Idle => Established(c), UNCHANGED <<blocked, flagged, verdicts, sinceSafe>>
  PROVE  SafetyInv'
<1>1. /\ check' \in [Validations -> Checks \cup {Idle}]
      /\ ChecksSound' /\ CleanIsSafe'
  BY Going
<1> QED
  BY <1>1 DEF SafetyInv, SafetyTypeOK, VerdictsAge

LEMMA Rejecting ==
  ASSUME SafetyInv, NEW v \in Validations, Rejected(v),
         UNCHANGED <<blocked, flagged, verdicts, sinceSafe>>
  PROVE  SafetyInv'
  BY GoingAlone DEF Rejected

-----------------------------------------------------------------------------
LEMMA SafetyInvInit == SafetyInit => SafetyInv
<1> SUFFICES ASSUME SafetyInit PROVE SafetyInv
  OBVIOUS
<1>1. SafetyTypeOK
  BY UrlSafetyAssumption DEF SafetyInit, SafetyTypeOK
<1>2. VerdictsAge
  BY DEF SafetyInit, VerdictsAge, NotCached
<1> QED
  BY <1>1, <1>2 DEF SafetyInit, SafetyInv, ChecksSound, CleanIsSafe

\* The steps of a validation.
LEMMA ValidateKeeps ==
  ASSUME SafetyInv, NEW v \in Validations, NEW u \in Urls, Validate(v, u)
  PROVE  SafetyInv'
<1> DEFINE literal == HostKind[u.host] = "address"
<1>1. PICK c : /\ c = [at |-> IF literal THEN "blocklist" ELSE "resolve",
                        url |-> u, seen |-> IF literal THEN {AddressOf[u.host]} ELSE {},
                        barred |-> Barred(u), alarm |-> u \in flagged,
                        open |-> FALSE, verdict |-> "none"]
               /\ Go(v, c)
  BY DEF Validate
<1>2. literal => AddressOf[u.host] \in Addresses /\ Public(AddressOf[u.host])
  BY UrlSafetyAssumption, UnblockedIsPublic DEF Validate
<1>3. Barred(u) \in BOOLEAN /\ (u \in flagged) \in BOOLEAN
  BY DEF Barred
<1>4. c \in Checks
  BY <1>1, <1>2, <1>3 DEF Checks
<1>5. Established(c)
  BY <1>1, <1>2 DEF Established
<1> QED
  BY <1>1, <1>4, <1>5, GoingAlone DEF Validate

LEMMA ResolveKeeps ==
  ASSUME SafetyInv, NEW v \in Validations, Resolve(v)
  PROVE  SafetyInv'
<1>1. CASE Rejected(v)
  BY <1>1, Rejecting DEF Resolve
<1>2. CASE ~Rejected(v)
  <2>1. PICK r \in SUBSET Addresses :
          /\ r # {} /\ \A a \in r : ~IsBlockedIp(a)
          /\ HostKind[check[v].url.host] # "own"
          /\ Go(v, [check[v] EXCEPT !.at = "blocklist", !.seen = r])
    BY <1>2 DEF Resolve
  <2>2. check[v] \in Checks /\ Established(check[v])
    BY AwaitingHasRecord DEF Resolve
  <2>3. PICK c \in Checks : c = [check[v] EXCEPT !.at = "blocklist", !.seen = r]
    BY <2>2 DEF Checks
  <2>4. /\ c.at = "blocklist" /\ c.seen = r /\ c.url = check[v].url
        /\ c.barred = check[v].barred /\ c.alarm = check[v].alarm
    BY <2>2, <2>3 DEF Checks
  <2>5. Established(c)
    BY <2>1, <2>2, <2>4, UnblockedIsPublic DEF Established
  <2> QED
    BY <2>1, <2>3, <2>5, GoingAlone DEF Resolve
<1> QED
  BY <1>1, <1>2

\* Moving on to another step, with the rest of the record as it is.
LEMMA MovesOn ==
  ASSUME SafetyInv, NEW v \in Validations, check[v].at # "idle",
         NEW at \in {"cached", "fetch", "accepted"}
  PROVE  LET c == [check[v] EXCEPT !.at = at]
         IN /\ c \in Checks /\ c.at = at
            /\ c.url = check[v].url /\ c.seen = check[v].seen
            /\ c.barred = check[v].barred /\ c.alarm = check[v].alarm
            /\ c.open = check[v].open
<1>1. check[v] \in Checks
  BY AwaitingHasRecord
<1> QED
  BY <1>1 DEF Checks

LEMMA QueryKeeps ==
  ASSUME SafetyInv, NEW v \in Validations, QueryBlocklist(v)
  PROVE  SafetyInv'
<1>1. CASE Rejected(v)
  BY <1>1, Rejecting DEF QueryBlocklist
<1>2. CASE ~Rejected(v)
  <2>1. PICK c \in Checks :
          /\ Go(v, c) /\ c.at = "cached" /\ c.url = check[v].url /\ c.seen = check[v].seen
          /\ c.barred = check[v].barred /\ c.alarm = check[v].alarm
    BY <1>2, MovesOn DEF QueryBlocklist
  <2>2. check[v] \in Checks /\ Established(check[v]) /\ check[v].at = "blocklist"
    BY AwaitingHasRecord DEF QueryBlocklist
  <2>3. ~Barred(check[v].url)
    <3> SUFFICES ASSUME NEW e \in blocked, e.host = check[v].url.host, ~e.trail
                 PROVE  OnBlocklist(check[v].url)
      BY <1>2 DEF QueryBlocklist, Barred
    <3>1. e \in Entries
      BY DEF SafetyInv, SafetyTypeOK
    <3>2. /\ e.lead \in BOOLEAN
          /\ e = [host |-> check[v].url.host, lead |-> e.lead, trail |-> FALSE]
      BY <3>1 DEF Entries
    <3> QED
      BY <3>2 DEF OnBlocklist
  <2>4. Established(c)
    BY <2>1, <2>2, <2>3 DEF Established
  <2> QED
    BY <2>1, <2>4, GoingAlone DEF QueryBlocklist
<1> QED
  BY <1>1, <1>2

LEMMA ReadKeeps ==
  ASSUME SafetyInv, NEW v \in Validations, ReadVerdict(v)
  PROVE  SafetyInv'
<1>1. check[v] \in Checks /\ Established(check[v]) /\ check[v].at = "cached"
  BY AwaitingHasRecord DEF ReadVerdict
<1>2. CASE Rejected(v)
  BY <1>2, Rejecting DEF ReadVerdict
<1>3. CASE Go(v, [check[v] EXCEPT !.at = "fetch"])
  <2>1. PICK c \in Checks :
          /\ Go(v, c) /\ c.at = "fetch" /\ c.url = check[v].url /\ c.seen = check[v].seen
          /\ c.barred = check[v].barred /\ c.alarm = check[v].alarm
    BY <1>1, <1>3, MovesOn
  <2>2. Established(c)
    BY <1>1, <2>1 DEF Established
  <2> QED
    BY <2>1, <2>2, GoingAlone DEF ReadVerdict
<1>4. CASE /\ verdicts[check[v].url].verdict = "SAFE"
           /\ Go(v, [check[v] EXCEPT !.at = "accepted"])
  <2>1. PICK c \in Checks :
          /\ Go(v, c) /\ c.at = "accepted" /\ c.url = check[v].url /\ c.seen = check[v].seen
          /\ c.barred = check[v].barred /\ c.alarm = check[v].alarm
    BY <1>1, <1>4, MovesOn
  <2>2. sinceSafe[c.url] <= SafeTTL
    <3>1. c.url \in Urls /\ verdicts[c.url].verdict = "SAFE"
      BY <1>4, <2>1 DEF Checks
    <3>2. verdicts[c.url] # NotCached
      BY <3>1 DEF NotCached
    <3>3. verdicts[c.url].ttl \in Nat /\ sinceSafe[c.url] \in Nat /\ SafeTTL \in Nat
      BY <3>1, <3>2, UrlSafetyAssumption DEF SafetyInv, SafetyTypeOK
    <3> QED
      BY <3>1, <3>3 DEF SafetyInv, VerdictsAge
  <2>3. Established(c)
    BY <1>1, <2>1, <2>2 DEF Established
  <2> QED
    BY <2>1, <2>3, GoingAlone DEF ReadVerdict
<1> QED
  BY <1>2, <1>3, <1>4 DEF ReadVerdict

LEMMA FetchKeeps ==
  ASSUME SafetyInv, NEW v \in Validations, Fetch(v)
  PROVE  SafetyInv'
<1> DEFINE found == IF check[v].url \in flagged THEN "MALICIOUS" ELSE "SAFE"
<1>1. check[v] \in Checks /\ Established(check[v]) /\ check[v].at = "fetch"
  BY AwaitingHasRecord DEF Fetch
<1>2. CASE Go(v, [check[v] EXCEPT !.at = "store", !.verdict = found])
  <2>1. PICK c \in Checks : c = [check[v] EXCEPT !.at = "store", !.verdict = found]
    BY <1>1 DEF Checks, Verdicts
  <2>2. /\ c.at = "store" /\ c.verdict = found
        /\ c.url = check[v].url /\ c.seen = check[v].seen
        /\ c.barred = check[v].barred /\ c.alarm = check[v].alarm
    BY <1>1, <2>1 DEF Checks
  <2>3. c.url \in Urls
    BY DEF Checks
  <2>4. Established(c)
    BY <1>1, <2>2, <2>3 DEF Established, SafetyInv, CleanIsSafe
  <2> QED
    BY <1>2, <2>1, <2>4, GoingAlone DEF Fetch
<1>3. CASE Go(v, [check[v] EXCEPT !.at = "accepted", !.open = TRUE])
  <2>1. PICK c \in Checks : c = [check[v] EXCEPT !.at = "accepted", !.open = TRUE]
    BY <1>1 DEF Checks
  <2>2. /\ c.at = "accepted" /\ c.open
        /\ c.url = check[v].url /\ c.seen = check[v].seen
        /\ c.barred = check[v].barred /\ c.alarm = check[v].alarm
    BY <1>1, <2>1 DEF Checks
  <2>3. Established(c)
    BY <1>1, <2>2 DEF Established
  <2> QED
    BY <1>3, <2>1, <2>3, GoingAlone DEF Fetch
<1> QED
  BY <1>2, <1>3 DEF Fetch

LEMMA StoreKeeps ==
  ASSUME SafetyInv, NEW v \in Validations, StoreVerdict(v)
  PROVE  SafetyInv'
<1>1. check[v] \in Checks /\ Established(check[v]) /\ check[v].at = "store"
  BY AwaitingHasRecord DEF StoreVerdict
<1>2. PICK c \in Checks \cup {Idle} : Go(v, c) /\ (c # Idle => Established(c))
  <2>1. CASE check[v].verdict = "SAFE"
    <3>1. PICK c \in Checks :
            /\ Go(v, c) /\ c.at = "accepted" /\ c.url = check[v].url
            /\ c.seen = check[v].seen
            /\ c.barred = check[v].barred /\ c.alarm = check[v].alarm
      BY <1>1, <2>1, MovesOn DEF StoreVerdict
    <3>2. Established(c)
      BY <1>1, <2>1, <3>1 DEF Established
    <3> QED
      BY <3>1, <3>2
  <2>2. CASE check[v].verdict # "SAFE"
    BY <2>2 DEF StoreVerdict, Rejected
  <2> QED
    BY <2>1, <2>2
<1>3. /\ check' \in [Validations -> Checks \cup {Idle}]
      /\ ChecksSound' /\ CleanIsSafe'
  BY <1>2, Going DEF StoreVerdict
<1>4. CASE UNCHANGED verdicts
  BY <1>3, <1>4 DEF StoreVerdict, SafetyInv, SafetyTypeOK, VerdictsAge
<1>5. CASE verdicts' = [verdicts EXCEPT ![check[v].url] =
                           [verdict |-> check[v].verdict, ttl |-> SafeTTL]]
  <2>1. check[v].url \in Urls /\ SafeTTL \in 1..SafeTTL /\ SafeTTL \in Nat
    BY <1>1, UrlSafetyAssumption DEF Checks
  <2>2. check[v].verdict \in Verdicts \cup {"none"}
    BY <1>1 DEF Checks
  <2>3. check[v].verdict = "SAFE" => sinceSafe[check[v].url] = 0
    BY <1>1 DEF Established
  <2>4. verdicts \in [Urls -> [verdict : Verdicts, ttl : 1..SafeTTL] \cup {NotCached}]
    BY DEF SafetyInv, SafetyTypeOK
  <2>5. check[v].verdict # "none"
    BY <1>1 DEF Established
  <2>6. verdicts' \in [Urls -> [verdict : Verdicts, ttl : 1..SafeTTL] \cup {NotCached}]
    BY <1>5, <2>1, <2>2, <2>4, <2>5
  <2>7. VerdictsAge'
    BY <1>5, <2>1, <2>3, <2>4 DEF StoreVerdict, SafetyInv, VerdictsAge
  <2> QED
    BY <1>3, <2>6, <2>7 DEF StoreVerdict, SafetyInv, SafetyTypeOK
<1> QED
  BY <1>4, <1>5 DEF StoreVerdict

-----------------------------------------------------------------------------
\* The steps of others.
LEMMA BlockKeeps ==
  ASSUME SafetyInv, NEW e \in Entries, BlockDomain(e)
  PROVE  SafetyInv'
<1>1. blocked \subseteq blocked' /\ blocked' \subseteq Entries
  BY DEF BlockDomain, SafetyInv, SafetyTypeOK
<1>2. UNCHANGED <<flagged, verdicts, check, sinceSafe>>
  BY DEF BlockDomain
<1>3. ChecksSound'
  <2> SUFFICES ASSUME NEW v \in Validations, check[v] # Idle
               PROVE  Established(check[v])'
    BY <1>2 DEF ChecksSound
  <2>1. Established(check[v])
    BY DEF SafetyInv, ChecksSound
  <2>2. Barred(check[v].url) => Barred(check[v].url)'
    BY <1>1, <1>2 DEF Barred
  <2> QED
    BY <1>2, <2>1, <2>2 DEF Established
<1> QED
  BY <1>1, <1>2, <1>3 DEF SafetyInv, SafetyTypeOK, VerdictsAge, CleanIsSafe

LEMMA ThreatListKeeps ==
  ASSUME SafetyInv, NEW u \in Urls, ThreatListChanges(u)
  PROVE  SafetyInv'
<1>1. /\ sinceSafe \in [Urls -> 0..SafeTTL + 1] /\ SafeTTL \in Nat \ {0}
      /\ check \in [Validations -> Checks \cup {Idle}]
      /\ verdicts \in [Urls -> [verdict : Verdicts, ttl : 1..SafeTTL] \cup {NotCached}]
      /\ flagged \subseteq Urls
  BY UrlSafetyAssumption DEF SafetyInv, SafetyTypeOK
<1>2. /\ sinceSafe' = [sinceSafe EXCEPT ![u] = 0] /\ UNCHANGED <<blocked, verdicts>>
      /\ flagged' = IF u \in flagged THEN flagged \ {u} ELSE flagged \cup {u}
  BY DEF ThreatListChanges
<1>3. ASSUME NEW v \in Validations
      PROVE  /\ check'[v] \in Checks \cup {Idle}
             /\ check'[v] # Idle => Established(check[v])'
  <2>1. CASE check[v] = Idle
    <3>1. check'[v] = Idle
      BY <2>1 DEF ThreatListChanges
    <3> QED
      BY <3>1
  <2>2. CASE check[v] # Idle
    <3>1. check[v] \in Checks /\ Established(check[v]) /\ check[v].url \in Urls
      BY <1>1, <2>2 DEF SafetyInv, ChecksSound, Checks
    <3>2. PICK c \in Checks :
            /\ c = check'[v] /\ c.at = check[v].at /\ c.url = check[v].url
            /\ c.seen = check[v].seen /\ c.barred = check[v].barred
            /\ c.open = check[v].open /\ c.verdict = check[v].verdict
            /\ c.alarm = IF check[v].url = u THEN FALSE ELSE check[v].alarm
      <4>1. CASE check[v].url = u
        <5>1. check'[v] = [check[v] EXCEPT !.alarm = FALSE]
          BY <2>2, <4>1 DEF ThreatListChanges
        <5> QED
          BY <3>1, <4>1, <5>1 DEF Checks
      <4>2. CASE check[v].url # u
        <5>1. check'[v] = check[v]
          BY <4>2 DEF ThreatListChanges
        <5> QED
          BY <3>1, <4>2, <5>1
      <4> QED
        BY <4>1, <4>2
    <3>3. Barred(c.url)' = Barred(c.url)
      BY <1>2 DEF Barred
    <3>4. sinceSafe'[c.url] = IF c.url = u THEN 0 ELSE sinceSafe[c.url]
      BY <1>1, <1>2, <3>1, <3>2
    <3>5. c.alarm => c.url \in flagged'
      BY <1>2, <3>1, <3>2 DEF Established
    <3>6. Established(c)'
      BY <3>1, <3>2, <3>3, <3>4, <3>5 DEF Established
    <3>7. Established(check[v])'
      BY <3>2, <3>6 DEF Established
    <3> QED
      BY <3>2, <3>7
  <2> QED
    BY <2>1, <2>2
<1>4. ChecksSound' /\ check' \in [Validations -> Checks \cup {Idle}]
  <2>1. DOMAIN check' = Validations /\ check' = [v \in Validations |-> check'[v]]
    BY DEF ThreatListChanges
  <2> QED
    BY <1>3, <2>1 DEF ChecksSound
<1>5. SafetyTypeOK'
  BY <1>1, <1>2, <1>4 DEF SafetyInv, SafetyTypeOK
<1>6. VerdictsAge'
  <2> SUFFICES ASSUME NEW w \in Urls, verdicts[w].verdict = "SAFE"
               PROVE  sinceSafe'[w] + verdicts[w].ttl <= SafeTTL
    BY <1>2 DEF VerdictsAge
  <2>1. verdicts[w] # NotCached
    BY DEF NotCached
  <2>2. verdicts[w].ttl \in 1..SafeTTL
    BY <1>1, <2>1
  <2> QED
    BY <1>1, <1>2, <2>2 DEF SafetyInv, VerdictsAge
<1>7. CleanIsSafe'
  BY <1>1, <1>2 DEF SafetyInv, CleanIsSafe
<1> QED
  BY <1>4, <1>5, <1>6, <1>7 DEF SafetyInv

LEMMA TickKeeps ==
  ASSUME SafetyInv, SafetyTick
  PROVE  SafetyInv'
<1>1. /\ sinceSafe \in [Urls -> 0..SafeTTL + 1] /\ SafeTTL \in Nat \ {0}
      /\ verdicts \in [Urls -> [verdict : Verdicts, ttl : 1..SafeTTL] \cup {NotCached}]
  BY UrlSafetyAssumption DEF SafetyInv, SafetyTypeOK
<1>2. /\ \A v \in Validations : check[v] = Idle
      /\ UNCHANGED <<blocked, flagged, check>>
  BY DEF SafetyTick
<1>3. ASSUME NEW u \in Urls
      PROVE  /\ sinceSafe'[u] \in 0..SafeTTL + 1
             /\ u \notin flagged => sinceSafe'[u] = 0
             /\ verdicts'[u] \in [verdict : Verdicts, ttl : 1..SafeTTL] \cup {NotCached}
             /\ verdicts'[u].verdict = "SAFE" => sinceSafe'[u] + verdicts'[u].ttl <= SafeTTL
  <2>1. sinceSafe'[u] = IF u \notin flagged THEN 0
                        ELSE IF sinceSafe[u] > SafeTTL THEN sinceSafe[u]
                        ELSE sinceSafe[u] + 1
    BY DEF SafetyTick
  <2>2. verdicts'[u] = IF verdicts[u].ttl <= 1 THEN NotCached
                                               ELSE [verdicts[u] EXCEPT !.ttl = @ - 1]
    BY DEF SafetyTick
  <2>3. sinceSafe[u] \in 0..SafeTTL + 1
    BY <1>1
  <2>4. sinceSafe'[u] \in 0..SafeTTL + 1 /\ (u \notin flagged => sinceSafe'[u] = 0)
    BY <1>1, <2>1, <2>3
  <2>5. CASE verdicts[u].ttl <= 1
    BY <2>2, <2>4, <2>5 DEF NotCached
  <2>6. CASE ~(verdicts[u].ttl <= 1)
    <3>1. verdicts[u] # NotCached
      BY <2>6 DEF NotCached
    <3>2. verdicts[u] \in [verdict : Verdicts, ttl : 1..SafeTTL]
      BY <1>1, <3>1
    <3>3. PICK x \in [verdict : Verdicts, ttl : 1..SafeTTL] :
            x = verdicts'[u] /\ x.verdict = verdicts[u].verdict /\ x.ttl = verdicts[u].ttl - 1
      BY <1>1, <2>2, <2>6, <3>2
    <3>4. verdicts[u].verdict = "SAFE" => sinceSafe[u] + verdicts[u].ttl <= SafeTTL
      BY DEF SafetyInv, VerdictsAge
    <3>5. x.verdict = "SAFE" => sinceSafe'[u] + x.ttl <= SafeTTL
      BY <1>1, <2>1, <2>3, <3>2, <3>3, <3>4
    <3> QED
      BY <2>4, <3>3, <3>5
  <2> QED
    BY <2>5, <2>6
<1>4. /\ sinceSafe' \in [Urls -> 0..SafeTTL + 1]
      /\ verdicts' \in [Urls -> [verdict : Verdicts, ttl : 1..SafeTTL] \cup {NotCached}]
  BY <1>3 DEF SafetyTick
<1> QED
  BY <1>2, <1>3, <1>4
  DEF SafetyInv, SafetyTypeOK, ChecksSound, VerdictsAge, CleanIsSafe

\* The invariant is inductive.
LEMMA SafetyInvNext ==
  ASSUME SafetyInv, [SafetyNext]_safetyVars
  PROVE  SafetyInv'
<1>1. ASSUME NEW v \in Validations, Return(v) PROVE SafetyInv'
  BY <1>1, Rejecting DEF Return
<1>2. CASE UNCHANGED safetyVars
  BY <1>2 DEF safetyVars, SafetyInv, SafetyTypeOK, ChecksSound, Established, Barred,
     VerdictsAge, CleanIsSafe
<1>3. Listed \subseteq Urls
  BY UrlSafetyAssumption
<1> QED
  BY <1>1, <1>2, <1>3, ValidateKeeps, ResolveKeeps, QueryKeeps, ReadKeeps, FetchKeeps,
     StoreKeeps, BlockKeeps, ThreatListKeeps, TickKeeps DEF SafetyNext

LEMMA SafetyInvHolds == SafetySpec => []SafetyInv
  BY SafetyInvInit, SafetyInvNext, PTL DEF SafetySpec

-----------------------------------------------------------------------------
\* Every reachable state is well-typed.
THEOREM SafetyTypeCorrect == SafetySpec => []SafetyTypeOK
<1>1. SafetyInv => SafetyTypeOK
  BY DEF SafetyInv
<1> QED
  BY <1>1, SafetyInvHolds, PTL

\* What an accepted validation has established.
LEMMA AcceptedIsEstablished ==
  ASSUME SafetyInv, NEW v \in Validations, Accepted(v)
  PROVE  /\ check[v].seen # {} /\ \A a \in check[v].seen : Public(a)
         /\ HostKind[check[v].url.host] # "own"
         /\ ~check[v].barred
         /\ check[v].alarm => check[v].open \/ sinceSafe[check[v].url] <= SafeTTL
<1>1. Established(check[v]) /\ check[v].at = "accepted"
  BY AwaitingHasRecord DEF Accepted
<1> QED
  BY <1>1 DEF Established

\* A destination is accepted only with addresses, all of them public, and never
\* this shortener itself.
THEOREM AnswersPublicHolds == SafetySpec => []AnswersPublic
<1>1. SafetyInv => AnswersPublic
  BY AcceptedIsEstablished DEF AnswersPublic
<1> QED
  BY <1>1, SafetyInvHolds, PTL

\* A domain blocked before its validation began is refused, whatever is blocked,
\* cached or validated at the same time.
THEOREM BlockedStaysOutHolds == SafetySpec => []BlockedStaysOut
<1>1. SafetyInv => BlockedStaysOut
  BY AcceptedIsEstablished DEF BlockedStaysOut
<1> QED
  BY <1>1, SafetyInvHolds, PTL

\* A url the threat lists name passes only while Safe Browsing fails, or for a
\* verdict's life after it was clean.
THEOREM FlaggedPassesOnlyStaleHolds == SafetySpec => []FlaggedPassesOnlyStale
<1>1. SafetyInv => FlaggedPassesOnlyStale
  BY AcceptedIsEstablished DEF FlaggedPassesOnlyStale
<1> QED
  BY <1>1, SafetyInvHolds, PTL

-----------------------------------------------------------------------------
(* The creation of a link.                                                 *)

\* A name that was not asked for is the code of its row's id.
RowsNamed == \A x \in rows : ~x.alias => x.name = CodeOf[x.id]

\* The two parts of OneRowPerId.  The converse of the second is not so: a DELETE
\* that comes late leaves a row without its name.
RowsApart == \A x, y \in rows : x.id = y.id => x = y
NamesResolve == \A n \in Names : names[n] # 0 => \E x \in rows : x.id = names[n] /\ x.name = n

\* Whatever a DELETE has read was once a row, and if that row is still there, the
\* name the DELETE will take away is its own.
DeletesKnow ==
  /\ \A x \in rows : x.id \in committed
  /\ \A d \in deleting : d.id \in committed
  /\ \A d \in deleting, x \in rows : x.id = d.id => x.name = d.name

\* The id a creation holds is the id of no row there ever was, and no other
\* creation's.
Inserting(w) == writer[w].at = "insert"
HeldApart ==
  /\ \A w \in Writers :
       /\ Inserting(w) => writer[w].id \in DrawnIds \ committed
       /\ writer[w].at = "audit" => writer[w].id \in committed
       /\ writer[w].at = "count" => writer[w].payer # NoPrefix
  /\ \A v, w \in Writers :
       Inserting(v) /\ Inserting(w) /\ writer[v].id = writer[w].id => v = w

\* A payer's links that count for the quota, and its creations past the count.
Counted(p) == {x \in rows : x.payer = p /\ x.active /\ ~x.granted}
Through(p) == {w \in Writers : writer[w].at \in {"id", "insert"} /\ writer[w].payer = p}

QuotaKept ==
  \A p \in Owners \cup Prefixes :
    Quota[p] > 0 =>
      Cardinality(Counted(p)) + Cardinality(Through(p)) <= Quota[p] + Cardinality(Writers) - 1

CreationInv ==
  /\ CreationTypeOK /\ RowsNamed /\ RowsApart /\ NamesResolve /\ DeletesKnow
  /\ HeldApart /\ AuditOfCommitted
  /\ IsFiniteSet(rows) /\ QuotaKept

-----------------------------------------------------------------------------
\* What a creation past its draw is named by is a name.
LEMMA NamesAreNames ==
  ASSUME CreationTypeOK, NEW w \in Writers, Inserting(w), writer[w].id # 0
  PROVE  NameOf(writer[w]) \in Names /\ writer[w].id \in DrawnIds
<1>1. writer[w] # NoWriter
  BY DEF NoWriter, Inserting
<1>2. writer[w] \in [at : {"count", "id", "insert", "audit"}, payer : Payers,
                     want : Aliases \cup {Generated}, id : 0..MaxDrawn]
  BY <1>1 DEF CreationTypeOK
<1>3. writer[w].id \in DrawnIds
  BY <1>2, CreationAssumption DEF DrawnIds
<1> QED
  BY <1>2, <1>3 DEF NameOf, Names

\* The sets that count are finite.
LEMMA CountedFinite ==
  ASSUME IsFiniteSet(rows), NEW p
  PROVE  /\ IsFiniteSet(Counted(p)) /\ Cardinality(Counted(p)) \in Nat
         /\ IsFiniteSet(Through(p)) /\ Cardinality(Through(p)) \in Nat
         /\ Cardinality(Writers) \in Nat
         /\ Cardinality(Through(p)) <= Cardinality(Writers)
<1>1. IsFiniteSet(Writers)
  BY CreationAssumption DEF CreationAssumption
<1>2. Counted(p) \subseteq rows /\ Through(p) \subseteq Writers
  BY DEF Counted, Through
<1> QED
  BY <1>1, <1>2, FS_Subset, FS_CardinalityType

\* A step that adds nothing that counts keeps to the quota.
LEMMA QuotaStaysKept ==
  ASSUME CreationInv, IsFiniteSet(rows'),
         \A p \in Owners \cup Prefixes :
           Counted(p)' \subseteq Counted(p) /\ Through(p)' \subseteq Through(p)
  PROVE  QuotaKept'
<1> SUFFICES ASSUME NEW p \in Owners \cup Prefixes, Quota[p] > 0
             PROVE  Cardinality(Counted(p)') + Cardinality(Through(p)')
                      <= Quota[p] + Cardinality(Writers) - 1
  BY DEF QuotaKept
<1>1. /\ IsFiniteSet(Counted(p)) /\ Cardinality(Counted(p)) \in Nat
      /\ IsFiniteSet(Through(p)) /\ Cardinality(Through(p)) \in Nat
      /\ Cardinality(Writers) \in Nat
  BY CountedFinite DEF CreationInv
<1>2. /\ Cardinality(Counted(p)') <= Cardinality(Counted(p))
      /\ IsFiniteSet(Counted(p)')
  BY <1>1, FS_Subset
<1>3. /\ Cardinality(Through(p)') <= Cardinality(Through(p))
      /\ IsFiniteSet(Through(p)')
  BY <1>1, FS_Subset
<1>4. Cardinality(Counted(p)') \in Nat /\ Cardinality(Through(p)') \in Nat
  BY <1>2, <1>3, FS_CardinalityType
<1>5. Quota[p] \in Nat
  BY CreationAssumption
<1> QED
  BY <1>1, <1>2, <1>3, <1>4, <1>5 DEF CreationInv, QuotaKept

-----------------------------------------------------------------------------
LEMMA CreationInvInit == CreationInit => CreationInv
<1> SUFFICES ASSUME CreationInit PROVE CreationInv
  OBVIOUS
<1>1. CreationTypeOK
  BY CreationAssumption DEF CreationInit, CreationTypeOK
<1>2. /\ RowsNamed /\ RowsApart /\ NamesResolve /\ DeletesKnow
      /\ HeldApart /\ AuditOfCommitted
  BY DEF CreationInit, RowsNamed, RowsApart, NamesResolve, DeletesKnow, HeldApart,
     AuditOfCommitted, Inserting, NoWriter
<1>3. IsFiniteSet(rows)
  BY FS_EmptySet DEF CreationInit
<1>4. QuotaKept
  <2> SUFFICES ASSUME NEW p \in Owners \cup Prefixes, Quota[p] > 0
               PROVE  Cardinality(Counted(p)) + Cardinality(Through(p))
                        <= Quota[p] + Cardinality(Writers) - 1
    BY DEF QuotaKept
  <2>1. Counted(p) = {} /\ Through(p) = {}
    BY DEF CreationInit, Counted, Through, NoWriter
  <2>2. Quota[p] \in Nat /\ Cardinality(Writers) \in Nat
    BY <1>3, CountedFinite, CreationAssumption
  <2> QED
    BY <2>1, <2>2, FS_EmptySet
<1> QED
  BY <1>1, <1>2, <1>3, <1>4 DEF CreationInv

\* A creation that ends.
LEMMA EndKeeps ==
  ASSUME CreationInv, NEW w \in Writers, Write(w, NoWriter),
         UNCHANGED dataVars, AuditOfCommitted'
  PROVE  CreationInv'
<1>1. /\ writer \in [Writers -> [at : {"count", "id", "insert", "audit"}, payer : Payers,
                             want : Aliases \cup {Generated}, id : 0..MaxDrawn] \cup {NoWriter}]
      /\ writer' = [writer EXCEPT ![w] = NoWriter]
      /\ audited' \subseteq DrawnIds /\ UNCHANGED <<rows, names, deleting, committed>>
  BY DEF CreationInv, CreationTypeOK, Write, AuditOfCommitted, dataVars
<1>2. CreationTypeOK'
  BY <1>1 DEF CreationInv, CreationTypeOK
<1>3. \A v \in Writers : writer'[v] = writer[v] \/ writer'[v].at = "idle"
  BY <1>1 DEF NoWriter
<1>4. RowsNamed' /\ RowsApart' /\ NamesResolve' /\ DeletesKnow'
  BY <1>1 DEF CreationInv, RowsNamed, RowsApart, NamesResolve, DeletesKnow
<1>5. HeldApart'
  BY <1>1, <1>3 DEF CreationInv, HeldApart, Inserting
<1>6. QuotaKept'
  <2>1. \A p : Counted(p)' \subseteq Counted(p) /\ Through(p)' \subseteq Through(p)
    BY <1>1, <1>3 DEF Counted, Through
  <2> QED
    BY <1>1, <2>1, QuotaStaysKept DEF CreationInv
<1> QED
  BY <1>1, <1>2, <1>4, <1>5, <1>6 DEF CreationInv

CreationRecords ==
  [at : {"count", "id", "insert", "audit"}, payer : Payers,
   want : Aliases \cup {Generated}, id : 0..MaxDrawn]

LEMMA WriterRecords ==
  ASSUME CreationInv, NEW w \in Writers, writer[w].at # "idle"
  PROVE  writer[w] \in CreationRecords
<1>1. writer[w] # NoWriter
  BY DEF NoWriter
<1> QED
  BY <1>1 DEF CreationInv, CreationTypeOK, CreationRecords

\* A creation that goes on, and what it must have for that.
LEMMA GoingOnKeeps ==
  ASSUME CreationInv, NEW w \in Writers, NEW c \in CreationRecords, Write(w, c),
         UNCHANGED <<dataVars, audited>>,
         c.at # "audit", c.at = "count" => c.payer # NoPrefix,
         c.at = "insert" => /\ c.id \in DrawnIds \ committed
                            /\ \A v \in Writers : Inserting(v) => writer[v].id # c.id,
         QuotaKept'
  PROVE  CreationInv'
<1>1. /\ writer \in [Writers -> CreationRecords \cup {NoWriter}]
      /\ writer' = [writer EXCEPT ![w] = c]
      /\ UNCHANGED <<rows, names, deleting, committed, audited>>
  BY DEF CreationInv, CreationTypeOK, Write, CreationRecords, dataVars
<1>2. CreationTypeOK'
  <2>1. writer' \in [Writers -> CreationRecords \cup {NoWriter}]
    BY <1>1
  <2> QED
    BY <1>1, <2>1 DEF CreationInv, CreationTypeOK, CreationRecords
<1>3. RowsNamed' /\ RowsApart' /\ NamesResolve' /\ DeletesKnow' /\ AuditOfCommitted'
  BY <1>1 DEF CreationInv, RowsNamed, RowsApart, NamesResolve, DeletesKnow, AuditOfCommitted
<1>4. HeldApart'
  <2>1. \A v \in Writers : writer'[v] = IF v = w THEN c ELSE writer[v]
    BY <1>1
  <2> QED
    BY <1>1, <2>1 DEF CreationInv, HeldApart, Inserting
<1> QED
  BY <1>1, <1>2, <1>3, <1>4 DEF CreationInv

LEMMA SubmitKeeps ==
  ASSUME CreationInv, NEW w \in Writers, NEW what \in Asks[w], Submit(w, what[1], what[2])
  PROVE  CreationInv'
<1>1. what[1] \in Payers /\ what[2] \in Aliases \cup {Generated}
  BY CreationAssumption
<1>2. PICK c \in CreationRecords :
        /\ c = [at |-> IF what[1] = NoPrefix THEN "id" ELSE "count",
                payer |-> what[1], want |-> what[2], id |-> 0]
        /\ Write(w, c)
  <2>1. 0 \in 0..MaxDrawn
    BY CreationAssumption
  <2> QED
    BY <1>1, <2>1 DEF Submit, CreationRecords
<1>3. /\ c.at = IF what[1] = NoPrefix THEN "id" ELSE "count"
      /\ c.payer = what[1]
  BY <1>2
<1>4. UNCHANGED <<dataVars, audited>> /\ UNCHANGED rows /\ writer[w] = NoWriter
  BY DEF Submit, dataVars
<1>5. QuotaKept'
  <2>1. writer' = [writer EXCEPT ![w] = c] /\ writer \in [Writers -> CreationRecords \cup {NoWriter}]
    BY <1>2 DEF Write, CreationInv, CreationTypeOK, CreationRecords
  <2>2. ASSUME NEW p \in Owners \cup Prefixes
        PROVE  Counted(p)' \subseteq Counted(p) /\ Through(p)' \subseteq Through(p)
    BY <1>3, <1>4, <2>1, CreationAssumption DEF Counted, Through
  <2> QED
    BY <1>4, <2>2, QuotaStaysKept DEF CreationInv
<1> QED
  BY <1>2, <1>3, <1>4, <1>5, GoingOnKeeps

LEMMA CountKeeps ==
  ASSUME CreationInv, NEW w \in Writers, CountActiveLinks(w)
  PROVE  CreationInv'
<1>1. UNCHANGED <<dataVars, audited>> /\ UNCHANGED rows /\ writer[w].at = "count"
  BY DEF CountActiveLinks, dataVars
<1>2. CASE Write(w, NoWriter)
  BY <1>1, <1>2, EndKeeps DEF CreationInv, AuditOfCommitted, dataVars
<1>3. CASE /\ ~(Cardinality(ActiveOf(writer[w].payer)) >= Quota[writer[w].payer])
           /\ Write(w, [writer[w] EXCEPT !.at = "id"])
  <2>1. writer[w] \in CreationRecords
    BY <1>1, WriterRecords
  <2>2. PICK c \in CreationRecords :
          c = [writer[w] EXCEPT !.at = "id"] /\ c.at = "id" /\ c.payer = writer[w].payer
    <3>1. [writer[w] EXCEPT !.at = "id"] \in CreationRecords
      BY <2>1 DEF CreationRecords
    <3>2. /\ [writer[w] EXCEPT !.at = "id"].at = "id"
          /\ [writer[w] EXCEPT !.at = "id"].payer = writer[w].payer
      BY <2>1 DEF CreationRecords
    <3> QED
      BY <3>1, <3>2
  <2>3. /\ writer' = [writer EXCEPT ![w] = c]
        /\ writer \in [Writers -> CreationRecords \cup {NoWriter}]
    BY <1>3, <2>2 DEF Write, CreationInv, CreationTypeOK, CreationRecords
  <2>4. QuotaKept'
    <3> SUFFICES ASSUME NEW p \in Owners \cup Prefixes, Quota[p] > 0
                 PROVE  Cardinality(Counted(p)') + Cardinality(Through(p)')
                          <= Quota[p] + Cardinality(Writers) - 1
      BY DEF QuotaKept
    <3>1. Counted(p)' = Counted(p)
      BY <1>1 DEF Counted
    <3>2. CASE p # c.payer
      <4>1. Through(p)' = Through(p)
        BY <2>3, <3>2, <1>1, <2>2 DEF Through
      <4> QED
        BY <3>1, <4>1 DEF CreationInv, QuotaKept
    <3>3. CASE p = c.payer
      <4>1. IsFiniteSet(rows) /\ IsFiniteSet(rows') /\ Quota[p] \in Nat
        BY <1>1, CreationAssumption DEF CreationInv
      <4>2. ActiveOf(p) \subseteq rows /\ Counted(p) \subseteq ActiveOf(p)
        BY DEF ActiveOf, Counted
      <4>3. IsFiniteSet(ActiveOf(p))
        BY <4>1, <4>2, FS_Subset
      <4>4. /\ Cardinality(ActiveOf(p)) \in Nat
            /\ Cardinality(Counted(p)) <= Cardinality(ActiveOf(p))
        BY <4>2, <4>3, FS_Subset, FS_CardinalityType
      <4>5. Cardinality(ActiveOf(p)) < Quota[p]
        BY <1>3, <2>2, <3>3, <4>1, <4>4
      <4>6. /\ Cardinality(Through(p)') \in Nat /\ Cardinality(Writers) \in Nat
            /\ Cardinality(Through(p)') <= Cardinality(Writers)
        <5>1. Through(p)' \subseteq Writers /\ IsFiniteSet(Writers)
          BY CreationAssumption DEF Through, CreationAssumption
        <5> QED
          BY <5>1, FS_Subset, FS_CardinalityType
      <4>7. Cardinality(Counted(p)) \in Nat
        BY <4>1, CountedFinite
      <4> QED
        BY <3>1, <4>1, <4>4, <4>5, <4>6, <4>7
    <3> QED
      BY <3>2, <3>3
  <2> QED
    BY <1>1, <1>3, <2>2, <2>4, GoingOnKeeps
<1> QED
  BY <1>2, <1>3 DEF CountActiveLinks

\* What a draw does to the creation that draws.
LEMMA NextIdDraws ==
  ASSUME CreationInv, NEW w \in Writers, NextId(w)
  PROVE  /\ UNCHANGED <<dataVars, audited>> /\ writer[w].at = "id"
         /\ \E c \in CreationRecords :
              /\ Write(w, c) /\ c.at = "insert" /\ c.payer = writer[w].payer
              /\ c.id \in DrawnIds \ committed
              /\ \A v \in Writers : HeldId(v) # c.id
<1>1. UNCHANGED <<dataVars, audited>> /\ writer[w].at = "id"
  BY DEF NextId
<1>2. PICK i \in DrawnIds \ (committed \cup {HeldId(v) : v \in Writers}) :
        Write(w, [writer[w] EXCEPT !.at = "insert", !.id = i])
  BY DEF NextId
<1>3. writer[w] \in CreationRecords
  BY <1>1, WriterRecords
<1> DEFINE next == [writer[w] EXCEPT !.at = "insert", !.id = i]
<1>4. i \in 0..MaxDrawn
  BY CreationAssumption DEF DrawnIds
<1>5. next \in CreationRecords
  BY <1>3, <1>4 DEF CreationRecords
<1>6. next.at = "insert" /\ next.id = i /\ next.payer = writer[w].payer
  BY <1>3 DEF CreationRecords
<1>7. Write(w, next)
  BY <1>2
<1> HIDE DEF next
<1> QED
  BY <1>1, <1>2, <1>5, <1>6, <1>7

LEMMA NextIdKeeps ==
  ASSUME CreationInv, NEW w \in Writers, NextId(w)
  PROVE  CreationInv'
<1>1. UNCHANGED <<dataVars, audited>> /\ UNCHANGED rows /\ writer[w].at = "id"
  BY NextIdDraws DEF dataVars
<1>2. PICK c \in CreationRecords :
        /\ Write(w, c) /\ c.at = "insert" /\ c.payer = writer[w].payer
        /\ c.id \in DrawnIds \ committed
        /\ \A v \in Writers : HeldId(v) # c.id
  BY NextIdDraws
<1>3. QuotaKept'
  <2>1. /\ writer' = [writer EXCEPT ![w] = c]
        /\ writer \in [Writers -> CreationRecords \cup {NoWriter}]
    BY <1>2 DEF Write, CreationInv, CreationTypeOK, CreationRecords
  <2>2. \A p : Counted(p)' \subseteq Counted(p) /\ Through(p)' \subseteq Through(p)
    BY <1>1, <1>2, <2>1 DEF Counted, Through
  <2> QED
    BY <1>1, <2>2, QuotaStaysKept DEF CreationInv
<1>4. \A v \in Writers : Inserting(v) => writer[v].id # c.id
  BY <1>2 DEF Inserting, HeldId
<1> QED
  BY <1>1, <1>2, <1>3, <1>4, GoingOnKeeps

LEMMA CreateKeeps ==
  ASSUME CreationInv, NEW w \in Writers, CreateLink(w)
  PROVE  CreationInv'
<1> DEFINE c == writer[w]
           n == NameOf(writer[w])
<1>1. /\ c.at = "insert" /\ names[n] = 0
      /\ names' = [names EXCEPT ![n] = c.id]
      /\ committed' = committed \cup {c.id}
      /\ UNCHANGED <<deleting, audited>>
  BY DEF CreateLink
<1>2. c \in CreationRecords /\ c.id \in DrawnIds \ committed
  BY <1>1, WriterRecords DEF CreationInv, HeldApart, Inserting
<1>3. /\ MaxDrawn \in Nat /\ c.id # 0
      /\ c.id \in 0..MaxDrawn /\ c.payer \in Payers
  BY <1>2, CreationAssumption DEF CreationRecords, DrawnIds
<1>4. n \in Names /\ c.id \in DrawnIds
  BY <1>1, <1>3, NamesAreNames DEF CreationInv, Inserting
<1>5. PICK x \in [id : DrawnIds, name : Names, payer : Payers, alias : BOOLEAN,
                  active : BOOLEAN, granted : BOOLEAN] :
        /\ x.id = c.id /\ x.name = n /\ x.payer = c.payer
        /\ x.alias = (c.want # Generated) /\ x.active /\ ~x.granted
        /\ rows' = rows \cup {x}
  <2> DEFINE new == [id |-> c.id, name |-> n, payer |-> c.payer, alias |-> c.want # Generated,
                     active |-> TRUE, granted |-> FALSE]
  <2>1. new \in [id : DrawnIds, name : Names, payer : Payers, alias : BOOLEAN,
                 active : BOOLEAN, granted : BOOLEAN]
    BY <1>3, <1>4
  <2>2. rows' = rows \cup {new}
    BY DEF CreateLink
  <2>3. /\ new.id = c.id /\ new.name = n /\ new.payer = c.payer
        /\ new.alias = (c.want # Generated) /\ new.active /\ ~new.granted
    OBVIOUS
  <2> HIDE DEF new, c, n
  <2> QED
    BY <2>1, <2>2, <2>3
<1>6. PICK d \in CreationRecords \cup {NoWriter} :
        /\ writer' = [writer EXCEPT ![w] = d]
        /\ \/ d.at = "idle"
           \/ d.at = "audit" /\ d.id = c.id
  <2>1. CASE Write(w, NoWriter)
    <3>1. NoWriter.at = "idle" /\ NoWriter \in CreationRecords \cup {NoWriter}
      BY DEF NoWriter
    <3>2. writer' = [writer EXCEPT ![w] = NoWriter]
      BY <2>1 DEF Write
    <3> QED
      BY <3>1, <3>2
  <2>2. CASE Write(w, [c EXCEPT !.at = "audit"])
    <3> DEFINE next == [c EXCEPT !.at = "audit"]
    <3>1. next \in CreationRecords
      BY <1>2 DEF CreationRecords
    <3>2. next.at = "audit" /\ next.id = c.id
      BY <1>2 DEF CreationRecords
    <3>3. writer' = [writer EXCEPT ![w] = next]
      BY <2>2 DEF Write
    <3> HIDE DEF next
    <3> QED
      BY <3>1, <3>2, <3>3
  <2> QED
    BY <2>1, <2>2 DEF CreateLink
<1> HIDE DEF c, n
<1>7. /\ writer \in [Writers -> CreationRecords \cup {NoWriter}]
      /\ names \in [Names -> 0..MaxDrawn]
      /\ rows \subseteq [id : DrawnIds, name : Names, payer : Payers, alias : BOOLEAN,
                         active : BOOLEAN, granted : BOOLEAN]
      /\ committed \subseteq DrawnIds /\ audited \subseteq DrawnIds
  BY DEF CreationInv, CreationTypeOK, CreationRecords
<1>8. writer' \in [Writers -> CreationRecords \cup {NoWriter}]
  BY <1>6, <1>7
<1>9. CreationTypeOK'
  BY <1>1, <1>3, <1>4, <1>5, <1>7, <1>8 DEF CreationInv, CreationTypeOK, CreationRecords
<1>10. RowsNamed' /\ NamesResolve'
  <2>1. ~x.alias => x.name = CodeOf[x.id]
    BY <1>5 DEF NameOf, c, n
  <2>2. RowsNamed'
    BY <1>5, <2>1 DEF CreationInv, RowsNamed
  <2>3. \A m \in Names : names'[m] = IF m = n THEN c.id ELSE names[m]
    BY <1>1, <1>7
  <2>4. NamesResolve'
    BY <1>5, <2>3 DEF CreationInv, NamesResolve
  <2> QED
    BY <2>2, <2>4
<1>11. RowsApart' /\ DeletesKnow'
  <2>1. x.id \notin committed /\ \A y \in rows : y.id # x.id
    BY <1>2, <1>5 DEF CreationInv, DeletesKnow
  <2>2. RowsApart'
    BY <1>5, <2>1 DEF CreationInv, RowsApart
  <2>3. DeletesKnow'
    BY <1>1, <1>5, <2>1 DEF CreationInv, DeletesKnow
  <2> QED
    BY <2>2, <2>3
<1>12. HeldApart'
  <2>1. \A v \in Writers : v # w => writer'[v] = writer[v]
    BY <1>6, <1>7
  <2>2. writer'[w] = d
    BY <1>6, <1>7
  <2>3. \A v \in Writers : v # w /\ Inserting(v) => writer[v].id # c.id
    BY <1>1 DEF CreationInv, HeldApart, Inserting, c
  <2>4. ASSUME NEW v \in Writers
        PROVE  /\ Inserting(v)' => writer'[v].id \in DrawnIds \ committed'
               /\ writer'[v].at = "audit" => writer'[v].id \in committed'
               /\ writer'[v].at = "count" => writer'[v].payer # NoPrefix
    BY <1>1, <1>6, <2>1, <2>2, <2>3 DEF CreationInv, HeldApart, Inserting
  <2>5. \A u, v \in Writers :
          Inserting(u)' /\ Inserting(v)' /\ writer'[u].id = writer'[v].id => u = v
    BY <1>6, <2>1, <2>2 DEF CreationInv, HeldApart, Inserting
  <2> QED
    BY <2>4, <2>5 DEF HeldApart, Inserting
<1>13. IsFiniteSet(rows')
  BY <1>5, FS_AddElement DEF CreationInv
<1>14. QuotaKept'
  <2> SUFFICES ASSUME NEW p \in Owners \cup Prefixes, Quota[p] > 0
               PROVE  Cardinality(Counted(p)') + Cardinality(Through(p)')
                        <= Quota[p] + Cardinality(Writers) - 1
    BY DEF QuotaKept
  <2>1. \A v \in Writers : writer'[v] = IF v = w THEN d ELSE writer[v]
    BY <1>6, <1>7
  <2>2. Through(p)' = Through(p) \ {w}
    BY <1>6, <2>1 DEF Through
  <2>3. /\ IsFiniteSet(Counted(p)) /\ Cardinality(Counted(p)) \in Nat
        /\ IsFiniteSet(Through(p)) /\ Cardinality(Through(p)) \in Nat
        /\ Cardinality(Writers) \in Nat /\ Quota[p] \in Nat
    BY CountedFinite, CreationAssumption DEF CreationInv
  <2>4. Cardinality(Through(p)') = IF w \in Through(p) THEN Cardinality(Through(p)) - 1
                                                       ELSE Cardinality(Through(p))
    <3>1. Cardinality(Through(p) \ {w}) = IF w \in Through(p) THEN Cardinality(Through(p)) - 1
                                                              ELSE Cardinality(Through(p))
      BY <2>3, FS_RemoveElement
    <3> QED
      BY <2>2, <3>1
  <2>5. Cardinality(Counted(p)) + Cardinality(Through(p)) <= Quota[p] + Cardinality(Writers) - 1
    BY DEF CreationInv, QuotaKept
  <2>6. CASE p = x.payer
    <3>1. Counted(p)' = Counted(p) \cup {x}
      BY <1>5, <2>6 DEF Counted
    <3>2. Cardinality(Counted(p)') <= Cardinality(Counted(p)) + 1 /\ Cardinality(Counted(p)') \in Nat
      <4>1. Cardinality(Counted(p) \cup {x}) =
              IF x \in Counted(p) THEN Cardinality(Counted(p)) ELSE Cardinality(Counted(p)) + 1
        BY <2>3, FS_AddElement
      <4> QED
        BY <2>3, <3>1, <4>1
    <3>3. w \in Through(p)
      BY <1>1, <1>5, <2>6 DEF Through, c
    <3> QED
      BY <2>3, <2>4, <2>5, <3>2, <3>3
  <2>7. CASE p # x.payer
    <3>1. Counted(p)' = Counted(p)
      BY <1>5, <2>7 DEF Counted
    <3> QED
      BY <2>3, <2>4, <2>5, <3>1
  <2> QED
    BY <2>6, <2>7
<1> QED
  BY <1>1, <1>9, <1>10, <1>11, <1>12, <1>13, <1>14 DEF CreationInv, AuditOfCommitted

LEMMA RecordKeeps ==
  ASSUME CreationInv, NEW w \in Writers, RecordAudit(w)
  PROVE  CreationInv'
<1>1. writer[w].id \in committed
  BY DEF RecordAudit, CreationInv, HeldApart
<1>2. AuditOfCommitted'
  BY <1>1 DEF RecordAudit, dataVars, CreationInv, AuditOfCommitted
<1> QED
  BY <1>2, EndKeeps DEF RecordAudit

\* A DELETE finds a link, and knows its name from then on.
LEMMA ResolveDeleteKeeps ==
  ASSUME CreationInv, NEW x \in rows, ResolveDelete(x)
  PROVE  CreationInv'
<1>1. /\ deleting' = deleting \cup {[id |-> x.id, name |-> x.name]}
      /\ UNCHANGED <<rows, names, writer, audited, committed>>
  BY DEF ResolveDelete
<1>2. x.id \in DrawnIds /\ x.name \in Names /\ x.id \in committed
  BY DEF CreationInv, CreationTypeOK, DeletesKnow
<1>3. CreationTypeOK'
  BY <1>1, <1>2 DEF CreationInv, CreationTypeOK
<1>4. DeletesKnow'
  BY <1>1, <1>2 DEF CreationInv, DeletesKnow, RowsApart
<1>5. RowsNamed' /\ RowsApart' /\ NamesResolve' /\ HeldApart' /\ AuditOfCommitted'
  BY <1>1 DEF CreationInv, RowsNamed, RowsApart, NamesResolve, HeldApart, Inserting,
     AuditOfCommitted
<1>6. QuotaKept'
  BY <1>1 DEF CreationInv, QuotaKept, Counted, Through
<1> QED
  BY <1>1, <1>3, <1>4, <1>5, <1>6 DEF CreationInv

\* It takes the name away from whichever link has it, and the row it found, if
\* that is still there: so no name is left to resolve to a row that went.
LEMMA CommitDeleteKeeps ==
  ASSUME CreationInv, NEW d \in deleting, CommitDelete(d)
  PROVE  CreationInv'
<1>1. /\ names' = [names EXCEPT ![d.name] = 0]
      /\ rows' = {x \in rows : x.id # d.id}
      /\ UNCHANGED <<deleting, writer, audited, committed>>
  BY DEF CommitDelete
<1>2. /\ names \in [Names -> 0..MaxDrawn] /\ 0 \in 0..MaxDrawn
      /\ d.name \in Names
  BY CreationAssumption DEF CreationInv, CreationTypeOK
<1>3. CreationTypeOK'
  BY <1>1, <1>2 DEF CreationInv, CreationTypeOK
<1>4. NamesResolve'
  <2> SUFFICES ASSUME NEW n \in Names, names'[n] # 0
               PROVE  \E x \in rows' : x.id = names'[n] /\ x.name = n
    BY DEF NamesResolve
  <2>1. n # d.name /\ names'[n] = names[n]
    BY <1>1, <1>2
  <2>2. PICK x \in rows : x.id = names[n] /\ x.name = n
    BY <2>1 DEF CreationInv, NamesResolve
  <2>3. x.id # d.id
    BY <2>1, <2>2 DEF CreationInv, DeletesKnow
  <2> QED
    BY <1>1, <2>1, <2>2, <2>3
<1>5. RowsNamed' /\ RowsApart' /\ DeletesKnow' /\ HeldApart' /\ AuditOfCommitted'
  BY <1>1 DEF CreationInv, RowsNamed, RowsApart, DeletesKnow, HeldApart, Inserting,
     AuditOfCommitted
<1>6. IsFiniteSet(rows')
  BY <1>1, FS_Subset DEF CreationInv
<1>7. QuotaKept'
  <2>1. \A p : Counted(p)' \subseteq Counted(p) /\ Through(p)' \subseteq Through(p)
    BY <1>1 DEF Counted, Through
  <2> QED
    BY <1>6, <2>1, QuotaStaysKept
<1> QED
  BY <1>3, <1>4, <1>5, <1>6, <1>7 DEF CreationInv

LEMMA EndDeleteKeeps ==
  ASSUME CreationInv, NEW d \in deleting, EndDelete(d)
  PROVE  CreationInv'
<1>1. deleting' = deleting \ {d} /\ UNCHANGED <<rows, names, writer, audited, committed>>
  BY DEF EndDelete
<1>2. CreationTypeOK' /\ DeletesKnow'
  BY <1>1 DEF CreationInv, CreationTypeOK, DeletesKnow
<1>3. RowsNamed' /\ RowsApart' /\ NamesResolve' /\ HeldApart' /\ AuditOfCommitted'
  BY <1>1 DEF CreationInv, RowsNamed, RowsApart, NamesResolve, HeldApart, Inserting,
     AuditOfCommitted
<1>4. QuotaKept'
  BY <1>1 DEF CreationInv, QuotaKept, Counted, Through
<1> QED
  BY <1>1, <1>2, <1>3, <1>4 DEF CreationInv

\* A row that is edited, and does not start to count for anybody.
LEMMA ReplaceKeeps ==
  ASSUME CreationInv, NEW x \in rows,
         NEW y \in [id : DrawnIds, name : Names, payer : Payers, alias : BOOLEAN,
                    active : BOOLEAN, granted : BOOLEAN],
         Replace(x, y), y.id = x.id, y.name = x.name, y.alias = x.alias,
         y.active => y.granted
  PROVE  CreationInv'
<1>1. /\ rows' = (rows \ {x}) \cup {y}
      /\ UNCHANGED <<names, deleting, writer, audited, committed>>
  BY DEF Replace
<1>2. CreationTypeOK'
  BY <1>1 DEF CreationInv, CreationTypeOK
<1>3. /\ RowsNamed' /\ RowsApart' /\ NamesResolve' /\ DeletesKnow'
      /\ HeldApart' /\ AuditOfCommitted'
  BY <1>1 DEF CreationInv, RowsNamed, RowsApart, NamesResolve, DeletesKnow, HeldApart,
     Inserting, AuditOfCommitted
<1>4. IsFiniteSet(rows')
  BY <1>1, FS_RemoveElement, FS_AddElement DEF CreationInv
<1>5. QuotaKept'
  <2>1. \A p : Counted(p)' \subseteq Counted(p) /\ Through(p)' \subseteq Through(p)
    BY <1>1 DEF Counted, Through
  <2> QED
    BY <1>4, <2>1, QuotaStaysKept
<1> QED
  BY <1>2, <1>3, <1>4, <1>5 DEF CreationInv

\* The invariant is inductive.
LEMMA CreationInvNext ==
  ASSUME CreationInv, [CreationNext]_creationVars
  PROVE  CreationInv'
<1>1. ASSUME NEW w \in Writers, NameConflict(w) \/ GiveUp(w) PROVE CreationInv'
  BY <1>1, EndKeeps DEF NameConflict, GiveUp, dataVars, CreationInv, AuditOfCommitted
<1>2. ASSUME NEW x \in rows, Deactivate(x) PROVE CreationInv'
  <2> DEFINE y == [x EXCEPT !.active = FALSE, !.granted = FALSE]
  <2>1. Replace(x, y)
    BY <1>2 DEF Deactivate
  <2>2. NoPrefix \in Payers
    BY DEF Payers
  <2>3. /\ y \in [id : DrawnIds, name : Names, payer : Payers, alias : BOOLEAN,
                  active : BOOLEAN, granted : BOOLEAN]
        /\ y.id = x.id /\ y.name = x.name /\ y.alias = x.alias
        /\ y.active => y.granted
    <3>1. x \in [id : DrawnIds, name : Names, payer : Payers, alias : BOOLEAN,
                 active : BOOLEAN, granted : BOOLEAN]
      BY DEF CreationInv, CreationTypeOK
    <3> QED
      BY <2>2, <3>1
  <2> HIDE DEF y
  <2> QED
    BY <2>1, <2>3, ReplaceKeeps
<1>3. ASSUME NEW x \in rows, Revive(x) PROVE CreationInv'
  <2> DEFINE y == [x EXCEPT !.active = TRUE, !.granted = TRUE]
  <2>1. Replace(x, y)
    BY <1>3 DEF Revive
  <2>2. NoPrefix \in Payers
    BY DEF Payers
  <2>3. /\ y \in [id : DrawnIds, name : Names, payer : Payers, alias : BOOLEAN,
                  active : BOOLEAN, granted : BOOLEAN]
        /\ y.id = x.id /\ y.name = x.name /\ y.alias = x.alias
        /\ y.active => y.granted
    <3>1. x \in [id : DrawnIds, name : Names, payer : Payers, alias : BOOLEAN,
                 active : BOOLEAN, granted : BOOLEAN]
      BY DEF CreationInv, CreationTypeOK
    <3> QED
      BY <2>2, <3>1
  <2> HIDE DEF y
  <2> QED
    BY <2>1, <2>3, ReplaceKeeps
<1>4. ASSUME NEW x \in rows, NEW u \in Owners, ClaimLink(x, u) PROVE CreationInv'
  <2> DEFINE y == [x EXCEPT !.payer = u, !.granted = x.active]
  <2>1. Replace(x, y)
    BY <1>4 DEF ClaimLink
  <2>2. u \in Payers
    BY DEF Payers
  <2>3. /\ y \in [id : DrawnIds, name : Names, payer : Payers, alias : BOOLEAN,
                  active : BOOLEAN, granted : BOOLEAN]
        /\ y.id = x.id /\ y.name = x.name /\ y.alias = x.alias
        /\ y.active => y.granted
    <3>1. x \in [id : DrawnIds, name : Names, payer : Payers, alias : BOOLEAN,
                 active : BOOLEAN, granted : BOOLEAN]
      BY DEF CreationInv, CreationTypeOK
    <3> QED
      BY <2>2, <3>1
  <2> HIDE DEF y
  <2> QED
    BY <2>1, <2>3, ReplaceKeeps
<1>5. CASE UNCHANGED creationVars
  BY <1>5 DEF creationVars, CreationInv, CreationTypeOK, RowsNamed, RowsApart,
     NamesResolve, DeletesKnow, HeldApart, Inserting, AuditOfCommitted, QuotaKept, Counted,
     Through
<1> QED
  BY <1>1, <1>2, <1>3, <1>4, <1>5, SubmitKeeps, CountKeeps, NextIdKeeps, CreateKeeps,
     RecordKeeps, ResolveDeleteKeeps, CommitDeleteKeeps, EndDeleteKeeps DEF CreationNext

LEMMA CreationInvHolds == CreationSpec => []CreationInv
  BY CreationInvInit, CreationInvNext, PTL DEF CreationSpec

-----------------------------------------------------------------------------
\* Every reachable state is well-typed.
THEOREM CreationTypeCorrect == CreationSpec => []CreationTypeOK
<1>1. CreationInv => CreationTypeOK
  BY DEF CreationInv
<1> QED
  BY <1>1, CreationInvHolds, PTL

\* However many creations and DELETEs run at once, an id is one row's and a name
\* resolves to a row that carries it, or to none.
THEOREM OneRowPerIdHolds == CreationSpec => []OneRowPerId
<1>1. CreationInv => OneRowPerId
  BY DEF CreationInv, RowsApart, NamesResolve, OneRowPerId
<1> QED
  BY <1>1, CreationInvHolds, PTL

\* A generated code collides with nothing but a name somebody asked for.
THEOREM OnlySquattedConflictsHolds == CreationSpec => []OnlySquattedConflicts
<1>1. ASSUME CreationInv PROVE OnlySquattedConflicts
  <2> SUFFICES ASSUME NEW w \in Writers, Inserting(w), writer[w].want = Generated,
                      NEW x \in rows, x.name = NameOf(writer[w]), ~x.alias
               PROVE  FALSE
    <3>1. \A x \in rows : x.alias \in BOOLEAN
      BY <1>1 DEF CreationInv, CreationTypeOK
    <3> QED
      BY <3>1 DEF OnlySquattedConflicts, Inserting
  <2>1. writer[w].id \in DrawnIds \ committed
    BY <1>1 DEF CreationInv, HeldApart
  <2>2. writer[w].id # x.id /\ x.id \in DrawnIds
    BY <1>1, <2>1 DEF CreationInv, CreationTypeOK, DeletesKnow
  <2>3. CodeOf[writer[w].id] = CodeOf[x.id]
    BY <1>1 DEF CreationInv, RowsNamed, NameOf
  <2> QED
    BY <2>1, <2>2, <2>3, CreationAssumption
<1> QED
  BY <1>1, CreationInvHolds, PTL

\* The audit has no record of a creation that failed.
THEOREM AuditOfCommittedHolds == CreationSpec => []AuditOfCommitted
<1>1. CreationInv => AuditOfCommitted
  BY DEF CreationInv
<1> QED
  BY <1>1, CreationInvHolds, PTL

\* Creations in flight overshoot a quota by one less than there are of them.
THEOREM QuotaOvershootHolds == CreationSpec => []QuotaOvershoot
<1>1. ASSUME CreationInv PROVE QuotaOvershoot
  <2> SUFFICES ASSUME NEW p \in Owners \cup Prefixes, Quota[p] > 0
               PROVE  Cardinality({x \in ActiveOf(p) : ~x.granted})
                        <= Quota[p] + Cardinality(Writers) - 1
    BY DEF QuotaOvershoot
  <2>1. {x \in ActiveOf(p) : ~x.granted} = Counted(p)
    BY DEF ActiveOf, Counted
  <2>2. /\ Cardinality(Counted(p)) \in Nat /\ Cardinality(Through(p)) \in Nat
        /\ Cardinality(Writers) \in Nat /\ Quota[p] \in Nat
    BY <1>1, CountedFinite, CreationAssumption DEF CreationInv
  <2>3. Cardinality(Counted(p)) + Cardinality(Through(p)) <= Quota[p] + Cardinality(Writers) - 1
    BY <1>1 DEF CreationInv, QuotaKept
  <2>4. Cardinality({x \in ActiveOf(p) : ~x.granted}) = Cardinality(Counted(p))
    BY <2>1
  <2> QED
    BY <2>2, <2>3, <2>4
<1> QED
  BY <1>1, CreationInvHolds, PTL
=============================================================================
