------------------------------- MODULE Links -------------------------------
(***************************************************************************)
(* The life of one short code: the rows Postgres keeps for it, the key     *)
(* Redis keeps for it, and the requests of any number of replicas that     *)
(* read and write both.                                                    *)
(*                                                                         *)
(*   GET /:code                  routes/redirect.ts                        *)
(*   POST /api/v1/shorten        application/shorten, PostgresLinkRepository *)
(*   PATCH, DELETE, claim        routes/links.ts                           *)
(*   POST /admin/disable-link    routes/admin.ts                           *)
(*                                                                         *)
(* Codes share no state, so one code stands for all.  A handler is cut at  *)
(* its awaits: each database or Redis call is one step, together with the  *)
(* synchronous code that runs until the next call.  What a handler carries *)
(* over an await (the row it read, the write it decided on) is in req, and *)
(* may be stale when it is used.  An early return that changes nothing     *)
(* (404, 403, 409, a cache hit) is a stuttering step and has no action.    *)
(*                                                                         *)
(* A code may be used again: deleting a link frees its alias, and the next *)
(* creation gives the code a link with a new id.                           *)
(***************************************************************************)
EXTENDS UrlCache, Naturals, FiniteSets

CONSTANTS
  Requests,      \* slots for requests in flight, over all replicas
  Users,         \* signed-in users
  Anon,          \* no user
  MaxLinks,      \* bound: links ever created for the code
  MaxTime,       \* bound: instants of the clock
  Forms,         \* the bodies of POST /shorten tried
  Bodies,        \* the bodies of PATCH tried
  Keep,          \* a field PATCH does not name
  NoRow,         \* no row in links
  MaxOwnerWrites \* how many PATCH and DELETE requests run at once

Ids == 1..MaxLinks
Times == 0..MaxTime
Never == MaxTime + 1
Expiries == Times \cup {Never}

LinkRows == [owner : Users \cup {Anon}, url : Urls, expiresAt : Expiries,
             private : BOOLEAN, prefer301 : BOOLEAN, disabled : BOOLEAN]

FormSet == [url : Urls, expiresAt : Expiries,
            private : BOOLEAN, prefer301 : BOOLEAN]

PatchSet == [url : Urls \cup {Keep}, expiresAt : Expiries \cup {Keep},
             private : BOOLEAN \cup {Keep}, prefer301 : BOOLEAN \cup {Keep}]

KeepAll == [url |-> Keep, expiresAt |-> Keep,
            private |-> Keep, prefer301 |-> Keep]

ASSUME LinksAssumption ==
  /\ MaxLinks \in Nat /\ MaxTime \in Nat /\ MaxOwnerWrites \in Nat
  /\ Anon \notin Users
  /\ Keep \notin Urls /\ Keep \notin Expiries /\ Keep \notin BOOLEAN
  /\ NoRow \notin LinkRows
  /\ Forms \subseteq FormSet
  /\ Bodies \subseteq PatchSet \ {KeepAll}
  /\ IsFiniteSet(Requests)

VARIABLES
  lookup,     \* links_code_lookup: the id the code resolves to, or 0
  links,      \* links: id -> row, NoRow before its creation and after a DELETE
  lastId,     \* the greatest id given to this code
  now,        \* the clock
  req,        \* what each request in flight carries over an await
  marked,     \* history: the links whose disabling wrote its marker
  validated,  \* history: the destinations validateUrl has accepted
  exposed     \* history: the destinations a link had while public and 302

dbVars == <<lookup, links, lastId>>
historyVars == <<marked, validated, exposed>>
vars == <<cache, origin, lookup, links, lastId, now, req,
          marked, validated, exposed>>

Steps == {"idle", "lookup", "row", "fill", "validate", "update", "publish",
          "delete", "insert", "flag", "mark"}

RequestStates ==
  [pc : Steps, user : Users \cup {Anon}, id : Ids \cup {0},
   copy : LinkRows \cup {NoRow}, body : PatchSet,
   write : CacheValues, left : 0..3]

Idle == [pc |-> "idle", user |-> Anon, id |-> 0, copy |-> NoRow,
         body |-> KeepAll, write |-> Absent, left |-> 0]

TypeOK ==
  /\ cache \in CacheValues
  /\ origin \in Ids \cup {0}
  /\ lookup \in Ids \cup {0}
  /\ links \in [Ids -> LinkRows \cup {NoRow}]
  /\ lastId \in Ids \cup {0}
  /\ now \in Times
  /\ req \in [Requests -> RequestStates]
  /\ marked \subseteq Ids
  /\ validated \subseteq Urls
  /\ exposed \in [Ids -> SUBSET Urls]

Init ==
  /\ cache = Absent /\ origin = 0
  /\ lookup = 0 /\ lastId = 0 /\ now = 0
  /\ links = [id \in Ids |-> NoRow]
  /\ req = [r \in Requests |-> Idle]
  /\ marked = {}
  /\ validated = {}
  /\ exposed = [id \in Ids |-> {}]

-----------------------------------------------------------------------------
(* What the handlers share.                                                *)

Expired(row) == row.expiresAt <= now

\* Only these rows may be cached as a destination.
Public302(row) == ~row.private /\ ~row.prefer301

Begin(r, state) ==
  /\ req[r].pc = "idle"
  /\ req' = [req EXCEPT ![r] = state]

Proceed(r, state) == req' = [req EXCEPT ![r] = state]

Finish(r) == req' = [req EXCEPT ![r] = Idle]

Expose(id, row) ==
  exposed' = IF Public302(row)
             THEN [exposed EXCEPT ![id] = @ \cup {row.url}] ELSE exposed

-----------------------------------------------------------------------------
(* POST /api/v1/shorten, for a custom alias or a generated code.           *)

\* Private links need an owner, an expiry lies in the future, and the
\* destination passes validateUrl.
ShortenValidate(r, user, form) ==
  /\ form.private => user # Anon
  /\ form.expiresAt > now
  /\ Begin(r, [Idle EXCEPT
       !.pc = "insert", !.user = user,
       !.copy = [owner |-> user, url |-> form.url,
                 expiresAt |-> form.expiresAt, private |-> form.private,
                 prefer301 |-> form.prefer301, disabled |-> FALSE]])
  /\ validated' = validated \cup {form.url}
  /\ UNCHANGED <<cacheVars, dbVars, now, marked, exposed>>

\* createLink: lookup row and link row in one transaction, then the best
\* effort cache write of a public 302 link.
ShortenInsert(r) ==
  /\ req[r].pc = "insert"
  /\ lookup = 0
  /\ lastId < MaxLinks
  /\ LET row == req[r].copy
         id  == lastId + 1
     IN /\ lookup' = id /\ lastId' = id
        /\ links' = [links EXCEPT ![id] = row]
        /\ Expose(id, row)
        /\ IF Public302(row)
           THEN Proceed(r, [Idle EXCEPT !.pc = "fill", !.id = id,
                                        !.write = row.url])
           ELSE Finish(r)
  /\ UNCHANGED <<cacheVars, now, marked, validated>>

\* ON CONFLICT DO NOTHING found the code taken: alias_taken.
ShortenConflict(r) ==
  /\ req[r].pc = "insert"
  /\ lookup # 0
  /\ Finish(r)
  /\ UNCHANGED <<cacheVars, dbVars, now, historyVars>>

-----------------------------------------------------------------------------
(* GET /:code.  A hit answers from the cached value alone.                 *)

\* The cache read misses, or fails and degrades to Postgres.
RedirectMiss(r, user) ==
  /\ Begin(r, [Idle EXCEPT !.pc = "lookup", !.user = user])
  /\ UNCHANGED <<cacheVars, dbVars, now, historyVars>>

\* First query: the code's link id.
RedirectLookup(r) ==
  /\ req[r].pc = "lookup"
  /\ Proceed(r, IF lookup = 0
                THEN [Idle EXCEPT !.pc = "fill", !.write = "NOT_FOUND"]
                ELSE [req[r] EXCEPT !.pc = "row", !.id = lookup])
  /\ UNCHANGED <<cacheVars, dbVars, now, historyVars>>

\* Mutant: is_disabled is not read.
MutRedirectWriteDisabled(row, user) ==
  IF row = NoRow THEN {"NOT_FOUND"}
  ELSE IF Expired(row) THEN {"EXPIRED"}
  ELSE IF Public302(row) THEN {row.url} ELSE {}

\* Mutant: expires_at is not read.
MutRedirectWriteExpired(row, user) ==
  IF row = NoRow THEN {"NOT_FOUND"}
  ELSE IF row.disabled THEN {"DISABLED"}
  ELSE IF Public302(row) THEN {row.url} ELSE {}

\* What the redirect writes to the cache for the row it read: nothing for a
\* private link that is not its visitor's, for an owner's private link, and
\* for a 301.
RedirectWrite(row, user) ==
  IF row = NoRow THEN {"NOT_FOUND"}
  ELSE IF Expired(row) THEN {"EXPIRED"}
  ELSE IF row.private /\ (user = Anon \/ user # row.owner) THEN {}
  ELSE IF row.disabled THEN {"DISABLED"}
  ELSE IF Public302(row) THEN {row.url}
  ELSE {}

\* Second query: the link's row.
RedirectRow(r) ==
  /\ req[r].pc = "row"
  /\ LET writes == RedirectWrite(links[req[r].id], req[r].user)
     IN \/ /\ writes = {}
           /\ Finish(r)
        \/ \E w \in writes :
             Proceed(r, [Idle EXCEPT !.pc = "fill", !.id = req[r].id,
                                     !.write = w])
  /\ UNCHANGED <<cacheVars, dbVars, now, historyVars>>

\* The cache write of a redirect or of a creation.  Its failure is swallowed:
\* that outcome is Abandon.
Fill(r) ==
  /\ req[r].pc = "fill"
  /\ CacheWrite(req[r].write, req[r].id)
  /\ Finish(r)
  /\ UNCHANGED <<dbVars, now, historyVars>>

-----------------------------------------------------------------------------
(* PATCH and DELETE /api/v1/links/:code.                                   *)

OwnerSteps == {"validate", "update", "publish", "delete"}

\* The owner's requests overlap no more than MaxOwnerWrites allows.
OwnerMayWrite ==
  Cardinality({r \in Requests : req[r].pc \in OwnerSteps}) < MaxOwnerWrites

\* resolveLink finds a link of this user: else 404 or 403.
Owns(user) ==
  /\ lookup # 0
  /\ links[lookup] # NoRow
  /\ links[lookup].owner = user

\* Mutant: the new destination goes unchecked.
MutPatchResolve(r, user, body) ==
  /\ OwnerMayWrite
  /\ Owns(user)
  /\ ~links[lookup].disabled
  /\ Begin(r, [Idle EXCEPT !.pc = "update", !.user = user, !.id = lookup,
                           !.copy = links[lookup], !.body = body])
  /\ UNCHANGED <<cacheVars, dbVars, now, historyVars>>

\* A disabled link is refused with 409.
PatchResolve(r, user, body) ==
  /\ OwnerMayWrite
  /\ Owns(user)
  /\ ~links[lookup].disabled
  /\ Begin(r, [Idle EXCEPT
       !.pc = IF body.url = Keep THEN "update" ELSE "validate",
       !.user = user, !.id = lookup, !.copy = links[lookup], !.body = body])
  /\ UNCHANGED <<cacheVars, dbVars, now, historyVars>>

\* The new destination passes validateUrl; its rejection is Abandon.
PatchValidate(r) ==
  /\ req[r].pc = "validate"
  /\ Proceed(r, [req[r] EXCEPT !.pc = "update"])
  /\ validated' = validated \cup {req[r].body.url}
  /\ UNCHANGED <<cacheVars, dbVars, now, marked, exposed>>

NewOr(new, old) == IF new = Keep THEN old ELSE new

Patched(row, body) ==
  [row EXCEPT !.url = NewOr(body.url, @),
              !.expiresAt = NewOr(body.expiresAt, @),
              !.private = NewOr(body.private, @),
              !.prefer301 = NewOr(body.prefer301, @)]

\* Mutant: privacy is forgotten when the cache write is chosen.
MutPatchWrite(row) ==
  IF Expired(row) THEN "EXPIRED"
  ELSE IF row.prefer301 THEN Absent ELSE row.url

\* The cache write PATCH decides on, for the state it believes the row has.
PatchWrite(row) ==
  CASE Expired(row)                -> "EXPIRED"
    [] ~Expired(row) /\ row.private -> "DELETED"
    [] ~Expired(row) /\ Public302(row) -> row.url
    [] OTHER                       -> Absent

\* Mutant: the UPDATE is keyed by the code instead of the id read before.
MutPatchUpdate(r) ==
  /\ req[r].pc = "update"
  /\ IF lookup = 0 THEN UNCHANGED <<links, exposed>>
     ELSE LET row == Patched(links[lookup], req[r].body)
          IN links' = [links EXCEPT ![lookup] = row] /\ Expose(lookup, row)
  /\ Proceed(r, [Idle EXCEPT
       !.pc = "publish", !.id = req[r].id,
       !.write = PatchWrite(Patched(req[r].copy, req[r].body))])
  /\ UNCHANGED <<cacheVars, lookup, lastId, now, marked, validated>>

\* The UPDATE hits the row of this id, if it still exists, whatever the row
\* says by now; the new state is computed from the copy read before.
PatchUpdate(r) ==
  /\ req[r].pc = "update"
  /\ LET id  == req[r].id
         row == links[id]
     IN /\ IF row = NoRow THEN UNCHANGED <<links, exposed>>
           ELSE /\ links' = [links EXCEPT ![id] = Patched(row, req[r].body)]
                /\ Expose(id, Patched(row, req[r].body))
        /\ Proceed(r, [Idle EXCEPT
             !.pc = "publish", !.id = id,
             !.write = PatchWrite(Patched(req[r].copy, req[r].body))])
  /\ UNCHANGED <<cacheVars, lookup, lastId, now, marked, validated>>

\* Mutant: any user may delete.
MutDeleteResolve(r, user) ==
  /\ OwnerMayWrite
  /\ lookup # 0
  /\ Begin(r, [Idle EXCEPT !.pc = "delete", !.user = user, !.id = lookup])
  /\ UNCHANGED <<cacheVars, dbVars, now, historyVars>>

DeleteResolve(r, user) ==
  /\ OwnerMayWrite
  /\ Owns(user)
  /\ Begin(r, [Idle EXCEPT !.pc = "delete", !.user = user, !.id = lookup])
  /\ UNCHANGED <<cacheVars, dbVars, now, historyVars>>

\* Mutant: the lookup row is left behind.
MutDeleteCommit(r) ==
  /\ req[r].pc = "delete"
  /\ links' = [links EXCEPT ![req[r].id] = NoRow]
  /\ Proceed(r, [Idle EXCEPT !.pc = "publish", !.id = req[r].id,
                             !.write = "DELETED"])
  /\ UNCHANGED <<cacheVars, lookup, lastId, now, historyVars>>

\* Mutant: the link row is left behind.
MutDeleteKeepsRow(r) ==
  /\ req[r].pc = "delete"
  /\ lookup' = 0
  /\ Proceed(r, [Idle EXCEPT !.pc = "publish", !.id = req[r].id,
                             !.write = "DELETED"])
  /\ UNCHANGED <<cacheVars, links, lastId, now, historyVars>>

\* One transaction: the lookup row of this code, whichever link it names by
\* now, and the link row of the id read before.
DeleteCommit(r) ==
  /\ req[r].pc = "delete"
  /\ lookup' = 0
  /\ links' = [links EXCEPT ![req[r].id] = NoRow]
  /\ Proceed(r, [Idle EXCEPT !.pc = "publish", !.id = req[r].id,
                             !.write = "DELETED"])
  /\ UNCHANGED <<cacheVars, lastId, now, historyVars>>

\* The cache write of PATCH and DELETE.  When Redis fails the request answers
\* 500 with the database already changed: that outcome is Abandon.
Publish(r) ==
  /\ req[r].pc = "publish"
  /\ CacheWrite(req[r].write, req[r].id)
  /\ Finish(r)
  /\ UNCHANGED <<dbVars, now, historyVars>>

\* Mutant: WHERE owner_id IS NULL is dropped.
MutClaim(user) ==
  /\ lookup # 0
  /\ links[lookup] # NoRow
  /\ links' = [links EXCEPT ![lookup].owner = user]
  /\ UNCHANGED <<cacheVars, lookup, lastId, now, req, historyVars>>

\* POST /api/v1/links/claim: one UPDATE takes the code's link if it has no
\* owner.
Claim(user) ==
  /\ lookup # 0
  /\ links[lookup] # NoRow
  /\ links[lookup].owner = Anon
  /\ links' = [links EXCEPT ![lookup].owner = user]
  /\ UNCHANGED <<cacheVars, lookup, lastId, now, req, historyVars>>

-----------------------------------------------------------------------------
(* POST /admin/disable-link.                                               *)

DisableLookup(r) ==
  /\ lookup # 0
  /\ Begin(r, [Idle EXCEPT !.pc = "flag", !.id = lookup])
  /\ UNCHANGED <<cacheVars, dbVars, now, historyVars>>

\* The UPDATE may find the row deleted; the marker is written all the same.
DisableFlag(r) ==
  /\ req[r].pc = "flag"
  /\ LET id == req[r].id
     IN links' = IF links[id] = NoRow THEN links
                 ELSE [links EXCEPT ![id].disabled = TRUE]
  /\ Proceed(r, [req[r] EXCEPT !.pc = "mark", !.left = 3])
  /\ UNCHANGED <<cacheVars, lookup, lastId, now, historyVars>>

DisableMark(r) ==
  /\ req[r].pc = "mark"
  /\ SetTombstone("DISABLED", req[r].id)
  /\ marked' = marked \cup {req[r].id}
  /\ Finish(r)
  /\ UNCHANGED <<dbVars, now, validated, exposed>>

\* Mutant: the last attempt is not the last.
MutDisableMarkFails(r) ==
  /\ req[r].pc = "mark"
  /\ Proceed(r, [req[r] EXCEPT !.left = @ - 1])
  /\ UNCHANGED <<cacheVars, dbVars, now, historyVars>>

\* An attempt fails; after the third the operator is warned (cacheMarked:
\* false), which ends the request like Abandon.
DisableMarkFails(r) ==
  /\ req[r].pc = "mark"
  /\ IF req[r].left > 1
     THEN Proceed(r, [req[r] EXCEPT !.left = @ - 1])
     ELSE Finish(r)
  /\ UNCHANGED <<cacheVars, dbVars, now, historyVars>>

-----------------------------------------------------------------------------
\* A query or a cache write of a request fails, a destination is rejected, or
\* the replica stops: the request ends, what it committed stays.
Abandon(r) ==
  /\ req[r].pc # "idle"
  /\ Finish(r)
  /\ UNCHANGED <<cacheVars, dbVars, now, historyVars>>

Tick ==
  /\ now < MaxTime
  /\ now' = now + 1
  /\ UNCHANGED <<cacheVars, dbVars, req, historyVars>>

Expire == KeyExpires /\ UNCHANGED <<dbVars, now, req, historyVars>>

Advance(r) ==
  \/ ShortenInsert(r) \/ ShortenConflict(r)
  \/ RedirectLookup(r) \/ RedirectRow(r) \/ Fill(r)
  \/ PatchValidate(r) \/ PatchUpdate(r) \/ DeleteCommit(r) \/ Publish(r)
  \/ DisableFlag(r) \/ DisableMark(r)

Next ==
  \/ \E r \in Requests :
       \/ \E user \in Users \cup {Anon} :
            \/ RedirectMiss(r, user)
            \/ \E form \in Forms : ShortenValidate(r, user, form)
       \/ \E user \in Users :
            \/ DeleteResolve(r, user)
            \/ \E body \in Bodies : PatchResolve(r, user, body)
       \/ DisableLookup(r)
       \/ Advance(r)
       \/ DisableMarkFails(r)
       \/ Abandon(r)
  \/ \E user \in Users : Claim(user)
  \/ Tick
  \/ Expire

Spec == Init /\ [][Next]_vars

\* Handlers run to completion (node schedules every resolved promise), and
\* Redis expires a key nobody writes again.  Nothing obliges a client to send
\* a request, the clock to reach an instant or a request to fail.
Fairness ==
  /\ \A r \in Requests : WF_vars(Advance(r))
  /\ WF_vars(Expire)

FairSpec == Spec /\ Fairness

-----------------------------------------------------------------------------
(* Safety.                                                                 *)

Live(id) == links[id] # NoRow

\* Nothing the service points at, in the database or in the cache, has
\* skipped validateUrl: PATCH is a write path like shorten, and a pending
\* write outlives the row it was made for.
DestinationsValidated ==
  /\ cache \in Urls => cache \in validated
  /\ \A id \in Ids : Live(id) => links[id].url \in validated

\* The code never resolves to a link that is not there: creation and deletion
\* change both tables together, and a stale DELETE removes the lookup row too.
LookupResolves == lookup # 0 => Live(lookup)

\* The ownership check of a PATCH or DELETE still holds when it is used: the
\* link it was made on is gone, or belongs to the requester.
OwnedByRequester ==
  \A r \in Requests : req[r].pc \in {"validate", "update", "delete"} =>
    /\ req[r].id \in 1..lastId
    /\ Live(req[r].id) => links[req[r].id].owner = req[r].user

\* A destination reaches the cache only if its link had it while public and
\* 302, however stale the row the writer read.  It needs one PATCH or DELETE
\* at a time (MaxOwnerWrites = 1).
CachedOncePublic == cache \in Urls => cache \in exposed[origin]

\* How a row's editable part or its existence changes.
Edited(id) ==
  /\ Live(id)
  /\ links'[id] # [links[id] EXCEPT !.owner = links'[id].owner,
                                  !.disabled = links'[id].disabled]
Deleted(id) == Live(id) /\ links'[id] = NoRow

ActsFor(user, steps) ==
  \E r \in Requests : /\ req[r].user = user
                      /\ req[r].pc \in steps
                      /\ req'[r] # req[r]

\* A link is edited or deleted only by a request of the user who owns it in
\* that very step, although the ownership check was made on an earlier read
\* and the code may have passed to another user's link since.
OnlyOwnerEdits ==
  [][\A id \in Ids :
       /\ Deleted(id) => ActsFor(links[id].owner, {"delete"})
       /\ ~Deleted(id) /\ Edited(id) => ActsFor(links[id].owner, {"update"})
    ]_vars

\* A link that its code resolves to, or that is only being created, becomes one
\* no code reaches (alive, but for nobody to edit, delete or disable) only when
\* a DELETE commits that had resolved an earlier link of the code: a creation
\* never takes the code of a live link, and a link's own DELETE takes it whole.
OnlyStaleDeleteOrphans ==
  [][\A id \in Ids :
       (Live(id) => lookup = id) /\ Live(id)' /\ lookup' # id
         => \E r \in Requests : /\ req[r].pc = "delete" /\ req'[r] # req[r]
                               /\ req[r].id < id
    ]_vars

\* Ownership as the abstract specification has it.
Ownership == INSTANCE LinkOwnership WITH
  owner <- [id \in Ids |-> IF id > lastId THEN "unborn"
                           ELSE IF Live(id) THEN links[id].owner ELSE "gone"]
OwnershipSpec == Ownership!Spec

-----------------------------------------------------------------------------
(* Liveness.                                                               *)

Dark(id) == ~(cache \in Urls /\ origin = id)

\* A disabled link is eventually dark for good, whatever races, failed marker
\* writes and stale fills happen on the way.
DisabledGoesDark ==
  \A id \in Ids : (Live(id) /\ links[id].disabled) ~> []Dark(id)

\* No request that changes the code is in flight.
Quiet == \A r \in Requests :
           req[r].pc \in {"idle", "lookup", "row", "fill"}

\* What the cache says of the code is so.
Coherent ==
  CASE cache \in Urls    -> /\ lookup # 0
                           /\ links[lookup].url = cache
                           /\ links[lookup].expiresAt > now
                           /\ ~links[lookup].private
                           /\ ~links[lookup].prefer301
                           /\ ~links[lookup].disabled
    [] cache = "EXPIRED"  -> lookup # 0 /\ links[lookup].expiresAt <= now
    [] cache = "DISABLED" -> lookup # 0 /\ links[lookup].disabled
    [] cache \in {"NOT_FOUND", "DELETED"} -> lookup = 0
    [] OTHER              -> TRUE

\* Once changes stop, the cache and the database agree, and stay so.
EventuallyCoherent == <>[]Quiet => <>[]Coherent

-----------------------------------------------------------------------------
(* What comments of the code say, and the code does not do.                *)

\* cache.ts: a disabled link must never be resurrected by a racing cache
\* write; the marker always wins the race.
DisabledNeverResurrected ==
  [][\A id \in marked : origin' = id /\ cache' \in Urls
                         => cache' = cache /\ origin = id]_vars

\* links.ts: you cannot delete a link you do not own; here, a code stops
\* resolving only by a DELETE of the owner of the link it resolves to.
OnlyOwnerUnpublishes ==
  [][lookup # 0 /\ lookup' # lookup
       => ActsFor(links[lookup].owner, {"delete"})]_vars
=============================================================================
