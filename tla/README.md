# Klip, verified

TLA+ specifications of the klip URL shortener (`src/`): what its replicas,
Postgres, Redis, nginx and the browser do to each other when requests overlap,
processes die and calls fail. TLC checks small instances; TLAPS proves the safety
properties for every instance. Paths below are relative to `src/`; `app/` stands
for `app/src/`.

## The system

nginx sends requests to any number of identical node replicas. They share one
Postgres (the truth) and one Redis (a cache, rate limits, optionally the id
counter). A handler runs without interruption from one `await` to the next, so
the interleavings that matter are those of database and Redis calls, of any
number of handlers on any number of replicas.

| Component | State it keeps | Operations | Hard because | What makes it correct |
|---|---|---|---|---|
| Redirect cache `app/cache.ts` | `klipo:url:{code}`: destination, tombstone or nothing, with a TTL | conditional URL write (Lua), unconditional tombstone, DEL | writers act on rows read earlier; writes fail | cache and database converge; a marker that is lost comes back as the truth when the key expires |
| Redirect `app/routes/redirect.ts` | – | `GET /:code`: cache, two queries, fill, record click | fills race edits, deletion, disabling | a destination is cached only if its link had it while public; a disabled link goes dark |
| Links `app/routes/links.ts` | `links`, `links_code_lookup` | PATCH, DELETE, claim, list | check on a read, act after awaits; commit, then cache write | only the owner edits and deletes; a link has one owner for good; its code goes with it |
| Shorten `app/routes/shorten.ts`, `app/application`, `app/adapters/PostgresLinkRepository.ts` | same tables | validate, count quota, allocate id, insert both rows, cache | check-then-insert; aliases and generated codes share a name space | both rows or none; destinations validated; ids never repeat |
| Admin `app/routes/admin.ts` | `links.is_disabled`, `blocked_domains` | disable (three marker attempts), block domain, audit query | marker write may fail; races fills | disabling is terminal |
| Clicks `app/analytics/clickWriter.ts`, `recordClick` | in-memory queue, pending flush; `clicks`, `clicks_daily` | enqueue, periodic flush, drain at shutdown | two tables, several replicas, lock order, crash, shutdown order | the rollup is the sum of the rows; no click counts twice; a stop drains |
| Id counter `app/counter.ts`, `app/snowflake.ts` | Redis counter, sequence, or clock and sequence number | seed, recover, next | concurrent boots, failover, clock steps | an id is issued once |
| Codes `app/domain/codes.ts` | – | encode, decode | – | injective, round trip |
| Rate limits `app/security/rateLimit.ts` | one counter per key and window | consume; fail open or closed | shared keys, window edges, Redis outage | less than twice the limit in any window's length; no counter sticks |
| Accounts `app/auth.ts`, `app/routes/auth.ts` | `users`; signed cookies | request link, verify, register, login, logout | tokens are stateless | nobody takes over an account; no session outlives its proof by more than two lifetimes |
| URL safety `app/security/urlSafety.ts` | `blocked_domains`, verdict cache | validate, block domain | fail open, cached verdicts | only public addresses; blocked stays out; flagged passes only on a failure or a fresh verdict |
| Statistics and listing `app/routes/stats.ts`, `links.ts` | – | six parallel queries; keyset paging | not one snapshot | totals and days differ by what changed meanwhile and what was dropped |
| Partitions `db/maintenance`, `scripts/` | monthly partitions | create ahead, drop old | missing month, orphaned lookup rows | the current month exists; lookups resolve |
| Edge `nginx/` | one stored response per link | bypass, store, expire | staleness on top of staleness; one answer for everybody | serves only what an anonymous visitor may see |
| Dashboard `web/dashboard` | list, cursor, sign-in status, cookie of anonymous codes | load, load more, optimistic delete, claim, boot, sign out | answers out of order or lost | the list shows what exists; the shell names whose session it is |
| Email, webview pages, user agent, geo, metrics, health, landing page | – | pure functions and I/O | – | – |

Interactions: creation, PATCH, DELETE and disable write Postgres first and then
Redis; redirects read Redis first and, on a miss, read Postgres and write Redis.
Redirects hand clicks to the writer of their own replica; all writers share two
tables. Shutdown closes the server, drains the writer and closes the pools.

## Modules

| Module | What it is |
|---|---|
| `UrlCache` | the cache key of one code and the four operations of `cache.ts`; extended by `Links` |
| `Links` | the life of one code: both tables, the cache key and every handler that touches them |
| `LinkOwnership` | abstract specification: who owns a link, and how that may change |
| `LinksProofs` | theorems about `Links`, with their proofs |
| `Clicks` | click recording and writing, over all replicas |
| `ClickLedger` | abstract specification: the fate of a click, decided once, and the rollup |
| `Ids` | the id counter: three backends, boots, recoveries, failovers, clocks |
| `IdSource` | abstract specification: ids drawn, stored and let go, none of them shared |
| `Creation` | concurrent creations: quota, id, name, insert, audit |
| `UrlSafety` | the checks of a destination, await by await, and the block list |
| `Accounts` | accounts, magic links, sessions |
| `RateLimit` | the fixed windows, their keys, Redis going and coming back |
| `Partitions` | rolling, dropping and checking monthly partitions |
| `Stats` | the six queries of a link's statistics, and the screen over them |
| `EdgeCache` | what nginx stores and serves for one link |
| `Dashboard` | the dashboard's list, its paging, claim and optimistic removal |
| `Session` | who the dashboard says is signed in |
| `ClicksProofs`, `IdsProofs` | theorems about `Clicks` and `Ids` |
| `ShortenProofs` | theorems about `UrlSafety` and `Creation` |
| `EntranceProofs` | theorems about `RateLimit` and `EdgeCache` |
| `AccountsProofs` | theorems about `Accounts`, `Session` and `Dashboard` |
| `TablesProofs` | theorems about `Partitions` and `Stats` |
| `DataLemmas` | lemmas about finite sums, least and greatest members, for the other proofs |
| `MCLinks`, `MCClicks`, `MCIds`, `MCServices` | the instances TLC checks |

### Links

Codes share no state, so the module follows one code. `lookup` is the code's row
in `links_code_lookup` (0: none), `links` the rows of `links` by id, `cache` the
Redis key, and `req[r]` what request `r` carries over its current await: the
step it is at, the user, the id and the row it read, the body, the cache write it
has decided on. A code may be used by several links one after the other (delete,
then create again): `lastId` counts them, and a request may still hold the id of
an older one.

| Code | Actions |
|---|---|
| `POST /shorten` | `ShortenValidate`, `ShortenInsert` or `ShortenConflict`, `Fill` |
| `GET /:code` | `RedirectMiss`, `RedirectLookup`, `RedirectRow`, `Fill` (a hit changes nothing) |
| `PATCH /links/:code` | `PatchResolve`, `PatchValidate`, `PatchUpdate`, `Publish` |
| `DELETE /links/:code` | `DeleteResolve`, `DeleteCommit`, `Publish` |
| `POST /links/claim` | `Claim` |
| `POST /admin/disable-link` | `DisableLookup`, `DisableFlag`, `DisableMark` or `DisableMarkFails` |
| any failure, or the end of the replica | `Abandon` |
| TTLs, the clock | `Expire`, `Tick` |

Postgres and Redis calls are atomic steps; a transaction is one step, since no
other transaction sees its middle. An answer that changes nothing (404, 403,
409, a hit) is a stuttering step. `Abandon` may end a request at any await, so
every suffix of a handler may be missing: a failed query, a failed cache write,
a rejected destination, a killed replica.

### Clicks

A replica is one node process. `scheduled`, `resolving` and `queue` are where a
click can be before it is in a batch; `flush` is the pending flush with its batch
and the row locks its transaction holds; `stop` is how far `stopClickWriter` has
come. `rows` counts the inserts of a click, `rollup` is `clicks_daily`. `Serve`,
`Record`, `Resolve`, `Resolved` and `Unresolvable` are `recordClick`;
`TimerFlush` to `BatchTooLarge` are `flush`, `doFlush` and `writeBatch`;
`StopBegin` to `Exit` are the shutdown; `Crash` and `Restart` may come at any
step. The lock order of the UPSERT is the order keys first occur in the batch,
because `daily` is a `Map`. `BatchLimit` stands for the 6553 rows of ten
parameters that a 16-bit count can bind.

### Ids

`backend` is `COUNTER_BACKEND`; TLC checks all three in one run. `counter` is the
Redis key, `sequence` is `link_id_seq`, `clock` and `generator` are a replica's
wall clock and snowflake generator (0 stands for no timestamp, so times are one
more than in the code). `task[p]` is a recovery or alignment between the moment
it has read `MAX(link_id)` and the moment it writes; while a running replica has
one, it is the recovery barrier. `script` is a running `recover-counter.sh` with
what it will SET. `drawn[p]` is the id of a creation that is not stored yet. `stored` keeps the ids of `links_code_lookup`, nothing else of a link.

| Code | Actions |
|---|---|
| `initCounter` | `Boot`, `TaskRead`, `RaiseCounter` or `AlignSequence`, `TaskFails` |
| the `ready` listener | `Ready`, `TaskRead`, `RaiseCounter`, `TaskFails` |
| `getNextId` | `NextRedis`, `NextOffline`, `NextPostgres`, `NextSnowflake`, `TimestampExhausted` |
| `createLink`, DELETE | `Insert`, `Fail`, `Delete` |
| `scripts/recover-counter.sh` | `ScriptReads`, `ScriptSets` |
| outside | `Die`, `Failover`, `ClockMoves` |

The alignment of the sequence is one SQL statement but two steps: it reads the
sequence with its scan and calls `setval` on the result, and `nextval` waits for
neither. The Lua script is one step. `incident` records what the comments
themselves exclude, and `IssuedOnce` speaks of ids drawn before any of it: a
failover that loses INCRs, a snowflake process restarted on a clock behind its
last id, an exhausted timestamp, the boot race that `ids_boot_race` shows, and a
`recover-counter.sh` that sets the counter below an id its query did not see (see
below). One that set it below a link its query did see would break `IssuedOnce`.

`IdSource` is the least the backends promise: an id that is drawn is the id of
no link and no other creation holds it, until it is stored, burnt or, as a link,
deleted; and nothing any more once it is `void`. `Ids` implements it
(`SourceSpec`), with `void` its incidents. For snowflake, which keeps no links, every
id ever issued and not held counts as one a link may have.

### Creation

`Links` follows one name through its life; `Creation` has many names and many
payers, and of each link only what a quota counts. `writer[w]` is a creation at
the await it is at: `count` (`countActiveLinks`), `id` (`getNextId`), `insert`
(`createLink`), `audit` (`audit.record`, awaited by nobody). An anonymous client
without a usable network prefix skips the count. `CodeOf` is Hashids, any
injective function of ids; aliases may be codes of ids not drawn yet. `NextId` draws
any id that no row ever had and no other creation holds: that is `IssuedOnce` of `Ids`,
but for an id that was burnt and comes back, which nobody has seen.

A DELETE is `ResolveDelete`, the answer it holds (`deleting`), and `CommitDelete`,
which takes the lookup row by name and the row by the id that was read, as the code
does. Any number of requests may hold the same answer, so `CommitDelete` keeps it and
`EndDelete` drops it; a late one may take the name of a link created since, whose row
then stays without a name. `Deactivate`, `Revive` and `ClaimLink` are what expiry and
disabling, PATCH and claim do to a count; `granted` marks the links a payer has
without having created them, which no quota was asked about. `GiveUp` may end a
creation at any await.

### UrlSafety

`check[v]` is a validation: `Validate` (scheme, localhost, literal address),
`Resolve` (`resolve4` and `resolve6`, each of which may fail or come late),
`QueryBlocklist`, `ReadVerdict`, `Fetch` (Safe Browsing, which may fail and then
lets the url pass), `StoreVerdict`, `Return`. `BlockDomain` is the admin route,
`ThreatListChanges` the world, `SafetyTick` the age of the verdicts. A host and an
address are records of what `ipaddr.js` and the comparisons of the code tell
apart: the kind of a host, a trailing dot, the form of an address, its range and
the range of the IPv4 address it embeds.

### Accounts

Nothing is stored about a token, so a client's powers are the tokens it can
present: `held[c]` (links of its inboxes, and the session that `verify` returns in
its body) and `cookie[c]`. `RequestLogin` creates the account before it mails,
`Deliver` is SMTP, `Verify`, `Register`, `Login` and `Logout` are the routes; each
cookie may be lost with its answer. `authenticate` is `SignedInAs`. Signatures and
password hashes are ideal, and a password never leaves the client that chose it.

### RateLimit

`count` and `ttl` are the keys of Redis; `Hit` is one run of the Lua script,
with the key the code charges and the headers a proxy forwards; `HitWithoutRedis`
is the fail-open or fail-closed answer; `LosesExpiry` is the fault the script
repairs. `recent` is history: the requests admitted to each payer in the last
window's length of ticks, measured by the client's true network.

### Partitions

The partitions of the three tables by month, one row that is followed, and the
running `roll_partitions.sql` at one of its twelve statements, each of which reads
the clock for itself, commits on its own and may fail. `CheckPartitions` is
`check-partitions.sh` finding all well. The calendar is a constant: months have
any lengths.

### Stats

`raw` and `daily` are the clicks of one link in both tables. `Open`,
`ResolveLink`, six `RunQuery` in any order, `ShowStats` and `Back` are the screen
and `handleStats`; `FlushClick` and `DropClicks` are what `Clicks` and
`Partitions` do meanwhile. Each query answers from a snapshot of its own; ties of
the `LIMIT`ed referrers fall either way.

### EdgeCache

`view` is the link as the application sees it (`Links` has how that lags), `entry`
the stored answer with its age, `ask[r]` a request passed upstream. `AskEdge`,
`AppReplies` and `StoreReply` are a request; `ViewChanges` is everything that
nobody tells nginx; `EdgeTick` is the time of the entry and the cache manager.
The max-age the application sends with a 301 comes before `proxy_cache_valid`. A link
has more than one answer (`AppAnswers`) when it is private and disabled: the DISABLED
marker in Redis answers before anybody asks whose the link is.

### Dashboard

`mine`, `loose` are the server's links; `list`, `cursor`, `more` and `removing`
the state of `Dashboard.tsx` and its pending answers; `anonCodes` the cookie of the
landing page. `claims` are the claims in flight with the codes they sent: the one
`load` waits for, those of loads that have been left, and those of other tabs. Each
goes on (`ClaimAdopts`) and, if its answer arrives, clears the cookie (`ClaimEnds`),
whether or not a component still waits. A load is `Reopen` (at any time) or the
mount after `CreateInModal`, the claim, `ReadList`, `ShowList`; the rest is
`LoadMore`, `ReadMore`, `ShowMore`, `RemoveLink`, `ServerDeletes`, `RemoveEnds`,
`ClaimElsewhere`, `DeleteElsewhere`, `Stash`, and `CookieExpires`, the cookie's
max-age of 30 days. Every request may fail before or after the server has acted.

### Session

`account` is the cookie's session, which the page cannot see; `status` and `shown`
what it displays; `boot` the effect of `AuthProvider`: `VerifyToken`, `Verified`,
`ProbeSession`, `Probed`, and `Retry`. `SignOut` and `RequestLink` are the shell and
the login form; `CookieMoves` another tab, `TokenExpires` the clock.

## Runs

| Run | Expect | Instance | Shows |
|---|---|---|---|
| `links_safety` | pass | 2 requests, 2 users, 2 destinations, 2 generations of the code, any overlap | `DestinationsValidated`, `LookupResolves`, `OwnedByRequester`, `OnlyOwnerEdits`, `OnlyStaleDeleteOrphans`, and `Links` implements `LinkOwnership` |
| `links_liveness` | pass | 2 requests, 1 user, an expiring link, three kinds of PATCH, one PATCH or DELETE at a time | `CachedOncePublic`, `DisabledGoesDark`, `EventuallyCoherent` |
| `links_disable_race` | violation | 3 requests | a disabled link is cached again although its marker was written |
| `links_delete_race` | violation | 2 requests, 2 users | a DELETE removes the lookup row of somebody else's link |
| `links_overlap` | violation | as `links_liveness`, two PATCHes at a time | a destination that was never public is cached |
| `clicks_safety` | pass | 2 replicas, 4 clicks, 2 rollup keys, batches of 2, both may crash | `RollupMatchesRows`, `CountedOnce`, `OnlyUnresolvedLeftBehind`, and `Clicks` implements `ClickLedger` |
| `clicks_liveness` | pass | the same, each click bound to a replica, one may crash | `EventuallySettled`, `StopTerminates` |
| `clicks_drain` | violation | 1 click | a graceful stop leaves a click in the queue |
| `ids` | pass | each backend, 2 replicas, up to 2 links at the start, ids up to 3, 1 failover, 3 ms, the script run until an incident | `IssuedOnce`, `PastPersisted`, `BarrierLifts`, and `Ids` implements `IdSource` |
| `ids_boot_race` | violation | postgres, 2 replicas | a boot sets the sequence back |
| `ids_failover` | violation | redis, 2 replicas, 1 failover | a recovery that read too early leaves the counter stale |
| `services` | pass | one of nine parts per behaviour, see below | the nineteen properties of the table below |

The nine service modules share no variable and no step, so one run checks them
side by side: `part` says which of them a behaviour is about, and the others rest.

| Part | Instance | Properties |
|---|---|---|
| limits | 4 surfaces, a client who may name another address, limits of 1 and 2, window of 2 ticks, 2 hits a tick, 1 lost expiry, Redis going and coming back | `BurstBound`, `NoKeyStuck` |
| accounts | 1 inbox, its reader and a stranger, a link lives 1 tick and a session 2, clock to 3 | `SessionsEarned`, `AuthorityExpires` |
| safety | 2 validations, 3 urls (a name with a dot, a literal, the shortener), 3 addresses, 1 block entry with or without dots, verdicts live 1 tick | `AnswersPublic`, `BlockedStaysOut`, `FlaggedPassesOnlyStale` |
| creation | 2 creations, 3 ids, a user and an address without a network, an alias equal to the third code, quotas of 1, DELETEs of one link at a time, any number of them | `QuotaOvershoot`, `OneRowPerId`, `OnlySquattedConflicts`, `AuditOfCommitted` |
| partitions | 4 months of 1 or 2 days, 2 scripts, clicks kept 2 days, links 1 month | `RolledMeansHome`, `CheckedMeansHome`, `RetainedStored` |
| stats | 2 clicks of 3 kinds, 2 days, 2 ranges, 1 referrer shown | `StatsAgree` |
| edge | 6 views of the link, 2 requests, a 404 kept 2 ticks and a 5xx 1 | `EdgeServesAnyone` |
| dashboard | 2 links, both possibly anonymous, pages of 1, a cookie of 1, 2 claims in flight | `ListFaithful`, `AnonCodesKept` |
| session | 2 people | `ShellTellsTruth` |

Why the bounds are enough. Every property of `Links` relates one link to at most
one other link and two requests; the safety properties are also proved for any
number of each. Two destinations tell old from new, two generations of the code
give one stale id and one fresh, `MaxTime` 1 gives a link before and after its
expiry. In `Clicks`, two replicas with two keys in opposite orders are the
smallest deadlock, and four clicks the smallest number that lets both replicas
meet both keys, coalesce and overflow a batch of two. In `Ids`, two replicas are
one that boots or recovers and one that runs; two sequence numbers and three
milliseconds let a generator count, wrap, and be set back behind its last id.
Each replica draws one id at a time.

In `services` each bound is the smallest that lets the hazard happen: two ticks of
a window have an edge to straddle, and two hits reach a limit on each side of it;
a link that lives one tick and a session that lives two let a link be used late,
a session be renewed from it, and both expire before the clock stops; two
validations share a verdict that one writes while the other reads; two creations
see the same count, the third id meets the alias somebody took, and two DELETEs of
one link leave time for a creation between them; four months
of two lengths let two scripts fail in a row after one that succeeded, and let a
month's last day fall beyond the month before; two clicks may differ in day and
country, or share both; two requests store an old answer over a newer one, and
ages run past every lifetime; two links and pages of one give a full page, a
cursor whose link may go, and an empty last page; two claims are one that was left
behind and one that is waited for. All of them are proved for every other size as well.

`MaxOwnerWrites` bounds how many PATCH and DELETE requests run at once.
`CachedOncePublic` holds with one at a time and fails with two (`links_overlap`):
that is the exact border of what the code guarantees. It and the number of
generations of a code are the only bounds a theorem keeps (`CachedOncePublicHolds`,
`OnlyOwnerUnpublishesHolds`, `NoOrphanHolds`). The runs do not check for
deadlock because the system may rest: no client has to send anything.

Fairness. In `Links`, each request's next step is weakly fair (node runs every
resolved promise, a query either answers or fails) and so is the expiry of a key
(every write sets a TTL); sending a request, claiming, failing and the clock are
not. In `Clicks`, the callbacks, the timer, the statements and the steps of a
stop are weakly fair per replica, and Postgres aborts one transaction of a
deadlock; visits, crashes, restarts and failures are not. `EventuallyCoherent` is
conditional on the changes ending (`<>[]Quiet`). In `Ids`, the steps of a boot or
recovery are weakly fair and so is reconnecting; boots, crashes, creations,
failovers and clocks are not. `services` states no fairness: its properties are
invariants. What they promise about time (`AuthorityExpires`, `NoKeyStuck`,
`FlaggedPassesOnlyStale`) counts ticks instead.

## What the runs that expect a violation say

* **A lost marker** (`links_disable_race`). Only `setCachedUrl` respects the
  DISABLED marker; `setTombstone` overwrites it. A pending NOT_FOUND or EXPIRED
  of a redirect, or the tombstone of a PATCH, removes the marker, and a redirect
  that read the row while it was enabled then caches the destination. The link
  still goes dark in the end (`DisabledGoesDark`), when the key expires.
* **A DELETE too many** (`links_delete_race`). The transaction deletes the
  lookup row by code and the link row by id. With the alias freed and taken
  again in between, the lookup row is another user's.
* **Overlapping PATCHes** (`links_overlap`). Each request computes the cache
  write from its own stale read, so the cache may combine the privacy one read
  with the destination the other wrote.
* **An undrained click** (`clicks_drain`). The `setImmediate` yield of the
  shutdown does not wait for the query a cache hit's callback awaits.
* **A sequence set back** (`ids_boot_race`). `GREATEST(last_value, MAX)` is
  computed before `setval` is called. An id drawn in between is drawn again.
* **A stale recovery** (`ids_failover`). A recovery that has read `MAX(link_id)`
  when Redis fails over is not repeated: while the process boots its listener is
  not attached yet, later the `ready` is coalesced with the recovery in flight.
  The replica then INCRs a counter behind links that exist, without the offline
  queue the comments warn of.

## Other divergences

Met while modelling; the properties state what the code does.

* A generated code fails as a 500 when somebody took it as an alias before its
  id was drawn, although a "fresh unique code can't conflict"
  (`app/adapters/PostgresLinkRepository.ts:49`); `OnlySquattedConflicts`.
* "UA-specific responses can't be cross-served" (`nginx/conf.d/klip.conf:155`),
  but a stored 301 is served to in-app browsers instead of the escape page; and
  `max-age=31536000` (`app/routes/redirect.ts:317`) comes before the ten minutes
  of `klip.conf:162`, so only inactivity ends a stored 301; `EdgeServesAnyone`.
* "The counter will never reuse an existing ID"
  (`scripts/recover-counter.sh:61`), and the script is "for when you can't or don't
  want to restart" (`docs/backup-restore.md:58`). It `SET`s what the application
  would only raise, to a `MAX(link_id) + 1` read one command earlier: two links
  created between the two commands, and the next id drawn is the second one's.
  `ScriptSets` marks it as an incident.
* A magic link "can only be used once" (`web/dashboard/src/screens/Login.tsx:110`);
  it works until it expires; `AuthorityExpires` bounds what that gives.
* A `roll_partitions.sql` that runs across the end of a month may skip a month, as
  its statements read the clock one by one; `RolledMeansHome` excludes it.
* A block-list entry with a trailing dot matches no host; `Barred` excludes it.
* "Adopt any links made anonymously on the landing page"
  (`web/dashboard/src/screens/Dashboard.tsx:40`): the end of a claim clears the cookie
  (`web/dashboard/src/lib/api.ts:245`) with a code stashed meanwhile, also when the
  screen that sent the claim has been left; and the cookie lasts 30 days
  (`web/landing/components/ShortenWidget.tsx:23`). `AnonCodesKept` excuses both.
* The rollback of a failed delete (`web/dashboard/src/screens/Dashboard.tsx:89`)
  loses pages loaded and brings back links deleted meanwhile; `muddled` in
  `ListFaithful`.
* A 200 whose body cannot be read counts as signed in, without an email
  (`web/dashboard/src/lib/api.ts:55`), and a failed logout still shows the login
  screen; `torn` and `heard` in `ShellTellsTruth`.

## Proofs

Each `*Proofs` module proves `Spec => []Inv` for an inductive invariant `Inv`
(initially, and one step per action), then each theorem from it, for every value of
the constants that satisfies the module's named assumption. Every safety property
that a passing run checks is the statement of a theorem; every inductive invariant was
checked by TLC on the instances of the runs before it was proved.

`LinksProofs`, from `UrlsAssumption` and `LinksAssumption` (destinations are not
markers, the sentinels are not values, the sets of inputs are well-typed, requests
are finitely many):

| Theorem | Statement | Argument |
|---|---|---|
| `TypeCorrect` | `Spec => []TypeOK` | `TypeInv`: `TypeOK` and, per step of a request, what it carries (`CarriedOK`: a fill has an id it may write for, an insert has a row, ...). `TypeOK` alone is not inductive: an `update` without a row would not preserve it |
| `OwnershipChecked` | `Spec => []OwnedByRequester` | `OwnInv`: every id up to `lastId` was born, ids above it were not, and a request past its ownership check holds an id whose link is gone or the user's. A link that has an owner never changes it, because `Claim` only takes unowned links |
| `OnlyOwnerEditsHolds` | `Spec => OnlyOwnerEdits` | one step from `OwnInv`: only `PatchUpdate` edits and only `DeleteCommit` deletes, both by the id they carry |
| `ImplementsOwnership` | `Spec => OwnershipSpec` | the refinement maps an id above `lastId` to unborn, a missing row to gone; creation, claim and deletion map to the abstract actions, everything else stutters |
| `LookupResolvesHolds` | `Spec => []LookupResolves` | a DELETE that removes a row also removes the lookup row, stale or not |
| `OnlyStaleDeleteOrphansHolds` | `Spec => OnlyStaleDeleteOrphans` | an insert needs a free code, so the code resolves to its newest link if to any (`Newest`), and that one has the greatest id; a DELETE that takes the code away from a link it leaves alive holds another id, which `OwnInv` bounds by `lastId`: a lesser one |
| `DestinationsValidatedHolds` | `Spec => []DestinationsValidated` | `ValidInv`: besides rows and cache, every pending insert, patch and cache write carries a validated destination |
| `CachedOncePublicHolds` | `MaxOwnerWrites <= 1` implies `Spec => []CachedOncePublic` | `PublicInv`: what a pending fill or publish may write was public under its id, and what a PATCH read still agrees with the row on destination, privacy and kind of redirect, because no other owner's request runs. A claim or a disabling may run beside it: neither changes these three. Without the hypothesis the property is false (`links_overlap`) |
| `StaysDark` | for every id, `Spec => [](DarkForGood(id) => []Dark(id))` | the safety half of `DisabledGoesDark`. `DarkForGood`: the link is disabled or deleted, the cache does not show it, and no request in flight carries its destination or may come to. A request that starts later reads the row as it is now, so it never carries it; nothing enables a link again |
| `OnlyOwnerUnpublishesHolds` | `MaxOwnerWrites <= 1` or `MaxLinks <= 1` implies `Spec => OnlyOwnerUnpublishes` | `AloneInv`: one owner's request runs at most, a DELETE past its check holds the id the code resolves to, and every link is the one its code resolves to. With one generation of the code instead, every id a request holds is the only one. `links_delete_race` has neither, so its violation needs both: two owners' requests at once and a code used again |
| `NoOrphanHolds` | `MaxOwnerWrites <= 1` implies `Spec => []NoOrphan` | from `AloneInv`. The lookup row that a stale DELETE takes leaves a link behind that nobody can edit, delete or disable by its code; with one owner's request at a time there is none |
| `StaysCoherent` | `Spec => [](Settled => ([]Quiet => []Coherent))` | the safety half of `EventuallyCoherent`. `Settled`: no request in flight changes the link, what the cache says and what each fill would write agrees with the row, each redirect between its queries holds the id the code resolves to, and the link has expired or never will. The last two are needed: a redirect that holds the id of a deleted link writes NOT_FOUND over its successor, and a cached destination outlives an expiry until its key runs out |

The other modules:

| Component, assumption | Theorems | Inductive invariant, and why it is needed |
|---|---|---|
| `Clicks`, `ClicksAssumption` (clicks are finitely many, a batch holds one at least) | `ClicksTypeCorrect`, `CountedOnceHolds`, `RollupMatchesRowsHolds`, `OnlyUnresolvedLeftBehindHolds`, `NoClickVanishes`, `ImplementsLedger` | `ClicksInv`: a click is in one place (scheduled, resolving, queue, batch) of one replica, once, and in none when it is counted. `CountedOnce` alone is not inductive: a click in the batch and also in the queue would be inserted twice. `Progress` says what each step of a stop leaves in the process, from which `OnlyUnresolvedLeftBehind` follows. `NothingVanishes`: a served click is counted, given up, or still in a process. The refinement maps the clicks processes hold to open ones and those with rows to booked ones; a commit books its batch, a failure or a death drops, everything else stutters (`LedgerStep`) |
| `Ids`, `IdsAssumption` (machine ids differ, sequence numbers are not none) | `IdsTypeCorrect`, `IssuedOnceHolds`, `PastPersistedHolds`, `ImplementsSource`, `UnsharedHolds`, `RaisedUnlessRacedHolds` | `IdsInv`, per backend. redis: the counter is past every id issued (`Past`), or nobody is up yet and what each recovery is about to write is past the links there are (`NotYetPast`). postgres: the same of the sequence and of the value each alignment has computed (`Aligned`, `AlignmentsGood`). snowflake: each id packs a millisecond and a sequence number its generator, or its machine before a restart, is past (`PastMint`); `PackInjective` keeps replicas apart. The refinement (`SourceInv`) needs besides that every id in use was issued and that no mark for "no id" ever is: a draw is then fresh by `IssuedOnce` in the state after it. `RaisedUnlessRaced` is what is true of `SequenceOnlyRaised`: a sequence in use goes back only past an incident. `BootsInv`: what an alignment is about to set is where a sequence in use stands, or nothing, unless an id was drawn in between, which is the incident |
| `RateLimit`, `RateLimitAssumption` (limits are positive, sentinels are not values) | `LimitTypeCorrect`, `NoKeyStuckHolds`, `BurstBoundHolds` | `LimitInv`: the type and the property; the first hit of a key sets its expiry, whatever headers it came with (`ClientIpIsTheirs`). `BurstInv` says of each payer and surface (and of the two auth surfaces together, which share a key) what the counter shows about the last window's length of ticks (`Windowed`): its window opened at one of these ticks, the admissions since are at most the hits it counts, and those before are below the limit. So the total is below twice the limit. The bound alone is not inductive, since it says nothing of when a window ends |
| `Creation`, `CreationAssumption` (codes are injective, payers are apart, creations are finitely many) | `CreationTypeCorrect`, `OneRowPerIdHolds`, `OnlySquattedConflictsHolds`, `AuditOfCommittedHolds`, `QuotaOvershootHolds` | `CreationInv`: `HeldApart` (an id is held by one creation, and no row ever had it), `NamesResolve` with `DeletesKnow` (a DELETE in flight knows its row by its own name, so that taking a row takes its name with it, whatever the name has come to mean), `RowsNamed`, and `QuotaKept`: links counted plus creations past the count stay below quota plus creations in flight. The links alone are not inductive, since each creation past its count may add one |
| `UrlSafety`, `UrlSafetyAssumption` (hosts and addresses are of the kinds told apart) | `SafetyTypeCorrect`, `AnswersPublicHolds`, `BlockedStaysOutHolds`, `FlaggedPassesOnlyStaleHolds` | `SafetyInv`: what each await has `Established` about its url, and `VerdictsAge`: a SAFE verdict's remaining life and the time since its url was clean add up to a TTL at most. `UnblockedIsPublic`: `isBlockedIp` decides by the address a connection would go to |
| `Accounts`, `AccountsAssumption` (inboxes have readers, lifetimes are positive) | `AccountsTypeCorrect`, `SessionsEarnedHolds`, `AuthorityExpiresHolds` | `AccountsInv`: every token anybody can present, and every link in the mail, is `Backed` by a proof of the right to the account at most a life ago; a password is only its creator's. The properties speak of valid sessions only, but a session is made from a link, so links must be backed too, within a shorter life |
| `Session`, `SessionAssumption` | `SessionTypeCorrect`, `ShellTellsTruthHolds` | `SessionInv`: the page is loading while it boots, and what the probe heard is the cookie's account unless the cookie moved |
| `Dashboard`, `DashboardAssumption` (pages and the cookie hold one link at least) | `DashboardTypeCorrect`, `ListFaithfulHolds`, `AnonCodesKeptHolds` | `DashboardInv`: `OrderKept` (the list, every page under way and every list a rollback would bring back are in order and not past the cursor, so that appending a page keeps the order), `ListKept` (no link that has always been there is missing from a page under way, nor from the list; what was or is being deleted is not shown), `QuietKept` (nothing is under way on a list that is not shown yet), `ClaimKept` (the codes the cookie must have are among those every claim in flight has sent, and a claim the server has adopted leaves none of them ownerless, so clearing the cookie loses nothing). `OrderExists` and its companions: what `ORDER BY` and `LIMIT` return of a finite set |
| `Stats`, `StatsAssumption` (kinds of clicks are finitely many) | `StatsTypeCorrect`, `StatsAgreeHolds` | `StatsInv`: `Counts` (for every set of days and countries, the raw clicks are at most what the rollup counts, and differ in total by what was dropped), `Answered` (each result is off what the tables hold now by at most `touched`, what changed since the screen was opened) and `Paired` (any two results are off each other by at most that). Pairs must be kept apart from the distance to the tables: two results, each off by `touched`, could be off each other by twice as much |
| `Partitions`, `PartitionsAssumption` (months follow each other) | `PartitionsTypeCorrect`, `RolledMeansHomeHolds`, `CheckedMeansHomeHolds`, `RetainedStoredHolds` | `PartitionsInv`: what a running script has made so far, what a finished one and a check made stays (dropping takes months past only), a lost row is past its cutoff. A cutoff never moves back when a day passes, across months of different lengths |
| `EdgeCache`, `EdgeAssumption` (lifetimes are positive and below `MaxAge`) | `EdgeTypeCorrect`, `EdgeServesAnyoneHolds` | `EdgeInv`: stored and pending answers were given to somebody anonymous; an entry is at most a tick older than its storage |

What is summed or ordered in these models is finite but of any size, and no prover
here can instantiate an induction theorem that takes an operator. `DataLemmas` gets
induction from sets instead: if a statement fails for some subset of a finite set it
fails for a smallest one (`MinimalSubset`), if for some number then for a least one
(`LeastNatural`). From that follow the facts about sums over a finite set that the
proofs cite: what changing one summand does (`SumBumped`), shifting (`SumShifted`),
splitting and grouping (`SumSplit`, `SumFibers`), comparing (`SumAtMost`). The models
therefore state orders by what they are (`Dashboard`'s `InOrder`) and sums as sums
over functions, never by the steps of a sort or a fold.

Only model-checked: the liveness properties `DisabledGoesDark`,
`EventuallyCoherent`, `EventuallySettled`, `StopTerminates` and `BarrierLifts` (no
liveness under fairness and no `ENABLED` in the prover), of which `StaysDark` and
`StaysCoherent` prove the safety halves; and the violations of the six runs that
expect one, which a proof could not show. For four of these a theorem gives what
their statement needs to be true (`CachedOncePublicHolds`,
`OnlyOwnerUnpublishesHolds`, `RaisedUnlessRacedHolds`,
`OnlyUnresolvedLeftBehindHolds`). The type invariants of
`Ids`, of `Clicks` and of the services are proved and not repeated by a run; TLC
checked them before.

## Abstractions and limits

* The cache's TTLs are not counted in `Links`: a key may expire at any moment, or,
  in `links_disable_race`, never during the run.
* A Redis call either takes effect or fails without effect; a write that takes
  effect although its answer is lost is not modelled in `Links` (its answer only
  decides a log line or a 500). The lost COMMIT of `Clicks` and of `Creation` is.
* A Redis failover that brings an older value of a key back is not modelled in
  `Links`.
* `Links` gives a link an id above those before; `Creation` draws none that a row
  ever had. Both stop at an incident of `Ids`, after which ids repeat; and at a
  restart, failover or `recover-counter.sh` that has lost the counter, the seeding
  knows only of links that still exist, so an id of a deleted link may come back.
* `Ids` assumes what the code demands of its configuration: `COUNTER_OFFSET` 0 and
  a `MACHINE_ID` per replica. A restore or a change of backend is an initial state
  whose counter is behind. Snowflake's links are not kept, because nothing of that
  backend reads them.
* In `Links` the URL checks are one step that accepts a destination, in `Creation`
  they are part of `Submit`; `UrlSafety` has their steps. It assumes that a tick is
  long against a validation, whose calls time out after seconds, and that Safe
  Browsing has its API key.
* Requests the rate limiter or a schema refuses change nothing, and so are no
  steps of `Accounts`, `Creation` or `Links`.
* `RateLimit` counts a key up to one above its limit, where every further hit is
  alike; `EdgeCache` counts ages up to `MaxAge`, which is above every lifetime.
* At most one midnight passes while a roll script runs.
* In `Stats` a batch is one click, and what happens once the numbers are shown is
  left out, as it no longer changes them.

## Not modelled

* `scripts/backup.sh`, `restore.sh`, `admin.sh`: shell around `pg_dump`,
  `pg_restore` and `curl`. What a restore leaves behind is an initial state of
  `Ids`.
* Email and webview pages, user-agent and geo parsing: pure functions of a
  request. Which visitors get an escape page is a field of `EdgeCache`'s visitors
  and of `Stats`' clicks.
* Health, metrics, configuration, security headers, logging: no state that steps
  of others depend on. The audit query of the admin route only reads.
* Hashing, signing, Hashids and `ipaddr.js`: libraries, taken as ideal; of a code
  only that it is injective. The base62 functions of `app/domain/codes.ts` are not
  used by the program.
* Presentation of the dashboard and the landing page: copying, search, filters,
  layout, toasts.
* Memory: the click queue has no limit, and no property says so; what a batch past
  the bind limit does is in `Clicks`.

## Plan

Modelled, checked and proved: everything the tables above name. What is left:

1. What the statements of `ids_failover` and `links_disable_race` would need to be
   true, as theorems say it of the other four: no failover between a recovery's query
   and its write; no `setTombstone` in flight when the marker is written.
2. The base62 functions of `app/domain/codes.ts` if the program ever uses them.
