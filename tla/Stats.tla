------------------------------- MODULE Stats -------------------------------
(***************************************************************************)
(* A link's statistics: handleStats (routes/stats.ts) and the screen that   *)
(* shows them (LinkStats.tsx).                                             *)
(*                                                                         *)
(* Once the link is resolved six queries run in parallel, each on a         *)
(* snapshot of its own: four over the raw clicks, two over the rollup       *)
(* clicks_daily.  Meanwhile clicks are flushed to both tables in one        *)
(* transaction (Clicks) and old partitions of raw clicks are dropped        *)
(* (Partitions).  Only the link looked at has clicks here.                 *)
(***************************************************************************)
EXTENDS Naturals, FiniteSets, Functions

CONSTANTS
  Kinds,         \* clicks told apart: [day, visitor, country, referer, device,
                 \* webview, network]; network is "generic" for a NULL
  LastDay,       \* days are 0..LastDay
  Ranges,        \* <<from, to>> a request may ask for
  Me,            \* the signed-in user
  Others,        \* owners that are not Me; among them nobody
  TopReferrers,  \* LIMIT of the referrers, 10
  MaxClicks,     \* bound: clicks flushed
  MaxLive        \* bound: of these, while a screen waits for its numbers

Days == 0..LastDay

ASSUME StatsAssumption ==
  /\ IsFiniteSet(Kinds)
  /\ \A k \in Kinds : k.day \in Days /\ k.webview \in BOOLEAN
  /\ Me \notin Others /\ LastDay \in Nat /\ Ranges \subseteq Days \X Days
  /\ TopReferrers \in Nat \ {0} /\ MaxClicks \in Nat /\ MaxLive \in Nat

Cells == Days \X {k.country : k \in Kinds}
LinkRows == [owner : Others \cup {Me}, prefer301 : BOOLEAN]
Queries == {"totals", "byDay", "referrers", "byCountry", "byDevice", "byNetwork"}
NoScreen == [at |-> "closed"]

VARIABLES
  raw,      \* clicks: kind -> rows
  daily,    \* clicks_daily: day, country -> clicks
  screen,   \* [at, from, to, got]: what LinkStats shows, the range asked for
            \* and the results of the queries answered so far
  dropped,  \* history: rows of raw clicks ever dropped
  touched   \* history: rows added to and dropped from raw since the first of
            \* the screen's queries could start

statsVars == <<raw, daily, screen, dropped, touched>>

StatsTypeOK ==
  /\ raw \in [Kinds -> 0..MaxClicks]
  /\ daily \in [Cells -> 0..MaxClicks]
  /\ screen = NoScreen \/ /\ screen.at \in {"loading", "queries", "shown", "off", "error"}
                          /\ screen.from \in Days /\ screen.to \in Days
                          /\ DOMAIN screen.got \subseteq Queries
  /\ dropped \in 0..MaxClicks /\ touched \in 0..2 * MaxClicks

StatsInit ==
  /\ raw = [k \in Kinds |-> 0] /\ daily = [c \in Cells |-> 0]
  /\ screen = NoScreen /\ dropped = 0 /\ touched = 0

-----------------------------------------------------------------------------
Total(f) == SumFunction(f)
\* COUNT(*) ... GROUP BY: value of a column -> clicks, for the kinds in S.
GroupBy(S, column(_)) ==
  [v \in {column(k) : k \in S} |-> Total([k \in {j \in S : column(j) = v} |-> raw[k]])]

\* created_at >= from and < to + 1 day.
MutRawRange == {k \in Kinds : raw[k] > 0 /\ screen.from <= k.day /\ k.day < screen.to}
RawRange == {k \in Kinds : raw[k] > 0 /\ screen.from <= k.day /\ k.day < screen.to + 1}
\* day >= from and <= to.
DailyRange == {c \in Cells : daily[c] > 0 /\ screen.from <= c[1] /\ c[1] <= screen.to}

\* ORDER BY clicks DESC LIMIT: what is left out has no more clicks; ties fall
\* either way.
Top(f) ==
  {[v \in S |-> f[v]] : S \in {T \in SUBSET DOMAIN f :
     /\ Cardinality(T) <= TopReferrers
     /\ T # DOMAIN f => Cardinality(T) = TopReferrers
     /\ \A v \in T, w \in DOMAIN f \ T : f[v] >= f[w]}}

\* The results a query may have on the tables as they are.
Results(q) ==
  CASE q = "totals" ->
         {[total |-> Total([k \in RawRange |-> raw[k]]),
           uniq |-> Cardinality({k.visitor : k \in RawRange})]}
    [] q = "referrers" -> Top(GroupBy(RawRange, LAMBDA k : k.referer))
    [] q = "byDevice" -> {GroupBy(RawRange, LAMBDA k : <<k.device, k.webview>>)}
    [] q = "byNetwork" -> {GroupBy({k \in RawRange : k.webview}, LAMBDA k : k.network)}
    [] q = "byDay" ->
         {[d \in {c[1] : c \in DailyRange} |->
             Total([c \in {x \in DailyRange : x[1] = d} |-> daily[c]])]}
    [] q = "byCountry" ->
         {[n \in {c[2] : c \in DailyRange} |->
             Total([c \in {x \in DailyRange : x[2] = n} |-> daily[c]])]}

\* LinkStats mounts: a skeleton, and one request.
Open(range) ==
  /\ screen = NoScreen
  /\ screen' = [at |-> "loading", from |-> range[1], to |-> range[2], got |-> << >>]
  /\ touched' = 0
  /\ UNCHANGED <<raw, daily, dropped>>

\* The link's row, read once: 404, 403, analytics off, or on to the queries.
\* Any failure is a 5xx or a network error, and an error on the screen.
ResolveLink(r) ==
  /\ screen.at = "loading"
  /\ \/ screen' = [screen EXCEPT !.at = IF r.owner # Me THEN "error"
                                        ELSE IF r.prefer301 THEN "off" ELSE "queries"]
     \/ screen' = [screen EXCEPT !.at = "error"]
  /\ UNCHANGED <<raw, daily, dropped, touched>>

RunQuery(q) ==
  /\ screen.at = "queries" /\ q \notin DOMAIN screen.got
  /\ \/ \E result \in Results(q) :
          screen' = [screen EXCEPT !.got = [x \in DOMAIN @ \cup {q} |->
                                               IF x = q THEN result ELSE @[x]]]
     \/ screen' = [screen EXCEPT !.at = "error"]
  /\ UNCHANGED <<raw, daily, dropped, touched>>

ShowStats ==
  /\ screen.at = "queries" /\ DOMAIN screen.got = Queries
  /\ screen' = [screen EXCEPT !.at = "shown"]
  /\ UNCHANGED <<raw, daily, dropped, touched>>

\* Back to the list, at any time: the component unmounts, its answer is ignored.
Back ==
  /\ screen # NoScreen
  /\ screen' = NoScreen /\ touched' = 0
  /\ UNCHANGED <<raw, daily, dropped>>

\* writeBatch, with a batch of one click.  What happens once the numbers are on
\* the screen no longer changes them.
FlushClick(k) ==
  /\ screen.at # "shown"
  /\ Total(daily) < MaxClicks /\ touched < MaxLive
  /\ raw' = [raw EXCEPT ![k] = @ + 1]
  /\ daily' = [daily EXCEPT ![<<k.day, k.country>>] = @ + 1]
  /\ touched' = IF screen.at = "queries" THEN touched + 1 ELSE touched
  /\ UNCHANGED <<screen, dropped>>

\* roll_partitions.sql: the rollup keeps the days.
DropClicks(d) ==
  LET gone == Total([k \in {j \in Kinds : j.day <= d} |-> raw[k]])
  IN /\ screen.at # "shown" /\ gone > 0
     /\ raw' = [k \in Kinds |-> IF k.day <= d THEN 0 ELSE raw[k]]
     /\ dropped' = dropped + gone
     /\ touched' = IF screen.at = "queries" THEN touched + gone ELSE touched
     /\ UNCHANGED <<daily, screen>>

StatsNext ==
  \/ \E range \in Ranges : Open(range)
  \/ \E r \in LinkRows : ResolveLink(r)
  \/ \E q \in Queries : RunQuery(q)
  \/ ShowStats \/ Back
  \/ \E k \in Kinds : FlushClick(k)
  \/ \E d \in Days : DropClicks(d)

StatsSpec == StatsInit /\ [][StatsNext]_statsVars

-----------------------------------------------------------------------------
\* What the handler derives from its results, as the screen shows it.
totalClicks == screen.got["totals"].total
Split(webview) ==
  LET devices == screen.got["byDevice"]
  IN Total([d \in {x \in DOMAIN devices : x[2] = webview} |-> devices[d]])

Close(a, b) == a <= b + touched /\ b <= a + touched

\* The numbers on one screen come from six moments and two tables, and differ by
\* no more than what was written and dropped between the first moment and the
\* last.  With nothing in between, the webview split, the networks, and the days
\* and countries each add up; raw clicks fall short of the rollup only by what
\* retention has dropped; and a range that includes today counts today in both.
StatsAgree ==
  screen.at = "shown" =>
    LET days == Total(screen.got["byDay"])
    IN /\ Close(totalClicks, Split(TRUE) + Split(FALSE))
       /\ Split(TRUE) > 0 => Close(Split(TRUE), Total(screen.got["byNetwork"]))
       /\ Close(days, Total(screen.got["byCountry"]))
       /\ totalClicks <= days + touched /\ days <= totalClicks + dropped + touched
       /\ Total(screen.got["referrers"]) <= totalClicks + touched
       /\ screen.got["totals"].uniq <= totalClicks
=============================================================================
