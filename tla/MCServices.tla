----------------------------- MODULE MCServices -----------------------------
(***************************************************************************)
(* The small instances of the services around the redirect.  They share     *)
(* no state, so each behaviour is one of one of them: its part.             *)
(***************************************************************************)
EXTENDS RateLimit, Accounts, UrlSafety, Creation, Partitions, Stats, EdgeCache,
        Dashboard, Session

CONSTANT Anyone  \* no user, no client, nobody's name

\* RateLimit: one client, whose headers may name another address.
MCSurfaces == {"auth", "auth-verify", "redirect", "shorten"}
MCLimit == [s \in MCSurfaces |-> IF s \in {"auth", "redirect"} THEN 1 ELSE 2]
MCBucket == [a \in {"a1", "a2"} |-> a]

\* Accounts: one inbox, its reader and a stranger.
MCHolder == [e \in {"e1"} |-> "c1"]

\* UrlSafety: a domain that gets blocked and flagged, a literal address, the
\* shortener itself.
Addr(form, range, inner) == [form |-> form, range |-> range, inner |-> inner]
MCHostKind == [h \in {"evil", "ip", "me", "lh"} |->
  CASE h = "evil" -> "name" [] h = "ip" -> "address" [] h = "me" -> "own" [] h = "lh" -> "local"]
MCAddressOf == [h \in {"ip"} |-> Addr("compatible", "unicast", "private")]
MCAddresses == {Addr("v4", "unicast", "none"), Addr("compatible", "unicast", "private"),
                Addr("mapped", "ipv4Mapped", "unicast")}
Url(scheme, host, dot) == [scheme |-> scheme, host |-> host, dot |-> dot]
MCUrls == {Url("http", "evil", TRUE), Url("http", "ip", FALSE), Url("http", "me", FALSE)}
MCListed == {Url("http", "evil", TRUE)}

\* Creation: one user, who asks for the third code as an alias, and an address
\* without a prefix, when he has no session.
MCAsks == [w \in {"w1", "w2"} |-> IF w = "w1" THEN {<<"u1", 0>>} ELSE {<<"u1", 3>>, <<Anyone, 0>>}]
MCQuota == [p \in {"u1", "p1"} |-> 1]
MCCodeOf == [i \in 1..3 |-> i]

\* Partitions: months of one day, every third of two.
MCFirstDay == [m \in 0..6 |-> m + (m \div 3)]

\* Stats: three clicks that differ in everything.
Click(day, visitor, country, referer, device, webview, network) ==
  [day |-> day, visitor |-> visitor, country |-> country, referer |-> referer,
   device |-> device, webview |-> webview, network |-> network]
MCKinds == {Click(0, "x", "tr", "social", "mobile", TRUE, "instagram"),
            Click(1, "x", "tr", "", "mobile", FALSE, "generic"),
            Click(1, "y", "de", "social", "mobile", TRUE, "generic")}
MCRanges == {<<0, 1>>, <<0, 0>>}

\* EdgeCache: no link; a public one, counted and not; private; disabled.
View(exists, private, disabled, prefer301) ==
  [exists |-> exists, private |-> private, disabled |-> disabled, prefer301 |-> prefer301]
MCViews == {View(FALSE, FALSE, FALSE, FALSE), View(TRUE, FALSE, FALSE, FALSE),
            View(TRUE, FALSE, FALSE, TRUE), View(TRUE, TRUE, FALSE, TRUE),
            View(TRUE, FALSE, TRUE, TRUE), View(TRUE, TRUE, TRUE, TRUE)}

-----------------------------------------------------------------------------
Parts == {"limits", "accounts", "safety", "creation", "partitions", "stats",
          "edge", "dashboard", "session"}

VARIABLE part
servicesVars == <<limitVars, accountVars, safetyVars, creationVars, partitionVars,
                  statsVars, edgeVars, dashboardVars, sessionVars, part>>

ServicesInit ==
  /\ part \in Parts
  /\ LimitInit /\ AccountsInit /\ SafetyInit /\ CreationInit /\ PartitionsInit
  /\ StatsInit /\ EdgeInit /\ DashboardInit /\ SessionInit
  /\ part # "edge" => view = View(FALSE, FALSE, FALSE, FALSE)

Limits == part = "limits" /\ LimitNext
  /\ UNCHANGED <<accountVars, safetyVars, creationVars, partitionVars, statsVars,
                 edgeVars, dashboardVars, sessionVars, part>>
AccountsPart == part = "accounts" /\ AccountsNext
  /\ UNCHANGED <<limitVars, safetyVars, creationVars, partitionVars, statsVars,
                 edgeVars, dashboardVars, sessionVars, part>>
SafetyPart == part = "safety" /\ SafetyNext
  /\ UNCHANGED <<limitVars, accountVars, creationVars, partitionVars, statsVars,
                 edgeVars, dashboardVars, sessionVars, part>>
CreationPart == part = "creation" /\ CreationNext
  /\ UNCHANGED <<limitVars, accountVars, safetyVars, partitionVars, statsVars,
                 edgeVars, dashboardVars, sessionVars, part>>
PartitionsPart == part = "partitions" /\ PartitionsNext
  /\ UNCHANGED <<limitVars, accountVars, safetyVars, creationVars, statsVars,
                 edgeVars, dashboardVars, sessionVars, part>>
StatsPart == part = "stats" /\ StatsNext
  /\ UNCHANGED <<limitVars, accountVars, safetyVars, creationVars, partitionVars,
                 edgeVars, dashboardVars, sessionVars, part>>
EdgePart == part = "edge" /\ EdgeNext
  /\ UNCHANGED <<limitVars, accountVars, safetyVars, creationVars, partitionVars,
                 statsVars, dashboardVars, sessionVars, part>>
DashboardPart == part = "dashboard" /\ DashboardNext
  /\ UNCHANGED <<limitVars, accountVars, safetyVars, creationVars, partitionVars,
                 statsVars, edgeVars, sessionVars, part>>
SessionPart == part = "session" /\ SessionNext
  /\ UNCHANGED <<limitVars, accountVars, safetyVars, creationVars, partitionVars,
                 statsVars, edgeVars, dashboardVars, part>>

ServicesNext ==
  \/ Limits \/ AccountsPart \/ SafetyPart \/ CreationPart \/ PartitionsPart
  \/ StatsPart \/ EdgePart \/ DashboardPart \/ SessionPart

ServicesSpec == ServicesInit /\ [][ServicesNext]_servicesVars
=============================================================================
