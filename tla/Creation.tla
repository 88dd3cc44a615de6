------------------------------ MODULE Creation ------------------------------
(***************************************************************************)
(* Creating a link: ShortenLinkUseCase over PostgresLinkRepository and      *)
(* PostgresAuditLog.                                                       *)
(*                                                                         *)
(* Concurrent requests count the active links of whoever pays for the new   *)
(* one, draw an id, insert and audit, each in a query of its own.  The two  *)
(* tables are reduced to what a name resolves to and what a quota counts;   *)
(* Links has the rest of a link's life, UrlSafety the checks of a           *)
(* destination (here part of Submit), Ids where an id comes from.           *)
(***************************************************************************)
EXTENDS Naturals, FiniteSets

CONSTANTS
  Writers,     \* creations in flight
  Asks,        \* bound: creation -> the <<payer, name>> it may be for
  Owners,      \* signed-in users
  Prefixes,    \* IP prefixes of anonymous clients
  NoPrefix,    \* an address without a usable prefix: ''
  Quota,       \* payer -> AUTH_QUOTA or ANON_QUOTA
  CodeOf,      \* id -> the code Hashids makes of it
  Aliases,     \* names clients ask for; a code of any id may be among them
  Reserved,    \* RESERVED_WORDS
  Generated,   \* no alias asked for
  MaxDrawn,    \* bound: the ids there are
  MaxInactive, \* bound: links expired or disabled at a time
  MaxDeletes   \* bound: links being deleted at a time

Payers == Owners \cup Prefixes \cup {NoPrefix}
DrawnIds == 1..MaxDrawn
Names == {CodeOf[i] : i \in DrawnIds} \cup Aliases

\* Hashids is reversible: two ids never share a code.
ASSUME CreationAssumption ==
  /\ IsFiniteSet(Writers)
  /\ MaxDrawn \in Nat /\ MaxInactive \in Nat /\ MaxDeletes \in Nat /\ DOMAIN CodeOf = DrawnIds
  /\ \A i, j \in DrawnIds : CodeOf[i] = CodeOf[j] => i = j
  /\ Asks \in [Writers -> SUBSET (Payers \X (Aliases \cup {Generated}))]
  /\ Quota \in [Owners \cup Prefixes -> Nat]
  /\ Owners \cap Prefixes = {} /\ NoPrefix \notin Owners \cup Prefixes
  /\ Generated \notin Names

NoWriter == [at |-> "idle"]

VARIABLES
  rows,       \* links: [id, name, payer, alias, active, granted]; alias: was its
              \* name asked for; granted (history): it is active, but its
              \* payer has it, or has it active, otherwise than by creating it
  names,      \* links_code_lookup: name -> id, 0 for none
  deleting,   \* what DELETEs past their ownership check have read: [id, name]
  writer,     \* creation -> [at, payer, want, id]
  audited,    \* ids that shorten_audit has a record of, or is about to
  committed   \* history: ids of every row there ever was

creationVars == <<rows, names, deleting, writer, audited, committed>>

CreationTypeOK ==
  /\ rows \subseteq [id : DrawnIds, name : Names, payer : Payers, alias : BOOLEAN,
                 active : BOOLEAN, granted : BOOLEAN]
  /\ names \in [Names -> 0..MaxDrawn]
  /\ deleting \subseteq [id : DrawnIds, name : Names]
  /\ writer \in [Writers -> [at : {"count", "id", "insert", "audit"}, payer : Payers,
                             want : Aliases \cup {Generated}, id : 0..MaxDrawn] \cup {NoWriter}]
  /\ audited \subseteq DrawnIds /\ committed \subseteq DrawnIds

CreationInit ==
  /\ rows = {} /\ names = [n \in Names |-> 0] /\ deleting = {}
  /\ writer = [w \in Writers |-> NoWriter]
  /\ audited = {} /\ committed = {}

-----------------------------------------------------------------------------
\* The id a creation has drawn and not yet inserted, 0 for none.
HeldId(w) == IF writer[w].at = "insert" THEN writer[w].id ELSE 0

ActiveOf(p) == {x \in rows : x.payer = p /\ x.active}
NameOf(c) == IF c.want = Generated THEN CodeOf[c.id] ELSE c.want
Write(w, c) == writer' = [writer EXCEPT ![w] = c]
dataVars == <<rows, names, deleting, committed>>

\* The gates that ask nobody, and the checks of the destination.  An anonymous
\* request without a prefix skips the quota.
Submit(w, p, want) ==
  /\ writer[w] = NoWriter /\ want \notin Reserved
  /\ Write(w, [at |-> IF p = NoPrefix THEN "id" ELSE "count", payer |-> p, want |-> want, id |-> 0])
  /\ UNCHANGED <<dataVars, audited>>

\* countActiveLinks: 429 at the limit.
MutCountActiveLinks(w) ==
  /\ writer[w].at = "count"
  /\ IF Cardinality(ActiveOf(writer[w].payer)) > Quota[writer[w].payer]
       THEN Write(w, NoWriter)
       ELSE Write(w, [writer[w] EXCEPT !.at = "id"])
  /\ UNCHANGED <<dataVars, audited>>
CountActiveLinks(w) ==
  /\ writer[w].at = "count"
  /\ IF Cardinality(ActiveOf(writer[w].payer)) >= Quota[writer[w].payer]
       THEN Write(w, NoWriter)
       ELSE Write(w, [writer[w] EXCEPT !.at = "id"])
  /\ UNCHANGED <<dataVars, audited>>

\* nextId, for aliases too: "so link_id uniquely identifies one row".  Until an
\* incident Ids issues no id twice (IssuedOnce); that one which was burnt may
\* come back here makes no difference, since nobody has seen it.
MutNextIdFromTable(w) ==
  /\ writer[w].at = "id" /\ Cardinality(committed) < MaxDrawn
  /\ Write(w, [writer[w] EXCEPT !.at = "insert", !.id = Cardinality(committed) + 1])
  /\ UNCHANGED <<dataVars, audited>>
MutNextId(w) ==
  /\ writer[w].at = "id"
  /\ \E i \in DrawnIds \ committed : Write(w, [writer[w] EXCEPT !.at = "insert", !.id = i])
  /\ UNCHANGED <<dataVars, audited>>
NextId(w) ==
  /\ writer[w].at = "id"
  /\ \E i \in DrawnIds \ (committed \cup {HeldId(v) : v \in Writers}) :
       Write(w, [writer[w] EXCEPT !.at = "insert", !.id = i])
  /\ UNCHANGED <<dataVars, audited>>

\* createLink: one transaction; the answer to its COMMIT may be lost, which the
\* client is told as persist_failed.
CreateLink(w) ==
  LET c == writer[w]
  IN /\ c.at = "insert" /\ names[NameOf(c)] = 0
     /\ names' = [names EXCEPT ![NameOf(c)] = c.id]
     /\ rows' = rows \cup {[id |-> c.id, name |-> NameOf(c), payer |-> c.payer,
                            alias |-> c.want # Generated, active |-> TRUE,
                            granted |-> FALSE]}
     /\ committed' = committed \cup {c.id}
     /\ Write(w, [c EXCEPT !.at = "audit"]) \/ Write(w, NoWriter)
     /\ UNCHANGED <<deleting, audited>>

\* alias_taken, or for a generated code a unique violation: persist_failed.
NameConflict(w) ==
  /\ writer[w].at = "insert" /\ names[NameOf(writer[w])] # 0
  /\ Write(w, NoWriter)
  /\ UNCHANGED <<dataVars, audited>>

\* audit.record: a setImmediate and an INSERT nobody awaits.  The cache write
\* that follows is Fill of Links.
RecordAudit(w) ==
  /\ writer[w].at = "audit"
  /\ audited' = audited \cup {writer[w].id}
  /\ Write(w, NoWriter)
  /\ UNCHANGED dataVars

MutGiveUp(w) ==
  /\ writer[w] # NoWriter
  /\ audited' = IF writer[w].at = "insert" THEN audited \cup {writer[w].id} ELSE audited
  /\ Write(w, NoWriter)
  /\ UNCHANGED dataVars
\* A query fails (503 for the count or the id, 500 for the insert, a warning for
\* the audit), the connection or the process is lost.
GiveUp(w) ==
  /\ writer[w] # NoWriter
  /\ Write(w, NoWriter)
  /\ UNCHANGED <<dataVars, audited>>

-----------------------------------------------------------------------------
\* DELETE: resolveLink finds a link of this user.  Any number of requests may
\* hold the same answer.
ResolveDelete(x) ==
  /\ x.payer \in Owners /\ names[x.name] = x.id
  /\ Cardinality(deleting) < MaxDeletes
  /\ deleting' = deleting \cup {[id |-> x.id, name |-> x.name]}
  /\ UNCHANGED <<rows, names, writer, audited, committed>>

\* One transaction: the lookup row of the name, whichever link it names by now,
\* and the row that was read.
CommitDelete(d) ==
  /\ names' = [names EXCEPT ![d.name] = 0]
  /\ rows' = {x \in rows : x.id # d.id}
  /\ UNCHANGED <<deleting, writer, audited, committed>>

\* The last request that holds this answer has committed, or failed.
EndDelete(d) ==
  /\ deleting' = deleting \ {d}
  /\ UNCHANGED <<rows, names, writer, audited, committed>>

Replace(x, y) ==
  /\ rows' = (rows \ {x}) \cup {y}
  /\ UNCHANGED <<names, deleting, writer, audited, committed>>

\* It expires or is disabled.
Deactivate(x) ==
  /\ x.active /\ Cardinality({y \in rows : ~y.active}) < MaxInactive
  /\ Replace(x, [x EXCEPT !.active = FALSE, !.granted = FALSE])

\* PATCH with a later expiry: no quota is asked.  It may have resolved the link
\* before a DELETE took its name.
Revive(x) == ~x.active /\ Replace(x, [x EXCEPT !.active = TRUE, !.granted = TRUE])

\* POST /links/claim: an anonymous link becomes a user's, again without a quota.
ClaimLink(x, u) ==
  /\ x.payer \notin Owners /\ names[x.name] = x.id
  /\ Replace(x, [x EXCEPT !.payer = u, !.granted = x.active])

CreationNext ==
  \/ \E w \in Writers :
       \/ \E what \in Asks[w] : Submit(w, what[1], what[2])
       \/ CountActiveLinks(w) \/ NextId(w) \/ CreateLink(w) \/ NameConflict(w)
       \/ RecordAudit(w) \/ GiveUp(w)
  \/ \E x \in rows :
       \/ ResolveDelete(x) \/ Deactivate(x) \/ Revive(x)
       \/ \E u \in Owners : ClaimLink(x, u)
  \/ \E d \in deleting : CommitDelete(d) \/ EndDelete(d)

CreationSpec == CreationInit /\ [][CreationNext]_creationVars

-----------------------------------------------------------------------------
\* The quota is counted before the row is inserted, so creations in flight may
\* overshoot it, by one less than there are of them; beyond that a payer has only
\* links it did not create: claimed, or revived by a PATCH.
QuotaOvershoot ==
  \A p \in Owners \cup Prefixes :
    Quota[p] > 0 =>
      Cardinality({x \in ActiveOf(p) : ~x.granted}) <= Quota[p] + Cardinality(Writers) - 1

\* "Custom aliases also consume an ID so link_id uniquely identifies one row":
\* no two rows share an id, whether its name was generated or asked for, and a
\* name resolves to a row that carries it, or to none: although a DELETE takes the
\* name away from whichever link has it by then, it takes a row with that name.
OneRowPerId ==
  /\ \A x, y \in rows : x.id = y.id => x = y
  /\ \A n \in Names : names[n] # 0 => \E x \in rows : x.id = names[n] /\ x.name = n

\* "A fresh unique code can't conflict" (PostgresLinkRepository.ts:49) is true but
\* for aliases: a generated code is taken only when somebody asked for that very
\* name, and then the creation fails as a 500.
OnlySquattedConflicts ==
  \A w \in Writers :
    writer[w].at = "insert" /\ writer[w].want = Generated =>
      \A x \in rows : x.name = NameOf(writer[w]) => x.alias

\* The audit has records of links that were created, and of no creation that
\* failed on the way ("audit of every successful shorten").
AuditOfCommitted == audited \subseteq committed
=============================================================================
