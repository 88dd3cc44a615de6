----------------------------- MODULE Dashboard -----------------------------
(***************************************************************************)
(* The list of links in the dashboard (Dashboard.tsx, CreateLinkModal.tsx,  *)
(* App.tsx over lib/api.ts), the codes the landing page leaves in a cookie  *)
(* (ShortenWidget.tsx), and what they ask of routes/links.ts.               *)
(*                                                                         *)
(* One user with one such tab; other tabs of his create and delete links    *)
(* too.  Links are numbered in the order of (created_at, id), so the        *)
(* newest comes first; only links of this user, or on their way to him,     *)
(* are here.  A request may fail before or after the server has acted.      *)
(***************************************************************************)
EXTENDS Naturals, Sequences, FiniteSets, Functions

CONSTANTS
  MaxLinks,   \* bound: links ever created
  MaxStashed, \* bound: of these, how many of the first may be anonymous
  PageSize,   \* limit of a page, 50
  CookieSize, \* codes the cookie keeps, 25
  Claims      \* bound: slots for claims in flight

ASSUME DashboardAssumption ==
  /\ MaxLinks \in Nat /\ MaxStashed \in 0..MaxLinks
  /\ PageSize \in Nat \ {0} /\ CookieSize \in Nat \ {0}

LinkNos == 1..MaxLinks
NoCursor == 0
Gone == [at |-> "none"]

VARIABLES
  made,      \* links created so far
  mine,      \* links owned by the user
  loose,     \* links without an owner
  anonCodes, \* klipo_anon_codes, the cookie
  claims,    \* slot -> [at, codes], "claim" and "claimed" (codes sent, adopted),
             \* or Gone: of this load, of one that has been left, of another tab
  load,      \* [at, by, page]: "claim" (the slot it waits for), "list" and
             \* "answer" (page asked for, read), "failed", "ready"
  list,      \* links shown
  cursor,    \* nextCursor, the last link of a full page
  more,      \* loadMore: [at, cursor, page], or Gone
  removing,  \* link -> the DELETE under way: [at, prev], or Gone
  known,     \* history: links owned since this list was first read
  deleted,   \* history: links this list was told are deleted
  muddled,   \* history: a rollback undid more than its own removal
  excused    \* history: loose links whose code the cookie need not have: the
             \* answer was lost, it was pushed out, the cookie expired, or it
             \* was stashed during a claim

serverVars == <<made, mine, loose>>
listVars == <<list, cursor, more, removing, known, deleted, muddled>>
dashboardVars == <<serverVars, anonCodes, claims, load, listVars, excused>>

IsPage(p) == /\ Len(p.links) <= PageSize /\ Range(p.links) \subseteq LinkNos
             /\ p.next \in 0..MaxLinks

DashboardTypeOK ==
  /\ made \in 0..MaxLinks
  /\ mine \subseteq 1..made /\ loose \subseteq 1..made /\ mine \cap loose = {}
  /\ Len(anonCodes) <= CookieSize /\ Range(anonCodes) \subseteq LinkNos
  /\ \A o \in Claims : claims[o] # Gone =>
       claims[o].at \in {"claim", "claimed"} /\ claims[o].codes \subseteq 1..made
  /\ load.at \in {"claim", "list", "answer", "failed", "ready"}
  /\ load.at = "claim" => claims[load.by] # Gone
  /\ Range(list) \subseteq LinkNos /\ cursor \in 0..MaxLinks
  /\ more.at = "sent" => more.cursor \in LinkNos
  /\ more.at = "answer" => IsPage(more.page)
  /\ DOMAIN removing = LinkNos
  /\ muddled \in BOOLEAN
  /\ known \subseteq LinkNos /\ deleted \subseteq LinkNos /\ excused \subseteq LinkNos

-----------------------------------------------------------------------------
\* The members of a set of numbers, the least first; and the greatest first.
InOrder(S) ==
  CHOOSE s \in [1..Cardinality(S) -> S] : \A i, j \in DOMAIN s : i < j => s[i] < s[j]
NewestFirst(S) == LET up == InOrder(S) IN [i \in DOMAIN up |-> up[Len(up) + 1 - i]]

\* handleListLinks: (created_at, id) < cursor, newest first; a full page has a
\* next one.
MutListLinks(after) ==
  LET below == NewestFirst({l \in mine : after = NoCursor \/ l <= after})
      page == SubSeq(below, 1, IF Len(below) < PageSize THEN Len(below) ELSE PageSize)
  IN [links |-> page, next |-> IF Len(page) = PageSize THEN page[PageSize] ELSE NoCursor]
ListLinks(after) ==
  LET below == NewestFirst({l \in mine : after = NoCursor \/ l < after})
      page == SubSeq(below, 1, IF Len(below) < PageSize THEN Len(below) ELSE PageSize)
  IN [links |-> page, next |-> IF Len(page) = PageSize THEN page[PageSize] ELSE NoCursor]

\* claimAnonLinks reads the cookie and sends its codes.
SendClaim(o) ==
  /\ claims[o] = Gone
  /\ claims' = [claims EXCEPT ![o] = [at |-> "claim", codes |-> Range(anonCodes)]]

\* A Dashboard mounts: its list is empty, and load starts with the claim.  Answers
\* to an earlier one fall on an unmounted component, but its claim goes on.
Mount ==
  /\ \/ anonCodes = << >> /\ load' = [at |-> "list"] /\ UNCHANGED claims
     \/ /\ anonCodes # << >>
        /\ \E o \in Claims : SendClaim(o) /\ load' = [at |-> "claim", by |-> o]
  /\ list' = << >> /\ cursor' = NoCursor /\ more' = Gone
  /\ removing' = [l \in LinkNos |-> Gone]
  /\ known' = {} /\ deleted' = {} /\ muddled' = FALSE

DashboardInit ==
  /\ made = 0 /\ mine = {} /\ loose = {} /\ anonCodes = << >>
  /\ claims = [o \in Claims |-> Gone] /\ load = [at |-> "list"]
  /\ list = << >> /\ cursor = NoCursor /\ more = Gone
  /\ removing = [l \in LinkNos |-> Gone]
  /\ known = {} /\ deleted = {} /\ muddled = FALSE /\ excused = {}

\* Another view and back, at any time, a reload, or "Try again".
Reopen ==
  /\ Mount
  /\ UNCHANGED <<serverVars, anonCodes, excused>>

\* The dashboard of another tab sends the codes too.
ClaimElsewhere(o) ==
  /\ anonCodes # << >> /\ SendClaim(o)
  /\ UNCHANGED <<serverVars, anonCodes, load, listVars, excused>>

\* A claim is adopted by the server: unowned links only.
ClaimAdopts(o) ==
  /\ claims[o].at = "claim"
  /\ claims' = [claims EXCEPT ![o].at = "claimed"]
  /\ mine' = mine \cup (claims[o].codes \cap loose)
  /\ loose' = loose \ claims[o].codes
  /\ excused' = excused \ claims[o].codes
  /\ UNCHANGED <<made, anonCodes, load, listVars>>

\* claimAnonLinks ends, and the load that waits for it goes on: the cookie is
\* cleared when the answer arrives, also after the load has been left, and kept
\* when it does not, the request failed or the page is gone.
Waiting(o) == load.at = "claim" /\ load.by = o
EndClaim(o) ==
  /\ claims[o] # Gone
  /\ claims' = [claims EXCEPT ![o] = Gone]
  /\ load' = IF Waiting(o) THEN [at |-> "list"] ELSE load
  /\ UNCHANGED <<serverVars, listVars, excused>>
MutClaimEnds(o) == EndClaim(o) /\ anonCodes' = << >>
ClaimEnds(o) ==
  /\ EndClaim(o)
  /\ \/ claims[o].at = "claimed" /\ anonCodes' = << >>
     \/ UNCHANGED anonCodes

\* The cookie's max-age has passed since a code was last stashed.
CookieExpires ==
  /\ anonCodes # << >> /\ anonCodes' = << >>
  /\ excused' = excused \cup (Range(anonCodes) \cap loose)
  /\ UNCHANGED <<serverVars, claims, load, listVars>>

\* The first page is read, and then shown; or the load fails.
ReadList ==
  /\ load.at = "list"
  /\ load' = [at |-> "answer", page |-> ListLinks(NoCursor)]
  /\ known' = mine
  /\ UNCHANGED <<serverVars, anonCodes, claims, list, cursor, more, removing, deleted, muddled, excused>>

ShowList ==
  /\ load.at \in {"list", "answer"}
  /\ \/ /\ load.at = "answer"
        /\ load' = [at |-> "ready"]
        /\ list' = load.page.links /\ cursor' = load.page.next
     \/ load' = [at |-> "failed"] /\ UNCHANGED <<list, cursor>>
  /\ UNCHANGED <<serverVars, anonCodes, claims, more, removing, known, deleted, muddled, excused>>

\* loadMore: the button is disabled while a page is on its way.
LoadMore ==
  /\ load.at = "ready" /\ cursor # NoCursor /\ more = Gone
  /\ more' = [at |-> "sent", cursor |-> cursor]
  /\ UNCHANGED <<serverVars, anonCodes, claims, load, list, cursor, removing, known, deleted, muddled, excused>>

ReadMore ==
  /\ more.at = "sent"
  /\ more' = [at |-> "answer", page |-> ListLinks(more.cursor)]
  /\ UNCHANGED <<serverVars, anonCodes, claims, load, list, cursor, removing, known, deleted, muddled, excused>>

\* The page is appended to what is shown by then; or a toast.
ShowMore ==
  /\ more # Gone
  /\ \/ more.at = "answer" /\ list' = list \o more.page.links /\ cursor' = more.page.next
     \/ UNCHANGED <<list, cursor>>
  /\ more' = Gone
  /\ UNCHANGED <<serverVars, anonCodes, claims, load, removing, known, deleted, muddled, excused>>

\* filter: the places of what is kept, in order.
Without(s, l) ==
  LET at == InOrder({i \in DOMAIN s : s[i] # l}) IN [j \in DOMAIN at |-> s[at[j]]]

\* remove: the list loses the link at once, and is kept as it was.
RemoveLink(l) ==
  /\ load.at = "ready" /\ l \in Range(list) /\ removing[l] = Gone
  /\ list' = Without(list, l)
  /\ removing' = [removing EXCEPT ![l] = [at |-> "sent", prev |-> list]]
  /\ UNCHANGED <<serverVars, anonCodes, claims, load, cursor, more, known, deleted, muddled, excused>>

\* handleDeleteLink; a link that is gone answers 404.
ServerDeletes(l) ==
  /\ removing[l].at = "sent" /\ l \in mine
  /\ mine' = mine \ {l} /\ known' = known \ {l}
  /\ removing' = [removing EXCEPT ![l].at = "deleted"]
  /\ UNCHANGED <<made, loose, anonCodes, claims, load, list, cursor, more, deleted, muddled, excused>>

\* The answer: nothing to do, or the list as it was comes back.
RemoveEnds(l) ==
  /\ removing[l] # Gone
  /\ \/ /\ removing[l].at = "deleted"
        /\ deleted' = deleted \cup {l} /\ UNCHANGED <<list, muddled>>
     \/ /\ list' = removing[l].prev
        /\ muddled' = (muddled \/ (list # Without(removing[l].prev, l)))
        /\ UNCHANGED deleted
  /\ removing' = [removing EXCEPT ![l] = Gone]
  /\ UNCHANGED <<serverVars, anonCodes, claims, load, cursor, more, known, excused>>

\* The modal creates a link, and onCreated mounts a new Dashboard; if the answer
\* is lost, or it is another tab's modal, nothing happens here.
CreateInModal ==
  /\ made < MaxLinks
  /\ made' = made + 1 /\ mine' = mine \cup {made + 1}
  /\ UNCHANGED <<loose, anonCodes, excused>>
  /\ Mount \/ UNCHANGED <<claims, load, listVars>>

\* Another tab deletes a link.
DeleteElsewhere(l) ==
  /\ l \in mine
  /\ mine' = mine \ {l} /\ known' = known \ {l}
  /\ UNCHANGED <<made, loose, anonCodes, claims, load, list, cursor, more, removing, deleted, muddled, excused>>

\* The landing page shortens: a link without an owner, and its code goes last in
\* the cookie, which keeps the last CookieSize of them.
Stash ==
  LET codes == Append(anonCodes, made + 1)
      kept == SubSeq(codes, IF Len(codes) > CookieSize THEN 2 ELSE 1, Len(codes))
  IN /\ made < MaxStashed
     /\ made' = made + 1 /\ loose' = loose \cup {made + 1}
     /\ \/ /\ anonCodes' = kept
           /\ excused' = excused \cup (Range(codes) \ Range(kept))
                           \cup (IF \E o \in Claims : claims[o] # Gone THEN {made + 1} ELSE {})
        \/ UNCHANGED anonCodes /\ excused' = excused \cup {made + 1}
     /\ UNCHANGED <<mine, claims, load, listVars>>

DashboardNext ==
  \/ Reopen \/ CookieExpires \/ ReadList \/ ShowList
  \/ \E o \in Claims : ClaimElsewhere(o) \/ ClaimAdopts(o) \/ ClaimEnds(o)
  \/ LoadMore \/ ReadMore \/ ShowMore
  \/ \E l \in LinkNos : RemoveLink(l) \/ ServerDeletes(l) \/ RemoveEnds(l) \/ DeleteElsewhere(l)
  \/ CreateInModal \/ Stash

DashboardSpec == DashboardInit /\ [][DashboardNext]_dashboardVars

-----------------------------------------------------------------------------
Descending(s) == \A i, j \in DOMAIN s : i < j => s[i] > s[j]

\* The list is in order and has no link twice, whatever is deleted, created or
\* claimed between two pages.  Down to its cursor it has every link that was there
\* when it was first read and still is, but for those being deleted, and none
\* whose deletion it was told of; except after a rollback that met another
\* change of the list: restoring the list of before a failed delete then loses
\* pages and brings deleted links back, until the list is opened again.
ListFaithful ==
  /\ Descending(list)
  /\ load.at = "ready" /\ ~muddled =>
       /\ \A l \in known :
            l >= cursor => l \in Range(list) \/ removing[l] # Gone
       /\ deleted \cap Range(list) = {}

\* "Adopt any links made anonymously on the landing page": the code of a link
\* without an owner stays in the cookie until the link has one, whatever answers
\* are lost and however many loads and tabs claim at once; except once 30 days have
\* passed since the last code, and for a code stashed while a claim is under way,
\* which the end of that claim clears unread (api.ts:245).
AnonCodesKept == loose \ excused \subseteq Range(anonCodes)
=============================================================================
