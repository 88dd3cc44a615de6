----------------------------- MODULE EdgeCache -----------------------------
(***************************************************************************)
(* nginx in front of the redirect (nginx/conf.d/klip.conf): one cached      *)
(* answer for each short link, whoever asks.  One link is followed.         *)
(*                                                                         *)
(* What the application answers is a function of its view of the link       *)
(* (Links has how that lags behind the row) and of who asks.  A tick is     *)
(* some seconds; an answer is on its way for less than one.                 *)
(***************************************************************************)
EXTENDS Naturals

CONSTANTS
  Views,          \* of the link: [exists, private, disabled, prefer301]
  Requests,       \* requests in flight
  NotFoundTicks,  \* proxy_cache_valid 404
  ErrorTicks,     \* proxy_cache_valid 500 502 503 504
  InactiveTicks,  \* inactive of the cache zone
  MaxAge          \* bound: ages are told apart up to this one

\* app: an in-app browser that gets an escape page.  signed: with a cookie or an
\* Authorization; only then can it be the owner's.
Askers == {w \in [app : BOOLEAN, signed : BOOLEAN, owner : BOOLEAN] : w.owner => w.signed}
Storable == {"301", "404", "5xx"}
NoEntry == [kind |-> "none"]
NoRequest == [at |-> "none"]

ASSUME EdgeAssumption ==
  /\ Views \subseteq [exists : BOOLEAN, private : BOOLEAN, disabled : BOOLEAN, prefer301 : BOOLEAN]
  /\ NotFoundTicks \in Nat \ {0} /\ ErrorTicks \in Nat \ {0}
  /\ InactiveTicks \in Nat \ {0}
  /\ MaxAge \in Nat /\ NotFoundTicks < MaxAge /\ ErrorTicks < MaxAge

VARIABLES
  view,   \* the link as the application sees it now
  entry,  \* the stored answer: [kind, from, age, held, idle]: the view it was
          \* made from, ticks since it was made, was stored, was last read
  ask     \* request -> [at, who], then [at, kind, from, age]

edgeVars == <<view, entry, ask>>

EdgeTypeOK ==
  /\ view \in Views
  /\ entry \in [kind : Storable, from : Views, age : 0..MaxAge, held : 0..MaxAge,
             idle : 0..InactiveTicks] \cup {NoEntry}
  /\ ask \in [Requests -> [at : {"upstream"}, who : Askers]
                \cup [at : {"reply"}, kind : Storable, from : Views, age : 0..1]
                \cup {NoRequest}]

EdgeInit ==
  /\ view \in Views
  /\ entry = NoEntry
  /\ ask = [r \in Requests |-> NoRequest]

-----------------------------------------------------------------------------
\* handleRedirect, for a link as it is and a visitor.  A DISABLED marker in Redis
\* answers before anybody asks whose the link is; without one a private link that
\* is disabled too is a 404.
AppAnswers(v, who) ==
  { IF ~v.exists \/ (v.private /\ ~who.owner) THEN "404"
    ELSE IF v.disabled THEN "disabled"
    ELSE IF who.app THEN "escape"
    ELSE IF v.prefer301 THEN "301" ELSE "302" }
  \cup {marker \in {"disabled"} : v.exists /\ v.disabled}

\* How long nginx may serve an answer: the max-age the application sends with a
\* 301 (a year) comes before proxy_cache_valid, no-store keeps an answer out.
Valid(e) ==
  CASE e.kind = "301" -> TRUE
    [] e.kind = "404" -> e.held < NotFoundTicks
    [] OTHER -> e.held < ErrorTicks

MutBypass(who) == who.signed /\ ~who.owner
\* proxy_cache_bypass and proxy_no_cache.
Bypass(who) == who.signed

\* A request is answered from the cache, or passed on.
AskEdge(r, who) ==
  /\ ask[r] = NoRequest
  /\ IF ~Bypass(who) /\ entry # NoEntry /\ Valid(entry)
       THEN entry' = [entry EXCEPT !.idle = 0] /\ UNCHANGED ask
       ELSE /\ ask' = [ask EXCEPT ![r] = [at |-> "upstream", who |-> who]]
            /\ UNCHANGED entry
  /\ UNCHANGED view

\* The application reads the link and answers, or nobody does.  An answer that is
\* not stored has passed.
AppReplies(r) ==
  LET who == ask[r].who
  IN /\ ask[r].at = "upstream"
     /\ \E kind \in AppAnswers(view, who) \cup {"5xx"} :
          ask' = [ask EXCEPT ![r] = IF kind \in Storable /\ ~Bypass(who)
                                      THEN [at |-> "reply", kind |-> kind, from |-> view, age |-> 0]
                                      ELSE NoRequest]
     /\ UNCHANGED <<view, entry>>

\* nginx stores it over whatever is there; its time starts now.
StoreReply(r) ==
  /\ ask[r].at = "reply"
  /\ entry' = [kind |-> ask[r].kind, from |-> ask[r].from, age |-> ask[r].age,
               held |-> 0, idle |-> 0]
  /\ ask' = [ask EXCEPT ![r] = NoRequest]
  /\ UNCHANGED view

\* PATCH, DELETE, an admin, expiry: nothing tells nginx.
ViewChanges ==
  /\ view' \in Views
  /\ UNCHANGED <<entry, ask>>

NextAge(n) == IF n = MaxAge THEN n ELSE n + 1
\* The cache manager removes what was not read for a while, and anything when
\* the zone is full.
EdgeTick ==
  /\ \A r \in Requests : ask[r].at = "reply" => ask[r].age = 0
  /\ \/ entry' = NoEntry
     \/ /\ entry # NoEntry /\ entry.idle < InactiveTicks
        /\ entry' = [entry EXCEPT !.age = NextAge(@), !.held = NextAge(@), !.idle = @ + 1]
  /\ ask' = [r \in Requests |-> IF ask[r].at = "reply" THEN [ask[r] EXCEPT !.age = 1] ELSE ask[r]]
  /\ UNCHANGED view

EdgeNext ==
  \/ \E r \in Requests :
       \/ \E who \in Askers : AskEdge(r, who)
       \/ AppReplies(r) \/ StoreReply(r)
  \/ ViewChanges
  \/ EdgeTick

EdgeSpec == EdgeInit /\ [][EdgeNext]_edgeVars

-----------------------------------------------------------------------------
Served(who) == ~Bypass(who) /\ entry # NoEntry /\ Valid(entry)

\* What the cache serves is what the application answered some anonymous visitor:
\* no private link's destination, nothing made for its owner.  A visitor who is
\* served what the application, of the same view, would not have answered him
\* uses an in-app browser and gets a stored 301 instead of the escape page, which
\* the configuration (klip.conf:155) says cannot happen.  Only a 301 is
\* served for longer than a 404's time after the link has changed, without end.
EdgeServesAnyone ==
  \A who \in Askers : Served(who) =>
    LET own == AppAnswers(entry.from, who)
    IN /\ ~who.signed
       /\ entry.kind = "301" => ~entry.from.private /\ entry.from.exists /\ ~entry.from.disabled
       /\ entry.kind \in own \cup {"5xx"} \/ (who.app /\ own = {"escape"} /\ entry.kind = "301")
       /\ entry.kind = "301" \/ entry.age <= (IF entry.kind = "404" THEN NotFoundTicks ELSE ErrorTicks)
=============================================================================
