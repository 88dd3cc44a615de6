------------------------------ MODULE Accounts ------------------------------
(***************************************************************************)
(* Accounts and sessions: routes/auth.ts, auth.ts, middleware/authenticate. *)
(*                                                                         *)
(* An account is a row of users, keyed by email.  Everything else is a      *)
(* signed token: nothing is stored about it, so what a client can do is the *)
(* set of tokens it holds.  A password is known to the client that chose it *)
(* and never changes, so a login is one step.  A request the rate limiter  *)
(* or a schema refuses changes nothing.                                    *)
(***************************************************************************)
EXTENDS Naturals

CONSTANTS
  Emails,
  Clients,
  Holder,      \* email -> the client that reads its inbox
  NoOne,       \* no client
  LinkTTL,     \* MAGIC_LINK_TTL
  SessionTTL,  \* SESSION_TTL, also the Max-Age of the cookie
  MaxTime      \* bound on the clock

ASSUME AccountsAssumption ==
  /\ Holder \in [Emails -> Clients] /\ NoOne \notin Clients
  /\ LinkTTL \in Nat \ {0} /\ SessionTTL \in Nat \ {0} /\ MaxTime \in Nat

Times == 0..MaxTime + LinkTTL + SessionTTL
Tokens == [purpose : {"magic-link", "session"}, email : Emails, exp : Times]
NoCookie == [purpose |-> "none"]

VARIABLES
  users,     \* email -> is there a row?
  password,  \* email -> the client that knows its password, NoOne without one
  held,      \* client -> tokens it can present: links of its inboxes, and the
             \* session token that verify returns in its body
  cookie,    \* client -> token in its session cookie
  mail,      \* links SMTP has not delivered yet
  now,
  creator,   \* history: email -> client whose registration made the account
  proved     \* history: client, email -> 1 + the time of the last proof of its
             \* right to the account (a link signed for its inbox, its
             \* password), 0 for none

accountVars == <<users, password, held, cookie, mail, now, creator, proved>>

AccountsTypeOK ==
  /\ users \in [Emails -> BOOLEAN]
  /\ password \in [Emails -> Clients \cup {NoOne}]
  /\ held \in [Clients -> SUBSET Tokens]
  /\ cookie \in [Clients -> Tokens \cup {NoCookie}]
  /\ mail \in SUBSET Tokens
  /\ now \in 0..MaxTime
  /\ creator \in [Emails -> Clients \cup {NoOne}]
  /\ proved \in [Clients -> [Emails -> 0..MaxTime + 1]]

AccountsInit ==
  /\ users = [e \in Emails |-> FALSE]
  /\ password = [e \in Emails |-> NoOne]
  /\ held = [c \in Clients |-> {}]
  /\ cookie = [c \in Clients |-> NoCookie]
  /\ mail = {}
  /\ now = 0
  /\ creator = [e \in Emails |-> NoOne]
  /\ proved = [c \in Clients |-> [e \in Emails |-> 0]]

-----------------------------------------------------------------------------
SignMagicLink(e) == [purpose |-> "magic-link", email |-> e, exp |-> now + LinkTTL]
SignSession(e) == [purpose |-> "session", email |-> e, exp |-> now + SessionTTL]

MutVerifyMagicLink(t) == now < t.exp
VerifyMagicLink(t) == t.purpose = "magic-link" /\ now < t.exp
VerifySession(t) == t.purpose = "session" /\ now < t.exp

\* The token a request carries: Authorization first, and then never the cookie.
Presented(c) == held[c] \cup (IF cookie[c] = NoCookie THEN {} ELSE {cookie[c]})

\* authenticate: the accounts a client can make requests for.
SignedInAs(c) == {t.email : t \in {u \in Presented(c) : VerifySession(u)}}

\* The cookie of an answer; the answer may be lost.
SetCookie(c, t) == cookie' = cookie \/ cookie' = [cookie EXCEPT ![c] = t]

Prove(c, e) == proved' = [proved EXCEPT ![c][e] = now + 1]

\* POST auth/request-login, up to the SMTP call: anyone may ask for any email.
RequestLogin(e) ==
  /\ users' = [users EXCEPT ![e] = TRUE]
  /\ mail' = mail \cup {SignMagicLink(e)}
  /\ Prove(Holder[e], e)
  /\ UNCHANGED <<password, held, cookie, now, creator>>

\* sender.send: 200, or 502 and the account stays without its link.
Deliver(t) ==
  /\ mail' = mail \ {t}
  /\ \/ held' = [held EXCEPT ![Holder[t.email]] = @ \cup {t}]
     \/ held' = held
  /\ UNCHANGED <<users, password, cookie, now, creator, proved>>

\* GET auth/verify: nothing marks the link as used.
Verify(c, t) ==
  /\ VerifyMagicLink(t)
  /\ LET session == SignSession(t.email)
     IN /\ SetCookie(c, session)
        /\ held' = [held EXCEPT ![c] = @ \cup {session}]
  /\ UNCHANGED <<users, password, mail, now, creator, proved>>

\* POST auth/register: INSERT ... ON CONFLICT DO NOTHING, and 409 for no row.
MutRegister(c, e) ==
  /\ password' = [password EXCEPT ![e] = c]
  /\ users' = [users EXCEPT ![e] = TRUE]
  /\ creator' = IF users[e] THEN creator ELSE [creator EXCEPT ![e] = c]
  /\ Prove(c, e) /\ SetCookie(c, SignSession(e))
  /\ UNCHANGED <<held, mail, now>>
Register(c, e) ==
  /\ ~users[e]
  /\ users' = [users EXCEPT ![e] = TRUE]
  /\ password' = [password EXCEPT ![e] = c]
  /\ creator' = [creator EXCEPT ![e] = c]
  /\ Prove(c, e)
  /\ SetCookie(c, SignSession(e))
  /\ UNCHANGED <<held, mail, now>>

\* POST auth/login; an account without a password answers as a wrong password.
Login(c, e) ==
  /\ users[e] /\ password[e] = c
  /\ Prove(c, e)
  /\ SetCookie(c, SignSession(e))
  /\ UNCHANGED <<users, password, held, mail, now, creator>>

\* POST auth/logout: the cookie goes, no token does.
Logout(c) ==
  /\ SetCookie(c, NoCookie)
  /\ UNCHANGED <<users, password, held, mail, now, creator, proved>>

AccountsTick ==
  /\ now < MaxTime
  /\ now' = now + 1
  /\ UNCHANGED <<users, password, held, cookie, mail, creator, proved>>

AccountsNext ==
  \/ \E e \in Emails : RequestLogin(e)
  \/ \E t \in mail : Deliver(t)
  \/ \E c \in Clients : \E t \in Presented(c) : Verify(c, t)
  \/ \E c \in Clients, e \in Emails : Register(c, e) \/ Login(c, e)
  \/ \E c \in Clients : Logout(c)
  \/ AccountsTick

AccountsSpec == AccountsInit /\ [][AccountsNext]_accountVars

-----------------------------------------------------------------------------
\* Only two clients can ever act for an account: the one that reads its inbox
\* and the one whose registration created it.  In particular an account that
\* began with a magic link stays its inbox's: "silently setting a password on an
\* existing account would let someone hijack a magic-link user's account".
SessionsEarned ==
  \A c \in Clients : \A e \in SignedInAs(c) : c = Holder[e] \/ c = creator[e]

\* Signing in lasts: whoever acts for an account had a link signed for its
\* inbox or gave its password at most a link's and a session's life ago.  A link
\* may be used again and again until it expires, logging out takes nothing
\* back, but no session can be traded for a newer one.
AuthorityExpires ==
  \A c \in Clients : \A e \in SignedInAs(c) :
    /\ proved[c][e] > 0
    /\ now < (proved[c][e] - 1) + LinkTTL + SessionTTL
=============================================================================
