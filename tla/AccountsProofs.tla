--------------------------- MODULE AccountsProofs ----------------------------
(***************************************************************************)
(* Theorems about Accounts, for any emails, clients, token lifetimes and   *)
(* length of the clock; Session, for any people with accounts; and         *)
(* Dashboard, for any number of links and any page size.                   *)
(***************************************************************************)
EXTENDS Accounts, Session, Dashboard, SequenceTheorems, DataLemmas, TLAPS

-----------------------------------------------------------------------------
(* Tokens, cookies and what is proved for them.                            *)

\* How long a token of a purpose may outlive the proof behind it.
Life(purpose) == IF purpose = "session" THEN LinkTTL + SessionTTL ELSE LinkTTL

\* What stands behind a token a client presents: it reads the inbox or made the
\* account, and proved so a token's life ago at most.
Backed(c, t) ==
  /\ c = Holder[t.email] \/ c = creator[t.email]
  /\ proved[c][t.email] > 0
  /\ t.exp <= (proved[c][t.email] - 1) + Life(t.purpose)

TokensBacked == \A c \in Clients : \A t \in Presented(c) : Backed(c, t)

\* A link on its way is one for its inbox.
MailBacked == \A t \in mail : t.purpose = "magic-link" /\ Backed(Holder[t.email], t)

\* Only the registration that makes an account sets its password.
PasswordsChosen ==
  \A e \in Emails :
    /\ password[e] # NoOne => password[e] = creator[e]
    /\ creator[e] # NoOne => users[e]

\* Proofs are not of the future.
ProvedByNow == \A c \in Clients, e \in Emails : proved[c][e] <= now + 1

AccountsInv ==
  /\ AccountsTypeOK
  /\ TokensBacked
  /\ MailBacked
  /\ PasswordsChosen
  /\ ProvedByNow

-----------------------------------------------------------------------------
\* A token signed now is a token.
LEMMA SignedTokens ==
  ASSUME AccountsTypeOK, NEW e \in Emails
  PROVE  /\ SignMagicLink(e) \in Tokens /\ SignSession(e) \in Tokens
         /\ SignMagicLink(e).purpose = "magic-link"
         /\ SignSession(e).purpose = "session"
         /\ SignMagicLink(e).email = e /\ SignSession(e).email = e
         /\ SignMagicLink(e).exp = now + LinkTTL
         /\ SignSession(e).exp = now + SessionTTL
  BY AccountsAssumption
  DEF SignMagicLink, SignSession, Tokens, Times, AccountsTypeOK

\* The sentinel of an empty cookie is no token.
LEMMA NoCookieNoToken == NoCookie \notin Tokens
<1>1. \A t \in Tokens : t.purpose # "none"
  BY DEF Tokens
<1>2. NoCookie.purpose = "none"
  BY DEF NoCookie
<1> QED
  BY <1>1, <1>2

\* What a client presents are tokens.
LEMMA PresentedTokens ==
  ASSUME AccountsTypeOK, NEW c \in Clients, NEW t \in Presented(c)
  PROVE  t \in Tokens /\ t.email \in Emails /\ t.exp \in Nat
<1>1. t \in Tokens
  BY DEF Presented, AccountsTypeOK
<1>2. t.email \in Emails /\ t.exp \in Times
  BY <1>1 DEF Tokens
<1>3. Times \subseteq Nat
  BY AccountsAssumption DEF Times
<1> QED
  BY <1>1, <1>2, <1>3

\* Time and further proofs keep a token backed, as long as no account changes
\* its creator.
LEMMA BackedLasts ==
  ASSUME AccountsTypeOK, NEW c \in Clients,
         NEW t, t.email \in Emails, t.exp \in Nat, Backed(c, t),
         creator'[t.email] = creator[t.email] \/ c = Holder[t.email],
         proved'[c][t.email] \in Nat, proved'[c][t.email] >= proved[c][t.email]
  PROVE  Backed(c, t)'
<1>1. proved[c][t.email] \in Nat /\ Life(t.purpose) \in Nat
  BY AccountsAssumption DEF AccountsTypeOK, Life
<1>2. (Life(t.purpose))' = Life(t.purpose)
  BY DEF Life
<1> QED
  BY <1>1, <1>2 DEF Backed

\* A token signed now for one who proves his right now, is backed.
LEMMA FreshBacked ==
  ASSUME AccountsTypeOK, NEW c \in Clients, NEW t,
         c = Holder[t.email] \/ c = creator'[t.email],
         proved'[c][t.email] = now + 1,
         \/ t.purpose = "magic-link" /\ t.exp = now + LinkTTL
         \/ t.purpose = "session" /\ t.exp = now + SessionTTL
  PROVE  Backed(c, t)'
<1>1. now \in Nat /\ LinkTTL \in Nat /\ SessionTTL \in Nat
  BY AccountsAssumption DEF AccountsTypeOK
<1>2. (proved[c][t.email])' > 0
  BY <1>1
<1>3. t.exp <= ((now + 1) - 1) + Life(t.purpose)
  BY <1>1 DEF Life
<1> QED
  BY <1>2, <1>3 DEF Backed, Life

\* Prove is what it says.
LEMMA ProveEffect ==
  ASSUME AccountsTypeOK, ProvedByNow, NEW c \in Clients, NEW e \in Emails, Prove(c, e), now' = now
  PROVE  /\ proved' \in [Clients -> [Emails -> 0..MaxTime + 1]]
         /\ proved'[c][e] = now + 1
         /\ \A d \in Clients, f \in Emails :
              proved'[d][f] \in Nat /\ proved'[d][f] >= proved[d][f]
         /\ ProvedByNow'
<1>1. /\ now \in Nat /\ now + 1 \in 0..MaxTime + 1
      /\ proved \in [Clients -> [Emails -> 0..MaxTime + 1]]
  BY AccountsAssumption DEF AccountsTypeOK
<1>2. proved' = [proved EXCEPT ![c] = [proved[c] EXCEPT ![e] = now + 1]]
  BY <1>1 DEF Prove
<1>3. \A d \in Clients, f \in Emails :
        proved'[d][f] = IF d = c /\ f = e THEN now + 1 ELSE proved[d][f]
  BY <1>1, <1>2
<1>4. \A d \in Clients, f \in Emails : proved[d][f] \in Nat /\ proved[d][f] <= now + 1
  BY <1>1 DEF ProvedByNow
<1>5. proved' \in [Clients -> [Emails -> 0..MaxTime + 1]]
  BY <1>1, <1>2
<1>6. ProvedByNow'
  BY <1>1, <1>3, <1>4 DEF ProvedByNow
<1> QED
  BY <1>1, <1>3, <1>4, <1>5, <1>6

-----------------------------------------------------------------------------
LEMMA AccountsInvInit == AccountsInit => AccountsInv
<1> SUFFICES ASSUME AccountsInit PROVE AccountsInv
  OBVIOUS
<1>1. AccountsTypeOK
  BY AccountsAssumption DEF AccountsInit, AccountsTypeOK
<1>2. \A c \in Clients : Presented(c) = {}
  BY DEF AccountsInit, Presented
<1>3. TokensBacked /\ MailBacked /\ PasswordsChosen /\ ProvedByNow
  BY <1>2 DEF AccountsInit, TokensBacked, MailBacked, PasswordsChosen, ProvedByNow
<1> QED
  BY <1>1, <1>3 DEF AccountsInv

\* A step by which clients get hold of backed tokens only, and nothing behind
\* the others is lost, keeps every token backed.
LEMMA TokensStayBacked ==
  ASSUME AccountsInv,
         \A c \in Clients : \A t \in (Presented(c))' : t \in Presented(c) \/ Backed(c, t)',
         \A e \in Emails, c \in Clients :
           /\ creator'[e] = creator[e] \/ creator[e] = NoOne
           /\ proved'[c][e] \in Nat /\ proved'[c][e] >= proved[c][e]
  PROVE  TokensBacked'
<1> SUFFICES ASSUME NEW c \in Clients, NEW t \in (Presented(c))', t \in Presented(c)
             PROVE  Backed(c, t)'
  BY DEF TokensBacked
<1>1. AccountsTypeOK /\ Backed(c, t)
  BY DEF AccountsInv, TokensBacked
<1>2. t.email \in Emails /\ t.exp \in Nat
  BY <1>1, PresentedTokens
<1>3. creator'[t.email] = creator[t.email] \/ c = Holder[t.email]
  BY <1>1, <1>2, AccountsAssumption DEF Backed
<1> QED
  BY <1>1, <1>2, <1>3, BackedLasts

\* The same of links on their way.
LEMMA MailStaysBacked ==
  ASSUME AccountsInv,
         \A t \in mail' : t \in mail \/ (t.purpose = "magic-link" /\ Backed(Holder[t.email], t)'),
         \A e \in Emails, c \in Clients : proved'[c][e] \in Nat /\ proved'[c][e] >= proved[c][e]
  PROVE  MailBacked'
<1> SUFFICES ASSUME NEW t \in mail', t \in mail
             PROVE  t.purpose = "magic-link" /\ Backed(Holder[t.email], t)'
  BY DEF MailBacked
<1>1. /\ AccountsTypeOK /\ t \in Tokens
      /\ t.purpose = "magic-link" /\ Backed(Holder[t.email], t)
  BY DEF AccountsInv, AccountsTypeOK, MailBacked
<1>2. t.email \in Emails /\ t.exp \in Nat /\ Holder[t.email] \in Clients
  BY <1>1, AccountsAssumption DEF Tokens, Times
<1>3. Backed(Holder[t.email], t)'
  BY <1>1, <1>2, BackedLasts
<1> QED
  BY <1>1, <1>3

\* A cookie set is the only one that changes.
LEMMA CookieSet ==
  ASSUME AccountsTypeOK, NEW c \in Clients, NEW t \in Tokens \cup {NoCookie}, SetCookie(c, t)
  PROVE  /\ cookie' \in [Clients -> Tokens \cup {NoCookie}]
         /\ \A d \in Clients : cookie'[d] = cookie[d] \/ (d = c /\ cookie'[d] = t)
  BY DEF AccountsTypeOK, SetCookie

\* What holds of proofs that nothing adds to.
LEMMA ProofsKept ==
  ASSUME AccountsInv, UNCHANGED proved
  PROVE  \A e \in Emails, c \in Clients :
           proved'[c][e] \in Nat /\ proved'[c][e] >= proved[c][e]
  BY DEF AccountsInv, AccountsTypeOK

-----------------------------------------------------------------------------
\* The invariant is inductive.
LEMMA AccountsInvNext ==
  ASSUME AccountsInv, [AccountsNext]_accountVars
  PROVE  AccountsInv'
<1> USE DEF AccountsInv
<1>1. ASSUME NEW e \in Emails, RequestLogin(e) PROVE AccountsInv'
  <2>1. Holder[e] \in Clients
    BY AccountsAssumption
  <2>2. /\ proved' \in [Clients -> [Emails -> 0..MaxTime + 1]]
        /\ proved'[Holder[e]][e] = now + 1
        /\ \A d \in Clients, f \in Emails :
             proved'[d][f] \in Nat /\ proved'[d][f] >= proved[d][f]
        /\ ProvedByNow'
    BY <1>1, <2>1, ProveEffect DEF RequestLogin
  <2>3. AccountsTypeOK'
    BY <1>1, <2>2, SignedTokens DEF RequestLogin, AccountsTypeOK
  <2>4. TokensBacked'
    BY <1>1, <2>2, TokensStayBacked DEF RequestLogin, Presented
  <2>5. Backed(Holder[e], SignMagicLink(e))'
    <3> DEFINE t == SignMagicLink(e)
    <3>1. t.email = e /\ t.purpose = "magic-link" /\ t.exp = now + LinkTTL
      BY SignedTokens
    <3>2. SignMagicLink(e)' = t
      BY <1>1 DEF RequestLogin, SignMagicLink
    <3> HIDE DEF t
    <3> QED
      BY <2>1, <2>2, <3>1, <3>2, FreshBacked
  <2>6. MailBacked'
    BY <1>1, <2>2, <2>5, SignedTokens, MailStaysBacked DEF RequestLogin, SignMagicLink
  <2>7. PasswordsChosen'
    BY <1>1 DEF RequestLogin, PasswordsChosen, AccountsTypeOK
  <2> QED
    BY <2>2, <2>3, <2>4, <2>6, <2>7
<1>2. ASSUME NEW t \in mail, Deliver(t) PROVE AccountsInv'
  <2>1. t \in Tokens /\ t.email \in Emails /\ Holder[t.email] \in Clients
    BY AccountsAssumption DEF AccountsTypeOK, Tokens
  <2>2. AccountsTypeOK'
    <3>1. held \in [Clients -> SUBSET Tokens] /\ mail \in SUBSET Tokens
      BY DEF AccountsTypeOK
    <3>2. held' \in [Clients -> SUBSET Tokens]
      BY <1>2, <2>1, <3>1 DEF Deliver
    <3>3. mail' \in SUBSET Tokens
      BY <1>2, <3>1 DEF Deliver
    <3> QED
      BY <1>2, <3>2, <3>3 DEF Deliver, AccountsTypeOK
  <2>3. Backed(Holder[t.email], t)'
    BY <1>2 DEF Deliver, MailBacked, Backed, Life
  <2>4. \A c \in Clients : \A u \in (Presented(c))' :
          u \in Presented(c) \/ (c = Holder[t.email] /\ u = t)
    BY <1>2, <2>1 DEF Deliver, Presented, AccountsTypeOK
  <2>5. TokensBacked'
    BY <1>2, <2>3, <2>4, ProofsKept, TokensStayBacked DEF Deliver
  <2>6. MailBacked'
    BY <1>2, ProofsKept, MailStaysBacked DEF Deliver
  <2> QED
    BY <1>2, <2>2, <2>5, <2>6 DEF Deliver, PasswordsChosen, ProvedByNow
<1>3. ASSUME NEW c \in Clients, NEW t \in Presented(c), Verify(c, t) PROVE AccountsInv'
  <2>1. t \in Tokens /\ t.email \in Emails /\ t.exp \in Nat
    BY PresentedTokens
  <2>2. PICK session \in Tokens :
          /\ session = SignSession(t.email) /\ session.purpose = "session"
          /\ session.email = t.email /\ session.exp = now + SessionTTL
    BY <2>1, SignedTokens
  <2>3. /\ cookie' \in [Clients -> Tokens \cup {NoCookie}]
        /\ \A d \in Clients : cookie'[d] = cookie[d] \/ (d = c /\ cookie'[d] = session)
    BY <1>3, <2>2, CookieSet DEF Verify
  <2>4. held' = [held EXCEPT ![c] = @ \cup {session}]
    BY <1>3, <2>2 DEF Verify
  <2>5. AccountsTypeOK'
    <3>1. held \in [Clients -> SUBSET Tokens]
      BY DEF AccountsTypeOK
    <3>2. held' \in [Clients -> SUBSET Tokens]
      BY <2>2, <2>4, <3>1
    <3> QED
      BY <1>3, <2>3, <3>2 DEF Verify, AccountsTypeOK
  <2>6. Backed(c, session)'
    <3>1. Backed(c, t) /\ t.purpose = "magic-link" /\ now < t.exp
      BY <1>3 DEF TokensBacked, Verify, VerifyMagicLink
    <3>2. now \in Nat /\ proved[c][t.email] \in Nat /\ LinkTTL \in Nat /\ SessionTTL \in Nat
      BY <2>1, AccountsAssumption DEF AccountsTypeOK
    <3>3. t.exp <= (proved[c][t.email] - 1) + LinkTTL
      BY <3>1 DEF Backed, Life
    <3>4. now + SessionTTL <= (proved[c][t.email] - 1) + (LinkTTL + SessionTTL)
      BY <2>1, <3>1, <3>2, <3>3
    <3>5. UNCHANGED <<creator, proved>>
      BY <1>3 DEF Verify
    <3> QED
      BY <2>2, <3>1, <3>4, <3>5 DEF Backed, Life
  <2>7. \A d \in Clients : \A u \in (Presented(d))' :
          u \in Presented(d) \/ (d = c /\ u = session)
    BY <2>3, <2>4 DEF Presented, AccountsTypeOK
  <2>8. TokensBacked'
    BY <1>3, <2>6, <2>7, ProofsKept, TokensStayBacked DEF Verify
  <2>9. MailBacked'
    BY <1>3, ProofsKept, MailStaysBacked DEF Verify
  <2> QED
    BY <1>3, <2>5, <2>8, <2>9 DEF Verify, PasswordsChosen, ProvedByNow
<1>4. ASSUME NEW c \in Clients, NEW e \in Emails, Register(c, e) \/ Login(c, e)
      PROVE  AccountsInv'
  <2>1. PICK session \in Tokens :
          /\ session = SignSession(e) /\ session.purpose = "session"
          /\ session.email = e /\ session.exp = now + SessionTTL
    BY SignedTokens
  <2>2. Prove(c, e) /\ SetCookie(c, session) /\ UNCHANGED <<held, mail, now>>
    BY <1>4, <2>1 DEF Register, Login
  <2>3. /\ proved' \in [Clients -> [Emails -> 0..MaxTime + 1]]
        /\ proved'[c][e] = now + 1
        /\ \A d \in Clients, f \in Emails :
             proved'[d][f] \in Nat /\ proved'[d][f] >= proved[d][f]
        /\ ProvedByNow'
    BY <2>2, ProveEffect
  <2>4. /\ cookie' \in [Clients -> Tokens \cup {NoCookie}]
        /\ \A d \in Clients : cookie'[d] = cookie[d] \/ (d = c /\ cookie'[d] = session)
    BY <2>1, <2>2, CookieSet
  <2>5. /\ creator' \in [Emails -> Clients \cup {NoOne}] /\ creator'[e] = c
        /\ \A f \in Emails : creator'[f] = creator[f] \/ creator[f] = NoOne
        /\ PasswordsChosen'
    <3>1. CASE Register(c, e)
      <4>1. /\ users \in [Emails -> BOOLEAN]
            /\ password \in [Emails -> Clients \cup {NoOne}]
            /\ creator \in [Emails -> Clients \cup {NoOne}]
        BY DEF AccountsTypeOK
      <4>2. /\ users' = [users EXCEPT ![e] = TRUE]
            /\ password' = [password EXCEPT ![e] = c]
            /\ creator' = [creator EXCEPT ![e] = c]
            /\ ~users[e]
        BY <3>1 DEF Register
      <4>3. creator[e] = NoOne
        BY <4>2 DEF PasswordsChosen
      <4> QED
        BY <4>1, <4>2, <4>3 DEF PasswordsChosen
    <3>2. CASE Login(c, e)
      <4>1. /\ creator \in [Emails -> Clients \cup {NoOne}]
            /\ UNCHANGED <<users, password, creator>> /\ password[e] = c
        BY <3>2 DEF Login, AccountsTypeOK
      <4> QED
        BY <4>1, AccountsAssumption DEF PasswordsChosen
    <3> QED
      BY <1>4, <3>1, <3>2
  <2>6. AccountsTypeOK'
    BY <1>4, <2>2, <2>3, <2>4, <2>5 DEF Register, Login, AccountsTypeOK
  <2>7. Backed(c, session)'
    BY <2>1, <2>3, <2>5, FreshBacked
  <2>8. \A d \in Clients : \A u \in (Presented(d))' :
          u \in Presented(d) \/ (d = c /\ u = session)
    BY <2>2, <2>4 DEF Presented, AccountsTypeOK
  <2>9. TokensBacked'
    BY <2>3, <2>5, <2>7, <2>8, TokensStayBacked
  <2>10. MailBacked'
    BY <2>2, <2>3, MailStaysBacked
  <2> QED
    BY <2>3, <2>5, <2>6, <2>9, <2>10
<1>5. ASSUME NEW c \in Clients, Logout(c) PROVE AccountsInv'
  <2>1. /\ cookie' \in [Clients -> Tokens \cup {NoCookie}]
        /\ \A d \in Clients : cookie'[d] = cookie[d] \/ (d = c /\ cookie'[d] = NoCookie)
    BY <1>5, CookieSet DEF Logout
  <2>2. AccountsTypeOK'
    BY <1>5, <2>1 DEF Logout, AccountsTypeOK
  <2>3. \A d \in Clients : \A u \in (Presented(d))' : u \in Presented(d)
    BY <1>5, <2>1 DEF Logout, Presented
  <2>4. TokensBacked'
    BY <1>5, <2>3, ProofsKept, TokensStayBacked DEF Logout
  <2>5. MailBacked'
    BY <1>5, ProofsKept, MailStaysBacked DEF Logout
  <2> QED
    BY <1>5, <2>2, <2>4, <2>5 DEF Logout, PasswordsChosen, ProvedByNow
<1>6. ASSUME AccountsTick PROVE AccountsInv'
  <2>1. /\ now' \in 0..MaxTime /\ now' = now + 1 /\ now \in Nat
        /\ UNCHANGED <<users, password, held, cookie, mail, creator, proved>>
    BY <1>6, AccountsAssumption DEF AccountsTick, AccountsTypeOK
  <2>2. AccountsTypeOK'
    BY <2>1 DEF AccountsTypeOK
  <2>3. \A d \in Clients : (Presented(d))' = Presented(d)
    BY <2>1 DEF Presented
  <2>4. TokensBacked'
    BY <2>1, <2>3, ProofsKept, TokensStayBacked
  <2>5. MailBacked'
    BY <2>1, ProofsKept, MailStaysBacked
  <2>6. ProvedByNow'
    BY <2>1 DEF ProvedByNow, AccountsTypeOK
  <2> QED
    BY <2>1, <2>2, <2>4, <2>5, <2>6 DEF PasswordsChosen
<1>7. ASSUME UNCHANGED accountVars PROVE AccountsInv'
  BY <1>7 DEF accountVars, AccountsTypeOK, TokensBacked, MailBacked, PasswordsChosen,
     ProvedByNow, Presented, Backed, Life
<1> QED
  BY <1>1, <1>2, <1>3, <1>4, <1>5, <1>6, <1>7 DEF AccountsNext

\* Every reachable state satisfies the invariant.
LEMMA AccountsInvHolds == AccountsSpec => []AccountsInv
  BY AccountsInvInit, AccountsInvNext, PTL DEF AccountsSpec

-----------------------------------------------------------------------------
\* Every reachable state is well-typed.
THEOREM AccountsTypeCorrect == AccountsSpec => []AccountsTypeOK
<1>1. AccountsInv => AccountsTypeOK
  BY DEF AccountsInv
<1> QED
  BY <1>1, AccountsInvHolds, PTL

\* Only the reader of the inbox and the client whose registration made the
\* account ever act for it.
THEOREM SessionsEarnedHolds == AccountsSpec => []SessionsEarned
<1>1. AccountsInv => SessionsEarned
  BY DEF AccountsInv, TokensBacked, Backed, SessionsEarned, SignedInAs
<1> QED
  BY <1>1, AccountsInvHolds, PTL

\* Nobody acts for an account longer than a link's and a session's life after
\* the last proof of his right to it, whatever tokens are used again.
THEOREM AuthorityExpiresHolds == AccountsSpec => []AuthorityExpires
<1>1. ASSUME AccountsInv PROVE AuthorityExpires
  <2> SUFFICES ASSUME NEW c \in Clients, NEW t \in Presented(c), VerifySession(t)
               PROVE  /\ proved[c][t.email] > 0
                      /\ now < (proved[c][t.email] - 1) + LinkTTL + SessionTTL
    BY DEF AuthorityExpires, SignedInAs
  <2>1. Backed(c, t) /\ t.purpose = "session" /\ now < t.exp
    BY <1>1 DEF AccountsInv, TokensBacked, VerifySession
  <2>2. /\ now \in Nat /\ proved[c][t.email] \in Nat /\ t.exp \in Nat
        /\ LinkTTL \in Nat /\ SessionTTL \in Nat
    BY <1>1, PresentedTokens, AccountsAssumption DEF AccountsInv, AccountsTypeOK
  <2>3. t.exp <= (proved[c][t.email] - 1) + (LinkTTL + SessionTTL)
    BY <2>1 DEF Backed, Life
  <2> QED
    BY <2>1, <2>2, <2>3 DEF Backed
<1> QED
  BY <1>1, AccountsInvHolds, PTL

-----------------------------------------------------------------------------
(* The page that shows whose session it is.                                *)

\* The page shows a screen of its own only when its boot has ended.
LoadingWhileBooting == boot.at # "done" => status = "loading"

\* What the probe heard is whose session it is, unless that has changed since.
HeardOfAccount == boot.at = "me" => boot.email = account \/ moved

\* Only a token in the URL is verified.
VerifiesToken == boot.at = "verify" => token # NoToken

SessionInv ==
  /\ SessionTypeOK
  /\ LoadingWhileBooting /\ HeardOfAccount /\ VerifiesToken
  /\ ShellTellsTruth

-----------------------------------------------------------------------------
LEMMA SessionInvInit == SessionInit => SessionInv
<1> SUFFICES ASSUME SessionInit PROVE SessionInv
  OBVIOUS
<1>1. boot = [at |-> "probe"] /\ NoToken \notin [email : People, good : BOOLEAN]
  BY SessionAssumption DEF SessionInit, BootAt, NoToken
<1>2. boot.at = "probe" /\ status = "loading"
  <2>1. boot.at = "probe"
    BY <1>1
  <2>2. status = "loading"
    BY DEF SessionInit
  <2> QED
    BY <2>1, <2>2
<1>3. boot \in [at : {"verify", "probe", "done"}]
  BY <1>1
<1>4. SessionTypeOK
  BY <1>3 DEF SessionInit, SessionTypeOK, Maybe
<1>5. LoadingWhileBooting /\ HeardOfAccount /\ VerifiesToken /\ ShellTellsTruth
  BY <1>2 DEF LoadingWhileBooting, HeardOfAccount, VerifiesToken, ShellTellsTruth
<1> QED
  BY <1>4, <1>5 DEF SessionInv

\* The boot effect leads to the invariant from any state of the page.
LEMMA BootsKeeps ==
  ASSUME SessionInv, NEW t \in [email : People, good : BOOLEAN] \cup {NoToken},
         Boots(t), token' = t, UNCHANGED <<account, stored>>,
         shown' \in {shown, stored}
  PROVE  SessionInv'
<1>1. /\ boot' = [at |-> IF t = NoToken THEN "probe" ELSE "verify"]
      /\ status' = "loading" /\ heard' = "" /\ moved' = FALSE /\ torn' = FALSE
  BY DEF Boots, BootAt
<1>2. SessionTypeOK'
  BY <1>1 DEF SessionInv, SessionTypeOK
<1> QED
  BY <1>1, <1>2
  DEF SessionInv, LoadingWhileBooting, HeardOfAccount, VerifiesToken, ShellTellsTruth

\* The answers of the boot.
LEMMA VerifyTokenKeeps ==
  ASSUME SessionInv, VerifyToken
  PROVE  SessionInv'
<1>1. token \in [email : People, good : BOOLEAN]
  BY DEF SessionInv, SessionTypeOK, VerifiesToken, VerifyToken
<1>2. /\ boot' \in {[at |-> "verified", email |-> token.email], [at |-> "probe"]}
      /\ UNCHANGED <<account, token, status, shown, stored, heard, moved, torn>>
  BY DEF VerifyToken
<1>3. boot' \in [at : {"verify", "probe", "done"}] \cup [at : {"verified", "me"}, email : Maybe]
  BY <1>1, <1>2 DEF Maybe
<1>4. SessionTypeOK'
  BY <1>2, <1>3 DEF SessionInv, SessionTypeOK
<1>5. boot'.at \in {"verified", "probe"} /\ status = "loading"
  BY <1>2 DEF VerifyToken, SessionInv, LoadingWhileBooting
<1> QED
  BY <1>2, <1>4, <1>5
  DEF SessionInv, LoadingWhileBooting, HeardOfAccount, VerifiesToken, ShellTellsTruth

LEMMA VerifiedKeeps ==
  ASSUME SessionInv, Verified
  PROVE  SessionInv'
<1>1. boot \in [at : {"verified", "me"}, email : Maybe] /\ status = "loading"
  BY DEF SessionInv, SessionTypeOK, LoadingWhileBooting, Verified
<1>2. CASE boot' = [at |-> "done"]
  <2>1. /\ account' = boot.email /\ token' = NoToken /\ status' = "authed"
        /\ UNCHANGED <<heard, moved>>
        /\ \/ shown' = boot.email /\ stored' = boot.email /\ torn' = torn
           \/ shown' = shown /\ stored' = stored /\ torn' = TRUE
    BY <1>2 DEF Verified, RememberEmail
  <2>2. SessionTypeOK'
    BY <1>1, <1>2, <2>1 DEF SessionInv, SessionTypeOK
  <2> QED
    BY <1>2, <2>1, <2>2
    DEF SessionInv, LoadingWhileBooting, HeardOfAccount, VerifiesToken, ShellTellsTruth
<1>3. CASE /\ boot' = [at |-> "probe"]
           /\ UNCHANGED <<account, token, status, shown, stored, torn, heard, moved>>
  <2>1. SessionTypeOK'
    BY <1>3 DEF SessionInv, SessionTypeOK
  <2> QED
    BY <1>1, <1>3, <2>1
    DEF SessionInv, LoadingWhileBooting, HeardOfAccount, VerifiesToken, ShellTellsTruth
<1> QED
  BY <1>2, <1>3 DEF Verified

LEMMA ProbeKeeps ==
  ASSUME SessionInv, ProbeSession
  PROVE  SessionInv'
<1>1. /\ boot' = [at |-> "me", email |-> account] /\ status = "loading"
      /\ UNCHANGED <<account, token, status, shown, stored, heard, moved, torn>>
  BY DEF ProbeSession, SessionInv, LoadingWhileBooting
<1>2. SessionTypeOK'
  BY <1>1 DEF SessionInv, SessionTypeOK
<1> QED
  BY <1>1, <1>2
  DEF SessionInv, LoadingWhileBooting, HeardOfAccount, VerifiesToken, ShellTellsTruth

LEMMA ProbedKeeps ==
  ASSUME SessionInv, Probed
  PROVE  SessionInv'
<1>1. /\ boot' = [at |-> "done"] /\ status = "loading"
      /\ UNCHANGED <<account, token, moved>>
      /\ boot.at = "me" => boot \in [at : {"verified", "me"}, email : Maybe]
  BY DEF Probed, SessionInv, SessionTypeOK, LoadingWhileBooting
<1>2. CASE boot.at = "me" /\ boot.email # Nobody /\ status' = "authed"
  <2>1. /\ heard' = heard
        /\ \/ shown' = boot.email /\ stored' = boot.email /\ torn' = torn
           \/ shown' = Undefined /\ stored' = Undefined /\ torn' = TRUE
    BY <1>2 DEF Probed, RememberEmail
  <2>2. SessionTypeOK'
    BY <1>1, <1>2, <2>1 DEF SessionInv, SessionTypeOK
  <2> QED
    BY <1>1, <1>2, <2>1, <2>2
    DEF SessionInv, LoadingWhileBooting, HeardOfAccount, VerifiesToken, ShellTellsTruth
<1>3. CASE boot.at = "me" /\ boot.email = Nobody /\ status' = "anon"
  <2>1. heard' = "401" /\ UNCHANGED <<shown, stored, torn>>
    BY <1>3 DEF Probed
  <2>2. SessionTypeOK'
    BY <1>1, <1>3, <2>1 DEF SessionInv, SessionTypeOK
  <2> QED
    BY <1>1, <1>3, <2>1, <2>2
    DEF SessionInv, LoadingWhileBooting, HeardOfAccount, VerifiesToken, ShellTellsTruth
<1>4. CASE status' = "error"
  <2>1. UNCHANGED <<shown, stored, heard, torn>>
    BY <1>4 DEF Probed
  <2>2. SessionTypeOK'
    BY <1>1, <1>4, <2>1 DEF SessionInv, SessionTypeOK
  <2> QED
    BY <1>1, <1>4, <2>2
    DEF SessionInv, LoadingWhileBooting, HeardOfAccount, VerifiesToken, ShellTellsTruth
<1> QED
  BY <1>2, <1>3, <1>4 DEF Probed

-----------------------------------------------------------------------------
\* The invariant is inductive.
LEMMA SessionInvNext ==
  ASSUME SessionInv, [SessionNext]_sessionVars
  PROVE  SessionInv'
<1> DEFINE UrlTokens == [email : People, good : BOOLEAN] \cup {NoToken}
<1>1. token \in UrlTokens /\ SessionTypeOK
  BY DEF SessionInv, SessionTypeOK
<1>2. ASSUME NEW t \in [email : People, good : {TRUE}] \cup {token}, OpenPage(t)
      PROVE  SessionInv'
  <2>1. t \in UrlTokens
    BY <1>1
  <2> QED
    BY <1>2, <2>1, BootsKeeps DEF OpenPage
<1>3. ASSUME Retry PROVE SessionInv'
  BY <1>1, <1>3, BootsKeeps DEF Retry
<1>4. ASSUME SignOut PROVE SessionInv'
  <2>1. /\ boot.at = "done" /\ boot' = boot /\ status' = "anon"
        /\ shown' = Nobody /\ stored' = Nobody
        /\ UNCHANGED <<token, moved, torn>>
        /\ \/ account' = Nobody /\ heard' = "signed out"
           \/ account' = account /\ heard' = "logout lost"
    BY <1>4 DEF SignOut, RememberEmail, SessionInv, LoadingWhileBooting
  <2>2. SessionTypeOK'
    BY <1>1, <2>1 DEF SessionTypeOK, Maybe
  <2> QED
    BY <2>1, <2>2
    DEF SessionInv, LoadingWhileBooting, HeardOfAccount, VerifiesToken, ShellTellsTruth
<1>5. ASSUME NEW e \in People, RequestLink(e) PROVE SessionInv'
  <2>1. /\ status = "anon" /\ shown' = e /\ stored' = e
        /\ UNCHANGED <<account, token, status, boot, heard, moved, torn>>
    BY <1>5 DEF RequestLink, RememberEmail
  <2>2. SessionTypeOK'
    BY <1>1, <2>1 DEF SessionTypeOK, Maybe
  <2> QED
    BY <2>1, <2>2
    DEF SessionInv, LoadingWhileBooting, HeardOfAccount, VerifiesToken, ShellTellsTruth
<1>6. ASSUME NEW e \in Maybe, CookieMoves(e) PROVE SessionInv'
  <2>1. /\ account' = e /\ stored' \in {stored, e} /\ moved' = TRUE
        /\ UNCHANGED <<token, status, shown, boot, heard, torn>>
    BY <1>6 DEF CookieMoves
  <2>2. SessionTypeOK'
    BY <1>1, <2>1 DEF SessionTypeOK
  <2> QED
    BY <2>1, <2>2
    DEF SessionInv, LoadingWhileBooting, HeardOfAccount, VerifiesToken, ShellTellsTruth
<1>7. ASSUME TokenExpires PROVE SessionInv'
  <2>1. /\ token.good /\ token' = [token EXCEPT !.good = FALSE]
        /\ UNCHANGED <<account, status, shown, stored, boot, heard, moved, torn>>
    BY <1>7 DEF TokenExpires
  <2>2. token \in [email : People, good : BOOLEAN]
    BY <1>1, <2>1 DEF NoToken
  <2>3. token' \in [email : People, good : BOOLEAN]
    BY <2>1, <2>2
  <2>4. NoToken \notin [email : People, good : BOOLEAN]
    BY SessionAssumption DEF NoToken
  <2>5. SessionTypeOK'
    BY <1>1, <2>1, <2>3 DEF SessionTypeOK
  <2> QED
    BY <2>1, <2>3, <2>4, <2>5
    DEF SessionInv, LoadingWhileBooting, HeardOfAccount, VerifiesToken, ShellTellsTruth
<1>8. CASE UNCHANGED sessionVars
  <2>1. UNCHANGED <<account, token, status, shown, stored, boot, heard, moved, torn>>
    BY <1>8 DEF sessionVars
  <2>2. SessionTypeOK'
    BY <1>1, <2>1 DEF SessionTypeOK
  <2>3. LoadingWhileBooting' /\ HeardOfAccount' /\ VerifiesToken'
    BY <2>1 DEF SessionInv, LoadingWhileBooting, HeardOfAccount, VerifiesToken
  <2>4. ShellTellsTruth'
    BY <2>1 DEF SessionInv, ShellTellsTruth
  <2> QED
    BY <2>2, <2>3, <2>4 DEF SessionInv
<1> QED
  BY <1>2, <1>3, <1>4, <1>5, <1>6, <1>7, <1>8, VerifyTokenKeeps, VerifiedKeeps,
     ProbeKeeps, ProbedKeeps DEF SessionNext

LEMMA SessionInvHolds == SessionSpec => []SessionInv
  BY SessionInvInit, SessionInvNext, PTL DEF SessionSpec

-----------------------------------------------------------------------------
\* Every reachable state is well-typed.
THEOREM SessionTypeCorrect == SessionSpec => []SessionTypeOK
<1>1. SessionInv => SessionTypeOK
  BY DEF SessionInv
<1> QED
  BY <1>1, SessionInvHolds, PTL

\* The shell names the account its requests are made for, and the login screen
\* is shown only after a 401 or a sign-out.
THEOREM ShellTellsTruthHolds == SessionSpec => []ShellTellsTruth
<1>1. SessionInv => ShellTellsTruth
  BY DEF SessionInv
<1> QED
  BY <1>1, SessionInvHolds, PTL

-----------------------------------------------------------------------------
(* The list of links, and the codes in the cookie.                         *)

Pages == [links : Seq(LinkNos), next : 0..MaxLinks]
Sent == {Gone} \cup [at : {"claim", "claimed"}, codes : SUBSET LinkNos]
Loads == [at : {"claim"}, by : Claims]
           \cup [at : {"list", "failed", "ready"}]
           \cup [at : {"answer"}, page : Pages]
Mores == {Gone} \cup [at : {"sent"}, cursor : LinkNos] \cup [at : {"answer"}, page : Pages]
Removals == {Gone} \cup [at : {"sent", "deleted"}, prev : Seq(LinkNos)]

\* A page of links below one of them, or of all: in order, with the mark where
\* the next one starts.
PageKept(p, below) ==
  /\ Len(p.links) <= PageSize
  /\ Descending(p.links)
  /\ \A l \in Range(p.links) : p.next <= l /\ (below # NoCursor => l < below)
  /\ below # NoCursor => p.next < below
PageFull(p, below, S) ==
  \A l \in S : p.next <= l /\ (below # NoCursor => l < below) => l \in Range(p.links)

DashTyped ==
  /\ made \in 0..MaxLinks
  /\ mine \subseteq 1..made /\ loose \subseteq 1..made /\ mine \cap loose = {}
  /\ anonCodes \in Seq(1..made) /\ Len(anonCodes) <= CookieSize
  /\ claims \in [Claims -> Sent]
  /\ load \in Loads /\ (load.at = "claim" => claims[load.by] # Gone)
  /\ list \in Seq(LinkNos) /\ cursor \in 0..MaxLinks
  /\ more \in Mores /\ removing \in [LinkNos -> Removals]
  /\ muddled \in BOOLEAN
  /\ known \subseteq mine /\ deleted \subseteq LinkNos /\ excused \subseteq LinkNos

\* Every code that the cookie must have is among those each claim under way has
\* sent, whose links have an owner once it is adopted.
ClaimKept ==
  /\ AnonCodesKept
  /\ \A o \in Claims : claims[o] # Gone =>
       /\ loose \ excused \subseteq claims[o].codes /\ claims[o].codes \subseteq 1..made
       /\ claims[o].at = "claimed" => claims[o].codes \cap loose = {}

\* What is shown, and what a rollback would show, is in order and not past the
\* cursor; pages under way continue it.
OrderKept ==
  /\ Descending(list) /\ \A l \in Range(list) : cursor <= l
  /\ load.at = "answer" => PageKept(load.page, NoCursor)
  /\ more.at = "sent" => more.cursor = cursor
  /\ more.at = "answer" => cursor # NoCursor /\ PageKept(more.page, cursor)
  /\ \A l \in LinkNos : removing[l] # Gone =>
       /\ Descending(removing[l].prev) /\ \A m \in Range(removing[l].prev) : cursor <= m
       /\ l \in Range(removing[l].prev)

\* Nothing is under way on a list that is not shown yet.
QuietKept ==
  load.at # "ready" =>
    /\ list = << >> /\ cursor = NoCursor /\ more = Gone
    /\ removing = [l \in LinkNos |-> Gone] /\ deleted = {} /\ ~muddled

\* Nothing is missing from a page, nor from the list; what is being deleted, and
\* what was, is not shown.
ListKept ==
  /\ load.at = "answer" => PageFull(load.page, NoCursor, known)
  /\ more.at = "answer" => PageFull(more.page, cursor, known)
  /\ \A l \in deleted : cursor <= l
  /\ \A l \in LinkNos : removing[l].at = "deleted" => l \notin known
  /\ load.at = "ready" /\ ~muddled =>
       /\ \A l \in known : l >= cursor => l \in Range(list) \/ removing[l] # Gone
       /\ deleted \cap Range(list) = {}
       /\ \A l \in LinkNos : removing[l] # Gone => l \notin Range(list) /\ l \notin deleted

DashboardInv == DashTyped /\ ClaimKept /\ OrderKept /\ QuietKept /\ ListKept

-----------------------------------------------------------------------------
\* Every finite set of numbers has an order, which names each member once.
Ascending(s, S) ==
  /\ s \in [1..Cardinality(S) -> S]
  /\ \A i, j \in 1..Cardinality(S) : i < j => s[i] < s[j]

LEMMA OrderExists ==
  ASSUME NEW S, IsFiniteSet(S), S \subseteq Nat
  PROVE  \E s : Ascending(s, S)
<1> DEFINE T == {U \in SUBSET S : ~ \E s : Ascending(s, U)}
<1> SUFFICES ASSUME T # {} PROVE FALSE
  OBVIOUS
<1>1. PICK t \in T : \A u \in SUBSET t : u # t => u \notin T
  <2>1. T \subseteq SUBSET S
    OBVIOUS
  <2> HIDE DEF T
  <2> QED
    BY <2>1, MinimalSubset
<1>2. t \subseteq S /\ t \subseteq Nat /\ IsFiniteSet(t)
  BY FS_Subset
<1>3. CASE t = {}
  <2> DEFINE s == [i \in 1..0 |-> i]
  <2>1. Cardinality(t) = 0 /\ 1..0 = {}
    BY <1>3, FS_EmptySet
  <2>2. Ascending(s, t)
    BY <2>1 DEF Ascending
  <2> QED
    BY <2>2
<1>4. CASE t # {}
  <2>1. PICK m \in t : \A j \in t : j <= m
    BY <1>2, <1>4, GreatestNatural
  <2> DEFINE u == t \ {m}
             n == Cardinality(u)
  <2>2. IsFiniteSet(u) /\ n \in Nat /\ Cardinality(t) = n + 1
    <3>1. IsFiniteSet(u) /\ Cardinality(u) = Cardinality(t) - 1
      BY <1>2, FS_RemoveElement
    <3>2. Cardinality(t) \in Nat /\ Cardinality(u) \in Nat
      BY <1>2, <3>1, FS_CardinalityType
    <3> QED
      BY <3>1, <3>2
  <2>3. PICK s : Ascending(s, u)
    BY <1>1, <2>1
  <2> DEFINE r == [i \in 1..(n + 1) |-> IF i = n + 1 THEN m ELSE s[i]]
  <2>4. \A i \in 1..n : s[i] \in u
    BY <2>3 DEF Ascending
  <2>5. \A x \in u : x \in t /\ x < m
    BY <1>2, <2>1
  <2>6. r \in [1..(n + 1) -> t]
    <3>1. \A i \in 1..(n + 1) : i = n + 1 \/ i \in 1..n
      BY <2>2
    <3> QED
      BY <2>1, <2>4, <2>5, <3>1
  <2>7. ASSUME NEW i \in 1..(n + 1), NEW j \in 1..(n + 1), i < j PROVE r[i] < r[j]
    <3>1. i \in 1..n /\ r[i] = s[i] /\ (j = n + 1 \/ j \in 1..n)
      BY <2>2, <2>7
    <3>2. CASE j = n + 1
      BY <2>4, <2>5, <3>1, <3>2
    <3>3. CASE j # n + 1
      BY <2>3, <2>7, <3>1, <3>3 DEF Ascending
    <3> QED
      BY <3>2, <3>3
  <2>8. Ascending(r, t)
    <3> HIDE DEF r, u, n
    <3> QED
      BY <2>2, <2>6, <2>7 DEF Ascending
  <2> QED
    BY <2>8
<1> QED
  BY <1>3, <1>4

LEMMA InOrderFacts ==
  ASSUME NEW S, IsFiniteSet(S), S \subseteq Nat
  PROVE  /\ Cardinality(S) \in Nat
         /\ InOrder(S) \in [1..Cardinality(S) -> S]
         /\ \A i, j \in 1..Cardinality(S) : i < j => InOrder(S)[i] < InOrder(S)[j]
         /\ \A x \in S : \E i \in 1..Cardinality(S) : InOrder(S)[i] = x
<1> DEFINE n == Cardinality(S)
           up == InOrder(S)
<1>1. n \in Nat
  BY FS_CardinalityType
<1>2. \E s \in [1..n -> S] : \A i, j \in DOMAIN s : i < j => s[i] < s[j]
  <2>1. PICK s : Ascending(s, S)
    BY OrderExists
  <2>2. s \in [1..n -> S] /\ DOMAIN s = 1..n
    BY <2>1 DEF Ascending
  <2>3. \A i, j \in DOMAIN s : i < j => s[i] < s[j]
    BY <2>1, <2>2 DEF Ascending
  <2> QED
    BY <2>2, <2>3
<1>3. up \in [1..n -> S] /\ \A i, j \in DOMAIN up : i < j => up[i] < up[j]
  <2> HIDE DEF n
  <2> QED
    BY <1>2 DEF InOrder, n
<1>4. \A i, j \in 1..n : i < j => up[i] < up[j]
  BY <1>3
<1>5. up \in Injection(1..n, S)
  <2>1. ASSUME NEW i \in 1..n, NEW j \in 1..n, up[i] = up[j] PROVE i = j
    <3>1. up[i] \in Nat /\ up[j] \in Nat
      BY <1>3
    <3>2. ~(i < j) /\ ~(j < i)
      <4> HIDE DEF up
      <4> QED
        BY <1>4, <2>1, <3>1
    <3> QED
      BY <1>1, <3>2
  <2> QED
    BY <1>3, <2>1 DEF Injection, IsInjective
<1>6. Cardinality(1..n) = n
  BY <1>1, FS_Interval
<1>7. up \in Surjection(1..n, S)
  <2> HIDE DEF up
  <2> QED
    BY <1>5, <1>6, FS_Injection
<1> QED
  BY <1>1, <1>3, <1>4, <1>7 DEF Surjection

LEMMA NewestFirstFacts ==
  ASSUME NEW S, IsFiniteSet(S), S \subseteq Nat
  PROVE  /\ NewestFirst(S) \in Seq(S) /\ Len(NewestFirst(S)) = Cardinality(S)
         /\ Descending(NewestFirst(S))
         /\ \A x \in S : \E i \in 1..Len(NewestFirst(S)) : NewestFirst(S)[i] = x
<1> DEFINE n == Cardinality(S)
           up == InOrder(S)
           down == [i \in 1..n |-> up[n + 1 - i]]
<1>1. /\ n \in Nat /\ up \in [1..n -> S]
      /\ \A i, j \in 1..n : i < j => up[i] < up[j]
      /\ \A x \in S : \E i \in 1..n : up[i] = x
  BY InOrderFacts
<1>2. DOMAIN up = 1..n /\ Len(up) = n
  <2> HIDE DEF n, up
  <2> QED
    BY <1>1
<1>3. NewestFirst(S) = down
  BY <1>2 DEF NewestFirst
<1>4. \A i \in 1..n : n + 1 - i \in 1..n /\ n + 1 - (n + 1 - i) = i
  BY <1>1
<1> HIDE DEF up, n
<1>5. down \in Seq(S) /\ Len(down) = n /\ DOMAIN down = 1..n
  BY <1>1, <1>4
<1>6. ASSUME NEW i \in 1..n, NEW j \in 1..n, i < j PROVE down[i] > down[j]
  <2>1. n + 1 - i \in 1..n /\ n + 1 - j \in 1..n /\ n + 1 - j < n + 1 - i
    BY <1>1, <1>6
  <2>2. up[n + 1 - j] < up[n + 1 - i] /\ up[n + 1 - j] \in Nat /\ up[n + 1 - i] \in Nat
    BY <1>1, <2>1
  <2> QED
    BY <2>2
<1>7. ASSUME NEW x \in S PROVE \E i \in 1..n : down[i] = x
  <2>1. PICK i \in 1..n : up[i] = x
    BY <1>1
  <2>2. n + 1 - i \in 1..n /\ down[n + 1 - i] = x
    BY <1>4, <2>1
  <2> QED
    BY <2>2
<1>8. Descending(down)
  BY <1>5, <1>6 DEF Descending
<1> QED
  BY <1>3, <1>5, <1>7, <1>8 DEF n

LEMMA WithoutFacts ==
  ASSUME NEW s \in Seq(LinkNos), Descending(s), NEW l
  PROVE  /\ Without(s, l) \in Seq(LinkNos) /\ Descending(Without(s, l))
         /\ Range(Without(s, l)) = Range(s) \ {l}
<1> DEFINE K == {i \in DOMAIN s : s[i] # l}
           at == InOrder(K)
           n == Cardinality(K)
           w == [j \in 1..n |-> s[at[j]]]
<1>1. DOMAIN s = 1..Len(s) /\ Len(s) \in Nat /\ \A i \in DOMAIN s : s[i] \in LinkNos
  OBVIOUS
<1>2. IsFiniteSet(K) /\ K \subseteq Nat /\ K \subseteq DOMAIN s
  <2>1. IsFiniteSet(DOMAIN s)
    BY <1>1, FS_Interval
  <2>2. K \subseteq DOMAIN s
    OBVIOUS
  <2> QED
    BY <1>1, <2>1, <2>2, FS_Subset
<1>3. /\ n \in Nat /\ at \in [1..n -> K]
      /\ \A i, j \in 1..n : i < j => at[i] < at[j]
      /\ \A x \in K : \E i \in 1..n : at[i] = x
  <2> HIDE DEF K
  <2> QED
    BY <1>2, InOrderFacts
<1>4. Without(s, l) = w
  <2>1. DOMAIN at = 1..n
    <3> HIDE DEF at, n
    <3> QED
      BY <1>3
  <2> QED
    BY <2>1 DEF Without
<1> HIDE DEF at, n
<1>5. \A i \in 1..n : at[i] \in DOMAIN s /\ s[at[i]] # l
  BY <1>3
<1>6. w \in Seq(LinkNos) /\ DOMAIN w = 1..n /\ Len(w) = n
  BY <1>1, <1>3, <1>5
<1>7. Descending(w)
  <2> SUFFICES ASSUME NEW i \in 1..n, NEW j \in 1..n, i < j PROVE w[i] > w[j]
    BY <1>6 DEF Descending
  <2>1. at[i] < at[j] /\ at[i] \in DOMAIN s /\ at[j] \in DOMAIN s
    BY <1>3, <1>5
  <2> QED
    BY <2>1 DEF Descending
<1>8. ASSUME NEW m PROVE m \in Range(w) <=> m \in Range(s) \ {l}
  <2>1. ASSUME m \in Range(w) PROVE m \in Range(s) \ {l}
    <3>1. PICK i \in 1..n : w[i] = m
      BY <1>6, <2>1 DEF Range
    <3>2. m = s[at[i]]
      BY <3>1
    <3> QED
      BY <1>5, <3>2 DEF Range
  <2>2. ASSUME m \in Range(s) \ {l} PROVE m \in Range(w)
    <3>1. PICK k \in DOMAIN s : s[k] = m
      BY <2>2 DEF Range
    <3>2. k \in K
      BY <2>2, <3>1
    <3>3. PICK i \in 1..n : at[i] = k
      BY <1>3, <3>2
    <3>4. w[i] = m
      BY <3>1, <3>3
    <3> HIDE DEF w
    <3> QED
      BY <1>6, <3>3, <3>4 DEF Range
  <2> QED
    BY <2>1, <2>2
<1>9. Range(w) = Range(s) \ {l}
  <2> HIDE DEF w
  <2> QED
    BY <1>8
<1> QED
  BY <1>4, <1>6, <1>7, <1>9

\* A page under another continues it.
LEMMA Continues ==
  ASSUME NEW s \in Seq(LinkNos), NEW t \in Seq(LinkNos), Descending(s), Descending(t),
         \A l \in Range(s), m \in Range(t) : m < l
  PROVE  /\ s \o t \in Seq(LinkNos) /\ Descending(s \o t)
         /\ Range(s \o t) = Range(s) \cup Range(t)
<1> DEFINE r == s \o t
           n == Len(s)
           k == Len(t)
<1>1. /\ n \in Nat /\ k \in Nat /\ DOMAIN s = 1..n /\ DOMAIN t = 1..k
      /\ r \in Seq(LinkNos) /\ DOMAIN r = 1..(n + k)
      /\ \A i \in 1..n : r[i] = s[i] /\ s[i] \in LinkNos
      /\ \A i \in 1..k : r[n + i] = t[i] /\ t[i] \in LinkNos
  OBVIOUS
<1>2. \A i \in 1..(n + k) : i \in 1..n \/ (i - n \in 1..k /\ n + (i - n) = i)
  BY <1>1
<1> HIDE DEF r, n, k
<1>3. \A i \in 1..n : s[i] \in Range(s)
  BY <1>1 DEF Range
<1>4. \A i \in 1..k : t[i] \in Range(t)
  BY <1>1 DEF Range
<1>5. Descending(r)
  <2> SUFFICES ASSUME NEW i \in 1..(n + k), NEW j \in 1..(n + k), i < j PROVE r[i] > r[j]
    BY <1>1 DEF Descending
  <2>1. CASE i \in 1..n /\ j \in 1..n
    BY <1>1, <2>1 DEF Descending
  <2>2. CASE i \in 1..n /\ j \notin 1..n
    <3>1. j - n \in 1..k /\ r[j] = t[j - n] /\ r[i] = s[i]
      BY <1>1, <1>2, <2>2
    <3>2. s[i] \in Range(s) /\ t[j - n] \in Range(t)
      BY <1>3, <1>4, <2>2, <3>1
    <3>3. s[i] \in LinkNos /\ t[j - n] \in LinkNos
      BY <1>1, <2>2, <3>1
    <3>4. s[i] \in Nat /\ t[j - n] \in Nat
      BY <3>3 DEF LinkNos
    <3>5. t[j - n] < s[i]
      BY <3>2
    <3> QED
      BY <3>1, <3>4, <3>5
  <2>3. CASE i \notin 1..n
    <3>1. /\ i - n \in 1..k /\ r[i] = t[i - n] /\ j - n \in 1..k /\ r[j] = t[j - n]
          /\ i - n < j - n
      BY <1>1, <1>2, <2>3
    <3> QED
      BY <1>1, <3>1 DEF Descending
  <2> QED
    BY <2>1, <2>2, <2>3
<1>6. ASSUME NEW m PROVE m \in Range(r) <=> m \in Range(s) \cup Range(t)
  <2>1. ASSUME m \in Range(r) PROVE m \in Range(s) \cup Range(t)
    <3>1. PICK i \in 1..(n + k) : r[i] = m
      BY <1>1, <2>1 DEF Range
    <3>2. CASE i \in 1..n
      BY <1>1, <1>3, <3>1, <3>2
    <3>3. CASE i \notin 1..n
      <4>1. i - n \in 1..k /\ r[i] = t[i - n]
        BY <1>1, <1>2, <3>3
      <4> QED
        BY <1>4, <3>1, <4>1
    <3> QED
      BY <3>2, <3>3
  <2>2. ASSUME m \in Range(s) PROVE m \in Range(r)
    <3>1. PICK i \in 1..n : s[i] = m
      BY <1>1, <2>2 DEF Range
    <3>2. i \in 1..(n + k) /\ r[i] = m
      BY <1>1, <3>1
    <3> QED
      BY <1>1, <3>2 DEF Range
  <2>3. ASSUME m \in Range(t) PROVE m \in Range(r)
    <3>1. PICK i \in 1..k : t[i] = m
      BY <1>1, <2>3 DEF Range
    <3>2. n + i \in 1..(n + k) /\ r[n + i] = m
      BY <1>1, <3>1
    <3> QED
      BY <1>1, <3>2 DEF Range
  <2> QED
    BY <2>1, <2>2, <2>3
<1>7. Range(r) = Range(s) \cup Range(t)
  BY <1>6
<1> QED
  BY <1>1, <1>5, <1>7 DEF r

\* A page holds the links below its cursor down to where the next one starts.
LEMMA ListLinksFacts ==
  ASSUME mine \subseteq LinkNos, NEW after \in 0..MaxLinks
  PROVE  /\ ListLinks(after) \in Pages /\ PageKept(ListLinks(after), after)
         /\ PageFull(ListLinks(after), after, mine)
<1> DEFINE S == {l \in mine : after = NoCursor \/ l < after}
           below == NewestFirst(S)
           n == Len(below)
           k == IF n < PageSize THEN n ELSE PageSize
           page == SubSeq(below, 1, k)
           next == IF Len(page) = PageSize THEN page[PageSize] ELSE NoCursor
<1>1. IsFiniteSet(S) /\ S \subseteq Nat /\ S \subseteq LinkNos
  <2>1. IsFiniteSet(LinkNos) /\ LinkNos \subseteq Nat
    BY DashboardAssumption, FS_Interval DEF LinkNos
  <2>2. S \subseteq LinkNos
    OBVIOUS
  <2> QED
    BY <2>1, <2>2, FS_Subset
<1>2. /\ below \in Seq(S) /\ Descending(below)
      /\ \A x \in S : \E i \in 1..n : below[i] = x
  <2> HIDE DEF S
  <2> QED
    BY <1>1, NewestFirstFacts
<1>3. PageSize \in Nat \ {0} /\ MaxLinks \in Nat
  BY DashboardAssumption
<1>4. \A l \in S : l \in mine /\ l \in LinkNos /\ (after # NoCursor => l < after)
  BY DEF NoCursor
<1>5. ListLinks(after) = [links |-> page, next |-> next]
  BY DEF ListLinks
<1> HIDE DEF S, below
<1>6. /\ n \in Nat /\ k \in 0..n /\ k <= PageSize /\ DOMAIN below = 1..n
      /\ \A i \in 1..n : below[i] \in S
  BY <1>2, <1>3
<1> HIDE DEF n, k
<1>7. /\ page \in Seq(S) /\ Len(page) = k /\ DOMAIN page = 1..k
      /\ \A i \in 1..k : page[i] = below[i]
  BY <1>2, <1>6
<1>8. \A i, j \in 1..n : i < j => below[i] > below[j]
  BY <1>2, <1>6 DEF Descending
<1> HIDE DEF page
<1>9. next \in 0..MaxLinks /\ (next # NoCursor => next \in S)
  <2>1. CASE Len(page) = PageSize
    <3>1. next = below[PageSize] /\ PageSize \in 1..k
      BY <1>3, <1>6, <1>7, <2>1
    <3>2. next \in S
      BY <1>6, <3>1
    <3>3. next \in LinkNos
      BY <1>1, <3>2
    <3> HIDE DEF next
    <3> QED
      BY <1>3, <3>2, <3>3 DEF LinkNos
  <2>2. CASE Len(page) # PageSize
    BY <1>3, <2>2 DEF NoCursor
  <2> QED
    BY <2>1, <2>2
<1>10. ASSUME NEW i \in 1..k PROVE next <= page[i]
  <2>1. CASE Len(page) = PageSize
    <3>1. next = below[PageSize] /\ PageSize \in 1..n /\ i \in 1..n /\ i <= PageSize /\ k = PageSize
      BY <1>3, <1>6, <1>7, <2>1
    <3>2. below[i] \in Nat /\ below[PageSize] \in Nat
      BY <1>1, <1>6, <3>1
    <3>3. i = PageSize \/ below[i] > below[PageSize]
      BY <1>3, <1>6, <1>8, <3>1
    <3> QED
      BY <1>7, <3>1, <3>2, <3>3
  <2>2. CASE Len(page) # PageSize
    <3>0. i \in 1..n /\ page[i] = below[i]
      BY <1>6, <1>7
    <3>1. next = 0 /\ page[i] \in Nat
      BY <1>1, <1>6, <2>2, <3>0 DEF NoCursor
    <3> QED
      BY <3>1
  <2> QED
    BY <2>1, <2>2
<1>11. \A l \in Range(page) : l \in S /\ next <= l
  <2> SUFFICES ASSUME NEW l \in Range(page) PROVE l \in S /\ next <= l
    OBVIOUS
  <2>1. PICK i \in 1..k : page[i] = l
    BY <1>7 DEF Range
  <2>2. page[i] \in S
    BY <1>6, <1>7
  <2> HIDE DEF next
  <2> QED
    BY <1>10, <2>1, <2>2
<1>12. Descending(page)
  <2> SUFFICES ASSUME NEW i \in 1..k, NEW j \in 1..k, i < j PROVE page[i] > page[j]
    BY <1>7 DEF Descending
  <2>1. i \in 1..n /\ j \in 1..n
    BY <1>6
  <2> QED
    BY <1>7, <1>8, <2>1
<1>13. ASSUME NEW l \in S, next <= l PROVE l \in Range(page)
  <2>1. PICK i \in 1..n : below[i] = l
    BY <1>2
  <2>2. i \in 1..k
    <3>1. CASE Len(page) = PageSize
      <4>1. next = below[PageSize] /\ PageSize \in 1..n /\ k = PageSize
        BY <1>3, <1>6, <1>7, <3>1
      <4>2. below[i] \in Nat /\ below[PageSize] \in Nat
        BY <1>1, <1>6, <4>1
      <4>3. ~(PageSize < i)
        BY <1>8, <1>13, <2>1, <4>1, <4>2
      <4> QED
        BY <1>3, <4>1, <4>3
    <3>2. CASE Len(page) # PageSize
      <4>1. k # PageSize
        BY <1>7, <3>2
      <4> QED
        BY <1>6, <4>1 DEF k
    <3> QED
      BY <3>1, <3>2
  <2> QED
    BY <1>7, <2>1, <2>2 DEF Range
<1>14. ASSUME NEW l \in mine, after # NoCursor => l < after PROVE l \in S
  BY <1>14 DEF S
<1> DEFINE p == [links |-> page, next |-> next]
<1>15. p.links = page /\ p.next = next
  OBVIOUS
<1>16. p \in Pages
  <2>1. page \in Seq(LinkNos)
    BY <1>1, <1>7, SeqMonotonic
  <2> QED
    BY <1>9, <2>1 DEF Pages
<1> HIDE DEF next, p
<1>17. PageKept(p, after)
  BY <1>4, <1>6, <1>7, <1>9, <1>11, <1>12, <1>15 DEF PageKept, NoCursor
<1>18. PageFull(p, after, mine)
  BY <1>13, <1>14, <1>15 DEF PageFull
<1> QED
  BY <1>5, <1>16, <1>17, <1>18 DEF p

-----------------------------------------------------------------------------
LEMMA EmptyList ==
  /\ << >> \in Seq(LinkNos) /\ Descending(<< >>) /\ Range(<< >>) = {}
BY DEF Descending, Range

LEMMA NumbersAre == 1..MaxLinks = LinkNos /\ MaxLinks \in Nat /\ LinkNos \subseteq Nat
BY DashboardAssumption DEF LinkNos

LEMMA DashboardInitKept == DashboardInit => DashboardInv
<1> SUFFICES ASSUME DashboardInit PROVE DashboardInv
  OBVIOUS
<1>1. DashTyped
  <2>1. anonCodes \in Seq(1..made) /\ Len(anonCodes) <= CookieSize
    BY DashboardAssumption, EmptySeq DEF DashboardInit
  <2>2. /\ claims \in [Claims -> Sent] /\ load \in Loads /\ load.at # "claim"
        /\ list \in Seq(LinkNos) /\ cursor \in 0..MaxLinks
        /\ more \in Mores /\ removing \in [LinkNos -> Removals] /\ made \in 0..MaxLinks
    BY EmptyList, NumbersAre DEF DashboardInit, Sent, Loads, Mores, Removals, NoCursor
  <2> QED
    BY <2>1, <2>2 DEF DashboardInit, DashTyped
<1>2. ClaimKept
  BY DEF DashboardInit, ClaimKept, AnonCodesKept
<1>3. OrderKept
  BY EmptyList DEF DashboardInit, OrderKept, Gone
<1>4. QuietKept
  BY DEF DashboardInit, QuietKept
<1>5. ListKept
  BY DEF DashboardInit, ListKept, Gone
<1> QED
  BY <1>1, <1>2, <1>3, <1>4, <1>5 DEF DashboardInv

LEMMA CodesAreLinks ==
  ASSUME DashTyped
  PROVE  /\ anonCodes \in Seq(LinkNos) /\ Range(anonCodes) \subseteq 1..made
         /\ 1..made \subseteq LinkNos /\ made \in Nat
<1>1. 1..made \subseteq LinkNos /\ made \in Nat
  BY NumbersAre DEF DashTyped
<1>2. anonCodes \in Seq(1..made) /\ Range(anonCodes) \subseteq 1..made
  BY DEF DashTyped, Range
<1> QED
  BY <1>1, <1>2, SeqMonotonic

\* A claim that is sent carries all the cookie has, and takes no other's slot.
LEMMA SendKeeps ==
  ASSUME DashboardInv, NEW o \in Claims, SendClaim(o), UNCHANGED <<loose, anonCodes, excused>>,
         made' \in Nat, made <= made'
  PROVE  /\ claims' \in [Claims -> Sent] /\ claims'[o] # Gone
         /\ \A x \in Claims : claims[x] # Gone => claims'[x] # Gone
         /\ ClaimKept'
<1> DEFINE claim == [at |-> "claim", codes |-> Range(anonCodes)]
<1>1. claims' = [claims EXCEPT ![o] = claim] /\ claims \in [Claims -> Sent]
  BY DEF SendClaim, DashboardInv, DashTyped
<1>2. /\ Range(anonCodes) \subseteq 1..made /\ 1..made \subseteq LinkNos /\ made \in Nat
      /\ loose \ excused \subseteq Range(anonCodes)
  BY CodesAreLinks DEF DashboardInv, ClaimKept, AnonCodesKept
<1>3. /\ claim.at = "claim" /\ claim.codes = Range(anonCodes) /\ claim # Gone
      /\ claim \in Sent
  BY <1>2 DEF Gone, Sent
<1> HIDE DEF claim
<1>4. \A x \in Claims : claims'[x] = IF x = o THEN claim ELSE claims[x]
  BY <1>1
<1>5. 1..made \subseteq 1..made'
  BY <1>2
<1>6. claims' \in [Claims -> Sent]
  BY <1>1, <1>3
<1>7. ClaimKept'
  BY <1>2, <1>3, <1>4, <1>5 DEF DashboardInv, ClaimKept, AnonCodesKept
<1> QED
  BY <1>3, <1>4, <1>6, <1>7

\* A list that has just been mounted.
LEMMA MountKeeps ==
  ASSUME DashboardInv, Mount, UNCHANGED <<loose, anonCodes, excused>>,
         made' \in Nat, made <= made'
  PROVE  /\ claims' \in [Claims -> Sent]
         /\ load' \in Loads /\ (load'.at = "claim" => claims'[load'.by] # Gone)
         /\ list' \in Seq(LinkNos) /\ cursor' \in 0..MaxLinks
         /\ more' \in Mores /\ removing' \in [LinkNos -> Removals]
         /\ muddled' \in BOOLEAN /\ known' = {} /\ deleted' \subseteq LinkNos
         /\ ClaimKept' /\ OrderKept' /\ QuietKept' /\ ListKept'
<1>1. /\ \/ load' = [at |-> "list"] /\ UNCHANGED claims
         \/ \E o \in Claims : SendClaim(o) /\ load' = [at |-> "claim", by |-> o]
      /\ list' = << >> /\ cursor' = NoCursor /\ more' = Gone
      /\ removing' = [l \in LinkNos |-> Gone]
      /\ known' = {} /\ deleted' = {} /\ muddled' = FALSE
  BY DEF Mount
<1>2. /\ claims' \in [Claims -> Sent] /\ load' \in Loads /\ load'.at \in {"list", "claim"}
      /\ load'.at = "claim" => claims'[load'.by] # Gone
      /\ ClaimKept'
  <2>1. CASE load' = [at |-> "list"] /\ UNCHANGED claims
    <3>1. ClaimKept'
      <4>1. 1..made \subseteq 1..made'
        BY CodesAreLinks DEF DashboardInv
      <4> QED
        BY <2>1, <4>1 DEF DashboardInv, ClaimKept, AnonCodesKept
    <3> QED
      BY <2>1, <3>1 DEF Loads, DashboardInv, DashTyped
  <2>2. ASSUME NEW o \in Claims, SendClaim(o), load' = [at |-> "claim", by |-> o]
        PROVE  /\ claims' \in [Claims -> Sent] /\ load' \in Loads /\ load'.at \in {"list", "claim"}
               /\ load'.at = "claim" => claims'[load'.by] # Gone
               /\ ClaimKept'
    BY <2>2, SendKeeps DEF Loads
  <2> QED
    BY <1>1, <2>1, <2>2
<1>3. /\ list' \in Seq(LinkNos) /\ cursor' \in 0..MaxLinks
      /\ more' \in Mores /\ removing' \in [LinkNos -> Removals]
  BY <1>1, EmptyList, NumbersAre DEF Mores, Removals, NoCursor
<1>4. OrderKept'
  BY <1>1, <1>2, EmptyList DEF OrderKept, Gone
<1>5. QuietKept'
  BY <1>1 DEF QuietKept
<1>6. ListKept'
  BY <1>1, <1>2 DEF ListKept, Gone
<1> QED
  BY <1>1, <1>2, <1>3, <1>4, <1>5, <1>6

LEMMA ReopenKept ==
  ASSUME DashboardInv, Reopen
  PROVE  DashboardInv'
<1>1. /\ Mount /\ UNCHANGED <<made, mine, loose, anonCodes, excused>>
      /\ made' \in Nat /\ made <= made'
  BY CodesAreLinks DEF Reopen, serverVars, DashboardInv
<1>2. DashTyped'
  BY <1>1, MountKeeps DEF DashboardInv, DashTyped
<1> QED
  BY <1>1, <1>2, MountKeeps DEF DashboardInv

LEMMA CreateInModalKept ==
  ASSUME DashboardInv, CreateInModal
  PROVE  DashboardInv'
<1>1. /\ made < MaxLinks /\ made' = made + 1 /\ mine' = mine \cup {made + 1}
      /\ UNCHANGED <<loose, anonCodes, excused>>
      /\ Mount \/ UNCHANGED <<claims, load, listVars>>
  BY DEF CreateInModal
<1>2. 1..made \subseteq LinkNos /\ made \in Nat
  BY CodesAreLinks DEF DashboardInv
<1>3. /\ made' \in 0..MaxLinks /\ 1..made \subseteq 1..made' /\ made + 1 \in 1..made'
      /\ made + 1 \notin 1..made /\ made' \in Nat /\ made <= made'
  BY <1>1, <1>2, NumbersAre
<1>4. anonCodes' \in Seq(1..made')
  BY <1>1, <1>3, SeqMonotonic DEF DashboardInv, DashTyped
<1>5. mine' \subseteq 1..made' /\ loose' \subseteq 1..made' /\ mine' \cap loose' = {}
  BY <1>1, <1>3 DEF DashboardInv, DashTyped
<1>6. CASE Mount
  <2>1. DashTyped'
    BY <1>1, <1>3, <1>4, <1>5, <1>6, MountKeeps DEF DashboardInv, DashTyped
  <2> QED
    BY <1>1, <1>3, <1>6, <2>1, MountKeeps DEF DashboardInv
<1>7. CASE UNCHANGED <<claims, load, listVars>>
  <2>1. DashTyped'
    BY <1>1, <1>3, <1>4, <1>5, <1>7 DEF DashboardInv, DashTyped, listVars
  <2>2. ClaimKept'
    BY <1>1, <1>3, <1>7 DEF DashboardInv, ClaimKept, AnonCodesKept
  <2>3. OrderKept' /\ QuietKept' /\ ListKept'
    BY <1>7 DEF DashboardInv, OrderKept, QuietKept, ListKept, listVars
  <2> QED
    BY <2>1, <2>2, <2>3 DEF DashboardInv
<1> QED
  BY <1>1, <1>6, <1>7

LEMMA ClaimElsewhereKept ==
  ASSUME DashboardInv, NEW o \in Claims, ClaimElsewhere(o)
  PROVE  DashboardInv'
<1>1. /\ SendClaim(o) /\ made' \in Nat /\ made <= made'
      /\ UNCHANGED <<made, mine, loose, anonCodes, load, list, cursor, more, removing,
                     known, deleted, muddled, excused>>
  BY CodesAreLinks DEF ClaimElsewhere, serverVars, listVars, DashboardInv
<1>2. DashTyped'
  <2>1. load.at = "claim" => load.by \in Claims
    BY DEF DashboardInv, DashTyped, Loads
  <2> QED
    BY <1>1, <2>1, SendKeeps DEF DashboardInv, DashTyped
<1>3. OrderKept' /\ QuietKept' /\ ListKept'
  BY <1>1 DEF DashboardInv, OrderKept, QuietKept, ListKept
<1> QED
  BY <1>1, <1>2, <1>3, SendKeeps DEF DashboardInv

LEMMA ClaimAdoptsKept ==
  ASSUME DashboardInv, NEW o \in Claims, ClaimAdopts(o)
  PROVE  DashboardInv'
<1>1. /\ claims[o].at = "claim" /\ claims' = [claims EXCEPT ![o].at = "claimed"]
      /\ mine' = mine \cup (claims[o].codes \cap loose) /\ loose' = loose \ claims[o].codes
      /\ excused' = excused \ claims[o].codes
      /\ UNCHANGED <<made, anonCodes, load, list, cursor, more, removing, known, deleted, muddled>>
  BY DEF ClaimAdopts, listVars
<1>2. claims \in [Claims -> Sent] /\ claims[o] \in [at : {"claim", "claimed"}, codes : SUBSET LinkNos]
  BY <1>1 DEF DashboardInv, DashTyped, Sent, Gone
<1>3. PICK claim \in Sent : /\ claim.at = "claimed" /\ claim.codes = claims[o].codes
                            /\ claim # Gone /\ claims' = [claims EXCEPT ![o] = claim]
  <2>1. [claims[o] EXCEPT !.at = "claimed"] = [at |-> "claimed", codes |-> claims[o].codes]
    BY <1>2
  <2> QED
    BY <1>1, <1>2, <2>1 DEF Sent, Gone
<1>4. \A x \in Claims : claims'[x] = IF x = o THEN claim ELSE claims[x]
  BY <1>2, <1>3
<1>5. DashTyped'
  <2>1. load.at = "claim" => load.by \in Claims
    BY DEF DashboardInv, DashTyped, Loads
  <2>2. claims' \in [Claims -> Sent] /\ (load'.at = "claim" => claims'[load'.by] # Gone)
    BY <1>1, <1>2, <1>3, <1>4, <2>1 DEF DashboardInv, DashTyped
  <2> QED
    BY <1>1, <2>2 DEF DashboardInv, DashTyped
<1>6. ClaimKept'
  BY <1>1, <1>3, <1>4 DEF DashboardInv, ClaimKept, AnonCodesKept, Gone
<1>7. OrderKept' /\ QuietKept' /\ ListKept'
  BY <1>1 DEF DashboardInv, OrderKept, QuietKept, ListKept
<1> QED
  BY <1>5, <1>6, <1>7 DEF DashboardInv

\* The cookie may be cleared once what it must have is owned or excused.
LEMMA CookieCleared ==
  ASSUME DashboardInv
  PROVE  << >> \in Seq(1..made) /\ Len(<< >>) <= CookieSize
<1>1. Len(<< >>) = 0 /\ 0 <= CookieSize
  BY DashboardAssumption
<1> QED
  BY <1>1, EmptySeq

LEMMA ClaimEndsKept ==
  ASSUME DashboardInv, NEW o \in Claims, ClaimEnds(o)
  PROVE  DashboardInv'
<1>1. /\ claims[o] # Gone /\ claims' = [claims EXCEPT ![o] = Gone]
      /\ load' = IF Waiting(o) THEN [at |-> "list"] ELSE load
      /\ (claims[o].at = "claimed" /\ anonCodes' = << >>) \/ UNCHANGED anonCodes
      /\ UNCHANGED <<made, mine, loose, list, cursor, more, removing, known, deleted,
                     muddled, excused>>
  BY DEF ClaimEnds, EndClaim, listVars, serverVars
<1>2. claims \in [Claims -> Sent] /\ Gone \in Sent
  BY DEF DashboardInv, DashTyped, Sent
<1>3. \A x \in Claims : claims'[x] = IF x = o THEN Gone ELSE claims[x]
  BY <1>1, <1>2
<1>4. /\ load' \in Loads
      /\ load'.at = "claim" => load' = load /\ load.by # o
      /\ load' = load \/ (load.at # "ready" /\ load'.at = "list")
  <2>1. [at |-> "list"] \in Loads
    BY DEF Loads
  <2> QED
    BY <1>1, <2>1 DEF Waiting, DashboardInv, DashTyped
<1>5. DashTyped'
  <2>1. claims' \in [Claims -> Sent]
    BY <1>1, <1>2
  <2>2. load.at = "claim" => load.by \in Claims /\ claims[load.by] # Gone
    BY DEF DashboardInv, DashTyped, Loads
  <2>3. anonCodes' \in Seq(1..made) /\ Len(anonCodes') <= CookieSize
    BY <1>1, CookieCleared DEF DashboardInv, DashTyped
  <2>4. load'.at = "claim" => claims'[load'.by] # Gone
    BY <1>3, <1>4, <2>2
  <2>5. load' \in Loads
    BY <1>4
  <2> QED
    BY <1>1, <2>1, <2>3, <2>4, <2>5 DEF DashboardInv, DashTyped
<1>6. ClaimKept'
  <2>1. AnonCodesKept'
    BY <1>1 DEF DashboardInv, ClaimKept, AnonCodesKept
  <2> QED
    BY <1>1, <1>3, <2>1 DEF DashboardInv, ClaimKept
<1>7. OrderKept' /\ QuietKept' /\ ListKept'
  BY <1>1, <1>4 DEF DashboardInv, OrderKept, QuietKept, ListKept
<1> QED
  BY <1>5, <1>6, <1>7 DEF DashboardInv

LEMMA CookieExpiresKept ==
  ASSUME DashboardInv, CookieExpires
  PROVE  DashboardInv'
<1>1. /\ anonCodes' = << >> /\ excused' = excused \cup (Range(anonCodes) \cap loose)
      /\ UNCHANGED <<made, mine, loose, claims, load, list, cursor, more, removing, known,
                     deleted, muddled>>
  BY DEF CookieExpires, serverVars, listVars
<1>2. Range(anonCodes) \subseteq LinkNos
  BY CodesAreLinks DEF DashboardInv
<1>3. DashTyped'
  BY <1>1, <1>2, CookieCleared DEF DashboardInv, DashTyped
<1>4. ClaimKept'
  BY <1>1 DEF DashboardInv, ClaimKept, AnonCodesKept
<1>5. OrderKept' /\ QuietKept' /\ ListKept'
  BY <1>1 DEF DashboardInv, OrderKept, QuietKept, ListKept
<1> QED
  BY <1>3, <1>4, <1>5 DEF DashboardInv

LEMMA EntryOf ==
  ASSUME NEW S, NEW s \in Seq(S), NEW i \in 1..Len(s)
  PROVE  s[i] \in S
BY ElementOfSeq

LEMMA StashKept ==
  ASSUME DashboardInv, Stash
  PROVE  DashboardInv'
<1> DEFINE codes == Append(anonCodes, made + 1)
           kept == SubSeq(codes, IF Len(codes) > CookieSize THEN 2 ELSE 1, Len(codes))
<1>1. /\ made < MaxStashed /\ made' = made + 1 /\ loose' = loose \cup {made + 1}
      /\ \/ /\ anonCodes' = kept
            /\ excused' = excused \cup (Range(codes) \ Range(kept))
                            \cup (IF \E o \in Claims : claims[o] # Gone THEN {made + 1} ELSE {})
         \/ UNCHANGED anonCodes /\ excused' = excused \cup {made + 1}
      /\ UNCHANGED <<mine, claims, load, list, cursor, more, removing, known, deleted, muddled>>
  BY DEF Stash, listVars
<1>2. /\ anonCodes \in Seq(LinkNos) /\ Range(anonCodes) \subseteq 1..made
      /\ 1..made \subseteq LinkNos /\ made \in Nat
  BY CodesAreLinks DEF DashboardInv
<1>3. /\ made' \in 0..MaxLinks /\ 1..made \subseteq 1..made' /\ made + 1 \in 1..made'
      /\ made + 1 \notin 1..made /\ made + 1 \in LinkNos
  BY <1>1, <1>2, NumbersAre, DashboardAssumption
<1>4. anonCodes \in Seq(1..made')
  BY <1>3, SeqMonotonic DEF DashboardInv, DashTyped
<1>5. /\ codes \in Seq(1..made') /\ Len(codes) = Len(anonCodes) + 1
      /\ \A i \in 1..Len(anonCodes) : codes[i] = anonCodes[i]
      /\ codes[Len(anonCodes) + 1] = made + 1
  BY <1>3, <1>4
<1>6. Range(anonCodes) \subseteq Range(codes) /\ made + 1 \in Range(codes)
      /\ Range(codes) \subseteq 1..made'
  <2>0. Len(anonCodes) \in Nat /\ DOMAIN anonCodes = 1..Len(anonCodes)
        /\ DOMAIN codes = 1..Len(codes)
    BY <1>4, <1>5
  <2> HIDE DEF codes
  <2>1. Len(anonCodes) + 1 \in DOMAIN codes /\ DOMAIN anonCodes \subseteq DOMAIN codes
    BY <1>5, <2>0
  <2>2. made + 1 \in Range(codes)
    BY <1>5, <2>1 DEF Range
  <2>3. ASSUME NEW x \in Range(anonCodes) PROVE x \in Range(codes)
    <3>1. PICK i \in DOMAIN anonCodes : anonCodes[i] = x
      BY <2>3 DEF Range
    <3>2. i \in DOMAIN codes /\ codes[i] = x
      BY <1>5, <2>0, <2>1, <3>1
    <3> QED
      BY <3>2 DEF Range
  <2>4. Range(codes) \subseteq 1..made'
    <3>1. \A i \in DOMAIN codes : codes[i] \in 1..made'
      BY <1>5, <2>0, EntryOf
    <3> QED
      BY <3>1 DEF Range
  <2> QED
    BY <2>2, <2>3, <2>4
<1>7. kept \in Seq(1..made') /\ Len(kept) <= CookieSize
  <2>1. CookieSize \in Nat \ {0} /\ Len(anonCodes) \in Nat /\ Len(anonCodes) <= CookieSize
    BY DashboardAssumption DEF DashboardInv, DashTyped
  <2> HIDE DEF codes
  <2> DEFINE first == IF Len(codes) > CookieSize THEN 2 ELSE 1
  <2>2. /\ first \in Int /\ Len(codes) \in Int /\ first >= 1
        /\ \A i \in first..Len(codes) : codes[i] \in 1..made'
    <3>1. Len(codes) \in Nat /\ (first = 1 \/ first = 2)
      BY <1>5, <2>1
    <3>2. \A i \in first..Len(codes) : i \in 1..Len(codes)
      <4> HIDE DEF first
      <4> QED
        BY <3>1
    <3>3. \A i \in first..Len(codes) : codes[i] \in 1..made'
      BY <1>5, <3>2, EntryOf
    <3> QED
      BY <3>1, <3>3
  <2>3. Len(codes) - first + 1 <= CookieSize /\ 0 <= CookieSize
    BY <1>5, <2>1
  <2> HIDE DEF first
  <2>4. SubSeq(codes, first, Len(codes)) \in Seq(1..made')
        /\ Len(SubSeq(codes, first, Len(codes))) <= CookieSize
    BY <2>2, <2>3, SubSeqProperties
  <2> QED
    BY <2>4 DEF first
<1> HIDE DEF codes, kept
<1>8. DashTyped'
  <2>1. anonCodes' \in Seq(1..made') /\ Len(anonCodes') <= CookieSize
    BY <1>1, <1>4, <1>7 DEF DashboardInv, DashTyped
  <2>2. excused' \subseteq LinkNos
    <3>1. Range(codes) \subseteq LinkNos
      BY <1>2, <1>3, <1>6, NumbersAre
    <3> QED
      BY <1>1, <1>3, <3>1 DEF DashboardInv, DashTyped
  <2>3. mine' \subseteq 1..made' /\ loose' \subseteq 1..made' /\ mine' \cap loose' = {}
    BY <1>1, <1>3 DEF DashboardInv, DashTyped
  <2> QED
    BY <1>1, <1>3, <2>1, <2>2, <2>3 DEF DashboardInv, DashTyped
<1>9. ClaimKept'
  <2>1. AnonCodesKept'
    BY <1>1, <1>6 DEF DashboardInv, ClaimKept, AnonCodesKept
  <2>2. ASSUME NEW o \in Claims, claims[o] # Gone
        PROVE  /\ loose' \ excused' \subseteq claims[o].codes /\ claims[o].codes \subseteq 1..made'
               /\ claims[o].at = "claimed" => claims[o].codes \cap loose' = {}
    BY <1>1, <1>3, <2>2 DEF DashboardInv, ClaimKept
  <2> QED
    BY <1>1, <2>1, <2>2 DEF ClaimKept
<1>10. OrderKept' /\ QuietKept' /\ ListKept'
  BY <1>1 DEF DashboardInv, OrderKept, QuietKept, ListKept
<1> QED
  BY <1>8, <1>9, <1>10 DEF DashboardInv

LEMMA ClaimsUntouched ==
  ASSUME ClaimKept, UNCHANGED <<made, loose, anonCodes, claims, excused>>
  PROVE  ClaimKept'
BY DEF ClaimKept, AnonCodesKept

LEMMA ReadListKept ==
  ASSUME DashboardInv, ReadList
  PROVE  DashboardInv'
<1>1. /\ load.at = "list" /\ load' = [at |-> "answer", page |-> ListLinks(NoCursor)]
      /\ known' = mine
      /\ UNCHANGED <<made, mine, loose, anonCodes, claims, list, cursor, more, removing,
                     deleted, muddled, excused>>
  BY DEF ReadList, serverVars
<1>2. /\ ListLinks(NoCursor) \in Pages /\ PageKept(ListLinks(NoCursor), NoCursor)
      /\ PageFull(ListLinks(NoCursor), NoCursor, mine)
  <2>1. mine \subseteq LinkNos /\ NoCursor \in 0..MaxLinks
    BY CodesAreLinks, NumbersAre DEF DashboardInv, DashTyped, NoCursor
  <2> QED
    BY <2>1, ListLinksFacts
<1>3. load' \in Loads /\ load'.at = "answer" /\ load'.page = ListLinks(NoCursor)
  BY <1>1, <1>2 DEF Loads
<1>4. DashTyped'
  BY <1>1, <1>3 DEF DashboardInv, DashTyped
<1>5. ClaimKept'
  BY <1>1, <1>3, ClaimsUntouched DEF DashboardInv
<1>6. QuietKept'
  BY <1>1 DEF DashboardInv, QuietKept
<1>7. OrderKept'
  BY <1>1, <1>2, <1>3 DEF DashboardInv, OrderKept
<1>8. ListKept'
  <2>1. more' = Gone /\ removing' = [l \in LinkNos |-> Gone]
    BY <1>1 DEF DashboardInv, QuietKept
  <2> QED
    BY <1>1, <1>2, <1>3, <2>1 DEF DashboardInv, ListKept, Gone
<1> QED
  BY <1>4, <1>5, <1>6, <1>7, <1>8 DEF DashboardInv

LEMMA ShowListKept ==
  ASSUME DashboardInv, ShowList
  PROVE  DashboardInv'
<1>1. /\ load.at \in {"list", "answer"}
      /\ \/ /\ load.at = "answer" /\ load' = [at |-> "ready"]
            /\ list' = load.page.links /\ cursor' = load.page.next
         \/ load' = [at |-> "failed"] /\ UNCHANGED <<list, cursor>>
      /\ UNCHANGED <<made, mine, loose, anonCodes, claims, more, removing, known, deleted,
                     muddled, excused>>
  BY DEF ShowList, serverVars
<1>2. /\ list = << >> /\ cursor = NoCursor /\ more = Gone /\ ~muddled
      /\ removing = [l \in LinkNos |-> Gone] /\ deleted = {}
  BY <1>1 DEF DashboardInv, QuietKept
<1>3. load' \in Loads /\ load'.at \in {"ready", "failed"}
  BY <1>1 DEF Loads
<1>4. ASSUME load.at = "answer"
      PROVE  /\ load.page.links \in Seq(LinkNos) /\ load.page.next \in 0..MaxLinks
             /\ PageKept(load.page, NoCursor) /\ PageFull(load.page, NoCursor, known)
  <2>1. load.page \in Pages
    BY <1>4 DEF DashboardInv, DashTyped, Loads
  <2> QED
    BY <1>4, <2>1 DEF Pages, DashboardInv, OrderKept, ListKept
<1>5. DashTyped'
  BY <1>1, <1>3, <1>4 DEF DashboardInv, DashTyped
<1>6. ClaimKept'
  BY <1>1, <1>3, ClaimsUntouched DEF DashboardInv
<1>7. QuietKept'
  BY <1>1, <1>2 DEF QuietKept
<1>8. OrderKept'
  <2>1. Descending(list') /\ \A l \in Range(list') : cursor' <= l
    BY <1>1, <1>4 DEF DashboardInv, OrderKept, PageKept
  <2> QED
    BY <1>1, <1>2, <1>3, <2>1 DEF OrderKept, Gone
<1>9. ListKept'
  <2>1. CASE load.at = "answer" /\ load' = [at |-> "ready"] /\ list' = load.page.links
             /\ cursor' = load.page.next
    <3>1. ASSUME NEW l \in known, l >= cursor' PROVE l \in Range(list')
      <4>1. cursor' \in 0..MaxLinks /\ l \in Nat
        BY <1>4, <2>1, CodesAreLinks, NumbersAre DEF DashboardInv, DashTyped
      <4>2. cursor' <= l
        BY <3>1, <4>1
      <4> QED
        BY <1>4, <2>1, <3>1, <4>2 DEF PageFull
    <3> QED
      BY <1>1, <1>2, <2>1, <3>1 DEF ListKept, Gone
  <2>2. CASE load' = [at |-> "failed"]
    BY <1>1, <1>2, <2>2 DEF ListKept, Gone
  <2> QED
    BY <1>1, <2>1, <2>2
<1> QED
  BY <1>5, <1>6, <1>7, <1>8, <1>9 DEF DashboardInv

LEMMA LoadMoreKept ==
  ASSUME DashboardInv, LoadMore
  PROVE  DashboardInv'
<1>1. /\ load.at = "ready" /\ cursor # NoCursor /\ more' = [at |-> "sent", cursor |-> cursor]
      /\ UNCHANGED <<made, mine, loose, anonCodes, claims, load, list, cursor, removing, known,
                     deleted, muddled, excused>>
  BY DEF LoadMore, serverVars
<1>2. more' \in Mores /\ more'.at = "sent" /\ more'.cursor = cursor
  <2>1. cursor \in LinkNos
    BY <1>1, NumbersAre DEF DashboardInv, DashTyped, NoCursor
  <2> QED
    BY <1>1, <2>1 DEF Mores
<1>3. DashTyped'
  BY <1>1, <1>2 DEF DashboardInv, DashTyped
<1>4. ClaimKept'
  BY <1>1, ClaimsUntouched DEF DashboardInv
<1>5. OrderKept' /\ QuietKept' /\ ListKept'
  BY <1>1, <1>2 DEF DashboardInv, OrderKept, QuietKept, ListKept
<1> QED
  BY <1>3, <1>4, <1>5 DEF DashboardInv

LEMMA ReadMoreKept ==
  ASSUME DashboardInv, ReadMore
  PROVE  DashboardInv'
<1>1. /\ more.at = "sent" /\ more' = [at |-> "answer", page |-> ListLinks(more.cursor)]
      /\ UNCHANGED <<made, mine, loose, anonCodes, claims, load, list, cursor, removing, known,
                     deleted, muddled, excused>>
  BY DEF ReadMore, serverVars
<1>2. more.cursor = cursor /\ cursor \in LinkNos /\ cursor \in 0..MaxLinks /\ cursor # NoCursor
  <2>1. more \in [at : {"sent"}, cursor : LinkNos] /\ more.cursor = cursor
    BY <1>1 DEF DashboardInv, DashTyped, OrderKept, Mores, Gone
  <2> QED
    BY <2>1, NumbersAre DEF DashboardInv, DashTyped, NoCursor, LinkNos
<1>3. /\ ListLinks(cursor) \in Pages /\ PageKept(ListLinks(cursor), cursor)
      /\ PageFull(ListLinks(cursor), cursor, mine)
  <2>1. mine \subseteq LinkNos
    BY CodesAreLinks DEF DashboardInv, DashTyped
  <2> QED
    BY <1>2, <2>1, ListLinksFacts
<1>4. more' \in Mores /\ more'.at = "answer" /\ more'.page = ListLinks(cursor)
  BY <1>1, <1>2, <1>3 DEF Mores
<1>5. DashTyped'
  BY <1>1, <1>4 DEF DashboardInv, DashTyped
<1>6. ClaimKept'
  BY <1>1, ClaimsUntouched DEF DashboardInv
<1>7. QuietKept'
  <2>1. load.at = "ready"
    BY <1>1 DEF DashboardInv, QuietKept, Gone
  <2> QED
    BY <1>1, <2>1 DEF QuietKept
<1>8. OrderKept'
  BY <1>1, <1>2, <1>3, <1>4 DEF DashboardInv, OrderKept
<1>9. ListKept'
  <2>1. PageFull(ListLinks(cursor), cursor, known)
    BY <1>3 DEF DashboardInv, DashTyped, PageFull
  <2> QED
    BY <1>1, <1>4, <2>1 DEF DashboardInv, ListKept
<1> QED
  BY <1>5, <1>6, <1>7, <1>8, <1>9 DEF DashboardInv

LEMMA ShowMoreKept ==
  ASSUME DashboardInv, ShowMore
  PROVE  DashboardInv'
<1>1. /\ more # Gone /\ more' = Gone
      /\ \/ more.at = "answer" /\ list' = list \o more.page.links /\ cursor' = more.page.next
         \/ UNCHANGED <<list, cursor>>
      /\ UNCHANGED <<made, mine, loose, anonCodes, claims, load, removing, known, deleted,
                     muddled, excused>>
  BY DEF ShowMore, serverVars
<1>2. load.at = "ready" /\ more' \in Mores /\ more'.at = "none"
  BY <1>1 DEF DashboardInv, QuietKept, Mores, Gone
<1>3. ClaimKept' /\ QuietKept'
  BY <1>1, <1>2, ClaimsUntouched DEF DashboardInv, QuietKept
<1>4. CASE UNCHANGED <<list, cursor>>
  <2>1. DashTyped'
    BY <1>1, <1>2, <1>4 DEF DashboardInv, DashTyped
  <2>2. OrderKept' /\ ListKept'
    BY <1>1, <1>2, <1>4 DEF DashboardInv, OrderKept, ListKept
  <2> QED
    BY <1>3, <2>1, <2>2 DEF DashboardInv
<1>5. CASE more.at = "answer" /\ list' = list \o more.page.links /\ cursor' = more.page.next
  <2> DEFINE links == more.page.links
             next == more.page.next
  <2>1. /\ links \in Seq(LinkNos) /\ next \in 0..MaxLinks
        /\ PageKept(more.page, cursor) /\ PageFull(more.page, cursor, known)
        /\ cursor # NoCursor
    <3>1. more.page \in Pages
      BY <1>5 DEF DashboardInv, DashTyped, Mores, Gone
    <3> QED
      BY <1>5, <3>1 DEF Pages, DashboardInv, OrderKept, ListKept
  <2>2. /\ Descending(links) /\ next < cursor
        /\ \A l \in Range(links) : next <= l /\ l < cursor
    BY <2>1 DEF PageKept
  <2>3. /\ list \in Seq(LinkNos) /\ Descending(list) /\ \A l \in Range(list) : cursor <= l
        /\ cursor \in 0..MaxLinks /\ next \in Nat /\ cursor \in Nat
    BY <2>1, NumbersAre DEF DashboardInv, DashTyped, OrderKept
  <2>4. /\ \A l \in Range(list) : l \in Nat
        /\ \A l \in Range(links) : l \in Nat
    <3>1. Range(list) \subseteq LinkNos /\ Range(links) \subseteq LinkNos
      <4> HIDE DEF links
      <4> QED
        BY <2>1, <2>3 DEF Range
    <3> QED
      BY <3>1, NumbersAre
  <2>5. \A l \in Range(list), m \in Range(links) : m < l
    <3> HIDE DEF links, next
    <3> QED
      BY <2>2, <2>3, <2>4
  <2>6. /\ list' \in Seq(LinkNos) /\ Descending(list')
        /\ Range(list') = Range(list) \cup Range(links)
    <3>1. list' = list \o links
      BY <1>5
    <3> HIDE DEF links
    <3> QED
      BY <2>1, <2>2, <2>3, <2>5, <3>1, Continues
  <2> HIDE DEF links, next
  <2>7. DashTyped'
    <3>1. cursor' \in 0..MaxLinks
      BY <1>5, <2>1 DEF next
    <3> QED
      BY <1>1, <1>2, <2>6, <3>1 DEF DashboardInv, DashTyped
  <2>8. cursor' = next
    BY <1>5 DEF next
  <2>9. \A l : l \in Nat /\ cursor <= l => cursor' <= l
    BY <2>2, <2>3, <2>8
  <2>10. OrderKept'
    <3>1. \A l \in Range(list') : cursor' <= l
      BY <2>2, <2>3, <2>4, <2>6, <2>8, <2>9
    <3>2. ASSUME NEW l \in LinkNos, removing[l] # Gone, NEW m \in Range(removing[l].prev)
          PROVE  cursor' <= m
      <4>1. removing[l].prev \in Seq(LinkNos)
        <5>1. removing[l] \in Removals
          BY DEF DashboardInv, DashTyped
        <5> QED
          BY <3>2, <5>1 DEF Removals
      <4>2. m \in Nat
        BY <3>2, <4>1, NumbersAre DEF Range
      <4>3. cursor <= m
        BY <3>2 DEF DashboardInv, OrderKept
      <4> QED
        BY <2>9, <4>2, <4>3
    <3> QED
      BY <1>1, <1>2, <2>6, <3>1, <3>2 DEF DashboardInv, OrderKept
  <2>11. ListKept'
    <3>1. ASSUME NEW l \in deleted PROVE cursor' <= l /\ l \notin Range(links)
      <4>1. cursor <= l /\ l \in Nat
        BY NumbersAre DEF DashboardInv, ListKept, DashTyped
      <4> QED
        BY <2>2, <2>3, <2>9, <4>1
    <3>2. ASSUME NEW l \in LinkNos, removing[l] # Gone PROVE l \notin Range(links)
      <4>1. cursor <= l /\ l \in Nat
        BY <3>2, NumbersAre DEF DashboardInv, OrderKept
      <4> QED
        BY <2>2, <2>3, <4>1
    <3>3. ASSUME ~muddled, NEW l \in known, l >= cursor'
          PROVE  l \in Range(list') \/ removing[l] # Gone
      <4>1. l \in Nat
        BY CodesAreLinks, NumbersAre DEF DashboardInv, DashTyped
      <4>2. CASE l >= cursor
        BY <1>2, <2>6, <3>3, <4>2 DEF DashboardInv, ListKept
      <4>3. CASE ~(l >= cursor)
        <5>1. next <= l /\ l < cursor
          BY <2>3, <2>8, <3>3, <4>1, <4>3
        <5>2. l \in Range(links)
          BY <2>1, <5>1 DEF PageFull, links, next
        <5> QED
          BY <2>6, <5>2
      <4> QED
        BY <4>2, <4>3
    <3> QED
      BY <1>1, <1>2, <2>6, <3>1, <3>2, <3>3 DEF DashboardInv, ListKept
  <2> QED
    BY <1>3, <2>7, <2>10, <2>11 DEF DashboardInv
<1> QED
  BY <1>1, <1>4, <1>5

LEMMA RemoveLinkKept ==
  ASSUME DashboardInv, NEW l \in LinkNos, RemoveLink(l)
  PROVE  DashboardInv'
<1>1. /\ load.at = "ready" /\ l \in Range(list) /\ removing[l] = Gone
      /\ list' = Without(list, l)
      /\ removing' = [removing EXCEPT ![l] = [at |-> "sent", prev |-> list]]
      /\ UNCHANGED <<made, mine, loose, anonCodes, claims, load, cursor, more, known,
                     deleted, muddled, excused>>
  BY DEF RemoveLink, serverVars
<1>2. /\ list \in Seq(LinkNos) /\ Descending(list) /\ \A m \in Range(list) : cursor <= m
      /\ removing \in [LinkNos -> Removals]
  BY DEF DashboardInv, DashTyped, OrderKept
<1>3. /\ list' \in Seq(LinkNos) /\ Descending(list') /\ Range(list') = Range(list) \ {l}
  BY <1>1, <1>2, WithoutFacts
<1>4. /\ removing'[l] = [at |-> "sent", prev |-> list]
      /\ \A k \in LinkNos \ {l} : removing'[k] = removing[k]
      /\ removing' \in [LinkNos -> Removals]
  <2>1. [at |-> "sent", prev |-> list] \in Removals
    BY <1>2 DEF Removals
  <2> QED
    BY <1>1, <1>2, <2>1
<1>5. removing'[l].at = "sent" /\ removing'[l].prev = list /\ removing'[l] # Gone
  BY <1>4 DEF Gone
<1>6. DashTyped'
  BY <1>1, <1>3, <1>4 DEF DashboardInv, DashTyped
<1>7. ClaimKept' /\ QuietKept'
  BY <1>1, ClaimsUntouched DEF DashboardInv, QuietKept
<1>8. OrderKept'
  <2>1. ASSUME NEW k \in LinkNos, removing'[k] # Gone
        PROVE  /\ Descending(removing'[k].prev)
               /\ \A m \in Range(removing'[k].prev) : cursor <= m
               /\ k \in Range(removing'[k].prev)
    <3>1. CASE k = l
      BY <1>1, <1>2, <1>5, <3>1
    <3>2. CASE k # l
      BY <1>4, <2>1, <3>2 DEF DashboardInv, OrderKept
    <3> QED
      BY <3>1, <3>2
  <2> QED
    BY <1>1, <1>2, <1>3, <2>1 DEF DashboardInv, OrderKept
<1>9. ListKept'
  <2>1. ASSUME NEW k \in LinkNos, removing'[k].at = "deleted" PROVE k \notin known
    <3>1. k # l
      BY <1>5, <2>1
    <3> QED
      BY <1>4, <2>1, <3>1 DEF DashboardInv, ListKept
  <2>2. ASSUME ~muddled
        PROVE  /\ \A k \in known : k >= cursor => k \in Range(list') \/ removing'[k] # Gone
               /\ deleted \cap Range(list') = {}
               /\ \A k \in LinkNos : removing'[k] # Gone => k \notin Range(list') /\ k \notin deleted
    <3>1. /\ \A k \in known : k >= cursor => k \in Range(list) \/ removing[k] # Gone
          /\ deleted \cap Range(list) = {}
          /\ \A k \in LinkNos : removing[k] # Gone => k \notin Range(list) /\ k \notin deleted
          /\ known \subseteq LinkNos
      BY <1>1, <2>2, CodesAreLinks DEF DashboardInv, ListKept, DashTyped
    <3>2. ASSUME NEW k \in known, k >= cursor
          PROVE  k \in Range(list') \/ removing'[k] # Gone
      <4>1. k \in LinkNos /\ (k \in Range(list) \/ removing[k] # Gone)
        BY <3>1, <3>2
      <4> QED
        BY <1>3, <1>4, <1>5, <4>1
    <3>3. ASSUME NEW k \in LinkNos, removing'[k] # Gone
          PROVE  k \notin Range(list') /\ k \notin deleted
      BY <1>1, <1>3, <1>4, <3>1, <3>3
    <3> QED
      BY <1>3, <3>1, <3>2, <3>3
  <2> QED
    BY <1>1, <2>1, <2>2 DEF DashboardInv, ListKept
<1> QED
  BY <1>6, <1>7, <1>8, <1>9 DEF DashboardInv

\* Links that go, here or in another tab.
LEMMA FewerKept ==
  ASSUME DashboardInv, NEW l, mine' = mine \ {l}, known' = known \ {l},
         UNCHANGED <<made, loose, anonCodes, claims, load, list, cursor, more, deleted, muddled, excused>>,
         removing' \in [LinkNos -> Removals],
         \A k \in LinkNos : /\ removing'[k] # Gone <=> removing[k] # Gone
                            /\ removing[k] # Gone => removing'[k].prev = removing[k].prev
                            /\ removing'[k].at = "deleted" => removing[k].at = "deleted" \/ k = l
  PROVE  DashboardInv'
<1>1. DashTyped'
  BY DEF DashboardInv, DashTyped
<1>2. ClaimKept'
  BY ClaimsUntouched DEF DashboardInv
<1>3. QuietKept'
  <2>1. ASSUME load.at # "ready" PROVE removing' = [k \in LinkNos |-> Gone]
    <3>1. removing = [k \in LinkNos |-> Gone]
      BY <2>1 DEF DashboardInv, QuietKept
    <3>2. \A k \in LinkNos : removing'[k] = Gone
      BY <3>1
    <3> QED
      BY <3>2
  <2> QED
    BY <2>1 DEF DashboardInv, QuietKept
<1>4. OrderKept'
  BY DEF DashboardInv, OrderKept
<1>5. ListKept'
  <2>1. known \subseteq LinkNos
    BY CodesAreLinks DEF DashboardInv, DashTyped
  <2>2. /\ load'.at = "answer" => PageFull(load'.page, NoCursor, known')
        /\ more'.at = "answer" => PageFull(more'.page, cursor', known')
        /\ \A k \in deleted' : cursor' <= k
    BY DEF DashboardInv, ListKept, PageFull
  <2>3. \A k \in LinkNos : removing'[k].at = "deleted" => k \notin known'
    BY DEF DashboardInv, ListKept
  <2>4. ASSUME load'.at = "ready", ~muddled'
        PROVE  /\ \A k \in known' : k >= cursor' => k \in Range(list') \/ removing'[k] # Gone
               /\ deleted' \cap Range(list') = {}
               /\ \A k \in LinkNos : removing'[k] # Gone => k \notin Range(list') /\ k \notin deleted'
    BY <2>1, <2>4 DEF DashboardInv, ListKept
  <2> QED
    BY <2>2, <2>3, <2>4 DEF ListKept
<1> QED
  BY <1>1, <1>2, <1>3, <1>4, <1>5 DEF DashboardInv

LEMMA ServerDeletesKept ==
  ASSUME DashboardInv, NEW l \in LinkNos, ServerDeletes(l)
  PROVE  DashboardInv'
<1>1. /\ removing[l].at = "sent" /\ mine' = mine \ {l} /\ known' = known \ {l}
      /\ removing' = [removing EXCEPT ![l].at = "deleted"]
      /\ UNCHANGED <<made, loose, anonCodes, claims, load, list, cursor, more, deleted, muddled, excused>>
  BY DEF ServerDeletes
<1>2. removing \in [LinkNos -> Removals]
  BY DEF DashboardInv, DashTyped
<1>3. removing[l] \in [at : {"sent", "deleted"}, prev : Seq(LinkNos)]
  BY <1>1, <1>2 DEF Removals, Gone
<1>4. removing' = [removing EXCEPT ![l] = [at |-> "deleted", prev |-> removing[l].prev]]
  <2>1. [removing[l] EXCEPT !.at = "deleted"] = [at |-> "deleted", prev |-> removing[l].prev]
    BY <1>3
  <2> QED
    BY <1>1, <2>1
<1>5. [at |-> "deleted", prev |-> removing[l].prev] \in Removals
  BY <1>3 DEF Removals
<1>6. removing' \in [LinkNos -> Removals]
  BY <1>2, <1>4, <1>5
<1>7. ASSUME NEW k \in LinkNos
      PROVE  /\ removing'[k] # Gone <=> removing[k] # Gone
             /\ removing[k] # Gone => removing'[k].prev = removing[k].prev
             /\ removing'[k].at = "deleted" => removing[k].at = "deleted" \/ k = l
  <2>1. CASE k = l
    <3>1. removing'[k] = [at |-> "deleted", prev |-> removing[k].prev]
      BY <1>2, <1>4, <2>1
    <3>2. removing'[k].at = "deleted" /\ removing'[k].prev = removing[k].prev
      BY <3>1
    <3> QED
      BY <1>1, <2>1, <3>2 DEF Gone
  <2>2. CASE k # l
    BY <1>2, <1>4, <2>2
  <2> QED
    BY <2>1, <2>2
<1> QED
  BY <1>1, <1>6, <1>7, FewerKept

LEMMA DeleteElsewhereKept ==
  ASSUME DashboardInv, NEW l \in LinkNos, DeleteElsewhere(l)
  PROVE  DashboardInv'
<1>1. /\ mine' = mine \ {l} /\ known' = known \ {l}
      /\ UNCHANGED <<made, loose, anonCodes, claims, load, list, cursor, more, deleted, muddled,
                     excused, removing>>
  BY DEF DeleteElsewhere
<1>2. removing' \in [LinkNos -> Removals]
  BY <1>1 DEF DashboardInv, DashTyped
<1> QED
  BY <1>1, <1>2, FewerKept

LEMMA RemoveEndsKept ==
  ASSUME DashboardInv, NEW l \in LinkNos, RemoveEnds(l)
  PROVE  DashboardInv'
<1>1. /\ removing[l] # Gone /\ removing' = [removing EXCEPT ![l] = Gone]
      /\ \/ /\ removing[l].at = "deleted" /\ deleted' = deleted \cup {l}
            /\ UNCHANGED <<list, muddled>>
         \/ /\ list' = removing[l].prev /\ UNCHANGED deleted
            /\ muddled' = (muddled \/ (list # Without(removing[l].prev, l)))
      /\ UNCHANGED <<made, mine, loose, anonCodes, claims, load, cursor, more, known, excused>>
  BY DEF RemoveEnds, serverVars
<1>2. /\ removing \in [LinkNos -> Removals] /\ list \in Seq(LinkNos) /\ muddled \in BOOLEAN
      /\ known \subseteq LinkNos
  BY CodesAreLinks DEF DashboardInv, DashTyped
<1>3. /\ removing[l].prev \in Seq(LinkNos) /\ Descending(removing[l].prev)
      /\ l \in Range(removing[l].prev) /\ \A m \in Range(removing[l].prev) : cursor <= m
      /\ cursor <= l
  <2>1. removing[l].prev \in Seq(LinkNos)
    BY <1>1, <1>2 DEF Removals
  <2> QED
    BY <1>1, <2>1 DEF DashboardInv, OrderKept
<1>4. load.at = "ready"
  BY <1>1 DEF DashboardInv, QuietKept
<1>5. /\ removing'[l] = Gone /\ \A k \in LinkNos \ {l} : removing'[k] = removing[k]
      /\ removing' \in [LinkNos -> Removals]
  <2>1. Gone \in Removals
    BY DEF Removals
  <2> QED
    BY <1>1, <1>2, <2>1
<1>6. /\ list' \in Seq(LinkNos) /\ Descending(list') /\ \A m \in Range(list') : cursor <= m
  BY <1>1, <1>2, <1>3 DEF DashboardInv, OrderKept
<1>7. muddled' \in BOOLEAN /\ deleted' \subseteq LinkNos
  BY <1>1, <1>2 DEF DashboardInv, DashTyped
<1>8. DashTyped'
  BY <1>1, <1>5, <1>6, <1>7 DEF DashboardInv, DashTyped
<1>9. ClaimKept' /\ QuietKept'
  BY <1>1, <1>4, ClaimsUntouched DEF DashboardInv, QuietKept
<1>10. OrderKept'
  <2>1. \A k \in LinkNos : removing'[k] # Gone => k # l /\ removing'[k] = removing[k]
    BY <1>5
  <2> QED
    BY <1>1, <1>6, <2>1 DEF DashboardInv, OrderKept
<1>11. ListKept'
  <2>1. \A k \in deleted' : cursor <= k
    BY <1>1, <1>3 DEF DashboardInv, ListKept
  <2>2. ASSUME NEW k \in LinkNos, removing'[k].at = "deleted" PROVE k \notin known
    <3>1. k # l
      BY <1>5, <2>2 DEF Gone
    <3> QED
      BY <1>5, <2>2, <3>1 DEF DashboardInv, ListKept
  <2>3. ASSUME ~muddled'
        PROVE  /\ \A k \in known : k >= cursor => k \in Range(list') \/ removing'[k] # Gone
               /\ deleted' \cap Range(list') = {}
               /\ \A k \in LinkNos : removing'[k] # Gone => k \notin Range(list') /\ k \notin deleted'
    <3>1. ~muddled
      BY <1>1, <1>2, <2>3
    <3>2. /\ \A k \in known : k >= cursor => k \in Range(list) \/ removing[k] # Gone
          /\ deleted \cap Range(list) = {}
          /\ \A k \in LinkNos : removing[k] # Gone => k \notin Range(list) /\ k \notin deleted
      BY <1>4, <3>1 DEF DashboardInv, ListKept
    <3>3. CASE removing[l].at = "deleted" /\ deleted' = deleted \cup {l} /\ UNCHANGED list
      <4>1. l \notin known
        BY <3>3 DEF DashboardInv, ListKept
      <4>2. l \notin Range(list)
        BY <1>1, <3>2
      <4>3. ASSUME NEW k \in known, k >= cursor PROVE k \in Range(list) \/ removing'[k] # Gone
        BY <1>2, <1>5, <3>2, <4>1, <4>3
      <4>4. ASSUME NEW k \in LinkNos, removing'[k] # Gone
            PROVE  k \notin Range(list) /\ k \notin deleted'
        BY <1>5, <3>2, <3>3, <4>4
      <4> QED
        BY <3>2, <3>3, <4>2, <4>3, <4>4
    <3>4. CASE list' = removing[l].prev /\ UNCHANGED deleted
               /\ muddled' = (muddled \/ (list # Without(removing[l].prev, l)))
      <4>1. list = Without(list', l)
        BY <2>3, <3>4
      <4>2. Range(list') = Range(list) \cup {l} /\ l \notin Range(list)
        <5>1. Range(list) = Range(list') \ {l} /\ l \in Range(list')
          BY <1>3, <3>4, <4>1, WithoutFacts
        <5> QED
          BY <5>1
      <4>3. l \notin deleted
        BY <1>1, <3>2
      <4>4. ASSUME NEW k \in known, k >= cursor PROVE k \in Range(list') \/ removing'[k] # Gone
        <5>1. k \in Range(list) \/ removing[k] # Gone
          BY <3>2, <4>4
        <5>2. k = l \/ removing'[k] = removing[k]
          BY <1>2, <1>5
        <5> QED
          BY <4>2, <5>1, <5>2
      <4>5. ASSUME NEW k \in LinkNos, removing'[k] # Gone
            PROVE  k \notin Range(list') /\ k \notin deleted
        BY <1>5, <3>2, <4>2, <4>5
      <4> QED
        BY <3>2, <3>4, <4>2, <4>3, <4>4, <4>5
    <3> QED
      BY <1>1, <3>3, <3>4
  <2> QED
    BY <1>1, <1>4, <2>1, <2>2, <2>3 DEF DashboardInv, ListKept
<1> QED
  BY <1>8, <1>9, <1>10, <1>11 DEF DashboardInv

LEMMA DashboardNextKept ==
  ASSUME DashboardInv, [DashboardNext]_dashboardVars
  PROVE  DashboardInv'
<1>1. CASE UNCHANGED dashboardVars
  BY <1>1 DEF dashboardVars, serverVars, listVars, DashboardInv, DashTyped, ClaimKept,
              AnonCodesKept, OrderKept, QuietKept, ListKept
<1>2. CASE Reopen
  BY <1>2, ReopenKept
<1>3. ASSUME NEW o \in Claims, ClaimElsewhere(o) \/ ClaimAdopts(o) \/ ClaimEnds(o)
      PROVE  DashboardInv'
  BY <1>3, ClaimElsewhereKept, ClaimAdoptsKept, ClaimEndsKept
<1>4. CASE CookieExpires
  BY <1>4, CookieExpiresKept
<1>5. CASE ReadList
  BY <1>5, ReadListKept
<1>6. CASE ShowList
  BY <1>6, ShowListKept
<1>7. CASE LoadMore
  BY <1>7, LoadMoreKept
<1>8. CASE ReadMore
  BY <1>8, ReadMoreKept
<1>9. CASE ShowMore
  BY <1>9, ShowMoreKept
<1>10. ASSUME NEW l \in LinkNos, RemoveLink(l) PROVE DashboardInv'
  BY <1>10, RemoveLinkKept
<1>11. ASSUME NEW l \in LinkNos, ServerDeletes(l) PROVE DashboardInv'
  BY <1>11, ServerDeletesKept
<1>12. ASSUME NEW l \in LinkNos, RemoveEnds(l) PROVE DashboardInv'
  BY <1>12, RemoveEndsKept
<1>13. ASSUME NEW l \in LinkNos, DeleteElsewhere(l) PROVE DashboardInv'
  BY <1>13, DeleteElsewhereKept
<1>14. CASE CreateInModal
  BY <1>14, CreateInModalKept
<1>15. CASE Stash
  BY <1>15, StashKept
<1> QED
  BY <1>1, <1>2, <1>3, <1>4, <1>5, <1>6, <1>7, <1>8, <1>9, <1>10, <1>11, <1>12, <1>13,
     <1>14, <1>15 DEF DashboardNext

LEMMA DashboardInvHolds == DashboardSpec => []DashboardInv
<1>1. DashboardInit => DashboardInv
  BY DashboardInitKept
<1>2. DashboardInv /\ [DashboardNext]_dashboardVars => DashboardInv'
  BY DashboardNextKept
<1> QED
  BY <1>1, <1>2, PTL DEF DashboardSpec

\* Every reachable state of the dashboard is well-typed.
THEOREM DashboardTypeCorrect == DashboardSpec => []DashboardTypeOK
<1>1. ASSUME DashboardInv PROVE DashboardTypeOK
  <2>1. DashTyped /\ OrderKept
    BY <1>1 DEF DashboardInv
  <2>2. /\ made \in 0..MaxLinks
        /\ mine \subseteq 1..made /\ loose \subseteq 1..made /\ mine \cap loose = {}
        /\ Len(anonCodes) <= CookieSize /\ cursor \in 0..MaxLinks
        /\ muddled \in BOOLEAN /\ DOMAIN removing = LinkNos
        /\ deleted \subseteq LinkNos /\ excused \subseteq LinkNos
    BY <2>1 DEF DashTyped
  <2>3. Range(anonCodes) \subseteq LinkNos /\ known \subseteq LinkNos
    BY <2>1, CodesAreLinks DEF DashTyped
  <2>4. Range(list) \subseteq LinkNos
    BY <2>1 DEF DashTyped, Range
  <2>5. /\ load.at \in {"claim", "list", "answer", "failed", "ready"}
        /\ load.at = "claim" => claims[load.by] # Gone
        /\ \A o \in Claims : claims[o] # Gone =>
             claims[o].at \in {"claim", "claimed"} /\ claims[o].codes \subseteq 1..made
    BY <1>1, <2>1 DEF DashTyped, Loads, Sent, DashboardInv, ClaimKept
  <2>6. more.at = "sent" => more.cursor \in LinkNos
    BY <2>1 DEF DashTyped, Mores, Gone
  <2>7. ASSUME more.at = "answer" PROVE IsPage(more.page)
    <3>1. more.page \in Pages /\ PageKept(more.page, cursor)
      BY <2>1, <2>7 DEF DashTyped, Mores, Gone, OrderKept
    <3>2. Range(more.page.links) \subseteq LinkNos
      BY <3>1 DEF Pages, Range
    <3> QED
      BY <3>1, <3>2 DEF Pages, PageKept, IsPage
  <2> QED
    BY <2>2, <2>3, <2>4, <2>5, <2>6, <2>7 DEF DashboardTypeOK
<1> QED
  BY <1>1, DashboardInvHolds, PTL

\* The list of links stays in order, and without a muddled rollback it shows all
\* it knows of down to its cursor and nothing it was told is deleted.
THEOREM ListFaithfulHolds == DashboardSpec => []ListFaithful
<1>1. DashboardInv => ListFaithful
  BY DEF DashboardInv, OrderKept, ListKept, ListFaithful
<1> QED
  BY <1>1, DashboardInvHolds, PTL

\* The code of a link without an owner is in the cookie until a claim has given
\* the link to the user.
THEOREM AnonCodesKeptHolds == DashboardSpec => []AnonCodesKept
<1>1. DashboardInv => AnonCodesKept
  BY DEF DashboardInv, ClaimKept
<1> QED
  BY <1>1, DashboardInvHolds, PTL
=============================================================================
