------------------------------ MODULE Session ------------------------------
(***************************************************************************)
(* Who the dashboard says is signed in: AuthContext.tsx over lib/api.ts,    *)
(* with the gate of App.tsx and the form of Login.tsx.                     *)
(*                                                                         *)
(* The session is an HttpOnly cookie the page cannot read, shared with the  *)
(* browser's other tabs; the page has only answers, and any request may fail *)
(* before or after the server has acted (Accounts has the server's part).   *)
(***************************************************************************)
EXTENDS Naturals

CONSTANTS
  People,   \* emails with an account
  Nobody    \* no email

ASSUME SessionAssumption == Nobody \notin People

VARIABLES
  account,  \* whose session the cookie holds
  token,    \* magic-link token in the URL: [email, good], email Nobody for none
  status,   \* "loading", "authed", "anon" or "error"
  shown,    \* email in the shell
  stored,   \* klipo.email in localStorage
  boot,     \* the boot effect: [at], with the email answered once it is
  heard,    \* history: why the status is what it is: "401", "signed out",
            \* "logout lost", "" otherwise
  moved,    \* history: has the cookie changed in another tab, or expired, since
            \* this boot began?
  torn      \* history: did this boot end on an answer without a readable body?

sessionVars == <<account, token, status, shown, stored, boot, heard, moved, torn>>

NoToken == [email |-> Nobody, good |-> FALSE]
Maybe == People \cup {Nobody}
Undefined == "undefined"   \* the email of an answer without one

SessionTypeOK ==
  /\ account \in Maybe
  /\ shown \in Maybe \cup {Undefined} /\ stored \in Maybe \cup {Undefined}
  /\ token \in [email : People, good : BOOLEAN] \cup {NoToken}
  /\ status \in {"loading", "authed", "anon", "error"}
  /\ boot \in [at : {"verify", "probe", "done"}]
                \cup [at : {"verified", "me"}, email : Maybe]
  /\ heard \in {"401", "signed out", "logout lost", ""}
  /\ moved \in BOOLEAN /\ torn \in BOOLEAN

-----------------------------------------------------------------------------
BootAt(t) == [at |-> IF t = NoToken THEN "probe" ELSE "verify"]

\* The effect of AuthProvider runs: at every load of the page, and on a retry.
Boots(t) ==
  /\ boot' = BootAt(t)
  /\ status' = "loading" /\ heard' = "" /\ moved' = FALSE /\ torn' = FALSE

SessionInit ==
  /\ account = Nobody /\ token = NoToken
  /\ status = "loading" /\ shown = Nobody /\ stored = Nobody
  /\ boot = BootAt(NoToken) /\ heard = "" /\ moved = FALSE /\ torn = FALSE

RememberEmail(e) == shown' = e /\ stored' = e

\* A link of an email is opened, or the page is reloaded at any moment.
OpenPage(t) ==
  /\ token' = t /\ Boots(t)
  /\ shown' = stored
  /\ UNCHANGED <<account, stored>>

\* GET auth/verify: the server accepts the token, or refuses; or is not reached.
VerifyToken ==
  /\ boot.at = "verify"
  /\ \/ token.good /\ boot' = [at |-> "verified", email |-> token.email]
     \/ boot' = [at |-> "probe"]
  /\ UNCHANGED <<account, token, status, shown, stored, heard, moved, torn>>

\* Its answer brings the cookie, and only now the token leaves the URL; a body
\* that cannot be read counts as {}.  A lost answer is a failure, and every
\* failure falls through to a probe of the session.
Verified ==
  /\ boot.at = "verified"
  /\ \/ /\ account' = boot.email /\ token' = NoToken /\ status' = "authed"
        /\ boot' = [at |-> "done"]
        /\ \/ RememberEmail(boot.email) /\ UNCHANGED torn
           \/ UNCHANGED <<shown, stored>> /\ torn' = TRUE
     \/ /\ boot' = [at |-> "probe"]
        /\ UNCHANGED <<account, token, status, shown, stored, torn>>
  /\ UNCHANGED <<heard, moved>>

\* GET auth/me.
ProbeSession ==
  /\ boot.at = "probe"
  /\ boot' = [at |-> "me", email |-> account]
  /\ UNCHANGED <<account, token, status, shown, stored, heard, moved, torn>>

\* "null only on a real 401"; anything else that is not an answer is an error.
MutProbed ==
  /\ boot.at \in {"probe", "me"}
  /\ boot' = [at |-> "done"]
  /\ \/ /\ boot.at = "me" /\ boot.email # Nobody
        /\ status' = "authed" /\ UNCHANGED heard
        /\ \/ RememberEmail(boot.email) /\ UNCHANGED torn
           \/ RememberEmail(Undefined) /\ torn' = TRUE
     \/ /\ boot.at = "me" /\ boot.email = Nobody
        /\ status' = "anon" /\ heard' = "401" /\ UNCHANGED <<shown, stored, torn>>
     \/ status' = "anon" /\ UNCHANGED <<shown, stored, heard, torn>>
  /\ UNCHANGED <<account, token, moved>>
Probed ==
  /\ boot.at \in {"probe", "me"}
  /\ boot' = [at |-> "done"]
  /\ \/ /\ boot.at = "me" /\ boot.email # Nobody
        /\ status' = "authed" /\ UNCHANGED heard
        /\ \/ RememberEmail(boot.email) /\ UNCHANGED torn
           \/ RememberEmail(Undefined) /\ torn' = TRUE
     \/ /\ boot.at = "me" /\ boot.email = Nobody
        /\ status' = "anon" /\ heard' = "401" /\ UNCHANGED <<shown, stored, torn>>
     \/ status' = "error" /\ UNCHANGED <<shown, stored, heard, torn>>
  /\ UNCHANGED <<account, token, moved>>

\* "Try again" on the error screen.
Retry ==
  /\ status = "error"
  /\ Boots(token)
  /\ UNCHANGED <<account, token, shown, stored>>

\* signOut: POST auth/logout clears the cookie if its answer arrives; the page
\* shows the login screen all the same.
SignOut ==
  /\ status = "authed"
  /\ \/ account' = Nobody /\ heard' = "signed out"
     \/ UNCHANGED account /\ heard' = "logout lost"
  /\ status' = "anon" /\ RememberEmail(Nobody)
  /\ UNCHANGED <<token, boot, moved, torn>>

\* The form of Login.tsx: the email asked for is remembered before anybody has
\* proved to be its owner.
RequestLink(e) ==
  /\ status = "anon"
  /\ RememberEmail(e)
  /\ UNCHANGED <<account, token, status, boot, heard, moved, torn>>

\* Another tab signs in or out, or the session expires.
CookieMoves(e) ==
  /\ account' = e /\ account # e
  /\ stored' \in {stored, e}
  /\ moved' = TRUE
  /\ UNCHANGED <<token, status, shown, boot, heard, torn>>

TokenExpires ==
  /\ token.good
  /\ token' = [token EXCEPT !.good = FALSE]
  /\ UNCHANGED <<account, status, shown, stored, boot, heard, moved, torn>>

SessionNext ==
  \/ \E t \in [email : People, good : {TRUE}] \cup {token} : OpenPage(t)
  \/ VerifyToken \/ Verified \/ ProbeSession \/ Probed
  \/ Retry \/ SignOut
  \/ \E e \in People : RequestLink(e)
  \/ \E e \in Maybe : CookieMoves(e)
  \/ TokenExpires

SessionSpec == SessionInit /\ [][SessionNext]_sessionVars

-----------------------------------------------------------------------------
\* The shell names the account its requests are made for, whatever email was
\* typed, remembered or signed in before, unless an answer came without its body
\* (api.ts:55); and the login screen is shown only
\* after a 401 or a sign-out ("we don't masquerade a blip as signed out").
\* Behind it there is a session only if the logout was lost, which a reload then
\* brings back.  Other tabs share the cookie and are not noticed until a reload.
ShellTellsTruth ==
  /\ status = "authed" => shown = account \/ moved \/ torn
  /\ status = "anon" => /\ heard # ""
                        /\ account = Nobody \/ heard = "logout lost" \/ moved
=============================================================================
