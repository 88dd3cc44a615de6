------------------------------ MODULE IdSource ------------------------------
(***************************************************************************)
(* What every backend promises of the id a creation draws: it is the id of *)
(* no link, and no other creation holds it.  Ids implements this until an  *)
(* incident, after which nothing is promised.                              *)
(***************************************************************************)
CONSTANTS
  Holders,   \* who may hold an id
  NoId

VARIABLES
  held,      \* holder -> the id its creation has drawn and not yet stored
  links,     \* the ids links have
  void       \* the promise is off

sourceVars == <<held, links, void>>

Init ==
  /\ held = [h \in Holders |-> NoId]
  /\ void = FALSE

\* An id that is in use nowhere.
Draw(h) ==
  /\ held[h] = NoId /\ held'[h] # NoId
  /\ held'[h] \notin links /\ \A other \in Holders : held'[h] # held[other]
  /\ held' = [held EXCEPT ![h] = held'[h]]
  /\ UNCHANGED <<links, void>>

LetGo(h) == held[h] # NoId /\ held' = [held EXCEPT ![h] = NoId]

Store(h) == LetGo(h) /\ links' = links \cup {held[h]} /\ UNCHANGED void
Burn(h) == LetGo(h) /\ UNCHANGED <<links, void>>

Delete(id) == id \in links /\ links' = links \ {id} /\ UNCHANGED <<held, void>>

Next ==
  \/ \E h \in Holders : Draw(h) \/ Store(h) \/ Burn(h)
  \/ \E id \in links : Delete(id)
  \/ void'

Spec == Init /\ [][Next]_sourceVars

\* No two creations hold the same id, and none holds an id of a link: what makes
\* "link_id uniquely identifies one row" (ShortenLinkUseCase.ts) true.
Unshared ==
  void \/ \A h \in Holders : held[h] # NoId =>
            /\ held[h] \notin links
            /\ \A other \in Holders \ {h} : held[other] # held[h]
=============================================================================
