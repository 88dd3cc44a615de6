--------------------------- MODULE LinkOwnership ---------------------------
(***************************************************************************)
(* What the service promises about who owns a link, without saying how a   *)
(* link is stored, cached or addressed.  A link is born owned or           *)
(* anonymous; an anonymous link may be claimed once; a claim is for good;  *)
(* only a link that has an owner can be deleted, and an id that was        *)
(* deleted never comes back.                                               *)
(***************************************************************************)
CONSTANTS Ids, Users, Anon

Unborn == "unborn"
Gone == "gone"

VARIABLE owner   \* owner[id]: Unborn, Anon, a user, or Gone

Init == owner = [id \in Ids |-> Unborn]

Become(id, was, is) ==
  /\ owner[id] \in was
  /\ \E o \in is : owner' = [owner EXCEPT ![id] = o]

Create(id) == Become(id, {Unborn}, Users \cup {Anon})
ClaimOnce(id) == Become(id, {Anon}, Users)
Delete(id) == Become(id, Users, {Gone})

Next == \E id \in Ids : Create(id) \/ ClaimOnce(id) \/ Delete(id)

Spec == Init /\ [][Next]_owner
=============================================================================
