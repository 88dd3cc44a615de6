------------------------------ MODULE MCLinks ------------------------------
(* Small instances of Links for TLC. *)
EXTENDS Links, TLC

CONSTANTS r1, r2, r3, u1, u2, alice, bob

PublicForm == [url |-> u1, expiresAt |-> Never,
               private |-> FALSE, prefer301 |-> FALSE]

OneForm == {PublicForm}
ExpiringForm == {[PublicForm EXCEPT !.expiresAt = 1]}

\* A new destination, analytics off.
TwoBodies == {[KeepAll EXCEPT !.url = u2], [KeepAll EXCEPT !.prefer301 = TRUE]}

\* A new destination, privacy, no expiry.
ThreeBodies ==
  {[KeepAll EXCEPT !.url = u2], [KeepAll EXCEPT !.private = TRUE],
   [KeepAll EXCEPT !.expiresAt = Never]}

AllValues == CacheValues
NoValues == {}
Sym == Permutations(Requests) \cup Permutations(Users)
=============================================================================
