------------------------------ MODULE MCClicks ------------------------------
(* Small instances of Clicks for TLC. *)
EXTENDS Clicks, TLC

CONSTANTS r1, r2, c1, c2, c3, c4

\* Two replicas can meet the two keys in opposite orders.
CrossedKeys == c1 :> "k1" @@ c2 :> "k2" @@ c3 :> "k2" @@ c4 :> "k1"

SomeKeys == [c \in Clicks |-> CrossedKeys[c]]
AnyReplica == [c \in Clicks |-> Replicas]
OwnReplica == [c \in Clicks |-> IF c \in {c1, c2} THEN {r1} ELSE {r2}]
Sym == Permutations(Replicas)
=============================================================================
