----------------------------- MODULE ClickLedger -----------------------------
(***************************************************************************)
(* What click analytics promises about the clicks it counts, without        *)
(* saying how they are queued, batched or written, or by how many          *)
(* processes.  A click is served once and then open, until it is booked or *)
(* dropped, for good.  Clicks are booked in batches, all of a batch or     *)
(* none, and in the same step the rollup grows by them.                    *)
(***************************************************************************)
EXTENDS Naturals, FiniteSets

CONSTANTS Clicks, Keys, KeyOf

VARIABLES
  served,   \* clicks that happened
  open,     \* those whose fate is not decided
  booked,   \* those that count
  rollup    \* key -> clicks that count under it

Init ==
  /\ served = {} /\ open = {} /\ booked = {}
  /\ rollup = [k \in Keys |-> 0]

Serve(c) ==
  /\ c \notin served
  /\ served' = served \cup {c}
  /\ open' = open \cup {c}
  /\ UNCHANGED <<booked, rollup>>

Book(batch) ==
  /\ open' = open \ batch
  /\ booked' = booked \cup batch
  /\ rollup' = [k \in Keys |-> rollup[k] + Cardinality({c \in batch : KeyOf[c] = k})]
  /\ UNCHANGED served

Drop(batch) ==
  /\ open' = open \ batch
  /\ UNCHANGED <<served, booked, rollup>>

Next ==
  \/ \E c \in Clicks : Serve(c)
  \/ \E batch \in SUBSET open : Book(batch) \/ Drop(batch)

Spec == Init /\ [][Next]_<<served, open, booked, rollup>>
=============================================================================
