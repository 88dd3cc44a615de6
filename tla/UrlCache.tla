------------------------------ MODULE UrlCache ------------------------------
(***************************************************************************)
(* The Redis layer of the redirect hot path (app/src/cache.ts): the one    *)
(* key klipo:url:{code} of a short code.  It holds a destination, or a     *)
(* tombstone, or nothing.                                                  *)
(*                                                                         *)
(* Time is not counted: KeyExpires is enabled whenever a value in          *)
(* Expiring is held, so the TTLs (60 s for a tombstone, REDIS_URL_TTL for  *)
(* a destination) may run out between any two steps of a slow request.     *)
(***************************************************************************)
CONSTANTS
  Urls,       \* destinations
  Expiring    \* the values whose TTL may run out during a run

Tombstones == {"EXPIRED", "DELETED", "NOT_FOUND", "DISABLED"}
Absent == "absent"
CacheValues == Urls \cup Tombstones \cup {Absent}

\* A destination starts with http:// or https:// and is never a marker.
ASSUME UrlsAssumption ==
  /\ Urls \cap (Tombstones \cup {Absent}) = {}
  /\ Expiring \subseteq CacheValues

VARIABLES
  cache,      \* the value of the key
  origin      \* history: the id of the link the value was written for, or 0

cacheVars == <<cache, origin>>

-----------------------------------------------------------------------------
\* The Lua script SET_URL_UNLESS_DISABLED: a destination never replaces the
\* DISABLED marker.
SetCachedUrl(url, id) ==
  IF cache = "DISABLED" THEN UNCHANGED cacheVars
                        ELSE cache' = url /\ origin' = id

\* setTombstone: an unconditional SET, whatever the key holds.
SetTombstone(type, id) == cache' = type /\ origin' = id

InvalidateCachedUrl == cache' = Absent /\ origin' = 0

\* A pending write of a request: a destination, a tombstone, or DEL (Absent).
CacheWrite(value, id) ==
  CASE value \in Urls       -> SetCachedUrl(value, id)
    [] value \in Tombstones -> SetTombstone(value, id)
    [] OTHER                -> InvalidateCachedUrl

\* The TTL of the key runs out.
KeyExpires ==
  /\ cache # Absent
  /\ cache \in Expiring
  /\ InvalidateCachedUrl
=============================================================================
