---------------------------- MODULE LinksProofs ----------------------------
(***************************************************************************)
(* Theorems about Links, for any number of requests, users, destinations   *)
(* and links: TLC checks the same formulas on the instances of MCLinks.    *)
(***************************************************************************)
EXTENDS Links, FiniteSetTheorems, TLAPS

\* What a request carries over an await has the shape its next step relies on.
Fits(state) ==
  /\ state.pc \in {"row", "validate", "update", "delete", "flag", "mark"}
       => state.id \in Ids
  /\ state.pc = "mark" => state.left \in 1..3
  /\ state.pc \in {"insert", "update", "validate"} => state.copy \in LinkRows
  /\ state.pc = "validate" => state.body.url \in Urls

CarriedOK == \A r \in Requests : Fits(req[r])

TypeInv == TypeOK /\ CarriedOK

\* The values a handler starts from are of the right type.
LEMMA IdleType == Idle \in RequestStates
  BY LinksAssumption DEF Idle, RequestStates, Steps, PatchSet, KeepAll,
     CacheValues, Absent

\* PATCH applied to a row gives a row.
LEMMA PatchedType ==
  ASSUME NEW row \in LinkRows, NEW body \in PatchSet
  PROVE  Patched(row, body) \in LinkRows
  BY LinksAssumption DEF Patched, NewOr, LinkRows, PatchSet

\* A cache write leaves a value the key may hold.
LEMMA CacheWriteType ==
  ASSUME TypeOK, NEW value \in CacheValues, NEW id \in Ids \cup {0},
         CacheWrite(value, id)
  PROVE  /\ cache' \in CacheValues
         /\ origin' \in Ids \cup {0}
  BY UrlsAssumption DEF TypeOK, CacheWrite, SetCachedUrl, SetTombstone,
     InvalidateCachedUrl, CacheValues, Tombstones, Absent, cacheVars

-----------------------------------------------------------------------------
(* Type correctness.                                                       *)

LEMMA TypeInit == Init => TypeInv
<1> SUFFICES ASSUME Init PROVE TypeInv
  OBVIOUS
<1>1. TypeOK
  BY IdleType, LinksAssumption
  DEF Init, TypeOK, CacheValues, Times, Ids
<1>2. CarriedOK
  BY DEF Init, CarriedOK, Fits, Idle
<1> QED
  BY <1>1, <1>2 DEF TypeInv

\* A step that gives one request a well-formed state keeps all well-formed.
LEMMA ReqStep ==
  ASSUME TypeInv, NEW r \in Requests, NEW state \in RequestStates, Fits(state),
         req' = [req EXCEPT ![r] = state]
  PROVE  req' \in [Requests -> RequestStates] /\ CarriedOK'
  BY DEF TypeInv, TypeOK, CarriedOK, Fits

LEMMA IdleFits == Fits(Idle)
  BY DEF Fits, Idle

LEMMA FinishStep ==
  ASSUME TypeInv, NEW r \in Requests, Finish(r)
  PROVE  req' \in [Requests -> RequestStates] /\ CarriedOK'
  BY ReqStep, IdleType, IdleFits DEF Finish

LEMMA TypeNext == TypeInv /\ [Next]_vars => TypeInv'
<1> SUFFICES ASSUME TypeInv, [Next]_vars PROVE TypeInv'
  OBVIOUS
<1> USE DEF TypeInv
<1>1. ASSUME NEW r \in Requests, NEW user \in Users \cup {Anon},
             NEW form \in Forms, ShortenValidate(r, user, form)
      PROVE  TypeInv'
  <2> DEFINE row == [owner |-> user, url |-> form.url,
                     expiresAt |-> form.expiresAt, private |-> form.private,
                     prefer301 |-> form.prefer301, disabled |-> FALSE]
             state == [Idle EXCEPT !.pc = "insert", !.user = user, !.copy = row]
  <2>1. form \in FormSet
    BY LinksAssumption
  <2>2. row \in LinkRows
    BY <2>1 DEF LinkRows, FormSet
  <2>3. state \in RequestStates /\ Fits(state)
    <3> HIDE DEF row
    <3> QED
      BY <2>2, IdleType DEF RequestStates, Steps, Fits, Idle
  <2>4. req' = [req EXCEPT ![r] = state]
    BY <1>1 DEF ShortenValidate, Begin
  <2>5. req' \in [Requests -> RequestStates] /\ CarriedOK'
    <3> HIDE DEF state
    <3> QED
      BY <2>3, <2>4, ReqStep
  <2> QED
    BY <1>1, <2>1, <2>5
    DEF ShortenValidate, TypeOK, FormSet, cacheVars, dbVars
<1>2. ASSUME NEW r \in Requests, ShortenInsert(r) PROVE TypeInv'
  <2> DEFINE row == req[r].copy
             id == lastId + 1
             state == [Idle EXCEPT !.pc = "fill", !.id = id, !.write = row.url]
  <2>1. row \in LinkRows /\ id \in Ids
    BY <1>2, LinksAssumption DEF ShortenInsert, TypeOK, CarriedOK, Fits, Ids
  <2>2. state \in RequestStates /\ Fits(state)
    BY <2>1, IdleType
    DEF RequestStates, Steps, Fits, Idle, LinkRows, CacheValues
  <2>3. req' \in [Requests -> RequestStates] /\ CarriedOK'
    BY <1>2, <2>2, ReqStep, FinishStep DEF ShortenInsert, Proceed
  <2>4. exposed' \in [Ids -> SUBSET Urls]
    BY <1>2, <2>1 DEF ShortenInsert, Expose, TypeOK, LinkRows
  <2> QED
    BY <1>2, <2>1, <2>3, <2>4 DEF ShortenInsert, TypeOK, cacheVars
<1>3. ASSUME NEW r \in Requests,
             ShortenConflict(r) \/ Abandon(r) \/ RedirectLookup(r)
               \/ DisableMarkFails(r),
             req' \in [Requests -> RequestStates], CarriedOK'
      PROVE  TypeInv'
  BY <1>3 DEF ShortenConflict, Abandon, RedirectLookup, DisableMarkFails,
     TypeOK, cacheVars, dbVars, historyVars
<1>4. ASSUME NEW r \in Requests, ShortenConflict(r) \/ Abandon(r)
      PROVE  TypeInv'
  BY <1>3, <1>4, FinishStep DEF ShortenConflict, Abandon
<1>5. ASSUME NEW r \in Requests, NEW user \in Users \cup {Anon},
             RedirectMiss(r, user)
      PROVE  TypeInv'
  <2> DEFINE state == [Idle EXCEPT !.pc = "lookup", !.user = user]
  <2>1. state \in RequestStates /\ Fits(state)
    BY IdleType DEF RequestStates, Steps, Fits, Idle
  <2>2. req' \in [Requests -> RequestStates] /\ CarriedOK'
    <3> HIDE DEF state
    <3> QED
      BY <1>5, <2>1, ReqStep DEF RedirectMiss, Begin, state
  <2> QED
    BY <1>5, <2>2 DEF RedirectMiss, TypeOK, cacheVars, dbVars, historyVars
<1>6. ASSUME NEW r \in Requests, RedirectLookup(r) PROVE TypeInv'
  <2> DEFINE miss == [Idle EXCEPT !.pc = "fill", !.write = "NOT_FOUND"]
             hit  == [req[r] EXCEPT !.pc = "row", !.id = lookup]
  <2>1. miss \in RequestStates /\ Fits(miss)
    BY IdleType
    DEF RequestStates, Steps, Fits, Idle, CacheValues, Tombstones
  <2>2. lookup # 0 => hit \in RequestStates /\ Fits(hit)
    BY DEF TypeOK, RequestStates, Steps, Fits
  <2>3. req' \in [Requests -> RequestStates] /\ CarriedOK'
    <3> HIDE DEF miss, hit
    <3>1. CASE lookup = 0
      BY <1>6, <2>1, <3>1, ReqStep DEF RedirectLookup, Proceed, miss
    <3>2. CASE lookup # 0
      BY <1>6, <2>2, <3>2, ReqStep DEF RedirectLookup, Proceed, hit
    <3> QED
      BY <3>1, <3>2
  <2> QED
    BY <1>3, <1>6, <2>3
<1>7. ASSUME NEW r \in Requests, RedirectRow(r) PROVE TypeInv'
  <2> DEFINE writes == RedirectWrite(links[req[r].id], req[r].user)
             fill(w) == [Idle EXCEPT !.pc = "fill", !.id = req[r].id,
                                     !.write = w]
  <2>1. req[r].id \in Ids /\ links[req[r].id] \in LinkRows \cup {NoRow}
    BY <1>7 DEF RedirectRow, TypeOK, CarriedOK, Fits, RequestStates
  <2>2. writes \subseteq CacheValues
    BY <2>1 DEF RedirectWrite, CacheValues, Tombstones, LinkRows
  <2>3. ASSUME NEW w \in CacheValues
        PROVE  fill(w) \in RequestStates /\ Fits(fill(w))
    BY <2>1, IdleType DEF RequestStates, Steps, Fits, Idle
  <2>4. req' \in [Requests -> RequestStates] /\ CarriedOK'
    <3>1. CASE Finish(r)
      BY <3>1, FinishStep
    <3>2. CASE \E w \in writes : Proceed(r, fill(w))
      <4>1. PICK w \in writes : Proceed(r, fill(w))
        BY <3>2
      <4>2. fill(w) \in RequestStates /\ Fits(fill(w))
        BY <2>2, <2>3
      <4> HIDE DEF fill
      <4> QED
        BY <4>1, <4>2, ReqStep DEF Proceed
    <3> QED
      BY <1>7, <3>1, <3>2 DEF RedirectRow
  <2> QED
    BY <1>7, <2>4 DEF RedirectRow, TypeOK, cacheVars, dbVars, historyVars
<1>8. ASSUME NEW r \in Requests, Fill(r) \/ Publish(r) PROVE TypeInv'
  <2>1. req' \in [Requests -> RequestStates] /\ CarriedOK'
    BY <1>8, FinishStep DEF Fill, Publish
  <2>2. cache' \in CacheValues /\ origin' \in Ids \cup {0}
    BY <1>8, CacheWriteType DEF Fill, Publish, TypeOK, RequestStates
  <2> QED
    BY <1>8, <2>1, <2>2 DEF Fill, Publish, TypeOK, dbVars, historyVars
<1>9. ASSUME NEW r \in Requests, NEW user \in Users, NEW body \in Bodies,
             PatchResolve(r, user, body)
      PROVE  TypeInv'
  <2> DEFINE step == IF body.url = Keep THEN "update" ELSE "validate"
             state == [Idle EXCEPT !.pc = step, !.user = user, !.id = lookup,
                                   !.copy = links[lookup], !.body = body]
  <2>1. lookup \in Ids /\ links[lookup] \in LinkRows /\ body \in PatchSet
    BY <1>9, LinksAssumption DEF PatchResolve, Owns, TypeOK
  <2>2. step \in Steps /\ step \in {"update", "validate"}
    BY DEF Steps
  <2>3. step = "validate" => body.url \in Urls
    BY <2>1 DEF PatchSet
  <2>4. state \in RequestStates /\ Fits(state)
    <3> HIDE DEF step
    <3> QED
      BY <2>1, <2>2, <2>3, IdleType DEF RequestStates, Fits, Idle
  <2>5. req' \in [Requests -> RequestStates] /\ CarriedOK'
    <3>1. req' = [req EXCEPT ![r] = state]
      BY <1>9 DEF PatchResolve, Begin
    <3> HIDE DEF state
    <3> QED
      BY <2>4, <3>1, ReqStep
  <2> QED
    BY <1>9, <2>5 DEF PatchResolve, TypeOK, cacheVars, dbVars, historyVars
<1>10. ASSUME NEW r \in Requests, PatchValidate(r) PROVE TypeInv'
  <2> DEFINE state == [req[r] EXCEPT !.pc = "update"]
  <2>1. state \in RequestStates /\ Fits(state) /\ req[r].body.url \in Urls
    BY <1>10 DEF PatchValidate, TypeOK, CarriedOK, RequestStates, Steps, Fits
  <2>2. req' \in [Requests -> RequestStates] /\ CarriedOK'
    <3> HIDE DEF state
    <3> QED
      BY <1>10, <2>1, ReqStep DEF PatchValidate, Proceed, state
  <2> QED
    BY <1>10, <2>1, <2>2 DEF PatchValidate, TypeOK, cacheVars, dbVars
<1>11. ASSUME NEW r \in Requests, PatchUpdate(r) PROVE TypeInv'
  <2> DEFINE id == req[r].id
             body == req[r].body
             write == PatchWrite(Patched(req[r].copy, body))
             state == [Idle EXCEPT !.pc = "publish", !.id = id,
                                   !.write = write]
  <2>1. id \in Ids /\ body \in PatchSet /\ req[r].copy \in LinkRows
    BY <1>11 DEF PatchUpdate, TypeOK, CarriedOK, Fits, RequestStates
  <2>2. write \in CacheValues
    <3>1. Patched(req[r].copy, body) \in LinkRows
      BY <2>1, PatchedType
    <3> QED
      BY <3>1 DEF PatchWrite, LinkRows, CacheValues, Tombstones
  <2>3. state \in RequestStates /\ Fits(state)
    <3> HIDE DEF write
    <3> QED
      BY <2>1, <2>2, IdleType DEF RequestStates, Steps, Fits, Idle
  <2>4. req' \in [Requests -> RequestStates] /\ CarriedOK'
    <3>1. req' = [req EXCEPT ![r] = state]
      BY <1>11 DEF PatchUpdate, Proceed
    <3> HIDE DEF state
    <3> QED
      BY <2>3, <3>1, ReqStep
  <2>5. /\ links' \in [Ids -> LinkRows \cup {NoRow}]
        /\ exposed' \in [Ids -> SUBSET Urls]
    <3>1. CASE links[id] = NoRow
      BY <1>11, <3>1 DEF PatchUpdate, TypeOK
    <3>2. CASE links[id] # NoRow
      <4>1. Patched(links[id], body) \in LinkRows
        BY <2>1, <3>2, PatchedType DEF TypeOK
      <4>2. /\ links' = [links EXCEPT ![id] = Patched(links[id], body)]
            /\ Expose(id, Patched(links[id], body))
        BY <1>11, <3>2 DEF PatchUpdate
      <4>3. Patched(links[id], body).url \in Urls
        BY <4>1 DEF LinkRows
      <4> QED
        BY <2>1, <4>1, <4>2, <4>3 DEF TypeOK, Expose
    <3> QED
      BY <3>1, <3>2
  <2> QED
    BY <1>11, <2>4, <2>5 DEF PatchUpdate, TypeOK, cacheVars
<1>12. ASSUME NEW r \in Requests, NEW user \in Users, DeleteResolve(r, user)
       PROVE  TypeInv'
  <2> DEFINE state == [Idle EXCEPT !.pc = "delete", !.user = user,
                                   !.id = lookup]
  <2>1. state \in RequestStates /\ Fits(state)
    BY <1>12, IdleType
    DEF DeleteResolve, Owns, TypeOK, RequestStates, Steps, Fits, Idle
  <2>2. req' \in [Requests -> RequestStates] /\ CarriedOK'
    <3> HIDE DEF state
    <3> QED
      BY <1>12, <2>1, ReqStep DEF DeleteResolve, Begin, state
  <2> QED
    BY <1>12, <2>2 DEF DeleteResolve, TypeOK, cacheVars, dbVars, historyVars
<1>13. ASSUME NEW r \in Requests, DeleteCommit(r) PROVE TypeInv'
  <2> DEFINE state == [Idle EXCEPT !.pc = "publish", !.id = req[r].id,
                                   !.write = "DELETED"]
  <2>1. req[r].id \in Ids
    BY <1>13 DEF DeleteCommit, CarriedOK, Fits
  <2>2. state \in RequestStates /\ Fits(state)
    BY <2>1, IdleType
    DEF RequestStates, Steps, Fits, Idle, CacheValues, Tombstones
  <2>3. req' \in [Requests -> RequestStates] /\ CarriedOK'
    <3> HIDE DEF state
    <3> QED
      BY <1>13, <2>2, ReqStep DEF DeleteCommit, Proceed, state
  <2> QED
    BY <1>13, <2>1, <2>3 DEF DeleteCommit, TypeOK, cacheVars, historyVars
<1>14. ASSUME NEW user \in Users, Claim(user) PROVE TypeInv'
  <2>1. links' \in [Ids -> LinkRows \cup {NoRow}]
    BY <1>14 DEF Claim, TypeOK, LinkRows
  <2> QED
    BY <1>14, <2>1 DEF Claim, TypeOK, CarriedOK, cacheVars, historyVars
<1>15. ASSUME NEW r \in Requests, DisableLookup(r) PROVE TypeInv'
  <2> DEFINE state == [Idle EXCEPT !.pc = "flag", !.id = lookup]
  <2>1. state \in RequestStates /\ Fits(state)
    BY <1>15, IdleType
    DEF DisableLookup, TypeOK, RequestStates, Steps, Fits, Idle
  <2>2. req' \in [Requests -> RequestStates] /\ CarriedOK'
    <3> HIDE DEF state
    <3> QED
      BY <1>15, <2>1, ReqStep DEF DisableLookup, Begin, state
  <2> QED
    BY <1>15, <2>2 DEF DisableLookup, TypeOK, cacheVars, dbVars, historyVars
<1>16. ASSUME NEW r \in Requests, DisableFlag(r) PROVE TypeInv'
  <2> DEFINE state == [req[r] EXCEPT !.pc = "mark", !.left = 3]
  <2>0. req[r].id \in Ids /\ req[r] \in RequestStates
    BY <1>16 DEF DisableFlag, TypeOK, CarriedOK, Fits
  <2>1. state \in RequestStates /\ Fits(state) /\ req[r].id \in Ids
    <3>1. 3 \in 0..3 /\ 3 \in 1..3 /\ "mark" \in Steps
      BY DEF Steps
    <3>2. state.pc = "mark" /\ state.left = 3 /\ state.id = req[r].id
      BY <2>0 DEF RequestStates
    <3>3. state \in RequestStates
      BY <2>0, <3>1 DEF RequestStates
    <3> QED
      BY <2>0, <3>1, <3>2, <3>3 DEF Fits
  <2>2. req' \in [Requests -> RequestStates] /\ CarriedOK'
    <3> HIDE DEF state
    <3> QED
      BY <1>16, <2>1, ReqStep DEF DisableFlag, Proceed, state
  <2>3. links' \in [Ids -> LinkRows \cup {NoRow}]
    BY <1>16, <2>1 DEF DisableFlag, TypeOK, LinkRows
  <2> QED
    BY <1>16, <2>2, <2>3 DEF DisableFlag, TypeOK, cacheVars, historyVars
<1>17. ASSUME NEW r \in Requests, DisableMark(r) PROVE TypeInv'
  <2>1. req[r].id \in Ids
    BY <1>17 DEF DisableMark, CarriedOK, Fits
  <2>2. req' \in [Requests -> RequestStates] /\ CarriedOK'
    BY <1>17, FinishStep DEF DisableMark
  <2> QED
    BY <1>17, <2>1, <2>2
    DEF DisableMark, SetTombstone, TypeOK, CacheValues, Tombstones, dbVars
<1>18. ASSUME NEW r \in Requests, DisableMarkFails(r) PROVE TypeInv'
  <2> DEFINE state == [req[r] EXCEPT !.left = @ - 1]
  <2>1. CASE req[r].left > 1
    <3>1. state \in RequestStates /\ Fits(state)
      BY <1>18, <2>1
      DEF DisableMarkFails, TypeOK, CarriedOK, RequestStates, Steps, Fits
    <3>2. req' = [req EXCEPT ![r] = state]
      BY <1>18, <2>1 DEF DisableMarkFails, Proceed
    <3> HIDE DEF state
    <3> QED
      BY <1>3, <1>18, <3>1, <3>2, ReqStep
  <2>2. CASE ~(req[r].left > 1)
    BY <1>3, <1>18, <2>2, FinishStep DEF DisableMarkFails
  <2> QED
    BY <2>1, <2>2
<1>19. ASSUME Tick PROVE TypeInv'
  BY <1>19, LinksAssumption
  DEF Tick, TypeOK, CarriedOK, Times, cacheVars, dbVars, historyVars
<1>20. ASSUME Expire PROVE TypeInv'
  BY <1>20
  DEF Expire, KeyExpires, InvalidateCachedUrl, TypeOK, CarriedOK, CacheValues,
      dbVars, historyVars
<1>21. CASE UNCHANGED vars
  BY <1>21 DEF vars, TypeOK, CarriedOK
<1>22. ASSUME NEW r \in Requests, Advance(r) PROVE TypeInv'
  BY <1>2, <1>4, <1>6, <1>7, <1>8, <1>10, <1>11, <1>13, <1>16, <1>17, <1>22
  DEF Advance
<1> QED
  BY <1>1, <1>4, <1>5, <1>9, <1>12, <1>14, <1>15, <1>18, <1>19, <1>20, <1>21,
     <1>22 DEF Next

\* The state keeps its types, and what a request carries fits its next step.
THEOREM TypeCorrect == Spec => []TypeOK
<1>1. Spec => []TypeInv
  BY TypeInit, TypeNext, PTL DEF Spec
<1> QED
  BY <1>1, PTL DEF TypeInv

-----------------------------------------------------------------------------
(* Ownership.  The check a PATCH or DELETE made on an earlier read is still *)
(* good when it is used, because no step changes the owner of an owned row. *)

\* The check a request's state rests on, against given rows.
Holds(state, rows, last) ==
  state.pc \in {"validate", "update", "delete"} =>
    /\ state.id \in 1..last
    /\ state.user \in Users
    /\ rows[state.id] # NoRow => rows[state.id].owner = state.user

OwnInv ==
  /\ \A r \in Requests : Holds(req[r], links, lastId)
  /\ \A id \in Ids : id > lastId => links[id] = NoRow
  /\ lookup <= lastId

\* The steps that change the database.
LEMMA DbStep ==
  ASSUME [Next]_vars
  PROVE  \/ UNCHANGED dbVars
         \/ \E r \in Requests : \/ ShortenInsert(r) \/ PatchUpdate(r)
                                \/ DeleteCommit(r) \/ DisableFlag(r)
         \/ \E user \in Users : Claim(user)
  BY DEF Next, Advance, ShortenValidate, ShortenConflict, RedirectMiss,
     RedirectLookup, RedirectRow, Fill, PatchResolve, PatchValidate,
     DeleteResolve, Publish, DisableLookup, DisableMark, DisableMarkFails,
     Abandon, Tick, Expire, vars, dbVars

\* A step keeps the owner of every owned row, and fills only the next id.
OwnersKept ==
  /\ lastId' \in {lastId, lastId + 1}
  /\ \A id \in Ids : links'[id] # NoRow =>
       \/ id = lastId + 1 /\ id = lastId'
       \/ /\ links[id] # NoRow
          /\ links[id].owner \in Users => links'[id].owner = links[id].owner

LEMMA OwnersKeptStep == TypeInv /\ [Next]_vars => OwnersKept
<1> SUFFICES ASSUME TypeInv, [Next]_vars PROVE OwnersKept
  OBVIOUS
<1> USE DEF TypeInv, OwnersKept
<1>1. CASE UNCHANGED dbVars
  BY <1>1 DEF dbVars, TypeOK
<1>2. ASSUME NEW r \in Requests, ShortenInsert(r) PROVE OwnersKept
  BY <1>2 DEF ShortenInsert, TypeOK, Ids
<1>3. ASSUME NEW r \in Requests, PatchUpdate(r) PROVE OwnersKept
  <2>1. ASSUME NEW row \in LinkRows, NEW body \in PatchSet
        PROVE  Patched(row, body).owner = row.owner
    BY DEF Patched, LinkRows
  <2>2. req[r].id \in Ids /\ req[r].body \in PatchSet
    BY <1>3 DEF PatchUpdate, TypeOK, CarriedOK, Fits, RequestStates
  <2> QED
    BY <1>3, <2>1, <2>2 DEF PatchUpdate, TypeOK
<1>4. ASSUME NEW r \in Requests, DeleteCommit(r) PROVE OwnersKept
  BY <1>4 DEF DeleteCommit, TypeOK
<1>5. ASSUME NEW r \in Requests, DisableFlag(r) PROVE OwnersKept
  BY <1>5 DEF DisableFlag, TypeOK, LinkRows
<1>6. ASSUME NEW user \in Users, Claim(user) PROVE OwnersKept
  BY <1>6, LinksAssumption DEF Claim, TypeOK, LinkRows
<1> QED
  BY <1>1, <1>2, <1>3, <1>4, <1>5, <1>6, DbStep

\* A request is left alone, or ends the step in a state whose check holds.
LEMMA ChecksMade ==
  TypeInv /\ OwnInv /\ [Next]_vars =>
    \A r \in Requests : req'[r] = req[r] \/ Holds(req'[r], links, lastId)
<1> SUFFICES ASSUME TypeInv, OwnInv, [Next]_vars, NEW r \in Requests
             PROVE  req'[r] = req[r] \/ Holds(req'[r], links, lastId)
  OBVIOUS
<1> USE DEF TypeInv, TypeOK
<1>1. Holds(Idle, links, lastId)
  BY DEF Holds, Idle
<1>2. ASSUME NEW q \in Requests, Finish(q)
      PROVE  req'[r] = req[r] \/ Holds(req'[r], links, lastId)
  BY <1>1, <1>2 DEF Finish
<1>3. ASSUME NEW q \in Requests, NEW user \in Users, NEW body \in Bodies,
             PatchResolve(q, user, body)
      PROVE  req'[r] = req[r] \/ Holds(req'[r], links, lastId)
  <2>1. lookup \in 1..lastId /\ links[lookup].owner = user
    BY <1>3 DEF PatchResolve, Owns, OwnInv, Ids
  <2> QED
    BY <1>3, <2>1 DEF PatchResolve, Begin, Holds, Idle
<1>4. ASSUME NEW q \in Requests, NEW user \in Users, DeleteResolve(q, user)
      PROVE  req'[r] = req[r] \/ Holds(req'[r], links, lastId)
  <2>1. lookup \in 1..lastId /\ links[lookup].owner = user
    BY <1>4 DEF DeleteResolve, Owns, OwnInv, Ids
  <2> QED
    BY <1>4, <2>1 DEF DeleteResolve, Begin, Holds, Idle
<1>5. ASSUME NEW q \in Requests, PatchValidate(q)
      PROVE  req'[r] = req[r] \/ Holds(req'[r], links, lastId)
  <2>1. Holds(req[q], links, lastId)
    BY DEF OwnInv
  <2> QED
    BY <1>5, <2>1 DEF PatchValidate, Proceed, Holds, RequestStates
<1>6. ASSUME NEW q \in Requests, NEW state,
             state.pc \notin {"validate", "update", "delete"},
             req' = [req EXCEPT ![q] = state]
      PROVE  req'[r] = req[r] \/ Holds(req'[r], links, lastId)
  BY <1>6 DEF Holds
<1>7. ASSUME NEW q \in Requests, NEW user \in Users \cup {Anon},
             NEW form \in Forms, ShortenValidate(q, user, form)
      PROVE  req'[r] = req[r] \/ Holds(req'[r], links, lastId)
  <2> DEFINE state == [Idle EXCEPT
        !.pc = "insert", !.user = user,
        !.copy = [owner |-> user, url |-> form.url,
                  expiresAt |-> form.expiresAt, private |-> form.private,
                  prefer301 |-> form.prefer301, disabled |-> FALSE]]
  <2>1. state.pc = "insert"
    BY DEF Idle
  <2>2. req' = [req EXCEPT ![q] = state]
    BY <1>7 DEF ShortenValidate, Begin
  <2> HIDE DEF state
  <2> QED
    BY <1>6, <2>1, <2>2
<1>8. ASSUME NEW q \in Requests, NEW user \in Users \cup {Anon},
             RedirectMiss(q, user)
      PROVE  req'[r] = req[r] \/ Holds(req'[r], links, lastId)
  <2> DEFINE state == [Idle EXCEPT !.pc = "lookup", !.user = user]
  <2>1. state.pc = "lookup"
    BY DEF Idle
  <2>2. req' = [req EXCEPT ![q] = state]
    BY <1>8 DEF RedirectMiss, Begin
  <2> HIDE DEF state
  <2> QED
    BY <1>6, <2>1, <2>2
<1>9. ASSUME NEW q \in Requests, NEW step \in {"fill", "publish"},
             NEW id, NEW write,
             req' = [req EXCEPT ![q] =
                       [Idle EXCEPT !.pc = step, !.id = id, !.write = write]]
      PROVE  req'[r] = req[r] \/ Holds(req'[r], links, lastId)
  <2> DEFINE state == [Idle EXCEPT !.pc = step, !.id = id, !.write = write]
  <2>1. state.pc = step
    BY DEF Idle
  <2>2. req' = [req EXCEPT ![q] = state]
    BY <1>9
  <2> HIDE DEF state
  <2> QED
    BY <1>6, <2>1, <2>2
<1>10. ASSUME NEW q \in Requests, DisableLookup(q)
       PROVE  req'[r] = req[r] \/ Holds(req'[r], links, lastId)
  <2> DEFINE state == [Idle EXCEPT !.pc = "flag", !.id = lookup]
  <2>1. state.pc = "flag"
    BY DEF Idle
  <2>2. req' = [req EXCEPT ![q] = state]
    BY <1>10 DEF DisableLookup, Begin
  <2> HIDE DEF state
  <2> QED
    BY <1>6, <2>1, <2>2
<1>11. ASSUME NEW q \in Requests, ShortenInsert(q)
       PROVE  req'[r] = req[r] \/ Holds(req'[r], links, lastId)
  BY <1>2, <1>9, <1>11 DEF ShortenInsert, Proceed
<1>12. ASSUME NEW q \in Requests, RedirectLookup(q)
       PROVE  req'[r] = req[r] \/ Holds(req'[r], links, lastId)
  <2>1. CASE lookup = 0
    <3> DEFINE state == [Idle EXCEPT !.pc = "fill", !.write = "NOT_FOUND"]
    <3>1. state.pc = "fill"
      BY DEF Idle
    <3>2. req' = [req EXCEPT ![q] = state]
      BY <1>12, <2>1 DEF RedirectLookup, Proceed
    <3> HIDE DEF state
    <3> QED
      BY <1>6, <3>1, <3>2
  <2>2. CASE lookup # 0
    <3> DEFINE state == [req[q] EXCEPT !.pc = "row", !.id = lookup]
    <3>1. state.pc = "row"
      BY DEF RequestStates
    <3>2. req' = [req EXCEPT ![q] = state]
      BY <1>12, <2>2 DEF RedirectLookup, Proceed
    <3> HIDE DEF state
    <3> QED
      BY <1>6, <3>1, <3>2
  <2> QED
    BY <2>1, <2>2
<1>13. ASSUME NEW q \in Requests, RedirectRow(q)
       PROVE  req'[r] = req[r] \/ Holds(req'[r], links, lastId)
  BY <1>2, <1>9, <1>13 DEF RedirectRow, Proceed
<1>14. ASSUME NEW q \in Requests, PatchUpdate(q)
       PROVE  req'[r] = req[r] \/ Holds(req'[r], links, lastId)
  BY <1>9, <1>14 DEF PatchUpdate, Proceed
<1>15. ASSUME NEW q \in Requests, DeleteCommit(q)
       PROVE  req'[r] = req[r] \/ Holds(req'[r], links, lastId)
  BY <1>9, <1>15 DEF DeleteCommit, Proceed
<1>16. ASSUME NEW q \in Requests, DisableFlag(q)
       PROVE  req'[r] = req[r] \/ Holds(req'[r], links, lastId)
  <2> DEFINE state == [req[q] EXCEPT !.pc = "mark", !.left = 3]
  <2>1. state.pc = "mark"
    BY DEF RequestStates
  <2>2. req' = [req EXCEPT ![q] = state]
    BY <1>16 DEF DisableFlag, Proceed
  <2> HIDE DEF state
  <2> QED
    BY <1>6, <2>1, <2>2
<1>17. ASSUME NEW q \in Requests, DisableMarkFails(q)
       PROVE  req'[r] = req[r] \/ Holds(req'[r], links, lastId)
  <2> DEFINE state == [req[q] EXCEPT !.left = @ - 1]
  <2>1. state.pc = "mark"
    BY <1>17 DEF DisableMarkFails, RequestStates
  <2>2. Finish(q) \/ req' = [req EXCEPT ![q] = state]
    BY <1>17 DEF DisableMarkFails, Proceed
  <2> HIDE DEF state
  <2> QED
    BY <1>2, <1>6, <2>1, <2>2
<1>18. ASSUME NEW q \in Requests,
              \/ ShortenConflict(q) \/ Fill(q) \/ Publish(q) \/ DisableMark(q)
              \/ Abandon(q)
       PROVE  req'[r] = req[r] \/ Holds(req'[r], links, lastId)
  BY <1>2, <1>18 DEF ShortenConflict, Fill, Publish, DisableMark, Abandon
<1>19. ASSUME Tick \/ Expire \/ (\E user \in Users : Claim(user))
               \/ UNCHANGED vars
       PROVE  UNCHANGED req
  BY <1>19 DEF Tick, Expire, Claim, vars
<1> QED
  BY <1>3, <1>4, <1>5, <1>7, <1>8, <1>10, <1>11, <1>12, <1>13, <1>14, <1>15,
     <1>16, <1>17, <1>18, <1>19
  DEF Next, Advance

LEMMA OwnInit == Init => OwnInv
  BY LinksAssumption DEF Init, OwnInv, Holds, Idle

LEMMA OwnNext == TypeInv /\ TypeInv' /\ OwnInv /\ [Next]_vars => OwnInv'
<1> SUFFICES ASSUME TypeInv, TypeInv', OwnInv, [Next]_vars PROVE OwnInv'
  OBVIOUS
<1>1. OwnersKept
  BY OwnersKeptStep
<1>2. \A id \in Ids : id > lastId' => links'[id] = NoRow
  BY <1>1 DEF OwnersKept, OwnInv, TypeInv, TypeOK, Ids
<1>3. lookup' <= lastId'
  <2>1. lookup' = lookup \/ lookup' = 0 \/ lookup' = lastId'
    BY DbStep DEF ShortenInsert, PatchUpdate, DeleteCommit, DisableFlag, Claim,
       dbVars
  <2> QED
    BY <1>1, <2>1, LinksAssumption
    DEF OwnersKept, OwnInv, TypeInv, TypeOK, Ids
<1>4. ASSUME NEW r \in Requests PROVE Holds(req'[r], links', lastId')
  <2>1. Holds(req'[r], links, lastId)
    BY ChecksMade DEF OwnInv
  <2>2. req'[r] \in RequestStates
    BY DEF TypeInv, TypeOK
  <2> QED
    BY <1>1, <2>1, <2>2, LinksAssumption
    DEF Holds, OwnersKept, TypeInv, TypeOK, Ids, RequestStates
<1> QED
  BY <1>2, <1>3, <1>4 DEF OwnInv

\* All of the above, along every behaviour.
LEMMA OwnCorrect == Spec => [](TypeInv /\ OwnInv)
<1>1. Init => TypeInv /\ OwnInv
  BY TypeInit, OwnInit
<1>2. TypeInv /\ OwnInv /\ [Next]_vars => (TypeInv /\ OwnInv)'
  BY TypeNext, OwnNext
<1> QED
  BY <1>1, <1>2, PTL DEF Spec

\* The ownership check of a PATCH or DELETE still holds when it is used.
THEOREM OwnershipChecked == Spec => []OwnedByRequester
<1>1. OwnInv => OwnedByRequester
  BY DEF OwnInv, Holds, OwnedByRequester, Live
<1> QED
  BY <1>1, OwnCorrect, PTL

\* Only a request of the row's owner edits or deletes it.
LEMMA OwnerEditsStep ==
  ASSUME TypeInv, OwnInv, [Next]_vars, NEW id \in Ids
  PROVE  /\ Deleted(id) => ActsFor(links[id].owner, {"delete"})
         /\ ~Deleted(id) /\ Edited(id) => ActsFor(links[id].owner, {"update"})
<1> USE DEF TypeInv, TypeOK, Live
<1>1. ASSUME NEW row \in LinkRows
      PROVE  row = [row EXCEPT !.owner = row.owner, !.disabled = row.disabled]
  BY DEF LinkRows
<1>2. CASE links'[id] = links[id]
  BY <1>1, <1>2 DEF Deleted, Edited
<1>3. CASE UNCHANGED dbVars
  BY <1>2, <1>3 DEF dbVars
<1>4. ASSUME NEW r \in Requests, ShortenInsert(r), links'[id] # links[id]
      PROVE  ~Live(id)
  BY <1>4 DEF ShortenInsert, OwnInv, Ids
<1>5. ASSUME NEW r \in Requests, req[r].pc \in {"update", "delete"}, Live(id),
             req[r].id = id
      PROVE  links[id].owner = req[r].user
  BY <1>5 DEF OwnInv, Holds
<1>6. ASSUME NEW r \in Requests, PatchUpdate(r), links'[id] # links[id],
             Live(id)
      PROVE  links'[id] # NoRow /\ ActsFor(links[id].owner, {"update"})
  <2>1. req[r].id = id /\ req[r].pc = "update"
    BY <1>6 DEF PatchUpdate
  <2>2. Patched(links[id], req[r].body) \in LinkRows
    BY <1>6, PatchedType DEF RequestStates
  <2>3. req'[r].pc = "publish"
    <3> DEFINE state == [Idle EXCEPT
          !.pc = "publish", !.id = req[r].id,
          !.write = PatchWrite(Patched(req[r].copy, req[r].body))]
    <3>1. state.pc = "publish"
      BY DEF Idle
    <3>2. req' = [req EXCEPT ![r] = state]
      BY <1>6 DEF PatchUpdate, Proceed
    <3> HIDE DEF state
    <3> QED
      BY <3>1, <3>2
  <2> QED
    BY <1>5, <1>6, <2>1, <2>2, <2>3, LinksAssumption DEF PatchUpdate, ActsFor
<1>7. ASSUME NEW r \in Requests, DeleteCommit(r), links'[id] # links[id],
             Live(id)
      PROVE  links'[id] = NoRow /\ ActsFor(links[id].owner, {"delete"})
  <2>1. req[r].id = id /\ req[r].pc = "delete" /\ links'[id] = NoRow
    BY <1>7 DEF DeleteCommit
  <2>2. req'[r].pc = "publish"
    <3> DEFINE state == [Idle EXCEPT !.pc = "publish", !.id = req[r].id,
                                     !.write = "DELETED"]
    <3>1. state.pc = "publish"
      BY DEF Idle
    <3>2. req' = [req EXCEPT ![r] = state]
      BY <1>7 DEF DeleteCommit, Proceed
    <3> HIDE DEF state
    <3> QED
      BY <3>1, <3>2
  <2> QED
    BY <1>5, <1>7, <2>1, <2>2 DEF ActsFor
<1>8. ASSUME NEW r \in Requests, DisableFlag(r), links'[id] # links[id],
             Live(id)
      PROVE  ~Deleted(id) /\ ~Edited(id)
  <2>1. links'[id] = [links[id] EXCEPT !.disabled = TRUE]
    BY <1>8 DEF DisableFlag
  <2> QED
    BY <1>8, <2>1, LinksAssumption DEF Deleted, Edited, LinkRows
<1>9. ASSUME NEW user \in Users, Claim(user), links'[id] # links[id], Live(id)
      PROVE  ~Deleted(id) /\ ~Edited(id)
  <2>1. links'[id] = [links[id] EXCEPT !.owner = user]
    BY <1>9 DEF Claim
  <2> QED
    BY <1>9, <2>1, LinksAssumption DEF Deleted, Edited, LinkRows
<1>10. Deleted(id) \/ Edited(id) => Live(id)
  BY DEF Deleted, Edited
<1>11. CASE links'[id] # links[id] /\ Live(id) /\ ~UNCHANGED dbVars
  BY <1>4, <1>6, <1>7, <1>8, <1>9, <1>11, DbStep DEF Deleted
<1> QED
  BY <1>2, <1>3, <1>10, <1>11

\* A link is edited or deleted only by a request of the user who owns it in
\* that step, for any number of requests, replicas and links.
THEOREM OnlyOwnerEditsHolds == Spec => OnlyOwnerEdits
<1>1. TypeInv /\ OwnInv /\ [Next]_vars =>
        [\A id \in Ids :
           /\ Deleted(id) => ActsFor(links[id].owner, {"delete"})
           /\ ~Deleted(id) /\ Edited(id)
                => ActsFor(links[id].owner, {"update"})]_vars
  BY OwnerEditsStep
<1> QED
  BY <1>1, OwnCorrect, PTL DEF Spec, OnlyOwnerEdits

-----------------------------------------------------------------------------
(* Links implements LinkOwnership.                                         *)

\* The owner the abstract specification sees, now.
OwnerOf(id) == IF id > lastId THEN "unborn"
               ELSE IF Live(id) THEN links[id].owner ELSE "gone"

OwnerMap == [id \in Ids |-> OwnerOf(id)]

\* Every step of the handlers is an ownership event or leaves ownership alone.
LEMMA OwnershipStep ==
  TypeInv /\ OwnInv /\ [Next]_vars =>
    \/ UNCHANGED OwnerMap
    \/ \E id \in Ids : \/ Ownership!Create(id) \/ Ownership!ClaimOnce(id)
                       \/ Ownership!Delete(id)
<1> SUFFICES ASSUME TypeInv, OwnInv, [Next]_vars
             PROVE  \/ UNCHANGED OwnerMap
                    \/ \E id \in Ids :
                         \/ Ownership!Create(id) \/ Ownership!ClaimOnce(id)
                         \/ Ownership!Delete(id)
  OBVIOUS
<1> USE DEF TypeInv, TypeOK, Live, OwnerMap, OwnerOf
<1>0. ASSUME lastId' = lastId,
             \A id \in Ids : \/ links'[id] = links[id]
                             \/ /\ links[id] # NoRow /\ links'[id] # NoRow
                                /\ links'[id].owner = links[id].owner
      PROVE  UNCHANGED OwnerMap
  BY <1>0
<1>00. ASSUME NEW i \in Ids, NEW o, OwnerOf(i)' = o,
              \A j \in Ids \ {i} : OwnerOf(j)' = OwnerOf(j)
       PROVE  OwnerMap' = [OwnerMap EXCEPT ![i] = o]
  <2> HIDE DEF OwnerOf
  <2> QED
    BY <1>00
<1>1. CASE UNCHANGED dbVars
  BY <1>0, <1>1 DEF dbVars
<1>2. ASSUME NEW r \in Requests, ShortenInsert(r)
      PROVE  \E i \in Ids : Ownership!Create(i)
  <2>0. PICK id \in Ids : id = lastId + 1
    BY <1>2, LinksAssumption DEF ShortenInsert, Ids
  <2>00. PICK row : row = req[r].copy
    OBVIOUS
  <2>1. row \in LinkRows /\ lastId' = id /\ links' = [links EXCEPT ![id] = row]
    BY <1>2, <2>0, <2>00 DEF ShortenInsert, CarriedOK, Fits
  <2>2. row.owner \in Users \cup {Anon} /\ row # NoRow
    BY <2>1, LinksAssumption DEF LinkRows
  <2>3. OwnerMap[id] = "unborn"
    BY <2>0 DEF Ids
  <2>4. OwnerMap' = [OwnerMap EXCEPT ![id] = row.owner]
    <3>1. OwnerOf(id)' = row.owner
      BY <2>1, <2>2 DEF Ids
    <3>2. \A j \in Ids \ {id} : OwnerOf(j)' = OwnerOf(j)
      BY <2>0, <2>1 DEF Ids
    <3> QED
      BY <1>00, <3>1, <3>2
  <2>5. Ownership!Create(id)
    BY <2>2, <2>3, <2>4
    DEF Ownership!Create, Ownership!Become, Ownership!Unborn
  <2> QED
    BY <2>5
<1>3. ASSUME NEW r \in Requests, PatchUpdate(r) PROVE UNCHANGED OwnerMap
  <2>1. ASSUME NEW row \in LinkRows, NEW body \in PatchSet
        PROVE  /\ Patched(row, body).owner = row.owner
               /\ Patched(row, body) # NoRow
    BY PatchedType, LinksAssumption DEF Patched, LinkRows
  <2>2. req[r].id \in Ids /\ req[r].body \in PatchSet
    BY <1>3 DEF PatchUpdate, CarriedOK, Fits, RequestStates
  <2> QED
    BY <1>0, <1>3, <2>1, <2>2 DEF PatchUpdate
<1>4. ASSUME NEW r \in Requests, DeleteCommit(r)
      PROVE  UNCHANGED OwnerMap \/ \E i \in Ids : Ownership!Delete(i)
  <2>0. PICK id \in Ids : id = req[r].id
    BY <1>4 DEF DeleteCommit, CarriedOK, Fits
  <2>1. /\ id <= lastId /\ req[r].user \in Users
        /\ links[id] # NoRow => links[id].owner = req[r].user
    BY <1>4, <2>0, LinksAssumption DEF DeleteCommit, OwnInv, Holds, Ids
  <2>2. lastId' = lastId /\ links' = [links EXCEPT ![id] = NoRow]
    BY <1>4, <2>0 DEF DeleteCommit
  <2>3. CASE links[id] = NoRow
    BY <1>0, <2>1, <2>2, <2>3
  <2>4. CASE links[id] # NoRow
    <3>1. OwnerMap[id] \in Users
      BY <2>1, <2>4 DEF Ids
    <3>2. OwnerMap' = [OwnerMap EXCEPT ![id] = "gone"]
      <4>1. OwnerOf(id)' = "gone"
        BY <2>1, <2>2 DEF Ids
      <4>2. \A j \in Ids \ {id} : OwnerOf(j)' = OwnerOf(j)
        BY <2>1, <2>2
      <4> QED
        BY <1>00, <2>1, <4>1, <4>2
    <3> QED
      BY <2>1, <3>1, <3>2
      DEF Ownership!Delete, Ownership!Become, Ownership!Gone
  <2> QED
    BY <2>3, <2>4
<1>5. ASSUME NEW r \in Requests, DisableFlag(r) PROVE UNCHANGED OwnerMap
  <2>1. req[r].id \in Ids
    BY <1>5 DEF DisableFlag, CarriedOK, Fits
  <2> QED
    BY <1>0, <1>5, <2>1, LinksAssumption DEF DisableFlag, LinkRows
<1>6. ASSUME NEW user \in Users, Claim(user)
      PROVE  \E i \in Ids : Ownership!ClaimOnce(i)
  <2>0. PICK id \in Ids : id = lookup
    BY <1>6 DEF Claim
  <2>1. /\ id <= lastId /\ links[id] \in LinkRows /\ links[id].owner = Anon
        /\ lastId' = lastId
        /\ links' = [links EXCEPT ![id] = [links[id] EXCEPT !.owner = user]]
    BY <1>6, <2>0 DEF Claim, OwnInv
  <2>2. /\ [links[id] EXCEPT !.owner = user] # NoRow
        /\ [links[id] EXCEPT !.owner = user].owner = user
    BY <2>1, LinksAssumption DEF LinkRows
  <2>3. OwnerMap[id] = Anon
    BY <2>1, LinksAssumption DEF Ids
  <2>4. OwnerMap' = [OwnerMap EXCEPT ![id] = user]
    <3>1. OwnerOf(id)' = user
      BY <2>1, <2>2 DEF Ids
    <3>2. \A j \in Ids \ {id} : OwnerOf(j)' = OwnerOf(j)
      BY <2>1
    <3> QED
      BY <1>00, <3>1, <3>2
  <2> QED
    BY <2>1, <2>3, <2>4 DEF Ownership!ClaimOnce, Ownership!Become
<1> QED
  BY <1>1, <1>2, <1>3, <1>4, <1>5, <1>6, DbStep

\* The database implements the ownership protocol: anonymous links are
\* claimed once and for good, only owned links are deleted, no id returns.
THEOREM ImplementsOwnership == Spec => OwnershipSpec
<1>1. Init => Ownership!Init
  BY LinksAssumption DEF Init, Ownership!Init, Ownership!Unborn, Ids
<1>2. TypeInv /\ OwnInv /\ [Next]_vars => [Ownership!Next]_OwnerMap
  BY OwnershipStep DEF Ownership!Next, OwnerMap, OwnerOf
<1> QED
  BY <1>1, <1>2, OwnCorrect, PTL
  DEF Spec, OwnershipSpec, Ownership!Spec, OwnerMap, OwnerOf

-----------------------------------------------------------------------------
(* The tables agree, and destinations are validated.                       *)

\* The code resolves to a link that is there, in every reachable state.
THEOREM LookupResolvesHolds == Spec => []LookupResolves
<1>1. Init => LookupResolves
  BY DEF Init, LookupResolves
<1>2. TypeInv /\ LookupResolves /\ [Next]_vars => LookupResolves'
  <2> SUFFICES ASSUME TypeInv, LookupResolves, [Next]_vars
               PROVE  LookupResolves'
    OBVIOUS
  <2> USE DEF TypeInv, TypeOK, CarriedOK, Fits, LookupResolves, Live
  <2>1. CASE UNCHANGED dbVars
    BY <2>1 DEF dbVars
  <2>2. ASSUME NEW r \in Requests, ShortenInsert(r) PROVE LookupResolves'
    <3>1. req[r].copy # NoRow /\ lastId + 1 \in Ids
      BY <2>2, LinksAssumption DEF ShortenInsert, Ids
    <3> QED
      BY <2>2, <3>1 DEF ShortenInsert
  <2>3. ASSUME NEW r \in Requests, PatchUpdate(r) PROVE LookupResolves'
    <3>1. req[r].body \in PatchSet /\ req[r].id \in Ids
      BY <2>3 DEF PatchUpdate, RequestStates
    <3>2. links[req[r].id] # NoRow
            => Patched(links[req[r].id], req[r].body) # NoRow
      BY <3>1, PatchedType, LinksAssumption
    <3> QED
      BY <2>3, <3>2 DEF PatchUpdate
  <2>4. ASSUME NEW r \in Requests, DeleteCommit(r) PROVE LookupResolves'
    BY <2>4 DEF DeleteCommit
  <2>5. ASSUME NEW r \in Requests, DisableFlag(r) PROVE LookupResolves'
    BY <2>5, LinksAssumption DEF DisableFlag, LinkRows
  <2>6. ASSUME NEW user \in Users, Claim(user) PROVE LookupResolves'
    BY <2>6, LinksAssumption DEF Claim, LinkRows
  <2> QED
    BY <2>1, <2>2, <2>3, <2>4, <2>5, <2>6, DbStep
<1> QED
  BY <1>1, <1>2, OwnCorrect, PTL DEF Spec

-----------------------------------------------------------------------------
(* validateUrl is on every path to the database and to the cache.          *)

\* The destinations a request carries over an await are validated already.
Checked(state, seen) ==
  /\ state.pc \in {"fill", "publish"} /\ state.write \in Urls
       => state.write \in seen
  /\ state.pc \in {"insert", "validate", "update"} => state.copy.url \in seen
  /\ state.pc = "update" /\ state.body.url # Keep => state.body.url \in seen

ValidInv ==
  /\ DestinationsValidated
  /\ \A r \in Requests : Checked(req[r], validated)

\* A step that gives one request a checked state keeps all checked.
LEMMA CheckedStep ==
  ASSUME TypeInv, ValidInv, validated \subseteq validated',
         NEW r \in Requests, NEW state, Checked(state, validated'),
         req' = [req EXCEPT ![r] = state]
  PROVE  \A q \in Requests : Checked(req'[q], validated')
<1>1. ASSUME NEW q \in Requests PROVE Checked(req[q], validated')
  BY DEF ValidInv, Checked
<1> QED
  BY <1>1 DEF TypeInv, TypeOK

\* PATCH gives a row a checked destination if its own and the body's are.
LEMMA PatchedUrl ==
  ASSUME NEW row \in LinkRows, NEW body \in PatchSet, NEW seen,
         row.url \in seen, body.url # Keep => body.url \in seen
  PROVE  /\ Patched(row, body).url \in seen
         /\ PatchWrite(Patched(row, body)) \in Urls
              => PatchWrite(Patched(row, body)) \in seen
<1>1. Patched(row, body).url = NewOr(body.url, row.url)
  BY DEF Patched, LinkRows
<1>2. Patched(row, body).url \in seen
  BY <1>1 DEF NewOr
<1> HIDE DEF Patched
<1> QED
  BY <1>2, UrlsAssumption DEF PatchWrite, Tombstones, Absent

LEMMA ValidNext == TypeInv /\ ValidInv /\ [Next]_vars => ValidInv'
<1> SUFFICES ASSUME TypeInv, ValidInv, [Next]_vars PROVE ValidInv'
  OBVIOUS
<1> USE DEF TypeInv, TypeOK, ValidInv, DestinationsValidated, Live
<1>1. Checked(Idle, validated')
  BY UrlsAssumption DEF Checked, Idle
<1>2. ASSUME NEW r \in Requests, Finish(r), validated' = validated
      PROVE  \A q \in Requests : Checked(req'[q], validated')
  BY <1>1, <1>2, CheckedStep DEF Finish
<1>3. ASSUME NEW r \in Requests, NEW state, Checked(state, validated'),
             req' = [req EXCEPT ![r] = state],
             UNCHANGED <<cacheVars, links, validated>>
      PROVE  ValidInv'
  BY <1>3, CheckedStep DEF cacheVars
<1>4. ASSUME NEW r \in Requests, NEW user \in Users \cup {Anon},
             NEW form \in Forms, ShortenValidate(r, user, form)
      PROVE  ValidInv'
  <2> DEFINE state == [Idle EXCEPT
        !.pc = "insert", !.user = user,
        !.copy = [owner |-> user, url |-> form.url,
                  expiresAt |-> form.expiresAt, private |-> form.private,
                  prefer301 |-> form.prefer301, disabled |-> FALSE]]
  <2>1. validated' = validated \cup {form.url}
    BY <1>4 DEF ShortenValidate
  <2>2. Checked(state, validated')
    BY <2>1 DEF Checked, Idle
  <2>3. req' = [req EXCEPT ![r] = state]
    BY <1>4 DEF ShortenValidate, Begin
  <2>4. \A q \in Requests : Checked(req'[q], validated')
    <3> HIDE DEF state
    <3> QED
      BY <2>1, <2>2, <2>3, CheckedStep
  <2> QED
    BY <1>4, <2>1, <2>4 DEF ShortenValidate, cacheVars, dbVars
<1>5. ASSUME NEW r \in Requests, ShortenInsert(r) PROVE ValidInv'
  <2> DEFINE row == req[r].copy
             state == [Idle EXCEPT !.pc = "fill", !.id = lastId + 1,
                                   !.write = row.url]
  <2>1. row.url \in validated /\ validated' = validated
    BY <1>5 DEF ShortenInsert, Checked
  <2>2. Checked(state, validated')
    BY <2>1 DEF Checked, Idle
  <2>3. Finish(r) \/ req' = [req EXCEPT ![r] = state]
    BY <1>5 DEF ShortenInsert, Proceed
  <2>4. \A q \in Requests : Checked(req'[q], validated')
    <3> HIDE DEF state
    <3> QED
      BY <1>2, <2>1, <2>2, <2>3, CheckedStep
  <2> QED
    BY <1>5, <2>1, <2>4 DEF ShortenInsert, cacheVars
<1>6. ASSUME NEW r \in Requests, ShortenConflict(r) \/ Abandon(r)
      PROVE  ValidInv'
  BY <1>2, <1>6 DEF ShortenConflict, Abandon, cacheVars, dbVars, historyVars
<1>7. ASSUME NEW r \in Requests, NEW user \in Users \cup {Anon},
             RedirectMiss(r, user)
      PROVE  ValidInv'
  <2> DEFINE state == [Idle EXCEPT !.pc = "lookup", !.user = user]
  <2>1. Checked(state, validated')
    BY DEF Checked, Idle
  <2> HIDE DEF state
  <2> QED
    BY <1>3, <1>7, <2>1
    DEF RedirectMiss, Begin, cacheVars, dbVars, historyVars, state
<1>8. ASSUME NEW r \in Requests, RedirectLookup(r) PROVE ValidInv'
  <2> DEFINE miss == [Idle EXCEPT !.pc = "fill", !.write = "NOT_FOUND"]
             hit  == [req[r] EXCEPT !.pc = "row", !.id = lookup]
  <2>1. Checked(miss, validated')
    BY UrlsAssumption DEF Checked, Idle, Tombstones
  <2>2. Checked(hit, validated')
    BY DEF Checked, RequestStates
  <2>3. req' = [req EXCEPT ![r] = miss] \/ req' = [req EXCEPT ![r] = hit]
    BY <1>8 DEF RedirectLookup, Proceed
  <2> HIDE DEF miss, hit
  <2> QED
    BY <1>3, <1>8, <2>1, <2>2, <2>3
    DEF RedirectLookup, cacheVars, dbVars, historyVars
<1>9. ASSUME NEW r \in Requests, RedirectRow(r) PROVE ValidInv'
  <2> DEFINE id == req[r].id
             fill(w) == [Idle EXCEPT !.pc = "fill", !.id = id, !.write = w]
  <2>1. id \in Ids
    BY <1>9 DEF RedirectRow, CarriedOK, Fits
  <2>2. ASSUME NEW w \in RedirectWrite(links[id], req[r].user)
        PROVE  Checked(fill(w), validated')
    <3>1. w \in Urls => links[id] # NoRow /\ w = links[id].url
      BY <2>2, UrlsAssumption DEF RedirectWrite, Tombstones
    <3>2. w \in Urls => w \in validated'
      BY <1>9, <2>1, <3>1 DEF RedirectRow, historyVars
    <3> QED
      BY <3>2 DEF Checked, Idle
  <2>3. \/ Finish(r)
        \/ \E w \in RedirectWrite(links[id], req[r].user) :
             req' = [req EXCEPT ![r] = fill(w)]
    BY <1>9 DEF RedirectRow, Proceed
  <2>4. CASE Finish(r)
    BY <1>2, <1>9, <2>4 DEF RedirectRow, cacheVars, dbVars, historyVars
  <2>5. CASE \E w \in RedirectWrite(links[id], req[r].user) :
               req' = [req EXCEPT ![r] = fill(w)]
    <3>1. PICK w \in RedirectWrite(links[id], req[r].user) :
            req' = [req EXCEPT ![r] = fill(w)]
      BY <2>5
    <3>2. Checked(fill(w), validated')
      BY <2>2
    <3> HIDE DEF fill
    <3> QED
      BY <1>3, <1>9, <3>1, <3>2
      DEF RedirectRow, cacheVars, dbVars, historyVars
  <2> QED
    BY <2>3, <2>4, <2>5
<1>10. ASSUME NEW r \in Requests, Fill(r) \/ Publish(r) PROVE ValidInv'
  <2>1. req[r].write \in Urls => req[r].write \in validated
    BY <1>10 DEF Fill, Publish, Checked
  <2>2. cache' \in Urls => cache' \in validated
    BY <1>10, <2>1, UrlsAssumption
    DEF Fill, Publish, CacheWrite, SetCachedUrl, SetTombstone,
        InvalidateCachedUrl, cacheVars, Tombstones, Absent
  <2> QED
    BY <1>2, <1>10, <2>2 DEF Fill, Publish, dbVars, historyVars
<1>11. ASSUME NEW r \in Requests, NEW user \in Users, NEW body \in Bodies,
              PatchResolve(r, user, body)
       PROVE  ValidInv'
  <2> DEFINE step == IF body.url = Keep THEN "update" ELSE "validate"
             state == [Idle EXCEPT !.pc = step, !.user = user, !.id = lookup,
                                   !.copy = links[lookup], !.body = body]
  <2>1. links[lookup].url \in validated'
    BY <1>11 DEF PatchResolve, Owns, historyVars
  <2>2. Checked(state, validated')
    BY <2>1 DEF Checked, Idle
  <2>3. req' = [req EXCEPT ![r] = state]
    BY <1>11 DEF PatchResolve, Begin
  <2> HIDE DEF state
  <2> QED
    BY <1>3, <1>11, <2>2, <2>3
    DEF PatchResolve, cacheVars, dbVars, historyVars
<1>12. ASSUME NEW r \in Requests, PatchValidate(r) PROVE ValidInv'
  <2> DEFINE state == [req[r] EXCEPT !.pc = "update"]
  <2>1. validated' = validated \cup {req[r].body.url}
    BY <1>12 DEF PatchValidate
  <2>2. Checked(state, validated')
    BY <1>12, <2>1 DEF PatchValidate, Checked, RequestStates
  <2>3. \A q \in Requests : Checked(req'[q], validated')
    <3> HIDE DEF state
    <3> QED
      BY <1>12, <2>1, <2>2, CheckedStep DEF PatchValidate, Proceed, state
  <2> QED
    BY <1>12, <2>1, <2>3 DEF PatchValidate, cacheVars, dbVars
<1>13. ASSUME NEW r \in Requests, PatchUpdate(r) PROVE ValidInv'
  <2> DEFINE id == req[r].id
             body == req[r].body
             write == PatchWrite(Patched(req[r].copy, body))
             state == [Idle EXCEPT !.pc = "publish", !.id = id,
                                   !.write = write]
  <2>1. /\ id \in Ids /\ body \in PatchSet /\ req[r].copy \in LinkRows
        /\ req[r].copy.url \in validated
        /\ body.url # Keep => body.url \in validated
    BY <1>13 DEF PatchUpdate, CarriedOK, Fits, RequestStates, Checked
  <2>2. write \in Urls => write \in validated
    BY <2>1, PatchedUrl
  <2>3. validated' = validated
    BY <1>13 DEF PatchUpdate
  <2>4. Checked(state, validated')
    <3> HIDE DEF write
    <3> QED
      BY <2>2, <2>3 DEF Checked, Idle
  <2>5. \A q \in Requests : Checked(req'[q], validated')
    <3>1. req' = [req EXCEPT ![r] = state]
      BY <1>13 DEF PatchUpdate, Proceed
    <3> HIDE DEF state
    <3> QED
      BY <2>3, <2>4, <3>1, CheckedStep
  <2>6. links[id] # NoRow => Patched(links[id], body).url \in validated
    BY <2>1, PatchedUrl
  <2> QED
    BY <1>13, <2>1, <2>3, <2>5, <2>6 DEF PatchUpdate, cacheVars
<1>14. ASSUME NEW r \in Requests, NEW user \in Users, DeleteResolve(r, user)
       PROVE  ValidInv'
  <2> DEFINE state == [Idle EXCEPT !.pc = "delete", !.user = user,
                                   !.id = lookup]
  <2>1. Checked(state, validated')
    BY DEF Checked, Idle
  <2> HIDE DEF state
  <2> QED
    BY <1>3, <1>14, <2>1
    DEF DeleteResolve, Begin, cacheVars, dbVars, historyVars, state
<1>15. ASSUME NEW r \in Requests, DeleteCommit(r) PROVE ValidInv'
  <2> DEFINE state == [Idle EXCEPT !.pc = "publish", !.id = req[r].id,
                                   !.write = "DELETED"]
  <2>1. Checked(state, validated')
    BY UrlsAssumption DEF Checked, Idle, Tombstones
  <2>2. validated' = validated /\ req' = [req EXCEPT ![r] = state]
    BY <1>15 DEF DeleteCommit, Proceed, historyVars
  <2>3. \A q \in Requests : Checked(req'[q], validated')
    <3> HIDE DEF state
    <3> QED
      BY <2>1, <2>2, CheckedStep
  <2> QED
    BY <1>15, <2>2, <2>3 DEF DeleteCommit, cacheVars
<1>16. ASSUME NEW user \in Users, Claim(user) PROVE ValidInv'
  BY <1>16 DEF Claim, LinkRows, cacheVars, historyVars
<1>17. ASSUME NEW r \in Requests, DisableLookup(r) PROVE ValidInv'
  <2> DEFINE state == [Idle EXCEPT !.pc = "flag", !.id = lookup]
  <2>1. Checked(state, validated')
    BY DEF Checked, Idle
  <2> HIDE DEF state
  <2> QED
    BY <1>3, <1>17, <2>1
    DEF DisableLookup, Begin, cacheVars, dbVars, historyVars, state
<1>18. ASSUME NEW r \in Requests, DisableFlag(r) PROVE ValidInv'
  <2> DEFINE state == [req[r] EXCEPT !.pc = "mark", !.left = 3]
  <2>1. Checked(state, validated')
    BY DEF Checked, RequestStates
  <2>2. validated' = validated /\ req' = [req EXCEPT ![r] = state]
    BY <1>18 DEF DisableFlag, Proceed, historyVars
  <2>3. \A q \in Requests : Checked(req'[q], validated')
    <3> HIDE DEF state
    <3> QED
      BY <2>1, <2>2, CheckedStep
  <2> QED
    BY <1>18, <2>2, <2>3 DEF DisableFlag, LinkRows, cacheVars
<1>19. ASSUME NEW r \in Requests, DisableMark(r) PROVE ValidInv'
  BY <1>2, <1>19, UrlsAssumption
  DEF DisableMark, SetTombstone, Tombstones, dbVars
<1>20. ASSUME NEW r \in Requests, DisableMarkFails(r) PROVE ValidInv'
  <2> DEFINE state == [req[r] EXCEPT !.left = @ - 1]
  <2>1. Checked(state, validated')
    BY <1>20 DEF DisableMarkFails, Checked, RequestStates
  <2>2. /\ Finish(r) \/ req' = [req EXCEPT ![r] = state]
        /\ UNCHANGED <<cacheVars, links, validated>>
    BY <1>20 DEF DisableMarkFails, Proceed, dbVars, historyVars
  <2> HIDE DEF state
  <2> QED
    BY <1>2, <1>3, <2>1, <2>2 DEF cacheVars
<1>21. ASSUME Tick \/ Expire \/ UNCHANGED vars PROVE ValidInv'
  BY <1>21, UrlsAssumption
  DEF Tick, Expire, KeyExpires, InvalidateCachedUrl, vars, cacheVars, dbVars,
      historyVars
<1> QED
  BY <1>4, <1>5, <1>6, <1>7, <1>8, <1>9, <1>10, <1>11, <1>12, <1>13, <1>14,
     <1>15, <1>16, <1>17, <1>18, <1>19, <1>20, <1>21
  DEF Next, Advance

\* Nothing the service points at has skipped validateUrl.
THEOREM DestinationsValidatedHolds == Spec => []DestinationsValidated
<1>1. Init => ValidInv
  BY UrlsAssumption DEF Init, ValidInv, DestinationsValidated, Live, Checked,
     Idle
<1>2. ValidInv => DestinationsValidated
  BY DEF ValidInv
<1> QED
  BY <1>1, <1>2, ValidNext, OwnCorrect, PTL DEF Spec

-----------------------------------------------------------------------------
(* One PATCH or DELETE at a time: what it read of the row's destination,   *)
(* privacy and kind of redirect still stands when it decides on the cache. *)

SameEdit(a, b) == a.url = b.url /\ a.private = b.private /\ a.prefer301 = b.prefer301

\* What a request may write was public under its id; what an edit read is so.
Backed(state, rows, seen) ==
  /\ state.pc \in {"fill", "publish"} /\ state.write \in Urls
       => state.id \in Ids /\ state.write \in seen[state.id]
  /\ state.pc \in {"validate", "update"}
       => rows[state.id] # NoRow /\ SameEdit(state.copy, rows[state.id])

Seen(row, urls) == row # NoRow /\ Public302(row) => row.url \in urls

PublicInv ==
  /\ cache \in Urls => origin \in Ids /\ cache \in exposed[origin]
  /\ \A id \in Ids : Seen(links[id], exposed[id])
  /\ \A r \in Requests : Backed(req[r], links, exposed)
  /\ \A r, q \in Requests : req[r].pc \in OwnerSteps /\ req[q].pc \in OwnerSteps => r = q

\* What a step may do to the rows and to what was exposed.
Grows(seen, seen2) == \A id \in Ids : seen[id] \subseteq seen2[id]
RowsKept(rows, rows2) ==
  \A id \in Ids : rows[id] # NoRow => rows2[id] # NoRow /\ SameEdit(rows[id], rows2[id])

LEMMA OwnerAlone ==
  ASSUME MaxOwnerWrites <= 1, OwnerMayWrite
  PROVE  \A r \in Requests : req[r].pc \notin OwnerSteps
<1> DEFINE S == {r \in Requests : req[r].pc \in OwnerSteps}
<1>1. IsFiniteSet(S)
  <2>1. S \subseteq Requests /\ IsFiniteSet(Requests)
    BY LinksAssumption
  <2> QED
    BY <2>1, FS_Subset
<1>2. Cardinality(S) < MaxOwnerWrites /\ MaxOwnerWrites \in Nat
  BY LinksAssumption DEF OwnerMayWrite
<1> HIDE DEF S
<1>3. Cardinality(S) \in Nat
  BY <1>1, FS_CardinalityType
<1>4. Cardinality(S) = 0
  BY <1>2, <1>3
<1>5. S = {}
  BY <1>1, <1>4, FS_EmptySet
<1> QED
  BY <1>5 DEF S

\* A step that gives one request a backed state keeps all backed, and one owner's
\* request at most, unless it starts a second one or edits a row under another.
LEMMA BackedStep ==
  ASSUME TypeInv, PublicInv, NEW r \in Requests, NEW state,
         req' = [req EXCEPT ![r] = state], Backed(state, links', exposed'),
         Grows(exposed, exposed'), RowsKept(links, links') \/ req[r].pc \in OwnerSteps,
         state.pc \in OwnerSteps =>
           req[r].pc \in OwnerSteps \/ \A q \in Requests : req[q].pc \notin OwnerSteps
  PROVE  /\ \A q \in Requests : Backed(req'[q], links', exposed')
         /\ \A p, q \in Requests :
              req'[p].pc \in OwnerSteps /\ req'[q].pc \in OwnerSteps => p = q
<1>1. \A q \in Requests : req'[q] = IF q = r THEN state ELSE req[q]
  BY DEF TypeInv, TypeOK
<1>2. ASSUME NEW q \in Requests, q # r PROVE Backed(req[q], links', exposed')
  <2>1. Backed(req[q], links, exposed)
    BY DEF PublicInv
  <2>2. CASE req[q].pc \in {"validate", "update"}
    <3>1. RowsKept(links, links')
      BY <1>2, <2>2 DEF PublicInv, OwnerSteps
    <3>2. req[q].id \in Ids
      BY <2>2 DEF TypeInv, CarriedOK, Fits
    <3> QED
      BY <2>1, <2>2, <3>1, <3>2 DEF Backed, RowsKept, SameEdit
  <2>3. CASE req[q].pc \notin {"validate", "update"}
    BY <2>1, <2>3 DEF Backed, Grows
  <2> QED
    BY <2>2, <2>3
<1>3. \A p, q \in Requests :
        req'[p].pc \in OwnerSteps /\ req'[q].pc \in OwnerSteps => p = q
  BY <1>1 DEF PublicInv
<1> QED
  BY <1>1, <1>2, <1>3

LEMMA IdleBacked == ASSUME NEW rows, NEW seen PROVE Backed(Idle, rows, seen)
  BY DEF Backed, Idle

LEMMA FinishBacked ==
  ASSUME TypeInv, PublicInv, NEW r \in Requests, Finish(r),
         Grows(exposed, exposed'), RowsKept(links, links')
  PROVE  /\ \A q \in Requests : Backed(req'[q], links', exposed')
         /\ \A p, q \in Requests :
              req'[p].pc \in OwnerSteps /\ req'[q].pc \in OwnerSteps => p = q
<1> DEFINE state == Idle
<1>1. /\ req' = [req EXCEPT ![r] = state] /\ Backed(state, links', exposed')
      /\ state.pc \notin OwnerSteps
  BY IdleBacked DEF Finish, Idle, OwnerSteps
<1> HIDE DEF state
<1> QED
  BY <1>1, BackedStep

\* The database and the cache stay as they are: only a request's state counts.
LEMMA ReadBacked ==
  ASSUME TypeInv, PublicInv, UNCHANGED <<cacheVars, dbVars, exposed>>,
         NEW r \in Requests, NEW state, req' = [req EXCEPT ![r] = state],
         Backed(state, links, exposed),
         state.pc \in OwnerSteps =>
           req[r].pc \in OwnerSteps \/ \A q \in Requests : req[q].pc \notin OwnerSteps
  PROVE  PublicInv'
<1>1. /\ links' = links /\ exposed' = exposed /\ cache' = cache /\ origin' = origin
      /\ Grows(exposed, exposed') /\ RowsKept(links, links')
  BY DEF cacheVars, dbVars, Grows, RowsKept, SameEdit
<1>2. /\ \A q \in Requests : Backed(req'[q], links', exposed')
      /\ \A p, q \in Requests :
           req'[p].pc \in OwnerSteps /\ req'[q].pc \in OwnerSteps => p = q
  BY <1>1, BackedStep
<1> QED
  BY <1>1, <1>2 DEF PublicInv

\* PATCH decides on a destination only for a row it leaves public.
LEMMA PatchPublic ==
  ASSUME NEW copy \in LinkRows, NEW row \in LinkRows, SameEdit(copy, row),
         NEW body \in PatchSet, PatchWrite(Patched(copy, body)) \in Urls
  PROVE  /\ Public302(Patched(row, body))
         /\ PatchWrite(Patched(copy, body)) = Patched(row, body).url
<1> DEFINE a == Patched(copy, body)
           b == Patched(row, body)
<1>1. /\ a.url = NewOr(body.url, copy.url) /\ b.url = NewOr(body.url, row.url)
      /\ a.private = NewOr(body.private, copy.private)
      /\ b.private = NewOr(body.private, row.private)
      /\ a.prefer301 = NewOr(body.prefer301, copy.prefer301)
      /\ b.prefer301 = NewOr(body.prefer301, row.prefer301)
  BY DEF Patched, LinkRows
<1>2. SameEdit(a, b)
  BY <1>1 DEF SameEdit
<1> HIDE DEF a, b
<1>3. PatchWrite(a) \in Urls => PatchWrite(a) = a.url /\ Public302(a)
  BY UrlsAssumption DEF PatchWrite, Tombstones, Absent
<1>4. PatchWrite(a) \in Urls
  BY DEF a
<1>5. Public302(b) /\ PatchWrite(a) = b.url
  BY <1>2, <1>3, <1>4 DEF SameEdit, Public302
<1> QED
  BY <1>5 DEF a, b

\* A request ends, or takes a value it may write to the cache, and nothing else.
LEMMA ReadFinishes ==
  ASSUME TypeInv, PublicInv, UNCHANGED <<cacheVars, dbVars, exposed>>,
         NEW r \in Requests, Finish(r)
  PROVE  PublicInv'
<1> DEFINE state == Idle
<1>1. /\ req' = [req EXCEPT ![r] = state] /\ Backed(state, links, exposed)
      /\ state.pc \notin OwnerSteps
  BY IdleBacked DEF Finish, Idle, OwnerSteps
<1> HIDE DEF state
<1> QED
  BY <1>1, ReadBacked

LEMMA PublicNext ==
  ASSUME MaxOwnerWrites <= 1, TypeInv, OwnInv, PublicInv, [Next]_vars
  PROVE  PublicInv'
<1>1. ASSUME NEW r \in Requests, NEW user \in Users \cup {Anon},
             NEW form \in Forms, ShortenValidate(r, user, form)
      PROVE  PublicInv'
  <2> DEFINE state == [Idle EXCEPT
        !.pc = "insert", !.user = user,
        !.copy = [owner |-> user, url |-> form.url,
                  expiresAt |-> form.expiresAt, private |-> form.private,
                  prefer301 |-> form.prefer301, disabled |-> FALSE]]
  <2>1. Backed(state, links, exposed) /\ state.pc \notin OwnerSteps
    BY DEF Backed, Idle, OwnerSteps
  <2>2. req' = [req EXCEPT ![r] = state] /\ UNCHANGED <<cacheVars, dbVars, exposed>>
    BY <1>1 DEF ShortenValidate, Begin
  <2> HIDE DEF state
  <2> QED
    BY <2>1, <2>2, ReadBacked
<1>2. ASSUME NEW r \in Requests, ShortenInsert(r) PROVE PublicInv'
  <2> DEFINE row == req[r].copy
             id == lastId + 1
             fill == [Idle EXCEPT !.pc = "fill", !.id = id, !.write = row.url]
  <2>1. /\ id \in Ids /\ row \in LinkRows /\ row # NoRow /\ links[id] = NoRow
        /\ links' = [links EXCEPT ![id] = row] /\ Expose(id, row)
        /\ UNCHANGED cacheVars
    BY <1>2, LinksAssumption
    DEF ShortenInsert, TypeInv, TypeOK, CarriedOK, Fits, Ids, OwnInv
  <2>2. Grows(exposed, exposed') /\ (Public302(row) => row.url \in exposed'[id])
    BY <2>1 DEF Expose, Grows, TypeInv, TypeOK
  <2>3. RowsKept(links, links')
    BY <2>1 DEF RowsKept, SameEdit, TypeInv, TypeOK
  <2>4. \A i \in Ids : Seen(links'[i], exposed'[i])
    BY <2>1, <2>2 DEF PublicInv, Seen, Grows, TypeInv, TypeOK
  <2>5. /\ \A q \in Requests : Backed(req'[q], links', exposed')
        /\ \A p, q \in Requests :
             req'[p].pc \in OwnerSteps /\ req'[q].pc \in OwnerSteps => p = q
    <3>1. CASE Finish(r)
      BY <2>2, <2>3, <3>1, FinishBacked
    <3>2. CASE Public302(row) /\ req' = [req EXCEPT ![r] = fill]
      <4>1. Backed(fill, links', exposed') /\ fill.pc \notin OwnerSteps
        BY <2>1, <2>2, <3>2 DEF Backed, Idle, OwnerSteps
      <4> HIDE DEF fill
      <4> QED
        BY <2>2, <2>3, <3>2, <4>1, BackedStep
    <3> QED
      BY <1>2, <3>1, <3>2 DEF ShortenInsert, Proceed
  <2>6. cache' \in Urls => origin' \in Ids /\ cache' \in exposed'[origin']
    BY <2>1, <2>2 DEF PublicInv, Grows, cacheVars
  <2> QED
    BY <2>4, <2>5, <2>6 DEF PublicInv
<1>3. ASSUME NEW r \in Requests, ShortenConflict(r) \/ Abandon(r)
      PROVE  PublicInv'
  BY <1>3, ReadFinishes DEF ShortenConflict, Abandon, historyVars
<1>4. ASSUME NEW r \in Requests, NEW user \in Users \cup {Anon},
             RedirectMiss(r, user)
      PROVE  PublicInv'
  <2> DEFINE state == [Idle EXCEPT !.pc = "lookup", !.user = user]
  <2>1. Backed(state, links, exposed) /\ state.pc \notin OwnerSteps
    BY DEF Backed, Idle, OwnerSteps
  <2>2. req' = [req EXCEPT ![r] = state] /\ UNCHANGED <<cacheVars, dbVars, exposed>>
    BY <1>4 DEF RedirectMiss, Begin, historyVars
  <2> HIDE DEF state
  <2> QED
    BY <2>1, <2>2, ReadBacked
<1>5. ASSUME NEW r \in Requests, RedirectLookup(r) PROVE PublicInv'
  <2> DEFINE miss == [Idle EXCEPT !.pc = "fill", !.write = "NOT_FOUND"]
             hit  == [req[r] EXCEPT !.pc = "row", !.id = lookup]
  <2>1. Backed(miss, links, exposed) /\ miss.pc \notin OwnerSteps
    BY UrlsAssumption DEF Backed, Idle, Tombstones, OwnerSteps
  <2>2. Backed(hit, links, exposed) /\ hit.pc \notin OwnerSteps
    BY DEF Backed, RequestStates, OwnerSteps, TypeInv, TypeOK
  <2>3. /\ req' = [req EXCEPT ![r] = miss] \/ req' = [req EXCEPT ![r] = hit]
        /\ UNCHANGED <<cacheVars, dbVars, exposed>>
    BY <1>5 DEF RedirectLookup, Proceed, historyVars
  <2> HIDE DEF miss, hit
  <2> QED
    BY <2>1, <2>2, <2>3, ReadBacked
<1>6. ASSUME NEW r \in Requests, RedirectRow(r) PROVE PublicInv'
  <2> DEFINE id == req[r].id
             fill(w) == [Idle EXCEPT !.pc = "fill", !.id = id, !.write = w]
  <2>1. id \in Ids /\ UNCHANGED <<cacheVars, dbVars, exposed>>
    BY <1>6 DEF RedirectRow, TypeInv, CarriedOK, Fits, historyVars
  <2>2. ASSUME NEW w \in RedirectWrite(links[id], req[r].user)
        PROVE  Backed(fill(w), links, exposed) /\ fill(w).pc \notin OwnerSteps
    <3>1. w \in Urls => links[id] # NoRow /\ Public302(links[id]) /\ w = links[id].url
      BY <2>2, UrlsAssumption DEF RedirectWrite, Tombstones
    <3>2. w \in Urls => w \in exposed[id]
      BY <2>1, <3>1 DEF PublicInv, Seen
    <3> QED
      BY <2>1, <3>2 DEF Backed, Idle, OwnerSteps
  <2>3. \/ Finish(r)
        \/ \E w \in RedirectWrite(links[id], req[r].user) :
             req' = [req EXCEPT ![r] = fill(w)]
    BY <1>6 DEF RedirectRow, Proceed
  <2>4. CASE Finish(r)
    BY <2>1, <2>4, ReadFinishes
  <2>5. CASE \E w \in RedirectWrite(links[id], req[r].user) :
               req' = [req EXCEPT ![r] = fill(w)]
    <3>1. PICK w \in RedirectWrite(links[id], req[r].user) :
            req' = [req EXCEPT ![r] = fill(w)]
      BY <2>5
    <3>2. Backed(fill(w), links, exposed) /\ fill(w).pc \notin OwnerSteps
      BY <2>2
    <3> DEFINE state == fill(w)
    <3>3. /\ Backed(state, links, exposed) /\ state.pc \notin OwnerSteps
          /\ req' = [req EXCEPT ![r] = state]
      BY <3>1, <3>2
    <3> HIDE DEF state
    <3> QED
      BY <2>1, <3>3, ReadBacked
  <2> QED
    BY <2>3, <2>4, <2>5
<1>7. ASSUME NEW r \in Requests, Fill(r) \/ Publish(r) PROVE PublicInv'
  <2>1. /\ CacheWrite(req[r].write, req[r].id) /\ Finish(r)
        /\ links' = links /\ exposed' = exposed
        /\ req[r].write \in Urls => req[r].id \in Ids /\ req[r].write \in exposed[req[r].id]
    BY <1>7 DEF Fill, Publish, PublicInv, Backed, dbVars, historyVars
  <2>2. cache' \in Urls => origin' \in Ids /\ cache' \in exposed[origin']
    BY <2>1, UrlsAssumption
    DEF PublicInv, CacheWrite, SetCachedUrl, SetTombstone, InvalidateCachedUrl,
        cacheVars, Tombstones, Absent
  <2>3. Grows(exposed, exposed') /\ RowsKept(links, links')
    BY <2>1 DEF Grows, RowsKept, SameEdit
  <2>4. /\ \A q \in Requests : Backed(req'[q], links', exposed')
        /\ \A p, q \in Requests :
             req'[p].pc \in OwnerSteps /\ req'[q].pc \in OwnerSteps => p = q
    BY <2>1, <2>3, FinishBacked
  <2> QED
    BY <2>1, <2>2, <2>4 DEF PublicInv
<1>8. ASSUME NEW r \in Requests, NEW user \in Users, NEW body \in Bodies,
             PatchResolve(r, user, body)
      PROVE  PublicInv'
  <2> DEFINE step == IF body.url = Keep THEN "update" ELSE "validate"
             state == [Idle EXCEPT !.pc = step, !.user = user, !.id = lookup,
                                   !.copy = links[lookup], !.body = body]
  <2>1. links[lookup] # NoRow /\ \A q \in Requests : req[q].pc \notin OwnerSteps
    BY <1>8, OwnerAlone DEF PatchResolve, Owns
  <2>2. Backed(state, links, exposed)
    BY <2>1 DEF Backed, Idle, SameEdit
  <2>3. req' = [req EXCEPT ![r] = state] /\ UNCHANGED <<cacheVars, dbVars, exposed>>
    BY <1>8 DEF PatchResolve, Begin, historyVars
  <2> HIDE DEF state
  <2> QED
    BY <2>1, <2>2, <2>3, ReadBacked
<1>9. ASSUME NEW r \in Requests, PatchValidate(r) PROVE PublicInv'
  <2> DEFINE state == [req[r] EXCEPT !.pc = "update"]
  <2>1. req[r].pc \in OwnerSteps /\ UNCHANGED <<cacheVars, dbVars, exposed>>
        /\ req' = [req EXCEPT ![r] = state]
    BY <1>9 DEF PatchValidate, Proceed, OwnerSteps
  <2>2. req[r] \in RequestStates /\ Backed(req[r], links, exposed) /\ req[r].pc = "validate"
    BY <1>9 DEF PatchValidate, TypeInv, TypeOK, PublicInv
  <2>3. Backed(state, links, exposed)
    BY <2>2 DEF Backed, RequestStates
  <2> HIDE DEF state
  <2> QED
    BY <2>1, <2>3, ReadBacked
<1>10. ASSUME NEW r \in Requests, PatchUpdate(r) PROVE PublicInv'
  <2> DEFINE id == req[r].id
             row == links[id]
             copy == req[r].copy
             body == req[r].body
             write == PatchWrite(Patched(copy, body))
             state == [Idle EXCEPT !.pc = "publish", !.id = id, !.write = write]
  <2>1. /\ id \in Ids /\ body \in PatchSet /\ copy \in LinkRows /\ row \in LinkRows
        /\ row # NoRow /\ SameEdit(copy, row) /\ req[r].pc \in OwnerSteps
    BY <1>10 DEF PatchUpdate, TypeInv, TypeOK, CarriedOK, Fits, RequestStates,
                 PublicInv, Backed, OwnerSteps
  <2> DEFINE new == Patched(row, body)
  <2>2. /\ links' = [links EXCEPT ![id] = new] /\ Expose(id, new)
        /\ req' = [req EXCEPT ![r] = state] /\ UNCHANGED cacheVars
    BY <1>10, <2>1 DEF PatchUpdate, Proceed
  <2>3. write \in Urls => Public302(new) /\ write = new.url
    BY <2>1, PatchPublic
  <2> HIDE DEF write, new
  <2>4. Grows(exposed, exposed') /\ (Public302(new) => new.url \in exposed'[id])
    BY <2>1, <2>2 DEF Expose, Grows, TypeInv, TypeOK
  <2>5. Backed(state, links', exposed')
    BY <2>1, <2>3, <2>4 DEF Backed, Idle
  <2>6. \A i \in Ids : Seen(links'[i], exposed'[i])
    BY <2>1, <2>2, <2>4 DEF PublicInv, Seen, Grows, TypeInv, TypeOK
  <2>7. cache' \in Urls => origin' \in Ids /\ cache' \in exposed'[origin']
    BY <2>2, <2>4 DEF PublicInv, Grows, cacheVars
  <2> HIDE DEF state
  <2>8. /\ \A q \in Requests : Backed(req'[q], links', exposed')
        /\ \A p, q \in Requests :
             req'[p].pc \in OwnerSteps /\ req'[q].pc \in OwnerSteps => p = q
    BY <2>1, <2>2, <2>4, <2>5, BackedStep
  <2> QED
    BY <2>6, <2>7, <2>8 DEF PublicInv
<1>11. ASSUME NEW r \in Requests, NEW user \in Users, DeleteResolve(r, user)
       PROVE  PublicInv'
  <2> DEFINE state == [Idle EXCEPT !.pc = "delete", !.user = user, !.id = lookup]
  <2>1. \A q \in Requests : req[q].pc \notin OwnerSteps
    BY <1>11, OwnerAlone DEF DeleteResolve
  <2>2. Backed(state, links, exposed)
    BY DEF Backed, Idle
  <2>3. req' = [req EXCEPT ![r] = state] /\ UNCHANGED <<cacheVars, dbVars, exposed>>
    BY <1>11 DEF DeleteResolve, Begin, historyVars
  <2> HIDE DEF state
  <2> QED
    BY <2>1, <2>2, <2>3, ReadBacked
<1>12. ASSUME NEW r \in Requests, DeleteCommit(r) PROVE PublicInv'
  <2> DEFINE id == req[r].id
             state == [Idle EXCEPT !.pc = "publish", !.id = id, !.write = "DELETED"]
  <2>1. /\ id \in Ids /\ req[r].pc \in OwnerSteps /\ links' = [links EXCEPT ![id] = NoRow]
        /\ exposed' = exposed /\ UNCHANGED cacheVars /\ req' = [req EXCEPT ![r] = state]
    BY <1>12 DEF DeleteCommit, Proceed, TypeInv, CarriedOK, Fits, OwnerSteps, historyVars
  <2>2. Grows(exposed, exposed')
    BY <2>1 DEF Grows
  <2>3. Backed(state, links', exposed')
    BY UrlsAssumption DEF Backed, Idle, Tombstones
  <2>4. \A i \in Ids : Seen(links'[i], exposed'[i])
    BY <2>1 DEF PublicInv, Seen, TypeInv, TypeOK
  <2>5. cache' \in Urls => origin' \in Ids /\ cache' \in exposed'[origin']
    BY <2>1 DEF PublicInv, cacheVars
  <2> HIDE DEF state
  <2>6. /\ \A q \in Requests : Backed(req'[q], links', exposed')
        /\ \A p, q \in Requests :
             req'[p].pc \in OwnerSteps /\ req'[q].pc \in OwnerSteps => p = q
    BY <2>1, <2>2, <2>3, BackedStep
  <2> QED
    BY <2>4, <2>5, <2>6 DEF PublicInv
<1>13. ASSUME NEW user \in Users, Claim(user) PROVE PublicInv'
  <2>1. /\ lookup \in Ids /\ links[lookup] \in LinkRows
        /\ links' = [links EXCEPT ![lookup].owner = user]
        /\ cache' = cache /\ origin' = origin /\ exposed' = exposed /\ req' = req
    BY <1>13 DEF Claim, TypeInv, TypeOK, cacheVars, historyVars
  <2>2. RowsKept(links, links')
    BY <2>1, LinksAssumption DEF RowsKept, SameEdit, LinkRows, TypeInv, TypeOK
  <2>3. ASSUME NEW i \in Ids PROVE Seen(links'[i], exposed[i])
    <3>1. CASE i # lookup
      BY <2>1, <3>1 DEF PublicInv, TypeInv, TypeOK
    <3>2. CASE i = lookup
      <4>1. links[i] # NoRow /\ links'[i] = [links[i] EXCEPT !.owner = user]
        BY <1>13, <2>1, <3>2 DEF Claim, TypeInv, TypeOK
      <4> QED
        BY <2>1, <3>2, <4>1 DEF PublicInv, Seen, Public302, LinkRows
    <3> QED
      BY <3>1, <3>2
  <2>4. \A q \in Requests : Backed(req[q], links', exposed)
    BY <2>2 DEF PublicInv, Backed, RowsKept, SameEdit, TypeInv, CarriedOK, Fits
  <2> QED
    BY <2>1, <2>3, <2>4 DEF PublicInv
<1>14. ASSUME NEW r \in Requests, DisableLookup(r) PROVE PublicInv'
  <2> DEFINE state == [Idle EXCEPT !.pc = "flag", !.id = lookup]
  <2>1. Backed(state, links, exposed) /\ state.pc \notin OwnerSteps
    BY DEF Backed, Idle, OwnerSteps
  <2>2. req' = [req EXCEPT ![r] = state] /\ UNCHANGED <<cacheVars, dbVars, exposed>>
    BY <1>14 DEF DisableLookup, Begin, historyVars
  <2> HIDE DEF state
  <2> QED
    BY <2>1, <2>2, ReadBacked
<1>15. ASSUME NEW r \in Requests, DisableFlag(r) PROVE PublicInv'
  <2> DEFINE id == req[r].id
             state == [req[r] EXCEPT !.pc = "mark", !.left = 3]
  <2>1. /\ id \in Ids /\ req[r] \in RequestStates
        /\ cache' = cache /\ origin' = origin /\ exposed' = exposed
        /\ req' = [req EXCEPT ![r] = state]
        /\ links' = IF links[id] = NoRow THEN links
                    ELSE [links EXCEPT ![id].disabled = TRUE]
    BY <1>15 DEF DisableFlag, Proceed, TypeInv, TypeOK, CarriedOK, Fits, cacheVars,
                 historyVars
  <2>2. RowsKept(links, links')
    <3>1. CASE links[id] = NoRow
      BY <2>1, <3>1 DEF RowsKept, SameEdit
    <3>2. CASE links[id] # NoRow
      BY <2>1, <3>2, LinksAssumption DEF RowsKept, SameEdit, LinkRows, TypeInv, TypeOK
    <3> QED
      BY <3>1, <3>2
  <2>3. ASSUME NEW i \in Ids PROVE Seen(links'[i], exposed[i])
    <3>1. CASE links'[i] = links[i]
      BY <3>1 DEF PublicInv
    <3>2. CASE links'[i] # links[i]
      <4>1. i = id /\ links[i] # NoRow /\ links[i] \in LinkRows
        BY <2>1, <3>2 DEF TypeInv, TypeOK
      <4>2. links'[i] = [links[i] EXCEPT !.disabled = TRUE]
        BY <2>1, <4>1 DEF TypeInv, TypeOK
      <4> QED
        BY <4>1, <4>2 DEF PublicInv, Seen, Public302, LinkRows
    <3> QED
      BY <3>1, <3>2
  <2>4. /\ Backed(state, links', exposed') /\ state.pc \notin OwnerSteps
        /\ Grows(exposed, exposed')
    BY <2>1 DEF Backed, RequestStates, OwnerSteps, Grows
  <2> HIDE DEF state
  <2>5. /\ \A q \in Requests : Backed(req'[q], links', exposed')
        /\ \A p, q \in Requests :
             req'[p].pc \in OwnerSteps /\ req'[q].pc \in OwnerSteps => p = q
    BY <2>1, <2>2, <2>4, BackedStep
  <2> QED
    BY <2>1, <2>3, <2>5 DEF PublicInv
<1>16. ASSUME NEW r \in Requests, DisableMark(r) PROVE PublicInv'
  <2>1. /\ cache' \notin Urls /\ links' = links /\ exposed' = exposed /\ Finish(r)
    BY <1>16, UrlsAssumption DEF DisableMark, SetTombstone, Tombstones, dbVars
  <2>2. Grows(exposed, exposed') /\ RowsKept(links, links')
    BY <2>1 DEF Grows, RowsKept, SameEdit
  <2>3. /\ \A q \in Requests : Backed(req'[q], links', exposed')
        /\ \A p, q \in Requests :
             req'[p].pc \in OwnerSteps /\ req'[q].pc \in OwnerSteps => p = q
    BY <2>1, <2>2, FinishBacked
  <2> QED
    BY <2>1, <2>3 DEF PublicInv
<1>17. ASSUME NEW r \in Requests, DisableMarkFails(r) PROVE PublicInv'
  <2> DEFINE state == [req[r] EXCEPT !.left = @ - 1]
  <2>1. Backed(state, links, exposed) /\ state.pc \notin OwnerSteps
    BY <1>17 DEF DisableMarkFails, Backed, RequestStates, TypeInv, TypeOK, OwnerSteps
  <2>2. /\ Finish(r) \/ req' = [req EXCEPT ![r] = state]
        /\ UNCHANGED <<cacheVars, dbVars, exposed>>
    BY <1>17 DEF DisableMarkFails, Proceed, historyVars
  <2> HIDE DEF state
  <2> QED
    BY <2>1, <2>2, ReadBacked, ReadFinishes
<1>18. ASSUME Tick \/ Expire \/ UNCHANGED vars PROVE PublicInv'
  <2>1. /\ UNCHANGED <<links, exposed, req>>
        /\ \/ cache' = cache /\ origin' = origin
           \/ cache' \notin Urls
    BY <1>18, UrlsAssumption
    DEF Tick, Expire, KeyExpires, InvalidateCachedUrl, vars, cacheVars, dbVars,
        historyVars, Absent
  <2> QED
    BY <2>1 DEF PublicInv
<1> QED
  BY <1>1, <1>2, <1>3, <1>4, <1>5, <1>6, <1>7, <1>8, <1>9, <1>10, <1>11, <1>12,
     <1>13, <1>14, <1>15, <1>16, <1>17, <1>18
  DEF Next, Advance

\* With one PATCH or DELETE at a time, a destination reaches the cache only if its
\* link had it while public and 302, however stale the row its writer read.
THEOREM CachedOncePublicHolds ==
  ASSUME MaxOwnerWrites <= 1
  PROVE  Spec => []CachedOncePublic
<1>1. Init => PublicInv
  BY UrlsAssumption DEF Init, PublicInv, Backed, Seen, Idle, Absent, OwnerSteps
<1>2. TypeInv /\ OwnInv /\ PublicInv /\ [Next]_vars => PublicInv'
  BY PublicNext
<1>3. PublicInv => CachedOncePublic
  BY DEF PublicInv, CachedOncePublic
<1> QED
  BY <1>1, <1>2, <1>3, OwnCorrect, PTL DEF Spec
-----------------------------------------------------------------------------
(* What DisabledGoesDark waits for.  A disabled or deleted link that the   *)
(* cache does not show, and that no request in flight may still write to   *)
(* it, is dark for good.                                                   *)

Carries(state, id) ==
  /\ state.id = id
  /\ \/ state.pc \in {"fill", "publish"} /\ state.write \in Urls
     \/ state.pc \in {"validate", "update"}

Retired(id) == id <= lastId /\ (Live(id) => links[id].disabled)

DarkForGood(id) ==
  Retired(id) /\ Dark(id) /\ \A r \in Requests : ~Carries(req[r], id)

LEMMA IdleCarries == ASSUME NEW id PROVE ~Carries(Idle, id)
  BY DEF Carries, Idle

\* A step of one request that leaves it carrying nothing for the link.
LEMMA DarkStep ==
  ASSUME TypeInv, NEW id \in Ids, DarkForGood(id), NEW r \in Requests, NEW state,
         req' = [req EXCEPT ![r] = state], ~Carries(state, id),
         Retired(id)', cacheVars' = cacheVars
  PROVE  DarkForGood(id)'
BY DEF DarkForGood, Dark, cacheVars, TypeInv, TypeOK

\* It changes no row and creates none.
LEMMA DarkRead ==
  ASSUME TypeInv, NEW id \in Ids, DarkForGood(id), NEW r \in Requests, NEW state,
         req' = [req EXCEPT ![r] = state], ~Carries(state, id),
         UNCHANGED <<cacheVars, dbVars>>
  PROVE  DarkForGood(id)'
<1>1. Retired(id)'
  BY DEF DarkForGood, Retired, Live, dbVars
<1> QED
  BY <1>1, DarkStep DEF cacheVars

LEMMA DarkFinish ==
  ASSUME TypeInv, NEW id \in Ids, DarkForGood(id), NEW r \in Requests, Finish(r),
         UNCHANGED <<cacheVars, dbVars>>
  PROVE  DarkForGood(id)'
<1> DEFINE state == Idle
<1>1. req' = [req EXCEPT ![r] = state] /\ ~Carries(state, id)
  BY IdleCarries DEF Finish
<1> HIDE DEF state
<1> QED
  BY <1>1, DarkRead

\* A write of the cache for another link, or of a tombstone.
LEMMA DarkWrite ==
  ASSUME TypeInv, NEW id \in Ids, DarkForGood(id), NEW r \in Requests, Finish(r),
         CacheWrite(req[r].write, req[r].id), req[r].pc \in {"fill", "publish"},
         UNCHANGED dbVars
  PROVE  DarkForGood(id)'
<1>1. Retired(id)'
  BY DEF DarkForGood, Retired, Live, dbVars
<1>2. Dark(id)'
  <2>1. ~(req[r].write \in Urls /\ req[r].id = id)
    BY DEF DarkForGood, Carries
  <2> QED
    BY <2>1, UrlsAssumption
    DEF DarkForGood, Dark, CacheWrite, SetCachedUrl, SetTombstone,
        InvalidateCachedUrl, cacheVars, Tombstones, Absent
<1>3. \A q \in Requests : ~Carries(req'[q], id)
  BY IdleCarries DEF Finish, DarkForGood, TypeInv, TypeOK
<1> QED
  BY <1>1, <1>2, <1>3 DEF DarkForGood

LEMMA DarkNext ==
  ASSUME TypeInv, OwnInv, NEW id \in Ids, DarkForGood(id), [Next]_vars
  PROVE  DarkForGood(id)'
<1>0. id <= lastId /\ lastId \in Nat /\ id \in Nat
  BY LinksAssumption DEF DarkForGood, Retired, TypeInv, TypeOK, Ids
<1>1. ASSUME NEW r \in Requests, NEW user \in Users \cup {Anon},
             NEW form \in Forms, ShortenValidate(r, user, form)
      PROVE  DarkForGood(id)'
  <2> DEFINE state == [Idle EXCEPT
        !.pc = "insert", !.user = user,
        !.copy = [owner |-> user, url |-> form.url,
                  expiresAt |-> form.expiresAt, private |-> form.private,
                  prefer301 |-> form.prefer301, disabled |-> FALSE]]
  <2>1. ~Carries(state, id)
    BY DEF Carries, Idle
  <2>2. req' = [req EXCEPT ![r] = state] /\ UNCHANGED <<cacheVars, dbVars>>
    BY <1>1 DEF ShortenValidate, Begin
  <2> HIDE DEF state
  <2> QED
    BY <2>1, <2>2, DarkRead
<1>2. ASSUME NEW r \in Requests, ShortenInsert(r) PROVE DarkForGood(id)'
  <2> DEFINE new == lastId + 1
             fill == [Idle EXCEPT !.pc = "fill", !.id = new, !.write = req[r].copy.url]
  <2>1. /\ links' = [links EXCEPT ![new] = req[r].copy] /\ lastId' = new
        /\ new # id /\ cacheVars' = cacheVars
        /\ Finish(r) \/ req' = [req EXCEPT ![r] = fill]
    BY <1>0, <1>2 DEF ShortenInsert, Proceed, cacheVars
  <2>2. Retired(id)'
    BY <1>0, <2>1 DEF DarkForGood, Retired, Live, TypeInv, TypeOK
  <2>3. ~Carries(fill, id) /\ ~Carries(Idle, id)
    BY <2>1, IdleCarries DEF Carries, Idle
  <2>4. req' = [req EXCEPT ![r] = Idle] \/ req' = [req EXCEPT ![r] = fill]
    BY <2>1 DEF Finish
  <2> HIDE DEF fill
  <2> QED
    BY <2>1, <2>2, <2>3, <2>4, DarkStep
<1>3. ASSUME NEW r \in Requests, ShortenConflict(r) \/ Abandon(r)
      PROVE  DarkForGood(id)'
  BY <1>3, DarkFinish DEF ShortenConflict, Abandon
<1>4. ASSUME NEW r \in Requests, NEW user \in Users \cup {Anon},
             RedirectMiss(r, user)
      PROVE  DarkForGood(id)'
  <2> DEFINE state == [Idle EXCEPT !.pc = "lookup", !.user = user]
  <2>1. ~Carries(state, id)
    BY DEF Carries, Idle
  <2>2. req' = [req EXCEPT ![r] = state] /\ UNCHANGED <<cacheVars, dbVars>>
    BY <1>4 DEF RedirectMiss, Begin
  <2> HIDE DEF state
  <2> QED
    BY <2>1, <2>2, DarkRead
<1>5. ASSUME NEW r \in Requests, RedirectLookup(r) PROVE DarkForGood(id)'
  <2> DEFINE miss == [Idle EXCEPT !.pc = "fill", !.write = "NOT_FOUND"]
             hit  == [req[r] EXCEPT !.pc = "row", !.id = lookup]
  <2>1. ~Carries(miss, id)
    BY UrlsAssumption DEF Carries, Idle, Tombstones
  <2>2. ~Carries(hit, id)
    BY DEF Carries, RequestStates, TypeInv, TypeOK
  <2>3. /\ req' = [req EXCEPT ![r] = miss] \/ req' = [req EXCEPT ![r] = hit]
        /\ UNCHANGED <<cacheVars, dbVars>>
    BY <1>5 DEF RedirectLookup, Proceed
  <2> HIDE DEF miss, hit
  <2> QED
    BY <2>1, <2>2, <2>3, DarkRead
<1>6. ASSUME NEW r \in Requests, RedirectRow(r) PROVE DarkForGood(id)'
  <2> DEFINE i == req[r].id
             fill(w) == [Idle EXCEPT !.pc = "fill", !.id = i, !.write = w]
  <2>1. ASSUME NEW w \in RedirectWrite(links[i], req[r].user)
        PROVE  ~Carries(fill(w), id)
    <3>1. CASE i # id
      BY <3>1 DEF Carries, Idle
    <3>2. CASE i = id
      <4>1. links[i] = NoRow \/ links[i].disabled
        BY <3>2 DEF DarkForGood, Retired, Live
      <4>2. w \notin Urls
        BY <2>1, <4>1, UrlsAssumption DEF RedirectWrite, Tombstones
      <4> QED
        BY <4>2 DEF Carries, Idle
    <3> QED
      BY <3>1, <3>2
  <2>2. /\ \/ Finish(r)
           \/ \E w \in RedirectWrite(links[i], req[r].user) :
                req' = [req EXCEPT ![r] = fill(w)]
        /\ UNCHANGED <<cacheVars, dbVars>>
    BY <1>6 DEF RedirectRow, Proceed
  <2>3. CASE Finish(r)
    BY <2>2, <2>3, DarkFinish
  <2>4. CASE \E w \in RedirectWrite(links[i], req[r].user) :
               req' = [req EXCEPT ![r] = fill(w)]
    <3>1. PICK w \in RedirectWrite(links[i], req[r].user) :
            req' = [req EXCEPT ![r] = fill(w)]
      BY <2>4
    <3> DEFINE state == fill(w)
    <3>2. ~Carries(state, id) /\ req' = [req EXCEPT ![r] = state]
      BY <2>1, <3>1
    <3> HIDE DEF state
    <3> QED
      BY <2>2, <3>2, DarkRead
  <2> QED
    BY <2>2, <2>3, <2>4
<1>7. ASSUME NEW r \in Requests, Fill(r) \/ Publish(r) PROVE DarkForGood(id)'
  BY <1>7, DarkWrite DEF Fill, Publish
<1>8. ASSUME NEW r \in Requests, NEW user \in Users, NEW body \in Bodies,
             PatchResolve(r, user, body)
      PROVE  DarkForGood(id)'
  <2> DEFINE step == IF body.url = Keep THEN "update" ELSE "validate"
             state == [Idle EXCEPT !.pc = step, !.user = user, !.id = lookup,
                                   !.copy = links[lookup], !.body = body]
  <2>1. lookup # id
    BY <1>8 DEF PatchResolve, Owns, DarkForGood, Retired, Live
  <2>2. ~Carries(state, id)
    BY <2>1 DEF Carries, Idle
  <2>3. req' = [req EXCEPT ![r] = state] /\ UNCHANGED <<cacheVars, dbVars>>
    BY <1>8 DEF PatchResolve, Begin
  <2> HIDE DEF state
  <2> QED
    BY <2>2, <2>3, DarkRead
<1>9. ASSUME NEW r \in Requests, PatchValidate(r) PROVE DarkForGood(id)'
  <2> DEFINE state == [req[r] EXCEPT !.pc = "update"]
  <2>1. req[r].id # id /\ req[r] \in RequestStates
    BY <1>9 DEF PatchValidate, DarkForGood, Carries, TypeInv, TypeOK
  <2>2. ~Carries(state, id)
    BY <2>1 DEF Carries, RequestStates
  <2>3. req' = [req EXCEPT ![r] = state] /\ UNCHANGED <<cacheVars, dbVars>>
    BY <1>9 DEF PatchValidate, Proceed
  <2> HIDE DEF state
  <2> QED
    BY <2>2, <2>3, DarkRead
<1>10. ASSUME NEW r \in Requests, PatchUpdate(r) PROVE DarkForGood(id)'
  <2> DEFINE i == req[r].id
             write == PatchWrite(Patched(req[r].copy, req[r].body))
             state == [Idle EXCEPT !.pc = "publish", !.id = i, !.write = write]
  <2>1. i # id
    BY <1>10 DEF PatchUpdate, DarkForGood, Carries
  <2>2. /\ links'[id] = links[id] /\ lastId' = lastId /\ cacheVars' = cacheVars
        /\ req' = [req EXCEPT ![r] = state]
    BY <1>10, <2>1 DEF PatchUpdate, Proceed, cacheVars, TypeInv, TypeOK
  <2>3. ~Carries(state, id)
    BY <2>1 DEF Carries, Idle
  <2>4. Retired(id)'
    BY <2>2 DEF DarkForGood, Retired, Live
  <2> HIDE DEF state
  <2> QED
    BY <2>2, <2>3, <2>4, DarkStep
<1>11. ASSUME NEW r \in Requests, NEW user \in Users, DeleteResolve(r, user)
       PROVE  DarkForGood(id)'
  <2> DEFINE state == [Idle EXCEPT !.pc = "delete", !.user = user, !.id = lookup]
  <2>1. ~Carries(state, id)
    BY DEF Carries, Idle
  <2>2. req' = [req EXCEPT ![r] = state] /\ UNCHANGED <<cacheVars, dbVars>>
    BY <1>11 DEF DeleteResolve, Begin
  <2> HIDE DEF state
  <2> QED
    BY <2>1, <2>2, DarkRead
<1>12. ASSUME NEW r \in Requests, DeleteCommit(r) PROVE DarkForGood(id)'
  <2> DEFINE state == [Idle EXCEPT !.pc = "publish", !.id = req[r].id,
                                   !.write = "DELETED"]
  <2>1. /\ links' = [links EXCEPT ![req[r].id] = NoRow] /\ lastId' = lastId
        /\ cacheVars' = cacheVars /\ req' = [req EXCEPT ![r] = state]
    BY <1>12 DEF DeleteCommit, Proceed, cacheVars
  <2>2. ~Carries(state, id)
    BY UrlsAssumption DEF Carries, Idle, Tombstones
  <2>3. Retired(id)'
    BY <2>1 DEF DarkForGood, Retired, Live, TypeInv, TypeOK
  <2> HIDE DEF state
  <2> QED
    BY <2>1, <2>2, <2>3, DarkStep
<1>13. ASSUME NEW user \in Users, Claim(user) PROVE DarkForGood(id)'
  <2>1. /\ links' = [links EXCEPT ![lookup].owner = user] /\ links[lookup] # NoRow
        /\ UNCHANGED <<cache, origin, req, lastId>>
    BY <1>13 DEF Claim, cacheVars
  <2>2. Retired(id)'
    <3>1. CASE lookup # id
      BY <2>1, <3>1 DEF DarkForGood, Retired, Live, TypeInv, TypeOK
    <3>2. CASE lookup = id
      <4>1. links'[id] = [links[id] EXCEPT !.owner = user] /\ links[id] \in LinkRows
        BY <2>1, <3>2 DEF TypeInv, TypeOK
      <4> QED
        BY <2>1, <3>2, <4>1 DEF DarkForGood, Retired, Live, LinkRows
    <3> QED
      BY <3>1, <3>2
  <2> QED
    BY <2>1, <2>2 DEF DarkForGood, Dark
<1>14. ASSUME NEW r \in Requests, DisableLookup(r) PROVE DarkForGood(id)'
  <2> DEFINE state == [Idle EXCEPT !.pc = "flag", !.id = lookup]
  <2>1. ~Carries(state, id)
    BY DEF Carries, Idle
  <2>2. req' = [req EXCEPT ![r] = state] /\ UNCHANGED <<cacheVars, dbVars>>
    BY <1>14 DEF DisableLookup, Begin
  <2> HIDE DEF state
  <2> QED
    BY <2>1, <2>2, DarkRead
<1>15. ASSUME NEW r \in Requests, DisableFlag(r) PROVE DarkForGood(id)'
  <2> DEFINE i == req[r].id
             state == [req[r] EXCEPT !.pc = "mark", !.left = 3]
  <2>1. /\ links' = IF links[i] = NoRow THEN links ELSE [links EXCEPT ![i].disabled = TRUE]
        /\ lastId' = lastId /\ cacheVars' = cacheVars /\ req' = [req EXCEPT ![r] = state]
        /\ req[r] \in RequestStates
    BY <1>15 DEF DisableFlag, Proceed, cacheVars, TypeInv, TypeOK
  <2>2. ~Carries(state, id)
    BY <2>1 DEF Carries, RequestStates
  <2>3. Retired(id)'
    <3>1. CASE links'[id] = links[id]
      BY <2>1, <3>1 DEF DarkForGood, Retired, Live
    <3>2. CASE links'[id] # links[id]
      <4>1. /\ links'[id] = [links[id] EXCEPT !.disabled = TRUE]
            /\ links[id] # NoRow /\ links[id] \in LinkRows
        BY <2>1, <3>2 DEF TypeInv, TypeOK
      <4> QED
        BY <2>1, <4>1 DEF DarkForGood, Retired, Live, LinkRows
    <3> QED
      BY <3>1, <3>2
  <2> HIDE DEF state
  <2> QED
    BY <2>1, <2>2, <2>3, DarkStep
<1>16. ASSUME NEW r \in Requests, DisableMark(r) PROVE DarkForGood(id)'
  <2>1. /\ cache' \notin Urls /\ UNCHANGED <<links, lastId>>
        /\ req' = [req EXCEPT ![r] = Idle]
    BY <1>16, UrlsAssumption DEF DisableMark, SetTombstone, Tombstones, dbVars, Finish
  <2>2. \A q \in Requests : ~Carries(req'[q], id)
    BY <2>1, IdleCarries DEF DarkForGood, TypeInv, TypeOK
  <2> QED
    BY <2>1, <2>2 DEF DarkForGood, Retired, Live, Dark
<1>17. ASSUME NEW r \in Requests, DisableMarkFails(r) PROVE DarkForGood(id)'
  <2> DEFINE state == [req[r] EXCEPT !.left = @ - 1]
  <2>1. ~Carries(state, id)
    BY <1>17 DEF DisableMarkFails, Carries, RequestStates, TypeInv, TypeOK
  <2>2. /\ Finish(r) \/ req' = [req EXCEPT ![r] = state]
        /\ UNCHANGED <<cacheVars, dbVars>>
    BY <1>17 DEF DisableMarkFails, Proceed
  <2> HIDE DEF state
  <2> QED
    BY <2>1, <2>2, DarkRead, DarkFinish
<1>18. ASSUME Tick \/ Expire \/ UNCHANGED vars PROVE DarkForGood(id)'
  <2>1. /\ UNCHANGED <<links, lastId, req>>
        /\ \/ cache' = cache /\ origin' = origin
           \/ cache' \notin Urls
    BY <1>18, UrlsAssumption
    DEF Tick, Expire, KeyExpires, InvalidateCachedUrl, vars, cacheVars, dbVars, Absent
  <2> QED
    BY <2>1 DEF DarkForGood, Retired, Live, Dark
<1> QED
  BY <1>1, <1>2, <1>3, <1>4, <1>5, <1>6, <1>7, <1>8, <1>9, <1>10, <1>11, <1>12,
     <1>13, <1>14, <1>15, <1>16, <1>17, <1>18
  DEF Next, Advance

\* The safety half of DisabledGoesDark: from the moment nothing in flight can
\* write a disabled or deleted link's destination and the cache does not show it,
\* no PATCH, race, failed marker or reuse of its code lights it again.
THEOREM StaysDark ==
  ASSUME NEW id \in Ids
  PROVE  Spec => [](DarkForGood(id) => []Dark(id))
<1>1. TypeInv /\ OwnInv /\ DarkForGood(id) /\ [Next]_vars => DarkForGood(id)'
  BY DarkNext
<1>2. DarkForGood(id) => Dark(id)
  BY DEF DarkForGood
<1> QED
  BY <1>1, <1>2, OwnCorrect, PTL DEF Spec
-----------------------------------------------------------------------------
(* What EventuallyCoherent waits for.  When the cache agrees with the       *)
(* database, and so does all that redirects in flight may still write, it  *)
(* agrees until somebody changes the link.                                 *)

Agrees(value) ==
  CASE value \in Urls    -> /\ lookup # 0
                           /\ links[lookup].url = value
                           /\ links[lookup].expiresAt > now
                           /\ ~links[lookup].private
                           /\ ~links[lookup].prefer301
                           /\ ~links[lookup].disabled
    [] value = "EXPIRED"  -> lookup # 0 /\ links[lookup].expiresAt <= now
    [] value = "DISABLED" -> lookup # 0 /\ links[lookup].disabled
    [] value \in {"NOT_FOUND", "DELETED"} -> lookup = 0
    [] OTHER              -> TRUE

\* A redirect reads the row of the link the code resolves to, and writes what
\* that row says.
Current(state) ==
  /\ state.pc = "row" => lookup # 0 /\ state.id = lookup
  /\ state.pc = "fill" => Agrees(state.write)

\* The link has expired, or will not.
Ageless == lookup # 0 => links[lookup].expiresAt <= now \/ links[lookup].expiresAt = Never

Settled == Quiet /\ Agrees(cache) /\ Ageless /\ \A r \in Requests : Current(req[r])


\* What the cache says of the code agrees if the row says the same as before.
LEMMA AgreesSame ==
  ASSUME NEW value, Agrees(value), now' = now, lookup' = lookup,
         lookup # 0 => /\ links'[lookup].url = links[lookup].url
                       /\ links'[lookup].expiresAt = links[lookup].expiresAt
                       /\ links'[lookup].private = links[lookup].private
                       /\ links'[lookup].prefer301 = links[lookup].prefer301
                       /\ links'[lookup].disabled = links[lookup].disabled
  PROVE  Agrees(value)'
<1>1. CASE lookup = 0
  BY <1>1 DEF Agrees
<1>2. CASE lookup # 0
  BY <1>2 DEF Agrees
<1> QED
  BY <1>1, <1>2

LEMMA NothingToSay == Agrees(Absent) /\ Current(Idle)
  BY UrlsAssumption DEF Agrees, Absent, Current, Idle

\* A step of one redirect, which leaves the database alone.
LEMMA SettledStep ==
  ASSUME TypeInv, Settled, Quiet', NEW r \in Requests, NEW state, Current(state),
         req' = [req EXCEPT ![r] = state], UNCHANGED <<dbVars, now>>,
         Agrees(cache')
  PROVE  Settled'
<1>1. \A value : Agrees(value) => Agrees(value)'
  <2> SUFFICES ASSUME NEW value, Agrees(value) PROVE Agrees(value)'
    OBVIOUS
  <2>1. now' = now /\ lookup' = lookup /\ links' = links
    BY DEF dbVars
  <2> QED
    BY <2>1 DEF Agrees
<1>2. Agrees(cache)'
  <2>1. PICK value : value = cache'
    OBVIOUS
  <2>2. Agrees(value)'
    BY <1>1, <2>1
  <2> QED
    BY <2>1, <2>2 DEF Agrees
<1>3. Ageless'
  BY DEF Settled, Ageless, dbVars
<1>4. ASSUME NEW q \in Requests PROVE Current(req[q])'
  <2>1. PICK s : s = req'[q] /\ Current(s)
    BY DEF TypeInv, TypeOK, Settled
  <2>2. Current(s)'
    <3>1. s.pc = "fill" => Agrees(s.write)'
      <4>1. PICK value : value = s.write
        OBVIOUS
      <4> QED
        BY <1>1, <2>1, <4>1 DEF Current
    <3> QED
      BY <2>1, <3>1 DEF Current, dbVars
  <2> QED
    BY <2>1, <2>2 DEF Current
<1> QED
  BY <1>2, <1>3, <1>4 DEF Settled

\* A request that changes the link is not quiet, from its first step on.
LEMMA QuietSteps ==
  ASSUME TypeInv, Quiet, Quiet', Next
  PROVE  \/ \E r \in Requests :
              \/ \E user \in Users \cup {Anon} : RedirectMiss(r, user)
              \/ RedirectLookup(r) \/ RedirectRow(r) \/ Fill(r) \/ Abandon(r)
         \/ \E user \in Users : Claim(user)
         \/ Tick \/ Expire
<1>1. ASSUME NEW r \in Requests, NEW state, Begin(r, state),
             state.pc \notin {"idle", "lookup", "row", "fill"}
      PROVE  FALSE
  <2>1. req'[r] = state
    BY <1>1 DEF Begin, TypeInv, TypeOK
  <2> QED
    BY <1>1, <2>1 DEF Quiet
<1>2. ASSUME NEW r \in Requests, NEW user \in Users \cup {Anon}, NEW form \in Forms,
             ShortenValidate(r, user, form)
      PROVE  FALSE
  <2> DEFINE state == [Idle EXCEPT
        !.pc = "insert", !.user = user,
        !.copy = [owner |-> user, url |-> form.url,
                  expiresAt |-> form.expiresAt, private |-> form.private,
                  prefer301 |-> form.prefer301, disabled |-> FALSE]]
  <2>1. state.pc = "insert" /\ Begin(r, state)
    BY <1>2 DEF ShortenValidate, Idle
  <2> HIDE DEF state
  <2> QED
    BY <1>1, <2>1
<1>3. ASSUME NEW r \in Requests, NEW user \in Users, DeleteResolve(r, user)
      PROVE  FALSE
  <2> DEFINE state == [Idle EXCEPT !.pc = "delete", !.user = user, !.id = lookup]
  <2>1. state.pc = "delete" /\ Begin(r, state)
    BY <1>3 DEF DeleteResolve, Idle
  <2> HIDE DEF state
  <2> QED
    BY <1>1, <2>1
<1>4. ASSUME NEW r \in Requests, NEW user \in Users, NEW body \in Bodies,
             PatchResolve(r, user, body)
      PROVE  FALSE
  <2> DEFINE state == [Idle EXCEPT
        !.pc = IF body.url = Keep THEN "update" ELSE "validate",
        !.user = user, !.id = lookup, !.copy = links[lookup], !.body = body]
  <2>1. state.pc \in {"update", "validate"} /\ Begin(r, state)
    BY <1>4 DEF PatchResolve, Idle
  <2> HIDE DEF state
  <2> QED
    BY <1>1, <2>1
<1>5. ASSUME NEW r \in Requests, DisableLookup(r) PROVE FALSE
  <2> DEFINE state == [Idle EXCEPT !.pc = "flag", !.id = lookup]
  <2>1. state.pc = "flag" /\ Begin(r, state)
    BY <1>5 DEF DisableLookup, Idle
  <2> HIDE DEF state
  <2> QED
    BY <1>1, <2>1
<1>6. ASSUME NEW r \in Requests, Advance(r)
      PROVE  RedirectLookup(r) \/ RedirectRow(r) \/ Fill(r)
  BY <1>6
  DEF Advance, Quiet, ShortenInsert, ShortenConflict, PatchValidate, PatchUpdate,
      DeleteCommit, Publish, DisableFlag, DisableMark
<1>7. ASSUME NEW r \in Requests, DisableMarkFails(r) PROVE FALSE
  BY <1>7 DEF DisableMarkFails, Quiet
<1> QED
  BY <1>2, <1>3, <1>4, <1>5, <1>6, <1>7 DEF Next

\* What a redirect writes for the row of the link the code resolves to agrees.
LEMMA WriteAgrees ==
  ASSUME TypeInv, LookupResolves, lookup # 0, NEW user,
         NEW value \in RedirectWrite(links[lookup], user)
  PROVE  Agrees(value)
<1>1. links[lookup] # NoRow /\ links[lookup] \in LinkRows
  BY DEF LookupResolves, Live, TypeInv, TypeOK
<1>2. links[lookup].url \in Urls /\ links[lookup].expiresAt \in Nat /\ now \in Nat
  BY <1>1, LinksAssumption DEF LinkRows, Expiries, Never, Times, TypeInv, TypeOK
<1>3. CASE Expired(links[lookup])
  BY <1>1, <1>3, UrlsAssumption DEF RedirectWrite, Expired, Agrees, Tombstones
<1>4. CASE ~Expired(links[lookup]) /\ links[lookup].disabled
  BY <1>1, <1>4, UrlsAssumption DEF RedirectWrite, Agrees, Tombstones
<1>5. CASE ~Expired(links[lookup]) /\ ~links[lookup].disabled
  BY <1>1, <1>2, <1>5, UrlsAssumption
  DEF RedirectWrite, Public302, Expired, Agrees, Tombstones
<1> QED
  BY <1>3, <1>4, <1>5

LEMMA SettledNext ==
  ASSUME TypeInv, LookupResolves, Settled, Quiet', [Next]_vars
  PROVE  Settled'
<1>0. Quiet /\ Agrees(cache) /\ \A r \in Requests : Current(req[r])
  BY DEF Settled
<1>1. CASE UNCHANGED vars
  BY <1>1 DEF vars, Settled, Quiet, Agrees, Ageless, Current
<1>2. ASSUME NEW r \in Requests, NEW user \in Users \cup {Anon}, RedirectMiss(r, user)
      PROVE  Settled'
  <2> DEFINE state == [Idle EXCEPT !.pc = "lookup", !.user = user]
  <2>1. req' = [req EXCEPT ![r] = state] /\ Current(state)
    BY <1>2 DEF RedirectMiss, Begin, Current, Idle
  <2>2. cache' = cache /\ UNCHANGED <<dbVars, now>>
    BY <1>2 DEF RedirectMiss, cacheVars
  <2> HIDE DEF state
  <2> QED
    BY <1>0, <2>1, <2>2, SettledStep
<1>3. ASSUME NEW r \in Requests, RedirectLookup(r) PROVE Settled'
  <2> DEFINE state == IF lookup = 0
                      THEN [Idle EXCEPT !.pc = "fill", !.write = "NOT_FOUND"]
                      ELSE [req[r] EXCEPT !.pc = "row", !.id = lookup]
  <2>1. req' = [req EXCEPT ![r] = state]
    BY <1>3 DEF RedirectLookup, Proceed
  <2>2. Current(state)
    <3>1. CASE lookup = 0
      BY <3>1, UrlsAssumption DEF Current, Idle, Agrees, Tombstones
    <3>2. CASE lookup # 0
      <4>1. state.pc = "row" /\ state.id = lookup
        BY <3>2 DEF TypeInv, TypeOK, RequestStates
      <4> QED
        BY <3>2, <4>1 DEF Current
    <3> QED
      BY <3>1, <3>2
  <2>3. cache' = cache /\ UNCHANGED <<dbVars, now>>
    BY <1>3 DEF RedirectLookup, cacheVars
  <2> HIDE DEF state
  <2> QED
    BY <1>0, <2>1, <2>2, <2>3, SettledStep
<1>4. ASSUME NEW r \in Requests, RedirectRow(r) PROVE Settled'
  <2>1. lookup # 0 /\ req[r].id = lookup
    BY <1>0, <1>4 DEF RedirectRow, Current
  <2>2. cache' = cache /\ UNCHANGED <<dbVars, now>>
    BY <1>4 DEF RedirectRow, cacheVars
  <2>3. CASE req' = [req EXCEPT ![r] = Idle]
    BY <1>0, <2>2, <2>3, NothingToSay, SettledStep
  <2>4. ASSUME NEW value \in RedirectWrite(links[lookup], req[r].user),
               req' = [req EXCEPT ![r] = [Idle EXCEPT !.pc = "fill", !.id = lookup,
                                                      !.write = value]]
        PROVE  Settled'
    <3> DEFINE state == [Idle EXCEPT !.pc = "fill", !.id = lookup, !.write = value]
    <3>1. state.pc = "fill" /\ state.write = value
      BY DEF Idle
    <3>2. Agrees(value)
      BY <2>1, <2>4, WriteAgrees
    <3>3. req' = [req EXCEPT ![r] = state]
      BY <2>4
    <3> HIDE DEF state
    <3>4. Current(state)
      BY <3>1, <3>2 DEF Current
    <3> QED
      BY <1>0, <2>2, <3>3, <3>4, SettledStep
  <2> QED
    BY <1>4, <2>1, <2>3, <2>4 DEF RedirectRow, Finish, Proceed
<1>5. ASSUME NEW r \in Requests, Fill(r) PROVE Settled'
  <2>1. /\ CacheWrite(req[r].write, req[r].id) /\ req' = [req EXCEPT ![r] = Idle]
        /\ UNCHANGED <<dbVars, now>> /\ Agrees(req[r].write)
    BY <1>0, <1>5 DEF Fill, Finish, Current
  <2>2. cache' \in {req[r].write, cache, Absent}
    BY <2>1 DEF CacheWrite, SetCachedUrl, SetTombstone, InvalidateCachedUrl, cacheVars
  <2>3. Agrees(cache')
    BY <1>0, <2>1, <2>2, NothingToSay
  <2> QED
    BY <2>1, <2>3, NothingToSay, SettledStep
<1>6. ASSUME NEW r \in Requests, Abandon(r) PROVE Settled'
  <2>1. /\ req' = [req EXCEPT ![r] = Idle] /\ cache' = cache
        /\ UNCHANGED <<dbVars, now>>
    BY <1>6 DEF Abandon, Finish, cacheVars
  <2> QED
    BY <1>0, <2>1, NothingToSay, SettledStep
<1>7. ASSUME NEW user \in Users, Claim(user) PROVE Settled'
  <2>1. /\ links' = [links EXCEPT ![lookup].owner = user] /\ lookup # 0
        /\ UNCHANGED <<cache, lookup, now, req>>
    BY <1>7 DEF Claim, cacheVars
  <2>2. links[lookup] \in LinkRows /\ lookup \in Ids
    BY <1>7 DEF Claim, TypeInv, TypeOK
  <2>3. links'[lookup] = [links[lookup] EXCEPT !.owner = user]
    BY <2>1, <2>2 DEF TypeInv, TypeOK
  <2>4. /\ links'[lookup].url = links[lookup].url
        /\ links'[lookup].expiresAt = links[lookup].expiresAt
        /\ links'[lookup].private = links[lookup].private
        /\ links'[lookup].prefer301 = links[lookup].prefer301
        /\ links'[lookup].disabled = links[lookup].disabled
    BY <2>2, <2>3 DEF LinkRows
  <2>5. ASSUME NEW value, Agrees(value) PROVE Agrees(value)'
    BY <2>1, <2>4, <2>5, AgreesSame
  <2>6. Agrees(cache)'
    <3>1. PICK value : value = cache
      OBVIOUS
    <3>2. Agrees(value)'
      BY <1>0, <2>5, <3>1
    <3> QED
      BY <2>1, <3>1, <3>2 DEF Agrees
  <2>7. ASSUME NEW q \in Requests PROVE Current(req[q])'
    <3>1. PICK s : s = req[q]
      OBVIOUS
    <3>2. PICK value : value = s.write
      OBVIOUS
    <3>3. Current(s)
      BY <1>0, <3>1
    <3>4. s.pc = "fill" => Agrees(value)'
      BY <2>5, <3>2, <3>3 DEF Current
    <3> QED
      BY <2>1, <3>1, <3>2, <3>3, <3>4 DEF Current
  <2>8. Ageless'
    BY <2>1, <2>4 DEF Settled, Ageless
  <2> QED
    BY <2>6, <2>7, <2>8 DEF Settled
<1>8. CASE Tick
  <2>1. now' = now + 1 /\ UNCHANGED <<cache, lookup, links, req>> /\ now < MaxTime
    BY <1>8 DEF Tick, cacheVars, dbVars
  <2>2. now \in Nat /\ MaxTime \in Nat
    BY LinksAssumption DEF TypeInv, TypeOK, Times
  <2>3. lookup # 0 => \/ links[lookup].expiresAt \in Nat /\ links[lookup].expiresAt <= now
                      \/ links[lookup].expiresAt = MaxTime + 1
    <3>1. lookup # 0 => links[lookup] \in LinkRows
      BY DEF LookupResolves, Live, TypeInv, TypeOK
    <3>2. lookup # 0 => links[lookup].expiresAt \in Nat
      BY <2>2, <3>1 DEF LinkRows, Expiries, Never, Times
    <3> QED
      BY <3>2 DEF Settled, Ageless, Never
  <2>4. lookup # 0 => /\ links[lookup].expiresAt <= now <=> links[lookup].expiresAt <= now + 1
                      /\ links[lookup].expiresAt > now <=> links[lookup].expiresAt > now + 1
    BY <2>1, <2>2, <2>3
  <2>5. Ageless'
    BY <2>1, <2>4 DEF Settled, Ageless
  <2>6. ASSUME NEW value, Agrees(value) PROVE Agrees(value)'
    <3>1. CASE lookup = 0
      BY <2>1, <2>6, <3>1 DEF Agrees
    <3>2. CASE lookup # 0
      BY <2>1, <2>4, <2>6, <3>2 DEF Agrees
    <3> QED
      BY <3>1, <3>2
  <2>7. Agrees(cache)'
    <3>1. PICK value : value = cache
      OBVIOUS
    <3>2. Agrees(value)'
      BY <1>0, <2>6, <3>1
    <3> QED
      BY <2>1, <3>1, <3>2 DEF Agrees
  <2>8. ASSUME NEW q \in Requests PROVE Current(req[q])'
    <3>1. PICK s : s = req[q]
      OBVIOUS
    <3>2. PICK value : value = s.write
      OBVIOUS
    <3>3. Current(s)
      BY <1>0, <3>1
    <3>4. s.pc = "fill" => Agrees(value)'
      BY <2>6, <3>2, <3>3 DEF Current
    <3> QED
      BY <2>1, <3>1, <3>2, <3>3, <3>4 DEF Current
  <2> QED
    BY <2>5, <2>7, <2>8 DEF Settled
<1>9. CASE Expire
  <2>1. cache' = Absent /\ UNCHANGED <<lookup, links, now, req>>
    BY <1>9 DEF Expire, KeyExpires, InvalidateCachedUrl, dbVars
  <2>2. Agrees(cache)'
    BY <2>1, UrlsAssumption DEF Agrees, Absent
  <2> QED
    BY <2>1, <2>2 DEF Settled, Current, Ageless, Agrees
<1> QED
  BY <1>0, <1>1, <1>2, <1>3, <1>4, <1>5, <1>6, <1>7, <1>8, <1>9, QuietSteps

\* The safety half of EventuallyCoherent: once the cache and every redirect in
\* flight agree with the database, they do as long as nobody changes the link,
\* through fills in any order, lost writes, claims and the clock.
THEOREM StaysCoherent == Spec => [](Settled => ([]Quiet => []Coherent))
<1>1. TypeInv /\ LookupResolves /\ Settled /\ Quiet' /\ [Next]_vars => Settled'
  BY SettledNext
<1>2. Settled => Coherent
  BY DEF Settled, Agrees, Coherent
<1>3. Spec => []TypeInv
  BY TypeInit, TypeNext, PTL DEF Spec
<1> QED
  BY <1>1, <1>2, <1>3, LookupResolvesHolds, PTL DEF Spec

-----------------------------------------------------------------------------
(* What a DELETE takes down.  While it is the only PATCH or DELETE in      *)
(* flight, the code still resolves to the link it was checked on.          *)

\* Where a PATCH or DELETE may stand after a step.
LEMMA OwnerMoves ==
  ASSUME TypeInv, [Next]_vars
  PROVE  \/ UNCHANGED req
         \/ \E q \in Requests : \E state :
              /\ req' = [req EXCEPT ![q] = state]
              /\ \/ state.pc \notin OwnerSteps
                 \/ state.pc \in {"update", "publish"} /\ req[q].pc \in OwnerSteps
                 \/ /\ OwnerMayWrite /\ UNCHANGED dbVars
                    /\ state.pc \in {"validate", "update"}
                 \/ /\ OwnerMayWrite /\ UNCHANGED dbVars
                    /\ state.pc = "delete" /\ state.id = lookup /\ lookup # 0
<1> DEFINE Moves ==
      \E q \in Requests : \E state :
        /\ req' = [req EXCEPT ![q] = state]
        /\ \/ state.pc \notin OwnerSteps
           \/ state.pc \in {"update", "publish"} /\ req[q].pc \in OwnerSteps
           \/ /\ OwnerMayWrite /\ UNCHANGED dbVars
              /\ state.pc \in {"validate", "update"}
           \/ /\ OwnerMayWrite /\ UNCHANGED dbVars
              /\ state.pc = "delete" /\ state.id = lookup /\ lookup # 0
<1>0. \A q \in Requests : req[q] \in RequestStates
  BY DEF TypeInv, TypeOK
<1>1. ASSUME NEW q \in Requests, NEW state, req' = [req EXCEPT ![q] = state],
             state.pc \notin OwnerSteps
      PROVE  Moves
  BY <1>1
<1>2. ASSUME NEW q \in Requests, Finish(q) PROVE Moves
  <2>1. Idle.pc = "idle" /\ "idle" \notin OwnerSteps
    BY DEF Idle, OwnerSteps
  <2> QED
    BY <1>1, <1>2, <2>1 DEF Finish
<1>3. ASSUME NEW q \in Requests, NEW step \in {"fill", "publish"}, NEW id, NEW write,
             req' = [req EXCEPT ![q] = [Idle EXCEPT !.pc = step, !.id = id, !.write = write]],
             step = "publish" => req[q].pc \in {"update", "delete"}
      PROVE  Moves
  <2> DEFINE state == [Idle EXCEPT !.pc = step, !.id = id, !.write = write]
  <2>1. state.pc = step
    BY DEF Idle
  <2>2. req' = [req EXCEPT ![q] = state]
    BY <1>3
  <2> HIDE DEF state
  <2>3. step \notin OwnerSteps \/ (step = "publish" /\ req[q].pc \in OwnerSteps)
    BY <1>3 DEF OwnerSteps
  <2> QED
    BY <2>1, <2>2, <2>3
<1>4. ASSUME NEW q \in Requests, NEW user \in Users, NEW body \in Bodies,
             PatchResolve(q, user, body)
      PROVE  Moves
  <2> DEFINE state == [Idle EXCEPT
                !.pc = IF body.url = Keep THEN "update" ELSE "validate",
                !.user = user, !.id = lookup, !.copy = links[lookup], !.body = body]
  <2>1. state.pc \in {"validate", "update"}
    BY DEF Idle
  <2>2. req' = [req EXCEPT ![q] = state] /\ OwnerMayWrite /\ UNCHANGED dbVars
    BY <1>4 DEF PatchResolve, Begin
  <2> HIDE DEF state
  <2> QED
    BY <2>1, <2>2
<1>5. ASSUME NEW q \in Requests, NEW user \in Users, DeleteResolve(q, user)
      PROVE  Moves
  <2> DEFINE state == [Idle EXCEPT !.pc = "delete", !.user = user, !.id = lookup]
  <2>1. state.pc = "delete" /\ state.id = lookup
    BY DEF Idle
  <2>2. req' = [req EXCEPT ![q] = state] /\ OwnerMayWrite /\ UNCHANGED dbVars /\ lookup # 0
    BY <1>5 DEF DeleteResolve, Begin, Owns
  <2> HIDE DEF state
  <2> QED
    BY <2>1, <2>2
<1>6. ASSUME NEW q \in Requests, PatchValidate(q) PROVE Moves
  <2> DEFINE state == [req[q] EXCEPT !.pc = "update"]
  <2>1. state.pc = "update" /\ req[q].pc = "validate"
    BY <1>0, <1>6 DEF PatchValidate, RequestStates
  <2>2. req' = [req EXCEPT ![q] = state]
    BY <1>6 DEF PatchValidate, Proceed
  <2>3. req[q].pc \in OwnerSteps
    BY <2>1 DEF OwnerSteps
  <2> HIDE DEF state
  <2> QED
    BY <2>1, <2>2, <2>3
<1> HIDE DEF Moves
<1>7. ASSUME NEW q \in Requests, NEW user \in Users \cup {Anon},
             NEW form \in Forms, ShortenValidate(q, user, form)
      PROVE  Moves
  <2> DEFINE state == [Idle EXCEPT
        !.pc = "insert", !.user = user,
        !.copy = [owner |-> user, url |-> form.url,
                  expiresAt |-> form.expiresAt, private |-> form.private,
                  prefer301 |-> form.prefer301, disabled |-> FALSE]]
  <2>1. state.pc \notin OwnerSteps
    BY DEF Idle, OwnerSteps
  <2>2. req' = [req EXCEPT ![q] = state]
    BY <1>7 DEF ShortenValidate, Begin
  <2> HIDE DEF state
  <2> QED
    BY <1>1, <2>1, <2>2
<1>8. ASSUME NEW q \in Requests, NEW user \in Users \cup {Anon}, RedirectMiss(q, user)
      PROVE  Moves
  <2> DEFINE state == [Idle EXCEPT !.pc = "lookup", !.user = user]
  <2>1. state.pc \notin OwnerSteps
    BY DEF Idle, OwnerSteps
  <2>2. req' = [req EXCEPT ![q] = state]
    BY <1>8 DEF RedirectMiss, Begin
  <2> HIDE DEF state
  <2> QED
    BY <1>1, <2>1, <2>2
<1>9. ASSUME NEW q \in Requests, DisableLookup(q) PROVE Moves
  <2> DEFINE state == [Idle EXCEPT !.pc = "flag", !.id = lookup]
  <2>1. state.pc \notin OwnerSteps
    BY DEF Idle, OwnerSteps
  <2>2. req' = [req EXCEPT ![q] = state]
    BY <1>9 DEF DisableLookup, Begin
  <2> HIDE DEF state
  <2> QED
    BY <1>1, <2>1, <2>2
<1>10. ASSUME NEW q \in Requests, RedirectLookup(q) PROVE Moves
  <2>1. CASE lookup = 0
    <3> DEFINE state == [Idle EXCEPT !.pc = "fill", !.write = "NOT_FOUND"]
    <3>1. state.pc \notin OwnerSteps
      BY DEF Idle, OwnerSteps
    <3>2. req' = [req EXCEPT ![q] = state]
      BY <1>10, <2>1 DEF RedirectLookup, Proceed
    <3> HIDE DEF state
    <3> QED
      BY <1>1, <3>1, <3>2
  <2>2. CASE lookup # 0
    <3> DEFINE state == [req[q] EXCEPT !.pc = "row", !.id = lookup]
    <3>1. state.pc \notin OwnerSteps
      BY <1>0 DEF RequestStates, OwnerSteps
    <3>2. req' = [req EXCEPT ![q] = state]
      BY <1>10, <2>2 DEF RedirectLookup, Proceed
    <3> HIDE DEF state
    <3> QED
      BY <1>1, <3>1, <3>2
  <2> QED
    BY <2>1, <2>2
<1>11. ASSUME NEW q \in Requests, DisableFlag(q) PROVE Moves
  <2> DEFINE state == [req[q] EXCEPT !.pc = "mark", !.left = 3]
  <2>1. state.pc \notin OwnerSteps
    BY <1>0 DEF RequestStates, OwnerSteps
  <2>2. req' = [req EXCEPT ![q] = state]
    BY <1>11 DEF DisableFlag, Proceed
  <2> HIDE DEF state
  <2> QED
    BY <1>1, <2>1, <2>2
<1>12. ASSUME NEW q \in Requests, DisableMarkFails(q) PROVE Moves
  <2> DEFINE state == [req[q] EXCEPT !.left = @ - 1]
  <2>1. state.pc \notin OwnerSteps
    BY <1>0, <1>12 DEF DisableMarkFails, RequestStates, OwnerSteps
  <2>2. Finish(q) \/ req' = [req EXCEPT ![q] = state]
    BY <1>12 DEF DisableMarkFails, Proceed
  <2> HIDE DEF state
  <2> QED
    BY <1>1, <1>2, <2>1, <2>2
<1>13. ASSUME NEW q \in Requests, \/ ShortenInsert(q) \/ RedirectRow(q) \/ PatchUpdate(q)
                                  \/ DeleteCommit(q)
       PROVE  Moves
  <2>1. CASE ShortenInsert(q)
    BY <1>2, <1>3, <2>1 DEF ShortenInsert, Proceed
  <2>2. CASE RedirectRow(q)
    BY <1>2, <1>3, <2>2 DEF RedirectRow, Proceed
  <2>3. CASE PatchUpdate(q)
    BY <1>3, <2>3 DEF PatchUpdate, Proceed
  <2>4. CASE DeleteCommit(q)
    BY <1>3, <2>4 DEF DeleteCommit, Proceed
  <2> QED
    BY <1>13, <2>1, <2>2, <2>3, <2>4
<1>14. ASSUME NEW q \in Requests,
              \/ ShortenConflict(q) \/ Fill(q) \/ Publish(q) \/ DisableMark(q) \/ Abandon(q)
       PROVE  Moves
  BY <1>2, <1>14 DEF ShortenConflict, Fill, Publish, DisableMark, Abandon
<1>15. ASSUME Tick \/ Expire \/ (\E user \in Users : Claim(user)) \/ UNCHANGED vars
       PROVE  UNCHANGED req
  BY <1>15 DEF Tick, Expire, Claim, vars
<1>16. UNCHANGED req \/ Moves
  BY <1>4, <1>5, <1>6, <1>7, <1>8, <1>9, <1>10, <1>11, <1>12, <1>13, <1>14, <1>15
  DEF Next, Advance
<1> QED
  BY <1>16 DEF Moves

\* With one PATCH or DELETE at a time: a DELETE is of the link the code resolves
\* to, and there is no link the code does not resolve to.
AloneInv ==
  /\ \A r, q \in Requests : req[r].pc \in OwnerSteps /\ req[q].pc \in OwnerSteps => r = q
  /\ \A r \in Requests : req[r].pc = "delete" => lookup # 0 /\ req[r].id = lookup
  /\ \A id \in Ids : Live(id) => lookup = id

\* What the steps that change the tables do to them.
LEMMA TablesStep ==
  ASSUME TypeInv, OwnInv, [Next]_vars
  PROVE  \/ /\ lookup' = lookup
            /\ \A id \in Ids : Live(id)' <=> Live(id)
         \/ lookup = 0 /\ \A id \in Ids : Live(id)' => Live(id) \/ lookup' = id
         \/ \E r \in Requests :
              /\ DeleteCommit(r) /\ lookup' = 0
              /\ \A id \in Ids : Live(id)' => Live(id) /\ id # req[r].id
<1> USE DEF TypeInv, TypeOK, CarriedOK, Fits, Live
<1>1. CASE UNCHANGED dbVars
  BY <1>1 DEF dbVars
<1>2. ASSUME NEW r \in Requests, ShortenInsert(r)
      PROVE  lookup = 0 /\ \A id \in Ids : Live(id)' => Live(id) \/ lookup' = id
  BY <1>2 DEF ShortenInsert
<1>3. ASSUME NEW r \in Requests, PatchUpdate(r)
      PROVE  lookup' = lookup /\ \A id \in Ids : Live(id)' <=> Live(id)
  <2>1. req[r].body \in PatchSet /\ req[r].id \in Ids
    BY <1>3 DEF PatchUpdate, RequestStates
  <2>2. links[req[r].id] # NoRow => Patched(links[req[r].id], req[r].body) # NoRow
    BY <2>1, PatchedType, LinksAssumption
  <2> QED
    BY <1>3, <2>2 DEF PatchUpdate
<1>4. ASSUME NEW r \in Requests, DeleteCommit(r)
      PROVE  /\ lookup' = 0
             /\ \A id \in Ids : Live(id)' => Live(id) /\ id # req[r].id
  BY <1>4 DEF DeleteCommit
<1>5. ASSUME NEW r \in Requests, DisableFlag(r)
      PROVE  lookup' = lookup /\ \A id \in Ids : Live(id)' <=> Live(id)
  BY <1>5, LinksAssumption DEF DisableFlag, LinkRows
<1>6. ASSUME NEW user \in Users, Claim(user)
      PROVE  lookup' = lookup /\ \A id \in Ids : Live(id)' <=> Live(id)
  BY <1>6, LinksAssumption DEF Claim, LinkRows
<1>7. CASE UNCHANGED dbVars
  BY <1>7 DEF dbVars
<1> QED
  BY <1>2, <1>3, <1>4, <1>5, <1>6, <1>7, DbStep DEF dbVars

\* The code resolves to its newest link, if to any.
Newest == lookup \in {0, lastId}

\* The DELETE that makes a link unreachable resolved an earlier one: ids grow, the
\* code resolved to the newest, and a DELETE that resolved that one deletes it.
THEOREM OnlyStaleDeleteOrphansHolds == Spec => OnlyStaleDeleteOrphans
<1> DEFINE Orphaned(id) == (Live(id) => lookup = id) /\ Live(id)' /\ lookup' # id
           ByStale(id) == \E r \in Requests : /\ req[r].pc = "delete" /\ req'[r] # req[r]
                                             /\ req[r].id < id
<1>1. Init => Newest
  BY DEF Init, Newest
<1>2. ASSUME Newest, [Next]_vars PROVE Newest'
  BY <1>2, DbStep
  DEF Newest, dbVars, ShortenInsert, PatchUpdate, DeleteCommit, DisableFlag, Claim
<1>3. ASSUME TypeInv, OwnInv, Newest, [Next]_vars, NEW id \in Ids, Orphaned(id)
      PROVE  ByStale(id)
  <2>1. id # 0
    BY LinksAssumption DEF Ids
  <2>2. PICK r \in Requests : /\ DeleteCommit(r)
                              /\ \A j \in Ids : Live(j)' => Live(j) /\ j # req[r].id
    BY <1>3, <2>1, TablesStep
  <2>3. req[r].pc = "delete" /\ req[r].id \in 1..lastId /\ req[r].id # id
    BY <1>3, <2>2 DEF DeleteCommit, OwnInv, Holds
  <2>4. id = lastId /\ lastId \in Nat
    BY <1>3, <2>1, <2>2, LinksAssumption DEF Newest, Ids
  <2>5. req'[r] # req[r]
    <3> DEFINE state == [Idle EXCEPT !.pc = "publish", !.id = req[r].id, !.write = "DELETED"]
    <3>1. state.pc = "publish"
      BY DEF Idle
    <3>2. req' = [req EXCEPT ![r] = state]
      BY <2>2 DEF DeleteCommit, Proceed
    <3> HIDE DEF state
    <3> QED
      BY <1>3, <2>3, <3>1, <3>2 DEF TypeInv, TypeOK
  <2> QED
    BY <2>3, <2>4, <2>5
<1>4. TypeInv /\ OwnInv /\ Newest /\ [Next]_vars
        => [\A id \in Ids : Orphaned(id) => ByStale(id)]_vars
  BY <1>3
<1> QED
  BY <1>1, <1>2, <1>4, OwnCorrect, PTL DEF Spec, OnlyStaleDeleteOrphans

LEMMA AloneNext ==
  ASSUME MaxOwnerWrites <= 1, TypeInv, OwnInv, AloneInv, [Next]_vars
  PROVE  AloneInv'
<1>1. \A r, q \in Requests : req'[r].pc \in OwnerSteps /\ req'[q].pc \in OwnerSteps => r = q
  <2>1. "validate" \in OwnerSteps
    BY DEF OwnerSteps
  <2> QED
    BY <2>1, OwnerMoves, OwnerAlone DEF AloneInv, TypeInv, TypeOK
<1>2. ASSUME NEW r \in Requests, DeleteCommit(r) PROVE AloneInv'
  <2>1. req[r].pc = "delete" /\ lookup' = 0 /\ req[r].id = lookup
    BY <1>2 DEF DeleteCommit, AloneInv
  <2>2. \A id \in Ids : ~Live(id)'
    BY <1>2, <2>1 DEF DeleteCommit, AloneInv, Live, TypeInv, TypeOK
  <2>3. ASSUME NEW q \in Requests PROVE req'[q].pc # "delete"
    <3> DEFINE state == [Idle EXCEPT !.pc = "publish", !.id = req[r].id, !.write = "DELETED"]
    <3>1. state.pc = "publish"
      BY DEF Idle
    <3>2. req' = [req EXCEPT ![r] = state]
      BY <1>2 DEF DeleteCommit, Proceed
    <3> HIDE DEF state
    <3>3. q # r => req[q].pc # "delete"
      BY <2>1 DEF AloneInv, OwnerSteps
    <3> QED
      BY <3>1, <3>2, <3>3 DEF TypeInv, TypeOK
  <2> QED
    BY <1>1, <2>2, <2>3 DEF AloneInv
<1>3. CASE ~\E r \in Requests : DeleteCommit(r)
  <2>1. \/ lookup' = lookup /\ \A id \in Ids : Live(id)' <=> Live(id)
        \/ lookup = 0 /\ \A id \in Ids : Live(id)' => Live(id) \/ lookup' = id
    BY <1>3, TablesStep
  <2>2. ASSUME NEW r \in Requests, req'[r].pc = "delete"
        PROVE  lookup' # 0 /\ req'[r].id = lookup'
    <3>1. \/ req'[r] = req[r]
          \/ UNCHANGED dbVars /\ req'[r].id = lookup /\ lookup # 0
      BY <2>2, OwnerMoves DEF OwnerSteps, TypeInv, TypeOK
    <3> QED
      BY <2>1, <2>2, <3>1 DEF AloneInv, dbVars
  <2>3. ASSUME NEW id \in Ids, Live(id)' PROVE lookup' = id
    <3>1. lookup = 0 => ~Live(id)
      BY LinksAssumption DEF AloneInv, Ids
    <3> QED
      BY <2>1, <2>3, <3>1 DEF AloneInv
  <2> QED
    BY <1>1, <2>2, <2>3 DEF AloneInv
<1> QED
  BY <1>2, <1>3

LEMMA AloneInit == Init => AloneInv
  BY DEF Init, AloneInv, Idle, Live, OwnerSteps

\* A DELETE of the link the code resolves to acts for its owner.
LEMMA UnpublishStep ==
  ASSUME TypeInv, OwnInv, LookupResolves, [Next]_vars, lookup # 0, lookup' # lookup,
         \A r \in Requests : req[r].pc = "delete" => req[r].id = lookup
  PROVE  ActsFor(links[lookup].owner, {"delete"})
<1>1. PICK r \in Requests : DeleteCommit(r)
  BY TablesStep
<1>2. req[r].pc = "delete" /\ links[lookup].owner = req[r].user
  BY <1>1 DEF DeleteCommit, OwnInv, Holds, LookupResolves, Live
<1>3. req'[r].pc = "publish"
  <2> DEFINE state == [Idle EXCEPT !.pc = "publish", !.id = req[r].id, !.write = "DELETED"]
  <2>1. state.pc = "publish"
    BY DEF Idle
  <2>2. req' = [req EXCEPT ![r] = state]
    BY <1>1 DEF DeleteCommit, Proceed
  <2> HIDE DEF state
  <2> QED
    BY <2>1, <2>2 DEF TypeInv, TypeOK
<1> QED
  BY <1>2, <1>3 DEF ActsFor

\* links.ts: "you cannot delete a link you do not own".  For the code it takes two
\* PATCHes or DELETEs at once and a second link of the code to break that: with
\* either missing, a code stops resolving only by a DELETE of its link's owner.
THEOREM OnlyOwnerUnpublishesHolds ==
  ASSUME MaxOwnerWrites <= 1 \/ MaxLinks <= 1
  PROVE  Spec => OnlyOwnerUnpublishes
<1>1. CASE MaxOwnerWrites <= 1
  <2>1. TypeInv /\ OwnInv /\ AloneInv /\ [Next]_vars => AloneInv'
    BY <1>1, AloneNext
  <2>2. TypeInv /\ OwnInv /\ AloneInv /\ LookupResolves /\ [Next]_vars
          => [lookup # 0 /\ lookup' # lookup => ActsFor(links[lookup].owner, {"delete"})]_vars
    BY UnpublishStep DEF AloneInv
  <2> QED
    BY <2>1, <2>2, AloneInit, OwnCorrect, LookupResolvesHolds, PTL
    DEF Spec, OnlyOwnerUnpublishes
<1>2. CASE MaxLinks <= 1
  <2>1. TypeInv /\ OwnInv /\ LookupResolves /\ [Next]_vars
          => [lookup # 0 /\ lookup' # lookup => ActsFor(links[lookup].owner, {"delete"})]_vars
    <3> SUFFICES ASSUME TypeInv, OwnInv, LookupResolves, [Next]_vars, lookup # 0,
                        lookup' # lookup
                 PROVE  ActsFor(links[lookup].owner, {"delete"})
      OBVIOUS
    <3>1. \A r \in Requests : req[r].pc = "delete" => req[r].id = lookup
      BY <1>2, LinksAssumption
      DEF OwnInv, Holds, TypeInv, TypeOK, CarriedOK, Fits, Ids
    <3> QED
      BY <3>1, UnpublishStep
  <2> QED
    BY <2>1, OwnCorrect, LookupResolvesHolds, PTL DEF Spec, OnlyOwnerUnpublishes
<1> QED
  BY <1>1, <1>2

\* With one PATCH or DELETE at a time no link is left that its code does not
\* resolve to: nobody could delete, edit or disable it any more.
NoOrphan == \A id \in Ids : Live(id) => lookup = id
THEOREM NoOrphanHolds ==
  ASSUME MaxOwnerWrites <= 1
  PROVE  Spec => []NoOrphan
<1>1. TypeInv /\ OwnInv /\ AloneInv /\ [Next]_vars => AloneInv'
  BY AloneNext
<1>2. AloneInv => NoOrphan
  BY DEF AloneInv, NoOrphan
<1> QED
  BY <1>1, <1>2, AloneInit, OwnCorrect, PTL DEF Spec
=============================================================================
