-------------------------- MODULE DiscoveryProofs --------------------------
(***************************************************************************)
(* The safety properties of Discovery, for any requests, documents, tokens *)
(* and durations: the invariant IInv is inductive, and the properties      *)
(* follow from it.  A second invariant on top of it, Keyed, says what the  *)
(* keys are; with it Discovery is shown to implement KeyCache.             *)
(***************************************************************************)
EXTENDS Discovery, TLAPS

FetchRecord == [st : {"none", "sent", "got", "failed"}, began : Nat,
                doc : Docs \cup {<<>>}, at : Nat]

-----------------------------------------------------------------------------
(* Types. *)

\* The fetch a goroutine has under way keeps its type through each of the
\* steps of http.Client.Do that keyset.go's fetch waits for.
LEMMA FetchType ==
    ASSUME TypeOK, NEW f \in Fetcher
    PROVE  /\ FetchEnds(f) => fetch' \in [Fetcher -> FetchRecord]
           /\ [fetch EXCEPT ![f] = Sent] \in [Fetcher -> FetchRecord]
           /\ [fetch EXCEPT ![f] = NoFetch] \in [Fetcher -> FetchRecord]
<1>1. fetch \in [Fetcher -> FetchRecord] /\ jwks \in Docs /\ clock \in Nat
  BY DEF TypeOK, FetchRecord
<1>2. NoFetch \in FetchRecord /\ Sent \in FetchRecord
  BY <1>1 DEF FetchRecord, NoFetch, Sent
<1>3. ASSUME FetchAnswered(f) PROVE fetch' \in [Fetcher -> FetchRecord]
  BY <1>1, <1>3 DEF FetchAnswered, FetchRecord
<1>4. ASSUME FetchFails(f) PROVE fetch' \in [Fetcher -> FetchRecord]
  BY <1>1, <1>4 DEF FetchFails, FetchRecord
<1> QED BY <1>1, <1>2, <1>3, <1>4 DEF FetchEnds

\* An answer is one of those VerifySignature and Authenticate can give.
LEMMA ReplyType ==
    ASSUME TypeOK, NEW r \in Req, NEW what \in {"not_ready", "verified", "bad_signature", "unknown_kid"},
           Reply(r, what)
    PROVE  req' \in [Req -> Request]
  BY DEF TypeOK, Reply, Idle, Request

\* A request that moves on keeps its other fields, and their types.
LEMMA MoveType ==
    ASSUME NEW q \in Request, clock \in Nat, generation \in Nat
    PROVE  /\ \A tok \in Tokens : [q EXCEPT !.pc = "lookup", !.token = tok, !.came = clock] \in Request
           /\ [q EXCEPT !.pc = "wait", !.gen = generation] \in Request
           /\ \A p \in {"mark", "relookup"} : [q EXCEPT !.pc = p, !.now = clock] \in Request
           /\ \A p \in {"decide", "fetch", "relookup"} : [q EXCEPT !.pc = p] \in Request
           /\ q.now \in Nat
  BY DEF Request

\* Each step of a request keeps the types.
LEMMA RequestType ==
    ASSUME TypeOK, NEW r \in Req, RequestNext(r), UNCHANGED loopVars
    PROVE  TypeOK'
<1> USE DEF TypeOK, loopVars, providerVars, cacheVars, missVars
<1>0. req[r] \in Request /\ req \in [Req -> Request] /\ r \in Fetcher
  BY DEF Fetcher
<1>1. CASE \E tok \in Tokens : Authenticate(r, tok)
  <2>1. PICK tok \in Tokens : Authenticate(r, tok)
    BY <1>1
  <2>2. req' \in [Req -> Request]
    <3>1. CASE Reply(r, "not_ready")
      BY <3>1, ReplyType
    <3>2. CASE req' = [req EXCEPT ![r] = [@ EXCEPT !.pc = "lookup", !.token = tok, !.came = clock]]
      BY <1>0, <3>2, MoveType
    <3> QED BY <2>1, <3>1, <3>2 DEF Authenticate
  <2> QED BY <2>1, <2>2 DEF Authenticate
<1>2. CASE Lookup(r)
  <2>1. req' \in [Req -> Request]
    <3>1. CASE Reply(r, Verified(r))
      BY <3>1, ReplyType DEF Verified
    <3>2. CASE req' = [req EXCEPT ![r] = [@ EXCEPT !.pc = "wait", !.gen = generation]]
      BY <1>0, <3>2, MoveType
    <3> QED BY <1>2, <3>1, <3>2 DEF Lookup
  <2> QED BY <1>2, <2>1 DEF Lookup
<1>3. CASE LockRefreshing(r)
  <2>1. req' \in [Req -> Request]
    BY <1>0, <1>3, MoveType DEF LockRefreshing
  <2> QED BY <1>3, <2>1 DEF LockRefreshing
<1>4. CASE Decide(r)
  <2>1. req' \in [Req -> Request]
    BY <1>0, <1>4, MoveType DEF Decide
  <2> QED BY <1>4, <2>1 DEF Decide
<1>5. CASE Mark(r)
  <2>1. fetch' \in [Fetcher -> FetchRecord]
    BY <1>5, FetchType DEF Mark, Fetcher
  <2>2. req' \in [Req -> Request]
    BY <1>0, <1>5, MoveType DEF Mark
  <2>3. missFetched' \in Int
    <3>1. req[r].now \in Nat
      BY <1>0, MoveType
    <3>2. missFetched' = req[r].now
      BY <1>5 DEF Mark
    <3> QED BY <3>1, <3>2
  <2> QED BY <1>5, <2>1, <2>2, <2>3 DEF Mark, FetchRecord
<1>6. CASE Refreshed(r)
  <2>1. fetch' \in [Fetcher -> FetchRecord]
    BY <1>6, FetchType DEF Refreshed, Replace, Fetcher
  <2>2. snapAt' \in Nat /\ generation' \in Nat
    BY <1>6 DEF Refreshed, Replace, Fetcher
  <2>3. req' \in [Req -> Request]
    BY <1>0, <1>6, MoveType DEF Refreshed
  <2>4. waited' \in [Req -> SUBSET {"ok", "failed"}] /\ missFailed' \in BOOLEAN
    BY <1>6 DEF Refreshed, Ended
  <2> QED BY <1>6, <2>1, <2>2, <2>3, <2>4 DEF Refreshed, Ended, FetchRecord
<1>7. CASE RefreshFailed(r)
  <2>1. fetch' \in [Fetcher -> FetchRecord]
    BY <1>7, FetchType DEF RefreshFailed, Keep, Fetcher
  <2>2. req' \in [Req -> Request]
    BY <1>7, ReplyType DEF RefreshFailed
  <2> QED BY <1>7, <2>1, <2>2 DEF RefreshFailed, Keep, Ended, FetchRecord
<1>8. CASE Relookup(r)
  <2>1. req' \in [Req -> Request]
    BY <1>8, ReplyType DEF Relookup, Verified
  <2> QED BY <1>8, <2>1 DEF Relookup
<1>9. CASE RequestFetchEnds(r)
  <2>1. fetch' \in [Fetcher -> FetchRecord]
    BY <1>9, FetchType DEF RequestFetchEnds, Fetcher
  <2> QED BY <1>9, <2>1 DEF RequestFetchEnds, FetchRecord
<1> QED BY <1>1, <1>2, <1>3, <1>4, <1>5, <1>6, <1>7, <1>8, <1>9 DEF RequestNext, RequestStep

\* So does each step of the background goroutine, and of Shutdown.
LEMMA LoopType ==
    ASSUME TypeOK, Start \/ LoopStep \/ LoopFetchEnds \/ Shutdown \/ ShutdownReturns
    PROVE  TypeOK'
<1> USE IntervalsArePositive DEF TypeOK, othersVars, loopVars, providerVars, cacheVars, missVars
<1>0. Loop \in Fetcher
  BY DEF Fetcher
<1>1. CASE Start \/ Discovered \/ Wake
  <2>1. fetch' \in [Fetcher -> FetchRecord]
    BY <1>1, <1>0, FetchType DEF Start, Discovered, Wake
  <2> QED BY <1>1, <2>1 DEF Start, Discovered, Wake, FetchRecord
<1>2. CASE LoopFetchEnds
  <2>1. fetch' \in [Fetcher -> FetchRecord]
    BY <1>2, <1>0, FetchType DEF LoopFetchEnds
  <2> QED BY <1>2, <2>1 DEF LoopFetchEnds, FetchRecord
<1>3. CASE Loaded \/ Reread
  <2>1. fetch' \in [Fetcher -> FetchRecord]
    BY <1>3, <1>0, FetchType DEF Loaded, Reread, Replace, Keep
  <2>2. fetch[Loop].at \in Nat
    BY <1>0
  <2>3. generation' \in Nat /\ snapAt' \in Nat /\ rereadSnap' \in Nat
    BY <1>3, <2>2 DEF Loaded, Reread, Replace, Keep
  <2>4. wakeAt' \in Nat
    BY <1>3 DEF Loaded, Reread
  <2>5. rereadOK' \in BOOLEAN /\ ready' \in BOOLEAN
    BY <1>3, Zenon DEF Loaded, Reread
  <2> QED BY <1>3, <2>1, <2>3, <2>4, <2>5 DEF Loaded, Reread, FetchRecord
<1>4. CASE LoadFailed
  <2>1. fetch' \in [Fetcher -> FetchRecord]
    BY <1>4, <1>0, FetchType DEF LoadFailed
  <2> QED BY <1>4, <2>1 DEF LoadFailed, FetchRecord
<1>5. CASE SleepCancelled \/ Shutdown \/ ShutdownReturns
  BY <1>5 DEF SleepCancelled, Shutdown, ShutdownReturns
<1> QED BY <1>1, <1>2, <1>3, <1>4, <1>5 DEF LoopStep

\* The program starts with every variable of its type.
LEMMA InitType == Init => TypeOK
<1> SUFFICES ASSUME Init PROVE TypeOK
  OBVIOUS
<1> USE DEF Init, KeySetInit
<1>1. fetch \in [Fetcher -> FetchRecord]
  BY DEF NoFetch, FetchRecord
<1>2. req \in [Req -> Request]
  BY DEF Idle, Request
<1>3. missFetched \in Int
  BY DurationsArePositive
<1>4. waited \in [Req -> SUBSET {"ok", "failed"}]
  OBVIOUS
<1> QED BY <1>1, <1>2, <1>3, <1>4 DEF TypeOK, FetchRecord

\* Every step of it keeps them.
LEMMA NextType == TypeOK /\ [Next]_vars => TypeOK'
<1> SUFFICES ASSUME TypeOK, [Next]_vars PROVE TypeOK'
  OBVIOUS
<1>1. ASSUME NEW r \in Req, RequestNext(r), UNCHANGED loopVars PROVE TypeOK'
  BY <1>1, RequestType
<1>2. CASE Start \/ LoopStep \/ LoopFetchEnds \/ Shutdown \/ ShutdownReturns
  BY <1>2, LoopType
<1>3. ASSUME NEW doc \in Docs, Publish(doc), UNCHANGED loopVars PROVE TypeOK'
  BY <1>3 DEF TypeOK, Publish, loopVars, cacheVars, missVars
<1>4. CASE Tick
  BY <1>4 DEF TypeOK, Tick, loopVars, cacheVars, missVars
<1>5. CASE UNCHANGED vars
  BY <1>5 DEF TypeOK, vars, keySetVars, loopVars, providerVars, cacheVars, missVars
<1> QED BY <1>1, <1>2, <1>3, <1>4, <1>5 DEF Next

\* Every variable keeps its type.
THEOREM TypeCorrect == Spec => []TypeOK
  BY InitType, NextType, PTL DEF Spec

-----------------------------------------------------------------------------
(* The inductive invariant. *)

\* The fields the invariant compares are numbers.
LEMMA Numbers ==
    ASSUME TypeOK
    PROVE  /\ clock \in Nat /\ generation \in Nat /\ missFetched \in Int /\ snapAt \in Nat /\ wakeAt \in Nat
           /\ \A r \in Req : req[r].gen \in Nat /\ req[r].now \in Nat /\ req[r].came \in Nat
           /\ \A f \in Fetcher : fetch[f].began \in Nat /\ fetch[f].at \in Nat
           /\ \A r \in Req : r \in Fetcher /\ r # Loop /\ r # NoReq
           /\ Loop \in Fetcher
           /\ FetchTimeout \in Nat /\ MinRefreshInterval \in Nat /\ JWKSRefresh \in Nat
  BY LoopIsNoRequest, NobodyIsNoRequest, DurationsArePositive, IntervalsArePositive
  DEF TypeOK, Request, Fetcher

\* What a request's record reads after a step: the fields it sets, and the
\* others as they were; an answer clears them.
Reads(m, p, g, n, c) == m.pc = p /\ m.gen = g /\ m.now = n /\ m.came = c

LEMMA Replied ==
    ASSUME TypeOK, NEW r \in Req, NEW what, Reply(r, what)
    PROVE  Reads(req'[r], "done", 0, 0, 0) /\ \A q \in Req \ {r} : req'[q] = req[q]
<1>1. req'[r] = [Idle EXCEPT !.pc = "done", !.answer = what] /\ \A q \in Req \ {r} : req'[q] = req[q]
  BY DEF Reply, TypeOK
<1> QED BY <1>1 DEF Idle, Reads

\* IInv less the types.
Rest == Ownership /\ FetchTimes /\ RequestTimes /\ MissTimes /\ Sharing /\ LoopTimes /\ Freshness

\* Authenticate takes a request to its first lookup, or answers it.
LEMMA AuthenticateStep ==
    ASSUME IInv, NEW r \in Req, NEW tok, Authenticate(r, tok), UNCHANGED loopVars
    PROVE  Rest'
<1> USE Numbers DEF IInv
<1>1. /\ \A q \in Req \ {r} : req'[q] = req[q]
      /\ \/ Reads(req'[r], "done", 0, 0, 0)
         \/ Reads(req'[r], "lookup", req[r].gen, req[r].now, clock)
  <2>1. CASE Reply(r, "not_ready")
    BY <2>1, Replied
  <2>2. CASE req' = [req EXCEPT ![r] = [@ EXCEPT !.pc = "lookup", !.token = tok, !.came = clock]]
    <3>1. /\ req'[r] = [req[r] EXCEPT !.pc = "lookup", !.token = tok, !.came = clock]
          /\ req[r] \in Request /\ \A q \in Req \ {r} : req'[q] = req[q]
      BY <2>2 DEF TypeOK
    <3>2. Reads(req'[r], "lookup", req[r].gen, req[r].now, clock)
      BY <3>1 DEF Request, Reads
    <3> QED BY <3>1, <3>2
  <2> QED BY <2>1, <2>2 DEF Authenticate
<1>2. UNCHANGED <<clock, generation, snapAt, missFetched, missFailed, waited, refreshing, fetch, loop, wakeAt, rereadOK>>
  BY DEF Authenticate, providerVars, cacheVars, missVars, loopVars
<1>3. req[r].pc = "idle"
  BY DEF Authenticate
<1> USE <1>1, <1>2, <1>3 DEF Reads
<1>4. Ownership'
  BY DEF Ownership, InRefreshFor
<1>5. FetchTimes'
  BY DEF FetchTimes
<1>6. RequestTimes'
  BY DEF RequestTimes
<1>7. MissTimes'
  BY DEF MissTimes
<1>8. Sharing'
  BY DEF Sharing
<1>9. LoopTimes'
  BY DEF LoopTimes
<1>10. Freshness'
  BY DEF Freshness, InRefreshFor
<1> QED BY <1>4, <1>5, <1>6, <1>7, <1>8, <1>9, <1>10 DEF Rest

\* The first lookup answers, or takes a request that missed to the mutex.
LEMMA LookupStep ==
    ASSUME IInv, NEW r \in Req, Lookup(r), UNCHANGED loopVars
    PROVE  Rest'
<1> USE Numbers DEF IInv
<1>1. /\ \A q \in Req \ {r} : req'[q] = req[q]
      /\ \/ Reads(req'[r], "done", 0, 0, 0)
         \/ Reads(req'[r], "wait", generation, req[r].now, req[r].came)
  <2>1. CASE Reply(r, Verified(r))
    BY <2>1, Replied
  <2>2. CASE req' = [req EXCEPT ![r] = [@ EXCEPT !.pc = "wait", !.gen = generation]]
    <3>1. /\ req'[r] = [req[r] EXCEPT !.pc = "wait", !.gen = generation]
          /\ req[r] \in Request /\ \A q \in Req \ {r} : req'[q] = req[q]
      BY <2>2 DEF TypeOK
    <3>2. Reads(req'[r], "wait", generation, req[r].now, req[r].came)
      BY <3>1 DEF Request, Reads
    <3> QED BY <3>1, <3>2
  <2> QED BY <2>1, <2>2 DEF Lookup
<1>2. UNCHANGED <<clock, generation, snapAt, missFetched, missFailed, waited, refreshing, fetch, loop, wakeAt, rereadOK>>
  BY DEF Lookup, providerVars, cacheVars, missVars, loopVars
<1>3. req[r].pc = "lookup"
  BY DEF Lookup
<1> USE <1>1, <1>2, <1>3 DEF Reads
<1>4. Ownership'
  BY DEF Ownership, InRefreshFor
<1>5. FetchTimes'
  BY DEF FetchTimes
<1>6. RequestTimes'
  BY DEF RequestTimes
<1>7. MissTimes'
  BY DEF MissTimes
<1>8. Sharing'
  BY DEF Sharing
<1>9. LoopTimes'
  BY DEF LoopTimes
<1>10. Freshness'
  BY DEF Freshness, InRefreshFor
<1> QED BY <1>4, <1>5, <1>6, <1>7, <1>8, <1>9, <1>10 DEF Rest

\* The mutex is free of others when a request takes it.
LEMMA LockRefreshingStep ==
    ASSUME IInv, NEW r \in Req, LockRefreshing(r), UNCHANGED loopVars
    PROVE  Rest'
<1> USE Numbers DEF IInv
<1>1. /\ \A q \in Req \ {r} : req'[q] = req[q]
      /\ Reads(req'[r], "decide", req[r].gen, req[r].now, req[r].came)
  <2>1. /\ req'[r] = [req[r] EXCEPT !.pc = "decide"]
        /\ req[r] \in Request /\ \A q \in Req \ {r} : req'[q] = req[q]
    BY DEF LockRefreshing, TypeOK
  <2> QED BY <2>1 DEF Request, Reads
<1>2. UNCHANGED <<clock, generation, snapAt, missFetched, missFailed, waited, fetch, loop, wakeAt, rereadOK>>
  BY DEF LockRefreshing, providerVars, cacheVars, missVars, loopVars
<1>3. req[r].pc = "wait" /\ refreshing = NoReq /\ refreshing' = r
  BY DEF LockRefreshing
<1> USE <1>1, <1>2, <1>3 DEF Reads
<1>4. Ownership'
  BY DEF Ownership, InRefreshFor
<1>5. FetchTimes'
  BY DEF FetchTimes
<1>6. RequestTimes'
  BY DEF RequestTimes
<1>7. MissTimes'
  BY DEF MissTimes
<1>8. Sharing'
  BY DEF Sharing
<1>9. LoopTimes'
  BY DEF LoopTimes
<1>10. Freshness'
  BY DEF Freshness, InRefreshFor
<1> QED BY <1>4, <1>5, <1>6, <1>7, <1>8, <1>9, <1>10 DEF Rest

\* The decision is taken on what the cache and the clock read then.
LEMMA DecideStep ==
    ASSUME IInv, NEW r \in Req, Decide(r), UNCHANGED loopVars
    PROVE  Rest'
<1> USE Numbers DEF IInv
<1>1. /\ \A q \in Req \ {r} : req'[q] = req[q]
      /\ \/ Stale(r) /\ Reads(req'[r], "mark", req[r].gen, clock, req[r].came)
         \/ ~Stale(r) /\ Reads(req'[r], "relookup", req[r].gen, clock, req[r].came)
  <2>1. /\ req[r] \in Request /\ \A q \in Req \ {r} : req'[q] = req[q]
        /\ \/ Stale(r) /\ req'[r] = [req[r] EXCEPT !.pc = "mark", !.now = clock]
           \/ ~Stale(r) /\ req'[r] = [req[r] EXCEPT !.pc = "relookup", !.now = clock]
    BY DEF Decide, TypeOK
  <2> QED BY <2>1 DEF Request, Reads
<1>2. UNCHANGED <<clock, generation, snapAt, missFetched, missFailed, waited, refreshing, fetch, loop, wakeAt, rereadOK>>
  BY DEF Decide, providerVars, cacheVars, missVars, loopVars
<1>3. req[r].pc = "decide"
  BY DEF Decide
<1> USE <1>1, <1>2, <1>3 DEF Reads
<1>4. Ownership'
  BY DEF Ownership, InRefreshFor
<1>5. FetchTimes'
  BY DEF FetchTimes
<1>6. RequestTimes'
  BY DEF RequestTimes
<1>7. MissTimes'
  BY DEF MissTimes, Stale
<1>8. Sharing'
  BY DEF Sharing, Stale, RequestTimes
<1>9. LoopTimes'
  BY DEF LoopTimes
<1>10. Freshness'
  BY DEF Freshness, InRefreshFor, Stale, RequestTimes
<1> QED BY <1>4, <1>5, <1>6, <1>7, <1>8, <1>9, <1>10 DEF Rest

\* A fetch that is applied leaves none under way, and an image served since
\* it began: no more than FetchTimeout ago.
LEMMA Applied ==
    ASSUME TypeOK, FetchTimes, NEW f \in Fetcher, Replace(f)
    PROVE  /\ generation' = generation + 1
           /\ snapAt' \in Nat /\ snapAt' >= fetch[f].began /\ snapAt' + FetchTimeout >= clock
           /\ fetch'[f].st = "none" /\ \A g \in Fetcher \ {f} : fetch'[g] = fetch[g]
<1>1. /\ generation' = generation + 1 /\ snapAt' = fetch[f].at /\ fetch[f].st = "got"
      /\ fetch' = [fetch EXCEPT ![f] = NoFetch]
  BY DEF Replace, FetchedKeys
<1>2. fetch'[f] = NoFetch /\ \A g \in Fetcher \ {f} : fetch'[g] = fetch[g]
  BY <1>1 DEF TypeOK
<1>3. fetch'[f].st = "none"
  BY <1>2 DEF NoFetch
<1> QED BY <1>1, <1>2, <1>3, Numbers DEF FetchTimes

\* A failed fetch leaves none under way, and the cache as it was.
LEMMA Kept ==
    ASSUME TypeOK, NEW f \in Fetcher, Keep(f)
    PROVE  /\ UNCHANGED <<generation, snapAt>>
           /\ fetch'[f].st = "none" /\ \A g \in Fetcher \ {f} : fetch'[g] = fetch[g]
<1>1. fetch'[f] = NoFetch /\ \A g \in Fetcher \ {f} : fetch'[g] = fetch[g]
  BY DEF Keep, TypeOK
<1> QED BY <1>1 DEF Keep, NoFetch, cacheVars

\* A fetch begins now.
LEMMA Begun ==
    ASSUME TypeOK, NEW f \in Fetcher, fetch' = [fetch EXCEPT ![f] = Sent]
    PROVE  /\ fetch'[f].st = "sent" /\ fetch'[f].began = clock
           /\ \A g \in Fetcher \ {f} : fetch'[g] = fetch[g]
<1>1. fetch'[f] = Sent /\ \A g \in Fetcher \ {f} : fetch'[g] = fetch[g]
  BY DEF TypeOK
<1> QED BY <1>1 DEF Sent

\* missFetched is written by the holder of the mutex, as it decided.
LEMMA MarkStep ==
    ASSUME IInv, NEW r \in Req, Mark(r), UNCHANGED loopVars
    PROVE  Rest'
<1> USE Numbers DEF IInv
<1>1. /\ \A q \in Req \ {r} : req'[q] = req[q]
      /\ Reads(req'[r], "fetch", req[r].gen, req[r].now, req[r].came)
  <2>1. /\ req'[r] = [req[r] EXCEPT !.pc = "fetch"]
        /\ req[r] \in Request /\ \A q \in Req \ {r} : req'[q] = req[q]
    BY DEF Mark, TypeOK
  <2> QED BY <2>1 DEF Request, Reads
<1>2. UNCHANGED <<clock, generation, snapAt, missFailed, waited, refreshing, loop, wakeAt, rereadOK>>
  BY DEF Mark, providerVars, cacheVars, missVars, loopVars
<1>3. req[r].pc = "mark" /\ missFetched' = req[r].now
  BY DEF Mark
<1>4. /\ fetch'[r].st = "sent" /\ fetch'[r].began = clock
      /\ \A g \in Fetcher \ {r} : fetch'[g] = fetch[g]
  BY Begun DEF Mark
<1> USE <1>1, <1>2, <1>3, <1>4 DEF Reads
<1>5. Ownership'
  BY DEF Ownership, InRefreshFor
<1>6. FetchTimes'
  BY DEF FetchTimes
<1>7. RequestTimes'
  BY DEF RequestTimes
<1>8. MissTimes'
  BY DEF MissTimes, RequestTimes, Ownership, InRefreshFor
<1>9. Sharing'
  BY DEF Sharing
<1>10. LoopTimes'
  BY DEF LoopTimes
<1>11. Freshness'
  BY DEF Freshness, InRefreshFor, Ownership
<1> QED BY <1>5, <1>6, <1>7, <1>8, <1>9, <1>10, <1>11 DEF Rest

\* The fetch of a miss that succeeds: every request that missed before sees
\* the generation move, and an image no older than FetchTimeout.
LEMMA RefreshedStep ==
    ASSUME IInv, NEW r \in Req, Refreshed(r), UNCHANGED loopVars
    PROVE  Rest'
<1> USE Numbers DEF IInv
<1>1. /\ \A q \in Req \ {r} : req'[q] = req[q]
      /\ Reads(req'[r], "relookup", req[r].gen, req[r].now, req[r].came)
  <2>1. /\ req'[r] = [req[r] EXCEPT !.pc = "relookup"]
        /\ req[r] \in Request /\ \A q \in Req \ {r} : req'[q] = req[q]
    BY DEF Refreshed, TypeOK
  <2> QED BY <2>1 DEF Request, Reads
<1>2. UNCHANGED <<clock, missFetched, refreshing, loop, wakeAt, rereadOK>>
  BY DEF Refreshed, Ended, providerVars, loopVars
<1>3. req[r].pc = "fetch" /\ Replace(r)
  BY DEF Refreshed
<1>4. \A q \in Req : req[q].pc # "wait" => waited'[q] = waited[q]
  BY DEF Refreshed, Ended
<1>5. /\ generation' = generation + 1
      /\ snapAt' \in Nat /\ snapAt' >= fetch[r].began /\ snapAt' + FetchTimeout >= clock
      /\ fetch'[r].st = "none" /\ \A g \in Fetcher \ {r} : fetch'[g] = fetch[g]
  BY <1>3, Applied
<1> USE <1>1, <1>2, <1>3, <1>4, <1>5 DEF Reads
<1>6. Ownership'
  BY DEF Ownership, InRefreshFor
<1>7. FetchTimes'
  BY DEF FetchTimes
<1>8. RequestTimes'
  BY DEF RequestTimes
<1>9. MissTimes'
  BY DEF MissTimes, Ownership, InRefreshFor
<1>10. Sharing'
  BY DEF Sharing, RequestTimes, Ownership, InRefreshFor
<1>11. LoopTimes'
  BY DEF LoopTimes, FetchTimes, Ownership
<1>12. Freshness'
  BY DEF Freshness, InRefreshFor, Ownership, RequestTimes, MissTimes
<1> QED BY <1>6, <1>7, <1>8, <1>9, <1>10, <1>11, <1>12 DEF Rest

\* The fetch of a miss that fails answers its request and frees the mutex.
LEMMA RefreshFailedStep ==
    ASSUME IInv, NEW r \in Req, RefreshFailed(r), UNCHANGED loopVars
    PROVE  Rest'
<1> USE Numbers DEF IInv
<1>1. Reads(req'[r], "done", 0, 0, 0) /\ \A q \in Req \ {r} : req'[q] = req[q]
  BY Replied DEF RefreshFailed
<1>2. UNCHANGED <<clock, missFetched, loop, wakeAt, rereadOK>>
  BY DEF RefreshFailed, Ended, providerVars, loopVars
<1>3. req[r].pc = "fetch" /\ Keep(r) /\ refreshing' = NoReq
  BY DEF RefreshFailed
<1>4. missFailed' /\ \A q \in Req : /\ "ok" \in waited'[q] => "ok" \in waited[q]
                                    /\ req[q].pc # "wait" => waited'[q] = waited[q]
  BY DEF RefreshFailed, Ended
<1>5. /\ UNCHANGED <<generation, snapAt>>
      /\ fetch'[r].st = "none" /\ \A g \in Fetcher \ {r} : fetch'[g] = fetch[g]
  BY <1>3, Kept
<1> USE <1>1, <1>2, <1>3, <1>4, <1>5 DEF Reads
<1>6. Ownership'
  BY DEF Ownership, InRefreshFor
<1>7. FetchTimes'
  BY DEF FetchTimes
<1>8. RequestTimes'
  BY DEF RequestTimes
<1>9. MissTimes'
  BY DEF MissTimes
<1>10. Sharing'
  BY DEF Sharing
<1>11. LoopTimes'
  BY DEF LoopTimes
<1>12. Freshness'
  BY DEF Freshness, InRefreshFor
<1> QED BY <1>6, <1>7, <1>8, <1>9, <1>10, <1>11, <1>12 DEF Rest

\* The second lookup answers its request and frees the mutex.
LEMMA RelookupStep ==
    ASSUME IInv, NEW r \in Req, Relookup(r), UNCHANGED loopVars
    PROVE  Rest'
<1> USE Numbers DEF IInv
<1>1. Reads(req'[r], "done", 0, 0, 0) /\ \A q \in Req \ {r} : req'[q] = req[q]
  BY Replied DEF Relookup
<1>2. UNCHANGED <<clock, generation, snapAt, missFetched, missFailed, waited, fetch, loop, wakeAt, rereadOK>>
  BY DEF Relookup, providerVars, cacheVars, missVars, loopVars
<1>3. req[r].pc = "relookup" /\ refreshing' = NoReq
  BY DEF Relookup
<1> USE <1>1, <1>2, <1>3 DEF Reads
<1>4. Ownership'
  BY DEF Ownership, InRefreshFor
<1>5. FetchTimes'
  BY DEF FetchTimes
<1>6. RequestTimes'
  BY DEF RequestTimes
<1>7. MissTimes'
  BY DEF MissTimes
<1>8. Sharing'
  BY DEF Sharing
<1>9. LoopTimes'
  BY DEF LoopTimes
<1>10. Freshness'
  BY DEF Freshness, InRefreshFor
<1> QED BY <1>4, <1>5, <1>6, <1>7, <1>8, <1>9, <1>10 DEF Rest

\* The end of a fetch keeps when it began, and its answer is served now.
LEMMA FetchEndsStep ==
    ASSUME IInv, NEW f \in Fetcher, FetchEnds(f),
           UNCHANGED <<clock, generation, snapAt, missFetched, missFailed, waited, refreshing, req,
                       loop, wakeAt, rereadOK>>
    PROVE  Rest'
<1> USE Numbers DEF IInv
<1>1. /\ fetch[f].st = "sent" /\ fetch'[f].st \in {"got", "failed"} /\ fetch'[f].began = fetch[f].began
      /\ fetch'[f].st = "got" => fetch'[f].at = clock
      /\ \A g \in Fetcher \ {f} : fetch'[g] = fetch[g]
  <2>1. fetch[f] \in FetchRecord /\ fetch \in [Fetcher -> FetchRecord]
    BY DEF TypeOK, FetchRecord
  <2>2. CASE FetchAnswered(f)
    <3>1. /\ fetch'[f] = [fetch[f] EXCEPT !.st = "got", !.doc = jwks, !.at = clock]
          /\ fetch[f].st = "sent" /\ \A g \in Fetcher \ {f} : fetch'[g] = fetch[g]
      BY <2>1, <2>2 DEF FetchAnswered
    <3> QED BY <2>1, <3>1 DEF FetchRecord
  <2>3. CASE FetchFails(f)
    <3>1. /\ fetch'[f] = [fetch[f] EXCEPT !.st = "failed"]
          /\ fetch[f].st = "sent" /\ \A g \in Fetcher \ {f} : fetch'[g] = fetch[g]
      BY <2>1, <2>3 DEF FetchFails
    <3> QED BY <2>1, <3>1 DEF FetchRecord
  <2> QED BY <2>2, <2>3 DEF FetchEnds
<1> USE <1>1
<1>2. Ownership'
  BY DEF Ownership, InRefreshFor
<1>3. FetchTimes'
  BY DEF FetchTimes
<1>4. RequestTimes'
  BY DEF RequestTimes
<1>5. MissTimes'
  BY DEF MissTimes
<1>6. Sharing'
  BY DEF Sharing
<1>7. LoopTimes'
  BY DEF LoopTimes
<1>8. Freshness'
  BY DEF Freshness, InRefreshFor
<1> QED BY <1>2, <1>3, <1>4, <1>5, <1>6, <1>7, <1>8 DEF Rest

\* The background goroutine sends a request: its first, the JWKS's after the
\* discovery document's, or the one its sleep ends with.
LEMMA LoopSendsStep ==
    ASSUME IInv, Start \/ Discovered \/ Wake
    PROVE  Rest'
<1> USE Numbers DEF IInv
<1>1. UNCHANGED <<clock, generation, snapAt, missFetched, missFailed, waited, refreshing, req, wakeAt, rereadOK>>
  BY DEF Start, Discovered, Wake, othersVars, providerVars, cacheVars, missVars
<1>2. /\ fetch'[Loop].st = "sent" /\ fetch'[Loop].began = clock
      /\ \A g \in Fetcher \ {Loop} : fetch'[g] = fetch[g]
  BY Begun DEF Start, Discovered, Wake
<1>3. \/ loop' \in {"discovery", "jwks"}
      \/ loop = "sleeping" /\ loop' = "rereading" /\ clock >= wakeAt
  BY DEF Start, Discovered, Wake
<1> USE <1>1, <1>2, <1>3
<1>4. Ownership'
  BY DEF Ownership, InRefreshFor
<1>5. FetchTimes'
  BY DEF FetchTimes
<1>6. RequestTimes'
  BY DEF RequestTimes
<1>7. MissTimes'
  BY DEF MissTimes
<1>8. Sharing'
  BY DEF Sharing
<1>9. LoopTimes'
  BY DEF LoopTimes
<1>10. Freshness'
  BY DEF Freshness, InRefreshFor
<1> QED BY <1>4, <1>5, <1>6, <1>7, <1>8, <1>9, <1>10 DEF Rest

\* A load or a re-read that found keys replaces the cache: its image was
\* served no more than FetchTimeout ago, and the next is JWKSRefresh away.
LEMMA LoopAppliesStep ==
    ASSUME IInv, Replace(Loop), loop' = "sleeping", wakeAt' = clock + JWKSRefresh, UNCHANGED othersVars
    PROVE  Rest'
<1> USE Numbers DEF IInv
<1>1. UNCHANGED <<clock, missFetched, missFailed, waited, refreshing, req>>
  BY DEF othersVars, providerVars, missVars
<1>2. /\ generation' = generation + 1
      /\ snapAt' \in Nat /\ snapAt' >= fetch[Loop].began /\ snapAt' + FetchTimeout >= clock
      /\ fetch'[Loop].st = "none" /\ \A g \in Fetcher \ {Loop} : fetch'[g] = fetch[g]
  BY Applied
<1> USE <1>1, <1>2
<1>3. Ownership'
  BY DEF Ownership, InRefreshFor
<1>4. FetchTimes'
  BY DEF FetchTimes
<1>5. RequestTimes'
  BY DEF RequestTimes
<1>6. MissTimes'
  BY DEF MissTimes
<1>7. Sharing'
  BY DEF Sharing, RequestTimes
<1>8. LoopTimes'
  BY DEF LoopTimes
<1>9. Freshness'
  BY DEF Freshness, InRefreshFor, RequestTimes, MissTimes
<1> QED BY <1>3, <1>4, <1>5, <1>6, <1>7, <1>8, <1>9 DEF Rest

\* One that did not keeps it: the goroutine sleeps, or its context has ended.
LEMMA LoopFailsStep ==
    ASSUME IInv, LoadFailed \/ (Reread /\ Keep(Loop) /\ ~rereadOK')
    PROVE  Rest'
<1> USE Numbers DEF IInv
<1>1. UNCHANGED <<clock, generation, snapAt, missFetched, missFailed, waited, refreshing, req>>
  BY DEF LoadFailed, Reread, Keep, othersVars, providerVars, cacheVars, missVars
<1>2. fetch'[Loop].st = "none" /\ \A g \in Fetcher \ {Loop} : fetch'[g] = fetch[g]
  <2>1. fetch'[Loop] = NoFetch /\ \A g \in Fetcher \ {Loop} : fetch'[g] = fetch[g]
    BY DEF LoadFailed, Keep, TypeOK
  <2> QED BY <2>1 DEF NoFetch
<1>3. \/ loop' \in {"ended", "retrying"}
      \/ loop' = "sleeping" /\ wakeAt' = clock + JWKSRefresh /\ ~rereadOK'
  BY DEF LoadFailed, Reread
<1> USE <1>1, <1>2, <1>3
<1>4. Ownership'
  BY DEF Ownership, InRefreshFor
<1>5. FetchTimes'
  BY DEF FetchTimes
<1>6. RequestTimes'
  BY DEF RequestTimes
<1>7. MissTimes'
  BY DEF MissTimes
<1>8. Sharing'
  BY DEF Sharing
<1>9. LoopTimes'
  BY DEF LoopTimes
<1>10. Freshness'
  BY DEF Freshness, InRefreshFor
<1> QED BY <1>4, <1>5, <1>6, <1>7, <1>8, <1>9, <1>10 DEF Rest

\* The steps of Shutdown and the provider's change nothing the invariant
\* compares, but that the goroutine ends out of its sleep.
LEMMA QuietStep ==
    ASSUME IInv,
           UNCHANGED <<clock, generation, snapAt, missFetched, missFailed, waited, refreshing, req, fetch, wakeAt, rereadOK>>,
           loop' = loop \/ (loop \in {"retrying", "sleeping"} /\ loop' = "ended")
    PROVE  Rest'
<1> USE Numbers DEF IInv
<1>1. Ownership'
  BY DEF Ownership, InRefreshFor
<1>2. FetchTimes'
  BY DEF FetchTimes
<1>3. RequestTimes'
  BY DEF RequestTimes
<1>4. MissTimes'
  BY DEF MissTimes
<1>5. Sharing'
  BY DEF Sharing
<1>6. LoopTimes'
  BY DEF LoopTimes
<1>7. Freshness'
  BY DEF Freshness, InRefreshFor
<1> QED BY <1>1, <1>2, <1>3, <1>4, <1>5, <1>6, <1>7 DEF Rest

\* Time passes no timer that is due.
LEMMA TickStep ==
    ASSUME IInv, Tick
    PROVE  Rest'
<1> USE Numbers DEF IInv
<1>1. UNCHANGED <<generation, snapAt, missFetched, missFailed, waited, refreshing, req, fetch, loop, wakeAt, rereadOK>>
  BY DEF Tick, cacheVars, missVars, loopVars
<1>2. /\ clock' = clock + 1
      /\ \A f \in Fetcher : fetch[f].st # "none" => clock < fetch[f].began + FetchTimeout
      /\ loop \in {"retrying", "sleeping"} => clock < wakeAt
  BY DEF Tick
<1> USE <1>1, <1>2
<1>3. Ownership'
  BY DEF Ownership, InRefreshFor
<1>4. FetchTimes'
  BY DEF FetchTimes
<1>5. RequestTimes'
  BY DEF RequestTimes
<1>6. MissTimes'
  BY DEF MissTimes
<1>7. Sharing'
  BY DEF Sharing
<1>8. LoopTimes'
  BY DEF LoopTimes
<1>9. Freshness'
  BY DEF Freshness, InRefreshFor
<1> QED BY <1>3, <1>4, <1>5, <1>6, <1>7, <1>8, <1>9 DEF Rest

\* IInv holds in every state: the invariant is inductive.
THEOREM Invariance == Spec => []IInv
<1>1. Init => IInv
  <2> SUFFICES ASSUME Init PROVE IInv
    OBVIOUS
  <2>1. TypeOK
    BY InitType
  <2>2. /\ \A r \in Req : req[r] = Idle
        /\ \A f \in Fetcher : fetch[f] = NoFetch
        /\ \A r \in Req : waited[r] = {}
        /\ clock = 0 /\ generation = 0 /\ missFetched = 0 - MinRefreshInterval /\ snapAt = 0
        /\ refreshing = NoReq /\ loop = "created"
    BY DEF Init, KeySetInit
  <2>3. /\ \A r \in Req : req[r].pc = "idle" /\ req[r].gen = 0 /\ req[r].came = 0
        /\ \A f \in Fetcher : fetch[f].st = "none"
    BY <2>2 DEF Idle, NoFetch
  <2> USE <2>1, <2>2, <2>3, Numbers
  <2>4. Ownership /\ FetchTimes /\ Sharing /\ LoopTimes
    BY DEF Ownership, InRefreshFor, FetchTimes, Sharing, LoopTimes
  <2>5. RequestTimes /\ MissTimes /\ Freshness
    BY DEF RequestTimes, MissTimes, Freshness, InRefreshFor
  <2> QED BY <2>4, <2>5 DEF IInv
<1>2. IInv /\ [Next]_vars => IInv'
  <2> SUFFICES ASSUME IInv, [Next]_vars PROVE IInv'
    OBVIOUS
  <2>1. TypeOK'
    BY NextType DEF IInv
  <2> SUFFICES Rest'
    BY <2>1 DEF IInv, Rest
  <2>2. ASSUME NEW r \in Req, RequestNext(r), UNCHANGED loopVars PROVE Rest'
    <3>1. CASE \E tok \in Tokens : Authenticate(r, tok)
      BY <2>2, <3>1, AuthenticateStep
    <3>2. CASE RequestFetchEnds(r)
      <4>1. UNCHANGED <<clock, generation, snapAt, missFetched, missFailed, waited, refreshing, req, loop, wakeAt, rereadOK>>
        BY <2>2, <3>2 DEF RequestFetchEnds, providerVars, cacheVars, missVars, loopVars
      <4> QED BY <3>2, <4>1, FetchEndsStep DEF RequestFetchEnds, Fetcher
    <3>3. CASE Lookup(r)
      BY <2>2, <3>3, LookupStep
    <3>4. CASE LockRefreshing(r)
      BY <2>2, <3>4, LockRefreshingStep
    <3>5. CASE Decide(r)
      BY <2>2, <3>5, DecideStep
    <3>6. CASE Mark(r)
      BY <2>2, <3>6, MarkStep
    <3>7. CASE Refreshed(r)
      BY <2>2, <3>7, RefreshedStep
    <3>8. CASE RefreshFailed(r)
      BY <2>2, <3>8, RefreshFailedStep
    <3>9. CASE Relookup(r)
      BY <2>2, <3>9, RelookupStep
    <3> QED BY <2>2, <3>1, <3>2, <3>3, <3>4, <3>5, <3>6, <3>7, <3>8, <3>9 DEF RequestNext, RequestStep
  <2>3. CASE Start \/ Discovered \/ Wake
    BY <2>3, LoopSendsStep
  <2>4. CASE LoopFetchEnds
    <3>1. UNCHANGED <<clock, generation, snapAt, missFetched, missFailed, waited, refreshing, req, loop, wakeAt, rereadOK>>
      BY <2>4 DEF LoopFetchEnds, othersVars, providerVars, cacheVars, missVars, loopVars
    <3> QED BY <2>4, <3>1, FetchEndsStep DEF LoopFetchEnds, Fetcher
  <2>5. CASE Loaded \/ (Reread /\ Replace(Loop))
    <3>1. Replace(Loop) /\ loop' = "sleeping" /\ wakeAt' = clock + JWKSRefresh /\ UNCHANGED othersVars
      BY <2>5 DEF Loaded, Reread, othersVars
    <3> QED BY <3>1, LoopAppliesStep
  <2>6. CASE LoadFailed \/ (Reread /\ Keep(Loop) /\ ~rereadOK')
    BY <2>6, LoopFailsStep
  <2>7. CASE SleepCancelled \/ Shutdown \/ ShutdownReturns \/ UNCHANGED vars
    <3>1. /\ UNCHANGED <<clock, generation, snapAt, missFetched, missFailed, waited, refreshing, req, fetch, wakeAt, rereadOK>>
          /\ loop' = loop \/ (loop \in {"retrying", "sleeping"} /\ loop' = "ended")
      BY <2>7 DEF SleepCancelled, Shutdown, ShutdownReturns, vars, keySetVars, othersVars, providerVars, cacheVars, missVars, loopVars
    <3> QED BY <3>1, QuietStep
  <2>8. ASSUME NEW doc \in Docs, Publish(doc), UNCHANGED loopVars PROVE Rest'
    <3>1. UNCHANGED <<clock, generation, snapAt, missFetched, missFailed, waited, refreshing, req, fetch, loop, wakeAt, rereadOK>>
      BY <2>8 DEF Publish, cacheVars, missVars, loopVars
    <3> QED BY <3>1, QuietStep
  <2>9. CASE Tick
    BY <2>9, TickStep
  <2>10. Reread => Replace(Loop) \/ (Keep(Loop) /\ ~rereadOK')
    BY DEF Reread
  <2> QED BY <2>2, <2>3, <2>4, <2>5, <2>6, <2>7, <2>8, <2>9, <2>10 DEF Next, LoopStep
<1> QED BY <1>1, <1>2, PTL DEF Spec

-----------------------------------------------------------------------------
(* The properties. *)

\* The longest a withdrawn key stays trusted while re-reads succeed: the
\* cached image is at most JWKSRefresh + 2 * FetchTimeout old (keepFresh).
THEOREM TrustIsBounded == Spec => []TrustBound
<1>1. IInv => TrustBound
  <2> SUFFICES ASSUME IInv, loop \in {"sleeping", "rereading"}, rereadOK
               PROVE  clock - snapAt <= JWKSRefresh + 2 * FetchTimeout
    BY DEF TrustBound
  <2> USE Numbers DEF IInv
  <2>1. CASE loop = "sleeping"
    BY <2>1 DEF LoopTimes
  <2>2. CASE loop = "rereading"
    <3>1. fetch[Loop].st # "none"
      BY <2>2 DEF Ownership
    <3>2. clock <= fetch[Loop].began + FetchTimeout
      BY <3>1 DEF FetchTimes
    <3> QED BY <2>2, <3>2 DEF LoopTimes
  <2> QED BY <2>1, <2>2
<1> QED BY <1>1, Invariance, PTL

\* A request that waited out another's successful fetch makes none of its own
\* (refreshFor's generation).
THEOREM SuccessIsShared == Spec => []SuccessfulFetchIsShared
<1>1. IInv => SuccessfulFetchIsShared
  BY DEF IInv, Sharing, SuccessfulFetchIsShared
<1> QED BY <1>1, Invariance, PTL

\* A request that changes its fetch sends it, hears of it or is done with it.
LEMMA RequestFetches ==
    ASSUME NEW r \in Req, RequestNext(r), fetch' # fetch
    PROVE  Mark(r) \/ FetchEnds(r) \/ Replace(r) \/ Keep(r)
<1>1. ASSUME NEW tok \in Tokens, Authenticate(r, tok) PROVE fetch' = fetch
  BY <1>1 DEF Authenticate
<1>2. ASSUME Lookup(r) PROVE fetch' = fetch
  BY <1>2 DEF Lookup
<1>3. ASSUME LockRefreshing(r) PROVE fetch' = fetch
  BY <1>3 DEF LockRefreshing
<1>4. ASSUME Decide(r) PROVE fetch' = fetch
  BY <1>4 DEF Decide
<1>5. ASSUME Relookup(r) PROVE fetch' = fetch
  BY <1>5 DEF Relookup
<1>6. Refreshed(r) => Replace(r)
  BY DEF Refreshed
<1>7. RefreshFailed(r) => Keep(r)
  BY DEF RefreshFailed
<1>8. RequestFetchEnds(r) => FetchEnds(r)
  BY DEF RequestFetchEnds
<1> QED BY <1>1, <1>2, <1>3, <1>4, <1>5, <1>6, <1>7, <1>8 DEF RequestNext, RequestStep

\* Fetches that unknown kids cause are decided on MinRefreshInterval apart at
\* least (refreshFor's two critical sections).
THEOREM MissesAreSpaced == Spec => MissFetchesAreSpaced
<1> DEFINE A == \A r \in Req :
          fetch[r].st = "none" /\ fetch'[r].st # "none" => missFetched' >= missFetched + MinRefreshInterval
<1>1. IInv /\ [Next]_vars => [A]_vars
  <2> SUFFICES ASSUME IInv, Next, NEW r \in Req, fetch[r].st = "none", fetch'[r].st # "none"
               PROVE  missFetched' >= missFetched + MinRefreshInterval
    OBVIOUS
  <2> USE Numbers DEF IInv
  <2>1. fetch \in [Fetcher -> FetchRecord]
    BY DEF TypeOK, FetchRecord
  <2>2. ASSUME NEW f \in Fetcher, FetchEnds(f) \/ Replace(f) \/ Keep(f) PROVE FALSE
    BY <2>1, <2>2 DEF FetchEnds, FetchAnswered, FetchFails, Replace, Keep, NoFetch
  <2>3. PICK q \in Req : RequestNext(q)
    BY <2>1, <2>2 DEF Next, Publish, Start, LoopStep, LoopFetchEnds, Discovered, Loaded, LoadFailed, NoFetch,
           Wake, SleepCancelled, Reread, Shutdown, ShutdownReturns, Tick
  <2>4. Mark(q)
    BY <2>2, <2>3, RequestFetches
  <2>5. req[q].pc = "mark" /\ missFetched' = req[q].now
    BY <2>4 DEF Mark
  <2> QED BY <2>5 DEF MissTimes
<1> QED BY <1>1, Invariance, PTL DEF Spec, MissFetchesAreSpaced

\* A kid is refused as unknown on an image that was served less than
\* MinRefreshInterval + FetchTimeout before its request came, or after the
\* last fetch a miss caused failed (refreshFor).
THEOREM UnknownKidsAreFresh == Spec => UnknownKidIsFresh
<1> DEFINE A == \A r \in Req :
          req[r].pc = "relookup" /\ req'[r].answer = "unknown_kid" /\ ~missFailed
              => req[r].came - snapAt < MinRefreshInterval + FetchTimeout
<1>1. IInv => A
  <2> SUFFICES ASSUME IInv, NEW r \in Req, req[r].pc = "relookup", ~missFailed
               PROVE  req[r].came - snapAt < MinRefreshInterval + FetchTimeout
    OBVIOUS
  <2> USE Numbers DEF IInv
  <2>1. MinRefreshInterval > 0 /\ FetchTimeout > 0
    BY DurationsArePositive
  <2>2. CASE req[r].gen < generation
    BY <2>1, <2>2 DEF Freshness, InRefreshFor
  <2>3. CASE req[r].now - missFetched < MinRefreshInterval
    <3>1. \A q \in Req : req[q].pc # "fetch"
      BY DEF Ownership, InRefreshFor
    <3>2. snapAt + FetchTimeout >= missFetched
      BY <3>1 DEF Freshness
    <3>3. req[r].came <= req[r].now
      BY DEF RequestTimes
    <3> QED BY <2>1, <2>3, <3>2, <3>3
  <2> QED BY <2>2, <2>3 DEF Freshness
<1>2. IInv /\ [Next]_vars => [A]_vars
  BY <1>1
<1> QED BY <1>2, Invariance, PTL DEF Spec, UnknownKidIsFresh

-----------------------------------------------------------------------------
(* The keys: a second invariant, on top of IInv. *)

\* A fetch that is over leaves nothing behind, one that was answered has a
\* document of the provider's.
FetchShape ==
    \A f \in Fetcher :
        /\ fetch[f].st = "none" => fetch[f] = NoFetch
        /\ fetch[f].st = "got" => fetch[f].doc \in Docs /\ fetch[f].at <= clock

\* Keys are stored before a request can look one up or a sleep begin.
Stored ==
    /\ ready => keys \in Images
    /\ ~ready => keys = <<>> /\ loop \notin {"sleeping", "rereading"} /\ \A r \in Req : req[r].pc \in {"idle", "done"}

\* A request has its token until it has its answer.
Asked ==
    \A r \in Req :
        /\ req[r].pc \in {"idle", "done"} => req[r].token = NoToken
        /\ req[r].pc \notin {"idle", "done"} => req[r].token \in Tokens
        /\ req[r].pc # "done" => req[r].answer = "none"

Joined == shutdown = "joined" => loop \in {"created", "ended"}

Keyed == FetchShape /\ Stored /\ Asked /\ Joined

\* What a step makes of the fetches, and of the clock.
FetchMoves ==
    \/ UNCHANGED fetch /\ clock' \in {clock, clock + 1}
    \/ /\ clock' = clock
       /\ \E f \in Fetcher : \/ fetch' = [fetch EXCEPT ![f] = Sent] \/ fetch' = [fetch EXCEPT ![f] = NoFetch]
                             \/ FetchEnds(f)

LEMMA AllFetchMoves ==
    ASSUME TypeOK, [Next]_vars
    PROVE  FetchMoves
<1> USE DEF othersVars, loopVars, providerVars, cacheVars, missVars, FetchMoves
<1>0. Loop \in Fetcher /\ \A r \in Req : r \in Fetcher
  BY DEF Fetcher
<1>1. ASSUME NEW r \in Req, RequestNext(r) PROVE FetchMoves
  <2>1. clock' = clock
    BY <1>1 DEF RequestNext, RequestStep, RequestFetchEnds, Authenticate, Lookup, LockRefreshing, Decide, Mark, Refreshed,
                RefreshFailed, Relookup
  <2>2. CASE fetch' = fetch
    BY <2>1, <2>2
  <2>3. CASE fetch' # fetch
    BY <1>0, <1>1, <2>1, <2>3, RequestFetches DEF Mark, Replace, Keep
  <2> QED BY <2>2, <2>3
<1>2. CASE Start \/ LoopStep \/ LoopFetchEnds \/ Shutdown \/ ShutdownReturns
  BY <1>0, <1>2 DEF Start, LoopStep, LoopFetchEnds, Discovered, Loaded, LoadFailed, Wake, SleepCancelled, Reread,
           Replace, Keep, Shutdown, ShutdownReturns
<1>3. ASSUME NEW doc \in Docs, Publish(doc) PROVE FetchMoves
  BY <1>3 DEF Publish
<1>4. CASE Tick
  BY <1>4 DEF Tick
<1>5. CASE UNCHANGED vars
  BY <1>5 DEF vars, keySetVars
<1> QED BY <1>1, <1>2, <1>3, <1>4, <1>5 DEF Next

LEMMA FetchShapeStep ==
    ASSUME TypeOK, FetchShape, [Next]_vars
    PROVE  FetchShape'
<1>1. FetchMoves
  BY AllFetchMoves
<1>2. fetch \in [Fetcher -> FetchRecord] /\ clock \in Nat /\ jwks \in Docs
  BY DEF TypeOK, FetchRecord
<1>3. CASE UNCHANGED fetch /\ clock' \in {clock, clock + 1}
  BY <1>2, <1>3 DEF FetchShape, FetchRecord
<1>4. ASSUME NEW f \in Fetcher, clock' = clock,
             fetch' = [fetch EXCEPT ![f] = Sent] \/ fetch' = [fetch EXCEPT ![f] = NoFetch] \/ FetchEnds(f)
      PROVE  FetchShape'
  <2>1. \A g \in Fetcher \ {f} : fetch'[g] = fetch[g]
    BY <1>2, <1>4 DEF FetchEnds, FetchAnswered, FetchFails
  <2>2. \/ fetch'[f].st \in {"sent", "failed"} \/ fetch'[f] = NoFetch
        \/ fetch'[f].st = "got" /\ fetch'[f].doc = jwks /\ fetch'[f].at = clock
    <3>1. CASE fetch' = [fetch EXCEPT ![f] = Sent]
      BY <1>2, <3>1 DEF Sent
    <3>2. CASE fetch' = [fetch EXCEPT ![f] = NoFetch]
      BY <1>2, <3>2
    <3>3. CASE FetchEnds(f)
      BY <1>2, <3>3 DEF FetchEnds, FetchAnswered, FetchFails, FetchRecord
    <3> QED BY <1>4, <3>1, <3>2, <3>3
  <2>3. ASSUME fetch'[f] = NoFetch PROVE fetch'[f].st = "none"
    BY <2>3 DEF NoFetch
  <2> QED BY <1>2, <1>4, <2>1, <2>2, <2>3 DEF FetchShape
<1> QED BY <1>1, <1>3, <1>4 DEF FetchMoves

\* Once Shutdown has joined the goroutine, there is nothing that starts it.
LEMMA JoinedStep ==
    ASSUME TypeOK, Joined, [Next]_vars
    PROVE  Joined'
<1> USE DEF Joined, Stopping, othersVars, loopVars
<1>1. CASE \E r \in Req : RequestNext(r) /\ UNCHANGED loopVars
  BY <1>1
<1>2. CASE Start \/ LoopStep \/ LoopFetchEnds \/ Shutdown \/ ShutdownReturns
  BY <1>2 DEF Start, LoopStep, LoopFetchEnds, Discovered, Loaded, LoadFailed, Wake, SleepCancelled, Reread,
           Shutdown, ShutdownReturns
<1>3. CASE (\E doc \in Docs : Publish(doc) /\ UNCHANGED loopVars) \/ Tick
  BY <1>3 DEF Tick
<1>4. CASE UNCHANGED vars
  BY <1>4 DEF vars
<1> QED BY <1>1, <1>2, <1>3, <1>4 DEF Next

\* What a request becomes: the place, token and answer a client could tell apart.
Missed == {"wait", "decide", "mark", "fetch", "relookup"}
Becomes(r, pcs, token, answer) ==
    req'[r].pc \in pcs /\ req'[r].token = token /\ req'[r].answer = answer

\* A step of a request, by what it amounts to for its client and the cache.
RequestMoves(r) ==
    /\ UNCHANGED <<clock, ready>> /\ \A q \in Req : q # r => req'[q] = req[q]
    /\ \/ /\ req[r].pc = "fetch" /\ Replace(r) /\ Becomes(r, Missed, req[r].token, req[r].answer)
       \/ /\ UNCHANGED <<keys, snapAt>>
          /\ \/ req[r].pc = "idle" /\ ~ready /\ Tokens # {} /\ Becomes(r, {"done"}, NoToken, "not_ready")
             \/ req[r].pc = "idle" /\ ready /\ \E tok \in Tokens : Becomes(r, {"lookup"}, tok, req[r].answer)
             \/ req[r].pc \in {"lookup", "relookup"} /\ Found(r) # {} /\ Becomes(r, {"done"}, NoToken, Verified(r))
             \/ req[r].pc = "lookup" /\ Found(r) = {} /\ Becomes(r, {"wait"}, req[r].token, req[r].answer)
             \/ req[r].pc \in Missed /\ Becomes(r, Missed, req[r].token, req[r].answer)
             \/ req[r].pc \in Missed /\ Becomes(r, {"done"}, NoToken, "unknown_kid")

LEMMA Answers ==
    ASSUME TypeOK, NEW r \in Req, NEW what, Reply(r, what)
    PROVE  Becomes(r, {"done"}, NoToken, what) /\ \A q \in Req : q # r => req'[q] = req[q]
<1>1. req'[r] = [Idle EXCEPT !.pc = "done", !.answer = what] /\ \A q \in Req : q # r => req'[q] = req[q]
  BY DEF Reply, TypeOK
<1> QED BY <1>1 DEF Idle, Becomes

LEMMA AllRequestMoves ==
    ASSUME IInv, NEW r \in Req, RequestNext(r)
    PROVE  RequestMoves(r)
<1> USE DEF providerVars, cacheVars, missVars
<1>0. TypeOK /\ req \in [Req -> Request] /\ req[r] \in Request
  BY DEF IInv, TypeOK
<1>1. ASSUME NEW tok \in Tokens, Authenticate(r, tok) PROVE RequestMoves(r)
  <2>1. CASE ~ready /\ Reply(r, "not_ready")
    BY <1>1, <2>1, <1>0, Answers DEF Authenticate, RequestMoves
  <2>2. CASE ready /\ req' = [req EXCEPT ![r] = [@ EXCEPT !.pc = "lookup", !.token = tok, !.came = clock]]
    <3>1. req'[r] = [req[r] EXCEPT !.pc = "lookup", !.token = tok, !.came = clock] /\ \A q \in Req : q # r => req'[q] = req[q]
      BY <1>0, <2>2
    <3>2. Becomes(r, {"lookup"}, tok, req[r].answer)
      BY <1>0, <3>1 DEF Request, Becomes
    <3> QED BY <1>1, <2>2, <3>1, <3>2 DEF Authenticate, RequestMoves
  <2> QED BY <1>1, <2>1, <2>2 DEF Authenticate
<1>2. CASE Lookup(r)
  <2>1. CASE Found(r) # {} /\ Reply(r, Verified(r))
    BY <1>2, <2>1, <1>0, Answers DEF Lookup, RequestMoves
  <2>2. CASE Found(r) = {} /\ req' = [req EXCEPT ![r] = [@ EXCEPT !.pc = "wait", !.gen = generation]]
    <3>1. req'[r] = [req[r] EXCEPT !.pc = "wait", !.gen = generation] /\ \A q \in Req : q # r => req'[q] = req[q]
      BY <1>0, <2>2
    <3>2. Becomes(r, {"wait"}, req[r].token, req[r].answer)
      BY <1>0, <3>1 DEF Request, Becomes
    <3> QED BY <1>2, <2>2, <3>1, <3>2 DEF Lookup, RequestMoves
  <2> QED BY <1>2, <2>1, <2>2 DEF Lookup
<1>4. CASE LockRefreshing(r) \/ Decide(r) \/ Mark(r)
  <2>1. PICK m : /\ req' = [req EXCEPT ![r] = m]
                 /\ \/ m = [req[r] EXCEPT !.pc = "decide"] \/ m = [req[r] EXCEPT !.pc = "fetch"]
                    \/ m = [req[r] EXCEPT !.pc = "mark", !.now = clock]
                    \/ m = [req[r] EXCEPT !.pc = "relookup", !.now = clock]
    BY <1>4, Zenon DEF LockRefreshing, Decide, Mark
  <2>2. m.pc \in Missed /\ m.token = req[r].token /\ m.answer = req[r].answer
    BY <1>0, <2>1 DEF Request, Missed
  <2>3. req'[r] = m /\ \A q \in Req : q # r => req'[q] = req[q]
    BY <1>0, <2>1
  <2>4. Becomes(r, Missed, req[r].token, req[r].answer) /\ req[r].pc \in Missed
    BY <1>4, <2>2, <2>3 DEF Becomes, LockRefreshing, Decide, Mark, Missed
  <2> QED BY <1>4, <2>3, <2>4 DEF LockRefreshing, Decide, Mark, RequestMoves
<1>5. CASE Refreshed(r)
  <2>1. req'[r] = [req[r] EXCEPT !.pc = "relookup"] /\ \A q \in Req : q # r => req'[q] = req[q]
    BY <1>0, <1>5 DEF Refreshed
  <2>2. Becomes(r, Missed, req[r].token, req[r].answer)
    BY <1>0, <2>1 DEF Request, Becomes, Missed
  <2> QED BY <1>5, <2>1, <2>2 DEF Refreshed, RequestMoves
<1>6. CASE RefreshFailed(r)
  BY <1>6, <1>0, Answers DEF RefreshFailed, Keep, RequestMoves, Missed
<1>7. CASE Relookup(r)
  <2>1. CASE Found(r) = {}
    BY <1>7, <2>1, <1>0, Answers DEF Relookup, RequestMoves, Missed
  <2>2. CASE Found(r) # {}
    BY <1>7, <2>2, <1>0, Answers DEF Relookup, RequestMoves
  <2> QED BY <2>1, <2>2
<1>8. CASE RequestFetchEnds(r)
  <2>1. req[r].pc = "fetch" /\ UNCHANGED req
    BY <1>8 DEF IInv, Ownership, RequestFetchEnds, FetchEnds, FetchAnswered, FetchFails
  <2>2. Becomes(r, Missed, req[r].token, req[r].answer)
    BY <2>1 DEF Becomes, Missed
  <2> QED BY <1>8, <2>1, <2>2 DEF RequestFetchEnds, RequestMoves, Missed
<1> QED BY <1>1, <1>2, <1>4, <1>5, <1>6, <1>7, <1>8 DEF RequestNext, RequestStep

\* A fetch that is applied installs one of the images, and a recent one.
LEMMA Installed ==
    ASSUME IInv, FetchShape, NEW f \in Fetcher, Replace(f)
    PROVE  keys' \in Images /\ snapAt' \in 0..clock /\ clock - snapAt' <= FetchTimeout
<1>1. fetch[f].st = "got" /\ fetch[f].doc \in Docs /\ fetch[f].at <= clock
  BY DEF Replace, FetchedKeys, FetchShape
<1>2. keys' = ParseJWKS(fetch[f].doc) /\ DOMAIN ParseJWKS(fetch[f].doc) # {} /\ snapAt' = fetch[f].at
  BY DEF Replace, FetchedKeys
<1>3. ParseJWKS(fetch[f].doc) # <<>>
  BY <1>2
<1>4. keys' \in Images
  BY <1>1, <1>2, <1>3 DEF Images
<1>5. fetch[f].began <= fetch[f].at /\ clock <= fetch[f].began + FetchTimeout
  BY <1>1 DEF IInv, FetchTimes
<1> QED BY <1>1, <1>2, <1>4, <1>5, Numbers DEF IInv

LEMMA AskedStep ==
    ASSUME IInv, Asked, [Next]_vars
    PROVE  Asked'
<1>1. ASSUME NEW r \in Req, RequestNext(r) PROVE Asked'
  <2>1. RequestMoves(r)
    BY <1>1, AllRequestMoves
  <2>2. \A q \in Req : q # r => req'[q] = req[q]
    BY <2>1 DEF RequestMoves
  <2>3. /\ req'[r].pc \in {"idle", "done"} => req'[r].token = NoToken
        /\ req'[r].pc \notin {"idle", "done"} => req'[r].token \in Tokens
        /\ req'[r].pc # "done" => req'[r].answer = "none"
    BY <2>1 DEF RequestMoves, Becomes, Asked, Missed
  <2> QED BY <2>2, <2>3 DEF Asked
<1>2. CASE UNCHANGED req
  BY <1>2 DEF Asked
<1>3. (\E r \in Req : RequestNext(r)) \/ UNCHANGED req
  BY DEF Next, Publish, Start, LoopStep, LoopFetchEnds, Discovered, Loaded, LoadFailed, Wake, SleepCancelled, Reread,
         Shutdown, ShutdownReturns, Tick, othersVars, vars, keySetVars
<1> QED BY <1>1, <1>2, <1>3

\* What is not a request's step, as far as the cache goes: the loop replaces
\* the keys, stores them for the first time or leaves them alone.
LoopMoves ==
    /\ UNCHANGED <<req, clock>>
    /\ \/ loop = "jwks" /\ Replace(Loop) /\ ready'
       \/ loop = "rereading" /\ Replace(Loop) /\ UNCHANGED ready
       \/ UNCHANGED <<keys, snapAt, ready>> /\ (loop' \in {"sleeping", "rereading"} => loop \in {"sleeping", "rereading"})

LEMMA AllMoves ==
    ASSUME IInv, [Next]_vars
    PROVE  \/ \E r \in Req : RequestMoves(r) /\ UNCHANGED loop
           \/ LoopMoves
           \/ clock' = clock + 1 /\ UNCHANGED <<keys, snapAt, ready, req, loop>>
<1> USE DEF othersVars, loopVars, providerVars, cacheVars
<1>1. ASSUME NEW r \in Req, RequestNext(r), UNCHANGED loopVars PROVE RequestMoves(r) /\ UNCHANGED loop
  BY <1>1, AllRequestMoves
<1>2. CASE Loaded
  BY <1>2 DEF Loaded, LoopMoves
<1>3. CASE Reread
  BY <1>3 DEF Reread, LoopMoves, Keep
<1>4. CASE Start \/ LoopFetchEnds \/ Discovered \/ LoadFailed \/ Wake \/ SleepCancelled \/ Shutdown \/ ShutdownReturns
  BY <1>4 DEF Start, LoopFetchEnds, Discovered, LoadFailed, Wake, SleepCancelled, Shutdown, ShutdownReturns, LoopMoves
<1>5. ASSUME NEW doc \in Docs, Publish(doc), UNCHANGED loopVars PROVE LoopMoves
  BY <1>5 DEF Publish, LoopMoves
<1>6. CASE Tick
  BY <1>6 DEF Tick
<1>7. CASE UNCHANGED vars
  BY <1>7 DEF vars, keySetVars, LoopMoves
<1> QED BY <1>1, <1>2, <1>3, <1>4, <1>5, <1>6, <1>7 DEF Next, LoopStep

LEMMA StoredStep ==
    ASSUME IInv, FetchShape, Stored, [Next]_vars
    PROVE  Stored'
<1>1. ASSUME NEW r \in Req, RequestMoves(r), UNCHANGED loop PROVE Stored'
  <2>1. Replace(r) => keys' \in Images
    BY Installed DEF Fetcher
  <2>2. ~ready => keys' = keys /\ req'[r].pc \in {"idle", "done"}
    BY <1>1 DEF RequestMoves, Becomes, Stored, Missed
  <2>3. ready => keys' \in Images
    BY <1>1, <2>1 DEF RequestMoves, Stored
  <2>4. ready' = ready /\ \A q \in Req : q # r => req'[q] = req[q]
    BY <1>1 DEF RequestMoves
  <2> QED BY <1>1, <2>2, <2>3, <2>4 DEF Stored
<1>2. CASE LoopMoves
  <2>1. Replace(Loop) => keys' \in Images
    BY Installed DEF Fetcher
  <2> QED BY <1>2, <2>1 DEF LoopMoves, Stored
<1>3. CASE clock' = clock + 1 /\ UNCHANGED <<keys, snapAt, ready, req, loop>>
  BY <1>3 DEF Stored
<1> QED BY <1>1, <1>2, <1>3, AllMoves

LEMMA InitKeyed == Init => Keyed
<1> SUFFICES ASSUME Init PROVE Keyed
  OBVIOUS
<1> USE DEF Init, KeySetInit
<1>1. FetchShape
  BY DEF FetchShape, NoFetch
<1>2. Asked /\ Stored
  BY DEF Asked, Stored, Idle
<1>3. Joined
  BY DEF Joined
<1> QED BY <1>1, <1>2, <1>3 DEF Keyed

\* The keys are stored before they are used, and the requests keep what the
\* abstract cache tells of them.
THEOREM KeysInvariance == Spec => []Keyed
<1>1. IInv /\ Keyed /\ [Next]_vars => Keyed'
  BY FetchShapeStep, StoredStep, AskedStep, JoinedStep DEF Keyed, IInv
<1> QED BY <1>1, InitKeyed, Invariance, PTL DEF Spec

\* For any documents a provider may publish: once a key set is stored it holds
\* a key, and public ones only (parseJWKS, refresh).
THEOREM CacheIsNeverEmpty == Spec => []CacheNeverEmpty
<1>1. Keyed => CacheNeverEmpty
  <2> SUFFICES ASSUME Keyed, ready PROVE DOMAIN keys # {} /\ \A i \in DOMAIN keys : keys[i].kind = "public"
    BY DEF CacheNeverEmpty
  <2>1. PICK doc \in Docs : keys = ParseJWKS(doc) /\ keys # <<>>
    BY DEF Keyed, Stored, Images
  <2> QED BY <2>1 DEF ParseJWKS
<1> QED BY <1>1, KeysInvariance, PTL

\* When Shutdown has returned without error the goroutine is over, and has no
\* fetch under way (extension.go's Shutdown).
THEOREM ShutdownIsJoined == Spec => []ShutdownJoins
<1>1. IInv /\ Keyed => ShutdownJoins
  <2> SUFFICES ASSUME IInv, Keyed, shutdown = "joined"
               PROVE  loop \in {"created", "ended"} /\ fetch[Loop] = NoFetch
    BY DEF ShutdownJoins
  <2>1. loop \in {"created", "ended"}
    BY DEF Keyed, Joined
  <2>2. fetch[Loop].st = "none"
    BY <2>1 DEF IInv, Ownership
  <2> QED BY <2>1, <2>2 DEF Keyed, FetchShape, Fetcher
<1> QED BY <1>1, Invariance, KeysInvariance, PTL

\* A key that a token finds is the provider's: published as a public one,
\* under the token's kid and for its alg (findKey).
LEMMA FoundIsPublished ==
    ASSUME NEW doc, NEW kid, NEW alg, NEW key \in FindKey(ParseJWKS(doc), kid, alg)
    PROVE  \E i \in DOMAIN doc :
              doc[i] = key /\ key.kind = "public" /\ key.kid = kid /\ kid # NoText /\ key.alg \in {NoText, alg}
<1> DEFINE ks == ParseJWKS(doc)
<1>1. \E i \in DOMAIN ks : ks[i] = key /\ key.kid = kid /\ kid # NoText /\ key.alg \in {NoText, alg}
  <2> HIDE DEF ks
  <2> QED BY DEF FindKey, ks
<1> QED BY <1>1 DEF ParseJWKS

\* Whatever is published and whoever presents what: a token is verified only
\* with a key of the provider's that carries its kid and signed it (findKey).
THEOREM VerifiedWithItsOwnKey == Spec => VerifiedWithOwnKey
<1> DEFINE A == \A r \in Req :
          req[r].answer # "verified" /\ req'[r].answer = "verified" =>
              \E doc \in Docs : \E i \in DOMAIN doc :
                 /\ doc[i].kind = "public" /\ doc[i].mat = req[r].token.mat
                 /\ doc[i].kid = req[r].token.kid /\ doc[i].kid # NoText
                 /\ doc[i].alg \in {NoText, req[r].token.alg}
<1>1. IInv /\ Keyed /\ [Next]_vars => [A]_vars
  <2> SUFFICES ASSUME IInv, Keyed, [Next]_vars, NEW r \in Req, req[r].answer # "verified", req'[r].answer = "verified"
               PROVE  \E doc \in Docs : \E i \in DOMAIN doc :
                         /\ doc[i].kind = "public" /\ doc[i].mat = req[r].token.mat
                         /\ doc[i].kid = req[r].token.kid /\ doc[i].kid # NoText
                         /\ doc[i].alg \in {NoText, req[r].token.alg}
    OBVIOUS
  <2>1. req'[r] # req[r]
    OBVIOUS
  <2>2. RequestMoves(r)
    <3>1. PICK q \in Req : RequestMoves(q)
      BY <2>1, AllMoves DEF LoopMoves
    <3> QED BY <2>1, <3>1 DEF RequestMoves
  <2>3. Found(r) # {} /\ Verified(r) = "verified" /\ req[r].pc \in {"lookup", "relookup"}
    BY <2>2 DEF RequestMoves, Becomes
  <2>4. PICK key \in Found(r) : key.mat = req[r].token.mat
    BY <2>3 DEF Verified
  <2>5. PICK doc \in Docs : keys = ParseJWKS(doc)
    BY <2>3 DEF Keyed, Stored, Images
  <2>6. PICK i \in DOMAIN doc : /\ doc[i] = key /\ key.kind = "public" /\ key.kid = req[r].token.kid
                                /\ req[r].token.kid # NoText /\ key.alg \in {NoText, req[r].token.alg}
    BY <2>4, <2>5, FoundIsPublished DEF Found
  <2> QED BY <2>4, <2>6
<1> QED BY <1>1, Invariance, KeysInvariance, PTL DEF Spec, VerifiedWithOwnKey

-----------------------------------------------------------------------------
(* The key cache this implements, step by step. *)

\* The refinement maps the program's first state to the cache's.
LEMMA InitImplements == Init => Cache!Init
<1> SUFFICES ASSUME Init PROVE Cache!Init
  OBVIOUS
<1>1. \A r \in Req : Client(r) = [st |-> "idle", token |-> NoToken, answer |-> "none"]
  BY DEF Init, KeySetInit, Idle, Client, Stage
<1>2. Clients = [r \in Req |-> [st |-> "idle", token |-> NoToken, answer |-> "none"]]
  BY <1>1 DEF Clients
<1> QED BY <1>2 DEF Init, KeySetInit, Cache!Init, Cache!Client

\* A step of one request changes what one client sees.
LEMMA OneClient ==
    ASSUME NEW r \in Req, \A q \in Req : q # r => req'[q] = req[q]
    PROVE  Clients' = [Clients EXCEPT ![r] = Client(r)'] /\ Clients[r] = Client(r)
<1>1. \A q \in Req : q # r => Client(q)' = Client(q)
  BY DEF Client, Stage
<1>2. Clients' = [q \in Req |-> Client(q)'] /\ Clients = [q \in Req |-> Client(q)]
  BY DEF Clients
<1> QED BY <1>1, <1>2

\* The cache's verdict on a request is VerifySignature's.
LEMMA VerdictIsFound ==
    ASSUME Keyed, NEW r \in Req, req[r].pc \notin {"idle", "done"}
    PROVE  /\ Found(r) = {} => Cache!Judged(r) = "unknown_kid"
           /\ Found(r) # {} => Cache!Judged(r) = Verified(r) /\ Verified(r) # "unknown_kid"
<1>1. ready /\ keys \in Images /\ req[r].token \in Tokens
  BY DEF Keyed, Stored, Asked
<1>2. Clients[r].token = req[r].token
  BY DEF Clients, Client
<1>3. Cache!Judged(r) = Verdict(keys, req[r].token)
  BY <1>1, <1>2 DEF Cache!Judged
<1> QED BY <1>3 DEF Verdict, Found, Verified

LEMMA RequestImplements ==
    ASSUME IInv, Keyed, NEW r \in Req, RequestMoves(r)
    PROVE  [Cache!Next]_(Cache!vars)
<1> DEFINE new == Client(r)'
<1>1. Clients' = [Clients EXCEPT ![r] = new] /\ Clients[r] = Client(r) /\ clock' = clock /\ ready' = ready
  BY OneClient DEF RequestMoves
<1>2. Clients = [Clients EXCEPT ![r] = Client(r)]
  BY <1>1 DEF Clients
<1>3. /\ Client(r).st = Stage(r) /\ Client(r).token = req[r].token
      /\ Client(r) = [st |-> Stage(r), token |-> req[r].token, answer |-> req[r].answer]
      /\ new = [st |-> Stage(r)', token |-> req'[r].token, answer |-> req'[r].answer]
  BY DEF Client
<1>4. req[r].pc # "done" => req[r].answer = "none"
  BY DEF Keyed, Asked
<1> HIDE DEF new
<1>5. CASE req[r].pc = "fetch" /\ Replace(r) /\ Becomes(r, Missed, req[r].token, req[r].answer)
  <2>1. Stage(r) = "missed" /\ Stage(r)' = "missed"
    BY <1>5 DEF Stage, Becomes, Missed
  <2>2. Clients' = Clients
    BY <1>1, <1>2, <1>3, <1>5, <2>1 DEF Becomes
  <2>3. keys' \in Images /\ snapAt' \in 0..clock /\ clock - snapAt' <= FetchTimeout
    BY <1>5, Installed DEF Keyed, Fetcher
  <2>4. Cache!Replace(keys', snapAt')
    BY <1>1, <2>2, <2>3 DEF Cache!Replace
  <2> QED BY <2>3, <2>4 DEF Cache!Next
<1>6. CASE UNCHANGED <<keys, snapAt>>
  <2>1. CASE req[r].pc = "idle" /\ ~ready /\ Tokens # {} /\ Becomes(r, {"done"}, NoToken, "not_ready")
    <3>1. keys = <<>> /\ Stage(r) = "idle" /\ Stage(r)' = "done"
      BY <2>1 DEF Keyed, Stored, Stage, Becomes
    <3>2. new = Cache!Client("done", NoToken, "not_ready")
      BY <1>3, <2>1, <3>1 DEF Becomes, Cache!Client
    <3>3. \A tok \in Tokens : Cache!Ask(r, tok)
      BY <1>1, <1>3, <1>6, <3>1, <3>2 DEF Cache!Ask, Cache!Set
    <3> QED BY <2>1, <3>3 DEF Cache!Next
  <2>2. ASSUME NEW tok \in Tokens, req[r].pc = "idle", ready, Becomes(r, {"lookup"}, tok, req[r].answer)
        PROVE  Cache!Next
    <3>1. keys # <<>> /\ Stage(r) = "idle" /\ Stage(r)' = "asked"
      BY <2>2 DEF Keyed, Stored, Stage, Becomes, Images
    <3>2. new = Cache!Client("asked", tok, "none")
      BY <1>3, <1>4, <2>2, <3>1 DEF Becomes, Cache!Client
    <3>3. Cache!Ask(r, tok)
      BY <1>1, <1>3, <1>6, <3>1, <3>2 DEF Cache!Ask, Cache!Set
    <3> QED BY <3>3 DEF Cache!Next
  <2>3. CASE req[r].pc \in {"lookup", "relookup"} /\ Found(r) # {} /\ Becomes(r, {"done"}, NoToken, Verified(r))
    <3>1. Stage(r) \in {"asked", "missed"} /\ Stage(r)' = "done"
      BY <2>3 DEF Stage, Becomes
    <3>2. Cache!Judged(r) = Verified(r) /\ Verified(r) # "unknown_kid"
      BY <2>3, VerdictIsFound
    <3>3. new = Cache!Client("done", NoToken, Cache!Judged(r))
      BY <1>3, <2>3, <3>1, <3>2 DEF Becomes, Cache!Client
    <3>4. Cache!Answer(r)
      BY <1>1, <1>3, <1>6, <3>1, <3>2, <3>3 DEF Cache!Answer, Cache!Set
    <3> QED BY <3>4 DEF Cache!Next
  <2>4. CASE req[r].pc = "lookup" /\ Found(r) = {} /\ Becomes(r, {"wait"}, req[r].token, req[r].answer)
    <3>1. Stage(r) = "asked" /\ Stage(r)' = "missed"
      BY <2>4 DEF Stage, Becomes
    <3>2. Cache!Judged(r) = "unknown_kid"
      BY <2>4, VerdictIsFound
    <3>3. new = [Clients[r] EXCEPT !.st = "missed"]
      BY <1>1, <1>3, <2>4, <3>1 DEF Becomes
    <3>4. Cache!Miss(r)
      BY <1>1, <1>3, <1>6, <3>1, <3>2, <3>3 DEF Cache!Miss, Cache!Set
    <3> QED BY <3>4 DEF Cache!Next
  <2>5. CASE req[r].pc \in Missed /\ Becomes(r, Missed, req[r].token, req[r].answer)
    <3>1. Stage(r) = "missed" /\ Stage(r)' = "missed"
      BY <2>5 DEF Stage, Becomes, Missed
    <3>2. Clients' = Clients
      BY <1>1, <1>2, <1>3, <2>5, <3>1 DEF Becomes
    <3> QED BY <1>1, <1>6, <3>2 DEF Cache!vars
  <2>6. CASE req[r].pc \in Missed /\ Becomes(r, {"done"}, NoToken, "unknown_kid")
    <3>1. Stage(r) = "missed" /\ Stage(r)' = "done"
      BY <2>6 DEF Stage, Becomes, Missed
    <3>2. new = Cache!Client("done", NoToken, "unknown_kid")
      BY <1>3, <2>6, <3>1 DEF Becomes, Cache!Client
    <3>3. Cache!Answer(r)
      BY <1>1, <1>3, <1>6, <3>1, <3>2 DEF Cache!Answer, Cache!Set
    <3> QED BY <3>3 DEF Cache!Next
  <2> QED BY <1>5, <2>1, <2>2, <2>3, <2>4, <2>5, <2>6 DEF RequestMoves
<1> QED BY <1>5, <1>6 DEF RequestMoves

\* Requests that look up twice around a mutex, fetches that overlap and a
\* goroutine that replaces the keys beside them amount to one image, replaced
\* whole and by a recent one, by which each request is judged in a single step
\* (VerifySignature, refreshFor, refresh, keepFresh).
THEOREM KeySetImplementsKeyCache == Spec => ImplementsKeyCache
<1>1. IInv /\ Keyed /\ [Next]_vars => [Cache!Next]_(Cache!vars)
  <2> SUFFICES ASSUME IInv, Keyed, [Next]_vars PROVE [Cache!Next]_(Cache!vars)
    OBVIOUS
  <2>1. ASSUME NEW r \in Req, RequestMoves(r) PROVE [Cache!Next]_(Cache!vars)
    BY <2>1, RequestImplements
  <2>2. ASSUME UNCHANGED req PROVE Clients' = Clients
    BY <2>2 DEF Clients, Client, Stage
  <2>3. CASE LoopMoves
    <3>1. CASE Replace(Loop)
      <4>1. keys' \in Images /\ snapAt' \in 0..clock /\ clock - snapAt' <= FetchTimeout
        BY <3>1, Installed DEF Keyed, Fetcher
      <4>2. Cache!Replace(keys', snapAt')
        BY <2>2, <2>3, <4>1 DEF LoopMoves, Cache!Replace
      <4> QED BY <4>1, <4>2 DEF Cache!Next
    <3>2. CASE ~Replace(Loop)
      BY <2>2, <2>3, <3>2 DEF LoopMoves, Cache!vars
    <3> QED BY <3>1, <3>2
  <2>4. CASE clock' = clock + 1 /\ UNCHANGED <<keys, snapAt, ready, req, loop>>
    <3>1. Cache!Tick
      BY <2>2, <2>4 DEF Cache!Tick
    <3> QED BY <3>1 DEF Cache!Next
  <2> QED BY <2>1, <2>3, <2>4, AllMoves
<1> QED BY <1>1, InitImplements, Invariance, KeysInvariance, PTL DEF Spec, ImplementsKeyCache, Cache!Spec
=============================================================================
