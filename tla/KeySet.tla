------------------------------- MODULE KeySet -------------------------------
(***************************************************************************)
(* The authenticator's cached JWKS (extension/oidcclientauth/keyset.go):   *)
(* concurrent requests look a token's kid up, a miss makes one request at  *)
(* a time fetch the JWKS again, at most once every MinRefreshInterval, and *)
(* a fetch that answers replaces the cache.  A fetch is three steps: sent, *)
(* answered by the provider (which fixes the image of the JWKS it carries) *)
(* or failed, and applied by the goroutine that sent it, so fetches of     *)
(* different goroutines overlap exactly where the code lets them.          *)
(*                                                                         *)
(* This module has the requests, the fetches, the provider and the clock;  *)
(* module Discovery adds the background goroutine that loads the JWKS and  *)
(* re-reads it, and the next-state relation of the whole.                  *)
(***************************************************************************)
EXTENDS Integers, Sequences

CONSTANTS
    Req,                 \* requests, each one call of Authenticate
    Loop,                \* the background goroutine of discovery.go
    Tokens,              \* what a request may present: kid, alg, material
    Docs,                \* the JWKS documents the provider may publish
    MinRefreshInterval,  \* least time between two fetches unknown kids cause
    FetchTimeout,        \* http.Client.Timeout of every provider request
    MaxClock             \* bound on the clock

NoReq == "nobody"
NoText == ""
NoToken == [kid |-> NoText, alg |-> NoText, mat |-> NoText]

ASSUME LoopIsNoRequest == Loop \notin Req
ASSUME NobodyIsNoRequest == NoReq \notin Req \cup {Loop}
ASSUME DurationsArePositive ==
    /\ MinRefreshInterval \in Nat \ {0}
    /\ FetchTimeout \in Nat \ {0}
    /\ MaxClock \in Nat

VARIABLES
    \* The provider, and the clock.
    jwks,         \* the document the provider publishes
    clock,
    \* The keySet struct.
    keys, generation, missFetched,
    refreshing,   \* who holds the mutex of that name, or NoReq
    \* The fetch each goroutine has under way.
    fetch,
    \* Each request: its place, token, the generation its first lookup saw, the
    \* time refreshFor read, its answer and, as history, when it came.
    req,
    \* The authenticator's atomic pointer to the keySet, nil or stored.
    ready,
    \* History, read by the properties only: when the cached image was served,
    \* whether the last fetch a miss caused failed, and how the fetches of
    \* others ended while a request waited for the mutex.
    snapAt, missFailed, waited

providerVars == <<jwks, clock>>
cacheVars    == <<keys, generation, snapAt>>
missVars     == <<missFetched, missFailed, waited>>
keySetVars   == <<providerVars, cacheVars, missVars, refreshing, fetch, req, ready>>

Fetcher == Req \cup {Loop}

-----------------------------------------------------------------------------
(* The JWKS: which keys of a document are kept, and which key a token names. *)

\* A key of a type this build does not know, a private key and an encryption
\* key are skipped; the others keep their place in the document.
ParseJWKS(doc) == [i \in {j \in DOMAIN doc : doc[j].kind = "public"} |-> doc[i]]

FindKeyOfNoKid(ks, kid, alg) ==  \* mutant: a key without a kid serves a token without one
    LET named == {i \in DOMAIN ks : ks[i].kid = kid /\ ks[i].alg \in {NoText, alg}}
    IN  {ks[i] : i \in {j \in named : \A k \in named : j <= k}}

\* The first key of that kid whose alg, when it states one, is the token's:
\* a set of at most one.  No key has the empty kid a token without one shows.
FindKey(ks, kid, alg) ==
    LET named == {i \in DOMAIN ks : ks[i].kid = kid /\ ks[i].alg \in {NoText, alg}}
    IN  {ks[i] : i \in {j \in named : kid # NoText /\ \A k \in named : j <= k}}

Found(r) == FindKey(keys, req[r].token.kid, req[r].token.alg)

\* go-jose's Verify: the signature was made with the key's own private half.
Verified(r) == IF \E key \in Found(r) : key.mat = req[r].token.mat
               THEN "verified" ELSE "bad_signature"

-----------------------------------------------------------------------------
(* A fetch: http.Client.Do with a timeout, on the sender's context. *)

NoFetch == [st |-> "none", began |-> 0, doc |-> <<>>, at |-> 0]
Sent    == [st |-> "sent", began |-> clock, doc |-> <<>>, at |-> 0]

\* The provider serves the document it publishes now.
FetchAnswered(f) ==
    /\ fetch[f].st = "sent"
    /\ fetch' = [fetch EXCEPT ![f] = [@ EXCEPT !.st = "got", !.doc = jwks, !.at = clock]]

\* No connection, an answer that is not 200, too large or not a JWKS, the
\* client's timeout, or the sender's context ending (the request's client
\* left, or Shutdown).
FetchFails(f) ==
    /\ fetch[f].st = "sent"
    /\ fetch' = [fetch EXCEPT ![f].st = "failed"]

FetchEnds(f) == FetchAnswered(f) \/ FetchFails(f)

FetchedAnything(f) == fetch[f].st = "got"  \* mutant: an empty key set is no error

\* A document with no key to keep is an error, as a failed fetch is.
FetchedKeys(f) == fetch[f].st = "got" /\ DOMAIN ParseJWKS(fetch[f].doc) # {}
FetchedNone(f) == fetch[f].st \in {"got", "failed"} /\ ~FetchedKeys(f)

\* refresh: a fetch that found keys replaces the cache, any other keeps it.
Replace(f) ==
    /\ FetchedKeys(f)
    /\ keys' = ParseJWKS(fetch[f].doc)
    /\ generation' = generation + 1
    /\ snapAt' = fetch[f].at
    /\ fetch' = [fetch EXCEPT ![f] = NoFetch]

Keep(f) ==
    /\ FetchedNone(f)
    /\ fetch' = [fetch EXCEPT ![f] = NoFetch]
    /\ UNCHANGED cacheVars

-----------------------------------------------------------------------------
(* A request. *)

Idle == [pc |-> "idle", token |-> NoToken, gen |-> 0, now |-> 0, came |-> 0, answer |-> "none"]

\* The request's locals end with its answer.
Reply(r, what) == req' = [req EXCEPT ![r] = [Idle EXCEPT !.pc = "done", !.answer = what]]

\* Authenticate, up to the key set: with no key set stored it is not ready.
Authenticate(r, tok) ==
    /\ req[r].pc = "idle"
    /\ \/ /\ ready
          /\ req' = [req EXCEPT ![r] = [@ EXCEPT !.pc = "lookup", !.token = tok, !.came = clock]]
       \/ ~ready /\ Reply(r, "not_ready")
    /\ UNCHANGED <<providerVars, cacheVars, missVars, refreshing, fetch, ready>>

\* VerifySignature's first lookup.
Lookup(r) ==
    /\ req[r].pc = "lookup"
    /\ \/ Found(r) # {} /\ Reply(r, Verified(r))
       \/ Found(r) = {} /\ req' = [req EXCEPT ![r] = [@ EXCEPT !.pc = "wait", !.gen = generation]]
    /\ UNCHANGED <<providerVars, cacheVars, missVars, refreshing, fetch, ready>>

\* refreshFor: the mutex, which does not heed the request's context.
LockRefreshing(r) ==
    /\ req[r].pc = "wait" /\ refreshing = NoReq
    /\ refreshing' = r
    /\ req' = [req EXCEPT ![r] = [@ EXCEPT !.pc = "decide"]]
    /\ UNCHANGED <<providerVars, cacheVars, missVars, fetch, ready>>

StaleAnyway(r) == clock - missFetched >= MinRefreshInterval  \* mutant: no generation
StaleAtOnce(r) == generation = req[r].gen                   \* mutant: no interval
StaleLater(r) ==                                            \* mutant: > for >=
    generation = req[r].gen /\ clock - missFetched > MinRefreshInterval

\* refreshFor's read, under the read lock, of the clock, the generation and
\* the time of the last fetch a miss caused.
Stale(r) ==
    /\ generation = req[r].gen
    /\ clock - missFetched >= MinRefreshInterval

Decide(r) ==
    /\ req[r].pc = "decide"
    /\ \/ Stale(r) /\ req' = [req EXCEPT ![r] = [@ EXCEPT !.pc = "mark", !.now = clock]]
       \/ ~Stale(r) /\ req' = [req EXCEPT ![r] = [@ EXCEPT !.pc = "relookup", !.now = clock]]
    /\ UNCHANGED <<providerVars, cacheVars, missVars, refreshing, fetch, ready>>

\* The write lock, taken after the read lock was given up; then the fetch.
Mark(r) ==
    /\ req[r].pc = "mark"
    /\ missFetched' = req[r].now
    /\ fetch' = [fetch EXCEPT ![r] = Sent]
    /\ req' = [req EXCEPT ![r] = [@ EXCEPT !.pc = "fetch"]]
    /\ UNCHANGED <<providerVars, cacheVars, refreshing, ready, missFailed, waited>>

\* How a fetch a miss caused ended, for the requests that wait meanwhile.
Ended(how) ==
    /\ missFailed' = (how = "failed")
    /\ waited' = [q \in Req |-> IF req[q].pc = "wait" THEN waited[q] \cup {how} ELSE waited[q]]
    /\ UNCHANGED missFetched

Refreshed(r) ==
    /\ req[r].pc = "fetch" /\ Replace(r)
    /\ req' = [req EXCEPT ![r] = [@ EXCEPT !.pc = "relookup"]]
    /\ Ended("ok")
    /\ UNCHANGED <<providerVars, refreshing, ready>>

RefreshFailedLocked(r) ==  \* mutant: the early return without the unlock
    /\ req[r].pc = "fetch" /\ Keep(r)
    /\ Reply(r, "unknown_kid")
    /\ Ended("failed")
    /\ UNCHANGED <<providerVars, refreshing, ready>>

\* A failed fetch is refreshFor's early return: no second lookup.
RefreshFailed(r) ==
    /\ req[r].pc = "fetch" /\ Keep(r)
    /\ Reply(r, "unknown_kid")
    /\ refreshing' = NoReq
    /\ Ended("failed")
    /\ UNCHANGED <<providerVars, ready>>

\* The second lookup, then the deferred unlock.
Relookup(r) ==
    /\ req[r].pc = "relookup"
    /\ Reply(r, IF Found(r) = {} THEN "unknown_kid" ELSE Verified(r))
    /\ refreshing' = NoReq
    /\ UNCHANGED <<providerVars, cacheVars, missVars, fetch, ready>>

RequestFetchEnds(r) ==
    /\ FetchEnds(r)
    /\ UNCHANGED <<providerVars, cacheVars, missVars, refreshing, req, ready>>

RequestStep(r) ==
    \/ Lookup(r) \/ LockRefreshing(r) \/ Decide(r) \/ Mark(r)
    \/ Refreshed(r) \/ RefreshFailed(r) \/ Relookup(r)

RequestNext(r) ==
    \/ \E tok \in Tokens : Authenticate(r, tok)
    \/ RequestStep(r)
    \/ RequestFetchEnds(r)

-----------------------------------------------------------------------------
(* The provider. *)

Publish(doc) ==
    /\ doc # jwks /\ jwks' = doc
    /\ UNCHANGED <<clock, cacheVars, missVars, refreshing, fetch, req, ready>>

\* newKeySet's zero values: missFetched is the zero time, an age before now.
KeySetInit ==
    /\ jwks \in Docs /\ clock = 0
    /\ keys = <<>> /\ generation = 0 /\ missFetched = 0 - MinRefreshInterval
    /\ refreshing = NoReq
    /\ fetch = [f \in Fetcher |-> NoFetch]
    /\ req = [r \in Req |-> Idle]
    /\ ready = FALSE
    /\ snapAt = 0 /\ missFailed = FALSE
    /\ waited = [r \in Req |-> {}]

=============================================================================
