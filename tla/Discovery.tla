----------------------------- MODULE Discovery -----------------------------
(***************************************************************************)
(* The authenticator around its key set: the background goroutine of       *)
(* discovery.go, which loads the provider (discovery document, then JWKS), *)
(* retries until it has, stores the key set and then re-reads the JWKS on  *)
(* an interval; extension.go's Start and Shutdown around that goroutine;   *)
(* and the requests of KeySet, which run beside it.  keepFresh calls       *)
(* refresh without the mutex a missing kid takes, so its fetch overlaps    *)
(* theirs.                                                                 *)
(*                                                                         *)
(* Timers are prompt: a sleep ends, and a request to the provider times    *)
(* out, at its time and not later.  Every other step takes any time.       *)
(***************************************************************************)
EXTENDS KeySet

CONSTANTS
    DiscoveryRetry,  \* OIDC_DISCOVERY_RETRY
    JWKSRefresh      \* OIDC_JWKS_REFRESH

ASSUME IntervalsArePositive ==
    DiscoveryRetry \in Nat \ {0} /\ JWKSRefresh \in Nat \ {0}

VARIABLES
    loop,       \* where provider.run is
    wakeAt,     \* when its sleep ends
    shutdown,   \* how far the extension's Shutdown is
    \* History: whether the last re-read succeeded, and when the image the
    \* last successful one applied was served.
    rereadOK, rereadSnap

loopVars == <<loop, wakeAt, shutdown, rereadOK, rereadSnap>>
vars == <<keySetVars, loopVars>>

Stopping == shutdown # "no"

\* The requests and what they share, with the loop's own state apart.
othersVars == <<providerVars, req, missVars, refreshing>>

-----------------------------------------------------------------------------
(* provider.run *)

\* Start: the goroutine begins, with the discovery request.
Start ==
    /\ loop = "created" /\ ~Stopping
    /\ loop' = "discovery"
    /\ fetch' = [fetch EXCEPT ![Loop] = Sent]
    /\ UNCHANGED <<othersVars, cacheVars, ready, wakeAt, shutdown, rereadOK, rereadSnap>>

LoopFetchEnds ==
    /\ FetchEnds(Loop)
    /\ UNCHANGED <<othersVars, cacheVars, ready, loopVars>>

\* load: discovery answered (its issuer the configured one, its jwks_uri not
\* empty), so the JWKS is fetched.
Discovered ==
    /\ loop = "discovery" /\ fetch[Loop].st = "got"
    /\ loop' = "jwks"
    /\ fetch' = [fetch EXCEPT ![Loop] = Sent]
    /\ UNCHANGED <<othersVars, cacheVars, ready, wakeAt, shutdown, rereadOK, rereadSnap>>

LoadedLate ==  \* mutant: the deadline of the sleep before its start
    /\ loop = "jwks" /\ Replace(Loop)
    /\ ready' = TRUE
    /\ loop' = "sleeping" /\ wakeAt' = clock - JWKSRefresh
    /\ rereadOK' = TRUE /\ rereadSnap' = fetch[Loop].at
    /\ UNCHANGED <<othersVars, shutdown>>

\* load's success, and run's hand-over of the keys before keepFresh sleeps.
Loaded ==
    /\ loop = "jwks" /\ Replace(Loop)
    /\ ready' = TRUE
    /\ loop' = "sleeping" /\ wakeAt' = clock + JWKSRefresh
    /\ rereadOK' = TRUE /\ rereadSnap' = fetch[Loop].at
    /\ UNCHANGED <<othersVars, shutdown>>

\* load's failure: discover ends if its context has, else waits to retry.
LoadFailed ==
    /\ \/ loop = "discovery" /\ fetch[Loop].st = "failed"
       \/ loop = "jwks" /\ FetchedNone(Loop)
    /\ fetch' = [fetch EXCEPT ![Loop] = NoFetch]
    /\ \/ Stopping /\ loop' = "ended" /\ UNCHANGED wakeAt
       \/ ~Stopping /\ loop' = "retrying" /\ wakeAt' = clock + DiscoveryRetry
    /\ UNCHANGED <<othersVars, cacheVars, ready, shutdown, rereadOK, rereadSnap>>

\* sleep: its timer, which may win over a context that has ended too ...
Wake ==
    /\ clock >= wakeAt
    /\ \/ loop = "retrying" /\ loop' = "discovery"
       \/ loop = "sleeping" /\ loop' = "rereading"
    /\ fetch' = [fetch EXCEPT ![Loop] = Sent]
    /\ UNCHANGED <<othersVars, cacheVars, ready, wakeAt, shutdown, rereadOK, rereadSnap>>

SleepGoesOn ==  \* mutant: sleep's result ignored
    /\ Stopping
    /\ \/ loop = "retrying" /\ loop' = "discovery"
       \/ loop = "sleeping" /\ loop' = "rereading"
    /\ fetch' = [fetch EXCEPT ![Loop] = Sent]
    /\ UNCHANGED <<othersVars, cacheVars, ready, wakeAt, shutdown, rereadOK, rereadSnap>>

\* ... or its context ending, which ends discover or keepFresh, and run.
SleepCancelled ==
    /\ loop \in {"retrying", "sleeping"} /\ Stopping
    /\ loop' = "ended"
    /\ UNCHANGED <<othersVars, cacheVars, ready, fetch, wakeAt, shutdown, rereadOK, rereadSnap>>

\* keepFresh: the re-read replaces the cache or, failing, keeps it; then sleep.
Reread ==
    /\ loop = "rereading"
    /\ \/ Replace(Loop) /\ rereadOK' = TRUE /\ rereadSnap' = fetch[Loop].at
       \/ Keep(Loop) /\ rereadOK' = FALSE /\ UNCHANGED rereadSnap
    /\ loop' = "sleeping" /\ wakeAt' = clock + JWKSRefresh
    /\ UNCHANGED <<othersVars, ready, shutdown>>

LoopStep ==
    \/ Discovered \/ Loaded \/ LoadFailed \/ Wake \/ SleepCancelled \/ Reread

-----------------------------------------------------------------------------
(* The extension's Shutdown: cancel, wait for run within the context given. *)

Shutdown ==
    /\ shutdown = "no"
    /\ shutdown' = "waiting"
    /\ UNCHANGED <<othersVars, cacheVars, ready, fetch, loop, wakeAt, rereadOK, rereadSnap>>

ShutdownReturnsAtOnce ==  \* mutant: cancel, without the wait for run
    /\ shutdown = "waiting"
    /\ shutdown' \in {"joined", "late"}
    /\ UNCHANGED <<othersVars, cacheVars, ready, fetch, loop, wakeAt, rereadOK, rereadSnap>>
ShutdownReturns ==
    /\ shutdown = "waiting"
    /\ \/ loop \in {"created", "ended"} /\ shutdown' = "joined"
       \/ shutdown' = "late"
    /\ UNCHANGED <<othersVars, cacheVars, ready, fetch, loop, wakeAt, rereadOK, rereadSnap>>

-----------------------------------------------------------------------------
(* Time passes, but not past a timer that is due. *)

TickUntimed ==  \* mutant: an http.Client without a Timeout
    /\ clock < MaxClock
    /\ loop \in {"retrying", "sleeping"} => clock < wakeAt
    /\ clock' = clock + 1
    /\ UNCHANGED <<jwks, cacheVars, missVars, refreshing, fetch, req, ready, loopVars>>
Tick ==
    /\ clock < MaxClock
    /\ \A f \in Fetcher : fetch[f].st # "none" => clock < fetch[f].began + FetchTimeout
    /\ loop \in {"retrying", "sleeping"} => clock < wakeAt
    /\ clock' = clock + 1
    /\ UNCHANGED <<jwks, cacheVars, missVars, refreshing, fetch, req, ready, loopVars>>

Init ==
    /\ KeySetInit
    /\ loop = "created" /\ wakeAt = 0 /\ shutdown = "no"
    /\ rereadOK = FALSE /\ rereadSnap = 0

Next ==
    \/ \E r \in Req : RequestNext(r) /\ UNCHANGED loopVars
    \/ \E doc \in Docs : Publish(doc) /\ UNCHANGED loopVars
    \/ Start \/ LoopStep \/ LoopFetchEnds
    \/ Shutdown \/ ShutdownReturns
    \/ Tick

\* Goroutines are scheduled; a request to the provider ends, at its timeout
\* at the latest; Shutdown's context has a deadline.  Nothing is assumed of
\* clients, of the provider or of who gets the mutex first.
Fairness ==
    /\ \A r \in Req : WF_vars(RequestStep(r) /\ UNCHANGED loopVars)
    /\ \A r \in Req : WF_vars(RequestFetchEnds(r) /\ UNCHANGED loopVars)
    /\ WF_vars(LoopStep) /\ WF_vars(LoopFetchEnds) /\ WF_vars(ShutdownReturns)

Spec == Init /\ [][Next]_vars
FairSpec == Spec /\ Fairness

-----------------------------------------------------------------------------
(* Properties. *)

Request == [pc : {"idle", "lookup", "wait", "decide", "mark", "fetch", "relookup", "done"},
            token : Tokens \cup {NoToken}, gen : Nat, now : Nat, came : Nat,
            answer : {"none", "not_ready", "verified", "bad_signature", "unknown_kid"}]

TypeOK ==
    /\ jwks \in Docs /\ clock \in Nat
    /\ generation \in Nat /\ missFetched \in Int /\ refreshing \in Req \cup {NoReq}
    /\ fetch \in [Fetcher -> [st : {"none", "sent", "got", "failed"}, began : Nat,
                              doc : Docs \cup {<<>>}, at : Nat]]
    /\ req \in [Req -> Request] /\ ready \in BOOLEAN
    /\ snapAt \in Nat /\ missFailed \in BOOLEAN /\ waited \in [Req -> SUBSET {"ok", "failed"}]
    /\ loop \in {"created", "discovery", "jwks", "retrying", "sleeping", "rereading", "ended"}
    /\ wakeAt \in Nat /\ shutdown \in {"no", "waiting", "joined", "late"}
    /\ rereadOK \in BOOLEAN /\ rereadSnap \in Nat

\* A provider that withdraws every usable key locks nobody out: once a key
\* set is stored for the requests, it holds at least one key, each a public
\* one, whatever the fetches that followed brought (parseJWKS, refresh).
CacheNeverEmpty ==
    ready => DOMAIN keys # {} /\ \A i \in DOMAIN keys : keys[i].kind = "public"

\* A token is verified only with a key the provider published, as a public
\* one, under the token's own kid and for its alg, and only if that key signed
\* it: not with another key's image, nor for want of a kid (findKey).
VerifiedWithOwnKey ==
    [][\A r \in Req :
          req[r].answer # "verified" /\ req'[r].answer = "verified" =>
              \E doc \in Docs : \E i \in DOMAIN doc :
                 /\ doc[i].kind = "public" /\ doc[i].mat = req[r].token.mat
                 /\ doc[i].kid = req[r].token.kid /\ doc[i].kid # NoText
                 /\ doc[i].alg \in {NoText, req[r].token.alg}]_vars

\* Two fetches that unknown kids cause are decided on MinRefreshInterval apart
\* at least (minRefreshInterval), though refreshFor decides under one lock and
\* writes missFetched under another.
MissFetchesAreSpaced ==
    [][\A r \in Req :
          fetch[r].st = "none" /\ fetch'[r].st # "none"
              => missFetched' >= missFetched + MinRefreshInterval]_vars

\* Concurrent misses share a fetch that succeeds: a request that was waiting
\* for the mutex when another request's fetch replaced the cache makes no
\* fetch of its own (refreshFor's generation).
SuccessfulFetchIsShared ==
    \A r \in Req : req[r].pc \in {"mark", "fetch"} => "ok" \notin waited[r]

\* While re-reads succeed, the keys requests verify with are an image of the
\* JWKS the provider served at most JWKSRefresh + 2 * FetchTimeout ago: the
\* longest a withdrawn key stays trusted, fetches that overtake each other
\* included (keepFresh, refresh).
TrustBound ==
    loop \in {"sleeping", "rereading"} /\ rereadOK
        => clock - snapAt <= JWKSRefresh + 2 * FetchTimeout

\* A token is refused as of an unknown kid only on a JWKS served less than
\* MinRefreshInterval + FetchTimeout before its request came, unless the last
\* fetch a miss caused failed: a key published that long before a client uses
\* it is always found, fetches that overtake each other included (refreshFor).
UnknownKidIsFresh ==
    [][\A r \in Req :
          req[r].pc = "relookup" /\ req'[r].answer = "unknown_kid" /\ ~missFailed
              => req[r].came - snapAt < MinRefreshInterval + FetchTimeout]_vars

\* When Shutdown has returned without error the background goroutine is over:
\* the loop fetches nothing more and hands no keys over.
ShutdownJoins == shutdown = "joined" => loop \in {"created", "ended"} /\ fetch[Loop] = NoFetch

\* Every request is answered, however the provider, the other requests and
\* the clients that leave behave: nobody waits for the mutex for ever.
RequestsAnswered == \A r \in Req : req[r].pc # "idle" ~> req[r].pc = "done"

\* Shutdown returns, and the background goroutine ends after it.
ShutdownEndsLoop == (shutdown # "no" /\ loop # "created") ~> loop = "ended"

-----------------------------------------------------------------------------
(* The key cache this implements. *)

\* The images refresh may install, and what VerifySignature makes of a token
\* against one of them.
Images == {ParseJWKS(doc) : doc \in Docs} \ {<<>>}
Verdict(ks, tok) ==
    LET found == FindKey(ks, tok.kid, tok.alg)
    IN  IF found = {} THEN "unknown_kid"
        ELSE IF \E key \in found : key.mat = tok.mat THEN "verified" ELSE "bad_signature"

\* A request has missed once its first lookup has.
Stage(r) ==
    IF req[r].pc \in {"idle", "done"} THEN req[r].pc
    ELSE IF req[r].pc = "lookup" THEN "asked" ELSE "missed"

Client(r) == [st |-> Stage(r), token |-> req[r].token, answer |-> req[r].answer]
Clients   == [r \in Req |-> Client(r)]

Cache == INSTANCE KeyCache WITH image <- keys, servedAt <- snapAt, NoImage <- <<>>, client <- Clients

\* Requests that look up twice around a mutex, fetches that overlap and a
\* background goroutine that replaces the keys beside them amount to one image
\* that is replaced whole, never by an empty or an old one, and by which each
\* request is judged in a single step (VerifySignature, refreshFor, refresh,
\* keepFresh).
ImplementsKeyCache == Cache!Spec

-----------------------------------------------------------------------------
(* The inductive invariant behind the safety properties. *)

InRefreshFor == {"decide", "mark", "fetch", "relookup"}

\* The mutex is held by the one request inside refreshFor, and a goroutine
\* has a fetch under way exactly where the code waits for one.
Ownership ==
    /\ \A r \in Req : req[r].pc \in InRefreshFor <=> refreshing = r
    /\ \A r \in Req : fetch[r].st # "none" <=> req[r].pc = "fetch"
    /\ fetch[Loop].st # "none" <=> loop \in {"discovery", "jwks", "rereading"}

\* A fetch is answered after it began and is over by its timeout.
FetchTimes ==
    \A f \in Fetcher : fetch[f].st # "none" =>
        /\ fetch[f].began <= clock /\ clock <= fetch[f].began + FetchTimeout
        /\ fetch[f].st = "got" => fetch[f].began <= fetch[f].at

\* What a request read lies in its past, in the order it read it.
RequestTimes ==
    /\ \A r \in Req : req[r].came <= clock /\ req[r].gen <= generation
    /\ \A r \in Req : req[r].pc \in {"mark", "fetch", "relookup"} =>
                         req[r].came <= req[r].now /\ req[r].now <= clock

\* The decision to fetch still stands when missFetched is written.
MissTimes ==
    /\ missFetched <= clock
    /\ \A r \in Req : req[r].pc = "mark" => req[r].now - missFetched >= MinRefreshInterval
    /\ \A r \in Req : req[r].pc = "fetch" => missFetched <= fetch[r].began

\* A request that waited out a successful fetch sees the generation move.
Sharing ==
    \A r \in Req :
        /\ req[r].pc \in {"idle", "lookup"} => waited[r] = {}
        /\ req[r].pc \in {"wait", "decide"} /\ "ok" \in waited[r] => req[r].gen < generation
        /\ req[r].pc \in {"mark", "fetch"} => "ok" \notin waited[r]

\* Until the next re-read is applied, the image was served no more than
\* FetchTimeout before the last one was.
LoopTimes ==
    /\ loop = "sleeping" => clock <= wakeAt /\ wakeAt <= clock + JWKSRefresh
    /\ loop = "sleeping" /\ rereadOK => wakeAt <= snapAt + FetchTimeout + JWKSRefresh
    /\ loop = "rereading" /\ rereadOK => fetch[Loop].began <= snapAt + FetchTimeout + JWKSRefresh

\* An image that replaced the one a request missed in, or that the last fetch
\* a miss caused left behind, is at most FetchTimeout older than either.
Freshness ==
    /\ \A r \in Req : req[r].pc \in InRefreshFor \cup {"wait"} /\ req[r].gen < generation =>
            snapAt + FetchTimeout >= req[r].came
    /\ ~missFailed /\ (\A r \in Req : req[r].pc # "fetch") => snapAt + FetchTimeout >= missFetched
    /\ \A r \in Req : req[r].pc = "relookup" =>
            req[r].gen < generation \/ req[r].now - missFetched < MinRefreshInterval

IInv ==
    /\ TypeOK /\ Ownership /\ FetchTimes /\ RequestTimes /\ MissTimes
    /\ Sharing /\ LoopTimes /\ Freshness

-----------------------------------------------------------------------------
(* What comments and documents say that the code does not do. *)

\* docs/token-profile.md: a key removed from the JWKS stops being trusted at
\* the next scheduled re-read, so the cache is never an image of the JWKS
\* older than the one the last re-read applied.
RereadIsFinal == ready => snapAt >= rereadSnap

\* keyset.go: requests that miss together wait for one fetch rather than each
\* making their own, so none makes one after it has waited for another's.
MissesMakeOneFetch == \A r \in Req : req[r].pc = "fetch" => waited[r] = {}

=============================================================================
