# TLA+ models of otlp-collector-oidc

otlp-collector-oidc is an OpenTelemetry collector that accepts OTLP over gRPC and HTTP on one port,
admits a request only with a valid OIDC access token, stamps what it forwards with the token's
identity, bounds what a client can cost downstream, and exports to an upstream. This directory holds
TLA+ models of the parts that carry its logic, the TLC configurations that check them on small
instances, and TLAPS proofs of the properties that matter most for every instance.

Every definition is translated from the Go source; `PROJECT.json` ("map") gives the lines each one
stands for. Definitions keep the source's names, capitalised.

## 1. The system

| Part | Source | State it keeps | Operations | Modelled by |
|---|---|---|---|---|
| Key set | `extension/oidcclientauth/keyset.go` | cached keys, `generation`, `missFetched`, mutexes `mu` and `refreshing` | `VerifySignature`, `lookup`, `refreshFor`, `refresh`, `fetch`, `parseJWKS`, `findKey` | `KeySet` |
| Discovery | `discovery.go`, `extension.go`, `factory.go` | the goroutine's place and timer, the atomic pointer to the key set, `cancel`/`done` | `Start`, `run`, `discover`, `load`, `keepFresh`, `sleep`, `Shutdown` | `Discovery` |
| Token rules | `bearer.go`, `verify.go`, `authorize.go`, `authdata.go`, `reason.go` | none: a function of the request, the keys and the clock | `bearerToken`, `verify`, `registered`, `authorize`, `newAuthData` | `TokenProfile` |
| Refusal telemetry | `telemetry.go` | the counter, a window per reason | `record`, `admit` | `Rejections` |
| Single-port receiver | `receiver/otlpsingleport`: `server.go`, `http.go`, `grpc.go`, `errors.go`, `refusals.go`, `export.go` | the HTTP and gRPC servers, the routes, a `handled` mark per RPC, counters | `Start`, `Shutdown`, `ServeHTTP`, `exportHandler`, the gRPC handlers, `TagRPC`, `HandleRPC`, the error handler | `SinglePort` |
| Shared receiver | `receiver/otlpsingleport/factory.go` | the registry, `startOnce`, `stopOnce` | `load`, `release`, `Start`, `Shutdown` | `SharedReceiver` |
| Payload bounds, identity | `internal/render/bounds.go`, `identity.go`, `metrics.go`, `collector.yaml.tmpl` | none of its own: an item on its way through the processors | filters, clamps, stamping, stripping | `Pipeline` |
| Upstream resolution | `internal/upstream`, `internal/render/upstream.go`, `selftelemetry.go` | the resolver: faults, `anyTLS`, `anyGRPC` | `Resolve`, `signal`, `value`, `setEndpoint`, `all`, `endpoints`, `selfLogsExporter` | `Upstream` |
| Run command | `internal/render/run.go`, `env.go`, `values.go`; the `Validate` of both components' `config.go` | the rendered file, the environment | `Load`, `Validate`, `run`, `newLogger`, `writeExclusive`, `onlyLoggerShutdown` | `Settings`, `RunCommand` |
| Rendering | `render.go`, `docs.go`, the template | none | templating, the generated reference | what it writes: in the modules of its meaning; the rest not |
| Entry point, build info, harness | `cmd`, `internal/build`, `integration` | - | wiring, test infrastructure | not modelled |

How they interact. Every request on the listener first meets the authenticator (confighttp's
interceptor calls `Authenticate`), then the decompressor, then the receiver's dispatcher. The
authenticator reads the key set through an atomic pointer that the discovery goroutine stores once,
and the key set in turn is replaced by that goroutine's re-reads and by the fetches requests make on
a kid they do not find. A refusal is recorded by the refusal telemetry and answered by the receiver's
error handler. What the pipeline returns becomes the answer. In the pipeline the processors bound an
item's times, replace what the client claims to be with the identity the authenticator left in the
request's context, and batch it with other requests' items. All of it is configured before
anything runs: the run command loads and validates the environment, the upstreams among it, writes the
collector's configuration to a file of a fixed name and runs the collector on that file, which reads
it again at every reload. The collector's service builds one receiver per pipeline, which are all the
same shared one, and starts and stops it through each of them.

The behaviours that are hard:

- fetches of the JWKS overlap: those of requests are serialised by `refreshing`, the scheduled
  re-read takes no part in that, and all are applied in the order they end, which is not the order
  the provider answered them in;
- the decision to fetch is taken under one lock and recorded under another, on a generation read
  before either;
- a fetch runs on the context of the request that happened to make it, and can fail or time out for
  that request's reasons while others wait for it;
- Shutdown, of the extension and of the receiver, meets work in flight and may give up waiting;
- the receiver is started by the first pipeline and stopped by the first, in orders the service
  chooses, and a pipeline may be stopped that was never started;
- processes that share a temporary directory race for one file name, step by step, and may be killed
  between any two steps;
- whether a stopped process exits with success is read off a tree of errors by their texts;
- the settings are checked in parts, by the group, across groups and by the components, each once;
- a refusal is counted, admitted to the log and written in three steps, one of them under a lock;
- one refused RPC is seen by up to three of the authenticator's error handler, the unknown-service
  handler, the stats handler and receiverhelper, and must be counted by one;
- the order of rules decides the answer, and comparisons with a clock and its skew sit on edges;
- each statement of the pipeline's bounds reads the clock anew, and identity lives in a context that
  batching drops;
- a variable is inherited setting by setting, applies to one protocol or to TLS only, and signals
  share an exporter when everything they resolved to is equal.

`PROJECT.json` ("hazards") lists them one by one, at the line where each bites, with the properties
that would catch it going wrong.

## 2. The modules

**`KeySet`** is the cached JWKS, the requests that use it and the fetches. A request (`req[r]`) goes
`idle`, `lookup`, then, on a miss, `wait` (for the mutex), `decide` (under the read lock), `mark`
(under the write lock), `fetch`, `relookup` and `done`; `refreshFor`'s two early ends are
`Decide`'s second disjunct, which skips the fetch, and `RefreshFailed`. A fetch (`fetch[f]`) is sent, answered or failed, and applied:
three steps, since the provider fixes what the answer carries at the second. Any fetch may fail at
any time: no connection, a bad answer, a timeout or the end of its context. A JWKS document is a
sequence of keys with a kid, an alg, a kind (public, private, encryption, unknown) and material; a
signature verifies with the key whose material made it. `snapAt`, `missFailed`, `waited` and the
field `came` are history the properties read and no action does.

**`Discovery`** extends it with the background goroutine (`loop`: `created`, `discovery`, `jwks`,
`retrying`, `sleeping`, `rereading`, `ended`), `Start` and `Shutdown`, the clock, the next-state
relation, the fairness and the properties, and the refinement of `KeyCache`. Time passes only up to the next timer that is due (a
fetch's timeout, the end of a sleep), so timers are prompt; everything else takes any time.

**`KeyCache`** is the abstract specification: what the authenticator promises of its keys, with no
goroutine, mutex or fetch. There is one image of the keys, replaced whole, never by an empty one and
never by one served more than `FetchTimeout` ago; a request is judged in one step by the image of that
step, and only the refusal of an unknown kid may be late. `Discovery!Cache` instantiates it: the image
is `keys`, with the empty sequence before the first, a request between its first lookup's miss and its
last lookup is `missed`, and everything else is a stutter.

**`Rejections`** has one action per step of `record`: `Count` (the counter), `Admit` or `Suppress`
(`admit`, atomic under its mutex) and `Warn`. `InHand` is the refusals that goroutines between two of
these steps have in hand: each one's own, and those its line will say were suppressed.

**`TokenProfile`** has the rules as a sequence, in the order the code applies them: the answer is that
of the first one broken (`Rules!FirstBroken`). Beside it `Profile` is the rule table of
`docs/token-profile.md`, written from the document, as the reference. A claim is a type, a sequence
of strings and a number; a date goes through `numericDate`'s clamp and a conversion to an integer
of bounded width that wraps. Which of several claims mapped to one attribute wins is
nondeterministic, as Go's iteration over a map is.

**`SinglePort`** takes a request through `auth`, `decompress`, then `http`, or `grpc`, `rpc`,
`export` and `ending`, each place an action or an alternative of one, with the answer and every
counter it increments. confighttp (authentication before decompression, the cap on the raw body),
grpc-go (which requests become an RPC, when `stats.End` comes, which code a bad message gets) and
`http.Server.Shutdown` are external and modelled from how the receiver uses them.

**`SharedReceiver`** extends it with the registry, the two `sync.Once`s and the collector's service
(external: it builds the pipelines, starts each from the exporter up, stops each from the receiver
down, one call at a time and the pipelines in any order, and stops all of them when a start fails).
`handle[sig]` is a pipeline's receiver component, `below[sig]` the rest of it; `stopping` is the
pipeline whose `Shutdown` waits for the listener while requests go on. The listener opens at the first
`Start`, so a request may be served while another signal's pipeline is still to be started.

**`Upstream`** reads the signals in turn (`ResolveSignal`: each variable's value, the faults, then the
rules across variables) and ends with `Finish`, the checks that need every signal and the one on the
process's own logs (`Settings.Validate`). What is read of a variable is an operator of the environment
and the signal, so that it can be said of a signal before, when and after it is read. The exporters of
the renderer are operators on what resolved; the one of several signals with the same configuration is
named after the first of them in the pipelines' order (`ComesFirst`). Texts are names, with tables (`Urls`, `HeaderLists`, `Plain`, `Booleans`) of what they parse to, in
which two texts may mean the same; `Effective` and `DocTLS` restate `docs/configuration.md` as the
reference. What the collector's exporters do with an endpoint (`Destination`) is external.

**`Pipeline`** takes items through the processors of their chain, each at its own pace and with a clock
that moves in between. `filter/bounds` and `filter/metrics` are one step, `transform/bounds` is
one step per reading of the clock: a statement's condition, then its `Now()`. `Batch` sends any set of
waiting items together, without a context. An item has its times, its attributes by holder (resource,
the item itself, and for a metric scope, metadata and exemplars), and `sent` keeps what the client
sent and its token's identity for the properties. The collector's processors (`memory_limiter`,
`batch`, `deltatocumulative`, OTTL's clock) are external.

**`Settings`** is the environment as `Load` reads it: each variable's value, unset or malformed; a
group's faults, or if it has none its rules' (`GroupRules`); and only if no group has any, the root's.
A key=value list goes through `KeyValueList`, where a later pair replaces an earlier one. Beside it is
what the authenticator's and the receiver's `Validate` refuse of what is rendered, and the keys of the
process's own resource. `Sound` is what the other modules assume of the settings they run under.

**`RunCommand`** extends it with the processes: `at[p]` is where `run` is (`load`, `unset`, `logger`,
`remove`, `create`, `write`, `close`, `collector`, `running`, `exited`), one action each, with its early
returns. A file is named by the start that made it and has the renderings that are in it (`bytes`);
`entry` is what the directory's name points to, so a process goes on writing to a file that another has
removed. A crash may happen anywhere and leaves a part of a write behind. The collector is external:
it reads the entry at its start and at a reload, and returns an error that is a tree of what failed, joined
and wrapped as the collector's `Start` and `Shutdown` do, which `OnlyLoggerShutdown` walks.

**`Rules`** is the one helper `TokenProfile` and `SinglePort` share, with the two facts about it that
both their proofs need. The `*Proofs` modules hold the proofs (section 5), the `MC*` modules the
instances. The definitions marked "mutant" state plausible errors in the definition they precede; they are used by no specification, and each one put in
place of its neighbour violates the property `PROJECT.json` ("mutants") names.

## 3. The runs

| Run | Question | Instance |
|---|---|---|
| `key_cache_timing` | How old can what is trusted, and what is refused, be? Are the fetches of misses spaced and shared? | 2 requests, a JWKS that may rotate back and forth, every duration 1, clock to 4 |
| `key_choice_and_shutdown` | Is a token verified with its own key only, the cache never emptied, the goroutine over when Shutdown says so? Is `KeyCache` implemented? | 1 request, 5 tokens, 4 documents, clock to 2 |
| `requests_and_shutdown_end` | Is every request answered, and does the goroutine end? | 2 requests, fairness, clock to 1 |
| `refusal_log` | Is every refusal accounted for, and the log bounded? | 3 goroutines, 2 reasons |
| `token_profile` | Does the code enforce the documented table? | 43560 requests, clock to 2, skew 1 |
| `receiver_answers` | Counted once, capped alike, answered for what happened, never given to a stopped pipeline, no listener left open? | two pipelines on the shared receiver in every order of start and stop, a third without one, a request of every combination of the traits |
| `upstream_resolution` | Does each signal go where and how its variables say, and what is refused? | 3 signals; routing, TLS and malformed values, 35508 environments |
| `pipeline_bounds_and_identity` | Are exported times bounded, in order and not rewritten without need, and is every identity the token's own? | 2 items of different tokens, times 0..7, clock 3..5, skew 1 |
| `run_command` | Is every fault reported at once, what runs sound and not older than its start, and the exit status true? | 1 process under 68 environments, 2 processes on one directory, 2 starts each |

and three runs in which a sentence of a document or comment is a property and TLC shows a behaviour of
the code that breaks it (section 6).

Why the bounds are enough. Two requests are what the mutex, the generation and the interval tell
apart: a holder and one that waits; the proofs cover any number. With every duration 1 a clock to 4
spans discovery, a re-read, and misses before, during and after it, with an interval between them.
The clock of the liveness run may stand still: what it shows is that no goroutine waits for another
for ever, which needs no time beyond the first timeout. Document and token sets have each case
`findKey` and `parseJWKS` distinguish: a key without a kid, without an alg, two of one kid, one that
is private, for encryption or of an unknown type. `token_profile` combines every state before the
claims, and every combination of claims after a good header, with dates before, at and after the
clock, and beyond the clamp. `receiver_answers` has sizes on both sides of both caps, and one request,
since requests share no state but the server's.
`upstream_resolution` sets the variables that meet each other in full products (endpoint, protocol and
`INSECURE`; TLS files, skipped verification and own logs; values that do not parse, headers, the timeout
and the queue's size, which has no signal's form), the base forms and those of two signals, with the third inheriting: a signal of its own,
two that share, all that share.

`pipeline_bounds_and_identity` has one item with every pair of times, before, at and after the clock by
less and by more than the skew, while the clock may move by twice the skew; and one with every kind,
forged attributes or none, a token with a claim or without, and an allowlist that names identity's
keys. The proofs cover any number of items, any times and any attributes.

`run_command` has each numeric setting below, at and above its limit, each rule of the identity maps
broken alone and with another, faults in one group and in several, and a mounted configuration with
nothing and with everything malformed. Two starts of two processes are a file left by a crash or an
earlier start, one being written and one that overtakes it. `MaxInt32` is smaller than Go's so that
TLC's own 32-bit integers can exceed it.

What is assumed where. `CHECK_DEADLOCK FALSE` appears because requests are made once each and the
clock is bounded, starts of a process are bounded, and a resolved environment and an exported item are final: every model really ends. `key_cache_timing` stops at Shutdown (`Running`), since
nothing it asks about follows it, and uses the symmetry of requests; the liveness run uses neither.

**Fairness** (`Discovery!Fairness`) is weak fairness of: each request's own steps, since the Go
scheduler runs goroutines that can run; the end of each fetch, since `http.Client.Timeout` is set;
the background goroutine's steps; and Shutdown's return, since its context has a deadline. Nothing
is assumed of clients (`Authenticate` need never happen), of the provider (`Publish`, an answer
rather than a failure) or of time. The mutex needs no fairness of its own, as each request is made
once; Go's mutex is starvation-free, which a model of requests without end would have to state.
With its clock bounded the model also leaves out a goroutine for which, after Shutdown, `select`
prefers a timer that fired to a context that ended, interval after interval.

## 4. The properties

Authenticator (`Discovery`): `TrustBound` bounds how long a withdrawn key stays trusted, by the
re-read interval and two fetches; `UnknownKidIsFresh` says a kid is refused as unknown only on
a JWKS served less than `MinRefreshInterval + FetchTimeout` before the request came, unless the
last fetch a miss caused failed; `MissFetchesAreSpaced` and `SuccessfulFetchIsShared` protect the provider;
`CacheNeverEmpty` and `VerifiedWithOwnKey` are about which keys are kept and chosen;
`ShutdownJoins`, `RequestsAnswered` and `ShutdownEndsLoop` about ends; `ImplementsKeyCache` is the
refinement: however fetches, lookups and locks interleave, every answer is one that a single image of
bounded age, replaced whole, would have given at one moment of the request.

Refusals (`Rejections`): `RefusalsAccounted`, an equation between the counter, the log and what is
between them, and `WarningsBounded`.

Token rules (`TokenProfile`): `AcceptsByTheProfile` and `RefusesByTheProfile` compare the code with
the table; `OnlyExpiryEndsAToken` says what time may do to an accepted token: it is refused as expired,
and never accepted again;
`IdentityIsAttested` where the attached attributes come from.

Receiver (`SinglePort`, `SharedReceiver`): `CountedOnce` (all but an RPC its client gave up and what is
taken for gRPC and makes no RPC), `OneCap`, and `AnswerTellsTheOutcome`, which
also bounds the delay a client is told: less than a second short of the upstream's and never longer.
`NoDataToStoppedPipeline` says that stopping the listener with the first pipeline protects all of them,
and `NothingLeftListening` that stopping it at all does not depend on which one was started.

Upstreams (`Upstream`): `GoesWhereDocumented` compares every signal's exporter with the documented
precedence; `ExportersAreDistinct`, `MalformedAllReported`, `RefusedAsDesigned`, which lists the
cases in which an environment that parses is refused and says there is no other, and `OwnLogsFollow`
for the exporter of the process's own logs. A setting may still pass that applies to nothing: skipped
verification where all is plaintext, and a signal's own `INSECURE` on an `http://` URL (section 6).

Pipeline (`Pipeline`): `TimesBounded` and `OrderKept`, of exported times; `TimelyKept`, that a time in bounds
is exported as it was sent, though the clamps write one time over another; `IdentityIsTokens`, that what
is exported carries its own token's identity, whatever the client sent and whatever it was batched with;
`MetricsCarryNoIdentity`, whatever the allowlist says.

Run command (`RunCommand`): `EveryFaultReported`; `RunsOnSoundSettings`, that the parts in which
settings are checked add up to what the components need; `RunsOwnOrNewer`, that a collector never runs
on what an earlier start left, nor on two renderings mixed, though it may run on a later start's, and after
a reload on a part of that, if the part parses: `RunsOnSoundSettings` is about whole renderings only;
`ExitTellsTheRun`; `SettingsAppliedOnce`.

## 5. The proofs

TLAPS checks a theorem for every safety property of the passing runs, action properties and the
refinement of `KeyCache` included. The proofs hold for any requests, tokens, documents, reasons, items,
signals, environments, processes and durations; `PROJECT.json` ("theorems") lists the results.

**Assumptions.** All are named ASSUMEs of the models, which TLC evaluates on every instance:

- durations and caps are such as the `Validate`s accept (`DurationsArePositive`, `IntervalsArePositive`,
  `ParametersAreSane`, `SettingsValid`; `CapExceedsFrameHeader`: the least cap is larger than gRPC's
  frame header); `ChecksAddUp`, below, shows what the checks amount to;
- configured attributes and those mapped from claims do not collide (`AttributesDoNotCollide`; likewise
  `Config.Validate`), and the clamp of a date fits the width it is converted to and is beyond the clock
  with its skew (`ClampFitsTheWidth`);
- names are apart: goroutines and requests (`LoopIsNoRequest`, `NobodyIsNoRequest`), signals and the words
  that are none (`SignalsAreNamed` of `SharedReceiver` and of `Upstream`), the settings merely parsed and
  the others (`PlainIsApart`);
- inputs have the types of what they model (`PayloadsTyped`, `MessagesAreTyped`, `OutcomesAreTyped`,
  `RequestsAreTyped`, `DeploymentsAreTyped`, `MaxInt32Assumption`, `StartsAreBounded`).

Few of the properties are inductive as they stand. What follows is the invariant each proof needs and why.

**`DiscoveryProofs`**, of the authenticator.

- `Invariance`: `Discovery!IInv`. Its parts: `Ownership` (the mutex is held by the one request inside
  `refreshFor`, and a fetch is under way exactly where the code waits for one) is what lets the others
  reason about one fetch of a miss at a time. `FetchTimes` (a fetch is over by its timeout, and was
  answered after it began) turns the prompt timers into a bound on the age of whatever a fetch brings.
  `RequestTimes` and `MissTimes` order what a request read: the decision taken under the read lock still
  stands when `missFetched` is written, because only the holder of the mutex writes it. `Sharing` relates
  the generation a request saw to the fetches it waited out. `LoopTimes` carries the age of the image
  from one re-read to the next; it has to allow for an overtaking fetch, which was sent less than
  `FetchTimeout` before it is applied. `Freshness` does the same for a request that missed.
- `TrustIsBounded`, `SuccessIsShared`, `MissesAreSpaced` and `UnknownKidsAreFresh` follow from it: the two
  invariants directly, the two action properties from `IInv` before the step.
- `KeysInvariance`: `Keyed`, on top of `IInv`, is about what is stored rather than when: a fetch that was
  answered carries a document the provider published (`FetchShape`), what is stored is the parse of one and
  not empty (`Stored`), a request has its token, and keys to look in, until it has its answer (`Asked`),
  and the goroutine is over when Shutdown joined it (`Joined`). From it `CacheIsNeverEmpty`,
  `ShutdownIsJoined` and `VerifiedWithItsOwnKey`, the last by what `findKey` returns of any list of keys.
- `KeySetImplementsKeyCache`: each action maps to a step of `KeyCache` or to a stutter. An applied fetch is
  a `Replace` by an image no older than `FetchTimeout`, which is `FetchTimes`; a request's last lookup is
  its judgement; a miss makes it `missed`.

**`RejectionsProofs`**: `LogIsBounded` needs when each reason last warned (`LoggedLate`).
`AllAreAccountedFor` needs the counter to be what was logged, what the windows hold and what goroutines
have in hand, reason by reason (`Accounts`). A goroutine's refusals are a finite set of the size its
record says (`HeldSize`), and the sets of different goroutines are disjoint, so a step changes the size
of their union by what it changes that one goroutine's (`InHandMoves`).

**`PipelineProofs`**: `Pipeline!IInv` says, for each item at each place, what the processors and statements
behind it have established: `Clamped` (after the first statement the start is at most the skew ahead and
still so however the clock moves; before the last set of the end, the start is not ahead at all),
`Timely` (a time in bounds is as it was sent, and no statement is about to set it),
`Stamped` (the context is the request's until the batch, attributes are the client's until their
processor) and `Stripped`. `Stage` ties a statement to its place. From it `TimesAreBounded`,
`OrderIsKept`, `TimelyTimesAreKept`, `IdentityIsTheTokens` and `MetricsAreAnonymous`. The clock never goes back: a wall clock
set back between two statements is outside the model.

**`TokenProfileProofs`**: the invariant is that the last answer is what the rules say of its request at
some time until now (`Answered`), and that an accepted request carries attributes `newAuthData` may have
made of its own claims (`Attached`). Two things carry the theorems. The code's rules and the document's
are each shown to be a cascade of the same conditions, of which the first broken one answers; the
conditions agree because a date that was clamped, converted and compared in the bounded width decides as
the number the token states. And as time passes a rule of dates other than expiry can only cease to be
broken, so `expired` is the first answer of a token that was accepted, and the last. Hence
`AcceptsWhatIsDocumented`, `RefusesAsDocumented`, `TokensEndByExpiry`, `IdentitiesAreAttested`.

**`SharedReceiverProofs`**, in three layers.

- `Invariance`, of the receiver alone: `IInv` says by where a request is what it has been counted, answered
  and marked (`Phase`), of an RPC that is ending how it ended (`Settled`: the method was unknown, no
  handler ran, or the pipeline had it), and of one that is done the three properties (`Final`). It is what
  `stats.End` reads to know whether someone has counted the RPC already. Hence `RequestsAreCountedOnce`,
  `OneCapForBoth`, `ClientsAreTold`.
- `SharedImplementsSinglePort`: under the registry and the service that builds, starts and stops it, the
  receiver makes only steps of `SinglePort`. That is the refinement that carries those three results over
  (`SharedReceiverServes`).
- `SharedInvariance`: `Listener` (what of the listener, the stop under way and the requests in it can be
  together), `Once` (what the two `sync.Once`s say of it and of the pipelines' components) and `Registry`.
  `StoppedPipelinesGetNoData` and `ListenerIsClosed` need all three: that a request is in the pipeline only
  while the listener is not over, and that no component is over below a receiver that is not.

**`RunCommandProofs`**

- `ChecksAddUp` is about the settings alone: an environment of which `Load`, the groups and the root report
  nothing, and whose rendering both components accept, is `Sound`.
- `Invariance`: `IInv` says what is in every file and that files are made in the order `made` says (`Files`),
  and for each process what it has yet to do (`Preparing`), that the file it has open is its own start's
  and nobody else writes to it, removed or not (`Writing`), that what it runs on was made no earlier than
  its own (`Running`), and what a refused one has reported (`Refused`). A step of one process keeps every
  other's part, whichever step either is at, since a file is open in one process and a name, once
  removed, is made again only later. Hence `CollectorsRunOwnOrNewer`, `CollectorsRunOnSoundSettings`,
  `SdkSettingsAppliedOnce`, `FaultsAreAllReported`.
- `ExitsTellTheRun`: `onlyLoggerShutdown` is recursive over the tree of errors. That the recursion has a
  solution is proved by the depth of the trees the collector can return, which is four (a failed step,
  the join of several, the wrap of the service's by `Shutdown`, the join of that and the provider's), and then what it says
  of each shape: it is true of an error exactly when every failure in it is the logger's.

**`UpstreamProofs`**: the invariant is that the resolver's state, which outlives each signal, is a function of
the signals read so far: they are the first ones (`Reading`), what resolved, `anyTLS` and `anyGRPC` are
theirs (`Resolved`), and so are the faults, with those of the last checks at the end (`Judged`). The
theorems are then about that function. `FollowsTheDocument`: the code's value and the document's are the
same wherever the value matters. `RefusesAsDesigned`: a fault across variables is one the design
names. `DistinctExporters`: of the signals of a configuration one comes first, by which the exporter is
named. `ReportsAllMalformed`, `OwnLogsGoAlong` and `TypeCorrect`.

In every module the proof that a step keeps the invariant has one lemma per action, or per group of
actions that change the same things, and in it one step per part that the action can disturb.

**Only model-checked**: `RequestsAnswered` and `ShutdownEndsLoop`, since TLAPS does not reach fairness. The
three violations of section 6 are behaviours TLC finds.

## 6. Where documents and code disagree

Each is a run that ends in a violation, and a finding in `PROJECT.json` with the sentence quoted.

- `reread_overtaken`: a withdrawn key can come back after a scheduled re-read without it, when a
  miss's fetch was answered before and is applied after. `TrustBound` says for how long at most.
- `waiters_fetch_again`: the interval is counted from a fetch's beginning and is no longer than its
  timeout, so requests that waited out one that timed out each make their own.
- `instance_id_twice`: `OTEL_RESOURCE_ATTRIBUTES` may name `service.instance.id`; the run command accepts
  it and renders it beside its own, the mapping has the key twice, and the collector refuses the file.

Six more are built into the properties as the exception each states. `OrderKept`: a comment in
`bounds.go` says the clamps never leave a span ending before it starts; with `MAX_FUTURE_SKEW=0`, which
is valid, a clock that moves between the first clamp's condition and its `Now()` sets a span's start past
an end that is by then no longer ahead and so is left alone (the clock has to move by more than the
skew, which with the default of five minutes it will not). `IdentityIsAttested`: a required claim that is
a number, a boolean, an array or an object passes `authorize` and is not attached, so a token whose `sub`
is not a string is accepted without a `user.id`. `UnknownKidIsFresh`: a re-read
answered before the request came, applied between its two lookups, spares it the fetch that
`docs/token-profile.md` says comes before a refusal. `RefusesByTheProfile`: a
malformed date, or a malformed segment after the header, is noticed later than the table of
`docs/token-profile.md` says, so a later rule may give the answer. `CountedOnce` (`OutsideRPC`): a
request that is taken for gRPC and makes no RPC (`application/grpc-web`, or a method other than POST)
is refused and not counted, where `docs/DESIGN.md` counts every request refused before the pipeline.
`RefusedAsDesigned`: `docs/configuration.md:44` (generated from `variables.go:62`) says that with
`http/protobuf` a signal's own `INSECURE` is refused; `resolve.go:158` refuses it for an `https://` URL
only, as `docs/DESIGN.md:382` says, and on an `http://` URL, which the run has, accepts it unused.

One is noted and not modelled: the copy of the configuration that is logged (`writeRendered`) is
rendered again with header values replaced, so two signals whose headers differ in value alone have an
exporter each in the file and share one in the copy.

## 7. What is not modelled

Parsing of base64, JSON, protobuf and HTTP, cryptography and compression: abstracted to what they found. The texts of
answers and log lines, beyond the closed set of reasons. Generated code (`internal/metadata`), the
harness, scripts, dashboards and alerts. Of the pipeline, what no statement reads (a span's events and
links, the scope's attributes of spans and records) and the streams `deltatocumulative` keeps. Of the
run command, what it logs, and the time its last flush may take. Of rendering, quoting, the template
engine and the generated reference (`docs.go`), which are formatting. The entry point (`cmd`) and the
build information are wiring without state.

## 8. Plan

Every safety property of the runs is a theorem. What is left:

1. A theorem that relates the models: `Settings!Sound`, which `RunCommandProofs` shows of whatever a
   collector runs on, against the assumptions on settings of the other modules, by instantiating those
   modules' assumptions with its rendered values.
2. An abstract specification of the refusal telemetry, and of the run command's directory (one start's
   rendering at a time, replaced whole), each with its refinement proved.
3. The logged copy of the configuration (section 6).
