------------------------------ MODULE Pipeline ------------------------------
(***************************************************************************)
(* What the rendered configuration does to a client's span, log record or  *)
(* metric (bounds.go, identity.go and metrics.go of internal/render): the  *)
(* processors in the order of their chain, each OTTL statement a step or   *)
(* two, since every Now() reads the clock anew.                            *)
(*                                                                         *)
(* An item is one span, record or metric with its resource.  Attributes    *)
(* are functions on Keys, Absent where there is none; their holders are    *)
(* the resource, the item itself (a metric's datapoint), and a metric's    *)
(* scope, metadata and exemplars.  The collector's own processors are      *)
(* modelled from how the rendered configuration uses them.                 *)
(***************************************************************************)
EXTENDS Integers, Sequences

CONSTANTS
    Items,
    Payloads,       \* item |-> what its client may have sent, and under which token
    Keys, Values, Absent,
    ServiceKeys,    \* service.name, service.version
    ServiceName,    \* the first of them
    AllowedNames,   \* service.name values that ALLOWED_SERVICE_NAMES matches
    Targets,        \* the attributes CLAIM_ATTRIBUTES maps to
    Static,         \* CLIENT_RESOURCE_ATTRIBUTES: key |-> value
    IdentityLike,   \* keys beginning user., session. or enduser.
    AllowedKeys,    \* ALLOWED_METRIC_ATTRIBUTE_KEYS
    MaxFutureSkew, MaxPastAge,
    StartClock,     \* when the items come
    MaxClock        \* bound of the clock

\* IdentitySettings.Validate and BoundsSettings.Validate.
ASSUME SettingsValid ==
    /\ ServiceName \in ServiceKeys /\ ServiceKeys \subseteq Keys
    /\ Targets \subseteq Keys /\ Targets \cap ServiceKeys = {}
    /\ DOMAIN Static \subseteq Keys /\ DOMAIN Static \cap (Targets \cup ServiceKeys) = {}
    /\ IdentityLike \subseteq Keys /\ IdentityLike \cap ServiceKeys = {}
    /\ MaxFutureSkew \in Nat /\ MaxPastAge \in Nat \ {0}
    /\ StartClock \in Nat /\ MaxClock \in Nat

Holders == {"resource", "item", "scope", "metadata", "exemplars"}
Kinds   == {"span", "log", "metric"}

\* What a client sends: its times (a log's is start), whether a metric's name
\* is allowed, its attributes, and the identity the authenticator put in the
\* request's context.
Payload ==
    [kind : Kinds, start : Nat, end : Nat, named : BOOLEAN,
     attrs : [Holders -> [Keys -> Values]], token : [Keys -> Values]]

ASSUME PayloadsTyped ==
    /\ Absent \in Values /\ \A k \in DOMAIN Static : Static[k] \in Values
    /\ \A i \in Items : Payloads[i] \subseteq Payload

VARIABLES
    sent,     \* item |-> its payload
    item,     \* item |-> the payload as processed so far
    place,    \* item |-> the processor it is at, an index of its chain; 0 if dropped
    stmt,     \* item |-> the statement, or part of one, transform/bounds is at
    ctx,      \* item |-> the identity in its context
    clock,
    read      \* item |-> the time the first clamp's condition read (history)

vars == <<sent, item, place, stmt, ctx, clock, read>>

-----------------------------------------------------------------------------
(* The chains. *)

BatchFirst ==  \* mutant: batched before identity is taken from the context
    <<"memory_limiter", "filter/bounds", "transform/bounds", "batch", "attributes/identity", "resource/identity">>
IdentityProcessors ==
    <<"memory_limiter", "filter/bounds", "transform/bounds", "attributes/identity", "resource/identity", "batch">>

MetricProcessors ==
    IF DOMAIN Static # {}
    THEN <<"memory_limiter", "filter/metrics", "transform/metrics", "resource/metrics", "deltatocumulative", "batch">>
    ELSE <<"memory_limiter", "filter/metrics", "transform/metrics", "deltatocumulative", "batch">>

Chain(i) == IF sent[i].kind = "metric" THEN MetricProcessors ELSE IdentityProcessors

At(i, p)    == place[i] \in DOMAIN Chain(i) /\ Chain(i)[place[i]] = p
Exported(i) == place[i] = Len(Chain(i)) + 1

Leave(i) == place' = [place EXCEPT ![i] = @ + 1]
Drop(i)  == place' = [place EXCEPT ![i] = 0]
Go(i, s) == stmt' = [stmt EXCEPT ![i] = s]

\* memory_limiter refuses, and deltatocumulative drops, what is over its limit.
Limit(i) ==
    /\ At(i, "memory_limiter") \/ At(i, "deltatocumulative")
    /\ Leave(i) \/ Drop(i)
    /\ UNCHANGED <<sent, item, stmt, ctx, clock, read>>

-----------------------------------------------------------------------------
(* bounds.go: the filters, and the clamps. *)

ServiceNameFilter(i) == item[i].attrs["resource"][ServiceName] \notin AllowedNames

PastAgeSpanFilter(i) == item[i].start < clock - MaxPastAge
PastAgeLogFilter(i)  == item[i].start # 0 /\ item[i].start < clock - MaxPastAge

FilterBounds(i) ==
    /\ At(i, "filter/bounds")
    /\ IF \/ ServiceNameFilter(i)
          \/ sent[i].kind = "span" /\ PastAgeSpanFilter(i)
          \/ sent[i].kind = "log" /\ PastAgeLogFilter(i)
       THEN Drop(i) ELSE Leave(i)
    /\ UNCHANGED <<sent, item, stmt, ctx, clock, read>>

AheadByMore(t) == t > clock + MaxFutureSkew + 1  \* mutant: off by one
Ahead(t) == t > clock + MaxFutureSkew

\* The first statement: its condition, then its Now().
StartAhead(i) ==
    /\ stmt[i] = "ifStart"
    /\ Go(i, IF Ahead(item[i].start) THEN "setStart" ELSE "ifAhead")
    /\ read' = [read EXCEPT ![i] = clock]
    /\ UNCHANGED <<item, place>>
SetStart(i) ==
    /\ stmt[i] = "setStart" /\ Go(i, "ifAhead")
    /\ item' = [item EXCEPT ![i].start = clock]
    /\ UNCHANGED <<place, read>>

\* The second: its condition's two reads, the set with the second.
EndAheadUnseen(i) ==  \* mutant: without the second statement
    /\ stmt[i] = "ifAhead" /\ Go(i, "ifEnd")
    /\ UNCHANGED <<item, place, read>>
EndAheadOrNot(i) ==  \* mutant: without the first part of its condition
    /\ stmt[i] = "ifAhead" /\ Go(i, "ifStill")
    /\ UNCHANGED <<item, place, read>>
EndAhead(i) ==
    /\ stmt[i] = "ifAhead"
    /\ Go(i, IF Ahead(item[i].end) THEN "ifStill" ELSE "ifEnd")
    /\ UNCHANGED <<item, place, read>>
StartStillAhead(i) ==
    /\ stmt[i] = "ifStill" /\ Go(i, "ifEnd")
    /\ item' = [item EXCEPT ![i].end = IF item[i].start > clock THEN item[i].start ELSE @]
    /\ UNCHANGED <<place, read>>

\* The third, as the first.
EndOver(i) ==
    /\ stmt[i] = "ifEnd"
    /\ IF Ahead(item[i].end) THEN Go(i, "setEnd") /\ UNCHANGED place ELSE Go(i, "done") /\ Leave(i)
    /\ UNCHANGED <<item, read>>
SetEnd(i) ==
    /\ stmt[i] = "setEnd" /\ Go(i, "done") /\ Leave(i)
    /\ item' = [item EXCEPT ![i].end = clock]
    /\ UNCHANGED read

\* futureSkewLogClamps: one statement, as the first.
TimeAhead(i) ==
    /\ stmt[i] = "ifTime"
    /\ IF Ahead(item[i].start) THEN Go(i, "setTime") /\ UNCHANGED place ELSE Go(i, "done") /\ Leave(i)
    /\ UNCHANGED <<item, read>>
SetTime(i) ==
    /\ stmt[i] = "setTime" /\ Go(i, "done") /\ Leave(i)
    /\ item' = [item EXCEPT ![i].start = clock]
    /\ UNCHANGED read

TransformBounds(i) ==
    /\ At(i, "transform/bounds")
    /\ \/ StartAhead(i) \/ SetStart(i) \/ EndAhead(i) \/ StartStillAhead(i) \/ EndOver(i) \/ SetEnd(i)
       \/ TimeAhead(i) \/ SetTime(i)
    /\ UNCHANGED <<sent, ctx, clock>>

-----------------------------------------------------------------------------
(* identity.go *)

\* For each target a delete, then an upsert if the context has it.
IdentityActions(attrs, identity) ==
    [k \in Keys |-> IF k \in Targets THEN identity[k] ELSE attrs[k]]

\* Upserts of the deployment's attributes.
UpsertStatic(attrs) == [k \in Keys |-> IF k \in DOMAIN Static THEN Static[k] ELSE attrs[k]]

ResourceActions(attrs) == UpsertStatic([k \in Keys |-> IF k \in Targets THEN Absent ELSE attrs[k]])

AttributesIdentity(i) ==
    /\ At(i, "attributes/identity") /\ Leave(i)
    /\ item' = [item EXCEPT ![i].attrs["item"] = IdentityActions(@, ctx[i])]
    /\ UNCHANGED <<sent, stmt, ctx, clock, read>>

ResourceIdentity(i) ==
    /\ At(i, "resource/identity") /\ Leave(i)
    /\ item' = [item EXCEPT ![i].attrs["resource"] = ResourceActions(@)]
    /\ UNCHANGED <<sent, stmt, ctx, clock, read>>

-----------------------------------------------------------------------------
(* metrics.go *)

FilterMetrics(i) ==
    /\ At(i, "filter/metrics")
    /\ IF ServiceNameFilter(i) \/ ~sent[i].named THEN Drop(i) ELSE Leave(i)
    /\ UNCHANGED <<sent, item, stmt, ctx, clock, read>>

KeepKeys(attrs, kept) == [k \in Keys |-> IF k \in kept THEN attrs[k] ELSE Absent]

IdentityKey(k) == k \in IdentityLike \cup Targets

\* metricResourceReduce, metricKeepKeys and metricStrip.
KeptAsListed(holder) ==  \* mutant: the allowlist as it is
    CASE holder = "resource" -> ServiceKeys [] holder = "item" -> AllowedKeys [] OTHER -> {}
Kept(holder) ==
    CASE holder = "resource" -> ServiceKeys
      [] holder = "item"     -> {k \in AllowedKeys : ~IdentityKey(k)}
      [] OTHER               -> {}

TransformMetrics(i) ==
    /\ At(i, "transform/metrics") /\ Leave(i)
    /\ item' = [item EXCEPT ![i].attrs = [h \in Holders |-> KeepKeys(@[h], Kept(h))]]
    /\ UNCHANGED <<sent, stmt, ctx, clock, read>>

ResourceMetrics(i) ==
    /\ At(i, "resource/metrics") /\ Leave(i)
    /\ item' = [item EXCEPT ![i].attrs["resource"] = UpsertStatic(@)]
    /\ UNCHANGED <<sent, stmt, ctx, clock, read>>

-----------------------------------------------------------------------------

Nobody == [k \in Keys |-> Absent]

\* What waits in a batch leaves it together, and without anyone's context.
Batch(S) ==
    /\ S # {} /\ \A i \in S : At(i, "batch")
    /\ place' = [i \in Items |-> IF i \in S THEN place[i] + 1 ELSE place[i]]
    /\ ctx' = [i \in Items |-> IF i \in S THEN Nobody ELSE ctx[i]]
    /\ UNCHANGED <<sent, item, stmt, clock, read>>

Tick ==
    /\ clock < MaxClock /\ clock' = clock + 1
    /\ UNCHANGED <<sent, item, place, stmt, ctx, read>>

Init ==
    /\ sent \in [Items -> UNION {Payloads[i] : i \in Items}] /\ \A i \in Items : sent[i] \in Payloads[i]
    /\ item = sent /\ place = [i \in Items |-> 1]
    /\ stmt = [i \in Items |-> CASE sent[i].kind = "span" -> "ifStart" [] sent[i].kind = "log" -> "ifTime" [] OTHER -> "done"]
    /\ ctx = [i \in Items |-> sent[i].token]
    /\ clock = StartClock /\ read = [i \in Items |-> StartClock]

Process(i) ==
    \/ Limit(i) \/ FilterBounds(i) \/ TransformBounds(i) \/ AttributesIdentity(i) \/ ResourceIdentity(i)
    \/ FilterMetrics(i) \/ TransformMetrics(i) \/ ResourceMetrics(i)

Next == (\E i \in Items : Process(i)) \/ (\E S \in SUBSET Items : Batch(S)) \/ Tick

Spec == Init /\ [][Next]_vars

-----------------------------------------------------------------------------
(* Properties. *)

\* No exported time is further ahead than MAX_FUTURE_SKEW, whenever and however
\* often the clock was read on the way (futureSkewSpanClamps,
\* futureSkewLogClamps).
TimesBounded ==
    \A i \in Items : Exported(i) =>
        /\ sent[i].kind # "metric" => item[i].start <= clock + MaxFutureSkew
        /\ sent[i].kind = "span" => item[i].end <= clock + MaxFutureSkew

\* The clock moved by more than the skew between the condition of the first
\* clamp and its set.
Late(i) == item[i].start > read[i] + MaxFutureSkew

\* A span that ends no earlier than it starts is exported as one, unless the
\* first clamp was late (futureSkewSpanClamps).
OrderKept ==
    \A i \in Items :
        Exported(i) /\ sent[i].kind = "span" /\ sent[i].start <= sent[i].end /\ ~Late(i)
            => item[i].start <= item[i].end

\* A time that is in bounds when its item comes is exported as it was sent: the
\* clamps, which read the clock up to four times and write one time over
\* another, touch none but those too far ahead (futureSkewSpanClamps,
\* futureSkewLogClamps).
InBounds(t) == t <= StartClock + MaxFutureSkew
TimelyKept ==
    \A i \in Items : Exported(i) =>
        /\ InBounds(sent[i].start) => item[i].start = sent[i].start
        /\ InBounds(sent[i].end) => item[i].end = sent[i].end

\* An exported span or record carries its own token's identity and no other,
\* a claim the token lacks left absent, with whatever it was batched; its
\* resource carries none, and the deployment's attributes over the client's;
\* the rest is the client's (identityActions, resourceActions, the chain).
IdentityIsTokens ==
    \A i \in Items : Exported(i) /\ sent[i].kind # "metric" =>
        \A k \in Keys :
            /\ item[i].attrs["item"][k] = IF k \in Targets THEN sent[i].token[k] ELSE sent[i].attrs["item"][k]
            /\ item[i].attrs["resource"][k] =
                  IF k \in Targets THEN Absent
                  ELSE IF k \in DOMAIN Static THEN Static[k] ELSE sent[i].attrs["resource"][k]

\* An exported metric carries no key of an identity anywhere, the deployment's
\* own attributes apart, whatever the allowlist says (metricKeepKeys,
\* metricResourceReduce, metricStrip).
MetricsCarryNoIdentity ==
    \A i \in Items : Exported(i) /\ sent[i].kind = "metric" =>
        \A h \in Holders, k \in Targets \cup IdentityLike :
            item[i].attrs[h][k] = IF h = "resource" /\ k \in DOMAIN Static THEN Static[k] ELSE Absent

-----------------------------------------------------------------------------
(* The inductive invariant. *)

SpanStatements == {"ifStart", "setStart", "ifAhead", "ifStill", "ifEnd", "setEnd"}
LogStatements  == {"ifTime", "setTime"}

Types ==
    /\ sent \in [Items -> Payload] /\ item \in [Items -> Payload]
    /\ place \in [Items -> Nat] /\ stmt \in [Items -> SpanStatements \cup LogStatements \cup {"done"}]
    /\ ctx \in [Items -> [Keys -> Values]]
    /\ clock \in Nat /\ StartClock <= clock /\ read \in [Items -> Nat]

\* Where an item is, and which statement: the clamps are over exactly when it
\* has left them.
Stage(i) ==
    /\ place[i] \in 0..(Len(Chain(i)) + 1)
    /\ sent[i].kind = "span" /\ place[i] # 0 =>
          /\ place[i] < 3 => stmt[i] = "ifStart"
          /\ place[i] = 3 => stmt[i] \in SpanStatements
          /\ place[i] > 3 => stmt[i] = "done"
    /\ sent[i].kind = "log" /\ place[i] # 0 =>
          /\ place[i] < 3 => stmt[i] = "ifTime"
          /\ place[i] = 3 => stmt[i] \in LogStatements
          /\ place[i] > 3 => stmt[i] = "done"

\* What each statement of the clamps has established for those that follow.
Clamped(i) ==
    /\ sent[i].kind = "span" /\ place[i] # 0 =>
          /\ stmt[i] \in {"ifStart", "setStart"} => item[i].start = sent[i].start /\ item[i].end = sent[i].end
          /\ stmt[i] = "setStart" => Late(i)
          /\ stmt[i] \notin {"ifStart", "setStart"} =>
                /\ item[i].start <= clock + MaxFutureSkew
                /\ sent[i].start <= sent[i].end /\ ~Late(i) => item[i].start <= item[i].end
          /\ stmt[i] = "ifEnd" => item[i].end <= clock + MaxFutureSkew \/ item[i].start <= clock
          /\ stmt[i] = "setEnd"  => item[i].start <= clock
          /\ stmt[i] = "done" => item[i].end <= clock + MaxFutureSkew
    /\ sent[i].kind = "log" /\ place[i] # 0 /\ stmt[i] = "done" => item[i].start <= clock + MaxFutureSkew

\* A time in bounds is as it was sent, and no statement is about to set it.
Timely(i) ==
    /\ InBounds(sent[i].start) => item[i].start = sent[i].start /\ stmt[i] \notin {"setStart", "setTime"}
    /\ InBounds(sent[i].end) => item[i].end = sent[i].end /\ stmt[i] \notin {"ifStill", "setEnd"}

\* The context is the request's until the batch; attributes are the client's
\* until their processor, and as it left them after.
Stamped(i) ==
    sent[i].kind # "metric" /\ place[i] # 0 =>
        /\ place[i] <= 6 => ctx[i] = sent[i].token
        /\ item[i].attrs["item"] = IF place[i] <= 4 THEN sent[i].attrs["item"]
                                   ELSE IdentityActions(sent[i].attrs["item"], sent[i].token)
        /\ item[i].attrs["resource"] = IF place[i] <= 5 THEN sent[i].attrs["resource"]
                                       ELSE ResourceActions(sent[i].attrs["resource"])

\* A metric past transform/metrics, and past resource/metrics if there is one.
Stripped(i) ==
    sent[i].kind = "metric" /\ place[i] > 3 =>
        \A h \in Holders, k \in Targets \cup IdentityLike :
            item[i].attrs[h][k] = IF h = "resource" /\ k \in DOMAIN Static /\ place[i] > 4 THEN Static[k] ELSE Absent

Good(i) == Stage(i) /\ Clamped(i) /\ Timely(i) /\ Stamped(i) /\ Stripped(i)

IInv == Types /\ \A i \in Items : Good(i)

=============================================================================
