------------------------------ MODULE Settings ------------------------------
(***************************************************************************)
(* The environment as the run command reads it (internal/render/env.go)    *)
(* and as the components it is rendered for accept it (the Validate of the *)
(* authenticator's and of the receiver's configuration).                   *)
(*                                                                         *)
(* An environment gives each variable the value its text parses to, Unset  *)
(* (or empty) or Malformed; durations and sizes are integers, key=value    *)
(* lists the pairs as written.  UPSTREAM stands for the variables Resolve    *)
(* reads (module Upstream): Malformed when it reports a fault.  Variables  *)
(* that are parsed like the others of their group and read by no rule      *)
(* (names, addresses, lists and batching) are LISTEN_ADDR and LOG_LEVEL.   *)
(***************************************************************************)
EXTENDS Integers, Sequences, FiniteSets

CONSTANTS
    Unset, Malformed,
    MaxInt32           \* math.MaxInt32; for TLC a smaller one it can exceed

ASSUME MaxInt32Assumption == MaxInt32 \in Int

\* The groups of the Settings struct and their env tags.
Group ==
    [Identity  |-> {"OIDC_ISSUER_URL", "OIDC_AUDIENCE", "OIDC_DISCOVERY_RETRY", "OIDC_JWKS_REFRESH", "REQUIRED_SCOPE",
                    "CLAIM_ATTRIBUTES", "CLIENT_RESOURCE_ATTRIBUTES", "CLOCK_SKEW", "REJECTION_LOG_INTERVAL"},
     Upstream  |-> {"UPSTREAM"},
     Listener  |-> {"LISTEN_ADDR", "TLS_CERT_FILE", "TLS_KEY_FILE", "MAX_REQUEST_BODY_BYTES"},
     Bounds    |-> {"ALLOWED_SERVICE_NAMES", "MAX_FUTURE_SKEW", "MAX_PAST_AGE"},
     Metrics   |-> {"MAX_METRIC_STREAMS", "DELTA_MAX_STALE"},
     Resources |-> {"MEMORY_LIMIT_MIB", "MEMORY_SPIKE_LIMIT_MIB"},
     Logs      |-> {"LOG_LEVEL"},
     Own       |-> {"LOG_OUTPUT", "OTEL_RESOURCE_ATTRIBUTES"}]

Variables == UNION {Group[g] : g \in DOMAIN Group}

\* The required tags; Resolve requires an endpoint.
Required == {"OIDC_ISSUER_URL", "OIDC_AUDIENCE", "ALLOWED_SERVICE_NAMES", "UPSTREAM"}

\* The default tags, durations in seconds; the embedded pair stands for its paths.
Default ==
    [OIDC_DISCOVERY_RETRY |-> 30, OIDC_JWKS_REFRESH |-> 600, REQUIRED_SCOPE |-> "telemetry:write",
     CLAIM_ATTRIBUTES |-> <<<<"sub", "user.id">>, <<"preferred_username", "user.name">>,
                            <<"email", "user.email">>, <<"name", "user.full_name">>>>,
     CLIENT_RESOURCE_ATTRIBUTES |-> <<>>, CLOCK_SKEW |-> 60, REJECTION_LOG_INTERVAL |-> 60,
     LISTEN_ADDR |-> "0.0.0.0:4318", TLS_CERT_FILE |-> "embedded", TLS_KEY_FILE |-> "embedded",
     MAX_REQUEST_BODY_BYTES |-> 4194304, MAX_FUTURE_SKEW |-> 300, MAX_PAST_AGE |-> 172800,
     MAX_METRIC_STREAMS |-> 2000, DELTA_MAX_STALE |-> 600, MEMORY_LIMIT_MIB |-> 64, MEMORY_SPIKE_LIMIT_MIB |-> 16,
     LOG_LEVEL |-> "info", LOG_OUTPUT |-> "both", OTEL_RESOURCE_ATTRIBUTES |-> <<>>]

\* KeyValueList.UnmarshalText: a later pair replaces an earlier one of its key,
\* in first-seen order.
KeyValueList(pairs) ==
    LET key(i)    == pairs[i][1]
        firsts    == {i \in DOMAIN pairs : \A j \in 1..(i - 1) : key(j) # key(i)}
        nth(n)    == CHOOSE i \in firsts : Cardinality({j \in firsts : j <= i}) = n
        latest(k) == CHOOSE i \in DOMAIN pairs : key(i) = k /\ \A j \in (i + 1)..Len(pairs) : key(j) # k
    IN  [n \in 1..Cardinality(firsts) |-> pairs[latest(key(nth(n)))]]

Lists == {"CLAIM_ATTRIBUTES", "CLIENT_RESOURCE_ATTRIBUTES", "OTEL_RESOURCE_ATTRIBUTES"}

\* time.Duration and int64, by the fields' types.
Numbers == {"OIDC_DISCOVERY_RETRY", "OIDC_JWKS_REFRESH", "CLOCK_SKEW", "REJECTION_LOG_INTERVAL",
            "MAX_REQUEST_BODY_BYTES", "MAX_FUTURE_SKEW", "MAX_PAST_AGE", "MAX_METRIC_STREAMS",
            "DELTA_MAX_STALE", "MEMORY_LIMIT_MIB", "MEMORY_SPIKE_LIMIT_MIB"}

\* An environment whose texts are given as what they parse to.
Parsed(env) ==
    /\ \A v \in Numbers : env[v] \in {Unset, Malformed} \/ env[v] \in Int
    /\ \A v \in Lists : env[v] \in {Unset, Malformed} \/ IsFiniteSet(DOMAIN env[v])

\* variable.load: the default for a variable unset, unless it is required.
Value(env, v) ==
    LET raw == IF env[v] = Unset THEN Default[v] ELSE env[v]
    IN  IF v \in Lists THEN KeyValueList(raw) ELSE raw
AtFault(env, v) == IF env[v] = Unset THEN v \in Required ELSE env[v] = Malformed

-----------------------------------------------------------------------------
(* The rules across a group's variables: what each Validate reports. *)

Says(broken, what) == IF broken THEN {what} ELSE {}

NoText == ""
ServiceKeys == {"service.name", "service.version"}

ClientOwnedName(key) == key = "service.name"  \* mutant: the version forgotten
ClientOwned(key) == key \in ServiceKeys

Attributes(env) == {Value(env, "CLAIM_ATTRIBUTES")[i][2] : i \in DOMAIN Value(env, "CLAIM_ATTRIBUTES")}
StaticKeys(env) == {Value(env, "CLIENT_RESOURCE_ATTRIBUTES")[i][1] : i \in DOMAIN Value(env, "CLIENT_RESOURCE_ATTRIBUTES")}

\* IdentitySettings.Validate: targets holds the attributes of the pairs before.
IdentityRules(env) ==
    LET claims == Value(env, "CLAIM_ATTRIBUTES")
        before(i) == {claims[j][2] : j \in 1..(i - 1)}
    IN  Says(claims = <<>>, "no_claim")
        \cup {CASE claims[i][2] = NoText      -> "no_attribute"
                [] ClientOwned(claims[i][2]) -> "clients_attribute"
                [] OTHER                     -> "attribute_twice" :
              i \in {j \in DOMAIN claims : claims[j][2] = NoText \/ ClientOwned(claims[j][2]) \/ claims[j][2] \in before(j)}}
        \cup {IF ClientOwned(k) THEN "clients_resource_key" ELSE "claims_resource_key" :
              k \in {key \in StaticKeys(env) : ClientOwned(key) \/ key \in Attributes(env)}}

ListenerRules(env) ==
    LET own(v) == Value(env, v) # Default[v]
    IN  Says(own("TLS_CERT_FILE") # own("TLS_KEY_FILE"), "half_a_pair")

BoundsRules(env) ==
    Says(Value(env, "MAX_FUTURE_SKEW") < 0, "negative_skew")
    \cup Says(Value(env, "MAX_PAST_AGE") <= 0, "no_past_age")

MetricRules(env) ==
    Says(Value(env, "MAX_METRIC_STREAMS") < 1, "no_streams")
    \cup Says(Value(env, "DELTA_MAX_STALE") <= 0, "no_staleness")

ResourceRules(env) == Says(Value(env, "MEMORY_SPIKE_LIMIT_MIB") >= Value(env, "MEMORY_LIMIT_MIB"), "spike_limit")

GroupRules(env, g) ==
    CASE g = "Identity"  -> IdentityRules(env)
      [] g = "Listener"  -> ListenerRules(env)
      [] g = "Bounds"    -> BoundsRules(env)
      [] g = "Metrics"   -> MetricRules(env)
      [] g = "Resources" -> ResourceRules(env)
      [] OTHER           -> {}

\* Settings.Validate: the exporter of the process's own logs always verifies.
RootRules(env) == Says(Value(env, "LOG_OUTPUT") # "stdout" /\ Value(env, "UPSTREAM") = "unverified", "own_logs")

-----------------------------------------------------------------------------
(* Load *)

LoadGroupFirst(env, g) ==  \* mutant: the first variable at fault ends its group
    LET bad == {v \in Group[g] : AtFault(env, v)}
    IN  IF bad # {} THEN {CHOOSE v \in bad : TRUE} ELSE GroupRules(env, g)

\* A group's faults: its variables', or if they parsed its rules'.
LoadGroup(env, g) ==
    LET bad == {v \in Group[g] : AtFault(env, v)}
    IN  IF bad # {} THEN bad ELSE GroupRules(env, g)

\* Every group's, and only with none of them the root's.
Load(env, groups, rootRules) ==
    LET all == UNION {LoadGroup(env, g) : g \in groups}
    IN  IF all # {} THEN all ELSE rootRules

-----------------------------------------------------------------------------
(* What the rendered file says, and what the components make of it. *)

\* Config.Validate of the authenticator.  Required claims and algorithms are
\* never empty ones as rendered; empty claims and keys do not parse.
AuthenticatorFaults(env) ==
    Says(Value(env, "OIDC_ISSUER_URL") # "url", "issuer")
    \cup Says(Value(env, "OIDC_DISCOVERY_RETRY") <= 0, "discovery_retry")
    \cup Says(Value(env, "OIDC_JWKS_REFRESH") <= 0, "jwks_refresh")
    \cup Says(Value(env, "REQUIRED_SCOPE") = "two_scopes", "required_scope")
    \cup Says(NoText \in Attributes(env), "claim_attributes")
    \cup Says(Value(env, "CLOCK_SKEW") < 0, "clock_skew")
    \cup Says(Value(env, "REJECTION_LOG_INTERVAL") <= 0, "rejection_log_interval")

GrpcFrameHeader == 5

\* Config.Validate of the receiver.
ReceiverFaults(env) ==
    Says(Value(env, "MAX_REQUEST_BODY_BYTES") <= GrpcFrameHeader \/ Value(env, "MAX_REQUEST_BODY_BYTES") > MaxInt32,
         "max_request_body_size")

\* The keys of service::telemetry::resource, in the template's order.
ResourceKeys(env) ==
    LET named == Value(env, "OTEL_RESOURCE_ATTRIBUTES")
        keys  == [i \in DOMAIN named |-> named[i][1]]
    IN  <<"service.name", "service.instance.id">> \o SelectSeq(keys, LAMBDA k : k \notin ServiceKeys)

NamesEachOnce(keys) == \A i, j \in DOMAIN keys : keys[i] = keys[j] => i = j

\* The collector's loader: YAML maps name a key once; then the components.
Loads(env) ==
    /\ NamesEachOnce(ResourceKeys(env))
    /\ AuthenticatorFaults(env) = {} /\ ReceiverFaults(env) = {}

-----------------------------------------------------------------------------

\* What the other modules assume of the settings they run under: Pipeline's
\* SettingsValid, Discovery's and Rejections' intervals, SinglePort's cap, and
\* bounds that admit something.
Sound(env) ==
    /\ Attributes(env) # {} /\ NoText \notin Attributes(env)
    /\ (Attributes(env) \cup StaticKeys(env)) \cap ServiceKeys = {}
    /\ Attributes(env) \cap StaticKeys(env) = {}
    /\ \A i, j \in DOMAIN Value(env, "CLAIM_ATTRIBUTES") :
          Value(env, "CLAIM_ATTRIBUTES")[i][2] = Value(env, "CLAIM_ATTRIBUTES")[j][2] => i = j
    /\ Value(env, "OIDC_DISCOVERY_RETRY") > 0 /\ Value(env, "OIDC_JWKS_REFRESH") > 0
    /\ Value(env, "REJECTION_LOG_INTERVAL") > 0 /\ Value(env, "CLOCK_SKEW") >= 0
    /\ Value(env, "MAX_REQUEST_BODY_BYTES") \in (GrpcFrameHeader + 1)..MaxInt32
    /\ Value(env, "MAX_FUTURE_SKEW") >= 0 /\ Value(env, "MAX_PAST_AGE") > 0
    /\ Value(env, "MAX_METRIC_STREAMS") > 0 /\ Value(env, "DELTA_MAX_STALE") > 0
    /\ Value(env, "MEMORY_SPIKE_LIMIT_MIB") < Value(env, "MEMORY_LIMIT_MIB")
    /\ ~(Value(env, "LOG_OUTPUT") # "stdout" /\ Value(env, "UPSTREAM") = "unverified")

=============================================================================
