---------------------------- MODULE MCRunCommand ----------------------------
(***************************************************************************)
(* Small instances of RunCommand: one process under each environment of a  *)
(* set that meets every rule and every kind of fault, and pairs of         *)
(* processes on one temporary directory.                                   *)
(***************************************************************************)
EXTENDS RunCommand, TLC

CONSTANTS p1, p2

MCProc == {p1, p2}

\* What a deployment must set, and the rest at its default.
Plain == ("OIDC_ISSUER_URL" :> "url") @@ ("OIDC_AUDIENCE" :> "audience") @@ ("ALLOWED_SERVICE_NAMES" :> "names")
         @@ ("UPSTREAM" :> "verified") @@ [v \in Variables |-> Unset]

Set(v, x) == (v :> x) @@ Plain

\* One variable away from Plain.
Single ==
    {Set(v, x) : v \in {"OIDC_DISCOVERY_RETRY", "OIDC_JWKS_REFRESH", "CLOCK_SKEW", "REJECTION_LOG_INTERVAL",
                        "MAX_FUTURE_SKEW", "MAX_PAST_AGE", "MAX_METRIC_STREAMS", "DELTA_MAX_STALE"}, x \in {-1, 0, 1}}
    \cup {Set("MAX_REQUEST_BODY_BYTES", n) : n \in {GrpcFrameHeader, GrpcFrameHeader + 1, MaxInt32, MaxInt32 + 1}}
    \cup {Set("MEMORY_SPIKE_LIMIT_MIB", n) : n \in {63, 64}}
    \cup {Set("OIDC_ISSUER_URL", "text"), Set("REQUIRED_SCOPE", "two_scopes"), Set("TLS_KEY_FILE", "own")}
    \cup {Set("OTEL_RESOURCE_ATTRIBUTES", <<<<k, "x">>, <<"team", "y">>, <<"team", "z">>>>) :
          k \in {"service.version", "service.instance.id"}}

Claims == {<<>>, <<<<"sub", "user.id">>, <<"sub", "user.sub">>>>, <<<<"sub", "user.id">>, <<"name", "user.id">>>>,
           <<<<"sub", "service.name">>>>, <<<<"sub", "service.version">>>>, <<<<"sub", NoText>>>>}
Statics == {<<<<"team", "y">>>>, <<<<"user.id", "x">>>>, <<<<"user.sub", "x">>>>, <<<<"service.version", "2">>>>}

\* Several faults at once, in one group and in several.
Several ==
    {("CLAIM_ATTRIBUTES" :> c) @@ Set("CLIENT_RESOURCE_ATTRIBUTES", s) : c \in Claims, s \in Statics}
    \cup {("LOG_OUTPUT" :> o) @@ Set("UPSTREAM", "unverified") : o \in {"stdout", "both", Malformed}}
    \cup {("TLS_CERT_FILE" :> "own") @@ Set("TLS_KEY_FILE", "own"),
          ("CLOCK_SKEW" :> Malformed) @@ ("OIDC_AUDIENCE" :> Unset) @@ Set("CLAIM_ATTRIBUTES", <<<<"sub", NoText>>>>),
          ("MAX_PAST_AGE" :> 0) @@ ("LOG_LEVEL" :> Malformed) @@ Set("UPSTREAM", Malformed),
          ("LOG_LEVEL" :> Malformed) @@ [v \in Variables |-> Unset]}

Rendered(vars_) == [mounted |-> FALSE, vars |-> vars_]
Mounted(vars_)  == [mounted |-> TRUE, vars |-> vars_]

MCDeployments ==
    {p1 :> Rendered(e) : e \in Single \cup Several}
    \cup {p1 :> Mounted(e) : e \in {[v \in Variables |-> Unset], [v \in Variables |-> Malformed]}}
    \cup {(p1 :> Rendered(Plain)) @@ (p2 :> Rendered(e)) : e \in {Plain, Set("MAX_REQUEST_BODY_BYTES", GrpcFrameHeader)}}

=============================================================================
