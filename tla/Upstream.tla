------------------------------ MODULE Upstream ------------------------------
(***************************************************************************)
(* From the environment to the exporters (internal/upstream, and           *)
(* upstream.go and selftelemetry.go of internal/render): Resolve reads     *)
(* each signal's variables and collects faults in a resolver whose state   *)
(* outlives the signal; the renderer groups the signals by configuration   *)
(* into exporters; the process's own logs follow the logs signal.          *)
(*                                                                         *)
(* A variable's value is a name, "" when unset or empty; what it parses to *)
(* is a constant function of it, and a value outside its domain does not   *)
(* parse.  Values written differently may parse alike.  The settings that  *)
(* are merely parsed and passed on (timeout, compression, queue size,      *)
(* retry) are Plain.                                                       *)
(***************************************************************************)
EXTENDS Integers, Sequences, FiniteSets

CONSTANTS
    Signals,      \* pipelineSignals, in order
    Environments, \* setting |-> ("base" or signal |-> value)
    Urls,         \* URL |-> its scheme and host, whether it has a port, is the host
                  \* only (no path), and is clean (no credentials, query or fragment)
    HeaderLists,  \* header list |-> its <<name, value>> pairs
    Plain         \* setting merely parsed |-> its default, and what its values parse to

AllSignals == {Signals[i] : i \in DOMAIN Signals}

ASSUME SignalsAreNamed ==
    /\ Signals \in Seq(STRING) /\ \A i, j \in DOMAIN Signals : Signals[i] = Signals[j] => i = j
    /\ "logs" \in AllSignals /\ "base" \notin AllSignals /\ "endpoint" \notin AllSignals

VARIABLES
    env,
    todo,     \* the signals Resolve has yet to read
    out,      \* signal |-> its ExporterConfig, of those that resolved
    faults,   \* the resolver: errs, each once ...
    anyTLS, anyGRPC,
    status    \* "resolving", "refused" or "rendered"

vars == <<env, todo, out, faults, anyTLS, anyGRPC, status>>

-----------------------------------------------------------------------------
(* variables.go, and resolver.value *)

NoText   == ""
Global   == {"SKIP_VERIFY", "QUEUE_SIZE", "RETRY_MAX_ELAPSED", "LOG_OUTPUT"}  \* without a signal's form
TlsFiles == {"CERTIFICATE", "CLIENT_CERTIFICATE", "CLIENT_KEY"}

Default(s) ==
    CASE s = "PROTOCOL"                   -> "grpc"
      [] s \in {"INSECURE", "SKIP_VERIFY"} -> "false"
      [] s = "LOG_OUTPUT"                 -> "both"
      [] s \in DOMAIN Plain              -> Plain[s].default
      [] OTHER                            -> NoText

\* In environment e, the signal's own variable, else the base one, else the
\* default; "from" is the variable a fault names, and tells whether the signal's
\* own was read.
Value(e, s, sig) ==
    IF s \notin Global /\ e[s][sig] # NoText THEN [raw |-> e[s][sig], from |-> sig]
    ELSE [raw |-> IF e[s]["base"] # NoText THEN e[s]["base"] ELSE Default(s), from |-> "base"]

-----------------------------------------------------------------------------
(* resolve.go: one signal. *)

Protocols == {"grpc", "http/protobuf"}
Booleans  == [true |-> TRUE, True |-> TRUE, false |-> FALSE, False |-> FALSE]  \* in any case

\* setEndpoint's refusals.
EndpointParses(raw, protocol) ==
    /\ raw \in DOMAIN Urls /\ Urls[raw].scheme \in {"http", "https"} /\ Urls[raw].clean
    /\ protocol = "grpc" => Urls[raw].port /\ Urls[raw].only

\* What is not parsed.  Without a protocol the endpoint is not looked at.
Named == {"PROTOCOL", "ENDPOINT", "INSECURE", "SKIP_VERIFY", "HEADERS"}
ASSUME PlainIsApart == DOMAIN Plain \cap (Named \cup TlsFiles \cup {"LOG_OUTPUT"}) = {}

Parses(s, raw, protocol) ==
    IF s \in DOMAIN Plain THEN raw \in DOMAIN Plain[s].parse
    ELSE IF s = "PROTOCOL" THEN raw \in Protocols
    ELSE IF s = "ENDPOINT" THEN raw # NoText /\ (protocol \in Protocols => EndpointParses(raw, protocol))
    ELSE IF s = "HEADERS"  THEN raw \in DOMAIN HeaderLists
    ELSE raw \in DOMAIN Booleans

\* The settings of sig that do not parse.
Unparsed(e, sig) ==
    {s \in DOMAIN Plain \cup Named : ~Parses(s, Value(e, s, sig).raw, Value(e, "PROTOCOL", sig).raw)}

ParseFaultsFirst(e, sig) ==  \* mutant: returns at the first fault
    LET first == {s \in Unparsed(e, sig) : "ENDPOINT" \in Unparsed(e, sig) => s = "ENDPOINT"}
    IN  {<<"invalid", s, Value(e, s, sig).from>> : s \in first}
ParseFaults(e, sig) == {<<"invalid", s, Value(e, s, sig).from>> : s \in Unparsed(e, sig)}

IsGRPC(e, sig) == Value(e, "PROTOCOL", sig).raw = "grpc"
Insecure(e, sig) == Booleans[Value(e, "INSECURE", sig).raw]

Plaintext(e, sig) ==
    \/ Urls[Value(e, "ENDPOINT", sig).raw].scheme = "http"
    \/ IsGRPC(e, sig) /\ Insecure(e, sig)

\* The rules across variables, once each has parsed.
Says(broken, fault) == IF broken THEN {fault} ELSE {}
ConflictFaults(e, sig) ==
    LET cert == Value(e, "CLIENT_CERTIFICATE", sig)
        key  == Value(e, "CLIENT_KEY", sig)
    IN  Says(/\ ~IsGRPC(e, sig) /\ ~Plaintext(e, sig) /\ Insecure(e, sig)
             /\ Value(e, "INSECURE", sig).from = sig, <<"grpc_only", "INSECURE", sig>>)
        \cup Says((cert.raw = NoText) # (key.raw = NoText), <<"together", cert.from, key.from>>)
        \cup {<<"plaintext", f, sig>> : f \in {f \in TlsFiles : /\ Plaintext(e, sig) /\ Value(e, f, sig).raw # NoText
                                                              /\ Value(e, f, sig).from = sig}}

\* The configuration; TLS settings only where there is TLS.
ExporterConfig(e, sig) ==
    [protocol   |-> Value(e, "PROTOCOL", sig).raw,
     endpoint   |-> LET raw == Value(e, "ENDPOINT", sig).raw IN IF IsGRPC(e, sig) THEN Urls[raw].host ELSE raw,
     signalPath |-> ~IsGRPC(e, sig) /\ Value(e, "ENDPOINT", sig).from = "base",
     plaintext  |-> Plaintext(e, sig),
     skipVerify |-> ~Plaintext(e, sig) /\ Booleans[Value(e, "SKIP_VERIFY", sig).raw],
     files      |-> [f \in TlsFiles |-> IF Plaintext(e, sig) THEN NoText ELSE Value(e, f, sig).raw],
     headers    |-> HeaderLists[Value(e, "HEADERS", sig).raw],
     plain      |-> [s \in DOMAIN Plain |-> Plain[s].parse[Value(e, s, sig).raw]]]

Parsed(e, sig) == ParseFaults(e, sig) = {}
Faults(e, sig) == IF Parsed(e, sig) THEN ConflictFaults(e, sig) ELSE ParseFaults(e, sig)

ResolveSignal ==
    LET sig == Head(todo)
    IN  /\ status = "resolving" /\ todo # <<>>
        /\ todo' = Tail(todo)
        /\ faults' = faults \cup Faults(env, sig)
        /\ anyGRPC' = (anyGRPC \/ (Parsed(env, sig) /\ IsGRPC(env, sig)))
        /\ anyTLS' = (anyTLS \/ (Parsed(env, sig) /\ ~Plaintext(env, sig)))
        /\ out' = IF Faults(env, sig) = {}
                  THEN [s \in DOMAIN out \cup {sig} |-> IF s = sig THEN ExporterConfig(env, sig) ELSE out[s]]
                  ELSE out
        /\ UNCHANGED <<env, status>>

\* Resolve's last checks, once every signal resolved: a base variable that
\* applies to nothing.
UselessBaseUsed ==  \* mutant: a base INSECURE refused though gRPC signals use it
    {s \in {"INSECURE"} : env[s]["base"] \in DOMAIN Booleans /\ Booleans[env[s]["base"]]}
    \cup {s \in TlsFiles : ~anyTLS /\ env[s]["base"] # NoText}
UselessBase ==
    {s \in {"INSECURE"} : ~anyGRPC /\ env[s]["base"] \in DOMAIN Booleans /\ Booleans[env[s]["base"]]}
    \cup {s \in TlsFiles : ~anyTLS /\ env[s]["base"] # NoText}
Useless == IF DOMAIN out = AllSignals THEN {<<"useless", s, "base">> : s \in UselessBase} ELSE {}

\* Settings.Validate, of what Resolve found no fault in: the exporter of the
\* process's own logs always verifies.
OwnLogsUpstream(e) == Value(e, "LOG_OUTPUT", "base").raw # "stdout"
OwnLogsUnverified(found) ==
    Says(found = {} /\ OwnLogsUpstream(env) /\ out["logs"].skipVerify, <<"own_logs", "SKIP_VERIFY", "base">>)

FinishRegardless ==  \* mutant: what resolved is rendered, faults or not
    /\ status = "resolving" /\ todo = <<>>
    /\ faults' = faults \cup Useless
    /\ status' = IF out = <<>> THEN "refused" ELSE "rendered"
    /\ UNCHANGED <<env, todo, out, anyTLS, anyGRPC>>

Finish ==
    /\ status = "resolving" /\ todo = <<>>
    /\ faults' = faults \cup Useless \cup OwnLogsUnverified(faults \cup Useless)
    /\ status' = IF faults' = {} THEN "rendered" ELSE "refused"
    /\ UNCHANGED <<env, todo, out, anyTLS, anyGRPC>>

Init ==
    /\ env \in Environments
    /\ todo = Signals /\ out = <<>> /\ faults = {}
    /\ anyTLS = FALSE /\ anyGRPC = FALSE /\ status = "resolving"

Next == ResolveSignal \/ Finish

Spec == Init /\ [][Next]_vars

-----------------------------------------------------------------------------
(* render/upstream.go: the exporters. *)

\* The id names the signals an exporter serves unless it serves them all.
IdUnnamed(cfg, sigs) == <<cfg.protocol, {}>>  \* mutant: never named
Id(cfg, sigs) == <<cfg.protocol, IF sigs = AllSignals THEN {} ELSE sigs>>

\* A per-signal HTTP URL is the signal's own key.
Endpoints(cfg, sigs) ==
    IF cfg.protocol = "grpc" \/ cfg.signalPath THEN [k \in {"endpoint"} |-> cfg.endpoint]
    ELSE [sig \in sigs |-> cfg.endpoint]

SharesByEndpoint(c, d) ==  \* mutant: grouped by where they go alone
    c.endpoint = d.endpoint
Shares(c, d) == c = d

\* One exporter for each distinct configuration among the signals, made when the
\* first of those that share it comes.
Served(bySignal, cfg) == {sig \in DOMAIN bySignal : Shares(bySignal[sig], cfg)}
Exporter(bySignal, cfg) ==
    LET sigs == Served(bySignal, cfg)
    IN  [id |-> Id(cfg, sigs), config |-> cfg, signals |-> sigs, endpoints |-> Endpoints(cfg, sigs)]
ComesFirst(bySignal, sig) ==
    \A i \in DOMAIN Signals : Signals[i] = sig => \A j \in 1..(i - 1) : ~Shares(bySignal[Signals[j]], bySignal[sig])
Exporters(bySignal) ==
    {Exporter(bySignal, bySignal[sig]) : sig \in {s \in DOMAIN bySignal : ComesFirst(bySignal, s)}}

ExporterFor(sig) == CHOOSE e \in Exporters(out) : sig \in e.signals

\* The path added to a base URL, by its segments.
NoPath == <<>>
Path(sig) == <<"v1", sig>>

\* selfLogsExporter: the SDK takes TLS from the URL's scheme, made up for gRPC,
\* and a URL that is whole.
SelfLogsSchemeFixed(cfg) ==  \* mutant: https:// for every gRPC upstream
    [tls     |-> cfg.protocol = "grpc" \/ Urls[cfg.endpoint].scheme = "https",
     to      |-> <<cfg.endpoint, IF cfg.signalPath THEN Path("logs") ELSE NoPath>>,
     files   |-> IF cfg.plaintext THEN [f \in TlsFiles |-> NoText] ELSE cfg.files,
     headers |-> cfg.headers]
SelfLogsExporter(cfg) ==
    [tls     |-> IF cfg.protocol = "grpc" THEN ~cfg.plaintext ELSE Urls[cfg.endpoint].scheme = "https",
     to      |-> <<cfg.endpoint, IF cfg.signalPath THEN Path("logs") ELSE NoPath>>,
     files   |-> IF cfg.plaintext THEN [f \in TlsFiles |-> NoText] ELSE cfg.files,
     headers |-> cfg.headers]

\* Where the collector's exporters send a signal: gRPC to the endpoint, HTTP
\* to the signal's own URL, else to the base URL and the signal's path.
Destination(e, sig) ==
    IF e.config.protocol = "grpc" THEN <<e.endpoints["endpoint"], NoPath>>
    ELSE IF sig \in DOMAIN e.endpoints THEN <<e.endpoints[sig], NoPath>>
    ELSE <<e.endpoints["endpoint"], Path(sig)>>

-----------------------------------------------------------------------------
(* Properties. *)

TypeOK ==
    /\ env \in Environments /\ DOMAIN out \subseteq AllSignals
    /\ anyTLS \in BOOLEAN /\ anyGRPC \in BOOLEAN /\ status \in {"resolving", "refused", "rendered"}
    /\ status = "rendered" => DOMAIN out = AllSignals
    /\ \A f \in faults : f[1] \in {"invalid", "grpc_only", "together", "plaintext", "useless", "own_logs"}

\* A variable as docs/configuration.md has it: the signal's form takes
\* precedence, then the base, then the default.
Effective(e, s, sig) ==
    LET forms == <<IF s \in Global THEN NoText ELSE e[s][sig], e[s]["base"], Default(s)>>
        set   == {i \in 1..3 : forms[i] # NoText}
    IN  IF set = {} THEN NoText ELSE forms[CHOOSE i \in set : \A j \in set : i <= j]

DocTLS(e, sig) ==
    /\ Urls[Effective(e, "ENDPOINT", sig)].scheme = "https"
    /\ ~(Effective(e, "PROTOCOL", sig) = "grpc" /\ Booleans[Effective(e, "INSECURE", sig)])

\* Each signal goes where and how its variables say, by the exporter it is
\* given, though exporters are shared, settings are inherited one by one and
\* some apply to one protocol only (Resolve, all, endpoints).
GoesWhereDocumented ==
    status = "rendered" =>
        \A sig \in AllSignals :
            LET e == ExporterFor(sig)
                c == e.config
            IN  /\ Destination(e, sig) =
                      IF Effective(env, "PROTOCOL", sig) = "grpc" THEN <<Urls[Effective(env, "ENDPOINT", sig)].host, NoPath>>
                      ELSE <<Effective(env, "ENDPOINT", sig), IF env["ENDPOINT"][sig] # NoText THEN NoPath ELSE Path(sig)>>
                /\ c.protocol = Effective(env, "PROTOCOL", sig) /\ c.plaintext = ~DocTLS(env, sig)
                /\ c.headers = HeaderLists[Effective(env, "HEADERS", sig)]
                /\ \A s \in DOMAIN Plain : c.plain[s] = Plain[s].parse[Effective(env, s, sig)]
                /\ \A f \in TlsFiles : c.files[f] = IF DocTLS(env, sig) THEN Effective(env, f, sig) ELSE NoText
                /\ c.skipVerify = (DocTLS(env, sig) /\ Booleans[Effective(env, "SKIP_VERIFY", sig)])

\* The collector accepts a configuration once: no two exporters have one id,
\* and each signal has exactly one exporter (all, ExporterFor).
ExportersAreDistinct ==
    status = "rendered" =>
        /\ \A d, e \in Exporters(out) : d.id = e.id => d = e
        /\ \A sig \in AllSignals : Cardinality({e \in Exporters(out) : sig \in e.signals}) = 1

\* Every malformed or missing variable is reported at once, for whichever
\* signal it was read, whatever else is at fault; an endpoint only once its
\* protocol is known (Resolve, resolver.fail).
MalformedAllReported ==
    todo = <<>> =>
        \A sig \in AllSignals, s \in DOMAIN Plain \cup Named :
            ~Parses(s, Effective(env, s, sig), Effective(env, "PROTOCOL", sig))
                => \E from \in {"base", sig} : <<"invalid", s, from>> \in faults

\* An environment whose variables parse is refused in these cases and in no
\* other, whatever its signals inherit and share: half a client pair; a signal's
\* own INSECURE=true on http/protobuf with an https:// URL; a signal's own TLS
\* file where it is plaintext; a base INSECURE=true with no gRPC signal; a base
\* TLS file with no TLS signal; and own logs to an upstream whose certificate is
\* not to be verified (docs/DESIGN.md; anyTLS, anyGRPC and perSignal in
\* resolve.go, Settings.Validate). docs/configuration.md:44 says the signal's own
\* INSECURE is refused with http/protobuf; on an http:// URL the code accepts it.
RefusedAsDesigned ==
    LET own(s, sig) == env[s][sig] # NoText
        half(sig)   == (Effective(env, "CLIENT_CERTIFICATE", sig) = NoText) # (Effective(env, "CLIENT_KEY", sig) = NoText)
        http(sig)   == Effective(env, "PROTOCOL", sig) # "grpc"
    IN  status # "resolving" /\ (\A f \in faults : f[1] # "invalid") =>
          (status = "refused" <=>
              \/ \E sig \in AllSignals :
                    \/ half(sig)
                    \/ own("INSECURE", sig) /\ Booleans[env["INSECURE"][sig]] /\ http(sig) /\ DocTLS(env, sig)
                    \/ \E f \in TlsFiles : own(f, sig) /\ ~DocTLS(env, sig)
              \/ /\ env["INSECURE"]["base"] \in DOMAIN Booleans /\ Booleans[env["INSECURE"]["base"]]
                 /\ \A sig \in AllSignals : http(sig)
              \/ \E f \in TlsFiles : env[f]["base"] # NoText /\ \A sig \in AllSignals : ~DocTLS(env, sig)
              \/ OwnLogsUpstream(env) /\ DocTLS(env, "logs") /\ Booleans[Effective(env, "SKIP_VERIFY", "logs")])

\* The process's own logs go where client logs go, and as they do: same
\* destination, same TLS, same credentials, never unverified by request and
\* never verified where that was asked not to be (selfLogsExporter).
OwnLogsFollow ==
    status = "rendered" /\ OwnLogsUpstream(env) =>
        LET e    == ExporterFor("logs")
            self == SelfLogsExporter(out["logs"])
        IN  /\ self.to = Destination(e, "logs") /\ self.tls = DocTLS(env, "logs")
            /\ self.files = e.config.files /\ self.headers = e.config.headers
            /\ ~e.config.skipVerify

=============================================================================
