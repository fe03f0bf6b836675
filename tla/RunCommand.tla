----------------------------- MODULE RunCommand -----------------------------
(***************************************************************************)
(* The run subcommand (internal/render/run.go): it loads the environment,  *)
(* hides from the OpenTelemetry SDK what it has interpreted, builds its    *)
(* logger, writes the rendered configuration to a fixed name in the        *)
(* temporary directory and runs the collector on that name.  Processes     *)
(* that share the directory interleave at every file operation, may crash  *)
(* between any two, and are started again.                                 *)
(*                                                                         *)
(* Files are kept by the start that made them: the directory's entry is    *)
(* one of them or NoFile, and a process writes to the file it opened       *)
(* whatever the entry is by then.  The collector (otelcol's, modelled from *)
(* how run uses it) reads the entry when it starts and when it is told to  *)
(* reload, and returns an error that run takes apart.                      *)
(***************************************************************************)
EXTENDS Settings

CONSTANTS
    Proc,         \* the processes that share the temporary directory
    Deployments,  \* of each: process |-> its environment, and whether a file is mounted
    MaxStarts     \* bound on how often each process is started

ASSUME StartsAreBounded == MaxStarts \in Nat
ASSUME DeploymentsAreTyped ==
    \A d \in Deployments : DOMAIN d \subseteq Proc /\ \A p \in DOMAIN d : d[p].mounted \in BOOLEAN /\ Parsed(d[p].vars)

VARIABLES
    env,      \* deployed process |-> [mounted, vars]
    at,       \* process |-> where run is
    starts,   \* process |-> how often it was started
    faults,   \* process |-> what Load reported
    visible,  \* process |-> the SDK's variables still in its environment
    fd,       \* process |-> the file it has open, or NoFile
    config,   \* process |-> the file its collector runs on, or NoFile
    failed,   \* process |-> what failed, of this start (history)
    exit,     \* process |-> "none", "ok" or "error"
    entry,    \* the directory's entry
    made,     \* the files, in the order they were made
    bytes,    \* file |-> the starts whose rendering is in it, in part at least
    whole     \* the starts that wrote all of theirs

procVars == <<env, starts>>
fileVars == <<entry, made, bytes, whole>>
vars == <<procVars, at, faults, visible, fd, config, failed, exit, fileVars>>

Start  == Proc \X (1..MaxStarts)
NoFile == <<>>

Me(p) == <<p, starts[p]>>

Goto(p, place) == at' = [at EXCEPT ![p] = place]
From(p, place) == at[p] = place

\* run returns an error, and the process exits.
Fails(p, what) ==
    /\ Goto(p, "exited")
    /\ exit' = [exit EXCEPT ![p] = "error"]
    /\ failed' = [failed EXCEPT ![p] = @ \cup {what}]

Goes(p, place) == Goto(p, place) /\ UNCHANGED <<exit, failed>>

-----------------------------------------------------------------------------
(* A start, and a crash. *)

\* sdkVariables: the upstream's family, then the two of the own resource.
SdkVariablesUpstream == <<"OTEL_EXPORTER_OTLP">>  \* mutant: the two forgotten
SdkVariables == <<"OTEL_EXPORTER_OTLP", "OTEL_SERVICE_NAME", "OTEL_RESOURCE_ATTRIBUTES">>
ReadBySdk == {"OTEL_EXPORTER_OTLP", "OTEL_SERVICE_NAME", "OTEL_RESOURCE_ATTRIBUTES"}

Launch(p) ==
    /\ p \in DOMAIN env /\ at[p] \in {"off", "exited"} /\ starts[p] < MaxStarts
    /\ starts' = [starts EXCEPT ![p] = @ + 1]
    /\ Goto(p, "load")
    /\ faults' = [faults EXCEPT ![p] = {}] /\ visible' = [visible EXCEPT ![p] = ReadBySdk]
    /\ fd' = [fd EXCEPT ![p] = NoFile] /\ config' = [config EXCEPT ![p] = NoFile]
    /\ failed' = [failed EXCEPT ![p] = {}] /\ exit' = [exit EXCEPT ![p] = "none"]
    /\ UNCHANGED <<env, fileVars>>

\* In the middle of a write, a part of it stays behind.
Crash(p) ==
    /\ at[p] \notin {"off", "exited"}
    /\ Goto(p, "off")
    /\ bytes' = IF at[p] = "write" THEN [bytes EXCEPT ![fd[p]] = @ \cup {Me(p)}] ELSE bytes
    /\ UNCHANGED <<procVars, faults, visible, fd, config, failed, exit, entry, made, whole>>

-----------------------------------------------------------------------------
(* run, up to the file. *)

\* Everything is read before anything is acted on; of a mounted configuration
\* the logging group only.
Reported(d) == IF d.mounted THEN Load(d.vars, {"Logs"}, {}) ELSE Load(d.vars, DOMAIN Group, RootRules(d.vars))

LoadAll(p) ==
    LET found == Reported(env[p])
    IN  /\ From(p, "load")
        /\ faults' = [faults EXCEPT ![p] = found]
        /\ \/ found # {} /\ Fails(p, "load")
           \/ found = {} /\ Goes(p, IF env[p].mounted THEN "logger" ELSE "unset")
        /\ UNCHANGED <<procVars, visible, fd, config, fileVars>>

\* The variables one by one, or unset's error, or the instance id's before it.
Unhide(p) ==
    LET left == {i \in DOMAIN SdkVariables : SdkVariables[i] \in visible[p]}
        next == CHOOSE i \in left : \A j \in left : i <= j
    IN  /\ From(p, "unset")
        /\ \/ left = {} /\ Goes(p, "logger") /\ UNCHANGED visible
           \/ /\ left # {} /\ visible' = [visible EXCEPT ![p] = @ \ {SdkVariables[next]}]
              /\ UNCHANGED <<at, exit, failed>>
           \/ left # {} /\ Fails(p, "unset") /\ UNCHANGED visible
        /\ UNCHANGED <<procVars, faults, fd, config, fileVars>>

\* newLogger: it fails only where an exporter of the own logs is built.
NewLogger(p) ==
    /\ From(p, "logger")
    /\ \/ Goes(p, IF env[p].mounted THEN "collector" ELSE "remove")
       \/ ~env[p].mounted /\ Value(env[p].vars, "LOG_OUTPUT") # "stdout" /\ Fails(p, "own_logs")
    /\ UNCHANGED <<procVars, faults, visible, fd, config, fileVars>>

-----------------------------------------------------------------------------
(* writeExclusive *)

\* The file of before, unless Render or Remove fails.
Remove(p) ==
    /\ From(p, "remove")
    /\ \/ entry' = NoFile /\ Goes(p, "create")
       \/ UNCHANGED entry /\ Fails(p, "write")
    /\ UNCHANGED <<procVars, faults, visible, fd, config, made, bytes, whole>>

CreateOver(p) ==  \* mutant: without O_EXCL, the file that is there is opened
    /\ From(p, "create")
    /\ \/ /\ entry = NoFile /\ entry' = Me(p) /\ made' = Append(made, Me(p))
          /\ fd' = [fd EXCEPT ![p] = Me(p)] /\ Goes(p, "write")
       \/ /\ entry # NoFile /\ fd' = [fd EXCEPT ![p] = entry] /\ Goes(p, "write")
          /\ UNCHANGED <<entry, made>>
    /\ UNCHANGED <<procVars, faults, visible, config, bytes, whole>>

\* O_CREATE with O_EXCL: whatever is there by now makes it fail.
Create(p) ==
    /\ From(p, "create")
    /\ \/ /\ entry = NoFile /\ entry' = Me(p) /\ made' = Append(made, Me(p))
          /\ fd' = [fd EXCEPT ![p] = Me(p)] /\ Goes(p, "write")
       \/ Fails(p, "write") /\ UNCHANGED <<entry, made, fd>>
    /\ UNCHANGED <<procVars, faults, visible, config, bytes, whole>>

\* Write, then Close; either may fail and leave a part behind.
Write(p) ==
    /\ From(p, "write")
    /\ bytes' = [bytes EXCEPT ![fd[p]] = @ \cup {Me(p)}]
    /\ \/ whole' = whole \cup {Me(p)} /\ Goes(p, "close")
       \/ UNCHANGED whole /\ Fails(p, "write")
    /\ UNCHANGED <<procVars, faults, visible, fd, config, entry, made>>

Close(p) ==
    /\ From(p, "close")
    /\ fd' = [fd EXCEPT ![p] = NoFile]
    /\ Goes(p, "collector") \/ Fails(p, "write")
    /\ UNCHANGED <<procVars, faults, visible, config, fileVars>>

-----------------------------------------------------------------------------
(* The collector's errors, and what run makes of them. *)

Failure(what) == [kind |-> what, of |-> <<>>]
\* multierr: one error is itself.
Joined(errs) == IF Len(errs) = 1 THEN errs[1] ELSE [kind |-> "join", of |-> errs]
\* "failed to shutdown service after error", which run looks for.
AfterError(err) == [kind |-> "after_error", of |-> <<err>>]

\* What failed of the steps, in their order.
Hit(step, which) == IF step \in which THEN <<Failure(step)>> ELSE <<>>
FailuresOf(which) == Hit("pipelines", which) \o Hit("extensions", which) \o Hit("logger", which)

\* Collector.Run's error when the start failed, and when its shutdown did.
StartError(which) == Joined(<<Failure("start")>> \o FailuresOf(which))
ShutdownError(which) ==
    LET service == FailuresOf(which)
    IN  Joined(Hit("provider", which) \o IF service = <<>> THEN <<>> ELSE <<AfterError(Joined(service))>>)

CollectorSteps == {"provider", "pipelines", "extensions", "logger"}
ServiceErrors  == {Joined(FailuresOf(which)) : which \in SUBSET CollectorSteps}
Errors ==
    {Failure(step) : step \in CollectorSteps \cup {"start"}}
    \cup ServiceErrors \cup {AfterError(err) : err \in ServiceErrors}
    \cup {StartError(which) : which \in SUBSET CollectorSteps}
    \cup {ShutdownError(which) : which \in SUBSET CollectorSteps}

AnyLoggerShutdown[e \in Errors] ==  \* mutant: one logger's failure is enough
    \/ e.kind = "logger"
    \/ e.kind \in {"join", "after_error"} /\ \E i \in DOMAIN e.of : AnyLoggerShutdown[e.of[i]]

\* onlyLoggerShutdown: every failure the error joins is the logger's.
OnlyLoggerShutdown[e \in Errors] ==
    \/ e.kind = "join" /\ e.of # <<>> /\ \A i \in DOMAIN e.of : OnlyLoggerShutdown[e.of[i]]
    \/ e.kind = "logger"
    \/ e.kind = "after_error" /\ OnlyLoggerShutdown[e.of[1]]

\* ownLogsUndelivered, of a collector that is closed.
OwnLogsLost(err) == AnyLoggerShutdown[err]  \* mutant
OwnLogsUndelivered(err) == OnlyLoggerShutdown[err]

\* Run's error, the collector closed: exit by what it joins.
Returns(p, err, which) ==
    /\ Goto(p, "exited")
    /\ failed' = [failed EXCEPT ![p] = @ \cup which]
    /\ exit' = [exit EXCEPT ![p] = IF OwnLogsUndelivered(err) THEN "ok" ELSE "error"]

-----------------------------------------------------------------------------
(* The collector. *)

\* What the file provider finds at the path is a configuration the collector
\* accepts: of a whole rendering that is up to its settings, a part may parse.
Accepted(p) ==
    \/ env[p].mounted
    \/ entry # NoFile /\ bytes[entry] # {} /\ (entry \in whole => Loads(env[entry[1]].vars))

Found(p) == IF env[p].mounted THEN NoFile ELSE entry

\* NewCollector, and Run: the configuration is read, built and started.
StartCollector(p) ==
    /\ From(p, "collector")
    /\ \/ /\ Accepted(p) /\ Goes(p, "running")
          /\ config' = [config EXCEPT ![p] = Found(p)]
       \/ Fails(p, "read") /\ UNCHANGED config
       \/ /\ Accepted(p) /\ UNCHANGED config
          /\ \E which \in SUBSET {"pipelines", "extensions", "logger"} :
                Returns(p, StartError(which), which \cup {"start"})
    /\ UNCHANGED <<procVars, faults, visible, fd, fileVars>>

\* SIGHUP: the service is retired and the path read again.  A failure of
\* either ends Run before the collector is closed.
Reload(p) ==
    /\ From(p, "running")
    /\ \/ Accepted(p) /\ config' = [config EXCEPT ![p] = Found(p)] /\ UNCHANGED <<at, exit, failed>>
       \/ Fails(p, "reload") /\ UNCHANGED config
    /\ UNCHANGED <<procVars, faults, visible, fd, fileVars>>

\* Shutdown, each of its parts failing or not.
StopCollector(p) ==
    /\ From(p, "running")
    /\ \/ Goto(p, "exited") /\ exit' = [exit EXCEPT ![p] = "ok"] /\ UNCHANGED failed
       \/ \E which \in (SUBSET CollectorSteps) \ {{}} : Returns(p, ShutdownError(which), which)
    /\ UNCHANGED <<procVars, faults, visible, fd, config, fileVars>>

-----------------------------------------------------------------------------

Init ==
    /\ env \in Deployments
    /\ at = [p \in Proc |-> "off"] /\ starts = [p \in Proc |-> 0]
    /\ faults = [p \in Proc |-> {}] /\ visible = [p \in Proc |-> ReadBySdk]
    /\ fd = [p \in Proc |-> NoFile] /\ config = [p \in Proc |-> NoFile]
    /\ failed = [p \in Proc |-> {}] /\ exit = [p \in Proc |-> "none"]
    /\ entry = NoFile /\ made = <<>> /\ bytes = [s \in Start |-> {}] /\ whole = {}

Next == \E p \in Proc :
    \/ Launch(p) \/ Crash(p)
    \/ LoadAll(p) \/ Unhide(p) \/ NewLogger(p)
    \/ Remove(p) \/ Create(p) \/ Write(p) \/ Close(p)
    \/ StartCollector(p) \/ Reload(p) \/ StopCollector(p)

Spec == Init /\ [][Next]_vars

-----------------------------------------------------------------------------
(* Properties. *)

\* A start is refused with every variable that is missing or malformed, and
\* with every broken rule of a group whose variables all parsed, at once and
\* before anything was acted on; with a mounted configuration only the logging
\* variables can refuse it (run, Load).
EveryFaultReported ==
    \A p \in Proc : at[p] = "exited" /\ "load" \in failed[p] =>
        LET e    == env[p].vars
            read == IF env[p].mounted THEN Group["Logs"] ELSE Variables
        IN  /\ faults[p] \cap Variables = {v \in read : AtFault(e, v)}
            /\ \A g \in DOMAIN Group : Group[g] \subseteq read /\ Group[g] \cap faults[p] = {} => GroupRules(e, g) \subseteq faults[p]
            /\ visible[p] = ReadBySdk /\ bytes[Me(p)] = {}

\* A collector that runs on a whole rendering runs on settings that meet what
\* every component is built on, though neither the run command nor the
\* components check them all (Validate, of seven types).  What a part of a
\* rendering holds nobody promises.
RunsOnSoundSettings ==
    \A p \in Proc : at[p] = "running" /\ config[p] \in whole => Sound(env[config[p][1]].vars)

\* The collector runs on its own start's rendering, whole, or on the one of a
\* start that made its file later, of which a reload may find but a part; never
\* on what an earlier start left behind, crashed or not, nor on two renderings
\* mixed (writeExclusive).
RunsOwnOrNewer ==
    \A p \in Proc : at[p] = "running" /\ config[p] # NoFile =>
        /\ bytes[config[p]] = {config[p]}
        /\ config[p] = Me(p) => Me(p) \in whole
        /\ \E i, j \in DOMAIN made : made[i] = Me(p) /\ made[j] = config[p] /\ i <= j

\* The process exits with success exactly when its collector ran and stopped
\* with nothing failing but the flush of its own logs (ownLogsUndelivered).
ExitTellsTheRun ==
    \A p \in Proc : at[p] = "exited" => (exit[p] = "ok" <=> failed[p] \subseteq {"logger"})

\* What is rendered is applied once: where the SDK reads the environment (the
\* run command's logger, the collector) none of its variables is left, and all
\* of them are when a mounted configuration may refer to them (run).
SettingsAppliedOnce ==
    \A p \in Proc : at[p] \in {"logger", "remove", "create", "write", "close", "collector", "running"} =>
        visible[p] = IF env[p].mounted THEN ReadBySdk ELSE {}

-----------------------------------------------------------------------------
(* What a document says that the code does not do. *)

\* docs/configuration.md: OTEL_RESOURCE_ATTRIBUTES are the process's own
\* resource attributes, so what the run command accepts and writes whole is a
\* configuration whose resource names each key once.
ResourceAttributesApplied ==
    \A p \in Proc : at[p] = "collector" /\ entry = Me(p) => NamesEachOnce(ResourceKeys(env[p].vars))

=============================================================================
