--------------------------- MODULE SharedReceiver ---------------------------
(***************************************************************************)
(* The receiver of SinglePort as the collector's service drives it         *)
(* (factory.go): every signal's pipeline has a receiver of its own, and    *)
(* all of them are the one sharedReceiver that the registry keeps for      *)
(* their configuration.  The service (the collector's, modelled from how   *)
(* it calls its components) builds the receivers, starts each pipeline     *)
(* from its exporter up and stops it from its receiver down, one call at a *)
(* time and the pipelines in any order; a start that fails stops them all, *)
(* the ones never started too.  A reload builds a new service from a new   *)
(* configuration: another behaviour of this module.                        *)
(***************************************************************************)
EXTENDS SinglePort

VARIABLES
    service,    \* "building", "starting", "running", "stopping" or "exited"
    receivers,  \* registry: how many receivers it holds for the configuration
    built,      \* how many newReceiver made
    handle,     \* signal |-> its pipeline's receiver component
    below,      \* signal |-> the rest of its pipeline
    startOnce,  \* sharedReceiver: "no", or startErr: "ok", "failed"
    stopping    \* the signal whose Shutdown waits for the listener, or NoSignal

sharedVars == <<service, receivers, built, handle, below, startOnce, stopping>>
allVars == <<vars, sharedVars>>

NoSignal == "none"

ASSUME SignalsAreNamed == NoSignal \notin Routes

Everyone(f, states) == \A sig \in Routes : f[sig] \in states
Becomes(f, sig, state) == [f EXCEPT ![sig] = state]

-----------------------------------------------------------------------------
(* The registry. *)

\* load: the configuration's receiver, built on first use.
Load(sig) ==
    IF receivers = 0 THEN receivers' = 1 /\ built' = built + 1
    ELSE UNCHANGED <<receivers, built>>

\* createTraces, createLogs, createMetrics; registering the signal's service
\* and path, which are the Routes.
Create(sig) ==
    /\ service = "building" /\ handle[sig] = "none"
    /\ Load(sig)
    /\ handle' = Becomes(handle, sig, "created")
    /\ UNCHANGED <<vars, service, below, startOnce, stopping>>

\* newReceiver's errors, or another component's: nothing is started.
CreateFails ==
    /\ service = "building"
    /\ service' = "exited"
    /\ UNCHANGED <<vars, receivers, built, handle, below, startOnce, stopping>>

-----------------------------------------------------------------------------
(* The service starts the pipelines. *)

BeginStart ==
    /\ service = "building" /\ Everyone(handle, {"created"})
    /\ service' = "starting"
    /\ UNCHANGED <<vars, receivers, built, handle, below, startOnce, stopping>>

StartBelow(sig) ==
    /\ service = "starting" /\ below[sig] = "none"
    /\ \/ below' = Becomes(below, sig, "up") /\ UNCHANGED service
       \/ service' = "stopping" /\ UNCHANGED below
    /\ UNCHANGED <<vars, receivers, built, handle, startOnce, stopping>>

\* sharedReceiver.Start: the first call opens the listener, or fails to; the
\* others are told the same.
StartReceiver(sig) ==
    /\ service = "starting" /\ below[sig] = "up" /\ handle[sig] = "created"
    /\ \/ startOnce = "no" /\ Start /\ startOnce' = "ok"
       \/ startOnce = "no" /\ startOnce' = "failed" /\ UNCHANGED vars
       \/ startOnce # "no" /\ UNCHANGED <<vars, startOnce>>
    /\ handle' = Becomes(handle, sig, IF startOnce' = "ok" THEN "started" ELSE "failed")
    /\ service' = IF startOnce' = "ok" THEN "starting" ELSE "stopping"
    /\ UNCHANGED <<receivers, built, below, stopping>>

Started ==
    /\ service = "starting" /\ Everyone(handle, {"started"})
    /\ service' = "running"
    /\ UNCHANGED <<vars, receivers, built, handle, below, startOnce, stopping>>

-----------------------------------------------------------------------------
(* And stops them. *)

\* A signal, a reload, or a fatal status: Serve's error among them.
BeginStop ==
    /\ service = "running"
    /\ service' = "stopping"
    /\ UNCHANGED <<vars, receivers, built, handle, below, startOnce, stopping>>

StopReceiverLast(sig) ==  \* mutant: the last pipeline stops the listener, not the first
    /\ service = "stopping" /\ stopping = NoSignal /\ handle[sig] # "stopped"
    /\ \/ /\ stop = "no" /\ \A other \in Routes \ {sig} : handle[other] = "stopped"
          /\ Shutdown
          /\ stopping' = IF stop' = "waiting" THEN sig ELSE NoSignal
          /\ handle' = IF stop' = "waiting" THEN handle ELSE Becomes(handle, sig, "stopped")
       \/ /\ \E other \in Routes \ {sig} : handle[other] # "stopped"
          /\ handle' = Becomes(handle, sig, "stopped") /\ UNCHANGED <<vars, stopping>>
    /\ receivers' = IF stop' = "ok" THEN 0 ELSE receivers
    /\ UNCHANGED <<service, built, below, startOnce>>

StopReceiverIfStarted(sig) ==  \* mutant: a pipeline never started stops nothing, once
    /\ service = "stopping" /\ stopping = NoSignal /\ handle[sig] # "stopped"
    /\ \/ /\ stop = "no" /\ handle[sig] = "started" /\ Shutdown
          /\ stopping' = IF stop' = "waiting" THEN sig ELSE NoSignal
          /\ handle' = IF stop' = "waiting" THEN handle ELSE Becomes(handle, sig, "stopped")
       \/ /\ stop = "no" /\ handle[sig] # "started" /\ stop' = "ok"
          /\ handle' = Becomes(handle, sig, "stopped")
          /\ UNCHANGED <<server, req, answer, counted, outcome, stopping>>
       \/ stop # "no" /\ handle' = Becomes(handle, sig, "stopped") /\ UNCHANGED <<vars, stopping>>
    /\ receivers' = IF stop' = "ok" THEN 0 ELSE receivers
    /\ UNCHANGED <<service, built, below, startOnce>>

\* sharedReceiver.Shutdown: the first call stops the listener and leaves the
\* registry, when singlePort.Shutdown has returned; the others are told the
\* same.
StopReceiver(sig) ==
    /\ service = "stopping" /\ stopping = NoSignal /\ handle[sig] # "stopped"
    /\ \/ /\ stop = "no" /\ Shutdown
          /\ stopping' = IF stop' = "waiting" THEN sig ELSE NoSignal
          /\ handle' = IF stop' = "waiting" THEN handle ELSE Becomes(handle, sig, "stopped")
       \/ stop # "no" /\ handle' = Becomes(handle, sig, "stopped") /\ UNCHANGED <<vars, stopping>>
    /\ receivers' = IF stop' = "ok" THEN 0 ELSE receivers
    /\ UNCHANGED <<service, built, below, startOnce>>

ReceiverStopped ==
    /\ stopping # NoSignal /\ ShutdownReturns
    /\ handle' = Becomes(handle, stopping, "stopped")
    /\ stopping' = NoSignal /\ receivers' = 0
    /\ UNCHANGED <<service, built, below, startOnce>>

StopBelow(sig) ==
    /\ service = "stopping" /\ stopping = NoSignal
    /\ handle[sig] = "stopped" /\ below[sig] # "down"
    /\ below' = Becomes(below, sig, "down")
    /\ UNCHANGED <<vars, service, receivers, built, handle, startOnce, stopping>>

Stopped ==
    /\ service = "stopping" /\ Everyone(below, {"down"})
    /\ service' = "exited"
    /\ UNCHANGED <<vars, receivers, built, handle, below, startOnce, stopping>>

-----------------------------------------------------------------------------

SharedInit ==
    /\ Init
    /\ service = "building" /\ receivers = 0 /\ built = 0
    /\ handle = [sig \in Routes |-> "none"] /\ below = [sig \in Routes |-> "none"]
    /\ startOnce = "no" /\ stopping = NoSignal

SharedNext ==
    \/ \E sig \in Routes :
          Create(sig) \/ StartBelow(sig) \/ StartReceiver(sig) \/ StopReceiver(sig) \/ StopBelow(sig)
    \/ CreateFails \/ BeginStart \/ Started \/ BeginStop \/ ReceiverStopped \/ Stopped
    \/ \E r \in Req : ((\E m \in Messages : Arrive(r, m)) \/ Step(r)) /\ UNCHANGED sharedVars

SharedSpec == SharedInit /\ [][SharedNext]_allVars

-----------------------------------------------------------------------------
(* Properties. *)

SharedTypeOK ==
    /\ TypeOK
    /\ service \in {"building", "starting", "running", "stopping", "exited"}
    /\ receivers \in {0, 1} /\ built \in Nat /\ startOnce \in {"no", "ok", "failed"}
    /\ handle \in [Routes -> {"none", "created", "started", "failed", "stopped"}]
    /\ below \in [Routes -> {"none", "up", "down"}] /\ stopping \in Routes \cup {NoSignal}

\* No request's data is handed to a pipeline that has been shut down, whatever
\* order the service stops the pipelines in and whichever signal the request
\* is for, unless the receiver's Shutdown said it gave up waiting: the first
\* Shutdown stops the listener for all of them (sharedReceiver.Shutdown,
\* singlePort.Shutdown).
NoDataToStoppedPipeline ==
    [][\A r \in Req : outcome'[r] # outcome[r] => below[req[r].m.path] # "down" \/ stop = "late"]_allVars

\* However starting failed or the service was stopped, the process ends with
\* the one listener closed, or never opened, one receiver built at most and
\* the registry empty of what was stopped: a Shutdown that comes before its
\* own Start still stops what another pipeline started (stopOnce, release).
NothingLeftListening ==
    /\ built <= 1
    /\ service = "exited" =>
          /\ server \in {"none", "closed"} /\ (InFlight = {} \/ stop = "late")
          /\ Everyone(handle, {"stopped"}) => receivers = 0

=============================================================================
