-------------------------- MODULE MCSharedReceiver --------------------------
(* Messages and outcomes for TLC. *)
EXTENDS SharedReceiver

CONSTANT r1

\* Every combination of what the receiver tells apart once a request is
\* authenticated and unzipped, sizes around both caps; and those that are not.
Served ==
    [http2 : BOOLEAN, type : {"otlp", "grpc", "grpc_prefix", "other"}, post : BOOLEAN,
     path : {"traces", "logs", "metrics"}, auth : {"ok"}, unzips : {TRUE}, size : {0, 2, 3, 7, 8},
     decodes : BOOLEAN, items : {0, 1}]
Refused ==
    [http2 : BOOLEAN, type : {"otlp", "grpc", "grpc_prefix", "other"}, post : BOOLEAN, path : {"traces", "metrics"},
     auth : {"ok", "refused", "not_ready"}, unzips : BOOLEAN, size : {2, 8}, decodes : {TRUE}, items : {1}]
EveryMessage == Served \cup {m \in Refused : m.auth # "ok" \/ ~m.unzips}

Outcome(kind, code, delay) == [kind |-> kind, code |-> code, delay |-> delay]
Plain == {Outcome(k, "none", NoDelay) : k \in {"ok", "permanent", "transient"}}
EveryOutcome == Plain \cup {Outcome("status", c, d) : c \in Codes \ {"OK"}, d \in {NoDelay, 500, 2000}}
=============================================================================
