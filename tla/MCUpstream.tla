----------------------------- MODULE MCUpstream -----------------------------
(* Environments for TLC: the variables that meet each other, in full.        *)
EXTENDS Upstream, TLC

SignalList == <<"traces", "logs", "metrics">>
PlainSettings ==
    [TIMEOUT    |-> [default |-> "10000", parse |-> "10000" :> 10000 @@ "5" :> 5 @@ "05" :> 5],
     QUEUE_SIZE |-> [default |-> "1000", parse |-> "1000" :> 1000]]

UrlTable ==
    LET url(scheme, host, whole) == [scheme |-> scheme, host |-> host, port |-> whole, only |-> whole, clean |-> TRUE]
    IN  "http://a:1" :> url("http", "a:1", TRUE) @@ "https://a:1" :> url("https", "a:1", TRUE)
        @@ "http://b:1" :> url("http", "b:1", TRUE) @@ "https://b:1" :> url("https", "b:1", TRUE)
        @@ "https://a/p" :> url("https", "a", FALSE)
        @@ "https://u@a:1" :> [url("https", "a:1", TRUE) EXCEPT !.clean = FALSE]
        @@ "ftp://a:1" :> url("ftp", "a:1", TRUE)
HeaderTable ==
    "" :> {} @@ "k=1" :> {<<"k", "1">>} @@ "k=2" :> {<<"k", "2">>}
    @@ "k=1,j=1" :> {<<"k", "1">>, <<"j", "1">>} @@ "j=1,k=1" :> {<<"k", "1">>, <<"j", "1">>}

\* A variable's forms: the base one, and those of two signals.
Forms(base, traces, logs) == [base : base, traces : traces, logs : logs, metrics : {""}]
Base(values) == Forms(values, {""}, {""})
Unset == Base({""})

\* Settings within one product, the others unset.
Env(endpoint, protocol, insecure, certificate, pair, headers, timeout, queue, skip, output) ==
    [ENDPOINT : endpoint, PROTOCOL : protocol, INSECURE : insecure, CERTIFICATE : certificate,
     CLIENT_CERTIFICATE : pair, CLIENT_KEY : pair, HEADERS : headers, TIMEOUT : timeout,
     QUEUE_SIZE : queue, SKIP_VERIFY : skip, LOG_OUTPUT : output]

Routing == Env(Forms({"", "http://a:1", "https://a:1", "https://a/p"}, {"", "http://a:1", "https://b:1"}, {"", "https://b:1"}),
               Forms({"", "http/protobuf"}, {"", "grpc", "http/protobuf"}, {""}),
               Forms({"", "true"}, {"", "True", "false"}, {"", "true"}),
               Unset, Unset, Unset, Unset, Unset, Unset, Unset)
Tls == Env(Forms({"http://a:1", "https://a:1"}, {"", "http://b:1", "https://b:1"}, {""}), Unset, Base({"", "true"}),
           Forms({"", "ca"}, {"", "ca2"}, {""}), Forms({"", "f"}, {"", "g"}, {""}),
           Unset, Unset, Unset, Base({"", "true"}), Base({"", "stdout"}))
Parsing == Env(Forms({"", "https://a:1", "https://u@a:1", "ftp://a:1", "a:1"}, {"", "https://a:1"}, {""}),
               Forms({"", "bad"}, {"", "grpc"}, {""}), Base({"", "bad"}), Unset, Unset,
               Forms({"", "k=1", "k=1,j=1", "bad"}, {"", "k=2", "j=1,k=1"}, {""}),
               Forms({"", "5"}, {"", "10000", "05", "bad"}, {""}),
               Base({"", "bad"}), Base({"", "bad"}), Unset)

EveryEnvironment == Routing \cup Tls \cup Parsing
=============================================================================
