----------------------------- MODULE SinglePort -----------------------------
(***************************************************************************)
(* The receiver (receiver/otlpsingleport): one listener that serves        *)
(* OTLP/gRPC and OTLP/HTTP.  A request passes confighttp's authenticator   *)
(* and decompressor, is dispatched to the gRPC server or to its path's     *)
(* handler, is read and decoded, and handed to the pipeline, whose error   *)
(* becomes the answer.  Requests run concurrently with each other and with *)
(* Shutdown, and clients may leave at any point.                           *)
(*                                                                         *)
(* Three counters share the requests: the authenticator's rejections, the  *)
(* receiver's requests_refused, and receiverhelper's accepted and refused. *)
(* They are kept here by the request that incremented them.                *)
(*                                                                         *)
(* What confighttp and grpc-go do is theirs and modelled from how the      *)
(* receiver uses them: authentication before decompression before          *)
(* dispatch; the body cap counting the raw stream; a stats.End after each  *)
(* RPC that a transport was made for.                                      *)
(***************************************************************************)
EXTENDS Integers, Sequences, Rules

CONSTANTS
    Req,        \* the requests, each made once
    Messages,   \* what a request may be
    Outcomes,   \* what the pipeline may return
    Routes,     \* the signals a pipeline is registered for
    BodyCap     \* max_request_body_size

GrpcFrameHeader == 5

\* Config.Validate.
ASSUME CapExceedsFrameHeader == BodyCap \in Nat /\ BodyCap > GrpcFrameHeader

VARIABLES
    server,     \* httpServer: "none", "serving", "draining" or "closed"
    stop,       \* how far Shutdown is: "no", "waiting", then its result
    req,        \* each request: where it is, its message, handledKey, the RPC's code and delay
    answer,     \* what its client was answered
    counted,    \* the increments it caused, in order
    outcome     \* what the pipeline returned for it

vars == <<server, stop, req, answer, counted, outcome>>

\* Delays of a RetryInfo, in milliseconds, or none.
NoDelay == -1
NotReadyRetryAfter == 5000

Codes == {"OK", "Canceled", "Unknown", "InvalidArgument", "DeadlineExceeded", "NotFound", "AlreadyExists",
          "PermissionDenied", "ResourceExhausted", "FailedPrecondition", "Aborted", "OutOfRange",
          "Unimplemented", "Internal", "Unavailable", "DataLoss", "Unauthenticated"}
Delays == Nat \cup {NoDelay}

\* What the receiver tells apart of a request, and of what a pipeline returns:
\* a status is an error's, so never OK's, and only a status carries a delay.
Message ==
    [http2 : BOOLEAN, type : {"otlp", "grpc", "grpc_prefix", "other"}, post : BOOLEAN, path : STRING,
     auth : {"ok", "not_ready", "refused"}, unzips : BOOLEAN, size : Nat, decodes : BOOLEAN, items : Nat]
Returned ==
    [kind : {"ok", "permanent", "transient"}, code : {"none"}, delay : {NoDelay}]
        \cup [kind : {"status"}, code : Codes \ {"OK"}, delay : Delays]

ASSUME MessagesAreTyped == Messages \subseteq Message
ASSUME OutcomesAreTyped == Outcomes \subseteq Returned

-----------------------------------------------------------------------------
(* errors.go *)

StatusAlwaysInternal(o) ==  \* mutant: IsPermanent not asked
    CASE o.kind = "status"    -> [code |-> o.code, delay |-> o.delay]
      [] o.kind = "ok"        -> [code |-> "OK", delay |-> NoDelay]
      [] OTHER                -> [code |-> "Internal", delay |-> NoDelay]

\* A status of the pipeline's error keeps its code and details; a permanent
\* error without one is Internal, any other Unavailable.
StatusFromConsumerError(o) ==
    CASE o.kind = "status"    -> [code |-> o.code, delay |-> o.delay]
      [] o.kind = "permanent" -> [code |-> "Internal", delay |-> NoDelay]
      [] o.kind = "transient" -> [code |-> "Unavailable", delay |-> NoDelay]
      [] o.kind = "ok"        -> [code |-> "OK", delay |-> NoDelay]

HttpStatusFromStatus(code) ==
    CASE code \in {"Canceled", "DeadlineExceeded", "Aborted", "OutOfRange", "Unavailable", "DataLoss"} -> 503
      [] code = "ResourceExhausted" -> 429
      [] code = "InvalidArgument"   -> 400
      [] code = "Unauthenticated"   -> 401
      [] code = "PermissionDenied"  -> 403
      [] code = "Unimplemented"     -> 404
      [] OTHER                      -> 500

\* An answer over HTTP, with Retry-After, in whole seconds, only where
\* writeStatus sets it; and a gRPC status in trailers, with its RetryInfo.
HttpAnswer(status, delay) ==
    [by |-> "http", status |-> status, code |-> "none",
     delay |-> IF status \in {429, 503} /\ delay # NoDelay THEN delay \div 1000 ELSE NoDelay]
GrpcAnswer(code, delay) == [by |-> "grpc", status |-> 200, code |-> code, delay |-> delay]

-----------------------------------------------------------------------------
(* The dispatcher, and what each transport checks before the pipeline. *)

IsGRPC(m) == m.http2 /\ m.type \in {"grpc", "grpc_prefix"}
Transport(m) == IF IsGRPC(m) THEN "grpc" ELSE "http"

\* ServeHTTP's 404, then exportHandler's early returns: the reason counted and
\* the status answered.
HttpChecks(m) == <<
    Rule(m.path \notin Routes, <<"unknown_path", 404>>),
    Rule(~m.post, <<"method", 405>>),
    Rule(m.type # "otlp", <<"media_type", 415>>),
    Rule(m.size > BodyCap, <<"body_too_large", 413>>),
    Rule(~m.decodes, <<"decode", 400>>)>>

WholeCap == BodyCap  \* mutant: the frame header forgotten

\* newGRPCServer's cap.
MaxRecvMsgSize == BodyCap - GrpcFrameHeader

\* grpc-go's refusals of a message: too large by its frame header, unreadable
\* past the listener's cap, or not an export request.
MessageChecks(m) == <<
    Rule(m.size > MaxRecvMsgSize, "ResourceExhausted"),
    Rule(m.size + GrpcFrameHeader > BodyCap, "Internal"),
    Rule(~m.decodes, "Internal")>>

\* grpcRefusalReason: {} for a code that is no refusal.
GrpcRefusalReason(code) ==
    CASE code = "Unimplemented"     -> {"unknown_path"}
      [] code = "ResourceExhausted" -> {"body_too_large"}
      [] code \in {"Canceled", "DeadlineExceeded", "OK"} -> {}
      [] OTHER                      -> {"decode"}

-----------------------------------------------------------------------------
(* A request. *)

NoMessage == [http2 |-> FALSE, type |-> "other", post |-> FALSE, path |-> "none", auth |-> "ok",
              unzips |-> TRUE, size |-> 0, decodes |-> FALSE, items |-> 0]
NoOutcome == [kind |-> "none", code |-> "none", delay |-> NoDelay]
NoAnswer == [by |-> "none", status |-> 0, code |-> "none", delay |-> NoDelay]
Idle == [at |-> "idle", m |-> NoMessage, handled |-> FALSE, code |-> "none", delay |-> NoDelay]

MoveTo(r, place) == req' = [req EXCEPT ![r].at = place]

\* The RPC's status is settled; its stats.End comes after.
EndRPC(r, code, delay, handled) ==
    req' = [req EXCEPT ![r] = [@ EXCEPT !.at = "ending", !.code = code, !.delay = delay, !.handled = handled]]

Count(r, counter, why) == counted' = [counted EXCEPT ![r] = Append(@, <<counter, Transport(req[r].m), why>>)]

Reply(r, a) ==
    /\ answer' = [answer EXCEPT ![r] = a]
    /\ MoveTo(r, "done")

Arrive(r, m) ==
    /\ server = "serving" /\ req[r].at = "idle"
    /\ req' = [req EXCEPT ![r] = [Idle EXCEPT !.at = "auth", !.m = m]]
    /\ UNCHANGED <<server, stop, answer, counted, outcome>>

\* The interceptor; its refusals, which the authenticator has counted, through
\* newErrorHandler's writeNotReady and writeUnauthenticated.
Authenticate(r) ==
    LET m == req[r].m
    IN  /\ req[r].at = "auth"
        /\ \/ m.auth = "ok" /\ MoveTo(r, "decompress") /\ UNCHANGED <<answer, counted>>
           \/ /\ m.auth = "not_ready" /\ Count(r, "rejections", "not_ready")
              /\ Reply(r, IF IsGRPC(m) THEN GrpcAnswer("Unavailable", NotReadyRetryAfter)
                                       ELSE HttpAnswer(503, NotReadyRetryAfter))
           \/ /\ m.auth = "refused" /\ Count(r, "rejections", "invalid_token")
              /\ Reply(r, IF IsGRPC(m) THEN GrpcAnswer("Unauthenticated", NoDelay)
                                       ELSE HttpAnswer(401, NoDelay))
        /\ UNCHANGED <<server, stop, outcome>>

\* The decompressor; newErrorHandler's default, the status handed on unchanged.
Decompress(r) ==
    LET m == req[r].m
    IN  /\ req[r].at = "decompress"
        /\ \/ m.unzips /\ MoveTo(r, Transport(m)) /\ UNCHANGED <<answer, counted>>
           \/ ~m.unzips /\ Count(r, "requests_refused", "decompress") /\ Reply(r, HttpAnswer(400, NoDelay))
        /\ UNCHANGED <<server, stop, outcome>>

\* OTLP/HTTP, up to the export.
ServeExport(r) ==
    LET verdict == FirstBroken(HttpChecks(req[r].m), <<>>)
    IN  /\ req[r].at = "http"
        /\ \/ verdict = <<>> /\ MoveTo(r, "export") /\ UNCHANGED <<answer, counted>>
           \/ /\ verdict # <<>> /\ Count(r, "requests_refused", verdict[1])
              /\ Reply(r, HttpAnswer(verdict[2], NoDelay))
        /\ UNCHANGED <<server, stop, outcome>>

\* The client stops sending: io.ReadAll's error, past the checks before it.
BodyAborted(r) ==
    LET m == req[r].m
    IN  /\ req[r].at = "http" /\ m.path \in Routes /\ m.post /\ m.type = "otlp"
        /\ Count(r, "requests_refused", "decode") /\ Reply(r, HttpAnswer(400, NoDelay))
        /\ UNCHANGED <<server, stop, outcome>>

\* grpc.Server.ServeHTTP makes no transport for a method other than POST, nor
\* for a content type that merely begins as gRPC's does: no RPC, no stats.
NoTransport(r) ==
    LET m == req[r].m
    IN  /\ req[r].at = "grpc" /\ (~m.post \/ m.type = "grpc_prefix")
        /\ Reply(r, HttpAnswer(IF m.post THEN 415 ELSE 405, NoDelay))
        /\ UNCHANGED <<server, stop, counted, outcome>>

\* TagRPC, when a transport was made.
TagRPC(r) ==
    /\ req[r].at = "grpc" /\ req[r].m.post /\ req[r].m.type = "grpc"
    /\ MoveTo(r, "rpc")
    /\ UNCHANGED <<server, stop, answer, counted, outcome>>

UnknownServiceUnmarked(r) ==  \* mutant: not marked as handled
    /\ req[r].at = "rpc" /\ req[r].m.path \notin Routes
    /\ Count(r, "requests_refused", "unknown_path")
    /\ EndRPC(r, "Unimplemented", NoDelay, FALSE)
    /\ UNCHANGED <<server, stop, answer, outcome>>
UnknownServiceNamed(r) ==  \* mutant: the text for the code
    /\ req[r].at = "rpc" /\ req[r].m.path \notin Routes
    /\ Count(r, "requests_refused", "unknown_path")
    /\ EndRPC(r, "unknown method", NoDelay, TRUE)
    /\ UNCHANGED <<server, stop, answer, outcome>>

\* unknownService: marked as handled, and counted here.
UnknownService(r) ==
    /\ req[r].at = "rpc" /\ req[r].m.path \notin Routes
    /\ Count(r, "requests_refused", "unknown_path")
    /\ EndRPC(r, "Unimplemented", NoDelay, TRUE)
    /\ UNCHANGED <<server, stop, answer, outcome>>

\* The message is read and decoded; only then markHandled, and the handler.
Receive(r) ==
    LET verdict == FirstBroken(MessageChecks(req[r].m), "OK")
    IN  /\ req[r].at = "rpc" /\ req[r].m.path \in Routes
        /\ \/ verdict = "OK" /\ req' = [req EXCEPT ![r] = [@ EXCEPT !.at = "export", !.handled = TRUE]]
           \/ verdict # "OK" /\ EndRPC(r, verdict, NoDelay, FALSE)
        /\ UNCHANGED <<server, stop, answer, counted, outcome>>

\* The client leaves, its deadline passes or grpcServer.Stop closes its
\* transport while the message is read.
RPCCancelled(r) ==
    /\ req[r].at = "rpc" /\ req[r].m.path \in Routes
    /\ \E code \in {"Canceled", "DeadlineExceeded"} : EndRPC(r, code, NoDelay, FALSE)
    /\ UNCHANGED <<server, stop, answer, counted, outcome>>

\* Export: an empty request succeeds unseen; any other is the pipeline's, and
\* receiverhelper's to count.  The 500 for a response that cannot be marshalled
\* has no action: the response is always the empty one, which can.
Export(r, o) ==
    LET m  == req[r].m
        st == StatusFromConsumerError(IF m.items = 0 THEN [o EXCEPT !.kind = "ok"] ELSE o)
    IN  /\ req[r].at = "export"
        /\ \/ m.items = 0 /\ UNCHANGED <<counted, outcome>>
           \/ /\ m.items # 0
              /\ Count(r, "receiver", IF o.kind = "ok" THEN "accepted" ELSE "refused")
              /\ outcome' = [outcome EXCEPT ![r] = o]
        /\ \/ IsGRPC(m) /\ EndRPC(r, st.code, st.delay, req[r].handled) /\ UNCHANGED answer
           \/ ~IsGRPC(m) /\ Reply(r, IF st.code = "OK" THEN HttpAnswer(200, NoDelay)
                                     ELSE HttpAnswer(HttpStatusFromStatus(st.code), st.delay))
        /\ UNCHANGED <<server, stop>>

\* stats.End: HandleRPC counts an RPC that failed before its handler.
HandleRPC(r) ==
    LET reason == IF req[r].handled THEN {} ELSE GrpcRefusalReason(req[r].code)
    IN  /\ req[r].at = "ending"
        /\ \/ reason = {} /\ UNCHANGED counted
           \/ \E why \in reason : Count(r, "requests_refused", why)
        /\ Reply(r, GrpcAnswer(req[r].code, req[r].delay))
        /\ UNCHANGED <<server, stop, outcome>>

Step(r) ==
    \/ Authenticate(r) \/ Decompress(r)
    \/ ServeExport(r) \/ BodyAborted(r)
    \/ NoTransport(r) \/ TagRPC(r) \/ UnknownService(r) \/ Receive(r) \/ RPCCancelled(r)
    \/ \E o \in Outcomes : Export(r, o)
    \/ HandleRPC(r)

-----------------------------------------------------------------------------
(* The server. *)

InFlight == {r \in Req : req[r].at \notin {"idle", "done"}}

\* Start: the listener opens, or it does not and no server is kept.
Start ==
    /\ server = "none" /\ stop = "no"
    /\ server' = "serving"
    /\ UNCHANGED <<stop, req, answer, counted, outcome>>

\* Shutdown: with a server it stops accepting and waits; then the gRPC server
\* is stopped.  Without one there is nothing to wait for.
Shutdown ==
    /\ stop = "no"
    /\ \/ server = "serving" /\ server' = "draining" /\ stop' = "waiting"
       \/ server = "none" /\ stop' = "ok" /\ UNCHANGED server
    /\ UNCHANGED <<req, answer, counted, outcome>>

\* http.Server.Shutdown returns: every request over, or its context's error.
ShutdownReturns ==
    /\ stop = "waiting"
    /\ \/ InFlight = {} /\ stop' = "ok"
       \/ stop' = "late"
    /\ server' = "closed"
    /\ UNCHANGED <<req, answer, counted, outcome>>

Init ==
    /\ server = "none" /\ stop = "no"
    /\ req = [r \in Req |-> Idle]
    /\ answer = [r \in Req |-> NoAnswer]
    /\ counted = [r \in Req |-> <<>>]
    /\ outcome = [r \in Req |-> NoOutcome]

Next ==
    \/ Start \/ Shutdown \/ ShutdownReturns
    \/ \E r \in Req : (\E m \in Messages : Arrive(r, m)) \/ Step(r)

Spec == Init /\ [][Next]_vars

-----------------------------------------------------------------------------
(* Properties. *)

Places == {"idle", "auth", "decompress", "http", "grpc", "rpc", "export", "ending", "done"}
Request == [at : Places, m : Messages \cup {NoMessage}, handled : BOOLEAN, code : Codes \cup {"none"}, delay : Delays]
Answer == [by : {"none", "http", "grpc"}, status : Nat, code : Codes \cup {"none"}, delay : Delays]
Reasons == {"not_ready", "invalid_token", "decompress", "unknown_path", "method", "media_type", "body_too_large",
            "decode", "accepted", "refused"}
Increment == {"rejections", "requests_refused", "receiver"} \X {"grpc", "http"} \X Reasons

TypeOK ==
    /\ server \in {"none", "serving", "draining", "closed"} /\ stop \in {"no", "waiting", "ok", "late"}
    /\ req \in [Req -> Request]
    /\ answer \in [Req -> Answer]
    /\ counted \in [Req -> Seq(Increment)]
    /\ outcome \in [Req -> Outcomes \cup {NoOutcome}]

Done == {r \in Req : req[r].at = "done"}
ReachedPipeline(r) == outcome[r] # NoOutcome
Success(a) == a.code = "OK" \/ (a.by = "http" /\ a.status = 200)

\* Failures nobody refused: an RPC its client gave up (grpcRefusalReason).
GivenUp(a) == a.by = "grpc" /\ a.code \in {"Canceled", "DeadlineExceeded"}
\* Failures grpc-go answers without an RPC.
OutsideRPC(r) == IsGRPC(req[r].m) /\ answer[r].status \in {405, 415}

\* Who is to count a request: the authenticator what it refused,
\* receiverhelper what reached the pipeline, the receiver what did not.
CountedBy(r) ==
    IF req[r].m.auth # "ok" THEN <<"rejections">>
    ELSE IF ReachedPipeline(r) THEN <<"receiver">>
    ELSE IF Success(answer[r]) THEN <<>> ELSE <<"requests_refused">>

Counters(r) == [i \in DOMAIN counted[r] |-> counted[r][i][1]]

OnceCounted(r) ==
    \/ Counters(r) = CountedBy(r)
    \/ (GivenUp(answer[r]) \/ OutsideRPC(r)) /\ counted[r] = <<>>

\* A request is counted once and by whom it concerns, though up to three of the
\* error handler, unknownService, the stats handler and receiverhelper see it,
\* in either transport (markHandled, HandleRPC, newErrorHandler).  Two kinds may
\* go uncounted, and are never counted twice: an RPC its client gave up, and
\* what is taken for gRPC and refused before it becomes an RPC.
CountedOnce == \A r \in Done : OnceCounted(r)

TooLarge(m) == m.size > IF IsGRPC(m) THEN BodyCap - GrpcFrameHeader ELSE BodyCap

Capped(r) ==
    LET m        == req[r].m
        exceeded == \E i \in DOMAIN counted[r] : counted[r][i][3] = "body_too_large"
        answered == answer[r].status = 413 \/ (answer[r].code = "ResourceExhausted" /\ ~ReachedPipeline(r))
    IN  /\ TooLarge(m) => ~ReachedPipeline(r)
        /\ exceeded <=> answered
        /\ exceeded => TooLarge(m)
        /\ TooLarge(m) /\ m.decodes /\ ~exceeded =>
              GivenUp(answer[r]) \/ answer[r].status \in {400, 401, 404, 405, 415, 503}
                  \/ answer[r].code \in {"Unimplemented", "Unauthenticated", "Unavailable"}

\* One cap, both transports: a message beyond it never reaches the pipeline
\* and is answered 413 or ResourceExhausted, and one within it never is by the
\* receiver (newGRPCServer's cap less the frame header, exportHandler).
OneCap == \A r \in Done : Capped(r)

\* What an OTLP client retries: over gRPC, ResourceExhausted only with a delay.
Retryable(a) ==
    IF a.by = "http" THEN a.status \in {429, 502, 503, 504}
    ELSE \/ a.code \in {"Canceled", "DeadlineExceeded", "Aborted", "OutOfRange", "Unavailable", "DataLoss"}
         \/ a.code = "ResourceExhausted" /\ a.delay # NoDelay

Told(r) ==
    LET a     == answer[r]
        o     == outcome[r]
        asked == IF req[r].m.auth = "not_ready" THEN NotReadyRetryAfter ELSE o.delay
        told  == IF a.by = "http" THEN 1000 * a.delay ELSE a.delay
    IN  /\ Success(a) <=> o.kind = "ok" \/ (~ReachedPipeline(r) /\ counted[r] = <<>>
                                             /\ ~GivenUp(a) /\ ~OutsideRPC(r))
        /\ o.kind = "transient" \/ req[r].m.auth = "not_ready" => Retryable(a)
        /\ o.kind = "permanent" => ~Retryable(a)
        /\ Retryable(a) /\ asked # NoDelay => a.delay # NoDelay /\ asked - 1000 < told /\ told <= asked

\* The client is told what became of its data, in either transport: success
\* only if the pipeline accepted it or it was empty; a transient failure, not
\* ready among them, as one to retry, after the delay asked for, which over HTTP
\* is less than a second short and never longer; a permanent one as one not to
\* (statusFromConsumerError, httpStatusFromStatus, writeStatus, writeNotReady).
AnswerTellsTheOutcome == \A r \in Done : Told(r)

=============================================================================
