------------------------ MODULE SharedReceiverProofs ------------------------
(****************************************************************************)
(* Proofs about the receiver, alone (Spec of SinglePort) and as the service *)
(* drives it (SharedSpec), for any signals, requests and messages.  What is *)
(* shown of the first holds of the second too: every step of the service is *)
(* one of the receiver's steps or none.                                     *)
(****************************************************************************)
EXTENDS SharedReceiver, TLAPS

Untouched(r) == answer[r] = NoAnswer /\ counted[r] = <<>> /\ outcome[r] = NoOutcome

\* Up to the pipeline a request has left no trace; what it has passed is known
\* by where it is.
Phase(r) ==
    LET m == req[r].m
    IN  /\ req[r].at # "idle" => m \in Messages
        /\ req[r].at \notin {"idle", "auth", "done"} => m.auth = "ok"
        /\ req[r].at \notin {"ending", "done"} => Untouched(r)
        /\ req[r].at \notin {"export", "ending", "done"} => ~req[r].handled
        /\ req[r].at = "http" => ~IsGRPC(m)
        /\ req[r].at \in {"grpc", "rpc", "ending"} => IsGRPC(m)
        /\ req[r].at = "export" => m.path \in Routes /\ ~TooLarge(m) /\ (req[r].handled <=> IsGRPC(m))

\* How an RPC's status was settled, before its stats.End.
Unknown(r) ==
    /\ req[r].handled /\ req[r].code = "Unimplemented" /\ req[r].delay = NoDelay
    /\ counted[r] = <<<<"requests_refused", "grpc", "unknown_path">>>> /\ outcome[r] = NoOutcome
NotHandled(r) ==
    /\ ~req[r].handled /\ req[r].delay = NoDelay /\ counted[r] = <<>> /\ outcome[r] = NoOutcome
    /\ \/ req[r].code = "ResourceExhausted" /\ TooLarge(req[r].m)
       \/ req[r].code = "Internal" /\ (~TooLarge(req[r].m) /\ ~req[r].m.decodes)
       \/ req[r].code \in {"Canceled", "DeadlineExceeded"}
Exported(r) ==
    /\ req[r].handled /\ ~TooLarge(req[r].m)
    /\ \/ req[r].code = "OK" /\ req[r].delay = NoDelay /\ counted[r] = <<>> /\ outcome[r] = NoOutcome
       \/ /\ outcome[r] \in Outcomes
          /\ \E why \in {"accepted", "refused"} : counted[r] = <<<<"receiver", "grpc", why>>>>
          /\ req[r].code = StatusFromConsumerError(outcome[r]).code
          /\ req[r].delay = StatusFromConsumerError(outcome[r]).delay
Settled(r) ==
    req[r].at = "ending" => answer[r] = NoAnswer /\ (Unknown(r) \/ NotHandled(r) \/ Exported(r))

Final(r) == req[r].at = "done" => OnceCounted(r) /\ Capped(r) /\ Told(r)

IInv == TypeOK /\ \A r \in Req : Phase(r) /\ Settled(r) /\ Final(r)

-----------------------------------------------------------------------------
(* The checks of the two transports. *)

\* exportHandler's verdict: nothing against a request that may be exported, and
\* the cap named only when it is exceeded.
LEMMA HttpVerdict ==
    ASSUME NEW m \in Message
    PROVE  LET verdict == FirstBroken(HttpChecks(m), <<>>)
           IN  \/ verdict = <<>> /\ m.path \in Routes /\ m.size <= BodyCap
               \/ verdict = <<"unknown_path", 404>>
               \/ verdict = <<"method", 405>>
               \/ verdict = <<"media_type", 415>>
               \/ verdict = <<"body_too_large", 413>> /\ m.size > BodyCap
               \/ verdict = <<"decode", 400>>
  <1> DEFINE rules == HttpChecks(m)
             Clear(n) == \A j \in DOMAIN rules : j < n => ~rules[j].broken
  <1>1. DOMAIN rules = 1..5
    BY DEF HttpChecks
  <1>2. /\ rules[1].says = <<"unknown_path", 404>> /\ rules[2].says = <<"method", 405>>
        /\ rules[3].says = <<"media_type", 415>> /\ rules[4].says = <<"body_too_large", 413>>
        /\ rules[5].says = <<"decode", 400>>
    BY DEF HttpChecks, Rule
  <1>a. rules[1].broken <=> m.path \notin Routes
    BY DEF HttpChecks, Rule
  <1>b. rules[4].broken <=> m.size > BodyCap
    BY DEF HttpChecks, Rule
  <1> HIDE DEF rules
  <1>3. ASSUME NEW i \in 1..5, rules[i].broken, Clear(i) PROVE FirstBroken(rules, <<>>) = rules[i].says
    <2>1. DOMAIN rules \subseteq Int /\ i \in DOMAIN rules
      BY <1>1
    <2>2. QED BY <2>1, <1>3, BrokenFirst, Zenon
  <1>4. CASE rules[1].broken
    <2>1. Clear(1)
      BY <1>1, <1>4
    <2>2. FirstBroken(rules, <<>>) = rules[1].says
      BY <2>1, <1>3, <1>4
    <2>3. FirstBroken(rules, <<>>) = <<"unknown_path", 404>>
      BY <1>2, <2>2
    <2>4. QED BY <2>3 DEF rules
  <1>5. CASE ~rules[1].broken /\ rules[2].broken
    <2>1. Clear(2)
      BY <1>1, <1>5
    <2>2. FirstBroken(rules, <<>>) = rules[2].says
      BY <2>1, <1>3, <1>5
    <2>3. FirstBroken(rules, <<>>) = <<"method", 405>>
      BY <1>2, <2>2
    <2>4. QED BY <2>3 DEF rules
  <1>6. CASE ~rules[1].broken /\ ~rules[2].broken /\ rules[3].broken
    <2>1. Clear(3)
      BY <1>1, <1>6
    <2>2. FirstBroken(rules, <<>>) = rules[3].says
      BY <2>1, <1>3, <1>6
    <2>3. FirstBroken(rules, <<>>) = <<"media_type", 415>>
      BY <1>2, <2>2
    <2>4. QED BY <2>3 DEF rules
  <1>7. CASE ~rules[1].broken /\ ~rules[2].broken /\ ~rules[3].broken /\ rules[4].broken
    <2>1. Clear(4)
      BY <1>1, <1>7
    <2>2. FirstBroken(rules, <<>>) = rules[4].says
      BY <2>1, <1>3, <1>7
    <2>3. FirstBroken(rules, <<>>) = <<"body_too_large", 413>>
      BY <1>2, <2>2
    <2>4. QED BY <2>3, <1>b, <1>7 DEF rules
  <1>8. CASE ~rules[1].broken /\ ~rules[2].broken /\ ~rules[3].broken /\ ~rules[4].broken /\ rules[5].broken
    <2>1. Clear(5)
      BY <1>1, <1>8
    <2>2. FirstBroken(rules, <<>>) = rules[5].says
      BY <2>1, <1>3, <1>8
    <2>3. FirstBroken(rules, <<>>) = <<"decode", 400>>
      BY <1>2, <2>2
    <2>4. QED BY <2>3 DEF rules
  <1>9. CASE \A i \in 1..5 : ~rules[i].broken
    <2>1. FirstBroken(rules, <<>>) = <<>>
      BY <1>1, <1>9, NoneBroken
    <2>2. m.path \in Routes /\ m.size <= BodyCap
      BY <1>a, <1>b, <1>9, CapExceedsFrameHeader DEF Message
    <2>3. QED BY <2>1, <2>2 DEF rules
  <1>10. QED BY <1>4, <1>5, <1>6, <1>7, <1>8, <1>9

\* grpc-go's verdict on a message: the cap is the listener's less the frame
\* header, so the listener's own never cuts a message short.
LEMMA MessageVerdict ==
    ASSUME NEW m \in Message
    PROVE  LET verdict == FirstBroken(MessageChecks(m), "OK")
           IN  \/ verdict = "OK" /\ m.size <= BodyCap - GrpcFrameHeader
               \/ verdict = "ResourceExhausted" /\ m.size > BodyCap - GrpcFrameHeader
               \/ verdict = "Internal" /\ m.size <= BodyCap - GrpcFrameHeader /\ ~m.decodes
  <1> DEFINE rules == MessageChecks(m)
             Clear(n) == \A j \in DOMAIN rules : j < n => ~rules[j].broken
  <1>1. DOMAIN rules = 1..3
    BY DEF MessageChecks
  <1>a. rules[1].broken <=> m.size > MaxRecvMsgSize
    BY DEF MessageChecks, Rule
  <1>b. rules[2].broken <=> m.size + GrpcFrameHeader > BodyCap
    BY DEF MessageChecks, Rule
  <1>c. rules[3].broken <=> ~m.decodes
    BY DEF MessageChecks, Rule
  <1>d. rules[1].says = "ResourceExhausted" /\ rules[2].says = "Internal" /\ rules[3].says = "Internal"
    BY DEF MessageChecks, Rule
  <1> HIDE DEF rules
  <1>2. /\ rules[1].broken <=> m.size > BodyCap - GrpcFrameHeader
        /\ rules[2].broken <=> m.size > BodyCap - GrpcFrameHeader
        /\ rules[3].broken <=> ~m.decodes
        /\ ~rules[1].broken => m.size <= BodyCap - GrpcFrameHeader
        /\ rules[1].says = "ResourceExhausted" /\ rules[2].says = "Internal" /\ rules[3].says = "Internal"
    BY <1>a, <1>b, <1>c, <1>d, CapExceedsFrameHeader DEF MaxRecvMsgSize, GrpcFrameHeader, Message
  <1>3. ASSUME NEW i \in 1..3, rules[i].broken, Clear(i) PROVE FirstBroken(rules, "OK") = rules[i].says
    <2>1. DOMAIN rules \subseteq Int /\ i \in DOMAIN rules
      BY <1>1
    <2>2. QED BY <2>1, <1>3, BrokenFirst, Zenon
  <1>4. CASE rules[1].broken
    BY <1>1, <1>2, <1>3, <1>4 DEF rules
  <1>5. CASE ~rules[1].broken /\ ~rules[2].broken /\ rules[3].broken
    BY <1>1, <1>2, <1>3, <1>5 DEF rules
  <1>6. CASE \A i \in 1..3 : ~rules[i].broken
    <2>1. FirstBroken(rules, "OK") = "OK"
      BY <1>1, <1>6, NoneBroken
    <2>2. QED BY <2>1, <1>6, <1>2 DEF rules
  <1>7. QED BY <1>2, <1>4, <1>5, <1>6

-----------------------------------------------------------------------------
(* What stays, and what a step has to show. *)

\* A request nothing happened to keeps what is known of it.
LEMMA Undisturbed ==
    ASSUME NEW j \in Req, Phase(j), Settled(j), Final(j),
           req'[j] = req[j], answer'[j] = answer[j], counted'[j] = counted[j], outcome'[j] = outcome[j]
    PROVE  Phase(j)' /\ Settled(j)' /\ Final(j)'
  <1>1. Phase(j)'
    BY DEF Phase, Untouched
  <1>2. Settled(j)'
    BY DEF Settled, Unknown, NotHandled, Exported
  <1>3. Final(j)'
    <2>1. OnceCounted(j)' = OnceCounted(j)
      BY DEF OnceCounted, Counters, CountedBy, ReachedPipeline, OutsideRPC
    <2>2. Capped(j)' = Capped(j)
      BY DEF Capped, ReachedPipeline
    <2>3. Told(j)' = Told(j)
      BY DEF Told, ReachedPipeline, OutsideRPC
    <2>4. QED BY <2>1, <2>2, <2>3 DEF Final
  <1>4. QED BY <1>1, <1>2, <1>3

Updated(f, r, v) == [f EXCEPT ![r] = v]

\* A step of one request: its new record, answer, increments and outcome.
LEMMA OneRequest ==
    ASSUME IInv, NEW r \in Req, NEW q \in Request, NEW a \in Answer, NEW c \in Seq(Increment),
           NEW o \in Outcomes \cup {NoOutcome},
           req' = [req EXCEPT ![r] = q], answer' = [answer EXCEPT ![r] = a],
           counted' = [counted EXCEPT ![r] = c], outcome' = [outcome EXCEPT ![r] = o],
           UNCHANGED <<server, stop>>, Phase(r)', Settled(r)', Final(r)'
    PROVE  IInv'
  <1> USE DEF IInv
  <1>1. TypeOK'
    BY DEF TypeOK
  <1>2. ASSUME NEW j \in Req PROVE Phase(j)' /\ Settled(j)' /\ Final(j)'
    <2>1. CASE j = r
      BY <2>1
    <2>2. CASE j # r
      <3>1. req'[j] = req[j] /\ answer'[j] = answer[j] /\ counted'[j] = counted[j] /\ outcome'[j] = outcome[j]
        BY <2>2 DEF TypeOK
      <3>2. QED BY <3>1, Undisturbed
    <2>3. QED BY <2>1, <2>2
  <1>3. QED BY <1>1, <1>2

\* One increment, or none.
LEMMA CountedNone ==
    ASSUME NEW r \in Req, counted'[r] = <<>>
    PROVE  Counters(r)' = <<>> /\ ~(\E i \in DOMAIN counted'[r] : counted'[r][i][3] = "body_too_large")
  BY DEF Counters

Incremented(r, c, t, w) == counted'[r] = <<<<c, t, w>>>>

LEMMA CountedOne ==
    ASSUME NEW r \in Req, NEW c, NEW t, NEW w, Incremented(r, c, t, w)
    PROVE  /\ Counters(r)' = <<c>> /\ counted'[r] # <<>>
           /\ (\E i \in DOMAIN counted'[r] : counted'[r][i][3] = "body_too_large") <=> w = "body_too_large"
  <1>1. DOMAIN counted'[r] = {1} /\ counted'[r][1][1] = c /\ counted'[r][1][3] = w
    BY DEF Incremented
  <1>2. Counters(r)' = <<c>>
    BY <1>1 DEF Counters
  <1>3. QED BY <1>1, <1>2

\* Nothing counted before: the first increment.
LEMMA FirstIncrement ==
    ASSUME IInv, NEW r \in Req, counted[r] = <<>>, NEW c \in {"rejections", "requests_refused", "receiver"},
           NEW why \in Reasons, Count(r, c, why)
    PROVE  /\ counted' = Updated(counted, r, <<<<c, Transport(req[r].m), why>>>>)
           /\ <<<<c, Transport(req[r].m), why>>>> \in Seq(Increment)
  <1>1. Append(counted[r], <<c, Transport(req[r].m), why>>) = <<<<c, Transport(req[r].m), why>>>>
    OBVIOUS
  <1>2. <<c, Transport(req[r].m), why>> \in Increment
    BY DEF Increment, Transport
  <1>3. QED BY <1>1, <1>2 DEF Count, Updated

-----------------------------------------------------------------------------
(* The answers. *)

LEMMA HttpAnswerType ==
    ASSUME NEW s \in Nat, NEW d \in Delays
    PROVE  /\ HttpAnswer(s, d) \in Answer
           /\ HttpAnswer(s, d).by = "http" /\ HttpAnswer(s, d).status = s /\ HttpAnswer(s, d).code = "none"
           /\ s \in {429, 503} /\ d # NoDelay => HttpAnswer(s, d).delay = d \div 1000
  <1> DEFINE told == IF s \in {429, 503} /\ d # NoDelay THEN d \div 1000 ELSE NoDelay
  <1>1. told \in Delays
    BY DEF Delays
  <1>2. HttpAnswer(s, d) = [by |-> "http", status |-> s, code |-> "none", delay |-> told]
    BY DEF HttpAnswer
  <1> HIDE DEF told
  <1>3. /\ HttpAnswer(s, d) \in Answer
        /\ HttpAnswer(s, d).by = "http" /\ HttpAnswer(s, d).status = s /\ HttpAnswer(s, d).code = "none"
        /\ HttpAnswer(s, d).delay = told
    BY <1>1, <1>2 DEF Answer
  <1>4. QED BY <1>3 DEF told

LEMMA NoDelayType == NoDelay \in Delays /\ NotReadyRetryAfter \in Delays
  BY DEF Delays, NotReadyRetryAfter

LEMMA GrpcAnswerType ==
    ASSUME NEW c \in Codes, NEW d \in Delays
    PROVE  /\ GrpcAnswer(c, d) \in Answer
           /\ GrpcAnswer(c, d).by = "grpc" /\ GrpcAnswer(c, d).status = 200
           /\ GrpcAnswer(c, d).code = c /\ GrpcAnswer(c, d).delay = d
  BY DEF GrpcAnswer, Answer, Delays

\* What a request that ended is known by.
Ended(r, m, a, o) ==
    req'[r].m = m /\ answer'[r] = a /\ outcome'[r] = o

\* The authenticator's refusals.
LEMMA RejectedEnds ==
    ASSUME NEW r \in Req, NEW m \in Message, NEW a, NEW t, NEW w, w # "body_too_large",
           Ended(r, m, a, NoOutcome), Incremented(r, "rejections", t, w),
           \/ m.auth = "not_ready" /\ a = GrpcAnswer("Unavailable", NotReadyRetryAfter)
           \/ m.auth = "not_ready" /\ a = HttpAnswer(503, NotReadyRetryAfter)
           \/ m.auth = "refused" /\ a = GrpcAnswer("Unauthenticated", NoDelay)
           \/ m.auth = "refused" /\ a = HttpAnswer(401, NoDelay)
    PROVE  OnceCounted(r)' /\ Capped(r)' /\ Told(r)'
  <1> USE DEF Ended
  <1>1. outcome'[r] = NoOutcome /\ NoOutcome.kind = "none" /\ NoOutcome.delay = NoDelay
    BY DEF NoOutcome
  <1>2. \/ m.auth = "not_ready" /\ a.by = "grpc" /\ a.status = 200 /\ a.code = "Unavailable" /\ a.delay = 5000
        \/ m.auth = "not_ready" /\ a.by = "http" /\ a.status = 503 /\ a.code = "none" /\ a.delay = 5
        \/ m.auth = "refused" /\ a.by = "grpc" /\ a.status = 200 /\ a.code = "Unauthenticated"
        \/ m.auth = "refused" /\ a.by = "http" /\ a.status = 401 /\ a.code = "none"
    <2>1. CASE a = HttpAnswer(503, NotReadyRetryAfter) /\ m.auth = "not_ready"
      <3>1. 5000 \div 1000 = 5 /\ 5000 # NoDelay /\ 5000 \in Delays
        BY DEF NoDelay, Delays
      <3>2. QED BY <2>1, <3>1, HttpAnswerType DEF NotReadyRetryAfter
    <2>2. CASE a # HttpAnswer(503, NotReadyRetryAfter) \/ m.auth # "not_ready"
      BY <2>2 DEF GrpcAnswer, HttpAnswer, NotReadyRetryAfter
    <2>3. QED BY <2>1, <2>2
  <1>c. /\ Counters(r)' = <<"rejections">> /\ counted'[r] # <<>>
        /\ ~(\E i \in DOMAIN counted'[r] : counted'[r][i][3] = "body_too_large")
    BY CountedOne
  <1>3. OnceCounted(r)'
    <2>1. CountedBy(r)' = <<"rejections">>
      BY <1>2 DEF CountedBy
    <2>2. QED BY <1>c, <2>1 DEF OnceCounted
  <1>4. Capped(r)'
    BY <1>1, <1>2, <1>c DEF Capped, ReachedPipeline
  <1>5. Told(r)'
    BY <1>1, <1>2, <1>c DEF Told, ReachedPipeline, Success, Retryable, NotReadyRetryAfter, NoDelay
  <1>6. QED BY <1>3, <1>4, <1>5

RefusalStatus == {400, 404, 405, 413, 415}

\* 413 is the cap's, and only for what exceeds it.
CapNamed(w, s, m) == (w = "body_too_large" <=> s = 413) /\ (s = 413 => TooLarge(m))

\* The receiver's own refusals over HTTP.
LEMMA HttpRefusalEnds ==
    ASSUME NEW r \in Req, NEW m \in Message, NEW t, NEW w, NEW s \in RefusalStatus, m.auth = "ok",
           Ended(r, m, HttpAnswer(s, NoDelay), NoOutcome), Incremented(r, "requests_refused", t, w),
           CapNamed(w, s, m)
    PROVE  OnceCounted(r)' /\ Capped(r)' /\ Told(r)'
  <1> DEFINE a == answer'[r]
  <1>1. outcome'[r] = NoOutcome /\ NoOutcome.kind = "none" /\ NoOutcome.delay = NoDelay
    BY DEF NoOutcome, Ended
  <1>2. req'[r].m = m /\ a.by = "http" /\ a.status = s /\ a.code = "none"
    BY DEF RefusalStatus, HttpAnswer, Ended
  <1>c. /\ Counters(r)' = <<"requests_refused">> /\ counted'[r] # <<>>
        /\ (\E i \in DOMAIN counted'[r] : counted'[r][i][3] = "body_too_large") <=> w = "body_too_large"
    BY CountedOne
  <1>3. OnceCounted(r)'
    <2>1. CountedBy(r)' = <<"requests_refused">>
      BY <1>1, <1>2 DEF RefusalStatus, CountedBy, ReachedPipeline, Success
    <2>2. QED BY <1>c, <2>1 DEF OnceCounted
  <1>4. Capped(r)'
    BY <1>1, <1>2, <1>c DEF RefusalStatus, Capped, ReachedPipeline, CapNamed
  <1>5. Told(r)'
    BY <1>1, <1>2, <1>c DEF RefusalStatus, Told, ReachedPipeline, Success, Retryable
  <1>6. QED BY <1>3, <1>4, <1>5

\* grpc-go's refusals outside an RPC.
LEMMA NoTransportEnds ==
    ASSUME NEW r \in Req, NEW m \in Message, NEW s \in {405, 415}, m.auth = "ok", IsGRPC(m),
           Ended(r, m, HttpAnswer(s, NoDelay), NoOutcome), counted'[r] = <<>>
    PROVE  OnceCounted(r)' /\ Capped(r)' /\ Told(r)'
  <1> DEFINE a == answer'[r]
  <1>1. outcome'[r] = NoOutcome /\ NoOutcome.kind = "none" /\ NoOutcome.delay = NoDelay
    BY DEF NoOutcome, Ended
  <1>2. req'[r].m = m /\ a.by = "http" /\ a.status = s /\ a.code = "none"
    BY DEF HttpAnswer, Ended
  <1>a. OutsideRPC(r)'
    BY <1>2 DEF OutsideRPC
  <1>3. OnceCounted(r)'
    BY <1>a DEF OnceCounted
  <1>4. Capped(r)'
    BY <1>1, <1>2, CountedNone DEF Capped, ReachedPipeline
  <1>5. Told(r)'
    BY <1>1, <1>2, <1>a DEF Told, ReachedPipeline, Success, Retryable
  <1>6. QED BY <1>3, <1>4, <1>5

-----------------------------------------------------------------------------
(* What the pipeline returned, as a status and over HTTP. *)

LEMMA ConsumerStatus ==
    ASSUME NEW o \in Outcomes
    PROVE  LET st == StatusFromConsumerError(o)
           IN  /\ st.code \in Codes /\ st.delay \in Delays
               /\ o.kind \in {"ok", "permanent", "transient", "status"} /\ o # NoOutcome
               /\ o.kind = "ok" <=> st.code = "OK"
               /\ o.kind = "permanent" => st.code = "Internal"
               /\ o.kind = "transient" => st.code = "Unavailable"
               /\ o.kind # "status" => st.delay = NoDelay /\ o.delay = NoDelay
               /\ o.kind = "status" => st.delay = o.delay /\ o.delay \in Delays
  <1> DEFINE st == StatusFromConsumerError(o)
  <1>1. \/ o \in [kind : {"ok", "permanent", "transient"}, code : {"none"}, delay : {NoDelay}]
        \/ o \in [kind : {"status"}, code : Codes \ {"OK"}, delay : Delays]
    BY OutcomesAreTyped DEF Returned
  <1>2. o # NoOutcome
    BY <1>1 DEF NoOutcome
  <1>3. CASE o.kind = "status"
    <2>1. st = [code |-> o.code, delay |-> o.delay]
      BY <1>3 DEF StatusFromConsumerError
    <2>2. o.code \in Codes \ {"OK"} /\ o.delay \in Delays
      BY <1>1, <1>3
    <2>3. st.code \in Codes /\ st.code # "OK" /\ st.delay = o.delay
      BY <2>1, <2>2
    <2>4. QED BY <1>2, <1>3, <2>2, <2>3
  <1>4. CASE o.kind # "status"
    <2>1. o.kind \in {"ok", "permanent", "transient"} /\ o.delay = NoDelay
      BY <1>1, <1>4
    <2>2. /\ o.kind = "ok" => st = [code |-> "OK", delay |-> NoDelay]
          /\ o.kind = "permanent" => st = [code |-> "Internal", delay |-> NoDelay]
          /\ o.kind = "transient" => st = [code |-> "Unavailable", delay |-> NoDelay]
      BY <2>1 DEF StatusFromConsumerError
    <2>3. /\ o.kind = "ok" => st.code = "OK" /\ st.delay = NoDelay
          /\ o.kind = "permanent" => st.code = "Internal" /\ st.delay = NoDelay
          /\ o.kind = "transient" => st.code = "Unavailable" /\ st.delay = NoDelay
      BY <2>2
    <2>4. QED BY <1>2, <1>4, <2>1, <2>3 DEF Codes, Delays
  <1>5. QED BY <1>3, <1>4

LEMMA StatusOverHttp ==
    ASSUME NEW code \in Codes
    PROVE  /\ HttpStatusFromStatus(code) \in {400, 401, 403, 404, 429, 500, 503}
           /\ code = "Unavailable" => HttpStatusFromStatus(code) = 503
           /\ code = "Internal" => HttpStatusFromStatus(code) = 500
  BY DEF HttpStatusFromStatus, Codes

\* stats.End, of an RPC whose handler did not run.
LEMMA RefusedRPCEnds ==
    ASSUME NEW r \in Req, NEW m \in Message, m.auth = "ok", IsGRPC(m), NEW code \in Codes, NEW t, NEW w,
           Ended(r, m, GrpcAnswer(code, NoDelay), NoOutcome), Incremented(r, "requests_refused", t, w),
           \/ code = "Unimplemented" /\ w = "unknown_path"
           \/ code = "ResourceExhausted" /\ w = "body_too_large" /\ TooLarge(m)
           \/ code = "Internal" /\ w = "decode" /\ ~TooLarge(m)
    PROVE  OnceCounted(r)' /\ Capped(r)' /\ Told(r)'
  <1> DEFINE a == answer'[r]
  <1>1. outcome'[r] = NoOutcome /\ NoOutcome.kind = "none" /\ NoOutcome.delay = NoDelay
    BY DEF NoOutcome, Ended
  <1>2. req'[r].m = m /\ a.by = "grpc" /\ a.status = 200 /\ a.code = code /\ a.delay = NoDelay
    BY GrpcAnswerType DEF Ended, GrpcAnswer
  <1>c. /\ Counters(r)' = <<"requests_refused">> /\ counted'[r] # <<>>
        /\ (\E i \in DOMAIN counted'[r] : counted'[r][i][3] = "body_too_large") <=> w = "body_too_large"
    BY CountedOne
  <1>3. OnceCounted(r)'
    <2>1. CountedBy(r)' = <<"requests_refused">>
      BY <1>1, <1>2 DEF CountedBy, ReachedPipeline, Success
    <2>2. QED BY <1>c, <2>1 DEF OnceCounted
  <1>4. Capped(r)'
    BY <1>1, <1>2, <1>c DEF Capped, ReachedPipeline
  <1>5. Told(r)'
    BY <1>1, <1>2, <1>c DEF Told, ReachedPipeline, Success, Retryable
  <1>6. QED BY <1>3, <1>4, <1>5

LEMMA CancelledRPCEnds ==
    ASSUME NEW r \in Req, NEW m \in Message, m.auth = "ok", IsGRPC(m), NEW code \in {"Canceled", "DeadlineExceeded"},
           Ended(r, m, GrpcAnswer(code, NoDelay), NoOutcome), counted'[r] = <<>>
    PROVE  OnceCounted(r)' /\ Capped(r)' /\ Told(r)'
  <1> DEFINE a == answer'[r]
  <1>1. outcome'[r] = NoOutcome /\ NoOutcome.kind = "none" /\ NoOutcome.delay = NoDelay
    BY DEF NoOutcome, Ended
  <1>2. req'[r].m = m /\ a.by = "grpc" /\ a.status = 200 /\ a.code = code
    BY DEF Ended, GrpcAnswer
  <1>a. GivenUp(a)
    BY <1>2 DEF GivenUp
  <1>3. OnceCounted(r)'
    BY <1>a DEF OnceCounted
  <1>4. Capped(r)'
    BY <1>1, <1>2, <1>a, CountedNone DEF Capped, ReachedPipeline
  <1>5. Told(r)'
    BY <1>1, <1>2, <1>a DEF Told, ReachedPipeline, Success, Retryable
  <1>6. QED BY <1>3, <1>4, <1>5

\* An empty request, in either transport.
LEMMA EmptyEnds ==
    ASSUME NEW r \in Req, NEW m \in Message, m.auth = "ok", ~TooLarge(m), counted'[r] = <<>>,
           Ended(r, m, GrpcAnswer("OK", NoDelay), NoOutcome) \/ Ended(r, m, HttpAnswer(200, NoDelay), NoOutcome)
    PROVE  OnceCounted(r)' /\ Capped(r)' /\ Told(r)'
  <1> DEFINE a == answer'[r]
  <1>1. outcome'[r] = NoOutcome /\ NoOutcome.kind = "none" /\ NoOutcome.delay = NoDelay
    BY DEF NoOutcome, Ended
  <1>2. /\ req'[r].m = m /\ a.status = 200
        /\ (a.by = "grpc" /\ a.code = "OK") \/ (a.by = "http" /\ a.code = "none")
    BY DEF Ended, GrpcAnswer, HttpAnswer
  <1>a. Success(a) /\ ~GivenUp(a) /\ ~OutsideRPC(r)'
    BY <1>2 DEF Success, GivenUp, OutsideRPC
  <1>3. OnceCounted(r)'
    <2>1. CountedBy(r)' = <<>>
      BY <1>1, <1>2, <1>a DEF CountedBy, ReachedPipeline
    <2>2. QED BY <2>1, CountedNone DEF OnceCounted
  <1>4. Capped(r)'
    BY <1>1, <1>2, CountedNone DEF Capped, ReachedPipeline
  <1>5. Told(r)'
    BY <1>1, <1>2, <1>a DEF Told, ReachedPipeline, Retryable
  <1>6. QED BY <1>3, <1>4, <1>5

\* A request that reached the pipeline, in either transport.
LEMMA ExportedEnds ==
    ASSUME NEW r \in Req, NEW m \in Message, m.auth = "ok", ~TooLarge(m), NEW o \in Outcomes, NEW t,
           NEW w \in {"accepted", "refused"}, Incremented(r, "receiver", t, w), NEW a, Ended(r, m, a, o),
           LET st == StatusFromConsumerError(o)
           IN  \/ a = GrpcAnswer(st.code, st.delay)
               \/ st.code = "OK" /\ a = HttpAnswer(200, NoDelay)
               \/ st.code # "OK" /\ a = HttpAnswer(HttpStatusFromStatus(st.code), st.delay)
    PROVE  OnceCounted(r)' /\ Capped(r)' /\ Told(r)'
  <1> DEFINE st == StatusFromConsumerError(o)
             status == HttpStatusFromStatus(st.code)
  <1>1. req'[r].m = m /\ answer'[r] = a /\ outcome'[r] = o
    BY DEF Ended
  <1>2. /\ st.code \in Codes /\ st.delay \in Delays
        /\ o.kind \in {"ok", "permanent", "transient", "status"} /\ o # NoOutcome
        /\ o.kind = "ok" <=> st.code = "OK"
        /\ o.kind = "permanent" => st.code = "Internal"
        /\ o.kind = "transient" => st.code = "Unavailable"
        /\ o.kind # "status" => st.delay = NoDelay /\ o.delay = NoDelay
        /\ o.kind = "status" => st.delay = o.delay /\ o.delay \in Delays
    BY ConsumerStatus
  <1>a. ReachedPipeline(r)'
    BY <1>1, <1>2 DEF ReachedPipeline
  <1>c. /\ Counters(r)' = <<"receiver">> /\ counted'[r] # <<>>
        /\ ~(\E i \in DOMAIN counted'[r] : counted'[r][i][3] = "body_too_large")
    BY CountedOne
  <1>3. OnceCounted(r)'
    <2>1. CountedBy(r)' = <<"receiver">>
      BY <1>1, <1>a DEF CountedBy
    <2>2. QED BY <1>c, <2>1 DEF OnceCounted
  <1>4. CASE a = GrpcAnswer(st.code, st.delay)
    <2>1. a.by = "grpc" /\ a.status = 200 /\ a.code = st.code /\ a.delay = st.delay
      BY <1>2, <1>4, GrpcAnswerType
    <2> HIDE DEF st
    <2>2. Capped(r)'
      BY <1>1, <1>a, <1>c, <2>1 DEF Capped
    <2>3. Told(r)'
      BY <1>1, <1>2, <1>a, <1>c, <2>1 DEF Told, Success, Retryable, Delays, NoDelay
    <2>4. QED BY <1>3, <2>2, <2>3
  <1>5. CASE st.code = "OK" /\ a = HttpAnswer(200, NoDelay)
    <2>1. a.by = "http" /\ a.status = 200
      BY <1>5 DEF HttpAnswer
    <2> HIDE DEF st
    <2>2. Capped(r)'
      BY <1>1, <1>a, <1>c, <2>1 DEF Capped
    <2>3. Told(r)'
      BY <1>1, <1>2, <1>5, <1>a, <1>c, <2>1 DEF Told, Success, Retryable
    <2>4. QED BY <1>3, <2>2, <2>3
  <1>6. CASE st.code # "OK" /\ a = HttpAnswer(status, st.delay)
    <2>1. status \in {400, 401, 403, 404, 429, 500, 503}
      BY <1>2, StatusOverHttp
    <2>2. (st.code = "Unavailable" => status = 503) /\ (st.code = "Internal" => status = 500)
      BY <1>2, StatusOverHttp
    <2> HIDE DEF status
    <2>3. /\ a.by = "http" /\ a.status = status /\ a.code = "none"
          /\ status \in {429, 503} /\ st.delay # NoDelay => a.delay = st.delay \div 1000
      BY <1>2, <1>6, <2>1, HttpAnswerType
    <2> HIDE DEF st
    <2>4. Capped(r)'
      BY <1>1, <1>a, <1>c, <2>1, <2>3 DEF Capped
    <2>5. Told(r)'
      <3>1. Success(a) <=> o.kind = "ok"
        BY <1>2, <1>6, <2>1, <2>3 DEF Success
      <3>2. (o.kind = "transient" => Retryable(a)) /\ (o.kind = "permanent" => ~Retryable(a))
        BY <1>2, <2>2, <2>3 DEF Retryable
      <3>3. Retryable(a) /\ o.delay # NoDelay =>
                a.delay # NoDelay /\ o.delay - 1000 < 1000 * a.delay /\ 1000 * a.delay <= o.delay
        <4> SUFFICES ASSUME Retryable(a), o.delay # NoDelay
                     PROVE  a.delay # NoDelay /\ o.delay - 1000 < 1000 * a.delay /\ 1000 * a.delay <= o.delay
          OBVIOUS
        <4>1. st.delay = o.delay /\ o.delay \in Nat
          BY <1>2 DEF Delays
        <4>2. a.delay = o.delay \div 1000
          BY <2>1, <2>3, <4>1 DEF Retryable
        <4>3. QED BY <4>1, <4>2 DEF NoDelay
      <3>4. QED BY <1>1, <1>a, <2>3, <3>1, <3>2, <3>3 DEF Told
    <2>6. QED BY <1>3, <2>4, <2>5
  <1>7. QED BY <1>4, <1>5, <1>6

-----------------------------------------------------------------------------
(* The steps of a request. *)

LEMMA Unchanged ==
    ASSUME IInv, NEW r \in Req
    PROVE  /\ answer = [answer EXCEPT ![r] = answer[r]] /\ answer[r] \in Answer
           /\ counted = [counted EXCEPT ![r] = counted[r]] /\ counted[r] \in Seq(Increment)
           /\ outcome = [outcome EXCEPT ![r] = outcome[r]] /\ outcome[r] \in Outcomes \cup {NoOutcome}
           /\ req[r] \in Request
  BY DEF IInv, TypeOK

LEMMA Moves ==
    ASSUME IInv, NEW r \in Req, NEW place \in Places, MoveTo(r, place)
    PROVE  /\ req' = [req EXCEPT ![r] = req'[r]] /\ req'[r] \in Request
           /\ req'[r].at = place /\ req'[r].m = req[r].m /\ req'[r].handled = req[r].handled
           /\ req'[r].code = req[r].code /\ req'[r].delay = req[r].delay
  <1>1. req \in [Req -> Request] /\ req[r] \in Request
    BY DEF IInv, TypeOK
  <1>2. [req[r] EXCEPT !.at = place] \in Request
    BY <1>1 DEF Request
  <1>3. req' = [req EXCEPT ![r] = [req[r] EXCEPT !.at = place]]
    BY DEF MoveTo
  <1>4. QED BY <1>1, <1>2, <1>3 DEF Request

LEMMA Ends ==
    ASSUME IInv, NEW r \in Req, NEW code \in Codes, NEW delay \in Delays, NEW handled \in BOOLEAN,
           EndRPC(r, code, delay, handled)
    PROVE  /\ req' = [req EXCEPT ![r] = req'[r]] /\ req'[r] \in Request
           /\ req'[r].at = "ending" /\ req'[r].m = req[r].m /\ req'[r].handled = handled
           /\ req'[r].code = code /\ req'[r].delay = delay
  <1>1. req \in [Req -> Request] /\ req[r] \in Request
    BY DEF IInv, TypeOK
  <1>2. [req[r] EXCEPT !.at = "ending", !.code = code, !.delay = delay, !.handled = handled] \in Request
    BY <1>1 DEF Request, Places
  <1>3. req' = [req EXCEPT ![r] = [req[r] EXCEPT !.at = "ending", !.code = code, !.delay = delay, !.handled = handled]]
    BY DEF EndRPC
  <1>4. QED BY <1>1, <1>2, <1>3 DEF Request

\* A move to a place before the pipeline's answer leaves no trace.
LEMMA MoveStep ==
    ASSUME IInv, NEW r \in Req, NEW place \in {"decompress", "http", "grpc", "rpc", "export"}, MoveTo(r, place),
           UNCHANGED <<server, stop, answer, counted, outcome>>,
           req[r].at \in {"auth", "decompress", "http", "grpc"}, req[r].m.auth = "ok",
           place = "http" => ~IsGRPC(req[r].m), place \in {"grpc", "rpc"} => IsGRPC(req[r].m),
           place = "export" => req[r].m.path \in Routes /\ ~TooLarge(req[r].m) /\ ~IsGRPC(req[r].m)
    PROVE  IInv'
  <1>1. /\ req' = [req EXCEPT ![r] = req'[r]] /\ req'[r] \in Request
        /\ req'[r].at = place /\ req'[r].m = req[r].m /\ req'[r].handled = req[r].handled
    BY Moves DEF Places
  <1>2. Phase(r) /\ req[r].handled \in BOOLEAN
    BY Unchanged DEF IInv, Request
  <1>3. Phase(r)'
    BY <1>1, <1>2 DEF Phase, Untouched
  <1>4. Settled(r)' /\ Final(r)'
    BY <1>1 DEF Settled, Final
  <1>5. TypeOK'
    BY <1>1 DEF IInv, TypeOK
  <1>6. ASSUME NEW j \in Req, j # r PROVE Phase(j)' /\ Settled(j)' /\ Final(j)'
    BY <1>1, <1>6, Undisturbed DEF IInv, TypeOK
  <1>7. QED BY <1>3, <1>4, <1>5, <1>6 DEF IInv

\* A reply ends the request.
LEMMA ReplyStep ==
    ASSUME IInv, NEW r \in Req, NEW a \in Answer, NEW c \in Seq(Increment), Reply(r, a), req[r].m \in Messages,
           counted' = Updated(counted, r, c), NEW o \in Outcomes \cup {NoOutcome},
           outcome' = Updated(outcome, r, o), UNCHANGED <<server, stop>>,
           Ended(r, req[r].m, a, o) /\ counted'[r] = c => OnceCounted(r)' /\ Capped(r)' /\ Told(r)'
    PROVE  IInv'
  <1>1. req' = [req EXCEPT ![r] = req'[r]] /\ req'[r] \in Request /\ req'[r].at = "done" /\ req'[r].m = req[r].m
    BY Moves DEF Reply, Places
  <1>2. Ended(r, req[r].m, a, o) /\ counted'[r] = c
    BY <1>1 DEF Ended, Reply, IInv, TypeOK, Updated
  <1>3. Phase(r)' /\ Settled(r)' /\ Final(r)'
    BY <1>1, <1>2 DEF Phase, Settled, Final
  <1>4. QED BY <1>1, <1>3, OneRequest DEF Reply, Updated

\* Settling an RPC's status leaves the answer to its stats.End.
LEMMA EndStep ==
    ASSUME IInv, NEW r \in Req, NEW code \in Codes, NEW delay \in Delays, NEW handled \in BOOLEAN,
           EndRPC(r, code, delay, handled), UNCHANGED <<server, stop, answer>>,
           req[r].at \in {"rpc", "export"}, IsGRPC(req[r].m), NEW c \in Seq(Increment),
           counted' = Updated(counted, r, c), NEW o \in Outcomes \cup {NoOutcome},
           outcome' = Updated(outcome, r, o),
           ASSUME req'[r].m = req[r].m, req'[r].code = code, req'[r].delay = delay, req'[r].handled = handled,
                  counted'[r] = c, outcome'[r] = o
           PROVE  (Unknown(r) \/ NotHandled(r) \/ Exported(r))'
    PROVE  IInv'
  <1>1. /\ req' = [req EXCEPT ![r] = req'[r]] /\ req'[r] \in Request
        /\ req'[r].at = "ending" /\ req'[r].m = req[r].m /\ req'[r].handled = handled
        /\ req'[r].code = code /\ req'[r].delay = delay
    BY Ends
  <1>2. counted'[r] = c /\ outcome'[r] = o
    BY DEF IInv, TypeOK, Updated
  <1>3. Phase(r)
    BY DEF IInv
  <1>4. Phase(r)'
    BY <1>1, <1>3 DEF Phase
  <1>5. Settled(r)'
    BY <1>1, <1>2, <1>3 DEF Phase, Settled, Untouched
  <1>6. Final(r)'
    BY <1>1 DEF Final
  <1>7. QED BY <1>1, <1>4, <1>5, <1>6, Unchanged, OneRequest DEF Updated

-----------------------------------------------------------------------------
(* One lemma per action. *)

\* Before it ends, a request has been read, and nothing counted it.
LEMMA Fresh ==
    ASSUME IInv, NEW r \in Req, req[r].at \notin {"idle", "ending", "done"}
    PROVE  /\ req[r].m \in Messages /\ req[r].m \in Message
           /\ counted[r] = <<>> /\ outcome[r] = NoOutcome
           /\ outcome = Updated(outcome, r, NoOutcome)
           /\ counted = Updated(counted, r, <<>>)
           /\ <<>> \in Seq(Increment) /\ NoOutcome \in Outcomes \cup {NoOutcome}
  <1>1. req[r].m \in Messages /\ counted[r] = <<>> /\ outcome[r] = NoOutcome
    BY DEF IInv, Phase, Untouched
  <1>2. QED BY <1>1, Unchanged, MessagesAreTyped DEF Updated

LEMMA ArriveStep ==
    ASSUME IInv, NEW r \in Req, NEW m \in Messages, Arrive(r, m)
    PROVE  IInv'
  <1>1. req[r].at = "idle" /\ Phase(r)
    BY DEF IInv, Arrive
  <1> DEFINE q == [Idle EXCEPT !.at = "auth", !.m = m]
  <1>2. q \in Request /\ q.at = "auth" /\ q.m = m /\ q.handled = FALSE
    BY DEF Idle, Request, Places, Delays
  <1>3. req' = [req EXCEPT ![r] = q]
    BY DEF Arrive
  <1> HIDE DEF q
  <1>4. req'[r] = q
    BY <1>3 DEF IInv, TypeOK
  <1>5. req'[r].at = "auth" /\ req'[r].m = m /\ req'[r].handled = FALSE
    BY <1>2, <1>4
  <1>6. Phase(r)' /\ Settled(r)' /\ Final(r)'
    BY <1>1, <1>5 DEF Arrive, Phase, Untouched, Settled, Final
  <1>7. TypeOK'
    BY <1>2, <1>3 DEF IInv, TypeOK, Arrive
  <1>8. ASSUME NEW j \in Req, j # r PROVE Phase(j)' /\ Settled(j)' /\ Final(j)'
    BY <1>3, <1>8, Undisturbed DEF IInv, TypeOK, Arrive
  <1>9. QED BY <1>6, <1>7, <1>8 DEF IInv

LEMMA AuthenticateStep ==
    ASSUME IInv, NEW r \in Req, Authenticate(r)
    PROVE  IInv'
  <1> DEFINE m == req[r].m
             t == Transport(m)
  <1>1. req[r].at = "auth" /\ UNCHANGED <<server, stop, outcome>>
    BY DEF Authenticate
  <1>2. /\ m \in Messages /\ m \in Message /\ counted[r] = <<>> /\ outcome' = Updated(outcome, r, NoOutcome)
        /\ NoOutcome \in Outcomes \cup {NoOutcome}
    BY <1>1, Fresh
  <1>3. CASE m.auth = "ok" /\ MoveTo(r, "decompress") /\ UNCHANGED <<answer, counted>>
    BY <1>1, <1>3, MoveStep
  <1>4. CASE /\ m.auth = "not_ready" /\ Count(r, "rejections", "not_ready")
             /\ Reply(r, IF IsGRPC(m) THEN GrpcAnswer("Unavailable", NotReadyRetryAfter)
                                      ELSE HttpAnswer(503, NotReadyRetryAfter))
    <2> DEFINE a == IF IsGRPC(m) THEN GrpcAnswer("Unavailable", NotReadyRetryAfter)
                    ELSE HttpAnswer(503, NotReadyRetryAfter)
    <2>1. a \in Answer
      BY HttpAnswerType, GrpcAnswerType, NoDelayType DEF Codes
    <2>2. a = GrpcAnswer("Unavailable", NotReadyRetryAfter) \/ a = HttpAnswer(503, NotReadyRetryAfter)
      OBVIOUS
    <2>3. Reply(r, a)
      BY <1>4
    <2> HIDE DEF a
    <2>4. /\ counted' = Updated(counted, r, <<<<"rejections", t, "not_ready">>>>)
          /\ <<<<"rejections", t, "not_ready">>>> \in Seq(Increment)
      BY <1>2, <1>4, FirstIncrement DEF Reasons
    <2>5. ASSUME Ended(r, m, a, NoOutcome), Incremented(r, "rejections", t, "not_ready")
          PROVE  OnceCounted(r)' /\ Capped(r)' /\ Told(r)'
      BY <1>2, <1>4, <2>2, <2>5, RejectedEnds
    <2>6. QED BY <1>1, <1>2, <2>1, <2>3, <2>4, <2>5, ReplyStep DEF Incremented
  <1>5. CASE /\ m.auth = "refused" /\ Count(r, "rejections", "invalid_token")
             /\ Reply(r, IF IsGRPC(m) THEN GrpcAnswer("Unauthenticated", NoDelay) ELSE HttpAnswer(401, NoDelay))
    <2> DEFINE a == IF IsGRPC(m) THEN GrpcAnswer("Unauthenticated", NoDelay) ELSE HttpAnswer(401, NoDelay)
    <2>1. a \in Answer
      BY HttpAnswerType, GrpcAnswerType, NoDelayType DEF Codes
    <2>2. a = GrpcAnswer("Unauthenticated", NoDelay) \/ a = HttpAnswer(401, NoDelay)
      OBVIOUS
    <2>3. Reply(r, a)
      BY <1>5
    <2> HIDE DEF a
    <2>4. /\ counted' = Updated(counted, r, <<<<"rejections", t, "invalid_token">>>>)
          /\ <<<<"rejections", t, "invalid_token">>>> \in Seq(Increment)
      BY <1>2, <1>5, FirstIncrement DEF Reasons
    <2>5. ASSUME Ended(r, m, a, NoOutcome), Incremented(r, "rejections", t, "invalid_token")
          PROVE  OnceCounted(r)' /\ Capped(r)' /\ Told(r)'
      BY <1>2, <1>5, <2>2, <2>5, RejectedEnds
    <2>6. QED BY <1>1, <1>2, <2>1, <2>3, <2>4, <2>5, ReplyStep DEF Incremented
  <1>6. QED BY <1>3, <1>4, <1>5 DEF Authenticate

\* The receiver's refusals over HTTP, by the decompressor, a check or the read.
LEMMA HttpRefusalStep ==
    ASSUME IInv, NEW r \in Req, req[r].at \in {"decompress", "http"}, NEW why \in Reasons,
           NEW s \in RefusalStatus, Count(r, "requests_refused", why), Reply(r, HttpAnswer(s, NoDelay)),
           CapNamed(why, s, req[r].m), UNCHANGED <<server, stop, outcome>>
    PROVE  IInv'
  <1> DEFINE m == req[r].m
             t == Transport(m)
             a == HttpAnswer(s, NoDelay)
             c == <<<<"requests_refused", t, why>>>>
  <1>1. /\ m \in Messages /\ m \in Message /\ counted[r] = <<>> /\ outcome' = Updated(outcome, r, NoOutcome)
        /\ NoOutcome \in Outcomes \cup {NoOutcome}
    BY Fresh
  <1>2. m.auth = "ok"
    BY DEF IInv, Phase
  <1>3. a \in Answer
    <2>1. s \in Nat
      BY DEF RefusalStatus
    <2>2. QED BY <2>1, HttpAnswerType, NoDelayType
  <1>4. counted' = Updated(counted, r, c) /\ c \in Seq(Increment)
    BY <1>1, FirstIncrement
  <1>5. ASSUME Ended(r, m, a, NoOutcome), Incremented(r, "requests_refused", t, why)
        PROVE  OnceCounted(r)' /\ Capped(r)' /\ Told(r)'
    BY <1>1, <1>2, <1>5, HttpRefusalEnds
  <1>6. Reply(r, a)
    OBVIOUS
  <1> HIDE DEF a, c
  <1>7. UNCHANGED <<server, stop>> /\ (Ended(r, m, a, NoOutcome) /\ counted'[r] = c => OnceCounted(r)' /\ Capped(r)' /\ Told(r)')
    BY <1>5 DEF Incremented, c
  <1>8. QED BY <1>1, <1>3, <1>4, <1>6, <1>7, ReplyStep

LEMMA DecompressStep ==
    ASSUME IInv, NEW r \in Req, Decompress(r)
    PROVE  IInv'
  <1>1. req[r].at = "decompress" /\ UNCHANGED <<server, stop, outcome>>
    BY DEF Decompress
  <1>2. req[r].m.auth = "ok"
    BY <1>1 DEF IInv, Phase
  <1>3. CASE MoveTo(r, Transport(req[r].m)) /\ UNCHANGED <<answer, counted>>
    <2>1. \/ IsGRPC(req[r].m) /\ MoveTo(r, "grpc")
          \/ ~IsGRPC(req[r].m) /\ MoveTo(r, "http")
      BY <1>3 DEF Transport
    <2>2. QED BY <1>1, <1>2, <1>3, <2>1, MoveStep
  <1>4. CASE Count(r, "requests_refused", "decompress") /\ Reply(r, HttpAnswer(400, NoDelay))
    BY <1>1, <1>4, HttpRefusalStep DEF Reasons, CapNamed, RefusalStatus
  <1>5. QED BY <1>3, <1>4 DEF Decompress

LEMMA ServeExportStep ==
    ASSUME IInv, NEW r \in Req, ServeExport(r) \/ BodyAborted(r)
    PROVE  IInv'
  <1> DEFINE m == req[r].m
             verdict == FirstBroken(HttpChecks(m), <<>>)
  <1>1. req[r].at = "http" /\ UNCHANGED <<server, stop, outcome>>
    BY DEF ServeExport, BodyAborted
  <1>2. m.auth = "ok" /\ ~IsGRPC(m)
    BY <1>1 DEF IInv, Phase
  <1>3. m \in Message /\ m.size \in Nat /\ BodyCap \in Nat
    BY <1>1, Fresh, CapExceedsFrameHeader DEF Message
  <1>4. TooLarge(m) <=> m.size > BodyCap
    BY <1>2 DEF TooLarge
  <1>5. CASE BodyAborted(r)
    BY <1>1, <1>5, HttpRefusalStep DEF BodyAborted, RefusalStatus, Reasons, CapNamed
  <1>6. CASE ServeExport(r)
    <2>1. \/ verdict = <<>> /\ MoveTo(r, "export") /\ UNCHANGED <<answer, counted>>
          \/ /\ verdict # <<>> /\ Count(r, "requests_refused", verdict[1])
             /\ Reply(r, HttpAnswer(verdict[2], NoDelay))
      BY <1>6 DEF ServeExport
    <2>2. \/ verdict = <<>> /\ m.path \in Routes /\ m.size <= BodyCap
          \/ verdict = <<"unknown_path", 404>>
          \/ verdict = <<"method", 405>>
          \/ verdict = <<"media_type", 415>>
          \/ verdict = <<"body_too_large", 413>> /\ m.size > BodyCap
          \/ verdict = <<"decode", 400>>
      BY <1>3, HttpVerdict
    <2> HIDE DEF verdict
    <2>3. CASE verdict = <<>>
      <3>1. m.path \in Routes /\ m.size <= BodyCap /\ MoveTo(r, "export") /\ UNCHANGED <<answer, counted>>
        BY <2>1, <2>2, <2>3
      <3>2. ~TooLarge(m)
        BY <1>3, <1>4, <3>1
      <3>3. QED BY <1>1, <1>2, <3>1, <3>2, MoveStep
    <2>4. CASE verdict # <<>>
      <3>1. /\ verdict[1] \in Reasons /\ verdict[2] \in RefusalStatus
            /\ CapNamed(verdict[1], verdict[2], m)
        BY <1>4, <2>2, <2>4 DEF Reasons, CapNamed, RefusalStatus
      <3>2. Count(r, "requests_refused", verdict[1]) /\ Reply(r, HttpAnswer(verdict[2], NoDelay))
        BY <2>1, <2>4
      <3>3. QED BY <1>1, <3>1, <3>2, HttpRefusalStep
    <2>5. QED BY <2>3, <2>4
  <1>7. QED BY <1>5, <1>6

\* gRPC, up to the export.
LEMMA NoTransportStep ==
    ASSUME IInv, NEW r \in Req, NoTransport(r)
    PROVE  IInv'
  <1> DEFINE m == req[r].m
             s == IF m.post THEN 415 ELSE 405
             a == HttpAnswer(s, NoDelay)
  <1>1. req[r].at = "grpc" /\ Reply(r, a) /\ UNCHANGED <<server, stop, counted, outcome>>
    BY DEF NoTransport
  <1>2. /\ m \in Messages /\ m \in Message
        /\ counted' = Updated(counted, r, <<>>) /\ outcome' = Updated(outcome, r, NoOutcome)
        /\ <<>> \in Seq(Increment) /\ NoOutcome \in Outcomes \cup {NoOutcome}
    BY <1>1, Fresh
  <1>3. m.auth = "ok" /\ IsGRPC(m)
    BY <1>1 DEF IInv, Phase
  <1>4. s \in {405, 415} /\ s \in Nat
    OBVIOUS
  <1> HIDE DEF s
  <1>5. a \in Answer
    BY <1>4, HttpAnswerType, NoDelayType
  <1>6. ASSUME Ended(r, m, a, NoOutcome), counted'[r] = <<>>
        PROVE  OnceCounted(r)' /\ Capped(r)' /\ Told(r)'
    BY <1>2, <1>3, <1>4, <1>6, NoTransportEnds
  <1> HIDE DEF a
  <1>7. QED BY <1>1, <1>2, <1>5, <1>6, ReplyStep

LEMMA TagRPCStep ==
    ASSUME IInv, NEW r \in Req, TagRPC(r)
    PROVE  IInv'
  <1>1. req[r].at = "grpc" /\ MoveTo(r, "rpc") /\ UNCHANGED <<server, stop, answer, counted, outcome>>
    BY DEF TagRPC
  <1>2. req[r].m.auth = "ok" /\ IsGRPC(req[r].m)
    BY <1>1 DEF IInv, Phase
  <1>3. QED BY <1>1, <1>2, MoveStep

LEMMA UnknownServiceStep ==
    ASSUME IInv, NEW r \in Req, UnknownService(r)
    PROVE  IInv'
  <1> DEFINE m == req[r].m
             c == <<<<"requests_refused", "grpc", "unknown_path">>>>
  <1>1. /\ req[r].at = "rpc" /\ EndRPC(r, "Unimplemented", NoDelay, TRUE)
        /\ Count(r, "requests_refused", "unknown_path") /\ UNCHANGED <<server, stop, answer, outcome>>
    BY DEF UnknownService
  <1>2. /\ counted[r] = <<>> /\ outcome' = Updated(outcome, r, NoOutcome)
        /\ NoOutcome \in Outcomes \cup {NoOutcome}
    BY <1>1, Fresh
  <1>3. IsGRPC(m) /\ Transport(m) = "grpc"
    BY <1>1 DEF IInv, Phase, Transport
  <1>4. counted' = Updated(counted, r, c) /\ c \in Seq(Increment)
    <2>1. "unknown_path" \in Reasons
      BY DEF Reasons
    <2>2. QED BY <1>1, <1>2, <1>3, <2>1, FirstIncrement
  <1>5. "Unimplemented" \in Codes /\ NoDelay \in Delays /\ TRUE \in BOOLEAN
    BY NoDelayType DEF Codes
  <1>6. ASSUME req'[r].code = "Unimplemented", req'[r].delay = NoDelay, req'[r].handled = TRUE,
               counted'[r] = c, outcome'[r] = NoOutcome
        PROVE  Unknown(r)'
    BY <1>6 DEF Unknown
  <1> HIDE DEF c
  <1>7. QED BY <1>1, <1>2, <1>3, <1>4, <1>5, <1>6, EndStep

\* An RPC whose handler does not run.
LEMMA NotHandledStep ==
    ASSUME IInv, NEW r \in Req, req[r].at = "rpc", NEW code \in Codes, EndRPC(r, code, NoDelay, FALSE),
           UNCHANGED <<server, stop, answer, counted, outcome>>,
           \/ code = "ResourceExhausted" /\ TooLarge(req[r].m)
           \/ code = "Internal" /\ (~TooLarge(req[r].m) /\ ~req[r].m.decodes)
           \/ code \in {"Canceled", "DeadlineExceeded"}
    PROVE  IInv'
  <1>1. /\ counted' = Updated(counted, r, <<>>) /\ outcome' = Updated(outcome, r, NoOutcome)
        /\ <<>> \in Seq(Increment) /\ NoOutcome \in Outcomes \cup {NoOutcome}
    BY Fresh
  <1>2. IsGRPC(req[r].m)
    BY DEF IInv, Phase
  <1>3. NoDelay \in Delays /\ FALSE \in BOOLEAN
    BY NoDelayType
  <1>4. ASSUME req'[r].m = req[r].m, req'[r].code = code, req'[r].delay = NoDelay, req'[r].handled = FALSE,
               counted'[r] = <<>>, outcome'[r] = NoOutcome
        PROVE  NotHandled(r)'
    BY <1>4 DEF NotHandled
  <1>5. QED BY <1>1, <1>2, <1>3, <1>4, EndStep

LEMMA ReceiveStep ==
    ASSUME IInv, NEW r \in Req, Receive(r) \/ RPCCancelled(r)
    PROVE  IInv'
  <1> DEFINE m == req[r].m
             verdict == FirstBroken(MessageChecks(m), "OK")
  <1>1. req[r].at = "rpc" /\ m.path \in Routes /\ UNCHANGED <<server, stop, answer, counted, outcome>>
    BY DEF Receive, RPCCancelled
  <1>2. m.auth = "ok" /\ IsGRPC(m) /\ Phase(r)
    BY <1>1 DEF IInv, Phase
  <1>3. m \in Message /\ m.size \in Nat /\ BodyCap \in Nat
    BY <1>1, Fresh, CapExceedsFrameHeader DEF Message
  <1>4. TooLarge(m) <=> m.size > BodyCap - GrpcFrameHeader
    BY <1>2 DEF TooLarge
  <1>5. CASE RPCCancelled(r)
    <2>1. PICK code \in {"Canceled", "DeadlineExceeded"} : EndRPC(r, code, NoDelay, FALSE)
      BY <1>5 DEF RPCCancelled
    <2>2. code \in Codes
      BY DEF Codes
    <2>3. QED BY <1>1, <2>1, <2>2, NotHandledStep
  <1>6. CASE Receive(r)
    <2>1. \/ verdict = "OK" /\ req' = [req EXCEPT ![r] = [@ EXCEPT !.at = "export", !.handled = TRUE]]
          \/ verdict # "OK" /\ EndRPC(r, verdict, NoDelay, FALSE)
      BY <1>6 DEF Receive
    <2>2. \/ verdict = "OK" /\ m.size <= BodyCap - GrpcFrameHeader
          \/ verdict = "ResourceExhausted" /\ m.size > BodyCap - GrpcFrameHeader
          \/ verdict = "Internal" /\ m.size <= BodyCap - GrpcFrameHeader /\ ~m.decodes
      BY <1>3, MessageVerdict
    <2> HIDE DEF verdict
    <2>3. verdict = "OK" \/ verdict = "Internal" => ~TooLarge(m)
      BY <1>3, <1>4, <2>2 DEF GrpcFrameHeader
    <2>4. CASE verdict # "OK"
      <3>1. verdict \in Codes
        BY <2>2, <2>4 DEF Codes
      <3>2. \/ verdict = "ResourceExhausted" /\ TooLarge(m)
            \/ verdict = "Internal" /\ (~TooLarge(m) /\ ~m.decodes)
        BY <1>4, <2>2, <2>3, <2>4
      <3>3. EndRPC(r, verdict, NoDelay, FALSE)
        BY <2>1, <2>4
      <3>4. QED BY <1>1, <3>1, <3>2, <3>3, NotHandledStep
    <2>5. CASE verdict = "OK"
      <3> DEFINE q == [req[r] EXCEPT !.at = "export", !.handled = TRUE]
      <3>1. req' = [req EXCEPT ![r] = q]
        BY <2>1, <2>5
      <3>2. q \in Request /\ q.at = "export" /\ q.handled = TRUE /\ q.m = m
        BY Unchanged DEF Request, Places
      <3> HIDE DEF q
      <3>3. req'[r].at = "export" /\ req'[r].handled = TRUE /\ req'[r].m = m
        BY <3>1, <3>2 DEF IInv, TypeOK
      <3>4. Phase(r)'
        BY <1>1, <1>2, <2>3, <2>5, <3>3 DEF Phase, Untouched
      <3>5. Settled(r)' /\ Final(r)'
        BY <3>3 DEF Settled, Final
      <3>6. TypeOK'
        BY <1>1, <3>1, <3>2 DEF IInv, TypeOK
      <3>7. ASSUME NEW j \in Req, j # r PROVE Phase(j)' /\ Settled(j)' /\ Final(j)'
        BY <1>1, <3>1, <3>7, Undisturbed DEF IInv, TypeOK
      <3>8. QED BY <3>4, <3>5, <3>6, <3>7 DEF IInv
    <2>6. QED BY <2>4, <2>5
  <1>7. QED BY <1>5, <1>6

\* The pipeline's turn.
LEMMA ExportStep ==
    ASSUME IInv, NEW r \in Req, NEW o \in Outcomes, Export(r, o)
    PROVE  IInv'
  <1> DEFINE m  == req[r].m
             t  == Transport(m)
             st == StatusFromConsumerError(IF m.items = 0 THEN [o EXCEPT !.kind = "ok"] ELSE o)
  <1>1. req[r].at = "export" /\ UNCHANGED <<server, stop>>
    BY DEF Export
  <1>2. m.auth = "ok" /\ ~TooLarge(m) /\ (req[r].handled <=> IsGRPC(m)) /\ req[r].handled \in BOOLEAN
    BY <1>1, Unchanged DEF IInv, Phase, Request
  <1>3. /\ m \in Messages /\ m \in Message /\ counted[r] = <<>>
        /\ outcome = Updated(outcome, r, NoOutcome) /\ counted = Updated(counted, r, <<>>)
        /\ <<>> \in Seq(Increment) /\ NoOutcome \in Outcomes \cup {NoOutcome}
    BY <1>1, Fresh
  <1>4. \/ IsGRPC(m) /\ EndRPC(r, st.code, st.delay, req[r].handled) /\ UNCHANGED answer
        \/ ~IsGRPC(m) /\ Reply(r, IF st.code = "OK" THEN HttpAnswer(200, NoDelay)
                                  ELSE HttpAnswer(HttpStatusFromStatus(st.code), st.delay))
    BY DEF Export
  <1>5. CASE m.items = 0
    <2>1. counted' = Updated(counted, r, <<>>) /\ outcome' = Updated(outcome, r, NoOutcome)
      BY <1>3, <1>5 DEF Export
    <2>2. st.code = "OK" /\ st.delay = NoDelay
      <3>1. [o EXCEPT !.kind = "ok"].kind = "ok"
        BY OutcomesAreTyped DEF Returned
      <3>2. st = StatusFromConsumerError([o EXCEPT !.kind = "ok"])
        BY <1>5
      <3>3. \A x : x.kind = "ok" => StatusFromConsumerError(x) = [code |-> "OK", delay |-> NoDelay]
        BY DEF StatusFromConsumerError
      <3> HIDE DEF st
      <3>4. st = [code |-> "OK", delay |-> NoDelay]
        BY <3>1, <3>2, <3>3
      <3>5. QED BY <3>4
    <2> HIDE DEF st
    <2>3. CASE IsGRPC(m)
      <3>1. EndRPC(r, "OK", NoDelay, TRUE) /\ UNCHANGED answer
        BY <1>2, <1>4, <2>2, <2>3
      <3>2. "OK" \in Codes /\ NoDelay \in Delays /\ TRUE \in BOOLEAN
        BY NoDelayType DEF Codes
      <3>3. ASSUME req'[r].m = m, req'[r].code = "OK", req'[r].delay = NoDelay, req'[r].handled = TRUE,
                   counted'[r] = <<>>, outcome'[r] = NoOutcome
            PROVE  Exported(r)'
        BY <1>2, <3>3 DEF Exported
      <3>4. QED BY <1>1, <1>3, <2>1, <2>3, <3>1, <3>2, <3>3, EndStep
    <2>4. CASE ~IsGRPC(m)
      <3> DEFINE a == HttpAnswer(200, NoDelay)
      <3>1. Reply(r, a)
        BY <1>4, <2>2, <2>4
      <3>2. a \in Answer
        BY HttpAnswerType, NoDelayType
      <3>3. ASSUME Ended(r, m, a, NoOutcome), counted'[r] = <<>>
            PROVE  OnceCounted(r)' /\ Capped(r)' /\ Told(r)'
        BY <1>2, <1>3, <3>3, EmptyEnds
      <3> HIDE DEF a
      <3>4. QED BY <1>1, <1>3, <2>1, <3>1, <3>2, <3>3, ReplyStep
    <2>5. QED BY <2>3, <2>4
  <1>6. CASE m.items # 0
    <2> DEFINE w == IF o.kind = "ok" THEN "accepted" ELSE "refused"
               c == <<<<"receiver", t, w>>>>
    <2>1. Count(r, "receiver", w) /\ outcome' = Updated(outcome, r, o) /\ o \in Outcomes \cup {NoOutcome}
      BY <1>6 DEF Export, Updated
    <2>2. w \in {"accepted", "refused"} /\ w \in Reasons
      BY DEF Reasons
    <2> HIDE DEF w
    <2>3. counted' = Updated(counted, r, c) /\ c \in Seq(Increment)
      BY <1>3, <2>1, <2>2, FirstIncrement
    <2>4. st = StatusFromConsumerError(o)
      BY <1>6
    <2> HIDE DEF st
    <2>5. st.code \in Codes /\ st.delay \in Delays
      BY <2>4, ConsumerStatus
    <2>6. CASE IsGRPC(m)
      <3>1. EndRPC(r, st.code, st.delay, TRUE) /\ UNCHANGED answer
        BY <1>2, <1>4, <2>6
      <3>2. t = "grpc"
        BY <2>6 DEF Transport
      <3>3. ASSUME req'[r].m = m, req'[r].code = st.code, req'[r].delay = st.delay, req'[r].handled = TRUE,
                   counted'[r] = c, outcome'[r] = o
            PROVE  Exported(r)'
        BY <1>2, <2>2, <2>4, <3>2, <3>3 DEF Exported
      <3> HIDE DEF c
      <3>4. QED BY <1>1, <2>1, <2>3, <2>5, <2>6, <3>1, <3>3, EndStep
    <2>7. CASE ~IsGRPC(m)
      <3> DEFINE a == IF st.code = "OK" THEN HttpAnswer(200, NoDelay)
                      ELSE HttpAnswer(HttpStatusFromStatus(st.code), st.delay)
      <3>1. Reply(r, a)
        BY <1>4, <2>7
      <3>2. a \in Answer
        <4>1. HttpStatusFromStatus(st.code) \in Nat
          BY <2>5, StatusOverHttp
        <4>2. QED BY <2>5, <4>1, HttpAnswerType, NoDelayType
      <3>3. \/ st.code = "OK" /\ a = HttpAnswer(200, NoDelay)
            \/ st.code # "OK" /\ a = HttpAnswer(HttpStatusFromStatus(st.code), st.delay)
        OBVIOUS
      <3> HIDE DEF a
      <3>4. ASSUME Ended(r, m, a, o), Incremented(r, "receiver", t, w)
            PROVE  OnceCounted(r)' /\ Capped(r)' /\ Told(r)'
        BY <1>2, <1>3, <2>2, <2>4, <3>3, <3>4, ExportedEnds
      <3>5. ASSUME Ended(r, m, a, o), counted'[r] = c
            PROVE  OnceCounted(r)' /\ Capped(r)' /\ Told(r)'
        BY <3>4, <3>5 DEF Incremented
      <3> HIDE DEF c
      <3>6. QED BY <1>1, <1>3, <2>1, <2>3, <3>1, <3>2, <3>5, ReplyStep
    <2>8. QED BY <2>6, <2>7
  <1>7. QED BY <1>5, <1>6

\* stats.End: by how the status was settled.
LEMMA HandleRPCStep ==
    ASSUME IInv, NEW r \in Req, HandleRPC(r)
    PROVE  IInv'
  <1> DEFINE m == req[r].m
             t == Transport(m)
             a == GrpcAnswer(req[r].code, req[r].delay)
             reason == IF req[r].handled THEN {} ELSE GrpcRefusalReason(req[r].code)
  <1>1. /\ req[r].at = "ending" /\ Reply(r, a) /\ UNCHANGED <<server, stop, outcome>>
        /\ (reason = {} /\ UNCHANGED counted) \/ \E why \in reason : Count(r, "requests_refused", why)
    BY DEF HandleRPC
  <1>2. m \in Messages /\ m \in Message /\ m.auth = "ok" /\ IsGRPC(m) /\ t = "grpc"
    BY <1>1, MessagesAreTyped DEF IInv, Phase, Transport
  <1>3. /\ outcome' = Updated(outcome, r, outcome[r]) /\ outcome[r] \in Outcomes \cup {NoOutcome}
        /\ counted = Updated(counted, r, counted[r]) /\ counted[r] \in Seq(Increment)
    BY <1>1, Unchanged DEF Updated
  <1>4. Unknown(r) \/ NotHandled(r) \/ Exported(r)
    BY <1>1 DEF IInv, Settled
  <1>5. req[r].code \in Codes /\ req[r].delay \in Delays
    <2>1. outcome[r] \in Outcomes => /\ StatusFromConsumerError(outcome[r]).code \in Codes
                                     /\ StatusFromConsumerError(outcome[r]).delay \in Delays
      BY ConsumerStatus
    <2>2. {"Unimplemented", "ResourceExhausted", "Internal", "Canceled", "DeadlineExceeded", "OK"} \subseteq Codes
      BY DEF Codes
    <2>3. QED BY <1>4, <2>1, <2>2, NoDelayType DEF Unknown, NotHandled, Exported
  <1>6. a \in Answer
    BY <1>5, GrpcAnswerType
  <1>7. ASSUME UNCHANGED counted,
               Ended(r, m, a, outcome[r]) /\ counted'[r] = counted[r] => OnceCounted(r)' /\ Capped(r)' /\ Told(r)'
        PROVE  IInv'
    <2>1. counted' = Updated(counted, r, counted[r]) /\ UNCHANGED <<server, stop>>
      BY <1>1, <1>3, <1>7
    <2> HIDE DEF a
    <2>2. QED BY <1>1, <1>2, <1>3, <1>6, <1>7, <2>1, ReplyStep
  <1>8. CASE req[r].handled
    <2>1. UNCHANGED counted
      BY <1>1, <1>8
    <2>2. CASE Unknown(r)
      <3>1. a = GrpcAnswer("Unimplemented", NoDelay) /\ outcome[r] = NoOutcome /\ "Unimplemented" \in Codes
        BY <1>5, <2>2 DEF Unknown
      <3>2. counted[r] = <<<<"requests_refused", "grpc", "unknown_path">>>>
        BY <2>2 DEF Unknown
      <3>3. ASSUME Ended(r, m, a, outcome[r]), counted'[r] = counted[r]
            PROVE  OnceCounted(r)' /\ Capped(r)' /\ Told(r)'
        <4>1. Incremented(r, "requests_refused", "grpc", "unknown_path")
          BY <3>2, <3>3 DEF Incremented
        <4> HIDE DEF a
        <4>2. QED BY <1>2, <3>1, <3>3, <4>1, RefusedRPCEnds
      <3>4. QED BY <1>7, <2>1, <3>3
    <2>3. CASE Exported(r) /\ counted[r] = <<>>
      <3>1. a = GrpcAnswer("OK", NoDelay) /\ outcome[r] = NoOutcome /\ ~TooLarge(m)
        BY <2>3 DEF Exported
      <3>2. ASSUME Ended(r, m, a, outcome[r]), counted'[r] = counted[r]
            PROVE  OnceCounted(r)' /\ Capped(r)' /\ Told(r)'
        <4> HIDE DEF a
        <4>1. QED BY <1>2, <2>3, <3>1, <3>2, EmptyEnds
      <3>3. QED BY <1>7, <2>1, <3>2
    <2>4. CASE Exported(r) /\ counted[r] # <<>>
      <3> DEFINE o == outcome[r]
                 st == StatusFromConsumerError(o)
      <3>1. o \in Outcomes /\ ~TooLarge(m) /\ a = GrpcAnswer(st.code, st.delay)
        BY <2>4 DEF Exported
      <3>2. PICK w \in {"accepted", "refused"} : counted[r] = <<<<"receiver", "grpc", w>>>>
        BY <2>4 DEF Exported
      <3>3. ASSUME Ended(r, m, a, outcome[r]), counted'[r] = counted[r]
            PROVE  OnceCounted(r)' /\ Capped(r)' /\ Told(r)'
        <4>1. Incremented(r, "receiver", "grpc", w)
          BY <3>2, <3>3 DEF Incremented
        <4> HIDE DEF a
        <4>2. QED BY <1>2, <3>1, <3>3, <4>1, ExportedEnds
      <3>4. QED BY <1>7, <2>1, <3>3
    <2>5. ~NotHandled(r)
      BY <1>8 DEF NotHandled
    <2>6. QED BY <1>4, <2>2, <2>3, <2>4, <2>5
  <1>9. CASE ~req[r].handled
    <2>1. NotHandled(r)
      BY <1>4, <1>9 DEF Unknown, Exported
    <2>2. reason = GrpcRefusalReason(req[r].code) /\ counted[r] = <<>> /\ outcome[r] = NoOutcome
      BY <1>9, <2>1 DEF NotHandled
    <2>3. a = GrpcAnswer(req[r].code, NoDelay)
      BY <2>1 DEF NotHandled
    <2>4. CASE req[r].code \in {"Canceled", "DeadlineExceeded"}
      <3>1. reason = {}
        BY <2>2, <2>4 DEF GrpcRefusalReason
      <3>2. UNCHANGED counted
        BY <1>1, <3>1
      <3>3. ASSUME Ended(r, m, a, outcome[r]), counted'[r] = counted[r]
            PROVE  OnceCounted(r)' /\ Capped(r)' /\ Told(r)'
        <4> HIDE DEF a
        <4>1. QED BY <1>2, <2>2, <2>3, <2>4, <3>3, CancelledRPCEnds
      <3>4. QED BY <1>7, <3>2, <3>3
    <2>5. CASE req[r].code \in {"ResourceExhausted", "Internal"}
      <3> DEFINE w == IF req[r].code = "Internal" THEN "decode" ELSE "body_too_large"
                 c == <<<<"requests_refused", t, w>>>>
      <3>1. reason = {w}
        BY <2>2, <2>5 DEF GrpcRefusalReason
      <3>2. \/ req[r].code = "ResourceExhausted" /\ w = "body_too_large" /\ TooLarge(m)
            \/ req[r].code = "Internal" /\ w = "decode" /\ ~TooLarge(m)
        BY <2>1, <2>5 DEF NotHandled
      <3>3. w \in Reasons
        BY DEF Reasons
      <3>4. Count(r, "requests_refused", w)
        BY <1>1, <3>1
      <3> HIDE DEF w
      <3>5. counted' = Updated(counted, r, c) /\ c \in Seq(Increment)
        BY <2>2, <3>3, <3>4, FirstIncrement
      <3>6. ASSUME Ended(r, m, a, NoOutcome), Incremented(r, "requests_refused", t, w)
            PROVE  OnceCounted(r)' /\ Capped(r)' /\ Told(r)'
        <4> HIDE DEF a
        <4>1. QED BY <1>2, <1>5, <2>3, <3>2, <3>6, RefusedRPCEnds
      <3>7. ASSUME Ended(r, m, a, NoOutcome), counted'[r] = c
            PROVE  OnceCounted(r)' /\ Capped(r)' /\ Told(r)'
        BY <3>6, <3>7 DEF Incremented
      <3>8. outcome' = Updated(outcome, r, NoOutcome) /\ NoOutcome \in Outcomes \cup {NoOutcome}
        BY <1>3, <2>2
      <3> HIDE DEF c, a
      <3>9. QED BY <1>1, <1>2, <1>6, <3>5, <3>7, <3>8, ReplyStep
    <2>6. QED BY <2>1, <2>4, <2>5 DEF NotHandled
  <1>10. QED BY <1>8, <1>9

-----------------------------------------------------------------------------
(* The theorems. *)

LEMMA InitHolds == Init => IInv
  <1> SUFFICES ASSUME Init PROVE IInv
    OBVIOUS
  <1>1. Idle \in Request /\ Idle.at = "idle" /\ Idle.handled = FALSE
    BY DEF Idle, Request, Places, Delays
  <1>2. NoAnswer \in Answer
    BY DEF NoAnswer, Answer, Delays
  <1>3. TypeOK
    BY <1>1, <1>2 DEF Init, TypeOK
  <1>4. ASSUME NEW r \in Req PROVE Phase(r) /\ Settled(r) /\ Final(r)
    <2>1. req[r] = Idle /\ answer[r] = NoAnswer /\ counted[r] = <<>> /\ outcome[r] = NoOutcome
      BY DEF Init
    <2>2. req[r].at = "idle" /\ req[r].handled = FALSE
      BY <1>1, <2>1
    <2>3. QED BY <2>1, <2>2 DEF Phase, Untouched, Settled, Final
  <1>5. QED BY <1>3, <1>4 DEF IInv

LEMMA NextPreserves == IInv /\ [Next]_vars => IInv'
  <1> SUFFICES ASSUME IInv, [Next]_vars PROVE IInv'
    OBVIOUS
  <1>1. CASE UNCHANGED <<req, answer, counted, outcome>> /\ TypeOK'
    <2>1. ASSUME NEW j \in Req PROVE Phase(j)' /\ Settled(j)' /\ Final(j)'
      BY <1>1, Undisturbed DEF IInv
    <2>2. QED BY <1>1, <2>1 DEF IInv
  <1>2. CASE Start \/ Shutdown \/ ShutdownReturns \/ UNCHANGED vars
    BY <1>1, <1>2 DEF Start, Shutdown, ShutdownReturns, vars, IInv, TypeOK
  <1>3. ASSUME NEW r \in Req, (\E m \in Messages : Arrive(r, m)) \/ Step(r) PROVE IInv'
    BY <1>3, ArriveStep, AuthenticateStep, DecompressStep, ServeExportStep, NoTransportStep, TagRPCStep,
       UnknownServiceStep, ReceiveStep, ExportStep, HandleRPCStep DEF Step
  <1>4. QED BY <1>2, <1>3 DEF Next

\* Whatever requests arrive, at whatever moment the receiver is shut down, what
\* it keeps of each is well-formed and known by how far the request is.
THEOREM Invariance == Spec => []IInv
  BY InitHolds, NextPreserves, PTL DEF Spec

\* Every variable of the receiver keeps its type: a request is where its
\* transport can be, with the counters and the answer of that place.
THEOREM TypeCorrect == Spec => []TypeOK
  <1>1. IInv => TypeOK
    BY DEF IInv
  <1>2. QED BY <1>1, Invariance, PTL

\* A request is counted once, by whom it concerns (markHandled, HandleRPC,
\* newErrorHandler), unless its client gave it up or it never became an RPC,
\* for any number of requests at once.
THEOREM RequestsAreCountedOnce == Spec => []CountedOnce
  <1>1. IInv => CountedOnce
    BY DEF IInv, Final, CountedOnce, Done
  <1>2. QED BY <1>1, Invariance, PTL

\* One body cap holds in both transports, for any cap that leaves room for the
\* frame header (newGRPCServer, exportHandler, Config.Validate).
THEOREM OneCapForBoth == Spec => []OneCap
  <1>1. IInv => OneCap
    BY DEF IInv, Final, OneCap, Done
  <1>2. QED BY <1>1, Invariance, PTL

\* The client is told what became of its data, whatever the pipeline returned
\* and whatever delay it asked for (statusFromConsumerError, writeStatus).
THEOREM ClientsAreTold == Spec => []AnswerTellsTheOutcome
  <1>1. IInv => AnswerTellsTheOutcome
    BY DEF IInv, Final, AnswerTellsTheOutcome, Done
  <1>2. QED BY <1>1, Invariance, PTL

-----------------------------------------------------------------------------
(* The receiver as the service drives it. *)

Over == {"ok", "late"}

\* The listener and its Shutdown.
Listener ==
    /\ stop = "no" => server \in {"none", "serving"}
    /\ stop = "waiting" <=> server = "draining"
    /\ stop = "ok" => server \in {"none", "closed"} /\ InFlight = {}
    /\ stop = "late" => server = "closed"
    /\ server = "none" => InFlight = {}

\* The receiver the pipelines share: opened and stopped once, for all of them.
Once ==
    /\ stopping # NoSignal <=> stop = "waiting"
    /\ service \in {"building", "starting", "running"} =>
          stop = "no" /\ \A sig \in Routes : handle[sig] # "stopped" /\ below[sig] # "down"
    /\ service = "building" => server = "none"
    /\ \A sig \in Routes : handle[sig] = "stopped" => stop \in Over
    /\ \A sig \in Routes : below[sig] = "down" => handle[sig] = "stopped"
    /\ Routes = {} => server = "none" /\ receivers = 0
    /\ service = "exited" =>
          \/ server = "none" /\ \A sig \in Routes : handle[sig] # "stopped"
          \/ Everyone(below, {"down"})

\* The registry: one receiver, until it is stopped.
Registry ==
    /\ built \in {0, 1}
    /\ stop \in {"no", "waiting"} => receivers = built
    /\ stop \in Over => receivers = 0

SharedIInv == IInv /\ SharedTypeOK /\ Listener /\ Once /\ Registry

-----------------------------------------------------------------------------
(* The service's steps are steps of the receiver, or none. *)

LEMMA SharedInitRefines == SharedInit => Init
  BY DEF SharedInit

LEMMA SharedStepRefines == [SharedNext]_allVars => [Next]_vars
  <1> SUFFICES ASSUME [SharedNext]_allVars PROVE [Next]_vars
    OBVIOUS
  <1>1. CASE UNCHANGED allVars
    BY <1>1 DEF allVars
  <1>2. ASSUME NEW sig \in Routes, Create(sig) \/ StartBelow(sig) \/ StopBelow(sig) PROVE [Next]_vars
    BY <1>2 DEF Create, StartBelow, StopBelow
  <1>3. ASSUME NEW sig \in Routes, StartReceiver(sig) PROVE [Next]_vars
    BY <1>3 DEF StartReceiver, Next
  <1>4. ASSUME NEW sig \in Routes, StopReceiver(sig) PROVE [Next]_vars
    BY <1>4 DEF StopReceiver, Next
  <1>5. CASE CreateFails \/ BeginStart \/ Started \/ BeginStop \/ Stopped
    BY <1>5 DEF CreateFails, BeginStart, Started, BeginStop, Stopped
  <1>6. CASE ReceiverStopped
    BY <1>6 DEF ReceiverStopped, Next
  <1>7. CASE \E r \in Req : ((\E m \in Messages : Arrive(r, m)) \/ Step(r)) /\ UNCHANGED sharedVars
    BY <1>7 DEF Next
  <1>8. QED BY <1>1, <1>2, <1>3, <1>4, <1>5, <1>6, <1>7 DEF SharedNext

\* What the service does to the shared receiver (factory.go) is what the
\* receiver alone allows: it is started once, and stopped once.
THEOREM SharedImplementsSinglePort == SharedSpec => Spec
  BY SharedInitRefines, SharedStepRefines, PTL DEF SharedSpec, Spec

-----------------------------------------------------------------------------
(* The steps of a request, as the service sees them. *)

LEMMA RequestActs ==
    ASSUME IInv, NEW r \in Req, (\E m \in Messages : Arrive(r, m)) \/ Step(r)
    PROVE  /\ UNCHANGED <<server, stop>>
           /\ server = "serving" \/ r \in InFlight
           /\ \A j \in Req : outcome'[j] # outcome[j] => j = r /\ req[r].at = "export"
  <1>1. CASE \E m \in Messages : Arrive(r, m)
    BY <1>1 DEF Arrive
  <1>2. CASE Authenticate(r) \/ Decompress(r) \/ ServeExport(r) \/ BodyAborted(r) \/ NoTransport(r)
    BY <1>2 DEF Authenticate, Decompress, ServeExport, BodyAborted, NoTransport, InFlight
  <1>3. CASE TagRPC(r) \/ UnknownService(r) \/ Receive(r) \/ RPCCancelled(r) \/ HandleRPC(r)
    BY <1>3 DEF TagRPC, UnknownService, Receive, RPCCancelled, HandleRPC, InFlight
  <1>4. ASSUME NEW o \in Outcomes, Export(r, o)
        PROVE  /\ UNCHANGED <<server, stop>> /\ r \in InFlight
               /\ \A j \in Req : outcome'[j] # outcome[j] => j = r /\ req[r].at = "export"
    <2>1. req[r].at = "export" /\ UNCHANGED <<server, stop>>
      BY <1>4 DEF Export
    <2>2. outcome' = outcome \/ outcome' = [outcome EXCEPT ![r] = o]
      BY <1>4 DEF Export
    <2>3. QED BY <2>1, <2>2 DEF InFlight, IInv, TypeOK
  <1>5. QED BY <1>1, <1>2, <1>3, <1>4 DEF Step

LEMMA RequestStep ==
    ASSUME SharedIInv, IInv', NEW r \in Req, (\E m \in Messages : Arrive(r, m)) \/ Step(r), UNCHANGED sharedVars
    PROVE  SharedIInv'
  <1> USE DEF SharedIInv
  <1>1. UNCHANGED <<server, stop>> /\ (server = "serving" \/ InFlight # {})
    BY RequestActs
  <1>2. SharedTypeOK'
    BY DEF SharedTypeOK, sharedVars, IInv
  <1>3. Listener'
    BY <1>1 DEF Listener, SharedTypeOK, TypeOK
  <1>4. Once' /\ Registry'
    BY <1>1 DEF Once, Registry, Everyone, sharedVars
  <1>5. QED BY <1>2, <1>3, <1>4

-----------------------------------------------------------------------------
(* The steps of the service. *)

LEMMA CreateStep ==
    ASSUME SharedIInv, IInv', NEW sig \in Routes, Create(sig)
    PROVE  SharedIInv'
  <1> USE DEF SharedIInv, Create
  <1>1. SharedTypeOK'
    BY DEF SharedTypeOK, IInv, Load, Becomes
  <1>2. Listener'
    BY DEF Listener, InFlight, vars
  <1>3. Once'
    <2>1. \A s \in Routes : handle'[s] = "stopped" => handle[s] = "stopped"
      BY DEF Becomes, SharedTypeOK
    <2>2. QED BY <2>1 DEF Once, vars, Everyone
  <1>4. Registry'
    <2>1. receivers = built /\ built \in {0, 1} /\ stop' = "no" /\ stop = "no"
      BY DEF Registry, Once, vars
    <2>2. receivers' = built' /\ built' \in {0, 1}
      BY <2>1 DEF Load
    <2>3. QED BY <2>1, <2>2 DEF Registry, Over
  <1>5. QED BY <1>1, <1>2, <1>3, <1>4

\* What leaves the receiver and the registry alone.
LEMMA QuietStep ==
    ASSUME SharedIInv, IInv', UNCHANGED <<vars, receivers, built, startOnce, stopping>>, SharedTypeOK', Once'
    PROVE  SharedIInv'
  BY DEF SharedIInv, Listener, InFlight, Registry, vars

LEMMA ServiceStep ==
    ASSUME SharedIInv, IInv', CreateFails \/ BeginStart \/ Started \/ BeginStop \/ Stopped
    PROVE  SharedIInv'
  <1> USE DEF SharedIInv, CreateFails, BeginStart, Started, BeginStop, Stopped
  <1>1. SharedTypeOK'
    BY DEF SharedTypeOK, IInv
  <1>2. Once'
    BY DEF Once, Everyone, vars
  <1>3. QED BY <1>1, <1>2, QuietStep

LEMMA StartBelowStep ==
    ASSUME SharedIInv, IInv', NEW sig \in Routes, StartBelow(sig)
    PROVE  SharedIInv'
  <1> USE DEF SharedIInv, StartBelow
  <1>1. SharedTypeOK'
    BY DEF SharedTypeOK, IInv, Becomes
  <1>2. Once'
    <2>1. \A s \in Routes : below'[s] = "down" => below[s] = "down"
      BY DEF Becomes, SharedTypeOK
    <2>2. QED BY <2>1 DEF Once, vars, Everyone
  <1>3. QED BY <1>1, <1>2, QuietStep

LEMMA StopBelowStep ==
    ASSUME SharedIInv, IInv', NEW sig \in Routes, StopBelow(sig)
    PROVE  SharedIInv'
  <1> USE DEF SharedIInv, StopBelow
  <1>1. SharedTypeOK'
    BY DEF SharedTypeOK, IInv, Becomes
  <1>2. Once'
    <2>1. \A s \in Routes : below'[s] = "down" => below[s] = "down" \/ s = sig
      BY DEF Becomes, SharedTypeOK
    <2>2. QED BY <2>1 DEF Once, vars, Everyone
  <1>3. QED BY <1>1, <1>2, QuietStep

LEMMA StartReceiverStep ==
    ASSUME SharedIInv, IInv', NEW sig \in Routes, StartReceiver(sig)
    PROVE  SharedIInv'
  <1> USE DEF SharedIInv
  <1>1. /\ service = "starting" /\ stop = "no" /\ UNCHANGED <<stop, req, receivers, built, below, stopping>>
        /\ server' = server \/ (server = "none" /\ server' = "serving")
        /\ service' \in {"starting", "stopping"}
    BY DEF StartReceiver, Start, vars, Once
  <1>2. /\ startOnce' \in {"no", "ok", "failed"}
        /\ handle' \in [Routes -> {"none", "created", "started", "failed", "stopped"}]
        /\ \A s \in Routes : handle'[s] # "stopped"
    BY DEF StartReceiver, Becomes, SharedTypeOK, Once
  <1>3. SharedTypeOK'
    BY <1>1, <1>2 DEF SharedTypeOK, IInv
  <1>4. Listener'
    BY <1>1 DEF Listener, InFlight
  <1>5. Once'
    BY <1>1, <1>2 DEF Once
  <1>6. Registry'
    BY <1>1 DEF Registry
  <1>7. QED BY <1>3, <1>4, <1>5, <1>6

LEMMA StopReceiverStep ==
    ASSUME SharedIInv, IInv', NEW sig \in Routes, StopReceiver(sig)
    PROVE  SharedIInv'
  <1> USE DEF SharedIInv
  <1>1. /\ service = "stopping" /\ stopping = NoSignal /\ UNCHANGED <<service, built, below, startOnce, req>>
        /\ receivers' = IF stop' = "ok" THEN 0 ELSE receivers
    BY DEF StopReceiver, Shutdown, vars
  <1>2. SharedTypeOK'
    BY DEF StopReceiver, Becomes, SharedTypeOK, IInv
  <1>3. CASE stop = "no" /\ server = "serving"
    <2>1. server' = "draining" /\ stop' = "waiting" /\ stopping' = sig /\ handle' = handle /\ receivers' = receivers
      BY <1>1, <1>3 DEF StopReceiver, Shutdown
    <2>2. Listener' /\ Once' /\ Registry'
      BY <1>1, <1>3, <2>1, SignalsAreNamed DEF Listener, InFlight, Once, Registry, Over, Everyone
    <2>3. QED BY <1>2, <2>2
  <1>4. CASE stop # "no" \/ server # "serving"
    <2>1. /\ server' = server /\ stopping' = NoSignal /\ handle' = Becomes(handle, sig, "stopped")
          /\ stop' = stop \/ (stop = "no" /\ server = "none" /\ stop' = "ok")
          /\ stop' # "no"
      BY <1>1, <1>4 DEF StopReceiver, Shutdown, vars
    <2>2. stop' \in Over
      BY <1>1, <2>1 DEF Once, Over, SharedTypeOK, TypeOK
    <2>3. \A s \in Routes : handle[s] = "stopped" => handle'[s] = "stopped"
      BY <2>1 DEF Becomes, SharedTypeOK
    <2>4. Listener'
      BY <1>1, <2>1, <2>2 DEF Listener, InFlight, Over
    <2>5. Once'
      BY <1>1, <2>1, <2>2, <2>3 DEF Once, Over
    <2>6. Registry'
      BY <1>1, <2>1, <2>2 DEF Registry, Over
    <2>7. QED BY <1>2, <2>4, <2>5, <2>6
  <1>5. QED BY <1>3, <1>4

LEMMA ReceiverStoppedStep ==
    ASSUME SharedIInv, IInv', ReceiverStopped
    PROVE  SharedIInv'
  <1> USE DEF SharedIInv
  <1>1. /\ stopping \in Routes /\ stop = "waiting" /\ server' = "closed" /\ stop' \in Over
        /\ stop' = "ok" => InFlight = {}
        /\ handle' = Becomes(handle, stopping, "stopped") /\ stopping' = NoSignal /\ receivers' = 0
        /\ UNCHANGED <<req, service, built, below, startOnce>>
    BY DEF ReceiverStopped, ShutdownReturns, SharedTypeOK, Over
  <1>2. SharedTypeOK'
    BY <1>1 DEF Becomes, SharedTypeOK, IInv
  <1>3. \A s \in Routes : handle[s] = "stopped" => handle'[s] = "stopped"
    BY <1>1 DEF Becomes, SharedTypeOK
  <1>4. Listener'
    BY <1>1 DEF Listener, InFlight, Over
  <1>5. service \notin {"building", "starting", "running"} /\ server = "draining"
    BY <1>1 DEF Once, Listener
  <1>6. Once'
    BY <1>1, <1>3, <1>5 DEF Once, Over, Everyone
  <1>7. Registry'
    BY <1>1 DEF Registry, Over
  <1>8. QED BY <1>2, <1>4, <1>6, <1>7

-----------------------------------------------------------------------------
(* The theorems. *)

LEMMA SharedInitHolds == SharedInit => SharedIInv
  <1> SUFFICES ASSUME SharedInit PROVE SharedIInv
    OBVIOUS
  <1>1. IInv /\ Init
    BY InitHolds DEF SharedInit
  <1>2. InFlight = {}
    <2>1. Idle.at = "idle"
      BY DEF Idle
    <2>2. QED BY <1>1, <2>1 DEF Init, InFlight
  <1>3. SharedTypeOK
    BY <1>1 DEF SharedInit, SharedTypeOK, IInv
  <1>4. Listener /\ Once /\ Registry
    BY <1>1, <1>2 DEF SharedInit, Init, Listener, Once, Registry, Over
  <1>5. QED BY <1>1, <1>3, <1>4 DEF SharedIInv

LEMMA SharedNextPreserves == SharedIInv /\ [SharedNext]_allVars => SharedIInv'
  <1> SUFFICES ASSUME SharedIInv, [SharedNext]_allVars PROVE SharedIInv'
    OBVIOUS
  <1>1. IInv'
    BY SharedStepRefines, NextPreserves DEF SharedIInv
  <1>2. CASE UNCHANGED allVars
    BY <1>1, <1>2 DEF allVars, vars, sharedVars, SharedIInv, SharedTypeOK, IInv, Listener, InFlight, Once, Registry, Everyone
  <1>3. ASSUME NEW sig \in Routes,
               Create(sig) \/ StartBelow(sig) \/ StartReceiver(sig) \/ StopReceiver(sig) \/ StopBelow(sig)
        PROVE  SharedIInv'
    BY <1>1, <1>3, CreateStep, StartBelowStep, StartReceiverStep, StopReceiverStep, StopBelowStep
  <1>4. CASE CreateFails \/ BeginStart \/ Started \/ BeginStop \/ ReceiverStopped \/ Stopped
    BY <1>1, <1>4, ServiceStep, ReceiverStoppedStep
  <1>5. CASE \E r \in Req : ((\E m \in Messages : Arrive(r, m)) \/ Step(r)) /\ UNCHANGED sharedVars
    BY <1>1, <1>5, RequestStep
  <1>6. QED BY <1>2, <1>3, <1>4, <1>5 DEF SharedNext

\* Whatever the service builds, starts, fails to start and stops, in whatever
\* order, the listener, the pipelines and the registry agree.
THEOREM SharedInvariance == SharedSpec => []SharedIInv
  BY SharedInitHolds, SharedNextPreserves, PTL DEF SharedSpec

\* The registry, the components and the receiver keep their types, for any
\* signals (factory.go).
THEOREM SharedTypeCorrect == SharedSpec => []SharedTypeOK
  <1>1. SharedIInv => SharedTypeOK
    BY DEF SharedIInv
  <1>2. QED BY <1>1, SharedInvariance, PTL

\* The process ends with the listener closed or never opened, however many
\* pipelines share it and wherever starting them failed (sharedReceiver).
THEOREM ListenerIsClosed == SharedSpec => []NothingLeftListening
  <1>1. SharedIInv => NothingLeftListening
    <2> SUFFICES ASSUME SharedIInv PROVE NothingLeftListening
      OBVIOUS
    <2> USE DEF SharedIInv
    <2>1. built <= 1
      BY DEF Registry
    <2>2. ASSUME service = "exited", server = "none", \A sig \in Routes : handle[sig] # "stopped"
          PROVE  /\ server \in {"none", "closed"} /\ InFlight = {}
                 /\ Everyone(handle, {"stopped"}) => receivers = 0
      BY <2>2 DEF Listener, Once, Everyone
    <2>3. ASSUME service = "exited", Everyone(below, {"down"}), NEW sig \in Routes
          PROVE  /\ server \in {"none", "closed"} /\ (InFlight = {} \/ stop = "late")
                 /\ receivers = 0
      <3>1. handle[sig] = "stopped"
        BY <2>3 DEF Once, Everyone
      <3>2. stop \in Over
        BY <3>1 DEF Once
      <3>3. QED BY <3>2 DEF Over, Listener, Registry
    <2>4. CASE Routes = {}
      BY <2>1, <2>4 DEF NothingLeftListening, Once, Listener
    <2>5. CASE Routes # {}
      BY <2>1, <2>2, <2>3, <2>5 DEF NothingLeftListening, Once
    <2>6. QED BY <2>4, <2>5
  <1>2. QED BY <1>1, SharedInvariance, PTL

\* No request's data reaches a pipeline that was shut down, unless Shutdown
\* said it gave up waiting, for any number of signals and requests and any
\* order of stopping (sharedReceiver.Shutdown, singlePort.Shutdown).
THEOREM StoppedPipelinesGetNoData == SharedSpec => NoDataToStoppedPipeline
  <1> DEFINE Safe == \A r \in Req : outcome'[r] # outcome[r] => below[req[r].m.path] # "down" \/ stop = "late"
  <1>1. SharedIInv /\ [SharedNext]_allVars => [Safe]_allVars
    <2> SUFFICES ASSUME SharedIInv, SharedNext, NEW j \in Req, outcome'[j] # outcome[j], stop # "late",
                        below[req[j].m.path] = "down"
                 PROVE  FALSE
      OBVIOUS
    <2>1. req[j].at = "export"
      <3>1. PICK r \in Req : (\E m \in Messages : Arrive(r, m)) \/ Step(r)
        BY DEF SharedNext, Create, StartBelow, StartReceiver, StopReceiver, StopBelow, CreateFails, BeginStart,
               Started, BeginStop, ReceiverStopped, Stopped, Start, Shutdown, ShutdownReturns, vars
      <3>2. QED BY <3>1, RequestActs DEF SharedIInv
    <2>2. req[j].m.path \in Routes /\ j \in InFlight
      BY <2>1 DEF SharedIInv, IInv, Phase, InFlight
    <2>3. stop = "ok"
      BY <2>2 DEF SharedIInv, Once, Over
    <2>4. QED BY <2>2, <2>3 DEF SharedIInv, Listener
  <1>2. QED BY <1>1, SharedInvariance, PTL DEF SharedSpec, NoDataToStoppedPipeline

\* And what holds of the receiver alone holds of the shared one.
THEOREM SharedReceiverServes == SharedSpec => [](CountedOnce /\ OneCap /\ AnswerTellsTheOutcome)
  BY SharedImplementsSinglePort, RequestsAreCountedOnce, OneCapForBoth, ClientsAreTold, PTL

=============================================================================
