--------------------------- MODULE PipelineProofs ---------------------------
(* Proofs of the pipeline's invariants, for any items, payloads, settings and *)
(* pace of the clock.                                                        *)
EXTENDS Pipeline, TLAPS

\* Which processors a chain has, and at which place.
LEMMA IdentityChain ==
    ASSUME NEW i \in Items, sent[i].kind # "metric"
    PROVE  /\ Len(Chain(i)) = 6
           /\ At(i, "memory_limiter") => place[i] = 1
           /\ At(i, "filter/bounds") => place[i] = 2
           /\ At(i, "transform/bounds") => place[i] = 3
           /\ At(i, "attributes/identity") => place[i] = 4
           /\ At(i, "resource/identity") => place[i] = 5
           /\ At(i, "batch") => place[i] = 6
           /\ \A p \in {"filter/metrics", "transform/metrics", "resource/metrics", "deltatocumulative"} : ~At(i, p)
  BY DEF Chain, At, IdentityProcessors

LEMMA MetricChain ==
    ASSUME NEW i \in Items, sent[i].kind = "metric"
    PROVE  /\ Len(Chain(i)) \in {5, 6}
           /\ At(i, "memory_limiter") => place[i] = 1
           /\ At(i, "filter/metrics") => place[i] = 2
           /\ At(i, "transform/metrics") => place[i] = 3
           /\ At(i, "resource/metrics") => place[i] = 4 /\ DOMAIN Static # {}
           /\ At(i, "deltatocumulative") => place[i] = 5 \/ (place[i] = 4 /\ DOMAIN Static = {})
           /\ At(i, "batch") => place[i] = 6 \/ (place[i] = 5 /\ DOMAIN Static = {})
           /\ \A p \in {"filter/bounds", "transform/bounds", "attributes/identity", "resource/identity"} : ~At(i, p)
  <1>1. CASE DOMAIN Static # {}
    BY <1>1 DEF Chain, At, MetricProcessors
  <1>2. CASE DOMAIN Static = {}
    BY <1>2 DEF Chain, At, MetricProcessors
  <1>3. QED BY <1>1, <1>2

-----------------------------------------------------------------------------

\* Time, and what happens to other items, leaves an item good.
LEMMA Undisturbed ==
    ASSUME IInv, NEW j \in Items, sent' = sent, item'[j] = item[j], place'[j] = place[j],
           stmt'[j] = stmt[j], ctx'[j] = ctx[j], read'[j] = read[j], clock' \in Nat, clock <= clock'
    PROVE  Good(j)'
  <1> USE DEF IInv, Good
  <1>1. Stage(j)'
    BY DEF Stage, Chain
  <1>2. Clamped(j)'
    BY SettingsValid DEF Clamped, Late, Types, Payload
  <1>3. Timely(j)'
    BY DEF Timely, InBounds
  <1>4. Stamped(j)'
    BY DEF Stamped
  <1>5. Stripped(j)'
    BY DEF Stripped
  <1>6. QED BY <1>1, <1>2, <1>3, <1>4, <1>5

\* An item that is not changed by moving on or out, before the clamps or past
\* all that changes it.
LEMMA Moved ==
    ASSUME IInv, NEW i \in Items, NEW n \in {0, place[i] + 1}, place[i] \in DOMAIN Chain(i),
           sent' = sent, item' = item, stmt' = stmt, read' = read, clock' = clock,
           place'[i] = n, ctx'[i] \in [Keys -> Values],
           ctx'[i] = ctx[i] \/ place[i] = 6 \/ sent[i].kind = "metric",
           place[i] \in {1, 2, 6} \/ (sent[i].kind = "metric" /\ place[i] # 3 /\ (place[i] = 4 => DOMAIN Static = {}))
    PROVE  Good(i)'
  <1> USE DEF IInv, Good
  <1>0. Chain(i)' = Chain(i) /\ place[i] \in 1..Len(Chain(i)) /\ Len(Chain(i)) \in Nat
    BY DEF Chain, MetricProcessors, IdentityProcessors
  <1>a. place[i] \in Nat /\ (place'[i] = 0 \/ place'[i] = place[i] + 1)
    BY DEF Types
  <1>1. Stage(i)'
    <2>1. place'[i] \in 0..(Len(Chain(i)') + 1)
      BY <1>0, <1>a
    <2>2. place'[i] # 0 /\ sent[i].kind # "metric" => place[i] \in {1, 2, 6} /\ place'[i] = place[i] + 1
      BY <1>a
    <2>3. sent[i].kind = "span" /\ place'[i] # 0 =>
             /\ place'[i] < 3 => stmt[i] = "ifStart"
             /\ place'[i] = 3 => stmt[i] \in SpanStatements
             /\ place'[i] > 3 => stmt[i] = "done"
      BY <2>2 DEF Stage, SpanStatements
    <2>4. sent[i].kind = "log" /\ place'[i] # 0 =>
             /\ place'[i] < 3 => stmt[i] = "ifTime"
             /\ place'[i] = 3 => stmt[i] \in LogStatements
             /\ place'[i] > 3 => stmt[i] = "done"
      BY <2>2 DEF Stage, LogStatements
    <2>5. QED BY <2>1, <2>3, <2>4 DEF Stage
  <1>2. Clamped(i)'
    BY DEF Clamped, Late, Types
  <1>3. Stamped(i)'
    BY IdentityChain, <1>0, <1>a DEF Stamped
  <1>4. Stripped(i)'
    <2> SUFFICES ASSUME sent[i].kind = "metric", place'[i] > 3,
                        NEW h \in Holders, NEW k \in Targets \cup IdentityLike
                 PROVE  item[i].attrs[h][k] =
                           IF h = "resource" /\ k \in DOMAIN Static /\ place'[i] > 4 THEN Static[k] ELSE Absent
      BY DEF Stripped
    <2>1. place'[i] = place[i] + 1 /\ place[i] > 3
      BY <1>a
    <2>2. k \in DOMAIN Static => place[i] > 4
      BY <2>1, <1>a
    <2>3. QED BY <2>1, <2>2, <1>a DEF Stripped
  <1>5. Timely(i)'
    BY DEF Timely, InBounds
  <1>6. QED BY <1>1, <1>2, <1>3, <1>4, <1>5

-----------------------------------------------------------------------------
(* One lemma per processor. *)

\* The limits and the filters move an item on or out, and change nothing.
LEMMA LimitOrFilterStep ==
    ASSUME IInv, NEW i \in Items, Limit(i) \/ FilterBounds(i) \/ FilterMetrics(i)
    PROVE  IInv'
  <1>1. /\ place' = [place EXCEPT ![i] = 0] \/ place' = [place EXCEPT ![i] = place[i] + 1]
        /\ sent' = sent /\ item' = item /\ stmt' = stmt /\ ctx' = ctx /\ clock' = clock /\ read' = read
    BY DEF Limit, FilterBounds, FilterMetrics, Leave, Drop
  <1>2. Types'
    BY <1>1 DEF IInv, Types
  <1>3. ASSUME NEW j \in Items, j # i PROVE Good(j)'
    BY <1>1, <1>3, Undisturbed DEF IInv, Types
  <1>4. Good(i)'
    <2>1. \/ At(i, "memory_limiter") \/ At(i, "deltatocumulative") \/ At(i, "filter/bounds") \/ At(i, "filter/metrics")
      BY DEF Limit, FilterBounds, FilterMetrics
    <2>2. place[i] \in DOMAIN Chain(i)
      BY <2>1 DEF At
    <2>3. CASE sent[i].kind = "metric"
      <3>1. place[i] # 3 /\ (place[i] = 4 => DOMAIN Static = {})
        <4>1. ~At(i, "filter/bounds")
          BY <2>3, MetricChain
        <4>2. CASE At(i, "deltatocumulative")
          BY <2>3, <4>2, MetricChain
        <4>3. CASE At(i, "memory_limiter") \/ At(i, "filter/metrics")
          BY <2>3, <4>3, MetricChain
        <4>4. QED BY <2>1, <4>1, <4>2, <4>3
      <3>2. place'[i] \in {0, place[i] + 1} /\ ctx'[i] \in [Keys -> Values]
        BY <1>1 DEF IInv, Types
      <3>3. QED BY <1>1, <2>2, <2>3, <3>1, <3>2, Moved
    <2>4. CASE sent[i].kind # "metric"
      <3>1. place[i] \in {1, 2, 6}
        BY <2>1, <2>4, IdentityChain
      <3>2. place'[i] \in {0, place[i] + 1} /\ ctx'[i] \in [Keys -> Values]
        BY <1>1 DEF IInv, Types
      <3>3. QED BY <1>1, <2>2, <3>1, <3>2, Moved
    <2>5. QED BY <2>3, <2>4
  <1>5. QED BY <1>2, <1>3, <1>4 DEF IInv

LEMMA BatchStep ==
    ASSUME IInv, NEW S \in SUBSET Items, Batch(S)
    PROVE  IInv'
  <1>1. Types'
    BY PayloadsTyped DEF IInv, Types, Batch, Nobody
  <1>2. ASSUME NEW j \in Items, j \notin S PROVE Good(j)'
    BY <1>2, Undisturbed DEF Batch, IInv, Types
  <1>3. ASSUME NEW i \in Items, i \in S PROVE Good(i)'
    <2>1. /\ At(i, "batch") /\ place'[i] = place[i] + 1 /\ ctx'[i] \in [Keys -> Values]
          /\ sent' = sent /\ item' = item /\ stmt' = stmt /\ clock' = clock /\ read' = read
      BY <1>1, <1>3 DEF Batch, Types
    <2>2. place[i] \in DOMAIN Chain(i)
      BY <2>1 DEF At
    <2>3. \/ place[i] = 6
          \/ sent[i].kind = "metric" /\ place[i] # 3 /\ (place[i] = 4 => DOMAIN Static = {})
      BY <2>1, IdentityChain, MetricChain
    <2>4. QED BY <2>1, <2>2, <2>3, Moved
  <1>4. QED BY <1>1, <1>2, <1>3 DEF IInv

LEMMA TickStep ==
    ASSUME IInv, Tick
    PROVE  IInv'
  <1>1. clock \in Nat /\ clock' = clock + 1 /\ Types'
    BY SettingsValid DEF IInv, Types, Tick
  <1>2. ASSUME NEW j \in Items PROVE Good(j)'
    BY <1>1, Undisturbed DEF Tick
  <1>3. QED BY <1>1, <1>2 DEF IInv

\* At the clamps an item is a span or a record, at place 3, unchanged but for
\* its times; what is left to show of a statement is what it does to these.
LEMMA ClampStep ==
    ASSUME IInv, NEW i \in Items, At(i, "transform/bounds"), sent' = sent, ctx' = ctx, clock' = clock,
           NEW t \in SpanStatements \cup LogStatements \cup {"done"}, NEW n \in {3, 4},
           item' \in [Items -> Payload], item'[i].attrs = item[i].attrs, \A j \in Items : j # i => item'[j] = item[j],
           stmt' = [stmt EXCEPT ![i] = t], place' = [place EXCEPT ![i] = n],
           read' = read \/ read' = [read EXCEPT ![i] = clock],
           \/ n = 4 /\ t = "done"
           \/ n = 3 /\ (sent[i].kind = "span" => t \in SpanStatements) /\ (sent[i].kind = "log" => t \in LogStatements),
           Clamped(i)', Timely(i)'
    PROVE  IInv'
  <1>0. place[i] = 3 /\ sent[i].kind # "metric" /\ Len(Chain(i)) = 6 /\ Chain(i)' = Chain(i)
    BY IdentityChain, MetricChain DEF Chain
  <1>1. Types'
    <2>3. stmt' \in [Items -> SpanStatements \cup LogStatements \cup {"done"}] /\ place' \in [Items -> Nat]
      BY DEF IInv, Types
    <2>4. read' \in [Items -> Nat] /\ clock' \in Nat /\ StartClock <= clock' /\ ctx' \in [Items -> [Keys -> Values]] /\ sent' \in [Items -> Payload]
      BY DEF IInv, Types
    <2>5. QED BY <2>3, <2>4 DEF Types
  <1>2. ASSUME NEW j \in Items, j # i PROVE Good(j)'
    <2>1. /\ item'[j] = item[j] /\ stmt'[j] = stmt[j] /\ place'[j] = place[j] /\ read'[j] = read[j]
          /\ ctx'[j] = ctx[j] /\ clock' \in Nat /\ clock <= clock'
      BY <1>2 DEF IInv, Types
    <2>2. QED BY <2>1, Undisturbed
  <1>3. Good(i)'
    <2>1. place'[i] = n /\ stmt'[i] = t
      BY DEF IInv, Types
    <2>2. Stage(i)'
      <3>1. place'[i] \in 0..(Len(Chain(i)') + 1)
        <4>1. Len(Chain(i)') = 6
          BY <1>0
        <4>2. QED BY <2>1, <4>1
      <3>2. CASE n = 4 /\ t = "done"
        BY <2>1, <3>1, <3>2 DEF Stage
      <3>3. CASE n = 3 /\ (sent[i].kind = "span" => t \in SpanStatements) /\ (sent[i].kind = "log" => t \in LogStatements)
        BY <2>1, <3>1, <3>3 DEF Stage
      <3>4. QED BY <3>2, <3>3
    <2>3. Stamped(i)'
      BY <1>0, <2>1 DEF IInv, Good, Stamped
    <2>4. Stripped(i)'
      BY <1>0 DEF Stripped
    <2>5. QED BY <2>2, <2>3, <2>4 DEF Good
  <1>4. QED BY <1>1, <1>2, <1>3 DEF IInv

\* A set of one of an item's times.
LEMMA SetStartTime ==
    ASSUME Types, NEW i \in Items, NEW v \in Nat, item' = [item EXCEPT ![i].start = v]
    PROVE  /\ item' \in [Items -> Payload] /\ \A j \in Items : j # i => item'[j] = item[j]
           /\ item'[i].start = v /\ item'[i].end = item[i].end /\ item'[i].attrs = item[i].attrs
  <1>1. item[i] \in Payload
    BY DEF Types
  <1>2. [item[i] EXCEPT !.start = v] \in Payload
    BY <1>1 DEF Payload
  <1>3. item' = [item EXCEPT ![i] = [item[i] EXCEPT !.start = v]]
    BY DEF Types
  <1>4. item' \in [Items -> Payload] /\ (\A j \in Items : j # i => item'[j] = item[j]) /\ item'[i] = [item[i] EXCEPT !.start = v]
    BY <1>2, <1>3 DEF Types
  <1>5. QED BY <1>1, <1>4 DEF Payload

LEMMA SetEndTime ==
    ASSUME Types, NEW i \in Items, NEW v \in Nat, item' = [item EXCEPT ![i].end = v]
    PROVE  /\ item' \in [Items -> Payload] /\ \A j \in Items : j # i => item'[j] = item[j]
           /\ item'[i].end = v /\ item'[i].start = item[i].start /\ item'[i].attrs = item[i].attrs
  <1>1. item[i] \in Payload
    BY DEF Types
  <1>2. [item[i] EXCEPT !.end = v] \in Payload
    BY <1>1 DEF Payload
  <1>3. item' = [item EXCEPT ![i] = [item[i] EXCEPT !.end = v]]
    BY DEF Types
  <1>4. item' \in [Items -> Payload] /\ (\A j \in Items : j # i => item'[j] = item[j]) /\ item'[i] = [item[i] EXCEPT !.end = v]
    BY <1>2, <1>3 DEF Types
  <1>5. QED BY <1>1, <1>4 DEF Payload

LEMMA AtClamps ==
    ASSUME IInv, NEW i \in Items, At(i, "transform/bounds")
    PROVE  /\ place[i] = 3 /\ place = [place EXCEPT ![i] = 3] /\ [place EXCEPT ![i] = @ + 1] = [place EXCEPT ![i] = 4]
           /\ \/ sent[i].kind = "span" /\ stmt[i] \in SpanStatements
              \/ sent[i].kind = "log" /\ stmt[i] \in LogStatements
           /\ item[i].start \in Nat /\ item[i].end \in Nat /\ sent[i].start \in Nat /\ sent[i].end \in Nat
           /\ clock \in Nat /\ read[i] \in Nat /\ MaxFutureSkew \in Nat /\ Clamped(i)
           /\ StartClock \in Nat /\ StartClock <= clock /\ Timely(i)
  <1>1. place[i] = 3 /\ sent[i].kind # "metric"
    BY IdentityChain, MetricChain
  <1>2. place = [place EXCEPT ![i] = 3] /\ [place EXCEPT ![i] = @ + 1] = [place EXCEPT ![i] = 4]
    BY <1>1 DEF IInv, Types
  <1>3. item[i] \in Payload /\ sent[i] \in Payload /\ clock \in Nat /\ StartClock <= clock /\ read[i] \in Nat /\ Good(i)
    BY DEF IInv, Types
  <1>4. sent[i].kind \in {"span", "log"}
    BY <1>1, <1>3 DEF Payload, Kinds
  <1>5. /\ sent[i].kind = "span" => stmt[i] \in SpanStatements
        /\ sent[i].kind = "log" => stmt[i] \in LogStatements
    BY <1>1, <1>3 DEF Good, Stage
  <1>6. QED BY <1>1, <1>2, <1>3, <1>4, <1>5, SettingsValid DEF Good, Payload

\* A condition changes no time; it may be the first, which notes the clock.
LEMMA ConditionStep ==
    ASSUME IInv, NEW i \in Items, At(i, "transform/bounds"), sent' = sent, ctx' = ctx, clock' = clock,
           StartAhead(i) \/ EndAhead(i) \/ EndOver(i) \/ TimeAhead(i)
    PROVE  IInv'
  <1>a. /\ place[i] = 3 /\ place = [place EXCEPT ![i] = 3] /\ [place EXCEPT ![i] = @ + 1] = [place EXCEPT ![i] = 4]
        /\ \/ sent[i].kind = "span" /\ stmt[i] \in SpanStatements
           \/ sent[i].kind = "log" /\ stmt[i] \in LogStatements
    BY AtClamps
  <1>b. /\ item[i].start \in Nat /\ item[i].end \in Nat /\ sent[i].start \in Nat /\ sent[i].end \in Nat
        /\ clock \in Nat /\ read[i] \in Nat /\ MaxFutureSkew \in Nat /\ Clamped(i) /\ place[i] = 3
        /\ StartClock \in Nat /\ StartClock <= clock /\ Timely(i)
    BY AtClamps
  <1>0. item' = item /\ item' \in [Items -> Payload] /\ stmt \in [Items -> SpanStatements \cup LogStatements \cup {"done"}]
        /\ read \in [Items -> Nat] /\ place \in [Items -> Nat]
    BY DEF IInv, Types, StartAhead, EndAhead, EndOver, TimeAhead
  <1>1. CASE StartAhead(i)
    <2>0. sent[i].kind = "span" /\ stmt[i] = "ifStart" /\ read' = [read EXCEPT ![i] = clock] /\ read'[i] = clock /\ place' = place
      BY <1>0, <1>1, <1>a DEF StartAhead, LogStatements
    <2>1. CASE item[i].start > clock + MaxFutureSkew
      <3>1. stmt' = [stmt EXCEPT ![i] = "setStart"] /\ stmt'[i] = "setStart"
        BY <1>0, <1>1, <2>1 DEF StartAhead, Go, Ahead
      <3>2. Clamped(i)'
        BY <1>0, <1>b, <2>0, <2>1, <3>1 DEF Clamped, Late
      <3>3. Timely(i)'
        BY <1>0, <1>b, <2>0, <2>1, <3>1 DEF Timely, InBounds
      <3>4. QED BY <1>0, <1>a, <2>0, <3>1, <3>2, <3>3, ClampStep DEF SpanStatements
    <2>2. CASE ~(item[i].start > clock + MaxFutureSkew)
      <3>1. stmt' = [stmt EXCEPT ![i] = "ifAhead"] /\ stmt'[i] = "ifAhead"
        BY <1>0, <1>1, <2>2 DEF StartAhead, Go, Ahead
      <3>2. Clamped(i)'
        BY <1>0, <1>b, <2>0, <2>2, <3>1 DEF Clamped, Late
      <3>3. Timely(i)'
        BY <1>0, <1>b, <2>0, <2>2, <3>1 DEF Timely, InBounds
      <3>4. QED BY <1>0, <1>a, <2>0, <3>1, <3>2, <3>3, ClampStep DEF SpanStatements
    <2>3. QED BY <2>1, <2>2
  <1>2. CASE EndAhead(i)
    <2>0. sent[i].kind = "span" /\ stmt[i] = "ifAhead" /\ read' = read /\ place' = place
      BY <1>0, <1>2, <1>a DEF EndAhead, LogStatements
    <2>1. CASE item[i].end > clock + MaxFutureSkew
      <3>1. stmt' = [stmt EXCEPT ![i] = "ifStill"] /\ stmt'[i] = "ifStill"
        BY <1>0, <1>2, <2>1 DEF EndAhead, Go, Ahead
      <3>2. Clamped(i)'
        BY <1>0, <1>b, <2>0, <2>1, <3>1 DEF Clamped, Late
      <3>3. Timely(i)'
        BY <1>0, <1>b, <2>0, <2>1, <3>1 DEF Timely, InBounds
      <3>4. QED BY <1>0, <1>a, <2>0, <3>1, <3>2, <3>3, ClampStep DEF SpanStatements
    <2>2. CASE ~(item[i].end > clock + MaxFutureSkew)
      <3>1. stmt' = [stmt EXCEPT ![i] = "ifEnd"] /\ stmt'[i] = "ifEnd"
        BY <1>0, <1>2, <2>2 DEF EndAhead, Go, Ahead
      <3>2. Clamped(i)'
        BY <1>0, <1>b, <2>0, <2>2, <3>1 DEF Clamped, Late
      <3>3. Timely(i)'
        BY <1>0, <1>b, <2>0, <2>2, <3>1 DEF Timely, InBounds
      <3>4. QED BY <1>0, <1>a, <2>0, <3>1, <3>2, <3>3, ClampStep DEF SpanStatements
    <2>3. QED BY <2>1, <2>2
  <1>3. CASE EndOver(i)
    <2>0. sent[i].kind = "span" /\ stmt[i] = "ifEnd" /\ read' = read
      BY <1>3, <1>a DEF EndOver, LogStatements
    <2>1. CASE item[i].end > clock + MaxFutureSkew
      <3>1. stmt' = [stmt EXCEPT ![i] = "setEnd"] /\ stmt'[i] = "setEnd" /\ place' = place
        BY <1>0, <1>3, <1>a, <2>1 DEF EndOver, Go, Ahead, Leave
      <3>2. Clamped(i)'
        BY <1>0, <1>b, <2>0, <2>1, <3>1 DEF Clamped, Late
      <3>3. Timely(i)'
        BY <1>0, <1>b, <2>0, <2>1, <3>1 DEF Timely, InBounds
      <3>4. QED BY <1>0, <1>a, <2>0, <3>1, <3>2, <3>3, ClampStep DEF SpanStatements, LogStatements
    <2>2. CASE ~(item[i].end > clock + MaxFutureSkew)
      <3>1. stmt' = [stmt EXCEPT ![i] = "done"] /\ stmt'[i] = "done" /\ place' = [place EXCEPT ![i] = 4]
        BY <1>0, <1>3, <1>a, <2>2 DEF EndOver, Go, Ahead, Leave
      <3>2. Clamped(i)'
        BY <1>0, <1>b, <2>0, <2>2, <3>1 DEF Clamped, Late
      <3>3. Timely(i)'
        BY <1>0, <1>b, <2>0, <2>2, <3>1 DEF Timely, InBounds
      <3>4. QED BY <1>0, <1>a, <2>0, <3>1, <3>2, <3>3, ClampStep DEF SpanStatements, LogStatements
    <2>3. QED BY <2>1, <2>2
  <1>4. CASE TimeAhead(i)
    <2>0. sent[i].kind = "log" /\ stmt[i] = "ifTime" /\ read' = read
      BY <1>4, <1>a DEF TimeAhead, SpanStatements
    <2>1. CASE item[i].start > clock + MaxFutureSkew
      <3>1. stmt' = [stmt EXCEPT ![i] = "setTime"] /\ stmt'[i] = "setTime" /\ place' = place
        BY <1>0, <1>4, <1>a, <2>1 DEF TimeAhead, Go, Ahead, Leave
      <3>2. Clamped(i)'
        BY <1>0, <1>b, <2>0, <2>1, <3>1 DEF Clamped, Late
      <3>3. Timely(i)'
        BY <1>0, <1>b, <2>0, <2>1, <3>1 DEF Timely, InBounds
      <3>4. QED BY <1>0, <1>a, <2>0, <3>1, <3>2, <3>3, ClampStep DEF SpanStatements, LogStatements
    <2>2. CASE ~(item[i].start > clock + MaxFutureSkew)
      <3>1. stmt' = [stmt EXCEPT ![i] = "done"] /\ stmt'[i] = "done" /\ place' = [place EXCEPT ![i] = 4]
        BY <1>0, <1>4, <1>a, <2>2 DEF TimeAhead, Go, Ahead, Leave
      <3>2. Clamped(i)'
        BY <1>0, <1>b, <2>0, <2>2, <3>1 DEF Clamped, Late
      <3>3. Timely(i)'
        BY <1>0, <1>b, <2>0, <2>2, <3>1 DEF Timely, InBounds
      <3>4. QED BY <1>0, <1>a, <2>0, <3>1, <3>2, <3>3, ClampStep DEF SpanStatements, LogStatements
    <2>3. QED BY <2>1, <2>2
  <1>5. QED BY <1>1, <1>2, <1>3, <1>4

\* A set: the start's, the end's or a record's time's.
LEMMA SetStep ==
    ASSUME IInv, NEW i \in Items, At(i, "transform/bounds"), sent' = sent, ctx' = ctx, clock' = clock,
           SetStart(i) \/ StartStillAhead(i) \/ SetEnd(i) \/ SetTime(i)
    PROVE  IInv'
  <1>a. /\ place[i] = 3 /\ place = [place EXCEPT ![i] = 3] /\ [place EXCEPT ![i] = @ + 1] = [place EXCEPT ![i] = 4]
        /\ \/ sent[i].kind = "span" /\ stmt[i] \in SpanStatements
           \/ sent[i].kind = "log" /\ stmt[i] \in LogStatements
    BY AtClamps
  <1>b. /\ item[i].start \in Nat /\ item[i].end \in Nat /\ sent[i].start \in Nat /\ sent[i].end \in Nat
        /\ clock \in Nat /\ read[i] \in Nat /\ MaxFutureSkew \in Nat /\ Clamped(i) /\ place[i] = 3
        /\ StartClock \in Nat /\ StartClock <= clock /\ Timely(i)
    BY AtClamps
  <1>0. Types /\ stmt \in [Items -> SpanStatements \cup LogStatements \cup {"done"}] /\ read' = read
    BY DEF IInv, Types, SetStart, StartStillAhead, SetEnd, SetTime
  <1>1. CASE SetStart(i)
    <2>1. /\ sent[i].kind = "span" /\ stmt[i] = "setStart" /\ place' = place
          /\ stmt' = [stmt EXCEPT ![i] = "ifAhead"] /\ stmt'[i] = "ifAhead"
      BY <1>0, <1>1, <1>a DEF SetStart, Go, Leave, LogStatements
    <2>2. item' = [item EXCEPT ![i].start = clock]
      BY <1>1 DEF SetStart
    <2>3. /\ item' \in [Items -> Payload] /\ \A j \in Items : j # i => item'[j] = item[j]
          /\ item'[i].start = clock /\ item'[i].end = item[i].end /\ item'[i].attrs = item[i].attrs
      BY <1>0, <1>b, <2>2, SetStartTime
    <2>4. Clamped(i)'
      BY <1>0, <1>b, <2>1, <2>3 DEF Clamped, Late
    <2>5. Timely(i)'
      BY <1>0, <1>b, <2>1, <2>3 DEF Timely, InBounds
    <2>6. QED BY <1>0, <1>a, <2>1, <2>3, <2>4, <2>5, ClampStep DEF SpanStatements
  <1>2. CASE StartStillAhead(i)
    <2> DEFINE v == IF item[i].start > clock THEN item[i].start ELSE item[i].end
    <2>1. /\ sent[i].kind = "span" /\ stmt[i] = "ifStill" /\ place' = place
          /\ stmt' = [stmt EXCEPT ![i] = "ifEnd"] /\ stmt'[i] = "ifEnd"
      BY <1>0, <1>2, <1>a DEF StartStillAhead, Go, LogStatements
    <2>2. item' = [item EXCEPT ![i].end = v]
      BY <1>0, <1>2 DEF StartStillAhead, Types, Payload
    <2>3. v \in Nat
      BY <1>b
    <2> HIDE DEF v
    <2>4. /\ item' \in [Items -> Payload] /\ \A j \in Items : j # i => item'[j] = item[j]
          /\ item'[i].end = v /\ item'[i].start = item[i].start /\ item'[i].attrs = item[i].attrs
      BY <1>0, <2>2, <2>3, SetEndTime
    <2>5. Clamped(i)'
      BY <1>0, <1>b, <2>1, <2>4 DEF Clamped, Late, v
    <2>6. Timely(i)'
      BY <1>0, <1>b, <2>1, <2>4 DEF Timely, InBounds, v
    <2>7. QED BY <1>0, <1>a, <2>1, <2>4, <2>5, <2>6, ClampStep DEF SpanStatements
  <1>3. CASE SetEnd(i)
    <2>1. /\ sent[i].kind = "span" /\ stmt[i] = "setEnd" /\ place' = [place EXCEPT ![i] = 4]
          /\ stmt' = [stmt EXCEPT ![i] = "done"] /\ stmt'[i] = "done"
      BY <1>0, <1>3, <1>a DEF SetEnd, Go, Leave, LogStatements
    <2>2. item' = [item EXCEPT ![i].end = clock]
      BY <1>3 DEF SetEnd
    <2>3. /\ item' \in [Items -> Payload] /\ \A j \in Items : j # i => item'[j] = item[j]
          /\ item'[i].end = clock /\ item'[i].start = item[i].start /\ item'[i].attrs = item[i].attrs
      BY <1>0, <1>b, <2>2, SetEndTime
    <2>4. Clamped(i)'
      BY <1>0, <1>b, <2>1, <2>3 DEF Clamped, Late
    <2>5. Timely(i)'
      BY <1>0, <1>b, <2>1, <2>3 DEF Timely, InBounds
    <2>6. QED BY <1>0, <1>a, <2>1, <2>3, <2>4, <2>5, ClampStep DEF SpanStatements
  <1>4. CASE SetTime(i)
    <2>1. /\ sent[i].kind = "log" /\ stmt[i] = "setTime" /\ place' = [place EXCEPT ![i] = 4]
          /\ stmt' = [stmt EXCEPT ![i] = "done"] /\ stmt'[i] = "done"
      BY <1>0, <1>4, <1>a DEF SetTime, Go, Leave, SpanStatements
    <2>2. item' = [item EXCEPT ![i].start = clock]
      BY <1>4 DEF SetTime
    <2>3. /\ item' \in [Items -> Payload] /\ \A j \in Items : j # i => item'[j] = item[j]
          /\ item'[i].start = clock /\ item'[i].end = item[i].end /\ item'[i].attrs = item[i].attrs
      BY <1>0, <1>b, <2>2, SetStartTime
    <2>4. Clamped(i)'
      BY <1>0, <1>b, <2>1, <2>3 DEF Clamped, Late
    <2>5. Timely(i)'
      BY <1>0, <1>b, <2>1, <2>3 DEF Timely, InBounds
    <2>6. QED BY <1>0, <1>a, <2>1, <2>3, <2>4, <2>5, ClampStep DEF SpanStatements
  <1>5. QED BY <1>1, <1>2, <1>3, <1>4

-----------------------------------------------------------------------------
(* Attributes. *)

\* A set of one or all of an item's holders.
LEMMA SetAttrs ==
    ASSUME Types, NEW i \in Items, NEW f \in [Holders -> [Keys -> Values]],
           item' = [item EXCEPT ![i] = [item[i] EXCEPT !.attrs = f]]
    PROVE  /\ item' \in [Items -> Payload] /\ \A j \in Items : j # i => item'[j] = item[j]
           /\ item'[i].attrs = f /\ item'[i].start = item[i].start /\ item'[i].end = item[i].end
  <1>1. item[i] \in Payload
    BY DEF Types
  <1>2. [item[i] EXCEPT !.attrs = f] \in Payload
    BY <1>1 DEF Payload
  <1>3. item' \in [Items -> Payload] /\ (\A j \in Items : j # i => item'[j] = item[j]) /\ item'[i] = [item[i] EXCEPT !.attrs = f]
    BY <1>2 DEF Types
  <1>4. QED BY <1>1, <1>3 DEF Payload

\* A processor that changes attributes alone, and moves the item on.
LEMMA AttributesStep ==
    ASSUME IInv, NEW i \in Items, NEW f \in [Holders -> [Keys -> Values]],
           item' = [item EXCEPT ![i] = [item[i] EXCEPT !.attrs = f]],
           place[i] \in DOMAIN Chain(i), place' = [place EXCEPT ![i] = @ + 1],
           sent' = sent, stmt' = stmt, ctx' = ctx, clock' = clock, read' = read,
           sent[i].kind # "metric" => place[i] \in {4, 5},
           Stamped(i)', Stripped(i)'
    PROVE  IInv'
  <1>1. /\ item' \in [Items -> Payload] /\ \A j \in Items : j # i => item'[j] = item[j]
        /\ item'[i].start = item[i].start /\ item'[i].end = item[i].end
    BY SetAttrs DEF IInv
  <1>2. Types'
    BY <1>1 DEF IInv, Types
  <1>3. ASSUME NEW j \in Items, j # i PROVE Good(j)'
    <2>1. item'[j] = item[j] /\ place'[j] = place[j] /\ clock' \in Nat /\ clock <= clock'
      BY <1>1, <1>3 DEF IInv, Types
    <2>2. QED BY <2>1, Undisturbed
  <1>4. Good(i)'
    <2>1. /\ Chain(i)' = Chain(i) /\ place[i] \in 1..Len(Chain(i)) /\ Len(Chain(i)) \in Nat
          /\ place[i] \in Nat /\ place'[i] = place[i] + 1 /\ Good(i)
      BY DEF Chain, MetricProcessors, IdentityProcessors, IInv, Types
    <2>2. Stage(i)'
      <3>1. place'[i] \in 0..(Len(Chain(i)') + 1)
        BY <2>1
      <3>2. sent[i].kind # "metric" => place[i] > 3 /\ place'[i] > 3 /\ place[i] # 0
        BY <2>1
      <3>3. sent[i].kind \in {"span", "log"} => stmt[i] = "done"
        BY <2>1, <3>2 DEF Good, Stage
      <3>4. QED BY <3>1, <3>2, <3>3, <2>1 DEF Stage
    <2>3. Clamped(i)'
      <3>1. sent[i].kind # "metric" => place[i] # 0
        BY <2>1
      <3>2. QED BY <1>1, <2>1, <3>1 DEF Good, Clamped, Late
    <2>4. Timely(i)'
      BY <1>1, <2>1 DEF Good, Timely, InBounds
    <2>5. QED BY <2>2, <2>3, <2>4 DEF Good
  <1>5. QED BY <1>2, <1>3, <1>4 DEF IInv

LEMMA AttributesIdentityStep ==
    ASSUME IInv, NEW i \in Items, AttributesIdentity(i)
    PROVE  IInv'
  <1> DEFINE g == IdentityActions(item[i].attrs["item"], ctx[i])
             f == [item[i].attrs EXCEPT !["item"] = g]
  <1>1. place[i] = 4 /\ sent[i].kind # "metric" /\ place[i] \in DOMAIN Chain(i)
    BY IdentityChain, MetricChain DEF AttributesIdentity, At
  <1>2. item[i].attrs \in [Holders -> [Keys -> Values]] /\ ctx[i] \in [Keys -> Values] /\ "item" \in Holders
    BY DEF IInv, Types, Payload, Holders
  <1>3. g \in [Keys -> Values]
    BY <1>2 DEF IdentityActions
  <1>4. f \in [Holders -> [Keys -> Values]] /\ f["item"] = g /\ f["resource"] = item[i].attrs["resource"]
    BY <1>2, <1>3 DEF Holders
  <1>5. item' = [item EXCEPT ![i] = [item[i] EXCEPT !.attrs = f]]
    BY DEF AttributesIdentity, IInv, Types, Payload
  <1> HIDE DEF f, g
  <1>6. item'[i].attrs = f
    BY <1>4, <1>5, SetAttrs DEF IInv
  <1>7. /\ place' = [place EXCEPT ![i] = @ + 1] /\ place'[i] = 5
        /\ sent' = sent /\ stmt' = stmt /\ ctx' = ctx /\ clock' = clock /\ read' = read
    BY <1>1 DEF AttributesIdentity, Leave, IInv, Types
  <1>8. /\ ctx[i] = sent[i].token /\ item[i].attrs["item"] = sent[i].attrs["item"]
        /\ item[i].attrs["resource"] = sent[i].attrs["resource"]
    BY <1>1 DEF IInv, Good, Stamped
  <1>9. Stamped(i)'
    BY <1>4, <1>6, <1>7, <1>8 DEF Stamped, g, IdentityActions
  <1>10. Stripped(i)'
    BY <1>1, <1>7 DEF Stripped
  <1>11. QED BY <1>1, <1>4, <1>5, <1>7, <1>9, <1>10, AttributesStep

LEMMA ResourceIdentityStep ==
    ASSUME IInv, NEW i \in Items, ResourceIdentity(i)
    PROVE  IInv'
  <1> DEFINE g == ResourceActions(item[i].attrs["resource"])
             f == [item[i].attrs EXCEPT !["resource"] = g]
  <1>1. place[i] = 5 /\ sent[i].kind # "metric" /\ place[i] \in DOMAIN Chain(i)
    BY IdentityChain, MetricChain DEF ResourceIdentity, At
  <1>2. item[i].attrs \in [Holders -> [Keys -> Values]] /\ "resource" \in Holders
    BY DEF IInv, Types, Payload, Holders
  <1>3. g \in [Keys -> Values]
    BY <1>2, PayloadsTyped DEF ResourceActions, UpsertStatic
  <1>4. f \in [Holders -> [Keys -> Values]] /\ f["resource"] = g /\ f["item"] = item[i].attrs["item"]
    BY <1>2, <1>3 DEF Holders
  <1>5. item' = [item EXCEPT ![i] = [item[i] EXCEPT !.attrs = f]]
    BY DEF ResourceIdentity, IInv, Types, Payload
  <1> HIDE DEF f, g
  <1>6. item'[i].attrs = f
    BY <1>4, <1>5, SetAttrs DEF IInv
  <1>7. /\ place' = [place EXCEPT ![i] = @ + 1] /\ place'[i] = 6
        /\ sent' = sent /\ stmt' = stmt /\ ctx' = ctx /\ clock' = clock /\ read' = read
    BY <1>1 DEF ResourceIdentity, Leave, IInv, Types
  <1>8. /\ ctx[i] = sent[i].token
        /\ item[i].attrs["item"] = IdentityActions(sent[i].attrs["item"], sent[i].token)
        /\ item[i].attrs["resource"] = sent[i].attrs["resource"]
    BY <1>1 DEF IInv, Good, Stamped
  <1>9. Stamped(i)'
    BY <1>4, <1>6, <1>7, <1>8 DEF Stamped, g, IdentityActions, ResourceActions, UpsertStatic
  <1>10. Stripped(i)'
    BY <1>1, <1>7 DEF Stripped
  <1>11. QED BY <1>1, <1>4, <1>5, <1>7, <1>9, <1>10, AttributesStep

LEMMA TransformMetricsStep ==
    ASSUME IInv, NEW i \in Items, TransformMetrics(i)
    PROVE  IInv'
  <1> DEFINE f == [h \in Holders |-> KeepKeys(item[i].attrs[h], Kept(h))]
  <1>1. place[i] = 3 /\ sent[i].kind = "metric" /\ place[i] \in DOMAIN Chain(i)
    BY IdentityChain, MetricChain DEF TransformMetrics, At
  <1>2. item[i].attrs \in [Holders -> [Keys -> Values]]
    BY DEF IInv, Types, Payload
  <1>3. f \in [Holders -> [Keys -> Values]]
    <2>1. ASSUME NEW h \in Holders PROVE KeepKeys(item[i].attrs[h], Kept(h)) \in [Keys -> Values]
      BY <1>2, PayloadsTyped DEF KeepKeys
    <2>2. QED BY <2>1
  <1>4. ASSUME NEW h \in Holders, NEW k \in Targets \cup IdentityLike PROVE f[h][k] = Absent
    <2>1. k \in Keys /\ k \notin ServiceKeys
      BY SettingsValid
    <2>2. k \notin Kept(h)
      BY <2>1 DEF Kept, IdentityKey, Holders
    <2>3. QED BY <2>1, <2>2 DEF KeepKeys
  <1>5. item' = [item EXCEPT ![i] = [item[i] EXCEPT !.attrs = f]]
    BY DEF TransformMetrics, IInv, Types, Payload
  <1> HIDE DEF f
  <1>6. item'[i].attrs = f
    BY <1>3, <1>5, SetAttrs DEF IInv
  <1>7. /\ place' = [place EXCEPT ![i] = @ + 1] /\ place'[i] = 4
        /\ sent' = sent /\ stmt' = stmt /\ ctx' = ctx /\ clock' = clock /\ read' = read
    BY <1>1 DEF TransformMetrics, Leave, IInv, Types
  <1>8. Stamped(i)'
    BY <1>1, <1>7 DEF Stamped
  <1>9. Stripped(i)'
    BY <1>4, <1>6, <1>7 DEF Stripped
  <1>10. QED BY <1>1, <1>3, <1>5, <1>7, <1>8, <1>9, AttributesStep

LEMMA ResourceMetricsStep ==
    ASSUME IInv, NEW i \in Items, ResourceMetrics(i)
    PROVE  IInv'
  <1> DEFINE g == UpsertStatic(item[i].attrs["resource"])
             f == [item[i].attrs EXCEPT !["resource"] = g]
  <1>1. place[i] = 4 /\ sent[i].kind = "metric" /\ place[i] \in DOMAIN Chain(i)
    BY IdentityChain, MetricChain DEF ResourceMetrics, At
  <1>2. item[i].attrs \in [Holders -> [Keys -> Values]] /\ "resource" \in Holders
    BY DEF IInv, Types, Payload, Holders
  <1>3. g \in [Keys -> Values]
    BY <1>2, PayloadsTyped DEF UpsertStatic
  <1>4. /\ f \in [Holders -> [Keys -> Values]] /\ f["resource"] = g
        /\ \A h \in Holders : h # "resource" => f[h] = item[i].attrs[h]
    BY <1>2, <1>3
  <1>5. item' = [item EXCEPT ![i] = [item[i] EXCEPT !.attrs = f]]
    BY DEF ResourceMetrics, IInv, Types, Payload
  <1>a. ASSUME NEW h \in Holders, NEW k \in Targets \cup IdentityLike
        PROVE  f[h][k] = IF h = "resource" /\ k \in DOMAIN Static THEN Static[k] ELSE Absent
    <2>1. k \in Keys /\ item[i].attrs[h][k] = Absent
      BY <1>1, SettingsValid DEF IInv, Good, Stripped
    <2>2. CASE h = "resource"
      BY <1>4, <2>1, <2>2 DEF UpsertStatic
    <2>3. CASE h # "resource"
      BY <1>4, <2>1, <2>3
    <2>4. QED BY <2>2, <2>3
  <1> HIDE DEF f, g
  <1>6. item'[i].attrs = f
    BY <1>4, <1>5, SetAttrs DEF IInv
  <1>7. /\ place' = [place EXCEPT ![i] = @ + 1] /\ place'[i] = 5
        /\ sent' = sent /\ stmt' = stmt /\ ctx' = ctx /\ clock' = clock /\ read' = read
    BY <1>1 DEF ResourceMetrics, Leave, IInv, Types
  <1>8. Stamped(i)'
    BY <1>1, <1>7 DEF Stamped
  <1>9. Stripped(i)'
    BY <1>a, <1>6, <1>7 DEF Stripped
  <1>10. QED BY <1>1, <1>4, <1>5, <1>7, <1>8, <1>9, AttributesStep

-----------------------------------------------------------------------------
(* The theorems. *)

LEMMA InitInv == Init => IInv
  <1> SUFFICES ASSUME Init PROVE IInv
    OBVIOUS
  <1>1. \A i \in Items : sent[i] \in Payload
    BY PayloadsTyped DEF Init
  <1>2. sent \in [Items -> Payload]
    BY <1>1 DEF Init
  <1>3. Types
    <2>1. stmt \in [Items -> SpanStatements \cup LogStatements \cup {"done"}]
      BY DEF Init, SpanStatements, LogStatements
    <2>2. ctx \in [Items -> [Keys -> Values]]
      BY <1>1 DEF Init, Payload
    <2>3. QED BY <1>2, <2>1, <2>2, SettingsValid DEF Init, Types
  <1>4. ASSUME NEW i \in Items PROVE Good(i)
    <2>1. place[i] = 1 /\ item[i] = sent[i] /\ ctx[i] = sent[i].token
      BY <1>4 DEF Init
    <2>2. /\ sent[i].kind = "span" => stmt[i] = "ifStart"
          /\ sent[i].kind = "log" => stmt[i] = "ifTime"
      BY DEF Init
    <2>3. Len(Chain(i)) \in Nat
      BY DEF Chain, MetricProcessors, IdentityProcessors
    <2>4. Stage(i)
      BY <2>1, <2>2, <2>3 DEF Stage
    <2>5. Clamped(i)
      BY <2>1, <2>2 DEF Clamped
    <2>6. Stamped(i) /\ Stripped(i)
      BY <2>1 DEF Stamped, Stripped
    <2>7. Timely(i)
      BY <2>1 DEF Init, Timely
    <2>8. QED BY <2>4, <2>5, <2>6, <2>7 DEF Good
  <1>5. QED BY <1>3, <1>4 DEF IInv

LEMMA StepInv == IInv /\ [Next]_vars => IInv'
  <1> SUFFICES ASSUME IInv, [Next]_vars PROVE IInv'
    OBVIOUS
  <1>1. ASSUME NEW i \in Items, Process(i) PROVE IInv'
    <2>1. CASE Limit(i) \/ FilterBounds(i) \/ FilterMetrics(i)
      BY <2>1, LimitOrFilterStep
    <2>2. CASE TransformBounds(i)
      BY <2>2, ConditionStep, SetStep DEF TransformBounds
    <2>3. CASE AttributesIdentity(i) \/ ResourceIdentity(i)
      BY <2>3, AttributesIdentityStep, ResourceIdentityStep
    <2>4. CASE TransformMetrics(i) \/ ResourceMetrics(i)
      BY <2>4, TransformMetricsStep, ResourceMetricsStep
    <2>5. QED BY <1>1, <2>1, <2>2, <2>3, <2>4 DEF Process
  <1>2. ASSUME NEW S \in SUBSET Items, Batch(S) PROVE IInv'
    BY <1>2, BatchStep
  <1>3. CASE Tick
    BY <1>3, TickStep
  <1>4. CASE UNCHANGED vars
    <2>1. Types'
      BY <1>4 DEF vars, IInv, Types
    <2>2. ASSUME NEW j \in Items PROVE Good(j)'
      BY <1>4, Undisturbed DEF vars, IInv, Types
    <2>3. QED BY <2>1, <2>2 DEF IInv
  <1>5. QED BY <1>1, <1>2, <1>3, <1>4 DEF Next

LEMMA ExportedPlace ==
    ASSUME IInv, NEW i \in Items, Exported(i)
    PROVE  Good(i) /\ (sent[i].kind # "metric" => place[i] = 7) /\ (sent[i].kind = "metric" => place[i] > 4)
  <1>1. Good(i)
    BY DEF IInv
  <1>2. CASE sent[i].kind # "metric"
    <2>1. Len(Chain(i)) = 6
      BY <1>2, IdentityChain
    <2>2. QED BY <1>1, <1>2, <2>1 DEF Exported
  <1>3. CASE sent[i].kind = "metric"
    <2>1. Len(Chain(i)) \in {5, 6}
      BY <1>3, MetricChain
    <2>2. place[i] = Len(Chain(i)) + 1
      BY DEF Exported
    <2>3. CASE Len(Chain(i)) = 5
      <3>1. place[i] = 6
        BY <2>2, <2>3
      <3>2. QED BY <1>1, <1>3, <3>1
    <2>4. CASE Len(Chain(i)) = 6
      <3>1. place[i] = 7
        BY <2>2, <2>4
      <3>2. QED BY <1>1, <1>3, <3>1
    <2>5. QED BY <2>1, <2>3, <2>4
  <1>4. QED BY <1>2, <1>3

\* The inductive invariant: what each statement and each processor has
\* established for those after it.
THEOREM Invariance == Spec => []IInv
  BY InitInv, StepInv, PTL DEF Spec

\* No exported time is further ahead of the clock than MAX_FUTURE_SKEW.
THEOREM TimesAreBounded == Spec => []TimesBounded
  <1>1. IInv => TimesBounded
    <2> SUFFICES ASSUME IInv, NEW i \in Items, Exported(i), sent[i].kind # "metric"
                 PROVE  /\ item[i].start <= clock + MaxFutureSkew
                        /\ sent[i].kind = "span" => item[i].end <= clock + MaxFutureSkew
      BY DEF TimesBounded
    <2>1. place[i] = 7 /\ Good(i)
      BY ExportedPlace
    <2>2. sent[i].kind \in {"span", "log"}
      BY DEF IInv, Types, Payload, Kinds
    <2>3. stmt[i] = "done"
      BY <2>1, <2>2 DEF Good, Stage
    <2>4. QED BY <2>1, <2>2, <2>3 DEF Good, Clamped
  <1>2. QED BY <1>1, Invariance, PTL

\* An exported span ends no earlier than it starts if it was sent so and the
\* clock moved by no more than the skew within the first clamp.
THEOREM OrderIsKept == Spec => []OrderKept
  <1>1. IInv => OrderKept
    <2> SUFFICES ASSUME IInv, NEW i \in Items, Exported(i), sent[i].kind = "span",
                        sent[i].start <= sent[i].end, ~Late(i)
                 PROVE  item[i].start <= item[i].end
      BY DEF OrderKept
    <2>1. place[i] = 7 /\ Good(i)
      BY ExportedPlace
    <2>2. stmt[i] = "done"
      BY <2>1 DEF Good, Stage
    <2>3. QED BY <2>1, <2>2 DEF Good, Clamped
  <1>2. QED BY <1>1, Invariance, PTL

\* A time that was in bounds when its item came is exported as it was sent.
THEOREM TimelyTimesAreKept == Spec => []TimelyKept
  <1>1. IInv => TimelyKept
    BY DEF IInv, Good, Timely, TimelyKept
  <1>2. QED BY <1>1, Invariance, PTL

\* An exported span or record carries its own token's identity, whatever its
\* client sent and whatever it was batched with.
THEOREM IdentityIsTheTokens == Spec => []IdentityIsTokens
  <1>1. IInv => IdentityIsTokens
    <2> SUFFICES ASSUME IInv, NEW i \in Items, Exported(i), sent[i].kind # "metric", NEW k \in Keys
                 PROVE  /\ item[i].attrs["item"][k] = IF k \in Targets THEN sent[i].token[k] ELSE sent[i].attrs["item"][k]
                        /\ item[i].attrs["resource"][k] =
                              IF k \in Targets THEN Absent
                              ELSE IF k \in DOMAIN Static THEN Static[k] ELSE sent[i].attrs["resource"][k]
      BY DEF IdentityIsTokens
    <2>1. place[i] = 7 /\ Stamped(i)
      BY ExportedPlace DEF Good
    <2>2. /\ item[i].attrs["item"] = IdentityActions(sent[i].attrs["item"], sent[i].token)
          /\ item[i].attrs["resource"] = ResourceActions(sent[i].attrs["resource"])
      BY <2>1 DEF Stamped
    <2>3. k \in Targets => k \notin DOMAIN Static
      BY SettingsValid
    <2>4. QED BY <2>2, <2>3 DEF IdentityActions, ResourceActions, UpsertStatic
  <1>2. QED BY <1>1, Invariance, PTL

\* An exported metric carries no identity in any holder.
THEOREM MetricsAreAnonymous == Spec => []MetricsCarryNoIdentity
  <1>1. IInv => MetricsCarryNoIdentity
    <2> SUFFICES ASSUME IInv, NEW i \in Items, Exported(i), sent[i].kind = "metric",
                        NEW h \in Holders, NEW k \in Targets \cup IdentityLike
                 PROVE  item[i].attrs[h][k] = IF h = "resource" /\ k \in DOMAIN Static THEN Static[k] ELSE Absent
      BY DEF MetricsCarryNoIdentity
    <2>1. place[i] > 4 /\ Stripped(i)
      BY ExportedPlace DEF Good
    <2>2. place[i] > 3
      BY <2>1 DEF IInv, Types
    <2>3. QED BY <2>1, <2>2 DEF Stripped
  <1>2. QED BY <1>1, Invariance, PTL

=============================================================================
