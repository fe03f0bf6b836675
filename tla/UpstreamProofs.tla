--------------------------- MODULE UpstreamProofs ---------------------------
(***************************************************************************)
(* Proofs about the resolution of upstreams, for any environment, URLs,    *)
(* header lists, plain settings and signals.                               *)
(***************************************************************************)
EXTENDS Upstream, FiniteSetTheorems, WellFoundedInduction, TLAPS

-----------------------------------------------------------------------------
(* The invariant: what Resolve has found is a function of the signals it    *)
(* has read, in whichever order it read them.                               *)

Count == Len(Signals) - Len(todo)
Read  == {Signals[i] : i \in 1..Count}

Reading ==
    /\ env \in Environments /\ todo \in Seq(STRING) /\ Len(todo) <= Len(Signals)
    /\ \A i \in 1..Len(todo) : todo[i] = Signals[Count + i]

Resolved ==
    /\ DOMAIN out = {s \in Read : Faults(env, s) = {}}
    /\ \A s \in DOMAIN out : out[s] = ExporterConfig(env, s)
    /\ anyGRPC \in BOOLEAN /\ (anyGRPC <=> \E s \in Read : Parsed(env, s) /\ IsGRPC(env, s))
    /\ anyTLS \in BOOLEAN /\ (anyTLS <=> \E s \in Read : Parsed(env, s) /\ ~Plaintext(env, s))

Found == UNION {Faults(env, s) : s \in Read}

Judged ==
    \/ status = "resolving" /\ faults = Found
    \/ /\ status = IF faults = {} THEN "rendered" ELSE "refused"
       /\ todo = <<>> /\ faults = Found \cup Useless \cup OwnLogsUnverified(Found \cup Useless)

IInv == Reading /\ Resolved /\ Judged

LEMMA InitIInv == Init => IInv
<1> SUFFICES ASSUME Init PROVE IInv
  OBVIOUS
<1>1. Signals \in Seq(STRING) /\ Len(Signals) \in Nat /\ todo = Signals
  BY SignalsAreNamed DEF Init
<1>2. Count = 0 /\ Read = {}
  BY <1>1 DEF Count, Read
<1>3. Reading
  BY <1>1, <1>2 DEF Init, Reading
<1>4. Resolved
  <2>1. DOMAIN out = {} /\ anyGRPC = FALSE /\ anyTLS = FALSE
    BY DEF Init
  <2> QED BY <1>2, <2>1 DEF Resolved
<1>5. Judged
  BY <1>2 DEF Init, Judged, Found
<1> QED BY <1>3, <1>4, <1>5 DEF IInv

LEMMA ResolveSignalStep ==
    ASSUME IInv, ResolveSignal
    PROVE  IInv'
<1> DEFINE sig == Head(todo)
<1>1. /\ Signals \in Seq(STRING) /\ Len(Signals) \in Nat /\ todo \in Seq(STRING) /\ todo # <<>>
      /\ todo' = Tail(todo) /\ env' = env /\ status' = status /\ status = "resolving"
  BY SignalsAreNamed DEF ResolveSignal, IInv, Reading
<1>2. /\ Len(todo) \in Nat /\ Len(todo) > 0 /\ Len(todo') = Len(todo) - 1 /\ todo' \in Seq(STRING)
      /\ sig = todo[1] /\ \A i \in 1..Len(todo') : todo'[i] = todo[i + 1]
  BY <1>1
<1>3. Count \in Nat /\ Count' = Count + 1 /\ sig = Signals[Count + 1] /\ Len(todo) <= Len(Signals)
  BY <1>1, <1>2 DEF Count, IInv, Reading
<1> HIDE DEF sig
<1>4. Read' = Read \cup {sig}
  BY <1>3 DEF Read
<1>5. Reading'
  <2>1. \A i \in 1..Len(todo') : i + 1 \in 1..Len(todo) /\ todo'[i] = Signals[Count + (i + 1)]
    BY <1>2 DEF IInv, Reading
  <2>2. \A i \in 1..Len(todo') : Count + (i + 1) = Count' + i
    BY <1>2, <1>3
  <2> QED BY <1>1, <1>2, <1>3, <2>1, <2>2 DEF IInv, Reading
<1>6. /\ DOMAIN out' = {s \in Read' : Faults(env, s) = {}}
      /\ \A s \in DOMAIN out' : out'[s] = ExporterConfig(env, s)
  <2>1. CASE Faults(env, sig) = {}
    <3>1. out' = [s \in DOMAIN out \cup {sig} |-> IF s = sig THEN ExporterConfig(env, sig) ELSE out[s]]
      BY <2>1 DEF ResolveSignal, sig
    <3>2. DOMAIN out' = {s \in Read' : Faults(env, s) = {}}
      BY <1>4, <2>1, <3>1 DEF IInv, Resolved
    <3>3. \A s \in DOMAIN out' : out'[s] = ExporterConfig(env, s)
      BY <3>1 DEF IInv, Resolved
    <3> QED BY <3>2, <3>3
  <2>2. CASE Faults(env, sig) # {}
    BY <1>4, <2>2 DEF ResolveSignal, sig, IInv, Resolved
  <2> QED BY <2>1, <2>2
<1>7. Resolved'
  <2>1. /\ anyGRPC' = (anyGRPC \/ (Parsed(env, sig) /\ IsGRPC(env, sig)))
        /\ anyTLS' = (anyTLS \/ (Parsed(env, sig) /\ ~Plaintext(env, sig)))
    BY DEF ResolveSignal, sig
  <2> QED BY <1>1, <1>4, <1>6, <2>1 DEF IInv, Resolved
<1>8. Judged'
  <2>1. faults' = faults \cup Faults(env, sig)
    BY DEF ResolveSignal, sig
  <2>2. faults = Found
    BY <1>1 DEF IInv, Judged
  <2>3. Found' = Found \cup Faults(env, sig)
    BY <1>1, <1>4 DEF Found
  <2> QED BY <1>1, <2>1, <2>2, <2>3 DEF Judged
<1> QED BY <1>5, <1>7, <1>8 DEF IInv

LEMMA FinishStep ==
    ASSUME IInv, Finish
    PROVE  IInv'
<1>1. /\ env' = env /\ todo' = todo /\ out' = out /\ anyTLS' = anyTLS /\ anyGRPC' = anyGRPC
      /\ todo = <<>> /\ faults = Found
      /\ faults' = faults \cup Useless \cup OwnLogsUnverified(faults \cup Useless)
      /\ status' = IF faults' = {} THEN "rendered" ELSE "refused"
  BY DEF Finish, IInv, Judged
<1>2. Count' = Count /\ Read' = Read
  BY <1>1 DEF Count, Read
<1>3. Reading' /\ Resolved'
  BY <1>1, <1>2 DEF IInv, Reading, Resolved
<1>4. Found' = Found /\ Useless' = Useless
  BY <1>1, <1>2 DEF Found, Useless, UselessBase
<1>5. OwnLogsUnverified(Found \cup Useless)' = OwnLogsUnverified(Found \cup Useless)
  BY <1>1, <1>4 DEF OwnLogsUnverified
<1>6. Judged'
  BY <1>1, <1>4, <1>5 DEF Judged
<1> QED BY <1>3, <1>6 DEF IInv

LEMMA StutterStep ==
    ASSUME IInv, UNCHANGED vars
    PROVE  IInv'
<1>1. /\ env' = env /\ todo' = todo /\ out' = out /\ anyTLS' = anyTLS /\ anyGRPC' = anyGRPC
      /\ faults' = faults /\ status' = status
  BY DEF vars
<1>2. Count' = Count /\ Read' = Read
  BY <1>1 DEF Count, Read
<1>3. Reading' /\ Resolved'
  BY <1>1, <1>2 DEF IInv, Reading, Resolved
<1>4. Found' = Found /\ Useless' = Useless
  BY <1>1, <1>2 DEF Found, Useless, UselessBase
<1>5. OwnLogsUnverified(Found \cup Useless)' = OwnLogsUnverified(Found \cup Useless)
  BY <1>1, <1>4 DEF OwnLogsUnverified
<1>6. Judged'
  BY <1>1, <1>4, <1>5 DEF IInv, Judged
<1> QED BY <1>3, <1>6 DEF IInv

\* What Resolve has found is at every moment that of the signals it has read:
\* no state of the resolver leaks from one signal to the next.
THEOREM Invariance == Spec => []IInv
<1>1. IInv /\ [Next]_vars => IInv'
  BY ResolveSignalStep, FinishStep, StutterStep DEF Next
<1> QED BY InitIInv, <1>1, PTL DEF Spec

-----------------------------------------------------------------------------
(* Values. *)

\* Code and document agree on which form of a variable counts.
LEMMA Effectively ==
    ASSUME NEW e, NEW s, NEW sig
    PROVE  /\ Value(e, s, sig).raw = Effective(e, s, sig)
           /\ Value(e, s, sig).from = IF s \notin Global /\ e[s][sig] # NoText THEN sig ELSE "base"
<1> DEFINE own   == IF s \in Global THEN NoText ELSE e[s][sig]
           base  == e[s]["base"]
           def   == Default(s)
           forms == <<own, base, def>>
           set   == {i \in 1..3 : forms[i] # NoText}
           least == CHOOSE i \in set : \A j \in set : i <= j
<1>1. Effective(e, s, sig) = IF set = {} THEN NoText ELSE forms[least]
  BY DEF Effective
<1>2. forms[1] = own /\ forms[2] = base /\ forms[3] = def
  OBVIOUS
<1> HIDE DEF forms
<1>3. CASE own # NoText
  <2>1. 1 \in set /\ \A j \in set : 1 <= j
    BY <1>2, <1>3
  <2>2. least \in set /\ \A j \in set : least <= j
    <3> HIDE DEF set
    <3> QED BY <2>1
  <2>3. least = 1
    BY <2>1, <2>2
  <2> HIDE DEF set, least
  <2>4. Effective(e, s, sig) = own
    BY <1>1, <1>2, <2>1, <2>3
  <2> QED BY <1>3, <2>4 DEF Value
<1>4. CASE own = NoText /\ base # NoText
  <2>1. 2 \in set /\ \A j \in set : 2 <= j
    BY <1>2, <1>4
  <2>2. least \in set /\ \A j \in set : least <= j
    <3> HIDE DEF set
    <3> QED BY <2>1
  <2>3. least = 2
    BY <2>1, <2>2
  <2> HIDE DEF set, least
  <2>4. Effective(e, s, sig) = base
    BY <1>1, <1>2, <2>1, <2>3
  <2> QED BY <1>4, <2>4 DEF Value
<1>5. CASE own = NoText /\ base = NoText /\ def # NoText
  <2>1. 3 \in set /\ \A j \in set : 3 <= j
    BY <1>2, <1>5
  <2>2. least \in set /\ \A j \in set : least <= j
    <3> HIDE DEF set
    <3> QED BY <2>1
  <2>3. least = 3
    BY <2>1, <2>2
  <2> HIDE DEF set, least
  <2>4. Effective(e, s, sig) = def
    BY <1>1, <1>2, <2>1, <2>3
  <2> QED BY <1>5, <2>4 DEF Value
<1>6. CASE own = NoText /\ base = NoText /\ def = NoText
  <2>1. set = {}
    BY <1>2, <1>6
  <2> HIDE DEF set
  <2>2. Effective(e, s, sig) = NoText
    BY <1>1, <2>1
  <2> QED BY <1>6, <2>2 DEF Value
<1> QED BY <1>3, <1>4, <1>5, <1>6

LEMMA ParsedValues ==
    ASSUME NEW e, NEW sig, Parsed(e, sig)
    PROVE  \A s \in DOMAIN Plain \cup Named : Parses(s, Effective(e, s, sig), Effective(e, "PROTOCOL", sig))
<1>1. Unparsed(e, sig) = {}
  BY DEF Parsed, ParseFaults
<1>2. \A s \in DOMAIN Plain \cup Named : Parses(s, Value(e, s, sig).raw, Value(e, "PROTOCOL", sig).raw)
  BY <1>1 DEF Unparsed
<1> QED BY <1>2, Effectively

\* Once every signal has been read.
LEMMA AllRead ==
    ASSUME IInv, todo = <<>>
    PROVE  Read = AllSignals
<1>1. Len(todo) = 0 /\ Signals \in Seq(STRING)
  BY SignalsAreNamed
<1>2. Count = Len(Signals) /\ DOMAIN Signals = 1..Len(Signals)
  BY <1>1 DEF Count
<1> QED BY <1>2 DEF Read, AllSignals

LEMMA RenderedIsClean ==
    ASSUME IInv, status = "rendered"
    PROVE  /\ DOMAIN out = AllSignals /\ Useless = {} /\ OwnLogsUnverified({}) = {}
           /\ \A sig \in AllSignals : /\ Parsed(env, sig) /\ ConflictFaults(env, sig) = {}
                                     /\ out[sig] = ExporterConfig(env, sig)
<1>1. /\ todo = <<>> /\ faults = {} /\ faults = Found \cup Useless \cup OwnLogsUnverified(Found \cup Useless)
  BY DEF IInv, Judged
<1>2. Found = {} /\ Useless = {} /\ Found \cup Useless = {}
  BY <1>1
<1>3. OwnLogsUnverified({}) = {}
  BY <1>1, <1>2
<1>4. \A s \in AllSignals : Faults(env, s) = {}
  BY <1>1, <1>2, AllRead DEF Found
<1>5. \A s \in AllSignals : Parsed(env, s) /\ ConflictFaults(env, s) = {}
  BY <1>4 DEF Faults, Parsed
<1>6. DOMAIN out = AllSignals /\ \A s \in AllSignals : out[s] = ExporterConfig(env, s)
  BY <1>1, <1>4, AllRead DEF IInv, Resolved
<1> QED BY <1>2, <1>3, <1>5, <1>6

-----------------------------------------------------------------------------
(* Exporters. *)

LEMMA Least ==
    ASSUME NEW S, S \subseteq Nat, S # {}
    PROVE  \E i \in S : \A j \in S : i <= j
  <1> DEFINE R == OpToRel(<, Nat)
  <1>1. PICK i \in S : \A j \in S : ~(<<j, i>> \in R)
    <2>1. IsWellFoundedOn(R, Nat)
      BY NatLessThanWellFounded
    <2> HIDE DEF R
    <2> QED BY <2>1, WFMin, Zenon
  <1>2. \A j \in S : <<j, i>> \in Nat \X Nat /\ (j < i => <<j, i>> \in R)
    BY DEF OpToRel
  <1> HIDE DEF R
  <1>3. \A j \in S : i \in Nat /\ j \in Nat /\ ~(j < i)
    BY <1>1, <1>2
  <1> QED BY <1>3

\* Of the signals that share a configuration one comes first, and no other.
LEMMA OneComesFirst ==
    ASSUME NEW b, DOMAIN b = AllSignals
    PROVE  /\ \A sig \in AllSignals : \E r \in AllSignals : ComesFirst(b, r) /\ b[r] = b[sig]
           /\ \A r, q \in AllSignals : ComesFirst(b, r) /\ ComesFirst(b, q) /\ b[r] = b[q] => r = q
<1>1. /\ DOMAIN Signals = 1..Len(Signals) /\ Len(Signals) \in Nat
      /\ \A i, j \in DOMAIN Signals : Signals[i] = Signals[j] => i = j
      /\ \A i \in DOMAIN Signals : Signals[i] \in AllSignals
      /\ \A sig \in AllSignals : \E i \in DOMAIN Signals : Signals[i] = sig
  BY SignalsAreNamed DEF AllSignals
<1>2. ASSUME NEW sig \in AllSignals
      PROVE  \E r \in AllSignals : ComesFirst(b, r) /\ b[r] = b[sig]
  <2> DEFINE S == {i \in DOMAIN Signals : b[Signals[i]] = b[sig]}
  <2>1. S \subseteq Nat /\ S # {}
    BY <1>1
  <2>2. PICK i \in S : \A j \in S : i <= j
    <3> HIDE DEF S
    <3> QED BY <2>1, Least, Zenon
  <2>3. \A j \in 1..(i - 1) : b[Signals[j]] # b[sig]
    BY <1>1, <2>2
  <2>4. ComesFirst(b, Signals[i])
    BY <1>1, <2>2, <2>3 DEF ComesFirst, Shares
  <2> QED BY <1>1, <2>2, <2>4
<1>3. ASSUME NEW r \in AllSignals, NEW q \in AllSignals, ComesFirst(b, r), ComesFirst(b, q), b[r] = b[q]
      PROVE  r = q
  <2>1. PICK i \in DOMAIN Signals : Signals[i] = r
    BY <1>1
  <2>2. PICK k \in DOMAIN Signals : Signals[k] = q
    BY <1>1
  <2>3. ~(k \in 1..(i - 1)) /\ ~(i \in 1..(k - 1))
    BY <1>3, <2>1, <2>2 DEF ComesFirst, Shares
  <2>4. i = k
    BY <1>1, <2>1, <2>2, <2>3
  <2> QED BY <2>1, <2>2, <2>4
<1> QED BY <1>2, <1>3

\* So each signal has one exporter, with the configuration it resolved to.
LEMMA OneExporter ==
    ASSUME NEW b, DOMAIN b = AllSignals, NEW sig \in AllSignals
    PROVE  /\ Exporter(b, b[sig]) \in Exporters(b) /\ sig \in Exporter(b, b[sig]).signals
           /\ \A e \in Exporters(b) : sig \in e.signals => e = Exporter(b, b[sig])
<1>1. PICK r \in AllSignals : ComesFirst(b, r) /\ b[r] = b[sig]
  BY OneComesFirst
<1>2. Exporter(b, b[sig]) \in Exporters(b)
  BY <1>1 DEF Exporters
<1>3. \A cfg : Exporter(b, cfg).signals = {s \in AllSignals : b[s] = cfg}
  BY DEF Exporter, Served, Shares
<1>4. \A e \in Exporters(b) : \E q \in AllSignals : e = Exporter(b, b[q])
  BY DEF Exporters
<1>5. ASSUME NEW e \in Exporters(b), sig \in e.signals
      PROVE  e = Exporter(b, b[sig])
  <2>1. PICK q \in AllSignals : e = Exporter(b, b[q])
    BY <1>4
  <2>2. b[sig] = b[q]
    BY <1>3, <1>5, <2>1
  <2> QED BY <2>1, <2>2
<1> QED BY <1>2, <1>3, <1>5

\* ExporterFor's CHOOSE has that one to choose.
LEMMA ExporterOfASignal ==
    ASSUME DOMAIN out = AllSignals, NEW sig \in AllSignals
    PROVE  ExporterFor(sig) = Exporter(out, out[sig])
<1>1. \E e \in Exporters(out) : sig \in e.signals
  BY OneExporter
<1>2. \A e \in Exporters(out) : sig \in e.signals => e = Exporter(out, out[sig])
  BY OneExporter
<1>3. ExporterFor(sig) \in Exporters(out) /\ sig \in ExporterFor(sig).signals
  BY <1>1 DEF ExporterFor
<1> QED BY <1>2, <1>3

-----------------------------------------------------------------------------
(* The properties. *)

Kinds == {"invalid", "grpc_only", "together", "plaintext", "useless", "own_logs"}

LEMMA FaultKinds ==
    ASSUME NEW e, NEW sig
    PROVE  /\ \A f \in ParseFaults(e, sig) : f[1] = "invalid"
           /\ \A f \in ConflictFaults(e, sig) : f[1] \in {"grpc_only", "together", "plaintext"}
<1>1. \A f \in ParseFaults(e, sig) : f[1] = "invalid"
  BY DEF ParseFaults
<1>2. \A f \in ConflictFaults(e, sig) : f[1] \in {"grpc_only", "together", "plaintext"}
  BY DEF ConflictFaults, Says
<1> QED BY <1>1, <1>2

\* What the resolver keeps has its type, and is rendered only whole (Resolve).
THEOREM TypeCorrect == Spec => []TypeOK
<1>1. ASSUME IInv
      PROVE  TypeOK
  <2>1. Read \subseteq AllSignals
    <3>1. Signals \in Seq(STRING) /\ Len(Signals) \in Nat /\ todo \in Seq(STRING) /\ Len(todo) \in Nat
      BY <1>1, SignalsAreNamed DEF IInv, Reading
    <3>2. DOMAIN Signals = 1..Len(Signals) /\ Count <= Len(Signals) /\ Count \in Int
      BY <3>1 DEF Count
    <3> QED BY <3>2 DEF Read, AllSignals
  <2>2. DOMAIN out \subseteq AllSignals /\ anyTLS \in BOOLEAN /\ anyGRPC \in BOOLEAN /\ env \in Environments
    BY <1>1, <2>1 DEF IInv, Reading, Resolved
  <2>3. status \in {"resolving", "refused", "rendered"}
    BY <1>1 DEF IInv, Judged
  <2>4. \A f \in Found : f[1] \in Kinds
    BY FaultKinds DEF Found, Faults, Kinds
  <2>5. \A f \in Useless : f[1] \in Kinds
    BY DEF Useless, Kinds
  <2>6. \A f \in OwnLogsUnverified(Found \cup Useless) : f[1] \in Kinds
    BY DEF OwnLogsUnverified, Says, Kinds
  <2>7. \A f \in faults : f[1] \in Kinds
    BY <1>1, <2>4, <2>5, <2>6 DEF IInv, Judged
  <2> QED BY <1>1, <2>2, <2>3, <2>7, RenderedIsClean DEF TypeOK, Kinds
<1> QED BY Invariance, <1>1, PTL

\* No two exporters have one id, and each signal has exactly one (all,
\* ExporterFor): two with one id would serve the same signals, so have the
\* configuration of any of them.
THEOREM DistinctExporters == Spec => []ExportersAreDistinct
<1>1. ASSUME IInv, status = "rendered"
      PROVE  /\ \A d, e \in Exporters(out) : d.id = e.id => d = e
             /\ \A sig \in AllSignals : Cardinality({e \in Exporters(out) : sig \in e.signals}) = 1
  <2>1. DOMAIN out = AllSignals
    BY <1>1, RenderedIsClean
  <2>2. ASSUME NEW d \in Exporters(out), NEW e \in Exporters(out), d.id = e.id
        PROVE  d = e
    <3>1. PICK p \in AllSignals : d = Exporter(out, out[p])
      BY <2>1 DEF Exporters
    <3>2. PICK q \in AllSignals : e = Exporter(out, out[q])
      BY <2>1 DEF Exporters
    <3> DEFINE D == {s \in AllSignals : out[s] = out[p]}
               E == {s \in AllSignals : out[s] = out[q]}
    <3>3. /\ d.signals = D /\ d.id[2] = IF D = AllSignals THEN {} ELSE D
          /\ e.signals = E /\ e.id[2] = IF E = AllSignals THEN {} ELSE E
      BY <2>1, <3>1, <3>2 DEF Exporter, Served, Shares, Id
    <3>4. p \in D /\ q \in E /\ d.id[2] = e.id[2]
      BY <2>2
    <3> HIDE DEF D, E
    <3>5. d.signals = e.signals /\ q \in e.signals
      BY <3>3, <3>4
    <3> QED BY <2>1, <3>2, <3>5, OneExporter
  <2>3. ASSUME NEW sig \in AllSignals
        PROVE  Cardinality({e \in Exporters(out) : sig \in e.signals}) = 1
    <3>1. {e \in Exporters(out) : sig \in e.signals} = {Exporter(out, out[sig])}
      BY <2>1, OneExporter
    <3> QED BY <3>1, FS_Singleton
  <2> QED BY <2>2, <2>3
<1>2. IInv => ExportersAreDistinct
  BY <1>1 DEF ExportersAreDistinct
<1> QED BY Invariance, <1>2, PTL

\* Every malformed or missing variable is reported at once, for every signal,
\* whatever else is at fault (Resolve, resolver.fail).
THEOREM ReportsAllMalformed == Spec => []MalformedAllReported
<1>1. ASSUME IInv, todo = <<>>, NEW sig \in AllSignals, NEW s \in DOMAIN Plain \cup Named,
             ~Parses(s, Effective(env, s, sig), Effective(env, "PROTOCOL", sig))
      PROVE  \E from \in {"base", sig} : <<"invalid", s, from>> \in faults
  <2>1. s \in Unparsed(env, sig)
    BY <1>1, Effectively DEF Unparsed
  <2>2. <<"invalid", s, Value(env, s, sig).from>> \in ParseFaults(env, sig)
    BY <2>1 DEF ParseFaults
  <2>3. ParseFaults(env, sig) \subseteq Faults(env, sig)
    BY DEF Faults, Parsed
  <2>4. Faults(env, sig) \subseteq faults
    <3>1. Faults(env, sig) \subseteq Found
      BY <1>1, AllRead DEF Found
    <3> QED BY <1>1, <3>1 DEF IInv, Judged
  <2>5. Value(env, s, sig).from \in {"base", sig}
    BY Effectively
  <2> QED BY <2>2, <2>3, <2>4, <2>5
<1>2. IInv => MalformedAllReported
  BY <1>1 DEF MalformedAllReported
<1> QED BY Invariance, <1>2, PTL

\* What parsing leaves: values each is defined on, and TLS as documented.
LEMMA WhatParses ==
    ASSUME NEW e, NEW sig, Parsed(e, sig)
    PROVE  /\ Effective(e, "PROTOCOL", sig) \in Protocols
           /\ EndpointParses(Effective(e, "ENDPOINT", sig), Effective(e, "PROTOCOL", sig))
           /\ Effective(e, "INSECURE", sig) \in DOMAIN Booleans
           /\ Effective(e, "SKIP_VERIFY", sig) \in DOMAIN Booleans
<1>1. \A s \in Named : s \notin DOMAIN Plain /\ Parses(s, Effective(e, s, sig), Effective(e, "PROTOCOL", sig))
  BY ParsedValues, PlainIsApart
<1>2. Effective(e, "PROTOCOL", sig) \in Protocols
  BY <1>1 DEF Named, Parses
<1>3. EndpointParses(Effective(e, "ENDPOINT", sig), Effective(e, "PROTOCOL", sig))
  BY <1>1, <1>2 DEF Named, Parses
<1>4. Effective(e, "INSECURE", sig) \in DOMAIN Booleans /\ Effective(e, "SKIP_VERIFY", sig) \in DOMAIN Booleans
  BY <1>1 DEF Named, Parses
<1> QED BY <1>2, <1>3, <1>4

LEMMA PlaintextAsDocumented ==
    ASSUME NEW e, NEW sig, Parsed(e, sig)
    PROVE  Plaintext(e, sig) <=> ~DocTLS(e, sig)
<1>1. Urls[Effective(e, "ENDPOINT", sig)].scheme \in {"http", "https"}
  BY WhatParses DEF EndpointParses
<1>2. /\ Value(e, "ENDPOINT", sig).raw = Effective(e, "ENDPOINT", sig)
      /\ Value(e, "PROTOCOL", sig).raw = Effective(e, "PROTOCOL", sig)
      /\ Value(e, "INSECURE", sig).raw = Effective(e, "INSECURE", sig)
  BY Effectively
<1> QED BY <1>1, <1>2 DEF Plaintext, DocTLS, IsGRPC, Insecure

\* The configuration, read off the document.
LEMMA ConfigAsDocumented ==
    ASSUME NEW e, NEW sig \in AllSignals, Parsed(e, sig)
    PROVE  LET c == ExporterConfig(e, sig)
           IN  /\ c.protocol = Effective(e, "PROTOCOL", sig)
               /\ c.endpoint = IF Effective(e, "PROTOCOL", sig) = "grpc" THEN Urls[Effective(e, "ENDPOINT", sig)].host
                               ELSE Effective(e, "ENDPOINT", sig)
               /\ c.signalPath <=> Effective(e, "PROTOCOL", sig) # "grpc" /\ e["ENDPOINT"][sig] = NoText
               /\ c.plaintext = ~DocTLS(e, sig)
               /\ c.headers = HeaderLists[Effective(e, "HEADERS", sig)]
               /\ \A s \in DOMAIN Plain : c.plain[s] = Plain[s].parse[Effective(e, s, sig)]
               /\ \A f \in TlsFiles : c.files[f] = IF DocTLS(e, sig) THEN Effective(e, f, sig) ELSE NoText
               /\ c.skipVerify = (DocTLS(e, sig) /\ Booleans[Effective(e, "SKIP_VERIFY", sig)])
<1> DEFINE c == ExporterConfig(e, sig)
<1>1. \A s : Value(e, s, sig).raw = Effective(e, s, sig)
  BY Effectively
<1>2. /\ c.protocol = Effective(e, "PROTOCOL", sig)
      /\ c.endpoint = IF Effective(e, "PROTOCOL", sig) = "grpc" THEN Urls[Effective(e, "ENDPOINT", sig)].host
                      ELSE Effective(e, "ENDPOINT", sig)
      /\ c.headers = HeaderLists[Effective(e, "HEADERS", sig)]
  BY <1>1 DEF ExporterConfig, IsGRPC
<1>3. c.signalPath <=> Effective(e, "PROTOCOL", sig) # "grpc" /\ e["ENDPOINT"][sig] = NoText
  <2>1. Value(e, "ENDPOINT", sig).from = "base" <=> e["ENDPOINT"][sig] = NoText
    <3>1. Value(e, "ENDPOINT", sig).from = IF "ENDPOINT" \notin Global /\ e["ENDPOINT"][sig] # NoText THEN sig ELSE "base"
      BY Effectively
    <3>2. "ENDPOINT" \notin Global /\ sig # "base"
      BY SignalsAreNamed DEF Global
    <3> QED BY <3>1, <3>2
  <2> QED BY <1>1, <2>1 DEF ExporterConfig, IsGRPC
<1>4. c.plaintext = ~DocTLS(e, sig)
  <2>1. c.plaintext = Plaintext(e, sig)
    BY DEF ExporterConfig
  <2>2. Plaintext(e, sig) = ~DocTLS(e, sig)
    BY PlaintextAsDocumented DEF Plaintext, DocTLS
  <2> QED BY <2>1, <2>2
<1>5. \A s \in DOMAIN Plain : c.plain[s] = Plain[s].parse[Effective(e, s, sig)]
  BY <1>1 DEF ExporterConfig
<1>6. \A f \in TlsFiles : c.files[f] = IF DocTLS(e, sig) THEN Effective(e, f, sig) ELSE NoText
  BY <1>1, PlaintextAsDocumented DEF ExporterConfig
<1>7. c.skipVerify = (DocTLS(e, sig) /\ Booleans[Effective(e, "SKIP_VERIFY", sig)])
  <2>1. c.skipVerify = (~Plaintext(e, sig) /\ Booleans[Effective(e, "SKIP_VERIFY", sig)])
    BY <1>1 DEF ExporterConfig
  <2> QED BY <2>1, PlaintextAsDocumented
<1> QED BY <1>2, <1>3, <1>4, <1>5, <1>6, <1>7

LEMMA DestinationAsDocumented ==
    ASSUME DOMAIN out = AllSignals, NEW sig \in AllSignals, Parsed(env, sig), out[sig] = ExporterConfig(env, sig)
    PROVE  Destination(Exporter(out, out[sig]), sig) =
               IF Effective(env, "PROTOCOL", sig) = "grpc" THEN <<Urls[Effective(env, "ENDPOINT", sig)].host, NoPath>>
               ELSE <<Effective(env, "ENDPOINT", sig), IF env["ENDPOINT"][sig] # NoText THEN NoPath ELSE Path(sig)>>
<1> DEFINE c == out[sig]
           x == Exporter(out, c)
<1>1. /\ c.protocol = Effective(env, "PROTOCOL", sig)
      /\ c.endpoint = IF Effective(env, "PROTOCOL", sig) = "grpc" THEN Urls[Effective(env, "ENDPOINT", sig)].host
                      ELSE Effective(env, "ENDPOINT", sig)
      /\ c.signalPath <=> Effective(env, "PROTOCOL", sig) # "grpc" /\ env["ENDPOINT"][sig] = NoText
  BY ConfigAsDocumented
<1>2. x.config = c /\ x.endpoints = Endpoints(c, Served(out, c)) /\ sig \in Served(out, c)
  BY DEF Exporter, Served, Shares
<1>3. sig # "endpoint"
  BY SignalsAreNamed
<1> HIDE DEF c, x
<1>4. CASE c.protocol = "grpc"
  <2>1. x.endpoints["endpoint"] = c.endpoint
    BY <1>2, <1>4 DEF Endpoints
  <2> QED BY <1>1, <1>2, <1>4, <2>1 DEF Destination, c, x
<1>5. CASE c.protocol # "grpc" /\ c.signalPath
  <2>1. x.endpoints["endpoint"] = c.endpoint /\ DOMAIN x.endpoints = {"endpoint"}
    BY <1>2, <1>5 DEF Endpoints
  <2> QED BY <1>1, <1>2, <1>3, <1>5, <2>1 DEF Destination, c, x
<1>6. CASE c.protocol # "grpc" /\ ~c.signalPath
  <2>1. x.endpoints[sig] = c.endpoint /\ sig \in DOMAIN x.endpoints
    BY <1>2, <1>6 DEF Endpoints
  <2> QED BY <1>1, <1>2, <1>6, <2>1 DEF Destination, c, x
<1> QED BY <1>4, <1>5, <1>6

\* Each signal goes where and how its variables say, by the exporter it is
\* given (Resolve, all, endpoints).
THEOREM FollowsTheDocument == Spec => []GoesWhereDocumented
<1>1. ASSUME IInv, status = "rendered", NEW sig \in AllSignals
      PROVE  LET e == ExporterFor(sig)
                 c == e.config
             IN  /\ Destination(e, sig) =
                      IF Effective(env, "PROTOCOL", sig) = "grpc" THEN <<Urls[Effective(env, "ENDPOINT", sig)].host, NoPath>>
                      ELSE <<Effective(env, "ENDPOINT", sig), IF env["ENDPOINT"][sig] # NoText THEN NoPath ELSE Path(sig)>>
                 /\ c.protocol = Effective(env, "PROTOCOL", sig) /\ c.plaintext = ~DocTLS(env, sig)
                 /\ c.headers = HeaderLists[Effective(env, "HEADERS", sig)]
                 /\ \A s \in DOMAIN Plain : c.plain[s] = Plain[s].parse[Effective(env, s, sig)]
                 /\ \A f \in TlsFiles : c.files[f] = IF DocTLS(env, sig) THEN Effective(env, f, sig) ELSE NoText
                 /\ c.skipVerify = (DocTLS(env, sig) /\ Booleans[Effective(env, "SKIP_VERIFY", sig)])
  <2>1. DOMAIN out = AllSignals /\ Parsed(env, sig) /\ out[sig] = ExporterConfig(env, sig)
    BY <1>1, RenderedIsClean
  <2>2. ExporterFor(sig) = Exporter(out, out[sig]) /\ ExporterFor(sig).config = ExporterConfig(env, sig)
    BY <2>1, ExporterOfASignal DEF Exporter
  <2> QED BY <2>1, <2>2, DestinationAsDocumented, ConfigAsDocumented
<1>2. IInv => GoesWhereDocumented
  BY <1>1 DEF GoesWhereDocumented
<1> QED BY Invariance, <1>2, PTL

\* The process's own logs go where client logs go, and as they do, though
\* their exporter is made up apart from the collector's (selfLogsExporter).
THEOREM OwnLogsGoAlong == Spec => []OwnLogsFollow
<1>1. ASSUME IInv, status = "rendered", OwnLogsUpstream(env)
      PROVE  LET e    == ExporterFor("logs")
                 self == SelfLogsExporter(out["logs"])
             IN  /\ self.to = Destination(e, "logs") /\ self.tls = DocTLS(env, "logs")
                 /\ self.files = e.config.files /\ self.headers = e.config.headers
                 /\ ~e.config.skipVerify
  <2> DEFINE c    == out["logs"]
             e    == ExporterFor("logs")
             self == SelfLogsExporter(c)
  <2>1. /\ DOMAIN out = AllSignals /\ "logs" \in AllSignals
        /\ Parsed(env, "logs") /\ c = ExporterConfig(env, "logs") /\ OwnLogsUnverified({}) = {}
    BY <1>1, RenderedIsClean, SignalsAreNamed
  <2>2. e = Exporter(out, c) /\ e.config = c
    BY <2>1, ExporterOfASignal DEF Exporter
  <2>3. /\ c.protocol = Effective(env, "PROTOCOL", "logs") /\ c.plaintext = ~DocTLS(env, "logs")
        /\ c.endpoint = IF Effective(env, "PROTOCOL", "logs") = "grpc" THEN Urls[Effective(env, "ENDPOINT", "logs")].host
                        ELSE Effective(env, "ENDPOINT", "logs")
        /\ c.signalPath <=> Effective(env, "PROTOCOL", "logs") # "grpc" /\ env["ENDPOINT"]["logs"] = NoText
    BY <2>1, ConfigAsDocumented
  <2>4. self.to = Destination(e, "logs")
    <3>1. self.to = <<c.endpoint, IF c.signalPath THEN Path("logs") ELSE NoPath>>
      BY DEF SelfLogsExporter
    <3>2. Destination(e, "logs") =
              IF Effective(env, "PROTOCOL", "logs") = "grpc" THEN <<Urls[Effective(env, "ENDPOINT", "logs")].host, NoPath>>
              ELSE <<Effective(env, "ENDPOINT", "logs"), IF env["ENDPOINT"]["logs"] # NoText THEN NoPath ELSE Path("logs")>>
      BY <2>1, <2>2, DestinationAsDocumented
    <3> QED BY <2>3, <3>1, <3>2
  <2>5. self.tls = DocTLS(env, "logs")
    <3>1. self.tls = IF c.protocol = "grpc" THEN ~c.plaintext ELSE Urls[c.endpoint].scheme = "https"
      BY DEF SelfLogsExporter
    <3>2. DocTLS(env, "logs") \in BOOLEAN
      BY DEF DocTLS
    <3> QED BY <2>3, <3>1, <3>2 DEF DocTLS
  <2>6. self.files = c.files /\ self.headers = c.headers
    <3>1. self.files = (IF c.plaintext THEN [f \in TlsFiles |-> NoText] ELSE c.files) /\ self.headers = c.headers
      BY DEF SelfLogsExporter
    <3>2. c.plaintext => c.files = [f \in TlsFiles |-> NoText]
      BY <2>1 DEF ExporterConfig
    <3> QED BY <3>1, <3>2
  <2>7. ~c.skipVerify
    <3>1. ~({} = {} /\ OwnLogsUpstream(env) /\ c.skipVerify)
      BY <2>1 DEF OwnLogsUnverified, Says
    <3> QED BY <1>1, <3>1
  <2> QED BY <2>2, <2>4, <2>5, <2>6, <2>7
<1>2. IInv => OwnLogsFollow
  BY <1>1 DEF OwnLogsFollow
<1> QED BY Invariance, <1>2, PTL

\* A signal's faults across variables, read off the document.
LEMMA ConflictsAsDocumented ==
    ASSUME NEW e, NEW sig \in AllSignals, Parsed(e, sig)
    PROVE  ConflictFaults(e, sig) # {} <=>
               \/ (Effective(e, "CLIENT_CERTIFICATE", sig) = NoText) # (Effective(e, "CLIENT_KEY", sig) = NoText)
               \/ /\ e["INSECURE"][sig] # NoText /\ Booleans[e["INSECURE"][sig]]
                  /\ Effective(e, "PROTOCOL", sig) # "grpc" /\ DocTLS(e, sig)
               \/ \E f \in TlsFiles : e[f][sig] # NoText /\ ~DocTLS(e, sig)
<1> DEFINE only == /\ ~IsGRPC(e, sig) /\ ~Plaintext(e, sig) /\ Insecure(e, sig)
                   /\ Value(e, "INSECURE", sig).from = sig
           half == (Value(e, "CLIENT_CERTIFICATE", sig).raw = NoText) # (Value(e, "CLIENT_KEY", sig).raw = NoText)
           file(f) == Plaintext(e, sig) /\ Value(e, f, sig).raw # NoText /\ Value(e, f, sig).from = sig
<1>1. ConflictFaults(e, sig) # {} <=> only \/ half \/ \E f \in TlsFiles : file(f)
  <2> HIDE DEF only, half, file
  <2> DEFINE Only  == Says(only, <<"grpc_only", "INSECURE", sig>>)
             Half  == Says(half, <<"together", Value(e, "CLIENT_CERTIFICATE", sig).from, Value(e, "CLIENT_KEY", sig).from>>)
             Files == {<<"plaintext", f, sig>> : f \in {f \in TlsFiles : file(f)}}
  <2>1. ConflictFaults(e, sig) = Only \cup Half \cup Files
    BY DEF ConflictFaults, only, half, file
  <2>2. Only # {} <=> only
    BY DEF Says
  <2>3. Half # {} <=> half
    BY DEF Says
  <2>4. Files # {} <=> \E f \in TlsFiles : file(f)
    OBVIOUS
  <2> HIDE DEF Only, Half, Files
  <2> QED BY <2>1, <2>2, <2>3, <2>4
<1>2. \A s : /\ Value(e, s, sig).raw = Effective(e, s, sig)
             /\ s \notin Global => (Value(e, s, sig).from = sig <=> e[s][sig] # NoText)
             /\ s \notin Global /\ e[s][sig] # NoText => Value(e, s, sig).raw = e[s][sig]
  <2>1. sig # "base"
    BY SignalsAreNamed
  <2> QED BY <2>1, Effectively DEF Value
<1>3. "INSECURE" \notin Global /\ \A f \in TlsFiles : f \notin Global
  BY DEF Global, TlsFiles
<1>4. Plaintext(e, sig) <=> ~DocTLS(e, sig)
  BY PlaintextAsDocumented
<1>5. only <=> /\ e["INSECURE"][sig] # NoText /\ Booleans[e["INSECURE"][sig]]
               /\ Effective(e, "PROTOCOL", sig) # "grpc" /\ DocTLS(e, sig)
  BY <1>2, <1>3, <1>4 DEF IsGRPC, Insecure
<1>6. half <=> (Effective(e, "CLIENT_CERTIFICATE", sig) = NoText) # (Effective(e, "CLIENT_KEY", sig) = NoText)
  BY <1>2
<1>7. \A f \in TlsFiles : file(f) <=> e[f][sig] # NoText /\ ~DocTLS(e, sig)
  BY <1>2, <1>3, <1>4
<1> HIDE DEF only, half, file
<1> QED BY <1>1, <1>5, <1>6, <1>7

\* Once every signal parsed, the flags tell what some signal uses.
LEMMA UselessAsDocumented ==
    ASSUME IInv, todo = <<>>, \A sig \in AllSignals : Parsed(env, sig)
    PROVE  UselessBase # {} <=>
               \/ /\ env["INSECURE"]["base"] \in DOMAIN Booleans /\ Booleans[env["INSECURE"]["base"]]
                  /\ \A sig \in AllSignals : Effective(env, "PROTOCOL", sig) # "grpc"
               \/ \E f \in TlsFiles : env[f]["base"] # NoText /\ \A sig \in AllSignals : ~DocTLS(env, sig)
<1>1. Read = AllSignals
  BY AllRead
<1>2. ~anyGRPC <=> \A sig \in AllSignals : Effective(env, "PROTOCOL", sig) # "grpc"
  BY <1>1, Effectively DEF IInv, Resolved, IsGRPC
<1>3. ~anyTLS <=> \A sig \in AllSignals : ~DocTLS(env, sig)
  BY <1>1, PlaintextAsDocumented DEF IInv, Resolved
<1> QED BY <1>2, <1>3 DEF UselessBase

\* An environment that parses is refused in the cases of the design and in no
\* other (resolve.go: anyTLS, anyGRPC, perSignal), whichever order the signals
\* are read in.
THEOREM RefusesAsDesigned == Spec => []RefusedAsDesigned
<1> DEFINE own(s, sig) == env[s][sig] # NoText
           half(sig)   == (Effective(env, "CLIENT_CERTIFICATE", sig) = NoText) # (Effective(env, "CLIENT_KEY", sig) = NoText)
           http(sig)   == Effective(env, "PROTOCOL", sig) # "grpc"
           conflict(sig) ==
               \/ half(sig)
               \/ own("INSECURE", sig) /\ Booleans[env["INSECURE"][sig]] /\ http(sig) /\ DocTLS(env, sig)
               \/ \E f \in TlsFiles : own(f, sig) /\ ~DocTLS(env, sig)
           useless ==
               \/ /\ env["INSECURE"]["base"] \in DOMAIN Booleans /\ Booleans[env["INSECURE"]["base"]]
                  /\ \A sig \in AllSignals : http(sig)
               \/ \E f \in TlsFiles : env[f]["base"] # NoText /\ \A sig \in AllSignals : ~DocTLS(env, sig)
           unverified == OwnLogsUpstream(env) /\ DocTLS(env, "logs") /\ Booleans[Effective(env, "SKIP_VERIFY", "logs")]
<1>1. ASSUME IInv, status # "resolving", \A f \in faults : f[1] # "invalid"
      PROVE  status = "refused" <=> (\E sig \in AllSignals : conflict(sig)) \/ useless \/ unverified
  <2>1. /\ todo = <<>> /\ faults = Found \cup Useless \cup OwnLogsUnverified(Found \cup Useless)
        /\ status = "refused" <=> faults # {}
    BY <1>1 DEF IInv, Judged
  <2>2. Found = UNION {Faults(env, sig) : sig \in AllSignals} /\ Read = AllSignals
    BY <1>1, <2>1, AllRead DEF Found
  <2>3. ASSUME NEW sig \in AllSignals
        PROVE  Parsed(env, sig) /\ Faults(env, sig) = ConflictFaults(env, sig)
    <3>1. Faults(env, sig) \subseteq faults
      BY <2>1, <2>2
    <3> QED BY <1>1, <3>1, FaultKinds DEF Faults, Parsed
  <2>4. \A sig \in AllSignals : ConflictFaults(env, sig) # {} <=> conflict(sig)
    BY <2>3, ConflictsAsDocumented
  <2>5. UselessBase # {} <=> useless
    BY <1>1, <2>1, <2>3, UselessAsDocumented
  <2> HIDE DEF conflict, useless, unverified
  <2>6. Found # {} <=> \E sig \in AllSignals : conflict(sig)
    BY <2>2, <2>3, <2>4
  <2>7. CASE Found # {}
    BY <2>1, <2>6, <2>7
  <2>8. CASE Found = {}
    <3>1. \A sig \in AllSignals : Faults(env, sig) = {}
      BY <2>2, <2>8
    <3>2. DOMAIN out = AllSignals /\ \A sig \in AllSignals : out[sig] = ExporterConfig(env, sig)
      BY <1>1, <2>2, <3>1 DEF IInv, Resolved
    <3>3. Useless # {} <=> useless
      BY <2>5, <3>2 DEF Useless
    <3>4. out["logs"].skipVerify <=> DocTLS(env, "logs") /\ Booleans[Effective(env, "SKIP_VERIFY", "logs")]
      <4>1. "logs" \in AllSignals /\ Parsed(env, "logs") /\ out["logs"] = ExporterConfig(env, "logs")
        BY <2>3, <3>2, SignalsAreNamed
      <4>2. ExporterConfig(env, "logs").skipVerify = (DocTLS(env, "logs") /\ Booleans[Effective(env, "SKIP_VERIFY", "logs")])
        BY <4>1, ConfigAsDocumented
      <4> QED BY <4>1, <4>2
    <3>5. Useless = {} => (OwnLogsUnverified(Found \cup Useless) # {} <=> unverified)
      BY <2>8, <3>4 DEF OwnLogsUnverified, Says, unverified
    <3> QED BY <2>1, <2>6, <2>8, <3>3, <3>5
  <2> QED BY <2>7, <2>8
<1>2. IInv => RefusedAsDesigned
  BY <1>1 DEF RefusedAsDesigned
<1> QED BY Invariance, <1>2, PTL
=============================================================================
