-------------------------- MODULE RunCommandProofs --------------------------
(***************************************************************************)
(* Proofs about the run command, for every set of processes and every      *)
(* environment: that the checks of the environment and those of the        *)
(* components add up, and what processes that share the temporary          *)
(* directory may run on.                                                   *)
(***************************************************************************)
EXTENDS RunCommand, FiniteSetTheorems, TLAPS

-----------------------------------------------------------------------------
(* The settings. *)

LEMMA NothingSaid ==
    ASSUME NEW broken, NEW what
    PROVE  Says(broken, what) = {} <=> ~broken
  BY DEF Says

\* Load reports nothing only if no group has a fault and no rule is broken.
LEMMA NothingReported ==
    ASSUME NEW e, Load(e, DOMAIN Group, RootRules(e)) = {}
    PROVE  /\ \A g \in DOMAIN Group : GroupRules(e, g) = {} /\ \A v \in Group[g] : ~AtFault(e, v)
           /\ RootRules(e) = {}
  <1>1. \A g \in DOMAIN Group : LoadGroup(e, g) = {} /\ RootRules(e) = {}
    BY DEF Load
  <1>2. RootRules(e) = {}
    BY DEF Load
  <1>3. \A g \in DOMAIN Group : LoadGroup(e, g) = {} => GroupRules(e, g) = {} /\ \A v \in Group[g] : ~AtFault(e, v)
    BY DEF LoadGroup
  <1>4. QED BY <1>1, <1>2, <1>3

LEMMA Groups ==
    DOMAIN Group = {"Identity", "Upstream", "Listener", "Bounds", "Metrics", "Resources", "Logs", "Own"}
  BY DEF Group

LEMMA GroupMembers ==
    /\ \A v \in {"OIDC_DISCOVERY_RETRY", "OIDC_JWKS_REFRESH", "CLOCK_SKEW", "REJECTION_LOG_INTERVAL",
                 "CLAIM_ATTRIBUTES", "CLIENT_RESOURCE_ATTRIBUTES"} : v \in Group["Identity"]
    /\ "MAX_REQUEST_BODY_BYTES" \in Group["Listener"]
    /\ "MAX_FUTURE_SKEW" \in Group["Bounds"] /\ "MAX_PAST_AGE" \in Group["Bounds"]
    /\ "MAX_METRIC_STREAMS" \in Group["Metrics"] /\ "DELTA_MAX_STALE" \in Group["Metrics"]
    /\ "MEMORY_LIMIT_MIB" \in Group["Resources"] /\ "MEMORY_SPIKE_LIMIT_MIB" \in Group["Resources"]
  BY DEF Group

LEMMA DefaultNumbers == \A v \in Numbers : Default[v] \in Int /\ v \notin Required /\ v \notin Lists
  BY DEF Numbers, Default, Required, Lists

\* What parsed is a number where the field is one, its default included.
LEMMA NumbersAreIntegers ==
    ASSUME NEW e, Parsed(e), NEW v \in Numbers, ~AtFault(e, v)
    PROVE  Value(e, v) \in Int
  BY DefaultNumbers DEF Parsed, AtFault, Value

\* What a list parses to is a sequence.
LEMMA ListsAreSequences ==
    ASSUME NEW pairs, IsFiniteSet(DOMAIN pairs)
    PROVE  \E n \in Nat : \E s : KeyValueList(pairs) = [i \in 1..n |-> s[i]]
  <1> DEFINE firsts == {i \in DOMAIN pairs : \A j \in 1..(i - 1) : pairs[j][1] # pairs[i][1]}
             n == Cardinality(firsts)
  <1>1. n \in Nat
    BY FS_Subset, FS_CardinalityType
  <1>2. DOMAIN KeyValueList(pairs) = 1..n /\ KeyValueList(pairs) = [i \in 1..n |-> KeyValueList(pairs)[i]]
    BY DEF KeyValueList
  <1>3. QED
    <2> HIDE DEF n
    <2> QED BY <1>1, <1>2

LEMMA DefaultClaims == IsFiniteSet(DOMAIN Default["CLAIM_ATTRIBUTES"])
  <1>1. DOMAIN Default["CLAIM_ATTRIBUTES"] = 1..4
    BY DEF Default
  <1>2. \A a, b \in Int : IsFiniteSet(a..b)
    BY FS_Interval
  <1>3. 1 \in Int /\ 4 \in Int
    OBVIOUS
  <1>4. IsFiniteSet(1..4)
    BY <1>2, <1>3, Zenon
  <1>5. QED BY <1>1, <1>4

LEMMA ClaimsAreSequence ==
    ASSUME NEW e, Parsed(e), ~AtFault(e, "CLAIM_ATTRIBUTES")
    PROVE  \E n \in Nat : \E s : Value(e, "CLAIM_ATTRIBUTES") = [i \in 1..n |-> s[i]]
  <1> DEFINE raw == IF e["CLAIM_ATTRIBUTES"] = Unset THEN Default["CLAIM_ATTRIBUTES"] ELSE e["CLAIM_ATTRIBUTES"]
  <1>1. Value(e, "CLAIM_ATTRIBUTES") = KeyValueList(raw)
    BY DEF Value, Lists
  <1>2. IsFiniteSet(DOMAIN raw)
    BY DefaultClaims DEF Parsed, AtFault, Lists
  <1>3. QED
    <2> HIDE DEF raw
    <2> QED BY <1>1, <1>2, ListsAreSequences

\* Claims that break no rule name each attribute once, none of them empty or
\* the client's, and no static key is one of them or the client's.
LEMMA ClaimsAreSound ==
    ASSUME NEW e, Parsed(e), ~AtFault(e, "CLAIM_ATTRIBUTES"), IdentityRules(e) = {}
    PROVE  /\ Attributes(e) # {} /\ NoText \notin Attributes(e)
           /\ (Attributes(e) \cup StaticKeys(e)) \cap ServiceKeys = {}
           /\ Attributes(e) \cap StaticKeys(e) = {}
           /\ \A i, j \in DOMAIN Value(e, "CLAIM_ATTRIBUTES") :
                 Value(e, "CLAIM_ATTRIBUTES")[i][2] = Value(e, "CLAIM_ATTRIBUTES")[j][2] => i = j
  <1> DEFINE claims == Value(e, "CLAIM_ATTRIBUTES")
             before(i) == {claims[j][2] : j \in 1..(i - 1)}
             bad == {j \in DOMAIN claims : claims[j][2] = NoText \/ ClientOwned(claims[j][2]) \/ claims[j][2] \in before(j)}
             static == {key \in StaticKeys(e) : ClientOwned(key) \/ key \in Attributes(e)}
             named(i) == CASE claims[i][2] = NoText      -> "no_attribute"
                           [] ClientOwned(claims[i][2]) -> "clients_attribute"
                           [] OTHER                     -> "attribute_twice"
             owner(k) == IF ClientOwned(k) THEN "clients_resource_key" ELSE "claims_resource_key"
  <1>1. IdentityRules(e) = Says(claims = <<>>, "no_claim") \cup {named(i) : i \in bad} \cup {owner(k) : k \in static}
    BY DEF IdentityRules
  <1>2. claims # <<>> /\ bad = {} /\ static = {}
    <2> HIDE DEF claims, bad, static, named, owner
    <2> QED BY <1>1, NothingSaid
  <1>3. PICK n \in Nat : \E s : claims = [i \in 1..n |-> s[i]]
    BY ClaimsAreSequence
  <1>4. DOMAIN claims = 1..n /\ DOMAIN claims # {}
    <2> PICK s : claims = [i \in 1..n |-> s[i]]
      BY <1>3
    <2> HIDE DEF claims
    <2> QED BY <1>2
  <1>5. Attributes(e) = {claims[i][2] : i \in DOMAIN claims}
    BY DEF Attributes
  <1>6. \A i \in DOMAIN claims : claims[i][2] # NoText /\ ~ClientOwned(claims[i][2]) /\ claims[i][2] \notin before(i)
    <2> HIDE DEF claims, before
    <2> QED BY <1>2
  <1>7. \A k \in StaticKeys(e) : ~ClientOwned(k) /\ k \notin Attributes(e)
    BY <1>2
  <1>8. \A i, j \in DOMAIN claims : j < i => claims[i][2] # claims[j][2]
    <2> SUFFICES ASSUME NEW i \in DOMAIN claims, NEW j \in DOMAIN claims, j < i
                 PROVE  claims[i][2] # claims[j][2]
      OBVIOUS
    <2>1. j \in 1..(i - 1)
      <3> HIDE DEF claims
      <3> QED BY <1>4
    <2>2. claims[j][2] \in before(i)
      <3> HIDE DEF claims
      <3> QED BY <2>1
    <2>3. QED
      <3> HIDE DEF claims, before
      <3> QED BY <2>2, <1>6
  <1> HIDE DEF claims, before
  <1>9. \A i, j \in DOMAIN claims : claims[i][2] = claims[j][2] => i = j
    BY <1>4, <1>8
  <1>10. Attributes(e) # {} /\ NoText \notin Attributes(e) /\ Attributes(e) \cap ServiceKeys = {}
    BY <1>4, <1>5, <1>6 DEF ClientOwned
  <1>11. StaticKeys(e) \cap ServiceKeys = {} /\ Attributes(e) \cap StaticKeys(e) = {}
    BY <1>7 DEF ClientOwned
  <1>12. QED BY <1>9, <1>10, <1>11 DEF claims

\* What the run command reports nothing of and the components load is what
\* every component is built on: between them, the groups' Validate, the root's
\* and the components' leave nothing unchecked.
THEOREM ChecksAddUp ==
    ASSUME NEW e, Parsed(e), Load(e, DOMAIN Group, RootRules(e)) = {}, Loads(e)
    PROVE  Sound(e)
  <1>1. \A g \in DOMAIN Group : GroupRules(e, g) = {} /\ \A v \in Group[g] : ~AtFault(e, v)
    BY NothingReported
  <1>2. IdentityRules(e) = {} /\ BoundsRules(e) = {} /\ MetricRules(e) = {} /\ ResourceRules(e) = {}
    BY <1>1, Groups DEF GroupRules
  <1>3. \A v \in Numbers \cup {"CLAIM_ATTRIBUTES"} : ~AtFault(e, v)
    BY <1>1, Groups, GroupMembers DEF Numbers
  <1>4. \A v \in Numbers : Value(e, v) \in Int
    BY <1>3, NumbersAreIntegers
  <1>5. Value(e, "OIDC_DISCOVERY_RETRY") > 0 /\ Value(e, "OIDC_JWKS_REFRESH") > 0
        /\ Value(e, "REJECTION_LOG_INTERVAL") > 0 /\ Value(e, "CLOCK_SKEW") >= 0
    <2>1. ~(Value(e, "OIDC_DISCOVERY_RETRY") <= 0) /\ ~(Value(e, "OIDC_JWKS_REFRESH") <= 0)
          /\ ~(Value(e, "REJECTION_LOG_INTERVAL") <= 0) /\ ~(Value(e, "CLOCK_SKEW") < 0)
      BY NothingSaid DEF Loads, AuthenticatorFaults
    <2>2. QED BY <2>1, <1>4 DEF Numbers
  <1>6. Value(e, "MAX_REQUEST_BODY_BYTES") \in (GrpcFrameHeader + 1)..MaxInt32
    <2>1. ~(Value(e, "MAX_REQUEST_BODY_BYTES") <= GrpcFrameHeader \/ Value(e, "MAX_REQUEST_BODY_BYTES") > MaxInt32)
      BY NothingSaid DEF Loads, ReceiverFaults
    <2>2. QED BY <2>1, <1>4, MaxInt32Assumption DEF Numbers, GrpcFrameHeader
  <1>7. Value(e, "MAX_FUTURE_SKEW") >= 0 /\ Value(e, "MAX_PAST_AGE") > 0
        /\ Value(e, "MAX_METRIC_STREAMS") > 0 /\ Value(e, "DELTA_MAX_STALE") > 0
        /\ Value(e, "MEMORY_SPIKE_LIMIT_MIB") < Value(e, "MEMORY_LIMIT_MIB")
    <2>1. ~(Value(e, "MAX_FUTURE_SKEW") < 0) /\ ~(Value(e, "MAX_PAST_AGE") <= 0)
          /\ ~(Value(e, "MAX_METRIC_STREAMS") < 1) /\ ~(Value(e, "DELTA_MAX_STALE") <= 0)
          /\ ~(Value(e, "MEMORY_SPIKE_LIMIT_MIB") >= Value(e, "MEMORY_LIMIT_MIB"))
      BY <1>2, NothingSaid DEF BoundsRules, MetricRules, ResourceRules
    <2>2. QED BY <2>1, <1>4 DEF Numbers
  <1>8. ~(Value(e, "LOG_OUTPUT") # "stdout" /\ Value(e, "UPSTREAM") = "unverified")
    BY NothingReported, NothingSaid DEF RootRules
  <1>9. QED BY <1>2, <1>3, <1>5, <1>6, <1>7, <1>8, ClaimsAreSound DEF Sound

-----------------------------------------------------------------------------
(* The inductive invariant. *)

Places == {"off", "load", "unset", "logger", "remove", "create", "write", "close", "collector", "running", "exited"}
Unmade == {"load", "unset", "logger", "remove", "create"}

File == Start \cup {NoFile}

ProcessTypes ==
    /\ env \in Deployments
    /\ at \in [Proc -> Places] /\ starts \in [Proc -> 0..MaxStarts]
    /\ visible \in [Proc -> SUBSET ReadBySdk] /\ fd \in [Proc -> File] /\ config \in [Proc -> File]
    /\ DOMAIN faults = Proc /\ DOMAIN failed = Proc /\ DOMAIN exit = Proc

FileTypes ==
    /\ entry \in File /\ made \in Seq(Start) /\ bytes \in [Start -> SUBSET Start] /\ whole \in SUBSET Start

\* A process whose settings are rendered: they were read without a fault.
Renders(p) == p \in DOMAIN env /\ ~env[p].mounted /\ Reported(env[p]) = {}

\* A file holds what one start wrote, in part or whole, after it made it; the
\* entry is the file made last.
Files ==
    /\ \A s \in Start : bytes[s] \subseteq {s} /\ (bytes[s] # {} => s[2] <= starts[s[1]])
    /\ \A s \in whole : bytes[s] = {s} /\ Renders(s[1])
    /\ entry # NoFile => made # <<>> /\ entry = made[Len(made)]

Made(s) == \E i \in DOMAIN made : made[i] = s

\* Up to the file: what is read, hidden and written is in the order of run.
Preparing(p) ==
    /\ at[p] # "off" => p \in DOMAIN env /\ starts[p] # 0
    /\ at[p] \in {"unset", "remove", "create", "write", "close"} => ~env[p].mounted
    /\ at[p] \notin {"off", "load", "exited"} /\ ~env[p].mounted => Reported(env[p]) = {}
    /\ at[p] = "load" => visible[p] = ReadBySdk
    /\ at[p] \notin {"off", "load", "unset", "exited"} => visible[p] = IF env[p].mounted THEN ReadBySdk ELSE {}
    /\ at[p] \in Unmade \cup {"write"} => bytes[Me(p)] = {}

\* From the file on: its own is made, then whole.
Writing(p) ==
    /\ at[p] = "write" => fd[p] = Me(p)
    /\ at[p] \in {"write", "close", "collector", "running"} /\ ~env[p].mounted => Made(Me(p))
    /\ at[p] \in {"close", "collector", "running"} /\ ~env[p].mounted => Me(p) \in whole

\* s made its file no later than t did.
NoLater(s, t) == \E i, j \in DOMAIN made : made[i] = s /\ made[j] = t /\ i <= j

\* The collector's file holds one rendering, no older than its own start's.
Running(p) ==
    at[p] = "running" /\ config[p] # NoFile =>
        /\ ~env[p].mounted
        /\ bytes[config[p]] = {config[p]} /\ NoLater(Me(p), config[p])
        /\ config[p] \in whole => Loads(env[config[p][1]].vars)

\* A start that Load refused did nothing else.
Refused(p) ==
    /\ at[p] \notin {"off", "exited"} => failed[p] = {}
    /\ at[p] = "exited" /\ "load" \in failed[p] =>
            faults[p] = Reported(env[p]) /\ visible[p] = ReadBySdk /\ bytes[Me(p)] = {}

Process(p) == Preparing(p) /\ Writing(p) /\ Running(p) /\ Refused(p)

IInv == ProcessTypes /\ FileTypes /\ Files /\ \A p \in Proc : Process(p)

-----------------------------------------------------------------------------
(* What every step has in common. *)

LEMMA Identities ==
    ASSUME ProcessTypes, NEW p \in Proc, starts[p] # 0
    PROVE  /\ Me(p) \in Start /\ Me(p) # NoFile
           /\ \A q \in Proc : q # p => Me(q) # Me(p)
           /\ Me(p)[1] = p /\ Me(p)[2] = starts[p]
  BY StartsAreBounded DEF ProcessTypes, Me, Start, NoFile

\* A step of p changes what is p's only ...
Keeps(q) ==
    /\ starts'[q] = starts[q] /\ at'[q] = at[q] /\ visible'[q] = visible[q] /\ fd'[q] = fd[q]
    /\ config'[q] = config[q] /\ faults'[q] = faults[q] /\ failed'[q] = failed[q]

Own(p) == env' = env /\ ProcessTypes' /\ \A q \in Proc : q # p => Keeps(q)

\* ... and of the files at most its own, which is empty before.
Grown(p) ==
    /\ \A s \in Start : bytes'[s] = bytes[s] \/ (s = Me(p) /\ bytes[s] = {})
    /\ \A s \in Start : s \in whole => s \in whole'
    /\ \A s \in Start : s \in whole' => s \in whole \/ (s = Me(p) /\ bytes[s] = {})
    /\ \A i \in DOMAIN made : i \in DOMAIN made' /\ made'[i] = made[i]

\* A file that holds something is what it will be.
LEMMA FilesAreFinal ==
    ASSUME IInv, NEW p \in Proc, Grown(p), NEW s \in Start
    PROVE  /\ bytes[s] = {s} => bytes'[s] = {s} /\ (s \in whole' => s \in whole)
           /\ \A q \in Proc : q # p /\ s = Me(q) => bytes'[s] = bytes[s]
           /\ \A t : NoLater(t, s) => NoLater(t, s)'
           /\ Made(s) => Made(s)'
  <1>1. bytes[s] = {s} => bytes'[s] = {s} /\ (s \in whole' => s \in whole)
    BY DEF Grown
  <1>2. \A q \in Proc : q # p /\ s = Me(q) => bytes'[s] = bytes[s]
    BY DEF Grown, Me
  <1>3. Made(s) => Made(s)'
    BY DEF Made, Grown
  <1>4. \A t : NoLater(t, s) => NoLater(t, s)'
    BY DEF NoLater, Grown
  <1>5. QED BY <1>1, <1>2, <1>3, <1>4

LEMMA OthersGoOn ==
    ASSUME IInv, NEW p \in Proc, NEW q \in Proc, q # p, env' = env, Grown(p), Keeps(q)
    PROVE  Process(q)'
  <1>1. Me(q)' = Me(q) /\ (at[q] # "off" => Me(q) \in Start)
    BY Identities DEF IInv, Process, Preparing, Keeps, Me
  <1>2. at[q] # "off" => bytes'[Me(q)] = bytes[Me(q)]
    BY <1>1, FilesAreFinal
  <1>3. Preparing(q)'
    BY <1>1, <1>2 DEF IInv, Process, Preparing, Keeps, Unmade
  <1>4. Writing(q)'
    <2>1. at[q] # "off" => (Made(Me(q)) => Made(Me(q))') /\ (Me(q) \in whole => Me(q) \in whole')
      BY <1>1, FilesAreFinal DEF Grown, Made
    <2>2. QED BY <1>1, <2>1 DEF IInv, Process, Writing, Keeps
  <1>5. Running(q)'
    <2> SUFFICES ASSUME at[q] = "running", config[q] # NoFile
                 PROVE  /\ ~env[q].mounted
                        /\ bytes'[config[q]] = {config[q]} /\ NoLater(Me(q), config[q])'
                        /\ config[q] \in whole' => Loads(env[config[q][1]].vars)
      BY <1>1 DEF Running, Keeps
    <2>1. config[q] \in Start
      BY DEF IInv, ProcessTypes, File
    <2>2. /\ ~env[q].mounted /\ bytes[config[q]] = {config[q]} /\ NoLater(Me(q), config[q])
          /\ config[q] \in whole => Loads(env[config[q][1]].vars)
      BY DEF IInv, Process, Running
    <2>3. /\ bytes'[config[q]] = {config[q]} /\ (config[q] \in whole' => config[q] \in whole)
          /\ NoLater(Me(q), config[q])'
      BY <1>1, <2>1, <2>2, FilesAreFinal DEF Keeps
    <2>4. QED BY <2>2, <2>3
  <1>6. Refused(q)'
    BY <1>1, <1>2 DEF IInv, Process, Refused, Keeps
  <1>7. QED BY <1>3, <1>4, <1>5, <1>6 DEF Process

LEMMA OwnStep ==
    ASSUME IInv, NEW p \in Proc, Own(p), Grown(p), FileTypes', Files', Process(p)'
    PROVE  IInv'
  <1>1. \A q \in Proc : Process(q)'
    BY OthersGoOn DEF Own
  <1>2. QED BY <1>1 DEF IInv, Own

\* A step that leaves the files alone has its own process to answer for.
LEMMA QuietStep ==
    ASSUME IInv, NEW p \in Proc, Own(p), UNCHANGED <<starts, fileVars>>, Process(p)'
    PROVE  IInv'
  <1>1. Grown(p)
    BY DEF Grown, fileVars
  <1>2. FileTypes' /\ Files'
    BY DEF IInv, FileTypes, Files, fileVars, Own, Renders
  <1>3. QED BY <1>1, <1>2, OwnStep

-----------------------------------------------------------------------------
(* The steps. *)

LEMMA InitInv == Init => IInv
  <1> SUFFICES ASSUME Init PROVE IInv
    OBVIOUS
  <1>1. ProcessTypes
    BY StartsAreBounded DEF Init, ProcessTypes, Places, File, ReadBySdk
  <1>2. FileTypes
    BY DEF Init, FileTypes, File
  <1>3. Files
    BY DEF Init, Files
  <1>4. \A p \in Proc : Process(p)
    BY DEF Init, Process, Preparing, Writing, Running, Refused, Unmade
  <1>5. QED BY <1>1, <1>2, <1>3, <1>4 DEF IInv

LEMMA LaunchStep == ASSUME IInv, NEW p \in Proc, Launch(p) PROVE IInv'
  <1>1. /\ starts'[p] = starts[p] + 1 /\ starts'[p] \in 1..MaxStarts /\ at'[p] = "load" /\ visible'[p] = ReadBySdk
        /\ fd'[p] = NoFile /\ config'[p] = NoFile /\ failed'[p] = {} /\ p \in DOMAIN env /\ env' = env
    BY StartsAreBounded DEF Launch, Goto, IInv, ProcessTypes
  <1>2. Own(p)
    BY <1>1, StartsAreBounded DEF Launch, Goto, Own, Keeps, procVars, IInv, ProcessTypes, Places, File, ReadBySdk
  <1>3. Grown(p) /\ FileTypes'
    BY DEF Launch, fileVars, Grown, IInv, FileTypes
  <1>4. \A q \in Proc : starts[q] <= starts'[q]
    BY <1>1 DEF Launch, IInv, ProcessTypes
  <1>5. Files'
    <2>1. \A s \in Start : s[1] \in Proc /\ s[2] \in Int
      BY DEF Start
    <2>2. \A s \in Start : bytes[s] \subseteq {s} /\ (bytes[s] # {} => s[2] <= starts'[s[1]])
      <3> SUFFICES ASSUME NEW s \in Start, bytes[s] # {} PROVE s[2] <= starts'[s[1]]
        BY DEF IInv, Files
      <3> DEFINE q == s[1]
                 m == s[2]
      <3>1. q \in Proc /\ m \in Int /\ m <= starts[q]
        BY <2>1 DEF IInv, Files
      <3>2. starts[q] \in Int /\ starts'[q] \in Int /\ starts[q] <= starts'[q]
        BY <1>2, <1>4, <3>1 DEF IInv, ProcessTypes, Own
      <3> HIDE DEF q, m
      <3>3. m <= starts'[q]
        BY <3>1, <3>2
      <3>4. QED BY <3>3 DEF q, m
    <2>3. QED BY <1>1, <2>2 DEF Launch, fileVars, Files, Renders, IInv
  <1>6. bytes'[Me(p)'] = {}
    <2>1. Me(p)' = <<p, starts[p] + 1>> /\ Me(p)' \in Start
      BY <1>1 DEF Me, Start
    <2>2. ASSUME bytes[Me(p)'] # {} PROVE FALSE
      <3>1. Me(p)'[2] <= starts[Me(p)'[1]]
        BY <2>1, <2>2 DEF IInv, Files
      <3>2. QED BY <3>1, <2>1 DEF IInv, ProcessTypes
    <2>3. QED BY <2>2 DEF Launch, fileVars
  <1>7. Process(p)'
    BY <1>1, <1>6 DEF Process, Preparing, Writing, Running, Refused, Unmade
  <1>8. QED BY <1>2, <1>3, <1>5, <1>7, OwnStep

LEMMA LoadAllStep == ASSUME IInv, NEW p \in Proc, LoadAll(p) PROVE IInv'
  <1>1. /\ at[p] = "load" /\ p \in DOMAIN env /\ starts[p] # 0 /\ visible[p] = ReadBySdk /\ bytes[Me(p)] = {} /\ failed[p] = {}
    BY DEF LoadAll, From, IInv, Process, Preparing, Refused, Unmade
  <1>2. /\ UNCHANGED <<env, starts, visible, fd, config, entry, made, bytes, whole>> /\ Me(p)' = Me(p)
        /\ faults'[p] = Reported(env[p])
        /\ \/ at'[p] = "exited" /\ failed'[p] = {"load"}
           \/ /\ Reported(env[p]) = {} /\ failed'[p] = {} /\ at'[p] = IF env[p].mounted THEN "logger" ELSE "unset"
    BY <1>1 DEF LoadAll, Fails, Goes, Goto, procVars, fileVars, Me, IInv, ProcessTypes
  <1>3. Own(p)
    BY <1>2 DEF LoadAll, Fails, Goes, Goto, Own, Keeps, procVars, IInv, ProcessTypes, Places
  <1>4. Process(p)'
    BY <1>1, <1>2 DEF Process, Preparing, Writing, Running, Refused, Unmade
  <1>5. QED BY <1>2, <1>3, <1>4, QuietStep DEF fileVars

LEMMA UnhideStep == ASSUME IInv, NEW p \in Proc, Unhide(p) PROVE IInv'
  <1> DEFINE left == {i \in DOMAIN SdkVariables : SdkVariables[i] \in visible[p]}
  <1>1. /\ at[p] = "unset" /\ p \in DOMAIN env /\ starts[p] # 0 /\ ~env[p].mounted /\ Reported(env[p]) = {}
        /\ bytes[Me(p)] = {} /\ failed[p] = {} /\ visible[p] \subseteq ReadBySdk
    BY DEF Unhide, From, IInv, Process, Preparing, Refused, Unmade, ProcessTypes
  <1>2. left = {} => visible[p] = {}
    <2>1. DOMAIN SdkVariables = {1, 2, 3}
      BY DEF SdkVariables
    <2>2. ReadBySdk = {SdkVariables[1], SdkVariables[2], SdkVariables[3]}
      BY DEF SdkVariables, ReadBySdk
    <2>3. QED BY <1>1, <2>1, <2>2
  <1>3. \E v : \/ left = {} /\ Goes(p, "logger") /\ UNCHANGED visible
               \/ visible' = [visible EXCEPT ![p] = @ \ {v}] /\ UNCHANGED <<at, exit, failed>>
               \/ Fails(p, "unset") /\ UNCHANGED visible
    BY Zenon DEF Unhide
  <1>4. /\ UNCHANGED <<env, starts, faults, fd, config, entry, made, bytes, whole>> /\ Me(p)' = Me(p)
        /\ \/ left = {} /\ at'[p] = "logger" /\ visible'[p] = visible[p] /\ failed'[p] = {}
           \/ at'[p] = "unset" /\ visible'[p] \in SUBSET ReadBySdk /\ failed'[p] = {}
           \/ at'[p] = "exited" /\ visible'[p] = visible[p] /\ failed'[p] = {"unset"}
        /\ visible' = [visible EXCEPT ![p] = visible'[p]]
    <2> HIDE DEF left
    <2>1. UNCHANGED <<procVars, faults, fd, config, fileVars>>
      BY DEF Unhide
    <2>2. QED BY <1>1, <1>3, <2>1 DEF Fails, Goes, Goto, procVars, fileVars, Me, IInv, ProcessTypes
  <1>5. Own(p)
    <2> HIDE DEF left
    <2> QED BY <1>1, <1>3, <1>4 DEF Fails, Goes, Goto, Own, Keeps, procVars, IInv, ProcessTypes, Places
  <1>6. Process(p)'
    <2> HIDE DEF left
    <2> QED BY <1>1, <1>2, <1>4 DEF Process, Preparing, Writing, Running, Refused, Unmade
  <1>7. QED BY <1>4, <1>5, <1>6, QuietStep DEF fileVars

LEMMA NewLoggerStep == ASSUME IInv, NEW p \in Proc, NewLogger(p) PROVE IInv'
  <1>1. /\ at[p] = "logger" /\ p \in DOMAIN env /\ starts[p] # 0 /\ bytes[Me(p)] = {} /\ failed[p] = {}
        /\ visible[p] = (IF env[p].mounted THEN ReadBySdk ELSE {}) /\ (~env[p].mounted => Reported(env[p]) = {})
    BY DEF NewLogger, From, IInv, Process, Preparing, Refused, Unmade
  <1>2. /\ UNCHANGED <<env, starts, faults, visible, fd, config, entry, made, bytes, whole>> /\ Me(p)' = Me(p)
        /\ \/ at'[p] = (IF env[p].mounted THEN "collector" ELSE "remove") /\ failed'[p] = {}
           \/ at'[p] = "exited" /\ failed'[p] = {"own_logs"}
    BY <1>1 DEF NewLogger, Fails, Goes, Goto, procVars, fileVars, Me, IInv, ProcessTypes
  <1>3. Own(p)
    BY <1>2 DEF NewLogger, Fails, Goes, Goto, Own, Keeps, procVars, IInv, ProcessTypes, Places
  <1>4. Process(p)'
    BY <1>1, <1>2 DEF Process, Preparing, Writing, Running, Refused, Unmade
  <1>5. QED BY <1>2, <1>3, <1>4, QuietStep DEF fileVars

\* Where a process is about to write, its file is there, open and empty.
LEMMA AtWrite ==
    ASSUME IInv, NEW p \in Proc, at[p] = "write"
    PROVE  /\ fd[p] = Me(p) /\ Me(p) \in Start /\ Me(p)[1] = p /\ Me(p)[2] <= starts[p]
           /\ bytes[Me(p)] = {} /\ Renders(p) /\ Made(Me(p)) /\ visible[p] = {} /\ failed[p] = {} /\ starts[p] # 0
  <1>1. starts[p] # 0 /\ Renders(p) /\ bytes[Me(p)] = {} /\ visible[p] = {}
    BY DEF IInv, Process, Preparing, Renders
  <1>2. Me(p) \in Start /\ Me(p)[1] = p /\ Me(p)[2] = starts[p]
    BY <1>1, Identities DEF IInv
  <1>3. fd[p] = Me(p) /\ Made(Me(p)) /\ failed[p] = {}
    BY <1>1 DEF IInv, Process, Writing, Refused, Renders
  <1>4. starts[p] \in Int
    BY DEF IInv, ProcessTypes
  <1>5. QED BY <1>1, <1>2, <1>3, <1>4

\* What a write leaves in the file, whole or in part.
LEMMA WriteLeaves ==
    ASSUME IInv, NEW p \in Proc, at[p] = "write", bytes' = [bytes EXCEPT ![fd[p]] = @ \cup {Me(p)}],
           whole' = whole \/ whole' = whole \cup {Me(p)}, UNCHANGED <<env, starts, entry, made>>
    PROVE  /\ Grown(p) /\ FileTypes' /\ Files' /\ bytes'[Me(p)] = {Me(p)}
  <1> DEFINE me == Me(p)
  <1>1. /\ fd[p] = me /\ me \in Start /\ me[1] = p /\ me[2] <= starts[p] /\ bytes[me] = {} /\ Renders(p)
    BY AtWrite
  <1> HIDE DEF me
  <1>2. bytes' = [bytes EXCEPT ![me] = {me}]
    BY <1>1 DEF me
  <1>3. bytes \in [Start -> SUBSET Start] /\ whole \in SUBSET Start
    BY DEF IInv, FileTypes
  <1>4. \A s \in Start : bytes'[s] = IF s = me THEN {me} ELSE bytes[s]
    BY <1>2, <1>3
  <1>5. whole' = whole \/ whole' = whole \cup {me}
    BY DEF me
  <1>6. Grown(p)
    <2>1. \A s \in Start : bytes'[s] = bytes[s] \/ (s = me /\ bytes[s] = {})
      BY <1>1, <1>4
    <2>2. \A s \in Start : (s \in whole => s \in whole') /\ (s \in whole' => s \in whole \/ (s = me /\ bytes[s] = {}))
      BY <1>1, <1>5
    <2>3. QED BY <2>1, <2>2 DEF Grown, me
  <1>7. FileTypes'
    BY <1>1, <1>2, <1>3, <1>5 DEF IInv, FileTypes
  <1>8. Files'
    <2>1. \A s \in Start : bytes'[s] \subseteq {s} /\ (bytes'[s] # {} => s[2] <= starts[s[1]])
      BY <1>1, <1>4 DEF IInv, Files
    <2>2. \A s \in whole' : bytes'[s] = {s} /\ Renders(s[1])
      BY <1>1, <1>3, <1>4, <1>5 DEF IInv, Files
    <2>3. QED BY <2>1, <2>2 DEF IInv, Files, Renders
  <1>9. QED BY <1>1, <1>4, <1>6, <1>7, <1>8 DEF me

LEMMA CrashStep == ASSUME IInv, NEW p \in Proc, Crash(p) PROVE IInv'
  <1>1. UNCHANGED <<env, starts, faults, visible, fd, config, failed, exit, entry, made, whole>> /\ at'[p] = "off"
    BY DEF Crash, Goto, procVars, IInv, ProcessTypes
  <1>2. Own(p)
    BY <1>1 DEF Crash, Goto, Own, Keeps, IInv, ProcessTypes, Places
  <1>3. Process(p)'
    BY <1>1 DEF Process, Preparing, Writing, Running, Refused, Unmade
  <1>4. CASE at[p] = "write"
    <2>1. bytes' = [bytes EXCEPT ![fd[p]] = @ \cup {Me(p)}]
      BY <1>4 DEF Crash
    <2>2. QED BY <1>1, <1>2, <1>3, <1>4, <2>1, WriteLeaves, OwnStep
  <1>5. CASE at[p] # "write"
    <2>1. bytes' = bytes
      BY <1>5 DEF Crash
    <2>2. QED BY <1>1, <1>2, <1>3, <2>1, QuietStep DEF fileVars
  <1>6. QED BY <1>4, <1>5

LEMMA RemoveStep == ASSUME IInv, NEW p \in Proc, Remove(p) PROVE IInv'
  <1>1. /\ at[p] = "remove" /\ p \in DOMAIN env /\ starts[p] # 0 /\ ~env[p].mounted /\ Reported(env[p]) = {}
        /\ bytes[Me(p)] = {} /\ failed[p] = {} /\ visible[p] = {}
    BY DEF Remove, From, IInv, Process, Preparing, Refused, Unmade
  <1>2. /\ UNCHANGED <<env, starts, faults, visible, fd, config, made, bytes, whole>> /\ Me(p)' = Me(p)
        /\ entry' = NoFile \/ entry' = entry
        /\ \/ at'[p] = "create" /\ failed'[p] = {}
           \/ at'[p] = "exited" /\ failed'[p] = {"write"}
    BY <1>1 DEF Remove, Fails, Goes, Goto, procVars, Me, IInv, ProcessTypes
  <1>3. Own(p)
    BY <1>2 DEF Remove, Fails, Goes, Goto, Own, Keeps, procVars, IInv, ProcessTypes, Places
  <1>4. Grown(p) /\ FileTypes' /\ Files'
    BY <1>2 DEF Grown, IInv, FileTypes, File, Files, Renders
  <1>5. Process(p)'
    BY <1>1, <1>2 DEF Process, Preparing, Writing, Running, Refused, Unmade
  <1>6. QED BY <1>3, <1>4, <1>5, OwnStep

LEMMA CreateStep == ASSUME IInv, NEW p \in Proc, Create(p) PROVE IInv'
  <1>1. /\ at[p] = "create" /\ p \in DOMAIN env /\ starts[p] # 0 /\ ~env[p].mounted /\ Reported(env[p]) = {}
        /\ bytes[Me(p)] = {} /\ failed[p] = {} /\ visible[p] = {}
    BY DEF Create, From, IInv, Process, Preparing, Refused, Unmade
  <1>2. Me(p) \in Start /\ Me(p) # NoFile
    BY <1>1, Identities DEF IInv
  <1>3. UNCHANGED <<env, starts, faults, visible, config, bytes, whole>> /\ Me(p)' = Me(p)
    BY DEF Create, procVars, Me
  <1>4. CASE entry' = Me(p) /\ made' = Append(made, Me(p)) /\ fd' = [fd EXCEPT ![p] = Me(p)] /\ Goes(p, "write")
    <2>1. at'[p] = "write" /\ failed'[p] = {} /\ fd'[p] = Me(p)
      BY <1>1, <1>4 DEF Goes, Goto, IInv, ProcessTypes
    <2>2. Own(p)
      BY <1>2, <1>3, <1>4 DEF Goes, Goto, Own, Keeps, IInv, ProcessTypes, Places, File
    <2>3. made' \in Seq(Start) /\ Len(made') = Len(made) + 1 /\ made'[Len(made')] = Me(p)
          /\ \A i \in DOMAIN made : i \in DOMAIN made' /\ made'[i] = made[i]
      BY <1>2, <1>4 DEF IInv, FileTypes
    <2>4. Made(Me(p))'
      BY <1>3, <2>3 DEF Made
    <2>5. Grown(p) /\ FileTypes'
      BY <1>2, <1>3, <1>4, <2>3 DEF Grown, IInv, FileTypes, File
    <2>6. Files'
      <3>1. made' # <<>>
        BY <2>3 DEF IInv, FileTypes
      <3>2. QED BY <1>3, <1>4, <2>3, <3>1 DEF IInv, Files, Renders
    <2>7. Process(p)'
      BY <1>1, <1>3, <2>1, <2>4 DEF Process, Preparing, Writing, Running, Refused, Unmade
    <2>8. QED BY <2>2, <2>5, <2>6, <2>7, OwnStep
  <1>5. CASE Fails(p, "write") /\ UNCHANGED <<entry, made, fd>>
    <2>1. at'[p] = "exited" /\ failed'[p] = {"write"}
      BY <1>1, <1>5 DEF Fails, Goto, IInv, ProcessTypes
    <2>2. Own(p)
      BY <1>3, <1>5 DEF Fails, Goto, Own, Keeps, IInv, ProcessTypes, Places
    <2>3. Process(p)'
      BY <1>1, <1>3, <2>1 DEF Process, Preparing, Writing, Running, Refused, Unmade
    <2>4. QED BY <1>3, <1>5, <2>2, <2>3, QuietStep DEF fileVars
  <1>6. QED BY <1>4, <1>5 DEF Create

LEMMA WriteStep == ASSUME IInv, NEW p \in Proc, Write(p) PROVE IInv'
  <1>1. at[p] = "write" /\ bytes' = [bytes EXCEPT ![fd[p]] = @ \cup {Me(p)}]
    BY DEF Write, From
  <1>2. /\ Renders(p) /\ Made(Me(p)) /\ Me(p) \in Start /\ visible[p] = {} /\ failed[p] = {} /\ starts[p] # 0
    BY <1>1, AtWrite
  <1>3. /\ UNCHANGED <<env, starts, faults, visible, fd, config, entry, made>> /\ Me(p)' = Me(p)
        /\ \/ whole' = whole \cup {Me(p)} /\ at'[p] = "close" /\ failed'[p] = {}
           \/ whole' = whole /\ at'[p] = "exited" /\ failed'[p] = {"write"}
    BY <1>2 DEF Write, Fails, Goes, Goto, procVars, Me, IInv, ProcessTypes
  <1>4. Own(p)
    BY <1>3 DEF Write, Fails, Goes, Goto, Own, Keeps, procVars, IInv, ProcessTypes, Places
  <1>5. Grown(p) /\ FileTypes' /\ Files'
    BY <1>1, <1>3, WriteLeaves
  <1>6. Made(Me(p))'
    BY <1>2, <1>3 DEF Made
  <1>7. Process(p)'
    BY <1>2, <1>3, <1>6 DEF Process, Preparing, Writing, Running, Refused, Unmade, Renders
  <1>8. QED BY <1>4, <1>5, <1>7, OwnStep

LEMMA CloseStep == ASSUME IInv, NEW p \in Proc, Close(p) PROVE IInv'
  <1>1. /\ at[p] = "close" /\ p \in DOMAIN env /\ starts[p] # 0 /\ ~env[p].mounted /\ Reported(env[p]) = {}
        /\ Made(Me(p)) /\ Me(p) \in whole /\ failed[p] = {} /\ visible[p] = {}
    BY DEF Close, From, IInv, Process, Preparing, Writing, Refused
  <1>2. /\ UNCHANGED <<env, starts, faults, visible, config, entry, made, bytes, whole>> /\ Me(p)' = Me(p)
        /\ \/ at'[p] = "collector" /\ failed'[p] = {}
           \/ at'[p] = "exited" /\ failed'[p] = {"write"}
    BY <1>1 DEF Close, Fails, Goes, Goto, procVars, fileVars, Me, IInv, ProcessTypes
  <1>3. Own(p)
    BY <1>2 DEF Close, Fails, Goes, Goto, Own, Keeps, procVars, IInv, ProcessTypes, Places, File
  <1>4. Made(Me(p))'
    BY <1>1, <1>2 DEF Made
  <1>5. Process(p)'
    BY <1>1, <1>2, <1>4 DEF Process, Preparing, Writing, Running, Refused, Unmade
  <1>6. QED BY <1>2, <1>3, <1>5, QuietStep DEF fileVars

\* What a collector accepts at the path: nothing of the directory with a
\* mounted file, else the file made last, which is no older than its own.
LEMMA AcceptedIsNewest ==
    ASSUME IInv, NEW p \in Proc, at[p] \in {"collector", "running"}, Accepted(p)
    PROVE  /\ Found(p) \in File
           /\ Found(p) # NoFile =>
                 /\ ~env[p].mounted /\ bytes[Found(p)] = {Found(p)} /\ NoLater(Me(p), Found(p))
                 /\ Found(p) \in whole => Loads(env[Found(p)[1]].vars)
  <1>1. CASE env[p].mounted
    BY <1>1 DEF Found, File
  <1>2. CASE ~env[p].mounted
    <2>1. /\ Found(p) = entry /\ entry \in Start /\ bytes[entry] # {}
          /\ entry \in whole => Loads(env[entry[1]].vars)
      BY <1>2 DEF Found, Accepted, IInv, FileTypes, File
    <2>2. bytes[entry] = {entry}
      BY <2>1 DEF IInv, Files
    <2>3. PICK i \in DOMAIN made : made[i] = Me(p)
      BY <1>2 DEF IInv, Process, Writing, Made
    <2>4. Len(made) \in DOMAIN made /\ i <= Len(made) /\ made[Len(made)] = entry
      BY <1>2, <2>1, <2>3 DEF IInv, Files, FileTypes, Accepted
    <2>5. NoLater(Me(p), entry)
      BY <2>3, <2>4 DEF NoLater
    <2>6. QED BY <1>2, <2>1, <2>2, <2>5 DEF File
  <1>3. QED BY <1>1, <1>2

\* A process that runs, or exits from there, is as it was before but for its file.
LEMMA GoesOnRunning ==
    ASSUME IInv, NEW p \in Proc, at[p] \in {"collector", "running"}, at'[p] = "running",
           UNCHANGED <<env, starts, visible, fd, made, bytes, whole>>, failed'[p] = failed[p],
           config'[p] = Found(p), Accepted(p)
    PROVE  Process(p)'
  <1>1. Me(p)' = Me(p)
    BY DEF Me
  <1>2. Preparing(p)' /\ Refused(p)'
    BY <1>1 DEF IInv, Process, Preparing, Refused, Unmade
  <1>3. Writing(p)'
    <2>1. Made(Me(p)) => Made(Me(p))'
      BY <1>1 DEF Made
    <2>2. QED BY <1>1, <2>1 DEF IInv, Process, Writing
  <1>4. Running(p)'
    <2>1. NoLater(Me(p), Found(p)) => NoLater(Me(p), config[p])'
      BY <1>1 DEF NoLater
    <2>2. QED BY <2>1, AcceptedIsNewest DEF Running
  <1>5. QED BY <1>2, <1>3, <1>4 DEF Process

LEMMA ExitsFromRunning ==
    ASSUME IInv, NEW p \in Proc, at[p] \in {"collector", "running"}, at'[p] = "exited",
           UNCHANGED <<env, starts>>, "load" \notin failed'[p]
    PROVE  Process(p)'
  BY DEF IInv, Process, Preparing, Writing, Running, Refused, Unmade

LEMMA StartCollectorStep == ASSUME IInv, NEW p \in Proc, StartCollector(p) PROVE IInv'
  <1>1. at[p] = "collector" /\ failed[p] = {} /\ UNCHANGED <<env, starts, visible, fd, faults, entry, made, bytes, whole>>
    BY DEF StartCollector, From, IInv, Process, Refused, procVars, fileVars
  <1>2. CASE Accepted(p) /\ Goes(p, "running") /\ config' = [config EXCEPT ![p] = Found(p)]
    <2>1. Found(p) \in File
      BY <1>1, <1>2, AcceptedIsNewest
    <2>2. at'[p] = "running" /\ failed'[p] = failed[p] /\ config'[p] = Found(p)
      BY <1>2 DEF Goes, Goto, IInv, ProcessTypes
    <2>3. Own(p)
      BY <1>1, <1>2, <2>1 DEF Goes, Goto, Own, Keeps, IInv, ProcessTypes, Places
    <2>4. Process(p)'
      BY <1>1, <1>2, <2>2, GoesOnRunning
    <2>5. QED BY <1>1, <2>3, <2>4, QuietStep DEF fileVars
  <1>3. CASE Fails(p, "read") /\ UNCHANGED config
    <2>1. at'[p] = "exited" /\ failed'[p] = {"read"}
      BY <1>1, <1>3 DEF Fails, Goto, IInv, ProcessTypes
    <2>2. Own(p)
      BY <1>1, <1>3 DEF Fails, Goto, Own, Keeps, IInv, ProcessTypes, Places
    <2>3. QED BY <1>1, <2>1, <2>2, ExitsFromRunning, QuietStep DEF fileVars
  <1>4. CASE UNCHANGED config /\ \E which \in SUBSET {"pipelines", "extensions", "logger"} :
                Returns(p, StartError(which), which \cup {"start"})
    <2>1. PICK which \in SUBSET {"pipelines", "extensions", "logger"} : Returns(p, StartError(which), which \cup {"start"})
      BY <1>4
    <2>2. at'[p] = "exited" /\ failed'[p] = which \cup {"start"}
      BY <1>1, <2>1 DEF Returns, Goto, IInv, ProcessTypes
    <2>3. Own(p)
      BY <1>1, <1>4, <2>1 DEF Returns, Goto, Own, Keeps, IInv, ProcessTypes, Places
    <2>4. QED BY <1>1, <2>2, <2>3, ExitsFromRunning, QuietStep DEF fileVars
  <1>5. QED BY <1>2, <1>3, <1>4 DEF StartCollector

LEMMA ReloadStep == ASSUME IInv, NEW p \in Proc, Reload(p) PROVE IInv'
  <1>1. at[p] = "running" /\ failed[p] = {} /\ UNCHANGED <<env, starts, visible, fd, faults, entry, made, bytes, whole>>
    BY DEF Reload, From, IInv, Process, Refused, procVars, fileVars
  <1>2. CASE Accepted(p) /\ config' = [config EXCEPT ![p] = Found(p)] /\ UNCHANGED <<at, exit, failed>>
    <2>1. Found(p) \in File
      BY <1>1, <1>2, AcceptedIsNewest
    <2>2. at'[p] = "running" /\ failed'[p] = failed[p] /\ config'[p] = Found(p)
      BY <1>1, <1>2 DEF IInv, ProcessTypes
    <2>3. Own(p)
      BY <1>1, <1>2, <2>1 DEF Own, Keeps, IInv, ProcessTypes
    <2>4. Process(p)'
      BY <1>1, <1>2, <2>2, GoesOnRunning
    <2>5. QED BY <1>1, <2>3, <2>4, QuietStep DEF fileVars
  <1>3. CASE Fails(p, "reload") /\ UNCHANGED config
    <2>1. at'[p] = "exited" /\ failed'[p] = {"reload"}
      BY <1>1, <1>3 DEF Fails, Goto, IInv, ProcessTypes
    <2>2. Own(p)
      BY <1>1, <1>3 DEF Fails, Goto, Own, Keeps, IInv, ProcessTypes, Places
    <2>3. QED BY <1>1, <2>1, <2>2, ExitsFromRunning, QuietStep DEF fileVars
  <1>4. QED BY <1>2, <1>3 DEF Reload

LEMMA StopCollectorStep == ASSUME IInv, NEW p \in Proc, StopCollector(p) PROVE IInv'
  <1>1. at[p] = "running" /\ failed[p] = {} /\ UNCHANGED <<env, starts, visible, fd, config, faults, entry, made, bytes, whole>>
    BY DEF StopCollector, From, IInv, Process, Refused, procVars, fileVars
  <1>2. CASE Goto(p, "exited") /\ exit' = [exit EXCEPT ![p] = "ok"] /\ UNCHANGED failed
    <2>1. at'[p] = "exited" /\ failed'[p] = {}
      BY <1>1, <1>2 DEF Goto, IInv, ProcessTypes
    <2>2. Own(p)
      BY <1>1, <1>2 DEF Goto, Own, Keeps, IInv, ProcessTypes, Places
    <2>3. QED BY <1>1, <2>1, <2>2, ExitsFromRunning, QuietStep DEF fileVars
  <1>3. CASE \E which \in (SUBSET CollectorSteps) \ {{}} : Returns(p, ShutdownError(which), which)
    <2>1. PICK which \in SUBSET CollectorSteps : Returns(p, ShutdownError(which), which)
      BY <1>3
    <2>2. at'[p] = "exited" /\ failed'[p] = which
      BY <1>1, <2>1 DEF Returns, Goto, IInv, ProcessTypes
    <2>3. "load" \notin which
      BY DEF CollectorSteps
    <2>4. Own(p)
      BY <1>1, <2>1 DEF Returns, Goto, Own, Keeps, IInv, ProcessTypes, Places
    <2>5. QED BY <1>1, <2>2, <2>3, <2>4, ExitsFromRunning, QuietStep DEF fileVars
  <1>4. QED BY <1>2, <1>3 DEF StopCollector

LEMMA StutterStep == ASSUME IInv, UNCHANGED vars PROVE IInv'
  <1> USE DEF vars, procVars, fileVars
  <1>1. ProcessTypes' /\ FileTypes'
    BY DEF IInv, ProcessTypes, FileTypes
  <1>2. Files'
    BY DEF IInv, Files, Renders
  <1>3. ASSUME NEW p \in Proc PROVE Process(p)'
    <2>1. Me(p)' = Me(p) /\ (Made(Me(p)) => Made(Me(p))')
      BY DEF Me, Made
    <2>2. NoLater(Me(p), config[p]) => NoLater(Me(p), config[p])'
      BY <2>1 DEF NoLater
    <2>3. Preparing(p)'
      BY <2>1 DEF IInv, Process, Preparing
    <2>4. Writing(p)'
      BY <2>1 DEF IInv, Process, Writing
    <2>5. Running(p)'
      BY <2>1, <2>2 DEF IInv, Process, Running
    <2>6. Refused(p)'
      BY <2>1 DEF IInv, Process, Refused
    <2>7. QED BY <2>3, <2>4, <2>5, <2>6 DEF Process
  <1>4. QED BY <1>1, <1>2, <1>3 DEF IInv

LEMMA NextStep == IInv /\ [Next]_vars => IInv'
  BY StutterStep, LaunchStep, CrashStep, LoadAllStep, UnhideStep, NewLoggerStep, RemoveStep, CreateStep, WriteStep,
     CloseStep, StartCollectorStep, ReloadStep, StopCollectorStep DEF Next

\* The inductive invariant holds of every set of processes on one directory,
\* crashes, restarts and failures at every step included.
THEOREM Invariance == Spec => []IInv
  BY InitInv, NextStep, PTL DEF Spec

-----------------------------------------------------------------------------
(* What it shows. *)

\* For any processes on one directory, a collector runs on its own start's
\* rendering, whole, or on the one of a start that made its file later, never
\* on what was there before nor on two renderings mixed (writeExclusive).
THEOREM CollectorsRunOwnOrNewer == Spec => []RunsOwnOrNewer
  <1>1. IInv => RunsOwnOrNewer
    <2> SUFFICES ASSUME IInv, NEW p \in Proc, at[p] = "running", config[p] # NoFile
                 PROVE  /\ bytes[config[p]] = {config[p]}
                        /\ config[p] = Me(p) => Me(p) \in whole
                        /\ \E i, j \in DOMAIN made : made[i] = Me(p) /\ made[j] = config[p] /\ i <= j
      BY DEF RunsOwnOrNewer
    <2>1. ~env[p].mounted /\ bytes[config[p]] = {config[p]} /\ NoLater(Me(p), config[p])
      BY DEF IInv, Process, Running
    <2>2. Me(p) \in whole
      BY <2>1 DEF IInv, Process, Writing
    <2>3. QED BY <2>1, <2>2 DEF NoLater
  <1>2. QED BY <1>1, Invariance, PTL

\* For every environment, what a collector runs on when its file was written
\* whole meets what every component is built on (Validate, of seven types).
THEOREM CollectorsRunOnSoundSettings == Spec => []RunsOnSoundSettings
  <1>1. IInv => RunsOnSoundSettings
    <2> SUFFICES ASSUME IInv, NEW p \in Proc, at[p] = "running", config[p] \in whole
                 PROVE  Sound(env[config[p][1]].vars)
      BY DEF RunsOnSoundSettings
    <2> DEFINE d == env[config[p][1]]
    <2>1. Renders(config[p][1])
      BY DEF IInv, Files
    <2>2. config[p] # NoFile
      <3>1. config[p] \in Start
        BY DEF IInv, FileTypes
      <3>2. \A s \in Start : s # NoFile
        BY DEF Start, NoFile
      <3>3. QED BY <3>1, <3>2
    <2>3. Loads(d.vars)
      BY <2>2 DEF IInv, Process, Running
    <2>4. Load(d.vars, DOMAIN Group, RootRules(d.vars)) = {}
      BY <2>1 DEF Renders, Reported
    <2>5. Parsed(d.vars)
      BY <2>1, DeploymentsAreTyped DEF Renders, IInv, ProcessTypes
    <2>6. QED BY <2>3, <2>4, <2>5, ChecksAddUp
  <1>2. QED BY <1>1, Invariance, PTL

\* Where the SDK reads the environment none of its variables is left, with a
\* mounted configuration all of them are (run).
THEOREM SdkSettingsAppliedOnce == Spec => []SettingsAppliedOnce
  <1>1. IInv => SettingsAppliedOnce
    BY DEF IInv, Process, Preparing, SettingsAppliedOnce
  <1>2. QED BY <1>1, Invariance, PTL

\* A rule that is broken is never taken for a variable at fault.
LEMMA RulesAreNotVariables ==
    ASSUME NEW e
    PROVE  RootRules(e) \cap Variables = {} /\ \A g \in DOMAIN Group : GroupRules(e, g) \cap Variables = {}
  <1> DEFINE names == {"no_claim", "no_attribute", "clients_attribute", "attribute_twice", "clients_resource_key",
                       "claims_resource_key", "half_a_pair", "negative_skew", "no_past_age", "no_streams",
                       "no_staleness", "spike_limit", "own_logs"}
  <1>1. \A broken, what : Says(broken, what) \subseteq {what}
    BY DEF Says
  <1>2. \A v \in Variables : v \notin names
    <2>1. ASSUME NEW g \in DOMAIN Group, NEW v \in Group[g] PROVE v \notin names
      BY Groups DEF Group
    <2> HIDE DEF names
    <2>2. QED BY <2>1 DEF Variables
  <1>3. IdentityRules(e) \subseteq names
    <2> DEFINE claims == Value(e, "CLAIM_ATTRIBUTES")
               before(i) == {claims[j][2] : j \in 1..(i - 1)}
               bad == {j \in DOMAIN claims : claims[j][2] = NoText \/ ClientOwned(claims[j][2]) \/ claims[j][2] \in before(j)}
               static == {key \in StaticKeys(e) : ClientOwned(key) \/ key \in Attributes(e)}
               named(i) == CASE claims[i][2] = NoText      -> "no_attribute"
                             [] ClientOwned(claims[i][2]) -> "clients_attribute"
                             [] OTHER                     -> "attribute_twice"
               owner(k) == IF ClientOwned(k) THEN "clients_resource_key" ELSE "claims_resource_key"
    <2>1. IdentityRules(e) = Says(claims = <<>>, "no_claim") \cup {named(i) : i \in bad} \cup {owner(k) : k \in static}
      BY DEF IdentityRules
    <2>2. \A i : named(i) \in names
      <3> HIDE DEF claims
      <3> QED OBVIOUS
    <2>3. \A k : owner(k) \in names
      OBVIOUS
    <2>4. Says(claims = <<>>, "no_claim") \subseteq names
      BY <1>1
    <2> HIDE DEF claims, bad, static, named, owner, names
    <2>5. QED BY <2>1, <2>2, <2>3, <2>4
  <1>4. /\ ListenerRules(e) \subseteq names /\ BoundsRules(e) \subseteq names /\ MetricRules(e) \subseteq names
        /\ ResourceRules(e) \subseteq names /\ RootRules(e) \subseteq names
    BY DEF ListenerRules, BoundsRules, MetricRules, ResourceRules, RootRules, Says
  <1> HIDE DEF names
  <1>5. \A g \in DOMAIN Group : GroupRules(e, g) \subseteq names
    BY <1>3, <1>4, Groups DEF GroupRules
  <1>6. QED BY <1>2, <1>4, <1>5

\* What Load reports of some groups: each variable at fault, and with none of
\* a group's at fault each of its rules that is broken.
LEMMA LoadReports ==
    ASSUME NEW e, NEW groups \in SUBSET (DOMAIN Group), NEW root, root \cap Variables = {}
    PROVE  /\ Load(e, groups, root) \cap Variables = {v \in UNION {Group[g] : g \in groups} : AtFault(e, v)}
           /\ \A g \in groups : Group[g] \cap Load(e, groups, root) = {} => GroupRules(e, g) \subseteq Load(e, groups, root)
  <1> DEFINE all == UNION {LoadGroup(e, g) : g \in groups}
             bad(g) == {v \in Group[g] : AtFault(e, v)}
  <1>1. \A g \in groups : LoadGroup(e, g) = IF bad(g) # {} THEN bad(g) ELSE GroupRules(e, g)
    BY DEF LoadGroup
  <1>2. Load(e, groups, root) = IF all # {} THEN all ELSE root
    BY DEF Load
  <1>3. \A g \in groups : LoadGroup(e, g) \cap Variables = bad(g)
    <2> TAKE g \in groups
    <2>1. Group[g] \subseteq Variables
      BY DEF Variables
    <2>2. bad(g) \subseteq Variables
      BY <2>1
    <2>3. GroupRules(e, g) \cap Variables = {}
      BY RulesAreNotVariables
    <2> HIDE DEF bad
    <2>4. QED BY <1>1, <2>2, <2>3
  <1>4. all \cap Variables = UNION {bad(g) : g \in groups}
    <2> HIDE DEF bad
    <2> QED BY <1>3
  <1>5. {v \in UNION {Group[g] : g \in groups} : AtFault(e, v)} = UNION {bad(g) : g \in groups}
    OBVIOUS
  <1>6. Load(e, groups, root) \cap Variables = UNION {bad(g) : g \in groups}
    <2> HIDE DEF bad, all
    <2> QED BY <1>2, <1>4
  <1>7. ASSUME NEW g \in groups, Group[g] \cap Load(e, groups, root) = {}
        PROVE  GroupRules(e, g) \subseteq Load(e, groups, root)
    <2>1. bad(g) = {}
      <3>1. bad(g) \subseteq Load(e, groups, root)
        <4> HIDE DEF bad
        <4> QED BY <1>6
      <3>2. bad(g) \subseteq Group[g]
        OBVIOUS
      <3> HIDE DEF bad
      <3>3. QED BY <1>7, <3>1, <3>2
    <2>2. LoadGroup(e, g) = GroupRules(e, g)
      <3> HIDE DEF bad
      <3> QED BY <1>1, <2>1
    <2>3. LoadGroup(e, g) \subseteq all
      OBVIOUS
    <2> HIDE DEF all
    <2>4. QED BY <1>2, <2>2, <2>3
  <1>8. QED BY <1>5, <1>6, <1>7

\* A start that is refused is refused with every fault there is, at once and
\* before anything was hidden or written, whatever the environment (run, Load).
THEOREM FaultsAreAllReported == Spec => []EveryFaultReported
  <1>1. IInv => EveryFaultReported
    <2> SUFFICES ASSUME IInv, NEW p \in Proc, at[p] = "exited", "load" \in failed[p]
                 PROVE  LET e    == env[p].vars
                            read == IF env[p].mounted THEN Group["Logs"] ELSE Variables
                        IN  /\ faults[p] \cap Variables = {v \in read : AtFault(e, v)}
                            /\ \A g \in DOMAIN Group : Group[g] \subseteq read /\ Group[g] \cap faults[p] = {} => GroupRules(e, g) \subseteq faults[p]
                            /\ visible[p] = ReadBySdk /\ bytes[Me(p)] = {}
      BY DEF EveryFaultReported
    <2> DEFINE e == env[p].vars
    <2>1. faults[p] = Reported(env[p]) /\ visible[p] = ReadBySdk /\ bytes[Me(p)] = {}
      BY DEF IInv, Process, Refused
    <2>2. CASE env[p].mounted
      <3>1. faults[p] = Load(e, {"Logs"}, {})
        BY <2>1, <2>2 DEF Reported
      <3>2. UNION {Group[g] : g \in {"Logs"}} = Group["Logs"] /\ {"Logs"} \subseteq DOMAIN Group
        BY Groups
      <3>3. \A g \in DOMAIN Group : Group[g] \subseteq Group["Logs"] => g = "Logs"
        BY Groups DEF Group
      <3> HIDE DEF e
      <3>4. QED BY <2>1, <2>2, <3>1, <3>2, <3>3, LoadReports DEF e
    <2>3. CASE ~env[p].mounted
      <3>1. faults[p] = Load(e, DOMAIN Group, RootRules(e))
        BY <2>1, <2>3 DEF Reported
      <3>2. RootRules(e) \cap Variables = {}
        BY RulesAreNotVariables
      <3>3. /\ faults[p] \cap Variables = {v \in Variables : AtFault(e, v)}
            /\ \A g \in DOMAIN Group : Group[g] \cap faults[p] = {} => GroupRules(e, g) \subseteq faults[p]
        BY <3>1, <3>2, LoadReports DEF Variables
      <3>4. QED BY <2>1, <2>3, <3>3
    <2>4. QED BY <2>2, <2>3
  <1>2. QED BY <1>1, Invariance, PTL

-----------------------------------------------------------------------------
(* The tree of errors. *)

Steps    == CollectorSteps \cup {"start"}
Failures == {Failure(step) : step \in Steps}
Elems(seq) == {seq[i] : i \in DOMAIN seq}

LEMMA ElemsOfConcat ==
    ASSUME NEW S, NEW s \in Seq(S), NEW t \in Seq(S)
    PROVE  s \o t \in Seq(S) /\ Elems(s \o t) = Elems(s) \cup Elems(t)
<1>1. /\ s \o t \in Seq(S) /\ DOMAIN (s \o t) = 1..(Len(s) + Len(t)) /\ Len(s) \in Nat /\ Len(t) \in Nat
      /\ DOMAIN s = 1..Len(s) /\ DOMAIN t = 1..Len(t)
  OBVIOUS
<1>2. /\ \A i \in DOMAIN s : i \in DOMAIN (s \o t) /\ (s \o t)[i] = s[i]
      /\ \A i \in DOMAIN t : Len(s) + i \in DOMAIN (s \o t) /\ (s \o t)[Len(s) + i] = t[i]
  BY <1>1
<1>3. \A i \in DOMAIN (s \o t) : \/ i \in DOMAIN s /\ (s \o t)[i] = s[i]
                                 \/ i - Len(s) \in DOMAIN t /\ (s \o t)[i] = t[i - Len(s)]
  BY <1>1
<1> DEFINE u == s \o t
<1>4. /\ \A i \in DOMAIN s : i \in DOMAIN u /\ u[i] = s[i]
      /\ \A i \in DOMAIN t : Len(s) + i \in DOMAIN u /\ u[Len(s) + i] = t[i]
      /\ \A i \in DOMAIN u : \/ i \in DOMAIN s /\ u[i] = s[i]
                             \/ i - Len(s) \in DOMAIN t /\ u[i] = t[i - Len(s)]
  BY <1>2, <1>3
<1> HIDE DEF u
<1>5. Elems(u) \subseteq Elems(s) \cup Elems(t)
  BY <1>4 DEF Elems
<1>6. Elems(s) \subseteq Elems(u) /\ Elems(t) \subseteq Elems(u)
  BY <1>4 DEF Elems
<1>7. Elems(u) = Elems(s) \cup Elems(t)
  BY <1>5, <1>6
<1> QED BY <1>1, <1>7 DEF u

LEMMA HitIs ==
    ASSUME NEW step \in Steps, NEW which
    PROVE  /\ Hit(step, which) \in Seq(Failures)
           /\ Elems(Hit(step, which)) = {Failure(x) : x \in {step} \cap which}
<1>1. Failure(step) \in Failures
  BY DEF Failures
<1>2. CASE step \in which
  <2> DEFINE f == Failure(step)
  <2>1. Hit(step, which) = <<f>>
    BY <1>2 DEF Hit
  <2>2. {step} \cap which = {step}
    BY <1>2
  <2>3. {Failure(x) : x \in {step} \cap which} = {f}
    BY <2>2
  <2> HIDE DEF f
  <2>4. Elems(<<f>>) = {f}
    BY DEF Elems
  <2>5. f \in Failures
    BY <1>1 DEF f
  <2> QED BY <2>1, <2>3, <2>4, <2>5
<1>3. CASE step \notin which
  BY <1>3 DEF Hit, Elems
<1> QED BY <1>2, <1>3

Service == {"pipelines", "extensions", "logger"}

LEMMA FailuresAre ==
    ASSUME NEW which
    PROVE  /\ FailuresOf(which) \in Seq(Failures)
           /\ Elems(FailuresOf(which)) = {Failure(x) : x \in Service \cap which}
<1> DEFINE a == Hit("pipelines", which)
           b == Hit("extensions", which)
           c == Hit("logger", which)
<1>1. "pipelines" \in Steps /\ "extensions" \in Steps /\ "logger" \in Steps
  BY DEF Steps, CollectorSteps
<1>2. /\ a \in Seq(Failures) /\ Elems(a) = {Failure(x) : x \in {"pipelines"} \cap which}
      /\ b \in Seq(Failures) /\ Elems(b) = {Failure(x) : x \in {"extensions"} \cap which}
      /\ c \in Seq(Failures) /\ Elems(c) = {Failure(x) : x \in {"logger"} \cap which}
  BY <1>1, HitIs
<1>3. FailuresOf(which) = (a \o b) \o c
  BY DEF FailuresOf
<1> HIDE DEF a, b, c
<1>0. \A s, t \in Seq(Failures) : s \o t \in Seq(Failures) /\ Elems(s \o t) = Elems(s) \cup Elems(t)
  BY ElemsOfConcat
<1>4. a \o b \in Seq(Failures) /\ Elems(a \o b) = Elems(a) \cup Elems(b)
  BY <1>0, <1>2
<1>5. (a \o b) \o c \in Seq(Failures) /\ Elems((a \o b) \o c) = Elems(a \o b) \cup Elems(c)
  BY <1>0, <1>2, <1>4
<1>6. Elems((a \o b) \o c) = {Failure(x) : x \in Service \cap which}
  BY <1>2, <1>4, <1>5 DEF Service
<1> QED BY <1>3, <1>5, <1>6

LEMMA JoinedIs ==
    ASSUME NEW S, NEW seq \in Seq(S)
    PROVE  \/ Len(seq) = 1 /\ Joined(seq) = seq[1] /\ seq[1] \in S
           \/ Len(seq) # 1 /\ Joined(seq).kind = "join" /\ Joined(seq).of = seq
  BY DEF Joined

\* Errors are built in four levels: each joins or wraps some of the level below.
Built(e, S) ==
    \/ e \in S
    \/ e.kind = "join" /\ e.of \in Seq(S)
    \/ e.kind = "after_error" /\ e.of[1] \in S
Flat    == {e \in Errors : Built(e, Failures)}
Wrapped == {e \in Errors : Built(e, Flat)}

LEMMA Levels ==
    /\ Failures \subseteq Flat /\ Flat \subseteq Wrapped /\ Wrapped \subseteq Errors
    /\ \A which \in SUBSET CollectorSteps :
          /\ Joined(FailuresOf(which)) \in Flat /\ StartError(which) \in Flat
          /\ AfterError(Joined(FailuresOf(which))) \in Wrapped
    /\ \A e \in Errors : Built(e, Wrapped)
<1>1. Failures \subseteq Errors /\ ServiceErrors \subseteq Errors
  BY DEF Failures, Steps, Errors
<1>2. Failures \subseteq Flat /\ Flat \subseteq Wrapped /\ Wrapped \subseteq Errors
  BY <1>1 DEF Flat, Wrapped, Built
<1>3. ASSUME NEW which \in SUBSET CollectorSteps
      PROVE  Joined(FailuresOf(which)) \in Flat /\ Joined(FailuresOf(which)) \in ServiceErrors
  <2>1. Joined(FailuresOf(which)) \in ServiceErrors
    BY DEF ServiceErrors
  <2>2. Built(Joined(FailuresOf(which)), Failures)
    BY FailuresAre, JoinedIs DEF Built
  <2> QED BY <1>1, <2>1, <2>2 DEF Flat
<1>4. ASSUME NEW which \in SUBSET CollectorSteps
      PROVE  StartError(which) \in Flat
  <2> DEFINE head == <<Failure("start")>>
             rest == FailuresOf(which)
  <2>1. StartError(which) \in Errors
    BY DEF Errors
  <2>2. Failure("start") \in Failures
    BY DEF Failures, Steps
  <2>3. head \in Seq(Failures) /\ rest \in Seq(Failures)
    BY <2>2, FailuresAre
  <2>4. StartError(which) = Joined(head \o rest)
    BY DEF StartError
  <2> HIDE DEF head, rest
  <2>5. head \o rest \in Seq(Failures)
    BY <2>3
  <2>6. Built(Joined(head \o rest), Failures)
    BY <2>5, JoinedIs DEF Built
  <2> QED BY <2>1, <2>4, <2>6 DEF Flat
<1>5. ASSUME NEW which \in SUBSET CollectorSteps
      PROVE  AfterError(Joined(FailuresOf(which))) \in Wrapped
  <2> DEFINE err == Joined(FailuresOf(which))
  <2>1. err \in Flat /\ err \in ServiceErrors
    BY <1>3
  <2>2. AfterError(err) \in Errors
    BY <2>1 DEF Errors
  <2> HIDE DEF err
  <2>3. AfterError(err).kind = "after_error" /\ AfterError(err).of[1] = err
    BY DEF AfterError
  <2>4. AfterError(err) \in Wrapped
    BY <2>1, <2>2, <2>3 DEF Wrapped, Built
  <2> QED BY <2>4 DEF err
<1>6. ASSUME NEW which \in SUBSET CollectorSteps
      PROVE  Built(ShutdownError(which), Wrapped)
  <2> DEFINE head == Hit("provider", which)
             wrap == AfterError(Joined(FailuresOf(which)))
             rest == IF FailuresOf(which) = <<>> THEN <<>> ELSE <<wrap>>
  <2>1. "provider" \in Steps
    BY DEF Steps, CollectorSteps
  <2>2. head \in Seq(Failures) /\ wrap \in Wrapped
    BY <1>5, <2>1, HitIs
  <2>3. ShutdownError(which) = Joined(head \o rest)
    BY DEF ShutdownError
  <2> HIDE DEF head, wrap
  <2>4. head \in Seq(Wrapped) /\ rest \in Seq(Wrapped)
    BY <1>2, <2>2
  <2> HIDE DEF rest
  <2>5. head \o rest \in Seq(Wrapped)
    BY <2>4
  <2>6. Built(Joined(head \o rest), Wrapped)
    BY <2>5, JoinedIs DEF Built
  <2> QED BY <2>3, <2>6
<1>7. ASSUME NEW e \in Errors
      PROVE  Built(e, Wrapped)
  <2>1. CASE e \in Failures
    BY <1>2, <2>1 DEF Built
  <2>2. CASE e \in ServiceErrors
    BY <1>2, <1>3, <2>2 DEF Built, ServiceErrors
  <2>3. CASE \E err \in ServiceErrors : e = AfterError(err)
    BY <1>5, <2>3 DEF Built, ServiceErrors
  <2>4. CASE \E which \in SUBSET CollectorSteps : e = StartError(which)
    BY <1>2, <1>4, <2>4 DEF Built
  <2>5. CASE \E which \in SUBSET CollectorSteps : e = ShutdownError(which)
    BY <1>6, <2>5
  <2> QED BY <2>1, <2>2, <2>3, <2>4, <2>5 DEF Errors, Failures, Steps
<1> QED BY <1>2, <1>3, <1>4, <1>5, <1>7

\* What onlyLoggerShutdown makes of one node, given its answers f below it.
Node(e, f) ==
    \/ e.kind = "join" /\ e.of # <<>> /\ \A i \in DOMAIN e.of : f[e.of[i]]
    \/ e.kind = "logger"
    \/ e.kind = "after_error" /\ f[e.of[1]]

LEMMA NodeAgrees ==
    ASSUME NEW S, NEW f, NEW g, \A e \in S : f[e] = g[e], NEW e \in Errors,
           Built(e, S), e \in S => Node(e, f) = Node(e, g)
    PROVE  Node(e, f) = Node(e, g)
<1>1. CASE e \in S
  BY <1>1
<1>2. CASE e.kind = "join" /\ e.of \in Seq(S)
  <2>1. \A i \in DOMAIN e.of : e.of[i] \in S
    BY <1>2
  <2>2. \A i \in DOMAIN e.of : f[e.of[i]] = g[e.of[i]]
    BY <2>1
  <2> QED BY <1>2, <2>2 DEF Node
<1>3. CASE e.kind = "after_error" /\ e.of[1] \in S
  <2>1. f[e.of[1]] = g[e.of[1]]
    BY <1>3
  <2> QED BY <1>3, <2>1 DEF Node
<1> QED BY <1>1, <1>2, <1>3 DEF Built

\* The recursion has a solution: four levels of answers, each from the one
\* below.  So onlyLoggerShutdown's function is its own definition.
LEMMA OnlyLoggerUnfolds ==
    \A e \in Errors : OnlyLoggerShutdown[e] = Node(e, OnlyLoggerShutdown)
<1> DEFINE f0 == [e \in Errors |-> e.kind = "logger"]
           f1 == [e \in Errors |-> Node(e, f0)]
           f2 == [e \in Errors |-> Node(e, f1)]
           f3 == [e \in Errors |-> Node(e, f2)]
<1>1. /\ \A e \in Errors : f0[e] = (e.kind = "logger") /\ f1[e] = Node(e, f0)
      /\ \A e \in Errors : f2[e] = Node(e, f1) /\ f3[e] = Node(e, f2)
  OBVIOUS
<1>2. \A e \in Failures : e \in Errors /\ e.kind # "join" /\ e.kind # "after_error"
  BY Levels DEF Failures, Failure, Steps, CollectorSteps
<1>3. f3 = [e \in Errors |-> Node(e, f2)]
  OBVIOUS
<1> HIDE DEF f0, f1, f2, f3
<1>4. \A e \in Failures : \A f : Node(e, f) = (e.kind = "logger")
  BY <1>2 DEF Node
<1>5. \A e \in Failures : f0[e] = f1[e] /\ f1[e] = f2[e]
  BY <1>1, <1>2, <1>4
<1>6. \A e \in Flat : Node(e, f0) = Node(e, f1) /\ Node(e, f1) = Node(e, f2)
  <2> SUFFICES ASSUME NEW e \in Flat PROVE Node(e, f0) = Node(e, f1) /\ Node(e, f1) = Node(e, f2)
    OBVIOUS
  <2>1. e \in Errors /\ Built(e, Failures)
    BY DEF Flat
  <2>2. e \in Failures => Node(e, f0) = Node(e, f1) /\ Node(e, f1) = Node(e, f2)
    BY <1>4
  <2>3. Node(e, f0) = Node(e, f1)
    BY <1>5, <2>1, <2>2, NodeAgrees
  <2>4. Node(e, f1) = Node(e, f2)
    BY <1>5, <2>1, <2>2, NodeAgrees
  <2> QED BY <2>3, <2>4
<1>7. \A e \in Flat : f1[e] = f2[e] /\ f2[e] = f3[e]
  BY <1>1, <1>6, Levels
<1>8. \A e \in Wrapped : Node(e, f1) = Node(e, f2)
  <2> SUFFICES ASSUME NEW e \in Wrapped PROVE Node(e, f1) = Node(e, f2)
    OBVIOUS
  <2>1. e \in Errors /\ Built(e, Flat)
    BY DEF Wrapped
  <2>2. e \in Flat => Node(e, f1) = Node(e, f2)
    BY <1>6
  <2> QED BY <1>7, <2>1, <2>2, NodeAgrees
<1>9. \A e \in Wrapped : f2[e] = f3[e]
  BY <1>1, <1>8, Levels
<1>10. \A e \in Errors : Node(e, f2) = Node(e, f3)
  <2> SUFFICES ASSUME NEW e \in Errors PROVE Node(e, f2) = Node(e, f3)
    OBVIOUS
  <2>1. Built(e, Wrapped)
    BY Levels
  <2>2. e \in Wrapped => Node(e, f2) = Node(e, f3)
    <3> SUFFICES ASSUME e \in Wrapped PROVE Node(e, f2) = Node(e, f3)
      OBVIOUS
    <3>1. Built(e, Flat) /\ (e \in Flat => Node(e, f1) = Node(e, f2))
      BY <1>6 DEF Wrapped
    <3>2. \A d \in Flat : f2[d] = f3[d]
      BY <1>7
    <3>3. e \in Flat => Node(e, f2) = Node(e, f3)
      <4> SUFFICES ASSUME e \in Flat PROVE Node(e, f2) = Node(e, f3)
        OBVIOUS
      <4>1. Built(e, Failures) /\ \A d \in Failures : f2[d] = f3[d]
        BY <1>7, Levels DEF Flat
      <4>2. e \in Failures => Node(e, f2) = Node(e, f3)
        BY <1>4
      <4> QED BY <4>1, <4>2, NodeAgrees
    <3> QED BY <3>1, <3>2, <3>3, NodeAgrees
  <2> QED BY <1>9, <2>1, <2>2, NodeAgrees
<1>11. f3 = [e \in Errors |-> Node(e, f3)]
  BY <1>3, <1>10
<1> DEFINE Solves(f) == f = [e \in Errors |-> Node(e, f)]
<1>12. OnlyLoggerShutdown = CHOOSE f : Solves(f)
  BY DEF OnlyLoggerShutdown, Node
<1>13. Solves(f3)
  BY <1>11
<1> HIDE DEF Solves
<1>14. Solves(OnlyLoggerShutdown)
  BY <1>12, <1>13
<1> QED BY <1>14 DEF Solves

LEMMA OnlyOfFailure ==
    ASSUME NEW step \in Steps
    PROVE  Failure(step) \in Errors /\ (OnlyLoggerShutdown[Failure(step)] <=> step = "logger")
<1>1. Failure(step) \in Errors
  BY Levels DEF Failures
<1>2. Failure(step).kind = step /\ step # "join" /\ step # "after_error"
  BY DEF Failure, Steps, CollectorSteps
<1> QED BY <1>1, <1>2, OnlyLoggerUnfolds DEF Node

LEMMA OnlyOfJoined ==
    ASSUME NEW seq \in Seq(Errors), Joined(seq) \in Errors
    PROVE  OnlyLoggerShutdown[Joined(seq)] <=> seq # <<>> /\ \A x \in Elems(seq) : OnlyLoggerShutdown[x]
<1>1. CASE Len(seq) = 1
  <2>1. Joined(seq) = seq[1] /\ DOMAIN seq = {1} /\ seq # <<>>
    BY <1>1 DEF Joined
  <2>2. Elems(seq) = {seq[1]}
    BY <2>1 DEF Elems
  <2> QED BY <2>1, <2>2
<1>2. CASE Len(seq) # 1
  <2>1. Joined(seq).kind = "join" /\ Joined(seq).of = seq
    BY <1>2 DEF Joined
  <2>2. OnlyLoggerShutdown[Joined(seq)] = Node(Joined(seq), OnlyLoggerShutdown)
    BY OnlyLoggerUnfolds
  <2>3. Node(Joined(seq), OnlyLoggerShutdown) <=> seq # <<>> /\ \A i \in DOMAIN seq : OnlyLoggerShutdown[seq[i]]
    BY <2>1 DEF Node
  <2> QED BY <2>2, <2>3 DEF Elems
<1> QED BY <1>1, <1>2

LEMMA OnlyOfAfterError ==
    ASSUME NEW err \in Errors, AfterError(err) \in Errors
    PROVE  OnlyLoggerShutdown[AfterError(err)] <=> OnlyLoggerShutdown[err]
<1>1. AfterError(err).kind = "after_error" /\ AfterError(err).of[1] = err
  BY DEF AfterError
<1>2. OnlyLoggerShutdown[AfterError(err)] = Node(AfterError(err), OnlyLoggerShutdown)
  BY OnlyLoggerUnfolds
<1>3. Node(AfterError(err), OnlyLoggerShutdown) <=> OnlyLoggerShutdown[err]
  BY <1>1 DEF Node
<1> QED BY <1>2, <1>3

LEMMA OnlyOfService ==
    ASSUME NEW which \in SUBSET CollectorSteps
    PROVE  /\ FailuresOf(which) = <<>> <=> Service \cap which = {}
           /\ OnlyLoggerShutdown[Joined(FailuresOf(which))] <=> Service \cap which = {"logger"}
<1> DEFINE seq == FailuresOf(which)
<1>1. seq \in Seq(Failures) /\ Elems(seq) = {Failure(x) : x \in Service \cap which}
  BY FailuresAre
<1>2. Joined(seq) \in Errors /\ Failures \subseteq Errors
  BY Levels
<1> HIDE DEF seq
<1>3. seq \in Seq(Errors)
  BY <1>1, <1>2
<1>4. seq = <<>> <=> Elems(seq) = {}
  BY <1>1 DEF Elems
<1>5. seq = <<>> <=> Service \cap which = {}
  BY <1>1, <1>4
<1>6. \A x \in Service \cap which : OnlyLoggerShutdown[Failure(x)] <=> x = "logger"
  BY OnlyOfFailure DEF Service, Steps, CollectorSteps
<1>7. OnlyLoggerShutdown[Joined(seq)] <=> seq # <<>> /\ \A x \in Service \cap which : x = "logger"
  <2>1. OnlyLoggerShutdown[Joined(seq)] <=> seq # <<>> /\ \A x \in Elems(seq) : OnlyLoggerShutdown[x]
    BY <1>2, <1>3, OnlyOfJoined
  <2> QED BY <1>1, <1>6, <2>1
<1> QED BY <1>5, <1>7 DEF seq

\* A start that failed is never taken for a flush that failed ...
LEMMA OnlyOfStart ==
    ASSUME NEW which \in SUBSET CollectorSteps
    PROVE  ~OnlyLoggerShutdown[StartError(which)]
<1> DEFINE f    == Failure("start")
           head == <<f>>
           rest == FailuresOf(which)
<1>1. StartError(which) = Joined(head \o rest) /\ StartError(which) \in Errors
  BY Levels DEF StartError
<1>2. f \in Errors /\ ~OnlyLoggerShutdown[f]
  BY OnlyOfFailure DEF Steps
<1>3. rest \in Seq(Errors)
  <2>1. rest \in Seq(Failures) /\ Failures \subseteq Errors
    BY FailuresAre, Levels
  <2> HIDE DEF rest
  <2> QED BY <2>1
<1> HIDE DEF f, rest
<1>4. head \in Seq(Errors) /\ f \in Elems(head)
  BY <1>2 DEF Elems
<1> HIDE DEF head
<1>5. head \o rest \in Seq(Errors) /\ f \in Elems(head \o rest)
  BY <1>3, <1>4, ElemsOfConcat
<1> QED BY <1>1, <1>2, <1>5, OnlyOfJoined

\* ... and a shutdown is exactly when nothing else failed.
LEMMA OnlyOfShutdown ==
    ASSUME NEW which \in SUBSET CollectorSteps, which # {}
    PROVE  OnlyLoggerShutdown[ShutdownError(which)] <=> which = {"logger"}
<1> DEFINE service == FailuresOf(which)
           inner   == Joined(service)
           wrap    == AfterError(inner)
           head    == Hit("provider", which)
           rest    == IF service = <<>> THEN <<>> ELSE <<wrap>>
<1>1. ShutdownError(which) = Joined(head \o rest) /\ ShutdownError(which) \in Errors
  BY DEF ShutdownError, Errors
<1>2. inner \in Errors /\ wrap \in Errors /\ Failures \subseteq Errors
  BY Levels
<1>3. /\ service = <<>> <=> Service \cap which = {}
      /\ OnlyLoggerShutdown[wrap] <=> Service \cap which = {"logger"}
  BY <1>2, OnlyOfService, OnlyOfAfterError
<1>4. "provider" \in Steps /\ head \in Seq(Failures) /\ Elems(head) = {Failure(x) : x \in {"provider"} \cap which}
  BY HitIs DEF Steps, CollectorSteps
<1>5. ~OnlyLoggerShutdown[Failure("provider")]
  BY <1>4, OnlyOfFailure
<1> HIDE DEF service, inner, wrap, head
<1>6. head \in Seq(Errors) /\ rest \in Seq(Errors)
  BY <1>2, <1>4
<1>7. Elems(rest) = IF Service \cap which = {} THEN {} ELSE {wrap}
  <2>1. Elems(<<>>) = {} /\ Elems(<<wrap>>) = {wrap}
    BY DEF Elems
  <2> QED BY <1>3, <2>1
<1> HIDE DEF rest
<1>8. head \o rest \in Seq(Errors) /\ Elems(head \o rest) = Elems(head) \cup Elems(rest)
  BY <1>6, ElemsOfConcat
<1>9. OnlyLoggerShutdown[Joined(head \o rest)] <=> /\ head \o rest # <<>>
                                                   /\ \A x \in Elems(head \o rest) : OnlyLoggerShutdown[x]
  BY <1>1, <1>8, OnlyOfJoined
<1>10. head \o rest = <<>> <=> Elems(head \o rest) = {}
  <2> DEFINE u == head \o rest
  <2>1. u \in Seq(Errors)
    BY <1>8
  <2> HIDE DEF u
  <2>2. DOMAIN u = 1..Len(u) /\ Len(u) \in Nat /\ (u = <<>> <=> Len(u) = 0)
    BY <2>1
  <2>3. Elems(u) = {} <=> DOMAIN u = {}
    BY DEF Elems
  <2>4. Elems(u) = {} <=> Len(u) = 0
    BY <2>2, <2>3
  <2> QED BY <2>2, <2>4 DEF u
<1>11. (\A x \in Elems(head \o rest) : OnlyLoggerShutdown[x])
          <=> "provider" \notin which /\ (Service \cap which = {} \/ Service \cap which = {"logger"})
  BY <1>3, <1>4, <1>5, <1>7, <1>8
<1>12. Elems(head \o rest) = {} <=> which = {}
  BY <1>4, <1>7, <1>8 DEF Service, CollectorSteps
<1>13. which = {"logger"} <=> "provider" \notin which /\ (Service \cap which = {} \/ Service \cap which = {"logger"})
  BY DEF Service, CollectorSteps
<1> QED BY <1>1, <1>9, <1>10, <1>11, <1>12, <1>13

\* What a process exited with is what failed of its run.
Told(p) == at[p] = "exited" => (exit[p] = "ok" <=> failed[p] \subseteq {"logger"})

\* The process exits with success exactly when its collector ran and stopped
\* with nothing failing but the flush of its own logs, whatever tree of errors
\* the collector returned (ownLogsUndelivered, onlyLoggerShutdown).
THEOREM ExitsTellTheRun == Spec => []ExitTellsTheRun
<1>1. ASSUME IInv, \A p \in Proc : Told(p), NEW p \in Proc,
             \/ at'[p] \notin {"exited", at[p]}
             \/ at'[p] = at[p] /\ exit'[p] = exit[p] /\ failed'[p] = failed[p]
             \/ at'[p] = "exited" /\ exit'[p] = "error" /\ ~(failed'[p] \subseteq {"logger"})
             \/ at'[p] = "exited" /\ exit'[p] = "ok" /\ failed'[p] \subseteq {"logger"},
             \A q \in Proc \ {p} : at'[q] = at[q] /\ exit'[q] = exit[q] /\ failed'[q] = failed[q]
      PROVE  \A q \in Proc : Told(q)'
  BY <1>1 DEF Told
<1>2. ASSUME IInv, \A p \in Proc : Told(p), [Next]_vars
      PROVE  \A p \in Proc : Told(p)'
  <2>0. at \in [Proc -> Places] /\ DOMAIN failed = Proc /\ DOMAIN exit = Proc
    BY <1>2 DEF IInv, ProcessTypes
  <2>1. CASE UNCHANGED vars
    BY <1>2, <2>1 DEF vars, Told
  <2>2. ASSUME NEW p \in Proc, NEW what, Fails(p, what), what # "logger"
        PROVE  \A q \in Proc : Told(q)'
    <3>1. at'[p] = "exited" /\ exit'[p] = "error" /\ what \in failed'[p]
      BY <2>0, <2>2 DEF Fails, Goto
    <3>2. \A q \in Proc \ {p} : at'[q] = at[q] /\ exit'[q] = exit[q] /\ failed'[q] = failed[q]
      BY <2>0, <2>2 DEF Fails, Goto
    <3> QED BY <1>1, <1>2, <2>2, <3>1, <3>2
  <2>3. ASSUME NEW p \in Proc, NEW place \in Places \ {"exited"}, Goes(p, place)
        PROVE  \A q \in Proc : Told(q)'
    BY <1>2, <2>0, <2>3 DEF Goes, Goto, Told
  <2>4. ASSUME UNCHANGED <<at, exit, failed>>
        PROVE  \A q \in Proc : Told(q)'
    BY <1>2, <2>4 DEF Told
  <2>5. ASSUME NEW p \in Proc, Launch(p) \/ Crash(p)
        PROVE  \A q \in Proc : Told(q)'
    BY <1>2, <2>0, <2>5 DEF Launch, Crash, Goto, Told
  <2>6. ASSUME NEW p \in Proc, \/ LoadAll(p) \/ Unhide(p) \/ NewLogger(p)
                               \/ Remove(p) \/ Create(p) \/ Write(p) \/ Close(p)
        PROVE  \A q \in Proc : Told(q)'
    <3>1. \/ \E what : Fails(p, what) /\ what # "logger"
          \/ \E place \in Places \ {"exited"} : Goes(p, place)
          \/ UNCHANGED <<at, exit, failed>>
      <4>1. \A place \in {"logger", "unset", "collector", "remove", "create", "write", "close"} :
                place \in Places \ {"exited"}
        BY DEF Places
      <4>2. CASE LoadAll(p)
        BY <4>1, <4>2 DEF LoadAll
      <4>3. CASE NewLogger(p)
        BY <4>1, <4>3 DEF NewLogger
      <4>4. CASE Remove(p) \/ Create(p)
        BY <4>1, <4>4 DEF Remove, Create
      <4>5. CASE Write(p) \/ Close(p)
        BY <4>1, <4>5 DEF Write, Close
      <4>6. CASE Unhide(p)
        BY <4>1, <4>6 DEF Unhide
      <4> QED BY <2>6, <4>2, <4>3, <4>4, <4>5, <4>6
    <3> QED BY <2>2, <2>3, <2>4, <3>1
  <2>7. ASSUME NEW p \in Proc, NEW err, NEW which, Returns(p, err, which), failed[p] = {},
               OnlyLoggerShutdown[err] <=> which \subseteq {"logger"}
        PROVE  \A q \in Proc : Told(q)'
    <3>1. /\ at'[p] = "exited" /\ failed'[p] = which
          /\ exit'[p] = IF OnlyLoggerShutdown[err] THEN "ok" ELSE "error"
      BY <2>0, <2>7 DEF Returns, Goto, OwnLogsUndelivered
    <3>2. \A q \in Proc \ {p} : at'[q] = at[q] /\ exit'[q] = exit[q] /\ failed'[q] = failed[q]
      BY <2>0, <2>7 DEF Returns, Goto
    <3> QED BY <1>1, <1>2, <2>7, <3>1, <3>2
  <2>8. ASSUME NEW p \in Proc, StartCollector(p)
        PROVE  \A q \in Proc : Told(q)'
    <3>1. failed[p] = {}
      BY <1>2, <2>8 DEF StartCollector, From, IInv, Process, Refused
    <3>2. CASE Goes(p, "running")
      BY <2>3, <3>2 DEF Places
    <3>3. CASE Fails(p, "read")
      BY <2>2, <3>3
    <3>4. ASSUME NEW which \in SUBSET {"pipelines", "extensions", "logger"},
                 Returns(p, StartError(which), which \cup {"start"})
          PROVE  \A q \in Proc : Told(q)'
      <4>1. which \in SUBSET CollectorSteps /\ ~(which \cup {"start"} \subseteq {"logger"})
        BY DEF CollectorSteps
      <4>2. OnlyLoggerShutdown[StartError(which)] <=> which \cup {"start"} \subseteq {"logger"}
        BY <4>1, OnlyOfStart
      <4> QED BY <2>7, <3>1, <3>4, <4>2
    <3> QED BY <2>8, <3>2, <3>3, <3>4 DEF StartCollector
  <2>9. ASSUME NEW p \in Proc, Reload(p)
        PROVE  \A q \in Proc : Told(q)'
    BY <2>2, <2>4, <2>9 DEF Reload
  <2>10. ASSUME NEW p \in Proc, StopCollector(p)
         PROVE  \A q \in Proc : Told(q)'
    <3>1. failed[p] = {}
      BY <1>2, <2>10 DEF StopCollector, From, IInv, Process, Refused
    <3>2. CASE Goto(p, "exited") /\ exit' = [exit EXCEPT ![p] = "ok"] /\ UNCHANGED failed
      <4>1. at'[p] = "exited" /\ exit'[p] = "ok" /\ failed'[p] = {}
        BY <2>0, <3>1, <3>2 DEF Goto
      <4>2. \A q \in Proc \ {p} : at'[q] = at[q] /\ exit'[q] = exit[q] /\ failed'[q] = failed[q]
        BY <2>0, <3>2 DEF Goto
      <4> QED BY <1>1, <1>2, <4>1, <4>2
    <3>3. ASSUME NEW which \in SUBSET CollectorSteps, which # {}, Returns(p, ShutdownError(which), which)
          PROVE  \A q \in Proc : Told(q)'
      <4>1. OnlyLoggerShutdown[ShutdownError(which)] <=> which \subseteq {"logger"}
        BY <3>3, OnlyOfShutdown
      <4> QED BY <2>7, <3>1, <3>3, <4>1
    <3>4. CASE \E which \in (SUBSET CollectorSteps) \ {{}} : Returns(p, ShutdownError(which), which)
      <4>1. PICK which \in (SUBSET CollectorSteps) \ {{}} : Returns(p, ShutdownError(which), which)
        BY <3>4
      <4>2. which \in SUBSET CollectorSteps /\ which # {}
        OBVIOUS
      <4> QED BY <3>3, <4>1, <4>2
    <3> QED BY <2>10, <3>2, <3>4 DEF StopCollector
  <2> QED BY <1>2, <2>1, <2>5, <2>6, <2>8, <2>9, <2>10 DEF Next
<1>3. Init => \A p \in Proc : Told(p)
  BY DEF Init, Told
<1> DEFINE AllTold == \A p \in Proc : Told(p)
<1>4. Init => AllTold
  BY <1>3
<1>5. IInv /\ AllTold /\ [Next]_vars => AllTold'
  BY <1>2
<1>6. AllTold => ExitTellsTheRun
  BY DEF Told, ExitTellsTheRun
<1> HIDE DEF AllTold
<1> QED BY Invariance, <1>4, <1>5, <1>6, PTL DEF Spec

=============================================================================
