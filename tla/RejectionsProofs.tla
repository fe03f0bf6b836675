-------------------------- MODULE RejectionsProofs --------------------------
(***************************************************************************)
(* The accounts and the bound of the log (telemetry.go), for any number of *)
(* goroutines, reasons and refusals and any interval.                      *)
(***************************************************************************)
EXTENDS Rejections, FiniteSetTheorems, TLAPS

Windows == [seen : BOOLEAN, logged : Nat, suppressed : Nat]
Records == [at : {"idle", "counted", "warn"}, why : Reason, suppressed : Nat]

\* The reason an idle goroutine shows is one of them.
LEMMA IdleType == Idle \in Records
<1>1. (CHOOSE w \in Reason : TRUE) \in Reason
  BY ParametersAreSane
<1> QED BY <1>1 DEF Idle, Records

\* Every variable keeps its type.
THEOREM TypeCorrect == Spec => []TypeOK
<1>1. Init => TypeOK
  BY IdleType DEF Init, TypeOK, Unseen, Records
<1>2. TypeOK /\ [Next]_vars => TypeOK'
  <2> SUFFICES ASSUME TypeOK, [Next]_vars PROVE TypeOK'
    OBVIOUS
  <2> USE DEF TypeOK
  <2>1. ASSUME NEW r \in Req, NEW why \in Reason, Count(r, why) PROVE TypeOK'
    BY <2>1 DEF Count
  <2>2. ASSUME NEW r \in Req, Admit(r) PROVE TypeOK'
    <3>0. rec[r] \in Records /\ rec[r].why \in Reason /\ windows[rec[r].why] \in Windows
      BY DEF Records, Windows
    <3>1. windows[rec[r].why].suppressed \in Nat
      BY <3>0 DEF Windows
    <3>2. windows' \in [Reason -> Windows]
      BY <2>2, <3>0 DEF Admit, Windows
    <3>3. admitted' \in [Reason -> Nat]
      BY <2>2, <3>0 DEF Admit
    <3>4. rec' \in [Req -> Records]
      <4>1. rec' = [rec EXCEPT ![r] = [rec[r] EXCEPT !.at = "warn", !.suppressed = windows[rec[r].why].suppressed]]
        BY <2>2 DEF Admit
      <4>2. [rec[r] EXCEPT !.at = "warn", !.suppressed = windows[rec[r].why].suppressed] \in Records
        BY <3>0, <3>1 DEF Records
      <4> QED BY <4>1, <4>2 DEF Records
    <3> QED BY <2>2, <3>2, <3>3, <3>4 DEF Admit, Windows, Records
  <2>3. ASSUME NEW r \in Req, Suppress(r) PROVE TypeOK'
    BY <2>3, IdleType DEF Suppress, Records
  <2>4. ASSUME NEW r \in Req, Warn(r) PROVE TypeOK'
    <3>1. rec[r].why \in Reason /\ rec[r].suppressed \in Nat
      OBVIOUS
    <3>2. written' \in [Reason -> Nat] /\ reported' \in [Reason -> Nat]
      BY <2>4, <3>1 DEF Warn
    <3> QED BY <2>4, <3>2, IdleType DEF Warn, Records
  <2>5. CASE Tick
    BY <2>5 DEF Tick
  <2>6. CASE UNCHANGED vars
    BY <2>6 DEF vars
  <2> QED BY <2>1, <2>2, <2>3, <2>4, <2>5, <2>6 DEF Next
<1> QED BY <1>1, <1>2, PTL DEF Spec

\* A reason never seen has not warned; one that has warned n times did so the
\* last time no earlier than n - 1 intervals from the start.
LoggedLate ==
    \A why \in Reason :
        LET w == windows[why]
        IN  /\ ~w.seen => admitted[why] = 0
            /\ w.seen => (admitted[why] - 1) * Interval <= w.logged /\ w.logged <= clock

\* Multiplication, one step.
LEMMA OneMore ==
    ASSUME NEW n \in Nat, NEW i \in Nat
    PROVE  (n + 1 - 1) * i = (n - 1) * i + i
  OBVIOUS

\* admit lets a reason warn once, and once more per interval passed, however
\* the goroutines that refuse requests interleave.
THEOREM LogIsBounded == Spec => []WarningsBounded
<1>1. Init => LoggedLate
  BY DEF Init, Unseen, LoggedLate
<1>2. TypeOK /\ LoggedLate /\ [Next]_vars => LoggedLate'
  <2> SUFFICES ASSUME TypeOK, LoggedLate, [Next]_vars PROVE LoggedLate'
    OBVIOUS
  <2> USE ParametersAreSane DEF TypeOK
  <2>1. ASSUME NEW r \in Req, Admit(r) PROVE LoggedLate'
    <3> SUFFICES ASSUME NEW why \in Reason
                 PROVE  /\ windows'[why].seen \/ admitted'[why] = 0
                        /\ windows'[why].seen => /\ (admitted'[why] - 1) * Interval <= windows'[why].logged
                                                 /\ windows'[why].logged <= clock'
      BY DEF LoggedLate
    <3>1. CASE why # rec[r].why
      BY <2>1, <3>1 DEF Admit, LoggedLate
    <3>2. CASE why = rec[r].why
      <4>1. /\ windows'[why].seen /\ windows'[why].logged = clock /\ clock' = clock
            /\ admitted'[why] = admitted[why] + 1 /\ Due(windows[why])
        BY <2>1, <3>2 DEF Admit
      <4>2. admitted[why] \in Nat /\ windows[why].logged \in Nat /\ clock \in Nat
        OBVIOUS
      <4>3. CASE ~windows[why].seen
        BY <4>1, <4>3 DEF LoggedLate
      <4>4. CASE windows[why].seen
        <5>1. clock - windows[why].logged >= Interval
          BY <4>1, <4>4 DEF Due
        <5>2. (admitted[why] - 1) * Interval <= windows[why].logged
          BY <4>4 DEF LoggedLate
        <5>3. (admitted[why] + 1 - 1) * Interval = (admitted[why] - 1) * Interval + Interval
          BY <4>2, OneMore
        <5>4. (admitted[why] - 1) * Interval \in Int
          BY <4>2
        <5>5. (admitted[why] + 1 - 1) * Interval <= clock
          BY <4>2, <5>1, <5>2, <5>3, <5>4
        <5> QED BY <4>1, <5>5
      <4> QED BY <4>3, <4>4
    <3> QED BY <3>1, <3>2
  <2>2. ASSUME NEW r \in Req, Suppress(r) PROVE LoggedLate'
    <3>1. /\ UNCHANGED <<clock, admitted>>
          /\ \A why \in Reason : windows'[why].seen = windows[why].seen /\ windows'[why].logged = windows[why].logged
      BY <2>2 DEF Suppress
    <3> QED BY <3>1 DEF LoggedLate
  <2>3. ASSUME NEW r \in Req, \/ \E why \in Reason : Count(r, why)
                              \/ Warn(r)
        PROVE LoggedLate'
    BY <2>3 DEF Count, Warn, LoggedLate
  <2>4. CASE Tick
    <3>1. UNCHANGED <<windows, admitted>> /\ clock' = clock + 1
      BY <2>4 DEF Tick
    <3> QED BY <3>1 DEF LoggedLate
  <2>5. CASE UNCHANGED vars
    BY <2>5 DEF vars, LoggedLate
  <2> QED BY <2>1, <2>2, <2>3, <2>4, <2>5 DEF Next
<1>3. TypeOK /\ LoggedLate => WarningsBounded
  <2> SUFFICES ASSUME TypeOK, LoggedLate, NEW why \in Reason PROVE (admitted[why] - 1) * Interval <= clock
    BY DEF WarningsBounded
  <2>1. CASE windows[why].seen
    <3>1. (admitted[why] - 1) * Interval \in Int
      BY ParametersAreSane DEF TypeOK
    <3> QED BY <2>1, <3>1 DEF LoggedLate, TypeOK
  <2>2. CASE ~windows[why].seen
    <3>1. admitted[why] = 0
      BY <2>2 DEF LoggedLate
    <3> QED BY <3>1, ParametersAreSane DEF TypeOK
  <2> QED BY <2>1, <2>2
<1> QED BY <1>1, <1>2, <1>3, TypeCorrect, PTL DEF Spec

-----------------------------------------------------------------------------
(* The accounts.  What goroutines have in hand is a set, so one goroutine's *)
(* step adds what it takes up and removes what it puts down.                *)

Size(call, why) == IF call.at # "idle" /\ call.why = why THEN call.suppressed + 1 ELSE 0

LEMMA HeldSize ==
    ASSUME NEW call \in Records, NEW r, NEW why
    PROVE  IsFiniteSet(Held(call, r, why)) /\ Cardinality(Held(call, r, why)) = Size(call, why)
<1>1. call.suppressed \in Nat
  BY DEF Records
<1>2. IsFiniteSet(0..call.suppressed) /\ Cardinality(0..call.suppressed) = call.suppressed + 1
  BY <1>1, FS_Interval
<1>3. IsFiniteSet({r}) /\ Cardinality({r}) = 1
  BY FS_Singleton
<1>4. IsFiniteSet({r} \X (0..call.suppressed))
      /\ Cardinality({r} \X (0..call.suppressed)) = Cardinality({r}) * Cardinality(0..call.suppressed)
  BY <1>2, <1>3, FS_Product
<1>5. Cardinality({r} \X (0..call.suppressed)) = call.suppressed + 1
  BY <1>1, <1>2, <1>3, <1>4
<1> QED BY <1>4, <1>5, FS_EmptySet DEF Held, Size

LEMMA InHandMoves ==
    ASSUME rec \in [Req -> Records], NEW r \in Req, NEW call \in Records, NEW why,
           IsFiniteSet(InHand(rec, why))
    PROVE  LET calls == [rec EXCEPT ![r] = call]
           IN  /\ IsFiniteSet(InHand(calls, why))
               /\ Cardinality(InHand(calls, why)) = Cardinality(InHand(rec, why)) - Size(rec[r], why) + Size(call, why)
<1> DEFINE calls  == [rec EXCEPT ![r] = call]
           Old    == Held(rec[r], r, why)
           New    == Held(call, r, why)
           Others == UNION {Held(rec[q], q, why) : q \in Req \ {r}}
<1>1. InHand(rec, why) = Others \cup Old
  BY DEF InHand
<1>2. InHand(calls, why) = Others \cup New
  <2>1. calls[r] = call /\ \A q \in Req \ {r} : calls[q] = rec[q]
    OBVIOUS
  <2> HIDE DEF calls
  <2> QED BY <2>1 DEF InHand
<1>3. Others \cap Old = {} /\ Others \cap New = {}
  <2>1. \A c, q : \A h \in Held(c, q, why) : h[1] = q
    BY DEF Held
  <2>2. \A h \in Others : h[1] # r
    BY <2>1
  <2> HIDE DEF Others
  <2> QED BY <2>1, <2>2
<1>4. rec[r] \in Records
  OBVIOUS
<1>5. /\ IsFiniteSet(Old) /\ Cardinality(Old) = Size(rec[r], why)
      /\ IsFiniteSet(New) /\ Cardinality(New) = Size(call, why)
  BY <1>4, HeldSize
<1> HIDE DEF calls, Old, New, Others
<1>6. IsFiniteSet(Others) /\ Cardinality({}) = 0
  BY <1>1, FS_Subset, FS_EmptySet
<1>7. /\ Cardinality(Others \cup Old) = Cardinality(Others) + Cardinality(Old) - Cardinality(Others \cap Old)
      /\ Cardinality(Others \cup New) = Cardinality(Others) + Cardinality(New) - Cardinality(Others \cap New)
      /\ IsFiniteSet(Others \cup New)
  BY <1>5, <1>6, FS_Union
<1>8. Cardinality(Others) \in Nat /\ Cardinality(Old) \in Nat /\ Cardinality(New) \in Nat
  BY <1>5, <1>6, FS_CardinalityType
<1>9. /\ Cardinality(InHand(rec, why)) = Cardinality(Others) + Size(rec[r], why)
      /\ Cardinality(InHand(calls, why)) = Cardinality(Others) + Size(call, why)
  <2>1. /\ Cardinality(InHand(rec, why)) = Cardinality(Others \cup Old) /\ Cardinality(Others \cap Old) = Cardinality({})
        /\ Cardinality(InHand(calls, why)) = Cardinality(Others \cup New) /\ Cardinality(Others \cap New) = Cardinality({})
    BY <1>1, <1>2, <1>3, Zenon
  <2> QED BY <1>5, <1>6, <1>7, <1>8, <2>1
<1>10. /\ IsFiniteSet(InHand(calls, why))
       /\ Cardinality(InHand(calls, why)) = Cardinality(InHand(rec, why)) - Size(rec[r], why) + Size(call, why)
  BY <1>2, <1>5, <1>7, <1>8, <1>9
<1> QED BY <1>10 DEF calls

\* Of each reason: what is in hand is finite, and the accounts balance.  A
\* refusal counted and not yet admitted is alone in its goroutine's hands.
Balanced(why) ==
    /\ IsFiniteSet(InHand(rec, why))
    /\ counter[why] = written[why] + reported[why] + windows[why].suppressed + Cardinality(InHand(rec, why))
Accounts ==
    /\ \A why \in Reason : Balanced(why)
    /\ \A r \in Req : rec[r].at = "counted" => rec[r].suppressed = 0

LEMMA AccountsStart == Init => Accounts
<1> SUFFICES ASSUME Init PROVE Accounts
  OBVIOUS
<1>1. \A r \in Req : rec[r] = Idle /\ rec[r].at = "idle"
  BY DEF Init, Idle
<1>2. \A why \in Reason : InHand(rec, why) = {}
  BY <1>1 DEF InHand, Held
<1>3. \A why \in Reason : counter[why] = 0 /\ written[why] = 0 /\ reported[why] = 0 /\ windows[why].suppressed = 0
  BY DEF Init, Unseen
<1> QED BY <1>1, <1>2, <1>3, FS_EmptySet DEF Accounts, Balanced

\* A step of one call: it changes the accounts by what it puts down and takes up.
LEMMA AccountsStep ==
    ASSUME TypeOK, TypeOK', Accounts, NEW r \in Req, NEW call \in Records, rec' = [rec EXCEPT ![r] = call],
           call.at = "counted" => call.suppressed = 0,
           \A why \in Reason :
               counter'[why] - counter[why] = (written'[why] - written[why]) + (reported'[why] - reported[why])
                   + (windows'[why].suppressed - windows[why].suppressed) + (Size(call, why) - Size(rec[r], why))
    PROVE  Accounts'
<1>1. rec \in [Req -> Records]
  BY DEF TypeOK, Records
<1>2. ASSUME NEW why \in Reason
      PROVE  Balanced(why)'
  <2>1. IsFiniteSet(InHand(rec, why)) /\ Cardinality(InHand(rec, why)) \in Nat
    BY FS_CardinalityType DEF Accounts, Balanced
  <2>2. /\ IsFiniteSet(InHand(rec', why))
        /\ Cardinality(InHand(rec', why)) = Cardinality(InHand(rec, why)) - Size(rec[r], why) + Size(call, why)
    BY <1>1, <2>1, InHandMoves
  <2>3. /\ counter[why] \in Nat /\ written[why] \in Nat /\ reported[why] \in Nat /\ windows[why].suppressed \in Nat
        /\ counter'[why] \in Nat /\ written'[why] \in Nat /\ reported'[why] \in Nat /\ windows'[why].suppressed \in Nat
    BY DEF TypeOK
  <2>4. Size(rec[r], why) \in Nat /\ Size(call, why) \in Nat
    BY <1>1 DEF Size, Records
  <2>5. counter[why] = written[why] + reported[why] + windows[why].suppressed + Cardinality(InHand(rec, why))
    BY DEF Accounts, Balanced
  <2>6. counter'[why] = written'[why] + reported'[why] + windows'[why].suppressed + Cardinality(InHand(rec', why))
    <3>1. counter'[why] - counter[why] = (written'[why] - written[why]) + (reported'[why] - reported[why])
              + (windows'[why].suppressed - windows[why].suppressed) + (Size(call, why) - Size(rec[r], why))
      OBVIOUS
    <3> DEFINE h == Cardinality(InHand(rec, why))
               k == Cardinality(InHand(rec', why))
    <3>2. h \in Nat /\ k = h - Size(rec[r], why) + Size(call, why)
      BY <2>1, <2>2
    <3>3. counter[why] = written[why] + reported[why] + windows[why].suppressed + h
      BY <2>5
    <3> HIDE DEF h, k
    <3>4. counter'[why] = written'[why] + reported'[why] + windows'[why].suppressed + k
      BY <2>3, <2>4, <3>1, <3>2, <3>3
    <3> QED BY <3>4 DEF k
  <2> QED BY <2>2, <2>6 DEF Balanced
<1>3. \A q \in Req : rec'[q].at = "counted" => rec'[q].suppressed = 0
  BY <1>1 DEF Accounts
<1> QED BY <1>2, <1>3 DEF Accounts

\* No refusal is lost between the counter and the log, for any number of
\* goroutines in record, wherever each of them is.
THEOREM AllAreAccountedFor == Spec => []RefusalsAccounted
<1>1. ASSUME TypeOK, TypeOK', Accounts, [Next]_vars
      PROVE  Accounts'
  <2>0. rec \in [Req -> Records] /\ Idle \in Records /\ Idle.at = "idle"
    BY <1>1, IdleType DEF TypeOK, Records, Idle
  <2>1. ASSUME NEW r \in Req, NEW w \in Reason, Count(r, w)
        PROVE  Accounts'
    <3> DEFINE call == [at |-> "counted", why |-> w, suppressed |-> 0]
    <3>1. call \in Records /\ rec' = [rec EXCEPT ![r] = call] /\ call.suppressed = 0
      BY <2>1 DEF Count, Records
    <3>2. ASSUME NEW why \in Reason
          PROVE  counter'[why] - counter[why] = (written'[why] - written[why]) + (reported'[why] - reported[why])
                   + (windows'[why].suppressed - windows[why].suppressed) + (Size(call, why) - Size(rec[r], why))
      <4>1. /\ counter'[why] = counter[why] + (IF why = w THEN 1 ELSE 0) /\ written' = written
            /\ reported' = reported /\ windows' = windows
        BY <1>1, <2>1 DEF Count, TypeOK
      <4>2. Size(rec[r], why) = 0 /\ Size(call, why) = IF why = w THEN 1 ELSE 0
        BY <2>1 DEF Count, Size
      <4>3. counter[why] \in Nat /\ written[why] \in Nat /\ reported[why] \in Nat /\ windows[why].suppressed \in Nat
        BY <1>1 DEF TypeOK
      <4> QED BY <4>1, <4>2, <4>3
    <3> HIDE DEF call
    <3> QED BY <1>1, <3>1, <3>2, AccountsStep
  <2>2. ASSUME NEW r \in Req, Admit(r)
        PROVE  Accounts'
    <3> DEFINE w == rec[r].why
               n == windows[w].suppressed
               call == [rec[r] EXCEPT !.at = "warn", !.suppressed = n]
    <3>1. /\ rec[r] \in Records /\ w \in Reason /\ n \in Nat /\ rec[r].at = "counted" /\ rec[r].suppressed = 0
      BY <1>1, <2>0, <2>2 DEF Admit, TypeOK, Accounts, Records
    <3>2. /\ call \in Records /\ call.at = "warn" /\ call.why = w /\ call.suppressed = n
      BY <3>1 DEF Records
    <3>3. rec' = [rec EXCEPT ![r] = call]
      BY <2>2 DEF Admit
    <3>4. ASSUME NEW why \in Reason
          PROVE  counter'[why] - counter[why] = (written'[why] - written[why]) + (reported'[why] - reported[why])
                   + (windows'[why].suppressed - windows[why].suppressed) + (Size(call, why) - Size(rec[r], why))
      <4>1. counter' = counter /\ written' = written /\ reported' = reported
        BY <2>2 DEF Admit
      <4>2. windows'[why].suppressed = IF why = w THEN 0 ELSE windows[why].suppressed
        BY <1>1, <2>2 DEF Admit, TypeOK
      <4>3. counter[why] \in Nat /\ written[why] \in Nat /\ reported[why] \in Nat /\ windows[why].suppressed \in Nat
        BY <1>1 DEF TypeOK
      <4>4. Size(rec[r], why) = (IF why = w THEN 1 ELSE 0) /\ Size(call, why) = IF why = w THEN n + 1 ELSE 0
        BY <3>1, <3>2 DEF Size
      <4>5. why = w => windows[why].suppressed = n
        OBVIOUS
      <4> HIDE DEF n, w, call
      <4> QED BY <3>1, <4>1, <4>2, <4>3, <4>4, <4>5
    <3> HIDE DEF call
    <3> QED BY <1>1, <3>2, <3>3, <3>4, AccountsStep
  <2>3. ASSUME NEW r \in Req, Suppress(r)
        PROVE  Accounts'
    <3> DEFINE w == rec[r].why
    <3>1. rec' = [rec EXCEPT ![r] = Idle] /\ rec[r].at = "counted" /\ rec[r].suppressed = 0 /\ w \in Reason
      BY <1>1, <2>3 DEF Suppress, Accounts, TypeOK
    <3>2. ASSUME NEW why \in Reason
          PROVE  counter'[why] - counter[why] = (written'[why] - written[why]) + (reported'[why] - reported[why])
                   + (windows'[why].suppressed - windows[why].suppressed) + (Size(Idle, why) - Size(rec[r], why))
      <4>1. counter' = counter /\ written' = written /\ reported' = reported
        BY <2>3 DEF Suppress
      <4>2. windows'[why].suppressed = windows[why].suppressed + (IF why = w THEN 1 ELSE 0)
        BY <1>1, <2>3 DEF Suppress, TypeOK
      <4>3. counter[why] \in Nat /\ written[why] \in Nat /\ reported[why] \in Nat /\ windows[why].suppressed \in Nat
        BY <1>1 DEF TypeOK
      <4>4. Size(rec[r], why) = (IF why = w THEN 1 ELSE 0) /\ Size(Idle, why) = 0
        BY <2>0, <3>1 DEF Size
      <4> HIDE DEF w
      <4> QED BY <4>1, <4>2, <4>3, <4>4
    <3> QED BY <1>1, <2>0, <3>1, <3>2, AccountsStep
  <2>4. ASSUME NEW r \in Req, Warn(r)
        PROVE  Accounts'
    <3> DEFINE w == rec[r].why
               n == rec[r].suppressed
    <3>1. rec' = [rec EXCEPT ![r] = Idle] /\ rec[r].at = "warn" /\ w \in Reason /\ n \in Nat
      BY <1>1, <2>4 DEF Warn, TypeOK
    <3>2. ASSUME NEW why \in Reason
          PROVE  counter'[why] - counter[why] = (written'[why] - written[why]) + (reported'[why] - reported[why])
                   + (windows'[why].suppressed - windows[why].suppressed) + (Size(Idle, why) - Size(rec[r], why))
      <4>1. counter' = counter /\ windows' = windows
        BY <2>4 DEF Warn
      <4>2. /\ written'[why] = written[why] + (IF why = w THEN 1 ELSE 0)
            /\ reported'[why] = reported[why] + (IF why = w THEN n ELSE 0)
        BY <1>1, <2>4 DEF Warn, TypeOK
      <4>3. counter[why] \in Nat /\ written[why] \in Nat /\ reported[why] \in Nat /\ windows[why].suppressed \in Nat
        BY <1>1 DEF TypeOK
      <4>4. Size(rec[r], why) = (IF why = w THEN n + 1 ELSE 0) /\ Size(Idle, why) = 0
        BY <2>0, <3>1 DEF Size
      <4> HIDE DEF w, n
      <4> QED BY <3>1, <4>1, <4>2, <4>3, <4>4
    <3> QED BY <1>1, <2>0, <3>1, <3>2, AccountsStep
  <2>5. CASE Tick \/ UNCHANGED vars
    <3>1. UNCHANGED <<counter, windows, rec, written, reported>>
      BY <2>5 DEF Tick, vars
    <3>2. \A why : InHand(rec, why)' = InHand(rec, why)
      BY <3>1 DEF InHand, Held
    <3> QED BY <1>1, <3>1, <3>2 DEF Accounts, Balanced
  <2> QED BY <1>1, <2>1, <2>2, <2>3, <2>4, <2>5 DEF Next
<1>2. Accounts => RefusalsAccounted
  BY DEF Accounts, Balanced, RefusalsAccounted
<1> QED BY TypeCorrect, AccountsStart, <1>1, <1>2, PTL DEF Spec

=============================================================================
