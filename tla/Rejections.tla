----------------------------- MODULE Rejections -----------------------------
(***************************************************************************)
(* The authenticator's refusals (extension/oidcclientauth/telemetry.go):   *)
(* record counts a refusal under its reason, asks admit whether its reason *)
(* may warn now, and writes the warning.  Only admit runs under the mutex: *)
(* the counter is incremented before it and the warning written after it,  *)
(* so refusals of concurrent requests interleave between the three.        *)
(***************************************************************************)
EXTENDS Integers, FiniteSets

CONSTANTS
    Req,          \* the goroutines that refuse requests, one at a time each
    Reason,       \* the closed set of reasons
    Interval,     \* rejection_log_interval
    MaxRefusals,  \* bound on the refusals of one reason
    MaxClock      \* bound on the clock

ASSUME ParametersAreSane ==
    /\ Reason # {}
    /\ Interval \in Nat \ {0}
    /\ MaxRefusals \in Nat
    /\ MaxClock \in Nat

VARIABLES
    clock,
    counter,   \* the rejection counter, by reason
    windows,   \* by reason: seen yet, when it last warned, refusals unlogged since
    rec,       \* each goroutine's call of record: where it is, reason, suppressed
    \* The log, by reason: warnings written and the suppressed refusals they
    \* report; and, as history, how many warnings admit has let through.
    written, reported, admitted

vars == <<clock, counter, windows, rec, written, reported, admitted>>

Unseen == [seen |-> FALSE, logged |-> 0, suppressed |-> 0]
Idle == [at |-> "idle", why |-> CHOOSE w \in Reason : TRUE, suppressed |-> 0]

\* record, its first statement: counter.Add.
Count(r, why) ==
    /\ rec[r].at = "idle" /\ counter[why] < MaxRefusals
    /\ counter' = [counter EXCEPT ![why] = @ + 1]
    /\ rec' = [rec EXCEPT ![r] = [at |-> "counted", why |-> why, suppressed |-> 0]]
    /\ UNCHANGED <<clock, windows, written, reported, admitted>>

DueEarly(w) == ~w.seen \/ clock - w.logged >= Interval - 1  \* mutant: off by one

\* admit, all of it under the mutex.
Due(w) == ~w.seen \/ clock - w.logged >= Interval

AdmitUncleared(r) ==  \* mutant: suppressed not reset
    LET why == rec[r].why
        w   == windows[why]
    IN  /\ rec[r].at = "counted" /\ Due(w)
        /\ windows' = [windows EXCEPT ![why].seen = TRUE, ![why].logged = clock]
        /\ admitted' = [admitted EXCEPT ![why] = @ + 1]
        /\ rec' = [rec EXCEPT ![r].at = "warn", ![r].suppressed = w.suppressed]
        /\ UNCHANGED <<clock, counter, written, reported>>

Admit(r) ==
    LET why == rec[r].why
        w   == windows[why]
    IN  /\ rec[r].at = "counted" /\ Due(w)
        /\ windows' = [windows EXCEPT ![why] = [seen |-> TRUE, logged |-> clock, suppressed |-> 0]]
        /\ admitted' = [admitted EXCEPT ![why] = @ + 1]
        /\ rec' = [rec EXCEPT ![r].at = "warn", ![r].suppressed = w.suppressed]
        /\ UNCHANGED <<clock, counter, written, reported>>

SuppressDown(r) ==  \* mutant: the count goes down
    LET why == rec[r].why
    IN  /\ rec[r].at = "counted" /\ ~Due(windows[why])
        /\ windows' = [windows EXCEPT ![why].suppressed = @ - 1]
        /\ rec' = [rec EXCEPT ![r] = Idle]
        /\ UNCHANGED <<clock, counter, written, reported, admitted>>

Suppress(r) ==
    LET why == rec[r].why
    IN  /\ rec[r].at = "counted" /\ ~Due(windows[why])
        /\ windows' = [windows EXCEPT ![why].suppressed = @ + 1]
        /\ rec' = [rec EXCEPT ![r] = Idle]
        /\ UNCHANGED <<clock, counter, written, reported, admitted>>

\* logger.Warn, with the number admit returned.
Warn(r) ==
    LET why == rec[r].why
    IN  /\ rec[r].at = "warn"
        /\ written' = [written EXCEPT ![why] = @ + 1]
        /\ reported' = [reported EXCEPT ![why] = @ + rec[r].suppressed]
        /\ rec' = [rec EXCEPT ![r] = Idle]
        /\ UNCHANGED <<clock, counter, windows, admitted>>

Tick ==
    /\ clock < MaxClock /\ clock' = clock + 1
    /\ UNCHANGED <<counter, windows, rec, written, reported, admitted>>

Init ==
    /\ clock = 0
    /\ counter = [why \in Reason |-> 0]
    /\ windows = [why \in Reason |-> Unseen]
    /\ rec = [r \in Req |-> Idle]
    /\ written = [why \in Reason |-> 0]
    /\ reported = [why \in Reason |-> 0]
    /\ admitted = [why \in Reason |-> 0]

Next ==
    \/ \E r \in Req, why \in Reason : Count(r, why)
    \/ \E r \in Req : Admit(r) \/ Suppress(r) \/ Warn(r)
    \/ Tick

Spec == Init /\ [][Next]_vars

-----------------------------------------------------------------------------
(* Properties. *)

TypeOK ==
    /\ clock \in Nat
    /\ counter \in [Reason -> Nat]
    /\ windows \in [Reason -> [seen : BOOLEAN, logged : Nat, suppressed : Nat]]
    /\ rec \in [Req -> [at : {"idle", "counted", "warn"}, why : Reason, suppressed : Nat]]
    /\ written \in [Reason -> Nat] /\ reported \in [Reason -> Nat] /\ admitted \in [Reason -> Nat]

\* The refusals for reason why that a call of record answers for: its own, and
\* those its warning is to report.
Held(call, r, why) == IF call.at # "idle" /\ call.why = why THEN {r} \X (0..call.suppressed) ELSE {}
InHand(calls, why) == UNION {Held(calls[r], r, why) : r \in Req}

\* No refusal is lost between the counter and the log: each one counted was
\* written, is reported by a later warning's suppressed, waits in its window
\* to be, or is in the hands of a goroutine that has not finished record.
RefusalsAccounted ==
    \A why \in Reason :
        counter[why] = written[why] + reported[why] + windows[why].suppressed + Cardinality(InHand(rec, why))

\* A client that hammers one mistake cannot flood the log: up to any moment a
\* reason has been let warn once, and once more per interval passed.
WarningsBounded ==
    \A why \in Reason : (admitted[why] - 1) * Interval <= clock

=============================================================================
