---------------------------- MODULE TokenProfile ----------------------------
(***************************************************************************)
(* What a request must present (extension/oidcclientauth: bearer.go,       *)
(* verify.go, authorize.go, authdata.go and Authenticate in extension.go): *)
(* the rules in the order the code applies them, the answer of the first   *)
(* one broken, and the identity an accepted token attaches.  Beside it,    *)
(* the rule table of docs/token-profile.md as the reference.               *)
(*                                                                         *)
(* A JSON string is the sequence of its space-delimited fields, an array   *)
(* the sequence of its string elements, so "" and [] are both <<>>.  What  *)
(* the key set answers for the signature is module Discovery's business:   *)
(* here it is one of its three outcomes.                                   *)
(***************************************************************************)
EXTENDS Integers, Sequences, Rules

CONSTANTS
    Requests,            \* the requests a client may make
    Issuer, Audience,    \* issuer_url, audience
    Algorithms,          \* the alg allowlist
    RequiredScope,
    RequiredClaims,      \* a sequence of claim names
    ClaimAttributes,     \* claim |-> attribute
    ResourceAttributes,  \* attribute |-> value, disjoint from the attributes above
    ClockSkew,
    Int64Max,            \* the width a NumericDate is converted to
    DateLimit,           \* numericDate's clamp
    MaxClock             \* bound on the clock

ASSUME ClampFitsTheWidth ==
    /\ ClockSkew \in Nat /\ DateLimit \in Nat /\ Int64Max \in Nat /\ MaxClock \in Nat
    /\ DateLimit <= Int64Max
    /\ MaxClock + ClockSkew < DateLimit
\* What Validate ensures; two claims may still name one attribute.
ASSUME AttributesDoNotCollide ==
    \A c \in DOMAIN ClaimAttributes : ClaimAttributes[c] \notin DOMAIN ResourceAttributes

NoAlgorithm == ""   \* of a token whose header gives none

JSONTypes == {"absent", "null", "string", "array", "object", "number", "bool"}
NamedClaims == {"iss", "aud", "exp", "nbf", "iat", "scope", "scp"}
                   \cup {RequiredClaims[i] : i \in DOMAIN RequiredClaims} \cup DOMAIN ClaimAttributes

\* A claim has one of JSON's types, or is absent; its fields or elements are v,
\* its number n.
ASSUME RequestsAreTyped ==
    /\ RequiredClaims \in Seq(STRING)
    /\ \A r \in Requests :
        /\ r.values \in Seq([scheme : STRING, token : BOOLEAN])
        /\ r.compact \in BOOLEAN /\ r.object \in BOOLEAN
        /\ \A c \in NamedClaims : r.claims[c].type \in JSONTypes /\ r.claims[c].n \in Int

VARIABLES
    request,   \* what the client sends, again and again
    ready,     \* whether the key set has loaded
    clock,
    answer,    \* the last answer: "ok" or a refusal's text
    identity   \* the attributes the last answer attached, if it was "ok"

vars == <<request, ready, clock, answer, identity>>

-----------------------------------------------------------------------------
(* bearer.go *)

\* Exactly one Authorization value, whichever header spelling carried it, of
\* the Bearer scheme in any case, and a token after it.
BearerToken(values) == Len(values) = 1 /\ values[1].scheme = "bearer" /\ values[1].token

-----------------------------------------------------------------------------
(* verify.go *)

Unclamped(n) == n  \* mutant: converted as it is

\* A float64 clamped, then converted to int64, whose overflow wraps.
Clamp(n) == Max({Min({n, DateLimit}), -DateLimit})
ToInt64(n) == ((n + Int64Max) % (2 * Int64Max + 1)) - Int64Max

Present(v) == v.type # "absent"
NotANumber(v) == Present(v) /\ v.type # "number"
NumericDate(v) == ToInt64(Clamp(v.n))

AudienceContains(aud) ==
    \/ aud.type = "string" /\ aud.v = <<Audience>>
    \/ aud.type = "array" /\ \E i \in DOMAIN aud.v : aud.v[i] = Audience

Expired(c, now) == Present(c.exp) /\ ~(now < NumericDate(c.exp) + ClockSkew)
NotYetReversed(c, now) ==  \* mutant: the comparison turned round
    Present(c.nbf) /\ NumericDate(c.nbf) + ClockSkew < now
NotYetValid(c, now) == Present(c.nbf) /\ now + ClockSkew < NumericDate(c.nbf)
IssuedInFuture(c, now) == Present(c.iat) /\ NumericDate(c.iat) > now + ClockSkew

Registered(c, now) == <<
    Rule(~(c.iss.type = "string" /\ c.iss.v = <<Issuer>>), "wrong_iss"),
    Rule(~AudienceContains(c.aud), "wrong_aud"),
    Rule(NotANumber(c.exp), "malformed"),
    Rule(~Present(c.exp), "missing_exp"),
    Rule(Expired(c, now), "expired"),
    Rule(NotANumber(c.nbf), "malformed"),
    Rule(NotYetValid(c, now), "not_yet_valid"),
    Rule(NotANumber(c.iat), "malformed"),
    Rule(IssuedInFuture(c, now), "issued_in_the_future")>>

\* headerAlgorithm, the allowlist, ParseSignedCompact, VerifySignature,
\* decodeClaims, then the registered claims.
Verify(t, now) == <<
    Rule(t.alg = NoAlgorithm, "malformed"),
    Rule(t.alg \notin Algorithms, "unsupported_alg"),
    Rule(~t.compact, "malformed"),
    Rule(t.key = "unknown_kid", "unknown_kid"),
    Rule(t.key = "bad_signature", "bad_signature"),
    Rule(~t.object, "malformed")>> \o Registered(t.claims, now)

-----------------------------------------------------------------------------
(* authorize.go *)

GrantsScope(c) ==
    \/ c.scope.type = "string" /\ \E i \in DOMAIN c.scope.v : c.scope.v[i] = RequiredScope
    \/ c.scp.type \in {"string", "array"} /\ \E i \in DOMAIN c.scp.v : c.scp.v[i] = RequiredScope

NonEmpty(v) ==
    \/ v.type \in {"string", "array", "object"} /\ v.v # <<>>
    \/ v.type \in {"number", "bool"}

AuthorizeClaimsFirst(c) ==  \* mutant: the scope checked last
    [i \in DOMAIN RequiredClaims |-> Rule(~NonEmpty(c[RequiredClaims[i]]), "missing_claim")]
        \o <<Rule(~GrantsScope(c), "missing_scope")>>
Authorize(c) ==
    <<Rule(~GrantsScope(c), "missing_scope")>>
        \o [i \in DOMAIN RequiredClaims |-> Rule(~NonEmpty(c[RequiredClaims[i]]), "missing_claim")]

-----------------------------------------------------------------------------
(* authdata.go *)

AttestedOfAnyType(c) == {claim \in DOMAIN ClaimAttributes : Present(c[claim])}  \* mutant
Attested(c) == {claim \in DOMAIN ClaimAttributes : c[claim].type = "string" /\ c[claim].v # <<>>}

\* Where several claims are mapped to one attribute, which one is kept is the
\* order of Go's iteration over a map: any.
NewAuthData(c) ==
    LET mapped  == {ClaimAttributes[claim] : claim \in Attested(c)}
        claimOf == {f \in [mapped -> Attested(c)] : \A a \in mapped : ClaimAttributes[f[a]] = a}
    IN  {[a \in mapped \cup DOMAIN ResourceAttributes |->
            IF a \in DOMAIN ResourceAttributes THEN ResourceAttributes[a] ELSE c[f[a]].v] : f \in claimOf}

-----------------------------------------------------------------------------
(* Authenticate. *)

Answer(r, isReady, now) ==
    FirstBroken(<<Rule(~BearerToken(r.values), "no_token"), Rule(~isReady, "not_ready")>>
                \o Verify(r, now) \o Authorize(r.claims), "ok")

Authenticate ==
    /\ answer' = Answer(request, ready, clock)
    /\ identity' \in IF answer' = "ok" THEN NewAuthData(request.claims) ELSE {<<>>}
    /\ UNCHANGED <<request, ready, clock>>

\* The provider's key set is stored, once.
Load ==
    /\ ~ready /\ ready' = TRUE
    /\ UNCHANGED <<request, clock, answer, identity>>

Tick ==
    /\ clock < MaxClock /\ clock' = clock + 1
    /\ UNCHANGED <<request, ready, answer, identity>>

Init ==
    /\ request \in Requests /\ ready = FALSE /\ clock = 0
    /\ answer = "none" /\ identity = <<>>

Next == Authenticate \/ Load \/ Tick

Spec == Init /\ [][Next]_vars

-----------------------------------------------------------------------------
(* The rule table of docs/token-profile.md, rules 1 to 14 in its order; a  *)
(* date is the number the token states.                                    *)

Bad(v) == v.type \notin {"absent", "number"}

NoBearer(values) == ~(Len(values) = 1 /\ values[1] = [scheme |-> "bearer", token |-> TRUE])
WrongAudience(aud) == ~(\/ aud.type = "string" /\ aud.v = <<Audience>>
                        \/ aud.type = "array" /\ Audience \in {aud.v[i] : i \in DOMAIN aud.v})
NoScope(c) ==
    \A k \in {"scope", "scp"} :
        \/ RequiredScope \notin {c[k].v[i] : i \in DOMAIN c[k].v}
        \/ c[k].type \notin {"string"} \cup (IF k = "scp" THEN {"array"} ELSE {})
Empty(v) == v.type \in {"absent", "null"} \/ (v.type \in {"string", "array", "object"} /\ v.v = <<>>)

Profile(r, now) ==
    LET c == r.claims
    IN  <<Rule(NoBearer(r.values), "no_token"),
          Rule(r.alg = NoAlgorithm \/ ~r.compact, "malformed"),
          Rule(r.alg \notin Algorithms, "unsupported_alg"),
          Rule(r.key = "unknown_kid", "unknown_kid"),
          Rule(r.key = "bad_signature", "bad_signature"),
          Rule(~r.object \/ Bad(c.exp) \/ Bad(c.nbf) \/ Bad(c.iat), "malformed"),
          Rule(c.iss.type # "string" \/ c.iss.v # <<Issuer>>, "wrong_iss"),
          Rule(WrongAudience(c.aud), "wrong_aud"),
          Rule(c.exp.type = "absent", "missing_exp"),
          Rule(c.exp.type = "number" /\ now >= c.exp.n + ClockSkew, "expired"),
          Rule(c.nbf.type = "number" /\ now + ClockSkew < c.nbf.n, "not_yet_valid"),
          Rule(c.iat.type = "number" /\ c.iat.n > now + ClockSkew, "issued_in_the_future"),
          Rule(NoScope(c), "missing_scope"),
          Rule(\E i \in DOMAIN RequiredClaims : Empty(c[RequiredClaims[i]]), "missing_claim")>>

\* The rules of the table but those of well-formedness, 2 and 6.
Apart(rules) == [i \in DOMAIN rules |-> Rule(rules[i].broken /\ i \notin {2, 6}, rules[i].says)]

-----------------------------------------------------------------------------
(* Properties. *)

\* The code enforces exactly the documented rules: it accepts a token that
\* breaks none and no other, at every boundary of the clock and its skew and
\* for dates beyond any int64.
AcceptsByTheProfile ==
    [][Authenticate /\ ready =>
          (answer' = "ok" <=> FirstBroken(Profile(request, clock), "ok") = "ok")]_vars

\* A refusal names the first documented rule broken; save that where that rule
\* is one of well-formedness the code may name the first
\* broken one of the others: it reads alg before the segments after it, and a
\* date only when its turn comes among the registered claims.
RefusesByTheProfile ==
    [][Authenticate /\ ready =>
          LET rules == Profile(request, clock)
              says  == FirstBroken(rules, "ok")
          IN  answer' = says \/ (says = "malformed" /\ answer' = FirstBroken(Apart(rules), "ok"))]_vars

\* Time ends an accepted token in one way: its first refusal after that is
\* "expired", and it is never accepted again.
OnlyExpiryEndsAToken ==
    [][/\ answer = "ok" /\ answer' # "ok" => answer' = "expired"
       /\ answer = "expired" => answer' # "ok"]_vars

\* The deployment's static attributes reach every accepted request as stated,
\* whatever the token claims; every mapped claim that is a string is attached,
\* and no other attribute comes but from such a claim: of one the token must
\* have, a number or an object passes authorize and attests nothing.
IdentityIsAttested ==
    answer = "ok" =>
        /\ \A a \in DOMAIN ResourceAttributes : a \in DOMAIN identity /\ identity[a] = ResourceAttributes[a]
        /\ \A c \in DOMAIN ClaimAttributes :
              request.claims[c].type = "string" /\ request.claims[c].v # <<>> => ClaimAttributes[c] \in DOMAIN identity
        /\ \A a \in DOMAIN identity \ DOMAIN ResourceAttributes :
              \E c \in DOMAIN ClaimAttributes :
                 ClaimAttributes[c] = a /\ request.claims[c].type = "string" /\ identity[a] = request.claims[c].v

=============================================================================
