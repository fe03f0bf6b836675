-------------------------- MODULE TokenProfileProofs --------------------------
(***************************************************************************)
(* The token rules against their documented table, for any requests,       *)
(* configuration and clock skew.                                           *)
(***************************************************************************)
EXTENDS TokenProfile, WellFoundedInduction, TLAPS

-----------------------------------------------------------------------------
(* The first rule broken. *)

\* Some rule is broken before all others that are.
LEMMA LeastBroken ==
    ASSUME NEW S, S \subseteq Nat, S # {}
    PROVE  \E i \in S : \A j \in S : i <= j
  <1> DEFINE R == OpToRel(<, Nat)
  <1>1. PICK i \in S : \A j \in S : ~(<<j, i>> \in R)
    <2>1. IsWellFoundedOn(R, Nat)
      BY NatLessThanWellFounded
    <2> HIDE DEF R
    <2> QED BY <2>1, WFMin, Zenon
  <1>2. \A j \in S : <<j, i>> \in Nat \X Nat /\ (j < i => <<j, i>> \in R)
    BY DEF OpToRel
  <1> HIDE DEF R
  <1>3. \A j \in S : i \in Nat /\ j \in Nat /\ ~(j < i)
    BY <1>1, <1>2
  <1> QED BY <1>3

\* Either a rule is the first one broken and gives the answer, or none is.
LEMMA SomeFirstOrNone ==
    ASSUME NEW rules, NEW otherwise, NEW n \in Nat, DOMAIN rules = 1..n
    PROVE  \/ \E i \in 1..n : /\ rules[i].broken /\ \A j \in 1..(i - 1) : ~rules[j].broken
                             /\ FirstBroken(rules, otherwise) = rules[i].says
           \/ /\ \A i \in 1..n : ~rules[i].broken
              /\ FirstBroken(rules, otherwise) = otherwise
  <1> DEFINE S == Broken(rules)
  <1>1. CASE S = {}
    BY <1>1, NoneBroken DEF Broken
  <1>2. CASE S # {}
    <2>1. S \subseteq 1..n /\ \A i \in 1..n : i \in S <=> rules[i].broken
      BY DEF Broken
    <2>2. PICK i \in S : \A j \in S : i <= j
      <3> HIDE DEF S
      <3>1. S \subseteq Nat
        BY <2>1
      <3> QED BY <1>2, <3>1, LeastBroken, Zenon
    <2>3. rules[i].broken /\ \A j \in DOMAIN rules : j < i => ~rules[j].broken
      <3> HIDE DEF S
      <3> QED BY <2>1, <2>2
    <2>4. FirstBroken(rules, otherwise) = rules[i].says
      <3>1. i \in DOMAIN rules /\ DOMAIN rules \subseteq Int
        <4> HIDE DEF S
        <4> QED BY <2>1, <2>2
      <3> HIDE DEF S
      <3> QED BY <2>3, <3>1, BrokenFirst
    <2> HIDE DEF S
    <2> QED BY <2>1, <2>2, <2>3, <2>4
  <1> QED BY <1>1, <1>2

\* Rules after rules: the later ones answer where no earlier one is broken.
LEMMA RulesAfterRules ==
    ASSUME NEW R, NEW s \in Seq(R), NEW t \in Seq(R), NEW otherwise
    PROVE  FirstBroken(s \o t, otherwise) = FirstBroken(s, FirstBroken(t, otherwise))
  <1> DEFINE st == s \o t
             m  == Len(s)
             n  == Len(t)
             o  == FirstBroken(t, otherwise)
  <1>1. /\ m \in Nat /\ n \in Nat /\ DOMAIN s = 1..m /\ DOMAIN t = 1..n
        /\ DOMAIN st = 1..(m + n)
        /\ \A i \in 1..m : st[i] = s[i]
        /\ \A i \in 1..n : st[m + i] = t[i]
    OBVIOUS
  <1> HIDE DEF st, m, n
  <1>2. \/ \E i \in 1..m : /\ s[i].broken /\ \A j \in 1..(i - 1) : ~s[j].broken
                         /\ FirstBroken(s, o) = s[i].says
        \/ /\ \A i \in 1..m : ~s[i].broken
           /\ FirstBroken(s, o) = o
    <2> HIDE DEF o
    <2> QED BY <1>1, SomeFirstOrNone
  <1>3. \/ \E i \in 1..n : /\ t[i].broken /\ \A j \in 1..(i - 1) : ~t[j].broken
                         /\ o = t[i].says
        \/ /\ \A i \in 1..n : ~t[i].broken
           /\ o = otherwise
    BY <1>1, SomeFirstOrNone
  <1> HIDE DEF o
  <1>4. ASSUME NEW i \in 1..m, s[i].broken, \A j \in 1..(i - 1) : ~s[j].broken
        PROVE  FirstBroken(st, otherwise) = s[i].says
    <2>1. i \in DOMAIN st /\ DOMAIN st \subseteq Int /\ st[i].broken
      BY <1>1, <1>4
    <2>2. \A j \in DOMAIN st : j < i => ~st[j].broken
      BY <1>1, <1>4
    <2> QED BY <1>1, <2>1, <2>2, BrokenFirst
  <1>5. ASSUME \A i \in 1..m : ~s[i].broken, NEW k \in 1..n, t[k].broken, \A j \in 1..(k - 1) : ~t[j].broken
        PROVE  FirstBroken(st, otherwise) = t[k].says
    <2>1. m + k \in DOMAIN st /\ DOMAIN st \subseteq Int /\ st[m + k].broken /\ st[m + k].says = t[k].says
      BY <1>1, <1>5
    <2>2. \A j \in DOMAIN st : j < m + k => ~st[j].broken
      <3> SUFFICES ASSUME NEW j \in DOMAIN st, j < m + k PROVE ~st[j].broken
        OBVIOUS
      <3>1. CASE j \in 1..m
        BY <1>1, <1>5, <3>1
      <3>2. CASE j \notin 1..m
        <4>1. j - m \in 1..n /\ j - m \in 1..(k - 1) /\ m + (j - m) = j
          BY <1>1, <3>2
        <4> QED BY <1>1, <1>5, <4>1
      <3> QED BY <3>1, <3>2
    <2> QED BY <2>1, <2>2, BrokenFirst
  <1>6. ASSUME \A i \in 1..m : ~s[i].broken, \A i \in 1..n : ~t[i].broken
        PROVE  FirstBroken(st, otherwise) = otherwise
    <2>1. \A j \in DOMAIN st : ~st[j].broken
      <3> SUFFICES ASSUME NEW j \in DOMAIN st PROVE ~st[j].broken
        OBVIOUS
      <3>1. CASE j \in 1..m
        BY <1>1, <1>6, <3>1
      <3>2. CASE j \notin 1..m
        <4>1. j - m \in 1..n /\ m + (j - m) = j
          BY <1>1, <3>2
        <4> QED BY <1>1, <1>6, <4>1
      <3> QED BY <3>1, <3>2
    <2> QED BY <2>1, NoneBroken
  <1>7. FirstBroken(st, otherwise) = FirstBroken(s, o)
    BY <1>2, <1>3, <1>4, <1>5, <1>6
  <1> QED BY <1>7 DEF st, o

-----------------------------------------------------------------------------
(* Dates. *)

LEMMA ClampBounds ==
    ASSUME NEW n \in Int
    PROVE  Clamp(n) = IF n > DateLimit THEN DateLimit ELSE IF n < -DateLimit THEN -DateLimit ELSE n
  <1>1. DateLimit \in Nat
    BY ClampFitsTheWidth
  <1>2. \A a, b \in Int : Min({a, b}) = IF a <= b THEN a ELSE b
    BY DEF Min
  <1>3. \A a, b \in Int : Max({a, b}) = IF a <= b THEN b ELSE a
    BY DEF Max
  <1> QED BY <1>1, <1>2, <1>3 DEF Clamp

\* numericDate's conversion never overflows, its argument being clamped.
LEMMA ConvertedAsItIs ==
    ASSUME NEW n \in Int, -Int64Max <= n, n <= Int64Max
    PROVE  ToInt64(n) = n
  <1>1. Int64Max \in Nat
    BY ClampFitsTheWidth
  <1>2. \A a, m \in Nat : a < m => a % m = a
    OBVIOUS
  <1>3. n + Int64Max \in Nat /\ 2 * Int64Max + 1 \in Nat /\ n + Int64Max < 2 * Int64Max + 1
    BY <1>1
  <1>4. (n + Int64Max) % (2 * Int64Max + 1) = n + Int64Max
    BY <1>2, <1>3
  <1> QED BY <1>1, <1>4 DEF ToInt64

\* A date decides as the number the token states does, at any time.
LEMMA DatesDecideAsStated ==
    ASSUME NEW v, v.n \in Int, NEW now \in 0..MaxClock
    PROVE  /\ NumericDate(v) \in Int
           /\ now < NumericDate(v) + ClockSkew <=> now < v.n + ClockSkew
           /\ now + ClockSkew < NumericDate(v) <=> now + ClockSkew < v.n
           /\ NumericDate(v) > now + ClockSkew <=> v.n > now + ClockSkew
  <1>1. /\ ClockSkew \in Nat /\ DateLimit \in Nat /\ Int64Max \in Nat /\ MaxClock \in Nat
        /\ DateLimit <= Int64Max /\ MaxClock + ClockSkew < DateLimit
    BY ClampFitsTheWidth
  <1>2. Clamp(v.n) = IF v.n > DateLimit THEN DateLimit ELSE IF v.n < -DateLimit THEN -DateLimit ELSE v.n
    BY ClampBounds
  <1>3. Clamp(v.n) \in Int /\ -Int64Max <= Clamp(v.n) /\ Clamp(v.n) <= Int64Max
    BY <1>1, <1>2
  <1>4. NumericDate(v) = Clamp(v.n)
    BY <1>3, ConvertedAsItIs DEF NumericDate
  <1> QED BY <1>1, <1>2, <1>4

-----------------------------------------------------------------------------
(* The code's rules, as the cascade of early returns they are. *)

Texts == {"no_token", "not_ready", "malformed", "unsupported_alg", "unknown_kid", "bad_signature", "wrong_iss",
          "wrong_aud", "missing_exp", "expired", "not_yet_valid", "issued_in_the_future", "missing_scope",
          "missing_claim"}
RuleSet == [broken : BOOLEAN, says : Texts]

\* The answer of so many rules, one rule at a time.
LEMMA OneRule ==
    ASSUME NEW r1, NEW o
    PROVE  FirstBroken(<<r1>>, o) = IF r1.broken THEN r1.says ELSE o
  <1> DEFINE s == <<r1>>
  <1>1. DOMAIN s = {1} /\ s[1] = r1
    OBVIOUS
  <1> HIDE DEF s
  <1>2. ~s[1].broken => FirstBroken(s, o) = o
    BY <1>1, NoneBroken
  <1>3. s[1].broken => FirstBroken(s, o) = s[1].says
    BY <1>1, BrokenFirst
  <1> QED BY <1>1, <1>2, <1>3 DEF s

LEMMA TwoRules ==
    ASSUME NEW r1, NEW r2, NEW o
    PROVE  FirstBroken(<<r1, r2>>, o) =
              IF r1.broken THEN r1.says ELSE IF r2.broken THEN r2.says ELSE o
  <1> DEFINE s == <<r1, r2>>
  <1>1. DOMAIN s = 1..2
    OBVIOUS
  <1>2. s[1] = r1 /\ s[2] = r2
    OBVIOUS
  <1> HIDE DEF s
  <1>3. \A n \in Nat : DOMAIN s = 1..n =>
          \/ \E i \in 1..n : /\ s[i].broken /\ \A j \in 1..(i - 1) : ~s[j].broken
                            /\ FirstBroken(s, o) = s[i].says
          \/ (\A i \in 1..n : ~s[i].broken) /\ FirstBroken(s, o) = o
    BY SomeFirstOrNone, Zenon
  <1>4. \/ \E i \in 1..2 : /\ s[i].broken /\ \A j \in 1..(i - 1) : ~s[j].broken
                          /\ FirstBroken(s, o) = s[i].says
        \/ (\A i \in 1..2 : ~s[i].broken) /\ FirstBroken(s, o) = o
    BY <1>1, <1>3
  <1>5. FirstBroken(s, o) =
          IF s[1].broken THEN s[1].says ELSE IF s[2].broken THEN s[2].says ELSE o
    BY <1>4
  <1> QED BY <1>2, <1>5 DEF s

LEMMA SixRules ==
    ASSUME NEW r1, NEW r2, NEW r3, NEW r4, NEW r5, NEW r6, NEW o
    PROVE  FirstBroken(<<r1, r2, r3, r4, r5, r6>>, o) =
              IF r1.broken THEN r1.says ELSE IF r2.broken THEN r2.says ELSE IF r3.broken THEN r3.says ELSE
              IF r4.broken THEN r4.says ELSE IF r5.broken THEN r5.says ELSE IF r6.broken THEN r6.says ELSE o
  <1> DEFINE s == <<r1, r2, r3, r4, r5, r6>>
  <1>1. DOMAIN s = 1..6
    OBVIOUS
  <1>2. s[1] = r1 /\ s[2] = r2 /\ s[3] = r3 /\ s[4] = r4 /\ s[5] = r5 /\ s[6] = r6
    OBVIOUS
  <1> HIDE DEF s
  <1>3. \A n \in Nat : DOMAIN s = 1..n =>
          \/ \E i \in 1..n : /\ s[i].broken /\ \A j \in 1..(i - 1) : ~s[j].broken
                            /\ FirstBroken(s, o) = s[i].says
          \/ (\A i \in 1..n : ~s[i].broken) /\ FirstBroken(s, o) = o
    BY SomeFirstOrNone, Zenon
  <1>4. \/ \E i \in 1..6 : /\ s[i].broken /\ \A j \in 1..(i - 1) : ~s[j].broken
                          /\ FirstBroken(s, o) = s[i].says
        \/ (\A i \in 1..6 : ~s[i].broken) /\ FirstBroken(s, o) = o
    BY <1>1, <1>3
  <1>5. FirstBroken(s, o) =
          IF s[1].broken THEN s[1].says ELSE IF s[2].broken THEN s[2].says ELSE IF s[3].broken THEN s[3].says ELSE
          IF s[4].broken THEN s[4].says ELSE IF s[5].broken THEN s[5].says ELSE IF s[6].broken THEN s[6].says ELSE o
    BY <1>4
  <1> QED BY <1>2, <1>5 DEF s

LEMMA NineRules ==
    ASSUME NEW r1, NEW r2, NEW r3, NEW r4, NEW r5, NEW r6, NEW r7, NEW r8, NEW r9, NEW o
    PROVE  FirstBroken(<<r1, r2, r3, r4, r5, r6, r7, r8, r9>>, o) =
              IF r1.broken THEN r1.says ELSE IF r2.broken THEN r2.says ELSE IF r3.broken THEN r3.says ELSE
              IF r4.broken THEN r4.says ELSE IF r5.broken THEN r5.says ELSE IF r6.broken THEN r6.says ELSE
              IF r7.broken THEN r7.says ELSE IF r8.broken THEN r8.says ELSE IF r9.broken THEN r9.says ELSE o
  <1> DEFINE s == <<r1, r2, r3, r4, r5, r6, r7, r8, r9>>
  <1>1. DOMAIN s = 1..9
    OBVIOUS
  <1>2. s[1] = r1 /\ s[2] = r2 /\ s[3] = r3 /\ s[4] = r4 /\ s[5] = r5 /\ s[6] = r6 /\ s[7] = r7 /\
           s[8] = r8 /\ s[9] = r9
    OBVIOUS
  <1> HIDE DEF s
  <1>3. \A n \in Nat : DOMAIN s = 1..n =>
          \/ \E i \in 1..n : /\ s[i].broken /\ \A j \in 1..(i - 1) : ~s[j].broken
                            /\ FirstBroken(s, o) = s[i].says
          \/ (\A i \in 1..n : ~s[i].broken) /\ FirstBroken(s, o) = o
    BY SomeFirstOrNone, Zenon
  <1>4. \/ \E i \in 1..9 : /\ s[i].broken /\ \A j \in 1..(i - 1) : ~s[j].broken
                          /\ FirstBroken(s, o) = s[i].says
        \/ (\A i \in 1..9 : ~s[i].broken) /\ FirstBroken(s, o) = o
    BY <1>1, <1>3
  <1>5. FirstBroken(s, o) =
          IF s[1].broken THEN s[1].says ELSE IF s[2].broken THEN s[2].says ELSE IF s[3].broken THEN s[3].says ELSE
          IF s[4].broken THEN s[4].says ELSE IF s[5].broken THEN s[5].says ELSE IF s[6].broken THEN s[6].says ELSE
          IF s[7].broken THEN s[7].says ELSE IF s[8].broken THEN s[8].says ELSE IF s[9].broken THEN s[9].says ELSE o
    BY <1>4
  <1> QED BY <1>2, <1>5 DEF s

LEMMA FourteenRules ==
    ASSUME NEW s, DOMAIN s = 1..14, NEW o
    PROVE  FirstBroken(s, o) =
              IF s[1].broken THEN s[1].says ELSE IF s[2].broken THEN s[2].says ELSE IF s[3].broken THEN s[3].says ELSE
              IF s[4].broken THEN s[4].says ELSE IF s[5].broken THEN s[5].says ELSE IF s[6].broken THEN s[6].says ELSE
              IF s[7].broken THEN s[7].says ELSE IF s[8].broken THEN s[8].says ELSE IF s[9].broken THEN s[9].says ELSE
              IF s[10].broken THEN s[10].says ELSE IF s[11].broken THEN s[11].says ELSE IF s[12].broken THEN s[12].says ELSE
              IF s[13].broken THEN s[13].says ELSE IF s[14].broken THEN s[14].says ELSE o
  <1>1. \A n \in Nat : DOMAIN s = 1..n =>
          \/ \E i \in 1..n : /\ s[i].broken /\ \A j \in 1..(i - 1) : ~s[j].broken
                            /\ FirstBroken(s, o) = s[i].says
          \/ (\A i \in 1..n : ~s[i].broken) /\ FirstBroken(s, o) = o
    BY SomeFirstOrNone, Zenon
  <1>2. \/ \E i \in 1..14 : /\ s[i].broken /\ \A j \in 1..(i - 1) : ~s[j].broken
                          /\ FirstBroken(s, o) = s[i].says
        \/ (\A i \in 1..14 : ~s[i].broken) /\ FirstBroken(s, o) = o
    BY <1>1
  <1> QED BY <1>2

\* The rules of each check are rules; nothing else is asked of them here.
LEMMA RulesAreRules ==
    ASSUME NEW r \in Requests, NEW now, NEW isReady \in BOOLEAN
    PROVE  /\ <<Rule(~BearerToken(r.values), "no_token"), Rule(~isReady, "not_ready")>> \in Seq(RuleSet)
           /\ <<Rule(r.alg = NoAlgorithm, "malformed"), Rule(r.alg \notin Algorithms, "unsupported_alg"),
                Rule(~r.compact, "malformed"), Rule(r.key = "unknown_kid", "unknown_kid"),
                Rule(r.key = "bad_signature", "bad_signature"), Rule(~r.object, "malformed")>> \in Seq(RuleSet)
           /\ Registered(r.claims, now) \in Seq(RuleSet)
           /\ <<Rule(~GrantsScope(r.claims), "missing_scope")>> \in Seq(RuleSet)
           /\ [i \in DOMAIN RequiredClaims |-> Rule(~NonEmpty(r.claims[RequiredClaims[i]]), "missing_claim")]
                 \in Seq(RuleSet)
  <1> DEFINE c == r.claims
  <1>1. Rule(~BearerToken(r.values), "no_token") \in RuleSet /\ Rule(~isReady, "not_ready") \in RuleSet
    BY DEF Rule, RuleSet, Texts
  <1>2. /\ Rule(r.alg = NoAlgorithm, "malformed") \in RuleSet /\ Rule(r.alg \notin Algorithms, "unsupported_alg") \in RuleSet
        /\ Rule(~r.compact, "malformed") \in RuleSet /\ Rule(r.key = "unknown_kid", "unknown_kid") \in RuleSet
        /\ Rule(r.key = "bad_signature", "bad_signature") \in RuleSet /\ Rule(~r.object, "malformed") \in RuleSet
    BY DEF Rule, RuleSet, Texts
  <1>3. /\ Rule(~(c.iss.type = "string" /\ c.iss.v = <<Issuer>>), "wrong_iss") \in RuleSet
        /\ Rule(~AudienceContains(c.aud), "wrong_aud") \in RuleSet /\ Rule(~Present(c.exp), "missing_exp") \in RuleSet
        /\ Rule(NotANumber(c.exp), "malformed") \in RuleSet /\ Rule(NotANumber(c.nbf), "malformed") \in RuleSet
        /\ Rule(NotANumber(c.iat), "malformed") \in RuleSet
    BY DEF Rule, RuleSet, Texts, NotANumber
  <1>4. /\ Rule(Expired(c, now), "expired") \in RuleSet
        /\ Rule(NotYetValid(c, now), "not_yet_valid") \in RuleSet
        /\ Rule(IssuedInFuture(c, now), "issued_in_the_future") \in RuleSet
    BY DEF Rule, RuleSet, Texts, Expired, NotYetValid, IssuedInFuture
  <1>5. /\ Rule(~GrantsScope(c), "missing_scope") \in RuleSet
        /\ \A i \in DOMAIN RequiredClaims : Rule(~NonEmpty(c[RequiredClaims[i]]), "missing_claim") \in RuleSet
    BY DEF Rule, RuleSet, Texts
  <1>6. <<Rule(~BearerToken(r.values), "no_token"), Rule(~isReady, "not_ready")>> \in Seq(RuleSet)
    BY <1>1
  <1>7. <<Rule(r.alg = NoAlgorithm, "malformed"), Rule(r.alg \notin Algorithms, "unsupported_alg"),
          Rule(~r.compact, "malformed"), Rule(r.key = "unknown_kid", "unknown_kid"),
          Rule(r.key = "bad_signature", "bad_signature"), Rule(~r.object, "malformed")>> \in Seq(RuleSet)
    BY <1>2
  <1>8. Registered(c, now) \in Seq(RuleSet)
    BY <1>3, <1>4 DEF Registered
  <1>9. <<Rule(~GrantsScope(c), "missing_scope")>> \in Seq(RuleSet)
    BY <1>5
  <1>10. [i \in DOMAIN RequiredClaims |-> Rule(~NonEmpty(c[RequiredClaims[i]]), "missing_claim")] \in Seq(RuleSet)
    <2>1. DOMAIN RequiredClaims = 1..Len(RequiredClaims) /\ Len(RequiredClaims) \in Nat
      BY RequestsAreTyped
    <2> QED BY <2>1, <1>5
  <1> QED BY <1>6, <1>7, <1>8, <1>9, <1>10

\* The claims that must be there, in whichever order.
Lacks(c) == \E i \in DOMAIN RequiredClaims : ~NonEmpty(c[RequiredClaims[i]])

\* What the code answers, return by return: before the claims, then theirs.
ClaimsAnswer(c, now) ==
    IF ~(c.iss.type = "string" /\ c.iss.v = <<Issuer>>) THEN "wrong_iss"
    ELSE IF ~AudienceContains(c.aud) THEN "wrong_aud"
    ELSE IF NotANumber(c.exp) THEN "malformed"
    ELSE IF ~Present(c.exp) THEN "missing_exp"
    ELSE IF Expired(c, now) THEN "expired"
    ELSE IF NotANumber(c.nbf) THEN "malformed"
    ELSE IF NotYetValid(c, now) THEN "not_yet_valid"
    ELSE IF NotANumber(c.iat) THEN "malformed"
    ELSE IF IssuedInFuture(c, now) THEN "issued_in_the_future"
    ELSE IF ~GrantsScope(c) THEN "missing_scope"
    ELSE IF Lacks(c) THEN "missing_claim" ELSE "ok"

CodeAnswer(r, isReady, now) ==
    IF ~BearerToken(r.values) THEN "no_token"
    ELSE IF ~isReady THEN "not_ready"
    ELSE IF r.alg = NoAlgorithm THEN "malformed"
    ELSE IF r.alg \notin Algorithms THEN "unsupported_alg"
    ELSE IF ~r.compact THEN "malformed"
    ELSE IF r.key = "unknown_kid" THEN "unknown_kid"
    ELSE IF r.key = "bad_signature" THEN "bad_signature"
    ELSE IF ~r.object THEN "malformed"
    ELSE ClaimsAnswer(r.claims, now)

LEMMA RequiredCascade ==
    ASSUME NEW c
    PROVE  FirstBroken([i \in DOMAIN RequiredClaims |-> Rule(~NonEmpty(c[RequiredClaims[i]]), "missing_claim")], "ok")
              = IF Lacks(c) THEN "missing_claim" ELSE "ok"
  <1> DEFINE s == [i \in DOMAIN RequiredClaims |-> Rule(~NonEmpty(c[RequiredClaims[i]]), "missing_claim")]
             n == Len(RequiredClaims)
  <1>1. n \in Nat /\ DOMAIN s = 1..n /\ DOMAIN RequiredClaims = 1..n
    BY RequestsAreTyped
  <1>2. \A i \in 1..n : s[i].says = "missing_claim" /\ (s[i].broken <=> ~NonEmpty(c[RequiredClaims[i]]))
    BY <1>1 DEF Rule
  <1>3. Lacks(c) <=> \E i \in 1..n : s[i].broken
    BY <1>1, <1>2 DEF Lacks
  <1> HIDE DEF s, n
  <1>4. \/ \E i \in 1..n : /\ s[i].broken /\ \A j \in 1..(i - 1) : ~s[j].broken
                         /\ FirstBroken(s, "ok") = s[i].says
        \/ (\A i \in 1..n : ~s[i].broken) /\ FirstBroken(s, "ok") = "ok"
    BY <1>1, SomeFirstOrNone, Zenon
  <1>5. FirstBroken(s, "ok") = IF Lacks(c) THEN "missing_claim" ELSE "ok"
    BY <1>2, <1>3, <1>4
  <1> QED BY <1>5 DEF s
\* Authenticate answers return by return.
LEMMA CodeCascade ==
    ASSUME NEW r \in Requests, NEW isReady \in BOOLEAN, NEW now
    PROVE  Answer(r, isReady, now) = CodeAnswer(r, isReady, now)
  <1> DEFINE c  == r.claims
             P  == <<Rule(~BearerToken(r.values), "no_token"), Rule(~isReady, "not_ready")>>
             V  == <<Rule(r.alg = NoAlgorithm, "malformed"), Rule(r.alg \notin Algorithms, "unsupported_alg"),
                     Rule(~r.compact, "malformed"), Rule(r.key = "unknown_kid", "unknown_kid"),
                     Rule(r.key = "bad_signature", "bad_signature"), Rule(~r.object, "malformed")>>
             G  == Registered(c, now)
             S  == <<Rule(~GrantsScope(c), "missing_scope")>>
             Q  == [i \in DOMAIN RequiredClaims |-> Rule(~NonEmpty(c[RequiredClaims[i]]), "missing_claim")]
             q  == FirstBroken(Q, "ok")
             s  == FirstBroken(S, q)
             g  == FirstBroken(G, s)
             v  == FirstBroken(V, g)
             p  == FirstBroken(P, v)
  <1>1. P \in Seq(RuleSet) /\ V \in Seq(RuleSet) /\ G \in Seq(RuleSet) /\ S \in Seq(RuleSet) /\ Q \in Seq(RuleSet)
    BY RulesAreRules
  <1>2. Answer(r, isReady, now) = FirstBroken(P \o (V \o G) \o (S \o Q), "ok")
    BY DEF Answer, Verify, Authorize
  <1>3. q = IF Lacks(c) THEN "missing_claim" ELSE "ok"
    BY RequiredCascade
  <1>4. \A o : FirstBroken(S, o) = IF ~GrantsScope(c) THEN "missing_scope" ELSE o
    <2> DEFINE r1 == Rule(~GrantsScope(c), "missing_scope")
    <2>1. S = <<r1>>
      OBVIOUS
    <2>2. /\ r1.says = "missing_scope" /\ (r1.broken <=> ~GrantsScope(c))
      BY DEF Rule
    <2> HIDE DEF r1
    <2>3. \A o : FirstBroken(<<r1>>, o) =
            IF r1.broken THEN r1.says ELSE o
      BY OneRule
    <2> QED BY <2>1, <2>2, <2>3
  <1>5. \A o : FirstBroken(G, o) =
            IF ~(c.iss.type = "string" /\ c.iss.v = <<Issuer>>) THEN "wrong_iss"
            ELSE IF ~AudienceContains(c.aud) THEN "wrong_aud"
            ELSE IF NotANumber(c.exp) THEN "malformed"
            ELSE IF ~Present(c.exp) THEN "missing_exp"
            ELSE IF Expired(c, now) THEN "expired"
            ELSE IF NotANumber(c.nbf) THEN "malformed"
            ELSE IF NotYetValid(c, now) THEN "not_yet_valid"
            ELSE IF NotANumber(c.iat) THEN "malformed"
            ELSE IF IssuedInFuture(c, now) THEN "issued_in_the_future" ELSE o
    <2> DEFINE r1 == Rule(~(c.iss.type = "string" /\ c.iss.v = <<Issuer>>), "wrong_iss")
               r2 == Rule(~AudienceContains(c.aud), "wrong_aud")
               r3 == Rule(NotANumber(c.exp), "malformed")
               r4 == Rule(~Present(c.exp), "missing_exp")
               r5 == Rule(Expired(c, now), "expired")
               r6 == Rule(NotANumber(c.nbf), "malformed")
               r7 == Rule(NotYetValid(c, now), "not_yet_valid")
               r8 == Rule(NotANumber(c.iat), "malformed")
               r9 == Rule(IssuedInFuture(c, now), "issued_in_the_future")
    <2>1. G = <<r1, r2, r3, r4, r5, r6, r7, r8, r9>>
      BY DEF Registered
    <2>2. /\ r1.says = "wrong_iss" /\ (r1.broken <=> ~(c.iss.type = "string" /\ c.iss.v = <<Issuer>>))
          /\ r2.says = "wrong_aud" /\ (r2.broken <=> ~AudienceContains(c.aud))
          /\ r3.says = "malformed" /\ (r3.broken <=> NotANumber(c.exp))
          /\ r4.says = "missing_exp" /\ (r4.broken <=> ~Present(c.exp))
          /\ r5.says = "expired" /\ (r5.broken <=> Expired(c, now))
          /\ r6.says = "malformed" /\ (r6.broken <=> NotANumber(c.nbf))
          /\ r7.says = "not_yet_valid" /\ (r7.broken <=> NotYetValid(c, now))
          /\ r8.says = "malformed" /\ (r8.broken <=> NotANumber(c.iat))
          /\ r9.says = "issued_in_the_future" /\ (r9.broken <=> IssuedInFuture(c, now))
      BY DEF Rule, Present, NotANumber, Expired, NotYetValid, IssuedInFuture
    <2> HIDE DEF r1, r2, r3, r4, r5, r6, r7, r8, r9
    <2>3. \A o : FirstBroken(<<r1, r2, r3, r4, r5, r6, r7, r8, r9>>, o) =
            IF r1.broken THEN r1.says ELSE IF r2.broken THEN r2.says ELSE IF r3.broken THEN r3.says ELSE
            IF r4.broken THEN r4.says ELSE IF r5.broken THEN r5.says ELSE IF r6.broken THEN r6.says ELSE
            IF r7.broken THEN r7.says ELSE IF r8.broken THEN r8.says ELSE IF r9.broken THEN r9.says ELSE o
      BY NineRules
    <2> QED BY <2>1, <2>2, <2>3
  <1>6. \A o : FirstBroken(V, o) =
            IF r.alg = NoAlgorithm THEN "malformed"
            ELSE IF r.alg \notin Algorithms THEN "unsupported_alg"
            ELSE IF ~r.compact THEN "malformed"
            ELSE IF r.key = "unknown_kid" THEN "unknown_kid"
            ELSE IF r.key = "bad_signature" THEN "bad_signature"
            ELSE IF ~r.object THEN "malformed" ELSE o
    <2> DEFINE r1 == Rule(r.alg = NoAlgorithm, "malformed")
               r2 == Rule(r.alg \notin Algorithms, "unsupported_alg")
               r3 == Rule(~r.compact, "malformed")
               r4 == Rule(r.key = "unknown_kid", "unknown_kid")
               r5 == Rule(r.key = "bad_signature", "bad_signature")
               r6 == Rule(~r.object, "malformed")
    <2>1. V = <<r1, r2, r3, r4, r5, r6>>
      OBVIOUS
    <2>2. /\ r1.says = "malformed" /\ (r1.broken <=> r.alg = NoAlgorithm)
          /\ r2.says = "unsupported_alg" /\ (r2.broken <=> r.alg \notin Algorithms)
          /\ r3.says = "malformed" /\ (r3.broken <=> ~r.compact)
          /\ r4.says = "unknown_kid" /\ (r4.broken <=> r.key = "unknown_kid")
          /\ r5.says = "bad_signature" /\ (r5.broken <=> r.key = "bad_signature")
          /\ r6.says = "malformed" /\ (r6.broken <=> ~r.object)
      BY DEF Rule
    <2> HIDE DEF r1, r2, r3, r4, r5, r6
    <2>3. \A o : FirstBroken(<<r1, r2, r3, r4, r5, r6>>, o) =
            IF r1.broken THEN r1.says ELSE IF r2.broken THEN r2.says ELSE IF r3.broken THEN r3.says ELSE
            IF r4.broken THEN r4.says ELSE IF r5.broken THEN r5.says ELSE IF r6.broken THEN r6.says ELSE o
      BY SixRules
    <2> QED BY <2>1, <2>2, <2>3
  <1>7. \A o : FirstBroken(P, o) = IF ~BearerToken(r.values) THEN "no_token" ELSE IF ~isReady THEN "not_ready" ELSE o
    <2> DEFINE r1 == Rule(~BearerToken(r.values), "no_token")
               r2 == Rule(~isReady, "not_ready")
    <2>1. P = <<r1, r2>>
      OBVIOUS
    <2>2. /\ r1.says = "no_token" /\ (r1.broken <=> ~BearerToken(r.values))
          /\ r2.says = "not_ready" /\ (r2.broken <=> ~isReady)
      BY DEF Rule
    <2> HIDE DEF r1, r2
    <2>3. \A o : FirstBroken(<<r1, r2>>, o) =
            IF r1.broken THEN r1.says ELSE IF r2.broken THEN r2.says ELSE o
      BY TwoRules
    <2> QED BY <2>1, <2>2, <2>3
  <1> HIDE DEF P, V, G, S, Q
  <1>8. FirstBroken(P \o (V \o G) \o (S \o Q), "ok") = p
    <2>1. \A a, b \in Seq(RuleSet) : \A o : FirstBroken(a \o b, o) = FirstBroken(a, FirstBroken(b, o))
      BY RulesAfterRules
    <2>2. V \o G \in Seq(RuleSet) /\ S \o Q \in Seq(RuleSet)
      BY <1>1
    <2>3. P \o (V \o G) \in Seq(RuleSet)
      BY <1>1, <2>2
    <2>4. FirstBroken(P \o (V \o G) \o (S \o Q), "ok") = FirstBroken(P \o (V \o G), FirstBroken(S \o Q, "ok"))
      BY <2>2, <2>3, <2>1
    <2>5. FirstBroken(S \o Q, "ok") = s
      BY <1>1, <2>1
    <2>6. \A o : FirstBroken(P \o (V \o G), o) = FirstBroken(P, FirstBroken(V \o G, o))
      BY <1>1, <2>2, <2>1
    <2>7. FirstBroken(V \o G, s) = v
      BY <1>1, <2>1
    <2> QED BY <2>4, <2>5, <2>6, <2>7
  <1> HIDE DEF q
  <1>9. s = IF ~GrantsScope(c) THEN "missing_scope" ELSE q
    BY <1>4
  <1> HIDE DEF s
  <1>10. ClaimsAnswer(c, now) = g
    BY <1>3, <1>5, <1>9 DEF ClaimsAnswer
  <1> HIDE DEF g
  <1>11. CodeAnswer(r, isReady, now) = p
    BY <1>6, <1>7, <1>10 DEF CodeAnswer
  <1> QED BY <1>2, <1>8, <1>11

-----------------------------------------------------------------------------
(* The documented rules, in the code's terms. *)

\* Of each documented rule, what it says and when it is broken: dates decide as
\* the numbers the token states, and the code's helpers decide the rest.
LEMMA ProfileInCodeTerms ==
    ASSUME NEW r \in Requests, NEW now \in 0..MaxClock
    PROVE  LET d == Profile(r, now)
               c == r.claims
           IN  /\ DOMAIN d = 1..14
               /\ d[1].says = "no_token" /\ (d[1].broken <=> ~BearerToken(r.values))
               /\ d[2].says = "malformed" /\ (d[2].broken <=> r.alg = NoAlgorithm \/ ~r.compact)
               /\ d[3].says = "unsupported_alg" /\ (d[3].broken <=> r.alg \notin Algorithms)
               /\ d[4].says = "unknown_kid" /\ (d[4].broken <=> r.key = "unknown_kid")
               /\ d[5].says = "bad_signature" /\ (d[5].broken <=> r.key = "bad_signature")
               /\ d[6].says = "malformed"
               /\ d[6].broken <=> ~r.object \/ NotANumber(c.exp) \/ NotANumber(c.nbf) \/ NotANumber(c.iat)
               /\ d[7].says = "wrong_iss" /\ (d[7].broken <=> ~(c.iss.type = "string" /\ c.iss.v = <<Issuer>>))
               /\ d[8].says = "wrong_aud" /\ (d[8].broken <=> ~AudienceContains(c.aud))
               /\ d[9].says = "missing_exp" /\ (d[9].broken <=> ~Present(c.exp))
               /\ d[10].says = "expired" /\ (d[10].broken <=> ~NotANumber(c.exp) /\ Expired(c, now))
               /\ d[11].says = "not_yet_valid" /\ (d[11].broken <=> ~NotANumber(c.nbf) /\ NotYetValid(c, now))
               /\ d[12].says = "issued_in_the_future" /\ (d[12].broken <=> ~NotANumber(c.iat) /\ IssuedInFuture(c, now))
               /\ d[13].says = "missing_scope" /\ (d[13].broken <=> ~GrantsScope(c))
               /\ d[14].says = "missing_claim" /\ (d[14].broken <=> Lacks(c))
  <1> DEFINE d == Profile(r, now)
             c == r.claims
             b2 == r.alg = NoAlgorithm \/ ~r.compact
             b6 == ~r.object \/ Bad(c.exp) \/ Bad(c.nbf) \/ Bad(c.iat)
             b7 == c.iss.type # "string" \/ c.iss.v # <<Issuer>>
             b10 == c.exp.type = "number" /\ now >= c.exp.n + ClockSkew
             b11 == c.nbf.type = "number" /\ now + ClockSkew < c.nbf.n
             b12 == c.iat.type = "number" /\ c.iat.n > now + ClockSkew
             b14 == \E i \in DOMAIN RequiredClaims : Empty(c[RequiredClaims[i]])
  <1>1. d = <<Rule(NoBearer(r.values), "no_token"), Rule(b2, "malformed"), Rule(r.alg \notin Algorithms, "unsupported_alg"),
              Rule(r.key = "unknown_kid", "unknown_kid"), Rule(r.key = "bad_signature", "bad_signature"),
              Rule(b6, "malformed"), Rule(b7, "wrong_iss"), Rule(WrongAudience(c.aud), "wrong_aud"),
              Rule(c.exp.type = "absent", "missing_exp"), Rule(b10, "expired"), Rule(b11, "not_yet_valid"),
              Rule(b12, "issued_in_the_future"), Rule(NoScope(c), "missing_scope"), Rule(b14, "missing_claim")>>
    BY DEF Profile
  <1>2. r.values \in Seq([scheme : STRING, token : BOOLEAN]) /\ r.compact \in BOOLEAN /\ r.object \in BOOLEAN
    BY RequestsAreTyped
  <1>3. /\ ClockSkew \in Nat /\ MaxClock \in Nat
        /\ \A k \in {"iss", "aud", "exp", "nbf", "iat", "scope", "scp"} : c[k].type \in JSONTypes /\ c[k].n \in Int
        /\ \A i \in DOMAIN RequiredClaims : c[RequiredClaims[i]].type \in JSONTypes
    BY RequestsAreTyped, ClampFitsTheWidth DEF NamedClaims
  <1>4. NoBearer(r.values) <=> ~BearerToken(r.values)
    <2>1. \A x \in [scheme : STRING, token : BOOLEAN] :
             x = [scheme |-> "bearer", token |-> TRUE] <=> x.scheme = "bearer" /\ x.token
      OBVIOUS
    <2>2. ASSUME NEW S, NEW s \in Seq(S) PROVE Len(s) = 1 => s[1] \in S
      OBVIOUS
    <2>3. Len(r.values) = 1 => r.values[1] \in [scheme : STRING, token : BOOLEAN]
      BY <1>2, <2>2, Zenon
    <2> QED BY <2>1, <2>3 DEF NoBearer, BearerToken
  <1>5. \A v : v.type \in JSONTypes => (Bad(v) <=> NotANumber(v)) /\ (v.type = "absent" <=> ~Present(v))
                                       /\ (v.type = "number" <=> ~NotANumber(v) /\ Present(v))
    BY DEF Bad, NotANumber, Present, JSONTypes
  <1>6. b6 <=> ~r.object \/ NotANumber(c.exp) \/ NotANumber(c.nbf) \/ NotANumber(c.iat)
    BY <1>3, <1>5
  <1>7. WrongAudience(c.aud) <=> ~AudienceContains(c.aud)
    BY DEF WrongAudience, AudienceContains
  <1>8. b10 <=> ~NotANumber(c.exp) /\ Expired(c, now)
    BY <1>3, <1>5, DatesDecideAsStated DEF Expired
  <1>9. b11 <=> ~NotANumber(c.nbf) /\ NotYetValid(c, now)
    BY <1>3, <1>5, DatesDecideAsStated DEF NotYetValid
  <1>10. b12 <=> ~NotANumber(c.iat) /\ IssuedInFuture(c, now)
    BY <1>3, <1>5, DatesDecideAsStated DEF IssuedInFuture
  <1>11. NoScope(c) <=> ~GrantsScope(c)
    BY DEF NoScope, GrantsScope
  <1>12. b14 <=> Lacks(c)
    BY <1>3 DEF Lacks, Empty, NonEmpty, JSONTypes
  <1>13. c.exp.type = "absent" <=> ~Present(c.exp)
    BY <1>3, <1>5
  <1> HIDE DEF b2, b6, b7, b10, b11, b12, b14, d
  <1>14. /\ DOMAIN d = 1..14
         /\ d[1] = Rule(NoBearer(r.values), "no_token") /\ d[2] = Rule(b2, "malformed")
         /\ d[3] = Rule(r.alg \notin Algorithms, "unsupported_alg") /\ d[4] = Rule(r.key = "unknown_kid", "unknown_kid")
         /\ d[5] = Rule(r.key = "bad_signature", "bad_signature") /\ d[6] = Rule(b6, "malformed")
         /\ d[7] = Rule(b7, "wrong_iss") /\ d[8] = Rule(WrongAudience(c.aud), "wrong_aud")
         /\ d[9] = Rule(c.exp.type = "absent", "missing_exp") /\ d[10] = Rule(b10, "expired")
         /\ d[11] = Rule(b11, "not_yet_valid") /\ d[12] = Rule(b12, "issued_in_the_future")
         /\ d[13] = Rule(NoScope(c), "missing_scope") /\ d[14] = Rule(b14, "missing_claim")
    BY <1>1
  <1>d1. d[1].says = "no_token" /\ (d[1].broken <=> ~BearerToken(r.values))
    <2>1. d[1] = Rule(NoBearer(r.values), "no_token")
      BY <1>14
    <2>2. Rule(NoBearer(r.values), "no_token").says = "no_token" /\ (Rule(NoBearer(r.values), "no_token").broken <=> NoBearer(r.values))
      BY DEF Rule
    <2> QED BY <2>1, <2>2, <1>4
  <1>d2. d[2].says = "malformed" /\ (d[2].broken <=> r.alg = NoAlgorithm \/ ~r.compact)
    <2>1. d[2] = Rule(b2, "malformed")
      BY <1>14
    <2>2. Rule(b2, "malformed").says = "malformed" /\ (Rule(b2, "malformed").broken <=> b2)
      BY DEF Rule, b2
    <2> QED BY <2>1, <2>2 DEF b2
  <1>d3. d[3].says = "unsupported_alg" /\ (d[3].broken <=> r.alg \notin Algorithms)
    <2>1. d[3] = Rule(r.alg \notin Algorithms, "unsupported_alg")
      BY <1>14
    <2>2. Rule(r.alg \notin Algorithms, "unsupported_alg").says = "unsupported_alg" /\ (Rule(r.alg \notin Algorithms, "unsupported_alg").broken <=> r.alg \notin Algorithms)
      BY DEF Rule
    <2> QED BY <2>1, <2>2
  <1>d4. d[4].says = "unknown_kid" /\ (d[4].broken <=> r.key = "unknown_kid")
    <2>1. d[4] = Rule(r.key = "unknown_kid", "unknown_kid")
      BY <1>14
    <2>2. Rule(r.key = "unknown_kid", "unknown_kid").says = "unknown_kid" /\ (Rule(r.key = "unknown_kid", "unknown_kid").broken <=> r.key = "unknown_kid")
      BY DEF Rule
    <2> QED BY <2>1, <2>2
  <1>d5. d[5].says = "bad_signature" /\ (d[5].broken <=> r.key = "bad_signature")
    <2>1. d[5] = Rule(r.key = "bad_signature", "bad_signature")
      BY <1>14
    <2>2. Rule(r.key = "bad_signature", "bad_signature").says = "bad_signature" /\ (Rule(r.key = "bad_signature", "bad_signature").broken <=> r.key = "bad_signature")
      BY DEF Rule
    <2> QED BY <2>1, <2>2
  <1>d6. d[6].says = "malformed" /\ (d[6].broken <=> ~r.object \/ NotANumber(c.exp) \/ NotANumber(c.nbf) \/ NotANumber(c.iat))
    <2>1. d[6] = Rule(b6, "malformed")
      BY <1>14
    <2>2. Rule(b6, "malformed").says = "malformed" /\ (Rule(b6, "malformed").broken <=> b6)
      BY DEF Rule, b6
    <2> QED BY <2>1, <2>2, <1>6 DEF b6
  <1>d7. d[7].says = "wrong_iss" /\ (d[7].broken <=> ~(c.iss.type = "string" /\ c.iss.v = <<Issuer>>))
    <2>1. d[7] = Rule(b7, "wrong_iss")
      BY <1>14
    <2>2. Rule(b7, "wrong_iss").says = "wrong_iss" /\ (Rule(b7, "wrong_iss").broken <=> b7)
      BY DEF Rule, b7
    <2> QED BY <2>1, <2>2 DEF b7
  <1>d8. d[8].says = "wrong_aud" /\ (d[8].broken <=> ~AudienceContains(c.aud))
    <2>1. d[8] = Rule(WrongAudience(c.aud), "wrong_aud")
      BY <1>14
    <2>2. Rule(WrongAudience(c.aud), "wrong_aud").says = "wrong_aud" /\ (Rule(WrongAudience(c.aud), "wrong_aud").broken <=> WrongAudience(c.aud))
      BY DEF Rule
    <2> QED BY <2>1, <2>2, <1>7
  <1>d9. d[9].says = "missing_exp" /\ (d[9].broken <=> ~Present(c.exp))
    <2>1. d[9] = Rule(c.exp.type = "absent", "missing_exp")
      BY <1>14
    <2>2. Rule(c.exp.type = "absent", "missing_exp").says = "missing_exp" /\ (Rule(c.exp.type = "absent", "missing_exp").broken <=> c.exp.type = "absent")
      BY DEF Rule
    <2> QED BY <2>1, <2>2, <1>13
  <1>d10. d[10].says = "expired" /\ (d[10].broken <=> ~NotANumber(c.exp) /\ Expired(c, now))
    <2>1. d[10] = Rule(b10, "expired")
      BY <1>14
    <2>2. Rule(b10, "expired").says = "expired" /\ (Rule(b10, "expired").broken <=> b10)
      BY DEF Rule, b10
    <2> QED BY <2>1, <2>2, <1>8 DEF b10
  <1>d11. d[11].says = "not_yet_valid" /\ (d[11].broken <=> ~NotANumber(c.nbf) /\ NotYetValid(c, now))
    <2>1. d[11] = Rule(b11, "not_yet_valid")
      BY <1>14
    <2>2. Rule(b11, "not_yet_valid").says = "not_yet_valid" /\ (Rule(b11, "not_yet_valid").broken <=> b11)
      BY DEF Rule, b11
    <2> QED BY <2>1, <2>2, <1>9 DEF b11
  <1>d12. d[12].says = "issued_in_the_future" /\ (d[12].broken <=> ~NotANumber(c.iat) /\ IssuedInFuture(c, now))
    <2>1. d[12] = Rule(b12, "issued_in_the_future")
      BY <1>14
    <2>2. Rule(b12, "issued_in_the_future").says = "issued_in_the_future" /\ (Rule(b12, "issued_in_the_future").broken <=> b12)
      BY DEF Rule, b12
    <2> QED BY <2>1, <2>2, <1>10 DEF b12
  <1>d13. d[13].says = "missing_scope" /\ (d[13].broken <=> ~GrantsScope(c))
    <2>1. d[13] = Rule(NoScope(c), "missing_scope")
      BY <1>14
    <2>2. Rule(NoScope(c), "missing_scope").says = "missing_scope" /\ (Rule(NoScope(c), "missing_scope").broken <=> NoScope(c))
      BY DEF Rule
    <2> QED BY <2>1, <2>2, <1>11
  <1>d14. d[14].says = "missing_claim" /\ (d[14].broken <=> Lacks(c))
    <2>1. d[14] = Rule(b14, "missing_claim")
      BY <1>14
    <2>2. Rule(b14, "missing_claim").says = "missing_claim" /\ (Rule(b14, "missing_claim").broken <=> b14)
      BY DEF Rule, b14
    <2> QED BY <2>1, <2>2, <1>12 DEF b14
  <1> QED BY <1>14, <1>d1, <1>d2, <1>d3, <1>d4, <1>d5, <1>d6, <1>d7, <1>d8, <1>d9, <1>d10, <1>d11, <1>d12, <1>d13, <1>d14 DEF d

-----------------------------------------------------------------------------
(* The code against the documented table. *)

\* What the table says, rule by rule; with wf, as it stands, without, save the
\* rules of well-formedness.
DocAnswer(r, now, wf) ==
    LET c == r.claims
    IN  IF ~BearerToken(r.values) THEN "no_token"
        ELSE IF wf /\ (r.alg = NoAlgorithm \/ ~r.compact) THEN "malformed"
        ELSE IF r.alg \notin Algorithms THEN "unsupported_alg"
        ELSE IF r.key = "unknown_kid" THEN "unknown_kid"
        ELSE IF r.key = "bad_signature" THEN "bad_signature"
        ELSE IF wf /\ (~r.object \/ NotANumber(c.exp) \/ NotANumber(c.nbf) \/ NotANumber(c.iat)) THEN "malformed"
        ELSE IF ~(c.iss.type = "string" /\ c.iss.v = <<Issuer>>) THEN "wrong_iss"
        ELSE IF ~AudienceContains(c.aud) THEN "wrong_aud"
        ELSE IF ~Present(c.exp) THEN "missing_exp"
        ELSE IF ~NotANumber(c.exp) /\ Expired(c, now) THEN "expired"
        ELSE IF ~NotANumber(c.nbf) /\ NotYetValid(c, now) THEN "not_yet_valid"
        ELSE IF ~NotANumber(c.iat) /\ IssuedInFuture(c, now) THEN "issued_in_the_future"
        ELSE IF ~GrantsScope(c) THEN "missing_scope"
        ELSE IF Lacks(c) THEN "missing_claim" ELSE "ok"

LEMMA DocCascade ==
    ASSUME NEW r \in Requests, NEW now \in 0..MaxClock
    PROVE  /\ FirstBroken(Profile(r, now), "ok") = DocAnswer(r, now, TRUE)
           /\ FirstBroken(Apart(Profile(r, now)), "ok") = DocAnswer(r, now, FALSE)
  <1> DEFINE d == Profile(r, now)
             a == Apart(d)
             c == r.claims
  <1>1. /\ DOMAIN d = 1..14
        /\ d[1].says = "no_token" /\ (d[1].broken <=> ~BearerToken(r.values))
        /\ d[2].says = "malformed" /\ (d[2].broken <=> r.alg = NoAlgorithm \/ ~r.compact)
        /\ d[3].says = "unsupported_alg" /\ (d[3].broken <=> r.alg \notin Algorithms)
        /\ d[4].says = "unknown_kid" /\ (d[4].broken <=> r.key = "unknown_kid")
        /\ d[5].says = "bad_signature" /\ (d[5].broken <=> r.key = "bad_signature")
        /\ d[6].says = "malformed"
        /\ d[6].broken <=> ~r.object \/ NotANumber(c.exp) \/ NotANumber(c.nbf) \/ NotANumber(c.iat)
        /\ d[7].says = "wrong_iss" /\ (d[7].broken <=> ~(c.iss.type = "string" /\ c.iss.v = <<Issuer>>))
        /\ d[8].says = "wrong_aud" /\ (d[8].broken <=> ~AudienceContains(c.aud))
        /\ d[9].says = "missing_exp" /\ (d[9].broken <=> ~Present(c.exp))
        /\ d[10].says = "expired" /\ (d[10].broken <=> ~NotANumber(c.exp) /\ Expired(c, now))
        /\ d[11].says = "not_yet_valid" /\ (d[11].broken <=> ~NotANumber(c.nbf) /\ NotYetValid(c, now))
        /\ d[12].says = "issued_in_the_future" /\ (d[12].broken <=> ~NotANumber(c.iat) /\ IssuedInFuture(c, now))
        /\ d[13].says = "missing_scope" /\ (d[13].broken <=> ~GrantsScope(c))
        /\ d[14].says = "missing_claim" /\ (d[14].broken <=> Lacks(c))
    BY ProfileInCodeTerms
  <1>2. /\ DOMAIN a = DOMAIN d
        /\ \A i \in DOMAIN d : a[i].says = d[i].says /\ (a[i].broken <=> d[i].broken /\ i \notin {2, 6})
    BY DEF Apart, Rule
  <1> HIDE DEF d, a
  <1>3. FirstBroken(d, "ok") = DocAnswer(r, now, TRUE)
    <2>1. FirstBroken(d, "ok") =
            IF d[1].broken THEN d[1].says ELSE IF d[2].broken THEN d[2].says ELSE IF d[3].broken THEN d[3].says ELSE
            IF d[4].broken THEN d[4].says ELSE IF d[5].broken THEN d[5].says ELSE IF d[6].broken THEN d[6].says ELSE
            IF d[7].broken THEN d[7].says ELSE IF d[8].broken THEN d[8].says ELSE IF d[9].broken THEN d[9].says ELSE
            IF d[10].broken THEN d[10].says ELSE IF d[11].broken THEN d[11].says ELSE IF d[12].broken THEN d[12].says ELSE
            IF d[13].broken THEN d[13].says ELSE IF d[14].broken THEN d[14].says ELSE "ok"
      BY <1>1, FourteenRules
    <2> QED BY <1>1, <2>1 DEF DocAnswer
  <1>4. FirstBroken(a, "ok") = DocAnswer(r, now, FALSE)
    <2>1. FirstBroken(a, "ok") =
            IF a[1].broken THEN a[1].says ELSE IF a[2].broken THEN a[2].says ELSE IF a[3].broken THEN a[3].says ELSE
            IF a[4].broken THEN a[4].says ELSE IF a[5].broken THEN a[5].says ELSE IF a[6].broken THEN a[6].says ELSE
            IF a[7].broken THEN a[7].says ELSE IF a[8].broken THEN a[8].says ELSE IF a[9].broken THEN a[9].says ELSE
            IF a[10].broken THEN a[10].says ELSE IF a[11].broken THEN a[11].says ELSE IF a[12].broken THEN a[12].says ELSE
            IF a[13].broken THEN a[13].says ELSE IF a[14].broken THEN a[14].says ELSE "ok"
      BY <1>1, <1>2, FourteenRules
    <2>2. /\ ~a[2].broken /\ ~a[6].broken
          /\ \A i \in {1, 3, 4, 5, 7, 8, 9, 10, 11, 12, 13, 14} : a[i].says = d[i].says /\ (a[i].broken <=> d[i].broken)
      BY <1>1, <1>2
    <2>3. FirstBroken(a, "ok") =
            IF d[1].broken THEN d[1].says ELSE IF d[3].broken THEN d[3].says ELSE IF d[4].broken THEN d[4].says
            ELSE IF d[5].broken THEN d[5].says ELSE IF d[7].broken THEN d[7].says ELSE IF d[8].broken THEN d[8].says
            ELSE IF d[9].broken THEN d[9].says ELSE IF d[10].broken THEN d[10].says
            ELSE IF d[11].broken THEN d[11].says ELSE IF d[12].broken THEN d[12].says
            ELSE IF d[13].broken THEN d[13].says ELSE IF d[14].broken THEN d[14].says ELSE "ok"
      BY <2>1, <2>2
    <2> QED BY <1>1, <2>3 DEF DocAnswer
  <1> QED BY <1>3, <1>4 DEF a, d

\* The two orders agree but for what is malformed.
LEMMA CodeByTheProfile ==
    ASSUME NEW r \in Requests, NEW now
    PROVE  LET code == CodeAnswer(r, TRUE, now)
               doc  == DocAnswer(r, now, TRUE)
           IN  /\ code = "ok" <=> doc = "ok"
               /\ code = doc \/ (doc = "malformed" /\ code = DocAnswer(r, now, FALSE))
  <1>1. r.compact \in BOOLEAN /\ r.object \in BOOLEAN
    BY RequestsAreTyped
  <1> QED BY <1>1 DEF CodeAnswer, ClaimsAnswer, DocAnswer

\* With time, an accepted token can only expire, and once expired it stays so.
LEMMA OnlyExpires ==
    ASSUME NEW r \in Requests, NEW now \in 0..MaxClock, NEW then \in 0..now
    PROVE  /\ CodeAnswer(r, TRUE, then) = "ok" => CodeAnswer(r, TRUE, now) \in {"ok", "expired"}
           /\ CodeAnswer(r, TRUE, then) = "expired" => CodeAnswer(r, TRUE, now) = "expired"
  <1> DEFINE c == r.claims
  <1>1. /\ ClockSkew \in Nat /\ MaxClock \in Nat /\ then \in 0..MaxClock
        /\ c.exp.n \in Int /\ c.nbf.n \in Int /\ c.iat.n \in Int
    BY ClampFitsTheWidth, RequestsAreTyped DEF NamedClaims
  <1>2. NumericDate(c.exp) \in Int /\ NumericDate(c.nbf) \in Int /\ NumericDate(c.iat) \in Int
    BY <1>1, DatesDecideAsStated
  <1>3. /\ NotYetValid(c, now) => NotYetValid(c, then)
        /\ IssuedInFuture(c, now) => IssuedInFuture(c, then)
        /\ Expired(c, then) => Expired(c, now)
    BY <1>1, <1>2 DEF NotYetValid, IssuedInFuture, Expired
  <1> QED BY <1>3 DEF CodeAnswer, ClaimsAnswer

-----------------------------------------------------------------------------
(* The invariant: the last answer was the rules' at some time until now, and *)
(* what an accepted request carries was made of its own claims.              *)

Typed == request \in Requests /\ ready \in BOOLEAN /\ clock \in 0..MaxClock

\* The answers that time bears on: each was given at some time until now.
Answered ==
    answer \in {"ok", "expired"} => ready /\ \E then \in 0..clock : Answer(request, TRUE, then) = answer

Attached == answer = "ok" => identity \in NewAuthData(request.claims)

IInv == Typed /\ Answered /\ Attached

LEMMA InitIInv == Init => IInv
<1> SUFFICES ASSUME Init PROVE IInv
  OBVIOUS
<1>1. Typed
  <2>1. MaxClock \in Nat /\ clock = 0
    BY ClampFitsTheWidth DEF Init
  <2>2. clock \in 0..MaxClock
    BY <2>1
  <2> QED BY <2>2 DEF Init, Typed
<1>2. Answered /\ Attached
  BY DEF Init, Answered, Attached
<1> QED BY <1>1, <1>2 DEF IInv

LEMMA NextIInv == IInv /\ [Next]_vars => IInv'
<1> SUFFICES ASSUME IInv, [Next]_vars PROVE IInv'
  OBVIOUS
<1> USE DEF IInv
<1>1. CASE Authenticate
  <2>1. Typed'
    BY <1>1 DEF Authenticate, Typed
  <2>2. answer' \in {"ok", "expired"} => ready
    <3>1. answer' = CodeAnswer(request, ready, clock)
      BY <1>1, CodeCascade DEF Authenticate, Typed
    <3> QED BY <3>1 DEF CodeAnswer
  <2>3. Answered'
    <3>1. ready = TRUE => answer' = Answer(request, TRUE, clock)
      BY <1>1 DEF Authenticate
    <3>2. clock \in 0..clock
      BY ClampFitsTheWidth DEF Typed
    <3> QED BY <1>1, <2>2, <3>1, <3>2 DEF Authenticate, Answered, Typed
  <2>4. Attached'
    BY <1>1 DEF Authenticate, Attached
  <2> QED BY <2>1, <2>3, <2>4
<1>2. CASE Load
  BY <1>2 DEF Load, Typed, Answered, Attached
<1>3. CASE Tick
  <2>1. Typed' /\ Attached'
    BY <1>3, ClampFitsTheWidth DEF Tick, Typed, Attached
  <2>2. 0..clock \subseteq 0..clock'
    BY <1>3 DEF Tick, Typed
  <2>3. Answered'
    BY <1>3, <2>2 DEF Tick, Answered
  <2> QED BY <2>1, <2>3
<1>4. CASE UNCHANGED vars
  BY <1>4 DEF vars, Typed, Answered, Attached
<1> QED BY <1>1, <1>2, <1>3, <1>4 DEF Next

\* The invariant holds in every state of every behaviour.
THEOREM Invariance == Spec => []IInv
  BY InitIInv, NextIInv, PTL DEF Spec

\* Whatever attributes a token's claims are mapped to, an accepted request
\* carries the deployment's own as configured, every mapped string claim and
\* nothing else (newAuthData, whichever claim the map iteration keeps).
THEOREM IdentitiesAreAttested == Spec => []IdentityIsAttested
<1>1. IInv => IdentityIsAttested
  <2> SUFFICES ASSUME IInv, answer = "ok" PROVE IdentityIsAttested
    BY DEF IdentityIsAttested
  <2> DEFINE c == request.claims
             mapped == {ClaimAttributes[claim] : claim \in Attested(c)}
  <2>1. PICK f \in [mapped -> Attested(c)] :
           /\ \A a \in mapped : ClaimAttributes[f[a]] = a
           /\ identity = [a \in mapped \cup DOMAIN ResourceAttributes |->
                           IF a \in DOMAIN ResourceAttributes THEN ResourceAttributes[a] ELSE c[f[a]].v]
    BY DEF IInv, Attached, NewAuthData
  <2>2. \A claim : claim \in Attested(c) <=>
           claim \in DOMAIN ClaimAttributes /\ c[claim].type = "string" /\ c[claim].v # <<>>
    BY DEF Attested
  <2>3. \A a \in DOMAIN ResourceAttributes : a \in DOMAIN identity /\ identity[a] = ResourceAttributes[a]
    BY <2>1
  <2>4. \A k \in DOMAIN ClaimAttributes :
           c[k].type = "string" /\ c[k].v # <<>> => ClaimAttributes[k] \in DOMAIN identity
    BY <2>1, <2>2
  <2>5. \A a \in DOMAIN identity \ DOMAIN ResourceAttributes :
           \E k \in DOMAIN ClaimAttributes :
              ClaimAttributes[k] = a /\ c[k].type = "string" /\ identity[a] = c[k].v
    <3> SUFFICES ASSUME NEW a \in DOMAIN identity \ DOMAIN ResourceAttributes
                 PROVE  \E k \in DOMAIN ClaimAttributes :
                           ClaimAttributes[k] = a /\ c[k].type = "string" /\ identity[a] = c[k].v
      OBVIOUS
    <3>1. a \in mapped /\ identity[a] = c[f[a]].v
      BY <2>1
    <3>2. f[a] \in Attested(c) /\ ClaimAttributes[f[a]] = a
      BY <2>1, <3>1
    <3> QED BY <2>2, <3>1, <3>2
  <2> QED BY <2>3, <2>4, <2>5 DEF IdentityIsAttested
<1> QED BY <1>1, Invariance, PTL

\* For any configuration and any token, Authenticate accepts what breaks no rule
\* of docs/token-profile.md and nothing else.
THEOREM AcceptsWhatIsDocumented == Spec => AcceptsByTheProfile
<1> DEFINE A == Authenticate /\ ready =>
                   (answer' = "ok" <=> FirstBroken(Profile(request, clock), "ok") = "ok")
<1>1. IInv /\ [Next]_vars => [A]_vars
  <2> SUFFICES ASSUME IInv, Authenticate, ready
               PROVE  answer' = "ok" <=> FirstBroken(Profile(request, clock), "ok") = "ok"
    OBVIOUS
  <2>1. request \in Requests /\ ready = TRUE /\ clock \in 0..MaxClock
    BY DEF IInv, Typed
  <2>2. answer' = CodeAnswer(request, TRUE, clock)
    BY <2>1, CodeCascade DEF Authenticate
  <2> QED BY <2>1, <2>2, CodeByTheProfile, DocCascade
<1> QED BY <1>1, Invariance, PTL DEF Spec, AcceptsByTheProfile

\* And a refusal names the first rule of the table that is broken, or, where that
\* is one of well-formedness, the first of the others.
THEOREM RefusesAsDocumented == Spec => RefusesByTheProfile
<1> DEFINE A == Authenticate /\ ready =>
                   LET rules == Profile(request, clock)
                       says  == FirstBroken(rules, "ok")
                   IN  answer' = says \/ (says = "malformed" /\ answer' = FirstBroken(Apart(rules), "ok"))
<1>1. IInv /\ [Next]_vars => [A]_vars
  <2> SUFFICES ASSUME IInv, Authenticate, ready
               PROVE  LET rules == Profile(request, clock)
                          says  == FirstBroken(rules, "ok")
                      IN  answer' = says \/ (says = "malformed" /\ answer' = FirstBroken(Apart(rules), "ok"))
    OBVIOUS
  <2>1. request \in Requests /\ ready = TRUE /\ clock \in 0..MaxClock
    BY DEF IInv, Typed
  <2>2. answer' = CodeAnswer(request, TRUE, clock)
    BY <2>1, CodeCascade DEF Authenticate
  <2> QED BY <2>1, <2>2, CodeByTheProfile, DocCascade
<1> QED BY <1>1, Invariance, PTL DEF Spec, RefusesByTheProfile

\* For any skew and dates, the first refusal after an acceptance is "expired" and
\* no acceptance follows it: verify.go's time rules leave a token no other end.
THEOREM TokensEndByExpiry == Spec => OnlyExpiryEndsAToken
<1> DEFINE A == /\ answer = "ok" /\ answer' # "ok" => answer' = "expired"
                /\ answer = "expired" => answer' # "ok"
<1>1. IInv /\ [Next]_vars => [A]_vars
  <2> SUFFICES ASSUME IInv, Next PROVE A
    OBVIOUS
  <2>1. CASE Authenticate /\ answer \in {"ok", "expired"}
    <3>1. request \in Requests /\ ready = TRUE /\ clock \in 0..MaxClock
      BY <2>1 DEF IInv, Typed, Answered
    <3>2. PICK then \in 0..clock : Answer(request, TRUE, then) = answer
      BY <2>1 DEF IInv, Answered
    <3>3. CodeAnswer(request, TRUE, then) = answer /\ answer' = CodeAnswer(request, TRUE, clock)
      BY <2>1, <3>1, <3>2, CodeCascade DEF Authenticate
    <3>4. /\ answer = "ok" => answer' \in {"ok", "expired"}
          /\ answer = "expired" => answer' = "expired"
      BY <3>1, <3>3, OnlyExpires
    <3> QED BY <3>4
  <2>2. CASE ~(Authenticate /\ answer \in {"ok", "expired"})
    BY <2>2 DEF Next, Load, Tick
  <2> QED BY <2>1, <2>2
<1> QED BY <1>1, Invariance, PTL DEF Spec, OnlyExpiryEndsAToken
=============================================================================
