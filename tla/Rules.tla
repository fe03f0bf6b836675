------------------------------- MODULE Rules -------------------------------
(* Checks made one after the other, the first one broken giving the answer. *)
EXTENDS FiniteSetsExt, Integers

Rule(broken, says) == [broken |-> broken, says |-> says]
Broken(rules) == {i \in DOMAIN rules : rules[i].broken}
FirstBroken(rules, otherwise) == IF Broken(rules) = {} THEN otherwise ELSE rules[Min(Broken(rules))].says

\* With no rule broken, the answer is the one for that.
LEMMA NoneBroken ==
    ASSUME NEW rules, NEW otherwise, \A i \in DOMAIN rules : ~rules[i].broken
    PROVE  FirstBroken(rules, otherwise) = otherwise
  BY DEF FirstBroken, Broken

\* A broken rule that none before it is gives the answer.
LEMMA BrokenFirst ==
    ASSUME NEW rules, NEW otherwise, DOMAIN rules \subseteq Int,
           NEW i \in DOMAIN rules, rules[i].broken, \A j \in DOMAIN rules : j < i => ~rules[j].broken
    PROVE  FirstBroken(rules, otherwise) = rules[i].says
  <1> DEFINE S == Broken(rules)
  <1>1. i \in S /\ S \subseteq Int /\ \A j \in S : i <= j
    BY DEF Broken
  <1>2. Min(S) \in S /\ \A j \in S : Min(S) <= j
    <2> HIDE DEF S
    <2> QED BY <1>1 DEF Min
  <1>3. Min(S) = i
    <2> HIDE DEF S
    <2> QED BY <1>1, <1>2
  <1>4. QED BY <1>1, <1>3 DEF FirstBroken
=============================================================================
