---------------------------- MODULE MCDiscovery ----------------------------
(* Small instances of Discovery for TLC. *)
EXTENDS Discovery, TLC

CONSTANTS r1, r2, r3

Key(kid, alg, mat, kind) == [kid |-> kid, alg |-> alg, mat |-> mat, kind |-> kind]

\* The old key, then the old beside the new, then the new alone; and a JWKS
\* in which nothing can be used.
OldDoc  == <<Key("k1", "", "m1", "public"), Key("", "", "m0", "public")>>
BothDoc == <<Key("k1", "", "m1", "public"), Key("k2", "RS256", "m2", "public")>>
NewDoc  == <<Key("k2", "RS256", "m2", "private"), Key("k2", "RS256", "m2", "public")>>
NoneDoc == <<Key("k2", "RS256", "m2", "enc"), Key("k3", "", "m3", "unknown")>>

RotationDocs == {OldDoc, NewDoc}
AllDocs == {OldDoc, BothDoc, NewDoc, NoneDoc}

Token(kid, alg, mat) == [kid |-> kid, alg |-> alg, mat |-> mat]
NewToken == {Token("k2", "RS256", "m2")}
AllTokens == {Token("k1", "RS256", "m1"), Token("k2", "RS256", "m2"), Token("k2", "RS256", "m1"),
              Token("k2", "ES256", "m2"), Token("", "RS256", "m0")}

Symmetry == Permutations(Req)

\* No Shutdown: a run of the timed properties stops where one is called.
Running == shutdown = "no"
=============================================================================
