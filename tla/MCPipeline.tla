----------------------------- MODULE MCPipeline -----------------------------
(* Two items: one at every time, one with every attribute and token.         *)
EXTENDS Pipeline, TLC

KeyNames == {"service.name", "user.id", "user.email", "claim", "env", "other"}
Named  == {"service.name"}
TargetSet == {"user.id", "claim"}
LikeSet   == {"user.id", "user.email"}
AllowSet  == {"user.email", "claim", "other"}
StaticMap == "env" :> "prod"

\* Attributes with the same value under every key but the service's name.
Attrs(name, value) == [k \in KeyNames |-> IF k = "service.name" THEN name ELSE value]
Everywhere(name, value) == [h \in Holders |-> Attrs(name, value)]
Token(id, claim) == [k \in KeyNames |-> CASE k = "user.id" -> id [] k = "claim" -> claim [] OTHER -> "absent"]

Item(kinds, starts, ends, named, attrs, tokens) ==
    [kind : kinds, start : starts, end : ends, named : named, attrs : attrs, token : tokens]

\* Times before, at and after the clock's range, by more and less than the skew.
Timed  == Item({"span"}, 0..7, 0..7, {TRUE}, {Everywhere("api", "absent")}, {Token("u1", "c1")})
          \cup Item({"log"}, 0..7, {0}, {TRUE}, {Everywhere("api", "absent")}, {Token("u1", "c1")})
Forged == Item({"span", "log"}, {3}, {3}, {TRUE}, {Everywhere(n, v) : n \in {"api", "x"}, v \in {"absent", "forged"}},
               {Token("u2", "c2"), Token("u2", "absent")})
          \cup Item({"metric"}, {0}, {0}, BOOLEAN, {Everywhere(n, "forged") : n \in {"api", "x", "absent"}}, {Token("u2", "c2")})

PayloadsOf == [i \in {"a", "b"} |-> IF i = "a" THEN Timed ELSE Forged]
=============================================================================
