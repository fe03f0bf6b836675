--------------------------- MODULE MCTokenProfile ---------------------------
(* Requests for TLC: every combination of what comes before the claims, and   *)
(* every combination of claims under a well-formed header.                    *)
EXTENDS TokenProfile

Val(type, v) == [type |-> type, v |-> v, n |-> 0]
Str(v)    == Val("string", v)
Arr(v)    == Val("array", v)
Num(n)    == [type |-> "number", v |-> <<>>, n |-> n]
Absent    == Val("absent", <<>>)

GoodClaims == [iss |-> Str(<<"issuer">>), aud |-> Str(<<"me">>), exp |-> Num(1), nbf |-> Num(2), iat |-> Absent,
               scope |-> Str(<<"openid", "write">>), scp |-> Absent,
               sub |-> Str(<<"alice">>), name |-> Str(<<"Alice">>)]

OneBearer == <<[scheme |-> "bearer", token |-> TRUE]>>
HeaderValues == {<<>>, OneBearer, OneBearer \o OneBearer,
                 <<[scheme |-> "basic", token |-> TRUE]>>, <<[scheme |-> "bearer", token |-> FALSE]>>}

HeaderRequests ==
    [values : HeaderValues, alg : {"", "none", "RS256"}, compact : BOOLEAN,
     key : {"verified", "unknown_kid", "bad_signature"}, object : BOOLEAN,
     claims : {GoodClaims, [GoodClaims EXCEPT !.iss = Absent, !.exp = Str(<<"1">>)]}]

Dates == {Absent, Str(<<"1">>), Num(-20), Num(0), Num(2), Num(20)}

ClaimRequests ==
    [values : {OneBearer}, alg : {"RS256"}, compact : {TRUE}, key : {"verified"}, object : {TRUE},
     claims : [iss : {Str(<<"issuer">>), Num(0)},
               aud : {Str(<<"me">>), Str(<<"me", "you">>), Arr(<<"you", "me">>), Arr(<<>>)},
               exp : Dates, nbf : Dates, iat : Dates \ {Num(-20)},
               scope : {Absent, Str(<<"openid", "write">>), Arr(<<"write">>)},
               scp : {Absent, Arr(<<"write">>)},
               sub : {Absent, Str(<<>>), Str(<<"alice">>), Num(42), Arr(<<"alice">>)},
               name : {Absent}]]

AllRequests == HeaderRequests \cup ClaimRequests

\* Two claims for one attribute, as Validate permits.
ClaimMap == [sub |-> "user.id", name |-> "user.id"]
Stamped  == [environment |-> <<"prod">>]
Required == <<"sub">>
=============================================================================
