------------------------------ MODULE KeyCache ------------------------------
(***************************************************************************)
(* What the authenticator promises of its keys, without its goroutines,    *)
(* mutexes and fetches: one image of the provider's keys, replaced whole   *)
(* and never by an empty one, nor by one the provider served more than     *)
(* FetchTimeout ago; and every request judged in a single step, by the     *)
(* image of that step.  Only the refusal of an unknown key may be late: it *)
(* is due to an image the request saw, though another may be there by now. *)
(* Module Discovery implements this one.                                   *)
(***************************************************************************)
EXTENDS Integers

CONSTANTS
    Req, Tokens,
    NoToken,       \* of a request that has shown none, or has its answer
    Images,        \* the images of keys a provider may serve
    NoImage,       \* what there is before the first
    Verdict(_, _), \* the answer to a token, by an image
    FetchTimeout

VARIABLES
    image, servedAt,   \* the keys, and when the provider served them
    clock,
    client             \* each request: "idle", "asked", "missed" or "done", token and answer

vars == <<image, servedAt, clock, client>>

Client(st, token, answer) == [st |-> st, token |-> token, answer |-> answer]
Set(r, c) == client' = [client EXCEPT ![r] = c]
Judged(r) == Verdict(image, client[r].token)

Ask(r, tok) ==
    /\ client[r].st = "idle"
    /\ \/ image = NoImage /\ Set(r, Client("done", NoToken, "not_ready"))
       \/ image # NoImage /\ Set(r, Client("asked", tok, "none"))
    /\ UNCHANGED <<image, servedAt, clock>>

Miss(r) ==
    /\ client[r].st = "asked" /\ Judged(r) = "unknown_kid"
    /\ Set(r, [client[r] EXCEPT !.st = "missed"])
    /\ UNCHANGED <<image, servedAt, clock>>

Answer(r) ==
    /\ \/ client[r].st \in {"asked", "missed"} /\ Judged(r) # "unknown_kid"
          /\ Set(r, Client("done", NoToken, Judged(r)))
       \/ client[r].st = "missed" /\ Set(r, Client("done", NoToken, "unknown_kid"))
    /\ UNCHANGED <<image, servedAt, clock>>

Replace(new, at) ==
    /\ image' = new /\ servedAt' = at
    /\ clock - at <= FetchTimeout
    /\ UNCHANGED <<clock, client>>

Tick ==
    /\ clock' = clock + 1
    /\ UNCHANGED <<image, servedAt, client>>

Init ==
    /\ image = NoImage /\ servedAt = 0 /\ clock = 0
    /\ client = [r \in Req |-> Client("idle", NoToken, "none")]

Next ==
    \/ \E r \in Req : (\E tok \in Tokens : Ask(r, tok)) \/ Miss(r) \/ Answer(r)
    \/ \E new \in Images : \E at \in 0..clock : Replace(new, at)
    \/ Tick

Spec == Init /\ [][Next]_vars
=============================================================================
