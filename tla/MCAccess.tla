------------------------------ MODULE MCAccess ------------------------------
(* Four or five requests of one account, chosen so that they meet on the   *)
(* same token, second factor, phone code, API key or rate-limit counter.   *)
EXTENDS Access

CONSTANTS r1, r2, r3, r4, r5, u1, p1, p2, ph

MCReqs == {r1, r2, r3, r4, r5}

Body(kind, of, on) ==
    [kind |-> kind, user |-> u1, of |-> of, on |-> on, pw |-> p1, new |-> p2,
     phone |-> ph, slot |-> 1]

Script(a, b, c, d, e) ==
    [r \in MCReqs |-> CASE r = r1 -> a [] r = r2 -> b [] r = r3 -> c
                        [] r = r4 -> d [] OTHER -> e]

Login == Body("login", None, None)

Idle == Body("none", None, None)

(* One token: refreshed or its session revoked, while it is given up, used *)
(* and refreshed again; and the token of the refresh.                      *)
TokenScripts ==
    {Script(Login, a, b, c, IF a.kind = "refresh" THEN Body("me", r2, None) ELSE Idle) :
        a \in {Body("refresh", r1, None), Body("revoke", r1, r1)},
        b \in {Body("logout", r1, None), Body("changePw", r1, None), Body("deleteMe", r1, None)},
        c \in {Body("me", r1, None), Body("refresh", r1, None)}}

(* The second factor of one account. *)
TwoFactorScripts ==
    {Script(Login, Body("setup2", r1, None), Body("verify2", r1, r2), a, b) :
        a \in {Body("consume", None, r3), Body("disable2", r1, None)},
        b \in {[Body("consume", None, r3) EXCEPT !.slot = 2], Body("regen2", r1, None)}}

(* A phone code, an API key and a password reset. *)
OtherScripts ==
    { Script(Login, Body("sendOtp", r1, None), Body("sendOtp", r1, None),
             Body("verifyOtp", r1, r2), Body("verifyOtp", r1, r3)),
      Script(Login, Body("createKey", r1, None), Body("useKey", r2, None),
             Body("revokeKey", r1, r2), Body("useKey", r2, None)),
      Script(Login, Body("createKey", r1, None), Body("revokeById", r1, r2),
             Body("revokeKey", r1, r2), Body("useKey", r2, None)),
      Script(Login, Body("forgot", None, None), Body("reset", r2, None),
             Body("changePw", r1, None), Login) }

(* Three requests from one address. *)
LimitedScripts ==
    LET hit == Body("limited", None, None) IN {Script(hit, hit, hit, Idle, Idle)}

MCScripts == TokenScripts \union TwoFactorScripts \union OtherScripts \union LimitedScripts

=============================================================================
