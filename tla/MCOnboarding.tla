---------------------------- MODULE MCOnboarding ----------------------------
(* Five requests over two emails and two company names, the body of each   *)
(* drawn from a small set so that they meet on the same documents.         *)
EXTENDS Onboarding

CONSTANTS r1, r2, r3, r4, r5, e1, e2, n0, n1

MCReqs == {r1, r2, r3, r4, r5}

Body(kind, email, of) ==
    [kind |-> kind, email |-> email, role |-> "MANAGER", by |-> "ADMIN", of |-> of,
     org |-> Home, name |-> None]

Company(email) == [Body("company", email, None) EXCEPT !.name = n1]

Rename(u, email, name) == [Body("updateMe", email, u) EXCEPT !.name = name]

Script(a, b, c, d, e) ==
    [r \in MCReqs |-> CASE r = r1 -> a [] r = r2 -> b [] r = r3 -> c
                        [] r = r4 -> d [] OTHER -> e]

(* One stored invitation: managed by r2, accepted by r3 and contested by   *)
(* r4 and r5.                                                              *)
InvitationScripts ==
    {Script(Body("invite", e1, None), a, Body("accept", None, r1), b, c) :
        a \in {Body("resend", None, r1), Body("revoke", None, r1), Body("invite", e1, None)},
        b \in {Body("accept", None, r1), Body("info", None, r1),
               Body("signup", e1, None), Company(e1)},
        c \in {Body("updateMe", e2, r3), Body("delete", None, r3), Company(e2)}}

(* A signed link, team accounts, two companies of one name and a rename.   *)
AccountScripts ==
    {Script(Body("link", e1, None), Body("joinLink", None, r1), Company(e2), a, b) :
        a \in {Company(e1), Rename(r3, e1, n0), Rename(r3, None, n1)},
        b \in {Body("register", e1, None), Body("team", e1, None), Rename(r2, e2, n0)}}

MCScripts == InvitationScripts \union AccountScripts

=============================================================================
