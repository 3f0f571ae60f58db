---------------------------- MODULE MCSettlement ----------------------------
(* One payment that is funded and paid out while its webhooks arrive and   *)
(* the indexer runs; two calls of one account; the routes and the summary. *)
EXTENDS Settlement

CONSTANTS r1, r2, r3, r4, r5, s1

MCReqs == {r1, r2, r3, r4, r5}

Body(kind, on, of) ==
    [kind |-> kind, role |-> "ADMIN", valid |-> TRUE, shipment |-> s1,
     status |-> "Pending", on |-> on, of |-> of]

Script(a, b, c, d, e) ==
    [r \in MCReqs |-> CASE r = r1 -> a [] r = r2 -> b [] r = r3 -> c
                        [] r = r4 -> d [] OTHER -> e]

Create == Body("create", None, None)
Fund   == Body("fund", r1, None)
PayOut == Body("payOut", r1, None)
Anchor == Body("anchor", None, None)
Idle   == Body("none", None, None)

(* The escrow's events, in either order, and a hand on the status. *)
WebhookScripts ==
    {Script(Create, Fund, PayOut, a, b) :
        a \in {Body("escrow", r1, r2), Body("release", r1, r3), Body("failed", r1, r3)},
        b \in {Body("release", r1, r3), Body("dispute", r1, None), PayOut,
               [Body("update", r1, r2) EXCEPT !.status = "Released"]}}

(* Calls of the backend's account, and events outside the spec. *)
CallScripts ==
    { Script(Anchor, Anchor, Body("alien", None, None), [Anchor EXCEPT !.valid = FALSE], Idle) }

(* The routes and the summary. *)
RouteScripts ==
    { Script(Create, Body("summary", None, None), Body("summary", None, None),
             [Body("update", r1, None) EXCEPT !.status = "Released"], Body("get", r1, None)),
      Script(Create, [Body("dispute", r1, None) EXCEPT !.role = "VIEWER"],
             [Body("update", r1, None) EXCEPT !.valid = FALSE],
             Body("dispute", r2, None), Idle) }

MCScripts == WebhookScripts \union CallScripts \union RouteScripts

=============================================================================
