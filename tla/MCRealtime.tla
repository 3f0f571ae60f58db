----------------------------- MODULE MCRealtime -----------------------------
(* Two users of two organizations, a socket, two streams, a shipment of    *)
(* the first organization and one of nobody.                               *)
EXTENDS Realtime

CONSTANTS u1, u2, o1, o2, s1, s2, k1, t1, t2, e1, e2

MCParties  == [s \in {s1, s2} |-> IF s = s1 THEN {o1} ELSE {}]
MCFirstOrg == [u \in {u1, u2} |-> IF u = u1 THEN o1 ELSE o2]
MCAbout    == [e \in {e1, e2} |->
                 IF e = e1 THEN [kind |-> "status", shipment |-> s1, status |-> "CREATED"]
                 ELSE [kind |-> "location", shipment |-> s2, status |-> None]]

=============================================================================
