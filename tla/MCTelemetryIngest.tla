-------------------------- MODULE MCTelemetryIngest --------------------------
(* Readings of two shipments that break limits or lose the position,       *)
(* entering by both routes, and requests that meet on an estimate, on an   *)
(* anomaly or on a threshold profile.                                      *)
EXTENDS TelemetryIngest

CONSTANTS r1, r2, r3, r4, s1, s2

MCReqs == {r1, r2, r3, r4}

MCTypeOf == [s \in {s1, s2} |-> IF s = s1 THEN "DEFAULT" ELSE "COLD"]

NoLimits == [l \in DOMAIN Defaults |-> None]

Good(s, ts) == [shipment |-> s, temp |-> 20, hum |-> 50, bat |-> None, shock |-> 0,
                gps |-> TRUE, ts |-> ts]
Lost(s, ts) == [Good(s, ts) EXCEPT !.gps = FALSE]
Hot(s, ts)  == [Good(s, ts) EXCEPT !.temp = 26, !.bat = 10]

Body(kind, s, items) ==
    [kind |-> kind, role |-> "ADMIN", valid |-> TRUE, shipment |-> s, items |-> items,
     on |-> None, type |-> "DEFAULT", limits |-> NoLimits, to |-> "DELIVERED"]

Iot(x)  == Body("iot", None, <<x>>)
Idle    == Body("none", None, <<>>)
Resolve == [Body("resolve", None, <<>>) EXCEPT !.on = <<r1, 1>>, !.type = "TEMPERATURE_EXCEEDED"]
Limit(type, lim) == [Body("putLimits", None, <<>>) EXCEPT !.type = type, !.limits = lim]

Script(a, b, c, d) ==
    [r \in MCReqs |-> CASE r = r1 -> a [] r = r2 -> b [] r = r3 -> c [] OTHER -> d]

(* Positions are lost, some of the readings arriving late. *)
GpsScripts ==
    { Script(Iot(Lost(s1, 1)), Iot(Lost(s1, 2)), Iot(Good(s1, 0)), Iot(Lost(s1, 2))),
      Script(Iot(Good(s1, 1)), Iot(Lost(s1, 2)), Iot(Good(s1, 0)), Idle) }

(* Limits are broken while they change. *)
LimitScripts ==
    { Script(Body("bulk", None, <<Hot(s2, 1)>>), Iot(Hot(s2, 2)), a, b) :
        a \in {Limit("COLD", [NoLimits EXCEPT !.maxTemp = 30, !.minBatteryLevel = 0]),
               Limit("DEFAULT", [NoLimits EXCEPT !.minHumidity = 60])},
        b \in {Resolve, Body("getLimits", None, <<>>)} }

(* A bulk request of two items, one resolved and cleaned up. *)
BulkScripts ==
    { Script(Body("bulk", None, <<Hot(s1, 1), Good(s2, 1)>>), Resolve,
             Body("stats", None, <<>>), Body("stats", None, <<>>)) }

(* Estimates while readings arrive and the shipment moves. *)
EtaScripts ==
    { Script(a, Body("eta", s1, <<>>), Body("eta", s1, <<>>), b) :
        a \in {Body("bulk", None, <<Good(s1, 1), Good(s1, 1)>>), Iot(Good(None, 1))},
        b \in {Body("move", s1, <<>>), Body("moveMany", s1, <<>>)} }

(* Requests that are refused. *)
RefusedScripts ==
    { Script([Iot(Good(s1, 1)) EXCEPT !.valid = FALSE], [Resolve EXCEPT !.role = "VIEWER"],
             Body("eta", s2, <<>>), Idle),
      Script(Body("move", s1, <<>>), Body("move", s2, <<>>), Iot(Good(None, 1)), Idle) }

MCScripts == GpsScripts \union LimitScripts \union BulkScripts \union EtaScripts \union RefusedScripts

=============================================================================
