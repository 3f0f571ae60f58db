------------------------ MODULE MCShipmentLifecycle -------------------------
(***************************************************************************)
(* Instances of ShipmentLifecycle for TLC.                                 *)
(***************************************************************************)
EXTENDS ShipmentLifecycle

CONSTANTS s1, s2, p1, org1

OneShipment  == {s1}
TwoShipments == {s1, s2}
OnePayment   == {p1}
PaymentOfS1  == [p \in {p1} |-> s1]
OneOrg       == {org1}
OwnsS1       == [o \in {org1} |-> {s1}]

JustS1      == {<<s1>>}
BothIds     == {<<s1, s2>>}
OnceOrTwice == {<<s1>>, <<s1, s1>>}

RaceTargets == {"IN_TRANSIT", "DELIVERED", "CANCELLED"}
=============================================================================
