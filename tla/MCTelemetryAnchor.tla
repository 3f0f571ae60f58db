------------------------- MODULE MCTelemetryAnchor --------------------------
(***************************************************************************)
(* Instances of TelemetryAnchor for TLC.                                   *)
(***************************************************************************)
EXTENDS TelemetryAnchor

CONSTANTS r1, h1, h2

OneReading  == {r1}
TwoHandlers == {h1, h2}
=============================================================================
