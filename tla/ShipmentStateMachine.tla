------------------------ MODULE ShipmentStateMachine ------------------------
(***************************************************************************)
(* The shipment status enum and its transition table                       *)
(* (src/src/shared/constants/shipmentStateMachine.ts).                     *)
(***************************************************************************)

ShipmentStatus ==
    {"CREATED", "PICKUP_CONFIRMED", "IN_TRANSIT", "CUSTOMS_CLEARED",
     "OUT_FOR_DELIVERY", "DELIVERED", "SETTLEMENT_INITIATED",
     "SETTLEMENT_COMPLETED", "CANCELLED"}

ALLOWED_TRANSITIONS ==
    [st \in ShipmentStatus |->
        CASE st = "CREATED"          -> {"PICKUP_CONFIRMED", "IN_TRANSIT", "CANCELLED"}
          [] st = "PICKUP_CONFIRMED" -> {"IN_TRANSIT", "CANCELLED"}
          [] st = "IN_TRANSIT"       -> {"CUSTOMS_CLEARED", "OUT_FOR_DELIVERY",
                                         "DELIVERED", "CANCELLED"}
          [] st = "CUSTOMS_CLEARED"  -> {"OUT_FOR_DELIVERY", "DELIVERED", "CANCELLED"}
          [] st = "OUT_FOR_DELIVERY" -> {"DELIVERED", "CANCELLED"}
          [] st = "DELIVERED"        -> {"SETTLEMENT_INITIATED"}
          [] st = "SETTLEMENT_INITIATED" -> {"SETTLEMENT_COMPLETED"}
          [] OTHER                   -> {}]

(***************************************************************************)
(* validateStatusTransition(from, to) returns instead of throwing 400.     *)
(***************************************************************************)
ValidTransition(from, to) == to \in ALLOWED_TRANSITIONS[from]

=============================================================================
