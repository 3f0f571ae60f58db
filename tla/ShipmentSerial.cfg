SPECIFICATION Spec
CONSTANTS
    s1 = s1
    s2 = s2
    p1 = p1
    org1 = org1
    None = None
    Payments <- OnePayment
    ShipmentOf <- PaymentOfS1
    Orgs <- OneOrg
    Shipments <- TwoShipments
    OwnedBy <- OwnsS1
    Slots = {r1}
    BulkIds <- BothIds
    Targets <- ShipmentStatus
    Soroban = FALSE
    Faults = {"mongo", "ledger", "chain"}
    MaxRequests = 5
CHECK_DEADLOCK FALSE
INVARIANT LegalHistory
 
