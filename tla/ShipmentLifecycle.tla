------------------------- MODULE ShipmentLifecycle --------------------------
(***************************************************************************)
(* Concurrent status updates of shipments, and the escrow release that a   *)
(* delivery triggers:                                                      *)
(*                                                                         *)
(*   PATCH /shipments/:id/status      updateShipmentStatusService          *)
(*   PATCH /shipments/bulk/status     bulkUpdateShipmentStatusService      *)
(*   DELETE /shipments/:id            deleteShipmentService                *)
(*                                                                         *)
(* A request runs in a slot.  Every await of the handler is a point where  *)
(* the other slots may run, so a handler is one action per awaited call:   *)
(* what a handler read before an await may be stale after it.  A single    *)
(* update is a list of one shipment; the two handlers share the steps they *)
(* share in the code and differ where the code differs.                    *)
(*                                                                         *)
(* The cache invalidations that follow the save never fail and change none *)
(* of this state; the telemetry and anomaly rows a delete cascades to      *)
(* belong to other modules (TelemetryAnchor has the telemetry rows).       *)
(***************************************************************************)
EXTENDS Naturals, Sequences, FiniteSets, ShipmentStateMachine

CONSTANTS
    Shipments,      \* shipment ids
    Payments,       \* payment ids
    ShipmentOf,     \* Payment.shipmentId
    Orgs,           \* organizations that call the bulk endpoint
    OwnedBy,        \* shipments an organization is enterprise or logistics party of
    Slots,          \* request handlers that can be in flight at the same time
    BulkIds,        \* the shipmentIds arrays clients send
    Targets,        \* the statuses clients ask for
    Soroban,        \* TRUE: the contract refuses a second release of a payment
    Faults,         \* which of "mongo", "ledger", "chain", "crash" can happen
    MaxRequests,    \* bound: requests admitted in a behaviour
    None            \* absent value

ASSUME ShipmentOfAssumption == ShipmentOf \in [Payments -> Shipments]
ASSUME BulkIdsAssumption == BulkIds \subseteq Seq(Shipments)
ASSUME OwnedByAssumption == OwnedBy \in [Orgs -> SUBSET Shipments]
ASSUME TargetsAssumption == Targets \subseteq ShipmentStatus
ASSUME SorobanAssumption == Soroban \in BOOLEAN
ASSUME MaxRequestsAssumption == MaxRequests \in Nat
ASSUME NoneAssumption == None \notin ShipmentStatus \cup Payments \cup Nat \cup Orgs

VARIABLES
    status,     \* Shipment.status
    milestones, \* the names of Shipment.milestones, in order
    deleted,    \* Shipment.deletedAt is set
    ledger,     \* the ledger blocks of a shipment, in order of creation
    payStatus,  \* Payment.status
    payTx,      \* Payment.stellarTxHash
    chain,      \* confirmed release_escrow transactions; a hash is an index
    announced,  \* the status of the last shipment:status event of a shipment
    admitted,   \* requests admitted so far
    pc,         \* where the handler in a slot is
    call,       \* its arguments
    at,         \* index of the shipment it is working on
    snap,       \* the statuses it read
    pay,        \* the payment it looked up
    relTx       \* the transaction hash of its release

shipmentVars == <<status, milestones, deleted>>
paymentVars  == <<payStatus, payTx>>
localVars    == <<call, at, snap, pay, relTx>>
vars == <<status, milestones, deleted, ledger, payStatus, payTx, chain,
          announced, admitted, pc, call, at, snap, pay, relTx>>

PaymentStatus == {"Pending", "Escrowed", "Released", "Failed", "Disputed"}

PC == {"idle", "find", "item", "write", "ledger", "payment", "release",
       "record", "settle", "emit"}

Block == [event : ShipmentStatus, prev : ShipmentStatus \cup {None}, tx : Nat]

Call == [kind : {"single", "bulk"}, ids : Seq(Shipments), to : ShipmentStatus,
         org : Orgs \cup {None}]

NoCall == [kind |-> "single", ids |-> <<>>, to |-> "CREATED", org |-> None]

NoTx == 0

Init ==
    /\ status = [s \in Shipments |-> "CREATED"]
    /\ milestones = [s \in Shipments |-> <<>>]
    /\ deleted = [s \in Shipments |-> FALSE]
    /\ ledger = [s \in Shipments |-> <<>>]
    /\ payStatus = [p \in Payments |-> "Escrowed"]
    /\ payTx = [p \in Payments |-> NoTx]
    /\ chain = <<>>
    /\ announced = [s \in Shipments |-> None]
    /\ admitted = 0
    /\ pc = [r \in Slots |-> "idle"]
    /\ call = [r \in Slots |-> NoCall]
    /\ at = [r \in Slots |-> 1]
    /\ snap = [r \in Slots |-> [s \in Shipments |-> None]]
    /\ pay = [r \in Slots |-> None]
    /\ relTx = [r \in Slots |-> NoTx]

-----------------------------------------------------------------------------

Cur(r) == call[r].ids[at[r]]            \* the shipment the handler is working on
IsSingle(r) == call[r].kind = "single"

Goto(r, l) == pc' = [pc EXCEPT ![r] = l]

(***************************************************************************)
(* The handler answers: its local state is gone.                           *)
(***************************************************************************)
Respond(r) ==
    /\ Goto(r, "idle")
    /\ call' = [call EXCEPT ![r] = NoCall]
    /\ at' = [at EXCEPT ![r] = 1]
    /\ snap' = [snap EXCEPT ![r] = [s \in Shipments |-> None]]
    /\ pay' = [pay EXCEPT ![r] = None]
    /\ relTx' = [relTx EXCEPT ![r] = NoTx]

(***************************************************************************)
(* The handler is done with one shipment: the single update answers, the   *)
(* bulk loop continues with the next id.                                   *)
(***************************************************************************)
FinishItem(r) ==
    \/ /\ IsSingle(r)
       /\ Respond(r)
    \/ /\ ~IsSingle(r)
       /\ Goto(r, "item")
       /\ at' = [at EXCEPT ![r] = @ + 1]
       /\ pay' = [pay EXCEPT ![r] = None]
       /\ relTx' = [relTx EXCEPT ![r] = NoTx]
       /\ UNCHANGED <<call, snap>>

(***************************************************************************)
(* A request arrives in a free slot.                                       *)
(***************************************************************************)
Arrive(r) ==
    /\ pc[r] = "idle"
    /\ admitted < MaxRequests
    /\ \E to \in Targets :
         \/ \E s \in Shipments :
              call' = [call EXCEPT ![r] =
                         [kind |-> "single", ids |-> <<s>>, to |-> to, org |-> None]]
         \/ \E l \in BulkIds, o \in Orgs :
              call' = [call EXCEPT ![r] =
                         [kind |-> "bulk", ids |-> l, to |-> to, org |-> o]]
    /\ admitted' = admitted + 1
    /\ Goto(r, "find")
    /\ UNCHANGED <<shipmentVars, ledger, paymentVars, chain, announced,
                   at, snap, pay, relTx>>

\* Mutant: the transition is not validated.
AcceptableUnchecked(from, to) == from # None /\ from # to

Acceptable(from, to) ==
    /\ from # None
    /\ from # to
    /\ ValidTransition(from, to)

(***************************************************************************)
(* findById / find({_id: {$in: ids}}): soft-deleted documents are not      *)
(* found.  The single update validates here and answers 404, the unchanged *)
(* document or 400; the bulk update keeps what it read for the whole loop. *)
(* An error of this query, or of the single update's look-up of the actor  *)
(* after it, is an error answer.                                           *)
(***************************************************************************)
FindShipments(r) ==
    LET read == [s \in Shipments |->
                   IF deleted[s] \/ s \notin {call[r].ids[i] : i \in DOMAIN call[r].ids}
                   THEN None ELSE status[s]]
    IN
    /\ pc[r] = "find"
    /\ \/ /\ IsSingle(r)
          /\ Acceptable(read[Cur(r)], call[r].to)
          /\ Goto(r, "write")
          /\ snap' = [snap EXCEPT ![r] = read]
          /\ UNCHANGED <<call, at, pay, relTx>>
       \/ /\ \/ IsSingle(r) /\ ~Acceptable(read[Cur(r)], call[r].to)
             \/ "mongo" \in Faults
          /\ Respond(r)
       \/ /\ ~IsSingle(r)
          /\ Goto(r, "item")
          /\ snap' = [snap EXCEPT ![r] = read]
          /\ UNCHANGED <<call, at, pay, relTx>>
    /\ UNCHANGED <<shipmentVars, ledger, paymentVars, chain, announced, admitted>>

\* Mutant: the bulk loop does not validate the transition.
EligibleUnchecked(r) == snap[r][Cur(r)] # None /\ Cur(r) \in OwnedBy[call[r].org]

(***************************************************************************)
(* Head of the bulk loop: NOT_FOUND, WRONG_ORG and INVALID_TRANSITION are  *)
(* decided on the snapshot.                                                *)
(***************************************************************************)
Eligible(r) ==
    /\ snap[r][Cur(r)] # None
    /\ Cur(r) \in OwnedBy[call[r].org]
    /\ ValidTransition(snap[r][Cur(r)], call[r].to)

(***************************************************************************)
(* The loop ends with the list; it also ends, with an error answer, when   *)
(* the look-up of the actor fails: that await is outside the loop's try,   *)
(* so the rest of the list is not processed.                               *)
(***************************************************************************)
BulkItem(r) ==
    /\ pc[r] = "item"
    /\ \/ /\ \/ at[r] > Len(call[r].ids)
             \/ at[r] <= Len(call[r].ids) /\ Eligible(r) /\ "mongo" \in Faults
          /\ Respond(r)
       \/ /\ at[r] <= Len(call[r].ids)
          /\ Eligible(r)
          /\ Goto(r, "write")
          /\ UNCHANGED localVars
       \/ /\ at[r] <= Len(call[r].ids)
          /\ ~Eligible(r)
          /\ FinishItem(r)
    /\ UNCHANGED <<shipmentVars, ledger, paymentVars, chain, announced, admitted>>

\* Mutant: the milestones read at the start are written back as a whole.
SetStatusReplace(s, to) ==
    /\ status' = [status EXCEPT ![s] = to]
    /\ milestones' = [milestones EXCEPT ![s] = <<to>>]

SetStatus(s, to) ==
    /\ status' = [status EXCEPT ![s] = to]
    /\ milestones' = [milestones EXCEPT ![s] = Append(@, to)]

\* Mutant: the bulk update does not release the escrow.
AfterWriteNoBulkRelease(r) == IF IsSingle(r) THEN "ledger" ELSE "emit"

AfterWrite(r) ==
    CASE IsSingle(r) -> "ledger"
      [] ~IsSingle(r) /\ call[r].to = "DELIVERED" -> "payment"
      [] OTHER -> "emit"

(***************************************************************************)
(* One MongoDB update sets the status and pushes the milestone.  The       *)
(* single update's save() writes by _id alone; the bulk update's           *)
(* findByIdAndUpdate skips a shipment deleted meanwhile (NOT_FOUND).       *)
(***************************************************************************)
WriteStatus(r) ==
    LET s == Cur(r) IN
    /\ pc[r] = "write"
    /\ \/ /\ IsSingle(r) \/ ~deleted[s]
          /\ SetStatus(s, call[r].to)
          /\ Goto(r, AfterWrite(r))
          /\ UNCHANGED <<localVars, deleted>>
       \/ /\ (~IsSingle(r) /\ deleted[s]) \/ "mongo" \in Faults
          /\ FinishItem(r)
          /\ UNCHANGED shipmentVars
    /\ UNCHANGED <<ledger, paymentVars, chain, announced, admitted>>

\* Mutant: previousStatus is read after the assignment.
StatusBlockLate(r) ==
    [event |-> call[r].to, prev |-> status[Cur(r)], tx |-> NoTx]

StatusBlock(r) ==
    [event |-> call[r].to, prev |-> snap[r][Cur(r)], tx |-> NoTx]

(***************************************************************************)
(* The ledger block of a single update (the bulk update writes none).  A   *)
(* failure is logged and swallowed.                                        *)
(***************************************************************************)
WriteLedger(r) ==
    /\ pc[r] = "ledger"
    /\ \/ ledger' = [ledger EXCEPT ![Cur(r)] = Append(@, StatusBlock(r))]
       \/ "ledger" \in Faults /\ UNCHANGED ledger
    /\ Goto(r, IF call[r].to = "DELIVERED" THEN "payment" ELSE "emit")
    /\ UNCHANGED <<shipmentVars, paymentVars, chain, announced, admitted, localVars>>

(***************************************************************************)
(* getPaymentByShipmentId: findOne without a sort, so any payment of the   *)
(* shipment.  None, or a failed query, goes on to the event.               *)
(***************************************************************************)
FindPayment(r) ==
    LET mine == {p \in Payments : ShipmentOf[p] = Cur(r)} IN
    /\ pc[r] = "payment"
    /\ \/ \E p \in mine :
            /\ pay' = [pay EXCEPT ![r] = p]
            /\ Goto(r, "release")
       \/ /\ mine = {} \/ "mongo" \in Faults
          /\ Goto(r, "emit")
          /\ UNCHANGED pay
    /\ UNCHANGED <<shipmentVars, ledger, paymentVars, chain, announced, admitted,
                   call, at, snap, relTx>>

\* release_escrow of the Soroban contract; the simulated adapter has no such check.
Accepts(p) == Soroban => \A k \in DOMAIN chain : chain[k] # p

\* Mutant: a release that threw is recorded as released.
OnReleaseErrorRecord(r) == Goto(r, "record")

\* Mutant: a release that threw is tried again.
OnReleaseErrorRetry(r) == Goto(r, "release")

OnReleaseError(r) == Goto(r, "emit")

(***************************************************************************)
(* releaseEscrowOnDelivery: the release is confirmed and its hash returned;*)
(* or the adapter throws, either before anything reached the chain or, as  *)
(* for a polling timeout, although the transaction is confirmed.  The      *)
(* handler swallows the error.  The payment's own status is not consulted. *)
(***************************************************************************)
ReleaseEscrow(r) ==
    /\ pc[r] = "release"
    /\ \/ /\ Accepts(pay[r])
          /\ chain' = Append(chain, pay[r])
          /\ \/ /\ relTx' = [relTx EXCEPT ![r] = Len(chain) + 1]
                /\ Goto(r, "record")
             \/ /\ "chain" \in Faults
                /\ OnReleaseError(r)
                /\ UNCHANGED relTx
       \/ /\ ~Accepts(pay[r]) \/ "chain" \in Faults
          /\ OnReleaseError(r)
          /\ UNCHANGED <<chain, relTx>>
    /\ UNCHANGED <<shipmentVars, ledger, paymentVars, announced, admitted,
                   call, at, snap, pay>>

(***************************************************************************)
(* updatePaymentStatus(RELEASED, txHash), unconditionally.                 *)
(***************************************************************************)
RecordRelease(r) ==
    /\ pc[r] = "record"
    /\ \/ /\ payStatus' = [payStatus EXCEPT ![pay[r]] = "Released"]
          /\ payTx' = [payTx EXCEPT ![pay[r]] = relTx[r]]
          /\ Goto(r, IF IsSingle(r) THEN "settle" ELSE "emit")
       \/ /\ "mongo" \in Faults
          /\ Goto(r, "emit")
          /\ UNCHANGED paymentVars
    /\ UNCHANGED <<shipmentVars, ledger, chain, announced, admitted, localVars>>

(***************************************************************************)
(* The SETTLEMENT_INITIATED ledger block of a single update.               *)
(***************************************************************************)
WriteSettlementLedger(r) ==
    /\ pc[r] = "settle"
    /\ \/ ledger' = [ledger EXCEPT ![Cur(r)] =
             Append(@, [event |-> "SETTLEMENT_INITIATED", prev |-> None, tx |-> relTx[r]])]
       \/ "ledger" \in Faults /\ UNCHANGED ledger
    /\ Goto(r, "emit")
    /\ UNCHANGED <<shipmentVars, paymentVars, chain, announced, admitted, localVars>>

\* Mutant: the event carries the status read at the start.
EmitStatusStale(r) ==
    /\ pc[r] = "emit"
    /\ announced' = [announced EXCEPT ![Cur(r)] = snap[r][Cur(r)]]
    /\ FinishItem(r)
    /\ UNCHANGED <<shipmentVars, ledger, paymentVars, chain, admitted>>

(***************************************************************************)
(* emitStatusUpdate, then the answer or the next id.                       *)
(***************************************************************************)
EmitStatus(r) ==
    /\ pc[r] = "emit"
    /\ announced' = [announced EXCEPT ![Cur(r)] = call[r].to]
    /\ FinishItem(r)
    /\ UNCHANGED <<shipmentVars, ledger, paymentVars, chain, admitted>>

(***************************************************************************)
(* deleteShipmentService sets deletedAt on a shipment that is not deleted. *)
(***************************************************************************)
DeleteShipment(s) ==
    /\ ~deleted[s]
    /\ deleted' = [deleted EXCEPT ![s] = TRUE]
    /\ UNCHANGED <<status, milestones, ledger, paymentVars, chain, announced,
                   admitted, pc, localVars>>

(***************************************************************************)
(* The process dies: every handler in flight is lost where it stands; no   *)
(* step of it is undone or resumed.                                        *)
(***************************************************************************)
Crash ==
    /\ "crash" \in Faults
    /\ \E r \in Slots : pc[r] # "idle"
    /\ pc' = [r \in Slots |-> "idle"]
    /\ call' = [r \in Slots |-> NoCall]
    /\ at' = [r \in Slots |-> 1]
    /\ snap' = [r \in Slots |-> [s \in Shipments |-> None]]
    /\ pay' = [r \in Slots |-> None]
    /\ relTx' = [r \in Slots |-> NoTx]
    /\ UNCHANGED <<shipmentVars, ledger, paymentVars, chain, announced, admitted>>

Step(r) ==
    \/ FindShipments(r) \/ BulkItem(r) \/ WriteStatus(r) \/ WriteLedger(r)
    \/ FindPayment(r) \/ ReleaseEscrow(r) \/ RecordRelease(r)
    \/ WriteSettlementLedger(r) \/ EmitStatus(r)

Next ==
    \/ \E r \in Slots : Arrive(r) \/ Step(r)
    \/ \E s \in Shipments : DeleteShipment(s)
    \/ Crash

Spec == Init /\ [][Next]_vars

(***************************************************************************)
(* A handler whose awaited call has settled is resumed by the event loop,  *)
(* and every awaited call settles (driver and HTTP timeouts).              *)
(***************************************************************************)
FairSpec == Spec /\ \A r \in Slots : WF_vars(Step(r))

-----------------------------------------------------------------------------
(***************************************************************************)
(* Properties.                                                             *)
(***************************************************************************)

\* The status a shipment had after its first i milestones.
StatusAt(s, i) == IF i = 0 THEN "CREATED" ELSE milestones[s][i]

\* The shipment had this status at some time.
Seen(s, st) == \E i \in 0..Len(milestones[s]) : StatusAt(s, i) = st

\* The shipment went from status prev to a saved milestone ev, as the table allows.
Backed(s, prev, ev) ==
    /\ prev # None
    /\ ValidTransition(prev, ev)
    /\ \E j \in 1..Len(milestones[s]) :
         /\ milestones[s][j] = ev
         /\ \E i \in 0..(j - 1) : StatusAt(s, i) = prev

TypeOK ==
    /\ status \in [Shipments -> ShipmentStatus]
    /\ milestones \in [Shipments -> Seq(ShipmentStatus)]
    /\ deleted \in [Shipments -> BOOLEAN]
    /\ ledger \in [Shipments -> Seq(Block)]
    /\ payStatus \in [Payments -> PaymentStatus]
    /\ payTx \in [Payments -> Nat]
    /\ chain \in Seq(Payments)
    /\ announced \in [Shipments -> ShipmentStatus \cup {None}]
    /\ admitted \in Nat
    /\ pc \in [Slots -> PC]
    /\ call \in [Slots -> Call]
    /\ at \in [Slots -> Nat]
    /\ snap \in [Slots -> [Shipments -> ShipmentStatus \cup {None}]]
    /\ pay \in [Slots -> Payments \cup {None}]
    /\ relTx \in [Slots -> Nat]

(***************************************************************************)
(* Whatever updates race, the stored status is the last milestone: the     *)
(* save of the single update and the findByIdAndUpdate of the bulk update  *)
(* set the one and push the other together.                                *)
(***************************************************************************)
StatusIsLastMilestone ==
    \A s \in Shipments : status[s] = StatusAt(s, Len(milestones[s]))

(***************************************************************************)
(* Even when handlers act on stale reads, no status appears out of thin    *)
(* air: every milestone is an allowed transition from a status that the    *)
(* shipment really had earlier (the one its handler validated against).    *)
(***************************************************************************)
HistoryJustified ==
    \A s \in Shipments : \A j \in 1..Len(milestones[s]) :
        \E i \in 0..(j - 1) : ValidTransition(StatusAt(s, i), milestones[s][j])

(***************************************************************************)
(* The ledger never runs ahead of the shipment: a status block stands for  *)
(* a milestone that was saved, and the previousStatus it records is one    *)
(* the shipment had before that milestone, with an allowed transition      *)
(* between them.  A settlement block carries the hash of a confirmed       *)
(* release of a payment of that shipment.                                  *)
(***************************************************************************)
LedgerBacked ==
    \A s \in Shipments : \A k \in 1..Len(ledger[s]) :
        LET b == ledger[s][k] IN
        IF b.tx = NoTx
        THEN Backed(s, b.prev, b.event)
        ELSE b.tx \in 1..Len(chain) /\ ShipmentOf[chain[b.tx]] = s

(***************************************************************************)
(* A payment the delivery handlers marked Released carries the hash of a   *)
(* confirmed release of that very payment, in spite of adapter timeouts    *)
(* and of two deliveries releasing at the same time.                       *)
(***************************************************************************)
RecordedReleaseIsReal ==
    \A p \in Payments : payStatus[p] = "Released" =>
        payTx[p] \in 1..Len(chain) /\ chain[payTx[p]] = p

(***************************************************************************)
(* Escrow is released only for deliveries that were saved, and at most     *)
(* once for each of them: racing, failing or interrupted handlers never    *)
(* release more often than the shipment was marked DELIVERED.              *)
(***************************************************************************)
ReleasesBounded ==
    \A s \in Shipments :
        Cardinality({k \in 1..Len(chain) : ShipmentOf[chain[k]] = s})
          <= Cardinality({j \in 1..Len(milestones[s]) : milestones[s][j] = "DELIVERED"})

(***************************************************************************)
(* The state machine as the transition table describes it: each milestone  *)
(* follows from the one before it.  Holds when requests do not overlap and *)
(* no bulk list names a shipment twice.                                    *)
(***************************************************************************)
LegalHistory ==
    \A s \in Shipments : \A j \in 1..Len(milestones[s]) :
        ValidTransition(StatusAt(s, j - 1), milestones[s][j])

(***************************************************************************)
(* When no handler is in flight, the last shipment:status event told the   *)
(* clients the status that is stored.  (Requests one at a time, no crash.) *)
(***************************************************************************)
AnnouncedIsCurrent ==
    (\A r \in Slots : pc[r] = "idle") =>
        \A s \in Shipments : milestones[s] # <<>> => announced[s] = status[s]

(***************************************************************************)
(* Without faults every delivery is paid: once DELIVERED is saved, by      *)
(* either handler and in whatever race, the payment becomes Released.      *)
(***************************************************************************)
DeliveredIsPaid ==
    \A p \in Payments :
        (\E j \in 1..Len(milestones[ShipmentOf[p]]) :
            milestones[ShipmentOf[p]][j] = "DELIVERED") ~> (payStatus[p] = "Released")

-----------------------------------------------------------------------------
(***************************************************************************)
(* The inductive invariant behind the safety properties: what a handler    *)
(* knows at each await.                                                    *)
(***************************************************************************)
Working == {"write", "ledger", "payment", "release", "record", "settle", "emit"}

\* The handler's position in its list, and the payment and release it holds.
SlotOK(r) ==
    /\ at[r] >= 1
    /\ pc[r] \in {"idle", "find"} => at[r] = 1
    /\ pc[r] = "find" /\ IsSingle(r) => Len(call[r].ids) = 1
    /\ pc[r] = "item" => ~IsSingle(r)
    /\ pc[r] \in Working => at[r] <= Len(call[r].ids)
    /\ pc[r] \in {"release", "record", "settle"} =>
          pay[r] \in Payments /\ ShipmentOf[pay[r]] = Cur(r)
    /\ pc[r] \in {"record", "settle"} =>
          relTx[r] \in 1..Len(chain) /\ chain[relTx[r]] = pay[r]

HandlerOK == \A r \in Slots : SlotOK(r)

\* What it read was true once, what it is about to write is allowed from there,
\* and what it is about to put in the ledger has been written.
SlotReadsOK(r) ==
    /\ \A s \in Shipments : snap[r][s] # None => Seen(s, snap[r][s])
    /\ pc[r] = "write" =>
          snap[r][Cur(r)] # None /\ ValidTransition(snap[r][Cur(r)], call[r].to)
    /\ pc[r] = "ledger" => Backed(Cur(r), snap[r][Cur(r)], call[r].to)

ReadsOK == \A r \in Slots : SlotReadsOK(r)

(***************************************************************************)
(* The whole of it: types, handlers, reads and the four safety properties. *)
(* It is proved inductive in ShipmentLifecycleProofs.                      *)
(***************************************************************************)
IInv ==
    /\ TypeOK
    /\ HandlerOK
    /\ StatusIsLastMilestone
    /\ ReadsOK
    /\ HistoryJustified
    /\ LedgerBacked
    /\ RecordedReleaseIsReal

(***************************************************************************)
(* Histories are only ever extended: no racing save, bulk write, delete or *)
(* crash removes or rewrites a milestone, a ledger block or a chain        *)
(* transaction that is already there.                                      *)
(***************************************************************************)
Extends(old, new) ==
    /\ Len(old) <= Len(new)
    /\ \A i \in 1..Len(old) : new[i] = old[i]

HistoriesGrow ==
    [][/\ \A s \in Shipments : Extends(milestones[s], milestones'[s])
       /\ \A s \in Shipments : Extends(ledger[s], ledger'[s])
       /\ Extends(chain, chain')]_vars

=============================================================================
