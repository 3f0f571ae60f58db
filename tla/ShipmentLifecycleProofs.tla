---------------------- MODULE ShipmentLifecycleProofs -----------------------
(***************************************************************************)
(* Proofs about ShipmentLifecycle, for any sets of shipments, payments and *)
(* slots, any bulk lists, any faults and either adapter.                   *)
(***************************************************************************)
EXTENDS ShipmentLifecycle, FiniteSetTheorems, TLAPS

USE DEF NoTx, Goto

(***************************************************************************)
(* The type part of the invariant: what the provers need about the values  *)
(* a handler holds.                                                        *)
(***************************************************************************)
Typed == TypeOK /\ HandlerOK

\* A handler that is working on a shipment works on a shipment.
LEMMA CurIsShipment ==
    ASSUME TypeOK, HandlerOK, NEW r \in Slots,
           pc[r] \in Working \/ (pc[r] = "find" /\ IsSingle(r))
                  \/ (pc[r] = "item" /\ at[r] <= Len(call[r].ids))
    PROVE  /\ Cur(r) \in Shipments
           /\ at[r] \in 1..Len(call[r].ids)
    <1>1. call[r].ids \in Seq(Shipments) /\ at[r] \in Nat
        BY DEF TypeOK, Call
    <1>2. at[r] >= 1 /\ at[r] <= Len(call[r].ids)
        BY <1>1 DEF HandlerOK, SlotOK
    <1>3. at[r] \in 1..Len(call[r].ids)
        BY <1>1, <1>2
    <1> QED BY <1>1, <1>3 DEF Cur

\* NoCall is a well-formed call.
LEMMA NoCallType == NoCall \in Call
    BY DEF NoCall, Call, ShipmentStatus

\* Answering leaves the local variables well typed.
LEMMA RespondTyped ==
    ASSUME Typed, NEW r \in Slots, Respond(r)
    PROVE  /\ pc' \in [Slots -> PC]
           /\ call' \in [Slots -> Call]
           /\ at' \in [Slots -> Nat]
           /\ snap' \in [Slots -> [Shipments -> ShipmentStatus \cup {None}]]
           /\ pay' \in [Slots -> Payments \cup {None}]
           /\ relTx' \in [Slots -> Nat]
    BY NoCallType DEF Typed, TypeOK, Respond, PC

\* So does finishing a shipment.
LEMMA FinishItemTyped ==
    ASSUME Typed, NEW r \in Slots, FinishItem(r)
    PROVE  /\ pc' \in [Slots -> PC]
           /\ call' \in [Slots -> Call]
           /\ at' \in [Slots -> Nat]
           /\ snap' \in [Slots -> [Shipments -> ShipmentStatus \cup {None}]]
           /\ pay' \in [Slots -> Payments \cup {None}]
           /\ relTx' \in [Slots -> Nat]
    <1>1. CASE Respond(r)
        BY <1>1, RespondTyped
    <1>2. CASE ~Respond(r)
        <2>1. /\ Goto(r, "item")
              /\ at' = [at EXCEPT ![r] = at[r] + 1]
              /\ pay' = [pay EXCEPT ![r] = None]
              /\ relTx' = [relTx EXCEPT ![r] = 0]
              /\ call' = call /\ snap' = snap
            BY <1>2 DEF FinishItem
        <2>2. at[r] + 1 \in Nat
            BY DEF Typed, TypeOK
        <2> QED BY <2>1, <2>2 DEF Typed, TypeOK, PC
    <1> QED BY <1>1, <1>2

\* Every step of the system preserves the types.
LEMMA TypeStep ==
    ASSUME Typed, [Next]_vars
    PROVE  TypeOK'
    <1> USE DEF Typed
    <1>1. ASSUME NEW r \in Slots, Arrive(r) PROVE TypeOK'
        <2>1. call' \in [Slots -> Call]
            <3>1. \A to \in Targets, s \in Shipments :
                    [kind |-> "single", ids |-> <<s>>, to |-> to, org |-> None] \in Call
                BY TargetsAssumption DEF Call
            <3>2. \A to \in Targets, l \in BulkIds, o \in Orgs :
                    [kind |-> "bulk", ids |-> l, to |-> to, org |-> o] \in Call
                BY TargetsAssumption, BulkIdsAssumption DEF Call
            <3>3. PICK c \in Call : call' = [call EXCEPT ![r] = c]
                BY <1>1, <3>1, <3>2, Zenon DEF Arrive
            <3> QED BY <3>3 DEF TypeOK
        <2> QED BY <1>1, <2>1 DEF Arrive, TypeOK, shipmentVars, paymentVars, PC
    <1>2. ASSUME NEW r \in Slots, FindShipments(r) PROVE TypeOK'
        <2>1. CASE Respond(r)
            BY <1>2, <2>1, RespondTyped DEF FindShipments, TypeOK, shipmentVars, paymentVars
        <2>2. CASE ~Respond(r)
            <3>1. snap' \in [Slots -> [Shipments -> ShipmentStatus \cup {None}]]
                <4> DEFINE read == [s \in Shipments |->
                       IF deleted[s] \/ s \notin {call[r].ids[i] : i \in DOMAIN call[r].ids}
                       THEN None ELSE status[s]]
                <4>1. read \in [Shipments -> ShipmentStatus \cup {None}]
                    BY DEF TypeOK
                <4>2. snap' = [snap EXCEPT ![r] = read]
                    BY <1>2, <2>2 DEF FindShipments
                <4> HIDE DEF read
                <4> QED BY <4>1, <4>2 DEF TypeOK
            <3> QED BY <1>2, <2>2, <3>1 DEF FindShipments, TypeOK, shipmentVars, paymentVars, PC
        <2> QED BY <2>1, <2>2
    <1>3. ASSUME NEW r \in Slots, BulkItem(r) PROVE TypeOK'
        <2>1. CASE Respond(r)
            BY <1>3, <2>1, RespondTyped DEF BulkItem, TypeOK, shipmentVars, paymentVars
        <2>2. CASE FinishItem(r)
            BY <1>3, <2>2, FinishItemTyped DEF BulkItem, TypeOK, shipmentVars, paymentVars
        <2>3. CASE ~Respond(r) /\ ~FinishItem(r)
            BY <1>3, <2>3 DEF BulkItem, TypeOK, shipmentVars, paymentVars, localVars, PC
        <2> QED BY <2>1, <2>2, <2>3
    <1>4. ASSUME NEW r \in Slots, WriteStatus(r) PROVE TypeOK'
        <2>1. CASE FinishItem(r) /\ UNCHANGED shipmentVars
            BY <1>4, <2>1, FinishItemTyped DEF WriteStatus, TypeOK, shipmentVars, paymentVars
        <2>2. CASE ~(FinishItem(r) /\ UNCHANGED shipmentVars)
            <3>1. call[r].to \in ShipmentStatus
                BY DEF TypeOK, Call
            <3>2. AfterWrite(r) \in PC
                BY DEF AfterWrite, PC
            <3>3. Cur(r) \in Shipments
                BY <1>4, CurIsShipment DEF WriteStatus, Working
            <3>4. Append(milestones[Cur(r)], call[r].to) \in Seq(ShipmentStatus)
                BY <3>1, <3>3 DEF TypeOK
            <3>5. /\ status' = [status EXCEPT ![Cur(r)] = call[r].to]
                  /\ milestones' = [milestones EXCEPT ![Cur(r)] =
                                      Append(milestones[Cur(r)], call[r].to)]
                  /\ pc' = [pc EXCEPT ![r] = AfterWrite(r)]
                BY <1>4, <2>2 DEF WriteStatus, SetStatus, Goto
            <3>6. UNCHANGED <<deleted, ledger, payStatus, payTx, chain, announced,
                              admitted, call, at, snap, pay, relTx>>
                BY <1>4, <2>2 DEF WriteStatus, paymentVars, localVars
            <3>7. status' \in [Shipments -> ShipmentStatus]
                BY <3>1, <3>5 DEF TypeOK
            <3>8. milestones' \in [Shipments -> Seq(ShipmentStatus)]
                BY <3>4, <3>5 DEF TypeOK
            <3>9. pc' \in [Slots -> PC]
                BY <3>2, <3>5 DEF TypeOK
            <3> QED BY <3>6, <3>7, <3>8, <3>9 DEF TypeOK
        <2> QED BY <2>1, <2>2
    <1>5. ASSUME NEW r \in Slots, WriteLedger(r) PROVE TypeOK'
        <2>1. Cur(r) \in Shipments
            BY <1>5, CurIsShipment DEF WriteLedger, Working
        <2>2. StatusBlock(r) \in Block
            BY <2>1 DEF StatusBlock, Block, TypeOK, Call
        <2>3. Append(ledger[Cur(r)], StatusBlock(r)) \in Seq(Block)
            BY <2>1, <2>2 DEF TypeOK
        <2> QED BY <1>5, <2>1, <2>3 DEF WriteLedger, TypeOK, shipmentVars, paymentVars, localVars, PC
    <1>6. ASSUME NEW r \in Slots, FindPayment(r) PROVE TypeOK'
        BY <1>6 DEF FindPayment, TypeOK, shipmentVars, paymentVars, PC
    <1>7. ASSUME NEW r \in Slots, ReleaseEscrow(r) PROVE TypeOK'
        <2>1. pay[r] \in Payments
            BY <1>7 DEF ReleaseEscrow, HandlerOK, SlotOK
        <2>2. Append(chain, pay[r]) \in Seq(Payments) /\ Len(chain) + 1 \in Nat
            BY <2>1 DEF TypeOK
        <2> QED BY <1>7, <2>2 DEF ReleaseEscrow, OnReleaseError, TypeOK, shipmentVars, paymentVars, PC
    <1>8. ASSUME NEW r \in Slots, RecordRelease(r) PROVE TypeOK'
        BY <1>8 DEF RecordRelease, TypeOK, shipmentVars, paymentVars, localVars, PC, PaymentStatus
    <1>9. ASSUME NEW r \in Slots, WriteSettlementLedger(r) PROVE TypeOK'
        <2> DEFINE b == [event |-> "SETTLEMENT_INITIATED", prev |-> None, tx |-> relTx[r]]
        <2>1. Cur(r) \in Shipments
            BY <1>9, CurIsShipment DEF WriteSettlementLedger, Working
        <2>2. b \in Block
            BY DEF Block, TypeOK, ShipmentStatus
        <2>3. Append(ledger[Cur(r)], b) \in Seq(Block)
            BY <2>1, <2>2 DEF TypeOK
        <2> QED BY <1>9, <2>1, <2>3
                DEF WriteSettlementLedger, TypeOK, shipmentVars, paymentVars, localVars, PC
    <1>10. ASSUME NEW r \in Slots, EmitStatus(r) PROVE TypeOK'
        <2>1. call[r].to \in ShipmentStatus
            BY DEF TypeOK, Call
        <2> QED BY <1>10, <2>1, FinishItemTyped DEF EmitStatus, TypeOK, shipmentVars, paymentVars
    <1>11. ASSUME NEW s \in Shipments, DeleteShipment(s) PROVE TypeOK'
        BY <1>11 DEF DeleteShipment, TypeOK, paymentVars, localVars
    <1>12. ASSUME Crash PROVE TypeOK'
        BY <1>12, NoCallType DEF Crash, TypeOK, shipmentVars, paymentVars, PC
    <1>13. ASSUME UNCHANGED vars PROVE TypeOK'
        BY <1>13 DEF vars, TypeOK
    <1> QED BY <1>1, <1>2, <1>3, <1>4, <1>5, <1>6, <1>7, <1>8, <1>9, <1>10, <1>11, <1>12, <1>13
            DEF Next, Step

-----------------------------------------------------------------------------
(***************************************************************************)
(* Frames: a step of one slot leaves the other handlers alone, and no step *)
(* shortens or rewrites a history.                                         *)
(***************************************************************************)
SameSlot(q) ==
    /\ pc'[q] = pc[q] /\ call'[q] = call[q] /\ at'[q] = at[q]
    /\ snap'[q] = snap[q] /\ pay'[q] = pay[q] /\ relTx'[q] = relTx[q]

\* A handler's step changes no other handler's state.
LEMMA StepFrame ==
    ASSUME Typed, NEW r \in Slots, NEW q \in Slots, q # r, Arrive(r) \/ Step(r)
    PROVE  SameSlot(q)
    <1> USE DEF Typed, TypeOK, SameSlot
    <1>1. CASE Respond(r)
        BY <1>1 DEF Respond
    <1>2. CASE ~Respond(r) /\ FinishItem(r)
        BY <1>2 DEF FinishItem
    <1>3. CASE ~Respond(r) /\ ~FinishItem(r)
        <2>1. CASE Arrive(r)
            BY <2>1 DEF Arrive
        <2>2. CASE FindShipments(r)
            BY <1>3, <2>2 DEF FindShipments
        <2>3. CASE BulkItem(r)
            BY <1>3, <2>3 DEF BulkItem, localVars
        <2>4. CASE WriteStatus(r)
            BY <1>3, <2>4 DEF WriteStatus, localVars
        <2>5. CASE WriteLedger(r)
            BY <2>5 DEF WriteLedger, localVars
        <2>6. CASE FindPayment(r)
            BY <2>6 DEF FindPayment
        <2>7. CASE ReleaseEscrow(r)
            BY <2>7 DEF ReleaseEscrow, OnReleaseError
        <2>8. CASE RecordRelease(r)
            BY <2>8 DEF RecordRelease, localVars
        <2>9. CASE WriteSettlementLedger(r)
            BY <2>9 DEF WriteSettlementLedger, localVars
        <2>10. CASE EmitStatus(r)
            BY <1>3, <2>10 DEF EmitStatus
        <2> QED BY <2>1, <2>2, <2>3, <2>4, <2>5, <2>6, <2>7, <2>8, <2>9, <2>10 DEF Step
    <1> QED BY <1>1, <1>2, <1>3

\* A sequence is extended by Append, and by itself.
LEMMA ExtendsAppend ==
    ASSUME NEW S, NEW q \in Seq(S), NEW e \in S
    PROVE  Extends(q, Append(q, e)) /\ Extends(q, q)
    BY DEF Extends

Grown ==
    /\ \A s \in Shipments : Extends(milestones[s], milestones'[s])
    /\ \A s \in Shipments : Extends(ledger[s], ledger'[s])
    /\ Extends(chain, chain')

\* Every step only appends to the histories.
LEMMA GrowStep ==
    ASSUME Typed, [Next]_vars
    PROVE  Grown
    <1> USE DEF Typed
    <1>a. /\ \A s \in Shipments : Extends(milestones[s], milestones[s])
          /\ \A s \in Shipments : Extends(ledger[s], ledger[s])
          /\ Extends(chain, chain)
        BY DEF TypeOK, Extends
    <1>1. ASSUME NEW r \in Slots, WriteStatus(r) PROVE Grown
        <2>1. Cur(r) \in Shipments /\ call[r].to \in ShipmentStatus
            BY <1>1, CurIsShipment DEF WriteStatus, Working, TypeOK, Call
        <2>2. Extends(milestones[Cur(r)], Append(milestones[Cur(r)], call[r].to))
            BY <2>1, ExtendsAppend DEF TypeOK
        <2>3. \/ milestones' = milestones
              \/ milestones' = [milestones EXCEPT ![Cur(r)] = Append(@, call[r].to)]
            BY <1>1 DEF WriteStatus, SetStatus, shipmentVars
        <2>4. \A s \in Shipments : Extends(milestones[s], milestones'[s])
            BY <1>a, <2>1, <2>2, <2>3 DEF TypeOK
        <2> QED BY <1>1, <1>a, <2>4 DEF WriteStatus, Grown
    <1>2. ASSUME NEW r \in Slots, WriteLedger(r) \/ WriteSettlementLedger(r) PROVE Grown
        <2>1. Cur(r) \in Shipments
            BY <1>2, CurIsShipment DEF WriteLedger, WriteSettlementLedger, Working
        <2>2. PICK b : ledger' = ledger \/ ledger' = [ledger EXCEPT ![Cur(r)] = Append(@, b)]
            BY <1>2 DEF WriteLedger, WriteSettlementLedger
        <2>3. Extends(ledger[Cur(r)], Append(ledger[Cur(r)], b))
            BY <2>1 DEF TypeOK, Extends
        <2>4. \A s \in Shipments : Extends(ledger[s], ledger'[s])
            BY <1>a, <2>1, <2>2, <2>3 DEF TypeOK
        <2> QED BY <1>2, <1>a, <2>4 DEF WriteLedger, WriteSettlementLedger, shipmentVars, Grown
    <1>3. ASSUME NEW r \in Slots, ReleaseEscrow(r) PROVE Grown
        <2>1. Extends(chain, Append(chain, pay[r]))
            BY DEF TypeOK, Extends
        <2> QED BY <1>3, <1>a, <2>1 DEF ReleaseEscrow, shipmentVars, Grown
    <1>4. ASSUME UNCHANGED <<milestones, ledger, chain>> PROVE Grown
        BY <1>4, <1>a DEF Grown
    <1>5. ASSUME NEW r \in Slots, Arrive(r) \/ FindShipments(r) \/ BulkItem(r) \/ FindPayment(r)
                                 \/ RecordRelease(r) \/ EmitStatus(r)
          PROVE UNCHANGED <<milestones, ledger, chain>>
        BY <1>5 DEF Arrive, FindShipments, BulkItem, FindPayment, RecordRelease, EmitStatus, shipmentVars
    <1>6. ASSUME NEW s \in Shipments, DeleteShipment(s) PROVE UNCHANGED <<milestones, ledger, chain>>
        BY <1>6 DEF DeleteShipment
    <1>7. ASSUME Crash \/ UNCHANGED vars PROVE UNCHANGED <<milestones, ledger, chain>>
        BY <1>7 DEF Crash, vars, shipmentVars
    <1> QED BY <1>1, <1>2, <1>3, <1>4, <1>5, <1>6, <1>7 DEF Next, Step

-----------------------------------------------------------------------------
(***************************************************************************)
(* What a handler holds: its place in the list, its payment, its release.  *)
(***************************************************************************)

\* Another slot's step, however the chain grows, keeps what a handler holds.
LEMMA SlotStable ==
    ASSUME Typed, NEW q \in Slots, SameSlot(q), Extends(chain, chain'), TypeOK'
    PROVE  SlotOK(q)'
    <1>1. SlotOK(q)
        BY DEF Typed, HandlerOK
    <1>2. Len(chain) \in Nat /\ Len(chain') \in Nat
        BY DEF Typed, TypeOK
    <1>3. IsSingle(q)' <=> IsSingle(q)
        BY DEF SameSlot, IsSingle
    <1>4. Cur(q)' = Cur(q)
        BY DEF SameSlot, Cur
    <1>5. relTx[q] \in 1..Len(chain) =>
            relTx[q] \in 1..Len(chain') /\ chain'[relTx[q]] = chain[relTx[q]]
        BY <1>2 DEF Extends
    <1> QED BY <1>1, <1>3, <1>4, <1>5 DEF SlotOK, SameSlot

\* A handler that has answered holds nothing.
LEMMA SlotIdle ==
    ASSUME Typed, NEW r \in Slots, Respond(r)
    PROVE  SlotOK(r)'
    BY DEF Typed, TypeOK, Respond, SlotOK, Working

\* Finishing a shipment leaves the handler answered or at the head of its loop.
LEMMA SlotFinished ==
    ASSUME Typed, NEW r \in Slots, FinishItem(r)
    PROVE  SlotOK(r)'
    <1>1. CASE Respond(r)
        BY <1>1, SlotIdle
    <1>2. CASE ~Respond(r)
        <2>1. /\ pc'[r] = "item" /\ at'[r] = at[r] + 1
              /\ call'[r] = call[r] /\ ~IsSingle(r)
            BY <1>2 DEF FinishItem, Typed, TypeOK
        <2>2. at[r] \in Nat
            BY DEF Typed, TypeOK
        <2> QED BY <2>1, <2>2 DEF SlotOK, Working, IsSingle
    <1> QED BY <1>1, <1>2

\* Every step keeps what the handlers hold.
LEMMA HandlerStep ==
    ASSUME Typed, [Next]_vars
    PROVE  HandlerOK'
    <1>t. TypeOK' /\ Extends(chain, chain')
        BY TypeStep, GrowStep DEF Grown
    <1>s. TypeOK /\ HandlerOK
        BY DEF Typed
    <1>a. ASSUME NEW r \in Slots, Arrive(r) \/ Step(r), SlotOK(r)' PROVE HandlerOK'
        BY <1>a, <1>t, StepFrame, SlotStable DEF HandlerOK
    <1>1. ASSUME NEW r \in Slots, Arrive(r) PROVE SlotOK(r)'
        <2>1. /\ pc'[r] = "find" /\ at'[r] = at[r]
              /\ call'[r].kind = "single" => Len(call'[r].ids) = 1
            BY <1>1, <1>s DEF Arrive, TypeOK
        <2>2. at[r] = 1
            BY <1>1, <1>s DEF Arrive, HandlerOK, SlotOK
        <2> QED BY <2>1, <2>2 DEF SlotOK, Working, IsSingle
    <1>2. ASSUME NEW r \in Slots, FindShipments(r) PROVE SlotOK(r)'
        <2>1. CASE Respond(r)
            BY <2>1, SlotIdle
        <2>2. CASE ~Respond(r)
            <3>1. /\ pc'[r] = IF IsSingle(r) THEN "write" ELSE "item"
                  /\ at'[r] = at[r] /\ call'[r] = call[r]
                BY <1>2, <1>s, <2>2 DEF FindShipments, TypeOK
            <3>2. at[r] = 1 /\ (IsSingle(r) => Len(call[r].ids) = 1)
                BY <1>2, <1>s DEF FindShipments, HandlerOK, SlotOK
            <3>3. CASE IsSingle(r)
                <4>1. pc'[r] = "write" /\ at'[r] = 1 /\ Len(call'[r].ids) = 1
                    BY <3>1, <3>2, <3>3
                <4> QED BY <4>1 DEF SlotOK
            <3>4. CASE ~IsSingle(r)
                <4>1. ~IsSingle(r)'
                    BY <3>1, <3>4 DEF IsSingle
                <4> QED BY <3>1, <3>2, <3>4, <4>1 DEF SlotOK, Working
            <3> QED BY <3>3, <3>4
        <2> QED BY <2>1, <2>2
    <1>3. ASSUME NEW r \in Slots, BulkItem(r) PROVE SlotOK(r)'
        <2>1. CASE Respond(r)
            BY <2>1, SlotIdle
        <2>2. CASE FinishItem(r)
            BY <2>2, SlotFinished
        <2>3. CASE ~Respond(r) /\ ~FinishItem(r)
            <3>1. /\ pc'[r] = "write" /\ at'[r] = at[r] /\ call'[r] = call[r]
                  /\ at[r] <= Len(call[r].ids) /\ at[r] >= 1
                BY <1>3, <1>s, <2>3 DEF BulkItem, TypeOK, localVars, HandlerOK, SlotOK
            <3> QED BY <3>1 DEF SlotOK, Working
        <2> QED BY <2>1, <2>2, <2>3
    <1>4. ASSUME NEW r \in Slots, WriteStatus(r) PROVE SlotOK(r)'
        <2>1. CASE FinishItem(r)
            BY <2>1, SlotFinished
        <2>2. CASE ~FinishItem(r)
            <3>1. /\ pc'[r] = AfterWrite(r) /\ at'[r] = at[r] /\ call'[r] = call[r]
                BY <1>4, <1>s, <2>2 DEF WriteStatus, TypeOK, localVars
            <3>2. pc'[r] \in {"ledger", "payment", "emit"}
                BY <3>1 DEF AfterWrite
            <3>3. at[r] <= Len(call[r].ids) /\ at[r] >= 1
                BY <1>4, <1>s DEF WriteStatus, HandlerOK, SlotOK, Working
            <3> QED BY <3>1, <3>2, <3>3 DEF SlotOK
        <2> QED BY <2>1, <2>2
    <1>5. ASSUME NEW r \in Slots, WriteLedger(r) PROVE SlotOK(r)'
        <2>1. /\ pc'[r] \in {"payment", "emit"} /\ at'[r] = at[r] /\ call'[r] = call[r]
              /\ at[r] <= Len(call[r].ids) /\ at[r] >= 1
            BY <1>5, <1>s DEF WriteLedger, TypeOK, localVars, HandlerOK, SlotOK, Working
        <2> QED BY <2>1 DEF SlotOK
    <1>6. ASSUME NEW r \in Slots, FindPayment(r) PROVE SlotOK(r)'
        <2>1. /\ at'[r] = at[r] /\ call'[r] = call[r]
              /\ at[r] <= Len(call[r].ids) /\ at[r] >= 1
            BY <1>6, <1>s DEF FindPayment, HandlerOK, SlotOK, Working
        <2>2. CASE pc'[r] = "emit"
            BY <2>1, <2>2 DEF SlotOK
        <2>3. CASE pc'[r] = "release" /\ pay'[r] \in Payments /\ ShipmentOf[pay'[r]] = Cur(r)
            BY <2>1, <2>3 DEF SlotOK, Cur
        <2> QED BY <1>6, <1>s, <2>2, <2>3 DEF FindPayment, TypeOK
    <1>7. ASSUME NEW r \in Slots, ReleaseEscrow(r) PROVE SlotOK(r)'
        <2>1. /\ at'[r] = at[r] /\ call'[r] = call[r] /\ pay'[r] = pay[r]
              /\ at[r] <= Len(call[r].ids) /\ at[r] >= 1
              /\ pay[r] \in Payments /\ ShipmentOf[pay[r]] = Cur(r)
            BY <1>7, <1>s DEF ReleaseEscrow, HandlerOK, SlotOK, Working
        <2>2. CASE pc'[r] = "emit"
            BY <2>1, <2>2 DEF SlotOK
        <2>3. CASE /\ pc'[r] = "record" /\ relTx'[r] = Len(chain) + 1
                   /\ chain' = Append(chain, pay[r])
            <3>1. relTx'[r] \in 1..Len(chain') /\ chain'[relTx'[r]] = pay[r]
                BY <2>1, <2>3, <1>s DEF TypeOK
            <3> QED BY <2>1, <2>3, <3>1 DEF SlotOK, Cur
        <2>4. \/ pc'[r] = "emit"
              \/ /\ pc'[r] = "record" /\ relTx'[r] = Len(chain) + 1
                 /\ chain' = Append(chain, pay[r])
            BY <1>7, <1>s DEF ReleaseEscrow, OnReleaseError, TypeOK
        <2> QED BY <2>2, <2>3, <2>4
    <1>8. ASSUME NEW r \in Slots, RecordRelease(r) PROVE SlotOK(r)'
        <2>1. /\ at'[r] = at[r] /\ call'[r] = call[r] /\ pay'[r] = pay[r]
              /\ relTx'[r] = relTx[r] /\ chain' = chain
              /\ pc'[r] \in {"settle", "emit"}
            BY <1>8, <1>s DEF RecordRelease, TypeOK, localVars
        <2>2. /\ at[r] <= Len(call[r].ids) /\ at[r] >= 1
              /\ pay[r] \in Payments /\ ShipmentOf[pay[r]] = Cur(r)
              /\ relTx[r] \in 1..Len(chain) /\ chain[relTx[r]] = pay[r]
            BY <1>8, <1>s DEF RecordRelease, HandlerOK, SlotOK, Working
        <2> QED BY <2>1, <2>2 DEF SlotOK, Cur
    <1>9. ASSUME NEW r \in Slots, WriteSettlementLedger(r) PROVE SlotOK(r)'
        <2>1. /\ pc'[r] = "emit" /\ at'[r] = at[r] /\ call'[r] = call[r]
              /\ at[r] <= Len(call[r].ids) /\ at[r] >= 1
            BY <1>9, <1>s DEF WriteSettlementLedger, TypeOK, localVars, HandlerOK, SlotOK, Working
        <2> QED BY <2>1 DEF SlotOK
    <1>10. ASSUME NEW r \in Slots, EmitStatus(r) PROVE SlotOK(r)'
        BY <1>10, SlotFinished DEF EmitStatus
    <1>11. ASSUME NEW s \in Shipments, DeleteShipment(s) PROVE HandlerOK'
        BY <1>11, <1>t, SlotStable DEF DeleteShipment, localVars, SameSlot, HandlerOK
    <1>12. ASSUME Crash PROVE HandlerOK'
        BY <1>12 DEF Crash, HandlerOK, SlotOK, Working
    <1>13. ASSUME UNCHANGED vars PROVE HandlerOK'
        BY <1>13, <1>t, SlotStable DEF vars, SameSlot, HandlerOK
    <1> QED BY <1>a, <1>1, <1>2, <1>3, <1>4, <1>5, <1>6, <1>7, <1>8, <1>9, <1>10, <1>11, <1>12, <1>13
            DEF Next, Step

-----------------------------------------------------------------------------
(***************************************************************************)
(* What a handler read: facts about the past stay true as histories grow.  *)
(***************************************************************************)

\* A status that was seen stays seen.
LEMMA SeenStable ==
    ASSUME TypeOK, TypeOK', NEW s \in Shipments, NEW st,
           Extends(milestones[s], milestones'[s]), Seen(s, st)
    PROVE  Seen(s, st)'
    <1>1. Len(milestones[s]) \in Nat /\ Len(milestones'[s]) \in Nat
        BY DEF TypeOK
    <1>2. PICK i \in 0..Len(milestones[s]) : StatusAt(s, i) = st
        BY DEF Seen
    <1>3. i \in 0..Len(milestones'[s]) /\ StatusAt(s, i)' = st
        BY <1>1, <1>2 DEF Extends, StatusAt
    <1> QED BY <1>3 DEF Seen

\* A transition that was made stays made.
LEMMA BackedStable ==
    ASSUME TypeOK, TypeOK', NEW s \in Shipments, NEW prev, NEW ev,
           Extends(milestones[s], milestones'[s]), Backed(s, prev, ev)
    PROVE  Backed(s, prev, ev)'
    <1>1. Len(milestones[s]) \in Nat /\ Len(milestones'[s]) \in Nat
        BY DEF TypeOK
    <1>2. PICK j \in 1..Len(milestones[s]) :
            milestones[s][j] = ev /\ \E i \in 0..(j - 1) : StatusAt(s, i) = prev
        BY DEF Backed
    <1>3. PICK i \in 0..(j - 1) : StatusAt(s, i) = prev
        BY <1>2
    <1>4. j \in 1..Len(milestones'[s]) /\ milestones'[s][j] = ev
        BY <1>1, <1>2 DEF Extends
    <1>5. StatusAt(s, i)' = prev
        BY <1>1, <1>3 DEF Extends, StatusAt
    <1> QED BY <1>3, <1>4, <1>5 DEF Backed

\* A step of another slot keeps what a handler read.
LEMMA ReadsStable ==
    ASSUME Typed, TypeOK', NEW q \in Slots, SameSlot(q), Grown, SlotReadsOK(q)
    PROVE  SlotReadsOK(q)'
    <1> USE DEF Typed
    <1>1. Cur(q)' = Cur(q)
        BY DEF Cur, SameSlot
    <1>2. \A s \in Shipments : snap'[q][s] # None => Seen(s, snap[q][s])'
        BY SeenStable DEF SlotReadsOK, SameSlot, Grown
    <1>3. ASSUME pc'[q] = "ledger" PROVE Backed(Cur(q), snap[q][Cur(q)], call[q].to)'
        <2>1. Cur(q) \in Shipments /\ Backed(Cur(q), snap[q][Cur(q)], call[q].to)
            BY <1>3, CurIsShipment DEF SameSlot, SlotReadsOK, Working
        <2>2. \A c \in Shipments : \A p, e : Backed(c, p, e) => Backed(c, p, e)'
            BY BackedStable DEF Grown
        <2> QED BY <1>1, <2>1, <2>2 DEF SameSlot
    <1> QED BY <1>1, <1>2, <1>3 DEF SlotReadsOK, SameSlot

-----------------------------------------------------------------------------
(***************************************************************************)
(* The safety properties, one step lemma each.                             *)
(***************************************************************************)

\* What one write does to the shipment it is about, and to the others.
LEMMA WriteEffect ==
    ASSUME Typed, NEW r \in Slots, WriteStatus(r), milestones' # milestones
    PROVE  /\ Cur(r) \in Shipments /\ call[r].to \in ShipmentStatus
           /\ milestones' = [milestones EXCEPT ![Cur(r)] = Append(@, call[r].to)]
           /\ status' = [status EXCEPT ![Cur(r)] = call[r].to]
           /\ milestones'[Cur(r)] = Append(milestones[Cur(r)], call[r].to)
           /\ Len(milestones'[Cur(r)]) = Len(milestones[Cur(r)]) + 1
           /\ milestones'[Cur(r)][Len(milestones[Cur(r)]) + 1] = call[r].to
    <1>1. Cur(r) \in Shipments /\ call[r].to \in ShipmentStatus
        BY CurIsShipment DEF Typed, WriteStatus, Working, TypeOK, Call
    <1>2. /\ milestones' = [milestones EXCEPT ![Cur(r)] = Append(@, call[r].to)]
          /\ status' = [status EXCEPT ![Cur(r)] = call[r].to]
        BY DEF WriteStatus, SetStatus, shipmentVars
    <1>3. milestones'[Cur(r)] = Append(milestones[Cur(r)], call[r].to)
        BY <1>1, <1>2 DEF Typed, TypeOK
    <1>4. milestones[Cur(r)] \in Seq(ShipmentStatus)
        BY <1>1 DEF Typed, TypeOK
    <1> QED BY <1>1, <1>2, <1>3, <1>4

\* Only a write touches the statuses and milestones.
LEMMA OnlyWrites ==
    ASSUME [Next]_vars, ~\E r \in Slots : WriteStatus(r)
    PROVE  status' = status /\ milestones' = milestones
    BY DEF Next, Step, vars, Arrive, FindShipments, BulkItem, WriteLedger, FindPayment,
           ReleaseEscrow, RecordRelease, WriteSettlementLedger, EmitStatus, DeleteShipment,
           Crash, shipmentVars

\* Status and milestones move together.
LEMMA StatusStep ==
    ASSUME Typed, StatusIsLastMilestone, [Next]_vars
    PROVE  StatusIsLastMilestone'
    <1>1. CASE status' = status /\ milestones' = milestones
        BY <1>1 DEF StatusIsLastMilestone, StatusAt
    <1>2. ASSUME NEW r \in Slots, WriteStatus(r), milestones' # milestones
          PROVE  StatusIsLastMilestone'
        <2> SUFFICES ASSUME NEW s \in Shipments
                     PROVE  status'[s] = StatusAt(s, Len(milestones[s]))'
            BY DEF StatusIsLastMilestone
        <2>1. CASE s = Cur(r)
            <3>1. Len(milestones[s]) \in Nat
                BY DEF Typed, TypeOK
            <3>2. status'[s] = call[r].to
                BY <1>2, <2>1, WriteEffect DEF Typed, TypeOK
            <3> QED BY <1>2, <2>1, <3>1, <3>2, WriteEffect DEF StatusAt
        <2>2. CASE s # Cur(r)
            <3>1. status'[s] = status[s] /\ milestones'[s] = milestones[s]
                BY <1>2, <2>2, WriteEffect DEF Typed, TypeOK
            <3> QED BY <3>1 DEF StatusIsLastMilestone, StatusAt
        <2> QED BY <2>1, <2>2
    <1>3. ASSUME NEW r \in Slots, WriteStatus(r), milestones' = milestones
          PROVE  status' = status
        <2>1. CASE UNCHANGED shipmentVars
            BY <2>1 DEF shipmentVars
        <2>2. CASE ~UNCHANGED shipmentVars
            <3>1. Cur(r) \in Shipments
                BY <1>3, CurIsShipment DEF Typed, WriteStatus, Working
            <3>2. milestones'[Cur(r)] = Append(milestones[Cur(r)], call[r].to)
                BY <1>3, <2>2, <3>1 DEF WriteStatus, SetStatus, Typed, TypeOK
            <3>3. milestones[Cur(r)] \in Seq(ShipmentStatus) /\ call[r].to \in ShipmentStatus
                BY <3>1 DEF Typed, TypeOK, Call
            <3>4. Len(milestones'[Cur(r)]) = Len(milestones[Cur(r)]) + 1
                BY <3>2, <3>3
            <3> QED BY <1>3, <3>3, <3>4
        <2> QED BY <2>1, <2>2
    <1> QED BY <1>1, <1>2, <1>3, OnlyWrites

\* A handler that keeps or drops its reads, and is not about to use them.
LEMMA ReadsKept ==
    ASSUME Typed, TypeOK', Grown, NEW r \in Slots, SlotReadsOK(r),
           \A s \in Shipments : snap'[r][s] \in {snap[r][s], None},
           pc'[r] \notin {"write", "ledger"}
    PROVE  SlotReadsOK(r)'
    <1>1. \A s \in Shipments : snap'[r][s] # None => Seen(s, snap[r][s])'
        <2>1. \A s \in Shipments : \A st : Seen(s, st) => Seen(s, st)'
            BY SeenStable DEF Typed, Grown
        <2> QED BY <2>1 DEF SlotReadsOK
    <1> QED BY <1>1 DEF SlotReadsOK

\* Every step keeps the reads of the handlers meaningful.
LEMMA ReadsStep ==
    ASSUME Typed, StatusIsLastMilestone, ReadsOK, [Next]_vars
    PROVE  ReadsOK'
    <1>t. TypeOK' /\ Grown /\ TypeOK /\ HandlerOK
        BY TypeStep, GrowStep DEF Typed
    <1>r. \A r \in Slots : SlotReadsOK(r)
        BY DEF ReadsOK
    <1>a. ASSUME NEW r \in Slots, Arrive(r) \/ Step(r), SlotReadsOK(r)' PROVE ReadsOK'
        BY <1>a, <1>t, StepFrame, ReadsStable DEF ReadsOK
    <1>b. ASSUME NEW r \in Slots, Respond(r) PROVE SlotReadsOK(r)'
        BY <1>b, <1>t, <1>r, ReadsKept DEF Respond, TypeOK
    <1>c. ASSUME NEW r \in Slots, FinishItem(r) PROVE SlotReadsOK(r)'
        <2>1. CASE ~Respond(r)
            BY <1>c, <2>1, <1>t, <1>r, ReadsKept DEF FinishItem, TypeOK
        <2> QED BY <2>1, <1>b
    <1>1. ASSUME NEW r \in Slots, Arrive(r) PROVE SlotReadsOK(r)'
        BY <1>1, <1>t, <1>r, ReadsKept DEF Arrive, TypeOK
    <1>2. ASSUME NEW r \in Slots, FindShipments(r), ~Respond(r) PROVE SlotReadsOK(r)'
        <2> DEFINE read == [s \in Shipments |->
                       IF deleted[s] \/ s \notin {call[r].ids[i] : i \in DOMAIN call[r].ids}
                       THEN None ELSE status[s]]
        <2>1. snap'[r] = read /\ call'[r] = call[r] /\ at'[r] = at[r] /\ milestones' = milestones
            BY <1>2, <1>t DEF FindShipments, TypeOK, shipmentVars
        <2>2. \A s \in Shipments : read[s] # None => read[s] = status[s]
            OBVIOUS
        <2>3. \/ pc'[r] = "item"
              \/ pc'[r] = "write" /\ Acceptable(read[Cur(r)], call[r].to)
            BY <1>2, <1>t DEF FindShipments, TypeOK
        <2>4. Cur(r)' = Cur(r)
            BY <2>1 DEF Cur
        <2>5. \A s \in Shipments : Seen(s, status[s])
            <3> SUFFICES ASSUME NEW s \in Shipments PROVE Seen(s, status[s])
                OBVIOUS
            <3>1. Len(milestones[s]) \in 0..Len(milestones[s])
                BY <1>t DEF TypeOK
            <3> QED BY <3>1 DEF Seen, StatusIsLastMilestone
        <2>6. \A s \in Shipments : \A st : Seen(s, st)' <=> Seen(s, st)
            BY <2>1 DEF Seen, StatusAt
        <2> HIDE DEF read
        <2>7. \A s \in Shipments : snap'[r][s] # None => Seen(s, snap[r][s])'
            BY <2>1, <2>2, <2>5, <2>6
        <2> QED BY <2>1, <2>3, <2>4, <2>7 DEF SlotReadsOK, Acceptable
    <1>3. ASSUME NEW r \in Slots, BulkItem(r), ~Respond(r), ~FinishItem(r) PROVE SlotReadsOK(r)'
        <2>1. /\ snap'[r] = snap[r] /\ call'[r] = call[r] /\ at'[r] = at[r] /\ milestones' = milestones
              /\ pc'[r] = "write" /\ Eligible(r)
            BY <1>3, <1>t DEF BulkItem, TypeOK, shipmentVars, localVars
        <2>2. Cur(r)' = Cur(r)
            BY <2>1 DEF Cur
        <2>3. \A s \in Shipments : \A st : Seen(s, st)' <=> Seen(s, st)
            BY <2>1 DEF Seen, StatusAt
        <2>4. \A s \in Shipments : snap'[r][s] # None => Seen(s, snap[r][s])'
            BY <2>1, <2>3, <1>r DEF SlotReadsOK
        <2> QED BY <2>1, <2>2, <2>4 DEF SlotReadsOK, Eligible
    <1>4. ASSUME NEW r \in Slots, WriteStatus(r), ~FinishItem(r) PROVE SlotReadsOK(r)'
        <2> DEFINE c == Cur(r)
                   n == Len(milestones[Cur(r)])
        <2>1. /\ snap'[r] = snap[r] /\ call'[r] = call[r] /\ at'[r] = at[r]
              /\ milestones' # milestones /\ pc'[r] # "write"
            <3>1. /\ snap'[r] = snap[r] /\ call'[r] = call[r] /\ at'[r] = at[r]
                  /\ pc'[r] = AfterWrite(r) /\ SetStatus(Cur(r), call[r].to)
                BY <1>4, <1>t DEF WriteStatus, TypeOK, localVars
            <3>2. Cur(r) \in Shipments
                BY <1>4, <1>t, CurIsShipment DEF WriteStatus, Working
            <3>3. milestones[c] \in Seq(ShipmentStatus) /\ call[r].to \in ShipmentStatus
                BY <3>2, <1>t DEF TypeOK, Call
            <3>4. milestones'[c] = Append(milestones[c], call[r].to)
                BY <3>1, <3>2, <1>t DEF SetStatus, TypeOK
            <3>5. Len(milestones'[c]) # Len(milestones[c])
                BY <3>3, <3>4
            <3> QED BY <3>1, <3>5 DEF AfterWrite
        <2>2. Cur(r)' = Cur(r)
            BY <2>1 DEF Cur
        <2>3. /\ c \in Shipments /\ milestones'[c][n + 1] = call[r].to /\ Len(milestones'[c]) = n + 1
            BY <1>4, <2>1, WriteEffect
        <2>4. n \in Nat
            BY <2>3, <1>t DEF TypeOK
        <2>5. \A s \in Shipments : snap'[r][s] # None => Seen(s, snap[r][s])'
            <3>1. \A s \in Shipments : \A st : Seen(s, st) => Seen(s, st)'
                BY <1>t, SeenStable DEF Grown
            <3> QED BY <2>1, <3>1, <1>r DEF SlotReadsOK
        <2>6. Backed(c, snap[r][c], call[r].to)'
            <3>1. snap[r][c] # None /\ ValidTransition(snap[r][c], call[r].to) /\ Seen(c, snap[r][c])
                BY <1>4, <1>r, <2>3 DEF WriteStatus, SlotReadsOK
            <3>2. PICK i \in 0..n : StatusAt(c, i) = snap[r][c]
                BY <3>1 DEF Seen
            <3> HIDE DEF c, n
            <3>3. (IF i = 0 THEN "CREATED" ELSE milestones'[c][i]) = snap[r][c]
                <4>1. \A k \in 1..n : milestones'[c][k] = milestones[c][k]
                    BY <2>3, <1>t DEF Grown, Extends, n, c
                <4> QED BY <3>2, <2>4, <4>1 DEF StatusAt
            <3>4. i \in 0..((n + 1) - 1) /\ n + 1 \in 1..Len(milestones'[c])
                BY <2>3, <2>4, <3>2
            <3>5. \A d, p, e : d = c /\ p = snap[r][c] /\ e = call[r].to => Backed(d, p, e)'
                BY <3>1, <3>3, <3>4, <2>3 DEF Backed, StatusAt
            <3> QED BY <2>1, <2>2, <3>5 DEF c
        <2> QED BY <2>1, <2>2, <2>5, <2>6 DEF SlotReadsOK
    <1>5. ASSUME NEW r \in Slots, WriteLedger(r) \/ FindPayment(r) \/ ReleaseEscrow(r)
                                 \/ RecordRelease(r) \/ WriteSettlementLedger(r)
          PROVE  SlotReadsOK(r)'
        <2>1. snap' = snap
            BY <1>5 DEF WriteLedger, FindPayment, ReleaseEscrow, RecordRelease, WriteSettlementLedger, localVars
        <2>2. pc'[r] \notin {"write", "ledger"}
            BY <1>5, <1>t DEF WriteLedger, FindPayment, ReleaseEscrow, OnReleaseError, RecordRelease,
                              WriteSettlementLedger, TypeOK
        <2> QED BY <2>1, <2>2, <1>t, <1>r, ReadsKept DEF Typed
    <1>6. ASSUME NEW r \in Slots, EmitStatus(r) PROVE SlotReadsOK(r)'
        BY <1>6, <1>c DEF EmitStatus
    <1>7. ASSUME NEW s \in Shipments, DeleteShipment(s) PROVE ReadsOK'
        BY <1>7, <1>t, <1>r, ReadsStable DEF DeleteShipment, localVars, SameSlot, ReadsOK
    <1>8. ASSUME Crash PROVE ReadsOK'
        BY <1>8 DEF Crash, ReadsOK, SlotReadsOK
    <1>9. ASSUME UNCHANGED vars PROVE ReadsOK'
        BY <1>9, <1>t, <1>r, ReadsStable DEF vars, SameSlot, ReadsOK
    <1>10. ASSUME NEW r \in Slots, Step(r) PROVE SlotReadsOK(r)'
        BY <1>10, <1>b, <1>c, <1>2, <1>3, <1>4, <1>5, <1>6 DEF Step
    <1> QED BY <1>a, <1>1, <1>10, <1>7, <1>8, <1>9 DEF Next

\* A new milestone is justified by what its handler read.
LEMMA HistoryStep ==
    ASSUME Typed, ReadsOK, HistoryJustified, [Next]_vars
    PROVE  HistoryJustified'
    <1>1. CASE milestones' = milestones
        BY <1>1 DEF HistoryJustified, StatusAt
    <1>2. ASSUME NEW r \in Slots, WriteStatus(r), milestones' # milestones
          PROVE  HistoryJustified'
        <2> SUFFICES ASSUME NEW s \in Shipments, NEW j \in 1..Len(milestones'[s])
                     PROVE  \E i \in 0..(j - 1) : ValidTransition(StatusAt(s, i)', milestones'[s][j])
            BY DEF HistoryJustified
        <2>0. Len(milestones[s]) \in Nat
            BY DEF Typed, TypeOK
        <2>1. Extends(milestones[s], milestones'[s])
            BY <1>2, GrowStep DEF Grown
        <2>2. \A i \in 0..Len(milestones[s]) : StatusAt(s, i)' = StatusAt(s, i)
            BY <2>0, <2>1 DEF Extends, StatusAt
        <2>3. CASE j <= Len(milestones[s])
            <3>1. PICK i \in 0..(j - 1) : ValidTransition(StatusAt(s, i), milestones[s][j])
                BY <2>0, <2>3 DEF HistoryJustified
            <3>2. milestones'[s][j] = milestones[s][j] /\ StatusAt(s, i)' = StatusAt(s, i)
                BY <2>0, <2>1, <2>2, <2>3 DEF Extends
            <3> QED BY <3>1, <3>2
        <2>4. CASE j > Len(milestones[s])
            <3>1. s = Cur(r)
                BY <1>2, <2>4, <2>0, WriteEffect DEF Typed, TypeOK
            <3>2. j = Len(milestones[s]) + 1 /\ milestones'[s][j] = call[r].to
                BY <1>2, <2>0, <2>4, <3>1, WriteEffect
            <3>3. ValidTransition(snap[r][s], call[r].to) /\ Seen(s, snap[r][s])
                BY <1>2, <3>1 DEF ReadsOK, SlotReadsOK, WriteStatus
            <3>4. PICK i \in 0..Len(milestones[s]) : StatusAt(s, i) = snap[r][s]
                BY <3>3 DEF Seen
            <3>5. i \in 0..(j - 1) /\ ValidTransition(StatusAt(s, i)', milestones'[s][j])
                BY <2>0, <2>2, <3>2, <3>3, <3>4
            <3> QED BY <3>5
        <2> QED BY <2>0, <2>3, <2>4
    <1> QED BY <1>1, <1>2, OnlyWrites

\* A new ledger block stands for something that has happened.
LEMMA LedgerStep ==
    ASSUME Typed, ReadsOK, LedgerBacked, [Next]_vars
    PROVE  LedgerBacked'
    <1> DEFINE Good(s, b) == IF b.tx = 0 THEN Backed(s, b.prev, b.event)
                             ELSE b.tx \in 1..Len(chain) /\ ShipmentOf[chain[b.tx]] = s
    <1>t. TypeOK' /\ Grown /\ TypeOK /\ HandlerOK
        BY TypeStep, GrowStep DEF Typed
    <1>l. Len(chain) \in Nat /\ Len(chain') \in Nat
        BY <1>t DEF TypeOK
    <1>1. \A s \in Shipments : \A k \in 1..Len(ledger[s]) : Good(s, ledger[s][k])
        BY DEF LedgerBacked
    <1>2. ASSUME NEW s \in Shipments, NEW b, Good(s, b) PROVE Good(s, b)'
        <2>1. CASE b.tx = 0
            BY <1>2, <2>1, <1>t, BackedStable DEF Grown
        <2>2. CASE b.tx # 0
            BY <1>2, <2>2, <1>t, <1>l DEF Grown, Extends
        <2> QED BY <2>1, <2>2
    <1> SUFFICES ASSUME NEW s \in Shipments, NEW k \in 1..Len(ledger'[s])
                 PROVE  Good(s, ledger[s][k])'
        BY DEF LedgerBacked
    <1>3. Len(ledger[s]) \in Nat /\ Len(ledger'[s]) \in Nat
        BY <1>t DEF TypeOK
    <1>4. CASE k <= Len(ledger[s])
        <2>1. ledger'[s][k] = ledger[s][k] /\ Good(s, ledger[s][k])
            BY <1>1, <1>3, <1>4, <1>t DEF Grown, Extends
        <2> HIDE DEF Good
        <2>2. \A b : Good(s, b) => Good(s, b)'
            BY <1>2
        <2> USE DEF Good
        <2> QED BY <2>1, <2>2
    <1>5. CASE k > Len(ledger[s])
        <2>1. PICK r \in Slots : WriteLedger(r) \/ WriteSettlementLedger(r)
            <3>1. ledger' # ledger
                BY <1>3, <1>5
            <3> QED BY <3>1 DEF Next, Step, vars, Arrive, FindShipments, BulkItem, WriteStatus, FindPayment,
                    ReleaseEscrow, RecordRelease, EmitStatus, DeleteShipment, Crash
        <2>2. Cur(r) \in Shipments
            BY <2>1, <1>t, CurIsShipment DEF WriteLedger, WriteSettlementLedger, Working
        <2>3. CASE WriteLedger(r)
            <3>1. ledger' = [ledger EXCEPT ![Cur(r)] = Append(@, StatusBlock(r))]
                BY <2>3, <1>3, <1>5 DEF WriteLedger
            <3>2. s = Cur(r) /\ ledger'[s][k] = StatusBlock(r)
                <4>1. ledger \in [Shipments -> Seq(Block)]
                    BY <1>t DEF TypeOK
                <4>2. s = Cur(r)
                    BY <2>2, <3>1, <4>1, <1>3, <1>5
                <4>3. ledger'[s] = Append(ledger[s], StatusBlock(r))
                    BY <3>1, <4>1, <4>2
                <4>4. ledger[s] \in Seq(Block)
                    BY <4>1
                <4>5. Len(ledger'[s]) = Len(ledger[s]) + 1
                      /\ ledger'[s][Len(ledger[s]) + 1] = StatusBlock(r)
                    BY <4>3, <4>4
                <4>6. k = Len(ledger[s]) + 1
                    BY <4>5, <1>3, <1>5
                <4> QED BY <4>2, <4>5, <4>6
            <3>3. Good(s, StatusBlock(r))
                BY <2>3, <3>2 DEF ReadsOK, SlotReadsOK, StatusBlock, WriteLedger
            <3>4. \A b : Good(s, b) => Good(s, b)'
                BY <1>2
            <3> QED BY <3>2, <3>3, <3>4
        <2>4. CASE WriteSettlementLedger(r)
            <3> DEFINE b == [event |-> "SETTLEMENT_INITIATED", prev |-> None, tx |-> relTx[r]]
            <3>1. ledger' = [ledger EXCEPT ![Cur(r)] = Append(@, b)]
                BY <2>4, <1>3, <1>5 DEF WriteSettlementLedger
            <3>2. s = Cur(r) /\ ledger'[s][k] = b
                <4>1. ledger \in [Shipments -> Seq(Block)]
                    BY <1>t DEF TypeOK
                <4>2. s = Cur(r)
                    BY <2>2, <3>1, <4>1, <1>3, <1>5
                <4>3. ledger'[s] = Append(ledger[s], b)
                    BY <3>1, <4>1, <4>2
                <4>4. ledger[s] \in Seq(Block)
                    BY <4>1
                <4>5. Len(ledger'[s]) = Len(ledger[s]) + 1
                      /\ ledger'[s][Len(ledger[s]) + 1] = b
                    BY <4>3, <4>4
                <4>6. k = Len(ledger[s]) + 1
                    BY <4>5, <1>3, <1>5
                <4> QED BY <4>2, <4>5, <4>6
            <3>3. relTx[r] \in 1..Len(chain) /\ ShipmentOf[chain[relTx[r]]] = s
                BY <2>4, <3>2, <1>t DEF HandlerOK, SlotOK, WriteSettlementLedger
            <3>4. Good(s, b)
                BY <3>3, <1>l
            <3>5. \A d : Good(s, d) => Good(s, d)'
                BY <1>2
            <3> QED BY <3>2, <3>4, <3>5
        <2> QED BY <2>1, <2>3, <2>4
    <1> QED BY <1>3, <1>4, <1>5

\* A payment is marked Released with a release of that payment.
LEMMA ReleaseStep ==
    ASSUME Typed, RecordedReleaseIsReal, [Next]_vars
    PROVE  RecordedReleaseIsReal'
    <1>t. TypeOK' /\ Grown /\ TypeOK /\ HandlerOK
        BY TypeStep, GrowStep DEF Typed
    <1>l. Len(chain) \in Nat /\ Len(chain') \in Nat
        BY <1>t DEF TypeOK
    <1>1. CASE UNCHANGED <<payStatus, payTx>>
        BY <1>1, <1>t, <1>l DEF RecordedReleaseIsReal, Grown, Extends
    <1>2. ASSUME NEW r \in Slots, RecordRelease(r), ~UNCHANGED <<payStatus, payTx>>
          PROVE  RecordedReleaseIsReal'
        <2>1. /\ payStatus' = [payStatus EXCEPT ![pay[r]] = "Released"]
              /\ payTx' = [payTx EXCEPT ![pay[r]] = relTx[r]]
              /\ chain' = chain
            BY <1>2 DEF RecordRelease, paymentVars
        <2>2. relTx[r] \in 1..Len(chain) /\ chain[relTx[r]] = pay[r]
            BY <1>2, <1>t DEF RecordRelease, HandlerOK, SlotOK
        <2> QED BY <2>1, <2>2, <1>t DEF RecordedReleaseIsReal, TypeOK
    <1>3. ASSUME ~\E r \in Slots : RecordRelease(r) PROVE UNCHANGED <<payStatus, payTx>>
        BY <1>3 DEF Next, Step, vars, Arrive, FindShipments, BulkItem, WriteStatus, WriteLedger, FindPayment,
           ReleaseEscrow, WriteSettlementLedger, EmitStatus, DeleteShipment, Crash, paymentVars
    <1> QED BY <1>1, <1>2, <1>3

-----------------------------------------------------------------------------
(***************************************************************************)
(* The theorems.                                                           *)
(***************************************************************************)

\* The initial states satisfy the inductive invariant.
LEMMA InitIInv == Init => IInv
    <1> SUFFICES ASSUME Init PROVE IInv
        OBVIOUS
    <1>1. TypeOK
        BY NoCallType DEF Init, TypeOK, PaymentStatus, PC, ShipmentStatus
    <1>2. HandlerOK
        BY DEF Init, HandlerOK, SlotOK, Working
    <1>3. ReadsOK
        BY DEF Init, ReadsOK, SlotReadsOK
    <1>4. StatusIsLastMilestone /\ HistoryJustified /\ LedgerBacked /\ RecordedReleaseIsReal
        BY DEF Init, StatusIsLastMilestone, HistoryJustified, LedgerBacked, RecordedReleaseIsReal, StatusAt
    <1> QED BY <1>1, <1>2, <1>3, <1>4 DEF IInv

(***************************************************************************)
(* In every reachable state of the status handlers, with any number of     *)
(* overlapping single and bulk requests, deletes, faults and crashes, the  *)
(* inductive invariant holds.                                              *)
(***************************************************************************)
THEOREM Invariance == Spec => []IInv
    <1>1. IInv /\ [Next]_vars => IInv'
        <2> SUFFICES ASSUME IInv, [Next]_vars PROVE IInv'
            OBVIOUS
        <2>1. Typed
            BY DEF IInv, Typed
        <2> QED BY <2>1, TypeStep, HandlerStep, StatusStep, ReadsStep, HistoryStep, LedgerStep, ReleaseStep
                DEF IInv
    <1> QED BY InitIInv, <1>1, PTL DEF Spec

(***************************************************************************)
(* Type correctness of the status handlers' state.                         *)
(***************************************************************************)
THEOREM TypeCorrect == Spec => []TypeOK
    BY Invariance, PTL DEF IInv

(***************************************************************************)
(* However many handlers race, the stored status is the last milestone and *)
(* every milestone is an allowed transition from a status the shipment had *)
(* before: updateShipmentStatusService and bulkUpdateShipmentStatusService *)
(* never invent a status.                                                  *)
(***************************************************************************)
THEOREM HistorySound == Spec => [](StatusIsLastMilestone /\ HistoryJustified)
    BY Invariance, PTL DEF IInv

(***************************************************************************)
(* The ledger blocks the handlers write always describe saved transitions  *)
(* and confirmed releases.                                                 *)
(***************************************************************************)
THEOREM LedgerSound == Spec => []LedgerBacked
    BY Invariance, PTL DEF IInv

(***************************************************************************)
(* A payment marked Released by a delivery carries the hash of a confirmed *)
(* release of that payment.                                                *)
(***************************************************************************)
THEOREM ReleaseSound == Spec => []RecordedReleaseIsReal
    BY Invariance, PTL DEF IInv

(***************************************************************************)
(* Milestones, ledger blocks and chain transactions are never removed or   *)
(* rewritten by any step.                                                  *)
(***************************************************************************)
THEOREM AppendOnly == Spec => HistoriesGrow
    <1>1. IInv /\ [Next]_vars => [Grown]_vars
        BY GrowStep DEF IInv, Typed
    <1>2. Grown <=> /\ \A s \in Shipments : Extends(milestones[s], milestones'[s])
                    /\ \A s \in Shipments : Extends(ledger[s], ledger'[s])
                    /\ Extends(chain, chain')
        BY DEF Grown
    <1> QED BY <1>1, <1>2, Invariance, PTL DEF Spec, HistoriesGrow

-----------------------------------------------------------------------------
(***************************************************************************)
(* Releases and deliveries.                                                *)
(***************************************************************************)

\* The places of a history where a value of V stands.
Hits(q, V) == {k \in 1..Len(q) : q[k] \in V}

Released(s) == Hits(chain, {p \in Payments : ShipmentOf[p] = s})
Deliveries(s) == Hits(milestones[s], {"DELIVERED"})

\* The handlers that have saved a delivery of s and may still release its escrow.
Paying(s) ==
    {r \in Slots : /\ pc[r] \in {"ledger", "payment", "release"}
                   /\ Cur(r) = s
                   /\ call[r].to = "DELIVERED"}

\* Only the handler of a delivery looks for a payment.
PayerOK == \A r \in Slots : pc[r] \in {"payment", "release"} => call[r].to = "DELIVERED"

(***************************************************************************)
(* Every release made, and every one a handler may still make, is one      *)
(* saved delivery.                                                         *)
(***************************************************************************)
EscrowOK(s) ==
    /\ IsFiniteSet(Paying(s))
    /\ Cardinality(Released(s)) + Cardinality(Paying(s)) <= Cardinality(Deliveries(s))

EscrowInv == PayerOK /\ \A s \in Shipments : EscrowOK(s)

\* Appending to a history adds one place, or none.
LEMMA HitsAppend ==
    ASSUME NEW S, NEW q \in Seq(S), NEW x \in S, NEW V
    PROVE  /\ Cardinality(Hits(q, V)) \in Nat
           /\ Cardinality(Hits(Append(q, x), V)) =
                 Cardinality(Hits(q, V)) + (IF x \in V THEN 1 ELSE 0)
    <1> DEFINE n == Len(q) + 1
    <1>1. n \in Nat /\ n \notin 1..Len(q) /\ IsFiniteSet(1..Len(q))
        BY FS_Interval
    <1>2. IsFiniteSet(Hits(q, V))
        BY <1>1, FS_Subset DEF Hits
    <1>3. Cardinality(Hits(q, V)) \in Nat
        BY <1>2, FS_CardinalityType
    <1>4. /\ 1..Len(Append(q, x)) = 1..Len(q) \cup {n}
          /\ Append(q, x)[n] = x
          /\ \A k \in 1..Len(q) : Append(q, x)[k] = q[k]
        OBVIOUS
    <1> HIDE DEF n
    <1>5. CASE x \in V
        <2>1. Hits(Append(q, x), V) = Hits(q, V) \cup {n} /\ n \notin Hits(q, V)
            BY <1>1, <1>4, <1>5 DEF Hits
        <2> QED BY <1>2, <1>3, <1>5, <2>1, FS_AddElement
    <1>6. CASE x \notin V
        <2>1. Hits(Append(q, x), V) = Hits(q, V)
            BY <1>1, <1>4, <1>6 DEF Hits
        <2> QED BY <1>3, <1>6, <2>1
    <1> QED BY <1>5, <1>6

\* The numbers of EscrowOK are numbers.
LEMMA EscrowTypes ==
    ASSUME TypeOK, NEW s \in Shipments, EscrowOK(s)
    PROVE  /\ Cardinality(Released(s)) \in Nat
           /\ Cardinality(Paying(s)) \in Nat
           /\ Cardinality(Deliveries(s)) \in Nat
    <1>1. chain \in Seq(Payments) /\ milestones[s] \in Seq(ShipmentStatus)
        BY DEF TypeOK
    <1>2. \A q : q \in Seq(Payments) \/ q \in Seq(ShipmentStatus) => IsFiniteSet(1..Len(q))
        BY FS_Interval
    <1>3. IsFiniteSet(Released(s)) /\ IsFiniteSet(Deliveries(s))
        BY <1>1, <1>2, FS_Subset DEF Released, Deliveries, Hits
    <1> QED BY <1>3, FS_CardinalityType DEF EscrowOK

\* A step that releases nothing, after which no handler may newly release.
LEMMA EscrowKept ==
    ASSUME TypeOK, NEW s \in Shipments, EscrowOK(s), chain' = chain,
           milestones'[s] = milestones[s], Paying(s)' \subseteq Paying(s)
    PROVE  EscrowOK(s)'
    <1>1. IsFiniteSet(Paying(s)') /\ Cardinality(Paying(s)') <= Cardinality(Paying(s))
        BY FS_Subset DEF EscrowOK
    <1>2. Cardinality(Paying(s)') \in Nat
        BY <1>1, FS_CardinalityType
    <1>3. Released(s)' = Released(s) /\ Deliveries(s)' = Deliveries(s)
        BY DEF Released, Deliveries
    <1>4. /\ Cardinality(Released(s)) \in Nat
          /\ Cardinality(Paying(s)) \in Nat
          /\ Cardinality(Deliveries(s)) \in Nat
          /\ Cardinality(Released(s)) + Cardinality(Paying(s)) <= Cardinality(Deliveries(s))
        BY EscrowTypes DEF EscrowOK
    <1>5. Cardinality(Released(s)') + Cardinality(Paying(s)') <= Cardinality(Deliveries(s)')
        BY <1>1, <1>2, <1>3, <1>4
    <1> QED BY <1>1, <1>5 DEF EscrowOK

\* What a step of one handler does to the set of those that may release.
LEMMA PayingFrame ==
    ASSUME Typed, NEW r \in Slots, Arrive(r) \/ Step(r), NEW s
    PROVE  Paying(s)' \ {r} = Paying(s) \ {r}
    <1>1. \A q \in Slots : q # r => SameSlot(q)
        BY StepFrame
    <1>2. \A q \in Slots : q # r => (q \in Paying(s)' <=> q \in Paying(s))
        BY <1>1 DEF Paying, SameSlot, Cur
    <1> QED BY <1>2 DEF Paying

\* A saved delivery lets its handler release once.
LEMMA EscrowWrite ==
    ASSUME Typed, EscrowInv, NEW r \in Slots, WriteStatus(r), milestones' # milestones,
           NEW s \in Shipments
    PROVE  EscrowOK(s)'
    <1>t. TypeOK /\ EscrowOK(s) /\ chain' = chain
        BY DEF Typed, EscrowInv, WriteStatus
    <1>1. /\ pc[r] = "write" /\ call' = call /\ at' = at
          /\ pc'[r] = AfterWrite(r)
        BY <1>t DEF WriteStatus, shipmentVars, localVars, TypeOK
    <1>2. /\ Cur(r) \in Shipments /\ call[r].to \in ShipmentStatus
          /\ milestones' = [milestones EXCEPT ![Cur(r)] = Append(@, call[r].to)]
          /\ milestones'[Cur(r)] = Append(milestones[Cur(r)], call[r].to)
        BY WriteEffect
    <1>3. r \notin Paying(s) /\ (r \in Paying(s)' <=> Cur(r) = s /\ call[r].to = "DELIVERED")
        BY <1>1 DEF Paying, Cur, AfterWrite
    <1>4. Paying(s)' \ {r} = Paying(s) \ {r}
        BY PayingFrame DEF Step
    <1>5. CASE s # Cur(r)
        <2>1. milestones'[s] = milestones[s]
            BY <1>2, <1>5, <1>t DEF TypeOK
        <2>2. Paying(s)' \subseteq Paying(s)
            BY <1>3, <1>4, <1>5
        <2> QED BY <2>1, <2>2, <1>t, EscrowKept
    <1>6. CASE s = Cur(r)
        <2>1. /\ Cardinality(Released(s)) \in Nat
              /\ Cardinality(Paying(s)) \in Nat
              /\ Cardinality(Deliveries(s)) \in Nat
              /\ Cardinality(Released(s)) + Cardinality(Paying(s)) <= Cardinality(Deliveries(s))
              /\ IsFiniteSet(Paying(s))
            BY <1>t, EscrowTypes DEF EscrowOK
        <2>2. Released(s)' = Released(s)
            BY <1>t DEF Released
        <2>3. Cardinality(Deliveries(s)') =
                Cardinality(Deliveries(s)) + (IF call[r].to = "DELIVERED" THEN 1 ELSE 0)
            <3>1. milestones[s] \in Seq(ShipmentStatus) /\ milestones'[s] = Append(milestones[s], call[r].to)
                BY <1>2, <1>6, <1>t DEF TypeOK
            <3>2. Cardinality(Hits(Append(milestones[s], call[r].to), {"DELIVERED"})) =
                    Cardinality(Hits(milestones[s], {"DELIVERED"}))
                      + (IF call[r].to \in {"DELIVERED"} THEN 1 ELSE 0)
                BY <1>2, <3>1, HitsAppend
            <3> QED BY <3>1, <3>2 DEF Deliveries
        <2>4. CASE call[r].to = "DELIVERED"
            <3>1. Paying(s)' = Paying(s) \cup {r}
                BY <1>3, <1>4, <1>6, <2>4
            <3>2. IsFiniteSet(Paying(s)') /\ Cardinality(Paying(s)') = Cardinality(Paying(s)) + 1
                BY <1>3, <2>1, <3>1, FS_AddElement
            <3>3. Cardinality(Released(s)') + Cardinality(Paying(s)') <= Cardinality(Deliveries(s)')
                BY <2>1, <2>2, <2>3, <2>4, <3>2
            <3> QED BY <3>2, <3>3 DEF EscrowOK
        <2>5. CASE call[r].to # "DELIVERED"
            <3>1. Paying(s)' = Paying(s)
                BY <1>3, <1>4, <2>5
            <3>2. Cardinality(Released(s)') + Cardinality(Paying(s)') <= Cardinality(Deliveries(s)')
                BY <2>1, <2>2, <2>3, <2>5, <3>1
            <3> QED BY <2>1, <3>1, <3>2 DEF EscrowOK
        <2> QED BY <2>4, <2>5
    <1> QED BY <1>5, <1>6

\* A release uses up its handler's permission.
LEMMA EscrowRelease ==
    ASSUME Typed, EscrowInv, NEW r \in Slots, ReleaseEscrow(r), NEW s \in Shipments
    PROVE  EscrowOK(s)'
    <1>t. TypeOK /\ EscrowOK(s) /\ milestones' = milestones
        BY DEF Typed, EscrowInv, ReleaseEscrow, shipmentVars
    <1>1. /\ pc[r] = "release" /\ call[r].to = "DELIVERED"
          /\ pay[r] \in Payments /\ ShipmentOf[pay[r]] = Cur(r)
          /\ pc'[r] \notin {"ledger", "payment", "release"}
          /\ chain' = chain \/ chain' = Append(chain, pay[r])
        BY <1>t DEF ReleaseEscrow, OnReleaseError, Typed, HandlerOK, SlotOK, EscrowInv, PayerOK, TypeOK
    <1>2. Paying(s)' = Paying(s) \ {r}
        <2>1. r \notin Paying(s)'
            BY <1>1 DEF Paying
        <2>2. Paying(s)' \ {r} = Paying(s) \ {r}
            BY PayingFrame DEF Step
        <2> QED BY <2>1, <2>2
    <1>3. CASE chain' = chain
        BY <1>2, <1>3, <1>t, EscrowKept
    <1>4. CASE chain' = Append(chain, pay[r])
        <2>1. /\ Cardinality(Released(s)) \in Nat
              /\ Cardinality(Paying(s)) \in Nat
              /\ Cardinality(Deliveries(s)) \in Nat
              /\ Cardinality(Released(s)) + Cardinality(Paying(s)) <= Cardinality(Deliveries(s))
              /\ IsFiniteSet(Paying(s))
            BY <1>t, EscrowTypes DEF EscrowOK
        <2>2. Deliveries(s)' = Deliveries(s)
            BY <1>t DEF Deliveries
        <2>3. Cardinality(Released(s)') =
                Cardinality(Released(s)) + (IF Cur(r) = s THEN 1 ELSE 0)
            <3> DEFINE V == {p \in Payments : ShipmentOf[p] = s}
            <3>1. pay[r] \in V <=> Cur(r) = s
                BY <1>1
            <3> HIDE DEF V
            <3>2. chain \in Seq(Payments)
                BY <1>t DEF TypeOK
            <3>3. Cardinality(Hits(Append(chain, pay[r]), V)) =
                    Cardinality(Hits(chain, V)) + (IF pay[r] \in V THEN 1 ELSE 0)
                BY <1>1, <3>2, HitsAppend
            <3>4. Cardinality(Hits(chain', V)) = Cardinality(Hits(chain, V)) + (IF Cur(r) = s THEN 1 ELSE 0)
                BY <1>4, <3>1, <3>3
            <3> QED BY <3>4 DEF Released, V
        <2>4. /\ IsFiniteSet(Paying(s)')
              /\ Cardinality(Paying(s)') =
                   IF r \in Paying(s) THEN Cardinality(Paying(s)) - 1 ELSE Cardinality(Paying(s))
            BY <1>2, <2>1, FS_RemoveElement
        <2>5. r \in Paying(s) <=> Cur(r) = s
            BY <1>1 DEF Paying
        <2>6. Cardinality(Released(s)') + Cardinality(Paying(s)') <= Cardinality(Deliveries(s)')
            BY <2>1, <2>2, <2>3, <2>4, <2>5
        <2> QED BY <2>4, <2>6 DEF EscrowOK
    <1> QED BY <1>1, <1>3, <1>4

\* What a handler may do next, if it saves and releases nothing.
LEMMA EscrowOther ==
    ASSUME Typed, EscrowInv, NEW r \in Slots, Arrive(r) \/ Step(r),
           ~ReleaseEscrow(r), milestones' = milestones
    PROVE  \A s \in Shipments : EscrowOK(s)'
    <1>t. TypeOK /\ PayerOK
        BY DEF Typed, EscrowInv
    <1> SUFFICES ASSUME NEW s \in Shipments PROVE EscrowOK(s)'
        OBVIOUS
    <1>1. chain' = chain
        BY DEF Step, Arrive, FindShipments, BulkItem, WriteStatus, WriteLedger, FindPayment,
               RecordRelease, WriteSettlementLedger, EmitStatus
    <1>2. r \in Paying(s)' => r \in Paying(s)
        <2>1. CASE Respond(r)
            BY <2>1, <1>t DEF Respond, Paying, TypeOK
        <2>2. CASE FinishItem(r)
            BY <2>1, <2>2, <1>t DEF FinishItem, Paying, TypeOK
        <2>3. CASE WriteStatus(r)
            <3>1. CASE FinishItem(r)
                BY <3>1, <2>2
            <3>2. CASE ~FinishItem(r)
                <4>1. /\ Cur(r) \in Shipments /\ call[r].to \in ShipmentStatus
                      /\ milestones' = [milestones EXCEPT ![Cur(r)] = Append(@, call[r].to)]
                    BY <2>3, <3>2, CurIsShipment, <1>t
                    DEF Typed, WriteStatus, SetStatus, Working, TypeOK, Call
                <4>2. milestones[Cur(r)] \in Seq(ShipmentStatus)
                      /\ milestones'[Cur(r)] = Append(milestones[Cur(r)], call[r].to)
                    BY <4>1, <1>t DEF TypeOK
                <4>3. Len(milestones'[Cur(r)]) # Len(milestones[Cur(r)])
                    BY <4>1, <4>2
                <4> QED BY <4>3
            <3> QED BY <3>1, <3>2
        <2>4. CASE ~Respond(r) /\ ~FinishItem(r) /\ ~WriteStatus(r)
            <3>1. CASE WriteLedger(r) \/ FindPayment(r)
                <4>1. pc[r] \in {"ledger", "payment"} /\ call' = call /\ at' = at
                    BY <3>1 DEF WriteLedger, FindPayment, localVars
                <4> QED BY <4>1 DEF Paying, Cur
            <3>2. CASE ~WriteLedger(r) /\ ~FindPayment(r)
                <4>1. pc'[r] \notin {"ledger", "payment", "release"}
                    BY <2>4, <3>2, <1>t
                    DEF Step, Arrive, FindShipments, BulkItem, RecordRelease, WriteSettlementLedger,
                        EmitStatus, TypeOK
                <4> QED BY <4>1 DEF Paying
            <3> QED BY <3>1, <3>2
        <2> QED BY <2>1, <2>2, <2>3, <2>4
    <1>3. Paying(s)' \subseteq Paying(s)
        BY <1>2, PayingFrame
    <1> QED BY <1>1, <1>3, <1>t, EscrowKept DEF EscrowInv

\* Only a delivery gets as far as its payment.
LEMMA PayerStep ==
    ASSUME Typed, PayerOK, [Next]_vars
    PROVE  PayerOK'
    <1>t. TypeOK
        BY DEF Typed
    <1>1. ASSUME NEW r \in Slots, Arrive(r) \/ Step(r) PROVE PayerOK'
        <2>1. \A q \in Slots : q # r => (pc'[q] \in {"payment", "release"} => call'[q].to = "DELIVERED")
            BY <1>1, StepFrame DEF SameSlot, PayerOK
        <2>2. pc'[r] \in {"payment", "release"} => call'[r].to = "DELIVERED"
            <3>1. CASE Respond(r) \/ FinishItem(r)
                BY <3>1, <1>t DEF Respond, FinishItem, TypeOK
            <3>2. CASE WriteStatus(r) /\ ~FinishItem(r)
                BY <3>2, <1>t DEF WriteStatus, AfterWrite, TypeOK, localVars
            <3>3. CASE WriteLedger(r)
                BY <3>3, <1>t DEF WriteLedger, TypeOK, localVars
            <3>4. CASE FindPayment(r) \/ ReleaseEscrow(r)
                BY <3>4, <1>t DEF FindPayment, ReleaseEscrow, OnReleaseError, PayerOK, TypeOK
            <3>5. CASE ~(Respond(r) \/ FinishItem(r)) /\ ~(WriteStatus(r) \/ WriteLedger(r))
                       /\ ~(FindPayment(r) \/ ReleaseEscrow(r))
                BY <1>1, <3>5, <1>t
                DEF Step, Arrive, FindShipments, BulkItem, RecordRelease, WriteSettlementLedger,
                    EmitStatus, TypeOK
            <3> QED BY <3>1, <3>2, <3>3, <3>4, <3>5
        <2> QED BY <2>1, <2>2 DEF PayerOK
    <1>2. CASE Crash
        BY <1>2 DEF Crash, PayerOK
    <1>3. CASE UNCHANGED <<pc, call>>
        BY <1>3 DEF PayerOK
    <1> QED BY <1>1, <1>2, <1>3 DEF Next, DeleteShipment, localVars, vars

\* Every step keeps releases and deliveries matched.
LEMMA EscrowStep ==
    ASSUME Typed, EscrowInv, [Next]_vars
    PROVE  EscrowInv'
    <1>t. TypeOK
        BY DEF Typed
    <1>0. PayerOK'
        BY PayerStep DEF EscrowInv
    <1>1. ASSUME NEW r \in Slots, Arrive(r) \/ Step(r) PROVE \A s \in Shipments : EscrowOK(s)'
        <2>1. CASE ReleaseEscrow(r)
            BY <2>1, EscrowRelease
        <2>2. CASE ~ReleaseEscrow(r) /\ milestones' = milestones
            BY <1>1, <2>2, EscrowOther
        <2>3. CASE milestones' # milestones
            <3>1. WriteStatus(r)
                BY <1>1, <2>3
                DEF Step, Arrive, FindShipments, BulkItem, WriteLedger, FindPayment, ReleaseEscrow,
                    RecordRelease, WriteSettlementLedger, EmitStatus, shipmentVars
            <3> QED BY <2>3, <3>1, EscrowWrite
        <2> QED BY <2>1, <2>2, <2>3
    <1>2. CASE Crash
        <2>1. chain' = chain /\ milestones' = milestones
            BY <1>2 DEF Crash, shipmentVars
        <2>2. \A s \in Shipments : Paying(s)' = {}
            BY <1>2 DEF Crash, Paying
        <2>3. \A s \in Shipments : EscrowOK(s)'
            BY <2>1, <2>2, <1>t, EscrowKept DEF EscrowInv
        <2> QED BY <2>3, <1>0 DEF EscrowInv
    <1>3. CASE UNCHANGED <<pc, call, at, chain, milestones>>
        <2>1. \A s \in Shipments : Paying(s)' = Paying(s)
            BY <1>3 DEF Paying, Cur
        <2>2. \A s \in Shipments : EscrowOK(s)'
            BY <1>3, <2>1, <1>t, EscrowKept DEF EscrowInv
        <2> QED BY <2>2, <1>0 DEF EscrowInv
    <1> QED BY <1>0, <1>1, <1>2, <1>3 DEF Next, DeleteShipment, EscrowInv, localVars, vars

(***************************************************************************)
(* releaseEscrowOnDelivery never runs ahead of the deliveries: for every   *)
(* number of racing, failing and interrupted handlers and either adapter,  *)
(* a shipment's escrow is released at most once per saved DELIVERED.       *)
(***************************************************************************)
THEOREM ReleasesPaidFor == Spec => []ReleasesBounded
    <1>1. Init => EscrowInv
        <2> SUFFICES ASSUME Init PROVE EscrowInv
            OBVIOUS
        <2>1. PayerOK
            BY DEF Init, PayerOK
        <2>2. \A s \in Shipments : Paying(s) = {} /\ Released(s) = {} /\ Deliveries(s) = {}
            BY DEF Init, Paying, Released, Deliveries, Hits
        <2> QED BY <2>1, <2>2, FS_EmptySet DEF EscrowInv, EscrowOK
    <1>2. IInv /\ EscrowInv /\ [Next]_vars => EscrowInv'
        BY EscrowStep DEF IInv, Typed
    <1>3. IInv /\ EscrowInv => ReleasesBounded
        <2> SUFFICES ASSUME IInv, EscrowInv, NEW s \in Shipments
                     PROVE  Cardinality({k \in 1..Len(chain) : ShipmentOf[chain[k]] = s})
                              <= Cardinality({j \in 1..Len(milestones[s]) : milestones[s][j] = "DELIVERED"})
            BY DEF ReleasesBounded
        <2>1. chain \in Seq(Payments) /\ TypeOK
            BY DEF IInv, TypeOK
        <2>2. Released(s) = {k \in 1..Len(chain) : ShipmentOf[chain[k]] = s}
            BY <2>1 DEF Released, Hits
        <2>3. Deliveries(s) = {j \in 1..Len(milestones[s]) : milestones[s][j] = "DELIVERED"}
            BY DEF Deliveries, Hits
        <2>4. /\ Cardinality(Released(s)) \in Nat
              /\ Cardinality(Paying(s)) \in Nat
              /\ Cardinality(Deliveries(s)) \in Nat
              /\ Cardinality(Released(s)) + Cardinality(Paying(s)) <= Cardinality(Deliveries(s))
            BY <2>1, EscrowTypes DEF EscrowInv, EscrowOK
        <2>5. Cardinality(Released(s)) <= Cardinality(Deliveries(s))
            BY <2>4
        <2> QED BY <2>2, <2>3, <2>5
    <1> QED BY <1>1, <1>2, <1>3, Invariance, PTL DEF Spec

-----------------------------------------------------------------------------
(***************************************************************************)
(* One request at a time.  If at most one handler is in flight and no bulk *)
(* list names a shipment twice, what a handler read is still true when it  *)
(* writes, and the histories follow the transition table.                  *)
(***************************************************************************)
OneAtATime == \A q, r \in Slots : q = r

NoRepeats == \A l \in BulkIds : \A i, j \in 1..Len(l) : l[i] = l[j] => i = j

\* The reads a handler has yet to act on are current.
SlotFresh(r) ==
    /\ pc[r] = "write" => snap[r][Cur(r)] = status[Cur(r)]
    /\ ~IsSingle(r) /\ pc[r] # "idle" =>
          \A i, j \in 1..Len(call[r].ids) : call[r].ids[i] = call[r].ids[j] => i = j
    /\ ~IsSingle(r) /\ pc[r] \notin {"idle", "find"} =>
          \A k \in 1..Len(call[r].ids) :
             (k > at[r] \/ (k = at[r] /\ pc[r] = "item")) =>
                snap[r][call[r].ids[k]] \in {None, status[call[r].ids[k]]}

Fresh == \A r \in Slots : SlotFresh(r)


\* A handler that does not touch its list, its reads or the statuses, and goes
\* neither to a write nor back to the head of its loop, keeps current reads.
LEMMA FreshKept ==
    ASSUME TypeOK, NEW r \in Slots, SlotFresh(r), status' = status,
           call'[r] = call[r], at'[r] = at[r], snap'[r] = snap[r],
           pc[r] \notin {"idle", "find"},
           pc'[r] \notin {"write", "item"} \/ pc'[r] = pc[r]
    PROVE  SlotFresh(r)'
    <1>1. (IsSingle(r)' <=> IsSingle(r)) /\ Cur(r)' = Cur(r)
        BY DEF IsSingle, Cur
    <1> QED BY <1>1 DEF SlotFresh

\* A handler that has finished a shipment still has current reads.
LEMMA FreshFinished ==
    ASSUME TypeOK, NEW r \in Slots, SlotFresh(r), FinishItem(r), status' = status,
           pc[r] \notin {"idle", "find"}
    PROVE  SlotFresh(r)'
    <1>1. CASE Respond(r)
        BY <1>1 DEF Respond, SlotFresh, TypeOK, NoCall, IsSingle
    <1>2. CASE ~Respond(r)
        <2>1. /\ pc'[r] = "item" /\ at'[r] = at[r] + 1 /\ call'[r] = call[r]
              /\ snap'[r] = snap[r] /\ ~IsSingle(r)
            BY <1>2 DEF FinishItem, TypeOK
        <2>2. /\ at[r] \in Nat
              /\ \A k \in 1..Len(call[r].ids) : k > at[r] =>
                   snap[r][call[r].ids[k]] \in {None, status[call[r].ids[k]]}
            BY <2>1 DEF SlotFresh, TypeOK
        <2>3. \A k \in 1..Len(call[r].ids) : k > at[r] + 1 \/ k = at[r] + 1 => k > at[r]
            BY <2>2
        <2>4. \A i, j \in 1..Len(call[r].ids) : call[r].ids[i] = call[r].ids[j] => i = j
            BY <2>1 DEF SlotFresh
        <2>5. \A k \in 1..Len(call[r].ids) : k > at[r] + 1 \/ k = at[r] + 1 =>
                   snap[r][call[r].ids[k]] \in {None, status[call[r].ids[k]]}
            BY <2>2, <2>3
        <2> QED BY <2>1, <2>4, <2>5 DEF SlotFresh
    <1> QED BY <1>1, <1>2

\* Every step of the only handler keeps its reads current.
LEMMA FreshStep ==
    ASSUME Typed, Fresh, OneAtATime, NoRepeats, [Next]_vars
    PROVE  Fresh'
    <1>t. TypeOK /\ HandlerOK /\ TypeOK'
        BY TypeStep DEF Typed
    <1>f. \A r \in Slots : SlotFresh(r)
        BY DEF Fresh
    <1>a. ASSUME NEW r \in Slots, SlotFresh(r)' PROVE Fresh'
        BY <1>a DEF Fresh, OneAtATime
    <1>b. ASSUME NEW r \in Slots, Respond(r) PROVE SlotFresh(r)'
        BY <1>b, <1>t DEF Respond, SlotFresh, TypeOK, NoCall, IsSingle
    <1>1. ASSUME NEW r \in Slots, Arrive(r) PROVE SlotFresh(r)'
        <2>1. pc'[r] = "find"
            BY <1>1, <1>t DEF Arrive, TypeOK
        <2>2. call'[r].kind = "single" \/ call'[r].ids \in BulkIds
            BY <1>1, <1>t DEF Arrive, TypeOK
        <2> QED BY <2>1, <2>2 DEF SlotFresh, IsSingle, NoRepeats
    <1>2. ASSUME NEW r \in Slots, FindShipments(r), ~Respond(r) PROVE SlotFresh(r)'
        <2> DEFINE read == [s \in Shipments |->
                   IF deleted[s] \/ s \notin {call[r].ids[i] : i \in DOMAIN call[r].ids}
                   THEN None ELSE status[s]]
        <2>1. /\ snap' = [snap EXCEPT ![r] = read]
              /\ call' = call /\ at' = at /\ status' = status
              /\ pc[r] = "find"
              /\ IsSingle(r) => pc'[r] = "write" /\ Acceptable(read[Cur(r)], call[r].to)
              /\ ~IsSingle(r) => pc'[r] = "item"
            BY <1>2, <1>t DEF FindShipments, TypeOK, shipmentVars
        <2>2. \A s \in Shipments : read[s] \in {None, status[s]}
            OBVIOUS
        <2> HIDE DEF read
        <2>3. \A s \in Shipments : snap'[r][s] \in {None, status[s]}
            BY <2>1, <2>2, <1>t DEF TypeOK
        <2>4. snap'[r] = read
            BY <2>1, <1>t DEF TypeOK
        <2>5. call[r].ids \in Seq(Shipments)
            BY <1>t DEF TypeOK, Call
        <2>6. CASE IsSingle(r)
            <3>1. Cur(r) \in Shipments
                BY <2>1, <2>6, <1>t, CurIsShipment
            <3>2. read[Cur(r)] = status[Cur(r)]
                BY <2>1, <2>2, <2>6, <3>1 DEF Acceptable
            <3> QED BY <2>1, <2>4, <2>6, <3>2 DEF SlotFresh, IsSingle, Cur
        <2>7. CASE ~IsSingle(r)
            <3>1. \A i, j \in 1..Len(call[r].ids) : call[r].ids[i] = call[r].ids[j] => i = j
                BY <2>1, <2>7, <1>f DEF SlotFresh
            <3>2. \A k \in 1..Len(call[r].ids) : call[r].ids[k] \in Shipments
                BY <2>5
            <3> QED BY <2>1, <2>3, <2>7, <3>1, <3>2 DEF SlotFresh, IsSingle
        <2> QED BY <2>6, <2>7
    <1>3. ASSUME NEW r \in Slots, BulkItem(r) PROVE SlotFresh(r)'
        <2>1. pc[r] = "item" /\ status' = status
            BY <1>3 DEF BulkItem, shipmentVars
        <2>2. CASE ~Respond(r) /\ ~FinishItem(r)
            <3>1. /\ snap'[r] = snap[r] /\ call'[r] = call[r] /\ at'[r] = at[r]
                  /\ pc'[r] = "write" /\ Eligible(r) /\ at[r] <= Len(call[r].ids)
                BY <1>3, <2>2, <1>t DEF BulkItem, TypeOK, localVars
            <3>2. ~IsSingle(r) /\ at[r] \in 1..Len(call[r].ids)
                BY <2>1, <3>1, <1>t, CurIsShipment DEF HandlerOK, SlotOK
            <3>3. snap[r][Cur(r)] \in {None, status[Cur(r)]}
                BY <2>1, <3>2, <1>f DEF SlotFresh, Cur
            <3>4. snap[r][Cur(r)] = status[Cur(r)]
                BY <3>1, <3>3 DEF Eligible
            <3>5. /\ \A i, j \in 1..Len(call[r].ids) : call[r].ids[i] = call[r].ids[j] => i = j
                  /\ \A k \in 1..Len(call[r].ids) : k > at[r] =>
                        snap[r][call[r].ids[k]] \in {None, status[call[r].ids[k]]}
                BY <2>1, <3>2, <1>f DEF SlotFresh
            <3> QED BY <2>1, <3>1, <3>4, <3>5 DEF SlotFresh, Cur
        <2> QED BY <2>1, <2>2, <1>b, <1>t, <1>f, FreshFinished
    <1>4. ASSUME NEW r \in Slots, WriteStatus(r) PROVE SlotFresh(r)'
        <2>1. pc[r] = "write"
            BY <1>4 DEF WriteStatus
        <2>2. CASE FinishItem(r) /\ status' = status
            BY <2>1, <2>2, <1>t, <1>f, FreshFinished
        <2>3. CASE SetStatus(Cur(r), call[r].to) /\ Goto(r, AfterWrite(r)) /\ UNCHANGED localVars
            <3>1. /\ snap'[r] = snap[r] /\ call'[r] = call[r] /\ at'[r] = at[r]
                  /\ pc'[r] \notin {"write", "item"}
                BY <2>3, <1>t DEF AfterWrite, TypeOK, localVars
            <3>2. Cur(r) \in Shipments /\ at[r] \in 1..Len(call[r].ids)
                BY <2>1, <1>t, CurIsShipment DEF Working
            <3>3. \A s \in Shipments : s # Cur(r) => status'[s] = status[s]
                BY <2>3, <1>t DEF SetStatus, TypeOK
            <3>4. call[r].ids \in Seq(Shipments)
                BY <1>t DEF TypeOK, Call
            <3>5. CASE IsSingle(r)
                BY <3>1, <3>5 DEF SlotFresh, IsSingle
            <3>6. CASE ~IsSingle(r)
                <4>1. \A i, j \in 1..Len(call[r].ids) : call[r].ids[i] = call[r].ids[j] => i = j
                    BY <2>1, <3>6, <1>f DEF SlotFresh
                <4>2. \A k \in 1..Len(call[r].ids) : k > at[r] =>
                        snap[r][call[r].ids[k]] \in {None, status[call[r].ids[k]]}
                    BY <2>1, <3>6, <1>f DEF SlotFresh
                <4>3. \A k \in 1..Len(call[r].ids) : k > at[r] =>
                        call[r].ids[k] \in Shipments /\ call[r].ids[k] # Cur(r)
                    BY <3>2, <3>4, <4>1 DEF Cur
                <4>4. \A k \in 1..Len(call[r].ids) : k > at[r] =>
                        snap[r][call[r].ids[k]] \in {None, status'[call[r].ids[k]]}
                    BY <3>3, <4>2, <4>3
                <4> QED BY <3>1, <3>6, <4>1, <4>4 DEF SlotFresh, IsSingle
            <3> QED BY <3>5, <3>6
        <2> QED BY <1>4, <2>2, <2>3 DEF WriteStatus, shipmentVars
    <1>5. ASSUME NEW r \in Slots, WriteLedger(r) \/ FindPayment(r) \/ ReleaseEscrow(r)
                                 \/ RecordRelease(r) \/ WriteSettlementLedger(r)
          PROVE  SlotFresh(r)'
        <2>1. call' = call /\ at' = at /\ snap' = snap /\ status' = status
            BY <1>5 DEF WriteLedger, FindPayment, ReleaseEscrow, RecordRelease,
                        WriteSettlementLedger, localVars, shipmentVars
        <2>2. pc[r] \notin {"idle", "find"} /\ pc'[r] \notin {"write", "item"}
            BY <1>5, <1>t DEF WriteLedger, FindPayment, ReleaseEscrow, OnReleaseError,
                              RecordRelease, WriteSettlementLedger, TypeOK
        <2> QED BY <2>1, <2>2, <1>t, <1>f, FreshKept
    <1>6. ASSUME NEW r \in Slots, EmitStatus(r) PROVE SlotFresh(r)'
        BY <1>6, <1>t, <1>f, FreshFinished DEF EmitStatus, shipmentVars
    <1>7. ASSUME NEW s \in Shipments, DeleteShipment(s) PROVE Fresh'
        BY <1>7 DEF DeleteShipment, localVars, Fresh, SlotFresh, IsSingle, Cur
    <1>8. ASSUME Crash PROVE Fresh'
        BY <1>8 DEF Crash, Fresh, SlotFresh, IsSingle, NoCall
    <1>9. ASSUME UNCHANGED vars PROVE Fresh'
        BY <1>9 DEF vars, Fresh, SlotFresh, IsSingle, Cur
    <1>10. ASSUME NEW r \in Slots, Step(r) PROVE SlotFresh(r)'
        BY <1>10, <1>b, <1>2, <1>3, <1>4, <1>5, <1>6 DEF Step
    <1> QED BY <1>a, <1>1, <1>10, <1>7, <1>8, <1>9 DEF Next

\* A write from a current read extends the history legally.
LEMMA LegalStep ==
    ASSUME Typed, ReadsOK, StatusIsLastMilestone, Fresh, LegalHistory, [Next]_vars
    PROVE  LegalHistory'
    <1>1. CASE milestones' = milestones
        BY <1>1 DEF LegalHistory, StatusAt
    <1>2. ASSUME NEW r \in Slots, WriteStatus(r), milestones' # milestones
          PROVE  LegalHistory'
        <2> SUFFICES ASSUME NEW s \in Shipments, NEW j \in 1..Len(milestones'[s])
                     PROVE  ValidTransition(StatusAt(s, j - 1)', milestones'[s][j])
            BY DEF LegalHistory
        <2>0. Len(milestones[s]) \in Nat
            BY DEF Typed, TypeOK
        <2>1. Extends(milestones[s], milestones'[s])
            BY <1>2, GrowStep DEF Grown
        <2>2. \A i \in 0..Len(milestones[s]) : StatusAt(s, i)' = StatusAt(s, i)
            BY <2>0, <2>1 DEF Extends, StatusAt
        <2>3. CASE j <= Len(milestones[s])
            <3>1. ValidTransition(StatusAt(s, j - 1), milestones[s][j])
                BY <2>0, <2>3 DEF LegalHistory
            <3>2. milestones'[s][j] = milestones[s][j] /\ StatusAt(s, j - 1)' = StatusAt(s, j - 1)
                <4>1. j - 1 \in 0..Len(milestones[s]) /\ j \in 1..Len(milestones[s])
                    BY <2>0, <2>3
                <4> QED BY <4>1, <2>1, <2>2 DEF Extends
            <3> QED BY <3>1, <3>2
        <2>4. CASE j > Len(milestones[s])
            <3>1. s = Cur(r) /\ j = Len(milestones[s]) + 1 /\ milestones'[s][j] = call[r].to
                <4>1. CASE s # Cur(r)
                    BY <1>2, <2>0, <2>4, <4>1, WriteEffect DEF Typed, TypeOK
                <4>2. CASE s = Cur(r)
                    BY <1>2, <2>0, <2>4, <4>2, WriteEffect
                <4> QED BY <4>1, <4>2
            <3>2. /\ snap[r][Cur(r)] = status[Cur(r)]
                  /\ ValidTransition(snap[r][Cur(r)], call[r].to)
                BY <1>2 DEF WriteStatus, Fresh, SlotFresh, ReadsOK, SlotReadsOK
            <3>3. status[s] = StatusAt(s, Len(milestones[s]))
                BY DEF StatusIsLastMilestone
            <3>4. j - 1 = Len(milestones[s]) /\ j - 1 \in 0..Len(milestones[s])
                BY <3>1, <2>0
            <3>5. StatusAt(s, j - 1)' = status[s]
                BY <3>3, <3>4, <2>2
            <3> QED BY <3>1, <3>2, <3>5
        <2> QED BY <2>0, <2>3, <2>4
    <1>3. CASE \A r \in Slots : ~WriteStatus(r)
        BY <1>1, <1>3, OnlyWrites
    <1> QED BY <1>1, <1>2, <1>3

(***************************************************************************)
(* Where requests are handled one at a time and no bulk list repeats a     *)
(* shipment, every history follows the transition table, in spite of       *)
(* failures, deletions and crashes.  Run ShipmentRaceIllegal shows what    *)
(* happens when requests overlap.                                          *)
(***************************************************************************)
THEOREM SerialLegal == OneAtATime /\ NoRepeats => (Spec => []LegalHistory)
    <1> SUFFICES ASSUME OneAtATime, NoRepeats PROVE Spec => []LegalHistory
        OBVIOUS
    <1>1. Init => Fresh /\ LegalHistory
        BY DEF Init, Fresh, SlotFresh, IsSingle, NoCall, LegalHistory
    <1>2. IInv /\ Fresh /\ LegalHistory /\ [Next]_vars => Fresh' /\ LegalHistory'
        BY FreshStep, LegalStep DEF IInv, Typed
    <1> QED BY <1>1, <1>2, Invariance, PTL DEF Spec

-----------------------------------------------------------------------------
(***************************************************************************)
(* What the clients were told.                                             *)
(***************************************************************************)

\* The handler has saved a status and has yet to announce it.
Telling == {"ledger", "payment", "release", "record", "settle", "emit"}

\* What a handler has yet to announce is the stored status.
TellerOK == \A r \in Slots : pc[r] \in Telling => status[Cur(r)] = call[r].to

\* Every other stored status has been announced.
ToldOK ==
    \A s \in Shipments : milestones[s] # <<>> =>
        announced[s] = status[s] \/ \E r \in Slots : pc[r] \in Telling /\ Cur(r) = s

\* Handlers that only go on towards the event change nothing of this.
LEMMA TellKept ==
    ASSUME Typed, OneAtATime, TellerOK, ToldOK, NEW r \in Slots,
           UNCHANGED <<status, milestones, announced>>,
           \/ pc[r] \notin Telling /\ pc'[r] \notin Telling
           \/ pc'[r] \in Telling /\ pc[r] \in Telling /\ call' = call /\ at' = at
    PROVE  TellerOK' /\ ToldOK'
    <1>1. CASE pc[r] \notin Telling /\ pc'[r] \notin Telling
        BY <1>1 DEF OneAtATime, TellerOK, ToldOK
    <1>2. CASE pc'[r] \in Telling /\ pc[r] \in Telling /\ call' = call /\ at' = at
        <2>1. \A q \in Slots : /\ pc'[q] \in Telling <=> pc[q] \in Telling
                               /\ Cur(q)' = Cur(q) /\ call'[q] = call[q]
            BY <1>2 DEF OneAtATime, Cur
        <2> QED BY <2>1 DEF TellerOK, ToldOK
    <1> QED BY <1>1, <1>2

\* Every step keeps the clients told, or about to be told.
LEMMA TellStep ==
    ASSUME Typed, OneAtATime, "crash" \notin Faults, TellerOK, ToldOK, [Next]_vars
    PROVE  TellerOK' /\ ToldOK'
    <1>t. TypeOK
        BY DEF Typed
    <1>1. ASSUME NEW r \in Slots, WriteStatus(r), ~FinishItem(r) PROVE TellerOK' /\ ToldOK'
        <2>1. /\ pc[r] = "write" /\ pc'[r] = AfterWrite(r)
              /\ call' = call /\ at' = at /\ announced' = announced
              /\ status' = [status EXCEPT ![Cur(r)] = call[r].to]
              /\ milestones' = [milestones EXCEPT ![Cur(r)] = Append(@, call[r].to)]
            BY <1>1, <1>t DEF WriteStatus, SetStatus, localVars, TypeOK
        <2>2. Cur(r) \in Shipments /\ Cur(r)' = Cur(r) /\ pc'[r] \in Telling
            <3>1. Cur(r) \in Shipments
                BY <2>1, CurIsShipment DEF Typed, Working
            <3>2. AfterWrite(r) \in Telling
                BY DEF AfterWrite, Telling
            <3> QED BY <2>1, <3>1, <3>2 DEF Cur
        <2>3. \A q \in Slots : q = r
            BY DEF OneAtATime
        <2>4. TellerOK'
            BY <2>1, <2>2, <2>3, <1>t DEF TellerOK, TypeOK
        <2>5. \A s \in Shipments : s # Cur(r) => status'[s] = status[s] /\ milestones'[s] = milestones[s]
            BY <2>1, <1>t DEF TypeOK
        <2>6. pc[r] \notin Telling
            BY <2>1 DEF Telling
        <2> QED BY <2>1, <2>2, <2>3, <2>4, <2>5, <2>6 DEF ToldOK
    <1>2. ASSUME NEW r \in Slots, EmitStatus(r) PROVE TellerOK' /\ ToldOK'
        <2>1. /\ pc[r] = "emit" /\ status' = status /\ milestones' = milestones
              /\ announced' = [announced EXCEPT ![Cur(r)] = call[r].to]
            BY <1>2 DEF EmitStatus, shipmentVars
        <2>2. pc'[r] \notin Telling /\ pc[r] \in Telling
            BY <1>2, <2>1, <1>t DEF EmitStatus, FinishItem, Respond, TypeOK, Telling
        <2>3. \A q \in Slots : q = r
            BY DEF OneAtATime
        <2>4. Cur(r) \in Shipments /\ status[Cur(r)] = call[r].to
            BY <2>1, <2>2, CurIsShipment DEF Typed, Working, TellerOK
        <2>5. ASSUME NEW s \in Shipments, milestones[s] # <<>> PROVE announced'[s] = status[s]
            <3>1. CASE s = Cur(r)
                BY <2>1, <2>4, <3>1, <1>t DEF TypeOK
            <3>2. CASE s # Cur(r)
                BY <2>1, <2>3, <2>5, <3>2, <1>t DEF ToldOK, TypeOK
            <3> QED BY <3>1, <3>2
        <2> QED BY <2>1, <2>2, <2>3, <2>5 DEF TellerOK, ToldOK
    <1>3. ASSUME NEW r \in Slots,
                 WriteLedger(r) \/ FindPayment(r) \/ ReleaseEscrow(r) \/ RecordRelease(r)
                   \/ WriteSettlementLedger(r)
          PROVE  TellerOK' /\ ToldOK'
        <2>1. UNCHANGED <<status, milestones, announced, call, at>>
            BY <1>3 DEF WriteLedger, FindPayment, ReleaseEscrow, RecordRelease, WriteSettlementLedger,
                        shipmentVars, localVars
        <2>2. pc[r] \in Telling /\ pc'[r] \in Telling
            BY <1>3, <1>t DEF WriteLedger, FindPayment, ReleaseEscrow, OnReleaseError, RecordRelease,
                              WriteSettlementLedger, Telling, TypeOK
        <2> QED BY <2>1, <2>2, TellKept
    <1>4. ASSUME NEW r \in Slots,
                 Arrive(r) \/ FindShipments(r) \/ BulkItem(r) \/ (WriteStatus(r) /\ FinishItem(r))
          PROVE  TellerOK' /\ ToldOK'
        <2>1. pc[r] \notin Telling
            BY <1>4 DEF Arrive, FindShipments, BulkItem, WriteStatus, Telling
        <2>2. pc'[r] \notin Telling
            <3>1. CASE Respond(r) \/ FinishItem(r)
                BY <3>1, <1>t DEF Respond, FinishItem, TypeOK, Telling
            <3>2. CASE ~(Respond(r) \/ FinishItem(r))
                BY <1>4, <3>2, <1>t DEF Arrive, FindShipments, BulkItem, TypeOK, Telling
            <3> QED BY <3>1, <3>2
        <2>3. UNCHANGED <<status, milestones, announced>>
            <3>1. CASE WriteStatus(r) /\ FinishItem(r)
                <4>1. pc[r] = "write" /\ pc'[r] \notin Telling
                    BY <2>2, <3>1 DEF WriteStatus
                <4>2. ~Goto(r, AfterWrite(r))
                    <5>1. AfterWrite(r) \in Telling
                        BY DEF AfterWrite, Telling
                    <5> QED BY <4>1, <5>1, <1>t DEF TypeOK
                <4> QED BY <3>1, <4>2, Zenon DEF WriteStatus, shipmentVars
            <3>2. CASE Arrive(r) \/ FindShipments(r) \/ BulkItem(r)
                BY <3>2 DEF Arrive, FindShipments, BulkItem, shipmentVars
            <3> QED BY <1>4, <3>1, <3>2
        <2> QED BY <2>1, <2>2, <2>3, TellKept
    <1>5. CASE UNCHANGED <<status, milestones, announced, pc, call, at>>
        BY <1>5 DEF TellerOK, ToldOK, Cur
    <1> QED BY <1>1, <1>2, <1>3, <1>4, <1>5 DEF Next, Step, Crash, DeleteShipment, localVars, vars

(***************************************************************************)
(* Where requests are handled one at a time by a process that does not     *)
(* die, the last shipment:status event of every shipment carries the       *)
(* stored status whenever no handler is in flight, however many of the     *)
(* calls in between failed.                                                *)
(***************************************************************************)
THEOREM SerialAnnounced == OneAtATime /\ "crash" \notin Faults => (Spec => []AnnouncedIsCurrent)
    <1> SUFFICES ASSUME OneAtATime, "crash" \notin Faults PROVE Spec => []AnnouncedIsCurrent
        OBVIOUS
    <1>1. Init => TellerOK /\ ToldOK
        BY DEF Init, TellerOK, ToldOK, Telling
    <1>2. IInv /\ TellerOK /\ ToldOK /\ [Next]_vars => TellerOK' /\ ToldOK'
        BY TellStep DEF IInv, Typed
    <1>3. ToldOK => AnnouncedIsCurrent
        BY DEF ToldOK, AnnouncedIsCurrent, Telling
    <1> QED BY <1>1, <1>2, <1>3, Invariance, PTL DEF Spec

=============================================================================
