-------------------------- MODULE SettlementProofs --------------------------
(***************************************************************************)
(* For any requests, scripts and number of cycles: a resolved contract     *)
(* call is on the chain, a status set by a webhook is backed by the chain, *)
(* and the indexer's cursor has left nothing behind.                       *)
(***************************************************************************)
EXTENDS Settlement, SequenceTheorems, TLAPS

(* A request of the kind k that calls the contract, or reports of it, is   *)
(* at one of these places.                                                 *)
CallLabels    == {"check", "account", "simulate", "send", "poll", "ok", "error"}
WebhookLabels == {"verify", "find", "update", "block", "ok", "error"}

(* The types the properties depend on. *)
Typed ==
    /\ call \in Scripts
    /\ pc = [r \in Reqs |-> pc[r]]
    /\ fate \in [Reqs -> Fates \union {None}]
    /\ chain \in Seq(Reqs)
    /\ payment = [p \in Reqs |-> payment[p]]
    /\ \A p \in Reqs : payment[p] # None => payment[p].by \in Reqs
    /\ \A b \in ledger : "tx" \in DOMAIN b
    /\ cursor \in 0..Len(chain)
    /\ idx \in [at : {"idle", "fetch", "event", "save"}, pos : 0..Len(chain), end : 0..Len(chain)]

(* The transaction e is on the chain. *)
Confirmed(e) == \E i \in DOMAIN chain : chain[i] = e

(* Where contract calls and webhooks can be, what a call knows of its      *)
(* transaction, and what a webhook that has been verified reports.         *)
HandlersOK ==
    \A r \in Reqs :
        /\ Kind(r) \in Calls => pc[r] \in CallLabels
        /\ Kind(r) \in Webhooks => pc[r] \in WebhookLabels
        /\ fate[r] = "SUCCESS" => Confirmed(r)
        /\ Kind(r) \in {"release", "escrow"} /\ pc[r] \in {"find", "update"} => Confirmed(call[r].of)

(* The indexer is not ahead of what it filed. *)
PositionOK == \A i \in 1..idx.pos : Parses(chain[i]) => Filed(chain[i]) # {}

IInv ==
    /\ Typed /\ HandlersOK /\ PositionOK
    /\ ResolvedIsConfirmed /\ StatusIsOnChain /\ IndexedUpToCursor

-----------------------------------------------------------------------------
(* What the scripts say of a request. *)
LEMMA CallsOK ==
    ASSUME Typed, NEW r \in Reqs
    PROVE  /\ call \in [Reqs -> Bodies]
           /\ call[r].of \in Reqs \union {None} /\ On(r) \in Reqs \union {None}
           /\ call[r].shipment \in Shipments
           /\ Kind(r) \in {"update", "dispute", "get", "fund", "payOut"} \union Webhooks => On(r) \in Reqs
           /\ Kind(r) \in Webhooks => call[r].of \in Reqs /\ On(call[r].of) = On(r)
           /\ Kind(r) = "escrow" => Kind(call[r].of) = "fund"
           /\ Kind(r) = "release" => Kind(call[r].of) = "payOut"
<1>1. call \in [Reqs -> Bodies]
  BY SettlementAssumption DEF Typed
<1>2. call[r].of \in Reqs \union {None} /\ On(r) \in Reqs \union {None} /\ call[r].shipment \in Shipments
  BY <1>1 DEF Bodies, On
<1>3. /\ Kind(r) \in {"update", "dispute", "get", "fund", "payOut"} \union Webhooks => On(r) \in Reqs
      /\ Kind(r) \in Webhooks =>
            /\ call[r].of \in Reqs /\ On(call[r].of) = On(r)
            /\ Kind(call[r].of) = IF Kind(r) = "escrow" THEN "fund" ELSE "payOut"
  BY SettlementAssumption DEF Typed, Kind, On
<1> QED BY <1>1, <1>2, <1>3 DEF Webhooks

(* Where requests begin. *)
LEMMA FirstOK ==
    /\ \A k \in Calls : First(k) = "check"
    /\ \A k \in Webhooks : First(k) = "verify"
<1>1. \A k \in Webhooks \union Calls : k \notin Routes
  BY DEF Routes, RolesOf, Webhooks, Calls
<1>2. ASSUME NEW k \in Calls PROVE First(k) = "check"
  BY <1>1 DEF First, Calls, Webhooks
<1>3. ASSUME NEW k \in Webhooks PROVE First(k) = "verify"
  BY <1>1 DEF First, Webhooks
<1> QED BY <1>2, <1>3

(* The initial state satisfies the invariant. *)
LEMMA InitOK == Init => IInv
<1> SUFFICES ASSUME Init PROVE IInv
  OBVIOUS
<1>1. Typed
  BY DEF Init, Typed
<1>2. HandlersOK
  <2> SUFFICES ASSUME NEW r \in Reqs
               PROVE  /\ Kind(r) \in Calls => pc[r] \in CallLabels
                      /\ Kind(r) \in Webhooks => pc[r] \in WebhookLabels
                      /\ fate[r] # "SUCCESS"
                      /\ Kind(r) \in {"release", "escrow"} => pc[r] \notin {"find", "update"}
    BY DEF HandlersOK
  <2>1. pc[r] = First(Kind(r)) /\ fate[r] = None
    BY DEF Init, Kind
  <2>2. None # "SUCCESS"
    BY SettlementAssumption DEF Fates
  <2>3. Kind(r) \in {"release", "escrow"} => Kind(r) \in Webhooks
    BY DEF Webhooks
  <2> QED BY <2>1, <2>2, <2>3, FirstOK DEF CallLabels, WebhookLabels
<1>3. PositionOK /\ IndexedUpToCursor
  BY DEF Init, PositionOK, IndexedUpToCursor
<1>4. ResolvedIsConfirmed
  BY FirstOK DEF Init, ResolvedIsConfirmed, Kind
<1>5. StatusIsOnChain
  BY DEF Init, StatusIsOnChain
<1> QED BY <1>1, <1>2, <1>3, <1>4, <1>5 DEF IInv

-----------------------------------------------------------------------------
(* A handler moves to the label l, and nothing else it depends on changes. *)
LEMMA MoveOK ==
    ASSUME IInv, NEW r \in Reqs, NEW l,
           pc' = [pc EXCEPT ![r] = l], UNCHANGED <<call, fate, chain>>,
           Kind(r) \in Calls => l \in CallLabels /\ (l = "ok" => Confirmed(r)),
           Kind(r) \in Webhooks => l \in WebhookLabels,
           Kind(r) \in {"release", "escrow"} /\ l \in {"find", "update"} => Confirmed(call[r].of)
    PROVE  pc' = [x \in Reqs |-> pc'[x]] /\ HandlersOK' /\ ResolvedIsConfirmed'
<1>1. pc' = [x \in Reqs |-> pc'[x]]
  BY DEF IInv, Typed
<1>2. \A x \in Reqs : pc'[x] = IF x = r THEN l ELSE pc[x]
  BY DEF IInv, Typed
<1>3. HandlersOK'
  BY <1>2 DEF IInv, HandlersOK, Confirmed, Kind
<1>4. ResolvedIsConfirmed'
  BY <1>2 DEF IInv, ResolvedIsConfirmed, Confirmed, Kind
<1> QED BY <1>1, <1>3, <1>4

(* Payments, blocks and the indexer are left alone, and so is the chain. *)
LEMMA RestOK ==
    ASSUME IInv, UNCHANGED <<call, chain>>
    PROVE  /\ payment' = payment => StatusIsOnChain'
           /\ UNCHANGED <<ledger, cursor, idx>> => PositionOK' /\ IndexedUpToCursor'
<1>1. payment' = payment => StatusIsOnChain'
  BY DEF IInv, StatusIsOnChain, OnChain, Kind, On
<1>2. UNCHANGED <<ledger, cursor, idx>> => PositionOK' /\ IndexedUpToCursor'
  BY DEF IInv, PositionOK, IndexedUpToCursor, Filed, Parses, Kind
<1> QED BY <1>1, <1>2

(* Both together: a step of a handler that writes nothing modelled here.   *)
LEMMA QuietOK ==
    ASSUME IInv, NEW r \in Reqs, NEW l, Goto(r, l),
           UNCHANGED <<fate, chain, payment, ledger, cursor, idx>>,
           Kind(r) \in Calls => l \in CallLabels /\ (l = "ok" => Confirmed(r)),
           Kind(r) \in Webhooks => l \in WebhookLabels,
           Kind(r) \in {"release", "escrow"} /\ l \in {"find", "update"} => Confirmed(call[r].of)
    PROVE  IInv'
<1>1. pc' = [pc EXCEPT ![r] = l] /\ call' = call
  BY DEF Goto
<1>2. pc' = [x \in Reqs |-> pc'[x]] /\ HandlersOK' /\ ResolvedIsConfirmed'
  BY <1>1, MoveOK
<1>3. PositionOK' /\ IndexedUpToCursor' /\ StatusIsOnChain'
  BY <1>1, RestOK
<1>4. Typed'
  BY <1>1, <1>2 DEF IInv, Typed
<1> QED BY <1>2, <1>3, <1>4 DEF IInv

(* A confirmed transaction stays confirmed. *)
LEMMA ChainGrows ==
    ASSUME IInv, NEW r \in Reqs, chain' = Append(chain, r), call' = call
    PROVE  /\ chain' \in Seq(Reqs) /\ Len(chain') = Len(chain) + 1 /\ Len(chain) \in Nat
           /\ Confirmed(r)' /\ \A e : Confirmed(e) => Confirmed(e)'
           /\ \A k, p : OnChain(k, p) => OnChain(k, p)'
           /\ \A i \in 1..Len(chain) : chain'[i] = chain[i]
<1>1. chain \in Seq(Reqs)
  BY DEF IInv, Typed
<1>2. /\ chain' \in Seq(Reqs) /\ Len(chain') = Len(chain) + 1 /\ Len(chain) \in Nat
      /\ chain'[Len(chain) + 1] = r
      /\ \A i \in 1..Len(chain) : chain'[i] = chain[i]
      /\ DOMAIN chain = 1..Len(chain) /\ DOMAIN chain' = 1..Len(chain')
  BY <1>1
<1>3. Confirmed(r)' /\ \A e : Confirmed(e) => Confirmed(e)'
  BY <1>2 DEF Confirmed
<1>4. \A k, p : OnChain(k, p) => OnChain(k, p)'
  BY <1>2 DEF OnChain, Kind
<1> QED BY <1>2, <1>3, <1>4

(* A transaction is added to the chain. *)
LEMMA AppendOK ==
    ASSUME IInv, NEW r \in Reqs, chain' = Append(chain, r),
           UNCHANGED <<call, payment, ledger, cursor, idx>>
    PROVE  StatusIsOnChain' /\ PositionOK' /\ IndexedUpToCursor' /\
           (pc' = [x \in Reqs |-> pc'[x]] /\ fate' \in [Reqs -> Fates \union {None}] => Typed')
<1>1. /\ chain' \in Seq(Reqs) /\ Len(chain') = Len(chain) + 1 /\ Len(chain) \in Nat
      /\ \A k, p : OnChain(k, p) => OnChain(k, p)'
      /\ \A i \in 1..Len(chain) : chain'[i] = chain[i]
  BY ChainGrows
<1>2. /\ cursor \in 0..Len(chain)
      /\ idx \in [at : {"idle", "fetch", "event", "save"}, pos : 0..Len(chain), end : 0..Len(chain)]
  BY DEF IInv, Typed
<1>3. StatusIsOnChain'
  BY <1>1 DEF IInv, StatusIsOnChain, Kind, On
<1>4. PositionOK' /\ IndexedUpToCursor'
  <2>1. idx.pos \in 0..Len(chain)
    BY <1>2
  <2>2. PositionOK'
    BY <1>1, <2>1 DEF IInv, PositionOK, Filed, Parses, Kind
  <2>3. IndexedUpToCursor'
    BY <1>1, <1>2 DEF IInv, IndexedUpToCursor, Filed, Parses, Kind
  <2> QED BY <2>2, <2>3
<1>5. /\ cursor \in 0..Len(chain')
      /\ idx \in [at : {"idle", "fetch", "event", "save"}, pos : 0..Len(chain'), end : 0..Len(chain')]
  BY <1>1, <1>2
<1> QED BY <1>1, <1>3, <1>4, <1>5 DEF IInv, Typed

-----------------------------------------------------------------------------
(* One lemma per kind of step. *)

(* The steps that only move the handler. *)
LEMMA HandlerMovesOK ==
    ASSUME IInv, NEW r \in Reqs,
           \/ Guard(r) \/ VerifyStellarSignature(r) \/ GetPaymentById(r) \/ CheckHash(r)
           \/ LoadAccount(r) \/ SimulateTransaction(r) \/ Poll(r) \/ Fail(r)
    PROVE  IInv'
<1>u. UNCHANGED <<fate, chain, payment, ledger, cursor, idx>>
  BY DEF Guard, VerifyStellarSignature, GetPaymentById, CheckHash, LoadAccount,
         SimulateTransaction, Poll, Fail, chainVars, idxVars
<1>l. /\ Kind(r) \in Calls => pc[r] \in CallLabels
      /\ Kind(r) \in Webhooks => pc[r] \in WebhookLabels
      /\ Kind(r) \in {"release", "escrow"} => Kind(r) \in Webhooks
  BY DEF IInv, HandlersOK, Webhooks
<1>1. CASE Guard(r)
  <2>1. Kind(r) \notin Calls /\ Kind(r) \notin Webhooks
    BY <1>1, <1>l DEF Guard, CallLabels, WebhookLabels
  <2>2. PICK l : Goto(r, l)
    BY <1>1 DEF Guard
  <2> QED BY <1>u, <1>l, <2>1, <2>2, QuietOK
<1>2. CASE VerifyStellarSignature(r)
  <2>1. Kind(r) \notin Calls
    BY <1>2, <1>l DEF VerifyStellarSignature, CallLabels
  <2>2. Kind(r) \in {"release", "escrow"} => Confirmed(call[r].of)
    BY <1>2 DEF VerifyStellarSignature, Happened, Confirmed
  <2>3. PICK l \in {"find", "error"} : Goto(r, l)
    BY <1>2 DEF VerifyStellarSignature
  <2> QED BY <1>u, <2>1, <2>2, <2>3, QuietOK DEF WebhookLabels
<1>3. CASE GetPaymentById(r)
  <2>1. Kind(r) \notin Calls
    BY <1>3, <1>l DEF GetPaymentById, CallLabels
  <2>2. Kind(r) \in {"release", "escrow"} => Confirmed(call[r].of)
    BY <1>3 DEF GetPaymentById, IInv, HandlersOK
  <2>3. (CASE payment[On(r)] = None -> "error" [] Kind(r) = "get" -> "ok" [] OTHER -> "update")
            \in {"error", "ok", "update"}
    OBVIOUS
  <2>4. PICK l \in {"error", "ok", "update"} : Goto(r, l)
    BY <1>3, <2>3, Zenon DEF GetPaymentById
  <2> QED BY <1>u, <2>1, <2>2, <2>4, QuietOK DEF WebhookLabels
<1>4. CASE CheckHash(r) \/ LoadAccount(r) \/ SimulateTransaction(r) \/ Poll(r)
  <2>1. Kind(r) \notin Webhooks
    BY <1>4, <1>l DEF CheckHash, LoadAccount, SimulateTransaction, Poll, WebhookLabels
  <2>2. PICK l \in CallLabels : Goto(r, l) /\ (l = "ok" => fate[r] = "SUCCESS")
    BY <1>4 DEF CheckHash, LoadAccount, SimulateTransaction, Poll, PollAnswer, CallLabels
  <2>3. l = "ok" => Confirmed(r)
    BY <2>2 DEF IInv, HandlersOK
  <2> QED BY <1>u, <1>l, <2>1, <2>2, <2>3, QuietOK
<1>5. CASE Fail(r)
  <2>1. Goto(r, "error")
    BY <1>5 DEF Fail
  <2> QED BY <1>u, <2>1, QuietOK DEF CallLabels, WebhookLabels
<1> QED BY <1>1, <1>2, <1>3, <1>4, <1>5

(* The steps of the summary. *)
LEMMA SummaryOK ==
    ASSUME IInv, NEW r \in Reqs,
           \/ ReadSummaryCache(r) \/ AggregateTotals(r) \/ BuildSparkline(r) \/ WriteSummaryCache(r)
    PROVE  IInv'
<1>u. UNCHANGED <<fate, chain, payment, ledger, cursor, idx>>
  BY DEF ReadSummaryCache, AggregateTotals, BuildSparkline, WriteSummaryCache, chainVars, idxVars
<1>1. Kind(r) \notin Calls /\ Kind(r) \notin Webhooks /\ Kind(r) \notin {"release", "escrow"}
  BY DEF ReadSummaryCache, AggregateTotals, BuildSparkline, WriteSummaryCache, IInv, HandlersOK,
         CallLabels, WebhookLabels, Webhooks
<1>2. (UNCHANGED <<call, pc>>) \/ \E l : Goto(r, l)
  BY DEF ReadSummaryCache, AggregateTotals, BuildSparkline, WriteSummaryCache, reqVars
<1>3. CASE \E l : Goto(r, l)
  <2>1. PICK l : Goto(r, l)
    BY <1>3
  <2> QED BY <1>u, <1>1, <2>1, QuietOK
<1>4. CASE UNCHANGED <<call, pc>>
  <2>1. Goto(r, pc[r])
    BY <1>4 DEF Goto, IInv, Typed
  <2> QED BY <1>u, <1>1, <2>1, QuietOK
<1> QED BY <1>2, <1>3, <1>4

(* Payments: what a webhook writes was confirmed when it was verified. *)
LEMMA PaymentOK ==
    ASSUME IInv, NEW r \in Reqs, CreatePayment(r) \/ UpdatePaymentStatus(r)
    PROVE  IInv'
<1>u. UNCHANGED <<call, fate, chain, ledger, cursor, idx>>
  BY DEF CreatePayment, UpdatePaymentStatus, Goto, chainVars, idxVars
<1>l. /\ Kind(r) \in Calls => pc[r] \in CallLabels
      /\ Kind(r) \in Webhooks => pc[r] \in WebhookLabels
      /\ Kind(r) \in {"release", "escrow"} /\ pc[r] = "update" => Confirmed(call[r].of)
  BY DEF IInv, HandlersOK
<1>1. Kind(r) \notin Calls
  BY <1>l DEF CreatePayment, UpdatePaymentStatus, CallLabels
<1>2. PICK l \in {"ok", "block"} : pc' = [pc EXCEPT ![r] = l]
  BY DEF CreatePayment, UpdatePaymentStatus, Goto
<1>3. pc' = [x \in Reqs |-> pc'[x]] /\ HandlersOK' /\ ResolvedIsConfirmed'
  BY <1>u, <1>1, <1>2, MoveOK DEF WebhookLabels
<1>4. PositionOK' /\ IndexedUpToCursor'
  BY <1>u, RestOK
<1>5. CASE CreatePayment(r)
  <2>1. Kind(r) \notin Webhooks
    BY <1>5, <1>l DEF CreatePayment, WebhookLabels
  <2> DEFINE v == [status |-> call[r].status, tx |-> None, by |-> r]
  <2>2. payment' = [payment EXCEPT ![r] = v] /\ v.by = r
    BY <1>5 DEF CreatePayment
  <2> HIDE DEF v
  <2>3. Typed'
    BY <1>u, <1>3, <2>2 DEF IInv, Typed
  <2>4. StatusIsOnChain'
    BY <1>u, <2>1, <2>2 DEF IInv, Typed, StatusIsOnChain, OnChain, Kind, On
  <2> QED BY <1>3, <1>4, <2>3, <2>4 DEF IInv
<1>6. CASE UpdatePaymentStatus(r)
  <2>1. PICK old : payment' =
            [payment EXCEPT ![On(r)] = [status |-> NewStatus(r), tx |-> TxOf(r, old), by |-> r]]
    BY <1>6 DEF UpdatePaymentStatus
  <2>2. \A p \in Reqs : \/ payment'[p] = payment[p]
                        \/ /\ p = On(r) /\ payment'[p].by = r
                           /\ payment'[p].status = NewStatus(r) /\ payment'[p].tx = TxOf(r, old)
    BY <2>1 DEF IInv, Typed
  <2>3. Typed'
    BY <1>u, <1>3, <2>1 DEF IInv, Typed
  <2>4. Kind(r) \in Webhooks =>
            NewStatus(r) = IF Kind(r) = "release" THEN "Released"
                           ELSE IF Kind(r) = "escrow" THEN "Escrowed" ELSE "Failed"
    BY Zenon DEF NewStatus, WebhookStatus, Webhooks
  <2>5. Kind(r) \in Webhooks => On(r) \in Reqs /\ call[r].of \in Reqs /\ On(call[r].of) = On(r)
    BY CallsOK DEF IInv
  <2>6. Kind(r) = "release" =>
            TxOf(r, old) = call[r].of /\ Kind(call[r].of) = "payOut" /\ On(call[r].of) = On(r)
    BY <2>5, CallsOK, SettlementAssumption DEF TxOf, IInv, Webhooks
  <2>7. Kind(r) = "release" => OnChain("payOut", On(r))
    BY <1>6, <1>l, <2>6 DEF UpdatePaymentStatus, OnChain, Confirmed, On
  <2>8. Kind(r) = "escrow" => OnChain("fund", On(r))
    BY <1>6, <1>l, <2>5, CallsOK DEF UpdatePaymentStatus, OnChain, Confirmed, On, IInv, Webhooks
  <2>9. StatusIsOnChain'
    <3> SUFFICES ASSUME NEW p \in Reqs, payment'[p] # None, Kind(payment'[p].by) \in Webhooks
                 PROVE  /\ payment'[p].status = "Released" =>
                              /\ OnChain("payOut", p) /\ Kind(payment'[p].tx) = "payOut"
                              /\ On(payment'[p].tx) = p
                        /\ payment'[p].status = "Escrowed" => OnChain("fund", p)
      BY <1>u DEF StatusIsOnChain, OnChain, Kind, On
    <3>1. CASE payment'[p] = payment[p]
      BY <3>1 DEF IInv, StatusIsOnChain
    <3>2. CASE /\ p = On(r) /\ payment'[p].by = r
               /\ payment'[p].status = NewStatus(r) /\ payment'[p].tx = TxOf(r, old)
      BY <3>2, <2>4, <2>6, <2>7, <2>8 DEF Webhooks
    <3> QED BY <3>1, <3>2, <2>2
  <2> QED BY <1>3, <1>4, <2>3, <2>9 DEF IInv
<1> QED BY <1>5, <1>6

(* What is filed stays filed when blocks are added. *)
LEMMA LedgerGrows ==
    ASSUME IInv, UNCHANGED <<call, chain, cursor, idx>>,
           \A e : Filed(e) # {} => Filed(e)' # {}
    PROVE  PositionOK' /\ IndexedUpToCursor'
  BY DEF IInv, PositionOK, IndexedUpToCursor, Parses, Kind

(* The block of a release. *)
LEMMA BlockOK ==
    ASSUME IInv, NEW r \in Reqs, WriteSettlementBlock(r)
    PROVE  IInv'
<1>u. UNCHANGED <<call, fate, chain, payment, cursor, idx>> /\ pc' = [pc EXCEPT ![r] = "ok"]
  BY DEF WriteSettlementBlock, Goto, chainVars, idxVars
<1>1. Kind(r) \notin Calls
  BY DEF WriteSettlementBlock, IInv, HandlersOK, CallLabels
<1>2. pc' = [x \in Reqs |-> pc'[x]] /\ HandlersOK' /\ ResolvedIsConfirmed'
  BY <1>u, <1>1, MoveOK DEF WebhookLabels
<1>3. ledger \subseteq ledger' /\ \A b \in ledger' : "tx" \in DOMAIN b
  BY DEF WriteSettlementBlock, Block, IInv, Typed
<1>4. PositionOK' /\ IndexedUpToCursor'
  BY <1>u, <1>3, LedgerGrows DEF Filed
<1>5. StatusIsOnChain'
  BY <1>u, RestOK
<1>6. Typed'
  BY <1>u, <1>2, <1>3 DEF IInv, Typed
<1> QED BY <1>2, <1>4, <1>5, <1>6 DEF IInv

(* A call of a wallet is on the chain when it is made. *)
LEMMA WalletOK ==
    ASSUME IInv, NEW r \in Reqs, WalletCall(r)
    PROVE  IInv'
<1>u. /\ chain' = Append(chain, r) /\ pc' = [pc EXCEPT ![r] = "ok"]
      /\ UNCHANGED <<call, fate, payment, ledger, cursor, idx>>
  BY DEF WalletCall, Goto, idxVars
<1>1. Confirmed(r)' /\ \A e : Confirmed(e) => Confirmed(e)'
  BY <1>u, ChainGrows
<1>2. \A x \in Reqs : pc'[x] = IF x = r THEN "ok" ELSE pc[x]
  BY <1>u DEF IInv, Typed
<1>3. HandlersOK'
  BY <1>u, <1>1, <1>2 DEF IInv, HandlersOK, Kind, CallLabels, WebhookLabels
<1>4. ResolvedIsConfirmed'
  <2>1. \A x \in Reqs : Kind(x) \in Calls /\ pc'[x] = "ok" => Confirmed(x)'
    BY <1>1, <1>2 DEF IInv, ResolvedIsConfirmed, Confirmed
  <2> QED BY <1>u, <2>1 DEF ResolvedIsConfirmed, Confirmed, Kind
<1>5. StatusIsOnChain' /\ PositionOK' /\ IndexedUpToCursor' /\ Typed'
  <2>1. pc' = [x \in Reqs |-> pc'[x]] /\ fate' \in [Reqs -> Fates \union {None}]
    BY <1>u DEF IInv, Typed
  <2> QED BY <1>u, <2>1, AppendOK
<1> QED BY <1>3, <1>4, <1>5 DEF IInv

(* A transaction is sent: its fate is open. *)
LEMMA SendOK ==
    ASSUME IInv, NEW r \in Reqs, SendTransaction(r)
    PROVE  IInv'
<1>u. UNCHANGED <<call, chain, payment, ledger, cursor, idx>>
  BY DEF SendTransaction, Goto, idxVars
<1>1. PICK l \in {"poll", "error"} : pc' = [pc EXCEPT ![r] = l]
  BY DEF SendTransaction, Goto
<1>2. \A x \in Reqs : pc'[x] = IF x = r THEN l ELSE pc[x]
  BY <1>1 DEF IInv, Typed
<1>3. fate' \in [Reqs -> Fates \union {None}] /\ \A x \in Reqs : fate'[x] = "SUCCESS" => fate[x] = "SUCCESS"
  BY DEF SendTransaction, IInv, Typed, Fates
<1>4. Kind(r) \notin Webhooks
  BY DEF SendTransaction, IInv, HandlersOK, WebhookLabels
<1>5. HandlersOK'
  BY <1>u, <1>2, <1>3, <1>4 DEF IInv, HandlersOK, Kind, Confirmed, CallLabels, Webhooks
<1>6. ResolvedIsConfirmed'
  BY <1>u, <1>2 DEF IInv, ResolvedIsConfirmed, Kind
<1>7. StatusIsOnChain' /\ PositionOK' /\ IndexedUpToCursor'
  BY <1>u, RestOK
<1>8. Typed'
  BY <1>u, <1>1, <1>3 DEF IInv, Typed
<1> QED BY <1>5, <1>6, <1>7, <1>8 DEF IInv

(* The network decides: SUCCESS comes with the place on the chain. *)
LEMMA ExecuteOK ==
    ASSUME IInv, NEW r \in Reqs, Execute(r)
    PROVE  IInv'
<1>u. UNCHANGED <<call, pc, payment, ledger, cursor, idx>>
  BY DEF Execute, reqVars, idxVars
<1>f. fate' \in [Reqs -> Fates \union {None}] /\ pc' = [x \in Reqs |-> pc'[x]]
  BY <1>u DEF Execute, IInv, Typed, Fates
<1>1. CASE chain' = Append(chain, r)
  <2>1. Confirmed(r)' /\ \A e : Confirmed(e) => Confirmed(e)'
    BY <1>u, <1>1, ChainGrows
  <2>2. \A x \in Reqs : x # r => fate'[x] = fate[x]
    BY DEF Execute, IInv, Typed
  <2>3. HandlersOK'
    BY <1>u, <2>1, <2>2 DEF IInv, HandlersOK, Kind
  <2>4. ResolvedIsConfirmed'
    <3>1. \A x \in Reqs : Kind(x) \in Calls /\ pc[x] = "ok" => Confirmed(x)'
      BY <2>1 DEF IInv, ResolvedIsConfirmed, Confirmed
    <3> QED BY <1>u, <3>1 DEF ResolvedIsConfirmed, Confirmed, Kind
  <2>5. StatusIsOnChain' /\ PositionOK' /\ IndexedUpToCursor' /\ Typed'
    BY <1>u, <1>f, <1>1, AppendOK
  <2> QED BY <2>3, <2>4, <2>5 DEF IInv
<1>2. CASE chain' = chain /\ chain' # Append(chain, r)
  <2>1. \A x \in Reqs : fate'[x] = "SUCCESS" => fate[x] = "SUCCESS"
    BY <1>2 DEF Execute, IInv, Typed
  <2>2. HandlersOK' /\ ResolvedIsConfirmed'
    BY <1>u, <1>2, <2>1 DEF IInv, HandlersOK, ResolvedIsConfirmed, Kind, Confirmed
  <2>3. StatusIsOnChain' /\ PositionOK' /\ IndexedUpToCursor'
    BY <1>u, <1>2, RestOK
  <2>4. Typed'
    BY <1>u, <1>f, <1>2 DEF IInv, Typed
  <2> QED BY <2>2, <2>3, <2>4 DEF IInv
<1> QED BY <1>1, <1>2 DEF Execute

-----------------------------------------------------------------------------
(* The indexer. *)

(* A step of the indexer concerns neither handlers nor payments. *)
LEMMA IndexerFrame ==
    ASSUME IInv, UNCHANGED <<call, pc, fate, chain, payment>>
    PROVE  HandlersOK' /\ ResolvedIsConfirmed' /\ StatusIsOnChain'
<1>1. HandlersOK' /\ ResolvedIsConfirmed'
  BY DEF IInv, HandlersOK, ResolvedIsConfirmed, Kind, Confirmed
<1> QED BY <1>1, RestOK

(* An upsert leaves a block for its event and loses none of another. *)
LEMMA UpsertFiles ==
    ASSUME IInv, NEW e, ledger' \in UpsertedLedger(e)
    PROVE  /\ Filed(e)' # {} /\ \A x : Filed(x) # {} => Filed(x)' # {}
           /\ \A b \in ledger' : "tx" \in DOMAIN b
<1>t. \A b \in ledger : "tx" \in DOMAIN b
  BY DEF IInv, Typed
<1>1. CASE Filed(e) = {}
  <2>1. ledger' = ledger \union {Block(ShipmentOf(e), Milestone(e), e, Indexer)}
    BY <1>1 DEF UpsertedLedger
  <2> DEFINE n == Block(ShipmentOf(e), Milestone(e), e, Indexer)
  <2>2. n.tx = e /\ "tx" \in DOMAIN n
    BY DEF Block
  <2>3. ledger' = ledger \union {n}
    BY <2>1
  <2> HIDE DEF n
  <2>4. n \in Filed(e)'
    BY <2>2, <2>3 DEF Filed
  <2>5. \A x : Filed(x) \subseteq Filed(x)'
    BY <2>3 DEF Filed
  <2> QED BY <1>t, <2>2, <2>3, <2>4, <2>5
<1>2. CASE Filed(e) # {}
  <2>1. PICK b \in Filed(e) : ledger' = (ledger \ {b}) \union {[b EXCEPT !.event = Milestone(e)]}
    BY <1>2 DEF UpsertedLedger
  <2> DEFINE c == [b EXCEPT !.event = Milestone(e)]
  <2>2. b \in ledger /\ b.tx = e /\ "tx" \in DOMAIN b
    BY <1>t DEF Filed
  <2>3. c.tx = e /\ "tx" \in DOMAIN c
    BY <2>2
  <2>4. ledger' = (ledger \ {b}) \union {c}
    BY <2>1
  <2> HIDE DEF c
  <2>5. c \in Filed(e)'
    BY <2>3, <2>4 DEF Filed
  <2>6. ASSUME NEW x, Filed(x) # {} PROVE Filed(x)' # {}
    <3>1. CASE x = e
      BY <3>1, <2>5
    <3>2. CASE x # e
      BY <3>2, <2>6, <2>2, <2>4 DEF Filed
    <3> QED BY <3>1, <3>2
  <2>7. \A d \in ledger' : "tx" \in DOMAIN d
    BY <1>t, <2>3, <2>4
  <2> QED BY <2>5, <2>6, <2>7
<1> QED BY <1>1, <1>2

(* The steps of a cycle that file nothing. *)
LEMMA CycleOK ==
    ASSUME IInv, StartCycle \/ StreamEvents \/ SaveStoredCursor \/ EndCycle
    PROVE  IInv'
<1>u. UNCHANGED <<call, pc, fate, chain, payment, ledger>>
  BY DEF StartCycle, StreamEvents, SaveStoredCursor, EndCycle, reqVars, chainVars
<1>t. /\ cursor \in 0..Len(chain) /\ chain \in Seq(Reqs)
      /\ idx \in [at : {"idle", "fetch", "event", "save"}, pos : 0..Len(chain), end : 0..Len(chain)]
  BY DEF IInv, Typed
<1> DEFINE Idx == [at : {"idle", "fetch", "event", "save"}, pos : 0..Len(chain), end : 0..Len(chain)]
<1>a. ASSUME StartCycle
      PROVE  cursor' \in {cursor, idx.pos} /\ idx'.pos \in {cursor, idx.pos, 0} /\ idx' \in Idx
  <2>1. PICK c \in {cursor, 0} : idx' = [at |-> "fetch", pos |-> c, end |-> c]
    BY <1>a DEF StartCycle
  <2>2. 0 \in 0..Len(chain)
    BY <1>t
  <2>3. idx' \in Idx /\ idx'.pos \in {cursor, idx.pos, 0}
    BY <1>t, <2>1, <2>2
  <2> QED BY <1>a, <2>3 DEF StartCycle
<1>b. ASSUME StreamEvents
      PROVE  cursor' \in {cursor, idx.pos} /\ idx'.pos \in {cursor, idx.pos, 0} /\ idx' \in Idx
  <2>1. Len(chain) \in 0..Len(chain)
    BY <1>t
  <2>2. idx' = [at |-> "event", pos |-> idx.pos, end |-> Len(chain)]
    BY <1>b, <1>t DEF StreamEvents
  <2> QED BY <1>b, <1>t, <2>1, <2>2 DEF StreamEvents
<1>c. ASSUME SaveStoredCursor \/ EndCycle
      PROVE  cursor' \in {cursor, idx.pos} /\ idx'.pos \in {cursor, idx.pos, 0} /\ idx' \in Idx
  <2>1. \E l \in {"event", "idle"} : idx' = [idx EXCEPT !.at = l]
    BY <1>c DEF SaveStoredCursor, EndCycle
  <2>2. idx' \in Idx /\ idx'.pos = idx.pos
    BY <1>t, <2>1
  <2> QED BY <1>c, <2>2 DEF SaveStoredCursor, EndCycle
<1>1. cursor' \in {cursor, idx.pos} /\ idx'.pos \in {cursor, idx.pos, 0}
  BY <1>a, <1>b, <1>c
<1>2. idx' \in Idx
  BY <1>a, <1>b, <1>c
<1>3. Typed'
  BY <1>u, <1>t, <1>1, <1>2 DEF IInv, Typed
<1>4. PositionOK'
  BY <1>u, <1>t, <1>1 DEF IInv, PositionOK, IndexedUpToCursor, Filed, Parses, Kind
<1>5. IndexedUpToCursor'
  BY <1>u, <1>t, <1>1 DEF IInv, PositionOK, IndexedUpToCursor, Filed, Parses, Kind
<1> QED BY <1>u, <1>3, <1>4, <1>5, IndexerFrame DEF IInv

(* The position moves over an event that is filed or outside the spec. *)
LEMMA IndexEventOK ==
    ASSUME IInv, IndexEvent
    PROVE  IInv'
<1>e. PICK e : e = chain[idx.pos + 1]
  OBVIOUS
<1>u. UNCHANGED <<call, pc, fate, chain, payment, cursor>>
  BY DEF IndexEvent, reqVars, chainVars
<1>t. /\ cursor \in 0..Len(chain) /\ chain \in Seq(Reqs)
      /\ idx \in [at : {"idle", "fetch", "event", "save"}, pos : 0..Len(chain), end : 0..Len(chain)]
      /\ \A b \in ledger : "tx" \in DOMAIN b
  BY DEF IInv, Typed
<1>1. /\ idx.pos < idx.end /\ idx'.pos = idx.pos + 1
      /\ idx' \in [at : {"idle", "fetch", "event", "save"}, pos : 0..Len(chain), end : 0..Len(chain)]
  <2>1. PICK l \in {"save", "event"} : idx' = [idx EXCEPT !.at = l, !.pos = @ + 1]
    BY <1>t DEF IndexEvent
  <2>2. idx' = [at |-> l, pos |-> idx.pos + 1, end |-> idx.end]
    BY <1>t, <2>1
  <2>3. idx.pos < idx.end /\ idx.pos + 1 \in 0..Len(chain)
    BY <1>t DEF IndexEvent
  <2> QED BY <1>t, <2>2, <2>3
<1>2. /\ Parses(e) => Filed(e)' # {}
      /\ \A x : Filed(x) # {} => Filed(x)' # {}
      /\ \A b \in ledger' : "tx" \in DOMAIN b
  <2>1. CASE Parses(e)
    <3>1. ledger' \in UpsertedLedger(e)
      BY <1>e, <2>1 DEF IndexEvent
    <3> QED BY <3>1, UpsertFiles
  <2>2. CASE ~Parses(e)
    <3>1. ledger' = ledger
      BY <1>e, <2>2 DEF IndexEvent
    <3> QED BY <3>1, <2>2, <1>t DEF Filed
  <2> QED BY <2>1, <2>2
<1>3. Typed'
  BY <1>u, <1>t, <1>1, <1>2 DEF IInv, Typed
<1>4. IndexedUpToCursor'
  BY <1>u, <1>2 DEF IInv, IndexedUpToCursor, Parses, Kind
<1>5. PositionOK'
  <2> SUFFICES ASSUME NEW i \in 1..(idx.pos + 1), Parses(chain[i])
               PROVE  Filed(chain[i])' # {}
    BY <1>u, <1>1 DEF PositionOK, Parses, Kind, Filed
  <2>1. CASE i = idx.pos + 1
    BY <2>1, <1>e, <1>u, <1>2 DEF Filed
  <2>2. CASE i \in 1..idx.pos
    BY <2>2, <1>u, <1>2 DEF IInv, PositionOK, Filed
  <2> QED BY <2>1, <2>2, <1>t
<1> QED BY <1>u, <1>3, <1>4, <1>5, IndexerFrame DEF IInv

-----------------------------------------------------------------------------
(* Every step preserves the invariant. *)
LEMMA NextOK == IInv /\ [Next]_vars => IInv'
<1> SUFFICES ASSUME IInv, [Next]_vars PROVE IInv'
  OBVIOUS
<1>1. CASE SummaryExpires \/ UNCHANGED vars
  <2>u. UNCHANGED <<call, pc, fate, chain, payment, ledger, cursor, idx>>
    BY <1>1 DEF SummaryExpires, vars, reqVars, chainVars, idxVars
  <2>1. Typed'
    BY <2>u DEF IInv, Typed
  <2> QED BY <2>u, <2>1, IndexerFrame, RestOK DEF IInv
<1>2. CASE \E r \in Reqs : Step(r)
  <2>1. PICK r \in Reqs : Step(r)
    BY <1>2
  <2> QED BY <2>1, HandlerMovesOK, SummaryOK, PaymentOK, BlockOK, WalletOK, SendOK, ExecuteOK DEF Step
<1>3. CASE StartCycle \/ StreamEvents \/ SaveStoredCursor \/ EndCycle
  BY <1>3, CycleOK
<1>4. CASE IndexEvent
  BY <1>4, IndexEventOK
<1> QED BY <1>1, <1>2, <1>3, <1>4 DEF Next

(* The inductive invariant holds in every reachable state. *)
THEOREM Invariance == Spec => []IInv
  BY InitOK, NextOK, PTL DEF Spec

(* A contract call that resolves has its transaction on the chain. *)
THEOREM ResolveSound == Spec => []ResolvedIsConfirmed
<1>1. IInv => ResolvedIsConfirmed
  BY DEF IInv
<1> QED BY <1>1, Invariance, PTL

(* A status that a webhook set is backed by the chain. *)
THEOREM StatusSound == Spec => []StatusIsOnChain
<1>1. IInv => StatusIsOnChain
  BY DEF IInv
<1> QED BY <1>1, Invariance, PTL

(* Every event up to the stored cursor has its block, across failed reads  *)
(* and saves of the cursor and broken cycles.                              *)
THEOREM CursorSound == Spec => []IndexedUpToCursor
<1>1. IInv => IndexedUpToCursor
  BY DEF IInv
<1> QED BY <1>1, Invariance, PTL

=============================================================================
