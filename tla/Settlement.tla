----------------------------- MODULE Settlement -----------------------------
(***************************************************************************)
(* Payments and what the chain says about them: the payment routes, calls  *)
(* of the escrow contract through the Soroban adapter, the webhooks that   *)
(* report the outcome, the indexer that turns chain events into ledger     *)
(* blocks, and the cached settlement summary.                              *)
(*                                                                         *)
(* A request is an async handler that loses control at each await; one     *)
(* action is one call of the database, Redis or the RPC server with the    *)
(* synchronous code around it.  A payment and a transaction are named      *)
(* after the request that created or sent them.                            *)
(***************************************************************************)
EXTENDS Integers, Sequences, FiniteSets

CONSTANTS
    Reqs,       \* request identifiers
    Shipments,  \* shipments that payments are for
    MaxCycles,  \* bound: cycles of the indexer
    None,       \* the absence of a value
    Indexer,    \* the actor of the blocks the indexer writes
    Scripts     \* the inputs the requests may carry

PaymentStatus == {"Pending", "Escrowed", "Released", "Failed", "Disputed"}

Roles == {"SUPER_ADMIN", "ADMIN", "MANAGER", "DRIVER", "VIEWER", "CUSTOMER"}

(* The routes of the payments router with the roles they ask for; every    *)
(* role may read.                                                          *)
RolesOf == [create  |-> {"ADMIN", "SUPER_ADMIN"},
            update  |-> {"ADMIN", "SUPER_ADMIN"},
            dispute |-> {"ADMIN", "MANAGER"},
            get     |-> Roles,
            summary |-> Roles]

Routes   == DOMAIN RolesOf
Webhooks == {"release", "escrow", "failed"}

(* Contract calls: of the payer's wallet, and of the backend. *)
Wallet == {"fund"}
Calls  == {"anchor", "payOut"}
Alien  == {"alien"}    \* an event of the contract outside the spec

Bodies == [kind : Routes \union Webhooks \union Wallet \union Calls \union Alien \union {"none"},
           role : Roles, valid : BOOLEAN, shipment : Shipments, status : PaymentStatus,
           on : Reqs \union {None}, of : Reqs \union {None}]

(* What a sent transaction comes to. *)
Fates == {"PENDING", "SUCCESS", "FAILED", "DROPPED"}

ASSUME SettlementAssumption ==
    /\ MaxCycles \in Nat
    /\ Scripts \subseteq [Reqs -> Bodies]
    /\ None \notin Reqs \union Shipments \union Fates /\ Indexer \notin Reqs
    /\ \A f \in Scripts : \A r \in Reqs :
          /\ f[r].kind \in {"update", "dispute", "get", "fund", "payOut"} \union Webhooks =>
                f[r].on \in Reqs
          \* A webhook reports a contract call about its payment.
          /\ f[r].kind \in Webhooks =>
                /\ f[r].of \in Reqs /\ f[f[r].of].on = f[r].on
                /\ f[f[r].of].kind = IF f[r].kind = "escrow" THEN "fund" ELSE "payOut"

VARIABLES
    call,      \* the input of each request
    pc,        \* where each handler is
    seq,       \* sequence number of the backend's account
    base,      \* the sequence number a contract call was built on
    fate,      \* what became of a sent transaction
    chain,     \* the transactions with an event, in ledger order
    payment,   \* payment documents: None, or status, stellarTxHash and what set the status
    ledger,    \* ledger blocks
    cursor,    \* IndexerState.cursor: a position of chain, 0 when there is none
    idx,       \* the indexer: where it is, its position and the end of what it fetched
    cycles,    \* cycles it has begun
    summary,   \* the cached summary, None when there is none
    draft,     \* the summary a request is putting together
    latch      \* redisUnavailable of settlements.cache

reqVars   == <<call, pc>>
chainVars == <<seq, base, fate, chain>>
idxVars   == <<cursor, idx, cycles>>
sumVars   == <<summary, draft, latch>>
vars == <<reqVars, chainVars, payment, ledger, idxVars, sumVars>>

Kind(r) == call[r].kind
On(r)   == call[r].on

First(k) ==
    CASE k \in Routes   -> "role"
      [] k \in Webhooks -> "verify"
      [] k = "payOut" \/ k = "anchor" -> "check"
      [] k = "none" -> "ok"
      [] OTHER -> "wallet"

Init ==
    /\ call \in Scripts
    /\ pc = [r \in Reqs |-> First(call[r].kind)]
    /\ seq = 0 /\ base = [r \in Reqs |-> 0]
    /\ fate = [r \in Reqs |-> None] /\ chain = <<>>
    /\ payment = [r \in Reqs |-> None]
    /\ ledger = {}
    /\ cursor = 0 /\ idx = [at |-> "idle", pos |-> 0, end |-> 0] /\ cycles = 0
    /\ summary = None /\ draft = [r \in Reqs |-> None] /\ latch = FALSE

Goto(r, l) == pc' = [pc EXCEPT ![r] = l] /\ UNCHANGED call

-----------------------------------------------------------------------------
(* The payment routes. *)

(* requireRole, then the schemas of the body, the params and the query. *)
ValidBody(r) == call[r].valid

AfterGuard(k) ==
    CASE k = "create"  -> "create"
      [] k = "summary" -> "cache"
      [] OTHER         -> "find"

Guard(r) ==
    /\ pc[r] = "role"
    /\ Goto(r, IF call[r].role \in RolesOf[Kind(r)] /\ ValidBody(r)
               THEN AfterGuard(Kind(r)) ELSE "error")
    /\ UNCHANGED <<chainVars, payment, ledger, idxVars, sumVars>>

(* verifyStellarSignature, then the payload schema.  A webhook comes after *)
(* what it reports, at any time and perhaps more than once.                *)
Happened(r) ==
    IF Kind(r) = "failed" THEN fate[call[r].of] = "FAILED"
    ELSE \E i \in DOMAIN chain : chain[i] = call[r].of

VerifyStellarSignature(r) ==
    /\ pc[r] = "verify"
    /\ Happened(r)
    /\ Goto(r, IF ValidBody(r) THEN "find" ELSE "error")
    /\ UNCHANGED <<chainVars, payment, ledger, idxVars, sumVars>>

CreatePayment(r) ==
    /\ pc[r] = "create"
    /\ payment' = [payment EXCEPT ![r] = [status |-> call[r].status, tx |-> None, by |-> r]]
    /\ Goto(r, "ok")
    /\ UNCHANGED <<chainVars, ledger, idxVars, sumVars>>

GetPaymentById(r) ==
    /\ pc[r] = "find"
    /\ Goto(r, CASE payment[On(r)] = None -> "error"
                 [] payment[On(r)] # None /\ Kind(r) = "get" -> "ok"
                 [] OTHER -> "update")
    /\ UNCHANGED <<chainVars, payment, ledger, idxVars, sumVars>>

(* Mutant: the escrow event is filed as a release. *)
WebhookStatusAlways(r) == IF Kind(r) = "failed" THEN "Failed" ELSE "Released"

(* What a webhook sets: handleReleaseEvent, handleEscrowEvent and          *)
(* handleFailedEvent.                                                      *)
WebhookStatus(r) ==
    CASE Kind(r) = "release" -> "Released"
      [] Kind(r) = "escrow"  -> "Escrowed"
      [] OTHER               -> "Failed"

NewStatus(r) ==
    CASE Kind(r) = "update"  -> call[r].status
      [] Kind(r) = "dispute" -> "Disputed"
      [] OTHER               -> WebhookStatus(r)

(* updatePaymentStatus and disputePayment: whatever the status is by now,  *)
(* status and hash in one write; a failure and a dispute carry no hash, an *)
(* update by hand may.                                                     *)
TxOf(r, old) ==
    IF Kind(r) \in {"release", "escrow", "update"} /\ call[r].of # None THEN call[r].of ELSE old

UpdatePaymentStatus(r) ==
    /\ pc[r] = "update"
    /\ payment' = [payment EXCEPT ![On(r)] =
           [status |-> NewStatus(r), tx |-> TxOf(r, @.tx), by |-> r]]
    /\ Goto(r, IF Kind(r) = "release" THEN "block" ELSE "ok")
    /\ UNCHANGED <<chainVars, ledger, idxVars, sumVars>>

Block(shipment, event, tx, by) ==
    [shipment |-> shipment, event |-> event, tx |-> tx, by |-> by]

(* createLedgerBlockService for the release; its errors are logged, and    *)
(* the webhook is answered all the same.                                   *)
WriteSettlementBlock(r) ==
    /\ pc[r] = "block"
    /\ \/ ledger' = ledger \union
              {Block(call[On(r)].shipment, "SETTLEMENT_COMPLETED", call[r].of, r)}
       \/ UNCHANGED ledger
    /\ Goto(r, "ok")
    /\ UNCHANGED <<chainVars, payment, idxVars, sumVars>>

-----------------------------------------------------------------------------
(* The contract, seen from the adapter: an escrow is funded once and paid  *)
(* out once, a hash is anchored.                                           *)

OnChain(k, p) == \E i \in DOMAIN chain : Kind(chain[i]) = k /\ call[chain[i]].on = p

Accepts(r) ==
    CASE Kind(r) = "payOut" -> OnChain("fund", On(r)) /\ ~OnChain("payOut", On(r))
      [] Kind(r) = "fund"   -> ~OnChain("fund", On(r))
      [] OTHER -> TRUE

(* The payer's wallet, and a contract event outside the spec. *)
WalletCall(r) ==
    /\ pc[r] = "wallet"
    /\ Kind(r) = "fund" => payment[On(r)] # None /\ Accepts(r)
    /\ chain' = Append(chain, r)
    /\ Goto(r, "ok")
    /\ UNCHANGED <<seq, base, fate, payment, ledger, idxVars, sumVars>>

(* anchorEvent and releaseEscrow refuse a hash of the wrong shape. *)
CheckHash(r) ==
    /\ pc[r] = "check"
    /\ Goto(r, IF ValidBody(r) THEN "account" ELSE "error")
    /\ UNCHANGED <<chainVars, payment, ledger, idxVars, sumVars>>

LoadAccount(r) ==
    /\ pc[r] = "account"
    /\ base' = [base EXCEPT ![r] = seq]
    /\ Goto(r, "simulate")
    /\ UNCHANGED <<seq, fate, chain, payment, ledger, idxVars, sumVars>>

(* A contract error of the simulation is translated and thrown. *)
SimulateTransaction(r) ==
    /\ pc[r] = "simulate"
    /\ Goto(r, IF Accepts(r) THEN "send" ELSE "error")
    /\ UNCHANGED <<chainVars, payment, ledger, idxVars, sumVars>>

(* The server refuses a sequence number that is used up. *)
SendTransaction(r) ==
    /\ pc[r] = "send"
    /\ IF base[r] = seq
       THEN fate' = [fate EXCEPT ![r] = "PENDING"] /\ Goto(r, "poll")
       ELSE UNCHANGED fate /\ Goto(r, "error")
    /\ UNCHANGED <<seq, base, chain, payment, ledger, idxVars, sumVars>>

(* The network closes a ledger with the transaction in it, which may fail  *)
(* there; one built on the same sequence number as another falls out.      *)
Execute(r) ==
    /\ fate[r] = "PENDING"
    /\ IF base[r] # seq
       THEN fate' = [fate EXCEPT ![r] = "DROPPED"] /\ UNCHANGED <<seq, chain>>
       ELSE /\ seq' = seq + 1
            /\ \/ /\ Accepts(r)
                  /\ fate' = [fate EXCEPT ![r] = "SUCCESS"] /\ chain' = Append(chain, r)
               \/ fate' = [fate EXCEPT ![r] = "FAILED"] /\ UNCHANGED chain
    /\ UNCHANGED <<reqVars, base, payment, ledger, idxVars, sumVars>>

(* Mutant: anything but a failure ends the poll with the hash. *)
PollAnswerEarly(r) == IF fate[r] = "FAILED" THEN "error" ELSE "ok"

(* getTransaction until the fate is known or thirty seconds are over. *)
PollAnswer(r) == IF fate[r] = "SUCCESS" THEN "ok" ELSE "error"

Poll(r) ==
    /\ pc[r] = "poll"
    /\ Goto(r, PollAnswer(r))
    /\ UNCHANGED <<chainVars, payment, ledger, idxVars, sumVars>>

-----------------------------------------------------------------------------
(* The indexer: one job at a time, run again every thirty seconds and      *)
(* after a failure.                                                        *)

(* parseChainEvent keeps the events of the spec. *)
Parses(e) == Kind(e) \notin Alien

Milestone(e) ==
    CASE Kind(e) = "anchor" -> "IN_TRANSIT"
      [] Kind(e) = "fund"   -> "SETTLEMENT_INITIATED"
      [] OTHER              -> "SETTLEMENT_COMPLETED"

(* The shipment of the event; a release event names only the payment,      *)
(* which is filed as the shipment.                                         *)
ShipmentOf(e) ==
    CASE Kind(e) = "anchor" -> call[e].shipment
      [] Kind(e) = "fund"   -> call[On(e)].shipment
      [] OTHER              -> On(e)

(* getStoredCursor: a failed read looks like no cursor. *)
StartCycle ==
    /\ idx.at = "idle" /\ cycles < MaxCycles
    /\ cycles' = cycles + 1
    /\ \E c \in {cursor, 0} : idx' = [at |-> "fetch", pos |-> c, end |-> c]
    /\ UNCHANGED <<reqVars, chainVars, payment, ledger, cursor, sumVars>>

(* streamEvents fetches what is there after the cursor. *)
StreamEvents ==
    /\ idx.at = "fetch"
    /\ idx' = [idx EXCEPT !.at = "event", !.end = Len(chain)]
    /\ UNCHANGED <<reqVars, chainVars, payment, ledger, cursor, cycles, sumVars>>

Filed(e) == {b \in ledger : b.tx = e}

(* updateOne with upsert, by the transaction's hash: one block that has it *)
(* gets the milestone, or a new one is written.                            *)
UpsertedLedger(e) ==
    IF Filed(e) = {}
    THEN {ledger \union {Block(ShipmentOf(e), Milestone(e), e, Indexer)}}
    ELSE {(ledger \ {b}) \union {[b EXCEPT !.event = Milestone(e)]} : b \in Filed(e)}

(* An event outside the spec is skipped, the others are upserted.          *)
IndexEvent ==
    /\ idx.at = "event" /\ idx.pos < idx.end
    /\ LET e == chain[idx.pos + 1]
       IN IF Parses(e)
          THEN /\ ledger' \in UpsertedLedger(e)
               /\ idx' = [idx EXCEPT !.at = "save", !.pos = @ + 1]
          ELSE /\ idx' = [idx EXCEPT !.pos = @ + 1]
               /\ UNCHANGED ledger
    /\ UNCHANGED <<reqVars, chainVars, payment, cursor, cycles, sumVars>>

(* saveStoredCursor, which does not report a failure. *)
SaveStoredCursor ==
    /\ idx.at = "save"
    /\ cursor' \in {idx.pos, cursor}
    /\ idx' = [idx EXCEPT !.at = "event"]
    /\ UNCHANGED <<reqVars, chainVars, payment, ledger, cycles, sumVars>>

(* Mutant: the position is saved when the stream ends early, too. *)
EndCycleSaves ==
    /\ idx.at \in {"fetch", "event", "save"}
    /\ idx' = [idx EXCEPT !.at = "idle"]
    /\ cursor' = IF idx.at = "event" /\ idx.pos < idx.end THEN idx.pos + 1 ELSE cursor
    /\ UNCHANGED <<reqVars, chainVars, payment, ledger, cycles, sumVars>>

(* The end of the stream, an error (of the upsert too), or a crash. *)
EndCycle ==
    /\ idx.at \in {"fetch", "event", "save"}
    /\ idx' = [idx EXCEPT !.at = "idle"]
    /\ UNCHANGED <<reqVars, chainVars, payment, ledger, cursor, cycles, sumVars>>

-----------------------------------------------------------------------------
(* The settlement summary; payments all have the amount 1 and fall into    *)
(* the period.                                                             *)

Counted(st) == Cardinality({p \in Reqs : payment[p] # None /\ payment[p].status = st})

(* aggregateSettlementSummary and buildSettlementSparkline: two queries    *)
(* side by side.                                                           *)
Totals == [released |-> Counted("Released"), escrowed |-> Counted("Escrowed"),
           pending |-> Counted("Pending")]

Sparkline == Counted("Released")

(* readSummaryCache: on an error the cache is not used again. *)
ReadSummaryCache(r) ==
    /\ pc[r] = "cache"
    /\ \/ /\ Goto(r, IF summary # None /\ ~latch THEN "ok" ELSE "totals")
          /\ UNCHANGED latch
       \/ ~latch /\ latch' = TRUE /\ Goto(r, "totals")
    /\ draft' = [draft EXCEPT ![r] = [totals |-> None, sparkline |-> None]]
    /\ UNCHANGED <<chainVars, payment, ledger, idxVars, summary>>

AggregateTotals(r) ==
    /\ pc[r] = "totals" /\ draft[r].totals = None
    /\ draft' = [draft EXCEPT ![r].totals = Totals]
    /\ UNCHANGED <<reqVars, chainVars, payment, ledger, idxVars, summary, latch>>

BuildSparkline(r) ==
    /\ pc[r] = "totals" /\ draft[r].sparkline = None
    /\ draft' = [draft EXCEPT ![r].sparkline = Sparkline]
    /\ UNCHANGED <<reqVars, chainVars, payment, ledger, idxVars, summary, latch>>

WriteSummaryCache(r) ==
    /\ pc[r] = "totals" /\ draft[r].totals # None /\ draft[r].sparkline # None
    /\ \/ summary' = (IF latch THEN summary ELSE draft[r]) /\ UNCHANGED latch
       \/ ~latch /\ latch' = TRUE /\ UNCHANGED summary
    /\ Goto(r, "ok")
    /\ UNCHANGED <<chainVars, payment, ledger, idxVars, draft>>

(* The five minutes of the entry are over. *)
SummaryExpires ==
    /\ summary # None
    /\ summary' = None
    /\ UNCHANGED <<reqVars, chainVars, payment, ledger, idxVars, draft, latch>>

-----------------------------------------------------------------------------
(* A call fails or the process dies after the handler's first write. *)
Fail(r) ==
    /\ pc[r] \in {"block", "poll"}
    /\ Goto(r, "error")
    /\ UNCHANGED <<chainVars, payment, ledger, idxVars, sumVars>>

Step(r) ==
    \/ Guard(r) \/ VerifyStellarSignature(r) \/ CreatePayment(r) \/ GetPaymentById(r)
    \/ UpdatePaymentStatus(r) \/ WriteSettlementBlock(r)
    \/ WalletCall(r) \/ CheckHash(r) \/ LoadAccount(r) \/ SimulateTransaction(r)
    \/ SendTransaction(r) \/ Poll(r) \/ Execute(r)
    \/ ReadSummaryCache(r) \/ AggregateTotals(r) \/ BuildSparkline(r) \/ WriteSummaryCache(r)
    \/ Fail(r)

Next ==
    \/ \E r \in Reqs : Step(r)
    \/ StartCycle \/ StreamEvents \/ IndexEvent \/ SaveStoredCursor \/ EndCycle
    \/ SummaryExpires

Spec == Init /\ [][Next]_vars

-----------------------------------------------------------------------------
(* Properties. *)

TypeOK ==
    /\ call \in Scripts
    /\ seq \in Nat /\ base \in [Reqs -> Nat]
    /\ fate \in [Reqs -> Fates \union {None}]
    /\ chain \in Seq(Reqs)
    /\ \A p \in Reqs : payment[p] # None =>
          payment[p].status \in PaymentStatus /\ payment[p].tx \in Reqs \union {None}
    /\ cursor \in 0..Len(chain) /\ idx.pos \in 0..Len(chain) /\ idx.end \in 0..Len(chain)
    /\ cycles \in 0..MaxCycles

(* What ChainAdapter promises: a call that resolves has its transaction    *)
(* on the chain, however the poll, its timeout and the network's answer    *)
(* fall, and whichever other call was built on the same sequence number.   *)
ResolvedIsConfirmed ==
    \A r \in Reqs : Kind(r) \in Calls /\ pc[r] = "ok" => \E i \in DOMAIN chain : chain[i] = r

(* A payment that a webhook marked Released was paid out on the chain, by  *)
(* the transaction the payment names, and one it marked Escrowed was       *)
(* funded: also when events come late, twice or in the wrong order, or     *)
(* an administrator or a dispute writes in between.                        *)
StatusIsOnChain ==
    \A p \in Reqs : payment[p] # None /\ Kind(payment[p].by) \in Webhooks =>
        /\ payment[p].status = "Released" =>
              OnChain("payOut", p) /\ Kind(payment[p].tx) = "payOut" /\ On(payment[p].tx) = p
        /\ payment[p].status = "Escrowed" => OnChain("fund", p)

(* Nothing is lost across a crash, a failed save or a failed read of the   *)
(* cursor: every event of the spec up to the stored cursor has a block.    *)
IndexedUpToCursor ==
    \A i \in 1..cursor : Parses(chain[i]) => Filed(chain[i]) # {}

=============================================================================
