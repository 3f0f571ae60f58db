# Navin backend: models, checks and proofs

Navin is an Express API over MongoDB, with BullMQ queues, caches and a token
blocklist in Redis, a Stellar (Horizon or Soroban) account it signs for, realtime
delivery over Socket.IO and server-sent events, and worker processes. Node runs
one handler at a time, but a handler gives up control at every `await`, several
API and worker processes share the database and the signing account, and any
call can fail. That is what the modules here are about.

Paths below are relative to the repository; `file:line` is the line in it.

## 1. Inventory

| part | state | operations | hard behaviour | what makes it correct |
|---|---|---|---|---|
| Shipment lifecycle (`modules/shipments/shipments.service.ts`) | status, milestones, deletedAt; payment status and hash; ledger blocks | single and bulk status update, delete | read, await, save without a condition; escrow release in the middle of a handler; crash between save and release | every milestone allowed by the table from a status the shipment had; ledger and payment never claim what did not happen |
| Chain submission (`services/chain`, `services/stellar.service.ts`) | `KeyedSerializer.tails`, the account's sequence number | run, load, submit, retry, tokenize | promise chain, lost answers, other processes on the same account | one in flight per queue in call order, nothing submitted twice, everything settles |
| Telemetry anchoring (`workers/stellar.worker.ts`, `infra/redis/queue.ts`) | reading's anchorStatus and hash; BullMQ job | store, push, anchor, persist, mark failed | retries, expired leases, two handlers for one job, worker crash, delete | stored hashes are on chain and never lost; every job ends |
| Onboarding (`modules/invitations`, `modules/users`, `modules/auth`) | invitations with token hashes, users with a unique email, organizations with a unique name | invite, resend, revoke, inspect, accept, link, join, signup, register, team, company, delete, profile change | check then act around bcrypt, updates conditional on a hash, one real transaction | no two accounts for an email, closed invitations stay closed, a company has its administrator |
| Access (`modules/auth`, `modules/users`, `shared/middleware`) | blocklist with expiries, session records, password hash, TOTP secret and backup codes, phone codes, API keys, rate-limit counters | login, refresh, logout, revoke, delete, change, reset; set-up, verify, disable, regenerate, consume; send and verify a code; keys; limiter | checks before awaits, time to live arithmetic, records and blocklist in different stores, read-modify-write of the code list, INCR then EXPIRE | a blocked token is refused, a vanished session is a dead token, no unused backup code is lost, no counter without an end |
| Settlement (`modules/payments`, `modules/webhooks`, `services/chain/soroban.adapter.ts`, `workers/stellar-indexer.worker.ts`) | payments, transactions and their fate, contract events, ledger blocks, cursor, cached summary | create, update, dispute, get, summary, webhook, contract call, index cycle | late, repeated and reordered events; poll timeout; restart from a stored cursor | a resolved call is on chain, a status set by an event is backed by the chain, no event behind the cursor is lost |
| Telemetry ingest (`webhooks/iot.service.ts`, `modules/telemetry`, `modules/anomaly`, `services/gpsLossDetection.ts`) | readings, threshold profiles, flags, anomalies, alert list, ETA cache | webhook, bulk, evaluate, flag, alert, resolve, clean up, estimate | background evaluation after the answer, one of several writes failing, readings out of order | what was acknowledged is queued, no alert without a record, no GPS loss for a lone reading |
| Realtime (`infra/socket`, `infra/sse`, `modules/events`) | connected sockets, rooms, streams per user, Redis channel | handshake, join, leave, disconnect, register, emit, fan out, publish, close | users change organization between join, emit and fan-out; a publish that fails late | only parties hear of a shipment, streams are registered exactly while open, the fallback reaches them |
| Records (`shipments.service.ts`, `storage`, `templates`, `notifications`, `organizations`, `audit`, `tracking`) | shipment documents with files, bucket, templates, notes, organizations, audit entries | create, patch, upload, dispute, delete, export, read; the small documents; lists | a limit checked before an await, an upload without the database write, documents that come and go between two pages | references resolve, limits bounded, a list walked to its end is complete |
| Analytics, mail, HTTP shell | caches and logs only | queries and output | none of their own | not modelled, see section 8 |

Interactions: the API handlers call the chain adapter (lifecycle, creation) and
push jobs that the stellar worker turns into chain calls, both from the same
signing account; the webhook and the indexer bring chain events back into
payments and ledger; a shipment delete cascades to its readings; status, payment,
telemetry and anomaly changes are emitted to the realtime layer. `PROJECT.json`
lists the components with their status and the hazards at their lines.

## 2. Modules

| module | models | state and actions |
|---|---|---|
| `ShipmentStateMachine` | `shared/constants/shipmentStateMachine.ts` | the transition table and its check, constants only |
| `ShipmentLifecycle` | `updateShipmentStatusService`, `bulkUpdateShipmentStatusService`, `deleteShipmentService`, `releaseEscrowOnDelivery` | a request runs in a slot; one action per awaited call: `FindShipments`, `BulkItem`, `WriteStatus`, `WriteLedger`, `FindPayment`, the release, its record, the settlement block, `EmitStatus`; `snap[r]` is what the handler read and may be stale; `Crash` empties the slots |
| `ChainSubmit` | `KeyedSerializer.run`, `submitManageData`, `tokenizeShipment` | `tails` is the map of the class, `after[t]` the promise a call waits for, `ticket` the order of the calls (history); `Run`, `Start`, `Load`, `Submit`, `Forget`, `Tokenize`; `Lines` maps them to the lines of `SigningQueue` |
| `SigningQueue` | what the serializer promises | abstract: one line per key, `Join` at the end, `Leave` from the front, accepted or not; `Outside`, a submission without a queue; `log`, what the network accepted |
| `TelemetryAnchor` | storing and queueing a reading, the BullMQ job, `processStellarAnchor`, the cascade of a delete | documents, job, leases, chain, and where each handler is; BullMQ (attempts, lease expiry, stalled limit) is external and modelled from how the worker configures and uses it |
| `Onboarding` | invitations, users, signup, company registration | a request is a label, a token hash it read and its input; documents are named after the request that inserts them |
| `Access` | `requireAuth`, sessions, blocklist, passwords, two-factor authentication, phone codes, API keys, `rateLimiter` | a request is a label and what it read (`seen`, `list`); tokens, secrets, batches, codes and keys are named after the request that made them; `now` is the clock of token lifetimes, `OtpAges` and `WindowEnds` are the short expiries |
| `Settlement` | payment routes, `invokePipeline`, the Stellar webhooks, the indexer, the summary cache | `fate` of each transaction and `chain`, the order of the confirmed ones; `payment[p]` with who wrote it last; the indexer's `cursor` and cycle |
| `TelemetryIngest` | IoT webhook, bulk route, thresholds, both detectors, GPS loss, anomalies, clean-up, ETA cache | requests and, beside them, one background detection per stored reading; numbers are compared with limits as in the code |
| `Realtime` | socket handshake, rooms, SSE hub, fan-out | sockets, rooms, streams, `fan` (where the fan-out of an event is), `pending` publishes, `got` (what each client received) |
| `Listing` | the page functions of the list endpoints | operators from a set of documents and a query to a page, no state; a sort puts each document in the place that the number of those before it gives (`Ranked`) |
| `Records` | shipment documents and files, storage providers, audit log, templates, notifications, organizations, public tracking, and a client that walks a list | composes `Listing`: `WalkFind`, `WalkCount`, `WalkAnswer` fetch page after page while the other actions write to the list |
| `MC...` | instances for TLC | sets, request bodies, scripts |
| `...Proofs` | theorems | one per module with proofs; `ChainProofs` has those of `ChainSubmit` and of `TelemetryAnchor` |

Abstractions that matter when reading them:

* A transaction hash is its position in the list of confirmed transactions; 0 is
  no hash. Addresses, amounts, file contents and messages are left out.
* Audit log writes are actions of `Records` only, where their list is walked;
  elsewhere they, mail and cache invalidations that nothing reads are
  fire-and-forget and change nothing the properties are about.
* Roles and schemas: a request carries its role and whether its body parses;
  `RolesOf` is the table of the routers, and a refusal ends the request.
* `ShipmentLifecycle`: the payment exists before the shipment is delivered and is
  written only by the delivery handlers; the payment endpoints and the webhook,
  which also write it, are in `Settlement`. With `Soroban = FALSE` (the
  simulated adapter) a second release of a payment is accepted, with `TRUE` the
  contract refuses it. A chain error may be reported although the release happened.
* `ChainSubmit`: an answer may be lost after the network accepted; a transaction
  that is accepted only after its submitter has been told of a failure is not
  modelled here, it is in `Settlement` (`Execute` after a timed-out poll).
* `Onboarding`: `Fail` stands for a database error, a lost answer, a crash and a
  token past its own expiry; the caller's organization is always present; the
  unique index on email contains soft-deleted accounts, queries do not see them.
  That a plain write of a key inserted by an open transaction waits, and a write
  of another transaction is refused, is MongoDB's behaviour (external).
* `Access`: one tick is long beside a request. `auth.service.setup2fa` and its
  controller have no route and are left out; `consumeBackupCode` has no caller in
  the routes either but is the only user of the stored codes, so it is modelled as
  a request.
* `Settlement`: the indexer's `updateOne` names `milestoneEvent` in `$set` and in
  `$setOnInsert`, which MongoDB refuses (the tests mock the model); both outcomes
  are allowed. `releasePaymentService` and `deletePayment` have no caller. The
  emits of these handlers are the events of `Realtime`.
* `TelemetryIngest`: the estimate of an arrival stands for the number of points it
  was computed from. `redisUnavailable`, once set, stays set, as in the code.
* `Realtime`: `recentEvents` is left out since nothing calls `pushRecentEvent`;
  `socketAuth` looks at the signature and expiry of the token only, so a socket
  keeps the organization of its token.
* `Listing`, `Records`: ids are numbers in creation order. A document of a list is
  its id, the field it is sorted by and, in a timeline, the key of its cursor.
  `WalkAssumption` says that a collection is finite, that no id is used twice, as
  `_id` is not, and that a walk begins at the first page (`FirstQuery`).

## 3. Runs

| run | instance | shows |
|---|---|---|
| `ShipmentRace` | 1 shipment, 1 payment, 2 slots, single and bulk updates to 3 statuses, 4 requests, all faults, simulated adapter; 747,668 states | with stale reads, failures and crashes every milestone was allowed from a status the shipment had, ledger and payment records are backed, releases never outnumber deliveries, histories only grow |
| `ShipmentSerial` | 2 shipments (one not owned), all statuses, 1 slot, 5 requests, faults but no crash; 2,292,059 states | without overlap and repeated ids the table is followed step by step and the announced status is the stored one |
| `ShipmentLive` | 1 shipment, 2 slots, 3 requests, lists that name it once or twice, Soroban, fair; 255,852 states | every delivery is paid, whichever handler makes it |
| `ShipmentRaceIllegal` | 2 slots, no faults; violation | two overlapping updates take a transition the table forbids |
| `ChainSubmit` | 4 submissions: 2 queued and 1 tokenization in the API process, 1 in the worker, 1 retry, lost answers and network errors, fair; 318,178 states | exclusion in call order, forgetting only idle keys, nothing accepted twice, retries caused only by others, refinement of `SigningQueue`, everything settles |
| `TelemetryAnchor` | 1 reading, 2 handlers, 3 attempts (as configured), 1 stall (BullMQ's default), all faults, fair; 15,704 states | stored hashes are real and kept, completed jobs left their hash, bounded transactions, jobs end |
| `Onboarding` | 5 requests over 2 emails and 2 names; 45 combinations of bodies that meet on the same invitation, email or name, a failure at every call; 308,995 states | accepted means an account exists, closed stays closed unless resent, one account per email, a company has its administrator, expiry only when due |
| `Access` | 5 requests of one account meeting on one token, second factor, phone code, key or counter; tokens live 2 of 3 ticks, 2 backup codes per batch, limit 2; 267,323 states | blocked tokens are refused, a session that left the list has a blocked token, no unused code is lost, counters expire |
| `Settlement` | 5 requests about one payment: funding, pay-out, their webhooks in any order, a dispute, an administrator's update; two calls of one account; 2 index cycles with failing cursor reads and saves; 309,629 states | resolved calls are on chain, statuses set by events are backed by the chain, the cursor skips nothing |
| `TelemetryIngest` | 4 requests over 2 shipments and 2 shipment types: lost positions arriving late, limits that change while they are broken, a bulk of two, estimates racing status changes; 471,372 states | acknowledged readings are queued, alerts have a record, GPS loss needs more than one reading |
| `Realtime` | 2 users of 2 organizations, 1 socket, 2 streams, a shipment of one organization and one of none, 2 events; users move and leave at any time; 1,002,259 states | only parties hear, streams are registered exactly while open, without Redis or when it fails nothing is lost |
| `Records` | 3 requests: uploads and a delete of one shipment under each storage provider, the small documents, and a walk through every list while two or three requests write to it; 867,650 states | named files exist and belong to the shipment, photos exceed the limit by at most the uploads in flight less one, a walk is complete and free of repetition where it can be |

Why the bounds are enough to be interesting. Two slots are two handlers, all that
a stale read needs; four requests allow a shipment to reach IN_TRANSIT and then
two of DELIVERED and CANCELLED to race, with one to spare. `ShipmentSerial` has
five requests, enough to walk the longest path of the table. In
`ChainSubmit`, one retry with three competitors makes both a successful and an
exhausted retry happen. `Onboarding`, `Access`, `Settlement`, `TelemetryIngest`
and `Records` take their requests from scripts: each script fixes who creates the
token, invitation, payment, reading or shipment and lets the other requests
contend for it, with every interleaving and a failure at every call.
In `Access` a clock of three ticks with a token life of two has a token before, at
and after its expiry, and within and beyond the grace period of a refresh.
`MaxCycles = 2` has a cycle resume what another left. `MaxPhotos = 1` with three
uploads has the limit met, exceeded by a race, and refused. Three documents with
pages of one or two, some not in the order of their ids, are enough for a cursor in
the first, an inner and the last place, and `MaxPages = 5` is beyond the last page.

Names of the bounds: `MaxRequests`, `MaxBadSeqRetries`, `Attempts`, `MaxStalls`,
`MaxNow`, `MaxCycles`, `MaxPages`, `MaxItems`; `MaxPhotos`, `ExportMax`, `TokenTTL` and `Limit`
are parameters of the code with small values. The sets are finite in the
configurations only. No symmetry is used, the runs are small enough without.

Deadlock is not checked: a system whose requests are all answered rests.

## 4. Fairness

`FairSpec` in `ShipmentLifecycle` is weak fairness of each handler's steps: the
event loop resumes a handler whose awaited call has settled, and every awaited
call settles (drivers and adapters have timeouts). Arrivals, deletes and crashes
are not fair. In `ChainSubmit` (`FairSubmitSpec`) it is weak fairness of each submission's progress,
by the same argument and because `setTimeout(30)` bounds a transaction. In
`TelemetryAnchor`, handlers, the push of an accepted reading and the expiry of a
lease nobody renews are weakly fair; handing a waiting job to some handler is
strongly fair, since a handler that restarts again and again is free again and
again, and BullMQ serves the queue in order. A job restarts finitely often
because attempts and stalls are bounded; crashes themselves are not fair.
The other modules state safety only: their handlers are straight lines that
end, so what must eventually happen there is what an answer already shows.

## 5. Findings

With a run that TLC violates, quoted in `PROJECT.json`:

* `shipments.service.ts:626`: a status update validates what it read, then saves by
  id alone; overlapping updates save CANCELLED and then DELIVERED. This explains the
  form of the properties: `LegalHistory` is what the table means and holds only
  serially (proved as `SerialLegal`); `HistoryJustified` is the weaker fact that
  survives races.

Met while modelling, kept in the models as the code has them:

* `shipments.service.ts:790`: a bulk list with a repeated id saves and records the
  same transition twice; `ShipmentLive` has such lists.
* `stellar.service.ts:38`: `tokenizeShipment` submits outside the serializer, so the
  comment at `simulated.adapter.ts:216` does not hold with it. `RetriesPaidByOthers`
  states what remains true.
* `stellar.worker.ts:71`: a job failed by the stalled limit never marks its reading,
  which stays PENDING_ANCHOR, though `docs/telemetry-pipeline.md:71` says hash or
  ANCHOR_FAILED.
* Access: a later `SET` of logout, password change or account deletion replaces the
  longer entry a refresh left on the blocklist, so at and after the expiry of a token
  the refresh route, with its seven days of grace, no longer sees the entry. This is
  why `RevokedIsRefused` speaks of the time before the expiry. The block of a used
  reset token is never consulted.
* Settlement: events are applied unconditionally, so an escrow event that arrives
  after the release returns the payment to Escrowed (`StatusIsOnChain` holds, the
  order is not promised). Blocks of an ESCROW_RELEASE carry the payment's id as
  shipment id. Totals and sparkline of the summary are two separate reads. A failed
  read of the cursor starts again at the beginning, which the upserts make harmless.
* TelemetryIngest: the reading under evaluation is already stored when the last
  readings are counted, so two readings without position suffice
  (`gpsLossDetection.ts:72`) where the comment above says three or more. A threshold
  of 0 is unset for the webhook's detector and a limit for the bulk one.
  `pushAlertJob` writes a plain Redis list that the BullMQ alert worker never reads.
  A bulk request that fails in the middle leaves its earlier items stored. An
  estimate computed before a status change can be cached after it and stays until
  its time to live ends.
* Realtime: the hub never subscribes to a user's channel (`sseHub.ts:83`), so while
  Redis takes the publishes no stream receives them; `FallbackReaches` is the
  promise that holds. `pushRecentEvent`, `emitNotificationNew` and
  `fanoutNotificationToUser` have no caller.
* Records and lists: cursors are ids while the sort is by a time; where the time is
  the device's, or ids come from two processes within a second, a walk can skip or
  repeat. The payments list keeps `$lt` when it sorts upwards; the activity feed
  skips equal timestamps; timeline keys of milestones can coincide and an unknown
  cursor starts over; page lists are reliable only while nothing is added or
  removed. `Reliable` in `Records` is exactly these conditions. Uploads leave files
  behind when the shipment is not found or the save fails. A save after a soft
  delete still succeeds. `getTelemetry` replaces the filter by shipment when an
  organization is given, and the shipment schema has no `organizationId` although
  list and export filter on it.

## 6. Proofs

All are checked by TLAPS for arbitrary constants satisfying the named assumptions
of the modules.

**ShipmentLifecycle** (any shipments, payments, slots, lists, faults, either
adapter). `IInv` = types, `HandlerOK` (the position of each handler in its list;
the payment it holds is one of its shipment; the hash it is about to record is a
confirmed release of it), `ReadsOK` (what it read was true once, what it is about
to write is allowed from there, what it is about to put in the ledger has been
written) and the safety properties. The handler parts are needed because the
properties speak of the database only, and say nothing of a handler that is about
to write. The lemmas show that a status once seen stays seen (`SeenStable`), which
is why stale reads do no more harm than they do. `SerialLegal` adds, under
one slot and lists without repetition, that the snapshot of the items still to come
is current. `SerialAnnounced` needs only one slot and no crash: a status that is stored
is announced, or the handler that stored it is still on its way to the event
(`ToldOK`), and what a handler has yet to announce is what is stored (`TellerOK`).
`ReleasesPaidFor` counts. The property compares releases made with deliveries saved,
which says nothing of a handler between its save and its release; `EscrowInv` adds
them: releases made, plus handlers that may still make one, are at most the
deliveries saved. A save adds one to both sides, a release moves one from the
handlers to the chain, every other end of a handler only lowers the left side.

**ChainSubmit** (any tasks, keys, retries). `QueueInv`: tickets are given once in
call order, the tail of a key is its last call, a waiting call waits for the call
just before it or has nothing before it that is unsettled. From it follow exclusion
in call order and that a forgotten key is idle. `SubmitInv`: what the network
accepted is settled, hence is not submitted again.

`RefinesSigningQueue` is the refinement, safety part, under `Lines`: the line of a key
is its unsettled calls in the order of their tickets. `Lines` is a CHOOSE over
sequences, so the proof first shows that such a list exists (`LinesOK`, an invariant)
and is the only one; two lists in call order that differ would differ at a least
position, which the order of the tickets excludes. With that each step of the code
is computed on the list: `Run` appends, a submission that settles is the head because
all before it have settled (`StartedOK`), so its end takes the tail, a retry and every
other step leave the lines alone, and an accepted outsider is `Outside`.

`OthersPayRetries` rests on `RetryInv`: the sequence number is the number of accepted
submissions; the retries of a submission are matched by accepted submissions of
others *before it loaded the account*, and what was accepted since the load is not of
its own queue, since it is the one of its queue in flight. A refusal means that
something was accepted since the load, so there is one more of somebody else's for
the one more retry.

**TelemetryAnchor** (any readings, handlers, attempts, stalls). `AnchorInv` has the
safety property and what a handler in its persist step holds; the job's bookkeeping
is left arbitrary, so the result does not rest on BullMQ. `RecordInv` adds, for
`CompletedIsRecorded`, that a handler about to report success has recorded its
reading; nothing recorded is taken back, so it still is when the report arrives.
`AnchorsBounded` does rest on BullMQ's bookkeeping: `JobInv` keeps failed attempts and
expired leases in their limits and `HandedOut` counts from them how often a job has
been handed to a handler; `CostInv` says that confirmed transactions, plus handlers
about to make one, among them those that lost their lease, are at most that many.

**TelemetryIngest** (any requests, shipments, profiles and lengths of a bulk).
`IngestInv` = types and, of each handler that ingests, that the items before the
current one are stored and queued and that the current one is stored when its job is
pushed; at the last item this is `AcknowledgedIsQueued`. `AlertInv` says that a
detection starts once, when the handler is through with its item; that it has alerted
of nothing before it has recorded, so that the webhook's overwriting of the flag
withdraws nothing; that the webhook's finds one anomaly at most, the one the flag can
hold; and that what is left to alert of is on record. `GpsSound` rests on `GpsInv`: a
handler stores its items once each, in turn, so that an id names one document
(`UniqueIds`, `InTurn`); and a reading that is flagged GPS_LOST, or that a detection is
about to flag, has three readings of its shipment stored, two of them without position.
That is what `HasGpsLoss` finds among the newest (`LossIsStreak`), no other check of
the webhook finds GPS_LOST (`OneBreach`), and readings that arrive later take nothing
from a streak (`StreakGrows`).

**Onboarding** (any requests, emails, names, inputs). `IInv` = types, `LocalOK`
(which labels a kind of request can have), `InvitationsOK` and `AccountsOK` (which
documents exist for which requests), `TransactionsOK` (keys held by open
transactions are free and distinct, without which a commit could create a
duplicate), `HashesOK` (a hash that will be written later is not yet anywhere, and
a handler about to expire holds the hash of an invitation that is past its expiry
or has been rehashed) and the properties.
`ExpireSound` is an action property proved from the same invariant.

**Access** (any requests, users, phones, inputs and lifetimes). `TokenInv` = types,
`SessionGoneIsBlocked` and `TokensOK`: the labels fit the kind of request; a token
exists from its request's answer on, and only then can it be presented, recorded or
blocked; an entry of the blocklist lasts at least to the token's expiry; a session
is dropped only after its block. The entry's lifetime is what makes
`RevokedIsRefused`, an action property over the guards, true: a blocked token that
has left the list is expired. `CodesInv` says of the stored backup codes, and of the
copy every handler has read, that they are a batch less codes that were accepted;
without the copies it is not inductive. `RateInv` is `CounterExpires` itself.

**Settlement** (any requests, shipments, inputs and faults). `IInv` = types, where
calls and webhooks can be, that a transaction with fate SUCCESS is on the chain,
that a webhook which was verified reports something confirmed, that the indexer's
position in a cycle is not ahead of what it has filed, and the properties. The
position is needed because the cursor is saved from it at the end of a cycle.

**Realtime** (any sockets, streams, users, organizations, shipments, events). `IInv` =
types, sockets and streams before their handshake are in nothing, rooms hold only
sockets of the organization in their token, publishes on the way are only to users
who are or were of a party, and the properties.

**Records** (any requests, organizations, shipments, storage providers, photo limit,
collections, page sizes and walks). The three properties have an invariant each.

`FilesSound` rests on `FileInv` = types, the property and `HandlersOK`: a handler has
only the labels of its kind of request, its shipment document exists once it has
found it, and the file it is about to save is in the bucket, under a key for the
shipment of the request (`Fits`). The property speaks of the database and the bucket
only; without the handlers nothing is known of the key that a save is about to write.
Since nothing leaves the bucket, a key that a handler holds stays good however long
its save takes, and a soft delete in between changes no file.

`PhotosSound` counts: the photos of a shipment, plus the uploads between their check
and their save, exceed the limit by less than the peak of uploads in flight, and do
not exceed it before the first (`PhotoInv`, with `Excess`). A check that passes adds an upload and, when
there are then more of them than ever, raises the peak; a save moves an upload to the
photos; a failure only lowers the sum.

`WalksSound` needs first what a page is. `RankedOK` shows that `Ranked` is a sort,
for a finite set and any strict total order: each member has the place that the number of
its predecessors gives, no two have the same, so that every place is taken and the
sequence ascends. `FirstRows` says what the first rows of it are, `OrdersOK` and
`SortsOK` that the orders of the lists are such orders. From these follows what a page
is. After a cursor (`CursorPage`, for the lists by id, the activity feed and the
timeline) its rows are in order and behind the rows before, and what is behind those
and not in it is behind its last row; by number (`NumberedPage`) it is a slice of the
sorted collection. `WalkInv` is the invariant of the client. With cursors
(`CursorOK`): the rows so far are in order without repetition, the cursor is the mark
of the last of them, and each document that was there all along and has not been given
is behind it; the same of the page that was fetched and not yet taken. With page
numbers (`PageOK`): the rows so far are the first `(page - 1) * limit` of the sorted
collection, and the total that was counted is its size. A write between two pages can
only make `Reliable` false or leave what was shown: `Reliable` never becomes true
again (`ReliedBefore`), so that at the end of a walk it held throughout. No induction
over pages is needed, the walk is a behaviour and the invariant does it.

The counting proofs share their form: a state function counts what has happened, a set
of handlers what may still happen, and lemmas on cardinalities (`HitsAppend`,
`ConfirmedCount`, `OthersMore`) say what an append to a sequence adds. Where a fact
about sequences would want induction, the proof takes the least counterexample instead
(`Least`, from the well-foundedness of the naturals).

Every safety property that a run checks is a theorem. Only model-checked is what lies
beyond the prover: the liveness properties `DeliveredIsPaid`, `AllSettle` and
`JobsEnd`, which hold under fairness. The violation of `LegalHistory` by overlapping
updates is a counterexample that TLC finds.

## 7. Plan

1. Done: lifecycle, chain submission, telemetry anchoring, onboarding, with proofs.
2. Done: access, settlement, telemetry ingest, realtime delivery, records and lists.
3. Done: proofs of access, settlement, telemetry ingest and realtime delivery.
4. Done: the refinement of `SigningQueue`, the counting properties, the announced
   status and lost positions.
5. Done: files, photos and the walks through the lists.
6. Left: the arrival estimate written to its cache after the change that outdated it
   has no property, as the code promises nothing beyond the time to live.

## 8. Not modelled, and why

* Analytics and reports are read-only aggregation pipelines over dates, sums and
  averages; the only thing they write is a cache of the form of the settlement
  summary's, which `Settlement` models.
* Mail is output whose failures every caller logs and ignores.
* The HTTP shell, connection set-up and configuration decide which requests arrive,
  which the models take as arbitrary; guards and validity of bodies are in the
  modules. A shutdown that interrupts handlers is the `Crash` of `ShipmentLifecycle`.
* The arithmetic of the arrival estimate is floating-point geometry, outside TLC's
  integers; its cache is modelled.
* The alert worker reads a BullMQ queue that nothing fills, and the poll endpoint a
  list that nothing fills: neither has a step to take.
* The choice of the chain adapter and the encodings of payloads.
* Seeds, migrations, report generators and other scripts are run by hand and are no
  part of the running system.

Cryptography (hashes, signatures, one-time codes) is represented by what it
distinguishes: equal or not equal, held or not held.
