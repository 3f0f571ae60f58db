------------------------ MODULE TelemetryIngestProofs ------------------------
(***************************************************************************)
(* For any requests, shipments, threshold profiles and lengths of a bulk:  *)
(* a request that was answered has queued every reading it stored, and no  *)
(* alert goes out for what is recorded nowhere; a reading is flagged with  *)
(* a lost position only after a streak of them.                            *)
(***************************************************************************)
EXTENDS TelemetryIngest, FiniteSetTheorems, TLAPS

Ingest == {"iot", "bulk"}

Docs == [id : Ids, shipment : Shipments \union {None}, temp : Int, hum : Int, bat : Int,
         shock : Int, gps : BOOLEAN, ts : Int]

Typed ==
    /\ call \in Scripts
    /\ DOMAIN pc = Reqs /\ pc = [r \in Reqs |-> pc[r]]
    /\ item \in [Reqs -> Nat]
    /\ ship \in [Reqs -> Shipments \union {None}]
    /\ readings \in Seq(Docs)

(* A handler that ingests works on one item after the other: those before  *)
(* it are stored and queued, and at the push its own is stored.  No other  *)
(* request comes to these labels.                                          *)
IngestOK ==
    \A r \in Reqs :
        /\ pc[r] \in {"resolve", "store", "push"} => Kind(r) \in Ingest
        /\ Kind(r) \in Ingest =>
              /\ pc[r] \in {"guard", "resolve", "store", "invalidate", "push", "ok", "error"}
              /\ item[r] \in 1..Len(call[r].items)
              /\ \A i \in 1..(item[r] - 1) : <<r, i>> \in Stored /\ <<r, i>> \in jobs
              /\ pc[r] \in {"invalidate", "push"} => Id(r) \in Stored
              /\ pc[r] = "ok" => \A i \in 1..Len(call[r].items) : <<r, i>> \in Stored /\ <<r, i>> \in jobs

IngestInv == Typed /\ IngestOK

-----------------------------------------------------------------------------
(* What the scripts say of a request. *)
LEMMA CallsOK ==
    ASSUME call \in Scripts, NEW r \in Reqs
    PROVE  /\ Kind(r) \in Kinds
           /\ call[r].shipment \in Shipments \union {None}
           /\ call[r].items \in Seq(Items)
           /\ Kind(r) \in Ingest => Len(call[r].items) \in 1..MaxItems
           /\ Kind(r) = "iot" => Len(call[r].items) = 1
           /\ MaxItems \in Nat
  BY IngestAssumption DEF Kind, Ingest

(* The item a handler works on. *)
LEMMA ItemOK ==
    ASSUME IngestInv, NEW r \in Reqs, Kind(r) \in Ingest
    PROVE  Reading(r) \in Items /\ Id(r) \in Ids
<1>1. /\ call[r].items \in Seq(Items) /\ Len(call[r].items) \in 1..MaxItems
      /\ item[r] \in 1..Len(call[r].items) /\ MaxItems \in Nat
  BY CallsOK DEF IngestInv, Typed, IngestOK
<1>2. Reading(r) \in Items
  BY <1>1 DEF Reading
<1>3. item[r] \in 1..MaxItems
  BY <1>1
<1> QED BY <1>2, <1>3 DEF Id, Ids

(* In the beginning nothing is stored, and a request is before its guard. *)
LEMMA IngestInit == Init => IngestInv
<1> SUFFICES ASSUME Init PROVE IngestInv
  OBVIOUS
<1>1. Typed
  BY DEF Init, Typed
<1>2. \A r \in Reqs : Kind(r) \in Ingest => 1 \in 1..Len(call[r].items)
  BY CallsOK DEF Init
<1>3. \A r \in Reqs : /\ pc[r] = IF Kind(r) = "none" THEN "ok" ELSE "guard"
                      /\ item[r] = 1
  BY DEF Init, Kind
<1>4. IngestOK
  BY <1>2, <1>3 DEF IngestOK, Ingest
<1> QED BY <1>1, <1>4 DEF IngestInv

(* A document more in the collection. *)
LEMMA StoredGrows ==
    ASSUME readings \in Seq(Docs), NEW x \in Docs, readings' = Append(readings, x)
    PROVE  readings' \in Seq(Docs) /\ Stored' = Stored \union {x.id}
<1>1. /\ readings' \in Seq(Docs) /\ Len(readings) \in Nat
      /\ DOMAIN readings = 1..Len(readings)
      /\ DOMAIN readings' = 1..(Len(readings) + 1)
      /\ \A i \in 1..Len(readings) : readings'[i] = readings[i]
      /\ readings'[Len(readings) + 1] = x
  OBVIOUS
<1>2. \A i : i \in DOMAIN readings' <=> i \in DOMAIN readings \/ i = Len(readings) + 1
  BY <1>1
<1>3. Stored' \subseteq Stored \union {x.id}
  BY <1>1, <1>2 DEF Stored
<1>4. Stored \union {x.id} \subseteq Stored'
  BY <1>1, <1>2 DEF Stored
<1> QED BY <1>1, <1>3, <1>4

(* A step of a request that stores and queues nothing. *)
LEMMA PlainMove ==
    ASSUME IngestInv, NEW r \in Reqs, NEW l, Goto(r, l),
           UNCHANGED <<call, item, readings, jobs>>,
           ship' \in [Reqs -> Shipments \union {None}],
           l \in {"resolve", "store", "push"} => Kind(r) \in Ingest,
           Kind(r) \in Ingest => /\ l \in {"resolve", "store", "invalidate", "push", "error"}
                                 /\ l \in {"invalidate", "push"} => Id(r) \in Stored
    PROVE  IngestInv'
<1>1. \A x \in Reqs : pc'[x] = IF x = r THEN l ELSE pc[x]
  BY DEF Goto, IngestInv, Typed
<1>2. Typed'
  BY DEF Goto, IngestInv, Typed
<1>3. Stored' = Stored
  BY DEF Stored
<1>4. IngestOK'
  BY <1>1, <1>3 DEF IngestInv, IngestOK, Kind, Id
<1> QED BY <1>2, <1>4 DEF IngestInv

(* Where a handler goes from its guard. *)
LEMMA HandlerOK ==
    ASSUME call \in Scripts, NEW r \in Reqs
    PROVE  /\ Kind(r) \in Ingest => Handler(r) \in {"resolve", "store"}
           /\ Kind(r) \notin Ingest => Handler(r) \notin {"resolve", "store", "push"}
<1>1. Kind(r) \in Kinds
  BY CallsOK
<1>2. CASE Kind(r) = "iot" \/ Kind(r) = "bulk"
  BY <1>2, Zenon DEF Handler, Ingest
<1>3. CASE Kind(r) = "resolve" \/ Kind(r) = "stats"
  BY <1>3, Zenon DEF Handler, Ingest
<1>4. CASE Kind(r) \in {"eta", "move", "moveMany", "none", "getLimits", "putLimits"}
  <2>1. Handler(r) = Kind(r)
    BY <1>4, Zenon DEF Handler
  <2> QED BY <1>4, <2>1 DEF Ingest
<1> QED BY <1>1, <1>2, <1>3, <1>4 DEF Kinds, AnomalyRoles, ThresholdRoles

(* The steps that only move a handler that ingests. *)
LEMMA IngestMoves ==
    ASSUME IngestInv, NEW r \in Reqs,
           Guard(r) \/ FindActiveShipmentBySensorId(r) \/ InvalidateAfterIngest(r) \/ Fail(r)
    PROVE  IngestInv'
<1>t. /\ call \in Scripts /\ ship \in [Reqs -> Shipments \union {None}]
      /\ Kind(r) \in Ingest => /\ pc[r] \in {"guard", "resolve", "store", "invalidate", "push", "ok", "error"}
                               /\ pc[r] \in {"invalidate", "push"} => Id(r) \in Stored
      /\ pc[r] \in {"resolve", "store", "push"} => Kind(r) \in Ingest
  BY DEF IngestInv, Typed, IngestOK
<1>1. CASE Guard(r)
  <2>1. \E l \in {Handler(r), "error"} : Goto(r, l)
    BY <1>1, Zenon DEF Guard
  <2>2. PICK l \in {Handler(r), "error"} : Goto(r, l)
    BY <2>1
  <2>3. UNCHANGED <<call, item, readings, jobs>>
    BY <1>1 DEF Guard, readVars
  <2>4. ship' \in [Reqs -> Shipments \union {None}]
    <3>1. Kind(r) \in {"iot", "bulk"} => Reading(r).shipment \in Shipments \union {None}
      BY ItemOK DEF Ingest, Items
    <3>2. call[r].shipment \in Shipments \union {None}
      BY <1>t, CallsOK
    <3> QED BY <1>1, <1>t, <3>1, <3>2 DEF Guard
  <2>5. /\ l \in {"resolve", "store", "push"} => Kind(r) \in Ingest
        /\ Kind(r) \in Ingest => l \in {"resolve", "store", "error"}
    BY <1>t, HandlerOK
  <2> QED BY <2>2, <2>3, <2>4, <2>5, PlainMove
<1>2. CASE FindActiveShipmentBySensorId(r)
  <2>1. \E l \in {"store", "error"} : Goto(r, l)
    BY <1>2 DEF FindActiveShipmentBySensorId
  <2>2. pc[r] = "resolve" /\ UNCHANGED <<call, item, readings, jobs>>
    BY <1>2 DEF FindActiveShipmentBySensorId, readVars
  <2>3. ship' \in [Reqs -> Shipments \union {None}]
    BY <1>2, <1>t DEF FindActiveShipmentBySensorId
  <2> QED BY <2>1, <2>2, <2>3, <1>t, PlainMove
<1>3. CASE InvalidateAfterIngest(r) \/ Fail(r)
  <2>1. \E l \in {"push", "error"} : Goto(r, l) /\ (l = "push" => pc[r] = "invalidate" /\ Kind(r) \in Ingest)
    BY <1>3 DEF InvalidateAfterIngest, Fail, Ingest
  <2>2. UNCHANGED <<call, item, readings, jobs, ship>>
    BY <1>3 DEF InvalidateAfterIngest, Fail, readVars
  <2> QED BY <2>1, <2>2, <1>t, PlainMove
<1> QED BY <1>1, <1>2, <1>3

(* The other requests do not touch readings and jobs. *)
LEMMA OtherMoves ==
    ASSUME IngestInv, NEW r \in Reqs,
           \/ GetThresholds(r) \/ UpdateThresholds(r) \/ ResolveAnomaly(r)
           \/ ReadStatsCache(r) \/ CountAnomalies(r) \/ WriteStatsCache(r)
           \/ ReadShipmentEtaCache(r) \/ FindEtaShipment(r) \/ ReadPoints(r) \/ WriteShipmentEtaCache(r)
           \/ MoveShipment(r) \/ InvalidateAfterMove(r)
    PROVE  IngestInv'
<1> DEFINE Away == /\ \E l : Goto(r, l) /\ l \notin {"resolve", "store", "push"}
                   /\ UNCHANGED <<call, item, ship, readings, jobs>>
                   /\ \/ pc[r] \notin {"guard", "resolve", "store", "invalidate", "push", "ok", "error"}
                      \/ Kind(r) = "move"
<1> USE DEF readVars
<1>1. CASE GetThresholds(r) \/ UpdateThresholds(r) \/ ResolveAnomaly(r)
  <2>1. Away
    BY <1>1 DEF GetThresholds, UpdateThresholds, ResolveAnomaly
  <2> QED BY <2>1, PlainMove DEF IngestInv, Typed, IngestOK, Ingest
<1>2. CASE ReadStatsCache(r) \/ CountAnomalies(r) \/ WriteStatsCache(r)
  <2>1. Away
    BY <1>2 DEF ReadStatsCache, CountAnomalies, WriteStatsCache
  <2> QED BY <2>1, PlainMove DEF IngestInv, Typed, IngestOK, Ingest
<1>3. CASE ReadShipmentEtaCache(r) \/ FindEtaShipment(r) \/ ReadPoints(r) \/ WriteShipmentEtaCache(r)
  <2>1. Away
    BY <1>3 DEF ReadShipmentEtaCache, FindEtaShipment, ReadPoints, WriteShipmentEtaCache
  <2> QED BY <2>1, PlainMove DEF IngestInv, Typed, IngestOK, Ingest
<1>4. CASE MoveShipment(r) \/ InvalidateAfterMove(r)
  <2>1. Away
    BY <1>4 DEF MoveShipment, InvalidateAfterMove
  <2> QED BY <2>1, PlainMove DEF IngestInv, Typed, IngestOK, Ingest
<1> QED BY <1>1, <1>2, <1>3, <1>4

(* createTelemetryRecord stores the item the handler works on. *)
LEMMA StoreOK ==
    ASSUME IngestInv, NEW r \in Reqs, CreateTelemetryRecord(r)
    PROVE  IngestInv'
<1>u. /\ pc[r] = "store" /\ readings' = Append(readings, Document(r))
      /\ UNCHANGED <<call, item, ship, jobs>>
      /\ \E l \in {"invalidate", "push"} : pc' = [pc EXCEPT ![r] = l]
  BY DEF CreateTelemetryRecord, Goto
<1>1. Kind(r) \in Ingest
  BY <1>u DEF IngestInv, IngestOK
<1>2. Document(r) \in Docs /\ Document(r).id = Id(r)
  <2>1. Reading(r) \in Items /\ Id(r) \in Ids /\ ship[r] \in Shipments \union {None}
    BY <1>1, ItemOK DEF IngestInv, Typed
  <2>2. Normalized(Reading(r)) \in [shipment : Shipments \union {None}, temp : Int, hum : Int,
                                    bat : Int, shock : Int, gps : BOOLEAN, ts : Int]
    BY <2>1 DEF Normalized, Items
  <2> QED BY <2>1, <2>2 DEF Document, Docs
<1>3. readings' \in Seq(Docs) /\ Stored' = Stored \union {Id(r)}
  BY <1>u, <1>2, StoredGrows DEF IngestInv, Typed
<1>4. PICK l \in {"invalidate", "push"} : pc' = [pc EXCEPT ![r] = l]
  BY <1>u
<1>5. \A x \in Reqs : pc'[x] = IF x = r THEN l ELSE pc[x]
  BY <1>4 DEF IngestInv, Typed
<1>6. Typed'
  BY <1>u, <1>3, <1>4 DEF IngestInv, Typed
<1>7. IngestOK'
  BY <1>u, <1>1, <1>3, <1>5 DEF IngestInv, IngestOK, Kind, Id
<1> QED BY <1>6, <1>7 DEF IngestInv

(* pushStellarAnchorJob queues it, and the handler goes on or answers. *)
LEMMA PushOK ==
    ASSUME IngestInv, NEW r \in Reqs, PushStellarAnchorJob(r)
    PROVE  IngestInv'
<1>u. /\ pc[r] = "push" /\ jobs' = jobs \union {<<r, item[r]>>}
      /\ UNCHANGED <<call, readings>>
      /\ \/ /\ item[r] < Len(call[r].items)
            /\ item' = [item EXCEPT ![r] = @ + 1]
            /\ ship' = [ship EXCEPT ![r] = call[r].items[item[r] + 1].shipment]
            /\ pc' = [pc EXCEPT ![r] = "store"]
         \/ /\ ~(item[r] < Len(call[r].items))
            /\ pc' = [pc EXCEPT ![r] = "ok"] /\ UNCHANGED <<item, ship>>
  BY DEF PushStellarAnchorJob, Pushed, Goto, Id
<1>1. /\ Kind(r) \in Ingest /\ item[r] \in 1..Len(call[r].items) /\ <<r, item[r]>> \in Stored
      /\ item \in [Reqs -> Nat] /\ call[r].items \in Seq(Items) /\ Len(call[r].items) \in Nat
      /\ \A i \in 1..(item[r] - 1) : <<r, i>> \in Stored /\ <<r, i>> \in jobs
  BY <1>u, CallsOK DEF IngestInv, Typed, IngestOK, Id
<1>2. Stored' = Stored
  BY <1>u DEF Stored
<1>3. ASSUME NEW i \in 1..item[r] PROVE <<r, i>> \in Stored /\ <<r, i>> \in jobs'
  <2>1. i = item[r] \/ i \in 1..(item[r] - 1)
    BY <1>1
  <2> QED BY <2>1, <1>1, <1>u, Zenon
<1>4. ASSUME NEW x \in Reqs, x # r PROVE pc'[x] = pc[x] /\ item'[x] = item[x]
  BY <1>4, <1>u DEF IngestInv, Typed
<1>5. Typed'
  <2>1. CASE item[r] < Len(call[r].items)
    <3>1. call[r].items[item[r] + 1] \in Items
      BY <1>1, <2>1
    <3>2. call[r].items[item[r] + 1].shipment \in Shipments \union {None}
      BY <3>1 DEF Items
    <3>3. /\ item' = [item EXCEPT ![r] = item[r] + 1] /\ item[r] + 1 \in Nat
          /\ ship' = [ship EXCEPT ![r] = call[r].items[item[r] + 1].shipment]
          /\ pc' = [pc EXCEPT ![r] = "store"]
      BY <2>1, <1>u, <1>1
    <3>4. item' \in [Reqs -> Nat]
      BY <3>3, <1>1
    <3>5. ship' \in [Reqs -> Shipments \union {None}]
      BY <3>2, <3>3 DEF IngestInv, Typed
    <3> QED BY <3>3, <3>4, <3>5, <1>u DEF IngestInv, Typed
  <2>2. CASE ~(item[r] < Len(call[r].items))
    BY <2>2, <1>u DEF IngestInv, Typed
  <2> QED BY <2>1, <2>2
<1>6. IngestOK'
  <2> SUFFICES ASSUME NEW x \in Reqs
               PROVE  /\ pc'[x] \in {"resolve", "store", "push"} => Kind(x) \in Ingest
                      /\ Kind(x) \in Ingest =>
                          /\ pc'[x] \in {"guard", "resolve", "store", "invalidate", "push", "ok", "error"}
                          /\ item'[x] \in 1..Len(call[x].items)
                          /\ \A i \in 1..(item'[x] - 1) : <<x, i>> \in Stored /\ <<x, i>> \in jobs'
                          /\ pc'[x] \in {"invalidate", "push"} => <<x, item'[x]>> \in Stored
                          /\ pc'[x] = "ok" =>
                                \A i \in 1..Len(call[x].items) : <<x, i>> \in Stored /\ <<x, i>> \in jobs'
    BY <1>u, <1>2 DEF IngestOK, Kind, Id
  <2>1. CASE x # r
    BY <2>1, <1>4, <1>u DEF IngestInv, IngestOK, Id
  <2>2. CASE x = r /\ item[r] < Len(call[r].items)
    <3>1. pc'[r] = "store" /\ item'[r] = item[r] + 1
      BY <2>2, <1>u DEF IngestInv, Typed
    <3>2. item'[r] \in 1..Len(call[r].items) /\ item'[r] - 1 = item[r]
      BY <2>2, <3>1, <1>1
    <3> QED BY <2>2, <3>1, <3>2, <1>1, <1>3
  <2>3. CASE x = r /\ ~(item[r] < Len(call[r].items))
    <3>1. pc'[r] = "ok" /\ item'[r] = item[r]
      BY <2>3, <1>u DEF IngestInv, Typed
    <3>2. item[r] = Len(call[r].items)
      BY <2>3, <1>1
    <3> QED BY <2>3, <3>1, <3>2, <1>1, <1>3
  <2> QED BY <2>1, <2>2, <2>3
<1> QED BY <1>5, <1>6 DEF IngestInv

(* Detection, clean-up and expiry leave requests, readings and jobs alone. *)
LEMMA BackgroundFrame ==
    ASSUME [Next]_vars, ~\E r \in Reqs : Step(r)
    PROVE  UNCHANGED <<reqVars, readings, jobs>>
<1> USE DEF readVars
<1>1. CASE \E d \in Stored : Detect(d)
  <2>1. PICK d \in Stored : Detect(d)
    BY <1>1
  <2> QED BY <2>1 DEF Detect, ResolveThresholds, Evaluate, DetectGpsLoss, FlagReading, CreateAnomalies,
                      PushAlertJob, DetectionFails
<1>2. CASE CleanupResolvedAnomalies \/ CacheExpires \/ UNCHANGED vars
  BY <1>2 DEF CleanupResolvedAnomalies, CacheExpires, vars
<1> QED BY <1>1, <1>2 DEF Next

(* Every step keeps the invariant. *)
LEMMA IngestNext == IngestInv /\ [Next]_vars => IngestInv'
<1> SUFFICES ASSUME IngestInv, [Next]_vars PROVE IngestInv'
  OBVIOUS
<1>1. ASSUME NEW r \in Reqs, Step(r) PROVE IngestInv'
  BY <1>1, IngestMoves, OtherMoves, StoreOK, PushOK DEF Step
<1>2. CASE UNCHANGED <<reqVars, readings, jobs>>
  <2>1. Stored' = Stored /\ UNCHANGED <<call, pc, item, ship, readings, jobs>>
    BY <1>2 DEF reqVars, Stored
  <2>2. Typed'
    BY <2>1 DEF IngestInv, Typed
  <2>3. IngestOK'
    BY <2>1 DEF IngestInv, IngestOK, Kind, Id
  <2> QED BY <2>2, <2>3 DEF IngestInv
<1> QED BY <1>1, <1>2, BackgroundFrame

(* The invariant of the requests holds in every reachable state. *)
THEOREM IngestInvariance == Spec => []IngestInv
  BY IngestInit, IngestNext, PTL DEF Spec

(* A request that was answered with success has an anchor job for every    *)
(* reading it stored, whatever fails in between.                           *)
THEOREM QueueSound == Spec => []AcknowledgedIsQueued
<1>1. IngestInv => AcknowledgedIsQueued
  BY DEF IngestInv, IngestOK, AcknowledgedIsQueued, Ingest
<1> QED BY <1>1, IngestInvariance, PTL

-----------------------------------------------------------------------------
(* Detection and alerts. *)

(* An anomaly of the type is on record for the reading, or was until       *)
(* cleanup removed it.                                                     *)
OnRecord(d, t) ==
    \/ flag[d] = t
    \/ \E x \in anomalies : x.reading = d /\ x.type = t
    \/ \E x \in purged : x.reading = d /\ x.type = t /\ x.resolved

Entries(A, L, F) == [at : A, lim : L, found : F]

(* The records have their fields, whatever limits and types are in them. *)
Shapes ==
    /\ \E A, L, F : det \in [Ids -> Entries(A, L, F)]
    /\ \E T : flag \in [Ids -> T]
    /\ \E T : anomalies \subseteq [reading : Ids, type : T, resolved : BOOLEAN]

(* A detection starts once and has alerted of nothing before it has        *)
(* recorded; the webhook's finds one anomaly at most; what is left to      *)
(* alert of is on record.                                                  *)
DetectionOK ==
    \A d \in Ids :
        /\ det[d].at \notin {"alert", "done"} => \A a \in alerts : a.reading # d
        /\ det[d].at = "record" /\ ~FromBulk(d) => \E t : det[d].found = {t}
        /\ det[d].at = "alert" => \A t \in det[d].found : OnRecord(d, t)

(* Detection of an item starts when the handler is through with it. *)
Pending == {"guard", "resolve", "store", "invalidate", "push"}

FreshOK ==
    \A r \in Reqs : Kind(r) \in Ingest /\ pc[r] \in Pending =>
        \A d \in Ids : (d[1] = r /\ d[2] >= item[r]) => det[d].at = "none"

AlertInv ==
    /\ Shapes /\ DetectionOK /\ FreshOK
    /\ \A a \in alerts : a.reading \in Ids /\ OnRecord(a.reading, a.type)

(* Nothing is detected in the beginning. *)
LEMMA AlertInit == Init => AlertInv
<1> SUFFICES ASSUME Init PROVE AlertInv
  OBVIOUS
<1>1. Shapes
  <2>1. Quiet \in Entries({"none"}, {Defaults}, {{}})
    BY DEF Quiet, Entries
  <2>2. /\ det \in [Ids -> Entries({"none"}, {Defaults}, {{}})]
        /\ flag \in [Ids -> {None}] /\ anomalies = {}
    BY <2>1 DEF Init
  <2> QED BY <2>2, Zenon DEF Shapes
<1>2. DetectionOK
  BY DEF Init, DetectionOK, Quiet
<1>3. FreshOK
  BY DEF Init, FreshOK, Quiet
<1> QED BY <1>1, <1>2, <1>3 DEF Init, AlertInv

(* A reading that is stored has an id. *)
LEMMA StoredIds ==
    ASSUME IngestInv, NEW d \in Stored
    PROVE  d \in Ids
<1>1. PICK i \in DOMAIN readings : d = readings[i].id
  BY DEF Stored
<1>2. readings[i] \in Docs
  BY <1>1 DEF IngestInv, Typed
<1> QED BY <1>1, <1>2 DEF Docs

(* The entry of d comes to have a and f. *)
Becomes(d, a, f) ==
    /\ \E A, L, F : det' \in [Ids -> Entries(A, L, F)]
    /\ \A e \in Ids : e # d => det'[e] = det[e]
    /\ det'[d].at = a /\ det'[d].found = f

(* It does when it is replaced. *)
LEMMA Replaced ==
    ASSUME NEW A, NEW L, NEW F, det \in [Ids -> Entries(A, L, F)], NEW d \in Ids,
           NEW A2, NEW L2, NEW F2, NEW z \in Entries(A \union A2, L \union L2, F \union F2),
           det' = [det EXCEPT ![d] = z]
    PROVE  Becomes(d, z.at, z.found)
<1>1. Entries(A, L, F) \subseteq Entries(A \union A2, L \union L2, F \union F2)
  BY DEF Entries
<1>2. det' \in [Ids -> Entries(A \union A2, L \union L2, F \union F2)]
  BY <1>1
<1>3. \A e \in Ids : det'[e] = IF e = d THEN z ELSE det[e]
  OBVIOUS
<1>4. \E B, M, G : det' \in [Ids -> Entries(B, M, G)]
  BY <1>2
<1> QED BY <1>3, <1>4 DEF Becomes

(* The three updates that the detection makes. *)
LEMMA Updates ==
    ASSUME AlertInv, NEW d \in Ids, NEW a
    PROVE  /\ det' = [det EXCEPT ![d] = [det[d] EXCEPT !.at = a]] => Becomes(d, a, det[d].found)
           /\ \A m : det' = [det EXCEPT ![d] = [det[d] EXCEPT !.at = a, !.lim = m]]
                        => Becomes(d, a, det[d].found)
           /\ \A f : det' = [det EXCEPT ![d] = [det[d] EXCEPT !.at = a, !.found = f]]
                        => Becomes(d, a, f)
<1>1. PICK A, L, F : det \in [Ids -> Entries(A, L, F)]
  BY DEF AlertInv, Shapes
<1>2. PICK y \in Entries(A, L, F) : y = det[d]
  BY <1>1
<1>3. ASSUME NEW z, NEW A2, NEW L2, NEW F2, z \in Entries(A \union A2, L \union L2, F \union F2),
             det' = [det EXCEPT ![d] = z]
      PROVE  Becomes(d, z.at, z.found)
  BY <1>1, <1>3, Replaced
<1>4. ASSUME det' = [det EXCEPT ![d] = [det[d] EXCEPT !.at = a]]
      PROVE  Becomes(d, a, det[d].found)
  <2> DEFINE z == [y EXCEPT !.at = a]
  <2>1. z \in Entries(A \union {a}, L, F) /\ z.at = a /\ z.found = y.found
    BY DEF Entries
  <2>2. z \in Entries(A \union {a}, L \union {}, F \union {})
    <3> HIDE DEF z
    <3> QED BY <2>1
  <2>3. det' = [det EXCEPT ![d] = z]
    BY <1>4, <1>2
  <2> HIDE DEF z
  <2> QED BY <2>1, <2>2, <2>3, <1>2, <1>3
<1>5. ASSUME NEW m, det' = [det EXCEPT ![d] = [det[d] EXCEPT !.at = a, !.lim = m]]
      PROVE  Becomes(d, a, det[d].found)
  <2> DEFINE z == [y EXCEPT !.at = a, !.lim = m]
  <2>1. z \in Entries(A \union {a}, L \union {m}, F) /\ z.at = a /\ z.found = y.found
    BY DEF Entries
  <2>2. z \in Entries(A \union {a}, L \union {m}, F \union {})
    <3> HIDE DEF z
    <3> QED BY <2>1
  <2>3. det' = [det EXCEPT ![d] = z]
    BY <1>5, <1>2
  <2> HIDE DEF z
  <2> QED BY <2>1, <2>2, <2>3, <1>2, <1>3
<1>6. ASSUME NEW f, det' = [det EXCEPT ![d] = [det[d] EXCEPT !.at = a, !.found = f]]
      PROVE  Becomes(d, a, f)
  <2> DEFINE z == [y EXCEPT !.at = a, !.found = f]
  <2>1. z \in Entries(A \union {a}, L, F \union {f}) /\ z.at = a /\ z.found = f
    BY DEF Entries
  <2>2. z \in Entries(A \union {a}, L \union {}, F \union {f})
    <3> HIDE DEF z
    <3> QED BY <2>1
  <2>3. det' = [det EXCEPT ![d] = z]
    BY <1>6, <1>2
  <2> HIDE DEF z
  <2> QED BY <2>1, <2>2, <2>3, <1>2, <1>3
<1> QED BY <1>4, <1>5, <1>6

(* A detection goes to another entry; records are added to, and what it    *)
(* adds to the alerts is on record.                                        *)
LEMMA DetectionMoves ==
    ASSUME AlertInv, NEW d \in Ids, NEW a, NEW f, Becomes(d, a, f),
           UNCHANGED <<call, pc, item>>,
           det[d].at # "none",
           \E T : flag' \in [Ids -> T],
           \E T : anomalies' \subseteq [reading : Ids, type : T, resolved : BOOLEAN],
           \A e \in Ids : \A t : (e # d \/ det[d].at # "record") /\ OnRecord(e, t) => OnRecord(e, t)',
           \A x \in alerts' : x \in alerts \/ (x.reading = d /\ OnRecord(d, x.type)'),
           alerts' # alerts => a \in {"alert", "done"},
           a \notin {"alert", "done"} => det[d].at \notin {"alert", "done"},
           a = "record" /\ ~FromBulk(d) => \E t : f = {t},
           a = "alert" => \A t \in f : OnRecord(d, t)'
    PROVE  AlertInv'
<1>1. \A e \in Ids : e # d => det'[e] = det[e]
  BY DEF Becomes
<1>a. det'[d].at = a /\ det'[d].found = f
  BY DEF Becomes
<1>3. Shapes'
  BY DEF Becomes, Shapes
<1>b. \A x \in alerts : det[d].at = "record" => x.reading # d
  BY DEF AlertInv, DetectionOK
<1>c. \A x \in alerts' : x.reading \in Ids /\ OnRecord(x.reading, x.type)'
  BY <1>b DEF AlertInv
<1>4. DetectionOK'
  <2> SUFFICES ASSUME NEW e \in Ids
               PROVE  /\ det'[e].at \notin {"alert", "done"} => \A x \in alerts' : x.reading # e
                      /\ det'[e].at = "record" /\ ~FromBulk(e) => \E t : det'[e].found = {t}
                      /\ det'[e].at = "alert" => \A t \in det'[e].found : OnRecord(e, t)'
    BY DEF DetectionOK, FromBulk, Kind
  <2>1. CASE e = d
    <3>1. a \notin {"alert", "done"} => \A x \in alerts' : x.reading # d
      BY DEF AlertInv, DetectionOK
    <3> QED BY <2>1, <3>1, <1>a
  <2>2. CASE e # d
    <3>1. det'[e] = det[e]
      BY <2>2, <1>1
    <3>2. /\ det[e].at \notin {"alert", "done"} => \A x \in alerts : x.reading # e
          /\ det[e].at = "record" /\ ~FromBulk(e) => \E t : det[e].found = {t}
          /\ det[e].at = "alert" => \A t \in det[e].found : OnRecord(e, t)
      BY DEF AlertInv, DetectionOK
    <3>3. \A x \in alerts' : x.reading = e => x \in alerts
      BY <2>2
    <3>4. \A t : OnRecord(e, t) => OnRecord(e, t)'
      BY <2>2
    <3> QED BY <3>1, <3>2, <3>3, <3>4, Zenon
  <2> QED BY <2>1, <2>2
<1>5. FreshOK'
  <2> SUFFICES ASSUME NEW r \in Reqs, Kind(r) \in Ingest, pc[r] \in Pending,
                      NEW e \in Ids, e[1] = r, e[2] >= item[r]
               PROVE  det'[e].at = "none"
    BY DEF FreshOK, Kind
  <2>1. det[e].at = "none"
    BY DEF AlertInv, FreshOK
  <2> QED BY <2>1, <1>1
<1> QED BY <1>3, <1>4, <1>5, <1>c DEF AlertInv

(* Of several checks one at most is the first that holds. *)
LEMMA FirstIsOne ==
    ASSUME NEW c, DOMAIN c \subseteq Nat \ {0}
    PROVE  FirstOf(c) = {} \/ \E t : FirstOf(c) = {t}
<1> DEFINE First == {i \in DOMAIN c : c[i].holds /\ \A j \in 1..(i - 1) : ~c[j].holds}
<1>1. ASSUME NEW i \in First, NEW k \in First PROVE i = k
  <2>1. i \in Nat \ {0} /\ k \in Nat \ {0}
    OBVIOUS
  <2>2. ~(i < k) /\ ~(k < i)
    <3>1. i < k => i \in 1..(k - 1)
      BY <2>1
    <3>2. k < i => k \in 1..(i - 1)
      BY <2>1
    <3> QED BY <3>1, <3>2
  <2> QED BY <2>1, <2>2
<1>2. FirstOf(c) = {c[i].type : i \in First}
  BY DEF FirstOf
<1> HIDE DEF First
<1>3. CASE First = {}
  BY <1>2, <1>3
<1>4. ASSUME NEW i \in First PROVE FirstOf(c) = {c[i].type}
  BY <1>1, <1>2, <1>4
<1> QED BY <1>3, <1>4

(* The four checks of the webhook. *)
Checks(a, b, c, e) ==
    << [type |-> "TEMPERATURE_BREACH", holds |-> a], [type |-> "HUMIDITY_BREACH", holds |-> b],
       [type |-> "SHOCK_EVENT", holds |-> c], [type |-> "BATTERY_LOW", holds |-> e] >>

LEMMA ChecksFind ==
    ASSUME NEW a, NEW b, NEW c, NEW e
    PROVE  /\ DOMAIN Checks(a, b, c, e) \subseteq Nat \ {0}
           /\ "GPS_LOST" \notin FirstOf(Checks(a, b, c, e))
<1>1. DOMAIN Checks(a, b, c, e) = 1..4
  BY DEF Checks
<1>2. \A i \in 1..4 : Checks(a, b, c, e)[i].type # "GPS_LOST"
  BY DEF Checks
<1> QED BY <1>1, <1>2 DEF FirstOf

(* detectTelemetryAnomalies finds one breach at most, never a lost         *)
(* position.                                                               *)
LEMMA OneBreach ==
    ASSUME NEW x, NEW lim
    PROVE  LET g == DetectTelemetryAnomalies(x, lim)
           IN  (g = {} \/ \E t : g = {t}) /\ "GPS_LOST" \notin g
<1>1. PICK a, b, c, e : DetectTelemetryAnomalies(x, lim) = FirstOf(Checks(a, b, c, e))
  BY Zenon DEF DetectTelemetryAnomalies, Checks
<1> QED BY <1>1, ChecksFind, FirstIsOne

(* The searching part of a detection. *)
LEMMA SearchOK ==
    ASSUME AlertInv, NEW d \in Ids,
           ResolveThresholds(d) \/ Evaluate(d) \/ DetectGpsLoss(d) \/ DetectionFails(d)
    PROVE  AlertInv'
<1>u. UNCHANGED <<call, pc, item, flag, anomalies, purged, alerts>>
  BY DEF ResolveThresholds, Evaluate, DetectGpsLoss, DetectionFails, reqVars, readVars
<1>v. /\ \E T : flag' \in [Ids -> T]
      /\ \E T : anomalies' \subseteq [reading : Ids, type : T, resolved : BOOLEAN]
      /\ \A e \in Ids : \A t : OnRecord(e, t) => OnRecord(e, t)'
  BY <1>u DEF AlertInv, Shapes, OnRecord
<1>w. ASSUME NEW a, NEW f, Becomes(d, a, f), det[d].at # "none", a # "alert",
             a = "done" \/ det[d].at \notin {"alert", "done"},
             a = "record" /\ ~FromBulk(d) => \E t : f = {t}
      PROVE  AlertInv'
  BY <1>u, <1>v, <1>w, DetectionMoves
<1>1. CASE ResolveThresholds(d)
  <2>1. /\ det[d].at \in {"limits", "fallback"}
        /\ \E m : \/ det' = [det EXCEPT ![d] = [det[d] EXCEPT !.at = "fallback"]]
                  \/ det' = [det EXCEPT ![d] = [det[d] EXCEPT !.at = "evaluate", !.lim = m]]
    BY <1>1, Zenon DEF ResolveThresholds
  <2>2. \E a \in {"fallback", "evaluate"} : Becomes(d, a, det[d].found)
    BY <2>1, Updates
  <2> QED BY <2>1, <2>2, <1>w
<1>2. CASE Evaluate(d)
  <2> DEFINE g == IF FromBulk(d) THEN EvaluateTelemetry(Doc(d), det[d].lim)
                  ELSE DetectTelemetryAnomalies(Doc(d), det[d].lim)
             l == CASE g # {} -> "record"
                    [] g = {} /\ FromBulk(d) -> "done"
                    [] OTHER -> "gps"
  <2>1. ~FromBulk(d) => g = {} \/ \E t : g = {t}
    BY OneBreach, Zenon
  <2>2. det' = [det EXCEPT ![d] = [det[d] EXCEPT !.at = l, !.found = g]]
    BY <1>2, Zenon DEF Evaluate
  <2>3. (g # {} /\ l = "record") \/ l = "done" \/ l = "gps"
    BY Zenon
  <2>4. det[d].at = "evaluate"
    BY <1>2 DEF Evaluate
  <2> HIDE DEF g, l
  <2>5. Becomes(d, l, g)
    BY <2>2, Updates
  <2> QED BY <2>1, <2>3, <2>4, <2>5, <1>w
<1>3. CASE DetectGpsLoss(d)
  <2>1. /\ det[d].at = "gps"
        /\ \/ det' = [det EXCEPT ![d] = [det[d] EXCEPT !.at = "record", !.found = {"GPS_LOST"}]]
           \/ det' = [det EXCEPT ![d] = [det[d] EXCEPT !.at = "done"]]
    BY <1>3, Zenon DEF DetectGpsLoss
  <2>2. Becomes(d, "record", {"GPS_LOST"}) \/ Becomes(d, "done", det[d].found)
    BY <2>1, Updates
  <2> QED BY <2>1, <2>2, <1>w
<1>4. CASE DetectionFails(d)
  <2>1. det[d].at # "none" /\ det' = [det EXCEPT ![d] = [det[d] EXCEPT !.at = "done"]]
    BY <1>4 DEF DetectionFails
  <2>2. Becomes(d, "done", det[d].found)
    BY <2>1, Updates
  <2> QED BY <2>1, <2>2, <1>w
<1> QED BY <1>1, <1>2, <1>3, <1>4

(* The webhook's detection writes the flags of its reading, which has      *)
(* alerted nobody so far.                                                  *)
LEMMA FlagOK ==
    ASSUME AlertInv, NEW d \in Ids, FlagReading(d)
    PROVE  AlertInv'
<1>u. /\ det[d].at = "record" /\ ~FromBulk(d)
      /\ flag' = [flag EXCEPT ![d] = CHOOSE t \in det[d].found : TRUE]
      /\ UNCHANGED <<call, pc, item, anomalies, purged, alerts>>
  BY DEF FlagReading, reqVars
<1>1. PICK t : det[d].found = {t}
  BY <1>u DEF AlertInv, DetectionOK
<1>2. (CHOOSE x \in det[d].found : TRUE) = t
  BY <1>1
<1>3. PICK T : flag \in [Ids -> T]
  BY DEF AlertInv, Shapes
<1>4. flag' = [flag EXCEPT ![d] = t]
  BY <1>u, <1>2
<1>5. flag' \in [Ids -> T \union {t}] /\ flag'[d] = t /\ \A e \in Ids : e # d => flag'[e] = flag[e]
  BY <1>3, <1>4
<1>6. \A e \in Ids : \A x : e # d /\ OnRecord(e, x) => OnRecord(e, x)'
  BY <1>5, <1>u DEF OnRecord
<1>7. Becomes(d, "alert", det[d].found)
  <2>1. det' = [det EXCEPT ![d] = [det[d] EXCEPT !.at = "alert"]]
    BY DEF FlagReading
  <2> QED BY <2>1, Updates
<1>8. \A x \in det[d].found : OnRecord(d, x)'
  BY <1>1, <1>5 DEF OnRecord
<1>9. \E S : anomalies' \subseteq [reading : Ids, type : S, resolved : BOOLEAN]
  BY <1>u DEF AlertInv, Shapes
<1> QED BY <1>u, <1>5, <1>6, <1>7, <1>8, <1>9, DetectionMoves

(* detectAnomaly alerts only when every document was written. *)
LEMMA CreateOK ==
    ASSUME AlertInv, NEW d \in Ids, CreateAnomalies(d)
    PROVE  AlertInv'
<1>u. /\ det[d].at = "record" /\ UNCHANGED <<call, pc, item, flag, purged, alerts>> /\ FromBulk(d)
  BY DEF CreateAnomalies, reqVars, readVars
<1>1. PICK some \in SUBSET det[d].found :
          /\ anomalies' = anomalies \union {Anomaly(d, t) : t \in some}
          /\ det' = [det EXCEPT ![d] = [det[d] EXCEPT !.at = IF some = det[d].found THEN "alert" ELSE "done"]]
  BY DEF CreateAnomalies
<1>2. \E a \in {"alert", "done"} : Becomes(d, a, det[d].found) /\ (a = "alert" => some = det[d].found)
  <2>1. CASE some = det[d].found
    <3>1. det' = [det EXCEPT ![d] = [det[d] EXCEPT !.at = "alert"]]
      BY <1>1, <2>1
    <3> QED BY <2>1, <3>1, Updates
  <2>2. CASE some # det[d].found
    <3>1. det' = [det EXCEPT ![d] = [det[d] EXCEPT !.at = "done"]]
      BY <1>1, <2>2
    <3> QED BY <3>1, Updates
  <2> QED BY <2>1, <2>2
<1>3. PICK T : anomalies \subseteq [reading : Ids, type : T, resolved : BOOLEAN]
  BY DEF AlertInv, Shapes
<1>4. anomalies' \subseteq [reading : Ids, type : T \union some, resolved : BOOLEAN]
  <2> DEFINE R == [reading : Ids, type : T \union some, resolved : BOOLEAN]
  <2>1. [reading : Ids, type : T, resolved : BOOLEAN] \subseteq R
    OBVIOUS
  <2>2. \A t \in some : Anomaly(d, t) \in R
    BY DEF Anomaly
  <2> HIDE DEF R
  <2> QED BY <1>1, <1>3, <2>1, <2>2 DEF R
<1>5. \A e \in Ids : \A x : OnRecord(e, x) => OnRecord(e, x)'
  BY <1>u, <1>1 DEF OnRecord
<1>6. \A x \in some : OnRecord(d, x)'
  <2> SUFFICES ASSUME NEW x \in some PROVE \E y \in anomalies' : y.reading = d /\ y.type = x
    BY DEF OnRecord
  <2>1. Anomaly(d, x) \in anomalies' /\ Anomaly(d, x).reading = d /\ Anomaly(d, x).type = x
    BY <1>1 DEF Anomaly
  <2> QED BY <2>1
<1>7. \E S : flag' \in [Ids -> S]
  BY <1>u DEF AlertInv, Shapes
<1> QED BY <1>u, <1>2, <1>4, <1>5, <1>6, <1>7, DetectionMoves

(* pushAlertJob takes one of what is on record. *)
LEMMA AlertOK ==
    ASSUME AlertInv, NEW d \in Ids, PushAlertJob(d)
    PROVE  AlertInv'
<1>u. det[d].at = "alert" /\ UNCHANGED <<call, pc, item, flag, anomalies, purged>>
  BY DEF PushAlertJob, reqVars, readVars
<1>1. PICK t \in det[d].found :
          /\ alerts' = alerts \union {[reading |-> d, type |-> t]}
          /\ det' = [det EXCEPT ![d] = [det[d] EXCEPT !.at = IF det[d].found = {t} THEN "done" ELSE "alert",
                                                      !.found = det[d].found \ {t}]]
  BY Zenon DEF PushAlertJob
<1>2. \E a \in {"alert", "done"} : Becomes(d, a, det[d].found \ {t})
  BY <1>u, <1>1, Updates
<1>3. \A e \in Ids : \A x : OnRecord(e, x) => OnRecord(e, x)'
  BY <1>u DEF OnRecord
<1>4. \A x \in det[d].found : OnRecord(d, x)'
  BY <1>u, <1>3 DEF AlertInv, DetectionOK
<1>5. \A x \in alerts' : x \in alerts \/ (x.reading = d /\ OnRecord(d, x.type)')
  BY <1>1, <1>4
<1>6. /\ \E T : flag' \in [Ids -> T]
      /\ \E T : anomalies' \subseteq [reading : Ids, type : T, resolved : BOOLEAN]
  BY <1>u DEF AlertInv, Shapes
<1> QED BY <1>u, <1>2, <1>3, <1>4, <1>5, <1>6, DetectionMoves

(* An administrator resolves an anomaly, and cleanup removes resolved      *)
(* ones.                                                                   *)
LEMMA ResolvedStay ==
    ASSUME AlertInv,
           (\E r \in Reqs : ResolveAnomaly(r)) \/ CleanupResolvedAnomalies
    PROVE  /\ \E T : anomalies' \subseteq [reading : Ids, type : T, resolved : BOOLEAN]
           /\ \A e \in Ids : \A t : OnRecord(e, t) => OnRecord(e, t)'
<1>1. PICK T : anomalies \subseteq [reading : Ids, type : T, resolved : BOOLEAN]
  BY DEF AlertInv, Shapes
<1>2. CASE \E r \in Reqs : ResolveAnomaly(r)
  <2>1. PICK hit \in SUBSET anomalies :
            /\ anomalies' = (anomalies \ hit) \union {[a EXCEPT !.resolved = TRUE] : a \in hit}
            /\ UNCHANGED <<flag, purged>>
    BY <1>2 DEF ResolveAnomaly, readVars
  <2>2. \A a \in hit : LET b == [a EXCEPT !.resolved = TRUE]
                       IN  /\ b \in [reading : Ids, type : T, resolved : BOOLEAN]
                           /\ b.reading = a.reading /\ b.type = a.type
    BY <1>1
  <2>3. \A a \in anomalies : \E b \in anomalies' : b.reading = a.reading /\ b.type = a.type
    BY <2>1, <2>2, Zenon
  <2>4. anomalies' \subseteq [reading : Ids, type : T, resolved : BOOLEAN]
    BY <1>1, <2>1, <2>2
  <2>5. ASSUME NEW e \in Ids, NEW t, OnRecord(e, t) PROVE OnRecord(e, t)'
    <3>1. CASE flag[e] = t \/ \E x \in purged : x.reading = e /\ x.type = t /\ x.resolved
      BY <3>1, <2>1 DEF OnRecord
    <3>2. CASE \E x \in anomalies : x.reading = e /\ x.type = t
      <4>1. PICK x \in anomalies : x.reading = e /\ x.type = t
        BY <3>2
      <4>2. PICK b \in anomalies' : b.reading = x.reading /\ b.type = x.type
        BY <2>3
      <4> QED BY <4>1, <4>2 DEF OnRecord
    <3> QED BY <2>5, <3>1, <3>2 DEF OnRecord
  <2> QED BY <2>4, <2>5
<1>3. CASE CleanupResolvedAnomalies
  <2>1. PICK old \in SUBSET Due :
            anomalies' = anomalies \ old /\ purged' = purged \union old /\ flag' = flag
    BY <1>3 DEF CleanupResolvedAnomalies, readVars
  <2>2. \A a \in anomalies : a \in anomalies' \/ (a \in purged' /\ a.resolved)
    BY <2>1 DEF Due
  <2>3. \A a \in purged : a \in purged'
    BY <2>1
  <2>4. anomalies' \subseteq anomalies /\ flag' = flag
    BY <2>1
  <2> QED BY <1>1, <2>2, <2>3, <2>4 DEF OnRecord
<1> QED BY <1>2, <1>3

(* A step that leaves detections, flags and alerts alone, and requests     *)
(* that still have to store or push where they are or further on.          *)
LEMMA AlertFrame ==
    ASSUME AlertInv, UNCHANGED <<call, det, flag, alerts>>,
           \E T : anomalies' \subseteq [reading : Ids, type : T, resolved : BOOLEAN],
           \A e \in Ids : \A t : OnRecord(e, t) => OnRecord(e, t)',
           FreshOK'
    PROVE  AlertInv'
<1>1. Shapes'
  BY DEF AlertInv, Shapes
<1>2. DetectionOK'
  <2> SUFFICES ASSUME NEW e \in Ids
               PROVE  /\ det[e].at \notin {"alert", "done"} => \A x \in alerts : x.reading # e
                      /\ det[e].at = "record" /\ ~FromBulk(e) => \E t : det[e].found = {t}
                      /\ det[e].at = "alert" => \A t \in det[e].found : OnRecord(e, t)'
    BY DEF DetectionOK, FromBulk, Kind
  <2> QED BY DEF AlertInv, DetectionOK
<1>3. \A x \in alerts' : x.reading \in Ids /\ OnRecord(x.reading, x.type)'
  BY DEF AlertInv
<1> QED BY <1>1, <1>2, <1>3 DEF AlertInv

(* Requests take no detection back, and none begins one it was through    *)
(* with.                                                                   *)
LEMMA FreshKept ==
    ASSUME IngestInv, AlertInv, NEW r \in Reqs, NEW l, Goto(r, l), UNCHANGED <<call, item, det>>,
           Kind(r) \in Ingest /\ l \in Pending => pc[r] \in Pending
    PROVE  FreshOK'
<1>1. \A x \in Reqs : x # r => pc'[x] = pc[x]
  BY DEF Goto, IngestInv, Typed
<1>2. pc'[r] = l
  BY DEF Goto, IngestInv, Typed
<1> QED BY <1>1, <1>2 DEF AlertInv, FreshOK, Kind

(* The steps of requests that start no detection. *)
LEMMA RequestOK ==
    ASSUME IngestInv, AlertInv, NEW r \in Reqs, Step(r), ~PushStellarAnchorJob(r)
    PROVE  AlertInv'
<1> DEFINE Quietly == /\ UNCHANGED <<call, item, det, flag, alerts>>
                      /\ ~ResolveAnomaly(r) => UNCHANGED <<anomalies, purged>>
                      /\ \E l : Goto(r, l) /\ (Kind(r) \in Ingest /\ l \in Pending => pc[r] \in Pending)
<1>q. Quietly
  <2> USE DEF readVars, anomVars
  <2>0. Kind(r) \in Ingest => pc[r] \in Pending \union {"ok", "error"}
    BY DEF IngestInv, IngestOK, Pending
  <2>1. CASE Guard(r) \/ FindActiveShipmentBySensorId(r) \/ CreateTelemetryRecord(r)
    <3>1. pc[r] \in Pending
      BY <2>1 DEF Guard, FindActiveShipmentBySensorId, CreateTelemetryRecord, Pending
    <3>2. \E l : Goto(r, l)
      BY <2>1, Zenon DEF Guard, FindActiveShipmentBySensorId, CreateTelemetryRecord
    <3>3. UNCHANGED <<call, item, det, flag, alerts, anomalies, purged>>
      BY <2>1 DEF Guard, FindActiveShipmentBySensorId, CreateTelemetryRecord
    <3> QED BY <3>1, <3>2, <3>3
  <2>2. CASE InvalidateAfterIngest(r) \/ Fail(r)
    BY <2>2 DEF InvalidateAfterIngest, Fail, Pending
  <2>3. CASE GetThresholds(r) \/ UpdateThresholds(r) \/ ResolveAnomaly(r)
    BY <2>0, <2>3 DEF GetThresholds, UpdateThresholds, ResolveAnomaly, Pending
  <2>4. CASE ReadStatsCache(r) \/ CountAnomalies(r) \/ WriteStatsCache(r)
    BY <2>0, <2>4 DEF ReadStatsCache, CountAnomalies, WriteStatsCache, Pending
  <2>5. CASE ReadShipmentEtaCache(r) \/ FindEtaShipment(r) \/ ReadPoints(r) \/ WriteShipmentEtaCache(r)
    BY <2>0, <2>5 DEF ReadShipmentEtaCache, FindEtaShipment, ReadPoints, WriteShipmentEtaCache, Pending
  <2>6. CASE MoveShipment(r) \/ InvalidateAfterMove(r)
    BY <2>0, <2>6 DEF MoveShipment, InvalidateAfterMove, Pending, Ingest
  <2> QED BY <2>1, <2>2, <2>3, <2>4, <2>5, <2>6 DEF Step
<1>1. UNCHANGED <<call, item, det, flag, alerts>>
  BY <1>q
<1>2. \E l : Goto(r, l) /\ (Kind(r) \in Ingest /\ l \in Pending => pc[r] \in Pending)
  BY <1>q
<1>3. FreshOK'
  BY <1>1, <1>2, FreshKept
<1>4. CASE ResolveAnomaly(r)
  BY <1>1, <1>3, <1>4, ResolvedStay, AlertFrame
<1>5. CASE ~ResolveAnomaly(r)
  <2>1. UNCHANGED <<anomalies, purged>>
    BY <1>5, <1>q
  <2>2. /\ \E T : anomalies' \subseteq [reading : Ids, type : T, resolved : BOOLEAN]
        /\ \A e \in Ids : \A t : OnRecord(e, t) => OnRecord(e, t)'
    BY <2>1, <1>1 DEF AlertInv, Shapes, OnRecord
  <2> QED BY <1>1, <1>3, <2>2, AlertFrame
<1> QED BY <1>4, <1>5

(* A push starts the detection of the item it queued. *)
LEMMA StartOK ==
    ASSUME IngestInv, AlertInv, NEW r \in Reqs, PushStellarAnchorJob(r)
    PROVE  AlertInv'
<1>u. /\ pc[r] = "push" /\ UNCHANGED <<call, flag, anomalies, purged, alerts>>
      /\ det' = [det EXCEPT ![Id(r)] = [det[Id(r)] EXCEPT !.at = "limits"]]
  BY DEF PushStellarAnchorJob
<1>k. /\ Kind(r) \in Ingest /\ Id(r) \in Ids /\ item[r] \in Nat
      /\ item \in [Reqs -> Nat] /\ Id(r) = <<r, item[r]>>
  <2>1. Kind(r) \in Ingest /\ item \in [Reqs -> Nat]
    BY <1>u DEF IngestInv, IngestOK, Typed
  <2> QED BY <2>1, ItemOK DEF Id
<1>1. Becomes(Id(r), "limits", det[Id(r)].found)
  BY <1>u, <1>k, Updates
<1>2. /\ det'[Id(r)].at = "limits"
      /\ \A e \in Ids : e # Id(r) => det'[e] = det[e]
  BY <1>1 DEF Becomes
<1>3. det[Id(r)].at = "none"
  <2>1. Id(r)[1] = r /\ Id(r)[2] >= item[r]
    BY <1>k
  <2> QED BY <2>1, <1>u, <1>k DEF AlertInv, FreshOK, Pending
<1>4. \A x \in alerts : x.reading # Id(r)
  BY <1>3, <1>k DEF AlertInv, DetectionOK
<1>5. \A e, t : OnRecord(e, t) => OnRecord(e, t)'
  BY <1>u DEF OnRecord
<1>6. Shapes'
  <2>1. /\ (\E T : flag \in [Ids -> T])'
        /\ (\E T : anomalies \subseteq [reading : Ids, type : T, resolved : BOOLEAN])'
    BY <1>u DEF AlertInv, Shapes
  <2> QED BY <1>1, <2>1 DEF Becomes, Shapes
<1>7. DetectionOK'
  <2> SUFFICES ASSUME NEW e \in Ids
               PROVE  /\ det'[e].at \notin {"alert", "done"} => \A x \in alerts : x.reading # e
                      /\ det'[e].at = "record" /\ ~FromBulk(e) => \E t : det'[e].found = {t}
                      /\ det'[e].at = "alert" => \A t \in det'[e].found : OnRecord(e, t)'
    BY <1>u DEF DetectionOK, FromBulk, Kind
  <2>1. CASE e = Id(r)
    BY <2>1, <1>2, <1>4
  <2>2. CASE e # Id(r)
    <3>1. det'[e] = det[e]
      BY <2>2, <1>2
    <3>2. /\ det[e].at \notin {"alert", "done"} => \A x \in alerts : x.reading # e
          /\ det[e].at = "record" /\ ~FromBulk(e) => \E t : det[e].found = {t}
          /\ det[e].at = "alert" => \A t \in det[e].found : OnRecord(e, t)
      BY DEF AlertInv, DetectionOK
    <3> QED BY <3>1, <3>2, <1>5, Zenon
  <2> QED BY <2>1, <2>2
<1>8. FreshOK'
  <2> SUFFICES ASSUME NEW x \in Reqs, Kind(x) \in Ingest, pc'[x] \in Pending,
                      NEW e \in Ids, e[1] = x, e[2] >= item'[x]
               PROVE  det'[e].at = "none"
    BY <1>u DEF FreshOK, Kind
  <2>1. CASE x # r
    <3>1. pc'[x] = pc[x] /\ item'[x] = item[x]
      BY <2>1 DEF PushStellarAnchorJob, Goto, IngestInv, Typed
    <3>2. e # Id(r)
      BY <2>1, <1>k
    <3> QED BY <3>1, <3>2, <1>2 DEF AlertInv, FreshOK
  <2>2. CASE x = r
    <3>1. item'[r] = item[r] + 1
      <4>1. pc'[r] = "ok" \/ item' = [item EXCEPT ![r] = item[r] + 1]
        BY DEF PushStellarAnchorJob, Goto, IngestInv, Typed
      <4> QED BY <2>2, <4>1, <1>k DEF Pending
    <3>2. e \in Reqs \X (1..MaxItems) /\ MaxItems \in Nat
      BY IngestAssumption DEF Ids
    <3>3. e[2] \in Nat /\ e[2] >= item[r] + 1
      BY <2>2, <3>1, <3>2
    <3>4. e # Id(r) /\ e[2] >= item[r]
      BY <3>3, <1>k
    <3> QED BY <2>2, <3>4, <1>2, <1>u, <1>k DEF AlertInv, FreshOK, Pending
  <2> QED BY <2>1, <2>2
<1>9. \A x \in alerts' : x.reading \in Ids /\ OnRecord(x.reading, x.type)'
  BY <1>u, <1>5 DEF AlertInv
<1> QED BY <1>6, <1>7, <1>8, <1>9 DEF AlertInv

(* Cleanup and expiry start and alert nothing. *)
LEMMA UpkeepOK ==
    ASSUME AlertInv, CleanupResolvedAnomalies \/ CacheExpires \/ UNCHANGED vars
    PROVE  AlertInv'
<1>1. UNCHANGED <<call, pc, item, det, flag, alerts>>
  BY DEF CleanupResolvedAnomalies, CacheExpires, vars, reqVars, readVars, anomVars
<1>2. FreshOK'
  BY <1>1 DEF AlertInv, FreshOK, Kind
<1>3. CASE CleanupResolvedAnomalies
  BY <1>1, <1>2, <1>3, ResolvedStay, AlertFrame
<1>4. CASE CacheExpires \/ UNCHANGED vars
  <2>1. UNCHANGED <<anomalies, purged>>
    BY <1>4 DEF CacheExpires, vars, anomVars
  <2>2. /\ \E T : anomalies' \subseteq [reading : Ids, type : T, resolved : BOOLEAN]
        /\ \A e \in Ids : \A t : OnRecord(e, t) => OnRecord(e, t)'
    BY <2>1, <1>1 DEF AlertInv, Shapes, OnRecord
  <2> QED BY <1>1, <1>2, <2>2, AlertFrame
<1> QED BY <1>3, <1>4

(* Every step keeps the invariant of the alerts. *)
LEMMA AlertNext == IngestInv /\ AlertInv /\ [Next]_vars => AlertInv'
<1> SUFFICES ASSUME IngestInv, AlertInv, [Next]_vars PROVE AlertInv'
  OBVIOUS
<1>1. ASSUME NEW r \in Reqs, Step(r) PROVE AlertInv'
  BY <1>1, RequestOK, StartOK
<1>2. ASSUME NEW d \in Stored, Detect(d) PROVE AlertInv'
  <2>1. d \in Ids
    BY StoredIds
  <2> QED BY <1>2, <2>1, SearchOK, FlagOK, CreateOK, AlertOK DEF Detect
<1>3. CASE CleanupResolvedAnomalies \/ CacheExpires \/ UNCHANGED vars
  BY <1>3, UpkeepOK
<1> QED BY <1>1, <1>2, <1>3 DEF Next

(* Nobody is alerted of what is recorded nowhere: the flags or the         *)
(* documents are written before the first alert of a reading, and cleanup  *)
(* removes only what was resolved.                                         *)
THEOREM AlertSound == Spec => []AlertIsRecorded
<1>1. AlertInv => AlertIsRecorded
  BY DEF AlertInv, OnRecord, AlertIsRecorded
<1> QED BY <1>1, IngestInvariance, AlertInit, AlertNext, PTL DEF Spec

-----------------------------------------------------------------------------
(* Lost positions. *)

(* Three of the readings R of a shipment, two of them without a position. *)
StreakIn(R, s) ==
    \E i, j, k \in DOMAIN R :
        /\ i # j /\ j # k /\ i # k
        /\ R[i].shipment = s /\ R[j].shipment = s /\ R[k].shipment = s
        /\ ~R[i].gps /\ ~R[j].gps

Streak(s) == StreakIn(readings, s)

(* The reading carries GPS_LOST or is about to. *)
Suspect(d) ==
    \/ flag[d] = "GPS_LOST"
    \/ det[d].at = "record" /\ ~FromBulk(d) /\ "GPS_LOST" \in det[d].found

StreakOK ==
    \A d \in Ids : Suspect(d) => \E i \in DOMAIN readings : readings[i].id = d /\ Streak(readings[i].shipment)

(* A handler stores each of its items once, one after the other, so that   *)
(* the id of a reading names one document.                                 *)
UniqueIds == \A i, j \in DOMAIN readings : readings[i].id = readings[j].id => i = j

InTurn ==
    \A r \in Reqs : Kind(r) \in Ingest /\ pc[r] \in Pending =>
        \A d \in Stored : d[1] = r =>
            d[2] < item[r] \/ (d[2] = item[r] /\ pc[r] \in {"invalidate", "push"})

GpsInv == UniqueIds /\ InTurn /\ StreakOK

(* What the steps of a request do that neither store nor queue. *)
LEMMA RequestMoves ==
    ASSUME IngestInv, NEW r \in Reqs, Step(r), ~CreateTelemetryRecord(r), ~PushStellarAnchorJob(r)
    PROVE  /\ UNCHANGED <<call, item, readings, det, flag>>
           /\ \E l : /\ Goto(r, l)
                     /\ Kind(r) \in Ingest /\ l \in Pending =>
                           /\ pc[r] \in Pending
                           /\ pc[r] \in {"invalidate", "push"} => l \in {"invalidate", "push"}
<1> USE DEF readVars, anomVars
<1>0. Kind(r) \in Ingest => pc[r] \in Pending \union {"ok", "error"}
  BY DEF IngestInv, IngestOK, Pending
<1>1. CASE Guard(r) \/ FindActiveShipmentBySensorId(r)
  <2>1. pc[r] \in Pending /\ pc[r] \notin {"invalidate", "push"}
    BY <1>1 DEF Guard, FindActiveShipmentBySensorId, Pending
  <2>2. \E l : Goto(r, l)
    BY <1>1, Zenon DEF Guard, FindActiveShipmentBySensorId
  <2>3. UNCHANGED <<call, item, readings, det, flag>>
    BY <1>1 DEF Guard, FindActiveShipmentBySensorId
  <2> QED BY <2>1, <2>2, <2>3
<1>2. CASE InvalidateAfterIngest(r) \/ Fail(r)
  BY <1>2 DEF InvalidateAfterIngest, Fail, Pending
<1>3. CASE GetThresholds(r) \/ UpdateThresholds(r) \/ ResolveAnomaly(r)
  BY <1>0, <1>3 DEF GetThresholds, UpdateThresholds, ResolveAnomaly, Pending
<1>4. CASE ReadStatsCache(r) \/ CountAnomalies(r) \/ WriteStatsCache(r)
  BY <1>0, <1>4 DEF ReadStatsCache, CountAnomalies, WriteStatsCache, Pending
<1>5. CASE ReadShipmentEtaCache(r) \/ FindEtaShipment(r) \/ ReadPoints(r) \/ WriteShipmentEtaCache(r)
  BY <1>0, <1>5 DEF ReadShipmentEtaCache, FindEtaShipment, ReadPoints, WriteShipmentEtaCache, Pending
<1>6. CASE MoveShipment(r) \/ InvalidateAfterMove(r)
  BY <1>0, <1>6 DEF MoveShipment, InvalidateAfterMove, Pending, Ingest
<1> QED BY <1>1, <1>2, <1>3, <1>4, <1>5, <1>6 DEF Step

(* Such a step keeps the turns. *)
LEMMA TurnKept ==
    ASSUME IngestInv, InTurn, NEW r \in Reqs, NEW l, Goto(r, l), UNCHANGED <<call, item, readings>>,
           Kind(r) \in Ingest /\ l \in Pending =>
               /\ pc[r] \in Pending
               /\ pc[r] \in {"invalidate", "push"} => l \in {"invalidate", "push"}
    PROVE  InTurn'
<1>1. \A x \in Reqs : pc'[x] = IF x = r THEN l ELSE pc[x]
  BY DEF Goto, IngestInv, Typed
<1>2. Stored' = Stored
  BY DEF Stored
<1> QED BY <1>1, <1>2 DEF InTurn, Kind

(* A reading more takes nothing from a streak. *)
LEMMA StreakGrows ==
    ASSUME IngestInv, NEW x \in Docs, readings' = Append(readings, x)
    PROVE  /\ \A i \in DOMAIN readings : i \in DOMAIN readings' /\ readings'[i] = readings[i]
           /\ \A i \in DOMAIN readings' : i \in DOMAIN readings \/ (i = Len(readings) + 1 /\ readings'[i] = x)
           /\ \A s : StreakIn(readings, s) => StreakIn(readings', s)
<1>1. readings \in Seq(Docs)
  BY DEF IngestInv, Typed
<1>2. /\ \A i \in DOMAIN readings : i \in DOMAIN readings' /\ readings'[i] = readings[i]
      /\ \A i \in DOMAIN readings' : i \in DOMAIN readings \/ (i = Len(readings) + 1 /\ readings'[i] = x)
  BY <1>1
<1>3. ASSUME NEW s, StreakIn(readings, s) PROVE StreakIn(readings', s)
  <2>1. PICK i, j, k \in DOMAIN readings :
            /\ i # j /\ j # k /\ i # k
            /\ readings[i].shipment = s /\ readings[j].shipment = s /\ readings[k].shipment = s
            /\ ~readings[i].gps /\ ~readings[j].gps
    BY <1>3 DEF StreakIn
  <2>2. /\ i \in DOMAIN readings' /\ j \in DOMAIN readings' /\ k \in DOMAIN readings'
        /\ readings'[i] = readings[i] /\ readings'[j] = readings[j] /\ readings'[k] = readings[k]
    BY <1>2
  <2> QED BY <2>1, <2>2 DEF StreakIn
<1> QED BY <1>2, <1>3

(* createTelemetryRecord stores an id that is new. *)
LEMMA GpsStore ==
    ASSUME IngestInv, GpsInv, NEW r \in Reqs, CreateTelemetryRecord(r)
    PROVE  GpsInv'
<1>u. /\ pc[r] = "store" /\ readings' = Append(readings, Document(r))
      /\ UNCHANGED <<call, item, det, flag>>
      /\ \E l \in {"invalidate", "push"} : pc' = [pc EXCEPT ![r] = l]
  BY DEF CreateTelemetryRecord, Goto, anomVars
<1>1. Kind(r) \in Ingest
  BY <1>u DEF IngestInv, IngestOK
<1>2. Document(r) \in Docs /\ Document(r).id = Id(r) /\ Id(r) \in Ids
  <2>1. Reading(r) \in Items /\ Id(r) \in Ids /\ ship[r] \in Shipments \union {None}
    BY <1>1, ItemOK DEF IngestInv, Typed
  <2>2. Normalized(Reading(r)) \in [shipment : Shipments \union {None}, temp : Int, hum : Int,
                                    bat : Int, shock : Int, gps : BOOLEAN, ts : Int]
    BY <2>1 DEF Normalized, Items
  <2> QED BY <2>1, <2>2 DEF Document, Docs
<1>3. PICK x \in Docs : x = Document(r) /\ readings' = Append(readings, x) /\ x.id = Id(r)
  BY <1>u, <1>2
<1>4. Stored' = Stored \union {Id(r)} /\ readings \in Seq(Docs)
  BY <1>3, StoredGrows DEF IngestInv, Typed
<1>5. Id(r) \notin Stored
  <2>1. \A d \in Stored : d[1] = r => d[2] < item[r]
    BY <1>1, <1>u DEF GpsInv, InTurn, Pending
  <2>2. item[r] \in Nat /\ Id(r)[1] = r /\ Id(r)[2] = item[r]
    BY DEF IngestInv, Typed, Id
  <2>3. ~(item[r] < item[r])
    BY <2>2
  <2> QED BY <2>1, <2>2, <2>3
<1>6. /\ \A i \in DOMAIN readings : i \in DOMAIN readings' /\ readings'[i] = readings[i]
      /\ \A i \in DOMAIN readings' : i \in DOMAIN readings \/ (i = Len(readings) + 1 /\ readings'[i] = x)
      /\ \A s : StreakIn(readings, s) => StreakIn(readings', s)
  BY <1>3, StreakGrows
<1>7. UniqueIds'
  <2>1. \A i \in DOMAIN readings : readings[i].id # x.id
    BY <1>3, <1>5 DEF Stored
  <2> QED BY <1>6, <2>1 DEF GpsInv, UniqueIds
<1>8. InTurn'
  <2>1. PICK l \in {"invalidate", "push"} : pc' = [pc EXCEPT ![r] = l]
    BY <1>u
  <2>2. \A y \in Reqs : pc'[y] = IF y = r THEN l ELSE pc[y]
    BY <2>1 DEF IngestInv, Typed
  <2>3. Id(r)[1] = r /\ Id(r)[2] = item[r]
    BY DEF Id
  <2> QED BY <1>u, <1>1, <1>4, <2>2, <2>3 DEF GpsInv, InTurn, Kind, Pending
<1>9. StreakOK'
  <2> SUFFICES ASSUME NEW d \in Ids, Suspect(d)
               PROVE  \E i \in DOMAIN readings' : readings'[i].id = d /\ StreakIn(readings', readings'[i].shipment)
    BY <1>u DEF StreakOK, Streak, Suspect, FromBulk, Kind
  <2>1. PICK i \in DOMAIN readings : readings[i].id = d /\ StreakIn(readings, readings[i].shipment)
    BY DEF GpsInv, StreakOK, Streak
  <2>2. i \in DOMAIN readings' /\ readings'[i] = readings[i] /\ StreakIn(readings', readings[i].shipment)
    BY <2>1, <1>6
  <2> QED BY <2>1, <2>2
<1> QED BY <1>7, <1>8, <1>9 DEF GpsInv

(* pushStellarAnchorJob starts a detection that has found nothing yet. *)
LEMMA GpsPush ==
    ASSUME IngestInv, AlertInv, GpsInv, NEW r \in Reqs, PushStellarAnchorJob(r)
    PROVE  GpsInv'
<1>u. /\ pc[r] = "push" /\ UNCHANGED <<call, flag, readings>>
      /\ det' = [det EXCEPT ![Id(r)] = [det[Id(r)] EXCEPT !.at = "limits"]]
      /\ \/ item' = [item EXCEPT ![r] = item[r] + 1] /\ pc' = [pc EXCEPT ![r] = "store"]
         \/ item' = item /\ pc' = [pc EXCEPT ![r] = "ok"]
  BY DEF PushStellarAnchorJob, Goto
<1>k. Kind(r) \in Ingest /\ Id(r) \in Ids /\ item \in [Reqs -> Nat] /\ Id(r) = <<r, item[r]>>
  <2>1. Kind(r) \in Ingest /\ item \in [Reqs -> Nat]
    BY <1>u DEF IngestInv, IngestOK, Typed
  <2> QED BY <2>1, ItemOK DEF Id
<1>1. Becomes(Id(r), "limits", det[Id(r)].found)
  BY <1>u, <1>k, Updates
<1>2. UniqueIds'
  BY <1>u DEF GpsInv, UniqueIds
<1>3. InTurn'
  <2> SUFFICES ASSUME NEW x \in Reqs, Kind(x) \in Ingest, pc'[x] \in Pending,
                      NEW d \in Stored, d[1] = x
               PROVE  d[2] < item'[x] \/ (d[2] = item'[x] /\ pc'[x] \in {"invalidate", "push"})
    BY <1>u DEF InTurn, Kind, Stored
  <2>1. CASE x # r
    <3>1. pc'[x] = pc[x] /\ item'[x] = item[x]
      BY <2>1, <1>u DEF IngestInv, Typed
    <3> QED BY <3>1 DEF GpsInv, InTurn
  <2>2. CASE x = r
    <3>1. pc'[r] = "store" /\ item'[r] = item[r] + 1
      BY <2>2, <1>u, <1>k DEF IngestInv, Typed, Pending
    <3>2. d[2] < item[r] \/ d[2] = item[r]
      BY <2>2, <1>u, <1>k DEF GpsInv, InTurn, Pending
    <3>3. d \in Reqs \X (1..MaxItems) /\ MaxItems \in Nat
      BY StoredIds, IngestAssumption DEF Ids
    <3>4. d[2] \in Nat /\ item[r] \in Nat
      BY <3>3, <1>k
    <3> QED BY <2>2, <3>1, <3>2, <3>4
  <2> QED BY <2>1, <2>2
<1>4. StreakOK'
  <2> SUFFICES ASSUME NEW d \in Ids, Suspect(d)'
               PROVE  Suspect(d)
    BY <1>u DEF GpsInv, StreakOK, Streak
  <2>1. CASE d = Id(r)
    BY <2>1, <1>u, <1>1 DEF Suspect, Becomes
  <2>2. CASE d # Id(r)
    <3>1. det'[d] = det[d]
      BY <2>2, <1>1 DEF Becomes
    <3> QED BY <3>1, <1>u DEF Suspect, FromBulk, Kind
  <2> QED BY <2>1, <2>2
<1> QED BY <1>2, <1>3, <1>4 DEF GpsInv

(* A detection that leaves the requests and the readings alone. *)
LEMMA GpsMoves ==
    ASSUME GpsInv, NEW d \in Ids, NEW a, NEW f, Becomes(d, a, f),
           UNCHANGED <<call, pc, item, readings>>,
           \A e \in Ids : e # d => flag'[e] = flag[e],
           flag'[d] = flag[d]
             \/ flag'[d] # "GPS_LOST"
             \/ \E i \in DOMAIN readings : readings[i].id = d /\ Streak(readings[i].shipment),
           a # "record" \/ FromBulk(d) \/ "GPS_LOST" \notin f
             \/ \E i \in DOMAIN readings : readings[i].id = d /\ Streak(readings[i].shipment)
    PROVE  GpsInv'
<1>1. UniqueIds' /\ InTurn'
  BY DEF GpsInv, UniqueIds, InTurn, Stored, Kind
<1>2. ASSUME NEW e \in Ids, Suspect(e)'
      PROVE  \E i \in DOMAIN readings : readings[i].id = e /\ Streak(readings[i].shipment)
  <2>1. CASE e # d
    <3>1. Suspect(e)
      BY <1>2, <2>1 DEF Becomes, Suspect, FromBulk, Kind
    <3> QED BY <3>1 DEF GpsInv, StreakOK
  <2>2. CASE e = d
    <3>1. flag[d] = "GPS_LOST" => \E i \in DOMAIN readings : readings[i].id = d /\ Streak(readings[i].shipment)
      BY DEF GpsInv, StreakOK, Suspect
    <3>2. flag'[d] = "GPS_LOST" \/ (a = "record" /\ ~FromBulk(d) /\ "GPS_LOST" \in f)
      BY <1>2, <2>2 DEF Becomes, Suspect, FromBulk, Kind
    <3> QED BY <2>2, <3>1, <3>2
  <2> QED BY <2>1, <2>2
<1>3. StreakOK'
  BY <1>2 DEF StreakOK, Streak
<1> QED BY <1>1, <1>3 DEF GpsInv

(* The document of a stored reading. *)
LEMMA DocOf ==
    ASSUME NEW d \in Stored
    PROVE  \E i \in DOMAIN readings : readings[i].id = d /\ Doc(d) = readings[i]
  BY DEF Stored, Doc

(* detectGpsLoss finds a streak where it finds a loss. *)
LEMMA LossIsStreak ==
    ASSUME IngestInv, NEW d \in Stored, NEW q \in Newest(Doc(d).shipment, GpsLossThreshold + 1),
           HasGpsLoss(d, q)
    PROVE  Streak(Doc(d).shipment)
<1> DEFINE s   == Doc(d).shipment
           own == {i \in DOMAIN readings : readings[i].shipment = s}
           n   == IF Cardinality(own) < 4 THEN Cardinality(own) ELSE 4
<1>1. Cardinality(own) \in Nat
  <2>1. readings \in Seq(Docs)
    BY DEF IngestInv, Typed
  <2>2. IsFiniteSet(DOMAIN readings)
    BY <2>1, FS_Interval
  <2> QED BY <2>2, FS_Subset, FS_CardinalityType
<1>2. /\ q \in [1..n -> own]
      /\ \A i, j \in 1..n : i < j => q[i] # q[j]
  <2>1. GpsLossThreshold + 1 = 4
    BY DEF GpsLossThreshold
  <2>2. q \in Newest(s, 4)
    BY <2>1
  <2>3. q \in {p \in [1..n -> own] :
                  /\ \A i, j \in 1..n : i < j => p[i] # p[j] /\ readings[p[i]].ts >= readings[p[j]].ts
                  /\ \A o \in own \ {p[i] : i \in 1..n} : \A i \in 1..n : readings[p[i]].ts >= readings[o].ts}
    BY <2>2, Zenon DEF Newest
  <2> HIDE DEF n, own
  <2> QED BY <2>3, Zenon
<1>3. Len(q) >= 3 /\ \A i \in 1..2 : ~readings[q[i]].gps
  BY DEF HasGpsLoss, GpsLossThreshold
<1>4. n \in Nat
  BY <1>1
<1> HIDE DEF own, n
<1>5. Len(q) = n
  BY <1>2, <1>4
<1>6. 1 \in 1..n /\ 2 \in 1..n /\ 3 \in 1..n
  BY <1>3, <1>4, <1>5
<1>7. q[1] \in own /\ q[2] \in own /\ q[3] \in own /\ q[1] # q[2] /\ q[2] # q[3] /\ q[1] # q[3]
  BY <1>2, <1>6
<1>8. ~readings[q[1]].gps /\ ~readings[q[2]].gps
  BY <1>3
<1> QED BY <1>7, <1>8 DEF Streak, StreakIn, own

(* The detection of a stored reading. *)
LEMMA GpsDetect ==
    ASSUME IngestInv, AlertInv, GpsInv, NEW d \in Stored, Detect(d)
    PROVE  GpsInv'
<1>d. d \in Ids
  BY StoredIds
<1>u. UNCHANGED <<call, pc, item, readings>>
  BY DEF Detect, ResolveThresholds, Evaluate, DetectGpsLoss, FlagReading, CreateAnomalies,
         PushAlertJob, DetectionFails, reqVars, readVars
<1>w. ASSUME NEW a, NEW f, Becomes(d, a, f), flag' = flag,
             a # "record" \/ FromBulk(d) \/ "GPS_LOST" \notin f
               \/ \E i \in DOMAIN readings : readings[i].id = d /\ Streak(readings[i].shipment)
      PROVE  GpsInv'
  BY <1>d, <1>u, <1>w, GpsMoves
<1>1. CASE ResolveThresholds(d)
  <2>1. /\ flag' = flag
        /\ \E m : \/ det' = [det EXCEPT ![d] = [det[d] EXCEPT !.at = "fallback"]]
                  \/ det' = [det EXCEPT ![d] = [det[d] EXCEPT !.at = "evaluate", !.lim = m]]
    BY <1>1, Zenon DEF ResolveThresholds, readVars
  <2>2. \E a \in {"fallback", "evaluate"} : Becomes(d, a, det[d].found)
    BY <2>1, <1>d, Updates
  <2> QED BY <2>1, <2>2, <1>w
<1>2. CASE Evaluate(d)
  <2> DEFINE g == IF FromBulk(d) THEN EvaluateTelemetry(Doc(d), det[d].lim)
                  ELSE DetectTelemetryAnomalies(Doc(d), det[d].lim)
             l == CASE g # {} -> "record"
                    [] g = {} /\ FromBulk(d) -> "done"
                    [] OTHER -> "gps"
  <2>1. FromBulk(d) \/ "GPS_LOST" \notin g
    BY OneBreach, Zenon
  <2>2. det' = [det EXCEPT ![d] = [det[d] EXCEPT !.at = l, !.found = g]] /\ flag' = flag
    BY <1>2, Zenon DEF Evaluate, readVars
  <2> HIDE DEF g, l
  <2>3. Becomes(d, l, g)
    BY <2>2, <1>d, Updates
  <2> QED BY <2>1, <2>2, <2>3, <1>w
<1>3. CASE DetectGpsLoss(d)
  <2>1. PICK q \in Newest(Doc(d).shipment, GpsLossThreshold + 1) :
            det' = [det EXCEPT ![d] =
                IF HasGpsLoss(d, q) THEN [det[d] EXCEPT !.at = "record", !.found = {"GPS_LOST"}]
                ELSE [det[d] EXCEPT !.at = "done"]]
    BY <1>3, Zenon DEF DetectGpsLoss
  <2>2. flag' = flag
    BY <1>3 DEF DetectGpsLoss, readVars
  <2>3. CASE HasGpsLoss(d, q)
    <3>1. Becomes(d, "record", {"GPS_LOST"})
      BY <2>1, <2>3, <1>d, Updates
    <3>2. \E i \in DOMAIN readings : readings[i].id = d /\ Streak(readings[i].shipment)
      <4>1. Streak(Doc(d).shipment)
        BY <2>3, LossIsStreak
      <4> QED BY <4>1, DocOf
    <3> QED BY <2>2, <3>1, <3>2, <1>w
  <2>4. CASE ~HasGpsLoss(d, q)
    <3>1. Becomes(d, "done", det[d].found)
      BY <2>1, <2>4, <1>d, Updates
    <3> QED BY <2>2, <3>1, <1>w
  <2> QED BY <2>3, <2>4
<1>4. CASE FlagReading(d)
  <2>1. /\ det[d].at = "record" /\ ~FromBulk(d)
        /\ flag' = [flag EXCEPT ![d] = CHOOSE t \in det[d].found : TRUE]
        /\ det' = [det EXCEPT ![d] = [det[d] EXCEPT !.at = "alert"]]
    BY <1>4 DEF FlagReading
  <2>2. Becomes(d, "alert", det[d].found)
    BY <2>1, <1>d, Updates
  <2>3. PICK t : det[d].found = {t}
    BY <2>1, <1>d DEF AlertInv, DetectionOK
  <2>4. flag'[d] = t /\ \A e \in Ids : e # d => flag'[e] = flag[e]
    <3>1. (CHOOSE z \in det[d].found : TRUE) = t
      BY <2>3
    <3> QED BY <2>1, <3>1, <1>d DEF AlertInv, Shapes
  <2>5. t = "GPS_LOST" => \E i \in DOMAIN readings : readings[i].id = d /\ Streak(readings[i].shipment)
    BY <2>1, <2>3, <1>d DEF GpsInv, StreakOK, Suspect
  <2> QED BY <2>2, <2>4, <2>5, <1>d, <1>u, GpsMoves
<1>5. CASE CreateAnomalies(d)
  <2>1. /\ flag' = flag
        /\ \E a \in {"alert", "done"} : det' = [det EXCEPT ![d] = [det[d] EXCEPT !.at = a]]
    BY <1>5, Zenon DEF CreateAnomalies, readVars
  <2>2. \E a \in {"alert", "done"} : Becomes(d, a, det[d].found)
    BY <2>1, <1>d, Updates
  <2> QED BY <2>1, <2>2, <1>w
<1>6. CASE PushAlertJob(d)
  <2>1. /\ flag' = flag
        /\ \E f : \E a \in {"alert", "done"} : det' = [det EXCEPT ![d] = [det[d] EXCEPT !.at = a, !.found = f]]
    BY <1>6, Zenon DEF PushAlertJob, readVars
  <2>2. \E f : \E a \in {"alert", "done"} : Becomes(d, a, f)
    BY <2>1, <1>d, Updates
  <2> QED BY <2>1, <2>2, <1>w
<1>7. CASE DetectionFails(d)
  <2>1. flag' = flag /\ det' = [det EXCEPT ![d] = [det[d] EXCEPT !.at = "done"]]
    BY <1>7 DEF DetectionFails, readVars
  <2>2. Becomes(d, "done", det[d].found)
    BY <2>1, <1>d, Updates
  <2> QED BY <2>1, <2>2, <1>w
<1> QED BY <1>1, <1>2, <1>3, <1>4, <1>5, <1>6, <1>7 DEF Detect

(* Every step keeps the invariant of the lost positions. *)
LEMMA GpsNext == IngestInv /\ AlertInv /\ GpsInv /\ [Next]_vars => GpsInv'
<1> SUFFICES ASSUME IngestInv, AlertInv, GpsInv, [Next]_vars PROVE GpsInv'
  OBVIOUS
<1>1. ASSUME NEW r \in Reqs, Step(r), ~CreateTelemetryRecord(r), ~PushStellarAnchorJob(r) PROVE GpsInv'
  <2>1. UNCHANGED <<call, item, readings, det, flag>>
    BY <1>1, RequestMoves
  <2>2. InTurn'
    BY <1>1, <2>1, RequestMoves, TurnKept DEF GpsInv
  <2>3. UniqueIds' /\ StreakOK'
    BY <2>1 DEF GpsInv, UniqueIds, StreakOK, Streak, Suspect, FromBulk, Kind
  <2> QED BY <2>2, <2>3 DEF GpsInv
<1>2. CASE CleanupResolvedAnomalies \/ CacheExpires \/ UNCHANGED vars
  <2>1. UNCHANGED <<call, pc, item, readings, det, flag>>
    BY <1>2 DEF CleanupResolvedAnomalies, CacheExpires, vars, reqVars, readVars, anomVars
  <2> QED BY <2>1 DEF GpsInv, UniqueIds, InTurn, Stored, StreakOK, Streak, Suspect, FromBulk, Kind
<1> QED BY <1>1, <1>2, GpsStore, GpsPush, GpsDetect DEF Next

(* Whatever readings overlap or arrive late, detectGpsLoss flags a reading *)
(* only in a history of three with two positions lost: it never raises     *)
(* GPS_LOST for one lone reading.                                          *)
THEOREM GpsSound == Spec => []GpsLossIsAStreak
<1>1. Init => GpsInv
  <2> SUFFICES ASSUME Init PROVE GpsInv
    OBVIOUS
  <2>1. readings = <<>> /\ Stored = {} /\ DOMAIN readings = {}
    BY DEF Init, Stored
  <2>2. \A d \in Ids : ~Suspect(d)
    <3>1. \A d \in Ids : det[d].found = {} /\ flag[d] = None
      BY DEF Init, Quiet
    <3> QED BY <3>1, IngestAssumption DEF Suspect
  <2> QED BY <2>1, <2>2 DEF GpsInv, UniqueIds, InTurn, StreakOK
<1>2. IngestInv /\ GpsInv => GpsLossIsAStreak
  <2> SUFFICES ASSUME IngestInv, GpsInv, NEW d \in Stored, flag[d] = "GPS_LOST"
               PROVE  LET own == {i \in DOMAIN readings : readings[i].shipment = Doc(d).shipment}
                      IN /\ Cardinality({i \in own : ~readings[i].gps}) >= 2
                         /\ Cardinality(own) >= GpsLossThreshold
    BY DEF GpsLossIsAStreak
  <2> DEFINE own  == {i \in DOMAIN readings : readings[i].shipment = Doc(d).shipment}
             lost == {i \in own : ~readings[i].gps}
  <2>1. Streak(Doc(d).shipment)
    <3>1. PICK i \in DOMAIN readings : readings[i].id = d /\ Streak(readings[i].shipment)
      BY StoredIds DEF GpsInv, StreakOK, Suspect
    <3>2. PICK j \in DOMAIN readings : readings[j].id = d /\ Doc(d) = readings[j]
      BY DocOf
    <3>3. i = j
      BY <3>1, <3>2 DEF GpsInv, UniqueIds
    <3> QED BY <3>1, <3>2, <3>3
  <2>2. PICK i, j, k \in own : i # j /\ j # k /\ i # k /\ i \in lost /\ j \in lost
    BY <2>1 DEF Streak, StreakIn
  <2>3. IsFiniteSet(own) /\ IsFiniteSet(lost)
    <3>1. readings \in Seq(Docs)
      BY DEF IngestInv, Typed
    <3>2. IsFiniteSet(DOMAIN readings)
      BY <3>1, FS_Interval
    <3>3. IsFiniteSet(own)
      BY <3>2, FS_Subset
    <3> QED BY <3>3, FS_Subset
  <2> HIDE DEF own, lost
  <2>4. IsFiniteSet({i, j}) /\ Cardinality({i, j}) = 2
    <3>1. IsFiniteSet({i}) /\ Cardinality({i}) = 1
      BY FS_Singleton
    <3>2. {i, j} = {i} \union {j} /\ j \notin {i}
      BY <2>2
    <3> QED BY <3>1, <3>2, FS_AddElement
  <2>5. IsFiniteSet({i, j, k}) /\ Cardinality({i, j, k}) = 3
    <3>1. {i, j, k} = {i, j} \union {k} /\ k \notin {i, j}
      BY <2>2
    <3> QED BY <2>4, <3>1, FS_AddElement
  <2>6. Cardinality({i, j}) <= Cardinality(lost) /\ Cardinality({i, j, k}) <= Cardinality(own)
    <3>1. {i, j} \subseteq lost /\ {i, j, k} \subseteq own
      BY <2>2
    <3> QED BY <3>1, <2>3, FS_Subset
  <2>7. Cardinality(lost) \in Nat /\ Cardinality(own) \in Nat
    BY <2>3, FS_CardinalityType
  <2>8. Cardinality(lost) >= 2 /\ Cardinality(own) >= 3
    BY <2>4, <2>5, <2>6, <2>7
  <2> QED BY <2>8 DEF own, lost, GpsLossThreshold
<1> QED BY <1>1, <1>2, IngestInvariance, AlertInit, AlertNext, GpsNext, PTL DEF Spec

=============================================================================
