--------------------------- MODULE TelemetryIngest ---------------------------
(***************************************************************************)
(* How a reading enters the system and what is made of it: the IoT webhook *)
(* and the bulk route, the thresholds of an organization, the two ways of  *)
(* detecting an anomaly in the background, the anomalies with their alerts *)
(* and their cleanup, and the cached estimate of the arrival.              *)
(*                                                                         *)
(* A request is an async handler that loses control at each await, and so  *)
(* is the callback setImmediate starts for a stored reading; an action is  *)
(* one database or Redis call with the synchronous code around it.  Item i *)
(* of request r is the reading <<r, i>>.                                   *)
(***************************************************************************)
EXTENDS Integers, Sequences, FiniteSets

CONSTANTS
    Reqs,       \* request identifiers
    Shipments,  \* shipments; all belong to one organization
    TypeOf,     \* offChainMetadata.shipmentType of a shipment
    NoTarget,   \* shipments whose metadata names no destination
    MaxItems,   \* bound: items in a bulk request
    None,       \* the absence of a value
    Scripts     \* the inputs the requests may carry

DefaultType == "DEFAULT"    \* DEFAULT_SHIPMENT_TYPE
InTransit   == "IN_TRANSIT"

GpsLossThreshold == 3    \* GPS_LOSS_THRESHOLD
EtaPointsWindow  == 8    \* ETA_POINTS_WINDOW

(* DEFAULT_TELEMETRY_THRESHOLDS; there is no default minimum. *)
Defaults == [maxTemp |-> 25, minTemp |-> None, maxHumidity |-> 80, minHumidity |-> None,
             minBatteryLevel |-> 20]

Limits == DOMAIN Defaults

(* The roles a route asks for; the other routes ask for a token or, the    *)
(* webhook, for an API key.                                                *)
Roles == {"SUPER_ADMIN", "ADMIN", "MANAGER", "DRIVER", "VIEWER", "CUSTOMER"}

AnomalyRoles == [resolve |-> {"ADMIN", "MANAGER"}, stats |-> {"ADMIN", "MANAGER"}]

ThresholdRoles == [getLimits |-> Roles \ {"CUSTOMER", "DRIVER"}, putLimits |-> {"SUPER_ADMIN", "ADMIN"}]

RolesOf(k) ==
    CASE k \in DOMAIN AnomalyRoles   -> AnomalyRoles[k]
      [] k \in DOMAIN ThresholdRoles -> ThresholdRoles[k]
      [] OTHER                       -> Roles

Kinds == {"iot", "bulk", "eta", "move", "moveMany", "none"}
             \union DOMAIN AnomalyRoles \union DOMAIN ThresholdRoles

(* What a device sends: the battery may be missing, and the webhook takes  *)
(* a reading that names no shipment.                                       *)
Items == [shipment : Shipments \union {None}, temp : Int, hum : Int, bat : Int \union {None},
          shock : Int, gps : BOOLEAN, ts : Int]

ASSUME IngestAssumption ==
    /\ MaxItems \in Nat
    /\ None \notin Reqs \union Shipments \union {"GPS_LOST"}
    /\ NoTarget \subseteq Shipments
    /\ \A f \in Scripts : \A r \in Reqs :
          /\ f[r].kind \in Kinds
          /\ f[r].shipment \in Shipments \union {None} /\ f[r].items \in Seq(Items)
          /\ f[r].kind \in {"iot", "bulk"} => Len(f[r].items) \in 1..MaxItems
          /\ f[r].kind = "iot" => Len(f[r].items) = 1

VARIABLES
    call,       \* the input of each request
    pc,         \* where each handler is
    item,       \* the item of a bulk request it works on
    ship,       \* the shipment a handler resolved
    held,       \* what it read and has not used yet
    status,     \* status of the shipments
    readings,   \* telemetry documents, in the order of their ids
    flag,       \* anomalyType of a document, None when isAnomaly is false
    jobs,       \* readings with an anchor job
    thresholds, \* threshold documents by shipment type, None when there is none
    det,        \* the background detection of each reading
    anomalies,  \* anomaly documents
    purged,     \* anomaly documents that cleanup removed
    alerts,     \* the list alert_queue; no worker reads the raw list
    eta,        \* the cached estimate of a shipment
    stats,      \* the cached anomaly statistics
    latch       \* redisUnavailable of shipmentsEta.cache

reqVars  == <<call, pc, item, ship, held>>
readVars == <<readings, flag, jobs>>
anomVars == <<thresholds, det, anomalies, purged, alerts>>
etaVars  == <<eta, latch>>
vars == <<reqVars, status, readVars, anomVars, etaVars, stats>>

Kind(r)    == call[r].kind
Reading(r) == call[r].items[item[r]]
Id(r)      == <<r, item[r]>>

Ids == Reqs \X (1..MaxItems)
Quiet == [at |-> "none", lim |-> Defaults, found |-> {}]

Init ==
    /\ call \in Scripts
    /\ pc = [r \in Reqs |-> IF call[r].kind = "none" THEN "ok" ELSE "guard"]
    /\ item = [r \in Reqs |-> 1]
    /\ ship = [r \in Reqs |-> None]
    /\ held = [r \in Reqs |-> None]
    /\ status = [s \in Shipments |-> InTransit]
    /\ readings = <<>> /\ flag = [d \in Ids |-> None] /\ jobs = {}
    /\ thresholds = [t \in {DefaultType} \union {TypeOf[s] : s \in Shipments} |-> None]
    /\ det = [d \in Ids |-> Quiet]
    /\ anomalies = {} /\ purged = {} /\ alerts = {}
    /\ eta = [s \in Shipments |-> None] /\ latch = FALSE
    /\ stats = None

Goto(r, l) == pc' = [pc EXCEPT ![r] = l]

-----------------------------------------------------------------------------
(* The routes. *)

(* The schemas: one reading, one to a thousand items, a threshold profile. *)
ValidIot(r)    == call[r].valid
ValidBulk(r)   == call[r].valid /\ Len(call[r].items) \in 1..1000
ValidLimits(r) == call[r].valid
ValidNote(r)   == call[r].valid

Valid(r) ==
    CASE Kind(r) = "iot"  -> ValidIot(r)
      [] Kind(r) = "bulk" -> ValidBulk(r)
      [] Kind(r) \in DOMAIN ThresholdRoles -> ValidLimits(r)
      [] OTHER -> ValidNote(r)

(* The first await of a handler.  A reading of the webhook may name the    *)
(* sensor only; the bulk schema asks for the shipment.                     *)
Handler(r) ==
    CASE Kind(r) = "iot"     -> IF call[r].items[1].shipment = None THEN "resolve" ELSE "store"
      [] Kind(r) = "bulk"    -> "store"
      [] Kind(r) = "resolve" -> "anomaly"
      [] Kind(r) = "stats"   -> "cache"
      [] OTHER -> Kind(r)

Guard(r) ==
    /\ pc[r] = "guard"
    /\ Goto(r, IF call[r].role \in RolesOf(Kind(r)) /\ Valid(r) THEN Handler(r) ELSE "error")
    /\ ship' = [ship EXCEPT ![r] = IF Kind(r) \in {"iot", "bulk"} THEN Reading(r).shipment
                                   ELSE call[r].shipment]
    /\ UNCHANGED <<call, item, held, status, readVars, anomVars, etaVars, stats>>

(* findActiveShipmentBySensorId: any one in transit. *)
FindActiveShipmentBySensorId(r) ==
    /\ pc[r] = "resolve"
    /\ LET active == {s \in Shipments : status[s] = InTransit}
       IN IF active = {}
          THEN Goto(r, "error") /\ UNCHANGED ship
          ELSE Goto(r, "store") /\ \E s \in active : ship' = [ship EXCEPT ![r] = s]
    /\ UNCHANGED <<call, item, held, status, readVars, anomVars, etaVars, stats>>

(* normalizeIotWebhookBody: one shape for both kinds of body, and a full   *)
(* battery when none is given.                                             *)
Normalized(x) == [x EXCEPT !.bat = IF @ = None THEN 100 ELSE @]

Document(r) ==
    LET x == Normalized(Reading(r))
    IN [id |-> Id(r), shipment |-> ship[r], temp |-> x.temp, hum |-> x.hum, bat |-> x.bat,
        shock |-> x.shock, gps |-> x.gps, ts |-> x.ts]

CreateTelemetryRecord(r) ==
    /\ pc[r] = "store"
    /\ readings' = Append(readings, Document(r))
    /\ Goto(r, IF Kind(r) = "bulk" THEN "invalidate" ELSE "push")
    /\ UNCHANGED <<call, item, ship, held, status, flag, jobs, anomVars, etaVars, stats>>

(* invalidateShipmentEtaCache; an error turns the cache off for good. *)
InvalidateShipmentEtaCache(r) ==
    \/ eta' = (IF latch THEN eta ELSE [eta EXCEPT ![ship[r]] = None]) /\ UNCHANGED latch
    \/ ~latch /\ latch' = TRUE /\ UNCHANGED eta

InvalidateAfterIngest(r) ==
    /\ pc[r] = "invalidate" /\ Kind(r) = "bulk"
    /\ InvalidateShipmentEtaCache(r)
    /\ Goto(r, "push")
    /\ UNCHANGED <<call, item, ship, held, status, readVars, anomVars, stats>>

(* Mutant: the job is pushed after the loop, for the last item. *)
PushedAtTheEnd(r) == IF item[r] = Len(call[r].items) THEN jobs \union {Id(r)} ELSE jobs

(* pushStellarAnchorJob; then the callback is scheduled, and a bulk        *)
(* request goes on with its next item.                                     *)
Pushed(r) == jobs \union {Id(r)}

PushStellarAnchorJob(r) ==
    /\ pc[r] = "push"
    /\ jobs' = Pushed(r)
    /\ det' = [det EXCEPT ![Id(r)].at = "limits"]
    /\ IF item[r] < Len(call[r].items)
       THEN /\ item' = [item EXCEPT ![r] = @ + 1]
            /\ ship' = [ship EXCEPT ![r] = call[r].items[item[r] + 1].shipment]
            /\ Goto(r, "store")
       ELSE Goto(r, "ok") /\ UNCHANGED <<item, ship>>
    /\ UNCHANGED <<call, held, status, readings, flag, thresholds, anomalies, purged, alerts,
                   etaVars, stats>>

-----------------------------------------------------------------------------
(* Thresholds. *)

(* mergeWithDefaults, field by field. *)
MergeWithDefaults(doc) ==
    [l \in Limits |-> IF doc = None \/ doc[l] = None THEN Defaults[l] ELSE doc[l]]

(* getOrgTelemetryThresholdsService: the stored profile or the defaults.   *)
GetThresholds(r) ==
    /\ pc[r] = "getLimits"
    /\ held' = [held EXCEPT ![r] = MergeWithDefaults(thresholds[call[r].type])]
    /\ Goto(r, "ok")
    /\ UNCHANGED <<call, item, ship, status, readVars, anomVars, etaVars, stats>>

(* updateOrgTelemetryThresholdsService: the whole profile is replaced. *)
UpdateThresholds(r) ==
    /\ pc[r] = "putLimits"
    /\ thresholds' = [thresholds EXCEPT ![call[r].type] = call[r].limits]
    /\ Goto(r, "ok")
    /\ UNCHANGED <<call, item, ship, held, status, readVars, det, anomalies, purged, alerts,
                   etaVars, stats>>

-----------------------------------------------------------------------------
(* Detection, in the background: d is the reading. *)

Stored == {readings[i].id : i \in DOMAIN readings}
Doc(d) == readings[CHOOSE i \in DOMAIN readings : readings[i].id = d]

(* resolveTelemetryThresholdsForShipment: the profile of the type, the     *)
(* DEFAULT one when that is missing, the built-in defaults at last.        *)
ResolveThresholds(d) ==
    /\ det[d].at \in {"limits", "fallback"}
    /\ LET type == IF det[d].at = "limits" THEN TypeOf[Doc(d).shipment] ELSE DefaultType
           doc  == thresholds[type]
       IN det' = [det EXCEPT ![d] =
              IF doc = None /\ type # DefaultType
              THEN [@ EXCEPT !.at = "fallback"]
              ELSE [@ EXCEPT !.at = "evaluate", !.lim = MergeWithDefaults(doc)]]
    /\ UNCHANGED <<reqVars, status, readVars, thresholds, anomalies, purged, alerts, etaVars, stats>>

(* evaluateTelemetry, of the bulk route: every limit that is broken. *)
EvaluateTelemetry(x, lim) ==
    LET Over(v, l)  == lim[l] # None /\ v > lim[l]
        Under(v, l) == lim[l] # None /\ v < lim[l]
    IN {t \in {"TEMPERATURE_EXCEEDED", "TEMPERATURE_BELOW_MIN", "HUMIDITY_EXCEEDED",
               "HUMIDITY_BELOW_MIN", "BATTERY_LOW"} :
          CASE t = "TEMPERATURE_EXCEEDED"  -> Over(x.temp, "maxTemp")
            [] t = "TEMPERATURE_BELOW_MIN" -> Under(x.temp, "minTemp")
            [] t = "HUMIDITY_EXCEEDED"     -> Over(x.hum, "maxHumidity")
            [] t = "HUMIDITY_BELOW_MIN"    -> Under(x.hum, "minHumidity")
            [] t = "BATTERY_LOW"           -> Under(x.bat, "minBatteryLevel")}

(* The type of the first check that holds, if one does. *)
FirstOf(checks) ==
    {checks[i].type : i \in {i \in DOMAIN checks :
                               checks[i].holds /\ \A j \in 1..(i - 1) : ~checks[j].holds}}

(* detectTelemetryAnomalies, of the webhook: the first limit that is       *)
(* broken, in this order; a limit of zero counts as none.                  *)
DetectTelemetryAnomalies(x, lim) ==
    LET Set(l) == lim[l] # None /\ lim[l] # 0
    IN FirstOf(
          << [type |-> "TEMPERATURE_BREACH",
              holds |-> (Set("maxTemp") /\ x.temp > lim.maxTemp)
                          \/ (Set("minTemp") /\ x.temp < lim.minTemp)],
             [type |-> "HUMIDITY_BREACH",
              holds |-> (Set("maxHumidity") /\ x.hum > lim.maxHumidity)
                          \/ (Set("minHumidity") /\ x.hum < lim.minHumidity)],
             [type |-> "SHOCK_EVENT", holds |-> x.shock > 2],
             [type |-> "BATTERY_LOW",
              holds |-> Set("minBatteryLevel") /\ x.bat < lim.minBatteryLevel] >>)

FromBulk(d) == Kind(d[1]) = "bulk"

(* The webhook's readings go on to the GPS check when no limit is broken.  *)
Evaluate(d) ==
    /\ det[d].at = "evaluate"
    /\ LET found == IF FromBulk(d) THEN EvaluateTelemetry(Doc(d), det[d].lim)
                    ELSE DetectTelemetryAnomalies(Doc(d), det[d].lim)
       IN det' = [det EXCEPT ![d] = [@ EXCEPT !.at =
              CASE found # {} -> "record"
                [] found = {} /\ FromBulk(d) -> "done"
                [] OTHER -> "gps", !.found = found]]
    /\ UNCHANGED <<reqVars, status, readVars, thresholds, anomalies, purged, alerts, etaVars, stats>>

(* The newest readings of a shipment by their timestamps, at most n; equal *)
(* timestamps come in any order.                                           *)
Newest(s, n) ==
    LET own == {i \in DOMAIN readings : readings[i].shipment = s}
        k   == IF Cardinality(own) < n THEN Cardinality(own) ELSE n
    IN {q \in [1..k -> own] :
          /\ \A i, j \in 1..k : i < j => q[i] # q[j] /\ readings[q[i]].ts >= readings[q[j]].ts
          /\ \A o \in own \ {q[i] : i \in 1..k} : \A i \in 1..k : readings[q[i]].ts >= readings[o].ts}

(* Mutant: the reading itself, counted once more, is nearly enough. *)
HasGpsLossEarly(d, q) ==
    /\ Len(q) >= GpsLossThreshold
    /\ ~Doc(d).gps
    /\ \A i \in 1..(GpsLossThreshold - 2) : ~readings[q[i]].gps

(* detectGpsLoss: the reading counts one and, being stored, once more      *)
(* among the newest, where the streak ends at the first valid position.    *)
HasGpsLoss(d, q) ==
    /\ Len(q) >= GpsLossThreshold
    /\ ~Doc(d).gps
    /\ \A i \in 1..(GpsLossThreshold - 1) : ~readings[q[i]].gps

DetectGpsLoss(d) ==
    /\ det[d].at = "gps"
    /\ \E q \in Newest(Doc(d).shipment, GpsLossThreshold + 1) :
          det' = [det EXCEPT ![d] =
              IF HasGpsLoss(d, q) THEN [@ EXCEPT !.at = "record", !.found = {"GPS_LOST"}]
              ELSE [@ EXCEPT !.at = "done"]]
    /\ UNCHANGED <<reqVars, status, readVars, thresholds, anomalies, purged, alerts, etaVars, stats>>

Anomaly(d, t) == [reading |-> d, type |-> t, resolved |-> FALSE]

(* The webhook's detection writes the flags of the reading; an error ends  *)
(* it with no anomaly found.                                               *)
FlagReading(d) ==
    /\ det[d].at = "record" /\ ~FromBulk(d)
    /\ flag' = [flag EXCEPT ![d] = CHOOSE t \in det[d].found : TRUE]
    /\ det' = [det EXCEPT ![d].at = "alert"]
    /\ UNCHANGED <<reqVars, status, readings, jobs, thresholds, anomalies, purged, alerts,
                   etaVars, stats>>

(* Mutant: alerts go out when only some documents were written. *)
CreateAnomaliesUnchecked(d) ==
    /\ det[d].at = "record" /\ FromBulk(d)
    /\ \E some \in SUBSET det[d].found :
          anomalies' = anomalies \union {Anomaly(d, t) : t \in some}
    /\ det' = [det EXCEPT ![d].at = "alert"]
    /\ UNCHANGED <<reqVars, status, readVars, thresholds, purged, alerts, etaVars, stats>>

(* detectAnomaly writes a document for each anomaly, side by side; when    *)
(* one fails, create throws.                                               *)
CreateAnomalies(d) ==
    /\ det[d].at = "record" /\ FromBulk(d)
    /\ \E some \in SUBSET det[d].found :
          /\ anomalies' = anomalies \union {Anomaly(d, t) : t \in some}
          /\ det' = [det EXCEPT ![d].at = IF some = det[d].found THEN "alert" ELSE "done"]
    /\ UNCHANGED <<reqVars, status, readVars, thresholds, purged, alerts, etaVars, stats>>

(* pushAlertJob for each anomaly, side by side. *)
PushAlertJob(d) ==
    /\ det[d].at = "alert"
    /\ \E t \in det[d].found :
          /\ alerts' = alerts \union {[reading |-> d, type |-> t]}
          /\ det' = [det EXCEPT ![d] = [@ EXCEPT !.at = IF det[d].found = {t} THEN "done" ELSE "alert",
                                                 !.found = det[d].found \ {t}]]
    /\ UNCHANGED <<reqVars, status, readVars, thresholds, anomalies, purged, etaVars, stats>>

(* The callback logs what was thrown, and that is all. *)
DetectionFails(d) ==
    /\ det[d].at \notin {"none", "done"}
    /\ det' = [det EXCEPT ![d].at = "done"]
    /\ UNCHANGED <<reqVars, status, readVars, thresholds, anomalies, purged, alerts, etaVars, stats>>

(* resolveAnomalyService on the document of a reading, by its id. *)
ResolveAnomaly(r) ==
    /\ pc[r] = "anomaly"
    /\ LET hit == {a \in anomalies : a.reading = call[r].on /\ a.type = call[r].type}
       IN /\ anomalies' = (anomalies \ hit) \union {[a EXCEPT !.resolved = TRUE] : a \in hit}
          /\ Goto(r, IF hit = {} THEN "error" ELSE "ok")
    /\ UNCHANGED <<call, item, ship, held, status, readVars, thresholds, det, purged, alerts,
                   etaVars, stats>>

(* cleanupResolvedAnomalies: the resolved ones that are past the retention *)
(* period, any of them here.                                               *)
Due == {a \in anomalies : a.resolved}

CleanupResolvedAnomalies ==
    /\ \E old \in SUBSET Due :
          /\ old # {}
          /\ anomalies' = anomalies \ old
          /\ purged' = purged \union old
    /\ UNCHANGED <<reqVars, status, readVars, thresholds, det, alerts, etaVars, stats>>

-----------------------------------------------------------------------------
(* Statistics, cached for five minutes.  Redis errors are ignored. *)

ReadStatsCache(r) ==
    /\ pc[r] = "cache"
    /\ \/ stats # None /\ Goto(r, "ok")
       \/ Goto(r, "count")
    /\ UNCHANGED <<call, item, ship, held, status, readVars, anomVars, etaVars, stats>>

CountAnomalies(r) ==
    /\ pc[r] = "count"
    /\ held' = [held EXCEPT ![r] = [active |-> Cardinality({a \in anomalies : ~a.resolved}),
                                    all |-> Cardinality(anomalies)]]
    /\ Goto(r, "keep")
    /\ UNCHANGED <<call, item, ship, status, readVars, anomVars, etaVars, stats>>

WriteStatsCache(r) ==
    /\ pc[r] = "keep"
    /\ stats' \in {held[r], stats}
    /\ Goto(r, "ok")
    /\ UNCHANGED <<call, item, ship, held, status, readVars, anomVars, etaVars>>

-----------------------------------------------------------------------------
(* The estimate of the arrival. *)

(* readShipmentEtaCache; an error turns the cache off for good. *)
ReadShipmentEtaCache(r) ==
    /\ pc[r] = "eta"
    /\ \/ /\ Goto(r, IF eta[ship[r]] # None /\ ~latch THEN "ok" ELSE "etaFind")
          /\ held' = [held EXCEPT ![r] = IF latch THEN None ELSE eta[ship[r]]]
          /\ UNCHANGED latch
       \/ ~latch /\ latch' = TRUE /\ Goto(r, "etaFind") /\ UNCHANGED held
    /\ UNCHANGED <<call, item, ship, status, readVars, anomVars, eta, stats>>

(* resolveDestinationCoordinates. *)
HasDestination(s) == s \notin NoTarget

NonTransit == [inTransit |-> FALSE, points |-> <<>>]

FindEtaShipment(r) ==
    /\ pc[r] = "etaFind"
    /\ IF status[ship[r]] # InTransit
       THEN held' = [held EXCEPT ![r] = NonTransit] /\ Goto(r, "etaWrite")
       ELSE /\ Goto(r, IF HasDestination(ship[r]) THEN "etaPoints" ELSE "error")
            /\ UNCHANGED held
    /\ UNCHANGED <<call, item, ship, status, readVars, anomVars, etaVars, stats>>

(* The window of the newest points, ties by id; distance, speed and        *)
(* confidence are computed from nothing else.                              *)
Window(s) ==
    CHOOSE q \in Newest(s, EtaPointsWindow) :
       \A i, j \in DOMAIN q : (i < j /\ readings[q[i]].ts = readings[q[j]].ts) => q[i] > q[j]

ReadPoints(r) ==
    /\ pc[r] = "etaPoints"
    /\ LET q == Window(ship[r])
       IN IF Len(q) = 0
          THEN Goto(r, "error") /\ UNCHANGED held
          ELSE /\ held' = [held EXCEPT ![r] = [inTransit |-> TRUE, points |-> q]]
               /\ Goto(r, "etaWrite")
    /\ UNCHANGED <<call, item, ship, status, readVars, anomVars, etaVars, stats>>

WriteShipmentEtaCache(r) ==
    /\ pc[r] = "etaWrite"
    /\ \/ eta' = (IF latch THEN eta ELSE [eta EXCEPT ![ship[r]] = held[r]]) /\ UNCHANGED latch
       \/ ~latch /\ latch' = TRUE /\ UNCHANGED eta
    /\ Goto(r, "ok")
    /\ UNCHANGED <<call, item, ship, held, status, readVars, anomVars, stats>>

(* The status of a shipment changes; the update of a single shipment       *)
(* invalidates its estimate, the one of many shipments does not.           *)
MoveShipment(r) ==
    /\ pc[r] \in {"move", "moveMany"}
    /\ status' = [status EXCEPT ![ship[r]] = call[r].to]
    /\ Goto(r, IF Kind(r) = "move" THEN "invalidate" ELSE "ok")
    /\ UNCHANGED <<call, item, ship, held, readVars, anomVars, etaVars, stats>>

InvalidateAfterMove(r) ==
    /\ pc[r] = "invalidate" /\ Kind(r) = "move"
    /\ InvalidateShipmentEtaCache(r)
    /\ Goto(r, "ok")
    /\ UNCHANGED <<call, item, ship, held, status, readVars, anomVars, stats>>

(* A cached value reaches the end of its time. *)
CacheExpires ==
    /\ \/ \E s \in Shipments :
             eta[s] # None /\ eta' = [eta EXCEPT ![s] = None] /\ UNCHANGED stats
       \/ stats # None /\ stats' = None /\ UNCHANGED eta
    /\ UNCHANGED <<reqVars, status, readVars, anomVars, latch>>

-----------------------------------------------------------------------------
(* A call of the database or the queue fails after the handler's write, or *)
(* the process dies there.                                                 *)
Fail(r) ==
    /\ pc[r] \in {"invalidate", "push"} \/ (pc[r] = "store" /\ item[r] > 1)
    /\ Goto(r, "error")
    /\ UNCHANGED <<call, item, ship, held, status, readVars, anomVars, etaVars, stats>>

Step(r) ==
    \/ Guard(r) \/ FindActiveShipmentBySensorId(r) \/ CreateTelemetryRecord(r)
    \/ InvalidateAfterIngest(r) \/ PushStellarAnchorJob(r)
    \/ GetThresholds(r) \/ UpdateThresholds(r) \/ ResolveAnomaly(r)
    \/ ReadStatsCache(r) \/ CountAnomalies(r) \/ WriteStatsCache(r)
    \/ ReadShipmentEtaCache(r) \/ FindEtaShipment(r) \/ ReadPoints(r) \/ WriteShipmentEtaCache(r)
    \/ MoveShipment(r) \/ InvalidateAfterMove(r)
    \/ Fail(r)

Detect(d) ==
    \/ ResolveThresholds(d) \/ Evaluate(d) \/ DetectGpsLoss(d)
    \/ FlagReading(d) \/ CreateAnomalies(d) \/ PushAlertJob(d) \/ DetectionFails(d)

Next ==
    \/ \E r \in Reqs : Step(r)
    \/ \E d \in Stored : Detect(d)
    \/ CleanupResolvedAnomalies
    \/ CacheExpires

Spec == Init /\ [][Next]_vars

-----------------------------------------------------------------------------
(* A request that was answered with success left an anchor job for every   *)
(* reading it stored: neither the webhook nor any item of a bulk request   *)
(* is forgotten between the write and the queue.                           *)
AcknowledgedIsQueued ==
    \A r \in Reqs : (Kind(r) \in {"iot", "bulk"} /\ pc[r] = "ok") =>
        \A i \in 1..Len(call[r].items) : <<r, i>> \in Stored /\ <<r, i>> \in jobs

(* Nobody is alerted of something that is recorded nowhere: for every      *)
(* alert the reading carries that flag, or there is an anomaly document,   *)
(* or cleanup removed one that had been resolved.                          *)
AlertIsRecorded ==
    \A a \in alerts :
        \/ flag[a.reading] = a.type
        \/ \E x \in anomalies : x.reading = a.reading /\ x.type = a.type
        \/ \E x \in purged : x.reading = a.reading /\ x.type = a.type /\ x.resolved

(* GPS loss is never raised for one lone reading: when a reading carries   *)
(* GPS_LOST, its shipment has another one without a position, in a history *)
(* of at least three.                                                      *)
GpsLossIsAStreak ==
    \A d \in Stored : flag[d] = "GPS_LOST" =>
        LET own == {i \in DOMAIN readings : readings[i].shipment = Doc(d).shipment}
        IN /\ Cardinality({i \in own : ~readings[i].gps}) >= 2
           /\ Cardinality(own) >= GpsLossThreshold

=============================================================================
