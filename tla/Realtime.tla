------------------------------ MODULE Realtime ------------------------------
(***************************************************************************)
(* Delivery of live events: Socket.IO rooms of shipments, and the hub of   *)
(* server-sent event streams with its Redis channel and its fallback.      *)
(*                                                                         *)
(* An event is emitted to the room at once; its fan-out to the streams of  *)
(* the parties' users runs on, losing control at each database call, and   *)
(* the promise of each publish settles later still.                        *)
(***************************************************************************)
EXTENDS Integers, FiniteSets

CONSTANTS
    Users,      \* accounts
    Orgs,       \* organizations
    Shipments,  \* shipments
    Parties,    \* enterpriseId and logisticsId of a shipment
    Sockets,    \* socket connections
    Streams,    \* responses that may become event streams
    Events,     \* the emits of a run
    About,      \* what an emit is: its kind, shipment and, for a status, the status
    FirstOrg,   \* the organization a user starts in
    None        \* the absence of a value

Kinds == {"status", "anomaly", "location", "settlement"}

ASSUME RealtimeAssumption ==
    /\ Parties \in [Shipments -> SUBSET Orgs]
    /\ FirstOrg \in [Users -> Orgs]
    /\ \A e \in Events : About[e].kind \in Kinds /\ About[e].shipment \in Shipments
    /\ None \notin Users \union Orgs \union Shipments
    /\ None \notin [user : Users \union {None}, org : Orgs \union {None}]
    /\ Sockets \intersect Streams = {}

VARIABLES
    org,      \* User.organizationId, None once the user is deleted
    signed,   \* the organizations a user has had a token for
    socket,   \* socket.user: None before the handshake, Gone after it
    active,   \* activeUsers: the user of each connected socket
    joining,  \* the shipment whose room a socket is allowed to join and has not yet
    room,     \* sockets in the room of a shipment
    stream,   \* the user of a stream: None before, Gone after it
    clients,  \* clientsByUser
    hub,      \* where the hub is: starting, redis, local or closed
    subs,     \* users on whose channel the subscriber listens
    fan,      \* where the fan-out of an event is
    pending,  \* publishes that have not settled
    viaRedis, \* publishes that Redis took
    due,      \* streams an event was meant for when it was published
    got       \* what each client received

Gone == [user |-> None, org |-> None]

roomVars == <<socket, active, joining, room>>
hubVars  == <<stream, clients, hub, subs>>
fanVars  == <<fan, pending, viaRedis, due>>
vars == <<org, signed, roomVars, hubVars, fanVars, got>>

Init ==
    /\ org = FirstOrg
    /\ signed = [u \in Users |-> {FirstOrg[u]}]
    /\ socket = [k \in Sockets |-> None]
    /\ active = [k \in Sockets |-> None]
    /\ joining = [k \in Sockets |-> None]
    /\ room = [s \in Shipments |-> {}]
    /\ stream = [t \in Streams |-> None]
    /\ clients = [u \in Users |-> {}]
    /\ hub = "starting" /\ subs = {}
    /\ fan = [e \in Events |-> "none"]
    /\ pending = {} /\ viaRedis = {}
    /\ due = [e \in Events |-> {}]
    /\ got = {}

Open(x) == x # None /\ x # Gone

-----------------------------------------------------------------------------
(* Users come to another organization, and leave. *)

MoveUser(u) ==
    /\ org[u] # None
    /\ \E o \in (Orgs \union {None}) \ {org[u]} :
          /\ org' = [org EXCEPT ![u] = o]
          /\ signed' = [signed EXCEPT ![u] = IF o = None THEN @ ELSE @ \union {o}]
    /\ UNCHANGED <<roomVars, hubVars, fanVars, got>>

-----------------------------------------------------------------------------
(* Sockets and rooms. *)

(* socketAuth: any token whose signature holds and that has not expired,   *)
(* be it of an earlier organization; then the connection handler.          *)
SocketAuth(k) ==
    /\ hub # "starting" /\ hub # "closed" /\ socket[k] = None
    /\ \E u \in Users : \E o \in signed[u] :
          /\ socket' = [socket EXCEPT ![k] = [user |-> u, org |-> o]]
          /\ active' = [active EXCEPT ![k] = u]
    /\ UNCHANGED <<org, signed, joining, room, hubVars, fanVars, got>>

(* isAuthorizedForShipment. *)
IsAuthorizedForShipment(k, s) == socket[k].org \in Parties[s]

(* join_shipment: the shipment is read here, a refusal ends it. *)
JoinShipment(k, s) ==
    /\ Open(socket[k]) /\ joining[k] = None
    /\ IsAuthorizedForShipment(k, s)
    /\ joining' = [joining EXCEPT ![k] = s]
    /\ UNCHANGED <<org, signed, socket, active, room, hubVars, fanVars, got>>

(* socket.join, which does nothing once the socket is gone. *)
JoinShipmentRoom(k) ==
    /\ joining[k] # None
    /\ room' = IF Open(socket[k]) THEN [room EXCEPT ![joining[k]] = @ \union {k}] ELSE room
    /\ joining' = [joining EXCEPT ![k] = None]
    /\ UNCHANGED <<org, signed, socket, active, hubVars, fanVars, got>>

LeaveShipmentRoom(k, s) ==
    /\ Open(socket[k]) /\ k \in room[s]
    /\ room' = [room EXCEPT ![s] = @ \ {k}]
    /\ UNCHANGED <<org, signed, socket, active, joining, hubVars, fanVars, got>>

(* disconnecting: the rooms are left; disconnect: the user is not active.  *)
Disconnect(k) ==
    /\ Open(socket[k])
    /\ room' = [s \in Shipments |-> room[s] \ {k}]
    /\ active' = [active EXCEPT ![k] = None]
    /\ socket' = [socket EXCEPT ![k] = Gone]
    /\ UNCHANGED <<org, signed, joining, hubVars, fanVars, got>>

-----------------------------------------------------------------------------
(* The hub. *)

(* initSseHub, awaited before the server listens: a subscription that is   *)
(* given up at once tells whether Redis is there.                          *)
InitSseHub ==
    /\ hub = "starting"
    /\ hub' \in {"redis", "local"}
    /\ UNCHANGED <<org, signed, roomVars, stream, clients, subs, fanVars, got>>

(* requireSseAuth, then streamEventsController and registerSseClient. *)
RequireSseAuth(u) == signed[u] # {}

Registered(u, t) == [clients EXCEPT ![u] = @ \union {t}]

RegisterSseClient(t) ==
    /\ hub \in {"redis", "local"} /\ stream[t] = None
    /\ \E u \in Users :
          /\ RequireSseAuth(u)
          /\ stream' = [stream EXCEPT ![t] = [user |-> u, org |-> None]]
          /\ clients' = Registered(u, t)
    /\ UNCHANGED <<org, signed, roomVars, hub, subs, fanVars, got>>

(* Mutant: the entry of the user goes with the stream. *)
RemovedEntry(t) == [clients EXCEPT ![stream[t].user] = {}]

(* removeClient. *)
Removed(t) == [clients EXCEPT ![stream[t].user] = @ \ {t}]

CloseStream(t) ==
    /\ Open(stream[t])
    /\ clients' = Removed(t)
    /\ stream' = [stream EXCEPT ![t] = Gone]
    /\ UNCHANGED <<org, signed, roomVars, hub, subs, fanVars, got>>

(* The server has stopped listening: closeSocketIO, then closeSseHub. *)
CloseSseHub ==
    /\ hub \in {"redis", "local"}
    /\ hub' = "closed" /\ subs' = {}
    /\ clients' = [u \in Users |-> {}]
    /\ stream' = [t \in Streams |-> Gone]
    /\ socket' = [k \in Sockets |-> Gone] /\ active' = [k \in Sockets |-> None]
    /\ room' = [s \in Shipments |-> {}]
    /\ UNCHANGED <<org, signed, joining, fanVars, got>>

-----------------------------------------------------------------------------
(* Events. *)

(* mapShipmentStatus. *)
MapShipmentStatus(st) ==
    CASE st = "CREATED" -> "PENDING"
      [] st \in {"DELIVERED", "SETTLEMENT_COMPLETED"} -> "DELIVERED"
      [] st = "CANCELLED" -> "CANCELLED"
      [] OTHER -> "IN_TRANSIT"

StatusMessages(e) ==
    { [type |-> "shipment:status", value |-> MapShipmentStatus(About[e].status)],
      [type |-> "shipment:milestone", value |-> About[e].status] }

(* What the streams are sent; the latest milestone goes with a status. *)
Messages(e) ==
    CASE About[e].kind = "status"   -> StatusMessages(e)
      [] About[e].kind = "anomaly"  -> {[type |-> "anomaly:detected", value |-> None]}
      [] About[e].kind = "location" -> {[type |-> "location:update", value |-> None]}
      [] OTHER -> {[type |-> "settlement:status", value |-> None]}

Receive(e, c) == {[event |-> e, to |-> c, message |-> m] : m \in Messages(e)}

(* deliverToLocalClients. *)
DeliverToLocalClients(e, us) == UNION {Receive(e, t) : t \in UNION {clients[u] : u \in us}}

(* emitStatusUpdate, emitAnomalyDetected, emitTelemetryUpdate and          *)
(* emitPaymentStatusChange: the room, and the start of the fan-out.        *)
Emit(e) ==
    /\ hub \in {"redis", "local"} /\ fan[e] = "none"
    /\ got' = got \union {[event |-> e, to |-> k, message |-> None] : k \in room[About[e].shipment]}
    /\ fan' = [fan EXCEPT ![e] = "shipment"]
    /\ UNCHANGED <<org, signed, roomVars, hubVars, pending, viaRedis, due>>

(* The first half of getUserIdsForShipment. *)
FindParties(e) ==
    /\ fan[e] = "shipment"
    /\ fan' = [fan EXCEPT ![e] = IF Parties[About[e].shipment] = {} THEN "done" ELSE "users"]
    /\ UNCHANGED <<org, signed, roomVars, hubVars, pending, viaRedis, due, got>>

(* Mutant: the filter by organization is lost. *)
AudienceOfAll(e) == Users

(* The second half: the users of the parties, as they are now. *)
Audience(e) == {u \in Users : org[u] \in Parties[About[e].shipment]}

(* fanoutToShipmentUsers and publishToUser. *)
Fanout(e) ==
    /\ fan[e] = "users"
    /\ LET us == Audience(e)
       IN /\ due' = [due EXCEPT ![e] = UNION {clients[u] : u \in us}]
          /\ IF hub = "redis"
             THEN pending' = pending \union {<<e, u>> : u \in us} /\ UNCHANGED got
             ELSE got' = got \union DeliverToLocalClients(e, us) /\ UNCHANGED pending
    /\ fan' = [fan EXCEPT ![e] = "done"]
    /\ UNCHANGED <<org, signed, roomVars, hubVars, viaRedis>>

(* safeFanout logs what was thrown. *)
FanoutFails(e) ==
    /\ fan[e] \in {"shipment", "users"}
    /\ fan' = [fan EXCEPT ![e] = "done"]
    /\ UNCHANGED <<org, signed, roomVars, hubVars, pending, viaRedis, due, got>>

(* Redis takes the message and hands it to handleRedisMessage of every     *)
(* process that listens on the user's channel.                             *)
PublishTaken(e, u) ==
    /\ <<e, u>> \in pending
    /\ pending' = pending \ {<<e, u>>}
    /\ viaRedis' = viaRedis \union {<<e, u>>}
    /\ got' = got \union DeliverToLocalClients(e, {u} \intersect subs)
    /\ UNCHANGED <<org, signed, roomVars, hubVars, fan, due>>

(* Mutant: a failed publish is only logged. *)
FallbackNone(e, u) == {}

(* The catch of publishToUser. *)
Fallback(e, u) == DeliverToLocalClients(e, {u})

PublishFails(e, u) ==
    /\ <<e, u>> \in pending
    /\ pending' = pending \ {<<e, u>>}
    /\ got' = got \union Fallback(e, u)
    /\ UNCHANGED <<org, signed, roomVars, hubVars, fan, viaRedis, due>>

Next ==
    \/ \E u \in Users : MoveUser(u)
    \/ \E k \in Sockets :
          \/ SocketAuth(k) \/ JoinShipmentRoom(k) \/ Disconnect(k)
          \/ \E s \in Shipments : JoinShipment(k, s) \/ LeaveShipmentRoom(k, s)
    \/ InitSseHub \/ CloseSseHub
    \/ \E t \in Streams : RegisterSseClient(t) \/ CloseStream(t)
    \/ \E e \in Events :
          \/ Emit(e) \/ FindParties(e) \/ Fanout(e) \/ FanoutFails(e)
          \/ \E u \in Users : PublishTaken(e, u) \/ PublishFails(e, u)

Spec == Init /\ [][Next]_vars

-----------------------------------------------------------------------------
(* An event of a shipment reaches only clients of its parties: a socket    *)
(* whose token names one, a stream of a user that is or was of one, though *)
(* users change organization between a join, an emit and a fan-out.        *)
OnlyPartiesHear ==
    \A g \in got :
        LET parties == Parties[About[g.event].shipment]
        IN /\ g.to \in Sockets /\ Open(socket[g.to]) => socket[g.to].org \in parties
           /\ g.to \in Streams /\ Open(stream[g.to]) =>
                 signed[stream[g.to].user] \intersect parties # {}

(* clientsByUser holds exactly the open streams: none is forgotten while   *)
(* another stream of the user closes, and none stays behind its close.     *)
StreamsAreRegistered ==
    \A u \in Users :
        clients[u] = {t \in Streams : Open(stream[t]) /\ stream[t].user = u}

(* A stream that was open when an event was published, and still is, has   *)
(* the event, or its publish is on the way or was taken by Redis: without  *)
(* Redis, or when it fails, nothing is lost.                               *)
FallbackReaches ==
    \A e \in Events : \A t \in due[e] :
        Open(stream[t]) =>
            LET u == stream[t].user
            IN \/ <<e, u>> \in pending \union viaRedis
               \/ Receive(e, t) \subseteq got

=============================================================================
