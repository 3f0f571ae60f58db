--------------------------- MODULE RealtimeProofs ---------------------------
(***************************************************************************)
(* Who hears of a shipment, which streams the hub knows, and what the      *)
(* fallback reaches: for any users, organizations, clients and events.     *)
(***************************************************************************)
EXTENDS Realtime, TLAPS

Stages == {"none", "shipment", "users", "done"}

(* The types of the variables the properties depend on. *)
Typed ==
    /\ org \in [Users -> Orgs \union {None}]
    /\ signed \in [Users -> SUBSET Orgs]
    /\ socket \in [Sockets -> {None, Gone} \union [user : Users, org : Orgs]]
    /\ joining \in [Sockets -> Shipments \union {None}]
    /\ room \in [Shipments -> SUBSET Sockets]
    /\ stream \in [Streams -> {None, Gone} \union [user : Users, org : {None}]]
    /\ clients \in [Users -> SUBSET Streams]
    /\ fan \in [Events -> Stages]
    /\ pending \subseteq Events \X Users
    /\ due \in [Events -> SUBSET Streams]

(* A user has had a token for the organization it is in. *)
SignedOK == \A u \in Users : org[u] # None => org[u] \in signed[u]

(* A socket is let in only by its own handshake: before it, nobody knows   *)
(* the socket.                                                             *)
FreshSockets ==
    \A k \in Sockets : socket[k] = None =>
        /\ joining[k] = None
        /\ \A s \in Shipments : k \notin room[s]
        /\ \A g \in got : g.to # k

FreshStreams ==
    \A t \in Streams : stream[t] = None =>
        /\ \A e \in Events : t \notin due[e]
        /\ \A g \in got : g.to # t

(* What a connected socket is in, or has been allowed to join, is a        *)
(* shipment of the organization of its token.                              *)
RoomsOK ==
    \A k \in Sockets, s \in Shipments :
        Open(socket[k]) /\ (joining[k] = s \/ k \in room[s]) => socket[k].org \in Parties[s]

(* A publish on its way is for a user who is or was of a party. *)
PendingOK ==
    \A e \in Events, u \in Users :
        <<e, u>> \in pending => signed[u] \intersect Parties[About[e].shipment] # {}

IInv ==
    /\ Typed /\ SignedOK /\ FreshSockets /\ FreshStreams /\ RoomsOK /\ PendingOK
    /\ OnlyPartiesHear /\ StreamsAreRegistered /\ FallbackReaches

-----------------------------------------------------------------------------
(* What deliverToLocalClients adds to what clients received: only messages *)
(* to streams of the users named, and every one of them.                   *)
LEMMA Delivered ==
    ASSUME Typed, NEW e \in Events, NEW us \in SUBSET Users
    PROVE  /\ \A g \in DeliverToLocalClients(e, us) :
                 g.event = e /\ \E u \in us : g.to \in clients[u]
           /\ \A u \in us : \A t \in clients[u] : Receive(e, t) \subseteq DeliverToLocalClients(e, us)
<1>1. ASSUME NEW g \in DeliverToLocalClients(e, us)
      PROVE  g.event = e /\ \E u \in us : g.to \in clients[u]
  <2>1. PICK t \in UNION {clients[u] : u \in us} : g \in Receive(e, t)
    BY DEF DeliverToLocalClients
  <2>2. g.event = e /\ g.to = t
    BY <2>1 DEF Receive
  <2> QED BY <2>1, <2>2
<1>2. ASSUME NEW u \in us, NEW t \in clients[u]
      PROVE  Receive(e, t) \subseteq DeliverToLocalClients(e, us)
  <2>1. t \in UNION {clients[v] : v \in us}
    OBVIOUS
  <2> QED BY <2>1 DEF DeliverToLocalClients
<1> QED BY <1>1, <1>2

(* The initial state satisfies the invariant. *)
LEMMA InitOK == Init => IInv
<1> SUFFICES ASSUME Init PROVE IInv
  OBVIOUS
<1> USE RealtimeAssumption DEF Init
<1>1. Typed
  BY DEF Typed, Stages
<1>2. SignedOK
  BY DEF SignedOK
<1>3. FreshSockets /\ FreshStreams
  BY DEF FreshSockets, FreshStreams
<1>4. RoomsOK /\ PendingOK
  BY DEF RoomsOK, PendingOK, Open
<1>5. OnlyPartiesHear /\ FallbackReaches
  BY DEF OnlyPartiesHear, FallbackReaches
<1>6. StreamsAreRegistered
  BY DEF StreamsAreRegistered, Open
<1> QED BY <1>1, <1>2, <1>3, <1>4, <1>5, <1>6 DEF IInv

-----------------------------------------------------------------------------
(* One lemma per action. *)

(* A user who moves keeps the organizations it had tokens for. *)
LEMMA MoveUserOK ==
    ASSUME IInv, NEW u \in Users, MoveUser(u)
    PROVE  IInv'
<1> USE RealtimeAssumption
<1>0. PICK o \in Orgs \union {None} :
          /\ org' = [org EXCEPT ![u] = o]
          /\ signed' = [signed EXCEPT ![u] = IF o = None THEN @ ELSE @ \union {o}]
  BY DEF MoveUser
<1>u. UNCHANGED <<socket, joining, room, stream, clients, fan, pending, viaRedis, due, got>>
  BY DEF MoveUser, roomVars, hubVars, fanVars
<1>1. Typed'
  BY <1>0, <1>u DEF IInv, Typed
<1>g. \A v \in Users : signed[v] \subseteq signed'[v]
  BY <1>0 DEF IInv, Typed
<1>2. SignedOK'
  BY <1>0 DEF IInv, Typed, SignedOK
<1>3. FreshSockets' /\ FreshStreams' /\ RoomsOK'
  BY <1>u DEF IInv, FreshSockets, FreshStreams, RoomsOK, Open, Gone
<1>4. PendingOK'
  BY <1>u, <1>g DEF IInv, PendingOK
<1>5. OnlyPartiesHear'
  <2> SUFFICES ASSUME NEW g \in got
               PROVE  LET parties == Parties[About[g.event].shipment]
                      IN /\ g.to \in Sockets /\ Open(socket[g.to]) => socket[g.to].org \in parties
                         /\ g.to \in Streams /\ Open(stream[g.to]) =>
                               signed'[stream[g.to].user] \intersect parties # {}
    BY <1>u DEF OnlyPartiesHear, Open, Gone
  <2>1. g.to \in Streams /\ Open(stream[g.to]) => stream[g.to].user \in Users
    BY DEF IInv, Typed, Open
  <2> QED BY <2>1, <1>g DEF IInv, OnlyPartiesHear
<1>6. StreamsAreRegistered' /\ FallbackReaches'
  BY <1>u DEF IInv, StreamsAreRegistered, FallbackReaches, Open, Gone, Receive
<1> QED BY <1>1, <1>2, <1>3, <1>4, <1>5, <1>6 DEF IInv

(* A handshake is of a socket nobody knew. *)
LEMMA SocketAuthOK ==
    ASSUME IInv, NEW k \in Sockets, SocketAuth(k)
    PROVE  IInv'
<1> USE RealtimeAssumption
<1>0. PICK u \in Users, o \in Orgs :
          socket[k] = None /\ socket' = [socket EXCEPT ![k] = [user |-> u, org |-> o]]
  BY DEF SocketAuth, IInv, Typed
<1>u. UNCHANGED <<org, signed, joining, room, stream, clients, fan, pending, viaRedis, due, got>>
  BY DEF SocketAuth, hubVars, fanVars
<1>1. Typed'
  BY <1>0, <1>u DEF IInv, Typed
<1>2. SignedOK' /\ PendingOK' /\ FreshStreams'
  BY <1>u DEF IInv, SignedOK, PendingOK, FreshStreams
<1>n. \A j \in Sockets : j # k => socket'[j] = socket[j]
  BY <1>0 DEF IInv, Typed
<1>s. socket'[k] # None
  BY <1>0 DEF IInv, Typed
<1>3. FreshSockets'
  BY <1>0, <1>u, <1>n, <1>s DEF IInv, FreshSockets
<1>4. RoomsOK'
  BY <1>0, <1>u, <1>n DEF IInv, FreshSockets, RoomsOK, Open, Gone
<1>5. OnlyPartiesHear'
  BY <1>0, <1>u, <1>n DEF IInv, FreshSockets, OnlyPartiesHear, Open, Gone
<1>6. StreamsAreRegistered' /\ FallbackReaches'
  BY <1>u DEF IInv, StreamsAreRegistered, FallbackReaches, Open, Gone, Receive
<1> QED BY <1>1, <1>2, <1>3, <1>4, <1>5, <1>6 DEF IInv

(* A permission to join is given to a socket of a party. *)
LEMMA JoinShipmentOK ==
    ASSUME IInv, NEW k \in Sockets, NEW s \in Shipments, JoinShipment(k, s)
    PROVE  IInv'
<1> USE RealtimeAssumption
<1>0. Open(socket[k]) /\ socket[k].org \in Parties[s] /\ joining' = [joining EXCEPT ![k] = s]
  BY DEF JoinShipment, IsAuthorizedForShipment
<1>u. UNCHANGED <<org, signed, socket, room, stream, clients, fan, pending, viaRedis, due, got>>
  BY DEF JoinShipment, hubVars, fanVars
<1>1. Typed'
  BY <1>0, <1>u DEF IInv, Typed
<1>2. SignedOK' /\ PendingOK' /\ FreshStreams'
  BY <1>u DEF IInv, SignedOK, PendingOK, FreshStreams
<1>3. FreshSockets' /\ RoomsOK'
  BY <1>0, <1>u DEF IInv, Typed, FreshSockets, RoomsOK, Open, Gone
<1>4. OnlyPartiesHear' /\ StreamsAreRegistered' /\ FallbackReaches'
  BY <1>u DEF IInv, OnlyPartiesHear, StreamsAreRegistered, FallbackReaches, Open, Gone, Receive
<1> QED BY <1>1, <1>2, <1>3, <1>4 DEF IInv

(* The three steps that change rooms and joins only. *)
LEMMA RoomStepOK ==
    ASSUME IInv, NEW k \in Sockets,
           JoinShipmentRoom(k) \/ \E s \in Shipments : LeaveShipmentRoom(k, s)
    PROVE  IInv'
<1> USE RealtimeAssumption
<1>u. UNCHANGED <<org, signed, socket, stream, clients, fan, pending, viaRedis, due, got>>
  BY DEF JoinShipmentRoom, LeaveShipmentRoom, hubVars, fanVars
<1>1. SignedOK' /\ PendingOK' /\ FreshStreams'
  BY <1>u DEF IInv, SignedOK, PendingOK, FreshStreams
<1>2. OnlyPartiesHear' /\ StreamsAreRegistered' /\ FallbackReaches'
  BY <1>u DEF IInv, OnlyPartiesHear, StreamsAreRegistered, FallbackReaches, Open, Gone, Receive
<1>3. CASE JoinShipmentRoom(k)
  <2>1. joining[k] \in Shipments /\ joining' = [joining EXCEPT ![k] = None]
    BY <1>3 DEF JoinShipmentRoom, IInv, Typed
  <2>2. /\ room' \in [Shipments -> SUBSET Sockets]
        /\ \A s \in Shipments, j \in Sockets :
              j \in room'[s] => j \in room[s] \/ (j = k /\ s = joining[k] /\ Open(socket[k]))
    BY <1>3, <2>1 DEF JoinShipmentRoom, IInv, Typed
  <2>3. Typed'
    BY <1>u, <2>1, <2>2 DEF IInv, Typed
  <2>4. FreshSockets' /\ RoomsOK'
    BY <1>u, <2>1, <2>2 DEF IInv, Typed, FreshSockets, RoomsOK, Open, Gone
  <2> QED BY <1>1, <1>2, <2>3, <2>4 DEF IInv
<1>4. CASE \E s \in Shipments : LeaveShipmentRoom(k, s)
  <2>1. /\ joining' = joining
        /\ room' \in [Shipments -> SUBSET Sockets]
        /\ \A s \in Shipments : room'[s] \subseteq room[s]
    BY <1>4 DEF LeaveShipmentRoom, IInv, Typed
  <2>2. Typed'
    BY <1>u, <2>1 DEF IInv, Typed
  <2>3. FreshSockets' /\ RoomsOK'
    BY <1>u, <2>1 DEF IInv, Typed, FreshSockets, RoomsOK, Open, Gone
  <2> QED BY <1>1, <1>2, <2>2, <2>3 DEF IInv
<1> QED BY <1>3, <1>4

(* A socket that disconnects is in no room. *)
LEMMA DisconnectOK ==
    ASSUME IInv, NEW k \in Sockets, Disconnect(k)
    PROVE  IInv'
<1> USE RealtimeAssumption
<1>0. /\ room' = [s \in Shipments |-> room[s] \ {k}]
      /\ socket' = [socket EXCEPT ![k] = Gone]
  BY DEF Disconnect
<1>u. UNCHANGED <<org, signed, joining, stream, clients, fan, pending, viaRedis, due, got>>
  BY DEF Disconnect, hubVars, fanVars
<1>g. Gone # None
  BY DEF Gone
<1>1. Typed'
  BY <1>0, <1>u DEF IInv, Typed
<1>2. SignedOK' /\ PendingOK' /\ FreshStreams'
  BY <1>u DEF IInv, SignedOK, PendingOK, FreshStreams
<1>3. FreshSockets' /\ RoomsOK' /\ OnlyPartiesHear'
  <2>1. socket'[k] = Gone /\ \A j \in Sockets : j # k => socket'[j] = socket[j]
    BY <1>0 DEF IInv, Typed
  <2>2. FreshSockets'
    BY <1>0, <1>u, <1>g, <2>1 DEF IInv, FreshSockets
  <2>3. RoomsOK'
    BY <1>0, <1>u, <2>1 DEF IInv, RoomsOK, Open, Gone
  <2>4. OnlyPartiesHear'
    BY <1>u, <2>1 DEF IInv, OnlyPartiesHear, Open, Gone
  <2> QED BY <2>2, <2>3, <2>4
<1>4. StreamsAreRegistered' /\ FallbackReaches'
  BY <1>u DEF IInv, StreamsAreRegistered, FallbackReaches, Open, Gone, Receive
<1> QED BY <1>1, <1>2, <1>3, <1>4 DEF IInv

(* A stream that registers was due nothing. *)
LEMMA RegisterOK ==
    ASSUME IInv, NEW t \in Streams, RegisterSseClient(t)
    PROVE  IInv'
<1> USE RealtimeAssumption
<1>0. PICK u \in Users :
          /\ stream[t] = None
          /\ stream' = [stream EXCEPT ![t] = [user |-> u, org |-> None]]
          /\ clients' = [clients EXCEPT ![u] = @ \union {t}]
  BY DEF RegisterSseClient, Registered
<1>u. UNCHANGED <<org, signed, socket, joining, room, fan, pending, viaRedis, due, got>>
  BY DEF RegisterSseClient, roomVars, fanVars
<1>1. Typed'
  BY <1>0, <1>u DEF IInv, Typed
<1>2. SignedOK' /\ PendingOK' /\ FreshSockets' /\ RoomsOK'
  BY <1>u DEF IInv, SignedOK, PendingOK, FreshSockets, RoomsOK, Open, Gone
<1>n. /\ stream'[t] = [user |-> u, org |-> None]
      /\ \A x \in Streams : x # t => stream'[x] = stream[x]
  BY <1>0 DEF IInv, Typed
<1>o. stream'[t] # None /\ stream'[t] # Gone /\ stream'[t].user = u
  BY <1>n DEF Gone
<1>3. FreshStreams'
  BY <1>u, <1>n, <1>o DEF IInv, FreshStreams
<1>4. OnlyPartiesHear'
  BY <1>0, <1>u, <1>n DEF IInv, FreshStreams, OnlyPartiesHear, Open, Gone
<1>5. FallbackReaches'
  BY <1>0, <1>u, <1>n DEF IInv, Typed, FreshStreams, FallbackReaches, Open, Gone, Receive
<1>6. StreamsAreRegistered'
  <2> SUFFICES ASSUME NEW v \in Users, NEW x \in Streams
               PROVE  x \in clients'[v] <=> x \in Streams /\ Open(stream'[x]) /\ stream'[x].user = v
    BY <1>1 DEF StreamsAreRegistered, Typed, Open, Gone
  <2>1. x \in clients[v] <=> Open(stream[x]) /\ stream[x].user = v
    BY DEF IInv, StreamsAreRegistered
  <2>2. CASE x = t
    BY <2>1, <2>2, <1>0, <1>o DEF IInv, Typed, Open
  <2>3. CASE x # t
    BY <2>1, <2>3, <1>0, <1>n DEF IInv, Typed, Open
  <2> QED BY <2>2, <2>3
<1> QED BY <1>1, <1>2, <1>3, <1>4, <1>5, <1>6 DEF IInv

(* A stream that closes takes only itself out of its user's entry. *)
LEMMA CloseStreamOK ==
    ASSUME IInv, NEW t \in Streams, CloseStream(t)
    PROVE  IInv'
<1> USE RealtimeAssumption
<1> DEFINE u == stream[t].user
<1>0. /\ Open(stream[t])
      /\ stream' = [stream EXCEPT ![t] = Gone]
      /\ clients' = [clients EXCEPT ![u] = @ \ {t}]
  BY DEF CloseStream, Removed
<1>u. UNCHANGED <<org, signed, socket, joining, room, fan, pending, viaRedis, due, got>>
  BY DEF CloseStream, roomVars, fanVars
<1>t. u \in Users
  BY <1>0 DEF IInv, Typed, Open
<1>g. Gone # None
  BY DEF Gone
<1> HIDE DEF u
<1>1. Typed'
  BY <1>0, <1>u DEF IInv, Typed
<1>2. SignedOK' /\ PendingOK' /\ FreshSockets' /\ RoomsOK'
  BY <1>u DEF IInv, SignedOK, PendingOK, FreshSockets, RoomsOK, Open, Gone
<1>n. stream'[t] = Gone /\ \A x \in Streams : x # t => stream'[x] = stream[x]
  BY <1>0 DEF IInv, Typed
<1>3. FreshStreams'
  BY <1>u, <1>n, <1>g DEF IInv, FreshStreams
<1>4. OnlyPartiesHear' /\ FallbackReaches'
  BY <1>u, <1>n DEF IInv, Typed, OnlyPartiesHear, FallbackReaches, Open, Gone, Receive
<1>5. StreamsAreRegistered'
  <2> SUFFICES ASSUME NEW v \in Users, NEW x \in Streams
               PROVE  x \in clients'[v] <=> x \in Streams /\ Open(stream'[x]) /\ stream'[x].user = v
    BY <1>1 DEF StreamsAreRegistered, Typed, Open, Gone
  <2>1. x \in clients[v] <=> Open(stream[x]) /\ stream[x].user = v
    BY DEF IInv, StreamsAreRegistered
  <2>2. CASE x = t
    BY <2>1, <2>2, <1>0, <1>n, <1>t DEF IInv, Typed, Open, u
  <2>3. CASE x # t
    BY <2>1, <2>3, <1>0, <1>n, <1>t DEF IInv, Typed, Open
  <2> QED BY <2>2, <2>3
<1> QED BY <1>1, <1>2, <1>3, <1>4, <1>5 DEF IInv

(* The hub starts with nobody in it, and is closed with everybody gone. *)
LEMMA HubOK ==
    ASSUME IInv, InitSseHub \/ CloseSseHub
    PROVE  IInv'
<1> USE RealtimeAssumption
<1>g. Gone # None /\ ~Open(Gone)
  BY DEF Gone, Open
<1>1. CASE InitSseHub
  <2>u. UNCHANGED <<org, signed, socket, joining, room, stream, clients, fan, pending, viaRedis, due, got>>
    BY <1>1 DEF InitSseHub, roomVars, fanVars
  <2>1. Typed' /\ SignedOK' /\ FreshSockets' /\ FreshStreams' /\ RoomsOK' /\ PendingOK'
    BY <2>u DEF IInv, Typed, SignedOK, FreshSockets, FreshStreams, RoomsOK, PendingOK, Open, Gone
  <2>2. OnlyPartiesHear' /\ StreamsAreRegistered' /\ FallbackReaches'
    BY <2>u DEF IInv, OnlyPartiesHear, StreamsAreRegistered, FallbackReaches, Open, Gone, Receive
  <2> QED BY <2>1, <2>2 DEF IInv
<1>2. CASE CloseSseHub
  <2>0. /\ clients' = [u \in Users |-> {}]
        /\ stream' = [t \in Streams |-> Gone]
        /\ socket' = [k \in Sockets |-> Gone]
        /\ room' = [s \in Shipments |-> {}]
    BY <1>2 DEF CloseSseHub
  <2>u. UNCHANGED <<org, signed, joining, fan, pending, viaRedis, due, got>>
    BY <1>2 DEF CloseSseHub, fanVars
  <2>1. Typed' /\ SignedOK' /\ PendingOK'
    BY <2>0, <2>u DEF IInv, Typed, SignedOK, PendingOK
  <2>2. FreshSockets' /\ FreshStreams'
    BY <2>0, <1>g DEF FreshSockets, FreshStreams
  <2>3. RoomsOK' /\ OnlyPartiesHear' /\ FallbackReaches'
    BY <2>0, <2>1, <1>g DEF Typed, RoomsOK, OnlyPartiesHear, FallbackReaches, Open, Gone, Receive
  <2>4. StreamsAreRegistered'
    BY <2>0, <1>g DEF StreamsAreRegistered, Open, Gone
  <2> QED BY <2>1, <2>2, <2>3, <2>4 DEF IInv
<1> QED BY <1>1, <1>2

-----------------------------------------------------------------------------
(* Emits, fan-outs and publishes change neither users, sockets nor         *)
(* streams; what they add to what clients received decides the rest.       *)
LEMMA EventFrame ==
    ASSUME IInv,
           UNCHANGED <<org, signed, socket, joining, room, stream, clients>>,
           fan' \in [Events -> Stages],
           due' \in [Events -> SUBSET Streams],
           pending' \subseteq Events \X Users,
           got \subseteq got',
           \A g \in got' : g \in got \/
               LET parties == Parties[About[g.event].shipment]
               IN \/ g.to \in Sockets /\ socket[g.to] # None
                     /\ (Open(socket[g.to]) => socket[g.to].org \in parties)
                  \/ g.to \in Streams /\ Open(stream[g.to])
                     /\ signed[stream[g.to].user] \intersect parties # {},
           \A e \in Events : \A t \in due'[e] : stream[t] # None,
           PendingOK', FallbackReaches'
    PROVE  IInv'
<1> USE RealtimeAssumption
<1>1. Typed' /\ SignedOK'
  BY DEF IInv, Typed, SignedOK
<1>2. FreshSockets' /\ FreshStreams'
  BY DEF IInv, FreshSockets, FreshStreams, Open
<1>3. RoomsOK' /\ StreamsAreRegistered'
  BY DEF IInv, RoomsOK, StreamsAreRegistered, Open, Gone
<1>4. OnlyPartiesHear'
  BY DEF IInv, OnlyPartiesHear, Open, Gone
<1> QED BY <1>1, <1>2, <1>3, <1>4 DEF IInv

(* An emit reaches the sockets of the room, which are of the parties. *)
LEMMA EmitOK ==
    ASSUME IInv, NEW e \in Events, Emit(e)
    PROVE  IInv'
<1> USE RealtimeAssumption
<1> DEFINE s == About[e].shipment
<1>0. /\ got' = got \union {[event |-> e, to |-> k, message |-> None] : k \in room[s]}
      /\ fan' = [fan EXCEPT ![e] = "shipment"]
  BY DEF Emit
<1>u. UNCHANGED <<org, signed, socket, joining, room, stream, clients, pending, viaRedis, due>>
  BY DEF Emit, roomVars, hubVars
<1>s. s \in Shipments
  OBVIOUS
<1> HIDE DEF s
<1>1. fan' \in [Events -> Stages] /\ got \subseteq got'
  BY <1>0 DEF IInv, Typed, Stages
<1>2. ASSUME NEW g \in got', g \notin got
      PROVE  /\ g.event = e /\ g.to \in Sockets /\ socket[g.to] # None
             /\ (Open(socket[g.to]) => socket[g.to].org \in Parties[s])
  <2>1. PICK k \in room[s] : g = [event |-> e, to |-> k, message |-> None]
    BY <1>0, <1>2
  <2>2. g.event = e /\ g.to = k /\ k \in Sockets
    BY <2>1, <1>s DEF IInv, Typed
  <2> QED BY <2>2, <1>s DEF IInv, FreshSockets, RoomsOK
<1>3. PendingOK' /\ FallbackReaches'
  BY <1>u, <1>1 DEF IInv, PendingOK, FallbackReaches, Open, Gone, Receive
<1>4. /\ due' \in [Events -> SUBSET Streams] /\ pending' \subseteq Events \X Users
      /\ \A f \in Events : \A t \in due'[f] : stream[t] # None
  BY <1>u DEF IInv, Typed, FreshStreams
<1> QED BY <1>u, <1>1, <1>2, <1>3, <1>4, EventFrame DEF s

(* The steps of a fan-out that send nothing. *)
LEMMA QuietOK ==
    ASSUME IInv, NEW e \in Events, FindParties(e) \/ FanoutFails(e)
    PROVE  IInv'
<1>u. UNCHANGED <<org, signed, socket, joining, room, stream, clients, pending, viaRedis, due, got>>
  BY DEF FindParties, FanoutFails, roomVars, hubVars
<1>1. fan' \in [Events -> Stages]
  BY DEF IInv, Typed, Stages, FindParties, FanoutFails
<1>2. PendingOK' /\ FallbackReaches'
  BY <1>u DEF IInv, PendingOK, FallbackReaches, Open, Gone, Receive
<1>3. /\ due' \in [Events -> SUBSET Streams] /\ pending' \subseteq Events \X Users
      /\ \A f \in Events : \A t \in due'[f] : stream[t] # None
  BY <1>u DEF IInv, Typed, FreshStreams
<1> QED BY <1>u, <1>1, <1>2, <1>3, EventFrame

(* What the hub delivers to users who are or were of a party is theirs to  *)
(* hear.                                                                   *)
LEMMA DeliveredIsTheirs ==
    ASSUME IInv, NEW e \in Events, NEW us \in SUBSET Users,
           \A u \in us : signed[u] \intersect Parties[About[e].shipment] # {}
    PROVE  \A g \in DeliverToLocalClients(e, us) :
               /\ g.event = e /\ g.to \in Streams /\ Open(stream[g.to])
               /\ signed[stream[g.to].user] \intersect Parties[About[e].shipment] # {}
<1> SUFFICES ASSUME NEW g \in DeliverToLocalClients(e, us)
             PROVE  /\ g.event = e /\ g.to \in Streams /\ Open(stream[g.to])
                    /\ signed[stream[g.to].user] \intersect Parties[About[e].shipment] # {}
  OBVIOUS
<1>1. g.event = e /\ \E u \in us : g.to \in clients[u]
  BY Delivered DEF IInv
<1>2. PICK u \in us : g.to \in clients[u]
  BY <1>1
<1>3. g.to \in Streams /\ Open(stream[g.to]) /\ stream[g.to].user = u
  BY <1>2 DEF IInv, StreamsAreRegistered
<1> QED BY <1>1, <1>3

(* The audience of an event is of the parties when it is read. *)
LEMMA AudienceOK ==
    ASSUME IInv, NEW e \in Events
    PROVE  /\ Audience(e) \subseteq Users
           /\ \A u \in Audience(e) : signed[u] \intersect Parties[About[e].shipment] # {}
<1>1. \A u \in Audience(e) : org[u] \in Parties[About[e].shipment] /\ org[u] # None
  BY RealtimeAssumption DEF Audience
<1> QED BY <1>1 DEF Audience, IInv, SignedOK

(* A fan-out delivers to the audience, or leaves a publish for each. *)
LEMMA FanoutOK ==
    ASSUME IInv, NEW e \in Events, Fanout(e)
    PROVE  IInv'
<1> DEFINE us == Audience(e)
<1>0. /\ due' = [due EXCEPT ![e] = UNION {clients[u] : u \in us}]
      /\ \/ pending' = pending \union {<<e, u>> : u \in us} /\ got' = got
         \/ got' = got \union DeliverToLocalClients(e, us) /\ pending' = pending
      /\ fan' = [fan EXCEPT ![e] = "done"]
  BY DEF Fanout
<1>u. UNCHANGED <<org, signed, socket, joining, room, stream, clients, viaRedis>>
  BY DEF Fanout, roomVars, hubVars
<1>a. us \subseteq Users /\ \A u \in us : signed[u] \intersect Parties[About[e].shipment] # {}
  BY AudienceOK
<1> HIDE DEF us
<1>1. fan' \in [Events -> Stages] /\ got \subseteq got'
  BY <1>0 DEF IInv, Typed, Stages
<1>2. pending \subseteq pending' /\ pending' \subseteq Events \X Users
  BY <1>0, <1>a DEF IInv, Typed
<1>3. PendingOK'
  BY <1>0, <1>u, <1>a DEF IInv, PendingOK
<1>4. \A t \in UNION {clients[u] : u \in us} :
          t \in Streams /\ Open(stream[t]) /\ stream[t].user \in us
  BY <1>a DEF IInv, StreamsAreRegistered
<1>5. due' \in [Events -> SUBSET Streams]
  BY <1>0, <1>4 DEF IInv, Typed
<1>6. \A f \in Events : \A t \in due'[f] : stream[t] # None
  BY <1>0, <1>4 DEF IInv, Typed, FreshStreams, Open
<1>7. \A g \in got' : g \in got \/
          /\ g.event = e /\ g.to \in Streams /\ Open(stream[g.to])
          /\ signed[stream[g.to].user] \intersect Parties[About[e].shipment] # {}
  BY <1>0, <1>a, DeliveredIsTheirs
<1>8. FallbackReaches'
  <2> SUFFICES ASSUME NEW f \in Events, NEW t \in due'[f], Open(stream[t])
               PROVE  <<f, stream[t].user>> \in pending' \union viaRedis \/ Receive(f, t) \subseteq got'
    BY <1>u DEF FallbackReaches, Open, Gone, Receive
  <2>1. CASE f # e
    <3>1. t \in due[f]
      BY <2>1, <1>0 DEF IInv, Typed
    <3> QED BY <3>1, <1>1, <1>2 DEF IInv, FallbackReaches
  <2>2. CASE f = e
    <3>1. t \in UNION {clients[u] : u \in us}
      BY <2>2, <1>0 DEF IInv, Typed
    <3>2. stream[t].user \in us /\ t \in clients[stream[t].user]
      BY <3>1, <1>4, <1>a DEF IInv, StreamsAreRegistered
    <3>3. Receive(e, t) \subseteq DeliverToLocalClients(e, us)
      BY <3>2, <1>a, Delivered DEF IInv
    <3> QED BY <2>2, <3>2, <3>3, <1>0
  <2> QED BY <2>1, <2>2
<1> QED BY <1>u, <1>1, <1>2, <1>3, <1>5, <1>6, <1>7, <1>8, EventFrame

(* A publish that settles is taken by Redis, or falls back to the streams. *)
LEMMA PublishOK ==
    ASSUME IInv, NEW e \in Events, NEW u \in Users, PublishTaken(e, u) \/ PublishFails(e, u)
    PROVE  IInv'
<1>0. /\ <<e, u>> \in pending /\ pending' = pending \ {<<e, u>>}
      /\ UNCHANGED <<org, signed, socket, joining, room, stream, clients, fan, due>>
  BY DEF PublishTaken, PublishFails, roomVars, hubVars
<1>1. \E us \in SUBSET {u} : got' = got \union DeliverToLocalClients(e, us)
  BY DEF PublishTaken, PublishFails, Fallback
<1>2. PICK us \in SUBSET {u} : got' = got \union DeliverToLocalClients(e, us)
  BY <1>1
<1>3. us \in SUBSET Users /\ \A v \in us : signed[v] \intersect Parties[About[e].shipment] # {}
  BY <1>0 DEF IInv, PendingOK
<1>4. \A g \in got' : g \in got \/
          /\ g.event = e /\ g.to \in Streams /\ Open(stream[g.to])
          /\ signed[stream[g.to].user] \intersect Parties[About[e].shipment] # {}
  BY <1>2, <1>3, DeliveredIsTheirs
<1>5. PendingOK'
  BY <1>0 DEF IInv, PendingOK
<1>6. /\ fan' \in [Events -> Stages] /\ due' \in [Events -> SUBSET Streams]
      /\ pending' \subseteq Events \X Users /\ got \subseteq got'
      /\ \A f \in Events : \A t \in due'[f] : stream[t] # None
  BY <1>0, <1>2 DEF IInv, Typed, FreshStreams
<1>7. FallbackReaches'
  <2> SUFFICES ASSUME NEW f \in Events, NEW t \in due[f], Open(stream[t])
               PROVE  <<f, stream[t].user>> \in pending' \union viaRedis' \/ Receive(f, t) \subseteq got'
    BY <1>0 DEF FallbackReaches, Open, Gone, Receive
  <2>0. viaRedis \subseteq viaRedis'
    BY DEF PublishTaken, PublishFails
  <2>1. <<f, stream[t].user>> \in pending \union viaRedis \/ Receive(f, t) \subseteq got
    BY DEF IInv, FallbackReaches
  <2>2. CASE <<f, stream[t].user>> # <<e, u>>
    BY <2>0, <2>1, <2>2, <1>0, <1>6
  <2>3. CASE <<f, stream[t].user>> = <<e, u>> /\ PublishTaken(e, u)
    BY <2>3 DEF PublishTaken
  <2>4. CASE <<f, stream[t].user>> = <<e, u>> /\ PublishFails(e, u)
    <3>1. f = e /\ stream[t].user = u /\ t \in clients[u]
      BY <2>4 DEF IInv, Typed, StreamsAreRegistered
    <3>2. Receive(e, t) \subseteq DeliverToLocalClients(e, {u})
      BY <3>1, Delivered DEF IInv
    <3> QED BY <2>4, <3>1, <3>2 DEF PublishFails, Fallback
  <2> QED BY <2>2, <2>3, <2>4
<1> QED BY <1>0, <1>4, <1>5, <1>6, <1>7, EventFrame

-----------------------------------------------------------------------------
(* Every step preserves the invariant. *)
LEMMA NextOK == IInv /\ [Next]_vars => IInv'
<1> SUFFICES ASSUME IInv, [Next]_vars PROVE IInv'
  OBVIOUS
<1>1. CASE UNCHANGED vars
  <2>u. UNCHANGED <<org, signed, socket, joining, room, stream, clients, fan, pending, viaRedis, due, got>>
    BY <1>1 DEF vars, roomVars, hubVars, fanVars
  <2>1. Typed' /\ SignedOK' /\ FreshSockets' /\ FreshStreams' /\ RoomsOK' /\ PendingOK'
    BY <2>u DEF IInv, Typed, SignedOK, FreshSockets, FreshStreams, RoomsOK, PendingOK, Open, Gone
  <2>2. OnlyPartiesHear' /\ StreamsAreRegistered' /\ FallbackReaches'
    BY <2>u DEF IInv, OnlyPartiesHear, StreamsAreRegistered, FallbackReaches, Open, Gone, Receive
  <2> QED BY <2>1, <2>2 DEF IInv
<1>2. CASE \E u \in Users : MoveUser(u)
  BY <1>2, MoveUserOK
<1>3. CASE \E k \in Sockets :
              \/ SocketAuth(k) \/ JoinShipmentRoom(k) \/ Disconnect(k)
              \/ \E s \in Shipments : JoinShipment(k, s) \/ LeaveShipmentRoom(k, s)
  BY <1>3, SocketAuthOK, RoomStepOK, DisconnectOK, JoinShipmentOK
<1>4. CASE InitSseHub \/ CloseSseHub
  BY <1>4, HubOK
<1>5. CASE \E t \in Streams : RegisterSseClient(t) \/ CloseStream(t)
  BY <1>5, RegisterOK, CloseStreamOK
<1>6. CASE \E e \in Events :
              \/ Emit(e) \/ FindParties(e) \/ Fanout(e) \/ FanoutFails(e)
              \/ \E u \in Users : PublishTaken(e, u) \/ PublishFails(e, u)
  BY <1>6, EmitOK, QuietOK, FanoutOK, PublishOK
<1> QED BY <1>1, <1>2, <1>3, <1>4, <1>5, <1>6 DEF Next

(* The inductive invariant holds in every reachable state. *)
THEOREM Invariance == Spec => []IInv
  BY InitOK, NextOK, PTL DEF Spec

(* An event of a shipment is heard only by sockets and streams of its      *)
(* parties, however users move between join, emit and fan-out.             *)
THEOREM HearingSound == Spec => []OnlyPartiesHear
<1>1. IInv => OnlyPartiesHear
  BY DEF IInv
<1> QED BY <1>1, Invariance, PTL

(* clientsByUser is exactly the open streams of each user. *)
THEOREM RegistrySound == Spec => []StreamsAreRegistered
<1>1. IInv => StreamsAreRegistered
  BY DEF IInv
<1> QED BY <1>1, Invariance, PTL

(* Without Redis, or when it fails, an event reaches every stream that was *)
(* open when it was published and still is.                                *)
THEOREM FallbackSound == Spec => []FallbackReaches
<1>1. IInv => FallbackReaches
  BY DEF IInv
<1> QED BY <1>1, Invariance, PTL

=============================================================================
