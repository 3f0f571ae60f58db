------------------------------ MODULE Records -------------------------------
(***************************************************************************)
(* The records of the backend and their lists: shipments with the files    *)
(* attached to them, the storage provider, the audit log, templates,       *)
(* notifications and organizations, and a client that walks through the    *)
(* pages of a list while other requests add and remove documents.          *)
(*                                                                         *)
(* A request is an async handler; one action is one call of the database,  *)
(* the storage provider or the chain with the synchronous code around it.  *)
(* A record is named after the request that creates it.                    *)
(***************************************************************************)
EXTENDS Integers, Sequences, FiniteSets, Functions, Listing

CONSTANTS
    Reqs,        \* request identifiers
    Old,         \* the record that exists already: of each kind one
    Orgs,        \* organizations and users that call
    MaxPhotos,   \* MAX_PHOTOS_PER_SHIPMENT
    ExportMax,   \* EXPORT_MAX_RECORDS
    MaxPages,    \* bound: pages that the client asks for
    Scripts      \* the inputs: requests, storage provider and the list walked

Ids == {Old} \union Reqs

Roles == {"SUPER_ADMIN", "ADMIN", "MANAGER", "DRIVER", "VIEWER", "CUSTOMER"}
Staff == {"ADMIN", "MANAGER"}

(* The shipments router. *)
ShipmentRoles ==
    [create |-> Staff, patch |-> Staff, delete |-> Staff, proof |-> Staff,
     document |-> Staff, photo |-> Staff, dispute |-> Staff, export |-> Staff,
     get |-> Staff \union {"SUPER_ADMIN", "VIEWER"}, track |-> Roles]

TemplateRoles ==
    [createTemplate |-> Staff, updateTemplate |-> Staff, deleteTemplate |-> Staff,
     getTemplate |-> Staff \union {"VIEWER"}]

NotificationRoles ==
    [markRead |-> Roles, markAllRead |-> Roles, deleteNote |-> Roles, setPreference |-> Roles]

OrganizationRoles ==
    [createOrg |-> {"SUPER_ADMIN"}, deleteOrg |-> {"SUPER_ADMIN"},
     updateOrg |-> {"ADMIN", "SUPER_ADMIN"}, getOrg |-> {"ADMIN", "SUPER_ADMIN"}]

(* Handlers of other modules that add a document to the list, or take one  *)
(* out of it.                                                              *)
Elsewhere == {"store", "drop"}

RolesOf(k) ==
    CASE k \in DOMAIN ShipmentRoles     -> ShipmentRoles[k]
      [] k \in DOMAIN TemplateRoles     -> TemplateRoles[k]
      [] k \in DOMAIN NotificationRoles -> NotificationRoles[k]
      [] k \in DOMAIN OrganizationRoles -> OrganizationRoles[k]
      [] OTHER -> Roles

Kinds == DOMAIN ShipmentRoles \union DOMAIN TemplateRoles \union DOMAIN NotificationRoles
         \union DOMAIN OrganizationRoles \union Elsewhere \union {"none"}

Uploads   == {"proof", "document", "photo", "dispute"}
Providers == {"mock", "s3", "cloudinary", "unknown"}

(* doc is what a list shows of the record that the request adds or removes *)
Bodies == [kind : Kinds, role : Roles, valid : BOOLEAN, file : {"none", "bad", "ok"},
           on : Ids, org : Orgs, value : Nat, doc : Doc]

(* generateProofKey and its siblings: the uuid makes it the request's own. *)
Keys == [shipment : Ids, folder : Uploads, by : Reqs]

(* trackingNumber, offChainMetadata, stellarTokenId, the files, deletedAt. *)
Shipment == [number : Nat, meta : Nat, token : BOOLEAN, proof : Keys \union {None},
             documents : Seq(Keys), photos : Seq(Keys), disputes : Seq(Keys \union {None}),
             deleted : BOOLEAN]

ASSUME RecordsAssumption ==
    /\ MaxPhotos \in Nat \ {0} /\ ExportMax \in Nat /\ MaxPages \in Nat
    /\ Old \notin Reqs /\ None \notin Ids \union Orgs \union Nat \union Shipment
    /\ Scripts \subseteq [calls : [Reqs -> Bodies], provider : Providers, complete : BOOLEAN,
                          list : Lists \union {None}, query : Query, docs : SUBSET Doc]

(* A collection is finite and _id unique; a walk starts at the beginning. *)
ASSUME WalkAssumption ==
    \A f \in Scripts :
        /\ IsFiniteSet(f.docs)
        /\ \A d, e \in f.docs \union {f.calls[r].doc : r \in Reqs} : d.id = e.id => d = e
        /\ f.list # None => FirstQuery(f.list, f.query)

VARIABLES
    call,     \* the input of each request
    pc,       \* where each handler is
    config,   \* STORAGE_PROVIDER, and whether its credentials are set
    adapter,  \* storageAdapterInstance of services/storage
    client,   \* the adapter has its client
    stored,   \* keys of the objects in the bucket
    ship,     \* shipment documents
    ledger,   \* files that PROOF_SUBMITTED blocks name
    audits,   \* audit entries: who did what
    peak,     \* history: most photo uploads at once between check and save
    tmpl,     \* shipment templates
    note,     \* notifications
    pref,     \* one notification preference of each user
    org,      \* organizations
    coll,     \* the documents that the walked list selects from
    walk      \* the client that walks

fileVars  == <<adapter, client, stored>>
shipVars  == <<ship, ledger, audits, peak>>
smallVars == <<tmpl, note, pref, org>>
walkVars  == <<coll, walk>>
vars == <<call, pc, config, fileVars, shipVars, smallVars, walkVars>>

NewShipment(v) == [number |-> v, meta |-> 0, token |-> FALSE, proof |-> None, documents |-> <<>>,
                   photos |-> <<>>, disputes |-> <<>>, deleted |-> FALSE]

Kind(r) == call[r].kind
On(r)   == call[r].on

First(k) == IF k = "none" THEN "ok" ELSE "guard"

Init ==
    \E f \in Scripts :
    /\ call = f.calls /\ pc = [r \in Reqs |-> First(f.calls[r].kind)]
    /\ config = [provider |-> f.provider, complete |-> f.complete]
    /\ adapter = None /\ client = FALSE /\ stored = {}
    /\ ship = [i \in Ids |-> IF i = Old THEN NewShipment(0) ELSE None]
    /\ ledger = {} /\ audits = {} /\ peak = 0
    /\ tmpl = [i \in Ids |-> None]
    /\ note = [o \in Orgs |-> [read |-> FALSE, deleted |-> FALSE]]
    /\ pref = [o \in Orgs |-> None]
    /\ org = [i \in Ids |-> None]
    /\ coll = f.docs
    /\ walk = [list |-> f.list, query |-> f.query, rows |-> None, total |-> None,
               got |-> <<>>, pages |-> 0, end |-> IF f.list = None THEN "done" ELSE "no",
               from |-> f.docs, ever |-> f.docs, gone |-> {}]

Goto(r, l) == pc' = [pc EXCEPT ![r] = l] /\ UNCHANGED <<call, config>>

(* Soft-deleted documents are hidden from find and findOneAndUpdate; save  *)
(* goes by _id alone.                                                      *)
Live(i) == ship[i] # None /\ ~ship[i].deleted

(* What the request adds to, or takes from, the list that is walked. *)
Listed(L, r) ==
    /\ coll' = IF walk.list \in L THEN coll \union {call[r].doc} ELSE coll
    /\ walk' = [walk EXCEPT !.ever = @ \union coll']

Unlisted(L, D) ==
    /\ coll' = IF walk.list \in L THEN coll \ D ELSE coll
    /\ walk' = [walk EXCEPT !.gone = @ \union (coll \ coll')]

-----------------------------------------------------------------------------
(* Admission. *)

(* multer and the controllers: a proof needs a file, a document or a photo *)
(* one of an allowed type and size.                                        *)
FileAccepted(r) ==
    CASE Kind(r) = "proof" -> call[r].file # "none"
      [] Kind(r) \in {"document", "photo"} -> call[r].file = "ok"
      [] OTHER -> TRUE

AfterGuard(r) ==
    CASE Kind(r) = "dispute" -> IF call[r].file = "none" THEN "find" ELSE "upload"
      [] Kind(r) \in Uploads \ {"dispute"} -> "upload"
      [] Kind(r) = "create"  -> "save"
      [] Kind(r) = "export"  -> "count"
      [] OTHER -> Kind(r)

(* requireRole, the schemas and the file filters, in that order. *)
Guard(r) ==
    /\ pc[r] = "guard"
    /\ Goto(r, IF call[r].role \in RolesOf(Kind(r)) /\ call[r].valid /\ FileAccepted(r)
               THEN AfterGuard(r) ELSE "error")
    /\ UNCHANGED <<fileVars, shipVars, smallVars, walkVars>>

-----------------------------------------------------------------------------
(* services/storage. *)

CreateS3Adapter         == IF config.complete THEN "s3" ELSE None
CreateCloudinaryAdapter == IF config.complete THEN "cloudinary" ELSE None

(* getStorageAdapter keeps the adapter it makes; None is a StorageError. *)
GetStorageAdapter ==
    IF adapter # None THEN adapter
    ELSE CASE config.provider = "mock"       -> "mock"
           [] config.provider = "s3"         -> CreateS3Adapter
           [] config.provider = "cloudinary" -> CreateCloudinaryAdapter
           [] config.provider = "unknown"    -> None

(* The SDK is imported when the client is first needed; without the        *)
(* package there is none.                                                  *)
InitializeClient   == IF client THEN {TRUE} ELSE BOOLEAN
InitializeUploader == IF client THEN {TRUE} ELSE BOOLEAN

Initialized(a) ==
    CASE a = "s3"         -> InitializeClient
      [] a = "cloudinary" -> InitializeUploader
      [] OTHER            -> {FALSE}

OpenStorage(r) ==
    /\ pc[r] = "upload"
    /\ adapter' = GetStorageAdapter
    /\ \E c \in Initialized(adapter') :
          /\ client' = c
          /\ Goto(r, IF adapter' = "mock" \/ c THEN "send" ELSE "error")
    /\ UNCHANGED <<stored, shipVars, smallVars, walkVars>>

Key(r) == [shipment |-> On(r), folder |-> Kind(r), by |-> r]

(* What an upload can come to; an answer can be lost. *)
S3Upload         == {"stored", "lost", "refused"}
CloudinaryUpload == {"stored", "lost", "refused"}
MockUpload       == {"stored"}

Outcomes ==
    CASE adapter = "s3"         -> S3Upload
      [] adapter = "cloudinary" -> CloudinaryUpload
      [] adapter = "mock"       -> MockUpload

AfterUpload(r) == IF Kind(r) = "proof" THEN "attach" ELSE "find"

(* Mutant: an error is logged, and the key taken for the URL. *)
UploadedAnyway(r, o) == AfterUpload(r)

(* uploadFileToStorage: every error of the adapter ends the request. *)
Uploaded(r, o) == IF o = "stored" THEN AfterUpload(r) ELSE "error"

UploadFile(r) ==
    /\ pc[r] = "send"
    /\ \E o \in Outcomes :
          /\ stored' = IF o = "refused" THEN stored ELSE stored \union {Key(r)}
          /\ Goto(r, Uploaded(r, o))
    /\ UNCHANGED <<adapter, client, shipVars, smallVars, walkVars>>

-----------------------------------------------------------------------------
(* Shipment records. *)

Set(i, s) == ship' = [ship EXCEPT ![i] = s]

(* createShipment: save, tokenize with a second save, best effort.  The    *)
(* tracking number is unique over deleted shipments too.                   *)
SaveShipment(r) ==
    /\ pc[r] = "save"
    /\ IF \E i \in Ids : ship[i] # None /\ ship[i].number = call[r].value
       THEN Goto(r, "error") /\ UNCHANGED <<ship, walkVars>>
       ELSE /\ Goto(r, "tokenize") /\ Set(r, NewShipment(call[r].value))
            /\ Listed({"shipments"}, r)
    /\ UNCHANGED <<fileVars, ledger, audits, peak, smallVars>>

TokenizeShipment(r) ==
    /\ pc[r] = "tokenize"
    /\ \E ok \in BOOLEAN : Goto(r, IF ok THEN "saveToken" ELSE "audit")
    /\ UNCHANGED <<fileVars, shipVars, smallVars, walkVars>>

SaveToken(r) ==
    /\ pc[r] = "saveToken" /\ Goto(r, "audit")
    /\ \E ok \in BOOLEAN : Set(r, [ship[r] EXCEPT !.token = ok])
    /\ UNCHANGED <<fileVars, ledger, audits, peak, smallVars, walkVars>>

(* patchShipment replaces the metadata. *)
PatchShipment(r) ==
    /\ pc[r] = "patch"
    /\ Goto(r, IF Live(On(r)) THEN "ok" ELSE "error")
    /\ IF Live(On(r)) THEN Set(On(r), [ship[On(r)] EXCEPT !.meta = call[r].value])
                      ELSE UNCHANGED ship
    /\ UNCHANGED <<fileVars, ledger, audits, peak, smallVars, walkVars>>

(* uploadShipmentProof: the newest proof replaces the one before it, in    *)
(* the timeline too; the file stays behind when the shipment is gone.      *)
AttachProof(r) ==
    /\ pc[r] = "attach"
    /\ IF Live(On(r))
       THEN /\ Goto(r, "block") /\ Set(On(r), [ship[On(r)] EXCEPT !.proof = Key(r)])
            /\ LET before == {call[u.by].doc : u \in {ship[On(r)].proof} \ {None}} IN
               IF walk.list = "timeline"
               THEN /\ coll' = (coll \ before) \union {call[r].doc}
                    /\ walk' = [walk EXCEPT !.ever = @ \union coll', !.gone = @ \union (coll \ coll')]
               ELSE UNCHANGED walkVars
       ELSE Goto(r, "error") /\ UNCHANGED <<ship, walkVars>>
    /\ UNCHANGED <<fileVars, ledger, audits, peak, smallVars>>

WriteProofBlock(r) ==
    /\ pc[r] = "block" /\ Goto(r, "audit")
    /\ \/ ledger' = ledger \union {Key(r)} /\ Listed({"ledger"}, r)
       \/ UNCHANGED <<ledger, walkVars>>     \* logged and dropped
    /\ UNCHANGED <<fileVars, ship, audits, peak, smallVars>>

InFlight == {r \in Reqs : Kind(r) = "photo" /\ pc[r] = "push"}

(* Mutant: off by one. *)
PhotoAllowedOneMore(i) == Len(ship[i].photos) <= MaxPhotos

(* findById of the other uploads; the photo limit is checked here. *)
PhotoAllowed(i) == Len(ship[i].photos) < MaxPhotos

FindShipment(r) ==
    /\ pc[r] = "find"
    /\ Goto(r, IF Live(On(r)) /\ (Kind(r) = "photo" => PhotoAllowed(On(r)))
               THEN "push" ELSE "error")
    /\ peak' = LET n == Cardinality(InFlight') IN IF n > peak THEN n ELSE peak
    /\ UNCHANGED <<fileVars, ship, ledger, audits, smallVars, walkVars>>

(* push and save: a $push of the one element, without a condition. *)
Pushed(s, r) ==
    CASE Kind(r) = "document" -> [s EXCEPT !.documents = Append(@, Key(r))]
      [] Kind(r) = "photo"    -> [s EXCEPT !.photos = Append(@, Key(r))]
      [] Kind(r) = "dispute"  ->
            [s EXCEPT !.disputes = Append(@, IF call[r].file = "none" THEN None ELSE Key(r))]

SavePush(r) ==
    /\ pc[r] = "push"
    /\ Goto(r, IF Kind(r) = "dispute" THEN "audit" ELSE "ok")
    /\ Set(On(r), Pushed(ship[On(r)], r))
    /\ UNCHANGED <<fileVars, ledger, audits, peak, smallVars, walkVars>>

(* deleteShipment marks the shipment, then its telemetry and anomalies. *)
DeleteShipment(r) ==
    /\ pc[r] = "delete"
    /\ IF Live(On(r))
       THEN /\ Goto(r, "cascade") /\ Set(On(r), [ship[On(r)] EXCEPT !.deleted = TRUE])
            /\ Unlisted({"shipments"}, {call[r].doc})
       ELSE Goto(r, "error") /\ UNCHANGED <<ship, walkVars>>
    /\ UNCHANGED <<fileVars, ledger, audits, peak, smallVars>>

CascadeDelete(r) ==
    /\ pc[r] = "cascade" /\ Goto(r, "ok")
    /\ Unlisted({"telemetry", "anomalies"}, coll)
    /\ UNCHANGED <<fileVars, shipVars, smallVars>>

(* getShipmentById reads the shipment and, but for a SUPER_ADMIN, reads it *)
(* again to see whether the caller is a party: value 0 stands for no.      *)
GetShipmentById(r) ==
    /\ pc[r] = "get"
    /\ Goto(r, CASE ~Live(On(r)) -> "error"
                 [] Live(On(r)) /\ call[r].role = "SUPER_ADMIN" -> "ok"
                 [] OTHER -> "authorize")
    /\ UNCHANGED <<fileVars, shipVars, smallVars, walkVars>>

Authorize(r) ==
    /\ pc[r] = "authorize"
    /\ Goto(r, IF Live(On(r)) /\ call[r].value # 0 THEN "ok" ELSE "error")
    /\ UNCHANGED <<fileVars, shipVars, smallVars, walkVars>>

GetPublicTracking(r) ==
    /\ pc[r] = "track" /\ Goto(r, IF Live(On(r)) THEN "ok" ELSE "error")
    /\ UNCHANGED <<fileVars, shipVars, smallVars, walkVars>>

(* exportShipments counts first, and limits the query that follows. *)
ExportShipments(r) ==
    /\ \/ /\ pc[r] = "count"
          /\ Goto(r, IF Cardinality({i \in Ids : Live(i)}) > ExportMax THEN "error" ELSE "rows")
       \/ pc[r] = "rows" /\ Goto(r, "ok")
    /\ UNCHANGED <<fileVars, shipVars, smallVars, walkVars>>

-----------------------------------------------------------------------------
(* The audit log: written after the answer, an entry may be lost. *)

InferResource(k) ==
    CASE k \in {"create", "proof", "dispute"} -> "SHIPMENT"
      [] OTHER -> "USER"

AuditLog(r) ==
    /\ pc[r] = "audit" /\ Goto(r, "ok")
    /\ \/ /\ audits' = audits \union {[by |-> r, action |-> Kind(r), resource |-> InferResource(Kind(r))]}
          /\ Listed({"audits", "activity"}, r)
       \/ UNCHANGED <<audits, walkVars>>
    /\ UNCHANGED <<fileVars, ship, ledger, peak, smallVars>>

-----------------------------------------------------------------------------
(* Templates belong to an organization, notifications to a user: a request *)
(* of another one finds nothing.                                           *)

OwnTemplate(r) ==
    tmpl[On(r)] # None /\ ~tmpl[On(r)].deleted /\ tmpl[On(r)].org = call[r].org

CreateTemplate(r) ==
    /\ pc[r] = "createTemplate" /\ Goto(r, "ok")
    /\ tmpl' = [tmpl EXCEPT ![r] = [org |-> call[r].org, name |-> call[r].value, deleted |-> FALSE]]
    /\ UNCHANGED <<fileVars, shipVars, note, pref, org, walkVars>>

GetTemplateById(r) ==
    /\ pc[r] = "getTemplate" /\ Goto(r, IF OwnTemplate(r) THEN "ok" ELSE "error")
    /\ UNCHANGED <<fileVars, shipVars, smallVars, walkVars>>

UpdateTemplate(r) ==
    /\ pc[r] = "updateTemplate" /\ Goto(r, IF OwnTemplate(r) THEN "ok" ELSE "error")
    /\ tmpl' = IF OwnTemplate(r) THEN [tmpl EXCEPT ![On(r)].name = call[r].value] ELSE tmpl
    /\ UNCHANGED <<fileVars, shipVars, note, pref, org, walkVars>>

DeleteTemplate(r) ==
    /\ pc[r] = "deleteTemplate" /\ Goto(r, IF OwnTemplate(r) THEN "ok" ELSE "error")
    /\ tmpl' = IF OwnTemplate(r) THEN [tmpl EXCEPT ![On(r)].deleted = TRUE] ELSE tmpl
    /\ UNCHANGED <<fileVars, shipVars, note, pref, org, walkVars>>

(* Each user has one notification; On names whose the request asks for:    *)
(* Old its own, any other id somebody else's.                              *)
OwnNote(r) == On(r) = Old /\ ~note[call[r].org].deleted

MarkRead(r) ==
    /\ pc[r] = "markRead" /\ Goto(r, IF OwnNote(r) THEN "ok" ELSE "error")
    /\ note' = IF OwnNote(r) THEN [note EXCEPT ![call[r].org].read = TRUE] ELSE note
    /\ UNCHANGED <<fileVars, shipVars, tmpl, pref, org, walkVars>>

(* updateMany: deleted ones are marked too. *)
MarkAllRead(r) ==
    /\ pc[r] = "markAllRead" /\ Goto(r, "ok")
    /\ note' = [note EXCEPT ![call[r].org].read = TRUE]
    /\ UNCHANGED <<fileVars, shipVars, tmpl, pref, org, walkVars>>

DeleteNotification(r) ==
    /\ pc[r] = "deleteNote"
    /\ IF OwnNote(r)
       THEN /\ Goto(r, "ok") /\ note' = [note EXCEPT ![call[r].org].deleted = TRUE]
            /\ Unlisted({"notifications"}, {call[r].doc})
       ELSE Goto(r, "error") /\ UNCHANGED <<note, walkVars>>
    /\ UNCHANGED <<fileVars, shipVars, tmpl, pref, org>>

(* findOneAndUpdate with upsert. *)
UpdatePreference(r) ==
    /\ pc[r] = "setPreference" /\ Goto(r, "ok")
    /\ pref' = [pref EXCEPT ![call[r].org] = call[r].value]
    /\ UNCHANGED <<fileVars, shipVars, tmpl, note, org, walkVars>>

-----------------------------------------------------------------------------
(* Organizations. *)

OrgLive(i) == org[i] # None /\ ~org[i].deleted

(* name is unique over deleted organizations too; the check before the     *)
(* insert sees live ones.                                                  *)
FindOrganizationByName(r) ==
    /\ pc[r] = "createOrg"
    /\ Goto(r, IF \E i \in Ids : OrgLive(i) /\ org[i].name = call[r].value
               THEN "error" ELSE "insertOrg")
    /\ UNCHANGED <<fileVars, shipVars, smallVars, walkVars>>

CreateOrganization(r) ==
    /\ pc[r] = "insertOrg"
    /\ IF \E i \in Ids : org[i] # None /\ org[i].name = call[r].value
       THEN Goto(r, "error") /\ UNCHANGED org
       ELSE /\ Goto(r, "ok")
            /\ org' = [org EXCEPT ![r] = [name |-> call[r].value, deleted |-> FALSE]]
    /\ UNCHANGED <<fileVars, shipVars, tmpl, note, pref, walkVars>>

(* The read of get, update and delete.  An ADMIN may only look at and      *)
(* change its own organization: value 0 stands for another one.            *)
OrgPermitted(r) == call[r].role = "SUPER_ADMIN" \/ call[r].value # 0

AfterOrg(k) == IF k = "getOrg" THEN "ok" ELSE IF k = "updateOrg" THEN "writeOrg" ELSE "dropOrg"

FindOrganization(r) ==
    /\ pc[r] \in {"getOrg", "updateOrg", "deleteOrg"}
    /\ Goto(r, IF OrgLive(On(r)) /\ OrgPermitted(r) THEN AfterOrg(Kind(r)) ELSE "error")
    /\ UNCHANGED <<fileVars, shipVars, smallVars, walkVars>>

(* The update names the organization; the schema lets no type through. *)
UpdateOrganization(r) ==
    /\ pc[r] = "writeOrg"
    /\ IF OrgLive(On(r)) /\ ~\E i \in Ids \ {On(r)} : org[i] # None /\ org[i].name = call[r].value
       THEN Goto(r, "ok") /\ org' = [org EXCEPT ![On(r)].name = call[r].value]
       ELSE Goto(r, "error") /\ UNCHANGED org
    /\ UNCHANGED <<fileVars, shipVars, tmpl, note, pref, walkVars>>

DeleteOrganization(r) ==
    /\ pc[r] = "dropOrg"
    /\ IF OrgLive(On(r))
       THEN Goto(r, "ok") /\ org' = [org EXCEPT ![On(r)].deleted = TRUE]
       ELSE Goto(r, "error") /\ UNCHANGED org
    /\ UNCHANGED <<fileVars, shipVars, tmpl, note, pref, walkVars>>

-----------------------------------------------------------------------------
(* The walk.  Rows and total are two reads; of payments the total comes    *)
(* first.                                                                  *)

Asking == walk.end = "no" /\ walk.pages < MaxPages

WalkFind ==
    /\ Asking /\ walk.rows = None
    /\ walk.list = "payments" => walk.total # None
    /\ IF walk.list = "timeline" /\ ~Live(Old)
       THEN walk' = [walk EXCEPT !.end = "failed"]
       ELSE walk' = [walk EXCEPT !.rows =
                        PageOf(walk.list, IF walk.list = "telemetry" /\ ~Live(Old) THEN {} ELSE coll,
                               walk.query)]
    /\ UNCHANGED <<call, pc, config, fileVars, shipVars, smallVars, coll>>

WalkCount ==
    /\ Asking /\ walk.total = None /\ walk.list \in Counted
    /\ walk' = [walk EXCEPT !.total = Cardinality(coll)]
    /\ UNCHANGED <<call, pc, config, fileVars, shipVars, smallVars, coll>>

(* The client goes on while the answer says that there is more. *)
MoreToAsk ==
    IF walk.query.page # None /\ walk.list \in Counted
    THEN walk.query.page * walk.query.limit < walk.total
    ELSE walk.rows.more

NextQuery ==
    IF walk.query.page # None THEN [walk.query EXCEPT !.page = @ + 1]
                              ELSE [walk.query EXCEPT !.cursor = walk.rows.next]

WalkAnswer ==
    /\ Asking /\ walk.rows # None
    /\ walk.list \in Counted => walk.total # None
    /\ walk' = [walk EXCEPT
                  !.got   = @ \o walk.rows.data,
                  !.pages = @ + 1,
                  !.query = IF MoreToAsk THEN NextQuery ELSE @,
                  !.end   = IF MoreToAsk THEN "no" ELSE "done",
                  !.rows  = None, !.total = None]
    /\ UNCHANGED <<call, pc, config, fileVars, shipVars, smallVars, coll>>

(* Writers of the other lists. *)
StoreElsewhere(r) ==
    /\ pc[r] = "store" /\ Goto(r, "ok")
    /\ Listed(Lists, r)
    /\ UNCHANGED <<fileVars, shipVars, smallVars>>

DropElsewhere(r) ==
    /\ pc[r] = "drop" /\ Goto(r, "ok")
    /\ Unlisted(Lists, {call[r].doc})
    /\ UNCHANGED <<fileVars, shipVars, smallVars>>

-----------------------------------------------------------------------------
ShipmentStep(r) ==
    \/ SaveShipment(r) \/ TokenizeShipment(r) \/ SaveToken(r) \/ PatchShipment(r)
    \/ AttachProof(r) \/ WriteProofBlock(r) \/ FindShipment(r) \/ SavePush(r)
    \/ DeleteShipment(r) \/ CascadeDelete(r) \/ GetShipmentById(r) \/ Authorize(r)
    \/ GetPublicTracking(r) \/ ExportShipments(r) \/ AuditLog(r)

SmallStep(r) ==
    \/ CreateTemplate(r) \/ GetTemplateById(r) \/ UpdateTemplate(r) \/ DeleteTemplate(r)
    \/ MarkRead(r) \/ MarkAllRead(r) \/ DeleteNotification(r) \/ UpdatePreference(r)
    \/ FindOrganizationByName(r) \/ CreateOrganization(r) \/ FindOrganization(r)
    \/ UpdateOrganization(r) \/ DeleteOrganization(r)
    \/ StoreElsewhere(r) \/ DropElsewhere(r)

Next ==
    \/ \E r \in Reqs : Guard(r) \/ OpenStorage(r) \/ UploadFile(r) \/ ShipmentStep(r) \/ SmallStep(r)
    \/ WalkFind \/ WalkCount \/ WalkAnswer

Spec == Init /\ [][Next]_vars

-----------------------------------------------------------------------------
(* Properties. *)

Files(i) ==
    {ship[i].proof} \union Range(ship[i].documents) \union Range(ship[i].photos)
    \union Range(ship[i].disputes)

(***************************************************************************)
(* Every file that a shipment or a PROOF_SUBMITTED block names is in the   *)
(* bucket and was uploaded for that shipment, whatever fails between the   *)
(* upload and the save and whatever other uploads and deletes come between *)
(* the two.  (The converse does not hold: files stay behind.)              *)
(***************************************************************************)
ReferencedIsStored ==
    /\ ledger \subseteq stored
    /\ \A i \in Ids : ship[i] # None =>
          \A u \in Files(i) \ {None} : u \in stored /\ u.shipment = i

(***************************************************************************)
(* The photo limit is checked before the save and not in it.  It can be    *)
(* exceeded, but only by uploads that were between check and save at the   *)
(* same time: n of them leave at most n - 1 photos beyond the limit.       *)
(***************************************************************************)
PhotosBounded ==
    \A i \in Ids : ship[i] # None =>
        Len(ship[i].photos) <= MaxPhotos - 1 + (IF peak = 0 THEN 1 ELSE peak)

(* When a walk can be relied on: the _id cursor needs ids in the order of  *)
(* the sort, newest first; the activity feed needs distinct timestamps; a  *)
(* timeline needs distinct keys and none removed; pages need a collection  *)
(* that stands still.                                                      *)
InIdOrder(D)     == \A d, e \in D : d.id < e.id => d.time <= e.time
DistinctTimes(D) == \A d, e \in D : d.time = e.time => d = e
DistinctKeys(D)  == \A d, e \in D : d.key = e.key => d = e

Reliable ==
    IF walk.query.page # None THEN walk.ever = walk.from /\ walk.gone = {}
    ELSE CASE walk.list \in ByIdCursor -> InIdOrder(walk.ever) /\ (walk.list = "payments" => ~walk.query.asc)
           [] walk.list = "activity" -> DistinctTimes(walk.ever)
           [] walk.list = "timeline" -> DistinctKeys(walk.ever) /\ walk.gone = {}
           [] OTHER -> TRUE

(***************************************************************************)
(* A client that follows a list to its end has been given every document   *)
(* that was there all along, and none twice, although documents are added  *)
(* and removed between two pages.                                          *)
(***************************************************************************)
WalkComplete ==
    (walk.end = "done" /\ walk.list # None /\ Reliable /\
       (walk.list = "telemetry" => Live(Old))) =>
        /\ walk.from \ walk.gone \subseteq Range(walk.got)
        /\ \A k, l \in DOMAIN walk.got : walk.got[k].id = walk.got[l].id => k = l
=============================================================================
