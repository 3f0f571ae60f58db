---------------------------- MODULE RecordsProofs ----------------------------
(***************************************************************************)
(* For any requests, documents and queries: the files that shipments and   *)
(* blocks name are stored, the photo limit is exceeded by no more than the *)
(* uploads that overlap, and a list that is walked to its end has given    *)
(* every lasting document once.                                            *)
(***************************************************************************)
EXTENDS Records, FiniteSetTheorems, TLAPS

-----------------------------------------------------------------------------
(* Files. *)

Typed ==
    /\ call \in [Reqs -> Bodies]
    /\ DOMAIN pc = Reqs /\ pc = [r \in Reqs |-> pc[r]]
    /\ ship \in [Ids -> Shipment \union {None}]
    /\ peak \in Nat
    /\ IsFiniteSet(InFlight)

(* What holds of a handler that is at l: only uploads come to these        *)
(* labels, with their file in the bucket if they have one; the shipment    *)
(* that was found, or created, is there; a request that has yet to create  *)
(* one has none.                                                           *)
Fits(r, l) ==
    /\ l \in {"upload", "send"} => Kind(r) \in Uploads
    /\ l \in {"attach", "block"} => Kind(r) = "proof" /\ Key(r) \in stored
    /\ l \in {"find", "push"} =>
          /\ Kind(r) \in Uploads \ {"proof"}
          /\ Key(r) \in stored \/ (Kind(r) = "dispute" /\ call[r].file = "none")
    /\ l = "push" => ship[On(r)] # None
    /\ l \in {"tokenize", "saveToken"} => ship[r] # None
    /\ l \in {"guard", "save"} => ship[r] = None

HandlersOK == \A r \in Reqs : Fits(r, pc[r])

FileInv == Typed /\ HandlersOK /\ ReferencedIsStored

(* A file more in a list. *)
LEMMA RangeAppend ==
    ASSUME NEW S, NEW q \in Seq(S), NEW x \in S
    PROVE  Range(Append(q, x)) = Range(q) \union {x}
<1> DEFINE p == Append(q, x)
<1>1. /\ DOMAIN p = DOMAIN q \union {Len(q) + 1}
      /\ \A i \in DOMAIN q : p[i] = q[i]
      /\ p[Len(q) + 1] = x
  OBVIOUS
<1> HIDE DEF p
<1>2. Range(p) = Range(q) \union {x}
  BY <1>1, Zenon DEF Range
<1> QED BY <1>2 DEF p

(* The key of an upload, and the places it names. *)
LEMMA KeyOK ==
    ASSUME Typed, NEW r \in Reqs
    PROVE  /\ On(r) \in Ids /\ r \in Ids /\ r # Old
           /\ Key(r).shipment = On(r)
           /\ Kind(r) \in Uploads => Key(r) \in Keys
           /\ call[r].value \in Nat
  BY RecordsAssumption DEF Typed, Bodies, On, Key, Kind, Keys, Ids

(* A step of r to l that leaves shipments, bucket and blocks alone. *)
LEMMA MoveOK ==
    ASSUME FileInv, NEW r \in Reqs, NEW l, Goto(r, l), Fits(r, l),
           UNCHANGED <<ship, ledger, stored>>, peak' \in Nat, IsFiniteSet(InFlight')
    PROVE  FileInv'
<1>1. \A x \in Reqs : pc'[x] = IF x = r THEN l ELSE pc[x]
  BY DEF FileInv, Typed, Goto
<1>2. Typed'
  BY DEF FileInv, Typed, Goto
<1>3. HandlersOK'
  BY <1>1 DEF FileInv, HandlersOK, Fits, Goto, Kind, On, Key
<1>4. ReferencedIsStored'
  BY DEF FileInv, ReferencedIsStored, Files
<1> QED BY <1>2, <1>3, <1>4 DEF FileInv

(* Photo uploads are where they were unless r comes to the push or leaves it. *)
LEMMA FlightKept ==
    ASSUME Typed, NEW r \in Reqs, NEW l, Goto(r, l), Kind(r) = "photo" => l # "push" /\ pc[r] # "push"
    PROVE  InFlight' = InFlight
<1>1. \A x \in Reqs : pc'[x] = IF x = r THEN l ELSE pc[x]
  BY DEF Typed, Goto
<1> QED BY <1>1 DEF InFlight, Goto, Kind

(* A step of r to l that sets shipment i to s, with no file that was not   *)
(* stored for it.                                                          *)
LEMMA SetOK ==
    ASSUME FileInv, NEW r \in Reqs, NEW l, NEW i \in Ids, NEW s \in Shipment,
           Goto(r, l), Set(i, s), UNCHANGED <<ledger, stored, peak>>, IsFiniteSet(InFlight'),
           ship[i] # None \/ (i = r /\ l \notin {"guard", "save"}),
           Fits(r, l) \/ (l = "tokenize" /\ i = r),
           \A u \in ({s.proof} \union Range(s.documents) \union Range(s.photos) \union Range(s.disputes)) \ {None} :
              u \in stored /\ u.shipment = i
    PROVE  FileInv'
<1>0. s # None /\ Old \notin Reqs
  BY RecordsAssumption
<1>1. \A x \in Reqs : pc'[x] = IF x = r THEN l ELSE pc[x]
  BY DEF FileInv, Typed, Goto
<1>2. \A j \in Ids : ship'[j] = IF j = i THEN s ELSE ship[j]
  BY DEF FileInv, Typed, Set
<1>3. Typed'
  BY DEF FileInv, Typed, Goto, Set
<1>4. HandlersOK'
  <2> SUFFICES ASSUME NEW x \in Reqs PROVE Fits(x, pc[x])'
    BY DEF HandlersOK
  <2>1. x \in Ids /\ On(x) \in Ids
    BY KeyOK DEF FileInv
  <2>2. CASE x # r
    <3>1. Fits(x, pc[x]) /\ pc'[x] = pc[x]
      BY <2>2, <1>1 DEF FileInv, HandlersOK
    <3>2. pc[x] \in {"guard", "save"} => x # i
      BY <2>2, <3>1 DEF Fits
    <3> QED BY <3>1, <3>2, <2>1, <1>0, <1>2 DEF Fits, Goto, Kind, On, Key
  <2>3. CASE x = r
    BY <2>1, <2>3, <1>0, <1>1, <1>2 DEF Fits, Goto, Kind, On, Key
  <2> QED BY <2>2, <2>3
<1>5. ReferencedIsStored'
  <2> SUFFICES ASSUME NEW j \in Ids, ship'[j] # None, NEW u \in Files(j)' \ {None}
               PROVE  u \in stored /\ u.shipment = j
    BY DEF FileInv, ReferencedIsStored
  <2>1. CASE j = i
    BY <2>1, <1>2 DEF Files
  <2>2. CASE j # i
    <3>1. ship'[j] = ship[j]
      BY <2>2, <1>2
    <3> QED BY <3>1 DEF Files, FileInv, ReferencedIsStored
  <2> QED BY <2>1, <2>2
<1> QED BY <1>3, <1>4, <1>5 DEF FileInv

(* The steps of a request that only move it on. *)
Moves(r) ==
    \/ Guard(r) \/ OpenStorage(r) \/ TokenizeShipment(r) \/ CascadeDelete(r) \/ GetShipmentById(r)
    \/ Authorize(r) \/ GetPublicTracking(r) \/ ExportShipments(r) \/ AuditLog(r) \/ SmallStep(r)

(* Such a step leaves the files alone and takes r to a label that fits it. *)
LEMMA MovesOn ==
    ASSUME FileInv, NEW r \in Reqs, Moves(r)
    PROVE  /\ UNCHANGED <<ship, ledger, stored, peak>>
           /\ pc[r] # "push"
           /\ \E l : l # "push" /\ Goto(r, l) /\ Fits(r, l)
<1> USE DEF shipVars, fileVars
<1>0. Fits(r, pc[r])
  BY DEF FileInv, HandlersOK
<1>1. CASE Guard(r)
  <2>1. Kind(r) \in Kinds
    BY DEF FileInv, Typed, Bodies, Kind
  <2>2. Fits(r, AfterGuard(r)) /\ AfterGuard(r) # "push"
    <3>1. CASE Kind(r) \in Uploads \union {"create", "export"}
      BY <3>1, <1>0, <1>1 DEF AfterGuard, Fits, Guard, Uploads
    <3>2. CASE Kind(r) \notin Uploads \union {"create", "export"}
      <4>1. AfterGuard(r) = Kind(r)
        BY <3>2 DEF AfterGuard, Uploads
      <4>2. Kind(r) \notin {"upload", "send", "attach", "block", "find", "push", "tokenize", "saveToken",
                            "guard", "save"}
        BY <2>1 DEF Kinds, ShipmentRoles, TemplateRoles, NotificationRoles, OrganizationRoles, Elsewhere
      <4> QED BY <4>1, <4>2 DEF Fits
    <3> QED BY <3>1, <3>2
  <2>3. Fits(r, "error")
    BY DEF Fits
  <2> QED BY <1>1, <2>2, <2>3 DEF Guard
<1>2. CASE OpenStorage(r)
  <2>1. Fits(r, "send") /\ Fits(r, "error")
    BY <1>0, <1>2 DEF OpenStorage, Fits
  <2>2. UNCHANGED <<ship, ledger, stored, peak>> /\ pc[r] # "push"
    BY <1>2 DEF OpenStorage
  <2>3. Goto(r, "send") \/ Goto(r, "error")
    BY <1>2 DEF OpenStorage
  <2> QED BY <2>1, <2>2, <2>3
<1>3. CASE TokenizeShipment(r)
  <2>1. Fits(r, "saveToken") /\ Fits(r, "audit")
    BY <1>0, <1>3 DEF TokenizeShipment, Fits
  <2> QED BY <2>1, <1>3 DEF TokenizeShipment
<1>4. CASE CascadeDelete(r) \/ GetShipmentById(r) \/ Authorize(r) \/ GetPublicTracking(r)
  <2>1. Fits(r, "ok") /\ Fits(r, "error") /\ Fits(r, "authorize")
    BY DEF Fits
  <2>2. UNCHANGED <<ship, ledger, stored, peak>> /\ pc[r] # "push"
    BY <1>4 DEF CascadeDelete, GetShipmentById, Authorize, GetPublicTracking
  <2>3. \E l \in {"ok", "error", "authorize"} : Goto(r, l)
    BY <1>4 DEF CascadeDelete, GetShipmentById, Authorize, GetPublicTracking
  <2> QED BY <2>1, <2>2, <2>3
<1>5. CASE ExportShipments(r) \/ AuditLog(r)
  <2>1. Fits(r, "ok") /\ Fits(r, "error") /\ Fits(r, "rows")
    BY DEF Fits
  <2>2. UNCHANGED <<ship, ledger, stored, peak>> /\ pc[r] # "push"
    BY <1>5 DEF ExportShipments, AuditLog
  <2>3. \E l \in {"ok", "error", "rows"} : Goto(r, l)
    BY <1>5 DEF ExportShipments, AuditLog
  <2> QED BY <2>1, <2>2, <2>3
<1>6. CASE SmallStep(r)
  <2>1. \A l \in {"ok", "error", "insertOrg", "writeOrg", "dropOrg"} : Fits(r, l)
    BY DEF Fits
  <2>2. UNCHANGED <<ship, ledger, stored, peak>> /\ pc[r] # "push"
    BY <1>6 DEF SmallStep, CreateTemplate, GetTemplateById, UpdateTemplate, DeleteTemplate, MarkRead,
                MarkAllRead, DeleteNotification, UpdatePreference, FindOrganizationByName,
                CreateOrganization, FindOrganization, UpdateOrganization, DeleteOrganization,
                StoreElsewhere, DropElsewhere
  <2>3. \E l \in {"ok", "error", "insertOrg", "writeOrg", "dropOrg"} : Goto(r, l)
    BY <1>6 DEF SmallStep, CreateTemplate, GetTemplateById, UpdateTemplate, DeleteTemplate, MarkRead,
                MarkAllRead, DeleteNotification, UpdatePreference, FindOrganizationByName,
                CreateOrganization, FindOrganization, UpdateOrganization, DeleteOrganization,
                StoreElsewhere, DropElsewhere, AfterOrg
  <2> QED BY <2>1, <2>2, <2>3
<1> QED BY <1>1, <1>2, <1>3, <1>4, <1>5, <1>6 DEF Moves

(* A shipment's files, one at a time. *)
NamesStored(s, i) ==
    \A u \in ({s.proof} \union Range(s.documents) \union Range(s.photos) \union Range(s.disputes)) \ {None} :
        u \in stored /\ u.shipment = i

(* The files of a shipment that exists are stored for it. *)
LEMMA NamesOK ==
    ASSUME FileInv, NEW i \in Ids, ship[i] # None
    PROVE  ship[i] \in Shipment /\ NamesStored(ship[i], i)
  BY DEF FileInv, Typed, ReferencedIsStored, Files, NamesStored

(* uploadFileToStorage *)
LEMMA UploadOK ==
    ASSUME FileInv, NEW r \in Reqs, UploadFile(r)
    PROVE  FileInv'
<1>1. PICK o : /\ stored' = IF o = "refused" THEN stored ELSE stored \union {Key(r)}
               /\ Goto(r, Uploaded(r, o))
  BY DEF UploadFile
<1>2. pc[r] = "send" /\ UNCHANGED <<ship, ledger, peak>>
  BY DEF UploadFile, shipVars
<1>l. PICK l : l = Uploaded(r, o)
  OBVIOUS
<1>3. l \in {"error", "attach", "find"}
  BY <1>l DEF Uploaded, AfterUpload
<1>4. \A x \in Reqs : pc'[x] = IF x = r THEN l ELSE pc[x]
  BY <1>1, <1>l DEF FileInv, Typed, Goto
<1>5. InFlight' = InFlight
  BY <1>1, <1>2, <1>3, <1>l, FlightKept DEF FileInv
<1>6. Typed'
  BY <1>1, <1>2, <1>5 DEF FileInv, Typed, Goto
<1>7. HandlersOK'
  <2> SUFFICES ASSUME NEW x \in Reqs PROVE Fits(x, pc[x])'
    BY DEF HandlersOK
  <2>1. Fits(x, pc[x])
    BY DEF FileInv, HandlersOK
  <2>2. CASE x # r
    BY <2>1, <2>2, <1>1, <1>2, <1>4 DEF Fits, Goto, Kind, On, Key
  <2>3. CASE x = r
    <3>1. Kind(r) \in Uploads
      BY <2>1, <2>3, <1>2 DEF Fits
    <3>2. l # "error" => Key(r) \in stored' /\ l = AfterUpload(r)
      BY <1>1, <1>l DEF Uploaded, AfterUpload
    <3>3. Fits(r, l)'
      BY <3>1, <3>2, <1>1, <1>3 DEF Fits, AfterUpload, Goto, Kind, On, Key, Uploads
    <3> QED BY <2>3, <3>3, <1>4 DEF Fits, Goto, Kind, On, Key
  <2> QED BY <2>2, <2>3
<1>8. ReferencedIsStored'
  BY <1>1, <1>2 DEF FileInv, ReferencedIsStored, Files
<1> QED BY <1>6, <1>7, <1>8 DEF FileInv

(* A change of the other fields. *)
LEMMA SameFiles ==
    ASSUME NEW s \in Shipment, NEW t \in Shipment, NEW i, NamesStored(s, i),
           t.proof = s.proof, t.documents = s.documents, t.photos = s.photos, t.disputes = s.disputes
    PROVE  NamesStored(t, i)
  BY DEF NamesStored

(* patchShipment, the token and the soft delete change no file. *)
LEMMA FieldOK ==
    ASSUME NEW s \in Shipment, NEW i, NamesStored(s, i), NEW b \in BOOLEAN, NEW n \in Nat
    PROVE  /\ [s EXCEPT !.token = b] \in Shipment /\ NamesStored([s EXCEPT !.token = b], i)
           /\ [s EXCEPT !.meta = n] \in Shipment /\ NamesStored([s EXCEPT !.meta = n], i)
           /\ [s EXCEPT !.deleted = b] \in Shipment /\ NamesStored([s EXCEPT !.deleted = b], i)
<1>1. /\ [s EXCEPT !.token = b] \in Shipment
      /\ [s EXCEPT !.meta = n] \in Shipment
      /\ [s EXCEPT !.deleted = b] \in Shipment
  BY DEF Shipment
<1> DEFINE x == [s EXCEPT !.token = b]
           y == [s EXCEPT !.meta = n]
           z == [s EXCEPT !.deleted = b]
<1>2. /\ x.proof = s.proof /\ x.documents = s.documents /\ x.photos = s.photos /\ x.disputes = s.disputes
      /\ y.proof = s.proof /\ y.documents = s.documents /\ y.photos = s.photos /\ y.disputes = s.disputes
      /\ z.proof = s.proof /\ z.documents = s.documents /\ z.photos = s.photos /\ z.disputes = s.disputes
  BY DEF Shipment
<1>3. x \in Shipment /\ y \in Shipment /\ z \in Shipment
  BY <1>1
<1> HIDE DEF x, y, z
<1>4. NamesStored(x, i) /\ NamesStored(y, i) /\ NamesStored(z, i)
  BY <1>2, <1>3, SameFiles
<1> QED BY <1>1, <1>4 DEF x, y, z

(* createShipment, patchShipment and deleteShipment name no new files. *)
LEMMA PlainWriteOK ==
    ASSUME FileInv, NEW r \in Reqs,
           SaveShipment(r) \/ SaveToken(r) \/ PatchShipment(r) \/ DeleteShipment(r)
    PROVE  FileInv'
<1>k. On(r) \in Ids /\ r \in Ids /\ call[r].value \in Nat
  BY KeyOK DEF FileInv
<1>f. Fits(r, "error") /\ Fits(r, "ok") /\ Fits(r, "audit") /\ Fits(r, "cascade")
  BY DEF Fits
<1>u. /\ UNCHANGED <<ledger, stored, peak>>
      /\ pc[r] # "push"
      /\ \E l : Goto(r, l) /\ l # "push"
  BY DEF SaveShipment, SaveToken, PatchShipment, DeleteShipment, fileVars
<1>i. InFlight' = InFlight /\ IsFiniteSet(InFlight') /\ peak' \in Nat
  <2>1. PICK l : Goto(r, l) /\ l # "push"
    BY <1>u
  <2> QED BY <2>1, <1>u, FlightKept DEF FileInv, Typed
<1>1. CASE SaveShipment(r)
  <2>1. CASE Goto(r, "error") /\ UNCHANGED ship
    BY <2>1, <1>f, <1>u, <1>i, MoveOK
  <2>2. CASE Goto(r, "tokenize") /\ Set(r, NewShipment(call[r].value))
    <3>1. NewShipment(call[r].value) \in Shipment
      BY <1>k DEF NewShipment, Shipment
    <3>2. NamesStored(NewShipment(call[r].value), r)
      BY DEF NamesStored, NewShipment, Range
    <3> QED BY <2>2, <3>1, <3>2, <1>k, <1>u, <1>i, SetOK DEF NamesStored
  <2> QED BY <1>1, <2>1, <2>2 DEF SaveShipment
<1>2. CASE SaveToken(r)
  <2>1. ship[r] # None
    BY <1>2 DEF SaveToken, FileInv, HandlersOK, Fits
  <2>2. PICK b \in BOOLEAN : Set(r, [ship[r] EXCEPT !.token = b]) /\ Goto(r, "audit")
    BY <1>2 DEF SaveToken
  <2>3. [ship[r] EXCEPT !.token = b] \in Shipment /\ NamesStored([ship[r] EXCEPT !.token = b], r)
    BY <2>1, <1>k, NamesOK, FieldOK
  <2> QED BY <2>1, <2>2, <2>3, <1>k, <1>f, <1>u, <1>i, SetOK DEF NamesStored
<1>3. CASE PatchShipment(r)
  <2>1. CASE Live(On(r))
    <3> DEFINE s == [ship[On(r)] EXCEPT !.meta = call[r].value]
    <3>1. ship[On(r)] # None /\ Set(On(r), s) /\ Goto(r, "ok")
      BY <1>3, <2>1 DEF PatchShipment, Live
    <3>2. s \in Shipment /\ NamesStored(s, On(r))
      BY <3>1, <1>k, NamesOK, FieldOK
    <3> HIDE DEF s
    <3> QED BY <3>1, <3>2, <1>k, <1>f, <1>u, <1>i, SetOK DEF NamesStored
  <2>2. CASE ~Live(On(r))
    BY <1>3, <2>2, <1>f, <1>u, <1>i, MoveOK DEF PatchShipment
  <2> QED BY <2>1, <2>2
<1>4. CASE DeleteShipment(r)
  <2>1. CASE Live(On(r))
    <3> DEFINE s == [ship[On(r)] EXCEPT !.deleted = TRUE]
    <3>1. ship[On(r)] # None /\ Set(On(r), s) /\ Goto(r, "cascade")
      BY <1>4, <2>1 DEF DeleteShipment, Live
    <3>2. s \in Shipment /\ NamesStored(s, On(r))
      BY <3>1, <1>k, NamesOK, FieldOK
    <3> HIDE DEF s
    <3> QED BY <3>1, <3>2, <1>k, <1>f, <1>u, <1>i, SetOK DEF NamesStored
  <2>2. CASE ~Live(On(r))
    BY <1>4, <2>2, <1>f, <1>u, <1>i, MoveOK DEF DeleteShipment
  <2> QED BY <2>1, <2>2
<1> QED BY <1>1, <1>2, <1>3, <1>4

(* uploadShipmentProof *)
LEMMA ProofOK ==
    ASSUME FileInv, NEW r \in Reqs, AttachProof(r) \/ WriteProofBlock(r)
    PROVE  FileInv'
<1>k. On(r) \in Ids /\ Key(r).shipment = On(r) /\ (Kind(r) \in Uploads => Key(r) \in Keys)
  BY KeyOK DEF FileInv
<1>p. Kind(r) = "proof" /\ Key(r) \in stored /\ pc[r] # "push"
  BY DEF AttachProof, WriteProofBlock, FileInv, HandlersOK, Fits
<1>f. Fits(r, "error") /\ Fits(r, "audit") /\ Fits(r, "block")
  BY <1>p DEF Fits
<1>u. UNCHANGED <<stored, peak>> /\ \E l \in {"error", "audit", "block"} : Goto(r, l)
  BY DEF AttachProof, WriteProofBlock, fileVars
<1>i. InFlight' = InFlight /\ IsFiniteSet(InFlight') /\ peak' \in Nat
  BY <1>p, <1>u, FlightKept DEF FileInv, Typed
<1>1. CASE AttachProof(r)
  <2>1. CASE Live(On(r))
    <3> DEFINE s == [ship[On(r)] EXCEPT !.proof = Key(r)]
    <3>1. ship[On(r)] # None /\ Set(On(r), s) /\ Goto(r, "block") /\ ledger' = ledger
      BY <1>1, <2>1 DEF AttachProof, Live
    <3>2. ship[On(r)] \in Shipment /\ NamesStored(ship[On(r)], On(r))
      BY <3>1, <1>k, NamesOK
    <3>3. s \in Shipment
      BY <3>2, <1>k, <1>p DEF Shipment, Uploads
    <3>4. NamesStored(s, On(r))
      BY <3>2, <1>k, <1>p DEF Shipment, NamesStored
    <3> HIDE DEF s
    <3> QED BY <3>1, <3>3, <3>4, <1>k, <1>f, <1>u, <1>i, SetOK DEF NamesStored
  <2>2. CASE ~Live(On(r))
    BY <1>1, <2>2, <1>f, <1>u, <1>i, MoveOK DEF AttachProof
  <2> QED BY <2>1, <2>2
<1>2. CASE WriteProofBlock(r)
  <2>1. /\ Goto(r, "audit") /\ ship' = ship
        /\ ledger' = ledger \/ ledger' = ledger \union {Key(r)}
    BY <1>2 DEF WriteProofBlock
  <2>2. \A x \in Reqs : pc'[x] = IF x = r THEN "audit" ELSE pc[x]
    BY <2>1 DEF FileInv, Typed, Goto
  <2>3. Typed'
    BY <2>1, <1>i DEF FileInv, Typed, Goto
  <2>4. HandlersOK'
    BY <2>1, <2>2, <1>u, <1>f DEF FileInv, HandlersOK, Fits, Goto, Kind, On, Key
  <2>5. ReferencedIsStored'
    BY <2>1, <1>u, <1>p DEF FileInv, ReferencedIsStored, Files
  <2> QED BY <2>3, <2>4, <2>5 DEF FileInv
<1> QED BY <1>1, <1>2

(* The check of the other uploads. *)
LEMMA FindOK ==
    ASSUME FileInv, NEW r \in Reqs, FindShipment(r)
    PROVE  /\ FileInv'
           /\ UNCHANGED <<ship, call>>
           /\ InFlight' \subseteq InFlight \union {r} /\ InFlight \subseteq InFlight'
           /\ \A x \in Reqs \ {r} : pc'[x] = pc[x]
           /\ pc[r] # "push"
           /\ pc'[r] = "push" /\ Kind(r) = "photo" => PhotoAllowed(On(r))
           /\ Cardinality(InFlight') <= peak' /\ peak <= peak' /\ peak' \in Nat
<1> DEFINE l == IF Live(On(r)) /\ (Kind(r) = "photo" => PhotoAllowed(On(r))) THEN "push" ELSE "error"
<1>1. /\ pc[r] = "find" /\ Goto(r, l)
      /\ peak' = IF Cardinality(InFlight') > peak THEN Cardinality(InFlight') ELSE peak
      /\ UNCHANGED <<ship, ledger, stored, call>>
  BY DEF FindShipment, fileVars, Goto
<1>2. l = "push" => Live(On(r)) /\ (Kind(r) = "photo" => PhotoAllowed(On(r)))
  OBVIOUS
<1>3. l \in {"push", "error"}
  OBVIOUS
<1> HIDE DEF l
<1>4. \A x \in Reqs : pc'[x] = IF x = r THEN l ELSE pc[x]
  BY <1>1 DEF FileInv, Typed, Goto
<1>5. InFlight' \subseteq InFlight \union {r} /\ InFlight \subseteq InFlight'
  BY <1>1, <1>4 DEF InFlight, Kind
<1>6. IsFiniteSet(InFlight')
  BY <1>5, FS_AddElement, FS_Subset DEF FileInv, Typed
<1>7. Cardinality(InFlight') \in Nat /\ peak \in Nat
  BY <1>6, FS_CardinalityType DEF FileInv, Typed
<1>8. peak' \in Nat /\ Cardinality(InFlight') <= peak' /\ peak <= peak'
  BY <1>1, <1>7
<1>9. Fits(r, l)
  BY <1>1, <1>2, <1>3 DEF FileInv, HandlersOK, Fits, Live
<1>10. FileInv'
  BY <1>1, <1>6, <1>8, <1>9, MoveOK
<1> QED BY <1>1, <1>2, <1>4, <1>5, <1>8, <1>10

(* push and save *)
LEMMA PushOK ==
    ASSUME FileInv, NEW r \in Reqs, SavePush(r)
    PROVE  /\ FileInv'
           /\ UNCHANGED <<call, peak>>
           /\ \A x \in Reqs \ {r} : pc'[x] = pc[x]
           /\ pc'[r] # "push" /\ pc[r] = "push"
           /\ \A j \in Ids \ {On(r)} : ship'[j] = ship[j]
           /\ On(r) \in Ids /\ ship[On(r)] \in Shipment
           /\ Len(ship'[On(r)].photos) = Len(ship[On(r)].photos) + (IF Kind(r) = "photo" THEN 1 ELSE 0)
<1> DEFINE l == IF Kind(r) = "dispute" THEN "audit" ELSE "ok"
           s == ship[On(r)]
           t == Pushed(s, r)
<1>1. /\ pc[r] = "push" /\ Goto(r, l) /\ Set(On(r), t)
      /\ UNCHANGED <<ledger, stored, peak, call>>
  BY DEF SavePush, fileVars, Goto
<1>2. l \in {"audit", "ok"}
  OBVIOUS
<1> HIDE DEF l
<1>3. /\ On(r) \in Ids /\ Key(r).shipment = On(r)
      /\ Kind(r) \in {"document", "photo", "dispute"}
      /\ Key(r) \in Keys /\ s # None
      /\ Key(r) \in stored \/ (Kind(r) = "dispute" /\ call[r].file = "none")
  <2>1. Fits(r, "push")
    BY <1>1 DEF FileInv, HandlersOK
  <2>2. Kind(r) \in {"document", "photo", "dispute"}
    BY <2>1 DEF Fits, Uploads
  <2> QED BY <2>1, <2>2, KeyOK DEF FileInv, Fits, Uploads
<1>4. s \in Shipment /\ NamesStored(s, On(r))
  BY <1>3, NamesOK
<1> DEFINE f == IF call[r].file = "none" THEN None ELSE Key(r)
<1>5. f \in Keys \union {None}
  BY <1>3
<1>6. /\ s.documents \in Seq(Keys) /\ s.photos \in Seq(Keys) /\ s.disputes \in Seq(Keys \union {None})
  BY <1>4 DEF Shipment
<1>7. /\ Append(s.documents, Key(r)) \in Seq(Keys)
      /\ Append(s.photos, Key(r)) \in Seq(Keys)
      /\ Append(s.disputes, f) \in Seq(Keys \union {None})
  BY <1>3, <1>5, <1>6
<1>8. /\ Range(Append(s.documents, Key(r))) = Range(s.documents) \union {Key(r)}
      /\ Range(Append(s.photos, Key(r))) = Range(s.photos) \union {Key(r)}
      /\ Range(Append(s.disputes, f)) = Range(s.disputes) \union {f}
  BY <1>3, <1>5, <1>6, RangeAppend
<1>a. Len(Append(s.photos, Key(r))) = Len(s.photos) + 1 /\ Len(s.photos) \in Nat
  BY <1>6
<1> HIDE DEF s, f
<1>b. /\ t \in Shipment /\ NamesStored(t, On(r))
      /\ Len(t.photos) = Len(s.photos) + (IF Kind(r) = "photo" THEN 1 ELSE 0)
  <2>1. CASE Kind(r) = "document"
    <3> DEFINE v == [s EXCEPT !.documents = Append(s.documents, Key(r))]
    <3>1. /\ v \in Shipment
          /\ v.proof = s.proof /\ v.documents = Append(s.documents, Key(r))
          /\ v.photos = s.photos /\ v.disputes = s.disputes
      BY <1>4, <1>7 DEF Shipment
    <3>2. t = v
      BY <2>1 DEF Pushed
    <3> HIDE DEF v, t
    <3>3. NamesStored(v, On(r))
      BY <3>1, <1>3, <1>4, <1>8, <2>1 DEF NamesStored
    <3> QED BY <3>1, <3>2, <3>3, <2>1, <1>a
  <2>2. CASE Kind(r) = "photo"
    <3> DEFINE v == [s EXCEPT !.photos = Append(s.photos, Key(r))]
    <3>1. /\ v \in Shipment
          /\ v.proof = s.proof /\ v.documents = s.documents
          /\ v.photos = Append(s.photos, Key(r)) /\ v.disputes = s.disputes
      BY <1>4, <1>7 DEF Shipment
    <3>2. t = v
      BY <2>2 DEF Pushed
    <3> HIDE DEF v, t
    <3>3. NamesStored(v, On(r))
      BY <3>1, <1>3, <1>4, <1>8, <2>2 DEF NamesStored
    <3> QED BY <3>1, <3>2, <3>3, <2>2, <1>a
  <2>3. CASE Kind(r) = "dispute"
    <3> DEFINE v == [s EXCEPT !.disputes = Append(s.disputes, f)]
    <3>1. /\ v \in Shipment
          /\ v.proof = s.proof /\ v.documents = s.documents
          /\ v.photos = s.photos /\ v.disputes = Append(s.disputes, f)
      BY <1>4, <1>7 DEF Shipment
    <3>2. t = v
      BY <2>3 DEF Pushed, f
    <3> HIDE DEF v, t
    <3>3. f = None \/ (f = Key(r) /\ f \in stored)
      BY <1>3, <2>3 DEF f
    <3>4. NamesStored(v, On(r))
      BY <3>1, <3>3, <1>3, <1>4, <1>8, <2>3 DEF NamesStored
    <3> QED BY <3>1, <3>2, <3>4, <2>3, <1>a
  <2> QED BY <2>1, <2>2, <2>3, <1>3
<1> HIDE DEF t
<1>c. \A x \in Reqs : pc'[x] = IF x = r THEN l ELSE pc[x]
  BY <1>1 DEF FileInv, Typed, Goto
<1>d. InFlight' \subseteq InFlight
  BY <1>1, <1>2, <1>c DEF InFlight, Kind
<1>e. IsFiniteSet(InFlight')
  BY <1>d, FS_Subset DEF FileInv, Typed
<1>g. Fits(r, l)
  BY <1>2 DEF Fits
<1>h. FileInv'
  BY <1>1, <1>3, <1>b, <1>e, <1>g, SetOK DEF NamesStored, s
<1>i. \A j \in Ids : ship'[j] = IF j = On(r) THEN t ELSE ship[j]
  BY <1>1 DEF FileInv, Typed, Set
<1> QED BY <1>1, <1>2, <1>3, <1>4, <1>b, <1>c, <1>h, <1>i DEF s

(* At the start there is one shipment, without files. *)
LEMMA FileInit == Init => FileInv
<1> SUFFICES ASSUME Init PROVE FileInv
  OBVIOUS
<1>1. PICK f \in Scripts :
        /\ call = f.calls /\ pc = [r \in Reqs |-> First(f.calls[r].kind)]
        /\ stored = {} /\ ledger = {} /\ peak = 0
        /\ ship = [i \in Ids |-> IF i = Old THEN NewShipment(0) ELSE None]
  BY DEF Init
<1>2. call \in [Reqs -> Bodies] /\ Old \notin Reqs
  BY <1>1, RecordsAssumption
<1>3. NewShipment(0) \in Shipment /\ NewShipment(0) # None
  <2>1. NewShipment(0) \in Shipment
    BY DEF NewShipment, Shipment
  <2> QED BY <2>1, RecordsAssumption
<1>4. \A r \in Reqs : pc[r] \in {"ok", "guard"}
  BY <1>1 DEF First
<1>5. InFlight = {}
  BY <1>4 DEF InFlight
<1>6. Typed
  BY <1>1, <1>2, <1>3, <1>5, FS_EmptySet DEF Typed
<1>7. \A r \in Reqs : ship[r] = None
  BY <1>1, <1>2 DEF Ids
<1>8. HandlersOK
  BY <1>4, <1>7 DEF HandlersOK, Fits
<1>9. \A i \in Ids : ship[i] # None => Files(i) = {None}
  <2> SUFFICES ASSUME NEW i \in Ids, ship[i] # None PROVE Files(i) = {None}
    OBVIOUS
  <2>1. /\ ship[i].proof = None /\ ship[i].documents = <<>>
        /\ ship[i].photos = <<>> /\ ship[i].disputes = <<>>
    BY <1>1 DEF NewShipment
  <2>2. Range(<<>>) = {}
    BY DEF Range
  <2> QED BY <2>1, <2>2 DEF Files
<1> QED BY <1>1, <1>6, <1>8, <1>9 DEF FileInv, ReferencedIsStored

(* The steps of a request, by what they do to the files. *)
LEMMA RequestSteps ==
    ASSUME NEW r \in Reqs,
           Guard(r) \/ OpenStorage(r) \/ UploadFile(r) \/ ShipmentStep(r) \/ SmallStep(r)
    PROVE  \/ Moves(r) \/ UploadFile(r) \/ FindShipment(r) \/ SavePush(r)
           \/ SaveShipment(r) \/ SaveToken(r) \/ PatchShipment(r) \/ DeleteShipment(r)
           \/ AttachProof(r) \/ WriteProofBlock(r)
  BY DEF Moves, ShipmentStep

(* A client that reads a page changes no record. *)
LEMMA WalkSteps ==
    ASSUME WalkFind \/ WalkCount \/ WalkAnswer
    PROVE  UNCHANGED <<call, pc, config, stored, ship, ledger, peak, coll>>
  BY DEF WalkFind, WalkCount, WalkAnswer, fileVars, shipVars

(* Nothing that FileInv speaks of changes. *)
LEMMA FileStutter ==
    ASSUME FileInv, UNCHANGED <<call, pc, stored, ship, ledger, peak>>
    PROVE  FileInv' /\ InFlight' = InFlight
  BY DEF FileInv, Typed, InFlight, Kind, HandlersOK, Fits, On, Key, ReferencedIsStored, Files

(* Every step keeps FileInv. *)
LEMMA FileNext == FileInv /\ [Next]_vars => FileInv'
<1> SUFFICES ASSUME FileInv, [Next]_vars PROVE FileInv'
  OBVIOUS
<1>1. ASSUME NEW r \in Reqs,
             Guard(r) \/ OpenStorage(r) \/ UploadFile(r) \/ ShipmentStep(r) \/ SmallStep(r)
      PROVE  FileInv'
  <2>1. CASE Moves(r)
    <3>1. PICK l : l # "push" /\ Goto(r, l) /\ Fits(r, l)
      BY <2>1, MovesOn
    <3>2. UNCHANGED <<ship, ledger, stored, peak>> /\ pc[r] # "push"
      BY <2>1, MovesOn
    <3>3. InFlight' = InFlight
      BY <3>1, <3>2, FlightKept DEF FileInv
    <3> QED BY <3>1, <3>2, <3>3, MoveOK DEF FileInv, Typed
  <2> QED BY <1>1, <2>1, RequestSteps, UploadOK, FindOK, PushOK, PlainWriteOK, ProofOK
<1>2. CASE WalkFind \/ WalkCount \/ WalkAnswer
  BY <1>2, WalkSteps, FileStutter
<1>3. CASE UNCHANGED vars
  BY <1>3, FileStutter DEF vars, fileVars, shipVars
<1> QED BY <1>1, <1>2, <1>3 DEF Next

(***************************************************************************)
(* uploadFileToStorage and the saves that follow it: every file that a     *)
(* shipment or a PROOF_SUBMITTED block names is in the bucket, under a key *)
(* made for that shipment.                                                 *)
(***************************************************************************)
THEOREM FilesSound == Spec => []ReferencedIsStored
<1>1. Spec => []FileInv
  BY FileInit, FileNext, PTL DEF Spec
<1>2. FileInv => ReferencedIsStored
  BY DEF FileInv
<1> QED BY <1>1, <1>2, PTL

-----------------------------------------------------------------------------
(* Photos. *)

Pushing(i) == {r \in InFlight : On(r) = i}

Excess(p) == IF p = 0 THEN 1 ELSE p

(* The photos of a shipment together with those that will be pushed. *)
PhotoInv ==
    \A i \in Ids : ship[i] # None =>
        Len(ship[i].photos) + Cardinality(Pushing(i)) <= MaxPhotos - 1 + Excess(peak)

(* Uploads in flight are on shipments that exist. *)
LEMMA PushingOK ==
    ASSUME FileInv, NEW i \in Ids
    PROVE  /\ IsFiniteSet(Pushing(i)) /\ Cardinality(Pushing(i)) \in Nat
           /\ Cardinality(Pushing(i)) <= Cardinality(InFlight) /\ Cardinality(InFlight) \in Nat
           /\ ship[i] = None => Pushing(i) = {}
           /\ ship[i] # None => ship[i] \in Shipment /\ Len(ship[i].photos) \in Nat
<1>1. IsFiniteSet(InFlight) /\ Pushing(i) \subseteq InFlight
  BY DEF FileInv, Typed, Pushing
<1>2. /\ IsFiniteSet(Pushing(i)) /\ Cardinality(Pushing(i)) \in Nat
      /\ Cardinality(Pushing(i)) <= Cardinality(InFlight) /\ Cardinality(InFlight) \in Nat
  BY <1>1, FS_Subset, FS_CardinalityType
<1>3. \A r \in InFlight : ship[On(r)] # None
  BY DEF FileInv, HandlersOK, Fits, InFlight
<1>4. ship[i] = None => Pushing(i) = {}
  BY <1>3 DEF Pushing
<1>5. ship[i] # None => ship[i] \in Shipment
  BY DEF FileInv, Typed
<1>6. ship[i] \in Shipment => Len(ship[i].photos) \in Nat
  BY DEF Shipment
<1> QED BY <1>2, <1>4, <1>5, <1>6

(* What a step other than the push makes of a shipment. *)
LEMMA ShipWrites ==
    ASSUME FileInv, NEW r \in Reqs,
           \/ Moves(r) \/ UploadFile(r) \/ SaveShipment(r) \/ SaveToken(r) \/ PatchShipment(r)
           \/ DeleteShipment(r) \/ AttachProof(r) \/ WriteProofBlock(r)
    PROVE  \/ ship' = ship
           \/ SaveShipment(r) /\ Set(r, NewShipment(call[r].value))
           \/ \E b \in BOOLEAN : ship[r] # None /\ Set(r, [ship[r] EXCEPT !.token = b])
           \/ ship[On(r)] # None /\ \/ Set(On(r), [ship[On(r)] EXCEPT !.meta = call[r].value])
                                    \/ Set(On(r), [ship[On(r)] EXCEPT !.deleted = TRUE])
                                    \/ Set(On(r), [ship[On(r)] EXCEPT !.proof = Key(r)])
<1>1. CASE Moves(r)
  BY <1>1, MovesOn
<1>2. CASE UploadFile(r) \/ WriteProofBlock(r)
  BY <1>2 DEF UploadFile, WriteProofBlock, shipVars
<1>3. CASE SaveShipment(r)
  BY <1>3 DEF SaveShipment
<1>4. CASE SaveToken(r)
  BY <1>4 DEF SaveToken, FileInv, HandlersOK, Fits
<1>5. CASE PatchShipment(r) \/ DeleteShipment(r) \/ AttachProof(r)
  BY <1>5 DEF PatchShipment, DeleteShipment, AttachProof, Live
<1> QED BY <1>1, <1>2, <1>3, <1>4, <1>5

(* The steps that neither check nor push leave the photos as they are; a   *)
(* new shipment has none.                                                  *)
LEMMA PhotosKept ==
    ASSUME FileInv, NEW r \in Reqs,
           \/ Moves(r) \/ UploadFile(r) \/ SaveShipment(r) \/ SaveToken(r) \/ PatchShipment(r)
           \/ DeleteShipment(r) \/ AttachProof(r) \/ WriteProofBlock(r)
    PROVE  /\ InFlight' = InFlight /\ UNCHANGED <<call, peak>>
           /\ \A i \in Ids : ship'[i] # None =>
                 \/ ship[i] # None /\ ship'[i].photos = ship[i].photos
                 \/ ship'[i].photos = <<>> /\ ship[i] = None
<1>1. /\ \E l : Goto(r, l) /\ l # "push"
      /\ pc[r] # "push" /\ peak' = peak
  <2>1. CASE Moves(r)
    BY <2>1, MovesOn
  <2>2. CASE UploadFile(r)
    BY <2>2 DEF UploadFile, Uploaded, AfterUpload, shipVars
  <2>3. CASE SaveShipment(r) \/ SaveToken(r) \/ PatchShipment(r) \/ DeleteShipment(r)
    BY <2>3 DEF SaveShipment, SaveToken, PatchShipment, DeleteShipment
  <2>4. CASE AttachProof(r) \/ WriteProofBlock(r)
    BY <2>4 DEF AttachProof, WriteProofBlock
  <2> QED BY <2>1, <2>2, <2>3, <2>4
<1>2. PICK l : Goto(r, l) /\ l # "push"
  BY <1>1
<1>3. InFlight' = InFlight /\ call' = call
  BY <1>1, <1>2, FlightKept DEF FileInv, Goto
<1>5. On(r) \in Ids /\ r \in Ids
  BY KeyOK DEF FileInv
<1>6. ASSUME NEW i \in Ids, ship'[i] # None
      PROVE  \/ ship[i] # None /\ ship'[i].photos = ship[i].photos
             \/ ship'[i].photos = <<>> /\ ship[i] = None
  <2>0. ship[i] # None => ship[i] \in Shipment
    BY DEF FileInv, Typed
  <2>1. CASE ship'[i] = ship[i]
    BY <2>1, <1>6
  <2>2. CASE SaveShipment(r) /\ Set(r, NewShipment(call[r].value)) /\ ship'[i] # ship[i]
    <3>1. i = r /\ ship'[i] = NewShipment(call[r].value)
      BY <2>2, <1>5 DEF Set, FileInv, Typed
    <3>2. ship[r] = None
      BY <2>2 DEF SaveShipment, FileInv, HandlersOK, Fits
    <3> QED BY <3>1, <3>2 DEF NewShipment
  <2>3. CASE ship'[i] # ship[i] /\ \E b \in BOOLEAN : ship[r] # None /\ Set(r, [ship[r] EXCEPT !.token = b])
    <3>1. PICK b \in BOOLEAN : ship[r] # None /\ Set(r, [ship[r] EXCEPT !.token = b])
      BY <2>3
    <3>2. i = r /\ ship'[i] = [ship[r] EXCEPT !.token = b]
      BY <2>3, <3>1, <1>5 DEF Set, FileInv, Typed
    <3>3. ship'[i].photos = ship[i].photos
      BY <3>1, <3>2, <2>0 DEF Shipment
    <3> QED BY <3>1, <3>2, <3>3
  <2>4. CASE /\ ship'[i] # ship[i] /\ ship[On(r)] # None
             /\ \/ Set(On(r), [ship[On(r)] EXCEPT !.meta = call[r].value])
                \/ Set(On(r), [ship[On(r)] EXCEPT !.deleted = TRUE])
                \/ Set(On(r), [ship[On(r)] EXCEPT !.proof = Key(r)])
    <3>1. /\ i = On(r)
          /\ \/ ship'[i] = [ship[i] EXCEPT !.meta = call[r].value]
             \/ ship'[i] = [ship[i] EXCEPT !.deleted = TRUE]
             \/ ship'[i] = [ship[i] EXCEPT !.proof = Key(r)]
      BY <2>4, <1>5 DEF Set, FileInv, Typed
    <3>2. ship[i] \in Shipment
      BY <3>1, <2>4, <2>0
    <3>3. ship'[i].photos = ship[i].photos
      BY <3>1, <3>2 DEF Shipment
    <3> QED BY <3>1, <3>3, <2>4
  <2> QED BY ShipWrites, <2>1, <2>2, <2>3, <2>4
<1> QED BY <1>1, <1>3, <1>6

(* A check adds to what is in flight, a push moves one of them to the shipment. *)
LEMMA PhotoNext == FileInv /\ PhotoInv /\ [Next]_vars => PhotoInv'
<1> SUFFICES ASSUME FileInv, PhotoInv, [Next]_vars PROVE PhotoInv'
  OBVIOUS
<1>0. FileInv' /\ MaxPhotos \in Nat \ {0} /\ peak \in Nat /\ peak' \in Nat
  BY FileNext, RecordsAssumption DEF FileInv, Typed
<1>1. ASSUME InFlight' = InFlight, UNCHANGED <<call, peak>>,
             \A i \in Ids : ship'[i] # None =>
                 \/ ship[i] # None /\ ship'[i].photos = ship[i].photos
                 \/ ship'[i].photos = <<>> /\ ship[i] = None
      PROVE  PhotoInv'
  <2> SUFFICES ASSUME NEW i \in Ids, ship'[i] # None
               PROVE  Len(ship'[i].photos) + Cardinality(Pushing(i)') <= MaxPhotos - 1 + Excess(peak')
    BY DEF PhotoInv
  <2>1. Pushing(i)' = Pushing(i)
    BY <1>1 DEF Pushing, On
  <2>2. CASE ship[i] # None /\ ship'[i].photos = ship[i].photos
    BY <2>1, <2>2, <1>1 DEF PhotoInv
  <2>3. CASE ship'[i].photos = <<>> /\ ship[i] = None
    <3>1. Cardinality(Pushing(i)) = 0 /\ Len(ship'[i].photos) = 0
      BY <2>3, PushingOK, FS_EmptySet
    <3>2. Excess(peak') \in Nat \ {0}
      BY <1>0 DEF Excess
    <3> QED BY <3>1, <3>2, <2>1, <1>0
  <2> QED BY <1>1, <2>2, <2>3
<1>2. ASSUME NEW r \in Reqs, FindShipment(r) PROVE PhotoInv'
  <2> SUFFICES ASSUME NEW i \in Ids, ship'[i] # None
               PROVE  Len(ship'[i].photos) + Cardinality(Pushing(i)') <= MaxPhotos - 1 + Excess(peak')
    BY DEF PhotoInv
  <2>1. /\ UNCHANGED <<ship, call>> /\ pc[r] # "push"
        /\ InFlight' \subseteq InFlight \union {r} /\ InFlight \subseteq InFlight'
        /\ pc'[r] = "push" /\ Kind(r) = "photo" => PhotoAllowed(On(r))
        /\ Cardinality(InFlight') <= peak' /\ peak <= peak'
    BY <1>2, FindOK
  <2>2. Len(ship[i].photos) \in Nat /\ Cardinality(Pushing(i)) \in Nat
    BY <2>1, PushingOK
  <2>3. /\ Cardinality(Pushing(i)') \in Nat /\ Cardinality(InFlight') \in Nat
        /\ Cardinality(Pushing(i)') <= Cardinality(InFlight')
    <3>1. IsFiniteSet(InFlight') /\ Pushing(i)' \subseteq InFlight'
      BY <1>0 DEF FileInv, Typed, Pushing
    <3> QED BY <3>1, FS_Subset, FS_CardinalityType
  <2>4. CASE r \in InFlight' /\ On(r) = i
    <3>1. Len(ship[i].photos) < MaxPhotos
      BY <2>1, <2>4 DEF PhotoAllowed, InFlight, Kind
    <3> QED BY <3>1, <2>1, <2>2, <2>3, <1>0 DEF Excess
  <2>5. CASE ~(r \in InFlight' /\ On(r) = i)
    <3>1. Pushing(i)' = Pushing(i)
      BY <2>1, <2>5 DEF Pushing, On, InFlight
    <3>2. Len(ship[i].photos) + Cardinality(Pushing(i)) <= MaxPhotos - 1 + Excess(peak)
      BY <2>1 DEF PhotoInv
    <3> QED BY <3>1, <3>2, <2>1, <2>2, <1>0 DEF Excess
  <2> QED BY <2>4, <2>5
<1>3. ASSUME NEW r \in Reqs, SavePush(r) PROVE PhotoInv'
  <2> SUFFICES ASSUME NEW i \in Ids, ship'[i] # None
               PROVE  Len(ship'[i].photos) + Cardinality(Pushing(i)') <= MaxPhotos - 1 + Excess(peak')
    BY DEF PhotoInv
  <2>1. /\ UNCHANGED <<call, peak>>
        /\ \A x \in Reqs \ {r} : pc'[x] = pc[x]
        /\ pc'[r] # "push" /\ pc[r] = "push"
        /\ \A j \in Ids \ {On(r)} : ship'[j] = ship[j]
        /\ On(r) \in Ids /\ ship[On(r)] \in Shipment
        /\ Len(ship'[On(r)].photos) = Len(ship[On(r)].photos) + (IF Kind(r) = "photo" THEN 1 ELSE 0)
    BY <1>3, PushOK
  <2>2. InFlight' = InFlight \ {r}
    BY <2>1 DEF InFlight, Kind
  <2>3. Pushing(i)' = Pushing(i) \ {r}
    BY <2>1, <2>2 DEF Pushing, On
  <2>4. CASE i = On(r)
    <3>1. ship[i] # None
      BY <2>1, <2>4, RecordsAssumption
    <3>2. /\ Len(ship[i].photos) \in Nat /\ Cardinality(Pushing(i)) \in Nat /\ IsFiniteSet(Pushing(i))
          /\ Len(ship[i].photos) + Cardinality(Pushing(i)) <= MaxPhotos - 1 + Excess(peak)
      BY <3>1, PushingOK DEF PhotoInv
    <3>3. CASE Kind(r) = "photo"
      <4>1. r \in Pushing(i)
        BY <2>1, <2>4, <3>3 DEF Pushing, InFlight
      <4>2. Cardinality(Pushing(i)') = Cardinality(Pushing(i)) - 1
        BY <4>1, <2>3, <3>2, FS_RemoveElement
      <4> QED BY <4>2, <3>2, <3>3, <2>1, <2>4, <1>0 DEF Excess
    <3>4. CASE Kind(r) # "photo"
      <4>1. Pushing(i)' = Pushing(i)
        BY <2>3, <3>4 DEF Pushing, InFlight
      <4> QED BY <4>1, <3>2, <3>4, <2>1, <2>4
    <3> QED BY <3>3, <3>4
  <2>5. CASE i # On(r)
    <3>1. Pushing(i)' = Pushing(i) /\ ship'[i] = ship[i]
      BY <2>1, <2>3, <2>5 DEF Pushing
    <3> QED BY <3>1, <2>1 DEF PhotoInv
  <2> QED BY <2>4, <2>5
<1>4. ASSUME NEW r \in Reqs,
             Guard(r) \/ OpenStorage(r) \/ UploadFile(r) \/ ShipmentStep(r) \/ SmallStep(r)
      PROVE  PhotoInv'
  <2>1. CASE FindShipment(r)
    BY <2>1, <1>2
  <2>2. CASE SavePush(r)
    BY <2>2, <1>3
  <2>3. CASE ~FindShipment(r) /\ ~SavePush(r)
    BY <2>3, <1>4, <1>1, RequestSteps, PhotosKept
  <2> QED BY <2>1, <2>2, <2>3
<1>5. CASE UNCHANGED <<call, pc, stored, ship, ledger, peak>>
  BY <1>1, <1>5, FileStutter
<1> QED BY <1>4, <1>5, WalkSteps DEF Next, vars, fileVars, shipVars

(* At the start there are no photos and none in flight. *)
LEMMA PhotoInit == Init => PhotoInv
<1> SUFFICES ASSUME Init, NEW i \in Ids, ship[i] # None
             PROVE  Len(ship[i].photos) + Cardinality(Pushing(i)) <= MaxPhotos - 1 + Excess(peak)
  BY DEF PhotoInv
<1>1. peak = 0 /\ \A r \in Reqs : pc[r] # "push"
  BY DEF Init, First
<1>2. ship[i].photos = <<>>
  BY DEF Init, NewShipment
<1>3. Pushing(i) = {}
  BY <1>1 DEF Pushing, InFlight
<1>4. Cardinality(Pushing(i)) = 0 /\ Len(ship[i].photos) = 0
  BY <1>2, <1>3, FS_EmptySet
<1> QED BY <1>1, <1>4, RecordsAssumption DEF Excess

(***************************************************************************)
(* addShipmentPhoto checks MAX_PHOTOS_PER_SHIPMENT and saves later: n      *)
(* uploads that overlap leave at most n - 1 photos beyond the limit, and   *)
(* uploads that do not overlap leave none.                                 *)
(***************************************************************************)
THEOREM PhotosSound == Spec => []PhotosBounded
<1>1. Spec => [](FileInv /\ PhotoInv)
  BY FileInit, FileNext, PhotoInit, PhotoNext, PTL DEF Spec
<1>2. FileInv /\ PhotoInv => PhotosBounded
  <2> SUFFICES ASSUME FileInv, PhotoInv, NEW i \in Ids, ship[i] # None
               PROVE  Len(ship[i].photos) <= MaxPhotos - 1 + (IF peak = 0 THEN 1 ELSE peak)
    BY DEF PhotosBounded
  <2>1. Len(ship[i].photos) \in Nat /\ Cardinality(Pushing(i)) \in Nat /\ peak \in Nat
    BY PushingOK DEF FileInv, Typed
  <2> QED BY <2>1, RecordsAssumption DEF PhotoInv, Excess
<1> QED BY <1>1, <1>2, PTL

-----------------------------------------------------------------------------
(* Lists.  A sort by rank is a sort: R is a strict total order of D. *)

Orders(R, D) ==
    /\ \A d \in D : <<d, d>> \notin R
    /\ \A d, e \in D : d # e => <<d, e>> \in R \/ <<e, d>> \in R
    /\ \A d, e, f \in D : <<d, e>> \in R /\ <<e, f>> \in R => <<d, f>> \in R

Ordered(s, R) == \A i, j \in DOMAIN s : i < j => <<s[i], s[j]>> \in R

(* Ranks are different, below the size of D, and so each is taken once. *)
LEMMA RankedOK ==
    ASSUME NEW D, IsFiniteSet(D), NEW R, Orders(R, D)
    PROVE  LET s == Ranked(D, R) IN
           s \in Seq(D) /\ Len(s) = Cardinality(D) /\ Range(s) = D /\ Ordered(s, R)
<1> DEFINE before(d) == {e \in D : <<e, d>> \in R}
           rank == [d \in D |-> Cardinality(before(d))]
           n == Cardinality(D)
           s == Ranked(D, R)
<1>0. n \in Nat
  BY FS_CardinalityType
<1>1. \A d \in D : IsFiniteSet(before(d)) /\ rank[d] \in Nat /\ rank[d] < n
  <2> SUFFICES ASSUME NEW d \in D
               PROVE  IsFiniteSet(before(d)) /\ rank[d] \in Nat /\ rank[d] < n
    OBVIOUS
  <2>1. before(d) \in SUBSET D /\ before(d) # D
    BY DEF Orders
  <2>2. rank[d] = Cardinality(before(d))
    OBVIOUS
  <2> HIDE DEF before, rank
  <2>3. IsFiniteSet(before(d)) /\ Cardinality(before(d)) <= n /\ Cardinality(before(d)) # n
    BY <2>1, FS_Subset
  <2>4. Cardinality(before(d)) \in Nat
    BY <2>3, FS_CardinalityType
  <2> QED BY <2>2, <2>3, <2>4, <1>0
<1>2. \A d, e \in D : <<d, e>> \in R => rank[d] < rank[e]
  <2> SUFFICES ASSUME NEW d \in D, NEW e \in D, <<d, e>> \in R PROVE rank[d] < rank[e]
    OBVIOUS
  <2>1. before(d) \in SUBSET before(e)
    BY DEF Orders
  <2>2. before(d) # before(e)
    BY DEF Orders
  <2>3. rank[d] = Cardinality(before(d)) /\ rank[e] = Cardinality(before(e))
    OBVIOUS
  <2> HIDE DEF before, rank
  <2>4. Cardinality(before(d)) <= Cardinality(before(e)) /\ Cardinality(before(d)) # Cardinality(before(e))
    BY <2>1, <2>2, <1>1, FS_Subset
  <2> QED BY <2>3, <2>4, <1>1
<1>3. \A d, e \in D : rank[d] = rank[e] => d = e
  <2> SUFFICES ASSUME NEW d \in D, NEW e \in D, rank[d] = rank[e], d # e PROVE FALSE
    OBVIOUS
  <2>1. <<d, e>> \in R \/ <<e, d>> \in R
    BY DEF Orders
  <2>2. rank[d] \in Nat /\ rank[e] \in Nat
    BY <1>1
  <2> HIDE DEF rank
  <2> QED BY <1>2, <2>1, <2>2
<1>4. rank \in Injection(D, 0..(n - 1))
  <2>1. rank \in [D -> 0..(n - 1)]
    <3>1. \A d \in D : rank[d] \in 0..(n - 1)
      <4> HIDE DEF rank, n, before
      <4> QED BY <1>0, <1>1
    <3> QED BY <3>1
  <2> HIDE DEF rank
  <2> QED BY <2>1, <1>3 DEF Injection, IsInjective
<1>5. rank \in Surjection(D, 0..(n - 1))
  <2>1. IsFiniteSet(0..(n - 1)) /\ Cardinality(0..(n - 1)) = n
    BY <1>0, FS_Interval
  <2> HIDE DEF rank
  <2> QED BY <2>1, <1>4, FS_Injection
<1>6. \A i \in 1..n : \E d \in D : rank[d] = i - 1
  <2> HIDE DEF rank
  <2>1. \A i \in 1..n : i - 1 \in 0..(n - 1)
    BY <1>0
  <2> QED BY <2>1, <1>5 DEF Surjection
<1>7. DOMAIN s = 1..n /\ \A i \in 1..n : s[i] \in D /\ rank[s[i]] = i - 1
  <2>1. DOMAIN s = 1..n /\ \A i \in 1..n : s[i] = CHOOSE d \in D : Cardinality(before(d)) = i - 1
    BY DEF Ranked
  <2>2. ASSUME NEW i \in 1..n PROVE s[i] \in D /\ rank[s[i]] = i - 1
    <3>1. \E d \in D : Cardinality(before(d)) = i - 1
      BY <1>6
    <3>2. s[i] = CHOOSE d \in D : Cardinality(before(d)) = i - 1
      BY <2>1
    <3> HIDE DEF before, s
    <3>3. s[i] \in D /\ Cardinality(before(s[i])) = i - 1
      BY <3>1, <3>2, Zenon
    <3> QED BY <3>3
  <2> QED BY <2>1, <2>2
<1>8. s \in [1..n -> D]
  <2> DEFINE at(i) == CHOOSE d \in D : Cardinality({e \in D : <<e, d>> \in R}) = i - 1
  <2>1. s = [i \in 1..n |-> at(i)]
    BY DEF Ranked
  <2> HIDE DEF s, rank, n, at
  <2>2. \A i \in 1..n : at(i) = s[i]
    BY <2>1
  <2>3. \A i \in 1..n : at(i) \in D
    BY <2>2, <1>7
  <2> QED BY <2>1, <2>3
<1> HIDE DEF rank, s, n, before
<1>9. Range(s) = D
  <2>1. ASSUME NEW d \in D PROVE d \in Range(s)
    <3>1. rank[d] + 1 \in 1..n /\ rank[d] = (rank[d] + 1) - 1
      BY <1>0, <1>1
    <3>2. s[rank[d] + 1] \in D /\ rank[s[rank[d] + 1]] = rank[d]
      BY <3>1, <1>7
    <3>3. s[rank[d] + 1] = d
      BY <3>2, <1>3
    <3> QED BY <3>1, <3>3, <1>7 DEF Range
  <2> QED BY <2>1, <1>7 DEF Range
<1>10. Ordered(s, R)
  <2> SUFFICES ASSUME NEW i \in 1..n, NEW j \in 1..n, i < j PROVE <<s[i], s[j]>> \in R
    BY <1>7 DEF Ordered
  <2>1. rank[s[i]] < rank[s[j]] /\ rank[s[i]] \in Nat /\ rank[s[j]] \in Nat
    BY <1>0, <1>1, <1>7
  <2>2. s[i] # s[j] /\ <<s[j], s[i]>> \notin R
    BY <2>1, <1>2, <1>7
  <2> QED BY <2>2, <1>7 DEF Orders
<1>11. s \in Seq(D) /\ Len(s) = n
  BY <1>0, <1>8
<1> QED BY <1>9, <1>10, <1>11 DEF s, n

(* The first n of the rows that were found, and whether there are more. *)
LEMMA FirstRows ==
    ASSUME NEW C, NEW R, NEW s \in Seq(C), Range(s) = C, Ordered(s, R), NEW n \in Nat \ {0}
    PROVE  LET rows == Limit(s, n + 1)
               data == Limit(rows, n)
               more == Len(rows) > n
           IN  /\ data \in Seq(C) /\ Ordered(data, R) /\ more \in BOOLEAN
               /\ Len(data) = (IF Len(s) < n THEN Len(s) ELSE n)
               /\ \A i \in 1..Len(data) : data[i] = s[i]
               /\ more <=> Len(s) > n
               /\ more => data # <<>>
               /\ \A d \in C : d \in Range(data) \/ (more /\ <<Last(data), d>> \in R)
<1> DEFINE rows == Limit(s, n + 1)
           data == Limit(rows, n)
           more == Len(rows) > n
           k == IF Len(s) < n + 1 THEN Len(s) ELSE n + 1
           m == IF Len(s) < n THEN Len(s) ELSE n
<1>0. /\ Len(s) \in Nat /\ DOMAIN s = 1..Len(s) /\ k \in Nat /\ k <= Len(s)
      /\ m \in Nat /\ m <= k /\ m <= n /\ (m < Len(s) => m = n)
      /\ m = (IF k < n THEN k ELSE n) /\ (k > n <=> Len(s) > n) /\ (k > n => m = n)
  OBVIOUS
<1>m. m = IF Len(s) < n THEN Len(s) ELSE n
  OBVIOUS
<1>1. rows = SubSeq(s, 1, k)
  BY DEF Limit
<1>2. data = SubSeq(rows, 1, IF Len(rows) < n THEN Len(rows) ELSE n)
  BY DEF Limit
<1>3. more \in BOOLEAN /\ (more <=> Len(rows) > n)
  OBVIOUS
<1> HIDE DEF rows, data, more, k, m
<1>4. rows \in Seq(C) /\ Len(rows) = k /\ \A i \in 1..k : rows[i] = s[i]
  BY <1>0, <1>1
<1>5. data = SubSeq(rows, 1, m)
  BY <1>0, <1>2, <1>4
<1>6. data \in Seq(C) /\ Len(data) = m /\ DOMAIN data = 1..m /\ \A i \in 1..m : data[i] = s[i]
  BY <1>0, <1>4, <1>5
<1>7. more <=> Len(s) > n
  BY <1>0, <1>3, <1>4
<1>a. Ordered(data, R)
  <2>1. 1..m \subseteq 1..Len(s)
    BY <1>0
  <2> QED BY <2>1, <1>0, <1>6 DEF Ordered
<1>b. more => data # <<>>
  BY <1>0, <1>6, <1>7
<1>c. ASSUME NEW d \in C PROVE d \in Range(data) \/ (more /\ <<Last(data), d>> \in R)
  <2>1. PICK i \in 1..Len(s) : s[i] = d
    BY <1>0 DEF Range
  <2>2. CASE i <= m
    <3>1. i \in 1..m
      BY <2>2, <1>0
    <3> QED BY <3>1, <2>1, <1>6 DEF Range
  <2>3. CASE ~(i <= m)
    <3>1. Len(s) > n /\ m \in 1..Len(s) /\ m < i
      BY <2>3, <1>0
    <3>2. m \in 1..m
      BY <3>1, <1>0
    <3>3. Last(data) = s[m]
      BY <3>2, <1>6 DEF Last
    <3> QED BY <3>1, <3>3, <2>1, <1>0, <1>7 DEF Ordered
  <2> QED BY <2>2, <2>3
<1> QED BY <1>3, <1>6, <1>7, <1>a, <1>b, <1>c, <1>m DEF rows, data, more

NewestOrder(E)   == {p \in E \X E : Newer(p[1], p[2])}
OldestOrder(E)   == {p \in E \X E : Newer(p[2], p[1])}
TimelineOrder(E) == {p \in E \X E : Earlier(p[1], p[2])}

(* A collection and all that was ever in it: finite, and _id unique. *)
Collection(E) == E \subseteq Doc /\ IsFiniteSet(E) /\ \A d, e \in E : d.id = e.id => d = e

(* What a query selects from a collection is one too. *)
LEMMA PartOf ==
    ASSUME NEW E, Collection(E), NEW D \in SUBSET E
    PROVE  Collection(D)
  BY FS_Subset DEF Collection

(* _id breaks the ties of every sort. *)
LEMMA OrdersOK ==
    ASSUME NEW E, Collection(E)
    PROVE  Orders(NewestOrder(E), E) /\ Orders(OldestOrder(E), E) /\ Orders(TimelineOrder(E), E)
<1>1. \A d \in E : d.id \in Nat /\ d.time \in Nat /\ d.key \in Nat
  BY DEF Collection, Doc
<1>2. \A d, e \in E : d # e => d.id # e.id
  BY DEF Collection
<1>3. /\ \A d, e \in E : <<d, e>> \in NewestOrder(E) <=> Newer(d, e)
      /\ \A d, e \in E : <<d, e>> \in OldestOrder(E) <=> Newer(e, d)
      /\ \A d, e \in E : <<d, e>> \in TimelineOrder(E) <=> Earlier(d, e)
  BY DEF NewestOrder, OldestOrder, TimelineOrder
<1>4. \A d \in E : ~Newer(d, d) /\ ~Earlier(d, d)
  BY <1>1 DEF Newer, Earlier
<1>5. \A d, e \in E : d # e => (Newer(d, e) \/ Newer(e, d)) /\ (Earlier(d, e) \/ Earlier(e, d))
  BY <1>1, <1>2 DEF Newer, Earlier
<1>6. \A d, e, f \in E : Newer(d, e) /\ Newer(e, f) => Newer(d, f)
  BY <1>1 DEF Newer
<1>7. \A d, e, f \in E : Earlier(d, e) /\ Earlier(e, f) => Earlier(d, f)
  BY <1>1 DEF Earlier
<1> QED BY <1>3, <1>4, <1>5, <1>6, <1>7 DEF Orders

(* What the sorts return. *)
LEMMA SortsOK ==
    ASSUME NEW E, Collection(E), NEW D \in SUBSET E
    PROVE  /\ Newest(D) \in Seq(D) /\ Len(Newest(D)) = Cardinality(D) /\ Range(Newest(D)) = D
           /\ Ordered(Newest(D), NewestOrder(E))
           /\ Oldest(D) \in Seq(D) /\ Len(Oldest(D)) = Cardinality(D) /\ Range(Oldest(D)) = D
           /\ Ordered(Oldest(D), OldestOrder(E))
           /\ TimelineEvents(D) \in Seq(D) /\ Range(TimelineEvents(D)) = D
           /\ Ordered(TimelineEvents(D), TimelineOrder(E))
<1>1. Collection(D) /\ IsFiniteSet(D)
  BY PartOf DEF Collection
<1>2. /\ Newest(D) = Ranked(D, NewestOrder(D))
      /\ Oldest(D) = Ranked(D, OldestOrder(D))
      /\ TimelineEvents(D) = Ranked(D, TimelineOrder(D))
  BY DEF Newest, Oldest, TimelineEvents, NewestOrder, OldestOrder, TimelineOrder
<1>3. Orders(NewestOrder(D), D) /\ Orders(OldestOrder(D), D) /\ Orders(TimelineOrder(D), D)
  BY <1>1, OrdersOK
<1>4. /\ NewestOrder(D) \subseteq NewestOrder(E)
      /\ OldestOrder(D) \subseteq OldestOrder(E)
      /\ TimelineOrder(D) \subseteq TimelineOrder(E)
  BY DEF NewestOrder, OldestOrder, TimelineOrder
<1>5. /\ Newest(D) \in Seq(D) /\ Len(Newest(D)) = Cardinality(D) /\ Range(Newest(D)) = D
      /\ Ordered(Newest(D), NewestOrder(D))
  BY <1>1, <1>2, <1>3, RankedOK
<1>6. /\ Oldest(D) \in Seq(D) /\ Len(Oldest(D)) = Cardinality(D) /\ Range(Oldest(D)) = D
      /\ Ordered(Oldest(D), OldestOrder(D))
  BY <1>1, <1>2, <1>3, RankedOK
<1>7. /\ TimelineEvents(D) \in Seq(D) /\ Range(TimelineEvents(D)) = D
      /\ Ordered(TimelineEvents(D), TimelineOrder(D))
  BY <1>1, <1>2, <1>3, RankedOK
<1> QED BY <1>4, <1>5, <1>6, <1>7 DEF Ordered

-----------------------------------------------------------------------------
(* Cursors.  A cursor is the mark of the last row that was given. *)

Mark(list, d) == CASE list = "timeline" -> d.key [] list = "activity" -> d.time [] OTHER -> d.id

Behind(g, d, R) == g # <<>> => <<Last(g), d>> \in R

(* p is the page of D that follows the rows g, in the order R. *)
NextPage(p, D, g, R, list) ==
    /\ p.data \in Seq(D) /\ Ordered(p.data, R) /\ p.more \in BOOLEAN
    /\ p.more => p.data # <<>> /\ p.next = Mark(list, Last(p.data))
    /\ \A d \in Range(p.data) : Behind(g, d, R)
    /\ \A d \in D : Behind(g, d, R) => d \in Range(p.data) \/ (p.more /\ <<Last(p.data), d>> \in R)

(* The first rows of those behind g are the next page. *)
LEMMA ChunkOK ==
    ASSUME NEW D, NEW g, NEW R, NEW list, NEW s \in Seq(D), Range(s) = {d \in D : Behind(g, d, R)},
           Ordered(s, R), NEW n \in Nat \ {0}, NEW p,
           p = LET rows == Limit(s, n + 1)
                   data == Limit(rows, n)
               IN  Page(data, Len(rows) > n, IF Len(rows) > n THEN Mark(list, Last(data)) ELSE None)
    PROVE  NextPage(p, D, g, R, list)
<1> DEFINE rows == Limit(s, n + 1)
           data == Limit(rows, n)
           C == {d \in D : Behind(g, d, R)}
<1>1. p.data = data /\ p.more = (Len(rows) > n) /\ (Len(rows) > n => p.next = Mark(list, Last(data)))
  BY DEF Page
<1>2. s \in Seq(C)
  <2>1. \A i \in 1..Len(s) : s[i] \in Range(s)
    BY DEF Range
  <2>2. s \in [1..Len(s) -> C] /\ Len(s) \in Nat
    BY <2>1
  <2> QED BY <2>2
<1>3. /\ data \in Seq(C) /\ Ordered(data, R) /\ (Len(rows) > n) \in BOOLEAN
      /\ Len(rows) > n => data # <<>>
      /\ \A d \in C : d \in Range(data) \/ (Len(rows) > n /\ <<Last(data), d>> \in R)
  BY <1>2, FirstRows
<1> HIDE DEF rows, data
<1>4. data \in Seq(D) /\ \A d \in Range(data) : d \in C
  BY <1>3 DEF Range
<1> QED BY <1>1, <1>3, <1>4 DEF NextPage

IsQuery(q) ==
    /\ q = [cursor |-> q.cursor, page |-> q.page, limit |-> q.limit, asc |-> q.asc]
    /\ q.page \in Nat \union {None} /\ q.limit \in Nat \ {0} /\ q.asc \in BOOLEAN

(* The query asks for what follows the rows g. *)
AsksAfter(q, list, g) == q.cursor = IF g = <<>> THEN None ELSE Mark(list, Last(g))

(* The last of some rows. *)
LEMMA LastIn ==
    ASSUME NEW E, NEW g \in Seq(E), g # <<>>
    PROVE  Last(g) \in E /\ Last(g) \in Range(g) /\ Len(g) \in 1..Len(g)
  BY DEF Last, Range

(* A cursor is a number, never the absence of one. *)
LEMMA MarkOK ==
    ASSUME NEW E, Collection(E), NEW g \in Seq(E), g # <<>>, NEW list
    PROVE  Mark(list, Last(g)) \in Nat /\ Mark(list, Last(g)) # None
<1>1. Last(g) \in Doc
  BY LastIn DEF Collection
<1>2. Mark(list, Last(g)) \in Nat
  BY <1>1 DEF Mark, Doc
<1> QED BY <1>2, RecordsAssumption

(* When _id grows with the field that the list is sorted by, the rows      *)
(* below the cursor are the rows behind the last one.                      *)
LEMMA ByIdPage ==
    ASSUME NEW E, Collection(E), InIdOrder(E), NEW D \in SUBSET E, NEW q, IsQuery(q), ~q.asc,
           NEW list, list \notin {"timeline", "activity"}, NEW g \in Seq(E), AsksAfter(q, list, g)
    PROVE  NextPage(PaginateCursor(CursorRows(D, q), q.limit), D, g, NewestOrder(E), list)
<1> DEFINE C == {d \in D : q.cursor # None => d.id < q.cursor}
           p == PaginateCursor(CursorRows(D, q), q.limit)
<1>1. C = {d \in D : Behind(g, d, NewestOrder(E))}
  <2>1. CASE g = <<>>
    BY <2>1 DEF AsksAfter, Behind
  <2>2. CASE g # <<>>
    <3>1. PICK z \in E : z = Last(g)
      BY <2>2, LastIn
    <3>2. q.cursor = z.id /\ q.cursor # None
      BY <2>2, <3>1, MarkOK DEF AsksAfter, Mark
    <3>3. ASSUME NEW d \in D PROVE d.id < z.id <=> Newer(z, d)
      <4>1. /\ d.id \in Nat /\ d.time \in Nat /\ z.id \in Nat /\ z.time \in Nat
            /\ (d.id = z.id => d = z)
        BY DEF Collection, Doc
      <4>2. (d.id < z.id => d.time <= z.time) /\ (z.id < d.id => z.time <= d.time)
        BY DEF InIdOrder
      <4> QED BY <4>1, <4>2 DEF Newer
    <3> QED BY <2>2, <3>1, <3>2, <3>3 DEF Behind, NewestOrder
  <2> QED BY <2>1, <2>2
<1>2. /\ Newest(C) \in Seq(C) /\ Range(Newest(C)) = C /\ Ordered(Newest(C), NewestOrder(E))
  <2>1. C \in SUBSET E
    OBVIOUS
  <2> HIDE DEF C
  <2> QED BY <2>1, SortsOK
<1>3. CursorRows(D, q) = Limit(Newest(C), q.limit + 1)
  BY DEF CursorRows, Sorted
<1>4. p = LET rows == Limit(Newest(C), q.limit + 1)
              data == Limit(rows, q.limit)
          IN  Page(data, Len(rows) > q.limit, IF Len(rows) > q.limit THEN Mark(list, Last(data)) ELSE None)
  <2> HIDE DEF C
  <2> QED BY <1>3 DEF PaginateCursor, Mark
<1>5. Newest(C) \in Seq(D) /\ q.limit \in Nat \ {0}
  <2>1. C \subseteq D
    OBVIOUS
  <2> HIDE DEF C
  <2> QED BY <2>1, <1>2 DEF IsQuery
<1> HIDE DEF C, p
<1>6. NextPage(p, D, g, NewestOrder(E), list)
  BY <1>1, <1>2, <1>4, <1>5, ChunkOK
<1> QED BY <1>6 DEF p

(* With distinct timestamps, so are the rows before the last one's. *)
LEMMA ActivityPage ==
    ASSUME NEW E, Collection(E), DistinctTimes(E), NEW D \in SUBSET E, NEW q, IsQuery(q),
           NEW g \in Seq(E), AsksAfter(q, "activity", g)
    PROVE  NextPage(GetActivity(D, q), D, g, NewestOrder(E), "activity")
<1> DEFINE C == {d \in D : q.cursor # None => d.time < q.cursor}
           p == GetActivity(D, q)
<1>1. C = {d \in D : Behind(g, d, NewestOrder(E))}
  <2>1. CASE g = <<>>
    BY <2>1 DEF AsksAfter, Behind
  <2>2. CASE g # <<>>
    <3>1. PICK z \in E : z = Last(g)
      BY <2>2, LastIn
    <3>2. q.cursor = z.time /\ q.cursor # None
      BY <2>2, <3>1, MarkOK DEF AsksAfter, Mark
    <3>3. ASSUME NEW d \in D PROVE d.time < z.time <=> Newer(z, d)
      <4>1. /\ d.id \in Nat /\ d.time \in Nat /\ z.id \in Nat /\ z.time \in Nat
            /\ (d.time = z.time => d = z)
        BY DEF Collection, Doc, DistinctTimes
      <4> QED BY <4>1 DEF Newer
    <3> QED BY <2>2, <3>1, <3>2, <3>3 DEF Behind, NewestOrder
  <2> QED BY <2>1, <2>2
<1>2. /\ Newest(C) \in Seq(C) /\ Range(Newest(C)) = C /\ Ordered(Newest(C), NewestOrder(E))
  <2>1. C \in SUBSET E
    OBVIOUS
  <2> HIDE DEF C
  <2> QED BY <2>1, SortsOK
<1>4. p = LET rows == Limit(Newest(C), q.limit + 1)
              data == Limit(rows, q.limit)
          IN  Page(data, Len(rows) > q.limit, IF Len(rows) > q.limit THEN Mark("activity", Last(data)) ELSE None)
  BY DEF GetActivity, Mark
<1>5. Newest(C) \in Seq(D) /\ q.limit \in Nat \ {0}
  <2>1. C \subseteq D
    OBVIOUS
  <2> HIDE DEF C
  <2> QED BY <2>1, <1>2 DEF IsQuery
<1> HIDE DEF C, p
<1>6. NextPage(p, D, g, NewestOrder(E), "activity")
  BY <1>1, <1>2, <1>4, <1>5, ChunkOK
<1> QED BY <1>6 DEF p

(* With distinct keys, findIndex finds the last row that was given, while  *)
(* it is there.                                                            *)
LEMMA IndexOK ==
    ASSUME NEW E, Collection(E), DistinctKeys(E), NEW s \in Seq(E), Ordered(s, TimelineOrder(E)),
           NEW i \in DOMAIN s
    PROVE  IndexOfKey(s, s[i].key) = i
<1>0. DOMAIN s = 1..Len(s) /\ Len(s) \in Nat /\ \A j \in 1..Len(s) : s[j] \in E
  OBVIOUS
<1>1. ASSUME NEW j \in DOMAIN s, s[j].key = s[i].key PROVE j = i
  <2>1. s[j] = s[i]
    BY <1>0, <1>1 DEF DistinctKeys
  <2>2. <<s[i], s[i]>> \notin TimelineOrder(E)
    BY <1>0, OrdersOK DEF Orders
  <2>3. ~(i < j) /\ ~(j < i)
    BY <2>1, <2>2 DEF Ordered
  <2> QED BY <2>3, <1>0
<1>2. \A j \in 1..(i - 1) : s[j].key # s[i].key
  <2>1. \A j \in 1..(i - 1) : j \in DOMAIN s /\ j # i
    BY <1>0
  <2> QED BY <2>1, <1>1
<1> DEFINE good(c) == s[c].key = s[i].key /\ \A j \in 1..(c - 1) : s[j].key # s[i].key
<1>3. good(i) /\ \A c \in DOMAIN s : good(c) => c = i
  BY <1>1, <1>2
<1>4. IndexOfKey(s, s[i].key) = CHOOSE c \in DOMAIN s : good(c)
  BY DEF IndexOfKey
<1> HIDE DEF good
<1> QED BY <1>3, <1>4

(* The events behind the index of the last one are those later than it. *)
LEMMA TimelinePage ==
    ASSUME NEW E, Collection(E), DistinctKeys(E), NEW D \in SUBSET E, NEW q, IsQuery(q),
           NEW g \in Seq(E), AsksAfter(q, "timeline", g), g # <<>> => Last(g) \in D
    PROVE  NextPage(GetTimeline(D, q), D, g, TimelineOrder(E), "timeline")
<1> DEFINE ev == TimelineEvents(D)
           start == IF q.cursor = None THEN 0 ELSE IndexOfKey(ev, q.cursor)
           s == SubSeq(ev, start + 1, Len(ev))
           p == GetTimeline(D, q)
<1>1. p = LET rows == Limit(s, q.limit + 1)
              data == Limit(rows, q.limit)
          IN  Page(data, Len(rows) > q.limit, IF Len(rows) > q.limit THEN Mark("timeline", Last(data)) ELSE None)
  BY DEF GetTimeline, Mark
<1>2. ev \in Seq(D) /\ Range(ev) = D /\ Ordered(ev, TimelineOrder(E))
  BY SortsOK
<1>3. start = IF q.cursor = None THEN 0 ELSE IndexOfKey(ev, q.cursor)
  OBVIOUS
<1>4. s = SubSeq(ev, start + 1, Len(ev))
  OBVIOUS
<1> HIDE DEF ev, start, s, p
<1>5. ev \in Seq(E) /\ Len(ev) \in Nat /\ DOMAIN ev = 1..Len(ev)
  BY <1>2
<1>6. CASE g = <<>>
  <2>1. start = 0
    BY <1>3, <1>6 DEF AsksAfter
  <2>2. s = ev
    BY <2>1, <1>4, <1>2
  <2>3. {d \in D : Behind(g, d, TimelineOrder(E))} = D
    BY <1>6 DEF Behind
  <2>4. NextPage(p, D, g, TimelineOrder(E), "timeline")
    BY <2>2, <2>3, <1>1, <1>2, ChunkOK DEF IsQuery
  <2> QED BY <2>4 DEF p
<1>7. CASE g # <<>>
  <2>1. PICK k \in DOMAIN ev : ev[k] = Last(g)
    BY <1>2, <1>7 DEF Range
  <2>2. q.cursor = ev[k].key /\ q.cursor # None
    BY <2>1, <1>7, MarkOK DEF AsksAfter, Mark
  <2>3. start = k
    BY <2>2, <1>2, <1>3, <1>5, IndexOK
  <2>4. k \in 1..Len(ev)
    BY <1>5
  <2>5. s \in Seq(D) /\ Len(s) = Len(ev) - k /\ \A i \in 1..(Len(ev) - k) : s[i] = ev[k + i]
    BY <2>3, <2>4, <1>2, <1>4, <1>5
  <2>6. DOMAIN s = 1..(Len(ev) - k)
    BY <2>5
  <2>7. \A i \in 1..(Len(ev) - k) : k + i \in 1..Len(ev) /\ k < k + i
    BY <2>4, <1>5
  <2>8. Ordered(s, TimelineOrder(E))
    <3> SUFFICES ASSUME NEW i \in DOMAIN s, NEW j \in DOMAIN s, i < j
                 PROVE  <<s[i], s[j]>> \in TimelineOrder(E)
      BY DEF Ordered
    <3>1. k + i < k + j
      BY <2>4, <2>6
    <3> QED BY <3>1, <2>5, <2>6, <2>7, <1>2, <1>5 DEF Ordered
  <2>9. Range(s) = {d \in D : Behind(g, d, TimelineOrder(E))}
    <3>1. ASSUME NEW i \in DOMAIN s PROVE s[i] \in D /\ Behind(g, s[i], TimelineOrder(E))
      <4>1. k + i \in DOMAIN ev /\ k < k + i /\ s[i] = ev[k + i]
        BY <2>5, <2>6, <2>7, <1>5
      <4> QED BY <4>1, <2>1, <1>2, <1>5 DEF Ordered, Behind
    <3>2. ASSUME NEW d \in D, Behind(g, d, TimelineOrder(E)) PROVE d \in Range(s)
      <4>1. PICK j \in DOMAIN ev : ev[j] = d
        BY <1>2 DEF Range
      <4>2. <<ev[k], ev[j]>> \in TimelineOrder(E)
        BY <4>1, <2>1, <3>2, <1>7 DEF Behind
      <4>3. /\ <<ev[k], ev[k]>> \notin TimelineOrder(E)
            /\ <<ev[j], ev[k]>> \in TimelineOrder(E) => <<ev[k], ev[k]>> \in TimelineOrder(E)
        <5>1. ev[k] \in E /\ ev[j] \in E
          BY <1>5
        <5> QED BY <4>2, <5>1, OrdersOK DEF Orders
      <4>4. j # k /\ ~(j < k)
        BY <4>2, <4>3, <1>2 DEF Ordered
      <4>5. j - k \in 1..(Len(ev) - k) /\ k + (j - k) = j
        BY <4>4, <2>4, <1>5
      <4> QED BY <4>1, <4>5, <2>5, <2>6 DEF Range
    <3> QED BY <3>1, <3>2 DEF Range
  <2>10. NextPage(p, D, g, TimelineOrder(E), "timeline")
    BY <2>5, <2>8, <2>9, <1>1, ChunkOK DEF IsQuery
  <2> QED BY <2>10 DEF p
<1> QED BY <1>6, <1>7

WalkOrder(list, E) == IF list = "timeline" THEN TimelineOrder(E) ELSE NewestOrder(E)

(* Reliable, of a walk by cursor. *)
Dependable(list, q, E) ==
    /\ list \in ByIdCursor => InIdOrder(E) /\ (list = "payments" => ~q.asc)
    /\ list = "activity" => DistinctTimes(E)
    /\ list = "timeline" => DistinctKeys(E)

(* Every list that takes a cursor gives the next page. *)
LEMMA CursorPage ==
    ASSUME NEW E, Collection(E), NEW D \in SUBSET E, NEW q, IsQuery(q), q.page = None,
           NEW list \in Lists \ PagesOnly, Dependable(list, q, E),
           NEW g \in Seq(E), AsksAfter(q, list, g), list = "timeline" /\ g # <<>> => Last(g) \in D
    PROVE  NextPage(PageOf(list, D, q), D, g, WalkOrder(list, E), list)
<1>1. CASE list = "timeline"
  <2>1. PageOf(list, D, q) = GetTimeline(D, q)
    BY <1>1 DEF PageOf
  <2> QED BY <2>1, <1>1, TimelinePage DEF Dependable, WalkOrder
<1>2. CASE list = "activity"
  <2>1. PageOf(list, D, q) = GetActivity(D, q)
    BY <1>2 DEF PageOf
  <2> QED BY <2>1, <1>2, ActivityPage DEF Dependable, WalkOrder
<1>3. CASE list \notin {"timeline", "activity"}
  <2>1. list \in ByIdCursor
    BY <1>3 DEF Lists, PagesOnly
  <2>2. PICK x : x = [q EXCEPT !.asc = FALSE]
    OBVIOUS
  <2>3. IsQuery(x) /\ ~x.asc /\ x.limit = q.limit /\ x.cursor = q.cursor
    BY <2>2 DEF IsQuery
  <2>4. AsksAfter(x, list, g)
    BY <2>3 DEF AsksAfter
  <2>5. NextPage(PaginateCursor(CursorRows(D, x), x.limit), D, g, WalkOrder(list, E), list)
    BY <2>1, <2>3, <2>4, <1>3, ByIdPage DEF Dependable, WalkOrder
  <2>6. CASE list # "payments"
    <3>1. PageOf(list, D, q) = PaginateCursor(CursorRows(D, x), q.limit)
      BY <2>1, <2>2, <2>6 DEF PageOf, ByIdCursor, GetLedgerBlocks, FindInvitations, GetAnomalies,
                              GetAuditLogs, GetTelemetry, FindUsers
    <3> QED BY <3>1, <2>3, <2>5
  <2>7. CASE list = "payments"
    <3>1. ~q.asc
      BY <2>1, <2>7 DEF Dependable
    <3>2. PageOf(list, D, q) = PaginateCursor(CursorRows(D, q), q.limit)
      BY <2>7 DEF PageOf, GetPayments
    <3> QED BY <3>1, <3>2, <2>1, <1>3, ByIdPage DEF Dependable, WalkOrder
  <2> QED BY <2>6, <2>7
<1> QED BY <1>1, <1>2, <1>3

-----------------------------------------------------------------------------
(* Pages. *)

PageSort(list, q, D) == IF list \in {"payments", "shipments"} /\ q.asc THEN Oldest(D) ELSE Newest(D)

(* What limit keeps. *)
LEMMA LimitOK ==
    ASSUME NEW S, NEW s \in Seq(S), NEW n \in Nat
    PROVE  /\ Limit(s, n) \in Seq(S)
           /\ Len(Limit(s, n)) = IF Len(s) < n THEN Len(s) ELSE n
           /\ \A i \in 1..Len(Limit(s, n)) : Limit(s, n)[i] = s[i]
<1>1. PICK m \in Nat : m = IF Len(s) < n THEN Len(s) ELSE n
  OBVIOUS
<1>2. m <= Len(s) /\ Limit(s, n) = SubSeq(s, 1, m)
  BY <1>1 DEF Limit
<1>3. SubSeq(s, 1, m) \in Seq(S) /\ Len(SubSeq(s, 1, m)) = m /\ \A i \in 1..m : SubSeq(s, 1, m)[i] = s[i]
  BY <1>2
<1> QED BY <1>1, <1>2, <1>3

(* The rows d that follow the first k of s, at most n of them. *)
Slice(d, s, k, n) ==
    /\ Len(d) = IF Len(s) - k < n THEN Len(s) - k ELSE n
    /\ \A i \in 1..Len(d) : d[i] = s[k + i]

(* skip and limit. *)
LEMMA OffsetOK ==
    ASSUME NEW D, NEW s \in Seq(D), NEW k \in Nat, k <= Len(s), NEW n \in Nat
    PROVE  /\ Limit(SubSeq(s, k + 1, Len(s)), n) \in Seq(D)
           /\ Slice(Limit(SubSeq(s, k + 1, Len(s)), n), s, k, n)
<1>1. PICK t : t = SubSeq(s, k + 1, Len(s))
  OBVIOUS
<1>2. t \in Seq(D) /\ Len(t) = Len(s) - k /\ \A i \in 1..(Len(s) - k) : t[i] = s[k + i]
  BY <1>1
<1>3. /\ Limit(t, n) \in Seq(D)
      /\ Len(Limit(t, n)) = IF Len(t) < n THEN Len(t) ELSE n
      /\ \A i \in 1..Len(Limit(t, n)) : Limit(t, n)[i] = t[i]
  BY <1>2, LimitOK
<1>4. Len(s) \in Nat
  OBVIOUS
<1>5. \A i \in 1..Len(Limit(t, n)) : i \in 1..(Len(s) - k)
  BY <1>2, <1>3, <1>4
<1>6. \A i \in 1..Len(Limit(t, n)) : Limit(t, n)[i] = s[k + i]
  BY <1>2, <1>3, <1>5
<1> QED BY <1>1, <1>2, <1>3, <1>6 DEF Slice

(* One row in excess tells whether there are more. *)
LEMMA SliceLimit ==
    ASSUME NEW D, NEW s \in Seq(D), NEW k \in Nat, k <= Len(s), NEW n \in Nat,
           NEW d \in Seq(D), Slice(d, s, k, n + 1)
    PROVE  Limit(d, n) \in Seq(D) /\ Slice(Limit(d, n), s, k, n) /\ (Len(d) > n <=> Len(s) > k + n)
<1>1. /\ Limit(d, n) \in Seq(D)
      /\ Len(Limit(d, n)) = IF Len(d) < n THEN Len(d) ELSE n
      /\ \A i \in 1..Len(Limit(d, n)) : Limit(d, n)[i] = d[i]
  BY LimitOK
<1>2. Len(d) \in Nat /\ Len(s) \in Nat /\ Len(d) = IF Len(s) - k < n + 1 THEN Len(s) - k ELSE n + 1
  BY DEF Slice
<1>3. \A i \in 1..Len(Limit(d, n)) : i \in 1..Len(d)
  BY <1>1, <1>2
<1>4. \A i \in 1..Len(Limit(d, n)) : Limit(d, n)[i] = s[k + i]
  BY <1>1, <1>3 DEF Slice
<1>5. Len(Limit(d, n)) = IF Len(s) - k < n THEN Len(s) - k ELSE n
  BY <1>1, <1>2
<1>6. Len(d) > n <=> Len(s) > k + n
  BY <1>2
<1> QED BY <1>1, <1>4, <1>5, <1>6 DEF Slice

(* Every list that takes a page number gives the rows of that page. *)
LEMMA NumberedPage ==
    ASSUME NEW E, Collection(E), NEW q, IsQuery(q), q.page \in Nat \ {0}, q.cursor = None, NEW list \in Paged,
           NEW k \in Nat, k = (q.page - 1) * q.limit, k <= Len(PageSort(list, q, E))
    PROVE  LET p == PageOf(list, E, q)
               s == PageSort(list, q, E) IN
           /\ p.data \in Seq(E) /\ Slice(p.data, s, k, q.limit)
           /\ p.more \in BOOLEAN /\ (list = "telemetry" => (p.more <=> Len(s) > k + q.limit))
<1>0. q.page # None
  BY RecordsAssumption
<1>1. PICK x : x = [q EXCEPT !.asc = FALSE]
  OBVIOUS
<1>2. x.asc = FALSE /\ x.limit = q.limit /\ x.page = q.page /\ x.cursor = q.cursor
  BY <1>1 DEF IsQuery
<1>3. PICK s : s = PageSort(list, q, E)
  OBVIOUS
<1>4. s \in Seq(E)
  BY <1>3, SortsOK DEF PageSort
<1>5. \A n \in Nat : /\ Limit(SubSeq(s, k + 1, Len(s)), n) \in Seq(E)
                     /\ Slice(Limit(SubSeq(s, k + 1, Len(s)), n), s, k, n)
  BY <1>3, <1>4, OffsetOK
<1>6. q.limit \in Nat /\ q.limit + 1 \in Nat /\ q.asc \in BOOLEAN
  BY DEF IsQuery
<1>7. CASE list \in {"payments", "shipments"}
  <2>1. s = Sorted(E, q.asc)
    BY <1>3, <1>7 DEF PageSort, Sorted
  <2>2. OffsetRows(E, q, q.limit) = Limit(SubSeq(s, k + 1, Len(s)), q.limit)
    BY <2>1 DEF OffsetRows, OffsetSkip
  <2>3. PageOf(list, E, q) = Page(OffsetRows(E, q, q.limit), FALSE, None)
    BY <1>0, <1>7 DEF PageOf, GetPayments, GetShipments
  <2>4. PageOf(list, E, q).data = OffsetRows(E, q, q.limit) /\ PageOf(list, E, q).more = FALSE
    BY <2>3 DEF Page
  <2> QED BY <2>2, <2>4, <1>3, <1>5, <1>6, <1>7
<1>8. CASE list \notin {"payments", "shipments"}
  <2>1. s = Sorted(E, x.asc)
    BY <1>2, <1>3, <1>8 DEF PageSort, Sorted
  <2>2. \A n \in Nat : OffsetRows(E, x, n) = Limit(SubSeq(s, k + 1, Len(s)), n)
    BY <2>1, <1>2 DEF OffsetRows, OffsetSkip
  <2>3. CASE list \in {"users", "notifications"}
    <3>1. PageOf(list, E, q) = Page(OffsetRows(E, x, q.limit), FALSE, None)
      BY <1>0, <1>1, <2>3 DEF PageOf, FindUsers, GetNotifications
    <3>2. PageOf(list, E, q).data = OffsetRows(E, x, q.limit) /\ PageOf(list, E, q).more = FALSE
      BY <3>1 DEF Page
    <3> QED BY <3>2, <2>2, <2>3, <1>3, <1>5, <1>6
  <2>4. CASE list = "telemetry"
    <3>1. PICK rows : rows = OffsetRows(E, x, q.limit + 1)
      OBVIOUS
    <3>2. rows \in Seq(E) /\ Slice(rows, s, k, q.limit + 1)
      BY <3>1, <2>2, <1>5, <1>6
    <3>3. /\ Limit(rows, q.limit) \in Seq(E) /\ Slice(Limit(rows, q.limit), s, k, q.limit)
          /\ Len(rows) > q.limit <=> Len(s) > k + q.limit
      BY <3>2, <1>3, <1>4, <1>6, SliceLimit
    <3>4. PageOf(list, E, q) = PaginateCursor(rows, q.limit)
      BY <1>0, <1>1, <3>1, <2>4 DEF PageOf, GetTelemetry
    <3>5. PageOf(list, E, q).data = Limit(rows, q.limit) /\ PageOf(list, E, q).more = (Len(rows) > q.limit)
      BY <3>4 DEF PaginateCursor, Page
    <3>6. PICK p : p = PageOf(list, E, q)
      OBVIOUS
    <3>7. p.more \in BOOLEAN
      <4>1. (Len(rows) > q.limit) \in BOOLEAN
        OBVIOUS
      <4> QED BY <4>1, <3>5, <3>6, Zenon
    <3>8. p.more <=> Len(s) > k + q.limit
      BY <3>3, <3>5, <3>6
    <3>9. p.data \in Seq(E) /\ Slice(p.data, s, k, q.limit)
      BY <3>3, <3>5, <3>6
    <3> QED BY <3>6, <3>7, <3>8, <3>9, <1>3
  <2> QED BY <2>3, <2>4, <1>8 DEF Paged, PagesOnly
<1> QED BY <1>7, <1>8

(* A page more. *)
Advances(h, g, d, s, n, D) ==
    /\ s \in Seq(D) /\ g \in Seq(D) /\ d \in Seq(D) /\ n \in Nat
    /\ Len(g) <= Len(s) /\ \A i \in 1..Len(g) : g[i] = s[i]
    /\ Slice(d, s, Len(g), n)
    /\ h = g \o d

(* The first rows and the page behind them are the first rows. *)
LEMMA NextSlice ==
    ASSUME NEW D, NEW s, NEW g, NEW d, NEW n, NEW h, Advances(h, g, d, s, n, D)
    PROVE  /\ h \in Seq(D)
           /\ Len(h) = IF Len(s) < Len(g) + n THEN Len(s) ELSE Len(g) + n
           /\ \A i \in 1..Len(h) : h[i] = s[i]
<1> USE DEF Advances
<1>1. h \in Seq(D) /\ Len(h) = Len(g) + Len(d)
  OBVIOUS
<1>2. Len(g) \in Nat /\ Len(d) \in Nat /\ Len(s) \in Nat
  OBVIOUS
<1>3. Len(d) = IF Len(s) - Len(g) < n THEN Len(s) - Len(g) ELSE n
  BY DEF Slice
<1>4. ASSUME NEW i \in 1..Len(h) PROVE h[i] = s[i]
  <2>1. CASE i <= Len(g)
    BY <2>1, <1>1, <1>2
  <2>2. CASE ~(i <= Len(g))
    <3>1. i - Len(g) \in 1..Len(d) /\ Len(g) + (i - Len(g)) = i
      BY <2>2, <1>1, <1>2
    <3>2. h[i] = d[i - Len(g)]
      BY <2>2, <1>1, <1>2
    <3> QED BY <3>1, <3>2 DEF Slice
  <2> QED BY <2>1, <2>2
<1> QED BY <1>1, <1>2, <1>3, <1>4

-----------------------------------------------------------------------------
(* The walk.  What is so of a client that can rely on what it is given. *)

Shaped(w) ==
    w = [list |-> w.list, query |-> w.query, rows |-> w.rows, total |-> w.total, got |-> w.got,
         pages |-> w.pages, end |-> w.end, from |-> w.from, ever |-> w.ever, gone |-> w.gone]

(* By cursor: the rows so far are in order, the cursor is at the last of   *)
(* them, and what is missing of the lasting documents is behind it.        *)
CursorOK(w) ==
    LET R == WalkOrder(w.list, w.ever) IN
    /\ w.got \in Seq(w.ever) /\ Ordered(w.got, R)
    /\ w.end = "done" => w.from \ w.gone \subseteq Range(w.got)
    /\ w.end = "no" =>
         /\ AsksAfter(w.query, w.list, w.got)
         /\ \A d \in w.from \ w.gone : d \in Range(w.got) \/ Behind(w.got, d, R)
         /\ w.rows # None =>
              /\ w.rows.data \in Seq(w.ever) /\ Ordered(w.rows.data, R) /\ w.rows.more \in BOOLEAN
              /\ w.rows.more => w.rows.data # <<>> /\ w.rows.next = Mark(w.list, Last(w.rows.data))
              /\ \A d \in Range(w.rows.data) : Behind(w.got, d, R)
              /\ \A d \in w.from \ w.gone :
                    \/ d \in Range(w.got) \/ d \in Range(w.rows.data)
                    \/ w.rows.more /\ <<Last(w.rows.data), d>> \in R

(* By page: the rows so far are the first ones of the sorted collection. *)
PageOK(w) ==
    LET s == PageSort(w.list, w.query, w.from) IN
    /\ w.got \in Seq(w.from) /\ Len(w.got) <= Len(s) /\ \A i \in 1..Len(w.got) : w.got[i] = s[i]
    /\ w.end = "done" => Len(w.got) = Len(s)
    /\ w.end = "no" =>
         /\ w.query.cursor = None /\ Len(w.got) = (w.query.page - 1) * w.query.limit
         /\ w.total # None => w.total = Len(s)
         /\ w.rows # None =>
              /\ w.rows.data \in Seq(w.from) /\ Slice(w.rows.data, s, Len(w.got), w.query.limit)
              /\ w.rows.more \in BOOLEAN
              /\ w.list = "telemetry" => (w.rows.more <=> Len(s) > Len(w.got) + w.query.limit)

(* More documents, the same order. *)
LEMMA OrderGrows ==
    ASSUME NEW E, NEW F, E \subseteq F, NEW list
    PROVE  WalkOrder(list, E) \subseteq WalkOrder(list, F)
  BY DEF WalkOrder, TimelineOrder, NewestOrder

(* Documents are added and removed. *)
LEMMA CursorGrows ==
    ASSUME NEW w, CursorOK(w), NEW v, v.list = w.list, v.query = w.query, v.rows = w.rows, v.got = w.got,
           v.end = w.end, v.from = w.from, w.ever \subseteq v.ever, w.gone \subseteq v.gone
    PROVE  CursorOK(v)
<1>1. PICK R, S : R = WalkOrder(w.list, w.ever) /\ S = WalkOrder(v.list, v.ever)
  OBVIOUS
<1>2. R \subseteq S
  BY <1>1, OrderGrows
<1>3. v.from \ v.gone \subseteq w.from \ w.gone
  OBVIOUS
<1>4. v.got \in Seq(v.ever) /\ Ordered(v.got, S)
  <2>1. w.got \in Seq(w.ever) /\ Ordered(w.got, R)
    BY <1>1 DEF CursorOK
  <2> QED BY <2>1, <1>2 DEF Ordered
<1>5. v.end = "done" => v.from \ v.gone \subseteq Range(v.got)
  BY <1>3 DEF CursorOK
<1>6. ASSUME v.end = "no"
      PROVE  /\ AsksAfter(v.query, v.list, v.got)
             /\ \A d \in v.from \ v.gone : d \in Range(v.got) \/ Behind(v.got, d, S)
  BY <1>1, <1>2, <1>3, <1>6 DEF CursorOK, Behind
<1>7. ASSUME v.end = "no", v.rows # None
      PROVE  /\ v.rows.data \in Seq(v.ever) /\ Ordered(v.rows.data, S) /\ v.rows.more \in BOOLEAN
             /\ v.rows.more => v.rows.data # <<>> /\ v.rows.next = Mark(v.list, Last(v.rows.data))
             /\ \A d \in Range(v.rows.data) : Behind(v.got, d, S)
             /\ \A d \in v.from \ v.gone :
                    \/ d \in Range(v.got) \/ d \in Range(v.rows.data)
                    \/ v.rows.more /\ <<Last(v.rows.data), d>> \in S
  <2>1. /\ w.rows.data \in Seq(w.ever) /\ Ordered(w.rows.data, R) /\ w.rows.more \in BOOLEAN
        /\ w.rows.more => w.rows.data # <<>> /\ w.rows.next = Mark(w.list, Last(w.rows.data))
        /\ \A d \in Range(w.rows.data) : Behind(w.got, d, R)
        /\ \A d \in w.from \ w.gone :
               \/ d \in Range(w.got) \/ d \in Range(w.rows.data)
               \/ w.rows.more /\ <<Last(w.rows.data), d>> \in R
    BY <1>1, <1>7 DEF CursorOK
  <2>2. v.rows.data \in Seq(v.ever)
    BY <2>1
  <2> QED BY <2>1, <2>2, <1>2, <1>3 DEF Ordered, Behind
<1> QED BY <1>1, <1>4, <1>5, <1>6, <1>7 DEF CursorOK

(* A page is fetched. *)
LEMMA CursorFind ==
    ASSUME NEW w, CursorOK(w), w.end = "no", Collection(w.ever), NEW D \in SUBSET w.ever,
           w.from \ w.gone \subseteq D, IsQuery(w.query), w.query.page = None, w.list \in Lists \ PagesOnly,
           Dependable(w.list, w.query, w.ever), w.list = "timeline" => D = w.ever,
           NEW v, v.list = w.list, v.query = w.query, v.got = w.got, v.end = w.end, v.from = w.from,
           v.ever = w.ever, v.gone = w.gone, v.rows = PageOf(w.list, D, w.query)
    PROVE  CursorOK(v)
<1>1. PICK R : R = WalkOrder(w.list, w.ever)
  OBVIOUS
<1>2. /\ w.got \in Seq(w.ever) /\ Ordered(w.got, R)
      /\ AsksAfter(w.query, w.list, w.got)
      /\ \A d \in w.from \ w.gone : d \in Range(w.got) \/ Behind(w.got, d, R)
  BY <1>1 DEF CursorOK
<1>3. w.list = "timeline" /\ w.got # <<>> => Last(w.got) \in D
  BY <1>2, LastIn
<1>4. NextPage(v.rows, D, w.got, R, w.list)
  BY <1>1, <1>2, <1>3, CursorPage
<1>5. /\ v.rows.data \in Seq(v.ever) /\ Ordered(v.rows.data, R) /\ v.rows.more \in BOOLEAN
      /\ v.rows.more => v.rows.data # <<>> /\ v.rows.next = Mark(v.list, Last(v.rows.data))
      /\ \A d \in Range(v.rows.data) : Behind(v.got, d, R)
  BY <1>4 DEF NextPage
<1>6. \A d \in v.from \ v.gone :
             \/ d \in Range(v.got) \/ d \in Range(v.rows.data)
             \/ v.rows.more /\ <<Last(v.rows.data), d>> \in R
  BY <1>2, <1>4 DEF NextPage
<1> QED BY <1>1, <1>2, <1>5, <1>6 DEF CursorOK

(* Rows behind the last of those before them. *)
Joins(h, g, d, E, R) ==
    /\ Orders(R, E) /\ g \in Seq(E) /\ d \in Seq(E) /\ Ordered(g, R) /\ Ordered(d, R)
    /\ \A x \in Range(d) : Behind(g, x, R)
    /\ h = g \o d

(* Two pages in order, one behind the other, are in order. *)
LEMMA Joined ==
    ASSUME NEW E, NEW R, NEW g, NEW d, NEW h, Joins(h, g, d, E, R)
    PROVE  /\ h \in Seq(E) /\ Ordered(h, R) /\ Range(h) = Range(g) \union Range(d)
           /\ d # <<>> => h # <<>> /\ Last(h) = Last(d)
<1> USE DEF Joins
<1>0. Len(g) \in Nat /\ Len(d) \in Nat /\ DOMAIN g = 1..Len(g) /\ DOMAIN d = 1..Len(d)
  OBVIOUS
<1>1. h \in Seq(E) /\ Len(h) = Len(g) + Len(d) /\ DOMAIN h = 1..(Len(g) + Len(d))
  OBVIOUS
<1>2. /\ \A i \in 1..Len(g) : h[i] = g[i]
      /\ \A i \in 1..Len(d) : h[Len(g) + i] = d[i]
  OBVIOUS
<1>3. \A i \in DOMAIN h : i \in 1..Len(g) \/ (i - Len(g) \in 1..Len(d) /\ Len(g) + (i - Len(g)) = i)
  BY <1>0, <1>1
<1>4. \A i \in 1..Len(d) : Len(g) + i \in DOMAIN h
  BY <1>0, <1>1
<1>5. \A i \in 1..Len(g) : i \in DOMAIN h
  BY <1>0, <1>1
<1>6. Range(h) = Range(g) \union Range(d)
  <2>1. \A x \in Range(h) : x \in Range(g) \union Range(d)
    BY <1>0, <1>2, <1>3 DEF Range
  <2>2. \A x \in Range(g) \union Range(d) : x \in Range(h)
    BY <1>0, <1>2, <1>4, <1>5 DEF Range
  <2> QED BY <2>1, <2>2
<1>7. Ordered(h, R)
  <2> SUFFICES ASSUME NEW i \in DOMAIN h, NEW j \in DOMAIN h, i < j PROVE <<h[i], h[j]>> \in R
    BY DEF Ordered
  <2>1. CASE i \in 1..Len(g) /\ j \in 1..Len(g)
    BY <2>1, <1>0, <1>2 DEF Ordered
  <2>2. CASE i \in 1..Len(g) /\ j \notin 1..Len(g)
    <3>1. j - Len(g) \in 1..Len(d) /\ h[j] = d[j - Len(g)]
      BY <2>2, <1>2, <1>3
    <3>2. h[j] \in Range(d) /\ g # <<>> /\ h[i] = g[i] /\ g[i] \in E /\ h[j] \in E
      BY <3>1, <2>2, <1>0, <1>2 DEF Range
    <3>3. <<Last(g), h[j]>> \in R /\ Last(g) \in E
      BY <3>2, LastIn DEF Behind
    <3>4. CASE i = Len(g)
      BY <3>2, <3>3, <3>4 DEF Last
    <3>5. CASE i # Len(g)
      <4>1. i < Len(g) /\ Len(g) \in 1..Len(g)
        BY <3>5, <2>2, <1>0
      <4>2. <<g[i], Last(g)>> \in R
        BY <4>1, <2>2, <1>0 DEF Ordered, Last
      <4> QED BY <4>2, <3>2, <3>3 DEF Orders
    <3> QED BY <3>4, <3>5
  <2>3. CASE i \notin 1..Len(g)
    <3>1. j \notin 1..Len(g)
      BY <2>3, <1>0, <1>1
    <3>2. /\ i - Len(g) \in 1..Len(d) /\ h[i] = d[i - Len(g)]
          /\ j - Len(g) \in 1..Len(d) /\ h[j] = d[j - Len(g)]
      BY <2>3, <3>1, <1>2, <1>3
    <3>3. i - Len(g) < j - Len(g)
      BY <1>0, <1>1
    <3> QED BY <3>2, <3>3, <1>0 DEF Ordered
  <2> QED BY <2>1, <2>2, <2>3
<1>8. ASSUME d # <<>> PROVE h # <<>> /\ Last(h) = Last(d)
  <2>1. Len(d) \in 1..Len(d)
    BY <1>8, LastIn
  <2>2. h[Len(h)] = d[Len(d)] /\ Len(h) > 0
    BY <2>1, <1>0, <1>1, <1>2
  <2> QED BY <2>2, <1>1 DEF Last
<1> QED BY <1>1, <1>6, <1>7, <1>8

(* A page is answered. *)
LEMMA CursorAnswer ==
    ASSUME NEW w, CursorOK(w), w.end = "no", w.rows # None, Collection(w.ever), IsQuery(w.query),
           NEW v, v.list = w.list, v.from = w.from, v.ever = w.ever, v.gone = w.gone, v.rows = None,
           v.got = w.got \o w.rows.data,
           v.query = (IF w.rows.more THEN [w.query EXCEPT !.cursor = w.rows.next] ELSE w.query),
           v.end = (IF w.rows.more THEN "no" ELSE "done")
    PROVE  CursorOK(v)
<1>1. PICK R, d : R = WalkOrder(w.list, w.ever) /\ d = w.rows.data
  OBVIOUS
<1>2. /\ w.got \in Seq(w.ever) /\ Ordered(w.got, R)
      /\ d \in Seq(w.ever) /\ Ordered(d, R) /\ w.rows.more \in BOOLEAN
      /\ w.rows.more => d # <<>> /\ w.rows.next = Mark(w.list, Last(d))
      /\ \A x \in Range(d) : Behind(w.got, x, R)
      /\ \A x \in w.from \ w.gone :
             \/ x \in Range(w.got) \/ x \in Range(d)
             \/ w.rows.more /\ <<Last(d), x>> \in R
  BY <1>1 DEF CursorOK
<1>3. Orders(R, w.ever)
  BY <1>1, OrdersOK DEF WalkOrder
<1>4. /\ v.got \in Seq(w.ever) /\ Ordered(v.got, R) /\ Range(v.got) = Range(w.got) \union Range(d)
      /\ d # <<>> => v.got # <<>> /\ Last(v.got) = Last(d)
  <2>1. PICK h : h = v.got
    OBVIOUS
  <2>2. Joins(h, w.got, d, w.ever, R)
    BY <2>1, <1>1, <1>2, <1>3 DEF Joins
  <2>3. /\ h \in Seq(w.ever) /\ Ordered(h, R) /\ Range(h) = Range(w.got) \union Range(d)
        /\ d # <<>> => h # <<>> /\ Last(h) = Last(d)
    BY <2>2, Joined
  <2> QED BY <2>1, <2>3, Zenon
<1>5. CASE w.rows.more
  <2>1. v.got # <<>> /\ Last(v.got) = Last(d) /\ v.query.cursor = Mark(v.list, Last(d)) /\ v.end = "no"
    BY <1>2, <1>4, <1>5 DEF IsQuery
  <2>2. AsksAfter(v.query, v.list, v.got)
    BY <2>1 DEF AsksAfter
  <2>3. \A x \in v.from \ v.gone : x \in Range(v.got) \/ Behind(v.got, x, R)
    BY <2>1, <1>2, <1>4 DEF Behind
  <2> QED BY <2>1, <2>2, <2>3, <1>1, <1>4 DEF CursorOK
<1>6. CASE ~w.rows.more
  <2>1. v.end = "done" /\ v.from \ v.gone \subseteq Range(v.got)
    BY <1>2, <1>4, <1>6
  <2> QED BY <2>1, <1>1, <1>4 DEF CursorOK
<1> QED BY <1>2, <1>5, <1>6

(* The sorted collection has every document once. *)
LEMMA SortedPages ==
    ASSUME NEW E, Collection(E), NEW list, NEW q
    PROVE  LET s == PageSort(list, q, E) IN
           /\ s \in Seq(E) /\ Len(s) = Cardinality(E) /\ Range(s) = E
           /\ \A i, j \in DOMAIN s : s[i].id = s[j].id => i = j
<1>1. PICK s : s = PageSort(list, q, E)
  OBVIOUS
<1>2. PICK R : R \in {NewestOrder(E), OldestOrder(E)} /\ Ordered(s, R)
  BY <1>1, SortsOK DEF PageSort
<1>3. s \in Seq(E) /\ Len(s) = Cardinality(E) /\ Range(s) = E
  BY <1>1, SortsOK DEF PageSort
<1>4. ASSUME NEW i \in DOMAIN s, NEW j \in DOMAIN s, s[i].id = s[j].id PROVE i = j
  <2>1. s[i] \in E /\ s[j] \in E /\ i \in Nat /\ j \in Nat
    BY <1>3
  <2>2. s[i] = s[j] /\ <<s[i], s[j]>> \notin R /\ <<s[j], s[i]>> \notin R
    BY <2>1, <1>2, <1>4, OrdersOK DEF Collection, Orders
  <2>3. ~(i < j) /\ ~(j < i)
    BY <2>2, <1>2 DEF Ordered
  <2> QED BY <2>1, <2>3
<1> QED BY <1>1, <1>3, <1>4

(* Writes elsewhere leave the pages as they are. *)
LEMMA PageStays ==
    ASSUME NEW w, PageOK(w), NEW v, v.list = w.list, v.query = w.query, v.rows = w.rows, v.total = w.total,
           v.got = w.got, v.end = w.end, v.from = w.from
    PROVE  PageOK(v)
  BY DEF PageOK

(* A numbered page is fetched. *)
LEMMA PageFind ==
    ASSUME NEW w, PageOK(w), w.end = "no", Collection(w.from), IsQuery(w.query), w.query.page \in Nat \ {0},
           w.list \in Paged,
           NEW v, v.list = w.list, v.query = w.query, v.total = w.total, v.got = w.got, v.end = w.end,
           v.from = w.from, v.rows = PageOf(w.list, w.from, w.query)
    PROVE  PageOK(v)
<1>1. PICK s, k : s = PageSort(w.list, w.query, w.from) /\ k = Len(w.got)
  OBVIOUS
<1>2. /\ w.got \in Seq(w.from) /\ k \in Nat /\ k <= Len(s) /\ \A i \in 1..k : w.got[i] = s[i]
      /\ w.query.cursor = None /\ k = (w.query.page - 1) * w.query.limit
      /\ w.total # None => w.total = Len(s)
  BY <1>1 DEF PageOK
<1>3. /\ v.rows.data \in Seq(w.from) /\ Slice(v.rows.data, s, k, w.query.limit)
      /\ v.rows.more \in BOOLEAN /\ (w.list = "telemetry" => (v.rows.more <=> Len(s) > k + w.query.limit))
  BY <1>1, <1>2, NumberedPage
<1> QED BY <1>1, <1>2, <1>3 DEF PageOK

(* The total is the length of the sorted collection. *)
LEMMA PageCount ==
    ASSUME NEW w, PageOK(w), Collection(w.from),
           NEW v, v.list = w.list, v.query = w.query, v.rows = w.rows, v.got = w.got, v.end = w.end,
           v.from = w.from, v.total = Cardinality(w.from)
    PROVE  PageOK(v)
<1>1. Len(PageSort(w.list, w.query, w.from)) = Cardinality(w.from)
  BY SortedPages
<1> QED BY <1>1 DEF PageOK

(* Where the next page starts. *)
LEMMA NextOffset ==
    ASSUME NEW p \in Nat, NEW n \in Nat
    PROVE  (p - 1) * n + n = p * n /\ ((p + 1) - 1) * n = p * n /\ p * n \in Nat
  OBVIOUS

(* more: another page is to be asked for. *)
PageAnswers(w, v, more) ==
    /\ PageOK(w) /\ w.end = "no" /\ w.rows # None /\ Collection(w.from) /\ IsQuery(w.query)
    /\ w.query.page \in Nat \ {0} /\ w.list \in Paged /\ (w.list \in Counted => w.total # None)
    /\ more = (IF w.list \in Counted THEN w.query.page * w.query.limit < w.total ELSE w.rows.more)
    /\ v.list = w.list /\ v.from = w.from /\ v.got = w.got \o w.rows.data /\ v.rows = None /\ v.total = None
    /\ v.query = (IF more THEN [w.query EXCEPT !.page = w.query.page + 1] ELSE w.query)
    /\ v.end = (IF more THEN "no" ELSE "done")

(* A numbered page is answered. *)
LEMMA PageAnswer ==
    ASSUME NEW w, NEW v, NEW more, PageAnswers(w, v, more)
    PROVE  PageOK(v)
<1> USE DEF PageAnswers
<1>1. PICK s, k, n, p : /\ s = PageSort(w.list, w.query, w.from) /\ k = Len(w.got)
                        /\ n = w.query.limit /\ p = w.query.page
  OBVIOUS
<1>2. /\ w.got \in Seq(w.from) /\ k \in Nat /\ k <= Len(s) /\ \A i \in 1..k : w.got[i] = s[i]
      /\ w.query.cursor = None /\ k = (p - 1) * n
      /\ w.total # None => w.total = Len(s)
      /\ w.rows.data \in Seq(w.from) /\ Slice(w.rows.data, s, k, n)
      /\ w.rows.more \in BOOLEAN /\ (w.list = "telemetry" => (w.rows.more <=> Len(s) > k + n))
  BY <1>1 DEF PageOK
<1>3. n \in Nat /\ p \in Nat /\ s \in Seq(w.from) /\ Len(s) \in Nat
  BY <1>1, SortedPages DEF IsQuery
<1>4. k + n = p * n /\ ((p + 1) - 1) * n = p * n /\ p * n \in Nat
  BY <1>2, <1>3, NextOffset
<1>5. /\ v.got \in Seq(w.from)
      /\ Len(v.got) = IF Len(s) < k + n THEN Len(s) ELSE k + n
      /\ \A i \in 1..Len(v.got) : v.got[i] = s[i]
  <2>1. PICK h : h = v.got
    OBVIOUS
  <2>2. Advances(h, w.got, w.rows.data, s, n, w.from)
    BY <2>1, <1>1, <1>2, <1>3 DEF Advances
  <2>3. /\ h \in Seq(w.from)
        /\ Len(h) = IF Len(s) < Len(w.got) + n THEN Len(s) ELSE Len(w.got) + n
        /\ \A i \in 1..Len(h) : h[i] = s[i]
    BY <2>2, NextSlice
  <2> QED BY <2>1, <2>3, <1>1, Zenon
<1>6. more \in BOOLEAN /\ (more <=> Len(s) > k + n)
  <2>1. CASE w.list \in Counted
    <3>1. w.total = Len(s) /\ more = (p * n < w.total)
      BY <2>1, <1>1, <1>2
    <3>2. (p * n < w.total) \in BOOLEAN
      OBVIOUS
    <3>3. more \in BOOLEAN
      BY <3>1, <3>2, Zenon
    <3>4. p * n < w.total <=> Len(s) > k + n
      BY <3>1, <1>3, <1>4
    <3> QED BY <3>1, <3>3, <3>4
  <2>2. CASE w.list \notin Counted
    <3>1. w.list = "telemetry"
      BY <2>2 DEF Paged, PagesOnly, Counted, Lists, ByIdCursor
    <3> QED BY <3>1, <2>2, <1>2
  <2> QED BY <2>1, <2>2
<1>7. CASE more
  <2>1. /\ v.end = "no" /\ v.query.page = p + 1 /\ v.query.limit = n /\ v.query.cursor = None
        /\ v.query.asc = w.query.asc
    BY <1>1, <1>2, <1>7 DEF IsQuery
  <2>2. PageSort(v.list, v.query, v.from) = s
    BY <2>1, <1>1 DEF PageSort
  <2>3. Len(v.got) = (v.query.page - 1) * v.query.limit /\ Len(v.got) <= Len(s)
    BY <2>1, <1>3, <1>4, <1>5, <1>6, <1>7
  <2> QED BY <2>1, <2>2, <2>3, <1>5 DEF PageOK
<1>8. CASE ~more
  <2>1. v.end = "done" /\ PageSort(v.list, v.query, v.from) = s
    BY <1>1, <1>8
  <2>2. Len(v.got) = Len(s) /\ Len(v.got) <= Len(s) /\ v.end # "no"
    BY <2>1, <1>2, <1>3, <1>4, <1>5, <1>6, <1>8
  <2> QED BY <2>1, <2>2, <1>3, <1>5 DEF PageOK
<1> QED BY <1>6, <1>7, <1>8

-----------------------------------------------------------------------------
WalkTyped ==
    /\ Shaped(walk) /\ IsQuery(walk.query)
    /\ walk.list # None =>
         /\ walk.list \in Lists
         /\ IF walk.query.page = None THEN walk.list \notin PagesOnly
                                      ELSE walk.list \in Paged /\ walk.query.page # 0
    /\ walk.ever \subseteq Doc /\ IsFiniteSet(walk.ever)
    /\ \A d, e \in walk.ever \union {call[r].doc : r \in Reqs} : d.id = e.id => d = e
    /\ walk.from \subseteq walk.ever /\ coll \subseteq walk.ever /\ walk.ever \ walk.gone \subseteq coll

(* The walk of a client that WalkComplete speaks of. *)
Followed == walk.list # None /\ Reliable /\ (walk.list = "telemetry" => Live(Old))

WalkInv == Followed => IF walk.query.page = None THEN CursorOK(walk) ELSE PageOK(walk)

(* What Reliable says of the list, and of the collection when it stands still. *)
LEMMA Relied ==
    ASSUME WalkTyped, Followed
    PROVE  /\ walk.list \in Lists /\ Collection(walk.ever) /\ walk.from \ walk.gone \subseteq coll
           /\ walk.query.page = None =>
                /\ walk.list \notin PagesOnly /\ Dependable(walk.list, walk.query, walk.ever)
                /\ walk.list = "timeline" => coll = walk.ever
           /\ walk.query.page # None =>
                /\ walk.list \in Paged /\ walk.query.page \in Nat \ {0}
                /\ coll = walk.from /\ Collection(walk.from)
<1>1. Collection(walk.ever)
  BY DEF WalkTyped, Collection
<1>2. walk.list \in Lists /\ walk.from \ walk.gone \subseteq coll
  BY DEF WalkTyped, Followed
<1>3. ASSUME walk.query.page = None
      PROVE  /\ walk.list \notin PagesOnly /\ Dependable(walk.list, walk.query, walk.ever)
             /\ walk.list = "timeline" => coll = walk.ever
  <2>1. CASE walk.list \in ByIdCursor
    <3>1. walk.list \notin {"timeline", "activity"}
      BY <2>1 DEF ByIdCursor
    <3> QED BY <1>3, <2>1, <3>1 DEF Followed, Reliable, Dependable, WalkTyped
  <2>2. CASE walk.list = "activity"
    BY <1>3, <2>2 DEF Followed, Reliable, Dependable, WalkTyped, ByIdCursor
  <2>3. CASE walk.list = "timeline"
    <3>1. DistinctKeys(walk.ever) /\ walk.gone = {}
      BY <1>3, <2>3 DEF Followed, Reliable, ByIdCursor
    <3>2. coll = walk.ever
      BY <3>1 DEF WalkTyped
    <3> QED BY <3>1, <3>2, <1>3, <2>3 DEF Dependable, WalkTyped, ByIdCursor, Followed
  <2>4. CASE walk.list \in PagesOnly
    BY <1>3, <2>4 DEF WalkTyped, Followed
  <2> QED BY <2>1, <2>2, <2>3, <2>4, <1>2 DEF Lists, PagesOnly
<1>4. ASSUME walk.query.page # None
      PROVE  /\ walk.list \in Paged /\ walk.query.page \in Nat \ {0}
             /\ coll = walk.from /\ Collection(walk.from)
  <2>1. walk.list \in Paged /\ walk.query.page \in Nat \ {0}
    BY <1>4 DEF Followed, WalkTyped, IsQuery
  <2>2. walk.ever = walk.from /\ walk.gone = {}
    BY <1>4 DEF Followed, Reliable
  <2>3. coll = walk.from
    BY <2>2 DEF WalkTyped
  <2> QED BY <2>1, <2>2, <2>3, <1>1
<1> QED BY <1>1, <1>2, <1>3, <1>4

(* A walk that can be relied on could be relied on before. *)
LEMMA ReliedBefore ==
    ASSUME WalkTyped, Followed', walk'.list = walk.list, walk'.from = walk.from,
           walk.ever \subseteq walk'.ever, walk.gone \subseteq walk'.gone,
           walk'.query.page = None <=> walk.query.page = None, walk'.query.asc = walk.query.asc,
           Live(Old)' => Live(Old)
    PROVE  Followed
<1>1. CASE walk.query.page # None
  <2>1. walk'.ever = walk'.from /\ walk'.gone = {}
    BY <1>1 DEF Followed, Reliable
  <2>2. walk.ever = walk.from /\ walk.gone = {}
    BY <2>1 DEF WalkTyped
  <2> QED BY <2>2, <1>1 DEF Followed, Reliable
<1>2. CASE walk.query.page = None
  <2>1. /\ InIdOrder(walk.ever)' => InIdOrder(walk.ever)
        /\ DistinctTimes(walk.ever)' => DistinctTimes(walk.ever)
        /\ DistinctKeys(walk.ever)' => DistinctKeys(walk.ever)
    BY DEF InIdOrder, DistinctTimes, DistinctKeys
  <2>2. CASE walk.list \in ByIdCursor
    BY <2>1, <2>2, <1>2 DEF Followed, Reliable
  <2>3. CASE walk.list \notin ByIdCursor /\ walk.list = "activity"
    BY <2>1, <2>3, <1>2 DEF Followed, Reliable
  <2>4. CASE walk.list \notin ByIdCursor /\ walk.list = "timeline"
    <3>1. DistinctKeys(walk.ever)' /\ walk'.gone = {}
      BY <2>4, <1>2 DEF Followed, Reliable
    <3> QED BY <3>1, <2>1, <2>4, <1>2 DEF Followed, Reliable
  <2>5. CASE walk.list \notin ByIdCursor \union {"activity", "timeline"}
    BY <2>5, <1>2 DEF Followed, Reliable
  <2> QED BY <2>2, <2>3, <2>4, <2>5
<1> QED BY <1>1, <1>2

(* A deleted shipment stays deleted. *)
LEMMA LiveBefore ==
    ASSUME FileInv, [Next]_vars, Live(Old)'
    PROVE  Live(Old)
<1>0. /\ Old \in Ids /\ Old \notin Reqs /\ ship'[Old] # None /\ ~ship'[Old].deleted
      /\ ship[Old] # None => ship[Old] \in Shipment
  BY RecordsAssumption DEF Live, Ids, FileInv, Typed
<1>1. CASE ship'[Old] = ship[Old]
  BY <1>0, <1>1 DEF Live
<1>2. ASSUME ship[Old] # None, ship'[Old].deleted = ship[Old].deleted PROVE Live(Old)
  BY <1>0, <1>2 DEF Live
<1>3. ASSUME NEW r \in Reqs,
             Guard(r) \/ OpenStorage(r) \/ UploadFile(r) \/ ShipmentStep(r) \/ SmallStep(r)
      PROVE  Live(Old)
  <2>0. On(r) \in Ids /\ r \in Ids /\ r # Old
    BY KeyOK DEF FileInv
  <2>1. CASE FindShipment(r)
    BY <2>1, <1>1, FindOK
  <2>2. CASE SavePush(r)
    <3>1. CASE On(r) # Old
      BY <3>1, <2>2, <1>0, <1>1, PushOK
    <3>2. CASE On(r) = Old
      <4>1. ship[Old] \in Shipment /\ ship[Old] # None
        BY <3>2, <2>2, PushOK, RecordsAssumption
      <4>2. ship'[Old] = Pushed(ship[Old], r) /\ Kind(r) \in {"document", "photo", "dispute"}
        <5>1. Fits(r, "push")
          BY <2>2 DEF SavePush, FileInv, HandlersOK
        <5> QED BY <5>1, <3>2, <2>2, <1>0 DEF SavePush, Set, FileInv, Typed, Fits, Uploads
      <4>3. Pushed(ship[Old], r).deleted = ship[Old].deleted
        BY <4>1, <4>2 DEF Pushed, Shipment
      <4> QED BY <4>1, <4>2, <4>3, <1>2
    <3> QED BY <3>1, <3>2
  <2>3. CASE ~FindShipment(r) /\ ~SavePush(r)
    <3>1. \/ Moves(r) \/ UploadFile(r) \/ SaveShipment(r) \/ SaveToken(r) \/ PatchShipment(r)
          \/ DeleteShipment(r) \/ AttachProof(r) \/ WriteProofBlock(r)
      BY <2>3, <1>3, RequestSteps
    <3>2. \/ ship' = ship
          \/ Set(r, NewShipment(call[r].value))
          \/ \E b \in BOOLEAN : Set(r, [ship[r] EXCEPT !.token = b])
          \/ ship[On(r)] # None /\ \/ Set(On(r), [ship[On(r)] EXCEPT !.meta = call[r].value])
                                   \/ Set(On(r), [ship[On(r)] EXCEPT !.deleted = TRUE])
                                   \/ Set(On(r), [ship[On(r)] EXCEPT !.proof = Key(r)])
      BY <3>1, ShipWrites
    <3>3. \/ ship'[Old] = ship[Old]
          \/ ship[Old] # None /\ \/ ship'[Old] = [ship[Old] EXCEPT !.meta = call[r].value]
                                 \/ ship'[Old] = [ship[Old] EXCEPT !.deleted = TRUE]
                                 \/ ship'[Old] = [ship[Old] EXCEPT !.proof = Key(r)]
      BY <3>2, <2>0, <1>0 DEF Set, FileInv, Typed
    <3>4. CASE ship[Old] # None /\ \/ ship'[Old] = [ship[Old] EXCEPT !.meta = call[r].value]
                                   \/ ship'[Old] = [ship[Old] EXCEPT !.proof = Key(r)]
      <4>1. ship'[Old].deleted = ship[Old].deleted
        BY <3>4, <1>0 DEF Shipment
      <4> QED BY <4>1, <3>4, <1>2
    <3>5. CASE ship[Old] # None /\ ship'[Old] = [ship[Old] EXCEPT !.deleted = TRUE]
      BY <3>5, <1>0 DEF Shipment
    <3> QED BY <3>3, <3>4, <3>5, <1>1
  <2> QED BY <2>1, <2>2, <2>3
<1> QED BY <1>1, <1>3, WalkSteps DEF Next, vars, shipVars

-----------------------------------------------------------------------------
(* What a request does to the collection, and to the history of the walk. *)
Written(r) ==
    /\ Shaped(walk')
    /\ walk'.list = walk.list /\ walk'.query = walk.query /\ walk'.rows = walk.rows
    /\ walk'.total = walk.total /\ walk'.got = walk.got /\ walk'.end = walk.end /\ walk'.from = walk.from
    /\ walk.ever \subseteq walk'.ever /\ walk'.ever \subseteq walk.ever \union {call[r].doc}
    /\ walk.gone \subseteq walk'.gone
    /\ coll' \subseteq walk'.ever /\ walk'.ever \ walk'.gone \subseteq coll'

(* The ways in which a request writes to a list. *)
LEMMA ListWrites ==
    ASSUME NEW r \in Reqs,
           Guard(r) \/ OpenStorage(r) \/ UploadFile(r) \/ ShipmentStep(r) \/ SmallStep(r)
    PROVE  /\ call' = call
           /\ \/ UNCHANGED walkVars
              \/ \E L : Listed(L, r)
              \/ \E L, D : Unlisted(L, D)
              \/ AttachProof(r)
<1> USE DEF walkVars
<1>1. CASE Guard(r) \/ OpenStorage(r) \/ UploadFile(r)
  BY <1>1 DEF Guard, OpenStorage, UploadFile, Goto
<1>2. CASE ShipmentStep(r)
  <2>1. call' = call
    BY <1>2 DEF ShipmentStep, SaveShipment, TokenizeShipment, SaveToken, PatchShipment, AttachProof,
                WriteProofBlock, FindShipment, SavePush, DeleteShipment, CascadeDelete, GetShipmentById,
                Authorize, GetPublicTracking, ExportShipments, AuditLog, Goto
  <2>2. CASE SaveShipment(r) \/ WriteProofBlock(r) \/ AuditLog(r)
    BY <2>1, <2>2 DEF SaveShipment, WriteProofBlock, AuditLog
  <2>3. CASE DeleteShipment(r) \/ CascadeDelete(r)
    BY <2>1, <2>3 DEF DeleteShipment, CascadeDelete
  <2>4. CASE \/ TokenizeShipment(r) \/ SaveToken(r) \/ PatchShipment(r) \/ FindShipment(r) \/ SavePush(r)
             \/ GetShipmentById(r) \/ Authorize(r) \/ GetPublicTracking(r) \/ ExportShipments(r)
    BY <2>1, <2>4 DEF TokenizeShipment, SaveToken, PatchShipment, FindShipment, SavePush,
                      GetShipmentById, Authorize, GetPublicTracking, ExportShipments
  <2> QED BY <1>2, <2>1, <2>2, <2>3, <2>4 DEF ShipmentStep
<1>3. CASE SmallStep(r)
  <2>1. call' = call
    BY <1>3 DEF SmallStep, CreateTemplate, GetTemplateById, UpdateTemplate, DeleteTemplate, MarkRead,
                MarkAllRead, DeleteNotification, UpdatePreference, FindOrganizationByName,
                CreateOrganization, FindOrganization, UpdateOrganization, DeleteOrganization,
                StoreElsewhere, DropElsewhere, Goto
  <2>2. CASE DeleteNotification(r) \/ StoreElsewhere(r) \/ DropElsewhere(r)
    BY <2>1, <2>2 DEF DeleteNotification, StoreElsewhere, DropElsewhere
  <2>3. CASE ~(DeleteNotification(r) \/ StoreElsewhere(r) \/ DropElsewhere(r))
    BY <1>3, <2>1, <2>3 DEF SmallStep, CreateTemplate, GetTemplateById, UpdateTemplate, DeleteTemplate,
                MarkRead, MarkAllRead, UpdatePreference, FindOrganizationByName,
                CreateOrganization, FindOrganization, UpdateOrganization, DeleteOrganization
  <2> QED BY <2>2, <2>3
<1> QED BY <1>1, <1>2, <1>3

(* Each of them adds at most its own document, and records what it removes. *)
LEMMA WrittenOK ==
    ASSUME WalkTyped, NEW r \in Reqs,
           Guard(r) \/ OpenStorage(r) \/ UploadFile(r) \/ ShipmentStep(r) \/ SmallStep(r)
    PROVE  Written(r) /\ call' = call
<1> SUFFICES Written(r)
  BY ListWrites
<1>0. Shaped(walk) /\ coll \subseteq walk.ever /\ walk.ever \ walk.gone \subseteq coll
  BY DEF WalkTyped
<1>u. CASE UNCHANGED walkVars
  BY <1>u, <1>0 DEF walkVars, Written
<1>e. ASSUME NEW E, NEW G, walk' = [walk EXCEPT !.ever = walk.ever \union E, !.gone = walk.gone \union G],
             E \subseteq coll', G = coll \ coll', coll' \subseteq coll \union {call[r].doc},
             coll' \subseteq walk.ever \union E
      PROVE  Written(r)
  <2>1. /\ Shaped(walk') /\ walk'.ever = walk.ever \union E /\ walk'.gone = walk.gone \union G
        /\ walk'.list = walk.list /\ walk'.query = walk.query /\ walk'.rows = walk.rows
        /\ walk'.total = walk.total /\ walk'.got = walk.got /\ walk'.end = walk.end /\ walk'.from = walk.from
    BY <1>0, <1>e DEF Shaped
  <2> QED BY <2>1, <1>0, <1>e DEF Written
<1>1. ASSUME NEW L, Listed(L, r) PROVE Written(r)
  <2>1. coll' = coll \/ coll' = coll \union {call[r].doc}
    BY <1>1 DEF Listed
  <2>2. walk' = [walk EXCEPT !.ever = walk.ever \union coll', !.gone = walk.gone \union (coll \ coll')]
    <3>1. walk.gone \union (coll \ coll') = walk.gone
      BY <2>1
    <3>2. walk' = [walk EXCEPT !.ever = walk.ever \union coll']
      BY <1>1 DEF Listed
    <3> QED BY <3>1, <3>2, <1>0 DEF Shaped
  <2> QED BY <2>1, <2>2, <1>e
<1>2. ASSUME NEW L, NEW D, Unlisted(L, D) PROVE Written(r)
  <2>1. coll' \subseteq coll
    BY <1>2 DEF Unlisted
  <2>2. walk' = [walk EXCEPT !.ever = walk.ever \union {}, !.gone = walk.gone \union (coll \ coll')]
    <3>1. walk' = [walk EXCEPT !.gone = walk.gone \union (coll \ coll')]
      BY <1>2 DEF Unlisted
    <3>2. walk.ever \union {} = walk.ever
      OBVIOUS
    <3> QED BY <3>1, <3>2, <1>0 DEF Shaped
  <2>3. coll' \subseteq walk.ever \union {}
    BY <2>1, <1>0
  <2> QED BY <2>1, <2>2, <2>3, <1>e
<1>3. CASE AttachProof(r)
  <2>1. CASE UNCHANGED walkVars
    BY <2>1, <1>u
  <2>2. CASE ~UNCHANGED walkVars
    <3>1. PICK B : coll' = (coll \ B) \union {call[r].doc}
      BY <1>3, <2>2 DEF AttachProof, walkVars
    <3>2. walk' = [walk EXCEPT !.ever = walk.ever \union coll', !.gone = walk.gone \union (coll \ coll')]
      BY <1>3, <2>2 DEF AttachProof, walkVars
    <3> QED BY <3>1, <3>2, <1>e
  <2> QED BY <2>1, <2>2
<1> QED BY <1>u, <1>1, <1>2, <1>3, ListWrites

(* A walk starts with the collection as it is. *)
LEMMA WalkTypedInit == Init => WalkTyped
<1> SUFFICES ASSUME Init PROVE WalkTyped
  OBVIOUS
<1>1. PICK f \in Scripts :
        /\ call = f.calls /\ coll = f.docs
        /\ walk = [list |-> f.list, query |-> f.query, rows |-> None, total |-> None,
                   got |-> <<>>, pages |-> 0, end |-> IF f.list = None THEN "done" ELSE "no",
                   from |-> f.docs, ever |-> f.docs, gone |-> {}]
  BY DEF Init
<1>2. f.list \in Lists \union {None} /\ f.query \in Query /\ f.docs \in SUBSET Doc
  BY RecordsAssumption
<1>3. /\ IsFiniteSet(f.docs)
      /\ \A d, e \in f.docs \union {f.calls[r].doc : r \in Reqs} : d.id = e.id => d = e
      /\ f.list # None => FirstQuery(f.list, f.query)
  BY WalkAssumption
<1>4. Shaped(walk) /\ walk.ever = f.docs /\ walk.from = f.docs /\ walk.gone = {}
      /\ walk.list = f.list /\ walk.query = f.query
  BY <1>1 DEF Shaped
<1>5. IsQuery(f.query)
  BY <1>2 DEF IsQuery, Query
<1>6. None # 1
  BY RecordsAssumption
<1>7. f.list # None =>
         /\ f.list \in Lists
         /\ IF f.query.page = None THEN f.list \notin PagesOnly
                                   ELSE f.list \in Paged /\ f.query.page # 0
  BY <1>2, <1>3, <1>6 DEF FirstQuery
<1> QED BY <1>1, <1>2, <1>3, <1>4, <1>5, <1>7 DEF WalkTyped

(* The steps of the walk itself. *)
LEMMA WalkFields ==
    ASSUME WalkTyped, WalkFind \/ WalkCount \/ WalkAnswer
    PROVE  /\ Shaped(walk') /\ IsQuery(walk'.query)
           /\ walk'.list = walk.list /\ walk'.from = walk.from /\ walk'.ever = walk.ever
           /\ walk'.gone = walk.gone /\ walk'.query.asc = walk.query.asc
           /\ walk'.query.page = None <=> walk.query.page = None
           /\ walk'.query.page # None /\ walk.query.page # 0 => walk'.query.page # 0
           /\ UNCHANGED <<coll, call>> /\ walk.end = "no"
<1>0. Shaped(walk) /\ IsQuery(walk.query) /\ UNCHANGED <<coll, call>> /\ walk.end = "no"
  BY WalkSteps DEF WalkTyped, WalkFind, WalkCount, WalkAnswer, Asking
<1>1. CASE WalkFind \/ WalkCount
  <2>1. \/ \E x : walk' = [walk EXCEPT !.end = x]
        \/ \E x : walk' = [walk EXCEPT !.rows = x]
        \/ \E x : walk' = [walk EXCEPT !.total = x]
    BY <1>1 DEF WalkFind, WalkCount
  <2>2. /\ Shaped(walk') /\ walk'.query = walk.query
        /\ walk'.list = walk.list /\ walk'.from = walk.from /\ walk'.ever = walk.ever
        /\ walk'.gone = walk.gone
    BY <2>1, <1>0 DEF Shaped
  <2> QED BY <2>2, <1>0
<1>2. CASE WalkAnswer
  <2>1. PICK m, x, y : walk' = [walk EXCEPT !.got = x, !.pages = y,
                                  !.query = IF m THEN NextQuery ELSE walk.query,
                                  !.end = IF m THEN "no" ELSE "done", !.rows = None, !.total = None]
    BY <1>2 DEF WalkAnswer
  <2>2. /\ Shaped(walk') /\ walk'.query = IF m THEN NextQuery ELSE walk.query
        /\ walk'.list = walk.list /\ walk'.from = walk.from /\ walk'.ever = walk.ever
        /\ walk'.gone = walk.gone
    BY <2>1, <1>0 DEF Shaped
  <2>3. /\ IsQuery(NextQuery) /\ NextQuery.asc = walk.query.asc
        /\ NextQuery.page = None <=> walk.query.page = None
        /\ NextQuery.page # None => NextQuery.page # 0
    <3>1. CASE walk.query.page = None
      <4>1. NextQuery = [walk.query EXCEPT !.cursor = walk.rows.next]
        BY <3>1 DEF NextQuery
      <4> QED BY <4>1, <3>1, <1>0 DEF IsQuery
    <3>2. CASE walk.query.page # None
      <4>1. NextQuery = [walk.query EXCEPT !.page = walk.query.page + 1]
        BY <3>2 DEF NextQuery
      <4>2. walk.query.page \in Nat
        BY <3>2, <1>0 DEF IsQuery
      <4>3. walk.query.page + 1 \in Nat \ {0}
        BY <4>2
      <4>4. walk.query.page + 1 # None
        BY <4>3, RecordsAssumption
      <4> QED BY <4>1, <4>3, <4>4, <3>2, <1>0 DEF IsQuery
    <3> QED BY <3>1, <3>2
  <2> QED BY <2>2, <2>3, <1>0
<1> QED BY <1>1, <1>2

(* Every step keeps the history of the walk true to the collection. *)
LEMMA WalkTypedNext == Typed /\ WalkTyped /\ [Next]_vars => WalkTyped'
<1> SUFFICES ASSUME Typed, WalkTyped, [Next]_vars PROVE WalkTyped'
  OBVIOUS
<1>1. ASSUME NEW r \in Reqs,
             Guard(r) \/ OpenStorage(r) \/ UploadFile(r) \/ ShipmentStep(r) \/ SmallStep(r)
      PROVE  WalkTyped'
  <2>1. Written(r) /\ call' = call
    BY <1>1, WrittenOK
  <2>2. call[r].doc \in Doc
    BY DEF Typed, Bodies
  <2>3. walk'.ever \subseteq Doc /\ IsFiniteSet(walk'.ever)
    <3>1. IsFiniteSet(walk.ever \union {call[r].doc}) /\ walk.ever \subseteq Doc
      BY FS_AddElement DEF WalkTyped
    <3> QED BY <3>1, <2>1, <2>2, FS_Subset DEF Written
  <2>4. \A d, e \in walk'.ever \union {call'[x].doc : x \in Reqs} : d.id = e.id => d = e
    <3>1. walk'.ever \union {call'[x].doc : x \in Reqs} \subseteq walk.ever \union {call[x].doc : x \in Reqs}
      BY <2>1 DEF Written
    <3> QED BY <3>1 DEF WalkTyped
  <2>5. /\ walk'.from \subseteq walk'.ever /\ coll' \subseteq walk'.ever /\ walk'.ever \ walk'.gone \subseteq coll'
    BY <2>1 DEF Written, WalkTyped
  <2>6. /\ Shaped(walk') /\ IsQuery(walk'.query) /\ walk'.list = walk.list /\ walk'.query = walk.query
    BY <2>1 DEF Written, WalkTyped
  <2> QED BY <2>3, <2>4, <2>5, <2>6 DEF WalkTyped
<1>2. CASE WalkFind \/ WalkCount \/ WalkAnswer
  BY <1>2, WalkFields DEF WalkTyped
<1>3. CASE UNCHANGED vars
  BY <1>3 DEF vars, walkVars, WalkTyped
<1> QED BY <1>1, <1>2, <1>3 DEF Next

(* Nothing was given yet. *)
LEMMA WalkInit == Init => WalkInv
<1> SUFFICES ASSUME Init, Followed
             PROVE  IF walk.query.page = None THEN CursorOK(walk) ELSE PageOK(walk)
  BY DEF WalkInv
<1>0. WalkTyped
  BY WalkTypedInit
<1>1. PICK f \in Scripts :
        walk = [list |-> f.list, query |-> f.query, rows |-> None, total |-> None,
                got |-> <<>>, pages |-> 0, end |-> IF f.list = None THEN "done" ELSE "no",
                from |-> f.docs, ever |-> f.docs, gone |-> {}]
  BY DEF Init
<1>2. /\ walk.list # None /\ walk.query = f.query /\ walk.rows = None /\ walk.total = None
      /\ walk.got = <<>> /\ walk.end = "no"
  BY <1>1 DEF Followed
<1>3. walk.query.cursor = None /\ walk.query.page \in {None, 1}
  <2>1. FirstQuery(f.list, f.query)
    BY <1>1, <1>2, WalkAssumption
  <2> QED BY <2>1, <1>2 DEF FirstQuery
<1>4. CursorOK(walk)
  <2>1. walk.got \in Seq(walk.ever) /\ Ordered(walk.got, WalkOrder(walk.list, walk.ever))
    BY <1>2 DEF Ordered
  <2> QED BY <2>1, <1>2, <1>3 DEF CursorOK, AsksAfter, Behind
<1>5. ASSUME walk.query.page # None PROVE PageOK(walk)
  <2>1. PICK s : s = PageSort(walk.list, walk.query, walk.from)
    OBVIOUS
  <2>2. s \in Seq(walk.from)
    BY <2>1, <1>0, <1>5, Relied, SortedPages
  <2>3. walk.got \in Seq(walk.from) /\ Len(walk.got) = 0 /\ Len(s) \in Nat /\ 1..Len(walk.got) = {}
    BY <2>2, <1>2
  <2>4. (walk.query.page - 1) * walk.query.limit = 0
    <3>1. walk.query.page = 1 /\ walk.query.limit \in Nat
      BY <1>0, <1>3, <1>5 DEF WalkTyped, IsQuery
    <3> QED BY <3>1
  <2> QED BY <2>1, <2>3, <2>4, <1>2, <1>3 DEF PageOK
<1> QED BY <1>4, <1>5

(* Every step keeps WalkInv. *)
LEMMA WalkNext == FileInv /\ WalkTyped /\ WalkInv /\ [Next]_vars => WalkInv'
<1> SUFFICES ASSUME FileInv, WalkTyped, WalkInv, [Next]_vars, Followed'
             PROVE  IF walk'.query.page = None THEN CursorOK(walk') ELSE PageOK(walk')
  BY DEF WalkInv
<1>1. ASSUME NEW r \in Reqs,
             Guard(r) \/ OpenStorage(r) \/ UploadFile(r) \/ ShipmentStep(r) \/ SmallStep(r)
      PROVE  IF walk'.query.page = None THEN CursorOK(walk') ELSE PageOK(walk')
  <2>1. Written(r)
    BY <1>1, WrittenOK
  <2>2. Followed
    BY <2>1, LiveBefore, ReliedBefore DEF Written
  <2>3. CASE walk.query.page = None
    <3>1. CursorOK(walk)
      BY <2>2, <2>3 DEF WalkInv
    <3>2. CursorOK(walk')
      BY <3>1, <2>1, CursorGrows DEF Written
    <3> QED BY <3>2, <2>1, <2>3 DEF Written
  <2>4. CASE walk.query.page # None
    <3>1. PageOK(walk)
      BY <2>2, <2>4 DEF WalkInv
    <3>2. PageOK(walk')
      BY <3>1, <2>1, PageStays DEF Written
    <3> QED BY <3>2, <2>1, <2>4 DEF Written
  <2> QED BY <2>3, <2>4
<1>2. ASSUME WalkFind \/ WalkCount \/ WalkAnswer
      PROVE  IF walk'.query.page = None THEN CursorOK(walk') ELSE PageOK(walk')
  <2>1. /\ Shaped(walk) /\ Shaped(walk') /\ IsQuery(walk.query) /\ IsQuery(walk'.query)
        /\ walk'.list = walk.list /\ walk'.from = walk.from /\ walk'.ever = walk.ever
        /\ walk'.gone = walk.gone /\ walk'.query.asc = walk.query.asc
        /\ walk'.query.page = None <=> walk.query.page = None
        /\ walk.end = "no"
    BY <1>2, WalkFields DEF WalkTyped
  <2>2. Followed
    BY <2>1, LiveBefore, ReliedBefore
  <2>3. /\ walk.list \in Lists /\ Collection(walk.ever) /\ walk.from \ walk.gone \subseteq coll
        /\ coll \subseteq walk.ever
        /\ walk.query.page = None =>
                /\ walk.list \notin PagesOnly /\ Dependable(walk.list, walk.query, walk.ever)
                /\ walk.list = "timeline" => coll = walk.ever
        /\ walk.query.page # None =>
                /\ walk.list \in Paged /\ walk.query.page \in Nat \ {0}
                /\ coll = walk.from /\ Collection(walk.from)
    BY <2>2, Relied DEF WalkTyped
  <2>4. CASE WalkFind /\ walk' = [walk EXCEPT !.end = "failed"]
    <3>1. /\ walk'.end = "failed" /\ walk'.query = walk.query /\ walk'.got = walk.got
      BY <2>1, <2>4 DEF Shaped
    <3>2. CASE walk.query.page = None
      BY <2>1, <2>2, <3>1, <3>2 DEF WalkInv, CursorOK
    <3>3. CASE walk.query.page # None
      BY <2>1, <2>2, <3>1, <3>3 DEF WalkInv, PageOK
    <3> QED BY <3>1, <3>2, <3>3
  <2>5. CASE WalkFind /\ walk' # [walk EXCEPT !.end = "failed"]
    <3>1. walk' = [walk EXCEPT !.rows = PageOf(walk.list, coll, walk.query)]
      <4>1. walk' = [walk EXCEPT !.rows =
                       PageOf(walk.list, IF walk.list = "telemetry" /\ ~Live(Old) THEN {} ELSE coll, walk.query)]
        BY <2>5 DEF WalkFind
      <4>2. ~(walk.list = "telemetry" /\ ~Live(Old))
        BY <2>2 DEF Followed
      <4> QED BY <4>1, <4>2
    <3>2. /\ walk'.query = walk.query /\ walk'.got = walk.got /\ walk'.end = walk.end /\ walk'.total = walk.total
          /\ walk'.rows = PageOf(walk.list, coll, walk.query)
      BY <3>1, <2>1 DEF Shaped
    <3>3. CASE walk.query.page = None
      <4>1. CursorOK(walk)
        BY <2>2, <3>3 DEF WalkInv
      <4>2. CursorOK(walk')
        BY <4>1, <3>2, <3>3, <2>1, <2>3, CursorFind
      <4> QED BY <4>2, <3>2, <3>3
    <3>4. CASE walk.query.page # None
      <4>1. PageOK(walk)
        BY <2>2, <3>4 DEF WalkInv
      <4>2. PageOK(walk')
        BY <4>1, <3>2, <3>4, <2>1, <2>3, PageFind
      <4> QED BY <4>2, <3>2, <3>4
    <3> QED BY <3>3, <3>4
  <2>6. CASE WalkCount
    <3>1. walk' = [walk EXCEPT !.total = Cardinality(coll)]
      BY <2>6 DEF WalkCount
    <3>2. /\ walk'.query = walk.query /\ walk'.got = walk.got /\ walk'.end = walk.end /\ walk'.rows = walk.rows
          /\ walk'.total = Cardinality(coll)
      BY <3>1, <2>1 DEF Shaped
    <3>3. CASE walk.query.page = None
      <4>1. CursorOK(walk)
        BY <2>2, <3>3 DEF WalkInv
      <4>2. CursorOK(walk')
        BY <4>1, <3>2, <2>1, CursorGrows
      <4> QED BY <4>2, <3>2, <3>3
    <3>4. CASE walk.query.page # None
      <4>1. PageOK(walk)
        BY <2>2, <3>4 DEF WalkInv
      <4>2. PageOK(walk')
        BY <4>1, <3>2, <3>4, <2>1, <2>3, PageCount
      <4> QED BY <4>2, <3>2, <3>4
    <3> QED BY <3>3, <3>4
  <2>7. CASE WalkAnswer
    <3>1. /\ walk.rows # None /\ (walk.list \in Counted => walk.total # None)
          /\ walk' = [walk EXCEPT !.got = walk.got \o walk.rows.data, !.pages = walk.pages + 1,
                        !.query = IF MoreToAsk THEN NextQuery ELSE walk.query,
                        !.end = IF MoreToAsk THEN "no" ELSE "done", !.rows = None, !.total = None]
      BY <2>7 DEF WalkAnswer
    <3>2. /\ walk'.got = walk.got \o walk.rows.data /\ walk'.rows = None /\ walk'.total = None
          /\ walk'.query = (IF MoreToAsk THEN NextQuery ELSE walk.query)
          /\ walk'.end = (IF MoreToAsk THEN "no" ELSE "done")
      BY <3>1, <2>1 DEF Shaped
    <3>3. CASE walk.query.page = None
      <4>1. CursorOK(walk)
        BY <2>2, <3>3 DEF WalkInv
      <4>2. MoreToAsk = walk.rows.more /\ NextQuery = [walk.query EXCEPT !.cursor = walk.rows.next]
        BY <3>3 DEF MoreToAsk, NextQuery
      <4>3. /\ walk'.query = (IF walk.rows.more THEN [walk.query EXCEPT !.cursor = walk.rows.next] ELSE walk.query)
            /\ walk'.end = (IF walk.rows.more THEN "no" ELSE "done")
        BY <4>2, <3>2
      <4>4. CursorOK(walk')
        BY <4>1, <4>3, <3>1, <3>2, <2>1, <2>3, CursorAnswer
      <4> QED BY <4>4, <2>1, <3>3
    <3>4. CASE walk.query.page # None
      <4>1. PageOK(walk)
        BY <2>2, <3>4 DEF WalkInv
      <4>2. PICK more : more = IF walk.list \in Counted THEN walk.query.page * walk.query.limit < walk.total
                               ELSE walk.rows.more
        OBVIOUS
      <4>3. MoreToAsk = more /\ NextQuery = [walk.query EXCEPT !.page = walk.query.page + 1]
        BY <4>2, <3>4 DEF MoreToAsk, NextQuery
      <4>4. /\ walk'.query = (IF more THEN [walk.query EXCEPT !.page = walk.query.page + 1] ELSE walk.query)
            /\ walk'.end = (IF more THEN "no" ELSE "done")
        BY <4>3, <3>2
      <4>5. PageOK(walk')
        <5>1. PageAnswers(walk, walk', more)
          BY <4>1, <4>2, <4>4, <3>1, <3>2, <3>4, <2>1, <2>3 DEF PageAnswers
        <5> QED BY <5>1, PageAnswer
      <4> QED BY <4>5, <2>1, <3>4
    <3> QED BY <3>3, <3>4
  <2> QED BY <1>2, <2>4, <2>5, <2>6, <2>7
<1>3. CASE UNCHANGED vars
  <2>1. UNCHANGED <<walk, ship>>
    BY <1>3 DEF vars, walkVars, shipVars
  <2>2. Followed
    BY <2>1, ReliedBefore DEF Live
  <2> QED BY <2>1, <2>2 DEF WalkInv
<1> QED BY <1>1, <1>2, <1>3 DEF Next

(***************************************************************************)
(* paginateCursor, the activity feed, the timeline and the numbered pages: *)
(* a client that follows a list to its end has every document that was     *)
(* there all along, and none twice, for any collection, any page size and  *)
(* any requests that write between two pages, in the walks that Reliable   *)
(* names.                                                                  *)
(***************************************************************************)
THEOREM WalksSound == Spec => []WalkComplete
<1>1. Spec => [](FileInv /\ WalkTyped /\ WalkInv)
  <2>1. FileInv => Typed
    BY DEF FileInv
  <2> QED BY <2>1, FileInit, FileNext, WalkTypedInit, WalkTypedNext, WalkInit, WalkNext, PTL DEF Spec
<1>2. WalkTyped /\ WalkInv => WalkComplete
  <2> SUFFICES ASSUME WalkTyped, WalkInv, walk.end = "done", Followed
               PROVE  /\ walk.from \ walk.gone \subseteq Range(walk.got)
                      /\ \A k, l \in DOMAIN walk.got : walk.got[k].id = walk.got[l].id => k = l
    BY DEF WalkComplete, Followed
  <2>1. CASE walk.query.page = None
    <3>1. CursorOK(walk) /\ Collection(walk.ever)
      BY <2>1, Relied DEF WalkInv
    <3>2. PICK R : R = WalkOrder(walk.list, walk.ever)
      OBVIOUS
    <3>3. /\ walk.got \in Seq(walk.ever) /\ Ordered(walk.got, R)
          /\ walk.from \ walk.gone \subseteq Range(walk.got)
      BY <3>1, <3>2 DEF CursorOK
    <3>4. Orders(R, walk.ever)
      BY <3>1, <3>2, OrdersOK DEF WalkOrder
    <3>5. ASSUME NEW k \in DOMAIN walk.got, NEW l \in DOMAIN walk.got, walk.got[k].id = walk.got[l].id
          PROVE  k = l
      <4>1. walk.got[k] \in walk.ever /\ walk.got[l] \in walk.ever /\ k \in Nat /\ l \in Nat
        BY <3>3
      <4>2. /\ walk.got[k] = walk.got[l]
            /\ <<walk.got[k], walk.got[l]>> \notin R /\ <<walk.got[l], walk.got[k]>> \notin R
        BY <4>1, <3>1, <3>4, <3>5 DEF Collection, Orders
      <4>3. ~(k < l) /\ ~(l < k)
        BY <4>2, <3>3 DEF Ordered
      <4> QED BY <4>1, <4>3
    <3> QED BY <3>3, <3>5
  <2>2. CASE walk.query.page # None
    <3>1. PageOK(walk) /\ Collection(walk.from)
      BY <2>2, Relied DEF WalkInv
    <3>2. PICK s : s = PageSort(walk.list, walk.query, walk.from)
      OBVIOUS
    <3>3. /\ s \in Seq(walk.from) /\ Range(s) = walk.from
          /\ \A i, j \in DOMAIN s : s[i].id = s[j].id => i = j
      BY <3>1, <3>2, SortedPages
    <3>4. /\ walk.got \in Seq(walk.from) /\ Len(walk.got) = Len(s)
          /\ \A i \in 1..Len(walk.got) : walk.got[i] = s[i]
      BY <3>1, <3>2 DEF PageOK
    <3>5. DOMAIN walk.got = DOMAIN s /\ \A i \in DOMAIN s : walk.got[i] = s[i]
      BY <3>3, <3>4
    <3>6. Range(walk.got) = walk.from
      BY <3>3, <3>5 DEF Range
    <3> QED BY <3>3, <3>5, <3>6
  <2> QED BY <2>1, <2>2
<1> QED BY <1>1, <1>2, PTL
=============================================================================
