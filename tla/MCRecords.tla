----------------------------- MODULE MCRecords ------------------------------
(* Uploads and deletes of one shipment under each storage provider; the    *)
(* small records; and walks through each list, two documents to a page or  *)
(* one, while two requests write to it.                                    *)
EXTENDS Records

CONSTANTS r1, r2, r3, old, a, b

MCReqs == {r1, r2, r3}

D(i, t, k) == [id |-> i, time |-> t, key |-> k]

Body(kind, on) ==
    [kind |-> kind, role |-> "ADMIN", valid |-> TRUE, file |-> "ok", on |-> on,
     org |-> a, value |-> 1, doc |-> D(0, 0, 0)]

Idle == Body("none", old)

Three(x, y, z) == [r \in MCReqs |-> CASE r = r1 -> x [] r = r2 -> y [] r = r3 -> z]

First0 == [cursor |-> None, page |-> None, limit |-> 1, asc |-> FALSE]

Script(f, p, c) ==
    [calls |-> f, provider |-> p, complete |-> c, list |-> None, query |-> First0, docs |-> {}]

NoFile(x)   == [x EXCEPT !.file = "none"]
As(role, x) == [x EXCEPT !.role = role]
Val(v, x)   == [x EXCEPT !.value = v]

(* Three uploads of one shipment, or two and a delete. *)
FileScripts ==
    {Script(Three(Body(x, old), Body(y, old), z), p, TRUE) :
        x \in {"photo", "proof"}, y \in Uploads,
        z \in {Body("photo", old), NoFile(Body("dispute", old)), Body("delete", old)},
        p \in {"s3", "cloudinary", "mock"}}
    \union
    {Script(Three(Body("photo", old), Body("proof", old), Body("photo", old)), p, c) :
        p \in {"unknown", "s3", "cloudinary"}, c \in {FALSE}}
    \union
    {Script(Three(NoFile(Body("proof", old)), [Body("photo", old) EXCEPT !.file = "bad"],
                  As("VIEWER", Body("document", old))), "mock", TRUE)}

RecordScripts ==
    {Script(Three(Body("create", old), Body(x, r1), y), "mock", TRUE) :
        x \in {"patch", "photo", "delete", "get"},
        y \in {Val(0, Body("create", old)), Body("create", old), Body("export", old),
               Body("track", r1), As("SUPER_ADMIN", Body("get", r1)), Val(0, Body("get", old))}}

SmallScripts ==
    {Script(Three(Body("createTemplate", old), x, y), "mock", TRUE) :
        x \in {Body("updateTemplate", r1), Body("deleteTemplate", r1)},
        y \in {Body("getTemplate", r1), [Body("deleteTemplate", r1) EXCEPT !.org = b]}}
    \union
    {Script(Three(Body("deleteNote", old), x, Body("setPreference", old)), "mock", TRUE) :
        x \in {Body("markRead", old), Body("markAllRead", old), Body("markRead", r1),
               Body("deleteNote", old)}}
    \union
    {Script(Three(As("SUPER_ADMIN", Body("createOrg", old)), x, y), "mock", TRUE) :
        x \in {As("SUPER_ADMIN", Body("createOrg", old)), Body("updateOrg", r1),
               As("SUPER_ADMIN", Val(2, Body("updateOrg", r1))), Val(0, Body("getOrg", r1)),
               As("SUPER_ADMIN", Body("deleteOrg", r1))},
        y \in {As("SUPER_ADMIN", Body("deleteOrg", r1)), Body("getOrg", r1)}}

(* Walks.  Three documents, in the order of their ids or not; one is added *)
(* in front, in the middle or with a time in the past, one is removed.     *)
Docs == {{D(2, 2, 2), D(3, 3, 3), D(5, 5, 5)}, {D(2, 3, 2), D(3, 2, 3), D(5, 5, 5)},
         {D(2, 2, 2), D(3, 2, 3), D(5, 5, 2)}}

New  == {D(6, 6, 6), D(4, 4, 4), D(1, 6, 1), D(7, 1, 7)}

(* The handlers that write to a list. *)
Adds(list, d) ==
    CASE list = "shipments" -> [Body("create", old) EXCEPT !.doc = d]
      [] list = "ledger"    -> [Body("proof", old) EXCEPT !.doc = d]
      [] list \in {"audits", "activity"} -> [NoFile(Body("dispute", old)) EXCEPT !.doc = d]
      [] list = "timeline"  -> [Body("proof", old) EXCEPT !.doc = d]
      [] OTHER -> [Body("store", old) EXCEPT !.doc = d]

Removes(list, d) ==
    CASE list \in {"shipments", "telemetry", "anomalies", "timeline"} ->
             [Body("delete", old) EXCEPT !.doc = d]
      [] list = "notifications" -> [Body("deleteNote", old) EXCEPT !.doc = d]
      [] list \in {"ledger", "audits", "activity"} -> Idle   \* nothing is removed
      [] OTHER -> [Body("drop", old) EXCEPT !.doc = d]

Queries(list) ==
    {q \in [cursor : {None}, page : {None, 1}, limit : {1, 2},
            asc : {FALSE} \union (IF list \in {"payments", "shipments"} THEN {TRUE} ELSE {})] :
        FirstQuery(list, q)}

WalkScripts ==
    UNION {{[calls |-> Three(x, y, IF list = "timeline" THEN Adds(list, D(8, 7, 8)) ELSE Idle),
             provider |-> "mock", complete |-> TRUE,
             list |-> list, query |-> q, docs |-> ds] :
               x \in {Idle} \union {Adds(list, d) : d \in New},
               y \in {Idle} \union {Removes(list, d) : d \in {e \in ds : e.id \in {2, 3}}},
               q \in Queries(list)} : list \in Lists, ds \in Docs}

MCScripts == FileScripts \union RecordScripts \union SmallScripts \union WalkScripts
=============================================================================
