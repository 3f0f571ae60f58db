------------------------------ MODULE Listing -------------------------------
(***************************************************************************)
(* The pages that the list endpoints return.  A document is what the lists *)
(* look at: its _id, the field it is sorted by and, in a timeline, its     *)
(* cursor key.  A collection is the set of documents that match the        *)
(* filters of the query.                                                   *)
(***************************************************************************)
EXTENDS Integers, Sequences, FiniteSets

CONSTANT None  \* the absence of a value

Doc == [id : Nat, time : Nat, key : Nat]

(* The query of a list: a cursor or a page number, the page size and the   *)
(* direction of the sort.                                                  *)
Query == [cursor : Nat \union {None}, page : Nat \union {None},
          limit : Nat \ {0}, asc : BOOLEAN]

(* The members of D, each in the place that the number of those before it  *)
(* gives; R relates a document to the ones behind it.                      *)
Ranked(D, R) ==
    [i \in 1..Cardinality(D) |-> CHOOSE d \in D : Cardinality({e \in D : <<e, d>> \in R}) = i - 1]

Newer(d, e) == d.time > e.time \/ (d.time = e.time /\ d.id > e.id)

(* sort({ field: -1, _id: -1 }), and its ascending form. *)
Newest(D) == Ranked(D, {p \in D \X D : Newer(p[1], p[2])})
Oldest(D) == Ranked(D, {p \in D \X D : Newer(p[2], p[1])})

Sorted(D, asc) == IF asc THEN Oldest(D) ELSE Newest(D)

Last(s) == s[Len(s)]

Limit(s, n) == SubSeq(s, 1, IF Len(s) < n THEN Len(s) ELSE n)

(* What a list answers: the rows, whether there are more, and where they   *)
(* begin.                                                                  *)
Page(rows, more, next) == [data |-> rows, more |-> more, next |-> next]

(* Mutant: the cursor is the row that was fetched in excess. *)
PaginateCursorPast(rows, limit) ==
    LET more == Len(rows) > limit
    IN  Page(Limit(rows, limit), more, IF more THEN Last(rows).id ELSE None)

(* paginateCursor: one row more than asked for was fetched. *)
PaginateCursor(rows, limit) ==
    LET more == Len(rows) > limit
        data == Limit(rows, limit)
    IN  Page(data, more, IF more THEN Last(data).id ELSE None)

OffsetSkip(page, limit) == (page - 1) * limit

(* find().sort().skip().limit() *)
OffsetRows(D, q, n) ==
    LET s == Sorted(D, q.asc) IN
    Limit(SubSeq(s, OffsetSkip(q.page, q.limit) + 1, Len(s)), n)

(* find({ _id: { $lt: cursor } }).sort().limit(limit + 1): the cursor is   *)
(* an _id whatever the list is sorted by, and $lt whatever the direction.  *)
CursorRows(D, q) ==
    Limit(Sorted({d \in D : q.cursor # None => d.id < q.cursor}, q.asc), q.limit + 1)

-----------------------------------------------------------------------------
(* The lists.  Offset lists answer a total; their client asks for another  *)
(* page while there are rows behind this one.                              *)

GetLedgerBlocks(D, q) == PaginateCursor(CursorRows(D, [q EXCEPT !.asc = FALSE]), q.limit)

FindInvitations(D, q) == PaginateCursor(CursorRows(D, [q EXCEPT !.asc = FALSE]), q.limit)

GetAnomalies(D, q) == PaginateCursor(CursorRows(D, [q EXCEPT !.asc = FALSE]), q.limit)

GetAuditLogs(D, q) == PaginateCursor(CursorRows(D, [q EXCEPT !.asc = FALSE]), q.limit)

GetTelemetry(D, q) ==
    PaginateCursor(IF q.cursor = None /\ q.page # None
                   THEN OffsetRows(D, [q EXCEPT !.asc = FALSE], q.limit + 1)
                   ELSE CursorRows(D, [q EXCEPT !.asc = FALSE]), q.limit)

GetPayments(D, q) ==
    IF q.page # None
    THEN Page(OffsetRows(D, q, q.limit), FALSE, None)
    ELSE PaginateCursor(CursorRows(D, q), q.limit)

FindUsers(D, q) ==
    IF q.page # None
    THEN Page(OffsetRows(D, [q EXCEPT !.asc = FALSE], q.limit), FALSE, None)
    ELSE PaginateCursor(CursorRows(D, [q EXCEPT !.asc = FALSE]), q.limit)

GetShipments(D, q) == Page(OffsetRows(D, q, q.limit), FALSE, None)

GetNotifications(D, q) == Page(OffsetRows(D, [q EXCEPT !.asc = FALSE], q.limit), FALSE, None)

(* The activity feed continues before the timestamp of its last row. *)
GetActivity(D, q) ==
    LET rows == Limit(Newest({d \in D : q.cursor # None => d.time < q.cursor}), q.limit + 1)
        more == Len(rows) > q.limit
        data == Limit(rows, q.limit)
    IN  Page(data, more, IF more THEN Last(data).time ELSE None)

(* The events of a timeline, oldest first; a page starts behind the first  *)
(* event with the cursor's key, and at the beginning when there is none.   *)
Earlier(d, e) ==
    \/ d.time < e.time
    \/ d.time = e.time /\ d.key < e.key
    \/ d.time = e.time /\ d.key = e.key /\ d.id < e.id

TimelineEvents(D) == Ranked(D, {p \in D \X D : Earlier(p[1], p[2])})

(* findIndex, from 1, or 0. *)
IndexOfKey(s, k) ==
    IF \E i \in DOMAIN s : s[i].key = k
    THEN CHOOSE i \in DOMAIN s : s[i].key = k /\ \A j \in 1..(i - 1) : s[j].key # k
    ELSE 0

GetTimeline(D, q) ==
    LET events == TimelineEvents(D)
        start  == IF q.cursor = None THEN 0 ELSE IndexOfKey(events, q.cursor)
        rows   == Limit(SubSeq(events, start + 1, Len(events)), q.limit + 1)
        more   == Len(rows) > q.limit
        data   == Limit(rows, q.limit)
    IN  Page(data, more, IF more THEN Last(data).key ELSE None)

ByIdCursor == {"ledger", "invitations", "anomalies", "audits", "telemetry", "payments", "users"}
Lists      == ByIdCursor \union {"activity", "timeline", "shipments", "notifications"}

(* Lists that take a page number, and those that know nothing else. *)
PagesOnly == {"shipments", "notifications"}
Paged     == PagesOnly \union {"users", "payments", "telemetry"}

(* The first query of a walk. *)
FirstQuery(list, q) ==
    /\ q.cursor = None
    /\ q.page \in (IF list \in PagesOnly THEN {} ELSE {None}) \union (IF list \in Paged THEN {1} ELSE {})

(* Lists that answer a total: in page mode it is all the client has. *)
Counted == Lists \ {"anomalies", "telemetry", "timeline"}

PageOf(list, D, q) ==
    CASE list = "ledger"        -> GetLedgerBlocks(D, q)
      [] list = "invitations"   -> FindInvitations(D, q)
      [] list = "anomalies"     -> GetAnomalies(D, q)
      [] list = "audits"        -> GetAuditLogs(D, q)
      [] list = "telemetry"     -> GetTelemetry(D, q)
      [] list = "payments"      -> GetPayments(D, q)
      [] list = "users"         -> FindUsers(D, q)
      [] list = "activity"      -> GetActivity(D, q)
      [] list = "timeline"      -> GetTimeline(D, q)
      [] list = "shipments"     -> GetShipments(D, q)
      [] list = "notifications" -> GetNotifications(D, q)
=============================================================================
