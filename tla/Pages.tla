-------------------------------- MODULE Pages --------------------------------
(***************************************************************************)
(* The lists and the CSV exports, read page by page while rows are         *)
(* inserted: a list answers one page and the cursor of the next, an export *)
(* sends batch after batch in one response.  Both come back to the table   *)
(* by the key of the last row they sent.                                   *)
(*                                                                         *)
(* A row is its id and a time, which rows may share; filters and cells are *)
(* left out.  For metrics, the time stands for the camera and the name,    *)
(* and the id for the minute.                                              *)
(***************************************************************************)
EXTENDS Naturals, FiniteSets

CONSTANTS
    RowIds, RowTimes,   \* naturals
    PageSize,           \* the limit of a page, and BATCH
    MaxPageTrouble      \* queries and audit records that fail

ASSUME PagesAssumption ==
    /\ RowIds \subseteq Nat /\ IsFiniteSet(RowIds)
    /\ RowTimes \subseteq Nat \ {0} /\ PageSize \in Nat \ {0}

VARIABLES
    table,       \* id -> its time, 0 while there is no such row
    walk,        \* the list or export being read
    sent,        \* id -> how often it was sent
    pageTrouble

pagesVars == <<table, walk, sent, pageTrouble>>

PagedLists == {"events", "intervals", "audit", "logins"}
CsvExports == {"events.csv", "intervals.csv", "metrics.csv", "audit.csv", "logins.csv"}
TimeOrdered == {"events", "intervals", "events.csv", "intervals.csv"}
IdOrdered == {"audit", "logins", "audit.csv", "logins.csv"}

TableRow(id) == [id |-> id, time |-> table[id]]
TableRows == {TableRow(id) : id \in {i \in RowIds : table[i] # 0}}
NoRow == [id |-> 0, time |-> 0]
IdleWalk == [list |-> "none", at |-> "idle"]

PagesInit ==
    /\ table \in [RowIds -> RowTimes \cup {0}]
    /\ walk = IdleWalk
    /\ sent = [id \in RowIds |-> 0]
    /\ pageTrouble = 0

-----------------------------------------------------------------------------
(* Keysets *)

Beyond(x, y, order) == IF order = "asc" THEN x > y ELSE x < y

\* Only the column, strictly: drops the rest of the rows of that time.
KeysetColumnOnly(row, after, order) == Beyond(row.time, after.time, order)

\* keysetAfter(): the loose bound, and (the strict one or the id).
KeysetAfter(row, after, order) ==
    /\ row.time = after.time \/ Beyond(row.time, after.time, order)
    /\ \/ Beyond(row.time, after.time, order)
       \/ row.time = after.time /\ Beyond(row.id, after.id, order)

\* The order of a list, and the rows its query finds after a key.
Precedes(list, q, r, order) ==
    IF list \in IdOrdered THEN Beyond(r.id, q.id, order)
    ELSE Beyond(r.time, q.time, order) \/ (r.time = q.time /\ Beyond(r.id, q.id, order))

\* A metric's key is compared as a row value.
Follows(list, row, after, order) ==
    IF list \in TimeOrdered THEN KeysetAfter(row, after, order)
    ELSE Precedes(list, after, row, order)

FoundAfter(list, after, order) ==
    {r \in TableRows : after = NoRow \/ Follows(list, r, after, order)}

FirstOf(list, rows, n, order) ==
    {r \in rows : Cardinality({q \in rows : Precedes(list, q, r, order)}) < n}

LastOf(list, rows, order) ==
    CHOOSE r \in rows : \A q \in rows : q = r \/ Precedes(list, q, r, order)

Stumbles(fails) ==
    /\ fails => pageTrouble < MaxPageTrouble
    /\ pageTrouble' = pageTrouble + (IF fails THEN 1 ELSE 0)

Sends(rows) == sent' = [id \in RowIds |-> sent[id] + (IF TableRow(id) \in rows THEN 1 ELSE 0)]

-----------------------------------------------------------------------------
(* PagedLists, newest first *)

OpenList(list) ==
    /\ walk = IdleWalk
    /\ walk' = [list |-> list, at |-> "list", after |-> NoRow, there |-> {r.id : r \in TableRows}]
    /\ UNCHANGED <<table, sent, pageTrouble>>

\* One row more than the limit tells whether there is a next page.
ServePage(list) ==
    LET found == FirstOf(list, FoundAfter(list, walk.after, "desc"), PageSize + 1, "desc")
        page == FirstOf(list, found, PageSize, "desc")
    IN  /\ walk.list = list /\ walk.at = "list"
        /\ Sends(page)
        /\ walk' = IF Cardinality(found) > PageSize
                   THEN [walk EXCEPT !.after = LastOf(list, page, "desc")]
                   ELSE [walk EXCEPT !.at = "complete"]
        /\ UNCHANGED <<table, pageTrouble>>

EventsPage == ServePage("events")
IntervalsPage == ServePage("intervals")
AuditPage == ServePage("audit")
LoginsPage == ServePage("logins")

-----------------------------------------------------------------------------
(* CsvExports, oldest first *)

\* No data leaves without a record.
AuditExport(list, fails) ==
    /\ walk = IdleWalk
    /\ Stumbles(fails)
    /\ walk' = IF fails THEN [list |-> list, at |-> "error"]
               ELSE [list |-> list, at |-> "first", after |-> NoRow]
    /\ UNCHANGED <<table, sent>>

\* A first query that fails is an error response, a later one cuts the connection.
ReadBatch(list, fails) ==
    LET batch == FirstOf(list, FoundAfter(list, walk.after, "asc"), PageSize, "asc")
    IN  /\ walk.list = list /\ walk.at \in {"first", "next"}
        /\ Stumbles(fails)
        /\ walk' =
              IF fails THEN [list |-> list, at |-> IF walk.at = "first" THEN "error" ELSE "cut"]
              ELSE [list |-> list, at |-> "write", batch |-> batch, after |-> walk.after,
                    there |-> IF walk.at = "first" THEN {r.id : r \in TableRows} ELSE walk.there]
        /\ UNCHANGED <<table, sent>>

EventBatches(fails) == ReadBatch("events.csv", fails)
IntervalBatches(fails) == ReadBatch("intervals.csv", fails)
MetricBatches(fails) == ReadBatch("metrics.csv", fails)
ByIdBatches(list, fails) == list \in IdOrdered /\ ReadBatch(list, fails)

\* A batch is written once the client took the one before; a short one is the
\* last.  A client that left ends it all.
StreamCsv(gone) ==
    /\ walk.at = "write"
    /\ IF gone THEN walk' = [list |-> walk.list, at |-> "cut"] /\ UNCHANGED sent
       ELSE /\ Sends(walk.batch)
            /\ walk' = IF Cardinality(walk.batch) < PageSize
                       THEN [list |-> walk.list, at |-> "complete", there |-> walk.there]
                       ELSE [list |-> walk.list, at |-> "next", there |-> walk.there,
                             after |-> LastOf(walk.list, walk.batch, "asc")]
    /\ UNCHANGED <<table, pageTrouble>>

\* Rows come late, too: behind the key, or with its time.
InsertRow(id, time) ==
    /\ table[id] = 0
    /\ table' = [table EXCEPT ![id] = time]
    /\ UNCHANGED <<walk, sent, pageTrouble>>

-----------------------------------------------------------------------------

PagesNext ==
    \/ \E list \in PagedLists : OpenList(list)
    \/ EventsPage \/ IntervalsPage \/ AuditPage \/ LoginsPage
    \/ \E fails \in BOOLEAN :
          \/ \E list \in CsvExports : AuditExport(list, fails) \/ ByIdBatches(list, fails)
          \/ EventBatches(fails) \/ IntervalBatches(fails) \/ MetricBatches(fails)
          \/ StreamCsv(fails)
    \/ \E id \in RowIds, time \in RowTimes : InsertRow(id, time)

PagesSpec == PagesInit /\ [][PagesNext]_pagesVars

-----------------------------------------------------------------------------
(* Properties *)

PagesTypeOK ==
    /\ table \in [RowIds -> RowTimes \cup {0}]
    /\ walk.list \in PagedLists \cup CsvExports \cup {"none"}
    /\ walk.at \in {"idle", "list", "first", "next", "write", "complete", "cut", "error"}
    /\ sent \in [RowIds -> Nat]

\* No row is sent twice, and a list or export read to its end has every row
\* that was there when it began, whatever was inserted meanwhile.
PagesMissNothing ==
    /\ \A id \in RowIds : sent[id] <= 1
    /\ walk.at = "complete" => \A id \in walk.there : sent[id] = 1

=============================================================================
