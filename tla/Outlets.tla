------------------------------ MODULE Outlets ------------------------------
(***************************************************************************)
(* Outlets and their tables (outlet.service.ts, outlet-table.service.ts).  *)
(* A table names its outlet, and the outlet lists its tables: the two      *)
(* sides are written one after the other, with no transaction, while       *)
(* other requests run and while either request may die in between.  A      *)
(* customer's scan of a QR code reads the table and then the outlet.       *)
(***************************************************************************)
EXTENDS Integers, FiniteSets

CONSTANTS
  Outlet,      \* outlets that may be created
  Table,       \* tables that may be created
  Name,        \* names of tables
  Request,     \* requests in flight
  Customer     \* scans in flight

Idle == [step |-> "idle"]

OutletDoc == [stored : BOOLEAN, deleted : BOOLEAN, tableIds : SUBSET Table]

\* A table document.  The outlet is chosen at creation: UpdateOutletTableDto
\* has no outletId.
TableDoc == [stored : BOOLEAN, deleted : BOOLEAN, outlet : Outlet, name : Name]

RequestState ==
  {Idle}
    \cup [step : {"save"}, table : Table, outlet : Outlet, name : Name]
    \cup [step : {"link", "unlink"}, table : Table]

ScanState ==
  {Idle}
    \cup [step : {"outlet", "found", "lost"}, table : Table, open : BOOLEAN]

VARIABLES
  outlets,   \* outlets[o] is the outlet document
  tables,    \* tables[t] is the table document
  jobs,      \* jobs[q] is what the request q has done so far
  scans,     \* scans[c] is what the scan of c has read so far; open: its
             \* outlet was live when the scan began
  cut,       \* tables whose creation or removal died before its last write
  crossed    \* tables removed before their creation had added them

vars == <<outlets, tables, jobs, scans, cut, crossed>>

TypeOK ==
  /\ outlets \in [Outlet -> OutletDoc]
  /\ tables \in [Table -> TableDoc]
  /\ jobs \in [Request -> RequestState]
  /\ scans \in [Customer -> ScanState]
  /\ cut \subseteq Table
  /\ crossed \subseteq Table

Init ==
  /\ outlets = [o \in Outlet |-> [stored |-> FALSE, deleted |-> FALSE, tableIds |-> {}]]
  /\ tables = [t \in Table |->
       [stored |-> FALSE, deleted |-> FALSE,
        outlet |-> CHOOSE o \in Outlet : TRUE, name |-> CHOOSE n \in Name : TRUE]]
  /\ jobs = [q \in Request |-> Idle]
  /\ scans = [c \in Customer |-> Idle]
  /\ cut = {}
  /\ crossed = {}

Live(doc) == doc.stored /\ ~doc.deleted

----------------------------------------------------------------------------
(* Outlets: one write each.                                                *)

CreateOutlet(o) ==
  /\ ~outlets[o].stored
  /\ outlets' = [outlets EXCEPT ![o].stored = TRUE]
  /\ UNCHANGED <<tables, jobs, scans, cut, crossed>>

\* remove leaves the outlet's tables and their list as they are.
RemoveOutlet(o) ==
  /\ Live(outlets[o])
  /\ outlets' = [outlets EXCEPT ![o].deleted = TRUE]
  /\ UNCHANGED <<tables, jobs, scans, cut, crossed>>

----------------------------------------------------------------------------
(* Tables.                                                                 *)

\* The unique index on (outletId, name) holds deleted tables too.
IndexAdmits(t, o, n) ==
  \A u \in Table \ {t} :
    tables[u].stored => ~(tables[u].outlet = o /\ tables[u].name = n)

\* create: the outlet must exist now ...
BeginCreate(q, t, o, n) ==
  /\ jobs[q] = Idle
  /\ ~tables[t].stored
  /\ \A p \in Request : jobs[p].step = "save" => jobs[p].table # t
  /\ Live(outlets[o])
  /\ jobs' = [jobs EXCEPT ![q] = [step |-> "save", table |-> t, outlet |-> o, name |-> n]]
  /\ UNCHANGED <<outlets, tables, scans, cut, crossed>>

\* ... then the table is stored; E11000 is answered with 400 ...
Save(q) ==
  LET j == jobs[q] IN
  /\ j.step = "save"
  /\ IF IndexAdmits(j.table, j.outlet, j.name)
       THEN /\ tables' = [tables EXCEPT ![j.table] =
                 [stored |-> TRUE, deleted |-> FALSE, outlet |-> j.outlet, name |-> j.name]]
            /\ jobs' = [jobs EXCEPT ![q] = [step |-> "link", table |-> j.table]]
       ELSE jobs' = [jobs EXCEPT ![q] = Idle] /\ UNCHANGED tables
  /\ UNCHANGED <<outlets, scans, cut, crossed>>

\* ... and added to the outlet's list, if the outlet is still live.
Replaced(ids, t) == {t}

Added(ids, t) == ids \cup {t}

Link(q) ==
  LET t == jobs[q].table  o == tables[t].outlet IN
  /\ jobs[q].step = "link"
  /\ outlets' = IF Live(outlets[o])
                  THEN [outlets EXCEPT ![o].tableIds = Added(@, t)] ELSE outlets
  /\ crossed' = IF tables[t].deleted THEN crossed \cup {t} ELSE crossed
  /\ jobs' = [jobs EXCEPT ![q] = Idle]
  /\ UNCHANGED <<tables, scans, cut>>

\* update: a new name, refused by the index with 400.
Rename(t, n) ==
  /\ Live(tables[t])
  /\ IndexAdmits(t, tables[t].outlet, n)
  /\ tables' = [tables EXCEPT ![t].name = n]
  /\ UNCHANGED <<outlets, jobs, scans, cut, crossed>>

\* remove: the table is soft-deleted, then taken off the outlet's list.
BeginRemove(q, t) ==
  /\ jobs[q] = Idle
  /\ Live(tables[t])
  /\ tables' = [tables EXCEPT ![t].deleted = TRUE]
  /\ jobs' = [jobs EXCEPT ![q] = [step |-> "unlink", table |-> t]]
  /\ UNCHANGED <<outlets, scans, cut, crossed>>

Unlink(q) ==
  LET t == jobs[q].table  o == tables[t].outlet IN
  /\ jobs[q].step = "unlink"
  /\ outlets' = IF Live(outlets[o])
                  THEN [outlets EXCEPT ![o].tableIds = @ \ {t}] ELSE outlets
  /\ jobs' = [jobs EXCEPT ![q] = Idle]
  /\ UNCHANGED <<tables, scans, cut, crossed>>

\* The process dies, or the second write fails with 500.
Die(q) ==
  /\ jobs[q].step \in {"link", "unlink"}
  /\ cut' = cut \cup {jobs[q].table}
  /\ jobs' = [jobs EXCEPT ![q] = Idle]
  /\ UNCHANGED <<outlets, tables, scans, crossed>>

----------------------------------------------------------------------------
(* findByQrToken with a table's code: the table, then its outlet.          *)

Scan(c, t) ==
  /\ scans[c] = Idle
  /\ Live(tables[t])
  /\ scans' = [scans EXCEPT ![c] = [step |-> "outlet", table |-> t,
                                    open |-> Live(outlets[tables[t].outlet])]]
  /\ UNCHANGED <<outlets, tables, jobs, cut, crossed>>

OutletFound(t) == Live(outlets[tables[t].outlet])

ReadOutlet(c) ==
  /\ scans[c].step = "outlet"
  /\ scans' = [scans EXCEPT ![c].step = IF OutletFound(scans[c].table) THEN "found" ELSE "lost"]
  /\ UNCHANGED <<outlets, tables, jobs, cut, crossed>>

AnswerScan(c) ==
  /\ scans[c].step \in {"found", "lost"}
  /\ scans' = [scans EXCEPT ![c] = Idle]
  /\ UNCHANGED <<outlets, tables, jobs, cut, crossed>>

Next ==
  \/ \E o \in Outlet : CreateOutlet(o) \/ RemoveOutlet(o)
  \/ \E q \in Request, t \in Table :
       \/ \E o \in Outlet, n \in Name : BeginCreate(q, t, o, n)
       \/ BeginRemove(q, t)
  \/ \E q \in Request : Save(q) \/ Link(q) \/ Unlink(q) \/ Die(q)
  \/ \E t \in Table, n \in Name : Rename(t, n)
  \/ \E c \in Customer :
       \/ \E t \in Table : Scan(c, t)
       \/ ReadOutlet(c) \/ AnswerScan(c)

Spec == Init /\ [][Next]_vars

----------------------------------------------------------------------------
(* Properties.                                                             *)

Pending(step) == {jobs[q].table : q \in {p \in Request : jobs[p].step = step}}

\* A live outlet's list and its live tables differ only by the tables whose
\* creation or removal is between its two writes or died there, and by those
\* removed before their creation had added them: no other order of concurrent
\* creations, renames and removals leaves the two sides apart, and no outlet
\* lists another outlet's table.
ListAgrees ==
  \A o \in Outlet : Live(outlets[o]) =>
    LET own == {t \in Table : Live(tables[t]) /\ tables[t].outlet = o} IN
    /\ own \ outlets[o].tableIds \subseteq Pending("link") \cup cut
    /\ outlets[o].tableIds \ own \subseteq Pending("unlink") \cup cut \cup crossed
    /\ \A t \in outlets[o].tableIds : tables[t].outlet = o

\* The customer at a table can tell it by its name: two live tables of one
\* outlet never share one, whatever creations and renames run at once.
NamesDiffer ==
  \A t, u \in Table :
    (t # u /\ Live(tables[t]) /\ Live(tables[u]) /\ tables[t].outlet = tables[u].outlet)
      => tables[t].name # tables[u].name

\* A scan that finds its outlet found a table and an outlet that were both
\* live when it began, although it reads them one after the other and either
\* may be deleted meanwhile: a table outlives its outlet in the database, but
\* its code opens nothing.
ScanFindsLive == \A c \in Customer : scans[c].step = "found" => scans[c].open

============================================================================
