---------------------------- MODULE TableRequests ----------------------------
(***************************************************************************)
(* Requests of the API that create, update and delete tables: the check of *)
(* SystemProtectionService, then TableHandlerService, whose statements     *)
(* commit one by one, on the DataSource it has taken at its start.  Each   *)
(* change fires syncAll, which makes the physical tables those of the      *)
(* metadata and swaps the DataSource; the old one is destroyed 500 ms      *)
(* later, whoever still uses it.                                           *)
(*                                                                         *)
(* syncAll (SchemaSync) is one step here.  A row of table_definition has a *)
(* name and parts, the rows of column_definition and relation_definition   *)
(* that name it as theirs.  Clients choose the ids in their bodies: a save *)
(* writes the table of the body's id, and takes the parts it lists from    *)
(* the tables that have them.                                              *)
(***************************************************************************)
EXTENDS Naturals, FiniteSets

CONSTANTS Requests,
          Tables,             \* ids of table_definition
          SystemTables,       \* those of the snapshot
          Columns, Relations, \* ids of column_definition and relation_definition
          Primary,            \* the primary columns
          Target,             \* the table each relation points to
          SystemParts,        \* the system columns and relations of each system table
          Bodies,             \* the bodies clients send
          Installed,          \* the tables there are at first
          None,
          MaxRequests,        \* bound: requests
          MaxFaults           \* bound: statements that fail

\* A table is first named by its id.
Names == Tables
Parts == Columns \cup Relations
Row   == [name : Names, parts : SUBSET Parts, isSystem : BOOLEAN]

ASSUME TablesAssumption == SystemTables \subseteq Tables /\ None \notin Tables \cup Row
ASSUME PartsAssumption ==
  /\ Columns \cap Relations = {} /\ Primary \subseteq Columns
  /\ Target \in [Relations -> Tables]
  /\ SystemParts \in [SystemTables -> SUBSET Parts]
ASSUME BodiesAssumption == Bodies \subseteq Row
ASSUME InstalledAssumption ==
  /\ Installed \subseteq [Tables -> Row \cup {None}]
  /\ \A f \in Installed, t \in Tables :
       /\ f[t] # None => /\ f[t].name = t /\ (f[t].isSystem <=> t \in SystemTables)
                         /\ \A q \in f[t].parts \cap Relations : f[Target[q]] # None
                         /\ \A u \in Tables \ {t} : f[u] # None => f[u].parts \cap f[t].parts = {}
       /\ t \in SystemTables => f[t] # None /\ SystemParts[t] \subseteq f[t].parts
ASSUME BoundsAssumption == MaxRequests \in Nat /\ MaxFaults \in Nat

VARIABLES
  row,      \* table_definition, column_definition and relation_definition
  pinned,   \* relation rows without a source table
  route,    \* route_definition: the main table of each path, or None; absent paths
            \* are not in its domain
  physical, \* the physical tables: their columns
  pending,  \* a syncAll has been fired and has not run
  source,   \* the DataSource in use, counted
  oldest,   \* the oldest DataSource that is not destroyed
  pc,       \* where each request is
  table,    \* the table of its path, or None
  saves,    \* the table its save writes
  body,     \* its body, or None
  using,    \* the DataSource its handler has taken
  removed,  \* the parts its handler has found to be removed
  cut,      \* history: names of tables it has changed in part, since the last sync
  issued, faults,
  torn,     \* history: such names of requests that have failed, since the last sync
  asked,    \* history: names of the tables requests delete, and names given up
  unguarded \* history: tables changed or asked for by a request whose check has
            \* not seen that table, or not seen that it is a system table

dbVars   == <<row, pinned, route>>
srcVars  == <<source, oldest>>
reqVars  == <<table, saves, body, using, removed, cut>>
past     == <<torn, asked, unguarded>>
vars     == <<dbVars, physical, pending, srcVars, pc, reqVars, issued, faults, past>>

PartsOf(t) == IF row[t] = None THEN {} ELSE row[t].parts
Owners(ps) == {t \in Tables : PartsOf(t) \cap ps # {}}
Named(n)   == {t \in Tables : row[t] # None /\ row[t].name = n}

Init ==
  /\ row \in Installed
  /\ pinned = {}
  /\ LET there == {t \in Tables : row[t] # None} IN
       /\ route = [t \in there |-> t]
       /\ physical = [t \in there |-> row[t].parts \cap Columns]
  /\ pending = FALSE /\ source = 0 /\ oldest = 0
  /\ pc = [r \in Requests |-> "idle"]
  /\ table = [r \in Requests |-> None] /\ saves = [r \in Requests |-> None]
  /\ body = [r \in Requests |-> None] /\ using = [r \in Requests |-> 0]
  /\ removed = [r \in Requests |-> {}] /\ cut = [r \in Requests |-> {}]
  /\ issued = 0 /\ faults = 0
  /\ torn = {} /\ asked = {} /\ unguarded = {}

-----------------------------------------------------------------------------

Goto(r, from, to) == pc[r] = from /\ pc' = [pc EXCEPT ![r] = to]

Fault == faults < MaxFaults /\ faults' = faults + 1

\* A statement on the DataSource the handler has taken ...
Usable(r) == using[r] >= oldest

\* ... fails, and with it the request, when that is destroyed.
Fails(r) == IF Usable(r) THEN Fault ELSE UNCHANGED faults

\* The request is answered; what it held is forgotten.
Answer(r) ==
  /\ pc' = [pc EXCEPT ![r] = "idle"]
  /\ table' = [table EXCEPT ![r] = None] /\ saves' = [saves EXCEPT ![r] = None]
  /\ body' = [body EXCEPT ![r] = None] /\ using' = [using EXCEPT ![r] = 0]
  /\ removed' = [removed EXCEPT ![r] = {}] /\ cut' = [cut EXCEPT ![r] = {}]

\* Answered with an error that leaves the database alone, and fires no syncAll:
\* what the request has committed before stays as it is.
Reject(r) ==
  /\ Answer(r) /\ torn' = torn \cup cut[r]
  /\ UNCHANGED <<dbVars, physical, pending, srcVars, issued, asked, unguarded>>

-----------------------------------------------------------------------------
(* SystemProtectionService.assertSystemSafe, for table_definition. *)

\* The flag is refused in the body, and cleared in what is saved.
SafeCreate(b) == ~b.isSystem

Flagged == UNION {SystemParts[t] : t \in SystemTables}

\* Mutant (SystemStays): the parts of a system table are not looked at.
SafeUpdateFields(t, s, b) == row[t].isSystem => s = t /\ b.name = row[t].name /\ b.isSystem

\* Of a system table only the description and what is not a system column or
\* relation may change.
SafeUpdate(t, s, b) ==
  row[t].isSystem =>
    /\ s = t /\ b.name = row[t].name /\ b.isSystem
    /\ row[t].parts \cap Flagged \subseteq b.parts

SafeDelete(t) == ~row[t].isSystem

-----------------------------------------------------------------------------
(* DynamicRepository: find, assertSystemSafe, then the handler.  The row     *)
(* find hands to the check has the fields the client's query asked for: it   *)
(* is seen to be a system table only when isSystem is one of them.           *)

Receive(r) ==
  /\ pc[r] = "idle" /\ issued < MaxRequests
  /\ issued' = issued + 1
  /\ UNCHANGED <<dbVars, physical, pending, srcVars, using, removed, cut, faults, torn, asked>>

\* The body is saved with its id: that of any table, or a fresh one.
Create(r) ==
  /\ Receive(r)
  /\ \E s \in Tables, b \in Bodies :
       /\ SafeCreate(b)
       /\ saves' = [saves EXCEPT ![r] = s] /\ body' = [body EXCEPT ![r] = b]
  /\ pc' = [pc EXCEPT ![r] = "exists"]
  /\ UNCHANGED <<table, unguarded>>

\* The body's id s, the path's when it has none, replaces that of the row read.
Update(r) ==
  /\ Receive(r)
  /\ \E t \in Tables, s \in Tables, b \in Bodies, seen \in BOOLEAN :
       /\ row[t] # None /\ (seen => SafeUpdate(t, s, b))
       /\ table' = [table EXCEPT ![r] = t] /\ saves' = [saves EXCEPT ![r] = s]
       /\ body' = [body EXCEPT ![r] = b]
       /\ unguarded' = IF seen THEN unguarded ELSE unguarded \cup {t}
  /\ pc' = [pc EXCEPT ![r] = "read"]

Delete(r) ==
  /\ Receive(r)
  /\ \E t \in Tables, seen \in BOOLEAN :
       /\ row[t] # None /\ (seen => SafeDelete(t))
       /\ table' = [table EXCEPT ![r] = t]
       /\ unguarded' = IF seen THEN unguarded ELSE unguarded \cup {t}
  /\ pc' = [pc EXCEPT ![r] = "find"]
  /\ UNCHANGED <<saves, body>>

-----------------------------------------------------------------------------
(* createTable *)

Take(r) == using' = [using EXCEPT ![r] = source]

\* One primary column.  A name is taken only when both a row and a physical
\* table have it.
Exists(r) ==
  /\ Goto(r, "exists", "insert")
  /\ \E c \in Primary : body[r].parts \cap Primary = {c}
  /\ Named(body[r].name) = {} \/ body[r].name \notin DOMAIN physical
  /\ Take(r)
  /\ UNCHANGED <<dbVars, physical, pending, srcVars, table, saves, body, removed, cut, issued,
                 faults, past>>

ExistsError(r) ==
  /\ pc[r] = "exists" /\ Reject(r)
  /\ \/ (\A c \in Primary : body[r].parts \cap Primary # {c}) /\ UNCHANGED faults
     \/ Named(body[r].name) # {} /\ body[r].name \in DOMAIN physical /\ UNCHANGED faults
     \/ Fault

\* save: unique names, targets that exist.
Valid(r) ==
  /\ Named(body[r].name) \subseteq {saves[r]}
  /\ \A q \in body[r].parts \cap Relations : row[Target[q]] # None \/ Target[q] = saves[r]

\* save writes the whole table, or inserts it when it is not there; the parts it
\* lists are its own from then on, relations it no longer lists lose their source.
Save(r) ==
  LET t == saves[r]  b == body[r] IN
  /\ Usable(r) /\ Valid(r)
  /\ row' = [u \in Tables |->
               IF u = t THEN b
               ELSE IF row[u] = None THEN None ELSE [row[u] EXCEPT !.parts = @ \ b.parts]]
  /\ pinned' = (pinned \cup (PartsOf(t) \cap Relations)) \ b.parts
  /\ asked' = IF row[t] = None \/ row[t].name = b.name THEN asked ELSE asked \cup {row[t].name}
  /\ unguarded' = unguarded \cup ({t} \ {table[r]}) \cup (Owners(b.parts) \ {t})
  /\ cut' = [cut EXCEPT ![r] = {}]

InsertTable(r) ==
  /\ Goto(r, "insert", "route") /\ Save(r)
  /\ pending' = TRUE
  /\ UNCHANGED <<route, physical, srcVars, table, saves, body, using, removed, issued, faults,
                 torn>>

InsertTableError(r) ==
  /\ pc[r] = "insert" /\ Reject(r)
  /\ \/ ~Valid(r) /\ UNCHANGED faults
     \/ Fails(r)

\* The route of the new table, on the DataSource of the moment.
InsertRoute(r) ==
  /\ Goto(r, "route", "return")
  /\ row[saves[r]] # None /\ body[r].name \notin DOMAIN route
  /\ route' = [n \in DOMAIN route \cup {body[r].name} |->
                 IF n = body[r].name THEN saves[r] ELSE route[n]]
  /\ UNCHANGED <<row, pinned, physical, pending, srcVars, reqVars, issued, faults, past>>

\* The table is there, the answer is an error: also when the path of a table that
\* was deleted or renamed is still taken.
InsertRouteError(r) ==
  /\ pc[r] = "route" /\ Reject(r)
  /\ \/ (row[saves[r]] = None \/ body[r].name \in DOMAIN route) /\ UNCHANGED faults
     \/ Fault

\* reload and find, which may fail once everything is committed.
Return(r)      == pc[r] = "return" /\ Reject(r) /\ UNCHANGED faults
ReturnError(r) == pc[r] = "return" /\ Reject(r) /\ Fault

-----------------------------------------------------------------------------
(* updateTable *)

ReadTable(r) ==
  /\ Goto(r, "read", "columns")
  /\ row[table[r]] # None /\ body[r].parts \cap Primary # {}
  /\ Take(r)
  /\ removed' = [removed EXCEPT ![r] = row[table[r]].parts \ body[r].parts]
  /\ UNCHANGED <<dbVars, physical, pending, srcVars, table, saves, body, cut, issued, faults, past>>

ReadTableError(r) ==
  /\ pc[r] = "read" /\ Reject(r)
  /\ \/ row[table[r]] = None /\ UNCHANGED faults
     \/ body[r].parts \cap Primary = {} /\ UNCHANGED faults
     \/ Fault

\* What the body leaves out is deleted by its ids, whosever it is by now.
Without(ps) ==
  [t \in Tables |-> IF row[t] = None THEN None ELSE [row[t] EXCEPT !.parts = @ \ ps]]

\* Columns first, in statements of their own.
DeleteColumns(r) ==
  LET gone == removed[r] \cap Columns IN
  /\ Goto(r, "columns", "relations") /\ Usable(r)
  /\ row' = Without(gone)
  /\ cut' = [cut EXCEPT ![r] = @ \cup {row[t].name : t \in Owners(gone)}]
  /\ UNCHANGED <<pinned, route, physical, pending, srcVars, table, saves, body, using, removed,
                 issued, faults, past>>

DeleteColumnsError(r) == pc[r] = "columns" /\ Reject(r) /\ Fails(r)

DeleteRelations(r) ==
  LET gone == removed[r] \cap Relations IN
  /\ Goto(r, "relations", "save") /\ Usable(r)
  /\ row' = Without(gone) /\ pinned' = pinned \ gone
  /\ UNCHANGED <<route, physical, pending, srcVars, reqVars, issued, faults, past>>

DeleteRelationsError(r) == pc[r] = "relations" /\ Reject(r) /\ Fails(r)

\* Mutant (SettledAgrees): syncAll is fired only when this save changes the table,
\* and not when the columns were deleted before it.
SaveTableSyncsAdded(r) ==
  /\ Goto(r, "save", "return") /\ Save(r)
  /\ pending' = (pending \/ row[saves[r]] # body[r])
  /\ UNCHANGED <<route, physical, srcVars, table, saves, body, using, removed, issued, faults,
                 torn>>

SaveTable(r) ==
  /\ Goto(r, "save", "return") /\ Save(r)
  /\ pending' = TRUE
  /\ UNCHANGED <<route, physical, srcVars, table, saves, body, using, removed, issued, faults,
                 torn>>

SaveTableError(r) ==
  /\ pc[r] = "save" /\ Reject(r)
  /\ \/ ~Valid(r) /\ UNCHANGED faults
     \/ Fails(r)

-----------------------------------------------------------------------------
(* delete *)

FindTable(r) ==
  /\ Goto(r, "find", "drop") /\ row[table[r]] # None
  /\ Take(r)
  /\ body' = [body EXCEPT ![r] = row[table[r]]]
  /\ asked' = asked \cup {row[table[r]].name}
  /\ UNCHANGED <<dbVars, physical, pending, srcVars, table, saves, removed, cut, issued, faults,
                 torn, unguarded>>

FindTableError(r) ==
  /\ pc[r] = "find" /\ Reject(r)
  /\ \/ row[table[r]] = None /\ UNCHANGED faults
     \/ Fault

\* The foreign keys from and to the table, then the table.
DropTable(r) ==
  /\ Goto(r, "drop", "remove") /\ Usable(r)
  /\ physical' = [n \in DOMAIN physical \ {body[r].name} |-> physical[n]]
  /\ cut' = [cut EXCEPT ![r] = @ \cup {body[r].name}]
  /\ UNCHANGED <<dbVars, pending, srcVars, table, saves, body, using, removed, issued, faults, past>>

DropTableError(r) == pc[r] = "drop" /\ Reject(r) /\ Fails(r)

\* Relations that point to the table restrict its removal: its own too, and those
\* whose table is gone.
Restricted(t) ==
  \E q \in Relations : Target[q] = t /\ (q \in pinned \/ Owners({q}) # {})

\* Mutant (TypeOK): a route keeps a main table that is gone.
RemoveTableKeepsRoutes(r) ==
  LET t == table[r] IN
  /\ pc[r] = "remove" /\ Usable(r) /\ ~Restricted(t)
  /\ Answer(r)
  /\ row' = [row EXCEPT ![t] = None]
  /\ pinned' = pinned \cup (PartsOf(t) \cap Relations)
  /\ pending' = TRUE
  /\ asked' = IF row[t] = None THEN asked ELSE asked \cup {row[t].name}
  /\ UNCHANGED <<route, physical, srcVars, issued, faults, torn, unguarded>>

RemoveTable(r) ==
  LET t == table[r] IN
  /\ pc[r] = "remove" /\ Usable(r) /\ ~Restricted(t)
  /\ Answer(r)
  /\ row' = [row EXCEPT ![t] = None]
  /\ pinned' = pinned \cup (PartsOf(t) \cap Relations)
  /\ route' = [n \in DOMAIN route |-> IF route[n] = t THEN None ELSE route[n]]
  /\ pending' = TRUE
  /\ asked' = IF row[t] = None THEN asked ELSE asked \cup {row[t].name}
  /\ UNCHANGED <<physical, srcVars, issued, faults, torn, unguarded>>

\* The physical table is gone, its row is not.
RemoveTableError(r) ==
  /\ pc[r] = "remove" /\ Reject(r)
  /\ \/ Restricted(table[r]) /\ UNCHANGED faults
     \/ Fails(r)

-----------------------------------------------------------------------------
(* The synchronisation and the DataSource. *)

\* Mutant (DroppedOnlyWhenAsked): a table whose change has failed half-way yields no
\* entity, and is dropped.
SyncSkipsTorn ==
  /\ pending /\ pending' = FALSE
  /\ physical' = [n \in {row[t].name : t \in {u \in Tables : row[u] # None}} \ torn |->
                    (UNION {row[t].parts : t \in Named(n)}) \cap Columns]
  /\ source' = source + 1
  /\ torn' = {} /\ cut' = [r \in Requests |-> {}]
  /\ UNCHANGED <<dbVars, oldest, pc, table, saves, body, using, removed, issued, faults, asked,
                 unguarded>>

\* The physical tables become those of the rows (renamed ones are created, those
\* without a row dropped), and reloadDataSource swaps.
Sync ==
  /\ pending /\ pending' = FALSE
  /\ physical' = [n \in {row[t].name : t \in {u \in Tables : row[u] # None}} |->
                    (UNION {row[t].parts : t \in Named(n)}) \cap Columns]
  /\ source' = source + 1
  /\ torn' = {} /\ cut' = [r \in Requests |-> {}]
  /\ UNCHANGED <<dbVars, oldest, pc, table, saves, body, using, removed, issued, faults, asked,
                 unguarded>>

\* The timer of a swap.
DestroySource ==
  /\ oldest < source /\ oldest' = oldest + 1
  /\ UNCHANGED <<dbVars, physical, pending, source, pc, reqVars, issued, faults, past>>

Handle(r) ==
  \/ Exists(r) \/ ExistsError(r) \/ InsertTable(r) \/ InsertTableError(r)
  \/ InsertRoute(r) \/ InsertRouteError(r) \/ Return(r) \/ ReturnError(r)
  \/ ReadTable(r) \/ ReadTableError(r) \/ DeleteColumns(r) \/ DeleteColumnsError(r)
  \/ DeleteRelations(r) \/ DeleteRelationsError(r) \/ SaveTable(r) \/ SaveTableError(r)
  \/ FindTable(r) \/ FindTableError(r) \/ DropTable(r) \/ DropTableError(r)
  \/ RemoveTable(r) \/ RemoveTableError(r)

Next ==
  \/ \E r \in Requests : Create(r) \/ Update(r) \/ Delete(r) \/ Handle(r)
  \/ Sync \/ DestroySource

Spec == Init /\ [][Next]_vars

-----------------------------------------------------------------------------
(* Properties. *)

\* Every variable has its type; no two rows have one name or one part, no relation
\* points to a row that is gone, no route to a table that is gone.
TypeOK ==
  /\ row \in [Tables -> Row \cup {None}] /\ pinned \subseteq Relations
  /\ \A n \in Names : Cardinality(Named(n)) <= 1
  /\ \A t \in Tables : PartsOf(t) \cap pinned = {} /\ \A u \in Tables \ {t} : PartsOf(t) \cap PartsOf(u) = {}
  /\ \A t \in Tables : row[t] = None => ~Restricted(t)
  /\ \A n \in DOMAIN route : route[n] # None => row[route[n]] # None
  /\ DOMAIN physical \subseteq Names /\ \A n \in DOMAIN physical : physical[n] \subseteq Columns
  /\ oldest \in 0..source
  /\ torn \subseteq Names /\ asked \subseteq Names /\ unguarded \subseteq Tables

\* Whatever requests interleave and fail, a table of the snapshot keeps its row, its
\* name, its flag, its system columns and relations and its physical table, as long
\* as every request for it is checked with the flag in sight, and none names it or
\* one of its columns or relations in the body of another table.
SystemStays ==
  \A t \in SystemTables \ unguarded :
    /\ row[t] # None /\ row[t].name = t /\ row[t].isSystem /\ SystemParts[t] \subseteq row[t].parts
    /\ t \in DOMAIN physical /\ SystemParts[t] \cap Columns \subseteq physical[t]

Quiet == (\A r \in Requests : pc[r] = "idle") /\ ~pending

\* When no request and no synchronisation is left, the physical tables are those
\* of the metadata, but for the tables a failed request has left half changed.
SettledAgrees ==
  Quiet => /\ \A t \in Tables : row[t] # None /\ row[t].name \notin torn =>
                row[t].name \in DOMAIN physical /\ physical[row[t].name] = row[t].parts \cap Columns
           /\ \A n \in DOMAIN physical : Named(n) # {}

\* A physical table, and the data in it, goes only when a request that was
\* accepted has deleted the table of that name or has given it another name.
DroppedOnlyWhenAsked ==
  [][\A n \in DOMAIN physical : n \in DOMAIN physical' \cup asked]_vars
=============================================================================
