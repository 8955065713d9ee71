-------------------------- MODULE TableRequestsProofs --------------------------
(***************************************************************************)
(* Theorems about TableRequests, for all tables, columns and relations,    *)
(* any bodies clients send, any number of requests and faults.             *)
(*                                                                         *)
(* SystemStays is not inductive: assertSystemSafe is asked when a request  *)
(* arrives, and its statements run later.  What a request has been granted *)
(* still holds then (Granted), because a system table stays one, no other  *)
(* table can take its name and none has its parts (Guarded, Separate).     *)
(*                                                                         *)
(* That the physical tables end as the metadata rests on what holds while  *)
(* requests are under way: between synchronisations a table differs from   *)
(* its row only if a request is half through changing it or has failed     *)
(* there (Excused, Agrees).  That a table is dropped only when it was      *)
(* asked for rests on its having a row until then (Backed).                *)
(***************************************************************************)
EXTENDS TableRequests, TLAPS, FiniteSetTheorems

Creating == {"exists", "insert"}
Updating == {"read", "columns", "relations", "save"}
Deleting == {"find", "drop", "remove"}
States   == Creating \cup Updating \cup Deleting \cup {"idle", "route", "return"}

RowTypes == row \in [Tables -> Row \cup {None}] /\ pinned \subseteq Relations

RequestTypes ==
  /\ pc \in [Requests -> States]
  /\ table \in [Requests -> Tables \cup {None}] /\ saves \in [Requests -> Tables \cup {None}]
  /\ body \in [Requests -> Row \cup {None}]
  /\ removed \in [Requests -> SUBSET Parts] /\ cut \in [Requests -> SUBSET Names]
  /\ \A r \in Requests :
       /\ pc[r] \in Updating \cup Deleting => table[r] \in Tables
       /\ pc[r] \in Creating => table[r] = None
       /\ pc[r] \in Creating \cup Updating \cup {"route"} => saves[r] \in Tables /\ body[r] \in Row
       /\ pc[r] \in {"drop", "remove"} => body[r] \in Row
       /\ pc[r] = "idle" => table[r] = None /\ cut[r] = {}

PastTypes == torn \subseteq Names /\ asked \subseteq Names /\ unguarded \subseteq Tables

Unique ==
  \A t, u \in Tables : row[t] # None /\ row[u] # None /\ row[t].name = row[u].name => t = u

Separate ==
  \A t \in Tables : /\ PartsOf(t) \cap pinned = {}
                    /\ \A u \in Tables \ {t} : PartsOf(t) \cap PartsOf(u) = {}

References ==
  \A q \in Relations : (q \in pinned \/ \E t \in Tables : q \in PartsOf(t)) => row[Target[q]] # None

Database == RowTypes /\ Unique /\ Separate /\ References

Routes == \A n \in DOMAIN route : route[n] # None => route[n] \in Tables /\ row[route[n]] # None

Counts ==
  /\ DOMAIN physical \subseteq Names /\ \A n \in DOMAIN physical : physical[n] \subseteq Columns
  /\ source \in Nat /\ oldest \in 0..source

\* What a system table keeps, and what requests hold that have been let pass.
Guarded(t) ==
  /\ row[t] # None /\ row[t].name = t /\ row[t].isSystem /\ SystemParts[t] \subseteq row[t].parts
  /\ t \in DOMAIN physical /\ SystemParts[t] \cap Columns \subseteq physical[t]

Granted(r, t) ==
  /\ pc[r] \in Deleting => table[r] # t
  /\ pc[r] \in {"drop", "remove"} => body[r].name # t
  /\ pc[r] \in Updating /\ table[r] = t =>
       saves[r] = t /\ body[r].name = t /\ body[r].isSystem /\ SystemParts[t] \subseteq body[r].parts
  /\ pc[r] \in {"columns", "relations", "save"} => removed[r] \cap SystemParts[t] = {}

Systems == \A t \in SystemTables \ unguarded : Guarded(t) /\ \A r \in Requests : Granted(r, t)

\* A name a request has half changed, or is half through changing.
Excused(n) == n \in torn \/ \E r \in Requests : n \in cut[r]

\* What a synchronisation has made equal stays so, but for the excused.
Agrees ==
  ~pending =>
    /\ \A t \in Tables : row[t] # None /\ ~Excused(row[t].name) =>
         row[t].name \in DOMAIN physical /\ physical[row[t].name] = row[t].parts \cap Columns
    /\ \A n \in DOMAIN physical : Named(n) # {}

\* A physical table has a row, or a request has asked for its end.
Backed ==
  /\ \A n \in DOMAIN physical : Named(n) # {} \/ n \in asked
  /\ \A r \in Requests : pc[r] \in {"drop", "remove"} => body[r].name \in asked

TableInv ==
  RequestTypes /\ PastTypes /\ Database /\ Routes /\ Counts /\ Systems /\ Agrees /\ Backed

-----------------------------------------------------------------------------
(* Which step is which. *)

LEMMA HandleSteps ==
  ASSUME NEW r \in Requests, Handle(r)
  PROVE  \/ Reject(r) \/ Exists(r) \/ InsertTable(r) \/ InsertRoute(r) \/ ReadTable(r)
         \/ DeleteColumns(r) \/ DeleteRelations(r) \/ SaveTable(r) \/ FindTable(r)
         \/ DropTable(r) \/ RemoveTable(r)
BY DEF Handle, ExistsError, InsertTableError, InsertRouteError, Return, ReturnError,
   ReadTableError, DeleteColumnsError, DeleteRelationsError, SaveTableError, FindTableError,
   DropTableError, RemoveTableError

LEMMA Steps ==
  ASSUME [Next]_vars
  PROVE  \/ UNCHANGED vars \/ Sync \/ DestroySource
         \/ \E r \in Requests :
              \/ Create(r) \/ Update(r) \/ Delete(r)
              \/ Reject(r) \/ Exists(r) \/ InsertTable(r) \/ InsertRoute(r) \/ ReadTable(r)
              \/ DeleteColumns(r) \/ DeleteRelations(r) \/ SaveTable(r) \/ FindTable(r)
              \/ DropTable(r) \/ RemoveTable(r)
BY HandleSteps DEF Next

\* The steps that write rows: two that save, two that delete parts, one that removes.
LEMMA RowSteps ==
  ASSUME [Next]_vars
  PROVE  \/ UNCHANGED <<row, pinned>>
         \/ \E r \in Requests : \/ InsertTable(r) \/ SaveTable(r)
                                \/ DeleteColumns(r) \/ DeleteRelations(r) \/ RemoveTable(r)
BY Steps DEF Create, Update, Delete, Receive, Reject, Exists, InsertRoute, ReadTable, FindTable,
   DropTable, Sync, DestroySource, vars, dbVars

LEMMA PhysicalSteps ==
  ASSUME [Next]_vars
  PROVE  UNCHANGED physical \/ Sync \/ \E r \in Requests : DropTable(r)
BY Steps DEF Create, Update, Delete, Receive, Reject, Exists, InsertTable, InsertRoute, ReadTable,
   DeleteColumns, DeleteRelations, SaveTable, FindTable, RemoveTable, DestroySource, vars

-----------------------------------------------------------------------------
(* What the steps that write rows do to each row. *)

LEMMA PartsType ==
  ASSUME RowTypes, NEW t \in Tables
  PROVE  /\ PartsOf(t) \subseteq Parts
         /\ row[t] # None => row[t] \in Row /\ row[t].name \in Names /\ PartsOf(t) = row[t].parts
BY DEF RowTypes, PartsOf, Row

\* save: one row written whole, the other rows lose its parts.
SavedAs(r, s, b) ==
  /\ s = saves[r] /\ b = body[r]
  /\ s \in Tables /\ b \in Row /\ b.parts \subseteq Parts /\ Valid(r)
  /\ row' \in [Tables -> Row \cup {None}]
  /\ row'[s] = b /\ row'[s] # None /\ PartsOf(s)' = b.parts
  /\ \A u \in Tables \ {s} :
       /\ row'[u] # None <=> row[u] # None
       /\ row[u] # None => row'[u].name = row[u].name /\ row'[u].isSystem = row[u].isSystem
       /\ PartsOf(u)' = PartsOf(u) \ b.parts
  /\ pinned' = (pinned \cup (PartsOf(s) \cap Relations)) \ b.parts
  /\ asked' = IF row[s] = None \/ row[s].name = b.name THEN asked ELSE asked \cup {row[s].name}
  /\ unguarded' = unguarded \cup ({s} \ {table[r]}) \cup (Owners(b.parts) \ {s})
  /\ pending' = TRUE /\ UNCHANGED <<route, physical>>

LEMMA SavedRows ==
  ASSUME TableInv, NEW r \in Requests, InsertTable(r) \/ SaveTable(r)
  PROVE  \E s \in Tables, b \in Row : SavedAs(r, s, b)
<1> SUFFICES ASSUME NEW s, s = saves[r], NEW b, b = body[r]
             PROVE  s \in Tables /\ b \in Row /\ SavedAs(r, s, b)
  OBVIOUS
<1>1. Save(r) /\ pc[r] \in Creating \cup Updating /\ pending' = TRUE /\ UNCHANGED <<route, physical>>
  BY DEF InsertTable, SaveTable, Goto, Creating, Updating
<1>2. s \in Tables /\ b \in Row /\ b.parts \subseteq Parts /\ b # None
  BY <1>1, TablesAssumption DEF TableInv, RequestTypes, Row
<1>3. row' = [u \in Tables |->
               IF u = s THEN b
               ELSE IF row[u] = None THEN None ELSE [row[u] EXCEPT !.parts = @ \ b.parts]]
  BY <1>1 DEF Save
<1>4. \A u \in Tables \ {s} : row[u] = None => row'[u] = None
  BY <1>3
<1>5. ASSUME NEW u \in Tables \ {s}, row[u] # None
      PROVE  /\ row'[u] \in Row /\ row'[u] # None
             /\ row'[u].name = row[u].name /\ row'[u].isSystem = row[u].isSystem
             /\ row'[u].parts = row[u].parts \ b.parts
  <2>1. row[u] \in Row
    BY <1>5 DEF TableInv, Database, RowTypes
  <2>2. row'[u] = [row[u] EXCEPT !.parts = @ \ b.parts]
    BY <1>3, <1>5
  <2> QED
    BY <2>1, <2>2, TablesAssumption DEF Row
<1>6. row'[s] = b
  BY <1>2, <1>3
<1>7. row' \in [Tables -> Row \cup {None}]
  <2> DEFINE g(u) == IF u = s THEN b ELSE IF row[u] = None THEN None
                     ELSE [row[u] EXCEPT !.parts = @ \ b.parts]
  <2>1. row' = [u \in Tables |-> g(u)]
    BY <1>3
  <2>2. \A u \in Tables : g(u) = row'[u]
    BY <2>1
  <2>3. \A u \in Tables : g(u) \in Row \cup {None}
    BY <1>2, <1>4, <1>5, <1>6, <2>2
  <2> HIDE DEF g
  <2> QED
    BY <2>1, <2>3
<1>8. PartsOf(s)' = b.parts
  BY <1>2, <1>6 DEF PartsOf
<1>9. \A u \in Tables \ {s} : PartsOf(u)' = PartsOf(u) \ b.parts
  BY <1>4, <1>5 DEF PartsOf
<1> QED
  BY <1>1, <1>2, <1>4, <1>5, <1>6, <1>7, <1>8, <1>9 DEF Save, SavedAs

\* The deletion of parts by their ids.
LEMMA CutRows ==
  ASSUME RowTypes, NEW ps, row' = Without(ps)
  PROVE  /\ row' \in [Tables -> Row \cup {None}]
         /\ \A u \in Tables :
              /\ row'[u] # None <=> row[u] # None
              /\ row[u] # None => row'[u].name = row[u].name /\ row'[u].isSystem = row[u].isSystem
              /\ PartsOf(u)' = PartsOf(u) \ ps
<1>1. row' = [t \in Tables |-> IF row[t] = None THEN None ELSE [row[t] EXCEPT !.parts = @ \ ps]]
  BY DEF Without
<1>2. ASSUME NEW u \in Tables, row[u] # None
      PROVE  /\ row'[u] \in Row /\ row'[u] # None
             /\ row'[u].name = row[u].name /\ row'[u].isSystem = row[u].isSystem
             /\ row'[u].parts = row[u].parts \ ps
  <2>1. row[u] \in Row
    BY <1>2 DEF RowTypes
  <2>2. row'[u] = [row[u] EXCEPT !.parts = @ \ ps]
    BY <1>1, <1>2
  <2> QED
    BY <2>1, <2>2, TablesAssumption DEF Row
<1>3. \A u \in Tables : row[u] = None => row'[u] = None
  BY <1>1
<1>4. row' \in [Tables -> Row \cup {None}]
  <2> DEFINE g(u) == IF row[u] = None THEN None ELSE [row[u] EXCEPT !.parts = @ \ ps]
  <2>1. row' = [u \in Tables |-> g(u)]
    BY <1>1
  <2>2. \A u \in Tables : g(u) = row'[u]
    BY <2>1
  <2>3. \A u \in Tables : g(u) \in Row \cup {None}
    BY <1>2, <1>3, <2>2
  <2> HIDE DEF g
  <2> QED
    BY <2>1, <2>3
<1> QED
  BY <1>2, <1>3, <1>4 DEF PartsOf

RemovedAs(r, t) ==
  /\ t = table[r] /\ t \in Tables /\ ~Restricted(t) /\ pc[r] = "remove"
  /\ row' \in [Tables -> Row \cup {None}]
  /\ row'[t] = None /\ PartsOf(t)' = {}
  /\ \A u \in Tables \ {t} : row'[u] = row[u] /\ PartsOf(u)' = PartsOf(u)
  /\ pinned' = pinned \cup (PartsOf(t) \cap Relations)
  /\ route' = [n \in DOMAIN route |-> IF route[n] = t THEN None ELSE route[n]]
  /\ asked' = IF row[t] = None THEN asked ELSE asked \cup {row[t].name}
  /\ pending' = TRUE /\ UNCHANGED <<physical, unguarded>>

LEMMA RemovedRows ==
  ASSUME TableInv, NEW r \in Requests, RemoveTable(r)
  PROVE  \E t \in Tables : RemovedAs(r, t)
<1> SUFFICES ASSUME NEW t, t = table[r]
             PROVE  t \in Tables /\ RemovedAs(r, t)
  OBVIOUS
<1>1. /\ t \in Tables /\ ~Restricted(t) /\ pc[r] = "remove"
      /\ row' = [row EXCEPT ![t] = None]
      /\ pinned' = pinned \cup (PartsOf(t) \cap Relations)
  BY DEF TableInv, RequestTypes, Deleting, RemoveTable
<1>2. row \in [Tables -> Row \cup {None}]
  BY DEF TableInv, Database, RowTypes
<1>3. row'[t] = None /\ \A u \in Tables \ {t} : row'[u] = row[u]
  BY <1>1, <1>2
<1>4. row' \in [Tables -> Row \cup {None}]
  BY <1>1, <1>2
<1> QED
  BY <1>1, <1>3, <1>4 DEF PartsOf, RemovedAs, RemoveTable

-----------------------------------------------------------------------------
(* Rows: unique names, parts of one table each, relations that lead somewhere. *)

LEMMA SaveDatabase ==
  ASSUME TableInv, NEW r \in Requests, InsertTable(r) \/ SaveTable(r)
  PROVE  Database'
<1>1. PICK s \in Tables, b \in Row : SavedAs(r, s, b)
  BY SavedRows
<1>2. /\ row' \in [Tables -> Row \cup {None}]
      /\ row'[s] = b /\ row'[s] # None /\ PartsOf(s)' = b.parts /\ b.parts \subseteq Parts
      /\ \A u \in Tables \ {s} :
           /\ row'[u] # None <=> row[u] # None
           /\ row[u] # None => row'[u].name = row[u].name
           /\ PartsOf(u)' = PartsOf(u) \ b.parts
      /\ pinned' = (pinned \cup (PartsOf(s) \cap Relations)) \ b.parts
  BY <1>1 DEF SavedAs
<1>3. /\ \A t \in Tables : row[t] # None /\ row[t].name = b.name => t = s
      /\ \A q \in b.parts \cap Relations : row[Target[q]] # None \/ Target[q] = s
  BY <1>1 DEF SavedAs, Valid, Named
<1>4. RowTypes'
  BY <1>2 DEF RowTypes, TableInv, Database
<1>5. Unique'
  BY <1>2, <1>3 DEF Unique, TableInv, Database
<1>6. Separate'
  <2>1. ASSUME NEW t \in Tables
        PROVE  PartsOf(t)' \cap pinned' = {}
    BY <1>2 DEF Separate, TableInv, Database
  <2>2. ASSUME NEW t \in Tables, NEW u \in Tables \ {t}
        PROVE  PartsOf(t)' \cap PartsOf(u)' = {}
    BY <1>2 DEF Separate, TableInv, Database
  <2> QED
    BY <2>1, <2>2 DEF Separate
<1>7. References'
  <2> SUFFICES ASSUME NEW q \in Relations, q \in pinned' \/ \E t \in Tables : q \in PartsOf(t)'
               PROVE  row'[Target[q]] # None
    BY DEF References
  <2>1. Target[q] \in Tables
    BY PartsAssumption
  <2>2. q \in b.parts \/ q \in pinned \/ \E t \in Tables : q \in PartsOf(t)
    BY <1>2
  <2>3. row[Target[q]] # None \/ Target[q] = s
    BY <1>3, <2>2 DEF References, TableInv, Database
  <2> QED
    BY <1>2, <2>1, <2>3
<1> QED
  BY <1>4, <1>5, <1>6, <1>7 DEF Database

LEMMA CutDatabase ==
  ASSUME TableInv, NEW ps, row' = Without(ps), pinned' \subseteq pinned
  PROVE  Database'
<1>1. /\ row' \in [Tables -> Row \cup {None}]
      /\ \A u \in Tables :
           /\ row'[u] # None <=> row[u] # None
           /\ row[u] # None => row'[u].name = row[u].name
           /\ PartsOf(u)' = PartsOf(u) \ ps
  BY CutRows DEF TableInv, Database
<1>2. RowTypes' /\ Unique'
  BY <1>1 DEF RowTypes, Unique, TableInv, Database
<1>3. Separate'
  BY <1>1 DEF Separate, TableInv, Database
<1>4. References'
  <2> SUFFICES ASSUME NEW q \in Relations, q \in pinned' \/ \E t \in Tables : q \in PartsOf(t)'
               PROVE  row'[Target[q]] # None
    BY DEF References
  <2>1. q \in pinned \/ \E t \in Tables : q \in PartsOf(t)
    BY <1>1
  <2>2. row[Target[q]] # None /\ Target[q] \in Tables
    BY <2>1, PartsAssumption DEF References, TableInv, Database
  <2> QED
    BY <1>1, <2>2
<1> QED
  BY <1>2, <1>3, <1>4 DEF Database

LEMMA RemoveDatabase ==
  ASSUME TableInv, NEW r \in Requests, RemoveTable(r)
  PROVE  Database'
<1>1. PICK t \in Tables : RemovedAs(r, t)
  BY RemovedRows
<1>2. /\ ~Restricted(t)
      /\ row' \in [Tables -> Row \cup {None}]
      /\ row'[t] = None /\ PartsOf(t)' = {}
      /\ \A u \in Tables \ {t} : row'[u] = row[u] /\ PartsOf(u)' = PartsOf(u)
      /\ pinned' = pinned \cup (PartsOf(t) \cap Relations)
  BY <1>1 DEF RemovedAs
<1>3. RowTypes' /\ Unique'
  BY <1>2 DEF RowTypes, Unique, TableInv, Database
<1>4. Separate'
  BY <1>2 DEF Separate, TableInv, Database
<1>5. References'
  <2> SUFFICES ASSUME NEW q \in Relations, q \in pinned' \/ \E u \in Tables : q \in PartsOf(u)'
               PROVE  row'[Target[q]] # None
    BY DEF References
  <2>1. q \in pinned \/ \E u \in Tables : q \in PartsOf(u)
    BY <1>2
  <2>2. row[Target[q]] # None /\ Target[q] \in Tables
    BY <2>1, PartsAssumption DEF References, TableInv, Database
  <2>3. Target[q] # t
    BY <1>2, <2>1 DEF Restricted, Owners
  <2> QED
    BY <1>2, <2>2, <2>3
<1> QED
  BY <1>3, <1>4, <1>5 DEF Database

LEMMA DatabaseNext ==
  ASSUME TableInv, [Next]_vars
  PROVE  Database'
<1>1. CASE UNCHANGED <<row, pinned>>
  BY <1>1 DEF TableInv, Database, RowTypes, Unique, Separate, References, PartsOf
<1>2. ASSUME NEW r \in Requests, InsertTable(r) \/ SaveTable(r)
      PROVE  Database'
  BY <1>2, SaveDatabase
<1>3. ASSUME NEW r \in Requests, DeleteColumns(r) \/ DeleteRelations(r)
      PROVE  Database'
  <2>1. PICK ps : row' = Without(ps) /\ pinned' \subseteq pinned
    BY <1>3 DEF DeleteColumns, DeleteRelations
  <2> QED
    BY <2>1, CutDatabase
<1>4. ASSUME NEW r \in Requests, RemoveTable(r)
      PROVE  Database'
  BY <1>4, RemoveDatabase
<1> QED
  BY <1>1, <1>2, <1>3, <1>4, RowSteps

\* A row goes only when its table is removed.
LEMMA RowsKept ==
  ASSUME TableInv, [Next]_vars, NEW t \in Tables, row[t] # None
  PROVE  row'[t] # None \/ \E r \in Requests : RemoveTable(r) /\ table[r] = t
<1>1. CASE UNCHANGED row
  BY <1>1
<1>2. ASSUME NEW r \in Requests, InsertTable(r) \/ SaveTable(r)
      PROVE  row'[t] # None
  <2>1. PICK s \in Tables, b \in Row : SavedAs(r, s, b)
    BY <1>2, SavedRows
  <2> QED
    BY <2>1 DEF SavedAs
<1>3. ASSUME NEW r \in Requests, DeleteColumns(r) \/ DeleteRelations(r)
      PROVE  row'[t] # None
  <2>1. PICK ps : row' = Without(ps)
    BY <1>3 DEF DeleteColumns, DeleteRelations
  <2> QED
    BY <2>1, CutRows DEF TableInv, Database
<1>4. ASSUME NEW r \in Requests, RemoveTable(r), table[r] # t
      PROVE  row'[t] # None
  <2>1. PICK u \in Tables : RemovedAs(r, u)
    BY <1>4, RemovedRows
  <2> QED
    BY <1>4, <2>1 DEF RemovedAs
<1> QED
  BY <1>1, <1>2, <1>3, <1>4, RowSteps

LEMMA RoutesNext ==
  ASSUME TableInv, [Next]_vars
  PROVE  Routes'
<1>1. ASSUME NEW r \in Requests, InsertRoute(r)
      PROVE  Routes'
  <2>1. saves[r] \in Tables /\ row[saves[r]] # None /\ row' = row
    BY <1>1 DEF InsertRoute, Goto, TableInv, RequestTypes
  <2> QED
    BY <1>1, <2>1 DEF InsertRoute, TableInv, Routes
<1>2. ASSUME NEW r \in Requests, RemoveTable(r)
      PROVE  Routes'
  <2>1. PICK t \in Tables : RemovedAs(r, t)
    BY <1>2, RemovedRows
  <2> QED
    BY <2>1 DEF RemovedAs, TableInv, Routes
<1>3. CASE UNCHANGED route /\ ~\E r \in Requests : RemoveTable(r)
  BY <1>3, RowsKept DEF TableInv, Routes
<1>4. UNCHANGED route \/ \E r \in Requests : InsertRoute(r) \/ RemoveTable(r)
  BY Steps DEF Create, Update, Delete, Receive, Reject, Exists, InsertTable, ReadTable, FindTable,
     DeleteColumns, DeleteRelations, SaveTable, DropTable, Sync, DestroySource, vars, dbVars
<1> QED
  BY <1>1, <1>2, <1>3, <1>4

-----------------------------------------------------------------------------
(* What requests hold, and the past. *)

LEMMA RequestsNext ==
  ASSUME TableInv, [Next]_vars
  PROVE  RequestTypes'
<1> USE TablesAssumption, BodiesAssumption
    DEF TableInv, RequestTypes, Row, Creating, Updating, Deleting, States, Goto, Answer
<1>1. ASSUME NEW r \in Requests, Create(r)
      PROVE  RequestTypes'
  BY <1>1 DEF Create, Receive
<1>2. ASSUME NEW r \in Requests, Update(r)
      PROVE  RequestTypes'
  BY <1>2 DEF Update, Receive
<1>3. ASSUME NEW r \in Requests, Delete(r)
      PROVE  RequestTypes'
  BY <1>3 DEF Delete, Receive
<1>4. ASSUME NEW r \in Requests, Reject(r)
      PROVE  RequestTypes'
  BY <1>4 DEF Reject
<1>5. ASSUME NEW r \in Requests, Exists(r)
      PROVE  RequestTypes'
  BY <1>5 DEF Exists
<1>6. ASSUME NEW r \in Requests, InsertTable(r)
      PROVE  RequestTypes'
  BY <1>6 DEF InsertTable, Save
<1>7. ASSUME NEW r \in Requests, InsertRoute(r)
      PROVE  RequestTypes'
  BY <1>7 DEF InsertRoute, reqVars
<1>8. ASSUME NEW r \in Requests, ReadTable(r)
      PROVE  RequestTypes'
  <2>1. row[table[r]] \in Row /\ row[table[r]].parts \ body[r].parts \subseteq Parts
    BY <1>8 DEF ReadTable, Database, RowTypes
  <2> QED
    BY <1>8, <2>1 DEF ReadTable
<1>9. ASSUME NEW r \in Requests, DeleteColumns(r)
      PROVE  RequestTypes'
  <2>1. {row[t].name : t \in Owners(removed[r] \cap Columns)} \subseteq Names
    BY PartsType DEF Owners, PartsOf, Database
  <2> QED
    BY <1>9, <2>1 DEF DeleteColumns
<1>10. ASSUME NEW r \in Requests, DeleteRelations(r)
      PROVE  RequestTypes'
  BY <1>10 DEF DeleteRelations, reqVars
<1>11. ASSUME NEW r \in Requests, SaveTable(r)
      PROVE  RequestTypes'
  BY <1>11 DEF SaveTable, Save
<1>12. ASSUME NEW r \in Requests, FindTable(r)
      PROVE  RequestTypes'
  <2>1. row[table[r]] \in Row
    BY <1>12 DEF FindTable, Database, RowTypes
  <2> QED
    BY <1>12, <2>1 DEF FindTable
<1>13. ASSUME NEW r \in Requests, DropTable(r)
      PROVE  RequestTypes'
  BY <1>13 DEF DropTable
<1>14. ASSUME NEW r \in Requests, RemoveTable(r)
      PROVE  RequestTypes'
  BY <1>14 DEF RemoveTable
<1>15. CASE Sync
  BY <1>15 DEF Sync
<1>16. CASE DestroySource
  BY <1>16 DEF DestroySource, reqVars
<1>17. CASE UNCHANGED vars
  BY <1>17 DEF vars, reqVars
<1> QED
  BY <1>1, <1>2, <1>3, <1>4, <1>5, <1>6, <1>7, <1>8, <1>9, <1>10, <1>11, <1>12, <1>13, <1>14,
     <1>15, <1>16, <1>17, Steps

\* Which steps write the history.
LEMMA PastSteps ==
  ASSUME [Next]_vars
  PROVE  /\ UNCHANGED asked \/ \E r \in Requests : \/ InsertTable(r) \/ SaveTable(r)
                                                   \/ FindTable(r) \/ RemoveTable(r)
         /\ UNCHANGED unguarded \/ \E r \in Requests : \/ InsertTable(r) \/ SaveTable(r)
                                                       \/ Update(r) \/ Delete(r)
         /\ UNCHANGED torn \/ Sync \/ \E r \in Requests : Reject(r)
<1>1. ASSUME NEW r \in Requests, \/ Exists(r) \/ InsertRoute(r) \/ ReadTable(r)
                                 \/ DeleteColumns(r) \/ DeleteRelations(r) \/ DropTable(r)
      PROVE  UNCHANGED past
  BY <1>1 DEF Exists, InsertRoute, ReadTable, DeleteColumns, DeleteRelations, DropTable
<1>2. ASSUME NEW r \in Requests, Create(r) \/ Update(r) \/ Delete(r)
      PROVE  UNCHANGED <<asked, torn>> /\ (Create(r) => UNCHANGED unguarded)
  BY <1>2 DEF Create, Update, Delete, Receive
<1>3. ASSUME NEW r \in Requests, Reject(r) \/ FindTable(r) \/ RemoveTable(r)
      PROVE  UNCHANGED unguarded /\ (UNCHANGED torn \/ Reject(r)) /\ (Reject(r) => UNCHANGED asked)
  BY <1>3 DEF Reject, FindTable, RemoveTable
<1>4. ASSUME NEW r \in Requests, InsertTable(r) \/ SaveTable(r)
      PROVE  UNCHANGED torn
  BY <1>4 DEF InsertTable, SaveTable
<1>5. CASE Sync \/ DestroySource \/ UNCHANGED vars
  BY <1>5 DEF Sync, DestroySource, vars, past
<1> QED
  BY <1>1, <1>2, <1>3, <1>4, <1>5, Steps DEF past

\* What has been asked for, and what has gone unguarded, is not forgotten.
LEMMA PastGrows ==
  ASSUME TableInv, [Next]_vars
  PROVE  asked \subseteq asked' /\ unguarded \subseteq unguarded'
<1>1. ASSUME NEW r \in Requests, InsertTable(r) \/ SaveTable(r)
      PROVE  asked \subseteq asked' /\ unguarded \subseteq unguarded'
  <2>1. PICK s \in Tables, b \in Row : SavedAs(r, s, b)
    BY <1>1, SavedRows
  <2> QED
    BY <2>1 DEF SavedAs
<1>2. ASSUME NEW r \in Requests, FindTable(r) \/ RemoveTable(r)
      PROVE  asked \subseteq asked'
  BY <1>2 DEF FindTable, RemoveTable
<1>3. ASSUME NEW r \in Requests, Update(r) \/ Delete(r)
      PROVE  unguarded \subseteq unguarded'
  BY <1>3 DEF Update, Delete
<1> QED
  BY <1>1, <1>2, <1>3, PastSteps

LEMMA PastNext ==
  ASSUME TableInv, [Next]_vars
  PROVE  PastTypes'
<1>1. \A t \in Tables : row[t] # None => row[t].name \in Names
  BY PartsType DEF TableInv, Database
<1>2. ASSUME NEW r \in Requests, InsertTable(r) \/ SaveTable(r)
      PROVE  asked' \subseteq Names /\ unguarded' \subseteq Tables
  <2>1. PICK s \in Tables, b \in Row : SavedAs(r, s, b)
    BY <1>2, SavedRows
  <2> QED
    BY <1>1, <2>1 DEF SavedAs, Owners, TableInv, PastTypes
<1>3. ASSUME NEW r \in Requests, FindTable(r) \/ RemoveTable(r)
      PROVE  asked' \subseteq Names
  BY <1>1, <1>3 DEF FindTable, Goto, RemoveTable, TableInv, RequestTypes, Deleting, PastTypes
<1>4. ASSUME NEW r \in Requests, Update(r) \/ Delete(r)
      PROVE  unguarded' \subseteq Tables
  BY <1>4 DEF Update, Delete, TableInv, PastTypes
<1>5. torn' \subseteq Names
  BY PastSteps DEF Sync, Reject, TableInv, PastTypes, RequestTypes
<1> QED
  BY <1>2, <1>3, <1>4, <1>5, PastSteps DEF TableInv, PastTypes

LEMMA CountsNext ==
  ASSUME TableInv, [Next]_vars
  PROVE  Counts'
<1>1. DOMAIN physical' \subseteq Names /\ \A n \in DOMAIN physical' : physical'[n] \subseteq Columns
  <2>1. CASE Sync
    <3>1. \A t \in Tables : row[t] # None => row[t].name \in Names
      BY PartsType DEF TableInv, Database
    <3> QED
      BY <2>1, <3>1 DEF Sync
  <2>2. ASSUME NEW r \in Requests, DropTable(r)
        PROVE  DOMAIN physical' \subseteq Names
               /\ \A n \in DOMAIN physical' : physical'[n] \subseteq Columns
    BY <2>2 DEF DropTable, TableInv, Counts
  <2> QED
    BY <2>1, <2>2, PhysicalSteps DEF TableInv, Counts
<1>2. source' \in Nat /\ oldest' \in 0..source'
  <2>1. CASE Sync
    BY <2>1 DEF Sync, TableInv, Counts
  <2>2. CASE DestroySource
    BY <2>2 DEF DestroySource, TableInv, Counts
  <2>3. Sync \/ DestroySource \/ UNCHANGED srcVars
    BY Steps DEF Create, Update, Delete, Receive, Reject, Exists, InsertTable, InsertRoute,
       ReadTable, DeleteColumns, DeleteRelations, SaveTable, FindTable, DropTable, RemoveTable, vars
  <2> QED
    BY <2>1, <2>2, <2>3 DEF TableInv, Counts, srcVars
<1> QED
  BY <1>1, <1>2 DEF Counts

-----------------------------------------------------------------------------
(* The system tables that every request is checked for in full. *)

LEMMA GuardedNow ==
  ASSUME TableInv, NEW t \in SystemTables \ unguarded
  PROVE  /\ t \in Tables /\ Guarded(t) /\ row[t] \in Row /\ PartsOf(t) = row[t].parts
         /\ SystemParts[t] \subseteq Parts /\ SystemParts[t] \subseteq Flagged
BY TablesAssumption, PartsAssumption
   DEF TableInv, Systems, Guarded, Database, RowTypes, PartsOf, Flagged

LEMMA SaveGuards ==
  ASSUME TableInv, NEW r \in Requests, InsertTable(r) \/ SaveTable(r),
         NEW t \in SystemTables \ unguarded'
  PROVE  Guarded(t)'
<1>1. PICK s \in Tables, b \in Row : SavedAs(r, s, b)
  BY SavedRows
<1>2. t \notin unguarded /\ physical' = physical
  BY <1>1 DEF SavedAs
<1>3. t \in Tables /\ Guarded(t) /\ row[t] \in Row /\ PartsOf(t) = row[t].parts
  BY <1>2, GuardedNow
<1>4. row'[t] \in Row \cup {None}
  BY <1>1, <1>3 DEF SavedAs
<1>5. CASE s = t
  <2>1. table[r] = t /\ b = body[r] /\ s = saves[r]
    BY <1>1, <1>5 DEF SavedAs
  <2>2. t # None /\ pc[r] \in Updating
    BY <1>3, <2>1, TablesAssumption
    DEF InsertTable, SaveTable, Goto, TableInv, RequestTypes, Creating, Updating
  <2>3. b.name = t /\ b.isSystem /\ SystemParts[t] \subseteq b.parts
    BY <1>2, <2>1, <2>2 DEF TableInv, Systems, Granted
  <2> QED
    BY <1>1, <1>2, <1>3, <1>5, <2>3 DEF SavedAs, Guarded
<1>6. CASE s # t
  <2>1. /\ Owners(b.parts) \ {s} \subseteq unguarded'
        /\ PartsOf(t)' = PartsOf(t) \ b.parts
    BY <1>1, <1>3, <1>6 DEF SavedAs
  <2>2. PartsOf(t)' = PartsOf(t)
    BY <1>3, <1>6, <2>1 DEF Owners
  <2>3. row'[t] # None /\ row'[t].name = t /\ row'[t].isSystem
    BY <1>1, <1>3, <1>6 DEF SavedAs, Guarded
  <2>4. row'[t].parts = row[t].parts
    BY <1>3, <2>2, <2>3 DEF PartsOf
  <2> QED
    BY <1>2, <1>3, <2>3, <2>4 DEF Guarded
<1> QED
  BY <1>5, <1>6

LEMMA GuardedNext ==
  ASSUME TableInv, [Next]_vars, NEW t \in SystemTables \ unguarded'
  PROVE  Guarded(t)'
<1>1. t \in SystemTables \ unguarded
  BY PastGrows
<1>2. /\ t \in Tables /\ Guarded(t) /\ row[t] \in Row /\ PartsOf(t) = row[t].parts
      /\ \A r \in Requests : Granted(r, t)
  BY <1>1, GuardedNow DEF TableInv, Systems
<1>3. ASSUME NEW r \in Requests, DeleteColumns(r) \/ DeleteRelations(r)
      PROVE  Guarded(t)'
  <2>1. PICK ps : row' = Without(ps) /\ ps \subseteq removed[r] /\ physical' = physical
    BY <1>3 DEF DeleteColumns, DeleteRelations
  <2>2. ps \cap SystemParts[t] = {}
    BY <1>2, <1>3, <2>1 DEF DeleteColumns, DeleteRelations, Goto, Granted
  <2>3. /\ row'[t] # None /\ row'[t].name = row[t].name /\ row'[t].isSystem = row[t].isSystem
        /\ PartsOf(t)' = PartsOf(t) \ ps
    BY <1>2, <2>1, CutRows DEF TableInv, Database, Guarded
  <2>4. row'[t].parts = row[t].parts \ ps
    BY <1>2, <2>3 DEF PartsOf
  <2> QED
    BY <1>2, <2>1, <2>2, <2>3, <2>4 DEF Guarded
<1>4. ASSUME NEW r \in Requests, RemoveTable(r)
      PROVE  Guarded(t)'
  <2>1. PICK u \in Tables : RemovedAs(r, u)
    BY <1>4, RemovedRows
  <2>2. u # t
    BY <1>2, <2>1 DEF RemovedAs, Granted, Deleting
  <2> QED
    BY <1>2, <2>1, <2>2 DEF RemovedAs, Guarded
<1>5. ASSUME NEW r \in Requests, DropTable(r)
      PROVE  Guarded(t)'
  <2>1. body[r].name # t
    BY <1>2, <1>5 DEF DropTable, Goto, Granted
  <2> QED
    BY <1>2, <1>5, <2>1 DEF DropTable, dbVars, Guarded
<1>6. CASE Sync
  <2>1. t \in {row[u].name : u \in {w \in Tables : row[w] # None}} /\ t \in Named(t)
    BY <1>2 DEF Guarded, Named
  <2>2. /\ t \in DOMAIN physical' /\ row' = row
        /\ physical'[t] = (UNION {row[u].parts : u \in Named(t)}) \cap Columns
    BY <1>6, <2>1 DEF Sync, dbVars
  <2>3. SystemParts[t] \cap Columns \subseteq physical'[t]
    BY <1>2, <2>1, <2>2 DEF Guarded
  <2> QED
    BY <1>2, <2>2, <2>3 DEF Guarded
<1>7. CASE UNCHANGED <<row, physical>>
  BY <1>2, <1>7 DEF Guarded
<1>8. ASSUME NEW r \in Requests, InsertTable(r) \/ SaveTable(r)
      PROVE  Guarded(t)'
  BY <1>8, SaveGuards
<1>9. \/ UNCHANGED <<row, physical>> \/ Sync
      \/ \E r \in Requests : \/ InsertTable(r) \/ SaveTable(r) \/ DeleteColumns(r)
                             \/ DeleteRelations(r) \/ RemoveTable(r) \/ DropTable(r)
  BY RowSteps, PhysicalSteps
<1> QED
  BY <1>3, <1>4, <1>5, <1>6, <1>7, <1>8, <1>9

LEMMA GrantedNext ==
  ASSUME TableInv, [Next]_vars, NEW t \in SystemTables \ unguarded', NEW q \in Requests
  PROVE  Granted(q, t)'
<1>1. t \in SystemTables \ unguarded
  BY PastGrows
<1>2. /\ t \in Tables /\ t # None /\ Guarded(t) /\ row[t] \in Row /\ PartsOf(t) = row[t].parts
      /\ SystemParts[t] \subseteq Flagged /\ Granted(q, t)
  BY <1>1, GuardedNow, TablesAssumption DEF TableInv, Systems
<1> USE DEF Creating, Updating, Deleting, Goto, Granted
<1>3. ASSUME NEW r \in Requests, Create(r)
      PROVE  Granted(q, t)'
  BY <1>2, <1>3 DEF Create, Receive, TableInv, RequestTypes
<1>4. ASSUME NEW r \in Requests, Update(r)
      PROVE  Granted(q, t)'
  <2>1. PICK u \in Tables, s \in Tables, b \in Bodies, seen \in BOOLEAN :
          /\ seen => SafeUpdate(u, s, b)
          /\ table' = [table EXCEPT ![r] = u] /\ saves' = [saves EXCEPT ![r] = s]
          /\ body' = [body EXCEPT ![r] = b]
          /\ unguarded' = IF seen THEN unguarded ELSE unguarded \cup {u}
    BY <1>4 DEF Update
  <2>2. u = t => s = t /\ b.name = t /\ b.isSystem /\ SystemParts[t] \subseteq b.parts
    BY <1>1, <1>2, <2>1 DEF SafeUpdate, Guarded
  <2> QED
    BY <1>2, <1>4, <2>1, <2>2 DEF Update, Receive, TableInv, RequestTypes
<1>5. ASSUME NEW r \in Requests, Delete(r)
      PROVE  Granted(q, t)'
  <2>1. PICK u \in Tables, seen \in BOOLEAN :
          /\ seen => SafeDelete(u)
          /\ table' = [table EXCEPT ![r] = u]
          /\ unguarded' = IF seen THEN unguarded ELSE unguarded \cup {u}
    BY <1>5 DEF Delete
  <2>2. u # t
    BY <1>1, <1>2, <2>1 DEF SafeDelete, Guarded
  <2> QED
    BY <1>2, <1>5, <2>1, <2>2 DEF Delete, Receive, TableInv, RequestTypes
<1>6. ASSUME NEW r \in Requests, Reject(r)
      PROVE  Granted(q, t)'
  BY <1>2, <1>6 DEF Reject, Answer, TableInv, RequestTypes
<1>7. ASSUME NEW r \in Requests, Exists(r) \/ InsertTable(r) \/ InsertRoute(r)
      PROVE  Granted(q, t)'
  BY <1>2, <1>7 DEF Exists, InsertTable, Save, InsertRoute, reqVars, TableInv, RequestTypes
<1>8. ASSUME NEW r \in Requests, ReadTable(r)
      PROVE  Granted(q, t)'
  <2>1. table[r] \in Tables /\ row[table[r]] # None
        /\ removed' = [removed EXCEPT ![r] = row[table[r]].parts \ body[r].parts]
    BY <1>8 DEF ReadTable, TableInv, RequestTypes
  <2>2. table[r] # t => row[table[r]].parts \cap SystemParts[t] = {}
    BY <1>2, <2>1 DEF TableInv, Database, Separate, PartsOf, Guarded
  <2> QED
    BY <1>2, <1>8, <2>1, <2>2 DEF ReadTable, TableInv, RequestTypes
<1>9. ASSUME NEW r \in Requests, DeleteColumns(r) \/ DeleteRelations(r) \/ SaveTable(r)
      PROVE  Granted(q, t)'
  BY <1>2, <1>9 DEF DeleteColumns, DeleteRelations, SaveTable, Save, reqVars, TableInv, RequestTypes
<1>10. ASSUME NEW r \in Requests, FindTable(r)
      PROVE  Granted(q, t)'
  <2>1. /\ table[r] \in Tables /\ row[table[r]] # None
        /\ body' = [body EXCEPT ![r] = row[table[r]]]
    BY <1>10 DEF FindTable, TableInv, RequestTypes
  <2>2. table[r] # t => row[table[r]].name # t
    BY <1>2, <2>1 DEF TableInv, Database, Unique, Guarded
  <2> QED
    BY <1>2, <1>10, <2>1, <2>2 DEF FindTable, TableInv, RequestTypes
<1>11. ASSUME NEW r \in Requests, DropTable(r) \/ RemoveTable(r)
      PROVE  Granted(q, t)'
  BY <1>2, <1>11 DEF DropTable, RemoveTable, Answer, TableInv, RequestTypes
<1>12. CASE Sync \/ DestroySource \/ UNCHANGED vars
  BY <1>2, <1>12 DEF Sync, DestroySource, vars, reqVars
<1> QED
  BY <1>3, <1>4, <1>5, <1>6, <1>7, <1>8, <1>9, <1>10, <1>11, <1>12, Steps

LEMMA SystemsNext ==
  ASSUME TableInv, [Next]_vars
  PROVE  Systems'
BY GuardedNext, GrantedNext DEF Systems

-----------------------------------------------------------------------------
(* Nothing is dropped that nobody asked for. *)

LEMMA NamedKept ==
  ASSUME TableInv, [Next]_vars, NEW n, Named(n) # {}, n \notin asked'
  PROVE  Named(n)' # {}
<1>1. PICK t \in Tables : row[t] # None /\ row[t].name = n
  BY DEF Named
<1> SUFFICES row'[t] # None /\ row'[t].name = n
  BY DEF Named
<1>2. ASSUME NEW r \in Requests, InsertTable(r) \/ SaveTable(r)
      PROVE  row'[t] # None /\ row'[t].name = n
  <2>1. PICK s \in Tables, b \in Row : SavedAs(r, s, b)
    BY <1>2, SavedRows
  <2>2. CASE s = t
    BY <1>1, <2>1, <2>2 DEF SavedAs
  <2>3. CASE s # t
    BY <1>1, <2>1, <2>3 DEF SavedAs
  <2> QED
    BY <2>2, <2>3
<1>3. ASSUME NEW r \in Requests, DeleteColumns(r) \/ DeleteRelations(r)
      PROVE  row'[t] # None /\ row'[t].name = n
  <2>1. PICK ps : row' = Without(ps)
    BY <1>3 DEF DeleteColumns, DeleteRelations
  <2> QED
    BY <1>1, <2>1, CutRows DEF TableInv, Database
<1>4. ASSUME NEW r \in Requests, RemoveTable(r)
      PROVE  row'[t] # None /\ row'[t].name = n
  <2>1. PICK u \in Tables : RemovedAs(r, u)
    BY <1>4, RemovedRows
  <2>2. u # t
    BY <1>1, <2>1 DEF RemovedAs
  <2> QED
    BY <1>1, <2>1, <2>2 DEF RemovedAs
<1> QED
  BY <1>1, <1>2, <1>3, <1>4, RowSteps

LEMMA SyncedNames ==
  ASSUME Sync, NEW n
  PROVE  n \in DOMAIN physical' <=> Named(n) # {}
BY DEF Sync, Named

LEMMA BackedNext ==
  ASSUME TableInv, [Next]_vars
  PROVE  Backed'
<1>1. ASSUME NEW n \in DOMAIN physical'
      PROVE  Named(n)' # {} \/ n \in asked'
  <2>1. CASE Sync
    BY <1>1, <2>1, SyncedNames, NamedKept
  <2>2. CASE ~Sync
    <3>1. n \in DOMAIN physical
      BY <1>1, <2>2, PhysicalSteps DEF DropTable
    <3>2. Named(n) # {} \/ n \in asked
      BY <3>1 DEF TableInv, Backed
    <3> QED
      BY <3>2, NamedKept, PastGrows
  <2> QED
    BY <2>1, <2>2
<1>2. ASSUME NEW r \in Requests, pc'[r] \in {"drop", "remove"}
      PROVE  body'[r].name \in asked'
  <2>1. ASSUME NEW q \in Requests, FindTable(q), q = r
        PROVE  body'[r].name \in asked'
    <3>1. body'[r] = row[table[r]]
      BY <2>1 DEF FindTable, TableInv, RequestTypes
    <3> QED
      BY <2>1, <3>1 DEF FindTable
  <2>2. ASSUME NEW q \in Requests, q # r
        PROVE  /\ Create(q) \/ Update(q) \/ Delete(q) \/ Reject(q) \/ Exists(q) \/ InsertTable(q)
                  \/ InsertRoute(q) \/ ReadTable(q) \/ DeleteColumns(q) \/ DeleteRelations(q)
                  \/ SaveTable(q) \/ FindTable(q) \/ DropTable(q) \/ RemoveTable(q)
                  => body'[r] = body[r] /\ pc'[r] = pc[r]
    BY <2>2 DEF TableInv, RequestTypes, Goto, Answer, Create, Update, Delete, Receive, Reject,
       Exists, InsertTable, Save, InsertRoute, ReadTable, DeleteColumns, DeleteRelations,
       SaveTable, FindTable, DropTable, RemoveTable, reqVars
  <2>3. CASE DropTable(r)
    BY <2>3 DEF DropTable, Goto, TableInv, Backed, past
  <2>4. /\ ~Create(r) /\ ~Update(r) /\ ~Delete(r) /\ ~Reject(r) /\ ~Exists(r) /\ ~InsertTable(r)
        /\ ~InsertRoute(r) /\ ~ReadTable(r) /\ ~DeleteColumns(r) /\ ~DeleteRelations(r)
        /\ ~SaveTable(r) /\ ~RemoveTable(r)
    BY <1>2 DEF TableInv, RequestTypes, Goto, Answer, Create, Update, Delete, Reject, Exists,
       InsertTable, InsertRoute, ReadTable, DeleteColumns, DeleteRelations, SaveTable, RemoveTable
  <2>5. CASE Sync \/ DestroySource \/ UNCHANGED vars
    BY <1>2, <2>5 DEF Sync, DestroySource, vars, reqVars, past, TableInv, Backed
  <2>6. CASE body'[r] = body[r] /\ pc'[r] = pc[r]
    BY <1>2, <2>6, PastGrows DEF TableInv, Backed
  <2> QED
    BY <2>1, <2>2, <2>3, <2>4, <2>5, <2>6, Steps
<1> QED
  BY <1>1, <1>2 DEF Backed

-----------------------------------------------------------------------------
(* The physical tables follow the rows. *)

\* What is excused stays so until a synchronisation, or until one is due.
LEMMA ExcusedKept ==
  ASSUME TableInv, [Next]_vars, ~Sync, ~pending', NEW n, Excused(n)
  PROVE  Excused(n)'
<1>1. ASSUME NEW r \in Requests, InsertTable(r) \/ SaveTable(r) \/ RemoveTable(r)
      PROVE  FALSE
  BY <1>1 DEF InsertTable, SaveTable, RemoveTable
<1>2. ASSUME NEW r \in Requests, Reject(r)
      PROVE  Excused(n)'
  BY <1>2 DEF Reject, Answer, Excused, TableInv, RequestTypes
<1>3. ASSUME NEW r \in Requests, DeleteColumns(r) \/ DropTable(r)
      PROVE  Excused(n)'
  BY <1>3 DEF DeleteColumns, DropTable, past, Excused, TableInv, RequestTypes
<1>4. CASE UNCHANGED <<torn, cut>>
  BY <1>4 DEF Excused
<1>5. \/ UNCHANGED <<torn, cut>>
      \/ \E r \in Requests : \/ InsertTable(r) \/ SaveTable(r) \/ RemoveTable(r) \/ Reject(r)
                             \/ DeleteColumns(r) \/ DropTable(r)
  BY Steps DEF Create, Update, Delete, Receive, Exists, InsertRoute, ReadTable, DeleteRelations,
     FindTable, DestroySource, vars, reqVars, past
<1> QED
  BY <1>1, <1>2, <1>3, <1>4, <1>5

LEMMA SyncAgrees ==
  ASSUME TableInv, Sync
  PROVE  Agrees'
<1>1. row' = row
  BY DEF Sync, dbVars
<1>2. ASSUME NEW t \in Tables, row[t] # None
      PROVE  /\ row[t].name \in DOMAIN physical'
             /\ physical'[row[t].name] = row[t].parts \cap Columns
  <2>1. PICK n : n = row[t].name
    OBVIOUS
  <2>2. Named(n) = {t}
    BY <1>2, <2>1 DEF Named, TableInv, Database, Unique
  <2>3. /\ n \in DOMAIN physical'
        /\ physical'[n] = (UNION {row[u].parts : u \in Named(n)}) \cap Columns
    BY <1>2, <2>1 DEF Sync
  <2>4. UNION {row[u].parts : u \in Named(n)} = row[t].parts
    BY <2>2
  <2> QED
    BY <2>1, <2>3, <2>4
<1>3. \A n \in DOMAIN physical' : Named(n)' # {}
  BY <1>1, SyncedNames DEF Named
<1> QED
  BY <1>1, <1>2, <1>3 DEF Agrees

\* Rows that keep their names and columns agree with the tables they agreed with.
LEMMA SameAgrees ==
  ASSUME TableInv, [Next]_vars, ~Sync, pending' = pending, physical' = physical,
         \A t \in Tables :
           /\ row'[t] # None <=> row[t] # None
           /\ row[t] # None /\ ~Excused(row[t].name)' =>
                row'[t].parts \cap Columns = row[t].parts \cap Columns
           /\ row[t] # None => row'[t].name = row[t].name
  PROVE  Agrees'
<1> SUFFICES ASSUME ~pending'
             PROVE  Agrees'
  BY DEF Agrees
<1>1. ASSUME NEW t \in Tables, row'[t] # None, ~Excused(row[t].name)'
      PROVE  row'[t].name \in DOMAIN physical'
             /\ physical'[row'[t].name] = row'[t].parts \cap Columns
  <2>1. row[t] # None /\ ~Excused(row[t].name) /\ row'[t].name = row[t].name
    BY <1>1, ExcusedKept
  <2> QED
    BY <1>1, <2>1 DEF TableInv, Agrees
<1>2. ASSUME NEW n \in DOMAIN physical'
      PROVE  Named(n)' # {}
  BY <1>2 DEF TableInv, Agrees, Named
<1>3. \A t \in Tables : row'[t] # None => row'[t].name = row[t].name
  OBVIOUS
<1> QED
  BY <1>1, <1>2, <1>3 DEF Agrees, Excused

LEMMA DropAgrees ==
  ASSUME TableInv, [Next]_vars, ~Sync, NEW r \in Requests, DropTable(r)
  PROVE  Agrees'
<1>1. PICK m : m = body[r].name
  OBVIOUS
<1>2. /\ row' = row /\ pending' = pending
      /\ physical' = [n \in DOMAIN physical \ {m} |-> physical[n]]
      /\ m \in cut'[r]
  BY <1>1 DEF DropTable, dbVars, TableInv, RequestTypes
<1>3. Excused(m)'
  BY <1>2 DEF Excused
<1>4. ASSUME ~pending', NEW t \in Tables, row[t] # None, NEW n, n = row[t].name, ~Excused(n)'
      PROVE  n \in DOMAIN physical' /\ physical'[n] = row[t].parts \cap Columns
  <2>1. n # m
    BY <1>3, <1>4
  <2>2. ~Excused(n)
    BY <1>4, ExcusedKept
  <2> QED
    BY <1>2, <1>4, <2>1, <2>2 DEF TableInv, Agrees
<1>5. ASSUME ~pending', NEW n \in DOMAIN physical'
      PROVE  Named(n)' # {}
  BY <1>2, <1>5 DEF TableInv, Agrees, Named
<1> QED
  BY <1>2, <1>4, <1>5 DEF Agrees, Excused

LEMMA AgreesNext ==
  ASSUME TableInv, [Next]_vars
  PROVE  Agrees'
<1>1. CASE Sync
  BY <1>1, SyncAgrees
<1>2. ASSUME ~Sync, NEW r \in Requests, InsertTable(r) \/ SaveTable(r) \/ RemoveTable(r)
      PROVE  Agrees'
  BY <1>2 DEF InsertTable, SaveTable, RemoveTable, Agrees
<1>3. ASSUME ~Sync, NEW r \in Requests, DropTable(r)
      PROVE  Agrees'
  BY <1>3, DropAgrees
<1>4. ASSUME ~Sync, NEW r \in Requests, DeleteColumns(r)
      PROVE  Agrees'
  <2>1. PICK gone : gone = removed[r] \cap Columns
    OBVIOUS
  <2>2. /\ row' = Without(gone) /\ pending' = pending /\ physical' = physical
        /\ \A t \in Owners(gone) : row[t].name \in cut'[r]
    BY <1>4, <2>1 DEF DeleteColumns, TableInv, RequestTypes
  <2>3. \A u \in Tables :
          /\ row'[u] # None <=> row[u] # None
          /\ row[u] # None => row'[u].name = row[u].name
          /\ PartsOf(u)' = PartsOf(u) \ gone
    BY <2>2, CutRows DEF TableInv, Database
  <2>4. ASSUME NEW t \in Tables, row[t] # None, ~Excused(row[t].name)'
        PROVE  row'[t].parts \cap Columns = row[t].parts \cap Columns
    <3>1. t \notin Owners(gone)
      BY <2>2, <2>3, <2>4 DEF Excused
    <3>2. PartsOf(t)' = PartsOf(t)
      BY <2>3, <3>1 DEF Owners
    <3> QED
      BY <2>3, <2>4, <3>2 DEF PartsOf
  <2> QED
    BY <1>4, <2>2, <2>3, <2>4, SameAgrees
<1>5. ASSUME ~Sync, NEW r \in Requests, DeleteRelations(r)
      PROVE  Agrees'
  <2>1. PICK gone : gone = removed[r] \cap Relations
    OBVIOUS
  <2>2. row' = Without(gone) /\ pending' = pending /\ physical' = physical
    BY <1>5, <2>1 DEF DeleteRelations
  <2>3. \A u \in Tables :
          /\ row'[u] # None <=> row[u] # None
          /\ row[u] # None => row'[u].name = row[u].name
          /\ PartsOf(u)' = PartsOf(u) \ gone
    BY <2>2, CutRows DEF TableInv, Database
  <2>4. ASSUME NEW t \in Tables, row[t] # None
        PROVE  row'[t].parts \cap Columns = row[t].parts \cap Columns
    <3>1. row'[t].parts = row[t].parts \ gone
      BY <2>3, <2>4 DEF PartsOf
    <3> QED
      BY <2>1, <3>1, PartsAssumption
  <2> QED
    BY <1>5, <2>2, <2>3, <2>4, SameAgrees
<1>6. CASE ~Sync /\ UNCHANGED <<row, physical, pending>>
  BY <1>6, SameAgrees
<1>7. \/ Sync \/ UNCHANGED <<row, physical, pending>>
      \/ \E r \in Requests : \/ InsertTable(r) \/ SaveTable(r) \/ RemoveTable(r) \/ DropTable(r)
                             \/ DeleteColumns(r) \/ DeleteRelations(r)
  <2>1. ASSUME NEW r \in Requests, \/ Create(r) \/ Update(r) \/ Delete(r) \/ Reject(r) \/ Exists(r)
                                   \/ InsertRoute(r) \/ ReadTable(r) \/ FindTable(r)
        PROVE  UNCHANGED <<row, physical, pending>>
    BY <2>1 DEF Create, Update, Delete, Receive, Reject, Exists, InsertRoute, ReadTable, FindTable,
       dbVars
  <2>2. CASE DestroySource \/ UNCHANGED vars
    BY <2>2 DEF DestroySource, vars, dbVars
  <2> QED
    BY <2>1, <2>2, Steps
<1> QED
  BY <1>1, <1>2, <1>3, <1>4, <1>5, <1>6, <1>7

-----------------------------------------------------------------------------
(* Initial states, and the theorems. *)

LEMMA InitTables == Init => TableInv
<1> SUFFICES ASSUME Init
             PROVE  TableInv
  OBVIOUS
<1>1. /\ row \in Installed /\ row \in [Tables -> Row \cup {None}] /\ pinned = {}
      /\ torn = {} /\ asked = {} /\ unguarded = {} /\ source = 0 /\ oldest = 0
      /\ \A r \in Requests : pc[r] = "idle"
  BY InstalledAssumption DEF Init
<1>2. \A t \in Tables : row[t] # None =>
        /\ row[t] \in Row /\ row[t].name = t /\ (row[t].isSystem <=> t \in SystemTables)
        /\ \A q \in row[t].parts \cap Relations : row[Target[q]] # None
        /\ \A u \in Tables \ {t} : row[u] # None => row[u].parts \cap row[t].parts = {}
  BY <1>1, InstalledAssumption
<1>3. \A t \in SystemTables : t \in Tables /\ row[t] # None /\ SystemParts[t] \subseteq row[t].parts
  BY <1>1, InstalledAssumption, TablesAssumption
<1>4. /\ DOMAIN physical = {t \in Tables : row[t] # None}
      /\ \A t \in Tables : row[t] # None => physical[t] = row[t].parts \cap Columns
      /\ \A n \in DOMAIN route : route[n] \in Tables /\ row[route[n]] # None
  BY DEF Init
<1>5. RequestTypes
  BY DEF Init, RequestTypes, Creating, Updating, Deleting, States
<1>6. PastTypes /\ Counts
  BY <1>1, <1>4 DEF PastTypes, Counts, Names
<1>7. RowTypes /\ Unique /\ Separate
  BY <1>1, <1>2 DEF RowTypes, Unique, Separate, PartsOf
<1>8. References
  BY <1>1, <1>2 DEF References, PartsOf
<1>9. Systems
  BY <1>1, <1>2, <1>3, <1>4 DEF Systems, Guarded, Granted, Updating, Deleting
<1>10. \A n \in DOMAIN physical : Named(n) # {}
  BY <1>2, <1>4 DEF Named
<1>11. Agrees /\ Backed
  BY <1>1, <1>2, <1>4, <1>10 DEF Agrees, Backed
<1> QED
  BY <1>4, <1>5, <1>6, <1>7, <1>8, <1>9, <1>11 DEF TableInv, Database, Routes

LEMMA NextTables == TableInv /\ [Next]_vars => TableInv'
BY RequestsNext, PastNext, DatabaseNext, RoutesNext, CountsNext, SystemsNext, AgreesNext, BackedNext
   DEF TableInv

LEMMA TablesInvariant == Spec => []TableInv
BY InitTables, NextTables, PTL DEF Spec

\* A system table is safe from requests for itself that are checked with its flag in
\* sight, from requests for other tables that do not name it or its parts, and from
\* all interleavings of these with each other, with syncAll, with swaps of the
\* DataSource and with failing statements.  The requests that are not such are those
\* the history names: a client that leaves isSystem out of its fields
\* (DynamicRepository.find), or sends the id of a table, column or relation of
\* another table in its body (TableHandlerService).
THEOREM SystemTablesStay == Spec => []SystemStays
<1>1. TableInv => SystemStays
  BY DEF TableInv, Systems, Guarded, SystemStays
<1> QED
  BY <1>1, TablesInvariant, PTL

\* The database's constraints and the handlers keep rows, routes and physical tables
\* well formed, through any interleaving and any failing statement.
THEOREM TablesWellFormed == Spec => []TypeOK
<1>1. ASSUME TableInv
      PROVE  TypeOK
  <2> USE <1>1
  <2>1. ASSUME NEW n \in Names
        PROVE  Cardinality(Named(n)) <= 1
    <3>1. CASE Named(n) = {}
      BY <3>1, FS_EmptySet
    <3>2. ASSUME NEW t \in Named(n)
          PROVE  Cardinality(Named(n)) = 1
      <4>1. Named(n) = {t}
        BY <3>2 DEF Named, TableInv, Database, Unique
      <4> QED
        BY <4>1, FS_Singleton
    <3> QED
      BY <3>1, <3>2
  <2>2. ASSUME NEW t \in Tables, row[t] = None
        PROVE  ~Restricted(t)
    BY <2>2 DEF Restricted, Owners, TableInv, Database, References, PartsOf
  <2>3. \A n \in DOMAIN route : route[n] # None => row[route[n]] # None
    BY DEF TableInv, Routes
  <2>4. /\ row \in [Tables -> Row \cup {None}] /\ pinned \subseteq Relations
        /\ \A t \in Tables : /\ PartsOf(t) \cap pinned = {}
                             /\ \A u \in Tables \ {t} : PartsOf(t) \cap PartsOf(u) = {}
    BY DEF TableInv, Database, RowTypes, Separate
  <2>5. /\ DOMAIN physical \subseteq Names /\ \A n \in DOMAIN physical : physical[n] \subseteq Columns
        /\ oldest \in 0..source
        /\ torn \subseteq Names /\ asked \subseteq Names /\ unguarded \subseteq Tables
    BY DEF TableInv, Counts, PastTypes
  <2> QED
    BY <2>1, <2>2, <2>3, <2>4, <2>5 DEF TypeOK
<1> QED
  BY <1>1, TablesInvariant, PTL

\* Once all requests are answered and the last syncAll has run, the physical tables
\* are those of the metadata, but for tables a failed request has left half changed
\* since the last synchronisation (TableHandlerService.afterEffect, syncAll).
THEOREM SettledTablesAgree == Spec => []SettledAgrees
<1>1. ASSUME TableInv
      PROVE  SettledAgrees
  <2> SUFFICES ASSUME Quiet
               PROVE  /\ \A t \in Tables : row[t] # None /\ row[t].name \notin torn =>
                           row[t].name \in DOMAIN physical
                           /\ physical[row[t].name] = row[t].parts \cap Columns
                      /\ \A n \in DOMAIN physical : Named(n) # {}
    BY DEF SettledAgrees
  <2>1. ~pending /\ \A r \in Requests : cut[r] = {}
    BY <1>1 DEF Quiet, TableInv, RequestTypes
  <2> QED
    BY <1>1, <2>1 DEF TableInv, Agrees, Excused
<1> QED
  BY <1>1, TablesInvariant, PTL

\* A physical table goes only for a request that was let pass and deletes the table
\* of that name or gives it another (delete, SaveTable, syncAll).
THEOREM DropsAreAsked == Spec => DroppedOnlyWhenAsked
<1>1. ASSUME TableInv, [Next]_vars
      PROVE  [\A n \in DOMAIN physical : n \in DOMAIN physical' \cup asked]_vars
  <2> SUFFICES ASSUME NEW n \in DOMAIN physical, n \notin asked
               PROVE  n \in DOMAIN physical'
    OBVIOUS
  <2>1. Named(n) # {}
    BY <1>1 DEF TableInv, Backed
  <2>2. CASE Sync
    BY <2>1, <2>2, SyncedNames
  <2>3. ASSUME NEW r \in Requests, DropTable(r)
        PROVE  n \in DOMAIN physical'
    BY <1>1, <2>3 DEF DropTable, Goto, TableInv, Backed
  <2> QED
    BY <1>1, <2>2, <2>3, PhysicalSteps
<1> QED
  BY <1>1, TablesInvariant, PTL DEF Spec, DroppedOnlyWhenAsked

=============================================================================
