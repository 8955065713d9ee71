-------------------------- MODULE ColumnMigration --------------------------
(***************************************************************************)
(* What a migration does to the tables and columns of the database         *)
(* (migration-helper.ts): the schema builder of TypeORM compares the       *)
(* entities with the database and writes DROP and ADD statements, the      *)
(* helper rewrites a DROP that is followed by an ADD on the same table     *)
(* into a RENAME or a MODIFY, so that the rows keep their values, and the  *)
(* statements run one by one on MySQL, where each takes effect at once: a  *)
(* migration that fails stops half-way.                                    *)
(*                                                                         *)
(* A schema maps its tables to their columns and their types; the database *)
(* also says whose rows a column holds: those of the column they were      *)
(* written to, Nothing before any were.  Foreign keys, indexes and the     *)
(* attributes of a column other than its type are left out, and so are     *)
(* databases other than MySQL.                                             *)
(***************************************************************************)
EXTENDS Naturals, Sequences, FiniteSets, Functions

CONSTANTS
  Tables,       \* the names of tables, in the order of the entities
  Columns,      \* the names of columns, in the order of a table
  Types,        \* the types of columns
  Nothing,      \* the rows of a column that was never written; no column, no type
  Schema,       \* the schema the program starts with
  MaxChanges,   \* bound: how often the tables change
  MaxFaults     \* bound: how many statements fail

VARIABLES
  meta,         \* the tables and columns of the metadata
  entities,     \* the entities the migration was generated from
  physical,     \* the tables and columns of the database: [type, rows]
  plan,         \* the statements of the migration that are still to run
  phase,        \* "idle" | "migrating" | "done"
  renames,      \* whether the last migration renamed a column
  changes, faults

migrationVars == <<meta, entities, physical, plan, phase, renames, changes, faults>>

TableNames == Range(Tables)
ColumnNames == Range(Columns)
Partial(S, T) == UNION {[D -> T] : D \in SUBSET S}
Schemas == Partial(TableNames, Partial(ColumnNames, Types))

ASSUME MigrationConstants ==
  /\ Tables \in Seq(TableNames) /\ IsInjective(Tables)
  /\ Columns \in Seq(ColumnNames) /\ IsInjective(Columns)
  /\ Schema \in Schemas
  /\ MaxChanges \in Nat /\ MaxFaults \in Nat

\* f without x, and f with x mapped to y.
Without(f, x) == [z \in DOMAIN f \ {x} |-> f[z]]
With(f, x, y) == [z \in DOMAIN f \cup {x} |-> IF z = x THEN y ELSE f[z]]

-----------------------------------------------------------------------------
(* The statements of the schema builder: every table that is new is        *)
(* created; then the columns that are gone are dropped, table by table;    *)
(* then the new ones are added; then every column whose type changed is    *)
(* dropped and added again.                                                *)

Statement(op, t, c, type) == [op |-> op, table |-> t, column |-> c, type |-> type]
Create(t)  == Statement("CREATE", t, Nothing, Nothing)
Drop(p)    == Statement("DROP", p[1], p[2], Nothing)
Add(p, es) == Statement("ADD", p[1], p[2], es[p[1]][p[2]])

\* The members of S as a sequence, in an order: the set of pairs <<x, y>> with x
\* before y.
InOrder(S, order) ==
  [i \in 1 .. Cardinality(S) |->
     CHOOSE x \in S : Cardinality({y \in S : <<y, x>> \in order}) = i - 1]

\* The columns that are in both s and r, in the same table.
Common(s, r) ==
  {p \in TableNames \X ColumnNames :
     /\ p[1] \in DOMAIN s \cap DOMAIN r
     /\ p[2] \in DOMAIN s[p[1]] \cap DOMAIN r[p[1]]}

\* The columns of s that r lacks, in the tables of both.
Differing(s, r) ==
  {p \in TableNames \X ColumnNames :
     /\ p[1] \in DOMAIN s \cap DOMAIN r
     /\ p[2] \in DOMAIN s[p[1]] \ DOMAIN r[p[1]]}

Retyped(db, es) == {p \in Common(db, es) : db[p[1]][p[2]].type # es[p[1]][p[2]]}

Needed(db, es) ==
  {Create(t) : t \in DOMAIN es \ DOMAIN db}
    \cup {Drop(p) : p \in Differing(db, es) \cup Retyped(db, es)}
    \cup {Add(p, es) : p \in Differing(es, db) \cup Retyped(db, es)}

\* Where a statement goes: its stage, its table, its column, a DROP before an ADD.
Position(s, db, es) ==
  IF s.op = "CREATE" THEN <<0, AntiFunction(Tables)[s.table], 0, 0>>
  ELSE LET again == <<s.table, s.column>> \in Retyped(db, es)
           adds == IF s.op = "ADD" THEN 1 ELSE 0
       IN  <<IF again THEN 3 ELSE 1 + adds,
             AntiFunction(Tables)[s.table], AntiFunction(Columns)[s.column], adds>>

\* The order of positions: the first number in which they differ decides.
Before(x, y) == \E i \in DOMAIN x : x[i] < y[i] /\ \A j \in 1 .. i - 1 : x[j] = y[j]

Statements(db, es) ==
  LET needed == Needed(db, es)
  IN  InOrder(needed,
              {p \in needed \X needed : Before(Position(p[1], db, es), Position(p[2], db, es))})

\* Mutant: a pair may name two tables.
PairsAnyTable(first, second) == first.op = "DROP" /\ second.op = "ADD"

\* Mutant: only renames are rewritten, a change of type is not.
PairsRenamesOnly(first, second) ==
  /\ first.op = "DROP" /\ second.op = "ADD"
  /\ first.table = second.table /\ first.column # second.column

\* The helper's pass over the statements: a DROP and the ADD right after it become
\* one statement when they name the same table, a MODIFY of the column when they
\* name the same column and else a RENAME, which keeps the type of the old column.
Pairs(first, second) ==
  first.op = "DROP" /\ second.op = "ADD" /\ first.table = second.table

Combined(first, second) ==
  IF first.column = second.column
  THEN Statement("MODIFY", first.table, first.column, second.type)
  ELSE Statement("RENAME", first.table, first.column, second.column)

Rewrite(statements) ==
  LET Absorbed(i) == i > 1 /\ Pairs(statements[i - 1], statements[i])
      Absorbs(i) == i < Len(statements) /\ Pairs(statements[i], statements[i + 1])
      heads == {i \in DOMAIN statements : ~Absorbed(i)}
      kept == InOrder(heads, {p \in heads \X heads : p[1] < p[2]})
  IN  [k \in DOMAIN kept |->
         IF Absorbs(kept[k])
         THEN Combined(statements[kept[k]], statements[kept[k] + 1])
         ELSE statements[kept[k]]]

-----------------------------------------------------------------------------
(* What a statement does.  A created table has its columns at once.        *)

Run(db, s) ==
  LET t == s.table
      c == s.column
  IN  CASE s.op = "CREATE" ->
             With(db, t, [x \in DOMAIN entities[t] |-> [type |-> entities[t][x], rows |-> Nothing]])
        [] s.op = "DROP" -> [db EXCEPT ![t] = Without(@, c)]
        [] s.op = "ADD" -> [db EXCEPT ![t] = With(@, c, [type |-> s.type, rows |-> Nothing])]
        [] s.op = "MODIFY" -> [db EXCEPT ![t][c].type = s.type]
        [] s.op = "RENAME" -> [db EXCEPT ![t] = With(Without(@, c), s.type, @[c])]

-----------------------------------------------------------------------------
Written(c, type) == [type |-> type, rows |-> c]

MigrationInit ==
  /\ meta = Schema /\ entities = Schema
  /\ physical = [t \in DOMAIN Schema |-> [c \in DOMAIN Schema[t] |-> Written(c, Schema[t][c])]]
  /\ plan = <<>> /\ phase = "idle" /\ renames = FALSE
  /\ changes = 0 /\ faults = 0

\* The API creates, changes or drops a table of the metadata, or a failed sync
\* restores it.
Change ==
  /\ changes < MaxChanges
  /\ changes' = changes + 1
  /\ \E t \in TableNames :
       \/ t \in DOMAIN meta /\ meta' = Without(meta, t)
       \/ \E columns \in Partial(ColumnNames, Types) \ {<<>>} : meta' = With(meta, t, columns)
  /\ UNCHANGED <<entities, physical, plan, phase, renames, faults>>

\* Rows are written to every column while no migration runs.
Write ==
  /\ phase # "migrating"
  /\ physical' = [t \in DOMAIN physical |->
                    [c \in DOMAIN physical[t] |-> Written(c, physical[t][c].type)]]
  /\ UNCHANGED <<meta, entities, plan, phase, renames, changes, faults>>

\* generateMigrationFile, from the entities of the metadata: the tables that have
\* no entity are dropped at once, the rest is written to the migration file.  A
\* table whose DROP fails stays, and the migration goes on.
Generate ==
  /\ phase # "migrating"
  /\ phase' = "migrating"
  /\ entities' = meta
  /\ \E stuck \in SUBSET (DOMAIN physical \ DOMAIN meta) :
       /\ stuck # {} => faults < MaxFaults
       /\ faults' = IF stuck = {} THEN faults ELSE faults + 1
       /\ physical' = [t \in DOMAIN physical \cap (DOMAIN meta \cup stuck) |-> physical[t]]
  /\ plan' = Rewrite(Statements(physical', entities'))
  /\ renames' = \E i \in 1 .. Len(plan') : plan'[i].op = "RENAME"
  /\ UNCHANGED <<meta, changes>>

\* runMigration: the next statement.
Execute ==
  /\ phase = "migrating" /\ plan # <<>>
  /\ physical' = Run(physical, Head(plan))
  /\ plan' = Tail(plan)
  /\ UNCHANGED <<meta, entities, phase, renames, changes, faults>>

\* A statement fails, or the process ends: what ran stays.
Fail ==
  /\ phase = "migrating" /\ faults < MaxFaults
  /\ faults' = faults + 1
  /\ phase' = "idle" /\ plan' = <<>>
  /\ UNCHANGED <<meta, entities, physical, renames, changes>>

Finish ==
  /\ phase = "migrating" /\ plan = <<>>
  /\ phase' = "done"
  /\ UNCHANGED <<meta, entities, physical, plan, renames, changes, faults>>

MigrationNext == Change \/ Write \/ Generate \/ Execute \/ Fail \/ Finish

MigrationSpec == MigrationInit /\ [][MigrationNext]_migrationVars

-----------------------------------------------------------------------------
(* Properties. *)

TypesOf(db) == [t \in DOMAIN db |-> [c \in DOMAIN db[t] |-> db[t][c].type]]

Databases == Partial(TableNames, Partial(ColumnNames,
                                         [type : Types, rows : ColumnNames \cup {Nothing}]))
Queries == [op : {"CREATE", "DROP", "ADD", "MODIFY", "RENAME"}, table : TableNames,
            column : ColumnNames \cup {Nothing}, type : Types \cup ColumnNames \cup {Nothing}]

MigrationTypeOK ==
  /\ meta \in Schemas /\ entities \in Schemas
  /\ physical \in Databases
  /\ plan \in Seq(Queries)
  /\ phase \in {"idle", "migrating", "done"} /\ (phase # "migrating" => plan = <<>>)
  /\ renames \in BOOLEAN
  /\ changes \in 0 .. MaxChanges /\ faults \in 0 .. MaxFaults

\* No migration loses rows it could keep, also not one that stops half-way and is
\* generated anew: a column of the database that the entities still have keeps its
\* rows through every statement, and a column that is the only one to go goes when
\* it gives them to the only one that comes, if that is in its table.
RowsStay ==
  [][phase = "migrating" =>
       /\ \A p \in Common(physical, entities) :
            /\ p[1] \in DOMAIN physical' /\ p[2] \in DOMAIN physical'[p[1]]
            /\ physical'[p[1]][p[2]].rows = physical[p[1]][p[2]].rows
       /\ \A t \in TableNames, a, b \in ColumnNames :
            Differing(physical, entities) = {<<t, a>>} /\ Differing(entities, physical) = {<<t, b>>}
              => \/ a \in DOMAIN physical'[t] /\ b \notin DOMAIN physical'[t]
                 \/ /\ a \notin DOMAIN physical'[t] /\ b \in DOMAIN physical'[t]
                    /\ physical'[t][b].rows = physical[t][a].rows]_migrationVars

\* A migration that ends leaves the tables and the columns of its entities, except
\* for a table it could not drop, and their types unless it renamed a column; the
\* next migration gives a renamed column its type.
EndsAsEntities ==
  phase = "done" =>
    /\ DOMAIN entities \subseteq DOMAIN physical
    /\ faults = 0 => DOMAIN physical = DOMAIN entities
    /\ \A t \in DOMAIN entities :
         /\ DOMAIN physical[t] = DOMAIN entities[t]
         /\ ~renames => TypesOf(physical)[t] = entities[t]

=============================================================================
