---------------------------- MODULE QueryEngine ----------------------------
(***************************************************************************)
(* QueryEngine.find: a JSON filter becomes the WHERE of an SQL query       *)
(* (walkFilter, a flat list of conditions), the joins it needs             *)
(* (buildJoinTree) and an ORDER BY (parseSortInput).  The result is        *)
(* compared with what the filter means.                                    *)
(*                                                                         *)
(* A filter is an object: a sequence of entries [key, ...], in the order   *)
(* of its keys.  The keys are "_and", "_or" (with the items in "of"),      *)
(* "_not" (a filter in "of"), a column (with "op" and "val"), a relation   *)
(* (a filter in "of"; or "op" and "val" for _in and _not_in on it; or      *)
(* "count" and "val" for a _count), or a name the table does not have.     *)
(* Columns hold small integers or NULL.  Text operators, the parsing of    *)
(* values by the type of their column, pages and the nested queries of     *)
(* "deep" are left out.                                                    *)
(*                                                                         *)
(* A row of the query is one row of the joined tables: the values of every *)
(* column on every path of relations, the ids a relation on a path leads   *)
(* to, and how many rows of another table point to the row on a path.      *)
(***************************************************************************)
EXTENDS Integers, Sequences, FiniteSets, SequencesExt, FiniteSetsExt

CONSTANTS
  Root,         \* the table the query asks
  Columns,      \* Columns[t]: the columns of table t
  Relations,    \* Relations[t]: the relations of t, in the order of its metadata
  Null,         \* the value NULL of SQL
  Rows,         \* the joined rows of the query: [at, links, pointing]
  Filters,      \* the filters that may be asked
  Sorts         \* the lists of [path, desc] that may be asked

VARIABLES
  filter,       \* the filter of the last find
  sort,         \* and its sort
  selected,     \* the rows the SQL selects, or Failed
  order         \* the ORDER BY of the SQL

vars == <<filter, sort, selected, order>>

Failed == "failed"

-----------------------------------------------------------------------------
(* Three values of SQL: FALSE < UNKNOWN < TRUE. *)

False == 0
Unknown == 1
True == 2

Least(S) == Min(S \cup {True})
Greatest(S) == Max(S \cup {False})
Truth(b) == IF b THEN True ELSE False

\* A comparison of a column's value with the values bound to its parameters.
Compare(op, v, args) ==
  CASE op = "_is_null" -> Truth((v = Null) = args[1])
    [] op = "_in" /\ args = <<>> -> False
    [] op = "_not_in" /\ args = <<>> -> True
    [] OTHER -> IF v = Null THEN Unknown
                ELSE Truth(CASE op = "_eq" -> v = args[1]
                             [] op = "_neq" -> v # args[1]
                             [] op = "_gt" -> v > args[1]
                             [] op = "_in" -> v \in Range(args)
                             [] op = "_not_in" -> v \notin Range(args)
                             [] op = "_between" -> args[1] <= v /\ v <= args[2])

-----------------------------------------------------------------------------
(* What a filter means: every entry holds.                                *)

Column(t, k) == k \in Columns[t]

\* A relation is [name, to, kind, by].  A "one" (many-to-one) has a column with the
\* id of its row of table "to", a "many" (one-to-many) is the other side of relation
\* "by" of that table; of a many-to-many the "owner" has the join table's columns,
\* and the "inverse" none.
Relation(t, k) == \E r \in Range(Relations[t]) : r.name = k
RelationOf(t, k) == CHOOSE r \in Range(Relations[t]) : r.name = k
Target(t, k) == RelationOf(t, k).to
Arguments(e) == IF e.op \in {"_in", "_not_in", "_between"} THEN e.val ELSE <<e.val>>

RECURSIVE Meaning(_, _, _, _)
Meaning(f, t, path, row) ==
  LET Holds(e) ==
        CASE e.key = "_and" -> Least({Meaning(g, t, path, row) : g \in Range(e.of)})
          [] e.key = "_or" -> Greatest({Meaning(g, t, path, row) : g \in Range(e.of)})
          [] e.key = "_not" -> True - Meaning(e.of, t, path, row)
          [] Column(t, e.key) -> Compare(e.op, row.at[path][e.key], Arguments(e))
          [] Relation(t, e.key) /\ "of" \in DOMAIN e ->
               Meaning(e.of, Target(t, e.key), Append(path, e.key), row)
          [] Relation(t, e.key) /\ "count" \in DOMAIN e ->
               Compare(e.count, Cardinality(row.links[Append(path, e.key)]), <<e.val>>)
          [] Relation(t, e.key) /\ "op" \in DOMAIN e ->
               LET linked == row.links[Append(path, e.key)] \cap Range(e.val) # {}
               IN  Truth(IF e.op = "_in" THEN linked ELSE ~linked)
          [] OTHER -> True
  IN  Least({Holds(e) : e \in Range(f)})

-----------------------------------------------------------------------------
(* walkFilter.  A condition is a comparison on a path with the names of    *)
(* its parameters; a part is a condition with the operator that joins it   *)
(* to the parts before it, and the values it binds.                        *)

IsGroup(e) == e.key \in {"_and", "_or"}

\* The keys for which a relation's object is walked on the table that has the
\* relation: the OPERATORS, which "_not" belongs to.
IsOperator(e) == e.key = "_not"

Condition(on, key, op, names) ==
  [neg |-> FALSE, kind |-> "column", on |-> on, key |-> key, op |-> op, names |-> names]

\* The parameters a comparison takes, p1, p2, ..., the first of them free.
Names(op, val, n) ==
  CASE op \in {"_in", "_not_in"} -> [i \in 1 .. Len(val) |-> <<n, i>>]
    [] op = "_between" -> <<<<n + 1>>, <<n + 2>>>>
    [] OTHER -> <<<<n>>>>

\* Mutant: every comparison takes one parameter.
NextNameByOne(op, n) == n + 1

NextName(op, n) == IF op = "_between" THEN n + 3 ELSE n + 1

\* _is_null and its negation are written into the SQL, without a parameter; the
\* condition keeps the wanted answer in place of the names.
Compared(op, on, key, val, operator, n) ==
  LET names == Names(op, val, n)
      args == IF op \in {"_in", "_not_in", "_between"} THEN val ELSE <<val>>
  IN  IF op = "_is_null"
      THEN [operator |-> operator, params |-> {}, cond |-> Condition(on, key, op, <<val>>)]
      ELSE [operator |-> operator,
            params |-> {<<names[i], args[i]>> : i \in 1 .. Len(names)},
            cond |-> Condition(on, key, op, names)]

\* _in on a relation compares the id of the table that is asked: with the ids its
\* join table links for a many-to-many relation, with the given ids otherwise.  The
\* inverse side of a many-to-many has no columns to name, and walkFilter throws.
RelationIn(t, on, e, operator, n) ==
  LET names == [i \in 1 .. Len(e.val) |-> <<n + i - 1>>]
      kind  == RelationOf(t, e.key).kind
  IN  [operator |-> operator,
       params |-> {<<names[i], e.val[i]>> : i \in 1 .. Len(names)},
       cond |-> [Condition(on, e.key, e.op, names) EXCEPT
                   !.kind = CASE e.val = <<>> -> "constant"
                              [] kind = "owner" -> "linked"
                              [] kind = "inverse" -> "broken"
                              [] OTHER -> "id"]]

\* _count counts the rows of the target table whose column for the first relation
\* back has the id of the row.
Back(t, k) == SelectSeq(Relations[Target(t, k)], LAMBDA r : r.to = t)

\* The first relation back has join columns.
Counted(t, k) == Back(t, k) # <<>> /\ Back(t, k)[1].kind \in {"one", "owner"}

\* Those of the owner of a many-to-many are not in the table that is counted.
RelationCount(t, on, e, operator, n) ==
  LET back == Back(t, e.key)[1]
  IN  [Compared(e.count, on, <<Target(t, e.key), back.name>>, e.val, operator, n) EXCEPT
         !.cond.kind = IF back.kind = "one" THEN "count" ELSE "broken"]

Negated(p) == [p EXCEPT !.cond.neg = ~p.cond.neg]

RECURSIVE Walk(_, _, _, _, _)
\* The parts of filter f on table t at alias path on, and the next free parameter.
Walk(f, t, on, operator, n) ==
  LET Visit(acc, e) ==
        LET Then(got) == [parts |-> acc.parts \o got.parts, next |-> got.next]
            Part(p, next) == [parts |-> Append(acc.parts, p), next |-> next]
            Each(got, g) ==
              LET more == Walk(g, t, on, IF e.key = "_and" THEN "AND" ELSE "OR", got.next)
              IN  [parts |-> got.parts \o more.parts, next |-> more.next]
        IN  CASE IsGroup(e) -> FoldLeft(Each, acc, e.of)
              [] e.key = "_not" ->
                   LET sub == Walk(e.of, t, on, "AND", 1).parts
                   IN  [acc EXCEPT !.parts = @ \o [i \in 1 .. Len(sub) |->
                          [Negated(sub[i]) EXCEPT !.operator = operator]]]
              [] Relation(t, e.key) /\ "count" \in DOMAIN e ->
                   IF Counted(t, e.key)
                   THEN Part(RelationCount(t, on, e, operator, acc.next), acc.next + 1)
                   ELSE acc
              [] Relation(t, e.key) /\ "op" \in DOMAIN e ->
                   Part(RelationIn(t, on, e, operator, acc.next), acc.next + Len(e.val))
              [] Relation(t, e.key) /\ "of" \in DOMAIN e ->
                   IF \E g \in Range(e.of) : IsOperator(g)
                   THEN Then(Walk(e.of, t, on, operator, acc.next))
                   ELSE Then(Walk(e.of, Target(t, e.key), Append(on, e.key),
                                  operator, acc.next))
              [] Column(t, e.key) ->
                   Part(Compared(e.op, on, e.key, e.val, operator, acc.next),
                        NextName(e.op, acc.next))
              [] OTHER -> acc
  IN  FoldLeft(Visit, [parts |-> <<>>, next |-> n], f)

Parts(f) == Walk(f, Root, <<>>, "AND", 1).parts

-----------------------------------------------------------------------------
(* buildJoinTree: the aliases the query joins for its filter and its sort. *)

RECURSIVE FilterJoins(_, _, _)
FilterJoins(f, t, on) ==
  UNION {CASE IsGroup(e) -> UNION {FilterJoins(g, t, on) : g \in Range(e.of)}
           [] Relation(t, e.key) ->
                {Append(on, e.key)} \cup
                (IF "of" \in DOMAIN e
                 THEN FilterJoins(e.of, Target(t, e.key), Append(on, e.key))
                 ELSE {})
           [] OTHER -> {} : e \in Range(f)}

\* The ORDER BY: the relations of a path are joined, its last name is the column.
\* The direction is looked up by the column's name among the paths that were asked.
OrderBy(s) ==
  LET Direction(column) ==
        LET same == SelectInSeq(s, LAMBDA r : r.path = <<column>>)
        IN  IF same = 0 THEN FALSE ELSE s[same].desc
  IN  [i \in 1 .. Len(s) |->
         [on |-> Front(s[i].path), column |-> Last(s[i].path), desc |-> Direction(Last(s[i].path))]]

Joined(f, s) ==
  {<<>>} \cup FilterJoins(f, Root, <<>>)
         \cup UNION {{SubSeq(s[i].path, 1, k) : k \in 1 .. Len(s[i].path) - 1} : i \in 1 .. Len(s)}

-----------------------------------------------------------------------------
(* The SQL.  The builder has one set of parameters: a part that binds a    *)
(* name again replaces its value everywhere.                               *)

Bind(bound, p) ==
  LET given == {x[1] : x \in p.params}
  IN  [k \in DOMAIN bound \cup given |->
         IF k \in given THEN (CHOOSE x \in p.params : x[1] = k)[2] ELSE bound[k]]

Bound(parts) == FoldLeft(Bind, <<>>, parts)

Evaluate(c, bound, row) ==
  LET args == [i \in 1 .. Len(c.names) |-> bound[c.names[i]]]
      linked == row.links[Append(c.on, c.key)] \cap Range(args) # {}
      own == row.at[c.on]["id"]
      value ==
        CASE c.kind = "constant" -> Truth(c.op # "_in")
          [] c.kind = "count" -> Compare(c.op, row.pointing[c.on][c.key], args)
          [] c.kind = "linked" -> Truth(linked = (c.op = "_in"))
          [] c.kind = "id" -> Compare(c.op, own, args)
          [] c.op = "_is_null" -> Compare(c.op, row.at[c.on][c.key], c.names)
          [] OTHER -> Compare(c.op, row.at[c.on][c.key], args)
  IN  IF c.neg THEN True - value ELSE value

\* The parts one after another, without parentheses between them: AND binds
\* stronger than OR.  The operator of the first part is not written.
Where(parts, row) ==
  LET bound == Bound(parts)
      Join(acc, p) ==
        LET v == Evaluate(p.cond, bound, row)
        IN  IF p.operator = "AND"
            THEN [acc EXCEPT !.run = Least({@, v})]
            ELSE [done |-> Greatest({acc.done, acc.run}), run |-> v]
      start == [done |-> False, run |-> Evaluate(parts[1].cond, bound, row)]
      end == FoldLeft(Join, start, Tail(parts))
  IN  Greatest({end.done, end.run})

\* The aliases a condition reads.
Aliases(c) == IF c.names = <<>> THEN {} ELSE {c.on}

\* A broken condition fails the find: while the SQL is built, or in the database.
Select(f, s) ==
  LET parts == Parts(f)
  IN  IF parts = <<>> THEN Rows
      ELSE IF \E p \in Range(parts) :
                p.cond.kind = "broken" \/ ~(Aliases(p.cond) \subseteq Joined(f, s)) THEN Failed
      ELSE {row \in Rows : Where(parts, row) = True}

-----------------------------------------------------------------------------
Init ==
  /\ filter = <<>>
  /\ sort = <<>>
  /\ selected = Rows
  /\ order = <<>>

Find ==
  /\ filter' \in Filters
  /\ sort' \in Sorts
  /\ selected' = Select(filter', sort')
  /\ order' = OrderBy(sort')

Next == Find

Spec == Init /\ [][Next]_vars

-----------------------------------------------------------------------------
(* Properties. *)

Meant(f) == {row \in Rows : Meaning(f, Root, <<>>, row) = True}

\* One condition, under any relations: on a column, on the count of a one-to-many
\* relation whose other side is the first relation back, or with _in or _not_in on
\* the owning side of a many-to-many relation.
RECURSIVE Single(_, _)
Single(f, t) ==
  /\ Len(f) = 1
  /\ LET e == f[1] IN
     \/ Column(t, e.key)
     \/ /\ Relation(t, e.key)
        /\ CASE "of" \in DOMAIN e -> Single(e.of, Target(t, e.key))
             [] "op" \in DOMAIN e -> RelationOf(t, e.key).kind = "owner"
             [] OTHER -> /\ RelationOf(t, e.key).kind = "many"
                         /\ RelationOf(t, e.key).by = Back(t, e.key)[1].name

\* Conditions that must all hold, in one object or in nested _and.
RECURSIVE Conjunction(_, _)
Conjunction(f, t) ==
  \A e \in Range(f) :
    \/ e.key = "_and" /\ \A g \in Range(e.of) : Conjunction(g, t)
    \/ Relation(t, e.key) /\ "of" \in DOMAIN e /\ Conjunction(e.of, Target(t, e.key))
    \/ Single(<<e>>, t)

\* A lone _or of single conditions, under any relations.
RECURSIVE Disjunction(_, _)
Disjunction(f, t) ==
  /\ Len(f) = 1
  /\ LET e == f[1] IN
     \/ e.key = "_or" /\ e.of # <<>> /\ \A g \in Range(e.of) : Single(g, t)
     \/ Relation(t, e.key) /\ "of" \in DOMAIN e /\ Disjunction(e.of, Target(t, e.key))

\* A lone _not of one condition on a column of the table asked.
Negation(f) ==
  Len(f) = 1 /\ f[1].key = "_not" /\ Len(f[1].of) = 1 /\ Column(Root, f[1].of[1].key)

Plain(f) == Conjunction(f, Root) \/ Disjunction(f, Root) \/ Negation(f)

\* A find selects the rows its filter means, for conjunctions however nested, a
\* lone disjunction and a lone negation of such single conditions: the conditions keep
\* their places and their parameters on the way to the SQL, the aliases they read
\* are joined, and a query that is sorted by columns of the table asked is sorted
\* in the directions that were asked.
FindsWhatIsAsked ==
  /\ Plain(filter) => selected = Meant(filter)
  /\ (\A i, j \in DOMAIN sort : Len(sort[i].path) = 1 /\ (sort[i].path = sort[j].path => i = j))
       => \A i \in DOMAIN sort : order[i] = [on |-> <<>>, column |-> sort[i].path[1],
                                            desc |-> sort[i].desc]

\* Every filter selects the rows it means, groups within groups included: "Find
\* recent published posts" whose tags contain one word or another, as the examples
\* of docs/QUERY_ENGINE.md nest _or in _and.  It does not hold: the parts of a
\* group are written without parentheses.
GroupsAreKept == selected = Meant(filter)

=============================================================================
