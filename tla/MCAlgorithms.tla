---------------------------- MODULE MCAlgorithms ----------------------------
(***************************************************************************)
(* The two algorithms the program feeds with arbitrary data, one at a      *)
(* time: migrations of two tables of two columns, and queries of a table   *)
(* with relations of every kind to other tables.  A query is asked before  *)
(* any migration begins; the two share no state.                           *)
(***************************************************************************)
EXTENDS ColumnMigration, Integers, FiniteSets, TLC

CONSTANTS a, b, id, null, post, user, comment, tag, list, author, editor, comments, tags, lists,
          about, posts, edited, t1, t2, int, text, none

VARIABLES filter, sort, selected, order

queryVars == <<filter, sort, selected, order>>

TwoTables == <<t1, t2>>
TwoColumns == <<a, b>>
TwoTypes == {int, text}
\* One table with both columns, one with the first.
TwoSchemas == (t1 :> (a :> int @@ b :> text)) @@ (t2 :> (a :> int))

-----------------------------------------------------------------------------
(* The tables queried.                                                     *)

TableColumns == (post :> {a, b}) @@ (user :> {a}) @@ (tag :> {b}) @@ (comment :> {}) @@ (list :> {})

One(name, to)      == [name |-> name, to |-> to, kind |-> "one"]
Many(name, to, by) == [name |-> name, to |-> to, kind |-> "many", by |-> by]
Owner(name, to)    == [name |-> name, to |-> to, kind |-> "owner"]
OtherSide(name, to)  == [name |-> name, to |-> to, kind |-> "inverse"]

\* A post has an author and an editor, comments, tags, and lists that it is on.
TableRelations ==
  (post :> <<One(author, user), One(editor, user), Many(comments, comment, about),
             Owner(tags, tag), OtherSide(lists, list)>>)
    @@ (user :> <<Many(posts, post, author), Many(edited, post, editor)>>)
    @@ (comment :> <<One(about, post)>>) @@ (tag :> <<OtherSide(posts, post)>>)
    @@ (list :> <<Owner(posts, post)>>)

Values == {0, 1, null}

\* Posts with the first tag have two comments, others none.
Comments(ts) == IF 1 \in ts THEN {1, 2} ELSE {}

\* Every post with two columns, its author or none with the posts he has written and
\* the ones he has edited, the tag of the joined row, the post's tags and comments.
JoinedRows ==
  {[at |-> (<<>> :> ("id" :> 1 @@ a :> x @@ b :> y)) @@ (<<author>> :> (a :> z)) @@ (<<tags>> :> (b :> w)),
    links |-> (<<tags>> :> ts) @@ (<<comments>> :> Comments(ts)) @@ (<<lists>> :> {}) @@ (<<author>> :> {1})
                @@ (<<author, posts>> :> 1 .. 1) @@ (<<author, edited>> :> {}),
    pointing |-> (<<>> :> (<<comment, about>> :> Cardinality(Comments(ts))))
                   @@ (<<author>> :> (<<post, author>> :> 1 @@ <<post, editor>> :> 0))] :
     x \in Values, y \in Values, z \in Values, w \in {0, null}, ts \in SUBSET {1, 2}}

Where(k, op, val) == [key |-> k, op |-> op, val |-> val]
OfKey(k, of) == [key |-> k, of |-> of]
Count(k, op, val) == [key |-> k, count |-> op, val |-> val]

PostConditions ==
  {Where(a, "_eq", 0), Where(a, "_gt", 0), Where(b, "_neq", 1), Where(b, "_is_null", TRUE),
   Where(b, "_between", <<0, 1>>), Where(a, "_in", <<0>>), Where(b, "_not_in", <<0, 1>>),
   Where(a, "_in", <<>>), Count(comments, "_gt", 1),
   Where(tags, "_in", <<1, 2>>), Where(tags, "_not_in", <<2>>)}
Related == {OfKey(author, <<Where(a, "_eq", 1)>>), OfKey(tags, <<Where(b, "_in", <<0>>)>>)}
Conditions == PostConditions \cup Related

\* Relations that _count drops, counts by another relation, or breaks on, and that
\* _in breaks on or does not look at; the count of an author's posts works.
Odd == {Count(tags, "_gt", 1), Count(author, "_gt", 1), OfKey(author, <<Count(edited, "_eq", 1)>>),
        Count(lists, "_eq", 0), Where(lists, "_in", <<1>>), Where(comments, "_in", <<1>>),
        OfKey(author, <<Count(posts, "_eq", 1)>>)}

Few == {Where(a, "_eq", 0), Where(b, "_eq", 1), Where(b, "_between", <<0, 1>>),
        OfKey(author, <<Where(a, "_eq", 1)>>)}

\* One condition; two in one object, in an _and or an _or; one of the odd ones; an _and within an _and
\* before or after a condition; a condition under _not; an _or on a relation; and
\* the groups that are not plain, for the joins and the parameters they take.
TheFilters ==
  {<<c>> : c \in Conditions}
    \cup {<<c, d>> : c \in Conditions, d \in Conditions}
    \cup {<<c>> : c \in Odd} \cup {<<c, d>> : c \in Odd, d \in Few}
    \cup {<<OfKey(g, <<<<c>>, <<d>>>>)>> : g \in {"_and", "_or"}, c \in Conditions, d \in Conditions}
    \cup {<<OfKey("_and", <<<<c, OfKey("_and", <<<<d>>, <<e>>>>)>>>>), f>> :
            c \in Few, d \in Few, e \in Few, f \in Few}
    \cup {<<OfKey("_or", <<<<c>>, <<d>>, <<e>>>>)>> : c \in Few, d \in Few, e \in Few}
    \cup {<<OfKey("_not", <<c>>)>> : c \in Conditions}
    \cup {<<OfKey(author, <<OfKey("_or", <<<<Where(a, "_eq", 0)>>, <<Where(a, "_eq", 1)>>>>)>>)>>}
    \cup {<<OfKey(author, <<OfKey("_not", <<Where(a, "_eq", 0)>>)>>)>>}

\* The published posts that one of two words tags, as the documentation asks for
\* them.
DocumentedFilter ==
  {<<OfKey("_and", <<<<Where(a, "_eq", 1)>>,
                     <<OfKey("_or", <<<<Where(b, "_eq", 0)>>, <<Where(b, "_eq", 1)>>>>)>>>>)>>}

TheSorts ==
  {<<>>, <<[path |-> <<a>>, desc |-> TRUE], [path |-> <<b>>, desc |-> FALSE]>>,
   <<[path |-> <<author, a>>, desc |-> TRUE]>>}

CONSTANTS AskedFilters, AskedSorts

Query == INSTANCE QueryEngine WITH Root <- post, Columns <- TableColumns,
                                   Relations <- TableRelations, Null <- null,
                                   Rows <- JoinedRows, Filters <- AskedFilters,
                                   Sorts <- AskedSorts

MCInit == MigrationInit /\ Query!Init

\* A find keeps nothing for the next one: each is asked once, and nothing follows.
Ask == filter = <<>> /\ phase = "idle" /\ changes = 0 /\ faults = 0 /\ Query!Find /\ UNCHANGED migrationVars
Migrate == MigrationNext /\ filter = <<>> /\ UNCHANGED queryVars

MCNext == Ask \/ Migrate

MCSpec == MCInit /\ [][MCNext]_<<migrationVars, queryVars>>

FindsWhatIsAsked == Query!FindsWhatIsAsked
GroupsAreKept == Query!GroupsAreKept

=============================================================================
