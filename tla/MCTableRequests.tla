-------------------------- MODULE MCTableRequests --------------------------
(* Instances of TableRequests for TLC. *)
EXTENDS TableRequests, TLC

CONSTANTS r1, r2, menu, x, y, menuId, label, xId, c, yId, toX, toY

TwoRequests == {r1, r2}
AllTables   == {menu, x, y}
SystemOnes  == {menu}
AllColumns  == {menuId, label, xId, c, yId}
Ids         == {menuId, xId, yId}
AllRelations == {toX, toY}
PointsTo    == toX :> x @@ toY :> y
SystemOf    == menu :> {menuId, label}

Body(n, ps, sys) == [name |-> n, parts |-> ps, isSystem |-> sys]

\* c is a column of x at first, label a system column of menu: bodies of y take them.
Sent == {Body(x, {xId}, FALSE), Body(x, {xId, c, toY}, FALSE), Body(y, {c}, FALSE),
         Body(y, {yId, c, toX}, FALSE), Body(y, {yId, label}, FALSE),
         Body(menu, {menuId, label, toX}, TRUE), Body(menu, {menuId}, TRUE)}

\* The system table and x; or y too, which x and y point to.
Installations ==
  {menu :> Body(menu, {menuId, label}, TRUE) @@ x :> Body(x, {xId, c}, FALSE) @@ y :> None,
   menu :> Body(menu, {menuId, label}, TRUE) @@ x :> Body(x, {xId, toY}, FALSE)
     @@ y :> Body(y, {yId, c, toX}, FALSE)}

Symmetry == Permutations(TwoRequests)
=============================================================================
