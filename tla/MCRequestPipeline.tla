-------------------------- MODULE MCRequestPipeline --------------------------
(* Instances of RequestPipeline for TLC. *)
EXTENDS RequestPipeline, TLC

CONSTANTS r1, c1, c2, ann, editor, reader, s1

OneRequest  == {r1}
TwoCalls    == {c1, c2}
OneUser     == {ann}
TwoRoles    == {editor, reader}
OneSession  == {s1}
OwnerOf     == s1 :> ann

Permit(ms, q, us) == [methods |-> ms, role |-> q, users |-> us]
Definition(ms, ps) == [published |-> ms, permissions |-> ps]

\* For editors, and GraphQL for everyone; for ann by name; published.
Definitions ==
  {Definition({"GQL_QUERY"}, {Permit({"POST"}, editor, {}), Permit({"GQL_QUERY"}, None, {ann})}),
   Definition({}, {Permit({"POST"}, None, {ann}), Permit({"GQL_QUERY"}, editor, {})}),
   Definition({"POST"}, {})}
=============================================================================
