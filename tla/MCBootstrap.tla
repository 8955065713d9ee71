---------------------------- MODULE MCBootstrap ----------------------------
(* Instances of Bootstrap for TLC. *)
EXTENDS Bootstrap, TLC

CONSTANTS n1, n2, id, note, setting, method, handler

TwoInstances == {n1, n2}
SystemColumns == {id}
CustomColumns == {note}

\* A method has no unique constraint; a handler has one, and is skipped without
\* its method.
InOrder    == <<setting, method, handler>>
WithUnique == {handler}
References == setting :> {} @@ method :> {} @@ handler :> {method}
=============================================================================
