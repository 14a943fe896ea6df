--------------------------- MODULE MCImaOperator ---------------------------
(* Model-checking instances of ImaOperator; the .cfg files give the sizes. *)
EXTENDS ImaOperator, TLC

\* No action and no property names a handler or an inner map. (Containers
\* and namespaces are symmetric too; using that costs more than it saves.)
OperatorSymmetry == Permutations(Handlers) \union Permutations(MapIds)
=============================================================================
