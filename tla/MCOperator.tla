---------------------------- MODULE MCOperator ------------------------------
(***************************************************************************)
(* One resource, a node with room for three agents.                        *)
(***************************************************************************)
EXTENDS Operator
=============================================================================
