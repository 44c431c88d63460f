------------------------------ MODULE MCRollout ------------------------------
(***************************************************************************)
(* A rollout that may take a role away, for the values of MCOperator.      *)
(***************************************************************************)
EXTENDS Rollout, MCOperator

MCNewLists == {After}
=============================================================================
