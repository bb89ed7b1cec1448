------------------------- MODULE MCStatusConditions -------------------------
(***************************************************************************)
(* Instances of StatusConditions for TLC.                                  *)
(***************************************************************************)
EXTENDS StatusConditions

MCTypes == {"Creating", "Healthy", "Failed"}
============================================================================
