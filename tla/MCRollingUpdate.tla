-------------------------- MODULE MCRollingUpdate --------------------------
(***************************************************************************)
(* Instances of RollingUpdate for TLC.                                     *)
(***************************************************************************)
EXTENDS RollingUpdate
============================================================================
