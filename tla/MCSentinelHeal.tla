--------------------------- MODULE MCSentinelHeal ---------------------------
(***************************************************************************)
(* Instances of SentinelHeal for TLC.                                      *)
(***************************************************************************)
EXTENDS SentinelHeal
=============================================================================
