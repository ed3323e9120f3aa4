---------------------------- MODULE MCStatusList ----------------------------
(* StatusList for TLC. *)
EXTENDS StatusList
=============================================================================
