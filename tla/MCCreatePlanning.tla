-------------------------- MODULE MCCreatePlanning --------------------------
(***************************************************************************)
(* Every request against every alias, on both platforms, with two changes   *)
(* of the world at any moment.                                              *)
(***************************************************************************)
EXTENDS CreatePlanning
=============================================================================
