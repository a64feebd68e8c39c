---------------------------- MODULE MCBootstrap ----------------------------
(* Two concurrent inits and a doctor over one control root. *)
EXTENDS Bootstrap
MCProcs == {1, 2, 3}
MCDoctors == {3}
=============================================================================
