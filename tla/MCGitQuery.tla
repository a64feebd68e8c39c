----------------------------- MODULE MCGitQuery -----------------------------
(***************************************************************************)
(* One Git subprocess under the polling runner, on a small pipe and clock.  *)
(***************************************************************************)
EXTENDS GitQuery
=============================================================================
