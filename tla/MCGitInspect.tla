---------------------------- MODULE MCGitInspect ----------------------------
(***************************************************************************)
(* A copy with nested directories, under limits that are never reached and *)
(* under limits that stop the walk.                                        *)
(***************************************************************************)
EXTENDS GitInspect

MCDirs == {<<>>, <<"a">>, <<"a", "b">>}
MCAmple == [entries |-> 9, repositories |-> 9, depth |-> 9]
MCTight == {[MCAmple EXCEPT !.entries = 3], [MCAmple EXCEPT !.repositories = 1], [MCAmple EXCEPT !.depth = 1]}
=============================================================================
