--------------------------- MODULE MCMaterializer ---------------------------
(* A small source tree for the materializers: a directory with a file in it, and
   a link beside the directory. *)
EXTENDS MacMaterializer

MCTree == <<"d", "f", "l">>
MCParentOf == [e \in Entries |-> IF e = "f" THEN "d" ELSE "root"]
MCKindOf == [e \in Entries |-> CASE e = "d" -> "dir" [] e = "l" -> "link" [] OTHER -> "file"]
=============================================================================
