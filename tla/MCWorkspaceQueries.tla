------------------------- MODULE MCWorkspaceQueries -------------------------
(* A reader beside creations and removals that name their target in every way. *)
EXTENDS WorkspaceQueries, TLC

Creates(names, targets, allowed) ==
    [op : {"create"}, name : names, source : Sources, target : targets, volume : Volumes,
     allow : allowed]
RemovesBy(key, names, ids, modes) ==
    [op : {"remove"}, by : {key}, name : names, id : ids, mode : modes]

SelectionRequests ==
    Creates(Names, Targets, {TRUE})
      \cup RemovesBy("id", {NoId}, Ids, {"force"})
      \cup RemovesBy("both", Names, Ids, {"force"})

SelectionSymmetry ==
    Permutations(Procs) \cup Permutations(Ids) \cup Permutations(Names) \cup Permutations(Targets)
=============================================================================
