------------------------ MODULE MCWorkspaceLifecycle ------------------------
(* Bounded instances of WorkspaceLifecycle. *)
EXTENDS CommandOutput, TLC

Creates(names, targets, allowed) ==
    [op : {"create"}, name : names, source : Sources, target : targets, volume : Volumes,
     allow : allowed]
RemovesBy(key, names, ids, modes) ==
    [op : {"remove"}, by : {key}, name : names, id : ids, mode : modes]

(* Creation with and without permission to fall back to a full copy, plain and
   forced removal by name. *)
BasicRequests ==
    Creates(Names, Targets, BOOLEAN) \cup RemovesBy("name", Names, {NoId}, Modes)

(* Every way to name what is to be removed. *)
SelectionRequests ==
    Creates(Names, Targets, {TRUE})
      \cup RemovesBy("id", {NoId}, Ids, {"force"})
      \cup RemovesBy("both", Names, Ids, {"force"})

LifecycleSymmetry == Permutations(Procs) \cup Permutations(Ids) \cup Permutations(UserDirs)
SelectionSymmetry == LifecycleSymmetry \cup Permutations(Names) \cup Permutations(Targets)
=============================================================================
