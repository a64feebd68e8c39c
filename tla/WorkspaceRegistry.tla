------------------------- MODULE WorkspaceRegistry -------------------------
(***************************************************************************)
(* What ThinWorkspace promises its user about one Workspace ID, without    *)
(* locks, directories, documents or failures: a life and the data that the *)
(* copy holds.  WorkspaceLifecycle implements this specification.          *)
(*                                                                         *)
(*   - a Workspace is ready only after its copy was whole;                 *)
(*   - the tool takes data away only while the Workspace is being created  *)
(*     (rollback) or removed;                                              *)
(*   - an ID is forgotten only when no data is left, and for good;         *)
(*   - the user may destroy the data at any time.                          *)
(***************************************************************************)
CONSTANT Ids

VARIABLES life, data

\* A life is "unused", "creating", "ready", "failed", "removing" or "gone".
Amounts == {"none", "some", "whole"}     \* or "lost": destroyed by the user

Init == life = [id \in Ids |-> "unused"] /\ data = [id \in Ids |-> "none"]

Become(id, from, to) == life[id] \in from /\ life' = [life EXCEPT ![id] = to]

Begin(id) == Become(id, {"unused"}, "creating") /\ UNCHANGED data

Fill(id) ==
    /\ life[id] = "creating"
    /\ \E amount \in Amounts : data' = [data EXCEPT ![id] = amount]
    /\ UNCHANGED life

Publish(id) == data[id] \in {"whole", "lost"} /\ Become(id, {"creating"}, "ready") /\ UNCHANGED data

GiveUp(id) == Become(id, {"creating", "removing"}, "failed") /\ UNCHANGED data

Retire(id) == Become(id, {"creating", "ready", "failed"}, "removing") /\ UNCHANGED data

Erase(id) ==
    /\ life[id] = "removing" /\ data[id] # "none"
    /\ \E amount \in {"none", "some"} : data' = [data EXCEPT ![id] = amount]
    /\ UNCHANGED life

Forget(id) == data[id] = "none" /\ Become(id, {"removing"}, "gone") /\ UNCHANGED data

UserDestroys(id) ==
    /\ \E amount \in {"none", "lost"} : data' = [data EXCEPT ![id] = amount]
    /\ UNCHANGED life

Next ==
    \E id \in Ids :
        \/ Begin(id) \/ Fill(id) \/ Publish(id) \/ GiveUp(id) \/ Retire(id)
        \/ Erase(id) \/ Forget(id) \/ UserDestroys(id)

Spec == Init /\ [][Next]_<<life, data>>
=============================================================================
