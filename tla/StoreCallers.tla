---------------------------- MODULE StoreCallers ----------------------------
(***************************************************************************)
(* Callers of the metadata store that act on what they read before.        *)
(*                                                                         *)
(* remove reads the row, inspects Git and the processes, and then calls    *)
(* begin_removal with the state it had read; create and remove call        *)
(* record_failure long after they made their row Creating or Deleting.     *)
(* The use cases hold the lifecycle lock all that time, but the port does  *)
(* not ask for it: it promises to act "only if the expected state is still *)
(* current".  Here nothing orders the callers, and beside them any other   *)
(* call of the store may come at any time.                                 *)
(***************************************************************************)
EXTENDS MetadataStore

CONSTANTS
    Callers,    \* callers that look at a row and call later
    NoView      \* nothing read

VARIABLE view   \* the ID and the state that a caller has read

callerVars == <<workspaces, receipts, tombstones, view>>

View == [id : Ids, state : States]
ASSUME NoViewAssumption == NoView \notin View

CallersInit ==
    /\ StoreInit
    /\ view = [c \in Callers |-> NoView]

(* workspace(id), or the row that reserve_workspace returned. *)
Look(c) ==
    /\ view[c] = NoView
    /\ \E id \in Active :
          view' = [view EXCEPT ![c] = [id |-> id, state |-> workspaces[id].state]]
    /\ UNCHANGED storeVars

(* The one call that a caller makes with what it read.  complete_materialization
   and complete_deletion have their expected state built in.  A call that is
   rejected, or that the caller does not get to make, changes no table. *)
Call(c) ==
    LET id == view[c].id  seen == view[c].state
    IN  /\ view[c] # NoView
        /\ \/ /\ seen = "creating"
              /\ \E plan \in Plan, receipt \in Receipt, now \in Times :
                    complete_materialization(id, plan, receipt, now)
           \/ \E code \in Codes, now \in Times : record_failure(id, seen, code, now)
           \/ \E mode \in Modes, now \in Times : begin_removal(id, seen, mode, now)
           \/ seen = "deleting" /\ complete_deletion(id)
           \/ UNCHANGED storeVars
        /\ view' = [view EXCEPT ![c] = NoView]

CallersNext ==
    \/ StoreNext /\ UNCHANGED view
    \/ \E c \in Callers : Look(c) \/ Call(c)

CallersSpec == CallersInit /\ [][CallersNext]_callerVars

-----------------------------------------------------------------------------
(* A call changes a table only if the row still is in the state that its caller
   read, however many calls of others came in between: record_failure does not
   put Error over a Workspace that meanwhile became Ready, and begin_removal
   does not start the removal of one in a state that nobody inspected.  The row
   may have left that state and come back to it (Deleting, Error, Deleting):
   the port compares states and no versions, so this counts as current. *)
StaleCallsChangeNothing ==
    [][\A c \in Callers :
          (view[c] # NoView /\ view'[c] = NoView /\ storeVars' # storeVars)
             => /\ view[c].id \in Active
                /\ workspaces[view[c].id].state = view[c].state]_callerVars
=============================================================================
