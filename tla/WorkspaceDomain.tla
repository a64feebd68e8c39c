-------------------------- MODULE WorkspaceDomain --------------------------
(***************************************************************************)
(* The pure rules of crates/thinws-core: the life cycle of an active       *)
(* Workspace record, and the decision taken on a cleanup request after the *)
(* Git and process evidence has been collected.  Nothing here has state;   *)
(* the metadata store and the use cases call these rules.                  *)
(***************************************************************************)

(* WorkspaceState: the four durable states of an active record. *)
States == {"creating", "ready", "deleting", "error"}

(* RemovalMode: the user's intent, `remove` or `remove --force`. *)
Modes == {"normal", "force"}

(* WorkspaceEvent: Materialized, Failed, BeginRemoval(Normal), BeginRemoval(Force). *)
Events == {"materialized", "failed", "remove_normal", "remove_force"}

(* WorkspaceEvent::BeginRemoval(mode) *)
BeginRemovalEvent(mode) == IF mode = "force" THEN "remove_force" ELSE "remove_normal"

(* The answer of `transition` when the event is not authorized. *)
Rejected == "rejected"

(* Mutant: a Deleting record cannot be removed again. *)
Transition_NoResume(state, event) ==
    CASE event = "materialized" /\ state = "creating"                       -> "ready"
      [] event = "failed" /\ state \in {"creating", "ready", "deleting"}    -> "error"
      [] event \in {"remove_normal", "remove_force"} /\ state = "ready"     -> "deleting"
      [] event = "remove_force" /\ state \in {"creating", "error"}          -> "deleting"
      [] OTHER                                                              -> Rejected

(* WorkspaceState::transition *)
Transition(state, event) ==
    CASE event = "materialized" /\ state = "creating"                       -> "ready"
      [] event = "failed" /\ state \in {"creating", "ready", "deleting"}    -> "error"
      [] event \in {"remove_normal", "remove_force"} /\ state = "ready"     -> "deleting"
      [] event = "remove_force" /\ state \in {"creating", "deleting", "error"} -> "deleting"
      [] OTHER                                                              -> Rejected

(* GitState of one inspection, aggregated over its repositories. *)
GitStates == {"clean", "dirty", "unknown", "not_applicable"}

(* ProcessUse: what the process scan reports about the container. *)
ProcessUses == {"no_evidence", "scan_incomplete", "confirmed_in_use"}

(* RemovalRefusal, or "proceed". *)
Decisions == {"proceed", "confirmed_in_use", "git_check_incomplete", "tracked_changes"}

(* decide_removal: confirmed use binds every mode, Git evidence only the
   normal one, an incomplete process scan is a warning and never a refusal. *)
DecideRemoval(git, use, mode) ==
    CASE use = "confirmed_in_use"                  -> "confirmed_in_use"
      [] use # "confirmed_in_use" /\ mode = "normal" /\ git = "unknown"
                                                   -> "git_check_incomplete"
      [] use # "confirmed_in_use" /\ mode = "normal" /\ git = "dirty"
                                                   -> "tracked_changes"
      [] OTHER                                     -> "proceed"
=============================================================================
