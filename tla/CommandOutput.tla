---------------------------- MODULE CommandOutput ----------------------------
(***************************************************************************)
(* What the command line prints and returns (cli lib.rs): one document on  *)
(* stdout or stderr and an exit status, for every way a command can end.   *)
(* Names, paths, receipts and issue lists are data that is passed through; *)
(* a document keeps the error code, the closing sentence of an error, the  *)
(* IDs shown, whose path is shown, and whether evidence is beside it.      *)
(***************************************************************************)
EXTENDS WorkspaceLifecycle

Exits == [E_USAGE |-> 2, E_COW_UNAVAILABLE |-> 12, E_NAME_CONFLICT |-> 15,
          E_WORKSPACE_NOT_FOUND |-> 20, E_WORKSPACE_NOT_READY |-> 21, E_WORKSPACE_DIRTY |-> 22,
          E_WORKSPACE_BUSY |-> 23, E_GIT_CHECK_INCOMPLETE |-> 25, E_TARGET_LAYOUT |-> 33,
          E_METADATA |-> 35, E_TARGET_MISSING |-> 37, E_TARGET_IDENTITY |-> 38,
          E_WORKSPACE_INCOMPLETE |-> 40, E_LOCK_TIMEOUT |-> 41, E_TARGET_CONFLICT |-> 42,
          E_TARGET_EXISTS |-> 43]

(* exit_status: a code without an entry, and output that cannot be written, give 31. *)
ExitStatus(code) == IF code \in DOMAIN Exits THEN Exits[code] ELSE 31

(* The codes after which the error text ends in "No files were removed." *)
NothingRemoved == {"E_WORKSPACE_DIRTY", "E_GIT_CHECK_INCOMPLETE", "E_WORKSPACE_BUSY",
                   "E_WORKSPACE_INCOMPLETE"}

(* One document: where it went, the error code, the exit status, the closing
   sentence, and of a success the records, the path and what was measured. *)
Silent == [to |-> "none", code |-> "none", exit |-> 0, nothingRemoved |-> FALSE,
           rows |-> {}, path |-> NoId, git |-> FALSE, space |-> "absent"]

(* render_error: JSON to stdout, text to stderr, only the text has the sentence. *)
RenderError(code, json) ==
    {[Silent EXCEPT !.to = IF json THEN "stdout" ELSE "stderr", !.code = code,
                    !.exit = ExitStatus(code),
                    !.nothingRemoved = ~json /\ code \in NothingRemoved],
     [Silent EXCEPT !.code = code, !.exit = 31]}

(* render_success_human, render_success_json: a reader that has gone makes a
   success end with 31. *)
RenderSuccess(document) == {[document EXCEPT !.to = "stdout"], [Silent EXCEPT !.exit = 31]}

(* list_workspace_json: a listing has not verified any path and shows none. *)
Listing(ids) == [Silent EXCEPT !.rows = ids]

(* workspace_json, status_view: a path only for a record that reads Ready, and
   evidence only where the query has it. *)
Status(id, state, git, space) ==
    [Silent EXCEPT !.rows = {id}, !.path = IF state = "ready" THEN id ELSE NoId,
                   !.git = git, !.space = space]

-----------------------------------------------------------------------------
(* What creations and removals print *)

(* Mutant: any removal of a record that was not Ready is reported as incomplete. *)
CommandErrors_Mutant(p, result) ==
    IF result = "failed" /\ job[p].req.op = "remove" /\ job[p].state \notin {"none", "ready"}
    THEN {"E_WORKSPACE_INCOMPLETE"} ELSE {"E_FILESYSTEM"}

(* What map_port and map_target_port make of a failing step. *)
Failures == {"E_FILESYSTEM", "E_METADATA", "E_TARGET_LAYOUT", "E_TARGET_MISSING",
             "E_TARGET_IDENTITY", "E_COW_UNAVAILABLE"}

(* The codes with which create_impl and remove return each result: a plain
   removal of a record that is not Ready is incomplete, or its target could not
   be located. *)
CommandErrors(p, result) ==
    CASE result = "usage" -> {"E_USAGE"}
      [] result = "not_found" -> {"E_WORKSPACE_NOT_FOUND"}
      [] result = "lock_timeout" -> {"E_LOCK_TIMEOUT"}
      [] result = "name_conflict" -> {"E_NAME_CONFLICT"}
      [] result = "target_conflict" -> {"E_TARGET_CONFLICT", "E_TARGET_EXISTS"}
      [] result = "incomplete" -> {"E_WORKSPACE_INCOMPLETE"}
      [] result = "refused" ->
           IF job[p].req.mode = "force" THEN {"E_WORKSPACE_BUSY"}
           ELSE {"E_WORKSPACE_BUSY", "E_GIT_CHECK_INCOMPLETE", "E_WORKSPACE_DIRTY"}
      [] result = "failed" ->
           IF /\ job[p].req.op = "remove" /\ job[p].req.mode = "normal"
              /\ pc[p] = "log_failed" /\ job[p].state # "ready"
           THEN {"E_WORKSPACE_INCOMPLETE", "E_TARGET_MISSING", "E_TARGET_IDENTITY"}
           ELSE Failures

Successes == {"created", "existing", "removed", "already_removed"}

(* The Workspace a success is about: created or removed, or found by its name. *)
Selected(p) ==
    IF job[p].id # NoId THEN {job[p].id}
    ELSE {id \in Active : workspaces[id].res.name = job[p].req.name}

(* run: the result of the command becomes one document and an exit status. *)
Documents(p, result) ==
    IF result \in Successes
    THEN RenderSuccess(Listing(Selected(p)))
    ELSE UNION {RenderError(code, json) : code \in CommandErrors(p, result), json \in BOOLEAN}

-----------------------------------------------------------------------------
(* "No files were removed." is true: an invocation that may print it never got
   to the Started record that goes before every destructive step, whichever way
   it failed, was refused or was cut short (cli lib.rs:1253). *)
NothingRemovedIsTrue ==
    [][\A p \in Procs :
          outcome'[p] # outcome[p] =>
              \A d \in Documents(p, outcome'[p]) :
                  d.nothingRemoved => \A id \in Ids : <<p, id, "started">> \notin log']_vars
=============================================================================
