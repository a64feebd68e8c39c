------------------------- MODULE WorkspaceLifecycle -------------------------
(***************************************************************************)
(* `workspace create` and `workspace remove`: invocations of the CLI that  *)
(* run one after the other under the lifecycle lock, against the metadata  *)
(* store, the ownership documents, the removal log and the directories of  *)
(* the target's parent (application create.rs and remove.rs, adapter-linux *)
(* workspace.rs, lock.rs, destroy.rs; the macOS store.rs keeps the same    *)
(* documents, names and order of steps).                                   *)
(*                                                                         *)
(* Every durable effect is a step of its own.  Between two steps           *)
(*   - the invocation may be killed (its lock goes with it, nothing else), *)
(*   - a system call may fail,                                             *)
(*   - the user may create, move, delete or fill directories, because the  *)
(*     lifecycle lock binds only ThinWorkspace itself.                     *)
(* Checks that read the file system and act on a name afterwards are two   *)
(* steps, so the user can act in between.                                  *)
(*                                                                         *)
(* A directory is identified by inode and birth time, so an identity is    *)
(* never reused.  Only the directories created for an ID can be registered *)
(* for it: <<"target", id>>, <<"staging", id>> and <<"trash", id>>.        *)
(***************************************************************************)
EXTENDS MetadataStore, FiniteSets

CONSTANTS
    Procs,          \* CLI invocations
    NoProc,         \* the lifecycle lock is free
    UserDirs,       \* directories a user may make
    NoDir,          \* no directory under a name
    NoId,           \* no Workspace selected, or the key a removal request does not give
    Requests,       \* the requests an invocation may carry
    MaxFaults,      \* bound: failing system calls
    MaxCrashes,     \* bound: killed invocations
    MaxMeddle       \* bound: user actions beside the tool

VARIABLES
    dir,        \* name -> directory identity
    alive,      \* directories that exist, under a name or moved away by the user
    content,    \* directory identity -> what is in it
    own,        \* ownership document of an ID: absent, published, or naming the isolation path
    log,        \* removal log: <<invocation, id, event>>, the lines that can be read
    torn,       \* its file ends in the middle of a line
    lock,       \* holder of lifecycle.lock
    pc,         \* next step of an invocation
    job,        \* what an invocation carries
    outcome,    \* how it ended
    occupied,   \* Workspaces in which a process the scan can read has its cwd or an open file
    faults, meddle

fsVars == <<dir, alive, content, own>>
envVars == <<torn, occupied, faults, meddle>>
vars == <<workspaces, receipts, tombstones, dir, alive, content, own, log, torn, lock,
          pc, job, outcome, occupied, faults, meddle>>

Roles == {"target", "staging", "trash"}
ToolInodes == Roles \X Ids
UserInodes == {"user"} \X UserDirs
Inodes == ToolInodes \cup UserInodes

(* The names the tool uses in the target's parent: the target itself,
   .thinws-staging-<id>, .thinws-trash-<id> and .thinws-remove-<id>. *)
Slots == ({"target"} \X Targets) \cup ({"staging", "trash", "remove"} \X Ids)

Contents == {"empty", "partial", "copy", "foreign"}

CreateRequest == [op : {"create"}, name : Names, source : Sources, target : Targets,
                  volume : Volumes, allow : BOOLEAN]
RemoveRequest == [op : {"remove"}, by : {"name", "id", "both"}, name : Names \cup {NoId},
                  id : Ids \cup {NoId}, mode : Modes]

ASSUME RequestsAssumption == Requests \subseteq CreateRequest \cup RemoveRequest
ASSUME BoundsAssumption == MaxFaults \in Nat /\ MaxCrashes \in Nat /\ MaxMeddle \in Nat
ASSUME NoProcAssumption == NoProc \notin Procs
ASSUME NoDirAssumption == NoDir \notin Inodes
ASSUME NoIdAssumption == NoId \notin Ids \cup CreateRequest \cup RemoveRequest

(* Where locate_target may find the target of a removal. *)
Places == {"active", "isolated", "missing", "invalid", "unproven"}

(* What an invocation carries: its request and clock reading, the ID and state
   it read, the place it found the target at, and the plan's mode. *)
Job == [req : Requests \cup {NoId}, now : Times \cup {0}, id : Ids \cup {NoId},
        state : States \cup {"none"}, at : Places \cup {"none"},
        kind : ReceiptKinds \cup {"none"}]

NoJob == [req |-> NoId, now |-> 0, id |-> NoId, state |-> "none", at |-> "none", kind |-> "none"]

Init ==
    /\ StoreInit
    /\ dir = [s \in Slots |-> NoDir]
    /\ alive = {}
    /\ content = [i \in Inodes |-> "empty"]
    /\ own = [id \in Ids |-> "absent"]
    /\ log = {} /\ torn = FALSE
    /\ lock = NoProc
    /\ pc = [p \in Procs |-> "idle"]
    /\ job = [p \in Procs |-> NoJob]
    /\ outcome = [p \in Procs |-> "none"]
    /\ occupied = {}
    /\ faults = 0 /\ meddle = 0

-----------------------------------------------------------------------------
(* Evidence about the directories of one Workspace *)

RegisteredSlot(id) == <<"target", workspaces[id].res.target>>

(* LinuxPreparedWorkspace::revalidate *)
PreparedIntact(id) ==
    /\ own[id] = "published"
    /\ dir[RegisteredSlot(id)] = <<"target", id>>
    /\ dir[<<"staging", id>>] = <<"staging", id>>
    /\ dir[<<"trash", id>>] = <<"trash", id>>

(* validate_ready_workspace *)
ReadyValid(id) ==
    /\ own[id] = "published"
    /\ dir[RegisteredSlot(id)] = <<"target", id>>
    /\ dir[<<"staging", id>>] = NoDir
    /\ dir[<<"trash", id>>] = NoDir

(* Mutant: a recorded isolation path is believed to mean that the target moved. *)
Locate_Moved(id) ==
    LET active == dir[RegisteredSlot(id)]
        isolated == dir[<<"remove", id>>]
    IN  CASE own[id] = "absent" -> "unproven"
          [] own[id] # "absent" /\ active = NoDir /\ isolated = NoDir -> "missing"
          [] own[id] = "published" /\ active = <<"target", id>> /\ isolated = NoDir -> "active"
          [] own[id] = "isolated" /\ active = NoDir /\ isolated = <<"target", id>> -> "isolated"
          [] OTHER -> "invalid"

(* registered_target and locate_target: where the proven target is. *)
Locate(id) ==
    LET active == dir[RegisteredSlot(id)]
        isolated == dir[<<"remove", id>>]
    IN  CASE own[id] = "absent" -> "unproven"
          [] own[id] # "absent" /\ active = NoDir /\ isolated = NoDir -> "missing"
          [] own[id] # "absent" /\ active = <<"target", id>> /\ isolated = NoDir -> "active"
          [] own[id] = "isolated" /\ active = NoDir /\ isolated = <<"target", id>> -> "isolated"
          [] OTHER -> "invalid"

(* Mutant: the directory is removed with what is in it. *)
CanRmdir_Recursive(slot) == dir[slot] # NoDir

(* unlinkat(REMOVEDIR): removes whatever empty directory has the name. *)
CanRmdir(slot) == dir[slot] # NoDir /\ content[dir[slot]] = "empty"

Rmdir(slot) ==
    /\ dir' = [dir EXCEPT ![slot] = NoDir]
    /\ alive' = alive \ {dir[slot]}
    /\ UNCHANGED <<content, own>>

-----------------------------------------------------------------------------
(* Control of an invocation *)

Go(p, label) ==
    /\ pc' = [pc EXCEPT ![p] = label]
    /\ UNCHANGED <<job, outcome, lock>>

Select(p, label, selected) ==
    /\ pc' = [pc EXCEPT ![p] = label]
    /\ job' = [job EXCEPT ![p] = selected]
    /\ UNCHANGED <<outcome, lock>>

(* Returning drops the lock guard and everything the invocation held. *)
Finish(p, result) ==
    /\ pc' = [pc EXCEPT ![p] = "done"]
    /\ outcome' = [outcome EXCEPT ![p] = result]
    /\ lock' = IF lock = p THEN NoProc ELSE lock
    /\ job' = [job EXCEPT ![p] = NoJob]

Start(p) ==
    /\ pc[p] = "idle"
    /\ \E r \in Requests, now \in Times :
          Select(p, "waiting", [NoJob EXCEPT !.req = r, !.now = now])
    /\ UNCHANGED <<storeVars, fsVars, log, envVars>>

(* Mutant: the lock is not waited for. *)
AcquireLock_NoWait(p) ==
    /\ pc[p] = "waiting"
    /\ lock' = p
    /\ pc' = [pc EXCEPT ![p] = IF job[p].req.op = "create" THEN "lookup" ELSE "find"]
    /\ UNCHANGED <<storeVars, fsVars, log, job, outcome, envVars>>

(* acquire: flock is retried every 5 ms until it succeeds or the timeout. *)
AcquireLock(p) ==
    /\ pc[p] = "waiting" /\ lock = NoProc
    /\ lock' = p
    /\ pc' = [pc EXCEPT ![p] = IF job[p].req.op = "create" THEN "lookup" ELSE "find"]
    /\ UNCHANGED <<storeVars, fsVars, log, job, outcome, envVars>>

LockTimeout(p) ==
    /\ pc[p] = "waiting" /\ lock # NoProc
    /\ Finish(p, "lock_timeout")
    /\ UNCHANGED <<storeVars, fsVars, log, envVars>>

-----------------------------------------------------------------------------
(* Error paths *)

CreateSteps == {"mk_target", "mk_staging", "mk_trash", "publish", "materialize", "copying",
                "fallback", "clear", "rmdir_staging", "clear_trash", "rmdir_trash", "complete"}
RemoveSteps == {"rm_enter", "rm_staging", "rm_verify_staging", "rm_rmdir_staging",
                "rm_trash", "rm_verify_trash", "rm_rmdir_trash", "persist", "isolate", "rename",
                "moved", "erase", "erase_rest", "rm_verify", "rm_rmdir", "confirm"}
LogSteps == {"log_failed", "log_refused", "log_started", "log_completed",
             "absent_started", "absent_completed"}
Labels == {"idle", "waiting", "lookup", "reserve", "record_failure", "find", "preflight",
           "begin", "rm_failed", "complete_deletion", "done", "crashed"}
            \cup CreateSteps \cup RemoveSteps \cup LogSteps
LogEvents == {"started", "refused", "failed", "completed"}

(* Between taking the lifecycle lock and returning. *)
Critical == Labels \ {"idle", "waiting", "done", "crashed"}

(* Mutant: a failed removal is tried again instead of recorded. *)
Handler_Retry(label) ==
    CASE label \in CreateSteps                          -> "record_failure"
      [] label \in RemoveSteps                          -> "rm_enter"
      [] label \in {"preflight", "begin", "rm_failed", "complete_deletion"} -> "log_failed"
      [] OTHER                                          -> "stop"

(* Where the `?` of each step leads: the handler of the enclosing function.
   "stop" returns to the user with nothing further recorded. *)
Handler(label) ==
    CASE label \in CreateSteps                          -> "record_failure"
      [] label \in RemoveSteps                          -> "rm_failed"
      [] label \in {"preflight", "begin", "rm_failed", "complete_deletion"} -> "log_failed"
      [] OTHER                                          -> "stop"

Fail(p) ==
    LET handler == Handler(pc[p])
    IN  IF handler = "stop" THEN Finish(p, "failed") ELSE Go(p, handler)

(* Mutant: the record goes right behind whatever the file ends with. *)
Append_Joined(p, event) ==
    log' = (IF torn THEN log ELSE log \cup {<<p, job[p].id, event>>}) /\ torn' = FALSE

(* One write_all: a newline first if the file does not end with one, so that a
   torn line costs no other record. *)
Append(p, event) == log' = log \cup {<<p, job[p].id, event>>} /\ torn' = FALSE

LogEventAt ==
    [log_failed |-> "failed", log_refused |-> "refused", log_started |-> "started",
     log_completed |-> "completed", absent_started |-> "started", absent_completed |-> "completed"]

(* A kill or a failing write, sync or check in the middle of an append: the record
   is not there, torn, or there; in any other step the log is left alone. *)
CutAppend(p) ==
    \/ pc[p] \notin LogSteps /\ UNCHANGED <<log, torn>>
    \/ pc[p] \in LogSteps /\ torn' \in BOOLEAN /\ UNCHANGED log
    \/ pc[p] \in LogSteps /\ Append(p, LogEventAt[pc[p]])

(* A log record that cannot be appended, a row that cannot be read or written,
   a directory call that fails: `?` is taken, and no other step has an effect. *)
Fault(p) ==
    /\ faults < MaxFaults
    /\ lock = p
    /\ faults' = faults + 1
    /\ Fail(p) /\ CutAppend(p)
    /\ UNCHANGED <<storeVars, fsVars, occupied, meddle>>

(* What each step finds, and requires, before its own effect. *)
Evidence(p) ==
    LET id == job[p].id
        target == <<"target", id>>  staging == <<"staging", id>>  trash == <<"trash", id>>
        slot == RegisteredSlot(id)
        scope == Locate(id) = job[p].at
    IN  CASE pc[p] = "mk_target" ->
               /\ own[id] = "absent"
               /\ dir[slot] = NoDir /\ dir[staging] = NoDir /\ dir[trash] = NoDir
          [] pc[p] = "mk_staging" -> dir[staging] = NoDir
          [] pc[p] = "mk_trash" -> dir[trash] = NoDir
          [] pc[p] = "materialize" ->
               PreparedIntact(id) /\ content[target] = "empty" /\ content[staging] = "empty"
          [] pc[p] = "copying" ->
               PreparedIntact(id) /\ (job[p].kind = "copy" => content[trash] # "foreign")
          [] pc[p] = "fallback" ->
               /\ job[p].req.allow
               /\ PreparedIntact(id)
               /\ content[target] = "empty" /\ content[staging] = "empty"
          [] pc[p] = "clear" ->
               PreparedIntact(id) /\ content[staging] = "empty" /\ content[trash] = "empty"
          [] pc[p] = "rmdir_staging" -> CanRmdir(staging)
          [] pc[p] = "clear_trash" -> dir[trash] = trash /\ content[trash] = "empty"
          [] pc[p] = "rmdir_trash" -> CanRmdir(trash)
          [] pc[p] = "complete" -> dir[slot] = target
          [] pc[p] = "rm_enter" -> Locate(id) \in {"active", "isolated"}
          [] pc[p] = "rm_staging" -> dir[staging] = NoDir \/ (dir[staging] = staging /\ scope)
          [] pc[p] = "rm_verify_staging" ->
               dir[staging] = staging /\ scope /\ content[staging] = "empty"
          [] pc[p] = "rm_rmdir_staging" -> CanRmdir(staging)
          [] pc[p] = "rm_trash" -> dir[trash] = NoDir \/ (dir[trash] = trash /\ scope)
          [] pc[p] = "rm_verify_trash" -> dir[trash] = trash /\ scope /\ content[trash] = "empty"
          [] pc[p] = "rm_rmdir_trash" -> CanRmdir(trash)
          [] pc[p] \in {"isolate", "erase", "erase_rest"} -> scope
          [] pc[p] = "rm_verify" -> scope /\ content[target] = "empty"
          [] pc[p] = "rename" -> dir[slot] # NoDir /\ dir[<<"remove", id>>] = NoDir
          [] pc[p] = "moved" -> dir[<<"remove", id>>] = target
          [] pc[p] = "rm_rmdir" -> CanRmdir(<<"remove", id>>)
          [] pc[p] = "confirm" -> own[id] = "isolated" /\ Locate(id) = "missing"
          [] OTHER -> TRUE

Checked == {"mk_target", "mk_staging", "mk_trash", "materialize", "fallback", "clear",
            "rmdir_staging", "clear_trash", "rmdir_trash", "complete"} \cup (RemoveSteps \ {"persist"})

(* A clone, unlike a full copy, also wants to find trash empty. *)
CloneRefused(p) == pc[p] = "materialize" /\ content[<<"trash", job[p].id>>] # "empty"

(* The check of a step fails, and nothing is touched. *)
CheckFails(p) ==
    /\ pc[p] \in Checked
    /\ ~Evidence(p) \/ CloneRefused(p)
    /\ Fail(p)
    /\ UNCHANGED <<storeVars, fsVars, log, envVars>>

Passes(p, label) == pc[p] = label /\ Evidence(p)
-----------------------------------------------------------------------------
(* workspace create *)

(* create_impl up to the reservation: an existing name answers the request, an
   overlapping target or an occupied path refuses it, otherwise a new ID is drawn. *)
Lookup(p) ==
    LET req == job[p].req
        named == {id \in Active : workspaces[id].res.name = req.name}
        sameInputs(res) == /\ res.source = req.source /\ res.target = req.target
                           /\ res.allow = req.allow
    IN  /\ pc[p] = "lookup"
        /\ \/ \E id \in named :
                Finish(p, CASE ~sameInputs(workspaces[id].res) -> "name_conflict"
                            [] sameInputs(workspaces[id].res) /\ workspaces[id].state # "ready"
                                 -> "incomplete"
                            [] sameInputs(workspaces[id].res) /\ workspaces[id].state = "ready"
                                 /\ ReadyValid(id) /\ receipts[id] # NoReceipt -> "existing"
                            [] OTHER -> "failed")
           \/ /\ named = {}
              /\ \/ \E id \in Active : workspaces[id].res.target = req.target
                 \/ dir[<<"target", req.target>>] # NoDir
              /\ Finish(p, "target_conflict")
           \/ /\ named = {}
              /\ \A id \in Active : workspaces[id].res.target # req.target
              /\ dir[<<"target", req.target>>] = NoDir
              /\ \E id \in Ids \ (Active \cup tombstones) :
                    Select(p, "reserve", [job[p] EXCEPT !.id = id])
        /\ UNCHANGED <<storeVars, fsVars, log, envVars>>

Reserve(p) ==
    LET req == job[p].req
        res == [name |-> req.name, source |-> req.source, target |-> req.target,
                sourceVolume |-> req.volume, targetVolume |-> req.volume,
                allow |-> req.allow, created |-> job[p].now]
    IN  /\ pc[p] = "reserve"
        /\ reserve_workspace(job[p].id, res)
        /\ Go(p, "mk_target")
        /\ UNCHANGED <<fsVars, log, envVars>>

(* create_child: a private temporary directory published with NOREPLACE. *)
MakeDir(p, label, slot, inode, next) ==
    /\ Passes(p, label)
    /\ dir' = [dir EXCEPT ![slot] = inode]
    /\ alive' = alive \cup {inode}
    /\ Go(p, next)
    /\ UNCHANGED <<storeVars, content, own, log, envVars>>

(* prepare_workspace: three directories, then the ownership document. *)
Prepare(p) ==
    LET id == job[p].id
    IN  \/ MakeDir(p, "mk_target", RegisteredSlot(id), <<"target", id>>, "mk_staging")
        \/ MakeDir(p, "mk_staging", <<"staging", id>>, <<"staging", id>>, "mk_trash")
        \/ MakeDir(p, "mk_trash", <<"trash", id>>, <<"trash", id>>, "publish")

PublishOwnership(p) ==
    /\ pc[p] = "publish"
    /\ own' = [own EXCEPT ![job[p].id] = "published"]
    /\ Go(p, "materialize")
    /\ UNCHANGED <<storeVars, dir, alive, content, log, envVars>>

SetContent(id, target, staging, trash) ==
    /\ content' = [content EXCEPT ![<<"target", id>>] = target, ![<<"staging", id>>] = staging,
                                  ![<<"trash", id>>] = trash]
    /\ UNCHANGED <<dir, alive, own>>

(* select_plan and the start of a materializer: it writes through the
   descriptors it has bound to the three directories. *)
Materialize(p, kind) ==
    /\ Passes(p, "materialize")
    /\ kind = "copy" => job[p].req.allow
    /\ kind = "cow" => ~CloneRefused(p)
    /\ SetContent(job[p].id, "partial", "partial", content[<<"trash", job[p].id>>])
    /\ Select(p, "copying", [job[p] EXCEPT !.kind = kind])
    /\ UNCHANGED <<storeVars, log, envVars>>

(* The manifests agree, the bound paths are the ones opened, and a full copy
   has emptied the quarantine of the clone that preceded it. *)
Materialized(p) ==
    LET id == job[p].id
    IN  /\ Passes(p, "copying")
        /\ SetContent(id, "copy", "empty",
                      IF job[p].kind = "copy" THEN "empty" ELSE content[<<"trash", id>>])
        /\ Go(p, "clear")
        /\ UNCHANGED <<storeVars, log, envVars>>

(* rollback_created moves what was created into trash, beside what is there. *)
Quarantined(id) ==
    IF content[<<"trash", id>>] = "foreign" THEN {"foreign"}
                                            ELSE {content[<<"trash", id>>], "partial"}

(* The clone call is unsupported and rollback restored the baseline. *)
CowUnavailable(p) ==
    /\ pc[p] = "copying" /\ job[p].kind = "cow"
    /\ \E trash \in Quarantined(job[p].id) : SetContent(job[p].id, "empty", "empty", trash)
    /\ Go(p, "fallback")
    /\ UNCHANGED <<storeVars, log, envVars>>

(* Mutant: the error of a materializer is dropped. *)
MaterializeFails_Ignored(p) ==
    /\ pc[p] = "copying"
    /\ \/ ~Evidence(p) /\ UNCHANGED faults
       \/ Evidence(p) /\ faults < MaxFaults /\ faults' = faults + 1
    /\ \E target, staging \in {"empty", "partial"}, trash \in Quarantined(job[p].id) :
          SetContent(job[p].id, target, staging, trash)
    /\ Go(p, "clear")
    /\ UNCHANGED <<storeVars, log, torn, occupied, meddle>>

(* Any other failure; its rollback may be complete or not. *)
MaterializeFails(p) ==
    /\ pc[p] = "copying"
    /\ \/ ~Evidence(p) /\ UNCHANGED faults
       \/ Evidence(p) /\ faults < MaxFaults /\ faults' = faults + 1
    /\ \E target, staging \in {"empty", "partial"}, trash \in Quarantined(job[p].id) :
          SetContent(job[p].id, target, staging, trash)
    /\ Go(p, "record_failure")
    /\ UNCHANGED <<storeVars, log, torn, occupied, meddle>>

(* for_full_copy_after_cow_unavailable; the copy leaves trash alone until it
   is verified. *)
Fallback(p) ==
    LET id == job[p].id
    IN  /\ Passes(p, "fallback")
        /\ SetContent(id, "partial", "partial", content[<<"trash", id>>])
        /\ Select(p, "copying", [job[p] EXCEPT !.kind = "copy"])
        /\ UNCHANGED <<storeVars, log, envVars>>

(* clear_workspace_incomplete: both directories are checked before either is
   removed, and each again right before its own rmdir. *)
ClearIncomplete(p) ==
    LET id == job[p].id
    IN  \/ /\ \/ Passes(p, "clear") /\ Go(p, "rmdir_staging")
              \/ Passes(p, "clear_trash") /\ Go(p, "rmdir_trash")
           /\ UNCHANGED <<storeVars, fsVars, log, envVars>>
        \/ /\ \/ Passes(p, "rmdir_staging") /\ Rmdir(<<"staging", id>>) /\ Go(p, "clear_trash")
              \/ Passes(p, "rmdir_trash") /\ Rmdir(<<"trash", id>>) /\ Go(p, "complete")
           /\ UNCHANGED <<storeVars, log, envVars>>

Complete(p) ==
    LET id == job[p].id
        plan == [source |-> job[p].req.source, target |-> job[p].req.target,
                 sourceVolume |-> job[p].req.volume, targetVolume |-> job[p].req.volume,
                 kind |-> job[p].kind]
        receipt == [kind |-> job[p].kind, succeeded |-> TRUE, sameManifest |-> TRUE]
    IN  /\ Passes(p, "complete")
        /\ complete_materialization(id, plan, receipt, job[p].now)
        /\ Finish(p, "created")
        /\ UNCHANGED <<fsVars, log, envVars>>

(* The failure handler of create_impl. *)
RecordCreateFailure(p) ==
    /\ pc[p] = "record_failure"
    /\ \E code \in Codes : record_failure(job[p].id, "creating", code, job[p].now)
    /\ Finish(p, "failed")
    /\ UNCHANGED <<fsVars, log, envVars>>

CreateStep(p) ==
    \/ Lookup(p) \/ Reserve(p) \/ Prepare(p) \/ PublishOwnership(p)
    \/ \E kind \in ReceiptKinds : Materialize(p, kind)
    \/ Materialized(p) \/ CowUnavailable(p) \/ MaterializeFails(p) \/ Fallback(p)
    \/ ClearIncomplete(p) \/ Complete(p) \/ RecordCreateFailure(p)
-----------------------------------------------------------------------------
(* workspace remove *)

(* Mutant: an ID is preferred to a name. *)
Find_PrefersId(p) ==
    LET req == job[p].req
        named == {id \in Active : req.by # "id" /\ workspaces[id].res.name = req.name}
        identified == {id \in Active : req.by # "name" /\ id = req.id}
        selected == IF identified # {} THEN identified ELSE named
    IN  /\ pc[p] = "find"
        /\ \/ \E id \in selected :
                 Select(p, "preflight", [job[p] EXCEPT !.id = id, !.state = workspaces[id].state])
           \/ selected = {} /\ Finish(p, "not_found")
        /\ UNCHANGED <<storeVars, fsVars, log, envVars>>

(* RemoveTarget: by name, by ID, or a word that may be either. *)
Find(p) ==
    LET req == job[p].req
        named == {id \in Active : req.by # "id" /\ workspaces[id].res.name = req.name}
        identified == {id \in Active : req.by # "name" /\ id = req.id}
        old == req.by # "name" /\ req.id \in tombstones
    IN  /\ pc[p] = "find"
        /\ \/ /\ named # {} /\ (old \/ (identified # {} /\ identified # named))
              /\ Finish(p, "usage")
           \/ /\ ~(named # {} /\ (old \/ (identified # {} /\ identified # named)))
              /\ \/ \E id \in named \cup identified :
                       Select(p, "preflight",
                              [job[p] EXCEPT !.id = id, !.state = workspaces[id].state])
                 \/ /\ named \cup identified = {} /\ old
                    /\ Select(p, "absent_started", [job[p] EXCEPT !.id = req.id])
                 \/ /\ named \cup identified = {} /\ ~old
                    /\ Finish(p, "not_found")
        /\ UNCHANGED <<storeVars, fsVars, log, envVars>>

(* The process scan reports a use it can read (that is what `occupied` holds)
   before it reports that it could not read everything. *)
ProcessScan(id) ==
    IF id \in occupied THEN {"confirmed_in_use"} ELSE {"no_evidence", "scan_incomplete"}

GitInspection(state, mode) ==
    IF state = "ready" /\ mode = "normal" THEN GitStates ELSE {"unknown"}

(* Mutant: Started is not logged before begin_removal. *)
Preflight_Unlogged(p) ==
    LET id == job[p].id  state == job[p].state  mode == job[p].req.mode
    IN  /\ pc[p] = "preflight"
        /\ Locate(id) \in {"active", "isolated"} /\ (state = "ready" \/ mode = "force")
        /\ \E git \in GitInspection(state, mode), use \in ProcessScan(id) :
              Go(p, IF DecideRemoval(git, use, mode) = "proceed" THEN "begin" ELSE "log_refused")
        /\ UNCHANGED <<storeVars, fsVars, log, envVars>>

(* The target must be where the ownership document proves it to be, a Ready one
   must pass the Ready validation, then the protections decide. *)
Preflight(p) ==
    LET id == job[p].id  state == job[p].state  mode == job[p].req.mode
        located == /\ Locate(id) \in {"active", "isolated"}
                   /\ state = "ready" /\ mode = "normal" => ReadyValid(id)
    IN  /\ pc[p] = "preflight"
        /\ \/ /\ ~located \/ (state # "ready" /\ mode = "normal")
              /\ Go(p, "log_failed")
           \/ /\ located /\ (state = "ready" \/ mode = "force")
              /\ \E git \in GitInspection(state, mode), use \in ProcessScan(id) :
                    Go(p, IF DecideRemoval(git, use, mode) = "proceed"
                            THEN "log_started" ELSE "log_refused")
        /\ UNCHANGED <<storeVars, fsVars, log, envVars>>

(* Mutant: the removal starts without marking the record Deleting. *)
AppendLog_NotMarked(p) ==
    /\ \/ pc[p] = "log_started" /\ Append(p, "started") /\ Go(p, "rm_enter")
       \/ pc[p] \in LogSteps \ {"log_started"} /\ Finish(p, "failed") /\ UNCHANGED <<log, torn>>
    /\ UNCHANGED <<storeVars, fsVars, occupied, faults, meddle>>

(* append_removal_log, at each place it is called from. *)
AppendLog(p) ==
    /\ \/ pc[p] = "log_started" /\ Append(p, "started") /\ Go(p, "begin")
       \/ pc[p] = "log_refused" /\ Append(p, "refused") /\ Finish(p, "refused")
       \/ pc[p] = "log_failed" /\ Append(p, "failed") /\ Finish(p, "failed")
       \/ pc[p] = "log_completed" /\ Append(p, "completed") /\ Finish(p, "removed")
       \/ pc[p] = "absent_started" /\ Append(p, "started") /\ Go(p, "absent_completed")
       \/ pc[p] = "absent_completed" /\ Append(p, "completed") /\ Finish(p, "already_removed")
    /\ UNCHANGED <<storeVars, fsVars, occupied, faults, meddle>>

(* begin_removal on the state that was read before the checks. *)
BeginRemoval(p) ==
    LET id == job[p].id  mode == job[p].req.mode
    IN  /\ pc[p] = "begin"
        /\ \/ begin_removal(id, job[p].state, mode, job[p].now) /\ Go(p, "rm_enter")
           \/ /\ RemovalOutcome(id, job[p].state, mode, job[p].now) # "ok"
              /\ Fail(p)
              /\ UNCHANGED storeVars
        /\ UNCHANGED <<fsVars, log, envVars>>

(* Mutant: a target that is not found counts as already removed. *)
EnterRemoval_MissingIsGone(p) ==
    /\ pc[p] = "rm_enter"
    /\ \/ /\ Locate(job[p].id) \in {"active", "isolated"}
          /\ Select(p, "rm_staging", [job[p] EXCEPT !.at = Locate(job[p].id)])
       \/ Locate(job[p].id) = "missing" /\ Go(p, "complete_deletion")
    /\ UNCHANGED <<storeVars, fsVars, log, envVars>>

(* remove_workspace: where is the target now? *)
EnterRemoval(p) ==
    /\ Passes(p, "rm_enter")
    /\ Select(p, "rm_staging", [job[p] EXCEPT !.at = Locate(job[p].id)])
    /\ UNCHANGED <<storeVars, fsVars, log, envVars>>

Erase(inode, left) ==
    /\ content' = [content EXCEPT ![inode] = left]
    /\ UNCHANGED <<dir, alive, own>>

(* remove_operation_directory for staging, then for trash: its contents, a look
   at what is left, then rmdir by name. *)
RemoveOperationDirectory(p, kind, erase, verify, rmdir, next) ==
    LET slot == <<kind, job[p].id>>
    IN  \/ /\ Passes(p, erase)
           /\ \/ dir[slot] = NoDir /\ Go(p, next) /\ UNCHANGED fsVars
              \/ dir[slot] # NoDir /\ Erase(slot, "empty") /\ Go(p, verify)
           /\ UNCHANGED <<storeVars, log, envVars>>
        \/ /\ Passes(p, verify)
           /\ Go(p, rmdir)
           /\ UNCHANGED <<storeVars, fsVars, log, envVars>>
        \/ /\ Passes(p, rmdir)
           /\ Rmdir(slot)
           /\ Go(p, next)
           /\ UNCHANGED <<storeVars, log, envVars>>

RemoveStaging(p) ==
    RemoveOperationDirectory(p, "staging", "rm_staging", "rm_verify_staging", "rm_rmdir_staging",
                             "rm_trash")

RemoveTrash(p) ==
    RemoveOperationDirectory(p, "trash", "rm_trash", "rm_verify_trash", "rm_rmdir_trash", "persist")

(* Mutant: the target is isolated before the isolation path is on record. *)
PersistIsolation_Late(p) ==
    /\ pc[p] = "persist"
    /\ Go(p, IF job[p].at = "isolated" THEN "erase" ELSE "isolate")
    /\ UNCHANGED <<storeVars, fsVars, log, envVars>>

(* persist_workspace_ownership: the isolation path is on record before the
   target moves there; a resumed removal finds it recorded. *)
PersistIsolation(p) ==
    LET id == job[p].id
    IN  /\ pc[p] = "persist"
        /\ \/ job[p].at = "isolated" /\ Go(p, "erase") /\ UNCHANGED own
           \/ job[p].at = "active" /\ Go(p, "isolate") /\ own' = [own EXCEPT ![id] = "isolated"]
        /\ UNCHANGED <<storeVars, dir, alive, content, log, envVars>>

(* verify_selected_target, then renameat by name, then the moved directory is
   opened and compared. *)
Isolate(p) ==
    LET id == job[p].id  slot == RegisteredSlot(id)
    IN  \/ /\ Passes(p, "isolate")
           /\ Go(p, "rename")
           /\ UNCHANGED <<storeVars, fsVars, log, envVars>>
        \/ /\ Passes(p, "rename")
           /\ dir' = [dir EXCEPT ![<<"remove", id>>] = dir[slot], ![slot] = NoDir]
           /\ Go(p, "moved")
           /\ UNCHANGED <<storeVars, alive, content, own, log, envVars>>
        \/ /\ Passes(p, "moved")
           /\ Select(p, "erase", [job[p] EXCEPT !.at = "isolated"])
           /\ UNCHANGED <<storeVars, fsVars, log, envVars>>

(* remove_root_contents, each entry after its own verification, then rmdir. *)
EraseTarget(p) ==
    LET id == job[p].id
        some == IF content[<<"target", id>>] = "copy" THEN "partial" ELSE content[<<"target", id>>]
    IN  /\ \/ Passes(p, "erase") /\ Erase(<<"target", id>>, some) /\ Go(p, "erase_rest")
           \/ Passes(p, "erase_rest") /\ Erase(<<"target", id>>, "empty") /\ Go(p, "rm_verify")
           \/ Passes(p, "rm_verify") /\ Go(p, "rm_rmdir") /\ UNCHANGED fsVars
           \/ Passes(p, "rm_rmdir") /\ Rmdir(<<"remove", id>>) /\ Go(p, "confirm")
        /\ UNCHANGED <<storeVars, log, envVars>>

(* Both names are absent, in remove_workspace and again in the use case. *)
ConfirmAbsent(p) ==
    /\ Passes(p, "confirm")
    /\ Go(p, "complete_deletion")
    /\ UNCHANGED <<storeVars, fsVars, log, envVars>>

CompleteDeletion(p) ==
    /\ pc[p] = "complete_deletion"
    /\ complete_deletion(job[p].id)
    /\ Go(p, "log_completed")
    /\ UNCHANGED <<fsVars, log, envVars>>

(* A failed removal becomes Error, or stays Deleting when that cannot be stored. *)
RecordRemoveFailure(p) ==
    LET id == job[p].id
    IN  /\ pc[p] = "rm_failed"
        /\ \E code \in Codes :
              \/ record_failure(id, "deleting", code, job[p].now)
              \/ /\ FailureOutcome(id, "deleting", code, job[p].now) # "ok"
                 /\ UNCHANGED storeVars
        /\ Go(p, "log_failed")
        /\ UNCHANGED <<fsVars, log, envVars>>

RemoveStep(p) ==
    \/ Find(p) \/ Preflight(p) \/ AppendLog(p) \/ BeginRemoval(p) \/ EnterRemoval(p)
    \/ RemoveStaging(p) \/ RemoveTrash(p)
    \/ PersistIsolation(p) \/ Isolate(p) \/ EraseTarget(p) \/ ConfirmAbsent(p)
    \/ CompleteDeletion(p) \/ RecordRemoveFailure(p)
-----------------------------------------------------------------------------
(* What the tool does not control *)

(* Killed between two steps: the kernel releases the flock. *)
Crash(p) ==
    /\ lock = p
    /\ Cardinality({q \in Procs : pc[q] = "crashed"}) < MaxCrashes
    /\ pc' = [pc EXCEPT ![p] = "crashed"]
    /\ lock' = NoProc
    /\ job' = [job EXCEPT ![p] = NoJob]
    /\ CutAppend(p)
    /\ UNCHANGED <<storeVars, fsVars, outcome, occupied, faults, meddle>>

Unnamed == alive \ {dir[s] : s \in Slots}

(* A user acts on the same directories without the lifecycle lock. *)
UserMkdir(slot, i) ==
    /\ dir[slot] = NoDir /\ i \in UserInodes \ alive
    /\ dir' = [dir EXCEPT ![slot] = i]
    /\ alive' = alive \cup {i}
    /\ UNCHANGED <<content, occupied>>

UserDelete(slot) ==
    /\ dir[slot] # NoDir
    /\ dir' = [dir EXCEPT ![slot] = NoDir]
    /\ alive' = alive \ {dir[slot]}
    /\ content' = [content EXCEPT ![dir[slot]] = "empty"]
    /\ UNCHANGED occupied

UserMoveAway(slot) ==
    /\ dir[slot] # NoDir
    /\ dir' = [dir EXCEPT ![slot] = NoDir]
    /\ UNCHANGED <<alive, content, occupied>>

UserMoveBack(slot, i) ==
    /\ dir[slot] = NoDir /\ i \in Unnamed
    /\ dir' = [dir EXCEPT ![slot] = i]
    /\ UNCHANGED <<alive, content, occupied>>

UserWrite(i) ==
    /\ i \in alive /\ content[i] = "empty"
    /\ content' = [content EXCEPT ![i] = "foreign"]
    /\ UNCHANGED <<dir, alive, occupied>>

(* Some process enters a Workspace directory, or leaves it. *)
Occupy(id) ==
    /\ <<"target", id>> \in alive
    /\ occupied' = IF id \in occupied THEN occupied \ {id} ELSE occupied \cup {id}
    /\ UNCHANGED <<dir, alive, content>>

User ==
    /\ meddle < MaxMeddle
    /\ meddle' = meddle + 1
    /\ \/ \E slot \in Slots :
             \/ \E i \in UserInodes : UserMkdir(slot, i)
             \/ \E i \in Inodes : UserMoveBack(slot, i)
             \/ UserDelete(slot)
             \/ UserMoveAway(slot)
       \/ \E i \in Inodes : UserWrite(i)
       \/ \E id \in Ids : Occupy(id)
    /\ UNCHANGED <<storeVars, own, log, torn, lock, pc, job, outcome, faults>>

-----------------------------------------------------------------------------
Step(p) == AcquireLock(p) \/ LockTimeout(p) \/ CreateStep(p) \/ RemoveStep(p) \/ CheckFails(p)

Next == (\E p \in Procs : Start(p) \/ Step(p) \/ Fault(p) \/ Crash(p)) \/ User

(* The operating system keeps running an invocation that can take a step. *)
Spec == Init /\ [][Next]_vars /\ \A p \in Procs : WF_vars(Step(p))

-----------------------------------------------------------------------------
(* Properties *)

(* Types of the state outside the store. *)
TypeOK ==
    /\ StoreTypeOK
    /\ dir \in [Slots -> Inodes \cup {NoDir}]
    /\ alive \subseteq Inodes
    /\ content \in [Inodes -> Contents]
    /\ own \in [Ids -> {"absent", "published", "isolated"}]
    /\ log \subseteq Procs \X Ids \X LogEvents
    /\ lock \in Procs \cup {NoProc}
    /\ pc \in [Procs -> Labels]
    /\ job \in [Procs -> Job]
    /\ torn \in BOOLEAN /\ occupied \subseteq Ids
    /\ faults \in 0..MaxFaults /\ meddle \in 0..MaxMeddle

(* Invocations never overlap: what one of them read under the lifecycle lock
   (the row, the target's place) no other invocation changes until it returns,
   through every error path, lock timeout and kill. *)
LifecycleIsSerialized ==
    \A p \in Procs : pc[p] \in Critical =>
        /\ \A q \in Procs \ {p} : pc[q] \notin Critical
        /\ pc[p] \in RemoveSteps \cup CreateSteps => job[p].id \in Active

(* A Ready record stands for a verified copy: its ownership is published, the
   isolation path is not recorded, and as long as the directory that was
   registered exists it holds the complete copy, wherever the user moved it.
   create_impl gets there in some twelve durable steps of which any may be the
   last one of a killed invocation. *)
ReadyIsIntact ==
    \A id \in Active :
        workspaces[id].state = "ready" =>
            /\ own[id] = "published"
            /\ <<"target", id>> \in alive => content[<<"target", id>>] = "copy"

(* A tombstone is written only after the data of the Workspace is gone: its
   ownership was proved and the place to put it aside recorded, and what create
   copied is no longer in the registered directory, even when the user renamed
   or replaced directories during the removal.  A create that was killed before
   it published the ownership of its target never gets a tombstone. *)
TombstoneMeansErased ==
    \A id \in tombstones :
        own[id] = "isolated" /\ content[<<"target", id>>] \in {"empty", "foreign"}

(* No step of the tool changes or removes a directory with foreign content that
   the tool did not create, whatever stands under the names it uses. *)
ForeignDataSurvives ==
    [][meddle' = meddle =>
          \A i \in UserInodes : i \in alive /\ content[i] # "empty"
              => i \in alive' /\ content'[i] = content[i]]_vars

(* The intent to remove is logged before the first destructive step: a record
   in Deleting, a recorded isolation path and a tombstone each have a Started
   event, after any crash and although the log and the store are separate files. *)
StartedBeforeDestruction ==
    \A id \in Ids :
        \/ id \in tombstones
        \/ own[id] = "isolated"
        \/ id \in Active /\ workspaces[id].state = "deleting"
      => \E p \in Procs : <<p, id, "started">> \in log

(* A Completed event is evidence of a committed tombstone. *)
CompletedMeansGone ==
    \A entry \in log : entry[3] = "completed" => entry[2] \in tombstones

(* Left alone by users, a crash or failure at any step leaves a registered
   Workspace where a later forced removal finds it: at the target, at the
   recorded isolation path, or gone with its isolation path on record. *)
Recoverable ==
    meddle = 0 =>
        \A id \in Active : own[id] # "absent" =>
            \/ Locate(id) \in {"active", "isolated"}
            \/ Locate(id) = "missing" /\ own[id] = "isolated" /\ content[<<"target", id>>] = "empty"

(* A forced removal of a Workspace is stopped only by a cause outside the tool:
   a failed system call, a user who meddled, a clock that went back, or a
   directory whose registration never happened or whose erasure had already
   finished when an earlier invocation was killed. *)
ForcedRemovalStopsForCause ==
    \A p \in Procs :
        pc[p] \in {"rm_failed", "log_failed"} /\ job[p].req.mode = "force"
            /\ faults = 0 /\ meddle = 0
          => LET id == job[p].id IN
             \/ own[id] = "absent"
             \/ Locate(id) = "missing" /\ own[id] = "isolated"
             \/ workspaces[id].updated > job[p].now

(* Every invocation that was started ends, if it is not killed: with the lock,
   without it after the timeout, and through every error handler. *)
InvocationsEnd ==
    \A p \in Procs : pc[p] = "waiting" ~> pc[p] \in {"done", "crashed"}

(* A removal that has marked its record Deleting runs to the tombstone unless
   it is killed or something outside the tool interferes: none of its own
   checks, repeated between the steps, can reject what an earlier step or an
   earlier invocation of the tool left behind. *)
RemovalCompletes ==
    \A p \in Procs, id \in Ids :
        pc[p] = "rm_enter" /\ job[p].id = id
            ~> id \in tombstones \/ pc[p] = "crashed" \/ faults > 0 \/ meddle > 0

(* The Workspaces, active or deleted, that a word denotes: as a name, as an ID. *)
Denoted(req) ==
    {id \in Active : workspaces[id].res.name = req.name}
      \cup ({req.id} \cap (Active \cup tombstones))

(* A removal given a word that may be a name or an ID works on a Workspace only
   if that is all the word denotes.  A word that is the name of one Workspace
   and the ID of another, active or deleted, selects neither of them, and what
   was selected stays unambiguous until the removal ends. *)
AmbiguousSelectsNothing ==
    \A p \in Procs :
        job[p].id # NoId /\ job[p].req.op = "remove" /\ job[p].req.by = "both"
            => Denoted(job[p].req) \subseteq {job[p].id}
-----------------------------------------------------------------------------
(* What the user is promised about each ID: the record gives its life, the
   directory that was registered for it the data. *)
Life(id) ==
    IF id \in tombstones THEN "gone"
    ELSE IF id \notin Active THEN "unused"
    ELSE CASE workspaces[id].state = "creating" -> "creating"
           [] workspaces[id].state = "ready" -> "ready"
           [] workspaces[id].state = "error" -> "failed"
           [] workspaces[id].state = "deleting" -> "removing"

Data(id) ==
    IF own[id] = "published" /\ <<"target", id>> \notin alive THEN "lost"
    ELSE CASE content[<<"target", id>>] = "copy" -> "whole"
           [] content[<<"target", id>>] = "partial" -> "some"
           [] content[<<"target", id>>] \in {"empty", "foreign"} -> "none"

Registry == INSTANCE WorkspaceRegistry
              WITH life <- [id \in Ids |-> Life(id)], data <- [id \in Ids |-> Data(id)]

(* The invocations, with their crashes, failures and interfering users,
   implement the promise of WorkspaceRegistry. *)
ImplementsRegistry == Registry!Spec
=============================================================================
