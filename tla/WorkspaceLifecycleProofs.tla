---------------------- MODULE WorkspaceLifecycleProofs ----------------------
(***************************************************************************)
(* Proofs about WorkspaceLifecycle for every number of invocations, IDs    *)
(* and requests, with any number of crashes, failures and user actions.    *)
(*                                                                         *)
(* The invocations use the store only through its methods, so the          *)
(* lifecycle implements StoreSpec and inherits the theorems of             *)
(* MetadataStoreProofs.  On top of that the removal log is proved to be    *)
(* ahead of every destructive step and never ahead of the tombstone.       *)
(*                                                                         *)
(* The properties are not inductive by themselves: the step that appends   *)
(* Started and the one that marks the row Deleting are different steps of  *)
(* the same invocation.  InvocationOK records what an invocation knows at  *)
(* each label: the kind of its request, the ID it works on, that its       *)
(* Started event is on disk, or that its ID already has a tombstone.       *)
(***************************************************************************)
EXTENDS WorkspaceLifecycle, MetadataStoreProofs

CreateLabels == CreateSteps \cup {"reserve", "record_failure"}
RemoveLabels == RemoveSteps \cup LogSteps \cup {"preflight", "begin", "rm_failed", "complete_deletion"}

InvocationOK(p) ==
    /\ pc[p] \in {"waiting", "lookup", "find"} \cup CreateLabels \cup RemoveLabels
         => job[p].req \in Requests /\ job[p].now \in Times
    /\ pc[p] \in {"lookup"} \cup CreateLabels => job[p].req \in CreateRequest
    /\ pc[p] \in {"find"} \cup RemoveLabels => job[p].req \in RemoveRequest
    /\ pc[p] \in CreateLabels \cup RemoveLabels => job[p].id \in Ids
    /\ pc[p] \in {"copying", "clear", "rmdir_staging", "clear_trash", "rmdir_trash", "complete"}
         => job[p].kind \in ReceiptKinds
    /\ pc[p] \in {"preflight", "log_started", "begin"} => job[p].state \in States
    /\ pc[p] \in RemoveSteps \cup {"begin", "rm_failed", "complete_deletion"}
         => <<p, job[p].id, "started">> \in log
    /\ pc[p] \in {"log_completed", "absent_started", "absent_completed"} => job[p].id \in tombstones

(* An invocation past its lookup holds the lifecycle lock, ... *)
LockHeld == \A p \in Procs : pc[p] \in Critical => lock = p

(* ... and therefore the row it found or reserved stays. *)
Registered == CreateSteps \cup RemoveSteps
                \cup {"record_failure", "preflight", "log_started", "begin", "rm_failed",
                      "complete_deletion"}
RowsHeld == \A p \in Procs : pc[p] \in Registered => job[p].id \in Active

LifecycleInv ==
    /\ TypeOK
    /\ StoreInv
    /\ \A p \in Procs : InvocationOK(p)
    /\ LockHeld
    /\ RowsHeld
    /\ StartedBeforeDestruction
    /\ CompletedMeansGone

-----------------------------------------------------------------------------
(* A user acts, or one invocation takes a step. *)
LEMMA UsesStore ==
    ASSUME TypeOK, \A p \in Procs : InvocationOK(p), [Next]_vars
    PROVE  [StoreNext]_storeVars
<1>1. CASE UNCHANGED vars
    BY <1>1 DEF vars, storeVars
<1>2. CASE User
    BY <1>2 DEF User
<1>3. ASSUME NEW p \in Procs, Start(p) \/ Fault(p) \/ Crash(p) \/ AcquireLock(p) \/ LockTimeout(p)
                                \/ CheckFails(p)
      PROVE  UNCHANGED storeVars
    BY <1>3 DEF Start, Fault, Crash, AcquireLock, LockTimeout, CheckFails
<1>4. ASSUME NEW p \in Procs, CreateStep(p) PROVE [StoreNext]_storeVars
  <2>1. CASE Reserve(p)
    <3> DEFINE res == [name |-> job[p].req.name, source |-> job[p].req.source,
                       target |-> job[p].req.target,
                       sourceVolume |-> job[p].req.volume, targetVolume |-> job[p].req.volume,
                       allow |-> job[p].req.allow, created |-> job[p].now]
    <3>1. pc[p] = "reserve" /\ reserve_workspace(job[p].id, res)
        BY <2>1 DEF Reserve
    <3>2. job[p].id \in Ids /\ job[p].req \in CreateRequest /\ job[p].now \in Times
        BY <3>1 DEF InvocationOK, CreateLabels
    <3>3. res \in Reservation
        BY <3>2 DEF CreateRequest, Reservation
    <3> HIDE DEF res
    <3>4. QED BY <3>1, <3>2, <3>3 DEF StoreNext
  <2>2. CASE Complete(p)
    <3> DEFINE plan == [source |-> job[p].req.source, target |-> job[p].req.target,
                        sourceVolume |-> job[p].req.volume, targetVolume |-> job[p].req.volume,
                        kind |-> job[p].kind]
               receipt == [kind |-> job[p].kind, succeeded |-> TRUE, sameManifest |-> TRUE]
    <3>1. pc[p] = "complete" /\ complete_materialization(job[p].id, plan, receipt, job[p].now)
        BY <2>2 DEF Complete, Passes
    <3>2. /\ job[p].id \in Ids /\ job[p].req \in CreateRequest /\ job[p].now \in Times
          /\ job[p].kind \in ReceiptKinds
        BY <3>1 DEF InvocationOK, CreateLabels, CreateSteps
    <3>3. plan \in Plan /\ receipt \in Receipt
        BY <3>2 DEF CreateRequest, Plan, Receipt
    <3> HIDE DEF plan, receipt
    <3>4. QED BY <3>1, <3>2, <3>3 DEF StoreNext
  <2>3. CASE RecordCreateFailure(p)
    <3>1. pc[p] = "record_failure"
          /\ \E code \in Codes : record_failure(job[p].id, "creating", code, job[p].now)
        BY <2>3 DEF RecordCreateFailure
    <3>2. job[p].id \in Ids /\ job[p].now \in Times /\ "creating" \in States
        BY <3>1 DEF InvocationOK, CreateLabels, States
    <3>3. QED BY <3>1, <3>2 DEF StoreNext
  <2>4. CASE Lookup(p) \/ Prepare(p) \/ PublishOwnership(p)
               \/ (\E kind \in ReceiptKinds : Materialize(p, kind)) \/ Materialized(p)
               \/ CowUnavailable(p) \/ MaterializeFails(p) \/ Fallback(p) \/ ClearIncomplete(p)
      BY <2>4 DEF Lookup, Prepare, MakeDir, PublishOwnership, Materialize, Materialized,
                  CowUnavailable, MaterializeFails, Fallback, ClearIncomplete
  <2>5. QED BY <1>4, <2>1, <2>2, <2>3, <2>4 DEF CreateStep
<1>5. ASSUME NEW p \in Procs, RemoveStep(p) PROVE [StoreNext]_storeVars
  <2>1. CASE BeginRemoval(p)
    <3>1. pc[p] = "begin"
          /\ \/ begin_removal(job[p].id, job[p].state, job[p].req.mode, job[p].now)
             \/ UNCHANGED storeVars
        BY <2>1 DEF BeginRemoval
    <3>2. /\ job[p].id \in Ids /\ job[p].req \in RemoveRequest /\ job[p].now \in Times
          /\ job[p].state \in States
        BY <3>1 DEF InvocationOK, RemoveLabels
    <3>3. job[p].req.mode \in Modes
        BY <3>2 DEF RemoveRequest
    <3>4. QED BY <3>1, <3>2, <3>3 DEF StoreNext
  <2>2. CASE CompleteDeletion(p)
    <3>1. pc[p] = "complete_deletion" /\ complete_deletion(job[p].id)
        BY <2>2 DEF CompleteDeletion
    <3>2. job[p].id \in Ids
        BY <3>1 DEF InvocationOK, RemoveLabels
    <3>3. QED BY <3>1, <3>2 DEF StoreNext
  <2>3. CASE RecordRemoveFailure(p)
    <3>1. pc[p] = "rm_failed"
          /\ \/ \E code \in Codes : record_failure(job[p].id, "deleting", code, job[p].now)
             \/ UNCHANGED storeVars
        BY <2>3 DEF RecordRemoveFailure
    <3>2. job[p].id \in Ids /\ job[p].now \in Times /\ "deleting" \in States
        BY <3>1 DEF InvocationOK, RemoveLabels, States
    <3>3. QED BY <3>1, <3>2 DEF StoreNext
  <2>4. CASE Find(p) \/ Preflight(p) \/ AppendLog(p) \/ EnterRemoval(p) \/ PersistIsolation(p)
               \/ Isolate(p) \/ EraseTarget(p) \/ ConfirmAbsent(p)
               \/ RemoveStaging(p) \/ RemoveTrash(p)
      BY <2>4 DEF Find, Preflight, AppendLog, EnterRemoval, PersistIsolation, Isolate, EraseTarget,
                  ConfirmAbsent, RemoveStaging, RemoveTrash,
                  RemoveOperationDirectory
  <2>5. QED BY <1>5, <2>1, <2>2, <2>3, <2>4 DEF RemoveStep
<1>6. QED BY <1>1, <1>2, <1>3, <1>4, <1>5 DEF Next, Step, storeVars

-----------------------------------------------------------------------------
(* The invariant of an invocation that does not move *)
LEMMA OtherInvocation ==
    ASSUME NEW q \in Procs, InvocationOK(q), pc'[q] = pc[q], job'[q] = job[q],
           log \subseteq log', tombstones \subseteq tombstones'
    PROVE  InvocationOK(q)'
BY DEF InvocationOK

(* ... of one that ends *)
LEMMA EndedInvocation ==
    ASSUME NEW p \in Procs, pc'[p] \in {"done", "crashed"}
    PROVE  InvocationOK(p)'
BY DEF InvocationOK, CreateLabels, RemoveLabels, CreateSteps, RemoveSteps, LogSteps

(* ... of a creation that goes on with its ID *)
LEMMA CreateGoesOn ==
    ASSUME NEW p \in Procs, InvocationOK(p), pc[p] \in CreateLabels, pc'[p] \in CreateLabels,
           job'[p].req = job[p].req, job'[p].now = job[p].now, job'[p].id = job[p].id,
           pc'[p] \in {"copying", "clear", "rmdir_staging", "clear_trash", "rmdir_trash", "complete"}
             => job'[p].kind \in ReceiptKinds
    PROVE  InvocationOK(p)'
BY DEF InvocationOK, CreateLabels, RemoveLabels, CreateSteps, RemoveSteps, LogSteps

(* ... and of a removal that goes on with its ID *)
LEMMA RemoveGoesOn ==
    ASSUME NEW p \in Procs, InvocationOK(p), pc[p] \in RemoveLabels, pc'[p] \in RemoveLabels,
           job'[p].req = job[p].req, job'[p].now = job[p].now, job'[p].id = job[p].id,
           pc'[p] \in {"log_started", "begin"} => job'[p].state \in States,
           pc'[p] # "preflight",
           pc'[p] \in RemoveSteps \cup {"begin", "rm_failed", "complete_deletion"}
             => <<p, job[p].id, "started">> \in log',
           pc'[p] \in {"log_completed", "absent_started", "absent_completed"}
             => job[p].id \in tombstones'
    PROVE  InvocationOK(p)'
BY DEF InvocationOK, CreateLabels, RemoveLabels, CreateSteps, RemoveSteps, LogSteps

(* Go moves the invocation to a label and changes nothing else of its control. *)
LEMMA GoStep ==
    ASSUME NEW p \in Procs, NEW label \in Labels, TypeOK, Go(p, label)
    PROVE  /\ pc'[p] = label /\ job' = job /\ lock' = lock
           /\ pc' \in [Procs -> Labels]
           /\ \A q \in Procs \ {p} : pc'[q] = pc[q] /\ job'[q] = job[q]
BY DEF Go, TypeOK

(* Select replaces what the invocation carries and leaves the others alone. *)
LEMMA SelectStep ==
    ASSUME NEW p \in Procs, NEW label \in Labels, NEW selected \in Job, TypeOK,
           Select(p, label, selected)
    PROVE  /\ pc'[p] = label /\ job'[p] = selected /\ lock' = lock
           /\ pc' \in [Procs -> Labels] /\ job' \in [Procs -> Job]
           /\ \A q \in Procs \ {p} : pc'[q] = pc[q] /\ job'[q] = job[q]
BY DEF Select, TypeOK

(* Finish ends the invocation and releases the lock if it holds it. *)
LEMMA FinishStep ==
    ASSUME NEW p \in Procs, NEW result, TypeOK, Finish(p, result)
    PROVE  /\ pc'[p] = "done"
           /\ lock' \in Procs \cup {NoProc}
           /\ pc' \in [Procs -> Labels] /\ job' \in [Procs -> Job]
           /\ \A q \in Procs \ {p} : pc'[q] = pc[q] /\ job'[q] = job[q]
<1>1. NoJob \in Job /\ "done" \in Labels
    BY DEF NoJob, Job, Labels
<1>2. QED BY <1>1 DEF Finish, TypeOK

-----------------------------------------------------------------------------
(* Control: what a step of invocation p leaves true *)

ControlOK ==
    /\ log \subseteq Procs \X Ids \X LogEvents
    /\ lock \in Procs \cup {NoProc}
    /\ pc \in [Procs -> Labels]
    /\ job \in [Procs -> Job]

Moved(p) ==
    /\ ControlOK'
    /\ \A q \in Procs \ {p} : pc'[q] = pc[q] /\ job'[q] = job[q]
    /\ InvocationOK(p)'
    /\ lock' \in {lock, p} \/ pc'[p] \in {"done", "crashed"}
    /\ \/ pc'[p] \in {"done", "crashed"}
       \/ pc[p] \in {"idle", "waiting", "lookup", "find"}
       \/ job'[p].id = job[p].id

(* A creation continues at a later label with the same request and ID. *)
LEMMA CreateGo ==
    ASSUME NEW p \in Procs, NEW label \in CreateLabels, TypeOK, InvocationOK(p),
           pc[p] \in CreateLabels, Go(p, label), log' = log,
           label \in {"copying", "clear", "rmdir_staging", "clear_trash", "rmdir_trash", "complete"}
             => job[p].kind \in ReceiptKinds
    PROVE  Moved(p)
<1>1. label \in Labels
    BY DEF CreateLabels, Labels
<1>2. InvocationOK(p)'
    BY <1>1, GoStep, CreateGoesOn
<1>3. QED BY <1>1, <1>2, GoStep DEF Moved, ControlOK, TypeOK

(* A materializer starts with a chosen mode. *)
LEMMA CreateSelect ==
    ASSUME NEW p \in Procs, NEW kind \in ReceiptKinds, TypeOK, InvocationOK(p),
           pc[p] \in CreateLabels, log' = log,
           Select(p, "copying", [job[p] EXCEPT !.kind = kind])
    PROVE  Moved(p)
<1> DEFINE new == [job[p] EXCEPT !.kind = kind]
<1>1. "copying" \in Labels /\ "copying" \in CreateLabels
    BY DEF Labels, CreateLabels, CreateSteps
<1>2. /\ new \in Job /\ new.req = job[p].req /\ new.now = job[p].now /\ new.id = job[p].id
      /\ new.kind = kind
    BY DEF TypeOK, Job
<1>3. Select(p, "copying", new)
    OBVIOUS
<1> HIDE DEF new
<1>4. pc'[p] = "copying" /\ job'[p] = new
    BY <1>1, <1>2, <1>3, SelectStep
<1>5. InvocationOK(p)'
    BY <1>1, <1>2, <1>4, CreateGoesOn
<1>6. QED BY <1>1, <1>2, <1>3, <1>5, SelectStep DEF Moved, ControlOK, TypeOK

(* Any invocation may end. *)
LEMMA Ends ==
    ASSUME NEW p \in Procs, NEW result, TypeOK, Finish(p, result),
           log' \subseteq Procs \X Ids \X LogEvents
    PROVE  Moved(p)
<1>1. InvocationOK(p)'
    BY FinishStep, EndedInvocation
<1>2. QED BY <1>1, FinishStep DEF Moved, ControlOK, TypeOK

(* A removal continues at a later label. *)
LEMMA RemoveGo ==
    ASSUME NEW p \in Procs, NEW label \in RemoveLabels, TypeOK, InvocationOK(p),
           pc[p] \in RemoveLabels, Go(p, label), label # "preflight",
           log' \subseteq Procs \X Ids \X LogEvents,
           label \in {"log_started", "begin"} => job[p].state \in States,
           label \in RemoveSteps \cup {"begin", "rm_failed", "complete_deletion"}
             => <<p, job[p].id, "started">> \in log',
           label \in {"log_completed", "absent_started", "absent_completed"}
             => job[p].id \in tombstones'
    PROVE  Moved(p)
<1>1. label \in Labels
    BY DEF RemoveLabels, Labels
<1>2. InvocationOK(p)'
    BY <1>1, GoStep, RemoveGoesOn
<1>3. QED BY <1>1, <1>2, GoStep DEF Moved, ControlOK, TypeOK

(* An append that is cut short loses no record that was there, and what it adds
   is the record of this invocation: Completed only for a tombstoned ID. *)
LEMMA CutAppendKeeps ==
    ASSUME NEW p \in Procs, TypeOK, InvocationOK(p), CutAppend(p)
    PROVE  /\ log \subseteq log'
           /\ log' \subseteq Procs \X Ids \X LogEvents
           /\ torn' \in BOOLEAN
           /\ pc[p] \notin LogSteps => log' = log
           /\ \A entry \in log' \ log : entry[3] = "completed" => entry[2] \in tombstones
<1>0. log \subseteq Procs \X Ids \X LogEvents /\ torn \in BOOLEAN
    BY DEF TypeOK
<1>1. CASE UNCHANGED log /\ torn' \in BOOLEAN
    BY <1>0, <1>1
<1>2. CASE pc[p] \in LogSteps /\ Append(p, LogEventAt[pc[p]])
  <2>1. job[p].id \in Ids
      BY <1>2 DEF InvocationOK, RemoveLabels
  <2>2. /\ LogEventAt[pc[p]] \in LogEvents
        /\ LogEventAt[pc[p]] = "completed" => pc[p] \in {"log_completed", "absent_completed"}
      BY <1>2 DEF LogEventAt, LogSteps, LogEvents
  <2>3. pc[p] \in {"log_completed", "absent_completed"} => job[p].id \in tombstones
      BY DEF InvocationOK
  <2>4. log' = log \cup {<<p, job[p].id, LogEventAt[pc[p]]>>}
      BY <1>2 DEF Append
  <2>5. torn' \in BOOLEAN
      BY <1>2 DEF Append
  <2>6. QED BY <1>0, <1>2, <2>1, <2>2, <2>3, <2>4, <2>5
<1>3. QED BY <1>0, <1>1, <1>2 DEF CutAppend

(* The `?` of any step. *)
LEMMA FailMoves ==
    ASSUME NEW p \in Procs, TypeOK, InvocationOK(p), Fail(p), log \subseteq log',
           log' \subseteq Procs \X Ids \X LogEvents, pc[p] \notin LogSteps => log' = log
    PROVE  Moved(p)
<1>0. log' \subseteq Procs \X Ids \X LogEvents
    OBVIOUS
<1>1. CASE pc[p] \in CreateSteps
  <2>0. log' = log
      BY <1>1 DEF CreateSteps, LogSteps
  <2>1. Handler(pc[p]) = "record_failure"
      BY <1>1 DEF Handler, CreateSteps, RemoveSteps
  <2>2. Go(p, "record_failure")
      BY <2>1 DEF Fail
  <2>3. QED BY <1>1, <2>0, <2>2, CreateGo DEF CreateLabels
<1>2. CASE pc[p] \in RemoveSteps
  <2>1. Handler(pc[p]) = "rm_failed"
      BY <1>2 DEF Handler, CreateSteps, RemoveSteps
  <2>2. Go(p, "rm_failed")
      BY <2>1 DEF Fail
  <2>3. <<p, job[p].id, "started">> \in log'
      BY <1>2 DEF InvocationOK
  <2>4. QED BY <1>0, <1>2, <2>2, <2>3, RemoveGo DEF RemoveLabels
<1>3. CASE pc[p] \in {"preflight", "begin", "rm_failed", "complete_deletion"}
  <2>1. Handler(pc[p]) = "log_failed"
      BY <1>3 DEF Handler, CreateSteps, RemoveSteps
  <2>2. Go(p, "log_failed")
      BY <2>1 DEF Fail
  <2>3. "log_failed" \in RemoveLabels /\ "log_failed" \notin RemoveSteps
      BY DEF RemoveLabels, LogSteps, RemoveSteps
  <2>4. QED BY <1>0, <1>3, <2>2, <2>3, RemoveGo DEF RemoveLabels
<1>4. CASE pc[p] \notin CreateSteps \cup RemoveSteps \cup
               {"preflight", "begin", "rm_failed", "complete_deletion"}
  <2>1. Handler(pc[p]) = "stop"
      BY <1>4 DEF Handler
  <2>2. Finish(p, "failed")
      BY <2>1 DEF Fail
  <2>3. QED BY <1>0, <2>2, Ends
<1>5. QED BY <1>1, <1>2, <1>3, <1>4

(* Starting, locking, failing and being killed. *)
LEMMA OutsideMoves ==
    ASSUME NEW p \in Procs, TypeOK, InvocationOK(p),
           Start(p) \/ Fault(p) \/ Crash(p) \/ AcquireLock(p) \/ LockTimeout(p) \/ CheckFails(p)
    PROVE  Moved(p)
<1>0. NoJob \in Job /\ {"waiting", "lookup", "find", "done", "crashed"} \subseteq Labels
    BY DEF NoJob, Job, Labels
<1>1. CASE Start(p)
  <2>1. PICK r \in Requests, now \in Times :
            Select(p, "waiting", [NoJob EXCEPT !.req = r, !.now = now])
      BY <1>1 DEF Start
  <2> DEFINE new == [NoJob EXCEPT !.req = r, !.now = now]
  <2>2. new \in Job /\ new.req = r /\ new.now = now
      BY DEF NoJob, Job
  <2>3. Select(p, "waiting", new)
      BY <2>1
  <2> HIDE DEF new
  <2>4. pc'[p] = "waiting" /\ job'[p] = new
      BY <1>0, <2>2, <2>3, SelectStep
  <2>5. InvocationOK(p)'
      BY <2>2, <2>4 DEF InvocationOK, CreateLabels, RemoveLabels, CreateSteps, RemoveSteps, LogSteps
  <2>6. QED BY <1>0, <1>1, <2>2, <2>3, <2>5, SelectStep DEF Moved, ControlOK, TypeOK, Start
<1>2. CASE Fault(p)
    BY <1>2, CutAppendKeeps, FailMoves DEF Fault
<1>3. CASE Crash(p)
  <2>1. pc'[p] = "crashed"
      BY <1>3 DEF Crash, TypeOK
  <2>2. log' \subseteq Procs \X Ids \X LogEvents
      BY <1>3, CutAppendKeeps DEF Crash
  <2>3. QED BY <1>0, <1>3, <2>1, <2>2, EndedInvocation DEF Crash, Moved, ControlOK, TypeOK
<1>4. CASE AcquireLock(p)
  <2>1. /\ pc[p] = "waiting" /\ job' = job /\ log' = log
        /\ pc'[p] = IF job[p].req.op = "create" THEN "lookup" ELSE "find"
        /\ pc' \in [Procs -> Labels]
        /\ \A q \in Procs \ {p} : pc'[q] = pc[q]
      BY <1>0, <1>4 DEF AcquireLock, TypeOK
  <2>2. job[p].req \in Requests /\ job[p].now \in Times
      BY <2>1 DEF InvocationOK
  <2>3. IF job[p].req.op = "create" THEN job[p].req \in CreateRequest ELSE job[p].req \in RemoveRequest
      BY <2>2, RequestsAssumption DEF CreateRequest, RemoveRequest
  <2>4. InvocationOK(p)'
      BY <2>1, <2>2, <2>3
         DEF InvocationOK, CreateLabels, RemoveLabels, CreateSteps, RemoveSteps, LogSteps
  <2>5. QED BY <1>4, <2>1, <2>4 DEF AcquireLock, Moved, ControlOK, TypeOK
<1>5. CASE LockTimeout(p)
    BY <1>5, Ends DEF LockTimeout, TypeOK
<1>6. CASE CheckFails(p)
    BY <1>6, FailMoves DEF CheckFails, TypeOK
<1>7. QED BY <1>1, <1>2, <1>3, <1>4, <1>5, <1>6

-----------------------------------------------------------------------------
(* Every step of a creation leaves the control state in order. *)
LEMMA CreateMoves ==
    ASSUME NEW p \in Procs, TypeOK, InvocationOK(p), CreateStep(p)
    PROVE  Moved(p) /\ log' = log
<1>0. log' = log /\ log' \subseteq Procs \X Ids \X LogEvents
  <2>1. log' = log
      BY DEF CreateStep, Lookup, Reserve, Prepare, MakeDir, PublishOwnership, Materialize,
             Materialized, CowUnavailable, MaterializeFails, Fallback, ClearIncomplete, Complete,
             RecordCreateFailure
  <2>2. QED BY <2>1 DEF TypeOK
<1>1. CASE Lookup(p)
  <2>1. CASE \E id \in Ids : Select(p, "reserve", [job[p] EXCEPT !.id = id])
    <3>1. PICK id \in Ids : Select(p, "reserve", [job[p] EXCEPT !.id = id])
        BY <2>1
    <3> DEFINE new == [job[p] EXCEPT !.id = id]
    <3>2. new \in Job /\ new.req = job[p].req /\ new.now = job[p].now /\ new.id = id
        BY DEF TypeOK, Job
    <3>3. Select(p, "reserve", new)
        BY <3>1
    <3>4. pc[p] = "lookup" /\ "reserve" \in Labels
        BY <1>1 DEF Lookup, Labels
    <3> HIDE DEF new
    <3>5. pc'[p] = "reserve" /\ job'[p] = new
        BY <3>2, <3>3, <3>4, SelectStep
    <3>6. job[p].req \in Requests /\ job[p].now \in Times /\ job[p].req \in CreateRequest
        BY <3>4 DEF InvocationOK
    <3>7. InvocationOK(p)'
        BY <3>2, <3>5, <3>6
           DEF InvocationOK, CreateLabels, RemoveLabels, CreateSteps, RemoveSteps, LogSteps
    <3>8. QED BY <1>0, <3>2, <3>3, <3>4, <3>7, SelectStep DEF Moved, ControlOK, TypeOK
  <2>2. CASE \E result : Finish(p, result)
      BY <1>0, <2>2, Ends
  <2>3. QED BY <1>1, <2>1, <2>2 DEF Lookup
<1>2. CASE Reserve(p)
  <2>1. pc[p] \in CreateLabels /\ "mk_target" \in CreateLabels /\ Go(p, "mk_target")
      BY <1>2 DEF Reserve, CreateLabels, CreateSteps
  <2>2. QED BY <1>0, <2>1, CreateGo
<1>3. CASE Prepare(p) \/ PublishOwnership(p)
  <2>1. pc[p] \in CreateLabels
        /\ \E label \in {"mk_staging", "mk_trash", "publish", "materialize"} : Go(p, label)
      BY <1>3 DEF Prepare, MakeDir, PublishOwnership, Passes, CreateLabels, CreateSteps
  <2>2. {"mk_staging", "mk_trash", "publish", "materialize"} \subseteq CreateLabels
      BY DEF CreateLabels, CreateSteps
  <2>3. QED BY <1>0, <2>1, <2>2, CreateGo
<1>4. CASE (\E kind \in ReceiptKinds : Materialize(p, kind)) \/ Fallback(p)
  <2>1. pc[p] \in CreateLabels
        /\ \E kind \in ReceiptKinds : Select(p, "copying", [job[p] EXCEPT !.kind = kind])
      BY <1>4 DEF Materialize, Fallback, Passes, CreateLabels, CreateSteps, ReceiptKinds
  <2>2. QED BY <1>0, <2>1, CreateSelect
<1>5. CASE Materialized(p) \/ ClearIncomplete(p)
  <2>1. pc[p] \in {"copying", "clear", "rmdir_staging", "clear_trash", "rmdir_trash"}
        /\ \E label \in {"clear", "rmdir_staging", "clear_trash", "rmdir_trash", "complete"} :
              Go(p, label)
      BY <1>5 DEF Materialized, ClearIncomplete, Passes
  <2>2. job[p].kind \in ReceiptKinds
      BY <2>1 DEF InvocationOK
  <2>3. pc[p] \in CreateLabels
        /\ {"clear", "rmdir_staging", "clear_trash", "rmdir_trash", "complete"} \subseteq CreateLabels
      BY <2>1 DEF CreateLabels, CreateSteps
  <2>4. QED BY <1>0, <2>1, <2>2, <2>3, CreateGo
<1>6. CASE CowUnavailable(p) \/ MaterializeFails(p)
  <2>1. pc[p] \in CreateLabels /\ \E label \in {"fallback", "record_failure"} : Go(p, label)
      BY <1>6 DEF CowUnavailable, MaterializeFails, CreateLabels, CreateSteps
  <2>2. {"fallback", "record_failure"} \subseteq CreateLabels
      BY DEF CreateLabels, CreateSteps
  <2>3. QED BY <1>0, <2>1, <2>2, CreateGo
<1>7. CASE Complete(p) \/ RecordCreateFailure(p)
    BY <1>0, <1>7, Ends DEF Complete, RecordCreateFailure
<1>8. QED BY <1>0, <1>1, <1>2, <1>3, <1>4, <1>5, <1>6, <1>7 DEF CreateStep

(* Looking up what is to be removed. *)
LEMMA FindMoves ==
    ASSUME NEW p \in Procs, TypeOK, InvocationOK(p), Find(p)
    PROVE  Moved(p) /\ log' = log
<1>0. /\ log' = log /\ log' \subseteq Procs \X Ids \X LogEvents
      /\ pc[p] = "find" /\ tombstones' = tombstones
      /\ {"preflight", "absent_started"} \subseteq Labels
    BY DEF Find, TypeOK, storeVars, Labels, LogSteps
<1>1. job[p].req \in Requests /\ job[p].now \in Times /\ job[p].req \in RemoveRequest
    BY <1>0 DEF InvocationOK
<1>2. CASE \E id \in Active :
             Select(p, "preflight", [job[p] EXCEPT !.id = id, !.state = workspaces[id].state])
  <2>1. PICK id \in Active :
             Select(p, "preflight", [job[p] EXCEPT !.id = id, !.state = workspaces[id].state])
      BY <1>2
  <2>2. id \in Ids /\ workspaces[id].state \in States
      BY DEF Active, TypeOK, StoreTypeOK, Row
  <2> DEFINE new == [job[p] EXCEPT !.id = id, !.state = workspaces[id].state]
  <2>3. /\ new \in Job /\ new.req = job[p].req /\ new.now = job[p].now
        /\ new.id = id /\ new.state \in States
      BY <2>2 DEF TypeOK, Job
  <2>4. Select(p, "preflight", new)
      BY <2>1
  <2> HIDE DEF new
  <2>5. pc'[p] = "preflight" /\ job'[p] = new
      BY <1>0, <2>3, <2>4, SelectStep
  <2>6. InvocationOK(p)'
      BY <1>1, <2>2, <2>3, <2>5
         DEF InvocationOK, CreateLabels, RemoveLabels, CreateSteps, RemoveSteps, LogSteps
  <2>7. QED BY <1>0, <2>3, <2>4, <2>6, SelectStep DEF Moved, ControlOK, TypeOK
<1>3. CASE job[p].req.id \in tombstones
             /\ Select(p, "absent_started", [job[p] EXCEPT !.id = job[p].req.id])
  <2> DEFINE id == job[p].req.id
             new == [job[p] EXCEPT !.id = id]
  <2>1. id \in Ids /\ id \in tombstones'
      BY <1>0, <1>3 DEF TypeOK, StoreTypeOK
  <2>2. new \in Job /\ new.req = job[p].req /\ new.now = job[p].now /\ new.id = id
      BY <2>1 DEF TypeOK, Job
  <2>3. Select(p, "absent_started", new)
      BY <1>3
  <2> HIDE DEF new, id
  <2>4. pc'[p] = "absent_started" /\ job'[p] = new
      BY <1>0, <2>2, <2>3, SelectStep
  <2>5. InvocationOK(p)'
      BY <1>1, <2>1, <2>2, <2>4
         DEF InvocationOK, CreateLabels, RemoveLabels, CreateSteps, RemoveSteps, LogSteps
  <2>6. QED BY <1>0, <2>2, <2>3, <2>5, SelectStep DEF Moved, ControlOK, TypeOK
<1>4. CASE \E result : Finish(p, result)
    BY <1>0, <1>4, Ends
<1>5. QED BY <1>0, <1>2, <1>3, <1>4 DEF Find

(* remove_workspace: a step within it, which changes at most where the target
   is known to be. *)
LEMMA RemoveSelect ==
    ASSUME NEW p \in Procs, NEW label \in RemoveSteps, NEW at \in Places, TypeOK, InvocationOK(p),
           pc[p] \in RemoveSteps, log' = log,
           Select(p, label, [job[p] EXCEPT !.at = at])
    PROVE  Moved(p)
<1> DEFINE new == [job[p] EXCEPT !.at = at]
<1>1. label \in Labels /\ label \in RemoveLabels /\ pc[p] \in RemoveLabels
    BY DEF Labels, RemoveLabels
<1>2. label \notin {"log_started", "begin", "preflight", "log_completed", "absent_started",
                    "absent_completed"}
    BY DEF RemoveSteps
<1>3. /\ new \in Job /\ new.req = job[p].req /\ new.now = job[p].now /\ new.id = job[p].id
    BY DEF TypeOK, Job
<1>4. Select(p, label, new)
    OBVIOUS
<1> HIDE DEF new
<1>5. pc'[p] = label /\ job'[p] = new
    BY <1>1, <1>3, <1>4, SelectStep
<1>6. <<p, job[p].id, "started">> \in log'
    BY DEF InvocationOK
<1>7. InvocationOK(p)'
    BY <1>1, <1>2, <1>3, <1>5, <1>6, RemoveGoesOn
<1>8. QED BY <1>1, <1>3, <1>4, <1>7, SelectStep DEF Moved, ControlOK, TypeOK

(* The six appends: Started lets the removal begin, Completed needs a tombstone. *)
LEMMA AppendMoves ==
    ASSUME NEW p \in Procs, TypeOK, InvocationOK(p), AppendLog(p)
    PROVE  /\ Moved(p)
           /\ log \subseteq log'
           /\ \A entry \in log' \ log : entry[3] = "completed" => entry[2] \in tombstones'
<1>0. pc[p] \in LogSteps /\ pc[p] \in RemoveLabels /\ tombstones' = tombstones
    BY DEF AppendLog, LogSteps, RemoveLabels, storeVars
<1>1. job[p].id \in Ids
    BY <1>0 DEF InvocationOK
<1>2. PICK event \in LogEvents : Append(p, event)
    BY DEF AppendLog, LogEvents
<1>3. log \subseteq log' /\ log' \subseteq Procs \X Ids \X LogEvents
      /\ log' \ log \subseteq {<<p, job[p].id, event>>}
    BY <1>1, <1>2 DEF Append, TypeOK
<1>4. \A entry \in log' \ log : entry[3] = "completed" => entry[2] \in tombstones'
  <2>1. CASE pc[p] \in {"log_completed", "absent_completed"}
      BY <1>0, <1>3, <2>1 DEF InvocationOK
  <2>2. CASE pc[p] \in {"log_started", "log_refused", "log_failed", "absent_started"}
      BY <2>2 DEF AppendLog, Append
  <2>3. QED BY <1>0, <2>1, <2>2 DEF LogSteps
<1>5. CASE pc[p] = "log_started"
  <2>1. Go(p, "begin") /\ <<p, job[p].id, "started">> \in log'
      BY <1>5 DEF AppendLog, Append
  <2>2. job[p].state \in States /\ "begin" \in RemoveLabels
      BY <1>5 DEF InvocationOK, RemoveLabels
  <2>3. Moved(p)
      BY <1>0, <1>3, <2>1, <2>2, RemoveGo
  <2>4. QED BY <1>3, <1>4, <2>3
<1>6. CASE pc[p] = "absent_started"
  <2>1. Go(p, "absent_completed")
      BY <1>6 DEF AppendLog
  <2>2. job[p].id \in tombstones' /\ "absent_completed" \in RemoveLabels
        /\ "absent_completed" \notin RemoveSteps
      BY <1>0, <1>6 DEF InvocationOK, RemoveLabels, LogSteps, RemoveSteps
  <2>3. Moved(p)
      BY <1>0, <1>3, <2>1, <2>2, RemoveGo
  <2>4. QED BY <1>3, <1>4, <2>3
<1>7. CASE pc[p] \in {"log_refused", "log_failed", "log_completed", "absent_completed"}
  <2>1. \E result : Finish(p, result)
      BY <1>7 DEF AppendLog
  <2>2. QED BY <1>3, <1>4, <2>1, Ends
<1>8. QED BY <1>0, <1>5, <1>6, <1>7 DEF LogSteps

(* Every other step of a removal. *)
LEMMA RemoveMoves ==
    ASSUME NEW p \in Procs, TypeOK, InvocationOK(p), RemoveStep(p)
    PROVE  /\ Moved(p)
           /\ log \subseteq log'
           /\ \A entry \in log' \ log : entry[3] = "completed" => entry[2] \in tombstones'
<1>1. CASE Find(p)
    BY <1>1, FindMoves
<1>2. CASE AppendLog(p)
    BY <1>2, AppendMoves
<1>3. CASE ~Find(p) /\ ~AppendLog(p)
  <2>0. log' = log /\ log' \subseteq Procs \X Ids \X LogEvents
    <3>1. log' = log
        BY <1>3 DEF RemoveStep, Preflight, BeginRemoval, EnterRemoval, RemoveStaging, RemoveTrash,
                  RemoveOperationDirectory,
                    PersistIsolation, Isolate, EraseTarget, ConfirmAbsent, CompleteDeletion,
                    RecordRemoveFailure
    <3>2. QED BY <3>1 DEF TypeOK
  <2>1. CASE Preflight(p)
    <3>1. /\ pc[p] = "preflight"
          /\ \E label \in {"log_failed", "log_started", "log_refused"} : Go(p, label)
        BY <2>1 DEF Preflight
    <3>2. job[p].state \in States /\ pc[p] \in RemoveLabels
        BY <3>1 DEF InvocationOK, RemoveLabels
    <3>3. /\ {"log_failed", "log_started", "log_refused"} \subseteq RemoveLabels
          /\ \A label \in {"log_failed", "log_started", "log_refused"} : label \notin RemoveSteps
        BY DEF RemoveLabels, RemoveSteps, LogSteps
    <3>4. QED BY <2>0, <3>1, <3>2, <3>3, RemoveGo
  <2>2. CASE BeginRemoval(p)
    <3>1. pc[p] = "begin" /\ (Go(p, "rm_enter") \/ Fail(p))
        BY <2>2 DEF BeginRemoval
    <3>2. CASE Go(p, "rm_enter")
      <4>1. /\ pc[p] \in RemoveLabels /\ "rm_enter" \in RemoveLabels /\ "rm_enter" \in RemoveSteps
            /\ <<p, job[p].id, "started">> \in log'
          BY <2>0, <3>1 DEF InvocationOK, RemoveLabels, RemoveSteps
      <4>2. QED BY <2>0, <3>2, <4>1, RemoveGo
    <3>3. CASE Fail(p)
        BY <2>0, <3>3, FailMoves
    <3>4. QED BY <3>1, <3>2, <3>3
  <2>3. CASE EnterRemoval(p)
    <3>1. pc[p] = "rm_enter" /\ Select(p, "rm_staging", [job[p] EXCEPT !.at = Locate(job[p].id)])
        BY <2>3 DEF EnterRemoval, Passes
    <3>2. Locate(job[p].id) \in Places
        BY DEF Locate, Places
    <3>3. pc[p] \in RemoveSteps /\ "rm_staging" \in RemoveSteps
        BY <3>1 DEF RemoveSteps
    <3>4. QED BY <2>0, <3>1, <3>2, <3>3, RemoveSelect
  <2>4. CASE \/ RemoveStaging(p) \/ RemoveTrash(p)
             \/ PersistIsolation(p) \/ EraseTarget(p)
    <3>1. pc[p] \in RemoveSteps /\ \E label \in RemoveSteps : Go(p, label)
        BY <2>4 DEF RemoveStaging, RemoveTrash,
                  RemoveOperationDirectory, PersistIsolation, EraseTarget, Passes, RemoveSteps
    <3>2. PICK label \in RemoveSteps : Go(p, label)
        BY <3>1
    <3>3. /\ label \in RemoveLabels /\ pc[p] \in RemoveLabels
          /\ label \notin {"preflight", "log_started", "begin", "log_completed", "absent_started",
                           "absent_completed"}
        BY <3>1 DEF RemoveLabels, RemoveSteps
    <3>4. <<p, job[p].id, "started">> \in log'
        BY <2>0, <3>1 DEF InvocationOK
    <3>5. QED BY <2>0, <3>2, <3>3, <3>4, RemoveGo
  <2>5. CASE Isolate(p)
    <3>1. /\ pc[p] \in {"isolate", "rename", "moved"}
          /\ \/ \E label \in {"rename", "moved"} : Go(p, label)
             \/ Select(p, "erase", [job[p] EXCEPT !.at = "isolated"])
        BY <2>5 DEF Isolate, Passes
    <3>2. /\ pc[p] \in RemoveSteps /\ pc[p] \in RemoveLabels /\ "erase" \in RemoveSteps
          /\ {"rename", "moved"} \subseteq RemoveLabels /\ "isolated" \in Places
        BY <3>1 DEF RemoveSteps, RemoveLabels, Places
    <3>3. <<p, job[p].id, "started">> \in log'
        BY <2>0, <3>2 DEF InvocationOK
    <3>4. CASE \E label \in {"rename", "moved"} : Go(p, label)
        BY <2>0, <3>2, <3>3, <3>4, RemoveGo
    <3>5. CASE Select(p, "erase", [job[p] EXCEPT !.at = "isolated"])
        BY <2>0, <3>2, <3>5, RemoveSelect
    <3>6. QED BY <3>1, <3>4, <3>5
  <2>6. CASE ConfirmAbsent(p)
    <3>1. pc[p] = "confirm" /\ Go(p, "complete_deletion")
        BY <2>6 DEF ConfirmAbsent, Passes
    <3>2. /\ pc[p] \in RemoveLabels /\ "complete_deletion" \in RemoveLabels
          /\ <<p, job[p].id, "started">> \in log'
        BY <2>0, <3>1 DEF InvocationOK, RemoveLabels, RemoveSteps
    <3>3. QED BY <2>0, <3>1, <3>2, RemoveGo
  <2>7. CASE CompleteDeletion(p)
    <3>1. /\ pc[p] = "complete_deletion" /\ Go(p, "log_completed")
          /\ job[p].id \in tombstones'
        BY <2>7 DEF CompleteDeletion, complete_deletion
    <3>2. /\ pc[p] \in RemoveLabels /\ "log_completed" \in RemoveLabels
          /\ "log_completed" \notin RemoveSteps
        BY <3>1 DEF RemoveLabels, LogSteps, RemoveSteps
    <3>3. QED BY <2>0, <3>1, <3>2, RemoveGo
  <2>8. CASE RecordRemoveFailure(p)
    <3>1. pc[p] = "rm_failed" /\ Go(p, "log_failed")
        BY <2>8 DEF RecordRemoveFailure
    <3>2. pc[p] \in RemoveLabels /\ "log_failed" \in RemoveLabels /\ "log_failed" \notin RemoveSteps
        BY <3>1 DEF RemoveLabels, LogSteps, RemoveSteps
    <3>3. QED BY <2>0, <3>1, <3>2, RemoveGo
  <2>9. QED BY <1>3, <2>0, <2>1, <2>2, <2>3, <2>4, <2>5, <2>6, <2>7, <2>8 DEF RemoveStep
<1>4. QED BY <1>1, <1>2, <1>3

-----------------------------------------------------------------------------
(* The directories, the documents and the counters keep their types. *)

FilesOK ==
    /\ dir \in [Slots -> Inodes \cup {NoDir}]
    /\ alive \subseteq Inodes
    /\ content \in [Inodes -> Contents]
    /\ own \in [Ids -> {"absent", "published", "isolated"}]
    /\ torn \in BOOLEAN /\ occupied \subseteq Ids
    /\ faults \in 0..MaxFaults /\ meddle \in 0..MaxMeddle

(* Users make, move, fill and delete directories, nothing else. *)
LEMMA UserKeepsTypes == ASSUME TypeOK, User PROVE FilesOK'
<1>1. /\ dir \in [Slots -> Inodes \cup {NoDir}] /\ alive \subseteq Inodes
      /\ content \in [Inodes -> Contents]
      /\ own \in [Ids -> {"absent", "published", "isolated"}]
      /\ torn \in BOOLEAN /\ occupied \subseteq Ids
      /\ faults \in 0..MaxFaults /\ meddle \in 0..MaxMeddle
    BY DEF TypeOK
<1>2. own' = own /\ torn' = torn /\ faults' = faults /\ meddle' \in 0..MaxMeddle
    BY <1>1, BoundsAssumption DEF User
<1>3. UserInodes \subseteq Inodes /\ {"empty", "foreign"} \subseteq Contents
    BY DEF Inodes, Contents
<1>4. CASE \E slot \in Slots : \E i \in UserInodes : UserMkdir(slot, i)
    BY <1>1, <1>2, <1>3, <1>4 DEF UserMkdir, FilesOK
<1>5. CASE \E slot \in Slots : \E i \in Inodes : UserMoveBack(slot, i)
    BY <1>1, <1>2, <1>5 DEF UserMoveBack, FilesOK
<1>6. CASE \E slot \in Slots : UserDelete(slot)
  <2>1. PICK slot \in Slots : UserDelete(slot)
      BY <1>6
  <2>2. dir[slot] \in Inodes
      BY <1>1, <2>1 DEF UserDelete
  <2>3. QED BY <1>1, <1>2, <1>3, <2>1, <2>2 DEF UserDelete, FilesOK
<1>7. CASE \E slot \in Slots : UserMoveAway(slot)
    BY <1>1, <1>2, <1>7 DEF UserMoveAway, FilesOK
<1>8. CASE \E i \in Inodes : UserWrite(i)
    BY <1>1, <1>2, <1>3, <1>8 DEF UserWrite, FilesOK
<1>9. CASE \E id \in Ids : Occupy(id)
    BY <1>1, <1>2, <1>9 DEF Occupy, FilesOK
<1>10. QED BY <1>4, <1>5, <1>6, <1>7, <1>8, <1>9 DEF User

(* The steps of a creation. *)
LEMMA CreateKeepsTypes ==
    ASSUME NEW p \in Procs, TypeOK, InvocationOK(p), CreateStep(p) PROVE FilesOK'
<1> DEFINE id == job[p].id
<1>1. /\ dir \in [Slots -> Inodes \cup {NoDir}] /\ alive \subseteq Inodes
      /\ content \in [Inodes -> Contents]
      /\ own \in [Ids -> {"absent", "published", "isolated"}]
      /\ torn \in BOOLEAN /\ occupied \subseteq Ids
      /\ faults \in 0..MaxFaults /\ meddle \in 0..MaxMeddle
    BY DEF TypeOK
<1>2. CASE UNCHANGED fsVars /\ UNCHANGED envVars
    BY <1>1, <1>2 DEF FilesOK, fsVars, envVars
<1>3. CASE Lookup(p) \/ Reserve(p) \/ Complete(p) \/ RecordCreateFailure(p)
    BY <1>2, <1>3 DEF Lookup, Reserve, Complete, RecordCreateFailure
<1>4. CASE ~(Lookup(p) \/ Reserve(p) \/ Complete(p) \/ RecordCreateFailure(p))
  <2>1. pc[p] \in CreateLabels
      BY <1>4 DEF CreateStep, Prepare, MakeDir, PublishOwnership, Materialize, Materialized,
                  CowUnavailable, MaterializeFails, Fallback, ClearIncomplete, Passes,
                  CreateLabels, CreateSteps
  <2>2. id \in Ids
      BY <2>1 DEF InvocationOK
  <2>3. {<<"target", id>>, <<"staging", id>>, <<"trash", id>>} \subseteq Inodes
      BY <2>2 DEF Inodes, ToolInodes, Roles
  <2>4. \A t, s, q \in Contents : SetContent(id, t, s, q) /\ UNCHANGED <<torn, occupied, meddle>>
                                    /\ faults' \in 0..MaxFaults => FilesOK'
      BY <1>1, <2>3 DEF SetContent, FilesOK
  <2>5. content[<<"trash", id>>] \in Contents /\ Quarantined(id) \subseteq Contents
        /\ {"empty", "partial", "copy"} \subseteq Contents
      BY <1>1, <2>3 DEF Quarantined, Contents
  <2>6. CASE Prepare(p)
      BY <1>1, <2>3, <2>6 DEF Prepare, MakeDir, FilesOK, envVars
  <2>7. CASE PublishOwnership(p)
      BY <1>1, <2>7 DEF PublishOwnership, FilesOK, envVars
  <2>8. CASE (\E kind \in ReceiptKinds : Materialize(p, kind)) \/ Materialized(p) \/ Fallback(p)
    <3>1. \E t, s, q \in Contents : SetContent(id, t, s, q)
        BY <2>5, <2>8 DEF Materialize, Materialized, Fallback
    <3>2. UNCHANGED <<torn, occupied, meddle>> /\ faults' \in 0..MaxFaults
        BY <1>1, <2>8 DEF Materialize, Materialized, Fallback, envVars
    <3>3. QED BY <2>4, <3>1, <3>2
  <2>9. CASE CowUnavailable(p)
    <3>1. \E t, s, q \in Contents : SetContent(id, t, s, q)
        BY <2>5, <2>9 DEF CowUnavailable
    <3>2. UNCHANGED <<torn, occupied, meddle>> /\ faults' \in 0..MaxFaults
        BY <1>1, <2>9 DEF CowUnavailable, envVars
    <3>3. QED BY <2>4, <3>1, <3>2
  <2>10. CASE MaterializeFails(p)
    <3>1. \E t, s, q \in Contents : SetContent(id, t, s, q)
        BY <2>5, <2>10 DEF MaterializeFails
    <3>2. UNCHANGED <<torn, occupied, meddle>> /\ faults' \in 0..MaxFaults
        BY <1>1, <2>10, BoundsAssumption DEF MaterializeFails
    <3>3. QED BY <2>4, <3>1, <3>2
  <2>11. CASE ClearIncomplete(p)
      BY <1>1, <1>2, <2>11 DEF ClearIncomplete, Rmdir, FilesOK, envVars
  <2>12. QED BY <1>4, <2>6, <2>7, <2>8, <2>9, <2>10, <2>11 DEF CreateStep
<1>5. QED BY <1>3, <1>4

(* The steps of a removal.  The rename writes two names, so the registered
   target must be one: the row is still there (RowsHeld). *)
LEMMA RemoveKeepsTypes ==
    ASSUME NEW p \in Procs, TypeOK, RowsHeld, RemoveStep(p) PROVE FilesOK'
<1> DEFINE id == job[p].id
<1>1. /\ dir \in [Slots -> Inodes \cup {NoDir}] /\ alive \subseteq Inodes
      /\ content \in [Inodes -> Contents]
      /\ own \in [Ids -> {"absent", "published", "isolated"}]
      /\ torn \in BOOLEAN /\ occupied \subseteq Ids
      /\ faults \in 0..MaxFaults /\ meddle \in 0..MaxMeddle
    BY DEF TypeOK
<1>2. UNCHANGED <<occupied, faults, meddle>> /\ torn' \in BOOLEAN
    BY <1>1 DEF envVars, Append, RemoveStep, Find, Preflight, AppendLog, BeginRemoval, EnterRemoval,
           RemoveStaging, RemoveTrash,
                  RemoveOperationDirectory, PersistIsolation, Isolate, EraseTarget, ConfirmAbsent,
           CompleteDeletion, RecordRemoveFailure
<1>3. CASE UNCHANGED fsVars
    BY <1>1, <1>2, <1>3 DEF FilesOK, fsVars
<1>4. CASE Find(p) \/ Preflight(p) \/ AppendLog(p) \/ BeginRemoval(p) \/ EnterRemoval(p)
             \/ ConfirmAbsent(p) \/ CompleteDeletion(p) \/ RecordRemoveFailure(p)
    BY <1>3, <1>4 DEF Find, Preflight, AppendLog, BeginRemoval, EnterRemoval, ConfirmAbsent,
                      CompleteDeletion, RecordRemoveFailure
<1>5. CASE \/ RemoveStaging(p) \/ RemoveTrash(p)
    BY <1>1, <1>2, <1>3, <1>5 DEF RemoveStaging, RemoveTrash,
                  RemoveOperationDirectory, Erase, Rmdir, FilesOK, Contents, envVars
<1>6. CASE PersistIsolation(p)
    BY <1>1, <1>2, <1>6 DEF PersistIsolation, FilesOK, envVars
<1>7. CASE Isolate(p)
  <2>1. pc[p] \in RemoveSteps
      BY <1>7 DEF Isolate, Passes, RemoveSteps
  <2>2. CASE UNCHANGED fsVars
      BY <1>3, <2>2
  <2>3. CASE /\ dir' = [dir EXCEPT ![<<"remove", id>>] = dir[RegisteredSlot(id)],
                                   ![RegisteredSlot(id)] = NoDir]
             /\ UNCHANGED <<alive, content, own>>
    <3>1. id \in Active
        BY <2>1 DEF RowsHeld, Registered
    <3>2. RegisteredSlot(id) \in Slots
        BY <3>1 DEF RegisteredSlot, Slots, Active, TypeOK, StoreTypeOK, Row, Reservation
    <3>3. QED BY <1>1, <1>2, <2>3, <3>2 DEF FilesOK, envVars
  <2>4. QED BY <1>7, <2>2, <2>3 DEF Isolate
<1>8. CASE EraseTarget(p)
    BY <1>1, <1>2, <1>3, <1>8 DEF EraseTarget, Erase, Rmdir, FilesOK, Contents, envVars
<1>9. QED BY <1>4, <1>5, <1>6, <1>7, <1>8 DEF RemoveStep

-----------------------------------------------------------------------------
(* One step of invocation p, or of the user *)

Acts(p) == Start(p) \/ Step(p) \/ Fault(p) \/ Crash(p)

(* Whatever an invocation does, its control state stays in order, the log only
   grows, and a Completed event is appended for a tombstoned ID only. *)
LEMMA ActsMoves ==
    ASSUME NEW p \in Procs, TypeOK, InvocationOK(p), Acts(p)
    PROVE  /\ Moved(p)
           /\ log \subseteq log'
           /\ \A entry \in log' \ log : entry[3] = "completed" => entry[2] \in tombstones'
<1>1. CASE CreateStep(p)
    BY <1>1, CreateMoves
<1>2. CASE RemoveStep(p)
    BY <1>2, RemoveMoves
<1>3. CASE Start(p) \/ Fault(p) \/ Crash(p) \/ AcquireLock(p) \/ LockTimeout(p) \/ CheckFails(p)
  <2>1. log' = log \/ (CutAppend(p) /\ tombstones' = tombstones)
      BY <1>3 DEF Start, Fault, Crash, AcquireLock, LockTimeout, CheckFails, storeVars
  <2>2. QED BY <1>3, <2>1, OutsideMoves, CutAppendKeeps
<1>4. QED BY <1>1, <1>2, <1>3 DEF Acts, Step

(* Every step but starting, taking the lock and giving up on it is taken by
   the holder of the lock. *)
LEMMA HolderActs ==
    ASSUME NEW p \in Procs, LockHeld, Acts(p)
    PROVE  Start(p) \/ AcquireLock(p) \/ LockTimeout(p) \/ lock = p
<1>1. CASE Fault(p) \/ Crash(p)
    BY <1>1 DEF Fault, Crash
<1>2. CASE CreateStep(p)
  <2>1. pc[p] \in {"lookup", "reserve", "record_failure"} \cup CreateSteps
      BY <1>2 DEF CreateStep, Lookup, Reserve, Prepare, MakeDir, PublishOwnership, Materialize,
                  Materialized, CowUnavailable, MaterializeFails, Fallback, ClearIncomplete,
                  Complete, RecordCreateFailure, Passes, CreateSteps
  <2>2. pc[p] \in Critical
      BY <2>1 DEF Critical, Labels, CreateSteps
  <2>3. QED BY <2>2 DEF LockHeld
<1>3. CASE RemoveStep(p)
  <2>1. pc[p] \in {"find", "preflight", "begin", "rm_failed", "complete_deletion"}
                    \cup RemoveSteps \cup LogSteps
      BY <1>3 DEF RemoveStep, Find, Preflight, AppendLog, BeginRemoval, EnterRemoval,
                  RemoveStaging, RemoveTrash,
                  RemoveOperationDirectory, PersistIsolation, Isolate, EraseTarget, ConfirmAbsent,
                  CompleteDeletion, RecordRemoveFailure, Passes, RemoveSteps, LogSteps
  <2>2. pc[p] \in Critical
      BY <2>1 DEF Critical, Labels, RemoveSteps, LogSteps
  <2>3. QED BY <2>2 DEF LockHeld
<1>4. CASE CheckFails(p)
  <2>1. pc[p] \in Critical
      BY <1>4 DEF CheckFails, Checked, Critical, Labels, CreateSteps, RemoveSteps
  <2>2. QED BY <2>1 DEF LockHeld
<1>5. QED BY <1>1, <1>2, <1>3, <1>4 DEF Acts, Step

(* The lock moves only from and to the invocation that acts, and only to one
   when it is free. *)
LEMMA LockStaysHeld ==
    ASSUME NEW p \in Procs, TypeOK, InvocationOK(p), LockHeld, Acts(p)
    PROVE  LockHeld'
<1>1. Moved(p)
    BY ActsMoves
<1>2. CASE lock = p
  <2>1. \A q \in Procs \ {p} : pc'[q] \notin Critical
      BY <1>1, <1>2 DEF Moved, LockHeld
  <2>2. pc'[p] \in Critical => lock' = p
      BY <1>1, <1>2 DEF Moved, Critical
  <2>3. QED BY <2>1, <2>2 DEF LockHeld
<1>3. CASE AcquireLock(p)
  <2>1. \A q \in Procs : pc[q] \notin Critical
      BY <1>3, NoProcAssumption DEF AcquireLock, LockHeld
  <2>2. lock' = p
      BY <1>3 DEF AcquireLock
  <2>3. QED BY <1>1, <2>1, <2>2 DEF Moved, LockHeld
<1>4. CASE Start(p) \/ LockTimeout(p)
  <2>1. pc'[p] \in {"waiting", "done"} /\ (lock' = lock \/ lock = p)
      BY <1>4 DEF Start, LockTimeout, Select, Finish, TypeOK
  <2>2. pc'[p] \notin Critical
      BY <2>1 DEF Critical
  <2>3. QED BY <1>1, <1>2, <2>1, <2>2 DEF Moved, LockHeld
<1>5. QED BY <1>2, <1>3, <1>4, HolderActs

(* No row that an invocation has found or reserved disappears under it. *)
LEMMA RowGoesOn ==
    ASSUME NEW p \in Procs, StoreInv, [StoreNext]_storeVars, tombstones' = tombstones,
           RowsHeld, pc[p] \in Registered, Moved(p), pc'[p] \in Registered
    PROVE  job'[p].id \in Active'
<1>1. job'[p].id = job[p].id
    BY DEF Moved, Registered, CreateSteps, RemoveSteps
<1>2. job[p].id \in Active
    BY DEF RowsHeld
<1>3. workspaces'[job[p].id] # NoRow
    BY <1>2, StoreStep DEF RowStep, Active
<1>4. QED BY <1>1, <1>2, <1>3 DEF Active

(* The holder of the lock is the only one that changes rows. *)
LEMMA RowsStayHeld ==
    ASSUME NEW p \in Procs, TypeOK, StoreInv, [StoreNext]_storeVars, InvocationOK(p), LockHeld,
           RowsHeld, Acts(p)
    PROVE  RowsHeld'
<1>0. Moved(p)
    BY ActsMoves
<1>1. Registered \subseteq Critical
    BY DEF Registered, Critical, Labels, CreateSteps, RemoveSteps, LogSteps
<1>2. CASE Start(p) \/ AcquireLock(p) \/ LockTimeout(p)
  <2>1. /\ pc'[p] \in {"waiting", "lookup", "find", "done"} /\ workspaces' = workspaces
      BY <1>2 DEF Start, AcquireLock, LockTimeout, Select, Finish, TypeOK, storeVars
  <2>2. pc'[p] \notin Registered
      BY <2>1 DEF Registered, CreateSteps, RemoveSteps
  <2>3. QED BY <1>0, <2>1, <2>2 DEF Moved, RowsHeld, Active
<1>3. CASE lock = p
  <2>1. \A q \in Procs \ {p} : pc'[q] \notin Registered
      BY <1>0, <1>1, <1>3 DEF Moved, LockHeld
  <2>2. SUFFICES ASSUME pc'[p] \in Registered PROVE job'[p].id \in Active'
      BY <2>1 DEF RowsHeld
  <2>3. CASE Start(p) \/ AcquireLock(p) \/ LockTimeout(p) \/ Crash(p)
    <3>1. pc'[p] \in {"waiting", "lookup", "find", "done", "crashed"}
        BY <2>3 DEF Start, AcquireLock, LockTimeout, Crash, Select, Finish, TypeOK
    <3>2. QED BY <2>2, <3>1 DEF Registered, CreateSteps, RemoveSteps
  <2>4. CASE Fault(p) \/ CheckFails(p)
    <3>1. Fail(p) /\ tombstones' = tombstones
        BY <2>4 DEF Fault, CheckFails, storeVars
    <3>2. CASE pc[p] \in Registered
        BY <1>0, <2>2, <3>1, <3>2, RowGoesOn
    <3>3. CASE pc[p] \notin Registered
      <4>1. Handler(pc[p]) = "stop"
          BY <3>3 DEF Handler, Registered
      <4>2. pc'[p] = "done"
          BY <3>1, <4>1 DEF Fail, Finish, TypeOK
      <4>3. QED BY <2>2, <4>2 DEF Registered, CreateSteps, RemoveSteps
    <3>4. QED BY <3>2, <3>3
  <2>5. CASE Lookup(p) \/ CompleteDeletion(p)
    <3>1. pc'[p] \in {"done", "reserve", "log_completed"}
        BY <2>5 DEF Lookup, CompleteDeletion, Finish, Select, Go, TypeOK
    <3>2. QED BY <2>2, <3>1 DEF Registered, CreateSteps, RemoveSteps
  <2>6. CASE Reserve(p)
    <3>1. /\ pc[p] = "reserve" /\ job' = job
          /\ \E res : workspaces' = [workspaces EXCEPT ![job[p].id] = NewRow(res)]
                        /\ res \in Reservation
      <4> DEFINE res == [name |-> job[p].req.name, source |-> job[p].req.source,
                         target |-> job[p].req.target,
                         sourceVolume |-> job[p].req.volume, targetVolume |-> job[p].req.volume,
                         allow |-> job[p].req.allow, created |-> job[p].now]
      <4>1. /\ pc[p] = "reserve" /\ job' = job
            /\ workspaces' = [workspaces EXCEPT ![job[p].id] = NewRow(res)]
          BY <2>6 DEF Reserve, reserve_workspace, Go
      <4>2. job[p].req \in CreateRequest /\ job[p].now \in Times
          BY <4>1 DEF InvocationOK, CreateLabels
      <4>3. res \in Reservation
          BY <4>2 DEF CreateRequest, Reservation
      <4> HIDE DEF res
      <4>4. QED BY <4>1, <4>3
    <3>2. PICK res \in Reservation :
              workspaces' = [workspaces EXCEPT ![job[p].id] = NewRow(res)]
        BY <3>1
    <3>3. NewRow(res) \in Row
        BY DEF NewRow, Row, Reservation, States, NoCode
    <3>4. job[p].id \in Ids
        BY <3>1 DEF InvocationOK, CreateLabels
    <3>5. QED BY <3>1, <3>2, <3>3, <3>4, NoRowAssumption DEF Active, TypeOK, StoreTypeOK
  <2>7. CASE Find(p)
    <3>1. pc'[p] \in {"done", "absent_started"} \/ job'[p].id \in Active
      <4>1. CASE \E id \in Active :
                   Select(p, "preflight", [job[p] EXCEPT !.id = id, !.state = workspaces[id].state])
          BY <4>1 DEF Select, TypeOK, Job
      <4>2. CASE (\E result : Finish(p, result)) \/ (\E new : Select(p, "absent_started", new))
          BY <4>2 DEF Finish, Select, TypeOK
      <4>3. QED BY <2>7, <4>1, <4>2 DEF Find
    <3>2. workspaces' = workspaces
        BY <2>7 DEF Find, storeVars
    <3>3. QED BY <2>2, <3>1, <3>2 DEF Registered, CreateSteps, RemoveSteps, Active
  <2>8. CASE AppendLog(p)
    <3>1. pc[p] = "log_started" \/ pc'[p] \in {"done", "absent_completed"}
        BY <2>8 DEF AppendLog, Go, Finish, TypeOK
    <3>2. tombstones' = tombstones
        BY <2>8 DEF AppendLog, storeVars
    <3>3. CASE pc[p] = "log_started"
        BY <1>0, <2>2, <3>2, <3>3, RowGoesOn DEF Registered
    <3>4. QED BY <2>2, <3>1, <3>3 DEF Registered, CreateSteps, RemoveSteps
  <2>9. CASE CreateStep(p) /\ ~Lookup(p) /\ ~Reserve(p)
    <3>1. pc[p] \in CreateSteps \cup {"record_failure"} /\ tombstones' = tombstones
        BY <2>9 DEF CreateStep, Prepare, MakeDir, PublishOwnership, Materialize, Materialized,
                    CowUnavailable, MaterializeFails, Fallback, ClearIncomplete, Complete,
                    RecordCreateFailure, Passes, CreateSteps, storeVars, record_failure,
                    complete_materialization
    <3>2. QED BY <1>0, <2>2, <3>1, RowGoesOn DEF Registered
  <2>10. CASE RemoveStep(p) /\ ~Find(p) /\ ~AppendLog(p) /\ ~CompleteDeletion(p)
    <3>1. pc[p] \in {"preflight", "begin", "rm_failed"} \cup RemoveSteps /\ tombstones' = tombstones
        BY <2>10 DEF RemoveStep, Preflight, BeginRemoval, EnterRemoval, RemoveStaging, RemoveTrash,
                  RemoveOperationDirectory,
                     PersistIsolation, Isolate, EraseTarget, ConfirmAbsent, RecordRemoveFailure,
                     Passes, RemoveSteps, storeVars, record_failure, begin_removal
    <3>2. QED BY <1>0, <2>2, <3>1, RowGoesOn DEF Registered
  <2>11. QED BY <2>3, <2>4, <2>5, <2>6, <2>7, <2>8, <2>9, <2>10 DEF Acts, Step
<1>4. QED BY <1>2, <1>3, HolderActs

-----------------------------------------------------------------------------
(* The removal log *)

(* Something irreversible has begun for an ID. *)
Doomed(id) ==
    \/ id \in tombstones
    \/ own[id] = "isolated"
    \/ id \in Active /\ workspaces[id].state = "deleting"

(* Only begin_removal, the recording of the isolation path and complete_deletion
   doom an ID, and each is a step of an invocation that has logged Started. *)
LEMMA DoomedByStarted ==
    ASSUME NEW p \in Procs, TypeOK, InvocationOK(p), Acts(p), NEW id \in Ids, Doomed(id)'
    PROVE  Doomed(id) \/ <<p, id, "started">> \in log
<1>1. CASE UNCHANGED storeVars /\ (own'[id] = "isolated" => own[id] = "isolated")
    BY <1>1 DEF Doomed, storeVars, Active
<1>2. CASE Start(p) \/ Fault(p) \/ Crash(p) \/ AcquireLock(p) \/ LockTimeout(p) \/ CheckFails(p)
    BY <1>1, <1>2 DEF Start, Fault, Crash, AcquireLock, LockTimeout, CheckFails, fsVars
<1>3. CASE Lookup(p) \/ Prepare(p) \/ (\E kind \in ReceiptKinds : Materialize(p, kind))
             \/ Materialized(p) \/ CowUnavailable(p) \/ MaterializeFails(p) \/ Fallback(p)
             \/ ClearIncomplete(p)
    BY <1>1, <1>3 DEF Lookup, Prepare, MakeDir, Materialize, Materialized, CowUnavailable,
                      MaterializeFails, Fallback, ClearIncomplete, SetContent, Rmdir, fsVars
<1>4. CASE PublishOwnership(p)
  <2>1. own'[id] = "isolated" => own[id] = "isolated"
      BY <1>4 DEF PublishOwnership, TypeOK
  <2>2. QED BY <1>1, <1>4, <2>1 DEF PublishOwnership
<1>5. CASE Reserve(p)
  <2>1. /\ own' = own /\ tombstones' = tombstones
        /\ \E res : workspaces' = [workspaces EXCEPT ![job[p].id] = NewRow(res)]
      BY <1>5 DEF Reserve, reserve_workspace, fsVars
  <2>2. QED BY <2>1 DEF Doomed, Active, NewRow, TypeOK, StoreTypeOK
<1>6. CASE Complete(p)
  <2>1. /\ own' = own /\ tombstones' = tombstones
        /\ workspaces' = [workspaces EXCEPT ![job[p].id] = ReadyRow(workspaces[job[p].id], job[p].now)]
        /\ pc[p] = "complete"
      BY <1>6 DEF Complete, complete_materialization, fsVars, Passes
  <2>2. job[p].id \in Ids /\ job[p].id \in Active
    <3>1. job[p].id \in Ids
        BY <2>1 DEF InvocationOK, CreateLabels, CreateSteps
    <3>2. QED BY <1>6, <3>1 DEF Complete, complete_materialization, CompleteOutcome
  <2>3. ReadyRow(workspaces[job[p].id], job[p].now).state = "ready"
      BY <2>2 DEF ReadyRow, Active, TypeOK, StoreTypeOK, Row
  <2>4. QED BY <2>1, <2>2, <2>3 DEF Doomed, Active, TypeOK, StoreTypeOK
<1>7. CASE RecordCreateFailure(p) \/ RecordRemoveFailure(p)
  <2>1. CASE UNCHANGED storeVars
      BY <1>1, <1>7, <2>1 DEF RecordCreateFailure, RecordRemoveFailure, fsVars
  <2>2. CASE \E expected \in States, code \in Codes :
               record_failure(job[p].id, expected, code, job[p].now)
    <3>1. PICK expected \in States, code \in Codes :
               record_failure(job[p].id, expected, code, job[p].now)
        BY <2>2
    <3>2. pc[p] \in CreateLabels \cup RemoveLabels
        BY <1>7 DEF RecordCreateFailure, RecordRemoveFailure, CreateLabels, RemoveLabels
    <3>3. job[p].id \in Ids
        BY <3>2 DEF InvocationOK
    <3>4. job[p].id \in Active
        BY <3>1, <3>3, UpdateOk DEF record_failure, FailureOutcome
    <3>5. ErrorRow(workspaces[job[p].id], code, job[p].now).state = "error"
        BY <3>4 DEF ErrorRow, Active, TypeOK, StoreTypeOK, Row
    <3>6. own' = own
        BY <1>7 DEF RecordCreateFailure, RecordRemoveFailure, fsVars
    <3>7. QED BY <3>1, <3>3, <3>4, <3>5, <3>6 DEF record_failure, Doomed, Active, TypeOK, StoreTypeOK
  <2>3. QED BY <1>7, <2>1, <2>2 DEF RecordCreateFailure, RecordRemoveFailure, States
<1>8. CASE Find(p) \/ Preflight(p) \/ AppendLog(p) \/ EnterRemoval(p) \/ Isolate(p)
             \/ EraseTarget(p) \/ ConfirmAbsent(p)
             \/ RemoveStaging(p) \/ RemoveTrash(p)
    BY <1>1, <1>8 DEF Find, Preflight, AppendLog, EnterRemoval, Isolate, EraseTarget, ConfirmAbsent,
                      RemoveStaging, RemoveTrash,
                  RemoveOperationDirectory, Erase, Rmdir, fsVars
<1>9. CASE PersistIsolation(p) \/ BeginRemoval(p) \/ CompleteDeletion(p)
  <2>1. pc[p] \in RemoveSteps \cup {"begin", "complete_deletion"}
      BY <1>9 DEF PersistIsolation, BeginRemoval, CompleteDeletion, RemoveSteps
  <2>2. <<p, job[p].id, "started">> \in log /\ job[p].id \in Ids
      BY <2>1 DEF InvocationOK, RemoveLabels
  <2>3. id # job[p].id => own'[id] = own[id] /\ workspaces'[id] = workspaces[id]
                            /\ (id \in tombstones' => id \in tombstones)
      BY <1>9, <2>2 DEF PersistIsolation, BeginRemoval, CompleteDeletion, begin_removal,
                        complete_deletion, storeVars, fsVars, TypeOK, StoreTypeOK
  <2>4. QED BY <2>2, <2>3 DEF Doomed, Active
<1>10. QED BY <1>2, <1>3, <1>4, <1>5, <1>6, <1>7, <1>8, <1>9 DEF Acts, Step, CreateStep, RemoveStep

-----------------------------------------------------------------------------
(* The invariant *)

(* A fresh installation satisfies the invariant. *)
LEMMA LifecycleInvInitially == Init => LifecycleInv
<1> SUFFICES ASSUME Init PROVE LifecycleInv
    OBVIOUS
<1>1. StoreInv
    BY StoreInvInitially DEF Init
<1>2. NoJob \in Job /\ "idle" \in Labels
    BY DEF NoJob, Job, Labels
<1>3. TypeOK
  <2>1. torn \in BOOLEAN
      BY DEF Init
  <2>2. QED BY <1>1, <1>2, <2>1, BoundsAssumption DEF Init, TypeOK, StoreInv, Contents
<1>4. \A p \in Procs : pc[p] = "idle"
    BY DEF Init
<1>5. (\A p \in Procs : InvocationOK(p)) /\ LockHeld /\ RowsHeld
    BY <1>4 DEF InvocationOK, LockHeld, RowsHeld, Critical, Registered, CreateLabels, RemoveLabels,
                CreateSteps, RemoveSteps, LogSteps
<1>6. StartedBeforeDestruction /\ CompletedMeansGone
    BY DEF Init, StoreInit, StartedBeforeDestruction, CompletedMeansGone, Active
<1>7. QED BY <1>1, <1>3, <1>5, <1>6 DEF LifecycleInv

(* Any step of an invocation keeps the types of what is on disk. *)
LEMMA FilesKeepTypes ==
    ASSUME NEW p \in Procs, TypeOK, InvocationOK(p), RowsHeld, Acts(p) PROVE FilesOK'
<1>1. CASE CreateStep(p)
    BY <1>1, CreateKeepsTypes
<1>2. CASE RemoveStep(p)
    BY <1>2, RemoveKeepsTypes
<1>3. CASE Start(p) \/ Fault(p) \/ Crash(p) \/ AcquireLock(p) \/ LockTimeout(p) \/ CheckFails(p)
  <2>1. CASE Fault(p)
    <3>1. UNCHANGED fsVars /\ UNCHANGED <<occupied, meddle>>
        BY <2>1 DEF Fault
    <3>2. faults' \in 0..MaxFaults
        BY <2>1, BoundsAssumption DEF Fault, TypeOK
    <3>3. torn' \in BOOLEAN
        BY <2>1, CutAppendKeeps DEF Fault
    <3>4. QED BY <3>1, <3>2, <3>3 DEF FilesOK, TypeOK, fsVars
  <2>2. CASE Start(p) \/ Crash(p) \/ AcquireLock(p) \/ LockTimeout(p) \/ CheckFails(p)
    <3>1. UNCHANGED fsVars /\ UNCHANGED <<occupied, faults, meddle>>
        BY <2>2 DEF Start, Crash, AcquireLock, LockTimeout, CheckFails, envVars
    <3>2. torn' = torn \/ CutAppend(p)
        BY <2>2 DEF Start, Crash, AcquireLock, LockTimeout, CheckFails, envVars
    <3>3. torn' \in BOOLEAN
        BY <3>2, CutAppendKeeps DEF TypeOK
    <3>4. QED BY <3>1, <3>3 DEF FilesOK, TypeOK, fsVars
  <2>3. QED BY <1>3, <2>1, <2>2
<1>4. QED BY <1>1, <1>2, <1>3 DEF Acts, Step

(* Every step of an invocation or of a user preserves the invariant. *)
LEMMA LifecycleInvStep == LifecycleInv /\ [Next]_vars => LifecycleInv'
<1> SUFFICES ASSUME LifecycleInv, [Next]_vars PROVE LifecycleInv'
    OBVIOUS
<1>0. /\ TypeOK /\ StoreInv /\ (\A p \in Procs : InvocationOK(p)) /\ LockHeld /\ RowsHeld
      /\ StartedBeforeDestruction /\ CompletedMeansGone
    BY DEF LifecycleInv
<1>1. [StoreNext]_storeVars
    BY <1>0, UsesStore
<1>2. StoreInv' /\ StoreTypeOK' /\ tombstones \subseteq tombstones'
    BY <1>0, <1>1, StoreInvStep, StoreStep DEF StoreInv
<1>3. CASE UNCHANGED vars
    BY <1>0, <1>2, <1>3 DEF LifecycleInv, vars, TypeOK, InvocationOK, LockHeld, RowsHeld, Active,
                     StartedBeforeDestruction, CompletedMeansGone
<1>4. CASE User
  <2>1. UNCHANGED <<storeVars, own, log, lock, pc, job>>
      BY <1>4 DEF User
  <2>2. FilesOK'
      BY <1>0, <1>4, UserKeepsTypes
  <2>3. TypeOK'
      BY <1>0, <1>2, <2>1, <2>2 DEF TypeOK, FilesOK
  <2>4. \A p \in Procs : InvocationOK(p)'
      BY <1>0, <1>2, <2>1, OtherInvocation
  <2>5. /\ LockHeld' /\ RowsHeld' /\ StartedBeforeDestruction' /\ CompletedMeansGone'
      BY <1>0, <2>1 DEF LockHeld, RowsHeld, Active, StartedBeforeDestruction, CompletedMeansGone,
                        storeVars
  <2>6. QED BY <1>2, <2>3, <2>4, <2>5 DEF LifecycleInv
<1>5. ASSUME NEW p \in Procs, Acts(p) PROVE LifecycleInv'
  <2>1. /\ Moved(p) /\ log \subseteq log'
        /\ \A entry \in log' \ log : entry[3] = "completed" => entry[2] \in tombstones'
      BY <1>0, <1>5, ActsMoves
  <2>2. FilesOK'
      BY <1>0, <1>5, FilesKeepTypes
  <2>3. TypeOK'
      BY <1>2, <2>1, <2>2 DEF TypeOK, FilesOK, Moved, ControlOK
  <2>4. \A q \in Procs : InvocationOK(q)'
    <3>1. ASSUME NEW q \in Procs, q # p PROVE InvocationOK(q)'
        BY <1>0, <1>2, <2>1, <3>1, OtherInvocation DEF Moved
    <3>2. QED BY <2>1, <3>1 DEF Moved
  <2>5. LockHeld' /\ RowsHeld'
      BY <1>0, <1>1, <1>5, LockStaysHeld, RowsStayHeld
  <2>6. StartedBeforeDestruction'
    <3>1. SUFFICES ASSUME NEW id \in Ids, Doomed(id)'
                   PROVE  \E q \in Procs : <<q, id, "started">> \in log'
        BY DEF StartedBeforeDestruction, Doomed
    <3>2. Doomed(id) \/ <<p, id, "started">> \in log
        BY <1>0, <1>5, <3>1, DoomedByStarted
    <3>3. Doomed(id) => \E q \in Procs : <<q, id, "started">> \in log
        BY <1>0 DEF StartedBeforeDestruction, Doomed
    <3>4. QED BY <2>1, <3>2, <3>3
  <2>7. CompletedMeansGone'
      BY <1>0, <1>2, <2>1 DEF CompletedMeansGone
  <2>8. QED BY <1>2, <2>3, <2>4, <2>5, <2>6, <2>7 DEF LifecycleInv
<1>6. QED BY <1>3, <1>4, <1>5 DEF Next, Acts

-----------------------------------------------------------------------------
(* Results *)

(* The inductive invariant holds in every reachable state, for any number of
   invocations, crashes, failing calls and user actions. *)
THEOREM LifecycleInvariant == Spec => []LifecycleInv
BY LifecycleInvInitially, LifecycleInvStep, PTL DEF Spec

(* Type correctness of the use cases with the store. *)
THEOREM LifecycleTypeCorrect == Spec => []TypeOK
<1>1. LifecycleInv => TypeOK BY DEF LifecycleInv
<1>2. QED BY <1>1, LifecycleInvariant, PTL

(* Mutual exclusion under lifecycle.lock, and its use: the row that an
   invocation of create_impl or remove works on stays active until it returns. *)
THEOREM InvocationsAreSerialized == Spec => []LifecycleIsSerialized
<1>1. LifecycleInv => LifecycleIsSerialized
    BY DEF LifecycleInv, LockHeld, RowsHeld, Registered, LifecycleIsSerialized
<1>2. QED BY <1>1, LifecycleInvariant, PTL

(* The removal log is ahead of the store and of the directories: nothing is
   Deleting, isolated or tombstoned without a Started event, after any crash. *)
THEOREM IntentIsLogged == Spec => []StartedBeforeDestruction
<1>1. LifecycleInv => StartedBeforeDestruction BY DEF LifecycleInv
<1>2. QED BY <1>1, LifecycleInvariant, PTL

(* A Completed event in the removal log is never ahead of the tombstone. *)
THEOREM CompletionIsTrue == Spec => []CompletedMeansGone
<1>1. LifecycleInv => CompletedMeansGone BY DEF LifecycleInv
<1>2. QED BY <1>1, LifecycleInvariant, PTL

(* The arguments that the use cases hand to the store have the types it expects,
   so what was proved of the store for every caller can be used here. *)
LEMMA LifecycleImplementsStore == Spec => StoreSpec
<1>1. Init => StoreInit
    BY DEF Init
<1>2. LifecycleInv /\ [Next]_vars => [StoreNext]_storeVars
    BY UsesStore DEF LifecycleInv
<1>3. QED BY <1>1, <1>2, LifecycleInvariant, PTL DEF Spec, StoreSpec

(* So what was proved of the store holds under the use cases: a deleted ID
   leaves nothing behind and is never used again. *)
THEOREM LifecycleKeepsTombstones == Spec => []TombstonedIsGone /\ TombstonesAreFinal
BY LifecycleImplementsStore, DeletionLeavesNothing, TombstonesForever, PTL

(***************************************************************************)
(* What happens to the data of a Workspace, proved for every number of     *)
(* invocations, IDs and requests, beside any number of kills, failing      *)
(* calls and user actions: a Ready record stands for a whole copy, a       *)
(* tombstone for data that is gone, foreign data survives, an ambiguous    *)
(* word selects nothing, and the lifecycle implements WorkspaceRegistry.   *)
(*                                                                         *)
(* None of these is inductive by itself, because create and remove reach   *)
(* their commit points in many durable steps.  InvocationData says what    *)
(* an invocation has achieved when it is at a label, IdData what holds of  *)
(* an ID that nobody works on, NamesOK that a directory has one name.      *)
(***************************************************************************)

Publishing == {"materialize", "copying", "fallback", "clear", "rmdir_staging", "clear_trash",
               "rmdir_trash", "complete"}
Verified == {"clear", "rmdir_staging", "clear_trash", "rmdir_trash", "complete"}
Isolating == {"isolate", "rename", "moved", "erase", "erase_rest", "rm_verify", "rm_rmdir",
              "confirm", "complete_deletion"}
Emptied == {"rm_verify", "rm_rmdir", "confirm", "complete_deletion"}

InvocationData(p) ==
    LET id == job[p].id  target == <<"target", id>>
    IN  /\ pc[p] \in CreateSteps \cup {"record_failure"} => workspaces[id].state = "creating"
        /\ pc[p] \in RemoveSteps \cup {"rm_failed", "complete_deletion"}
             => workspaces[id].state = "deleting"
        /\ pc[p] = "mk_target" => target \notin alive
        /\ pc[p] \in {"mk_target", "mk_staging"} => <<"staging", id>> \notin alive
        /\ pc[p] \in {"mk_target", "mk_staging", "mk_trash"} => <<"trash", id>> \notin alive
        /\ pc[p] \in Publishing => own[id] = "published"
        /\ pc[p] \in Verified /\ target \in alive => content[target] = "copy"
        /\ pc[p] \in RemoveSteps \ {"rm_enter"} /\ job[p].at = "isolated" => own[id] = "isolated"
        /\ pc[p] \in Isolating => own[id] = "isolated"
        /\ pc[p] \in RemoveSteps \ {"rm_enter"} /\ target \notin alive
             => content[target] \in {"empty", "foreign"}
        /\ pc[p] \in Emptied => content[target] \in {"empty", "foreign"}

IdData(id) ==
    /\ id \notin Active \cup tombstones
         => own[id] = "absent" /\ \A role \in Roles : <<role, id>> \notin alive
    /\ id \in Active /\ workspaces[id].state = "ready"
         => /\ own[id] = "published"
            /\ <<"target", id>> \in alive => content[<<"target", id>>] = "copy"
    /\ id \in tombstones
         => own[id] = "isolated" /\ content[<<"target", id>>] \in {"empty", "foreign"}

(* A name leads to a directory that exists, and no two names to the same. *)
NamesOK ==
    /\ \A s \in Slots : dir[s] # NoDir => dir[s] \in alive
    /\ \A s, t \in Slots : dir[s] = dir[t] /\ dir[s] # NoDir => s = t

DataInv ==
    /\ \A p \in Procs : InvocationData(p)
    /\ \A id \in Ids : IdData(id)
    /\ NamesOK

-----------------------------------------------------------------------------
(* Steps *)

(* The steps of an invocation that change neither a table nor a directory. *)
Quiet(p) ==
    \/ Start(p) \/ AcquireLock(p) \/ LockTimeout(p) \/ Fault(p) \/ Crash(p) \/ CheckFails(p)
    \/ Lookup(p) \/ Find(p) \/ Preflight(p) \/ AppendLog(p) \/ EnterRemoval(p) \/ ConfirmAbsent(p)

(* Quiet steps leave the tables and the directories alone. *)
LEMMA QuietStep ==
    ASSUME NEW p \in Procs, Quiet(p)
    PROVE  UNCHANGED <<storeVars, fsVars>>
BY DEF Quiet, Start, AcquireLock, LockTimeout, Fault, Crash, CheckFails, Lookup, Find, Preflight,
       AppendLog, EnterRemoval, ConfirmAbsent

(* The steps that change tables. *)
StoreCall(p) ==
    Reserve(p) \/ Complete(p) \/ RecordCreateFailure(p) \/ BeginRemoval(p)
      \/ CompleteDeletion(p) \/ RecordRemoveFailure(p)

(* The steps that change directories. *)
DirCall(p) ==
    \/ Prepare(p) \/ PublishOwnership(p) \/ (\E kind \in ReceiptKinds : Materialize(p, kind))
    \/ Materialized(p) \/ CowUnavailable(p) \/ MaterializeFails(p) \/ Fallback(p)
    \/ ClearIncomplete(p) \/ RemoveStaging(p) \/ RemoveTrash(p) \/ PersistIsolation(p)
    \/ Isolate(p) \/ EraseTarget(p)

(* What an invocation does is quiet, a call of the store or a step on directories. *)
LEMMA ActsSplit ==
    ASSUME NEW p \in Procs, Acts(p)
    PROVE  Quiet(p) \/ StoreCall(p) \/ DirCall(p)
BY DEF Acts, Step, CreateStep, RemoveStep, Quiet, StoreCall, DirCall

(* A store call works on the ID of the invocation and leaves the directories. *)
LEMMA StoreCallFrame ==
    ASSUME NEW p \in Procs, TypeOK, InvocationOK(p), StoreCall(p)
    PROVE  /\ UNCHANGED fsVars
           /\ job[p].id \in Ids
           /\ \A id \in Ids \ {job[p].id} :
                 workspaces'[id] = workspaces[id] /\ (id \in tombstones' <=> id \in tombstones)
<1>1. UNCHANGED fsVars
    BY DEF StoreCall, Reserve, Complete, RecordCreateFailure, BeginRemoval, CompleteDeletion,
           RecordRemoveFailure
<1>2. job[p].id \in Ids
  <2>1. pc[p] \in CreateLabels \cup RemoveLabels
      BY DEF StoreCall, Reserve, Complete, RecordCreateFailure, BeginRemoval, CompleteDeletion,
             RecordRemoveFailure, Passes, CreateLabels, RemoveLabels, CreateSteps
  <2>2. QED BY <2>1 DEF InvocationOK
<1>3. \/ UNCHANGED storeVars
      \/ \E row : workspaces' = [workspaces EXCEPT ![job[p].id] = row]
  <2>1. CASE Reserve(p)
      BY <2>1 DEF Reserve, reserve_workspace
  <2>2. CASE Complete(p)
      BY <2>2 DEF Complete, complete_materialization
  <2>3. CASE RecordCreateFailure(p)
      BY <2>3 DEF RecordCreateFailure, record_failure
  <2>4. CASE BeginRemoval(p)
      BY <2>4 DEF BeginRemoval, begin_removal, storeVars
  <2>5. CASE CompleteDeletion(p)
      BY <2>5 DEF CompleteDeletion, complete_deletion
  <2>6. CASE RecordRemoveFailure(p)
      BY <2>6 DEF RecordRemoveFailure, record_failure, storeVars
  <2>7. QED BY <2>1, <2>2, <2>3, <2>4, <2>5, <2>6 DEF StoreCall
<1>4. tombstones' \in {tombstones, tombstones \cup {job[p].id}}
    BY DEF StoreCall, Reserve, Complete, RecordCreateFailure, BeginRemoval, CompleteDeletion,
           RecordRemoveFailure, reserve_workspace, complete_materialization, record_failure,
           begin_removal, complete_deletion, storeVars
<1>5. QED BY <1>1, <1>2, <1>3, <1>4 DEF TypeOK, StoreTypeOK, storeVars

(* A step on directories leaves the tables, belongs to create or remove after
   the ID is known, and leaves what belongs to other IDs: their documents, the
   contents of their targets, and the directories they do not have. *)
OtherIdsKept(own_id) ==
    \A id \in Ids \ {own_id} :
        /\ own'[id] = own[id]
        /\ content'[<<"target", id>>] = content[<<"target", id>>]
        /\ \A role \in Roles : <<role, id>> \in alive' => <<role, id>> \in alive

(* A step on directories is one of create or remove, with a known ID and no store call. *)
LEMMA DirCallLabels ==
    ASSUME NEW p \in Procs, InvocationOK(p), DirCall(p)
    PROVE  /\ UNCHANGED storeVars
           /\ pc[p] \in CreateSteps \cup RemoveSteps
           /\ job[p].id \in Ids
<1>1. UNCHANGED storeVars
    BY DEF DirCall, Prepare, MakeDir, PublishOwnership, Materialize, Materialized, CowUnavailable,
           MaterializeFails, Fallback, ClearIncomplete, RemoveStaging, RemoveTrash,
           RemoveOperationDirectory, PersistIsolation, Isolate, EraseTarget
<1>2. pc[p] \in CreateSteps \cup RemoveSteps
    BY DEF DirCall, Prepare, MakeDir, PublishOwnership, Materialize, Materialized, CowUnavailable,
           MaterializeFails, Fallback, ClearIncomplete, RemoveStaging, RemoveTrash,
           RemoveOperationDirectory, PersistIsolation, Isolate, EraseTarget, Passes,
           CreateSteps, RemoveSteps
<1>3. QED BY <1>1, <1>2 DEF InvocationOK, CreateLabels, RemoveLabels

(* A step on directories leaves the data of other IDs. *)
LEMMA DirCallFrame ==
    ASSUME NEW p \in Procs, TypeOK, InvocationOK(p), DirCall(p)
    PROVE  OtherIdsKept(job[p].id)
<1> DEFINE mine == job[p].id
<1>0. /\ mine \in Ids /\ own \in [Ids -> {"absent", "published", "isolated"}]
      /\ content \in [Inodes -> Contents]
      /\ \A id \in Ids, role \in Roles : <<role, id>> \in Inodes
      /\ {"target", "staging", "trash"} \subseteq Roles
    BY DirCallLabels DEF TypeOK, Inodes, ToolInodes, Roles
<1> HIDE DEF mine
<1>1. CASE Prepare(p)
  <2>1. PICK role \in Roles : alive' = alive \cup {<<role, mine>>}
      BY <1>0, <1>1 DEF Prepare, MakeDir, mine
  <2>2. UNCHANGED <<content, own>>
      BY <1>1 DEF Prepare, MakeDir
  <2>3. QED BY <2>1, <2>2 DEF OtherIdsKept, mine
<1>2. ASSUME \E slot \in Slots : Rmdir(slot)
      PROVE  OtherIdsKept(mine)
    BY <1>2 DEF Rmdir, OtherIdsKept
<1>3. ASSUME \E t, s, q : SetContent(mine, t, s, q)
      PROVE  OtherIdsKept(mine)
  <2>1. PICK t, s, q : SetContent(mine, t, s, q)
      BY <1>3
  <2>2. \A id \in Ids \ {mine} : content'[<<"target", id>>] = content[<<"target", id>>]
      BY <1>0, <2>1 DEF SetContent
  <2>3. QED BY <2>1, <2>2 DEF SetContent, OtherIdsKept
<1>4. ASSUME \E role \in Roles : \E left : Erase(<<role, mine>>, left)
      PROVE  OtherIdsKept(mine)
  <2>1. PICK role \in Roles : \E left : Erase(<<role, mine>>, left)
      BY <1>4
  <2>2. PICK left : Erase(<<role, mine>>, left)
      BY <2>1
  <2>3. \A id \in Ids \ {mine} : content'[<<"target", id>>] = content[<<"target", id>>]
      BY <1>0, <2>2 DEF Erase
  <2>4. QED BY <2>2, <2>3 DEF Erase, OtherIdsKept
<1>5. ASSUME UNCHANGED fsVars PROVE OtherIdsKept(mine)
    BY <1>5 DEF fsVars, OtherIdsKept
<1>6. {<<"staging", mine>>, <<"trash", mine>>, <<"remove", mine>>} \subseteq Slots
    BY <1>0 DEF Slots
<1>7. CASE PublishOwnership(p) \/ PersistIsolation(p)
    BY <1>0, <1>7 DEF PublishOwnership, PersistIsolation, OtherIdsKept, mine
<1>8. CASE (\E kind \in ReceiptKinds : Materialize(p, kind)) \/ Materialized(p) \/ CowUnavailable(p)
             \/ MaterializeFails(p) \/ Fallback(p)
  <2>1. \E t, s, q : SetContent(mine, t, s, q)
      BY <1>8 DEF Materialize, Materialized, CowUnavailable, MaterializeFails, Fallback, mine
  <2>2. QED BY <1>3, <2>1 DEF mine
<1>9. CASE ClearIncomplete(p)
  <2>1. (UNCHANGED fsVars) \/ Rmdir(<<"staging", mine>>) \/ Rmdir(<<"trash", mine>>)
      BY <1>9 DEF ClearIncomplete, mine
  <2>2. QED BY <1>2, <1>5, <1>6, <2>1 DEF mine
<1>10. CASE RemoveStaging(p)
  <2>1. (UNCHANGED fsVars) \/ Rmdir(<<"staging", mine>>) \/ \E left : Erase(<<"staging", mine>>, left)
      BY <1>10 DEF RemoveStaging, RemoveOperationDirectory, mine
  <2>2. QED BY <1>0, <1>2, <1>4, <1>5, <1>6, <2>1 DEF mine
<1>11. CASE RemoveTrash(p)
  <2>1. (UNCHANGED fsVars) \/ Rmdir(<<"trash", mine>>) \/ \E left : Erase(<<"trash", mine>>, left)
      BY <1>11 DEF RemoveTrash, RemoveOperationDirectory, mine
  <2>2. QED BY <1>0, <1>2, <1>4, <1>5, <1>6, <2>1 DEF mine
<1>12. CASE Isolate(p)
    BY <1>12 DEF Isolate, OtherIdsKept, fsVars
<1>13. CASE EraseTarget(p)
  <2>1. (UNCHANGED fsVars) \/ Rmdir(<<"remove", mine>>) \/ \E left : Erase(<<"target", mine>>, left)
      BY <1>13 DEF EraseTarget, mine
  <2>2. QED BY <1>0, <1>2, <1>4, <1>5, <1>6, <2>1 DEF mine
<1>14. QED BY <1>1, <1>7, <1>8, <1>9, <1>10, <1>11, <1>12, <1>13 DEF DirCall, mine

-----------------------------------------------------------------------------
(* Names *)

(* A new directory under a free name keeps names and directories apart, ... *)
LEMMA NewName ==
    ASSUME NamesOK, dir \in [Slots -> Inodes \cup {NoDir}], NEW slot \in Slots, NEW inode,
           inode \notin alive,
           dir' = [dir EXCEPT ![slot] = inode], alive \cup {inode} \subseteq alive'
    PROVE  NamesOK'
BY DEF NamesOK

(* ... and so does taking a name away, alone or with its directory. *)
LEMMA NameRemoved ==
    ASSUME NamesOK, dir \in [Slots -> Inodes \cup {NoDir}], NEW slot \in Slots,
           dir' = [dir EXCEPT ![slot] = NoDir],
           alive' \in {alive, alive \ {dir[slot]}}
    PROVE  NamesOK'
BY DEF NamesOK

(* The registered target of a row that is there is one of the names. *)
LEMMA RegisteredSlotIsName ==
    ASSUME TypeOK, NEW id \in Active
    PROVE  RegisteredSlot(id) \in Slots
BY DEF RegisteredSlot, Slots, Active, TypeOK, StoreTypeOK, Row, Reservation

(* No step of an invocation gives a directory a second name: what prepare makes
   is new, and the rename frees the old name. *)
LEMMA NamesStep ==
    ASSUME NEW p \in Procs, TypeOK, InvocationOK(p), RowsHeld, InvocationData(p), NamesOK, Acts(p)
    PROVE  NamesOK'
<1> DEFINE id == job[p].id
<1>0. dir \in [Slots -> Inodes \cup {NoDir}]
    BY DEF TypeOK
<1>1. CASE UNCHANGED <<dir, alive>>
    BY <1>1 DEF NamesOK
<1>2. CASE Quiet(p) \/ StoreCall(p)
    BY <1>1, <1>2, QuietStep, StoreCallFrame DEF fsVars
<1>3. CASE DirCall(p)
  <2>1. /\ id \in Ids /\ pc[p] \in CreateSteps \cup RemoveSteps
        /\ id \in Active
      BY <1>3, DirCallLabels DEF RowsHeld, Registered
  <2>2. /\ {<<"staging", id>>, <<"trash", id>>, <<"remove", id>>} \subseteq Slots
        /\ RegisteredSlot(id) \in Slots
      BY <2>1, RegisteredSlotIsName DEF Slots
  <2>3. ASSUME \E slot \in Slots : Rmdir(slot)
        PROVE  NamesOK'
      BY <1>0, <2>3, NameRemoved DEF Rmdir
  <2>4. CASE Prepare(p)
    <3>1. CASE MakeDir(p, "mk_target", RegisteredSlot(id), <<"target", id>>, "mk_staging")
      <4>1. <<"target", id>> \notin alive
          BY <3>1 DEF MakeDir, Passes, InvocationData
      <4>2. QED BY <1>0, <2>2, <3>1, <4>1, NewName DEF MakeDir
    <3>2. CASE MakeDir(p, "mk_staging", <<"staging", id>>, <<"staging", id>>, "mk_trash")
      <4>1. <<"staging", id>> \notin alive
          BY <3>2 DEF MakeDir, Passes, InvocationData
      <4>2. QED BY <1>0, <2>2, <3>2, <4>1, NewName DEF MakeDir
    <3>3. CASE MakeDir(p, "mk_trash", <<"trash", id>>, <<"trash", id>>, "publish")
      <4>1. <<"trash", id>> \notin alive
          BY <3>3 DEF MakeDir, Passes, InvocationData
      <4>2. QED BY <1>0, <2>2, <3>3, <4>1, NewName DEF MakeDir
    <3>4. QED BY <2>4, <3>1, <3>2, <3>3 DEF Prepare
  <2>5. CASE Isolate(p)
    <3>1. CASE UNCHANGED fsVars
        BY <1>1, <3>1 DEF fsVars
    <3>2. CASE /\ Passes(p, "rename") /\ alive' = alive
               /\ dir' = [dir EXCEPT ![<<"remove", id>>] = dir[RegisteredSlot(id)],
                                     ![RegisteredSlot(id)] = NoDir]
      <4>1. dir[<<"remove", id>>] = NoDir
          BY <3>2 DEF Passes, Evidence
      <4>2. QED BY <1>0, <2>2, <3>2, <4>1 DEF NamesOK
    <3>3. QED BY <2>5, <3>1, <3>2 DEF Isolate
  <2>6. CASE ClearIncomplete(p) \/ RemoveStaging(p) \/ RemoveTrash(p) \/ EraseTarget(p)
    <3>1. \/ UNCHANGED <<dir, alive>>
          \/ Rmdir(<<"staging", id>>) \/ Rmdir(<<"trash", id>>) \/ Rmdir(<<"remove", id>>)
        BY <2>6 DEF ClearIncomplete, RemoveStaging, RemoveTrash, RemoveOperationDirectory,
                    EraseTarget, Erase, fsVars
    <3>2. QED BY <1>1, <2>2, <2>3, <3>1
  <2>7. CASE \/ PublishOwnership(p) \/ (\E kind \in ReceiptKinds : Materialize(p, kind))
             \/ Materialized(p) \/ CowUnavailable(p) \/ MaterializeFails(p) \/ Fallback(p)
             \/ PersistIsolation(p)
    <3>1. UNCHANGED <<dir, alive>>
        BY <2>7 DEF PublishOwnership, Materialize, Materialized, CowUnavailable, MaterializeFails,
                    Fallback, PersistIsolation, SetContent
    <3>2. QED BY <1>1, <3>1
  <2>8. QED BY <1>3, <2>4, <2>5, <2>6, <2>7 DEF DirCall
<1>4. QED BY <1>2, <1>3, ActsSplit

(* Users make directories anew, and move one only to a free name. *)
LEMMA UserKeepsNames ==
    ASSUME TypeOK, NamesOK, User
    PROVE  NamesOK'
<1>0. dir \in [Slots -> Inodes \cup {NoDir}]
    BY DEF TypeOK
<1>1. ASSUME NEW slot \in Slots, NEW i \in UserInodes, UserMkdir(slot, i)
      PROVE  NamesOK'
    BY <1>0, <1>1, NewName DEF UserMkdir
<1>2. ASSUME NEW slot \in Slots, NEW i \in Inodes, UserMoveBack(slot, i)
      PROVE  NamesOK'
    BY <1>0, <1>2 DEF UserMoveBack, Unnamed, NamesOK
<1>3. ASSUME NEW slot \in Slots, UserDelete(slot) \/ UserMoveAway(slot)
      PROVE  NamesOK'
    BY <1>0, <1>3, NameRemoved DEF UserDelete, UserMoveAway
<1>4. ASSUME (\E i \in Inodes : UserWrite(i)) \/ (\E id \in Ids : Occupy(id))
      PROVE  NamesOK'
    BY <1>4 DEF UserWrite, Occupy, NamesOK
<1>5. QED BY <1>1, <1>2, <1>3, <1>4 DEF User

-----------------------------------------------------------------------------
(* What an invocation knows about its data *)

Working == CreateSteps \cup RemoveSteps \cup {"record_failure", "rm_failed", "complete_deletion"}

(* It knows nothing before it has a row and after it has returned. *)
LEMMA NothingKnown ==
    ASSUME NEW p \in Procs, pc'[p] \notin Working
    PROVE  InvocationData(p)'
BY DEF InvocationData, Working, Publishing, Verified, Isolating, Emptied, CreateSteps, RemoveSteps

(* Steps that read. *)
LEMMA QuietKeepsData ==
    ASSUME NEW p \in Procs, TypeOK, InvocationOK(p), RowsHeld, InvocationData(p), NamesOK, Quiet(p)
    PROVE  InvocationData(p)'
<1> DEFINE id == job[p].id
<1>0. UNCHANGED <<storeVars, fsVars>>
    BY QuietStep
<1>1. CASE Start(p) \/ AcquireLock(p) \/ LockTimeout(p) \/ Crash(p)
  <2>1. pc'[p] \in {"waiting", "lookup", "find", "done", "crashed"}
      BY <1>1 DEF Start, AcquireLock, LockTimeout, Crash, Select, Finish, TypeOK
  <2>2. QED BY <2>1, NothingKnown DEF Working, CreateSteps, RemoveSteps
<1>2. CASE Fault(p) \/ CheckFails(p)
  <2>1. Fail(p)
      BY <1>2 DEF Fault, CheckFails
  <2>2. CASE Handler(pc[p]) \in {"stop", "log_failed"}
    <3>1. pc'[p] \in {"done", "log_failed"}
        BY <2>1, <2>2 DEF Fail, Finish, Go, TypeOK
    <3>2. QED BY <3>1, NothingKnown DEF Working, CreateSteps, RemoveSteps
  <2>3. CASE pc[p] \in CreateSteps
    <3>1. Handler(pc[p]) = "record_failure"
        BY <2>3 DEF Handler, CreateSteps, RemoveSteps
    <3>2. pc'[p] = "record_failure" /\ job' = job
        BY <2>1, <3>1 DEF Fail, Go, TypeOK
    <3>3. QED BY <1>0, <2>3, <3>2 DEF InvocationData, storeVars, Publishing, Verified, Isolating,
                                      Emptied, CreateSteps, RemoveSteps
  <2>4. CASE pc[p] \in RemoveSteps
    <3>1. Handler(pc[p]) = "rm_failed"
        BY <2>4 DEF Handler, CreateSteps, RemoveSteps
    <3>2. pc'[p] = "rm_failed" /\ job' = job
        BY <2>1, <3>1 DEF Fail, Go, TypeOK
    <3>3. QED BY <1>0, <2>4, <3>2 DEF InvocationData, storeVars, Publishing, Verified, Isolating,
                                      Emptied, CreateSteps, RemoveSteps
  <2>5. QED BY <2>2, <2>3, <2>4 DEF Handler
<1>3. CASE Lookup(p) \/ Find(p) \/ Preflight(p) \/ AppendLog(p)
  <2>1. CASE Lookup(p) \/ Find(p)
    <3>1. pc'[p] \in {"done", "reserve", "preflight", "absent_started"}
        BY <2>1 DEF Lookup, Find, Select, Finish, TypeOK
    <3>2. QED BY <3>1, NothingKnown DEF Working, CreateSteps, RemoveSteps
  <2>2. CASE Preflight(p) \/ AppendLog(p)
    <3>1. pc'[p] \in {"done", "begin", "absent_completed", "log_failed", "log_started", "log_refused"}
        BY <2>2 DEF Preflight, AppendLog, Go, Finish, TypeOK
    <3>2. QED BY <3>1, NothingKnown DEF Working, CreateSteps, RemoveSteps
  <2>3. QED BY <1>3, <2>1, <2>2
<1>4. CASE EnterRemoval(p)
  <2>1. pc[p] = "rm_enter" /\ Locate(id) \in {"active", "isolated"}
      BY <1>4 DEF EnterRemoval, Passes, Evidence
  <2>2. pc'[p] = "rm_staging" /\ job'[p].id = id /\ job'[p].at = Locate(id)
    <3>1. job[p] \in Job
        BY DEF TypeOK
    <3>2. QED BY <1>4, <3>1 DEF EnterRemoval, Select, TypeOK, Job
  <2>3. id \in Active /\ id \in Ids
      BY <2>1 DEF RowsHeld, Registered, RemoveSteps, Active
  <2>4. RegisteredSlot(id) \in Slots /\ <<"remove", id>> \in Slots
      BY <2>3, RegisteredSlotIsName DEF Slots
  <2>5. <<"target", id>> \in Inodes
      BY <2>3 DEF Inodes, ToolInodes, Roles
  <2>6. <<"target", id>> \in {dir[RegisteredSlot(id)], dir[<<"remove", id>>]}
      BY <2>1 DEF Locate
  <2>7. <<"target", id>> \in alive
      BY <2>4, <2>5, <2>6, NoDirAssumption DEF NamesOK
  <2>8. Locate(id) = "isolated" => own[id] = "isolated"
      BY DEF Locate
  <2>9. workspaces[id].state = "deleting"
      BY <2>1 DEF InvocationData, RemoveSteps
  <2>10. QED BY <1>0, <2>2, <2>7, <2>8, <2>9 DEF InvocationData, storeVars, fsVars, Publishing,
                    Verified, Isolating, Emptied, CreateSteps, RemoveSteps
<1>5. CASE ConfirmAbsent(p)
  <2>1. pc[p] = "confirm" /\ pc'[p] = "complete_deletion" /\ job' = job
      BY <1>5 DEF ConfirmAbsent, Passes, Go, TypeOK
  <2>2. QED BY <1>0, <2>1 DEF InvocationData, storeVars, fsVars, Publishing, Verified, Isolating,
                              Emptied, CreateSteps, RemoveSteps
<1>6. QED BY <1>1, <1>2, <1>3, <1>4, <1>5 DEF Quiet

(* Steps that change the row: the state a label stands for is the one that the
   call has just stored or found. *)
LEMMA StoreKeepsData ==
    ASSUME NEW p \in Procs, TypeOK, InvocationOK(p), InvocationData(p), \A id \in Ids : IdData(id),
           StoreCall(p)
    PROVE  InvocationData(p)'
<1> DEFINE id == job[p].id
<1>0. id \in Ids /\ UNCHANGED fsVars
    BY StoreCallFrame
<1>1. CASE Reserve(p)
  <2> DEFINE res == [name |-> job[p].req.name, source |-> job[p].req.source,
                     target |-> job[p].req.target,
                     sourceVolume |-> job[p].req.volume, targetVolume |-> job[p].req.volume,
                     allow |-> job[p].req.allow, created |-> job[p].now]
  <2>1. /\ pc[p] = "reserve" /\ pc'[p] = "mk_target" /\ job' = job
        /\ ReserveOutcome(id, res) = "ok"
        /\ workspaces' = [workspaces EXCEPT ![id] = NewRow(res)]
      BY <1>1 DEF Reserve, reserve_workspace, Go, TypeOK
  <2>2. job[p].req \in CreateRequest /\ job[p].now \in Times
      BY <2>1 DEF InvocationOK, CreateLabels
  <2>3. res \in Reservation
      BY <2>2 DEF CreateRequest, Reservation
  <2> HIDE DEF res
  <2>4. id \notin Active \cup tombstones
      BY <1>0, <2>1, <2>3, ReserveOk DEF InsertGuard
  <2>5. \A role \in Roles : <<role, id>> \notin alive
      BY <1>0, <2>4 DEF IdData
  <2>6. workspaces'[id].state = "creating"
      BY <1>0, <2>1 DEF NewRow, TypeOK, StoreTypeOK
  <2>7. QED BY <1>0, <2>1, <2>5, <2>6 DEF InvocationData, fsVars, Roles, Publishing, Verified,
                    Isolating, Emptied, CreateSteps, RemoveSteps
<1>2. CASE BeginRemoval(p)
  <2>1. pc[p] = "begin"
      BY <1>2 DEF BeginRemoval
  <2>2. CASE Fail(p)
    <3>1. pc'[p] = "log_failed"
        BY <2>1, <2>2 DEF Fail, Handler, Go, CreateSteps, RemoveSteps, TypeOK
    <3>2. QED BY <3>1, NothingKnown DEF Working, CreateSteps, RemoveSteps
  <2>3. CASE begin_removal(id, job[p].state, job[p].req.mode, job[p].now) /\ Go(p, "rm_enter")
    <3>1. pc'[p] = "rm_enter" /\ job' = job
        BY <2>3 DEF Go, TypeOK
    <3>2. workspaces'[id].state = "deleting"
      <4>1. RemovalOutcome(id, job[p].state, job[p].req.mode, job[p].now) = "ok"
          BY <2>3 DEF begin_removal
      <4>2. CASE job[p].state = "deleting"
        <5>1. workspaces' = workspaces
            BY <2>3, <4>2 DEF begin_removal
        <5>2. workspaces[id].state = "deleting"
          <6>1. \A mode : Transition("deleting", BeginRemovalEvent(mode)) \in {"deleting", Rejected}
              BY DEF Transition, BeginRemovalEvent, Rejected
          <6>2. Transition("deleting", BeginRemovalEvent(job[p].req.mode)) = "deleting"
              BY <4>1, <4>2, <6>1 DEF RemovalOutcome
          <6>3. QED BY <4>1, <4>2, <6>2 DEF RemovalOutcome, Rejected
        <5>3. QED BY <5>1, <5>2
      <4>3. CASE job[p].state # "deleting"
        <5>1. workspaces' = [workspaces EXCEPT ![id] = DeletingRow(workspaces[id], job[p].now)]
            BY <2>3, <4>3 DEF begin_removal
        <5>2. \A state, mode : Transition(state, BeginRemovalEvent(mode)) \in {"deleting", Rejected}
            BY DEF Transition, BeginRemovalEvent, Rejected
        <5>3. UpdateOutcome(id, job[p].state, DeletingRow(workspaces[id], job[p].now)) = "ok"
            BY <4>1, <4>3, <5>2 DEF RemovalOutcome, Rejected
        <5>4. id \in Active
            BY <1>0, <5>3, UpdateOk
        <5>5. QED BY <1>0, <5>1, <5>4 DEF DeletingRow, Active, TypeOK, StoreTypeOK, Row
      <4>4. QED BY <4>2, <4>3
    <3>3. QED BY <3>1, <3>2 DEF InvocationData, Publishing, Verified, Isolating, Emptied,
                                CreateSteps, RemoveSteps
  <2>4. QED BY <1>2, <2>2, <2>3 DEF BeginRemoval
<1>3. CASE Complete(p) \/ RecordCreateFailure(p) \/ CompleteDeletion(p) \/ RecordRemoveFailure(p)
  <2>1. pc'[p] \in {"done", "log_completed", "log_failed"}
      BY <1>3 DEF Complete, RecordCreateFailure, CompleteDeletion, RecordRemoveFailure, Finish, Go,
                  TypeOK
  <2>2. QED BY <2>1, NothingKnown DEF Working, CreateSteps, RemoveSteps
<1>4. QED BY <1>1, <1>2, <1>3 DEF StoreCall

(* Steps of a creation on directories: what prepare makes was not there, the
   ownership is published before anything is copied, and what was verified is
   changed by no later step. *)
LEMMA CreationKeepsData ==
    ASSUME NEW p \in Procs, TypeOK, InvocationOK(p), InvocationData(p), DirCall(p),
           pc[p] \in CreateSteps
    PROVE  InvocationData(p)'
<1> DEFINE id == job[p].id
<1>0. /\ id \in Ids /\ UNCHANGED storeVars
      /\ own \in [Ids -> {"absent", "published", "isolated"}] /\ content \in [Inodes -> Contents]
      /\ {<<"target", id>>, <<"staging", id>>, <<"trash", id>>} \subseteq Inodes
      /\ workspaces[id].state = "creating"
    BY DirCallLabels DEF TypeOK, Inodes, ToolInodes, Roles, InvocationData
<1>1. CASE Prepare(p)
  <2>1. CASE MakeDir(p, "mk_target", RegisteredSlot(id), <<"target", id>>, "mk_staging")
    <3>1. pc[p] = "mk_target" /\ pc'[p] = "mk_staging" /\ job' = job
          /\ alive' = alive \cup {<<"target", id>>}
        BY <2>1 DEF MakeDir, Passes, Go, TypeOK
    <3>2. QED BY <1>0, <3>1 DEF InvocationData, storeVars, Publishing, Verified, Isolating, Emptied,
                                CreateSteps, RemoveSteps
  <2>2. CASE MakeDir(p, "mk_staging", <<"staging", id>>, <<"staging", id>>, "mk_trash")
    <3>1. pc[p] = "mk_staging" /\ pc'[p] = "mk_trash" /\ job' = job
          /\ alive' = alive \cup {<<"staging", id>>}
        BY <2>2 DEF MakeDir, Passes, Go, TypeOK
    <3>2. QED BY <1>0, <3>1 DEF InvocationData, storeVars, Publishing, Verified, Isolating, Emptied,
                                CreateSteps, RemoveSteps
  <2>3. CASE MakeDir(p, "mk_trash", <<"trash", id>>, <<"trash", id>>, "publish")
    <3>1. pc'[p] = "publish" /\ job' = job
        BY <2>3 DEF MakeDir, Go, TypeOK
    <3>2. QED BY <1>0, <3>1 DEF InvocationData, storeVars, Publishing, Verified, Isolating, Emptied,
                                CreateSteps, RemoveSteps
  <2>4. QED BY <1>1, <2>1, <2>2, <2>3 DEF Prepare
<1>2. CASE PublishOwnership(p)
  <2>1. pc'[p] = "materialize" /\ job' = job /\ own'[id] = "published"
      BY <1>0, <1>2 DEF PublishOwnership, Go, TypeOK
  <2>2. QED BY <1>0, <2>1 DEF InvocationData, storeVars, Publishing, Verified, Isolating, Emptied,
                              CreateSteps, RemoveSteps
<1>3. CASE (\E kind \in ReceiptKinds : Materialize(p, kind)) \/ Fallback(p) \/ CowUnavailable(p)
             \/ MaterializeFails(p)
  <2>1. pc[p] \in {"materialize", "copying", "fallback"}
      BY <1>3 DEF Materialize, Fallback, CowUnavailable, MaterializeFails, Passes
  <2>2. own[id] = "published" /\ own' = own
      BY <1>3, <2>1 DEF InvocationData, Publishing, Materialize, Fallback, CowUnavailable,
                        MaterializeFails, SetContent
  <2>3. pc'[p] \in {"copying", "fallback", "record_failure"} /\ job'[p].id = id
      BY <1>3 DEF Materialize, Fallback, CowUnavailable, MaterializeFails, Go, Select, TypeOK, Job
  <2>4. QED BY <1>0, <2>2, <2>3 DEF InvocationData, storeVars, Publishing, Verified, Isolating,
                                    Emptied, CreateSteps, RemoveSteps
<1>4. CASE Materialized(p)
  <2>1. pc[p] = "copying" /\ pc'[p] = "clear" /\ job' = job /\ own' = own
      BY <1>4 DEF Materialized, Passes, Go, SetContent, TypeOK
  <2>2. content'[<<"target", id>>] = "copy"
      BY <1>0, <1>4 DEF Materialized, SetContent
  <2>3. QED BY <1>0, <2>1, <2>2 DEF InvocationData, storeVars, Publishing, Verified, Isolating,
                                    Emptied, CreateSteps, RemoveSteps
<1>5. CASE ClearIncomplete(p)
  <2>1. /\ pc[p] \in Verified /\ pc'[p] \in Verified /\ job' = job
        /\ own' = own /\ content' = content /\ alive' \subseteq alive
      BY <1>5 DEF ClearIncomplete, Passes, Go, Rmdir, fsVars, Verified, TypeOK
  <2>2. QED BY <1>0, <2>1 DEF InvocationData, storeVars, Publishing, Verified, Isolating, Emptied,
                              CreateSteps, RemoveSteps
<1>6. CASE RemoveStaging(p) \/ RemoveTrash(p) \/ PersistIsolation(p) \/ Isolate(p) \/ EraseTarget(p)
    BY <1>6 DEF RemoveStaging, RemoveTrash, RemoveOperationDirectory, PersistIsolation, Isolate,
                EraseTarget, Passes, CreateSteps
<1>7. QED BY <1>1, <1>2, <1>3, <1>4, <1>5, <1>6 DEF DirCall

(* Steps of a removal on directories: the isolation path is on record before the
   target is touched, and what rmdir takes away was empty. *)
LEMMA RemovalKeepsData ==
    ASSUME NEW p \in Procs, TypeOK, InvocationOK(p), InvocationData(p), DirCall(p),
           pc[p] \in RemoveSteps
    PROVE  InvocationData(p)'
<1> DEFINE id == job[p].id
           target == <<"target", id>>
<1>0. /\ id \in Ids /\ UNCHANGED storeVars
      /\ own \in [Ids -> {"absent", "published", "isolated"}] /\ content \in [Inodes -> Contents]
      /\ {<<"target", id>>, <<"staging", id>>, <<"trash", id>>} \subseteq Inodes
      /\ workspaces[id].state = "deleting"
    BY DirCallLabels DEF TypeOK, Inodes, ToolInodes, Roles, InvocationData
<1>1. CASE RemoveStaging(p) \/ RemoveTrash(p)
  <2>1. PICK kind \in {"staging", "trash"} :
          LET slot == <<kind, id>> IN
          \/ UNCHANGED fsVars
          \/ Erase(slot, "empty")
          \/ CanRmdir(slot) /\ Rmdir(slot)
    <3>1. ASSUME RemoveStaging(p)
          PROVE  \/ UNCHANGED fsVars \/ Erase(<<"staging", id>>, "empty")
                 \/ CanRmdir(<<"staging", id>>) /\ Rmdir(<<"staging", id>>)
        BY <3>1 DEF RemoveStaging, RemoveOperationDirectory, Passes, Evidence
    <3>2. ASSUME RemoveTrash(p)
          PROVE  \/ UNCHANGED fsVars \/ Erase(<<"trash", id>>, "empty")
                 \/ CanRmdir(<<"trash", id>>) /\ Rmdir(<<"trash", id>>)
        BY <3>2 DEF RemoveTrash, RemoveOperationDirectory, Passes, Evidence
    <3>3. QED BY <1>1, <3>1, <3>2
  <2>2. /\ pc[p] \in {"rm_staging", "rm_verify_staging", "rm_rmdir_staging", "rm_trash",
                      "rm_verify_trash", "rm_rmdir_trash"}
        /\ pc'[p] \in {"rm_verify_staging", "rm_rmdir_staging", "rm_trash",
                       "rm_verify_trash", "rm_rmdir_trash", "persist"}
        /\ job' = job
      BY <1>1 DEF RemoveStaging, RemoveTrash, RemoveOperationDirectory, Passes, Go, TypeOK
  <2>3. /\ own' = own /\ content'[target] = content[target]
        /\ target \notin alive' => target \notin alive \/ content[target] = "empty"
      BY <1>0, <2>1 DEF Erase, Rmdir, CanRmdir, fsVars
  <2>4. QED BY <1>0, <2>2, <2>3 DEF InvocationData, storeVars, Publishing, Verified, Isolating,
                                    Emptied, CreateSteps, RemoveSteps
<1>2. CASE PersistIsolation(p)
  <2>1. /\ pc[p] = "persist" /\ pc'[p] \in {"isolate", "erase"} /\ job' = job
        /\ content' = content /\ alive' = alive
      BY <1>2 DEF PersistIsolation, Go, TypeOK
  <2>2. own'[id] = "isolated"
      BY <1>0, <1>2, <2>1 DEF PersistIsolation, InvocationData, RemoveSteps
  <2>3. QED BY <1>0, <2>1, <2>2 DEF InvocationData, storeVars, Publishing, Verified, Isolating,
                                    Emptied, CreateSteps, RemoveSteps
<1>3. CASE Isolate(p)
  <2>1. /\ pc[p] \in {"isolate", "rename", "moved"} /\ pc'[p] \in {"rename", "moved", "erase"}
        /\ job'[p].id = id
        /\ content' = content /\ alive' = alive /\ own' = own
      BY <1>3 DEF Isolate, Passes, Go, Select, fsVars, TypeOK, Job
  <2>2. own[id] = "isolated"
      BY <2>1 DEF InvocationData, Isolating
  <2>3. QED BY <1>0, <2>1, <2>2 DEF InvocationData, storeVars, Publishing, Verified, Isolating,
                                    Emptied, CreateSteps, RemoveSteps
<1>4. CASE EraseTarget(p)
  <2>1. job' = job
      BY <1>4 DEF EraseTarget, Go
  <2>2. own[id] = "isolated" /\ own' = own
      BY <1>4 DEF EraseTarget, Erase, Rmdir, fsVars, Passes, InvocationData, Isolating
  <2>3. CASE pc[p] = "erase"
    <3>1. /\ pc'[p] = "erase_rest" /\ alive' = alive
          /\ content'[target] = IF content[target] = "copy" THEN "partial" ELSE content[target]
        BY <1>0, <1>4, <2>3 DEF EraseTarget, Erase, Passes, Go, TypeOK
    <3>2. QED BY <1>0, <2>1, <2>2, <2>3, <3>1 DEF InvocationData, storeVars, Publishing, Verified,
                      Isolating, Emptied, CreateSteps, RemoveSteps
  <2>4. CASE pc[p] \in {"erase_rest", "rm_verify", "rm_rmdir"}
    <3>1. pc'[p] \in Emptied
        BY <1>4, <2>4 DEF EraseTarget, Passes, Go, Emptied, TypeOK
    <3>2. content'[target] \in {"empty", "foreign"}
        BY <1>0, <1>4, <2>4 DEF EraseTarget, Erase, Rmdir, Passes, fsVars, InvocationData, Emptied
    <3>3. QED BY <1>0, <2>1, <2>2, <3>1, <3>2 DEF InvocationData, storeVars, Publishing, Verified,
                      Isolating, Emptied, CreateSteps, RemoveSteps
  <2>5. QED BY <1>4, <2>3, <2>4 DEF EraseTarget, Passes
<1>5. CASE \/ Prepare(p) \/ PublishOwnership(p) \/ (\E kind \in ReceiptKinds : Materialize(p, kind))
           \/ Materialized(p) \/ CowUnavailable(p) \/ MaterializeFails(p) \/ Fallback(p)
           \/ ClearIncomplete(p)
    BY <1>5 DEF Prepare, MakeDir, PublishOwnership, Materialize, Materialized, CowUnavailable,
                MaterializeFails, Fallback, ClearIncomplete, Passes, RemoveSteps
<1>6. QED BY <1>1, <1>2, <1>3, <1>4, <1>5 DEF DirCall

(* All that a user can do to a directory the tool made: destroy it with what is
   in it, or fill it while it exists and is empty. *)
LEMMA UserOnToolInodes ==
    ASSUME TypeOK, User, NEW i \in ToolInodes
    PROVE  /\ i \in alive' => i \in alive
           /\ \/ content'[i] = content[i] /\ (i \in alive => i \in alive')
              \/ content'[i] = content[i] /\ content[i] = "empty"
              \/ content'[i] = "empty" /\ i \notin alive'
              \/ content[i] = "empty" /\ content'[i] = "foreign"
<1>0. /\ dir \in [Slots -> Inodes \cup {NoDir}] /\ content \in [Inodes -> Contents]
      /\ i \in Inodes /\ i \notin UserInodes
    BY DEF TypeOK, Inodes, ToolInodes, UserInodes, Roles
<1>1. ASSUME NEW slot \in Slots, UserDelete(slot)
      PROVE  /\ i \in alive' => i \in alive
             /\ \/ content'[i] = content[i] /\ (i \in alive => i \in alive')
                \/ content'[i] = "empty" /\ i \notin alive'
    BY <1>0, <1>1 DEF UserDelete
<1>2. ASSUME NEW slot \in Slots, NEW u \in UserInodes, UserMkdir(slot, u)
      PROVE  (i \in alive' <=> i \in alive) /\ content'[i] = content[i]
    BY <1>0, <1>2 DEF UserMkdir
<1>3. ASSUME NEW slot \in Slots,
             UserMoveAway(slot) \/ (\E j \in Inodes : UserMoveBack(slot, j))
                \/ (\E id \in Ids : Occupy(id))
      PROVE  alive' = alive /\ content' = content
    BY <1>3 DEF UserMoveAway, UserMoveBack, Occupy
<1>4. ASSUME NEW j \in Inodes, UserWrite(j)
      PROVE  /\ alive' = alive
             /\ content'[i] = content[i] \/ (content[i] = "empty" /\ content'[i] = "foreign")
    BY <1>0, <1>4 DEF UserWrite
<1>5. ASSUME NEW id \in Ids, Occupy(id)
      PROVE  alive' = alive /\ content' = content
    BY <1>5 DEF Occupy
<1>6. QED BY <1>1, <1>2, <1>3, <1>4, <1>5 DEF User

(* So no user takes from an invocation or an ID what it knows. *)
LEMMA UserKeepsData ==
    ASSUME TypeOK, User, \A p \in Procs : InvocationOK(p)
    PROVE  /\ \A p \in Procs : InvocationData(p) => InvocationData(p)'
           /\ \A id \in Ids : IdData(id) => IdData(id)'
<1>0. UNCHANGED <<storeVars, own, pc, job>>
    BY DEF User
<1>1. ASSUME NEW role \in Roles, NEW id \in Ids
      PROVE  <<role, id>> \in alive' => <<role, id>> \in alive
    BY UserOnToolInodes DEF ToolInodes
<1>2. ASSUME NEW id \in Ids
      PROVE  /\ (<<"target", id>> \in alive => content[<<"target", id>>] = "copy")
                  => (<<"target", id>> \in alive' => content'[<<"target", id>>] = "copy")
             /\ content[<<"target", id>>] \in {"empty", "foreign"}
                  => content'[<<"target", id>>] \in {"empty", "foreign"}
             /\ (<<"target", id>> \notin alive => content[<<"target", id>>] \in {"empty", "foreign"})
                  => (<<"target", id>> \notin alive'
                        => content'[<<"target", id>>] \in {"empty", "foreign"})
  <2> DEFINE i == <<"target", id>>
  <2>1. i \in ToolInodes
      BY DEF ToolInodes, Roles
  <2> HIDE DEF i
  <2>2. /\ i \in alive' => i \in alive
        /\ \/ content'[i] = content[i] /\ (i \in alive => i \in alive')
           \/ content'[i] = content[i] /\ content[i] = "empty"
           \/ content'[i] = "empty" /\ i \notin alive'
           \/ content[i] = "empty" /\ content'[i] = "foreign"
      BY <2>1, UserOnToolInodes
  <2>3. QED BY <2>2 DEF i
<1>3. ASSUME NEW p \in Procs, InvocationData(p) PROVE InvocationData(p)'
  <2>1. CASE pc[p] \in Working
    <3>1. job[p].id \in Ids
        BY <2>1 DEF Working, InvocationOK, CreateLabels, RemoveLabels
    <3>2. {"target", "staging", "trash"} \subseteq Roles
        BY DEF Roles
    <3>3. QED BY <1>0, <1>1, <1>2, <1>3, <3>1, <3>2 DEF InvocationData, storeVars
  <2>2. CASE pc[p] \notin Working
      BY <1>0, <2>2, NothingKnown
  <2>3. QED BY <2>1, <2>2
<1>4. ASSUME NEW id \in Ids, IdData(id) PROVE IdData(id)'
    BY <1>0, <1>1, <1>2, <1>4 DEF IdData, storeVars, Active
<1>5. QED BY <1>3, <1>4

-----------------------------------------------------------------------------
(* What holds of an ID *)

(* A store call gives the row of its ID a new state, or takes the row away. *)
LEMMA StoreCallState ==
    ASSUME NEW p \in Procs, TypeOK, InvocationOK(p), StoreCall(p)
    PROVE  LET id == job[p].id IN
           \/ UNCHANGED storeVars
           \/ Reserve(p) /\ id \in Active' /\ workspaces'[id].state = "creating"
                 /\ tombstones' = tombstones
           \/ Complete(p) /\ tombstones' = tombstones
           \/ /\ id \in Active /\ tombstones' = tombstones
              /\ workspaces'[id].state \in {"error", "deleting"}
           \/ CompleteDeletion(p) /\ id \notin Active' /\ tombstones' = tombstones \cup {id}
<1> DEFINE id == job[p].id
<1>0. id \in Ids
    BY StoreCallFrame
<1>1. CASE Reserve(p)
  <2> DEFINE res == [name |-> job[p].req.name, source |-> job[p].req.source,
                     target |-> job[p].req.target,
                     sourceVolume |-> job[p].req.volume, targetVolume |-> job[p].req.volume,
                     allow |-> job[p].req.allow, created |-> job[p].now]
  <2>1. /\ pc[p] = "reserve" /\ tombstones' = tombstones
        /\ workspaces' = [workspaces EXCEPT ![id] = NewRow(res)]
      BY <1>1 DEF Reserve, reserve_workspace
  <2>2. job[p].req \in CreateRequest /\ job[p].now \in Times
      BY <2>1 DEF InvocationOK, CreateLabels
  <2>3. res \in Reservation
      BY <2>2 DEF CreateRequest, Reservation
  <2> HIDE DEF res
  <2>4. NewRow(res) \in Row /\ NewRow(res).state = "creating"
      BY <2>3 DEF NewRow, Row, Reservation, States, NoCode
  <2>5. workspaces'[id] = NewRow(res)
      BY <1>0, <2>1 DEF TypeOK, StoreTypeOK
  <2>6. QED BY <1>0, <1>1, <2>1, <2>4, <2>5, NoRowAssumption DEF Active
<1>2. CASE Complete(p)
    BY <1>2 DEF Complete, complete_materialization
<1>3. CASE RecordCreateFailure(p) \/ RecordRemoveFailure(p)
  <2>1. CASE UNCHANGED storeVars
      BY <2>1
  <2>2. CASE \E expected, code : record_failure(id, expected, code, job[p].now)
    <3>1. PICK expected, code : record_failure(id, expected, code, job[p].now)
        BY <2>2
    <3>2. id \in Active
        BY <1>0, <3>1, UpdateOk DEF record_failure, FailureOutcome
    <3>3. workspaces'[id].state = "error"
        BY <1>0, <3>1, <3>2 DEF record_failure, ErrorRow, Active, TypeOK, StoreTypeOK, Row
    <3>4. QED BY <3>1, <3>2, <3>3 DEF record_failure
  <2>3. QED BY <1>3, <2>1, <2>2 DEF RecordCreateFailure, RecordRemoveFailure
<1>4. CASE BeginRemoval(p)
  <2>1. CASE UNCHANGED storeVars
      BY <2>1
  <2>2. CASE begin_removal(id, job[p].state, job[p].req.mode, job[p].now) /\ job[p].state # "deleting"
    <3>1. workspaces' = [workspaces EXCEPT ![id] = DeletingRow(workspaces[id], job[p].now)]
        BY <2>2 DEF begin_removal
    <3>2. \A state, mode : Transition(state, BeginRemovalEvent(mode)) \in {"deleting", Rejected}
        BY DEF Transition, BeginRemovalEvent, Rejected
    <3>3. UpdateOutcome(id, job[p].state, DeletingRow(workspaces[id], job[p].now)) = "ok"
        BY <2>2, <3>2 DEF begin_removal, RemovalOutcome, Rejected
    <3>4. id \in Active
        BY <1>0, <3>3, UpdateOk
    <3>5. workspaces'[id].state = "deleting"
        BY <1>0, <3>1, <3>4 DEF DeletingRow, Active, TypeOK, StoreTypeOK, Row
    <3>6. QED BY <2>2, <3>4, <3>5 DEF begin_removal
  <2>3. CASE begin_removal(id, job[p].state, job[p].req.mode, job[p].now) /\ job[p].state = "deleting"
      BY <2>1, <2>3 DEF begin_removal, storeVars
  <2>4. QED BY <1>4, <2>1, <2>2, <2>3 DEF BeginRemoval
<1>5. CASE CompleteDeletion(p)
    BY <1>0, <1>5 DEF CompleteDeletion, complete_deletion, Active, TypeOK, StoreTypeOK
<1>6. QED BY <1>1, <1>2, <1>3, <1>4, <1>5 DEF StoreCall

(* The steps of an invocation keep what holds of its ID and of all others:
   Ready is committed after the verification, the tombstone after the erasure,
   and a new ID gets its row before its first directory. *)
LEMMA ActsKeepIds ==
    ASSUME NEW p \in Procs, TypeOK, StoreInv, [StoreNext]_storeVars, InvocationOK(p), RowsHeld,
           InvocationData(p),
           \A id \in Ids : IdData(id), Acts(p)
    PROVE  \A id \in Ids : IdData(id)'
<1>1. CASE UNCHANGED <<storeVars, fsVars>>
    BY <1>1 DEF IdData, storeVars, fsVars, Active
<1>2. CASE Quiet(p)
    BY <1>1, <1>2, QuietStep
<1>3. CASE DirCall(p)
  <2>0. PICK mine \in Ids : mine = job[p].id
      BY <1>3, DirCallLabels
  <2>1. /\ mine \in Active /\ UNCHANGED storeVars
        /\ workspaces[mine].state \in {"creating", "deleting"}
      BY <1>3, <2>0, DirCallLabels DEF RowsHeld, Registered, InvocationData
  <2>2. mine \notin tombstones
      BY <2>1 DEF StoreInv, TombstonedIsGone
  <2>3. IdData(mine)'
      BY <2>1, <2>2 DEF IdData, storeVars, Active
  <2>4. ASSUME NEW id \in Ids \ {mine} PROVE IdData(id)'
    <3>1. /\ own'[id] = own[id] /\ content'[<<"target", id>>] = content[<<"target", id>>]
          /\ \A role \in Roles : <<role, id>> \in alive' => <<role, id>> \in alive
        BY <1>3, <2>0, DirCallFrame DEF OtherIdsKept
    <3>2. "target" \in Roles
        BY DEF Roles
    <3>3. QED BY <2>1, <3>1, <3>2 DEF IdData, storeVars, Active
  <2>5. QED BY <2>3, <2>4
<1>4. CASE StoreCall(p)
  <2>0. PICK mine \in Ids : mine = job[p].id
      BY <1>4, StoreCallFrame
  <2>1. /\ UNCHANGED fsVars
        /\ \A id \in Ids \ {mine} :
              workspaces'[id] = workspaces[id] /\ (id \in tombstones' <=> id \in tombstones)
      BY <1>4, <2>0, StoreCallFrame
  <2>2. \A id \in Ids \ {mine} : IdData(id)'
      BY <2>1 DEF IdData, fsVars, Active
  <2>3. IdData(mine)'
    <3>1. CASE UNCHANGED storeVars
        BY <1>1, <2>1, <3>1
    <3>2. CASE Reserve(p) /\ mine \in Active' /\ workspaces'[mine].state = "creating"
                 /\ tombstones' = tombstones
      <4>1. pc[p] = "reserve" /\ mine \notin tombstones
        <5>1. pc[p] = "reserve" /\ \E res : ReserveOutcome(mine, res) = "ok"
            BY <2>0, <3>2 DEF Reserve, reserve_workspace
        <5>2. \A res : ReserveOutcome(mine, res) = "ok" => InsertGuard(mine, NewRow(res))
            BY DEF ReserveOutcome
        <5>3. QED BY <5>1, <5>2 DEF InsertGuard
      <4>2. QED BY <3>2, <4>1 DEF IdData
    <3>3. CASE Complete(p) /\ tombstones' = tombstones
      <4>1. /\ own[mine] = "published"
            /\ <<"target", mine>> \in alive => content[<<"target", mine>>] = "copy"
          BY <2>0, <3>3 DEF Complete, Passes, InvocationData, Publishing, Verified
      <4>2. mine \in Active /\ mine \notin tombstones
          BY <2>0, <3>3 DEF Complete, complete_materialization, CompleteOutcome, StoreInv, TombstonedIsGone
      <4>3. workspaces'[mine] = ReadyRow(workspaces[mine], job[p].now)
          BY <2>0, <3>3 DEF Complete, complete_materialization, TypeOK, StoreTypeOK
      <4>4. ReadyRow(workspaces[mine], job[p].now) # NoRow
        <5>1. pc[p] = "complete"
            BY <3>3 DEF Complete, Passes
        <5>2. job[p].now \in Times
            BY <5>1 DEF InvocationOK, CreateLabels, CreateSteps
        <5>3. ReadyRow(workspaces[mine], job[p].now) \in Row
            BY <4>2, <5>2 DEF ReadyRow, Active, TypeOK, StoreTypeOK, Row, States, NoCode
        <5>4. QED BY <5>3, NoRowAssumption
      <4>5. mine \in Active'
          BY <2>1, <4>3, <4>4 DEF Active
      <4>6. QED BY <2>1, <3>3, <4>1, <4>2, <4>5 DEF IdData, fsVars
    <3>4. CASE /\ mine \in Active /\ tombstones' = tombstones
               /\ workspaces'[mine].state \in {"error", "deleting"}
      <4>1. mine \notin tombstones
          BY <3>4 DEF StoreInv, TombstonedIsGone
      <4>2. mine \in Active'
          BY <3>4, StoreStep DEF RowStep, Active
      <4>3. QED BY <3>4, <4>1, <4>2 DEF IdData
    <3>5. CASE CompleteDeletion(p) /\ mine \notin Active' /\ tombstones' = tombstones \cup {mine}
      <4>1. own[mine] = "isolated" /\ content[<<"target", mine>>] \in {"empty", "foreign"}
          BY <2>0, <3>5 DEF CompleteDeletion, InvocationData, Emptied, Isolating
      <4>2. QED BY <2>1, <3>5, <4>1 DEF IdData, fsVars
    <3>6. QED BY <1>4, <2>0, <3>1, <3>2, <3>3, <3>4, <3>5, StoreCallState
  <2>4. QED BY <2>2, <2>3
<1>5. QED BY <1>2, <1>3, <1>4, ActsSplit

-----------------------------------------------------------------------------
(* The invariant of the data *)

(* While one invocation acts under the lock, the others know nothing that it
   could disturb. *)
LEMMA ActsKeepInvocations ==
    ASSUME NEW p \in Procs, TypeOK, \A q \in Procs : InvocationOK(q), LockHeld, RowsHeld,
           \A q \in Procs : InvocationData(q), \A id \in Ids : IdData(id), NamesOK, Acts(p)
    PROVE  \A q \in Procs : InvocationData(q)'
<1>1. InvocationData(p)'
  <2>1. CASE Quiet(p)
      BY <2>1, QuietKeepsData
  <2>2. CASE StoreCall(p)
      BY <2>2, StoreKeepsData
  <2>3. CASE DirCall(p)
      BY <2>3, DirCallLabels, CreationKeepsData, RemovalKeepsData
  <2>4. QED BY <2>1, <2>2, <2>3, ActsSplit
<1>2. ASSUME NEW q \in Procs \ {p} PROVE InvocationData(q)'
  <2>1. pc'[q] = pc[q] /\ job'[q] = job[q]
      BY ActsMoves DEF Moved
  <2>2. CASE lock = p
    <3>1. pc[q] \notin Critical
        BY <2>2 DEF LockHeld
    <3>2. Working \subseteq Critical
        BY DEF Working, Critical, Labels, CreateSteps, RemoveSteps
    <3>3. QED BY <2>1, <3>1, <3>2, NothingKnown
  <2>3. CASE Start(p) \/ AcquireLock(p) \/ LockTimeout(p)
    <3>1. UNCHANGED <<storeVars, fsVars>>
        BY <2>3 DEF Start, AcquireLock, LockTimeout
    <3>2. QED BY <2>1, <3>1 DEF InvocationData, storeVars, fsVars
  <2>4. QED BY <2>2, <2>3, HolderActs
<1>3. QED BY <1>1, <1>2

(* Nothing is there in a fresh installation. *)
LEMMA DataInvInitially == Init => DataInv
<1> SUFFICES ASSUME Init PROVE DataInv
    OBVIOUS
<1>1. \A p \in Procs : pc[p] = "idle"
    BY DEF Init
<1>2. \A p \in Procs : InvocationData(p)
    BY <1>1 DEF InvocationData, Publishing, Verified, Isolating, Emptied, CreateSteps, RemoveSteps
<1>3. \A id \in Ids : IdData(id)
    BY DEF Init, StoreInit, IdData, Active
<1>4. NamesOK
    BY DEF Init, NamesOK
<1>5. QED BY <1>2, <1>3, <1>4 DEF DataInv

(* Every step of an invocation or of a user preserves it. *)
LEMMA DataInvStep == LifecycleInv /\ DataInv /\ [Next]_vars => DataInv'
<1> SUFFICES ASSUME LifecycleInv, DataInv, [Next]_vars PROVE DataInv'
    OBVIOUS
<1>0. /\ TypeOK /\ StoreInv /\ (\A p \in Procs : InvocationOK(p)) /\ LockHeld /\ RowsHeld
      /\ (\A p \in Procs : InvocationData(p)) /\ (\A id \in Ids : IdData(id)) /\ NamesOK
    BY DEF LifecycleInv, DataInv
<1>1. [StoreNext]_storeVars
    BY <1>0, UsesStore
<1>2. CASE UNCHANGED vars
    BY <1>0, <1>2 DEF vars, DataInv, InvocationData, IdData, NamesOK, Active
<1>3. CASE User
    BY <1>0, <1>3, UserKeepsData, UserKeepsNames DEF DataInv
<1>4. ASSUME NEW p \in Procs, Acts(p) PROVE DataInv'
  <2>1. \A q \in Procs : InvocationData(q)'
      BY <1>0, <1>4, ActsKeepInvocations
  <2>2. \A id \in Ids : IdData(id)'
      BY <1>0, <1>1, <1>4, ActsKeepIds
  <2>3. NamesOK'
      BY <1>0, <1>4, NamesStep
  <2>4. QED BY <2>1, <2>2, <2>3 DEF DataInv
<1>5. QED BY <1>2, <1>3, <1>4 DEF Next, Acts

-----------------------------------------------------------------------------
(* Results *)

(* What invocations know of the data, and what holds of the data of every ID,
   is true in every reachable state, after any number of kills, failing calls
   and user actions. *)
THEOREM DataInvariant == Spec => [](LifecycleInv /\ DataInv)
<1>1. Init => LifecycleInv /\ DataInv
    BY LifecycleInvInitially, DataInvInitially
<1>2. LifecycleInv /\ DataInv /\ [Next]_vars => LifecycleInv' /\ DataInv'
    BY LifecycleInvStep, DataInvStep
<1>3. QED BY <1>1, <1>2, PTL DEF Spec

(* A Ready record stands for a published, verified copy, however create_impl was
   cut short and whatever users did since, short of destroying the directory. *)
THEOREM ReadyStandsForCopy == Spec => []ReadyIsIntact
<1>1. DataInv => ReadyIsIntact
    BY DEF DataInv, IdData, ReadyIsIntact, Active
<1>2. QED BY <1>1, DataInvariant, PTL

(* remove commits the tombstone only when it has proved and recorded which
   directory it removes and nothing that create copied is left there, also when
   users renamed or replaced directories between its steps. *)
THEOREM TombstoneNeedsErasure == Spec => []TombstoneMeansErased
<1>1. LifecycleInv /\ DataInv => TombstoneMeansErased
    BY DEF LifecycleInv, TypeOK, StoreTypeOK, DataInv, IdData, TombstoneMeansErased
<1>2. QED BY <1>1, DataInvariant, PTL

-----------------------------------------------------------------------------
(* Foreign data *)

(* What a user made and filled is neither written nor removed by the tool: it
   writes only to directories of its own, and rmdir takes only empty ones. *)
LEMMA ToolSparesUserInodes ==
    ASSUME NEW p \in Procs, TypeOK, InvocationOK(p), DirCall(p),
           NEW i \in UserInodes, i \in alive, content[i] # "empty"
    PROVE  i \in alive' /\ content'[i] = content[i]
<1> DEFINE id == job[p].id
<1>0. /\ id \in Ids /\ content \in [Inodes -> Contents] /\ i \in Inodes
      /\ \A role \in Roles : <<role, id>> # i
      /\ {"target", "staging", "trash"} \subseteq Roles
    BY DirCallLabels DEF TypeOK, Inodes, UserInodes, Roles
<1>1. CASE Prepare(p) \/ PublishOwnership(p) \/ PersistIsolation(p) \/ Isolate(p)
    BY <1>1 DEF Prepare, MakeDir, PublishOwnership, PersistIsolation, Isolate, fsVars
<1>2. CASE (\E kind \in ReceiptKinds : Materialize(p, kind)) \/ Materialized(p) \/ CowUnavailable(p)
             \/ MaterializeFails(p) \/ Fallback(p)
  <2>1. PICK t, s, q : SetContent(id, t, s, q)
      BY <1>2 DEF Materialize, Materialized, CowUnavailable, MaterializeFails, Fallback
  <2>2. QED BY <1>0, <2>1 DEF SetContent
<1>3. CASE ClearIncomplete(p) \/ RemoveStaging(p) \/ RemoveTrash(p) \/ EraseTarget(p)
  <2>1. \/ UNCHANGED fsVars
        \/ \E role \in Roles : \E left : Erase(<<role, id>>, left)
        \/ \E slot : CanRmdir(slot) /\ Rmdir(slot)
      BY <1>0, <1>3 DEF ClearIncomplete, RemoveStaging, RemoveTrash, RemoveOperationDirectory,
                        EraseTarget, Passes, Evidence
  <2>2. CASE \E role \in Roles : \E left : Erase(<<role, id>>, left)
    <3>1. PICK role \in Roles : \E left : Erase(<<role, id>>, left)
        BY <2>2
    <3>2. QED BY <1>0, <3>1 DEF Erase
  <2>3. CASE \E slot : CanRmdir(slot) /\ Rmdir(slot)
      BY <2>3 DEF CanRmdir, Rmdir
  <2>4. QED BY <2>1, <2>2, <2>3 DEF fsVars
<1>4. QED BY <1>1, <1>2, <1>3 DEF DirCall

(* Foreign data under the names of the tool survives every step of the tool. *)
THEOREM ForeignDataIsSpared == Spec => ForeignDataSurvives
<1>1. ASSUME LifecycleInv, [Next]_vars, meddle' = meddle,
             NEW i \in UserInodes, i \in alive, content[i] # "empty"
      PROVE  i \in alive' /\ content'[i] = content[i]
  <2>0. TypeOK /\ \A p \in Procs : InvocationOK(p)
      BY <1>1 DEF LifecycleInv
  <2>1. CASE UNCHANGED vars
      BY <1>1, <2>1 DEF vars
  <2>2. CASE User
      BY <1>1, <2>0, <2>2, BoundsAssumption DEF User, TypeOK
  <2>3. ASSUME NEW p \in Procs, Acts(p) PROVE i \in alive' /\ content'[i] = content[i]
    <3>1. CASE Quiet(p) \/ StoreCall(p)
        BY <1>1, <2>0, <3>1, QuietStep, StoreCallFrame DEF fsVars
    <3>2. CASE DirCall(p)
        BY <1>1, <2>0, <3>2, ToolSparesUserInodes
    <3>3. QED BY <2>3, <3>1, <3>2, ActsSplit
  <2>4. QED BY <1>1, <2>1, <2>2, <2>3 DEF Next, Acts
<1>2. ASSUME LifecycleInv, [Next]_vars
      PROVE  meddle' = meddle =>
                \A i \in UserInodes : i \in alive /\ content[i] # "empty"
                    => i \in alive' /\ content'[i] = content[i]
    BY <1>1, <1>2
<1>3. QED BY <1>2, LifecycleInvariant, PTL DEF Spec, ForeignDataSurvives

-----------------------------------------------------------------------------
(* Which Workspace a word selects *)

(* A word that is a name and an ID, and an invocation with nothing selected. *)
SelectionOK(p) ==
    /\ pc[p] \notin Critical => job[p].id = NoId
    /\ job[p].id # NoId /\ job[p].req.op = "remove" /\ job[p].req.by = "both"
          => Denoted(job[p].req) \subseteq {job[p].id}

(* Only a reservation makes a new ID known. *)
LEMMA KnownIds ==
    ASSUME NEW p \in Procs, TypeOK, StoreInv, [StoreNext]_storeVars, InvocationOK(p), Acts(p)
    PROVE  (Active \cup tombstones)' \subseteq Active \cup tombstones \/ Reserve(p)
<1>1. CASE Quiet(p) \/ DirCall(p)
  <2>1. UNCHANGED storeVars
      BY <1>1, QuietStep, DirCallLabels
  <2>2. QED BY <2>1 DEF storeVars, Active
<1>2. CASE StoreCall(p)
  <2>0. PICK mine \in Ids : mine = job[p].id
      BY <1>2, StoreCallFrame
  <2>1. \A id \in Ids \ {mine} :
           workspaces'[id] = workspaces[id] /\ (id \in tombstones' <=> id \in tombstones)
      BY <1>2, <2>0, StoreCallFrame
  <2>2. Reserve(p) \/ mine \in Active \/ (mine \notin Active' /\ (mine \in tombstones' => mine \in tombstones))
    <3>1. CASE UNCHANGED storeVars
        BY <3>1 DEF storeVars, Active
    <3>2. CASE Complete(p)
        BY <2>0, <3>2 DEF Complete, complete_materialization, CompleteOutcome
    <3>3. CASE CompleteDeletion(p)
        BY <2>0, <3>3, DeletionOk DEF CompleteDeletion, complete_deletion
    <3>4. QED BY <1>2, <2>0, <3>1, <3>2, <3>3, StoreCallState
  <2>3. tombstones' \subseteq Ids
      BY StoreInvStep DEF StoreInv, StoreTypeOK
  <2>4. QED BY <2>1, <2>2, <2>3 DEF Active
<1>3. QED BY <1>1, <1>2, ActsSplit

(* Only a reservation lets a word denote more than before: rows keep their names. *)
LEMMA DenotesLess ==
    ASSUME NEW p \in Procs, TypeOK, StoreInv, [StoreNext]_storeVars, InvocationOK(p), Acts(p),
           ~Reserve(p), NEW req
    PROVE  Denoted(req)' \subseteq Denoted(req)
<1>1. (Active \cup tombstones)' \subseteq Active \cup tombstones
    BY KnownIds
<1>2. ASSUME NEW id \in Active' PROVE id \in Active /\ workspaces'[id].res = workspaces[id].res
  <2>1. id \in Ids /\ workspaces'[id] # NoRow
      BY <1>2 DEF Active
  <2>2. id \notin tombstones
      BY <2>1, StoreStep, StoreInvStep DEF StoreInv, TombstonedIsGone, Active
  <2>3. id \in Active
      BY <1>1, <2>2
  <2>4. RowStep(id)
      BY <2>3, StoreStep
  <2>5. QED BY <2>1, <2>3, <2>4 DEF RowStep, Active
<1>3. QED BY <1>1, <1>2 DEF Denoted

(* The step that looks a word up selects all that the word denotes, or nothing. *)
LEMMA FindSelects ==
    ASSUME NEW p \in Procs, TypeOK, StoreInv, Find(p)
    PROVE  \/ pc'[p] = "done" /\ job'[p] = NoJob
           \/ /\ pc'[p] \in Critical /\ job'[p].req = job[p].req
              /\ job[p].req.by = "both" => Denoted(job[p].req) \subseteq {job'[p].id}
<1> DEFINE req == job[p].req
           named == {id \in Active : req.by # "id" /\ workspaces[id].res.name = req.name}
           identified == {id \in Active : req.by # "name" /\ id = req.id}
           old == req.by # "name" /\ req.id \in tombstones
<1>0. {"preflight", "absent_started"} \subseteq Critical
    BY DEF Critical, Labels, LogSteps
<1>1. CASE \E result : Finish(p, result)
    BY <1>1 DEF Finish, TypeOK
<1>2. ASSUME NEW id \in named \cup identified,
             ~(named # {} /\ (old \/ (identified # {} /\ identified # named))),
             Select(p, "preflight", [job[p] EXCEPT !.id = id, !.state = workspaces[id].state])
      PROVE  /\ pc'[p] \in Critical /\ job'[p].req = req
             /\ req.by = "both" => Denoted(req) \subseteq {job'[p].id}
  <2>1. pc'[p] = "preflight" /\ job'[p].req = req /\ job'[p].id = id
      BY <1>2 DEF Select, TypeOK, Job
  <2>2. ASSUME req.by = "both" PROVE Denoted(req) \subseteq {id}
    <3>1. named = {other \in Active : workspaces[other].res.name = req.name}
        BY <2>2
    <3>2. \A a, b \in named : a = b
        BY <3>1 DEF StoreInv, ReservationsAreExclusive
    <3>3. Denoted(req) = named \cup ({req.id} \cap (Active \cup tombstones))
        BY <3>1 DEF Denoted
    <3>4. CASE named # {}
      <4>1. req.id \notin tombstones /\ (identified = {} \/ identified = named)
          BY <1>2, <2>2, <3>4
      <4>2. id \in named
          BY <1>2, <4>1
      <4>3. req.id \in Active => req.id \in named
          BY <2>2, <4>1
      <4>4. QED BY <3>2, <3>3, <4>1, <4>2, <4>3
    <3>5. CASE named = {}
        BY <1>2, <3>3, <3>5
    <3>6. QED BY <3>4, <3>5
  <2>3. QED BY <1>0, <2>1, <2>2
<1>3. CASE /\ named \cup identified = {}
           /\ Select(p, "absent_started", [job[p] EXCEPT !.id = req.id])
  <2>1. pc'[p] = "absent_started" /\ job'[p].req = req /\ job'[p].id = req.id
      BY <1>3 DEF Select, TypeOK, Job
  <2>2. req.by = "both" => Denoted(req) \subseteq {req.id}
      BY <1>3 DEF Denoted
  <2>3. QED BY <1>0, <2>1, <2>2
<1> HIDE DEF named, identified, old
<1>4. \/ \E result : Finish(p, result)
      \/ /\ ~(named # {} /\ (old \/ (identified # {} /\ identified # named)))
         /\ \E id \in named \cup identified :
               Select(p, "preflight", [job[p] EXCEPT !.id = id, !.state = workspaces[id].state])
      \/ /\ named \cup identified = {}
         /\ Select(p, "absent_started", [job[p] EXCEPT !.id = req.id])
    BY DEF Find, named, identified, old
<1>5. QED BY <1>1, <1>2, <1>3, <1>4

(* Every other step leaves the selection alone or drops it. *)
LEMMA SelectionKept ==
    ASSUME NEW p \in Procs, TypeOK, InvocationOK(p), Acts(p), ~Find(p)
    PROVE  \/ pc'[p] \notin Critical /\ job'[p].id = NoId
           \/ pc'[p] \in Critical /\ job'[p].req = job[p].req /\ job'[p].id = job[p].id
                /\ ~Reserve(p) /\ ~Lookup(p)
           \/ pc'[p] \in Critical /\ job'[p].req \in CreateRequest
           \/ pc'[p] \notin Critical /\ job'[p].id = job[p].id /\ pc[p] \notin Critical
<1>0. NoJob.id = NoId
    BY DEF NoJob
<1>1. ASSUME NEW result, Finish(p, result) PROVE pc'[p] \notin Critical /\ job'[p].id = NoId
    BY <1>0, <1>1 DEF Finish, Critical, TypeOK
<1>2. ASSUME NEW label, Go(p, label) PROVE pc'[p] = label /\ job'[p] = job[p]
    BY <1>2 DEF Go, TypeOK
<1>3. CASE Start(p) \/ Crash(p)
  <2>1. pc'[p] \in {"waiting", "crashed"} /\ job'[p].id = NoId
    <3>1. CASE Start(p)
      <4>1. PICK r, now : Select(p, "waiting", [NoJob EXCEPT !.req = r, !.now = now])
          BY <3>1 DEF Start
      <4>2. QED BY <4>1 DEF Select, NoJob, TypeOK
    <3>2. CASE Crash(p)
        BY <1>0, <3>2 DEF Crash, TypeOK
    <3>3. QED BY <1>3, <3>1, <3>2
  <2>2. QED BY <2>1 DEF Critical
<1>4. CASE LockTimeout(p)
    BY <1>1, <1>4 DEF LockTimeout
<1>5. CASE AcquireLock(p)
  <2>1. pc'[p] \in {"lookup", "find"} /\ job'[p] = job[p]
      BY <1>5 DEF AcquireLock, TypeOK
  <2>2. ~Reserve(p) /\ ~Lookup(p)
      BY <1>5 DEF AcquireLock, Reserve, Lookup
  <2>3. QED BY <2>1, <2>2 DEF Critical, Labels
<1>6. CASE Lookup(p) \/ Reserve(p)
  <2>1. pc[p] \in {"lookup", "reserve"}
      BY <1>6 DEF Lookup, Reserve
  <2>2. job[p].req \in CreateRequest
      BY <2>1 DEF InvocationOK, CreateLabels
  <2>3. (\E result : Finish(p, result)) \/ (pc'[p] \in Critical /\ job'[p].req = job[p].req)
    <3>1. CASE Reserve(p)
        BY <1>2, <3>1 DEF Reserve, Critical, Labels, CreateSteps
    <3>2. CASE Lookup(p)
      <4>1. CASE \E id : Select(p, "reserve", [job[p] EXCEPT !.id = id])
          BY <4>1 DEF Select, Critical, Labels, TypeOK, Job
      <4>2. QED BY <3>2, <4>1 DEF Lookup
    <3>3. QED BY <1>6, <3>1, <3>2
  <2>4. QED BY <1>1, <2>2, <2>3
<1>7. CASE Fault(p) \/ CheckFails(p)
  <2>1. Fail(p)
      BY <1>7 DEF Fault, CheckFails
  <2>2. CASE Handler(pc[p]) = "stop"
      BY <1>1, <2>1, <2>2 DEF Fail
  <2>3. CASE Handler(pc[p]) # "stop"
    <3>1. Handler(pc[p]) \in {"record_failure", "rm_failed", "log_failed"}
        BY <2>3 DEF Handler
    <3>2. pc'[p] \in Critical /\ job'[p] = job[p]
        BY <1>2, <2>1, <2>3, <3>1 DEF Fail, Critical, Labels, LogSteps
    <3>3. CASE pc[p] \in {"lookup", "reserve"}
        BY <3>2, <3>3 DEF InvocationOK, CreateLabels
    <3>4. CASE pc[p] \notin {"lookup", "reserve"}
        BY <3>2, <3>4 DEF Lookup, Reserve
    <3>5. QED BY <3>3, <3>4
  <2>4. QED BY <2>2, <2>3
<1>8. CASE CreateStep(p) /\ ~Lookup(p) /\ ~Reserve(p)
  <2>1. (\E result : Finish(p, result)) \/ (\E label \in Critical : Go(p, label))
          \/ (\E kind : Select(p, "copying", [job[p] EXCEPT !.kind = kind]))
      BY <1>8 DEF CreateStep, Prepare, MakeDir, PublishOwnership, Materialize, Materialized,
                  CowUnavailable, MaterializeFails, Fallback, ClearIncomplete, Complete,
                  RecordCreateFailure, Critical, Labels, CreateSteps
  <2>2. ASSUME NEW kind, Select(p, "copying", [job[p] EXCEPT !.kind = kind])
        PROVE  pc'[p] \in Critical /\ job'[p].req = job[p].req /\ job'[p].id = job[p].id
      BY <2>2 DEF Select, Critical, Labels, CreateSteps, TypeOK, Job
  <2>3. QED BY <1>1, <1>2, <1>8, <2>1, <2>2
<1>9. CASE RemoveStep(p) /\ ~Find(p)
  <2>1. (\E result : Finish(p, result)) \/ (\E label \in Critical : Go(p, label))
          \/ (\E label \in Critical : \E at : Select(p, label, [job[p] EXCEPT !.at = at]))
    <3>1. CASE Preflight(p) \/ AppendLog(p) \/ ConfirmAbsent(p) \/ CompleteDeletion(p)
                 \/ RecordRemoveFailure(p) \/ PersistIsolation(p) \/ EraseTarget(p)
                 \/ RemoveStaging(p) \/ RemoveTrash(p)
        BY <3>1 DEF Preflight, AppendLog, ConfirmAbsent, CompleteDeletion, RecordRemoveFailure,
                    PersistIsolation, EraseTarget, RemoveStaging, RemoveTrash,
                    RemoveOperationDirectory, Critical, Labels, RemoveSteps, LogSteps
    <3>2. CASE BeginRemoval(p)
      <4>1. Handler("begin") = "log_failed"
          BY DEF Handler, CreateSteps, RemoveSteps
      <4>2. QED BY <3>2, <4>1 DEF BeginRemoval, Fail, Critical, Labels, RemoveSteps, LogSteps
    <3>3. CASE EnterRemoval(p) \/ Isolate(p)
        BY <3>3 DEF EnterRemoval, Isolate, Critical, Labels, RemoveSteps
    <3>4. QED BY <1>9, <3>1, <3>2, <3>3 DEF RemoveStep
  <2>2. ASSUME NEW label \in Critical, NEW at, Select(p, label, [job[p] EXCEPT !.at = at])
        PROVE  pc'[p] \in Critical /\ job'[p].req = job[p].req /\ job'[p].id = job[p].id
      BY <2>2 DEF Select, TypeOK, Job
  <2>3. ~Reserve(p) /\ ~Lookup(p)
      BY <1>9 DEF RemoveStep, Find, Preflight, AppendLog, BeginRemoval, EnterRemoval,
                  RemoveStaging, RemoveTrash,
                  RemoveOperationDirectory, PersistIsolation, Isolate, EraseTarget, ConfirmAbsent,
                  CompleteDeletion, RecordRemoveFailure, Passes, Reserve, Lookup
  <2>4. QED BY <1>1, <1>2, <2>1, <2>2, <2>3
<1>10. QED BY <1>3, <1>4, <1>5, <1>6, <1>7, <1>8, <1>9 DEF Acts, Step

(* Nobody else reserves an ID while a removal has one selected. *)
LEMMA SelectionStep ==
    LifecycleInv /\ (\A p \in Procs : SelectionOK(p)) /\ [Next]_vars
        => (\A p \in Procs : SelectionOK(p))'
<1> SUFFICES ASSUME LifecycleInv, \A p \in Procs : SelectionOK(p), [Next]_vars, NEW q \in Procs
             PROVE  SelectionOK(q)'
    OBVIOUS
<1>0. TypeOK /\ StoreInv /\ (\A p \in Procs : InvocationOK(p)) /\ LockHeld
    BY DEF LifecycleInv
<1>1. [StoreNext]_storeVars
    BY <1>0, UsesStore
<1>2. CASE UNCHANGED vars \/ User
    BY <1>2 DEF vars, User, storeVars, SelectionOK, Active, Denoted
<1>3. ASSUME NEW p \in Procs, Acts(p) PROVE SelectionOK(q)'
  <2>1. ASSUME NEW r, job[q].req = r, job'[q].req = r, job'[q].id = job[q].id, ~Reserve(p)
        PROVE  job'[q].id # NoId /\ r.op = "remove" /\ r.by = "both"
                  => Denoted(r)' \subseteq {job'[q].id}
    <3>1. Denoted(r)' \subseteq Denoted(r)
        BY <1>0, <1>1, <1>3, <2>1, DenotesLess
    <3>2. QED BY <2>1, <3>1 DEF SelectionOK
  <2>2. \A r \in CreateRequest : r.op # "remove"
      BY DEF CreateRequest
  <2>3. CASE q # p
    <3>1. pc'[q] = pc[q] /\ job'[q] = job[q]
        BY <1>0, <1>3, <2>3, ActsMoves DEF Moved
    <3>2. CASE Reserve(p)
      <4>1. pc[p] \in Critical
          BY <3>2 DEF Reserve, Critical, Labels
      <4>2. pc[q] \notin Critical
          BY <1>0, <2>3, <4>1 DEF LockHeld
      <4>3. QED BY <3>1, <4>2 DEF SelectionOK
    <3>3. CASE ~Reserve(p)
        BY <2>1, <3>1, <3>3 DEF SelectionOK, Denoted
    <3>4. QED BY <3>2, <3>3
  <2>4. CASE q = p /\ Find(p)
    <3>1. Active' = Active /\ workspaces' = workspaces /\ tombstones' = tombstones
        BY <2>4 DEF Find, storeVars, Active
    <3>2. NoJob.id = NoId
        BY DEF NoJob
    <3>3. CASE pc'[p] = "done" /\ job'[p] = NoJob
        BY <2>4, <3>2, <3>3 DEF SelectionOK
    <3>4. CASE /\ pc'[p] \in Critical /\ job'[p].req = job[p].req
               /\ job[p].req.by = "both" => Denoted(job[p].req) \subseteq {job'[p].id}
        BY <2>4, <3>1, <3>4 DEF SelectionOK, Denoted
    <3>5. QED BY <1>0, <2>4, <3>3, <3>4, FindSelects
  <2>5. CASE q = p /\ ~Find(p)
    <3>1. CASE pc'[p] \notin Critical /\ job'[p].id = NoId
        BY <2>5, <3>1 DEF SelectionOK
    <3>2. CASE /\ pc'[p] \in Critical /\ job'[p].req = job[p].req /\ job'[p].id = job[p].id
               /\ ~Reserve(p)
        BY <2>1, <2>5, <3>2 DEF SelectionOK, Denoted
    <3>3. CASE pc'[p] \in Critical /\ job'[p].req \in CreateRequest
        BY <2>2, <2>5, <3>3 DEF SelectionOK
    <3>4. CASE pc'[p] \notin Critical /\ job'[p].id = job[p].id /\ pc[p] \notin Critical
        BY <2>5, <3>4 DEF SelectionOK
    <3>5. QED BY <1>0, <1>3, <2>5, <3>1, <3>2, <3>3, <3>4, SelectionKept
  <2>6. QED BY <2>3, <2>4, <2>5
<1>4. QED BY <1>2, <1>3 DEF Next, Acts

(* A word that names one Workspace and is the ID of another, active or deleted,
   selects neither: a removal that goes on has selected all that its word denotes
   (RemoveTarget::Ambiguous). *)
THEOREM AmbiguousWordSelectsNothing == Spec => []AmbiguousSelectsNothing
<1>1. Init => \A p \in Procs : SelectionOK(p)
    BY DEF Init, SelectionOK, Critical, NoJob
<1>2. (\A p \in Procs : SelectionOK(p)) => AmbiguousSelectsNothing
    BY DEF SelectionOK, AmbiguousSelectsNothing
<1>3. QED BY <1>1, <1>2, SelectionStep, LifecycleInvariant, PTL DEF Spec

-----------------------------------------------------------------------------
(* The promise of WorkspaceRegistry *)

Same(id) == Life(id)' = Life(id) /\ Data(id)' = Data(id)

(* The steps of WorkspaceRegistry, as they look for one ID here. *)
Moves(id) ==
    \/ Life(id)' = Life(id) /\ Data(id)' \in {"none", "lost"}
    \/ Life(id) = "creating" /\ Life(id)' = "creating" /\ Data(id)' \in {"none", "some", "whole"}
    \/ /\ Life(id) = "removing" /\ Life(id)' = "removing"
       /\ Data(id) # "none" /\ Data(id)' \in {"none", "some"}
    \/ Life(id) = "unused" /\ Life(id)' = "creating" /\ Data(id)' = Data(id)
    \/ /\ Life(id) = "creating" /\ Life(id)' = "ready"
       /\ Data(id) \in {"whole", "lost"} /\ Data(id)' = Data(id)
    \/ Life(id) \in {"creating", "removing"} /\ Life(id)' = "failed" /\ Data(id)' = Data(id)
    \/ /\ Life(id) \in {"creating", "ready", "failed"} /\ Life(id)' = "removing"
       /\ Data(id)' = Data(id)
    \/ Life(id) = "removing" /\ Life(id)' = "gone" /\ Data(id) = "none" /\ Data(id)' = Data(id)

lives == [id \in Ids |-> Life(id)]
amounts == [id \in Ids |-> Data(id)]

(* One ID moves and the others stay: a step of WorkspaceRegistry. *)
LEMMA OneMoves ==
    ASSUME NEW id \in Ids, Moves(id), \A other \in Ids \ {id} : Same(other)
    PROVE  Registry!Next
<1>1. /\ lives' = [i \in Ids |-> Life(i)'] /\ amounts' = [i \in Ids |-> Data(i)']
      /\ lives[id] = Life(id) /\ amounts[id] = Data(id)
    BY DEF lives, amounts
<1>2. /\ lives' = [lives EXCEPT ![id] = Life(id)']
      /\ amounts' = [amounts EXCEPT ![id] = Data(id)']
    BY <1>1 DEF lives, amounts, Same
<1>3. Life(id)' = Life(id) => lives' = lives
    BY <1>1, <1>2 DEF lives
<1>4. Data(id)' = Data(id) => amounts' = amounts
    BY <1>1, <1>2 DEF amounts
<1>5. CASE Life(id)' = Life(id) /\ Data(id)' \in {"none", "lost"}
  <2>1. Registry!UserDestroys(id)
      BY <1>2, <1>3, <1>5 DEF Registry!UserDestroys, lives, amounts
  <2>2. QED BY <2>1 DEF Registry!Next
<1>6. CASE Life(id) = "creating" /\ Life(id)' = "creating" /\ Data(id)' \in {"none", "some", "whole"}
  <2>1. Registry!Fill(id)
      BY <1>1, <1>2, <1>3, <1>6 DEF Registry!Fill, Registry!Amounts, lives, amounts
  <2>2. QED BY <2>1 DEF Registry!Next
<1>7. CASE /\ Life(id) = "removing" /\ Life(id)' = "removing"
           /\ Data(id) # "none" /\ Data(id)' \in {"none", "some"}
  <2>1. Registry!Erase(id)
      BY <1>1, <1>2, <1>3, <1>7 DEF Registry!Erase, lives, amounts
  <2>2. QED BY <2>1 DEF Registry!Next
<1>8. CASE Data(id)' = Data(id) /\ Life(id) = "unused" /\ Life(id)' = "creating"
  <2>1. Registry!Begin(id)
      BY <1>1, <1>2, <1>4, <1>8 DEF Registry!Begin, Registry!Become, lives, amounts
  <2>2. QED BY <2>1 DEF Registry!Next
<1>9. CASE /\ Life(id) = "creating" /\ Life(id)' = "ready"
           /\ Data(id) \in {"whole", "lost"} /\ Data(id)' = Data(id)
  <2>1. Registry!Publish(id)
      BY <1>1, <1>2, <1>4, <1>9 DEF Registry!Publish, Registry!Become, lives, amounts
  <2>2. QED BY <2>1 DEF Registry!Next
<1>10. CASE Life(id) \in {"creating", "removing"} /\ Life(id)' = "failed" /\ Data(id)' = Data(id)
  <2>1. Registry!GiveUp(id)
      BY <1>1, <1>2, <1>4, <1>10 DEF Registry!GiveUp, Registry!Become, lives, amounts
  <2>2. QED BY <2>1 DEF Registry!Next
<1>11. CASE /\ Life(id) \in {"creating", "ready", "failed"} /\ Life(id)' = "removing"
            /\ Data(id)' = Data(id)
  <2>1. Registry!Retire(id)
      BY <1>1, <1>2, <1>4, <1>11 DEF Registry!Retire, Registry!Become, lives, amounts
  <2>2. QED BY <2>1 DEF Registry!Next
<1>12. CASE /\ Life(id) = "removing" /\ Life(id)' = "gone" /\ Data(id) = "none"
            /\ Data(id)' = Data(id)
  <2>1. Registry!Forget(id)
      BY <1>1, <1>2, <1>4, <1>12 DEF Registry!Forget, Registry!Become, lives, amounts
  <2>2. QED BY <2>1 DEF Registry!Next
<1>13. QED BY <1>5, <1>6, <1>7, <1>8, <1>9, <1>10, <1>11, <1>12 DEF Moves

(* A life depends on the tables alone, the data on one directory and the document. *)
LEMMA LifeSame ==
    ASSUME StoreTypeOK, UNCHANGED storeVars, NEW id \in Ids
    PROVE  Life(id)' = Life(id)
<1>1. workspaces' = workspaces /\ tombstones' = tombstones /\ Active' = Active
    BY DEF storeVars, Active
<1>2. id \in Active => workspaces[id].state \in States
    BY DEF StoreTypeOK, Row, Active
<1>3. QED BY <1>1, <1>2 DEF Life, States

(* What the registry sees of the data of an ID depends on its document and its target only. *)
LEMMA DataSame ==
    ASSUME content \in [Inodes -> Contents], NEW id \in Ids,
           own'[id] = own[id], content'[<<"target", id>>] = content[<<"target", id>>],
           <<"target", id>> \in alive' <=> <<"target", id>> \in alive
    PROVE  Data(id)' = Data(id)
<1>1. content[<<"target", id>>] \in Contents
    BY DEF Inodes, ToolInodes, Roles
<1>2. QED BY <1>1 DEF Data, Contents

(* A step that touches one directory and leaves the tables moves one ID at most. *)
Allowed == (\A id \in Ids : Same(id)) \/ Registry!Next

(* A step that touches one directory is a stutter or a step of the registry. *)
LEMMA OneDirectoryMoves ==
    ASSUME TypeOK, UNCHANGED storeVars, own' = own, NEW j,
           \A i \in ToolInodes \ {j} : content'[i] = content[i] /\ (i \in alive' <=> i \in alive),
           \A id \in Ids : j = <<"target", id>> => Same(id) \/ Moves(id)
    PROVE  Allowed
<1>1. ASSUME NEW id \in Ids, j # <<"target", id>> PROVE Same(id)
  <2>1. <<"target", id>> \in ToolInodes \ {j}
      BY <1>1 DEF ToolInodes, Roles
  <2>2. QED BY <2>1, LifeSame, DataSame DEF Same, TypeOK
<1>2. CASE \A id \in Ids : j # <<"target", id>>
    BY <1>1, <1>2 DEF Allowed
<1>3. ASSUME NEW id \in Ids, j = <<"target", id>> PROVE Allowed
  <2>1. \A other \in Ids \ {id} : Same(other)
      BY <1>1, <1>3
  <2>2. CASE Same(id)
      BY <2>1, <2>2 DEF Allowed
  <2>3. CASE Moves(id)
      BY <2>1, <2>3, OneMoves DEF Allowed
  <2>4. QED BY <1>3, <2>2, <2>3
<1>4. QED BY <1>2, <1>3

(* What a user does touches one directory. *)
LEMMA UserTouchesOne ==
    ASSUME TypeOK, User
    PROVE  \E j : \A i \in ToolInodes \ {j} :
                content'[i] = content[i] /\ (i \in alive' <=> i \in alive)
<1>0. content \in [Inodes -> Contents] /\ ToolInodes \subseteq Inodes
    BY DEF TypeOK, Inodes
<1>1. ASSUME NEW slot \in Slots, UserDelete(slot)
      PROVE  \A i \in ToolInodes \ {dir[slot]} :
                content'[i] = content[i] /\ (i \in alive' <=> i \in alive)
    BY <1>0, <1>1 DEF UserDelete
<1>2. ASSUME NEW slot \in Slots, NEW j \in UserInodes, UserMkdir(slot, j)
      PROVE  \A i \in ToolInodes \ {j} :
                content'[i] = content[i] /\ (i \in alive' <=> i \in alive)
    BY <1>0, <1>2 DEF UserMkdir
<1>3. ASSUME NEW j \in Inodes, UserWrite(j)
      PROVE  \A i \in ToolInodes \ {j} :
                content'[i] = content[i] /\ (i \in alive' <=> i \in alive)
    BY <1>0, <1>3 DEF UserWrite
<1>4. CASE \/ \E slot \in Slots : UserMoveAway(slot) \/ \E j \in Inodes : UserMoveBack(slot, j)
           \/ \E id \in Ids : Occupy(id)
    BY <1>4 DEF UserMoveAway, UserMoveBack, Occupy
<1>5. QED BY <1>1, <1>2, <1>3, <1>4 DEF User

(* A user can only destroy what a Workspace holds. *)
LEMMA UserIsAllowed ==
    ASSUME TypeOK, User PROVE Allowed
<1>1. UNCHANGED storeVars /\ own' = own
    BY DEF User
<1>2. PICK j : \A i \in ToolInodes \ {j} :
                    content'[i] = content[i] /\ (i \in alive' <=> i \in alive)
    BY UserTouchesOne
<1>3. ASSUME NEW id \in Ids PROVE Same(id) \/ Moves(id)
  <2> DEFINE i == <<"target", id>>
  <2>1. i \in ToolInodes
      BY DEF ToolInodes, Roles
  <2>2. content \in [Inodes -> Contents] /\ i \in Inodes
      BY <2>1 DEF TypeOK, Inodes
  <2>3. Life(id)' = Life(id)
      BY <1>1, LifeSame DEF TypeOK
  <2>4. Data(id)' = Data(id) \/ Data(id)' \in {"none", "lost"}
    <3>1. \/ content'[i] = content[i] /\ (i \in alive' <=> i \in alive)
          \/ content'[i] \in {"empty", "foreign"}
        BY <2>1, UserOnToolInodes
    <3>2. CASE content'[i] = content[i] /\ (i \in alive' <=> i \in alive)
        BY <1>1, <2>2, <3>2, DataSame
    <3>3. CASE content'[i] \in {"empty", "foreign"}
        BY <3>3 DEF Data
    <3>4. QED BY <3>1, <3>2, <3>3
  <2>5. QED BY <2>3, <2>4 DEF Same, Moves
<1>4. QED BY <1>1, <1>2, <1>3, OneDirectoryMoves

(* rmdir takes away an empty directory, so at most the place of the data. *)
LEMMA RmdirIsAllowed ==
    ASSUME TypeOK, UNCHANGED storeVars, NEW slot, CanRmdir(slot), Rmdir(slot)
    PROVE  Allowed
<1>1. own' = own /\ content' = content /\ alive' = alive \ {dir[slot]}
    BY DEF Rmdir
<1>2. ASSUME NEW id \in Ids, dir[slot] = <<"target", id>> PROVE Same(id) \/ Moves(id)
  <2>1. content'[<<"target", id>>] = "empty"
      BY <1>1, <1>2 DEF CanRmdir
  <2>2. Data(id)' \in {"none", "lost"}
      BY <2>1 DEF Data
  <2>3. QED BY <2>2, LifeSame DEF Moves, TypeOK
<1>3. QED BY <1>1, <1>2, OneDirectoryMoves

(* A step that leaves the tables and what belongs to all other IDs. *)
LEMMA OneIdTouched ==
    ASSUME TypeOK, UNCHANGED storeVars, NEW mine \in Ids,
           \A id \in Ids \ {mine} :
              /\ own'[id] = own[id] /\ content'[<<"target", id>>] = content[<<"target", id>>]
              /\ <<"target", id>> \in alive' <=> <<"target", id>> \in alive,
           Data(mine)' = Data(mine) \/ Moves(mine)
    PROVE  Allowed
<1>1. \A id \in Ids \ {mine} : Same(id)
    BY LifeSame, DataSame DEF Same, TypeOK
<1>2. CASE Data(mine)' = Data(mine)
    BY <1>1, <1>2, LifeSame DEF Allowed, Same, TypeOK
<1>3. CASE Moves(mine)
    BY <1>1, <1>3, OneMoves DEF Allowed
<1>4. QED BY <1>2, <1>3

(* The amounts that a directory and a document stand for. *)
LEMMA DataIs ==
    ASSUME content \in [Inodes -> Contents], NEW id \in Ids
    PROVE  /\ own[id] = "published" /\ <<"target", id>> \notin alive => Data(id) = "lost"
           /\ own[id] # "published" \/ <<"target", id>> \in alive =>
                /\ content[<<"target", id>>] = "copy" => Data(id) = "whole"
                /\ content[<<"target", id>>] = "partial" => Data(id) = "some"
                /\ content[<<"target", id>>] \in {"empty", "foreign"} => Data(id) = "none"
                /\ Data(id) \in {"none", "some", "whole"}
<1>1. content[<<"target", id>>] \in Contents
    BY DEF Inodes, ToolInodes, Roles
<1>2. QED BY <1>1 DEF Data, Contents

(* The steps of a creation on directories fill the data of a Workspace that is
   being created, or leave it. *)
LEMMA CreationIsAllowed ==
    ASSUME NEW p \in Procs, TypeOK, TypeOK', StoreInv, InvocationOK(p), RowsHeld, InvocationData(p),
           DirCall(p), pc[p] \in CreateSteps
    PROVE  Allowed
<1>0. PICK mine \in Ids : mine = job[p].id
    BY DirCallLabels
<1>1. /\ UNCHANGED storeVars /\ Life(mine) = "creating" /\ Life(mine)' = "creating"
      /\ content \in [Inodes -> Contents] /\ content' \in [Inodes -> Contents]
      /\ own \in [Ids -> {"absent", "published", "isolated"}]
  <2>1. UNCHANGED storeVars /\ workspaces[mine].state = "creating" /\ mine \in Active
      BY <1>0, DirCallLabels DEF InvocationData, RowsHeld, Registered
  <2>2. mine \notin tombstones
      BY <2>1 DEF StoreInv, TombstonedIsGone
  <2>3. Life(mine) = "creating"
      BY <2>1, <2>2 DEF Life
  <2>4. QED BY <2>1, <2>3, LifeSame DEF TypeOK
<1>2. CASE Prepare(p)
  <2>1. PICK role \in Roles :
            alive' = alive \cup {<<role, mine>>} /\ (role = "target" => own[mine] = "absent")
      BY <1>0, <1>2 DEF Prepare, MakeDir, Passes, Evidence, Roles
  <2>2. UNCHANGED <<content, own>>
      BY <1>2 DEF Prepare, MakeDir
  <2>3. Data(mine)' = Data(mine)
    <3>1. CASE role = "target"
      <4>1. content[<<"target", mine>>] \in Contents
          BY <1>1 DEF Inodes, ToolInodes, Roles
      <4>2. QED BY <2>1, <2>2, <3>1, <4>1 DEF Data, Contents
    <3>2. CASE role # "target"
        BY <1>1, <2>1, <2>2, <3>2, DataSame
    <3>3. QED BY <3>1, <3>2
  <2>4. QED BY <1>1, <2>1, <2>2, <2>3, OneIdTouched
<1>3. CASE PublishOwnership(p)
  <2>1. /\ own' = [own EXCEPT ![mine] = "published"] /\ UNCHANGED <<alive, content>>
      BY <1>0, <1>3 DEF PublishOwnership
  <2>2. Data(mine)' = Data(mine) \/ Data(mine)' = "lost"
    <3>1. CASE <<"target", mine>> \notin alive
        BY <1>1, <2>1, <3>1 DEF Data
    <3>2. CASE <<"target", mine>> \in alive
      <4>1. content[<<"target", mine>>] \in Contents
          BY <1>1 DEF Inodes, ToolInodes, Roles
      <4>2. QED BY <2>1, <3>2, <4>1 DEF Data, Contents
    <3>3. QED BY <3>1, <3>2
  <2>3. QED BY <1>1, <2>1, <2>2, OneIdTouched DEF Moves
<1>4. CASE (\E kind \in ReceiptKinds : Materialize(p, kind)) \/ Materialized(p) \/ CowUnavailable(p)
             \/ MaterializeFails(p) \/ Fallback(p)
  <2>1. PICK t, s, q : SetContent(mine, t, s, q)
      BY <1>0, <1>4 DEF Materialize, Materialized, CowUnavailable, MaterializeFails, Fallback
  <2>2. pc[p] \in Publishing
      BY <1>4 DEF Materialize, Materialized, CowUnavailable, MaterializeFails, Fallback, Passes,
                  Publishing
  <2>3. own[mine] = "published" /\ own' = own /\ alive' = alive
      BY <1>0, <2>1, <2>2 DEF InvocationData, SetContent
  <2>4. \A id \in Ids \ {mine} : content'[<<"target", id>>] = content[<<"target", id>>]
      BY <1>0, <1>4, DirCallFrame DEF OtherIdsKept
  <2>5. CASE <<"target", mine>> \notin alive
    <3>1. Data(mine)' = Data(mine)
        BY <2>3, <2>5 DEF Data
    <3>2. QED BY <1>1, <2>3, <2>4, <3>1, OneIdTouched
  <2>6. CASE <<"target", mine>> \in alive
    <3>1. Data(mine)' \in {"none", "some", "whole"}
      <4>1. content'[<<"target", mine>>] \in Contents
          BY <1>1 DEF Inodes, ToolInodes, Roles
      <4>2. QED BY <2>3, <2>6, <4>1 DEF Data, Contents
    <3>2. Moves(mine)
        BY <1>1, <3>1 DEF Moves
    <3>3. QED BY <1>1, <2>3, <2>4, <3>2, OneIdTouched
  <2>7. QED BY <2>5, <2>6
<1>5. CASE ClearIncomplete(p)
  <2>1. (\E slot : CanRmdir(slot) /\ Rmdir(slot)) \/ UNCHANGED fsVars
      BY <1>5 DEF ClearIncomplete, Passes, Evidence
  <2>2. CASE UNCHANGED fsVars
    <3>1. Data(mine)' = Data(mine)
        BY <1>1, <2>2, DataSame DEF fsVars
    <3>2. QED BY <1>1, <2>2, <3>1, OneIdTouched DEF fsVars
  <2>3. QED BY <1>1, <2>1, <2>2, RmdirIsAllowed
<1>6. CASE RemoveStaging(p) \/ RemoveTrash(p) \/ PersistIsolation(p) \/ Isolate(p) \/ EraseTarget(p)
    BY <1>6 DEF RemoveStaging, RemoveTrash, RemoveOperationDirectory, PersistIsolation, Isolate,
                EraseTarget, Passes, CreateSteps
<1>7. QED BY <1>2, <1>3, <1>4, <1>5, <1>6 DEF DirCall

(* The steps of a removal on directories take data away from a Workspace that
   is being removed, or leave it. *)
LEMMA RemovalIsAllowed ==
    ASSUME NEW p \in Procs, TypeOK, TypeOK', StoreInv, InvocationOK(p), RowsHeld, InvocationData(p),
           DirCall(p), pc[p] \in RemoveSteps
    PROVE  Allowed
<1>0. PICK mine \in Ids : mine = job[p].id
    BY DirCallLabels
<1> DEFINE target == <<"target", mine>>
<1>1. /\ UNCHANGED storeVars /\ Life(mine) = "removing" /\ Life(mine)' = "removing"
      /\ content \in [Inodes -> Contents] /\ content' \in [Inodes -> Contents]
      /\ own \in [Ids -> {"absent", "published", "isolated"}]
  <2>1. UNCHANGED storeVars /\ workspaces[mine].state = "deleting" /\ mine \in Active
      BY <1>0, DirCallLabels DEF InvocationData, RowsHeld, Registered
  <2>2. mine \notin tombstones
      BY <2>1 DEF StoreInv, TombstonedIsGone
  <2>3. Life(mine) = "removing"
      BY <2>1, <2>2 DEF Life
  <2>4. QED BY <2>1, <2>3, LifeSame DEF TypeOK
<1>2. ASSUME NEW slot, CanRmdir(slot), Rmdir(slot) PROVE Allowed
    BY <1>1, <1>2, RmdirIsAllowed
<1>3. CASE UNCHANGED <<alive, content, own>>
  <2>1. Data(mine)' = Data(mine)
      BY <1>1, <1>3, DataSame
  <2>2. QED BY <1>1, <1>3, <2>1, OneIdTouched
<1>4. CASE RemoveStaging(p) \/ RemoveTrash(p)
  <2>1. \/ UNCHANGED fsVars \/ (\E slot : CanRmdir(slot) /\ Rmdir(slot))
        \/ Erase(<<"staging", mine>>, "empty") \/ Erase(<<"trash", mine>>, "empty")
      BY <1>0, <1>4 DEF RemoveStaging, RemoveTrash, RemoveOperationDirectory, Passes, Evidence
  <2>2. CASE Erase(<<"staging", mine>>, "empty") \/ Erase(<<"trash", mine>>, "empty")
    <3>1. /\ UNCHANGED <<alive, own>>
          /\ \A id \in Ids : content'[<<"target", id>>] = content[<<"target", id>>]
        BY <1>1, <2>2 DEF Erase, Inodes, ToolInodes, Roles
    <3>2. Data(mine)' = Data(mine)
        BY <1>1, <3>1, DataSame
    <3>3. QED BY <1>1, <3>1, <3>2, OneIdTouched
  <2>3. QED BY <1>2, <1>3, <2>1, <2>2 DEF fsVars
<1>5. CASE PersistIsolation(p)
  <2>1. /\ pc[p] = "persist" /\ UNCHANGED <<alive, content>>
        /\ own' = own \/ own' = [own EXCEPT ![mine] = "isolated"]
      BY <1>0, <1>5 DEF PersistIsolation
  <2>2. target \notin alive => content[target] \in {"empty", "foreign"}
      BY <1>0, <2>1 DEF InvocationData, RemoveSteps
  <2>3. Data(mine)' = Data(mine) \/ (Data(mine) = "lost" /\ Data(mine)' = "none")
    <3>1. content[target] \in Contents
        BY <1>1 DEF Inodes, ToolInodes, Roles
    <3>2. CASE own' = own
        BY <1>1, <2>1, <3>2, DataSame
    <3>3. CASE own' = [own EXCEPT ![mine] = "isolated"]
      <4>1. CASE own[mine] = "published" /\ target \notin alive
          BY <1>1, <2>1, <2>2, <3>3, <4>1 DEF Data
      <4>2. CASE ~(own[mine] = "published" /\ target \notin alive)
          BY <1>1, <2>1, <3>1, <3>3, <4>2 DEF Data, Contents
      <4>3. QED BY <4>1, <4>2
    <3>4. QED BY <2>1, <3>2, <3>3
  <2>4. CASE Data(mine) = "lost" /\ Data(mine)' = "none"
    <3>1. Moves(mine)
        BY <1>1, <2>4 DEF Moves
    <3>2. QED BY <1>1, <2>1, <3>1, OneIdTouched
  <2>5. CASE Data(mine)' = Data(mine)
      BY <1>1, <2>1, <2>5, OneIdTouched
  <2>6. QED BY <2>3, <2>4, <2>5
<1>6. CASE Isolate(p)
    BY <1>3, <1>6 DEF Isolate, fsVars
<1>7. CASE EraseTarget(p)
  <2>1. CASE UNCHANGED fsVars
      BY <1>3, <2>1 DEF fsVars
  <2>2. CASE \E slot : CanRmdir(slot) /\ Rmdir(slot)
      BY <1>2, <2>2
  <2>3. ASSUME NEW left \in {"partial", "foreign", "empty"}, Erase(target, left),
               left = "foreign" => content[target] = "foreign",
               left = "partial" => content[target] \in {"copy", "partial"},
               pc[p] \in {"erase", "erase_rest"}
        PROVE  Allowed
    <3>1. own[mine] # "published" /\ UNCHANGED <<own, alive>>
        BY <1>0, <2>3 DEF InvocationData, Isolating, Erase
    <3>2. content'[target] = left /\ content[target] \in Contents
        BY <1>1, <2>3 DEF Erase, Inodes, ToolInodes, Roles
    <3>3. \A id \in Ids \ {mine} : content'[<<"target", id>>] = content[<<"target", id>>]
        BY <1>1, <2>3 DEF Erase, Inodes, ToolInodes, Roles
    <3>4. Data(mine)' = IF left = "partial" THEN "some" ELSE "none"
        BY <2>3, <3>1, <3>2 DEF Data
    <3>5. Data(mine) = "none" => Data(mine)' = "none"
        BY <1>1, <2>3, <3>1, <3>2, <3>4, DataIs DEF Contents
    <3>6. Data(mine)' = Data(mine) \/ Moves(mine)
        BY <1>1, <3>4, <3>5 DEF Moves
    <3>7. QED BY <1>1, <3>1, <3>3, <3>6, OneIdTouched
  <2>4. CASE pc[p] = "erase"
    <3> DEFINE some == IF content[target] = "copy" THEN "partial" ELSE content[target]
    <3>1. Erase(target, some)
        BY <1>0, <1>7, <2>4 DEF EraseTarget, Passes
    <3>2. content[target] \in Contents
        BY <1>1 DEF Inodes, ToolInodes, Roles
    <3>3. QED BY <2>3, <2>4, <3>1, <3>2 DEF Contents
  <2>5. CASE pc[p] = "erase_rest"
    <3>1. Erase(target, "empty")
        BY <1>0, <1>7, <2>5 DEF EraseTarget, Passes
    <3>2. QED BY <2>3, <2>5, <3>1
  <2>6. CASE pc[p] \notin {"erase", "erase_rest"}
    <3>1. (\E slot : CanRmdir(slot) /\ Rmdir(slot)) \/ UNCHANGED fsVars
        BY <1>7, <2>6 DEF EraseTarget, Passes, Evidence
    <3>2. QED BY <2>1, <2>2, <3>1
  <2>7. QED BY <2>4, <2>5, <2>6
<1>8. CASE \/ Prepare(p) \/ PublishOwnership(p) \/ (\E kind \in ReceiptKinds : Materialize(p, kind))
           \/ Materialized(p) \/ CowUnavailable(p) \/ MaterializeFails(p) \/ Fallback(p)
           \/ ClearIncomplete(p)
    BY <1>8 DEF Prepare, MakeDir, PublishOwnership, Materialize, Materialized, CowUnavailable,
                MaterializeFails, Fallback, ClearIncomplete, Passes, RemoveSteps
<1>9. QED BY <1>4, <1>5, <1>6, <1>7, <1>8 DEF DirCall

(* A store call moves the life of its ID along an edge of WorkspaceRegistry. *)
LEMMA StoreIsAllowed ==
    ASSUME NEW p \in Procs, TypeOK, StoreInv, [StoreNext]_storeVars, InvocationOK(p),
           InvocationData(p), StoreCall(p)
    PROVE  Allowed
<1>0. PICK mine \in Ids : mine = job[p].id
    BY StoreCallFrame
<1> DEFINE target == <<"target", mine>>
<1>1. /\ UNCHANGED fsVars /\ content \in [Inodes -> Contents] /\ StoreTypeOK
      /\ \A id \in Ids \ {mine} :
            workspaces'[id] = workspaces[id] /\ (id \in tombstones' <=> id \in tombstones)
    BY <1>0, StoreCallFrame DEF TypeOK
<1>2. \A id \in Ids : Data(id)' = Data(id)
    BY <1>1, DataSame DEF fsVars
<1>3. ASSUME NEW id \in Ids \ {mine} PROVE Same(id)
  <2>1. id \in Active' <=> id \in Active
      BY <1>1 DEF Active
  <2>2. id \in Active => workspaces[id].state \in States
      BY <1>1 DEF StoreTypeOK, Row, Active
  <2>3. Life(id)' = Life(id)
      BY <1>1, <2>1, <2>2 DEF Life, States
  <2>4. QED BY <1>2, <2>3 DEF Same
<1>4. ASSUME Moves(mine) PROVE Allowed
    BY <1>3, <1>4, OneMoves DEF Allowed
<1>5. CASE UNCHANGED storeVars
  <2>1. \A id \in Ids : Same(id)
      BY <1>1, <1>2, <1>5, LifeSame DEF Same
  <2>2. QED BY <2>1 DEF Allowed
<1>6. mine \in Active => mine \notin tombstones
    BY DEF StoreInv, TombstonedIsGone
<1>7. CASE Reserve(p) /\ mine \in Active' /\ workspaces'[mine].state = "creating"
             /\ tombstones' = tombstones
  <2>1. mine \notin Active \cup tombstones
    <3>1. \E res : ReserveOutcome(mine, res) = "ok"
        BY <1>0, <1>7 DEF Reserve, reserve_workspace
    <3>2. \A res : ReserveOutcome(mine, res) = "ok" => InsertGuard(mine, NewRow(res))
        BY DEF ReserveOutcome
    <3>3. QED BY <3>1, <3>2 DEF InsertGuard
  <2>2. Life(mine) = "unused" /\ Life(mine)' = "creating"
      BY <1>7, <2>1 DEF Life
  <2>3. QED BY <1>2, <1>4, <2>2 DEF Moves
<1>8. CASE Complete(p) /\ tombstones' = tombstones
  <2>1. /\ mine \in Active /\ workspaces[mine].state = "creating"
        /\ workspaces' = [workspaces EXCEPT ![mine] = ReadyRow(workspaces[mine], job[p].now)]
      BY <1>0, <1>8 DEF Complete, complete_materialization, CompleteOutcome
  <2>2. mine \in Active'
      BY <2>1, StoreStep DEF RowStep, Active
  <2>3. workspaces'[mine].state = "ready"
      BY <2>1 DEF ReadyRow, Active, TypeOK, StoreTypeOK, Row
  <2>4. Life(mine) = "creating" /\ Life(mine)' = "ready"
      BY <1>6, <1>8, <2>1, <2>2, <2>3 DEF Life
  <2>5. own[mine] = "published" /\ (target \in alive => content[target] = "copy")
      BY <1>0, <1>8 DEF Complete, Passes, InvocationData, Publishing, Verified
  <2>6. Data(mine) \in {"whole", "lost"}
      BY <1>1, <2>5, DataIs
  <2>7. QED BY <1>2, <1>4, <2>4, <2>6 DEF Moves
<1>9. CASE /\ mine \in Active /\ tombstones' = tombstones
           /\ workspaces'[mine].state \in {"error", "deleting"}
  <2>1. \/ workspaces'[mine] = NoRow /\ mine \in tombstones'
        \/ workspaces'[mine] = workspaces[mine]
        \/ workspaces'[mine] # NoRow
      BY <1>9, StoreStep DEF RowStep
  <2>2. mine \in Active'
      BY <1>6, <1>9, <2>1 DEF Active
  <2>3. workspaces[mine].state \in States
      BY <1>1, <1>9 DEF StoreTypeOK, Row, Active
  <2>4. CASE RecordCreateFailure(p) \/ RecordRemoveFailure(p)
    <3>1. workspaces[mine].state \in {"creating", "deleting"}
        BY <1>0, <2>4 DEF RecordCreateFailure, RecordRemoveFailure, InvocationData
    <3>2. CASE workspaces'[mine].state = "error"
      <4>1. Life(mine) \in {"creating", "removing"} /\ Life(mine)' = "failed"
          BY <1>6, <1>9, <2>2, <3>1, <3>2 DEF Life
      <4>2. QED BY <1>2, <1>4, <4>1 DEF Moves
    <3>3. CASE workspaces'[mine].state = "deleting"
      <4>1. CASE workspaces[mine].state = "deleting"
        <5>1. Life(mine)' = Life(mine)
            BY <1>6, <1>9, <2>2, <3>3, <4>1 DEF Life
        <5>2. QED BY <1>2, <1>3, <5>1 DEF Allowed, Same
      <4>2. CASE workspaces[mine].state = "creating"
        <5>1. Life(mine) = "creating" /\ Life(mine)' = "removing"
            BY <1>6, <1>9, <2>2, <3>3, <4>2 DEF Life
        <5>2. QED BY <1>2, <1>4, <5>1 DEF Moves
      <4>3. QED BY <3>1, <4>1, <4>2
    <3>4. QED BY <1>9, <3>2, <3>3
  <2>5. CASE BeginRemoval(p) /\ ~UNCHANGED storeVars
    <3>1. workspaces'[mine].state = "deleting"
      <4>1. ASSUME NEW now, workspaces' = [workspaces EXCEPT ![mine] = DeletingRow(workspaces[mine], now)]
            PROVE  workspaces'[mine].state = "deleting"
          BY <1>9, <4>1 DEF DeletingRow, Active, TypeOK, StoreTypeOK, Row
      <4>2. CASE workspaces' = workspaces /\ job[p].state = "deleting"
                   /\ begin_removal(mine, job[p].state, job[p].req.mode, job[p].now)
        <5>1. \A mode : Transition("deleting", BeginRemovalEvent(mode)) \in {"deleting", Rejected}
            BY DEF Transition, BeginRemovalEvent, Rejected
        <5>2. QED BY <4>2, <5>1 DEF begin_removal, RemovalOutcome, Rejected
      <4>3. QED BY <1>0, <2>5, <4>1, <4>2 DEF BeginRemoval, begin_removal
    <3>2. CASE workspaces[mine].state = "deleting"
      <4>1. Life(mine)' = Life(mine)
          BY <1>6, <1>9, <2>2, <3>1, <3>2 DEF Life
      <4>2. QED BY <1>2, <1>3, <4>1 DEF Allowed, Same
    <3>3. CASE workspaces[mine].state # "deleting"
      <4>1. Life(mine) \in {"creating", "ready", "failed"} /\ Life(mine)' = "removing"
          BY <1>6, <1>9, <2>2, <2>3, <3>1, <3>3 DEF Life, States
      <4>2. QED BY <1>2, <1>4, <4>1 DEF Moves
    <3>4. QED BY <3>2, <3>3
  <2>6. CASE Reserve(p) \/ Complete(p) \/ CompleteDeletion(p)
    <3>1. CASE Reserve(p)
      <4>1. \E res : ReserveOutcome(mine, res) = "ok"
          BY <1>0, <3>1 DEF Reserve, reserve_workspace
      <4>2. \A res : ReserveOutcome(mine, res) = "ok" => InsertGuard(mine, NewRow(res))
          BY DEF ReserveOutcome
      <4>3. QED BY <1>9, <4>1, <4>2 DEF InsertGuard
    <3>2. CASE Complete(p)
        BY <1>8, <1>9, <3>2
    <3>3. CASE CompleteDeletion(p)
        BY <1>0, <1>6, <1>9, <3>3 DEF CompleteDeletion, complete_deletion
    <3>4. QED BY <2>6, <3>1, <3>2, <3>3
  <2>7. QED BY <1>5, <2>4, <2>5, <2>6 DEF StoreCall
<1>10. CASE CompleteDeletion(p) /\ mine \notin Active' /\ tombstones' = tombstones \cup {mine}
  <2>1. mine \in Active /\ workspaces[mine].state = "deleting"
      BY <1>0, <1>10, DeletionOk DEF CompleteDeletion, complete_deletion
  <2>2. Life(mine) = "removing" /\ Life(mine)' = "gone"
      BY <1>6, <1>10, <2>1 DEF Life
  <2>3. own[mine] = "isolated" /\ content[target] \in {"empty", "foreign"}
      BY <1>0, <1>10 DEF CompleteDeletion, InvocationData, Isolating, Emptied
  <2>4. Data(mine) = "none"
      BY <1>1, <2>3, DataIs
  <2>5. QED BY <1>2, <1>4, <2>2, <2>4 DEF Moves
<1>11. QED BY <1>0, <1>5, <1>7, <1>8, <1>9, <1>10, StoreCallState

(* Every step is a step of WorkspaceRegistry or leaves every life and all data. *)
LEMMA RegistryStep ==
    ASSUME LifecycleInv, LifecycleInv', DataInv, [Next]_vars
    PROVE  Allowed
<1>0. /\ TypeOK /\ TypeOK' /\ StoreInv /\ (\A p \in Procs : InvocationOK(p)) /\ RowsHeld
      /\ (\A p \in Procs : InvocationData(p)) /\ content \in [Inodes -> Contents]
    BY DEF LifecycleInv, DataInv, TypeOK
<1>1. [StoreNext]_storeVars
    BY <1>0, UsesStore
<1>2. CASE UNCHANGED <<storeVars, fsVars>>
  <2>1. \A id \in Ids : Same(id)
      BY <1>0, <1>2, LifeSame, DataSame DEF Same, fsVars, TypeOK
  <2>2. QED BY <2>1 DEF Allowed
<1>3. CASE UNCHANGED vars
    BY <1>2, <1>3 DEF vars, storeVars, fsVars
<1>4. CASE User
    BY <1>0, <1>4, UserIsAllowed
<1>5. ASSUME NEW p \in Procs, Acts(p) PROVE Allowed
  <2>1. CASE Quiet(p)
      BY <1>2, <2>1, QuietStep
  <2>2. CASE StoreCall(p)
      BY <1>0, <1>1, <2>2, StoreIsAllowed
  <2>3. CASE DirCall(p)
      BY <1>0, <2>3, DirCallLabels, CreationIsAllowed, RemovalIsAllowed
  <2>4. QED BY <1>5, <2>1, <2>2, <2>3, ActsSplit
<1>6. QED BY <1>3, <1>4, <1>5 DEF Next, Acts

(* create and remove with the store, the documents and the directories implement
   what WorkspaceRegistry promises about each ID. *)
THEOREM LifecycleImplementsRegistry == Spec => ImplementsRegistry
<1>1. Init => Registry!Init
  <2> SUFFICES ASSUME Init PROVE Registry!Init
      OBVIOUS
  <2>1. ASSUME NEW id \in Ids PROVE Life(id) = "unused" /\ Data(id) = "none"
    <3>1. id \notin Active \cup tombstones /\ own[id] = "absent" /\ content[<<"target", id>>] = "empty"
        BY DEF Init, StoreInit, Active, Inodes, ToolInodes, Roles
    <3>2. QED BY <3>1 DEF Life, Data
  <2>2. QED BY <2>1 DEF Registry!Init
<1>2. ASSUME LifecycleInv, LifecycleInv', DataInv, [Next]_vars
      PROVE  [Registry!Next]_<<[id \in Ids |-> Life(id)], [id \in Ids |-> Data(id)]>>
  <2>1. CASE \A id \in Ids : Same(id)
    <3>1. [id \in Ids |-> Life(id)'] = [id \in Ids |-> Life(id)]
          /\ [id \in Ids |-> Data(id)'] = [id \in Ids |-> Data(id)]
        BY <2>1 DEF Same
    <3>2. QED BY <3>1
  <2>2. QED BY <1>2, <2>1, RegistryStep DEF Allowed
<1>3. QED BY <1>1, <1>2, DataInvariant, PTL DEF Spec, ImplementsRegistry, Registry!Spec

(***************************************************************************)
(* What a kill or a failing call leaves behind, proved for every number of *)
(* invocations, IDs and requests: as long as no user interferes, a later   *)
(* forced removal finds the target of every registered Workspace, and no   *)
(* check of such a removal rejects what the tool itself has left.          *)
(*                                                                         *)
(* Recoverable is not inductive: whether the rename of a removal leads to  *)
(* the isolation path depends on what the invocation has seen many steps   *)
(* before.  Placed relates the document of an ID to the names, KnowsPlace  *)
(* and KnowsErased say what an invocation may rely on at each label.       *)
(***************************************************************************)

-----------------------------------------------------------------------------
(* Where a target is *)

InPlace(id) == dir[RegisteredSlot(id)] = <<"target", id>> /\ dir[<<"remove", id>>] = NoDir
SetAside(id) == dir[RegisteredSlot(id)] = NoDir /\ dir[<<"remove", id>>] = <<"target", id>>
Gone(id) == dir[RegisteredSlot(id)] = NoDir /\ dir[<<"remove", id>>] = NoDir

(* What the document of an ID says of its target, with nobody but the tool at
   work; the other names of the ID are free or lead to what was made for them. *)
Placed(id) ==
    /\ own[id] = "absent" => dir[<<"remove", id>>] = NoDir
    /\ id \in Active /\ own[id] = "published" => InPlace(id)
    /\ id \in Active /\ own[id] = "isolated"
         => InPlace(id) \/ SetAside(id) \/ (Gone(id) /\ content[<<"target", id>>] = "empty")
    /\ \A role \in {"staging", "trash"} : dir[<<role, id>>] \in {NoDir, <<role, id>>}

Selecting == {"rm_staging", "rm_verify_staging", "rm_rmdir_staging",
              "rm_trash", "rm_verify_trash", "rm_rmdir_trash", "persist"}

(* What an invocation knows at each label about the place of its target. *)
KnowsPlace(p) ==
    LET id == job[p].id
    IN  /\ pc[p] \in {"mk_staging", "mk_trash", "publish"}
             => own[id] = "absent" /\ dir[RegisteredSlot(id)] = <<"target", id>>
        /\ pc[p] \in Selecting =>
             \/ job[p].at = "active" /\ InPlace(id) /\ own[id] # "absent"
             \/ job[p].at = "isolated" /\ SetAside(id)
        /\ pc[p] \in {"isolate", "rename"} => job[p].at = "active" /\ InPlace(id)
        /\ pc[p] = "moved" => SetAside(id)
        /\ pc[p] \in {"erase", "erase_rest", "rm_verify", "rm_rmdir"}
             => job[p].at = "isolated" /\ SetAside(id)
        /\ pc[p] \in {"confirm", "complete_deletion"} => Gone(id)

(* ... and about what its own erasing has left. *)
KnowsErased(p) ==
    LET id == job[p].id
    IN  /\ pc[p] \in {"rm_verify_staging", "rm_rmdir_staging"}
             => dir[<<"staging", id>>] = <<"staging", id>> /\ content[<<"staging", id>>] = "empty"
        /\ pc[p] \in {"rm_verify_trash", "rm_rmdir_trash"}
             => dir[<<"trash", id>>] = <<"trash", id>> /\ content[<<"trash", id>>] = "empty"
        /\ pc[p] \in {"rm_verify", "rm_rmdir"} => content[<<"target", id>>] = "empty"

UndisturbedInv ==
    meddle = 0 =>
        /\ \A id \in Ids : Placed(id)
        /\ \A p \in Procs : KnowsPlace(p)

(* The row is still what the invocation read before its checks. *)
RowUnchanged(p) ==
    pc[p] \in {"preflight", "log_started", "begin"} => job[p].state = workspaces[job[p].id].state

(* The target was never registered, or an earlier invocation was killed after it
   had erased everything. *)
NothingToRemove(id) == own[id] = "absent" \/ (own[id] = "isolated" /\ Gone(id))

StoppedForCause(p) ==
    LET id == job[p].id
    IN  /\ pc[p] = "rm_failed" /\ job[p].req.mode = "force" => NothingToRemove(id)
        /\ pc[p] = "log_failed" /\ job[p].req.mode = "force"
             => NothingToRemove(id) \/ workspaces[id].updated > job[p].now

CauseInv ==
    /\ \A p \in Procs : RowUnchanged(p)
    /\ meddle = 0 => \A p \in Procs : KnowsErased(p)
    /\ meddle = 0 /\ faults = 0 => \A p \in Procs : StoppedForCause(p)

-----------------------------------------------------------------------------
(* Names of different Workspaces *)

NamesOf(id) == {RegisteredSlot(id), <<"staging", id>>, <<"trash", id>>, <<"remove", id>>}

(* The four names of a Workspace are different names. *)
LEMMA OwnNames ==
    ASSUME TypeOK, NEW id \in Active
    PROVE  /\ NamesOf(id) \subseteq Slots
           /\ RegisteredSlot(id) \notin {<<"staging", id>>, <<"trash", id>>, <<"remove", id>>}
<1>1. id \in Ids
    BY DEF Active
<1>2. RegisteredSlot(id) \in Slots
    BY RegisteredSlotIsName
<1>3. QED BY <1>1, <1>2 DEF NamesOf, Slots, RegisteredSlot

(* Active rows have different targets, so two Workspaces share no name. *)
LEMMA OtherNames ==
    ASSUME TypeOK, StoreInv, NEW id \in Active, NEW other \in Ids \ {id}
    PROVE  /\ \A role \in {"staging", "trash", "remove"} : <<role, other>> \notin NamesOf(id)
           /\ other \in Active => RegisteredSlot(other) \notin NamesOf(id)
<1>1. \A role \in {"staging", "trash", "remove"} : <<role, other>> \notin NamesOf(id)
    BY DEF NamesOf, RegisteredSlot
<1>2. ASSUME other \in Active PROVE RegisteredSlot(other) \notin NamesOf(id)
  <2>1. workspaces[other].res.target # workspaces[id].res.target
      BY <1>2 DEF StoreInv, ReservationsAreExclusive
  <2>2. QED BY <2>1 DEF NamesOf, RegisteredSlot
<1>3. QED BY <1>1, <1>2

(* An invocation names only directories of its own Workspace. *)
LEMMA DirCallNames ==
    ASSUME NEW p \in Procs, TypeOK, InvocationOK(p), RowsHeld, DirCall(p)
    PROVE  \A slot \in Slots \ NamesOf(job[p].id) : dir'[slot] = dir[slot]
<1> DEFINE id == job[p].id
<1>0. dir \in [Slots -> Inodes \cup {NoDir}]
    BY DEF TypeOK
<1>1. CASE Prepare(p)
    BY <1>0, <1>1 DEF Prepare, MakeDir, NamesOf
<1>2. CASE Isolate(p)
    BY <1>0, <1>2 DEF Isolate, NamesOf, fsVars
<1>3. CASE ClearIncomplete(p) \/ RemoveStaging(p) \/ RemoveTrash(p) \/ EraseTarget(p)
    BY <1>0, <1>3 DEF ClearIncomplete, RemoveStaging, RemoveTrash, RemoveOperationDirectory,
                      EraseTarget, Erase, Rmdir, NamesOf, fsVars
<1>4. CASE \/ PublishOwnership(p) \/ (\E kind \in ReceiptKinds : Materialize(p, kind))
           \/ Materialized(p) \/ CowUnavailable(p) \/ MaterializeFails(p) \/ Fallback(p)
           \/ PersistIsolation(p)
    BY <1>4 DEF PublishOwnership, Materialize, Materialized, CowUnavailable, MaterializeFails,
                Fallback, PersistIsolation, SetContent
<1>5. QED BY <1>1, <1>2, <1>3, <1>4 DEF DirCall

-----------------------------------------------------------------------------
(* Placed *)

(* A step that leaves the names and the document of an ID. *)
LEMMA PlacedKept ==
    ASSUME NEW id \in Ids, Placed(id), own'[id] = own[id],
           content'[<<"target", id>>] = content[<<"target", id>>],
           \A role \in {"staging", "trash", "remove"} : dir'[<<role, id>>] = dir[<<role, id>>],
           id \in Active' /\ own[id] # "absent" =>
              /\ id \in Active /\ RegisteredSlot(id)' = RegisteredSlot(id)
              /\ dir'[RegisteredSlot(id)] = dir[RegisteredSlot(id)]
    PROVE  Placed(id)'
BY DEF Placed, InPlace, SetAside, Gone

(* An active row keeps its target as long as it is there. *)
LEMMA RegisteredSlotStays ==
    ASSUME StoreInv, [StoreNext]_storeVars, NEW id \in Active, id \in Active'
    PROVE  RegisteredSlot(id)' = RegisteredSlot(id)
BY StoreStep DEF RowStep, RegisteredSlot, Active

(* Store calls leave all names; the ID of a new row has no document. *)
LEMMA StoreKeepsPlaces ==
    ASSUME NEW p \in Procs, TypeOK, StoreInv, [StoreNext]_storeVars, InvocationOK(p),
           \A id \in Ids : IdData(id), \A id \in Ids : Placed(id), StoreCall(p)
    PROVE  \A id \in Ids : Placed(id)'
<1>1. UNCHANGED fsVars
    BY StoreCallFrame
<1>2. ASSUME NEW id \in Ids PROVE id \in Active' /\ own[id] # "absent" => id \in Active
  <2>1. CASE id \in tombstones
    <3>1. id \in tombstones' /\ StoreInv'
        BY <2>1, StoreStep, StoreInvStep
    <3>2. QED BY <3>1 DEF StoreInv, TombstonedIsGone
  <2>2. CASE id \notin tombstones
      BY <2>2 DEF IdData
  <2>3. QED BY <2>1, <2>2
<1>3. QED BY <1>1, <1>2, PlacedKept, RegisteredSlotStays DEF fsVars

(* What a step of an invocation on directories leaves of other Workspaces. *)
LEMMA OthersStayPlaced ==
    ASSUME NEW p \in Procs, TypeOK, StoreInv, InvocationOK(p), RowsHeld,
           \A id \in Ids : Placed(id), DirCall(p)
    PROVE  \A id \in Ids \ {job[p].id} : Placed(id)'
<1>0. PICK mine \in Ids : mine = job[p].id
    BY DirCallLabels
<1>1. mine \in Active /\ UNCHANGED storeVars
    BY <1>0, DirCallLabels DEF RowsHeld, Registered
<1>2. ASSUME NEW id \in Ids \ {mine} PROVE Placed(id)'
  <2>1. own'[id] = own[id] /\ content'[<<"target", id>>] = content[<<"target", id>>]
      BY <1>0, DirCallFrame DEF OtherIdsKept
  <2>2. \A role \in {"staging", "trash", "remove"} : dir'[<<role, id>>] = dir[<<role, id>>]
    <3>1. \A role \in {"staging", "trash", "remove"} : <<role, id>> \in Slots \ NamesOf(mine)
        BY <1>1, OtherNames DEF Slots
    <3>2. QED BY <1>0, <3>1, DirCallNames
  <2>3. id \in Active' => /\ id \in Active /\ RegisteredSlot(id)' = RegisteredSlot(id)
                          /\ dir'[RegisteredSlot(id)] = dir[RegisteredSlot(id)]
    <3>1. id \in Active' => id \in Active /\ RegisteredSlot(id)' = RegisteredSlot(id)
        BY <1>1 DEF storeVars, Active, RegisteredSlot
    <3>2. id \in Active => RegisteredSlot(id) \in Slots \ NamesOf(mine)
        BY <1>1, OtherNames, OwnNames DEF NamesOf
    <3>3. QED BY <1>0, <3>1, <3>2, DirCallNames
  <2>4. QED BY <2>1, <2>2, <2>3, PlacedKept
<1>3. QED BY <1>0, <1>2

-----------------------------------------------------------------------------
(* The Workspace of the invocation that acts *)

Placing == {"mk_staging", "mk_trash", "publish"} \cup Selecting
             \cup {"isolate", "rename", "moved", "erase", "erase_rest", "rm_verify", "rm_rmdir",
                   "confirm", "complete_deletion"}

(* Away from these labels an invocation knows no place. *)
LEMMA NoPlaceKnown ==
    ASSUME NEW p \in Procs, pc'[p] \notin Placing
    PROVE  KnowsPlace(p)'
BY DEF KnowsPlace, Placing, Selecting

(* prepare_workspace registers what it has made, and nothing moves it before
   the Workspace is Ready. *)
LEMMA CreationKeepsPlace ==
    ASSUME NEW p \in Procs, TypeOK, InvocationOK(p), InvocationData(p), RowsHeld,
           NEW mine \in Ids, mine = job[p].id, Placed(mine), KnowsPlace(p),
           DirCall(p), pc[p] \in CreateSteps
    PROVE  Placed(mine)' /\ KnowsPlace(p)'
<1>0. /\ mine \in Active /\ UNCHANGED storeVars
      /\ dir \in [Slots -> Inodes \cup {NoDir}] /\ content \in [Inodes -> Contents]
      /\ own \in [Ids -> {"absent", "published", "isolated"}]
    BY DirCallLabels DEF RowsHeld, Registered, TypeOK
<1>1. /\ NamesOf(mine) \subseteq Slots
      /\ RegisteredSlot(mine) \notin {<<"staging", mine>>, <<"trash", mine>>, <<"remove", mine>>}
    BY <1>0, OwnNames
<1>2. /\ RegisteredSlot(mine)' = RegisteredSlot(mine) /\ Active' = Active
    BY <1>0 DEF RegisteredSlot, storeVars, Active
<1>3. CASE Prepare(p)
  <2>1. /\ pc[p] \in {"mk_target", "mk_staging", "mk_trash"} /\ own[mine] = "absent"
        /\ own' = own /\ job' = job
      BY <1>3 DEF Prepare, MakeDir, Passes, Evidence, KnowsPlace, Go
  <2>2. dir[<<"remove", mine>>] = NoDir
      BY <2>1 DEF Placed
  <2>3. \/ /\ dir' = [dir EXCEPT ![RegisteredSlot(mine)] = <<"target", mine>>]
           /\ pc'[p] = "mk_staging"
        \/ /\ dir[RegisteredSlot(mine)] = <<"target", mine>>
           /\ \E role \in {"staging", "trash"} : dir' = [dir EXCEPT ![<<role, mine>>] = <<role, mine>>]
           /\ pc'[p] \in {"mk_trash", "publish"}
      BY <1>3 DEF Prepare, MakeDir, Passes, KnowsPlace, Go, TypeOK
  <2>4. /\ dir'[<<"remove", mine>>] = NoDir
        /\ dir'[RegisteredSlot(mine)] = <<"target", mine>>
        /\ \A role \in {"staging", "trash"} : dir'[<<role, mine>>] \in {dir[<<role, mine>>], <<role, mine>>}
    <3>1. CASE dir' = [dir EXCEPT ![RegisteredSlot(mine)] = <<"target", mine>>]
        BY <1>0, <1>1, <2>2, <3>1 DEF NamesOf
    <3>2. CASE /\ dir[RegisteredSlot(mine)] = <<"target", mine>>
               /\ \E role \in {"staging", "trash"} :
                     dir' = [dir EXCEPT ![<<role, mine>>] = <<role, mine>>]
        BY <1>0, <1>1, <2>2, <3>2 DEF NamesOf
    <3>3. QED BY <2>3, <3>1, <3>2
  <2>5. Placed(mine)'
      BY <2>1, <2>4 DEF Placed
  <2>6. KnowsPlace(p)'
      BY <1>2, <2>1, <2>3, <2>4 DEF KnowsPlace, Selecting
  <2>7. QED BY <2>5, <2>6
<1>4. CASE PublishOwnership(p)
  <2>1. /\ pc[p] = "publish" /\ pc'[p] = "materialize" /\ dir' = dir
        /\ own'[mine] = "published"
      BY <1>0, <1>4 DEF PublishOwnership, Go, TypeOK
  <2>2. InPlace(mine)
      BY <2>1 DEF KnowsPlace, Placed, InPlace
  <2>3. Placed(mine)'
      BY <1>2, <2>1, <2>2 DEF Placed, InPlace
  <2>4. KnowsPlace(p)'
      BY <2>1, NoPlaceKnown DEF Placing, Selecting
  <2>5. QED BY <2>3, <2>4
<1>5. CASE (\E kind \in ReceiptKinds : Materialize(p, kind)) \/ Materialized(p) \/ CowUnavailable(p)
             \/ MaterializeFails(p) \/ Fallback(p) \/ ClearIncomplete(p)
  <2>1. pc[p] \in Publishing /\ pc'[p] \in Publishing \cup {"record_failure"}
      BY <1>5 DEF Materialize, Materialized, CowUnavailable, MaterializeFails, Fallback, Passes,
                  ClearIncomplete, Go, Select, Publishing, TypeOK
  <2>2. own[mine] = "published" /\ own' = own
      BY <1>5, <2>1 DEF InvocationData, Materialize, Materialized, CowUnavailable, MaterializeFails,
                        Fallback, ClearIncomplete, SetContent, Rmdir, fsVars
  <2>3. InPlace(mine)
      BY <1>0, <2>2 DEF Placed
  <2>4. \/ dir' = dir
        \/ \E role \in {"staging", "trash"} : dir' = [dir EXCEPT ![<<role, mine>>] = NoDir]
      BY <1>5 DEF Materialize, Materialized, CowUnavailable, MaterializeFails, Fallback,
                  ClearIncomplete, SetContent, Rmdir, fsVars
  <2>5. InPlace(mine)' /\ \A role \in {"staging", "trash"} : dir'[<<role, mine>>] \in {NoDir, <<role, mine>>}
    <3>1. CASE dir' = dir
        BY <1>2, <2>3, <3>1 DEF InPlace, Placed
    <3>2. ASSUME NEW role \in {"staging", "trash"}, dir' = [dir EXCEPT ![<<role, mine>>] = NoDir]
          PROVE  InPlace(mine)'
                   /\ \A r \in {"staging", "trash"} : dir'[<<r, mine>>] \in {NoDir, <<r, mine>>}
        BY <1>0, <1>1, <1>2, <2>3, <3>2 DEF InPlace, Placed, NamesOf
    <3>3. QED BY <2>4, <3>1, <3>2
  <2>6. Placed(mine)'
      BY <2>2, <2>5 DEF Placed
  <2>7. KnowsPlace(p)'
      BY <2>1, NoPlaceKnown DEF Placing, Selecting, Publishing
  <2>8. QED BY <2>6, <2>7
<1>6. CASE RemoveStaging(p) \/ RemoveTrash(p) \/ PersistIsolation(p) \/ Isolate(p) \/ EraseTarget(p)
    BY <1>6 DEF RemoveStaging, RemoveTrash, RemoveOperationDirectory, PersistIsolation, Isolate,
                EraseTarget, Passes, CreateSteps
<1>7. QED BY <1>3, <1>4, <1>5, <1>6 DEF DirCall

(* A removal moves its target from the registered name to the isolation path,
   after that path is on record, and takes it away when it is empty. *)
LEMMA RemovalKeepsPlace ==
    ASSUME NEW p \in Procs, TypeOK, InvocationOK(p), InvocationData(p), RowsHeld,
           NEW mine \in Ids, mine = job[p].id, Placed(mine), KnowsPlace(p),
           DirCall(p), pc[p] \in RemoveSteps
    PROVE  Placed(mine)' /\ KnowsPlace(p)'
<1> DEFINE target == <<"target", mine>>
<1>0. /\ mine \in Active /\ UNCHANGED storeVars
      /\ dir \in [Slots -> Inodes \cup {NoDir}] /\ content \in [Inodes -> Contents]
      /\ own \in [Ids -> {"absent", "published", "isolated"}]
      /\ {target, <<"staging", mine>>, <<"trash", mine>>} \subseteq Inodes
    BY DirCallLabels DEF RowsHeld, Registered, TypeOK, Inodes, ToolInodes, Roles
<1>1. /\ NamesOf(mine) \subseteq Slots
      /\ RegisteredSlot(mine) \notin {<<"staging", mine>>, <<"trash", mine>>, <<"remove", mine>>}
    BY <1>0, OwnNames
<1>2. /\ RegisteredSlot(mine)' = RegisteredSlot(mine) /\ Active' = Active
    BY <1>0 DEF RegisteredSlot, storeVars, Active
<1>3. CASE RemoveStaging(p) \/ RemoveTrash(p)
  <2>1. /\ pc[p] \in Selecting /\ pc'[p] \in Selecting /\ job' = job
      BY <1>3 DEF RemoveStaging, RemoveTrash, RemoveOperationDirectory, Passes, Go, Selecting, TypeOK
  <2>2. PICK role \in {"staging", "trash"} :
            \/ dir' = dir /\ UNCHANGED <<own, content>>
            \/ dir' = dir /\ own' = own /\ content' = [content EXCEPT ![<<role, mine>>] = "empty"]
            \/ dir' = [dir EXCEPT ![<<role, mine>>] = NoDir] /\ UNCHANGED <<own, content>>
      BY <1>3 DEF RemoveStaging, RemoveTrash, RemoveOperationDirectory, Erase, Rmdir, fsVars
  <2>3. /\ own' = own /\ content'[target] = content[target]
        /\ dir'[RegisteredSlot(mine)] = dir[RegisteredSlot(mine)]
        /\ dir'[<<"remove", mine>>] = dir[<<"remove", mine>>]
        /\ \A r \in {"staging", "trash"} : dir'[<<r, mine>>] \in {NoDir, dir[<<r, mine>>]}
      BY <1>0, <1>1, <2>2 DEF NamesOf
  <2>4. Placed(mine)'
      BY <1>2, <2>3 DEF Placed, InPlace, SetAside, Gone
  <2>5. KnowsPlace(p)'
      BY <1>2, <2>1, <2>3 DEF KnowsPlace, InPlace, SetAside, Selecting
  <2>6. QED BY <2>4, <2>5
<1>4. CASE PersistIsolation(p)
  <2>1. pc[p] = "persist" /\ job' = job /\ UNCHANGED <<dir, content>>
      BY <1>4 DEF PersistIsolation, Go
  <2>2. CASE job[p].at = "isolated"
    <3>1. pc'[p] = "erase" /\ own' = own
        BY <1>0, <1>4, <2>2 DEF PersistIsolation, Go, TypeOK
    <3>2. SetAside(mine)
        BY <2>1, <2>2 DEF KnowsPlace, Selecting
    <3>3. Placed(mine)'
        BY <1>2, <2>1, <3>1 DEF Placed, InPlace, SetAside, Gone
    <3>4. KnowsPlace(p)'
        BY <1>2, <2>1, <2>2, <3>1, <3>2 DEF KnowsPlace, SetAside, Selecting
    <3>5. QED BY <3>3, <3>4
  <2>3. CASE job[p].at = "active"
    <3>1. pc'[p] = "isolate" /\ own'[mine] = "isolated"
        BY <1>0, <1>4, <2>3 DEF PersistIsolation, Go, TypeOK
    <3>2. InPlace(mine)
        BY <2>1, <2>3 DEF KnowsPlace, Selecting
    <3>3. Placed(mine)'
        BY <1>2, <2>1, <3>1, <3>2 DEF Placed, InPlace, SetAside, Gone
    <3>4. KnowsPlace(p)'
        BY <1>2, <2>1, <2>3, <3>1, <3>2 DEF KnowsPlace, InPlace, Selecting
    <3>5. QED BY <3>3, <3>4
  <2>4. QED BY <1>4, <2>2, <2>3 DEF PersistIsolation
<1>5. CASE Isolate(p)
  <2>1. pc[p] \in {"isolate", "rename", "moved"} /\ own' = own /\ content' = content
      BY <1>5 DEF Isolate, Passes, fsVars
  <2>2. own[mine] = "isolated"
      BY <2>1 DEF InvocationData, Isolating
  <2>3. CASE pc[p] = "isolate"
    <3>1. pc'[p] = "rename" /\ job' = job /\ dir' = dir
        BY <1>5, <2>3 DEF Isolate, Passes, Go, fsVars, TypeOK
    <3>2. InPlace(mine) /\ job[p].at = "active"
        BY <2>3 DEF KnowsPlace
    <3>3. Placed(mine)'
        BY <1>2, <2>1, <3>1 DEF Placed, InPlace, SetAside, Gone
    <3>4. KnowsPlace(p)'
        BY <1>2, <3>1, <3>2 DEF KnowsPlace, InPlace, Selecting
    <3>5. QED BY <3>3, <3>4
  <2>4. CASE pc[p] = "rename"
    <3>1. /\ pc'[p] = "moved" /\ job' = job
          /\ dir' = [dir EXCEPT ![<<"remove", mine>>] = dir[RegisteredSlot(mine)],
                                ![RegisteredSlot(mine)] = NoDir]
        BY <1>5, <2>4 DEF Isolate, Passes, Go, TypeOK
    <3>2. InPlace(mine)
        BY <2>4 DEF KnowsPlace
    <3>3. SetAside(mine)'
        BY <1>0, <1>1, <1>2, <3>1, <3>2 DEF SetAside, InPlace, NamesOf
    <3>4. \A r \in {"staging", "trash"} : dir'[<<r, mine>>] = dir[<<r, mine>>]
        BY <1>0, <1>1, <3>1 DEF NamesOf
    <3>5. Placed(mine)'
        BY <2>1, <2>2, <3>3, <3>4 DEF Placed
    <3>6. KnowsPlace(p)'
        BY <3>1, <3>3 DEF KnowsPlace, Selecting
    <3>7. QED BY <3>5, <3>6
  <2>5. CASE pc[p] = "moved"
    <3>1. pc'[p] = "erase" /\ job'[p].id = mine /\ job'[p].at = "isolated" /\ dir' = dir
        BY <1>5, <2>5 DEF Isolate, Passes, Select, fsVars, TypeOK, Job
    <3>2. SetAside(mine)
        BY <2>5 DEF KnowsPlace
    <3>3. Placed(mine)'
        BY <1>2, <2>1, <3>1 DEF Placed, InPlace, SetAside, Gone
    <3>4. KnowsPlace(p)'
        BY <1>2, <3>1, <3>2 DEF KnowsPlace, SetAside, Selecting
    <3>5. QED BY <3>3, <3>4
  <2>6. QED BY <2>1, <2>3, <2>4, <2>5
<1>6. CASE EraseTarget(p)
  <2>1. /\ pc[p] \in {"erase", "erase_rest", "rm_verify", "rm_rmdir"} /\ own' = own /\ job' = job
        /\ own[mine] = "isolated" /\ SetAside(mine) /\ job[p].at = "isolated"
      BY <1>6 DEF EraseTarget, Passes, Erase, Rmdir, Go, fsVars, InvocationData, Isolating, KnowsPlace
  <2>2. CASE pc[p] # "rm_rmdir"
    <3>1. dir' = dir /\ pc'[p] \in {"erase_rest", "rm_verify", "rm_rmdir"}
        BY <1>6, <2>2 DEF EraseTarget, Passes, Erase, Go, fsVars, TypeOK
    <3>2. SetAside(mine)'
        BY <1>2, <2>1, <3>1 DEF SetAside
    <3>3. Placed(mine)'
        BY <2>1, <3>1, <3>2 DEF Placed
    <3>4. KnowsPlace(p)'
        BY <2>1, <3>1, <3>2 DEF KnowsPlace, Selecting
    <3>5. QED BY <3>3, <3>4
  <2>3. CASE pc[p] = "rm_rmdir"
    <3>1. /\ dir' = [dir EXCEPT ![<<"remove", mine>>] = NoDir] /\ pc'[p] = "confirm"
          /\ content' = content /\ content[target] = "empty"
        BY <1>6, <2>1, <2>3 DEF EraseTarget, Passes, Evidence, CanRmdir, Rmdir, Go, SetAside, TypeOK
    <3>2. Gone(mine)'
        BY <1>0, <1>1, <1>2, <2>1, <3>1 DEF SetAside, Gone, NamesOf
    <3>3. \A r \in {"staging", "trash"} : dir'[<<r, mine>>] = dir[<<r, mine>>]
        BY <1>0, <1>1, <3>1 DEF NamesOf
    <3>4. Placed(mine)'
        BY <2>1, <3>1, <3>2, <3>3 DEF Placed
    <3>5. KnowsPlace(p)'
        BY <2>1, <3>1, <3>2 DEF KnowsPlace, Selecting
    <3>6. QED BY <3>4, <3>5
  <2>4. QED BY <2>2, <2>3
<1>7. CASE \/ Prepare(p) \/ PublishOwnership(p) \/ (\E kind \in ReceiptKinds : Materialize(p, kind))
           \/ Materialized(p) \/ CowUnavailable(p) \/ MaterializeFails(p) \/ Fallback(p)
           \/ ClearIncomplete(p)
    BY <1>7 DEF Prepare, MakeDir, PublishOwnership, Materialize, Materialized, CowUnavailable,
                MaterializeFails, Fallback, ClearIncomplete, Passes, RemoveSteps
<1>8. QED BY <1>3, <1>4, <1>5, <1>6, <1>7 DEF DirCall

(* The label a failing step leads to. *)
LEMMA FailLabels ==
    ASSUME NEW p \in Procs, TypeOK, Fail(p)
    PROVE  \/ pc'[p] = "done" /\ pc[p] \notin RemoveSteps
           \/ /\ pc'[p] = "record_failure" /\ pc[p] \in CreateSteps /\ job' = job
           \/ /\ pc'[p] = "rm_failed" /\ pc[p] \in RemoveSteps /\ job' = job
           \/ /\ pc'[p] = "log_failed" /\ job' = job
              /\ pc[p] \in {"preflight", "begin", "rm_failed", "complete_deletion"}
<1>1. CASE pc[p] \in CreateSteps
    BY <1>1 DEF Fail, Handler, Go, TypeOK, CreateSteps, RemoveSteps
<1>2. CASE pc[p] \in RemoveSteps
    BY <1>2 DEF Fail, Handler, Go, TypeOK, CreateSteps, RemoveSteps
<1>3. CASE pc[p] \notin CreateSteps \cup RemoveSteps
    BY <1>3 DEF Fail, Handler, Go, Finish, TypeOK, CreateSteps, RemoveSteps
<1>4. QED BY <1>1, <1>2, <1>3

(* A step without effect on directories: a removal knows where its target is
   after it has looked there. *)
LEMMA QuietKeepsPlace ==
    ASSUME NEW p \in Procs, TypeOK, InvocationOK(p), KnowsPlace(p), Quiet(p)
    PROVE  KnowsPlace(p)'
<1> DEFINE id == job[p].id
<1>0. UNCHANGED <<storeVars, fsVars>>
    BY QuietStep
<1>1. CASE Start(p) \/ AcquireLock(p) \/ LockTimeout(p) \/ Crash(p)
  <2>1. pc'[p] \in {"waiting", "lookup", "find", "done", "crashed"}
      BY <1>1 DEF Start, AcquireLock, LockTimeout, Crash, Select, Finish, TypeOK
  <2>2. QED BY <2>1, NoPlaceKnown DEF Placing, Selecting
<1>2. CASE Fault(p) \/ CheckFails(p)
  <2>1. pc'[p] \in {"done", "record_failure", "rm_failed", "log_failed"}
      BY <1>2, FailLabels DEF Fault, CheckFails
  <2>2. QED BY <2>1, NoPlaceKnown DEF Placing, Selecting
<1>3. CASE Lookup(p) \/ Find(p) \/ Preflight(p) \/ AppendLog(p)
  <2>1. CASE Lookup(p) \/ Find(p)
    <3>1. pc'[p] \in {"done", "reserve", "preflight", "absent_started"}
        BY <2>1 DEF Lookup, Find, Select, Finish, TypeOK
    <3>2. QED BY <3>1, NoPlaceKnown DEF Placing, Selecting
  <2>2. CASE Preflight(p) \/ AppendLog(p)
    <3>1. pc'[p] \in {"done", "begin", "absent_completed", "log_failed", "log_started", "log_refused"}
        BY <2>2 DEF Preflight, AppendLog, Go, Finish, TypeOK
    <3>2. QED BY <3>1, NoPlaceKnown DEF Placing, Selecting
  <2>3. QED BY <1>3, <2>1, <2>2
<1>4. CASE EnterRemoval(p)
  <2>1. pc[p] = "rm_enter" /\ Locate(id) \in {"active", "isolated"}
      BY <1>4 DEF EnterRemoval, Passes, Evidence
  <2>2. pc'[p] = "rm_staging" /\ job'[p].id = id /\ job'[p].at = Locate(id)
    <3>1. job[p] \in Job
        BY DEF TypeOK
    <3>2. QED BY <1>4, <3>1 DEF EnterRemoval, Select, TypeOK, Job
  <2>3. \/ Locate(id) = "active" /\ InPlace(id) /\ own[id] # "absent"
        \/ Locate(id) = "isolated" /\ SetAside(id)
      BY <2>1 DEF Locate, InPlace, SetAside
  <2>4. QED BY <1>0, <2>2, <2>3 DEF KnowsPlace, Selecting, InPlace, SetAside, RegisteredSlot,
                                    storeVars, fsVars
<1>5. CASE ConfirmAbsent(p)
  <2>1. pc[p] = "confirm" /\ pc'[p] = "complete_deletion" /\ job' = job
      BY <1>5 DEF ConfirmAbsent, Passes, Go, TypeOK
  <2>2. QED BY <1>0, <2>1 DEF KnowsPlace, Selecting, Gone, RegisteredSlot, storeVars, fsVars
<1>6. QED BY <1>1, <1>2, <1>3, <1>4, <1>5 DEF Quiet

(* Where the steps on tables lead to. *)
LEMMA StoreCallLabels ==
    ASSUME NEW p \in Procs, TypeOK, StoreCall(p)
    PROVE  pc'[p] \in {"mk_target", "done", "rm_enter", "log_failed", "log_completed"}
<1>1. CASE Reserve(p) \/ Complete(p) \/ RecordCreateFailure(p)
    BY <1>1 DEF Reserve, Complete, RecordCreateFailure, Go, Finish, TypeOK
<1>2. CASE BeginRemoval(p)
    BY <1>2, FailLabels DEF BeginRemoval, Go, TypeOK, RemoveSteps, CreateSteps
<1>3. CASE CompleteDeletion(p) \/ RecordRemoveFailure(p)
    BY <1>3 DEF CompleteDeletion, RecordRemoveFailure, Go, TypeOK
<1>4. QED BY <1>1, <1>2, <1>3 DEF StoreCall

(* After a call of the store an invocation knows no place. *)
LEMMA StoreForgetsPlace ==
    ASSUME NEW p \in Procs, TypeOK, StoreCall(p)
    PROVE  KnowsPlace(p)'
BY StoreCallLabels, NoPlaceKnown DEF Placing, Selecting

-----------------------------------------------------------------------------
(* Recoverable *)

(* Whatever an invocation does, the documents keep saying where the targets are. *)
LEMMA ActsKeepPlaces ==
    ASSUME NEW p \in Procs, LifecycleInv, DataInv, [StoreNext]_storeVars,
           \A id \in Ids : Placed(id), KnowsPlace(p), Acts(p)
    PROVE  (\A id \in Ids : Placed(id)') /\ KnowsPlace(p)'
<1>0. /\ TypeOK /\ StoreInv /\ InvocationOK(p) /\ RowsHeld
      /\ InvocationData(p) /\ \A id \in Ids : IdData(id)
    BY DEF LifecycleInv, DataInv
<1>1. CASE Quiet(p)
  <2>1. UNCHANGED <<storeVars, fsVars>>
      BY <1>1, QuietStep
  <2>2. \A id \in Ids : Placed(id)'
      BY <2>1 DEF Placed, InPlace, SetAside, Gone, RegisteredSlot, Active, storeVars, fsVars
  <2>3. QED BY <1>0, <1>1, <2>2, QuietKeepsPlace
<1>2. CASE StoreCall(p)
    BY <1>0, <1>2, StoreKeepsPlaces, StoreForgetsPlace
<1>3. CASE DirCall(p)
  <2>1. PICK mine \in Ids : mine = job[p].id
      BY <1>0, <1>3, DirCallLabels
  <2>2. pc[p] \in CreateSteps \/ pc[p] \in RemoveSteps
      BY <1>0, <1>3, DirCallLabels
  <2>3. Placed(mine)' /\ KnowsPlace(p)'
      BY <1>0, <1>3, <2>1, <2>2, CreationKeepsPlace, RemovalKeepsPlace
  <2>4. \A id \in Ids \ {mine} : Placed(id)'
      BY <1>0, <1>3, <2>1, OthersStayPlaced
  <2>5. QED BY <2>3, <2>4
<1>4. QED BY <1>1, <1>2, <1>3, ActsSplit

(* Only the holder of the lifecycle lock knows a place, so no step of another
   invocation invalidates what it knows. *)
LEMMA OthersKeepPlaces ==
    ASSUME NEW p \in Procs, LifecycleInv, Acts(p), NEW q \in Procs \ {p}, KnowsPlace(q)
    PROVE  KnowsPlace(q)'
<1>0. TypeOK /\ InvocationOK(p) /\ LockHeld
    BY DEF LifecycleInv
<1>1. pc'[q] = pc[q] /\ job'[q] = job[q]
    BY <1>0, ActsMoves DEF Moved
<1>2. CASE lock = p
  <2>1. pc[q] \notin Critical
      BY <1>0, <1>2 DEF LockHeld
  <2>2. Placing \subseteq Critical
      BY DEF Placing, Selecting, Critical, Labels, CreateSteps, RemoveSteps
  <2>3. QED BY <1>1, <2>1, <2>2, NoPlaceKnown
<1>3. CASE Start(p) \/ AcquireLock(p) \/ LockTimeout(p)
  <2>1. UNCHANGED <<storeVars, fsVars>>
      BY <1>3 DEF Start, AcquireLock, LockTimeout
  <2>2. QED BY <1>1, <2>1 DEF KnowsPlace, InPlace, SetAside, Gone, RegisteredSlot, storeVars, fsVars
<1>4. QED BY <1>0, <1>2, <1>3, HolderActs

(* No step of an invocation counts as an action of a user, and none takes back
   a failure. *)
LEMMA ActsCount ==
    ASSUME NEW p \in Procs, TypeOK, Acts(p)
    PROVE  /\ meddle' = meddle
           /\ faults' = 0 => faults = 0
<1>1. faults \in Nat
    BY BoundsAssumption DEF TypeOK
<1>2. CASE Fault(p)
    BY <1>1, <1>2 DEF Fault
<1>3. CASE Quiet(p) /\ ~Fault(p)
    BY <1>3 DEF Quiet, Start, AcquireLock, LockTimeout, Crash, CheckFails, Lookup, Find,
                Preflight, AppendLog, EnterRemoval, ConfirmAbsent, envVars
<1>4. CASE StoreCall(p)
    BY <1>4 DEF StoreCall, Reserve, Complete, RecordCreateFailure, BeginRemoval, CompleteDeletion,
                RecordRemoveFailure, envVars
<1>5. CASE MaterializeFails(p)
    BY <1>1, <1>5 DEF MaterializeFails
<1>6. CASE DirCall(p) /\ ~MaterializeFails(p)
    BY <1>6 DEF DirCall, Prepare, MakeDir, PublishOwnership, Materialize, Materialized,
                CowUnavailable, Fallback, ClearIncomplete, RemoveStaging,
                RemoveTrash, RemoveOperationDirectory, PersistIsolation, Isolate, EraseTarget, envVars
<1>7. QED BY <1>2, <1>3, <1>4, <1>5, <1>6, ActsSplit

(* The invariant holds before anything is created ... *)
LEMMA UndisturbedInitially == Init => UndisturbedInv
<1> SUFFICES ASSUME Init PROVE UndisturbedInv
    OBVIOUS
<1>1. \A p \in Procs : KnowsPlace(p)
    BY DEF Init, KnowsPlace, Selecting
<1>2. \A id \in Ids : dir[<<"remove", id>>] = NoDir /\ own[id] = "absent"
    BY DEF Init, Slots
<1>3. \A id \in Ids, role \in {"staging", "trash"} : dir[<<role, id>>] = NoDir
    BY DEF Init, Slots
<1>4. \A id \in Ids : Placed(id)
    BY <1>2, <1>3 DEF Placed
<1>5. QED BY <1>1, <1>4 DEF UndisturbedInv

(* ... and every step keeps it: a user's action by ending its claim. *)
LEMMA UndisturbedStep == LifecycleInv /\ DataInv /\ UndisturbedInv /\ [Next]_vars => UndisturbedInv'
<1> SUFFICES ASSUME LifecycleInv, DataInv, UndisturbedInv, [Next]_vars PROVE UndisturbedInv'
    OBVIOUS
<1>0. TypeOK /\ (\A p \in Procs : InvocationOK(p)) /\ meddle \in Nat
    BY BoundsAssumption DEF LifecycleInv, TypeOK
<1>1. [StoreNext]_storeVars
    BY <1>0, UsesStore
<1>2. CASE UNCHANGED vars
    BY <1>2 DEF vars, UndisturbedInv, Placed, KnowsPlace, InPlace, SetAside, Gone, RegisteredSlot, Active
<1>3. CASE User
    BY <1>0, <1>3 DEF User, UndisturbedInv
<1>4. ASSUME NEW p \in Procs, Acts(p) PROVE UndisturbedInv'
  <2>1. CASE meddle = 0
    <3>1. (\A id \in Ids : Placed(id)) /\ \A q \in Procs : KnowsPlace(q)
        BY <2>1 DEF UndisturbedInv
    <3>2. (\A id \in Ids : Placed(id)') /\ KnowsPlace(p)'
        BY <1>1, <1>4, <3>1, ActsKeepPlaces
    <3>3. \A q \in Procs \ {p} : KnowsPlace(q)'
        BY <1>4, <3>1, OthersKeepPlaces
    <3>4. QED BY <3>2, <3>3 DEF UndisturbedInv
  <2>2. CASE meddle # 0
      BY <1>0, <1>4, <2>2, ActsCount DEF UndisturbedInv
  <2>3. QED BY <2>1, <2>2
<1>5. QED BY <1>2, <1>3, <1>4 DEF Next, Acts

(* Left alone by users, the target of every registered Workspace is at a name
   its document allows, and each invocation is right about it. *)
THEOREM UndisturbedInvariant == Spec => [](LifecycleInv /\ DataInv /\ UndisturbedInv)
<1>1. QED BY DataInvariant, UndisturbedInitially, UndisturbedStep, PTL DEF Spec

(* Where the target is, there locate_target finds it. *)
LEMMA PlaceIsLocated ==
    ASSUME TypeOK, NEW id \in Ids, own[id] # "absent"
    PROVE  /\ InPlace(id) => Locate(id) = "active"
           /\ SetAside(id) /\ own[id] = "isolated" => Locate(id) = "isolated"
           /\ Gone(id) => Locate(id) = "missing"
<1>1. <<"target", id>> \in Inodes /\ own[id] \in {"published", "isolated"}
    BY DEF TypeOK, Inodes, ToolInodes, Roles
<1>2. CASE InPlace(id)
    BY <1>1, <1>2, NoDirAssumption DEF InPlace, SetAside, Gone, Locate
<1>3. CASE SetAside(id) /\ own[id] = "isolated"
    BY <1>1, <1>3, NoDirAssumption DEF InPlace, SetAside, Gone, Locate
<1>4. CASE Gone(id)
    BY <1>1, <1>4, NoDirAssumption DEF InPlace, SetAside, Gone, Locate
<1>5. CASE ~InPlace(id) /\ ~(SetAside(id) /\ own[id] = "isolated") /\ ~Gone(id)
    BY <1>5
<1>6. QED BY <1>2, <1>3, <1>4, <1>5 DEF InPlace, SetAside, Gone

(* After a kill or a failing call at any step of any number of invocations a
   forced removal finds what an active row has registered: at the target, at
   the recorded isolation path, or gone after it was emptied. *)
THEOREM KilledWorkspaceIsRecoverable == Spec => []Recoverable
<1>1. LifecycleInv /\ UndisturbedInv => Recoverable
  <2> SUFFICES ASSUME LifecycleInv, UndisturbedInv, meddle = 0, NEW id \in Active, own[id] # "absent"
               PROVE  \/ Locate(id) \in {"active", "isolated"}
                      \/ /\ Locate(id) = "missing" /\ own[id] = "isolated"
                         /\ content[<<"target", id>>] = "empty"
      BY DEF Recoverable
  <2>1. TypeOK /\ Placed(id) /\ id \in Ids
      BY DEF UndisturbedInv, LifecycleInv, Active
  <2>2. own[id] \in {"published", "isolated"}
      BY <2>1 DEF TypeOK
  <2>3. QED BY <2>1, <2>2, PlaceIsLocated DEF Placed
<1>2. QED BY <1>1, UndisturbedInvariant, PTL

-----------------------------------------------------------------------------
(* ForcedRemovalStopsForCause: labels *)

(* Where the steps on directories lead to ... *)
LEMMA DirCallGoes ==
    ASSUME NEW p \in Procs, TypeOK, DirCall(p)
    PROVE  pc'[p] \in CreateSteps \cup RemoveSteps \cup {"record_failure"}
<1>0. pc \in [Procs -> Labels]
    BY DEF TypeOK
<1>1. CASE Prepare(p) \/ PublishOwnership(p)
    BY <1>0, <1>1 DEF Prepare, MakeDir, PublishOwnership, Go, CreateSteps
<1>2. CASE (\E kind \in ReceiptKinds : Materialize(p, kind)) \/ Materialized(p) \/ CowUnavailable(p)
             \/ MaterializeFails(p) \/ Fallback(p)
    BY <1>0, <1>2 DEF Materialize, Materialized, CowUnavailable, MaterializeFails, Fallback, Go, Select,
                      CreateSteps
<1>3. CASE ClearIncomplete(p)
    BY <1>0, <1>3 DEF ClearIncomplete, Go, CreateSteps
<1>4. CASE RemoveStaging(p) \/ RemoveTrash(p) \/ PersistIsolation(p)
    BY <1>0, <1>4 DEF RemoveStaging, RemoveTrash, RemoveOperationDirectory, PersistIsolation, Go, RemoveSteps
<1>5. CASE Isolate(p) \/ EraseTarget(p)
    BY <1>0, <1>5 DEF Isolate, EraseTarget, Go, Select, RemoveSteps
<1>6. QED BY <1>1, <1>2, <1>3, <1>4, <1>5 DEF DirCall

(* ... and the steps without effect. *)
LEMMA QuietLabels ==
    ASSUME NEW p \in Procs, TypeOK, Quiet(p)
    PROVE  \/ pc'[p] \in {"waiting", "lookup", "find", "done", "crashed", "reserve", "absent_started",
                          "absent_completed", "log_refused", "record_failure", "complete_deletion"}
           \/ Find(p) /\ pc'[p] = "preflight"
           \/ Preflight(p) /\ pc'[p] \in {"log_started", "log_failed"}
           \/ AppendLog(p) /\ pc[p] = "log_started" /\ pc'[p] = "begin"
           \/ EnterRemoval(p) /\ pc'[p] = "rm_staging"
           \/ Fault(p)
           \/ /\ CheckFails(p) /\ pc'[p] = "rm_failed" /\ pc[p] \in RemoveSteps /\ job' = job
<1>0. pc \in [Procs -> Labels]
    BY DEF TypeOK
<1>1. CASE Start(p) \/ AcquireLock(p) \/ LockTimeout(p) \/ Crash(p)
    BY <1>0, <1>1 DEF Start, AcquireLock, LockTimeout, Crash, Select, Finish
<1>2. CASE CheckFails(p)
  <2>1. pc[p] \in CreateSteps \cup RemoveSteps
      BY <1>2 DEF CheckFails, Checked, CreateSteps, RemoveSteps
  <2>2. pc[p] \notin {"preflight", "begin", "rm_failed", "complete_deletion"}
      BY <2>1 DEF CreateSteps, RemoveSteps
  <2>3. QED BY <1>2, <2>1, <2>2, FailLabels DEF CheckFails
<1>3. CASE Lookup(p) \/ Find(p)
    BY <1>0, <1>3 DEF Lookup, Find, Select, Finish
<1>4. CASE Preflight(p)
    BY <1>0, <1>4 DEF Preflight, Go
<1>5. CASE AppendLog(p)
    BY <1>0, <1>5 DEF AppendLog, Go, Finish
<1>6. CASE EnterRemoval(p)
    BY <1>0, <1>6 DEF EnterRemoval, Select
<1>7. CASE ConfirmAbsent(p)
    BY <1>0, <1>7 DEF ConfirmAbsent, Go
<1>8. QED BY <1>1, <1>2, <1>3, <1>4, <1>5, <1>6, <1>7 DEF Quiet

(* The row that was read under the lock is the one begin_removal compares. *)
LEMMA ActKeepsRow ==
    ASSUME NEW p \in Procs, TypeOK, InvocationOK(p), RowUnchanged(p), Acts(p)
    PROVE  RowUnchanged(p)'
<1>1. CASE pc'[p] \notin {"preflight", "log_started", "begin"}
    BY <1>1 DEF RowUnchanged
<1>2. CASE Find(p) /\ pc'[p] = "preflight"
  <2>1. PICK id \in Active :
             Select(p, "preflight", [job[p] EXCEPT !.id = id, !.state = workspaces[id].state])
      BY <1>2 DEF Find, Select, Finish, TypeOK
  <2>2. job[p] \in Job /\ job \in [Procs -> Job]
      BY DEF TypeOK
  <2>3. job'[p].id = id /\ job'[p].state = workspaces[id].state
      BY <2>1, <2>2 DEF Select, Job
  <2>4. workspaces' = workspaces
      BY <1>2 DEF Find, storeVars
  <2>5. QED BY <2>3, <2>4 DEF RowUnchanged
<1>3. CASE Preflight(p) \/ (AppendLog(p) /\ pc[p] = "log_started")
  <2>1. job' = job /\ workspaces' = workspaces /\ pc[p] \in {"preflight", "log_started"}
      BY <1>3 DEF Preflight, AppendLog, Go, storeVars
  <2>2. QED BY <2>1 DEF RowUnchanged
<1>4. CASE Quiet(p)
  <2>1. CASE Fault(p)
    <3>1. pc'[p] \in {"done", "record_failure", "rm_failed", "log_failed"}
        BY <2>1, FailLabels DEF Fault
    <3>2. QED BY <1>1, <3>1
  <2>2. CASE ~Fault(p)
      BY <1>1, <1>2, <1>3, <1>4, <2>2, QuietLabels
  <2>3. QED BY <2>1, <2>2
<1>5. CASE StoreCall(p)
    BY <1>1, <1>5, StoreCallLabels
<1>6. CASE DirCall(p)
    BY <1>1, <1>6, DirCallGoes DEF CreateSteps, RemoveSteps
<1>7. QED BY <1>4, <1>5, <1>6, ActsSplit

-----------------------------------------------------------------------------
(* ForcedRemovalStopsForCause: what a removal has erased *)

Erased == {"rm_verify_staging", "rm_rmdir_staging", "rm_verify_trash", "rm_rmdir_trash",
           "rm_verify", "rm_rmdir"}

(* Elsewhere an invocation claims nothing about what it has erased. *)
LEMMA NothingErased ==
    ASSUME NEW p \in Procs, pc'[p] \notin Erased
    PROVE  KnowsErased(p)'
BY DEF KnowsErased, Erased

(* What a removal has erased stays empty until its rmdir, if only the tool acts. *)
LEMMA ActKeepsErased ==
    ASSUME NEW p \in Procs, TypeOK, InvocationOK(p), KnowsErased(p), Acts(p)
    PROVE  KnowsErased(p)'
<1> DEFINE id == job[p].id
<1>0. /\ pc \in [Procs -> Labels] /\ content \in [Inodes -> Contents]
    BY DEF TypeOK
<1>1. CASE Quiet(p)
  <2>1. CASE Fault(p)
    <3>1. pc'[p] \in {"done", "record_failure", "rm_failed", "log_failed"}
        BY <2>1, FailLabels DEF Fault
    <3>2. QED BY <3>1, NothingErased DEF Erased
  <2>2. CASE ~Fault(p)
      BY <1>1, <2>2, QuietLabels, NothingErased DEF Erased
  <2>3. QED BY <2>1, <2>2
<1>2. CASE StoreCall(p)
    BY <1>2, StoreCallLabels, NothingErased DEF Erased
<1>3. CASE RemoveStaging(p) \/ RemoveTrash(p)
  <2>1. PICK role \in {"staging", "trash"} :
            \/ /\ pc'[p] \notin Erased
            \/ /\ pc'[p] \in {"rm_verify_staging"} /\ role = "staging"
               /\ dir[<<role, id>>] = <<role, id>>
               /\ content' = [content EXCEPT ![<<role, id>>] = "empty"]
               /\ UNCHANGED <<dir, job>>
            \/ /\ pc'[p] \in {"rm_verify_trash"} /\ role = "trash"
               /\ dir[<<role, id>>] = <<role, id>>
               /\ content' = [content EXCEPT ![<<role, id>>] = "empty"]
               /\ UNCHANGED <<dir, job>>
            \/ /\ pc[p] = "rm_verify_staging" /\ pc'[p] = "rm_rmdir_staging" /\ UNCHANGED <<dir, content, job>>
            \/ /\ pc[p] = "rm_verify_trash" /\ pc'[p] = "rm_rmdir_trash" /\ UNCHANGED <<dir, content, job>>
      BY <1>0, <1>3 DEF RemoveStaging, RemoveTrash, RemoveOperationDirectory, Passes, Evidence, Go, Erase,
                        fsVars, Erased
  <2>2. id \in Ids
      BY <1>3 DEF RemoveStaging, RemoveTrash, RemoveOperationDirectory, Passes, InvocationOK, RemoveLabels,
                  RemoveSteps
  <2>3. <<role, id>> \in Inodes
      BY <2>2 DEF Inodes, ToolInodes, Roles
  <2>4. QED BY <1>0, <2>1, <2>3, NothingErased DEF KnowsErased, Erased
<1>4. CASE EraseTarget(p)
  <2>1. \/ pc'[p] \notin Erased
        \/ /\ pc'[p] = "rm_verify" /\ job' = job
           /\ content' = [content EXCEPT ![<<"target", id>>] = "empty"]
        \/ pc[p] = "rm_verify" /\ pc'[p] = "rm_rmdir" /\ UNCHANGED <<dir, content, job>>
      BY <1>0, <1>4 DEF EraseTarget, Passes, Go, Erase, fsVars, Erased
  <2>2. id \in Ids
      BY <1>4 DEF EraseTarget, Passes, InvocationOK, RemoveLabels, RemoveSteps
  <2>3. <<"target", id>> \in Inodes
      BY <2>2 DEF Inodes, ToolInodes, Roles
  <2>4. QED BY <1>0, <2>1, <2>3, NothingErased DEF KnowsErased, Erased
<1>5. CASE DirCall(p) /\ ~RemoveStaging(p) /\ ~RemoveTrash(p) /\ ~EraseTarget(p)
  <2>1. pc'[p] \notin Erased
    <3>1. CASE PersistIsolation(p) \/ Isolate(p)
        BY <1>0, <3>1 DEF PersistIsolation, Isolate, Go, Select, Erased
    <3>2. CASE ~PersistIsolation(p) /\ ~Isolate(p)
        BY <1>0, <1>5, <3>2 DEF DirCall, Prepare, MakeDir, PublishOwnership, Materialize, Materialized,
              CowUnavailable, MaterializeFails, Fallback, ClearIncomplete, Go, Select, Erased
    <3>3. QED BY <3>1, <3>2
  <2>2. QED BY <2>1, NothingErased
<1>6. QED BY <1>1, <1>2, <1>3, <1>4, <1>5, ActsSplit

-----------------------------------------------------------------------------
(* ForcedRemovalStopsForCause: no check rejects what the tool left *)

(* Past rm_enter every check of a removal finds what the steps before it, or an
   earlier invocation, have left. *)
LEMMA RemovalEvidence ==
    ASSUME NEW p \in Procs, TypeOK, InvocationData(p), NEW mine \in Ids, mine = job[p].id,
           Placed(mine), KnowsPlace(p), KnowsErased(p), pc[p] \in RemoveSteps \ {"rm_enter"}
    PROVE  Evidence(p)
<1>0. {<<"target", mine>>, <<"staging", mine>>, <<"trash", mine>>} \subseteq Inodes
    BY DEF Inodes, ToolInodes, Roles
<1>1. CASE pc[p] \in Selecting \ {"persist"}
  <2>1. Locate(mine) = job[p].at
    <3>1. CASE job[p].at = "active" /\ InPlace(mine) /\ own[mine] # "absent"
        BY <3>1, PlaceIsLocated
    <3>2. CASE job[p].at = "isolated" /\ SetAside(mine)
      <4>1. own[mine] = "isolated"
          BY <1>1, <3>2 DEF InvocationData, Selecting, RemoveSteps
      <4>2. QED BY <3>2, <4>1, PlaceIsLocated
    <3>3. QED BY <1>1, <3>1, <3>2 DEF KnowsPlace
  <2>2. CASE pc[p] \in {"rm_staging", "rm_trash"}
      BY <2>1, <2>2 DEF Evidence, Placed
  <2>3. CASE pc[p] \in {"rm_verify_staging", "rm_verify_trash"}
      BY <2>1, <2>3 DEF Evidence, KnowsErased
  <2>4. CASE pc[p] \in {"rm_rmdir_staging", "rm_rmdir_trash"}
      BY <1>0, <2>4, NoDirAssumption DEF Evidence, KnowsErased, CanRmdir
  <2>5. QED BY <1>1, <2>2, <2>3, <2>4 DEF Selecting
<1>2. CASE pc[p] = "persist"
    BY <1>2 DEF Evidence
<1>3. CASE pc[p] \in {"isolate", "rename"}
  <2>1. own[mine] = "isolated" /\ InPlace(mine) /\ job[p].at = "active"
      BY <1>3 DEF InvocationData, Isolating, KnowsPlace
  <2>2. Locate(mine) = "active"
      BY <2>1, PlaceIsLocated
  <2>3. dir[RegisteredSlot(mine)] # NoDir /\ dir[<<"remove", mine>>] = NoDir
      BY <1>0, <2>1, NoDirAssumption DEF InPlace
  <2>4. QED BY <1>3, <2>1, <2>2, <2>3 DEF Evidence
<1>4. CASE pc[p] = "moved"
    BY <1>4 DEF Evidence, KnowsPlace, SetAside
<1>5. CASE pc[p] \in {"erase", "erase_rest", "rm_verify", "rm_rmdir"}
  <2>1. own[mine] = "isolated" /\ SetAside(mine) /\ job[p].at = "isolated"
      BY <1>5 DEF InvocationData, Isolating, KnowsPlace
  <2>2. Locate(mine) = "isolated"
      BY <2>1, PlaceIsLocated
  <2>3. CASE pc[p] \in {"erase", "erase_rest"}
      BY <2>1, <2>2, <2>3 DEF Evidence
  <2>4. CASE pc[p] = "rm_verify"
      BY <2>1, <2>2, <2>4 DEF Evidence, KnowsErased
  <2>5. CASE pc[p] = "rm_rmdir"
      BY <1>0, <2>1, <2>5, NoDirAssumption DEF Evidence, KnowsErased, SetAside, CanRmdir
  <2>6. QED BY <1>5, <2>3, <2>4, <2>5
<1>6. CASE pc[p] = "confirm"
  <2>1. own[mine] = "isolated" /\ Gone(mine)
      BY <1>6 DEF InvocationData, Isolating, KnowsPlace
  <2>2. QED BY <1>6, <2>1, PlaceIsLocated DEF Evidence
<1>7. QED BY <1>1, <1>2, <1>3, <1>4, <1>5, <1>6 DEF Selecting, RemoveSteps

(* A target that is not found although nobody but the tool acted was never
   registered, or is gone. *)
LEMMA NotLocated ==
    ASSUME TypeOK, NEW id \in Active, Placed(id), Locate(id) \notin {"active", "isolated"}
    PROVE  NothingToRemove(id)
<1>1. id \in Ids /\ own[id] \in {"absent", "published", "isolated"}
    BY DEF Active, TypeOK
<1>2. QED BY <1>1, PlaceIsLocated DEF Placed, NothingToRemove

(* begin_removal of a forced removal fails only for a clock that went back. *)
LEMMA BeginFailsForClock ==
    ASSUME TypeOK, NEW id \in Active, NEW now \in Times,
           RemovalOutcome(id, workspaces[id].state, "force", now) # "ok"
    PROVE  workspaces[id].updated > now
<1> DEFINE row == DeletingRow(workspaces[id], now)
<1>1. id \in Ids /\ workspaces[id] \in Row /\ now \in Nat
    BY TimesAssumption DEF Active, TypeOK, StoreTypeOK
<1>2. workspaces[id].state \in States /\ workspaces[id].updated \in Nat
    BY <1>1, TimesAssumption DEF Row
<1>3. Transition(workspaces[id].state, BeginRemovalEvent("force")) = "deleting"
    BY <1>2 DEF Transition, BeginRemovalEvent, States
<1>4. workspaces[id].state # "deleting"
    BY <1>3 DEF RemovalOutcome, Rejected
<1>5. UpdateOutcome(id, workspaces[id].state, row) # "ok"
    BY <1>3, <1>4 DEF RemovalOutcome, Rejected
<1>6. row.res = workspaces[id].res /\ row.state = "deleting" /\ row.error = NoCode /\ row.updated = now
    BY <1>1 DEF DeletingRow, Row
<1> HIDE DEF row
<1>7. ~UpdateGuard(workspaces[id], row, receipts[id])
    BY <1>5 DEF UpdateOutcome
<1>8. ~(now >= workspaces[id].updated)
    BY <1>2, <1>4, <1>6, <1>7 DEF UpdateGuard, TriggerEdges, States
<1>9. QED BY <1>1, <1>2, <1>8

(* A step that leaves an active row in place leaves nothing to remove. *)
LEMMA NothingStaysNothing ==
    ASSUME StoreInv, [StoreNext]_storeVars, tombstones' = tombstones, UNCHANGED fsVars,
           NEW id \in Active, NothingToRemove(id)
    PROVE  NothingToRemove(id)'
<1>1. workspaces'[id] # NoRow
    BY StoreStep DEF RowStep, Active
<1>2. id \in Active'
    BY <1>1 DEF Active
<1>3. RegisteredSlot(id)' = RegisteredSlot(id)
    BY <1>2, RegisteredSlotStays
<1>4. QED BY <1>3 DEF NothingToRemove, Gone, fsVars

(* A step without effect stops a forced removal only when nothing is found. *)
LEMMA QuietStopsForCause ==
    ASSUME NEW p \in Procs, TypeOK, InvocationOK(p), RowsHeld, InvocationData(p),
           \A id \in Ids : Placed(id), KnowsPlace(p), KnowsErased(p), Quiet(p), ~Fault(p)
    PROVE  StoppedForCause(p)'
<1> DEFINE id == job[p].id
<1>0. UNCHANGED <<storeVars, fsVars>>
    BY QuietStep
<1>1. CASE pc'[p] \notin {"rm_failed", "log_failed"}
    BY <1>1 DEF StoppedForCause
<1>2. CASE CheckFails(p) /\ pc'[p] = "rm_failed" /\ pc[p] \in RemoveSteps /\ job' = job
  <2>1. id \in Active /\ id \in Ids
      BY <1>2 DEF RowsHeld, Registered, Active
  <2>2. ~Evidence(p)
      BY <1>2 DEF CheckFails, CloneRefused, RemoveSteps
  <2>3. pc[p] = "rm_enter"
    <3>1. PICK mine \in Ids : mine = id
        BY <2>1
    <3>2. QED BY <1>2, <2>2, <3>1, RemovalEvidence
  <2>4. Locate(id) \notin {"active", "isolated"}
      BY <2>2, <2>3 DEF Evidence
  <2>5. NothingToRemove(id)
      BY <2>1, <2>4, NotLocated
  <2>6. NothingToRemove(id)'
      BY <1>0, <1>2, <2>5 DEF NothingToRemove, Gone, RegisteredSlot, storeVars, fsVars
  <2>7. QED BY <1>2, <2>6 DEF StoppedForCause
<1>3. CASE Preflight(p) /\ pc'[p] = "log_failed"
  <2>1. pc[p] = "preflight" /\ job' = job
      BY <1>3 DEF Preflight, Go
  <2>2. id \in Active /\ id \in Ids
      BY <2>1 DEF RowsHeld, Registered, Active
  <2>3. ASSUME job[p].req.mode = "force" PROVE NothingToRemove(id)'
    <3>1. Locate(id) \notin {"active", "isolated"}
        BY <1>3, <2>3 DEF Preflight, Go, TypeOK
    <3>2. NothingToRemove(id)
        BY <2>2, <3>1, NotLocated
    <3>3. QED BY <1>0, <2>1, <3>2 DEF NothingToRemove, Gone, RegisteredSlot, storeVars, fsVars
  <2>4. QED BY <1>3, <2>1, <2>3 DEF StoppedForCause
<1>4. QED BY <1>1, <1>2, <1>3, QuietLabels

(* A call of the store stops it only for the clock; the record of a failure
   passes its cause on. *)
LEMMA StoreStopsForCause ==
    ASSUME NEW p \in Procs, TypeOK, StoreInv, [StoreNext]_storeVars, InvocationOK(p), RowsHeld,
           RowUnchanged(p), StoppedForCause(p), StoreCall(p)
    PROVE  StoppedForCause(p)'
<1> DEFINE id == job[p].id
<1>0. UNCHANGED fsVars
    BY StoreCallFrame
<1>1. CASE pc'[p] \notin {"rm_failed", "log_failed"}
    BY <1>1 DEF StoppedForCause
<1>2. CASE BeginRemoval(p) /\ pc'[p] = "log_failed"
  <2>1. pc[p] = "begin" /\ job' = job /\ UNCHANGED storeVars
        /\ RemovalOutcome(id, job[p].state, job[p].req.mode, job[p].now) # "ok"
    <3>1. pc[p] = "begin"
        BY <1>2 DEF BeginRemoval
    <3>2. ~Go(p, "rm_enter")
        BY <1>2 DEF Go, TypeOK
    <3>3. \/ Go(p, "rm_enter")
          \/ /\ Fail(p) /\ UNCHANGED storeVars
             /\ RemovalOutcome(id, job[p].state, job[p].req.mode, job[p].now) # "ok"
        BY <1>2 DEF BeginRemoval
    <3>4. QED BY <1>2, <3>1, <3>2, <3>3, FailLabels DEF CreateSteps, RemoveSteps
  <2>2. id \in Active /\ job[p].now \in Times /\ job[p].state = workspaces[id].state
      BY <2>1 DEF RowsHeld, Registered, InvocationOK, RemoveLabels, RowUnchanged
  <2>3. job[p].req.mode = "force" => workspaces[id].updated > job[p].now
      BY <2>1, <2>2, BeginFailsForClock
  <2>4. QED BY <1>2, <2>1, <2>3 DEF StoppedForCause, storeVars
<1>3. CASE RecordRemoveFailure(p)
  <2>1. pc[p] = "rm_failed" /\ pc'[p] = "log_failed" /\ job' = job /\ tombstones' = tombstones
      BY <1>3 DEF RecordRemoveFailure, Go, record_failure, storeVars, TypeOK
  <2>2. id \in Active
      BY <2>1 DEF RowsHeld, Registered
  <2>3. job[p].req.mode = "force" => NothingToRemove(id)'
      BY <1>0, <2>1, <2>2, NothingStaysNothing DEF StoppedForCause
  <2>4. QED BY <2>1, <2>3 DEF StoppedForCause
<1>4. CASE StoreCall(p) /\ ~BeginRemoval(p) /\ ~RecordRemoveFailure(p)
  <2>1. pc'[p] \notin {"rm_failed", "log_failed"}
      BY <1>4 DEF StoreCall, Reserve, Complete, RecordCreateFailure, CompleteDeletion, Go, Finish, TypeOK
  <2>2. QED BY <1>1, <2>1
<1>5. QED BY <1>1, <1>2, <1>3, <1>4, StoreCallLabels

(* What another invocation knows of its row, its erasing and its failure stays:
   it holds the lifecycle lock, or it knows nothing. *)
LEMMA OthersKeepCause ==
    ASSUME NEW p \in Procs, LifecycleInv, Acts(p), NEW q \in Procs \ {p}
    PROVE  /\ RowUnchanged(q) => RowUnchanged(q)'
           /\ KnowsErased(q) => KnowsErased(q)'
           /\ StoppedForCause(q) => StoppedForCause(q)'
<1>0. TypeOK /\ InvocationOK(p) /\ LockHeld
    BY DEF LifecycleInv
<1>1. pc'[q] = pc[q] /\ job'[q] = job[q]
    BY <1>0, ActsMoves DEF Moved
<1>2. CASE lock = p
  <2>1. pc[q] \notin Critical
      BY <1>0, <1>2 DEF LockHeld
  <2>2. Erased \cup {"preflight", "log_started", "begin", "rm_failed", "log_failed"} \subseteq Critical
      BY DEF Erased, Critical, Labels, RemoveSteps, LogSteps
  <2>3. QED BY <1>1, <2>1, <2>2, NothingErased DEF RowUnchanged, StoppedForCause
<1>3. CASE Start(p) \/ AcquireLock(p) \/ LockTimeout(p)
  <2>1. UNCHANGED <<storeVars, fsVars>>
      BY <1>3 DEF Start, AcquireLock, LockTimeout
  <2>2. QED BY <1>1, <2>1 DEF RowUnchanged, KnowsErased, StoppedForCause, NothingToRemove, Gone,
                              RegisteredSlot, storeVars, fsVars
<1>4. QED BY <1>0, <1>2, <1>3, HolderActs

(* Initially there is no row, no document and no invocation past its start. *)
LEMMA CauseInitially == Init => CauseInv
<1> SUFFICES ASSUME Init PROVE CauseInv
    OBVIOUS
<1>1. \A p \in Procs : RowUnchanged(p) /\ KnowsErased(p) /\ StoppedForCause(p)
    BY DEF Init, RowUnchanged, KnowsErased, StoppedForCause
<1>2. QED BY <1>1 DEF CauseInv

(* Every step keeps the cause on record. *)
LEMMA CauseStep ==
    LifecycleInv /\ DataInv /\ UndisturbedInv /\ CauseInv /\ [Next]_vars => CauseInv'
<1> SUFFICES ASSUME LifecycleInv, DataInv, UndisturbedInv, CauseInv, [Next]_vars PROVE CauseInv'
    OBVIOUS
<1>0. TypeOK /\ StoreInv /\ (\A p \in Procs : InvocationOK(p)) /\ RowsHeld /\ meddle \in Nat
      /\ \A p \in Procs : InvocationData(p)
    BY BoundsAssumption DEF LifecycleInv, TypeOK, DataInv
<1>1. [StoreNext]_storeVars
    BY <1>0, UsesStore
<1>2. CASE UNCHANGED vars
    BY <1>2 DEF vars, CauseInv, RowUnchanged, KnowsErased, StoppedForCause, NothingToRemove, Gone,
                RegisteredSlot
<1>3. CASE User
  <2>1. meddle' # 0 /\ UNCHANGED <<workspaces, pc, job>>
      BY <1>0, <1>3 DEF User, storeVars
  <2>2. QED BY <2>1 DEF CauseInv, RowUnchanged
<1>4. ASSUME NEW p \in Procs, Acts(p) PROVE CauseInv'
  <2>1. \A q \in Procs : RowUnchanged(q)'
    <3>1. RowUnchanged(p)'
        BY <1>0, <1>4, ActKeepsRow DEF CauseInv
    <3>2. \A q \in Procs \ {p} : RowUnchanged(q)'
        BY <1>4, OthersKeepCause DEF CauseInv
    <3>3. QED BY <3>1, <3>2
  <2>2. ASSUME meddle' = 0 PROVE \A q \in Procs : KnowsErased(q)'
    <3>0. meddle = 0
        BY <1>0, <1>4, <2>2, ActsCount
    <3>1. KnowsErased(p)'
        BY <1>0, <1>4, <3>0, ActKeepsErased DEF CauseInv
    <3>2. \A q \in Procs \ {p} : KnowsErased(q)'
        BY <1>4, <3>0, OthersKeepCause DEF CauseInv
    <3>3. QED BY <3>1, <3>2
  <2>3. ASSUME meddle' = 0, faults' = 0 PROVE \A q \in Procs : StoppedForCause(q)'
    <3>0. meddle = 0 /\ faults = 0
        BY <1>0, <1>4, <2>3, ActsCount
    <3>1. /\ RowUnchanged(p) /\ KnowsErased(p) /\ StoppedForCause(p)
          /\ KnowsPlace(p) /\ \A id \in Ids : Placed(id)
        BY <3>0 DEF CauseInv, UndisturbedInv
    <3>2. StoppedForCause(p)'
      <4>1. CASE Quiet(p)
        <5>1. ~Fault(p)
            BY <2>3, <3>0 DEF Fault
        <5>2. QED BY <1>0, <3>1, <4>1, <5>1, QuietStopsForCause
      <4>2. CASE StoreCall(p)
          BY <1>0, <1>1, <3>1, <4>2, StoreStopsForCause
      <4>3. CASE DirCall(p)
        <5>1. pc'[p] \notin {"rm_failed", "log_failed"}
            BY <1>0, <4>3, DirCallGoes DEF CreateSteps, RemoveSteps
        <5>2. QED BY <5>1 DEF StoppedForCause
      <4>4. QED BY <1>4, <4>1, <4>2, <4>3, ActsSplit
    <3>3. \A q \in Procs \ {p} : StoppedForCause(q)'
        BY <1>4, <3>0, OthersKeepCause DEF CauseInv
    <3>4. QED BY <3>2, <3>3
  <2>4. QED BY <2>1, <2>2, <2>3 DEF CauseInv
<1>5. QED BY <1>2, <1>3, <1>4 DEF Next, Acts

(* Left alone, and with every system call succeeding, a forced removal stops
   only where there is nothing left to remove, or because the clock went back:
   what earlier steps and killed invocations of the tool have left passes every
   check, for any number of invocations, IDs, requests and kills. *)
THEOREM ForcedRemovalIsNotSelfBlocked == Spec => []ForcedRemovalStopsForCause
<1>1. LifecycleInv /\ CauseInv => ForcedRemovalStopsForCause
  <2> SUFFICES ASSUME LifecycleInv, CauseInv, faults = 0, meddle = 0, NEW p \in Procs,
                      pc[p] \in {"rm_failed", "log_failed"}, job[p].req.mode = "force"
               PROVE  LET id == job[p].id IN
                      \/ own[id] = "absent"
                      \/ Locate(id) = "missing" /\ own[id] = "isolated"
                      \/ workspaces[id].updated > job[p].now
      BY DEF ForcedRemovalStopsForCause
  <2> DEFINE id == job[p].id
  <2>1. TypeOK /\ id \in Ids
      BY DEF LifecycleInv, InvocationOK, RemoveLabels, LogSteps
  <2>2. NothingToRemove(id) \/ workspaces[id].updated > job[p].now
      BY DEF CauseInv, StoppedForCause
  <2>3. CASE own[id] = "isolated" /\ Gone(id)
      BY <2>1, <2>3, PlaceIsLocated
  <2>4. QED BY <2>2, <2>3 DEF NothingToRemove
<1>2. QED BY <1>1, UndisturbedInvariant, CauseInitially, CauseStep, PTL DEF Spec
=============================================================================
