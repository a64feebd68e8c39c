------------------------ MODULE WorkspaceQueryProofs ------------------------
(***************************************************************************)
(* Theorems about what the commands print: the answers of the queries,     *)
(* which take no lock, and the sentence "No files were removed."           *)
(*                                                                         *)
(* A reader knows only what it has read.  Its invariant says what that is  *)
(* still worth, whatever has happened since: a record read as Ready never  *)
(* becomes Ready again once it was not (Aged), so a record that is found   *)
(* unchanged was Ready at every look between the two readings (Telling).   *)
(***************************************************************************)
EXTENDS WorkspaceQueries, WorkspaceLifecycleProofs

-----------------------------------------------------------------------------
(* The names of a Workspace that is Ready *)

\* creation has cleared staging, then trash, when it completes.
KnowsCleared(p) ==
    /\ pc[p] \in {"clear_trash", "rmdir_trash", "complete"} => dir[<<"staging", job[p].id>>] = NoDir
    /\ pc[p] = "complete" => dir[<<"trash", job[p].id>>] = NoDir

StillReady(id) == id \in Active /\ workspaces[id].state = "ready"

Cleared(id) == StillReady(id) => dir[<<"staging", id>>] = NoDir /\ dir[<<"trash", id>>] = NoDir

ClearedInv ==
    meddle = 0 => (\A p \in Procs : KnowsCleared(p)) /\ (\A id \in Ids : Cleared(id))

-----------------------------------------------------------------------------
(* What a reader has read *)

ReaderLabels == {"idle", "list", "snapshot", "validate", "confirm", "git", "measure", "scan",
                 "measured", "printed"}

\* A record that was read as Ready, now.
Aged(q) ==
    /\ q.id \in Ids /\ q.row.state = "ready"
    /\ \/ q.id \in tombstones
       \/ /\ q.id \in Active /\ workspaces[q.id].state # "creating"
          /\ workspaces[q.id].res = q.row.res
    /\ StillReady(q.id) => QueryOf(q.id) = q

Known(q) == Aged(q) /\ q.row.res.name = ask.name

\* The labels at which the reader uses the record of its last snapshot, and the
\* one that its first inspection has returned.
RowKnown == ask.at \in {"validate", "confirm"}
PriorKnown ==
    \/ ask.at \in {"git", "measure", "scan", "measured"}
    \/ ask.at \in {"snapshot", "validate", "confirm"} /\ ask.round # 1

\* A look that is still worth something: the record was Ready then if it is now,
\* and a Ready Workspace that users left alone was looked at where it is.
Telling(s) ==
    /\ StillReady(s.id) => s.life = "ready"
    /\ s.life = "ready" /\ meddle = 0 => s.inode = <<"target", s.id>> /\ s.holds = "copy"

\* The reader has these fields and no others.
IsReader ==
    ask = [cmd |-> ask.cmd, name |-> ask.name, at |-> ask.at, round |-> ask.round, row |-> ask.row,
           prior |-> ask.prior, seen |-> ask.seen, space |-> ask.space, out |-> ask.out]

\* While it reads: it has printed nothing, and all it has seen is of the records it knows.
Reading ==
    /\ ask.out = Silent
    /\ RowKnown => Known(ask.row)
    /\ PriorKnown => Known(ask.prior)
    /\ ask.cmd = "path" => ~PriorKnown
    /\ ask.at = "confirm" \/ PriorKnown => ask.seen # {}
    /\ \A s \in ask.seen :
          /\ \/ ask.at = "confirm" /\ s.id = ask.row.id
             \/ PriorKnown /\ s.id = ask.prior.id
          /\ Telling(s)

ReaderInv ==
    /\ IsReader /\ ask.at \in ReaderLabels
    /\ ask.at # "printed" => Reading
    /\ ask.at = "printed" => AnswerRestsOnReady /\ LayoutErrorMeansRemoval

-----------------------------------------------------------------------------
(* Ready rows *)

(* A Ready row becomes Ready only by completing its creation, and while it is Ready
   neither it nor its receipt changes. *)
LEMMA ReadyStep ==
    ASSUME StoreInv, [StoreNext]_storeVars, NEW id \in Ids, StillReady(id)'
    PROVE  \/ StillReady(id) /\ workspaces'[id] = workspaces[id] /\ receipts'[id] = receipts[id]
           \/ id \in Active /\ workspaces[id].state = "creating"
<1>0. /\ workspaces \in [Ids -> Row \cup {NoRow}] /\ receipts \in [Ids -> ReceiptKinds \cup {NoReceipt}]
      /\ NoRow \notin Row
    BY NoRowAssumption DEF StoreInv, StoreTypeOK
<1>1. CASE UNCHANGED storeVars
    BY <1>1 DEF storeVars, StillReady, Active
<1>2. ASSUME NEW other \in Ids, NEW row, workspaces' = [workspaces EXCEPT ![other] = row],
             row.state # "ready", receipts' = receipts
      PROVE  StillReady(id) /\ workspaces'[id] = workspaces[id] /\ receipts'[id] = receipts[id]
    BY <1>0, <1>2 DEF StillReady, Active
<1>3. ASSUME NEW other \in Ids, NEW res \in Reservation, reserve_workspace(other, res)
      PROVE  StillReady(id) /\ workspaces'[id] = workspaces[id] /\ receipts'[id] = receipts[id]
  <2>1. NewRow(res).state # "ready"
      BY DEF NewRow
  <2>2. QED BY <1>2, <1>3, <2>1 DEF reserve_workspace
<1>4. ASSUME NEW other \in Ids, NEW plan \in Plan, NEW receipt \in Receipt, NEW now \in Times,
             complete_materialization(other, plan, receipt, now)
      PROVE  \/ StillReady(id) /\ workspaces'[id] = workspaces[id] /\ receipts'[id] = receipts[id]
             \/ id \in Active /\ workspaces[id].state = "creating"
  <2>1. other \in Active /\ workspaces[other].state = "creating"
      BY <1>4, CompleteOk DEF complete_materialization, ReceiptGuard
  <2>2. \A i \in Ids \ {other} : workspaces'[i] = workspaces[i] /\ receipts'[i] = receipts[i]
      BY <1>0, <1>4 DEF complete_materialization
  <2>3. QED BY <2>1, <2>2 DEF StillReady, Active
<1>5. ASSUME NEW other \in Ids, NEW expected \in States, NEW code \in Codes, NEW now \in Times,
             record_failure(other, expected, code, now)
      PROVE  StillReady(id) /\ workspaces'[id] = workspaces[id] /\ receipts'[id] = receipts[id]
  <2>1. other \in Active
      BY <1>5 DEF record_failure, FailureOutcome, UpdateOutcome
  <2>2. ErrorRow(workspaces[other], code, now).state = "error"
      BY <1>0, <2>1 DEF ErrorRow, Active, Row
  <2>3. QED BY <1>2, <1>5, <2>2 DEF record_failure
<1>6. ASSUME NEW other \in Ids, NEW expected \in States, NEW mode \in Modes, NEW now \in Times,
             begin_removal(other, expected, mode, now)
      PROVE  StillReady(id) /\ workspaces'[id] = workspaces[id] /\ receipts'[id] = receipts[id]
  <2>1. CASE workspaces' = workspaces
      BY <1>6, <2>1 DEF begin_removal, StillReady, Active
  <2>2. CASE workspaces' = [workspaces EXCEPT ![other] = DeletingRow(workspaces[other], now)]
    <3>1. CASE workspaces[other] = NoRow
      <4>1. other \in Active
          BY <1>6 DEF begin_removal, RemovalOutcome, UpdateOutcome
      <4>2. QED BY <3>1, <4>1 DEF Active
    <3>2. CASE workspaces[other] \in Row
      <4>1. DeletingRow(workspaces[other], now).state = "deleting"
          BY <3>2 DEF DeletingRow, Row
      <4>2. receipts' = receipts
          BY <1>6 DEF begin_removal
      <4>3. QED BY <1>2, <2>2, <4>1, <4>2
    <3>3. QED BY <1>0, <3>1, <3>2
  <2>3. QED BY <1>6, <2>1, <2>2 DEF begin_removal
<1>7. ASSUME NEW other \in Ids, complete_deletion(other)
      PROVE  StillReady(id) /\ workspaces'[id] = workspaces[id] /\ receipts'[id] = receipts[id]
  <2>1. id # other
      BY <1>0, <1>7 DEF complete_deletion, StillReady, Active
  <2>2. QED BY <1>0, <1>7, <2>1 DEF complete_deletion, StillReady, Active
<1>8. QED BY <1>1, <1>3, <1>4, <1>5, <1>6, <1>7 DEF StoreNext

(* What was read Ready stays what it was, or will not be Ready again. *)
LEMMA AgedKept ==
    ASSUME StoreInv, [StoreNext]_storeVars, NEW q, Aged(q)
    PROVE  Aged(q)' /\ (StillReady(q.id)' => StillReady(q.id))
<1>1. q.id \in Ids /\ tombstones \subseteq tombstones'
    BY StoreStep DEF Aged
<1>2. ~(q.id \in Active /\ workspaces[q.id].state = "creating")
    BY DEF Aged, StoreInv, TombstonedIsGone
<1>3. StillReady(q.id)' => /\ StillReady(q.id) /\ workspaces'[q.id] = workspaces[q.id]
                           /\ receipts'[q.id] = receipts[q.id]
    BY <1>1, <1>2, ReadyStep
<1>4. StillReady(q.id)' => QueryOf(q.id)' = q
    BY <1>3 DEF Aged, QueryOf
<1>5. \/ q.id \in tombstones'
      \/ /\ q.id \in Active' /\ workspaces'[q.id].state # "creating"
         /\ workspaces'[q.id].res = q.row.res
  <2>1. CASE q.id \in tombstones
      BY <1>1, <2>1
  <2>2. CASE q.id \in Active
    <3>1. RowStep(q.id)
        BY <2>2, StoreStep
    <3>2. <<workspaces[q.id].state, "creating">> \notin TriggerEdges
        BY DEF TriggerEdges
    <3>3. q.id \notin tombstones
        BY <2>2 DEF StoreInv, TombstonedIsGone
    <3>4. QED BY <1>1, <2>2, <3>1, <3>2, <3>3 DEF RowStep, Active, Aged
  <2>3. QED BY <2>1, <2>2 DEF Aged
<1>6. QED BY <1>1, <1>3, <1>4, <1>5 DEF Aged

-----------------------------------------------------------------------------
(* Staging and trash are gone when a Workspace is Ready *)

Clearing == {"clear_trash", "rmdir_trash", "complete"}

(* An invocation reaches these labels only through clear_workspace_incomplete. *)
LEMMA ReachesClearing ==
    ASSUME NEW p \in Procs, TypeOK, Acts(p), pc'[p] \in Clearing
    PROVE  ClearIncomplete(p)
<1>0. pc \in [Procs -> Labels]
    BY DEF TypeOK
<1>1. CASE Quiet(p)
    BY <1>1, QuietLabels, FailLabels DEF Fault, Clearing
<1>2. CASE StoreCall(p)
    BY <1>2, StoreCallLabels DEF Clearing
<1>3. CASE Prepare(p) \/ PublishOwnership(p) \/ (\E kind \in ReceiptKinds : Materialize(p, kind))
             \/ Materialized(p) \/ CowUnavailable(p) \/ MaterializeFails(p) \/ Fallback(p)
    BY <1>0, <1>3 DEF Prepare, MakeDir, PublishOwnership, Materialize, Materialized, CowUnavailable,
                      MaterializeFails, Fallback, Go, Select, Clearing
<1>4. CASE RemoveStaging(p) \/ RemoveTrash(p) \/ PersistIsolation(p)
    BY <1>0, <1>4 DEF RemoveStaging, RemoveTrash, RemoveOperationDirectory, PersistIsolation, Go,
                      Clearing
<1>5. CASE Isolate(p) \/ EraseTarget(p)
    BY <1>0, <1>5 DEF Isolate, EraseTarget, Go, Select, Clearing
<1>6. QED BY <1>1, <1>2, <1>3, <1>4, <1>5, ActsSplit DEF DirCall

(* What it has removed there has no name any more. *)
LEMMA ActKeepsCleared ==
    ASSUME NEW p \in Procs, TypeOK, InvocationOK(p), KnowsCleared(p), Acts(p)
    PROVE  KnowsCleared(p)'
<1>1. CASE pc'[p] \notin Clearing
    BY <1>1 DEF KnowsCleared, Clearing
<1>2. CASE pc'[p] \in Clearing
  <2>1. ClearIncomplete(p)
      BY <1>2, ReachesClearing
  <2>2. PICK mine \in Ids : mine = job[p].id
      BY <2>1 DEF ClearIncomplete, Passes, InvocationOK, CreateLabels, CreateSteps
  <2>3. /\ {<<"staging", mine>>, <<"trash", mine>>} \subseteq Slots
        /\ dir \in [Slots -> Inodes \cup {NoDir}] /\ pc \in [Procs -> Labels]
      BY DEF TypeOK, Slots
  <2>4. job' = job
      BY <2>1 DEF ClearIncomplete, Go
  <2>5. CASE pc[p] = "rmdir_staging"
      BY <2>1, <2>2, <2>3, <2>4, <2>5 DEF ClearIncomplete, Passes, Rmdir, Go, KnowsCleared
  <2>6. CASE pc[p] = "clear_trash"
      BY <2>1, <2>2, <2>3, <2>4, <2>6 DEF ClearIncomplete, Passes, Rmdir, Go, KnowsCleared, fsVars
  <2>7. CASE pc[p] = "rmdir_trash"
      BY <2>1, <2>2, <2>3, <2>4, <2>7 DEF ClearIncomplete, Passes, Rmdir, Go, KnowsCleared
  <2>8. CASE pc[p] = "clear"
      BY <1>2, <2>1, <2>3, <2>8 DEF ClearIncomplete, Passes, Go, Clearing
  <2>9. QED BY <2>1, <2>5, <2>6, <2>7, <2>8 DEF ClearIncomplete, Passes
<1>3. QED BY <1>1, <1>2

(* A Workspace becomes Ready when both are gone, and later nothing but a removal, which
   has marked the row before, works under its names. *)
LEMMA ReadyStaysCleared ==
    ASSUME NEW p \in Procs, LifecycleInv, DataInv, KnowsCleared(p), \A id \in Ids : Cleared(id),
           [StoreNext]_storeVars, Acts(p)
    PROVE  \A id \in Ids : Cleared(id)'
<1>0. /\ TypeOK /\ StoreInv /\ InvocationOK(p) /\ InvocationData(p) /\ RowsHeld
    BY DEF LifecycleInv, DataInv
<1>1. SUFFICES ASSUME NEW id \in Ids, StillReady(id)'
               PROVE  dir'[<<"staging", id>>] = NoDir /\ dir'[<<"trash", id>>] = NoDir
    BY DEF Cleared
<1>2. CASE Quiet(p)
    BY <1>1, <1>2, QuietStep DEF Cleared, StillReady, Active, storeVars, fsVars
<1>3. CASE StoreCall(p)
  <2>1. dir' = dir
      BY <1>0, <1>3, StoreCallFrame DEF fsVars
  <2>2. CASE StillReady(id)
      BY <2>1, <2>2 DEF Cleared
  <2>3. CASE ~StillReady(id)
    <3>1. id \in Active /\ workspaces[id].state = "creating"
        BY <1>0, <1>1, <2>3, ReadyStep
    <3>2. id = job[p].id
        BY <1>0, <1>1, <1>3, <3>1, StoreCallFrame DEF StillReady, Active
    <3>3. Complete(p)
      <4>1. CASE Reserve(p)
        <5>1. PICK res : reserve_workspace(id, res)
            BY <3>2, <4>1 DEF Reserve
        <5>2. id \notin Active
            BY <5>1 DEF reserve_workspace, ReserveOutcome, InsertGuard
        <5>3. QED BY <3>1, <5>2
      <4>2. CASE RecordCreateFailure(p) \/ RecordRemoveFailure(p)
        <5>1. \/ UNCHANGED storeVars
              \/ \E expected, code : record_failure(id, expected, code, job[p].now)
            BY <3>2, <4>2 DEF RecordCreateFailure, RecordRemoveFailure
        <5>2. workspaces'[id] = workspaces[id] \/ workspaces'[id].state = "error"
            BY <1>0, <3>1, <5>1 DEF record_failure, ErrorRow, TypeOK, StoreTypeOK, Active, Row, storeVars
        <5>3. QED BY <1>1, <3>1, <5>2 DEF StillReady
      <4>3. CASE BeginRemoval(p)
        <5>1. \/ workspaces' = workspaces
              \/ workspaces' = [workspaces EXCEPT ![id] = DeletingRow(workspaces[id], job[p].now)]
            BY <3>2, <4>3 DEF BeginRemoval, begin_removal, storeVars
        <5>2. workspaces'[id] = workspaces[id] \/ workspaces'[id].state = "deleting"
            BY <1>0, <3>1, <5>1 DEF DeletingRow, TypeOK, StoreTypeOK, Active, Row
        <5>3. QED BY <1>1, <3>1, <5>2 DEF StillReady
      <4>4. CASE CompleteDeletion(p)
        <5>1. workspaces'[id] = NoRow
            BY <1>0, <3>2, <4>4 DEF CompleteDeletion, complete_deletion, TypeOK, StoreTypeOK
        <5>2. QED BY <1>1, <5>1 DEF StillReady, Active
      <4>5. QED BY <1>3, <4>1, <4>2, <4>3, <4>4 DEF StoreCall
    <3>4. pc[p] = "complete"
        BY <3>3 DEF Complete, Passes
    <3>5. QED BY <2>1, <3>2, <3>4 DEF KnowsCleared
  <2>4. QED BY <2>2, <2>3
<1>4. CASE DirCall(p)
  <2>1. PICK mine \in Ids : mine = job[p].id
      BY <1>0, <1>4, DirCallLabels
  <2>2. /\ UNCHANGED storeVars /\ pc[p] \in CreateSteps \cup RemoveSteps /\ mine \in Active
      BY <1>0, <1>4, <2>1, DirCallLabels DEF RowsHeld, Registered
  <2>3. StillReady(id)
      BY <1>1, <2>2 DEF StillReady, Active, storeVars
  <2>4. id # mine
      BY <1>0, <2>1, <2>2, <2>3 DEF InvocationData, StillReady
  <2>5. \A role \in {"staging", "trash"} : <<role, id>> \in Slots \ NamesOf(mine)
      BY <1>0, <2>2, <2>4, OtherNames DEF Slots
  <2>6. \A role \in {"staging", "trash"} : dir'[<<role, id>>] = dir[<<role, id>>]
      BY <1>0, <1>4, <2>1, <2>5, DirCallNames
  <2>7. QED BY <2>3, <2>6 DEF Cleared
<1>5. QED BY <1>2, <1>3, <1>4, ActsSplit

(* Only the holder of the lifecycle lock has cleared anything. *)
LEMMA OthersKeepCleared ==
    ASSUME NEW p \in Procs, LifecycleInv, Acts(p), NEW q \in Procs \ {p}, KnowsCleared(q)
    PROVE  KnowsCleared(q)'
<1>0. TypeOK /\ InvocationOK(p) /\ LockHeld
    BY DEF LifecycleInv
<1>1. pc'[q] = pc[q] /\ job'[q] = job[q]
    BY <1>0, ActsMoves DEF Moved
<1>2. CASE lock = p
  <2>1. pc[q] \notin Critical
      BY <1>0, <1>2 DEF LockHeld
  <2>2. Clearing \subseteq Critical
      BY DEF Clearing, Critical, Labels, CreateSteps
  <2>3. QED BY <1>1, <2>1, <2>2 DEF KnowsCleared, Clearing
<1>3. CASE Start(p) \/ AcquireLock(p) \/ LockTimeout(p)
  <2>1. UNCHANGED fsVars
      BY <1>3 DEF Start, AcquireLock, LockTimeout
  <2>2. QED BY <1>1, <2>1 DEF KnowsCleared, fsVars
<1>4. QED BY <1>0, <1>2, <1>3, HolderActs

(* ClearedInv holds at the start ... *)
LEMMA ClearedInitially == Init => ClearedInv
BY DEF Init, ClearedInv, KnowsCleared, Cleared, StillReady, StoreInit, Active

(* ... and every step keeps it: a user's action by ending its claim. *)
LEMMA ClearedStep == LifecycleInv /\ DataInv /\ ClearedInv /\ [Next]_vars => ClearedInv'
<1> SUFFICES ASSUME LifecycleInv, DataInv, ClearedInv, [Next]_vars PROVE ClearedInv'
    OBVIOUS
<1>0. TypeOK /\ (\A p \in Procs : InvocationOK(p)) /\ meddle \in Nat
    BY BoundsAssumption DEF LifecycleInv, TypeOK
<1>1. [StoreNext]_storeVars
    BY <1>0, UsesStore
<1>2. CASE UNCHANGED vars
    BY <1>2 DEF vars, ClearedInv, KnowsCleared, Cleared, StillReady, Active
<1>3. CASE User
    BY <1>0, <1>3 DEF User, ClearedInv
<1>4. ASSUME NEW p \in Procs, Acts(p) PROVE ClearedInv'
  <2>1. CASE meddle = 0
    <3>1. (\A id \in Ids : Cleared(id)) /\ \A q \in Procs : KnowsCleared(q)
        BY <2>1 DEF ClearedInv
    <3>2. (\A id \in Ids : Cleared(id)') /\ KnowsCleared(p)'
        BY <1>0, <1>1, <1>4, <3>1, ActKeepsCleared, ReadyStaysCleared
    <3>3. \A q \in Procs \ {p} : KnowsCleared(q)'
        BY <1>4, <3>1, OthersKeepCleared
    <3>4. QED BY <3>2, <3>3 DEF ClearedInv
  <2>2. CASE meddle # 0
      BY <1>0, <1>4, <2>2, ActsCount DEF ClearedInv
  <2>3. QED BY <2>1, <2>2
<1>5. QED BY <1>2, <1>3, <1>4 DEF Next, Acts

-----------------------------------------------------------------------------
(* What a look at the directories shows *)

\* All that is known of the invocations and the directories, beside the reader.
SystemInv == LifecycleInv /\ DataInv /\ UndisturbedInv /\ ClearedInv

(* A snapshot finds each record as it is. *)
LEMMA FoundIsKnown ==
    ASSUME StoreInv, NEW q \in Found, q.row.state = "ready"
    PROVE  Known(q) /\ StillReady(q.id)
<1>1. PICK id \in Active : q = QueryOf(id) /\ workspaces[id].res.name = ask.name
    BY DEF Found
<1>2. q.id = id /\ q.row = workspaces[id] /\ id \in Ids
    BY <1>1 DEF QueryOf, Active
<1>3. QED BY <1>1, <1>2 DEF Known, Aged, StillReady

(* A Workspace that is Ready, and that users left alone, is whole and in its place. *)
LEMMA ReadyInPlace ==
    ASSUME SystemInv, meddle = 0, NEW q, Aged(q), StillReady(q.id)
    PROVE  /\ StillValid(q)
           /\ dir[SlotOf(q)] = <<"target", q.id>>
           /\ content[<<"target", q.id>>] = "copy"
<1>1. q.id \in Active /\ q.id \in Ids /\ workspaces[q.id].state = "ready"
      /\ SlotOf(q) = RegisteredSlot(q.id)
    BY DEF Aged, StillReady, QueryOf, SlotOf, RegisteredSlot
<1>2. own[q.id] = "published"
    BY <1>1 DEF SystemInv, DataInv, IdData
<1>3. dir[SlotOf(q)] = <<"target", q.id>>
    BY <1>1, <1>2 DEF SystemInv, UndisturbedInv, Placed, InPlace
<1>4. SlotOf(q) \in Slots /\ <<"target", q.id>> # NoDir
  <2>1. RegisteredSlot(q.id) \in Slots
      BY <1>1, RegisteredSlotIsName DEF SystemInv, LifecycleInv
  <2>2. <<"target", q.id>> \in Inodes
      BY <1>1 DEF Inodes, ToolInodes, Roles
  <2>3. QED BY <1>1, <2>1, <2>2, NoDirAssumption
<1>5. <<"target", q.id>> \in alive
    BY <1>3, <1>4 DEF SystemInv, DataInv, NamesOK
<1>6. content[<<"target", q.id>>] = "copy"
    BY <1>1, <1>5 DEF SystemInv, DataInv, IdData
<1>7. dir[<<"staging", q.id>>] = NoDir /\ dir[<<"trash", q.id>>] = NoDir
    BY <1>1 DEF SystemInv, ClearedInv, Cleared
<1>8. QED BY <1>2, <1>3, <1>6, <1>7 DEF StillValid

(* What the reader sees there is therefore worth something. *)
LEMMA SightsTell ==
    ASSUME SystemInv, NEW q, Aged(q), NEW inode \in {dir[SlotOf(q)], <<"target", q.id>>}
    PROVE  Telling(Sight(q, inode)) /\ Sight(q, inode).id = q.id
<1>1. <<"target", q.id>> # NoDir
  <2>1. <<"target", q.id>> \in Inodes
      BY DEF Aged, Inodes, ToolInodes, Roles
  <2>2. QED BY <2>1, NoDirAssumption
<1>2. /\ Sight(q, inode).id = q.id /\ Sight(q, inode).inode = inode
      /\ Sight(q, inode).life = IF q.id \in Active THEN workspaces[q.id].state ELSE "gone"
      /\ Sight(q, inode).holds = IF inode = NoDir THEN "empty" ELSE content[inode]
    BY DEF Sight
<1>3. StillReady(q.id) <=> Sight(q, inode).life = "ready"
    BY <1>2 DEF StillReady
<1>4. QED BY <1>1, <1>2, <1>3, ReadyInPlace DEF Telling

(* Two Ready records of one name are one record: another one that is found shows that
   the first is gone. *)
LEMMA OtherRecord ==
    ASSUME StoreInv, NEW q, Known(q), NEW other \in Found, other.row.state = "ready", other # q
    PROVE  ~StillReady(q.id)
<1>1. PICK id \in Active : other = QueryOf(id) /\ workspaces[id].res.name = ask.name
    BY DEF Found
<1>2. SUFFICES ASSUME StillReady(q.id) PROVE FALSE
    OBVIOUS
<1>3. QueryOf(q.id) = q /\ q.id \in Active /\ q.row.res.name = ask.name
    BY <1>2 DEF Known, Aged, StillReady
<1>4. workspaces[q.id].res.name = ask.name
    BY <1>3 DEF QueryOf
<1>5. id # q.id
    BY <1>1, <1>3
<1>6. QED BY <1>1, <1>3, <1>4, <1>5 DEF StoreInv, ReservationsAreExclusive

-----------------------------------------------------------------------------
(* What may be printed *)

Ready(s) ==
    /\ s.life = "ready"
    /\ meddle = 0 => s.inode = <<"target", s.id>> /\ s.holds = "copy"

Printable(d) ==
    /\ d.path # NoId => ask.seen # {} /\ \A s \in ask.seen : s.id = d.path /\ Ready(s)
    /\ d.code = "E_TARGET_LAYOUT" /\ meddle = 0
         => \E q \in {ask.row, ask.prior} \ {NoQuery} : ~StillReady(q.id)

(* An answer is printed as it is, and nothing changes before the reader exits. *)
LEMMA Prints ==
    ASSUME NEW documents, Answer(documents), \A d \in documents : Printable(d)
    PROVE  ReaderInv'
<1>1. PICK d \in documents :
         Reads([Resting EXCEPT !.at = "printed", !.seen = ask.seen, !.row = ask.row,
                               !.prior = ask.prior, !.out = d])
    BY DEF Answer
<1>2. /\ UNCHANGED vars
      /\ ask' = [cmd |-> "none", name |-> NoId, at |-> "printed", round |-> 1, row |-> ask.row,
                 prior |-> ask.prior, seen |-> ask.seen, space |-> "absent", out |-> d]
    BY <1>1 DEF Reads, Resting
<1>3. /\ ask'.at = "printed" /\ ask'.row = ask.row /\ ask'.prior = ask.prior /\ ask'.seen = ask.seen
      /\ ask'.out = d
    BY <1>2
<1>4. IsReader' /\ ask'.at \in ReaderLabels
    BY <1>2 DEF IsReader, ReaderLabels
<1>5. workspaces' = workspaces /\ meddle' = meddle
    BY <1>2 DEF vars
<1>6. AnswerRestsOnReady'
    BY <1>3, <1>5 DEF AnswerRestsOnReady, Printable, Ready
<1>7. LayoutErrorMeansRemoval'
    BY <1>3, <1>5 DEF LayoutErrorMeansRemoval, Printable, StillReady, Active
<1>8. QED BY <1>3, <1>4, <1>6, <1>7 DEF ReaderInv

(* An error shows no path. *)
LEMMA Refuses ==
    ASSUME NEW code, Refuse(code),
           code = "E_TARGET_LAYOUT" /\ meddle = 0
             => \E q \in {ask.row, ask.prior} \ {NoQuery} : ~StillReady(q.id)
    PROVE  ReaderInv'
<1>1. ASSUME NEW json, NEW d \in RenderError(code, json) PROVE d.code = code /\ d.path = NoId
    BY <1>1 DEF RenderError, Silent
<1>2. \A json : \A d \in RenderError(code, json) : Printable(d)
    BY <1>1 DEF Printable
<1>3. QED BY <1>2, Prints DEF Refuse

(* A success is no layout error. *)
LEMMA Succeeds ==
    ASSUME NEW document, NEW path, Answer(RenderSuccess(document)),
           \A d \in RenderSuccess(document) : d.code = "none" /\ d.path \in {path, NoId},
           path # NoId => ask.seen # {} /\ \A s \in ask.seen : s.id = path /\ Ready(s)
    PROVE  ReaderInv'
<1>1. \A d \in RenderSuccess(document) : Printable(d)
    BY DEF Printable
<1>2. QED BY <1>1, Prints

(* What a successful command prints: only a status and `path` show a path. *)
LEMMA PathsPrinted ==
    /\ \A d \in RenderSuccess(Silent) : d.code = "none" /\ d.path = NoId
    /\ \A ids : \A d \in RenderSuccess(Listing(ids)) : d.code = "none" /\ d.path = NoId
    /\ \A path : \A d \in RenderSuccess([Silent EXCEPT !.path = path]) :
          d.code = "none" /\ d.path \in {path, NoId}
<1>1. \A ids : \A d \in RenderSuccess(Listing(ids)) : d.code = "none" /\ d.path = NoId
    BY DEF RenderSuccess, Listing, Silent
<1>2. \A path : \A d \in RenderSuccess([Silent EXCEPT !.path = path]) :
         d.code = "none" /\ d.path \in {path, NoId}
    BY DEF RenderSuccess, Silent
<1>3. \A d \in RenderSuccess(Silent) : d.code = "none" /\ d.path = NoId
    BY DEF RenderSuccess, Silent
<1>4. QED BY <1>1, <1>2, <1>3

-----------------------------------------------------------------------------
(* The steps of the reader *)

(* What the reader does leaves everything it knows as it was. *)
LEMMA NothingMoves ==
    ASSUME UNCHANGED vars, NEW x
    PROVE  /\ Aged(x)' <=> Aged(x)
           /\ Telling(x)' <=> Telling(x)
BY DEF vars, Aged, Telling, StillReady, Active, QueryOf

(* A step that reads on: the records it keeps are known, and what it has seen is of them. *)
LEMMA ReadsOn ==
    ASSUME NEW next, Reads(next), ask'.at \in ReaderLabels \ {"printed"}, IsReader',
           ask'.out = Silent, ask'.name = ask.name,
           RowKnown' => Aged(ask'.row) /\ ask'.row.row.res.name = ask.name,
           PriorKnown' => Aged(ask'.prior) /\ ask'.prior.row.res.name = ask.name,
           ask'.cmd = "path" => ~PriorKnown',
           ask'.at = "confirm" \/ PriorKnown' => ask'.seen # {},
           \A s \in ask'.seen :
              /\ \/ ask'.at = "confirm" /\ s.id = ask'.row.id
                 \/ PriorKnown' /\ s.id = ask'.prior.id
              /\ Telling(s)
    PROVE  ReaderInv'
<1>1. UNCHANGED vars
    BY DEF Reads
<1>2. PICK row, prior : row = ask'.row /\ prior = ask'.prior
    OBVIOUS
<1>3. (RowKnown' => Known(ask.row)') /\ (PriorKnown' => Known(ask.prior)')
  <2>1. Aged(row)' = Aged(ask.row)' /\ Aged(prior)' = Aged(ask.prior)'
      BY <1>2 DEF Aged, StillReady, Active, QueryOf
  <2>2. (Aged(row) => Aged(row)') /\ (Aged(prior) => Aged(prior)')
      BY <1>1, NothingMoves
  <2>3. QED BY <1>2, <2>1, <2>2 DEF Known
<1>4. \A s \in ask'.seen : Telling(s)'
    BY <1>1, NothingMoves
<1>5. QED BY <1>3, <1>4 DEF ReaderInv, Reading

(* Asking forgets whatever was read before. *)
LEMMA AskKeeps == ASSUME ReaderInv, Ask PROVE ReaderInv'
<1>1. ASSUME NEW cmd \in {"path", "status"}, NEW name \in Names,
             Reads([Resting EXCEPT !.cmd = cmd, !.name = name, !.at = "snapshot"])
      PROVE  ReaderInv'
  <2>1. ask' = [cmd |-> cmd, name |-> name, at |-> "snapshot", round |-> 1, row |-> NoQuery,
                prior |-> NoQuery, seen |-> {}, space |-> "absent", out |-> Silent]
      BY <1>1 DEF Reads, Resting
  <2>2. QED BY <2>1 DEF ReaderInv, IsReader, ReaderLabels, Reading, RowKnown, PriorKnown
<1>2. ASSUME Reads([Resting EXCEPT !.cmd = "list", !.at = "list"]) PROVE ReaderInv'
  <2>1. ask' = [cmd |-> "list", name |-> NoId, at |-> "list", round |-> 1, row |-> NoQuery,
                prior |-> NoQuery, seen |-> {}, space |-> "absent", out |-> Silent]
      BY <1>2 DEF Reads, Resting
  <2>2. QED BY <2>1 DEF ReaderInv, IsReader, ReaderLabels, Reading, RowKnown, PriorKnown
<1>3. ASSUME Refuse("E_USAGE") PROVE ReaderInv'
    BY <1>3, Refuses
<1>4. ASSUME Answer(RenderSuccess(Silent)) PROVE ReaderInv'
    BY <1>4, Succeeds, PathsPrinted
<1>5. QED BY <1>1, <1>2, <1>3, <1>4 DEF Ask

(* An exit brings the reader back to where it started. *)
LEMMA ExitKeeps == ASSUME ReaderInv, Exit PROVE ReaderInv'
<1>1. ask' = [cmd |-> "none", name |-> NoId, at |-> "idle", round |-> 1, row |-> NoQuery,
              prior |-> NoQuery, seen |-> {}, space |-> "absent", out |-> Silent]
    BY DEF Exit, Reads, Resting
<1>2. QED BY <1>1 DEF ReaderInv, IsReader, ReaderLabels, Reading, RowKnown, PriorKnown

(* A listing has no path. *)
LEMMA ListKeeps == ASSUME ReaderInv, List PROVE ReaderInv'
<1>1. CASE Refuse("E_METADATA")
    BY <1>1, Refuses
<1>2. ASSUME NEW ids, Answer(RenderSuccess(Listing(ids))) PROVE ReaderInv'
  <2> DEFINE document == Listing(ids)
  <2>1. \A d \in RenderSuccess(document) : d.code = "none" /\ d.path \in {NoId}
      BY PathsPrinted
  <2> HIDE DEF document
  <2>2. QED BY <1>2, <2>1, Succeeds DEF document
<1>3. QED BY <1>1, <1>2 DEF List

(* A record that is not Ready is answered without a path. *)
LEMMA UnreadyKeeps ==
    ASSUME ReaderInv, NEW q, q.row.state # "ready", Unready(q)
    PROVE  ReaderInv'
<1>1. CASE Refuse("E_WORKSPACE_NOT_READY")
    BY <1>1, Refuses
<1>2. CASE Answer(RenderSuccess(Status(q.id, q.row.state, FALSE, "absent")))
  <2> DEFINE document == Status(q.id, q.row.state, FALSE, "absent")
  <2>1. \A d \in RenderSuccess(document) : d.code = "none" /\ d.path \in {NoId}
      BY DEF RenderSuccess, Status, Silent
  <2> HIDE DEF document
  <2>2. QED BY <1>2, <2>1, Succeeds DEF document
<1>3. QED BY <1>1, <1>2 DEF Unready

(* A Ready record is read, once there is its receipt. *)
LEMMA SnapshotKeeps == ASSUME SystemInv, ReaderInv, Snapshot PROVE ReaderInv'
<1>0. /\ Reading /\ IsReader /\ ask.at = "snapshot" /\ StoreInv
    BY DEF Snapshot, ReaderInv, SystemInv, LifecycleInv
<1>1. CASE \E code \in {"E_WORKSPACE_NOT_FOUND", "E_METADATA"} : Refuse(code)
    BY <1>1, Refuses
<1>2. ASSUME NEW q \in Found, q.row.state # "ready", Unready(q) PROVE ReaderInv'
    BY <1>2, UnreadyKeeps
<1>3. ASSUME NEW q \in Found, q.row.state = "ready", Reads([ask EXCEPT !.at = "validate", !.row = q])
      PROVE  ReaderInv'
  <2>1. ask' = [cmd |-> ask.cmd, name |-> ask.name, at |-> "validate", round |-> ask.round, row |-> q,
                prior |-> ask.prior, seen |-> ask.seen, space |-> ask.space, out |-> ask.out]
      BY <1>0, <1>3 DEF IsReader, Reads
  <2>2. IsReader' /\ ask'.at \in ReaderLabels \ {"printed"}
      BY <2>1 DEF IsReader, ReaderLabels
  <2>3. Known(q)
      BY <1>0, <1>3, FoundIsKnown
  <2>4. PriorKnown' <=> PriorKnown
      BY <1>0, <2>1 DEF PriorKnown
  <2>5. QED BY <1>0, <1>3, <2>1, <2>2, <2>3, <2>4, ReadsOn DEF Reading, Known
<1>4. QED BY <1>1, <1>2, <1>3 DEF Snapshot

(* The record is the one a validation needs, and its failure is somebody's doing. *)
LEMMA InvalidMeansGone ==
    ASSUME SystemInv, NEW q \in {ask.row, ask.prior}, Aged(q), ~StillValid(q), meddle = 0
    PROVE  \E gone \in {ask.row, ask.prior} \ {NoQuery} : ~StillReady(gone.id)
<1>1. q # NoQuery
    BY NoIdAssumption DEF Aged, NoQuery
<1>2. ~StillReady(q.id)
    BY ReadyInPlace
<1>3. QED BY <1>1, <1>2

(* A validation is a look at the target. *)
LEMMA ValidateKeeps == ASSUME SystemInv, ReaderInv, Validate PROVE ReaderInv'
<1>0. /\ Reading /\ IsReader /\ ask.at = "validate" /\ Known(ask.row) /\ Aged(ask.row)
    BY DEF Validate, ReaderInv, Reading, RowKnown, Known
<1>1. CASE ~StillValid(ask.row) /\ Refuse("E_TARGET_LAYOUT")
    BY <1>0, <1>1, InvalidMeansGone, Refuses
<1>2. CASE Reads([ask EXCEPT !.at = "confirm", !.seen = See(ask.row, dir[SlotOf(ask.row)])])
  <2>1. PICK sight : sight = Sight(ask.row, dir[SlotOf(ask.row)])
      OBVIOUS
  <2>2. ask' = [cmd |-> ask.cmd, name |-> ask.name, at |-> "confirm", round |-> ask.round,
                row |-> ask.row, prior |-> ask.prior, seen |-> ask.seen \cup {sight},
                space |-> ask.space, out |-> ask.out]
      BY <1>0, <1>2, <2>1 DEF IsReader, Reads, See
  <2>3. IsReader' /\ ask'.at \in ReaderLabels \ {"printed"}
      BY <2>2 DEF IsReader, ReaderLabels
  <2>4. Telling(sight) /\ sight.id = ask.row.id
      BY <1>0, <2>1, SightsTell
  <2>5. PriorKnown' <=> PriorKnown
      BY <1>0, <2>2 DEF PriorKnown
  <2>6. QED BY <1>0, <1>2, <2>2, <2>3, <2>4, <2>5, ReadsOn DEF Reading, Known
<1>3. QED BY <1>1, <1>2 DEF Validate

(* The record is found as it was, still Ready, so it was Ready at every look. *)
LEMMA ConfirmedWasReady ==
    ASSUME SystemInv, Reading, NEW q, q \in Found, Aged(q), q.row.state = "ready",
           \A s \in ask.seen : s.id = q.id
    PROVE  \A s \in ask.seen : s.id = q.id /\ Ready(s)
<1>1. StillReady(q.id)
    BY FoundIsKnown DEF SystemInv, LifecycleInv
<1>2. QED BY <1>1 DEF Reading, Telling, Ready

(* A confirmed record is inspected by Git, measured, or printed. *)
LEMMA InspectedKeeps ==
    ASSUME SystemInv, ReaderInv, ask.at = "confirm", ask.row \in Found, ask.row.row.state = "ready",
           Inspected
    PROVE  ReaderInv'
<1>0. /\ Reading /\ IsReader /\ Known(ask.row) /\ Aged(ask.row) /\ StoreInv /\ ask.seen # {}
    BY DEF ReaderInv, Reading, RowKnown, Known, SystemInv, LifecycleInv
<1>1. ASSUME \A s \in ask.seen : s.id = ask.row.id
      PROVE  \A s \in ask.seen : s.id = ask.row.id /\ Ready(s)
    BY <1>0, <1>1, ConfirmedWasReady
<1>2. CASE ask.cmd = "path"
  <2>1. \A s \in ask.seen : s.id = ask.row.id
      BY <1>0, <1>2 DEF Reading
  <2> DEFINE document == [Silent EXCEPT !.path = ask.row.id]
  <2>2. \A d \in RenderSuccess(document) : d.code = "none" /\ d.path \in {ask.row.id, NoId}
      BY PathsPrinted
  <2>3. Answer(RenderSuccess(document))
      BY <1>2 DEF Inspected
  <2> HIDE DEF document
  <2>4. QED BY <1>0, <1>1, <2>1, <2>2, <2>3, Succeeds
<1>3. CASE ask.cmd # "path" /\ ask.round = 1
  <2>1. ask' = [cmd |-> ask.cmd, name |-> ask.name, at |-> "git", round |-> ask.round,
                row |-> ask.row, prior |-> ask.row, seen |-> ask.seen, space |-> ask.space,
                out |-> ask.out]
      BY <1>0, <1>3 DEF Inspected, IsReader, Reads
  <2>2. IsReader' /\ ask'.at \in ReaderLabels \ {"printed"}
      BY <2>1 DEF IsReader, ReaderLabels
  <2>3. PriorKnown' /\ ~RowKnown' /\ ~PriorKnown
      BY <1>3, <2>1 DEF PriorKnown, RowKnown
  <2>4. Reads([ask EXCEPT !.at = "git", !.prior = ask.row])
      BY <1>3 DEF Inspected
  <2>5. QED BY <1>0, <1>3, <2>1, <2>2, <2>3, <2>4, ReadsOn DEF Reading, Known
<1>4. CASE ask.cmd # "path" /\ ask.round # 1 /\ ask.row # ask.prior
  <2>1. Refuse("E_TARGET_LAYOUT")
      BY <1>4 DEF Inspected
  <2>2. Known(ask.prior)
      BY <1>0, <1>4 DEF Reading, PriorKnown
  <2>3. ~StillReady(ask.prior.id)
      BY <1>0, <1>4, <2>2, OtherRecord
  <2>4. ask.prior # NoQuery
      BY <2>2, NoIdAssumption DEF Known, Aged, NoQuery
  <2>5. QED BY <2>1, <2>3, <2>4, Refuses
<1>5. CASE ask.cmd # "path" /\ ask.round # 1 /\ ask.row = ask.prior
  <2>0. \A s \in ask.seen : s.id = ask.row.id
      BY <1>0, <1>5 DEF Reading
  <2>1. CASE ask.round = 2
    <3>1. ask' = [cmd |-> ask.cmd, name |-> ask.name, at |-> "measure", round |-> ask.round,
                  row |-> ask.row, prior |-> ask.prior, seen |-> ask.seen, space |-> ask.space,
                  out |-> ask.out]
        BY <1>0, <1>5, <2>1 DEF Inspected, IsReader, Reads
    <3>2. IsReader' /\ ask'.at \in ReaderLabels \ {"printed"}
        BY <3>1 DEF IsReader, ReaderLabels
    <3>3. PriorKnown' /\ ~RowKnown'
        BY <3>1 DEF PriorKnown, RowKnown
    <3>4. Reads([ask EXCEPT !.at = "measure"])
        BY <1>5, <2>1 DEF Inspected
    <3>5. QED BY <1>0, <1>5, <2>0, <3>1, <3>2, <3>3, <3>4, ReadsOn DEF Reading, Known
  <2>2. CASE ask.round # 2
    <3> DEFINE document == Status(ask.row.id, ask.row.row.state, TRUE, ask.space)
    <3>1. \A d \in RenderSuccess(document) : d.code = "none" /\ d.path \in {ask.row.id, NoId}
        BY DEF RenderSuccess, Status, Silent
    <3>2. Answer(RenderSuccess(document))
        BY <1>5, <2>2 DEF Inspected
    <3> HIDE DEF document
    <3>3. QED BY <1>0, <1>1, <2>0, <3>1, <3>2, Succeeds
  <2>3. QED BY <2>1, <2>2
<1>6. QED BY <1>2, <1>3, <1>4, <1>5

(* The second snapshot finds the record unchanged, or the first one is gone. *)
LEMMA ConfirmKeeps == ASSUME SystemInv, ReaderInv, Confirm PROVE ReaderInv'
<1>0. /\ Reading /\ ask.at = "confirm" /\ Known(ask.row) /\ StoreInv
    BY DEF Confirm, ReaderInv, Reading, RowKnown, SystemInv, LifecycleInv
<1>1. CASE Refuse("E_WORKSPACE_NOT_FOUND")
    BY <1>1, Refuses
<1>2. ASSUME NEW q \in Found, q.row.state # "ready", Unready(q) PROVE ReaderInv'
    BY <1>2, UnreadyKeeps
<1>3. ASSUME NEW q \in Found, q.row.state = "ready", q # ask.row,
             Refuse("E_TARGET_LAYOUT") \/ Refuse("E_METADATA")
      PROVE  ReaderInv'
  <2>1. ~StillReady(ask.row.id)
      BY <1>0, <1>3, OtherRecord
  <2>2. ask.row # NoQuery
      BY <1>0, NoIdAssumption DEF Known, Aged, NoQuery
  <2>3. QED BY <1>3, <2>1, <2>2, Refuses
<1>4. ASSUME ask.row \in Found, ask.row.row.state = "ready", Inspected PROVE ReaderInv'
    BY <1>0, <1>4, InspectedKeeps
<1>5. QED BY <1>0, <1>1, <1>2, <1>3, <1>4 DEF Confirm, Known, Aged

(* Git and the scan look at the record that the first inspection returned. *)
LEMMA LooksKeep ==
    ASSUME SystemInv, ReaderInv, InspectGit \/ ScanSpace
    PROVE  ReaderInv'
<1>0. /\ Reading /\ IsReader /\ PriorKnown /\ Known(ask.prior) /\ Aged(ask.prior)
      /\ ask.at \in {"git", "scan"}
    BY DEF InspectGit, ScanSpace, ReaderInv, Reading, PriorKnown, Known
<1>1. PICK inode \in {dir[SlotOf(ask.prior)], <<"target", ask.prior.id>>} :
         /\ ask'.seen = See(ask.prior, inode)
         /\ IsReader' /\ ask'.at \in ReaderLabels \ {"printed"} /\ PriorKnown' /\ ~RowKnown'
         /\ ask'.prior = ask.prior /\ ask'.cmd = ask.cmd /\ ask'.name = ask.name /\ ask'.out = ask.out
         /\ Reads(ask')
  <2>1. CASE InspectGit
    <3>1. PICK at \in {"git", "snapshot"} :
             Reads([ask EXCEPT !.at = at, !.round = IF at = "snapshot" THEN 2 ELSE 1,
                               !.seen = See(ask.prior, dir[SlotOf(ask.prior)])])
        BY <2>1 DEF InspectGit
    <3>2. ask' = [cmd |-> ask.cmd, name |-> ask.name, at |-> at,
                  round |-> IF at = "snapshot" THEN 2 ELSE 1, row |-> ask.row, prior |-> ask.prior,
                  seen |-> See(ask.prior, dir[SlotOf(ask.prior)]), space |-> ask.space,
                  out |-> ask.out]
        BY <1>0, <3>1 DEF IsReader, Reads
    <3>3. /\ ask'.seen = See(ask.prior, dir[SlotOf(ask.prior)])
          /\ IsReader' /\ ask'.at \in ReaderLabels \ {"printed"} /\ PriorKnown' /\ ~RowKnown'
          /\ ask'.prior = ask.prior /\ ask'.cmd = ask.cmd /\ ask'.name = ask.name /\ ask'.out = ask.out
        BY <3>2 DEF IsReader, ReaderLabels, PriorKnown, RowKnown
    <3>4. QED BY <3>1, <3>3 DEF Reads
  <2>2. CASE ScanSpace
    <3>1. PICK at \in {"scan", "measured"}, space \in Estimates :
             Reads([ask EXCEPT !.at = at, !.space = IF at = "scan" THEN "absent" ELSE space,
                               !.seen = See(ask.prior, <<"target", ask.prior.id>>)])
        BY <2>2 DEF ScanSpace
    <3>2. ask' = [cmd |-> ask.cmd, name |-> ask.name, at |-> at, round |-> ask.round,
                  row |-> ask.row, prior |-> ask.prior,
                  seen |-> See(ask.prior, <<"target", ask.prior.id>>),
                  space |-> IF at = "scan" THEN "absent" ELSE space, out |-> ask.out]
        BY <1>0, <3>1 DEF IsReader, Reads
    <3>3. /\ ask'.seen = See(ask.prior, <<"target", ask.prior.id>>)
          /\ IsReader' /\ ask'.at \in ReaderLabels \ {"printed"} /\ PriorKnown' /\ ~RowKnown'
          /\ ask'.prior = ask.prior /\ ask'.cmd = ask.cmd /\ ask'.name = ask.name /\ ask'.out = ask.out
        BY <3>2 DEF IsReader, ReaderLabels, PriorKnown, RowKnown
    <3>4. QED BY <3>1, <3>3 DEF Reads
  <2>3. QED BY <2>1, <2>2
<1>2. PICK sight : sight = Sight(ask.prior, inode)
    OBVIOUS
<1>3. ask'.seen = ask.seen \cup {sight} /\ Telling(sight) /\ sight.id = ask.prior.id
    BY <1>0, <1>1, <1>2, SightsTell DEF See
<1>4. QED BY <1>0, <1>1, <1>3, ReadsOn DEF Reading, Known

(* The validations before and after the scan concern that record as well. *)
LEMMA ValidatesAgain ==
    ASSUME SystemInv, ReaderInv, OpenForScan \/ Measured
    PROVE  ReaderInv'
<1>0. /\ Reading /\ IsReader /\ PriorKnown /\ Known(ask.prior) /\ Aged(ask.prior)
      /\ ask.at \in {"measure", "measured"}
    BY DEF OpenForScan, Measured, ReaderInv, Reading, PriorKnown, Known
<1>1. CASE ~StillValid(ask.prior) /\ Refuse("E_TARGET_LAYOUT")
    BY <1>0, <1>1, InvalidMeansGone, Refuses
<1>2. ASSUME Reads([ask EXCEPT !.at = "scan"]) \/ Reads([ask EXCEPT !.at = "snapshot", !.round = 3])
      PROVE  ReaderInv'
  <2>1. PICK at \in {"scan", "snapshot"}, round \in {ask.round, 3} :
          /\ ask' = [cmd |-> ask.cmd, name |-> ask.name, at |-> at, round |-> round, row |-> ask.row,
                     prior |-> ask.prior, seen |-> ask.seen, space |-> ask.space, out |-> ask.out]
          /\ at = "snapshot" => round = 3
    <3>1. CASE Reads([ask EXCEPT !.at = "scan"])
        BY <1>0, <3>1 DEF IsReader, Reads
    <3>2. CASE Reads([ask EXCEPT !.at = "snapshot", !.round = 3])
        BY <1>0, <3>2 DEF IsReader, Reads
    <3>3. QED BY <1>2, <3>1, <3>2
  <2>2. /\ IsReader' /\ ask'.at \in ReaderLabels \ {"printed"} /\ PriorKnown' /\ ~RowKnown'
        /\ ask'.prior = ask.prior /\ ask'.seen = ask.seen
        /\ ask'.cmd = ask.cmd /\ ask'.name = ask.name /\ ask'.out = ask.out
      BY <2>1 DEF IsReader, ReaderLabels, PriorKnown, RowKnown
  <2>3. Reads(ask')
      BY <1>2 DEF Reads
  <2>4. QED BY <1>0, <2>2, <2>3, ReadsOn DEF Reading, Known
<1>3. QED BY <1>1, <1>2 DEF OpenForScan, Measured

(* Whatever the reader does. *)
LEMMA QueryKeeps == ASSUME SystemInv, ReaderInv, Query PROVE ReaderInv'
<1>1. CASE ReadFails
    BY <1>1, Refuses DEF ReadFails
<1>2. QED BY <1>1, AskKeeps, ExitKeeps, ListKeeps, SnapshotKeeps, ValidateKeeps, ConfirmKeeps,
             LooksKeep, ValidatesAgain DEF Query

-----------------------------------------------------------------------------
(* Results *)

(* What users and invocations do beside the reader leaves what it knows worth as much. *)
LEMMA LifecycleKeepsReader ==
    ASSUME SystemInv, ReaderInv, [Next]_vars, ask' = ask, ask.at # "printed"
    PROVE  ReaderInv'
<1>0. /\ StoreInv /\ Reading /\ TypeOK /\ meddle \in Nat
    BY BoundsAssumption DEF SystemInv, LifecycleInv, ReaderInv, TypeOK
<1>1. [StoreNext]_storeVars
    BY UsesStore DEF SystemInv, LifecycleInv
<1>2. meddle' = 0 => meddle = 0
  <2>1. CASE User
      BY <1>0, <2>1 DEF User
  <2>2. CASE UNCHANGED vars
      BY <2>2 DEF vars
  <2>3. ASSUME NEW p \in Procs, Acts(p) PROVE meddle' = meddle
      BY <1>0, <2>3, ActsCount
  <2>4. QED BY <2>1, <2>2, <2>3 DEF Next, Acts
<1>3. PICK row, prior : row = ask.row /\ prior = ask.prior
    OBVIOUS
<1>4. /\ Aged(row) => Aged(row)' /\ (StillReady(row.id)' => StillReady(row.id))
      /\ Aged(prior) => Aged(prior)' /\ (StillReady(prior.id)' => StillReady(prior.id))
    BY <1>0, <1>1, AgedKept
<1>5. (RowKnown' <=> RowKnown) /\ (PriorKnown' <=> PriorKnown)
    BY DEF RowKnown, PriorKnown
<1>6. (RowKnown => Known(ask.row)') /\ (PriorKnown => Known(ask.prior)')
  <2>1. Aged(row)' = Aged(ask.row)' /\ Aged(prior)' = Aged(ask.prior)'
      BY <1>3 DEF Aged, StillReady, Active, QueryOf
  <2>2. QED BY <1>0, <1>3, <1>4, <2>1 DEF Reading, Known
<1>7. ASSUME NEW s \in ask.seen PROVE Telling(s)'
  <2>1. StillReady(s.id)' => StillReady(s.id)
    <3>1. CASE ask.at = "confirm" /\ s.id = ask.row.id
        BY <1>0, <1>3, <1>4, <3>1 DEF Reading, RowKnown, Known
    <3>2. CASE PriorKnown /\ s.id = ask.prior.id
        BY <1>0, <1>3, <1>4, <3>2 DEF Reading, Known
    <3>3. QED BY <1>0, <3>1, <3>2 DEF Reading
  <2>2. Telling(s)
      BY <1>0 DEF Reading
  <2>3. QED BY <1>2, <2>1, <2>2 DEF Telling
<1>8. Reading'
    BY <1>0, <1>5, <1>6, <1>7 DEF Reading
<1>9. QED BY <1>8 DEF ReaderInv, IsReader

(* A reader only adds steps that leave the lifecycle alone. *)
LEMMA QueriesChangeNothing == QuerySpec => Init /\ [][Next]_vars
<1>1. QueryInit => Init
    BY DEF QueryInit
<1>2. [QueryNext]_queryVars => [Next]_vars
    BY DEF QueryNext, Lifecycle, queryVars, vars, Query, Ask, Exit, ReadFails, List, Snapshot, Validate,
           Confirm, InspectGit, OpenForScan, ScanSpace, Measured, Refuse, Answer, Unready, Inspected, Reads
<1>3. QED BY <1>1, <1>2, PTL DEF QuerySpec

(* The invariant of the system with its reader. *)
THEOREM ReaderInvariant == QuerySpec => [](SystemInv /\ ReaderInv)
<1>1. QueryInit => SystemInv /\ ReaderInv
  <2>1. Init => SystemInv
      BY LifecycleInvInitially, DataInvInitially, UndisturbedInitially, ClearedInitially DEF SystemInv
  <2>2. QueryInit => ReaderInv
      BY DEF QueryInit, ReaderInv, IsReader, ReaderLabels, Reading, RowKnown, PriorKnown, Resting
  <2>3. QED BY <2>1, <2>2 DEF QueryInit
<1>2. SystemInv /\ [Next]_vars => SystemInv'
    BY LifecycleInvStep, DataInvStep, UndisturbedStep, ClearedStep DEF SystemInv
<1>3. SystemInv /\ ReaderInv /\ [QueryNext]_queryVars => ReaderInv'
  <2>1. ASSUME SystemInv, ReaderInv, Lifecycle PROVE ReaderInv'
      BY <2>1, LifecycleKeepsReader DEF Lifecycle
  <2>2. ASSUME SystemInv, ReaderInv, Query PROVE ReaderInv'
      BY <2>2, QueryKeeps
  <2>3. ASSUME ReaderInv, UNCHANGED queryVars PROVE ReaderInv'
      BY <2>3 DEF queryVars, vars, ReaderInv, IsReader, Reading, RowKnown, PriorKnown, Known, Aged, Telling,
                  StillReady, Active, QueryOf, AnswerRestsOnReady, LayoutErrorMeansRemoval
  <2>4. QED BY <2>1, <2>2, <2>3 DEF QueryNext
<1>4. QED BY <1>1, <1>2, <1>3, QueriesChangeNothing, PTL DEF QuerySpec

(* A path that `path` or `status` prints was Ready, whole and in its place at every look,
   though queries take no lock. *)
THEOREM PrintedPathWasReady == QuerySpec => []AnswerRestsOnReady
<1>1. ReaderInv => AnswerRestsOnReady
    BY DEF ReaderInv, Reading, AnswerRestsOnReady, Silent
<1>2. QED BY <1>1, ReaderInvariant, PTL

(* A query that blames the layout has lost its Workspace to a removal or met a user. *)
THEOREM LayoutErrorIsHonest == QuerySpec => []LayoutErrorMeansRemoval
<1>1. ReaderInv => LayoutErrorMeansRemoval
    BY DEF ReaderInv, Reading, LayoutErrorMeansRemoval, Silent
<1>2. QED BY <1>1, ReaderInvariant, PTL

-----------------------------------------------------------------------------
(* "No files were removed." *)

\* This invocation has put no Started record into the removal log.
Fresh(p) == \A id \in Ids : <<p, id, "started">> \notin log

FreshLabels == {"idle", "waiting", "lookup", "find", "preflight", "log_refused"}
BegunLabels == RemoveSteps \cup {"log_started", "begin", "rm_failed", "complete_deletion"}

\* Where an invocation stands with the removal log: a plain removal has begun only
\* with a record that was Ready, so one that fails with another has not.
Honest(p) ==
    /\ pc[p] \in FreshLabels => Fresh(p)
    /\ pc[p] \in BegunLabels /\ job[p].req.mode = "normal" => job[p].state = "ready"
    /\ pc[p] = "log_failed" /\ job[p].req.mode = "normal" /\ job[p].state # "ready" => Fresh(p)

HonestInv ==
    /\ outcome = [p \in Procs |-> outcome[p]]
    /\ \A p \in Procs : Honest(p)

Results == Successes \cup {"usage", "not_found", "lock_timeout", "name_conflict", "target_conflict",
                           "incomplete", "refused", "failed"}

\* The label at which an invocation ends incomplete, and refused.
EndsAt(p, result) ==
    /\ result \in Results
    /\ result = "incomplete" => pc[p] = "lookup"
    /\ result = "refused" => pc[p] = "log_refused"

(* A step that goes on leaves every outcome alone, one that ends sets its own. *)
LEMMA GoesOnOrEnds ==
    ASSUME NEW p \in Procs, Acts(p)
    PROVE  outcome' = outcome \/ \E result : Finish(p, result) /\ EndsAt(p, result)
<1>0. Results = {"created", "existing", "removed", "already_removed", "usage", "not_found",
                 "lock_timeout", "name_conflict", "target_conflict", "incomplete", "refused", "failed"}
    BY DEF Results, Successes
<1>1. CASE Lookup(p)
  <2>1. pc[p] = "lookup"
      BY <1>1 DEF Lookup
  <2>2. ASSUME NEW result \in {"name_conflict", "incomplete", "existing", "failed", "target_conflict"},
               Finish(p, result)
        PROVE  \E r : Finish(p, r) /\ EndsAt(p, r)
      BY <1>0, <2>1, <2>2 DEF EndsAt
  <2>3. (\E r \in {"name_conflict", "incomplete", "existing", "failed", "target_conflict"} : Finish(p, r))
        \/ outcome' = outcome
      BY <1>1 DEF Lookup, Select
  <2>4. QED BY <2>2, <2>3
<1>2. CASE Find(p)
  <2>1. (\E r \in {"usage", "not_found"} : Finish(p, r)) \/ outcome' = outcome
      BY <1>2 DEF Find, Select
  <2>2. QED BY <1>0, <2>1 DEF EndsAt
<1>3. CASE AppendLog(p)
  <2>1. \/ \E r \in {"failed", "removed", "already_removed"} : Finish(p, r)
        \/ pc[p] = "log_refused" /\ Finish(p, "refused")
        \/ outcome' = outcome
      BY <1>3 DEF AppendLog, Go
  <2>2. QED BY <1>0, <2>1 DEF EndsAt
<1>4. CASE Fault(p) \/ CheckFails(p) \/ BeginRemoval(p)
  <2>1. Finish(p, "failed") \/ outcome' = outcome
      BY <1>4 DEF Fault, CheckFails, BeginRemoval, Fail, Go
  <2>2. QED BY <1>0, <2>1 DEF EndsAt
<1>5. CASE Complete(p) \/ RecordCreateFailure(p) \/ LockTimeout(p)
  <2>1. \E r \in {"created", "failed", "lock_timeout"} : Finish(p, r)
      BY <1>5 DEF Complete, RecordCreateFailure, LockTimeout
  <2>2. QED BY <1>0, <2>1 DEF EndsAt
<1>6. CASE \/ Start(p) \/ AcquireLock(p) \/ Crash(p) \/ Preflight(p) \/ EnterRemoval(p)
           \/ ConfirmAbsent(p) \/ Reserve(p) \/ CompleteDeletion(p) \/ RecordRemoveFailure(p)
    BY <1>6 DEF Start, AcquireLock, Crash, Preflight, EnterRemoval, ConfirmAbsent, Reserve,
                CompleteDeletion, RecordRemoveFailure, Go, Select
<1>7. CASE DirCall(p)
    BY <1>7 DEF DirCall, Prepare, MakeDir, PublishOwnership, Materialize, Materialized, CowUnavailable,
                MaterializeFails, Fallback, ClearIncomplete, RemoveStaging, RemoveTrash,
                RemoveOperationDirectory, PersistIsolation, Isolate, EraseTarget, Go, Select
<1>8. QED BY <1>1, <1>2, <1>3, <1>4, <1>5, <1>6, <1>7, ActsSplit DEF Quiet, StoreCall

(* A step adds to the log the record of its own label, or nothing. *)
LEMMA LogsOwnLabel ==
    ASSUME NEW p \in Procs, Acts(p)
    PROVE  log' = log \/ (pc[p] \in LogSteps /\ log' = log \cup {<<p, job[p].id, LogEventAt[pc[p]]>>})
<1>1. CASE Fault(p) \/ Crash(p)
    BY <1>1 DEF Fault, Crash, CutAppend, Append
<1>2. CASE AppendLog(p)
    BY <1>2 DEF AppendLog, Append, LogSteps, LogEventAt
<1>3. CASE \/ Start(p) \/ AcquireLock(p) \/ LockTimeout(p) \/ CheckFails(p) \/ Lookup(p) \/ Find(p)
           \/ Preflight(p) \/ EnterRemoval(p) \/ ConfirmAbsent(p) \/ StoreCall(p)
    BY <1>3 DEF Start, AcquireLock, LockTimeout, CheckFails, Lookup, Find, Preflight, EnterRemoval,
                ConfirmAbsent, StoreCall, Reserve, Complete, RecordCreateFailure, BeginRemoval,
                CompleteDeletion, RecordRemoveFailure
<1>4. CASE DirCall(p)
    BY <1>4 DEF DirCall, Prepare, MakeDir, PublishOwnership, Materialize, Materialized, CowUnavailable,
                MaterializeFails, Fallback, ClearIncomplete, RemoveStaging, RemoveTrash,
                RemoveOperationDirectory, PersistIsolation, Isolate, EraseTarget
<1>5. QED BY <1>1, <1>2, <1>3, <1>4, ActsSplit DEF Quiet

(* What stays out of the log: the records of the others, and Started unless the
   label is one that writes it. *)
LEMMA StaysFresh ==
    ASSUME NEW p \in Procs, NEW q \in Procs, Acts(p), Fresh(q),
           q # p \/ pc[p] \notin {"log_started", "absent_started"}
    PROVE  Fresh(q)'
<1>1. CASE log' = log
    BY <1>1 DEF Fresh
<1>2. CASE pc[p] \in LogSteps /\ log' = log \cup {<<p, job[p].id, LogEventAt[pc[p]]>>}
  <2>1. pc[p] \notin {"log_started", "absent_started"} => LogEventAt[pc[p]] # "started"
      BY <1>2 DEF LogSteps, LogEventAt
  <2>2. QED BY <1>2, <2>1 DEF Fresh
<1>3. QED BY <1>1, <1>2, LogsOwnLabel

\* How an invocation comes to its next label.
Follows(p) ==
    /\ pc'[p] \in FreshLabels => pc[p] \in {"idle", "waiting", "find", "preflight"}
    /\ pc'[p] = "log_failed" => (pc[p] = "preflight" \/ pc[p] \in BegunLabels) /\ job'[p] = job[p]
    /\ pc'[p] \in BegunLabels =>
          /\ job'[p].req = job[p].req /\ job'[p].state = job[p].state
          /\ \/ pc[p] \in BegunLabels
             \/ pc[p] = "preflight" /\ (job[p].state = "ready" \/ job[p].req.mode = "force")

Elsewhere == Labels \ (FreshLabels \cup BegunLabels \cup {"log_failed"})

(* The labels at which nothing is asked of an invocation. *)
LEMMA ElsewhereIs ==
    Elsewhere = CreateSteps \cup {"reserve", "record_failure", "log_completed", "absent_started",
                                  "absent_completed", "done", "crashed"}
BY DEF Elsewhere, Labels, FreshLabels, BegunLabels, CreateSteps, RemoveSteps, LogSteps

(* An invocation that has got there, or that has begun and goes on, is in order. *)
LEMMA GoesElsewhere ==
    ASSUME NEW p \in Procs, pc'[p] \in Elsewhere
    PROVE  Follows(p)
BY DEF Follows, Elsewhere

(* The `?` of any step leads from a removal that has begun to rm_failed or
   log_failed, and from the checks before it to log_failed. *)
LEMMA FailFollows ==
    ASSUME NEW p \in Procs, TypeOK, Fail(p)
    PROVE  Follows(p)
<1>1. CASE pc[p] \in CreateSteps
  <2>1. Handler(pc[p]) = "record_failure"
      BY <1>1 DEF Handler, CreateSteps, RemoveSteps
  <2>2. Go(p, "record_failure")
      BY <2>1 DEF Fail
  <2>3. pc'[p] = "record_failure"
      BY <2>2 DEF Go, TypeOK
  <2>4. QED BY <2>3, ElsewhereIs, GoesElsewhere
<1>2. CASE pc[p] \in RemoveSteps
  <2>1. Handler(pc[p]) = "rm_failed"
      BY <1>2 DEF Handler, CreateSteps, RemoveSteps
  <2>2. Go(p, "rm_failed")
      BY <2>1 DEF Fail
  <2>3. pc'[p] = "rm_failed" /\ job' = job
      BY <2>2 DEF Go, TypeOK
  <2>4. QED BY <1>2, <2>3 DEF Follows, FreshLabels, BegunLabels
<1>3. CASE pc[p] \in {"preflight", "begin", "rm_failed", "complete_deletion"}
  <2>1. Handler(pc[p]) = "log_failed"
      BY <1>3 DEF Handler, CreateSteps, RemoveSteps
  <2>2. Go(p, "log_failed")
      BY <2>1 DEF Fail
  <2>3. pc'[p] = "log_failed" /\ job' = job
      BY <2>2 DEF Go, TypeOK
  <2>4. QED BY <1>3, <2>3 DEF Follows, FreshLabels, BegunLabels, RemoveSteps
<1>4. CASE pc[p] \notin CreateSteps \cup RemoveSteps \cup
               {"preflight", "begin", "rm_failed", "complete_deletion"}
  <2>1. Handler(pc[p]) = "stop"
      BY <1>4 DEF Handler
  <2>2. pc'[p] = "done"
      BY <2>1, FinishStep DEF Fail
  <2>3. QED BY <2>2, ElsewhereIs, GoesElsewhere
<1>5. QED BY <1>1, <1>2, <1>3, <1>4

(* A step of a creation is elsewhere. *)
LEMMA CreationFollows ==
    ASSUME NEW p \in Procs, TypeOK, CreateStep(p)
    PROVE  Follows(p)
<1>1. pc'[p] \in CreateSteps \cup {"reserve", "record_failure", "done"}
    BY DEF TypeOK, CreateStep, Lookup, Reserve, Prepare, MakeDir, PublishOwnership, Materialize,
           Materialized, CowUnavailable, MaterializeFails, Fallback, ClearIncomplete, Complete,
           RecordCreateFailure, Go, Select, Finish, CreateSteps
<1>2. QED BY <1>1, ElsewhereIs, GoesElsewhere

(* Before the lock is taken, and at the end. *)
LEMMA OutsideFollows ==
    ASSUME NEW p \in Procs, TypeOK,
           Start(p) \/ AcquireLock(p) \/ LockTimeout(p) \/ Crash(p)
    PROVE  Follows(p)
<1>1. CASE Start(p)
  <2>1. pc[p] = "idle" /\ pc'[p] = "waiting"
      BY <1>1 DEF Start, Select, TypeOK
  <2>2. QED BY <2>1 DEF Follows, BegunLabels, RemoveSteps
<1>2. CASE AcquireLock(p)
  <2>1. pc[p] = "waiting" /\ pc'[p] \in {"lookup", "find"}
      BY <1>2 DEF AcquireLock, TypeOK
  <2>2. QED BY <2>1 DEF Follows, BegunLabels, RemoveSteps
<1>3. CASE LockTimeout(p) \/ Crash(p)
  <2>1. pc'[p] \in {"done", "crashed"}
      BY <1>3 DEF LockTimeout, Crash, Finish, TypeOK
  <2>2. QED BY <2>1, ElsewhereIs, GoesElsewhere
<1>4. QED BY <1>1, <1>2, <1>3

(* A removal. *)
LEMMA RemovalFollows ==
    ASSUME NEW p \in Procs, TypeOK, RemoveStep(p)
    PROVE  Follows(p)
<1>0. job[p] \in Job /\ pc \in [Procs -> Labels] /\ job \in [Procs -> Job]
    BY DEF TypeOK
<1>1. CASE Find(p)
  <2>1. pc[p] = "find" /\ pc'[p] \in {"preflight", "absent_started", "done"}
      BY <1>0, <1>1 DEF Find, Select, Finish
  <2>2. QED BY <2>1 DEF Follows, BegunLabels, RemoveSteps
<1>2. CASE Preflight(p)
  <2>1. /\ pc[p] = "preflight" /\ job' = job
        /\ pc'[p] \in {"log_failed", "log_started", "log_refused"}
        /\ pc'[p] = "log_started" => job[p].state = "ready" \/ job[p].req.mode = "force"
      BY <1>0, <1>2 DEF Preflight, Go
  <2>2. QED BY <2>1 DEF Follows, FreshLabels, BegunLabels, RemoveSteps
<1>3. CASE AppendLog(p)
  <2>1. \/ pc[p] = "log_started" /\ pc'[p] = "begin" /\ job' = job
        \/ pc'[p] \in {"absent_completed", "done"}
      BY <1>0, <1>3 DEF AppendLog, Go, Finish
  <2>2. QED BY <2>1 DEF Follows, FreshLabels, BegunLabels, RemoveSteps
<1>4. CASE BeginRemoval(p)
  <2>1. (pc[p] = "begin" /\ Go(p, "rm_enter")) \/ Fail(p)
      BY <1>4 DEF BeginRemoval
  <2>2. ASSUME pc[p] = "begin", Go(p, "rm_enter") PROVE Follows(p)
      BY <1>0, <2>2 DEF Go, Follows, FreshLabels, BegunLabels, RemoveSteps
  <2>3. QED BY <2>1, <2>2, FailFollows
<1>5. CASE EnterRemoval(p)
  <2>1. /\ pc[p] = "rm_enter" /\ pc'[p] = "rm_staging"
        /\ job'[p].req = job[p].req /\ job'[p].state = job[p].state
      BY <1>0, <1>5 DEF EnterRemoval, Passes, Select, Job
  <2>2. QED BY <2>1 DEF Follows, FreshLabels, BegunLabels, RemoveSteps
<1>6. CASE RemoveStaging(p) \/ RemoveTrash(p)
  <2>1. /\ pc[p] \in RemoveSteps /\ pc'[p] \in RemoveSteps /\ job' = job
      BY <1>0, <1>6 DEF RemoveStaging, RemoveTrash, RemoveOperationDirectory, Passes, Go, RemoveSteps
  <2>2. QED BY <2>1 DEF Follows, FreshLabels, BegunLabels, RemoveSteps
<1>7. CASE PersistIsolation(p) \/ EraseTarget(p)
  <2>1. /\ pc[p] \in RemoveSteps /\ pc'[p] \in RemoveSteps /\ job' = job
      BY <1>0, <1>7 DEF PersistIsolation, EraseTarget, Passes, Go, RemoveSteps
  <2>2. QED BY <2>1 DEF Follows, FreshLabels, BegunLabels, RemoveSteps
<1>8. CASE Isolate(p)
  <2>1. /\ pc[p] \in RemoveSteps /\ pc'[p] \in RemoveSteps
        /\ job'[p].req = job[p].req /\ job'[p].state = job[p].state
      BY <1>0, <1>8 DEF Isolate, Passes, Go, Select, RemoveSteps, Job
  <2>2. QED BY <2>1 DEF Follows, FreshLabels, BegunLabels, RemoveSteps
<1>9. CASE ConfirmAbsent(p) \/ CompleteDeletion(p) \/ RecordRemoveFailure(p)
  <2>1. /\ pc[p] \in BegunLabels /\ pc'[p] \in {"complete_deletion", "log_completed", "log_failed"}
        /\ job' = job
      BY <1>0, <1>9 DEF ConfirmAbsent, CompleteDeletion, RecordRemoveFailure, Passes, Go, BegunLabels,
                        RemoveSteps
  <2>2. QED BY <2>1 DEF Follows, FreshLabels, BegunLabels, RemoveSteps
<1>10. QED BY <1>1, <1>2, <1>3, <1>4, <1>5, <1>6, <1>7, <1>8, <1>9 DEF RemoveStep

(* Every step of an invocation leaves all of them honest about the log. *)
LEMMA HonestStep ==
    ASSUME LifecycleInv, HonestInv, [Next]_vars
    PROVE  HonestInv'
<1>0. TypeOK /\ \A p \in Procs : InvocationOK(p)
    BY DEF LifecycleInv
<1>1. CASE UNCHANGED vars
    BY <1>1 DEF vars, HonestInv, Honest, Fresh
<1>2. CASE User
    BY <1>2 DEF User, HonestInv, Honest, Fresh
<1>3. ASSUME NEW p \in Procs, Acts(p) PROVE HonestInv'
  <2>1. Follows(p)
      BY <1>0, <1>3, FailFollows, CreationFollows, OutsideFollows, RemovalFollows
         DEF Acts, Step, Fault, CheckFails
  <2>2. outcome' = [q \in Procs |-> outcome'[q]]
    <3>1. outcome = [q \in Procs |-> outcome[q]]
        BY DEF HonestInv
    <3>2. ASSUME NEW result, Finish(p, result) PROVE outcome' = [q \in Procs |-> outcome'[q]]
        BY <3>1, <3>2 DEF Finish
    <3>3. QED BY <1>3, <3>1, <3>2, GoesOnOrEnds
  <2>3. Honest(p)'
    <3>0. Honest(p) /\ InvocationOK(p)
        BY <1>0 DEF HonestInv
    <3>1. ASSUME pc'[p] \in FreshLabels PROVE Fresh(p)'
      <4>1. pc[p] \in {"idle", "waiting", "find", "preflight"}
          BY <2>1, <3>1 DEF Follows
      <4>2. QED BY <1>3, <3>0, <4>1, StaysFresh DEF Honest, FreshLabels
    <3>2. ASSUME pc'[p] \in BegunLabels, job'[p].req.mode = "normal" PROVE job'[p].state = "ready"
        BY <2>1, <3>0, <3>2 DEF Follows, Honest
    <3>3. ASSUME pc'[p] = "log_failed", job'[p].req.mode = "normal", job'[p].state # "ready"
          PROVE  Fresh(p)'
      <4>1. pc[p] = "preflight"
          BY <2>1, <3>0, <3>3 DEF Follows, Honest
      <4>2. QED BY <1>3, <3>0, <4>1, StaysFresh DEF Honest, FreshLabels
    <3>4. QED BY <3>1, <3>2, <3>3 DEF Honest
  <2>4. ASSUME NEW q \in Procs \ {p} PROVE Honest(q)'
    <3>1. pc'[q] = pc[q] /\ job'[q] = job[q]
        BY <1>0, <1>3, ActsMoves DEF Moved
    <3>2. Fresh(q) => Fresh(q)'
        BY <1>3, StaysFresh
    <3>3. QED BY <3>1, <3>2 DEF HonestInv, Honest
  <2>5. QED BY <2>2, <2>3, <2>4 DEF HonestInv
<1>4. QED BY <1>1, <1>2, <1>3 DEF Next, Acts

-----------------------------------------------------------------------------

(* Only three results are printed with the sentence, and a failed command only if
   its record was not Ready. *)
LEMMA WhoDenies ==
    ASSUME NEW p \in Procs, NEW result \in Results, NEW d \in Documents(p, result), d.nothingRemoved
    PROVE  \/ result \in {"incomplete", "refused"}
           \/ /\ pc[p] = "log_failed" /\ job[p].req.mode = "normal" /\ job[p].state # "ready"
<1>0. Results = {"created", "existing", "removed", "already_removed", "usage", "not_found",
                 "lock_timeout", "name_conflict", "target_conflict", "incomplete", "refused", "failed"}
    BY DEF Results, Successes
<1>1. result \notin Successes
  <2>1. SUFFICES ASSUME result \in Successes PROVE FALSE
      OBVIOUS
  <2>2. d \in RenderSuccess(Listing(Selected(p)))
      BY <2>1 DEF Documents
  <2>3. d.nothingRemoved = FALSE
      BY <2>2 DEF RenderSuccess, Listing, Silent
  <2>4. QED BY <2>3
<1>2. PICK code \in CommandErrors(p, result), json \in BOOLEAN : d \in RenderError(code, json)
    BY <1>1 DEF Documents
<1>3. code \in NothingRemoved
  <2>1. d.nothingRemoved = (~json /\ code \in NothingRemoved) \/ d.nothingRemoved = FALSE
      BY <1>2 DEF RenderError, Silent
  <2>2. QED BY <2>1
<1>4. CASE result = "failed"
    BY <1>2, <1>3, <1>4 DEF CommandErrors, Failures, NothingRemoved
<1>5. CASE result \in {"usage", "not_found", "lock_timeout", "name_conflict", "target_conflict"}
    BY <1>2, <1>3, <1>5 DEF CommandErrors, NothingRemoved
<1>6. QED BY <1>0, <1>1, <1>4, <1>5 DEF Successes

(* "No files were removed." is printed only by an invocation that has logged no Started,
   the record that goes before every destructive step, however it ends. *)
THEOREM DenialsAreTrue == Spec => NothingRemovedIsTrue
<1>1. Init => HonestInv
    BY DEF Init, HonestInv, Honest, Fresh, FreshLabels, BegunLabels, RemoveSteps
<1>2. ASSUME LifecycleInv, HonestInv, [Next]_vars,
             NEW p \in Procs, outcome'[p] # outcome[p],
             NEW d \in Documents(p, outcome'[p]), d.nothingRemoved
      PROVE  \A id \in Ids : <<p, id, "started">> \notin log'
  <2>0. outcome = [q \in Procs |-> outcome[q]]
      BY <1>2 DEF HonestInv
  <2>1. PICK q \in Procs : Acts(q)
      BY <1>2 DEF Next, Acts, User, vars
  <2>2. PICK result : Finish(q, result) /\ EndsAt(q, result)
      BY <1>2, <2>1, GoesOnOrEnds
  <2>3. q = p /\ outcome'[p] = result
      BY <1>2, <2>0, <2>2 DEF Finish
  <2>4. result \in Results
      BY <2>2 DEF EndsAt
  <2>5. d \in Documents(p, result)
      BY <1>2, <2>3
  <2>6. \/ result \in {"incomplete", "refused"}
        \/ /\ pc[p] = "log_failed" /\ job[p].req.mode = "normal" /\ job[p].state # "ready"
      BY <1>2, <2>4, <2>5, WhoDenies
  <2>7. pc[p] \in {"lookup", "log_refused", "log_failed"} /\ Fresh(p)
      BY <1>2, <2>2, <2>3, <2>6 DEF EndsAt, HonestInv, Honest, FreshLabels
  <2>8. Fresh(p)'
      BY <2>1, <2>3, <2>7, StaysFresh
  <2>9. QED BY <2>8 DEF Fresh
<1>3. LifecycleInv /\ HonestInv /\ [Next]_vars =>
          [\A p \in Procs :
              outcome'[p] # outcome[p] =>
                  \A d \in Documents(p, outcome'[p]) :
                      d.nothingRemoved => \A id \in Ids : <<p, id, "started">> \notin log']_vars
    BY <1>2
<1>4. QED BY <1>1, <1>3, HonestStep, LifecycleInvariant, PTL DEF Spec, NothingRemovedIsTrue
=============================================================================
