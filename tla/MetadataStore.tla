--------------------------- MODULE MetadataStore ---------------------------
(***************************************************************************)
(* The SQLite metadata store (crates/thinws-metadata-sqlite) of one        *)
(* installation: the active Workspace rows, their final materialization    *)
(* receipts and the deletion tombstones.                                   *)
(*                                                                         *)
(* Two layers guard every write and both are modelled: the checks of the   *)
(* Rust methods, and the CHECKs, UNIQUE columns and triggers of            *)
(* schema_v2.sql.  For each method there is                                *)
(*   - an operator  XOutcome(args), the classification of its result:      *)
(*     "ok" or the kind of PortError it returns;                           *)
(*   - an action  x(args), the transaction that commits when it is "ok".   *)
(* A call that is not "ok" changes no table.  A statement or an IMMEDIATE  *)
(* transaction is one step; the read-back that follows an UPDATE is part   *)
(* of it, because every writer holds the lifecycle lock.                   *)
(*                                                                         *)
(* The arguments of a call are arbitrary: the expected state, the plan and *)
(* the time a caller passes may be stale or wrong.                         *)
(***************************************************************************)
EXTENDS Integers, WorkspaceDomain

CONSTANTS
    Ids,        \* Workspace IDs, which are never reused
    Names,      \* Workspace names
    Sources,    \* source directories
    Targets,    \* target paths
    Volumes,    \* filesystem identities
    Codes,      \* public error codes, E_*
    Times,      \* wall-clock readings in milliseconds since the epoch
    NoRow       \* no active row

NoCode == "none"
NoReceipt == "none"

(* The actual mode of a final receipt: CoW clone, or the full-copy fallback. *)
ReceiptKinds == {"cow", "copy"}

(* WorkspaceReservation: what is fixed when the row is inserted. *)
Reservation ==
    [name : Names, source : Sources, target : Targets,
     sourceVolume : Volumes, targetVolume : Volumes,
     allow : BOOLEAN, created : Times]

(* One row of table workspaces. *)
Row == [res : Reservation, state : States, error : Codes \cup {NoCode}, updated : Times]

ASSUME TimesAssumption == Times \subseteq Nat
ASSUME CodesAssumption == NoCode \notin Codes
ASSUME NoRowAssumption == NoRow \notin Row

VARIABLES
    workspaces,     \* table workspaces, by ID
    receipts,       \* table materialization_receipts, by ID
    tombstones      \* table deletion_tombstones

storeVars == <<workspaces, receipts, tombstones>>

Active == {id \in Ids : workspaces[id] # NoRow}

-----------------------------------------------------------------------------
(* schema_v2.sql *)

(* Trigger workspaces_state_transition: the edges an UPDATE may take. *)
TriggerEdges ==
    ({"creating"} \X {"ready", "error", "deleting"})
      \cup ({"ready"} \X {"deleting", "error"})
      \cup {<<"deleting", "error">>, <<"error", "deleting">>}

(* Mutant: UNIQUE is missing on target_path. *)
InsertGuard_SharedTarget(id, row) ==
    /\ id \notin Active
    /\ \A other \in Active : workspaces[other].res.name # row.res.name
    /\ row.state = "creating" /\ row.error = NoCode
    /\ row.res.sourceVolume = row.res.targetVolume
    /\ id \notin tombstones

(* Trigger workspaces_insert_guard and the UNIQUE columns of workspaces. *)
InsertGuard(id, row) ==
    /\ id \notin Active
    /\ \A other \in Active : /\ workspaces[other].res.name # row.res.name
                             /\ workspaces[other].res.target # row.res.target
    /\ row.state = "creating" /\ row.error = NoCode
    /\ row.res.sourceVolume = row.res.targetVolume
    /\ id \notin tombstones

(* The BEFORE UPDATE triggers and the row CHECKs; `stored` is the receipt
   present when the UPDATE runs. *)
UpdateGuard(old, new, stored) ==
    /\ new.res = old.res
    /\ old.state # new.state => <<old.state, new.state>> \in TriggerEdges
    /\ new.updated >= old.updated
    /\ old.state # "ready" /\ new.state = "ready" => stored # NoReceipt
    /\ (new.state = "error") <=> (new.error # NoCode)

(* Triggers receipts_insert_once and receipts_insert_only_creating. *)
ReceiptGuard(id) ==
    /\ receipts[id] = NoReceipt
    /\ id \in Active
    /\ workspaces[id].state = "creating"

(* Triggers tombstones_insert_once and tombstones_insert_only_deleting. *)
TombstoneGuard(id) ==
    /\ id \notin tombstones
    /\ id \in Active
    /\ workspaces[id].state = "deleting"

-----------------------------------------------------------------------------
(* SqliteMetadataStore *)

NewRow(res) == [res |-> res, state |-> "creating", error |-> NoCode, updated |-> res.created]

(* reserve_workspace with classify_reservation_error *)
ReserveOutcome(id, res) ==
    CASE res.sourceVolume # res.targetVolume -> "installation_identity"
      [] res.sourceVolume = res.targetVolume /\ InsertGuard(id, NewRow(res)) -> "ok"
      [] OTHER ->
           IF id \in Active \cup tombstones THEN "workspace_id"
           ELSE IF \E other \in Active : workspaces[other].res.name = res.name
                  THEN "workspace_name"
                  ELSE "target_path"

reserve_workspace(id, res) ==
    /\ ReserveOutcome(id, res) = "ok"
    /\ workspaces' = [workspaces EXCEPT ![id] = NewRow(res)]
    /\ UNCHANGED <<receipts, tombstones>>

(* The plan and the receipt handed to complete_materialization, reduced to
   what its checks compare: the paths and volumes of the plan, the mode each
   of them used, whether the receipt reports success and equal manifests. *)
Plan == [source : Sources, target : Targets,
         sourceVolume : Volumes, targetVolume : Volumes, kind : ReceiptKinds]
Receipt == [kind : ReceiptKinds, succeeded : BOOLEAN, sameManifest : BOOLEAN]

(* Mutant: the permission to copy is not compared. *)
PlanMatches_AnyKind(plan, receipt, res) ==
    /\ plan.source = res.source /\ plan.target = res.target
    /\ plan.sourceVolume = res.sourceVolume /\ plan.targetVolume = res.targetVolume
    /\ receipt.kind = plan.kind
    /\ receipt.succeeded /\ receipt.sameManifest

PlanMatches(plan, receipt, res) ==
    /\ plan.source = res.source /\ plan.target = res.target
    /\ plan.sourceVolume = res.sourceVolume /\ plan.targetVolume = res.targetVolume
    /\ plan.kind = "copy" => res.allow
    /\ receipt.kind = plan.kind
    /\ receipt.succeeded /\ receipt.sameManifest

ReadyRow(row, now) == [row EXCEPT !.state = "ready", !.error = NoCode, !.updated = now]

(* Mutant: a failed creation may be completed by a later attempt. *)
CompleteOutcome_Retry(id, plan, receipt, now) ==
    IF id \in Active /\ workspaces[id].state \in {"creating", "error"}
         /\ PlanMatches(plan, receipt, workspaces[id].res)
         /\ receipts[id] = NoReceipt /\ now >= workspaces[id].updated
      THEN "ok" ELSE "invalid_data"

(* complete_materialization: receipt and state in one IMMEDIATE transaction. *)
CompleteOutcome(id, plan, receipt, now) ==
    CASE id \notin Active -> "not_found"
      [] id \in Active /\ workspaces[id].state # "creating" -> "expected_state"
      [] id \in Active /\ workspaces[id].state = "creating"
           /\ PlanMatches(plan, receipt, workspaces[id].res)
           /\ ReceiptGuard(id)
           /\ UpdateGuard(workspaces[id], ReadyRow(workspaces[id], now), receipt.kind) -> "ok"
      [] OTHER -> "invalid_data"

(* Mutant: the receipt is committed before the state. *)
complete_materialization_ReceiptFirst(id, plan, receipt, now) ==
    /\ CompleteOutcome(id, plan, receipt, now) = "ok"
    /\ receipts' = [receipts EXCEPT ![id] = receipt.kind]
    /\ UNCHANGED <<workspaces, tombstones>>

complete_materialization(id, plan, receipt, now) ==
    /\ CompleteOutcome(id, plan, receipt, now) = "ok"
    /\ receipts' = [receipts EXCEPT ![id] = receipt.kind]
    /\ workspaces' = [workspaces EXCEPT ![id] = ReadyRow(workspaces[id], now)]
    /\ UNCHANGED tombstones

ErrorRow(row, code, now) == [row EXCEPT !.state = "error", !.error = code, !.updated = now]

(* Mutant: the UPDATE finds the row by its ID alone. *)
UpdateOutcome_AnyState(id, expected, new) ==
    CASE id \notin Active -> "not_found"
      [] id \in Active /\ UpdateGuard(workspaces[id], new, receipts[id]) -> "ok"
      [] OTHER -> "invalid_data"

(* An UPDATE ... WHERE state = expected and finish_expected_update. *)
UpdateOutcome(id, expected, new) ==
    CASE id \notin Active -> "not_found"
      [] id \in Active /\ workspaces[id].state # expected -> "expected_state"
      [] id \in Active /\ workspaces[id].state = expected
           /\ UpdateGuard(workspaces[id], new, receipts[id]) -> "ok"
      [] OTHER -> "invalid_data"

(* record_failure *)
FailureOutcome(id, expected, code, now) ==
    IF Transition(expected, "failed") = Rejected
      THEN "invalid_data"
      ELSE UpdateOutcome(id, expected, ErrorRow(workspaces[id], code, now))

record_failure(id, expected, code, now) ==
    /\ FailureOutcome(id, expected, code, now) = "ok"
    /\ workspaces' = [workspaces EXCEPT ![id] = ErrorRow(workspaces[id], code, now)]
    /\ UNCHANGED <<receipts, tombstones>>

DeletingRow(row, now) == [row EXCEPT !.state = "deleting", !.error = NoCode, !.updated = now]

(* begin_removal: a row that is already Deleting is reaffirmed (require_expected)
   and keeps its timestamp. *)
RemovalOutcome(id, expected, mode, now) ==
    LET next == Transition(expected, BeginRemovalEvent(mode))
    IN  IF next = Rejected THEN "invalid_data"
        ELSE IF next = expected
          THEN IF id \notin Active THEN "not_found"
               ELSE IF workspaces[id].state # expected THEN "expected_state" ELSE "ok"
          ELSE UpdateOutcome(id, expected, DeletingRow(workspaces[id], now))

begin_removal(id, expected, mode, now) ==
    /\ RemovalOutcome(id, expected, mode, now) = "ok"
    /\ IF expected = "deleting"
         THEN UNCHANGED workspaces
         ELSE workspaces' = [workspaces EXCEPT ![id] = DeletingRow(workspaces[id], now)]
    /\ UNCHANGED <<receipts, tombstones>>

(* complete_deletion: tombstone, row and (by ON DELETE CASCADE) receipt in one
   IMMEDIATE transaction. *)
DeletionOutcome(id) ==
    CASE id \notin Active -> "not_found"
      [] id \in Active /\ workspaces[id].state # "deleting" -> "expected_state"
      [] id \in Active /\ workspaces[id].state = "deleting" /\ TombstoneGuard(id) -> "ok"
      [] OTHER -> "storage"

complete_deletion(id) ==
    /\ DeletionOutcome(id) = "ok"
    /\ tombstones' = tombstones \cup {id}
    /\ workspaces' = [workspaces EXCEPT ![id] = NoRow]
    /\ receipts' = [receipts EXCEPT ![id] = NoReceipt]

-----------------------------------------------------------------------------
StoreInit ==
    /\ workspaces = [id \in Ids |-> NoRow]
    /\ receipts = [id \in Ids |-> NoReceipt]
    /\ tombstones = {}

StoreNext ==
    \E id \in Ids :
        \/ \E res \in Reservation : reserve_workspace(id, res)
        \/ \E plan \in Plan, receipt \in Receipt, now \in Times :
              complete_materialization(id, plan, receipt, now)
        \/ \E expected \in States, code \in Codes, now \in Times :
              record_failure(id, expected, code, now)
        \/ \E expected \in States, mode \in Modes, now \in Times :
              begin_removal(id, expected, mode, now)
        \/ complete_deletion(id)

StoreSpec == StoreInit /\ [][StoreNext]_storeVars

-----------------------------------------------------------------------------
(* Properties *)

(* Type invariant of the three tables. *)
StoreTypeOK ==
    /\ workspaces \in [Ids -> Row \cup {NoRow}]
    /\ receipts \in [Ids -> ReceiptKinds \cup {NoReceipt}]
    /\ tombstones \subseteq Ids

(* An ID with a tombstone has neither an active row nor a receipt: the
   deletion transaction leaves nothing behind and reserve_workspace never
   brings the ID back (triggers workspaces_insert_guard,
   tombstones_insert_only_deleting, the receipt cascade). *)
TombstonedIsGone ==
    \A id \in tombstones : id \notin Active /\ receipts[id] = NoReceipt

(* A receipt exists only for a row that has left Creating, and a Ready row has
   one: receipt and Ready appear in one commit, so a crash between the two
   statements of complete_materialization cannot separate them. *)
ReceiptTracksReady ==
    \A id \in Ids :
        /\ receipts[id] # NoReceipt => id \in Active /\ workspaces[id].state # "creating"
        /\ id \in Active /\ workspaces[id].state = "ready" => receipts[id] # NoReceipt

(* A full copy is on record only where the user allowed it, whatever plan a
   caller hands to complete_materialization. *)
CopyOnlyWhenAllowed ==
    \A id \in Active : receipts[id] = "copy" => workspaces[id].res.allow

(* Two active rows never share a name or a target path, through every state
   of both rows: a failed or half deleted Workspace keeps both reserved. *)
ReservationsAreExclusive ==
    \A a, b \in Active :
        a # b => /\ workspaces[a].res.name # workspaces[b].res.name
                 /\ workspaces[a].res.target # workspaces[b].res.target

(* The error code is recorded exactly in state Error, and the row's update
   time is not before its creation time. *)
RowsAreExplainable ==
    \A id \in Active :
        /\ (workspaces[id].state = "error") <=> (workspaces[id].error # NoCode)
        /\ workspaces[id].updated >= workspaces[id].res.created

(* A row that is Deleting or Error never becomes Ready or Creating again: it
   moves between these two states until it is tombstoned. *)
IncompleteNeverReady ==
    [][\A id \in Active :
          workspaces[id].state \in {"deleting", "error"} /\ workspaces'[id] # NoRow
              => workspaces'[id].state \in {"deleting", "error"}]_storeVars

(* A name and a target are released only together with a new tombstone and
   only from Deleting; what was reserved never changes before that, and the
   row's update time never goes back. *)
ReleasedOnlyByTombstone ==
    [][\A id \in Active :
          IF workspaces'[id] = NoRow
            THEN workspaces[id].state = "deleting" /\ id \in tombstones' \ tombstones
            ELSE /\ workspaces'[id].res = workspaces[id].res
                 /\ workspaces'[id].updated >= workspaces[id].updated]_storeVars

(* A tombstone is permanent and its ID is never reserved again. *)
TombstonesAreFinal ==
    [][tombstones \subseteq tombstones' /\ \A id \in tombstones : workspaces'[id] = NoRow]_storeVars
=============================================================================
