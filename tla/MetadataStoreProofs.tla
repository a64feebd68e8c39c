------------------------ MODULE MetadataStoreProofs ------------------------
(***************************************************************************)
(* Proofs about MetadataStore, for every set of IDs, names, targets and    *)
(* volumes, and every caller.                                              *)
(*                                                                         *)
(* The conjunction StoreInv is inductive.  Its parts need each other: that *)
(* a reserved ID brings no old receipt along comes from ReceiptTracksReady *)
(* and keeps CopyOnlyWhenAllowed true; that complete_deletion leaves       *)
(* nothing behind needs the receipt to belong to the row it cascades with. *)
(***************************************************************************)
EXTENDS MetadataStore, TLAPS

StoreInv ==
    /\ StoreTypeOK
    /\ TombstonedIsGone
    /\ ReceiptTracksReady
    /\ CopyOnlyWhenAllowed
    /\ ReservationsAreExclusive
    /\ RowsAreExplainable

-----------------------------------------------------------------------------
(* What an "ok" answer of each method tells *)

(* reserve_workspace answers ok only under the insert guard of the schema. *)
LEMMA ReserveOk ==
    ASSUME NEW id \in Ids, NEW res \in Reservation, ReserveOutcome(id, res) = "ok"
    PROVE  InsertGuard(id, NewRow(res))
BY DEF ReserveOutcome

(* complete_materialization answers ok only for a Creating row whose plan and
   receipt match and whose update passes the triggers. *)
LEMMA CompleteOk ==
    ASSUME NEW id \in Ids, NEW plan \in Plan, NEW receipt \in Receipt, NEW now \in Times,
           CompleteOutcome(id, plan, receipt, now) = "ok"
    PROVE  /\ id \in Active
           /\ workspaces[id].state = "creating"
           /\ PlanMatches(plan, receipt, workspaces[id].res)
           /\ ReceiptGuard(id)
           /\ UpdateGuard(workspaces[id], ReadyRow(workspaces[id], now), receipt.kind)
BY DEF CompleteOutcome

(* An expected-state update answers ok only for an active row in that state
   and under the update triggers. *)
LEMMA UpdateOk ==
    ASSUME NEW id \in Ids, NEW expected, NEW new, UpdateOutcome(id, expected, new) = "ok"
    PROVE  /\ id \in Active
           /\ workspaces[id].state = expected
           /\ UpdateGuard(workspaces[id], new, receipts[id])
BY DEF UpdateOutcome

(* complete_deletion answers ok only for a Deleting row without a tombstone. *)
LEMMA DeletionOk ==
    ASSUME NEW id \in Ids, DeletionOutcome(id) = "ok"
    PROVE  id \in Active /\ workspaces[id].state = "deleting" /\ id \notin tombstones
BY DEF DeletionOutcome, TombstoneGuard

-----------------------------------------------------------------------------
(* record_failure and begin_removal replace a row by one with the same
   reservation; both end in Error or Deleting. *)
LEMMA UpdatePreserves ==
    ASSUME StoreInv,
           NEW id \in Active, NEW new \in Row,
           UpdateGuard(workspaces[id], new, receipts[id]),
           new.state \in {"error", "deleting"},
           workspaces' = [workspaces EXCEPT ![id] = new],
           UNCHANGED <<receipts, tombstones>>
    PROVE  StoreInv'
<1>0. id \in Ids /\ workspaces[id] \in Row /\ new # NoRow
    BY NoRowAssumption DEF StoreInv, StoreTypeOK, Active
<1>1. StoreTypeOK'
    BY <1>0 DEF StoreInv, StoreTypeOK
<1>2. Active' = Active
    BY <1>0 DEF StoreInv, StoreTypeOK, Active
<1>3. \A other \in Ids : other # id => workspaces'[other] = workspaces[other]
    BY DEF StoreInv, StoreTypeOK
<1>4. workspaces'[id] = new /\ new.res = workspaces[id].res
    BY <1>0 DEF StoreInv, StoreTypeOK, UpdateGuard
<1>5. TombstonedIsGone'
    BY <1>2 DEF StoreInv, TombstonedIsGone
<1>6. ReceiptTracksReady'
    BY <1>0, <1>2, <1>3, <1>4 DEF StoreInv, ReceiptTracksReady
<1>7. \A other \in Active : workspaces'[other].res = workspaces[other].res
    BY <1>3, <1>4 DEF Active
<1>8. CopyOnlyWhenAllowed'
    BY <1>2, <1>7 DEF StoreInv, CopyOnlyWhenAllowed
<1>9. ReservationsAreExclusive'
    BY <1>2, <1>7 DEF StoreInv, ReservationsAreExclusive
<1>10. RowsAreExplainable'
  <2>1. (new.state = "error") <=> (new.error # NoCode)
      BY DEF UpdateGuard
  <2>2. new.updated >= new.res.created
    <3>1. workspaces[id].updated >= workspaces[id].res.created
        BY <1>0 DEF StoreInv, RowsAreExplainable
    <3>2. /\ new.updated \in Nat /\ workspaces[id].updated \in Nat
          /\ workspaces[id].res.created \in Nat
        BY <1>0, TimesAssumption DEF Row, Reservation
    <3>3. QED BY <3>1, <3>2 DEF UpdateGuard
  <2>3. QED BY <1>2, <1>3, <1>4, <2>1, <2>2 DEF StoreInv, RowsAreExplainable, Active
<1>11. QED BY <1>1, <1>5, <1>6, <1>8, <1>9, <1>10 DEF StoreInv

(* reserve_workspace *)
LEMMA ReservePreserves ==
    ASSUME StoreInv, NEW id \in Ids, NEW res \in Reservation, reserve_workspace(id, res)
    PROVE  StoreInv'
<1> DEFINE row == NewRow(res)
<1>1. InsertGuard(id, row)
    BY ReserveOk DEF reserve_workspace
<1>2. row \in Row /\ row # NoRow /\ row.res = res /\ row.state = "creating"
    BY NoRowAssumption DEF NewRow, Row, Reservation, States
<1>3. workspaces' = [workspaces EXCEPT ![id] = row] /\ UNCHANGED <<receipts, tombstones>>
    BY DEF reserve_workspace
<1> HIDE DEF row
<1>4. StoreTypeOK'
    BY <1>2, <1>3 DEF StoreInv, StoreTypeOK
<1>5. id \notin Active /\ id \notin tombstones /\ Active' = Active \cup {id}
    BY <1>1, <1>2, <1>3 DEF StoreInv, StoreTypeOK, Active, InsertGuard
<1>6. \A other \in Ids : other # id => workspaces'[other] = workspaces[other]
    BY <1>3 DEF StoreInv, StoreTypeOK
<1>7. workspaces'[id] = row
    BY <1>3 DEF StoreInv, StoreTypeOK
<1>8. receipts[id] = NoReceipt
    BY <1>5 DEF StoreInv, ReceiptTracksReady
<1>9. TombstonedIsGone'
    BY <1>3, <1>5 DEF StoreInv, TombstonedIsGone
<1>10. ReceiptTracksReady'
    BY <1>2, <1>3, <1>5, <1>6, <1>7, <1>8 DEF StoreInv, ReceiptTracksReady
<1>11. CopyOnlyWhenAllowed'
    BY <1>3, <1>5, <1>6, <1>8 DEF StoreInv, CopyOnlyWhenAllowed, Active, NoReceipt
<1>12. ReservationsAreExclusive'
    BY <1>1, <1>2, <1>5, <1>6, <1>7
       DEF StoreInv, ReservationsAreExclusive, Active, InsertGuard
<1>13. RowsAreExplainable'
  <2>1. row.error = NoCode /\ row.updated = res.created /\ res.created \in Nat
      BY TimesAssumption DEF row, NewRow, Reservation
  <2>2. QED BY <1>2, <1>5, <1>6, <1>7, <2>1 DEF StoreInv, RowsAreExplainable, Active
<1>14. QED BY <1>4, <1>9, <1>10, <1>11, <1>12, <1>13 DEF StoreInv

(* complete_materialization *)
LEMMA CompletePreserves ==
    ASSUME StoreInv, NEW id \in Ids, NEW plan \in Plan, NEW receipt \in Receipt, NEW now \in Times,
           complete_materialization(id, plan, receipt, now)
    PROVE  StoreInv'
<1> DEFINE row == ReadyRow(workspaces[id], now)
<1>1. /\ id \in Active
      /\ PlanMatches(plan, receipt, workspaces[id].res)
      /\ ReceiptGuard(id)
      /\ UpdateGuard(workspaces[id], row, receipt.kind)
    BY CompleteOk DEF complete_materialization
<1>2. workspaces[id] \in Row
    BY <1>1 DEF StoreInv, StoreTypeOK, Active
<1>3. /\ row \in Row /\ row # NoRow /\ row.state = "ready"
      /\ row.res = workspaces[id].res /\ row.error = NoCode /\ row.updated = now
    BY <1>2, NoRowAssumption DEF ReadyRow, Row, States
<1>4. /\ workspaces' = [workspaces EXCEPT ![id] = row]
      /\ receipts' = [receipts EXCEPT ![id] = receipt.kind]
      /\ UNCHANGED tombstones
    BY DEF complete_materialization
<1> HIDE DEF row
<1>5. StoreTypeOK'
    BY <1>3, <1>4 DEF StoreInv, StoreTypeOK, Receipt
<1>6. Active' = Active
    BY <1>1, <1>3, <1>4 DEF StoreInv, StoreTypeOK, Active
<1>7. /\ \A other \in Ids : other # id => /\ workspaces'[other] = workspaces[other]
                                         /\ receipts'[other] = receipts[other]
      /\ workspaces'[id] = row /\ receipts'[id] = receipt.kind
    BY <1>4 DEF StoreInv, StoreTypeOK
<1>8. \A other \in Active : workspaces'[other].res = workspaces[other].res
    BY <1>3, <1>7 DEF Active
<1>9. receipt.kind # NoReceipt
    BY DEF Receipt, ReceiptKinds, NoReceipt
<1>10. TombstonedIsGone'
    BY <1>1, <1>4, <1>6, <1>7 DEF StoreInv, StoreTypeOK, TombstonedIsGone
<1>11. ReceiptTracksReady'
    BY <1>1, <1>3, <1>6, <1>7, <1>9 DEF StoreInv, ReceiptTracksReady
<1>12. CopyOnlyWhenAllowed'
    BY <1>1, <1>6, <1>7, <1>8 DEF StoreInv, CopyOnlyWhenAllowed, Active, PlanMatches
<1>13. ReservationsAreExclusive'
    BY <1>6, <1>8 DEF StoreInv, ReservationsAreExclusive
<1>14. RowsAreExplainable'
  <2>1. row.updated >= row.res.created
    <3>1. workspaces[id].updated >= workspaces[id].res.created
        BY <1>1 DEF StoreInv, RowsAreExplainable
    <3>2. /\ row.updated \in Nat /\ workspaces[id].updated \in Nat
          /\ workspaces[id].res.created \in Nat
        BY <1>2, <1>3, TimesAssumption DEF Row, Reservation
    <3>3. QED BY <1>1, <1>3, <3>1, <3>2 DEF UpdateGuard
  <2>2. QED BY <1>3, <1>6, <1>7, <2>1 DEF StoreInv, RowsAreExplainable, Active
<1>15. QED BY <1>5, <1>10, <1>11, <1>12, <1>13, <1>14 DEF StoreInv

(* record_failure and begin_removal *)
LEMMA FailurePreserves ==
    ASSUME StoreInv, NEW id \in Ids, NEW expected \in States, NEW code \in Codes, NEW now \in Times,
           record_failure(id, expected, code, now)
    PROVE  StoreInv'
<1> DEFINE row == ErrorRow(workspaces[id], code, now)
<1>1. UpdateOutcome(id, expected, row) = "ok"
    BY DEF record_failure, FailureOutcome
<1>2. id \in Active /\ UpdateGuard(workspaces[id], row, receipts[id])
    BY <1>1, UpdateOk
<1>3. workspaces[id] \in Row
    BY <1>2 DEF StoreInv, StoreTypeOK, Active
<1>4. row \in Row /\ row.state = "error"
    BY <1>3 DEF ErrorRow, Row, States
<1>5. workspaces' = [workspaces EXCEPT ![id] = row] /\ UNCHANGED <<receipts, tombstones>>
    BY DEF record_failure
<1>6. QED BY <1>2, <1>4, <1>5, UpdatePreserves

(* begin_removal, including its reaffirmation of a row that is already Deleting. *)
LEMMA BeginRemovalPreserves ==
    ASSUME StoreInv, NEW id \in Ids, NEW expected \in States, NEW mode \in Modes, NEW now \in Times,
           begin_removal(id, expected, mode, now)
    PROVE  StoreInv'
<1> DEFINE row == DeletingRow(workspaces[id], now)
<1>1. CASE expected = "deleting"
    BY <1>1 DEF begin_removal, StoreInv, StoreTypeOK, TombstonedIsGone, ReceiptTracksReady,
                CopyOnlyWhenAllowed, ReservationsAreExclusive, RowsAreExplainable, Active
<1>2. CASE expected # "deleting"
  <2>2. UpdateOutcome(id, expected, row) = "ok"
    <3>1. Transition(expected, BeginRemovalEvent(mode)) \in {"deleting", Rejected}
        BY DEF Transition, Rejected, BeginRemovalEvent, Modes
    <3>2. QED BY <1>2, <3>1 DEF begin_removal, RemovalOutcome, Rejected
  <2>3. id \in Active /\ UpdateGuard(workspaces[id], row, receipts[id])
      BY <2>2, UpdateOk
  <2>4. workspaces[id] \in Row
      BY <2>3 DEF StoreInv, StoreTypeOK, Active
  <2>5. row \in Row /\ row.state = "deleting"
      BY <2>4 DEF DeletingRow, Row, States
  <2>6. workspaces' = [workspaces EXCEPT ![id] = row] /\ UNCHANGED <<receipts, tombstones>>
      BY <1>2 DEF begin_removal
  <2>7. QED BY <2>3, <2>5, <2>6, UpdatePreserves
<1>3. QED BY <1>1, <1>2

(* complete_deletion *)
LEMMA DeletionPreserves ==
    ASSUME StoreInv, NEW id \in Ids, complete_deletion(id)
    PROVE  StoreInv'
<1>1. /\ id \in Active
      /\ tombstones' = tombstones \cup {id}
      /\ workspaces' = [workspaces EXCEPT ![id] = NoRow]
      /\ receipts' = [receipts EXCEPT ![id] = NoReceipt]
    BY DeletionOk DEF complete_deletion
<1>2. StoreTypeOK'
    BY <1>1 DEF StoreInv, StoreTypeOK
<1>3. Active' = Active \ {id}
    BY <1>1 DEF StoreInv, StoreTypeOK, Active
<1>4. /\ \A other \in Ids : other # id => /\ workspaces'[other] = workspaces[other]
                                         /\ receipts'[other] = receipts[other]
      /\ receipts'[id] = NoReceipt
    BY <1>1 DEF StoreInv, StoreTypeOK
<1>5. TombstonedIsGone'
    BY <1>1, <1>3, <1>4 DEF StoreInv, StoreTypeOK, TombstonedIsGone
<1>6. ReceiptTracksReady'
    BY <1>3, <1>4 DEF StoreInv, ReceiptTracksReady
<1>7. \A other \in Active' : other \in Active /\ workspaces'[other] = workspaces[other]
                            /\ receipts'[other] = receipts[other]
    BY <1>3, <1>4 DEF Active
<1>8. CopyOnlyWhenAllowed'
    BY <1>7 DEF StoreInv, CopyOnlyWhenAllowed
<1>9. ReservationsAreExclusive'
    BY <1>7 DEF StoreInv, ReservationsAreExclusive
<1>10. RowsAreExplainable'
    BY <1>7 DEF StoreInv, RowsAreExplainable
<1>11. QED BY <1>2, <1>5, <1>6, <1>8, <1>9, <1>10 DEF StoreInv

-----------------------------------------------------------------------------
(* An installation with empty tables satisfies the invariant. *)
LEMMA StoreInvInitially == StoreInit => StoreInv
BY DEF StoreInit, StoreInv, StoreTypeOK, TombstonedIsGone, ReceiptTracksReady,
       CopyOnlyWhenAllowed, ReservationsAreExclusive, RowsAreExplainable, Active, NoReceipt

(* Every accepted call, and every refused one, preserves the invariant. *)
LEMMA StoreInvStep == StoreInv /\ [StoreNext]_storeVars => StoreInv'
<1> SUFFICES ASSUME StoreInv, [StoreNext]_storeVars PROVE StoreInv'
    OBVIOUS
<1>1. CASE UNCHANGED storeVars
    BY <1>1 DEF storeVars, StoreInv, StoreTypeOK, TombstonedIsGone, ReceiptTracksReady,
                CopyOnlyWhenAllowed, ReservationsAreExclusive, RowsAreExplainable, Active
<1>2. CASE StoreNext
  <2>1. PICK id \in Ids :
            \/ \E res \in Reservation : reserve_workspace(id, res)
            \/ \E plan \in Plan, receipt \in Receipt, now \in Times :
                  complete_materialization(id, plan, receipt, now)
            \/ \E expected \in States, code \in Codes, now \in Times :
                  record_failure(id, expected, code, now)
            \/ \E expected \in States, mode \in Modes, now \in Times :
                  begin_removal(id, expected, mode, now)
            \/ complete_deletion(id)
      BY <1>2 DEF StoreNext
  <2>2. CASE \E res \in Reservation : reserve_workspace(id, res)
      BY <2>2, ReservePreserves
  <2>3. CASE \E plan \in Plan, receipt \in Receipt, now \in Times :
               complete_materialization(id, plan, receipt, now)
      BY <2>3, CompletePreserves
  <2>4. CASE \E expected \in States, code \in Codes, now \in Times :
               record_failure(id, expected, code, now)
      BY <2>4, FailurePreserves
  <2>5. CASE \E expected \in States, mode \in Modes, now \in Times :
               begin_removal(id, expected, mode, now)
      BY <2>5, BeginRemovalPreserves
  <2>6. CASE complete_deletion(id)
      BY <2>6, DeletionPreserves
  <2>7. QED BY <2>1, <2>2, <2>3, <2>4, <2>5, <2>6
<1>3. QED BY <1>1, <1>2

(* The inductive invariant of the store holds in every reachable state,
   whatever the callers ask for. *)
THEOREM StoreInvariant == StoreSpec => []StoreInv
BY StoreInvInitially, StoreInvStep, PTL DEF StoreSpec

(* The tables keep the types of their columns under every call. *)
THEOREM StoreTypeCorrect == StoreSpec => []StoreTypeOK
<1>1. StoreInv => StoreTypeOK BY DEF StoreInv
<1>2. QED BY <1>1, StoreInvariant, PTL

(* Neither a row nor a receipt survives its tombstone. *)
THEOREM DeletionLeavesNothing == StoreSpec => []TombstonedIsGone
<1>1. StoreInv => TombstonedIsGone BY DEF StoreInv
<1>2. QED BY <1>1, StoreInvariant, PTL

(* Ready and its receipt are never seen apart. *)
THEOREM ReadyHasReceipt == StoreSpec => []ReceiptTracksReady
<1>1. StoreInv => ReceiptTracksReady BY DEF StoreInv
<1>2. QED BY <1>1, StoreInvariant, PTL

(* No caller can get a full copy on record for a reservation that did not
   allow one. *)
THEOREM FullCopyWasAllowed == StoreSpec => []CopyOnlyWhenAllowed
<1>1. StoreInv => CopyOnlyWhenAllowed BY DEF StoreInv
<1>2. QED BY <1>1, StoreInvariant, PTL

(* Active rows never share a name or a target. *)
THEOREM ExclusiveReservations == StoreSpec => []ReservationsAreExclusive
<1>1. StoreInv => ReservationsAreExclusive BY DEF StoreInv
<1>2. QED BY <1>1, StoreInvariant, PTL

(* Error codes and times of a row stay consistent. *)
THEOREM ExplainableRows == StoreSpec => []RowsAreExplainable
<1>1. StoreInv => RowsAreExplainable BY DEF StoreInv
<1>2. QED BY <1>1, StoreInvariant, PTL

-----------------------------------------------------------------------------
(* What one step may do to an active row: leave it, replace it along a trigger
   edge without touching its reservation or turning its clock back, or move it
   from Deleting to a tombstone. *)
RowStep(id) ==
    \/ /\ workspaces'[id] = NoRow
       /\ workspaces[id].state = "deleting"
       /\ id \in tombstones' \ tombstones
    \/ workspaces'[id] = workspaces[id]
    \/ /\ workspaces'[id] # NoRow
       /\ workspaces'[id].res = workspaces[id].res
       /\ workspaces'[id].updated >= workspaces[id].updated
       /\ \/ workspaces'[id].state = workspaces[id].state
          \/ <<workspaces[id].state, workspaces'[id].state>> \in TriggerEdges

(* Replacing one row under the update triggers is a RowStep for every row. *)
LEMMA UpdateIsRowStep ==
    ASSUME StoreTypeOK, NEW id \in Active, NEW new \in Row, NEW stored,
           UpdateGuard(workspaces[id], new, stored),
           workspaces' = [workspaces EXCEPT ![id] = new]
    PROVE  \A other \in Active : RowStep(other)
<1>1. id \in Ids /\ new # NoRow
    BY NoRowAssumption DEF Active
<1>2. /\ workspaces'[id] = new
      /\ \A other \in Ids : other # id => workspaces'[other] = workspaces[other]
    BY <1>1 DEF StoreTypeOK
<1>3. RowStep(id)
    BY <1>1, <1>2 DEF RowStep, UpdateGuard
<1>4. QED BY <1>2, <1>3 DEF RowStep, Active

(* Tombstones only grow, and every active row makes a RowStep. *)
LEMMA StoreStep ==
    ASSUME StoreInv, [StoreNext]_storeVars
    PROVE  /\ tombstones \subseteq tombstones'
           /\ \A id \in Active : RowStep(id)
<1>1. CASE UNCHANGED storeVars
    BY <1>1 DEF storeVars, RowStep
<1>2. ASSUME NEW id \in Ids, NEW res \in Reservation, reserve_workspace(id, res)
      PROVE  tombstones \subseteq tombstones' /\ \A other \in Active : RowStep(other)
  <2>1. id \notin Active /\ \A other \in Active : workspaces'[other] = workspaces[other]
      BY <1>2, ReserveOk DEF reserve_workspace, InsertGuard, Active, StoreInv, StoreTypeOK
  <2>2. QED BY <1>2, <2>1 DEF RowStep, reserve_workspace
<1>3. ASSUME NEW id \in Ids, NEW plan \in Plan, NEW receipt \in Receipt, NEW now \in Times,
             complete_materialization(id, plan, receipt, now)
      PROVE  tombstones \subseteq tombstones' /\ \A other \in Active : RowStep(other)
  <2> DEFINE row == ReadyRow(workspaces[id], now)
  <2>1. id \in Active /\ UpdateGuard(workspaces[id], row, receipt.kind)
      BY <1>3, CompleteOk DEF complete_materialization
  <2>2. workspaces[id] \in Row
      BY <2>1 DEF StoreInv, StoreTypeOK, Active
  <2>3. row \in Row
      BY <2>2 DEF ReadyRow, Row, States
  <2>4. workspaces' = [workspaces EXCEPT ![id] = row] /\ tombstones' = tombstones
      BY <1>3 DEF complete_materialization
  <2>5. StoreTypeOK BY DEF StoreInv
  <2> HIDE DEF row
  <2>6. QED BY <2>1, <2>3, <2>4, <2>5, UpdateIsRowStep
<1>4. ASSUME NEW id \in Ids, NEW expected \in States, NEW code \in Codes, NEW now \in Times,
             record_failure(id, expected, code, now)
      PROVE  tombstones \subseteq tombstones' /\ \A other \in Active : RowStep(other)
  <2> DEFINE row == ErrorRow(workspaces[id], code, now)
  <2>1. UpdateOutcome(id, expected, row) = "ok"
      BY <1>4 DEF record_failure, FailureOutcome
  <2>2. id \in Active /\ UpdateGuard(workspaces[id], row, receipts[id])
      BY <2>1, UpdateOk
  <2>3. workspaces[id] \in Row
      BY <2>2 DEF StoreInv, StoreTypeOK, Active
  <2>4. row \in Row
      BY <2>3 DEF ErrorRow, Row, States
  <2>5. workspaces' = [workspaces EXCEPT ![id] = row] /\ tombstones' = tombstones
      BY <1>4 DEF record_failure
  <2>6. StoreTypeOK BY DEF StoreInv
  <2> HIDE DEF row
  <2>7. QED BY <2>2, <2>4, <2>5, <2>6, UpdateIsRowStep
<1>5. ASSUME NEW id \in Ids, NEW expected \in States, NEW mode \in Modes, NEW now \in Times,
             begin_removal(id, expected, mode, now)
      PROVE  tombstones \subseteq tombstones' /\ \A other \in Active : RowStep(other)
  <2> DEFINE row == DeletingRow(workspaces[id], now)
  <2>1. CASE expected = "deleting"
      BY <1>5, <2>1 DEF begin_removal, RowStep
  <2>2. CASE expected # "deleting"
    <3>1. Transition(expected, BeginRemovalEvent(mode)) \in {"deleting", Rejected}
        BY DEF Transition, Rejected, BeginRemovalEvent, Modes
    <3>2. UpdateOutcome(id, expected, row) = "ok"
        BY <1>5, <2>2, <3>1 DEF begin_removal, RemovalOutcome, Rejected
    <3>3. id \in Active /\ UpdateGuard(workspaces[id], row, receipts[id])
        BY <3>2, UpdateOk
    <3>4. workspaces[id] \in Row
        BY <3>3 DEF StoreInv, StoreTypeOK, Active
    <3>5. row \in Row
        BY <3>4 DEF DeletingRow, Row, States
    <3>6. workspaces' = [workspaces EXCEPT ![id] = row] /\ tombstones' = tombstones
        BY <1>5, <2>2 DEF begin_removal
    <3>7. StoreTypeOK BY DEF StoreInv
    <3> HIDE DEF row
    <3>8. QED BY <3>3, <3>5, <3>6, <3>7, UpdateIsRowStep
  <2>3. QED BY <2>1, <2>2
<1>6. ASSUME NEW id \in Ids, complete_deletion(id)
      PROVE  tombstones \subseteq tombstones' /\ \A other \in Active : RowStep(other)
  <2>1. id \in Active /\ workspaces[id].state = "deleting" /\ id \notin tombstones
      BY <1>6, DeletionOk DEF complete_deletion
  <2>2. /\ workspaces'[id] = NoRow
        /\ tombstones' = tombstones \cup {id}
        /\ \A other \in Active : other # id => workspaces'[other] = workspaces[other]
      BY <1>6 DEF complete_deletion, StoreInv, StoreTypeOK, Active
  <2>3. QED BY <2>1, <2>2 DEF RowStep
<1>7. QED BY <1>1, <1>2, <1>3, <1>4, <1>5, <1>6 DEF StoreNext

(* A row that failed or is being deleted never comes back to Ready. *)
THEOREM NoResurrection == StoreSpec => IncompleteNeverReady
<1>1. ASSUME StoreInv, [StoreNext]_storeVars
      PROVE  \A id \in Active :
                 workspaces[id].state \in {"deleting", "error"} /\ workspaces'[id] # NoRow
                     => workspaces'[id].state \in {"deleting", "error"}
    BY <1>1, StoreStep DEF RowStep, TriggerEdges
<1>2. QED BY <1>1, StoreInvariant, PTL DEF StoreSpec, IncompleteNeverReady

(* Names and targets are released by a tombstone only; until then what was
   reserved stays and the row's clock does not go back. *)
THEOREM ReleaseNeedsTombstone == StoreSpec => ReleasedOnlyByTombstone
<1>1. ASSUME StoreInv, [StoreNext]_storeVars
      PROVE  \A id \in Active :
                 IF workspaces'[id] = NoRow
                   THEN workspaces[id].state = "deleting" /\ id \in tombstones' \ tombstones
                   ELSE /\ workspaces'[id].res = workspaces[id].res
                        /\ workspaces'[id].updated >= workspaces[id].updated
  <2> SUFFICES ASSUME NEW id \in Active
               PROVE  IF workspaces'[id] = NoRow
                        THEN workspaces[id].state = "deleting" /\ id \in tombstones' \ tombstones
                        ELSE /\ workspaces'[id].res = workspaces[id].res
                             /\ workspaces'[id].updated >= workspaces[id].updated
      OBVIOUS
  <2>1. RowStep(id) BY <1>1, StoreStep
  <2>2. workspaces[id] # NoRow /\ workspaces[id].updated \in Nat
      BY <1>1, TimesAssumption DEF StoreInv, StoreTypeOK, Active, Row
  <2>3. QED BY <2>1, <2>2 DEF RowStep
<1>2. QED BY <1>1, StoreInvariant, PTL DEF StoreSpec, ReleasedOnlyByTombstone

(* A tombstone is for ever and so is the end of its ID. *)
THEOREM TombstonesForever == StoreSpec => TombstonesAreFinal
<1>1. ASSUME StoreInv, StoreInv', [StoreNext]_storeVars
      PROVE  tombstones \subseteq tombstones' /\ \A id \in tombstones : workspaces'[id] = NoRow
    BY <1>1, StoreStep DEF StoreInv, StoreTypeOK, TombstonedIsGone, Active
<1>2. QED BY <1>1, StoreInvariant, PTL DEF StoreSpec, TombstonesAreFinal

-----------------------------------------------------------------------------
(* The life cycle is written twice, in Rust and in SQL: the trigger
   workspaces_state_transition admits exactly the state changes that
   WorkspaceState::transition authorizes by some event. *)
THEOREM SchemaAgreesWithDomain ==
    \A from, to \in States :
        from # to => (<<from, to>> \in TriggerEdges <=> \E event \in Events : Transition(from, event) = to)
<1> SUFFICES ASSUME NEW from \in States, NEW to \in States, from # to
             PROVE  <<from, to>> \in TriggerEdges
                      <=> \E event \in Events : Transition(from, event) = to
    OBVIOUS
<1>1. ASSUME NEW event \in Events, Transition(from, event) = to
      PROVE  <<from, to>> \in TriggerEdges
    BY <1>1 DEF States, Events, Transition, TriggerEdges, Rejected
<1>2. ASSUME <<from, to>> \in TriggerEdges
      PROVE  \E event \in {"materialized", "failed", "remove_force"} : Transition(from, event) = to
    BY <1>2 DEF States, Transition, TriggerEdges
<1>3. QED BY <1>1, <1>2 DEF Events
=============================================================================
