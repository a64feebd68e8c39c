-------------------------- MODULE MacMaterializer --------------------------
(***************************************************************************)
(* The macOS materializers (adapter-macos materializer.rs), clone and full *)
(* copy, where they differ from Linux: a clone arrives in staging with its *)
(* contents or not at all; a full copy makes its files in the target       *)
(* itself and learns their identity afterwards; staged entries are removed *)
(* before the attempt is given up; the rollback looks at every entry once  *)
(* more; and nothing clears what the rollback of a clone left in trash.    *)
(***************************************************************************)
EXTENDS Materializer

(* snapshot_tree, as on Linux. *)
MacSnapshot == src

(* matches_promised *)
MacSameManifest == SameManifest

(* rollback_set_matches and target_snapshot_matches_created: an entry without an
   identity matches nothing. *)
MacMatches(n) == Matches(n) /\ (anonymous => n < created)

(* materialize_inner: only the target has to be empty; the snapshot of the source
   is the one the clone before it ended with. *)
MacBegin ==
    LET ready == In(Target) = {} /\ (receipt["cow"] # NoReceipt => MacSnapshot = snap)
    IN  /\ pc = "begin"
        /\ IF ready THEN Go("check") ELSE Fail("changed")
        /\ snap' = IF ready THEN MacSnapshot ELSE snap
        /\ UNCHANGED <<platform, src, at, data, backend, receipt, seen, faults, meddle>>

InPlace(e) == KindOf[e] = "file" /\ backend = "copy"    \* made in the target itself

(* stage_and_publish, its creation: a directory or link, or a clone of what the
   source holds now. *)
MacStage ==
    LET e == Object[2]
    IN  /\ pc = "create" /\ ~InPlace(e)
        /\ Move(Object, <<Staging, Object>>)
        /\ data' = [data EXCEPT ![Object] = IF KindOf[e] = "file" THEN src[e] ELSE snap[e]]
        /\ staged' = "unknown" /\ pc' = "identify"
        /\ UNCHANGED <<platform, src, snap, backend, created, anonymous, failure, left, removed,
                       unconfirmed, todo, receipt, seen, faults, meddle>>

(* fclonefileat says that it cannot clone; nothing is staged. *)
MacCloneFails ==
    /\ pc = "create" /\ KindOf[Object[2]] = "file" /\ backend = "cow"
    /\ Fail("cow_unavailable")
    /\ UNCHANGED <<platform, src, snap, at, data, backend, receipt, seen, faults, meddle>>

(* Its identity is taken in staging, where nobody else writes. *)
MacIdentify ==
    /\ pc = "identify"
    /\ staged' = "known" /\ pc' = "publish"
    /\ UNCHANGED <<platform, src, snap, at, data, backend, created, anonymous, failure, left,
                   removed, unconfirmed, todo, receipt, seen, faults, meddle>>

(* create_file_at: exclusively, under its final name; it counts as created, with
   no identity yet. *)
MacCreateInPlace ==
    /\ pc = "create" /\ InPlace(Object[2])
    /\ \/ /\ Free(Home(backend, Object[2]))
          /\ Move(Object, Home(backend, Object[2]))
          /\ data' = [data EXCEPT ![Object] = Blank]
          /\ created' = created + 1 /\ anonymous' = TRUE /\ pc' = "register"
          /\ UNCHANGED <<staged, failure, left, removed, unconfirmed, todo>>
       \/ ~Free(Home(backend, Object[2])) /\ Fail("changed") /\ UNCHANGED <<at, data>>
    /\ UNCHANGED <<platform, src, snap, backend, receipt, seen, faults, meddle>>

Newest == <<backend, Tree[created]>>
NameHolds == at[Newest] = Home(backend, Newest[2])      \* the name leads to the object

(* register_created: the identity is recorded if the name leads to the open file. *)
MacRegister ==
    /\ pc = "register"
    /\ \/ /\ NameHolds /\ anonymous' = FALSE /\ pc' = "fill"
          /\ UNCHANGED <<created, staged, failure, left, removed, unconfirmed, todo>>
       \/ ~NameHolds /\ Fail("changed")
    /\ UNCHANGED <<platform, src, snap, at, data, backend, receipt, seen, faults, meddle>>

(* copy_file_bytes into the open file; what a user wrote there may be left in it. *)
MacFill ==
    /\ pc = "fill"
    /\ \E new \in {src[Newest[2]]} \cup ({data[Newest]} \cap {Edited}) :
          data' = [data EXCEPT ![Newest] = new]
    /\ Go("verify")
    /\ UNCHANGED <<platform, src, snap, at, backend, receipt, seen, faults, meddle>>

(* A published name still leads to the object, while a file made in place is only
   known by its descriptor; sources as on Linux. *)
MacVerify ==
    LET e == Tree[created]
        good == /\ InPlace(e) \/ NameHolds
                /\ KindOf[e] = "file" => src[e] = snap[e]
                /\ \A d \in Closed(created) : src[d] = snap[d]
    IN  /\ pc = "verify"
        /\ IF good THEN Go(IF created = Len(Tree) THEN "final_source" ELSE "check")
                   ELSE Fail("changed")
        /\ UNCHANGED <<platform, src, snap, at, data, backend, receipt, seen, faults, meddle>>

(* Mutant: the target is compared by its manifest, not by identities. *)
MacFinalTarget_Mutant ==
    /\ pc = "final_target"
    /\ seen' = meddle
    /\ IF MacSameManifest
         THEN Go("done") /\ receipt' = [receipt EXCEPT ![backend] = Succeeded]
         ELSE Fail("changed") /\ UNCHANGED receipt
    /\ UNCHANGED <<platform, src, snap, at, data, backend, faults, meddle>>

(* matches_promised and target_snapshot_matches_created; trash is not looked at. *)
MacFinalTarget ==
    /\ pc = "final_target"
    /\ seen' = meddle
    /\ IF MacMatches(created) /\ MacSameManifest
         THEN Go("done") /\ receipt' = [receipt EXCEPT ![backend] = Succeeded]
         ELSE Fail("changed") /\ UNCHANGED receipt
    /\ UNCHANGED <<platform, src, snap, at, data, backend, faults, meddle>>

(* Steps of the attempt that are those of Linux, in code of their own. *)
MacCheck == Check
MacPublish == Publish
MacFinalSource == FinalSource

-----------------------------------------------------------------------------
(* Failure *)

(* after_write: a clone is unavailable only for the source it started from. *)
Reason == IF failure = "cow_unavailable" /\ src # snap THEN "changed" ELSE failure

(* The staged entry is unlinked, of known identity or not, and the attempt given up. *)
MacCleanup ==
    /\ pc = "cleanup"
    /\ at' = IF staged = "no" THEN at ELSE [at EXCEPT ![Object] = Nowhere]
    /\ staged' = "no" /\ failure' = Reason /\ left' = created /\ pc' = "rollback"
    /\ UNCHANGED <<platform, src, snap, data, backend, created, anonymous, removed, unconfirmed,
                   todo, receipt, seen, faults, meddle>>

(* The unlink fails, which is then the failure reported, or the source cannot be
   read again, which counts as changed. *)
MacCleanupFault ==
    /\ pc = "cleanup" /\ (staged # "no" \/ failure = "cow_unavailable")
    /\ Trouble < MaxTrouble /\ faults' = faults + 1
    /\ failure' = IF staged # "no" THEN "fault" ELSE "changed"
    /\ left' = created /\ pc' = "rollback"
    /\ UNCHANGED <<platform, src, snap, at, data, backend, created, staged, anonymous, removed,
                   unconfirmed, todo, receipt, seen, meddle>>

(* rollback_created, head of the loop; an entry without identity matches nothing. *)
MacRollback ==
    /\ pc = "rollback"
    /\ Go(IF left = 0 \/ ~MacMatches(left) THEN "restore" ELSE "recheck")
    /\ UNCHANGED <<platform, src, snap, at, data, backend, receipt, seen, faults, meddle>>

(* The entry is looked at under its name just before it is detached. *)
MacRecheck ==
    /\ pc = "recheck"
    /\ Go(IF at[Last] = Home(backend, Tree[left]) THEN "detach" ELSE "restore")
    /\ UNCHANGED <<platform, src, snap, at, data, backend, receipt, seen, faults, meddle>>

(* Steps of the rollback that are those of Linux, in code of their own. *)
MacDetach == Detach
MacConfirm == Confirm
MacPutBack == PutBack
MacRestore == Restore
MacFault == Fault

MacTool ==
    /\ platform = "macos"
    /\ \/ MacBegin \/ MacCheck \/ MacStage \/ MacCloneFails \/ MacIdentify \/ MacPublish
       \/ MacCreateInPlace \/ MacRegister \/ MacFill \/ MacVerify
       \/ MacFinalSource \/ MacFinalTarget
       \/ MacCleanup \/ MacRollback \/ MacRecheck \/ MacDetach \/ MacConfirm \/ MacPutBack
       \/ MacRestore \/ Fallback \/ MacCleanupFault \/ MacFault

Next == LinuxTool \/ MacTool \/ User \/ Done

Spec == Init /\ [][Next]_vars
=============================================================================
