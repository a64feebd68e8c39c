---------------------------- MODULE Materializer ----------------------------
(***************************************************************************)
(* The materializers: a source tree is copied entry by entry, each entry   *)
(* made in the staging directory and published into the target by a rename *)
(* that replaces nothing.  A failure is rolled back in reverse order into  *)
(* the trash directory.  A clone that turns out to be unavailable may be   *)
(* followed by a full copy into the same three directories, which on Linux *)
(* clears what the clone left in trash.  This module has the state, the    *)
(* steps the two platforms share, the steps of Linux (adapter-linux        *)
(* materializer.rs), users and properties; MacMaterializer has the rest.   *)
(*                                                                         *)
(* Every system call that another process could observe is a step.  Users  *)
(* change the source, and put, move, edit and delete files in target and   *)
(* trash, between any two steps; they keep out of staging and do not use   *)
(* the names the tool generates.  That the three directories are the ones  *)
(* registered is checked around these steps, see WorkspaceLifecycle.       *)
(***************************************************************************)
EXTENDS Naturals, Sequences, FiniteSets

CONSTANTS
    Tree,           \* the source entries in the order they are visited: sorted, parents first
    ParentOf,       \* entry -> the directory it is in, or "root"
    KindOf,         \* entry -> "dir", "file" or "link"
    Strays,         \* files of users
    AllowFullCopy,  \* --allow-copy
    MaxTrouble      \* bound: failing system calls, user actions and changes of the source

Entries == {Tree[i] : i \in DOMAIN Tree}
Backends == {"cow", "copy"}

(* The directories of the source an entry is under. *)
Above[e \in Entries] ==
    IF ParentOf[e] = "root" THEN {} ELSE {ParentOf[e]} \cup Above[ParentOf[e]]

(* A file or directory by its identity: made for an entry, or a user's. *)
Made == Backends \X Entries
UserFiles == {"user"} \X Strays
Objects == Made \cup UserFiles
MadeDirs == {o \in Made : KindOf[o[2]] = "dir"}

(* The three directories of the request. *)
Target == <<"request", "target">>
Staging == <<"request", "staging">>
Trash == <<"request", "trash">>
Roots == {Target, Staging, Trash}

(* A place is a name in a directory.  The tool's own names, .thinws-materialize-*
   and .thinws-rollback-*, are those of the object they were generated for. *)
Containers == Roots \cup MadeDirs
UserNames == {"name"} \X (Entries \cup {"extra"})
Places == Containers \X (UserNames \cup Made)
Nowhere == <<"nowhere">>    \* does not exist
Away == <<"away">>          \* outside the three directories

Edited == 2                 \* contents a user gave to a copy
Blank == 3                  \* a file that has been made and not yet filled

ASSUME TreeAssumption ==
    /\ Tree \in Seq(Entries) /\ Len(Tree) > 0
    /\ \A i, j \in DOMAIN Tree : Tree[i] = Tree[j] => i = j
    /\ ParentOf \in [Entries -> Entries \cup {"root"}]
    /\ KindOf \in [Entries -> {"dir", "file", "link"}]
    /\ ParentOf[Tree[1]] = "root"
    /\ \A j \in 2..Len(Tree) :
          ParentOf[Tree[j]] \in {"root"} \cup {e \in {Tree[j - 1]} \cup Above[Tree[j - 1]] :
                                                 KindOf[e] = "dir"}
ASSUME LimitsAssumption ==
    AllowFullCopy \in BOOLEAN /\ MaxTrouble \in Nat

Statuses == {"none", "succeeded", "not_needed", "confirmed", "incomplete"}
Receipts == [status : Statuses, removed : SUBSET Made, unconfirmed : SUBSET Made,
             remaining : SUBSET Made, staging : SUBSET Made]
Empty(status) == [status |-> status, removed |-> {}, unconfirmed |-> {}, remaining |-> {},
                  staging |-> {}]
NoReceipt == Empty("none")

VARIABLES
    platform,   \* "linux" or "macos"
    src,        \* entry -> version of it in the source
    snap,       \* entry -> version in the snapshot of this attempt
    at,         \* object -> its place, Nowhere or Away
    data,       \* object -> the version it holds, or Edited
    backend,    \* the attempt that runs
    pc,         \* its next step
    created,    \* how many entries of Tree are published
    staged,     \* active_staging: "no", or its identity is "unknown" or "known"
    anonymous,  \* the last published entry is recorded without an identity
    failure,    \* why the attempt failed
    left,       \* rollback: how many published entries are not detached yet
    removed, unconfirmed,   \* rollback: detached, and detached without confirmation
    todo,       \* quarantined objects still to unlink
    receipt,    \* backend -> the receipt of its attempt
    seen,       \* meddle before the last look at the whole target
    faults, meddle

context == <<created, staged, anonymous, failure, left, removed, unconfirmed, todo>>
vars == <<platform, src, snap, at, data, backend, pc, context, receipt, seen, faults, meddle>>

-----------------------------------------------------------------------------
(* The directories *)

Container(b, e) == IF ParentOf[e] = "root" THEN Target ELSE <<b, ParentOf[e]>>
Home(b, e) == <<Container(b, e), <<"name", e>>>>
In(c) == {o \in Objects : at[o] \in Places /\ at[o][1] = c}
Free(place) ==
    /\ \A o \in Objects : at[o] # place
    /\ place[1] \in MadeDirs => at[place[1]] # Nowhere
Move(o, place) == at' = [at EXCEPT ![o] = place]

Object == <<backend, Tree[created + 1]>>        \* made for the entry that is next
Published(n) == {<<backend, Tree[i]>> : i \in 1..n}

(* created_matches_target and rollback_set_matches: the target holds the first
   n entries, the very objects that were published, and nothing else. *)
Matches(n) ==
    /\ \A o \in Published(n) : at[o] = Home(backend, o[2])
    /\ \A c \in {Target} \cup (Published(n) \cap MadeDirs) : In(c) \subseteq Published(n)

(* snapshot: kind, metadata and contents of every entry, as the walk finds them. *)
Snapshot == src

(* matches_promised: the manifest of the target is that of the snapshot. *)
SameManifest == \A e \in Entries : data[<<backend, e>>] = snap[e]

Init ==
    /\ platform \in {"linux", "macos"}
    /\ src = [e \in Entries |-> 0] /\ snap = src
    /\ at = [o \in Objects |-> Nowhere] /\ data = [o \in Objects |-> 0]
    /\ backend \in {"cow"} \cup (IF AllowFullCopy THEN {"copy"} ELSE {})
    /\ pc = "begin" /\ created = 0 /\ staged = "no" /\ anonymous = FALSE
    /\ failure = "none" /\ left = 0
    /\ removed = {} /\ unconfirmed = {} /\ todo = {}
    /\ receipt = [b \in Backends |-> NoReceipt]
    /\ seen = 0 /\ faults = 0 /\ meddle = 0

Fail(kind) ==
    /\ failure' = kind /\ pc' = "cleanup"
    /\ UNCHANGED <<created, staged, anonymous, left, removed, unconfirmed, todo>>
Go(label) == pc' = label /\ UNCHANGED context

-----------------------------------------------------------------------------
(* One attempt *)

(* Mutant: a copy, too, wants an empty trash directory. *)
Begin_EmptyTrash ==
    LET ready == /\ In(Target) = {} /\ In(Staging) = {} /\ In(Trash) = {}
                 /\ receipt["cow"] # NoReceipt => Snapshot = snap
    IN  /\ pc = "begin"
        /\ IF ready THEN Go("check") ELSE Fail("changed")
        /\ snap' = IF ready THEN Snapshot ELSE snap
        /\ UNCHANGED <<platform, src, at, data, backend, receipt, seen, faults, meddle>>

(* ensure_empty and the source snapshot; a copy that follows a clone wants the
   source the clone saw. *)
Begin ==
    LET ready == /\ In(Target) = {} /\ In(Staging) = {}
                 /\ backend = "cow" => In(Trash) = {}
                 /\ receipt["cow"] # NoReceipt => Snapshot = snap
    IN  /\ pc = "begin"
        /\ IF ready THEN Go("check") ELSE Fail("changed")
        /\ snap' = IF ready THEN Snapshot ELSE snap
        /\ UNCHANGED <<platform, src, at, data, backend, receipt, seen, faults, meddle>>

(* The entry is compared with the snapshot. *)
Check ==
    LET e == Tree[created + 1]
    IN  /\ pc = "check"
        /\ IF src[e] = snap[e] THEN Go("create") ELSE Fail("changed")
        /\ UNCHANGED <<platform, src, snap, at, data, backend, receipt, seen, faults, meddle>>

(* stage_and_publish: made under a private name ... *)
Create ==
    /\ pc = "create"
    /\ Move(Object, <<Staging, Object>>)
    /\ data' = [data EXCEPT ![Object] = snap[Object[2]]]
    /\ staged' = "unknown" /\ pc' = "identify"
    /\ UNCHANGED <<platform, src, snap, backend, created, anonymous, failure, left, removed,
                   unconfirmed, todo, receipt, seen, faults, meddle>>

(* ... and identified, before its contents are written. *)
Identify ==
    /\ pc = "identify"
    /\ staged' = "known" /\ pc' = "prepare"
    /\ UNCHANGED <<platform, src, snap, at, data, backend, created, anonymous, failure, left,
                   removed, unconfirmed, todo, receipt, seen, faults, meddle>>

(* A file gets what the source holds now, by reflink or byte by byte. *)
Prepare ==
    /\ pc = "prepare"
    /\ \/ /\ KindOf[Object[2]] = "file"
          /\ data' = [data EXCEPT ![Object] = src[Object[2]]]
          /\ Go("publish")
       \/ KindOf[Object[2]] # "file" /\ Go("publish") /\ UNCHANGED data
       \/ /\ KindOf[Object[2]] = "file" /\ backend = "cow"
          /\ Fail("cow_unavailable") /\ UNCHANGED data
    /\ UNCHANGED <<platform, src, snap, at, backend, receipt, seen, faults, meddle>>

(* Mutant: the rename replaces what a user put under the name. *)
Publish_Replacing ==
    /\ pc = "publish"
    /\ at' = [o \in Objects |-> IF o = Object THEN Home(backend, Object[2])
                                ELSE IF at[o] = Home(backend, Object[2]) THEN Nowhere ELSE at[o]]
    /\ created' = created + 1 /\ staged' = "no" /\ pc' = "verify"
    /\ UNCHANGED <<platform, src, snap, data, backend, anonymous, failure, left, removed,
                   unconfirmed, todo, receipt, seen, faults, meddle>>

(* Mutant: active_staging survives the publication. *)
Publish_KeepsStaging ==
    /\ pc = "publish" /\ Free(Home(backend, Object[2]))
    /\ Move(Object, Home(backend, Object[2]))
    /\ created' = created + 1 /\ pc' = "verify"
    /\ UNCHANGED <<platform, src, snap, data, backend, staged, anonymous, failure, left, removed,
                   unconfirmed, todo, receipt, seen, faults, meddle>>

(* renameat2 with NOREPLACE into the directory that is held open. *)
Publish ==
    LET place == Home(backend, Object[2])
    IN  /\ pc = "publish"
        /\ \/ /\ Free(place)
              /\ Move(Object, place)
              /\ created' = created + 1 /\ staged' = "no" /\ pc' = "verify"
              /\ UNCHANGED <<anonymous, failure, left, removed, unconfirmed, todo>>
           \/ ~Free(place) /\ Fail("changed") /\ UNCHANGED at
        /\ UNCHANGED <<platform, src, snap, data, backend, receipt, seen, faults, meddle>>

(* Directories left once entry i is done. *)
Closed(i) == {d \in {Tree[i]} \cup Above[Tree[i]] :
                 KindOf[d] = "dir" /\ (i < Len(Tree) => d \notin Above[Tree[i + 1]])}

(* The published name still leads to the object; the source of a file, and of
   every directory that is complete, is unchanged. *)
Verify ==
    LET e == Tree[created]
        good == /\ at[<<backend, e>>] = Home(backend, e)
                /\ KindOf[e] = "file" => src[e] = snap[e]
                /\ \A d \in Closed(created) : src[d] = snap[d]
    IN  /\ pc = "verify"
        /\ IF good THEN Go(IF created = Len(Tree) THEN "final_source" ELSE "check")
                   ELSE Fail("changed")
        /\ UNCHANGED <<platform, src, snap, at, data, backend, receipt, seen, faults, meddle>>

(* The second snapshot of the source equals the first. *)
FinalSource ==
    /\ pc = "final_source"
    /\ IF Snapshot = snap THEN Go("final_target") ELSE Fail("changed")
    /\ UNCHANGED <<platform, src, snap, at, data, backend, receipt, seen, faults, meddle>>

Succeeded == Empty("succeeded")

(* The target holds what was published, with the contents of the snapshot. *)
FinalTarget ==
    /\ pc = "final_target"
    /\ seen' = meddle
    /\ IF Matches(created) /\ SameManifest
         THEN /\ Go(IF backend = "cow" THEN "done" ELSE "quarantine")
              /\ receipt' = IF backend = "cow" THEN [receipt EXCEPT ![backend] = Succeeded]
                                               ELSE receipt
         ELSE Fail("changed") /\ UNCHANGED receipt
    /\ UNCHANGED <<platform, src, snap, at, data, backend, faults, meddle>>

(* clear_confirmed_prior_quarantine: trash holds exactly what the rollback of
   the clone reported, each the object that was detached, directories empty. *)
Quarantine ==
    LET confirmed == IF receipt["cow"] = NoReceipt THEN {} ELSE receipt["cow"].removed
    IN  /\ pc = "quarantine"
        /\ \/ /\ In(Trash) = confirmed
              /\ \A q \in confirmed : at[q] = <<Trash, q>> /\ In(q) = {}
              /\ todo' = confirmed /\ pc' = "unlink"
              /\ UNCHANGED <<created, staged, anonymous, failure, left, removed, unconfirmed>>
           \/ /\ ~(/\ In(Trash) = confirmed
                   /\ \A q \in confirmed : at[q] = <<Trash, q>> /\ In(q) = {})
              /\ Fail("changed")
        /\ UNCHANGED <<platform, src, snap, at, data, backend, receipt, seen, faults, meddle>>

(* unlinkat removes what the name leads to, one after the other; a directory
   must be empty, and trash must be empty after the last. *)
Unlink ==
    /\ pc = "unlink"
    /\ \/ \E q \in todo, o \in Objects :
             /\ at[o] = <<Trash, q>> /\ In(o) = {}
             /\ Move(o, Nowhere)
             /\ todo' = todo \ {q}
             /\ UNCHANGED <<pc, created, staged, anonymous, failure, left, removed, unconfirmed,
                            receipt>>
       \/ /\ \E q \in todo : \A o \in Objects : at[o] = <<Trash, q>> => In(o) # {}
          /\ Fail("changed") /\ UNCHANGED <<at, receipt>>
       \/ /\ todo = {} /\ In(Trash) = {}
          /\ receipt' = [receipt EXCEPT ![backend] = Succeeded]
          /\ Go("done") /\ UNCHANGED at
       \/ /\ todo = {} /\ In(Trash) # {}
          /\ Fail("changed") /\ UNCHANGED <<at, receipt>>
    /\ UNCHANGED <<platform, src, snap, data, backend, seen, faults, meddle>>

-----------------------------------------------------------------------------
(* Failure *)

(* Mutant: the record of the staged entry is dropped with the entry still there. *)
Cleanup_Forgets ==
    /\ pc = "cleanup"
    /\ at' = IF staged = "known" THEN [at EXCEPT ![Object] = Nowhere] ELSE at
    /\ staged' = "no" /\ left' = created /\ pc' = "rollback"
    /\ UNCHANGED <<platform, src, snap, data, backend, created, anonymous, failure, removed,
                   unconfirmed, todo, receipt, seen, faults, meddle>>

(* cleanup_active_staging: a staged entry of known identity is unlinked. *)
Cleanup ==
    /\ pc = "cleanup"
    /\ \/ staged = "known" /\ Move(Object, Nowhere) /\ staged' = "no"
       \/ staged # "known" /\ UNCHANGED <<at, staged>>
    /\ left' = created /\ pc' = "rollback"
    /\ UNCHANGED <<platform, src, snap, data, backend, created, anonymous, failure, removed,
                   unconfirmed, todo, receipt, seen, faults, meddle>>

(* Mutant: the set the target is compared with does not shrink. *)
Rollback_Stale ==
    /\ pc = "rollback"
    /\ Go(IF left = 0 \/ ~Matches(created) THEN "restore" ELSE "detach")
    /\ UNCHANGED <<platform, src, snap, at, data, backend, receipt, seen, faults, meddle>>

(* rollback_created, head of the loop: the target still holds exactly what is
   left, and the parent of the last entry is opened. *)
Rollback ==
    /\ pc = "rollback"
    /\ Go(IF left = 0 \/ ~Matches(left) THEN "restore" ELSE "detach")
    /\ UNCHANGED <<platform, src, snap, at, data, backend, receipt, seen, faults, meddle>>

Last == <<backend, Tree[left]>>
Quarantined == <<Trash, Last>>

(* detach_to_trash: whatever the name leads to now is renamed ... *)
Detach ==
    /\ pc = "detach"
    /\ \/ \E o \in Objects : /\ at[o] = Home(backend, Tree[left])
                            /\ Move(o, Quarantined) /\ Go("confirm")
       \/ /\ \A o \in Objects : at[o] # Home(backend, Tree[left])
          /\ Go("restore") /\ UNCHANGED at
    /\ UNCHANGED <<platform, src, snap, data, backend, receipt, seen, faults, meddle>>

(* Mutant: the identity of what was moved is not looked at. *)
Confirm_Blind ==
    /\ pc = "confirm"
    /\ removed' = removed \cup {Last} /\ left' = left - 1 /\ pc' = "rollback"
    /\ UNCHANGED <<platform, src, snap, at, data, backend, created, staged, anonymous, failure,
                   unconfirmed, todo, receipt, seen, faults, meddle>>

(* ... looked at under its new name: it is the entry, and empty ... *)
Confirm ==
    /\ pc = "confirm"
    /\ \/ /\ at[Last] = Quarantined /\ In(Last) = {}
          /\ removed' = removed \cup {Last} /\ left' = left - 1 /\ pc' = "rollback"
          /\ UNCHANGED <<created, staged, anonymous, failure, unconfirmed, todo>>
       \/ ~(at[Last] = Quarantined /\ In(Last) = {}) /\ Go("put_back")
    /\ UNCHANGED <<platform, src, snap, at, data, backend, receipt, seen, faults, meddle>>

(* ... and otherwise put back, unless the name is taken again. *)
PutBack ==
    LET home == Home(backend, Tree[left])
    IN  /\ pc = "put_back"
        /\ \/ \E o \in Objects : /\ at[o] = Quarantined /\ Free(home)
                                /\ Move(o, home) /\ Go("restore")
           \/ /\ ~Free(home) \/ \A o \in Objects : at[o] # Quarantined
              /\ unconfirmed' = unconfirmed \cup {Last} /\ pc' = "restore"
              /\ UNCHANGED <<at, created, staged, anonymous, failure, left, removed, todo>>
        /\ UNCHANGED <<platform, src, snap, data, backend, receipt, seen, faults, meddle>>

(* The receipt of a failed attempt. *)
Failed(status) ==
    [status |-> status, removed |-> removed, unconfirmed |-> unconfirmed,
     remaining |-> Published(left), staging |-> IF staged = "no" THEN {} ELSE {Object}]

(* rollback_created, its end: is the target at its baseline? *)
Restore ==
    /\ pc = "restore"
    /\ receipt' = [receipt EXCEPT ![backend] =
                      Failed(IF created = 0 THEN "not_needed"
                             ELSE IF left = 0 /\ Matches(0) THEN "confirmed" ELSE "incomplete")]
    /\ seen' = meddle /\ Go("report")
    /\ UNCHANGED <<platform, src, snap, at, data, backend, faults, meddle>>

(* receipt_restored_baseline *)
RestoredBaseline(r) ==
    /\ r.staging = {} /\ r.remaining = {} /\ r.unconfirmed = {}
    /\ r.status \in {"confirmed", "not_needed"}

Eligible == backend = "cow" /\ failure = "cow_unavailable" /\ AllowFullCopy

Copy ==
    /\ backend' = "copy" /\ pc' = "begin" /\ created' = 0 /\ staged' = "no"
    /\ anonymous' = FALSE /\ failure' = "none" /\ left' = 0 /\ removed' = {} /\ unconfirmed' = {} /\ todo' = {}

(* for_full_copy_after_cow_unavailable, from the receipt of the clone. *)
Fallback ==
    /\ pc = "report"
    /\ \/ Eligible /\ RestoredBaseline(receipt["cow"]) /\ Copy
       \/ ~(Eligible /\ RestoredBaseline(receipt["cow"])) /\ Go("done") /\ UNCHANGED backend
    /\ UNCHANGED <<platform, src, snap, at, data, receipt, seen, faults, meddle>>

(* What goes wrong from outside: failing calls, users, changes of the source. *)
Trouble == faults + meddle + Cardinality({e \in Entries : src[e] > 0})

(* A system call fails.  An attempt stops; a rollback stops where it is, a
   failing put-back is unconfirmed, and a target whose metadata is not restored
   is not at its baseline. *)
Attempting == {"begin", "check", "create", "register", "fill", "identify", "prepare", "publish",
               "verify", "final_source", "final_target", "quarantine", "unlink"}
Fault ==
    /\ Trouble < MaxTrouble /\ faults' = faults + 1
    /\ \/ pc \in Attempting /\ Fail("fault") /\ UNCHANGED receipt
       \/ pc \in {"rollback", "recheck", "detach"} /\ Go("restore") /\ UNCHANGED receipt
       \/ pc = "confirm" /\ Go("put_back") /\ UNCHANGED receipt
       \/ /\ pc = "put_back" /\ unconfirmed' = unconfirmed \cup {Last} /\ pc' = "restore"
          /\ UNCHANGED <<created, staged, anonymous, failure, left, removed, todo, receipt>>
       \/ /\ pc = "restore" /\ created > 0 /\ Go("report")
          /\ receipt' = [receipt EXCEPT ![backend] = Failed("incomplete")]
    /\ UNCHANGED <<platform, src, snap, at, data, backend, seen, meddle>>

(* A clean-up that fails leaves the staged entry. *)
CleanupFault ==
    /\ pc = "cleanup" /\ staged = "known"
    /\ Trouble < MaxTrouble /\ faults' = faults + 1
    /\ left' = created /\ pc' = "rollback"
    /\ UNCHANGED <<platform, src, snap, at, data, backend, created, staged, anonymous, failure,
                   removed, unconfirmed, todo, receipt, seen, meddle>>

-----------------------------------------------------------------------------
(* Users *)

(* A source entry gets new contents or metadata. *)
ChangeSource(e) ==
    /\ src[e] = 0 /\ src' = [src EXCEPT ![e] = 1]
    /\ UNCHANGED <<platform, snap, at, data, backend, pc, context, receipt, seen, faults, meddle>>

Staged(o) == at[o] \in Places /\ at[o][1] = Staging
Touch == meddle' = meddle + 1

(* Directories users work in; one made by the tool only once it is published. *)
Open(c) == c \in {Target, Trash} \/ (c \in MadeDirs /\ at[c] # Nowhere /\ ~Staged(c))

(* A file or a directory goes to a free name, or out of all these directories.
   A user's own file may take the name of an entry, a copy gets another one. *)
UserMove(o, place) ==
    /\ Touch /\ ~Staged(o)
    /\ at[o] = Nowhere => o \in UserFiles
    /\ at[o] # place
    /\ \/ place = Away
       \/ /\ place # Away /\ Open(place[1]) /\ Free(place)
          /\ o \in Made => place[2] = <<"name", "extra">>
          /\ o \in MadeDirs => place[1] \in Roots
    /\ Move(o, place)
    /\ UNCHANGED <<platform, src, snap, data, backend, pc, context, receipt, seen, faults>>

UserDelete(o) ==
    /\ Touch /\ at[o] # Nowhere /\ ~Staged(o) /\ In(o) = {}
    /\ Move(o, Nowhere)
    /\ UNCHANGED <<platform, src, snap, data, backend, pc, context, receipt, seen, faults>>

UserEdit(o) ==
    /\ Touch /\ at[o] # Nowhere /\ ~Staged(o) /\ data[o] # Edited
    /\ data' = [data EXCEPT ![o] = Edited]
    /\ UNCHANGED <<platform, src, snap, at, backend, pc, context, receipt, seen, faults>>

UserPlaces == {Away} \cup Containers \X UserNames

User ==
    /\ pc # "done" /\ Trouble < MaxTrouble
    /\ \/ \E e \in Entries : ChangeSource(e)
       \/ \E o \in Objects, place \in UserPlaces : UserMove(o, place)
       \/ \E o \in Made : UserDelete(o) \/ UserEdit(o)

(* The steps on Linux. *)
LinuxTool ==
    /\ platform = "linux"
    /\ \/ Begin \/ Check \/ Create \/ Identify \/ Prepare \/ Publish \/ Verify
       \/ FinalSource \/ FinalTarget \/ Quarantine \/ Unlink
       \/ Cleanup \/ Rollback \/ Detach \/ Confirm \/ PutBack \/ Restore \/ Fallback
       \/ CleanupFault \/ Fault

Done == pc = "done" /\ UNCHANGED vars

-----------------------------------------------------------------------------
(* Properties *)

Succeeds == pc = "done" /\ receipt[backend].status = "succeeded"

(* A success that no user action follows means that the target holds the
   snapshot and nothing else, object by object and with its contents, that
   nothing is left in staging, and in trash at most, on macOS, what the receipt
   of the clone before it lists as detached (materialize_with_hook,
   materialize_inner, clear_confirmed_prior_quarantine). *)
SuccessIsExact ==
    Succeeds /\ seen = meddle =>
        /\ Matches(Len(Tree))
        /\ SameManifest
        /\ In(Staging) = {}
        /\ In(Trash) \cap Made \subseteq (IF platform = "linux" THEN {} ELSE receipt["cow"].removed)

Reported(b) ==
    IF receipt[b] = NoReceipt THEN {}
    ELSE receipt[b].removed \cup receipt[b].unconfirmed \cup receipt[b].remaining
         \cup receipt[b].staging

(* Whatever users did, a failure reports every object it made that still exists,
   the ones of the clone before it included: the operator who cleans up by
   hand needs the list to be complete (rollback_created, with_unconfirmed_staging). *)
NothingUnreported ==
    pc = "done" /\ ~Succeeds =>
        \A o \in Made : at[o] # Nowhere => o \in Reported(o[1])

(* Where users stay out of target and trash, each object is where the receipts
   say: detached ones in trash, remaining ones in place, staged ones in staging,
   and what no receipt lists is gone (rollback_created, detach_to_trash). *)
ReportIsExact ==
    pc = "done" /\ ~Succeeds /\ meddle = 0 =>
        \A o \in Made :
            LET r == receipt[o[1]]
            IN  IF r = NoReceipt THEN at[o] = Nowhere
                ELSE /\ o \in r.removed =>
                            at[o] = <<Trash, o>> \/ (o[1] # backend /\ at[o] = Nowhere)
                     /\ o \in r.unconfirmed => at[o] = <<Trash, o>>
                     /\ o \in r.remaining \ r.unconfirmed => at[o] = Home(o[1], o[2])
                     /\ o \in r.staging => at[o] = <<Staging, o>>
                     /\ o \notin Reported(o[1]) => at[o] = Nowhere

(* No step of the tool removes a user's file, whatever name it is under
   (renames replace nothing, only confirmed objects are unlinked). *)
StraysSurvive ==
    [][\A u \in UserFiles : at[u] # Nowhere => at'[u] # Nowhere]_vars

(* A user's file that a rollback moved into trash by mistake is put back or
   reported as unconfirmed (detach_to_trash). *)
StraysAreReported ==
    \A u \in UserFiles, q \in Made :
        at[u] = <<Trash, q>> =>
            \/ pc \in {"confirm", "put_back"} /\ q = Last
            \/ q \in unconfirmed
            \/ receipt[q[1]] # NoReceipt /\ q \in receipt[q[1]].unconfirmed

(* An attempt that fails once, by itself or because the source changes, leaves the
   target empty when users stay out of it: entries leave in the reverse of the
   order they came, so no directory is taken with something in it.  The one
   exception is a file that macOS made in the target and could not identify: it
   stays, with all that was published before it, and the receipt says so
   (rollback_created, register_created). *)
RollbackRestores ==
    /\ pc = "report" /\ meddle = 0
    /\ faults = (IF failure = "fault" THEN 1 ELSE 0)
    => LET r == receipt[backend]
       IN  /\ In(Staging) = r.staging /\ In(Target) \subseteq r.remaining
           /\ r.status = "incomplete" <=> anonymous
           /\ r.remaining = IF anonymous THEN Published(created) ELSE {}

(* Undisturbed, the tool succeeds, by copying if the clone is unavailable and the
   user allowed it: what the clone left in trash is no obstacle to the copy
   (for_full_copy_after_cow_unavailable, clear_confirmed_prior_quarantine). *)
QuietRunsSucceed ==
    /\ pc = "done" /\ meddle = 0 /\ faults = 0 /\ \A e \in Entries : src[e] = 0
    => Succeeds \/ (failure = "cow_unavailable" /\ ~AllowFullCopy)

(* What create does after a success: staging and trash are removed as the empty
   directories they have to be (clear_workspace_incomplete, both platforms).
   Where nobody else put anything there, they are empty. *)
ClearableAfterSuccess == Succeeds /\ meddle = 0 => In(Staging) = {} /\ In(Trash) = {}
=============================================================================
