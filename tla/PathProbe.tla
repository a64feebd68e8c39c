----------------------------- MODULE PathProbe -----------------------------
(***************************************************************************)
(* What the platform probes report of a path and of the four paths of a     *)
(* materialization (probe.rs of the Linux and of the macOS adapter).        *)
(* A directory is its identity (device and inode), a path the sequence of   *)
(* its names below "/", and the file system a world: which directory each   *)
(* name leads to, and what the kernel says of volumes, mounts and access.   *)
(* A second name of a directory is a bind mount on Linux, seen in the mount *)
(* id, and an alias the mount cannot tell on macOS.                         *)
(***************************************************************************)
EXTENDS Naturals, Sequences

SupportStates == {"Supported", "Unsupported", "Unknown"}
Absent == "absent"        \* a name that leads nowhere
Occupied == "file"        \* a name taken by something that is no directory
RootDir == "root"
AliasName == "a"          \* the name a second mount or an alias sits on

\* The world's links are the names that lead somewhere, from (directory, name).
Lookup(world, dir, name) ==
  IF <<dir, name>> \in DOMAIN world.link THEN world.link[<<dir, name>>] ELSE Absent

VolumeOf(world, dir) == IF dir \in world.onB THEN "B" ELSE "A"

\* The names below "/" that are followed without links, as far as they lead.
Walk(world, path) ==
  LET reached[i \in 0 .. Len(path)] ==
        IF i = 0 THEN <<RootDir>>
        ELSE LET above == reached[i - 1]
                 next == Lookup(world, above[Len(above)], path[i])
             IN IF Len(above) < i \/ next \in {Absent, Occupied} THEN above
                ELSE Append(above, next)
  IN reached[Len(path)]

EndOf(ancestry) == ancestry[Len(ancestry)]

\* ENOTDIR on the last name is an occupied leaf, on an earlier one no layout.
WalkError(world, path) ==
  LET ancestry == Walk(world, path) IN
  IF Len(ancestry) > Len(path) THEN "none"
  ELSE IF Lookup(world, EndOf(ancestry), path[Len(ancestry)]) # Occupied THEN "none"
  ELSE IF Len(ancestry) = Len(path) THEN "NotEmpty" ELSE "InvalidLayout"

TypeNameOf(platform, world, dir) ==
  IF VolumeOf(world, dir) # "A" THEN "cow"
  ELSE IF platform = "macos" /\ world.fs = "unknown" THEN "other" ELSE world.fs

VolumeIdOf(platform, world, dir) ==
  IF \/ VolumeOf(world, dir) = "A" /\ ~world.ids
     \/ platform = "linux" /\ TypeNameOf(platform, world, dir) = "unknown"
  THEN "unknown" ELSE VolumeOf(world, dir)

MountIdOf(platform, world, path, ancestry) ==
  CASE platform = "macos" -> "none"
    [] platform = "linux" /\ ~world.mountIds -> "unknown"
    [] OTHER -> IF Len(ancestry) > 1 /\ path[1] = AliasName
                THEN "alias" ELSE VolumeOf(world, EndOf(ancestry))

\* On Linux a reflink is only known to work when it has been tried.
CowCloneOf(platform, world, dir) ==
  CASE TypeNameOf(platform, world, dir) = "other" -> "Unsupported"
    [] platform = "linux" \/ VolumeIdOf(platform, world, dir) = "unknown" -> "Unknown"
    [] OTHER -> IF VolumeOf(world, dir) = "A" THEN world.clone ELSE "Supported"

\* inspect_path: the facts are those of the nearest existing ancestor.
InspectPath(platform, world, path) ==
  LET ancestry == Walk(world, path)
      dir == EndOf(ancestry)
  IN [path     |-> path,
      error    |-> WalkError(world, path),
      ancestry |-> ancestry,
      existing |-> Len(ancestry) > Len(path),
      fs       |-> TypeNameOf(platform, world, dir),
      volume   |-> VolumeIdOf(platform, world, dir),
      mount    |-> MountIdOf(platform, world, path, ancestry),
      read     |-> world.read,
      write    |-> world.write,
      cow      |-> CowCloneOf(platform, world, dir)]

Roles == {"source", "target", "staging", "trash"}
Identities(report) == {report.ancestry[i] : i \in DOMAIN report.ancestry}
LeafOf(report) == EndOf(report.ancestry)

Contains(parent, child) ==
  Len(parent) <= Len(child) /\ SubSeq(child, 1, Len(parent)) = parent

PathsOverlap(left, right) == Contains(left, right) \/ Contains(right, left)

\* overlap and roots_overlap: by spelling, or an existing leaf on the other's way.
RootsOverlap_Mutant(left, right) == PathsOverlap(left.path, right.path)

RootsOverlap(left, right) ==
  \/ PathsOverlap(left.path, right.path)
  \/ left.existing /\ LeafOf(left) \in Identities(right)
  \/ right.existing /\ LeafOf(right) \in Identities(left)

\* The reasons of the checks both candidates and both platforms share.
CommonUnsupported(r) ==
  {why \in {"source_missing", "roots_overlap", "source_read", "target_write"} :
     CASE why = "source_missing" -> ~r["source"].existing
       [] why = "roots_overlap" ->
            \E i, j \in Roles : i # j /\ RootsOverlap(r[i], r[j])
       [] why = "source_read" -> r["source"].read = "Unsupported"
       [] why = "target_write" ->
            \E role \in Roles \ {"source"} : r[role].write = "Unsupported"}

CommonUnknown(r) ==
  {why \in {"not_yet_created", "source_read", "target_write"} :
     CASE why = "not_yet_created" -> ~r["staging"].existing \/ ~r["trash"].existing
       [] why = "source_read" -> r["source"].read = "Unknown"
       [] why = "target_write" ->
            \E role \in Roles \ {"source"} : r[role].write = "Unknown"}

CloneReasons(r, state) ==
  {"clone_capability" : role \in {x \in Roles : r[x].cow = state}}

\* What Linux asks of the four paths for a reflink and for a copy alike.
BtrfsUnsupported(r) ==
  {why \in {"non_btrfs_path", "different_mount", "different_volume"} :
     \E role \in Roles :
       CASE why = "non_btrfs_path" -> r[role].fs = "other"
         [] why = "different_mount" ->
              "unknown" \notin {r[role].mount, r["source"].mount}
                /\ r[role].mount # r["source"].mount
         [] why = "different_volume" ->
              "unknown" \notin {r[role].volume, r["source"].volume}
                /\ r[role].volume # r["source"].volume}

BtrfsUnknown(r) ==
  {why \in {"filesystem_unknown", "mount_unknown", "volume_unknown"} :
     \E role \in Roles :
       CASE why = "filesystem_unknown" -> r[role].fs = "unknown"
         [] why = "mount_unknown" -> r[role].mount = "unknown"
         [] why = "volume_unknown" -> r[role].volume = "unknown"}

\* combined_clone_support of macOS, beyond what both candidates share.
ApfsUnsupported(r) ==
  {why \in {"non_apfs_path", "different_volume"} :
     CASE why = "non_apfs_path" -> \E role \in Roles : r[role].fs # "cow"
       [] why = "different_volume" ->
            \E i, j \in Roles : /\ "unknown" \notin {r[i].volume, r[j].volume}
                                /\ r[i].volume # r[j].volume}

ApfsUnknown(r) == {"volume_unknown" : role \in {x \in Roles : r[x].volume = "unknown"}}

\* One unsupported reason settles it, then one unknown reason (finish).
Finish(unsupported, unknown) ==
  [state |-> IF unsupported # {} THEN "Unsupported"
             ELSE IF unknown # {} THEN "Unknown" ELSE "Supported",
   unsupported |-> unsupported, unknown |-> unknown]

CowCandidate(platform, r) ==
  Finish(CommonUnsupported(r) \cup CloneReasons(r, "Unsupported")
           \cup (IF platform = "linux" THEN BtrfsUnsupported(r) ELSE ApfsUnsupported(r)),
         CommonUnknown(r) \cup CloneReasons(r, "Unknown")
           \cup (IF platform = "linux" THEN BtrfsUnknown(r) ELSE ApfsUnknown(r)))

FullCopyCandidate(platform, r) ==
  Finish(CommonUnsupported(r) \cup (IF platform = "linux" THEN BtrfsUnsupported(r) ELSE {}),
         CommonUnknown(r) \cup (IF platform = "linux" THEN BtrfsUnknown(r) ELSE {}))

\* digest, digest_bytes and probe_digest: a hash over every fact of the four
\* reports and the two candidates, length-prefixed, so that it tells them apart.
DigestedFacts(report) ==
  <<report.path, report.existing, report.ancestry, report.fs, report.volume, report.mount,
    report.read, report.write, report.cow>>

EvidenceDigest(platform, r) ==
  <<[role \in Roles |-> DigestedFacts(r[role])],
    CowCandidate(platform, r), FullCopyCandidate(platform, r)>>

\* inspect_materialization_paths: the first path that cannot be walked answers.
ProbeError(r) ==
  LET order == <<"source", "target", "staging", "trash">>
      failed == {i \in 1 .. 4 : r[order[i]].error # "none"}
  IN IF failed = {} THEN "none" ELSE r[order[CHOOSE i \in failed : \A j \in failed : i <= j]].error
=============================================================================
