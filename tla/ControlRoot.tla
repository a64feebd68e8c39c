---------------------------- MODULE ControlRoot ----------------------------
(***************************************************************************)
(* The fixed private control directory of one installation, as the        *)
(* bootstrap code of both platform adapters sees it: named entries with an *)
(* inode, a private or unsafe mode, and a decoded document.  The directory *)
(* operations of lock.rs, control.rs, layout.rs and publication.rs (Linux) *)
(* and of filesystem.rs and store.rs (macOS) are operators on that state.  *)
(***************************************************************************)
EXTENDS Naturals, FiniteSets

\* Entries under the control root (and the root itself).
Names == {"root", "lock", "marker", "config", "metadata", "logs", "db"}

\* A document is a tag and the instance it names; 0 names none.
NoDoc == <<"none", 0>>
EmptyDatabase == <<"empty", 0>>
Foreign == <<"foreign", 0>>
Marker(state, id) == <<state, id>>
ConfigDoc(id) == <<"config", id>>
Database(id) == <<"db", id>>

Absent == [kind |-> "none", ino |-> 0, safe |-> TRUE, doc |-> NoDoc]
NewDirectory(i) == [kind |-> "dir", ino |-> i, safe |-> TRUE, doc |-> NoDoc]
NewFile(i, doc) == [kind |-> "file", ino |-> i, safe |-> TRUE, doc |-> doc]

\* open_private_directory_optional: every component opened without following
\* links, the last one owned, of mode 0700 and with a known birth time.
PrivateDirectory(n) == n.kind = "dir" /\ n.safe

\* revalidate_private_directory: the path still leads to the held directory.
RevalidatePrivateDirectory(n, held) == PrivateDirectory(n) /\ n.ino = held

\* validate_private_file: a held regular file of mode 0600 with one link, still
\* under its name.
PrivateFileFactsMatch(n, held) == n.kind = "file" /\ n.safe /\ n.ino = held

\* read_private_document: a missing entry is None (NoDoc); anything but a private
\* regular file that stays put during the read is an error.
ReadableDocument(n) == n.kind = "none" \/ PrivateFileFactsMatch(n, n.ino)

\* The macOS counterparts.
MacPrivateDirectory(n) == n.kind = "dir" /\ n.safe
MacRevalidateDirectory(n, held) == MacPrivateDirectory(n) /\ n.ino = held
MacValidateFileEntry(n, held) == n.kind = "file" /\ n.safe /\ n.ino = held
MacReadableDocument(n) == n.kind = "none" \/ MacValidateFileEntry(n, n.ino)

\* decode_config and decode_marker: only a document of that kind and of a known
\* state decodes.
DecodesAsConfig(doc) == doc[1] = "config"
DecodesAsMarker(doc) == doc[1] \in {"initializing", "ready"}

\* require_unclaimed_control_root: nothing but a private lifecycle lock.  The
\* listing also meets the temporary names that other processes staged.
UnclaimedControlRoot(node, temps) ==
  IF \/ \E n \in Names \ {"root", "lock"} : node[n].kind # "none"
     \/ \E t \in temps : t.kind # "none" THEN "NotEmpty"
  ELSE IF node["lock"].kind # "none" /\ ~PrivateFileFactsMatch(node["lock"], node["lock"].ino) THEN "InvalidLayout"
  ELSE IF ~PrivateDirectory(node["root"]) THEN "InvalidLayout"
  ELSE "ok"

\* macOS lists the same names without looking at the lock's metadata.
MacUnclaimedControlRoot(node, temps) ==
  IF \/ \E n \in Names \ {"root", "lock"} : node[n].kind # "none"
     \/ \E t \in temps : t.kind # "none" THEN "NotEmpty"
  ELSE IF ~MacPrivateDirectory(node["root"]) THEN "InvalidData"
  ELSE "ok"

\* control_filesystem_identity: ext4 or btrfs with a known volume and mount, and
\* a path that still leads to the held directory.
ControlFilesystemIdentity(node, verified) ==
  IF ~PrivateDirectory(node["root"]) THEN "InvalidLayout"
  ELSE IF ~verified THEN "CapabilityUnavailable" ELSE "ok"

\* volume_id_for_directory: APFS with a readable volume UUID.
MacVolumeId(verified) == IF verified THEN "ok" ELSE "CapabilityUnavailable"

\* The inode numbers a validated layout holds open.
HeldLayout(node) ==
  [metadata |-> node["metadata"].ino, logs |-> node["logs"].ino, db |-> node["db"].ino]

\* open_child and revalidate_child.
ChildHolds(node, name, held) == RevalidatePrivateDirectory(node[name], held)

\* open_database_file and validate_database_file.
DatabaseFileHolds(node, held) ==
  PrivateDirectory(node["metadata"]) /\ PrivateFileFactsMatch(node["db"], held)

\* LinuxDataRootLayout::revalidate.
LayoutRevalidate(node, held, verified) ==
  IF ControlFilesystemIdentity(node, verified) # "ok" THEN ControlFilesystemIdentity(node, verified)
  ELSE IF /\ ChildHolds(node, "metadata", held.metadata) /\ ChildHolds(node, "logs", held.logs)
          /\ DatabaseFileHolds(node, held.db) THEN "ok"
  ELSE "InvalidLayout"

\* validate_layout: open everything, then revalidate what was opened.
LinuxValidateLayout(node, verified) ==
  IF node["root"].kind = "none" THEN "Unavailable"
  ELSE LayoutRevalidate(node, HeldLayout(node), verified)

\* MacOsDataRootLayout::revalidate: a changed entry and a lost capability are
\* both a changed layout (classify_layout_revalidation).
MacLayoutRevalidate(node, held, verified) ==
  IF /\ MacPrivateDirectory(node["root"]) /\ MacVolumeId(verified) = "ok"
     /\ MacRevalidateDirectory(node["metadata"], held.metadata)
     /\ MacRevalidateDirectory(node["logs"], held.logs)
     /\ MacValidateFileEntry(node["db"], held.db) THEN "ok"
  ELSE "InvalidLayout"

\* MacOsHostAdapter::validate_layout.
MacValidateLayout(node, verified) ==
  IF node["root"].kind = "none" THEN "Unavailable"
  ELSE IF MacVolumeId(verified) # "ok" THEN MacVolumeId(verified)
  ELSE IF ~(MacPrivateDirectory(node["metadata"]) /\ MacPrivateDirectory(node["logs"])
            /\ MacValidateFileEntry(node["db"], node["db"].ino)) THEN "InvalidData"
  ELSE MacLayoutRevalidate(node, HeldLayout(node), verified)

=============================================================================
