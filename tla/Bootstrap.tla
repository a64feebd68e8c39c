----------------------------- MODULE Bootstrap -----------------------------
(***************************************************************************)
(* `thinws init` and `thinws doctor`.  Every process runs one of the two   *)
(* use cases of ThinWorkspaceService over one control root, through the    *)
(* Linux or the macOS adapter.  A process may be killed between any two    *)
(* system calls, a call may fail, and the user may delete, replace, chmod  *)
(* or edit an entry at any moment.                                         *)
(***************************************************************************)
EXTENDS ControlRoot

CONSTANTS Procs,       \* processes, one use case each; also the instance IDs
          Doctors,     \* the processes that run doctor, the others run init
          MaxTampers,  \* interferences of the user
          MaxTrouble   \* kills, failing calls and interferences together

ASSUME BootstrapAssumption ==
  /\ Procs \subseteq Nat \ {0} /\ Doctors \subseteq Procs
  /\ MaxTampers \in Nat /\ MaxTrouble \in Nat

VARIABLES
  platform,    \* which adapter the binary was built with
  fsVerified,  \* ext4 or btrfs with known identity (Linux), APFS (macOS)
  node,        \* the entries of the control root
  tmp,         \* the temporary entry each process staged in it
  nextIno,     \* fresh inode number
  pc, mem, out,
  touched,     \* history: the entries the user interfered with
  kills, faults

vars == <<platform, fsVerified, node, tmp, nextIno, pc, mem, out, touched, kills, faults>>
fsys == <<node, tmp, nextIno>>
environment == <<platform, fsVerified, touched, kills, faults>>

\* What a process holds: descriptors (inode numbers), the flock, whether its
\* PrivateTemp is still active, and the identity read from the config.
NoMem == [root |-> 0, lock |-> 0, held |-> FALSE, active |-> FALSE, tmp |-> 0,
          marker |-> 0, layout |-> [metadata |-> 0, logs |-> 0, db |-> 0], id |-> 0]
NoOut == [code |-> "none", id |-> 0]

Init ==
  /\ platform \in {"linux", "macos"} /\ fsVerified \in BOOLEAN
  /\ node = [n \in Names |-> Absent] /\ tmp = [p \in Procs |-> Absent]
  /\ nextIno = 1
  /\ pc = [p \in Procs |-> "idle"] /\ mem = [p \in Procs |-> NoMem]
  /\ out = [p \in Procs |-> NoOut]
  /\ touched = {} /\ kills = 0 /\ faults = 0

linux == platform = "linux"
macos == platform = "macos"

(***************************************************************************)
(* map_port: a port error kind and the stage that met it give the code.    *)
(***************************************************************************)
MapPort(stage, kind) ==
  CASE kind = "Timeout" -> "LockTimeout"
    [] kind = "CapabilityUnavailable" -> "CapabilityUnavailable"
    [] kind = "NotEmpty" /\ stage = "Control" -> "ControlNotEmpty"
    [] kind = "Unavailable" -> "ControlUnavailable"
    [] kind = "Io" -> "Filesystem"
    [] stage = "Metadata" -> "Metadata"
    [] OTHER -> "ControlLayout"

\* The kind with which each adapter reports an entry that is not what it was.
ChangedKind == IF linux THEN "InvalidLayout" ELSE "InvalidData"
Ok(condition) == IF condition THEN "ok" ELSE ChangedKind
\* The first check of a function that fails decides its error.
First(checks) ==
  LET failed == {i \in DOMAIN checks : checks[i] # "ok"}
  IN  IF failed = {} THEN "ok" ELSE checks[CHOOSE i \in failed : \A j \in failed : i <= j]

Goto(p, l) == pc' = [pc EXCEPT ![p] = l] /\ UNCHANGED out

\* A return closes every descriptor and drops the guards: the flock, and a
\* PrivateTemp that is still active is unlinked by its Drop.
DropGuards(p, m) ==
  /\ mem' = [mem EXCEPT ![p] = NoMem]
  /\ tmp' = IF m.active THEN [tmp EXCEPT ![p] = Absent] ELSE tmp

Return(p, code, id) ==
  /\ pc' = [pc EXCEPT ![p] = "done"]
  /\ out' = [out EXCEPT ![p] = [code |-> code, id |-> id]]

FailWith(p, code) == Return(p, code, 0) /\ DropGuards(p, mem[p])
Fail(p, stage, kind) == FailWith(p, MapPort(stage, kind)) /\ UNCHANGED <<node, nextIno>>
Succeed(p, code, id) == Return(p, code, id) /\ DropGuards(p, mem[p]) /\ UNCHANGED <<node, nextIno>>

\* The same with the staged entry removed by hand first.
CleanupAndFail(p, kind) ==
  /\ Return(p, MapPort("Control", kind), 0) /\ DropGuards(p, [mem[p] EXCEPT !.active = TRUE])
  /\ UNCHANGED nextIno

At(p, l) == pc[p] = l /\ UNCHANGED environment

\* A step that only checks: it goes on or returns the error it met.
Check(p, verdict, stage, next) ==
  IF verdict = "ok" THEN Goto(p, next) /\ UNCHANGED <<fsys, mem>> ELSE Fail(p, stage, verdict)

(***************************************************************************)
(* prepare_bootstrap: open every component, make a missing one.  Linux     *)
(* tolerates losing the mkdir race, macOS reports it.                      *)
(***************************************************************************)
Begin(p) ==
  /\ At(p, "idle")
  /\ Goto(p, IF p \in Doctors THEN "config" ELSE "prepare") /\ UNCHANGED <<fsys, mem>>

PrepareOpen(p) ==
  /\ At(p, "prepare")
  /\ IF node["root"].kind = "none"
       THEN Goto(p, "mkroot") /\ UNCHANGED <<fsys, mem>>
       ELSE Check(p, Ok(PrivateDirectory(node["root"])), "Control", "lockopen")

MakeRoot ==
  /\ node' = [node EXCEPT !["root"] = NewDirectory(nextIno)]
  /\ nextIno' = nextIno + 1 /\ UNCHANGED tmp

LinuxPrepareMkdir_Mutant(p) == linux /\ At(p, "mkroot") /\ Goto(p, "prepare") /\ UNCHANGED <<fsys, mem>>

LinuxPrepareMkdir(p) ==
  /\ linux /\ At(p, "mkroot")
  /\ Goto(p, "prepare") /\ UNCHANGED mem
  /\ IF node["root"].kind = "none" THEN MakeRoot ELSE UNCHANGED fsys

MacPrepareMkdir(p) ==
  /\ macos /\ At(p, "mkroot")
  /\ IF node["root"].kind = "none"
       THEN MakeRoot /\ Goto(p, "prepare") /\ UNCHANGED mem
       ELSE Fail(p, "Control", "Io")

(***************************************************************************)
(* acquire_bootstrap: open or create lifecycle.lock, poll the flock of     *)
(* that inode until the deadline, then check that the name still leads to  *)
(* the inode that is locked.                                               *)
(***************************************************************************)
LockOpen(p) ==
  /\ At(p, "lockopen")
  /\ LET new == node["lock"].kind = "none"
         i == IF new THEN nextIno ELSE node["lock"].ino IN
     IF ~PrivateDirectory(node["root"]) \/ (~new /\ ~PrivateFileFactsMatch(node["lock"], i))
       THEN Fail(p, "Control", ChangedKind)
       ELSE /\ node' = IF new THEN [node EXCEPT !["lock"] = NewFile(i, NoDoc)] ELSE node
            /\ nextIno' = IF new THEN nextIno + 1 ELSE nextIno
            /\ mem' = [mem EXCEPT ![p].lock = i, ![p].root = node["root"].ino]
            /\ Goto(p, "flock") /\ UNCHANGED tmp

FlockHolder(i) == {q \in Procs : mem[q].held /\ mem[q].lock = i}

Flock_Mutant(p) ==
  /\ At(p, "flock")
  /\ mem' = [mem EXCEPT ![p].held = TRUE] /\ Goto(p, "locked") /\ UNCHANGED fsys

Flock(p) ==
  /\ At(p, "flock") /\ FlockHolder(mem[p].lock) = {}
  /\ mem' = [mem EXCEPT ![p].held = TRUE] /\ Goto(p, "locked") /\ UNCHANGED fsys

\* Contended until the deadline.
FlockTimeout(p) ==
  /\ At(p, "flock") /\ FlockHolder(mem[p].lock) # {}
  /\ Fail(p, "Control", "Timeout")

\* LinuxLockGuard::revalidate through validate_bootstrap_lock.
LinuxLockHolds(p) ==
  Ok(/\ RevalidatePrivateDirectory(node["root"], mem[p].root)
     /\ PrivateFileFactsMatch(node["lock"], mem[p].lock))

\* MacOsLockGuard::revalidate through validate_bootstrap_lock.
MacLockHolds(p) ==
  Ok(/\ MacRevalidateDirectory(node["root"], mem[p].root)
     /\ MacValidateFileEntry(node["lock"], mem[p].lock))

LockHolds(p) == IF linux THEN LinuxLockHolds(p) ELSE MacLockHolds(p)

LockAcquired(p) == At(p, "locked") /\ Check(p, LockHolds(p), "Control", "config")

(***************************************************************************)
(* read_config, then lock.revalidate for init; doctor holds no lock.       *)
(***************************************************************************)
Readable(n) == IF linux THEN ReadableDocument(n) ELSE MacReadableDocument(n)

ReadConfig_Mutant(p) ==
  /\ At(p, "config")
  /\ IF p \notin Doctors THEN Goto(p, "dataroot") /\ UNCHANGED <<fsys, mem>>
     ELSE IF node["marker"].kind = "none"
       THEN FailWith(p, "NotInitialized") /\ UNCHANGED <<node, nextIno>>
       ELSE mem' = [mem EXCEPT ![p].id = node["marker"].doc[2]] /\ Goto(p, "layout") /\ UNCHANGED fsys

ReadConfig(p) ==
  /\ At(p, "config")
  /\ LET n == node["config"]
         isDoctor == p \in Doctors
         verdict == First(<<Ok(node["root"].kind = "none" \/ PrivateDirectory(node["root"])),
                            Ok(Readable(n) /\ (n.kind # "none" => DecodesAsConfig(n.doc))),
                            IF isDoctor THEN "ok" ELSE LockHolds(p)>>) IN
     IF verdict # "ok" THEN Fail(p, "Control", verdict)
     ELSE IF n.kind # "none"
       THEN mem' = [mem EXCEPT ![p].id = n.doc[2]] /\ Goto(p, "layout") /\ UNCHANGED fsys
     ELSE IF isDoctor
       THEN FailWith(p, "NotInitialized") /\ UNCHANGED <<node, nextIno>>
     ELSE Goto(p, "dataroot") /\ UNCHANGED <<fsys, mem>>

(***************************************************************************)
(* inspect_existing: layout, marker, database, layout, marker.             *)
(***************************************************************************)
ValidateLayout(p) ==
  /\ At(p, "layout")
  /\ LET verdict == IF linux THEN LinuxValidateLayout(node, fsVerified) ELSE MacValidateLayout(node, fsVerified) IN
     IF verdict = "ok"
       THEN mem' = [mem EXCEPT ![p].layout = HeldLayout(node)] /\ Goto(p, "marker1") /\ UNCHANGED fsys
       ELSE Fail(p, "Control", verdict)

LayoutHolds(p) == IF linux THEN LayoutRevalidate(node, mem[p].layout, fsVerified)
                           ELSE MacLayoutRevalidate(node, mem[p].layout, fsVerified)

\* read_root_marker and the comparison of require_ready_marker.
ReadyMarkerNames(id) ==
  Ok(/\ node["marker"].kind # "none" /\ Readable(node["marker"]) /\ DecodesAsMarker(node["marker"].doc)
     /\ node["marker"].doc = Marker("ready", id))

RequireReadyMarker(p) ==
  \/ At(p, "marker1") /\ Check(p, ReadyMarkerNames(mem[p].id), "Control", "inspect")
  \/ /\ At(p, "marker2")
     /\ IF ReadyMarkerNames(mem[p].id) = "ok"
          THEN Succeed(p, IF p \in Doctors THEN "DoctorOk" ELSE "AlreadyInitialized", mem[p].id)
          ELSE Fail(p, "Control", ChangedKind)

\* validate_existing_database: application ID, schema version and catalog (an
\* empty or foreign file has none of them), then the identity.
ValidateExistingDatabase(id) ==
  IF node["db"].doc[1] # "db" THEN "UnsupportedVersion"
  ELSE IF node["db"].doc # Database(id) THEN "Conflict" ELSE "ok"

\* SqliteMetadataStoreFactory::inspect: a read-only snapshot between two
\* revalidations of the layout.
InspectDatabase(p) ==
  At(p, "inspect") /\ Check(p, First(<<LayoutHolds(p), ValidateExistingDatabase(mem[p].id)>>), "Metadata", "revalidate")

InspectExisting(p) == At(p, "revalidate") /\ Check(p, LayoutHolds(p), "Control", "marker2")

(***************************************************************************)
(* prepare_data_root and create_initializing.                              *)
(***************************************************************************)
OthersTemps(p) == {tmp[q] : q \in Procs \ {p}}

LinuxPrepareDataRoot(p) ==
  First(<<UnclaimedControlRoot(node, OthersTemps(p)), ControlFilesystemIdentity(node, fsVerified)>>)
MacPrepareDataRoot(p) ==
  First(<<MacUnclaimedControlRoot(node, OthersTemps(p)), MacVolumeId(fsVerified)>>)

PrepareDataRoot_Mutant(p) ==
  /\ At(p, "dataroot")
  /\ tmp' = [q \in Procs |-> Absent]
  /\ Goto(p, "claim") /\ UNCHANGED <<node, nextIno, mem>>

PrepareDataRoot(p) ==
  At(p, "dataroot") /\ Check(p, IF linux THEN LinuxPrepareDataRoot(p) ELSE MacPrepareDataRoot(p), "Control", "claim")

\* PrivateTemp::create: an exclusive private file, written and synced.
StageTemp(p, doc) ==
  /\ tmp' = [tmp EXCEPT ![p] = NewFile(nextIno, doc)] /\ nextIno' = nextIno + 1
  /\ mem' = [mem EXCEPT ![p].tmp = nextIno, ![p].active = TRUE] /\ UNCHANGED node

\* What create_initializing checks before it stages the marker.
LinuxCreateInitializing(p) ==
  First(<<LinuxLockHolds(p), ControlFilesystemIdentity(node, fsVerified), UnclaimedControlRoot(node, OthersTemps(p))>>)
MacCreateInitializing(p) ==
  First(<<MacLockHolds(p), MacVolumeId(fsVerified), MacUnclaimedControlRoot(node, OthersTemps(p))>>)

CreateInitializing(p) ==
  At(p, "claim") /\ Check(p, IF linux THEN LinuxCreateInitializing(p) ELSE MacCreateInitializing(p), "Control", "marktmp")

StageMarker(p) ==
  /\ At(p, "marktmp")
  /\ IF RevalidatePrivateDirectory(node["root"], mem[p].root) \/ macos
       THEN StageTemp(p, Marker("initializing", p)) /\ Goto(p, "markpub")
       ELSE Fail(p, "Control", "InvalidLayout")

\* publish_noreplace: the name must be free; the temp is no longer active.
PublishNoReplace(p, name, m) ==
  /\ node' = [node EXCEPT ![name] = tmp[p]] /\ tmp' = [tmp EXCEPT ![p] = Absent]
  /\ mem' = [mem EXCEPT ![p] = [m EXCEPT !.active = FALSE]] /\ UNCHANGED nextIno

PublishMarker(p) ==
  /\ At(p, "markpub")
  /\ IF node["marker"].kind # "none" THEN Fail(p, "Control", "Conflict")
     ELSE PublishNoReplace(p, "marker", [mem[p] EXCEPT !.marker = mem[p].tmp]) /\ Goto(p, "markcheck")

\* LinuxInitializingProof::revalidate.
ProofHolds(p) ==
  Ok(/\ RevalidatePrivateDirectory(node["root"], mem[p].root)
     /\ PrivateFileFactsMatch(node["marker"], mem[p].marker)
     /\ node["marker"].doc = Marker("initializing", p))

LinuxMarkerPublished(p) == linux /\ At(p, "markcheck") /\ Check(p, ProofHolds(p), "Control", "mkmetadata")

\* remove_exact_entry: only while the name still leads to the published inode.
RemoveExactEntry(name, i) ==
  node' = IF node[name].ino = i /\ node[name].kind = "file" THEN [node EXCEPT ![name] = Absent] ELSE node

MacUndo(p, name, i, kind) ==
  FailWith(p, MapPort("Control", kind)) /\ RemoveExactEntry(name, i) /\ UNCHANGED nextIno

MacMarkerPublished(p) ==
  /\ macos /\ At(p, "markcheck")
  /\ IF MacRevalidateDirectory(node["root"], mem[p].root) /\ MacValidateFileEntry(node["marker"], mem[p].marker)
       THEN Goto(p, "mkmetadata") /\ UNCHANGED <<fsys, mem>>
       ELSE MacUndo(p, "marker", mem[p].marker, "InvalidData")

(***************************************************************************)
(* initialize_layout: metadata and logs are staged and renamed into place, *)
(* state.db is created exclusively.  No Drop guards a staged directory.    *)
(***************************************************************************)
ChildLabels == [mkmetadata |-> [name |-> "metadata", pub |-> "pubmetadata"],
                mklogs |-> [name |-> "logs", pub |-> "publogs"]]

LinuxMayStageChild(p, l) ==
  First(<<IF l = "mkmetadata" THEN First(<<LinuxLockHolds(p), ProofHolds(p)>>) ELSE "ok",
          Ok(RevalidatePrivateDirectory(node["root"], mem[p].root))>>)
MacMayStageChild(p, l) ==
  IF l = "mkmetadata"
    THEN First(<<MacLockHolds(p), Ok(MacRevalidateDirectory(node["root"], mem[p].root)), MacVolumeId(fsVerified)>>)
    ELSE "ok"

StageChild(p) ==
  \E l \in DOMAIN ChildLabels :
    LET verdict == IF linux THEN LinuxMayStageChild(p, l) ELSE MacMayStageChild(p, l) IN
    /\ At(p, l)
    /\ IF verdict # "ok" THEN Fail(p, "Control", verdict)
       ELSE /\ tmp' = [tmp EXCEPT ![p] = NewDirectory(nextIno)] /\ nextIno' = nextIno + 1
            /\ mem' = [mem EXCEPT ![p].tmp = nextIno]
            /\ Goto(p, ChildLabels[l].pub) /\ UNCHANGED node

\* A name that is taken: cleanup_staged_child, then NotEmpty.
PublishChild(p) ==
  \E l \in DOMAIN ChildLabels :
    LET name == ChildLabels[l].name IN
    /\ At(p, ChildLabels[l].pub)
    /\ IF ~RevalidatePrivateDirectory(node["root"], mem[p].root) THEN Fail(p, "Control", ChangedKind)
       ELSE IF node[name].kind # "none" THEN CleanupAndFail(p, "NotEmpty") /\ UNCHANGED node
       ELSE /\ PublishNoReplace(p, name, [mem[p] EXCEPT !.layout[name] = mem[p].tmp])
            /\ Goto(p, IF name = "metadata" THEN "mklogs" ELSE "mkdb")

\* create_database_file; macOS creates it below the held directory and notices
\* a replaced one in the next step.
CreateDatabaseFile(p) ==
  /\ At(p, "mkdb")
  /\ IF ~RevalidatePrivateDirectory(node["metadata"], mem[p].layout.metadata) THEN Fail(p, "Control", ChangedKind)
     ELSE IF node["db"].kind # "none" THEN Fail(p, "Control", "Io")
     ELSE /\ node' = [node EXCEPT !["db"] = NewFile(nextIno, EmptyDatabase)]
          /\ mem' = [mem EXCEPT ![p].layout.db = nextIno] /\ nextIno' = nextIno + 1
          /\ Goto(p, "newlayout") /\ UNCHANGED tmp

LinuxNewLayout(p) ==
  /\ linux /\ At(p, "newlayout")
  /\ Check(p, First(<<LinuxValidateLayout(node, fsVerified), LayoutHolds(p), ProofHolds(p)>>), "Control", "dbinit")

MacNewLayout(p) == macos /\ At(p, "newlayout") /\ Check(p, LayoutHolds(p), "Control", "dbinit")

\* open_or_initialize: only a truly empty database is initialised.
OpenOrInitialize(id) ==
  IF node["db"].doc = EmptyDatabase THEN "ok" ELSE ValidateExistingDatabase(id)

InitializeDatabase_Mutant(p) == At(p, "dbinit") /\ Goto(p, "dbcheck") /\ UNCHANGED <<fsys, mem>>

\* SqliteMetadataStoreFactory::initialize: the schema and the installation row
\* in one transaction, between revalidations of the layout.
InitializeDatabase(p) ==
  /\ At(p, "dbinit")
  /\ LET verdict == First(<<LayoutHolds(p), OpenOrInitialize(p)>>) IN
     IF verdict # "ok" THEN Fail(p, "Metadata", verdict)
     ELSE /\ node' = [node EXCEPT !["db"].doc = Database(p)]
          /\ Goto(p, "dbcheck") /\ UNCHANGED <<tmp, nextIno, mem>>

DatabaseInitialized(p) == At(p, "dbcheck") /\ Check(p, LayoutHolds(p), "Control", "rdytmp")

(***************************************************************************)
(* publish_ready: stage the Ready marker, exchange it with the held        *)
(* initializing one, verify that exactly the two held files moved, unlink  *)
(* the old one.                                                            *)
(***************************************************************************)
MacProofHolds(p) ==
  Ok(/\ MacRevalidateDirectory(node["root"], mem[p].root)
     /\ MacValidateFileEntry(node["marker"], mem[p].marker)
     /\ node["marker"].doc = Marker("initializing", p))

StageReady(p) ==
  /\ At(p, "rdytmp")
  /\ LET verdict == First(<<LockHolds(p), IF linux THEN ProofHolds(p) ELSE MacProofHolds(p)>>) IN
     IF verdict = "ok" THEN StageTemp(p, Marker("ready", p)) /\ Goto(p, "rdyswap")
     ELSE Fail(p, "Control", verdict)

\* exchange_with: both names must exist; the temp now names the old marker.
ExchangeMarker(p) ==
  /\ At(p, "rdyswap")
  /\ IF node["marker"].kind = "none" THEN Fail(p, "Control", "Io")
     ELSE /\ node' = [node EXCEPT !["marker"] = tmp[p]] /\ tmp' = [tmp EXCEPT ![p] = node["marker"]]
          /\ mem' = [mem EXCEPT ![p].active = FALSE] /\ Goto(p, "rdycheck") /\ UNCHANGED nextIno

\* exchanged_marker_contents_match and the two held files.
ExchangeVerified(p) ==
  /\ RevalidatePrivateDirectory(node["root"], mem[p].root)
  /\ PrivateFileFactsMatch(node["marker"], mem[p].tmp) /\ PrivateFileFactsMatch(tmp[p], mem[p].marker)
  /\ node["marker"].doc = Marker("ready", p) /\ tmp[p].doc = Marker("initializing", p)

\* On any doubt both markers stay for diagnosis.
LinuxReadyExchanged(p) ==
  /\ linux /\ At(p, "rdycheck")
  /\ IF ExchangeVerified(p) /\ LinuxLockHolds(p) = "ok"
       THEN tmp' = [tmp EXCEPT ![p] = Absent] /\ Goto(p, "cfgtmp") /\ UNCHANGED <<node, nextIno, mem>>
       ELSE Fail(p, "Control", "InvalidLayout")

ExchangedPairMatches(p) == node["marker"].ino = mem[p].tmp /\ tmp[p].ino = mem[p].marker

\* Both names still lead to the exchanged pair: a second exchange restores the
\* old marker, then the new one is unlinked.
MacUndoExchange(p, kind) ==
  IF ExchangedPairMatches(p) /\ node["marker"].kind = "file"
    THEN node' = [node EXCEPT !["marker"] = tmp[p]] /\ CleanupAndFail(p, kind)
    ELSE Fail(p, "Control", kind)

MacReadyExchanged(p) ==
  /\ macos /\ At(p, "rdycheck")
  /\ IF ExchangeVerified(p)
       THEN tmp' = [tmp EXCEPT ![p] = Absent] /\ Goto(p, "cfgtmp") /\ UNCHANGED <<node, nextIno, mem>>
       ELSE MacUndoExchange(p, "InvalidData")

(***************************************************************************)
(* publish_config: only behind the Ready marker, never over another one.   *)
(***************************************************************************)
LinuxPublishConfig(p) ==
  First(<<LinuxLockHolds(p), ReadyMarkerNames(p), Ok(ReadableDocument(node["config"]))>>)
MacPublishConfig(p) ==
  First(<<MacLockHolds(p), ReadyMarkerNames(p), Ok(MacReadableDocument(node["config"]))>>)

\* config_is_current: a config that exists is accepted only if it is this one.
CurrentConfig(p) ==
  IF Readable(node["config"]) /\ node["config"].doc = ConfigDoc(p)
    THEN Succeed(p, "Initialized", p)
    ELSE Fail(p, "Control", "Conflict")

StageConfig(p) ==
  /\ At(p, "cfgtmp")
  /\ LET verdict == IF linux THEN LinuxPublishConfig(p) ELSE MacPublishConfig(p) IN
     IF verdict # "ok" THEN Fail(p, "Control", verdict)
     ELSE IF node["config"].kind # "none" THEN CurrentConfig(p)
     ELSE StageTemp(p, ConfigDoc(p)) /\ Goto(p, "cfgpub")

\* reconcile_config_publication_error: one that appeared meanwhile.
PublishConfig(p) ==
  /\ At(p, "cfgpub")
  /\ IF node["config"].kind # "none" THEN CurrentConfig(p)
     ELSE PublishNoReplace(p, "config", mem[p]) /\ Goto(p, "cfgcheck")

LinuxConfigPublished(p) ==
  /\ linux /\ At(p, "cfgcheck")
  /\ IF LinuxLockHolds(p) = "ok" /\ PrivateFileFactsMatch(node["config"], mem[p].tmp) /\ node["config"].doc = ConfigDoc(p)
       THEN Succeed(p, "Initialized", p)
       ELSE Fail(p, "Control", "InvalidLayout")

MacConfigPublished(p) ==
  /\ macos /\ At(p, "cfgcheck")
  /\ IF MacRevalidateDirectory(node["root"], mem[p].root) /\ MacValidateFileEntry(node["config"], mem[p].tmp)
       THEN Succeed(p, "Initialized", p)
       ELSE MacUndo(p, "config", mem[p].tmp, "InvalidData")

(***************************************************************************)
(* The environment.                                                        *)
(***************************************************************************)
Running(p) == pc[p] \notin {"idle", "done", "killed"}

Trouble == kills + faults + Cardinality(touched)

\* SIGKILL: the kernel releases the flock, everything on disk stays.
Kill(p) ==
  /\ Running(p) /\ Trouble < MaxTrouble
  /\ kills' = kills + 1 /\ pc' = [pc EXCEPT ![p] = "killed"]
  /\ mem' = [mem EXCEPT ![p] = NoMem]
  /\ UNCHANGED <<platform, fsVerified, fsys, out, touched, faults>>

\* The next system call of p fails: an open, a sync or a rename; on macOS a call
\* of a verification that fails takes the undo path.
Fault(p) ==
  /\ Running(p) /\ Trouble < MaxTrouble
  /\ faults' = faults + 1
  /\ \/ Fail(p, "Control", "Io")
     \/ macos /\ pc[p] = "markcheck" /\ MacUndo(p, "marker", mem[p].marker, "Io")
     \/ macos /\ pc[p] = "rdycheck" /\ MacUndoExchange(p, "Io")
     \/ macos /\ pc[p] = "cfgcheck" /\ MacUndo(p, "config", mem[p].tmp, "Io")
  /\ UNCHANGED <<platform, fsVerified, touched, kills>>

\* What a user can make of an entry; a directory takes its contents with it.
Tampered(n, i) ==
  {Absent} \cup {[n EXCEPT !.ino = i], [n EXCEPT !.safe = FALSE]}
  \cup (IF n.kind = "file" THEN {[n EXCEPT !.doc = Foreign]} ELSE {})

Tamper(name) ==
  /\ node[name].kind # "none" /\ Trouble < MaxTrouble
  /\ Cardinality(touched) < MaxTampers /\ name \notin touched
  /\ \E t \in IF name = "root" THEN {[node[name] EXCEPT !.safe = FALSE]}
                                   ELSE Tampered(node[name], nextIno) :
       /\ node' = [node EXCEPT ![name] = t,
                               !["db"] = IF name = "metadata" /\ t.ino # node[name].ino THEN Absent
                                         ELSE IF name = "db" THEN t ELSE node["db"]]
       /\ nextIno' = IF t.ino = nextIno THEN nextIno + 1 ELSE nextIno
  /\ touched' = touched \cup {name}
  /\ UNCHANGED <<platform, fsVerified, tmp, pc, mem, out, kills, faults>>

Finished == \A p \in Procs : pc[p] \in {"done", "killed"}
Stop == Finished /\ UNCHANGED vars

Step(p) ==
  \/ Begin(p) \/ PrepareOpen(p) \/ LinuxPrepareMkdir(p) \/ MacPrepareMkdir(p)
  \/ LockOpen(p) \/ Flock(p) \/ FlockTimeout(p) \/ LockAcquired(p) \/ ReadConfig(p)
  \/ ValidateLayout(p) \/ RequireReadyMarker(p) \/ InspectDatabase(p) \/ InspectExisting(p)
  \/ PrepareDataRoot(p) \/ CreateInitializing(p) \/ StageMarker(p) \/ PublishMarker(p)
  \/ LinuxMarkerPublished(p) \/ MacMarkerPublished(p)
  \/ StageChild(p) \/ PublishChild(p) \/ CreateDatabaseFile(p) \/ LinuxNewLayout(p) \/ MacNewLayout(p)
  \/ InitializeDatabase(p) \/ DatabaseInitialized(p)
  \/ StageReady(p) \/ ExchangeMarker(p) \/ LinuxReadyExchanged(p) \/ MacReadyExchanged(p)
  \/ StageConfig(p) \/ PublishConfig(p) \/ LinuxConfigPublished(p) \/ MacConfigPublished(p)

Next ==
  \/ \E p \in Procs : Step(p) \/ Kill(p) \/ Fault(p)
  \/ \E name \in Names : Tamper(name)
  \/ Stop

\* The scheduler lets every live process take its next step.
Fairness == \A p \in Procs : WF_vars(Step(p))
Spec == Init /\ [][Next]_vars /\ Fairness

(***************************************************************************)
(* Properties.                                                             *)
(***************************************************************************)
Successes == {"Initialized", "AlreadyInitialized", "DoctorOk"}
Succeeded(p) == out[p].code \in Successes

\* An installation in which every durable piece names one instance.
Installed(id) ==
  /\ node["marker"].doc = Marker("ready", id) /\ node["db"].doc = Database(id)
  /\ PrivateDirectory(node["metadata"]) /\ PrivateDirectory(node["logs"])
Complete(id) == Installed(id) /\ node["config"].doc = ConfigDoc(id)

\* The config is the commit point of init: while the user leaves the control
\* root alone, whoever finds a config finds a complete installation, whatever
\* was killed or failed and on either platform (init, publish_config).
ConfigMeansComplete ==
  touched = {} /\ node["config"].kind # "none" => \E id \in Procs : Complete(id)

\* A doctor that answers while an init runs, or an init that answers
\* AlreadyInitialized, inspected a complete installation; and an init that
\* answers Initialized left one.  The one exception is macOS's publish_config,
\* which withdraws the config it published when it cannot verify it: a doctor
\* may have read it by then, and only the config is missing afterwards.
AnswerMeansComplete ==
  \A p \in Procs : Succeeded(p) /\ touched = {} =>
    \/ Complete(out[p].id)
    \/ macos /\ p \in Doctors /\ Installed(out[p].id) /\ out[out[p].id].code = "Filesystem"

\* ControlNotEmpty has a cause outside the program: an init that only meets
\* another live init waits for it and then finds its installation.
NotEmptyHasCause ==
  (\E p \in Procs : out[p].code = "ControlNotEmpty") =>
    touched # {} \/ faults > 0 \/ \E q \in Procs : pc[q] = "killed"

\* What a killed init left is never adopted, finished or deleted by another
\* one: create_initializing accepts an unclaimed root only.  A user who replaces
\* the lock lets two inits in, and takes the marker of one away as well: then
\* publish_ready of that one may exchange the marker that the other, killed, left.
NeverTakesOver ==
  [][\A p \in Procs : pc[p] = "killed" /\ touched' = touched /\ "lock" \notin touched =>
        /\ tmp'[p] = tmp[p]
        /\ node["marker"].doc[2] = p => node'["marker"] = node["marker"]]_vars

\* Every init and doctor returns (or is killed): a contended lock times out.
EveryCallEnds == <>Finished

=============================================================================
