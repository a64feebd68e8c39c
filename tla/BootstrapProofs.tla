--------------------------- MODULE BootstrapProofs --------------------------
(***************************************************************************)
(* Theorems about init and doctor, for any number of processes, kills and  *)
(* failing calls on either platform.  What they say of the installation    *)
(* holds until the user touches the control root, what they say of the     *)
(* lock until the user touches the lock file.                              *)
(***************************************************************************)
EXTENDS Bootstrap, TLAPS

\* Labels an init passes with the flock in its hands, in order.
Looking == {"locked", "config", "layout", "marker1", "inspect", "revalidate", "marker2"}
Claiming == {"dataroot", "claim", "marktmp", "markpub", "markcheck", "mkmetadata", "pubmetadata",
             "mklogs", "publogs", "mkdb", "newlayout", "dbinit"}
Finishing == {"dbcheck", "rdytmp", "rdyswap", "rdycheck", "cfgtmp"}
Committing == {"cfgpub", "cfgcheck"}
Inside == Looking \cup Claiming \cup Finishing \cup Committing
DoctorLabels == {"idle", "config", "layout", "marker1", "inspect", "revalidate", "marker2", "done", "killed"}
Outside == {"idle", "prepare", "mkroot", "lockopen", "flock", "done", "killed"}

Doc == {"none", "empty", "foreign", "initializing", "ready", "config", "db"} \X Nat
Entry == [kind : {"none", "dir", "file"}, ino : Nat, safe : BOOLEAN, doc : Doc]
Memory == [root : Nat, lock : Nat, held : BOOLEAN, active : BOOLEAN, tmp : Nat, marker : Nat,
           layout : [metadata : Nat, logs : Nat, db : Nat], id : Nat]

\* Types.
ShapeOK ==
  /\ node \in [Names -> Entry] /\ tmp \in [Procs -> Entry] /\ nextIno \in Nat
  /\ pc \in [Procs -> Inside \cup Outside]
  /\ mem \in [Procs -> Memory]
  /\ \A p \in Doctors : pc[p] \in DoctorLabels

\* Whoever is past the lock holds the one lock file there is.
LockIsOne ==
  /\ \A p \in Procs : pc[p] = "flock" \/ mem[p].held =>
       node["lock"].kind # "none" /\ mem[p].lock = node["lock"].ino
  /\ \A p \in Procs : mem[p].held => p \notin Doctors /\ pc[p] \in Inside
  /\ \A p \in Procs \ Doctors : pc[p] \in Inside => mem[p].held
  /\ \A p, q \in Procs : mem[p].held /\ mem[q].held => p = q

\* What the holder has built so far, and that no config is there before it is done.
Progress(p) ==
  /\ pc[p] \in Claiming \cup Finishing \cup {"cfgpub"} => node["config"].kind = "none"
  /\ pc[p] \in Finishing \cup Committing =>
       /\ node["db"].doc = Database(p)
       /\ PrivateDirectory(node["metadata"]) /\ PrivateDirectory(node["logs"])
  /\ pc[p] \in Committing => node["marker"].doc = Marker("ready", p)
  /\ pc[p] = "cfgpub" => tmp[p].doc = ConfigDoc(p)
  /\ pc[p] = "cfgcheck" => node["config"].doc = ConfigDoc(p)

Committed == node["config"].kind # "none" => \E id \in Procs : Complete(id)

Untouched == LockIsOne /\ (\A p \in Procs : Progress(p)) /\ Committed

\* The lock excludes whatever else the user does; what is built behind it is known
\* as long as the user touches nothing.
BootstrapInv == ShapeOK /\ ("lock" \notin touched => LockIsOne) /\ (touched = {} => Untouched)

-----------------------------------------------------------------------------
(* Shapes *)

\* What the program writes is a document.
LEMMA NewDocuments ==
  /\ NoDoc \in Doc /\ EmptyDatabase \in Doc /\ Foreign \in Doc
  /\ \A p \in Procs : /\ Marker("initializing", p) \in Doc /\ Marker("ready", p) \in Doc
                       /\ ConfigDoc(p) \in Doc /\ Database(p) \in Doc
BY BootstrapAssumption DEF Doc, NoDoc, EmptyDatabase, Foreign, Marker, ConfigDoc, Database

\* What it makes is an entry.
LEMMA NewEntries ==
  /\ Absent \in Entry
  /\ \A i \in Nat : NewDirectory(i) \in Entry
  /\ \A i \in Nat, d \in Doc : NewFile(i, d) \in Entry
BY NewDocuments DEF Absent, NewDirectory, NewFile, Entry

\* A process that starts or ends holds nothing.
LEMMA NewMemory == NoMem \in Memory
BY DEF NoMem, Memory

\* Every way out of a use case.
Leaves(p) ==
  /\ pc' = [pc EXCEPT ![p] = "done"] /\ mem' = [mem EXCEPT ![p] = NoMem]
  /\ tmp' \in {tmp, [tmp EXCEPT ![p] = Absent]} /\ nextIno' = nextIno

\* Each return of the use cases closes what p holds; the undo paths of macOS change
\* one entry besides.
LEMMA WaysOut ==
  ASSUME NEW p \in Procs
  PROVE  /\ \A c, i : FailWith(p, c) /\ nextIno' = nextIno => Leaves(p)
         /\ \A s, k : Fail(p, s, k) => Leaves(p) /\ node' = node
         /\ \A c, i : Succeed(p, c, i) => Leaves(p) /\ node' = node
         /\ \A k : CleanupAndFail(p, k) => Leaves(p)
         /\ \A n, i, k : MacUndo(p, n, i, k) => Leaves(p) /\ RemoveExactEntry(n, i)
         /\ CurrentConfig(p) => Leaves(p) /\ node' = node
         /\ \A k : MacUndoExchange(p, k) => Leaves(p) /\ node' \in {node, [node EXCEPT !["marker"] = tmp[p]]}
<1>1. \A m : DropGuards(p, m) => mem' = [mem EXCEPT ![p] = NoMem] /\ tmp' \in {tmp, [tmp EXCEPT ![p] = Absent]}
  BY DEF DropGuards
<1>2. \A c, i : FailWith(p, c) /\ nextIno' = nextIno => Leaves(p)
  BY <1>1 DEF FailWith, Return, Leaves
<1>3. \A s, k : Fail(p, s, k) => Leaves(p) /\ node' = node
  BY <1>2 DEF Fail
<1>4. \A c, i : Succeed(p, c, i) => Leaves(p) /\ node' = node
  BY <1>1 DEF Succeed, Return, Leaves
<1>5. \A k : CleanupAndFail(p, k) => Leaves(p)
  BY <1>1 DEF CleanupAndFail, Return, Leaves
<1>6. \A n, i, k : MacUndo(p, n, i, k) => Leaves(p) /\ RemoveExactEntry(n, i)
  BY <1>2 DEF MacUndo
<1>7. CurrentConfig(p) => Leaves(p) /\ node' = node
  BY <1>3, <1>4 DEF CurrentConfig
<1>8. \A k : MacUndoExchange(p, k) => Leaves(p) /\ node' \in {node, [node EXCEPT !["marker"] = tmp[p]]}
  BY <1>3, <1>5 DEF MacUndoExchange
<1> QED BY <1>2, <1>3, <1>4, <1>5, <1>6, <1>7, <1>8

\* Leaving keeps the types.
LEMMA LeavesShape ==
  ASSUME ShapeOK, NEW p \in Procs, Leaves(p), node' \in [Names -> Entry]
  PROVE  ShapeOK'
BY NewEntries, NewMemory DEF ShapeOK, Leaves, Outside, DoctorLabels

\* A process changes its own label, its own memory and its own staged entry.
LEMMA OwnStepShape ==
  ASSUME ShapeOK, NEW p \in Procs, NEW next \in Inside \cup Outside, Goto(p, next),
         p \in Doctors => next \in DoctorLabels,
         node' \in [Names -> Entry], tmp' \in [Procs -> Entry], nextIno' \in Nat, mem' \in [Procs -> Memory]
  PROVE  ShapeOK'
<1>1. pc' = [pc EXCEPT ![p] = next] /\ pc \in [Procs -> Inside \cup Outside]
  BY DEF Goto, ShapeOK
<1>2. pc' \in [Procs -> Inside \cup Outside]
  BY <1>1
<1>3. \A q \in Doctors : pc'[q] \in DoctorLabels
  BY <1>1, BootstrapAssumption DEF ShapeOK
<1> QED BY <1>2, <1>3 DEF ShapeOK

\* A step that only checks keeps the types.
LEMMA CheckShape ==
  ASSUME ShapeOK, NEW p \in Procs, NEW next \in Inside \cup Outside,
         p \in Doctors => next \in DoctorLabels,
         NEW verdict, NEW stage, Check(p, verdict, stage, next)
  PROVE  ShapeOK'
<1>1. CASE Goto(p, next) /\ UNCHANGED <<fsys, mem>>
  BY <1>1, OwnStepShape DEF ShapeOK, fsys
<1>2. CASE Fail(p, stage, verdict)
  BY <1>2, WaysOut, LeavesShape DEF ShapeOK
<1> QED BY <1>1, <1>2 DEF Check

\* PrivateTemp::create changes neither the entries nor the lock.
LEMMA StageShape ==
  ASSUME ShapeOK, NEW p \in Procs, NEW d \in Doc, StageTemp(p, d)
  PROVE  /\ node' = node /\ tmp' \in [Procs -> Entry] /\ nextIno' \in Nat /\ mem' \in [Procs -> Memory]
         /\ \A q \in Procs : mem'[q].held = mem[q].held /\ mem'[q].lock = mem[q].lock
         /\ tmp'[p].doc = d
<1>1. NewFile(nextIno, d) \in Entry
  BY NewEntries DEF ShapeOK
<1>2. tmp' \in [Procs -> Entry] /\ tmp'[p].doc = d
  BY <1>1 DEF ShapeOK, StageTemp, NewFile
<1>3. mem[p] \in Memory /\ nextIno \in Nat
  BY DEF ShapeOK
<1>4. mem' \in [Procs -> Memory]
  BY <1>3 DEF ShapeOK, StageTemp, Memory
<1>5. \A q \in Procs : mem'[q].held = mem[q].held /\ mem'[q].lock = mem[q].lock
  BY <1>3 DEF ShapeOK, StageTemp, Memory
<1> QED BY <1>2, <1>3, <1>4, <1>5 DEF StageTemp

\* publish_noreplace changes the one entry it publishes.
LEMMA PublishShape ==
  ASSUME ShapeOK, NEW p \in Procs, NEW name \in Names, NEW m \in Memory, PublishNoReplace(p, name, m),
         m.held = mem[p].held, m.lock = mem[p].lock
  PROVE  /\ node' \in [Names -> Entry] /\ tmp' \in [Procs -> Entry] /\ nextIno' \in Nat /\ mem' \in [Procs -> Memory]
         /\ \A q \in Procs : mem'[q].held = mem[q].held /\ mem'[q].lock = mem[q].lock
         /\ node'[name] = tmp[p] /\ \A n \in Names \ {name} : node'[n] = node[n]
<1>1. node' \in [Names -> Entry] /\ tmp' \in [Procs -> Entry]
  BY NewEntries DEF ShapeOK, PublishNoReplace
<1>2. [m EXCEPT !.active = FALSE] \in Memory
  BY DEF Memory
<1>3. [m EXCEPT !.active = FALSE].held = mem[p].held /\ [m EXCEPT !.active = FALSE].lock = mem[p].lock
  BY DEF Memory
<1>4. mem' = [mem EXCEPT ![p] = [m EXCEPT !.active = FALSE]]
  BY DEF PublishNoReplace
<1>5. mem' \in [Procs -> Memory]
  BY <1>2, <1>4 DEF ShapeOK
<1>6. \A q \in Procs : mem'[q].held = mem[q].held /\ mem'[q].lock = mem[q].lock
  BY <1>3, <1>4 DEF ShapeOK
<1> QED BY <1>1, <1>5, <1>6 DEF PublishNoReplace, ShapeOK

-----------------------------------------------------------------------------
(* Frames: what the others have built stays as they left it *)

\* A step that changes at most the root itself leaves an installation complete.
LEMMA SameEntries ==
  ASSUME \A n \in Names \ {"root"} : node'[n] = node[n]
  PROVE  Committed => Committed'
BY DEF Committed, Complete, Installed, PrivateDirectory, Names

\* What another process has built is safe from p: either p changes nothing but the
\* root, or p holds the lock and the other one builds nothing.
LEMMA OthersProgress ==
  ASSUME ShapeOK, LockIsOne, NEW p \in Procs, NEW q \in Procs \ {p}, Progress(q),
         pc'[q] = pc[q], tmp'[q] = tmp[q],
         \/ \A n \in Names \ {"root"} : node'[n] = node[n]
         \/ p \notin Doctors /\ pc[p] \in Inside
  PROVE  Progress(q)'
<1>1. CASE \A n \in Names \ {"root"} : node'[n] = node[n]
  BY <1>1 DEF Progress, PrivateDirectory, Names
<1>2. CASE p \notin Doctors /\ pc[p] \in Inside
  <2>1. mem[p].held /\ ~mem[q].held
    BY <1>2 DEF LockIsOne
  <2>2. pc[q] \notin Claiming \cup Finishing \cup Committing
    <3>1. q \notin Doctors => pc[q] \notin Inside
      BY <2>1 DEF LockIsOne
    <3>2. q \in Doctors => pc[q] \in DoctorLabels
      BY DEF ShapeOK
    <3> QED BY <3>1, <3>2 DEF Inside, DoctorLabels, Claiming, Finishing, Committing
  <2> QED BY <2>2 DEF Progress, Claiming, Finishing, Committing
<1> QED BY <1>1, <1>2

\* A step of p that neither takes nor drops the lock.
LEMMA Move ==
  ASSUME BootstrapInv, ShapeOK', touched' = touched,
         NEW p \in Procs, NEW next \in (Inside \cup Outside) \ {"flock"}, pc' = [pc EXCEPT ![p] = next],
         next \in Inside => p \in Doctors \/ pc[p] \in Inside,
         pc[p] \in Inside => next \in Inside,
         \A q \in Procs : mem'[q].held = mem[q].held /\ mem'[q].lock = mem[q].lock,
         \A q \in Procs \ {p} : tmp'[q] = tmp[q],
         node'["lock"] = node["lock"],
         \/ \A n \in Names \ {"root"} : node'[n] = node[n]
         \/ p \notin Doctors /\ pc[p] \in Inside,
         touched = {} => Progress(p)' /\ Committed'
  PROVE  BootstrapInv'
<1>1. ShapeOK
  BY DEF BootstrapInv
<1>2. pc'[p] = next /\ \A q \in Procs \ {p} : pc'[q] = pc[q]
  BY <1>1 DEF ShapeOK
<1>3. ASSUME LockIsOne PROVE LockIsOne'
  <2>1. \A q \in Procs : pc'[q] = "flock" => pc[q] = "flock"
    BY <1>2
  <2>2. \A q \in Procs : pc'[q] = "flock" \/ mem'[q].held =>
          node'["lock"].kind # "none" /\ mem'[q].lock = node'["lock"].ino
    BY <1>3, <2>1 DEF LockIsOne
  <2>3. \A q \in Procs : mem'[q].held => q \notin Doctors /\ pc'[q] \in Inside
    BY <1>2, <1>3 DEF LockIsOne
  <2>4. \A q \in Procs \ Doctors : pc'[q] \in Inside => mem'[q].held
    BY <1>2, <1>3 DEF LockIsOne
  <2>5. \A q, r \in Procs : mem'[q].held /\ mem'[r].held => q = r
    BY <1>3 DEF LockIsOne
  <2> QED BY <2>2, <2>3, <2>4, <2>5 DEF LockIsOne
<1>4. ASSUME Untouched PROVE \A q \in Procs \ {p} : Progress(q)'
  BY <1>1, <1>2, <1>4, OthersProgress DEF Untouched
<1>5. ASSUME touched = {}, Untouched PROVE Untouched'
  BY <1>3, <1>4, <1>5 DEF Untouched
<1> QED BY <1>3, <1>5 DEF BootstrapInv

\* Leaving drops the lock and asks nothing of p any more.
LEMMA LeaveKeeps ==
  ASSUME BootstrapInv, NEW p \in Procs, node' \in [Names -> Entry], touched' = touched,
         \/ Leaves(p)
         \/ /\ pc' = [pc EXCEPT ![p] = "killed"] /\ mem' = [mem EXCEPT ![p] = NoMem]
            /\ tmp' = tmp /\ nextIno' = nextIno,
         node'["lock"] = node["lock"],
         node' = node \/ (p \notin Doctors /\ pc[p] \in Inside /\ (touched = {} => Committed'))
  PROVE  BootstrapInv'
<1>1. ShapeOK /\ ShapeOK'
  <2>1. ShapeOK
    BY DEF BootstrapInv
  <2>2. CASE Leaves(p)
    BY <2>1, <2>2, LeavesShape
  <2>3. CASE pc' = [pc EXCEPT ![p] = "killed"] /\ mem' = [mem EXCEPT ![p] = NoMem] /\ tmp' = tmp /\ nextIno' = nextIno
    BY <2>1, <2>3, NewMemory DEF ShapeOK, Outside, DoctorLabels
  <2> QED BY <2>1, <2>2, <2>3
<1>2. pc'[p] \in {"done", "killed"} /\ \A q \in Procs \ {p} : pc'[q] = pc[q]
  BY <1>1 DEF ShapeOK, Leaves
<1>3. ~mem'[p].held /\ \A q \in Procs \ {p} : mem'[q] = mem[q]
  BY <1>1 DEF ShapeOK, Leaves, NoMem
<1>4. \A q \in Procs \ {p} : tmp'[q] = tmp[q]
  BY <1>1 DEF ShapeOK, Leaves
<1>5. ASSUME LockIsOne PROVE LockIsOne'
  BY <1>2, <1>3, <1>5 DEF LockIsOne, Inside, Looking, Claiming, Finishing, Committing
<1>6. ASSUME touched = {}, Untouched PROVE Untouched'
  <2>1. \A q \in Procs \ {p} : Progress(q)'
    BY <1>1, <1>2, <1>4, <1>6, OthersProgress DEF Untouched
  <2>2. Progress(p)'
    BY <1>2 DEF Progress, Claiming, Finishing, Committing
  <2>3. Committed'
    BY <1>6, SameEntries DEF Untouched
  <2> QED BY <1>5, <1>6, <2>1, <2>2, <2>3 DEF Untouched
<1> QED BY <1>1, <1>5, <1>6 DEF BootstrapInv

\* A step that only looks.
LEMMA CheckKeeps ==
  ASSUME BootstrapInv, touched' = touched, NEW p \in Procs, pc[p] \in Inside,
         NEW next \in Inside, p \in Doctors => next \in DoctorLabels,
         NEW verdict, NEW stage, Check(p, verdict, stage, next),
         touched = {} /\ verdict = "ok" /\ pc'[p] = next /\ UNCHANGED <<node, tmp>> => Progress(p)'
  PROVE  BootstrapInv'
<1>1. ShapeOK /\ ShapeOK'
  BY CheckShape DEF BootstrapInv
<1>2. CASE verdict = "ok"
  <2>1. pc' = [pc EXCEPT ![p] = next] /\ UNCHANGED <<node, tmp, mem>>
    BY <1>2 DEF Check, Goto, fsys
  <2>2. pc'[p] = next
    BY <1>1, <2>1 DEF ShapeOK
  <2>3. next # "flock" /\ next \in Inside \cup Outside
    BY DEF Inside, Looking, Claiming, Finishing, Committing
  <2>4. touched = {} => Progress(p)' /\ Committed'
    BY <1>2, <2>1, <2>2, SameEntries DEF BootstrapInv, Untouched
  <2> QED BY <1>1, <2>1, <2>3, <2>4, Move
<1>3. CASE verdict # "ok"
  <2>1. Leaves(p) /\ node' = node
    BY <1>3, WaysOut DEF Check
  <2> QED BY <1>1, <2>1, LeaveKeeps DEF ShapeOK
<1> QED BY <1>2, <1>3

-----------------------------------------------------------------------------
(* The steps before the lock is held *)

\* Opening and making the control root (prepare_bootstrap).
LEMMA BeginningKeeps ==
  ASSUME BootstrapInv, touched' = touched, NEW p \in Procs,
         Begin(p) \/ PrepareOpen(p) \/ LinuxPrepareMkdir(p) \/ MacPrepareMkdir(p)
  PROVE  BootstrapInv'
<1>1. ShapeOK
  BY DEF BootstrapInv
<1>2. CASE Begin(p)
  <2>1. PICK l \in {"config", "prepare"} :
          /\ pc[p] = "idle" /\ (l = "config" <=> p \in Doctors)
          /\ Goto(p, l) /\ UNCHANGED <<node, tmp, nextIno, mem>>
    BY <1>2 DEF Begin, At, fsys
  <2>2. ShapeOK'
    BY <1>1, <2>1, OwnStepShape DEF ShapeOK, Inside, Looking, Outside, DoctorLabels
  <2> QED BY <2>1, <2>2, Move, SameEntries
          DEF BootstrapInv, Untouched, Goto, ShapeOK, Progress, Inside, Outside, Looking, Claiming, Finishing, Committing
<1>3. ASSUME Leaves(p), node' = node PROVE BootstrapInv'
  BY <1>1, <1>3, LeaveKeeps DEF ShapeOK
<1>4. ASSUME pc[p] \in {"prepare", "mkroot"}, NEW l \in {"mkroot", "lockopen", "prepare"}, Goto(p, l), mem' = mem, tmp' = tmp,
             \/ node' = node /\ nextIno' = nextIno
             \/ MakeRoot
      PROVE  BootstrapInv'
  <2>1. /\ node' \in [Names -> Entry] /\ nextIno' \in Nat
        /\ \A n \in Names \ {"root"} : node'[n] = node[n]
    BY <1>1, <1>4, NewEntries DEF MakeRoot, ShapeOK
  <2>2. ShapeOK'
    BY <1>1, <1>4, <2>1, OwnStepShape DEF ShapeOK, Outside, DoctorLabels
  <2>3. node'["lock"] = node["lock"]
    BY <2>1 DEF Names
  <2>4. touched = {} => Progress(p)' /\ Committed'
    BY <1>1, <1>4, <2>1, SameEntries DEF BootstrapInv, Untouched, Goto, ShapeOK, Progress, Claiming, Finishing, Committing
  <2> QED BY <1>4, <2>1, <2>2, <2>3, <2>4, Move DEF Goto, Inside, Outside, Looking, Claiming, Finishing, Committing
<1>5. CASE PrepareOpen(p)
  <2>1. CASE node["root"].kind = "none"
    BY <1>4, <1>5, <2>1 DEF PrepareOpen, At, fsys
  <2>2. CASE node["root"].kind # "none" /\ Ok(PrivateDirectory(node["root"])) = "ok"
    BY <1>4, <1>5, <2>2 DEF PrepareOpen, At, fsys, Check
  <2>3. CASE node["root"].kind # "none" /\ Ok(PrivateDirectory(node["root"])) # "ok"
    BY <1>3, <1>5, <2>3, WaysOut DEF PrepareOpen, At, Check
  <2> QED BY <2>1, <2>2, <2>3
<1>6. CASE LinuxPrepareMkdir(p)
  BY <1>4, <1>6 DEF LinuxPrepareMkdir, At, fsys, MakeRoot
<1>7. CASE MacPrepareMkdir(p)
  <2>1. CASE node["root"].kind = "none"
    BY <1>4, <1>7, <2>1 DEF MacPrepareMkdir, At, MakeRoot
  <2>2. CASE node["root"].kind # "none"
    BY <1>3, <1>7, <2>2, WaysOut DEF MacPrepareMkdir, At
  <2> QED BY <2>1, <2>2
<1> QED BY <1>2, <1>5, <1>6, <1>7

\* Opening, locking and timing out on lifecycle.lock (acquire_bootstrap).
LEMMA LockingKeeps ==
  ASSUME BootstrapInv, touched' = touched, NEW p \in Procs, LockOpen(p) \/ Flock(p) \/ FlockTimeout(p)
  PROVE  BootstrapInv'
<1>1. ShapeOK /\ mem[p] \in Memory
  BY DEF BootstrapInv, ShapeOK
<1>2. ASSUME Leaves(p), node' = node PROVE BootstrapInv'
  BY <1>1, <1>2, LeaveKeeps DEF ShapeOK
<1>3. CASE LockOpen(p) /\ Leaves(p) /\ node' = node
  BY <1>2, <1>3
<1>4. CASE LockOpen(p) /\ ~(Leaves(p) /\ node' = node)
  <2> DEFINE new == node["lock"].kind = "none"
             i == IF new THEN nextIno ELSE node["lock"].ino
  <2>1. /\ pc[p] = "lockopen" /\ Goto(p, "flock") /\ tmp' = tmp
        /\ node' = IF new THEN [node EXCEPT !["lock"] = NewFile(i, NoDoc)] ELSE node
        /\ nextIno' = IF new THEN nextIno + 1 ELSE nextIno
        /\ mem' = [mem EXCEPT ![p].lock = i, ![p].root = node["root"].ino]
    BY <1>4, WaysOut DEF LockOpen, At
  <2>2. i \in Nat /\ "lock" \in Names /\ "root" \in Names
    BY <1>1 DEF ShapeOK, Entry, Names
  <2>3. NewFile(i, NoDoc) \in Entry /\ NewFile(i, NoDoc).ino = i /\ NewFile(i, NoDoc).kind = "file"
    BY <2>2, NewEntries, NewDocuments DEF NewFile
  <2> HIDE DEF i
  <2>4. node' \in [Names -> Entry] /\ nextIno' \in Nat
    <3>1. node \in [Names -> Entry] /\ nextIno \in Nat
      BY <1>1 DEF ShapeOK
    <3>2. [node EXCEPT !["lock"] = NewFile(i, NoDoc)] \in [Names -> Entry]
      BY <2>3, <3>1
    <3> QED BY <2>1, <3>1, <3>2
  <2>5. node["root"].ino \in Nat
    BY <1>1, <2>2 DEF ShapeOK, Entry
  <2>6. mem' \in [Procs -> Memory] /\ mem'[p].lock = i /\ mem'[p].held = mem[p].held
    BY <1>1, <2>1, <2>2, <2>5 DEF ShapeOK, Memory
  <2>7. ShapeOK'
    BY <1>1, <2>1, <2>4, <2>6, OwnStepShape DEF ShapeOK, Outside, DoctorLabels
  <2>8. /\ pc'[p] = "flock" /\ \A q \in Procs \ {p} : pc'[q] = pc[q] /\ mem'[q] = mem[q] /\ tmp'[q] = tmp[q]
        /\ node'["lock"].ino = i /\ node'["lock"].kind # "none"
        /\ \A n \in Names \ {"lock"} : node'[n] = node[n]
    <3>1. pc'[p] = "flock" /\ \A q \in Procs \ {p} : pc'[q] = pc[q] /\ mem'[q] = mem[q] /\ tmp'[q] = tmp[q]
      BY <1>1, <2>1 DEF ShapeOK, Goto
    <3>2. CASE new
      BY <1>1, <2>1, <2>2, <2>3, <3>1, <3>2 DEF ShapeOK
    <3>3. CASE ~new
      BY <2>1, <3>1, <3>3 DEF i
    <3> QED BY <3>2, <3>3
  <2>9. LockIsOne => ~mem[p].held
    BY <2>1 DEF LockIsOne, Inside, Looking, Claiming, Finishing, Committing
  <2>10. LockIsOne => \A q \in Procs \ {p} : pc'[q] = "flock" \/ mem'[q].held => ~new
    BY <2>8 DEF LockIsOne
  <2>11. ASSUME LockIsOne PROVE LockIsOne'
    <3>1. \A q \in Procs : pc'[q] = "flock" \/ mem'[q].held =>
            node'["lock"].kind # "none" /\ mem'[q].lock = node'["lock"].ino
      <4>1. ~new => node'["lock"] = node["lock"]
        BY <2>1
      <4> QED BY <2>6, <2>8, <2>10, <2>11, <4>1 DEF LockIsOne
    <3>2. \A q \in Procs : mem'[q].held => mem[q].held /\ q # p
      BY <2>6, <2>8, <2>9, <2>11
    <3>3. \A q \in Procs : mem'[q].held => q \notin Doctors /\ pc'[q] \in Inside
      BY <2>8, <2>11, <3>2 DEF LockIsOne
    <3>4. \A q \in Procs \ Doctors : pc'[q] \in Inside => mem'[q].held
      BY <2>8, <2>11 DEF LockIsOne, Inside, Looking, Claiming, Finishing, Committing
    <3> QED BY <2>11, <3>1, <3>2, <3>3, <3>4 DEF LockIsOne
  <2>12. Untouched => \A q \in Procs : Progress(q)'
    BY <2>8 DEF Untouched, Progress, PrivateDirectory, Names, Claiming, Finishing, Committing
  <2>13. Untouched => Committed'
    BY <2>8 DEF Untouched, Committed, Complete, Installed, PrivateDirectory, Names
  <2> QED BY <2>7, <2>11, <2>12, <2>13 DEF BootstrapInv, Untouched
<1>5. CASE Flock(p)
  <2>1. /\ pc[p] = "flock" /\ FlockHolder(mem[p].lock) = {}
        /\ mem' = [mem EXCEPT ![p].held = TRUE] /\ Goto(p, "locked")
        /\ UNCHANGED <<node, tmp, nextIno>>
    BY <1>5 DEF Flock, At, fsys
  <2>2. mem' \in [Procs -> Memory] /\ mem'[p].held /\ mem'[p].lock = mem[p].lock
    BY <1>1, <2>1 DEF ShapeOK, Memory
  <2>3. p \notin Doctors
    BY <1>1, <2>1 DEF ShapeOK, DoctorLabels
  <2>4. ShapeOK'
    BY <1>1, <2>1, <2>2, <2>3, OwnStepShape DEF ShapeOK, Inside, Looking
  <2>5. /\ pc'[p] = "locked" /\ \A q \in Procs \ {p} : pc'[q] = pc[q] /\ mem'[q] = mem[q]
    BY <1>1, <2>1 DEF ShapeOK, Goto
  <2>6. LockIsOne => \A q \in Procs : ~mem[q].held
    BY <2>1 DEF LockIsOne, FlockHolder
  <2>7. LockIsOne => LockIsOne'
    BY <2>1, <2>2, <2>3, <2>5, <2>6 DEF LockIsOne, Inside, Looking
  <2>8. Untouched => \A q \in Procs : Progress(q)'
    BY <2>1, <2>5 DEF Untouched, Progress, PrivateDirectory, Claiming, Finishing, Committing
  <2> QED BY <2>1, <2>4, <2>7, <2>8, SameEntries DEF BootstrapInv, Untouched
<1>6. CASE FlockTimeout(p)
  BY <1>2, <1>6, WaysOut DEF FlockTimeout
<1> QED BY <1>3, <1>4, <1>5, <1>6

-----------------------------------------------------------------------------
(* The steps under the lock *)

\* The config is read and the existing installation inspected: nothing is changed.
LEMMA LookingKeeps ==
  ASSUME BootstrapInv, NEW p \in Procs,
         \/ LockAcquired(p) \/ ReadConfig(p) \/ ValidateLayout(p) \/ RequireReadyMarker(p)
         \/ InspectDatabase(p) \/ InspectExisting(p)
  PROVE  BootstrapInv'
<1>1. ShapeOK /\ mem[p] \in Memory
  BY DEF BootstrapInv, ShapeOK
<1>2. touched' = touched
  BY DEF LockAcquired, ReadConfig, ValidateLayout, RequireReadyMarker, InspectDatabase, InspectExisting, At, environment
<1>3. ASSUME Leaves(p), node' = node PROVE BootstrapInv'
  BY <1>1, <1>2, <1>3, LeaveKeeps DEF ShapeOK
<1>4. ASSUME NEW l \in Looking \ {"locked"}, NEW verdict, NEW stage, Check(p, verdict, stage, l), pc[p] \in Looking
      PROVE  BootstrapInv'
  <2>1. l \in Inside /\ l \in DoctorLabels /\ pc[p] \in Inside
    BY <1>4 DEF Looking, Inside, DoctorLabels
  <2>2. pc'[p] = l => Progress(p)'
    BY <1>4 DEF Progress, Looking, Claiming, Finishing, Committing
  <2> QED BY <1>2, <1>4, <2>1, <2>2, CheckKeeps
<1>5. ASSUME NEW l \in {"layout", "marker1", "dataroot"}, Goto(p, l), pc[p] \in Looking, l = "dataroot" => p \notin Doctors,
             UNCHANGED <<node, tmp, nextIno>>, mem' \in [Procs -> Memory],
             \A q \in Procs : mem'[q].held = mem[q].held /\ mem'[q].lock = mem[q].lock,
             l = "dataroot" => node["config"].kind = "none"
      PROVE  BootstrapInv'
  <2>1. ShapeOK'
    BY <1>1, <1>5, OwnStepShape DEF ShapeOK, Inside, Looking, Claiming, DoctorLabels
  <2>2. Progress(p)'
    BY <1>1, <1>5 DEF Progress, Goto, ShapeOK, Looking, Claiming, Finishing, Committing
  <2>3. l # "flock" /\ l \in Inside /\ pc[p] \in Inside
    BY <1>5 DEF Inside, Looking, Claiming
  <2>4. touched = {} => Committed'
    BY <1>5, SameEntries DEF BootstrapInv, Untouched
  <2> QED BY <1>2, <1>5, <2>1, <2>2, <2>3, <2>4, Move DEF Goto
<1>6. CASE LockAcquired(p)
  BY <1>4, <1>6 DEF LockAcquired, At, Looking
<1>7. CASE ReadConfig(p)
  <2>1. pc[p] = "config"
    BY <1>7 DEF ReadConfig, At
  <2>2. CASE Leaves(p) /\ node' = node
    BY <1>3, <2>2
  <2>3. CASE /\ mem' = [mem EXCEPT ![p].id = node["config"].doc[2]] /\ Goto(p, "layout") /\ UNCHANGED <<node, tmp, nextIno>>
    <3>1. node["config"].doc[2] \in Nat
      BY <1>1 DEF ShapeOK, Entry, Doc, Names
    <3>2. /\ mem' \in [Procs -> Memory]
          /\ \A q \in Procs : mem'[q].held = mem[q].held /\ mem'[q].lock = mem[q].lock
      BY <1>1, <2>3, <3>1 DEF ShapeOK, Memory
    <3> QED BY <1>5, <2>1, <2>3, <3>2 DEF Looking
  <2>4. CASE /\ Goto(p, "dataroot") /\ UNCHANGED <<node, tmp, nextIno, mem>>
             /\ p \notin Doctors /\ node["config"].kind = "none"
    BY <1>1, <1>5, <2>1, <2>4 DEF Looking, ShapeOK
  <2> QED BY <1>7, <2>2, <2>3, <2>4, WaysOut DEF ReadConfig, fsys
<1>8. CASE ValidateLayout(p)
  <2>1. pc[p] = "layout"
    BY <1>8 DEF ValidateLayout, At
  <2>2. CASE Leaves(p) /\ node' = node
    BY <1>3, <2>2
  <2>3. CASE mem' = [mem EXCEPT ![p].layout = HeldLayout(node)] /\ Goto(p, "marker1") /\ UNCHANGED <<node, tmp, nextIno>>
    <3>1. HeldLayout(node) \in [metadata : Nat, logs : Nat, db : Nat]
      BY <1>1 DEF ShapeOK, Entry, Names, HeldLayout
    <3>2. /\ mem' \in [Procs -> Memory]
          /\ \A q \in Procs : mem'[q].held = mem[q].held /\ mem'[q].lock = mem[q].lock
      BY <1>1, <2>3, <3>1 DEF ShapeOK, Memory
    <3> QED BY <1>5, <2>1, <2>3, <3>2 DEF Looking
  <2> QED BY <1>8, <2>2, <2>3, WaysOut DEF ValidateLayout, fsys
<1>9. CASE RequireReadyMarker(p)
  <2>1. CASE pc[p] = "marker1" /\ Check(p, ReadyMarkerNames(mem[p].id), "Control", "inspect")
    BY <1>4, <2>1 DEF Looking
  <2>2. CASE Leaves(p) /\ node' = node
    BY <1>3, <2>2
  <2> QED BY <1>9, <2>1, <2>2, WaysOut DEF RequireReadyMarker, At
<1>10. CASE InspectDatabase(p)
  BY <1>4, <1>10 DEF InspectDatabase, At, Looking
<1>11. CASE InspectExisting(p)
  BY <1>4, <1>11 DEF InspectExisting, At, Looking
<1> QED BY <1>6, <1>7, <1>8, <1>9, <1>10, <1>11

\* The first failed check is an error: no error means that none failed.
LEMMA FirstOfThree ==
  ASSUME NEW a, NEW b, NEW c, First(<<a, b, c>>) = "ok"
  PROVE  a = "ok" /\ b = "ok" /\ c = "ok"
<1> DEFINE checks == <<a, b, c>>
           failed == {i \in DOMAIN checks : checks[i] # "ok"}
<1>1. DOMAIN checks = 1 .. 3 /\ checks[1] = a /\ checks[2] = b /\ checks[3] = c
  OBVIOUS
<1>2. ASSUME failed # {} PROVE \E i \in failed : \A j \in failed : i <= j
  <2>1. failed \subseteq 1 .. 3
    BY <1>1
  <2> HIDE DEF failed
  <2>2. CASE 1 \in failed
    BY <2>1, <2>2
  <2>3. CASE 1 \notin failed /\ 2 \in failed
    BY <2>1, <2>3
  <2>4. CASE 1 \notin failed /\ 2 \notin failed
    <3>1. PICK j \in failed : TRUE
      BY <1>2
    <3>2. \A i \in failed : i = 3
      BY <2>1, <2>4
    <3> QED BY <3>1, <3>2
  <2> QED BY <2>2, <2>3, <2>4
<1>3. First(checks) = IF failed = {} THEN "ok" ELSE checks[CHOOSE i \in failed : \A j \in failed : i <= j]
  BY DEF First
<1>4. failed = {}
  <2> SUFFICES ASSUME failed # {} PROVE FALSE
    OBVIOUS
  <2> DEFINE first == CHOOSE i \in failed : \A j \in failed : i <= j
  <2>1. first \in failed
    BY <1>2
  <2> HIDE DEF first, checks
  <2>2. checks[first] # "ok"
    BY <2>1
  <2>3. First(checks) = checks[first]
    BY <1>3 DEF first
  <2> QED BY <2>2, <2>3 DEF checks
<1> QED BY <1>1, <1>4

\* The same for two checks.
LEMMA FirstOfTwo ==
  ASSUME NEW a, NEW b, First(<<a, b>>) = "ok"
  PROVE  a = "ok" /\ b = "ok"
<1> DEFINE checks == <<a, b>>
           failed == {i \in DOMAIN checks : checks[i] # "ok"}
<1>1. DOMAIN checks = 1 .. 2 /\ checks[1] = a /\ checks[2] = b
  OBVIOUS
<1>2. ASSUME failed # {} PROVE \E i \in failed : \A j \in failed : i <= j
  <2>1. failed \subseteq 1 .. 2
    BY <1>1
  <2> HIDE DEF failed
  <2>2. CASE 1 \in failed
    BY <2>1, <2>2
  <2>3. CASE 1 \notin failed
    <3>1. PICK j \in failed : TRUE
      BY <1>2
    <3>2. \A i \in failed : i = 2
      BY <2>1, <2>3
    <3> QED BY <3>1, <3>2
  <2> QED BY <2>2, <2>3
<1>3. First(checks) = IF failed = {} THEN "ok" ELSE checks[CHOOSE i \in failed : \A j \in failed : i <= j]
  BY DEF First
<1>4. failed = {}
  <2> SUFFICES ASSUME failed # {} PROVE FALSE
    OBVIOUS
  <2> DEFINE first == CHOOSE i \in failed : \A j \in failed : i <= j
  <2>1. first \in failed
    BY <1>2
  <2> HIDE DEF first, checks
  <2>2. checks[first] # "ok"
    BY <2>1
  <2>3. First(checks) = checks[first]
    BY <1>3 DEF first
  <2> QED BY <2>2, <2>3 DEF checks
<1> QED BY <1>1, <1>4

\* A layout that was revalidated has private metadata and logs directories.
LEMMA LayoutIsPrivate ==
  ASSUME NEW p \in Procs, LayoutHolds(p) = "ok"
  PROVE  PrivateDirectory(node["metadata"]) /\ PrivateDirectory(node["logs"])
<1>1. CASE linux
  BY <1>1 DEF LayoutHolds, LayoutRevalidate, ChildHolds, RevalidatePrivateDirectory
<1>2. CASE ~linux
  BY <1>2 DEF LayoutHolds, MacLayoutRevalidate, MacRevalidateDirectory, MacPrivateDirectory, PrivateDirectory
<1> QED BY <1>1, <1>2

\* While an init builds, no config is there; its steps keep it so.
LEMMA BuildStep ==
  ASSUME BootstrapInv, touched' = touched, NEW p \in Procs, pc[p] \in Claiming \cup Finishing,
         NEW next \in Claiming \cup Finishing, Goto(p, next),
         node' \in [Names -> Entry], tmp' \in [Procs -> Entry], nextIno' \in Nat, mem' \in [Procs -> Memory],
         \A q \in Procs : mem'[q].held = mem[q].held /\ mem'[q].lock = mem[q].lock,
         \A q \in Procs \ {p} : tmp'[q] = tmp[q],
         node'["lock"] = node["lock"], node'["config"] = node["config"],
         touched = {} /\ next \in Finishing =>
           /\ node'["db"].doc = Database(p)
           /\ PrivateDirectory(node'["metadata"]) /\ PrivateDirectory(node'["logs"])
  PROVE  BootstrapInv'
<1>1. p \notin Doctors /\ pc[p] \in Inside /\ next \in Inside /\ next # "flock"
  BY DEF BootstrapInv, ShapeOK, Inside, DoctorLabels, Claiming, Finishing
<1>2. ShapeOK'
  BY <1>1, OwnStepShape DEF BootstrapInv
<1>3. pc'[p] = next
  BY DEF BootstrapInv, ShapeOK, Goto
<1>4. touched = {} => node'["config"].kind = "none"
  BY DEF BootstrapInv, Untouched, Progress
<1>5. touched = {} => Progress(p)' /\ Committed'
  BY <1>3, <1>4 DEF Progress, Committed, PrivateDirectory, Claiming, Finishing, Committing
<1> QED BY <1>1, <1>2, <1>5, Move DEF Goto

\* An init that gives up while it builds leaves no config.
LEMMA BuildLeave ==
  ASSUME BootstrapInv, touched' = touched, NEW p \in Procs, pc[p] \in Claiming \cup Finishing,
         Leaves(p), node' \in [Names -> Entry], node'["lock"] = node["lock"],
         node'["config"] \in {node["config"], Absent}
  PROVE  BootstrapInv'
<1>1. p \notin Doctors /\ pc[p] \in Inside
  BY DEF BootstrapInv, ShapeOK, Inside, DoctorLabels, Claiming, Finishing
<1>2. touched = {} => node'["config"].kind = "none"
  BY DEF BootstrapInv, Untouched, Progress, Absent
<1> QED BY <1>1, <1>2, LeaveKeeps DEF Committed

\* A check of an init that builds.
LEMMA BuildCheck ==
  ASSUME BootstrapInv, touched' = touched, NEW p \in Procs, pc[p] \in Claiming \cup Finishing,
         NEW next \in Claiming \cup Finishing, NEW verdict, NEW stage, Check(p, verdict, stage, next),
         touched = {} /\ verdict = "ok" /\ next \in Finishing =>
           /\ node["db"].doc = Database(p)
           /\ PrivateDirectory(node["metadata"]) /\ PrivateDirectory(node["logs"])
  PROVE  BootstrapInv'
<1>1. ShapeOK
  BY DEF BootstrapInv
<1>2. CASE verdict = "ok"
  <2>1. Goto(p, next) /\ UNCHANGED <<node, tmp, nextIno, mem>>
    BY <1>2 DEF Check, fsys
  <2> QED BY <1>1, <1>2, <2>1, BuildStep DEF ShapeOK
<1>3. CASE verdict # "ok"
  <2>1. Leaves(p) /\ node' = node
    BY <1>3, WaysOut DEF Check
  <2> QED BY <1>1, <2>1, BuildLeave DEF ShapeOK
<1> QED BY <1>2, <1>3

\* The root is claimed: the marker, the children, the database file and the schema.
LEMMA ClaimingKeeps ==
  ASSUME BootstrapInv, NEW p \in Procs,
         \/ PrepareDataRoot(p) \/ CreateInitializing(p) \/ StageMarker(p) \/ PublishMarker(p)
         \/ LinuxMarkerPublished(p) \/ MacMarkerPublished(p)
         \/ StageChild(p) \/ PublishChild(p) \/ CreateDatabaseFile(p) \/ LinuxNewLayout(p) \/ MacNewLayout(p)
         \/ InitializeDatabase(p)
  PROVE  BootstrapInv'
<1>1. ShapeOK /\ mem[p] \in Memory /\ tmp[p] \in Entry /\ p # 0 /\ nextIno \in Nat
  BY BootstrapAssumption DEF BootstrapInv, ShapeOK
<1>2. touched' = touched /\ pc[p] \in Claiming
  <2>1. /\ DOMAIN ChildLabels = {"mkmetadata", "mklogs"}
        /\ \A l \in DOMAIN ChildLabels : ChildLabels[l].pub \in {"pubmetadata", "publogs"}
    BY DEF ChildLabels
  <2>2. ASSUME StageChild(p) \/ PublishChild(p) PROVE touched' = touched /\ pc[p] \in Claiming
    BY <2>1, <2>2 DEF StageChild, PublishChild, At, environment, Claiming
  <2> QED BY <2>2 DEF PrepareDataRoot, CreateInitializing, StageMarker, PublishMarker, LinuxMarkerPublished,
       MacMarkerPublished, CreateDatabaseFile, LinuxNewLayout, MacNewLayout, InitializeDatabase,
       At, environment, Claiming
<1>3. ASSUME Leaves(p), node' = node PROVE BootstrapInv'
  BY <1>1, <1>2, <1>3, BuildLeave DEF ShapeOK
<1>4. ASSUME NEW next \in Claiming, NEW verdict, NEW stage, Check(p, verdict, stage, next) PROVE BootstrapInv'
  BY <1>2, <1>4, BuildCheck DEF Claiming, Finishing
<1>5. CASE PrepareDataRoot(p) \/ CreateInitializing(p) \/ LinuxMarkerPublished(p) \/ LinuxNewLayout(p) \/ MacNewLayout(p)
  BY <1>4, <1>5 DEF PrepareDataRoot, CreateInitializing, LinuxMarkerPublished, LinuxNewLayout, MacNewLayout, Claiming
<1>6. CASE StageMarker(p)
  <2>1. CASE StageTemp(p, Marker("initializing", p)) /\ Goto(p, "markpub")
    <3>1. Marker("initializing", p) \in Doc
      BY NewDocuments
    <3>2. \A q \in Procs \ {p} : tmp'[q] = tmp[q]
      BY <1>1, <2>1 DEF StageTemp, ShapeOK
    <3>3. /\ node' = node /\ tmp' \in [Procs -> Entry] /\ nextIno' \in Nat /\ mem' \in [Procs -> Memory]
          /\ \A q \in Procs : mem'[q].held = mem[q].held /\ mem'[q].lock = mem[q].lock
      BY <1>1, <2>1, <3>1, StageShape
    <3> QED BY <1>1, <1>2, <2>1, <3>2, <3>3, BuildStep DEF Claiming, Finishing, ShapeOK
  <2> QED BY <1>3, <1>6, <2>1, WaysOut DEF StageMarker
<1>7. CASE PublishMarker(p)
  <2>1. CASE PublishNoReplace(p, "marker", [mem[p] EXCEPT !.marker = mem[p].tmp]) /\ Goto(p, "markcheck")
    <3> DEFINE m == [mem[p] EXCEPT !.marker = mem[p].tmp]
    <3>1. m \in Memory /\ m.held = mem[p].held /\ m.lock = mem[p].lock
      BY <1>1 DEF Memory
    <3> HIDE DEF m
    <3>2. /\ node' \in [Names -> Entry] /\ tmp' \in [Procs -> Entry] /\ nextIno' \in Nat /\ mem' \in [Procs -> Memory]
          /\ \A q \in Procs : mem'[q].held = mem[q].held /\ mem'[q].lock = mem[q].lock
          /\ \A n \in Names \ {"marker"} : node'[n] = node[n]
      BY <1>1, <2>1, <3>1, PublishShape DEF m, Names
    <3>3. \A q \in Procs \ {p} : tmp'[q] = tmp[q]
      BY <1>1, <2>1 DEF PublishNoReplace, ShapeOK
    <3> QED BY <1>1, <1>2, <2>1, <3>2, <3>3, BuildStep DEF Claiming, Finishing, Names
  <2> QED BY <1>3, <1>7, <2>1, WaysOut DEF PublishMarker
<1>8. CASE MacMarkerPublished(p)
  <2>1. CASE Goto(p, "mkmetadata") /\ UNCHANGED <<node, tmp, nextIno, mem>>
    BY <1>1, <1>2, <2>1, BuildStep DEF Claiming, Finishing, ShapeOK
  <2>2. CASE Leaves(p) /\ RemoveExactEntry("marker", mem[p].marker)
    <3>1. node' \in [Names -> Entry] /\ node'["lock"] = node["lock"] /\ node'["config"] = node["config"]
      BY <1>1, <2>2, NewEntries DEF RemoveExactEntry, ShapeOK, Names
    <3> QED BY <1>1, <1>2, <2>2, <3>1, BuildLeave
  <2> QED BY <1>8, <2>1, <2>2, WaysOut DEF MacMarkerPublished, fsys
<1>9. CASE StageChild(p)
  <2>1. CASE Leaves(p) /\ node' = node
    BY <1>3, <2>1
  <2>2. ASSUME NEW l \in {"pubmetadata", "publogs"}, Goto(p, l), node' = node,
               tmp' = [tmp EXCEPT ![p] = NewDirectory(nextIno)], nextIno' = nextIno + 1,
               mem' = [mem EXCEPT ![p].tmp = nextIno]
        PROVE  BootstrapInv'
    <3>1. tmp' \in [Procs -> Entry] /\ \A q \in Procs \ {p} : tmp'[q] = tmp[q]
      BY <1>1, <2>2, NewEntries DEF ShapeOK
    <3>2. mem' \in [Procs -> Memory] /\ \A q \in Procs : mem'[q].held = mem[q].held /\ mem'[q].lock = mem[q].lock
      BY <1>1, <2>2 DEF ShapeOK, Memory
    <3> QED BY <1>1, <1>2, <2>2, <3>1, <3>2, BuildStep DEF Claiming, Finishing, ShapeOK
  <2>3. /\ DOMAIN ChildLabels = {"mkmetadata", "mklogs"}
        /\ \A l \in DOMAIN ChildLabels : ChildLabels[l].pub \in {"pubmetadata", "publogs"}
    BY DEF ChildLabels
  <2> QED BY <1>9, <2>1, <2>2, <2>3, WaysOut DEF StageChild
<1>10. CASE PublishChild(p)
  <2>1. ASSUME Leaves(p), node' = node PROVE BootstrapInv'
    BY <1>3, <2>1
  <2>2. ASSUME NEW name \in {"metadata", "logs"}, NEW l \in {"mklogs", "mkdb"}, Goto(p, l),
               PublishNoReplace(p, name, [mem[p] EXCEPT !.layout[name] = mem[p].tmp])
        PROVE  BootstrapInv'
    <3> DEFINE m == [mem[p] EXCEPT !.layout[name] = mem[p].tmp]
    <3>1. m \in Memory /\ m.held = mem[p].held /\ m.lock = mem[p].lock
      <4>1. [mem[p].layout EXCEPT ![name] = mem[p].tmp] \in [metadata : Nat, logs : Nat, db : Nat]
        BY <1>1, <2>2 DEF Memory
      <4>2. m = [mem[p] EXCEPT !.layout = [mem[p].layout EXCEPT ![name] = mem[p].tmp]]
        OBVIOUS
      <4> QED BY <1>1, <4>1, <4>2 DEF Memory
    <3> HIDE DEF m
    <3>2. /\ node' \in [Names -> Entry] /\ tmp' \in [Procs -> Entry] /\ nextIno' \in Nat /\ mem' \in [Procs -> Memory]
          /\ \A q \in Procs : mem'[q].held = mem[q].held /\ mem'[q].lock = mem[q].lock
          /\ \A n \in Names \ {name} : node'[n] = node[n]
      BY <1>1, <2>2, <3>1, PublishShape DEF m, Names
    <3>3. \A q \in Procs \ {p} : tmp'[q] = tmp[q]
      BY <1>1, <2>2 DEF PublishNoReplace, ShapeOK
    <3> QED BY <1>1, <1>2, <2>2, <3>2, <3>3, BuildStep DEF Claiming, Finishing, Names
  <2>3. /\ DOMAIN ChildLabels = {"mkmetadata", "mklogs"}
        /\ \A l \in DOMAIN ChildLabels : ChildLabels[l].name \in {"metadata", "logs"}
    BY DEF ChildLabels
  <2> QED BY <1>10, <2>1, <2>2, <2>3, WaysOut DEF PublishChild
<1>11. CASE CreateDatabaseFile(p)
  <2>1. CASE /\ node' = [node EXCEPT !["db"] = NewFile(nextIno, EmptyDatabase)]
             /\ mem' = [mem EXCEPT ![p].layout.db = nextIno] /\ nextIno' = nextIno + 1
             /\ Goto(p, "newlayout") /\ tmp' = tmp
    <3>1. node' \in [Names -> Entry] /\ node'["lock"] = node["lock"] /\ node'["config"] = node["config"]
      BY <1>1, <2>1, NewEntries, NewDocuments DEF ShapeOK, Names
    <3>2. mem' \in [Procs -> Memory] /\ \A q \in Procs : mem'[q].held = mem[q].held /\ mem'[q].lock = mem[q].lock
      BY <1>1, <2>1 DEF ShapeOK, Memory
    <3> QED BY <1>1, <1>2, <2>1, <3>1, <3>2, BuildStep DEF Claiming, Finishing, ShapeOK
  <2> QED BY <1>3, <1>11, <2>1, WaysOut DEF CreateDatabaseFile
<1>12. CASE InitializeDatabase(p)
  <2> DEFINE verdict == First(<<LayoutHolds(p), OpenOrInitialize(p)>>)
  <2>1. CASE verdict # "ok"
    BY <1>3, <1>12, <2>1, WaysOut DEF InitializeDatabase
  <2>2. CASE verdict = "ok"
    <3>1. node' = [node EXCEPT !["db"].doc = Database(p)] /\ Goto(p, "dbcheck") /\ UNCHANGED <<tmp, nextIno, mem>>
      BY <1>12, <2>2 DEF InitializeDatabase
    <3>2. PrivateDirectory(node["metadata"]) /\ PrivateDirectory(node["logs"])
      BY <2>2, FirstOfTwo, LayoutIsPrivate
    <3>3. /\ node' \in [Names -> Entry] /\ node'["db"].doc = Database(p)
          /\ \A n \in Names \ {"db"} : node'[n] = node[n]
      BY <1>1, <3>1, NewDocuments DEF ShapeOK, Entry, Names
    <3> HIDE DEF verdict
    <3>4. /\ PrivateDirectory(node'["metadata"]) /\ PrivateDirectory(node'["logs"])
          /\ node'["lock"] = node["lock"] /\ node'["config"] = node["config"]
      BY <3>2, <3>3 DEF Names
    <3> QED BY <1>1, <1>2, <3>1, <3>3, <3>4, BuildStep DEF Claiming, Finishing, ShapeOK
  <2> QED BY <2>1, <2>2
<1> QED BY <1>5, <1>6, <1>7, <1>8, <1>9, <1>10, <1>11, <1>12

\* The Ready marker is staged, exchanged and verified.
LEMMA FinishingKeeps ==
  ASSUME BootstrapInv, NEW p \in Procs,
         \/ DatabaseInitialized(p) \/ StageReady(p) \/ ExchangeMarker(p)
         \/ LinuxReadyExchanged(p) \/ MacReadyExchanged(p)
  PROVE  BootstrapInv'
<1>1. ShapeOK /\ mem[p] \in Memory /\ tmp[p] \in Entry /\ nextIno \in Nat
  BY DEF BootstrapInv, ShapeOK
<1>2. touched' = touched /\ pc[p] \in Finishing
  BY DEF DatabaseInitialized, StageReady, ExchangeMarker, LinuxReadyExchanged, MacReadyExchanged,
         At, environment, Finishing
<1>3. touched = {} => /\ node["db"].doc = Database(p)
                      /\ PrivateDirectory(node["metadata"]) /\ PrivateDirectory(node["logs"])
  BY <1>2 DEF BootstrapInv, Untouched, Progress
<1>4. ASSUME Leaves(p), node' \in {node, [node EXCEPT !["marker"] = tmp[p]]} PROVE BootstrapInv'
  <2>1. node' \in [Names -> Entry] /\ node'["lock"] = node["lock"] /\ node'["config"] = node["config"]
    BY <1>1, <1>4 DEF ShapeOK, Names
  <2> QED BY <1>2, <1>4, <2>1, BuildLeave
\* A step that goes on and changes the marker at most.
<1>5. ASSUME NEW next \in {"rdyswap", "rdycheck", "cfgtmp"}, Goto(p, next),
             node' \in [Names -> Entry], \A n \in Names \ {"marker"} : node'[n] = node[n],
             tmp' \in [Procs -> Entry], \A q \in Procs \ {p} : tmp'[q] = tmp[q],
             nextIno' \in Nat, mem' \in [Procs -> Memory],
             \A q \in Procs : mem'[q].held = mem[q].held /\ mem'[q].lock = mem[q].lock
      PROVE  BootstrapInv'
  <2>1. /\ node'["lock"] = node["lock"] /\ node'["config"] = node["config"] /\ node'["db"] = node["db"]
        /\ node'["metadata"] = node["metadata"] /\ node'["logs"] = node["logs"]
    BY <1>5 DEF Names
  <2>2. touched = {} => /\ node'["db"].doc = Database(p)
                        /\ PrivateDirectory(node'["metadata"]) /\ PrivateDirectory(node'["logs"])
    BY <1>3, <2>1
  <2>3. next \in Claiming \cup Finishing /\ pc[p] \in Claiming \cup Finishing
    BY <1>2 DEF Finishing
  <2> QED BY <1>2, <1>5, <2>1, <2>2, <2>3, BuildStep
<1>6. CASE DatabaseInitialized(p)
  <2>1. Check(p, LayoutHolds(p), "Control", "rdytmp")
    BY <1>6 DEF DatabaseInitialized
  <2>2. "rdytmp" \in Claiming \cup Finishing /\ pc[p] \in Claiming \cup Finishing
    BY <1>2 DEF Finishing
  <2> QED BY <1>2, <1>3, <2>1, <2>2, BuildCheck
<1>7. CASE StageReady(p)
  <2>1. CASE StageTemp(p, Marker("ready", p)) /\ Goto(p, "rdyswap")
    <3>1. Marker("ready", p) \in Doc
      BY NewDocuments
    <3>2. \A q \in Procs \ {p} : tmp'[q] = tmp[q]
      BY <1>1, <2>1 DEF StageTemp, ShapeOK
    <3>3. /\ node' = node /\ tmp' \in [Procs -> Entry] /\ nextIno' \in Nat /\ mem' \in [Procs -> Memory]
          /\ \A q \in Procs : mem'[q].held = mem[q].held /\ mem'[q].lock = mem[q].lock
      BY <1>1, <2>1, <3>1, StageShape
    <3> QED BY <1>1, <1>5, <2>1, <3>2, <3>3 DEF ShapeOK
  <2> QED BY <1>4, <1>7, <2>1, WaysOut DEF StageReady
<1>8. CASE ExchangeMarker(p)
  <2>1. CASE /\ node' = [node EXCEPT !["marker"] = tmp[p]] /\ tmp' = [tmp EXCEPT ![p] = node["marker"]]
             /\ mem' = [mem EXCEPT ![p].active = FALSE] /\ Goto(p, "rdycheck") /\ nextIno' = nextIno
    <3>1. node' \in [Names -> Entry] /\ \A n \in Names \ {"marker"} : node'[n] = node[n]
      BY <1>1, <2>1 DEF ShapeOK
    <3>2. tmp' \in [Procs -> Entry] /\ \A q \in Procs \ {p} : tmp'[q] = tmp[q]
      BY <1>1, <2>1 DEF ShapeOK, Names
    <3>3. mem' \in [Procs -> Memory] /\ \A q \in Procs : mem'[q].held = mem[q].held /\ mem'[q].lock = mem[q].lock
      BY <1>1, <2>1 DEF ShapeOK, Memory
    <3> QED BY <1>1, <1>5, <2>1, <3>1, <3>2, <3>3
  <2> QED BY <1>4, <1>8, <2>1, WaysOut DEF ExchangeMarker
<1>9. CASE LinuxReadyExchanged(p) \/ MacReadyExchanged(p)
  <2>1. CASE tmp' = [tmp EXCEPT ![p] = Absent] /\ Goto(p, "cfgtmp") /\ UNCHANGED <<node, nextIno, mem>>
    <3>1. tmp' \in [Procs -> Entry] /\ \A q \in Procs \ {p} : tmp'[q] = tmp[q]
      BY <1>1, <2>1, NewEntries DEF ShapeOK
    <3> QED BY <1>1, <1>5, <2>1, <3>1 DEF ShapeOK
  <2> QED BY <1>4, <1>9, <2>1, WaysOut DEF LinuxReadyExchanged, MacReadyExchanged
<1> QED BY <1>6, <1>7, <1>8, <1>9

\* The config is staged behind the Ready marker and published once.
LEMMA CommittingKeeps ==
  ASSUME BootstrapInv, NEW p \in Procs,
         StageConfig(p) \/ PublishConfig(p) \/ LinuxConfigPublished(p) \/ MacConfigPublished(p)
  PROVE  BootstrapInv'
<1>1. ShapeOK /\ mem[p] \in Memory /\ tmp[p] \in Entry /\ nextIno \in Nat
  BY DEF BootstrapInv, ShapeOK
<1>2. touched' = touched /\ pc[p] \in {"cfgtmp", "cfgpub", "cfgcheck"}
  BY DEF StageConfig, PublishConfig, LinuxConfigPublished, MacConfigPublished, At, environment
<1>3. p \notin Doctors /\ pc[p] \in Inside
  BY <1>1, <1>2 DEF ShapeOK, Inside, DoctorLabels, Finishing, Committing
<1>4. touched = {} => /\ node["db"].doc = Database(p)
                      /\ PrivateDirectory(node["metadata"]) /\ PrivateDirectory(node["logs"])
  BY <1>2 DEF BootstrapInv, Untouched, Progress, Finishing, Committing
<1>5. ASSUME Leaves(p), node' = node PROVE BootstrapInv'
  BY <1>1, <1>2, <1>5, LeaveKeeps DEF ShapeOK
\* A step that goes on.
<1>6. ASSUME NEW next \in {"cfgpub", "cfgcheck"}, Goto(p, next), ShapeOK',
             \A q \in Procs : mem'[q].held = mem[q].held /\ mem'[q].lock = mem[q].lock,
             \A q \in Procs \ {p} : tmp'[q] = tmp[q], node'["lock"] = node["lock"],
             touched = {} => Progress(p)' /\ Committed'
      PROVE  BootstrapInv'
  <2>1. next \in (Inside \cup Outside) \ {"flock"} /\ next \in Inside /\ pc' = [pc EXCEPT ![p] = next]
    BY <1>6 DEF Goto, Inside, Committing
  <2> QED BY <1>2, <1>3, <1>6, <2>1, Move
<1>7. CASE StageConfig(p)
  <2> DEFINE verdict == IF linux THEN LinuxPublishConfig(p) ELSE MacPublishConfig(p)
  <2>1. CASE Leaves(p) /\ node' = node
    BY <1>5, <2>1
  <2>2. CASE /\ verdict = "ok" /\ node["config"].kind = "none"
             /\ StageTemp(p, ConfigDoc(p)) /\ Goto(p, "cfgpub")
    <3>1. ReadyMarkerNames(p) = "ok"
      BY <2>2, FirstOfThree DEF LinuxPublishConfig, MacPublishConfig
    <3>2. node["marker"].doc = Marker("ready", p)
      BY <3>1 DEF ReadyMarkerNames, Ok, ChangedKind
    <3>3. /\ node' = node /\ tmp' \in [Procs -> Entry] /\ nextIno' \in Nat /\ mem' \in [Procs -> Memory]
          /\ \A q \in Procs : mem'[q].held = mem[q].held /\ mem'[q].lock = mem[q].lock
          /\ tmp'[p].doc = ConfigDoc(p)
      <4>1. ConfigDoc(p) \in Doc
        BY NewDocuments
      <4> QED BY <1>1, <2>2, <4>1, StageShape
    <3>4. \A q \in Procs \ {p} : tmp'[q] = tmp[q]
      BY <1>1, <2>2 DEF StageTemp, ShapeOK
    <3>5. ShapeOK'
      BY <1>1, <1>3, <2>2, <3>3, OwnStepShape DEF ShapeOK, Inside, Committing
    <3>6. pc'[p] = "cfgpub"
      BY <1>1, <2>2 DEF Goto, ShapeOK
    <3>7. touched = {} => Progress(p)' /\ Committed'
      BY <1>4, <2>2, <3>2, <3>3, <3>6 DEF Progress, Committed, PrivateDirectory, Claiming, Finishing, Committing
    <3> QED BY <1>6, <2>2, <3>3, <3>4, <3>5, <3>7
  <2> QED BY <1>7, <2>1, <2>2, WaysOut DEF StageConfig
<1>8. CASE PublishConfig(p)
  <2>1. CASE Leaves(p) /\ node' = node
    BY <1>5, <2>1
  <2>2. CASE PublishNoReplace(p, "config", mem[p]) /\ Goto(p, "cfgcheck")
    <3>1. /\ node' \in [Names -> Entry] /\ tmp' \in [Procs -> Entry] /\ nextIno' \in Nat /\ mem' \in [Procs -> Memory]
          /\ \A q \in Procs : mem'[q].held = mem[q].held /\ mem'[q].lock = mem[q].lock
          /\ node'["config"] = tmp[p] /\ \A n \in Names \ {"config"} : node'[n] = node[n]
      BY <1>1, <2>2, PublishShape DEF Names
    <3>2. \A q \in Procs \ {p} : tmp'[q] = tmp[q]
      BY <1>1, <2>2 DEF PublishNoReplace, ShapeOK
    <3>3. ShapeOK'
      BY <1>1, <1>3, <2>2, <3>1, OwnStepShape DEF Inside, Committing
    <3>4. pc'[p] = "cfgcheck" /\ pc[p] = "cfgpub"
      BY <1>1, <1>8, <2>2 DEF Goto, ShapeOK, PublishConfig, At
    <3>5. /\ node'["lock"] = node["lock"] /\ node'["marker"] = node["marker"] /\ node'["db"] = node["db"]
          /\ node'["metadata"] = node["metadata"] /\ node'["logs"] = node["logs"]
      BY <3>1 DEF Names
    <3>6. touched = {} => tmp[p].doc = ConfigDoc(p) /\ node["marker"].doc = Marker("ready", p)
      BY <3>4 DEF BootstrapInv, Untouched, Progress, Committing
    <3>7. touched = {} => Complete(p)'
      BY <1>4, <3>1, <3>5, <3>6 DEF Complete, Installed, PrivateDirectory
    <3>8. touched = {} => Progress(p)' /\ Committed'
      BY <3>4, <3>7 DEF Progress, Committed, Complete, Installed, PrivateDirectory, Claiming, Finishing, Committing
    <3> QED BY <1>6, <2>2, <3>1, <3>2, <3>3, <3>5, <3>8
  <2> QED BY <1>8, <2>1, <2>2, WaysOut DEF PublishConfig
<1>9. CASE LinuxConfigPublished(p) \/ MacConfigPublished(p)
  <2>1. CASE Leaves(p) /\ node' = node
    BY <1>5, <2>1
  <2>2. CASE Leaves(p) /\ RemoveExactEntry("config", mem[p].tmp)
    <3>1. node' \in [Names -> Entry] /\ node'["lock"] = node["lock"] /\ node' \in {node, [node EXCEPT !["config"] = Absent]}
      BY <1>1, <2>2, NewEntries DEF RemoveExactEntry, ShapeOK, Names
    <3>2. touched = {} => Committed'
      BY <1>1, <3>1 DEF BootstrapInv, Untouched, Committed, Complete, Installed, PrivateDirectory, Absent, ShapeOK, Names
    <3> QED BY <1>1, <1>2, <1>3, <2>2, <3>1, <3>2, LeaveKeeps
  <2> QED BY <1>9, <2>1, <2>2, WaysOut DEF LinuxConfigPublished, MacConfigPublished
<1> QED BY <1>7, <1>8, <1>9

-----------------------------------------------------------------------------
(* Kills and failing calls *)

\* A kill drops the lock, a failing call returns or takes the undo path.
LEMMA TroubleKeeps ==
  ASSUME BootstrapInv, NEW p \in Procs, Kill(p) \/ Fault(p)
  PROVE  BootstrapInv'
<1>1. ShapeOK /\ touched' = touched
  BY DEF BootstrapInv, Kill, Fault
<1>2. ASSUME Leaves(p), node' = node PROVE BootstrapInv'
  BY <1>1, <1>2, LeaveKeeps DEF ShapeOK
<1>3. CASE Kill(p)
  <2>1. /\ pc' = [pc EXCEPT ![p] = "killed"] /\ mem' = [mem EXCEPT ![p] = NoMem]
        /\ tmp' = tmp /\ nextIno' = nextIno /\ node' = node
    BY <1>3 DEF Kill, fsys
  <2> QED BY <1>1, <2>1, LeaveKeeps DEF ShapeOK
<1>4. CASE Fault(p)
  <2>1. CASE Fail(p, "Control", "Io")
    BY <1>2, <2>1, WaysOut
  <2>2. CASE pc[p] = "markcheck" /\ MacUndo(p, "marker", mem[p].marker, "Io")
    <3>1. Leaves(p) /\ RemoveExactEntry("marker", mem[p].marker)
      BY <2>2, WaysOut
    <3>2. node' \in [Names -> Entry] /\ node'["lock"] = node["lock"] /\ node'["config"] = node["config"]
      BY <1>1, <3>1, NewEntries DEF RemoveExactEntry, ShapeOK, Names
    <3>3. pc[p] \in Claiming \cup Finishing
      BY <2>2 DEF Claiming
    <3> QED BY <1>1, <3>1, <3>2, <3>3, BuildLeave
  <2>3. CASE pc[p] = "rdycheck" /\ MacUndoExchange(p, "Io")
    <3>1. Leaves(p) /\ node' \in {node, [node EXCEPT !["marker"] = tmp[p]]}
      BY <2>3, WaysOut
    <3>2. node' \in [Names -> Entry] /\ node'["lock"] = node["lock"] /\ node'["config"] = node["config"]
      BY <1>1, <3>1 DEF ShapeOK, Names
    <3>3. pc[p] \in Claiming \cup Finishing
      BY <2>3 DEF Finishing
    <3> QED BY <1>1, <3>1, <3>2, <3>3, BuildLeave
  <2>4. CASE pc[p] = "cfgcheck" /\ MacUndo(p, "config", mem[p].tmp, "Io")
    <3>1. Leaves(p) /\ RemoveExactEntry("config", mem[p].tmp)
      BY <2>4, WaysOut
    <3>2. node' \in [Names -> Entry] /\ node'["lock"] = node["lock"] /\ node' \in {node, [node EXCEPT !["config"] = Absent]}
      BY <1>1, <3>1, NewEntries DEF RemoveExactEntry, ShapeOK, Names
    <3>3. touched = {} => Committed'
      BY <1>1, <3>2 DEF BootstrapInv, Untouched, Committed, Complete, Installed, PrivateDirectory, Absent, ShapeOK, Names
    <3>4. p \notin Doctors /\ pc[p] \in Inside
      BY <1>1, <2>4 DEF ShapeOK, Inside, DoctorLabels, Committing
    <3> QED BY <1>1, <3>1, <3>2, <3>3, <3>4, LeaveKeeps
  <2> QED BY <1>4, <2>1, <2>2, <2>3, <2>4 DEF Fault
<1> QED BY <1>3, <1>4

\* The user: the shapes are kept, and the lock that is left alone.
LEMMA TamperKeeps ==
  ASSUME BootstrapInv, NEW name \in Names, Tamper(name)
  PROVE  BootstrapInv'
<1>1. ShapeOK /\ nextIno \in Nat /\ node[name] \in Entry /\ Absent \in Entry /\ Foreign \in Doc
  BY NewEntries, NewDocuments DEF BootstrapInv, ShapeOK
<1>2. /\ [node[name] EXCEPT !.safe = FALSE] \in Entry /\ [node[name] EXCEPT !.ino = nextIno] \in Entry
      /\ [node[name] EXCEPT !.doc = Foreign] \in Entry
  BY <1>1 DEF Entry
<1>3. PICK t \in Entry : /\ node' = [node EXCEPT ![name] = t,
                               !["db"] = IF name = "metadata" /\ t.ino # node[name].ino THEN Absent
                                         ELSE IF name = "db" THEN t ELSE node["db"]]
                         /\ nextIno' = IF t.ino = nextIno THEN nextIno + 1 ELSE nextIno
  BY <1>1, <1>2 DEF Tamper, Tampered
<1>4. node["db"] \in Entry
  BY <1>1 DEF ShapeOK, Names
<1>5. node' \in [Names -> Entry] /\ nextIno' \in Nat
  <2> DEFINE db == IF name = "metadata" /\ t.ino # node[name].ino THEN Absent
                   ELSE IF name = "db" THEN t ELSE node["db"]
  <2>1. db \in Entry
    BY <1>1, <1>4
  <2>2. node' = [node EXCEPT ![name] = t, !["db"] = db]
    BY <1>3
  <2>3. nextIno' \in Nat
    <3>1. nextIno' = nextIno + 1 \/ nextIno' = nextIno
      BY <1>3
    <3> QED BY <1>1, <3>1
  <2> HIDE DEF db
  <2>4. node' \in [Names -> Entry]
    <3>1. node \in [Names -> Entry]
      BY <1>1 DEF ShapeOK
    <3> QED BY <2>1, <2>2, <3>1
  <2> QED BY <2>3, <2>4
<1>6. UNCHANGED <<tmp, pc, mem>> /\ touched' # {}
  BY DEF Tamper
<1>7. ASSUME "lock" \notin touched', LockIsOne PROVE LockIsOne'
  <2>1. name # "lock"
    BY <1>7 DEF Tamper
  <2>2. node'["lock"] = node["lock"]
    BY <1>1, <1>3, <2>1 DEF ShapeOK, Names
  <2> QED BY <1>6, <1>7, <2>2 DEF LockIsOne
<1>8. touched \subseteq touched'
  BY DEF Tamper
<1> QED BY <1>1, <1>5, <1>6, <1>7, <1>8 DEF BootstrapInv, ShapeOK

-----------------------------------------------------------------------------

\* The control root starts empty and every process idle.
LEMMA InitEstablishesInv == Init => BootstrapInv
<1> SUFFICES ASSUME Init PROVE BootstrapInv
  OBVIOUS
<1>1. ShapeOK
  BY NewEntries, NewMemory, BootstrapAssumption DEF Init, ShapeOK, Outside, DoctorLabels
<1>2. \A p \in Procs : pc[p] = "idle" /\ ~mem[p].held
  BY DEF Init, NoMem
<1>3. node["config"].kind = "none"
  BY DEF Init, Names, Absent
<1>4. Untouched
  BY <1>2, <1>3 DEF Untouched, LockIsOne, Progress, Committed, Inside, Looking, Claiming, Finishing, Committing
<1> QED BY <1>1, <1>4 DEF BootstrapInv, Untouched

\* Every action preserves the invariant.
LEMMA NextKeeps == BootstrapInv /\ [Next]_vars => BootstrapInv'
<1> SUFFICES ASSUME BootstrapInv, [Next]_vars PROVE BootstrapInv'
  OBVIOUS
<1>1. CASE UNCHANGED vars
  BY <1>1 DEF vars, BootstrapInv, ShapeOK, Untouched, LockIsOne, Progress, Committed, Complete, Installed,
              PrivateDirectory
<1>2. ASSUME NEW p \in Procs, Step(p) PROVE BootstrapInv'
  <2>1. CASE Begin(p) \/ PrepareOpen(p) \/ LinuxPrepareMkdir(p) \/ MacPrepareMkdir(p)
    BY <2>1, BeginningKeeps DEF Begin, PrepareOpen, LinuxPrepareMkdir, MacPrepareMkdir, At, environment
  <2>2. CASE LockOpen(p) \/ Flock(p) \/ FlockTimeout(p)
    BY <2>2, LockingKeeps DEF LockOpen, Flock, FlockTimeout, At, environment
  <2>3. CASE \/ LockAcquired(p) \/ ReadConfig(p) \/ ValidateLayout(p) \/ RequireReadyMarker(p)
             \/ InspectDatabase(p) \/ InspectExisting(p)
    BY <2>3, LookingKeeps
  <2>4. CASE \/ PrepareDataRoot(p) \/ CreateInitializing(p) \/ StageMarker(p) \/ PublishMarker(p)
             \/ LinuxMarkerPublished(p) \/ MacMarkerPublished(p)
             \/ StageChild(p) \/ PublishChild(p) \/ CreateDatabaseFile(p) \/ LinuxNewLayout(p) \/ MacNewLayout(p)
             \/ InitializeDatabase(p)
    BY <2>4, ClaimingKeeps
  <2>5. CASE \/ DatabaseInitialized(p) \/ StageReady(p) \/ ExchangeMarker(p)
             \/ LinuxReadyExchanged(p) \/ MacReadyExchanged(p)
    BY <2>5, FinishingKeeps
  <2>6. CASE StageConfig(p) \/ PublishConfig(p) \/ LinuxConfigPublished(p) \/ MacConfigPublished(p)
    BY <2>6, CommittingKeeps
  <2> QED BY <1>2, <2>1, <2>2, <2>3, <2>4, <2>5, <2>6 DEF Step
<1>3. ASSUME NEW p \in Procs, Kill(p) \/ Fault(p) PROVE BootstrapInv'
  BY <1>3, TroubleKeeps
<1>4. ASSUME NEW name \in Names, Tamper(name) PROVE BootstrapInv'
  BY <1>4, TamperKeeps
<1> QED BY <1>1, <1>2, <1>3, <1>4 DEF Next, Stop

\* The invariant of init and doctor: the one lock is held by whoever builds, a
\* config is published only behind the marker, the database and the children
\* (ThinWorkspaceService::init and the bootstrap ports).
THEOREM BootstrapInvariant == Spec => []BootstrapInv
<1>1. Init => BootstrapInv
  BY InitEstablishesInv
<1>2. BootstrapInv /\ [Next]_vars => BootstrapInv'
  BY NextKeeps
<1> QED BY <1>1, <1>2, PTL DEF Spec

\* The config is the commit point of init for any number of inits, doctors,
\* kills and failing calls: whoever finds one finds a complete installation
\* until the user touches the control root (publish_config, read_config).
THEOREM ConfigIsCommitPoint == Spec => []ConfigMeansComplete
<1>1. BootstrapInv => ConfigMeansComplete
  BY DEF BootstrapInv, Untouched, Committed, ConfigMeansComplete
<1> QED BY <1>1, BootstrapInvariant, PTL

\* Mutual exclusion of the builders: until the user touches the lock file no two
\* inits are past the lock, each one that is holds it, and it is the lock the
\* name leads to (acquire_bootstrap, validate_bootstrap_lock).
BuildersExclude ==
  "lock" \notin touched => \A p, q \in Procs \ Doctors : pc[p] \in Inside /\ pc[q] \in Inside =>
    p = q /\ mem[p].lock = node["lock"].ino

\* acquire_bootstrap and validate_bootstrap_lock exclude two builders, whichever
\* process created the lock file and whichever was killed with it.
THEOREM OneBuilderAtATime == Spec => []BuildersExclude
<1>1. BootstrapInv => BuildersExclude
  BY DEF BootstrapInv, LockIsOne, BuildersExclude
<1> QED BY <1>1, BootstrapInvariant, PTL

(***************************************************************************)
(* Theorems about what init and doctor answer and what they leave alone:   *)
(* an answer is about a complete installation, ControlNotEmpty has a cause *)
(* outside the program, and nothing touches what a killed init left.  The  *)
(* steps are told apart by what another process depends on (Sound, Steady, *)
(* Modest); each invariant is then kept by any such step.                  *)
(***************************************************************************)

\* Labels at which the marker is that of the process itself.
Building == {"markcheck", "mkmetadata", "pubmetadata", "mklogs", "publogs", "mkdb", "newlayout", "dbinit"}
              \cup Finishing \cup {"cfgpub"}
Reading == {"layout", "marker1", "inspect", "revalidate", "marker2"}

\* An entry that is not there has no document.
Fresh(e) == e.kind = "none" => e.doc = NoDoc
FreshEntries == Fresh(node["marker"]) /\ Fresh(node["config"]) /\ \A p \in Procs : Fresh(tmp[p])

\* What a process that holds the lock knows of the root and of its own files.
Holds(p) ==
  /\ pc[p] = "flock" \/ mem[p].held => RevalidatePrivateDirectory(node["root"], mem[p].root)
  /\ pc[p] \in {"markpub", "rdyswap"} => tmp[p].doc[2] = p
  /\ pc[p] \in Building \cup {"cfgcheck"} => node["marker"].doc[2] = p
  /\ pc[p] = "cfgpub" => PrivateFileFactsMatch(tmp[p], mem[p].tmp)
  /\ pc[p] = "cfgcheck" => PrivateFileFactsMatch(node["config"], mem[p].tmp)

\* The installation that p has read of; only a doctor may have read a config that
\* is withdrawn.
Stands(p, id) ==
  /\ id \in Procs
  /\ \/ Complete(id)
     \/ macos /\ p \in Doctors /\ Installed(id) /\ out[id].code = "Filesystem"

Reports(p) == pc[p] \in Reading => Stands(p, mem[p].id)

Answers(p) ==
  /\ out[p].code # "none" => pc[p] = "done"
  /\ Succeeded(p) => Stands(p, out[p].id)
  /\ Succeeded(p) /\ p \notin Doctors => \A q \in Procs : pc[q] # "cfgcheck"

Answering ==
  /\ DOMAIN out = Procs /\ FreshEntries
  /\ \A p \in Procs : Holds(p) /\ Reports(p) /\ Answers(p)

AnswerInv == touched = {} => Answering

-----------------------------------------------------------------------------
(* What one step of a process does, told apart only as far as an answer of *)
(* another one depends on it.                                              *)

Calm == BootstrapInv /\ Answering /\ touched = {}

OwnOnly(p) ==
  /\ \A q \in Procs \ {p} : pc'[q] = pc[q] /\ mem'[q] = mem[q] /\ tmp'[q] = tmp[q] /\ out'[q] = out[q]
  /\ DOMAIN out' = Procs /\ platform' = platform /\ pc[p] # "done"

SameInstallation == \A n \in Names \ {"root", "lock"} : node'[n] = node[n]

\* publish_config on macOS takes its config back.
Withdraws(p) ==
  /\ macos /\ pc[p] = "cfgcheck" /\ out'[p].code = "Filesystem"
  /\ \A n \in {"marker", "metadata", "logs", "db"} : node'[n] = node[n]

Touches(p) ==
  \/ SameInstallation
  \/ pc[p] \in Building
  \/ pc[p] = "markpub" /\ node["marker"].kind = "none"
  \/ Withdraws(p)

RootStays == node["root"].kind = "none" \/ node'["root"] = node["root"]

Sound(p) ==
  /\ OwnOnly(p) /\ Touches(p) /\ RootStays /\ FreshEntries'
  /\ pc'[p] = "cfgcheck" => pc[p] = "cfgpub"
  /\ Holds(p)' /\ Reports(p)' /\ Answers(p)'

\* Inits past the lock: one at most.
LEMMA OneInside ==
  ASSUME Calm, NEW p \in Procs \ Doctors, NEW q \in Procs \ Doctors, pc[p] \in Inside, pc[q] \in Inside
  PROVE  p = q
BY DEF Calm, BootstrapInv, Untouched, LockIsOne

\* Only an init builds.
LEMMA BuildersAreInits ==
  ASSUME Calm, NEW p \in Procs, pc[p] \in Building \cup {"markpub", "cfgcheck"}
  PROVE  p \notin Doctors /\ pc[p] \in Inside
BY DEF Calm, BootstrapInv, ShapeOK, Building, Inside, DoctorLabels, Claiming, Finishing, Committing

\* Nobody stands by an installation that is still being built.
LEMMA NothingStands ==
  ASSUME Calm, NEW p \in Procs, NEW q \in Procs, NEW id,
         pc[p] \in Building \/ (pc[p] = "markpub" /\ node["marker"].kind = "none")
  PROVE  ~Stands(q, id)
<1> SUFFICES ASSUME Stands(q, id) PROVE FALSE
  OBVIOUS
<1>1. Installed(id) /\ id \in Procs /\ node["marker"].doc = Marker("ready", id)
  BY DEF Stands, Complete, Installed
<1>2. node["marker"].kind # "none"
  BY <1>1 DEF Calm, Answering, FreshEntries, Fresh, Marker, NoDoc
<1>3. pc[p] \in Building /\ node["marker"].doc[2] = p
  BY <1>2 DEF Calm, Answering, Holds
<1>4. id = p
  BY <1>1, <1>3 DEF Marker
<1>5. pc[p] \in Claiming \cup Finishing \cup {"cfgpub"} /\ pc[p] # "done"
  BY <1>3 DEF Building, Claiming, Finishing
<1>6. node["config"].kind = "none"
  BY <1>5 DEF Calm, BootstrapInv, Untouched, Progress
<1>7. ~Complete(id)
  BY <1>6 DEF Calm, Answering, FreshEntries, Fresh, Complete, ConfigDoc, NoDoc
<1>8. out[p].code = "Filesystem"
  BY <1>4, <1>7 DEF Stands
<1> QED BY <1>5, <1>8 DEF Calm, Answering, Answers

\* What another process stands by, it still stands by after a step of p.
LEMMA OthersStand ==
  ASSUME Calm, NEW p \in Procs, OwnOnly(p), Touches(p), NEW q \in Procs \ {p}, NEW id, Stands(q, id),
         q \in Doctors \/ pc[p] # "cfgcheck"
  PROVE  Stands(q, id)'
<1>1. id = p => out[id].code # "Filesystem"
  BY DEF OwnOnly, Calm, Answering, Answers
<1>2. CASE SameInstallation
  <2>1. /\ node'["marker"] = node["marker"] /\ node'["db"] = node["db"] /\ node'["config"] = node["config"]
        /\ node'["metadata"] = node["metadata"] /\ node'["logs"] = node["logs"]
    BY <1>2 DEF SameInstallation, Names
  <2>2. (Complete(id) => Complete(id)') /\ (Installed(id) => Installed(id)')
    BY <2>1 DEF Complete, Installed, PrivateDirectory
  <2>3. ~Complete(id) => macos' /\ out'[id].code = "Filesystem"
    BY <1>1 DEF Stands, OwnOnly, macos
  <2> QED BY <2>2, <2>3 DEF Stands
<1>3. CASE Withdraws(p)
  <2>1. Installed(id) /\ id \in Procs /\ node["marker"].doc[2] = p
    BY <1>3 DEF Stands, Complete, Withdraws, Calm, Answering, Holds
  <2>2. id = p
    BY <2>1 DEF Installed, Marker
  <2>3. Installed(id)'
    BY <1>3, <2>1 DEF Withdraws, Installed, PrivateDirectory
  <2>4. q \in Doctors /\ macos' /\ out'[id].code = "Filesystem"
    BY <1>3, <2>2 DEF Withdraws, OwnOnly, macos
  <2> QED BY <2>1, <2>3, <2>4 DEF Stands
<1>4. CASE pc[p] \in Building \/ (pc[p] = "markpub" /\ node["marker"].kind = "none")
  BY <1>4, NothingStands
<1> QED BY <1>2, <1>3, <1>4 DEF Touches

\* What a step of p leaves of the others.
LEMMA OthersAnswer ==
  ASSUME Calm, NEW p \in Procs, OwnOnly(p), Touches(p), RootStays,
         pc'[p] = "cfgcheck" => pc[p] = "cfgpub", NEW q \in Procs \ {p}
  PROVE  Holds(q)' /\ Reports(q)' /\ Answers(q)'
<1>1. pc'[q] = pc[q] /\ mem'[q] = mem[q] /\ tmp'[q] = tmp[q] /\ out'[q] = out[q]
  BY DEF OwnOnly
<1>2. Holds(q) /\ Reports(q) /\ Answers(q)
  BY DEF Calm, Answering
<1>3. Holds(q)'
  <2>1. pc[q] = "flock" \/ mem[q].held => node'["root"] = node["root"]
    BY <1>2 DEF Holds, RootStays, RevalidatePrivateDirectory, PrivateDirectory
  <2>2. pc[q] \in Building \cup {"cfgcheck"} => node'["marker"] = node["marker"] /\ node'["config"] = node["config"]
    <3> SUFFICES ASSUME pc[q] \in Building \cup {"cfgcheck"} PROVE SameInstallation
      BY DEF SameInstallation, Names
    <3>1. pc[p] \notin Building \cup {"markpub", "cfgcheck"}
      BY BuildersAreInits, OneInside
    <3> QED BY <3>1 DEF Touches, Withdraws
  <2> QED BY <1>1, <1>2, <2>1, <2>2 DEF Holds, RevalidatePrivateDirectory, PrivateDirectory, PrivateFileFactsMatch, Building
<1>4. Reports(q)'
  <2> SUFFICES ASSUME pc[q] \in Reading PROVE Stands(q, mem[q].id)'
    BY <1>1 DEF Reports
  <2>1. Stands(q, mem[q].id)
    BY <1>2 DEF Reports
  <2>2. q \in Doctors \/ pc[p] # "cfgcheck"
    BY BuildersAreInits, OneInside DEF Reading, Inside, Looking
  <2>3. PICK id : id = mem[q].id
    OBVIOUS
  <2>4. Stands(q, id)'
    BY <2>1, <2>2, <2>3, OthersStand
  <2> QED BY <1>1, <2>3, <2>4 DEF Stands, Complete, Installed
<1>5. Answers(q)'
  <2> SUFFICES ASSUME Succeeded(q)
               PROVE  Stands(q, out[q].id)' /\ (q \notin Doctors => \A r \in Procs : pc'[r] # "cfgcheck")
    BY <1>1, <1>2 DEF Answers, Succeeded
  <2>1. Stands(q, out[q].id) /\ (q \notin Doctors => \A r \in Procs : pc[r] # "cfgcheck")
    BY <1>2 DEF Answers
  <2>2. PICK id : id = out[q].id
    OBVIOUS
  <2>3. Stands(q, id)'
    BY <2>1, <2>2, OthersStand
  <2>4. Stands(q, out[q].id)'
    BY <1>1, <2>2, <2>3 DEF Stands, Complete, Installed
  <2>5. pc'[p] = "cfgcheck" => ~Stands(q, out[q].id)
    BY NothingStands DEF Building
  <2> QED BY <2>1, <2>4, <2>5 DEF OwnOnly
<1> QED BY <1>3, <1>4, <1>5

\* A sound step of one process keeps the invariant.
LEMMA SoundKeeps ==
  ASSUME Calm, NEW p \in Procs, Sound(p)
  PROVE  Answering'
BY OthersAnswer DEF Sound, Answering, OwnOnly


-----------------------------------------------------------------------------
(* Kinds of steps *)

\* What a return writes: the answer of p and no other.
Tells(p) == DOMAIN out' = Procs /\ \A q \in Procs \ {p} : out'[q] = out[q]

\* No failure passes for an answer.
LEMMA FailureCodes ==
  /\ \A stage, kind : MapPort(stage, kind) \notin Successes
  /\ MapPort("Control", "Io") = "Filesystem"
BY DEF MapPort, Successes

\* Every return tells its own answer.
LEMMA Returned ==
  ASSUME Calm, NEW p \in Procs
  PROVE  /\ \A c : FailWith(p, c) => Tells(p) /\ out'[p].code = c
         /\ \A s, k : Fail(p, s, k) => Tells(p) /\ out'[p].code = MapPort(s, k)
         /\ \A c, i : Succeed(p, c, i) => Tells(p) /\ out'[p].code = c /\ out'[p].id = i
         /\ \A k : CleanupAndFail(p, k) => Tells(p) /\ out'[p].code = MapPort("Control", k)
         /\ \A n, i, k : MacUndo(p, n, i, k) => Tells(p) /\ out'[p].code = MapPort("Control", k)
<1>1. \A c, i : Return(p, c, i) => Tells(p) /\ out'[p].code = c /\ out'[p].id = i
  BY DEF Calm, Answering, Return, Tells
<1> QED BY <1>1 DEF FailWith, Fail, Succeed, CleanupAndFail, MacUndo

\* A return of p that leaves the entries sound.
LEMMA EndSound ==
  ASSUME Calm, NEW p \in Procs, Leaves(p), Tells(p), platform' = platform, pc[p] # "done",
         Touches(p), RootStays, Fresh(node'["marker"]), Fresh(node'["config"]),
         out'[p].code \in Successes =>
           node' = node /\ Stands(p, out'[p].id) /\ (p \notin Doctors => pc[p] \in Inside)
  PROVE  Sound(p)
<1>1. /\ pc'[p] = "done" /\ ~mem'[p].held
      /\ \A q \in Procs \ {p} : pc'[q] = pc[q] /\ mem'[q] = mem[q] /\ tmp'[q] = tmp[q]
  BY DEF Leaves, Calm, BootstrapInv, ShapeOK, NoMem
<1>2. OwnOnly(p)
  BY <1>1 DEF OwnOnly, Tells
<1>3. FreshEntries'
  BY DEF FreshEntries, Fresh, Absent, Leaves, Calm, Answering, BootstrapInv, ShapeOK
<1>4. Holds(p)' /\ Reports(p)'
  BY <1>1 DEF Holds, Reports, Building, Reading, Finishing
<1>5. Answers(p)'
  <2> SUFFICES ASSUME out'[p].code \in Successes
               PROVE  Stands(p, out[p].id)' /\ (p \notin Doctors => \A q \in Procs : pc'[q] # "cfgcheck")
    BY <1>1 DEF Answers, Succeeded
  <2>1. PICK id : id = out'[p].id
    OBVIOUS
  <2>2. Stands(p, id)'
    <3>1. ~Complete(id) => id # p /\ out[id].code = "Filesystem"
      BY <2>1 DEF Stands, Calm, Answering, Answers
    <3> QED BY <2>1, <3>1 DEF Stands, Complete, Installed, PrivateDirectory, macos, Tells
  <2>3. ASSUME p \notin Doctors, NEW q \in Procs \ {p} PROVE pc'[q] # "cfgcheck"
    BY <1>1, <2>3, OneInside, BuildersAreInits
  <2> QED BY <1>1, <2>1, <2>2, <2>3 DEF Stands, Complete, Installed
<1> QED BY <1>1, <1>2, <1>3, <1>4, <1>5 DEF Sound

\* An error return.
LEMMA FailSound ==
  ASSUME Calm, NEW p \in Procs, platform' = platform, pc[p] # "done",
         \/ \E s, k : Fail(p, s, k)
         \/ FailWith(p, "NotInitialized") /\ UNCHANGED <<node, nextIno>>
  PROVE  Sound(p)
<1>1. Leaves(p) /\ node' = node
  BY WaysOut
<1>2. Tells(p) /\ out'[p].code \notin Successes
  BY Returned, FailureCodes DEF Successes
<1>3. Touches(p) /\ RootStays /\ Fresh(node'["marker"]) /\ Fresh(node'["config"])
  BY <1>1 DEF Touches, SameInstallation, RootStays, Calm, Answering, FreshEntries
<1> QED BY <1>1, <1>2, <1>3, EndSound

\* A step that goes on.
LEMMA GoSound ==
  ASSUME Calm, NEW p \in Procs, NEW next \in (Inside \cup Outside) \ {"done"}, Goto(p, next),
         platform' = platform, pc[p] # "done",
         \A q \in Procs \ {p} : mem'[q] = mem[q] /\ tmp'[q] = tmp[q],
         Fresh(tmp'[p]), Fresh(node'["marker"]), Fresh(node'["config"]), Touches(p), RootStays,
         next = "cfgcheck" => pc[p] = "cfgpub",
         pc'[p] = next => Holds(p)' /\ Reports(p)'
  PROVE  Sound(p)
<1>1. pc'[p] = next /\ (\A q \in Procs \ {p} : pc'[q] = pc[q]) /\ out' = out
  BY DEF Goto, Calm, BootstrapInv, ShapeOK
<1>2. OwnOnly(p)
  BY <1>1 DEF OwnOnly, Calm, Answering
<1>3. FreshEntries'
  BY DEF FreshEntries, Fresh, Calm, Answering
<1>4. Answers(p)'
  <2>1. out[p].code = "none"
    BY DEF Calm, Answering, Answers
  <2>2. out'[p].code = "none"
    BY <1>1, <2>1
  <2> QED BY <2>2 DEF Answers, Succeeded, Successes
<1> QED BY <1>1, <1>2, <1>3, <1>4 DEF Sound

\* A step that goes on and leaves the entries and the memory as they are.
LEMMA PassSound ==
  ASSUME Calm, NEW p \in Procs, NEW next \in (Inside \cup Outside) \ {"done"}, Goto(p, next),
         UNCHANGED <<node, tmp, mem>>, platform' = platform, pc[p] # "done",
         next \notin {"flock", "markpub", "rdyswap", "cfgpub", "cfgcheck"},
         next \in Building => pc[p] \in Building,
         next \in Reading => Stands(p, mem[p].id)
  PROVE  Sound(p)
<1>1. Touches(p) /\ RootStays /\ Fresh(tmp'[p]) /\ Fresh(node'["marker"]) /\ Fresh(node'["config"])
  BY DEF Touches, SameInstallation, RootStays, Calm, Answering, FreshEntries
<1>2. pc'[p] = next => Holds(p)'
  BY DEF Calm, Answering, Holds, RevalidatePrivateDirectory, PrivateDirectory
<1>3. pc'[p] = next => Reports(p)'
  <2>1. PICK id : id = mem[p].id
    OBVIOUS
  <2>2. out' = out
    BY DEF Goto
  <2> QED BY <2>1, <2>2 DEF Reports, Stands, Complete, Installed, PrivateDirectory, macos
<1> QED BY <1>1, <1>2, <1>3, GoSound

\* A step that only checks.
LEMMA CheckSound ==
  ASSUME Calm, NEW p \in Procs, NEW next \in (Inside \cup Outside) \ {"done"},
         NEW verdict, NEW stage, Check(p, verdict, stage, next), platform' = platform, pc[p] # "done",
         next \notin {"flock", "markpub", "rdyswap", "cfgpub", "cfgcheck"},
         next \in Building => pc[p] \in Building,
         next \in Reading => pc[p] \in Reading
  PROVE  Sound(p)
<1>1. CASE verdict = "ok"
  <2>1. Goto(p, next) /\ UNCHANGED <<node, tmp, mem>>
    BY <1>1 DEF Check, fsys
  <2>2. next \in Reading => Stands(p, mem[p].id)
    BY DEF Calm, Answering, Reports
  <2> QED BY <2>1, <2>2, PassSound
<1>2. CASE verdict # "ok"
  BY <1>2, FailSound DEF Check
<1> QED BY <1>1, <1>2

-----------------------------------------------------------------------------
(* The actions *)

\* Opening and making the control root.
LEMMA BeginningSound ==
  ASSUME Calm, NEW p \in Procs, Begin(p) \/ PrepareOpen(p) \/ LinuxPrepareMkdir(p) \/ MacPrepareMkdir(p)
  PROVE  Sound(p)
<1>1. platform' = platform /\ pc[p] \in {"idle", "prepare", "mkroot"} /\ ~mem[p].held
  <2>1. platform' = platform /\ pc[p] \in {"idle", "prepare", "mkroot"}
    BY DEF Begin, PrepareOpen, LinuxPrepareMkdir, MacPrepareMkdir, At, environment
  <2> QED BY <2>1 DEF Calm, BootstrapInv, Untouched, LockIsOne, Inside, Looking, Claiming, Finishing, Committing
<1>2. ASSUME NEW next \in {"config", "prepare", "mkroot", "lockopen"}, Goto(p, next), UNCHANGED <<node, tmp, mem>>
      PROVE  Sound(p)
  BY <1>1, <1>2, PassSound DEF Inside, Outside, Looking, Building, Finishing, Reading
<1>3. ASSUME Goto(p, "prepare"), MakeRoot, mem' = mem, node["root"].kind = "none" PROVE Sound(p)
  <2>1. \A n \in Names \ {"root"} : node'[n] = node[n]
    BY <1>3 DEF MakeRoot, Calm, BootstrapInv, ShapeOK
  <2>2. node'["marker"] = node["marker"] /\ node'["config"] = node["config"] /\ Touches(p)
    BY <2>1 DEF Names, Touches, SameInstallation
  <2>3. Fresh(tmp'[p]) /\ Fresh(node'["marker"]) /\ Fresh(node'["config"]) /\ RootStays
    BY <1>3, <2>2 DEF MakeRoot, RootStays, Calm, Answering, FreshEntries
  <2>4. pc'[p] = "prepare" => Holds(p)' /\ Reports(p)'
    BY <1>1, <1>3 DEF Holds, Reports, Building, Reading, Finishing
  <2> QED BY <1>1, <1>3, <2>2, <2>3, <2>4, GoSound DEF Outside, MakeRoot
<1>4. ASSUME NEW s, NEW k, Fail(p, s, k) PROVE Sound(p)
  BY <1>1, <1>4, FailSound
<1>5. CASE Begin(p)
  BY <1>2, <1>5 DEF Begin, fsys
<1>6. CASE PrepareOpen(p)
  BY <1>2, <1>4, <1>6 DEF PrepareOpen, Check, fsys
<1>7. CASE LinuxPrepareMkdir(p)
  BY <1>2, <1>3, <1>7 DEF LinuxPrepareMkdir, fsys
<1>8. CASE MacPrepareMkdir(p)
  BY <1>3, <1>4, <1>8 DEF MacPrepareMkdir
<1> QED BY <1>5, <1>6, <1>7, <1>8

\* The lock file and the flock.
LEMMA LockingSound ==
  ASSUME Calm, NEW p \in Procs, LockOpen(p) \/ Flock(p) \/ FlockTimeout(p) \/ LockAcquired(p)
  PROVE  Sound(p)
<1>1. platform' = platform /\ pc[p] \in {"lockopen", "flock", "locked"} /\ ShapeOK
  BY DEF LockOpen, Flock, FlockTimeout, LockAcquired, At, environment, Calm, BootstrapInv
<1>2. ASSUME NEW s, NEW k, Fail(p, s, k) PROVE Sound(p)
  BY <1>1, <1>2, FailSound
<1>3. CASE LockOpen(p)
  <2> DEFINE new == node["lock"].kind = "none"
             i == IF new THEN nextIno ELSE node["lock"].ino
  <2>1. CASE /\ PrivateDirectory(node["root"])
             /\ node' = IF new THEN [node EXCEPT !["lock"] = NewFile(i, NoDoc)] ELSE node
             /\ mem' = [mem EXCEPT ![p].lock = i, ![p].root = node["root"].ino]
             /\ Goto(p, "flock") /\ tmp' = tmp
    <3> HIDE DEF i
    <3>1. \A n \in Names \ {"lock"} : node'[n] = node[n]
      BY <1>1, <2>1 DEF ShapeOK
    <3>2. /\ node'["marker"] = node["marker"] /\ node'["config"] = node["config"]
          /\ node'["root"] = node["root"] /\ Touches(p)
      BY <3>1 DEF Names, Touches, SameInstallation
    <3>3. Fresh(tmp'[p]) /\ Fresh(node'["marker"]) /\ Fresh(node'["config"]) /\ RootStays
      BY <2>1, <3>2 DEF RootStays, Calm, Answering, FreshEntries
    <3>4. (\A q \in Procs \ {p} : mem'[q] = mem[q]) /\ mem'[p].root = node["root"].ino
      BY <1>1, <2>1 DEF ShapeOK, Memory
    <3>5. pc'[p] = "flock" => Holds(p)' /\ Reports(p)'
      BY <2>1, <3>2, <3>4 DEF Holds, Reports, Building, Reading, Finishing, RevalidatePrivateDirectory, PrivateDirectory
    <3> QED BY <1>1, <2>1, <3>2, <3>3, <3>4, <3>5, GoSound DEF Outside
  <2> QED BY <1>2, <1>3, <2>1 DEF LockOpen
<1>4. CASE Flock(p)
  <2>1. mem' = [mem EXCEPT ![p].held = TRUE] /\ Goto(p, "locked") /\ UNCHANGED <<node, tmp>> /\ pc[p] = "flock"
    BY <1>4 DEF Flock, fsys, At
  <2>2. (\A q \in Procs \ {p} : mem'[q] = mem[q]) /\ mem'[p].root = mem[p].root
    BY <1>1, <2>1 DEF ShapeOK, Memory
  <2>3. Touches(p) /\ RootStays /\ Fresh(tmp'[p]) /\ Fresh(node'["marker"]) /\ Fresh(node'["config"])
    BY <2>1 DEF Touches, SameInstallation, RootStays, Calm, Answering, FreshEntries
  <2>4. RevalidatePrivateDirectory(node["root"], mem[p].root)
    BY <2>1 DEF Calm, Answering, Holds
  <2>5. pc'[p] = "locked" => Holds(p)' /\ Reports(p)'
    BY <2>1, <2>2, <2>4 DEF Holds, Reports, Building, Reading, Finishing, RevalidatePrivateDirectory, PrivateDirectory
  <2> QED BY <1>1, <2>1, <2>2, <2>3, <2>5, GoSound DEF Inside, Looking
<1>5. CASE FlockTimeout(p)
  BY <1>2, <1>5 DEF FlockTimeout
<1>6. CASE LockAcquired(p)
  BY <1>1, <1>6, CheckSound DEF LockAcquired, Inside, Looking, Building, Finishing, Reading
<1> QED BY <1>3, <1>4, <1>5, <1>6

\* Whoever reads a config or inspects an installation.
LEMMA LookingSound ==
  ASSUME Calm, NEW p \in Procs,
         ReadConfig(p) \/ ValidateLayout(p) \/ RequireReadyMarker(p) \/ InspectDatabase(p) \/ InspectExisting(p)
  PROVE  Sound(p)
<1>1. platform' = platform /\ pc[p] \in {"config"} \cup Reading /\ ShapeOK
  BY DEF ReadConfig, ValidateLayout, RequireReadyMarker, InspectDatabase, InspectExisting, At, environment,
         Reading, Calm, BootstrapInv
<1>2. ASSUME NEW s, NEW k, Fail(p, s, k) PROVE Sound(p)
  BY <1>1, <1>2, FailSound DEF Reading
<1>3. Reports(p) /\ FreshEntries /\ Holds(p)
  BY DEF Calm, Answering
\* A step that remembers something of what it has read.
<1>4. ASSUME NEW next \in {"layout", "marker1"}, Goto(p, next), UNCHANGED <<node, tmp>>,
             \A q \in Procs \ {p} : mem'[q] = mem[q],
             mem'[p].root = mem[p].root, mem'[p].held = mem[p].held, Stands(p, mem'[p].id)
      PROVE  Sound(p)
  <2>1. Touches(p) /\ RootStays /\ Fresh(tmp'[p]) /\ Fresh(node'["marker"]) /\ Fresh(node'["config"])
    BY <1>3, <1>4 DEF Touches, SameInstallation, RootStays, FreshEntries
  <2>2. pc'[p] = next => Holds(p)'
    BY <1>3, <1>4 DEF Holds, Building, Finishing, RevalidatePrivateDirectory, PrivateDirectory
  <2>3. PICK id : id = mem'[p].id
    OBVIOUS
  <2>4. Stands(p, id)'
    BY <1>1, <1>4, <2>3 DEF Stands, Complete, Installed, PrivateDirectory, macos, Goto
  <2>5. pc'[p] = next => Reports(p)'
    BY <2>3, <2>4 DEF Reports, Stands, Complete, Installed
  <2> QED BY <1>1, <1>4, <2>1, <2>2, <2>5, GoSound DEF Inside, Looking, Reading
<1>5. CASE ReadConfig(p)
  <2>1. CASE node["config"].kind # "none" /\ mem' = [mem EXCEPT ![p].id = node["config"].doc[2]] /\ Goto(p, "layout") /\ UNCHANGED <<node, tmp>>
    <3>1. PICK id \in Procs : Complete(id)
      BY <2>1 DEF Calm, BootstrapInv, Untouched, Committed
    <3>2. node["config"].doc[2] = id
      BY <3>1 DEF Complete, ConfigDoc
    <3>3. mem'[p].id = id /\ mem'[p].root = mem[p].root /\ mem'[p].held = mem[p].held /\ \A q \in Procs \ {p} : mem'[q] = mem[q]
      BY <1>1, <2>1, <3>2 DEF ShapeOK, Memory
    <3> QED BY <1>4, <2>1, <3>1, <3>3 DEF Stands
  <2>2. CASE FailWith(p, "NotInitialized") /\ UNCHANGED <<node, nextIno>>
    BY <1>1, <2>2, FailSound DEF Reading
  <2>3. CASE Goto(p, "dataroot") /\ UNCHANGED <<node, tmp, mem>>
    BY <1>1, <2>3, PassSound DEF Inside, Claiming, Building, Finishing, Reading
  <2> QED BY <1>2, <1>5, <2>1, <2>2, <2>3 DEF ReadConfig, fsys
<1>6. CASE ValidateLayout(p)
  <2>1. CASE mem' = [mem EXCEPT ![p].layout = HeldLayout(node)] /\ Goto(p, "marker1") /\ UNCHANGED <<node, tmp>>
    <3>1. mem'[p].id = mem[p].id /\ mem'[p].root = mem[p].root /\ mem'[p].held = mem[p].held /\ \A q \in Procs \ {p} : mem'[q] = mem[q]
      BY <1>1, <2>1 DEF ShapeOK, Memory
    <3>2. Stands(p, mem[p].id)
      BY <1>3, <1>6 DEF ValidateLayout, At, Reports, Reading
    <3> QED BY <1>4, <2>1, <3>1, <3>2
  <2> QED BY <1>2, <1>6, <2>1 DEF ValidateLayout, fsys
<1>7. CASE RequireReadyMarker(p)
  <2>1. CASE pc[p] = "marker1" /\ Check(p, ReadyMarkerNames(mem[p].id), "Control", "inspect")
    BY <1>1, <2>1, CheckSound DEF Inside, Looking, Building, Finishing, Reading
  <2>2. ASSUME NEW code, pc[p] = "marker2", Succeed(p, code, mem[p].id) PROVE Sound(p)
    <3>1. Leaves(p) /\ node' = node
      BY <2>2, WaysOut
    <3>2. Tells(p) /\ out'[p].id = mem[p].id
      BY <2>2, Returned
    <3>3. Stands(p, mem[p].id) /\ mem[p].id \in Procs
      BY <1>3, <2>2 DEF Reports, Reading, Stands
    <3>4. Touches(p) /\ RootStays /\ Fresh(node'["marker"]) /\ Fresh(node'["config"])
      BY <1>3, <3>1 DEF Touches, SameInstallation, RootStays, FreshEntries
    <3> QED BY <1>1, <2>2, <3>1, <3>2, <3>3, <3>4, EndSound DEF Inside, Looking, Reading
  <2> QED BY <1>2, <1>7, <2>1, <2>2 DEF RequireReadyMarker, At
<1>8. CASE InspectDatabase(p)
  BY <1>1, <1>8, CheckSound DEF InspectDatabase, At, Inside, Looking, Building, Finishing, Reading
<1>9. CASE InspectExisting(p)
  BY <1>1, <1>9, CheckSound DEF InspectExisting, At, Inside, Looking, Building, Finishing, Reading
<1> QED BY <1>5, <1>6, <1>7, <1>8, <1>9

\* What staging a file changes of p.
LEMMA StageOwn ==
  ASSUME Calm, NEW p \in Procs, NEW doc, StageTemp(p, doc)
  PROVE  /\ node' = node /\ \A q \in Procs \ {p} : mem'[q] = mem[q] /\ tmp'[q] = tmp[q]
         /\ mem'[p].root = mem[p].root /\ mem'[p].held = mem[p].held
         /\ tmp'[p].doc = doc /\ Fresh(tmp'[p]) /\ PrivateFileFactsMatch(tmp'[p], mem'[p].tmp)
<1>1. tmp' = [tmp EXCEPT ![p] = NewFile(nextIno, doc)] /\ node' = node
  BY DEF StageTemp
<1>2. mem' = [mem EXCEPT ![p].tmp = nextIno, ![p].active = TRUE] /\ mem \in [Procs -> Memory] /\ tmp \in [Procs -> Entry]
  BY DEF StageTemp, Calm, BootstrapInv, ShapeOK
<1>3. /\ \A q \in Procs \ {p} : mem'[q] = mem[q]
      /\ mem'[p].root = mem[p].root /\ mem'[p].held = mem[p].held /\ mem'[p].tmp = nextIno
  BY <1>2 DEF Memory
<1>4. tmp'[p] = NewFile(nextIno, doc) /\ \A q \in Procs \ {p} : tmp'[q] = tmp[q]
  BY <1>1, <1>2
<1> QED BY <1>1, <1>3, <1>4 DEF Fresh, NewFile, PrivateFileFactsMatch

\* What publishing the staged entry changes of p.
LEMMA PublishOwn ==
  ASSUME Calm, NEW p \in Procs, NEW name \in Names \ {"root", "lock"}, NEW m \in Memory, PublishNoReplace(p, name, m),
         m.root = mem[p].root, m.held = mem[p].held, m.tmp = mem[p].tmp
  PROVE  /\ node'[name] = tmp[p] /\ \A n \in Names \ {name} : node'[n] = node[n]
         /\ \A q \in Procs \ {p} : mem'[q] = mem[q] /\ tmp'[q] = tmp[q]
         /\ mem'[p].root = mem[p].root /\ mem'[p].held = mem[p].held /\ mem'[p].tmp = mem[p].tmp
         /\ Fresh(tmp'[p]) /\ Fresh(node'["marker"]) /\ Fresh(node'["config"])
<1>1. mem \in [Procs -> Memory] /\ tmp \in [Procs -> Entry] /\ node \in [Names -> Entry]
  BY DEF Calm, BootstrapInv, ShapeOK
<1>2. /\ node' = [node EXCEPT ![name] = tmp[p]] /\ tmp' = [tmp EXCEPT ![p] = Absent]
      /\ mem' = [mem EXCEPT ![p] = [m EXCEPT !.active = FALSE]]
  BY DEF PublishNoReplace
<1>3. node'[name] = tmp[p] /\ \A n \in Names \ {name} : node'[n] = node[n]
  BY <1>1, <1>2
<1>4. tmp'[p] = Absent /\ \A q \in Procs \ {p} : mem'[q] = mem[q] /\ tmp'[q] = tmp[q]
  BY <1>1, <1>2
<1>5. mem'[p] = [m EXCEPT !.active = FALSE]
  BY <1>1, <1>2
<1>6. mem'[p].root = mem[p].root /\ mem'[p].held = mem[p].held /\ mem'[p].tmp = mem[p].tmp
  BY <1>5 DEF Memory
<1>7. Fresh(node'["marker"]) /\ Fresh(node'["config"])
  BY <1>3 DEF Calm, Answering, FreshEntries, Names
<1> QED BY <1>3, <1>4, <1>6, <1>7 DEF Fresh, Absent

\* A step of an init that goes on building.
LEMMA BuildSound ==
  ASSUME Calm, NEW p \in Procs, platform' = platform, pc[p] \in Claiming \cup Finishing \cup Committing,
         NEW next \in Claiming \cup Finishing \cup Committing, Goto(p, next), node'["root"] = node["root"],
         \A q \in Procs \ {p} : mem'[q] = mem[q] /\ tmp'[q] = tmp[q],
         mem'[p].root = mem[p].root, mem'[p].held = mem[p].held,
         Fresh(tmp'[p]), Fresh(node'["marker"]), Fresh(node'["config"]), Touches(p),
         next \in {"markpub", "rdyswap"} => tmp'[p].doc[2] = p,
         next \in Building \cup {"cfgcheck"} => node'["marker"].doc[2] = p,
         next = "cfgpub" => PrivateFileFactsMatch(tmp'[p], mem'[p].tmp),
         next = "cfgcheck" => pc[p] = "cfgpub" /\ PrivateFileFactsMatch(node'["config"], mem'[p].tmp)
  PROVE  Sound(p)
<1>1. /\ pc[p] # "done" /\ next \notin Reading \cup {"done", "flock"} /\ next \in Inside \cup Outside
      /\ pc[p] # "flock"
  BY DEF Claiming, Finishing, Committing, Inside, Outside, Looking, Reading
<1>2. mem[p].held => RevalidatePrivateDirectory(node["root"], mem[p].root)
  BY DEF Calm, Answering, Holds
<1>3. pc'[p] = next => Holds(p)'
  <2> SUFFICES ASSUME pc'[p] = next PROVE Holds(p)'
    OBVIOUS
  <2>1. mem'[p].held => RevalidatePrivateDirectory(node'["root"], mem'[p].root)
    BY <1>2
  <2> QED BY <1>1, <2>1 DEF Holds, RevalidatePrivateDirectory, PrivateDirectory, PrivateFileFactsMatch, Building
<1>4. pc'[p] = next => Reports(p)'
  BY <1>1 DEF Reports, Reading
<1> QED BY <1>1, <1>3, <1>4, GoSound DEF RootStays

\* The root is claimed: the marker, the children, the database.
LEMMA ClaimingSound ==
  ASSUME Calm, NEW p \in Procs,
         \/ PrepareDataRoot(p) \/ CreateInitializing(p) \/ StageMarker(p) \/ PublishMarker(p)
         \/ LinuxMarkerPublished(p) \/ MacMarkerPublished(p)
         \/ StageChild(p) \/ PublishChild(p) \/ CreateDatabaseFile(p) \/ LinuxNewLayout(p) \/ MacNewLayout(p)
         \/ InitializeDatabase(p)
  PROVE  Sound(p)
<1>0. /\ DOMAIN ChildLabels = {"mkmetadata", "mklogs"}
      /\ \A l \in DOMAIN ChildLabels : ChildLabels[l].name \in {"metadata", "logs"} /\ ChildLabels[l].pub \in {"pubmetadata", "publogs"}
  BY DEF ChildLabels
<1>1. platform' = platform /\ pc[p] \in Claiming
  <2>1. ASSUME StageChild(p) \/ PublishChild(p) PROVE platform' = platform /\ pc[p] \in Claiming
    BY <1>0, <2>1 DEF StageChild, PublishChild, At, environment, Claiming
  <2> QED BY <2>1 DEF PrepareDataRoot, CreateInitializing, StageMarker, PublishMarker, LinuxMarkerPublished,
       MacMarkerPublished, CreateDatabaseFile, LinuxNewLayout, MacNewLayout, InitializeDatabase,
       At, environment, Claiming
<1>2. ShapeOK /\ mem[p] \in Memory /\ tmp[p] \in Entry /\ FreshEntries /\ Holds(p) /\ pc[p] # "done"
  BY <1>1 DEF Calm, BootstrapInv, ShapeOK, Answering, Claiming
<1>3. ASSUME NEW s, NEW k, Fail(p, s, k) PROVE Sound(p)
  BY <1>1, <1>2, <1>3, FailSound
<1>4. pc[p] \in Building => node["marker"].doc[2] = p
  BY <1>2 DEF Holds
\* A step within Building that leaves the marker and the config.
<1>5. ASSUME NEW next \in Claiming \cup {"dbcheck"}, next # "markpub", Goto(p, next), pc[p] \in Building,
             node'["root"] = node["root"], node'["marker"] = node["marker"], node'["config"] = node["config"],
             \A q \in Procs \ {p} : mem'[q] = mem[q] /\ tmp'[q] = tmp[q],
             mem'[p].root = mem[p].root, mem'[p].held = mem[p].held, Fresh(tmp'[p])
      PROVE  Sound(p)
  <2>1. next \notin {"markpub", "rdyswap", "cfgpub", "cfgcheck"} /\ next \in Claiming \cup Finishing \cup Committing
    BY <1>5 DEF Claiming, Finishing
  <2>2. Touches(p) /\ Fresh(node'["marker"]) /\ Fresh(node'["config"]) /\ node'["marker"].doc[2] = p
    BY <1>2, <1>4, <1>5 DEF Touches, FreshEntries
  <2> QED BY <1>1, <1>5, <2>1, <2>2, BuildSound
<1>6. CASE PrepareDataRoot(p)
  BY <1>1, <1>2, <1>6, CheckSound DEF PrepareDataRoot, Claiming, Inside, Building, Finishing, Reading
<1>7. CASE CreateInitializing(p)
  BY <1>1, <1>2, <1>7, CheckSound DEF CreateInitializing, Claiming, Inside, Building, Finishing, Reading
<1>8. CASE LinuxMarkerPublished(p) \/ LinuxNewLayout(p) \/ MacNewLayout(p)
  BY <1>1, <1>2, <1>8, CheckSound DEF LinuxMarkerPublished, LinuxNewLayout, MacNewLayout, At, Claiming, Inside, Building, Finishing, Reading
<1>9. CASE StageMarker(p)
  <2>1. CASE StageTemp(p, Marker("initializing", p)) /\ Goto(p, "markpub")
    <3>1. tmp'[p].doc[2] = p
      BY <2>1, StageOwn DEF Marker
    <3>2. Touches(p) /\ Fresh(node'["marker"]) /\ Fresh(node'["config"])
      BY <1>2, <2>1, StageOwn DEF Touches, SameInstallation, FreshEntries
    <3> QED BY <1>1, <2>1, <3>1, <3>2, StageOwn, BuildSound DEF Claiming, Building, Finishing
  <2> QED BY <1>3, <1>9, <2>1 DEF StageMarker
<1>10. CASE PublishMarker(p)
  <2>1. CASE /\ PublishNoReplace(p, "marker", [mem[p] EXCEPT !.marker = mem[p].tmp]) /\ Goto(p, "markcheck")
             /\ node["marker"].kind = "none"
    <3> DEFINE m == [mem[p] EXCEPT !.marker = mem[p].tmp]
    <3>1. m \in Memory /\ m.root = mem[p].root /\ m.held = mem[p].held /\ m.tmp = mem[p].tmp
      BY <1>2 DEF Memory
    <3>2. pc[p] = "markpub" /\ tmp[p].doc[2] = p /\ PublishNoReplace(p, "marker", m)
      BY <1>2, <1>10, <2>1 DEF PublishMarker, At, Holds
    <3> HIDE DEF m
    <3>3. /\ node'["marker"] = tmp[p] /\ \A n \in Names \ {"marker"} : node'[n] = node[n]
          /\ \A q \in Procs \ {p} : mem'[q] = mem[q] /\ tmp'[q] = tmp[q]
          /\ mem'[p].root = mem[p].root /\ mem'[p].held = mem[p].held
          /\ Fresh(tmp'[p]) /\ Fresh(node'["marker"]) /\ Fresh(node'["config"])
      BY <3>1, <3>2, PublishOwn DEF Names
    <3>4. node'["root"] = node["root"] /\ Touches(p)
      BY <2>1, <3>2, <3>3 DEF Names, Touches
    <3> QED BY <1>1, <2>1, <3>2, <3>3, <3>4, BuildSound DEF Claiming
  <2> QED BY <1>3, <1>10, <2>1 DEF PublishMarker
<1>11. CASE MacMarkerPublished(p)
  <2>1. CASE Goto(p, "mkmetadata") /\ UNCHANGED <<node, tmp, mem>>
    BY <1>2, <1>5, <1>11, <2>1 DEF MacMarkerPublished, At, Claiming, Building, FreshEntries
  <2>2. CASE MacUndo(p, "marker", mem[p].marker, "InvalidData")
    <3>1. Leaves(p) /\ RemoveExactEntry("marker", mem[p].marker)
      BY <2>2, WaysOut
    <3>2. Tells(p) /\ out'[p].code \notin Successes
      BY <2>2, Returned, FailureCodes
    <3>3. (node'["marker"] = node["marker"] \/ node'["marker"] = Absent) /\ \A n \in Names \ {"marker"} : node'[n] = node[n]
      BY <1>2, <3>1 DEF RemoveExactEntry, ShapeOK, Names
    <3>4. RootStays /\ Fresh(node'["marker"]) /\ Fresh(node'["config"])
      BY <1>2, <3>3 DEF RootStays, Names, Fresh, Absent, FreshEntries
    <3>5. Touches(p)
      BY <1>11 DEF MacMarkerPublished, At, Touches, Building
    <3> QED BY <1>1, <1>2, <3>1, <3>2, <3>4, <3>5, EndSound
  <2> QED BY <1>11, <2>1, <2>2 DEF MacMarkerPublished, fsys
<1>12. CASE StageChild(p)
  <2>1. ASSUME NEW l \in {"mkmetadata", "mklogs"}, NEW next \in {"pubmetadata", "publogs"}, pc[p] = l, Goto(p, next), node' = node,
               tmp' = [tmp EXCEPT ![p] = NewDirectory(nextIno)], mem' = [mem EXCEPT ![p].tmp = nextIno]
        PROVE  Sound(p)
    <3>1. (\A q \in Procs \ {p} : mem'[q] = mem[q] /\ tmp'[q] = tmp[q]) /\ mem'[p].root = mem[p].root /\ mem'[p].held = mem[p].held
      BY <1>2, <2>1 DEF ShapeOK, Memory
    <3>2. Fresh(tmp'[p])
      BY <1>2, <2>1 DEF ShapeOK, Fresh, NewDirectory
    <3> QED BY <1>5, <2>1, <3>1, <3>2 DEF Claiming, Building
  <2> QED BY <1>0, <1>3, <1>12, <2>1 DEF StageChild, At
<1>13. CASE PublishChild(p)
  <2>1. ASSUME NEW name \in {"metadata", "logs"}, NEW next \in {"mklogs", "mkdb"}, pc[p] \in {"pubmetadata", "publogs"}, Goto(p, next),
               PublishNoReplace(p, name, [mem[p] EXCEPT !.layout[name] = mem[p].tmp])
        PROVE  Sound(p)
    <3> DEFINE m == [mem[p] EXCEPT !.layout[name] = mem[p].tmp]
    <3>1. m \in Memory /\ m.root = mem[p].root /\ m.held = mem[p].held /\ m.tmp = mem[p].tmp
      <4>1. [mem[p].layout EXCEPT ![name] = mem[p].tmp] \in [metadata : Nat, logs : Nat, db : Nat]
        BY <1>2, <2>1 DEF Memory
      <4>2. m = [mem[p] EXCEPT !.layout = [mem[p].layout EXCEPT ![name] = mem[p].tmp]]
        OBVIOUS
      <4> QED BY <1>2, <4>1, <4>2 DEF Memory
    <3> HIDE DEF m
    <3>2. /\ \A n \in Names \ {name} : node'[n] = node[n]
          /\ \A q \in Procs \ {p} : mem'[q] = mem[q] /\ tmp'[q] = tmp[q]
          /\ mem'[p].root = mem[p].root /\ mem'[p].held = mem[p].held /\ Fresh(tmp'[p])
      BY <2>1, <3>1, PublishOwn DEF m, Names
    <3>3. node'["root"] = node["root"] /\ node'["marker"] = node["marker"] /\ node'["config"] = node["config"]
      BY <3>2 DEF Names
    <3> QED BY <1>5, <2>1, <3>2, <3>3 DEF Claiming, Building
  <2>2. ASSUME NEW k, CleanupAndFail(p, k), node' = node PROVE Sound(p)
    <3>1. Leaves(p)
      BY <2>2, WaysOut
    <3>2. Tells(p) /\ out'[p].code \notin Successes
      BY <2>2, Returned, FailureCodes
    <3>3. Touches(p) /\ RootStays /\ Fresh(node'["marker"]) /\ Fresh(node'["config"])
      BY <1>2, <2>2 DEF Touches, SameInstallation, RootStays, FreshEntries
    <3> QED BY <1>1, <1>2, <3>1, <3>2, <3>3, EndSound
  <2> QED BY <1>0, <1>3, <1>13, <2>1, <2>2 DEF PublishChild, At
<1>14. CASE CreateDatabaseFile(p)
  <2>1. CASE /\ node' = [node EXCEPT !["db"] = NewFile(nextIno, EmptyDatabase)]
             /\ mem' = [mem EXCEPT ![p].layout.db = nextIno] /\ Goto(p, "newlayout") /\ tmp' = tmp
    <3>1. node'["root"] = node["root"] /\ node'["marker"] = node["marker"] /\ node'["config"] = node["config"]
      BY <1>2, <2>1 DEF ShapeOK, Names
    <3>2. (\A q \in Procs \ {p} : mem'[q] = mem[q]) /\ mem'[p].root = mem[p].root /\ mem'[p].held = mem[p].held
      BY <1>2, <2>1 DEF ShapeOK, Memory
    <3> QED BY <1>2, <1>5, <1>14, <2>1, <3>1, <3>2 DEF CreateDatabaseFile, At, Claiming, Building, FreshEntries
  <2> QED BY <1>3, <1>14, <2>1 DEF CreateDatabaseFile
<1>15. CASE InitializeDatabase(p)
  <2>1. CASE node' = [node EXCEPT !["db"].doc = Database(p)] /\ Goto(p, "dbcheck") /\ UNCHANGED <<tmp, mem>>
    <3>1. node'["root"] = node["root"] /\ node'["marker"] = node["marker"] /\ node'["config"] = node["config"]
      BY <1>2, <2>1 DEF ShapeOK, Names
    <3> QED BY <1>2, <1>5, <1>15, <2>1, <3>1 DEF InitializeDatabase, At, Building, FreshEntries
  <2> QED BY <1>3, <1>15, <2>1 DEF InitializeDatabase
<1> QED BY <1>6, <1>7, <1>8, <1>9, <1>10, <1>11, <1>12, <1>13, <1>14, <1>15

\* The Ready marker is staged, exchanged and verified.
LEMMA FinishingSound ==
  ASSUME Calm, NEW p \in Procs,
         \/ DatabaseInitialized(p) \/ StageReady(p) \/ ExchangeMarker(p)
         \/ LinuxReadyExchanged(p) \/ MacReadyExchanged(p)
  PROVE  Sound(p)
<1>1. platform' = platform /\ pc[p] \in Finishing
  BY DEF DatabaseInitialized, StageReady, ExchangeMarker, LinuxReadyExchanged, MacReadyExchanged,
         At, environment, Finishing
<1>2. /\ ShapeOK /\ mem[p] \in Memory /\ tmp[p] \in Entry /\ FreshEntries /\ Holds(p)
      /\ pc[p] # "done" /\ pc[p] \in Building
  BY <1>1 DEF Calm, BootstrapInv, ShapeOK, Answering, Finishing, Building
<1>3. ASSUME NEW s, NEW k, Fail(p, s, k) PROVE Sound(p)
  BY <1>1, <1>2, <1>3, FailSound
<1>4. node["marker"].doc[2] = p /\ Touches(p)
  BY <1>2 DEF Holds, Touches
<1>5. CASE DatabaseInitialized(p)
  BY <1>1, <1>2, <1>5, CheckSound DEF DatabaseInitialized, Finishing, Inside, Building, Reading
<1>6. CASE StageReady(p)
  <2>1. CASE StageTemp(p, Marker("ready", p)) /\ Goto(p, "rdyswap")
    <3>1. tmp'[p].doc[2] = p
      BY <2>1, StageOwn DEF Marker
    <3>2. Fresh(node'["marker"]) /\ Fresh(node'["config"]) /\ node'["marker"].doc[2] = p
      BY <1>2, <1>4, <2>1, StageOwn DEF FreshEntries
    <3> QED BY <1>1, <1>4, <2>1, <3>1, <3>2, StageOwn, BuildSound DEF Finishing
  <2> QED BY <1>3, <1>6, <2>1 DEF StageReady
<1>7. CASE ExchangeMarker(p)
  <2>1. CASE /\ node' = [node EXCEPT !["marker"] = tmp[p]] /\ tmp' = [tmp EXCEPT ![p] = node["marker"]]
             /\ mem' = [mem EXCEPT ![p].active = FALSE] /\ Goto(p, "rdycheck")
    <3>1. node'["marker"] = tmp[p] /\ node'["root"] = node["root"] /\ node'["config"] = node["config"]
      BY <1>2, <2>1 DEF ShapeOK, Names
    <3>2. tmp'[p] = node["marker"] /\ \A q \in Procs \ {p} : mem'[q] = mem[q] /\ tmp'[q] = tmp[q]
      BY <1>2, <2>1 DEF ShapeOK
    <3>3. mem'[p].root = mem[p].root /\ mem'[p].held = mem[p].held
      BY <1>2, <2>1 DEF ShapeOK, Memory
    <3>4. Fresh(tmp'[p]) /\ Fresh(node'["marker"]) /\ Fresh(node'["config"])
      BY <1>2, <3>1, <3>2 DEF FreshEntries
    <3>5. node'["marker"].doc[2] = p
      BY <1>2, <1>7, <3>1 DEF ExchangeMarker, At, Holds
    <3> QED BY <1>1, <1>4, <2>1, <3>1, <3>2, <3>3, <3>4, <3>5, BuildSound DEF Finishing
  <2> QED BY <1>3, <1>7, <2>1 DEF ExchangeMarker
<1>8. ASSUME tmp' = [tmp EXCEPT ![p] = Absent], Goto(p, "cfgtmp"), UNCHANGED <<node, mem>> PROVE Sound(p)
  <2>1. tmp'[p] = Absent /\ \A q \in Procs \ {p} : tmp'[q] = tmp[q]
    BY <1>2, <1>8 DEF ShapeOK
  <2>2. Fresh(tmp'[p]) /\ Fresh(node'["marker"]) /\ Fresh(node'["config"])
    BY <1>2, <1>8, <2>1 DEF FreshEntries, Fresh, Absent
  <2> QED BY <1>1, <1>4, <1>8, <2>1, <2>2, BuildSound DEF Finishing
<1>9. CASE LinuxReadyExchanged(p)
  BY <1>3, <1>8, <1>9 DEF LinuxReadyExchanged
<1>10. CASE MacReadyExchanged(p)
  <2>1. CASE node' = [node EXCEPT !["marker"] = tmp[p]] /\ CleanupAndFail(p, "InvalidData")
    <3>1. Leaves(p) /\ Tells(p) /\ out'[p].code \notin Successes
      BY <2>1, WaysOut, Returned, FailureCodes
    <3>2. node'["marker"] = tmp[p] /\ node'["root"] = node["root"] /\ node'["config"] = node["config"]
      BY <1>2, <2>1 DEF ShapeOK, Names
    <3>3. RootStays /\ Fresh(node'["marker"]) /\ Fresh(node'["config"])
      BY <1>2, <3>2 DEF RootStays, FreshEntries
    <3> QED BY <1>1, <1>2, <1>4, <3>1, <3>3, EndSound
  <2> QED BY <1>3, <1>8, <1>10, <2>1 DEF MacReadyExchanged, MacUndoExchange
<1> QED BY <1>5, <1>6, <1>7, <1>9, <1>10

\* An init that answers Initialized has its installation in place.
LEMMA FinishedStands ==
  ASSUME Calm, NEW p \in Procs, pc[p] = "cfgcheck"
  PROVE  Stands(p, p)
BY DEF Calm, BootstrapInv, Untouched, Progress, Committing, Stands, Complete, Installed

\* The config is staged behind the Ready marker and published once.
LEMMA CommittingSound ==
  ASSUME Calm, NEW p \in Procs,
         StageConfig(p) \/ PublishConfig(p) \/ LinuxConfigPublished(p) \/ MacConfigPublished(p)
  PROVE  Sound(p)
<1>1. platform' = platform /\ pc[p] \in {"cfgtmp", "cfgpub", "cfgcheck"}
  BY DEF StageConfig, PublishConfig, LinuxConfigPublished, MacConfigPublished, At, environment
<1>2. /\ ShapeOK /\ mem[p] \in Memory /\ tmp[p] \in Entry /\ FreshEntries /\ Holds(p)
      /\ pc[p] # "done" /\ pc[p] \in Claiming \cup Finishing \cup Committing
      /\ p \notin Doctors /\ pc[p] \in Inside
  BY <1>1, BuildersAreInits DEF Calm, BootstrapInv, ShapeOK, Answering, Finishing, Committing, Building
<1>3. ASSUME NEW s, NEW k, Fail(p, s, k) PROVE Sound(p)
  BY <1>1, <1>2, <1>3, FailSound
<1>4. pc[p] \in {"cfgtmp", "cfgpub"} => node["config"].kind = "none" /\ Touches(p)
  BY DEF Calm, BootstrapInv, Untouched, Progress, Finishing, Touches, Building
<1>5. node["marker"].doc[2] = p
  BY <1>1, <1>2 DEF Holds, Building, Finishing
<1>6. CASE StageConfig(p)
  <2>1. CASE StageTemp(p, ConfigDoc(p)) /\ Goto(p, "cfgpub") /\ pc[p] = "cfgtmp"
    <3>1. Fresh(node'["marker"]) /\ Fresh(node'["config"]) /\ node'["marker"].doc[2] = p
      BY <1>2, <1>5, <2>1, StageOwn DEF FreshEntries
    <3> QED BY <1>1, <1>2, <1>4, <2>1, <3>1, StageOwn, BuildSound DEF Committing
  <2> QED BY <1>3, <1>4, <1>6, <2>1 DEF StageConfig, At
<1>7. CASE PublishConfig(p)
  <2>1. CASE PublishNoReplace(p, "config", mem[p]) /\ Goto(p, "cfgcheck") /\ pc[p] = "cfgpub"
    <3>1. /\ node'["config"] = tmp[p] /\ \A n \in Names \ {"config"} : node'[n] = node[n]
          /\ \A q \in Procs \ {p} : mem'[q] = mem[q] /\ tmp'[q] = tmp[q]
          /\ mem'[p].root = mem[p].root /\ mem'[p].held = mem[p].held /\ mem'[p].tmp = mem[p].tmp
          /\ Fresh(tmp'[p]) /\ Fresh(node'["marker"]) /\ Fresh(node'["config"])
      BY <1>2, <2>1, PublishOwn DEF Names
    <3>2. node'["root"] = node["root"] /\ node'["marker"] = node["marker"]
      BY <3>1 DEF Names
    <3>3. PrivateFileFactsMatch(node'["config"], mem'[p].tmp)
      BY <1>2, <2>1, <3>1 DEF Holds
    <3> QED BY <1>1, <1>2, <1>4, <1>5, <2>1, <3>1, <3>2, <3>3, BuildSound DEF Committing
  <2> QED BY <1>4, <1>7, <2>1 DEF PublishConfig, At
<1>8. ASSUME NEW code, pc[p] = "cfgcheck", Succeed(p, code, p) PROVE Sound(p)
  <2>1. Leaves(p) /\ node' = node /\ Tells(p) /\ out'[p].id = p
    BY <1>8, WaysOut, Returned
  <2>2. Stands(p, p)
    BY <1>8, FinishedStands
  <2>3. Touches(p) /\ RootStays /\ Fresh(node'["marker"]) /\ Fresh(node'["config"])
    BY <1>2, <2>1 DEF Touches, SameInstallation, RootStays, FreshEntries
  <2> QED BY <1>1, <1>2, <2>1, <2>2, <2>3, EndSound
<1>9. CASE LinuxConfigPublished(p)
  BY <1>3, <1>8, <1>9 DEF LinuxConfigPublished, At
<1>10. CASE MacConfigPublished(p)
  <2>1. pc[p] = "cfgcheck" /\ mem[p].held
    BY <1>2, <1>10 DEF MacConfigPublished, At, Calm, BootstrapInv, Untouched, LockIsOne
  <2>2. /\ RevalidatePrivateDirectory(node["root"], mem[p].root)
        /\ PrivateFileFactsMatch(node["config"], mem[p].tmp)
    BY <1>2, <2>1 DEF Holds
  <2>3. MacRevalidateDirectory(node["root"], mem[p].root) /\ MacValidateFileEntry(node["config"], mem[p].tmp)
    BY <2>2 DEF RevalidatePrivateDirectory, PrivateDirectory, PrivateFileFactsMatch,
                MacRevalidateDirectory, MacPrivateDirectory, MacValidateFileEntry
  <2> QED BY <1>8, <1>10, <2>1, <2>3 DEF MacConfigPublished
<1> QED BY <1>6, <1>7, <1>9, <1>10

\* A kill leaves everything as it is, a failing call returns or takes the undo path.
LEMMA TroubleSound ==
  ASSUME Calm, NEW p \in Procs, Kill(p) \/ Fault(p)
  PROVE  Sound(p)
<1>1. platform' = platform /\ pc[p] # "done" /\ ShapeOK /\ FreshEntries
  BY DEF Kill, Fault, Running, Calm, BootstrapInv, Answering
<1>2. CASE Kill(p)
  <2>1. /\ pc' = [pc EXCEPT ![p] = "killed"] /\ mem' = [mem EXCEPT ![p] = NoMem]
        /\ UNCHANGED <<node, tmp, out>>
    BY <1>2 DEF Kill, fsys
  <2>2. /\ pc'[p] = "killed" /\ ~mem'[p].held
        /\ \A q \in Procs \ {p} : pc'[q] = pc[q] /\ mem'[q] = mem[q]
    BY <1>1, <2>1 DEF ShapeOK, NoMem
  <2>3. OwnOnly(p) /\ Touches(p) /\ RootStays /\ FreshEntries'
    BY <1>1, <2>1, <2>2 DEF OwnOnly, Touches, SameInstallation, RootStays, FreshEntries, Fresh, Calm, Answering
  <2>4. out[p].code = "none"
    BY <1>1 DEF Calm, Answering, Answers
  <2>5. Holds(p)' /\ Reports(p)' /\ Answers(p)'
    BY <2>1, <2>2, <2>4 DEF Holds, Reports, Answers, Succeeded, Successes, Building, Reading, Finishing
  <2> QED BY <2>2, <2>3, <2>5 DEF Sound
<1>3. CASE Fault(p)
  <2>1. CASE Fail(p, "Control", "Io")
    BY <1>1, <2>1, FailSound
  <2>2. ASSUME NEW name \in {"marker", "config"}, NEW i, MacUndo(p, name, i, "Io"),
               name = "marker" => pc[p] = "markcheck", name = "config" => macos /\ pc[p] = "cfgcheck"
        PROVE  Sound(p)
    <3>1. Leaves(p) /\ RemoveExactEntry(name, i)
      BY <2>2, WaysOut
    <3>2. Tells(p) /\ out'[p].code = "Filesystem"
      BY <2>2, Returned, FailureCodes
    <3>3. (node'[name] = node[name] \/ node'[name] = Absent) /\ \A n \in Names \ {name} : node'[n] = node[n]
      BY <1>1, <3>1 DEF RemoveExactEntry, ShapeOK, Names
    <3>4. RootStays /\ Fresh(node'["marker"]) /\ Fresh(node'["config"])
      BY <1>1, <3>3 DEF RootStays, Names, Fresh, Absent, FreshEntries
    <3>5. Touches(p)
      BY <2>2, <3>2, <3>3 DEF Touches, Building, Withdraws, Names
    <3> QED BY <1>1, <3>1, <3>2, <3>4, <3>5, EndSound DEF Successes
  <2>3. CASE pc[p] = "rdycheck" /\ MacUndoExchange(p, "Io")
    <3>1. CASE node' = [node EXCEPT !["marker"] = tmp[p]] /\ CleanupAndFail(p, "Io")
      <4>1. Leaves(p) /\ Tells(p) /\ out'[p].code \notin Successes
        BY <3>1, WaysOut, Returned, FailureCodes
      <4>2. node'["marker"] = tmp[p] /\ node'["root"] = node["root"] /\ node'["config"] = node["config"]
        BY <1>1, <3>1 DEF ShapeOK, Names
      <4>3. RootStays /\ Fresh(node'["marker"]) /\ Fresh(node'["config"]) /\ Touches(p)
        BY <1>1, <2>3, <4>2 DEF RootStays, FreshEntries, Touches, Building, Finishing
      <4> QED BY <1>1, <4>1, <4>3, EndSound
    <3> QED BY <1>1, <2>3, <3>1, FailSound DEF MacUndoExchange
  <2> QED BY <1>3, <2>1, <2>2, <2>3 DEF Fault
<1> QED BY <1>2, <1>3

-----------------------------------------------------------------------------

\* Every step of every process keeps the invariant, and the user ends its scope.
LEMMA AnswerStep == BootstrapInv /\ AnswerInv /\ [Next]_vars => AnswerInv'
<1> SUFFICES ASSUME BootstrapInv, AnswerInv, [Next]_vars, touched' = {} PROVE Answering'
  BY DEF AnswerInv
<1>1. CASE UNCHANGED vars
  <2>1. touched = {} /\ Answering
    BY <1>1 DEF AnswerInv, vars
  <2> QED BY <1>1, <2>1 DEF vars, Answering, FreshEntries, Holds, Reports, Answers, Stands, Succeeded, Complete,
              Installed, macos, Fresh, PrivateDirectory, RevalidatePrivateDirectory, PrivateFileFactsMatch
<1>2. ASSUME NEW p \in Procs, Step(p) \/ Kill(p) \/ Fault(p) PROVE Answering'
  <2>1. touched' = touched
    <3>1. CASE StageChild(p) \/ PublishChild(p)
      BY <3>1 DEF StageChild, PublishChild, At, environment
    <3>2. CASE Kill(p) \/ Fault(p)
      BY <3>2 DEF Kill, Fault
    <3>3. CASE Step(p) /\ ~(StageChild(p) \/ PublishChild(p))
      BY <3>3 DEF Step, Begin, PrepareOpen, LinuxPrepareMkdir, MacPrepareMkdir, LockOpen, Flock, FlockTimeout,
         LockAcquired, ReadConfig, ValidateLayout, RequireReadyMarker, InspectDatabase, InspectExisting,
         PrepareDataRoot, CreateInitializing, StageMarker, PublishMarker, LinuxMarkerPublished, MacMarkerPublished,
         CreateDatabaseFile, LinuxNewLayout, MacNewLayout, InitializeDatabase, DatabaseInitialized,
         StageReady, ExchangeMarker, LinuxReadyExchanged, MacReadyExchanged, StageConfig, PublishConfig,
         LinuxConfigPublished, MacConfigPublished, At, environment
    <3> QED BY <1>2, <3>1, <3>2, <3>3
  <2>2. Calm
    BY <2>1 DEF Calm, AnswerInv
  <2>3. Sound(p)
    BY <1>2, <2>2, BeginningSound, LockingSound, LookingSound, ClaimingSound, FinishingSound, CommittingSound,
       TroubleSound DEF Step
  <2> QED BY <2>2, <2>3, SoundKeeps
<1>3. ASSUME NEW name \in Names, Tamper(name) PROVE FALSE
  BY <1>3 DEF Tamper
<1> QED BY <1>1, <1>2, <1>3 DEF Next, Stop

\* Before the first step nobody holds or has answered anything.
LEMMA AnswerInitially == Init => AnswerInv
<1> SUFFICES ASSUME Init PROVE Answering
  BY DEF AnswerInv
<1>1. DOMAIN out = Procs /\ \A p \in Procs : pc[p] = "idle" /\ ~mem[p].held /\ out[p].code = "none" /\ tmp[p] = Absent
  BY DEF Init, NoMem, NoOut
<1>2. node["marker"] = Absent /\ node["config"] = Absent
  BY DEF Init, Names
<1> QED BY <1>1, <1>2 DEF Answering, FreshEntries, Fresh, Absent, Holds, Reports, Answers, Succeeded, Successes,
           Building, Reading, Finishing

\* Both invariants of init and doctor together.
THEOREM AnswerInvariant == Spec => [](BootstrapInv /\ AnswerInv)
<1>1. Init => BootstrapInv /\ AnswerInv
  BY InitEstablishesInv, AnswerInitially
<1>2. BootstrapInv /\ AnswerInv /\ [Next]_vars => (BootstrapInv /\ AnswerInv)'
  BY NextKeeps, AnswerStep
<1> QED BY <1>1, <1>2, PTL DEF Spec

\* Whoever answers that the tool is initialized has inspected, or left, a complete
\* installation: a doctor beside a running init, an init that finds another one's
\* work, an init that finishes (inspect_existing, publish_config).
THEOREM AnswersAreAboutCompleteInstallations == Spec => []AnswerMeansComplete
<1>1. AnswerInv => AnswerMeansComplete
  BY DEF AnswerInv, Answering, Answers, Stands, AnswerMeansComplete
<1> QED BY <1>1, AnswerInvariant, PTL

-----------------------------------------------------------------------------
(* An init that only meets other processes *)

\* No user, no failing call, and nobody killed.
Peace == touched = {} /\ faults = 0 /\ \A q \in Procs : pc[q] # "killed"

Pieces == {"marker", "config", "metadata", "logs", "db"}
Marking == {"markcheck", "mkmetadata", "pubmetadata", "mklogs", "publogs", "mkdb", "newlayout", "dbinit",
            "dbcheck", "rdytmp", "rdyswap"}
Begun == Building \cup {"cfgcheck"}
Staging == {"markpub", "pubmetadata", "publogs", "rdyswap", "rdycheck", "cfgpub"}

StagedFile(p, doc) == PrivateFileFactsMatch(tmp[p], mem[p].tmp) /\ tmp[p].doc = doc
StagedDirectory(p) == RevalidatePrivateDirectory(tmp[p], mem[p].tmp)
MarkedAs(state, p, ino) == PrivateFileFactsMatch(node["marker"], ino) /\ node["marker"].doc = Marker(state, p)

\* What an init has staged, and what it has put in place and holds open.
BuiltUp(p) ==
  /\ pc[p] \notin Staging => tmp[p].kind = "none"
  /\ pc[p] = "markpub" => StagedFile(p, Marker("initializing", p))
  /\ pc[p] \in {"pubmetadata", "publogs"} => StagedDirectory(p)
  /\ pc[p] = "rdyswap" => StagedFile(p, Marker("ready", p))
  /\ pc[p] = "rdycheck" =>
       /\ MarkedAs("ready", p, mem[p].tmp)
       /\ PrivateFileFactsMatch(tmp[p], mem[p].marker) /\ tmp[p].doc = Marker("initializing", p)
  /\ pc[p] \in Marking => MarkedAs("initializing", p, mem[p].marker)
  /\ pc[p] \in {"cfgtmp", "cfgpub"} => MarkedAs("ready", p, node["marker"].ino)
  /\ pc[p] \in {"markcheck", "mkmetadata", "pubmetadata"} => node["metadata"].kind = "none"
  /\ pc[p] \in {"markcheck", "mkmetadata", "pubmetadata", "mklogs", "publogs"} => node["logs"].kind = "none"
  /\ pc[p] \in {"markcheck", "mkmetadata", "pubmetadata", "mklogs", "publogs", "mkdb"} => node["db"].kind = "none"
  /\ pc[p] \in {"mklogs", "publogs", "mkdb", "newlayout", "dbinit", "dbcheck"}
       => RevalidatePrivateDirectory(node["metadata"], mem[p].layout.metadata)
  /\ pc[p] \in {"mkdb", "newlayout", "dbinit", "dbcheck"}
       => RevalidatePrivateDirectory(node["logs"], mem[p].layout.logs)
  /\ pc[p] \in {"newlayout", "dbinit", "dbcheck"} => PrivateFileFactsMatch(node["db"], mem[p].layout.db)
  /\ pc[p] \in {"newlayout", "dbinit"} => node["db"].doc = EmptyDatabase
  /\ pc[p] \in {"claim", "marktmp", "markpub"} \cup Begun => fsVerified

\* Between two inits the root is either untouched or completely set up.
Unclaimed == \A n \in Pieces : node[n].kind = "none"

Undisturbed ==
  /\ node["lock"].kind # "none" => node["lock"].kind = "file" /\ node["lock"].safe
  /\ \A p \in Procs : BuiltUp(p) /\ out[p].code # "ControlNotEmpty"
  /\ (\A p \in Procs : pc[p] \notin Begun) /\ node["config"].kind = "none" => Unclaimed

PeaceInv == faults \in Nat /\ (Peace => Undisturbed)

\* What is known before a step that leaves the peace unbroken.
Tranquil == Calm /\ Peace /\ Undisturbed

Steady(p) ==
  /\ node'["lock"].kind # "none" => node'["lock"].kind = "file" /\ node'["lock"].safe
  /\ BuiltUp(p)' /\ out'[p].code # "ControlNotEmpty" /\ fsVerified' = fsVerified
  /\ pc[p] \in Begun => pc'[p] \in Begun \/ node'["config"].kind # "none"
  /\ SameInstallation \/ pc[p] \in Begun \/ pc'[p] \in Begun

\* A steady step of one process leaves the others and the root as they should be.
LEMMA SteadyKeeps ==
  ASSUME Tranquil, NEW p \in Procs, Sound(p), Steady(p)
  PROVE  Undisturbed'
<1>1. OwnOnly(p) /\ Touches(p)
  BY DEF Sound
<1>2. ASSUME NEW q \in Procs \ {p} PROVE BuiltUp(q)' /\ out'[q].code # "ControlNotEmpty"
  <2>1. pc'[q] = pc[q] /\ mem'[q] = mem[q] /\ tmp'[q] = tmp[q] /\ out'[q] = out[q] /\ fsVerified' = fsVerified
    BY <1>1 DEF OwnOnly, Steady
  <2>2. BuiltUp(q) /\ out[q].code # "ControlNotEmpty"
    BY DEF Tranquil, Undisturbed
  <2>3. CASE pc[q] \in {"markpub"} \cup Begun
    <3>1. pc[p] \notin Building \cup {"markpub", "cfgcheck"}
      BY <2>3, BuildersAreInits, OneInside DEF Tranquil, Begun
    <3>2. SameInstallation
      BY <1>1, <3>1 DEF Touches, Withdraws
    <3>3. /\ node'["marker"] = node["marker"] /\ node'["metadata"] = node["metadata"]
          /\ node'["logs"] = node["logs"] /\ node'["db"] = node["db"]
      BY <3>2 DEF SameInstallation, Names
    <3> QED BY <2>1, <2>2, <3>3 DEF BuiltUp, StagedFile, StagedDirectory, MarkedAs, PrivateFileFactsMatch,
                                    RevalidatePrivateDirectory, PrivateDirectory
  <2>4. CASE pc[q] \notin {"markpub"} \cup Begun
    BY <2>1, <2>2, <2>4 DEF BuiltUp, Begun, Building, Finishing, Staging, Marking
  <2> QED BY <2>1, <2>2, <2>3, <2>4
<1>3. ASSUME \A q \in Procs : pc'[q] \notin Begun, node'["config"].kind = "none" PROVE Unclaimed'
  <2>1. pc[p] \notin Begun /\ SameInstallation
    BY <1>3 DEF Steady
  <2>2. \A n \in Pieces : node'[n] = node[n]
    BY <2>1 DEF SameInstallation, Pieces, Names
  <2>3. \A q \in Procs : pc[q] \notin Begun
    BY <1>1, <1>3, <2>1 DEF OwnOnly
  <2> QED BY <1>3, <2>2, <2>3 DEF Tranquil, Undisturbed, Unclaimed, Pieces
<1> QED BY <1>2, <1>3 DEF Undisturbed, Steady

\* The error codes: ControlNotEmpty is a NotEmpty met by the bootstrap port.
LEMMA NotEmptyCode ==
  \A stage, kind : MapPort(stage, kind) = "ControlNotEmpty" => stage = "Control" /\ kind = "NotEmpty"
BY DEF MapPort

\* First returns one of the verdicts.
LEMMA FirstAmong ==
  /\ \A a, b : First(<<a, b>>) \in {"ok", a, b}
  /\ \A a, b, c : First(<<a, b, c>>) \in {"ok", a, b, c}
<1>1. ASSUME NEW checks, DOMAIN checks \in {1 .. 2, 1 .. 3}
      PROVE  First(checks) = "ok" \/ \E i \in DOMAIN checks : First(checks) = checks[i]
  <2> DEFINE failed == {i \in DOMAIN checks : checks[i] # "ok"}
             first == CHOOSE i \in failed : \A j \in failed : i <= j
  <2>1. First(checks) = IF failed = {} THEN "ok" ELSE checks[first]
    BY DEF First
  <2>2. ASSUME failed # {} PROVE \E i \in failed : \A j \in failed : i <= j
    <3>1. failed \subseteq {1, 2, 3}
      BY <1>1
    <3> HIDE DEF failed
    <3>2. CASE 1 \in failed
      BY <3>1, <3>2
    <3>3. CASE 1 \notin failed /\ 2 \in failed
      BY <3>1, <3>3
    <3>4. CASE 1 \notin failed /\ 2 \notin failed
      <4>1. failed = {3}
        BY <2>2, <3>1, <3>4
      <4> QED BY <4>1
    <3> QED BY <3>2, <3>3, <3>4
  <2>3. failed # {} => first \in DOMAIN checks
    BY <2>2
  <2> QED BY <2>1, <2>3
<1>2. ASSUME NEW a, NEW b PROVE First(<<a, b>>) \in {"ok", a, b}
  <2>1. DOMAIN <<a, b>> = 1 .. 2 /\ \A i \in 1 .. 2 : <<a, b>>[i] \in {a, b}
    OBVIOUS
  <2> QED BY <1>1, <2>1
<1>3. ASSUME NEW a, NEW b, NEW c PROVE First(<<a, b, c>>) \in {"ok", a, b, c}
  <2>1. DOMAIN <<a, b, c>> = 1 .. 3 /\ \A i \in 1 .. 3 : <<a, b, c>>[i] \in {a, b, c}
    OBVIOUS
  <2> QED BY <1>1, <2>1
<1> QED BY <1>2, <1>3

\* An init past the flock finds its lock as it took it.
LEMMA LockIsFine ==
  ASSUME Tranquil, NEW p \in Procs \ Doctors, pc[p] \in Inside
  PROVE  /\ RevalidatePrivateDirectory(node["root"], mem[p].root)
         /\ LockHolds(p) = "ok" /\ LinuxLockHolds(p) = "ok" /\ MacLockHolds(p) = "ok"
<1>1. mem[p].held
  BY DEF Tranquil, Calm, BootstrapInv, Untouched, LockIsOne
<1>2. RevalidatePrivateDirectory(node["root"], mem[p].root)
  BY <1>1 DEF Tranquil, Calm, Answering, Holds
<1>3. node["lock"].kind = "file" /\ node["lock"].safe /\ mem[p].lock = node["lock"].ino
  BY <1>1 DEF Tranquil, Undisturbed, Calm, BootstrapInv, Untouched, LockIsOne
<1>4. LinuxLockHolds(p) = "ok"
  BY <1>2, <1>3 DEF LinuxLockHolds, Ok, PrivateFileFactsMatch
<1>5. MacLockHolds(p) = "ok"
  BY <1>2, <1>3 DEF MacLockHolds, Ok, MacValidateFileEntry, MacRevalidateDirectory, MacPrivateDirectory,
                    RevalidatePrivateDirectory, PrivateDirectory
<1> QED BY <1>2, <1>4, <1>5 DEF LockHolds

\* An init that finds no config finds nothing at all, and nothing staged by others.
LEMMA NothingThere ==
  ASSUME Tranquil, NEW p \in Procs, pc[p] \in {"dataroot", "claim", "marktmp", "markpub"}
  PROVE  Unclaimed /\ \A q \in Procs \ {p} : tmp[q].kind = "none"
<1>1. p \notin Doctors /\ pc[p] \in Inside /\ pc[p] \notin Begun /\ node["config"].kind = "none"
  BY DEF Tranquil, Calm, BootstrapInv, ShapeOK, Untouched, Progress, DoctorLabels, Inside, Claiming, Begun,
         Building, Finishing
<1>2. \A q \in Procs \ {p} : pc[q] \notin Begun \cup Staging
  <2> SUFFICES ASSUME NEW q \in Procs \ {p}, pc[q] \in Begun \cup Staging PROVE FALSE
    OBVIOUS
  <2>1. pc[q] \in Building \cup {"markpub", "cfgcheck"}
    BY DEF Begun, Staging, Building, Finishing
  <2> QED BY <1>1, <2>1, BuildersAreInits, OneInside DEF Tranquil
<1> QED BY <1>1, <1>2 DEF Tranquil, Undisturbed, BuiltUp

\* A step outside the building of an installation.
LEMMA IdleSteady ==
  ASSUME Tranquil, NEW p \in Procs, pc[p] \notin Begun,
         pc'[p] \notin Begun \cup Staging, pc'[p] \in {"claim", "marktmp"} => fsVerified,
         tmp'[p].kind = "none", SameInstallation, fsVerified' = fsVerified,
         node'["lock"].kind # "none" => node'["lock"].kind = "file" /\ node'["lock"].safe,
         out'[p].code # "ControlNotEmpty"
  PROVE  Steady(p)
<1>1. BuiltUp(p)'
  BY DEF BuiltUp, Begun, Building, Finishing, Staging, Marking
<1> QED BY <1>1 DEF Steady

\* An error return from a check other than that of an unclaimed root.
LEMMA FailSteady ==
  ASSUME Tranquil, NEW p \in Procs, pc[p] \notin Begun, pc[p] # "markpub", fsVerified' = fsVerified,
         \/ \E s, k : Fail(p, s, k) /\ MapPort(s, k) # "ControlNotEmpty"
         \/ FailWith(p, "NotInitialized") /\ UNCHANGED <<node, nextIno>>
         \/ \E c, i : Succeed(p, c, i) /\ c # "ControlNotEmpty"
  PROVE  Steady(p)
<1>1. Leaves(p) /\ node' = node /\ out'[p].code # "ControlNotEmpty"
  BY WaysOut, Returned DEF Tranquil
<1>2. pc[p] \notin Staging /\ tmp[p].kind = "none"
  <2>1. pc[p] \notin Staging
    BY DEF Staging, Begun, Building, Finishing
  <2> QED BY <2>1 DEF Tranquil, Undisturbed, BuiltUp
<1>3. pc'[p] = "done" /\ tmp'[p].kind = "none"
  BY <1>1, <1>2 DEF Leaves, Absent, Tranquil, Calm, BootstrapInv, ShapeOK
<1>4. pc'[p] \notin Begun \cup Staging \cup {"claim", "marktmp"}
  BY <1>3 DEF Begun, Building, Finishing, Staging
<1>5. SameInstallation /\ node'["lock"] = node["lock"]
  BY <1>1 DEF SameInstallation
<1>6. node["lock"].kind # "none" => node["lock"].kind = "file" /\ node["lock"].safe
  BY DEF Tranquil, Undisturbed
<1> QED BY <1>1, <1>3, <1>4, <1>5, <1>6, IdleSteady

\* A step that goes on outside the building and leaves the entries.
LEMMA PassSteady ==
  ASSUME Tranquil, NEW p \in Procs, pc[p] \notin Begun, pc[p] # "markpub", fsVerified' = fsVerified,
         NEW next \in (Inside \cup Outside) \ (Begun \cup Staging), Goto(p, next), UNCHANGED <<node, tmp>>,
         next \in {"claim", "marktmp"} => fsVerified
  PROVE  Steady(p)
<1>1. tmp[p].kind = "none" /\ out[p].code # "ControlNotEmpty"
  <2>1. pc[p] \notin Staging
    BY DEF Staging, Begun, Building, Finishing
  <2> QED BY <2>1 DEF Tranquil, Undisturbed, BuiltUp
<1>2. pc'[p] = next /\ out' = out
  BY DEF Goto, Tranquil, Calm, BootstrapInv, ShapeOK
<1>3. SameInstallation /\ node'["lock"] = node["lock"]
  BY DEF SameInstallation
<1>4. node["lock"].kind # "none" => node["lock"].kind = "file" /\ node["lock"].safe
  BY DEF Tranquil, Undisturbed
<1> QED BY <1>1, <1>2, <1>3, <1>4, IdleSteady

\* A step of an init that goes on building.
LEMMA BuildSteady ==
  ASSUME Tranquil, NEW p \in Procs, pc[p] \in Begun \cup {"markpub"}, fsVerified' = fsVerified,
         NEW next \in Begun, Goto(p, next), node'["lock"] = node["lock"], pc'[p] = next => BuiltUp(p)'
  PROVE  Steady(p)
<1>1. pc'[p] = next /\ out' = out
  <2>1. next \in Inside \cup Outside
    BY DEF Begun, Building, Finishing, Inside, Claiming, Committing
  <2> QED BY <2>1 DEF Goto, Tranquil, Calm, BootstrapInv, ShapeOK
<1>2. out[p].code # "ControlNotEmpty" /\ (node["lock"].kind # "none" => node["lock"].kind = "file" /\ node["lock"].safe)
  BY DEF Tranquil, Undisturbed
<1> QED BY <1>1, <1>2 DEF Steady

\* Verdicts that are no NotEmpty.
LEMMA OtherVerdicts ==
  /\ \A condition : Ok(condition) \in {"ok", "InvalidLayout", "InvalidData"}
  /\ \A p \in Procs : LockHolds(p) # "NotEmpty" /\ LinuxLockHolds(p) # "NotEmpty" /\ MacLockHolds(p) # "NotEmpty"
  /\ \A p \in Procs : LayoutHolds(p) # "NotEmpty"
  /\ LinuxValidateLayout(node, fsVerified) # "NotEmpty" /\ MacValidateLayout(node, fsVerified) # "NotEmpty"
  /\ ControlFilesystemIdentity(node, fsVerified) # "NotEmpty" /\ MacVolumeId(fsVerified) # "NotEmpty"
<1>1. \A condition : Ok(condition) \in {"ok", "InvalidLayout", "InvalidData"}
  BY DEF Ok, ChangedKind
<1>2. \A p \in Procs : LockHolds(p) # "NotEmpty" /\ LinuxLockHolds(p) # "NotEmpty" /\ MacLockHolds(p) # "NotEmpty"
  BY <1>1 DEF LockHolds, LinuxLockHolds, MacLockHolds
<1>3. ControlFilesystemIdentity(node, fsVerified) # "NotEmpty" /\ MacVolumeId(fsVerified) # "NotEmpty"
  BY DEF ControlFilesystemIdentity, MacVolumeId
<1>4. /\ \A held : LayoutRevalidate(node, held, fsVerified) # "NotEmpty"
      /\ \A held : MacLayoutRevalidate(node, held, fsVerified) # "NotEmpty"
  BY <1>3 DEF LayoutRevalidate, MacLayoutRevalidate
<1> QED BY <1>1, <1>2, <1>3, <1>4 DEF LayoutHolds, LinuxValidateLayout, MacValidateLayout

\* The steps before anything is built.
LEMMA BeginningSteady ==
  ASSUME Tranquil, NEW p \in Procs,
         \/ Begin(p) \/ PrepareOpen(p) \/ LinuxPrepareMkdir(p) \/ MacPrepareMkdir(p)
         \/ LockOpen(p) \/ Flock(p) \/ FlockTimeout(p) \/ LockAcquired(p)
  PROVE  Steady(p)
<1>1. /\ fsVerified' = fsVerified /\ pc[p] \notin Begun /\ pc[p] # "markpub" /\ pc[p] \notin Staging
  BY DEF Begin, PrepareOpen, LinuxPrepareMkdir, MacPrepareMkdir, LockOpen, Flock, FlockTimeout, LockAcquired,
         At, environment, Begun, Building, Finishing, Staging
<1>2. /\ tmp[p].kind = "none" /\ out[p].code # "ControlNotEmpty" /\ ShapeOK
      /\ node["lock"].kind # "none" => node["lock"].kind = "file" /\ node["lock"].safe
  BY <1>1 DEF Tranquil, Undisturbed, BuiltUp, Calm, BootstrapInv
<1>3. ASSUME NEW k, Fail(p, "Control", k), k # "NotEmpty" PROVE Steady(p)
  BY <1>1, <1>3, FailSteady, NotEmptyCode
<1>4. ASSUME NEW next \in {"config", "prepare", "mkroot", "lockopen", "locked"}, Goto(p, next), UNCHANGED <<node, tmp>>
      PROVE  Steady(p)
  <2>1. next \in (Inside \cup Outside) \ (Begun \cup Staging \cup {"claim", "marktmp"})
    BY DEF Inside, Outside, Looking, Begun, Building, Finishing, Staging
  <2> QED BY <1>1, <1>4, <2>1, PassSteady
\* The root is made, or the lock file.
<1>5. ASSUME NEW next \in {"prepare", "flock"}, Goto(p, next), tmp' = tmp,
             \A n \in Names \ {"root", "lock"} : node'[n] = node[n],
             node'["lock"] = node["lock"] \/ (node'["lock"].kind = "file" /\ node'["lock"].safe)
      PROVE  Steady(p)
  <2>1. pc'[p] = next /\ out' = out
    BY <1>2, <1>5 DEF Goto, ShapeOK
  <2>2. pc'[p] \notin Begun \cup Staging \cup {"claim", "marktmp"}
    BY <2>1 DEF Begun, Building, Finishing, Staging
  <2>3. SameInstallation
    BY <1>5 DEF SameInstallation
  <2> QED BY <1>1, <1>2, <1>5, <2>1, <2>2, <2>3, IdleSteady
<1>6. ASSUME Goto(p, "prepare"), MakeRoot PROVE Steady(p)
  BY <1>2, <1>5, <1>6 DEF MakeRoot, ShapeOK, Names
<1>7. CASE Begin(p)
  BY <1>4, <1>7 DEF Begin, fsys
<1>8. CASE PrepareOpen(p)
  BY <1>3, <1>4, <1>8, OtherVerdicts DEF PrepareOpen, Check, fsys
<1>9. CASE LinuxPrepareMkdir(p)
  BY <1>4, <1>6, <1>9 DEF LinuxPrepareMkdir, fsys
<1>10. CASE MacPrepareMkdir(p)
  BY <1>3, <1>6, <1>10 DEF MacPrepareMkdir
<1>11. CASE LockOpen(p)
  <2> DEFINE new == node["lock"].kind = "none"
             i == IF new THEN nextIno ELSE node["lock"].ino
  <2>1. CASE Fail(p, "Control", ChangedKind)
    BY <1>3, <2>1 DEF ChangedKind
  <2>2. CASE Goto(p, "flock") /\ tmp' = tmp /\ node' = IF new THEN [node EXCEPT !["lock"] = NewFile(i, NoDoc)] ELSE node
    <3> HIDE DEF i
    <3>1. \A n \in Names \ {"root", "lock"} : node'[n] = node[n]
      BY <1>2, <2>2 DEF ShapeOK
    <3>2. node'["lock"] = node["lock"] \/ node'["lock"] = NewFile(i, NoDoc)
      BY <1>2, <2>2 DEF ShapeOK, Names
    <3> QED BY <1>5, <2>2, <3>1, <3>2 DEF NewFile
  <2> QED BY <1>11, <2>1, <2>2 DEF LockOpen
<1>12. CASE Flock(p)
  BY <1>4, <1>12 DEF Flock, fsys
<1>13. CASE FlockTimeout(p)
  BY <1>3, <1>13 DEF FlockTimeout
<1>14. CASE LockAcquired(p)
  BY <1>3, <1>4, <1>14, OtherVerdicts DEF LockAcquired, Check, fsys
<1> QED BY <1>7, <1>8, <1>9, <1>10, <1>11, <1>12, <1>13, <1>14

\* Reading a config and inspecting an installation.
LEMMA LookingSteady ==
  ASSUME Tranquil, NEW p \in Procs,
         ReadConfig(p) \/ ValidateLayout(p) \/ RequireReadyMarker(p) \/ InspectDatabase(p) \/ InspectExisting(p)
  PROVE  Steady(p)
<1>1. fsVerified' = fsVerified /\ pc[p] \notin Begun /\ pc[p] # "markpub"
  BY DEF ReadConfig, ValidateLayout, RequireReadyMarker, InspectDatabase, InspectExisting, At, environment,
         Begun, Building, Finishing
<1>2. ASSUME NEW k, Fail(p, "Control", k), k # "NotEmpty" PROVE Steady(p)
  BY <1>1, <1>2, FailSteady, NotEmptyCode
<1>3. ASSUME NEW k, Fail(p, "Metadata", k) PROVE Steady(p)
  BY <1>1, <1>3, FailSteady, NotEmptyCode
<1>4. ASSUME NEW next \in {"layout", "marker1", "inspect", "revalidate", "marker2", "dataroot"}, Goto(p, next), UNCHANGED <<node, tmp>>
      PROVE  Steady(p)
  <2>1. next \in (Inside \cup Outside) \ (Begun \cup Staging \cup {"claim", "marktmp"})
    BY DEF Inside, Outside, Looking, Claiming, Begun, Building, Finishing, Staging
  <2> QED BY <1>1, <1>4, <2>1, PassSteady
<1>5. CASE ReadConfig(p)
  <2> DEFINE a == Ok(node["root"].kind = "none" \/ PrivateDirectory(node["root"]))
             b == Ok(Readable(node["config"]) /\ (node["config"].kind # "none" => DecodesAsConfig(node["config"].doc)))
             c == IF p \in Doctors THEN "ok" ELSE LockHolds(p)
  <2>1. a # "NotEmpty" /\ b # "NotEmpty" /\ c # "NotEmpty"
    BY OtherVerdicts
  <2> HIDE DEF a, b, c
  <2>2. First(<<a, b, c>>) # "NotEmpty"
    BY <2>1, FirstAmong
  <2>3. \/ Fail(p, "Control", First(<<a, b, c>>))
        \/ FailWith(p, "NotInitialized") /\ UNCHANGED <<node, nextIno>>
        \/ \E next \in {"layout", "dataroot"} : Goto(p, next) /\ UNCHANGED <<node, tmp>>
    BY <1>5 DEF ReadConfig, fsys, a, b, c
  <2> QED BY <1>1, <1>2, <1>4, <2>2, <2>3, FailSteady
<1>6. CASE ValidateLayout(p)
  BY <1>2, <1>4, <1>6, OtherVerdicts DEF ValidateLayout, fsys
<1>7. CASE RequireReadyMarker(p)
  <2>1. CASE Check(p, ReadyMarkerNames(mem[p].id), "Control", "inspect")
    BY <1>2, <1>4, <2>1, OtherVerdicts DEF Check, ReadyMarkerNames, fsys
  <2>2. ASSUME NEW code \in {"DoctorOk", "AlreadyInitialized"}, Succeed(p, code, mem[p].id) PROVE Steady(p)
    BY <1>1, <2>2, FailSteady
  <2>3. CASE Fail(p, "Control", ChangedKind)
    BY <1>2, <2>3 DEF ChangedKind
  <2> QED BY <1>7, <2>1, <2>2, <2>3 DEF RequireReadyMarker
<1>8. CASE InspectDatabase(p)
  BY <1>3, <1>4, <1>8 DEF InspectDatabase, Check, fsys
<1>9. CASE InspectExisting(p)
  BY <1>2, <1>4, <1>9, OtherVerdicts DEF InspectExisting, Check, fsys
<1> QED BY <1>5, <1>6, <1>7, <1>8, <1>9

\* A list of checks that all pass passes.
LEMMA FirstPasses ==
  First(<<"ok", "ok">>) = "ok" /\ First(<<"ok", "ok", "ok">>) = "ok"
<1>1. {i \in DOMAIN <<"ok", "ok">> : <<"ok", "ok">>[i] # "ok"} = {}
  OBVIOUS
<1>2. {i \in DOMAIN <<"ok", "ok", "ok">> : <<"ok", "ok", "ok">>[i] # "ok"} = {}
  OBVIOUS
<1> QED BY <1>1, <1>2 DEF First

\* An init that builds holds the lock, on a verified filesystem.
LEMMA BuilderKnows ==
  ASSUME Tranquil, NEW p \in Procs, pc[p] \in Begun \cup {"markpub"}
  PROVE  /\ p \notin Doctors /\ fsVerified /\ ShapeOK /\ BuiltUp(p) /\ mem[p] \in Memory /\ tmp[p] \in Entry
         /\ RevalidatePrivateDirectory(node["root"], mem[p].root)
         /\ LockHolds(p) = "ok" /\ LinuxLockHolds(p) = "ok" /\ MacLockHolds(p) = "ok"
<1>1. p \notin Doctors /\ pc[p] \in Inside
  BY BuildersAreInits DEF Tranquil, Begun
<1> QED BY <1>1, LockIsFine DEF Tranquil, Undisturbed, BuiltUp, Calm, BootstrapInv, ShapeOK

\* The root is claimed by an init that finds nothing in it, up to the staged marker.
LEMMA ClaimingSteady ==
  ASSUME Tranquil, NEW p \in Procs, PrepareDataRoot(p) \/ CreateInitializing(p) \/ StageMarker(p)
  PROVE  Steady(p)
<1>1. /\ fsVerified' = fsVerified /\ pc[p] \in {"dataroot", "claim", "marktmp"}
      /\ pc[p] \notin Begun /\ pc[p] # "markpub" /\ pc[p] \in Inside /\ ShapeOK
  BY DEF PrepareDataRoot, CreateInitializing, StageMarker, At, environment, Begun, Building, Finishing,
         Inside, Claiming, Tranquil, Calm, BootstrapInv
<1>2. Unclaimed /\ \A q \in Procs \ {p} : tmp[q].kind = "none"
  BY <1>1, NothingThere
<1>3. p \notin Doctors
  BY <1>1 DEF ShapeOK, DoctorLabels
<1>4. LinuxLockHolds(p) # "NotEmpty" /\ MacLockHolds(p) # "NotEmpty"
  BY OtherVerdicts
<1>5. UnclaimedControlRoot(node, OthersTemps(p)) # "NotEmpty" /\ MacUnclaimedControlRoot(node, OthersTemps(p)) # "NotEmpty"
  <2>1. \A n \in Names \ {"root", "lock"} : node[n].kind = "none"
    BY <1>2 DEF Unclaimed, Pieces, Names
  <2>2. \A t \in OthersTemps(p) : t.kind = "none"
    BY <1>2 DEF OthersTemps
  <2> QED BY <2>1, <2>2 DEF UnclaimedControlRoot, MacUnclaimedControlRoot
<1>6. ControlFilesystemIdentity(node, fsVerified) = "ok" \/ MacVolumeId(fsVerified) = "ok" => fsVerified
  BY DEF ControlFilesystemIdentity, MacVolumeId
<1>7. ASSUME NEW verdict, NEW next \in {"claim", "marktmp"}, Check(p, verdict, "Control", next),
             verdict # "NotEmpty", verdict = "ok" => fsVerified
      PROVE  Steady(p)
  <2>1. CASE verdict = "ok"
    <3>1. Goto(p, next) /\ UNCHANGED <<node, tmp>> /\ fsVerified
      BY <1>7, <2>1 DEF Check, fsys
    <3>2. next \in (Inside \cup Outside) \ (Begun \cup Staging)
      BY DEF Inside, Claiming, Begun, Building, Finishing, Staging
    <3> QED BY <1>1, <3>1, <3>2, PassSteady
  <2>2. CASE verdict # "ok"
    <3>1. Fail(p, "Control", verdict) /\ MapPort("Control", verdict) # "ControlNotEmpty"
      BY <1>7, <2>2, NotEmptyCode DEF Check
    <3> QED BY <1>1, <3>1, FailSteady
  <2> QED BY <2>1, <2>2
<1>8. CASE PrepareDataRoot(p)
  <2> DEFINE a == UnclaimedControlRoot(node, OthersTemps(p))
             b == ControlFilesystemIdentity(node, fsVerified)
             c == MacUnclaimedControlRoot(node, OthersTemps(p))
             d == MacVolumeId(fsVerified)
  <2>1. a # "NotEmpty" /\ b # "NotEmpty" /\ c # "NotEmpty" /\ d # "NotEmpty" /\ (b = "ok" \/ d = "ok" => fsVerified)
    BY <1>5, <1>6, OtherVerdicts
  <2>2. LinuxPrepareDataRoot(p) = First(<<a, b>>) /\ MacPrepareDataRoot(p) = First(<<c, d>>)
    BY DEF LinuxPrepareDataRoot, MacPrepareDataRoot
  <2> HIDE DEF a, b, c, d
  <2>3. LinuxPrepareDataRoot(p) # "NotEmpty" /\ (LinuxPrepareDataRoot(p) = "ok" => fsVerified)
    BY <2>1, <2>2, FirstAmong, FirstOfTwo
  <2>4. MacPrepareDataRoot(p) # "NotEmpty" /\ (MacPrepareDataRoot(p) = "ok" => fsVerified)
    BY <2>1, <2>2, FirstAmong, FirstOfTwo
  <2> QED BY <1>7, <1>8, <2>3, <2>4 DEF PrepareDataRoot
<1>9. CASE CreateInitializing(p)
  <2> DEFINE a == LinuxLockHolds(p)
             b == ControlFilesystemIdentity(node, fsVerified)
             c == UnclaimedControlRoot(node, OthersTemps(p))
             d == MacLockHolds(p)
             e == MacVolumeId(fsVerified)
             f == MacUnclaimedControlRoot(node, OthersTemps(p))
  <2>1. /\ a # "NotEmpty" /\ b # "NotEmpty" /\ c # "NotEmpty" /\ d # "NotEmpty" /\ e # "NotEmpty" /\ f # "NotEmpty"
        /\ b = "ok" \/ e = "ok" => fsVerified
    BY <1>4, <1>5, <1>6, OtherVerdicts
  <2>2. LinuxCreateInitializing(p) = First(<<a, b, c>>) /\ MacCreateInitializing(p) = First(<<d, e, f>>)
    BY DEF LinuxCreateInitializing, MacCreateInitializing
  <2> HIDE DEF a, b, c, d, e, f
  <2>3. LinuxCreateInitializing(p) # "NotEmpty" /\ (LinuxCreateInitializing(p) = "ok" => fsVerified)
    BY <2>1, <2>2, FirstAmong, FirstOfThree
  <2>4. MacCreateInitializing(p) # "NotEmpty" /\ (MacCreateInitializing(p) = "ok" => fsVerified)
    BY <2>1, <2>2, FirstAmong, FirstOfThree
  <2> QED BY <1>7, <1>9, <2>3, <2>4 DEF CreateInitializing
<1>10. CASE StageMarker(p)
  <2>1. CASE Fail(p, "Control", "InvalidLayout")
    BY <1>1, <2>1, FailSteady, NotEmptyCode
  <2>2. CASE StageTemp(p, Marker("initializing", p)) /\ Goto(p, "markpub")
    <3>1. pc[p] = "marktmp" /\ fsVerified /\ out[p].code # "ControlNotEmpty"
      BY <1>10 DEF StageMarker, At, Tranquil, Undisturbed, BuiltUp
    <3>2. pc'[p] = "markpub" /\ out' = out /\ node' = node
      BY <1>1, <2>2 DEF Goto, ShapeOK, StageTemp
    <3>3. PrivateFileFactsMatch(tmp'[p], mem'[p].tmp) /\ tmp'[p].doc = Marker("initializing", p)
      BY <2>2, StageOwn DEF Tranquil
    <3>4. BuiltUp(p)'
      BY <1>1, <3>1, <3>2, <3>3 DEF BuiltUp, StagedFile, PrivateFileFactsMatch, Staging, Marking, Begun, Building, Finishing
    <3>5. node["lock"].kind # "none" => node["lock"].kind = "file" /\ node["lock"].safe
      BY DEF Tranquil, Undisturbed
    <3> QED BY <1>1, <3>1, <3>2, <3>4, <3>5 DEF Steady, SameInstallation
  <2> QED BY <1>10, <2>1, <2>2 DEF StageMarker
<1> QED BY <1>8, <1>9, <1>10

\* A check of an init that builds, which passes because nobody disturbs it.
LEMMA BuildCheckSteady ==
  ASSUME Tranquil, NEW p \in Procs, pc[p] \in Begun, fsVerified' = fsVerified,
         NEW next \in Begun, NEW stage, NEW verdict, verdict = "ok", Check(p, verdict, stage, next),
         pc'[p] = next /\ UNCHANGED <<node, tmp, mem>> => BuiltUp(p)'
  PROVE  Steady(p)
<1>1. Goto(p, next) /\ UNCHANGED <<node, tmp, mem>>
  BY DEF Check, fsys
<1> QED BY <1>1, BuildSteady

\* The marker is published and verified.
LEMMA MarkingSteady ==
  ASSUME Tranquil, NEW p \in Procs, PublishMarker(p) \/ LinuxMarkerPublished(p) \/ MacMarkerPublished(p)
  PROVE  Steady(p)
<1>1. fsVerified' = fsVerified /\ pc[p] \in {"markpub", "markcheck"}
  BY DEF PublishMarker, LinuxMarkerPublished, MacMarkerPublished, At, environment
<1>2. /\ p \notin Doctors /\ fsVerified /\ ShapeOK /\ BuiltUp(p) /\ mem[p] \in Memory /\ tmp[p] \in Entry
      /\ RevalidatePrivateDirectory(node["root"], mem[p].root)
  BY <1>1, BuilderKnows DEF Begun, Building
<1>3. CASE PublishMarker(p)
  <2>1. pc[p] = "markpub" /\ Unclaimed
    BY <1>3, NothingThere DEF PublishMarker, At
  <2>2. StagedFile(p, Marker("initializing", p))
    BY <1>2, <2>1 DEF BuiltUp
  <2> DEFINE m == [mem[p] EXCEPT !.marker = mem[p].tmp]
  <2>3. PublishNoReplace(p, "marker", m) /\ Goto(p, "markcheck")
    BY <1>3, <2>1 DEF PublishMarker, Unclaimed, Pieces
  <2>4. m \in Memory /\ m.root = mem[p].root /\ m.held = mem[p].held /\ m.tmp = mem[p].tmp /\ m.marker = mem[p].tmp
    BY <1>2 DEF Memory
  <2>5. mem' = [mem EXCEPT ![p] = [m EXCEPT !.active = FALSE]] /\ tmp' = [tmp EXCEPT ![p] = Absent]
    BY <2>3 DEF PublishNoReplace
  <2> HIDE DEF m
  <2>6. mem'[p].marker = mem[p].tmp /\ tmp'[p] = Absent
    BY <1>2, <2>4, <2>5 DEF ShapeOK, Memory
  <2>7. node'["marker"] = tmp[p] /\ \A n \in Names \ {"marker"} : node'[n] = node[n]
    BY <2>3, <2>4, PublishOwn DEF Tranquil, Names
  <2>8. node'["lock"] = node["lock"] /\ \A n \in Pieces \ {"marker"} : node'[n].kind = "none"
    BY <2>1, <2>7 DEF Unclaimed, Pieces, Names
  <2>9. ASSUME pc'[p] = "markcheck" PROVE BuiltUp(p)'
    BY <1>1, <1>2, <2>2, <2>6, <2>7, <2>8, <2>9
       DEF BuiltUp, StagedFile, MarkedAs, PrivateFileFactsMatch, Absent, Pieces, Staging, Marking, Begun, Building, Finishing
  <2> QED BY <1>1, <2>1, <2>3, <2>8, <2>9, BuildSteady DEF Begun, Building
<1>4. ASSUME pc[p] = "markcheck", NEW next \in {"mkmetadata"}, pc'[p] = next, UNCHANGED <<node, tmp, mem>> PROVE BuiltUp(p)'
  BY <1>1, <1>2, <1>4 DEF BuiltUp, MarkedAs, PrivateFileFactsMatch, Staging, Marking, Begun, Building, Finishing
<1>5. ASSUME pc[p] = "markcheck" PROVE MarkedAs("initializing", p, mem[p].marker)
  BY <1>2, <1>5 DEF BuiltUp, Marking
<1>6. CASE LinuxMarkerPublished(p)
  <2>1. pc[p] = "markcheck" /\ Check(p, ProofHolds(p), "Control", "mkmetadata")
    BY <1>6 DEF LinuxMarkerPublished, At
  <2>2. ProofHolds(p) = "ok"
    BY <1>2, <1>5, <2>1 DEF ProofHolds, Ok, MarkedAs
  <2> QED BY <1>1, <1>4, <2>1, <2>2, BuildCheckSteady DEF Begun, Building
<1>7. CASE MacMarkerPublished(p)
  <2>1. pc[p] = "markcheck"
    BY <1>7 DEF MacMarkerPublished, At
  <2>2. MacRevalidateDirectory(node["root"], mem[p].root) /\ MacValidateFileEntry(node["marker"], mem[p].marker)
    BY <1>2, <1>5, <2>1 DEF MarkedAs, RevalidatePrivateDirectory, PrivateDirectory, PrivateFileFactsMatch,
                            MacRevalidateDirectory, MacPrivateDirectory, MacValidateFileEntry
  <2>3. Goto(p, "mkmetadata") /\ UNCHANGED <<node, tmp, mem>>
    BY <1>7, <2>2 DEF MacMarkerPublished, fsys
  <2> QED BY <1>1, <1>4, <2>1, <2>3, BuildSteady DEF Begun, Building
<1> QED BY <1>3, <1>6, <1>7

\* Metadata and logs are staged and published, the database file is created.
LEMMA ChildrenSteady ==
  ASSUME Tranquil, NEW p \in Procs, StageChild(p) \/ PublishChild(p) \/ CreateDatabaseFile(p)
  PROVE  Steady(p)
<1>0. /\ DOMAIN ChildLabels = {"mkmetadata", "mklogs"}
      /\ ChildLabels["mkmetadata"].name = "metadata" /\ ChildLabels["mkmetadata"].pub = "pubmetadata"
      /\ ChildLabels["mklogs"].name = "logs" /\ ChildLabels["mklogs"].pub = "publogs"
  BY DEF ChildLabels
<1>1. fsVerified' = fsVerified /\ pc[p] \in {"mkmetadata", "pubmetadata", "mklogs", "publogs", "mkdb"}
  <2>1. CASE StageChild(p) \/ PublishChild(p)
    BY <1>0, <2>1 DEF StageChild, PublishChild, At, environment
  <2> QED BY <2>1 DEF CreateDatabaseFile, At, environment
<1>2. /\ p \notin Doctors /\ fsVerified /\ ShapeOK /\ BuiltUp(p) /\ mem[p] \in Memory /\ tmp[p] \in Entry
      /\ RevalidatePrivateDirectory(node["root"], mem[p].root)
      /\ LinuxLockHolds(p) = "ok" /\ MacLockHolds(p) = "ok"
  BY <1>1, BuilderKnows DEF Begun, Building
<1>3. MarkedAs("initializing", p, mem[p].marker) /\ pc[p] \in Begun
  BY <1>1, <1>2 DEF BuiltUp, Marking, Begun, Building
<1>4. CASE StageChild(p)
  <2>1. PICK l \in {"mkmetadata", "mklogs"} :
          /\ pc[p] = l
          /\ LET verdict == IF linux THEN LinuxMayStageChild(p, l) ELSE MacMayStageChild(p, l) IN
             verdict = "ok" =>
               /\ tmp' = [tmp EXCEPT ![p] = NewDirectory(nextIno)] /\ mem' = [mem EXCEPT ![p].tmp = nextIno]
               /\ Goto(p, ChildLabels[l].pub) /\ UNCHANGED node
    BY <1>0, <1>4 DEF StageChild, At
  <2>2. LinuxMayStageChild(p, l) = "ok"
    <3>1. ProofHolds(p) = "ok" /\ Ok(RevalidatePrivateDirectory(node["root"], mem[p].root)) = "ok"
      BY <1>2, <1>3 DEF ProofHolds, Ok, MarkedAs
    <3> QED BY <1>2, <3>1, FirstPasses DEF LinuxMayStageChild
  <2>3. MacMayStageChild(p, l) = "ok"
    <3>1. Ok(MacRevalidateDirectory(node["root"], mem[p].root)) = "ok" /\ MacVolumeId(fsVerified) = "ok"
      BY <1>2 DEF Ok, RevalidatePrivateDirectory, PrivateDirectory, MacRevalidateDirectory, MacPrivateDirectory, MacVolumeId
    <3> QED BY <1>2, <3>1, FirstPasses DEF MacMayStageChild
  <2>4. PICK next \in {"pubmetadata", "publogs"} : /\ ChildLabels[l].pub = next /\ (l = "mkmetadata" <=> next = "pubmetadata")
                                                   /\ Goto(p, next) /\ node' = node
    BY <1>0, <2>1, <2>2, <2>3
  <2>5. tmp'[p] = NewDirectory(nextIno) /\ mem'[p].tmp = nextIno /\ mem'[p].marker = mem[p].marker /\ mem'[p].layout = mem[p].layout
    BY <1>2, <2>1, <2>2, <2>3 DEF ShapeOK, Memory
  <2>6. ASSUME pc'[p] = next PROVE BuiltUp(p)'
    BY <1>1, <1>2, <1>3, <2>1, <2>4, <2>5, <2>6
       DEF BuiltUp, StagedDirectory, MarkedAs, PrivateFileFactsMatch, RevalidatePrivateDirectory, PrivateDirectory,
           NewDirectory, Staging, Marking, Begun, Building, Finishing
  <2> QED BY <1>1, <1>3, <2>4, <2>6, BuildSteady DEF Begun, Building
<1>5. CASE PublishChild(p)
  <2>1. PICK name \in {"metadata", "logs"} :
          /\ pc[p] = (IF name = "metadata" THEN "pubmetadata" ELSE "publogs")
          /\ node[name].kind = "none" =>
               /\ PublishNoReplace(p, name, [mem[p] EXCEPT !.layout[name] = mem[p].tmp])
               /\ Goto(p, IF name = "metadata" THEN "mklogs" ELSE "mkdb")
    BY <1>0, <1>2, <1>5 DEF PublishChild, At
  <2>2. node[name].kind = "none" /\ StagedDirectory(p)
    BY <1>2, <2>1 DEF BuiltUp
  <2> DEFINE m == [mem[p] EXCEPT !.layout[name] = mem[p].tmp]
             next == IF name = "metadata" THEN "mklogs" ELSE "mkdb"
  <2>3. /\ m \in Memory /\ m.root = mem[p].root /\ m.held = mem[p].held /\ m.tmp = mem[p].tmp /\ m.marker = mem[p].marker
        /\ m.layout[name] = mem[p].tmp /\ (name = "logs" => m.layout.metadata = mem[p].layout.metadata)
    <3>1. [mem[p].layout EXCEPT ![name] = mem[p].tmp] \in [metadata : Nat, logs : Nat, db : Nat]
      BY <1>2 DEF Memory
    <3>2. m = [mem[p] EXCEPT !.layout = [mem[p].layout EXCEPT ![name] = mem[p].tmp]]
      OBVIOUS
    <3>3. m.layout = [mem[p].layout EXCEPT ![name] = mem[p].tmp]
      BY <1>2, <3>2 DEF Memory
    <3> QED BY <1>2, <3>1, <3>2, <3>3 DEF Memory
  <2>4. PublishNoReplace(p, name, m) /\ Goto(p, next)
    BY <2>1, <2>2
  <2>5. mem' = [mem EXCEPT ![p] = [m EXCEPT !.active = FALSE]] /\ tmp' = [tmp EXCEPT ![p] = Absent]
    BY <2>4 DEF PublishNoReplace
  <2> HIDE DEF m
  <2>6. mem'[p].marker = mem[p].marker /\ mem'[p].layout = m.layout /\ tmp'[p] = Absent
    BY <1>2, <2>3, <2>5 DEF ShapeOK, Memory
  <2>7. node'[name] = tmp[p] /\ \A n \in Names \ {name} : node'[n] = node[n]
    BY <2>3, <2>4, PublishOwn DEF Tranquil, Names
  <2>8. /\ node'["lock"] = node["lock"] /\ node'["marker"] = node["marker"] /\ node'["db"] = node["db"]
        /\ name = "logs" => node'["metadata"] = node["metadata"]
        /\ name = "metadata" => node'["logs"] = node["logs"]
    BY <2>7 DEF Names
  <2>9. CASE name = "metadata"
    <3>1. ASSUME pc'[p] = "mklogs" PROVE BuiltUp(p)'
      <4>1. RevalidatePrivateDirectory(node'["metadata"], mem'[p].layout.metadata)
        BY <2>2, <2>3, <2>6, <2>7, <2>9 DEF StagedDirectory
      <4>2. RevalidatePrivateDirectory(node["metadata"], mem[p].layout.metadata)'
        BY <4>1 DEF RevalidatePrivateDirectory, PrivateDirectory
      <4> QED BY <1>1, <1>2, <1>3, <2>1, <2>6, <2>8, <2>9, <3>1, <4>2
         DEF BuiltUp, MarkedAs, PrivateFileFactsMatch, Absent, Staging, Marking, Begun, Building, Finishing
    <3> QED BY <1>1, <1>3, <2>4, <2>8, <2>9, <3>1, BuildSteady DEF Begun, Building
  <2>10. CASE name = "logs"
    <3>1. ASSUME pc'[p] = "mkdb" PROVE BuiltUp(p)'
      <4>1. RevalidatePrivateDirectory(node'["logs"], mem'[p].layout.logs)
        BY <2>2, <2>3, <2>6, <2>7, <2>10 DEF StagedDirectory
      <4>2. RevalidatePrivateDirectory(node'["metadata"], mem'[p].layout.metadata)
        BY <1>2, <2>1, <2>3, <2>6, <2>8, <2>10 DEF BuiltUp
      <4>3. RevalidatePrivateDirectory(node["logs"], mem[p].layout.logs)' /\ RevalidatePrivateDirectory(node["metadata"], mem[p].layout.metadata)'
        BY <4>1, <4>2 DEF RevalidatePrivateDirectory, PrivateDirectory
      <4> QED BY <1>1, <1>2, <1>3, <2>1, <2>6, <2>8, <2>10, <3>1, <4>3
         DEF BuiltUp, MarkedAs, PrivateFileFactsMatch, Absent, Staging, Marking, Begun, Building, Finishing
    <3> QED BY <1>1, <1>3, <2>4, <2>8, <2>10, <3>1, BuildSteady DEF Begun, Building
  <2> QED BY <2>9, <2>10
<1>6. CASE CreateDatabaseFile(p)
  <2>1. pc[p] = "mkdb"
    BY <1>6 DEF CreateDatabaseFile, At
  <2>2. /\ RevalidatePrivateDirectory(node["metadata"], mem[p].layout.metadata)
        /\ RevalidatePrivateDirectory(node["logs"], mem[p].layout.logs)
        /\ node["db"].kind = "none" /\ tmp[p].kind = "none"
    BY <1>2, <2>1 DEF BuiltUp, Staging
  <2>3. /\ node' = [node EXCEPT !["db"] = NewFile(nextIno, EmptyDatabase)]
        /\ mem' = [mem EXCEPT ![p].layout.db = nextIno] /\ Goto(p, "newlayout") /\ tmp' = tmp
    BY <1>6, <2>2 DEF CreateDatabaseFile
  <2>4. /\ node'["db"] = NewFile(nextIno, EmptyDatabase) /\ node'["lock"] = node["lock"] /\ node'["marker"] = node["marker"]
        /\ node'["metadata"] = node["metadata"] /\ node'["logs"] = node["logs"]
    BY <1>2, <2>3 DEF ShapeOK, Names
  <2>5. /\ mem'[p].marker = mem[p].marker /\ mem'[p].layout.db = nextIno
        /\ mem'[p].layout.metadata = mem[p].layout.metadata /\ mem'[p].layout.logs = mem[p].layout.logs
    BY <1>2, <2>3 DEF ShapeOK, Memory
  <2>6. ASSUME pc'[p] = "newlayout" PROVE BuiltUp(p)'
    BY <1>1, <1>2, <1>3, <2>2, <2>3, <2>4, <2>5, <2>6
       DEF BuiltUp, MarkedAs, PrivateFileFactsMatch, RevalidatePrivateDirectory, PrivateDirectory, NewFile,
           Staging, Marking, Begun, Building, Finishing
  <2> QED BY <1>1, <1>3, <2>3, <2>4, <2>6, BuildSteady DEF Begun, Building
<1> QED BY <1>4, <1>5, <1>6

\* The layout of an undisturbed init is as it made it.
LEMMA LayoutIsFine ==
  ASSUME Tranquil, NEW p \in Procs, pc[p] \in {"newlayout", "dbinit", "dbcheck"}
  PROVE  /\ LayoutHolds(p) = "ok" /\ ProofHolds(p) = "ok"
         /\ linux => LinuxValidateLayout(node, fsVerified) = "ok"
<1>1. /\ fsVerified /\ BuiltUp(p) /\ RevalidatePrivateDirectory(node["root"], mem[p].root)
  BY BuilderKnows DEF Begun, Building, Finishing
<1>2. /\ RevalidatePrivateDirectory(node["metadata"], mem[p].layout.metadata)
      /\ RevalidatePrivateDirectory(node["logs"], mem[p].layout.logs)
      /\ PrivateFileFactsMatch(node["db"], mem[p].layout.db)
      /\ MarkedAs("initializing", p, mem[p].marker)
  BY <1>1 DEF BuiltUp, Marking
<1>3. ProofHolds(p) = "ok"
  BY <1>1, <1>2 DEF ProofHolds, Ok, MarkedAs
<1>4. LayoutRevalidate(node, mem[p].layout, fsVerified) = "ok"
  BY <1>1, <1>2 DEF LayoutRevalidate, ControlFilesystemIdentity, ChildHolds, DatabaseFileHolds, RevalidatePrivateDirectory
<1>5. MacLayoutRevalidate(node, mem[p].layout, fsVerified) = "ok"
  BY <1>1, <1>2 DEF MacLayoutRevalidate, MacVolumeId, MacRevalidateDirectory, MacPrivateDirectory, MacValidateFileEntry,
                    RevalidatePrivateDirectory, PrivateDirectory, PrivateFileFactsMatch
<1>6. LinuxValidateLayout(node, fsVerified) = "ok"
  BY <1>1, <1>2 DEF LinuxValidateLayout, LayoutRevalidate, HeldLayout, ControlFilesystemIdentity, ChildHolds,
                    DatabaseFileHolds, RevalidatePrivateDirectory, PrivateDirectory, PrivateFileFactsMatch
<1> QED BY <1>3, <1>4, <1>5, <1>6 DEF LayoutHolds

\* The new layout is validated, the database initialised and validated.
LEMMA DatabaseSteady ==
  ASSUME Tranquil, NEW p \in Procs,
         LinuxNewLayout(p) \/ MacNewLayout(p) \/ InitializeDatabase(p) \/ DatabaseInitialized(p)
  PROVE  Steady(p)
<1>1. fsVerified' = fsVerified /\ pc[p] \in {"newlayout", "dbinit", "dbcheck"} /\ pc[p] \in Begun
  BY DEF LinuxNewLayout, MacNewLayout, InitializeDatabase, DatabaseInitialized, At, environment, Begun, Building, Finishing
<1>2. ShapeOK /\ BuiltUp(p) /\ mem[p] \in Memory /\ LayoutHolds(p) = "ok" /\ ProofHolds(p) = "ok" /\ fsVerified
  BY <1>1, BuilderKnows, LayoutIsFine
<1>3. ASSUME NEW next \in {"dbinit", "rdytmp"}, pc'[p] = next, next = "dbinit" => pc[p] = "newlayout",
             UNCHANGED <<node, tmp, mem>>
      PROVE  BuiltUp(p)'
  BY <1>1, <1>2, <1>3 DEF BuiltUp, MarkedAs, PrivateFileFactsMatch, RevalidatePrivateDirectory, PrivateDirectory,
                          Staging, Marking, Begun, Building, Finishing
<1>4. ASSUME NEW next \in {"dbinit", "rdytmp"}, next = "dbinit" => pc[p] = "newlayout",
             Check(p, "ok", "Control", next)
      PROVE  Steady(p)
  BY <1>1, <1>3, <1>4, BuildCheckSteady DEF Begun, Building, Finishing
<1>5. CASE LinuxNewLayout(p)
  <2>1. First(<<LinuxValidateLayout(node, fsVerified), LayoutHolds(p), ProofHolds(p)>>) = "ok"
    BY <1>1, <1>2, <1>5, LayoutIsFine, FirstPasses DEF LinuxNewLayout
  <2> QED BY <1>4, <1>5, <2>1 DEF LinuxNewLayout, At
<1>6. CASE MacNewLayout(p)
  BY <1>2, <1>4, <1>6 DEF MacNewLayout, At
<1>7. CASE InitializeDatabase(p)
  <2>1. pc[p] = "dbinit"
    BY <1>7 DEF InitializeDatabase, At
  <2>2. OpenOrInitialize(p) = "ok"
    BY <1>2, <2>1 DEF BuiltUp, OpenOrInitialize
  <2>3. First(<<LayoutHolds(p), OpenOrInitialize(p)>>) = "ok"
    BY <1>2, <2>2, FirstPasses
  <2>4. node' = [node EXCEPT !["db"].doc = Database(p)] /\ Goto(p, "dbcheck") /\ UNCHANGED <<tmp, mem>>
    BY <1>7, <2>3 DEF InitializeDatabase
  <2>5. /\ node'["lock"] = node["lock"] /\ node'["marker"] = node["marker"]
        /\ node'["metadata"] = node["metadata"] /\ node'["logs"] = node["logs"]
        /\ node'["db"].kind = node["db"].kind /\ node'["db"].safe = node["db"].safe /\ node'["db"].ino = node["db"].ino
    BY <1>2, <2>4 DEF ShapeOK, Names, Entry
  <2>6. ASSUME pc'[p] = "dbcheck" PROVE BuiltUp(p)'
    BY <1>1, <1>2, <2>1, <2>4, <2>5, <2>6
       DEF BuiltUp, MarkedAs, PrivateFileFactsMatch, RevalidatePrivateDirectory, PrivateDirectory,
           Staging, Marking, Begun, Building, Finishing
  <2> QED BY <1>1, <2>4, <2>5, <2>6, BuildSteady DEF Begun, Building, Finishing
<1>8. CASE DatabaseInitialized(p)
  BY <1>2, <1>4, <1>8 DEF DatabaseInitialized, At
<1> QED BY <1>5, <1>6, <1>7, <1>8

\* The Ready marker is staged, exchanged with the initializing one and verified.
LEMMA ReadySteady ==
  ASSUME Tranquil, NEW p \in Procs,
         StageReady(p) \/ ExchangeMarker(p) \/ LinuxReadyExchanged(p) \/ MacReadyExchanged(p)
  PROVE  Steady(p)
<1>1. fsVerified' = fsVerified /\ pc[p] \in {"rdytmp", "rdyswap", "rdycheck"} /\ pc[p] \in Begun
  BY DEF StageReady, ExchangeMarker, LinuxReadyExchanged, MacReadyExchanged, At, environment, Begun, Building, Finishing
<1>2. /\ ShapeOK /\ BuiltUp(p) /\ mem[p] \in Memory /\ tmp[p] \in Entry /\ fsVerified
      /\ RevalidatePrivateDirectory(node["root"], mem[p].root)
      /\ LockHolds(p) = "ok" /\ LinuxLockHolds(p) = "ok"
  BY <1>1, BuilderKnows
<1>3. CASE StageReady(p)
  <2>1. pc[p] = "rdytmp" /\ MarkedAs("initializing", p, mem[p].marker)
    BY <1>2, <1>3 DEF StageReady, At, BuiltUp, Marking
  <2>2. ProofHolds(p) = "ok" /\ MacProofHolds(p) = "ok"
    BY <1>2, <2>1 DEF ProofHolds, MacProofHolds, Ok, MarkedAs, RevalidatePrivateDirectory, PrivateDirectory,
                      PrivateFileFactsMatch, MacRevalidateDirectory, MacPrivateDirectory, MacValidateFileEntry
  <2>3. First(<<LockHolds(p), IF linux THEN ProofHolds(p) ELSE MacProofHolds(p)>>) = "ok"
    BY <1>2, <2>2, FirstPasses
  <2>4. StageTemp(p, Marker("ready", p)) /\ Goto(p, "rdyswap")
    BY <1>3, <2>3 DEF StageReady
  <2>5. PrivateFileFactsMatch(tmp'[p], mem'[p].tmp) /\ tmp'[p].doc = Marker("ready", p) /\ node' = node
    BY <2>4, StageOwn DEF Tranquil
  <2>6. mem'[p].marker = mem[p].marker
    BY <1>2, <2>4 DEF StageTemp, ShapeOK, Memory
  <2>7. ASSUME pc'[p] = "rdyswap" PROVE BuiltUp(p)'
    BY <1>1, <1>2, <2>1, <2>5, <2>6, <2>7
       DEF BuiltUp, StagedFile, MarkedAs, PrivateFileFactsMatch, Staging, Marking, Begun, Building, Finishing
  <2> QED BY <1>1, <2>4, <2>5, <2>7, BuildSteady DEF Begun, Building, Finishing
<1>4. CASE ExchangeMarker(p)
  <2>1. pc[p] = "rdyswap" /\ MarkedAs("initializing", p, mem[p].marker) /\ StagedFile(p, Marker("ready", p))
    BY <1>2, <1>4 DEF ExchangeMarker, At, BuiltUp, Marking
  <2>2. node["marker"].kind # "none"
    BY <2>1 DEF MarkedAs, PrivateFileFactsMatch
  <2>3. /\ node' = [node EXCEPT !["marker"] = tmp[p]] /\ tmp' = [tmp EXCEPT ![p] = node["marker"]]
        /\ mem' = [mem EXCEPT ![p].active = FALSE] /\ Goto(p, "rdycheck")
    BY <1>4, <2>2 DEF ExchangeMarker
  <2>4. node'["marker"] = tmp[p] /\ tmp'[p] = node["marker"] /\ node'["lock"] = node["lock"]
    BY <1>2, <2>3 DEF ShapeOK, Names
  <2>5. mem'[p].marker = mem[p].marker /\ mem'[p].tmp = mem[p].tmp
    BY <1>2, <2>3 DEF ShapeOK, Memory
  <2>6. ASSUME pc'[p] = "rdycheck" PROVE BuiltUp(p)'
    BY <1>1, <1>2, <2>1, <2>4, <2>5, <2>6
       DEF BuiltUp, StagedFile, MarkedAs, PrivateFileFactsMatch, Staging, Marking, Begun, Building, Finishing
  <2> QED BY <1>1, <2>3, <2>4, <2>6, BuildSteady DEF Begun, Building, Finishing
<1>5. CASE LinuxReadyExchanged(p) \/ MacReadyExchanged(p)
  <2>1. /\ pc[p] = "rdycheck" /\ MarkedAs("ready", p, mem[p].tmp)
        /\ PrivateFileFactsMatch(tmp[p], mem[p].marker) /\ tmp[p].doc = Marker("initializing", p)
    BY <1>2, <1>5 DEF LinuxReadyExchanged, MacReadyExchanged, At, BuiltUp
  <2>2. ExchangeVerified(p)
    BY <1>2, <2>1 DEF ExchangeVerified, MarkedAs
  <2>3. tmp' = [tmp EXCEPT ![p] = Absent] /\ Goto(p, "cfgtmp") /\ UNCHANGED <<node, mem>>
    BY <1>2, <1>5, <2>2 DEF LinuxReadyExchanged, MacReadyExchanged
  <2>4. tmp'[p] = Absent
    BY <1>2, <2>3 DEF ShapeOK
  <2>5. ASSUME pc'[p] = "cfgtmp" PROVE BuiltUp(p)'
    BY <1>1, <1>2, <2>1, <2>3, <2>4, <2>5
       DEF BuiltUp, MarkedAs, PrivateFileFactsMatch, Absent, Staging, Marking, Begun, Building, Finishing
  <2> QED BY <1>1, <2>3, <2>5, BuildSteady DEF Begun, Building, Finishing
<1> QED BY <1>3, <1>4, <1>5

\* The config is staged behind the Ready marker, published and verified.
LEMMA CommittingSteady ==
  ASSUME Tranquil, NEW p \in Procs,
         StageConfig(p) \/ PublishConfig(p) \/ LinuxConfigPublished(p) \/ MacConfigPublished(p)
  PROVE  Steady(p)
<1>1. fsVerified' = fsVerified /\ pc[p] \in {"cfgtmp", "cfgpub", "cfgcheck"} /\ pc[p] \in Begun
  BY DEF StageConfig, PublishConfig, LinuxConfigPublished, MacConfigPublished, At, environment, Begun, Building, Finishing
<1>2. /\ ShapeOK /\ BuiltUp(p) /\ mem[p] \in Memory /\ tmp[p] \in Entry /\ fsVerified
      /\ RevalidatePrivateDirectory(node["root"], mem[p].root)
      /\ LinuxLockHolds(p) = "ok" /\ MacLockHolds(p) = "ok" /\ Holds(p) /\ Progress(p)
  BY <1>1, BuilderKnows DEF Tranquil, Calm, BootstrapInv, Untouched, Answering
<1>3. pc[p] \in {"cfgtmp", "cfgpub"} => node["config"].kind = "none" /\ MarkedAs("ready", p, node["marker"].ino)
  BY <1>2 DEF BuiltUp, Progress, Finishing
<1>4. CASE StageConfig(p)
  <2>1. pc[p] = "cfgtmp" /\ node["config"].kind = "none" /\ MarkedAs("ready", p, node["marker"].ino)
    BY <1>3, <1>4 DEF StageConfig, At
  <2>2. ReadyMarkerNames(p) = "ok"
    BY <2>1 DEF ReadyMarkerNames, Ok, MarkedAs, Readable, ReadableDocument, MacReadableDocument, MacValidateFileEntry,
                PrivateFileFactsMatch, DecodesAsMarker, Marker
  <2>3. Ok(ReadableDocument(node["config"])) = "ok" /\ Ok(MacReadableDocument(node["config"])) = "ok"
    BY <2>1 DEF Ok, ReadableDocument, MacReadableDocument
  <2>4. LinuxPublishConfig(p) = "ok" /\ MacPublishConfig(p) = "ok"
    BY <1>2, <2>2, <2>3, FirstPasses DEF LinuxPublishConfig, MacPublishConfig
  <2>5. StageTemp(p, ConfigDoc(p)) /\ Goto(p, "cfgpub")
    BY <1>4, <2>1, <2>4 DEF StageConfig
  <2>6. node' = node
    BY <2>5 DEF StageTemp
  <2>7. ASSUME pc'[p] = "cfgpub" PROVE BuiltUp(p)'
    BY <1>1, <1>2, <2>1, <2>6, <2>7
       DEF BuiltUp, MarkedAs, PrivateFileFactsMatch, Staging, Marking, Begun, Building, Finishing
  <2> QED BY <1>1, <2>5, <2>6, <2>7, BuildSteady DEF Begun, Building
<1>5. CASE PublishConfig(p)
  <2>1. pc[p] = "cfgpub" /\ node["config"].kind = "none"
    BY <1>3, <1>5 DEF PublishConfig, At
  <2>2. PublishNoReplace(p, "config", mem[p]) /\ Goto(p, "cfgcheck")
    BY <1>5, <2>1 DEF PublishConfig
  <2>3. tmp'[p] = Absent /\ node'["lock"] = node["lock"]
    BY <1>2, <2>2 DEF PublishNoReplace, ShapeOK, Names
  <2>4. ASSUME pc'[p] = "cfgcheck" PROVE BuiltUp(p)'
    BY <1>1, <1>2, <2>3, <2>4 DEF BuiltUp, Absent, Staging, Marking, Begun, Building, Finishing
  <2> QED BY <1>1, <2>2, <2>3, <2>4, BuildSteady DEF Begun, Building
<1>6. CASE LinuxConfigPublished(p) \/ MacConfigPublished(p)
  <2>1. pc[p] = "cfgcheck" /\ PrivateFileFactsMatch(node["config"], mem[p].tmp) /\ node["config"].doc = ConfigDoc(p)
    BY <1>2, <1>6 DEF LinuxConfigPublished, MacConfigPublished, At, Holds, Progress
  <2>2. MacRevalidateDirectory(node["root"], mem[p].root) /\ MacValidateFileEntry(node["config"], mem[p].tmp)
    BY <1>2, <2>1 DEF RevalidatePrivateDirectory, PrivateDirectory, PrivateFileFactsMatch,
                      MacRevalidateDirectory, MacPrivateDirectory, MacValidateFileEntry
  <2>3. Succeed(p, "Initialized", p)
    BY <1>2, <1>6, <2>1, <2>2 DEF LinuxConfigPublished, MacConfigPublished
  <2>4. Leaves(p) /\ node' = node /\ out'[p].code # "ControlNotEmpty"
    BY <2>3, WaysOut, Returned DEF Tranquil
  <2>5. pc'[p] = "done" /\ tmp'[p].kind = "none"
    BY <1>2, <2>1, <2>4 DEF Leaves, Absent, ShapeOK, BuiltUp, Staging
  <2>6. BuiltUp(p)'
    BY <2>5 DEF BuiltUp, Begun, Building, Finishing, Staging, Marking
  <2>7. node'["config"].kind # "none" /\ (node["lock"].kind # "none" => node["lock"].kind = "file" /\ node["lock"].safe)
    BY <2>1, <2>4 DEF PrivateFileFactsMatch, Tranquil, Undisturbed
  <2> QED BY <1>1, <2>4, <2>6, <2>7 DEF Steady
<1> QED BY <1>4, <1>5, <1>6

\* A step of a running process changes nothing of the environment.
LEMMA StepFrame ==
  ASSUME NEW p \in Procs, Step(p)
  PROVE  touched' = touched /\ faults' = faults /\ pc[p] # "killed"
<1>1. CASE StageChild(p) \/ PublishChild(p)
  <2>1. \A l \in DOMAIN ChildLabels : l # "killed" /\ ChildLabels[l].pub # "killed"
    BY DEF ChildLabels
  <2> QED BY <1>1, <2>1 DEF StageChild, PublishChild, At, environment
<1>2. CASE ~(StageChild(p) \/ PublishChild(p))
  BY <1>2 DEF Step, Begin, PrepareOpen, LinuxPrepareMkdir, MacPrepareMkdir, LockOpen, Flock, FlockTimeout,
     LockAcquired, ReadConfig, ValidateLayout, RequireReadyMarker, InspectDatabase, InspectExisting,
     PrepareDataRoot, CreateInitializing, StageMarker, PublishMarker, LinuxMarkerPublished, MacMarkerPublished,
     CreateDatabaseFile, LinuxNewLayout, MacNewLayout, InitializeDatabase, DatabaseInitialized,
     StageReady, ExchangeMarker, LinuxReadyExchanged, MacReadyExchanged, StageConfig, PublishConfig,
     LinuxConfigPublished, MacConfigPublished, At, environment
<1> QED BY <1>1, <1>2

\* Failing calls are counted.
LEMMA FaultsAreCounted == faults \in Nat /\ [Next]_vars => faults' \in Nat
<1>1. ASSUME NEW p \in Procs, Step(p) PROVE faults' = faults
  BY <1>1, StepFrame
<1>2. ASSUME NEW p \in Procs, Kill(p) \/ Fault(p) PROVE faults' \in {faults, faults + 1}
  BY <1>2 DEF Kill, Fault
<1>3. ASSUME NEW name \in Names, Tamper(name) PROVE faults' = faults
  BY <1>3 DEF Tamper
<1> QED BY <1>1, <1>2, <1>3 DEF Next, Stop, vars

\* Every step of every process keeps the peace sound; a kill and a failing call end it.
LEMMA PeaceStep == BootstrapInv /\ AnswerInv /\ PeaceInv /\ [Next]_vars => PeaceInv'
<1> SUFFICES ASSUME BootstrapInv, AnswerInv, PeaceInv, [Next]_vars, Peace' PROVE Undisturbed'
  BY FaultsAreCounted DEF PeaceInv
<1>1. CASE UNCHANGED vars
  <2>1. Undisturbed
    BY <1>1 DEF PeaceInv, Peace, vars
  <2> QED BY <1>1, <2>1 DEF vars, Undisturbed, Unclaimed, BuiltUp, StagedFile, StagedDirectory, MarkedAs,
              PrivateDirectory, RevalidatePrivateDirectory, PrivateFileFactsMatch
<1>2. ASSUME NEW p \in Procs, Step(p) PROVE Undisturbed'
  <2>1. touched' = touched /\ faults' = faults /\ pc[p] # "killed"
    BY <1>2, StepFrame
  <2>2. Calm
    BY <2>1 DEF Calm, AnswerInv, Peace
  <2>3. Sound(p)
    BY <1>2, <2>2, BeginningSound, LockingSound, LookingSound, ClaimingSound, FinishingSound, CommittingSound
       DEF Step
  <2>4. Peace
    BY <2>1, <2>3 DEF Peace, Sound, OwnOnly
  <2>5. Tranquil
    BY <2>2, <2>4 DEF Tranquil, PeaceInv
  <2>6. Steady(p)
    BY <1>2, <2>5, BeginningSteady, LookingSteady, ClaimingSteady, MarkingSteady, ChildrenSteady, DatabaseSteady,
       ReadySteady, CommittingSteady DEF Step
  <2> QED BY <2>3, <2>5, <2>6, SteadyKeeps
<1>3. ASSUME NEW p \in Procs, Kill(p) PROVE FALSE
  BY <1>3 DEF Kill, Peace, BootstrapInv, ShapeOK
<1>4. ASSUME NEW p \in Procs, Fault(p) PROVE FALSE
  BY <1>4 DEF Fault, Peace, PeaceInv
<1>5. ASSUME NEW name \in Names, Tamper(name) PROVE FALSE
  BY <1>5 DEF Tamper, Peace
<1> QED BY <1>1, <1>2, <1>3, <1>4, <1>5 DEF Next, Stop

\* Before the first step nothing is there.
LEMMA PeaceInitially == Init => PeaceInv
<1> SUFFICES ASSUME Init PROVE Undisturbed
  BY DEF PeaceInv, Init
<1>1. \A p \in Procs : pc[p] = "idle" /\ out[p].code = "none" /\ tmp[p].kind = "none"
  BY DEF Init, NoOut, Absent
<1>2. \A n \in Names : node[n].kind = "none"
  BY DEF Init, Absent
<1>3. \A p \in Procs : BuiltUp(p)
  BY <1>1 DEF BuiltUp, Begun, Building, Finishing, Staging, Marking
<1> QED BY <1>1, <1>2, <1>3 DEF Undisturbed, Unclaimed, Pieces, Names

\* ControlNotEmpty has a cause outside the program: an init that meets only other
\* processes which run undisturbed waits for them and finds their installation
\* (acquire_bootstrap, prepare_data_root, require_unclaimed_control_root).
THEOREM NotEmptyIsNoRace == Spec => []NotEmptyHasCause
<1> DEFINE Inv == BootstrapInv /\ AnswerInv /\ PeaceInv
<1>1. Init => Inv
  BY InitEstablishesInv, AnswerInitially, PeaceInitially
<1>2. Inv /\ [Next]_vars => Inv'
  BY NextKeeps, AnswerStep, PeaceStep
<1>3. Inv => NotEmptyHasCause
  BY DEF PeaceInv, Peace, Undisturbed, NotEmptyHasCause
<1> QED BY <1>1, <1>2, <1>3, PTL DEF Spec

-----------------------------------------------------------------------------
(* What a killed init left *)

\* The initializing or Ready marker of p, or nothing that names an instance.
OwnOrNone(e, p) == e.doc[2] = p \/ e.doc[2] = 0

\* What an init stages and what it finds under the name of the marker is its own,
\* whatever the user did to it.
Owned(p) ==
  /\ pc[p] \in {"markpub", "rdyswap"} => tmp[p].doc[2] = p
  /\ pc[p] \in Begun => OwnOrNone(node["marker"], p)

OwnerInv ==
  /\ Fresh(node["marker"]) /\ \A p \in Procs : Fresh(tmp[p])
  /\ "lock" \notin touched => \A p \in Procs : Owned(p)

\* A step that keeps off the entries of others.
Modest(p) ==
  /\ \A q \in Procs \ {p} : pc'[q] = pc[q] /\ tmp'[q] = tmp[q]
  /\ node'["marker"] = node["marker"] \/ pc[p] \in Begun \/ (pc[p] = "markpub" /\ node["marker"].kind = "none")
  /\ Fresh(node'["marker"]) /\ Fresh(tmp'[p]) /\ (Owned(p) => Owned(p)')

\* Two inits do not build at once while the lock is left alone.
LEMMA OneBuilder ==
  ASSUME BootstrapInv, "lock" \notin touched, NEW p \in Procs, NEW q \in Procs,
         pc[p] \in Begun \cup {"markpub"}, pc[q] \in Begun \cup {"markpub"}
  PROVE  p = q
<1>1. \A r \in {p, q} : r \notin Doctors /\ pc[r] \in Inside
  BY DEF BootstrapInv, ShapeOK, Begun, Building, Inside, DoctorLabels, Claiming, Finishing, Committing
<1> QED BY <1>1 DEF BootstrapInv, LockIsOne

\* A modest step of one process keeps what each one owns.
LEMMA ModestKeeps ==
  ASSUME BootstrapInv, OwnerInv, NEW p \in Procs, Modest(p), touched' = touched
  PROVE  OwnerInv'
<1>1. \A q \in Procs : Fresh(tmp[q])'
  BY DEF OwnerInv, Modest, Fresh
<1>2. Fresh(node["marker"])'
  BY DEF Modest, Fresh
<1>3. ASSUME "lock" \notin touched, NEW q \in Procs PROVE Owned(q)'
  <2>1. Owned(q)
    BY <1>3 DEF OwnerInv
  <2>2. CASE q = p
    BY <2>1, <2>2 DEF Modest
  <2>3. CASE q # p
    <3>1. pc'[q] = pc[q] /\ tmp'[q] = tmp[q]
      BY <2>3 DEF Modest
    <3>2. CASE node'["marker"] = node["marker"]
      BY <2>1, <3>1, <3>2 DEF Owned, OwnOrNone
    <3>3. CASE pc[p] \in Begun \cup {"markpub"}
      <4>1. pc[q] \notin Begun
        BY <1>3, <2>3, <3>3, OneBuilder
      <4> QED BY <2>1, <3>1, <4>1 DEF Owned
    <3> QED BY <3>2, <3>3 DEF Modest
  <2> QED BY <2>2, <2>3
<1> QED BY <1>1, <1>2, <1>3 DEF OwnerInv

\* A return.
LEMMA LeaveModest ==
  ASSUME ShapeOK, OwnerInv, NEW p \in Procs, Leaves(p), Fresh(node'["marker"]),
         node'["marker"] = node["marker"] \/ pc[p] \in Begun
  PROVE  Modest(p)
<1>1. pc'[p] = "done" /\ \A q \in Procs \ {p} : pc'[q] = pc[q] /\ tmp'[q] = tmp[q]
  BY DEF ShapeOK, Leaves
<1>2. tmp'[p] = tmp[p] \/ tmp'[p] = Absent
  BY DEF ShapeOK, Leaves
<1>3. Fresh(tmp'[p])
  BY <1>2 DEF OwnerInv, Fresh, Absent
<1>4. Owned(p)'
  BY <1>1 DEF Owned, Begun, Building, Finishing
<1> QED BY <1>1, <1>3, <1>4 DEF Modest

\* An error return and a success change no entry.
LEMMA ReturnModest ==
  ASSUME ShapeOK, OwnerInv, NEW p \in Procs,
         \/ \E s, k : Fail(p, s, k)
         \/ \E c, i : Succeed(p, c, i)
         \/ \E c : FailWith(p, c) /\ UNCHANGED <<node, nextIno>>
         \/ CurrentConfig(p)
  PROVE  Modest(p)
<1>1. Leaves(p) /\ node' = node
  BY WaysOut
<1> QED BY <1>1, LeaveModest DEF OwnerInv

\* A step that goes on and leaves the marker.
LEMMA GoModest ==
  ASSUME ShapeOK, OwnerInv, NEW p \in Procs, NEW next \in Inside \cup Outside, Goto(p, next),
         node'["marker"] = node["marker"], \A q \in Procs \ {p} : tmp'[q] = tmp[q], Fresh(tmp'[p]),
         next \in {"markpub", "rdyswap"} => tmp'[p].doc[2] = p,
         next \in Begun => pc[p] \in Begun
  PROVE  Modest(p)
<1>1. pc'[p] = next /\ \A q \in Procs \ {p} : pc'[q] = pc[q]
  BY DEF Goto, ShapeOK
<1>2. Owned(p) => Owned(p)'
  BY <1>1 DEF Owned, OwnOrNone
<1> QED BY <1>1, <1>2 DEF Modest, OwnerInv

\* A check.
LEMMA CheckModest ==
  ASSUME ShapeOK, OwnerInv, NEW p \in Procs, NEW next \in (Inside \cup Outside) \ {"markpub", "rdyswap"},
         NEW verdict, NEW stage, Check(p, verdict, stage, next), next \in Begun => pc[p] \in Begun
  PROVE  Modest(p)
<1>1. CASE Goto(p, next) /\ UNCHANGED <<node, tmp>>
  BY <1>1, GoModest DEF OwnerInv
<1> QED BY <1>1, ReturnModest DEF Check, fsys

\* Before the root is claimed nothing is staged and the marker is only read.
LEMMA SeekingModest ==
  ASSUME ShapeOK, OwnerInv, NEW p \in Procs,
         \/ Begin(p) \/ PrepareOpen(p) \/ LinuxPrepareMkdir(p) \/ MacPrepareMkdir(p)
         \/ LockOpen(p) \/ Flock(p) \/ FlockTimeout(p) \/ LockAcquired(p) \/ ReadConfig(p)
         \/ ValidateLayout(p) \/ RequireReadyMarker(p) \/ InspectDatabase(p) \/ InspectExisting(p)
         \/ PrepareDataRoot(p) \/ CreateInitializing(p)
  PROVE  Modest(p)
<1> DEFINE Seeking == Looking \cup {"prepare", "mkroot", "lockopen", "flock", "dataroot", "claim", "marktmp"}
<1>1. ASSUME NEW next \in Seeking, Goto(p, next), node'["marker"] = node["marker"], tmp' = tmp PROVE Modest(p)
  <2>1. next \in Inside \cup Outside /\ next \notin Begun \cup {"markpub", "rdyswap"}
    BY <1>1 DEF Inside, Outside, Looking, Claiming, Begun, Building, Finishing
  <2> QED BY <1>1, <2>1, GoModest DEF OwnerInv
<1>2. ASSUME NEW next \in Seeking, NEW verdict, NEW stage, Check(p, verdict, stage, next) PROVE Modest(p)
  <2>1. next \in Inside \cup Outside /\ next \notin Begun \cup {"markpub", "rdyswap"}
    BY <1>2 DEF Inside, Outside, Looking, Claiming, Begun, Building, Finishing
  <2> QED BY <1>2, <2>1, CheckModest
<1>3. ASSUME Goto(p, "prepare"), MakeRoot PROVE Modest(p)
  <2>1. node'["marker"] = node["marker"] /\ tmp' = tmp
    BY <1>3 DEF MakeRoot, ShapeOK, Names
  <2> QED BY <1>1, <1>3, <2>1
<1>4. CASE Begin(p)
  BY <1>1, <1>4 DEF Begin, fsys, Looking
<1>5. CASE PrepareOpen(p)
  BY <1>1, <1>2, <1>5 DEF PrepareOpen, fsys
<1>6. CASE LinuxPrepareMkdir(p)
  BY <1>1, <1>3, <1>6 DEF LinuxPrepareMkdir, fsys
<1>7. CASE MacPrepareMkdir(p)
  BY <1>3, <1>7, ReturnModest DEF MacPrepareMkdir
<1>8. CASE LockOpen(p)
  <2> DEFINE new == node["lock"].kind = "none"
             i == IF new THEN nextIno ELSE node["lock"].ino
  <2>1. CASE Goto(p, "flock") /\ tmp' = tmp /\ node' = IF new THEN [node EXCEPT !["lock"] = NewFile(i, NoDoc)] ELSE node
    <3> HIDE DEF i
    <3>1. node'["marker"] = node["marker"]
      BY <2>1 DEF ShapeOK, Names
    <3> QED BY <1>1, <2>1, <3>1
  <2> QED BY <1>8, <2>1, ReturnModest DEF LockOpen
<1>9. CASE Flock(p)
  BY <1>1, <1>9 DEF Flock, fsys, Looking
<1>10. CASE FlockTimeout(p)
  BY <1>10, ReturnModest DEF FlockTimeout
<1>11. CASE LockAcquired(p) \/ InspectDatabase(p) \/ InspectExisting(p)
  BY <1>2, <1>11 DEF LockAcquired, InspectDatabase, InspectExisting, Looking
<1>12. CASE PrepareDataRoot(p) \/ CreateInitializing(p)
  BY <1>2, <1>12 DEF PrepareDataRoot, CreateInitializing
<1>13. CASE ReadConfig(p)
  <2>1. \/ \E k : Fail(p, "Control", k)
        \/ FailWith(p, "NotInitialized") /\ UNCHANGED <<node, nextIno>>
        \/ \E next \in {"layout", "dataroot"} : Goto(p, next) /\ UNCHANGED <<node, tmp>>
    BY <1>13 DEF ReadConfig, fsys
  <2> QED BY <1>1, <2>1, ReturnModest DEF Looking
<1>14. CASE ValidateLayout(p)
  BY <1>1, <1>14, ReturnModest DEF ValidateLayout, fsys, Looking
<1>15. CASE RequireReadyMarker(p)
  BY <1>2, <1>15, ReturnModest DEF RequireReadyMarker, Looking
<1> QED BY <1>4, <1>5, <1>6, <1>7, <1>8, <1>9, <1>10, <1>11, <1>12, <1>13, <1>14, <1>15

\* The marker is staged and published where there is none.
LEMMA MarkingModest ==
  ASSUME ShapeOK, OwnerInv, NEW p \in Procs,
         StageMarker(p) \/ PublishMarker(p) \/ LinuxMarkerPublished(p) \/ MacMarkerPublished(p)
  PROVE  Modest(p)
<1>1. CASE StageMarker(p)
  <2>1. CASE StageTemp(p, Marker("initializing", p)) /\ Goto(p, "markpub")
    <3>1. tmp' = [tmp EXCEPT ![p] = NewFile(nextIno, Marker("initializing", p))] /\ node' = node
      BY <2>1 DEF StageTemp
    <3>2. tmp'[p] = NewFile(nextIno, Marker("initializing", p)) /\ \A q \in Procs \ {p} : tmp'[q] = tmp[q]
      BY <3>1 DEF ShapeOK
    <3>3. tmp'[p].doc[2] = p /\ Fresh(tmp'[p])
      BY <3>2 DEF NewFile, Marker, Fresh
    <3> QED BY <2>1, <3>1, <3>2, <3>3, GoModest DEF Inside, Claiming, Begun, Building, Finishing
  <2> QED BY <1>1, <2>1, ReturnModest DEF StageMarker
<1>2. CASE PublishMarker(p)
  <2>1. CASE /\ node' = [node EXCEPT !["marker"] = tmp[p]] /\ tmp' = [tmp EXCEPT ![p] = Absent]
             /\ Goto(p, "markcheck") /\ node["marker"].kind = "none"
    <3>1. node'["marker"] = tmp[p] /\ tmp'[p] = Absent /\ \A q \in Procs \ {p} : tmp'[q] = tmp[q]
      BY <2>1 DEF ShapeOK, Names
    <3>2. pc'[p] = "markcheck" /\ pc[p] = "markpub" /\ \A q \in Procs \ {p} : pc'[q] = pc[q]
      BY <1>2, <2>1 DEF PublishMarker, At, Goto, ShapeOK
    <3>3. Fresh(node'["marker"]) /\ Fresh(tmp'[p])
      BY <3>1 DEF OwnerInv, Fresh, Absent
    <3>4. Owned(p) => Owned(p)'
      BY <3>1, <3>2 DEF Owned, OwnOrNone
    <3> QED BY <2>1, <3>1, <3>2, <3>3, <3>4 DEF Modest
  <2> QED BY <1>2, <2>1, ReturnModest DEF PublishMarker, PublishNoReplace
<1>3. CASE LinuxMarkerPublished(p)
  BY <1>3, CheckModest DEF LinuxMarkerPublished, At, Inside, Claiming, Begun, Building
<1>4. CASE MacMarkerPublished(p)
  <2>1. pc[p] = "markcheck"
    BY <1>4 DEF MacMarkerPublished, At
  <2>2. CASE Goto(p, "mkmetadata") /\ UNCHANGED <<node, tmp, mem>>
    BY <2>1, <2>2, GoModest DEF OwnerInv, Inside, Claiming, Begun, Building
  <2>3. CASE MacUndo(p, "marker", mem[p].marker, "InvalidData")
    <3>1. Leaves(p) /\ RemoveExactEntry("marker", mem[p].marker)
      BY <2>3, WaysOut
    <3>2. node'["marker"] = node["marker"] \/ node'["marker"] = Absent
      BY <3>1 DEF RemoveExactEntry, ShapeOK, Names
    <3> QED BY <2>1, <3>1, <3>2, LeaveModest DEF OwnerInv, Fresh, Absent, Begun, Building
  <2> QED BY <1>4, <2>2, <2>3 DEF MacMarkerPublished, fsys
<1> QED BY <1>1, <1>2, <1>3, <1>4

\* The children and the database are made beside the marker.
LEMMA ChildrenModest ==
  ASSUME ShapeOK, OwnerInv, NEW p \in Procs,
         \/ StageChild(p) \/ PublishChild(p) \/ CreateDatabaseFile(p) \/ LinuxNewLayout(p) \/ MacNewLayout(p)
         \/ InitializeDatabase(p) \/ DatabaseInitialized(p)
  PROVE  Modest(p)
<1>0. /\ DOMAIN ChildLabels = {"mkmetadata", "mklogs"}
      /\ \A l \in DOMAIN ChildLabels : ChildLabels[l].name \in {"metadata", "logs"} /\ ChildLabels[l].pub \in {"pubmetadata", "publogs"}
  BY DEF ChildLabels
<1> DEFINE Here == {"mkmetadata", "pubmetadata", "mklogs", "publogs", "mkdb", "newlayout", "dbinit", "dbcheck", "rdytmp"}
<1>1. ASSUME NEW l \in Here PROVE l \in Inside /\ l \in Begun /\ l \notin {"markpub", "rdyswap"}
  BY <1>1 DEF Inside, Claiming, Begun, Building, Finishing
<1>2. ASSUME NEW next \in Here, pc[p] \in Here, Goto(p, next), node'["marker"] = node["marker"],
             tmp' = tmp \/ tmp' = [tmp EXCEPT ![p] = Absent] \/ tmp' = [tmp EXCEPT ![p] = NewDirectory(nextIno)]
      PROVE  Modest(p)
  <2>1. (\A q \in Procs \ {p} : tmp'[q] = tmp[q]) /\ (tmp'[p] = tmp[p] \/ tmp'[p] \in {Absent, NewDirectory(nextIno)})
    BY <1>2 DEF ShapeOK
  <2>2. Fresh(tmp'[p])
    BY <2>1 DEF OwnerInv, Fresh, Absent, NewDirectory
  <2> QED BY <1>1, <1>2, <2>1, <2>2, GoModest
<1>3. CASE StageChild(p)
  <2>1. \/ \E k : Fail(p, "Control", k)
        \/ \E next \in {"pubmetadata", "publogs"} :
             /\ pc[p] \in {"mkmetadata", "mklogs"} /\ Goto(p, next) /\ node' = node
             /\ tmp' = [tmp EXCEPT ![p] = NewDirectory(nextIno)]
    BY <1>0, <1>3 DEF StageChild, At
  <2> QED BY <1>2, <2>1, ReturnModest
<1>4. CASE PublishChild(p)
  <2>1. \/ \E k : Fail(p, "Control", k)
        \/ CleanupAndFail(p, "NotEmpty") /\ node' = node
        \/ \E name \in {"metadata", "logs"}, next \in {"mklogs", "mkdb"} :
             /\ pc[p] \in {"pubmetadata", "publogs"} /\ Goto(p, next)
             /\ node' = [node EXCEPT ![name] = tmp[p]] /\ tmp' = [tmp EXCEPT ![p] = Absent]
    BY <1>0, <1>4 DEF PublishChild, At, PublishNoReplace
  <2>2. CASE CleanupAndFail(p, "NotEmpty") /\ node' = node
    BY <2>2, WaysOut, LeaveModest DEF OwnerInv
  <2>3. ASSUME NEW name \in {"metadata", "logs"}, NEW next \in {"mklogs", "mkdb"},
               pc[p] \in {"pubmetadata", "publogs"}, Goto(p, next),
               node' = [node EXCEPT ![name] = tmp[p]], tmp' = [tmp EXCEPT ![p] = Absent]
        PROVE  Modest(p)
    <3>1. node'["marker"] = node["marker"]
      BY <2>3 DEF ShapeOK, Names
    <3> QED BY <1>2, <2>3, <3>1
  <2> QED BY <2>1, <2>2, <2>3, ReturnModest
<1>5. CASE CreateDatabaseFile(p)
  <2>1. CASE node' = [node EXCEPT !["db"] = NewFile(nextIno, EmptyDatabase)] /\ Goto(p, "newlayout") /\ tmp' = tmp
    <3>1. node'["marker"] = node["marker"]
      BY <2>1 DEF ShapeOK, Names
    <3> QED BY <1>2, <1>5, <2>1, <3>1 DEF CreateDatabaseFile, At
  <2> QED BY <1>5, <2>1, ReturnModest DEF CreateDatabaseFile
<1>6. CASE LinuxNewLayout(p) \/ MacNewLayout(p) \/ DatabaseInitialized(p)
  BY <1>1, <1>6, CheckModest DEF LinuxNewLayout, MacNewLayout, DatabaseInitialized, At
<1>7. CASE InitializeDatabase(p)
  <2>1. CASE node' = [node EXCEPT !["db"].doc = Database(p)] /\ Goto(p, "dbcheck") /\ tmp' = tmp
    <3>1. node'["marker"] = node["marker"]
      BY <2>1 DEF ShapeOK, Names
    <3> QED BY <1>2, <1>7, <2>1, <3>1 DEF InitializeDatabase, At
  <2> QED BY <1>7, <2>1, ReturnModest DEF InitializeDatabase
<1> QED BY <1>3, <1>4, <1>5, <1>6, <1>7

\* The withdrawals of macOS touch the marker of p itself.
LEMMA UndoModest ==
  ASSUME ShapeOK, OwnerInv, NEW p \in Procs, pc[p] \in Begun, NEW k,
         \/ \E name \in {"marker", "config"} : \E i : MacUndo(p, name, i, k)
         \/ MacUndoExchange(p, k)
  PROVE  Modest(p)
<1>1. ASSUME NEW name \in {"marker", "config"}, NEW i, MacUndo(p, name, i, k) PROVE Modest(p)
  <2>1. Leaves(p) /\ RemoveExactEntry(name, i)
    BY <1>1, WaysOut
  <2>2. node'["marker"] = node["marker"] \/ node'["marker"] = Absent
    BY <2>1 DEF RemoveExactEntry, ShapeOK, Names
  <2> QED BY <2>1, <2>2, LeaveModest DEF OwnerInv, Fresh, Absent
<1>2. CASE MacUndoExchange(p, k)
  <2>1. Leaves(p) /\ node' \in {node, [node EXCEPT !["marker"] = tmp[p]]}
    BY <1>2, WaysOut
  <2>2. node'["marker"] = node["marker"] \/ node'["marker"] = tmp[p]
    BY <2>1 DEF ShapeOK, Names
  <2>3. Fresh(node'["marker"])
    BY <2>2 DEF OwnerInv
  <2> QED BY <2>1, <2>3, LeaveModest
<1> QED BY <1>1, <1>2

\* The Ready marker is exchanged with what stands under the name of the marker,
\* which is none but p's own; the config is published.
LEMMA EndingModest ==
  ASSUME ShapeOK, OwnerInv, NEW p \in Procs,
         \/ StageReady(p) \/ ExchangeMarker(p) \/ LinuxReadyExchanged(p) \/ MacReadyExchanged(p)
         \/ StageConfig(p) \/ PublishConfig(p) \/ LinuxConfigPublished(p) \/ MacConfigPublished(p)
  PROVE  Modest(p)
<1>1. pc[p] \in {"rdytmp", "rdyswap", "rdycheck", "cfgtmp", "cfgpub", "cfgcheck"} /\ pc[p] \in Begun
  BY DEF StageReady, ExchangeMarker, LinuxReadyExchanged, MacReadyExchanged, StageConfig, PublishConfig,
         LinuxConfigPublished, MacConfigPublished, At, Begun, Building, Finishing
<1>2. ASSUME NEW next \in {"rdyswap", "cfgtmp", "cfgpub", "cfgcheck"}, Goto(p, next), node'["marker"] = node["marker"],
             NEW e, tmp' = [tmp EXCEPT ![p] = e], Fresh(e), next = "rdyswap" => e.doc[2] = p
      PROVE  Modest(p)
  <2>1. tmp'[p] = e /\ \A q \in Procs \ {p} : tmp'[q] = tmp[q]
    BY <1>2 DEF ShapeOK
  <2>2. next \in Inside \cup Outside /\ next # "markpub"
    BY DEF Inside, Finishing, Committing
  <2> QED BY <1>1, <1>2, <2>1, <2>2, GoModest
<1>3. ASSUME NEW next \in {"rdyswap", "cfgpub"}, NEW doc, doc[2] = p, StageTemp(p, doc), Goto(p, next) PROVE Modest(p)
  <2> DEFINE e == NewFile(nextIno, doc)
  <2>1. tmp' = [tmp EXCEPT ![p] = e] /\ node' = node
    BY <1>3 DEF StageTemp
  <2>2. Fresh(e) /\ e.doc[2] = p
    BY <1>3 DEF NewFile, Fresh
  <2> QED BY <1>2, <1>3, <2>1, <2>2
<1>4. Fresh(Absent)
  BY DEF Fresh, Absent
<1>5. CASE StageReady(p)
  <2>1. Marker("ready", p)[2] = p
    BY DEF Marker
  <2> QED BY <1>3, <1>5, <2>1, ReturnModest DEF StageReady
<1>6. CASE ExchangeMarker(p)
  <2>1. CASE node' = [node EXCEPT !["marker"] = tmp[p]] /\ tmp' = [tmp EXCEPT ![p] = node["marker"]] /\ Goto(p, "rdycheck")
    <3>1. node'["marker"] = tmp[p] /\ tmp'[p] = node["marker"] /\ \A q \in Procs \ {p} : tmp'[q] = tmp[q]
      BY <2>1 DEF ShapeOK, Names
    <3>2. pc'[p] = "rdycheck" /\ pc[p] = "rdyswap" /\ \A q \in Procs \ {p} : pc'[q] = pc[q]
      BY <1>6, <2>1 DEF ExchangeMarker, At, Goto, ShapeOK
    <3>3. Fresh(node'["marker"]) /\ Fresh(tmp'[p])
      BY <3>1 DEF OwnerInv
    <3>4. Owned(p) => Owned(p)'
      BY <3>1, <3>2 DEF Owned, OwnOrNone
    <3> QED BY <1>1, <3>1, <3>2, <3>3, <3>4 DEF Modest
  <2> QED BY <1>6, <2>1, ReturnModest DEF ExchangeMarker
<1>7. CASE LinuxReadyExchanged(p)
  BY <1>2, <1>4, <1>7, ReturnModest DEF LinuxReadyExchanged
<1>8. CASE MacReadyExchanged(p)
  BY <1>1, <1>2, <1>4, <1>8, UndoModest DEF MacReadyExchanged
<1>9. CASE StageConfig(p)
  <2>1. ConfigDoc(p)[2] = p
    BY DEF ConfigDoc
  <2> QED BY <1>3, <1>9, <2>1, ReturnModest DEF StageConfig
<1>10. CASE PublishConfig(p)
  <2>1. CASE PublishNoReplace(p, "config", mem[p]) /\ Goto(p, "cfgcheck")
    <3>1. node'["marker"] = node["marker"] /\ tmp' = [tmp EXCEPT ![p] = Absent]
      BY <2>1 DEF PublishNoReplace, ShapeOK, Names
    <3> QED BY <1>2, <1>4, <2>1, <3>1
  <2> QED BY <1>10, <2>1, ReturnModest DEF PublishConfig
<1>11. CASE LinuxConfigPublished(p)
  BY <1>11, ReturnModest DEF LinuxConfigPublished
<1>12. CASE MacConfigPublished(p)
  BY <1>1, <1>12, ReturnModest, UndoModest DEF MacConfigPublished
<1> QED BY <1>5, <1>6, <1>7, <1>8, <1>9, <1>10, <1>11, <1>12

\* A kill and a failing call.
LEMMA TroubleModest ==
  ASSUME ShapeOK, OwnerInv, NEW p \in Procs, Kill(p) \/ Fault(p)
  PROVE  Modest(p)
<1>1. CASE Kill(p)
  <2>1. pc' = [pc EXCEPT ![p] = "killed"] /\ UNCHANGED <<node, tmp>>
    BY <1>1 DEF Kill, fsys
  <2>2. pc'[p] = "killed" /\ \A q \in Procs \ {p} : pc'[q] = pc[q]
    BY <2>1 DEF ShapeOK
  <2> QED BY <2>1, <2>2 DEF Modest, Owned, OwnerInv, Begun, Building, Finishing
<1>2. CASE Fault(p)
  <2>1. pc[p] \in {"markcheck", "rdycheck", "cfgcheck"} => pc[p] \in Begun
    BY DEF Begun, Building, Finishing
  <2> QED BY <1>2, <2>1, ReturnModest, UndoModest DEF Fault
<1> QED BY <1>1, <1>2

\* Every step of a process is modest.
LEMMA StepModest ==
  ASSUME ShapeOK, OwnerInv, NEW p \in Procs, Step(p) \/ Kill(p) \/ Fault(p)
  PROVE  Modest(p)
BY SeekingModest, MarkingModest, ChildrenModest, EndingModest, TroubleModest DEF Step

\* The user takes the name from a marker and never gives one.
LEMMA TamperOwns ==
  ASSUME ShapeOK, OwnerInv, NEW name \in Names, Tamper(name)
  PROVE  OwnerInv'
<1>1. PICK t : /\ t \in Tampered(node[name], nextIno) \cup {[node[name] EXCEPT !.safe = FALSE]}
               /\ node' = [node EXCEPT ![name] = t,
                             !["db"] = IF name = "metadata" /\ t.ino # node[name].ino THEN Absent
                                       ELSE IF name = "db" THEN t ELSE node["db"]]
  BY DEF Tamper
<1>2. name # "marker" => node'["marker"] = node["marker"]
  BY <1>1 DEF ShapeOK, Names
<1>3. name = "marker" => node'["marker"] = t
  BY <1>1 DEF ShapeOK, Names
<1>4. node[name] \in Entry /\ node[name].kind # "none"
  BY DEF ShapeOK, Tamper
<1>5. t = Absent \/ (t.kind = node[name].kind /\ (t.doc = node[name].doc \/ t.doc = Foreign))
  BY <1>1, <1>4 DEF Tampered, Entry
<1>6. Fresh(node'["marker"])
  BY <1>2, <1>3, <1>4, <1>5 DEF OwnerInv, Fresh, Absent
<1>7. node'["marker"].doc[2] \in {node["marker"].doc[2], 0}
  BY <1>2, <1>3, <1>5 DEF Absent, NoDoc, Foreign
<1>8. UNCHANGED <<pc, tmp>> /\ touched \subseteq touched'
  BY DEF Tamper
<1>9. \A q \in Procs : Owned(q) => Owned(q)'
  BY <1>7, <1>8 DEF Owned, OwnOrNone
<1> QED BY <1>6, <1>8, <1>9 DEF OwnerInv, Fresh

\* A step of another process leaves what a killed one staged and published.
LEMMA StepSparesTheKilled ==
  ASSUME BootstrapInv, OwnerInv, "lock" \notin touched, NEW r \in Procs, Modest(r),
         NEW p \in Procs \ {r}
  PROVE  tmp'[p] = tmp[p] /\ (node["marker"].doc[2] = p => node'["marker"] = node["marker"])
<1>1. tmp'[p] = tmp[p]
  BY DEF Modest
<1>2. ASSUME node["marker"].doc[2] = p, pc[r] \in Begun PROVE FALSE
  <2>1. node["marker"].doc[2] = r \/ node["marker"].doc[2] = 0
    BY <1>2 DEF OwnerInv, Owned, OwnOrNone
  <2> QED BY <1>2, <2>1, BootstrapAssumption
<1>3. ASSUME node["marker"].doc[2] = p, node["marker"].kind = "none" PROVE FALSE
  BY <1>3, BootstrapAssumption DEF OwnerInv, Fresh, NoDoc
<1> QED BY <1>1, <1>2, <1>3 DEF Modest

\* What binds a marker to its init is kept by every step.
LEMMA OwnerStep == BootstrapInv /\ OwnerInv /\ [Next]_vars => OwnerInv'
<1> SUFFICES ASSUME BootstrapInv, OwnerInv, [Next]_vars PROVE OwnerInv'
  OBVIOUS
<1>1. CASE UNCHANGED vars
  BY <1>1 DEF vars, OwnerInv, Owned, OwnOrNone, Fresh
<1>2. ASSUME NEW p \in Procs, Step(p) \/ Kill(p) \/ Fault(p) PROVE OwnerInv'
  <2>1. touched' = touched
    BY <1>2, StepFrame DEF Kill, Fault
  <2> QED BY <1>2, <2>1, StepModest, ModestKeeps DEF BootstrapInv
<1>3. ASSUME NEW name \in Names, Tamper(name) PROVE OwnerInv'
  BY <1>3, TamperOwns DEF BootstrapInv
<1> QED BY <1>1, <1>2, <1>3 DEF Next, Stop

\* While the user leaves the lock file alone, and whatever else he does to the root,
\* no init adopts, finishes, exchanges or deletes what a killed one staged or
\* published (require_unclaimed_control_root, publish_ready, remove_exact_entry).
THEOREM KilledInitIsSpared == Spec => NeverTakesOver
<1> DEFINE Inv == BootstrapInv /\ OwnerInv
           Spares == \A p \in Procs : pc[p] = "killed" /\ touched' = touched /\ "lock" \notin touched =>
                       /\ tmp'[p] = tmp[p]
                       /\ node["marker"].doc[2] = p => node'["marker"] = node["marker"]
<1>1. Init => Inv
  <2>1. ASSUME Init PROVE OwnerInv
    BY <2>1 DEF Init, OwnerInv, Owned, Fresh, Absent, Names, Begun, Building, Finishing
  <2> QED BY <2>1, InitEstablishesInv
<1>2. Inv /\ [Next]_vars => Inv'
  BY NextKeeps, OwnerStep
<1>3. Inv /\ [Next]_vars => [Spares]_vars
  <2> SUFFICES ASSUME Inv, Next, NEW p \in Procs, pc[p] = "killed", touched' = touched, "lock" \notin touched
               PROVE  tmp'[p] = tmp[p] /\ (node["marker"].doc[2] = p => node'["marker"] = node["marker"])
    OBVIOUS
  <2>1. ASSUME NEW r \in Procs, Step(r) \/ Kill(r) \/ Fault(r)
        PROVE  tmp'[p] = tmp[p] /\ (node["marker"].doc[2] = p => node'["marker"] = node["marker"])
    <3>1. r # p
      BY <2>1, StepFrame DEF Kill, Fault, Running
    <3>2. Modest(r)
      BY <2>1, StepModest DEF BootstrapInv
    <3> QED BY <3>1, <3>2, StepSparesTheKilled
  <2>2. ASSUME NEW name \in Names, Tamper(name) PROVE FALSE
    BY <2>2 DEF Tamper
  <2> QED BY <2>1, <2>2 DEF Next, Stop, vars
<1> QED BY <1>1, <1>2, <1>3, PTL DEF Spec, NeverTakesOver
=============================================================================
