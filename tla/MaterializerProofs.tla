------------------------- MODULE MaterializerProofs -------------------------
(***************************************************************************)
(* Theorems about the materializers of Linux and macOS, for every source   *)
(* tree, any number of users' files and of failing calls.                  *)
(*                                                                         *)
(* The invariant comes in layers: Base (control and receipts), PlacesInv   *)
(* (names, whatever users do), LookHolds (the last look at the target),    *)
(* and, where users stay out, Untouched (places), CalmEnds (a failure that *)
(* comes alone) and Quiet (nothing happens at all).                        *)
(***************************************************************************)
EXTENDS MacMaterializer, WellFoundedInduction, TLAPS

(***************************************************************************)
(* The tree                                                                *)
(***************************************************************************)

Index == 1..Len(Tree)

\* The entries are those of the walk, each visited once.
LEMMA TreeWalk ==
  /\ Len(Tree) \in Nat /\ Len(Tree) > 0
  /\ DOMAIN Tree = Index /\ Entries = {Tree[i] : i \in Index}
  /\ \A i \in Index : Tree[i] \in Entries
  /\ \A i, j \in Index : Tree[i] = Tree[j] => i = j
  /\ ParentOf \in [Entries -> Entries \cup {"root"}]
  /\ KindOf \in [Entries -> {"dir", "file", "link"}]
<1>1. Tree \in Seq(Entries) /\ Len(Tree) > 0
  BY TreeAssumption
<1>2. Len(Tree) \in Nat /\ DOMAIN Tree = Index
  BY <1>1 DEF Index
<1>3. Entries = {Tree[i] : i \in Index}
  BY <1>2 DEF Entries
<1> QED BY <1>1, <1>2, <1>3, TreeAssumption

\* What every set holds that has the directory of e and, with an entry, its directory.
AncestorsOf(e) ==
  {p \in Entries : \A S \in SUBSET Entries :
     /\ ParentOf[e] # "root" => ParentOf[e] \in S
     /\ \A x \in S : ParentOf[x] # "root" => ParentOf[x] \in S
     => p \in S}

\* The ancestors satisfy the equation that defines Above.
LEMMA AncestorsUnfold ==
  ASSUME NEW e \in Entries
  PROVE  AncestorsOf(e) = IF ParentOf[e] = "root" THEN {}
                          ELSE {ParentOf[e]} \cup AncestorsOf(ParentOf[e])
<1>0. \A x \in Entries : ParentOf[x] # "root" => ParentOf[x] \in Entries
  BY TreeWalk
<1>1. CASE ParentOf[e] = "root"
  BY <1>1 DEF AncestorsOf
<1>2. CASE ParentOf[e] # "root"
  <2> DEFINE d == ParentOf[e]
             B == {d} \cup AncestorsOf(d)
  <2>1. d \in Entries
    BY <1>0, <1>2
  <2>2. AncestorsOf(e) \subseteq B
    <3>1. B \in SUBSET Entries /\ d \in B
      BY <2>1 DEF AncestorsOf
    <3>2. ASSUME NEW x \in B, ParentOf[x] # "root" PROVE ParentOf[x] \in B
      <4>1. CASE x = d
        <5>1. ParentOf[d] \in Entries
          BY <1>0, <2>1, <3>2, <4>1
        <5> QED BY <5>1, <3>2, <4>1 DEF AncestorsOf
      <4>2. CASE x \in AncestorsOf(d)
        <5>1. x \in Entries /\ ParentOf[x] \in Entries
          BY <1>0, <3>2, <4>2 DEF AncestorsOf
        <5> QED BY <5>1, <3>2, <4>2 DEF AncestorsOf
      <4> QED BY <4>1, <4>2
    <3> HIDE DEF B
    <3> QED BY <3>1, <3>2 DEF AncestorsOf
  <2>3. B \subseteq AncestorsOf(e)
    <3>1. d \in AncestorsOf(e)
      BY <2>1, <1>2 DEF AncestorsOf
    <3>2. AncestorsOf(d) \subseteq AncestorsOf(e)
      BY <2>1, <1>2 DEF AncestorsOf
    <3> QED BY <3>1, <3>2
  <2> QED BY <1>2, <2>2, <2>3
<1> QED BY <1>1, <1>2

\* Above is what its recursive definition says: the directory of e and what that is in.
LEMMA AboveUnfolds ==
  \A e \in Entries :
     Above[e] = IF ParentOf[e] = "root" THEN {} ELSE {ParentOf[e]} \cup Above[ParentOf[e]]
<1> DEFINE Solves(g) == g = [e \in Entries |-> IF ParentOf[e] = "root" THEN {}
                                               ELSE {ParentOf[e]} \cup g[ParentOf[e]]]
<1>1. Solves([e \in Entries |-> AncestorsOf(e)])
  <2>1. \A e \in Entries : ParentOf[e] # "root" => ParentOf[e] \in Entries
    BY TreeWalk
  <2> QED BY <2>1, AncestorsUnfold
<1>2. Above = CHOOSE g : Solves(g)
  BY DEF Above
<1> HIDE DEF Solves
<1>3. Solves(Above)
  BY <1>1, <1>2
<1> USE DEF Solves
<1> QED BY <1>3

\* The order of the naturals has least elements.
LEMMA NatOrder == IsWellFoundedOn({ss \in Nat \X Nat : ss[1] < ss[2]}, Nat)
BY NatLessThanWellFounded DEF OpToRel

\* A set of numbers that is not empty has a least element.
LEMMA Least ==
  ASSUME NEW T, T \subseteq Nat, T # {}
  PROVE  \E x \in T : \A y \in T : ~(y < x)
<1>1. \E x \in T : \A y \in T : ~(<<y, x>> \in {ss \in Nat \X Nat : ss[1] < ss[2]})
  BY NatOrder, WFMin
<1>2. \A x, y \in Nat : <<y, x>> \in {ss \in Nat \X Nat : ss[1] < ss[2]} <=> y < x
  OBVIOUS
<1> QED BY <1>1, <1>2

\* The walk visits a directory before what is in it, at any depth: by the least
\* entry of the walk of which that is not so.
LEMMA AncestorsFirst ==
  \A j \in Index : Above[Tree[j]] \subseteq {Tree[i] : i \in 1..(j - 1)}
<1> DEFINE Bad == {j \in Index : ~(Above[Tree[j]] \subseteq {Tree[i] : i \in 1..(j - 1)})}
<1>1. SUFFICES ASSUME Bad # {} PROVE FALSE
  OBVIOUS
<1>2. PICK j \in Bad : \A k \in Bad : ~(k < j)
  <2>1. Bad \subseteq Nat
    BY TreeWalk DEF Index
  <2> HIDE DEF Bad
  <2> QED BY <1>1, <2>1, Least
<1>3. j \in Index /\ j \in Nat /\ j >= 1 /\ j <= Len(Tree)
  BY TreeWalk DEF Index
<1>4. \A k \in 1..(j - 1) : k \in Index /\ Above[Tree[k]] \subseteq {Tree[i] : i \in 1..(k - 1)}
  <2>1. \A k \in 1..(j - 1) : k \in Index /\ k < j
    BY <1>3, TreeWalk DEF Index
  <2> QED BY <2>1, <1>2
<1>5. ParentOf[Tree[j]] # "root"
  <2>1. Above[Tree[j]] # {}
    BY <1>3
  <2> QED BY <2>1, <1>3, AboveUnfolds, TreeWalk
<1>6. j \in 2..Len(Tree)
  BY <1>3, <1>5, TreeAssumption
<1>7. ParentOf[Tree[j]] \in {Tree[j - 1]} \cup Above[Tree[j - 1]]
  BY <1>5, <1>6, TreeAssumption
<1>8. PICK k \in 1..(j - 1) : ParentOf[Tree[j]] = Tree[k]
  <2>1. j - 1 \in 1..(j - 1)
    BY <1>6
  <2>2. Above[Tree[j - 1]] \subseteq {Tree[i] : i \in 1..((j - 1) - 1)}
    BY <2>1, <1>4
  <2>3. 1..((j - 1) - 1) \subseteq 1..(j - 1)
    BY <1>6
  <2> HIDE DEF Bad
  <2> QED BY <1>7, <2>1, <2>2, <2>3
<1>9. Above[Tree[j]] = {Tree[k]} \cup Above[Tree[k]]
  BY <1>3, <1>5, <1>8, AboveUnfolds, TreeWalk
<1>10. Above[Tree[k]] \subseteq {Tree[i] : i \in 1..(k - 1)}
  BY <1>4
<1>11. 1..(k - 1) \subseteq 1..(j - 1)
  BY <1>3
<1>12. {Tree[k]} \cup Above[Tree[k]] \subseteq {Tree[i] : i \in 1..(j - 1)}
  BY <1>10, <1>11
<1> QED BY <1>9, <1>12, <1>2

\* An entry is at the top or in a directory that the walk visits before it.
LEMMA ParentsFirst ==
  ASSUME NEW j \in Index
  PROVE  \/ ParentOf[Tree[j]] = "root"
         \/ \E i \in 1..(j - 1) :
               i \in Index /\ ParentOf[Tree[j]] = Tree[i] /\ KindOf[Tree[i]] = "dir"
<1>1. SUFFICES ASSUME ParentOf[Tree[j]] # "root"
               PROVE  \E i \in 1..(j - 1) :
                  i \in Index /\ ParentOf[Tree[j]] = Tree[i] /\ KindOf[Tree[i]] = "dir"
  OBVIOUS
<1>2. j \in 2..Len(Tree)
  BY <1>1, TreeAssumption, TreeWalk DEF Index
<1>3. /\ ParentOf[Tree[j]] \in {Tree[j - 1]} \cup Above[Tree[j - 1]]
      /\ KindOf[ParentOf[Tree[j]]] = "dir"
  BY <1>1, <1>2, TreeAssumption
<1>4. PICK i \in 1..(j - 1) : ParentOf[Tree[j]] = Tree[i]
  <2>1. j - 1 \in Index /\ j - 1 \in 1..(j - 1)
    BY <1>2, TreeWalk DEF Index
  <2>2. Above[Tree[j - 1]] \subseteq {Tree[i] : i \in 1..((j - 1) - 1)}
    BY <2>1, AncestorsFirst
  <2>3. 1..((j - 1) - 1) \subseteq 1..(j - 1)
    BY <1>2
  <2> QED BY <1>3, <2>1, <2>2, <2>3
<1>5. i \in Index
  BY <1>2, TreeWalk DEF Index
<1> QED BY <1>3, <1>4, <1>5

(***************************************************************************)
(* Objects and their places                                                *)
(***************************************************************************)

\* The objects made for the first n entries in an attempt of backend b.
Pub(b, n) == {<<b, Tree[i]>> : i \in 1..n}

\* What the attempt that runs has published.
LEMMA PublishedIsPub == \A n : Published(n) = Pub(backend, n)
BY DEF Published, Pub

\* An object is made by one of the two backends for an entry, or is a user's.
LEMMA ObjectKinds ==
  /\ \A o \in Made : /\ o[1] \in Backends /\ o[2] \in Entries /\ o = <<o[1], o[2]>>
                     /\ o \in Objects /\ o \notin UserFiles /\ o \notin Roots
  /\ \A b \in Backends, e \in Entries : <<b, e>> \in Made /\ <<b, e>>[1] = b /\ <<b, e>>[2] = e
  /\ \A o \in UserFiles : o \in Objects /\ o \notin Made /\ o \notin Roots
  /\ Objects = Made \cup UserFiles
  /\ MadeDirs \subseteq Made
<1>1. \A o \in Made : /\ o[1] \in Backends /\ o[2] \in Entries /\ o = <<o[1], o[2]>>
                      /\ o \in Objects
  BY DEF Made, Objects
<1>2. \A o \in Made : o \notin UserFiles
  BY DEF Made, UserFiles, Backends
<1>3. \A o \in Made : o \notin Roots
  BY DEF Made, Roots, Target, Staging, Trash, Backends
<1>4. \A b \in Backends, e \in Entries : <<b, e>> \in Made /\ <<b, e>>[1] = b /\ <<b, e>>[2] = e
  BY DEF Made
<1>5. \A o \in UserFiles : o \in Objects /\ o \notin Made /\ o \notin Roots
  BY DEF Made, UserFiles, Backends, Objects, Roots, Target, Staging, Trash
<1>6. Objects = Made \cup UserFiles /\ MadeDirs \subseteq Made
  BY DEF Objects, MadeDirs
<1> QED BY <1>1, <1>2, <1>3, <1>4, <1>5, <1>6

\* The three directories are different; a place is in one container.
LEMMA PlaceKinds ==
  /\ Target # Staging /\ Target # Trash /\ Staging # Trash
  /\ Nowhere \notin Places /\ Away \notin Places /\ Nowhere # Away
  /\ \A p \in Places : p = <<p[1], p[2]>> /\ p[1] \in Containers /\ p[2] \in UserNames \cup Made
  /\ \A c \in Containers, n \in UserNames \cup Made :
        <<c, n>> \in Places /\ <<c, n>>[1] = c /\ <<c, n>>[2] = n
  /\ UserNames \cap Made = {}
  /\ Containers = {Target, Staging, Trash} \cup MadeDirs
<1>1. Target # Staging /\ Target # Trash /\ Staging # Trash
  BY DEF Target, Staging, Trash
<1>2. Nowhere # Away
  BY DEF Nowhere, Away
<1>3. Nowhere \notin Places /\ Away \notin Places
  BY DEF Nowhere, Away, Places
<1>4. \A p \in Places : p = <<p[1], p[2]>> /\ p[1] \in Containers /\ p[2] \in UserNames \cup Made
  BY DEF Places
<1>5. \A c \in Containers, n \in UserNames \cup Made :
        <<c, n>> \in Places /\ <<c, n>>[1] = c /\ <<c, n>>[2] = n
  BY DEF Places
<1>6. UserNames \cap Made = {}
  BY DEF UserNames, Made, Backends
<1>7. Containers = {Target, Staging, Trash} \cup MadeDirs
  BY DEF Containers, Roots
<1> QED BY <1>1, <1>2, <1>3, <1>4, <1>5, <1>6, <1>7

\* Where an entry is published: a name of its own, never one in staging or trash.
LEMMA HomePlaces ==
  ASSUME NEW b \in Backends, NEW e \in Entries
  PROVE  /\ Home(b, e) \in Places /\ Home(b, e) # Nowhere
         /\ Home(b, e)[1] = Container(b, e)
         /\ Container(b, e) \in {Target} \cup MadeDirs
         /\ Container(b, e) # Trash /\ Container(b, e) # Staging
         /\ ParentOf[e] = "root" => Container(b, e) = Target
         /\ ParentOf[e] # "root" => Container(b, e) = <<b, ParentOf[e]>> /\ ParentOf[e] \in Entries
         /\ \A f \in Entries : Home(b, e) = Home(b, f) => e = f
         /\ \A c, q \in Made : Home(b, e) # <<c, q>>
         /\ \A q \in Made : Home(b, e) # <<Trash, q>> /\ Home(b, e) # <<Staging, q>>
<1>1. PICK j \in Index : e = Tree[j]
  BY TreeWalk
<1>2. ParentOf[e] # "root" => ParentOf[e] \in Entries /\ KindOf[ParentOf[e]] = "dir"
  BY <1>1, ParentsFirst, TreeWalk
<1>3. /\ ParentOf[e] = "root" => Container(b, e) = Target
      /\ ParentOf[e] # "root" => Container(b, e) = <<b, ParentOf[e]>>
  BY DEF Container
<1>4. Container(b, e) \in {Target} \cup MadeDirs
  BY <1>2, <1>3, ObjectKinds DEF MadeDirs
<1>5. Container(b, e) # Trash /\ Container(b, e) # Staging
  BY <1>4, PlaceKinds, ObjectKinds DEF Roots
<1>6. <<"name", e>> \in UserNames
  BY DEF UserNames
<1>7. Home(b, e) \in Places /\ Home(b, e)[1] = Container(b, e) /\ Home(b, e)[2] = <<"name", e>>
  BY <1>4, <1>6, PlaceKinds DEF Home
<1>8. \A f \in Entries : Home(b, e) = Home(b, f) => e = f
  BY DEF Home
<1>9. \A c, q \in Made : Home(b, e) # <<c, q>>
  BY <1>6, PlaceKinds DEF Home
<1>10. \A q \in Made : Home(b, e) # <<Trash, q>> /\ Home(b, e) # <<Staging, q>>
  BY <1>5 DEF Home
<1> QED BY <1>2, <1>3, <1>4, <1>5, <1>7, <1>8, <1>9, <1>10, PlaceKinds

\* The places of the names that the tool generates.
LEMMA ToolPlaces ==
  ASSUME NEW q \in Made
  PROVE  /\ <<Trash, q>> \in Places /\ <<Staging, q>> \in Places
         /\ <<Trash, q>> # Nowhere /\ <<Staging, q>> # Nowhere
         /\ <<Trash, q>>[1] = Trash /\ <<Staging, q>>[1] = Staging
         /\ <<Trash, q>> # <<Staging, q>>
         /\ \A p \in UserPlaces, r \in Made : p # <<Trash, r>> /\ p # <<Staging, r>>
<1>1. {Trash, Staging} \subseteq Containers
  BY PlaceKinds
<1>2. \A p \in UserPlaces, r \in Made : p # <<Trash, r>> /\ p # <<Staging, r>>
  <2> SUFFICES ASSUME NEW p \in UserPlaces, NEW r \in Made, p = <<Trash, r>> \/ p = <<Staging, r>>
               PROVE  FALSE
    OBVIOUS
  <2>1. p \in Places
    BY <1>1, PlaceKinds
  <2>2. p \in Containers \X UserNames
    BY <2>1, PlaceKinds DEF UserPlaces
  <2> QED BY <2>2, PlaceKinds
<1> QED BY <1>1, <1>2, PlaceKinds

\* What is published when one more entry is.
LEMMA PubSteps ==
  ASSUME NEW b \in Backends, NEW n \in 0..Len(Tree)
  PROVE  /\ Pub(b, n) \subseteq Made
         /\ Pub(b, 0) = {}
         /\ \A o \in Pub(b, n) : o[1] = b
         /\ \A k \in Index : <<b, Tree[k]>> \in Pub(b, n) <=> k <= n
         /\ n > 0 => /\ n \in Index /\ n - 1 \in 0..Len(Tree)
                     /\ Pub(b, n) = Pub(b, n - 1) \cup {<<b, Tree[n]>>}
                     /\ <<b, Tree[n]>> \notin Pub(b, n - 1)
         /\ n < Len(Tree) => /\ n + 1 \in Index /\ n + 1 \in 0..Len(Tree)
                             /\ Pub(b, n + 1) = Pub(b, n) \cup {<<b, Tree[n + 1]>>}
                             /\ <<b, Tree[n + 1]>> \notin Pub(b, n)
         /\ n = Len(Tree) => \A e \in Entries : <<b, e>> \in Pub(b, n)
<1>1. Len(Tree) \in Nat /\ n \in Nat /\ n <= Len(Tree)
  BY TreeWalk
<1>2. \A k \in Nat : k <= Len(Tree) => \A i \in 1..k : i \in Index
  BY <1>1 DEF Index
<1>3. \A k \in Nat : k <= Len(Tree) => Pub(b, k) \subseteq Made
  BY <1>2, TreeWalk, ObjectKinds DEF Pub
<1>4. \A k \in Index, m \in Nat : m <= Len(Tree) => (<<b, Tree[k]>> \in Pub(b, m) <=> k <= m)
  <2> SUFFICES ASSUME NEW k \in Index, NEW m \in Nat, m <= Len(Tree)
               PROVE  <<b, Tree[k]>> \in Pub(b, m) <=> k <= m
    OBVIOUS
  <2>1. k \in Nat /\ k >= 1
    BY <1>1 DEF Index
  <2>2. ASSUME k <= m PROVE <<b, Tree[k]>> \in Pub(b, m)
    BY <2>1, <2>2 DEF Pub
  <2>3. ASSUME <<b, Tree[k]>> \in Pub(b, m) PROVE k <= m
    <3>1. PICK i \in 1..m : <<b, Tree[k]>> = <<b, Tree[i]>>
      BY <2>3 DEF Pub
    <3>2. i = k
      BY <3>1, <1>2, TreeWalk
    <3> QED BY <3>2
  <2> QED BY <2>2, <2>3
<1>5. \A m \in Nat : m < Len(Tree) =>
         /\ m + 1 \in Index /\ m + 1 \in 0..Len(Tree)
         /\ Pub(b, m + 1) = Pub(b, m) \cup {<<b, Tree[m + 1]>>}
         /\ <<b, Tree[m + 1]>> \notin Pub(b, m)
  <2> SUFFICES ASSUME NEW m \in Nat, m < Len(Tree)
               PROVE  /\ m + 1 \in Index /\ m + 1 \in 0..Len(Tree)
                      /\ Pub(b, m + 1) = Pub(b, m) \cup {<<b, Tree[m + 1]>>}
                      /\ <<b, Tree[m + 1]>> \notin Pub(b, m)
    OBVIOUS
  <2>1. m + 1 \in Index /\ m + 1 \in 0..Len(Tree)
    BY <1>1 DEF Index
  <2>2. 1..(m + 1) = 1..m \cup {m + 1}
    OBVIOUS
  <2>3. Pub(b, m + 1) = Pub(b, m) \cup {<<b, Tree[m + 1]>>}
    BY <2>2 DEF Pub
  <2>4. <<b, Tree[m + 1]>> \notin Pub(b, m)
    BY <2>1, <1>1, <1>4
  <2> QED BY <2>1, <2>3, <2>4
<1>6. n > 0 => /\ n \in Index /\ n - 1 \in 0..Len(Tree)
               /\ Pub(b, n) = Pub(b, n - 1) \cup {<<b, Tree[n]>>}
               /\ <<b, Tree[n]>> \notin Pub(b, n - 1)
  <2> SUFFICES ASSUME n > 0
               PROVE  /\ n \in Index /\ n - 1 \in 0..Len(Tree)
                      /\ Pub(b, n) = Pub(b, n - 1) \cup {<<b, Tree[n]>>}
                      /\ <<b, Tree[n]>> \notin Pub(b, n - 1)
    OBVIOUS
  <2>1. n - 1 \in Nat /\ n - 1 < Len(Tree) /\ (n - 1) + 1 = n
    BY <1>1
  <2>2. /\ (n - 1) + 1 \in Index
        /\ Pub(b, (n - 1) + 1) = Pub(b, n - 1) \cup {<<b, Tree[(n - 1) + 1]>>}
        /\ <<b, Tree[(n - 1) + 1]>> \notin Pub(b, n - 1)
    BY <2>1, <1>5
  <2> QED BY <2>1, <2>2
<1>7. Pub(b, 0) = {} /\ \A o \in Pub(b, n) : o[1] = b
  BY DEF Pub
<1>8. n = Len(Tree) => \A e \in Entries : <<b, e>> \in Pub(b, n)
  BY <1>1, <1>4, TreeWalk DEF Index
<1> QED BY <1>1, <1>3, <1>4, <1>5, <1>6, <1>7, <1>8

(***************************************************************************)
(* The inductive invariant                                                 *)
(***************************************************************************)

Labels == Attempting \cup {"cleanup", "rollback", "recheck", "detach", "confirm", "put_back",
                           "restore", "report", "done"}
Rolling == {"rollback", "recheck", "detach", "confirm", "put_back", "restore"}
Tried == Attempting \cup {"cleanup"}        \* before the rollback
Staging3 == {"identify", "prepare", "publish"}

\* How many published entries are where they were published, as far as the tool knows.
Kept == IF pc \in Tried \/ Succeeds THEN created ELSE left
Standing == Pub(backend, Kept)
StagedSet == IF staged = "no" THEN {} ELSE {Object}
Handling == pc \in {"confirm", "put_back"}      \* the last entry is under its name in trash
Detached == IF receipt["cow"] = NoReceipt THEN {} ELSE receipt["cow"].removed
Ended == pc = "report" \/ (pc = "done" /\ receipt[backend].status # "succeeded")

TypeInv ==
  /\ platform \in {"linux", "macos"} /\ backend \in Backends /\ pc \in Labels
  /\ src \in [Entries -> {0, 1}] /\ snap \in [Entries -> {0, 1}]
  /\ at \in [Objects -> Places \cup {Nowhere, Away}]
  /\ data \in [Objects -> {0, 1, Edited, Blank}]
  /\ created \in 0..Len(Tree) /\ left \in 0..created
  /\ staged \in {"no", "unknown", "known"} /\ anonymous \in BOOLEAN
  /\ failure \in {"none", "changed", "cow_unavailable", "fault"}
  /\ removed \subseteq Made /\ unconfirmed \subseteq Made /\ todo \subseteq Made
  /\ receipt \in [Backends -> Receipts]
  /\ seen \in Nat /\ faults \in Nat /\ meddle \in Nat /\ seen <= meddle

\* Where the attempt is and what it has done.
Progress ==
  /\ pc = "begin" => created = 0
  /\ pc \in {"check", "create"} \cup Staging3 => created < Len(Tree)
  /\ pc \in {"register", "fill", "verify"} => created > 0
  /\ pc \in {"final_source", "final_target", "quarantine", "unlink"} => created = Len(Tree)
  /\ staged # "no" => created < Len(Tree)
  /\ pc \in Attempting => (staged # "no" <=> pc \in Staging3) /\ failure = "none"
  /\ pc \in {"register", "fill", "recheck"} => platform = "macos"
  /\ pc \in {"quarantine", "unlink"} => platform = "linux" /\ backend = "copy"
  /\ pc \in {"recheck", "detach", "confirm", "put_back"} => left > 0
  /\ anonymous => /\ platform = "macos" /\ created > 0 /\ staged = "no"
                  /\ pc \in {"register", "cleanup", "rollback", "restore", "report", "done"}
                  /\ Kept = created
  /\ pc = "register" => anonymous

\* What the rollback has done.
Undoing ==
  /\ pc \in Tried => left = 0 /\ removed = {}
  /\ pc \in Tried \cup Rolling => receipt[backend] = NoReceipt
  /\ pc \in Tried \cup (Rolling \ {"restore"}) => unconfirmed = {}
  /\ removed \cap Standing = {} 
  /\ unconfirmed # {} => left > 0 /\ unconfirmed = {Last}

\* What the receipts say.
Receipted ==
  /\ backend = "cow" => receipt["copy"] = NoReceipt
  /\ backend = "copy" => receipt["cow"] = NoReceipt \/ RestoredBaseline(receipt["cow"])
  /\ pc = "unlink" => todo \subseteq Detached
  /\ Ended => /\ receipt[backend].status \in {"not_needed", "confirmed", "incomplete"}
              /\ receipt[backend] = Failed(receipt[backend].status)
  /\ Succeeds => staged = "no" /\ created = Len(Tree) /\ removed = {} /\ unconfirmed = {} /\ left = 0

\* No name leads to two objects.
OneObjectAName == \A o, p \in Objects : at[o] \in Places /\ at[o] = at[p] => o = p

\* Staging holds the staged entry, under the name generated for it, and nothing else.
StagingIsOurs ==
  /\ \A o \in Objects : at[o] \in Places /\ at[o][1] = Staging => staged # "no" /\ o = Object
  /\ staged # "no" => at[Object] = <<Staging, Object>>

\* A generated name in trash leads to what was detached under it, unless it is
\* being confirmed or unconfirmed.
TrashNames ==
  \A o \in Objects, q \in Made : at[o] = <<Trash, q>> =>
     \/ q[1] = backend /\ Handling /\ q = Last
     \/ q[1] = backend /\ q \in unconfirmed
     \/ q[1] = backend /\ q \in removed /\ o = q
     \/ q[1] # backend /\ backend = "copy" /\ q \in Detached /\ o = q

\* Every object that exists is accounted for.
Accounted ==
  \A o \in Made : at[o] # Nowhere =>
     \/ o[1] = backend /\ o \in Standing \cup removed \cup unconfirmed \cup StagedSet
     \/ o[1] # backend /\ backend = "copy" /\ o \in Detached

PlacesInv == OneObjectAName /\ StagingIsOurs /\ TrashNames /\ Accounted

\* What the last look at the target saw is still so, if no user has acted since.
LookHolds ==
  (pc \in {"quarantine", "unlink"} \/ Succeeds) /\ seen = meddle =>
     /\ Matches(Len(Tree)) /\ SameManifest
     /\ Succeeds /\ platform = "linux" /\ backend = "copy" => In(Trash) = {}

\* Where users stay out, every object is where the tool put it.
Untouched ==
  meddle = 0 =>
     /\ \A u \in UserFiles : at[u] = Nowhere
     /\ \A o \in Standing \ unconfirmed :
           at[o] = IF Handling /\ o = Last THEN <<Trash, o>> ELSE Home(backend, o[2])
     /\ \A o \in removed \cup unconfirmed : at[o] = <<Trash, o>>
     /\ backend = "copy" => \A o \in Detached :
           \/ at[o] = <<Trash, o>> /\ (pc = "unlink" => o \in todo)
           \/ at[o] = Nowhere /\ pc \notin Attempting \ {"unlink"} /\ (pc = "unlink" => o \notin todo)

\* Nothing has happened but, at most, the failure that ended the attempt.
Calm == meddle = 0 /\ faults = (IF failure = "fault" THEN 1 ELSE 0)

\* Nothing at all has happened.
Undisturbed == meddle = 0 /\ faults = 0 /\ \A e \in Entries : src[e] = 0

Base == TypeInv /\ Progress /\ Undoing /\ Receipted

\* The steps there are, the ones that macOS takes from Linux listed once.
LEMMA Steps ==
  ASSUME [Next]_vars
  PROVE  \/ UNCHANGED vars
         \/ platform = "linux" /\
            \/ Begin \/ Create \/ Identify \/ Prepare \/ Verify \/ FinalTarget
            \/ Quarantine \/ Unlink \/ Cleanup \/ Rollback \/ CleanupFault
         \/ platform = "macos" /\
            \/ MacBegin \/ MacStage \/ MacCloneFails \/ MacIdentify \/ MacCreateInPlace
            \/ MacRegister \/ MacFill \/ MacVerify \/ MacFinalTarget
            \/ MacCleanup \/ MacRollback \/ MacRecheck \/ MacCleanupFault
         \/ Check \/ Publish \/ FinalSource
         \/ Detach \/ Confirm \/ PutBack \/ Restore \/ Fallback \/ Fault
         \/ \E e \in Entries : ChangeSource(e)
         \/ \E o \in Objects, place \in UserPlaces : UserMove(o, place)
         \/ \E o \in Made : UserDelete(o) \/ UserEdit(o)
<1>1. Done => UNCHANGED vars
  BY DEF Done
<1>2. LinuxTool => \/ platform = "linux" /\
                      \/ Begin \/ Create \/ Identify \/ Prepare \/ Verify \/ FinalTarget
                      \/ Quarantine \/ Unlink \/ Cleanup \/ Rollback \/ CleanupFault
                   \/ Check \/ Publish \/ FinalSource
                   \/ Detach \/ Confirm \/ PutBack \/ Restore \/ Fallback \/ Fault
  BY DEF LinuxTool
<1>3. MacTool => \/ platform = "macos" /\
                    \/ MacBegin \/ MacStage \/ MacCloneFails \/ MacIdentify \/ MacCreateInPlace
                    \/ MacRegister \/ MacFill \/ MacVerify \/ MacFinalTarget
                    \/ MacCleanup \/ MacRollback \/ MacRecheck \/ MacCleanupFault
                 \/ Check \/ Publish \/ FinalSource
                 \/ Detach \/ Confirm \/ PutBack \/ Restore \/ Fallback \/ Fault
  BY DEF MacTool, MacCheck, MacPublish, MacFinalSource, MacDetach, MacConfirm, MacPutBack,
         MacRestore, MacFault
<1>4. User => \/ \E e \in Entries : ChangeSource(e)
              \/ \E o \in Objects, place \in UserPlaces : UserMove(o, place)
              \/ \E o \in Made : UserDelete(o) \/ UserEdit(o)
  BY DEF User
<1> QED BY <1>1, <1>2, <1>3, <1>4 DEF Next

\* The objects that an attempt is at are objects it can make.
LEMMA CurrentObjects ==
  ASSUME TypeInv
  PROVE  /\ created < Len(Tree) => /\ Object \in Made /\ Object[1] = backend
                                   /\ Object[2] \in Entries /\ created + 1 \in Index
         /\ created > 0 => Newest \in Made /\ Newest[1] = backend /\ created \in Index
         /\ left > 0 => Last \in Made /\ Last[1] = backend /\ left \in Index
         /\ created \in Nat /\ left \in Nat /\ Len(Tree) \in Nat /\ created <= Len(Tree)
         /\ left <= created
<1>1. created \in Nat /\ left \in Nat /\ Len(Tree) \in Nat /\ created <= Len(Tree) /\ left <= created
  BY TreeWalk DEF TypeInv
<1>2. \A i \in Index : <<backend, Tree[i]>> \in Made /\ <<backend, Tree[i]>>[1] = backend
                       /\ <<backend, Tree[i]>>[2] \in Entries
  BY TreeWalk, ObjectKinds DEF TypeInv
<1>3. /\ created < Len(Tree) => created + 1 \in Index
      /\ created > 0 => created \in Index
      /\ left > 0 => left \in Index
  BY <1>1 DEF Index
<1> QED BY <1>1, <1>2, <1>3 DEF Object, Newest, Last

\* What receipts there are.
LEMMA ReceiptKinds ==
  /\ NoReceipt \in Receipts /\ NoReceipt.status = "none" /\ NoReceipt.removed = {}
  /\ Succeeded \in Receipts /\ Succeeded.status = "succeeded" /\ Succeeded.removed = {}
  /\ Succeeded # NoReceipt
BY DEF NoReceipt, Succeeded, Empty, Receipts, Statuses

\* An object moves, and nothing else does.
LEMMA MoveMoves ==
  ASSUME TypeInv, NEW o \in Objects, NEW p \in Places \cup {Nowhere, Away}, Move(o, p)
  PROVE  /\ at' \in [Objects -> Places \cup {Nowhere, Away}]
         /\ at'[o] = p /\ \A x \in Objects : x # o => at'[x] = at[x]
BY DEF TypeInv, Move

\* An object gets contents, and nothing else does.
LEMMA DataChanges ==
  ASSUME TypeInv, NEW o \in Objects, NEW v \in {0, 1, Edited, Blank},
         data' = [data EXCEPT ![o] = v]
  PROVE  /\ data' \in [Objects -> {0, 1, Edited, Blank}]
         /\ data'[o] = v /\ \A x \in Objects : x # o => data'[x] = data[x]
BY DEF TypeInv

\* The attempt that runs gets a receipt, and the one before it keeps its own.
LEMMA ReceiptGiven ==
  ASSUME TypeInv, NEW r \in Receipts, receipt' = [receipt EXCEPT ![backend] = r]
  PROVE  /\ receipt' \in [Backends -> Receipts] /\ receipt'[backend] = r
         /\ backend = "cow" => receipt'["cow"] = r /\ receipt'["copy"] = receipt["copy"]
         /\ backend = "copy" => receipt'["copy"] = r /\ receipt'["cow"] = receipt["cow"]
BY DEF TypeInv, Backends

\* The receipt of a failed attempt is what the rollback knows.
LEMMA FailedReceipt ==
  ASSUME TypeInv, Progress, NEW s \in Statuses
  PROVE  /\ Failed(s) \in Receipts
         /\ Failed(s).status = s /\ Failed(s).removed = removed
         /\ Failed(s).unconfirmed = unconfirmed /\ Failed(s).remaining = Pub(backend, left)
         /\ Failed(s).staging = StagedSet
<1>1. Published(left) = Pub(backend, left) /\ Pub(backend, left) \subseteq Made
  <2>1. left \in 0..Len(Tree) /\ backend \in Backends
    BY CurrentObjects DEF TypeInv
  <2> QED BY <2>1, PublishedIsPub, PubSteps
<1>2. StagedSet \subseteq Made
  BY CurrentObjects DEF StagedSet, Progress
<1>3. Failed(s) = [status |-> s, removed |-> removed, unconfirmed |-> unconfirmed,
                   remaining |-> Pub(backend, left), staging |-> StagedSet]
  BY <1>1 DEF Failed, StagedSet
<1> QED BY <1>1, <1>2, <1>3 DEF TypeInv, Receipts

\* The initial states have it.
LEMMA InitBase == Init => Base
<1> SUFFICES ASSUME Init PROVE Base
  OBVIOUS
<1>0. created \in 0..Len(Tree) /\ left \in 0..created /\ backend \in Backends
  BY TreeWalk DEF Init, Backends
<1>1. TypeInv
  <2>1. src = [e \in Entries |-> 0] /\ snap = src
    BY DEF Init
  <2>2. src \in [Entries -> {0, 1}] /\ snap \in [Entries -> {0, 1}]
    BY <2>1
  <2>3. at \in [Objects -> Places \cup {Nowhere, Away}] /\ data \in [Objects -> {0, 1, Edited, Blank}]
    BY DEF Init
  <2>4. receipt \in [Backends -> Receipts]
    BY ReceiptKinds DEF Init
  <2>5. pc = "begin" /\ pc \in Labels
    BY DEF Init, Labels, Attempting
  <2>6. /\ platform \in {"linux", "macos"}
        /\ staged \in {"no", "unknown", "known"} /\ anonymous \in BOOLEAN
        /\ failure \in {"none", "changed", "cow_unavailable", "fault"}
    BY DEF Init
  <2>7. /\ removed \subseteq Made /\ unconfirmed \subseteq Made /\ todo \subseteq Made
        /\ seen \in Nat /\ faults \in Nat /\ meddle \in Nat /\ seen <= meddle
    BY DEF Init
  <2> QED BY <1>0, <2>2, <2>3, <2>4, <2>5, <2>6, <2>7 DEF TypeInv
<1>2. receipt = [b \in Backends |-> NoReceipt] /\ receipt["cow"] = NoReceipt
      /\ receipt["copy"] = NoReceipt /\ backend \in Backends
  BY <1>1 DEF Init, Backends, TypeInv
<1>3. Progress /\ Undoing /\ Receipted
  BY <1>1, <1>2 DEF Init, Progress, Undoing, Receipted, Tried, Rolling, Attempting, Staging3, Ended,
         Succeeds
<1> QED BY <1>1, <1>3 DEF Base

\* A failed attempt gets the receipt of what its rollback knows.
LEMMA RecordedFailure ==
  ASSUME Base, NEW s \in {"not_needed", "confirmed", "incomplete"},
         receipt' = [receipt EXCEPT ![backend] = Failed(s)], pc' = "report",
         UNCHANGED <<backend, created, left, removed, unconfirmed, staged>>
  PROVE  Receipted'
<1>1. s \in Statuses
  BY DEF Statuses
<1>2. /\ receipt'[backend] = Failed(s) /\ Failed(s).status = s
      /\ backend = "cow" => receipt'["copy"] = receipt["copy"]
      /\ backend = "copy" => receipt'["cow"] = receipt["cow"]
  BY <1>1, FailedReceipt, ReceiptGiven DEF Base
<1>3. Failed(s)' = Failed(s)
  BY DEF Failed, Published, Object
<1> QED BY <1>2, <1>3 DEF Base, Receipted, Ended, Succeeds, RestoredBaseline

\* Each step keeps Base.  An attempt begins with nothing created,
LEMMA BeginBase == ASSUME Base, platform = "linux", Begin PROVE Base'
<1> USE DEF Base, Go, Fail, context
<1>1. TypeInv'
  BY CurrentObjects, ReceiptKinds DEF TypeInv, Progress, Labels, Attempting, Begin, Snapshot
<1>2. Progress'
  BY TreeWalk, CurrentObjects DEF TypeInv, Progress, Kept, Tried, Attempting, Staging3, Succeeds, Begin, Snapshot
<1>3. Undoing'
  BY CurrentObjects DEF TypeInv, Progress, Undoing, Kept, Standing, Tried, Rolling, Attempting, Succeeds, Begin, Snapshot
<1>4. Receipted'
  BY CurrentObjects DEF TypeInv, Progress, Undoing, Receipted, Ended, Succeeds, Detached, Tried, Rolling, Attempting, Begin, Snapshot
<1> QED BY <1>1, <1>2, <1>3, <1>4

\* a check goes on or gives up,
LEMMA CheckBase == ASSUME Base, Check PROVE Base'
<1> USE DEF Base, Go, Fail, context
<1>1. TypeInv'
  BY CurrentObjects, ReceiptKinds DEF TypeInv, Progress, Labels, Attempting, Check
<1>2. Progress'
  BY CurrentObjects DEF TypeInv, Progress, Kept, Tried, Attempting, Staging3, Succeeds, Check
<1>3. Undoing'
  BY CurrentObjects DEF TypeInv, Progress, Undoing, Kept, Standing, Tried, Rolling, Attempting, Succeeds, Check
<1>4. Receipted'
  BY CurrentObjects DEF TypeInv, Progress, Undoing, Receipted, Ended, Succeeds, Detached, Tried, Rolling, Attempting, Check
<1> QED BY <1>1, <1>2, <1>3, <1>4

\* the next entry is staged,
LEMMA CreateBase == ASSUME Base, platform = "linux", Create PROVE Base'
<1> USE DEF Base, Go, Fail, context
<1>1. TypeInv'
  <2> USE DEF TypeInv
  <2>1. Object \in Objects /\ <<Staging, Object>> \in Places /\ snap[Object[2]] \in {0, 1}
    BY CurrentObjects, ObjectKinds, ToolPlaces DEF Progress, Create
  <2>2. at' \in [Objects -> Places \cup {Nowhere, Away}]
    BY <2>1, MoveMoves DEF Create
  <2>3. data' \in [Objects -> {0, 1, Edited, Blank}]
    BY <2>1, DataChanges DEF Create
  <2> QED BY <2>1, <2>2, <2>3, CurrentObjects DEF Labels, Attempting, Progress, Create
<1>2. Progress'
  BY CurrentObjects DEF TypeInv, Progress, Kept, Tried, Attempting, Staging3, Succeeds, Create, Move
<1>3. Undoing'
  BY CurrentObjects DEF TypeInv, Progress, Undoing, Kept, Standing, Tried, Rolling, Attempting, Succeeds, Create, Move
<1>4. Receipted'
  BY CurrentObjects DEF TypeInv, Progress, Undoing, Receipted, Ended, Succeeds, Detached, Tried, Rolling, Attempting, Create, Move
<1> QED BY <1>1, <1>2, <1>3, <1>4

\* it is identified,
LEMMA IdentifyBase == ASSUME Base, platform = "linux", Identify PROVE Base'
<1> USE DEF Base, Go, Fail, context
<1>1. TypeInv'
  BY CurrentObjects, ReceiptKinds DEF TypeInv, Progress, Labels, Attempting, Identify
<1>2. Progress'
  BY CurrentObjects DEF TypeInv, Progress, Kept, Tried, Attempting, Staging3, Succeeds, Identify
<1>3. Undoing'
  BY CurrentObjects DEF TypeInv, Progress, Undoing, Kept, Standing, Tried, Rolling, Attempting, Succeeds, Identify
<1>4. Receipted'
  BY CurrentObjects DEF TypeInv, Progress, Undoing, Receipted, Ended, Succeeds, Detached, Tried, Rolling, Attempting, Identify
<1> QED BY <1>1, <1>2, <1>3, <1>4

\* it is filled, or cannot be cloned,
LEMMA PrepareBase == ASSUME Base, platform = "linux", Prepare PROVE Base'
<1> USE DEF Base, Go, Fail, context
<1>1. TypeInv'
  <2> USE DEF TypeInv
  <2>1. Object \in Objects /\ src[Object[2]] \in {0, 1}
    BY CurrentObjects, ObjectKinds DEF Progress, Staging3, Prepare
  <2>2. data' \in [Objects -> {0, 1, Edited, Blank}]
    BY <2>1, DataChanges DEF Prepare
  <2> QED BY <2>1, <2>2, CurrentObjects DEF Labels, Attempting, Progress, Prepare
<1>2. Progress'
  BY CurrentObjects DEF TypeInv, Progress, Kept, Tried, Attempting, Staging3, Succeeds, Prepare
<1>3. Undoing'
  BY CurrentObjects DEF TypeInv, Progress, Undoing, Kept, Standing, Tried, Rolling, Attempting, Succeeds, Prepare
<1>4. Receipted'
  BY CurrentObjects DEF TypeInv, Progress, Undoing, Receipted, Ended, Succeeds, Detached, Tried, Rolling, Attempting, Prepare
<1> QED BY <1>1, <1>2, <1>3, <1>4

\* it is published, on either platform, and counts as created,
LEMMA PublishBase == ASSUME Base, Publish PROVE Base'
<1> USE DEF Base, Go, Fail, context
<1>1. TypeInv'
  <2> USE DEF TypeInv
  <2>1. Object \in Objects /\ Home(backend, Object[2]) \in Places /\ created + 1 \in 0..Len(Tree)
    BY CurrentObjects, ObjectKinds, HomePlaces, PubSteps, TreeWalk DEF Progress, Staging3, Publish
  <2>2. at' \in [Objects -> Places \cup {Nowhere, Away}]
    BY <2>1, MoveMoves DEF Publish
  <2>3. created' \in 0..Len(Tree) /\ left' \in 0..created'
    BY <2>1, CurrentObjects DEF Publish
  <2> QED BY <2>1, <2>2, <2>3, CurrentObjects DEF Labels, Attempting, Progress, Publish
<1>2. Progress'
  BY CurrentObjects DEF TypeInv, Progress, Kept, Tried, Attempting, Staging3, Succeeds, Publish, Move
<1>3. Undoing'
  BY CurrentObjects DEF TypeInv, Progress, Undoing, Kept, Standing, Tried, Rolling, Attempting, Succeeds, Publish, Move
<1>4. Receipted'
  BY CurrentObjects DEF TypeInv, Progress, Undoing, Receipted, Ended, Succeeds, Detached, Tried, Rolling, Attempting, Publish, Move
<1> QED BY <1>1, <1>2, <1>3, <1>4

\* a verified entry is followed by the next or by the last looks,
LEMMA VerifyBase == ASSUME Base, platform = "linux", Verify PROVE Base'
<1> USE DEF Base, Go, Fail, context
<1>1. TypeInv'
  BY CurrentObjects, ReceiptKinds DEF TypeInv, Progress, Labels, Attempting, Verify
<1>2. Progress'
  BY CurrentObjects DEF TypeInv, Progress, Kept, Tried, Attempting, Staging3, Succeeds, Verify
<1>3. Undoing'
  BY CurrentObjects DEF TypeInv, Progress, Undoing, Kept, Standing, Tried, Rolling, Attempting, Succeeds, Verify
<1>4. Receipted'
  BY CurrentObjects DEF TypeInv, Progress, Undoing, Receipted, Ended, Succeeds, Detached, Tried, Rolling, Attempting, Verify
<1> QED BY <1>1, <1>2, <1>3, <1>4

\* the source is looked at,
LEMMA FinalSourceBase == ASSUME Base, FinalSource PROVE Base'
<1> USE DEF Base, Go, Fail, context
<1>1. TypeInv'
  BY CurrentObjects, ReceiptKinds DEF TypeInv, Progress, Labels, Attempting, FinalSource
<1>2. Progress'
  BY CurrentObjects DEF TypeInv, Progress, Kept, Tried, Attempting, Staging3, Succeeds, FinalSource
<1>3. Undoing'
  BY CurrentObjects DEF TypeInv, Progress, Undoing, Kept, Standing, Tried, Rolling, Attempting, Succeeds, FinalSource
<1>4. Receipted'
  BY CurrentObjects DEF TypeInv, Progress, Undoing, Receipted, Ended, Succeeds, Detached, Tried, Rolling, Attempting, FinalSource
<1> QED BY <1>1, <1>2, <1>3, <1>4

\* the target is looked at, which ends a clone with a receipt,
LEMMA FinalTargetBase == ASSUME Base, platform = "linux", FinalTarget PROVE Base'
<1> USE DEF Base, Go, Fail, context
<1>1. TypeInv'
  BY CurrentObjects, ReceiptKinds DEF TypeInv, Progress, Labels, Attempting, FinalTarget
<1>2. Progress'
  <2>1. Progress /\ pc = "final_target" /\ UNCHANGED <<created, staged, anonymous, platform, backend>>
    BY DEF FinalTarget
  <2>2. pc' \in {"done", "quarantine", "cleanup"} /\ (pc' = "quarantine" => backend = "copy" /\ UNCHANGED failure)
    BY DEF FinalTarget, TypeInv, Backends
  <2> QED BY <2>1, <2>2, CurrentObjects DEF Progress, Kept, Tried, Attempting, Staging3
<1>3. Undoing'
  BY CurrentObjects DEF TypeInv, Progress, Undoing, Kept, Standing, Tried, Rolling, Attempting, Succeeds, FinalTarget
<1>4. Receipted'
  <2>1. CASE UNCHANGED receipt /\ pc' # "done"
    BY <2>1, CurrentObjects DEF TypeInv, Receipted, Ended, Succeeds, Detached, FinalTarget
  <2>2. CASE receipt' = [receipt EXCEPT ![backend] = Succeeded] /\ pc' = "done"
    <3>1. receipt'[backend] = Succeeded /\ (backend = "copy" => receipt'["cow"] = receipt["cow"])
          /\ (backend = "cow" => receipt'["copy"] = receipt["copy"])
      BY <2>2, ReceiptKinds, ReceiptGiven
    <3>2. UNCHANGED <<staged, created, removed, unconfirmed, left, backend>> /\ staged = "no"
          /\ created = Len(Tree) /\ removed = {} /\ unconfirmed = {} /\ left = 0
      BY DEF FinalTarget, Progress, Undoing, Tried, Attempting, Staging3
    <3> QED BY <2>2, <3>1, <3>2, ReceiptKinds DEF Receipted, Ended, RestoredBaseline
  <2> QED BY <2>1, <2>2 DEF FinalTarget
<1> QED BY <1>1, <1>2, <1>3, <1>4

\* a copy finds what the clone detached,
LEMMA QuarantineBase == ASSUME Base, platform = "linux", Quarantine PROVE Base'
<1> USE DEF Base, Go, Fail, context
<1>1. TypeInv'
  <2> USE DEF TypeInv
  <2>1. todo' \subseteq Made
    <3>1. receipt["cow"].removed \subseteq Made
      BY DEF Backends, Receipts
    <3> QED BY <3>1 DEF Quarantine
  <2> QED BY <2>1, CurrentObjects DEF Labels, Attempting, Progress, Quarantine
<1>2. Progress'
  BY CurrentObjects DEF TypeInv, Progress, Kept, Tried, Attempting, Staging3, Succeeds, Quarantine
<1>3. Undoing'
  BY CurrentObjects DEF TypeInv, Progress, Undoing, Kept, Standing, Tried, Rolling, Attempting, Succeeds, Quarantine
<1>4. Receipted'
  BY CurrentObjects DEF TypeInv, Progress, Undoing, Receipted, Ended, Succeeds, Detached, Tried, Rolling, Attempting, Quarantine
<1> QED BY <1>1, <1>2, <1>3, <1>4

\* it unlinks that and ends with a receipt,
LEMMA UnlinkBase == ASSUME Base, platform = "linux", Unlink PROVE Base'
<1> USE DEF Base, Go, Fail, context
<1>1. TypeInv'
  BY CurrentObjects, ReceiptKinds DEF TypeInv, Progress, Labels, Attempting, Unlink, Move
<1>2. Progress'
  BY CurrentObjects DEF TypeInv, Progress, Kept, Tried, Attempting, Staging3, Succeeds, Unlink, Move
<1>3. Undoing'
  BY CurrentObjects DEF TypeInv, Progress, Undoing, Kept, Standing, Tried, Rolling, Attempting, Succeeds, Unlink, Move
<1>4. Receipted'
  <2>1. CASE UNCHANGED receipt /\ pc' # "done"
    BY <2>1, CurrentObjects DEF TypeInv, Receipted, Ended, Succeeds, Detached, Unlink
  <2>2. CASE receipt' = [receipt EXCEPT ![backend] = Succeeded] /\ pc' = "done"
    <3>1. receipt'[backend] = Succeeded /\ (backend = "copy" => receipt'["cow"] = receipt["cow"])
          /\ (backend = "cow" => receipt'["copy"] = receipt["copy"])
      BY <2>2, ReceiptKinds, ReceiptGiven
    <3>2. UNCHANGED <<staged, created, removed, unconfirmed, left, backend>> /\ staged = "no"
          /\ created = Len(Tree) /\ removed = {} /\ unconfirmed = {} /\ left = 0
      BY DEF Unlink, Progress, Undoing, Tried, Attempting, Staging3
    <3> QED BY <2>2, <3>1, <3>2, ReceiptKinds DEF Receipted, Ended, RestoredBaseline
  <2> QED BY <2>1, <2>2 DEF Unlink
<1> QED BY <1>1, <1>2, <1>3, <1>4

\* a failed attempt unlinks what it staged,
LEMMA CleanupBase == ASSUME Base, platform = "linux", Cleanup PROVE Base'
<1> USE DEF Base, Go, Fail, context
<1>1. TypeInv'
  BY CurrentObjects, ReceiptKinds DEF TypeInv, Progress, Labels, Attempting, Cleanup, Move
<1>2. Progress'
  BY CurrentObjects DEF TypeInv, Progress, Kept, Tried, Attempting, Staging3, Succeeds, Cleanup, Move
<1>3. Undoing'
  BY CurrentObjects DEF TypeInv, Progress, Undoing, Kept, Standing, Tried, Rolling, Attempting, Succeeds, Cleanup, Move
<1>4. Receipted'
  BY CurrentObjects DEF TypeInv, Progress, Undoing, Receipted, Ended, Succeeds, Detached, Tried, Rolling, Attempting, Cleanup, Move
<1> QED BY <1>1, <1>2, <1>3, <1>4

\* the rollback goes on or stops,
LEMMA RollbackBase == ASSUME Base, platform = "linux", Rollback PROVE Base'
<1> USE DEF Base, Go, Fail, context
<1>1. TypeInv'
  BY CurrentObjects, ReceiptKinds DEF TypeInv, Progress, Labels, Attempting, Rollback
<1>2. Progress'
  BY CurrentObjects DEF TypeInv, Progress, Kept, Tried, Attempting, Staging3, Succeeds, Rollback
<1>3. Undoing'
  BY CurrentObjects DEF TypeInv, Progress, Undoing, Kept, Standing, Tried, Rolling, Attempting, Succeeds, Rollback
<1>4. Receipted'
  BY CurrentObjects DEF TypeInv, Progress, Undoing, Receipted, Ended, Succeeds, Detached, Tried, Rolling, Attempting, Rollback
<1> QED BY <1>1, <1>2, <1>3, <1>4

\* the clean-up may fail,
LEMMA CleanupFaultBase == ASSUME Base, platform = "linux", CleanupFault PROVE Base'
<1> USE DEF Base, Go, Fail, context
<1>1. TypeInv'
  BY CurrentObjects, ReceiptKinds DEF TypeInv, Progress, Labels, Attempting, CleanupFault
<1>2. Progress'
  BY CurrentObjects DEF TypeInv, Progress, Kept, Tried, Attempting, Staging3, Succeeds, CleanupFault
<1>3. Undoing'
  BY CurrentObjects DEF TypeInv, Progress, Undoing, Kept, Standing, Tried, Rolling, Attempting, Succeeds, CleanupFault
<1>4. Receipted'
  BY CurrentObjects DEF TypeInv, Progress, Undoing, Receipted, Ended, Succeeds, Detached, Tried, Rolling, Attempting, CleanupFault
<1> QED BY <1>1, <1>2, <1>3, <1>4

\* The steps of macOS: an attempt begins,
LEMMA MacBeginBase == ASSUME Base, platform = "macos", MacBegin PROVE Base'
<1> USE DEF Base, Go, Fail, context
<1>1. TypeInv'
  BY CurrentObjects, ReceiptKinds DEF TypeInv, Progress, Labels, Attempting, MacBegin, MacSnapshot
<1>2. Progress'
  BY TreeWalk, CurrentObjects DEF TypeInv, Progress, Kept, Tried, Attempting, Staging3, Succeeds, MacBegin, MacSnapshot
<1>3. Undoing'
  BY CurrentObjects DEF TypeInv, Progress, Undoing, Kept, Standing, Tried, Rolling, Attempting, Succeeds, MacBegin, MacSnapshot
<1>4. Receipted'
  BY CurrentObjects DEF TypeInv, Progress, Undoing, Receipted, Ended, Succeeds, Detached, Tried, Rolling, Attempting, MacBegin, MacSnapshot
<1> QED BY <1>1, <1>2, <1>3, <1>4

\* an entry is staged,
LEMMA MacStageBase == ASSUME Base, platform = "macos", MacStage PROVE Base'
<1> USE DEF Base, Go, Fail, context
<1>1. TypeInv'
  <2> USE DEF TypeInv
  <2>1. Object \in Objects /\ <<Staging, Object>> \in Places /\ Object[2] \in Entries
    BY CurrentObjects, ObjectKinds, ToolPlaces DEF Progress, MacStage
  <2>2. at' \in [Objects -> Places \cup {Nowhere, Away}]
    BY <2>1, MoveMoves DEF MacStage
  <2>3. (IF KindOf[Object[2]] = "file" THEN src[Object[2]] ELSE snap[Object[2]]) \in {0, 1, Edited, Blank}
    BY <2>1
  <2>4. data' \in [Objects -> {0, 1, Edited, Blank}]
    BY <2>1, <2>3, DataChanges DEF MacStage
  <2> QED BY <2>1, <2>2, <2>3, <2>4, CurrentObjects DEF Labels, Attempting, Progress, MacStage
<1>2. Progress'
  BY CurrentObjects DEF TypeInv, Progress, Kept, Tried, Attempting, Staging3, Succeeds, MacStage, Move
<1>3. Undoing'
  BY CurrentObjects DEF TypeInv, Progress, Undoing, Kept, Standing, Tried, Rolling, Attempting, Succeeds, MacStage, Move
<1>4. Receipted'
  BY CurrentObjects DEF TypeInv, Progress, Undoing, Receipted, Ended, Succeeds, Detached, Tried, Rolling, Attempting, MacStage, Move
<1> QED BY <1>1, <1>2, <1>3, <1>4

\* it cannot be cloned,
LEMMA MacCloneFailsBase == ASSUME Base, platform = "macos", MacCloneFails PROVE Base'
<1> USE DEF Base, Go, Fail, context
<1>1. TypeInv'
  BY CurrentObjects, ReceiptKinds DEF TypeInv, Progress, Labels, Attempting, MacCloneFails
<1>2. Progress'
  BY CurrentObjects DEF TypeInv, Progress, Kept, Tried, Attempting, Staging3, Succeeds, MacCloneFails
<1>3. Undoing'
  BY CurrentObjects DEF TypeInv, Progress, Undoing, Kept, Standing, Tried, Rolling, Attempting, Succeeds, MacCloneFails
<1>4. Receipted'
  BY CurrentObjects DEF TypeInv, Progress, Undoing, Receipted, Ended, Succeeds, Detached, Tried, Rolling, Attempting, MacCloneFails
<1> QED BY <1>1, <1>2, <1>3, <1>4

\* it is identified,
LEMMA MacIdentifyBase == ASSUME Base, platform = "macos", MacIdentify PROVE Base'
<1> USE DEF Base, Go, Fail, context
<1>1. TypeInv'
  BY CurrentObjects, ReceiptKinds DEF TypeInv, Progress, Labels, Attempting, MacIdentify
<1>2. Progress'
  BY CurrentObjects DEF TypeInv, Progress, Kept, Tried, Attempting, Staging3, Succeeds, MacIdentify
<1>3. Undoing'
  BY CurrentObjects DEF TypeInv, Progress, Undoing, Kept, Standing, Tried, Rolling, Attempting, Succeeds, MacIdentify
<1>4. Receipted'
  BY CurrentObjects DEF TypeInv, Progress, Undoing, Receipted, Ended, Succeeds, Detached, Tried, Rolling, Attempting, MacIdentify
<1> QED BY <1>1, <1>2, <1>3, <1>4

\* a file is made in place, created but anonymous,
LEMMA MacCreateInPlaceBase == ASSUME Base, platform = "macos", MacCreateInPlace PROVE Base'
<1> USE DEF Base, Go, Fail, context
<1>1. TypeInv'
  <2> USE DEF TypeInv
  <2>1. created < Len(Tree) /\ Object \in Objects /\ Home(backend, Object[2]) \in Places
    BY CurrentObjects, ObjectKinds, HomePlaces DEF Progress, MacCreateInPlace
  <2>2. at' \in [Objects -> Places \cup {Nowhere, Away}]
    BY <2>1, MoveMoves DEF MacCreateInPlace
  <2>3. data' \in [Objects -> {0, 1, Edited, Blank}]
    BY <2>1, DataChanges DEF MacCreateInPlace
  <2>4. created' \in 0..Len(Tree) /\ left' \in 0..created'
    BY <2>1, CurrentObjects DEF MacCreateInPlace
  <2> QED BY <2>1, <2>2, <2>3, <2>4, CurrentObjects DEF Labels, Attempting, Progress, MacCreateInPlace
<1>2. Progress'
  BY CurrentObjects DEF TypeInv, Progress, Kept, Tried, Attempting, Staging3, Succeeds, MacCreateInPlace, Move
<1>3. Undoing'
  BY CurrentObjects DEF TypeInv, Progress, Undoing, Kept, Standing, Tried, Rolling, Attempting, Succeeds, MacCreateInPlace, Move
<1>4. Receipted'
  BY CurrentObjects DEF TypeInv, Progress, Undoing, Receipted, Ended, Succeeds, Detached, Tried, Rolling, Attempting, MacCreateInPlace, Move
<1> QED BY <1>1, <1>2, <1>3, <1>4

\* its identity is recorded, or not if its name leads elsewhere,
LEMMA MacRegisterBase == ASSUME Base, platform = "macos", MacRegister PROVE Base'
<1> USE DEF Base, Go, Fail, context
<1>1. TypeInv'
  BY CurrentObjects, ReceiptKinds DEF TypeInv, Progress, Labels, Attempting, MacRegister
<1>2. Progress'
  BY CurrentObjects DEF TypeInv, Progress, Kept, Tried, Attempting, Staging3, Succeeds, MacRegister
<1>3. Undoing'
  BY CurrentObjects DEF TypeInv, Progress, Undoing, Kept, Standing, Tried, Rolling, Attempting, Succeeds, MacRegister
<1>4. Receipted'
  BY CurrentObjects DEF TypeInv, Progress, Undoing, Receipted, Ended, Succeeds, Detached, Tried, Rolling, Attempting, MacRegister
<1> QED BY <1>1, <1>2, <1>3, <1>4

\* it is filled,
LEMMA MacFillBase == ASSUME Base, platform = "macos", MacFill PROVE Base'
<1> USE DEF Base, Go, Fail, context
<1>1. TypeInv'
  <2> USE DEF TypeInv
  <2>1. Newest \in Objects /\ src[Newest[2]] \in {0, 1}
    BY CurrentObjects, ObjectKinds DEF Progress, MacFill
  <2>2. data' \in [Objects -> {0, 1, Edited, Blank}]
    BY <2>1, DataChanges DEF MacFill
  <2> QED BY <2>1, <2>2, CurrentObjects DEF Labels, Attempting, Progress, MacFill
<1>2. Progress'
  BY CurrentObjects DEF TypeInv, Progress, Kept, Tried, Attempting, Staging3, Succeeds, MacFill
<1>3. Undoing'
  BY CurrentObjects DEF TypeInv, Progress, Undoing, Kept, Standing, Tried, Rolling, Attempting, Succeeds, MacFill
<1>4. Receipted'
  BY CurrentObjects DEF TypeInv, Progress, Undoing, Receipted, Ended, Succeeds, Detached, Tried, Rolling, Attempting, MacFill
<1> QED BY <1>1, <1>2, <1>3, <1>4

\* an entry is verified,
LEMMA MacVerifyBase == ASSUME Base, platform = "macos", MacVerify PROVE Base'
<1> USE DEF Base, Go, Fail, context
<1>1. TypeInv'
  BY CurrentObjects, ReceiptKinds DEF TypeInv, Progress, Labels, Attempting, MacVerify
<1>2. Progress'
  BY CurrentObjects DEF TypeInv, Progress, Kept, Tried, Attempting, Staging3, Succeeds, MacVerify
<1>3. Undoing'
  BY CurrentObjects DEF TypeInv, Progress, Undoing, Kept, Standing, Tried, Rolling, Attempting, Succeeds, MacVerify
<1>4. Receipted'
  BY CurrentObjects DEF TypeInv, Progress, Undoing, Receipted, Ended, Succeeds, Detached, Tried, Rolling, Attempting, MacVerify
<1> QED BY <1>1, <1>2, <1>3, <1>4

\* the target is looked at, which ends the attempt with a receipt,
LEMMA MacFinalTargetBase == ASSUME Base, platform = "macos", MacFinalTarget PROVE Base'
<1> USE DEF Base, Go, Fail, context
<1>1. TypeInv'
  BY CurrentObjects, ReceiptKinds DEF TypeInv, Progress, Labels, Attempting, MacFinalTarget
<1>2. Progress'
  BY CurrentObjects DEF TypeInv, Progress, Kept, Tried, Attempting, Staging3, Succeeds, MacFinalTarget
<1>3. Undoing'
  BY CurrentObjects DEF TypeInv, Progress, Undoing, Kept, Standing, Tried, Rolling, Attempting, Succeeds, MacFinalTarget
<1>4. Receipted'
  <2>1. CASE UNCHANGED receipt /\ pc' # "done"
    BY <2>1, CurrentObjects DEF TypeInv, Receipted, Ended, Succeeds, Detached, MacFinalTarget
  <2>2. CASE receipt' = [receipt EXCEPT ![backend] = Succeeded] /\ pc' = "done"
    <3>1. receipt'[backend] = Succeeded /\ (backend = "copy" => receipt'["cow"] = receipt["cow"])
          /\ (backend = "cow" => receipt'["copy"] = receipt["copy"])
      BY <2>2, ReceiptKinds, ReceiptGiven
    <3>2. UNCHANGED <<staged, created, removed, unconfirmed, left, backend>> /\ staged = "no"
          /\ created = Len(Tree) /\ removed = {} /\ unconfirmed = {} /\ left = 0
      BY DEF MacFinalTarget, Progress, Undoing, Tried, Attempting, Staging3
    <3> QED BY <2>2, <3>1, <3>2, ReceiptKinds DEF Receipted, Ended, RestoredBaseline
  <2> QED BY <2>1, <2>2 DEF MacFinalTarget
<1> QED BY <1>1, <1>2, <1>3, <1>4

\* what is staged is unlinked, and the failure may be another one,
LEMMA MacCleanupBase == ASSUME Base, platform = "macos", MacCleanup PROVE Base'
<1> USE DEF Base, Go, Fail, context
<1>1. TypeInv'
  <2> USE DEF TypeInv
  <2>1. at' \in [Objects -> Places \cup {Nowhere, Away}]
    <3>1. CASE staged = "no"
      BY <3>1 DEF MacCleanup
    <3>2. CASE staged # "no"
      BY <3>2, CurrentObjects, ObjectKinds, MoveMoves DEF MacCleanup, Move, Progress
    <3> QED BY <3>1, <3>2
  <2>2. failure' \in {"none", "changed", "cow_unavailable", "fault"}
    BY DEF MacCleanup, Reason
  <2> QED BY <2>1, <2>2, CurrentObjects DEF Labels, Attempting, Progress, MacCleanup
<1>2. Progress'
  BY CurrentObjects DEF TypeInv, Progress, Kept, Tried, Attempting, Staging3, Succeeds, MacCleanup, Reason
<1>3. Undoing'
  BY CurrentObjects DEF TypeInv, Progress, Undoing, Kept, Standing, Tried, Rolling, Attempting, Succeeds, MacCleanup, Reason
<1>4. Receipted'
  BY CurrentObjects DEF TypeInv, Progress, Undoing, Receipted, Ended, Succeeds, Detached, Tried, Rolling, Attempting, MacCleanup, Reason
<1> QED BY <1>1, <1>2, <1>3, <1>4

\* the rollback goes on or stops,
LEMMA MacRollbackBase == ASSUME Base, platform = "macos", MacRollback PROVE Base'
<1> USE DEF Base, Go, Fail, context
<1>1. TypeInv'
  BY CurrentObjects, ReceiptKinds DEF TypeInv, Progress, Labels, Attempting, MacRollback
<1>2. Progress'
  BY CurrentObjects DEF TypeInv, Progress, Kept, Tried, Attempting, Staging3, Succeeds, MacRollback, MacMatches
<1>3. Undoing'
  BY CurrentObjects DEF TypeInv, Progress, Undoing, Kept, Standing, Tried, Rolling, Attempting, Succeeds, MacRollback
<1>4. Receipted'
  BY CurrentObjects DEF TypeInv, Progress, Undoing, Receipted, Ended, Succeeds, Detached, Tried, Rolling, Attempting, MacRollback
<1> QED BY <1>1, <1>2, <1>3, <1>4

\* it looks at the last entry once more,
LEMMA MacRecheckBase == ASSUME Base, platform = "macos", MacRecheck PROVE Base'
<1> USE DEF Base, Go, Fail, context
<1>1. TypeInv'
  BY CurrentObjects, ReceiptKinds DEF TypeInv, Progress, Labels, Attempting, MacRecheck
<1>2. Progress'
  BY CurrentObjects DEF TypeInv, Progress, Kept, Tried, Attempting, Staging3, Succeeds, MacRecheck
<1>3. Undoing'
  BY CurrentObjects DEF TypeInv, Progress, Undoing, Kept, Standing, Tried, Rolling, Attempting, Succeeds, MacRecheck
<1>4. Receipted'
  BY CurrentObjects DEF TypeInv, Progress, Undoing, Receipted, Ended, Succeeds, Detached, Tried, Rolling, Attempting, MacRecheck
<1> QED BY <1>1, <1>2, <1>3, <1>4

\* the clean-up may fail.
LEMMA MacCleanupFaultBase == ASSUME Base, platform = "macos", MacCleanupFault PROVE Base'
<1> USE DEF Base, Go, Fail, context
<1>1. TypeInv'
  BY CurrentObjects, ReceiptKinds DEF TypeInv, Progress, Labels, Attempting, MacCleanupFault
<1>2. Progress'
  BY CurrentObjects DEF TypeInv, Progress, Kept, Tried, Attempting, Staging3, Succeeds, MacCleanupFault
<1>3. Undoing'
  BY CurrentObjects DEF TypeInv, Progress, Undoing, Kept, Standing, Tried, Rolling, Attempting, Succeeds, MacCleanupFault
<1>4. Receipted'
  BY CurrentObjects DEF TypeInv, Progress, Undoing, Receipted, Ended, Succeeds, Detached, Tried, Rolling, Attempting, MacCleanupFault
<1> QED BY <1>1, <1>2, <1>3, <1>4

\* The rollback of either platform: the last entry is renamed,
LEMMA DetachBase == ASSUME Base, Detach PROVE Base'
<1> USE DEF Base, Go, Fail, context
<1>1. TypeInv'
  <2> USE DEF TypeInv
  <2>1. left > 0 /\ Quarantined \in Places
    BY CurrentObjects, ToolPlaces DEF Progress, Detach, Quarantined
  <2>2. at' \in [Objects -> Places \cup {Nowhere, Away}]
    BY <2>1, MoveMoves DEF Detach
  <2> QED BY <2>1, <2>2, CurrentObjects DEF Labels, Attempting, Progress, Detach
<1>2. Progress'
  BY CurrentObjects DEF TypeInv, Progress, Kept, Tried, Attempting, Staging3, Succeeds, Detach, Move, Quarantined
<1>3. Undoing'
  BY CurrentObjects DEF TypeInv, Progress, Undoing, Kept, Standing, Tried, Rolling, Attempting, Succeeds, Detach, Move, Quarantined
<1>4. Receipted'
  BY CurrentObjects DEF TypeInv, Progress, Undoing, Receipted, Ended, Succeeds, Detached, Tried, Rolling, Attempting, Detach, Move, Quarantined
<1> QED BY <1>1, <1>2, <1>3, <1>4

\* confirmed, and no longer standing,
LEMMA ConfirmBase == ASSUME Base, Confirm PROVE Base'
<1> USE DEF Base, Go, Fail, context
<1>1. TypeInv'
  BY CurrentObjects, ReceiptKinds DEF TypeInv, Progress, Labels, Attempting, Confirm
<1>2. Progress'
  BY CurrentObjects DEF TypeInv, Progress, Kept, Tried, Attempting, Staging3, Succeeds, Confirm
<1>3. Undoing'
  <2>1. /\ Progress /\ Undoing /\ pc = "confirm" /\ left > 0
        /\ UNCHANGED <<backend, receipt, unconfirmed, created>> /\ pc' \in {"rollback", "put_back"}
    BY DEF Confirm, Progress
  <2>2. /\ left' \in 0..Len(Tree) /\ left' <= left /\ Kept = left /\ Kept' = left'
        /\ backend \in Backends /\ left \in 0..Len(Tree)
    BY <2>1, CurrentObjects DEF Confirm, Kept, Tried, Attempting, Succeeds, TypeInv
  <2>3. removed \cap Pub(backend, left) = {}
    BY <2>1, <2>2 DEF Undoing, Standing
  <2>4. removed' \cap Pub(backend, left') = {}
    <3>1. CASE removed' = removed \cup {Last} /\ left' = left - 1
      <4>1. Pub(backend, left) = Pub(backend, left - 1) \cup {Last} /\ Last \notin Pub(backend, left - 1)
        BY <2>1, <2>2, PubSteps DEF Last
      <4> QED BY <2>3, <3>1, <4>1
    <3>2. CASE UNCHANGED <<removed, left>>
      BY <2>3, <3>2
    <3> QED BY <3>1, <3>2 DEF Confirm
  <2> QED BY <2>1, <2>2, <2>4 DEF Undoing, Standing, Tried, Rolling, Attempting
<1>4. Receipted'
  BY CurrentObjects DEF TypeInv, Progress, Undoing, Receipted, Ended, Succeeds, Detached, Tried, Rolling, Attempting, Confirm
<1> QED BY <1>1, <1>2, <1>3, <1>4

\* or put back, or unconfirmed,
LEMMA PutBackBase == ASSUME Base, PutBack PROVE Base'
<1> USE DEF Base, Go, Fail, context
<1>1. TypeInv'
  <2> USE DEF TypeInv
  <2>1. left > 0 /\ Last \in Made /\ Home(backend, Tree[left]) \in Places
    BY CurrentObjects, HomePlaces, TreeWalk DEF Progress, PutBack
  <2>2. at' \in [Objects -> Places \cup {Nowhere, Away}]
    BY <2>1, MoveMoves DEF PutBack
  <2> QED BY <2>1, <2>2, CurrentObjects DEF Labels, Attempting, Progress, PutBack
<1>2. Progress'
  BY CurrentObjects DEF TypeInv, Progress, Kept, Tried, Attempting, Staging3, Succeeds, PutBack, Move
<1>3. Undoing'
  <2>1. /\ Progress /\ Undoing /\ pc = "put_back" /\ left > 0 /\ pc' = "restore"
        /\ UNCHANGED <<backend, receipt, created, left, removed>>
        /\ UNCHANGED unconfirmed \/ unconfirmed' = unconfirmed \cup {Last}
    BY DEF PutBack, Progress
  <2>2. Kept = left /\ Kept' = left /\ Last' = Last
    BY <2>1 DEF Kept, Tried, Attempting, Succeeds, Last
  <2> QED BY <2>1, <2>2 DEF Undoing, Standing, Tried, Rolling, Attempting
<1>4. Receipted'
  BY CurrentObjects DEF TypeInv, Progress, Undoing, Receipted, Ended, Succeeds, Detached, Tried, Rolling, Attempting, PutBack, Move
<1> QED BY <1>1, <1>2, <1>3, <1>4

\* and the receipt says so.
LEMMA RestoreBase == ASSUME Base, Restore PROVE Base'
<1> USE DEF Base, Go, Fail, context
<1>1. TypeInv'
  <2> USE DEF TypeInv
  <2>1. receipt' \in [Backends -> Receipts]
    BY FailedReceipt, ReceiptGiven DEF Restore, Statuses
  <2> QED BY <2>1, CurrentObjects DEF Labels, Attempting, Progress, Restore
<1>2. Progress'
  BY CurrentObjects DEF TypeInv, Progress, Kept, Tried, Attempting, Staging3, Succeeds, Restore, Failed
<1>3. Undoing'
  <2>1. Undoing /\ pc = "restore" /\ pc' = "report" /\ UNCHANGED <<backend, created, left, removed, unconfirmed>>
    BY DEF Restore
  <2>2. Kept = left /\ Kept' = left /\ Last' = Last
    BY <2>1 DEF Kept, Tried, Attempting, Succeeds, Last
  <2> QED BY <2>1, <2>2 DEF Undoing, Standing, Tried, Rolling, Attempting
<1>4. Receipted'
  <2>1. PICK s \in {"not_needed", "confirmed", "incomplete"} :
           receipt' = [receipt EXCEPT ![backend] = Failed(s)]
    BY DEF Restore
  <2>2. pc' = "report" /\ UNCHANGED <<backend, created, left, removed, unconfirmed, staged>>
    BY DEF Restore
  <2> QED BY <2>1, <2>2, RecordedFailure
<1> QED BY <1>1, <1>2, <1>3, <1>4

\* A copy starts from the receipt of the clone, or the call ends.
LEMMA FallbackBase == ASSUME Base, Fallback PROVE Base'
<1> USE DEF Base, Go, Fail, context
<1>1. TypeInv'
  <2> USE DEF TypeInv
  <2>1. created' \in 0..Len(Tree) /\ left' \in 0..created'
    BY TreeWalk DEF Fallback, Copy
  <2>2. backend' \in Backends
    BY DEF Fallback, Copy, Backends
  <2> QED BY <2>1, <2>2, CurrentObjects DEF Labels, Attempting, Progress, Fallback, Copy
<1>2. Progress'
  BY CurrentObjects DEF TypeInv, Progress, Kept, Tried, Attempting, Staging3, Succeeds, Fallback, Copy
<1>3. Undoing'
  <2>1. CASE Eligible /\ Copy
    <3>1. pc' = "begin" /\ created' = 0 /\ left' = 0 /\ removed' = {} /\ unconfirmed' = {}
          /\ backend = "cow" /\ backend' = "copy" /\ UNCHANGED receipt
      BY <2>1 DEF Copy, Eligible, Fallback
    <3> QED BY <3>1 DEF Undoing, Receipted, Standing, Tried, Rolling, Attempting
  <2>2. CASE pc' = "done" /\ UNCHANGED context /\ UNCHANGED backend
    <3>1. pc = "report" /\ UNCHANGED receipt /\ Kept = left /\ Last' = Last
      BY <2>2 DEF Fallback, Kept, Tried, Attempting, Succeeds, Last
    <3>2. receipt[backend].status # "succeeded"
      BY <3>1 DEF Receipted, Ended
    <3>3. Kept' = left
      BY <2>2, <3>1, <3>2 DEF Kept, Tried, Attempting, Succeeds
    <3> QED BY <2>2, <3>1, <3>3 DEF Undoing, Standing, Tried, Rolling, Attempting
  <2> QED BY <2>1, <2>2 DEF Fallback
<1>4. Receipted'
  <2>1. CASE Eligible /\ RestoredBaseline(receipt["cow"]) /\ Copy
    BY <2>1 DEF Copy, Eligible, Fallback, Receipted, Ended, Succeeds, RestoredBaseline
  <2>2. CASE pc' = "done" /\ UNCHANGED context /\ UNCHANGED backend
    <3>1. UNCHANGED receipt /\ Ended /\ (\A s : Failed(s)' = Failed(s))
      BY <2>2 DEF Fallback, Ended, Failed, Published, Object
    <3> QED BY <2>2, <3>1 DEF Receipted, Ended, Succeeds, RestoredBaseline
  <2> QED BY <2>1, <2>2 DEF Fallback
<1> QED BY <1>1, <1>2, <1>3, <1>4

\* A failing call ends an attempt or a rollback.
LEMMA FaultBase == ASSUME Base, Fault PROVE Base'
<1> USE DEF Base, Go, Fail, context
<1>1. TypeInv'
  <2> USE DEF TypeInv
  <2>1. receipt' \in [Backends -> Receipts]
    BY FailedReceipt, ReceiptGiven DEF Fault, Statuses
  <2>2. left > 0 => Last \in Made
    BY CurrentObjects
  <2> QED BY <2>1, <2>2, CurrentObjects DEF Labels, Attempting, Progress, Fault
<1>2. Progress'
  BY CurrentObjects DEF TypeInv, Progress, Kept, Tried, Attempting, Staging3, Succeeds, Fault, Failed
<1>3. Undoing'
  <2>1. CASE pc \in Attempting /\ Fail("fault") /\ UNCHANGED receipt
    BY <2>1 DEF Fault, Undoing, Kept, Standing, Tried, Rolling, Attempting, Last
  <2>2. CASE /\ pc' \in {"restore", "put_back"} /\ UNCHANGED context /\ UNCHANGED receipt
             /\ pc \in {"rollback", "recheck", "detach", "confirm"}
    BY <2>2 DEF Fault, Undoing, Kept, Standing, Tried, Rolling, Attempting, Last, Succeeds
  <2>3. CASE /\ pc = "put_back" /\ unconfirmed' = unconfirmed \cup {Last} /\ pc' = "restore"
             /\ UNCHANGED <<created, staged, anonymous, failure, left, removed, todo, receipt>>
    BY <2>3 DEF Fault, Progress, Undoing, Kept, Standing, Tried, Rolling, Attempting, Last, Succeeds
  <2>4. CASE pc = "restore" /\ pc' = "report" /\ UNCHANGED context
    BY <2>4 DEF Fault, Undoing, Kept, Standing, Tried, Rolling, Attempting, Last, Succeeds
  <2> QED BY <2>1, <2>2, <2>3, <2>4 DEF Fault
<1>4. Receipted'
  <2>1. CASE UNCHANGED receipt /\ pc' \notin {"report", "done"}
    BY <2>1 DEF Fault, Receipted, Ended, Succeeds
  <2>2. CASE /\ pc = "restore" /\ pc' = "report" /\ UNCHANGED context
             /\ receipt' = [receipt EXCEPT ![backend] = Failed("incomplete")]
    BY <2>2, RecordedFailure DEF Fault
  <2> QED BY <2>1, <2>2 DEF Fault
<1> QED BY <1>1, <1>2, <1>3, <1>4

\* Users change the source, and what is at places of theirs.
LEMMA UserPlaceKinds ==
  ASSUME NEW p \in UserPlaces
  PROVE  p \in Places \cup {Nowhere, Away} /\ p # Nowhere
BY PlaceKinds DEF UserPlaces

\* Users change none of this.
LEMMA UserBase ==
  ASSUME Base, NEW e \in Entries, NEW o \in Objects, NEW m \in Made, NEW p \in UserPlaces,
         ChangeSource(e) \/ UserMove(o, p) \/ UserDelete(m) \/ UserEdit(m)
  PROVE  Base'
<1>1. UNCHANGED <<platform, snap, backend, pc, context, receipt, seen, faults>>
  BY DEF ChangeSource, UserMove, UserDelete, UserEdit
<1>2. /\ meddle' \in Nat /\ meddle <= meddle'
      /\ src' \in [Entries -> {0, 1}]
      /\ at' \in [Objects -> Places \cup {Nowhere, Away}]
      /\ data' \in [Objects -> {0, 1, Edited, Blank}]
  <2>1. m \in Objects
    BY ObjectKinds
  <2>2. CASE ChangeSource(e)
    BY <2>2 DEF ChangeSource, Base, TypeInv
  <2>3. CASE UserMove(o, p)
    BY <2>3, UserPlaceKinds, MoveMoves DEF UserMove, Touch, Base, TypeInv
  <2>4. CASE UserDelete(m)
    BY <2>1, <2>4, MoveMoves DEF UserDelete, Touch, Base, TypeInv
  <2>5. CASE UserEdit(m)
    BY <2>1, <2>5, DataChanges DEF UserEdit, Touch, Base, TypeInv
  <2> QED BY <2>2, <2>3, <2>4, <2>5
<1>3. TypeInv'
  BY <1>1, <1>2 DEF Base, TypeInv, context
<1>4. Progress' /\ Undoing' /\ Receipted'
  BY <1>1 DEF Base, Progress, Undoing, Receipted, context, Kept, Standing, Last, Succeeds, Ended,
              Detached, Failed, Published, Object
<1> QED BY <1>3, <1>4 DEF Base

\* Nor does a stutter.
LEMMA StutterBase == ASSUME Base, UNCHANGED vars PROVE Base'
BY DEF Base, TypeInv, Progress, Undoing, Receipted, vars, context, Kept, Standing, Last, Succeeds,
       Ended, Detached, Failed, Published, Object, RestoredBaseline

\* So every step keeps Base,
LEMMA NextBase == Base /\ [Next]_vars => Base'
<1> SUFFICES ASSUME Base, [Next]_vars PROVE Base'
  OBVIOUS
<1>1. Entries # {} /\ Made # {}
  <2>1. 1 \in Index /\ "cow" \in Backends
    BY TreeWalk DEF Index, Backends
  <2>2. Tree[1] \in Entries /\ <<"cow", Tree[1]>> \in Made
    BY <2>1, TreeWalk, ObjectKinds
  <2> QED BY <2>2
<1>2. UserPlaces # {}
  BY DEF UserPlaces
<1>3. ASSUME NEW e \in Entries, ChangeSource(e) PROVE Base'
  BY <1>1, <1>2, <1>3, UserBase, ObjectKinds
<1>4. ASSUME NEW o \in Objects, NEW p \in UserPlaces, UserMove(o, p) PROVE Base'
  BY <1>1, <1>4, UserBase
<1>5. ASSUME NEW m \in Made, UserDelete(m) \/ UserEdit(m) PROVE Base'
  BY <1>1, <1>2, <1>5, UserBase, ObjectKinds
<1>6. ASSUME platform = "linux",
             \/ Begin \/ Create \/ Identify \/ Prepare \/ Verify \/ FinalTarget
             \/ Quarantine \/ Unlink \/ Cleanup \/ Rollback \/ CleanupFault
      PROVE  Base'
  BY <1>6, BeginBase, CreateBase, IdentifyBase, PrepareBase, VerifyBase, FinalTargetBase,
     QuarantineBase, UnlinkBase, CleanupBase, RollbackBase, CleanupFaultBase
<1>7. ASSUME platform = "macos",
             \/ MacBegin \/ MacStage \/ MacCloneFails \/ MacIdentify \/ MacCreateInPlace
             \/ MacRegister \/ MacFill \/ MacVerify \/ MacFinalTarget
             \/ MacCleanup \/ MacRollback \/ MacRecheck \/ MacCleanupFault
      PROVE  Base'
  BY <1>7, MacBeginBase, MacStageBase, MacCloneFailsBase, MacIdentifyBase, MacCreateInPlaceBase,
     MacRegisterBase, MacFillBase, MacVerifyBase, MacFinalTargetBase, MacCleanupBase,
     MacRollbackBase, MacRecheckBase, MacCleanupFaultBase
<1>8. ASSUME \/ Check \/ Publish \/ FinalSource
             \/ Detach \/ Confirm \/ PutBack \/ Restore \/ Fallback \/ Fault
      PROVE  Base'
  BY <1>8, CheckBase, PublishBase, FinalSourceBase, DetachBase, ConfirmBase, PutBackBase,
     RestoreBase, FallbackBase, FaultBase
<1> QED BY <1>3, <1>4, <1>5, <1>6, <1>7, <1>8, Steps, StutterBase

\* and it always holds.
LEMMA AlwaysBase == Spec => []Base
<1> QED BY InitBase, NextBase, PTL DEF Spec

(***************************************************************************)
(* Names and places                                                        *)
(***************************************************************************)

\* At first nothing exists.
LEMMA InitPlaces == Init => PlacesInv
<1> SUFFICES ASSUME Init PROVE PlacesInv
  OBVIOUS
<1>1. \A o \in Objects : at[o] = Nowhere
  BY DEF Init
<1>2. \A o \in Made : o \in Objects
  BY ObjectKinds
<1>3. staged = "no" /\ \A q \in Made : <<Trash, q>> # Nowhere
  BY ToolPlaces DEF Init
<1> QED BY <1>1, <1>2, <1>3, PlaceKinds
    DEF PlacesInv, OneObjectAName, StagingIsOurs, TrashNames, Accounted

\* What is true of the steps that move nothing and give nothing up.
Holding ==
  /\ UNCHANGED <<at, backend, created>> /\ (staged' = "no" <=> staged = "no")
  /\ Kept' = Kept /\ UNCHANGED removed
  /\ backend = "copy" => receipt'["cow"] = receipt["cow"]
  /\ \/ ~Handling /\ ~Handling' /\ UNCHANGED unconfirmed
     \/ Handling /\ Handling' /\ UNCHANGED <<left, unconfirmed>>
     \/ Handling /\ ~Handling' /\ UNCHANGED left /\ unconfirmed' = unconfirmed \cup {Last}

\* Such a step keeps what is known of places.
LEMMA HoldingPlaces == ASSUME Base, PlacesInv, Holding PROVE PlacesInv'
<1>1. UNCHANGED at /\ OneObjectAName'
  BY DEF Holding, PlacesInv, OneObjectAName
<1>2. Object' = Object /\ Standing' = Standing /\ StagedSet' = StagedSet
  BY DEF Holding, Object, Standing, StagedSet
<1>3. StagingIsOurs'
  BY <1>2 DEF Holding, PlacesInv, StagingIsOurs
<1>4. backend = "copy" => Detached' = Detached
  BY DEF Holding, Detached
<1>5. TrashNames'
  BY <1>4 DEF Holding, PlacesInv, TrashNames, Last
<1>6. Accounted'
  BY <1>2, <1>4 DEF Holding, PlacesInv, Accounted
<1> QED BY <1>1, <1>3, <1>5, <1>6 DEF PlacesInv

\* A name that is free, or generated for the object, leads to nothing else.
LEMMA MovedName ==
  ASSUME TypeInv, OneObjectAName, NEW o \in Objects, NEW p \in Places \cup {Nowhere, Away},
         Move(o, p), p \in Places => \A x \in Objects : x # o => at[x] # p
  PROVE  OneObjectAName'
BY MoveMoves DEF OneObjectAName

\* An entry is made in staging.
LEMMA StagePlaces ==
  ASSUME Base, PlacesInv, pc = "create", Move(Object, <<Staging, Object>>),
         staged' = "unknown", pc' = "identify",
         UNCHANGED <<backend, created, left, removed, unconfirmed, receipt>>
  PROVE  PlacesInv'
<1>1. /\ staged = "no" /\ Object \in Made /\ Object \in Objects /\ Object' = Object
      /\ <<Staging, Object>> \in Places /\ <<Staging, Object>>[1] = Staging
      /\ \A q \in Made : <<Staging, Object>> # <<Trash, q>>
  BY CurrentObjects, ObjectKinds, ToolPlaces, PlaceKinds
     DEF Base, Progress, Staging3, Attempting, Object
<1>2. /\ at' \in [Objects -> Places \cup {Nowhere, Away}] /\ at'[Object] = <<Staging, Object>>
      /\ \A x \in Objects : x # Object => at'[x] = at[x]
  BY <1>1, MoveMoves DEF Base
<1>3. OneObjectAName'
  BY <1>1, MovedName DEF Base, PlacesInv, StagingIsOurs
<1>4. StagingIsOurs'
  BY <1>1, <1>2 DEF PlacesInv, StagingIsOurs
<1>5. TrashNames'
  BY <1>1, <1>2 DEF PlacesInv, TrashNames, Handling, Detached
<1>6. Standing' = Standing /\ StagedSet' = {Object} /\ Detached' = Detached
  BY <1>1 DEF Standing, Kept, Tried, Attempting, StagedSet, Detached
<1>7. \A o \in Made : o \in Objects
  BY ObjectKinds
<1>8. Accounted'
  <2> SUFFICES ASSUME NEW o \in Made, at'[o] # Nowhere
               PROVE  \/ o[1] = backend /\ o \in Standing \cup removed \cup unconfirmed \cup {Object}
                      \/ o[1] # backend /\ backend = "copy" /\ o \in Detached
    BY <1>6 DEF Accounted
  <2>1. CASE o = Object
    BY <2>1, <1>1, CurrentObjects DEF Base, Progress
  <2>2. CASE o # Object
    BY <2>2, <1>1, <1>2, <1>7 DEF PlacesInv, Accounted, StagedSet
  <2> QED BY <2>1, <2>2
<1> QED BY <1>3, <1>4, <1>5, <1>8 DEF PlacesInv

\* An entry gets its name in the target.
LEMMA PublishPlaces ==
  ASSUME Base, PlacesInv, pc \in Attempting, pc' \in {"verify", "register"},
         created < Len(Tree), Free(Home(backend, Object[2])),
         Move(Object, Home(backend, Object[2])), created' = created + 1, staged' = "no",
         UNCHANGED <<backend, left, removed, unconfirmed, receipt>>
  PROVE  PlacesInv'
<1> DEFINE home == Home(backend, Object[2])
<1>1. /\ Object \in Made /\ Object[1] = backend /\ Object \in Objects
      /\ home \in Places /\ home[1] # Staging
      /\ \A q \in Made : home # <<Trash, q>>
  BY CurrentObjects, ObjectKinds, HomePlaces DEF Base, TypeInv
<1>2. /\ at' \in [Objects -> Places \cup {Nowhere, Away}] /\ at'[Object] = home
      /\ \A x \in Objects : x # Object => at'[x] = at[x]
  BY <1>1, MoveMoves DEF Base
<1>3. OneObjectAName'
  BY <1>1, MovedName DEF Base, PlacesInv, Free
<1> HIDE DEF home
<1>4. StagingIsOurs'
  BY <1>1, <1>2 DEF PlacesInv, StagingIsOurs
<1>5. TrashNames'
  <2>1. ~Handling /\ Detached' = Detached
    BY DEF Handling, Attempting, Detached
  <2>2. ASSUME NEW o \in Objects, NEW q \in Made, at'[o] = <<Trash, q>>
        PROVE  at[o] = <<Trash, q>>
    BY <1>1, <1>2, <2>2
  <2> QED BY <2>1, <2>2 DEF PlacesInv, TrashNames
<1>6. Standing' = Standing \cup {Object}
  <2>1. created \in 0..Len(Tree) /\ backend \in Backends
    BY DEF Base, TypeInv
  <2>2. Pub(backend, created + 1) = Pub(backend, created) \cup {Object}
    BY <2>1, PubSteps DEF Object
  <2>3. Kept = created /\ Kept' = created + 1
    BY DEF Kept, Tried, Attempting
  <2> QED BY <2>2, <2>3 DEF Standing
<1>7. \A o \in Made : o \in Objects
  BY ObjectKinds
<1>8. Detached' = Detached /\ StagedSet \subseteq {Object}
  BY DEF Detached, StagedSet
<1>9. Accounted'
  BY <1>1, <1>2, <1>6, <1>7, <1>8 DEF PlacesInv, Accounted
<1> QED BY <1>3, <1>4, <1>5, <1>9 DEF PlacesInv

\* The clean-up removes the staged entry.
LEMMA UnstagePlaces ==
  ASSUME Base, PlacesInv, pc = "cleanup", pc' = "rollback", staged # "no",
         Move(Object, Nowhere), staged' = "no", left' = created,
         UNCHANGED <<backend, created, removed, unconfirmed, receipt>>
  PROVE  PlacesInv'
<1>1. Object \in Made /\ Object \in Objects /\ Nowhere \notin Places
  BY CurrentObjects, ObjectKinds, PlaceKinds DEF Base, Progress
<1>2. /\ at' \in [Objects -> Places \cup {Nowhere, Away}] /\ at'[Object] = Nowhere
      /\ \A x \in Objects : x # Object => at'[x] = at[x]
  BY <1>1, MoveMoves DEF Base
<1>3. OneObjectAName'
  BY <1>1, MovedName DEF Base, PlacesInv
<1>4. StagingIsOurs'
  BY <1>1, <1>2 DEF PlacesInv, StagingIsOurs
<1>5. \A q \in Made : <<Trash, q>> # Nowhere
  BY ToolPlaces
<1>6. TrashNames'
  BY <1>1, <1>2, <1>5 DEF PlacesInv, TrashNames, Handling, Detached
<1>7. Standing' = Standing /\ Detached' = Detached /\ StagedSet = {Object}
  BY DEF Standing, Kept, Tried, Attempting, Detached, StagedSet, Succeeds
<1>8. \A o \in Made : o \in Objects
  BY ObjectKinds
<1>9. Accounted'
  BY <1>1, <1>2, <1>7, <1>8 DEF PlacesInv, Accounted
<1> QED BY <1>3, <1>4, <1>6, <1>9 DEF PlacesInv

\* A user moves or deletes something, or the tool unlinks what it confirmed.
LEMMA AsidePlaces ==
  ASSUME Base, PlacesInv, NEW o \in Objects, NEW p \in {Nowhere} \cup UserPlaces, Move(o, p),
         ~Staged(o), at[o] = Nowhere => o \in UserFiles,
         p \in Places => p[1] # Staging /\ Free(p),
         UNCHANGED <<pc, backend, created, left, staged, removed, unconfirmed, receipt>>
  PROVE  PlacesInv'
<1>1. /\ p \in Places \cup {Nowhere, Away}
      /\ \A q \in Made : p # <<Trash, q>>
  BY UserPlaceKinds, ToolPlaces DEF UserPlaces
<1>2. /\ at' \in [Objects -> Places \cup {Nowhere, Away}] /\ at'[o] = p
      /\ \A x \in Objects : x # o => at'[x] = at[x]
  BY <1>1, MoveMoves DEF Base
<1>3. OneObjectAName'
  BY <1>1, MovedName DEF Base, PlacesInv, Free
<1>4. Object' = Object /\ Standing' = Standing /\ StagedSet' = StagedSet /\ Detached' = Detached
      /\ Last' = Last /\ Handling' = Handling
  BY DEF Object, Standing, Kept, Succeeds, StagedSet, Detached, Last, Handling
<1>5. staged # "no" => o # Object
  <2> SUFFICES ASSUME staged # "no", o = Object PROVE FALSE
    OBVIOUS
  <2>1. at[o] = <<Staging, Object>> /\ Object \in Made
    BY CurrentObjects DEF PlacesInv, StagingIsOurs, Base, Progress
  <2> QED BY <2>1, ToolPlaces DEF Staged
<1>6. StagingIsOurs'
  <2>1. staged # "no" => Object \in Objects
    BY CurrentObjects, ObjectKinds DEF Base, Progress
  <2> QED BY <1>1, <1>2, <1>4, <1>5, <2>1 DEF PlacesInv, StagingIsOurs
<1>7. TrashNames'
  <2>1. ASSUME NEW x \in Objects, NEW q \in Made, at'[x] = <<Trash, q>>
        PROVE  at[x] = <<Trash, q>>
    BY <1>1, <1>2, <2>1, ToolPlaces
  <2> QED BY <1>4, <2>1 DEF PlacesInv, TrashNames
<1>8. \A x \in Made : x \in Objects /\ x \notin UserFiles
  BY ObjectKinds
<1>9. Accounted'
  BY <1>2, <1>4, <1>8 DEF PlacesInv, Accounted
<1> QED BY <1>3, <1>6, <1>7, <1>9 DEF PlacesInv

\* What a name leads to is renamed into trash.
LEMMA DetachPlaces ==
  ASSUME Base, PlacesInv, pc = "detach", pc' = "confirm", NEW o \in Objects,
         at[o] = Home(backend, Tree[left]), Move(o, Quarantined),
         UNCHANGED <<backend, created, left, staged, removed, unconfirmed, receipt>>
  PROVE  PlacesInv'
<1>1. /\ left > 0 /\ Last \in Made /\ Last[1] = backend /\ left \in Index /\ Quarantined \in Places
      /\ Quarantined[1] = Trash /\ Quarantined = <<Trash, Last>>
  BY CurrentObjects, ToolPlaces DEF Base, Progress, Quarantined
<1>2. /\ at' \in [Objects -> Places \cup {Nowhere, Away}] /\ at'[o] = Quarantined
      /\ \A x \in Objects : x # o => at'[x] = at[x]
  BY <1>1, MoveMoves DEF Base
<1>3. Last \in Standing /\ Kept = left
  <2>1. Kept = left
    BY DEF Kept, Tried, Attempting, Succeeds
  <2>2. left \in 0..Len(Tree) /\ backend \in Backends /\ left <= left
    BY <1>1, TreeWalk DEF Base, TypeInv, Index
  <2> QED BY <1>1, <2>1, <2>2, PubSteps DEF Standing, Last
<1>4. unconfirmed = {} /\ Last \notin removed /\ ~Handling
  BY <1>3 DEF Base, Undoing, Rolling, Handling
<1>5. \A x \in Objects : at[x] # Quarantined
  BY <1>1, <1>4 DEF PlacesInv, TrashNames
<1>6. OneObjectAName'
  BY <1>1, <1>5, MovedName DEF Base, PlacesInv
<1>7. /\ Object' = Object /\ Standing' = Standing /\ StagedSet' = StagedSet
      /\ Detached' = Detached /\ Last' = Last /\ Handling'
  BY <1>3 DEF Object, Standing, StagedSet, Detached, Last, Handling, Kept, Tried, Attempting, Succeeds
<1>8. staged # "no" => o # Object
  <2> SUFFICES ASSUME staged # "no", o = Object PROVE FALSE
    OBVIOUS
  <2>1. at[o] = <<Staging, Object>> /\ Object \in Made /\ Tree[left] \in Entries
    BY <1>1, CurrentObjects, TreeWalk DEF PlacesInv, StagingIsOurs, Base, Progress
  <2> QED BY <2>1, HomePlaces DEF Base, TypeInv
<1>9. StagingIsOurs'
  <2>1. staged # "no" => Object \in Objects
    BY CurrentObjects, ObjectKinds DEF Base, Progress
  <2> QED BY <1>1, <1>2, <1>7, <1>8, <2>1, PlaceKinds DEF PlacesInv, StagingIsOurs
<1>10. TrashNames'
  <2> SUFFICES ASSUME NEW x \in Objects, NEW q \in Made, at'[x] = <<Trash, q>>
               PROVE  \/ q = Last
                      \/ q[1] = backend /\ q \in unconfirmed
                      \/ q[1] = backend /\ q \in removed /\ x = q
                      \/ q[1] # backend /\ backend = "copy" /\ q \in Detached /\ x = q
    BY <1>1, <1>7 DEF TrashNames
  <2>1. CASE x = o
    BY <2>1, <1>1, <1>2
  <2>2. CASE x # o
    BY <2>2, <1>2, <1>4 DEF PlacesInv, TrashNames
  <2> QED BY <2>1, <2>2
<1>11. Accounted'
  <2>1. \A x \in Made : x \in Objects
    BY ObjectKinds
  <2>2. at[o] # Nowhere
    BY <1>1, TreeWalk, HomePlaces DEF Base, TypeInv
  <2> QED BY <1>2, <1>7, <2>1, <2>2 DEF PlacesInv, Accounted
<1> QED BY <1>6, <1>9, <1>10, <1>11 DEF PlacesInv

\* What was renamed by mistake goes back under the name, which is free.
LEMMA PutBackPlaces ==
  ASSUME Base, PlacesInv, pc = "put_back", pc' = "restore", NEW o \in Objects,
         at[o] = Quarantined, Free(Home(backend, Tree[left])), Move(o, Home(backend, Tree[left])),
         UNCHANGED <<backend, created, left, staged, removed, unconfirmed, receipt>>
  PROVE  PlacesInv'
<1> DEFINE home == Home(backend, Tree[left])
<1>1. /\ Last \in Made /\ Last[1] = backend /\ left \in Index /\ Quarantined \in Places
      /\ Quarantined[1] = Trash /\ Quarantined = <<Trash, Last>> /\ Quarantined # Nowhere
  BY CurrentObjects, ToolPlaces DEF Base, Progress, Quarantined
<1>2. home \in Places /\ home[1] # Staging /\ \A q \in Made : home # <<Trash, q>>
  BY <1>1, HomePlaces, TreeWalk DEF Base, TypeInv
<1>3. /\ at' \in [Objects -> Places \cup {Nowhere, Away}] /\ at'[o] = home
      /\ \A x \in Objects : x # o => at'[x] = at[x]
  BY <1>2, MoveMoves DEF Base
<1>4. OneObjectAName'
  BY <1>2, MovedName DEF Base, PlacesInv, Free
<1> HIDE DEF home
<1>5. /\ Object' = Object /\ Standing' = Standing /\ StagedSet' = StagedSet
      /\ Detached' = Detached /\ Last' = Last
  BY DEF Object, Standing, StagedSet, Detached, Last, Kept, Tried, Attempting, Succeeds
<1>6. StagingIsOurs'
  <2>1. staged # "no" => Object \in Objects /\ at[Object] = <<Staging, Object>> /\ Object \in Made
    BY CurrentObjects, ObjectKinds DEF Base, Progress, PlacesInv, StagingIsOurs
  <2>2. staged # "no" => o # Object
    BY <1>1, <2>1, ToolPlaces
  <2> QED BY <1>2, <1>3, <1>5, <2>1, <2>2 DEF PlacesInv, StagingIsOurs
<1>7. TrashNames'
  <2> SUFFICES ASSUME NEW x \in Objects, NEW q \in Made, at'[x] = <<Trash, q>>
               PROVE  \/ q[1] = backend /\ q \in unconfirmed
                      \/ q[1] = backend /\ q \in removed /\ x = q
                      \/ q[1] # backend /\ backend = "copy" /\ q \in Detached /\ x = q
    BY <1>5 DEF TrashNames
  <2>1. x # o /\ at[x] = <<Trash, q>>
    BY <1>2, <1>3
  <2>2. q # Last
    BY <1>1, <2>1 DEF PlacesInv, OneObjectAName
  <2> QED BY <2>1, <2>2 DEF PlacesInv, TrashNames
<1>8. Accounted'
  <2>1. \A x \in Made : x \in Objects
    BY ObjectKinds
  <2> QED BY <1>1, <1>3, <1>5, <2>1 DEF PlacesInv, Accounted
<1> QED BY <1>4, <1>6, <1>7, <1>8 DEF PlacesInv

\* What is in trash is the entry that was published: it is detached.
LEMMA ConfirmPlaces ==
  ASSUME Base, PlacesInv, pc = "confirm", pc' = "rollback", at[Last] = Quarantined,
         removed' = removed \cup {Last}, left' = left - 1,
         UNCHANGED <<at, backend, created, staged, unconfirmed, receipt>>
  PROVE  PlacesInv'
<1>1. /\ Last \in Made /\ Last \in Objects /\ Last[1] = backend /\ left \in Index /\ left > 0
      /\ Quarantined = <<Trash, Last>> /\ Quarantined \in Places
  BY CurrentObjects, ToolPlaces, ObjectKinds DEF Base, Progress, Quarantined
<1>2. Standing = Standing' \cup {Last}
  <2>1. left \in 0..Len(Tree) /\ backend \in Backends
    BY <1>1, TreeWalk DEF Base, TypeInv, Index
  <2>2. Pub(backend, left) = Pub(backend, left - 1) \cup {Last}
    BY <1>1, <2>1, PubSteps DEF Last
  <2> QED BY <2>2 DEF Standing, Kept, Tried, Attempting, Succeeds
<1>3. Object' = Object /\ StagedSet' = StagedSet /\ Detached' = Detached
  BY DEF Object, StagedSet, Detached
<1>4. OneObjectAName' /\ StagingIsOurs'
  BY <1>3 DEF PlacesInv, OneObjectAName, StagingIsOurs
<1>5. \A x \in Objects : at[x] = <<Trash, Last>> => x = Last
  BY <1>1 DEF PlacesInv, OneObjectAName
<1>6. TrashNames'
  BY <1>1, <1>3, <1>5 DEF PlacesInv, TrashNames
<1>7. Accounted'
  BY <1>2, <1>3 DEF PlacesInv, Accounted
<1> QED BY <1>4, <1>6, <1>7 DEF PlacesInv

\* A clone that left nothing but detached objects is followed by a copy.
LEMMA CopyPlaces ==
  ASSUME Base, PlacesInv, pc = "report", Eligible, RestoredBaseline(receipt["cow"]), Copy,
         UNCHANGED <<at, receipt>>
  PROVE  PlacesInv'
<1>1. backend = "cow" /\ receipt["cow"].status # "none"
  BY DEF Eligible, Base, Receipted, Ended
<1>2. /\ receipt["cow"].removed = removed /\ receipt["cow"].unconfirmed = unconfirmed
      /\ receipt["cow"].remaining = Pub("cow", left) /\ receipt["cow"].staging = StagedSet
  <2>1. receipt["cow"] = Failed(receipt["cow"].status) /\ receipt["cow"].status \in Statuses
    BY <1>1 DEF Base, Receipted, Ended, Statuses
  <2> QED BY <1>1, <2>1, FailedReceipt DEF Base
<1>3. unconfirmed = {} /\ StagedSet = {} /\ Standing = {} /\ staged = "no"
  BY <1>1, <1>2 DEF RestoredBaseline, Standing, Kept, Tried, Attempting, Succeeds, StagedSet
<1>4. Detached' = removed /\ staged' = "no" /\ backend' = "copy" /\ removed' = {} /\ unconfirmed' = {}
  BY <1>1, <1>2, ReceiptKinds DEF Detached, Copy
<1>5. OneObjectAName' /\ StagingIsOurs'
  BY <1>3, <1>4 DEF PlacesInv, OneObjectAName, StagingIsOurs
<1>6. TrashNames'
  BY <1>1, <1>3, <1>4 DEF PlacesInv, TrashNames, Handling
<1>7. Accounted'
  BY <1>1, <1>3, <1>4 DEF PlacesInv, Accounted
<1> QED BY <1>5, <1>6, <1>7 DEF PlacesInv

\* The steps of an attempt that go on or give up without moving anything.
LEMMA AttemptHolds ==
  ASSUME Base,
         \/ Begin \/ Check \/ Identify \/ Prepare \/ Verify \/ FinalSource \/ Quarantine
         \/ MacBegin \/ MacCloneFails \/ MacIdentify \/ MacRegister \/ MacFill \/ MacVerify
  PROVE  Holding
<1>1. /\ pc \in Attempting /\ pc' \in Attempting \cup {"cleanup"}
      /\ UNCHANGED <<at, backend, created, removed, unconfirmed, receipt>>
      /\ (staged' = "no" <=> staged = "no")
  BY DEF Begin, Check, Identify, Prepare, Verify, FinalSource, Quarantine, MacBegin, MacCloneFails,
         MacIdentify, MacRegister, MacFill, MacVerify, Go, Fail, context, Attempting,
         Base, Progress, Staging3
<1> QED BY <1>1 DEF Holding, Kept, Tried, Handling, Attempting

\* A success keeps everything where it is.
LEMMA SuccessHolds ==
  ASSUME Base, pc \in Attempting, UNCHANGED <<at, backend, created, staged, removed, unconfirmed>>,
         \/ pc' \in Attempting \cup {"cleanup"} /\ UNCHANGED receipt
         \/ pc' = "done" /\ receipt' = [receipt EXCEPT ![backend] = Succeeded]
  PROVE  Holding
<1>1. backend = "copy" => receipt'["cow"] = receipt["cow"]
  BY ReceiptKinds, ReceiptGiven DEF Base
<1>2. pc' = "done" => Succeeds'
  BY ReceiptKinds, ReceiptGiven DEF Base, Succeeds, Attempting
<1>3. Kept = created /\ Kept' = created
  BY <1>2 DEF Kept, Tried
<1> QED BY <1>1, <1>3 DEF Holding, Handling, Attempting

\* The steps of a rollback that move nothing.
LEMMA RollbackHolds ==
  ASSUME Base, Rollback \/ MacRollback \/ MacRecheck
  PROVE  Holding
<1>1. /\ pc \in {"rollback", "recheck"} /\ pc' \in {"restore", "detach", "recheck"}
      /\ UNCHANGED <<at, backend, receipt>> /\ UNCHANGED context
  BY DEF Rollback, MacRollback, MacRecheck, Go
<1> QED BY <1>1 DEF Holding, Kept, Tried, Attempting, Handling, Succeeds, context

\* A clean-up with nothing to unlink, or that fails.
LEMMA CleanupHolds ==
  ASSUME Base, pc = "cleanup", pc' = "rollback", left' = created,
         UNCHANGED <<at, backend, created, staged, removed, unconfirmed, receipt>>
  PROVE  Holding
BY DEF Holding, Kept, Tried, Attempting, Handling, Succeeds

\* The receipt of a failure is written.
LEMMA RestoreHolds ==
  ASSUME Base, pc = "restore", pc' = "report", UNCHANGED <<at, backend>>, UNCHANGED context,
         NEW s \in Statuses, receipt' = [receipt EXCEPT ![backend] = Failed(s)]
  PROVE  Holding
<1>1. backend = "copy" => receipt'["cow"] = receipt["cow"]
  BY FailedReceipt, ReceiptGiven DEF Base
<1> QED BY <1>1 DEF Holding, Kept, Tried, Attempting, Handling, Succeeds, context

\* A failing call.
LEMMA FaultHolds == ASSUME Base, Fault PROVE Holding
<1>1. CASE pc \in Attempting /\ Fail("fault") /\ UNCHANGED receipt
  BY <1>1 DEF Fault, Fail, Holding, Kept, Tried, Handling, Attempting
<1>2. CASE pc \in {"rollback", "recheck", "detach"} /\ Go("restore") /\ UNCHANGED receipt
  BY <1>2 DEF Fault, Go, context, Holding, Kept, Tried, Handling, Attempting, Succeeds
<1>3. CASE pc = "confirm" /\ Go("put_back") /\ UNCHANGED receipt
  BY <1>3 DEF Fault, Go, context, Holding, Kept, Tried, Handling, Attempting, Succeeds
<1>4. CASE /\ pc = "put_back" /\ unconfirmed' = unconfirmed \cup {Last} /\ pc' = "restore"
           /\ UNCHANGED <<created, staged, anonymous, failure, left, removed, todo, receipt>>
  BY <1>4 DEF Fault, Holding, Kept, Tried, Handling, Attempting, Succeeds
<1>5. CASE /\ pc = "restore" /\ Go("report")
           /\ receipt' = [receipt EXCEPT ![backend] = Failed("incomplete")]
  BY <1>5, RestoreHolds DEF Fault, Go, Statuses
<1> QED BY <1>1, <1>2, <1>3, <1>4, <1>5 DEF Fault

\* A failure is reported, and no copy follows.
LEMMA ReportHolds ==
  ASSUME Base, pc = "report", pc' = "done", UNCHANGED <<at, backend, receipt>>, UNCHANGED context
  PROVE  Holding
<1>1. receipt[backend].status # "succeeded"
  BY DEF Base, Receipted, Ended
<1> QED BY <1>1 DEF Holding, Kept, Tried, Attempting, Handling, Succeeds, context

\* A step that does not concern the tool.
LEMMA QuietHolds ==
  ASSUME Base, UNCHANGED <<at, pc, backend, receipt>>, UNCHANGED context
  PROVE  Holding
BY DEF Holding, Kept, Succeeds, Handling, context

\* Every step holds everything or moves one object, for one of these reasons.
LEMMA Moves ==
  ASSUME Base, [Next]_vars
  PROVE  \/ Holding
         \/ /\ pc = "create" /\ pc' = "identify" /\ Move(Object, <<Staging, Object>>)
            /\ staged' = "unknown"
            /\ UNCHANGED <<backend, created, left, removed, unconfirmed, receipt>>
         \/ /\ pc \in Attempting /\ pc' \in {"verify", "register"}
            /\ created < Len(Tree) /\ Free(Home(backend, Object[2]))
            /\ Move(Object, Home(backend, Object[2])) /\ created' = created + 1 /\ staged' = "no"
            /\ UNCHANGED <<backend, left, removed, unconfirmed, receipt>>
         \/ /\ pc = "cleanup" /\ pc' = "rollback" /\ staged # "no" /\ Move(Object, Nowhere)
            /\ staged' = "no" /\ left' = created
            /\ UNCHANGED <<backend, created, removed, unconfirmed, receipt>>
         \/ \E q \in todo, o \in Objects :
               /\ pc = "unlink" /\ at[o] = <<Trash, q>> /\ Move(o, Nowhere)
               /\ todo' = todo \ {q}
               /\ UNCHANGED <<pc, backend, created, left, staged, removed, unconfirmed, receipt>>
         \/ \E o \in Objects, p \in {Nowhere} \cup UserPlaces :
               /\ Move(o, p) /\ ~Staged(o) /\ meddle' = meddle + 1
               /\ at[o] = Nowhere => o \in UserFiles
               /\ p \in Places => p[1] # Staging /\ Free(p)
               /\ p = Nowhere => o \in Made
               /\ UNCHANGED <<pc, backend, created, left, staged, removed, unconfirmed, receipt>>
         \/ \E o \in Objects :
               /\ pc = "detach" /\ pc' = "confirm"
               /\ at[o] = Home(backend, Tree[left]) /\ Move(o, Quarantined)
               /\ UNCHANGED <<backend, created, left, staged, removed, unconfirmed, receipt>>
         \/ \E o \in Objects :
               /\ pc = "put_back" /\ pc' = "restore"
               /\ at[o] = Quarantined /\ Free(Home(backend, Tree[left]))
               /\ Move(o, Home(backend, Tree[left]))
               /\ UNCHANGED <<backend, created, left, staged, removed, unconfirmed, receipt>>
         \/ /\ pc = "confirm" /\ pc' = "rollback" /\ at[Last] = Quarantined
            /\ removed' = removed \cup {Last} /\ left' = left - 1
            /\ UNCHANGED <<at, backend, created, staged, unconfirmed, receipt>>
         \/ /\ pc = "report" /\ Eligible /\ RestoredBaseline(receipt["cow"]) /\ Copy
            /\ UNCHANGED <<at, receipt>>
<1> USE DEF Go, Fail, context
<1>1. CASE Begin \/ Check \/ Identify \/ Prepare \/ Verify \/ FinalSource \/ Quarantine
           \/ MacBegin \/ MacCloneFails \/ MacIdentify \/ MacRegister \/ MacFill \/ MacVerify
  BY <1>1, AttemptHolds
<1>2. CASE FinalTarget \/ MacFinalTarget
  <2>1. Holding
    BY <1>2, SuccessHolds DEF FinalTarget, MacFinalTarget, Attempting
  <2> QED BY <2>1
<1>3. CASE Create \/ MacStage
  BY <1>3 DEF Create, MacStage
<1>4. CASE Publish
  <2>1. CASE Free(Home(backend, Object[2])) /\ pc' = "verify"
    BY <1>4, <2>1 DEF Publish, Attempting, Base, Progress, Staging3
  <2>2. CASE pc' = "cleanup"
    BY <1>4, <2>2, SuccessHolds DEF Publish, Attempting
  <2> QED BY <1>4, <2>1, <2>2 DEF Publish
<1>5. CASE MacCreateInPlace
  <2>1. CASE Free(Home(backend, Object[2])) /\ pc' = "register"
    BY <1>5, <2>1 DEF MacCreateInPlace, Attempting, Base, Progress, Staging3
  <2>2. CASE pc' = "cleanup"
    BY <1>5, <2>2, SuccessHolds DEF MacCreateInPlace, Attempting
  <2> QED BY <1>5, <2>1, <2>2 DEF MacCreateInPlace
<1>6. CASE Unlink
  <2>1. CASE \E q \in todo, o \in Objects :
                /\ at[o] = <<Trash, q>> /\ Move(o, Nowhere)
                /\ todo' = todo \ {q}
                /\ UNCHANGED <<pc, created, staged, left, removed, unconfirmed, receipt>>
    BY <1>6, <2>1 DEF Unlink
  <2>2. CASE /\ UNCHANGED at
             /\ \/ pc' = "cleanup" /\ UNCHANGED receipt
                \/ pc' = "done" /\ receipt' = [receipt EXCEPT ![backend] = Succeeded]
    BY <1>6, <2>2, SuccessHolds DEF Unlink, Attempting
  <2> QED BY <1>6, <2>1, <2>2 DEF Unlink
<1>7. CASE Cleanup
  BY <1>7, CleanupHolds DEF Cleanup
<1>8. CASE MacCleanup
  <2>1. CASE staged = "no"
    BY <1>8, <2>1, CleanupHolds DEF MacCleanup
  <2>2. CASE staged # "no"
    BY <1>8, <2>2 DEF MacCleanup, Move
  <2> QED BY <2>1, <2>2
<1>9. CASE CleanupFault \/ MacCleanupFault
  BY <1>9, CleanupHolds DEF CleanupFault, MacCleanupFault
<1>10. CASE Rollback \/ MacRollback \/ MacRecheck
  BY <1>10, RollbackHolds
<1>11. CASE Detach
  <2>1. CASE pc' = "restore" /\ UNCHANGED at
    BY <1>11, <2>1 DEF Detach, Holding, Kept, Tried, Attempting, Handling, Succeeds
  <2>2. CASE pc' = "confirm"
    BY <1>11, <2>2 DEF Detach
  <2> QED BY <1>11, <2>1, <2>2 DEF Detach
<1>12. CASE Confirm
  <2>1. CASE pc' = "put_back"
    BY <1>12, <2>1 DEF Confirm, Holding, Kept, Tried, Attempting, Handling, Succeeds
  <2>2. CASE pc' = "rollback"
    BY <1>12, <2>2 DEF Confirm
  <2> QED BY <1>12, <2>1, <2>2 DEF Confirm
<1>13. CASE PutBack
  <2>1. CASE unconfirmed' = unconfirmed \cup {Last} /\ UNCHANGED at
    BY <1>13, <2>1 DEF PutBack, Holding, Kept, Tried, Attempting, Handling, Succeeds
  <2>2. CASE \E o \in Objects : at[o] = Quarantined /\ Free(Home(backend, Tree[left]))
                /\ Move(o, Home(backend, Tree[left])) /\ Go("restore")
    BY <1>13, <2>2 DEF PutBack
  <2> QED BY <1>13, <2>1, <2>2 DEF PutBack
<1>14. CASE Restore
  <2>1. PICK s \in Statuses : receipt' = [receipt EXCEPT ![backend] = Failed(s)]
    BY <1>14 DEF Restore, Statuses
  <2> QED BY <1>14, <2>1, RestoreHolds DEF Restore
<1>15. CASE Fallback
  <2>1. CASE pc' = "done" /\ UNCHANGED backend
    BY <1>15, <2>1, ReportHolds DEF Fallback, Copy
  <2>2. CASE Eligible /\ RestoredBaseline(receipt["cow"]) /\ Copy
    BY <1>15, <2>2 DEF Fallback
  <2> QED BY <1>15, <2>1, <2>2 DEF Fallback
<1>16. CASE Fault
  BY <1>16, FaultHolds
<1>17. CASE (\E e \in Entries : ChangeSource(e)) \/ (\E o \in Made : UserEdit(o)) \/ UNCHANGED vars
  BY <1>17, QuietHolds DEF ChangeSource, UserEdit, vars
<1>18. ASSUME NEW o \in Objects, NEW p \in UserPlaces, UserMove(o, p)
       PROVE  \E x \in Objects, y \in {Nowhere} \cup UserPlaces :
               /\ Move(x, y) /\ ~Staged(x) /\ meddle' = meddle + 1
               /\ at[x] = Nowhere => x \in UserFiles
               /\ y \in Places => y[1] # Staging /\ Free(y)
               /\ y = Nowhere => x \in Made
               /\ UNCHANGED <<pc, backend, created, left, staged, removed, unconfirmed, receipt>>
  <2>1. p \in Places => p[1] # Staging /\ Free(p)
    BY <1>18, PlaceKinds, ObjectKinds DEF UserMove, Open, Roots
  <2>2. p # Nowhere
    BY UserPlaceKinds
  <2>3. Move(o, p) /\ ~Staged(o) /\ meddle' = meddle + 1 /\ (at[o] = Nowhere => o \in UserFiles)
        /\ UNCHANGED <<pc, backend, created, left, staged, removed, unconfirmed, receipt>>
    BY <1>18 DEF UserMove, Touch
  <2> QED BY <2>1, <2>2, <2>3
<1>19. ASSUME NEW o \in Made, UserDelete(o)
       PROVE  /\ o \in Objects /\ Move(o, Nowhere) /\ ~Staged(o) /\ meddle' = meddle + 1
              /\ at[o] # Nowhere /\ Nowhere \notin Places
              /\ UNCHANGED <<pc, backend, created, left, staged, removed, unconfirmed, receipt>>
  BY <1>19, ObjectKinds, PlaceKinds DEF UserDelete, Touch
<1> QED BY <1>1, <1>2, <1>3, <1>4, <1>5, <1>6, <1>7, <1>8, <1>9, <1>10, <1>11, <1>12, <1>13,
           <1>14, <1>15, <1>16, <1>17, <1>18, <1>19, Steps

\* Every step keeps what is known of places,
LEMMA NextPlaces == Base /\ Base' /\ PlacesInv /\ [Next]_vars => PlacesInv'
<1> SUFFICES ASSUME Base, PlacesInv, [Next]_vars PROVE PlacesInv'
  OBVIOUS
<1>1. ASSUME NEW q \in todo, NEW o \in Objects, pc = "unlink", at[o] = <<Trash, q>>, Move(o, Nowhere),
             UNCHANGED <<pc, backend, created, left, staged, removed, unconfirmed, receipt>>
      PROVE  PlacesInv'
  <2>1. q \in Made /\ ~Staged(o) /\ at[o] # Nowhere /\ Nowhere \notin Places
    BY <1>1, ToolPlaces, PlaceKinds DEF Base, TypeInv, Staged
  <2> QED BY <1>1, <2>1, AsidePlaces
<1> QED BY <1>1, Moves, HoldingPlaces, StagePlaces, PublishPlaces, UnstagePlaces, AsidePlaces,
           DetachPlaces, PutBackPlaces, ConfirmPlaces, CopyPlaces

\* so it always holds, whatever users do.
LEMMA AlwaysPlaces == Spec => []PlacesInv
<1> QED BY InitPlaces, NextPlaces, AlwaysBase, PTL DEF Spec

(***************************************************************************)
(* Reports                                                                 *)
(***************************************************************************)

(* No step of the tool removes a user's file: what it unlinks is the staged entry,
   or is under a name in trash that leads to what was confirmed under it. *)
THEOREM StraysAlwaysSurvive == Spec => StraysSurvive
<1>1. ASSUME Base, PlacesInv, [Next]_vars
      PROVE  [\A u \in UserFiles : at[u] # Nowhere => at'[u] # Nowhere]_vars
  <2> SUFFICES ASSUME NEW u \in UserFiles, at[u] # Nowhere PROVE at'[u] # Nowhere
    OBVIOUS
  <2>1. u \in Objects /\ u \notin Made
    BY ObjectKinds
  <2>2. ASSUME NEW o \in Objects, NEW p \in Places \cup {Nowhere, Away}, Move(o, p),
               o = u => p # Nowhere
        PROVE  at'[u] # Nowhere
    BY <1>1, <2>1, <2>2, MoveMoves DEF Base
  <2>3. CASE Holding \/ UNCHANGED at
    BY <2>3 DEF Holding
  <2>4. CASE pc = "create" /\ Move(Object, <<Staging, Object>>)
    <3>1. Object \in Made /\ Object \in Objects
      BY <1>1, <2>4, CurrentObjects, ObjectKinds DEF Base, Progress
    <3>2. <<Staging, Object>> \in Places
      BY <3>1, ToolPlaces
    <3> QED BY <2>1, <2>2, <2>4, <3>1, <3>2
  <2>5. CASE created < Len(Tree) /\ Move(Object, Home(backend, Object[2]))
    <3>1. Object \in Made /\ Object \in Objects /\ Object[2] \in Entries
      BY <1>1, <2>5, CurrentObjects, ObjectKinds DEF Base
    <3>2. Home(backend, Object[2]) \in Places
      BY <1>1, <3>1, HomePlaces DEF Base, TypeInv
    <3> QED BY <2>1, <2>2, <2>5, <3>1, <3>2
  <2>6. CASE staged # "no" /\ Move(Object, Nowhere)
    <3>1. Object \in Made /\ Object \in Objects
      BY <1>1, <2>6, CurrentObjects, ObjectKinds DEF Base, Progress
    <3> QED BY <2>1, <2>2, <2>6, <3>1
  <2>7. ASSUME NEW q \in todo, NEW o \in Objects, pc = "unlink", at[o] = <<Trash, q>>, Move(o, Nowhere)
        PROVE  at'[u] # Nowhere
    <3>1. q \in Made /\ q \in Detached /\ backend = "copy"
      BY <1>1, <2>7 DEF Base, TypeInv, Receipted, Progress
    <3>2. Detached = receipt["cow"].removed /\ receipt["cow"] # NoReceipt
      BY <3>1 DEF Detached
    <3>3. unconfirmed = {} /\ removed = {} /\ ~Handling
      BY <1>1, <2>7 DEF Base, Undoing, Tried, Attempting, Handling
    <3>4. o = q
      BY <1>1, <2>7, <3>1, <3>3 DEF PlacesInv, TrashNames
    <3> QED BY <2>1, <2>2, <2>7, <3>1, <3>4
  <2>8. ASSUME NEW o \in Objects, NEW p \in {Nowhere} \cup UserPlaces, Move(o, p),
               p = Nowhere => o \in Made
        PROVE  at'[u] # Nowhere
    BY <2>1, <2>2, <2>8, UserPlaceKinds
  <2>9. ASSUME NEW o \in Objects, Move(o, Quarantined), pc = "detach" PROVE at'[u] # Nowhere
    <3>1. Last \in Made /\ Quarantined \in Places
      BY <1>1, <2>9, CurrentObjects, ToolPlaces DEF Base, Progress, Quarantined
    <3> QED BY <2>2, <2>9, <3>1, PlaceKinds
  <2>10. ASSUME NEW o \in Objects, Move(o, Home(backend, Tree[left])), pc = "put_back"
         PROVE  at'[u] # Nowhere
    <3>1. Home(backend, Tree[left]) \in Places
      BY <1>1, <2>10, CurrentObjects, HomePlaces, TreeWalk DEF Base, Progress, TypeInv
    <3> QED BY <2>2, <2>10, <3>1, PlaceKinds
  <2> QED BY <1>1, <2>3, <2>4, <2>5, <2>6, <2>7, <2>8, <2>9, <2>10, Moves
<1> QED BY <1>1, AlwaysBase, AlwaysPlaces, PTL DEF Spec, StraysSurvive

(* Whatever a generated name in trash leads to and is a user's is being put back, or
   is reported as unconfirmed. *)
THEOREM StraysAlwaysReported == Spec => []StraysAreReported
<1>1. Base /\ PlacesInv => StraysAreReported
  <2> SUFFICES ASSUME Base, PlacesInv, NEW u \in UserFiles, NEW q \in Made, at[u] = <<Trash, q>>
               PROVE  \/ pc \in {"confirm", "put_back"} /\ q = Last
                      \/ q \in unconfirmed
    BY DEF StraysAreReported
  <2>1. u \in Objects /\ u # q
    BY ObjectKinds
  <2> QED BY <2>1 DEF PlacesInv, TrashNames, Handling
<1> QED BY <1>1, AlwaysBase, AlwaysPlaces, PTL

\* The receipt of an attempt that has ended in failure, from what is known at its end.
LEMMA EndedReceipt ==
  ASSUME Base, pc = "done", ~Succeeds
  PROVE  /\ receipt[backend] # NoReceipt
         /\ receipt[backend].removed = removed /\ receipt[backend].unconfirmed = unconfirmed
         /\ receipt[backend].remaining = Standing /\ receipt[backend].staging = StagedSet
<1>1. Ended /\ Standing = Pub(backend, left)
  BY DEF Ended, Succeeds, Standing, Kept, Tried, Attempting
<1>2. receipt[backend].status \in Statuses /\ receipt[backend].status # "none"
      /\ receipt[backend] = Failed(receipt[backend].status)
  BY <1>1 DEF Base, Receipted, Statuses
<1> QED BY <1>1, <1>2, FailedReceipt, ReceiptKinds DEF Base

(* A failure reports every object it made that still exists, and every one that the
   clone before it made. *)
THEOREM NothingEverUnreported == Spec => []NothingUnreported
<1>1. Base /\ PlacesInv => NothingUnreported
  <2> SUFFICES ASSUME Base, PlacesInv, pc = "done", ~Succeeds,
                      NEW o \in Made, at[o] # Nowhere
               PROVE  o \in Reported(o[1])
    BY DEF NothingUnreported
  <2>1. CASE o[1] = backend /\ o \in Standing \cup removed \cup unconfirmed \cup StagedSet
    BY <2>1, EndedReceipt DEF Reported
  <2>2. CASE o[1] # backend /\ backend = "copy" /\ o \in Detached
    <3>1. o[1] = "cow"
      BY <2>2, ObjectKinds DEF Backends
    <3> QED BY <2>2, <3>1 DEF Reported, Detached
  <2> QED BY <2>1, <2>2 DEF PlacesInv, Accounted
<1> QED BY <1>1, AlwaysBase, AlwaysPlaces, PTL

(***************************************************************************)
(* Success                                                                 *)
(***************************************************************************)

Looked == (pc \in {"quarantine", "unlink"} \/ Succeeds) /\ seen = meddle

\* A step after which the last look still holds is that look, or comes after it and
\* does no more than unlink something under a generated name in trash.
LEMMA LookSteps ==
  ASSUME Base, Base', [Next]_vars, Looked'
  PROVE  \/ /\ Matches(created) /\ SameManifest /\ created = Len(Tree)
            /\ UNCHANGED <<at, data, snap, backend, platform>>
            /\ Succeeds' => ~(platform = "linux" /\ backend = "copy")
         \/ /\ Looked /\ UNCHANGED <<at, data, snap, backend, platform>>
            /\ (Succeeds' => Succeeds \/ In(Trash) = {})
         \/ /\ Looked /\ ~Succeeds' /\ UNCHANGED <<data, snap, backend, platform>>
            /\ \E q \in Made, o \in Objects : at[o] = <<Trash, q>> /\ Move(o, Nowhere)
<1> USE DEF Go, Fail, context
<1>0. pc' \in {"quarantine", "unlink", "done"} /\ seen' = meddle' /\ seen <= meddle
      /\ seen \in Nat /\ meddle \in Nat
  BY DEF Looked, Succeeds, Base, TypeInv
<1>1. CASE UNCHANGED vars
  BY <1>1 DEF vars, Looked, Succeeds
<1>2. CASE FinalTarget \/ (MacFinalTarget /\ platform = "macos")
  <2>1. pc = "final_target" /\ pc' # "cleanup" /\ UNCHANGED <<at, data, snap, backend, platform>>
    BY <1>0, <1>2 DEF FinalTarget, MacFinalTarget
  <2>2. Matches(created) /\ SameManifest /\ created = Len(Tree)
    BY <1>2, <2>1 DEF FinalTarget, MacFinalTarget, MacMatches, MacSameManifest, Base, Progress
  <2>3. FinalTarget /\ pc' = "done" => backend = "cow"
    BY <1>2, <2>1 DEF FinalTarget
  <2> QED BY <1>0, <1>2, <2>1, <2>2, <2>3 DEF Succeeds
<1>3. CASE Quarantine
  BY <1>0, <1>3 DEF Quarantine, Looked, Succeeds
<1>4. CASE Unlink
  <2>1. UNCHANGED <<data, snap, backend, platform, seen, meddle>> /\ pc = "unlink"
    BY <1>4 DEF Unlink
  <2>2. Looked
    BY <1>0, <2>1 DEF Looked
  <2>3. CASE \E q \in todo, o \in Objects : at[o] = <<Trash, q>> /\ Move(o, Nowhere) /\ UNCHANGED pc
    <3>1. \E q \in Made, o \in Objects : at[o] = <<Trash, q>> /\ Move(o, Nowhere)
      BY <2>3 DEF Base, TypeInv
    <3>2. ~Succeeds'
      BY <2>1, <2>3 DEF Succeeds
    <3> QED BY <2>1, <2>2, <3>1, <3>2
  <2>4. CASE In(Trash) = {} /\ UNCHANGED at
    BY <2>1, <2>2, <2>4
  <2>5. CASE pc' = "cleanup"
    BY <1>0, <2>5
  <2> QED BY <1>4, <2>3, <2>4, <2>5 DEF Unlink
<1>5. CASE Fallback
  <2>1. pc' = "done" /\ pc = "report" /\ UNCHANGED <<receipt, backend>>
    BY <1>0, <1>5 DEF Fallback, Copy
  <2>2. ~Succeeds'
    BY <2>1 DEF Succeeds, Base, Receipted, Ended
  <2> QED BY <2>1, <2>2 DEF Looked
<1>6. ASSUME NEW e \in Entries, ChangeSource(e) PROVE Looked /\ UNCHANGED <<at, data, snap, backend, platform>>
                                                      /\ (Succeeds' => Succeeds)
  BY <1>6 DEF ChangeSource, Looked, Succeeds
<1>7. ASSUME Touch, UNCHANGED seen PROVE FALSE
  BY <1>0, <1>7 DEF Touch
<1> QED
  <2>1. pc' \in {"quarantine", "unlink", "done"}
    BY <1>0
  <2>2. ~(Begin \/ Create \/ Identify \/ Prepare \/ Verify \/ Cleanup \/ Rollback \/ CleanupFault)
    BY <2>1 DEF Begin, Create, Identify, Prepare, Verify, Cleanup, Rollback, CleanupFault
  <2>3. ~(MacBegin \/ MacStage \/ MacCloneFails \/ MacIdentify \/ MacCreateInPlace \/ MacRegister
          \/ MacFill \/ MacVerify \/ MacCleanup \/ MacRollback \/ MacRecheck \/ MacCleanupFault)
    BY <2>1 DEF MacBegin, MacStage, MacCloneFails, MacIdentify, MacCreateInPlace, MacRegister,
                MacFill, MacVerify, MacCleanup, MacRollback, MacRecheck, MacCleanupFault
  <2>4. ~(Check \/ Publish \/ FinalSource \/ Detach \/ Confirm \/ PutBack \/ Restore \/ Fault)
    BY <2>1 DEF Check, Publish, FinalSource, Detach, Confirm, PutBack, Restore, Fault
  <2>5. \A o \in Objects, p \in UserPlaces : ~UserMove(o, p)
    BY <1>7 DEF UserMove
  <2>6. \A o \in Made : ~(UserDelete(o) \/ UserEdit(o))
    BY <1>7 DEF UserDelete, UserEdit
  <2> QED BY <1>1, <1>2, <1>3, <1>4, <1>5, <1>6, <2>2, <2>3, <2>4, <2>5, <2>6, Steps

\* What is unlinked from trash was not looked at in the target.
LEMMA MatchesKept ==
  ASSUME TypeInv, OneObjectAName, NEW q \in Made, NEW o \in Objects, at[o] = <<Trash, q>>,
         Move(o, Nowhere), UNCHANGED backend, NEW n \in 0..Len(Tree), Matches(n)
  PROVE  Matches(n)'
<1>1. Published(n)' = Published(n) /\ Published(n) \subseteq Made /\ Made \subseteq Objects
  <2>1. Pub(backend, n) \subseteq Made
    BY PubSteps DEF TypeInv
  <2> QED BY <2>1, PublishedIsPub, ObjectKinds DEF Published
<1>2. /\ at' \in [Objects -> Places \cup {Nowhere, Away}] /\ at'[o] = Nowhere
      /\ \A x \in Objects : x # o => at'[x] = at[x]
  BY MoveMoves
<1>3. ASSUME NEW x \in Published(n) PROVE at'[x] = Home(backend, x[2])
  <2>1. x \in Made /\ x[2] \in Entries /\ at[x] = Home(backend, x[2])
    BY <1>1, ObjectKinds DEF Matches
  <2>2. x # o
    BY <2>1, HomePlaces DEF TypeInv
  <2> QED BY <1>1, <1>2, <2>1, <2>2
<1>4. ASSUME NEW c PROVE In(c)' \subseteq In(c)
  BY <1>2, PlaceKinds DEF In
<1>5. \A x : Home(backend, x)' = Home(backend, x)
  BY DEF Home, Container
<1> QED BY <1>1, <1>3, <1>4, <1>5 DEF Matches

\* The last look stays true until a user acts,
LEMMA NextLook == Base /\ Base' /\ PlacesInv /\ LookHolds /\ [Next]_vars => LookHolds'
<1> SUFFICES ASSUME Base, Base', PlacesInv, LookHolds, [Next]_vars, Looked'
             PROVE  /\ Matches(Len(Tree))' /\ SameManifest'
                    /\ Succeeds' /\ platform' = "linux" /\ backend' = "copy" => In(Trash)' = {}
  BY DEF LookHolds, Looked
<1>1. ASSUME UNCHANGED <<at, backend>>
      PROVE  (\A n : Matches(n)' = Matches(n)) /\ In(Trash)' = In(Trash)
  BY <1>1 DEF Matches, Published, In, Home, Container
<1>2. ASSUME UNCHANGED <<data, snap, backend>> PROVE SameManifest' = SameManifest
  BY <1>2 DEF SameManifest
<1>3. Looked => /\ Matches(Len(Tree)) /\ SameManifest
                /\ Succeeds /\ platform = "linux" /\ backend = "copy" => In(Trash) = {}
  BY DEF Looked, LookHolds
<1>4. CASE /\ Matches(created) /\ SameManifest /\ created = Len(Tree)
           /\ UNCHANGED <<at, data, snap, backend, platform>>
           /\ Succeeds' => ~(platform = "linux" /\ backend = "copy")
  BY <1>1, <1>2, <1>4
<1>5. CASE /\ Looked /\ UNCHANGED <<at, data, snap, backend, platform>>
           /\ (Succeeds' => Succeeds \/ In(Trash) = {})
  BY <1>1, <1>2, <1>3, <1>5
<1>6. CASE /\ Looked /\ ~Succeeds' /\ UNCHANGED <<data, snap, backend, platform>>
           /\ \E q \in Made, o \in Objects : at[o] = <<Trash, q>> /\ Move(o, Nowhere)
  <2>1. Len(Tree) \in 0..Len(Tree)
    BY TreeWalk
  <2>2. Matches(Len(Tree))'
    BY <1>3, <1>6, <2>1, MatchesKept DEF Base, PlacesInv
  <2> QED BY <1>2, <1>3, <1>6, <2>2
<1> QED BY <1>4, <1>5, <1>6, LookSteps

\* from the look to the end of the call.
LEMMA AlwaysLook == Spec => []LookHolds
<1>1. Init => LookHolds
  BY DEF Init, LookHolds, Succeeds
<1> QED BY <1>1, NextLook, AlwaysBase, AlwaysPlaces, PTL DEF Spec

(* A success that no user action follows: the target is the snapshot, object by object
   and with its contents; staging is empty; trash is, too, but for what macOS leaves
   there of a clone. *)
THEOREM SuccessAlwaysExact == Spec => []SuccessIsExact
<1>1. Base /\ PlacesInv /\ LookHolds => SuccessIsExact
  <2> SUFFICES ASSUME Base, PlacesInv, LookHolds, Succeeds, seen = meddle
               PROVE  /\ Matches(Len(Tree)) /\ SameManifest /\ In(Staging) = {}
                      /\ In(Trash) \cap Made
                           \subseteq (IF platform = "linux" THEN {} ELSE receipt["cow"].removed)
    BY DEF SuccessIsExact
  <2>1. Matches(Len(Tree)) /\ SameManifest
    BY DEF LookHolds
  <2>2. staged = "no" /\ created = Len(Tree) /\ removed = {} /\ unconfirmed = {}
    BY DEF Base, Receipted
  <2>3. In(Staging) = {}
    BY <2>2 DEF In, PlacesInv, StagingIsOurs
  <2>4. ASSUME NEW o \in Made, o \in In(Trash)
        PROVE  platform # "linux" /\ o \in receipt["cow"].removed
    <3>1. at[o] \in Places /\ at[o][1] = Trash /\ at[o] # Nowhere /\ o \in Objects
      BY <2>4, PlaceKinds DEF In
    <3>2. o \notin Standing
      <4> SUFFICES ASSUME o \in Standing PROVE FALSE
        OBVIOUS
      <4>1. o \in Published(Len(Tree))
        BY <2>2, PublishedIsPub DEF Standing, Kept
      <4>2. at[o] = Home(backend, o[2]) /\ o[2] \in Entries
        BY <2>1, <4>1, ObjectKinds DEF Matches
      <4> QED BY <3>1, <4>2, HomePlaces DEF Base, TypeInv
    <3>3. o[1] # backend /\ backend = "copy" /\ o \in Detached
      BY <2>2, <3>1, <3>2 DEF PlacesInv, Accounted, StagedSet
    <3>4. platform # "linux"
      BY <2>4, <3>3 DEF LookHolds
    <3> QED BY <3>3, <3>4 DEF Detached
  <2> QED BY <2>1, <2>3, <2>4
<1> QED BY <1>1, AlwaysBase, AlwaysPlaces, AlwaysLook, PTL

(***************************************************************************)
(* Where users stay out                                                    *)
(***************************************************************************)

\* Users are counted; the rest of a step is the tool's.
LEMMA MeddleGrows ==
  ASSUME Base, [Next]_vars
  PROVE  meddle' \in {meddle, meddle + 1}
<1> QED
  BY Steps DEF Begin, Create, Identify, Prepare, Verify, FinalTarget, Quarantine, Unlink, Cleanup,
     Rollback, CleanupFault, MacBegin, MacStage, MacCloneFails, MacIdentify, MacCreateInPlace,
     MacRegister, MacFill, MacVerify, MacFinalTarget, MacCleanup, MacRollback, MacRecheck,
     MacCleanupFault, Check, Publish, FinalSource, Detach, Confirm, PutBack, Restore, Fallback,
     Fault, ChangeSource, UserMove, UserDelete, UserEdit, Touch, vars

\* Before the clearing of trash, which the label "unlink" is.
Clearing == Attempting \ {"unlink"}

\* It begins with all that the clone detached, and goes on until the attempt ends; an
\* attempt that has got so far or has failed does not begin again.
LEMMA ClearingSteps ==
  ASSUME Base, [Next]_vars, backend = "copy"
  PROVE  /\ pc' \in Clearing => pc \in Clearing
         /\ pc' = "unlink" => \/ pc = "quarantine" /\ UNCHANGED at /\ todo' = Detached
                              \/ pc = "unlink" /\ UNCHANGED todo
                              \/ /\ pc = "unlink"
                                 /\ \E q \in todo, o \in Objects :
                                       /\ at[o] = <<Trash, q>> /\ Move(o, Nowhere)
                                       /\ todo' = todo \ {q}
         /\ pc = "unlink" /\ pc' # "unlink" => UNCHANGED at /\ pc' \notin Attempting
         /\ backend' = "copy"
<1> USE DEF Go, Fail, context, Clearing, Attempting
<1>1. CASE \/ Begin \/ Create \/ Identify \/ Prepare \/ Verify \/ FinalTarget \/ Check \/ Publish
           \/ FinalSource \/ Cleanup \/ Rollback \/ CleanupFault
  BY <1>1 DEF Begin, Create, Identify, Prepare, Verify, FinalTarget, Check, Publish, FinalSource,
              Cleanup, Rollback, CleanupFault
<1>2. CASE Quarantine
  BY <1>2 DEF Quarantine, Detached
<1>3. CASE Unlink
  BY <1>3 DEF Unlink
<1>4. CASE \/ MacBegin \/ MacStage \/ MacCloneFails \/ MacIdentify \/ MacCreateInPlace \/ MacRegister
           \/ MacFill \/ MacVerify \/ MacFinalTarget \/ MacCleanup \/ MacRollback \/ MacRecheck
           \/ MacCleanupFault
  BY <1>4 DEF MacBegin, MacStage, MacCloneFails, MacIdentify, MacCreateInPlace, MacRegister, MacFill,
              MacVerify, MacFinalTarget, MacCleanup, MacRollback, MacRecheck, MacCleanupFault
<1>5. CASE Detach \/ Confirm \/ PutBack \/ Restore \/ Fallback \/ Fault
  BY <1>5 DEF Detach, Confirm, PutBack, Restore, Fallback, Eligible, Fault
<1>6. CASE \/ UNCHANGED vars
           \/ \E e \in Entries : ChangeSource(e)
           \/ \E o \in Objects, place \in UserPlaces : UserMove(o, place)
           \/ \E o \in Made : UserDelete(o) \/ UserEdit(o)
  BY <1>6 DEF vars, ChangeSource, UserMove, UserDelete, UserEdit
<1> QED BY <1>1, <1>2, <1>3, <1>4, <1>5, <1>6, Steps

\* Where users stay out: they have put nothing anywhere, what is published is where it
\* was published, and what is detached is in trash.
InPlaceOnly ==
  /\ \A u \in UserFiles : at[u] = Nowhere
  /\ \A o \in Standing \ unconfirmed :
        at[o] = IF Handling /\ o = Last THEN <<Trash, o>> ELSE Home(backend, o[2])
  /\ \A o \in removed \cup unconfirmed : at[o] = <<Trash, o>>

\* What a clone detached is in trash until it is unlinked.
ClearedInTurn ==
  backend = "copy" => \A o \in Detached :
     \/ at[o] = <<Trash, o>> /\ (pc = "unlink" => o \in todo)
     \/ at[o] = Nowhere /\ pc \notin Clearing /\ (pc = "unlink" => o \notin todo)

\* Untouched is about what the attempt made and about what the clone before it left.
LEMMA UntouchedParts == Untouched <=> (meddle = 0 => InPlaceOnly /\ ClearedInTurn)
BY DEF Untouched, InPlaceOnly, ClearedInTurn, Clearing

\* What stands, is detached or is unconfirmed.
LEMMA PartsKinds ==
  ASSUME Base
  PROVE  /\ Standing \subseteq Made /\ removed \subseteq Made /\ unconfirmed \subseteq Made
         /\ Detached \subseteq Made /\ Made \subseteq Objects
         /\ \A o \in Standing : o[1] = backend /\ o[2] \in Entries
         /\ \A e \in Entries : Home(backend, e)' = Home(backend', e)
         /\ Handling => Last \in Standing /\ unconfirmed = {}
         /\ staged # "no" => Object \in Made /\ Object[1] = backend /\ Object \notin Standing
<1>1. Kept \in 0..Len(Tree) /\ backend \in Backends /\ Kept \in {left, created}
  BY CurrentObjects DEF Base, TypeInv, Kept
<1>2. Standing \subseteq Made /\ \A o \in Standing : o[1] = backend /\ o[2] \in Entries
  <2>1. Standing \subseteq Made /\ \A o \in Standing : o[1] = backend
    BY <1>1, PubSteps DEF Standing
  <2> QED BY <2>1, ObjectKinds
<1>3. Detached \subseteq Made
  BY DEF Detached, Base, TypeInv, Backends, Receipts
<1>4. Handling => Last \in Standing /\ unconfirmed = {}
  <2> SUFFICES ASSUME Handling PROVE Last \in Standing /\ unconfirmed = {}
    OBVIOUS
  <2>1. Kept = left /\ left > 0 /\ left \in Index
    BY CurrentObjects DEF Handling, Kept, Tried, Attempting, Succeeds, Base, Progress
  <2>2. left <= left
    BY CurrentObjects DEF Base
  <2> QED BY <1>1, <2>1, <2>2, PubSteps DEF Standing, Last, Handling, Base, Undoing, Rolling
<1>5. staged # "no" => Object \in Made /\ Object[1] = backend /\ Object \notin Standing
  <2> SUFFICES ASSUME staged # "no"
               PROVE  Object \in Made /\ Object[1] = backend /\ Object \notin Standing
    OBVIOUS
  <2>1. created < Len(Tree) /\ created + 1 \in Index /\ Object \in Made /\ Object[1] = backend
    BY CurrentObjects DEF Base, Progress
  <2>2. ~(created + 1 <= Kept)
    BY <1>1, CurrentObjects DEF Base
  <2> QED BY <1>1, <2>1, <2>2, PubSteps DEF Standing, Object
<1> QED BY <1>2, <1>3, <1>4, <1>5, ObjectKinds DEF Base, TypeInv, Home, Container

\* A step that moves nothing leaves it in place.
LEMMA HoldingInPlace ==
  ASSUME Base, Holding, InPlaceOnly PROVE InPlaceOnly'
<1>2. Standing' = Standing /\ UNCHANGED <<at, backend, removed>>
  BY DEF Holding, Standing
<1>3. \A o \in Standing : Home(backend, o[2])' = Home(backend, o[2])
  BY <1>2 DEF Home, Container
<1>4. CASE ~Handling /\ ~Handling' /\ UNCHANGED unconfirmed
  BY <1>2, <1>3, <1>4 DEF InPlaceOnly
<1>5. CASE Handling /\ Handling' /\ UNCHANGED <<left, unconfirmed>>
  BY <1>2, <1>3, <1>5 DEF InPlaceOnly, Last
<1>6. CASE Handling /\ ~Handling' /\ UNCHANGED left /\ unconfirmed' = unconfirmed \cup {Last}
  <2>1. Last \in Standing /\ unconfirmed = {}
    BY <1>6, PartsKinds
  <2>2. at[Last] = <<Trash, Last>>
    BY <1>6, <2>1 DEF InPlaceOnly
  <2> QED BY <1>2, <1>3, <1>6, <2>1, <2>2 DEF InPlaceOnly
<1> QED BY <1>4, <1>5, <1>6 DEF Holding

\* What is at a name that users did not touch is what was published or detached there.
LEMMA NamesKeepTheirs ==
  ASSUME Base, PlacesInv, InPlaceOnly
  PROVE  /\ pc = "detach" => at[Last] = Home(backend, Tree[left])
                             /\ \A o \in Objects : at[o] = Home(backend, Tree[left]) => o = Last
         /\ Handling => at[Last] = Quarantined
                        /\ \A o \in Objects : at[o] = Quarantined => o = Last
         /\ Handling \/ pc = "detach" => /\ Last \in Made /\ Last \in Objects /\ left \in Index
                                         /\ left \in 0..Len(Tree) /\ left > 0
                                         /\ Quarantined \in Places /\ Quarantined = <<Trash, Last>>
                                         /\ Home(backend, Tree[left]) \in Places
                                         /\ Last[2] = Tree[left] /\ Last \in Standing
                                         /\ unconfirmed = {} /\ Kept = left
<1>1. ASSUME Handling \/ pc = "detach"
      PROVE  /\ Last \in Made /\ Last \in Objects /\ left \in Index /\ left \in 0..Len(Tree)
             /\ left > 0 /\ Last[2] = Tree[left]
             /\ Quarantined \in Places /\ Quarantined = <<Trash, Last>>
             /\ Home(backend, Tree[left]) \in Places
             /\ Last \in Standing /\ unconfirmed = {} /\ Kept = left
  <2>1. /\ Last \in Made /\ Last \in Objects /\ left \in Index /\ left > 0 /\ Last[2] = Tree[left]
        /\ Tree[left] \in Entries
    BY <1>1, CurrentObjects, ObjectKinds, TreeWalk DEF Base, Progress, Handling, Last, TypeInv
  <2>2. Kept = left /\ unconfirmed = {}
    BY <1>1 DEF Handling, Kept, Tried, Attempting, Succeeds, Base, Undoing, Rolling
  <2>3. left \in 0..Len(Tree) /\ left <= left /\ backend \in Backends
    BY <2>1, TreeWalk DEF Index, Base, TypeInv
  <2>4. Last \in Standing
    BY <2>1, <2>2, <2>3, PubSteps DEF Standing, Last
  <2> QED BY <2>1, <2>2, <2>3, <2>4, ToolPlaces, HomePlaces DEF Quarantined
<1>2. pc = "detach" => at[Last] = Home(backend, Tree[left])
  BY <1>1 DEF InPlaceOnly, Handling
<1>3. Handling => at[Last] = Quarantined
  BY <1>1 DEF InPlaceOnly
<1> QED BY <1>1, <1>2, <1>3 DEF PlacesInv, OneObjectAName

\* Every step of the tool leaves its own objects where it put them.
LEMMA NextInPlace ==
  ASSUME Base, PlacesInv, InPlaceOnly, [Next]_vars, meddle' = meddle
  PROVE  InPlaceOnly'
<1>1. /\ \A u \in UserFiles : u \in Objects /\ u \notin Made
      /\ \A o \in Standing : o \in Objects /\ o \in Made
      /\ \A o \in removed \cup unconfirmed : o \in Objects /\ o \in Made
  BY PartsKinds, ObjectKinds
<1>2. \A e : UNCHANGED backend => Home(backend, e)' = Home(backend, e)
  BY DEF Home, Container
<1>3. pc \in Tried => removed = {} /\ unconfirmed = {} /\ ~Handling /\ Kept = created
  BY DEF Base, Undoing, Tried, Handling, Attempting, Kept
<1>4. CASE Holding
  BY <1>4, HoldingInPlace
<1>5. CASE /\ pc = "create" /\ pc' = "identify" /\ Move(Object, <<Staging, Object>>)
           /\ staged' = "unknown"
           /\ UNCHANGED <<backend, created, left, removed, unconfirmed, receipt>>
  <2>1. /\ created < Len(Tree) /\ Object \in Made /\ Object \in Objects
        /\ <<Staging, Object>> \in Places
    BY <1>5, CurrentObjects, ObjectKinds, ToolPlaces DEF Base, Progress
  <2>2. pc \in Tried /\ Standing' = Standing /\ ~Handling' /\ Standing = Pub(backend, created)
    BY <1>5 DEF Standing, Kept, Tried, Attempting, Handling
  <2>3. Object \notin Standing
    BY <2>1, <2>2, PubSteps DEF Object, Base, TypeInv
  <2>4. at'[Object] = <<Staging, Object>> /\ \A x \in Objects : x # Object => at'[x] = at[x]
    BY <1>5, <2>1, MoveMoves DEF Base
  <2> QED BY <1>1, <1>2, <1>3, <1>5, <2>1, <2>2, <2>3, <2>4 DEF InPlaceOnly
<1>6. CASE /\ pc \in Attempting /\ pc' \in {"verify", "register"}
           /\ created < Len(Tree) /\ Free(Home(backend, Object[2]))
           /\ Move(Object, Home(backend, Object[2])) /\ created' = created + 1 /\ staged' = "no"
           /\ UNCHANGED <<backend, left, removed, unconfirmed, receipt>>
  <2>1. /\ Object \in Made /\ Object \in Objects /\ Home(backend, Object[2]) \in Places
    BY <1>6, CurrentObjects, ObjectKinds, HomePlaces DEF Base, TypeInv
  <2>2. pc \in Tried /\ Standing = Pub(backend, created) /\ ~Handling'
        /\ Standing' = Pub(backend, created + 1)
    BY <1>6 DEF Standing, Kept, Tried, Attempting, Handling
  <2>3. Standing' = Standing \cup {Object} /\ Object \notin Standing
    BY <1>6, <2>2, PubSteps DEF Object, Base, TypeInv
  <2>4. /\ at'[Object] = Home(backend, Object[2])
        /\ \A x \in Objects : x # Object => at'[x] = at[x]
    BY <1>6, <2>1, MoveMoves DEF Base
  <2> QED BY <1>1, <1>2, <1>3, <1>6, <2>1, <2>2, <2>3, <2>4 DEF InPlaceOnly
<1>7. CASE /\ pc = "cleanup" /\ pc' = "rollback" /\ staged # "no" /\ Move(Object, Nowhere)
           /\ staged' = "no" /\ left' = created
           /\ UNCHANGED <<backend, created, removed, unconfirmed, receipt>>
  <2>1. Object \in Made /\ Object \in Objects /\ Object \notin Standing
    BY <1>7, PartsKinds
  <2>2. pc \in Tried /\ Standing' = Standing /\ ~Handling'
    BY <1>7 DEF Standing, Kept, Tried, Attempting, Handling, Succeeds
  <2>3. \A x \in Objects : x # Object => at'[x] = at[x]
    BY <1>7, <2>1, MoveMoves DEF Base
  <2> QED BY <1>1, <1>2, <1>3, <1>7, <2>1, <2>2, <2>3 DEF InPlaceOnly
<1>8. ASSUME NEW q \in todo, NEW o \in Objects, pc = "unlink", at[o] = <<Trash, q>>, Move(o, Nowhere),
             UNCHANGED <<pc, backend, created, left, staged, removed, unconfirmed, receipt>>
      PROVE  InPlaceOnly'
  <2>1. pc \in Tried /\ Standing' = Standing /\ ~Handling' /\ q \in Made
    BY <1>8 DEF Standing, Kept, Tried, Attempting, Handling, Base, TypeInv
  <2>2. at'[o] = Nowhere /\ \A x \in Objects : x # o => at'[x] = at[x]
    BY <1>8, MoveMoves DEF Base
  <2>3. o \notin Standing
    BY <1>3, <1>8, <2>1, PartsKinds, HomePlaces DEF InPlaceOnly, Base, TypeInv
  <2> QED BY <1>1, <1>2, <1>3, <1>8, <2>1, <2>2, <2>3 DEF InPlaceOnly
<1>9. ASSUME NEW o \in Objects, pc = "detach", pc' = "confirm",
             at[o] = Home(backend, Tree[left]), Move(o, Quarantined),
             UNCHANGED <<backend, created, left, staged, removed, unconfirmed, receipt>>
      PROVE  InPlaceOnly'
  <2>1. o = Last /\ Quarantined \in Places /\ Quarantined = <<Trash, Last>> /\ unconfirmed = {}
        /\ Kept = left /\ Last \in Standing
    BY <1>9, NamesKeepTheirs
  <2>2. at'[Last] = <<Trash, Last>> /\ \A x \in Objects : x # Last => at'[x] = at[x]
    BY <1>9, <2>1, MoveMoves DEF Base
  <2>3. Standing' = Standing /\ Handling' /\ ~Handling /\ Last' = Last /\ Last \notin removed
    BY <1>9, <2>1 DEF Standing, Kept, Tried, Attempting, Succeeds, Handling, Last, Base, Undoing
  <2>4. Last \notin UserFiles
    BY <2>1, <1>1
  <2> QED BY <1>1, <1>2, <1>9, <2>1, <2>2, <2>3, <2>4 DEF InPlaceOnly
<1>10. ASSUME NEW o \in Objects, pc = "put_back", pc' = "restore",
              at[o] = Quarantined, Move(o, Home(backend, Tree[left])),
              UNCHANGED <<backend, created, left, staged, removed, unconfirmed, receipt>>
       PROVE  InPlaceOnly'
  <2>0. Handling
    BY <1>10 DEF Handling
  <2>1. o = Last /\ Home(backend, Tree[left]) \in Places /\ unconfirmed = {} /\ Last[2] = Tree[left]
        /\ Kept = left /\ Last \in Standing
    BY <1>10, <2>0, NamesKeepTheirs
  <2>2. at'[Last] = Home(backend, Last[2]) /\ \A x \in Objects : x # Last => at'[x] = at[x]
    BY <1>10, <2>1, MoveMoves DEF Base
  <2>3. Standing' = Standing /\ ~Handling' /\ Last \notin removed
    BY <1>10, <2>1 DEF Standing, Kept, Tried, Attempting, Succeeds, Handling, Base, Undoing
  <2>4. Last \notin UserFiles
    BY <2>1, <1>1
  <2> QED BY <1>1, <1>2, <1>10, <2>1, <2>2, <2>3, <2>4 DEF InPlaceOnly
<1>11. CASE /\ pc = "confirm" /\ pc' = "rollback" /\ at[Last] = Quarantined
            /\ removed' = removed \cup {Last} /\ left' = left - 1
            /\ UNCHANGED <<at, backend, created, staged, unconfirmed, receipt>>
  <2>0. Handling /\ ~Handling'
    BY <1>11 DEF Handling
  <2>1. Quarantined = <<Trash, Last>> /\ unconfirmed = {} /\ Kept = left /\ left \in 0..Len(Tree)
        /\ left > 0
    BY <2>0, NamesKeepTheirs
  <2>2. Standing' = Pub(backend, left - 1) /\ Standing = Pub(backend, left)
    BY <1>11, <2>1 DEF Standing, Kept, Tried, Attempting, Succeeds
  <2>3. Standing' \subseteq Standing /\ Last \notin Standing'
    <3>1. backend \in Backends
      BY DEF Base, TypeInv
    <3>2. /\ Pub(backend, left) = Pub(backend, left - 1) \cup {Last}
          /\ Last \notin Pub(backend, left - 1)
      BY <3>1, <2>1, PubSteps DEF Last
    <3> QED BY <2>2, <3>2
  <2> QED BY <1>2, <1>11, <2>0, <2>1, <2>3 DEF InPlaceOnly
<1>12. CASE pc = "report" /\ Eligible /\ RestoredBaseline(receipt["cow"]) /\ Copy /\ UNCHANGED <<at, receipt>>
  <2>1. Standing' = {} /\ removed' = {} /\ unconfirmed' = {}
    <3>1. created' = 0 /\ pc' = "begin" /\ backend' = "copy"
      BY <1>12 DEF Copy
    <3>2. Kept' = 0 /\ backend' \in Backends /\ 0 \in 0..Len(Tree)
      BY <3>1, TreeWalk DEF Kept, Tried, Attempting, Backends
    <3>3. Pub(backend', 0) = {}
      BY <3>2, PubSteps
    <3> QED BY <1>12, <3>2, <3>3 DEF Copy, Standing
  <2> QED BY <1>12, <2>1 DEF InPlaceOnly
<1>13. meddle \in Nat
  BY DEF Base, TypeInv
<1> QED BY <1>4, <1>5, <1>6, <1>7, <1>8, <1>9, <1>10, <1>11, <1>12, <1>13, Moves

\* An attempt detaches its own objects; before a copy that was a clone.
ClonesDetached ==
  /\ \A q \in removed : q[1] = backend
  /\ backend = "copy" => \A q \in Detached : q[1] = "cow"

\* What a clone has left when a copy follows it.
LEMMA CloneLeft ==
  ASSUME Base, pc = "report", Eligible, Copy, UNCHANGED receipt
  PROVE  Detached' = removed /\ backend = "cow" /\ backend' = "copy" /\ pc' = "begin" /\ removed' = {}
<1>1. backend = "cow" /\ pc' = "begin" /\ backend' = "copy" /\ removed' = {}
  BY DEF Eligible, Copy
<1>2. receipt["cow"] = Failed(receipt["cow"].status) /\ receipt["cow"].status \in Statuses
      /\ receipt["cow"].status # "none"
  BY <1>1 DEF Base, Receipted, Ended, Statuses
<1>3. receipt["cow"].removed = removed /\ receipt["cow"] # NoReceipt
  BY <1>2, FailedReceipt, ReceiptKinds DEF Base
<1> QED BY <1>1, <1>3 DEF Detached

\* This always holds.
LEMMA AlwaysClones == Spec => []ClonesDetached
<1>1. Init => ClonesDetached
  <2>1. Init => Detached = {}
    BY DEF Init, Backends, Detached
  <2> QED BY <2>1 DEF Init, ClonesDetached
<1>2. Base /\ ClonesDetached /\ [Next]_vars => ClonesDetached'
  <2> SUFFICES ASSUME Base, ClonesDetached, [Next]_vars PROVE ClonesDetached'
    OBVIOUS
  <2>1. CASE pc = "report" /\ Eligible /\ Copy /\ UNCHANGED receipt
    BY <2>1, CloneLeft DEF ClonesDetached
  <2>2. CASE UNCHANGED backend /\ UNCHANGED removed /\ (backend = "copy" => receipt'["cow"] = receipt["cow"])
    BY <2>2 DEF ClonesDetached, Detached
  <2>3. CASE pc = "confirm" /\ removed' = removed \cup {Last} /\ UNCHANGED <<backend, receipt>>
    BY <2>3, CurrentObjects DEF ClonesDetached, Detached, Base, Progress
  <2> QED BY <2>1, <2>2, <2>3, Moves DEF Holding
<1> QED BY <1>1, <1>2, AlwaysBase, PTL DEF Spec

\* Where users stay out, what a clone detached stays where it is until it is unlinked.
LEMMA DetachedStay ==
  ASSUME Base, PlacesInv, ClonesDetached, InPlaceOnly, [Next]_vars, meddle' = meddle,
         backend = "copy"
  PROVE  /\ Detached' = Detached
         /\ \/ \A q \in Detached : at'[q] = at[q]
            \/ \E q \in todo, o \in Objects :
                  /\ pc = "unlink" /\ pc' = "unlink" /\ at[o] = <<Trash, q>> /\ Move(o, Nowhere)
                  /\ todo' = todo \ {q}
<1>1. \A q \in Detached : q[1] # backend /\ q \in Objects
  BY PartsKinds DEF ClonesDetached
<1>2. Detached' = Detached
  BY Moves DEF Holding, Eligible, Detached
<1>3. ASSUME NEW o \in Made, o \in Objects, o[1] = backend,
             NEW p \in Places \cup {Nowhere, Away}, Move(o, p)
      PROVE  \A q \in Detached : at'[q] = at[q]
  BY <1>1, <1>3, MoveMoves DEF Base
<1>4. CASE Holding \/ UNCHANGED at
  BY <1>2, <1>4 DEF Holding
<1>5. CASE pc = "create" /\ Move(Object, <<Staging, Object>>)
  BY <1>2, <1>3, <1>5, CurrentObjects, ObjectKinds, ToolPlaces DEF Base, Progress
<1>6. CASE created < Len(Tree) /\ Move(Object, Home(backend, Object[2]))
  BY <1>2, <1>3, <1>6, CurrentObjects, ObjectKinds, HomePlaces DEF Base, TypeInv
<1>7. CASE staged # "no" /\ Move(Object, Nowhere)
  BY <1>2, <1>3, <1>7, CurrentObjects, ObjectKinds DEF Base, Progress
<1>8. ASSUME NEW o \in Objects, pc = "detach", at[o] = Home(backend, Tree[left]), Move(o, Quarantined)
      PROVE  \A q \in Detached : at'[q] = at[q]
  <2>1. o = Last /\ Last \in Made /\ Last[1] = backend /\ Quarantined \in Places
    BY <1>8, NamesKeepTheirs, PartsKinds
  <2> QED BY <1>3, <1>8, <2>1
<1>9. ASSUME NEW o \in Objects, pc = "put_back", at[o] = Quarantined,
             Move(o, Home(backend, Tree[left]))
      PROVE  \A q \in Detached : at'[q] = at[q]
  <2>1. o = Last /\ Last \in Made /\ Last[1] = backend /\ Home(backend, Tree[left]) \in Places
    BY <1>9, NamesKeepTheirs, PartsKinds DEF Handling
  <2> QED BY <1>3, <1>9, <2>1
<1>10. meddle \in Nat
  BY DEF Base, TypeInv
<1> QED BY <1>2, <1>4, <1>5, <1>6, <1>7, <1>8, <1>9, <1>10, Moves DEF Eligible

\* Every step leaves what the clone detached where it was, but for the unlinking.
LEMMA NextCleared ==
  ASSUME Base, Base', PlacesInv, ClonesDetached, InPlaceOnly, ClearedInTurn, [Next]_vars, meddle' = meddle
  PROVE  ClearedInTurn'
<1> SUFFICES ASSUME backend' = "copy" PROVE ClearedInTurn'
  BY DEF ClearedInTurn
<1>1. CASE pc = "report" /\ Eligible /\ RestoredBaseline(receipt["cow"]) /\ Copy /\ UNCHANGED <<at, receipt>>
  <2>1. backend = "cow" /\ pc' = "begin"
    BY <1>1 DEF Eligible, Copy
  <2>2. Detached' = removed
    BY <1>1, CloneLeft
  <2> QED BY <1>1, <2>1, <2>2 DEF ClearedInTurn, InPlaceOnly
<1>2. ASSUME backend = "copy" PROVE ClearedInTurn'
  <2> DEFINE OneUnlinked == \E q \in todo, o \in Objects :
               /\ pc = "unlink" /\ pc' = "unlink" /\ at[o] = <<Trash, q>> /\ Move(o, Nowhere)
               /\ todo' = todo \ {q}
  <2>1. \A q \in Detached : q \in Made /\ q[1] # backend /\ q \in Objects
    BY <1>2, PartsKinds DEF ClonesDetached
  <2>2. Detached' = Detached
    BY <1>2, DetachedStay
  <2>3. CASE OneUnlinked
    <3>1. PICK q \in todo, o \in Objects :
             /\ pc = "unlink" /\ pc' = "unlink" /\ at[o] = <<Trash, q>> /\ Move(o, Nowhere)
             /\ todo' = todo \ {q}
      BY <2>3
    <3>2. q \in Detached /\ q \in Made /\ q[1] # backend
      BY <2>1, <3>1 DEF Base, Receipted
    <3>3. o = q
      BY <3>1, <3>2 DEF PlacesInv, TrashNames
    <3>4. at'[q] = Nowhere /\ \A x \in Objects : x # q => at'[x] = at[x]
      BY <3>1, <3>3, MoveMoves DEF Base
    <3> QED BY <1>2, <2>1, <2>2, <3>1, <3>4 DEF ClearedInTurn, Clearing
  <2>4. CASE ~OneUnlinked
    <3>1. \A q \in Detached : at'[q] = at[q]
      BY <1>2, <2>4, DetachedStay
    <3>2. pc' = "unlink" => \/ pc = "quarantine" /\ todo' = Detached
                            \/ pc = "unlink" /\ UNCHANGED todo
      BY <1>2, <2>4, ClearingSteps
    <3>3. pc' \in Clearing => pc \in Clearing
      BY <1>2, ClearingSteps
    <3>4. "quarantine" \in Clearing
      BY DEF Clearing, Attempting
    <3> QED BY <1>2, <2>2, <3>1, <3>2, <3>3, <3>4 DEF ClearedInTurn
  <2> QED BY <2>3, <2>4
<1> QED BY <1>1, <1>2, Moves DEF Holding

\* Where users stay out, everything is where the tool put it.
LEMMA AlwaysUntouched == Spec => []Untouched
<1>1. Init => Untouched
  <2> SUFFICES ASSUME Init PROVE InPlaceOnly /\ ClearedInTurn
    BY UntouchedParts
  <2>1. \A u \in UserFiles : at[u] = Nowhere
    BY ObjectKinds DEF Init
  <2>2. Detached = {} /\ removed = {} /\ unconfirmed = {}
    BY DEF Init, Backends, Detached
  <2>3. Standing = {}
    <3>1. Kept = 0 /\ backend \in Backends /\ 0 \in 0..Len(Tree)
      BY TreeWalk DEF Init, Kept, Tried, Attempting, Backends
    <3> QED BY <3>1, PubSteps DEF Standing
  <2> QED BY <2>1, <2>2, <2>3 DEF InPlaceOnly, ClearedInTurn
<1>2. Base /\ Base' /\ PlacesInv /\ ClonesDetached /\ Untouched /\ [Next]_vars => Untouched'
  <2> SUFFICES ASSUME Base, Base', PlacesInv, ClonesDetached, Untouched, [Next]_vars, meddle' = 0
               PROVE  InPlaceOnly' /\ ClearedInTurn'
    BY UntouchedParts DEF Untouched, InPlaceOnly, ClearedInTurn, Clearing
  <2>1. meddle = 0 /\ meddle' = meddle
    BY MeddleGrows DEF Base, TypeInv
  <2>2. InPlaceOnly /\ ClearedInTurn
    BY <2>1, UntouchedParts
  <2> QED BY <2>1, <2>2, NextInPlace, NextCleared
<1> QED BY <1>1, <1>2, AlwaysBase, AlwaysPlaces, AlwaysClones, PTL DEF Spec

(* Where users stay out of target and trash, each object is where the receipts say. *)
THEOREM ReportAlwaysExact == Spec => []ReportIsExact
<1>1. Base /\ PlacesInv /\ Untouched => ReportIsExact
  <2> SUFFICES ASSUME Base, PlacesInv, Untouched, pc = "done", ~Succeeds, meddle = 0, NEW o \in Made
               PROVE  LET r == receipt[o[1]]
                      IN  IF r = NoReceipt THEN at[o] = Nowhere
                          ELSE /\ o \in r.removed =>
                                     at[o] = <<Trash, o>> \/ (o[1] # backend /\ at[o] = Nowhere)
                               /\ o \in r.unconfirmed => at[o] = <<Trash, o>>
                               /\ o \in r.remaining \ r.unconfirmed => at[o] = Home(o[1], o[2])
                               /\ o \in r.staging => at[o] = <<Staging, o>>
                               /\ o \notin Reported(o[1]) => at[o] = Nowhere
    BY DEF ReportIsExact
  <2>1. InPlaceOnly /\ ClearedInTurn /\ ~Handling
    BY UntouchedParts DEF Handling
  <2>2. at[o] # Nowhere => \/ o[1] = backend /\ o \in Standing \cup removed \cup unconfirmed \cup StagedSet
                           \/ o[1] # backend /\ backend = "copy" /\ o \in Detached
    BY DEF PlacesInv, Accounted
  <2>3. CASE o[1] = backend
    <3>1. o \in removed \cup unconfirmed => at[o] = <<Trash, o>>
      BY <2>1 DEF InPlaceOnly
    <3>2. o \in Standing \ unconfirmed => at[o] = Home(o[1], o[2])
      BY <2>1, <2>3 DEF InPlaceOnly
    <3>3. o \in StagedSet => at[o] = <<Staging, o>>
      BY DEF PlacesInv, StagingIsOurs, StagedSet
    <3> QED BY <2>2, <2>3, <3>1, <3>2, <3>3, EndedReceipt DEF Reported
  <2>4. CASE o[1] # backend
    <3>1. (o[1] = "cow" /\ backend = "copy") \/ (o[1] = "copy" /\ backend = "cow")
      BY <2>4, ObjectKinds DEF Base, TypeInv, Backends
    <3>2. CASE o[1] = "copy" /\ backend = "cow"
      BY <2>2, <3>2 DEF Base, Receipted
    <3>3. CASE o[1] = "cow" /\ backend = "copy"
      <4>1. CASE receipt["cow"] = NoReceipt
        BY <2>2, <3>3, <4>1 DEF Detached
      <4>2. CASE receipt["cow"] # NoReceipt
        <5>1. RestoredBaseline(receipt["cow"]) /\ Detached = receipt["cow"].removed
          BY <3>3, <4>2 DEF Base, Receipted, Detached
        <5>2. o \in Detached => at[o] = <<Trash, o>> \/ at[o] = Nowhere
          BY <2>1, <3>3 DEF ClearedInTurn
        <5> QED BY <2>2, <3>3, <4>2, <5>1, <5>2 DEF RestoredBaseline, Reported
      <4> QED BY <4>1, <4>2
    <3> QED BY <3>1, <3>2, <3>3
  <2> QED BY <2>3, <2>4
<1> QED BY <1>1, AlwaysBase, AlwaysPlaces, AlwaysUntouched, PTL

(***************************************************************************)
(* A failure that comes alone                                              *)
(***************************************************************************)

\* Where users stay out, all there is outside staging and trash is what stands.
LEMMA OnlyStanding ==
  ASSUME Base, PlacesInv, InPlaceOnly, ClearedInTurn, NEW c, c # Staging, c # Trash, NEW x \in In(c)
  PROVE  /\ x \in Standing \ unconfirmed /\ ~(Handling /\ x = Last)
         /\ at[x] = Home(backend, x[2]) /\ at[x][1] = c
<1>1. x \in Objects /\ at[x] \in Places /\ at[x][1] = c /\ at[x] # Nowhere
  BY PlaceKinds DEF In
<1>2. x \in Made /\ x \notin UserFiles
  BY <1>1, ObjectKinds DEF InPlaceOnly
<1>3. at[x] # <<Trash, x>> /\ at[x] # <<Staging, x>>
  BY <1>1, <1>2, ToolPlaces
<1>4. x \notin removed \cup unconfirmed
  BY <1>3 DEF InPlaceOnly
<1>5. x \notin StagedSet
  BY <1>3 DEF StagedSet, PlacesInv, StagingIsOurs
<1>6. ~(backend = "copy" /\ x \in Detached)
  BY <1>1, <1>3 DEF ClearedInTurn
<1>7. x \in Standing
  BY <1>1, <1>2, <1>4, <1>5, <1>6 DEF PlacesInv, Accounted
<1> QED BY <1>1, <1>3, <1>4, <1>7 DEF InPlaceOnly

\* The target then holds what stands, and nothing else.
LEMMA StandingMatches ==
  ASSUME Base, PlacesInv, InPlaceOnly, ClearedInTurn, ~Handling, unconfirmed = {}
  PROVE  Matches(Kept)
<1>1. Published(Kept) = Standing
  BY PublishedIsPub DEF Standing
<1>2. \A o \in Standing : at[o] = Home(backend, o[2])
  BY DEF InPlaceOnly
<1>3. \A c \in {Target} \cup (Standing \cap MadeDirs) : c # Staging /\ c # Trash
  BY PlaceKinds, ObjectKinds DEF Roots
<1>4. \A c \in {Target} \cup (Standing \cap MadeDirs) : In(c) \subseteq Standing
  BY <1>3, OnlyStanding
<1> QED BY <1>1, <1>2, <1>4 DEF Matches

\* What was published last has nothing in it: entries come after their directories.
LEMMA LastIsEmpty ==
  ASSUME Base, PlacesInv, InPlaceOnly, ClearedInTurn, Handling
  PROVE  In(Last) = {}
<1> SUFFICES ASSUME NEW x \in In(Last) PROVE FALSE
  OBVIOUS
<1>1. /\ Last \in Made /\ left \in Index /\ left \in 0..Len(Tree) /\ Kept = left /\ left \in Nat
      /\ backend \in Backends
  BY NamesKeepTheirs, CurrentObjects DEF Base, TypeInv
<1>2. Last # Staging /\ Last # Trash /\ Last # Target
  BY <1>1, ObjectKinds DEF Roots
<1>3. x \in Standing /\ at[x] = Home(backend, x[2]) /\ at[x][1] = Last
  BY <1>2, OnlyStanding
<1>4. PICK j \in 1..left : x = <<backend, Tree[j]>>
  BY <1>1, <1>3 DEF Standing, Pub
<1>5. j \in Index /\ Tree[j] \in Entries /\ x[2] = Tree[j]
  BY <1>1, <1>4, TreeWalk DEF Index
<1>6. Container(backend, Tree[j]) = Last
  BY <1>1, <1>3, <1>5, HomePlaces
<1>7. ParentOf[Tree[j]] # "root" /\ ParentOf[Tree[j]] = Tree[left]
  BY <1>1, <1>2, <1>5, <1>6, HomePlaces DEF Last
<1>8. PICK i \in 1..(j - 1) : i \in Index /\ ParentOf[Tree[j]] = Tree[i]
  BY <1>5, <1>7, ParentsFirst
<1>9. i = left
  BY <1>1, <1>7, <1>8, TreeWalk
<1> QED BY <1>1, <1>4, <1>8, <1>9

\* A failing call is counted.
FaultsCount == failure = "fault" => faults > 0

\* This always holds.
LEMMA AlwaysFaultsCount == Spec => []FaultsCount
<1>1. Init => FaultsCount
  BY DEF Init, FaultsCount
<1>2. Base /\ FaultsCount /\ [Next]_vars => FaultsCount'
  <2> SUFFICES ASSUME Base, FaultsCount, [Next]_vars PROVE FaultsCount'
    OBVIOUS
  <2>0. faults \in Nat
    BY DEF Base, TypeInv
  <2>1. CASE \/ Begin \/ Create \/ Identify \/ Prepare \/ Verify \/ FinalTarget \/ Check \/ Publish
             \/ FinalSource \/ Cleanup \/ Rollback \/ Quarantine \/ Unlink
    BY <2>1 DEF Begin, Create, Identify, Prepare, Verify, FinalTarget, Check, Publish, FinalSource,
                Cleanup, Rollback, Quarantine, Unlink, FaultsCount, Go, Fail, context
  <2>2. CASE \/ MacBegin \/ MacStage \/ MacCloneFails \/ MacIdentify \/ MacCreateInPlace \/ MacRegister
             \/ MacFill \/ MacVerify \/ MacFinalTarget \/ MacCleanup \/ MacRollback \/ MacRecheck
    BY <2>2 DEF MacBegin, MacStage, MacCloneFails, MacIdentify, MacCreateInPlace, MacRegister, MacFill,
                MacVerify, MacFinalTarget, MacCleanup, MacRollback, MacRecheck, FaultsCount, Go, Fail,
                context, Reason
  <2>3. CASE Detach \/ Confirm \/ PutBack \/ Restore \/ Fallback
    BY <2>3 DEF Detach, Confirm, PutBack, Restore, Fallback, Copy, FaultsCount, Go, context
  <2>4. CASE \/ UNCHANGED vars
             \/ \E e \in Entries : ChangeSource(e)
             \/ \E o \in Objects, place \in UserPlaces : UserMove(o, place)
             \/ \E o \in Made : UserDelete(o) \/ UserEdit(o)
    BY <2>4 DEF vars, ChangeSource, UserMove, UserDelete, UserEdit, FaultsCount, context
  <2>5. CASE Fault \/ CleanupFault \/ MacCleanupFault
    BY <2>0, <2>5 DEF Fault, CleanupFault, MacCleanupFault, FaultsCount
  <2> QED BY <2>1, <2>2, <2>3, <2>4, <2>5, Steps
<1> QED BY <1>1, <1>2, AlwaysBase, PTL DEF Spec

\* What leads a rollback to its end, or from there, when nothing else fails.
LEMMA CalmSteps ==
  ASSUME Base, [Next]_vars, FaultsCount, meddle = 0, Calm', pc' \in {"put_back", "restore", "report"}
  PROVE  /\ Calm
         /\ \/ UNCHANGED <<pc, left, created, anonymous, backend, receipt>>
            \/ /\ pc = "rollback" /\ pc' = "restore" /\ UNCHANGED <<left, anonymous>>
               /\ left = 0 \/ ~Matches(left) \/ anonymous
            \/ pc = "recheck" /\ at[Last] # Home(backend, Tree[left])
            \/ pc = "detach" /\ \A o \in Objects : at[o] # Home(backend, Tree[left])
            \/ pc = "confirm" /\ ~(at[Last] = Quarantined /\ In(Last) = {})
            \/ pc = "put_back"
            \/ /\ pc = "restore" /\ pc' = "report"
               /\ UNCHANGED <<left, created, anonymous, backend>>
               /\ receipt' = [receipt EXCEPT ![backend] =
                                 Failed(IF created = 0 THEN "not_needed"
                                        ELSE IF left = 0 /\ Matches(0) THEN "confirmed"
                                        ELSE "incomplete")]
<1> USE DEF Go, Fail, context
<1>0. faults \in Nat /\ meddle \in Nat
  BY DEF Base, TypeInv
<1>1. CASE \/ Begin \/ Create \/ Identify \/ Prepare \/ Verify \/ FinalTarget \/ Check \/ Publish
           \/ FinalSource \/ Cleanup \/ CleanupFault \/ Quarantine \/ Unlink
  BY <1>1 DEF Begin, Create, Identify, Prepare, Verify, FinalTarget, Check, Publish, FinalSource,
              Cleanup, CleanupFault, Quarantine, Unlink
<1>2. CASE \/ MacBegin \/ MacStage \/ MacCloneFails \/ MacIdentify \/ MacCreateInPlace \/ MacRegister
           \/ MacFill \/ MacVerify \/ MacFinalTarget \/ MacCleanup \/ MacCleanupFault
  BY <1>2 DEF MacBegin, MacStage, MacCloneFails, MacIdentify, MacCreateInPlace, MacRegister, MacFill,
              MacVerify, MacFinalTarget, MacCleanup, MacCleanupFault
<1>3. CASE Rollback \/ MacRollback \/ MacRecheck
  <2>1. Calm
    BY <1>3 DEF Rollback, MacRollback, MacRecheck, Calm
  <2> QED BY <1>3, <2>1 DEF Rollback, MacRollback, MacRecheck, MacMatches
<1>4. CASE Detach \/ Confirm \/ PutBack
  <2>1. Calm
    BY <1>4 DEF Detach, Confirm, PutBack, Calm
  <2> QED BY <1>4, <2>1 DEF Detach, Confirm, PutBack
<1>5. CASE Restore
  <2>1. Calm
    BY <1>5 DEF Restore, Calm
  <2> QED BY <1>5, <2>1 DEF Restore
<1>6. CASE Fallback
  BY <1>6 DEF Fallback, Copy
<1>7. CASE Fault
  <2>1. pc' # "cleanup" => failure' = failure
    BY <1>7 DEF Fault
  <2>2. faults' = faults + 1 /\ failure' = failure
    BY <1>7, <2>1 DEF Fault
  <2> QED BY <1>0, <2>2 DEF Calm, FaultsCount
<1>8. CASE \/ UNCHANGED vars
           \/ \E e \in Entries : ChangeSource(e)
           \/ \E o \in Objects, place \in UserPlaces : UserMove(o, place)
           \/ \E o \in Made : UserDelete(o) \/ UserEdit(o)
  BY <1>8 DEF vars, ChangeSource, UserMove, UserDelete, UserEdit, Calm
<1> QED BY <1>1, <1>2, <1>3, <1>4, <1>5, <1>6, <1>7, <1>8, Steps

\* A failure that comes alone: nothing is put back, everything is detached.
CalmEnds ==
  meddle = 0 /\ Calm =>
    /\ pc # "put_back"
    /\ ~anonymous /\ pc \in {"restore", "report"} => left = 0
    /\ pc = "report" => (receipt[backend].status = "incomplete" <=> anonymous)

\* This always holds: with everything in place, no look of the rollback fails.
LEMMA AlwaysCalmEnds == Spec => []CalmEnds
<1>1. Init => CalmEnds
  BY DEF Init, CalmEnds
<1>2. /\ Base /\ Base' /\ PlacesInv /\ Untouched /\ FaultsCount /\ CalmEnds /\ [Next]_vars
      => CalmEnds'
  <2> SUFFICES ASSUME Base, Base', PlacesInv, Untouched, FaultsCount, CalmEnds, [Next]_vars,
                      meddle' = 0, Calm', pc' \in {"put_back", "restore", "report"}
               PROVE  /\ pc' # "put_back"
                      /\ ~anonymous' => left' = 0
                      /\ pc' = "report" => (receipt'[backend'].status = "incomplete" <=> anonymous')
    BY DEF CalmEnds
  <2>1. meddle = 0
    BY MeddleGrows DEF Base, TypeInv
  <2>2. Calm
    BY <2>1, CalmSteps
  <2>3. InPlaceOnly /\ ClearedInTurn
    BY <2>1, UntouchedParts
  <2>4. CASE UNCHANGED <<pc, left, created, anonymous, backend, receipt>>
    BY <2>1, <2>2, <2>4 DEF CalmEnds
  <2>5. CASE /\ pc = "rollback" /\ pc' = "restore" /\ UNCHANGED <<left, anonymous>>
             /\ left = 0 \/ ~Matches(left) \/ anonymous
    <3>1. ~Handling /\ unconfirmed = {} /\ Kept = left
      BY <2>5 DEF Handling, Kept, Tried, Attempting, Succeeds, Base, Undoing, Rolling
    <3> QED BY <2>3, <2>5, <3>1, StandingMatches
  <2>6. pc # "recheck" \/ at[Last] = Home(backend, Tree[left])
    <3> SUFFICES ASSUME pc = "recheck" PROVE at[Last] = Home(backend, Tree[left])
      OBVIOUS
    <3>1. /\ Last \in Made /\ left \in Index /\ left \in 0..Len(Tree) /\ Kept = left /\ ~Handling
          /\ unconfirmed = {} /\ backend \in Backends /\ left <= left /\ Last[2] = Tree[left]
      BY CurrentObjects, TreeWalk, ObjectKinds
         DEF Base, Progress, Handling, Kept, Tried, Attempting, Succeeds, Undoing, Rolling, TypeInv,
             Last, Index
    <3>2. Last \in Standing
      BY <3>1, PubSteps DEF Standing, Last
    <3> QED BY <2>3, <3>1, <3>2 DEF InPlaceOnly
  <2>7. ~(pc = "detach" /\ \A o \in Objects : at[o] # Home(backend, Tree[left]))
    BY <2>3, NamesKeepTheirs
  <2>8. ~(pc = "confirm" /\ ~(at[Last] = Quarantined /\ In(Last) = {}))
    BY <2>3, NamesKeepTheirs, LastIsEmpty DEF Handling
  <2>9. pc # "put_back"
    BY <2>1, <2>2 DEF CalmEnds
  <2>10. CASE /\ pc = "restore" /\ pc' = "report"
              /\ UNCHANGED <<left, created, anonymous, backend>>
              /\ receipt' = [receipt EXCEPT ![backend] =
                                Failed(IF created = 0 THEN "not_needed"
                                       ELSE IF left = 0 /\ Matches(0) THEN "confirmed"
                                       ELSE "incomplete")]
    <3> DEFINE status == IF created = 0 THEN "not_needed"
                         ELSE IF left = 0 /\ Matches(0) THEN "confirmed" ELSE "incomplete"
    <3>1. status \in Statuses
      BY DEF Statuses
    <3>2. receipt'[backend'].status = status
      <4>1. Failed(status) \in Receipts /\ Failed(status).status = status
        BY <3>1, FailedReceipt DEF Base
      <4>2. receipt' = [receipt EXCEPT ![backend] = Failed(status)] /\ backend' = backend
        BY <2>10
      <4> HIDE DEF status
      <4> QED BY <4>1, <4>2, ReceiptGiven DEF Base
    <3>3. ASSUME ~anonymous PROVE left = 0 /\ status # "incomplete"
      <4>1. left = 0
        BY <2>1, <2>2, <2>10, <3>3 DEF CalmEnds
      <4>2. unconfirmed = {} /\ ~Handling /\ Kept = left
        BY <2>10, <4>1 DEF Base, Undoing, Handling, Kept, Tried, Attempting, Succeeds
      <4>3. Matches(0)
        BY <2>3, <4>1, <4>2, StandingMatches
      <4> QED BY <4>1, <4>3
    <3>4. ASSUME anonymous PROVE status = "incomplete"
      <4>1. created > 0 /\ left = created /\ left # 0
        BY <2>10, <3>4, CurrentObjects DEF Base, Progress, Kept, Tried, Attempting, Succeeds
      <4> QED BY <4>1, CurrentObjects DEF Base
    <3> QED BY <2>10, <3>2, <3>3, <3>4
  <2> QED BY <2>1, <2>4, <2>5, <2>6, <2>7, <2>8, <2>9, <2>10, CalmSteps
<1> QED BY <1>1, <1>2, AlwaysBase, AlwaysPlaces, AlwaysUntouched, AlwaysFaultsCount, PTL DEF Spec

(* A failure that comes alone leaves the target empty and is confirmed; the exception is
   a file of macOS that could not be identified, which the receipt lists with all that
   came before it. *)
THEOREM RollbackAlwaysRestores == Spec => []RollbackRestores
<1>1. Base /\ PlacesInv /\ Untouched /\ CalmEnds => RollbackRestores
  <2> SUFFICES ASSUME Base, PlacesInv, Untouched, CalmEnds, pc = "report", meddle = 0, Calm
               PROVE  LET r == receipt[backend]
                      IN  /\ In(Staging) = r.staging /\ In(Target) \subseteq r.remaining
                          /\ r.status = "incomplete" <=> anonymous
                          /\ r.remaining = IF anonymous THEN Published(created) ELSE {}
    BY DEF RollbackRestores, Calm
  <2>1. InPlaceOnly /\ ClearedInTurn /\ ~Handling /\ Kept = left
    BY UntouchedParts DEF Handling, Kept, Tried, Attempting, Succeeds
  <2>2. Ended /\ receipt[backend].status \in Statuses
    BY DEF Ended, Base, Receipted, Statuses
  <2>3. receipt[backend].staging = StagedSet /\ receipt[backend].remaining = Standing
    BY <2>1, <2>2, FailedReceipt DEF Base, Receipted, Standing
  <2>4. In(Staging) = StagedSet
    <3>1. staged # "no" => Object \in Objects /\ <<Staging, Object>> \in Places
                           /\ <<Staging, Object>>[1] = Staging
      BY PartsKinds, ToolPlaces
    <3> QED BY <3>1 DEF In, StagedSet, PlacesInv, StagingIsOurs
  <2>5. In(Target) \subseteq Standing
    BY <2>1, OnlyStanding, PlaceKinds
  <2>6. Standing = IF anonymous THEN Published(created) ELSE {}
    <3>1. Pub(backend, 0) = {}
      BY TreeWalk, PubSteps DEF Base, TypeInv
    <3>2. anonymous => left = created
      BY <2>1 DEF Base, Progress
    <3> QED BY <2>1, <3>1, <3>2, PublishedIsPub DEF CalmEnds, Standing
  <2> QED BY <2>3, <2>4, <2>5, <2>6 DEF CalmEnds
<1> QED BY <1>1, AlwaysBase, AlwaysPlaces, AlwaysUntouched, AlwaysCalmEnds, PTL

(***************************************************************************)
(* Where nothing happens                                                   *)
(***************************************************************************)

\* Control: the only failure is a clone that is unavailable, and nothing stays staged.
QuietControl ==
  /\ \A e \in Entries : snap[e] = 0
  /\ failure \in {"none", "cow_unavailable"} /\ (failure # "none" => backend = "cow")
  /\ pc \notin Attempting => failure = "cow_unavailable" \/ Succeeds
  /\ anonymous => pc = "register"
  /\ staged = "unknown" => pc = "identify"
  /\ pc \notin Tried => staged = "no"
  /\ pc = "done" => Succeeds \/ ~AllowFullCopy

\* Contents: what is published is what the source holds, once it has been filled.
QuietData ==
  /\ \A o \in Objects : data[o] # Edited
  /\ \A o \in Pub(backend, created) : data[o] = 0 \/ (pc \in {"register", "fill"} /\ o = Newest)
  /\ staged # "no" => data[Object] = 0

\* What the steps may count on where nothing happens.
QuietNow ==
  /\ Base /\ PlacesInv /\ ClonesDetached /\ InPlaceOnly /\ ClearedInTurn /\ CalmEnds
  /\ Undisturbed /\ QuietControl /\ QuietData

\* Nothing that happens is undone.
LEMMA QuietBefore ==
  ASSUME Base, Base', [Next]_vars, Undisturbed'
  PROVE  Undisturbed /\ UNCHANGED <<src, faults, meddle>>
<1>0. meddle \in Nat /\ faults \in Nat /\ src \in [Entries -> {0, 1}] /\ meddle' = 0 /\ faults' = 0
      /\ \A e \in Entries : src'[e] = 0
  BY DEF Base, TypeInv, Undisturbed
<1>1. meddle = 0
  BY <1>0, MeddleGrows
<1>2. CASE faults' = faults /\ UNCHANGED src
  BY <1>0, <1>1, <1>2 DEF Undisturbed
<1>3. CASE Fault \/ CleanupFault \/ MacCleanupFault
  BY <1>0, <1>3 DEF Fault, CleanupFault, MacCleanupFault
<1>4. ASSUME NEW e \in Entries, ChangeSource(e) PROVE FALSE
  BY <1>0, <1>4 DEF ChangeSource
<1>5. ASSUME ~(Fault \/ CleanupFault \/ MacCleanupFault)
      PROVE  faults' = faults /\ UNCHANGED src
  BY <1>4, <1>5, Steps DEF Begin, Create, Identify, Prepare, Verify, FinalTarget, Quarantine, Unlink,
     Cleanup, Rollback, MacBegin, MacStage, MacCloneFails, MacIdentify, MacCreateInPlace,
     MacRegister, MacFill, MacVerify, MacFinalTarget, MacCleanup, MacRollback, MacRecheck,
     Check, Publish, FinalSource, Detach, Confirm, PutBack, Restore, Fallback,
     UserMove, UserDelete, UserEdit, vars
<1> QED BY <1>2, <1>3, <1>5

\* The source is the snapshot.
LEMMA QuietSource == ASSUME QuietNow PROVE snap = src /\ \A e \in Entries : src[e] = 0 /\ snap[e] = 0
<1>1. src \in [Entries -> {0, 1}] /\ snap \in [Entries -> {0, 1}]
  BY DEF QuietNow, Base, TypeInv
<1>2. \A e \in Entries : src[e] = 0 /\ snap[e] = 0
  BY DEF QuietNow, Undisturbed, QuietControl
<1> QED BY <1>1, <1>2

\* The directory an entry goes to is there, and the name is free.
LEMMA RoomForNext ==
  ASSUME QuietNow, pc \in Attempting, created < Len(Tree)
  PROVE  Free(Home(backend, Object[2]))
<1>1. /\ created + 1 \in Index /\ Object \in Made /\ Object[2] \in Entries /\ Object[1] = backend
      /\ created \in 0..Len(Tree) /\ created \in Nat /\ backend \in Backends
  BY CurrentObjects DEF QuietNow, Base, TypeInv
<1>2. Object[2] = Tree[created + 1]
  BY DEF Object
<1>3. ~Handling /\ Kept = created /\ unconfirmed = {}
  BY DEF Handling, Attempting, Kept, Tried, QuietNow, Base, Undoing
<1>4. Object \notin Standing
  BY <1>1, <1>3, PubSteps DEF Standing, Object
<1>5. ASSUME NEW o \in Objects, at[o] = Home(backend, Object[2]) PROVE FALSE
  <2>1. /\ at[o] \in Places /\ at[o][1] = Container(backend, Object[2])
        /\ at[o][1] # Trash /\ at[o][1] # Staging
    BY <1>1, <1>5, HomePlaces
  <2>2. o \in In(at[o][1])
    BY <2>1 DEF In
  <2>3. o \in Standing /\ at[o] = Home(backend, o[2])
    BY <2>1, <2>2, OnlyStanding DEF QuietNow
  <2>4. o[2] \in Entries /\ o[1] = backend /\ o \in Made
    BY <2>3, PartsKinds DEF QuietNow
  <2>5. o[2] = Object[2]
    BY <1>1, <1>5, <2>3, <2>4, HomePlaces
  <2>6. o = Object
    BY <1>1, <2>4, <2>5, ObjectKinds
  <2> QED BY <1>4, <2>3, <2>6
<1>6. ASSUME Home(backend, Object[2])[1] \in MadeDirs
      PROVE  at[Home(backend, Object[2])[1]] # Nowhere
  <2>1. Container(backend, Object[2]) # Target /\ Home(backend, Object[2])[1] = Container(backend, Object[2])
    BY <1>1, <1>6, HomePlaces, ObjectKinds DEF Roots
  <2>2. ParentOf[Object[2]] # "root" /\ Container(backend, Object[2]) = <<backend, ParentOf[Object[2]]>>
    BY <1>1, <2>1, HomePlaces
  <2>3. PICK i \in 1..((created + 1) - 1) : i \in Index /\ ParentOf[Tree[created + 1]] = Tree[i]
    BY <1>1, <1>2, <2>2, ParentsFirst
  <2>4. i <= created /\ Tree[i] \in Entries
    BY <1>1, <2>3, TreeWalk
  <2>5. <<backend, Tree[i]>> \in Standing /\ <<backend, Tree[i]>>[2] = Tree[i]
    BY <1>1, <1>3, <2>3, <2>4, PubSteps DEF Standing
  <2>6. at[<<backend, Tree[i]>>] = Home(backend, Tree[i])
    BY <1>3, <2>5 DEF QuietNow, InPlaceOnly
  <2> QED BY <1>1, <1>2, <2>1, <2>2, <2>3, <2>4, <2>6, HomePlaces
<1> QED BY <1>5, <1>6 DEF Free

\* What was published last is where it was published.
LEMMA NewestInPlace ==
  ASSUME QuietNow, pc \in Attempting, created > 0
  PROVE  at[Newest] = Home(backend, Newest[2]) /\ Newest = <<backend, Tree[created]>>
         /\ Newest[2] = Tree[created] /\ Newest \in Pub(backend, created)
<1>1. /\ created \in Index /\ created \in 0..Len(Tree) /\ created <= created /\ backend \in Backends
  BY CurrentObjects DEF QuietNow, Base, TypeInv
<1>2. ~Handling /\ Kept = created /\ unconfirmed = {}
  BY DEF Handling, Attempting, Kept, Tried, QuietNow, Base, Undoing
<1>3. Newest \in Standing /\ Newest = <<backend, Tree[created]>> /\ Newest \in Pub(backend, created)
  BY <1>1, <1>2, PubSteps DEF Standing, Newest
<1> QED BY <1>2, <1>3 DEF QuietNow, InPlaceOnly

\* Staging holds nothing when nothing is staged, and target nothing when nothing stands.
LEMMA EmptyRoots ==
  ASSUME QuietNow, pc = "begin"
  PROVE  /\ In(Target) = {} /\ In(Staging) = {}
         /\ backend = "cow" => In(Trash) = {}
<1>1. /\ ~Handling /\ Kept = 0 /\ unconfirmed = {} /\ removed = {} /\ staged = "no"
      /\ backend \in Backends /\ 0 \in 0..Len(Tree)
  BY TreeWalk DEF Handling, Attempting, Kept, Tried, QuietNow, Base, Undoing, Progress, Staging3, TypeInv
<1>2. Standing = {} /\ StagedSet = {}
  BY <1>1, PubSteps DEF Standing, StagedSet
<1>3. In(Target) = {}
  BY <1>2, OnlyStanding, PlaceKinds DEF QuietNow
<1>4. In(Staging) = {}
  BY <1>1 DEF In, QuietNow, PlacesInv, StagingIsOurs
<1>5. ASSUME backend = "cow", NEW o \in In(Trash) PROVE FALSE
  <2>1. o \in Objects /\ at[o] \in Places /\ at[o] # Nowhere
    BY PlaceKinds DEF In
  <2>2. o \in Made
    BY <2>1, ObjectKinds DEF QuietNow, InPlaceOnly
  <2> QED BY <1>1, <1>2, <1>5, <2>1, <2>2 DEF QuietNow, PlacesInv, Accounted
<1> QED BY <1>3, <1>4, <1>5

\* During a copy, trash holds what the clone detached and has not been unlinked, and
\* none of it has anything in it.
LEMMA TrashIsDetached ==
  ASSUME QuietNow, backend = "copy", pc \in Attempting
  PROVE  /\ \A o \in In(Trash) : o \in Detached /\ at[o] = <<Trash, o>>
         /\ \A q \in Detached : In(q) = {} /\ q \in Made
         /\ \A q \in Detached : at[q] = <<Trash, q>> => q \in In(Trash)
<1>1. ~Handling /\ unconfirmed = {} /\ removed = {} /\ backend \in Backends
  BY DEF Handling, Attempting, Tried, QuietNow, Base, Undoing, TypeInv
<1>2. \A q \in Detached : q \in Made /\ q[1] = "cow"
  BY PartsKinds DEF QuietNow, ClonesDetached
<1>3. ASSUME NEW o \in In(Trash) PROVE o \in Detached /\ at[o] = <<Trash, o>>
  <2>1. o \in Objects /\ at[o] \in Places /\ at[o] # Nowhere /\ at[o][1] = Trash
    BY PlaceKinds DEF In
  <2>2. o \in Made
    BY <2>1, ObjectKinds DEF QuietNow, InPlaceOnly
  <2>3. o \notin Standing
    <3>1. o \in Standing => at[o] = Home(backend, o[2]) /\ o[2] \in Entries
      BY <1>1, PartsKinds DEF QuietNow, InPlaceOnly
    <3> QED BY <1>1, <2>1, <3>1, HomePlaces
  <2>4. o \notin StagedSet
    <3>1. o \in StagedSet => at[o] = <<Staging, o>>
      BY DEF StagedSet, QuietNow, PlacesInv, StagingIsOurs
    <3> QED BY <2>1, <2>2, <3>1, ToolPlaces, PlaceKinds
  <2>5. o \in Detached
    BY <1>1, <2>1, <2>2, <2>3, <2>4 DEF QuietNow, PlacesInv, Accounted
  <2> QED BY <2>1, <2>5 DEF QuietNow, ClearedInTurn
<1>4. ASSUME NEW q \in Detached, NEW x \in In(q) PROVE FALSE
  <2>1. q # Staging /\ q # Trash /\ q # Target
    BY <1>2, ObjectKinds DEF Roots
  <2>2. x \in Standing /\ at[x] = Home(backend, x[2]) /\ at[x][1] = q
    BY <2>1, OnlyStanding DEF QuietNow
  <2>3. x[2] \in Entries
    BY <2>2, PartsKinds DEF QuietNow
  <2>4. Container(backend, x[2]) = q
    BY <1>1, <2>2, <2>3, HomePlaces
  <2>5. q = <<backend, ParentOf[x[2]]>>
    BY <1>1, <2>1, <2>3, <2>4, HomePlaces
  <2> QED BY <1>2, <2>5
<1>5. ASSUME NEW q \in Detached, at[q] = <<Trash, q>> PROVE q \in In(Trash)
  <2>1. q \in Objects /\ <<Trash, q>> \in Places /\ <<Trash, q>>[1] = Trash
    BY <1>2, ToolPlaces, ObjectKinds
  <2> QED BY <1>5, <2>1 DEF In
<1> QED BY <1>2, <1>3, <1>4, <1>5

\* Control, the attempt: nothing but an unavailable clone ends it.
LEMMA AttemptQuiet ==
  ASSUME QuietNow, Base', Undisturbed',
         \/ (Begin /\ platform = "linux") \/ MacBegin \/ Check \/ Create \/ Identify \/ Prepare
         \/ MacStage \/ MacCloneFails \/ MacIdentify \/ FinalSource
  PROVE  QuietControl'
<1> USE DEF Go, Fail, context, Attempting, Tried, Staging3
<1>1. snap = src /\ \A e \in Entries : src[e] = 0 /\ snap[e] = 0
  BY QuietSource
<1>2. QuietControl /\ Progress
  BY DEF QuietNow, Base
<1>3. CASE Begin
  <2>1. pc' = "check" /\ UNCHANGED context
    BY <1>1, <1>3, EmptyRoots DEF Begin, Snapshot
  <2> QED BY <1>1, <1>2, <1>3, <2>1 DEF Begin, Snapshot, QuietControl
<1>4. CASE MacBegin
  BY <1>1, <1>2, <1>4, EmptyRoots DEF MacBegin, MacSnapshot, QuietControl
<1>5. CASE Check \/ FinalSource
  BY <1>1, <1>2, <1>5 DEF Check, FinalSource, Snapshot, QuietControl
<1>6. CASE Create \/ Identify \/ MacIdentify \/ MacStage
  BY <1>2, <1>6 DEF Create, Identify, MacIdentify, MacStage, QuietControl, Progress
<1>7. CASE Prepare
  BY <1>2, <1>7 DEF Prepare, QuietControl, Progress
<1>8. CASE MacCloneFails
  BY <1>2, <1>8 DEF MacCloneFails, QuietControl, Progress
<1> QED BY <1>3, <1>4, <1>5, <1>6, <1>7, <1>8

\* An entry is published, or made in place.
LEMMA PublishQuiet ==
  ASSUME QuietNow, Base', Undisturbed',
         \/ Publish \/ (MacCreateInPlace /\ platform = "macos")
         \/ (MacRegister /\ platform = "macos") \/ (MacFill /\ platform = "macos")
  PROVE  QuietControl'
<1> USE DEF Go, Fail, context, Attempting, Tried, Staging3
<1>1. QuietControl /\ Progress
  BY DEF QuietNow, Base
<1>2. CASE Publish
  BY <1>1, <1>2, RoomForNext DEF Publish, QuietControl, Progress
<1>3. CASE MacCreateInPlace
  BY <1>1, <1>3, RoomForNext DEF MacCreateInPlace, QuietControl, Progress
<1>4. CASE MacRegister
  BY <1>1, <1>4, NewestInPlace DEF MacRegister, NameHolds, QuietControl, Progress
<1>5. CASE MacFill
  BY <1>1, <1>5 DEF MacFill, QuietControl, Progress
<1> QED BY <1>2, <1>3, <1>4, <1>5

\* A look at what is published finds it.
LEMMA LooksQuiet ==
  ASSUME QuietNow, Base', Undisturbed', Verify \/ MacVerify \/ (FinalTarget /\ platform = "linux")
                                        \/ (MacFinalTarget /\ platform = "macos")
  PROVE  QuietControl'
<1> USE DEF Go, Fail, context, Attempting, Tried, Staging3
<1>1. QuietControl /\ Progress /\ QuietData
  BY DEF QuietNow, Base
<1>2. snap = src /\ \A e \in Entries : src[e] = 0 /\ snap[e] = 0
  BY QuietSource
<1>3. CASE Verify \/ MacVerify
  <2>1. created > 0 /\ pc = "verify"
    BY <1>1, <1>3 DEF Verify, MacVerify, Progress
  <2>2. at[<<backend, Tree[created]>>] = Home(backend, Tree[created]) /\ NameHolds
    BY <2>1, NewestInPlace DEF NameHolds
  <2>3. pc' \in {"final_source", "check"} /\ UNCHANGED context
    BY <1>2, <1>3, <2>2 DEF Verify, MacVerify
  <2> QED BY <1>1, <1>3, <2>3 DEF Verify, MacVerify, QuietControl
<1>4. CASE (FinalTarget /\ platform = "linux") \/ (MacFinalTarget /\ platform = "macos")
  <2>1. pc = "final_target" /\ created = Len(Tree) /\ ~anonymous /\ Kept = created /\ ~Handling
        /\ unconfirmed = {}
    BY <1>1, <1>4 DEF FinalTarget, MacFinalTarget, Progress, QuietControl, Kept, Handling, QuietNow,
                      Base, Undoing
  <2>2. Matches(created) /\ MacMatches(created)
    BY <2>1, StandingMatches DEF QuietNow, MacMatches
  <2>3. SameManifest
    <3>1. created \in 0..Len(Tree) /\ backend \in Backends
      BY CurrentObjects DEF QuietNow, Base, TypeInv
    <3>2. \A e \in Entries : <<backend, e>> \in Pub(backend, created)
      BY <2>1, <3>1, PubSteps
    <3> QED BY <1>1, <1>2, <2>1, <3>2 DEF SameManifest, QuietData
  <2>4. /\ pc' \in {"done", "quarantine"} /\ UNCHANGED context /\ UNCHANGED <<snap, backend>>
        /\ pc' = "done" => receipt' = [receipt EXCEPT ![backend] = Succeeded]
    BY <1>4, <2>2, <2>3 DEF FinalTarget, MacFinalTarget, MacSameManifest
  <2>5. pc' = "done" => Succeeds'
    BY <2>4, ReceiptKinds, ReceiptGiven DEF Succeeds, QuietNow, Base
  <2> QED BY <1>1, <2>1, <2>4, <2>5 DEF QuietControl, Progress
<1> QED BY <1>3, <1>4

\* What the clone left in trash is no obstacle.
LEMMA ClearingQuiet ==
  ASSUME QuietNow, Base', Undisturbed', Quarantine \/ Unlink
  PROVE  QuietControl'
<1> USE DEF Go, Fail, context, Attempting, Tried, Staging3
<1>1. QuietControl /\ Progress /\ ClearedInTurn
  BY DEF QuietNow, Base
<1>2. CASE Quarantine
  <2>1. backend = "copy" /\ pc = "quarantine"
    BY <1>1, <1>2 DEF Quarantine, Progress
  <2>2. \A q \in Detached : at[q] = <<Trash, q>> /\ In(q) = {}
    BY <1>1, <2>1, TrashIsDetached DEF ClearedInTurn, Clearing
  <2>3. In(Trash) = Detached
    BY <2>1, <2>2, TrashIsDetached
  <2>4. pc' = "unlink" /\ UNCHANGED <<created, staged, anonymous, failure>>
    BY <1>2, <2>2, <2>3 DEF Quarantine, Detached
  <2> QED BY <1>1, <1>2, <2>1, <2>4 DEF Quarantine, QuietControl
<1>3. CASE Unlink
  <2>1. backend = "copy" /\ pc = "unlink" /\ todo \subseteq Detached
    BY <1>1, <1>3 DEF Unlink, Progress, QuietNow, Base, Receipted
  <2>2. \A q \in todo : q \in Objects /\ at[q] = <<Trash, q>> /\ In(q) = {}
    BY <1>1, <2>1, TrashIsDetached, ObjectKinds DEF ClearedInTurn
  <2>3. \A o \in In(Trash) : o \in todo
    <3> SUFFICES ASSUME NEW o \in In(Trash) PROVE o \in todo
      OBVIOUS
    <3>1. o \in Detached /\ at[o] = <<Trash, o>> /\ o \in Made
      BY <2>1, TrashIsDetached
    <3>2. at[o] # Nowhere
      BY <3>1, ToolPlaces
    <3> QED BY <1>1, <2>1, <3>1, <3>2 DEF ClearedInTurn
  <2>4. CASE UNCHANGED <<pc, created, staged, anonymous, failure>>
    BY <1>1, <1>3, <2>1, <2>4 DEF Unlink, QuietControl
  <2>5. CASE receipt' = [receipt EXCEPT ![backend] = Succeeded] /\ Go("done")
    <3>1. Succeeds'
      BY <1>3, <2>5, ReceiptKinds, ReceiptGiven DEF Unlink, Succeeds, QuietNow, Base
    <3>2. staged = "no"
      BY <1>1, <2>1 DEF Progress
    <3> QED BY <1>1, <1>3, <2>1, <2>5, <3>1, <3>2 DEF Unlink, QuietControl
  <2> QED BY <1>3, <2>2, <2>3, <2>4, <2>5 DEF Unlink
<1> QED BY <1>2, <1>3

\* The rollback of a clone that is unavailable, and the copy after it.
LEMMA RollbackQuiet ==
  ASSUME QuietNow, Base', Undisturbed',
         \/ Cleanup \/ Rollback \/ MacCleanup \/ MacRollback \/ MacRecheck \/ Detach \/ Confirm
         \/ PutBack \/ Restore \/ Fallback
  PROVE  QuietControl'
<1> USE DEF Go, context, Attempting, Tried
<1>1. QuietControl /\ Progress /\ snap = src /\ UNCHANGED platform
  BY QuietSource DEF QuietNow, Base, Cleanup, Rollback, MacCleanup, MacRollback, MacRecheck, Detach,
     Confirm, PutBack, Restore, Fallback
<1>2. pc \notin Attempting /\ ~(pc = "done") /\ failure = "cow_unavailable" /\ backend = "cow"
      /\ staged # "unknown" /\ ~anonymous
  <2>1. pc \notin Attempting /\ pc # "done" /\ pc \notin {"identify", "register"}
    BY DEF Cleanup, Rollback, MacCleanup, MacRollback, MacRecheck, Detach, Confirm, PutBack, Restore,
           Fallback
  <2> QED BY <1>1, <2>1 DEF QuietControl, Succeeds
<1>3. CASE Cleanup \/ MacCleanup
  <2>1. staged' = "no" /\ failure' = failure /\ pc' = "rollback"
        /\ UNCHANGED <<snap, backend, anonymous>>
    BY <1>1, <1>2, <1>3 DEF Cleanup, MacCleanup, Reason, QuietNow, Base, TypeInv
  <2> QED BY <1>1, <1>2, <2>1 DEF QuietControl
<1>4. CASE \/ Rollback \/ MacRollback \/ MacRecheck \/ Detach \/ Confirm \/ PutBack \/ Restore
  <2>1. /\ UNCHANGED <<snap, backend, anonymous, failure, staged>>
        /\ pc \notin Tried /\ pc' \notin Tried /\ pc' # "done"
    BY <1>4 DEF Rollback, MacRollback, MacRecheck, Detach, Confirm, PutBack, Restore
  <2> QED BY <1>1, <1>2, <2>1 DEF QuietControl
<1>5. CASE Fallback
  <2>1. pc = "report" /\ UNCHANGED snap
    BY <1>5 DEF Fallback
  <2>2. RestoredBaseline(receipt["cow"])
    <3>1. Calm
      BY <1>1 DEF Calm, QuietNow, Undisturbed, QuietControl
    <3>2. left = 0 /\ receipt["cow"].status # "incomplete"
      BY <1>2, <2>1, <3>1 DEF QuietNow, CalmEnds, Undisturbed
    <3>3. unconfirmed = {} /\ Standing = {} /\ StagedSet = {}
      <4>1. unconfirmed = {} /\ Kept = 0 /\ staged = "no"
        BY <1>1, <2>1, <3>2 DEF QuietNow, Base, Undoing, Kept, Succeeds, QuietControl
      <4>2. Pub(backend, 0) = {}
        BY TreeWalk, PubSteps DEF QuietNow, Base, TypeInv
      <4> QED BY <4>1, <4>2 DEF Standing, StagedSet
    <3>4. /\ receipt["cow"].status \in {"not_needed", "confirmed", "incomplete"}
          /\ receipt["cow"] = Failed(receipt["cow"].status)
      BY <1>2, <2>1 DEF QuietNow, Base, Receipted, Ended
    <3>5. receipt["cow"].status \in Statuses /\ Pub(backend, left) = Standing
      BY <2>1, <3>4 DEF Statuses, Standing, Kept, Succeeds
    <3>6. /\ receipt["cow"].unconfirmed = {} /\ receipt["cow"].remaining = {}
          /\ receipt["cow"].staging = {}
      BY <3>3, <3>4, <3>5, FailedReceipt DEF QuietNow, Base
    <3> QED BY <3>2, <3>4, <3>6 DEF RestoredBaseline
  <2>3. CASE Eligible /\ Copy
    BY <1>1, <2>1, <2>3 DEF QuietControl, Copy
  <2>4. CASE ~Eligible /\ Go("done") /\ UNCHANGED backend
    BY <1>1, <1>2, <2>1, <2>4 DEF QuietControl, Eligible
  <2> QED BY <1>5, <2>2, <2>3, <2>4 DEF Fallback
<1> QED BY <1>3, <1>4, <1>5

\* Contents, the steps that write: what they write is what the source holds.
LEMMA WritingQuiet ==
  ASSUME QuietNow, Base', Undisturbed',
         \/ (Create /\ platform = "linux") \/ (Prepare /\ platform = "linux") \/ Publish
         \/ (MacStage /\ platform = "macos") \/ (MacCreateInPlace /\ platform = "macos")
         \/ (MacFill /\ platform = "macos")
  PROVE  QuietData'
<1> USE DEF Go, Fail, context
<1>1. QuietControl /\ QuietData /\ TypeInv /\ Progress
  BY DEF QuietNow, Base
<1>2. \A e \in Entries : src[e] = 0 /\ snap[e] = 0
  BY QuietSource
<1>3. /\ created \in 0..Len(Tree) /\ backend \in Backends
      /\ created < Len(Tree) => /\ Object \in Made /\ Object[2] \in Entries /\ Object \in Objects
                                /\ Object \notin Pub(backend, created)
                                /\ Pub(backend, created + 1) = Pub(backend, created) \cup {Object}
                                /\ created + 1 > 0 /\ (created + 1) - 1 = created
      /\ Pub(backend, created) \subseteq Objects
  <2>1. created \in 0..Len(Tree) /\ backend \in Backends /\ created \in Nat
    BY <1>1, CurrentObjects DEF TypeInv
  <2>2. Pub(backend, created) \subseteq Objects
    BY <2>1, PubSteps, ObjectKinds
  <2>3. created < Len(Tree) => /\ Object \in Made /\ Object[2] \in Entries /\ Object \in Objects
                               /\ created + 1 > 0 /\ (created + 1) - 1 = created
    BY <1>1, <2>1, CurrentObjects, ObjectKinds
  <2>4. created < Len(Tree) => /\ Object \notin Pub(backend, created)
                               /\ Pub(backend, created + 1) = Pub(backend, created) \cup {Object}
    BY <2>1, PubSteps DEF Object
  <2> QED BY <2>1, <2>2, <2>3, <2>4
<1>4. CASE Create \/ MacStage \/ Prepare
  <2>1. created < Len(Tree) /\ UNCHANGED <<created, backend>> /\ Object' = Object
        /\ pc \in {"create", "prepare"}
    BY <1>1, <1>4 DEF Create, MacStage, Prepare, Progress, Staging3, Object
  <2>2. \/ UNCHANGED data /\ UNCHANGED staged
        \/ data' = [data EXCEPT ![Object] = 0]
        \/ UNCHANGED data /\ pc' = "cleanup" /\ UNCHANGED staged
    BY <1>2, <1>3, <1>4, <2>1 DEF Create, MacStage, Prepare
  <2>3. UNCHANGED data \/ (data'[Object] = 0 /\ \A x \in Objects : x # Object => data'[x] = data[x])
    BY <1>1, <1>3, <2>1, <2>2, DataChanges
  <2>4. UNCHANGED data => UNCHANGED staged \/ data'[Object] = 0
    BY <1>1, <1>3, <2>1, <2>2, DataChanges
  <2>5. \A x \in Objects : data'[x] # Edited
    BY <1>1, <2>3 DEF QuietData, Edited
  <2>6. \A x \in Pub(backend, created) : data'[x] = 0
    BY <1>1, <1>3, <2>1, <2>3 DEF QuietData
  <2>7. staged' # "no" => data'[Object] = 0
    BY <1>1, <2>3, <2>4 DEF QuietData
  <2> QED BY <2>1, <2>5, <2>6, <2>7 DEF QuietData
<1>5. CASE Publish
  <2>1. pc = "publish" /\ created < Len(Tree) /\ staged # "no"
    BY <1>1, <1>5 DEF Publish, Progress, Staging3, Attempting
  <2>2. /\ created' = created + 1 /\ staged' = "no" /\ UNCHANGED <<data, backend>>
    BY <1>5, <2>1, RoomForNext DEF Publish, Attempting
  <2> QED BY <1>1, <1>3, <2>1, <2>2 DEF QuietData
<1>6. CASE MacCreateInPlace
  <2>1. pc = "create" /\ created < Len(Tree) /\ staged = "no"
    BY <1>1, <1>6 DEF MacCreateInPlace, Progress, Staging3, Attempting
  <2>2. /\ created' = created + 1 /\ data' = [data EXCEPT ![Object] = Blank] /\ pc' = "register"
        /\ UNCHANGED <<backend, staged>>
    BY <1>6, <2>1, RoomForNext DEF MacCreateInPlace, Attempting
  <2>3. data'[Object] = Blank /\ \A x \in Objects : x # Object => data'[x] = data[x]
    BY <1>1, <1>3, <2>1, <2>2, DataChanges
  <2>4. Newest' = Object
    BY <2>2 DEF Newest, Object
  <2> QED BY <1>1, <1>3, <2>1, <2>2, <2>3, <2>4 DEF QuietData, Blank, Edited
<1>7. CASE MacFill
  <2>1. pc = "fill" /\ created > 0 /\ staged = "no" /\ UNCHANGED <<created, backend, staged>>
    BY <1>1, <1>7 DEF MacFill, Progress, Staging3, Attempting
  <2>2. Newest \in Made /\ Newest \in Objects /\ Newest[2] \in Entries
    BY <1>1, <2>1, CurrentObjects, ObjectKinds
  <2>3. data' = [data EXCEPT ![Newest] = 0]
    BY <1>1, <1>2, <1>7, <2>2 DEF MacFill, QuietData
  <2>4. data'[Newest] = 0 /\ \A x \in Objects : x # Newest => data'[x] = data[x]
    BY <1>1, <2>2, <2>3, DataChanges
  <2> QED BY <1>1, <1>3, <2>1, <2>4 DEF QuietData, Edited
<1> QED BY <1>4, <1>5, <1>6, <1>7

\* Contents, the steps that do not write.
LEMMA KeepingQuiet ==
  ASSUME QuietNow, UNCHANGED <<data, created, backend>>, staged = "no" => staged' = "no",
         pc \in {"register", "fill"} => pc' \in {"register", "fill"}
  PROVE  QuietData'
<1>1. Object' = Object /\ Newest' = Newest
  BY DEF Object, Newest
<1> QED BY <1>1 DEF QuietNow, QuietData

\* Every step leaves it so.
LEMMA NextQuiet ==
  ASSUME QuietNow, Base', Undisturbed', [Next]_vars
  PROVE  QuietControl' /\ QuietData'
<1> USE DEF Go, Fail, context
<1>1. CASE \/ platform = "linux" /\ (Begin \/ Create \/ Identify \/ Prepare)
           \/ platform = "macos" /\ (MacBegin \/ MacStage \/ MacCloneFails \/ MacIdentify)
           \/ Check \/ FinalSource
  <2>1. QuietControl'
    BY <1>1, AttemptQuiet
  <2>2. Identify \/ MacIdentify => staged # "no"
    BY DEF Identify, MacIdentify, QuietNow, Base, Progress, Staging3, Attempting
  <2>3. CASE Begin \/ Identify \/ MacBegin \/ MacCloneFails \/ MacIdentify \/ Check \/ FinalSource
    <3>1. /\ UNCHANGED <<data, created, backend>> /\ (staged = "no" => staged' = "no")
          /\ pc \notin {"register", "fill"}
      BY <2>2, <2>3
         DEF Begin, Identify, MacBegin, MacCloneFails, MacIdentify, Check, FinalSource
    <3> QED BY <2>1, <3>1, KeepingQuiet
  <2> QED BY <1>1, <2>1, <2>3, WritingQuiet
<1>2. CASE Publish \/ (platform = "macos" /\ (MacCreateInPlace \/ MacRegister \/ MacFill))
  <2>1. QuietControl'
    BY <1>2, PublishQuiet
  <2>2. CASE MacRegister
    <3>1. pc' = "fill" /\ UNCHANGED <<data, created, backend, staged>>
      BY <2>2, NewestInPlace DEF MacRegister, NameHolds, QuietNow, Base, Progress, Attempting
    <3> QED BY <2>1, <3>1, KeepingQuiet
  <2> QED BY <1>2, <2>1, <2>2, WritingQuiet
<1>3. CASE \/ platform = "linux" /\ (Verify \/ FinalTarget \/ Quarantine \/ Unlink)
           \/ platform = "macos" /\ (MacVerify \/ MacFinalTarget)
  <2>1. QuietControl'
    BY <1>3, LooksQuiet, ClearingQuiet
  <2>2. /\ UNCHANGED <<data, created, backend, staged>> /\ pc \notin {"register", "fill"}
    BY <1>3 DEF Verify, FinalTarget, Quarantine, Unlink, MacVerify, MacFinalTarget
  <2> QED BY <2>1, <2>2, KeepingQuiet
<1>4. CASE \/ platform = "linux" /\ (Cleanup \/ Rollback)
           \/ platform = "macos" /\ (MacCleanup \/ MacRollback \/ MacRecheck)
           \/ Detach \/ Confirm \/ PutBack \/ Restore \/ Fallback
  <2>1. QuietControl'
    BY <1>4, RollbackQuiet
  <2>2. CASE Fallback /\ Copy
    <3>1. Pub(backend', created') = {} /\ staged' = "no" /\ UNCHANGED data
      <4>1. backend' = "copy" /\ created' = 0 /\ 0 \in 0..Len(Tree) /\ "copy" \in Backends
        BY <2>2, TreeWalk DEF Copy, Backends
      <4> QED BY <2>2, <4>1, PubSteps DEF Fallback, Copy
    <3> QED BY <2>1, <3>1 DEF QuietData, QuietNow
  <2>3. CASE ~(Fallback /\ Copy)
    <3>1. /\ UNCHANGED <<data, created, backend>> /\ (staged = "no" => staged' = "no")
          /\ pc \notin {"register", "fill"}
      BY <1>4, <2>3 DEF Cleanup, Rollback, MacCleanup, MacRollback, MacRecheck, Detach, Confirm,
                        PutBack, Restore, Fallback
    <3> QED BY <2>1, <3>1, KeepingQuiet
  <2> QED BY <2>2, <2>3
<1>5. ~(Fault \/ CleanupFault \/ MacCleanupFault)
  <2>1. faults \in Nat /\ faults' = faults
    BY QuietBefore DEF QuietNow, Base, TypeInv
  <2> QED BY <2>1 DEF Fault, CleanupFault, MacCleanupFault
<1>6. CASE UNCHANGED vars
  <2>1. UNCHANGED <<data, created, backend, staged, pc, snap, failure, anonymous, receipt>>
    BY <1>6 DEF vars
  <2>2. QuietControl'
    BY <2>1 DEF QuietNow, QuietControl, Succeeds
  <2> QED BY <2>1, <2>2, KeepingQuiet
<1>7. ASSUME NEW e \in Entries, ChangeSource(e) PROVE FALSE
  BY <1>7 DEF ChangeSource, Undisturbed, QuietNow, Base, TypeInv
<1>8. ASSUME Touch PROVE FALSE
  BY <1>8 DEF Touch, Undisturbed, QuietNow, Base, TypeInv
<1>9. /\ \A o \in Objects, place \in UserPlaces : ~UserMove(o, place)
      /\ \A o \in Made : ~UserDelete(o) /\ ~UserEdit(o)
  BY <1>8 DEF UserMove, UserDelete, UserEdit
<1> QED BY <1>1, <1>2, <1>3, <1>4, <1>5, <1>6, <1>7, <1>9, Steps

Quiet == Undisturbed => QuietControl /\ QuietData

(* Where nothing happens, the tool succeeds, by copying if the clone is unavailable and
   the user allowed it. *)
THEOREM QuietRunsAlwaysSucceed == Spec => []QuietRunsSucceed
<1>1. Init => Quiet
  <2> SUFFICES ASSUME Init PROVE QuietControl /\ QuietData
    BY DEF Quiet
  <2>1. /\ \A e \in Entries : snap[e] = 0
        /\ pc = "begin" /\ created = 0 /\ staged = "no" /\ anonymous = FALSE /\ failure = "none"
    BY DEF Init
  <2>2. QuietControl
    BY <2>1 DEF QuietControl, Attempting, Tried
  <2>3. Pub(backend, 0) = {}
    <3>1. backend \in Backends /\ 0 \in 0..Len(Tree)
      BY TreeWalk DEF Init, Backends
    <3> QED BY <3>1, PubSteps
  <2>4. \A o \in Objects : data[o] = 0
    BY DEF Init
  <2> QED BY <2>1, <2>2, <2>3, <2>4 DEF QuietData, Edited
<1>2. /\ Base /\ Base' /\ PlacesInv /\ ClonesDetached /\ Untouched /\ CalmEnds /\ Quiet /\ [Next]_vars
      => Quiet'
  <2> SUFFICES ASSUME Base, Base', PlacesInv, ClonesDetached, Untouched, CalmEnds, Quiet,
                      [Next]_vars, Undisturbed'
               PROVE  QuietControl' /\ QuietData'
    BY DEF Quiet
  <2>1. Undisturbed
    BY QuietBefore
  <2>2. InPlaceOnly /\ ClearedInTurn
    BY <2>1, UntouchedParts DEF Undisturbed
  <2>3. QuietNow
    BY <2>1, <2>2 DEF QuietNow, Quiet
  <2> QED BY <2>3, NextQuiet
<1>3. Quiet => QuietRunsSucceed
  <2> SUFFICES ASSUME QuietControl, pc = "done" PROVE Succeeds \/ (failure = "cow_unavailable" /\ ~AllowFullCopy)
    BY DEF QuietRunsSucceed, Undisturbed, Quiet
  <2> QED BY DEF QuietControl, Attempting
<1> QED BY <1>1, <1>2, <1>3, AlwaysBase, AlwaysPlaces, AlwaysClones, AlwaysUntouched, AlwaysCalmEnds,
           PTL DEF Spec
=============================================================================
