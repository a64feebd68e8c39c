-------------------------- MODULE GitInspectProofs --------------------------
(***************************************************************************)
(* The theorems about GitInspect: what a report says was true unless Git    *)
(* ran under a configuration file that nobody had seen, a parent is never   *)
(* better known than what is nested in it, and a known aggregate            *)
(* covers every repository, for every finite tree of directories, every     *)
(* limit and every number of troubles.                                      *)
(*                                                                          *)
(* None of the three is inductive.  What the walk still has to visit covers *)
(* what it has not found (Coverage); a repository that is not reported is   *)
(* still waited for in the stage it is in (Accounted); evidence is never    *)
(* newer than what it is evidence of, so that evidence which still agrees   *)
(* vouches for what was judged (Vouched, Flags); and the status queries go  *)
(* from the deepest repository up (Order).                                  *)
(***************************************************************************)
EXTENDS GitInspect, TLAPS, FiniteSetTheorems, FunctionTheorems, SequenceTheorems,
        WellFoundedInduction

PreflightPcs == {"preflight", "judge"}
IndexPcs == {"index", "index_query", "index_end"}
StatusPcs == {"status", "status_query", "status_end"}
AllPcs == {"discover", "sources", "done"} \cup PreflightPcs \cup IndexPcs \cup StatusPcs
Known == {"Clean", "Dirty"}
Pending == ToSet(todo)
Found == {d \in Dirs : tree[d].git # "none"}

FactFields == DOMAIN GoodRepository
SourceFields == DOMAIN GoodSources
Truths == Contents \cup {"none", Unrecorded}

TreeOk(t) ==
  /\ DOMAIN t = Dirs
  /\ \A d \in Dirs :
       /\ DOMAIN t[d] = {"git", "readable", "facts", "content"}
       /\ t[d].git \in {"none", "directory", "file", "other"}
       /\ DOMAIN t[d].facts = FactFields
       /\ t[d].content \in Contents

Counters == [files : Nat, index : Nat, dir : Nat]

TypeOk ==
  /\ pc \in AllPcs /\ todo \in Seq(Dirs) /\ TreeOk(tree) /\ DOMAIN sources = SourceFields
  /\ version \in [Dirs -> Counters] /\ evidence \in [Dirs -> Counters]
  /\ gversion \in Nat /\ seen \in [root : Nat, sources : Nat]
  /\ DOMAIN disc = {"candidates", "complete", "issues"}
  /\ disc.candidates \subseteq Dirs /\ disc.complete \in BOOLEAN
  /\ DOMAIN drivers = Dirs /\ indexed \subseteq Dirs
  /\ report \in [Dirs -> {"none", "Unknown"} \cup Known]
  /\ truth \in [Dirs -> Truths]

\* Evidence is never newer than what it is evidence of.
EvidenceOld ==
  /\ seen.sources <= gversion
  /\ \A d \in Dirs : /\ version[d].files > 0
                     /\ evidence[d].files <= version[d].files
                     /\ evidence[d].index <= version[d].index

\* What the discovery has not found is still to be visited, or below it.
Coverage ==
  /\ pc = "discover" /\ disc.complete =>
       /\ disc.candidates \subseteq Repositories
       /\ \A d \in Found : d \in disc.candidates
            \/ \E t \in Pending : d = t \/ IsStrictDescendant(d, t)
  /\ pc \notin {"discover", "done"} => disc.candidates = Repositories /\ Found = Repositories

\* No state is known before the status queries, no aggregate before the end, and
\* nothing is read of a repository before the sources outside.
Early ==
  /\ pc \notin StatusPcs \cup {"done"} => \A d \in Dirs : report[d] \notin Known
  /\ pc # "done" => result.aggregate = "none"
  /\ pc \in {"discover", "sources"} => \A d \in Dirs : evidence[d] = Unprepared
  /\ pc \in {"discover", "sources"} \cup PreflightPcs => indexed = {}
  /\ pc \in {"judge", "index_query", "index_end", "status_query", "status_end"} => todo # <<>>

\* Every candidate is reported or still waited for.
Accounted ==
  /\ pc \in PreflightPcs => \A c \in disc.candidates :
       report[c] = "Unknown" \/ c \in Pending \/ evidence[c] # Unprepared
  /\ pc = "judge" => evidence[Head(todo)] # Unprepared
  /\ pc \in IndexPcs => \A c \in disc.candidates :
       report[c] = "Unknown" \/ c \in Pending \/ c \in indexed
  /\ pc \in StatusPcs => \A c \in disc.candidates :
       /\ report[c] = "Unknown" \/ c \in indexed
       /\ report[c] # "none" \/ c \in Pending

\* Where the evidence still agrees, what was judged is what is there.
Vouched ==
  \A d \in Dirs :
    /\ version[d].files = evidence[d].files /\ gversion = seen.sources
    /\ ~(pc = "judge" /\ d = Head(todo))
    => /\ Entries(tree[d].facts, sources) \cap RefusedEntries = {}
       /\ drivers[d] = FilterDrivers(Entries(tree[d].facts, sources))

NotHidden(d) == version[d].index = evidence[d].index => tree[d].facts.index # "hidden"

Flags ==
  /\ pc = "index_end" => NotHidden(Head(todo))
  /\ \A d \in indexed : NotHidden(d)

\* The status queries go from the deepest repository up, each once.
Order ==
  pc \in StatusPcs =>
    /\ Pending \subseteq indexed /\ IsInjective(todo)
    /\ \A i, j \in DOMAIN todo : i < j => Len(todo[i]) >= Len(todo[j])
    /\ \A d \in Dirs : report[d] \in Known =>
         d \notin Pending /\ \A t \in Pending : Len(t) <= Len(d)
    /\ pc # "status" => ~UnsafeDescendant(Head(todo))

Holds(d) ==
  /\ version[d].files = evidence[d].files /\ version[d].index = evidence[d].index
  /\ gversion = seen.sources

\* What Git printed is the truth, unless the evidence around it has moved or Git ran
\* under a configuration file that is in no evidence.
Answered ==
  pc = "status_end" /\ OutputParses(query.output) /\ truth[Head(todo)] # Unrecorded
    /\ (\A e \in Participants(Head(todo)) : Holds(e)) =>
       truth[Head(todo)] \in Contents /\ query.output = Porcelain(truth[Head(todo)])

IInv ==
  /\ TypeOk /\ EvidenceOld /\ Coverage /\ Early /\ Accounted /\ Vouched /\ Flags /\ Order /\ Answered
  /\ ReportedStateWasTrue /\ ParentNeverOutranksChild /\ NothingIsOverlooked
------------------------------------------------------------------------------
(***************************************************************************)
(* Sequences, sets and verdicts.                                            *)
(***************************************************************************)

\* A set of positions has a first one.
LEMMA FirstPosition ==
  ASSUME NEW T \in SUBSET Nat, T # {}
  PROVE  \E m \in T : \A k \in T : m <= k
<1> DEFINE R == {ss \in Nat \X Nat : ss[1] < ss[2]}
<1>1. IsWellFoundedOn(R, Nat)
  BY NatLessThanWellFounded, Zenon DEF OpToRel
<1>2. \E x \in T : \A y \in T : ~ (<<y, x>> \in R)
  BY <1>1, WFMin, Zenon
<1>3. PICK x \in T : \A y \in T : ~ (<<y, x>> \in R)
  BY <1>2
<1>4. \A y \in T : x <= y
  <2> TAKE y \in T
  <2>1. <<y, x>> \notin R
    BY <1>3
  <2>2. y \in Nat /\ x \in Nat
    OBVIOUS
  <2> QED BY <2>1, <2>2
<1> QED BY <1>4

\* The first issue is "ok" only when every check is.
LEMMA NoIssue ==
  ASSUME NEW checks, NEW n \in Nat, DOMAIN checks = 1 .. n, FirstIssue(checks) = "ok"
  PROVE  \A i \in 1 .. n : checks[i] = "ok"
<1> SUFFICES ASSUME \E i \in 1 .. n : checks[i] # "ok" PROVE FALSE
  OBVIOUS
<1> DEFINE T == {i \in 1 .. n : checks[i] # "ok"}
           First(i) == checks[i] # "ok" /\ \A j \in 1 .. (i - 1) : checks[j] = "ok"
<1>1. T \in SUBSET Nat /\ T # {}
  OBVIOUS
<1>2. PICK m \in T : \A k \in T : m <= k
  BY <1>1, FirstPosition
<1>3. m \in 1 .. n /\ First(m)
  <2>1. m \in 1 .. n /\ checks[m] # "ok"
    OBVIOUS
  <2>2. ASSUME NEW j \in 1 .. (m - 1) PROVE checks[j] = "ok"
    <3>1. j \in 1 .. n /\ ~ (m <= j)
      BY <2>1
    <3> QED BY <3>1, <1>2
  <2> QED BY <2>1, <2>2
<1>4. First(CHOOSE i \in DOMAIN checks : First(i)) 
  BY <1>3
<1>5. FirstIssue(checks) = checks[CHOOSE i \in DOMAIN checks : First(i)]
  BY DEF FirstIssue
<1> QED BY <1>4, <1>5

\* A directory of the copy, and the set of those below it, are finite sets.
LEMMA FiniteDirs ==
  ASSUME NEW S \in SUBSET Dirs
  PROVE  IsFiniteSet(S) /\ Cardinality(S) \in Nat
<1>1. IsFiniteSet(Dirs)
  BY GitInspectAssumption
<1>2. IsFiniteSet(S)
  BY <1>1, FS_Subset
<1> QED BY <1>2, FS_CardinalityType

\* An injection from as many positions as a set has members lists the set.
LEMMA InjectionLists ==
  ASSUME NEW S \in SUBSET Dirs, NEW f \in Injection(1 .. Cardinality(S), S)
  PROVE  f \in Seq(Dirs) /\ ToSet(f) = S /\ IsInjective(f)
<1>1. IsFiniteSet(S) /\ Cardinality(S) \in Nat
  BY FiniteDirs
<1>2. f \in [1 .. Cardinality(S) -> S] /\ IsInjective(f)
  BY DEF Injection
<1>3. f \in Seq(Dirs)
  BY <1>1, <1>2
<1>4. Cardinality(1 .. Cardinality(S)) = Cardinality(S)
  <2> DEFINE n == Cardinality(S)
  <2>1. n \in Nat BY <1>1
  <2> HIDE DEF n
  <2>2. Cardinality(1 .. n) = IF 1 > n THEN 0 ELSE n - 1 + 1
    BY <2>1, FS_Interval
  <2>3. Cardinality(1 .. n) = n
    BY <2>1, <2>2
  <2> QED BY <2>3 DEF n
<1>5. f \in Surjection(1 .. Cardinality(S), S)
  BY <1>1, <1>4, FS_Injection
<1>6. ToSet(f) = S
  BY <1>2, <1>5 DEF Surjection, ToSet
<1> QED BY <1>2, <1>3, <1>6

\* SetToSeq lists a set of directories.
LEMMA SetToSeqLists ==
  ASSUME NEW S \in SUBSET Dirs
  PROVE  SetToSeq(S) \in Seq(Dirs) /\ ToSet(SetToSeq(S)) = S
<1>1. IsFiniteSet(S) /\ Cardinality(S) \in Nat
  BY FiniteDirs
<1>2. ExistsBijection(1 .. Cardinality(S), S)
  BY <1>1, FS_CardinalityType
<1>3. \E f \in [1 .. Cardinality(S) -> S] : IsInjective(f)
  BY <1>2 DEF ExistsBijection, Bijection, Injection
<1>4. SetToSeq(S) \in Injection(1 .. Cardinality(S), S)
  BY <1>3 DEF SetToSeq, Injection
<1> QED BY <1>4, InjectionLists

\* The first of a sequence and the rest of it.
LEMMA HeadAndTail ==
  ASSUME NEW s \in Seq(Dirs), s # <<>>
  PROVE  /\ Head(s) \in Dirs /\ Tail(s) \in Seq(Dirs) /\ Head(s) \in ToSet(s)
         /\ ToSet(Tail(s)) \subseteq ToSet(s)
         /\ \A x \in ToSet(s) : x = Head(s) \/ x \in ToSet(Tail(s))
         /\ Len(s) \in Nat /\ Len(s) > 0 /\ DOMAIN s = 1 .. Len(s) /\ Head(s) = s[1]
         /\ DOMAIN Tail(s) = 1 .. (Len(s) - 1)
         /\ \A i \in 1 .. (Len(s) - 1) : Tail(s)[i] = s[i + 1]
<1>1. /\ Len(s) \in Nat /\ Len(s) > 0 /\ DOMAIN s = 1 .. Len(s) /\ Head(s) = s[1]
      /\ Head(s) \in Dirs /\ Tail(s) \in Seq(Dirs)
      /\ DOMAIN Tail(s) = 1 .. (Len(s) - 1)
      /\ \A i \in 1 .. (Len(s) - 1) : Tail(s)[i] = s[i + 1]
  OBVIOUS
<1>2. ASSUME NEW x \in ToSet(s) PROVE x = Head(s) \/ x \in ToSet(Tail(s))
  <2>1. PICK i \in 1 .. Len(s) : x = s[i]
    BY <1>1 DEF ToSet
  <2>2. CASE i = 1
    BY <2>1, <2>2, <1>1
  <2>3. CASE i # 1
    <3>1. i - 1 \in 1 .. (Len(s) - 1) /\ Tail(s)[i - 1] = s[i]
      BY <2>3, <1>1
    <3> QED BY <3>1, <2>1, <1>1 DEF ToSet
  <2> QED BY <2>2, <2>3
<1>3. ToSet(Tail(s)) \subseteq ToSet(s)
  <2>1. ASSUME NEW i \in 1 .. (Len(s) - 1) PROVE Tail(s)[i] \in ToSet(s)
    <3>1. i + 1 \in 1 .. Len(s)
      BY <1>1
    <3> QED BY <3>1, <1>1 DEF ToSet
  <2> QED BY <2>1, <1>1 DEF ToSet
<1>4. Head(s) \in ToSet(s)
  BY <1>1 DEF ToSet
<1> QED BY <1>1, <1>2, <1>3, <1>4

\* The last of a sequence and what comes before it.
LEMMA LastAndFront ==
  ASSUME NEW s \in Seq(Dirs), s # <<>>
  PROVE  /\ Last(s) \in Dirs /\ Front(s) \in Seq(Dirs)
         /\ \A x \in ToSet(s) : x = Last(s) \/ x \in ToSet(Front(s))
<1>1. Len(s) \in Nat /\ Len(s) > 0 /\ DOMAIN s = 1 .. Len(s)
  OBVIOUS
<1>2. /\ Front(s) \in Seq(Dirs) /\ Len(Front(s)) = Len(s) - 1
      /\ \A i \in 1 .. (Len(s) - 1) : Front(s)[i] = s[i]
  BY <1>1, SubSeqProperties DEF Front
<1>3. ASSUME NEW x \in ToSet(s) PROVE x = Last(s) \/ x \in ToSet(Front(s))
  <2>1. PICK i \in 1 .. Len(s) : x = s[i]
    BY <1>1 DEF ToSet
  <2>2. CASE i = Len(s)
    BY <2>1, <2>2 DEF Last
  <2>3. CASE i # Len(s)
    <3>1. i \in 1 .. (Len(s) - 1)
      <4>1. Len(s) \in Nat BY <1>1
      <4> HIDE DEF Front
      <4> QED BY <4>1, <2>3
    <3>2. DOMAIN Front(s) = 1 .. (Len(s) - 1)
      BY <1>2
    <3>3. x = Front(s)[i]
      BY <3>1, <1>2, <2>1
    <3> QED BY <3>1, <3>2, <3>3 DEF ToSet
  <2> QED BY <2>2, <2>3
<1>4. Last(s) \in Dirs
  BY <1>1 DEF Last
<1> QED BY <1>2, <1>3, <1>4

\* A concatenation holds what its parts hold.
LEMMA Concatenated ==
  ASSUME NEW s \in Seq(Dirs), NEW t \in Seq(Dirs)
  PROVE  /\ s \o t \in Seq(Dirs)
         /\ ToSet(s) \subseteq ToSet(s \o t) /\ ToSet(t) \subseteq ToSet(s \o t)
<1>1. /\ Len(s) \in Nat /\ Len(t) \in Nat /\ s \o t \in Seq(Dirs)
      /\ DOMAIN s = 1 .. Len(s) /\ DOMAIN t = 1 .. Len(t)
      /\ DOMAIN (s \o t) = 1 .. (Len(s) + Len(t))
      /\ \A i \in 1 .. (Len(s) + Len(t)) :
           (s \o t)[i] = IF i <= Len(s) THEN s[i] ELSE t[i - Len(s)]
  OBVIOUS
<1>2. ASSUME NEW i \in 1 .. Len(s) PROVE s[i] \in ToSet(s \o t)
  <2>1. i \in 1 .. (Len(s) + Len(t)) /\ (s \o t)[i] = s[i]
    BY <1>1
  <2> QED BY <2>1, <1>1 DEF ToSet
<1>3. ASSUME NEW i \in 1 .. Len(t) PROVE t[i] \in ToSet(s \o t)
  <2>1. Len(s) + i \in 1 .. (Len(s) + Len(t)) /\ (s \o t)[Len(s) + i] = t[i]
    BY <1>1
  <2> QED BY <2>1, <1>1 DEF ToSet
<1>4. ToSet(s) \subseteq ToSet(s \o t)
  BY <1>1, <1>2 DEF ToSet
<1>5. ToSet(t) \subseteq ToSet(s \o t)
  BY <1>1, <1>3 DEF ToSet
<1> QED BY <1>1, <1>4, <1>5

\* What lies below a directory is one of its subdirectories or lies below one.
LEMMA ThroughSubdirectory ==
  ASSUME NEW d \in Dirs, NEW e \in Dirs, IsStrictDescendant(e, d)
  PROVE  \E s \in Subdirectories(d) : e = s \/ IsStrictDescendant(e, s)
<1> DEFINE s == SubSeq(e, 1, Len(d) + 1)
<1>1. /\ d \in Seq(Names) /\ e \in Seq(Names) /\ Len(d) \in Nat /\ Len(e) \in Nat
      /\ Len(e) > Len(d) /\ SubSeq(e, 1, Len(d)) = d
  BY GitInspectAssumption DEF IsStrictDescendant
<1>2. Len(d) + 1 \in 0 .. Len(e)
  BY <1>1
<1>3. s \in Dirs
  BY <1>2, GitInspectAssumption
<1>4. /\ s \in Seq(Names) /\ Len(s) = Len(d) + 1
      /\ \A i \in 1 .. (Len(d) + 1) : s[i] = e[i]
  BY <1>1, <1>2, SubSeqProperties
<1>5. SubSeq(s, 1, Len(d)) = d
  <2>1. /\ SubSeq(s, 1, Len(d)) \in Seq(Names) /\ Len(SubSeq(s, 1, Len(d))) = Len(d)
        /\ \A i \in 1 .. Len(d) : SubSeq(s, 1, Len(d))[i] = s[i]
    BY <1>1, <1>4, SubSeqProperties
  <2>2. \A i \in 1 .. Len(d) : SubSeq(e, 1, Len(d))[i] = e[i]
    BY <1>1, SubSeqProperties
  <2>3. \A i \in 1 .. Len(d) : SubSeq(s, 1, Len(d))[i] = d[i]
    BY <2>1, <2>2, <1>1, <1>4
  <2> HIDE DEF s
  <2>4. \A u \in Seq(Names) : Len(u) = Len(d) /\ (\A i \in 1 .. Len(d) : u[i] = d[i]) => u = d
    BY <1>1, SeqEqual
  <2>5. SubSeq(s, 1, Len(d)) \in Seq(Names)
    BY <2>1
  <2>6. Len(SubSeq(s, 1, Len(d))) = Len(d)
    BY <2>1
  <2> QED BY <2>3, <2>4, <2>5, <2>6, Zenon
<1> HIDE DEF s
<1>6. s \in Subdirectories(d)
  <2>1. Len(s) = Len(d) + 1 /\ Len(s) > Len(d)
    BY <1>1, <1>4
  <2>2. IsStrictDescendant(s, d)
    BY <2>1, <1>5 DEF IsStrictDescendant
  <2> QED BY <1>3, <2>1, <2>2 DEF Subdirectories
<1>7. CASE Len(e) = Len(d) + 1
  <2>1. \A i \in 1 .. Len(e) : s[i] = e[i]
    BY <1>4, <1>7
  <2>2. s = e
    BY <2>1, <1>1, <1>4, <1>7, SeqEqual
  <2> QED BY <2>2, <1>6
<1>8. CASE Len(e) # Len(d) + 1
  <2>1. IsStrictDescendant(e, s)
    <3>1. Len(e) > Len(s) /\ SubSeq(e, 1, Len(s)) = s
      BY <1>1, <1>4, <1>8 DEF s
    <3> QED BY <3>1 DEF IsStrictDescendant
  <2> QED BY <2>1, <1>6
<1> QED BY <1>7, <1>8
------------------------------------------------------------------------------
(***************************************************************************)
(* What an accepted verdict says of the facts it is about.                  *)
(***************************************************************************)

\* A repository that passes the preflight has no entry that is refused.
LEMMA AcceptedEntries ==
  ASSUME NEW f, NEW g, RepositoryVerdict(f, g) = "ok"
  PROVE  Entries(f, g) \cap RefusedEntries = {}
<1>1. ConfigVerdict(f, g) = "ok"
  <2> DEFINE checks ==
        <<GitDirVerdict(f), ScanMetadataNofollow(f), RejectMetadataLinks(f), CollectReferenceEvidence(f),
          ConfigVerdict(f, g), WorktreeVerdict(f), GitmodulesVerdict(f), RepositoryAttributes(f)>>
  <2>1. DOMAIN checks = 1 .. 8 /\ checks[5] = ConfigVerdict(f, g)
    OBVIOUS
  <2>2. FirstIssue(checks) = "ok"
    BY DEF RepositoryVerdict
  <2> HIDE DEF checks
  <2>3. \A i \in 1 .. 8 : checks[i] = "ok"
    BY <2>1, <2>2, NoIssue
  <2> QED BY <2>1, <2>3
<1>2. ValidateConfigEntries(Entries(f, g)) = "ok"
  <2> DEFINE checks ==
        <<ParseConfigOutput(f.config), EffectiveConfigBool(f.config),
          ValidateConfigEntries(Entries(f, g)), ValidateEffectiveUserAttributes(Entries(f, g), g)>>
  <2>1. DOMAIN checks = 1 .. 4 /\ checks[3] = ValidateConfigEntries(Entries(f, g))
    OBVIOUS
  <2>2. FirstIssue(checks) = "ok"
    BY <1>1 DEF ConfigVerdict
  <2> HIDE DEF checks
  <2>3. \A i \in 1 .. 4 : checks[i] = "ok"
    BY <2>1, <2>2, NoIssue
  <2> QED BY <2>1, <2>3
<1>3. Require(Entries(f, g) \cap RefusedEntries = {}, "UnsupportedConfiguration") = "ok"
  <2> DEFINE refusal == Require(Entries(f, g) \cap RefusedEntries = {}, "UnsupportedConfiguration")
             checks == <<FilterDriver(Entries(f, g)), refusal>>
  <2>1. DOMAIN checks = 1 .. 2 /\ checks[2] = refusal
    OBVIOUS
  <2>2. FirstIssue(checks) = "ok"
    BY <1>2 DEF ValidateConfigEntries
  <2> HIDE DEF checks
  <2>3. \A i \in 1 .. 2 : checks[i] = "ok"
    BY <2>1, <2>2, NoIssue
  <2> QED BY <2>1, <2>3
<1> QED BY <1>3 DEF Require

\* Two checks in a row.
LEMMA BothChecks ==
  ASSUME NEW a, NEW b, FirstIssue(<<a, b>>) = "ok"
  PROVE  a = "ok" /\ b = "ok"
<1> DEFINE checks == <<a, b>>
<1>1. DOMAIN checks = 1 .. 2 /\ checks[1] = a /\ checks[2] = b
  OBVIOUS
<1>2. FirstIssue(checks) = "ok"
  OBVIOUS
<1> HIDE DEF checks
<1>3. \A i \in 1 .. 2 : checks[i] = "ok"
  BY <1>1, <1>2, NoIssue
<1> QED BY <1>1, <1>3

\* Evidence that is found to be the same is the same.
LEMMA FilesHold ==
  ASSUME NEW d, RevalidateFileEvidence(d) = "ok"
  PROVE  version[d].files = evidence[d].files /\ gversion = seen.sources
<1>1. Require(version[d].files = evidence[d].files /\ gversion = seen.sources, "EvidenceChanged") = "ok"
  BY BothChecks DEF RevalidateFileEvidence
<1> QED BY <1>1 DEF Require

\* A repository that was revalidated has the evidence it had at preflight.
LEMMA RepositoryHolds ==
  ASSUME NEW d, RevalidateRepository(d) = "ok"
  PROVE  Holds(d)
<1> DEFINE checks ==
      <<Require(~expired, "BudgetExpired"),
        Require(version[d].dir = evidence[d].dir /\ version[d].index = evidence[d].index, "EvidenceChanged"),
        RevalidateFileEvidence(d)>>
<1>1. /\ DOMAIN checks = 1 .. 3
      /\ checks[2] = Require(version[d].dir = evidence[d].dir /\ version[d].index = evidence[d].index,
                             "EvidenceChanged")
      /\ checks[3] = RevalidateFileEvidence(d)
  OBVIOUS
<1>2. FirstIssue(checks) = "ok"
  BY DEF RevalidateRepository
<1> HIDE DEF checks
<1>3. \A i \in 1 .. 3 : checks[i] = "ok"
  BY <1>1, <1>2, NoIssue
<1>4. RevalidateFileEvidence(d) = "ok"
  BY <1>1, <1>3
<1>5. version[d].index = evidence[d].index
  BY <1>1, <1>3 DEF Require
<1> QED BY <1>4, <1>5, FilesHold DEF Holds

\* Where a set of repositories was revalidated, the evidence of each still holds.
LEMMA RepositoriesHold ==
  ASSUME NEW set, RevalidateRepositories(set) = "ok"
  PROVE  \A d \in set : Holds(d)
<1>1. \A d \in set : RevalidateRepository(d) = "ok"
  <2> SUFFICES ASSUME ~ \A d \in set : RevalidateRepository(d) = "ok" PROVE FALSE
    OBVIOUS
  <2>1. \E d \in set : RevalidateRepository(d) # "ok"
    OBVIOUS
  <2>2. RevalidateRepository(CHOOSE d \in set : RevalidateRepository(d) # "ok") # "ok"
    BY <2>1
  <2> QED BY <2>2 DEF RevalidateRepositories
<1> QED BY <1>1, RepositoryHolds

\* The count of a well-formed output tells whether tracked content changed.
LEMMA CountTells ==
  ASSUME NEW c \in Contents
  PROVE  FromTrackedChangeCount(ParseTrackedChangeCount(Porcelain(c)))
           = IF TrackedChange(c) THEN "Dirty" ELSE "Clean"
<1> DEFINE out == Porcelain(c)
           paths == UNION {RecordPaths(out[i]) : i \in DOMAIN out}
<1>1. paths = IF TrackedChange(c) THEN {1} ELSE {}
  <2>1. CASE c = "clean"
    <3>1. DOMAIN out = {1} /\ out[1] = Record("#", "", "", TRUE, 0)
      BY <2>1 DEF Porcelain
    <3>2. \A xy, sub : Record("#", xy, sub, TRUE, 0).tag = "#"
      BY DEF Record
    <3>3. out[1].tag = "#"
      BY <3>1, <3>2, Zenon
    <3>4. RecordPaths(out[1]) = {}
      BY <3>3 DEF RecordPaths
    <3> QED BY <3>1, <3>4, <2>1 DEF TrackedChange
  <2>2. CASE c = "modified"
    <3>1. DOMAIN out = {1} /\ out[1] = Record("1", ".M", "N...", TRUE, 1)
      BY <2>2 DEF Porcelain
    <3>2. RecordPaths(out[1]) = {1}
      BY <3>1 DEF RecordPaths, Record, OnlyUntrackedSubmodule
    <3> QED BY <3>1, <3>2, <2>2 DEF TrackedChange
  <2>3. CASE c = "renamed"
    <3>1. DOMAIN out = {1} /\ out[1] = Record("2", "R.", "N...", TRUE, 1)
      BY <2>3 DEF Porcelain
    <3>2. RecordPaths(out[1]) = {1}
      BY <3>1 DEF RecordPaths, Record, OnlyUntrackedSubmodule
    <3> QED BY <3>1, <3>2, <2>3 DEF TrackedChange
  <2>4. CASE c = "unmerged"
    <3>1. DOMAIN out = {1} /\ out[1] = Record("u", "UU", "N...", FALSE, 1)
      BY <2>4 DEF Porcelain
    <3>2. RecordPaths(out[1]) = {1}
      BY <3>1 DEF RecordPaths, Record, OnlyUntrackedSubmodule
    <3> QED BY <3>1, <3>2, <2>4 DEF TrackedChange
  <2>5. CASE c = "twice"
    <3>1. /\ DOMAIN out = {1, 2} /\ out[1] = Record("1", ".M", "N...", TRUE, 1)
          /\ out[2] = Record("1", "M.", "N...", FALSE, 1)
      BY <2>5 DEF Porcelain
    <3>2. RecordPaths(out[1]) = {1} /\ RecordPaths(out[2]) = {1}
      BY <3>1 DEF RecordPaths, Record, OnlyUntrackedSubmodule
    <3>3. paths = {1}
      BY <3>1, <3>2
    <3> QED BY <3>3, <2>5 DEF TrackedChange
  <2>6. CASE c = "submodule_untracked"
    <3>1. DOMAIN out = {1} /\ out[1] = Record("1", ".M", "S..U", TRUE, 1)
      BY <2>6 DEF Porcelain
    <3>2. RecordPaths(out[1]) = {}
      BY <3>1 DEF RecordPaths, Record, OnlyUntrackedSubmodule
    <3> QED BY <3>1, <3>2, <2>6 DEF TrackedChange
  <2>7. CASE c = "submodule_moved"
    <3>1. DOMAIN out = {1} /\ out[1] = Record("1", ".M", "SC..", TRUE, 1)
      BY <2>7 DEF Porcelain
    <3>2. RecordPaths(out[1]) = {1}
      BY <3>1 DEF RecordPaths, Record, OnlyUntrackedSubmodule
    <3> QED BY <3>1, <3>2, <2>7 DEF TrackedChange
  <2> QED BY <2>1, <2>2, <2>3, <2>4, <2>5, <2>6, <2>7 DEF Contents
<1>2. Cardinality({1}) = 1 /\ Cardinality({}) = 0
  BY FS_Singleton, FS_EmptySet
<1>3. ParseTrackedChangeCount(out) = IF TrackedChange(c) THEN 1 ELSE 0
  BY <1>1, <1>2 DEF ParseTrackedChangeCount
<1> QED BY <1>3 DEF FromTrackedChangeCount

\* Garbled output does not parse.
LEMMA GarbledIsRefused ==
  ~ OutputParses(<<[Record("1", ".M", "N...", TRUE, 1) EXCEPT !.valid = FALSE]>>)
BY DEF OutputParses, RecordIsValid, Record

\* Git prints the truth where nothing, seen or unseen, hides changes from it.
LEMMA NothingHides ==
  ASSUME NEW d, NEW guard, NEW printed \in StatusOutputs(d, guard), printed # "nonzero",
         sources.late = {},
         \A e \in {d} \cup Descendants(d, Repositories) :
           /\ Entries(tree[e].facts, sources) \cap RefusedEntries = {}
           /\ tree[e].facts.index # "hidden"
           /\ "filter.d.clean" \in Entries(tree[e].facts, sources) => "d" \in guard
  PROVE  printed = tree[d].content
<1>1. HidingEntries \subseteq RefusedEntries
  BY DEF HidingEntries, RefusedEntries, UnknownKeys
<1> DEFINE here == {d} \cup Descendants(d, Repositories)
           inForce(e) == Entries(tree[e].facts, sources) \cup sources.late
           filtered == \E e \in here :
             /\ "filter" \in {tree[e].facts.attributes, tree[e].facts.info, sources.attributes, sources.userAttributes}
             /\ "filter.d.clean" \in inForce(e)
           hidden == \E e \in here :
             \/ inForce(e) \cap HidingEntries # {}
             \/ tree[e].facts.index = "hidden"
             \/ filtered /\ "d" \notin guard
<1>2. filtered => "d" \in guard
  OBVIOUS
<1>3. ~ hidden
  BY <1>1, <1>2
<1>4. StatusOutputs(d, guard) = IF filtered /\ "d" \in guard THEN {"nonzero"}
                                ELSE IF hidden THEN {"clean", tree[d].content} ELSE {tree[d].content}
  BY DEF StatusOutputs
<1> HIDE DEF filtered, hidden
<1> QED BY <1>3, <1>4
------------------------------------------------------------------------------
(***************************************************************************)
(* What the steps leave alone.                                              *)
(***************************************************************************)
DiscFields == {"candidates", "complete", "issues"}

\* What was judged stays judged when neither the world nor the evidence moves.
LEMMA VouchedStays ==
  ASSUME Vouched, pc # "judge",
         UNCHANGED <<tree, sources, version, gversion, seen, evidence, drivers>>
  PROVE  Vouched'
BY DEF Vouched, Entries

\* The index flags that were checked are about an index that nothing has touched.
LEMMA FlagsStay ==
  ASSUME Flags, pc' # "index_end", UNCHANGED <<tree, version, evidence, indexed>>
  PROVE  Flags'
BY DEF Flags, NotHidden

\* An issue makes a discovery incomplete and changes no candidate.
LEMMA IncompleteIs ==
  ASSUME NEW d, NEW issue, DOMAIN d = DiscFields
  PROVE  /\ DOMAIN Incomplete(d, issue) = DiscFields
         /\ Incomplete(d, issue).candidates = d.candidates
         /\ Incomplete(d, issue).complete = FALSE
BY DEF Incomplete, DiscFields

\* A .git entry becomes a candidate, or the discovery is incomplete.
LEMMA RecordGitIs ==
  ASSUME TypeOk, NEW d \in Dirs
  PROVE  /\ DOMAIN RecordGit(d) = DiscFields
         /\ RecordGit(d).candidates \subseteq Dirs
         /\ RecordGit(d).complete \in BOOLEAN
         /\ RecordGit(d).complete =>
              /\ disc.complete
              /\ \/ tree[d].git = "none" /\ RecordGit(d).candidates = disc.candidates
                 \/ /\ tree[d].git \in {"directory", "file"}
                    /\ RecordGit(d).candidates = disc.candidates \cup {d}
<1>1. /\ DOMAIN disc = DiscFields /\ disc.candidates \subseteq Dirs /\ disc.complete \in BOOLEAN
      /\ tree[d].git \in {"none", "directory", "file", "other"}
  BY DEF TypeOk, TreeOk, DiscFields
<1>2. CASE tree[d].git = "none"
  <2>1. tree[d].git # "other"
    BY <1>2
  <2>2. RecordGit(d) = disc
    BY <1>2, <2>1, SMT DEF RecordGit
  <2> QED BY <2>2, <1>1, <1>2
<1>3. CASE tree[d].git = "other"
  <2>1. RecordGit(d) = Incomplete(disc, "UnsafeRepositoryMetadata") BY <1>3 DEF RecordGit
  <2> QED BY <2>1, <1>1, IncompleteIs
<1>4. CASE tree[d].git \in {"directory", "file"}
  <2>1. CASE Cardinality(disc.candidates) = limits.repositories
    <3>1. RecordGit(d) = Incomplete(disc, "RepositoryLimitReached") BY <1>4, <2>1 DEF RecordGit
    <3> QED BY <3>1, <1>1, IncompleteIs
  <2>2. CASE Cardinality(disc.candidates) # limits.repositories
    <3>1. RecordGit(d) = [disc EXCEPT !.candidates = @ \cup {d}] BY <1>4, <2>2 DEF RecordGit
    <3>2. /\ DOMAIN RecordGit(d) = DiscFields
          /\ RecordGit(d).candidates = disc.candidates \cup {d}
          /\ RecordGit(d).complete = disc.complete
      BY <3>1, <1>1 DEF DiscFields
    <3> QED BY <3>2, <1>1, <1>4
  <2> QED BY <2>1, <2>2
<1> QED BY <1>1, <1>2, <1>3, <1>4

\* A directory at the depth limit is entered in no discovery that stays complete.
LEMMA RecordDepthIs ==
  ASSUME NEW d, NEW found, DOMAIN found = DiscFields, found.complete \in BOOLEAN
  PROVE  /\ DOMAIN RecordDepth(d, found) = DiscFields
         /\ RecordDepth(d, found).candidates = found.candidates
         /\ RecordDepth(d, found).complete \in BOOLEAN
         /\ RecordDepth(d, found).complete =>
              found.complete /\ (Len(d) = limits.depth => Subdirectories(d) = {})
<1>1. CASE Len(d) = limits.depth /\ Subdirectories(d) # {}
  <2>1. RecordDepth(d, found) = Incomplete(found, "DepthLimitReached")
    BY <1>1 DEF RecordDepth
  <2> QED BY <2>1, IncompleteIs
<1>2. CASE ~ (Len(d) = limits.depth /\ Subdirectories(d) # {})
  <2>1. RecordDepth(d, found) = found
    BY <1>2 DEF RecordDepth
  <2> QED BY <2>1, <1>2
<1> QED BY <1>1, <1>2

\* The sequence that is left when there is nothing to visit.
LEMMA NothingPending ==
  /\ <<>> \in Seq(Dirs) /\ ToSet(<<>>) = {}
  /\ \A s \in Seq(Dirs) : ToSet(s) \subseteq Dirs
BY DEF ToSet
------------------------------------------------------------------------------
(***************************************************************************)
(* The initial states.                                                      *)
(***************************************************************************)

\* The facts of an initial tree have the fields of a repository.
LEMMA InitialTreeOk ==
  ASSUME NEW t \in InitialTrees
  PROVE  \A d \in Dirs : /\ t[d].git \in {"none", "directory", "file", "other"}
                         /\ DOMAIN t[d].facts = FactFields
<1> DEFINE Entry == [git |-> "none", readable |-> TRUE, facts |-> GoodRepository]
           Repo == [git |-> "directory", readable |-> TRUE, facts |-> GoodRepository]
           plain == [Dirs -> {Entry, Repo}]
           Ok(u) == /\ DOMAIN u = Dirs
                    /\ \A d \in Dirs : /\ DOMAIN u[d] = {"git", "readable", "facts"}
                                       /\ u[d].git \in {"none", "directory", "file", "other"}
                                       /\ DOMAIN u[d].facts = FactFields
<1>1. ASSUME NEW u \in plain PROVE Ok(u)
  <2>1. \A d \in Dirs : u[d] = Entry \/ u[d] = Repo
    OBVIOUS
  <2> QED BY <2>1 DEF FactFields
<1>2. DOMAIN Submodule = FactFields /\ DOMAIN LinkedWorktree = FactFields
  BY DEF Submodule, LinkedWorktree, FactFields
<1>3. CASE t \in plain
  BY <1>1, <1>3
<1>4. CASE t \notin plain
  <2> DEFINE files(u, e) ==
               {[u EXCEPT ![e] = [git |-> "file", readable |-> TRUE, facts |-> f]] : f \in {Submodule, LinkedWorktree}}
             states(u, e) == {[u EXCEPT ![e].git = "other"], [u EXCEPT ![e].readable = FALSE]}
             flaws(u, e) == {[u EXCEPT ![e].facts[x[1]] = x[2]] : x \in RepositoryFlaws}
             modules(u, e) ==
               {[u EXCEPT ![e].git = "file", ![e].facts = [Submodule EXCEPT ![x[1]] = x[2]]]
                  : x \in {y \in RepositoryFlaws : y[1] \in {"gitdir", "coreWorktree", "back"}}}
             odd(u) == UNION {files(u, e) \cup states(u, e)
                                \cup (IF u[e].git = "none" THEN {} ELSE flaws(u, e) \cup modules(u, e)) : e \in Dirs}
  <2>1. PICK u \in plain, e \in Dirs :
          t \in files(u, e) \/ t \in states(u, e) \/ t \in flaws(u, e) \/ t \in modules(u, e)
    <3>1. t \in plain \cup UNION {odd(u) : u \in plain}
      BY DEF InitialTrees
    <3>2. PICK u \in plain : t \in odd(u)
      <4> HIDE DEF odd, plain
      <4> QED BY <3>1, <1>4
    <3>3. PICK e \in Dirs : t \in files(u, e) \cup states(u, e)
                               \cup (IF u[e].git = "none" THEN {} ELSE flaws(u, e) \cup modules(u, e))
      <4> HIDE DEF files, states, flaws, modules, plain
      <4> QED BY <3>2
    <3> HIDE DEF files, states, flaws, modules, plain
    <3> QED BY <3>3
  <2>2. Ok(u)
    BY <1>1
  <2> HIDE DEF plain
  <2>3. ASSUME t \in files(u, e) PROVE Ok(t)
    BY <2>2, <2>3, <1>2
  <2>4. ASSUME t \in states(u, e) PROVE Ok(t)
    BY <2>2, <2>4
  <2>6. ASSUME t \in flaws(u, e) PROVE Ok(t)
    <3>1. PICK x \in RepositoryFlaws : t = [u EXCEPT ![e].facts[x[1]] = x[2]]
      BY <2>6
    <3> QED BY <2>2, <3>1
  <2>7. ASSUME t \in modules(u, e) PROVE Ok(t)
    <3>1. PICK x \in RepositoryFlaws :
            t = [u EXCEPT ![e].git = "file", ![e].facts = [Submodule EXCEPT ![x[1]] = x[2]]]
      BY <2>7
    <3> QED BY <2>2, <3>1, <1>2
  <2> HIDE DEF files, states, flaws, modules
  <2> QED BY <2>1, <2>3, <2>4, <2>6, <2>7
<1> QED BY <1>3, <1>4

\* Before the walk, everything is at or below the root, which is still to be visited.
LEMMA InitIInv ==
  ASSUME Init
  PROVE  IInv
<1>1. PICK t \in InitialTrees, dirty \in Dirs, content \in Contents \cup {"clean", "modified"} :
        tree = [d \in Dirs |-> [git |-> t[d].git, readable |-> t[d].readable, facts |-> t[d].facts,
                                content |-> IF d = dirty /\ t[d].git # "none" THEN content ELSE "clean"]]
  <2>1. PICK t \in InitialTrees :
          \E dirty \in Dirs, content \in IF IsPlain(t) THEN Contents ELSE {"clean", "modified"} :
            tree = [d \in Dirs |-> [git |-> t[d].git, readable |-> t[d].readable, facts |-> t[d].facts,
                                    content |-> IF d = dirty /\ t[d].git # "none" THEN content ELSE "clean"]]
    BY Zenon DEF Init
  <2>2. \A c : c \in (IF IsPlain(t) THEN Contents ELSE {"clean", "modified"}) => c \in Contents \cup {"clean", "modified"}
    OBVIOUS
  <2>3. PICK dirty \in Dirs, content \in IF IsPlain(t) THEN Contents ELSE {"clean", "modified"} :
          tree = [d \in Dirs |-> [git |-> t[d].git, readable |-> t[d].readable, facts |-> t[d].facts,
                                  content |-> IF d = dirty /\ t[d].git # "none" THEN content ELSE "clean"]]
    BY <2>1
  <2>4. content \in Contents \cup {"clean", "modified"}
    BY <2>2
  <2> QED BY <2>3, <2>4
<1>2. TreeOk(tree)
  <2>1. content \in Contents /\ "clean" \in Contents
    BY DEF Contents
  <2> QED BY <1>1, <2>1, InitialTreeOk DEF TreeOk
<1>3. /\ version = [d \in Dirs |-> Fresh] /\ gversion = 1
      /\ pc = "discover" /\ todo = <<<<>>>> /\ disc = NoDiscovery
      /\ seen = [root |-> 1, sources |-> 1] /\ evidence = [d \in Dirs |-> Unprepared]
      /\ drivers = [d \in Dirs |-> {}] /\ indexed = {}
      /\ report = [d \in Dirs |-> "none"] /\ truth = [d \in Dirs |-> "none"] /\ result = NoResult
  BY DEF Init
<1>4. <<>> \in Dirs /\ <<<<>>>> \in Seq(Dirs) /\ Pending = {<<>>}
  BY <1>3, GitInspectAssumption DEF Pending, ToSet
<1>5. TypeOk
  <2>1. DOMAIN sources = SourceFields
    <3>1. sources \in InitialSources
      BY Zenon DEF Init
    <3> QED BY <3>1 DEF InitialSources, SourceFields, GoodSources
  <2> QED BY <1>2, <1>3, <1>4, <2>1 DEF TypeOk, AllPcs, NoDiscovery, Fresh, Unprepared, Counters, Known, Truths
<1>6. EvidenceOld
  BY <1>3 DEF EvidenceOld, Fresh, Unprepared
<1>7. Coverage
  <2>1. ASSUME NEW d \in Dirs PROVE d = <<>> \/ IsStrictDescendant(d, <<>>)
    <3>1. d \in Seq(Names) /\ Len(<<>>) = 0
      BY GitInspectAssumption
    <3>2. SubSeq(d, 1, 0) = <<>>
      BY <3>1
    <3>3. d # <<>> => Len(d) > 0
      BY <3>1
    <3> QED BY <3>1, <3>2, <3>3 DEF IsStrictDescendant
  <2> QED BY <2>1, <1>3, <1>4 DEF Coverage, Found, NoDiscovery
<1>8. Early /\ Accounted /\ Flags /\ Order /\ Answered
  BY <1>3 DEF Early, Accounted, Flags, Order, Answered, NoResult, Known, StatusPcs, PreflightPcs, IndexPcs
<1>9. Vouched
  BY <1>3 DEF Vouched, Fresh, Unprepared
<1>10. ReportedStateWasTrue /\ ParentNeverOutranksChild /\ NothingIsOverlooked
  BY <1>3 DEF ReportedStateWasTrue, ParentNeverOutranksChild, NothingIsOverlooked, NoResult
<1> QED BY <1>5, <1>6, <1>7, <1>8, <1>9, <1>10 DEF IInv
------------------------------------------------------------------------------
(***************************************************************************)
(* The end of an inspection, wherever it comes from.                        *)
(***************************************************************************)

\* A known aggregate stands for a complete discovery without an unknown state.
LEMMA AggregateIsKnown ==
  ASSUME NEW d, NEW states, Finish(d, states),
         result'.aggregate \in {"Clean", "Dirty", "NotApplicable"}
  PROVE  d.complete /\ \A x \in d.candidates : states[x] # "Unknown"
<1>1. result'.aggregate = IF d.issues # <<>> THEN "Unknown"
                          ELSE AggregateGitState(d.complete, {states[x] : x \in d.candidates})
  BY DEF Finish
<1>2. AggregateGitState(d.complete, {states[x] : x \in d.candidates}) # "Unknown"
  BY <1>1
<1> QED BY <1>2 DEF AggregateGitState

\* An inspection ends with a known aggregate only over a whole discovery.
LEMMA FinishStep ==
  ASSUME IInv, NEW d, NEW states, Finish(d, states), pc # "done",
         DOMAIN d = DiscFields, d.candidates \subseteq Dirs, d.complete \in BOOLEAN,
         states \in [Dirs -> {"none", "Unknown"} \cup Known],
         states = report \/ \A x \in Dirs : states[x] \notin Known,
         d.complete /\ (\A x \in d.candidates : states[x] # "Unknown") =>
           d.candidates = Found /\ \A x \in d.candidates : states[x] \in Known,
         seen' \in [root : Nat, sources : Nat], EvidenceOld', Vouched',
         UNCHANGED <<tree, sources, version, gversion, evidence, drivers, indexed, query, truth>>
  PROVE  IInv'
<1>0. /\ TypeOk /\ Flags /\ ReportedStateWasTrue /\ ParentNeverOutranksChild
  BY DEF IInv
<1>1. /\ disc' = d /\ report' = states /\ pc' = "done" /\ todo' = <<>>
      /\ result'.candidates = d.candidates
  BY DEF Finish
<1>2. TypeOk'
  BY <1>0, <1>1, NothingPending DEF TypeOk, TreeOk, AllPcs, DiscFields
<1>3. Coverage' /\ Early' /\ Accounted' /\ Order' /\ Answered'
  BY <1>1 DEF Coverage, Early, Accounted, Order, Answered, PreflightPcs, IndexPcs, StatusPcs
<1>4. Flags'
  BY <1>0, <1>1, FlagsStay
<1>5. ReportedStateWasTrue'
  BY <1>0, <1>1 DEF ReportedStateWasTrue, Known
<1>6. ParentNeverOutranksChild'
  BY <1>0, <1>1 DEF ParentNeverOutranksChild, Known
<1>7. NothingIsOverlooked'
  <2> SUFFICES ASSUME result'.aggregate \in {"Clean", "Dirty", "NotApplicable"}
               PROVE  /\ d.candidates = Found
                      /\ \A x \in d.candidates : states[x] \in Known
    BY <1>1 DEF NothingIsOverlooked, Found, Known
  <2>1. d.complete /\ \A x \in d.candidates : states[x] # "Unknown"
    BY AggregateIsKnown
  <2> QED BY <2>1
<1> QED BY <1>2, <1>3, <1>4, <1>5, <1>6, <1>7 DEF IInv
------------------------------------------------------------------------------
(***************************************************************************)
(* The walk.                                                                *)
(***************************************************************************)

\* What the discovery does not touch.
LEMMA DiscoveryFrame ==
  ASSUME IInv, pc = "discover", pc' \in {"discover", "sources"},
         UNCHANGED <<tree, sources, version, gversion, seen, evidence, drivers, indexed, query,
                     report, truth, result>>
  PROVE  /\ EvidenceOld' /\ Early' /\ Accounted' /\ Vouched' /\ Flags' /\ Order' /\ Answered'
         /\ ReportedStateWasTrue' /\ ParentNeverOutranksChild' /\ NothingIsOverlooked'
<1>0. /\ EvidenceOld /\ Early /\ Vouched /\ Flags
      /\ ReportedStateWasTrue /\ ParentNeverOutranksChild /\ NothingIsOverlooked
  BY DEF IInv
<1>1. EvidenceOld'
  BY <1>0 DEF EvidenceOld
<1>2. Early' /\ Accounted' /\ Order' /\ Answered'
  BY <1>0 DEF Early, Accounted, Order, Answered, PreflightPcs, IndexPcs, StatusPcs
<1>3. Vouched' /\ Flags'
  BY <1>0, VouchedStays, FlagsStay
<1>4. ReportedStateWasTrue' /\ ParentNeverOutranksChild' /\ NothingIsOverlooked'
  BY <1>0 DEF ReportedStateWasTrue, ParentNeverOutranksChild, NothingIsOverlooked
<1> QED BY <1>1, <1>2, <1>3, <1>4

\* Visiting a directory hands what is below it on to its subdirectories.
LEMMA ScanDirectoryStep ==
  ASSUME IInv, ScanDirectory
  PROVE  IInv'
<1>0. TypeOk /\ Coverage
  BY DEF IInv
<1>1. /\ pc = "discover" /\ pc' = pc /\ todo # <<>>
      /\ UNCHANGED <<tree, sources, version, gversion, seen, evidence, drivers, indexed, query,
                     report, truth, result>>
  BY DEF ScanDirectory, world, Unchecked
<1> DEFINE d == Last(todo)
           rest == Front(todo)
<1>2. d \in Dirs /\ rest \in Seq(Dirs) /\ \A x \in Pending : x = d \/ x \in ToSet(rest)
  BY <1>0, <1>1, LastAndFront DEF TypeOk, Pending
<1>3. DOMAIN disc = DiscFields /\ disc.candidates \subseteq Dirs /\ disc.complete \in BOOLEAN
  BY <1>0 DEF TypeOk, DiscFields
<1> DEFINE Goal ==
      /\ todo' \in Seq(Dirs) /\ DOMAIN disc' = DiscFields
      /\ disc'.candidates \subseteq Dirs /\ disc'.complete \in BOOLEAN
      /\ disc'.complete =>
           /\ disc'.candidates \subseteq Repositories
           /\ \A x \in Found : x \in disc'.candidates
                \/ \E t \in ToSet(todo') : x = t \/ IsStrictDescendant(x, t)
<1>4. ASSUME ~tree[d].readable PROVE Goal
  <2>1. disc' = Incomplete(disc, "ScanFailed") /\ todo' = rest
    BY <1>4 DEF ScanDirectory
  <2>2. DOMAIN disc' = DiscFields /\ disc'.candidates = disc.candidates /\ disc'.complete = FALSE
    BY <2>1, <1>3, IncompleteIs
  <2>3. todo' \in Seq(Dirs)
    BY <2>1, <1>2
  <2> QED BY <2>2, <2>3, <1>3 DEF Goal
<1>5. ASSUME tree[d].readable /\ scanned + EntryCount(d) > limits.entries PROVE Goal
  <2>1. PICK found \in {disc, RecordGit(d)} : disc' = Incomplete(found, "ScanLimitReached")
    BY <1>5 DEF ScanDirectory
  <2>2. todo' = <<>>
    BY <1>5 DEF ScanDirectory
  <2>3. DOMAIN found = DiscFields /\ found.candidates \subseteq Dirs
    BY <2>1, <1>0, <1>2, <1>3, RecordGitIs
  <2>4. DOMAIN disc' = DiscFields /\ disc'.candidates = found.candidates /\ disc'.complete = FALSE
    BY <2>1, <2>3, IncompleteIs
  <2> QED BY <2>2, <2>3, <2>4, NothingPending DEF Goal
<1>6. ASSUME tree[d].readable /\ ~ (scanned + EntryCount(d) > limits.entries) PROVE Goal
  <2> DEFINE found == RecordGit(d)
             subs == IF Len(d) = limits.depth THEN <<>> ELSE SetToSeq(Subdirectories(d))
  <2>1. disc' = RecordDepth(d, found) /\ todo' = rest \o subs
    BY <1>6 DEF ScanDirectory
  <2>2. /\ DOMAIN found = DiscFields /\ found.candidates \subseteq Dirs /\ found.complete \in BOOLEAN
        /\ found.complete =>
             /\ disc.complete
             /\ \/ tree[d].git = "none" /\ found.candidates = disc.candidates
                \/ tree[d].git \in {"directory", "file"} /\ found.candidates = disc.candidates \cup {d}
    BY <1>0, <1>2, RecordGitIs
  <2>3. /\ DOMAIN disc' = DiscFields /\ disc'.candidates = found.candidates /\ disc'.complete \in BOOLEAN
        /\ disc'.complete => found.complete /\ (Len(d) = limits.depth => Subdirectories(d) = {})
    BY <2>1, <2>2, RecordDepthIs
  <2>4. Subdirectories(d) \subseteq Dirs
    BY DEF Subdirectories
  <2>5. subs \in Seq(Dirs) /\ (disc'.complete => Subdirectories(d) \subseteq ToSet(subs))
    <3>1. CASE Len(d) = limits.depth
      BY <3>1, <2>3, NothingPending
    <3>2. CASE Len(d) # limits.depth
      BY <3>2, <2>4, SetToSeqLists
    <3> QED BY <3>1, <3>2
  <2>6. /\ todo' \in Seq(Dirs) /\ ToSet(rest) \subseteq ToSet(todo') /\ ToSet(subs) \subseteq ToSet(todo')
    BY <2>1, <2>5, <1>2, Concatenated
  <2> HIDE DEF found, subs, d, rest
  <2>7. ASSUME disc'.complete, NEW x \in Found
        PROVE  x \in disc'.candidates \/ \E t \in ToSet(todo') : x = t \/ IsStrictDescendant(x, t)
    <3>1. x \in Dirs /\ tree[x].git # "none"
      BY DEF Found
    <3>2. x \in disc.candidates \/ \E t \in Pending : x = t \/ IsStrictDescendant(x, t)
      BY <1>0, <1>1, <2>2, <2>3, <2>7 DEF Coverage
    <3>3. CASE x \in disc.candidates
      BY <3>3, <2>2, <2>3, <2>7
    <3>4. CASE x = d
      BY <3>1, <3>4, <2>2, <2>3, <2>7
    <3>5. CASE IsStrictDescendant(x, d)
      <4>1. PICK s \in Subdirectories(d) : x = s \/ IsStrictDescendant(x, s)
        BY <3>1, <3>5, <1>2, ThroughSubdirectory
      <4>2. s \in ToSet(todo')
        BY <4>1, <2>5, <2>6, <2>7
      <4> QED BY <4>1, <4>2
    <3>6. CASE \E t \in ToSet(rest) : x = t \/ IsStrictDescendant(x, t)
      BY <3>6, <2>6
    <3> QED BY <3>2, <3>3, <3>4, <3>5, <3>6, <1>2
  <2>8. disc'.complete => disc'.candidates \subseteq Repositories
    <3>1. disc.complete => disc.candidates \subseteq Repositories
      BY <1>0, <1>1 DEF Coverage
    <3>2. tree[d].git \in {"directory", "file"} => d \in Repositories
      BY <1>2 DEF Repositories
    <3> QED BY <3>1, <3>2, <2>2, <2>3
  <2>9. disc'.candidates \subseteq Dirs /\ todo' \in Seq(Dirs)
    BY <2>2, <2>3, <2>6
  <2>10. disc'.complete => \A x \in Found : x \in disc'.candidates
                             \/ \E t \in ToSet(todo') : x = t \/ IsStrictDescendant(x, t)
    BY <2>7
  <2> QED BY <2>3, <2>8, <2>9, <2>10 DEF Goal
<1>7. Goal
  BY <1>4, <1>5, <1>6
<1>8. TypeOk'
  BY <1>0, <1>1, <1>7 DEF TypeOk, TreeOk, DiscFields
<1>9. Coverage'
  BY <1>1, <1>7 DEF Coverage, Repositories, Found, Pending
<1>10. /\ EvidenceOld' /\ Early' /\ Accounted' /\ Vouched' /\ Flags' /\ Order' /\ Answered'
       /\ ReportedStateWasTrue' /\ ParentNeverOutranksChild' /\ NothingIsOverlooked'
  BY <1>1, DiscoveryFrame
<1> QED BY <1>8, <1>9, <1>10 DEF IInv

\* A walk that runs out of its budget is not a whole discovery.
LEMMA ScanExpiredStep ==
  ASSUME IInv, ScanExpired
  PROVE  IInv'
<1>0. TypeOk
  BY DEF IInv
<1>1. /\ pc = "discover" /\ pc' = pc /\ todo' = <<>> /\ disc' = Incomplete(disc, "BudgetExpired")
      /\ UNCHANGED <<tree, sources, version, gversion, seen, evidence, drivers, indexed, query,
                     report, truth, result>>
  BY DEF ScanExpired, world, Unchecked
<1>2. DOMAIN disc' = DiscFields /\ disc'.candidates \subseteq Dirs /\ disc'.complete = FALSE
  BY <1>0, <1>1, IncompleteIs DEF TypeOk, DiscFields
<1>3. TypeOk'
  BY <1>0, <1>1, <1>2, NothingPending DEF TypeOk, TreeOk, DiscFields
<1>4. Coverage'
  BY <1>1, <1>2 DEF Coverage
<1>5. /\ EvidenceOld' /\ Early' /\ Accounted' /\ Vouched' /\ Flags' /\ Order' /\ Answered'
      /\ ReportedStateWasTrue' /\ ParentNeverOutranksChild' /\ NothingIsOverlooked'
  BY <1>1, DiscoveryFrame
<1> QED BY <1>3, <1>4, <1>5 DEF IInv

\* A complete discovery has found every repository.
LEMMA DiscoveryIsWhole ==
  ASSUME TypeOk, Coverage, pc = "discover", todo = <<>>, disc.complete
  PROVE  disc.candidates = Repositories /\ disc.candidates = Found
<1>1. Pending = {}
  BY NothingPending DEF Pending
<1>2. disc.candidates \subseteq Repositories /\ Found \subseteq disc.candidates
  BY <1>1 DEF Coverage
<1> QED BY <1>2 DEF Repositories, Found

\* A walk that was stopped ends the inspection; a whole one has found every repository.
LEMMA DiscoveredStep ==
  ASSUME IInv, Discovered
  PROVE  IInv'
<1>0. TypeOk /\ Coverage /\ EvidenceOld /\ Vouched
  BY DEF IInv
<1>1. /\ pc = "discover" /\ todo = <<>>
      /\ UNCHANGED <<tree, sources, version, gversion, seen, evidence, drivers, indexed, query, truth>>
  BY DEF Discovered, world
<1>2. DOMAIN disc = DiscFields /\ disc.candidates \subseteq Dirs /\ disc.complete \in BOOLEAN
  BY <1>0 DEF TypeOk, DiscFields
<1>3. CASE disc.complete /\ disc.candidates # {}
  <2>1. pc' = "sources" /\ UNCHANGED <<todo, disc, report, result>>
    BY <1>3 DEF Discovered
  <2>2. TypeOk'
    BY <1>0, <1>1, <2>1 DEF TypeOk, TreeOk, AllPcs
  <2>3. Coverage'
    BY <1>0, <1>1, <1>3, <2>1, DiscoveryIsWhole DEF Coverage, Repositories, Found
  <2>4. /\ EvidenceOld' /\ Early' /\ Accounted' /\ Vouched' /\ Flags' /\ Order' /\ Answered'
        /\ ReportedStateWasTrue' /\ ParentNeverOutranksChild' /\ NothingIsOverlooked'
    BY <1>1, <2>1, DiscoveryFrame
  <2> QED BY <2>2, <2>3, <2>4 DEF IInv
<1>4. CASE ~ (disc.complete /\ disc.candidates # {})
  <2>1. Finish(disc, AllUnknown)
    BY <1>4 DEF Discovered
  <2>2. /\ AllUnknown \in [Dirs -> {"none", "Unknown"} \cup Known]
        /\ \A x \in Dirs : AllUnknown[x] \notin Known
        /\ \A x \in disc.candidates : AllUnknown[x] = "Unknown"
    BY <1>2 DEF AllUnknown, Known
  <2>3. ASSUME disc.complete, \A x \in disc.candidates : AllUnknown[x] # "Unknown"
        PROVE  disc.candidates = Found /\ \A x \in disc.candidates : AllUnknown[x] \in Known
    <3>1. disc.candidates = {}
      BY <2>2, <2>3
    <3> QED BY <3>1, <2>3, <1>0, <1>1, DiscoveryIsWhole
  <2>4. EvidenceOld' /\ Vouched' /\ seen' \in [root : Nat, sources : Nat]
    BY <1>0, <1>1, VouchedStays DEF EvidenceOld, TypeOk
  <2> QED BY <2>1, <2>2, <2>3, <2>4, <1>1, <1>2, FinishStep
<1> QED BY <1>3, <1>4

\* A root that cannot be opened ends the inspection with nothing known.
LEMMA InvalidCopyRootStep ==
  ASSUME IInv, InvalidCopyRoot
  PROVE  IInv'
<1>0. TypeOk /\ EvidenceOld /\ Vouched
  BY DEF IInv
<1> DEFINE d == Incomplete(NoDiscovery, "InvalidCopyRoot")
<1>1. /\ pc = "discover" /\ Finish(d, report)
      /\ UNCHANGED <<tree, sources, version, gversion, seen, evidence, drivers, indexed, query, truth>>
  BY DEF InvalidCopyRoot, world
<1>2. DOMAIN d = DiscFields /\ d.candidates = {} /\ d.complete = FALSE
  BY IncompleteIs DEF NoDiscovery, DiscFields
<1>3. EvidenceOld' /\ Vouched' /\ seen' \in [root : Nat, sources : Nat]
  BY <1>0, <1>1, VouchedStays DEF EvidenceOld, TypeOk
<1>4. report \in [Dirs -> {"none", "Unknown"} \cup Known]
  BY <1>0 DEF TypeOk
<1> HIDE DEF d
<1> QED BY <1>1, <1>2, <1>3, <1>4, FinishStep
------------------------------------------------------------------------------
(***************************************************************************)
(* The preflight.                                                           *)
(***************************************************************************)

\* A query that is fine has a verdict that is.
LEMMA VerdictIsOk ==
  ASSUME NEW verdict, "ok" \in Verdicts(verdict)
  PROVE  verdict = "ok"
BY DEF Verdicts

\* Before the status queries nothing is known, so nothing can be known wrongly.
LEMMA NothingKnown ==
  ASSUME \A d \in Dirs : report'[d] \notin Known, result'.aggregate = "none"
  PROVE  ReportedStateWasTrue' /\ ParentNeverOutranksChild' /\ NothingIsOverlooked'
BY DEF ReportedStateWasTrue, ParentNeverOutranksChild, NothingIsOverlooked, Known

\* What the preflight and the index queries do not touch.
LEMMA QuietFrame ==
  ASSUME IInv, pc \in {"sources"} \cup PreflightPcs \cup IndexPcs, pc' \in PreflightPcs \cup IndexPcs,
         UNCHANGED <<tree, disc, result>> \/ UNCHANGED <<tree, disc.candidates, result>>,
         \A d \in Dirs : report'[d] \notin Known
  PROVE  /\ Coverage' /\ Order' /\ Answered'
         /\ ReportedStateWasTrue' /\ ParentNeverOutranksChild' /\ NothingIsOverlooked'
<1>0. Coverage /\ Early
  BY DEF IInv
<1>1. /\ pc \notin {"discover", "done"} /\ pc' \notin {"discover", "done"} \cup StatusPcs
      /\ disc.candidates' = disc.candidates /\ tree' = tree /\ result' = result
  BY DEF PreflightPcs, IndexPcs, StatusPcs
<1>2. Coverage' /\ Order' /\ Answered'
  BY <1>0, <1>1 DEF Coverage, Order, Answered, Repositories, Found, StatusPcs
<1>3. result'.aggregate = "none"
  BY <1>0, <1>1 DEF Early, PreflightPcs
<1> QED BY <1>2, <1>3, NothingKnown

\* What is read of the sources outside is as old as the evidence that is kept of them.
LEMMA PreflightSourcesStep ==
  ASSUME IInv, PreflightSources
  PROVE  IInv'
<1>0. TypeOk /\ EvidenceOld /\ Coverage /\ Early /\ Vouched /\ Flags
  BY DEF IInv
<1>1. /\ pc = "sources" /\ seen' = [seen EXCEPT !.sources = gversion]
      /\ UNCHANGED <<tree, sources, version, gversion, evidence, drivers, indexed, query, truth>>
  BY DEF PreflightSources, world
<1>2. /\ DOMAIN disc = DiscFields /\ disc.candidates \subseteq Dirs /\ disc.complete \in BOOLEAN
      /\ seen \in [root : Nat, sources : Nat] /\ gversion \in Nat
  BY <1>0 DEF TypeOk, DiscFields
<1>3. seen' \in [root : Nat, sources : Nat] /\ seen'.sources = gversion
  BY <1>1, <1>2
<1>4. EvidenceOld'
  BY <1>0, <1>1, <1>2, <1>3 DEF EvidenceOld
<1>5. Vouched'
  <2>1. \A d \in Dirs : evidence[d].files = 0 /\ version[d].files > 0
    BY <1>0, <1>1 DEF Early, EvidenceOld, Unprepared
  <2>2. \A d \in Dirs : version[d].files # evidence[d].files
    BY <2>1, <1>0 DEF TypeOk, Counters
  <2> QED BY <2>2, <1>1 DEF Vouched
<1>6. CASE pc' = "preflight" /\ todo' = SetToSeq(disc.candidates) /\ UNCHANGED <<disc, report, result>>
  <2>1. todo' \in Seq(Dirs) /\ ToSet(todo') = disc.candidates
    BY <1>2, <1>6, SetToSeqLists
  <2>2. TypeOk'
    BY <1>0, <1>1, <1>3, <1>6, <2>1 DEF TypeOk, TreeOk, AllPcs, PreflightPcs
  <2>3. Early'
    BY <1>0, <1>1, <1>6 DEF Early, StatusPcs, PreflightPcs
  <2>4. Accounted'
    BY <1>6, <2>1 DEF Accounted, PreflightPcs, IndexPcs, StatusPcs, Pending
  <2>5. Flags'
    BY <1>0, <1>1, <1>6, FlagsStay
  <2>6. \A d \in Dirs : report'[d] \notin Known
    BY <1>0, <1>1, <1>6 DEF Early, StatusPcs, PreflightPcs
  <2>7. /\ Coverage' /\ Order' /\ Answered'
        /\ ReportedStateWasTrue' /\ ParentNeverOutranksChild' /\ NothingIsOverlooked'
    BY <1>1, <1>6, <2>6, QuietFrame DEF PreflightPcs
  <2> QED BY <1>4, <1>5, <2>2, <2>3, <2>4, <2>5, <2>7 DEF IInv
<1>7. ASSUME NEW issue, Finish([disc EXCEPT !.issues = Append(@, issue)], AllUnknown)
      PROVE  IInv'
  <2> DEFINE d == [disc EXCEPT !.issues = Append(@, issue)]
  <2>1. /\ DOMAIN d = DiscFields /\ d.candidates = disc.candidates /\ d.complete = disc.complete
    BY <1>2 DEF DiscFields
  <2>2. /\ AllUnknown \in [Dirs -> {"none", "Unknown"} \cup Known]
        /\ \A x \in Dirs : AllUnknown[x] \notin Known
        /\ \A x \in disc.candidates : AllUnknown[x] = "Unknown"
    BY <1>2 DEF AllUnknown, Known
  <2>3. disc.candidates = Found
    BY <1>0, <1>1 DEF Coverage
  <2> HIDE DEF d
  <2>4. Finish(d, AllUnknown)
    BY <1>7 DEF d
  <2>5. d.complete /\ (\A x \in d.candidates : AllUnknown[x] # "Unknown") =>
           d.candidates = Found /\ \A x \in d.candidates : AllUnknown[x] \in Known
    BY <2>1, <2>2, <2>3
  <2> QED BY <1>1, <1>2, <1>3, <1>4, <1>5, <2>1, <2>2, <2>4, <2>5, FinishStep
<1> QED BY <1>6, <1>7 DEF PreflightSources

\* The evidence is taken before the facts are judged, and vouches for nothing until then.
LEMMA PreflightReadStep ==
  ASSUME IInv, PreflightRead
  PROVE  IInv'
<1>0. TypeOk /\ EvidenceOld /\ Coverage /\ Early /\ Vouched /\ Flags /\ Accounted
  BY DEF IInv
<1> DEFINE h == Head(todo)
<1>1. /\ pc = "preflight" /\ pc' = "judge" /\ todo # <<>>
      /\ evidence' = [evidence EXCEPT ![h] = version[h]]
      /\ UNCHANGED <<tree, sources, version, gversion, seen, todo, disc, drivers, indexed, query,
                     report, truth, result>>
  BY DEF PreflightRead, world
<1>2. h \in Dirs /\ version[h] \in Counters
  BY <1>0, <1>1, HeadAndTail DEF TypeOk
<1>3. /\ evidence' \in [Dirs -> Counters] /\ evidence'[h] = version[h]
      /\ \A d \in Dirs : d # h => evidence'[d] = evidence[d]
  BY <1>0, <1>1, <1>2 DEF TypeOk
<1>4. TypeOk'
  BY <1>0, <1>1, <1>3 DEF TypeOk, TreeOk, AllPcs, PreflightPcs
<1>5. EvidenceOld'
  <2>1. version[h].files <= version[h].files /\ version[h].index <= version[h].index
    BY <1>2 DEF Counters
  <2> QED BY <1>0, <1>1, <1>3, <2>1 DEF EvidenceOld
<1>6. Early'
  BY <1>0, <1>1 DEF Early, StatusPcs, PreflightPcs
<1>7. evidence'[h] # Unprepared
  BY <1>0, <1>2, <1>3 DEF EvidenceOld, Unprepared
<1>8. Accounted'
  BY <1>0, <1>1, <1>3, <1>7 DEF Accounted, PreflightPcs, IndexPcs, StatusPcs, Pending, TypeOk
<1>9. Vouched'
  BY <1>0, <1>1, <1>3 DEF Vouched
<1>10. Flags'
  <2>2. indexed = {}
    BY <1>0, <1>1 DEF Early, PreflightPcs
  <2> QED BY <1>1, <2>2 DEF Flags
<1>11. \A d \in Dirs : report'[d] \notin Known
  BY <1>0, <1>1 DEF Early, StatusPcs, PreflightPcs
<1>12. /\ Coverage' /\ Order' /\ Answered'
       /\ ReportedStateWasTrue' /\ ParentNeverOutranksChild' /\ NothingIsOverlooked'
  BY <1>1, <1>11, QuietFrame DEF PreflightPcs
<1> QED BY <1>4, <1>5, <1>6, <1>8, <1>9, <1>10, <1>12 DEF IInv

\* A repository the budget does not reach is unknown.
LEMMA PreflightExpiredStep ==
  ASSUME IInv, PreflightExpired
  PROVE  IInv'
<1>0. TypeOk /\ EvidenceOld /\ Coverage /\ Early /\ Vouched /\ Flags /\ Accounted
  BY DEF IInv
<1> DEFINE h == Head(todo)
<1>1. /\ pc = "preflight" /\ pc' = pc /\ todo # <<>> /\ todo' = Tail(todo)
      /\ disc' = [disc EXCEPT !.complete = FALSE, !.issues = Append(@, "BudgetExpired")]
      /\ report' = [report EXCEPT ![h] = "Unknown"]
      /\ UNCHANGED <<tree, sources, version, gversion, seen, evidence, drivers, indexed, query,
                     truth, result>>
  BY DEF PreflightExpired, world, Unknown
<1>2. /\ h \in Dirs /\ todo' \in Seq(Dirs)
      /\ \A x \in Pending : x = h \/ x \in ToSet(todo')
  BY <1>0, <1>1, HeadAndTail DEF TypeOk, Pending
<1>3. /\ DOMAIN disc' = DiscFields /\ disc'.candidates = disc.candidates /\ disc'.complete = FALSE
      /\ disc.candidates \subseteq Dirs
  BY <1>0, <1>1 DEF TypeOk, DiscFields
<1>4. /\ report' \in [Dirs -> {"none", "Unknown"} \cup Known] /\ report'[h] = "Unknown"
      /\ \A d \in Dirs : d # h => report'[d] = report[d]
  BY <1>0, <1>1, <1>2 DEF TypeOk
<1>5. \A d \in Dirs : report'[d] \notin Known
  BY <1>0, <1>1, <1>4 DEF Early, StatusPcs, Known
<1>6. TypeOk'
  BY <1>0, <1>1, <1>2, <1>3, <1>4 DEF TypeOk, TreeOk, DiscFields
<1>7. EvidenceOld' /\ Vouched' /\ Flags'
  BY <1>0, <1>1, VouchedStays, FlagsStay DEF EvidenceOld
<1>8. Early'
  BY <1>0, <1>1, <1>5 DEF Early, StatusPcs, PreflightPcs
<1>9. Accounted'
  BY <1>0, <1>1, <1>2, <1>3, <1>4 DEF Accounted, PreflightPcs, IndexPcs, StatusPcs, Pending
<1>10. /\ Coverage' /\ Order' /\ Answered'
       /\ ReportedStateWasTrue' /\ ParentNeverOutranksChild' /\ NothingIsOverlooked'
  BY <1>1, <1>3, <1>5, QuietFrame DEF PreflightPcs
<1> QED BY <1>6, <1>7, <1>8, <1>9, <1>10 DEF IInv

\* Accepted facts are vouched for by evidence that was looked at once more.
LEMMA PreflightJudgeStep ==
  ASSUME IInv, PreflightJudge
  PROVE  IInv'
<1>0. TypeOk /\ EvidenceOld /\ Coverage /\ Early /\ Vouched /\ Flags /\ Accounted
  BY DEF IInv
<1> DEFINE h == Head(todo)
<1>1. /\ pc = "judge" /\ pc' = "preflight" /\ todo' = Tail(todo)
      /\ UNCHANGED <<tree, sources, version, gversion, seen, disc, indexed, query, truth, result>>
  BY DEF PreflightJudge, world
<1>2. /\ h \in Dirs /\ todo' \in Seq(Dirs) /\ todo # <<>>
      /\ \A x \in Pending : x = h \/ x \in ToSet(todo')
  BY <1>0, <1>1, HeadAndTail DEF TypeOk, Pending, Early
<1>3. indexed = {}
  BY <1>0, <1>1 DEF Early, PreflightPcs
<1> DEFINE verdict == FirstIssue(<<RepositoryVerdict(tree[h].facts, sources), RevalidateFileEvidence(h)>>)
<1>4. PICK issue \in Verdicts(verdict) :
        IF issue = "ok"
        THEN /\ drivers' = [drivers EXCEPT ![h] = FilterDrivers(Entries(tree[h].facts, sources))]
             /\ UNCHANGED <<report, evidence>>
        ELSE /\ report' = [report EXCEPT ![h] = "Unknown"] /\ UNCHANGED drivers
             /\ evidence' = [evidence EXCEPT ![h] = Unprepared]
  BY Zenon DEF PreflightJudge, Unknown
<1>5. CASE issue = "ok"
  <2>1. verdict = "ok"
    BY <1>4, <1>5, VerdictIsOk
  <2>2. RepositoryVerdict(tree[h].facts, sources) = "ok"
    BY <2>1, BothChecks
  <2>3. Entries(tree[h].facts, sources) \cap RefusedEntries = {}
    BY <2>2, AcceptedEntries
  <2> HIDE DEF verdict
  <2>4. /\ drivers' = [drivers EXCEPT ![h] = FilterDrivers(Entries(tree[h].facts, sources))]
        /\ UNCHANGED <<report, evidence>>
    BY <1>4, <1>5
  <2>5. /\ DOMAIN drivers' = Dirs /\ drivers'[h] = FilterDrivers(Entries(tree[h].facts, sources))
        /\ \A d \in Dirs : d # h => drivers'[d] = drivers[d]
    BY <2>4, <1>0, <1>2 DEF TypeOk
  <2>6. TypeOk'
    BY <1>0, <1>1, <1>2, <2>4, <2>5 DEF TypeOk, TreeOk, AllPcs, PreflightPcs
  <2>7. EvidenceOld'
    BY <1>0, <1>1, <2>4 DEF EvidenceOld
  <2>8. Vouched'
    <3>1. \A d \in Dirs : Entries(tree[d].facts, sources)' = Entries(tree[d].facts, sources)
      BY <1>1 DEF Entries
    <3> HIDE DEF h
    <3>2. ASSUME NEW d \in Dirs, version[d].files = evidence[d].files /\ gversion = seen.sources
          PROVE  /\ Entries(tree[d].facts, sources) \cap RefusedEntries = {}
                 /\ drivers'[d] = FilterDrivers(Entries(tree[d].facts, sources))
      <4>1. CASE d = h
        BY <4>1, <2>3, <2>5
      <4>2. CASE d # h
        BY <4>2, <3>2, <2>5, <1>0 DEF Vouched, h
      <4> QED BY <4>1, <4>2
    <3> QED BY <3>1, <3>2, <1>1, <2>4 DEF Vouched
  <2>9. Early'
    BY <1>0, <1>1, <1>2, <2>4 DEF Early, StatusPcs, PreflightPcs
  <2>10. Accounted'
    BY <1>0, <1>1, <1>2, <2>4 DEF Accounted, PreflightPcs, IndexPcs, StatusPcs, Pending
  <2>11. Flags'
    BY <1>1, <1>3 DEF Flags
  <2>12. \A d \in Dirs : report'[d] \notin Known
    BY <1>0, <1>1, <2>4 DEF Early, StatusPcs, PreflightPcs
  <2>13. /\ Coverage' /\ Order' /\ Answered'
         /\ ReportedStateWasTrue' /\ ParentNeverOutranksChild' /\ NothingIsOverlooked'
    BY <1>1, <2>12, QuietFrame DEF PreflightPcs
  <2> QED BY <2>6, <2>7, <2>8, <2>9, <2>10, <2>11, <2>13 DEF IInv
<1>6. CASE issue # "ok"
  <2> HIDE DEF verdict
  <2>1. /\ report' = [report EXCEPT ![h] = "Unknown"] /\ UNCHANGED drivers
        /\ evidence' = [evidence EXCEPT ![h] = Unprepared]
    BY <1>4, <1>6
  <2>2. /\ evidence' \in [Dirs -> Counters] /\ evidence'[h] = Unprepared
        /\ \A d \in Dirs : d # h => evidence'[d] = evidence[d]
    BY <2>1, <1>0, <1>2 DEF TypeOk, Unprepared, Counters
  <2>3. /\ report' \in [Dirs -> {"none", "Unknown"} \cup Known] /\ report'[h] = "Unknown"
        /\ \A d \in Dirs : d # h => report'[d] = report[d]
    BY <2>1, <1>0, <1>2 DEF TypeOk
  <2>4. TypeOk'
    BY <1>0, <1>1, <1>2, <2>1, <2>2, <2>3 DEF TypeOk, TreeOk, AllPcs, PreflightPcs
  <2>5. EvidenceOld'
    <3>1. \A d \in Dirs : version[d] \in Counters
      BY <1>0 DEF TypeOk
    <3>2. \A d \in Dirs : 0 <= version[d].files /\ 0 <= version[d].index
      BY <3>1 DEF Counters
    <3> QED BY <1>0, <1>1, <2>2, <3>2 DEF EvidenceOld, Unprepared
  <2>6. Vouched'
    <3>1. \A d \in Dirs : Entries(tree[d].facts, sources)' = Entries(tree[d].facts, sources)
      BY <1>1 DEF Entries
    <3>2. version[h].files # 0
      BY <1>0, <1>2 DEF EvidenceOld
    <3>3. evidence'[h].files = 0
      BY <2>2 DEF Unprepared
    <3> HIDE DEF h
    <3>4. ASSUME NEW d \in Dirs, version[d].files = evidence'[d].files /\ gversion = seen.sources
          PROVE  /\ Entries(tree[d].facts, sources) \cap RefusedEntries = {}
                 /\ drivers[d] = FilterDrivers(Entries(tree[d].facts, sources))
      <4>1. d # h /\ evidence'[d] = evidence[d]
        BY <3>2, <3>3, <3>4, <2>2
      <4> QED BY <4>1, <3>4, <1>0 DEF Vouched, h
    <3> QED BY <3>1, <3>4, <1>1, <2>1 DEF Vouched
  <2>7. \A d \in Dirs : report'[d] \notin Known
    BY <1>0, <1>1, <2>3 DEF Early, StatusPcs, Known
  <2>8. Early'
    BY <1>0, <1>1, <1>2, <2>7 DEF Early, StatusPcs, PreflightPcs
  <2>9. Accounted'
    BY <1>0, <1>1, <1>2, <2>2, <2>3 DEF Accounted, PreflightPcs, IndexPcs, StatusPcs, Pending, TypeOk
  <2>10. Flags'
    BY <1>1, <1>3 DEF Flags
  <2>11. /\ Coverage' /\ Order' /\ Answered'
         /\ ReportedStateWasTrue' /\ ParentNeverOutranksChild' /\ NothingIsOverlooked'
    BY <1>1, <2>7, QuietFrame DEF PreflightPcs
  <2> QED BY <2>4, <2>5, <2>6, <2>8, <2>9, <2>10, <2>11 DEF IInv
<1> QED BY <1>5, <1>6

\* A candidate without evidence is unknown when the index queries begin.
LEMMA PreflightedStep ==
  ASSUME IInv, Preflighted
  PROVE  IInv'
<1>0. TypeOk /\ EvidenceOld /\ Coverage /\ Early /\ Vouched /\ Flags /\ Accounted
  BY DEF IInv
<1>1. /\ pc = "preflight" /\ pc' = "index" /\ todo = <<>> /\ todo' = SetToSeq(Prepared)
      /\ UNCHANGED <<tree, sources, version, gversion, seen, disc, evidence, drivers, indexed, query,
                     report, truth, result>>
  BY DEF Preflighted, world
<1>2. Prepared \subseteq Dirs /\ disc.candidates \subseteq Dirs
  BY <1>0 DEF Prepared, TypeOk
<1>3. todo' \in Seq(Dirs) /\ ToSet(todo') = Prepared /\ Pending = {}
  BY <1>1, <1>2, SetToSeqLists, NothingPending DEF Pending
<1>4. TypeOk'
  BY <1>0, <1>1, <1>3 DEF TypeOk, TreeOk, AllPcs, IndexPcs
<1>5. EvidenceOld' /\ Vouched' /\ Flags'
  BY <1>0, <1>1, VouchedStays, FlagsStay DEF EvidenceOld
<1>6. \A d \in Dirs : report'[d] \notin Known
  BY <1>0, <1>1 DEF Early, StatusPcs, PreflightPcs
<1>7. Early'
  BY <1>0, <1>1, <1>6 DEF Early, StatusPcs, PreflightPcs
<1>8. Accounted'
  BY <1>0, <1>1, <1>3 DEF Accounted, PreflightPcs, IndexPcs, StatusPcs, Pending, Prepared
<1>9. /\ Coverage' /\ Order' /\ Answered'
      /\ ReportedStateWasTrue' /\ ParentNeverOutranksChild' /\ NothingIsOverlooked'
  BY <1>1, <1>6, QuietFrame DEF PreflightPcs, IndexPcs
<1> QED BY <1>4, <1>5, <1>7, <1>8, <1>9 DEF IInv
------------------------------------------------------------------------------
(***************************************************************************)
(* The index flags.                                                         *)
(***************************************************************************)

\* What the checks of the index flags do not touch.
LEMMA IndexFrame ==
  ASSUME IInv, pc \in IndexPcs, pc' \in IndexPcs,
         UNCHANGED <<tree, sources, version, gversion, seen, disc, evidence, drivers, truth, result>>,
         \A d \in Dirs : report'[d] \notin Known
  PROVE  /\ EvidenceOld' /\ Vouched' /\ Coverage' /\ Order' /\ Answered'
         /\ ReportedStateWasTrue' /\ ParentNeverOutranksChild' /\ NothingIsOverlooked'
<1>0. EvidenceOld /\ Vouched
  BY DEF IInv
<1>1. EvidenceOld' /\ Vouched'
  BY <1>0, VouchedStays DEF EvidenceOld, IndexPcs
<1>2. /\ Coverage' /\ Order' /\ Answered'
      /\ ReportedStateWasTrue' /\ ParentNeverOutranksChild' /\ NothingIsOverlooked'
  BY QuietFrame
<1> QED BY <1>1, <1>2

\* A repository that is left is reported as unknown.
LEMMA IndexLeave ==
  ASSUME IInv, pc \in IndexPcs, todo # <<>>, Leave(Head(todo), "index"),
         UNCHANGED <<tree, sources, version, gversion, seen, disc, evidence, drivers, indexed, truth, result>>
  PROVE  IInv'
<1>0. TypeOk /\ Early /\ Flags /\ Accounted
  BY DEF IInv
<1> DEFINE h == Head(todo)
<1>1. /\ pc' = "index" /\ todo' = Tail(todo) /\ report' = [report EXCEPT ![h] = "Unknown"]
  BY DEF Leave, Unknown
<1>2. /\ h \in Dirs /\ todo' \in Seq(Dirs)
      /\ \A x \in Pending : x = h \/ x \in ToSet(todo')
  BY <1>0, <1>1, HeadAndTail DEF TypeOk, Pending
<1>3. /\ report' \in [Dirs -> {"none", "Unknown"} \cup Known] /\ report'[h] = "Unknown"
      /\ \A d \in Dirs : d # h => report'[d] = report[d]
  BY <1>0, <1>1, <1>2 DEF TypeOk
<1>4. \A d \in Dirs : report'[d] \notin Known
  BY <1>0, <1>3 DEF Early, StatusPcs, IndexPcs, Known
<1>5. TypeOk'
  BY <1>0, <1>1, <1>2, <1>3 DEF TypeOk, TreeOk, AllPcs, IndexPcs
<1>6. Early'
  BY <1>0, <1>1, <1>4 DEF Early, StatusPcs, IndexPcs, PreflightPcs
<1>7. Accounted'
  BY <1>0, <1>1, <1>2, <1>3 DEF Accounted, PreflightPcs, IndexPcs, StatusPcs, Pending, TypeOk
<1>8. Flags'
  BY <1>0, <1>1, FlagsStay
<1>9. /\ EvidenceOld' /\ Vouched' /\ Coverage' /\ Order' /\ Answered'
      /\ ReportedStateWasTrue' /\ ParentNeverOutranksChild' /\ NothingIsOverlooked'
  BY <1>1, <1>4, IndexFrame DEF IndexPcs
<1> QED BY <1>5, <1>6, <1>7, <1>8, <1>9 DEF IInv

\* A repository whose evidence has moved is left unknown before its index is read.
LEMMA IndexBeginStep ==
  ASSUME IInv, IndexBegin
  PROVE  IInv'
<1>0. TypeOk /\ Early /\ Flags /\ Accounted
  BY DEF IInv
<1>1. /\ pc = "index" /\ todo # <<>>
      /\ UNCHANGED <<tree, sources, version, gversion, seen, disc, evidence, drivers, indexed, truth, result>>
  BY DEF IndexBegin, world
<1>2. CASE pc' = "index_query" /\ UNCHANGED <<todo, report, query>>
  <2>1. \A d \in Dirs : report'[d] \notin Known
    BY <1>0, <1>1, <1>2 DEF Early, StatusPcs
  <2>2. TypeOk'
    BY <1>0, <1>1, <1>2 DEF TypeOk, TreeOk, AllPcs, IndexPcs
  <2>3. Early'
    BY <1>0, <1>1, <1>2, <2>1 DEF Early, StatusPcs, PreflightPcs
  <2>4. Accounted'
    BY <1>0, <1>1, <1>2 DEF Accounted, PreflightPcs, IndexPcs, StatusPcs, Pending
  <2>5. Flags'
    BY <1>0, <1>1, <1>2, FlagsStay
  <2>6. /\ EvidenceOld' /\ Vouched' /\ Coverage' /\ Order' /\ Answered'
        /\ ReportedStateWasTrue' /\ ParentNeverOutranksChild' /\ NothingIsOverlooked'
    BY <1>1, <1>2, <2>1, IndexFrame DEF IndexPcs
  <2> QED BY <2>2, <2>3, <2>4, <2>5, <2>6 DEF IInv
<1>3. CASE Leave(Head(todo), "index")
  BY <1>1, <1>3, IndexLeave DEF IndexPcs
<1> QED BY <1>2, <1>3 DEF IndexBegin

\* An accepted listing of the index shows no hidden entry in the index it was read from.
LEMMA IndexQueryStep ==
  ASSUME IInv, IndexQuery
  PROVE  IInv'
<1>0. TypeOk /\ Early /\ Flags /\ Accounted
  BY DEF IInv
<1>1. /\ pc = "index_query"
      /\ UNCHANGED <<tree, sources, version, gversion, seen, disc, evidence, drivers, indexed, truth, result>>
  BY DEF IndexQuery, world
<1>2. todo # <<>>
  BY <1>0, <1>1 DEF Early
<1>3. PICK issue \in Verdicts(IndexFlagsVerdict(tree[Head(todo)].facts)) :
        IF issue = "ok" THEN pc' = "index_end" /\ UNCHANGED <<todo, report, query>>
        ELSE Leave(Head(todo), "index")
  BY Zenon DEF IndexQuery
<1>4. CASE issue = "ok"
  <2>1. IndexFlagsVerdict(tree[Head(todo)].facts) = "ok"
    BY <1>3, <1>4, VerdictIsOk
  <2>2. tree[Head(todo)].facts.index # "hidden"
    BY <2>1 DEF IndexFlagsVerdict, Require
  <2>3. pc' = "index_end" /\ UNCHANGED <<todo, report, query>>
    BY <1>3, <1>4
  <2>4. \A d \in Dirs : report'[d] \notin Known
    BY <1>0, <1>1, <2>3 DEF Early, StatusPcs
  <2>5. TypeOk'
    BY <1>0, <1>1, <2>3 DEF TypeOk, TreeOk, AllPcs, IndexPcs
  <2>6. Early'
    BY <1>0, <1>1, <1>2, <2>3, <2>4 DEF Early, StatusPcs, PreflightPcs
  <2>7. Accounted'
    BY <1>0, <1>1, <2>3 DEF Accounted, PreflightPcs, IndexPcs, StatusPcs, Pending
  <2>8. Flags'
    BY <1>0, <1>1, <2>2, <2>3 DEF Flags, NotHidden
  <2>9. /\ EvidenceOld' /\ Vouched' /\ Coverage' /\ Order' /\ Answered'
        /\ ReportedStateWasTrue' /\ ParentNeverOutranksChild' /\ NothingIsOverlooked'
    BY <1>1, <2>3, <2>4, IndexFrame DEF IndexPcs
  <2> QED BY <2>5, <2>6, <2>7, <2>8, <2>9 DEF IInv
<1>5. CASE issue # "ok"
  BY <1>1, <1>2, <1>3, <1>5, IndexLeave DEF IndexPcs
<1> QED BY <1>4, <1>5

\* The flags of an index count once its evidence was looked at again.
LEMMA IndexEndStep ==
  ASSUME IInv, IndexEnd
  PROVE  IInv'
<1>0. TypeOk /\ Early /\ Flags /\ Accounted
  BY DEF IInv
<1> DEFINE h == Head(todo)
<1>1. /\ pc = "index_end"
      /\ UNCHANGED <<tree, sources, version, gversion, seen, disc, evidence, drivers, truth, result>>
  BY DEF IndexEnd, world
<1>2. todo # <<>>
  BY <1>0, <1>1 DEF Early
<1>3. CASE /\ indexed' = indexed \cup {Head(todo)} /\ todo' = Tail(todo) /\ pc' = "index"
           /\ UNCHANGED <<report, query>>
  <2>1. /\ h \in Dirs /\ todo' \in Seq(Dirs)
        /\ \A x \in Pending : x = h \/ x \in ToSet(todo')
    BY <1>0, <1>2, <1>3, HeadAndTail DEF TypeOk, Pending
  <2>2. \A d \in Dirs : report'[d] \notin Known
    BY <1>0, <1>1, <1>3 DEF Early, StatusPcs
  <2>3. TypeOk'
    BY <1>0, <1>1, <1>3, <2>1 DEF TypeOk, TreeOk, AllPcs, IndexPcs
  <2>4. Early'
    BY <1>0, <1>1, <1>3, <2>2 DEF Early, StatusPcs, PreflightPcs
  <2>5. Accounted'
    BY <1>0, <1>1, <1>3, <2>1 DEF Accounted, PreflightPcs, IndexPcs, StatusPcs, Pending
  <2>6. Flags'
    BY <1>0, <1>1, <1>3 DEF Flags, NotHidden
  <2>7. /\ EvidenceOld' /\ Vouched' /\ Coverage' /\ Order' /\ Answered'
        /\ ReportedStateWasTrue' /\ ParentNeverOutranksChild' /\ NothingIsOverlooked'
    BY <1>1, <1>3, <2>2, IndexFrame DEF IndexPcs
  <2> QED BY <2>3, <2>4, <2>5, <2>6, <2>7 DEF IInv
<1>4. CASE Leave(Head(todo), "index") /\ UNCHANGED indexed
  BY <1>1, <1>2, <1>4, IndexLeave DEF IndexPcs
<1> QED BY <1>3, <1>4 DEF IndexEnd

\* The repositories that are left are queried from the deepest one up.
LEMMA IndexCheckedStep ==
  ASSUME IInv, IndexChecked
  PROVE  IInv'
<1>0. TypeOk /\ EvidenceOld /\ Coverage /\ Early /\ Accounted /\ Vouched /\ Flags
  BY DEF IInv
<1>1. /\ pc = "index" /\ pc' = "status" /\ todo = <<>> /\ todo' \in StatusOrders(indexed)
      /\ UNCHANGED <<tree, sources, version, gversion, seen, disc, evidence, drivers, indexed, query,
                     report, truth, result>>
  BY DEF IndexChecked, world
<1>2. indexed \subseteq Dirs
  BY <1>0 DEF TypeOk
<1>3. /\ todo' \in Injection(1 .. Cardinality(indexed), indexed)
      /\ \A i, j \in DOMAIN todo' : i < j => Len(todo'[i]) >= Len(todo'[j])
  BY <1>1 DEF StatusOrders, PathDepth
<1>4. todo' \in Seq(Dirs) /\ ToSet(todo') = indexed /\ IsInjective(todo')
  BY <1>2, <1>3, InjectionLists
<1>5. Pending = {}
  BY <1>1, NothingPending DEF Pending
<1>6. \A d \in Dirs : report'[d] \notin Known
  BY <1>0, <1>1 DEF Early, StatusPcs
<1>7. TypeOk'
  BY <1>0, <1>1, <1>4 DEF TypeOk, TreeOk, AllPcs, StatusPcs
<1>8. EvidenceOld' /\ Vouched' /\ Flags'
  BY <1>0, <1>1, VouchedStays, FlagsStay DEF EvidenceOld
<1>9. Coverage'
  BY <1>0, <1>1 DEF Coverage, Repositories, Found
<1>10. Early'
  BY <1>0, <1>1 DEF Early, StatusPcs, PreflightPcs
<1>11. Accounted'
  <2>1. \A c \in disc.candidates : report[c] = "Unknown" \/ c \in indexed
    BY <1>0, <1>1, <1>5 DEF Accounted, IndexPcs
  <2> QED BY <1>1, <1>4, <2>1 DEF Accounted, PreflightPcs, IndexPcs, StatusPcs, Pending
<1>12. Order'
  BY <1>1, <1>3, <1>4, <1>6 DEF Order, Pending
<1>13. Answered'
  BY <1>1 DEF Answered
<1>14. result'.aggregate = "none"
  BY <1>0, <1>1 DEF Early
<1>15. ReportedStateWasTrue' /\ ParentNeverOutranksChild' /\ NothingIsOverlooked'
  BY <1>6, <1>14, NothingKnown
<1> QED BY <1>7, <1>8, <1>9, <1>10, <1>11, <1>12, <1>13, <1>15 DEF IInv
------------------------------------------------------------------------------
(***************************************************************************)
(* The status queries.                                                      *)
(***************************************************************************)

\* The first of the queue is the deepest and comes once.
LEMMA DeepestFirst ==
  ASSUME todo \in Seq(Dirs), todo # <<>>, IsInjective(todo),
         \A i, j \in DOMAIN todo : i < j => Len(todo[i]) >= Len(todo[j])
  PROVE  /\ IsInjective(Tail(todo)) /\ Head(todo) \notin ToSet(Tail(todo))
         /\ \A i, j \in DOMAIN Tail(todo) : i < j => Len(Tail(todo)[i]) >= Len(Tail(todo)[j])
         /\ \A t \in ToSet(Tail(todo)) : Len(t) <= Len(Head(todo))
<1>1. /\ Len(todo) \in Nat /\ Len(todo) > 0 /\ DOMAIN todo = 1 .. Len(todo) /\ Head(todo) = todo[1]
      /\ DOMAIN Tail(todo) = 1 .. (Len(todo) - 1)
      /\ \A i \in 1 .. (Len(todo) - 1) : Tail(todo)[i] = todo[i + 1]
  BY HeadAndTail
<1>2. \A i \in 1 .. (Len(todo) - 1) : i + 1 \in 1 .. Len(todo) /\ 1 < i + 1
  BY <1>1
<1>3. IsInjective(Tail(todo))
  <2> SUFFICES ASSUME NEW i \in 1 .. (Len(todo) - 1), NEW j \in 1 .. (Len(todo) - 1),
                      Tail(todo)[i] = Tail(todo)[j]
               PROVE  i = j
    BY <1>1 DEF IsInjective
  <2>1. todo[i + 1] = todo[j + 1] /\ i + 1 \in DOMAIN todo /\ j + 1 \in DOMAIN todo
    BY <1>1, <1>2
  <2>2. i + 1 = j + 1
    BY <2>1 DEF IsInjective
  <2> QED BY <2>2
<1>4. Head(todo) \notin ToSet(Tail(todo))
  <2> SUFFICES ASSUME NEW i \in 1 .. (Len(todo) - 1), Tail(todo)[i] = Head(todo) PROVE FALSE
    BY <1>1 DEF ToSet
  <2>1. todo[i + 1] = todo[1] /\ i + 1 \in DOMAIN todo /\ 1 \in DOMAIN todo
    BY <1>1, <1>2
  <2>2. i + 1 = 1
    BY <2>1 DEF IsInjective
  <2> QED BY <2>2
<1>5. \A i, j \in DOMAIN Tail(todo) : i < j => Len(Tail(todo)[i]) >= Len(Tail(todo)[j])
  <2> SUFFICES ASSUME NEW i \in 1 .. (Len(todo) - 1), NEW j \in 1 .. (Len(todo) - 1), i < j
               PROVE  Len(Tail(todo)[i]) >= Len(Tail(todo)[j])
    BY <1>1
  <2>1. i + 1 \in DOMAIN todo /\ j + 1 \in DOMAIN todo /\ i + 1 < j + 1
    BY <1>1, <1>2
  <2>2. Len(todo[i + 1]) >= Len(todo[j + 1])
    BY <2>1
  <2> QED BY <2>2, <1>1
<1>6. \A t \in ToSet(Tail(todo)) : Len(t) <= Len(Head(todo))
  <2> SUFFICES ASSUME NEW i \in 1 .. (Len(todo) - 1)
               PROVE  Len(Tail(todo)[i]) <= Len(Head(todo))
    BY <1>1 DEF ToSet
  <2>1. 1 \in DOMAIN todo /\ i + 1 \in DOMAIN todo /\ 1 < i + 1
    BY <1>1, <1>2
  <2>2. Len(todo[1]) >= Len(todo[i + 1])
    BY <2>1
  <2>3. todo[1] \in Dirs /\ todo[i + 1] \in Dirs
    BY <2>1
  <2>4. Len(todo[1]) \in Nat /\ Len(todo[i + 1]) \in Nat
    BY <2>3, GitInspectAssumption
  <2> QED BY <2>2, <2>4, <1>1
<1> QED BY <1>3, <1>4, <1>5, <1>6

\* What the status queries do not touch.
LEMMA StatusFrame ==
  ASSUME IInv, pc \in StatusPcs, pc' \in StatusPcs,
         UNCHANGED <<tree, sources, version, gversion, seen, disc, evidence, drivers, indexed, result>>
  PROVE  EvidenceOld' /\ Vouched' /\ Flags' /\ Coverage' /\ NothingIsOverlooked'
<1>0. EvidenceOld /\ Vouched /\ Flags /\ Coverage /\ Early
  BY DEF IInv
<1>1. pc \notin {"judge", "done", "discover"} /\ pc' \notin {"index_end", "done", "discover"}
  BY DEF StatusPcs
<1>2. EvidenceOld' /\ Vouched' /\ Flags'
  BY <1>0, <1>1, VouchedStays, FlagsStay DEF EvidenceOld
<1>3. Coverage'
  BY <1>0, <1>1 DEF Coverage, Repositories, Found
<1>4. NothingIsOverlooked'
  BY <1>0, <1>1 DEF Early, NothingIsOverlooked
<1> QED BY <1>2, <1>3, <1>4

\* A repository that is given up is unknown, and no known one lies above it: those are still to come.
LEMMA StatusLeave ==
  ASSUME IInv, pc \in StatusPcs, todo # <<>>, Leave(Head(todo), "status"),
         UNCHANGED <<tree, sources, version, gversion, seen, disc, evidence, drivers, indexed, result>>,
         truth' \in [Dirs -> Truths],
         \A d \in Dirs : d # Head(todo) => truth'[d] = truth[d]
  PROVE  IInv'
<1>0. /\ TypeOk /\ Early /\ Accounted /\ Order
      /\ ReportedStateWasTrue /\ ParentNeverOutranksChild
  BY DEF IInv
<1> DEFINE h == Head(todo)
<1>1. /\ pc' = "status" /\ todo' = Tail(todo) /\ report' = [report EXCEPT ![h] = "Unknown"]
  BY DEF Leave, Unknown
<1>2. /\ h \in Dirs /\ todo' \in Seq(Dirs) /\ h \in Pending /\ ToSet(todo') \subseteq Pending
      /\ \A x \in Pending : x = h \/ x \in ToSet(todo')
  BY <1>0, <1>1, HeadAndTail DEF TypeOk, Pending
<1>3. /\ report' \in [Dirs -> {"none", "Unknown"} \cup Known] /\ report'[h] = "Unknown"
      /\ \A d \in Dirs : d # h => report'[d] = report[d]
  BY <1>0, <1>1, <1>2 DEF TypeOk
<1>4. /\ Pending \subseteq indexed /\ IsInjective(todo)
      /\ \A i, j \in DOMAIN todo : i < j => Len(todo[i]) >= Len(todo[j])
      /\ \A d \in Dirs : report[d] \in Known => d \notin Pending /\ \A t \in Pending : Len(t) <= Len(d)
  BY <1>0 DEF Order
<1>5. TypeOk'
  BY <1>0, <1>1, <1>2, <1>3 DEF TypeOk, TreeOk, AllPcs, StatusPcs
<1>6. Early'
  BY <1>0, <1>1 DEF Early, StatusPcs, PreflightPcs
<1>7. Accounted'
  BY <1>0, <1>1, <1>2, <1>3 DEF Accounted, PreflightPcs, IndexPcs, StatusPcs, Pending, TypeOk
<1>8. Order'
  <2>1. /\ IsInjective(todo')
        /\ \A i, j \in DOMAIN todo' : i < j => Len(todo'[i]) >= Len(todo'[j])
    BY <1>0, <1>1, <1>4, DeepestFirst DEF TypeOk
  <2>2. \A d \in Dirs : report'[d] \in Known =>
          d \notin ToSet(todo') /\ \A t \in ToSet(todo') : Len(t) <= Len(d)
    BY <1>2, <1>3, <1>4 DEF Known
  <2>3. ToSet(todo') \subseteq indexed
    BY <1>2, <1>4
  <2> QED BY <1>1, <2>1, <2>2, <2>3 DEF Order, Pending
<1>9. Answered'
  BY <1>1 DEF Answered
<1>10. ReportedStateWasTrue'
  BY <1>0, <1>3 DEF ReportedStateWasTrue
<1>11. ParentNeverOutranksChild'
  <2> SUFFICES ASSUME NEW d \in Dirs, NEW e \in Dirs, IsStrictDescendant(e, d),
                      report'[e] = "Unknown", report'[d] \in Known
               PROVE  FALSE
    BY DEF ParentNeverOutranksChild, Known
  <2>1. d # h /\ report[d] \in Known
    BY <1>3 DEF Known
  <2>2. e = h
    BY <2>1, <1>0, <1>3 DEF ParentNeverOutranksChild, Known
  <2>3. Len(h) <= Len(d) /\ Len(h) > Len(d)
    BY <2>1, <2>2, <1>2, <1>4 DEF IsStrictDescendant
  <2>4. Len(h) \in Nat /\ Len(d) \in Nat
    BY <1>2, GitInspectAssumption
  <2> HIDE DEF h
  <2> QED BY <2>3, <2>4
<1>12. EvidenceOld' /\ Vouched' /\ Flags' /\ Coverage' /\ NothingIsOverlooked'
  BY <1>1, StatusFrame DEF StatusPcs
<1> QED BY <1>5, <1>6, <1>7, <1>8, <1>9, <1>10, <1>11, <1>12 DEF IInv

\* A status query begins only where nothing below is unknown.
LEMMA StatusBeginStep ==
  ASSUME IInv, StatusBegin
  PROVE  IInv'
<1>0. /\ TypeOk /\ Early /\ Accounted /\ Order
      /\ ReportedStateWasTrue /\ ParentNeverOutranksChild
  BY DEF IInv
<1>1. /\ pc = "status" /\ todo # <<>>
      /\ UNCHANGED <<tree, sources, version, gversion, seen, disc, evidence, drivers, indexed, truth, result>>
  BY DEF StatusBegin, world
<1>2. CASE ~UnsafeDescendant(Head(todo)) /\ pc' = "status_query" /\ UNCHANGED <<todo, report, query>>
  <2>1. TypeOk'
    BY <1>0, <1>1, <1>2 DEF TypeOk, TreeOk, AllPcs, StatusPcs
  <2>2. Early'
    BY <1>0, <1>1, <1>2 DEF Early, StatusPcs, PreflightPcs
  <2>3. Accounted'
    BY <1>0, <1>1, <1>2 DEF Accounted, PreflightPcs, IndexPcs, StatusPcs, Pending
  <2>4. Order'
    BY <1>0, <1>1, <1>2 DEF Order, StatusPcs, Pending, UnsafeDescendant, Descendants
  <2>5. Answered'
    BY <1>2 DEF Answered
  <2>6. ReportedStateWasTrue' /\ ParentNeverOutranksChild'
    BY <1>0, <1>1, <1>2 DEF ReportedStateWasTrue, ParentNeverOutranksChild
  <2>7. EvidenceOld' /\ Vouched' /\ Flags' /\ Coverage' /\ NothingIsOverlooked'
    BY <1>1, <1>2, StatusFrame DEF StatusPcs
  <2> QED BY <2>1, <2>2, <2>3, <2>4, <2>5, <2>6, <2>7 DEF IInv
<1>3. CASE Leave(Head(todo), "status")
  <2>1. truth' \in [Dirs -> Truths]
    BY <1>0, <1>1 DEF TypeOk
  <2> QED BY <1>1, <1>3, <2>1, StatusLeave DEF StatusPcs
<1> QED BY <1>2, <1>3 DEF StatusBegin

\* A query whose evidence holds prints what is there.
LEMMA StatusIsTrue ==
  ASSUME IInv, pc = "status_query", NEW printed \in StatusOutputs(Head(todo), FilterDriverUnion(Head(todo))),
         printed # "nonzero", sources.late = {}, \A e \in Participants(Head(todo)) : Holds(e)
  PROVE  printed = tree[Head(todo)].content
<1>0. TypeOk /\ Coverage /\ Early /\ Accounted /\ Vouched /\ Flags /\ Order
  BY DEF IInv
<1> DEFINE h == Head(todo)
<1>1. h \in Dirs /\ h \in Pending
  BY <1>0, HeadAndTail DEF TypeOk, Early, Pending
<1>2. Pending \subseteq indexed /\ ~UnsafeDescendant(h) /\ disc.candidates = Repositories
  BY <1>0 DEF Order, Coverage, StatusPcs
<1> HIDE DEF h
<1>3. ASSUME NEW e \in {h} \cup Descendants(h, Repositories)
      PROVE  /\ Entries(tree[e].facts, sources) \cap RefusedEntries = {}
             /\ tree[e].facts.index # "hidden"
             /\ "filter.d.clean" \in Entries(tree[e].facts, sources) => "d" \in FilterDriverUnion(h)
  <2>1. e \in Dirs
    BY <1>1 DEF Descendants, Repositories
  <2>2. e \in indexed
    <3>1. CASE e = h
      BY <3>1, <1>1, <1>2
    <3>2. CASE e \in Descendants(h, Repositories)
      <4>1. e \in Repositories /\ e \in Descendants(h, Dirs)
        BY <3>2, <2>1 DEF Descendants
      <4>2. report[e] # "Unknown"
        BY <4>1, <1>2 DEF UnsafeDescendant
      <4> QED BY <4>1, <4>2, <1>0, <1>2 DEF Accounted, StatusPcs
    <3> QED BY <3>1, <3>2
  <2>3. e \in Participants(h)
    BY <2>2 DEF Participants, Descendants
  <2>4. /\ version[e].files = evidence[e].files /\ version[e].index = evidence[e].index
        /\ gversion = seen.sources
    BY <2>3 DEF Holds, h
  <2>5. /\ Entries(tree[e].facts, sources) \cap RefusedEntries = {}
        /\ drivers[e] = FilterDrivers(Entries(tree[e].facts, sources))
    BY <2>1, <2>4, <1>0 DEF Vouched
  <2>6. tree[e].facts.index # "hidden"
    BY <2>2, <2>4, <1>0 DEF Flags, NotHidden
  <2>7. ASSUME "filter.d.clean" \in Entries(tree[e].facts, sources) PROVE "d" \in FilterDriverUnion(h)
    <3>1. "d" \in drivers[e]
      BY <2>5, <2>7 DEF FilterDrivers
    <3> QED BY <3>1, <2>3 DEF FilterDriverUnion
  <2> QED BY <2>5, <2>6, <2>7
<1> QED BY <1>3, NothingHides DEF h

\* What a query is held to is the content it met, or nothing.
LEMMA WitnessedIs ==
  ASSUME NEW d, tree[d].content \in Contents
  PROVE  Witnessed(d) \in Truths
BY DEF Witnessed, Truths

\* The answer of a query, true or garbled, waits for the evidence to be looked at.
LEMMA StatusAnswer ==
  ASSUME IInv, pc = "status_query", pc' = "status_end",
         truth' = [truth EXCEPT ![Head(todo)] = Witnessed(Head(todo))],
         \/ ~OutputParses(query'.output)
         \/ \E printed \in StatusOutputs(Head(todo), FilterDriverUnion(Head(todo))) :
              printed # "nonzero" /\ query'.output = Porcelain(printed),
         UNCHANGED <<tree, sources, version, gversion, seen, disc, evidence, drivers, indexed, todo,
                     report, result>>
  PROVE  IInv'
<1>0. /\ TypeOk /\ Early /\ Accounted /\ Order
      /\ ReportedStateWasTrue /\ ParentNeverOutranksChild
  BY DEF IInv
<1> DEFINE h == Head(todo)
<1>1. h \in Dirs /\ h \in Pending /\ tree[h].content \in Contents
  BY <1>0, HeadAndTail DEF TypeOk, Early, Pending, TreeOk
<1>2. /\ truth' \in [Dirs -> Truths] /\ truth'[h] = Witnessed(h)
      /\ \A d \in Dirs : d # h => truth'[d] = truth[d]
  BY <1>0, <1>1, WitnessedIs DEF TypeOk
<1>3. TypeOk'
  BY <1>0, <1>2 DEF TypeOk, TreeOk, AllPcs, StatusPcs
<1>4. Early'
  BY <1>0 DEF Early, StatusPcs, PreflightPcs
<1>5. Accounted'
  BY <1>0 DEF Accounted, PreflightPcs, IndexPcs, StatusPcs, Pending
<1>6. Order'
  BY <1>0 DEF Order, StatusPcs, Pending, UnsafeDescendant, Descendants
<1>7. Answered'
  <2> SUFFICES ASSUME OutputParses(query'.output), truth'[h] # Unrecorded,
                      (\A e \in Participants(Head(todo)) : Holds(e))'
               PROVE  truth'[h] \in Contents /\ query'.output = Porcelain(truth'[h])
    BY DEF Answered
  <2>1. \A e \in Participants(Head(todo)) : Holds(e)
    BY DEF Participants, Descendants, Holds
  <2>2. PICK printed \in StatusOutputs(Head(todo), FilterDriverUnion(Head(todo))) :
          printed # "nonzero" /\ query'.output = Porcelain(printed)
    OBVIOUS
  <2>3. sources.late = {} /\ truth'[h] = tree[h].content
    BY <1>2 DEF Witnessed
  <2>4. printed = tree[h].content
    BY <2>1, <2>2, <2>3, StatusIsTrue
  <2> QED BY <1>1, <2>2, <2>3, <2>4
<1>8. ReportedStateWasTrue'
  <2>1. report[h] \notin Known
    BY <1>0, <1>1 DEF Order, StatusPcs
  <2> QED BY <1>0, <1>2, <2>1 DEF ReportedStateWasTrue, Known
<1>9. ParentNeverOutranksChild'
  BY <1>0 DEF ParentNeverOutranksChild
<1>10. EvidenceOld' /\ Vouched' /\ Flags' /\ Coverage' /\ NothingIsOverlooked'
  BY StatusFrame DEF StatusPcs
<1> QED BY <1>3, <1>4, <1>5, <1>6, <1>7, <1>8, <1>9, <1>10 DEF IInv

\* What a status query prints is the truth if the evidence around it holds.
LEMMA StatusQueryStep ==
  ASSUME IInv, StatusQuery
  PROVE  IInv'
<1>0. TypeOk /\ Early
  BY DEF IInv
<1>1. /\ pc = "status_query" /\ truth' = [truth EXCEPT ![Head(todo)] = Witnessed(Head(todo))]
      /\ UNCHANGED <<tree, sources, version, gversion, seen, disc, evidence, drivers, indexed, result>>
  BY DEF StatusQuery, world
<1>2. todo # <<>>
  BY <1>0, <1>1 DEF Early
<1>3. PICK printed \in StatusOutputs(Head(todo), FilterDriverUnion(Head(todo))) :
        \E issue \in Verdicts(Require(printed # "nonzero", "QueryNonZeroExit")) :
          IF issue = "ok"
          THEN query' = [output |-> Porcelain(printed), ok |-> TRUE] /\ pc' = "status_end" /\ UNCHANGED <<todo, report>>
          ELSE Leave(Head(todo), "status")
  BY Zenon DEF StatusQuery
<1>4. PICK issue \in Verdicts(Require(printed # "nonzero", "QueryNonZeroExit")) :
        IF issue = "ok"
        THEN query' = [output |-> Porcelain(printed), ok |-> TRUE] /\ pc' = "status_end" /\ UNCHANGED <<todo, report>>
        ELSE Leave(Head(todo), "status")
  BY <1>3, Zenon
<1>5. CASE issue = "ok"
  <2>1. printed # "nonzero"
    <3>1. Require(printed # "nonzero", "QueryNonZeroExit") = "ok"
      BY <1>4, <1>5, VerdictIsOk
    <3> QED BY <3>1 DEF Require
  <2>2. query'.output = Porcelain(printed) /\ pc' = "status_end" /\ UNCHANGED <<todo, report>>
    BY <1>4, <1>5
  <2> QED BY <1>1, <2>1, <2>2, StatusAnswer
<1>6. CASE issue # "ok"
  <2>1. Leave(Head(todo), "status")
    BY <1>4, <1>6
  <2>2. Head(todo) \in Dirs /\ tree[Head(todo)].content \in Contents
    BY <1>0, <1>2, HeadAndTail DEF TypeOk, TreeOk
  <2>3. /\ truth' \in [Dirs -> Truths]
        /\ \A d \in Dirs : d # Head(todo) => truth'[d] = truth[d]
    BY <1>0, <1>1, <2>2, WitnessedIs DEF TypeOk
  <2> QED BY <1>1, <1>2, <2>1, <2>3, StatusLeave DEF StatusPcs
<1> QED BY <1>5, <1>6

\* Garbled output waits for the evidence too, and is refused then.
LEMMA StatusGarbledStep ==
  ASSUME IInv, StatusGarbled
  PROVE  IInv'
<1>1. /\ pc = "status_query" /\ truth' = [truth EXCEPT ![Head(todo)] = Witnessed(Head(todo))]
      /\ query' = [output |-> <<[Record("1", ".M", "N...", TRUE, 1) EXCEPT !.valid = FALSE]>>, ok |-> TRUE]
      /\ pc' = "status_end"
      /\ UNCHANGED <<tree, sources, version, gversion, seen, disc, evidence, drivers, indexed, todo,
                     report, result>>
  BY DEF StatusGarbled, world
<1>2. ~OutputParses(query'.output)
  BY <1>1, GarbledIsRefused
<1> QED BY <1>1, <1>2, StatusAnswer

\* An answer is accepted only if the evidence of all it rests on still holds.
LEMMA StatusEndStep ==
  ASSUME IInv, StatusEnd
  PROVE  IInv'
<1>0. /\ TypeOk /\ Early /\ Accounted /\ Order /\ Answered
      /\ ReportedStateWasTrue /\ ParentNeverOutranksChild
  BY DEF IInv
<1> DEFINE h == Head(todo)
           state == FromTrackedChangeCount(ParseTrackedChangeCount(query.output))
<1>1. /\ pc = "status_end"
      /\ UNCHANGED <<tree, sources, version, gversion, seen, disc, evidence, drivers, indexed, truth, result>>
  BY DEF StatusEnd, world
<1>2. todo # <<>>
  BY <1>0, <1>1 DEF Early
<1>3. CASE /\ RevalidateRepositories(Participants(Head(todo))) = "ok" /\ OutputParses(query.output)
           /\ report' = [report EXCEPT ![h] = state]
           /\ todo' = Tail(todo) /\ pc' = "status" /\ query' = Idle
  <2>1. /\ h \in Dirs /\ todo' \in Seq(Dirs) /\ h \in Pending /\ ToSet(todo') \subseteq Pending
        /\ \A x \in Pending : x = h \/ x \in ToSet(todo')
    BY <1>0, <1>2, <1>3, HeadAndTail DEF TypeOk, Pending
  <2>2. truth[h] # Unrecorded => truth[h] \in Contents /\ query.output = Porcelain(truth[h])
    <3>1. \A e \in Participants(Head(todo)) : Holds(e)
      BY <1>3, RepositoriesHold
    <3> QED BY <3>1, <1>0, <1>1, <1>3 DEF Answered
  <2>3. /\ state \in Known
        /\ truth[h] # Unrecorded => state = IF TrackedChange(truth[h]) THEN "Dirty" ELSE "Clean"
    <3>1. state \in Known
      BY DEF FromTrackedChangeCount, Known
    <3> QED BY <3>1, <2>2, CountTells
  <2> HIDE DEF state
  <2>4. /\ report' \in [Dirs -> {"none", "Unknown"} \cup Known] /\ report'[h] = state /\ state \in Known
        /\ \A d \in Dirs : d # h => report'[d] = report[d]
    BY <1>0, <1>3, <2>1, <2>3 DEF TypeOk, Known
  <2>5. /\ Pending \subseteq indexed /\ IsInjective(todo) /\ ~UnsafeDescendant(h)
        /\ \A i, j \in DOMAIN todo : i < j => Len(todo[i]) >= Len(todo[j])
        /\ \A d \in Dirs : report[d] \in Known => d \notin Pending /\ \A t \in Pending : Len(t) <= Len(d)
    BY <1>0, <1>1 DEF Order, StatusPcs
  <2>6. TypeOk'
    BY <1>0, <1>1, <1>3, <2>1, <2>4 DEF TypeOk, TreeOk, AllPcs, StatusPcs
  <2>7. Early'
    BY <1>0, <1>1, <1>3 DEF Early, StatusPcs, PreflightPcs
  <2>8. Accounted'
    BY <1>0, <1>1, <1>3, <2>1, <2>4, <2>5 DEF Accounted, PreflightPcs, IndexPcs, StatusPcs, Pending, TypeOk, Known
  <2>9. Order'
    <3>1. /\ IsInjective(todo') /\ h \notin ToSet(todo')
          /\ \A i, j \in DOMAIN todo' : i < j => Len(todo'[i]) >= Len(todo'[j])
          /\ \A t \in ToSet(todo') : Len(t) <= Len(h)
      BY <1>0, <1>2, <1>3, <2>5, DeepestFirst DEF TypeOk
    <3>2. \A d \in Dirs : report'[d] \in Known =>
            d \notin ToSet(todo') /\ \A t \in ToSet(todo') : Len(t) <= Len(d)
      BY <2>1, <2>4, <2>5, <3>1
    <3>3. ToSet(todo') \subseteq indexed
      BY <2>1, <2>5
    <3> QED BY <1>1, <1>3, <3>1, <3>2, <3>3 DEF Order, Pending
  <2>10. Answered'
    BY <1>3 DEF Answered
  <2>11. ReportedStateWasTrue'
    BY <1>0, <1>1, <2>3, <2>4 DEF ReportedStateWasTrue
  <2>12. ParentNeverOutranksChild'
    <3> SUFFICES ASSUME NEW d \in Dirs, NEW e \in Dirs, IsStrictDescendant(e, d),
                        report'[e] = "Unknown", report'[d] \in Known
                 PROVE  FALSE
      BY DEF ParentNeverOutranksChild, Known
    <3>1. e # h /\ report[e] = "Unknown"
      BY <2>4 DEF Known
    <3>2. CASE d = h
      <4>1. e \in Descendants(h, Dirs)
        BY <3>2 DEF Descendants
      <4> QED BY <4>1, <3>1, <2>5 DEF UnsafeDescendant
    <3>3. CASE d # h
      BY <3>1, <3>3, <2>4, <1>0 DEF ParentNeverOutranksChild, Known
    <3> QED BY <3>2, <3>3
  <2>13. EvidenceOld' /\ Vouched' /\ Flags' /\ Coverage' /\ NothingIsOverlooked'
    BY <1>1, <1>3, StatusFrame DEF StatusPcs
  <2> QED BY <2>6, <2>7, <2>8, <2>9, <2>10, <2>11, <2>12, <2>13 DEF IInv
<1>4. CASE Leave(Head(todo), "status")
  <2>1. truth' \in [Dirs -> Truths]
    BY <1>0, <1>1 DEF TypeOk
  <2> QED BY <1>1, <1>2, <1>4, <2>1, StatusLeave DEF StatusPcs
<1> QED BY <1>3, <1>4 DEF StatusEnd

\* The last look at root and sources can only take a known aggregate back.
LEMMA FinalRevalidationStep ==
  ASSUME IInv, FinalRevalidation
  PROVE  IInv'
<1>0. TypeOk /\ EvidenceOld /\ Vouched /\ Coverage /\ Accounted
  BY DEF IInv
<1> DEFINE atRoot == IF expired THEN Incomplete(disc, "BudgetExpired")
                     ELSE IF version[<<>>].dir # seen.root THEN Incomplete(disc, "EvidenceChanged") ELSE disc
           d == IF expired THEN Incomplete(atRoot, "BudgetExpired")
                ELSE IF gversion # seen.sources THEN Incomplete(atRoot, "EvidenceChanged") ELSE atRoot
<1>1. /\ pc = "status" /\ todo = <<>> /\ Finish(d, report)
      /\ UNCHANGED <<tree, sources, version, gversion, seen, evidence, drivers, indexed, query, truth>>
  BY DEF FinalRevalidation, world
<1>2. DOMAIN disc = DiscFields /\ disc.candidates \subseteq Dirs /\ disc.complete \in BOOLEAN
  BY <1>0 DEF TypeOk, DiscFields
<1>3. DOMAIN atRoot = DiscFields /\ atRoot.candidates = disc.candidates /\ atRoot.complete \in BOOLEAN
  BY <1>2, IncompleteIs
<1> HIDE DEF atRoot
<1>4. DOMAIN d = DiscFields /\ d.candidates = disc.candidates /\ d.complete \in BOOLEAN
  BY <1>3, IncompleteIs
<1> HIDE DEF d
<1>5. report \in [Dirs -> {"none", "Unknown"} \cup Known]
  BY <1>0 DEF TypeOk
<1>6. disc.candidates = Found /\ \A c \in disc.candidates : report[c] # "none"
  <2>1. Pending = {}
    BY <1>1, NothingPending DEF Pending
  <2>2. disc.candidates = Found
    BY <1>0, <1>1 DEF Coverage
  <2> QED BY <2>1, <2>2, <1>0, <1>1 DEF Accounted, StatusPcs
<1>7. (\A x \in d.candidates : report[x] # "Unknown") => \A x \in d.candidates : report[x] \in Known
  BY <1>2, <1>4, <1>5, <1>6
<1>8. EvidenceOld' /\ Vouched' /\ seen' \in [root : Nat, sources : Nat]
  BY <1>0, <1>1, VouchedStays DEF EvidenceOld, TypeOk
<1> QED BY <1>1, <1>2, <1>4, <1>5, <1>6, <1>7, <1>8, FinishStep
------------------------------------------------------------------------------
(***************************************************************************)
(* The user and the clock.                                                  *)
(***************************************************************************)

\* What the user's steps have in common: the inspector stays where it is, no
\* repository comes or goes, and what the evidence is about changes only with it.
UserMoves ==
  /\ pc # "done" /\ UNCHANGED <<pc, todo, disc, seen, evidence, drivers, indexed, query, report, truth, result>>
  /\ TreeOk(tree') /\ \A d \in Dirs : tree'[d].git = tree[d].git
  /\ DOMAIN sources' = SourceFields
  /\ version' \in [Dirs -> Counters] /\ gversion' \in Nat /\ gversion <= gversion'
  /\ \A d \in Dirs :
       /\ version[d].files <= version'[d].files /\ version[d].index <= version'[d].index
       /\ version'[d].files = version[d].files /\ gversion' = gversion
          => Entries(tree'[d].facts, sources') = Entries(tree[d].facts, sources)
       /\ version'[d].index = version[d].index => tree'[d].facts.index = tree[d].facts.index

\* The entries of a repository come from its configuration, not from its other facts.
LEMMA SameEntries ==
  ASSUME NEW f, NEW h, NEW g, f.config = h.config, f.worktreeConfig = h.worktreeConfig
  PROVE  Entries(f, g) = Entries(h, g)
BY DEF Entries

\* A counter of one directory goes up by one.
LEMMA CountedUp ==
  ASSUME version \in [Dirs -> Counters], NEW d \in Dirs, NEW k \in {"files", "index", "dir"},
         version' = [version EXCEPT ![d][k] = @ + 1]
  PROVE  /\ version' \in [Dirs -> Counters]
         /\ \A e \in Dirs : /\ version[e].files <= version'[e].files
                            /\ version[e].index <= version'[e].index
                            /\ e # d => version'[e] = version[e]
         /\ version'[d][k] # version[d][k]
<1>1. version[d] \in Counters
  OBVIOUS
<1>2. version' = [version EXCEPT ![d] = [version[d] EXCEPT ![k] = @ + 1]]
  OBVIOUS
<1>3. /\ [version[d] EXCEPT ![k] = @ + 1] \in Counters
      /\ [version[d] EXCEPT ![k] = @ + 1][k] = version[d][k] + 1 /\ version[d][k] \in Nat
      /\ \A j \in {"files", "index", "dir"} : j # k => [version[d] EXCEPT ![k] = @ + 1][j] = version[d][j]
  <2>1. version[d][k] \in Nat /\ DOMAIN version[d] = {"files", "index", "dir"}
    BY <1>1 DEF Counters
  <2> QED BY <1>1, <2>1 DEF Counters
<1>4. /\ version' \in [Dirs -> Counters] /\ version'[d] = [version[d] EXCEPT ![k] = @ + 1]
      /\ \A e \in Dirs : e # d => version'[e] = version[e]
  BY <1>2, <1>3
<1>5. \A e \in Dirs : version[e].files \in Nat /\ version[e].index \in Nat
  BY DEF Counters
<1>6. /\ version[d].files <= version'[d].files /\ version[d].index <= version'[d].index
  <2>1. version'[d].files = version[d].files \/ version'[d].files = version[d].files + 1
    BY <1>3, <1>4
  <2>2. version'[d].index = version[d].index \/ version'[d].index = version[d].index + 1
    BY <1>3, <1>4
  <2> QED BY <2>1, <2>2, <1>5
<1>7. \A e \in Dirs : version[e].files <= version'[e].files /\ version[e].index <= version'[e].index
  BY <1>4, <1>5, <1>6
<1>8. version'[d][k] # version[d][k]
  BY <1>3, <1>4
<1> QED BY <1>4, <1>7, <1>8

\* An edit of one fact of one repository leaves everything else of the tree alone.
LEMMA FactEdited ==
  ASSUME TreeOk(tree), NEW d \in Dirs, NEW k \in FactFields, NEW x, tree' = [tree EXCEPT ![d].facts[k] = x]
  PROVE  /\ TreeOk(tree') /\ \A e \in Dirs : tree'[e].git = tree[e].git
         /\ \A e \in Dirs : e # d => tree'[e].facts = tree[e].facts
         /\ \A j \in FactFields : j # k => tree'[d].facts[j] = tree[d].facts[j]
<1> DEFINE facts == [tree[d].facts EXCEPT ![k] = x]
           t == [tree[d] EXCEPT !.facts = facts]
<1>1. tree' = [tree EXCEPT ![d] = t]
  OBVIOUS
<1>2. /\ DOMAIN facts = FactFields
      /\ \A j \in FactFields : j # k => facts[j] = tree[d].facts[j]
  BY DEF TreeOk
<1> HIDE DEF facts
<1>3. DOMAIN t = {"git", "readable", "facts", "content"} /\ t.git = tree[d].git /\ t.content = tree[d].content
      /\ t.facts = facts
  BY DEF TreeOk
<1> HIDE DEF t
<1>4. DOMAIN tree' = Dirs /\ tree'[d] = t /\ \A e \in Dirs : e # d => tree'[e] = tree[e]
  BY <1>1 DEF TreeOk
<1>5. \A e \in Dirs : tree'[e].git = tree[e].git
  BY <1>3, <1>4
<1>6. TreeOk(tree')
  BY <1>2, <1>3, <1>4 DEF TreeOk
<1> QED BY <1>2, <1>3, <1>4, <1>5, <1>6

\* A file that appears outside changes nothing that was read there.
LEMMA AppearedOutside ==
  ASSUME IInv, pc # "done", NEW k \in {"late", "attributes", "userAttributes"}, NEW x,
         sources' = [sources EXCEPT ![k] = x], UNCHANGED <<tree, version, gversion>>,
         UNCHANGED <<pc, todo, disc, seen, evidence, drivers, indexed, query, report, truth, result>>
  PROVE  UserMoves
<1>1. /\ TreeOk(tree) /\ version \in [Dirs -> Counters] /\ gversion \in Nat /\ DOMAIN sources = SourceFields
      /\ \A d \in Dirs : version[d].files \in Nat /\ version[d].index \in Nat
  BY DEF IInv, TypeOk, Counters
<1>2. "config" \in SourceFields
  BY DEF SourceFields, GoodSources
<1>3. DOMAIN sources' = SourceFields /\ sources'.config = sources.config
  BY <1>1, <1>2
<1>4. \A d \in Dirs : Entries(tree'[d].facts, sources') = Entries(tree[d].facts, sources)
  BY <1>3 DEF Entries
<1>5. gversion' \in Nat /\ gversion <= gversion'
  BY <1>1
<1>6. \A d \in Dirs : version[d].files <= version'[d].files /\ version[d].index <= version'[d].index
  BY <1>1
<1>7. TreeOk(tree') /\ version' \in [Dirs -> Counters]
  BY <1>1
<1>8. \A d \in Dirs : tree'[d].git = tree[d].git /\ tree'[d].facts.index = tree[d].facts.index
  OBVIOUS
<1> QED BY <1>3, <1>4, <1>5, <1>6, <1>7, <1>8, Zenon DEF UserMoves

\* Every step of a user is one of these moves.
LEMMA UserStep ==
  ASSUME IInv, User
  PROVE  UserMoves
<1>0. TypeOk
  BY DEF IInv
<1>1. /\ TreeOk(tree) /\ version \in [Dirs -> Counters] /\ gversion \in Nat /\ DOMAIN sources = SourceFields
      /\ \A d \in Dirs : version[d].files \in Nat /\ version[d].index \in Nat
  BY <1>0 DEF TypeOk, Counters
<1>2. "config" \in FactFields /\ "worktreeConfig" \in FactFields /\ "info" \in FactFields /\ "index" \in FactFields
  BY DEF FactFields, GoodRepository
<1>3. ASSUME NEW d \in Dirs, EditContent(d) PROVE UserMoves
  <2>1. /\ pc # "done" /\ tree' = [tree EXCEPT ![d].content = "modified"]
        /\ UNCHANGED <<sources, version, gversion>>
        /\ UNCHANGED <<pc, todo, disc, seen, evidence, drivers, indexed, query, report, truth, result>>
    BY <1>3 DEF EditContent, InspectorVars
  <2>2. TreeOk(tree')
    BY <1>1, <2>1 DEF TreeOk, Contents
  <2>3. \A e \in Dirs : tree'[e].git = tree[e].git /\ tree'[e].facts = tree[e].facts
    BY <1>1, <2>1 DEF TreeOk
  <2> QED BY <1>1, <2>1, <2>2, <2>3 DEF UserMoves
<1>4. ASSUME NEW d \in Dirs, NEW entry, EditConfig(d, entry) PROVE UserMoves
  <2>1. /\ pc # "done" /\ tree' = [tree EXCEPT ![d].facts["config"] = {entry}]
        /\ version' = [version EXCEPT ![d]["files"] = @ + 1]
        /\ UNCHANGED <<sources, gversion>>
        /\ UNCHANGED <<pc, todo, disc, seen, evidence, drivers, indexed, query, report, truth, result>>
    BY <1>4 DEF EditConfig, InspectorVars, Disturb
  <2>2. /\ version' \in [Dirs -> Counters]
        /\ \A e \in Dirs : /\ version[e].files <= version'[e].files
                           /\ version[e].index <= version'[e].index
        /\ version'[d].files # version[d].files
    BY <1>1, <2>1, CountedUp
  <2>3. /\ TreeOk(tree') /\ \A e \in Dirs : tree'[e].git = tree[e].git
        /\ \A e \in Dirs : e # d => tree'[e].facts = tree[e].facts
        /\ tree'[d].facts.index = tree[d].facts.index
    <3>1. /\ TreeOk(tree') /\ \A e \in Dirs : tree'[e].git = tree[e].git
          /\ \A e \in Dirs : e # d => tree'[e].facts = tree[e].facts
          /\ \A j \in FactFields : j # "config" => tree'[d].facts[j] = tree[d].facts[j]
      <4>1. TreeOk(tree) /\ "config" \in FactFields
        BY <1>1, <1>2
      <4> QED BY <2>1, <4>1, FactEdited
    <3> QED BY <3>1, <1>2
  <2>4. \A e \in Dirs : version'[e].files = version[e].files /\ gversion' = gversion
                        => Entries(tree'[e].facts, sources') = Entries(tree[e].facts, sources)
    BY <2>1, <2>2, <2>3
  <2>5. \A e \in Dirs : tree'[e].facts.index = tree[e].facts.index
    BY <2>3
  <2> QED BY <1>1, <2>1, <2>2, <2>3, <2>4, <2>5 DEF UserMoves
<1>5. ASSUME NEW d \in Dirs, HideInIndex(d) PROVE UserMoves
  <2>1. /\ pc # "done" /\ tree' = [tree EXCEPT ![d].facts["index"] = "hidden"]
        /\ version' = [version EXCEPT ![d]["index"] = @ + 1]
        /\ UNCHANGED <<sources, gversion>>
        /\ UNCHANGED <<pc, todo, disc, seen, evidence, drivers, indexed, query, report, truth, result>>
    BY <1>5 DEF HideInIndex, InspectorVars, Disturb
  <2>2. /\ version' \in [Dirs -> Counters]
        /\ \A e \in Dirs : /\ version[e].files <= version'[e].files
                           /\ version[e].index <= version'[e].index
        /\ version'[d].index # version[d].index
    BY <1>1, <2>1, CountedUp
  <2>3. /\ TreeOk(tree') /\ \A e \in Dirs : tree'[e].git = tree[e].git
        /\ \A e \in Dirs : e # d => tree'[e].facts = tree[e].facts
        /\ tree'[d].facts.config = tree[d].facts.config
        /\ tree'[d].facts.worktreeConfig = tree[d].facts.worktreeConfig
    <3>1. /\ TreeOk(tree') /\ \A e \in Dirs : tree'[e].git = tree[e].git
          /\ \A e \in Dirs : e # d => tree'[e].facts = tree[e].facts
          /\ \A j \in FactFields : j # "index" => tree'[d].facts[j] = tree[d].facts[j]
      <4>1. TreeOk(tree) /\ "index" \in FactFields
        BY <1>1, <1>2
      <4> QED BY <2>1, <4>1, FactEdited
    <3> QED BY <3>1, <1>2
  <2>4. \A e \in Dirs : Entries(tree'[e].facts, sources) = Entries(tree[e].facts, sources)
    BY <2>3, SameEntries
  <2>5. \A e \in Dirs : version'[e].index = version[e].index => tree'[e].facts.index = tree[e].facts.index
    BY <2>2, <2>3
  <2> QED BY <1>1, <2>1, <2>2, <2>3, <2>4, <2>5 DEF UserMoves
<1>6. ASSUME NEW d \in Dirs, AddAttributes(d) PROVE UserMoves
  <2>1. /\ pc # "done" /\ tree' = [tree EXCEPT ![d].facts["info"] = "filter"]
        /\ UNCHANGED <<sources, version, gversion>>
        /\ UNCHANGED <<pc, todo, disc, seen, evidence, drivers, indexed, query, report, truth, result>>
    BY <1>6 DEF AddAttributes, InspectorVars, Disturb
  <2>2. /\ TreeOk(tree') /\ \A e \in Dirs : tree'[e].git = tree[e].git
        /\ \A e \in Dirs : e # d => tree'[e].facts = tree[e].facts
        /\ tree'[d].facts.config = tree[d].facts.config
        /\ tree'[d].facts.worktreeConfig = tree[d].facts.worktreeConfig
        /\ tree'[d].facts.index = tree[d].facts.index
    <3>1. /\ TreeOk(tree') /\ \A e \in Dirs : tree'[e].git = tree[e].git
          /\ \A e \in Dirs : e # d => tree'[e].facts = tree[e].facts
          /\ \A j \in FactFields : j # "info" => tree'[d].facts[j] = tree[d].facts[j]
      <4>1. TreeOk(tree) /\ "info" \in FactFields
        BY <1>1, <1>2
      <4> QED BY <2>1, <4>1, FactEdited
    <3> QED BY <3>1, <1>2
  <2>3. \A e \in Dirs : Entries(tree'[e].facts, sources) = Entries(tree[e].facts, sources)
    BY <2>2, SameEntries
  <2>4. \A e \in Dirs : tree'[e].facts.index = tree[e].facts.index
    BY <2>2
  <2> QED BY <1>1, <2>1, <2>2, <2>3, <2>4 DEF UserMoves
<1>7. ASSUME NEW d \in Dirs, AddEntry(d) PROVE UserMoves
  <2>1. /\ pc # "done" /\ version' = [version EXCEPT ![d]["dir"] = @ + 1]
        /\ UNCHANGED <<tree, sources, gversion>>
        /\ UNCHANGED <<pc, todo, disc, seen, evidence, drivers, indexed, query, report, truth, result>>
    BY <1>7 DEF AddEntry, InspectorVars, Disturb
  <2>2. /\ version' \in [Dirs -> Counters]
        /\ \A e \in Dirs : /\ version[e].files <= version'[e].files
                           /\ version[e].index <= version'[e].index
    BY <1>1, <2>1, CountedUp
  <2> QED BY <1>1, <2>1, <2>2 DEF UserMoves
<1>8. ASSUME NEW entry, EditSources(entry) PROVE UserMoves
  <2>1. /\ pc # "done" /\ gversion' = gversion + 1 /\ UNCHANGED <<tree, version>>
        /\ sources' = [sources EXCEPT !.config = {entry}]
        /\ UNCHANGED <<pc, todo, disc, seen, evidence, drivers, indexed, query, report, truth, result>>
    BY <1>8 DEF EditSources, InspectorVars, Disturb
  <2>2. gversion' \in Nat /\ gversion <= gversion' /\ gversion' # gversion
    BY <1>1, <2>1
  <2> QED BY <1>1, <2>1, <2>2 DEF UserMoves
<1>9. ASSUME NEW entry, ConfigAppears(entry) PROVE UserMoves
  <2>1. /\ pc # "done" /\ sources' = [sources EXCEPT !["late"] = {entry}]
        /\ UNCHANGED <<tree, version, gversion>>
        /\ UNCHANGED <<pc, todo, disc, seen, evidence, drivers, indexed, query, report, truth, result>>
    BY <1>9 DEF ConfigAppears, InspectorVars, Disturb
  <2> QED BY <2>1, AppearedOutside
<1>10. ASSUME NEW field \in {"attributes", "userAttributes"}, AttributesAppear(field) PROVE UserMoves
  <2>1. /\ pc # "done" /\ sources' = [sources EXCEPT ![field] = "filter"]
        /\ UNCHANGED <<tree, version, gversion>>
        /\ UNCHANGED <<pc, todo, disc, seen, evidence, drivers, indexed, query, report, truth, result>>
    BY <1>10 DEF AttributesAppear, InspectorVars, Disturb
  <2> QED BY <2>1, AppearedOutside
<1> QED BY <1>3, <1>4, <1>5, <1>6, <1>7, <1>8, <1>9, <1>10, Zenon DEF User

\* Evidence that agrees after a move of the user agreed before it, and is about the same.
LEMMA UserMovesInv ==
  ASSUME IInv, UserMoves
  PROVE  IInv'
<1>0. /\ TypeOk /\ EvidenceOld /\ Coverage /\ Early /\ Accounted /\ Vouched /\ Flags /\ Order /\ Answered
      /\ ReportedStateWasTrue /\ ParentNeverOutranksChild
  BY DEF IInv
<1>1. /\ pc # "done" /\ UNCHANGED <<pc, todo, disc, seen, evidence, drivers, indexed, query, report, truth, result>>
      /\ TreeOk(tree') /\ \A d \in Dirs : tree'[d].git = tree[d].git
      /\ DOMAIN sources' = SourceFields
      /\ version' \in [Dirs -> Counters] /\ gversion' \in Nat /\ gversion <= gversion'
      /\ \A d \in Dirs :
           /\ version[d].files <= version'[d].files /\ version[d].index <= version'[d].index
           /\ version'[d].files = version[d].files /\ gversion' = gversion
              => Entries(tree'[d].facts, sources') = Entries(tree[d].facts, sources)
           /\ version'[d].index = version[d].index => tree'[d].facts.index = tree[d].facts.index
  BY DEF UserMoves
<1>2. /\ gversion \in Nat /\ seen.sources \in Nat
      /\ \A d \in Dirs : /\ version[d].files \in Nat /\ version[d].index \in Nat
                         /\ version'[d].files \in Nat /\ version'[d].index \in Nat
                         /\ evidence[d].files \in Nat /\ evidence[d].index \in Nat
  BY <1>0, <1>1 DEF TypeOk, Counters
<1>3. /\ gversion' = seen.sources => gversion = seen.sources /\ gversion' = gversion
      /\ \A d \in Dirs :
           /\ version'[d].files = evidence[d].files =>
                version[d].files = evidence[d].files /\ version'[d].files = version[d].files
           /\ version'[d].index = evidence[d].index =>
                version[d].index = evidence[d].index /\ version'[d].index = version[d].index
  <2>1. \A old, now, then \in Nat : old <= now /\ now <= then /\ then = old => now = old /\ then = now
    OBVIOUS
  <2>2. gversion' = seen.sources => gversion = seen.sources /\ gversion' = gversion
    BY <1>0, <1>1, <1>2, <2>1 DEF EvidenceOld
  <2>3. ASSUME NEW d \in Dirs
        PROVE  /\ (version'[d].files = evidence[d].files =>
                     version[d].files = evidence[d].files /\ version'[d].files = version[d].files)
               /\ (version'[d].index = evidence[d].index =>
                     version[d].index = evidence[d].index /\ version'[d].index = version[d].index)
    <3>1. /\ evidence[d].files <= version[d].files /\ version[d].files <= version'[d].files
          /\ evidence[d].index <= version[d].index /\ version[d].index <= version'[d].index
      BY <1>0, <1>1 DEF EvidenceOld
    <3> QED BY <1>2, <2>1, <3>1
  <2> QED BY <2>2, <2>3
<1>4. TypeOk'
  BY <1>0, <1>1 DEF TypeOk
<1>5. EvidenceOld'
  BY <1>0, <1>1, <1>2 DEF EvidenceOld
<1>6. Repositories' = Repositories /\ Found' = Found
  BY <1>1 DEF Repositories, Found
<1>7. Coverage'
  BY <1>0, <1>1, <1>6 DEF Coverage, Pending
<1>8. Early' /\ Accounted'
  BY <1>0, <1>1 DEF Early, Accounted, Pending
<1>9. Vouched'
  BY <1>0, <1>1, <1>3 DEF Vouched
<1>10. Flags'
  <2>1. \A d \in Dirs : NotHidden(d) => NotHidden(d)'
    BY <1>1, <1>3 DEF NotHidden
  <2>2. pc = "index_end" => Head(todo) \in Dirs
    BY <1>0, HeadAndTail DEF TypeOk, Early
  <2>3. indexed \subseteq Dirs
    BY <1>0 DEF TypeOk
  <2>4. \A d \in indexed : NotHidden(d)'
    BY <1>0, <2>1, <2>3 DEF Flags
  <2>5. pc = "index_end" => NotHidden(Head(todo))'
    BY <1>0, <1>1, <2>1, <2>2 DEF Flags
  <2> QED BY <1>1, <2>4, <2>5 DEF Flags
<1>11. Order'
  BY <1>0, <1>1 DEF Order, Pending, UnsafeDescendant, Descendants
<1>12. Answered'
  <2> SUFFICES ASSUME pc = "status_end", OutputParses(query.output),
                      truth[Head(todo)] # Unrecorded,
                      (\A e \in Participants(Head(todo)) : Holds(e))'
               PROVE  truth[Head(todo)] \in Contents /\ query.output = Porcelain(truth[Head(todo)])
    BY <1>1 DEF Answered
  <2>1. Head(todo) \in Dirs /\ indexed \subseteq Dirs
    BY <1>0, HeadAndTail DEF TypeOk, Early
  <2>2. ASSUME NEW e \in Participants(Head(todo)) PROVE Holds(e)
    <3>1. e \in Dirs
      BY <2>1 DEF Participants, Descendants
    <3>2. Holds(e)'
      BY <1>1 DEF Participants, Descendants
    <3> QED BY <3>1, <3>2, <1>1, <1>3 DEF Holds
  <2> QED BY <2>2, <1>0 DEF Answered
<1>13. ReportedStateWasTrue' /\ ParentNeverOutranksChild'
  BY <1>0, <1>1 DEF ReportedStateWasTrue, ParentNeverOutranksChild
<1>14. NothingIsOverlooked'
  BY <1>0, <1>1 DEF NothingIsOverlooked, Early
<1> QED BY <1>4, <1>5, <1>7, <1>8, <1>9, <1>10, <1>11, <1>12, <1>13, <1>14 DEF IInv

\* The clock, and the end, touch nothing that the invariant is about.
LEMMA NothingMoves ==
  ASSUME IInv, UNCHANGED <<world, pc, todo, disc, seen, evidence, drivers, indexed, query, report, truth, result>>
  PROVE  IInv'
<1>1. UNCHANGED <<tree, sources, version, gversion, pc, todo, disc, seen, evidence, drivers, indexed,
                  query, report, truth, result>>
  BY DEF world
<1>2. TypeOk' /\ EvidenceOld' /\ Coverage' /\ Early' /\ Accounted'
  BY <1>1 DEF IInv, TypeOk, EvidenceOld, Coverage, Early, Accounted, Pending, Repositories, Found
<1>3. Vouched' /\ Flags'
  BY <1>1 DEF IInv, Vouched, Flags, NotHidden
<1>4. Order' /\ Answered'
  BY <1>1 DEF IInv, Order, Answered, Pending, Holds, Participants, Descendants, UnsafeDescendant
<1>5. ReportedStateWasTrue' /\ ParentNeverOutranksChild' /\ NothingIsOverlooked'
  BY <1>1 DEF IInv, ReportedStateWasTrue, ParentNeverOutranksChild, NothingIsOverlooked
<1> QED BY <1>2, <1>3, <1>4, <1>5 DEF IInv

\* Every step preserves the invariant.
LEMMA NextStep ==
  ASSUME IInv, [Next]_ivars
  PROVE  IInv'
<1>1. CASE Inspector
  BY <1>1, ScanDirectoryStep, ScanExpiredStep, DiscoveredStep, InvalidCopyRootStep, PreflightSourcesStep,
     PreflightReadStep, PreflightExpiredStep, PreflightJudgeStep, PreflightedStep, IndexBeginStep,
     IndexQueryStep, IndexEndStep, IndexCheckedStep, StatusBeginStep, StatusQueryStep, StatusGarbledStep,
     StatusEndStep, FinalRevalidationStep, Zenon DEF Inspector
<1>2. CASE User
  BY <1>2, UserStep, UserMovesInv, Zenon
<1>3. CASE BudgetExpires
  BY <1>3, NothingMoves DEF BudgetExpires
<1>4. CASE UNCHANGED ivars
  BY <1>4, NothingMoves DEF ivars, world
<1>5. CASE Done
  BY <1>4, <1>5 DEF Done
<1> QED BY <1>1, <1>2, <1>3, <1>4, <1>5 DEF Next
------------------------------------------------------------------------------
(***************************************************************************)
(* The theorems.                                                            *)
(***************************************************************************)

\* The inductive invariant: evidence that still agrees vouches for what the
\* inspection judged of the files it read, in every stage from the walk to the last
\* revalidation; it vouches for no configuration file that appears outside afterwards.
THEOREM InspectionInvariant == Spec => []IInv
<1>1. Init => IInv
  BY InitIInv
<1>2. IInv /\ [Next]_ivars => IInv'
  BY NextStep
<1> QED BY <1>1, <1>2, PTL DEF Spec

\* A repository is reported clean only when nothing tracked had changed at the
\* moment Git looked, and dirty only when something had, however the user edits the
\* configuration, the attributes and the index that the inspection read (inspect_status
\* revalidates the evidence of the repository and of all that takes part in its query)
\* and whatever attributes appear.  A query that ran after a configuration file appeared
\* outside the copy where preflight_sources had found none vouches for nothing: the code
\* keeps no evidence of a file that did not exist (truth is Unrecorded then).
THEOREM ReportsAreTrue == Spec => []ReportedStateWasTrue
<1>1. IInv => ReportedStateWasTrue
  BY DEF IInv
<1> QED BY <1>1, InspectionInvariant, PTL

\* A repository is never better known than one nested in it, at any depth: the
\* deepest are asked first and an unknown one keeps those above it unknown
\* (indexed.sort_by_key, has_unsafe_descendant).
THEOREM ParentsNeverOutrank == Spec => []ParentNeverOutranksChild
<1>1. IInv => ParentNeverOutranksChild
  BY DEF IInv
<1> QED BY <1>1, InspectionInvariant, PTL

\* A known aggregate covers every repository of the copy, whatever the limits of
\* the walk and whichever step fails (DiscoveryCompleteness, aggregate_git_state).
THEOREM AggregatesCoverEverything == Spec => []NothingIsOverlooked
<1>1. IInv => NothingIsOverlooked
  BY DEF IInv
<1> QED BY <1>1, InspectionInvariant, PTL
=============================================================================
