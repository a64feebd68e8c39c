----------------------------- MODULE GitInspect -----------------------------
(***************************************************************************)
(* The read-only inspection of the repositories inside one workspace copy  *)
(* (inspect.rs): a bounded walk that discovers them, the preflight of every*)
(* repository, the index flags, then one status query per repository, the  *)
(* deepest first, each between two revalidations of its evidence.  A user  *)
(* keeps working in the copy meanwhile, the queries may fail and the total *)
(* budget may run out.                                                     *)
(***************************************************************************)
EXTENDS GitMetadata, SequencesExt

CONSTANTS Dirs,            \* the directories of the copy, <<>> among them
          Ample,           \* InspectionLimits no walk of Dirs reaches
          Tight,           \* InspectionLimits that are reached: [entries, repositories, depth]
          MaxTrouble       \* flaws, limits, edits, failed queries and expiries together

Names == UNION {ToSet(d) : d \in Dirs}

\* The directories are a finite tree: with a directory, those it is in.
ASSUME GitInspectAssumption ==
  /\ <<>> \in Dirs /\ IsFiniteSet(Dirs) /\ MaxTrouble \in Nat
  /\ \A d \in Dirs : d \in Seq(Names) /\ \A n \in 0 .. Len(d) : SubSeq(d, 1, n) \in Dirs

VARIABLES
  limits,    \* InspectionLimits of this inspection
  tree,      \* each directory: its .git entry, its facts, its tracked content
  sources,   \* configuration and environment outside the copy
  version,   \* each directory's evidence: identities of its metadata files, of its
             \* index and of the directory itself, as counters
  gversion,  \* identities of the sources outside
  expired,   \* whether the total budget has run out
  trouble,   \* troubles that happened so far
  pc, todo,
  scanned,   \* scanned_entries
  disc,      \* Discovery: candidates, completeness, issues
  seen,      \* root_identity and the identities of the sources when they were read
  evidence,  \* version at preflight, Unprepared before it
  drivers,   \* filter_drivers of each prepared repository
  indexed,   \* repositories whose index flags were checked
  query,     \* the query under way: revalidation, output
  report,    \* state of each inspected repository
  truth,     \* content at the moment of the last status query, if it is recorded
  result     \* the finished GitInspection

ivars == <<limits, tree, sources, version, gversion, expired, trouble, pc, todo, scanned, disc,
           seen, evidence, drivers, indexed, query, report, truth, result>>
world == <<limits, tree, sources, version, gversion>>

NoResult == [aggregate |-> "none", complete |-> FALSE, candidates |-> {}]
Idle == [output |-> <<>>, ok |-> FALSE]
Fresh == [files |-> 1, index |-> 1, dir |-> 1]
Unrecorded == "unrecorded"
Unprepared == [files |-> 0, index |-> 0, dir |-> 0]
NoDiscovery == [candidates |-> {}, complete |-> TRUE, issues |-> <<>>]

Repositories == {d \in Dirs : tree[d].git \in {"directory", "file"}}
Subdirectories(d) == {e \in Dirs : Len(e) = Len(d) + 1 /\ IsStrictDescendant(e, d)}
Descendants(d, set) == {e \in set : IsStrictDescendant(e, d)}

\* At most one directory or one source is out of the ordinary.
InitialTrees ==
  LET plain == [Dirs -> {[git |-> "none", readable |-> TRUE, facts |-> GoodRepository],
                         [git |-> "directory", readable |-> TRUE, facts |-> GoodRepository]}]
      odd(t) == UNION {
        {[t EXCEPT ![d] = [git |-> "file", readable |-> TRUE, facts |-> f]] : f \in {Submodule, LinkedWorktree}}
        \cup {[t EXCEPT ![d].git = "other"], [t EXCEPT ![d].readable = FALSE]}
        \cup (IF t[d].git = "none" THEN {} ELSE
                {[t EXCEPT ![d].facts[x[1]] = x[2]] : x \in RepositoryFlaws}
                \cup {[t EXCEPT ![d].git = "file", ![d].facts = [Submodule EXCEPT ![x[1]] = x[2]]]
                        : x \in {y \in RepositoryFlaws : y[1] \in {"gitdir", "coreWorktree", "back"}}})
        : d \in Dirs}
  IN plain \cup UNION {odd(t) : t \in plain}

InitialSources ==
  {GoodSources} \cup {[GoodSources EXCEPT ![x[1]] = x[2]] : x \in SourceFlaws}
  \cup {[GoodSources EXCEPT !.config = {x}] : x \in {"include.path", "garbled", "filter.d.clean"}}
  \cup {[GoodSources EXCEPT !.attributes = x] : x \in {"filter", "unreadable"}}
  \cup {[GoodSources EXCEPT !.userAttributes = x] : x \in {"filter", "elsewhere"}}

IsPlain(t) == \A d \in Dirs : t[d].git \in {"none", "directory"} /\ t[d].readable /\ t[d].facts = GoodRepository

Init ==
  /\ \E t \in InitialTrees, g \in InitialSources, l \in {Ample} \cup Tight :
       /\ Cardinality({x \in {"tree", "sources", "limits"} :
            (x = "tree" /\ ~IsPlain(t)) \/ (x = "sources" /\ g # GoodSources) \/ (x = "limits" /\ l # Ample)}) <= 1
       /\ \E dirty \in Dirs, content \in IF IsPlain(t) THEN Contents ELSE {"clean", "modified"} :
            tree = [d \in Dirs |-> [git |-> t[d].git, readable |-> t[d].readable, facts |-> t[d].facts,
                                    content |-> IF d = dirty /\ t[d].git # "none" THEN content ELSE "clean"]]
       /\ sources = g /\ limits = l
       /\ trouble = IF IsPlain(t) /\ g = GoodSources /\ l = Ample THEN 0 ELSE 1
  /\ version = [d \in Dirs |-> Fresh] /\ gversion = 1 /\ expired = FALSE
  /\ pc = "discover" /\ todo = <<<<>>>> /\ scanned = 0 /\ disc = NoDiscovery
  /\ seen = [root |-> 1, sources |-> 1] /\ evidence = [d \in Dirs |-> Unprepared] /\ drivers = [d \in Dirs |-> {}] /\ indexed = {}
  /\ query = Idle /\ report = [d \in Dirs |-> "none"] /\ truth = [d \in Dirs |-> "none"] /\ result = NoResult

PushUnique(issues, issue) == IF issue \in ToSet(issues) THEN issues ELSE Append(issues, issue)
Incomplete(d, issue) == [d EXCEPT !.complete = FALSE, !.issues = PushUnique(@, issue)]

(***************************************************************************)
(* discover: one directory of the walk per step.                           *)
(***************************************************************************)
Unchecked == <<seen, evidence, drivers, indexed, query, report, truth, result>>

\* The walk over one directory's entries: `.git` becomes a candidate, too many or
\* too deep makes the discovery incomplete, and so does every failure.
RecordGit(d) ==
  CASE tree[d].git = "none" -> disc
    [] tree[d].git = "other" -> Incomplete(disc, "UnsafeRepositoryMetadata")
    [] OTHER -> IF Cardinality(disc.candidates) = limits.repositories THEN Incomplete(disc, "RepositoryLimitReached")
                ELSE [disc EXCEPT !.candidates = @ \cup {d}]

RecordDepth_Mutant(d, found) == found

RecordDepth(d, found) ==
  IF Len(d) = limits.depth /\ Subdirectories(d) # {} THEN Incomplete(found, "DepthLimitReached") ELSE found

EntryCount(d) == Cardinality(Subdirectories(d)) + (IF tree[d].git = "none" THEN 0 ELSE 1)

ScanDirectory ==
  /\ pc = "discover" /\ todo # <<>> /\ ~expired
  /\ LET d == Last(todo) rest == Front(todo) IN
     IF ~tree[d].readable THEN
       /\ disc' = Incomplete(disc, "ScanFailed") /\ todo' = rest /\ UNCHANGED scanned
     ELSE IF scanned + EntryCount(d) > limits.entries THEN
       \* consume_scan_entry: some entries are still seen before the limit.
       /\ \E found \in {disc, RecordGit(d)} : disc' = Incomplete(found, "ScanLimitReached")
       /\ todo' = <<>> /\ scanned' = limits.entries
     ELSE
       /\ disc' = RecordDepth(d, RecordGit(d))
       /\ todo' = rest \o (IF Len(d) = limits.depth THEN <<>> ELSE SetToSeq(Subdirectories(d)))
       /\ scanned' = scanned + EntryCount(d)
  /\ UNCHANGED <<world, expired, trouble, pc, Unchecked>>

ScanExpired ==
  /\ pc = "discover" /\ todo # <<>> /\ expired
  /\ disc' = Incomplete(disc, "BudgetExpired") /\ todo' = <<>>
  /\ UNCHANGED <<world, expired, trouble, pc, scanned, Unchecked>>

Finish(d, states) ==
  /\ disc' = d /\ report' = states /\ pc' = "done" /\ todo' = <<>>
  /\ result' = [aggregate |-> IF d.issues # <<>> THEN "Unknown"
                              ELSE AggregateGitState(d.complete, {states[x] : x \in d.candidates}),
                complete |-> d.complete, candidates |-> d.candidates]

AllUnknown == [d \in Dirs |-> IF d \in disc.candidates THEN "Unknown" ELSE "none"]

\* An open of the root fails; an incomplete discovery makes every candidate unknown.
Discovered ==
  /\ pc = "discover" /\ todo = <<>>
  /\ IF disc.complete /\ disc.candidates # {}
     THEN pc' = "sources" /\ UNCHANGED <<todo, disc, report, result>>
     ELSE Finish(disc, AllUnknown)
  /\ UNCHANGED <<world, expired, trouble, scanned, seen, evidence, drivers, indexed, query, truth>>

InvalidCopyRoot ==
  /\ pc = "discover" /\ todo = <<<<>>>> /\ trouble < MaxTrouble /\ trouble' = trouble + 1
  /\ Finish(Incomplete(NoDiscovery, "InvalidCopyRoot"), report)
  /\ UNCHANGED <<world, expired, scanned, seen, evidence, drivers, indexed, query, truth>>

(***************************************************************************)
(* preflight_sources, then preflight_repository for every candidate before *)
(* any query that reads a repository.                                      *)
(***************************************************************************)
\* A query of the configuration may fail like any other.
Verdicts(verdict) == {IF expired THEN "BudgetExpired" ELSE verdict}
                     \cup (IF trouble < MaxTrouble /\ ~expired THEN {"QueryFailed"} ELSE {})
Charge(issue) == trouble' = IF issue = "QueryFailed" THEN trouble + 1 ELSE trouble

PreflightSources ==
  /\ pc = "sources"
  /\ \E issue \in Verdicts(SourcesVerdict(sources)) :
       /\ Charge(issue)
       /\ IF issue = "ok"
          THEN /\ pc' = "preflight" /\ todo' = SetToSeq(disc.candidates) /\ UNCHANGED <<disc, report, result>>
          ELSE Finish([disc EXCEPT !.issues = Append(@, issue)], AllUnknown)
  /\ seen' = [seen EXCEPT !.sources = gversion]
  /\ UNCHANGED <<world, expired, scanned, evidence, drivers, indexed, query, truth>>

\* The files of one repository are read, then what was read is judged.
PreflightRead ==
  /\ pc = "preflight" /\ todo # <<>> /\ ~expired
  /\ evidence' = [evidence EXCEPT ![Head(todo)] = version[Head(todo)]] /\ pc' = "judge"
  /\ UNCHANGED <<world, expired, trouble, todo, scanned, disc, seen, drivers, indexed, query, report, truth, result>>

Unknown(d) == report' = [report EXCEPT ![d] = "Unknown"]

PreflightExpired ==
  /\ pc = "preflight" /\ todo # <<>> /\ expired
  /\ disc' = [disc EXCEPT !.complete = FALSE, !.issues = Append(@, "BudgetExpired")]
  /\ Unknown(Head(todo)) /\ todo' = Tail(todo)
  /\ UNCHANGED <<world, expired, trouble, pc, scanned, seen, evidence, drivers, indexed, query, truth, result>>

\* revalidate_file_evidence: every file that was read is still the same.
RevalidateFileEvidence(d) ==
  FirstIssue(<<Require(~expired, "BudgetExpired"),
               Require(version[d].files = evidence[d].files /\ gversion = seen.sources, "EvidenceChanged")>>)

PreflightJudge ==
  /\ pc = "judge"
  /\ LET d == Head(todo) IN
     \E issue \in Verdicts(FirstIssue(<<RepositoryVerdict(tree[d].facts, sources), RevalidateFileEvidence(d)>>)) :
       /\ Charge(issue)
       /\ IF issue = "ok"
          THEN /\ drivers' = [drivers EXCEPT ![d] = FilterDrivers(Entries(tree[d].facts, sources))]
               /\ UNCHANGED <<report, evidence>>
          ELSE /\ Unknown(d) /\ UNCHANGED drivers
               /\ evidence' = [evidence EXCEPT ![d] = Unprepared]
  /\ todo' = Tail(todo) /\ pc' = "preflight"
  /\ UNCHANGED <<world, expired, scanned, disc, seen, indexed, query, truth, result>>

Prepared == {d \in disc.candidates : evidence[d] # Unprepared}

Preflighted ==
  /\ pc = "preflight" /\ todo = <<>>
  /\ pc' = "index" /\ todo' = SetToSeq(Prepared)
  /\ UNCHANGED <<world, expired, trouble, scanned, disc, seen, evidence, drivers, indexed, query, report, truth, result>>

(***************************************************************************)
(* The queries that read a repository.  Each runs between two checks of    *)
(* the evidence; what Git reads is what is there when it runs.             *)
(***************************************************************************)
\* revalidate_repository: worktree, git and common directories, index, files.
RevalidateRepository(d) ==
  FirstIssue(<<Require(~expired, "BudgetExpired"),
               Require(version[d].dir = evidence[d].dir /\ version[d].index = evidence[d].index, "EvidenceChanged"),
               RevalidateFileEvidence(d)>>)

RevalidateRepositories(set) ==
  IF \A d \in set : RevalidateRepository(d) = "ok" THEN "ok"
  ELSE RevalidateRepository(CHOOSE d \in set : RevalidateRepository(d) # "ok")

Leave(d, label) == Unknown(d) /\ todo' = Tail(todo) /\ pc' = label /\ query' = Idle

IndexBegin ==
  /\ pc = "index" /\ todo # <<>>
  /\ IF RevalidateRepository(Head(todo)) = "ok" THEN pc' = "index_query" /\ UNCHANGED <<todo, report, query>>
     ELSE Leave(Head(todo), "index")
  /\ UNCHANGED <<world, expired, trouble, scanned, disc, seen, evidence, drivers, indexed, truth, result>>

\* map_query_result: a failed query and a non-zero exit are issues.
IndexQuery ==
  /\ pc = "index_query"
  /\ \E issue \in Verdicts(IndexFlagsVerdict(tree[Head(todo)].facts)) :
       /\ Charge(issue)
       /\ IF issue = "ok" THEN pc' = "index_end" /\ UNCHANGED <<todo, report, query>> ELSE Leave(Head(todo), "index")
  /\ UNCHANGED <<world, expired, scanned, disc, seen, evidence, drivers, indexed, truth, result>>

IndexEnd ==
  /\ pc = "index_end"
  /\ IF RevalidateRepository(Head(todo)) = "ok"
     THEN indexed' = indexed \cup {Head(todo)} /\ todo' = Tail(todo) /\ pc' = "index" /\ UNCHANGED <<report, query>>
     ELSE Leave(Head(todo), "index") /\ UNCHANGED indexed
  /\ UNCHANGED <<world, expired, trouble, scanned, disc, seen, evidence, drivers, truth, result>>

\* indexed.sort_by_key: the deepest repository first, equals in any order.
StatusOrders_Mutant(set) ==
  {s \in Injection(1..Cardinality(set), set) :
     \A i, j \in DOMAIN s : i < j => PathDepth(s[i]) <= PathDepth(s[j])}

StatusOrders(set) ==
  {s \in Injection(1..Cardinality(set), set) :
     \A i, j \in DOMAIN s : i < j => PathDepth(s[i]) >= PathDepth(s[j])}

IndexChecked ==
  /\ pc = "index" /\ todo = <<>>
  /\ pc' = "status" /\ todo' \in StatusOrders(indexed)
  /\ UNCHANGED <<world, expired, trouble, scanned, disc, seen, evidence, drivers, indexed, query, report, truth, result>>

Participants(d) == {d} \cup Descendants(d, indexed)
FilterDriverUnion(d) == UNION {drivers[e] : e \in Participants(d)}

UnsafeDescendant(d) == \E e \in Descendants(d, Dirs) : report[e] = "Unknown"

\* inspect_status, before the query.
StatusBegin ==
  /\ pc = "status" /\ todo # <<>>
  /\ IF ~UnsafeDescendant(Head(todo)) /\ RevalidateRepositories(Participants(Head(todo))) = "ok"
     THEN pc' = "status_query" /\ UNCHANGED <<todo, report, query>>
     ELSE Leave(Head(todo), "status")
  /\ UNCHANGED <<world, expired, trouble, scanned, disc, seen, evidence, drivers, indexed, truth, result>>

(***************************************************************************)
(* Git (external): status prints what changed unless the configuration, the*)
(* index or a filter program hides it.  A filter that the query overrides  *)
(* fails instead of running.                                               *)
(***************************************************************************)
HidingEntries == {"include.path", "core.sparsecheckout=true", "core.unknown"}

StatusOutputs(d, guard) ==
  LET here == {d} \cup Descendants(d, Repositories)
      inForce(e) == Entries(tree[e].facts, sources) \cup sources.late
      filtered == \E e \in here :
        /\ "filter" \in {tree[e].facts.attributes, tree[e].facts.info, sources.attributes, sources.userAttributes}
        /\ "filter.d.clean" \in inForce(e)
      hidden == \E e \in here :
        \/ inForce(e) \cap HidingEntries # {}
        \/ tree[e].facts.index = "hidden"
        \/ filtered /\ "d" \notin guard
  IN IF filtered /\ "d" \in guard THEN {"nonzero"}
     ELSE IF hidden THEN {"clean", tree[d].content} ELSE {tree[d].content}

\* What a query is held to afterwards: the content it met, unless Git ran under a
\* configuration file that nobody had seen.
Witnessed(d) == IF sources.late = {} THEN tree[d].content ELSE Unrecorded

StatusQuery ==
  /\ pc = "status_query"
  /\ \E printed \in StatusOutputs(Head(todo), FilterDriverUnion(Head(todo))) :
     \E issue \in Verdicts(Require(printed # "nonzero", "QueryNonZeroExit")) :
       /\ Charge(issue)
       /\ IF issue = "ok"
          THEN query' = [output |-> Porcelain(printed), ok |-> TRUE] /\ pc' = "status_end" /\ UNCHANGED <<todo, report>>
          ELSE Leave(Head(todo), "status")
  /\ truth' = [truth EXCEPT ![Head(todo)] = Witnessed(Head(todo))]
  /\ UNCHANGED <<world, expired, scanned, disc, seen, evidence, drivers, indexed, result>>

\* Output that breaks the grammar is as likely as any other failure.
StatusGarbled ==
  /\ pc = "status_query" /\ trouble < MaxTrouble /\ trouble' = trouble + 1
  /\ query' = [output |-> <<[Record("1", ".M", "N...", TRUE, 1) EXCEPT !.valid = FALSE]>>, ok |-> TRUE]
  /\ pc' = "status_end"
  /\ truth' = [truth EXCEPT ![Head(todo)] = Witnessed(Head(todo))]
  /\ UNCHANGED <<world, expired, todo, scanned, disc, seen, evidence, drivers, indexed, report, result>>

\* inspect_status, after the query: the evidence again, then the parser.
StatusEnd_Mutant ==
  /\ pc = "status_end"
  /\ IF OutputParses(query.output)
     THEN /\ report' = [report EXCEPT ![Head(todo)] = FromTrackedChangeCount(ParseTrackedChangeCount(query.output))]
          /\ todo' = Tail(todo) /\ pc' = "status" /\ query' = Idle
     ELSE Leave(Head(todo), "status")
  /\ UNCHANGED <<world, expired, trouble, scanned, disc, seen, evidence, drivers, indexed, truth, result>>

StatusEnd ==
  /\ pc = "status_end"
  /\ IF RevalidateRepositories(Participants(Head(todo))) = "ok" /\ OutputParses(query.output)
     THEN /\ report' = [report EXCEPT ![Head(todo)] = FromTrackedChangeCount(ParseTrackedChangeCount(query.output))]
          /\ todo' = Tail(todo) /\ pc' = "status" /\ query' = Idle
     ELSE Leave(Head(todo), "status")
  /\ UNCHANGED <<world, expired, trouble, scanned, disc, seen, evidence, drivers, indexed, truth, result>>

\* The root and the sources outside are looked at once more.
FinalRevalidation ==
  /\ pc = "status" /\ todo = <<>>
  /\ LET atRoot == IF expired THEN Incomplete(disc, "BudgetExpired")
                   ELSE IF version[<<>>].dir # seen.root THEN Incomplete(disc, "EvidenceChanged") ELSE disc
         atSources == IF expired THEN Incomplete(atRoot, "BudgetExpired")
                      ELSE IF gversion # seen.sources THEN Incomplete(atRoot, "EvidenceChanged") ELSE atRoot
     IN Finish(atSources, report)
  /\ UNCHANGED <<world, expired, trouble, scanned, seen, evidence, drivers, indexed, query, truth>>

Inspector ==
  \/ ScanDirectory \/ ScanExpired \/ Discovered \/ InvalidCopyRoot \/ PreflightSources
  \/ PreflightRead \/ PreflightExpired \/ PreflightJudge \/ Preflighted
  \/ IndexBegin \/ IndexQuery \/ IndexEnd \/ IndexChecked
  \/ StatusBegin \/ StatusQuery \/ StatusGarbled \/ StatusEnd \/ FinalRevalidation

(***************************************************************************)
(* A user at work in the copy, and the clock.  Metadata that Git or an     *)
(* editor rewrites gets a new identity.  Three things do not show in the    *)
(* evidence: tracked content, an attributes file that appears where there  *)
(* was none, and a configuration file that appears outside the copy where  *)
(* there was none (in the copy, its directory is another one then).        *)
(***************************************************************************)
InspectorVars == <<expired, pc, todo, scanned, disc, seen, evidence, drivers, indexed, query, report, truth, result>>
Disturb == pc # "done" /\ trouble < MaxTrouble /\ trouble' = trouble + 1

\* What happens before the first preflight is an initial state as well.
AtWork == pc \notin {"discover", "sources", "done"}

\* Only a status query reads content: an earlier edit is an initial state as well.
EditContent(d) ==
  /\ pc \in {"index_end", "status", "status_query", "status_end"} /\ d \in Repositories
  /\ \A e \in Dirs : tree[e].content = "clean"
  /\ tree' = [tree EXCEPT ![d].content = "modified"]
  /\ UNCHANGED <<limits, sources, version, gversion, trouble, InspectorVars>>

EditConfig(d, entry) ==
  /\ Disturb /\ AtWork /\ d \in Repositories /\ tree[d].facts.config # {entry}
  /\ tree' = [tree EXCEPT ![d].facts.config = {entry}]
  /\ version' = [version EXCEPT ![d].files = @ + 1]
  /\ UNCHANGED <<limits, sources, gversion, InspectorVars>>

HideInIndex(d) ==
  /\ Disturb /\ AtWork /\ d \in Repositories /\ tree[d].facts.index = "plain"
  /\ tree' = [tree EXCEPT ![d].facts.index = "hidden"]
  /\ version' = [version EXCEPT ![d].index = @ + 1]
  /\ UNCHANGED <<limits, sources, gversion, InspectorVars>>

AddAttributes(d) ==
  /\ Disturb /\ AtWork /\ d \in Repositories /\ tree[d].facts.info = "none"
  /\ tree' = [tree EXCEPT ![d].facts.info = "filter"]
  /\ UNCHANGED <<limits, sources, version, gversion, InspectorVars>>

AddEntry(d) ==
  /\ Disturb /\ version' = [version EXCEPT ![d].dir = @ + 1]
  /\ UNCHANGED <<limits, tree, sources, gversion, InspectorVars>>

\* A file outside that preflight_sources read is rewritten.
EditSources(entry) ==
  /\ Disturb /\ AtWork /\ sources.config # {entry} /\ sources' = [sources EXCEPT !.config = {entry}]
  /\ gversion' = gversion + 1
  /\ UNCHANGED <<limits, tree, version, InspectorVars>>

\* A file appears outside where preflight_sources found none: a configuration or a
\* system attributes file is not looked at again, the default attributes file of the
\* user by the preflight of every repository that is still to come.
ConfigAppears(entry) ==
  /\ Disturb /\ AtWork /\ sources.late = {} /\ sources' = [sources EXCEPT !.late = {entry}]
  /\ UNCHANGED <<limits, tree, version, gversion, InspectorVars>>

AttributesAppear(field) ==
  /\ Disturb /\ AtWork /\ sources[field] = "none" /\ sources' = [sources EXCEPT ![field] = "filter"]
  /\ UNCHANGED <<limits, tree, version, gversion, InspectorVars>>

BudgetExpires ==
  /\ Disturb /\ ~expired /\ expired' = TRUE
  /\ UNCHANGED <<world, pc, todo, scanned, disc, seen, evidence, drivers, indexed, query, report, truth, result>>

User ==
  \/ \E d \in Dirs : EditContent(d) \/ HideInIndex(d) \/ AddAttributes(d) \/ AddEntry(d)
  \/ \E d \in Dirs, entry \in {"core.sparsecheckout=true", "filter.d.clean"} : EditConfig(d, entry)
  \/ \E entry \in {"include.path", "filter.d.clean"} : EditSources(entry) \/ ConfigAppears(entry)
  \/ \E field \in {"attributes", "userAttributes"} : AttributesAppear(field)

Done == pc = "done" /\ UNCHANGED ivars

Next == Inspector \/ User \/ BudgetExpires \/ Done

Spec == Init /\ [][Next]_ivars

(***************************************************************************)
(* Properties.                                                             *)
(***************************************************************************)

\* A repository is reported clean, or dirty, only when it was: whatever hides
\* changes from Git was either seen by the preflight or is noticed around the
\* query (inspect_status), even while the user edits configuration, attributes and
\* index.  The exception is a query that ran after a configuration file appeared
\* outside the copy where preflight_sources had found none: it may be wrong.
ReportedStateWasTrue ==
  \A d \in Dirs : truth[d] # Unrecorded =>
    /\ report[d] = "Clean" => ~TrackedChange(truth[d])
    /\ report[d] = "Dirty" => TrackedChange(truth[d])

\* A repository is never better known than the repositories nested in it: their
\* configuration takes part in its status query (UnsafeDescendant).
ParentNeverOutranksChild ==
  \A d, e \in Dirs :
    IsStrictDescendant(e, d) /\ report[e] = "Unknown" => report[d] \notin {"Clean", "Dirty"}

\* A known aggregate covers every repository of the copy: no limit of the walk and
\* no failure on the way can hide one (DiscoveryCompleteness, aggregate_git_state).
NothingIsOverlooked ==
  result.aggregate \in {"Clean", "Dirty", "NotApplicable"} =>
    /\ result.candidates = {d \in Dirs : tree[d].git # "none"}
    /\ \A d \in result.candidates : report[d] \in {"Clean", "Dirty"}

=============================================================================
