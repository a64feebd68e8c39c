---------------------------- MODULE GitMetadata ----------------------------
(***************************************************************************)
(* What the read-only Git inspection accepts: the verdicts of inspect.rs   *)
(* over the metadata of one repository and over the configuration sources  *)
(* outside it, and the parser of the status output (core git.rs).  A file, *)
(* a reference or a configuration entry is its class, as the checks tell   *)
(* them apart.                                                             *)
(***************************************************************************)
EXTENDS Naturals, Sequences, FiniteSets

\* The first verdict that is not "ok", in the order of the code.
FirstIssue(checks) ==
  IF \A i \in DOMAIN checks : checks[i] = "ok" THEN "ok"
  ELSE checks[CHOOSE i \in DOMAIN checks : checks[i] # "ok" /\ \A j \in 1..(i - 1) : checks[j] = "ok"]

Require(condition, issue) == IF condition THEN "ok" ELSE issue

(***************************************************************************)
(* Paths and references.  A path is the sequence of its components below   *)
(* the copy root.                                                          *)
(***************************************************************************)
PathDepth(path) == Len(path)

IsStrictDescendant(candidate, parent) ==
  Len(candidate) > Len(parent) /\ SubSeq(candidate, 1, Len(parent)) = parent

\* parse_single_reference, then the traversal without following links, then the
\* lexical normalisation: a reference that leaves the copy, or that passes through
\* anything but directories of it, is external.
ReferenceKinds == {"inside", "malformed", "outside", "through_link"}
ParseSingleReference(reference) == Require(reference # "malformed", "UnsafeRepositoryMetadata")
ValidateReferenceTraversal(reference) == Require(reference # "through_link", "ExternalRepositoryMetadata")
NormalizeInternalReference(reference) == Require(reference # "outside", "ExternalRepositoryMetadata")

ResolveInternalReference(reference) ==
  FirstIssue(<<ParseSingleReference(reference), ValidateReferenceTraversal(reference),
               NormalizeInternalReference(reference)>>)

\* read_root_file and read_open_file: a regular file within the text limit, the
\* same before and after it was read; only a missing optional file is no issue.
ReadRootFile(file, required) ==
  Require(file # "unreadable" /\ (required => file # "none"), "UnsafeRepositoryMetadata")

ReadAbsoluteFile(file, required) ==
  Require(file # "unreadable" /\ (required => file # "none"), "EnvironmentUnsupported")

(***************************************************************************)
(* Configuration entries, by key and value class.                          *)
(***************************************************************************)
\* Keys of core, extensions, index and status that the inspection does not know.
UnknownKeys == {"core.unknown", "extensions.unknown", "index.unknown", "status.unknown"}

\* Entries that make Git look elsewhere, run something or not look at a file.
RefusedEntries ==
  {"include.path", "core.hookspath", "core.fsmonitor=true", "core.sparsecheckout=true",
   "remote.promisor=true", "core.bare=true"} \cup UnknownKeys

\* "garbled" stands for output outside the grammar of `git config --list -z`.
ParseConfigOutput(entries) == Require("garbled" \notin entries, "InvalidGitOutput")

\* filter_driver: a filter entry without a driver name or of another field.
FilterDriver(entries) == Require("filter.bad" \notin entries, "UnsupportedConfiguration")

FilterDrivers(entries) == IF "filter.d.clean" \in entries THEN {"d"} ELSE {}

ValidateConfigEntries(entries) ==
  FirstIssue(<<FilterDriver(entries), Require(entries \cap RefusedEntries = {}, "UnsupportedConfiguration")>>)

EffectiveConfigBool(entries) ==
  IF "extensions.worktreeconfig=garbled" \in entries THEN "UnsupportedConfiguration" ELSE "ok"

WorktreeConfigEnabled(entries) == "extensions.worktreeconfig=true" \in entries

ValidateAttributes(attributes) == Require(attributes # "filter", "UnsafeAttributes")

(***************************************************************************)
(* preflight_sources: the environment and the sources outside the copy.    *)
(***************************************************************************)
\* `config` holds the entries of the files that preflight_sources finds, `late` those
\* of files that appear where it found none: they are in no evidence.
GoodSources ==
  [environment |-> "supported", selected |-> "none", exec |-> "trusted", etc |-> "directory",
   config |-> {"core.autocrlf"}, late |-> {}, attributes |-> "none", userAttributes |-> "none"]

SourceFlaws ==
  {<<"environment", "redirects">>, <<"environment", "relative_home">>, <<"selected", "relative">>,
   <<"selected", "null_not_a_device">>, <<"exec", "unknown_layout">>, <<"etc", "link_not_of_root">>}

\* The inherited variables that redirect Git, and the directories and files the
\* others select (validate_environment_directory, validate_selected_source).
ValidateEnvironment(g) ==
  Require(g.environment = "supported" /\ g.selected \notin {"relative", "null_not_a_device"}, "EnvironmentUnsupported")

ParseRuntimePrefix(g) == Require(g.exec = "trusted", "InvalidExecPath")
ResolveSystemPath(g) == Require(g.etc # "link_not_of_root", "EnvironmentUnsupported")

SourcesVerdict(g) ==
  FirstIssue(<<ValidateEnvironment(g), ParseRuntimePrefix(g), ResolveSystemPath(g),
               ParseConfigOutput(g.config), ReadAbsoluteFile(g.attributes, FALSE),
               ValidateAttributes(g.attributes), ValidateConfigEntries(g.config)>>)

\* resolve_attributes_source: the configured file must be absolute or under the
\* home directory, and must exist; the default one may be missing.
ValidateEffectiveUserAttributes(entries, g) ==
  FirstIssue(<<Require("core.attributesfile" \in entries => g.userAttributes # "elsewhere", "UnsafeAttributes"),
               ReadAbsoluteFile(g.userAttributes, "core.attributesfile" \in entries),
               ValidateAttributes(g.userAttributes)>>)

(***************************************************************************)
(* preflight_repository.                                                   *)
(***************************************************************************)
GoodRepository ==
  [marker |-> "directory", gitdir |-> "inside", commondir |-> "none", metadata |-> "plain", links |-> "none",
   head |-> "object", config |-> {"core.autocrlf"}, worktreeConfig |-> {}, coreWorktree |-> "none",
   back |-> "none", modules |-> "none", attributes |-> "none", info |-> "none", index |-> "plain"]

\* A submodule and a linked worktree: the marker is a file.
Submodule == [GoodRepository EXCEPT !.marker = "file", !.coreWorktree = "same"]
LinkedWorktree == [GoodRepository EXCEPT !.marker = "file", !.commondir = "inside", !.back = "marker"]

\* One thing that is wrong (or unusual) about a repository.
RepositoryFlaws ==
  {<<"gitdir", r>> : r \in ReferenceKinds} \cup {<<"commondir", r>> : r \in ReferenceKinds}
  \cup {<<"metadata", x>> : x \in {"link", "special", "too_deep"}}
  \cup {<<"links", x>> : x \in {"alternates", "sparse"}}
  \cup {<<"head", x>> : x \in {"none", "unreadable", "symbolic", "outside_refs", "endless"}}
  \cup {<<"config", {x}>> : x \in {"include.path", "core.sparsecheckout=true", "garbled", "filter.bad", "filter.d.clean",
                                    "extensions.worktreeconfig=garbled", "core.attributesfile"}}
  \cup {<<"worktreeConfig", {"core.sparsecheckout=true"}>>}
  \cup {<<"coreWorktree", "other">>, <<"back", "elsewhere">>, <<"back", "replaced">>, <<"coreWorktree", "none">>}
  \cup {<<"modules", x>> : x \in {"plain", "filter", "absolute_path"}}
  \cup {<<"attributes", "filter">>, <<"info", "filter">>, <<"index", "hidden">>}

\* `.git` is a directory, or a file whose reference stays inside the copy.
GitDirVerdict(f) ==
  FirstIssue(<<Require(f.marker \in {"directory", "file"}, "UnsafeRepositoryMetadata"),
               IF f.marker = "file" THEN ResolveInternalReference(f.gitdir) ELSE "ok",
               IF f.commondir = "none" THEN "ok" ELSE ResolveInternalReference(f.commondir)>>)

\* scan_metadata_nofollow: no link, nothing but directories and regular files,
\* small texts, a bounded depth.
ScanMetadataNofollow(f) ==
  CASE f.metadata = "link" -> "ExternalRepositoryMetadata"
    [] f.metadata = "special" -> "UnsafeRepositoryMetadata"
    [] f.metadata = "too_deep" -> "DepthLimitReached"
    [] OTHER -> "ok"

RejectMetadataLinks(f) ==
  CASE f.links = "alternates" -> "UnsupportedConfiguration"
    [] f.links = "sparse" -> "SparseCheckout"
    [] OTHER -> "ok"

\* collect_reference_evidence: HEAD must exist; a chain of symbolic references
\* stays under refs/ and is bounded.
CollectReferenceEvidence(f) ==
  CASE f.head \in {"none", "unreadable"} -> ReadRootFile(f.head, TRUE)
    [] f.head = "outside_refs" -> "UnsafeRepositoryMetadata"
    [] f.head = "endless" -> "DepthLimitReached"
    [] OTHER -> "ok"

\* All entries in force: the sources outside, the common config and, when the
\* common config says so, config.worktree.
Entries(f, g) ==
  g.config \cup f.config \cup (IF WorktreeConfigEnabled(f.config) THEN f.worktreeConfig ELSE {})

ConfigVerdict(f, g) ==
  FirstIssue(<<ParseConfigOutput(f.config), EffectiveConfigBool(f.config),
               ValidateConfigEntries(Entries(f, g)),
               ValidateEffectiveUserAttributes(Entries(f, g), g)>>)

\* core.worktree and the back reference of a linked worktree name this worktree.
WorktreeVerdict(f) ==
  FirstIssue(<<Require(f.coreWorktree # "other", "ExternalRepositoryMetadata"),
               Require(f.marker = "file" => f.back # "elsewhere", "ExternalRepositoryMetadata"),
               Require(f.marker = "file" => f.back # "replaced", "EvidenceChanged"),
               Require(f.marker = "directory" \/ f.coreWorktree = "same" \/ f.back = "marker",
                       "UnsafeRepositoryMetadata")>>)

\* validate_gitmodules_config_entries and validate_gitmodules.
GitmodulesVerdict(f) ==
  FirstIssue(<<Require(f.modules # "filter", "UnsupportedConfiguration"),
               Require(f.modules # "absolute_path", "ExternalRepositoryMetadata")>>)

\* The attribute files of the worktree that belong to this repository, then
\* info/attributes.
RepositoryAttributes(f) == FirstIssue(<<ValidateAttributes(f.attributes), ValidateAttributes(f.info)>>)

RepositoryVerdict(f, g) ==
  FirstIssue(<<GitDirVerdict(f), ScanMetadataNofollow(f), RejectMetadataLinks(f), CollectReferenceEvidence(f),
               ConfigVerdict(f, g), WorktreeVerdict(f), GitmodulesVerdict(f), RepositoryAttributes(f)>>)

\* validate_index_flags_output: assume-unchanged or skip-worktree on any entry.
IndexFlagsVerdict(f) == Require(f.index # "hidden", "HiddenIndexFlags")

(***************************************************************************)
(* Status output.  A record is its tag, its XY and submodule fields, whether*)
(* modes and objects agree, whether every field is well formed, its path.  *)
(***************************************************************************)
Record(tag, xy, sub, same, path) == [tag |-> tag, xy |-> xy, sub |-> sub, same |-> same, valid |-> TRUE, path |-> path]

\* What Git prints for each state of the tracked content.
Contents == {"clean", "modified", "renamed", "unmerged", "twice", "submodule_untracked", "submodule_moved"}
Porcelain(content) ==
  CASE content = "clean" -> <<Record("#", "", "", TRUE, 0)>>
    [] content = "modified" -> <<Record("1", ".M", "N...", TRUE, 1)>>
    [] content = "renamed" -> <<Record("2", "R.", "N...", TRUE, 1)>>
    [] content = "unmerged" -> <<Record("u", "UU", "N...", FALSE, 1)>>
    [] content = "twice" -> <<Record("1", ".M", "N...", TRUE, 1), Record("1", "M.", "N...", FALSE, 1)>>
    [] content = "submodule_untracked" -> <<Record("1", ".M", "S..U", TRUE, 1)>>
    [] content = "submodule_moved" -> <<Record("1", ".M", "SC..", TRUE, 1)>>

\* A submodule with nothing but untracked files is no tracked change.
TrackedChange(content) == content \notin {"clean", "submodule_untracked"}

\* parse_ordinary: a submodule whose only change is untracked files is skipped.
OnlyUntrackedSubmodule(r) == r.tag = "1" /\ r.xy = ".M" /\ r.sub = "S..U" /\ r.same

RecordPaths(r) == IF r.tag \in {"1", "2", "u"} /\ ~OnlyUntrackedSubmodule(r) THEN {r.path} ELSE {}

\* The fields' grammar, and the tags that are known.
RecordIsValid(r) ==
  /\ r.valid /\ r.tag \in {"1", "2", "u", "?", "!", "#"}
  /\ r.tag = "1" => r.xy # ".." /\ r.xy \notin {"R.", "C."}
  /\ r.tag = "u" => r.xy \in {"DD", "AU", "UD", "UA", "DU", "AA", "UU"}

\* parse_tracked_change_count: distinct paths, or nothing at all.
OutputParses(output) == \A i \in DOMAIN output : RecordIsValid(output[i])
ParseTrackedChangeCount(output) == Cardinality(UNION {RecordPaths(output[i]) : i \in DOMAIN output})

FromTrackedChangeCount(count) == IF count = 0 THEN "Clean" ELSE "Dirty"

\* aggregate_git_state, under the whole-scan issues of GitInspection::new.
AggregateGitState(complete, states) ==
  CASE ~complete \/ "Unknown" \in states -> "Unknown"
    [] OTHER -> IF "Dirty" \in states THEN "Dirty" ELSE IF states = {} THEN "NotApplicable" ELSE "Clean"

=============================================================================
