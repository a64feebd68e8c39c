# ThinWorkspace: TLA+ models, checks and proofs

ThinWorkspace (`thinws`) is a command line tool that makes private copies of a
source tree (*Workspaces*), by Btrfs reflink on Linux or APFS clone on macOS, keeps
a record of each in an SQLite database, and removes them again without ever taking
a directory that is not provably its own. There is no daemon: every command is an
invocation of its own, killed at any moment, beside users who work on the same
directories and do not take the tool's locks. What has to be right is what survives
between the steps of such invocations, and that is what this project models.

## Inventory

Paths are relative to `src/crates/`.

| Component | State it keeps | Operations | Correct when |
|---|---|---|---|
| Domain rules (`thinws-core/src/workspace.rs`, `removal.rs`) | none | `WorkspaceState::transition`, `decide_removal` | the schema's triggers agree with it |
| Metadata store (`thinws-metadata-sqlite`) | tables `workspaces`, `materialization_receipts`, `deletion_tombstones` | `reserve_workspace`, `complete_materialization`, `record_failure`, `begin_removal`, `complete_deletion` | receipts belong to completed copies, tombstones are final, names and targets are exclusive, an incomplete record never becomes Ready |
| Create use case (`thinws-application/src/create.rs`) | none of its own | `preview_create`, `create_impl`, `create_reserved` | Ready means a whole, owned copy, after any crash; nothing is written outside what this create made |
| Remove use case (`thinws-application/src/remove.rs`) | none of its own | `remove` | the intent is logged first, the tombstone comes last, the wrong Workspace is never selected, a forced removal can always be resumed |
| Linux workspace adapter (`thinws-adapter-linux/src/workspace.rs`, `destroy.rs`) | target, staging, trash and isolation directories; the ownership document of each ID | `prepare_workspace`, `clear_workspace_incomplete`, `validate_ready_workspace`, `inspect_removal_container`, `remove_workspace` | foreign data survives; a tombstone means erased |
| Lifecycle lock (`lock.rs`) | `lifecycle.lock` | `acquire_bootstrap`, `acquire_data_root`, drop | invocations do not overlap and nobody waits for ever |
| Removal log (`operation_log.rs`) | an append-only file | `append_removal_record` | it never claims more than the store knows, nor less than was destroyed |
| Linux and macOS materializers (`materializer.rs`, `tree.rs`) | entries of the target, staging and trash while they run | `materialize` with rollback | success means equal manifests; rollback restores or reports |
| Materialization plans (`thinws-core/src/materialization.rs`) | none | plan selection, fallback | a full copy only where it was allowed, and only where the clone was |
| Bootstrap and doctor (`thinws-application/src/lib.rs`, `layout.rs`, `control.rs`, `publication.rs`, macOS `store.rs`) | control root, lock file, marker, config, directories, database | `init`, `doctor` | the config is the commit point; what a killed `init` left is refused |
| Queries (`query.rs`, `space.rs`) | none | `list`, `path`, `status` without a lock | a path that is shown was Ready at every look |
| Platform probes (`probe.rs`, `mountinfo.rs`, `ffi.rs`), process probe (`process.rs`) | none | `inspect_path`, `inspect_materialization_paths`, `/proc` | a fact that cannot be known is Unknown |
| Git inspection (`thinws-adapter-git-cli`) | one subprocess and its pipes, the evidence read so far | `collect_command`, `inspect` | a verdict is never more optimistic than the evidence |
| macOS adapter (`thinws-adapter-macos`) | as Linux | as Linux | as Linux |
| Command line (`thinws-cli`) | none | parse, run, render | the exit code and the text say what happened |

**How they interact.** An invocation reads the clock, waits for the lifecycle lock,
opens the store, reads rows, and then alternates between the store, the ownership
documents, the directories of the target's parent and the log. Each of these is
durable by itself and none of them commits together with another. `create` probes the
paths three times (for the reservation, after the preparation, and again in the
materializer), each probe being a number of reads. `init` builds the control root in
eight durable steps; `doctor`, `list`, `path` and `status` take no lock and read beside
all of this. `remove` and `status` run Git as a subprocess, which reads a tree others
work in. Calls are synchronous; the only other actors are further invocations (held off
by the lock), Git subprocesses and their descendants, and users (held off by nothing).

**What is hard.** A kill between any two durable steps; a failing call, also inside a
failure handler; a clock reading that is older than the lock wait; names that are
acted on after the identity behind them was checked; probes and evidence that are old
when they are used; two files (log and store) whose order of writing is the only link
between them; a lifecycle written twice, in Rust and in SQL; two materializers and two
bootstraps written twice, for two systems; selection by a word that may be a name or an
ID; a subprocess that outlives its deadline; walks that stop at a limit. `PROJECT.json`
lists each at its line.

## Modules

| Module | Models |
|---|---|
| `WorkspaceDomain` | `Transition` and `DecideRemoval`, the pure rules |
| `MetadataStore` | the three tables and the five writing methods, each with the Rust checks and the triggers that guard it; any caller, any argument |
| `StoreCallers` | callers beside each other that read a row and make one call with the state they read |
| `WorkspaceRegistry` | the abstract promise for one ID: its life and its data (`none`, `some`, `whole`, `lost`) |
| `WorkspaceLifecycle` | invocations of `create` and `remove` over `MetadataStore`, directories, ownership documents, log and lock, with kills, failing calls and users |
| `CommandOutput` | what is printed and which exit status is returned, as operators on the end of an invocation |
| `WorkspaceQueries` | a reader (`list`, `path`, `status`) beside the invocations of `WorkspaceLifecycle` |
| `Materializer` | a Linux `materialize` call and the copy that may follow it, entry by entry, with rollback and quarantine |
| `MacMaterializer` | the macOS materializers where they differ, and the choice of the platform |
| `PathProbe` | the directory tree with links, mounts, volumes and access, and what each platform's probe reports of it |
| `MaterializationPlan` | reports to plan, plan to fallback |
| `CreatePlanning` | a preview and a create from the request to the directories the materializer binds, while users move and mount |
| `ControlRoot` | the control root's entries and the validating operators of both adapters |
| `Bootstrap` | `init` and `doctor` as system calls on `ControlRoot` |
| `GitQuery` | the polling runner of one Git subprocess |
| `GitMetadata` | the checks of one repository's metadata, configuration, references and attributes |
| `GitInspect` | the inspection of all repositories of a copy: walk, preflight, index flags, status, aggregate |
| `MetadataStoreProofs`, `WorkspaceLifecycleProofs`, `MaterializerProofs` | the theorems on the store, on the lifecycle with its data and recovery, and on the materializers |
| `GitQueryProofs`, `GitInspectProofs` | the theorems on the Git runner and on the inspection of a copy's repositories |
| `WorkspaceQueryProofs` | the theorems on what queries and commands print; EXTENDS `WorkspaceLifecycleProofs`, which EXTENDS `MetadataStoreProofs` |
| `CreatePlanningProofs` | the theorems on previews, probes, plans and bindings |
| `BootstrapProofs` | the theorems on the installation and on what `init` and `doctor` answer |
| `MC*` | requests, trees, symmetry for TLC |

`WorkspaceQueries` EXTENDS `CommandOutput`, which EXTENDS `WorkspaceLifecycle`, which
EXTENDS `MetadataStore`, which EXTENDS `WorkspaceDomain`: the use cases call the store's
own actions, and the reader reads their state, so the parts cannot drift apart.
`WorkspaceLifecycle` INSTANCEs `WorkspaceRegistry` with its refinement mapping.
`CreatePlanning` EXTENDS `MaterializationPlan` EXTENDS `PathProbe`; `Bootstrap` EXTENDS
`ControlRoot`; `GitInspect` EXTENDS `GitMetadata`; `MacMaterializer` EXTENDS `Materializer`.

### Correspondence with the code

*Store.* `workspaces[id]` is the row or `NoRow`, `receipts[id]` the kind of the final
receipt or `"none"`, `tombstones` the set of tombstoned IDs. Each method has an
outcome operator (`ReserveOutcome`, `CompleteOutcome`, `FailureOutcome`,
`RemovalOutcome`, `DeletionOutcome`) that follows the method's early returns and then
the triggers; the action named after the method applies when the outcome is `"ok"`.
A statement the schema rejects rolls back its transaction, so it changes nothing.
Timestamps are clock readings and may repeat or go back. `view[c]` in `StoreCallers` is
what a caller has read of a row (`Look`) until it makes the one call that rests on it
(`Call`); any other call may come in between. The use cases hold the lifecycle lock from
the reading to the call, so that a row does not change under them, but the port promises
to act "only if the expected state is still current" without asking for the lock, and that
is what `StaleCallsChangeNothing` is about. It compares states, as the code does: a row that
has left the state and come back counts as current.

*Lifecycle.* `pc[p]` is the next durable step of invocation `p`; `job[p]` is what it has
read so far, so a value that is stale in the code is stale in the model. Steps that
check and then act on a name are two actions wherever the code makes two calls
(`rm_verify` then `rm_rmdir`; `isolate` then `rename` then `moved`; `clear` then
`rmdir_staging`). `Evidence(p)` states what each step requires to find; if it is not
so, `CheckFails` takes the `?` of that step, and `Handler` says where that leads:
`record_failure` in create, `rm_failed` and then `log_failed` in remove, or straight
out. `Fault` lets any call under the lock fail.

*Directories.* `dir` maps the names the tool uses to identities. The code identifies a
directory by device, inode and birth time, so identities are not reused, and those made
for an ID are the constants `<<"target", id>>`, `<<"staging", id>>` and
`<<"trash", id>>`. `alive` holds the directories that exist although a user may have
moved them away. `content` abstracts what is in a directory: nothing, a part of a
copy or of an operation, the whole verified copy, or data of somebody else.
`own[id]` is the ownership document: absent, published, or with the isolation path
recorded.

*Removal log.* `log` is the set of records that can be read, `torn` says that the file
ends in the middle of a line. `CutAppend` is the append of an invocation that is killed
or whose write, sync or check fails: the record is not there, torn, or there. The next
`Append` starts with a newline if the file does not end with one, so a torn line costs
no record but its own.

*Users.* `User` makes, deletes, moves away, moves back and fills directories under
any name the tool uses, and lets processes enter and leave. It needs no lock.

*Queries.* `ask` is the one reader: where it is, the record it read (`row`) and the one
it read before (`prior`), and `seen`, what each look at a directory met. Every snapshot,
validation and scan is a step; the space scan goes through a descriptor and so follows
the directory wherever it is moved. A reader that has printed exits before the next
step of anybody else, so that a property of what it printed is about the moment of
printing. `--json` is chosen when something is printed, as it changes nothing before.

*Materializers.* `at[o]` is the place (directory and name) of every object the call makes
and of every user file; an object stands for its inode, so the identity checks of the
code are comparisons of objects and a rename moves whatever has the name. `data[o]` is
the version of the source entry the object holds. `created` and `left` are
`context.created.len()` and `active_count`: the entries are visited in a fixed order, so
a count says which they are. `staged` is `active_staging` without, or with, its identity;
`anonymous` is the entry macOS has made in the target without having learned its identity.
A look at the whole tree (a snapshot, `rollback_set_matches`) is one step, everything
else that others can observe is a step of its own. Names in the source are fixed, and
their versions change; users keep out of staging, which is private to the call, and do
not use the names the tool generates. `platform` chooses the actions; the shared ones
are those whose code is the same in both adapters.

*Probes, plans and create.* A `world` is a set of links from (directory, name) to
directory identities, with the volume of each directory and the answers of the kernel
that a mount or a remount can change. A path is the sequence of its names below `/`. A
probe is two steps, the source and then the other paths, as the code orders them; the
plan freezes the four reports. `moved` is a history variable: since the start of which
stage the world has changed. On Linux a second mount of a directory is told apart by its
mount, on macOS it is not.

*Control root.* `node` maps the fixed names to an entry: kind, inode, private or unsafe
mode, and a decoded document (a tag and the instance it names); `tmp[p]` is the temporary
entry process `p` staged. `mem[p]` holds the descriptors (inode numbers) a process keeps
open, the flock, and whether its `PrivateTemp` is armed. `Return` drops the guards as
Rust does: the flock always, the staged entry when it is still active. `First` is a
function body of `?`s: the first check that fails decides the error, `MapPort` turns it
into the code.

*Git runner.* Time is a count of ticks, one per sleep. `inPipe`, `written` and `output`
count chunks; `writers` says whether anybody still holds the write end, so a descendant
that outlives the child keeps it. A kill that is delivered need not end the child at once.

*Git inspection.* A directory has a `.git` entry, the facts of its metadata (what
`GitMetadata` judges) and tracked content; `version` counts the identities of its files,
so that evidence is a copy of the counters and a revalidation a comparison. Evidence is kept
only of files that were there: `EditSources` changes a configuration file outside that the
preflight has read, and its counter; `ConfigAppears` and `AttributesAppear` add a file where
`preflight_sources` found none (`inspect.rs:590-608`), which is in no evidence, so
`revalidate_file_evidence` (`inspect.rs:1614-1626`) passes and Git reads it. One status
query is begin, output and end, with the revalidations in their order. `truth` remembers
the content at the moment of the accepted query, or that the query ran under a
configuration nobody has looked at (`Unrecorded`).

*Abstractions.* Mount and volume checks of a directory are part of its identity in
`WorkspaceLifecycle`, whose materializer is a start, a success, a failure with complete or
incomplete rollback, and an unavailable clone; its entries are the matter of
`Materializer`, and the probes around it of `CreatePlanning`. The checks that Git, the
process scan and the state make are taken at one moment of the preflight, since nothing
durable happens between them. Messages, formats and the numbers of the space measurement
are left out.

## Runs

| Run | Instance | Shows |
|---|---|---|
| `metadata_store` | 2 IDs, 2 names, 2 targets, 2 volumes, clock 0..1, one caller between reading and call beside any other calls; 13,601 states | arbitrary and wrong calls leave the tables consistent, and stale ones change nothing |
| `lifecycle_recovery` | 3 invocations, 2 IDs, 1 name and target, clock 0..1, 1 failing call, 2 kills; 225,124 states | log, store and directories stay explainable, a forced removal picks up the rest, and "no files were removed" is true when it is printed |
| `lifecycle_interference` | 2 invocations, 1 ID, 3 user actions, 1 kill, 1 user directory; 529,149 states | Ready is intact, a tombstone means erased, foreign data survives, the registry's promise holds |
| `lifecycle_selection` | 3 invocations and a reader, 2 IDs, 2 names, 2 targets, removal by ID and by a word that is both; 402,104 states | ambiguity selects nothing, what the reader prints was true of a Ready Workspace |
| `lifecycle_liveness` | 2 invocations, 1 failing call, 1 kill, no symmetry; about 7,000 states | invocations end, removals complete |
| `materializer` | Linux and macOS; a directory with a file in it and a link, 1 user file, 3 of failing calls, user actions and source changes | success is exact, failure is reported in full, one failure rolls back completely, no user file is lost or hidden in trash |
| `bootstrap` | Linux and macOS; 2 inits and a doctor, 2 of kills, failing calls and user actions (1 at most); 258,216 states | the config is the commit point, an answer is about a complete installation, a killed init's rest is never adopted, every call returns |
| `git_query` | limit 2 of 3 chunks, 2 ticks for the run and for the cleanup, 2 reads per drain; 210,332 states | success is the whole output, an exit is never guessed, every query ends |
| `git_inspection` | 3 nested directories, every repository layout with at most one flaw, ample and tight limits, 2 of edits, failures and expiries; 2,645,771 states | a reported state was true unless a configuration file appeared unnoticed, a parent never outranks its child, nothing is overlooked |
| `create_planning` | every request against every alias on both platforms, 2 changes of the world; about 1.9 million states | writes go only to what this create made, a fallback stays put, a preview is kept |
| `lifecycle_occupancy` | 2 invocations, no user, no kill, no failing call | **violated**: see the findings |
| `materializer_handoff` | no trouble at all | **violated**: see the findings |

**Why the bounds are enough.** An invocation that matters meets at most one
predecessor on the same ID (the store admits one row per name and target), so two
invocations reach every pair and the third is needed only for a resumed
removal after two kills and for an ID that is deleted while its successor exists. Two
IDs are needed for reuse of a name and a target. Two clock readings are enough for
one to be older than the other. Three user actions are enough to move the
registered directory away, put another one in its place and fill it, between any two
steps. For the materializer, three troubles are what it takes to have a user's file
detached by mistake and its way back barred; a directory with a file in it is the
smallest tree in which the order of the rollback matters, and the link comes after a
directory is left. In `bootstrap` two inits are a winner and a loser of the lock, and a
kill and a failing call are a first init that leaves something and a second one that
meets it. One interference of the user is the bound there, and it matters: a user who
replaces the lock file lets two inits build at once, and if he takes away the marker of
one of them as well, its `publish_ready` may exchange the marker that the other, killed,
has left. `NeverTakesOver` is therefore a claim about a lock file that is left alone; under
that condition it holds for any number of interferences (`KilledInitIsSpared`). In `git_query` a limit below what
Git can write, and more chunks than one drain reads, make all three of cut, partly
drained and fully drained output happen. In `git_inspection` three nested directories
are the least with a middle one. In `create_planning` two changes are enough to alter a
path and to alter it back between two probes. Symmetry is used over invocations, IDs,
user directories, and (where nothing else tells them apart) names, targets and volumes;
never in a run that checks liveness.

`CHECK_DEADLOCK FALSE` is set in the store and lifecycle runs because the system stops:
once all invocations of an instance have returned there is nothing left to do. The other
specifications have an explicit step for that (`Done`, `Stop`, `Finished`), so their runs do
check for deadlock.

**Fairness.** `Spec` of `WorkspaceLifecycle` and of `Bootstrap` assume weak fairness of
`Step(p)` for every invocation: the operating system keeps running a process that can
take a step. Nothing is assumed of `Start`, `Fault`, `Crash`, `Kill`, `Tamper` and `User`.
Waiting for the lock needs no stronger fairness, since the acquisition polls and gives up
after its timeout: a waiting invocation can always either take the lock or time out.
`GitQuery` assumes weak fairness of `Parent` and nothing of Git, which may hang, ignore
the kill or leave a descendant with the pipes. The runner's own clock advances with its
sleeps.

**Mutants.** Every property has a mutant: the definition `X_Name` (or `X_Mutant`) stands
before the definition `X` it replaces and differs from it as a plausible slip of the code
would (a dropped trigger condition, a log record too late, a check before the rename left
out, the deadline not looked at). With it, the run finds the property violated.

### Findings

*Occupancy is checked once.* The design
(`src/docs/project/design/ThinWorkspace_Phase1单机CLI详细设计_v1.0.md:148`) asks that before
every destructive step the scope, the identity, the volume *and the applicable occupancy
protection* be re-verified (每个破坏性步骤前重验范围、历史目录身份、卷和适用的占用保护). In the
code the process scan runs once, in the preflight
(`thinws-application/src/remove.rs:336`); `verify_selected_target`, which runs before each
later step, checks the rest of that list but no occupancy. `lifecycle_occupancy` shows a
removal that moves the target to its removal name and then erases it with no scan in
between. That a process may enter between a check and the step it protects is disclaimed:
the design (`:177`) does not keep programs from entering after the check
(平台不停止用户工具，不阻止其他程序在检查后进入目录), and the manual
(`src/docs/project/reference/ThinWorkspace_Phase1用户操作手册_v1.0.md:248`) names the race between
scan and cleaning (扫描与清理之间仍存在竞态，不承诺安全 Sandbox). The property allows this race and
asks only that each destructive step has a scan of its own. A reader who takes *applicable*
(适用的) to mean the scan of the preflight alone will see no divergence.

*On macOS, a copy after a clone ends in Error.* A clone that fails with `ENOTSUP` after it
has published at least one entry is rolled back into trash; the copy that follows with
`--allow-copy` neither looks at trash nor clears it, and `clear_workspace_incomplete`
(`thinws-adapter-macos/src/store.rs:589`) then finds it not empty. The whole copy is
recorded as Error. Linux clears the confirmed quarantine at this point
(`thinws-adapter-linux/src/materializer.rs:503`). The test of the fallback
(`thinws-application/tests/create.rs:459`) expects Ready; its clone fails before anything is
published. `materializer_handoff` shows it without any interference.

### Observations

Differences met while modelling, which the models contain and no run calls wrong:

- The identity of an active Workspace (`require_no_active_workspace_path_overlap` on
  resolved directories) is compared before `prepare_workspace` and not after it, so
  `WritesOnlyToItsOwn` states that part only for a world that stood still since the
  preliminary probe began.
- The manual (`src/docs/project/reference/ThinWorkspace_Phase1用户操作手册_v1.0.md:132`, `:309`)
  describes a fallback chosen at the preliminary check. It cannot be
  reached through `create`: the preliminary report always says that staging and trash are
  not yet there, and on Linux the capability of Btrfs is always Unknown before an attempt.
- A preview accepts write access that is Unknown; `prepare_workspace` on Linux then refuses it.
- On macOS a firmlink or alias to a *subdirectory* of a protected root is not noticed.
- Losing the race to make the control root is tolerated on Linux and reported as a file
  system error on macOS.
- `clear_workspace_incomplete` checks staging and trash and then removes both on Linux; on
  macOS it checks and removes staging, then trash.
- On macOS `publish_config` withdraws the config it cannot verify; a `doctor` may have
  answered from it by then (the exception in `AnswerMeansComplete`).

- The evidence of a Git inspection holds no file that was absent when it was looked for. A
  configuration or attributes file that appears outside the copy during an inspection is not
  noticed, whatever the revalidations find: `ReportedStateWasTrue` excepts a query that ran
  under such a configuration, and without the exception `git_inspection` fails.

## Theorems

*`MetadataStoreProofs`* proves, for all sets of IDs, names, paths, volumes, codes and
natural timestamps, that `StoreSpec` keeps `StoreInv`, the conjunction of the type
invariant and `TombstonedIsGone`, `ReceiptTracksReady`, `CopyOnlyWhenAllowed`,
`ReservationsAreExclusive` and `RowsAreExplainable`. The conjunction is inductive where
its parts are not: a tombstoned ID stays without a receipt only because a receipt needs
a Creating row and the insert guard refuses the ID a row, and a receipt says that the
copy was allowed only as long as it belongs to the row it was written for. The action
properties `IncompleteNeverReady`, `ReleasedOnlyByTombstone` and `TombstonesAreFinal`
follow. `SchemaAgreesWithDomain` shows that the edges of the trigger
`workspaces_state_transition` are exactly the state changes of
`WorkspaceState::transition`.

*`WorkspaceLifecycleProofs`* proves, for any number of invocations, IDs, names, user
directories, kills, failing calls and user actions, that `Spec` keeps

    LifecycleInv == TypeOK /\ StoreInv /\ (\A p : InvocationOK(p)) /\ LockHeld
                      /\ RowsHeld /\ StartedBeforeDestruction /\ CompletedMeansGone

`InvocationOK` says what an invocation has read at each label (its request, its ID, a
Started event of its own once it has begun to remove); `LockHeld` that whoever is
between acquiring and returning holds the lock; `RowsHeld` that the row it works on is
still there. They are what turns a safety claim about the log into an inductive one:
Started is in the log when the row becomes Deleting because the invocation that marks
it is past `log_started`, and `complete_deletion` finds its row because no other
invocation can have had the lock in between. From it follow
`LifecycleTypeCorrect`, `InvocationsAreSerialized`, `IntentIsLogged`,
and `CompletionIsTrue`. The use cases are written with the store's own actions, so the store's
theorems hold of the whole system once the arguments are seen to have their types (lemma
`LifecycleImplementsStore`; `LifecycleKeepsTombstones` is a corollary).

Its second part, on data, proves what every document and every directory may be, for the
same ranges. Its inductive invariant beside `LifecycleInv` is

    DataInv == (\A p : InvocationData(p)) /\ (\A id : IdData(id)) /\ NamesOK

`InvocationData` says what an invocation has achieved at each label: from `materialize`
to `complete` the ownership is published, from `clear` on the target that is registered is
the whole copy if it still exists, and between the last erase and the tombstone nothing of
the copy is left in it. `IdData` says what holds of an ID when nobody works on it: an ID
that was never reserved has no document and no directory, a Ready one is published and
intact, a deleted one erased. `NamesOK` says that a directory has one name; without it
`rmdir` of one Workspace could empty another. None of the three is inductive alone: Ready
is intact because `complete` comes after the copy was checked, and nobody but a removal
that has made the row Deleting touches the registered directory after that. It speaks of
directories by identity, not by name, so users may rename, replace and fill what they
like at any moment. `ReadyStandsForCopy`, `TombstoneNeedsErasure` and `ForeignDataIsSpared`
(an action property) follow. A tombstone stands for a directory that was registered and
moved to its removal name before it was erased, so a record whose create was killed before
it published its document is never released. `AmbiguousWordSelectsNothing` says that what a
removal goes on with is the one Workspace its request denotes (`Denoted`), and nothing if a
word names one and is the ID of another; it has an invariant of its own on what a selection
by word has read. `LifecycleImplementsRegistry` is the refinement: under
`LifecycleInv` and `DataInv` every step of the use cases maps to a step of
`WorkspaceRegistry` or to a stutter.

Its third part speaks of names as well, so it needs users to stay away
(`meddle = 0`), as the properties themselves do:

    UndisturbedInv == meddle = 0 => (\A id : Placed(id)) /\ (\A p : KnowsPlace(p))

`Recoverable` is not inductive: it speaks of the end of an invocation, and where the
target is then depends on the label at which the invocation was killed. `Placed` gives
the three places the document of an ID allows (under its registered name, under the
removal name, or gone after it was erased), `KnowsPlace` the one of them an invocation
may rely on at each label. `KilledWorkspaceIsRecoverable` holds beside any number of kills
and failing calls. `CauseInv` adds what stops a removal (the row did not change between
its reading and `begin_removal`, erased directories are empty until their `rmdir`), from
which `ForcedRemovalIsNotSelfBlocked` follows.

*`WorkspaceQueryProofs`* adds the reader and the documents. No step of a reader
writes anything (lemma `QueriesChangeNothing`), so every invariant above holds beside a query.
What a query has read may be out of date at its next read; the invariant of the reader
says what it is still worth:

    ReaderInv == IsReader /\ ask.at \in ReaderLabels /\ (ask.at # "printed" => Reading)
                   /\ (ask.at = "printed" => AnswerRestsOnReady /\ LayoutErrorMeansRemoval)

`Reading` rests on two facts. `Aged`: a record that was read as Ready is tombstoned, or has
the same reservation in a state after `creating`, and if it is Ready now it is the record
that was read, because nothing leads back to Ready. `Telling`: a look at a directory whose
record is Ready now saw it Ready, at its place and whole. A second read that finds the
same record therefore vouches for every look between the two: `PrintedPathWasReady`. A
validation that fails although the record is Ready and no user interfered would
contradict `ClearedInv` (staging and trash are gone before Ready) or `UndisturbedInv`:
`LayoutErrorIsHonest`. That the name is looked up twice and may then lead to another ID is
settled by `ReservationsAreExclusive`.

`DenialsAreTrue` needs the removal log alone: `Honest` says at which labels an invocation
has not logged `Started`, and that a plain removal gets past them only with a record that
was Ready, so that `E_WORKSPACE_INCOMPLETE`, given for one that was not, comes from a
removal that stopped before them, whichever step failed.

*`GitQueryProofs`* proves, for every limit, deadline, number of reads and everything Git
and its descendants may do, that the runner keeps

    QueryInv == QueryTypeOK /\ Counted /\ WithinLimit /\ ClosedIsDrained
                  /\ KnownExit /\ ResultFits

`Counted` is the heart: while the runner collects, what was written is what is in the
pipe or retained, because only `drain_pipe` takes anything out and a drain that has to
drop something leaves the collecting labels. With `ClosedIsDrained` (a read end is closed
only at end of file, when nobody can write) success has both pipes closed, so
`CollectedOutputIsWhole`; `KnownExit` and `ResultFits` give `ReportedExitIsReal`, and
`OutputIsBounded` is a part.

*`GitInspectProofs`* proves, for every finite tree of directories, every limit and every
number of edits, failed queries and expiries, all the properties that the run
`git_inspection` checks. They are about the end of a pass that reads one thing after the
other while a user goes on working, and need an invariant that follows the pass:

    IInv == TypeOk /\ EvidenceOld /\ Coverage /\ Early /\ Accounted
              /\ Vouched /\ Flags /\ Order /\ Answered
              /\ the three properties

`Coverage` says that whatever the walk has not found is below a directory it has still to
visit (`ThroughSubdirectory` is the step from one level to the next), and `Accounted` that a
candidate which is not reported unknown is still waited for in the stage at hand; the two
give `AggregatesCoverEverything`, for no limit and no failure can take a repository off
both lists. `EvidenceOld` says that evidence is never newer than what it is evidence of, so
that evidence which agrees at the second look has agreed all along: with it `Vouched` and
`Flags` survive every edit of configuration, index and sources (`UserMoves`), and a query
between two looks printed the truth (`StatusIsTrue`, `Answered`): `ReportsAreTrue`. Files that
appear outside where there were none are in no evidence, and the invariant claims nothing of
them: `Vouched` is about what was recorded, and a query under a configuration that appeared
(`Witnessed`) is excepted from `Answered` (`AppearedOutside`). The proof
shows why the repositories below take part in a query: `StatusIsTrue` needs that each of
them was accepted, which `UnsafeDescendant` and `Accounted` give, and that its filter
drivers are among those the query overrides. `Order` says that no repository is asked before
one below it, which is all that keeps a parent from being reported before its child turns
unknown: `ParentsNeverOutrank`. The invariant was first model-checked on the trees of the
run and on a tree with siblings.

*`BootstrapProofs`* proves, for any number of inits, doctors, kills and failing calls on
either platform, that `Spec` keeps

    BootstrapInv == ShapeOK /\ ("lock" \notin touched => LockIsOne)
                      /\ (touched = {} => Untouched)
    Untouched    == LockIsOne /\ (\A p : Progress(p)) /\ Committed

where `touched` is the set of entries the user has interfered with. `LockIsOne` says that
whoever is past the flock holds the one lock file there is; it needs only that file to be
left alone, and with it `OneBuilderAtATime`. It makes every step of a builder safe from
the others (`OthersProgress`), for a process outside the lock changes at most the root and
the lock file. `Progress` says what a builder has at each label, and above all that there
is no config before it has finished; `Committed` is the claim of `ConfigIsCommitPoint`.
The undo of macOS is in: it removes the config it published and no other, so `Committed`
survives it.

On answers the same module builds three invariants on top of it, each kept by any step of
another process that is of a certain class (`Sound`, `Steady`, `Modest`), so that a step
is looked at once and not once for every process beside it:

- `AnswerInv`, while nothing is touched: what a process has read of the installation is
  the installation (`Reports`), and what it answered still is (`Answers`). A doctor on
  macOS may have read a config whose init then withdraws it and reports `Filesystem`; the
  invariant names that one case, and `AnswersAreAboutCompleteInstallations` shows that
  there is no other.
- `PeaceInv`, without user, kill and failing call: every entry an init meets under the lock
  is what the label of the builder says (`BuiltUp`) or a complete installation, so no init
  finds a half of one: `NotEmptyIsNoRace`.
- `OwnerInv`, while the lock file is left alone: the marker an init is about to exchange
  or remove is its own, or names nobody: `KilledInitIsSpared`.

The condition on the lock file is needed: without it two interferences of a user lead to
the behaviour described under the bounds of `bootstrap`.

*`CreatePlanningProofs`* proves, on both platforms and however often users move, mount over
and replace directories or the kernel changes its answers, all the properties that the run
`create_planning` checks. Each has an inductive invariant of its own:

- `FallbackInv`: whatever is bound was bound to the directories the current plan names
  (`Bindings`). A plan binds only what its digest agrees with, and the digest holds the
  ancestry of every path (`DigestTellsAncestry`); the one plan that replaces another is made
  for the same ancestries (`report_paths_match_plan`): `FallbackNeverMoves`. `ControlOK`
  keeps track of which step can follow which.
- `KeptInv`, while the world stands still: every report is what the world is
  (`ReadsTheWorld`), and create is either on its way to a refusal that the preview gave too
  (`NothingMadeYet`) or works in a world that is `Good` for a plan (`MadeAsForeseen`). The
  work is in the lemmas on one world: the checks of the preview, all passed, leave a source
  and a parent that are apart from each other and from the control root, on a volume that can
  be cloned, with the three names free (`Ready`); the directories made in such a parent hide
  and move nothing (`MadeGood`); and the second and third probe then pass every check they
  meet (`GoodPlans`): `PreviewsAreKept`.
- `OwnInv`, whatever users do: `LinksOK` is the shape that every move and mount leaves the
  names in (nothing is below the control root, what is made has one name), kept by
  `DisturbKeepsLinks`. `OwnStage` says what was made and planned at each stage, and that
  the plan puts the source apart from the control root and on the reserved volume
  (`PlanOK`). `OwnReads` says of a world that stood still since the last probe of a
  materializer began that its reports are the world and agree with the plan, `OwnActive` the
  same of the parent and the active Workspace since the preliminary probe. None of these is
  about what is inside what; that comes from the shape (`OwnApart`): nothing leads into the
  control root, and a way from the source to a directory that was made would need a second
  name for it or a parent that is the source. `OnlyItsOwnIsWritten` follows, for worlds that users
  changed arbitrarily often between any two steps before that last probe. `OwnInv` was
  model-checked on the run's bounds before it was proved.

The directories of this model and the paths a request may name are the fixed families of
`PathProbe` and `Requests`; the theorems cover every number of changes to them and not only
the `MaxMoves` of the run.

*`MaterializerProofs`* proves, for every tree, any number of failing calls, user actions and
changes of the source, and both platforms, all the properties that the run `materializer`
checks. Its inductive invariant comes in layers, each resting on the ones before it:

    Base       == TypeInv /\ Progress /\ Undoing /\ Receipted
    PlacesInv  == OneObjectAName /\ StagingIsOurs /\ TrashNames /\ Accounted
    LookHolds, Untouched, CalmEnds, Quiet

`Base` is about control: what is published, staged, detached and reported at each label.
`PlacesInv` is about names, whatever users do. `TrashNames` says that a generated name in
trash leads to what was detached under it, unless it is being confirmed or is reported as
unconfirmed; without it `unlinkat`, which acts on a name, could remove a user's file.
`Accounted` says that every object which exists is standing, staged, detached, unconfirmed
or left by the clone: it is `NothingUnreported` at every label and not only at the end.
Every step either holds all of this or moves one object (`Moves`), so the layer is proved
once per reason to move and not once per action. `StraysAlwaysSurvive`,
`StraysAlwaysReported` and `NothingEverUnreported` follow. `LookHolds` carries the last look
at the target to the end of the call, past the clearing of trash: `SuccessAlwaysExact`.

The other three layers hold where users stay out. `Untouched` gives the place of every
object, hence `ReportAlwaysExact`. With it the target holds exactly what stands
(`StandingMatches`) and the entry that was published last has nothing in it
(`LastIsEmpty`), so the rollback of a failure that comes alone never stops half-way:
`CalmEnds` and `RollbackAlwaysRestores`. `LastIsEmpty` is why the order of the walk matters:
it needs that every entry comes after the directories it is in (`ParentsFirst`), which
`TreeAssumption` only says of neighbours in the walk. `Quiet` adds contents and control
where nothing happens at all: the directory of the next entry is there and its name is
free (`RoomForNext`), every look finds what was published, and what the clone left in trash
is what the copy clears (`TrashIsDetached`): `QuietRunsAlwaysSucceed`. The layers were
first model-checked together on the tree of the run `materializer`.

The assumptions are those the modules state: `NoRow`, `NoProc`, `NoId` and `NoDir` are not
members of the sets they stand beside, times, bounds and limits are natural numbers,
requests are create or remove requests, processes are positive numbers.

`GitInspectAssumption` says that the directories are a finite set that holds the root and,
with a directory, those it is in.

Only proved, not part of a run: `StoreTypeOK`, `TypeOK`, `TombstonedIsGone`,
`RowsAreExplainable`, `ReleasedOnlyByTombstone`, `TombstonesAreFinal`,
`CompletedMeansGone`, `WithinLimit`, `BuildersExclude`, and the invariants `DataInv`,
`UndisturbedInv`, `ClearedInv`, `ReaderInv`, `HonestInv`, `AnswerInv`, `PeaceInv`,
`OwnerInv`, `FallbackInv`, `KeptInv`, `OwnInv`, the layers of `MaterializerProofs` and `IInv`
of `GitInspectProofs`.

Model-checked only: the liveness properties, since fairness and ENABLED are out of the
prover's reach. Every safety invariant and action property of the runs that pass is stated
by a theorem, except `StaleCallsChangeNothing`: `StoreCallers` stands beside the use cases and
none of the theorems about them rests on it. Walks and reference chains are recursive functions over data, about which
nothing can be proved by induction here (the induction theorems of the library take an
operator as a parameter, which no installed prover can instantiate): the walks of
`PathProbe` are unfolded for the paths of one and two names that requests have, and the
ancestors of an entry were within reach because a set of positions in a walk has a least
element (`WFMin`).

## Plan

1. *Done:* the domain, the store, the lifecycle, the registry; the materializers of both
   platforms; probes, plans and `CreatePlanning`; `Bootstrap`; the Git runner and the Git
   inspection; the queries and the command line; the theorems above.
2. The abstract materializer of `WorkspaceLifecycle` as a specification that
   `Materializer` implements.

## Not modelled

- *Removal log:* the JSON encoding of a record.
- *Deletion:* the depth limit `MAX_DELETE_DEPTH`; a tree deeper than that is a deletion
  that fails.
- *Bootstrap:* replacing the control root directory itself while a process works in it
  (a user may make it unsafe), and `doctor`'s count of incomplete Workspaces.
- *Git:* a `.gitattributes` that appears in the work tree after the walk; attribute files
  that appear in `info/` and outside the copy are modelled. Git's own behaviour is external: a status query answers from the tree as it is at that moment, under the
  configuration it finds.
- *Materializers:* copies that users move keep one extra name; source kinds that are
  refused outright; the re-binding of the three directories by path is part of the failing calls.
- *macOS:* mount flags and the enumeration of processes; the FFI layers of both platforms
  and the parsing of `mountinfo` and `/proc` are I/O whose answers are inputs of the models.
- *Value types, receipt encoding and JSON:* pure functions over strings.
- *`experiments/p0`:* the prototypes that preceded the crates; nothing calls them.
