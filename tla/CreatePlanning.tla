--------------------------- MODULE CreatePlanning ---------------------------
(***************************************************************************)
(* One preview and one create of a new Workspace, from the request to the   *)
(* directories the materializer binds (create.rs, prepare_workspace, and    *)
(* the entry of materialize), while users move directories, mount over them *)
(* and change what the kernel answers.  Every probe reads the source first  *)
(* and the other paths later; the plan, the preparation and the materializer *)
(* each probe again.  The metadata steps and the bytes written afterwards    *)
(* are the WorkspaceLifecycle's and the Materializer's subject.             *)
(***************************************************************************)
EXTENDS MaterializationPlan, FiniteSets

CONSTANTS Platforms,  \* of {"linux", "macos"}
          MaxMoves    \* how often users change the world

ASSUME PlanningAssumption == Platforms \subseteq {"linux", "macos"} /\ MaxMoves \in Nat

VARIABLES
  platform, world, moves,
  request,   \* source, target, allow_full_copy
  forecast,  \* what the preview answered
  pc,        \* where create is
  stage,     \* which probe is running, or was judged last
  reports,   \* what that probe has read so far
  control,   \* the control root as inspected before the preliminary probe
  reserved,  \* the volume of the reservation; "none" before it
  prepared,  \* the directories prepare_workspace made
  plan,      \* the current plan
  bound,     \* the directories each materializer bound, in order
  outcome,   \* the answer, "none" while running
  moved      \* for the properties: the stages since whose start the world moved

reading == <<platform, world, moves, request, forecast>>
pvars == <<platform, world, moves, request, forecast, pc, stage, reports, control, reserved,
           prepared, plan, bound, outcome, moved>>

ControlPath == <<"c">>
ActiveTarget == <<"p", "w">>   \* the target of the one active Workspace
ActiveVolume == "A"            \* as its reservation recorded it
NoReports == [role \in Roles |-> "none"]
NothingMade ==
  [target |-> "none", staging |-> "none", trash |-> "none", volume |-> "none", mount |-> "none"]

ParentOf(path) == SubSeq(path, 1, Len(path) - 1)

\* provisional_materialization_paths: the operation directories are siblings.
RolePath(req, role) ==
  CASE role = "source" -> req.source
    [] role = "target" -> req.target
    [] role = "staging" -> Append(ParentOf(req.target), "g")
    [] role = "trash" -> Append(ParentOf(req.target), "h")

\* active_workspace_protected_paths: target, staging, trash and isolated names.
ProtectedPaths == {Append(ParentOf(ActiveTarget), name) : name \in {"w", "y", "z", "v"}}

\* requested_paths_overlap and require_no_active_workspace_path_overlap.
SpellingError(req) ==
  CASE \/ PathsOverlap(req.source, ControlPath) \/ PathsOverlap(req.target, ControlPath)
       \/ PathsOverlap(req.source, req.target) -> "TargetLayout"
    [] \E path \in ProtectedPaths : PathsOverlap(path, req.target) -> "TargetConflict"
    [] OTHER -> "none"

\* require_existing_source, after the error of the probe itself.
SourceError(report) ==
  CASE report.error = "NotEmpty" -> "Filesystem"
    [] report.error = "InvalidLayout" -> "TargetLayout"
    [] ~report.existing -> "Filesystem"
    [] report.read = "Unsupported" -> "Filesystem"
    [] report.read = "Unknown" -> "CapabilityUnavailable"
    [] OTHER -> "none"

PathsOverlapWithIdentity(source, controlled) ==
  \/ PathsOverlap(source.path, controlled.path)
  \/ LeafOf(source) \in Identities(controlled)
  \/ LeafOf(controlled) \in Identities(source)

TargetEntersExistingRoot(target, existing) == LeafOf(existing) \in Identities(target)

\* require_no_active_workspace_identity_overlap: the registered paths are
\* inspected now, and only for a target on the registered volume.
ActiveIdentityOverlap(p, w, target) ==
  /\ target.volume = ActiveVolume
  /\ \E path \in ProtectedPaths :
       LET existing == InspectPath(p, w, path)
       IN existing.existing /\ TargetEntersExistingRoot(target, existing)

MissingTargetError(req, target) ==
  CASE target.existing -> "TargetExists"
    [] Len(target.ancestry) # Len(req.target) -> "TargetLayout"
    [] OTHER -> "none"

\* The errors of inspect_materialization_paths, as the use case reports them.
ProbeErrorCode(r) ==
  CASE ProbeError(r) = "none" -> "none"
    [] ProbeError(r) = "NotEmpty" -> "TargetExists"
    [] OTHER -> "TargetLayout"

\* What a preliminary report refuses, before the plan is selected.
PreliminaryError(p, w, req, r, controlReport) ==
  CASE ProbeErrorCode(r) # "none" -> ProbeErrorCode(r)
    [] SourceError(r["source"]) # "none" -> SourceError(r["source"])
    [] ActiveIdentityOverlap(p, w, r["target"]) -> "TargetConflict"
    [] MissingTargetError(req, r["target"]) # "none" -> MissingTargetError(req, r["target"])
    [] TargetEntersExistingRoot(r["target"], controlReport) -> "TargetLayout"
    [] OTHER -> "none"

Answer(kind, code) == [kind |-> kind, code |-> code]
FromPlan(selected) ==
  IF selected.mode = "none" THEN Answer("refused", PlanErrorCode(selected.error))
  ELSE Answer(selected.mode, "none")

AllReports(p, w, req) == [role \in Roles |-> InspectPath(p, w, RolePath(req, role))]

\* A preview that takes the checks of the target for the whole overlap check.
PreviewOf_Mutant(p, w, req) ==
  LET r == AllReports(p, w, req)
      early == PreliminaryError(p, w, req, r, InspectPath(p, w, ControlPath))
  IN CASE SpellingError(req) # "none" -> Answer("refused", SpellingError(req))
       [] early # "none" -> Answer("refused", early)
       [] OTHER -> FromPlan(SelectPlan(p, r, req.allow))

\* preview_create on a world that stands still while it reads.
PreviewOf(p, w, req) ==
  LET r == AllReports(p, w, req)
      controlReport == InspectPath(p, w, ControlPath)
      early == PreliminaryError(p, w, req, r, controlReport)
      selected == SelectPlan(p, r, req.allow)
  IN CASE SpellingError(req) # "none" -> Answer("refused", SpellingError(req))
       [] SourceError(r["source"]) # "none" -> Answer("refused", SourceError(r["source"]))
       [] early # "none" -> Answer("refused", early)
       [] PathsOverlapWithIdentity(r["source"], controlReport) ->
            Answer("refused", "TargetLayout")
       [] OTHER -> FromPlan(selected)
------------------------------------------------------------------------------
Refuse(code) ==
  /\ outcome' = Answer("refused", code) /\ pc' = "done"

BeginProbe(which) ==
  /\ stage' = which /\ reports' = NoReports /\ pc' = "probeSource"
  /\ moved' = moved \ (IF which = "preliminary" THEN {"active", "probe"} ELSE {"probe"})

Preview ==
  /\ pc = "preview"
  /\ forecast' = PreviewOf(platform, world, request)
  /\ pc' = "requested"
  /\ UNCHANGED <<platform, world, moves, request, stage, reports, control, reserved, prepared,
                 plan, bound, outcome, moved>>

\* create_impl up to the first look at the file system.
CheckSpelling ==
  /\ pc = "requested"
  /\ IF SpellingError(request) # "none"
     THEN Refuse(SpellingError(request))
     ELSE pc' = "source" /\ UNCHANGED outcome
  /\ UNCHANGED <<reading, stage, reports, control, reserved, prepared, plan, bound, moved>>

InspectSource ==
  /\ pc = "source"
  /\ LET source == InspectPath(platform, world, request.source)
         controlReport == InspectPath(platform, world, ControlPath)
     IN IF SourceError(source) # "none" \/ PathsOverlapWithIdentity(source, controlReport)
        THEN /\ Refuse(IF SourceError(source) # "none" THEN SourceError(source)
                                                       ELSE "TargetLayout")
             /\ UNCHANGED <<stage, reports, control, moved>>
        ELSE control' = controlReport /\ BeginProbe("preliminary") /\ UNCHANGED outcome
  /\ UNCHANGED <<reading, reserved, prepared, plan, bound>>

ProbeSource ==
  /\ pc = "probeSource"
  /\ reports' = [reports EXCEPT !["source"] = InspectPath(platform, world, request.source)]
  /\ pc' = "probeRest"
  /\ UNCHANGED <<reading, stage, control, reserved, prepared, plan, bound, outcome, moved>>

ProbeRest ==
  /\ pc = "probeRest"
  /\ reports' = [role \in Roles |->
                   IF role = "source" THEN reports[role]
                   ELSE InspectPath(platform, world, RolePath(request, role))]
  /\ pc' = stage
  /\ UNCHANGED <<reading, stage, control, reserved, prepared, plan, bound, outcome, moved>>

\* The preliminary report is judged, and the Workspace reserved with its volumes.
Reserve ==
  /\ pc = "preliminary"
  /\ LET early == PreliminaryError(platform, world, request, reports, control)
         selected == SelectPlan(platform, reports, request.allow)
     IN IF early # "none" \/ selected.mode = "none"
        THEN /\ Refuse(IF early # "none" THEN early ELSE PlanErrorCode(selected.error))
             /\ UNCHANGED reserved
        ELSE reserved' = selected.volume /\ pc' = "prepare" /\ UNCHANGED outcome
  /\ UNCHANGED <<reading, stage, reports, control, prepared, plan, bound, moved>>
------------------------------------------------------------------------------
\* prepare_workspace: the parent is opened again, refused inside the control
\* root, and the three directories are made in it, none of which may exist.
ParentError(p, w, req) ==
  LET parent == InspectPath(p, w, ParentOf(req.target))
      controlDir == LeafOf(InspectPath(p, w, ControlPath))
  IN CASE ~parent.existing -> "TargetLayout"
       [] controlDir \in Identities(parent) -> "TargetLayout"
       [] parent.fs # "cow" \/ parent.volume = "unknown" -> "CapabilityUnavailable"
       [] p = "linux" /\ (parent.mount = "unknown" \/ parent.write # "Supported") ->
            "CapabilityUnavailable"
       [] \E name \in {"t", "g", "h"} : Lookup(w, LeafOf(parent), name) # Absent ->
            "TargetExists"
       [] parent.write = "Unsupported" -> "Filesystem"
       [] OTHER -> "none"

MakeIn(w, dir) ==
  LET names == {<<dir, name>> : name \in {"t", "g", "h"}} IN
  [w EXCEPT !.link = [edge \in DOMAIN w.link \cup names |->
                        IF edge \in names THEN edge[2] ELSE w.link[edge]],
            !.onB = IF dir \in w.onB THEN w.onB \cup {"t", "g", "h"} ELSE w.onB]

Prepare ==
  /\ pc = "prepare"
  /\ LET refusal == ParentError(platform, world, request)
         parent == InspectPath(platform, world, ParentOf(request.target))
     IN IF refusal # "none"
        THEN Refuse(refusal) /\ UNCHANGED <<world, prepared, stage, reports, moved>>
        ELSE /\ world' = MakeIn(world, LeafOf(parent))
             /\ prepared' = [target |-> "t", staging |-> "g", trash |-> "h",
                             volume |-> parent.volume, mount |-> parent.mount]
             /\ BeginProbe("prepared") /\ UNCHANGED outcome
  /\ UNCHANGED <<platform, moves, request, forecast, control, reserved, plan, bound>>

\* Access that could not be determined: the first mkdir may still be refused.
PrepareDenied ==
  /\ pc = "prepare" /\ world.write = "Unknown"
  /\ ParentError(platform, world, request) = "none"
  /\ Refuse("Filesystem")
  /\ UNCHANGED <<reading, stage, reports, control, reserved, prepared, plan, bound, moved>>

\* require_prepared_target: the held directories are still where they were made,
\* and the report saw the held target.
PreparedError(p, w, req, r) ==
  IF /\ \A role \in Roles \ {"source"} :
          LET now == InspectPath(p, w, RolePath(req, role)) IN
          /\ now.existing /\ LeafOf(now) = prepared[role]
          /\ now.volume = prepared.volume /\ now.mount = prepared.mount
     /\ r["target"].existing /\ LeafOf(r["target"]) = prepared.target
  THEN "none" ELSE "TargetLayout"

ControlOverlap(p, w, r) ==
  LET controlReport == InspectPath(p, w, ControlPath) IN
  \/ PathsOverlapWithIdentity(r["source"], controlReport)
  \/ TargetEntersExistingRoot(r["target"], controlReport)

PlanError(p, w, req, r) ==
  LET selected == SelectPlan(p, r, req.allow) IN
  CASE ProbeErrorCode(r) # "none" -> ProbeErrorCode(r)
    [] PreparedError(p, w, req, r) # "none" -> PreparedError(p, w, req, r)
    [] SourceError(r["source"]) # "none" -> SourceError(r["source"])
    [] ControlOverlap(p, w, r) -> "TargetLayout"
    [] selected.mode = "none" -> PlanErrorCode(selected.error)
    [] selected.volume # reserved -> "TargetLayout"
    [] OTHER -> "none"

\* The executed plan is made from the second probe and given to its executor.
PlanPrepared ==
  /\ pc = "prepared"
  /\ LET refusal == PlanError(platform, world, request, reports) IN
     IF refusal # "none"
     THEN Refuse(refusal) /\ UNCHANGED <<plan, stage, reports, moved>>
     ELSE /\ plan' = SelectPlan(platform, reports, request.allow)
          /\ BeginProbe("materialize") /\ UNCHANGED outcome
  /\ UNCHANGED <<reading, control, reserved, prepared, bound>>

\* The materializer probes once more: the digest is that of the plan, and the
\* backend of the plan can run (validate_request_plan holds by construction).
Executable(p, r, mode) ==
  IF mode = "clone" THEN CowCandidate(p, r).state # "Unsupported"
  ELSE IF p = "linux" THEN FullCopyCandidate(p, r).state # "Unsupported"
  ELSE FullCopyCandidate(p, r).state = "Supported"

PlanIsStale(p, r, current) ==
  EvidenceDigest(p, r) # EvidenceDigest(p, current.reports) \/ ~Executable(p, r, current.mode)

Revalidate ==
  /\ pc = "materialize"
  /\ IF PlanIsStale(platform, reports, plan)
     THEN Refuse("PlanStale") ELSE pc' = "bind" /\ UNCHANGED outcome
  /\ UNCHANGED <<reading, stage, reports, control, reserved, prepared, plan, bound, moved>>

\* open_bound_directory: each path is walked name by name against its report.
Binds(p, w, req, r) ==
  \A role \in Roles :
    LET now == InspectPath(p, w, RolePath(req, role)) IN
    r[role].existing /\ Place(now) = Place(r[role])

DirectoriesOf(w, req) == [role \in Roles |-> EndOf(Walk(w, RolePath(req, role)))]

Bind ==
  /\ pc = "bind"
  /\ IF Binds(platform, world, request, reports)
     THEN /\ bound' = Append(bound, [mode |-> plan.mode, dirs |-> DirectoriesOf(world, request)])
          /\ pc' = "run" /\ UNCHANGED outcome
     ELSE Refuse("PlanStale") /\ UNCHANGED bound
  /\ UNCHANGED <<reading, stage, reports, control, reserved, prepared, plan, moved>>

\* What the executor then answers (external to planning: see Materializer).
Materialized ==
  /\ pc = "run"
  /\ outcome' = Answer(plan.mode, "none") /\ pc' = "done"
  /\ UNCHANGED <<reading, stage, reports, control, reserved, prepared, plan, bound, moved>>

CowUnavailable ==
  /\ pc = "run" /\ plan.mode = "clone"
  /\ IF request.allow
     THEN BeginProbe("fallback") /\ UNCHANGED outcome
     ELSE Refuse("CowUnavailable") /\ UNCHANGED <<stage, reports, moved>>
  /\ UNCHANGED <<reading, control, reserved, prepared, plan, bound>>

\* A rolled back clone is planned again as a copy, from a fresh probe.
PlanFallback ==
  /\ pc = "fallback"
  /\ LET replanned == ForFullCopyAfterCowUnavailable(platform, reports, plan)
         refusal == CASE ProbeErrorCode(reports) # "none" -> ProbeErrorCode(reports)
                      [] PreparedError(platform, world, request, reports) # "none" ->
                           PreparedError(platform, world, request, reports)
                      [] replanned.mode = "none" -> PlanErrorCode(replanned.error)
                      [] OTHER -> "none"
     IN IF refusal # "none"
        THEN Refuse(refusal) /\ UNCHANGED <<plan, stage, reports, moved>>
        ELSE plan' = replanned /\ BeginProbe("materialize") /\ UNCHANGED outcome
  /\ UNCHANGED <<reading, control, reserved, prepared, bound>>
------------------------------------------------------------------------------
\* Users: directories are moved, mounted over and replaced under the same name,
\* and what the kernel says of volumes and access changes, between any two steps.
AliasTargets == {"p", "s", "c", "w", "o", RootDir} \cup (IF platform = "linux" THEN {"k"} ELSE {})

SetLink(w, edge, to) ==
  [w EXCEPT !.link = [e \in (DOMAIN w.link \cup {edge}) \ (IF to = Absent THEN {edge} ELSE {}) |->
                        IF e = edge THEN to ELSE w.link[e]]]

LeadsTo(w, dir) == {e \in DOMAIN w.link : w.link[e] = dir}
Free(w, dir) == LeadsTo(w, dir) = {}

Relinked(w) ==
  {SetLink(w, <<RootDir, AliasName>>, to) : to \in AliasTargets \cup {Absent}}
    \cup {SetLink(w, <<RootDir, "p">>, to) : to \in {"o"} \cup {d \in {"p", "x"} : Free(w, d)}}
    \cup {SetLink(w, <<RootDir, "s">>, to) : to \in {d \in {"s", "x", Absent} : Free(w, d)}}
    \cup {SetLink(w, edge, to) :
            edge \in {<<w.link[<<RootDir, "p">>], name>> : name \in {"t", "h"}},
            to \in {Occupied} \cup {d \in {"x", prepared.target} \ {"none"} : Free(w, d)}}
    \cup {SetLink(SetLink(w, e, Absent), <<"p", IF e[2] = "w" THEN "v" ELSE "w">>, "w") :
            e \in {e \in LeadsTo(w, "w") : e[1] = "p"}}

Healthy == [fs |-> "cow", ids |-> TRUE, mountIds |-> TRUE, read |-> "Supported",
            write |-> "Supported", clone |-> "Supported"]
IsHealthy(w) == \A f \in DOMAIN Healthy : w[f] = Healthy[f]

\* One answer of the kernel at a time is not the good one, or is good again.
Answers(w) ==
  IF ~IsHealthy(w) THEN {[f \in DOMAIN w |-> IF f \in DOMAIN Healthy THEN Healthy[f] ELSE w[f]]}
  ELSE {[w EXCEPT !.read = v] : v \in SupportStates}
         \cup {[w EXCEPT !.write = v] : v \in SupportStates}
         \cup {[w EXCEPT !.fs = v] : v \in {"other", "unknown"}} \cup {[w EXCEPT !.ids = FALSE]}
         \cup (IF platform = "macos" THEN {[w EXCEPT !.clone = v] : v \in SupportStates}
                                     ELSE {[w EXCEPT !.mountIds = FALSE]})

\* (A change before a step that reads nothing of the world is one after it.)
Disturb ==
  /\ pc \notin {"requested", "materialize", "done"} /\ moves < MaxMoves
  /\ world' \in (Relinked(world) \cup Answers(world)) \ {world}
  /\ moves' = moves + 1
  /\ moved' = {"start", "active", "probe"}
  /\ UNCHANGED <<platform, request, forecast, pc, stage, reports, control, reserved, prepared,
                 plan, bound, outcome>>

Requests ==
  [source : {<<"s">>, <<AliasName>>}, allow : BOOLEAN,
   target : {<<"p", "t">>, <<AliasName, "t">>, <<"p", "w", "t">>, <<"s", "t">>, <<"c", "t">>}]

InitialLinks(alias, place) ==
  LET fixed == {<<RootDir, "s">>, <<RootDir, "p">>, <<RootDir, "c">>, <<"s", "k">>, <<"p", place>>}
      aliased == IF alias = Absent THEN {} ELSE {<<RootDir, AliasName>>}
  IN [e \in fixed \cup aliased |->
        IF e \in aliased THEN alias ELSE IF e[2] = place THEN "w" ELSE e[2]]

PlanningInit ==
  /\ platform \in Platforms /\ request \in Requests
  /\ \E alias \in AliasTargets \cup {Absent}, place \in {"w", "v"} :
       world = [f \in DOMAIN Healthy \cup {"link", "onB"} |->
                  CASE f = "link" -> InitialLinks(alias, place)
                    [] f = "onB" -> {"o"} \* the other volume
                    [] OTHER -> Healthy[f]]
  /\ moves = 0 /\ forecast = Answer("none", "none") /\ pc = "preview" /\ stage = "none"
  /\ reports = NoReports /\ control = "none" /\ reserved = "none" /\ prepared = NothingMade
  /\ plan = NoPlan /\ bound = <<>> /\ outcome = Answer("none", "none") /\ moved = {}

Finished == pc = "done" /\ UNCHANGED pvars

PlanningNext ==
  \/ Preview \/ CheckSpelling \/ InspectSource \/ ProbeSource \/ ProbeRest \/ Reserve
  \/ Prepare \/ PrepareDenied \/ PlanPrepared \/ Revalidate \/ Bind
  \/ Materialized \/ CowUnavailable \/ PlanFallback
  \/ Disturb \/ Finished

PlanningSpec == PlanningInit /\ [][PlanningNext]_pvars
------------------------------------------------------------------------------
Dirs == {RootDir, "s", "k", "p", "c", "w", "o", "x", "t", "g", "h"}

\* The directories inside a directory, whatever path leads to them.
Within(w, dir) ==
  LET inside[n \in 0 .. 4] ==
        IF n = 0 THEN {dir}
        ELSE inside[n - 1] \cup {w.link[e] : e \in {e \in DOMAIN w.link : e[1] \in inside[n - 1]}}
  IN inside[4]

\* The active Workspace is under one of the names its registration gives it.
ActiveInPlace(w) == \E path \in ProtectedPaths : EndOf(Walk(w, path)) = "w"

Latest == bound[Len(bound)]

\* WritesOnlyToItsOwn: a materializer that binds directories in a world that
\* stood still since its own probe writes to the directories this create made, on
\* the source's volume and the reserved one; they are not inside the source or
\* the control root, nor those inside each other, whatever mounts or aliases the
\* paths went through.  If the world stood still since the preliminary probe
\* began, they are not inside one found at its registered path either
\* (create.rs:759-882).
WritesOnlyToItsOwn ==
  pc = "run" /\ "probe" \notin moved =>
    LET dirs == Latest.dirs IN
    /\ \A role \in Roles \ {"source"} : dirs[role] = prepared[role]
    /\ \A role \in Roles : VolumeOf(world, dirs[role]) = reserved
    /\ Within(world, "c") \cap {dirs[role] : role \in Roles} = {}
    /\ "c" \notin Within(world, dirs["source"])
    /\ Within(world, dirs["source"]) \cap {"t", "g", "h"} = {}
    /\ "active" \notin moved /\ ActiveInPlace(world) => dirs["target"] \notin Within(world, "w")

\* FallbackStaysPut: a copy that follows a clone of the same create binds the
\* very directories the clone was bound to, whatever users did in between
\* (report_paths_match_plan, core materialization.rs:1132).
FallbackStaysPut ==
  \A i, j \in DOMAIN bound : bound[i].dirs = bound[j].dirs

\* PreviewIsKept: with nothing changed since the preview, what it refused is
\* refused by create before anything is reserved or made, and what it planned
\* reaches an executor of the same mode (preview_create, create.rs:199).
PreviewIsKept ==
  forecast.kind # "none" /\ "start" \notin moved =>
    /\ forecast.kind = "refused" => reserved = "none" /\ prepared = NothingMade
    /\ forecast.kind # "refused" /\ (bound # <<>> \/ outcome.kind = "refused") =>
         bound # <<>> /\ bound[1].mode = forecast.kind
=============================================================================
