------------------------ MODULE MaterializationPlan ------------------------
(***************************************************************************)
(* How a probe report becomes a plan, and when a failed clone may become a  *)
(* copy (core materialization.rs).  A plan freezes the four reports it was  *)
(* made from; a refusal is a plan of mode "none" with its error.            *)
(***************************************************************************)
EXTENDS PathProbe

Refused(error) == [mode |-> "none", error |-> error, reports |-> <<>>, volume |-> "none",
                   reason |-> "none"]
NoPlan == Refused("none")

\* phase1_volume_layout: one known volume, and on Btrfs one known mount.
LayoutError(platform, r) ==
  CASE \E role \in Roles : r[role].fs # "cow" -> "WrongFilesystem"
    [] \E role \in Roles : r[role].volume = "unknown" -> "UnknownVolume"
    [] \E role \in Roles : r[role].volume # r["source"].volume -> "DifferentVolume"
    [] platform = "linux" /\ \E role \in Roles : r[role].mount = "unknown" -> "UnknownMount"
    [] platform = "linux" /\ \E role \in Roles : r[role].mount # r["source"].mount ->
         "DifferentMount"
    [] OTHER -> "none"

PlanFor(r, mode, reason) ==
  [mode |-> mode, error |-> "none", reports |-> r, volume |-> r["source"].volume,
   reason |-> reason]

ForCowClone(platform, r) ==
  LET layout == LayoutError(platform, r) IN
  CASE layout # "none" -> Refused(layout)
    [] CowCandidate(platform, r).state = "Unsupported" -> Refused("CandidateUnsupported")
    [] OTHER -> PlanFor(r, "clone", "none")

\* for_full_copy_after_preflight: only a missing clone capability, and nothing
\* else that is wrong or unknown, is a reason to copy instead.
ForFullCopyAfterPreflight(platform, r) ==
  LET layout == LayoutError(platform, r)
      cow == CowCandidate(platform, r)
  IN CASE layout # "none" -> Refused(layout)
       [] FullCopyCandidate(platform, r).state # "Supported" -> Refused("FullCopyUnavailable")
       [] cow.unsupported # {"clone_capability"} \/ cow.unknown # {} ->
            Refused("FallbackNotEligible")
       [] OTHER -> PlanFor(r, "copy", "CloneUnsupportedAtPreflight")

\* select_plan of create.rs.
SelectPlan(platform, r, allow) ==
  IF allow /\ CowCandidate(platform, r).state = "Unsupported"
  THEN ForFullCopyAfterPreflight(platform, r)
  ELSE ForCowClone(platform, r)

\* report_paths_match_plan: access and capability may differ, the place may not.
Place(report) == <<report.path, report.ancestry, report.fs, report.volume, report.mount>>

ReportPathsMatchPlan_Mutant(r, plan) ==
  \A role \in Roles : r[role].path = plan.reports[role].path

ReportPathsMatchPlan(r, plan) ==
  \A role \in Roles : Place(r[role]) = Place(plan.reports[role])

\* for_full_copy_after_cow_unavailable, for a prior attempt whose receipt says
\* that it was rolled back to its baseline (the Materializer's subject).
ForFullCopyAfterCowUnavailable(platform, r, prior) ==
  LET layout == LayoutError(platform, r) IN
  CASE prior.mode # "clone" -> Refused("PreviousAttemptMismatch")
    [] ~ReportPathsMatchPlan(r, prior) -> Refused("PreviousAttemptMismatch")
    [] layout # "none" -> Refused(layout)
    [] r["source"].volume # prior.volume -> Refused("PreviousAttemptMismatch")
    [] FullCopyCandidate(platform, r).state # "Supported" -> Refused("FullCopyUnavailable")
    [] OTHER -> PlanFor(r, "copy", "CloneUnavailableAtRuntime")

\* map_plan_error: the code of the use case for each refusal.
PlanErrorCode(error) ==
  CASE error = "CandidateUnsupported" -> "CowUnavailable"
    [] error \in {"FullCopyUnavailable", "UnknownVolume", "UnknownMount"} ->
         "CapabilityUnavailable"
    [] error \in {"WrongFilesystem", "DifferentVolume", "DifferentMount"} -> "TargetLayout"
    [] OTHER -> "Filesystem"
=============================================================================
