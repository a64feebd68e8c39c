------------------------ MODULE CreatePlanningProofs ------------------------
(***************************************************************************)
(* The theorems about CreatePlanning, on both platforms and however often   *)
(* users move, mount over and replace directories or the kernel changes its *)
(* answers: a fallback binds what its clone was bound to, a preview is kept *)
(* by the create that follows it in a still world, and a materializer binds *)
(* no directory but its own.                                                *)
(***************************************************************************)
EXTENDS CreatePlanning, TLAPS

Stages == {"preliminary", "prepared", "materialize", "fallback"}
Probing == {"probeSource", "probeRest"}
AllPcs == {"preview", "requested", "source", "prepare", "bind", "run", "done"} \cup Stages \cup Probing

\* Where create is before the first materializer binds anything.
Unbound ==
  \/ pc \in {"preview", "requested", "source", "preliminary", "prepare", "prepared"}
  \/ pc \in Probing /\ stage \in {"preliminary", "prepared"}

ControlOK ==
  /\ pc \in AllPcs /\ plan.mode \in {"none", "clone", "copy"}
  /\ pc \in Probing => stage \in Stages
  /\ Unbound => bound = <<>>
------------------------------------------------------------------------------
(***************************************************************************)
(* A copy is bound where the clone was.  Every binding so far is of the     *)
(* directories the current plan was made for: a plan binds what its digest  *)
(* agrees with, and only a plan for the same places replaces it.            *)
(***************************************************************************)
PlannedDirs == [role \in Roles |-> EndOf(plan.reports[role].ancestry)]
Bindings == {[mode |-> m, dirs |-> PlannedDirs] : m \in {"none", "clone", "copy"}}

FallbackInv ==
  /\ ControlOK /\ bound \in Seq(Bindings)
  /\ pc = "bind" => \A role \in Roles : reports[role].ancestry = plan.reports[role].ancestry

\* What the digest covers holds the ancestry of each path.
LEMMA DigestTellsAncestry ==
  ASSUME NEW p, NEW r, NEW q, EvidenceDigest(p, r) = EvidenceDigest(p, q), NEW role \in Roles
  PROVE  r[role].ancestry = q[role].ancestry
<1>1. [x \in Roles |-> DigestedFacts(r[x])] = [x \in Roles |-> DigestedFacts(q[x])]
  BY DEF EvidenceDigest
<1>2. DigestedFacts(r[role]) = DigestedFacts(q[role])
  BY <1>1
<1> QED BY <1>2 DEF DigestedFacts

\* A selected plan is of one of the two modes, or of none.
LEMMA PlanModes ==
  ASSUME NEW p, NEW r, NEW allow, NEW prior
  PROVE  /\ SelectPlan(p, r, allow).mode \in {"none", "clone", "copy"}
         /\ ForFullCopyAfterCowUnavailable(p, r, prior).mode \in {"none", "copy"}
<1>1. \A e : Refused(e).mode = "none"
  BY DEF Refused
<1>2. \A m, why : PlanFor(r, m, why).mode = m
  BY DEF PlanFor
<1>3. ForCowClone(p, r).mode \in {"none", "clone"}
  BY <1>1, <1>2, Zenon DEF ForCowClone
<1>4. ForFullCopyAfterPreflight(p, r).mode \in {"none", "copy"}
  BY <1>1, <1>2, Zenon DEF ForFullCopyAfterPreflight
<1>5. ForFullCopyAfterCowUnavailable(p, r, prior).mode \in {"none", "copy"}
  BY <1>1, <1>2, Zenon DEF ForFullCopyAfterCowUnavailable
<1>6. SelectPlan(p, r, allow).mode \in {"none", "clone", "copy"}
  BY <1>3, <1>4, Zenon DEF SelectPlan
<1> QED BY <1>5, <1>6

\* A plan made after a clone is for the places of the clone.
LEMMA ReplannedInPlace ==
  ASSUME NEW p, NEW r, NEW prior, ForFullCopyAfterCowUnavailable(p, r, prior).mode # "none"
  PROVE  /\ ForFullCopyAfterCowUnavailable(p, r, prior).reports = r
         /\ \A role \in Roles : r[role].ancestry = prior.reports[role].ancestry
<1>1. \A e : Refused(e).mode = "none"
  BY DEF Refused
<1>2. ReportPathsMatchPlan(r, prior)
  BY <1>1 DEF ForFullCopyAfterCowUnavailable
<1>3. \A role \in Roles : r[role].ancestry = prior.reports[role].ancestry
  BY <1>2 DEF ReportPathsMatchPlan, Place
<1>4. ForFullCopyAfterCowUnavailable(p, r, prior) = PlanFor(r, "copy", "CloneUnavailableAtRuntime")
  BY <1>1 DEF ForFullCopyAfterCowUnavailable
<1> QED BY <1>3, <1>4 DEF PlanFor

\* One more binding of the planned directories.
LEMMA BoundAsPlanned ==
  ASSUME FallbackInv, bound' = Append(bound, [mode |-> plan.mode, dirs |-> PlannedDirs]), plan' = plan
  PROVE  bound' \in Seq(Bindings)'
<1>1. [mode |-> plan.mode, dirs |-> PlannedDirs] \in Bindings /\ bound \in Seq(Bindings)
  BY DEF FallbackInv, ControlOK, Bindings
<1>2. bound' \in Seq(Bindings)
  BY <1>1
<1>3. Bindings' = Bindings
  BY DEF Bindings, PlannedDirs
<1> QED BY <1>2, <1>3

\* Steps that leave plan and bindings alone.
LEMMA BoundStays ==
  ASSUME FallbackInv, UNCHANGED <<plan, bound>>, ControlOK', pc' # "bind"
  PROVE  FallbackInv'
<1>1. Bindings' = Bindings
  BY DEF Bindings, PlannedDirs
<1> QED BY <1>1 DEF FallbackInv

\* Nothing is bound yet, so the bindings agree with any plan.
LEMMA NothingBound ==
  ASSUME bound' = <<>>, ControlOK', pc' # "bind"
  PROVE  FallbackInv'
BY DEF FallbackInv

\* What is bound is what the plan was made for: Revalidate compared the reports.
LEMMA FallbackStep ==
  ASSUME FallbackInv, [PlanningNext]_pvars
  PROVE  FallbackInv'
<1> USE DEF Stages, Probing, AllPcs, Unbound
<1>0. ControlOK /\ pc \in AllPcs /\ plan.mode \in {"none", "clone", "copy"} /\ (pc \in Probing => stage \in Stages)
  BY DEF FallbackInv, ControlOK
<1>1. CASE Preview
  BY <1>0, <1>1, BoundStays DEF Preview, ControlOK
<1>2. CASE CheckSpelling
  BY <1>0, <1>2, BoundStays DEF CheckSpelling, ControlOK, Refuse
<1>3. CASE InspectSource
  BY <1>0, <1>3, BoundStays DEF InspectSource, ControlOK, Refuse, BeginProbe
<1>4. CASE ProbeSource
  BY <1>0, <1>4, BoundStays DEF ProbeSource, ControlOK
<1>5. CASE ProbeRest
  BY <1>0, <1>5, BoundStays DEF ProbeRest, ControlOK
<1>6. CASE Reserve
  BY <1>0, <1>6, BoundStays DEF Reserve, ControlOK, Refuse
<1>7. CASE Prepare
  BY <1>0, <1>7, BoundStays DEF Prepare, ControlOK, Refuse, BeginProbe
<1>8. CASE PrepareDenied
  BY <1>0, <1>8, BoundStays DEF PrepareDenied, ControlOK, Refuse
<1>9. CASE PlanPrepared
  <2>1. pc = "prepared" /\ bound' = <<>>
    BY <1>0, <1>9 DEF PlanPrepared, ControlOK
  <2>2. CASE PlanError(platform, world, request, reports) # "none"
    BY <1>0, <1>9, <2>1, <2>2, NothingBound DEF PlanPrepared, ControlOK, Refuse
  <2>3. CASE PlanError(platform, world, request, reports) = "none"
    <3>1. plan' = SelectPlan(platform, reports, request.allow) /\ pc' = "probeSource" /\ stage' = "materialize"
      BY <1>9, <2>3 DEF PlanPrepared, BeginProbe
    <3>2. plan'.mode \in {"none", "clone", "copy"}
      BY <3>1, PlanModes
    <3> QED BY <2>1, <3>1, <3>2, NothingBound DEF ControlOK
  <2> QED BY <2>2, <2>3
<1>10. CASE Revalidate
  <2>1. pc = "materialize" /\ UNCHANGED <<plan, bound, stage, reports>>
    BY <1>10 DEF Revalidate
  <2>2. CASE PlanIsStale(platform, reports, plan)
    BY <1>0, <1>10, <2>1, <2>2, BoundStays DEF Revalidate, ControlOK, Refuse
  <2>3. CASE ~PlanIsStale(platform, reports, plan)
    <3>1. pc' = "bind" /\ EvidenceDigest(platform, reports) = EvidenceDigest(platform, plan.reports)
      BY <1>10, <2>3 DEF Revalidate, PlanIsStale
    <3>2. \A role \in Roles : reports[role].ancestry = plan.reports[role].ancestry
      BY <3>1, DigestTellsAncestry
    <3>3. Bindings' = Bindings
      BY <2>1 DEF Bindings, PlannedDirs
    <3>4. ControlOK'
      BY <1>0, <2>1, <3>1 DEF ControlOK
    <3> QED BY <2>1, <3>2, <3>3, <3>4 DEF FallbackInv
  <2> QED BY <2>2, <2>3
<1>11. CASE Bind
  <2>1. pc = "bind" /\ UNCHANGED <<plan, stage>>
    BY <1>11 DEF Bind
  <2>2. CASE Binds(platform, world, request, reports)
    <3>1. /\ pc' = "run"
          /\ bound' = Append(bound, [mode |-> plan.mode, dirs |-> DirectoriesOf(world, request)])
      BY <1>11, <2>2 DEF Bind
    <3>2. ASSUME NEW role \in Roles
          PROVE  Walk(world, RolePath(request, role)) = plan.reports[role].ancestry
      <4>1. Place(InspectPath(platform, world, RolePath(request, role))) = Place(reports[role])
        BY <2>2 DEF Binds
      <4>2. InspectPath(platform, world, RolePath(request, role)).ancestry = reports[role].ancestry
        BY <4>1 DEF Place
      <4> QED BY <4>2, <2>1 DEF FallbackInv, InspectPath
    <3>3. DirectoriesOf(world, request) = PlannedDirs
      BY <3>2 DEF DirectoriesOf, PlannedDirs
    <3>4. bound' \in Seq(Bindings)'
      BY <3>1, <3>3, <2>1, BoundAsPlanned
    <3>5. ControlOK'
      BY <1>0, <2>1, <3>1 DEF ControlOK
    <3> QED BY <3>1, <3>4, <3>5 DEF FallbackInv
  <2>3. CASE ~Binds(platform, world, request, reports)
    BY <1>0, <1>11, <2>1, <2>3, BoundStays DEF Bind, ControlOK, Refuse
  <2> QED BY <2>2, <2>3
<1>12. CASE Materialized
  BY <1>0, <1>12, BoundStays DEF Materialized, ControlOK
<1>13. CASE CowUnavailable
  BY <1>0, <1>13, BoundStays DEF CowUnavailable, ControlOK, Refuse, BeginProbe
<1>14. CASE PlanFallback
  <2> DEFINE replanned == ForFullCopyAfterCowUnavailable(platform, reports, plan)
  <2>1. pc = "fallback" /\ UNCHANGED bound
    BY <1>14 DEF PlanFallback
  <2>2. CASE pc' = "done" /\ UNCHANGED plan
    BY <1>0, <2>1, <2>2, BoundStays DEF ControlOK
  <2>3. CASE plan' = replanned /\ replanned.mode # "none" /\ pc' = "probeSource" /\ stage' = "materialize"
    <3>1. replanned.mode = "copy" /\ replanned.reports = reports
      <4>1. replanned.mode \in {"none", "copy"}
        BY PlanModes
      <4> QED BY <2>3, <4>1, ReplannedInPlace
    <3>2. \A role \in Roles : reports[role].ancestry = plan.reports[role].ancestry
      BY <2>3, ReplannedInPlace
    <3> HIDE DEF replanned
    <3>3. PlannedDirs' = PlannedDirs
      BY <2>3, <3>1, <3>2 DEF PlannedDirs
    <3>4. bound' \in Seq(Bindings)'
      BY <2>1, <3>3 DEF FallbackInv, Bindings
    <3>5. ControlOK'
      BY <1>0, <2>3, <3>1 DEF ControlOK
    <3> QED BY <2>3, <3>4, <3>5 DEF FallbackInv
  <2>4. \A e : PlanErrorCode(e) # "none"
    BY Zenon DEF PlanErrorCode
  <2> DEFINE refusal ==
        CASE ProbeErrorCode(reports) # "none" -> ProbeErrorCode(reports)
          [] PreparedError(platform, world, request, reports) # "none" ->
               PreparedError(platform, world, request, reports)
          [] replanned.mode = "none" -> PlanErrorCode(replanned.error)
          [] OTHER -> "none"
  <2>5. IF refusal # "none" THEN pc' = "done" /\ UNCHANGED plan
        ELSE plan' = replanned /\ pc' = "probeSource" /\ stage' = "materialize"
    BY <1>14 DEF PlanFallback, Refuse, BeginProbe
  <2>6. refusal = "none" => replanned.mode # "none"
    <3> HIDE DEF replanned
    <3> QED BY <2>4, Zenon
  <2> HIDE DEF refusal, replanned
  <2>7. CASE refusal = "none"
    BY <2>5, <2>6, <2>7, <2>3
  <2>8. CASE refusal # "none"
    BY <2>5, <2>8, <2>2
  <2> QED BY <2>7, <2>8
<1>15. CASE Disturb \/ Finished \/ UNCHANGED pvars
  <2>1. UNCHANGED <<pc, stage, reports, plan, bound>>
    BY <1>15 DEF Disturb, Finished, pvars
  <2> QED BY <2>1 DEF FallbackInv, ControlOK, Bindings, PlannedDirs
<1> QED BY <1>1, <1>2, <1>3, <1>4, <1>5, <1>6, <1>7, <1>8, <1>9, <1>10, <1>11, <1>12, <1>13, <1>14, <1>15
        DEF PlanningNext

\* A copy that follows a clone of the same create is bound to the directories the
\* clone was bound to, whatever users move, mount or replace in between and however
\* often (report_paths_match_plan, the digest and open_bound_directory together).
THEOREM FallbackNeverMoves == PlanningSpec => []FallbackStaysPut
<1>1. PlanningInit => FallbackInv
  BY DEF PlanningInit, FallbackInv, ControlOK, Unbound, Probing, AllPcs, Stages, NoPlan, Refused
<1>2. FallbackInv /\ [PlanningNext]_pvars => FallbackInv'
  BY FallbackStep
<1>3. FallbackInv => FallbackStaysPut
  <2>1. ASSUME FallbackInv, NEW i \in DOMAIN bound PROVE bound[i].dirs = PlannedDirs
    <3>1. bound[i] \in Bindings
      BY <2>1 DEF FallbackInv
    <3> QED BY <3>1 DEF Bindings
  <2> QED BY <2>1 DEF FallbackStaysPut
<1> QED BY <1>1, <1>2, <1>3, PTL DEF PlanningSpec
------------------------------------------------------------------------------
Nowhere == {Absent, Occupied}

\* Sequences written out.
LEMMA Appended ==
  ASSUME NEW a, NEW b, NEW c
  PROVE  Append(<<a>>, b) = <<a, b>> /\ Append(<<a, b>>, c) = <<a, b, c>>
<1>1. Append(<<a>>, b) = [i \in 1 .. 2 |-> IF i = 1 THEN a ELSE b]
  OBVIOUS
<1>2. <<a, b>> = [i \in 1 .. 2 |-> IF i = 1 THEN a ELSE b]
  OBVIOUS
<1>3. Append(<<a, b>>, c) = [i \in 1 .. 3 |-> IF i = 1 THEN a ELSE IF i = 2 THEN b ELSE c]
  OBVIOUS
<1>4. <<a, b, c>> = [i \in 1 .. 3 |-> IF i = 1 THEN a ELSE IF i = 2 THEN b ELSE c]
  OBVIOUS
<1> QED BY <1>1, <1>2, <1>3, <1>4

\* A path of one name.
LEMMA WalkOne ==
  ASSUME NEW w, NEW a
  PROVE  LET d == Lookup(w, RootDir, a) IN
         Walk(w, <<a>>) = IF d \in Nowhere THEN <<RootDir>> ELSE <<RootDir, d>>
<1> DEFINE path == <<a>>
           d == Lookup(w, RootDir, a)
           Body(f, i) ==
             IF i = 0 THEN <<RootDir>>
             ELSE LET above == f[i - 1]
                      next == Lookup(w, above[Len(above)], path[i])
                  IN IF Len(above) < i \/ next \in {Absent, Occupied} THEN above
                     ELSE Append(above, next)
           r == CHOOSE f : f = [i \in 0 .. Len(path) |-> Body(f, i)]
           one == IF d \in Nowhere THEN <<RootDir>> ELSE <<RootDir, d>>
           g == [i \in 0 .. 1 |-> IF i = 0 THEN <<RootDir>> ELSE one]
<1>1. Walk(w, path) = r[Len(path)]
  BY DEF Walk
<1>2. Len(path) = 1 /\ path[1] = a
  OBVIOUS
<1>3. Len(<<RootDir>>) = 1 /\ <<RootDir>>[1] = RootDir
  OBVIOUS
<1>5. ASSUME NEW f, f[0] = <<RootDir>> PROVE Body(f, 1) = one
  <2>1. f[1 - 1] = <<RootDir>> /\ ~ (1 < 1) /\ 1 # 0
    BY <1>5
  <2> QED BY <1>2, <1>3, <2>1, Appended, Zenon DEF Nowhere
<1>6. \A f : Body(f, 0) = <<RootDir>>
  OBVIOUS
<1> HIDE DEF Body, one
<1>7. g = [i \in 0 .. Len(path) |-> Body(g, i)]
  <2>1. g[0] = <<RootDir>> /\ g[1] = one
    OBVIOUS
  <2>2. Body(g, 0) = <<RootDir>> /\ Body(g, 1) = one
    BY <1>5, <1>6, <2>1
  <2> QED BY <1>2, <2>2
<1>8. r = [i \in 0 .. Len(path) |-> Body(r, i)]
  BY <1>7, Zenon
<1> HIDE DEF r
<1>9. r[0] = Body(r, 0) /\ r[1] = Body(r, 1)
  BY <1>2, <1>8
<1> QED BY <1>1, <1>2, <1>5, <1>6, <1>9 DEF one

\* A path of two names.
LEMMA WalkTwo ==
  ASSUME NEW w, NEW a, NEW b
  PROVE  LET d == Lookup(w, RootDir, a)
             e == Lookup(w, d, b)
         IN Walk(w, <<a, b>>) = IF d \in Nowhere THEN <<RootDir>>
                                ELSE IF e \in Nowhere THEN <<RootDir, d>> ELSE <<RootDir, d, e>>
<1> DEFINE path == <<a, b>>
           d == Lookup(w, RootDir, a)
           e == Lookup(w, d, b)
           Body(f, i) ==
             IF i = 0 THEN <<RootDir>>
             ELSE LET above == f[i - 1]
                      next == Lookup(w, above[Len(above)], path[i])
                  IN IF Len(above) < i \/ next \in {Absent, Occupied} THEN above
                     ELSE Append(above, next)
           r == CHOOSE f : f = [i \in 0 .. Len(path) |-> Body(f, i)]
           one == IF d \in Nowhere THEN <<RootDir>> ELSE <<RootDir, d>>
           two == IF d \in Nowhere THEN <<RootDir>>
                  ELSE IF e \in Nowhere THEN <<RootDir, d>> ELSE <<RootDir, d, e>>
           g == [i \in 0 .. 2 |-> IF i = 0 THEN <<RootDir>> ELSE IF i = 1 THEN one ELSE two]
<1>1. Walk(w, path) = r[Len(path)]
  BY DEF Walk
<1>2. Len(path) = 2 /\ path[1] = a /\ path[2] = b
  OBVIOUS
<1>3. /\ Len(<<RootDir>>) = 1 /\ <<RootDir>>[1] = RootDir 
      /\ Len(<<RootDir, d>>) = 2 /\ <<RootDir, d>>[2] = d
  OBVIOUS
<1>4. ASSUME NEW f, f[0] = <<RootDir>> PROVE Body(f, 1) = one
  <2>1. f[1 - 1] = <<RootDir>> /\ ~ (1 < 1) /\ 1 # 0
    BY <1>4
  <2> QED BY <1>2, <1>3, <2>1, Appended, Zenon DEF Nowhere
<1>5. ASSUME NEW f, f[1] = one PROVE Body(f, 2) = two
  <2>1. CASE d \in Nowhere
    <3>1. f[1] = <<RootDir>> /\ two = <<RootDir>>
      BY <1>5, <2>1
    <3>2. f[2 - 1] = <<RootDir>> /\ 1 < 2 /\ 2 # 0
      BY <1>5, <3>1
    <3> HIDE DEF two, d, e
    <3> QED BY <1>2, <1>3, <3>1, <3>2, Zenon
  <2>2. CASE d \notin Nowhere
    <3>1. f[1] = <<RootDir, d>> /\ two = IF e \in Nowhere THEN <<RootDir, d>> ELSE <<RootDir, d, e>>
      BY <1>5, <2>2
    <3>2. f[2 - 1] = <<RootDir, d>> /\ ~ (2 < 2) /\ 2 # 0
      BY <1>5, <3>1
    <3>3. Len(f[2 - 1]) = 2 /\ f[2 - 1][Len(f[2 - 1])] = d
      BY <1>3, <3>2
    <3>4. Append(f[2 - 1], e) = <<RootDir, d, e>>
      BY <3>2, Appended
    <3> HIDE DEF two, d
    <3>5. Body(f, 2) = IF e \in Nowhere THEN f[2 - 1] ELSE Append(f[2 - 1], e)
      BY <1>2, <3>2, <3>3, Zenon DEF Nowhere, e
    <3> HIDE DEF e, Body
    <3> QED BY <3>1, <3>2, <3>4, <3>5
  <2> QED BY <2>1, <2>2
<1>6. \A f : Body(f, 0) = <<RootDir>>
  OBVIOUS
<1> HIDE DEF Body, one, two
<1>7. g = [i \in 0 .. Len(path) |-> Body(g, i)]
  <2>1. g[0] = <<RootDir>> /\ g[1] = one
    OBVIOUS
  <2>2. Body(g, 0) = <<RootDir>> /\ Body(g, 1) = one /\ Body(g, 2) = two
    BY <1>4, <1>5, <1>6, <2>1
  <2> QED BY <1>2, <2>2
<1>8. r = [i \in 0 .. Len(path) |-> Body(r, i)]
  BY <1>7, Zenon
<1> HIDE DEF r
<1>9. r[0] = Body(r, 0) /\ r[1] = Body(r, 1) /\ r[2] = Body(r, 2)
  BY <1>2, <1>8
<1>10. r[2] = two
  BY <1>4, <1>5, <1>6, <1>9
<1> QED BY <1>1, <1>2, <1>10 DEF two

Leaves == [target |-> "t", staging |-> "g", trash |-> "h"]

\* The first names of a written out path.
LEMMA Prefixes ==
  ASSUME NEW s, Len(s) \in Nat
  PROVE  SubSeq(s, 1, 1) = <<s[1]>> /\ SubSeq(s, 1, 2) = <<s[1], s[2]>>
<1>1. SubSeq(s, 1, 1) = [i \in 1 .. 1 |-> s[i]] /\ SubSeq(s, 1, 2) = [i \in 1 .. 2 |-> s[i]]
  OBVIOUS
<1>2. <<s[1]>> = [i \in 1 .. 1 |-> s[i]]
  OBVIOUS
<1>3. <<s[1], s[2]>> = [i \in 1 .. 2 |-> s[i]]
  OBVIOUS
<1> QED BY <1>1, <1>2, <1>3

\* Which short paths contain which.
LEMMA ShortPaths ==
  ASSUME NEW a, NEW b, NEW c
  PROVE  /\ ParentOf(<<a, b>>) = <<a>> /\ Append(<<a>>, b) = <<a, b>>
         /\ Contains(<<a>>, <<a>>) /\ Contains(<<a>>, <<a, b>>) /\ Contains(<<a, b>>, <<a, b, c>>)
<1>1. SubSeq(<<a, b>>, 1, 1) = <<a>> /\ SubSeq(<<a>>, 1, 1) = <<a>> /\ SubSeq(<<a, b, c>>, 1, 2) = <<a, b>>
  <2>1. /\ Len(<<a>>) = 1 /\ <<a>>[1] = a
        /\ Len(<<a, b>>) = 2 /\ <<a, b>>[1] = a
        /\ Len(<<a, b, c>>) = 3 /\ <<a, b, c>>[1] = a /\ <<a, b, c>>[2] = b
    OBVIOUS
  <2> QED BY <2>1, Prefixes
<1>2. Len(<<a>>) = 1 /\ Len(<<a, b>>) = 2 /\ Len(<<a, b, c>>) = 3
  OBVIOUS
<1>3. ParentOf(<<a, b>>) = <<a>>
  <2>1. 2 - 1 = 1
    OBVIOUS
  <2> QED BY <1>1, <1>2, <2>1 DEF ParentOf
<1>4. Contains(<<a>>, <<a>>) /\ Contains(<<a>>, <<a, b>>) /\ Contains(<<a, b>>, <<a, b, c>>)
  BY <1>1, <1>2 DEF Contains
<1> QED BY <1>3, <1>4, Appended

\* A path of one name and one of two meet only in their first name.
LEMMA OneAndTwo ==
  ASSUME NEW a, NEW b, NEW c, a # b
  PROVE  ~ Contains(<<a>>, <<b, c>>) /\ ~ Contains(<<b, c>>, <<a>>)
<1>1. SubSeq(<<b, c>>, 1, 1) = <<b>>
  <2>1. Len(<<b, c>>) = 2 /\ <<b, c>>[1] = b
    OBVIOUS
  <2> QED BY <2>1, Prefixes
<1>2. Len(<<a>>) = 1 /\ Len(<<b, c>>) = 2 /\ <<a>> # <<b>>
  OBVIOUS
<1> QED BY <1>1, <1>2 DEF Contains

\* Of two siblings neither contains the other.
LEMMA TwoAndTwo ==
  ASSUME NEW a, NEW b, NEW c, b # c
  PROVE  ~ Contains(<<a, b>>, <<a, c>>)
<1>1. SubSeq(<<a, c>>, 1, 2) = <<a, c>>
  <2>1. Len(<<a, c>>) = 2 /\ <<a, c>>[1] = a /\ <<a, c>>[2] = c
    OBVIOUS
  <2> QED BY <2>1, Prefixes
<1>2. Len(<<a, b>>) = 2 /\ <<a, c>> # <<a, b>>
  OBVIOUS
<1> QED BY <1>1, <1>2 DEF Contains

\* The names of a request whose spelling is accepted.
Spelled(req, x, y) ==
  /\ x \in {"s", AliasName} /\ y \in {"p", "s", AliasName} /\ x # y
  /\ req.source = <<x>> /\ req.target = <<y, "t">>
  /\ RolePath(req, "source") = <<x>> /\ ParentOf(req.target) = <<y>>
  /\ \A role \in Roles \ {"source"} : RolePath(req, role) = <<y, Leaves[role]>>

\* A request whose spelling create accepts names a source x and a parent y of
\* the target, neither of them inside the other.
LEMMA SpelledRequest ==
  ASSUME NEW req \in Requests, SpellingError(req) = "none"
  PROVE  \E x, y : Spelled(req, x, y)
<1>1. /\ ~ PathsOverlap(req.target, ControlPath) /\ ~ PathsOverlap(req.source, req.target)
      /\ \A path \in ProtectedPaths : ~ PathsOverlap(path, req.target)
  <2>1. ~ (\/ PathsOverlap(req.source, ControlPath) \/ PathsOverlap(req.target, ControlPath)
           \/ PathsOverlap(req.source, req.target))
    BY Zenon DEF SpellingError
  <2>2. ~ (\E path \in ProtectedPaths : PathsOverlap(path, req.target))
    BY <2>1, Zenon DEF SpellingError
  <2> QED BY <2>1, <2>2, Zenon
<1>2. PICK x \in {"s", AliasName} : req.source = <<x>>
  BY DEF Requests
<1>3. req.target \in {<<"p", "t">>, <<AliasName, "t">>, <<"p", "w", "t">>, <<"s", "t">>, <<"c", "t">>}
  BY DEF Requests
<1>4. req.target # <<"c", "t">>
  <2>1. Contains(ControlPath, <<"c", "t">>)
    BY ShortPaths, Zenon DEF ControlPath
  <2> QED BY <1>1, <2>1 DEF PathsOverlap
<1>5. req.target # <<"p", "w", "t">>
  <2>1. ParentOf(ActiveTarget) = <<"p">> /\ Append(<<"p">>, "w") = <<"p", "w">>
    BY ShortPaths, Zenon DEF ActiveTarget
  <2>2. <<"p", "w">> \in ProtectedPaths
    BY <2>1 DEF ProtectedPaths
  <2>3. Contains(<<"p", "w">>, <<"p", "w", "t">>)
    BY ShortPaths, Zenon
  <2> QED BY <1>1, <2>2, <2>3 DEF PathsOverlap
<1>6. PICK y \in {"p", "s", AliasName} : req.target = <<y, "t">>
  BY <1>3, <1>4, <1>5
<1>7. x # y
  <2>1. Contains(<<x>>, <<x, "t">>)
    BY ShortPaths, Zenon
  <2> QED BY <1>1, <1>2, <1>6, <2>1 DEF PathsOverlap
<1>8. ParentOf(req.target) = <<y>> /\ Append(<<y>>, "g") = <<y, "g">> /\ Append(<<y>>, "h") = <<y, "h">>
  <2>1. ParentOf(<<y, "t">>) = <<y>> /\ Append(<<y>>, "g") = <<y, "g">> /\ Append(<<y>>, "h") = <<y, "h">>
    BY ShortPaths, Zenon
  <2> QED BY <1>6, <2>1
<1>9. RolePath(req, "source") = <<x>>
  BY <1>2 DEF RolePath
<1>10. \A role \in Roles \ {"source"} : RolePath(req, role) = <<y, Leaves[role]>>
  <2>1. RolePath(req, "target") = <<y, "t">> /\ Leaves["target"] = "t"
    BY <1>6 DEF RolePath, Leaves
  <2>2. RolePath(req, "staging") = <<y, "g">> /\ Leaves["staging"] = "g"
    BY <1>8 DEF RolePath, Leaves
  <2>3. RolePath(req, "trash") = <<y, "h">> /\ Leaves["trash"] = "h"
    BY <1>8 DEF RolePath, Leaves
  <2> QED BY <2>1, <2>2, <2>3 DEF Roles
<1> QED BY <1>2, <1>6, <1>7, <1>8, <1>9, <1>10, Zenon DEF Spelled

Steps(ancestry) == {ancestry[i] : i \in DOMAIN ancestry}

\* What a report takes from the directory its walk ends in.
LEMMA ReportFacts ==
  ASSUME NEW p, NEW w, NEW path, NEW rep, rep = InspectPath(p, w, path), NEW dir, dir = EndOf(Walk(w, path))
  PROVE  /\ rep.path = path /\ rep.ancestry = Walk(w, path) /\ LeafOf(rep) = dir
         /\ rep.fs = TypeNameOf(p, w, dir) /\ rep.volume = VolumeIdOf(p, w, dir)
         /\ rep.mount = MountIdOf(p, w, path, Walk(w, path))
         /\ rep.read = w.read /\ rep.write = w.write /\ rep.cow = CowCloneOf(p, w, dir)
         /\ rep.existing = (Len(Walk(w, path)) > Len(path)) /\ rep.error = WalkError(w, path)
         /\ Identities(rep) = Steps(Walk(w, path))
<1>1. Identities(rep) = Steps(rep.ancestry)
  BY DEF Identities, Steps
<1> QED BY <1>1 DEF InspectPath, LeafOf

\* The directories of a written out sequence, and the last of them.
LEMMA ShortAncestries ==
  ASSUME NEW a, NEW b
  PROVE  /\ Len(<<a>>) = 1 /\ EndOf(<<a>>) = a /\ Steps(<<a>>) = {a}
         /\ Len(<<a, b>>) = 2 /\ EndOf(<<a, b>>) = b /\ Steps(<<a, b>>) = {a, b}
<1>1. /\ DOMAIN <<a>> = 1 .. 1 /\ <<a>>[1] = a
      /\ DOMAIN <<a, b>> = 1 .. 2 /\ <<a, b>>[1] = a /\ <<a, b>>[2] = b
  OBVIOUS
<1>2. 1 .. 1 = {1} /\ 1 .. 2 = {1, 2}
  OBVIOUS
<1>3. Len(<<a>>) = 1 /\ Len(<<a, b>>) = 2
  OBVIOUS
<1>4. EndOf(<<a>>) = a /\ EndOf(<<a, b>>) = b
  BY <1>1, <1>3 DEF EndOf
<1>5. Steps(<<a>>) = {a}
  BY <1>1, <1>2 DEF Steps
<1>6. Steps(<<a, b>>) = {a, b}
  BY <1>1, <1>2 DEF Steps
<1> QED BY <1>3, <1>4, <1>5, <1>6

\* What an ancestry of three directories ends in and passes through.
LEMMA ThreeAncestors ==
  ASSUME NEW a, NEW b, NEW c
  PROVE  EndOf(<<a, b, c>>) = c /\ Steps(<<a, b, c>>) = {a, b, c}
<1>1. /\ DOMAIN <<a, b, c>> = 1 .. 3 /\ <<a, b, c>>[1] = a /\ <<a, b, c>>[2] = b /\ <<a, b, c>>[3] = c
      /\ Len(<<a, b, c>>) = 3 /\ 1 .. 3 = {1, 2, 3}
  OBVIOUS
<1>2. EndOf(<<a, b, c>>) = c
  BY <1>1 DEF EndOf
<1>3. Steps(<<a, b, c>>) = {a, b, c}
  BY <1>1 DEF Steps
<1> QED BY <1>2, <1>3

\* The report on a path of one name.
LEMMA ReportOne ==
  ASSUME NEW p, NEW w, NEW a, NEW rep, rep = InspectPath(p, w, <<a>>), NEW d, d = Lookup(w, RootDir, a)
  PROVE  /\ d \in Nowhere => ~ rep.existing /\ LeafOf(rep) = RootDir /\ Identities(rep) = {RootDir}
         /\ d \notin Nowhere => /\ rep.existing /\ rep.error = "none" /\ LeafOf(rep) = d
                                /\ rep.ancestry = <<RootDir, d>> /\ Identities(rep) = {RootDir, d}
<1>1. Walk(w, <<a>>) = IF d \in Nowhere THEN <<RootDir>> ELSE <<RootDir, d>>
  BY WalkOne
<1>2. /\ rep.ancestry = Walk(w, <<a>>) /\ LeafOf(rep) = EndOf(Walk(w, <<a>>))
      /\ rep.existing = (Len(Walk(w, <<a>>)) > Len(<<a>>)) /\ rep.error = WalkError(w, <<a>>)
      /\ Identities(rep) = Steps(Walk(w, <<a>>))
  <2> DEFINE dir == EndOf(Walk(w, <<a>>))
  <2>1. dir = EndOf(Walk(w, <<a>>))
    OBVIOUS
  <2> HIDE DEF dir
  <2> QED BY <2>1, ReportFacts
<1>3. CASE d \in Nowhere
  <2>1. Walk(w, <<a>>) = <<RootDir>>
    BY <1>1, <1>3
  <2>2. Identities(rep) = {RootDir} /\ LeafOf(rep) = RootDir
    BY <1>2, <2>1, ShortAncestries, Zenon
  <2>3. ~ rep.existing
    <3>1. ~ (Len(<<RootDir>>) > Len(<<a>>))
      OBVIOUS
    <3> QED BY <1>2, <2>1, <3>1
  <2> QED BY <1>3, <2>2, <2>3
<1>4. CASE d \notin Nowhere
  <2>1. Walk(w, <<a>>) = <<RootDir, d>>
    BY <1>1, <1>4
  <2>2. Identities(rep) = {RootDir, d} /\ LeafOf(rep) = d
    <3>1. Steps(<<RootDir, d>>) = {RootDir, d} /\ EndOf(<<RootDir, d>>) = d
      BY ShortAncestries
    <3> QED BY <1>2, <2>1, <3>1
  <2>3. Len(<<RootDir, d>>) > Len(<<a>>)
    OBVIOUS
  <2>4. WalkError(w, <<a>>) = "none"
    BY <2>1, <2>3, Zenon DEF WalkError
  <2> QED BY <1>2, <1>4, <2>1, <2>2, <2>3, <2>4
<1> QED BY <1>3, <1>4

\* The report on a path of two names.
LEMMA ReportTwo ==
  ASSUME NEW p, NEW w, NEW a, NEW b, NEW rep, rep = InspectPath(p, w, <<a, b>>),
         NEW d, d = Lookup(w, RootDir, a), NEW e, e = Lookup(w, d, b)
  PROVE  /\ d \in Nowhere => ~ rep.existing /\ rep.ancestry = <<RootDir>>
         /\ d \notin Nowhere /\ e \in Nowhere =>
              /\ ~ rep.existing /\ LeafOf(rep) = d
              /\ rep.ancestry = <<RootDir, d>> /\ Identities(rep) = {RootDir, d}
         /\ d \notin Nowhere /\ e \notin Nowhere =>
              /\ rep.existing /\ rep.error = "none" /\ LeafOf(rep) = e
              /\ rep.ancestry = <<RootDir, d, e>> /\ Identities(rep) = {RootDir, d, e}
<1> DEFINE path == <<a, b>>
<1>1. Walk(w, path) = IF d \in Nowhere THEN <<RootDir>>
                      ELSE IF e \in Nowhere THEN <<RootDir, d>> ELSE <<RootDir, d, e>>
  BY WalkTwo
<1>0. Len(path) = 2 /\ rep = InspectPath(p, w, path)
  OBVIOUS
<1> HIDE DEF path
<1>2. /\ rep.ancestry = Walk(w, path) /\ LeafOf(rep) = EndOf(Walk(w, path))
      /\ rep.existing = (Len(Walk(w, path)) > Len(path)) /\ rep.error = WalkError(w, path)
      /\ Identities(rep) = Steps(Walk(w, path))
  <2> DEFINE dir == EndOf(Walk(w, path))
  <2>1. dir = EndOf(Walk(w, path))
    OBVIOUS
  <2> HIDE DEF dir
  <2> QED BY <1>0, <2>1, ReportFacts
<1>3. CASE d \in Nowhere
  <2>1. Walk(w, path) = <<RootDir>> /\ Len(<<RootDir>>) = 1
    BY <1>1, <1>3
  <2>2. ~ rep.existing /\ rep.ancestry = <<RootDir>>
    <3>1. ~ (1 > 2)
      OBVIOUS
    <3> QED BY <1>0, <1>2, <2>1, <3>1, Zenon
  <2> QED BY <1>3, <2>2
<1>4. CASE d \notin Nowhere /\ e \in Nowhere
  <2>1. Walk(w, path) = <<RootDir, d>> /\ Len(<<RootDir, d>>) = 2
    BY <1>1, <1>4
  <2>2. Identities(rep) = {RootDir, d} /\ LeafOf(rep) = d
    <3>1. Steps(<<RootDir, d>>) = {RootDir, d} /\ EndOf(<<RootDir, d>>) = d
      BY ShortAncestries
    <3> QED BY <1>2, <2>1, <3>1
  <2>3. ~ rep.existing
    <3>1. ~ (2 > 2)
      OBVIOUS
    <3> QED BY <1>0, <1>2, <2>1, <3>1, Zenon
  <2> QED BY <1>2, <1>4, <2>1, <2>2, <2>3
<1>5. CASE d \notin Nowhere /\ e \notin Nowhere
  <2>1. Walk(w, path) = <<RootDir, d, e>> /\ Len(<<RootDir, d, e>>) = 3
    BY <1>1, <1>5
  <2>2. Identities(rep) = {RootDir, d, e} /\ LeafOf(rep) = e
    <3>1. Steps(<<RootDir, d, e>>) = {RootDir, d, e} /\ EndOf(<<RootDir, d, e>>) = e
      BY ThreeAncestors
    <3> QED BY <1>2, <2>1, <3>1
  <2>3. Len(Walk(w, path)) > Len(path)
    BY <1>0, <2>1
  <2>4. WalkError(w, path) = "none"
    BY <2>3, Zenon DEF WalkError
  <2> QED BY <1>2, <1>5, <2>1, <2>2, <2>3, <2>4
<1> QED BY <1>3, <1>4, <1>5, Zenon

\* A report on which nothing is missing or unknown.
Sane(p, rep) ==
  /\ rep.error = "none" /\ rep.existing = TRUE /\ rep.fs = "cow" /\ rep.volume = "A"
  /\ rep.mount = (IF p = "macos" THEN "none" ELSE "A")
  /\ rep.read = "Supported" /\ rep.write = "Supported" /\ rep.cow \in {"Supported", "Unknown"}

\* The four reports once the directories are made: a source S and a parent D.
Fit(p, r, x, y, S, D) ==
  /\ \A role \in Roles : Sane(p, r[role])
  /\ x # y /\ S \notin {RootDir, D, "t", "g", "h"} /\ D \notin {"t", "g", "h"}
  /\ r["source"].path = <<x>> /\ LeafOf(r["source"]) = S /\ Identities(r["source"]) = {RootDir, S}
  /\ \A role \in Roles \ {"source"} :
       /\ r[role].path = <<y, Leaves[role]>> /\ LeafOf(r[role]) = Leaves[role]
       /\ Identities(r[role]) = {RootDir, D, Leaves[role]}

\* The four roots of reports that fit stand apart, in both spellings.
LEMMA FitApart ==
  ASSUME NEW p, NEW r, NEW x, NEW y, NEW S, NEW D, Fit(p, r, x, y, S, D),
         NEW i \in Roles, NEW j \in Roles, i # j
  PROVE  ~ RootsOverlap(r[i], r[j])
<1>1. /\ Leaves["target"] = "t" /\ Leaves["staging"] = "g" /\ Leaves["trash"] = "h"
      /\ \A role \in Roles \ {"source"} : Leaves[role] \in {"t", "g", "h"}
      /\ \A role, other \in Roles \ {"source"} : role # other => Leaves[role] # Leaves[other]
  BY DEF Leaves, Roles
<1>2. RootDir \notin {"t", "g", "h"}
  BY DEF RootDir
<1>3. /\ \A role \in Roles \ {"source"} : ~ PathsOverlap(<<x>>, <<y, Leaves[role]>>)
      /\ \A role \in Roles \ {"source"} : ~ PathsOverlap(<<y, Leaves[role]>>, <<x>>)
      /\ \A role, other \in Roles \ {"source"} :
           role # other => ~ PathsOverlap(<<y, Leaves[role]>>, <<y, Leaves[other]>>)
  <2>1. \A role \in Roles \ {"source"} : ~ Contains(<<x>>, <<y, Leaves[role]>>) /\ ~ Contains(<<y, Leaves[role]>>, <<x>>)
    BY OneAndTwo DEF Fit
  <2>2. \A b, d : b # d => ~ Contains(<<y, b>>, <<y, d>>)
    BY TwoAndTwo
  <2> QED BY <1>1, <2>1, <2>2, Zenon DEF PathsOverlap
<1>4. CASE i = "source"
  <2>1. j \in Roles \ {"source"}
    BY <1>4
  <2>2. ~ PathsOverlap(r[i].path, r[j].path)
    BY <1>3, <1>4, <2>1 DEF Fit
  <2>3. LeafOf(r[i]) \notin Identities(r[j]) /\ LeafOf(r[j]) \notin Identities(r[i])
    BY <1>1, <1>2, <1>4, <2>1 DEF Fit
  <2> QED BY <2>2, <2>3 DEF RootsOverlap
<1>5. CASE j = "source"
  <2>1. i \in Roles \ {"source"}
    BY <1>5
  <2>2. ~ PathsOverlap(r[i].path, r[j].path)
    BY <1>3, <1>5, <2>1 DEF Fit
  <2>3. LeafOf(r[i]) \notin Identities(r[j]) /\ LeafOf(r[j]) \notin Identities(r[i])
    BY <1>1, <1>2, <1>5, <2>1 DEF Fit
  <2> QED BY <2>2, <2>3 DEF RootsOverlap
<1>6. CASE i # "source" /\ j # "source"
  <2>1. i \in Roles \ {"source"} /\ j \in Roles \ {"source"}
    BY <1>6
  <2>2. ~ PathsOverlap(r[i].path, r[j].path)
    <3>1. r[i].path = <<y, Leaves[i]>> /\ r[j].path = <<y, Leaves[j]>>
      BY <2>1 DEF Fit
    <3>2. ~ PathsOverlap(<<y, Leaves[i]>>, <<y, Leaves[j]>>)
      BY <1>3, <2>1, Zenon
    <3> QED BY <3>1, <3>2
  <2>3. LeafOf(r[i]) \notin Identities(r[j]) /\ LeafOf(r[j]) \notin Identities(r[i])
    BY <1>1, <1>2, <2>1 DEF Fit
  <2> QED BY <2>2, <2>3 DEF RootsOverlap
<1> QED BY <1>4, <1>5, <1>6

\* Such reports have a clone planned from them.
LEMMA FitPlans ==
  ASSUME NEW p \in {"linux", "macos"}, NEW r, NEW x, NEW y, NEW S, NEW D, Fit(p, r, x, y, S, D)
  PROVE  /\ ProbeErrorCode(r) = "none" /\ SourceError(r["source"]) = "none"
         /\ CowCandidate(p, r).state # "Unsupported"
         /\ \A allow : SelectPlan(p, r, allow) = PlanFor(r, "clone", "none")
<1>0. /\ \A role \in Roles : Sane(p, r[role])
      /\ "source" \in Roles
  BY DEF Fit, Roles
<1>1. ProbeErrorCode(r) = "none"
  <2>1. \A role \in Roles : r[role].error = "none"
    BY <1>0 DEF Sane
  <2>2. \A i \in 1 .. 4 : <<"source", "target", "staging", "trash">>[i] \in Roles
    BY DEF Roles
  <2>3. ProbeError(r) = "none"
    BY <2>1, <2>2 DEF ProbeError
  <2> QED BY <2>3 DEF ProbeErrorCode
<1>2. SourceError(r["source"]) = "none"
  <2>1. r["source"].error = "none" /\ r["source"].existing = TRUE /\ r["source"].read = "Supported"
    BY <1>0 DEF Sane
  <2> QED BY <2>1 DEF SourceError
<1>3. CommonUnsupported(r) = {}
  <2>1. \A role \in Roles : r[role].existing = TRUE /\ r[role].read = "Supported" /\ r[role].write = "Supported"
    BY <1>0 DEF Sane
  <2>2. ~ \E i, j \in Roles : i # j /\ RootsOverlap(r[i], r[j])
    BY FitApart
  <2> QED BY <1>0, <2>1, <2>2 DEF CommonUnsupported
<1>4. CloneReasons(r, "Unsupported") = {}
  <2>1. \A role \in Roles : r[role].cow # "Unsupported"
    BY <1>0 DEF Sane
  <2> QED BY <2>1 DEF CloneReasons
<1>5. p = "linux" => BtrfsUnsupported(r) = {}
  <2>1. p = "linux" => \A role \in Roles : r[role].fs = "cow" /\ r[role].volume = "A" /\ r[role].mount = "A"
    BY <1>0 DEF Sane
  <2> QED BY <1>0, <2>1 DEF BtrfsUnsupported
<1>6. ApfsUnsupported(r) = {}
  <2>1. \A role \in Roles : r[role].fs = "cow" /\ r[role].volume = "A"
    BY <1>0 DEF Sane
  <2> QED BY <2>1 DEF ApfsUnsupported
<1>7. CowCandidate(p, r).state # "Unsupported"
  <2>1. (CommonUnsupported(r) \cup CloneReasons(r, "Unsupported")
           \cup (IF p = "linux" THEN BtrfsUnsupported(r) ELSE ApfsUnsupported(r))) = {}
    BY <1>3, <1>4, <1>5, <1>6
  <2> QED BY <2>1 DEF CowCandidate, Finish
<1>8. LayoutError(p, r) = "none"
  <2>1. \A role \in Roles : /\ r[role].fs = "cow" /\ r[role].volume = "A"
                            /\ r[role].mount = (IF p = "macos" THEN "none" ELSE "A")
    BY <1>0 DEF Sane
  <2> QED BY <1>0, <2>1 DEF LayoutError
<1>9. \A allow : SelectPlan(p, r, allow) = PlanFor(r, "clone", "none")
  BY <1>7, <1>8 DEF SelectPlan, ForCowClone
<1> QED BY <1>1, <1>2, <1>7, <1>9

AliasDirs == {"p", "s", "c", "w", "o", RootDir, "k", Absent}

InitialWorld(w) ==
  /\ DOMAIN w = DOMAIN Healthy \cup {"link", "onB"} /\ IsHealthy(w) /\ w.onB = {"o"}
  /\ \E alias \in AliasDirs, place \in {"w", "v"} : w.link = InitialLinks(alias, place)

\* Where the names of an initial world lead.
LEMMA InitialLookups ==
  ASSUME NEW w, InitialWorld(w)
  PROVE  /\ Lookup(w, RootDir, "s") = "s" /\ Lookup(w, RootDir, "p") = "p" /\ Lookup(w, RootDir, "c") = "c"
         /\ Lookup(w, RootDir, AliasName) \in AliasDirs
         /\ \A d : \A n \in {"t", "g", "h"} : Lookup(w, d, n) = Absent
<1>1. PICK alias \in AliasDirs, place \in {"w", "v"} : w.link = InitialLinks(alias, place)
  BY DEF InitialWorld
<1> DEFINE fixed == {<<RootDir, "s">>, <<RootDir, "p">>, <<RootDir, "c">>, <<"s", "k">>, <<"p", place>>}
           aliased == IF alias = Absent THEN {} ELSE {<<RootDir, AliasName>>}
<1>2. w.link = [e \in fixed \cup aliased |-> IF e \in aliased THEN alias ELSE IF e[2] = place THEN "w" ELSE e[2]]
  BY <1>1 DEF InitialLinks
<1>3. /\ <<RootDir, "s">> \notin aliased /\ <<RootDir, "p">> \notin aliased /\ <<RootDir, "c">> \notin aliased
      /\ AliasName = "a" /\ RootDir = "root" /\ place \in {"w", "v"}
  BY DEF AliasName, RootDir
<1>4. DOMAIN w.link = fixed \cup aliased
  BY <1>2
<1>5. Lookup(w, RootDir, "s") = "s"
  BY <1>2, <1>3 DEF Lookup
<1>6. Lookup(w, RootDir, "p") = "p"
  BY <1>2, <1>3 DEF Lookup
<1>7. Lookup(w, RootDir, "c") = "c"
  BY <1>2, <1>3 DEF Lookup
<1>8. Lookup(w, RootDir, AliasName) \in AliasDirs
  <2>1. CASE <<RootDir, AliasName>> \in DOMAIN w.link
    <3>1. <<RootDir, AliasName>> \in aliased
      BY <1>3, <1>4, <2>1
    <3>2. w.link[<<RootDir, AliasName>>] = alias
      BY <1>2, <3>1
    <3> QED BY <2>1, <3>2 DEF Lookup
  <2>2. CASE <<RootDir, AliasName>> \notin DOMAIN w.link
    BY <2>2 DEF Lookup, AliasDirs
  <2> QED BY <2>1, <2>2
<1>9. ASSUME NEW d, NEW n \in {"t", "g", "h"} PROVE Lookup(w, d, n) = Absent
  <2>1. <<d, n>> \notin fixed \cup aliased
    BY <1>3
  <2> QED BY <1>4, <2>1 DEF Lookup
<1> QED BY <1>5, <1>6, <1>7, <1>8, <1>9

\* What a healthy kernel says of a directory.
LEMMA HealthyFacts ==
  ASSUME NEW p \in {"linux", "macos"}, NEW w, IsHealthy(w), NEW path, NEW rep, rep = InspectPath(p, w, path)
  PROVE  /\ rep.fs = "cow" /\ rep.volume = VolumeOf(w, LeafOf(rep))
         /\ rep.read = "Supported" /\ rep.write = "Supported" /\ rep.cow \in {"Supported", "Unknown"}
         /\ rep.mount = IF p = "macos" THEN "none"
                        ELSE IF Len(rep.ancestry) > 1 /\ path[1] = AliasName THEN "alias"
                        ELSE VolumeOf(w, LeafOf(rep))
         /\ VolumeOf(w, LeafOf(rep)) \in {"A", "B"}
<1> DEFINE dir == EndOf(Walk(w, path))
<1>1. dir = EndOf(Walk(w, path))
  OBVIOUS
<1> HIDE DEF dir
<1>2. /\ rep.ancestry = Walk(w, path) /\ LeafOf(rep) = dir
      /\ rep.fs = TypeNameOf(p, w, dir) /\ rep.volume = VolumeIdOf(p, w, dir)
      /\ rep.mount = MountIdOf(p, w, path, Walk(w, path))
      /\ rep.read = w.read /\ rep.write = w.write /\ rep.cow = CowCloneOf(p, w, dir)
  BY <1>1, ReportFacts
<1>3. /\ w.fs = "cow" /\ w.ids = TRUE /\ w.mountIds = TRUE /\ w.read = "Supported" /\ w.write = "Supported"
      /\ w.clone = "Supported"
  BY DEF IsHealthy, Healthy
<1>4. TypeNameOf(p, w, dir) = "cow"
  BY <1>3 DEF TypeNameOf
<1>5. VolumeIdOf(p, w, dir) = VolumeOf(w, dir)
  BY <1>3, <1>4 DEF VolumeIdOf
<1>6. VolumeOf(w, dir) \in {"A", "B"}
  BY DEF VolumeOf
<1>7. CowCloneOf(p, w, dir) \in {"Supported", "Unknown"}
  BY <1>3, <1>4, <1>5, <1>6 DEF CowCloneOf
<1>8. MountIdOf(p, w, path, Walk(w, path)) =
        IF p = "macos" THEN "none"
        ELSE IF Len(Walk(w, path)) > 1 /\ path[1] = AliasName THEN "alias" ELSE VolumeOf(w, dir)
  BY <1>1, <1>3 DEF MountIdOf
<1> QED BY <1>2, <1>3, <1>4, <1>5, <1>6, <1>7, <1>8

\* The source S and the parent D of an accepted request, before anything is made.
Ready(p, w, x, y, S, D) ==
  /\ IsHealthy(w) /\ DOMAIN w = DOMAIN Healthy \cup {"link", "onB"}
  /\ S = Lookup(w, RootDir, x) /\ D = Lookup(w, RootDir, y) /\ Lookup(w, RootDir, "c") = "c"
  /\ S \notin {RootDir, "c", D, "t", "g", "h"} \cup Nowhere /\ D \notin {"c", "t", "g", "h"} \cup Nowhere
  /\ {S, D, "t", "g", "h"} \cap w.onB = {}
  /\ p = "linux" => AliasName \notin {x, y}
  /\ x \notin {"t", "g", "h"} /\ y \notin {"t", "g", "h"}
  /\ \A n \in {"t", "g", "h"} : Lookup(w, D, n) = Absent

\* What a preview that is not refused went through.
LEMMA NotRefused ==
  ASSUME NEW p, NEW w, NEW req, PreviewOf(p, w, req).kind # "refused",
         NEW r, r = AllReports(p, w, req), NEW c, c = InspectPath(p, w, ControlPath),
         NEW selected, selected = SelectPlan(p, r, req.allow)
  PROVE  /\ SpellingError(req) = "none" /\ SourceError(r["source"]) = "none"
         /\ PreliminaryError(p, w, req, r, c) = "none" /\ ~ PathsOverlapWithIdentity(r["source"], c)
         /\ selected.mode # "none" /\ PreviewOf(p, w, req) = Answer(selected.mode, "none")
<1>1. \A code : Answer("refused", code).kind = "refused"
  BY DEF Answer
<1> DEFINE early == PreliminaryError(p, w, req, r, c)
           over == PathsOverlapWithIdentity(r["source"], c)
           fault == SourceError(r["source"])
           word == SpellingError(req)
<1>2. PreviewOf(p, w, req) =
        CASE word # "none" -> Answer("refused", word)
          [] fault # "none" -> Answer("refused", fault)
          [] early # "none" -> Answer("refused", early)
          [] over -> Answer("refused", "TargetLayout")
          [] OTHER -> FromPlan(selected)
  BY DEF PreviewOf
<1> HIDE DEF early, over, fault, word
<1>3. word = "none" /\ fault = "none" /\ early = "none" /\ ~ over
  BY <1>1, <1>2, Zenon
<1>4. PreviewOf(p, w, req) = FromPlan(selected)
  BY <1>2, <1>3, Zenon
<1>5. selected.mode # "none" /\ FromPlan(selected) = Answer(selected.mode, "none")
  BY <1>1, <1>4 DEF FromPlan
<1> QED BY <1>3, <1>4, <1>5 DEF early, over, fault, word

\* A plan before the directories exist is a clone of reports that lie on one volume.
LEMMA FirstPlan ==
  ASSUME NEW p \in {"linux", "macos"}, NEW r, NEW allow, ~ r["staging"].existing,
         SelectPlan(p, r, allow).mode # "none"
  PROVE  /\ SelectPlan(p, r, allow) = PlanFor(r, "clone", "none")
         /\ \A role \in Roles : r[role].volume = r["source"].volume
         /\ p = "linux" => \A role \in Roles : r[role].mount = r["source"].mount
         /\ \A i, j \in Roles : i # j => ~ RootsOverlap(r[i], r[j])
<1>1. \A e : Refused(e).mode = "none"
  BY DEF Refused
<1>2. FullCopyCandidate(p, r).state # "Supported"
  <2>1. "not_yet_created" \in CommonUnknown(r)
    BY DEF CommonUnknown
  <2> QED BY <2>1 DEF FullCopyCandidate, Finish
<1>3. ForFullCopyAfterPreflight(p, r).mode = "none"
  <2> DEFINE cow == CowCandidate(p, r) copy == FullCopyCandidate(p, r) layout == LayoutError(p, r)
  <2>1. ForFullCopyAfterPreflight(p, r) =
          CASE layout # "none" -> Refused(layout)
            [] copy.state # "Supported" -> Refused("FullCopyUnavailable")
            [] cow.unsupported # {"clone_capability"} \/ cow.unknown # {} ->
                 Refused("FallbackNotEligible")
            [] OTHER -> PlanFor(r, "copy", "CloneUnsupportedAtPreflight")
    BY DEF ForFullCopyAfterPreflight
  <2>2. copy.state # "Supported"
    BY <1>2
  <2> HIDE DEF cow, copy, layout
  <2> QED BY <1>1, <2>1, <2>2, Zenon
<1>4. SelectPlan(p, r, allow) = ForCowClone(p, r)
  BY <1>3 DEF SelectPlan
<1>5. /\ LayoutError(p, r) = "none" /\ CowCandidate(p, r).state # "Unsupported"
      /\ SelectPlan(p, r, allow) = PlanFor(r, "clone", "none")
  <2>1. ForCowClone(p, r).mode # "none"
    BY <1>4
  <2>2. LayoutError(p, r) = "none"
    BY <1>1, <2>1, Zenon DEF ForCowClone
  <2>3. CowCandidate(p, r).state # "Unsupported"
    BY <1>1, <2>1, <2>2, Zenon DEF ForCowClone
  <2> QED BY <1>4, <2>2, <2>3, Zenon DEF ForCowClone
<1>6. \A role \in Roles : r[role].volume = r["source"].volume
  BY <1>5 DEF LayoutError
<1>7. p = "linux" => \A role \in Roles : r[role].mount = r["source"].mount
  BY <1>5 DEF LayoutError
<1>8. CommonUnsupported(r) = {}
  BY <1>5 DEF CowCandidate, Finish
<1>9. \A i, j \in Roles : i # j => ~ RootsOverlap(r[i], r[j])
  BY <1>8 DEF CommonUnsupported
<1> QED BY <1>5, <1>6, <1>7, <1>9

\* Where an accepted request of a new world stands, and the clone planned for it.
LEMMA Accepted ==
  ASSUME NEW p \in {"linux", "macos"}, NEW w, InitialWorld(w), NEW req \in Requests,
         PreviewOf(p, w, req).kind # "refused"
  PROVE  /\ PreviewOf(p, w, req) = Answer("clone", "none")
         /\ SelectPlan(p, AllReports(p, w, req), req.allow).volume = "A"
         /\ \E x, y, S, D : Spelled(req, x, y) /\ Ready(p, w, x, y, S, D)
<1> DEFINE r == AllReports(p, w, req)
           c == InspectPath(p, w, ControlPath)
           selected == SelectPlan(p, r, req.allow)
<1>1. /\ SpellingError(req) = "none" /\ SourceError(r["source"]) = "none"
      /\ PreliminaryError(p, w, req, r, c) = "none" /\ ~ PathsOverlapWithIdentity(r["source"], c)
      /\ selected.mode # "none" /\ PreviewOf(p, w, req) = Answer(selected.mode, "none")
  BY NotRefused
<1>2. PICK x, y : Spelled(req, x, y)
  BY <1>1, SpelledRequest
<1> DEFINE S == Lookup(w, RootDir, x)
           D == Lookup(w, RootDir, y)
<1>3. /\ r["source"] = InspectPath(p, w, <<x>>)
      /\ r["target"] = InspectPath(p, w, <<y, "t">>) /\ r["staging"] = InspectPath(p, w, <<y, "g">>)
      /\ c = InspectPath(p, w, <<"c">>)
  <2>1. "source" \in Roles /\ "target" \in Roles \ {"source"} /\ "staging" \in Roles \ {"source"}
    BY DEF Roles
  <2>2. Leaves["target"] = "t" /\ Leaves["staging"] = "g"
    BY DEF Leaves
  <2> QED BY <1>2, <2>1, <2>2 DEF AllReports, Spelled, ControlPath
<1>4. /\ Lookup(w, RootDir, "s") = "s" /\ Lookup(w, RootDir, "p") = "p" /\ Lookup(w, RootDir, "c") = "c"
      /\ Lookup(w, RootDir, AliasName) \in AliasDirs
      /\ \A d : \A n \in {"t", "g", "h"} : Lookup(w, d, n) = Absent
  BY InitialLookups
<1>5. IsHealthy(w) /\ DOMAIN w = DOMAIN Healthy \cup {"link", "onB"} /\ w.onB = {"o"}
  BY DEF InitialWorld
<1>6. Absent \in Nowhere /\ Nowhere = {"absent", "file"} /\ RootDir = "root" /\ AliasName = "a"
  BY DEF Nowhere, Absent, Occupied, RootDir, AliasName
<1>7. /\ x \in {"s", AliasName} /\ y \in {"p", "s", AliasName} /\ x # y
      /\ req.target = <<y, "t">> /\ Len(<<y, "t">>) = 2
  BY <1>2 DEF Spelled
<1>8. Lookup(w, D, "t") \in Nowhere /\ Lookup(w, D, "g") \in Nowhere
  BY <1>4, <1>6
<1> HIDE DEF r, c, selected, S, D
<1>9. S = Lookup(w, RootDir, x) /\ D = Lookup(w, RootDir, y)
  BY DEF S, D
<1>10. S \notin Nowhere /\ r["source"].existing /\ LeafOf(r["source"]) = S /\ Identities(r["source"]) = {RootDir, S}
  <2>1. r["source"].existing
    BY <1>1, Zenon DEF SourceError
  <2>2. S \notin Nowhere
    BY <1>3, <1>9, <2>1, ReportOne
  <2> QED BY <1>3, <1>9, <2>1, <2>2, ReportOne
<1>11. /\ MissingTargetError(req, r["target"]) = "none"
       /\ ~ TargetEntersExistingRoot(r["target"], c)
  <2> DEFINE a == ProbeErrorCode(r) # "none" b == SourceError(r["source"]) # "none"
             d == ActiveIdentityOverlap(p, w, r["target"])
             e == MissingTargetError(req, r["target"]) f == TargetEntersExistingRoot(r["target"], c)
  <2>1. PreliminaryError(p, w, req, r, c) =
          CASE a -> ProbeErrorCode(r) [] b -> SourceError(r["source"]) [] d -> "TargetConflict"
            [] e # "none" -> e [] f -> "TargetLayout" [] OTHER -> "none"
    BY DEF PreliminaryError
  <2>2. (a => ProbeErrorCode(r) # "none") /\ (b => SourceError(r["source"]) # "none")
    OBVIOUS
  <2> HIDE DEF a, b, d, e, f
  <2>3. ~ a /\ ~ b /\ ~ d
    BY <1>1, <2>1, <2>2, Zenon
  <2>4. e = "none" /\ ~ f
    BY <1>1, <2>1, <2>3, Zenon
  <2> QED BY <2>4 DEF e, f
<1>12. /\ D \notin Nowhere /\ LeafOf(r["target"]) = D /\ Identities(r["target"]) = {RootDir, D}
       /\ ~ r["target"].existing /\ ~ r["staging"].existing
  <2>1. Len(r["target"].ancestry) = 2
    BY <1>7, <1>11, Zenon DEF MissingTargetError
  <2>2. D \notin Nowhere
    <3>1. D \in Nowhere => r["target"].ancestry = <<RootDir>>
      BY <1>3, <1>9, ReportTwo
    <3>2. Len(<<RootDir>>) # 2
      OBVIOUS
    <3> QED BY <2>1, <3>1, <3>2
  <2> DEFINE et == Lookup(w, D, "t") eg == Lookup(w, D, "g")
  <2>3. et = Lookup(w, D, "t") /\ eg = Lookup(w, D, "g") /\ et \in Nowhere /\ eg \in Nowhere
    BY <1>8
  <2> HIDE DEF et, eg
  <2>4. LeafOf(r["target"]) = D /\ Identities(r["target"]) = {RootDir, D} /\ ~ r["target"].existing
    BY <1>3, <1>9, <2>2, <2>3, ReportTwo
  <2>5. ~ r["staging"].existing
    BY <1>3, <1>9, <2>2, <2>3, ReportTwo
  <2> QED BY <2>2, <2>4, <2>5
<1>13. LeafOf(c) = "c" /\ Identities(c) = {RootDir, "c"}
  <2> DEFINE k == Lookup(w, RootDir, "c")
  <2>1. k = Lookup(w, RootDir, "c") /\ k = "c" /\ k \notin Nowhere
    BY <1>4, <1>6
  <2> HIDE DEF k
  <2>2. LeafOf(c) = k /\ Identities(c) = {RootDir, k}
    BY <1>3, <2>1, ReportOne
  <2> QED BY <2>1, <2>2
<1>14. /\ selected = PlanFor(r, "clone", "none")
       /\ r["target"].volume = r["source"].volume
       /\ p = "linux" => r["target"].mount = r["source"].mount
       /\ ~ RootsOverlap(r["source"], r["target"])
  <2>1. /\ selected = PlanFor(r, "clone", "none")
        /\ \A role \in Roles : r[role].volume = r["source"].volume
        /\ p = "linux" => \A role \in Roles : r[role].mount = r["source"].mount
        /\ \A i, j \in Roles : i # j => ~ RootsOverlap(r[i], r[j])
    BY <1>1, <1>12, FirstPlan DEF selected
  <2> QED BY <2>1 DEF Roles
<1>15. S # D
  BY <1>10, <1>12, <1>14 DEF RootsOverlap
<1>16. S \notin {RootDir, "c"} /\ D # "c"
  <2>1. LeafOf(r["source"]) \notin Identities(c) /\ LeafOf(c) \notin Identities(r["target"])
    BY <1>1, <1>11 DEF PathsOverlapWithIdentity, TargetEntersExistingRoot
  <2> QED BY <1>10, <1>12, <1>13, <2>1
<1>17. S \notin {"t", "g", "h"} /\ D \notin {"t", "g", "h"}
  BY <1>4, <1>6, <1>7, <1>9 DEF AliasDirs, Absent
<1>18. /\ r["source"].volume = VolumeOf(w, S) /\ r["target"].volume = VolumeOf(w, D)
       /\ VolumeOf(w, S) \in {"A", "B"} /\ VolumeOf(w, D) \in {"A", "B"}
  BY <1>3, <1>5, <1>10, <1>12, HealthyFacts
<1>19. S \notin w.onB /\ D \notin w.onB /\ VolumeOf(w, S) = "A"
  <2>1. S = "s" \/ D \in {"p", "s"}
    BY <1>4, <1>7, <1>9
  <2> QED BY <1>5, <1>14, <1>18, <2>1 DEF VolumeOf
<1>20. p = "linux" => AliasName \notin {x, y}
  <2> SUFFICES ASSUME p = "linux" PROVE AliasName \notin {x, y}
    OBVIOUS
  <2>1. <<x>>[1] = x /\ <<y, "t">>[1] = y
    OBVIOUS
  <2>2. /\ r["source"].ancestry = <<RootDir, S>> /\ r["target"].ancestry = <<RootDir, D>>
    <3> DEFINE et == Lookup(w, D, "t")
    <3>1. et = Lookup(w, D, "t") /\ et \in Nowhere
      BY <1>8
    <3> HIDE DEF et
    <3>2. r["source"].ancestry = <<RootDir, S>>
      BY <1>3, <1>9, <1>10, ReportOne
    <3>3. r["target"].ancestry = <<RootDir, D>>
      BY <1>3, <1>9, <1>12, <3>1, ReportTwo
    <3> QED BY <3>2, <3>3
  <2>3. Len(<<RootDir, S>>) > 1 /\ Len(<<RootDir, D>>) > 1
    OBVIOUS
  <2> DEFINE px == <<x>> py == <<y, "t">>
  <2>4. px[1] = x /\ py[1] = y /\ r["source"] = InspectPath(p, w, px) /\ r["target"] = InspectPath(p, w, py)
    BY <1>3, <2>1
  <2>5. r["source"].mount = IF px[1] = AliasName THEN "alias" ELSE VolumeOf(w, S)
    <3> DEFINE rep == r["source"]
    <3>1. rep = InspectPath(p, w, px) /\ LeafOf(rep) = S
      BY <1>10, <2>4
    <3> HIDE DEF px, rep
    <3>2. rep.mount = IF p = "macos" THEN "none"
                     ELSE IF Len(rep.ancestry) > 1 /\ px[1] = AliasName THEN "alias" ELSE VolumeOf(w, S)
      BY <1>5, <3>1, HealthyFacts
    <3>3. Len(rep.ancestry) > 1
      BY <2>2, <2>3, Zenon DEF rep
    <3>4. rep.mount = IF px[1] = AliasName THEN "alias" ELSE VolumeOf(w, S)
      BY <3>2, <3>3
    <3> QED BY <3>4 DEF rep
  <2>6. r["target"].mount = IF py[1] = AliasName THEN "alias" ELSE VolumeOf(w, D)
    <3> DEFINE rep == r["target"]
    <3>1. rep = InspectPath(p, w, py) /\ LeafOf(rep) = D
      BY <1>12, <2>4
    <3> HIDE DEF py, rep
    <3>2. rep.mount = IF p = "macos" THEN "none"
                     ELSE IF Len(rep.ancestry) > 1 /\ py[1] = AliasName THEN "alias" ELSE VolumeOf(w, D)
      BY <1>5, <3>1, HealthyFacts
    <3>3. Len(rep.ancestry) > 1
      BY <2>2, <2>3, Zenon DEF rep
    <3>4. rep.mount = IF py[1] = AliasName THEN "alias" ELSE VolumeOf(w, D)
      BY <3>2, <3>3
    <3> QED BY <3>4 DEF rep
  <2> HIDE DEF px, py
  <2>7. "alias" \notin {"A", "B"}
    OBVIOUS
  <2> QED BY <1>7, <1>14, <1>18, <2>4, <2>5, <2>6, <2>7
<1>21. Ready(p, w, x, y, S, D)
  <2>1. {S, D, "t", "g", "h"} \cap w.onB = {}
    BY <1>5, <1>19
  <2>2. x \notin {"t", "g", "h"} /\ y \notin {"t", "g", "h"}
    BY <1>6, <1>7
  <2> QED BY <1>4, <1>5, <1>9, <1>10, <1>12, <1>15, <1>16, <1>17, <1>20, <2>1, <2>2 DEF Ready
<1>22. selected.mode = "clone" /\ selected.volume = "A"
  BY <1>14, <1>18, <1>19 DEF PlanFor
<1> QED BY <1>1, <1>2, <1>21, <1>22 DEF selected, r

\* The parent of an accepted request passes the checks of prepare_workspace.
LEMMA ParentOpens ==
  ASSUME NEW p \in {"linux", "macos"}, NEW w, NEW req, NEW x, NEW y, NEW S, NEW D,
         Spelled(req, x, y), Ready(p, w, x, y, S, D),
         NEW parent, parent = InspectPath(p, w, ParentOf(req.target))
  PROVE  /\ ParentError(p, w, req) = "none" /\ LeafOf(parent) = D
         /\ parent.volume = "A" /\ parent.mount = IF p = "macos" THEN "none" ELSE "A"
<1> DEFINE theControl == InspectPath(p, w, ControlPath)
<1>1. parent = InspectPath(p, w, <<y>>) /\ theControl = InspectPath(p, w, <<"c">>)
  BY DEF Spelled, ControlPath
<1>2. /\ D = Lookup(w, RootDir, y) /\ D \notin Nowhere /\ D # "c" /\ D \notin w.onB /\ IsHealthy(w)
      /\ Lookup(w, RootDir, "c") = "c" /\ (p = "linux" => y # AliasName)
      /\ \A n \in {"t", "g", "h"} : Lookup(w, D, n) = Absent
  BY DEF Ready
<1>3. /\ parent.existing /\ LeafOf(parent) = D /\ parent.ancestry = <<RootDir, D>>
      /\ Identities(parent) = {RootDir, D}
  BY <1>1, <1>2, ReportOne
<1>4. LeafOf(theControl) = "c"
  <2> DEFINE k == Lookup(w, RootDir, "c")
  <2>1. k = Lookup(w, RootDir, "c") /\ k = "c" /\ k \notin Nowhere
    BY <1>2 DEF Nowhere, Absent, Occupied
  <2> HIDE DEF k, theControl
  <2> QED BY <1>1, <2>1, ReportOne
<1>5. /\ parent.fs = "cow" /\ parent.volume = "A" /\ parent.write = "Supported"
      /\ parent.mount = IF p = "macos" THEN "none" ELSE "A"
  <2> DEFINE path == <<y>>
  <2>1. path[1] = y /\ parent = InspectPath(p, w, path)
    BY <1>1
  <2>2. Len(parent.ancestry) > 1
    <3>1. Len(<<RootDir, D>>) > 1
      OBVIOUS
    <3> QED BY <1>3, <3>1
  <2> HIDE DEF path
  <2>3. /\ parent.fs = "cow" /\ parent.volume = VolumeOf(w, D) /\ parent.write = "Supported"
        /\ parent.mount = IF p = "macos" THEN "none"
                          ELSE IF Len(parent.ancestry) > 1 /\ path[1] = AliasName THEN "alias"
                          ELSE VolumeOf(w, D)
    BY <1>2, <1>3, <2>1, HealthyFacts
  <2>4. VolumeOf(w, D) = "A"
    BY <1>2 DEF VolumeOf
  <2> QED BY <1>2, <2>1, <2>2, <2>3, <2>4
<1> HIDE DEF theControl
<1>6. ParentError(p, w, req) = "none"
  <2>1. "c" # RootDir /\ LeafOf(theControl) \notin Identities(parent)
    BY <1>2, <1>3, <1>4 DEF RootDir
  <2>2. \A n \in {"t", "g", "h"} : Lookup(w, LeafOf(parent), n) = Absent
    BY <1>2, <1>3
  <2>3. p = "linux" => parent.mount = "A"
    BY <1>5
  <2> DEFINE a == ~ parent.existing b == LeafOf(theControl) \in Identities(parent)
             d == parent.fs # "cow" \/ parent.volume = "unknown"
             e == p = "linux" /\ (parent.mount = "unknown" \/ parent.write # "Supported")
             f == \E name \in {"t", "g", "h"} : Lookup(w, LeafOf(parent), name) # Absent
             g == parent.write = "Unsupported"
  <2>4. ParentError(p, w, req) =
          CASE a -> "TargetLayout" [] b -> "TargetLayout" [] d -> "CapabilityUnavailable"
            [] e -> "CapabilityUnavailable" [] f -> "TargetExists" [] g -> "Filesystem" [] OTHER -> "none"
    BY DEF ParentError, theControl
  <2>5. ~ a /\ ~ b /\ ~ d /\ ~ e /\ ~ f /\ ~ g
    BY <1>3, <1>5, <2>1, <2>2, <2>3
  <2> HIDE DEF a, b, d, e, f, g
  <2> QED BY <2>4, <2>5, Zenon
<1> QED BY <1>3, <1>5, <1>6

\* What making the directories changes of the world.
LEMMA MadeLookups ==
  ASSUME NEW w, DOMAIN w = DOMAIN Healthy \cup {"link", "onB"}, IsHealthy(w), NEW D, D \notin w.onB,
         NEW w1, w1 = MakeIn(w, D)
  PROVE  /\ IsHealthy(w1) /\ w1.onB = w.onB
         /\ \A n \in {"t", "g", "h"} : Lookup(w1, D, n) = n
         /\ \A d : \A n : d # D \/ n \notin {"t", "g", "h"} => Lookup(w1, d, n) = Lookup(w, d, n)
<1> DEFINE names == {<<D, name>> : name \in {"t", "g", "h"}}
           links == [edge \in DOMAIN w.link \cup names |-> IF edge \in names THEN edge[2] ELSE w.link[edge]]
<1>1. w1 = [w EXCEPT !.link = links, !.onB = w.onB]
  BY DEF MakeIn
<1>2. "link" \in DOMAIN w /\ "onB" \in DOMAIN w /\ \A f \in DOMAIN Healthy : f \in DOMAIN w /\ f # "link" /\ f # "onB"
  BY DEF Healthy
<1> HIDE DEF links, names
<1>3. w1.link = links /\ w1.onB = w.onB /\ \A f \in DOMAIN Healthy : w1[f] = w[f]
  BY <1>1, <1>2
<1>4. IsHealthy(w1)
  BY <1>3 DEF IsHealthy
<1>5. ASSUME NEW n \in {"t", "g", "h"} PROVE Lookup(w1, D, n) = n
  <2>1. <<D, n>> \in names /\ <<D, n>>[2] = n
    BY DEF names
  <2>2. <<D, n>> \in DOMAIN links /\ links[<<D, n>>] = n
    BY <2>1 DEF links
  <2> QED BY <1>3, <2>2 DEF Lookup
<1>6. ASSUME NEW d, NEW n, d # D \/ n \notin {"t", "g", "h"} PROVE Lookup(w1, d, n) = Lookup(w, d, n)
  <2>1. <<d, n>> \notin names
    BY <1>6 DEF names
  <2>2. <<d, n>> \in DOMAIN links <=> <<d, n>> \in DOMAIN w.link
    BY <2>1 DEF links
  <2>3. <<d, n>> \in DOMAIN w.link => links[<<d, n>>] = w.link[<<d, n>>]
    BY <2>1 DEF links
  <2> QED BY <1>3, <2>2, <2>3 DEF Lookup
<1> QED BY <1>3, <1>4, <1>5, <1>6

\* Every probe of a world whose directories are made finds them where they are expected.
Good(p, w, req) ==
  LET r == AllReports(p, w, req) IN
  /\ \E x, y, S, D : Fit(p, r, x, y, S, D)
  /\ ~ ControlOverlap(p, w, r)

\* A directory on the first volume of a healthy world is reported without a flaw.
LEMMA HealthyReport ==
  ASSUME NEW p \in {"linux", "macos"}, NEW w, IsHealthy(w), NEW path, NEW rep, rep = InspectPath(p, w, path),
         rep.existing, rep.error = "none", LeafOf(rep) \notin w.onB, p = "linux" => path[1] # AliasName
  PROVE  Sane(p, rep)
<1>1. VolumeOf(w, LeafOf(rep)) = "A"
  BY DEF VolumeOf
<1>2. /\ rep.fs = "cow" /\ rep.volume = "A" /\ rep.read = "Supported" /\ rep.write = "Supported"
      /\ rep.cow \in {"Supported", "Unknown"}
      /\ rep.mount = IF p = "macos" THEN "none"
                     ELSE IF Len(rep.ancestry) > 1 /\ path[1] = AliasName THEN "alias" ELSE "A"
  BY <1>1, HealthyFacts
<1>3. rep.mount = IF p = "macos" THEN "none" ELSE "A"
  BY <1>2
<1>4. rep.existing = TRUE
  BY DEF InspectPath
<1> QED BY <1>2, <1>3, <1>4 DEF Sane

\* The world is good for a plan once the three directories are made in it.
LEMMA MadeGood ==
  ASSUME NEW p \in {"linux", "macos"}, NEW w, NEW req, NEW x, NEW y, NEW S, NEW D,
         Spelled(req, x, y), Ready(p, w, x, y, S, D), NEW w1, w1 = MakeIn(w, D)
  PROVE  Good(p, w1, req)
<1> DEFINE r == AllReports(p, w1, req)
           c == InspectPath(p, w1, ControlPath)
<1>1. /\ S = Lookup(w, RootDir, x) /\ D = Lookup(w, RootDir, y) /\ Lookup(w, RootDir, "c") = "c"
      /\ S \notin {RootDir, "c", D, "t", "g", "h"} \cup Nowhere /\ D \notin {"c", "t", "g", "h"} \cup Nowhere
      /\ {S, D, "t", "g", "h"} \cap w.onB = {}
      /\ x \notin {"t", "g", "h"} /\ y \notin {"t", "g", "h"}
      /\ (p = "linux" => AliasName \notin {x, y}) /\ x # y
  BY DEF Ready, Spelled
<1>2. /\ IsHealthy(w1) /\ w1.onB = w.onB
      /\ \A n \in {"t", "g", "h"} : Lookup(w1, D, n) = n
      /\ \A d : \A n : d # D \/ n \notin {"t", "g", "h"} => Lookup(w1, d, n) = Lookup(w, d, n)
  BY MadeLookups, <1>1 DEF Ready
<1>3. Lookup(w1, RootDir, x) = S /\ Lookup(w1, RootDir, y) = D /\ Lookup(w1, RootDir, "c") = "c"
  BY <1>1, <1>2
<1>4. /\ Nowhere = {"absent", "file"} /\ RootDir = "root"
      /\ Leaves["target"] = "t" /\ Leaves["staging"] = "g" /\ Leaves["trash"] = "h"
      /\ \A role \in Roles \ {"source"} : Leaves[role] \in {"t", "g", "h"}
  BY DEF Nowhere, Absent, Occupied, RootDir, Leaves, Roles
<1>5. r["source"] = InspectPath(p, w1, <<x>>)
  BY DEF AllReports, Spelled, Roles
<1>6. \A role \in Roles \ {"source"} : r[role] = InspectPath(p, w1, <<y, Leaves[role]>>)
  BY DEF AllReports, Spelled
<1> HIDE DEF r, c
<1>7. /\ r["source"].existing /\ r["source"].error = "none" /\ LeafOf(r["source"]) = S
      /\ Identities(r["source"]) = {RootDir, S} /\ r["source"].path = <<x>>
  <2>1. r["source"].path = <<x>>
    BY <1>5 DEF InspectPath
  <2> QED BY <1>1, <1>3, <1>5, <2>1, ReportOne
<1>8. ASSUME NEW role \in Roles \ {"source"}
      PROVE  /\ r[role].existing /\ r[role].error = "none" /\ LeafOf(r[role]) = Leaves[role]
             /\ Identities(r[role]) = {RootDir, D, Leaves[role]} /\ r[role].path = <<y, Leaves[role]>>
  <2> DEFINE n == Leaves[role] rep == r[role]
  <2>1. n = Lookup(w1, D, n) /\ n \notin Nowhere /\ rep = InspectPath(p, w1, <<y, n>>)
    BY <1>2, <1>4, <1>6
  <2> HIDE DEF n, rep
  <2>2. rep.path = <<y, n>>
    BY <2>1 DEF InspectPath
  <2>3. /\ rep.existing /\ rep.error = "none" /\ LeafOf(rep) = n /\ Identities(rep) = {RootDir, D, n}
    BY <1>1, <1>3, <2>1, ReportTwo
  <2> QED BY <2>2, <2>3 DEF n, rep
<1>9. Sane(p, r["source"])
  <2> DEFINE path == <<x>>
  <2>1. path[1] = x /\ r["source"] = InspectPath(p, w1, path)
    BY <1>5
  <2> HIDE DEF path
  <2> QED BY <1>1, <1>2, <1>7, <2>1, HealthyReport
<1>10. ASSUME NEW role \in Roles \ {"source"} PROVE Sane(p, r[role])
  <2> DEFINE path == <<y, Leaves[role]>>
  <2>1. path[1] = y /\ r[role] = InspectPath(p, w1, path)
    BY <1>6
  <2>2. Leaves[role] \notin w1.onB
    BY <1>1, <1>2, <1>4
  <2> HIDE DEF path
  <2> QED BY <1>1, <1>2, <1>8, <2>1, <2>2, HealthyReport
<1>11. Fit(p, r, x, y, S, D)
  BY <1>1, <1>7, <1>8, <1>9, <1>10 DEF Fit
<1>12. LeafOf(c) = "c" /\ Identities(c) = {RootDir, "c"} /\ c.path = <<"c">>
  <2> DEFINE k == Lookup(w1, RootDir, "c")
  <2>1. k = Lookup(w1, RootDir, "c") /\ k = "c" /\ k \notin Nowhere
    BY <1>3, <1>4
  <2>2. c = InspectPath(p, w1, <<"c">>)
    BY DEF c, ControlPath
  <2> HIDE DEF k
  <2>3. LeafOf(c) = k /\ Identities(c) = {RootDir, k}
    BY <2>1, <2>2, ReportOne
  <2>4. c.path = <<"c">>
    BY <2>2 DEF InspectPath
  <2> QED BY <2>1, <2>3, <2>4
<1>13. ~ PathsOverlap(<<x>>, <<"c">>)
  <2>1. x # "c" /\ Len(<<x>>) = 1 /\ Len(<<"c">>) = 1 /\ <<x>>[1] = x /\ <<"c">>[1] = "c" /\ <<x>> # <<"c">>
    BY DEF Spelled, AliasName
  <2>2. SubSeq(<<x>>, 1, 1) = <<x>> /\ SubSeq(<<"c">>, 1, 1) = <<"c">>
    BY <2>1, Prefixes
  <2> QED BY <2>1, <2>2 DEF PathsOverlap, Contains
<1>14. ~ ControlOverlap(p, w1, r)
  <2>1. ~ PathsOverlapWithIdentity(r["source"], c)
    BY <1>1, <1>4, <1>7, <1>12, <1>13 DEF PathsOverlapWithIdentity
  <2>2. Identities(r["target"]) = {RootDir, D, "t"}
    BY <1>4, <1>8 DEF Roles
  <2>3. ~ TargetEntersExistingRoot(r["target"], c)
    BY <1>1, <1>4, <1>12, <2>2 DEF TargetEntersExistingRoot
  <2> QED BY <2>1, <2>3 DEF ControlOverlap, c
<1> QED BY <1>11, <1>14 DEF Good, r

\* A plan is made from the prepared directories of such a world, and its executor binds them.
LEMMA GoodPlans ==
  ASSUME NEW p \in {"linux", "macos"}, NEW w, NEW req, Good(p, w, req), NEW r, r = AllReports(p, w, req)
  PROVE  /\ SelectPlan(p, r, req.allow) = PlanFor(r, "clone", "none")
         /\ (reserved = "A" /\ prepared = [target |-> "t", staging |-> "g", trash |-> "h", volume |-> "A",
                                           mount |-> IF p = "macos" THEN "none" ELSE "A"])
              => PlanError(p, w, req, r) = "none"
         /\ ~ PlanIsStale(p, r, PlanFor(r, "clone", "none"))
         /\ Binds(p, w, req, r)
<1>1. PICK x, y, S, D : Fit(p, r, x, y, S, D)
  BY DEF Good
<1>2. /\ ProbeErrorCode(r) = "none" /\ SourceError(r["source"]) = "none"
      /\ CowCandidate(p, r).state # "Unsupported"
      /\ SelectPlan(p, r, req.allow) = PlanFor(r, "clone", "none")
  BY <1>1, FitPlans
<1>3. /\ \A role \in Roles : r[role] = InspectPath(p, w, RolePath(req, role))
      /\ \A role \in Roles : r[role].existing /\ Sane(p, r[role])
      /\ \A role \in Roles \ {"source"} : LeafOf(r[role]) = Leaves[role]
  BY <1>1 DEF AllReports, Fit, Sane
<1>4. Binds(p, w, req, r)
  BY <1>3 DEF Binds
<1>5. ~ PlanIsStale(p, r, PlanFor(r, "clone", "none"))
  <2> DEFINE q == PlanFor(r, "clone", "none")
  <2>1. q.mode = "clone" /\ q.reports = r
    BY DEF PlanFor
  <2> HIDE DEF q
  <2>2. Executable(p, r, "clone")
    BY <1>2 DEF Executable
  <2>3. EvidenceDigest(p, r) = EvidenceDigest(p, q.reports) /\ Executable(p, r, q.mode)
    BY <2>1, <2>2
  <2>4. ~ PlanIsStale(p, r, q)
    BY <2>3 DEF PlanIsStale
  <2> QED BY <2>4 DEF q
<1>6. ASSUME reserved = "A",
             prepared = [target |-> "t", staging |-> "g", trash |-> "h", volume |-> "A",
                         mount |-> IF p = "macos" THEN "none" ELSE "A"]
      PROVE  PlanError(p, w, req, r) = "none"
  <2>1. \A role \in Roles \ {"source"} : prepared[role] = Leaves[role]
    BY <1>6 DEF Leaves, Roles
  <2>2. PreparedError(p, w, req, r) = "none"
    <3>1. ASSUME NEW role \in Roles \ {"source"}
          PROVE  LET now == InspectPath(p, w, RolePath(req, role)) IN
                 /\ now.existing /\ LeafOf(now) = prepared[role]
                 /\ now.volume = prepared.volume /\ now.mount = prepared.mount
      BY <1>3, <1>6, <2>1 DEF Sane
    <3>2. r["target"].existing /\ LeafOf(r["target"]) = prepared.target
      BY <1>3, <1>6, <2>1 DEF Roles, Leaves
    <3> QED BY <3>1, <3>2 DEF PreparedError
  <2>3. ~ ControlOverlap(p, w, r)
    BY DEF Good
  <2> DEFINE selected == SelectPlan(p, r, req.allow)
  <2>4. selected.mode = "clone" /\ selected.volume = reserved
    <3>1. r["source"].volume = "A"
      BY <1>3 DEF Sane, Roles
    <3> QED BY <1>2, <1>6, <3>1 DEF PlanFor
  <2> HIDE DEF selected
  <2>5. PlanError(p, w, req, r) =
          CASE ProbeErrorCode(r) # "none" -> ProbeErrorCode(r)
            [] PreparedError(p, w, req, r) # "none" -> PreparedError(p, w, req, r)
            [] SourceError(r["source"]) # "none" -> SourceError(r["source"])
            [] ControlOverlap(p, w, r) -> "TargetLayout"
            [] selected.mode = "none" -> PlanErrorCode(selected.error)
            [] selected.volume # reserved -> "TargetLayout"
            [] OTHER -> "none"
    BY DEF PlanError, selected
  <2> QED BY <1>2, <2>2, <2>3, <2>4, <2>5, Zenon
<1> QED BY <1>2, <1>4, <1>5, <1>6
------------------------------------------------------------------------------
Unanswered == Answer("none", "none")
TheWorld == AllReports(platform, world, request)
TheControl == InspectPath(platform, world, ControlPath)
TheSource == InspectPath(platform, world, request.source)

\* The preview was of this world, and create has not made anything in it yet.
NothingMadeYet ==
  /\ prepared = NothingMade /\ bound = <<>> /\ InitialWorld(world)
  /\ pc \in {"preview", "requested", "source", "preliminary", "prepare", "done"} \cup Probing
  /\ pc \in Probing => stage = "preliminary"
  /\ IF pc = "preview" THEN forecast.kind = "none" ELSE forecast = PreviewOf(platform, world, request)
  /\ pc # "done" => outcome = Unanswered
  /\ pc = "done" => forecast.kind = "refused"
  /\ pc \in {"source", "preliminary"} \cup Probing => SpellingError(request) = "none"
  /\ pc \in {"preliminary"} \cup Probing =>
       /\ control = TheControl /\ SourceError(TheSource) = "none"
       /\ ~ PathsOverlapWithIdentity(TheSource, control)
  /\ IF pc = "prepare" THEN forecast.kind # "refused" /\ reserved = "A" ELSE reserved = "none"

\* The directories are made, and every check until a materializer binds them will pass.
MadeAsForeseen ==
  /\ bound = <<>> /\ forecast = Answer("clone", "none") /\ reserved = "A" /\ outcome = Unanswered
  /\ prepared = [target |-> "t", staging |-> "g", trash |-> "h", volume |-> "A",
                 mount |-> IF platform = "macos" THEN "none" ELSE "A"]
  /\ Good(platform, world, request)
  /\ pc \in {"prepared", "materialize", "bind"} \cup Probing
  /\ pc \in Probing => stage \in {"prepared", "materialize"}
  /\ pc \in {"materialize", "bind"} \/ (pc \in Probing /\ stage = "materialize") =>
       plan = PlanFor(TheWorld, "clone", "none")

\* What the probe has read is what the world still is.
ReadsTheWorld ==
  /\ pc = "probeSource" => reports = NoReports
  /\ pc = "probeRest" => "source" \in DOMAIN reports /\ reports["source"] = TheSource
  /\ pc \in {"preliminary", "prepared", "materialize", "bind"} => reports = TheWorld

BoundAsForeseen == bound # <<>> /\ bound[1].mode = "clone" /\ forecast = Answer("clone", "none")

KeptInv ==
  /\ FallbackInv /\ platform \in {"linux", "macos"} /\ request \in Requests
  /\ "start" \notin moved =>
       \/ BoundAsForeseen
       \/ ReadsTheWorld /\ (NothingMadeYet \/ MadeAsForeseen)

\* What the invariant says of the preview.
LEMMA KeptMeans ==
  ASSUME KeptInv
  PROVE  PreviewIsKept
<1> SUFFICES ASSUME forecast.kind # "none", "start" \notin moved
             PROVE  /\ forecast.kind = "refused" => reserved = "none" /\ prepared = NothingMade
                    /\ forecast.kind # "refused" /\ (bound # <<>> \/ outcome.kind = "refused") =>
                         bound # <<>> /\ bound[1].mode = forecast.kind
  BY DEF PreviewIsKept
<1>1. \A kind : Answer(kind, "none").kind = kind
  BY DEF Answer
<1>2. CASE BoundAsForeseen
  BY <1>1, <1>2 DEF BoundAsForeseen
<1>3. CASE NothingMadeYet
  <2>1. pc # "done" => outcome.kind # "refused"
    BY <1>1, <1>3 DEF NothingMadeYet, Unanswered
  <2> QED BY <1>3, <2>1 DEF NothingMadeYet
<1>4. CASE MadeAsForeseen
  <2>1. outcome.kind = "none" /\ forecast.kind = "clone"
    BY <1>1, <1>4 DEF MadeAsForeseen, Unanswered
  <2> QED BY <1>4, <2>1 DEF MadeAsForeseen
<1> QED BY <1>2, <1>3, <1>4 DEF KeptInv

\* Nothing is previewed, read or made at first.
LEMMA KeptInit ==
  ASSUME PlanningInit
  PROVE  KeptInv
<1>1. FallbackInv
  BY DEF PlanningInit, FallbackInv, ControlOK, Unbound, Probing, AllPcs, Stages, NoPlan, Refused
<1>2. platform \in {"linux", "macos"} /\ request \in Requests
  BY PlanningAssumption DEF PlanningInit
<1>3. InitialWorld(world)
  <2>1. PICK alias \in AliasTargets \cup {Absent}, place \in {"w", "v"} :
          world = [f \in DOMAIN Healthy \cup {"link", "onB"} |->
                     CASE f = "link" -> InitialLinks(alias, place)
                       [] f = "onB" -> {"o"}
                       [] OTHER -> Healthy[f]]
    BY DEF PlanningInit
  <2>2. "link" \notin DOMAIN Healthy /\ "onB" \notin DOMAIN Healthy
    BY DEF Healthy
  <2>3. alias \in AliasDirs
    BY DEF AliasTargets, AliasDirs
  <2> DEFINE D == DOMAIN Healthy links == InitialLinks(alias, place)
  <2> HIDE DEF links
  <2>4. world = [f \in D \cup {"link", "onB"} |-> CASE f = "link" -> links [] f = "onB" -> {"o"} [] OTHER -> Healthy[f]]
    BY <2>1 DEF links
  <2>5. "link" \notin D /\ "onB" \notin D
    BY <2>2
  <2> HIDE DEF D
  <2>6. DOMAIN world = D \cup {"link", "onB"} /\ world.link = links /\ world.onB = {"o"}
    BY <2>4
  <2>7. \A f \in D : world[f] = Healthy[f]
    <3>1. SUFFICES ASSUME NEW f \in D PROVE world[f] = Healthy[f]
      OBVIOUS
    <3>2. f # "link" /\ f # "onB" /\ f \in D \cup {"link", "onB"}
      BY <2>5
    <3> QED BY <2>4, <3>2
  <2> QED BY <2>3, <2>6, <2>7 DEF InitialWorld, IsHealthy, D, links
<1>4. NothingMadeYet /\ ReadsTheWorld
  <2>1. /\ pc = "preview" /\ prepared = NothingMade /\ bound = <<>> /\ reserved = "none"
        /\ forecast = Unanswered /\ outcome = Unanswered
    BY DEF PlanningInit, Unanswered
  <2>2. forecast.kind = "none"
    BY <2>1 DEF Unanswered, Answer
  <2> QED BY <1>3, <2>1, <2>2 DEF NothingMadeYet, ReadsTheWorld, Probing
<1> QED BY <1>1, <1>2, <1>4 DEF KeptInv

Foreseen == BoundAsForeseen \/ (ReadsTheWorld /\ (NothingMadeYet \/ MadeAsForeseen))

\* Steps that leave what was foreseen, and the world it was foreseen in, as they are.
LEMMA SameWorld ==
  ASSUME UNCHANGED reading
  PROVE  /\ TheWorld' = TheWorld /\ TheControl' = TheControl /\ TheSource' = TheSource
         /\ (PreviewOf(platform, world, request))' = PreviewOf(platform, world, request)
         /\ (InitialWorld(world))' = InitialWorld(world)
         /\ (Good(platform, world, request))' = Good(platform, world, request)
         /\ (SpellingError(request))' = SpellingError(request)
         /\ (SourceError(TheSource))' = SourceError(TheSource)
<1>1. platform' = platform /\ world' = world /\ request' = request
  BY DEF reading
<1>2. TheWorld' = TheWorld
  BY <1>1 DEF TheWorld
<1>3. TheControl' = TheControl
  BY <1>1 DEF TheControl
<1>4. TheSource' = TheSource
  BY <1>1 DEF TheSource
<1> QED BY <1>1, <1>2, <1>3, <1>4

\* The preview foresees what create will answer.
LEMMA KeptPreview ==
  ASSUME KeptInv, ReadsTheWorld, NothingMadeYet, Preview
  PROVE  Foreseen'
<1>1. /\ pc = "preview" /\ pc' = "requested" /\ forecast' = PreviewOf(platform, world, request)
      /\ UNCHANGED <<platform, world, request, prepared, bound, outcome, reserved>>
  BY DEF Preview
<1>2. (InitialWorld(world))' /\ forecast' = (PreviewOf(platform, world, request))'
  BY <1>1 DEF NothingMadeYet
<1>3. NothingMadeYet'
  BY <1>1, <1>2 DEF NothingMadeYet, Probing, Unanswered
<1> QED BY <1>1, <1>3 DEF Foreseen, ReadsTheWorld

\* Create refuses the spelling the preview refused.
LEMMA KeptCheckSpelling ==
  ASSUME KeptInv, ReadsTheWorld, NothingMadeYet, CheckSpelling
  PROVE  Foreseen'
<1>1. /\ pc = "requested" /\ UNCHANGED <<reading, reports, control, prepared, bound, reserved>>
      /\ UNCHANGED forecast
  BY DEF CheckSpelling, reading
<1>2. \A code : Answer("refused", code).kind = "refused"
  BY DEF Answer
<1>3. (InitialWorld(world))' /\ forecast = PreviewOf(platform, world, request) /\ forecast' = (PreviewOf(platform, world, request))'
  BY <1>1, SameWorld DEF NothingMadeYet
<1>4. CASE SpellingError(request) # "none"
  <2>1. forecast.kind = "refused"
    <3>1. forecast = Answer("refused", SpellingError(request)) \/ forecast.kind = "refused"
      <4>1. forecast.kind # "refused" => SpellingError(request) = "none"
        BY <1>3, NotRefused
      <4> QED BY <1>4, <4>1
    <3> QED BY <1>2, <3>1
  <2>2. pc' = "done"
    BY <1>4 DEF CheckSpelling, Refuse
  <2>3. NothingMadeYet'
    BY <1>1, <1>3, <2>1, <2>2 DEF NothingMadeYet, Probing
  <2> QED BY <2>2, <2>3 DEF Foreseen, ReadsTheWorld
<1>5. CASE SpellingError(request) = "none"
  <2>1. pc' = "source" /\ outcome' = outcome
    BY <1>5 DEF CheckSpelling
  <2>2. (SpellingError(request))' = "none"
    BY <1>1, <1>5, SameWorld
  <2>3. NothingMadeYet'
    BY <1>1, <1>3, <2>1, <2>2 DEF NothingMadeYet, Probing, Unanswered
  <2> QED BY <2>1, <2>3 DEF Foreseen, ReadsTheWorld
<1> QED BY <1>4, <1>5

\* The preview refuses what the first look at the source refuses.
LEMMA KeptInspectSource ==
  ASSUME KeptInv, ReadsTheWorld, NothingMadeYet, InspectSource
  PROVE  Foreseen'
<1>1. /\ pc = "source" /\ UNCHANGED <<reading, prepared, bound, reserved>> /\ UNCHANGED forecast
  BY DEF InspectSource, reading
<1>2. /\ InitialWorld(world) /\ forecast = PreviewOf(platform, world, request) /\ SpellingError(request) = "none"
      /\ forecast' = (PreviewOf(platform, world, request))' /\ (InitialWorld(world))'
      /\ (SpellingError(request))' = "none" /\ outcome = Unanswered /\ reserved = "none"
  BY <1>1, SameWorld DEF NothingMadeYet
<1>3. TheWorld["source"] = TheSource
  BY DEF TheWorld, AllReports, RolePath, TheSource, Roles
<1>4. CASE SourceError(TheSource) # "none" \/ PathsOverlapWithIdentity(TheSource, TheControl)
  <2>1. forecast.kind = "refused"
    <3>1. forecast.kind # "refused" =>
            SourceError(TheWorld["source"]) = "none" /\ ~ PathsOverlapWithIdentity(TheWorld["source"], TheControl)
      BY <1>2, NotRefused DEF TheWorld, TheControl
    <3> QED BY <1>3, <1>4, <3>1
  <2>2. pc' = "done"
    BY <1>4 DEF InspectSource, Refuse, TheSource, TheControl
  <2>3. NothingMadeYet'
    BY <1>1, <1>2, <2>1, <2>2 DEF NothingMadeYet, Probing
  <2> QED BY <2>2, <2>3 DEF Foreseen, ReadsTheWorld
<1>5. CASE SourceError(TheSource) = "none" /\ ~ PathsOverlapWithIdentity(TheSource, TheControl)
  <2>1. /\ control' = TheControl /\ pc' = "probeSource" /\ stage' = "preliminary" /\ reports' = NoReports
        /\ outcome' = outcome
    BY <1>5 DEF InspectSource, BeginProbe, TheSource, TheControl
  <2>2. control' = TheControl' /\ (SourceError(TheSource))' = "none" /\ TheSource' = TheSource
    BY <1>1, <1>5, <2>1, SameWorld
  <2>3. (~ PathsOverlapWithIdentity(TheSource, control))'
    BY <1>5, <2>1, <2>2
  <2>4. NothingMadeYet'
    BY <1>1, <1>2, <2>1, <2>2, <2>3 DEF NothingMadeYet, Probing, Unanswered
  <2> QED BY <2>1, <2>4 DEF Foreseen, ReadsTheWorld
<1> QED BY <1>4, <1>5

\* A probe reads the same world in both of its halves.
LEMMA KeptProbes ==
  ASSUME KeptInv, ReadsTheWorld, NothingMadeYet \/ MadeAsForeseen, ProbeSource \/ ProbeRest
  PROVE  Foreseen'
<1>1. /\ UNCHANGED <<reading, stage, control, reserved, prepared, plan, bound, outcome>> /\ UNCHANGED forecast
      /\ pc \in Probing
  BY DEF ProbeSource, ProbeRest, reading, Probing
<1>2. ReadsTheWorld' /\ (pc' \in Probing \/ pc' = stage)
  <2>1. CASE ProbeSource
    <3>1. /\ pc = "probeSource" /\ pc' = "probeRest" /\ reports' = [reports EXCEPT !["source"] = TheSource]
      BY <2>1 DEF ProbeSource, TheSource
    <3>2. "source" \in DOMAIN reports
      BY <3>1 DEF ReadsTheWorld, NoReports, Roles
    <3>3. "source" \in DOMAIN reports' /\ reports'["source"] = TheSource'
      BY <1>1, <3>1, <3>2, SameWorld
    <3> QED BY <3>1, <3>3 DEF ReadsTheWorld, Probing
  <2>2. CASE ProbeRest
    <3>1. /\ pc = "probeRest" /\ pc' = stage
          /\ reports' = [role \in Roles |-> IF role = "source" THEN reports[role]
                                            ELSE InspectPath(platform, world, RolePath(request, role))]
      BY <2>2 DEF ProbeRest
    <3>2. reports["source"] = InspectPath(platform, world, RolePath(request, "source"))
      BY <3>1 DEF ReadsTheWorld, TheSource, RolePath
    <3>3. reports' = TheWorld
      BY <3>1, <3>2 DEF TheWorld, AllReports
    <3>4. reports' = TheWorld'
      BY <1>1, <3>3, SameWorld
    <3>5. stage \in {"preliminary", "prepared", "materialize"}
      BY <1>1 DEF NothingMadeYet, MadeAsForeseen
    <3> QED BY <3>1, <3>4, <3>5 DEF ReadsTheWorld
  <2> QED BY <2>1, <2>2
<1>3. CASE NothingMadeYet
  <2>1. stage = "preliminary" /\ pc' \in Probing \cup {"preliminary"}
    BY <1>1, <1>2, <1>3 DEF NothingMadeYet
  <2>2. /\ (InitialWorld(world))' /\ forecast' = (PreviewOf(platform, world, request))'
        /\ (SpellingError(request))' = "none"
    BY <1>1, <1>3, SameWorld DEF NothingMadeYet, Probing
  <2>3. control' = TheControl' /\ (SourceError(TheSource))' = "none" /\ TheSource' = TheSource /\ control' = control
    BY <1>1, <1>3, SameWorld DEF NothingMadeYet
  <2>4. (~ PathsOverlapWithIdentity(TheSource, control))'
    BY <1>1, <1>3, <2>3 DEF NothingMadeYet
  <2>5. NothingMadeYet'
    BY <1>1, <1>3, <2>1, <2>2, <2>3, <2>4 DEF NothingMadeYet, Probing, Unanswered
  <2> QED BY <1>2, <2>5 DEF Foreseen
<1>4. CASE MadeAsForeseen
  <2>1. stage \in {"prepared", "materialize"} /\ (pc' \in Probing \/ pc' = stage)
    BY <1>1, <1>2, <1>4 DEF MadeAsForeseen
  <2>2. (Good(platform, world, request))' /\ platform' = platform /\ TheWorld' = TheWorld
    BY <1>1, <1>4, SameWorld DEF MadeAsForeseen, reading
  <2>3. MadeAsForeseen'
    BY <1>1, <1>4, <2>1, <2>2 DEF MadeAsForeseen, Probing, Unanswered
  <2> QED BY <1>2, <2>3 DEF Foreseen
<1> QED BY <1>3, <1>4

\* The reservation judges the reports the preview judged, in the same way.
LEMMA KeptReserve ==
  ASSUME KeptInv, ReadsTheWorld, NothingMadeYet, Reserve
  PROVE  Foreseen'
<1> DEFINE early == PreliminaryError(platform, world, request, reports, control)
           selected == SelectPlan(platform, reports, request.allow)
<1>1. /\ pc = "preliminary" /\ UNCHANGED <<reading, prepared, bound, reports, control>> /\ UNCHANGED forecast
      /\ reports = TheWorld /\ control = TheControl
  BY DEF Reserve, reading, ReadsTheWorld, NothingMadeYet
<1>2. /\ InitialWorld(world) /\ forecast = PreviewOf(platform, world, request) /\ outcome = Unanswered
      /\ forecast' = (PreviewOf(platform, world, request))' /\ (InitialWorld(world))' /\ reserved = "none"
      /\ SpellingError(request) = "none"
  BY <1>1, SameWorld DEF NothingMadeYet
<1>3. TheWorld["source"] = TheSource
  BY DEF TheWorld, AllReports, RolePath, TheSource, Roles
<1>4. SourceError(reports["source"]) = "none" /\ ~ PathsOverlapWithIdentity(reports["source"], control)
  BY <1>1, <1>3 DEF NothingMadeYet
<1>5. \A code, kind : Answer(kind, code).kind = kind
  BY DEF Answer
<1>6. CASE early # "none" \/ selected.mode = "none"
  <2>1. forecast.kind = "refused"
    <3>1. forecast.kind # "refused" => early = "none" /\ selected.mode # "none"
      BY <1>1, <1>2, NotRefused DEF TheWorld, TheControl
    <3> QED BY <1>6, <3>1
  <2>2. pc' = "done" /\ reserved' = reserved
    BY <1>6 DEF Reserve, Refuse
  <2>3. NothingMadeYet'
    BY <1>1, <1>2, <2>1, <2>2 DEF NothingMadeYet, Probing
  <2> QED BY <2>2, <2>3 DEF Foreseen, ReadsTheWorld
<1>7. CASE early = "none" /\ selected.mode # "none"
  <2>1. pc' = "prepare" /\ reserved' = selected.volume /\ outcome' = outcome
    BY <1>7 DEF Reserve
  <2>2. forecast.kind # "refused"
    <3> DEFINE word == SpellingError(request) fault == SourceError(reports["source"])
               over == PathsOverlapWithIdentity(reports["source"], control)
    <3>1. forecast = CASE word # "none" -> Answer("refused", word)
                       [] fault # "none" -> Answer("refused", fault)
                       [] early # "none" -> Answer("refused", early)
                       [] over -> Answer("refused", "TargetLayout")
                       [] OTHER -> FromPlan(selected)
      BY <1>1, <1>2 DEF PreviewOf, TheWorld, TheControl
    <3>2. word = "none" /\ fault = "none" /\ early = "none" /\ ~ over
      BY <1>2, <1>4, <1>7
    <3> HIDE DEF word, fault, over, early, selected
    <3>3. forecast = FromPlan(selected)
      BY <3>1, <3>2, Zenon
    <3>4. FromPlan(selected) = Answer(selected.mode, "none")
      BY <1>7 DEF FromPlan
    <3>5. selected.mode \in {"none", "clone", "copy"}
      BY PlanModes DEF selected
    <3> QED BY <1>5, <3>3, <3>4, <3>5
  <2>3. selected.volume = "A"
    <3>1. platform \in {"linux", "macos"} /\ request \in Requests /\ PreviewOf(platform, world, request).kind # "refused"
      BY <1>2, <2>2 DEF KeptInv
    <3>2. SelectPlan(platform, AllReports(platform, world, request), request.allow).volume = "A"
      BY <1>2, <3>1, Accepted
    <3> QED BY <1>1, <3>2 DEF TheWorld
  <2>4. NothingMadeYet'
    BY <1>1, <1>2, <2>1, <2>2, <2>3 DEF NothingMadeYet, Probing, Unanswered
  <2> QED BY <2>1, <2>4 DEF Foreseen, ReadsTheWorld
<1> QED BY <1>6, <1>7

\* What was planned from this world can be made in it.
LEMMA KeptPrepare ==
  ASSUME KeptInv, NothingMadeYet, Prepare \/ PrepareDenied
  PROVE  Foreseen'
<1>1. /\ pc = "prepare" /\ InitialWorld(world) /\ forecast = PreviewOf(platform, world, request)
      /\ forecast.kind # "refused" /\ reserved = "A" /\ bound = <<>> /\ outcome = Unanswered
  BY DEF NothingMadeYet, Prepare, PrepareDenied
<1>2. platform \in {"linux", "macos"} /\ request \in Requests
  BY DEF KeptInv
<1>3. forecast = Answer("clone", "none")
  BY <1>1, <1>2, Accepted
<1>4. PICK x, y, S, D : Spelled(request, x, y) /\ Ready(platform, world, x, y, S, D)
  BY <1>1, <1>2, Accepted
<1> DEFINE parent == InspectPath(platform, world, ParentOf(request.target))
<1>5. /\ ParentError(platform, world, request) = "none" /\ LeafOf(parent) = D
      /\ parent.volume = "A" /\ parent.mount = IF platform = "macos" THEN "none" ELSE "A"
  BY <1>2, <1>4, ParentOpens
<1>6. ~ PrepareDenied
  <2>1. world.write = "Supported"
    BY <1>1 DEF InitialWorld, IsHealthy, Healthy
  <2> QED BY <2>1 DEF PrepareDenied
<1>7. /\ world' = MakeIn(world, D)
      /\ prepared' = [target |-> "t", staging |-> "g", trash |-> "h",
                      volume |-> "A", mount |-> IF platform = "macos" THEN "none" ELSE "A"]
      /\ pc' = "probeSource" /\ stage' = "prepared" /\ reports' = NoReports
      /\ UNCHANGED <<platform, request, forecast, reserved, bound, outcome>>
  BY <1>5, <1>6 DEF Prepare, BeginProbe
<1>8. (Good(platform, world, request))'
  <2>1. Good(platform, world', request)
    BY <1>2, <1>4, <1>7, MadeGood
  <2> QED BY <1>7, <2>1
<1>9. MadeAsForeseen'
  BY <1>1, <1>3, <1>7, <1>8 DEF MadeAsForeseen, Probing, Unanswered
<1> QED BY <1>7, <1>9 DEF Foreseen, ReadsTheWorld

\* The executed plan is the foreseen clone.
LEMMA KeptPlanPrepared ==
  ASSUME KeptInv, ReadsTheWorld, MadeAsForeseen, PlanPrepared
  PROVE  Foreseen'
<1>1. /\ pc = "prepared" /\ UNCHANGED <<reading, reserved, prepared, bound>> /\ UNCHANGED <<platform, forecast>>
      /\ reports = TheWorld
  BY DEF PlanPrepared, reading, ReadsTheWorld
<1>2. platform \in {"linux", "macos"} /\ Good(platform, world, request)
  BY DEF KeptInv, MadeAsForeseen
<1>3. /\ SelectPlan(platform, reports, request.allow) = PlanFor(reports, "clone", "none")
      /\ PlanError(platform, world, request, reports) = "none"
  BY <1>1, <1>2, GoodPlans DEF TheWorld, MadeAsForeseen
<1>4. /\ plan' = PlanFor(TheWorld, "clone", "none") /\ pc' = "probeSource" /\ stage' = "materialize"
      /\ reports' = NoReports /\ outcome' = outcome
  BY <1>1, <1>3 DEF PlanPrepared, BeginProbe
<1>5. (Good(platform, world, request))' /\ TheWorld' = TheWorld
  BY <1>1, <1>2, SameWorld
<1>6. MadeAsForeseen'
  BY <1>1, <1>4, <1>5 DEF MadeAsForeseen, Probing, Unanswered
<1> QED BY <1>4, <1>6 DEF Foreseen, ReadsTheWorld

\* The materializer accepts that plan and binds its directories.
LEMMA KeptExecute ==
  ASSUME KeptInv, ReadsTheWorld, MadeAsForeseen, Revalidate \/ Bind
  PROVE  Foreseen'
<1>1. /\ pc \in {"materialize", "bind"} /\ UNCHANGED <<reading, stage, reports, reserved, prepared, plan>>
      /\ UNCHANGED <<platform, forecast>>
      /\ reports = TheWorld /\ plan = PlanFor(TheWorld, "clone", "none")
  BY DEF Revalidate, Bind, reading, ReadsTheWorld, MadeAsForeseen
<1>2. platform \in {"linux", "macos"} /\ Good(platform, world, request)
  BY DEF KeptInv, MadeAsForeseen
<1>3. ~ PlanIsStale(platform, reports, plan) /\ Binds(platform, world, request, reports)
  BY <1>1, <1>2, GoodPlans DEF TheWorld
<1>4. CASE Revalidate
  <2>1. pc' = "bind" /\ UNCHANGED <<bound, outcome>>
    BY <1>3, <1>4 DEF Revalidate
  <2>2. (Good(platform, world, request))' /\ TheWorld' = TheWorld
    BY <1>1, <1>2, SameWorld
  <2>3. MadeAsForeseen'
    BY <1>1, <2>1, <2>2 DEF MadeAsForeseen, Probing, Unanswered
  <2>4. ReadsTheWorld'
    BY <1>1, <2>1, <2>2 DEF ReadsTheWorld
  <2> QED BY <2>3, <2>4 DEF Foreseen
<1>5. CASE Bind
  <2> DEFINE dirs == DirectoriesOf(world, request)
  <2>1. bound' = Append(bound, [mode |-> plan.mode, dirs |-> dirs]) /\ bound = <<>>
    BY <1>3, <1>5 DEF Bind, MadeAsForeseen
  <2>2. plan.mode = "clone"
    BY <1>1 DEF PlanFor
  <2> HIDE DEF dirs
  <2>3. bound' = <<[mode |-> "clone", dirs |-> dirs]>>
    <3>1. \A e : Append(<<>>, e) = <<e>>
      OBVIOUS
    <3> QED BY <2>1, <2>2, <3>1
  <2>4. bound' # <<>> /\ bound'[1].mode = "clone"
    BY <2>3
  <2>5. forecast' = Answer("clone", "none")
    BY <1>1 DEF MadeAsForeseen
  <2> QED BY <2>4, <2>5 DEF Foreseen, BoundAsForeseen
<1> QED BY <1>4, <1>5

\* A clone once bound stays the first binding, and the preview was for it.
LEMMA KeptBound ==
  ASSUME KeptInv, BoundAsForeseen, PlanningNext
  PROVE  Foreseen'
<1>1. forecast' = forecast
  <2>1. CASE Preview
    <3>1. bound = <<>>
      BY <2>1 DEF Preview, KeptInv, FallbackInv, ControlOK, Unbound
    <3> QED BY <3>1 DEF BoundAsForeseen
  <2>2. CASE ~ Preview
    BY <2>2 DEF PlanningNext, CheckSpelling, InspectSource, ProbeSource, ProbeRest, Reserve, Prepare,
                PrepareDenied, PlanPrepared, Revalidate, Bind, Materialized, CowUnavailable, PlanFallback,
                Disturb, Finished, reading, pvars
  <2> QED BY <2>1, <2>2
<1>2. bound' = bound \/ \E mode, dirs : bound' = Append(bound, [mode |-> mode, dirs |-> dirs])
  <2>1. CASE Bind
    BY <2>1 DEF Bind
  <2>2. CASE ~ Bind
    BY <2>2 DEF PlanningNext, Preview, CheckSpelling, InspectSource, ProbeSource, ProbeRest, Reserve, Prepare,
                PrepareDenied, PlanPrepared, Revalidate, Materialized, CowUnavailable, PlanFallback,
                Disturb, Finished, pvars
  <2> QED BY <2>1, <2>2
<1>3. bound' # <<>> /\ bound'[1] = bound[1]
  <2>1. bound \in Seq(Bindings) /\ bound # <<>>
    BY DEF KeptInv, FallbackInv, BoundAsForeseen
  <2>2. \A e : Append(bound, e) # <<>> /\ Append(bound, e)[1] = bound[1]
    BY <2>1
  <2>3. ASSUME NEW e, bound' = Append(bound, e) PROVE bound' # <<>> /\ bound'[1] = bound[1]
    BY <2>2, <2>3
  <2> QED BY <1>2, <2>1, <2>3
<1> QED BY <1>1, <1>3 DEF BoundAsForeseen, Foreseen

\* Without a move of the users since the preview, each step ends where the preview said.
LEMMA KeptStep ==
  ASSUME KeptInv, [PlanningNext]_pvars
  PROVE  KeptInv'
<1>1. FallbackInv'
  BY FallbackStep DEF KeptInv
<1>2. platform' \in {"linux", "macos"} /\ request' \in Requests
  <2>1. UNCHANGED <<platform, request>>
    BY DEF PlanningNext, Preview, CheckSpelling, InspectSource, ProbeSource, ProbeRest, Reserve, Prepare,
           PrepareDenied, PlanPrepared, Revalidate, Bind, Materialized, CowUnavailable, PlanFallback,
           Disturb, Finished, reading, pvars
  <2> QED BY <2>1 DEF KeptInv
<1>3. ASSUME "start" \notin moved' PROVE Foreseen'
  <2>1. ~ Disturb
    BY <1>3 DEF Disturb
  <2>2. "start" \notin moved
    <3>1. \/ moved' = moved
          \/ \E which : moved' = moved \ (IF which = "preliminary" THEN {"active", "probe"} ELSE {"probe"})
      BY <2>1 DEF PlanningNext, Preview, CheckSpelling, InspectSource, ProbeSource, ProbeRest, Reserve, Prepare,
             PrepareDenied, PlanPrepared, Revalidate, Bind, Materialized, CowUnavailable, PlanFallback,
             Finished, BeginProbe, pvars
    <3> QED BY <1>3, <3>1
  <2>3. Foreseen
    BY <2>2 DEF KeptInv, Foreseen
  <2>4. CASE UNCHANGED pvars
    <3>1. UNCHANGED reading /\ UNCHANGED <<platform, forecast, pc, stage, reports, control, reserved, prepared, plan,
                                           bound, outcome>>
      BY <2>4 DEF pvars, reading
    <3>2. /\ TheWorld' = TheWorld /\ TheControl' = TheControl /\ TheSource' = TheSource
          /\ (PreviewOf(platform, world, request))' = PreviewOf(platform, world, request)
          /\ (InitialWorld(world))' = InitialWorld(world)
          /\ (Good(platform, world, request))' = Good(platform, world, request)
          /\ (SpellingError(request))' = SpellingError(request)
          /\ (SourceError(TheSource))' = SourceError(TheSource)
      BY <3>1, SameWorld
    <3>3. BoundAsForeseen => BoundAsForeseen'
      BY <3>1 DEF BoundAsForeseen
    <3>4. ReadsTheWorld => ReadsTheWorld'
      BY <3>1, <3>2 DEF ReadsTheWorld
    <3>5. NothingMadeYet => NothingMadeYet'
      BY <3>1, <3>2 DEF NothingMadeYet, Probing, Unanswered
    <3>6. MadeAsForeseen => MadeAsForeseen'
      BY <3>1, <3>2 DEF MadeAsForeseen, Probing, Unanswered
    <3> QED BY <2>3, <3>3, <3>4, <3>5, <3>6 DEF Foreseen
  <2>5. CASE BoundAsForeseen /\ PlanningNext
    BY <2>5, KeptBound
  <2>6. CASE PlanningNext /\ ReadsTheWorld /\ NothingMadeYet
    <3>1. pc \in {"preview", "requested", "source", "preliminary", "prepare", "done", "probeSource", "probeRest"}
      BY <2>6 DEF NothingMadeYet, Probing
    <3>2. ~ (PlanPrepared \/ Revalidate \/ Bind \/ Materialized \/ CowUnavailable \/ PlanFallback)
      BY <3>1 DEF PlanPrepared, Revalidate, Bind, Materialized, CowUnavailable, PlanFallback
    <3>3. CASE Finished
      BY <2>4, <3>3 DEF Finished
    <3> QED BY <2>1, <2>6, <3>2, <3>3, KeptPreview, KeptCheckSpelling, KeptInspectSource, KeptProbes,
               KeptReserve, KeptPrepare DEF PlanningNext
  <2>7. CASE PlanningNext /\ ReadsTheWorld /\ MadeAsForeseen
    <3>1. pc \in {"prepared", "materialize", "bind", "probeSource", "probeRest"}
      BY <2>7 DEF MadeAsForeseen, Probing
    <3>2. ~ (Preview \/ CheckSpelling \/ InspectSource \/ Reserve \/ Prepare \/ PrepareDenied \/ Materialized
             \/ CowUnavailable \/ PlanFallback \/ Finished)
      BY <3>1 DEF Preview, CheckSpelling, InspectSource, Reserve, Prepare, PrepareDenied, Materialized,
                  CowUnavailable, PlanFallback, Finished
    <3> QED BY <2>1, <2>7, <3>2, KeptProbes, KeptPlanPrepared, KeptExecute DEF PlanningNext
  <2> QED BY <2>3, <2>4, <2>5, <2>6, <2>7 DEF Foreseen
<1> QED BY <1>1, <1>2, <1>3 DEF KeptInv, Foreseen

\* With nothing changed since the preview, what it refused is refused by create
\* before anything is reserved or made, and what it planned reaches an executor of
\* the same mode: every later check of create passes in the world the preview judged
\* (preview_create, create.rs:199).
THEOREM PreviewsAreKept == PlanningSpec => []PreviewIsKept
<1>1. PlanningInit => KeptInv
  BY KeptInit
<1>2. KeptInv /\ [PlanningNext]_pvars => KeptInv'
  BY KeptStep
<1>3. KeptInv => PreviewIsKept
  BY KeptMeans
<1> QED BY <1>1, <1>2, <1>3, PTL DEF PlanningSpec

Grown(w, dirs) == dirs \cup {w.link[e] : e \in {e \in DOMAIN w.link : e[1] \in dirs}}

\* Within, written out.
LEMMA WithinFour ==
  ASSUME NEW w, NEW dir
  PROVE  Within(w, dir) = Grown(w, Grown(w, Grown(w, Grown(w, {dir}))))
<1> DEFINE Body(f, n) ==
             IF n = 0 THEN {dir}
             ELSE f[n - 1] \cup {w.link[e] : e \in {e \in DOMAIN w.link : e[1] \in f[n - 1]}}
           r == CHOOSE f : f = [n \in 0 .. 4 |-> Body(f, n)]
           one == Grown(w, {dir})
           two == Grown(w, one)
           three == Grown(w, two)
           four == Grown(w, three)
           g == [n \in 0 .. 4 |-> IF n = 0 THEN {dir} ELSE IF n = 1 THEN one ELSE IF n = 2 THEN two
                                  ELSE IF n = 3 THEN three ELSE four]
<1>1. Within(w, dir) = r[4]
  BY DEF Within
<1>2. \A f : Body(f, 0) = {dir}
  OBVIOUS
<1>3. \A f : \A n \in 1 .. 4 : Body(f, n) = Grown(w, f[n - 1])
  BY DEF Grown
<1> HIDE DEF Body
<1>4. \A f : /\ Body(f, 1) = Grown(w, f[0]) /\ Body(f, 2) = Grown(w, f[1])
             /\ Body(f, 3) = Grown(w, f[2]) /\ Body(f, 4) = Grown(w, f[3])
  <2>1. 1 - 1 = 0 /\ 2 - 1 = 1 /\ 3 - 1 = 2 /\ 4 - 1 = 3 /\ {1, 2, 3, 4} \subseteq 1 .. 4
    OBVIOUS
  <2> QED BY <1>3, <2>1
<1>5. /\ one = Grown(w, {dir}) /\ two = Grown(w, one) /\ three = Grown(w, two) /\ four = Grown(w, three)
  OBVIOUS
<1> HIDE DEF one, two, three, four
<1>6. g = [n \in 0 .. 4 |-> Body(g, n)]
  <2>1. g[0] = {dir} /\ g[1] = one /\ g[2] = two /\ g[3] = three /\ g[4] = four
    OBVIOUS
  <2>2. /\ Body(g, 0) = {dir} /\ Body(g, 1) = one /\ Body(g, 2) = two /\ Body(g, 3) = three /\ Body(g, 4) = four
    BY <1>2, <1>4, <1>5, <2>1
  <2>3. \A n \in 0 .. 4 : g[n] = Body(g, n)
    BY <2>1, <2>2
  <2> QED BY <2>3
<1>7. r = [n \in 0 .. 4 |-> Body(r, n)]
  BY <1>6, Zenon
<1> HIDE DEF r
<1>8. r[0] = Body(r, 0) /\ r[1] = Body(r, 1) /\ r[2] = Body(r, 2) /\ r[3] = Body(r, 3) /\ r[4] = Body(r, 4)
  BY <1>7
<1>9. r[4] = four
  BY <1>2, <1>4, <1>5, <1>8
<1> QED BY <1>1, <1>5, <1>9

\* What no link from outside leads into is not reached from outside.
LEMMA NotWithin ==
  ASSUME NEW w, NEW dir, NEW N, dir \notin N, \A e \in DOMAIN w.link : w.link[e] \in N => e[1] \in N
  PROVE  Within(w, dir) \cap N = {}
<1>1. ASSUME NEW dirs, dirs \cap N = {} PROVE Grown(w, dirs) \cap N = {}
  BY <1>1 DEF Grown
<1>2. {dir} \cap N = {}
  OBVIOUS
<1> QED BY <1>1, <1>2, WithinFour

\* A directory that leads nowhere has nothing else in it.
LEMMA OnlyWithin ==
  ASSUME NEW w, NEW dir, \A e \in DOMAIN w.link : e[1] # dir
  PROVE  Within(w, dir) = {dir}
<1>1. Grown(w, {dir}) = {dir}
  BY DEF Grown
<1> QED BY <1>1, WithinFour

\* How the names of a world can lie, whatever users do: the control root and the
\* top directories are named in "/" only, nothing is below the control root, and
\* what is made or brought in has one name.
LinksOK(p, w) ==
  /\ DOMAIN w = DOMAIN Healthy \cup {"link", "onB"} /\ w.onB \subseteq {"o", "t", "g", "h"}
  /\ <<RootDir, "c">> \in DOMAIN w.link /\ w.link[<<RootDir, "c">>] = "c"
  /\ <<RootDir, "p">> \in DOMAIN w.link /\ w.link[<<RootDir, "p">>] \in {"p", "x", "o"}
  /\ <<RootDir, "s">> \in DOMAIN w.link => w.link[<<RootDir, "s">>] \in {"s", "x"}
  /\ <<RootDir, AliasName>> \in DOMAIN w.link =>
       w.link[<<RootDir, AliasName>>] \in {"p", "s", "c", "w", "o", RootDir} \cup (IF p = "linux" THEN {"k"} ELSE {})
  /\ \A e \in DOMAIN w.link :
       /\ e[1] # "c" /\ (w.link[e] \in {RootDir, "c", "p", "s", "o"} => e[1] = RootDir)
       /\ (w.link[e] = "w" => e[1] \in {"p", RootDir}) /\ (w.link[e] = "k" => e[1] \in {"s", RootDir})
  /\ \A e, f \in DOMAIN w.link : w.link[e] \in {"x", "t", "g", "h"} /\ w.link[f] = w.link[e] => e = f

\* The names users may lead elsewhere, and where to.
Allowed(p, w, edge, to) ==
  /\ edge[1] # "c" /\ edge # <<RootDir, "c">> /\ to \notin {"g", "h"}
  /\ edge = <<RootDir, "p">> => to \in {"p", "x", "o"}
  /\ edge = <<RootDir, "s">> => to \in {"s", "x", Absent}
  /\ edge = <<RootDir, AliasName>> =>
       to \in {"p", "s", "c", "w", "o", RootDir, Absent} \cup (IF p = "linux" THEN {"k"} ELSE {})
  /\ to \in {RootDir, "c", "p", "s", "o"} => edge[1] = RootDir
  /\ to = "w" => edge[1] \in {"p", RootDir}
  /\ to = "k" => edge[1] = RootDir
  /\ to \in {"x", "t"} => \A e \in DOMAIN w.link : w.link[e] # to

\* One name led elsewhere, the others as they were.
OneLink(w, edge, to, w1) ==
  /\ DOMAIN w1 = DOMAIN w /\ w1.onB = w.onB
  /\ \A e \in DOMAIN w1.link : \/ e = edge /\ to # Absent /\ w1.link[e] = to
                               \/ e # edge /\ e \in DOMAIN w.link /\ w1.link[e] = w.link[e]
  /\ \A e \in DOMAIN w.link : e # edge => e \in DOMAIN w1.link /\ w1.link[e] = w.link[e]
  /\ to # Absent => edge \in DOMAIN w1.link

\* Leading a name elsewhere changes that name only.
LEMMA LinkSet ==
  ASSUME NEW p, NEW w, LinksOK(p, w), NEW edge, NEW to
  PROVE  OneLink(w, edge, to, SetLink(w, edge, to))
<1> DEFINE links == [e \in (DOMAIN w.link \cup {edge}) \ (IF to = Absent THEN {edge} ELSE {}) |->
                       IF e = edge THEN to ELSE w.link[e]]
           w1 == SetLink(w, edge, to)
<1>1. w1 = [w EXCEPT !.link = links] /\ "link" \in DOMAIN w
  BY DEF SetLink, LinksOK
<1>2. DOMAIN links = (DOMAIN w.link \cup {edge}) \ (IF to = Absent THEN {edge} ELSE {})
  OBVIOUS
<1>3. \A e \in DOMAIN links : links[e] = IF e = edge THEN to ELSE w.link[e]
  OBVIOUS
<1> HIDE DEF links, w1
<1>4. w1.link = links /\ DOMAIN w1 = DOMAIN w /\ w1.onB = w.onB
  BY <1>1
<1>5. OneLink(w, edge, to, w1)
  BY <1>2, <1>3, <1>4 DEF OneLink
<1> QED BY <1>5 DEF w1

\* A name led elsewhere as users may keeps the shape of the world.
LEMMA AllowedKeeps ==
  ASSUME NEW p, NEW w, LinksOK(p, w), NEW edge, NEW to, Allowed(p, w, edge, to), NEW w1, w1 = SetLink(w, edge, to)
  PROVE  LinksOK(p, w1)
<1>1. /\ DOMAIN w1 = DOMAIN w /\ w1.onB = w.onB
      /\ \A e \in DOMAIN w1.link : \/ e = edge /\ to # Absent /\ w1.link[e] = to
                                   \/ e # edge /\ e \in DOMAIN w.link /\ w1.link[e] = w.link[e]
      /\ \A e \in DOMAIN w.link : e # edge => e \in DOMAIN w1.link /\ w1.link[e] = w.link[e]
      /\ to # Absent => edge \in DOMAIN w1.link
  <2>1. OneLink(w, edge, to, w1)
    BY LinkSet
  <2> QED BY <2>1 DEF OneLink
<1>2. DOMAIN w1 = DOMAIN Healthy \cup {"link", "onB"} /\ w1.onB \subseteq {"o", "t", "g", "h"}
  BY <1>1 DEF LinksOK
<1>3. <<RootDir, "c">> \in DOMAIN w1.link /\ w1.link[<<RootDir, "c">>] = "c"
  BY <1>1 DEF LinksOK, Allowed
<1>4. <<RootDir, "p">> \in DOMAIN w1.link /\ w1.link[<<RootDir, "p">>] \in {"p", "x", "o"}
  <2>1. Absent \notin {"p", "x", "o"}
    BY DEF Absent
  <2> DEFINE e == <<RootDir, "p">>
  <2>2. e \in DOMAIN w.link /\ w.link[e] \in {"p", "x", "o"} /\ (edge = e => to \in {"p", "x", "o"})
    BY DEF LinksOK, Allowed
  <2> HIDE DEF e
  <2>3. e \in DOMAIN w1.link /\ w1.link[e] \in {"p", "x", "o"}
    BY <1>1, <2>1, <2>2
  <2> QED BY <2>3 DEF e
<1>5. <<RootDir, "s">> \in DOMAIN w1.link => w1.link[<<RootDir, "s">>] \in {"s", "x"}
  BY <1>1 DEF LinksOK, Allowed
<1>6. <<RootDir, AliasName>> \in DOMAIN w1.link =>
       w1.link[<<RootDir, AliasName>>] \in {"p", "s", "c", "w", "o", RootDir} \cup (IF p = "linux" THEN {"k"} ELSE {})
  <2> DEFINE T == {"p", "s", "c", "w", "o", RootDir} \cup (IF p = "linux" THEN {"k"} ELSE {})
             e == <<RootDir, AliasName>>
  <2>1. (e \in DOMAIN w.link => w.link[e] \in T) /\ (edge = e => to \in T \cup {Absent})
    BY DEF LinksOK, Allowed
  <2> HIDE DEF T, e
  <2>2. e \in DOMAIN w1.link => w1.link[e] \in T
    BY <1>1, <2>1
  <2> QED BY <2>2 DEF T, e
<1>7. ASSUME NEW e \in DOMAIN w1.link
      PROVE  /\ e[1] # "c" /\ (w1.link[e] \in {RootDir, "c", "p", "s", "o"} => e[1] = RootDir)
             /\ (w1.link[e] = "w" => e[1] \in {"p", RootDir}) /\ (w1.link[e] = "k" => e[1] \in {"s", RootDir})
  <2>1. CASE e = edge
    BY <1>1, <2>1 DEF Allowed
  <2>2. CASE e # edge
    BY <1>1, <2>2 DEF LinksOK
  <2> QED BY <2>1, <2>2
<1>8. ASSUME NEW e \in DOMAIN w1.link, NEW f \in DOMAIN w1.link,
             w1.link[e] \in {"x", "t", "g", "h"}, w1.link[f] = w1.link[e], e # f
      PROVE  FALSE
  <2>1. e # edge /\ f # edge => FALSE
    BY <1>1, <1>8 DEF LinksOK
  <2>2. e = edge => FALSE
    BY <1>1, <1>8 DEF Allowed
  <2>3. f = edge => FALSE
    BY <1>1, <1>8 DEF Allowed
  <2> QED BY <2>1, <2>2, <2>3
<1> QED BY <1>2, <1>3, <1>4, <1>5, <1>6, <1>7, <1>8 DEF LinksOK

\* Making the three directories in a parent that has none of their names.
LEMMA MakingKeeps ==
  ASSUME NEW p, NEW w, LinksOK(p, w), NEW D, D # "c",
         \A e \in DOMAIN w.link : w.link[e] \notin {"t", "g", "h"}
  PROVE  LinksOK(p, MakeIn(w, D))
<1> DEFINE names == {<<D, name>> : name \in {"t", "g", "h"}}
           links == [edge \in DOMAIN w.link \cup names |-> IF edge \in names THEN edge[2] ELSE w.link[edge]]
           onB == IF D \in w.onB THEN w.onB \cup {"t", "g", "h"} ELSE w.onB
           w1 == MakeIn(w, D)
<1>1. w1 = [w EXCEPT !.link = links, !.onB = onB] /\ "link" \in DOMAIN w /\ "onB" \in DOMAIN w
  BY DEF MakeIn, LinksOK
<1>2. DOMAIN links = DOMAIN w.link \cup names /\ \A e \in DOMAIN links : links[e] = IF e \in names THEN e[2] ELSE w.link[e]
  OBVIOUS
<1>3. /\ <<RootDir, "c">> \notin names /\ <<RootDir, "p">> \notin names /\ <<RootDir, "s">> \notin names
      /\ <<RootDir, AliasName>> \notin names
  BY DEF AliasName
<1>4. \A e \in names : e[1] = D /\ e[2] \in {"t", "g", "h"} /\ e = <<D, e[2]>>
  OBVIOUS
<1>5. onB \subseteq {"o", "t", "g", "h"}
  BY DEF LinksOK
<1> HIDE DEF names, links, onB, w1
<1>6. w1.link = links /\ w1.onB = onB /\ DOMAIN w1 = DOMAIN w
  BY <1>1
<1>7. ASSUME NEW e \in DOMAIN links
      PROVE  /\ e[1] # "c" /\ (links[e] \in {RootDir, "c", "p", "s", "o"} => e[1] = RootDir)
             /\ (links[e] = "w" => e[1] \in {"p", RootDir}) /\ (links[e] = "k" => e[1] \in {"s", RootDir})
  <2>1. CASE e \in names
    BY <1>2, <1>4, <2>1 DEF RootDir
  <2>2. CASE e \notin names
    BY <1>2, <2>2 DEF LinksOK
  <2> QED BY <2>1, <2>2
<1>8. ASSUME NEW e \in DOMAIN links, NEW f \in DOMAIN links,
             links[e] \in {"x", "t", "g", "h"}, links[f] = links[e]
      PROVE  e = f
  <2>1. e \in names /\ f \in names => e = f
    BY <1>2, <1>4, <1>8
  <2>2. e \notin names /\ f \notin names => e = f
    BY <1>2, <1>8 DEF LinksOK
  <2>3. e \in names <=> f \in names
    BY <1>2, <1>4, <1>8
  <2> QED BY <2>1, <2>2, <2>3
<1>9. LinksOK(p, w1)
  BY <1>2, <1>3, <1>5, <1>6, <1>7, <1>8 DEF LinksOK
<1> QED BY <1>9 DEF w1

PreparedOK ==
  \/ prepared = NothingMade /\ \A e \in DOMAIN world.link : world.link[e] \notin {"t", "g", "h"}
  \/ prepared.target = "t" /\ prepared.staging = "g" /\ prepared.trash = "h"

\* Users keep the shape of the world.
LEMMA DisturbKeepsLinks ==
  ASSUME LinksOK(platform, world), platform \in {"linux", "macos"}, PreparedOK, Disturb
  PROVE  LinksOK(platform, world') /\ PreparedOK'
<1>1. PICK w1 \in Relinked(world) \cup Answers(world) : world' = w1 /\ prepared' = prepared
  BY DEF Disturb
<1> DEFINE P == world.link[<<RootDir, "p">>]
<1>2. P \in {"p", "x", "o"} /\ P # RootDir /\ P # "c"
  BY DEF LinksOK, RootDir
<1>3. /\ RootDir = "root" /\ AliasName = "a" /\ Absent = "absent" /\ Occupied = "file"
  BY DEF RootDir, AliasName, Absent, Occupied
<1>4. \A d : Free(world, d) => \A e \in DOMAIN world.link : world.link[e] # d
  BY DEF Free, LeadsTo
<1>5. prepared.target \in {"none", "t"}
  BY DEF PreparedOK, NothingMade
<1>6. ASSUME NEW edge, NEW to, Allowed(platform, world, edge, to), w1 = SetLink(world, edge, to),
             prepared = NothingMade => to # "t"
      PROVE  LinksOK(platform, world') /\ PreparedOK'
  <2>1. LinksOK(platform, w1)
    BY <1>6, AllowedKeeps
  <2>2. /\ \A e \in DOMAIN w1.link : \/ e = edge /\ to # Absent /\ w1.link[e] = to
                                     \/ e # edge /\ e \in DOMAIN world.link /\ w1.link[e] = world.link[e]
    <3>1. OneLink(world, edge, to, w1)
      BY <1>6, LinkSet
    <3> QED BY <3>1 DEF OneLink
  <2>3. prepared = NothingMade => prepared.target = "none"
    BY DEF NothingMade
  <2>4. PreparedOK'
    BY <1>1, <1>6, <2>2, <2>3 DEF PreparedOK, Allowed
  <2> QED BY <1>1, <2>1, <2>4
<1>7. ASSUME NEW to \in AliasTargets \cup {Absent}, w1 = SetLink(world, <<RootDir, AliasName>>, to)
      PROVE  LinksOK(platform, world') /\ PreparedOK'
  <2>1. to \in {"p", "s", "c", "w", "o", RootDir, Absent} \cup (IF platform = "linux" THEN {"k"} ELSE {})
    BY DEF AliasTargets
  <2>2. to \notin {"x", "t", "g", "h"}
    BY <1>3, <2>1
  <2> DEFINE e == <<RootDir, AliasName>>
  <2>3. /\ e[1] = RootDir /\ e # <<RootDir, "c">> /\ e # <<RootDir, "p">> /\ e # <<RootDir, "s">>
    BY <1>3
  <2>4. Allowed(platform, world, e, to)
    BY <1>3, <2>1, <2>2, <2>3 DEF Allowed
  <2> QED BY <1>6, <1>7, <2>2, <2>4
<1>8. ASSUME NEW to \in {"o"} \cup {d \in {"p", "x"} : Free(world, d)}, w1 = SetLink(world, <<RootDir, "p">>, to)
      PROVE  LinksOK(platform, world') /\ PreparedOK'
  <2>1. Allowed(platform, world, <<RootDir, "p">>, to) /\ to # "t"
    BY <1>3, <1>4 DEF Allowed
  <2> QED BY <1>6, <1>8, <2>1
<1>9. ASSUME NEW to \in {d \in {"s", "x", Absent} : Free(world, d)}, w1 = SetLink(world, <<RootDir, "s">>, to)
      PROVE  LinksOK(platform, world') /\ PreparedOK'
  <2>1. Allowed(platform, world, <<RootDir, "s">>, to) /\ to # "t"
    BY <1>3, <1>4 DEF Allowed
  <2> QED BY <1>6, <1>9, <2>1
<1>10. ASSUME NEW edge \in {<<P, name>> : name \in {"t", "h"}},
              NEW to \in {Occupied} \cup {d \in {"x", prepared.target} \ {"none"} : Free(world, d)},
              w1 = SetLink(world, edge, to)
       PROVE  LinksOK(platform, world') /\ PreparedOK'
  <2>1. edge[1] = P /\ edge[1] # RootDir
    BY <1>2, <1>10
  <2>2. edge # <<RootDir, "c">> /\ edge # <<RootDir, "p">> /\ edge # <<RootDir, "s">> /\ edge # <<RootDir, AliasName>>
    BY <2>1
  <2>3. to \in {Occupied, "x", "t"} /\ (to \in {"x", "t"} => \A e \in DOMAIN world.link : world.link[e] # to)
    BY <1>3, <1>4, <1>5
  <2>4. Allowed(platform, world, edge, to)
    BY <1>2, <1>3, <2>1, <2>2, <2>3 DEF Allowed
  <2>5. prepared = NothingMade => to # "t"
    BY <1>3 DEF NothingMade
  <2> QED BY <1>6, <1>10, <2>4, <2>5
<1>11. ASSUME NEW e \in {e \in LeadsTo(world, "w") : e[1] = "p"},
              w1 = SetLink(SetLink(world, e, Absent), <<"p", IF e[2] = "w" THEN "v" ELSE "w">>, "w")
       PROVE  LinksOK(platform, world') /\ PreparedOK'
  <2> DEFINE w0 == SetLink(world, e, Absent) to == <<"p", IF e[2] = "w" THEN "v" ELSE "w">>
  <2>1. e[1] = "p" /\ e[1] # RootDir
    BY <1>3
  <2>2. e # <<RootDir, "c">> /\ e # <<RootDir, "p">> /\ e # <<RootDir, "s">> /\ e # <<RootDir, AliasName>>
    BY <2>1
  <2>3. Allowed(platform, world, e, Absent)
    BY <1>3, <2>1, <2>2 DEF Allowed
  <2>4. w0 = SetLink(world, e, Absent) /\ to[1] = "p"
    OBVIOUS
  <2> HIDE DEF w0, to
  <2>5. LinksOK(platform, w0)
    BY <2>3, <2>4, AllowedKeeps
  <2>6. to # <<RootDir, "c">> /\ to # <<RootDir, "p">> /\ to # <<RootDir, "s">> /\ to # <<RootDir, AliasName>>
    BY <1>3, <2>4
  <2>7. Allowed(platform, w0, to, "w")
    BY <1>3, <2>4, <2>6 DEF Allowed
  <2>8. w1 = SetLink(w0, to, "w")
    BY <1>11 DEF w0, to
  <2>9. LinksOK(platform, w1)
    BY <2>5, <2>7, <2>8, AllowedKeeps
  <2>10. \A f \in DOMAIN w0.link : f \in DOMAIN world.link /\ w0.link[f] = world.link[f]
    <3>1. OneLink(world, e, Absent, w0)
      BY <2>4, LinkSet
    <3> QED BY <3>1 DEF OneLink
  <2>11. \A f \in DOMAIN w1.link : w1.link[f] = "w" \/ (f \in DOMAIN w0.link /\ w1.link[f] = w0.link[f])
    <3>1. OneLink(w0, to, "w", w1)
      BY <2>5, <2>8, LinkSet
    <3> QED BY <3>1 DEF OneLink
  <2>12. PreparedOK'
    BY <1>1, <2>10, <2>11 DEF PreparedOK
  <2> QED BY <1>1, <2>9, <2>12
<1>12. ASSUME w1 \in Answers(world)
       PROVE  LinksOK(platform, world') /\ PreparedOK'
  <2>1. "link" \in DOMAIN world /\ "onB" \in DOMAIN world /\ "link" \notin DOMAIN Healthy /\ "onB" \notin DOMAIN Healthy
    BY DEF LinksOK, Healthy
  <2>2. w1.link = world.link /\ w1.onB = world.onB /\ DOMAIN w1 = DOMAIN world
    <3>1. \/ w1 = [f \in DOMAIN world |-> IF f \in DOMAIN Healthy THEN Healthy[f] ELSE world[f]]
          \/ \E v : w1 = [world EXCEPT !.read = v]
          \/ \E v : w1 = [world EXCEPT !.write = v]
          \/ \E v : w1 = [world EXCEPT !.fs = v]
          \/ \E v : w1 = [world EXCEPT !.ids = v]
          \/ \E v : w1 = [world EXCEPT !.clone = v]
          \/ \E v : w1 = [world EXCEPT !.mountIds = v]
      BY <1>12 DEF Answers
    <3>2. CASE w1 = [f \in DOMAIN world |-> IF f \in DOMAIN Healthy THEN Healthy[f] ELSE world[f]]
      BY <2>1, <3>2
    <3>3. CASE ~ (w1 = [f \in DOMAIN world |-> IF f \in DOMAIN Healthy THEN Healthy[f] ELSE world[f]])
      BY <2>1, <3>1, <3>3
    <3> QED BY <3>2, <3>3
  <2>3. LinksOK(platform, w1)
    BY <2>2 DEF LinksOK
  <2>4. PreparedOK'
    BY <1>1, <2>2 DEF PreparedOK
  <2> QED BY <1>1, <2>3, <2>4
<1>13. CASE w1 \in Relinked(world)
  <2> DEFINE A == {SetLink(world, <<RootDir, AliasName>>, to) : to \in AliasTargets \cup {Absent}}
             B == {SetLink(world, <<RootDir, "p">>, to) : to \in {"o"} \cup {d \in {"p", "x"} : Free(world, d)}}
             C == {SetLink(world, <<RootDir, "s">>, to) : to \in {d \in {"s", "x", Absent} : Free(world, d)}}
             D == {SetLink(world, edge, to) :
                     edge \in {<<P, name>> : name \in {"t", "h"}},
                     to \in {Occupied} \cup {d \in {"x", prepared.target} \ {"none"} : Free(world, d)}}
             E == {SetLink(SetLink(world, e, Absent), <<"p", IF e[2] = "w" THEN "v" ELSE "w">>, "w") :
                     e \in {e \in LeadsTo(world, "w") : e[1] = "p"}}
  <2>0. Relinked(world) = A \cup B \cup C \cup D \cup E
    BY DEF Relinked
  <2>1. w1 \in A \/ w1 \in B \/ w1 \in C \/ w1 \in D \/ w1 \in E
    <3> HIDE DEF A, B, C, D, E
    <3> QED BY <1>13, <2>0
  <2>2. CASE w1 \in A
    BY <1>7, <2>2
  <2>3. CASE w1 \in B
    BY <1>8, <2>3
  <2>4. CASE w1 \in C
    BY <1>9, <2>4
  <2>5. CASE w1 \in D
    BY <1>10, <2>5
  <2>6. CASE w1 \in E
    BY <1>11, <2>6
  <2> HIDE DEF A, B, C, D, E
  <2> QED BY <2>1, <2>2, <2>3, <2>4, <2>5, <2>6
<1> QED BY <1>12, <1>13

OwnPlaces(p, w, req) ==
  \A role \in Roles \ {"source"} :
    LET now == InspectPath(p, w, RolePath(req, role)) IN now.existing /\ LeafOf(now) = prepared[role]

\* What every plan that is executed is of: one volume, one mount, and apart.
PlanOK ==
  /\ plan.mode \in {"clone", "copy"} /\ LayoutError(platform, plan.reports) = "none"
  /\ plan.reports["source"].volume = reserved /\ plan.volume = reserved
  /\ plan.reports["source"].existing
  /\ \A i, j \in Roles : i # j => ~ RootsOverlap(plan.reports[i], plan.reports[j])
  /\ LeafOf(plan.reports["source"]) \notin {RootDir, "c"}

\* What a layout without fault says of each report.
LEMMA LayoutFacts ==
  ASSUME NEW p \in {"linux", "macos"}, NEW r, LayoutError(p, r) = "none"
  PROVE  /\ \A role \in Roles : r[role].volume # "unknown" /\ r[role].volume = r["source"].volume
         /\ p = "linux" => \A role \in Roles : r[role].mount # "unknown" /\ r[role].mount = r["source"].mount
BY DEF LayoutError

\* Equal digests are of reports that agree in all that a plan looks at.
LEMMA DigestTells ==
  ASSUME NEW p, NEW r, NEW q, EvidenceDigest(p, r) = EvidenceDigest(p, q), NEW role \in Roles
  PROVE  /\ r[role].path = q[role].path /\ r[role].existing = q[role].existing
         /\ r[role].ancestry = q[role].ancestry /\ r[role].volume = q[role].volume /\ r[role].mount = q[role].mount
         /\ LeafOf(r[role]) = LeafOf(q[role]) /\ Identities(r[role]) = Identities(q[role])
<1>1. [x \in Roles |-> DigestedFacts(r[x])] = [x \in Roles |-> DigestedFacts(q[x])]
  BY DEF EvidenceDigest
<1>2. DigestedFacts(r[role]) = DigestedFacts(q[role])
  BY <1>1
<1>3. /\ r[role].path = q[role].path /\ r[role].existing = q[role].existing
      /\ r[role].ancestry = q[role].ancestry /\ r[role].volume = q[role].volume /\ r[role].mount = q[role].mount
  BY <1>2 DEF DigestedFacts
<1> QED BY <1>3 DEF LeafOf, Identities

\* A plan for this world: where its source S is, and the parent D of what was made.
LEMMA OwnDirectories ==
  ASSUME platform \in {"linux", "macos"}, PlanOK, OwnPlaces(platform, world, request),
         prepared.target = "t", prepared.staging = "g", prepared.trash = "h",
         EvidenceDigest(platform, TheWorld) = EvidenceDigest(platform, plan.reports),
         NEW x, NEW y, Spelled(request, x, y), NEW S, S = Lookup(world, RootDir, x), NEW D, D = Lookup(world, RootDir, y)
  PROVE  /\ S \notin Nowhere /\ D \notin Nowhere /\ S \notin {RootDir, "c", D, "t", "g", "h"}
         /\ \A n \in {"t", "g", "h"} : Lookup(world, D, n) = n
         /\ LeafOf(TheWorld["source"]) = S
         /\ \A role \in Roles \ {"source"} : LeafOf(TheWorld[role]) = prepared[role]
         /\ \A role \in Roles : VolumeOf(world, LeafOf(TheWorld[role])) = reserved
         /\ platform = "linux" => AliasName \notin {x, y}
<1> DEFINE r == TheWorld
           q == plan.reports
<1>1. /\ r["source"] = InspectPath(platform, world, <<x>>) /\ "source" \in Roles
      /\ \A role \in Roles \ {"source"} : r[role] = InspectPath(platform, world, <<y, Leaves[role]>>)
  BY DEF TheWorld, AllReports, Spelled, Roles
<1>2. /\ Leaves["target"] = "t" /\ Leaves["staging"] = "g" /\ Leaves["trash"] = "h"
      /\ \A role \in Roles \ {"source"} : prepared[role] = Leaves[role] /\ Leaves[role] \in {"t", "g", "h"}
      /\ \A n \in {"t", "g", "h"} : \E role \in Roles \ {"source"} : Leaves[role] = n
  BY DEF Leaves, Roles
<1>3. \A role \in Roles \ {"source"} : r[role].existing /\ LeafOf(r[role]) = Leaves[role]
  BY <1>1, <1>2 DEF OwnPlaces, Spelled
<1>4. /\ \A role \in Roles : /\ r[role].path = q[role].path /\ r[role].existing = q[role].existing
                             /\ r[role].volume = q[role].volume /\ r[role].mount = q[role].mount
                             /\ LeafOf(r[role]) = LeafOf(q[role]) /\ Identities(r[role]) = Identities(q[role])
  BY DigestTells
<1> HIDE DEF r, q
<1>5. r["source"].existing /\ LeafOf(r["source"]) \notin {RootDir, "c"}
  BY <1>1, <1>4 DEF PlanOK, q
<1>6. /\ S \notin Nowhere /\ LeafOf(r["source"]) = S /\ Identities(r["source"]) = {RootDir, S}
      /\ r["source"].ancestry = <<RootDir, S>>
  BY <1>1, <1>5, ReportOne
<1>7. ASSUME NEW role \in Roles \ {"source"}
      PROVE  /\ D \notin Nowhere /\ Lookup(world, D, Leaves[role]) = Leaves[role]
             /\ Identities(r[role]) = {RootDir, D, Leaves[role]}
             /\ r[role].ancestry = <<RootDir, D, Leaves[role]>>
  <2> DEFINE n == Leaves[role] e == Lookup(world, D, n) rep == r[role]
  <2>1. rep = InspectPath(platform, world, <<y, n>>) /\ rep.existing /\ LeafOf(rep) = n /\ e = Lookup(world, D, n)
    BY <1>1, <1>3
  <2> HIDE DEF n, e, rep
  <2>2. D \notin Nowhere /\ e \notin Nowhere
    BY <2>1, ReportTwo
  <2>3. LeafOf(rep) = e /\ rep.ancestry = <<RootDir, D, e>> /\ Identities(rep) = {RootDir, D, e}
    BY <2>1, <2>2, ReportTwo
  <2> QED BY <2>1, <2>2, <2>3 DEF n, e, rep
<1>8. \A n \in {"t", "g", "h"} : Lookup(world, D, n) = n /\ D \notin Nowhere
  BY <1>2, <1>7
<1>9. S \notin {RootDir, "c", D, "t", "g", "h"}
  <2>1. ASSUME NEW role \in Roles \ {"source"} PROVE S \notin {RootDir, D, Leaves[role]}
    <3>1. ~ RootsOverlap(q["source"], q[role])
      BY <1>1 DEF PlanOK, q
    <3>2. q["source"].existing /\ LeafOf(q["source"]) = S
      BY <1>1, <1>4, <1>5, <1>6
    <3>3. S \notin Identities(q[role])
      BY <3>1, <3>2 DEF RootsOverlap
    <3> QED BY <1>4, <1>7, <3>3
  <2> QED BY <1>2, <1>5, <1>6, <2>1
<1>10. \A role \in Roles : q[role].volume # "unknown" /\ q[role].volume = reserved
  <2>1. LayoutError(platform, q) = "none" /\ q["source"].volume = reserved
    BY DEF PlanOK, q
  <2> QED BY <2>1, LayoutFacts
<1>11. ASSUME NEW role \in Roles PROVE VolumeOf(world, LeafOf(r[role])) = reserved
  <2> DEFINE path == RolePath(request, role) dir == EndOf(Walk(world, path)) rep == r[role]
  <2>1. rep = InspectPath(platform, world, path) /\ dir = EndOf(Walk(world, path))
    BY DEF r, TheWorld, AllReports
  <2>2. rep.volume # "unknown" /\ rep.volume = reserved
    BY <1>4, <1>10
  <2> HIDE DEF path, dir, rep
  <2>3. rep.volume = VolumeIdOf(platform, world, dir) /\ LeafOf(rep) = dir
    BY <2>1, ReportFacts
  <2>4. VolumeOf(world, dir) = reserved
    BY <2>2, <2>3 DEF VolumeIdOf
  <2> QED BY <2>3, <2>4 DEF rep
<1>12. platform = "linux" => AliasName \notin {x, y}
  <2> SUFFICES ASSUME platform = "linux" PROVE AliasName \notin {x, y}
    OBVIOUS
  <2>1. LayoutError(platform, q) = "none" /\ "target" \in Roles /\ "target" \in Roles \ {"source"}
    BY DEF PlanOK, q, Roles
  <2>2. \A role \in Roles : r[role].mount # "unknown" /\ r[role].mount = r["source"].mount
    BY <1>1, <1>4, <2>1, LayoutFacts
  <2>3. ASSUME NEW path, NEW rep, rep = InspectPath(platform, world, path), rep.mount # "unknown"
        PROVE  rep.mount = IF Len(rep.ancestry) > 1 /\ path[1] = AliasName THEN "alias" ELSE VolumeOf(world, LeafOf(rep))
    <3> DEFINE dir == EndOf(Walk(world, path))
    <3>1. dir = EndOf(Walk(world, path))
      OBVIOUS
    <3> HIDE DEF dir
    <3>2. rep.mount = MountIdOf(platform, world, path, Walk(world, path)) /\ rep.ancestry = Walk(world, path)
      BY <2>3, <3>1, ReportFacts
    <3> QED BY <2>3, <3>2 DEF MountIdOf, LeafOf
  <2> DEFINE px == <<x>> py == <<y, "t">>
  <2>4. px[1] = x /\ py[1] = y
    OBVIOUS
  <2>5. r["source"] = InspectPath(platform, world, px) /\ r["target"] = InspectPath(platform, world, py)
    BY <1>1, <1>2, <2>1
  <2>6. Len(r["source"].ancestry) > 1 /\ Len(r["target"].ancestry) > 1
    <3>1. Len(<<RootDir, S>>) > 1 /\ Len(<<RootDir, D, Leaves["target"]>>) > 1
      OBVIOUS
    <3> QED BY <1>6, <1>7, <2>1, <3>1
  <2> HIDE DEF px, py
  <2>7. r["source"].mount = IF px[1] = AliasName THEN "alias" ELSE VolumeOf(world, LeafOf(r["source"]))
    BY <1>1, <2>2, <2>3, <2>5, <2>6
  <2>8. r["target"].mount = IF py[1] = AliasName THEN "alias" ELSE VolumeOf(world, LeafOf(r["target"]))
    BY <2>1, <2>2, <2>3, <2>5, <2>6
  <2>9. \A d : VolumeOf(world, d) \in {"A", "B"}
    BY DEF VolumeOf
  <2>10. x # y
    BY DEF Spelled
  <2>11. r["target"].mount = r["source"].mount
    BY <2>1, <2>2
  <2> QED BY <2>4, <2>7, <2>8, <2>9, <2>10, <2>11
<1> QED BY <1>2, <1>3, <1>6, <1>7, <1>8, <1>9, <1>11, <1>12 DEF r

\* Whether the request's parent is an active Workspace that is in its place.
ParentIsActive(w, req) == Lookup(w, RootDir, req.target[1]) = "w" /\ ActiveInPlace(w)

\* In such a world the made directories are in no other tree, and the source holds none.
LEMMA OwnApart ==
  ASSUME NEW p \in {"linux", "macos"}, NEW w, LinksOK(p, w), NEW x, NEW y,
         x \in {"s", AliasName}, y \in {"p", "s", AliasName}, x # y,
         p = "linux" => AliasName \notin {x, y}, NEW S, S = Lookup(w, RootDir, x), NEW D, D = Lookup(w, RootDir, y),
         S \notin Nowhere, D \notin Nowhere, S \notin {RootDir, "c", D, "t", "g", "h"},
         \A n \in {"t", "g", "h"} : Lookup(w, D, n) = n
  PROVE  /\ Within(w, "c") = {"c"} /\ "c" \notin Within(w, S) /\ Within(w, S) \cap {"t", "g", "h"} = {}
         /\ D # "w" => "t" \notin Within(w, "w")
<1> DEFINE N == {"t", "g", "h", D, RootDir} \cup (IF D = "w" THEN {"p"} ELSE {})
<1>1. Absent \in Nowhere /\ Absent = "absent" /\ RootDir = "root" /\ AliasName = "a"
  BY DEF Nowhere, Absent, RootDir, AliasName
<1>2. /\ <<RootDir, x>> \in DOMAIN w.link /\ w.link[<<RootDir, x>>] = S
      /\ <<RootDir, y>> \in DOMAIN w.link /\ w.link[<<RootDir, y>>] = D
      /\ \A n \in {"t", "g", "h"} : <<D, n>> \in DOMAIN w.link /\ w.link[<<D, n>>] = n
  <2>1. \A d, n : Lookup(w, d, n) # Absent => <<d, n>> \in DOMAIN w.link /\ w.link[<<d, n>>] = Lookup(w, d, n)
    BY DEF Lookup
  <2> QED BY <1>1, <2>1
<1>3. /\ y = "p" => D \in {"p", "x", "o"}
      /\ y = "s" => D \in {"s", "x"}
      /\ y = AliasName => D \in {"p", "s", "c", "w", "o", RootDir}
      /\ x = "s" => S \in {"s", "x"}
  BY <1>2 DEF LinksOK
<1>4. S \notin N
  BY <1>1, <1>3
<1>5. ASSUME NEW e \in DOMAIN w.link, w.link[e] \in N PROVE e[1] \in N
  <2>1. CASE w.link[e] \in {"t", "g", "h"}
    <3> DEFINE n == w.link[e]
    <3>1. n \in {"t", "g", "h"} /\ <<D, n>> \in DOMAIN w.link /\ w.link[<<D, n>>] = n
      BY <1>2, <2>1
    <3>2. e = <<D, n>>
      BY <2>1, <3>1 DEF LinksOK
    <3> HIDE DEF n
    <3> QED BY <3>2
  <2>2. CASE w.link[e] = RootDir \/ w.link[e] \in {"c", "p", "s", "o"}
    <3>1. e[1] = RootDir
      BY <2>2 DEF LinksOK
    <3> QED BY <3>1
  <2>3. CASE w.link[e] = "x" /\ D = "x"
    <3>1. e = <<RootDir, y>>
      BY <1>2, <2>3 DEF LinksOK
    <3> QED BY <3>1
  <2>4. CASE w.link[e] = "w" /\ D = "w"
    <3>1. e[1] \in {"p", RootDir}
      BY <2>4 DEF LinksOK
    <3> QED BY <2>4, <3>1
  <2>5. D \in {"p", "s", "c", "w", "o", "x", RootDir}
    BY <1>3
  <2> QED BY <1>5, <2>1, <2>2, <2>3, <2>4, <2>5
<1>6. Within(w, S) \cap N = {}
  <2> HIDE DEF N
  <2> QED BY <1>4, <1>5, NotWithin
<1>7. "c" \notin Within(w, S)
  <2> DEFINE M == {"c", RootDir}
  <2>1. S \notin M /\ \A e \in DOMAIN w.link : w.link[e] \in M => e[1] \in M
    BY DEF LinksOK
  <2>2. "c" \in M
    OBVIOUS
  <2> HIDE DEF M
  <2>3. Within(w, S) \cap M = {}
    BY <2>1, NotWithin
  <2> QED BY <2>2, <2>3
<1>8. Within(w, "c") = {"c"}
  BY OnlyWithin DEF LinksOK
<1>9. ASSUME D # "w" PROVE "t" \notin Within(w, "w")
  <2>1. "w" \notin N /\ "t" \in N
    BY <1>1, <1>9
  <2> HIDE DEF N
  <2>2. Within(w, "w") \cap N = {}
    BY <1>5, <2>1, NotWithin
  <2> QED BY <2>1, <2>2
<1> QED BY <1>6, <1>7, <1>8, <1>9

\* How far create has come: nothing is made yet, a materializer is at work, there
\* is a plan, all three directories are made.
Unmade == \/ pc \in {"preview", "requested", "source", "preliminary", "prepare"}
          \/ pc \in Probing /\ stage = "preliminary"
Executing == pc \in {"materialize", "bind", "run"} \/ (pc \in Probing /\ stage = "materialize")
Planned == Executing \/ pc = "fallback" \/ (pc \in Probing /\ stage = "fallback")
AllMade == Planned \/ pc = "prepared" \/ (pc \in Probing /\ stage = "prepared")

\* The world is as users keep it, and so is what create made.
OwnShape ==
  /\ platform \in {"linux", "macos"} /\ request \in Requests
  /\ LinksOK(platform, world) /\ PreparedOK

\* What the stage create has reached says of what it made and planned.
OwnStage ==
  /\ pc \notin {"preview", "requested", "done"} => SpellingError(request) = "none"
  /\ Unmade => prepared = NothingMade
  /\ AllMade => prepared.target = "t" /\ prepared.staging = "g" /\ prepared.trash = "h"
  /\ Planned => PlanOK
  /\ pc = "probeSource" => reports = NoReports

\* In a world that stands still since the last probe of a materializer began.
OwnReads ==
  Executing /\ "probe" \notin moved =>
    /\ OwnPlaces(platform, world, request)
    /\ pc = "probeRest" => "source" \in DOMAIN reports /\ reports["source"] = TheSource
    /\ pc \in {"materialize", "bind"} => reports = TheWorld
    /\ pc \in {"bind", "run"} => EvidenceDigest(platform, TheWorld) = EvidenceDigest(platform, plan.reports)
    /\ pc = "run" => Latest.dirs = DirectoriesOf(world, request)

\* In a world that users left alone since the preliminary probe began.
OwnActive ==
  "active" \notin moved =>
    /\ pc = "preliminary" => reports["target"] = InspectPath(platform, world, request.target)
    /\ pc = "prepare" \/ AllMade => ~ ParentIsActive(world, request)

\* The inductive invariant of WritesOnlyToItsOwn.
OwnInv == FallbackInv /\ OwnShape /\ OwnStage /\ OwnReads /\ OwnActive

\* What the invariant says of the directories a materializer has bound: the
\* evidence it read is the plan's, so the places are the ones found to be apart.
LEMMA OwnMeans ==
  ASSUME OwnInv
  PROVE  WritesOnlyToItsOwn
<1> SUFFICES ASSUME pc = "run", "probe" \notin moved
             PROVE  LET dirs == Latest.dirs IN
                    /\ \A role \in Roles \ {"source"} : dirs[role] = prepared[role]
                    /\ \A role \in Roles : VolumeOf(world, dirs[role]) = reserved
                    /\ Within(world, "c") \cap {dirs[role] : role \in Roles} = {}
                    /\ "c" \notin Within(world, dirs["source"])
                    /\ Within(world, dirs["source"]) \cap {"t", "g", "h"} = {}
                    /\ "active" \notin moved /\ ActiveInPlace(world) => dirs["target"] \notin Within(world, "w")
  BY DEF WritesOnlyToItsOwn
<1>1. /\ platform \in {"linux", "macos"} /\ request \in Requests /\ LinksOK(platform, world)
      /\ SpellingError(request) = "none" /\ PlanOK /\ OwnPlaces(platform, world, request)
      /\ prepared.target = "t" /\ prepared.staging = "g" /\ prepared.trash = "h"
      /\ EvidenceDigest(platform, TheWorld) = EvidenceDigest(platform, plan.reports)
      /\ Latest.dirs = DirectoriesOf(world, request)
      /\ "active" \notin moved => ~ ParentIsActive(world, request)
  BY DEF OwnInv, OwnShape, OwnStage, OwnReads, OwnActive, AllMade, Planned, Executing
<1>2. PICK x, y : Spelled(request, x, y)
  BY <1>1, SpelledRequest
<1> DEFINE S == Lookup(world, RootDir, x)
           D == Lookup(world, RootDir, y)
           dirs == Latest.dirs
<1>3. S = Lookup(world, RootDir, x) /\ D = Lookup(world, RootDir, y)
  OBVIOUS
<1> HIDE DEF S, D
<1>4. /\ S \notin Nowhere /\ D \notin Nowhere /\ S \notin {RootDir, "c", D, "t", "g", "h"}
      /\ \A n \in {"t", "g", "h"} : Lookup(world, D, n) = n
      /\ LeafOf(TheWorld["source"]) = S
      /\ \A role \in Roles \ {"source"} : LeafOf(TheWorld[role]) = prepared[role]
      /\ \A role \in Roles : VolumeOf(world, LeafOf(TheWorld[role])) = reserved
      /\ platform = "linux" => AliasName \notin {x, y}
  BY <1>1, <1>2, <1>3, OwnDirectories
<1>5. x \in {"s", AliasName} /\ y \in {"p", "s", AliasName} /\ x # y /\ request.target = <<y, "t">>
  BY <1>2 DEF Spelled
<1>6. /\ Within(world, "c") = {"c"} /\ "c" \notin Within(world, S) /\ Within(world, S) \cap {"t", "g", "h"} = {}
      /\ D # "w" => "t" \notin Within(world, "w")
  BY <1>1, <1>3, <1>4, <1>5, OwnApart
<1>7. \A role \in Roles : dirs[role] = LeafOf(TheWorld[role])
  BY <1>1 DEF DirectoriesOf, TheWorld, AllReports, InspectPath, LeafOf
<1> HIDE DEF dirs
<1>8. dirs["source"] = S /\ dirs["target"] = "t" /\ \A role \in Roles : dirs[role] \in {S, "t", "g", "h"}
  BY <1>1, <1>4, <1>7 DEF Roles
<1>9. \A role \in Roles \ {"source"} : dirs[role] = prepared[role]
  BY <1>4, <1>7
<1>10. \A role \in Roles : VolumeOf(world, dirs[role]) = reserved
  BY <1>4, <1>7
<1>11. Within(world, "c") \cap {dirs[role] : role \in Roles} = {}
  BY <1>4, <1>6, <1>8
<1>12. "active" \notin moved /\ ActiveInPlace(world) => dirs["target"] \notin Within(world, "w")
  <2> SUFFICES ASSUME "active" \notin moved, ActiveInPlace(world) PROVE D # "w"
    BY <1>6, <1>8
  <2>1. <<y, "t">>[1] = y
    OBVIOUS
  <2>2. request.target[1] = y
    BY <1>5, <2>1
  <2>3. ~ (Lookup(world, RootDir, request.target[1]) = "w")
    BY <1>1 DEF ParentIsActive
  <2> QED BY <1>3, <2>2, <2>3
<1> QED BY <1>6, <1>8, <1>9, <1>10, <1>11, <1>12 DEF dirs

\* A selected plan is of the reports it was selected from, which are laid out for it.
LEMMA PlanSound ==
  ASSUME NEW p, NEW r, NEW allow, SelectPlan(p, r, allow).mode # "none"
  PROVE  /\ SelectPlan(p, r, allow).mode \in {"clone", "copy"} /\ SelectPlan(p, r, allow).reports = r
         /\ SelectPlan(p, r, allow).volume = r["source"].volume
         /\ LayoutError(p, r) = "none" /\ CommonUnsupported(r) = {}
<1>1. \A e : Refused(e).mode = "none"
  BY DEF Refused
<1>2. CASE SelectPlan(p, r, allow) = ForCowClone(p, r)
  <2>1. LayoutError(p, r) = "none"
    BY <1>1, <1>2, Zenon DEF ForCowClone
  <2>2. CowCandidate(p, r).state # "Unsupported"
    BY <1>1, <1>2, <2>1, Zenon DEF ForCowClone
  <2>3. ForCowClone(p, r) = PlanFor(r, "clone", "none")
    BY <2>1, <2>2, Zenon DEF ForCowClone
  <2>4. CommonUnsupported(r) = {}
    BY <2>2 DEF CowCandidate, Finish
  <2> QED BY <1>2, <2>1, <2>3, <2>4 DEF PlanFor
<1>3. CASE SelectPlan(p, r, allow) = ForFullCopyAfterPreflight(p, r)
  <2> DEFINE cow == CowCandidate(p, r) copy == FullCopyCandidate(p, r) layout == LayoutError(p, r)
             plain == cow.unsupported # {"clone_capability"} \/ cow.unknown # {}
             planned == ForFullCopyAfterPreflight(p, r)
  <2>1. planned =
          CASE layout # "none" -> Refused(layout)
            [] copy.state # "Supported" -> Refused("FullCopyUnavailable")
            [] plain -> Refused("FallbackNotEligible")
            [] OTHER -> PlanFor(r, "copy", "CloneUnsupportedAtPreflight")
    BY DEF ForFullCopyAfterPreflight
  <2>2. planned.mode # "none"
    BY <1>3
  <2> HIDE DEF cow, copy, layout, plain, planned
  <2>3. layout = "none" /\ copy.state = "Supported" /\ ~ plain
    BY <1>1, <2>1, <2>2, Zenon
  <2>4. planned = PlanFor(r, "copy", "CloneUnsupportedAtPreflight")
    BY <2>1, <2>3, Zenon
  <2>5. CommonUnsupported(r) = {}
    BY <2>3 DEF FullCopyCandidate, Finish, copy
  <2> QED BY <1>3, <2>3, <2>4, <2>5 DEF PlanFor, layout, planned
<1> QED BY <1>2, <1>3 DEF SelectPlan

\* The same of a copy planned after a clone, which is on the volume of the clone.
LEMMA ReplanSound ==
  ASSUME NEW p, NEW r, NEW prior, ForFullCopyAfterCowUnavailable(p, r, prior).mode # "none",
         NEW replanned, replanned = ForFullCopyAfterCowUnavailable(p, r, prior)
  PROVE  /\ replanned.mode = "copy" /\ replanned.reports = r
         /\ replanned.volume = r["source"].volume /\ r["source"].volume = prior.volume
         /\ LayoutError(p, r) = "none" /\ CommonUnsupported(r) = {}
         /\ \A role \in Roles : r[role].ancestry = prior.reports[role].ancestry
<1>1. \A e : Refused(e).mode = "none"
  BY DEF Refused
<1> DEFINE copy == FullCopyCandidate(p, r) layout == LayoutError(p, r)
           off == r["source"].volume # prior.volume
           same == ReportPathsMatchPlan(r, prior)
<1>2. replanned =
        CASE prior.mode # "clone" -> Refused("PreviousAttemptMismatch")
          [] ~ same -> Refused("PreviousAttemptMismatch")
          [] layout # "none" -> Refused(layout)
          [] off -> Refused("PreviousAttemptMismatch")
          [] copy.state # "Supported" -> Refused("FullCopyUnavailable")
          [] OTHER -> PlanFor(r, "copy", "CloneUnavailableAtRuntime")
  BY DEF ForFullCopyAfterCowUnavailable
<1> HIDE DEF copy, layout, off, same
<1>3. prior.mode = "clone" /\ same /\ layout = "none" /\ ~ off /\ copy.state = "Supported"
  BY <1>1, <1>2, Zenon
<1>4. replanned = PlanFor(r, "copy", "CloneUnavailableAtRuntime")
  BY <1>2, <1>3, Zenon
<1>5. CommonUnsupported(r) = {}
  BY <1>3 DEF FullCopyCandidate, Finish, copy
<1>6. \A role \in Roles : r[role].ancestry = prior.reports[role].ancestry
  BY ReplannedInPlace
<1> QED BY <1>3, <1>4, <1>5, <1>6 DEF PlanFor, layout, off

\* Such a plan may be executed when its source is apart from the control root.
LEMMA PlanFits ==
  ASSUME NEW r, plan'.mode \in {"clone", "copy"}, plan'.reports = r, plan'.volume = r["source"].volume,
         LayoutError(platform, r) = "none", CommonUnsupported(r) = {}, r["source"].volume = reserved,
         LeafOf(r["source"]) \notin {RootDir, "c"}, UNCHANGED <<platform, reserved>>
  PROVE  PlanOK'
<1>1. r["source"].existing
  BY DEF CommonUnsupported
<1>2. \A i, j \in Roles : i # j => ~ RootsOverlap(r[i], r[j])
  BY DEF CommonUnsupported
<1> QED BY <1>1, <1>2 DEF PlanOK

\* The control root is where it always was.
LEMMA ControlInPlace ==
  ASSUME NEW p, NEW w, LinksOK(p, w), NEW c, c = InspectPath(p, w, ControlPath)
  PROVE  LeafOf(c) = "c" /\ Identities(c) = {RootDir, "c"}
<1> DEFINE k == Lookup(w, RootDir, "c")
<1>1. k = Lookup(w, RootDir, "c") /\ k = "c" /\ k \notin Nowhere
  BY DEF LinksOK, Lookup, Nowhere, Absent, Occupied
<1>2. c = InspectPath(p, w, <<"c">>)
  BY DEF ControlPath
<1> HIDE DEF k
<1>3. LeafOf(c) = k /\ Identities(c) = {RootDir, k}
  BY <1>1, <1>2, ReportOne
<1> QED BY <1>1, <1>3

\* A parent that passed the preliminary checks is not an active Workspace in its place.
LEMMA NotActive ==
  ASSUME NEW p, NEW w, LinksOK(p, w), NEW req, NEW x, NEW y, Spelled(req, x, y),
         NEW target, target = InspectPath(p, w, req.target), target.volume # "unknown",
         MissingTargetError(req, target) = "none", ~ ActiveIdentityOverlap(p, w, target)
  PROVE  ~ ParentIsActive(w, req)
<1> SUFFICES ASSUME Lookup(w, RootDir, req.target[1]) = "w", ActiveInPlace(w)
             PROVE  FALSE
  BY DEF ParentIsActive
<1> DEFINE D == Lookup(w, RootDir, y) e == Lookup(w, D, "t")
<1>1. req.target = <<y, "t">> /\ Len(req.target) = 2 /\ D = "w"
  <2>1. <<y, "t">>[1] = y /\ Len(<<y, "t">>) = 2
    OBVIOUS
  <2> QED BY <2>1 DEF Spelled
<1>2. D = Lookup(w, RootDir, y) /\ e = Lookup(w, D, "t") /\ "w" \notin Nowhere
  BY DEF Nowhere, Absent, Occupied
<1> HIDE DEF D, e
<1>3. Len(target.ancestry) = 2
  BY <1>1, Zenon DEF MissingTargetError
<1>4. LeafOf(target) = "w" /\ Identities(target) = {RootDir, "w"}
  <2>1. e \in Nowhere
    <3>1. D \notin Nowhere /\ e \notin Nowhere => target.ancestry = <<RootDir, D, e>>
      BY <1>1, <1>2, ReportTwo
    <3>2. Len(<<RootDir, D, e>>) = 3
      OBVIOUS
    <3> QED BY <1>1, <1>2, <1>3, <3>1, <3>2
  <2> QED BY <1>1, <1>2, <2>1, ReportTwo
<1>5. target.volume = "A"
  <2> DEFINE path == req.target dir == EndOf(Walk(w, path))
  <2>1. target = InspectPath(p, w, path) /\ dir = EndOf(Walk(w, path))
    OBVIOUS
  <2> HIDE DEF path, dir
  <2>2. target.volume = VolumeIdOf(p, w, dir) /\ LeafOf(target) = dir
    BY <2>1, ReportFacts
  <2>3. VolumeOf(w, "w") = "A"
    BY DEF VolumeOf, LinksOK
  <2> QED BY <1>4, <2>2, <2>3 DEF VolumeIdOf
<1>6. PICK path \in ProtectedPaths : EndOf(Walk(w, path)) = "w"
  BY DEF ActiveInPlace
<1>7. PICK name : path = <<"p", name>>
  <2>1. ParentOf(ActiveTarget) = <<"p">>
    BY ShortPaths, Zenon DEF ActiveTarget
  <2>2. PICK name : path = Append(<<"p">>, name)
    BY <1>6, <2>1 DEF ProtectedPaths
  <2>3. Append(<<"p">>, name) = <<"p", name>>
    BY ShortPaths, Zenon
  <2> QED BY <2>2, <2>3
<1> DEFINE rep == InspectPath(p, w, <<"p", name>>) P == Lookup(w, RootDir, "p") f == Lookup(w, P, name)
<1>8. /\ rep = InspectPath(p, w, <<"p", name>>) /\ P = Lookup(w, RootDir, "p") /\ f = Lookup(w, P, name)
      /\ P \in {"p", "x", "o"} /\ P \notin Nowhere
  BY DEF LinksOK, Lookup, Nowhere, Absent, Occupied
<1> HIDE DEF rep, P, f
<1>9. LeafOf(rep) = "w"
  <2> DEFINE dir == EndOf(Walk(w, <<"p", name>>)) pa == <<"p", name>>
  <2>1. rep = InspectPath(p, w, pa) /\ dir = EndOf(Walk(w, pa)) /\ dir = "w"
    BY <1>6, <1>7, <1>8
  <2> HIDE DEF dir, pa
  <2>2. LeafOf(rep) = dir
    <3>1. dir = EndOf(Walk(w, pa))
      BY <2>1
    <3> QED BY <2>1, <3>1 DEF LeafOf, InspectPath
  <2> QED BY <2>1, <2>2
<1>10. rep.existing
  BY <1>8, <1>9, ReportTwo
<1>11. ActiveIdentityOverlap(p, w, target)
  <2>1. rep = InspectPath(p, w, path)
    BY <1>7, <1>8
  <2>2. TargetEntersExistingRoot(target, rep)
    BY <1>4, <1>9 DEF TargetEntersExistingRoot
  <2> QED BY <1>5, <1>6, <1>10, <2>1, <2>2 DEF ActiveIdentityOverlap, ActiveVolume
<1> QED BY <1>11

\* The world and what was made keep their shape while neither changes.
LEMMA ShapeStays ==
  ASSUME OwnShape, UNCHANGED <<platform, request, world, prepared>>
  PROVE  OwnShape'
BY DEF OwnShape, PreparedOK

\* A plan stays sound while it is the plan.
LEMMA PlanStays ==
  ASSUME PlanOK, UNCHANGED <<platform, plan, reserved>>
  PROVE  PlanOK'
BY DEF PlanOK

\* Nothing is claimed of a create that has answered.
LEMMA OwnDone ==
  ASSUME FallbackInv', OwnShape', pc' = "done"
  PROVE  OwnInv'
BY DEF OwnInv, OwnStage, OwnReads, OwnActive, Unmade, AllMade, Planned, Executing, Probing

\* The places of a world that no step has changed.
LEMMA OwnView ==
  ASSUME UNCHANGED <<platform, world, request, prepared>>
  PROVE  /\ TheWorld' = TheWorld /\ TheSource' = TheSource
         /\ OwnPlaces(platform, world, request)' = OwnPlaces(platform, world, request)
         /\ ParentIsActive(world, request)' = ParentIsActive(world, request)
         /\ (SpellingError(request))' = SpellingError(request)
<1>1. TheWorld' = TheWorld
  BY DEF TheWorld
<1>2. TheSource' = TheSource
  BY DEF TheSource
<1>3. OwnPlaces(platform, world, request)' = OwnPlaces(platform, world, request)
  BY DEF OwnPlaces
<1> QED BY <1>1, <1>2, <1>3

\* The steps before anything is made.
LEMMA OwnBefore ==
  ASSUME OwnInv, FallbackInv', Preview \/ CheckSpelling \/ InspectSource \/ Reserve
  PROVE  OwnInv'
<1>1. /\ UNCHANGED <<platform, world, request, prepared>> /\ OwnShape'
      /\ pc \in {"preview", "requested", "source", "preliminary"}
  <2>1. UNCHANGED <<platform, world, request, prepared>> /\ pc \in {"preview", "requested", "source", "preliminary"}
    BY DEF Preview, CheckSpelling, InspectSource, Reserve, reading
  <2> QED BY <2>1, ShapeStays DEF OwnInv
<1>2. prepared' = NothingMade
  BY <1>1 DEF OwnInv, OwnStage, Unmade
<1>3. CASE pc' = "done"
  BY <1>1, <1>3, OwnDone
<1>4. CASE Preview
  <2>1. pc' = "requested"
    BY <1>4 DEF Preview
  <2> QED BY <1>1, <1>2, <2>1
          DEF OwnInv, OwnStage, OwnReads, OwnActive, Unmade, AllMade, Planned, Executing, Probing
<1>5. CASE CheckSpelling /\ pc' # "done"
  <2>1. pc' = "source" /\ SpellingError(request) = "none"
    BY <1>5 DEF CheckSpelling, Refuse
  <2>2. (SpellingError(request))' = "none"
    BY <1>1, <2>1, OwnView
  <2> QED BY <1>1, <1>2, <2>1, <2>2
          DEF OwnInv, OwnStage, OwnReads, OwnActive, Unmade, AllMade, Planned, Executing, Probing
<1>6. CASE InspectSource /\ pc' # "done"
  <2>1. pc = "source" /\ pc' = "probeSource" /\ stage' = "preliminary" /\ reports' = NoReports
    BY <1>6 DEF InspectSource, Refuse, BeginProbe
  <2>2. (SpellingError(request))' = "none"
    BY <1>1, <2>1, OwnView DEF OwnInv, OwnStage
  <2> QED BY <1>1, <1>2, <2>1, <2>2
          DEF OwnInv, OwnStage, OwnReads, OwnActive, Unmade, AllMade, Planned, Executing, Probing
<1>7. CASE Reserve /\ pc' # "done"
  <2> DEFINE early == PreliminaryError(platform, world, request, reports, control)
             selected == SelectPlan(platform, reports, request.allow)
             target == reports["target"]
  <2>1. pc = "preliminary" /\ pc' = "prepare" /\ early = "none" /\ selected.mode # "none" /\ moved' = moved
    BY <1>7 DEF Reserve, Refuse
  <2>2. (SpellingError(request))' = "none" /\ SpellingError(request) = "none"
    BY <1>1, <2>1, OwnView DEF OwnInv, OwnStage
  <2>3. ASSUME "active" \notin moved PROVE ~ ParentIsActive(world, request)
    <3>1. target = InspectPath(platform, world, request.target) /\ request \in Requests /\ LinksOK(platform, world)
          /\ platform \in {"linux", "macos"}
      BY <2>1, <2>3 DEF OwnInv, OwnActive, OwnShape
    <3>2. PICK x, y : Spelled(request, x, y)
      BY <2>2, <3>1, SpelledRequest
    <3>3. target.volume # "unknown"
      <4>1. LayoutError(platform, reports) = "none"
        BY <2>1, PlanSound
      <4>2. "target" \in Roles
        BY DEF Roles
      <4> QED BY <3>1, <4>1, <4>2, LayoutFacts
    <3>4. MissingTargetError(request, target) = "none" /\ ~ ActiveIdentityOverlap(platform, world, target)
      <4> DEFINE a == ProbeErrorCode(reports) # "none" b == SourceError(reports["source"]) # "none"
                 d == ActiveIdentityOverlap(platform, world, target)
                 e == MissingTargetError(request, target) f == TargetEntersExistingRoot(target, control)
      <4>1. early =
              CASE a -> ProbeErrorCode(reports) [] b -> SourceError(reports["source"]) [] d -> "TargetConflict"
                [] e # "none" -> e [] f -> "TargetLayout" [] OTHER -> "none"
        BY DEF PreliminaryError
      <4>2. (a => ProbeErrorCode(reports) # "none") /\ (b => SourceError(reports["source"]) # "none") /\ early = "none"
        BY <2>1
      <4> HIDE DEF a, b, d, e, f, early
      <4>3. ~ a /\ ~ b /\ ~ d
        BY <4>1, <4>2, Zenon
      <4>4. e = "none"
        BY <4>1, <4>2, <4>3, Zenon
      <4> QED BY <4>3, <4>4 DEF d, e
    <3> HIDE DEF target
    <3> QED BY <3>1, <3>2, <3>3, <3>4, NotActive
  <2>4. "active" \notin moved' => ~ ParentIsActive(world, request)'
    BY <1>1, <2>1, <2>3, OwnView
  <2> QED BY <1>1, <1>2, <2>1, <2>2, <2>4
          DEF OwnInv, OwnStage, OwnReads, OwnActive, Unmade, AllMade, Planned, Executing, Probing
<1> QED BY <1>3, <1>4, <1>5, <1>6, <1>7

\* A probe reads the world that its materializer began with, or notices nothing.
LEMMA OwnProbes ==
  ASSUME OwnInv, FallbackInv', ProbeSource \/ ProbeRest
  PROVE  OwnInv'
<1>1. /\ UNCHANGED <<platform, world, request, prepared>> /\ UNCHANGED <<plan, reserved, stage, moved>> /\ OwnShape'
      /\ pc \in Probing /\ stage \in Stages
  <2>1. /\ UNCHANGED <<platform, world, request, prepared>> /\ UNCHANGED <<plan, reserved, stage, moved>>
        /\ pc \in Probing
    BY DEF ProbeSource, ProbeRest, reading, Probing
  <2> QED BY <2>1, ShapeStays DEF OwnInv, FallbackInv, ControlOK
<1>2. \/ ProbeSource /\ pc = "probeSource" /\ pc' = "probeRest"
      \/ ProbeRest /\ pc = "probeRest" /\ pc' = stage
  BY DEF ProbeSource, ProbeRest
<1>3. /\ (Unmade' <=> Unmade) /\ (Executing' <=> Executing) /\ (Planned' <=> Planned) /\ (AllMade' <=> AllMade)
      /\ pc' \notin {"probeSource", "prepare", "bind", "run"}
  BY <1>1, <1>2 DEF Unmade, Executing, Planned, AllMade, Probing, Stages
<1>4. /\ TheWorld' = TheWorld /\ TheSource' = TheSource
      /\ OwnPlaces(platform, world, request)' = OwnPlaces(platform, world, request)
      /\ ParentIsActive(world, request)' = ParentIsActive(world, request)
      /\ (SpellingError(request))' = SpellingError(request)
  BY <1>1, OwnView
<1>5. OwnStage'
  <2>1. (SpellingError(request))' = "none"
    BY <1>1, <1>4 DEF OwnInv, OwnStage, Probing
  <2>2. Planned => PlanOK'
    BY <1>1, PlanStays DEF OwnInv, OwnStage
  <2> QED BY <1>1, <1>3, <2>1, <2>2 DEF OwnInv, OwnStage
<1>6. CASE ProbeSource /\ pc = "probeSource" /\ pc' = "probeRest"
  <2>1. reports' = [reports EXCEPT !["source"] = TheSource] /\ reports = NoReports
    BY <1>6 DEF ProbeSource, TheSource, OwnInv, OwnStage
  <2>2. "source" \in DOMAIN reports' /\ reports'["source"] = TheSource'
    BY <1>4, <2>1 DEF NoReports, Roles
  <2>3. OwnReads'
    BY <1>1, <1>3, <1>4, <1>6, <2>2 DEF OwnInv, OwnReads
  <2>4. OwnActive'
    BY <1>1, <1>3, <1>4, <1>6 DEF OwnInv, OwnActive
  <2> QED BY <1>1, <1>5, <2>3, <2>4 DEF OwnInv
<1>7. CASE ProbeRest /\ pc = "probeRest" /\ pc' = stage
  <2>1. reports' = [role \in Roles |-> IF role = "source" THEN reports[role]
                                       ELSE InspectPath(platform, world, RolePath(request, role))]
    BY <1>7 DEF ProbeRest
  <2>2. reports'["target"] = InspectPath(platform, world, request.target)
    BY <2>1 DEF Roles, RolePath
  <2>3. reports["source"] = TheSource => reports' = TheWorld
    <3>1. TheSource = InspectPath(platform, world, RolePath(request, "source"))
      BY DEF TheSource, RolePath
    <3> QED BY <2>1, <3>1 DEF TheWorld, AllReports
  <2>4. OwnReads'
    BY <1>1, <1>3, <1>4, <1>7, <2>3 DEF OwnInv, OwnReads, Stages
  <2>5. OwnActive'
    BY <1>1, <1>3, <1>4, <1>7, <2>2 DEF OwnInv, OwnActive
  <2> QED BY <1>1, <1>5, <2>4, <2>5 DEF OwnInv
<1> QED BY <1>2, <1>6, <1>7

\* The names beside the three that are made lead where they did.
LEMMA MakingElsewhere ==
  ASSUME NEW p, NEW w, LinksOK(p, w), NEW D, NEW d, NEW n, n \notin {"t", "g", "h"}
  PROVE  Lookup(MakeIn(w, D), d, n) = Lookup(w, d, n)
<1> DEFINE names == {<<D, name>> : name \in {"t", "g", "h"}}
           links == [edge \in DOMAIN w.link \cup names |-> IF edge \in names THEN edge[2] ELSE w.link[edge]]
           onB == IF D \in w.onB THEN w.onB \cup {"t", "g", "h"} ELSE w.onB
           w1 == MakeIn(w, D)
<1>1. w1 = [w EXCEPT !.link = links, !.onB = onB] /\ "link" \in DOMAIN w
  BY DEF MakeIn, LinksOK
<1>2. <<d, n>> \notin names
  OBVIOUS
<1>3. <<d, n>> \in DOMAIN links <=> <<d, n>> \in DOMAIN w.link
  BY <1>2
<1>4. <<d, n>> \in DOMAIN w.link => links[<<d, n>>] = w.link[<<d, n>>]
  BY <1>2
<1> HIDE DEF names, links, onB, w1
<1>5. w1.link = links
  BY <1>1
<1>6. Lookup(w1, d, n) = Lookup(w, d, n)
  BY <1>3, <1>4, <1>5 DEF Lookup
<1> QED BY <1>6 DEF w1

\* The parent does not become the active Workspace by what is made in it.
LEMMA MakingHidesNothing ==
  ASSUME NEW p, NEW w, LinksOK(p, w), NEW req, NEW x, NEW y, Spelled(req, x, y), NEW D,
         ParentIsActive(MakeIn(w, D), req)
  PROVE  ParentIsActive(w, req)
<1> DEFINE w1 == MakeIn(w, D)
<1>1. req.target[1] = y /\ y \notin {"t", "g", "h"}
  <2>1. <<y, "t">>[1] = y
    OBVIOUS
  <2> QED BY <2>1 DEF Spelled, AliasName
<1>2. \A d, n : n \notin {"t", "g", "h"} => Lookup(w1, d, n) = Lookup(w, d, n)
  BY MakingElsewhere
<1>3. PICK path \in ProtectedPaths : EndOf(Walk(w1, path)) = "w"
  BY DEF ParentIsActive, ActiveInPlace
<1>4. PICK name \in {"w", "y", "z", "v"} : path = <<"p", name>>
  <2>1. ParentOf(ActiveTarget) = <<"p">>
    BY ShortPaths, Zenon DEF ActiveTarget
  <2>2. PICK name \in {"w", "y", "z", "v"} : path = Append(<<"p">>, name)
    BY <1>3, <2>1 DEF ProtectedPaths
  <2>3. Append(<<"p">>, name) = <<"p", name>>
    BY ShortPaths, Zenon
  <2> QED BY <2>2, <2>3
<1>5. Lookup(w1, RootDir, "p") = Lookup(w, RootDir, "p")
  BY <1>2
<1>6. Lookup(w1, Lookup(w, RootDir, "p"), name) = Lookup(w, Lookup(w, RootDir, "p"), name)
  BY <1>2, <1>4
<1>7. Lookup(w1, RootDir, y) = Lookup(w, RootDir, y)
  BY <1>1, <1>2
<1> HIDE DEF w1
<1>8. Walk(w1, <<"p", name>>) = Walk(w, <<"p", name>>)
  <2> DEFINE P == Lookup(w, RootDir, "p") e == Lookup(w, P, name)
  <2>1. Walk(w, <<"p", name>>) = IF P \in Nowhere THEN <<RootDir>> ELSE IF e \in Nowhere THEN <<RootDir, P>>
                                 ELSE <<RootDir, P, e>>
    BY WalkTwo
  <2>2. Walk(w1, <<"p", name>>) = IF P \in Nowhere THEN <<RootDir>> ELSE IF e \in Nowhere THEN <<RootDir, P>>
                                  ELSE <<RootDir, P, e>>
    <3> DEFINE P1 == Lookup(w1, RootDir, "p") e1 == Lookup(w1, P1, name)
    <3>1. Walk(w1, <<"p", name>>) = IF P1 \in Nowhere THEN <<RootDir>> ELSE IF e1 \in Nowhere THEN <<RootDir, P1>>
                                    ELSE <<RootDir, P1, e1>>
      BY WalkTwo
    <3>2. P1 = P /\ e1 = e
      BY <1>5, <1>6
    <3> HIDE DEF P, e, P1, e1
    <3> QED BY <3>1, <3>2
  <2> QED BY <2>1, <2>2
<1>9. ActiveInPlace(w)
  BY <1>3, <1>4, <1>8 DEF ActiveInPlace
<1>10. ParentIsActive(w1, req)
  BY DEF w1
<1> QED BY <1>1, <1>7, <1>9, <1>10 DEF ParentIsActive

\* The directories are made in the parent the reservation was for, unless it moved.
LEMMA OwnPrepare ==
  ASSUME OwnInv, FallbackInv', Prepare \/ PrepareDenied
  PROVE  OwnInv'
<1>1. /\ pc = "prepare" /\ prepared = NothingMade /\ SpellingError(request) = "none"
      /\ UNCHANGED <<platform, request, plan, reserved>>
      /\ platform \in {"linux", "macos"} /\ request \in Requests /\ LinksOK(platform, world) /\ PreparedOK
  BY DEF Prepare, PrepareDenied, reading, OwnInv, OwnStage, OwnShape, Unmade
<1>2. CASE UNCHANGED <<world, prepared>> /\ pc' = "done"
  <2>1. OwnShape'
    BY <1>1, <1>2, ShapeStays DEF OwnInv
  <2> QED BY <1>2, <2>1, OwnDone
<1> DEFINE parent == InspectPath(platform, world, ParentOf(request.target))
           D == LeafOf(parent)
<1>3. CASE /\ ParentError(platform, world, request) = "none" /\ world' = MakeIn(world, D)
           /\ prepared' = [target |-> "t", staging |-> "g", trash |-> "h",
                           volume |-> parent.volume, mount |-> parent.mount]
           /\ pc' = "probeSource" /\ stage' = "prepared" /\ reports' = NoReports /\ moved' = moved \ {"probe"}
  <2>1. PICK x, y : Spelled(request, x, y)
    BY <1>1, SpelledRequest
  <2>2. D # "c"
    <3> DEFINE root == InspectPath(platform, world, ControlPath)
               a == ~ parent.existing b == LeafOf(root) \in Identities(parent)
               d == parent.fs # "cow" \/ parent.volume = "unknown"
               e == platform = "linux" /\ (parent.mount = "unknown" \/ parent.write # "Supported")
               f == \E name \in {"t", "g", "h"} : Lookup(world, LeafOf(parent), name) # Absent
               g == parent.write = "Unsupported"
               gone == ParentError(platform, world, request)
    <3>1. gone = CASE a -> "TargetLayout" [] b -> "TargetLayout" [] d -> "CapabilityUnavailable"
                   [] e -> "CapabilityUnavailable" [] f -> "TargetExists" [] g -> "Filesystem" [] OTHER -> "none"
      BY DEF ParentError
    <3>2. gone = "none" /\ LeafOf(root) = "c" /\ parent = InspectPath(platform, world, <<y>>)
      BY <1>1, <1>3, <2>1, ControlInPlace DEF Spelled
    <3>3. LeafOf(parent) \in Identities(parent)
      <4> DEFINE k == Lookup(world, RootDir, y)
      <4>1. k = Lookup(world, RootDir, y)
        OBVIOUS
      <4> HIDE DEF k
      <4> QED BY <3>2, <4>1, ReportOne
    <3> HIDE DEF a, b, d, e, f, g, gone
    <3>4. ~ b
      BY <3>1, <3>2, Zenon
    <3> QED BY <3>2, <3>3, <3>4 DEF b
  <2>3. \A e \in DOMAIN world.link : world.link[e] \notin {"t", "g", "h"}
    BY <1>1 DEF PreparedOK, NothingMade
  <2> HIDE DEF parent, D
  <2>4. LinksOK(platform, world')
    BY <1>1, <1>3, <2>2, <2>3, MakingKeeps
  <2>5. prepared'.target = "t" /\ prepared'.staging = "g" /\ prepared'.trash = "h"
    BY <1>3
  <2>6. OwnShape'
    BY <1>1, <2>4, <2>5 DEF OwnShape, PreparedOK
  <2>7. "active" \notin moved' => ~ ParentIsActive(world', request)
    <3> SUFFICES ASSUME "active" \notin moved', ParentIsActive(MakeIn(world, D), request) PROVE FALSE
      BY <1>3
    <3>1. "active" \notin moved
      BY <1>3
    <3>2. ~ ParentIsActive(world, request)
      BY <1>1, <3>1 DEF OwnInv, OwnActive
    <3> QED BY <1>1, <2>1, <3>2, MakingHidesNothing
  <2>8. OwnStage'
    BY <1>1, <1>3, <2>5 DEF OwnStage, Unmade, AllMade, Planned, Executing, Probing
  <2>9. OwnReads' /\ OwnActive'
    BY <1>1, <1>3, <2>7 DEF OwnReads, OwnActive, AllMade, Planned, Executing, Probing
  <2> QED BY <2>6, <2>8, <2>9 DEF OwnInv
<1>4. CASE Prepare /\ ParentError(platform, world, request) = "none"
  BY <1>3, <1>4 DEF Prepare, BeginProbe
<1>5. CASE PrepareDenied \/ ParentError(platform, world, request) # "none"
  BY <1>2, <1>5 DEF Prepare, PrepareDenied, Refuse, reading
<1> QED BY <1>4, <1>5

\* The check of the prepared directories is of this very world.
LEMMA OwnChecked ==
  ASSUME NEW r, PreparedError(platform, world, request, r) = "none"
  PROVE  OwnPlaces(platform, world, request)
<1>1. \A role \in Roles \ {"source"} :
        LET now == InspectPath(platform, world, RolePath(request, role)) IN
        /\ now.existing /\ LeafOf(now) = prepared[role]
        /\ now.volume = prepared.volume /\ now.mount = prepared.mount
  BY DEF PreparedError
<1> QED BY <1>1 DEF OwnPlaces

\* A materializer begins with a plan that fits, in a world where its directories are.
LEMMA OwnBegins ==
  ASSUME OwnInv, FallbackInv', pc \in {"prepared", "fallback"}, PlanOK', OwnPlaces(platform, world, request),
         pc' = "probeSource", stage' = "materialize", reports' = NoReports, moved' = moved \ {"probe"},
         UNCHANGED <<platform, world, request, prepared>>
  PROVE  OwnInv'
<1>1. OwnShape'
  BY ShapeStays DEF OwnInv
<1>2. /\ OwnPlaces(platform, world, request)' /\ (SpellingError(request))' = SpellingError(request)
      /\ ParentIsActive(world, request)' = ParentIsActive(world, request)
  BY OwnView
<1>3. SpellingError(request) = "none" /\ AllMade
  BY DEF OwnInv, OwnStage, AllMade, Planned
<1>4. OwnStage'
  BY <1>2, <1>3 DEF OwnInv, OwnStage, Unmade, AllMade, Planned, Executing, Probing
<1>5. OwnReads' /\ OwnActive'
  BY <1>2, <1>3 DEF OwnInv, OwnReads, OwnActive
<1> QED BY <1>1, <1>4, <1>5 DEF OwnInv

\* The executed plan is sound: its probe saw the prepared directories, apart from
\* the control root and on the reserved volume.
LEMMA OwnPlanPrepared ==
  ASSUME OwnInv, FallbackInv', PlanPrepared
  PROVE  OwnInv'
<1>1. /\ pc = "prepared" /\ UNCHANGED <<platform, world, request, prepared, reserved>>
      /\ OwnShape' /\ LinksOK(platform, world)
  <2>1. pc = "prepared" /\ UNCHANGED <<platform, world, request, prepared, reserved>>
    BY DEF PlanPrepared, reading
  <2> QED BY <2>1, ShapeStays DEF OwnInv, OwnShape
<1>2. CASE PlanError(platform, world, request, reports) # "none"
  <2>1. pc' = "done"
    BY <1>2 DEF PlanPrepared, Refuse
  <2> QED BY <1>1, <2>1, OwnDone
<1>3. CASE PlanError(platform, world, request, reports) = "none"
  <2> DEFINE selected == SelectPlan(platform, reports, request.allow) source == reports["source"]
  <2>1. /\ plan' = selected /\ pc' = "probeSource" /\ stage' = "materialize" /\ reports' = NoReports
        /\ moved' = moved \ {"probe"}
    BY <1>3 DEF PlanPrepared, BeginProbe
  <2>2. /\ PreparedError(platform, world, request, reports) = "none"
        /\ ~ ControlOverlap(platform, world, reports) /\ selected.mode # "none" /\ selected.volume = reserved
    <3> DEFINE a == ProbeErrorCode(reports) b == PreparedError(platform, world, request, reports)
               d == SourceError(source) e == ControlOverlap(platform, world, reports)
               g == PlanErrorCode(selected.error) none == selected.mode = "none" other == selected.volume # reserved
               refusal == PlanError(platform, world, request, reports)
    <3>1. refusal = CASE a # "none" -> a [] b # "none" -> b [] d # "none" -> d [] e -> "TargetLayout"
                      [] none -> g [] other -> "TargetLayout" [] OTHER -> "none"
      BY DEF PlanError
    <3>2. g # "none"
      BY Zenon DEF PlanErrorCode
    <3>3. refusal = "none"
      BY <1>3
    <3> HIDE DEF a, b, d, e, g, none, other, refusal
    <3>4. b = "none" /\ ~ e
      BY <3>1, <3>2, <3>3, Zenon
    <3>5. ~ none /\ ~ other
      BY <3>1, <3>2, <3>3, Zenon
    <3> QED BY <3>4, <3>5 DEF b, e, none, other
  <2>3. /\ selected.mode \in {"clone", "copy"} /\ selected.reports = reports /\ selected.volume = source.volume
        /\ LayoutError(platform, reports) = "none" /\ CommonUnsupported(reports) = {}
    BY <2>2, PlanSound
  <2>4. LeafOf(source) \notin {RootDir, "c"}
    <3> DEFINE root == InspectPath(platform, world, ControlPath)
    <3>1. Identities(root) = {RootDir, "c"}
      BY <1>1, ControlInPlace
    <3>2. LeafOf(source) \notin Identities(root)
      BY <2>2 DEF ControlOverlap, PathsOverlapWithIdentity
    <3> QED BY <3>1, <3>2
  <2> HIDE DEF selected, source
  <2>5. PlanOK'
    <3>1. source = reports["source"]
      BY DEF source
    <3> QED BY <1>1, <2>1, <2>2, <2>3, <2>4, <3>1, PlanFits
  <2>6. OwnPlaces(platform, world, request)
    BY <2>2, OwnChecked
  <2> QED BY <1>1, <2>1, <2>5, <2>6, OwnBegins
<1> QED BY <1>2, <1>3

\* A copy after a clone is of the plan's places, which are apart as the clone's were.
LEMMA OwnFallback ==
  ASSUME OwnInv, FallbackInv', PlanFallback
  PROVE  OwnInv'
<1> DEFINE replanned == ForFullCopyAfterCowUnavailable(platform, reports, plan)
           a == ProbeErrorCode(reports) b == PreparedError(platform, world, request, reports)
           g == PlanErrorCode(replanned.error) none == replanned.mode = "none"
           refusal == CASE a # "none" -> a [] b # "none" -> b [] none -> g [] OTHER -> "none"
<1>1. /\ pc = "fallback" /\ UNCHANGED <<platform, world, request, prepared, reserved>> /\ OwnShape' /\ PlanOK
  <2>1. pc = "fallback" /\ UNCHANGED <<platform, world, request, prepared, reserved>>
    BY DEF PlanFallback, reading
  <2> QED BY <2>1, ShapeStays DEF OwnInv, OwnStage, Planned
<1>2. IF refusal # "none" THEN pc' = "done"
      ELSE /\ plan' = replanned /\ pc' = "probeSource" /\ stage' = "materialize" /\ reports' = NoReports
           /\ moved' = moved \ {"probe"}
  BY DEF PlanFallback, Refuse, BeginProbe
<1>3. g # "none"
  BY Zenon DEF PlanErrorCode
<1> HIDE DEF a, b, g, none, refusal, replanned
<1>4. CASE refusal # "none"
  BY <1>1, <1>2, <1>4, OwnDone
<1>5. CASE refusal = "none"
  <2>1. b = "none" /\ ~ none
    BY <1>3, <1>5, Zenon DEF refusal
  <2>2. replanned.mode # "none" /\ PreparedError(platform, world, request, reports) = "none"
    BY <2>1 DEF b, none
  <2>3. /\ replanned.mode = "copy" /\ replanned.reports = reports
        /\ replanned.volume = reports["source"].volume /\ reports["source"].volume = plan.volume
        /\ LayoutError(platform, reports) = "none" /\ CommonUnsupported(reports) = {}
        /\ \A role \in Roles : reports[role].ancestry = plan.reports[role].ancestry
    BY <2>2, ReplanSound DEF replanned
  <2>4. LeafOf(reports["source"]) \notin {RootDir, "c"} /\ plan.volume = reserved
    <3>1. reports["source"].ancestry = plan.reports["source"].ancestry
      BY <2>3 DEF Roles
    <3> QED BY <1>1, <3>1 DEF PlanOK, LeafOf
  <2>5. PlanOK'
    BY <1>1, <1>2, <1>5, <2>3, <2>4, PlanFits
  <2>6. OwnPlaces(platform, world, request)
    BY <2>2, OwnChecked
  <2> QED BY <1>1, <1>2, <1>5, <2>5, <2>6, OwnBegins
<1> QED BY <1>4, <1>5

\* What is bound is what the probe saw and the plan was made for.
LEMMA OwnExecutes ==
  ASSUME OwnInv, FallbackInv', Revalidate \/ Bind
  PROVE  OwnInv'
<1>1. /\ UNCHANGED <<platform, world, request, prepared>> /\ UNCHANGED <<plan, reserved, stage, moved, reports>>
      /\ OwnShape' /\ pc \in {"materialize", "bind"}
  <2>1. /\ UNCHANGED <<platform, world, request, prepared>> /\ UNCHANGED <<plan, reserved, stage, moved, reports>>
        /\ pc \in {"materialize", "bind"}
    BY DEF Revalidate, Bind, reading
  <2> QED BY <2>1, ShapeStays DEF OwnInv
<1>2. CASE pc' = "done"
  BY <1>1, <1>2, OwnDone
<1>3. /\ TheWorld' = TheWorld /\ OwnPlaces(platform, world, request)' = OwnPlaces(platform, world, request)
      /\ ParentIsActive(world, request)' = ParentIsActive(world, request)
      /\ (SpellingError(request))' = SpellingError(request)
  BY <1>1, OwnView
<1>4. ASSUME pc' \in {"bind", "run"},
             "probe" \notin moved => /\ reports = TheWorld
                                     /\ EvidenceDigest(platform, TheWorld) = EvidenceDigest(platform, plan.reports),
             pc' = "run" => Latest'.dirs = DirectoriesOf(world, request)
      PROVE  OwnInv'
  <2>1. Executing /\ Planned /\ AllMade /\ SpellingError(request) = "none"
    BY <1>1 DEF Executing, Planned, AllMade, OwnInv, OwnStage
  <2>2. OwnStage'
    <3>1. PlanOK'
      BY <1>1, <2>1, PlanStays DEF OwnInv, OwnStage
    <3> QED BY <1>1, <1>3, <1>4, <2>1, <3>1 DEF OwnInv, OwnStage, Unmade, AllMade, Planned, Executing, Probing
  <2>3. OwnReads'
    <3>1. "probe" \notin moved => OwnPlaces(platform, world, request)
      BY <2>1 DEF OwnInv, OwnReads
    <3>2. (EvidenceDigest(platform, TheWorld))' = EvidenceDigest(platform, TheWorld)
      BY <1>1, <1>3
    <3>3. (EvidenceDigest(platform, plan.reports))' = EvidenceDigest(platform, plan.reports)
      BY <1>1
    <3>4. (DirectoriesOf(world, request))' = DirectoriesOf(world, request)
      BY <1>1
    <3> QED BY <1>1, <1>3, <1>4, <3>1, <3>2, <3>3, <3>4 DEF OwnReads
  <2>4. OwnActive'
    BY <1>1, <1>3, <1>4, <2>1 DEF OwnInv, OwnActive
  <2> QED BY <1>1, <2>2, <2>3, <2>4 DEF OwnInv
<1>5. CASE Revalidate /\ pc' # "done"
  <2>1. pc = "materialize" /\ pc' = "bind" /\ ~ PlanIsStale(platform, reports, plan)
    BY <1>5 DEF Revalidate, Refuse
  <2>2. "probe" \notin moved => reports = TheWorld
    BY <2>1 DEF OwnInv, OwnReads, Executing
  <2>3. EvidenceDigest(platform, reports) = EvidenceDigest(platform, plan.reports)
    BY <2>1 DEF PlanIsStale
  <2> QED BY <1>4, <2>1, <2>2, <2>3
<1>6. CASE Bind /\ pc' # "done"
  <2> DEFINE one == [mode |-> plan.mode, dirs |-> DirectoriesOf(world, request)]
  <2>1. pc = "bind" /\ pc' = "run" /\ bound' = Append(bound, one)
    BY <1>6 DEF Bind, Refuse
  <2>2. "probe" \notin moved => /\ reports = TheWorld
                                /\ EvidenceDigest(platform, TheWorld) = EvidenceDigest(platform, plan.reports)
    BY <2>1 DEF OwnInv, OwnReads, Executing
  <2>3. Latest'.dirs = DirectoriesOf(world, request)
    <3>1. bound \in Seq(Bindings)
      BY DEF OwnInv, FallbackInv
    <3>2. one.dirs = DirectoriesOf(world, request)
      OBVIOUS
    <3> HIDE DEF one
    <3>3. Append(bound, one)[Len(Append(bound, one))] = one
      BY <3>1
    <3> QED BY <2>1, <3>2, <3>3 DEF Latest
  <2> HIDE DEF one
  <2> QED BY <1>4, <2>1, <2>2, <2>3
<1> QED BY <1>2, <1>5, <1>6

\* What the executor answers: the create ends, or a clone begins again as a copy.
LEMMA OwnRuns ==
  ASSUME OwnInv, FallbackInv', Materialized \/ CowUnavailable
  PROVE  OwnInv'
<1>1. /\ UNCHANGED <<platform, world, request, prepared>> /\ UNCHANGED <<plan, reserved>> /\ OwnShape' /\ pc = "run"
  <2>1. UNCHANGED <<platform, world, request, prepared>> /\ UNCHANGED <<plan, reserved>> /\ pc = "run"
    BY DEF Materialized, CowUnavailable, reading
  <2> QED BY <2>1, ShapeStays DEF OwnInv
<1>2. \/ pc' = "done"
      \/ pc' = "probeSource" /\ stage' = "fallback" /\ reports' = NoReports /\ moved' = moved \ {"probe"}
  BY DEF Materialized, CowUnavailable, Refuse, BeginProbe
<1>3. CASE pc' = "done"
  BY <1>1, <1>3, OwnDone
<1>4. CASE /\ pc' = "probeSource" /\ stage' = "fallback" /\ reports' = NoReports /\ moved' = moved \ {"probe"}
  <2>1. Planned /\ AllMade /\ PlanOK /\ SpellingError(request) = "none"
    BY <1>1 DEF Planned, Executing, AllMade, OwnInv, OwnStage
  <2>2. PlanOK' /\ (SpellingError(request))' = "none" /\ ParentIsActive(world, request)' = ParentIsActive(world, request)
    BY <1>1, <2>1, PlanStays, OwnView
  <2>3. OwnStage'
    BY <1>1, <1>4, <2>1, <2>2 DEF OwnInv, OwnStage, Unmade, AllMade, Planned, Executing, Probing
  <2>4. OwnReads' /\ OwnActive'
    BY <1>4, <2>1, <2>2 DEF OwnInv, OwnReads, OwnActive, Executing, Probing
  <2> QED BY <1>1, <2>3, <2>4 DEF OwnInv
<1> QED BY <1>2, <1>3, <1>4

\* Users change the world, and what was read of it is claimed no longer.
LEMMA OwnDisturb ==
  ASSUME OwnInv, FallbackInv', Disturb
  PROVE  OwnInv'
<1>1. /\ UNCHANGED <<platform, request, prepared, plan, reserved, pc, stage, reports>>
      /\ moved' = {"start", "active", "probe"}
  BY DEF Disturb
<1>2. OwnShape'
  <2>1. LinksOK(platform, world') /\ PreparedOK'
    BY DisturbKeepsLinks DEF OwnInv, OwnShape
  <2> QED BY <1>1, <2>1 DEF OwnInv, OwnShape
<1>3. OwnStage'
  <2>1. /\ (Unmade' <=> Unmade) /\ (Planned' <=> Planned) /\ (AllMade' <=> AllMade)
    BY <1>1 DEF Unmade, Executing, Planned, AllMade
  <2>2. Planned => PlanOK'
    BY <1>1, PlanStays DEF OwnInv, OwnStage
  <2>3. (SpellingError(request))' = SpellingError(request)
    BY <1>1
  <2> QED BY <1>1, <2>1, <2>2, <2>3 DEF OwnInv, OwnStage
<1>4. OwnReads' /\ OwnActive'
  BY <1>1 DEF OwnReads, OwnActive
<1> QED BY <1>2, <1>3, <1>4 DEF OwnInv

\* A world as it first is has the shape users keep.
LEMMA InitialShape ==
  ASSUME NEW w, w.onB = {"o"}, DOMAIN w = DOMAIN Healthy \cup {"link", "onB"}, NEW p,
         NEW alias \in {"p", "s", "c", "w", "o", RootDir} \cup (IF p = "linux" THEN {"k"} ELSE {}) \cup {Absent},
         NEW place \in {"w", "v"}, w.link = InitialLinks(alias, place)
  PROVE  LinksOK(p, w) /\ \A e \in DOMAIN w.link : w.link[e] \notin {"t", "g", "h"}
<1> DEFINE A == <<RootDir, AliasName>>
           fixed == {<<RootDir, "s">>, <<RootDir, "p">>, <<RootDir, "c">>, <<"s", "k">>, <<"p", place>>}
           aliased == IF alias = Absent THEN {} ELSE {A}
<1>0. RootDir = "root" /\ AliasName = "a" /\ Absent = "absent"
  BY DEF RootDir, AliasName, Absent
<1>1. w.link = [e \in fixed \cup aliased |-> IF e \in aliased THEN alias ELSE IF e[2] = place THEN "w" ELSE e[2]]
  BY DEF InitialLinks
<1>2. /\ DOMAIN w.link = fixed \cup aliased
      /\ \A e \in DOMAIN w.link : w.link[e] = IF e \in aliased THEN alias ELSE IF e[2] = place THEN "w" ELSE e[2]
  <2> HIDE DEF fixed, aliased
  <2> QED BY <1>1
<1>3. ASSUME NEW e \in DOMAIN w.link
      PROVE  \/ e = <<RootDir, "s">> /\ w.link[e] = "s" /\ e[1] = RootDir
             \/ e = <<RootDir, "p">> /\ w.link[e] = "p" /\ e[1] = RootDir
             \/ e = <<RootDir, "c">> /\ w.link[e] = "c" /\ e[1] = RootDir
             \/ e = <<"s", "k">> /\ w.link[e] = "k" /\ e[1] = "s"
             \/ e = <<"p", place>> /\ w.link[e] = "w" /\ e[1] = "p"
             \/ e = A /\ alias # Absent /\ w.link[e] = alias /\ e[1] = RootDir
  BY <1>0, <1>2
<1>4. /\ <<RootDir, "c">> \in DOMAIN w.link /\ w.link[<<RootDir, "c">>] = "c"
      /\ <<RootDir, "p">> \in DOMAIN w.link /\ w.link[<<RootDir, "p">>] = "p"
  BY <1>0, <1>2
<1>5. <<RootDir, "s">> \in DOMAIN w.link => w.link[<<RootDir, "s">>] \in {"s", "x"}
  BY <1>0, <1>2
<1>6. A \in DOMAIN w.link =>
        w.link[A] \in {"p", "s", "c", "w", "o", RootDir} \cup (IF p = "linux" THEN {"k"} ELSE {})
  BY <1>0, <1>2
<1>7. alias \in {"p", "s", "c", "w", "o", RootDir, "k", Absent}
  OBVIOUS
<1> HIDE DEF A, fixed, aliased
<1>8. \A e \in DOMAIN w.link : w.link[e] \notin {"x", "t", "g", "h"}
  BY <1>0, <1>3, <1>7
<1>9. \A e \in DOMAIN w.link :
        /\ e[1] # "c" /\ (w.link[e] \in {RootDir, "c", "p", "s", "o"} => e[1] = RootDir)
        /\ (w.link[e] = "w" => e[1] \in {"p", RootDir}) /\ (w.link[e] = "k" => e[1] \in {"s", RootDir})
  BY <1>0, <1>3
<1>10. LinksOK(p, w)
  BY <1>4, <1>5, <1>6, <1>8, <1>9 DEF LinksOK, A
<1> QED BY <1>8, <1>10

\* Nothing is made or read in an initial world, which has the shape users keep.
LEMMA OwnInit ==
  ASSUME PlanningInit
  PROVE  OwnInv
<1>1. FallbackInv
  BY KeptInit DEF KeptInv
<1>2. platform \in {"linux", "macos"} /\ request \in Requests /\ prepared = NothingMade /\ pc = "preview"
  BY PlanningAssumption DEF PlanningInit
<1>3. LinksOK(platform, world) /\ \A e \in DOMAIN world.link : world.link[e] \notin {"t", "g", "h"}
  <2>1. PICK alias \in AliasTargets \cup {Absent}, place \in {"w", "v"} :
          world = [f \in DOMAIN Healthy \cup {"link", "onB"} |->
                     CASE f = "link" -> InitialLinks(alias, place)
                       [] f = "onB" -> {"o"}
                       [] OTHER -> Healthy[f]]
    BY DEF PlanningInit
  <2> DEFINE D == DOMAIN Healthy links == InitialLinks(alias, place)
  <2>2. alias \in {"p", "s", "c", "w", "o", RootDir} \cup (IF platform = "linux" THEN {"k"} ELSE {}) \cup {Absent}
    BY DEF AliasTargets
  <2> HIDE DEF links, D
  <2>3. world = [f \in D \cup {"link", "onB"} |-> CASE f = "link" -> links [] f = "onB" -> {"o"} [] OTHER -> Healthy[f]]
    BY <2>1 DEF links, D
  <2>4. DOMAIN world = D \cup {"link", "onB"} /\ world.link = links /\ world.onB = {"o"}
    BY <2>3
  <2> QED BY <1>2, <2>2, <2>4, InitialShape DEF links, D
<1>4. OwnShape
  BY <1>2, <1>3 DEF OwnShape, PreparedOK
<1>5. OwnStage /\ OwnReads /\ OwnActive
  BY <1>2 DEF OwnStage, OwnReads, OwnActive, Unmade, AllMade, Planned, Executing, Probing
<1> QED BY <1>1, <1>4, <1>5 DEF OwnInv

\* Every step of create and of the users keeps the invariant.
LEMMA OwnStep ==
  ASSUME OwnInv, [PlanningNext]_pvars
  PROVE  OwnInv'
<1>1. FallbackInv'
  BY FallbackStep DEF OwnInv
<1>2. CASE Preview \/ CheckSpelling \/ InspectSource \/ Reserve
  BY <1>1, <1>2, OwnBefore
<1>3. CASE ProbeSource \/ ProbeRest
  BY <1>1, <1>3, OwnProbes
<1>4. CASE Prepare \/ PrepareDenied
  BY <1>1, <1>4, OwnPrepare
<1>5. CASE PlanPrepared
  BY <1>1, <1>5, OwnPlanPrepared
<1>6. CASE PlanFallback
  BY <1>1, <1>6, OwnFallback
<1>7. CASE Revalidate \/ Bind
  BY <1>1, <1>7, OwnExecutes
<1>8. CASE Materialized \/ CowUnavailable
  BY <1>1, <1>8, OwnRuns
<1>9. CASE Disturb
  BY <1>1, <1>9, OwnDisturb
<1>10. CASE UNCHANGED pvars
  <2>1. UNCHANGED <<platform, world, request, prepared, plan, reserved, pc, stage, reports, bound, moved>>
    BY <1>10 DEF pvars
  <2>2. OwnShape' /\ (PlanOK' <=> PlanOK)
    BY <2>1, ShapeStays DEF OwnInv, PlanOK
  <2>3. /\ TheWorld' = TheWorld /\ TheSource' = TheSource
        /\ OwnPlaces(platform, world, request)' = OwnPlaces(platform, world, request)
        /\ ParentIsActive(world, request)' = ParentIsActive(world, request)
        /\ (SpellingError(request))' = SpellingError(request)
    BY <2>1, OwnView
  <2>4. /\ (Unmade' <=> Unmade) /\ (Planned' <=> Planned) /\ (AllMade' <=> AllMade) /\ (Executing' <=> Executing)
    BY <2>1 DEF Unmade, Executing, Planned, AllMade
  <2>5. OwnStage'
    BY <2>1, <2>2, <2>3, <2>4 DEF OwnInv, OwnStage
  <2>6. OwnReads'
    <3>1. /\ (EvidenceDigest(platform, TheWorld))' = EvidenceDigest(platform, TheWorld)
          /\ (EvidenceDigest(platform, plan.reports))' = EvidenceDigest(platform, plan.reports)
          /\ (DirectoriesOf(world, request))' = DirectoriesOf(world, request) /\ Latest' = Latest
      BY <2>1, <2>3 DEF Latest
    <3> QED BY <2>1, <2>3, <2>4, <3>1 DEF OwnInv, OwnReads
  <2>7. OwnActive'
    BY <2>1, <2>3, <2>4 DEF OwnInv, OwnActive
  <2> QED BY <1>1, <2>2, <2>5, <2>6, <2>7 DEF OwnInv
<1>11. CASE Finished
  BY <1>10, <1>11 DEF Finished
<1> QED BY <1>2, <1>3, <1>4, <1>5, <1>6, <1>7, <1>8, <1>9, <1>10, <1>11 DEF PlanningNext

\* A materializer that binds directories in a world that stood still since its
\* own probe writes to the directories this create made, on the source's and the
\* reserved volume, outside the source, the control root and, if the world stood
\* still since the preliminary probe began, the active Workspace, whatever users
\* did before (create.rs:759-882).
THEOREM OnlyItsOwnIsWritten == PlanningSpec => []WritesOnlyToItsOwn
<1>1. PlanningInit => OwnInv
  BY OwnInit
<1>2. OwnInv /\ [PlanningNext]_pvars => OwnInv'
  BY OwnStep
<1>3. OwnInv => WritesOnlyToItsOwn
  BY OwnMeans
<1> QED BY <1>1, <1>2, <1>3, PTL DEF PlanningSpec
=============================================================================
