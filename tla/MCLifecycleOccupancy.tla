------------------------ MODULE MCLifecycleOccupancy ------------------------
(* The use cases, observed for what the process probe has seen: the variable
   `scanned` only records which invocations have looked for processes in the
   Workspace since the last time they moved or erased its target. *)
EXTENDS MCWorkspaceLifecycle

VARIABLE scanned

observedVars == <<vars, scanned>>

(* The preflight of remove got as far as inspect_workspace. *)
Scans(p) == pc[p] = "preflight" /\ pc'[p] \in {"log_started", "log_refused"}

(* A step of remove_workspace that moves the target, which is the directory the
   probe looks at, or erases some of what is in it.  The rmdir that follows
   takes only an empty directory. *)
Destroys(p) ==
    \/ pc[p] = "rename" /\ dir' # dir /\ pc'[p] # pc[p]
    \/ pc[p] \in {"erase", "erase_rest"} /\ content' # content /\ pc'[p] # pc[p]

ObservedInit == Init /\ scanned = {}

Observe ==
    scanned' = (scanned \cup {p \in Procs : Scans(p)}) \ {p \in Procs : Destroys(p)}

ObservedSpec == ObservedInit /\ [][Next /\ Observe]_observedVars
                  /\ \A p \in Procs : WF_vars(Step(p))

(* The design document (section 7.2, step 4) wants the applicable occupancy
   protection verified again before every destructive step: each such step has
   a process scan of its own, after the destructive step before it.  That a
   process may enter between a scan and its step the design disclaims, and so
   does this property. *)
EachDestructiveStepIsScanned ==
    [][\A p \in Procs : Destroys(p) => p \in scanned]_observedVars
=============================================================================
