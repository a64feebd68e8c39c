------------------------------ MODULE GitQuery ------------------------------
(***************************************************************************)
(* The bounded runner of one Git subprocess (git_query.rs).  The parent     *)
(* polls: it drains both pipes without blocking, polls the direct child,    *)
(* looks at the clock and sleeps.  The child writes, exits, or hangs; a     *)
(* descendant of it may keep the pipes open after it has exited.            *)
(***************************************************************************)
EXTENDS Naturals

CONSTANTS Limit,      \* stdout_limit and stderr_limit, in chunks
          MaxWrites,  \* chunks the child may write to one stream
          RunTicks,   \* run_timeout, in ticks of the clock
          CleanTicks, \* cleanup_timeout
          DrainReads  \* MAX_DRAIN_READS

ASSUME GitQueryAssumption ==
  /\ Limit \in Nat /\ MaxWrites \in Nat /\ RunTicks \in Nat \ {0}
  /\ CleanTicks \in Nat \ {0} /\ DrainReads \in Nat \ {0}

Streams == {"stdout", "stderr"}

VARIABLES
  pc,        \* where the parent is in collect_command
  clock,     \* ticks since `started`
  deadline,  \* of the run, then of the cleanup
  child,     \* "none" | "running" | "exited" | "signaled", as the kernel knows it
  exit,      \* exit_status as the parent knows it: "none" or the child's end
  written,   \* chunks written to each pipe so far
  inPipe,    \* chunks in each pipe, not yet read
  writers,   \* whether some process still holds the write end of each pipe
  pipe,      \* the parent's read end: "open" or "closed"
  output,    \* chunks retained of each stream
  result,    \* what collect_command returns
  ioFailed   \* the first I/O error of the cleanup

gvars == <<pc, clock, deadline, child, exit, written, inPipe, writers, pipe, output, result, ioFailed>>
kernel == <<clock, child, written, inPipe, writers>>

NoResult == [kind |-> "none", exit |-> "none"]

QueryInit ==
  /\ pc = "spawn" /\ clock = 0 /\ deadline = RunTicks
  /\ child = "none" /\ exit = "none"
  /\ written = [s \in Streams |-> 0] /\ inPipe = [s \in Streams |-> 0]
  /\ writers = [s \in Streams |-> FALSE] /\ pipe = [s \in Streams |-> "closed"]
  /\ output = [s \in Streams |-> 0]
  /\ result = NoResult /\ ioFailed = "none"

Finish(kind, status) ==
  /\ result' = [kind |-> kind, exit |-> status] /\ pc' = "done"

\* validate_inputs and a spawn that fails: nothing was started.
StartFailure ==
  /\ pc = "spawn"
  /\ \E kind \in {"InvalidInput", "Start"} : Finish(kind, "NotStarted")
  /\ UNCHANGED <<kernel, deadline, exit, pipe, output, ioFailed>>

Spawn ==
  /\ pc = "spawn"
  /\ child' = "running" /\ writers' = [s \in Streams |-> TRUE]
  /\ pipe' = [s \in Streams |-> "open"] /\ pc' = "configure"
  /\ UNCHANGED <<clock, deadline, exit, written, inPipe, output, result, ioFailed>>

\* set_nonblocking on both pipes, then the loop.
Configure ==
  /\ pc = "configure"
  /\ \E l \in {"drain_stdout", "fail_Io"} : pc' = l
  /\ UNCHANGED <<kernel, deadline, exit, pipe, output, result, ioFailed>>

(***************************************************************************)
(* drain_pipe: at most DrainReads reads of up to remaining + 1 bytes, so    *)
(* that the byte beyond the limit is seen but never kept.                   *)
(***************************************************************************)
Least(a, b) == IF a < b THEN a ELSE b

DrainedChunks(s) == Least(inPipe[s], Least(DrainReads, Limit - output[s] + 1))

DrainResult(s) ==
  IF pipe[s] = "closed" THEN "Closed"
  ELSE IF DrainedChunks(s) > Limit - output[s] THEN "LimitExceeded"
  ELSE IF inPipe[s] = DrainedChunks(s) /\ ~writers[s] /\ DrainedChunks(s) < DrainReads THEN "Closed"
  ELSE "Open"

Retained(s) == output[s] + Least(DrainedChunks(s), Limit - output[s])

Drain(s, l, next) ==
  /\ pc = l
  /\ inPipe' = [inPipe EXCEPT ![s] = IF pipe[s] = "closed" THEN @ ELSE @ - DrainedChunks(s)]
  /\ output' = [output EXCEPT ![s] = IF pipe[s] = "closed" THEN @ ELSE Retained(s)]
  /\ pipe' = [pipe EXCEPT ![s] = IF DrainResult(s) = "Closed" THEN "closed" ELSE @]
  /\ pc' = IF DrainResult(s) = "LimitExceeded" THEN "fail_OutputLimitExceeded" ELSE next
  /\ UNCHANGED <<clock, deadline, child, exit, written, writers, result, ioFailed>>

DrainStdout == Drain("stdout", "drain_stdout", "drain_stderr")
DrainStderr == Drain("stderr", "drain_stderr", "poll")

\* A read, or a poll of a child whose end is not known yet, fails.
IoFailure ==
  /\ \/ pc = "drain_stdout" /\ pipe["stdout"] = "open"
     \/ pc = "drain_stderr" /\ pipe["stderr"] = "open"
     \/ pc = "poll" /\ exit = "none"
  /\ pc' = "fail_Io"
  /\ UNCHANGED <<kernel, deadline, exit, pipe, output, result, ioFailed>>

\* child.try_wait, unless its end is already known.
PollChild ==
  /\ pc = "poll"
  /\ exit' = IF exit = "none" /\ child # "running" THEN child ELSE exit
  /\ pc' = "deadline"
  /\ UNCHANGED <<kernel, deadline, pipe, output, result, ioFailed>>

\* The deadline is looked at before success, then both conditions of success.
CheckDeadline_Mutant ==
  /\ pc = "deadline"
  /\ IF exit # "none" THEN Finish("Ok", exit)
     ELSE IF clock >= deadline THEN pc' = "fail_TimedOut" /\ UNCHANGED result
     ELSE pc' = "sleep" /\ UNCHANGED result
  /\ UNCHANGED <<kernel, deadline, exit, pipe, output, ioFailed>>

CheckDeadline ==
  /\ pc = "deadline"
  /\ IF clock >= deadline THEN pc' = "fail_TimedOut" /\ UNCHANGED result
     ELSE IF (\A s \in Streams : pipe[s] = "closed") /\ exit # "none" THEN Finish("Ok", exit)
     ELSE pc' = "sleep" /\ UNCHANGED result
  /\ UNCHANGED <<kernel, deadline, exit, pipe, output, ioFailed>>

\* thread::sleep ends no later than at the deadline.
Wake ==
  /\ pc = "sleep" /\ pc' = "drain_stdout"
  /\ clock' = clock + 1
  /\ UNCHANGED <<deadline, child, exit, written, inPipe, writers, pipe, output, result, ioFailed>>

(***************************************************************************)
(* cleanup_direct_child: a known end is reported; otherwise one poll, a     *)
(* kill of the direct child only, and polls until the cleanup deadline.     *)
(***************************************************************************)
FailureKinds == [fail_Io |-> "Io", fail_OutputLimitExceeded |-> "OutputLimitExceeded", fail_TimedOut |-> "TimedOut"]

CleanupKnown ==
  /\ pc \in DOMAIN FailureKinds
  /\ exit # "none" \/ child # "running"
  /\ Finish(FailureKinds[pc], IF exit # "none" THEN exit ELSE child)
  /\ UNCHANGED <<kernel, deadline, exit, pipe, output, ioFailed>>

Retain(operation) == IF ioFailed = "none" THEN operation ELSE ioFailed

\* The first poll finds the child running or fails; the kill is delivered, which need
\* not end the child at once, or its error is retained.  Only the first error of the
\* cleanup is kept, and never as the cause.
CleanupKill ==
  /\ pc \in DOMAIN FailureKinds /\ exit = "none"
  /\ \E polled \in {"ok", "InitialPoll"}, killed \in {"ok", "Kill"} :
       /\ polled = "ok" => child = "running"
       /\ child' \in {child} \cup (IF child = "running" /\ killed = "ok" THEN {"signaled"} ELSE {})
       /\ ioFailed' = IF polled # "ok" THEN polled ELSE IF killed # "ok" THEN killed ELSE "none"
  /\ result' = [kind |-> FailureKinds[pc], exit |-> "none"]
  /\ deadline' = clock + CleanTicks /\ pc' = "confirm"
  /\ UNCHANGED <<clock, exit, written, inPipe, writers, pipe, output>>

\* An exit that was not seen is reported as the kill's.
Confirm_Mutant ==
  /\ pc = "confirm"
  /\ IF clock >= deadline \/ child # "running" THEN Finish(result.kind, "signaled")
     ELSE pc' = "confirm_sleep" /\ UNCHANGED result
  /\ UNCHANGED <<kernel, deadline, exit, pipe, output, ioFailed>>

\* Only a child that is seen to have ended ends the loop: past the deadline it polls on.
ConfirmForever_Mutant ==
  /\ pc = "confirm"
  /\ IF child # "running" THEN Finish(result.kind, child)
     ELSE IF clock >= deadline THEN UNCHANGED <<pc, result>>
     ELSE pc' = "confirm_sleep" /\ UNCHANGED result
  /\ UNCHANGED <<kernel, deadline, exit, pipe, output, ioFailed>>

Confirm ==
  /\ pc = "confirm"
  /\ \E polled \in {"ok", "ConfirmPoll"} :
       /\ ioFailed' = IF polled = "ok" THEN ioFailed ELSE Retain(polled)
       /\ IF polled = "ok" /\ child # "running" THEN Finish(result.kind, child)
          ELSE IF clock >= deadline THEN Finish(result.kind, "Unconfirmed")
          ELSE pc' = "confirm_sleep" /\ UNCHANGED result
  /\ UNCHANGED <<kernel, deadline, exit, pipe, output>>

ConfirmWake ==
  /\ pc = "confirm_sleep" /\ pc' = "confirm" /\ clock' = clock + 1
  /\ UNCHANGED <<deadline, child, exit, written, inPipe, writers, pipe, output, result, ioFailed>>

Parent ==
  \/ StartFailure \/ Spawn \/ Configure \/ DrainStdout \/ DrainStderr \/ IoFailure
  \/ PollChild \/ CheckDeadline \/ Wake \/ CleanupKnown \/ CleanupKill \/ Confirm \/ ConfirmWake

(***************************************************************************)
(* Git (external): it writes, exits with a status, and may leave a          *)
(* descendant that holds the write ends and may write on.                   *)
(***************************************************************************)
ParentVars == <<pc, clock, deadline, exit, pipe, output, result, ioFailed>>

GitWrites(s) ==
  /\ child # "none" /\ writers[s] /\ written[s] < MaxWrites
  /\ written' = [written EXCEPT ![s] = @ + 1] /\ inPipe' = [inPipe EXCEPT ![s] = @ + 1]
  /\ UNCHANGED <<ParentVars, child, writers>>

GitExits ==
  /\ child = "running" /\ child' \in {"exited", "signaled"}
  /\ UNCHANGED <<ParentVars, written, inPipe, writers>>

\* The last holder of a write end closes it; only a dead child's is certain.
GitCloses(s) ==
  /\ child # "none" /\ writers[s] /\ writers' = [writers EXCEPT ![s] = FALSE]
  /\ UNCHANGED <<ParentVars, child, written, inPipe>>

Git == (\E s \in Streams : GitWrites(s) \/ GitCloses(s)) \/ GitExits

Done == pc = "done" /\ UNCHANGED gvars

Next == Parent \/ Git \/ Done

\* The parent thread is scheduled; Git and its descendants owe nothing.
Spec == QueryInit /\ [][Next]_gvars /\ WF_gvars(Parent)

(***************************************************************************)
(* Properties.                                                             *)
(***************************************************************************)

\* Collected output is the whole output: when the runner reports success, both
\* pipes were read to their end, nothing was cut at a limit, nobody can write
\* any more, and the status is the real one of a direct child that is gone.
SuccessIsWholeOutput ==
  result.kind = "Ok" =>
    /\ \A s \in Streams : output[s] = written[s] /\ inPipe[s] = 0 /\ ~writers[s]
    /\ child # "running" /\ result.exit = child

\* The end of the direct child is never guessed: a confirmed status is the one
\* the kernel holds, and a query that never started says so.
ExitIsNeverGuessed ==
  pc = "done" =>
    /\ result.exit \in {"exited", "signaled"} => result.exit = child
    /\ result.exit = "NotStarted" <=> child = "none"

\* The runner gives an answer whatever Git does: a child that hangs, ignores the
\* kill or leaves a descendant holding the pipes costs at most the two deadlines.
EveryQueryEnds == <>(pc = "done")

=============================================================================
