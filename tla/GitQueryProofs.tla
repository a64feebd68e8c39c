--------------------------- MODULE GitQueryProofs ---------------------------
(***************************************************************************)
(* Theorems about the bounded Git runner, for every limit, deadline and    *)
(* number of reads, and for every behaviour of Git and its descendants.    *)
(***************************************************************************)
EXTENDS GitQuery, TLAPS

Ends == {"exited", "signaled"}
Collecting == {"configure", "drain_stdout", "drain_stderr", "poll", "deadline", "sleep"}
Failing == {"fail_Io", "fail_OutputLimitExceeded", "fail_TimedOut"}
Confirming == {"confirm", "confirm_sleep"}
Failures == {"Io", "OutputLimitExceeded", "TimedOut"}

QueryTypeOK ==
  /\ pc \in {"spawn", "done"} \cup Collecting \cup Failing \cup Confirming
  /\ clock \in Nat /\ deadline \in Nat
  /\ child \in {"none", "running"} \cup Ends /\ exit \in {"none"} \cup Ends
  /\ written \in [Streams -> Nat] /\ inPipe \in [Streams -> Nat] /\ output \in [Streams -> Nat]
  /\ writers \in [Streams -> BOOLEAN] /\ pipe \in [Streams -> {"open", "closed"}]
  /\ result \in [kind : {"none", "Ok", "InvalidInput", "Start"} \cup Failures,
                 exit : {"none", "NotStarted", "Unconfirmed"} \cup Ends]

\* No chunk is lost on the way from Git to the output, unless the limit was hit.
Counted ==
  pc \in {"spawn"} \cup Collecting \/ result.kind = "Ok" =>
    \A s \in Streams : written[s] = inPipe[s] + output[s]

\* The output stays within its limit.
WithinLimit == \A s \in Streams : output[s] <= Limit

\* A read end is closed only at the end of the stream.
ClosedIsDrained == \A s \in Streams : pipe[s] = "closed" => inPipe[s] = 0 /\ ~writers[s]

\* What the parent knows of the child is so.
KnownExit == exit # "none" => child = exit

\* How the parent's place, the child and the result belong together.
ResultFits ==
  /\ child = "none" <=> pc = "spawn" \/ (pc = "done" /\ result.exit = "NotStarted")
  /\ pc \in {"spawn"} \cup Collecting \cup Failing => result = NoResult
  /\ pc \in Confirming => result.kind \in Failures /\ result.exit = "none"
  /\ pc = "done" /\ result.exit \in Ends => child = result.exit
  /\ result.kind = "Ok" => pc = "done" /\ result.exit \in Ends /\ \A s \in Streams : pipe[s] = "closed"

QueryInv ==
  QueryTypeOK /\ Counted /\ WithinLimit /\ ClosedIsDrained /\ KnownExit /\ ResultFits

-----------------------------------------------------------------------------
(* drain_pipe *)

\* What one call of drain_pipe takes out of the pipe and adds to the output.
LEMMA DrainTakes ==
  ASSUME QueryTypeOK, WithinLimit, NEW s \in Streams
  PROVE  /\ DrainedChunks(s) \in Nat /\ DrainedChunks(s) <= inPipe[s]
         /\ Retained(s) \in Nat /\ output[s] <= Retained(s) /\ Retained(s) <= Limit
         /\ DrainResult(s) # "LimitExceeded" /\ pipe[s] # "closed"
              => Retained(s) = output[s] + DrainedChunks(s)
<1>1. inPipe[s] \in Nat /\ output[s] \in Nat /\ output[s] <= Limit
  BY DEF QueryTypeOK, WithinLimit
<1>2. Limit \in Nat /\ DrainReads \in Nat
  BY GitQueryAssumption
<1>3. /\ DrainedChunks(s) \in Nat /\ DrainedChunks(s) <= inPipe[s]
  BY <1>1, <1>2 DEF DrainedChunks, Least
<1>4. /\ Retained(s) \in Nat /\ output[s] <= Retained(s) /\ Retained(s) <= Limit
  BY <1>1, <1>2, <1>3 DEF Retained, Least
<1>5. DrainResult(s) # "LimitExceeded" /\ pipe[s] # "closed" => DrainedChunks(s) <= Limit - output[s]
  BY <1>1, <1>2, <1>3 DEF DrainResult
<1>6. DrainedChunks(s) <= Limit - output[s] => Retained(s) = output[s] + DrainedChunks(s)
  BY <1>1, <1>2, <1>3 DEF Retained, Least
<1> QED BY <1>3, <1>4, <1>5, <1>6

\* A pipe is found closed only when it is empty and has no writer.
LEMMA DrainCloses ==
  ASSUME QueryTypeOK, NEW s \in Streams, DrainResult(s) = "Closed", pipe[s] # "closed"
  PROVE  inPipe[s] - DrainedChunks(s) = 0 /\ ~writers[s]
<1>1. inPipe[s] = DrainedChunks(s) /\ ~writers[s]
  BY DEF DrainResult
<1> QED BY <1>1 DEF QueryTypeOK

\* drain_pipe keeps the count, the limit and what a closed pipe means.
LEMMA DrainKeepsInv ==
  ASSUME QueryInv, NEW s \in Streams, NEW next \in {"drain_stderr", "poll"},
         Drain(s, pc, next), pc \in {"drain_stdout", "drain_stderr"}
  PROVE  QueryInv'
<1> USE DEF QueryInv
<1>1. pc' \in {"fail_OutputLimitExceeded", next}
  BY DEF Drain
<1>2. /\ inPipe' \in [Streams -> Nat] /\ output' \in [Streams -> Nat]
      /\ pipe' \in [Streams -> {"open", "closed"}]
  <2>1. DrainedChunks(s) \in Nat /\ DrainedChunks(s) <= inPipe[s] /\ Retained(s) \in Nat
    BY DrainTakes
  <2>2. inPipe[s] - DrainedChunks(s) \in Nat
    BY <2>1 DEF QueryTypeOK
  <2> QED BY <2>1, <2>2 DEF Drain, QueryTypeOK
<1>3. QueryTypeOK'
  BY <1>1, <1>2 DEF Drain, QueryTypeOK, Collecting, Failing
<1>4. Counted'
  <2>1. SUFFICES ASSUME pc' \notin Failing, NEW t \in Streams
                 PROVE  written'[t] = inPipe'[t] + output'[t]
    BY <1>1 DEF Counted, Failing, Collecting, Drain, ResultFits, NoResult
  <2>2. DrainResult(s) # "LimitExceeded"
    BY <2>1 DEF Drain, Failing
  <2>3. written[t] = inPipe[t] + output[t]
    BY DEF Counted, Collecting
  <2>4. CASE t # s
    BY <2>3, <2>4 DEF Drain, QueryTypeOK
  <2>5. CASE t = s /\ pipe[s] = "closed"
    BY <2>3, <2>5 DEF Drain, QueryTypeOK
  <2>6. CASE t = s /\ pipe[s] # "closed"
    <3>1. /\ inPipe'[s] = inPipe[s] - DrainedChunks(s) /\ output'[s] = Retained(s)
          /\ written' = written
      BY <2>6 DEF Drain, QueryTypeOK
    <3>2. Retained(s) = output[s] + DrainedChunks(s) /\ DrainedChunks(s) \in Nat
      BY <2>2, <2>6, DrainTakes
    <3>3. written[s] \in Nat /\ inPipe[s] \in Nat /\ output[s] \in Nat
      BY DEF QueryTypeOK
    <3> QED BY <2>3, <2>6, <3>1, <3>2, <3>3
  <2> QED BY <2>4, <2>5, <2>6
<1>5. WithinLimit'
  <2>1. \A t \in Streams : output'[t] \in {output[t], Retained(s)} /\ (t # s => output'[t] = output[t])
    BY DEF Drain, QueryTypeOK
  <2> QED BY <2>1, DrainTakes DEF WithinLimit
<1>6. ClosedIsDrained'
  <2>1. SUFFICES ASSUME NEW t \in Streams, pipe'[t] = "closed"
                 PROVE  inPipe'[t] = 0 /\ ~writers'[t]
    BY DEF ClosedIsDrained
  <2>2. writers' = writers
    BY DEF Drain
  <2>3. CASE t # s \/ pipe[t] = "closed"
    <3>1. pipe[t] = "closed" /\ inPipe'[t] = inPipe[t]
      BY <2>1, <2>3 DEF Drain, QueryTypeOK
    <3> QED BY <2>2, <3>1 DEF ClosedIsDrained
  <2>4. CASE t = s /\ pipe[t] # "closed"
    <3>1. DrainResult(s) = "Closed" /\ inPipe'[s] = inPipe[s] - DrainedChunks(s)
      BY <2>1, <2>4 DEF Drain, QueryTypeOK
    <3> QED BY <2>2, <2>4, <3>1, DrainCloses
  <2> QED BY <2>3, <2>4
<1>7. KnownExit' /\ ResultFits'
  BY <1>1 DEF Drain, KnownExit, ResultFits, NoResult, Collecting, Failing, Confirming, Ends, Failures
<1> QED BY <1>3, <1>4, <1>5, <1>6, <1>7

-----------------------------------------------------------------------------
(* The parent and Git *)

\* A query starts before the spawn, with empty pipes.
LEMMA InitEstablishesInv == QueryInit => QueryInv
<1> SUFFICES ASSUME QueryInit PROVE QueryInv
  OBVIOUS
<1>1. QueryTypeOK
  BY GitQueryAssumption DEF QueryInit, QueryTypeOK, NoResult
<1>2. Counted /\ WithinLimit /\ ClosedIsDrained
  BY GitQueryAssumption DEF QueryInit, Counted, WithinLimit, ClosedIsDrained
<1>3. KnownExit /\ ResultFits
  BY DEF QueryInit, KnownExit, ResultFits, NoResult, Collecting, Failing, Confirming, Ends
<1> QED BY <1>1, <1>2, <1>3 DEF QueryInv

\* Between reads the parent changes neither the pipes nor the output.
LEMMA ParentKeepsInv ==
  ASSUME QueryInv, Parent
  PROVE  QueryInv'
<1> USE DEF QueryInv
<1> DEFINE Rest == KnownExit' /\ ResultFits'
<1>1. CASE StartFailure
  <2>1. QueryTypeOK'
    BY <1>1 DEF StartFailure, Finish, kernel, QueryTypeOK
  <2>2. Counted' /\ WithinLimit' /\ ClosedIsDrained'
    BY <1>1 DEF StartFailure, Finish, kernel, Counted, WithinLimit, ClosedIsDrained, Collecting
  <2>3. Rest
    BY <1>1 DEF StartFailure, Finish, kernel, KnownExit, ResultFits, Collecting, Failing, Confirming, Ends
  <2> QED BY <2>1, <2>2, <2>3
<1>2. CASE Spawn
  <2>1. QueryTypeOK'
    BY <1>2 DEF Spawn, QueryTypeOK, Collecting
  <2>2. Counted' /\ WithinLimit'
    BY <1>2 DEF Spawn, Counted, WithinLimit
  <2>3. ClosedIsDrained'
    BY <1>2 DEF Spawn, ClosedIsDrained
  <2>4. Rest
    BY <1>2 DEF Spawn, KnownExit, ResultFits, NoResult, Collecting, Failing, Confirming, Ends
  <2> QED BY <2>1, <2>2, <2>3, <2>4
<1>3. CASE Configure \/ Wake \/ ConfirmWake \/ IoFailure
  <2>1. QueryTypeOK'
    BY <1>3 DEF Configure, Wake, ConfirmWake, IoFailure, kernel, QueryTypeOK, Collecting, Failing, Confirming
  <2>2. Counted' /\ WithinLimit' /\ ClosedIsDrained'
    BY <1>3 DEF Configure, Wake, ConfirmWake, IoFailure, kernel, Counted, WithinLimit, ClosedIsDrained,
                Collecting, ResultFits, Confirming, Failures
  <2>3. Rest
    BY <1>3 DEF Configure, Wake, ConfirmWake, IoFailure, kernel, KnownExit, ResultFits, NoResult,
                Collecting, Failing, Confirming, Ends
  <2> QED BY <2>1, <2>2, <2>3
<1>4. CASE DrainStdout
  BY <1>4, DrainKeepsInv DEF DrainStdout, Drain, Streams
<1>5. CASE DrainStderr
  BY <1>5, DrainKeepsInv DEF DrainStderr, Drain, Streams
<1>6. CASE PollChild
  <2>1. pc = "poll" /\ pc' = "deadline" /\ child # "none"
    BY <1>6 DEF PollChild, ResultFits
  <2>2. QueryTypeOK'
    BY <1>6, <2>1 DEF PollChild, kernel, QueryTypeOK, Collecting
  <2>3. Counted' /\ WithinLimit' /\ ClosedIsDrained'
    BY <1>6 DEF PollChild, kernel, Counted, WithinLimit, ClosedIsDrained, Collecting
  <2>4. Rest
    BY <1>6, <2>1 DEF PollChild, kernel, KnownExit, ResultFits, NoResult, Collecting, Failing, Confirming
  <2> QED BY <2>2, <2>3, <2>4
<1>7. CASE CheckDeadline
  <2>1. CASE pc' # "done"
    <3>1. /\ pc = "deadline" /\ pc' \in {"fail_TimedOut", "sleep"} /\ result' = result
          /\ UNCHANGED <<kernel, deadline, exit, pipe, output>>
      BY <1>7, <2>1 DEF CheckDeadline, Finish
    <3>2. QueryTypeOK' /\ Counted' /\ WithinLimit' /\ ClosedIsDrained'
      BY <3>1 DEF kernel, QueryTypeOK, Counted, WithinLimit, ClosedIsDrained, Collecting, Failing
    <3>3. Rest
      BY <3>1 DEF kernel, KnownExit, ResultFits, NoResult, Collecting, Failing, Confirming
    <3> QED BY <3>2, <3>3
  <2>2. CASE pc' = "done"
    <3>1. /\ pc = "deadline" /\ exit # "none" /\ \A s \in Streams : pipe[s] = "closed"
          /\ result' = [kind |-> "Ok", exit |-> exit]
          /\ UNCHANGED <<kernel, deadline, exit, pipe, output>>
      BY <1>7, <2>2 DEF CheckDeadline, Finish
    <3>2. exit \in Ends /\ child = exit
      BY <3>1 DEF QueryTypeOK, KnownExit
    <3>3. QueryTypeOK' /\ Counted' /\ WithinLimit' /\ ClosedIsDrained'
      BY <2>2, <3>1, <3>2 DEF kernel, QueryTypeOK, Counted, WithinLimit, ClosedIsDrained, Collecting
    <3>4. Rest
      BY <2>2, <3>1, <3>2 DEF kernel, KnownExit, ResultFits, Collecting, Failing, Confirming, Ends
    <3> QED BY <3>3, <3>4
  <2> QED BY <2>1, <2>2
<1>8. DOMAIN FailureKinds = Failing /\ \A l \in Failing : FailureKinds[l] \in Failures
  BY DEF FailureKinds, Failing, Failures
<1>9. CASE CleanupKnown
  <2>1. /\ pc \in Failing /\ pc' = "done" /\ result'.kind \in Failures /\ result'.exit = child /\ child \in Ends
        /\ result' \in [kind : Failures, exit : Ends]
        /\ UNCHANGED <<kernel, deadline, exit, pipe, output>>
    BY <1>8, <1>9 DEF CleanupKnown, Finish, KnownExit, QueryTypeOK, ResultFits, Failing
  <2>2. QueryTypeOK' /\ Counted' /\ WithinLimit' /\ ClosedIsDrained'
    BY <2>1 DEF kernel, QueryTypeOK, Counted, WithinLimit, ClosedIsDrained, Collecting, Failures
  <2>3. Rest
    BY <2>1 DEF kernel, KnownExit, ResultFits, Collecting, Failing, Confirming, Ends, Failures
  <2> QED BY <2>2, <2>3
<1>10. CASE CleanupKill
  <2>1. /\ pc \in Failing /\ pc' = "confirm" /\ exit = "none" /\ exit' = exit
        /\ result' \in [kind : Failures, exit : {"none"}] /\ deadline' = clock + CleanTicks
        /\ UNCHANGED <<clock, written, inPipe, writers, pipe, output>>
        /\ child' \in {child} \cup Ends
    BY <1>8, <1>10 DEF CleanupKill, Ends
  <2>2. child # "none"
    BY <2>1 DEF ResultFits, Failing
  <2>3. QueryTypeOK' /\ Counted' /\ WithinLimit' /\ ClosedIsDrained'
    BY <2>1, GitQueryAssumption
       DEF QueryTypeOK, Counted, WithinLimit, ClosedIsDrained, Collecting, Failures, Confirming
  <2>4. Rest
    BY <2>1, <2>2 DEF KnownExit, ResultFits, Collecting, Failing, Confirming, Ends, Failures
  <2> QED BY <2>3, <2>4
<1>11. CASE Confirm
  <2>1. /\ pc = "confirm" /\ child # "none" /\ result.kind \in Failures /\ result.exit = "none"
        /\ UNCHANGED <<kernel, deadline, exit, pipe, output>>
    BY <1>11 DEF Confirm, ResultFits, Confirming
  <2>2. \/ pc' = "confirm_sleep" /\ result' = result
        \/ /\ pc' = "done" /\ result' \in [kind : Failures, exit : {"Unconfirmed"} \cup Ends]
           /\ result'.exit \in Ends => result'.exit = child
    BY <1>11, <2>1 DEF Confirm, Finish, QueryTypeOK, Ends
  <2>3. QueryTypeOK' /\ Counted' /\ WithinLimit' /\ ClosedIsDrained'
    BY <2>1, <2>2 DEF kernel, QueryTypeOK, Counted, WithinLimit, ClosedIsDrained, Collecting, Failures, Confirming
  <2>4. Rest
    BY <2>1, <2>2 DEF kernel, KnownExit, ResultFits, Collecting, Failing, Confirming, Ends, Failures
  <2> QED BY <2>3, <2>4
<1> QED BY <1>1, <1>2, <1>3, <1>4, <1>5, <1>6, <1>7, <1>9, <1>10, <1>11 DEF Parent

\* What Git does reaches the parent only through the pipes and the end of the child.
LEMMA GitKeepsInv ==
  ASSUME QueryInv, Git
  PROVE  QueryInv'
<1> USE DEF QueryInv
<1>1. ASSUME NEW s \in Streams, GitWrites(s) PROVE QueryInv'
  <2>1. QueryTypeOK'
    BY <1>1 DEF GitWrites, ParentVars, QueryTypeOK
  <2>2. Counted'
    BY <1>1 DEF GitWrites, ParentVars, QueryTypeOK, Counted
  <2>3. WithinLimit' /\ ClosedIsDrained'
    BY <1>1 DEF GitWrites, ParentVars, QueryTypeOK, WithinLimit, ClosedIsDrained
  <2>4. KnownExit' /\ ResultFits'
    BY <1>1 DEF GitWrites, ParentVars, KnownExit, ResultFits
  <2> QED BY <2>1, <2>2, <2>3, <2>4
<1>2. ASSUME NEW s \in Streams, GitCloses(s) PROVE QueryInv'
  <2>1. QueryTypeOK' /\ Counted' /\ WithinLimit' /\ ClosedIsDrained'
    BY <1>2 DEF GitCloses, ParentVars, QueryTypeOK, Counted, WithinLimit, ClosedIsDrained
  <2>2. KnownExit' /\ ResultFits'
    BY <1>2 DEF GitCloses, ParentVars, KnownExit, ResultFits
  <2> QED BY <2>1, <2>2
<1>3. CASE GitExits
  <2>1. QueryTypeOK' /\ Counted' /\ WithinLimit' /\ ClosedIsDrained'
    BY <1>3 DEF GitExits, ParentVars, QueryTypeOK, Counted, WithinLimit, ClosedIsDrained, Ends
  <2>2. KnownExit' /\ ResultFits'
    BY <1>3 DEF GitExits, ParentVars, KnownExit, ResultFits, QueryTypeOK, Ends
  <2> QED BY <2>1, <2>2
<1> QED BY <1>1, <1>2, <1>3 DEF Git

\* The invariant of collect_command: what was written is what is in the pipe or
\* retained, and what the parent knows of the child is so.
THEOREM QueryInvariant == Spec => []QueryInv
<1>1. QueryInv /\ [Next]_gvars => QueryInv'
  <2> SUFFICES ASSUME QueryInv, [Next]_gvars PROVE QueryInv'
    OBVIOUS
  <2>1. CASE UNCHANGED gvars
    BY <2>1 DEF gvars, QueryInv, QueryTypeOK, Counted, WithinLimit, ClosedIsDrained, KnownExit, ResultFits
  <2> QED BY <2>1, ParentKeepsInv, GitKeepsInv DEF Next, Done
<1> QED BY <1>1, InitEstablishesInv, PTL DEF Spec

-----------------------------------------------------------------------------
(* The properties *)

\* Output that is reported as collected is all that Git and its descendants
\* wrote or can still write, whatever the limits and deadlines (collect_command).
THEOREM CollectedOutputIsWhole == Spec => []SuccessIsWholeOutput
<1>1. QueryInv => SuccessIsWholeOutput
  <2> SUFFICES ASSUME QueryInv, result.kind = "Ok"
               PROVE  /\ \A s \in Streams : output[s] = written[s] /\ inPipe[s] = 0 /\ ~writers[s]
                      /\ child # "running" /\ result.exit = child
    BY DEF SuccessIsWholeOutput
  <2>1. result.exit = child /\ child \in Ends
    BY DEF QueryInv, ResultFits
  <2>2. \A s \in Streams : inPipe[s] = 0 /\ ~writers[s] /\ written[s] = inPipe[s] + output[s]
    BY DEF QueryInv, ResultFits, ClosedIsDrained, Counted
  <2> QED BY <2>1, <2>2 DEF QueryInv, QueryTypeOK, Ends
<1> QED BY <1>1, QueryInvariant, PTL

\* A reported exit is the child's own (cleanup_direct_child).
THEOREM ReportedExitIsReal == Spec => []ExitIsNeverGuessed
<1>1. QueryInv => ExitIsNeverGuessed
  BY DEF QueryInv, ResultFits, ExitIsNeverGuessed, Ends
<1> QED BY <1>1, QueryInvariant, PTL

\* No stream is ever retained beyond its limit (drain_pipe).
THEOREM OutputIsBounded == Spec => []WithinLimit
<1>1. QueryInv => WithinLimit
  BY DEF QueryInv
<1> QED BY <1>1, QueryInvariant, PTL

=============================================================================
