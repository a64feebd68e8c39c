-------------------------- MODULE WorkspaceQueries --------------------------
(***************************************************************************)
(* `workspace list`, `path` and `status`, which take no lock and read the  *)
(* store and the directories while creations and removals run (application *)
(* query.rs, and the space scans of both adapters).                        *)
(*                                                                         *)
(* One reader runs beside the invocations of WorkspaceLifecycle.  Each of  *)
(* its snapshots, validations and scans is a step, so anything can happen  *)
(* between two of them.  `seen` is what its answer rests on: for every     *)
(* look at the directories, what was there and the state the record had    *)
(* at that moment (which the reader itself does not know).                 *)
(***************************************************************************)
EXTENDS CommandOutput

VARIABLE ask        \* the reader

queryVars == <<vars, ask>>

(* WorkspaceQuery: a record and its receipt, as one snapshot holds them. *)
QueryOf(id) == [id |-> id, row |-> workspaces[id], receipt |-> receipts[id]]
NoQuery == [id |-> NoId, row |-> NoRow, receipt |-> NoReceipt]

Resting == [cmd |-> "none", name |-> NoId, at |-> "idle", round |-> 1,
            row |-> NoQuery, prior |-> NoQuery, seen |-> {}, space |-> "absent", out |-> Silent]

QueryInit == Init /\ ask = Resting

(* The reader touches nothing but its own state. *)
Reads(next) == ask' = next /\ UNCHANGED vars

Answer(documents) ==
    \E d \in documents :
        Reads([Resting EXCEPT !.at = "printed", !.seen = ask.seen, !.row = ask.row,
                              !.prior = ask.prior, !.out = d])

Exit == ask.at = "printed" /\ Reads(Resting)

(* Whether --json was given matters only to where an error goes, and is chosen
   here; `path` has no JSON form. *)
Refuse(code) ==
    Answer(UNION {RenderError(code, json) : json \in BOOLEAN \ {ask.cmd = "path"}})

(* Cli and prescan: a line that does not parse, a word that is no name, and
   --json with `path` or --help are usage errors; --help alone prints and ends. *)
Ask ==
    /\ ask.at = "idle"
    /\ \/ \E cmd \in {"path", "status"}, name \in Names :
             Reads([Resting EXCEPT !.cmd = cmd, !.name = name, !.at = "snapshot"])
       \/ Reads([Resting EXCEPT !.cmd = "list", !.at = "list"])
       \/ Refuse("E_USAGE")
       \/ Answer(RenderSuccess(Silent))

(* inspect_current, a validation or a scan fails for a reason of the system. *)
ReadFails ==
    /\ ask.at \notin {"idle", "printed", "git"}
    /\ Refuse("E_FILESYSTEM")

(* query_from_snapshot: a Ready record must have its receipt. *)
HasReceipt(q) == q.row.state = "ready" => q.receipt # NoReceipt

(* list_workspaces: the records of one snapshot, no path among them. *)
List ==
    LET queries == {QueryOf(id) : id \in Active}
    IN  /\ ask.at = "list"
        /\ IF \A q \in queries : HasReceipt(q)
           THEN Answer(RenderSuccess(Listing({q.id : q \in queries})))
           ELSE Refuse("E_METADATA")

Found == {QueryOf(id) : id \in {i \in Active : workspaces[i].res.name = ask.name}}

(* A record that is not Ready has no path and no evidence. *)
Unready(q) ==
    IF ask.cmd = "path"
    THEN Refuse("E_WORKSPACE_NOT_READY")
    ELSE Answer(RenderSuccess(Status(q.id, q.row.state, FALSE, "absent")))

(* inspect_workspace, first snapshot. *)
Snapshot ==
    /\ ask.at = "snapshot"
    /\ \/ Found = {} /\ Refuse("E_WORKSPACE_NOT_FOUND")
       \/ \E q \in Found :
            \/ q.row.state # "ready" /\ Unready(q)
            \/ /\ q.row.state = "ready"
               /\ IF HasReceipt(q) THEN Reads([ask EXCEPT !.at = "validate", !.row = q])
                                   ELSE Refuse("E_METADATA")

SlotOf(q) == <<"target", q.row.res.target>>

(* validate_ready_workspace on the record that was read: the registered target
   under its path, no staging, no trash, no recorded isolation. *)
StillValid(q) ==
    /\ own[q.id] = "published"
    /\ dir[SlotOf(q)] = <<"target", q.id>>
    /\ dir[<<"staging", q.id>>] = NoDir /\ dir[<<"trash", q.id>>] = NoDir

(* What a look at a directory meets. *)
Sight(q, inode) ==
    [id |-> q.id, inode |-> inode,
     holds |-> IF inode = NoDir THEN "empty" ELSE content[inode],
     life |-> IF q.id \in Active THEN workspaces[q.id].state ELSE "gone"]

See(q, inode) == ask.seen \cup {Sight(q, inode)}

Validate ==
    /\ ask.at = "validate"
    /\ \/ ~StillValid(ask.row) /\ Refuse("E_TARGET_LAYOUT")
       \/ /\ StillValid(ask.row)
          /\ Reads([ask EXCEPT !.at = "confirm", !.seen = See(ask.row, dir[SlotOf(ask.row)])])

(* The verified path, of `path` at once, of `status` after each of its three
   inspections: Git runs after the first, the space scan after the second. *)
Inspected ==
    IF ask.cmd = "path"
    THEN Answer(RenderSuccess([Silent EXCEPT !.path = ask.row.id]))
    ELSE IF ask.round = 1
    THEN Reads([ask EXCEPT !.at = "git", !.prior = ask.row])
    ELSE IF ask.row # ask.prior
    THEN Refuse("E_TARGET_LAYOUT")
    ELSE IF ask.round = 2
    THEN Reads([ask EXCEPT !.at = "measure"])
    ELSE Answer(RenderSuccess(Status(ask.row.id, ask.row.row.state, TRUE, ask.space)))

(* Mutant: the record is not read again after the validation. *)
Confirm_Mutant == ask.at = "confirm" /\ Inspected

(* inspect_workspace, second snapshot: the same Ready record, or no path. *)
Confirm ==
    /\ ask.at = "confirm"
    /\ \/ Found = {} /\ Refuse("E_WORKSPACE_NOT_FOUND")
       \/ \E q \in Found :
            \/ q.row.state # "ready" /\ Unready(q)
            \/ /\ q.row.state = "ready" /\ q # ask.row
               /\ Refuse(IF HasReceipt(q) THEN "E_TARGET_LAYOUT" ELSE "E_METADATA")
            \/ q = ask.row /\ Inspected

(* git.inspect follows the path as often as it likes, and always returns. *)
InspectGit ==
    /\ ask.at = "git"
    /\ \E at \in {"git", "snapshot"} :
          Reads([ask EXCEPT !.at = at, !.round = IF at = "snapshot" THEN 2 ELSE 1,
                            !.seen = See(ask.prior, dir[SlotOf(ask.prior)])])

(* measure_root: the sum of a scan that came to its end, or Unknown when an
   entry changed under it, was of another volume or kind, or a limit was met. *)
Estimates == {"complete", "unknown"}

(* measure_ready_workspace_space: validate, open the target, scan through the
   descriptor, and validate again. *)
OpenForScan ==
    /\ ask.at = "measure"
    /\ \/ ~StillValid(ask.prior) /\ Refuse("E_TARGET_LAYOUT")
       \/ StillValid(ask.prior) /\ Reads([ask EXCEPT !.at = "scan"])

ScanSpace ==
    /\ ask.at = "scan"
    /\ \E at \in {"scan", "measured"}, space \in Estimates :
          Reads([ask EXCEPT !.at = at, !.space = IF at = "scan" THEN "absent" ELSE space,
                            !.seen = See(ask.prior, <<"target", ask.prior.id>>)])

Measured ==
    /\ ask.at = "measured"
    /\ \/ ~StillValid(ask.prior) /\ Refuse("E_TARGET_LAYOUT")
       \/ StillValid(ask.prior) /\ Reads([ask EXCEPT !.at = "snapshot", !.round = 3])

(* A step of a creation, a removal or a user beside the reader.  A reader that
   has printed exits before anyone moves: what it printed stays what it was. *)
Lifecycle == ask.at # "printed" /\ Next /\ UNCHANGED ask

Query ==
    \/ Ask \/ Exit \/ ReadFails \/ List \/ Snapshot \/ Validate \/ Confirm
    \/ InspectGit \/ OpenForScan \/ ScanSpace \/ Measured

QueryNext == Lifecycle \/ Query

QuerySpec == QueryInit /\ [][QueryNext]_queryVars

-----------------------------------------------------------------------------
(* Properties *)

(* A path that `path` or `status` prints, and the Git and space evidence beside
   it, come from a Workspace that was Ready at every look the answer rests on:
   the same record throughout, its own directory, and (left alone by users) the
   whole copy in it.  The queries take no lock, removals and re-creations under
   the same name run between any two of their steps; only the order in which a
   removal marks, isolates and erases and in which the query reads, validates
   and reads again makes it so (query.rs:111, :129). *)
AnswerRestsOnReady ==
    ask.out.path # NoId =>
        /\ ask.seen # {}
        /\ \A s \in ask.seen :
              /\ s.id = ask.out.path /\ s.life = "ready"
              /\ meddle = 0 => s.inode = <<"target", s.id>> /\ s.holds = "copy"

(* A query blames the directory layout only when a removal has taken the
   Workspace it was looking at, or a user touched the directories: in every
   other state a Ready record passes the validation, since creation clears
   staging and trash before the record becomes Ready and removal marks the
   record before it records the isolation path (query.rs:215). *)
LayoutErrorMeansRemoval ==
    ask.out.code = "E_TARGET_LAYOUT" /\ meddle = 0 =>
        \E q \in {ask.row, ask.prior} \ {NoQuery} :
            q.id \notin Active \/ workspaces[q.id].state # "ready"
=============================================================================
