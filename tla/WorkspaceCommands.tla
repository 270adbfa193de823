-------------------------- MODULE WorkspaceCommands --------------------------
(***************************************************************************)
(* The commands that visit every checkout of a workspace: exec, fetch and  *)
(* push (exec.go, fetch.go, push.go and their command lines).  They take   *)
(* no lock, so the user, the programs exec starts and other commands may   *)
(* change a checkout, an upstream or a remote between any two steps, and   *)
(* an interrupt may arrive at any time.                                    *)
(*                                                                         *)
(* A checkout is what the commands observe of it.  Commit 1 is the one the *)
(* workspace state records, 2 descends from it and 0 does not.  A branch   *)
(* is the workspace's own or another; likewise an upstream.  The rows are  *)
(* the Repositories of the result; diagnostics are left out.               *)
(***************************************************************************)
EXTENDS Naturals, Sequences, SequencesExt, DirectProcess

CONSTANTS
    Order,          \* the project's repositories, parents first
    Companions,
    Workspaces,     \* what workspace states record: [absent, detached]
    Commands,       \* invocations: [name, scope, reverse, dry, human]
    None,
    MaxEdits, MaxFaults   \* bounds of the exploration

Repos == Range(Order)
Base == Order[1]
Commits == 0..2

CommandsTyped == Commands \subseteq
    {c \in [name: {"exec", "fetch", "push"}, scope: {"all", "ordinary"} \cup Repos,
            reverse: BOOLEAN, dry: BOOLEAN, human: BOOLEAN] : c.name = "push" => ~c.dry}

\* Each repository once; push has no dry run.
ASSUME OrderAssumption == Order \in Seq(Repos) /\ Order # <<>> /\ IsInjective(Order) /\ Companions \subseteq Repos
ASSUME NoneAssumption == None \notin Commits
ASSUME CommandsAssumption == CommandsTyped
ASSUME WorkspacesAssumption == Workspaces \subseteq [absent: SUBSET Repos, detached: SUBSET Repos]

VARIABLES
    checkout,   \* what Git and the file system say of each checkout
    remote,     \* the commit each remote branch advertises, or None
    tracking,   \* the remote-tracking refs
    cmd, ws,    \* this invocation and the workspace state it read
    pc, pos,    \* where the command is, and at which row
    plan,       \* what it learned of each repository, or None
    rows,       \* the rows of its result
    result,     \* the status it returned
    shown,      \* the rows that reached the output
    streamed,   \* a row was written as it completed
    broken,     \* the last row that was written failed (streamErr)
    begun,      \* ghost: repositories a program or a network call was started for
    moved,      \* ghost: tracking refs this fetch moved
    unread,     \* ghost: repositories whose ref could not be read after the fetch
    abandoned,  \* ghost: repositories whose program was left running
    been,       \* ghost: what each checkout was since the start
    advertised, \* ghost: commits its remote branch had since the start
    edits, faults

world == <<checkout, remote, tracking, been, advertised>>
inputs == <<cmd, ws>>
output == <<shown, streamed, broken>>
ghosts == <<begun, moved, unread, abandoned>>
vars == <<world, inputs, pc, pos, plan, rows, result, output, ghosts, edits, faults, process_vars>>

Present(r) == r \notin ws.absent

\* selectExecRepositories; fetch takes what is present and push has a row for
\* every repository of the project.
Selected(r) ==
    \/ cmd.name = "push"
    \/ Present(r) /\ \/ cmd.scope = "all"
                     \/ cmd.scope = "ordinary" /\ r \notin Companions
                     \/ cmd.scope = r

\* The repositories of S, parents first.
InOrder(S) ==
    LET among[n \in 0..Len(Order)] ==
            IF n = 0 THEN <<>>
            ELSE IF Order[n] \in S THEN Append(among[n - 1], Order[n]) ELSE among[n - 1]
    IN among[Len(Order)]
Rows == InOrder({r \in Repos : Selected(r)})
RunOrder == IF cmd.reverse THEN Reverse(Rows) ELSE Rows
Streams == cmd.human /\ ~cmd.dry

Unsettled == IF cmd.name = "push" THEN "ready" ELSE "planned"
NewRow(r) == [status |-> Unsettled, head |-> 1, got |-> None, started |-> FALSE,
              left |-> FALSE, findings |-> {}]

Returned == pc \in {"returned", "done"}

Init ==
    /\ ProcessInit
    /\ cmd \in Commands /\ ws \in Workspaces
    /\ checkout = [r \in Repos |->
           IF r \in ws.detached
           THEN [dir |-> "own", branch |-> "none", at |-> 1, clean |-> TRUE, upstream |-> "none"]
           ELSE [dir |-> "own", branch |-> "own", at |-> 1, clean |-> TRUE, upstream |-> "own"]]
    /\ tracking = [r \in Repos |-> [own |-> 1, other |-> 0]]
    /\ \E tip \in 1..2 : remote = [r \in Repos |-> [own |-> tip, other |-> 0]]
    /\ pc = "begin" /\ pos = 1
    /\ plan = [r \in Repos |-> None]
    /\ rows = [r \in Range(Rows) |-> NewRow(r)]
    /\ result = "none"
    /\ shown = <<>> /\ streamed = FALSE /\ broken = FALSE
    /\ begun = {} /\ moved = {} /\ unread = {} /\ abandoned = {}
    /\ been = [r \in Repos |-> {}] /\ advertised = [r \in Repos |-> {}]
    /\ edits = 0 /\ faults = 0

-----------------------------------------------------------------------------
(* What changes under a running command.                                   *)

Fields == [dir |-> {"own", "another", "gone"}, branch |-> {"own", "other", "none"}, at |-> Commits, clean |-> BOOLEAN, upstream |-> {"own", "other", "none"}]

Remember ==
    /\ been' = [r \in Repos |-> been[r] \cup {checkout'[r]}]
    /\ advertised' = [r \in Repos |-> advertised[r] \cup {remote'[r].own}]

Edited == /\ edits < MaxEdits /\ edits' = edits + 1
          /\ pc # "done"
          /\ Remember
          /\ UNCHANGED <<inputs, pc, pos, plan, rows, result, output, ghosts, faults, process_vars>>

\* git switch: another branch with its own commit and upstream.
UserSwitches == \E r \in Repos : \E branch \in Fields.branch, at \in Fields.at, up \in Fields.upstream :
    /\ Present(r) /\ branch # checkout[r].branch
    /\ checkout' = [checkout EXCEPT ![r].branch = branch, ![r].at = at, ![r].upstream = up]
    /\ UNCHANGED <<remote, tracking>>
    /\ Edited

\* A commit, a reset, an edit, a new upstream, a removed or replaced directory.
EditCheckout == \E r \in Repos : \E f \in DOMAIN Fields \ {"branch"} : \E v \in Fields[f] :
    /\ Present(r) /\ v # checkout[r][f]
    /\ checkout' = [checkout EXCEPT ![r][f] = v]
    /\ UNCHANGED <<remote, tracking>>
    /\ Edited

\* Somebody pushes to, rewinds or removes the remote branch.
RemoteChanges == \E r \in Repos : \E c \in Commits \cup {None} :
    /\ Present(r) /\ c # remote[r].own
    /\ remote' = [remote EXCEPT ![r].own = c]
    /\ UNCHANGED <<checkout, tracking>>
    /\ Edited

UserFetches == \E r \in Repos :
    /\ Present(r) /\ remote[r].own \notin {None, tracking[r].own}
    /\ tracking' = [tracking EXCEPT ![r].own = remote[r].own]
    /\ UNCHANGED <<checkout, remote>>
    /\ Edited

Interrupt == ~Returned /\ Cancel
    /\ UNCHANGED <<world, inputs, pc, pos, plan, rows, result, output, ghosts, edits, faults>>

Fault == faults < MaxFaults /\ faults' = faults + 1

-----------------------------------------------------------------------------
(* Rows and output.                                                        *)

Return(status) == pc' = "returned" /\ result' = status /\ UNCHANGED pos
Goto(where, p) == pc' = where /\ pos' = p /\ UNCHANGED result

Current == RunOrder[pos]
Finished == pos > Len(RunOrder)

\* Rows nobody has settled, from position p of the execution order on.
Canceled(rs, p) == [r \in DOMAIN rs |->
    IF rs[r].status = Unsettled /\ \E i \in p..Len(RunOrder) : RunOrder[i] = r
    THEN [rs[r] EXCEPT !.status = "canceled"] ELSE rs[r]]

\* The row at pos is final and handed to OnComplete (notifyExec, notifyFetch,
\* notifyPush).  A writer error ends the command: what was never settled is
\* canceled and the failed output is not used again.
Settle(rs, GoOn) ==
    \/ /\ rows' = rs /\ GoOn
       /\ IF Streams THEN /\ shown' = Append(shown, <<Current, rs[Current].status>>)
                          /\ streamed' = TRUE /\ broken' = FALSE
                     ELSE UNCHANGED output
    \/ /\ Streams /\ broken' = TRUE /\ UNCHANGED <<shown, streamed>>
       /\ rows' = Canceled(rs, pos + 1)
       /\ Return("failed")

Row(status) == [rows EXCEPT ![Current].status = status]

\* Mutant: rows that were never started keep the status they had.
CancelSilently ==
    /\ pc = "canceling" /\ ~Finished
    /\ rows' = Row("canceled") /\ Goto("canceling", pos + 1)
    /\ UNCHANGED <<world, inputs, plan, output, ghosts, edits, faults, process_vars>>

\* cancelExecResult, cancelFetch, cancelPush and cancelUnstartedPush: every row
\* that is left becomes canceled and is handed out.
CancelRow ==
    /\ pc = "canceling" /\ ~Finished
    /\ Settle(Row("canceled"), Goto("canceling", pos + 1))
    /\ UNCHANGED <<world, inputs, plan, ghosts, edits, faults, process_vars>>

CancelEnds ==
    /\ pc = "canceling" /\ Finished
    /\ Return("failed")
    /\ UNCHANGED <<world, inputs, plan, rows, output, ghosts, edits, faults, process_vars>>

\* The command line: a result nothing of which was streamed is rendered whole,
\* push in its human form always streams.
Deliver ==
    /\ pc = "returned" /\ pc' = "done"
    /\ LET whole == [i \in 1..Len(Rows) |-> <<Rows[i], rows[Rows[i]].status>>]
           unseen == cmd.name # "push" /\ (cmd.dry \/ (result = "failed" /\ ~streamed))
       IN shown' = IF ~broken /\ (~cmd.human \/ unseen) THEN whole ELSE shown
    /\ UNCHANGED <<world, inputs, pos, plan, rows, result, streamed, broken, ghosts, edits, faults, process_vars>>

Outcome == IF \E r \in DOMAIN rows : rows[r].status = "failed" THEN "failed" ELSE "completed"

\* Ghosts of a start; the process is DirectProcess's.
Begins(r) == begun' = begun \cup {r} /\ UNCHANGED <<moved, unread, abandoned>>

\* The start of a command: from here on its answers are about this run.
Starting == been' = [r \in Repos |-> {checkout[r]}]
            /\ advertised' = [r \in Repos |-> {remote[r].own}]
            /\ UNCHANGED <<checkout, remote, tracking, inputs, output, ghosts, edits, faults, process_vars>>

\* Steps that neither change a repository nor run a program.
Kept == UNCHANGED <<world, inputs, ghosts, edits, process_vars>>

-----------------------------------------------------------------------------
(* exec.                                                                   *)

Scoped == cmd.scope # "all"

\* Selection and the checks of the recorded checkouts: an explicit selection
\* must select something and accepts no checkout recorded as detached.
ExecBegin ==
    /\ cmd.name = "exec" /\ pc = "begin" /\ Starting /\ UNCHANGED plan
    /\ LET refused == {i \in 1..Len(Rows) : Scoped /\ Rows[i] \in ws.detached}
       IN \/ Rows = <<>> /\ Scoped /\ pc' = "done" /\ result' = "refused" /\ UNCHANGED <<rows, pos>>
          \/ /\ refused # {} /\ Return("failed")
             /\ LET first == Rows[CHOOSE i \in refused : \A j \in refused : i <= j]
                IN rows' = [rows EXCEPT ![first].status = "failed"]
          \/ ~(Rows = <<>> /\ Scoped) /\ refused = {} /\ canceled /\ Return("failed") /\ UNCHANGED rows
          \/ ~(Rows = <<>> /\ Scoped) /\ refused = {} /\ ~canceled /\ Goto("plan", 1) /\ UNCHANGED rows

\* The checkout is the recorded one; a companion may be ahead of its record.
Recorded(r) ==
    /\ checkout[r].dir = "own"
    /\ checkout[r].branch = IF r \in ws.detached THEN "none" ELSE "own"
    /\ checkout[r].at = 1 \/ (r \in Companions /\ checkout[r].at > 1)

\* preflightRepository for one checkout after the other; the first that is not
\* as recorded, or an interrupt, ends the command with that row failed.
Preflight ==
    /\ cmd.name = "exec" /\ pc = "plan" /\ pos <= Len(Rows)
    /\ LET r == Rows[pos] IN
       \/ /\ ~canceled /\ Recorded(r)
          /\ plan' = [plan EXCEPT ![r] = [ok |-> TRUE, head |-> checkout[r].at]]
          /\ Goto("plan", pos + 1) /\ UNCHANGED <<rows, faults>>
       \/ /\ \/ (canceled \/ ~Recorded(r)) /\ UNCHANGED faults
             \/ Fault
          /\ rows' = [rows EXCEPT ![r].status = "failed"]
          /\ Return("failed") /\ UNCHANGED plan
    /\ Kept /\ UNCHANGED output

\* Every checkout passed: the facts go into the rows.
Planned ==
    /\ cmd.name = "exec" /\ pc = "plan" /\ pos > Len(Rows)
    /\ \/ canceled /\ Return("failed") /\ UNCHANGED rows
       \/ /\ ~canceled
          /\ rows' = [r \in DOMAIN rows |-> [rows[r] EXCEPT !.head = plan[r].head]]
          /\ IF cmd.dry THEN Return("planned") ELSE Goto("turn", 1)
    /\ Kept /\ UNCHANGED <<plan, output, faults>>

ExecTurn ==
    /\ cmd.name = "exec" /\ pc = "turn"
    /\ \/ Finished /\ Return(Outcome)
       \/ ~Finished /\ canceled /\ Goto("canceling", pos)
       \/ ~Finished /\ ~canceled /\ Goto("launch", pos)
    /\ Kept /\ UNCHANGED <<plan, rows, output, faults>>

\* RunDirectProcess looks at the context again before it starts the program.
NotLaunched ==
    /\ pc = "launch"
    /\ \/ /\ canceled /\ UNCHANGED faults
          /\ Settle(Row("canceled"), Goto("canceling", pos + 1))
       \/ /\ ~canceled /\ Fault
          /\ Settle(Row("failed"), Goto("turn", pos + 1))
    /\ Kept /\ UNCHANGED plan

Launch ==
    /\ pc = "launch" /\ StartChild
    /\ rows' = [rows EXCEPT ![Current].started = TRUE]
    /\ Begins(Current) /\ Goto("program", pos)
    /\ UNCHANGED <<world, inputs, plan, output, edits, faults>>

Attend == pc = "program" /\ WaiterStep
    /\ UNCHANGED <<world, inputs, pc, pos, plan, rows, result, output, ghosts, edits, faults>>

ProgramWorks == pc = "program" /\ ProgramStep
    /\ UNCHANGED <<world, inputs, pc, pos, plan, rows, result, output, ghosts, edits, faults>>

\* The result of the program: interrupted, failed (its exit status, or its
\* output could not be captured) or completed.
Collect ==
    /\ pc = "program" /\ TakeResult
    /\ LET row(status) == [Row(status) EXCEPT ![Current].left = leaked] IN
       \/ /\ canceled /\ UNCHANGED faults
          /\ Settle(row("canceled"), Goto("canceling", pos + 1))
       \/ /\ ~canceled
          /\ \/ Fault /\ Settle(row("failed"), Goto("turn", pos + 1))
             \/ /\ UNCHANGED faults
                /\ Settle(row(IF code = "zero" THEN "completed" ELSE "failed"), Goto("turn", pos + 1))
    /\ abandoned' = IF child = "running" \/ holder # "none" THEN abandoned \cup {Current} ELSE abandoned
    /\ UNCHANGED <<world, inputs, plan, begun, moved, unread, edits>>

-----------------------------------------------------------------------------
(* fetch.                                                                  *)

Fetching == cmd.name = "fetch"

FetchBegin ==
    /\ Fetching /\ pc = "begin" /\ Starting /\ UNCHANGED plan
    /\ \/ canceled /\ rows' = Canceled(rows, 1) /\ Return("failed")
       \/ ~canceled /\ Goto("plan", 1) /\ UNCHANGED rows

\* fetchRepository: the checkout is the recorded one and its branch has a
\* complete upstream.
Fetchable(r) == Recorded(r) /\ r \notin ws.detached /\ checkout[r].upstream # "none"
Facts(r) == [ok |-> TRUE, head |-> checkout[r].at, upstream |-> checkout[r].upstream]

\* fetchPlan: what is wrong with one checkout waits for its turn.
FetchPlan ==
    /\ Fetching /\ pc = "plan" /\ ~Finished
    /\ \/ /\ canceled /\ rows' = Canceled(rows, 1) /\ Return("failed") /\ UNCHANGED <<plan, faults>>
       \/ /\ ~canceled /\ UNCHANGED rows
          /\ \/ Fetchable(Current) /\ plan' = [plan EXCEPT ![Current] = Facts(Current)] /\ UNCHANGED faults
             \/ /\ \/ ~Fetchable(Current) /\ UNCHANGED faults
                   \/ Fault
                /\ plan' = [plan EXCEPT ![Current] = [ok |-> FALSE]]
          /\ IF pos = Len(RunOrder) THEN Goto("turn", 1) ELSE Goto("plan", pos + 1)
    /\ Kept /\ UNCHANGED output

\* An error of the plan is settled even after an interrupt.
FetchTurn ==
    /\ Fetching /\ pc = "turn"
    /\ \/ Finished /\ Return(Outcome) /\ UNCHANGED <<rows, output>>
       \/ /\ ~Finished /\ ~plan[Current].ok
          /\ Settle(Row("failed"), Goto("turn", pos + 1))
       \/ /\ ~Finished /\ plan[Current].ok /\ UNCHANGED <<rows, output>>
          /\ Goto(IF canceled THEN "canceling" ELSE "recheck", pos)
    /\ Kept /\ UNCHANGED <<plan, faults>>

\* sameFetchAuthority, immediately before the network.
Recheck ==
    /\ pc = "recheck"
    /\ \/ /\ ~canceled /\ Fetchable(Current) /\ Facts(Current) = plan[Current]
          /\ rows' = [rows EXCEPT ![Current].head = plan[Current].head]
          /\ Goto("network", pos) /\ UNCHANGED <<output, faults>>
       \/ /\ canceled /\ Goto("canceling", pos) /\ UNCHANGED <<rows, output, faults>>
       \/ /\ ~canceled
          /\ \/ ~(Fetchable(Current) /\ Facts(Current) = plan[Current]) /\ UNCHANGED faults
             \/ Fault
          /\ Settle(Row("failed"), Goto("turn", pos + 1))
    /\ Kept /\ UNCHANGED plan

Ref == plan[Current].upstream
Advertised(r, ref) == remote[r][ref]
Got(status, commit) == [rows EXCEPT ![Current].status = status, ![Current].got = commit]

\* A call of Git over the network returns once it has ended and nobody holds its
\* output: Output of os/exec, without a process group and without WaitDelay.
Calling == (pc = "network" /\ cmd.dry) \/ pc \in {"fetching", "observe"}

GitHelper == ((Calling /\ HelperHolds) \/ HelperEnds)
    /\ UNCHANGED <<world, inputs, pc, pos, plan, rows, result, output, ghosts, edits, faults>>

\* ObserveConfiguredRef of a dry run.
Observe ==
    /\ pc = "network" /\ cmd.dry /\ ~held
    /\ \/ canceled /\ Goto("canceling", pos) /\ UNCHANGED <<rows, output, faults, ghosts>>
       \/ /\ ~canceled /\ Begins(Current)
          /\ \/ /\ Advertised(Current, Ref) # None /\ UNCHANGED faults
                /\ Settle(Got("completed", Advertised(Current, Ref)), Goto("turn", pos + 1))
             \/ /\ \/ Advertised(Current, Ref) = None /\ UNCHANGED faults
                   \/ Fault
                /\ Settle(Row("failed"), Goto("turn", pos + 1))
    /\ UNCHANGED <<world, inputs, plan, edits, process_vars>>

\* FetchConfiguredRef: the context is looked at, the old ref read and git started.
StartFetch ==
    /\ pc = "network" /\ ~cmd.dry
    /\ \/ /\ canceled /\ UNCHANGED <<faults, ghosts>>
          /\ Settle(Row("canceled"), Goto("canceling", pos + 1))
       \/ /\ ~canceled /\ Fault /\ UNCHANGED ghosts
          /\ Settle(Row("failed"), Goto("turn", pos + 1))
       \/ /\ ~canceled /\ Begins(Current) /\ Goto("fetching", pos)
          /\ UNCHANGED <<rows, output, faults>>
    /\ UNCHANGED <<world, inputs, plan, edits, process_vars>>

\* git fetch moves the one tracking ref ...
RefMoves ==
    /\ pc = "fetching" /\ Advertised(Current, Ref) # None
    /\ tracking' = [tracking EXCEPT ![Current][Ref] = Advertised(Current, Ref)]
    /\ moved' = moved \cup {Current} /\ Goto("fetched", pos)
    /\ UNCHANGED <<checkout, remote, been, advertised, inputs, plan, rows, output, begun, unread,
                   abandoned, edits, faults, process_vars>>

\* ... or ends without: no such branch, interrupted, the network.
FetchBreaks ==
    /\ pc = "fetching"
    /\ \/ (Advertised(Current, Ref) = None \/ canceled) /\ UNCHANGED faults
       \/ Fault
    /\ Goto("unfetched", pos)
    /\ Kept /\ UNCHANGED <<plan, rows, output>>

\* Mutant: an interrupted fetch returns no receipt.
DropReceipt ==
    /\ pc \in {"fetched", "unfetched"} /\ UNCHANGED faults
    /\ LET status == IF canceled THEN "canceled" ELSE IF pc = "unfetched" THEN "failed" ELSE "completed"
       IN Settle(Got(status, IF canceled THEN None ELSE tracking[Current][Ref]),
                 Goto(IF canceled THEN "canceling" ELSE "turn", pos + 1))
    /\ Kept /\ UNCHANGED plan

\* The ref is read again without the context, and the receipt kept with
\* whatever else happened; a ref that cannot be read leaves no receipt.
FetchReturns ==
    /\ pc \in {"fetched", "unfetched"} /\ ~held
    /\ LET next == Goto(IF canceled THEN "canceling" ELSE "turn", pos + 1)
           status == IF canceled THEN "canceled" ELSE IF pc = "unfetched" THEN "failed" ELSE "completed"
       IN \/ /\ Settle(Got(status, tracking[Current][Ref]), next)
             /\ UNCHANGED <<faults, unread>>
          \/ Fault /\ UNCHANGED unread /\ ~canceled /\ Settle(Got("failed", tracking[Current][Ref]), next)
          \/ /\ Fault /\ unread' = unread \cup {Current}
             /\ Settle(Row(IF canceled THEN "canceled" ELSE "failed"), next)
    /\ UNCHANGED <<world, inputs, begun, moved, abandoned, plan, edits, process_vars>>

-----------------------------------------------------------------------------
(* push: a report, it never publishes.                                     *)

Pushing == cmd.name = "push"

\* The manifest committed at the base checkout's head is the authority; without
\* it every row fails and none is handed out (failUnstartedPush).
PushBegin ==
    /\ Pushing /\ pc = "begin" /\ UNCHANGED plan
    /\ \/ canceled /\ Goto("canceling", 1) /\ UNCHANGED rows /\ Starting
       \/ /\ ~canceled /\ Present(Base) /\ checkout[Base].dir = "own"
          /\ Goto("plan", 1) /\ UNCHANGED rows /\ Starting
       \/ /\ ~canceled
          /\ rows' = [r \in DOMAIN rows |-> [rows[r] EXCEPT !.status = "failed"]]
          /\ Return("failed") /\ Starting

Blocked(row, codes) == IF codes = {} THEN row ELSE
    [row EXCEPT !.findings = @ \cup codes,
                !.status = IF @ = "failed" THEN "failed" ELSE "blocked"]
Partial == IF ws.absent = {} THEN {} ELSE {"partial-workspace"}
If(condition, finding) == IF condition THEN {finding} ELSE {}

\* Findings under which the remote of a checkout is not contacted.
NoAuthority == {"missing-repository", "detached", "identity-mismatch", "metadata-commit-unavailable"}

Local(row, detached, remoteOK) == [row |-> row, detached |-> detached, remoteOK |-> remoteOK]
NextLocal == IF pos = Len(RunOrder) THEN Goto("turn", 1) ELSE Goto("plan", pos + 1)

\* pushLocalEntry, up to the head of the checkout.
PushLook ==
    /\ Pushing /\ pc = "plan"
    /\ LET r == Current
           c == checkout[r]
           row == [NewRow(r) EXCEPT !.head = c.at]
           found == If(c.dir # "own", "identity-mismatch")
                    \cup If(c.branch = "none", "detached") \cup If(c.branch = "other", "identity-mismatch")
       IN \/ canceled /\ Goto("canceling", 1) /\ UNCHANGED <<plan, faults>>
          \/ /\ ~canceled /\ UNCHANGED faults /\ ~Present(r)
             /\ plan' = [plan EXCEPT ![r] = Local(Blocked(NewRow(r), {"missing-repository"}), FALSE, FALSE)]
             /\ NextLocal
          \/ /\ ~canceled /\ UNCHANGED faults /\ Present(r) /\ c.dir = "gone"
             /\ plan' = [plan EXCEPT ![r] =
                    Local(Blocked(NewRow(r), {"missing-repository"} \cup Partial), FALSE, FALSE)]
             /\ NextLocal
          \/ /\ ~canceled /\ Present(r) /\ Fault
             /\ plan' = [plan EXCEPT ![r] =
                    Local(Blocked([NewRow(r) EXCEPT !.status = "failed"], Partial), FALSE, FALSE)]
             /\ NextLocal
          \/ /\ ~canceled /\ UNCHANGED faults /\ Present(r) /\ c.dir # "gone"
             /\ plan' = [plan EXCEPT ![r] = Local(Blocked(row, found), c.branch = "none", FALSE)]
             /\ Goto("compare", pos)
    /\ Kept /\ UNCHANGED <<rows, output>>

\* The checkout against the tracking ref of its upstream.
Distance(at, track) == IF at = track THEN {}
    ELSE IF at = 0 \/ track = 0 THEN {"diverged"} ELSE IF at > track THEN {"ahead"} ELSE {"behind"}

\* pushLocalEntry, the rest: status, metadata, ahead and behind, upstream.  Each
\* is read again from the checkout, which may have changed since.
PushCompare ==
    /\ pc = "compare"
    /\ LET r == Current
           c == checkout[r]
           before == plan[r].row
           status == If(~c.clean, "dirty") \cup If(c.at = 0, "metadata-commit-unavailable")
           unset == c.branch = "none" \/ c.upstream = "none"
           upstream == Distance(c.at, tracking[r][c.upstream])
                       \cup If(c.branch # "own" \/ c.upstream # "own", "identity-mismatch")
           codes == status \cup IF plan[r].detached THEN {}
                                ELSE IF unset THEN {"missing-upstream"} ELSE upstream
           row == Blocked(before, codes)
           observe == ~plan[r].detached /\ ~unset /\ row.findings \cap NoAuthority = {}
       IN \/ canceled /\ Goto("canceling", 1) /\ UNCHANGED <<plan, faults>>
          \/ /\ ~canceled
             /\ \/ /\ c.dir # "gone" /\ UNCHANGED faults
                   /\ plan' = [plan EXCEPT ![r] = Local(Blocked(row, Partial), plan[r].detached, observe)]
                \/ /\ \/ c.dir = "gone" /\ UNCHANGED faults
                      \/ Fault
                   /\ plan' = [plan EXCEPT ![r] =
                          Local(Blocked([before EXCEPT !.status = "failed"], Partial), plan[r].detached, FALSE)]
             /\ NextLocal
    /\ Kept /\ UNCHANGED <<rows, output>>

CanceledBefore(p) == [r \in DOMAIN rows |->
    IF \E i \in 1..(p - 1) : RunOrder[i] = r THEN [rows[r] EXCEPT !.status = "canceled"] ELSE rows[r]]

\* cancelPush rewrites the rows that were already handed out.
CancelPush == rows' = CanceledBefore(pos) /\ Goto("canceling", pos) /\ UNCHANGED output

\* A writer error after an interrupt is an interrupt (cancelPushAfterCallback).
PushSettle(row) ==
    LET rs == [rows EXCEPT ![Current] = row] IN
    \/ Settle(rs, Goto("turn", pos + 1)) /\ ~(broken' /\ canceled)
    \/ /\ Streams /\ canceled /\ broken' = TRUE /\ UNCHANGED <<shown, streamed>>
       /\ rows' = CanceledBefore(pos + 1) /\ Goto("canceling", pos + 1)

PushOutcome ==
    IF \E r \in DOMAIN rows : rows[r].status = "failed" THEN "failed"
    ELSE IF \E r \in DOMAIN rows : rows[r].status = "blocked" THEN "blocked" ELSE "ready"

PushTurn ==
    /\ Pushing /\ pc = "turn"
    /\ \/ Finished /\ Return(PushOutcome) /\ UNCHANGED <<rows, output>>
       \/ ~Finished /\ canceled /\ CancelPush
       \/ /\ ~Finished /\ ~canceled /\ plan[Current].remoteOK
          /\ Goto("observe", pos) /\ UNCHANGED <<rows, output>>
       \/ ~Finished /\ ~canceled /\ ~plan[Current].remoteOK /\ PushSettle(plan[Current].row)
    /\ Kept /\ UNCHANGED <<plan, faults>>

\* Mutant: an advertised branch is enough, whatever commit it is at.
ObserveAnyCommit ==
    /\ pc = "observe" /\ ~canceled /\ UNCHANGED faults
    /\ PushSettle(plan[Current].row) /\ Begins(Current)
    /\ UNCHANGED <<world, inputs, plan, edits, process_vars>>

\* AdvertisedCommit of the upstream the plan captured.
PushObserve ==
    /\ pc = "observe" /\ ~held
    /\ LET row == plan[Current].row
           tip == remote[Current].own
       IN \/ canceled /\ CancelPush /\ UNCHANGED <<faults, ghosts>>
          \/ /\ ~canceled /\ Begins(Current)
             /\ \/ /\ tip # None /\ UNCHANGED faults
                   /\ PushSettle(Blocked([row EXCEPT !.got = tip], If(tip # row.head, "unpublished-head")))
                \/ tip = None /\ UNCHANGED faults /\ PushSettle(Blocked(row, {"unpublished-head"}))
                \/ Fault /\ PushSettle([row EXCEPT !.status = "failed"])
    /\ UNCHANGED <<world, inputs, plan, edits, process_vars>>

-----------------------------------------------------------------------------

CommandStep ==
    \/ ExecBegin \/ Preflight \/ Planned \/ ExecTurn \/ NotLaunched \/ Launch \/ Attend \/ Collect
    \/ FetchBegin \/ FetchPlan \/ FetchTurn \/ Recheck \/ Observe \/ StartFetch
    \/ RefMoves \/ FetchBreaks \/ FetchReturns
    \/ PushBegin \/ PushLook \/ PushCompare \/ PushTurn \/ PushObserve
    \/ CancelRow \/ CancelEnds \/ Deliver

Others == EditCheckout \/ UserSwitches \/ RemoteChanges \/ UserFetches \/ Interrupt \/ ProgramWorks \/ GitHelper

Next == CommandStep \/ Others

\* wtree's own steps go on, and Git ends, at the latest killed with the context.
\* A program wtree started and a helper of Git may run for ever.
Fairness == WF_vars(CommandStep)

Spec == Init /\ [][Next]_vars /\ Fairness

-----------------------------------------------------------------------------

\* What reached the output is the result: every row once, in the order the rows
\* were settled, with the status the result has (cli/exec.go, fetch.go, push.go).
\* Left out is a push that was interrupted or had no authority.
OutputIsTheResult ==
    pc = "done" /\ ~broken /\ result # "refused"
    /\ (Pushing /\ cmd.human => ~canceled /\ \E r \in DOMAIN rows : plan[r] # None)
    => LET ids == IF streamed THEN RunOrder ELSE Rows
       IN shown = [i \in 1..Len(ids) |-> <<ids[i], rows[ids[i]].status>>]

\* "OnComplete receives one final parent-first row" (push.go): a row that was
\* written is the row of the result.
WrittenRowsAreFinal ==
    pc = "done" /\ Pushing => \A i \in 1..Len(shown) : rows[shown[i][1]].status = shown[i][2]

\* A returned result says what was done: a ref that moved has its receipt or
\* could not be read again, a program that ran is a started row, one that was
\* left running is reported, and a success is one of every row.
ReportIsTrue ==
    Returned /\ result # "refused" =>
        /\ \A r \in moved : rows[r].got # None \/ (r \in unread /\ rows[r].status # "completed")
        /\ cmd.name = "exec" => begun = {r \in DOMAIN rows : rows[r].started}
        /\ \A r \in DOMAIN rows \ begun : rows[r].status # "completed"
        /\ \A r \in abandoned : rows[r].left /\ rows[r].status = "canceled"
        /\ result \in {"completed", "ready"} => \A r \in DOMAIN rows : rows[r].status = result
        /\ cmd.dry => moved = {} /\ (cmd.name = "exec" => begun = {})

\* push reads the branch and the head of a checkout, then its status, then its
\* upstream, then the remote, and all may change in between.  Each fact of a ready
\* row was true while the command ran: the head was the one of the branch, the
\* checkout on that branch was clean with its upstream, and the remote branch was
\* at the head.  A ready report contacted every remote.
ReadyWasPublished ==
    Pushing /\ Returned =>
        /\ \A r \in DOMAIN rows : r \in begun /\ rows[r].status = "ready" =>
               /\ \E c \in been[r] : c.dir = "own" /\ c.branch = "own" /\ c.at = rows[r].head
               /\ \E c \in been[r] : c.clean /\ c.at # 0 /\ c.branch = "own" /\ c.upstream = "own"
               /\ rows[r].head \in advertised[r]
        /\ result = "ready" => begun = Repos /\ ws.absent = {}

\* Nothing is started after an interrupt or a failed output, and no program
\* before every selected checkout was found as recorded.
NothingStartsLate == [][\A r \in begun' \ begun :
    /\ ~canceled /\ ~broken
    /\ cmd.name = "exec" => \A s \in Range(Rows) : plan[s] # None]_vars

\* An interrupted command ends, whatever holds the pipes of its program, unless
\* from some point on it waits for ever for a program that closed its output and
\* runs on (aggregate.go) or for a helper that holds the output of Git (adapter.go).
InterruptEnds == (canceled ~> (pc = "done")) \/ <>[](Deaf \/ held)

\* "Context cancellation and process-start failures return errors"
\* (aggregate.go, RunDirectProcess): an interrupted exec ends, without exception.
CanceledCommandEnds == (canceled /\ cmd.name = "exec") ~> (pc = "done")
=============================================================================
