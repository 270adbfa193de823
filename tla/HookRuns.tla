------------------------------- MODULE HookRuns -------------------------------
(***************************************************************************)
(* The hooks of one workspace: the durable run record, the initial run     *)
(* after create or clone, and retry (hook_runner.go, hook_retry.go,        *)
(* create_hooks.go, clone_hooks.go, store/hook_run.go).                    *)
(*                                                                         *)
(* A hook is its index in the declared order.  Digests are compared by     *)
(* what they digest: the source generation and the commit the workspace    *)
(* state records; the plan's digest is a function of the two.  Every write *)
(* of the record may fail before or after the file was replaced.           *)
(***************************************************************************)
EXTENDS Naturals, FiniteSets

CONSTANTS
    Procs,          \* wtree processes
    Hooks,          \* number of hooks declared for the event
    Sources,        \* generations of the configuration or manifest
    Commits,        \* commits a workspace can be made at
    None,
    FirstSource, FirstCommit,
    MaxCommands, MaxFailures, MaxCrashes, MaxChanges   \* bounds of the exploration

ASSUME HooksAssumption == Hooks \in Nat \ {0}
ASSUME FirstAssumption == FirstSource \in Sources /\ FirstCommit \in Commits
ASSUME NoneAssumption == None \notin Sources \cup Commits

VARIABLES
    portable,   \* post-clone hooks of a clone, or post-create hooks of a create
    config,     \* generation of the local configuration or tracked manifest
    baseline,   \* commit the next workspace is made at
    state,      \* the workspace state file: None or the commit it records
    head,       \* commit of the checkout
    record,     \* the run record on disk, or None
    job,        \* what each process is doing
    ran,        \* ghost: hooks that succeeded in this checkout
    since,      \* ghost: hooks that succeeded since the record was created
    orphans,    \* hooks still running although their wtree was killed
    commands, failures, crashes, changes

world == <<portable, config, baseline, state, head>>
ghosts == <<ran, since, orphans>>
counters == <<commands, failures, crashes, changes>>
hookVars == <<world, record, job, ghosts, counters>>

Plans == [source: Sources, commit: Commits]
Drafts == [plan: Plans, next: 0..Hooks, state: {"running", "failed", "finalizing"}]

\* validateHookRunRecord: only a finalizing record may claim every hook.  Every
\* write encodes through it and every read decodes through it.
ValidRecord(rec) == (rec.state = "finalizing") <=> (rec.next = Hooks)
Records == {rec \in Drafts : ValidRecord(rec)}

ASSUME NoRecordAssumption == None \notin Drafts /\ None \notin Plans

Holding == {"look", "begin", "recheck", "restart", "loop", "launch", "hook", "progress",
            "failing", "finish", "verifyFinal", "remove", "restore"}
Ended == {"completed", "incomplete", "refused", "dead"}

Idle == [cmd |-> "none", plan |-> None, rec |-> None, pc |-> "idle"]

\* HookRunLock: held from the acquisition to the return of Run or Resume.
Holds(p) == job[p].pc \in Holding
LockIsFree == \A p \in Procs : ~Holds(p)

HooksTypeOK ==
    /\ portable \in BOOLEAN
    /\ config \in Sources /\ baseline \in Commits
    /\ state \in Commits \cup {None} /\ head \in Commits \cup {None}
    /\ record \in Records \cup {None}
    /\ job \in [Procs -> [cmd: {"none", "create", "retry"}, plan: Plans \cup {None},
                          rec: Drafts \cup {None},
                          pc: Holding \cup Ended \cup {"idle", "lock"}]]
    /\ ran \subseteq 1..Hooks /\ since \subseteq 1..Hooks /\ orphans \subseteq 1..Hooks
    /\ commands \in 0..MaxCommands /\ failures \in 0..MaxFailures
    /\ crashes \in 0..MaxCrashes /\ changes \in 0..MaxChanges

HooksInit ==
    /\ portable \in BOOLEAN
    /\ config = FirstSource /\ baseline = FirstCommit
    /\ state = None /\ head = None /\ record = None
    /\ job = [p \in Procs |-> Idle]
    /\ ran = {} /\ since = {} /\ orphans = {}
    /\ commands = 0 /\ failures = 0 /\ crashes = 0 /\ changes = 0

--------------------------------------------------------------------------------
(* What the actions are made of.                                           *)

At(p, pc) == job[p].pc = pc
Set(p, pc, rec) == job' = [job EXCEPT ![p].pc = pc, ![p].rec = rec]
Goto(p, pc) == Set(p, pc, job[p].rec)
End(p, how) == Set(p, how, None)
Fault == failures < MaxFailures /\ failures' = failures + 1 /\ UNCHANGED <<commands, crashes, changes>>
Same == UNCHANGED counters

\* WriteHookRunRecord: the file is replaced, or the write fails, before the
\* replacement or after it (ErrHookRunDurabilityUnconfirmed).  The encoder
\* refuses an invalid record; HooksTypeOK, which has record \in Records, says that it is
\* never given one.
Write(p, rec, pc) ==
    \/ record' = rec /\ Set(p, pc, rec) /\ Same
    \/ Fault /\ record' \in {record, rec} /\ End(p, "incomplete")

\* RemoveHookRunRecord, with the same two ways to fail.
Unlink(p) ==
    \/ record' = None /\ End(p, "completed") /\ Same
    \/ Fault /\ record' \in {record, None} /\ Goto(p, "restore")

\* newHookPlan, with the canonical digest of its two sources.
PlanOf(source, commit) == [source |-> source, commit |-> commit]

Fresh(plan) == [plan |-> plan, next |-> 0, state |-> "running"]

\* matchesHookRunRecord: the three digests and the ordered ids.
Matches(rec, plan) == rec.plan = plan

\* The digests of the source and of the state file, which every run compares.
DigestsHold(plan) == config = plan.source /\ state = plan.commit

\* validatePublishedPortableExecutables: the checkout is still at its commit.
PortableFactsHold(plan) == head = plan.commit

\* validateHookRetryWorkspaceFacts: path, repository, branch and HEAD of every
\* checkout.
WorkspaceFactsHold(plan) == head = plan.commit

\* The verifier of the command: a local initial run looks only at the digests.
AuthorityHolds(p) ==
    /\ DigestsHold(job[p].plan)
    /\ portable => PortableFactsHold(job[p].plan)
    /\ job[p].cmd = "retry" => WorkspaceFactsHold(job[p].plan)

\* Mutant: a changed authority is waited for.
NotVerifiedOnlyOnError(p) == AuthorityHolds(p) /\ Fault

\* generationFailure: the authority changed, or could not be read.
Verified(p) == AuthorityHolds(p) /\ Same
NotVerified(p) == \/ ~AuthorityHolds(p) /\ Same
                  \/ AuthorityHolds(p) /\ Fault

--------------------------------------------------------------------------------
(* The commands.                                                           *)

CanStart(p) == job[p].pc \in Ended \cup {"idle"} /\ commands < MaxCommands
Start(p, cmd, plan, pc) ==
    /\ commands' = commands + 1 /\ UNCHANGED <<failures, crashes, changes>>
    /\ job' = [job EXCEPT ![p] = [cmd |-> cmd, plan |-> plan, rec |-> None, pc |-> pc]]

\* preflight, and publishedPlan of a clone: requireLockedPreflight has compared
\* the configuration again under the project lock.
Preflight == PlanOf(config, baseline)

\* Create and Clone: the core command has published the workspace, and the plan
\* of the hooks binds the configuration seen under the project lock and the
\* state just written.
Create(p) ==
    /\ CanStart(p) /\ state = None
    /\ Start(p, "create", Preflight, "lock")
    /\ state' = baseline /\ head' = baseline /\ ran' = {}
    /\ UNCHANGED <<portable, config, baseline, record, since, orphans>>

\* --no-hooks, or a clone without --run-hooks: a workspace and no record.
CreateWithoutHooks(p) ==
    /\ CanStart(p) /\ state = None
    /\ Start(p, "create", None, "completed")
    /\ state' = baseline /\ head' = baseline /\ ran' = {}
    /\ UNCHANGED <<portable, config, baseline, record, since, orphans>>

\* Inspect rebuilds the plan without a lock, and Retry resolves the workspace
\* as its state file has it.
Inventory(plan) ==
    IF record = None THEN "absent"
    ELSE IF Matches(record, plan) /\ WorkspaceFactsHold(plan) THEN "resumable" ELSE "stale"

\* Retry.  Only a resumable record is taken further.
Retry(p) ==
    /\ CanStart(p) /\ state # None
    /\ LET plan == PlanOf(config, state) IN
       Start(p, "retry", plan, IF Inventory(plan) = "resumable" THEN "lock" ELSE "refused")
    /\ UNCHANGED <<world, record, ghosts>>

TakeLock(p) ==
    /\ At(p, "lock") /\ LockIsFree
    /\ Goto(p, "look")
    /\ UNCHANGED <<world, record, ghosts, counters>>

\* HookRunLock gives up after a second, or the lock cannot be had at all.
LockFails(p) ==
    /\ At(p, "lock")
    /\ \/ ~LockIsFree /\ Same
       \/ LockIsFree /\ Fault
    /\ End(p, "incomplete")
    /\ UNCHANGED <<world, record, ghosts>>

--------------------------------------------------------------------------------
(* Run, up to the first hook.                                              *)

\* No record: only an initial run may create one, and a local one only while
\* its authority holds.  A clone records first and verifies afterwards.
LookAbsent(p) ==
    /\ At(p, "look") /\ record = None
    /\ \/ job[p].cmd = "retry" /\ End(p, "incomplete") /\ Same
       \/ job[p].cmd = "create" /\ portable /\ Goto(p, "begin") /\ Same
       \/ job[p].cmd = "create" /\ ~portable /\ Verified(p) /\ Goto(p, "begin")
       \/ job[p].cmd = "create" /\ ~portable /\ NotVerified(p) /\ End(p, "incomplete")
    /\ UNCHANGED <<world, record, ghosts>>

\* Resume rebuilds its plan under the lock (hookRetryDefaultBuilder.Rebuild);
\* an initial run has the one it was made with.
PlanUnderLock(p) ==
    IF job[p].cmd = "retry" THEN PlanOf(config, job[p].plan.commit) ELSE job[p].plan
Rebuilt(p) == job[p].cmd = "retry" => WorkspaceFactsHold(job[p].plan)

\* Mutant: a failed run is started from the beginning.
AfterFresh(p) ==
    IF record.state = "finalizing" THEN "verifyFinal"
    ELSE IF job[p].cmd = "retry" THEN "recheck"
    ELSE IF record.state = "failed" THEN "begin" ELSE "loop"

After(p) ==
    IF record.state = "finalizing" THEN "verifyFinal"
    ELSE IF job[p].cmd = "retry" THEN "recheck"
    ELSE IF record.state = "failed" THEN "restart" ELSE "loop"

\* A record: it is taken up where it stands when it is of this plan.
LookFound(p) ==
    /\ At(p, "look") /\ record # None
    /\ \/ /\ Rebuilt(p) /\ Matches(record, PlanUnderLock(p)) /\ Same
          /\ job' = [job EXCEPT ![p].plan = PlanUnderLock(p), ![p].rec = record, ![p].pc = After(p)]
       \/ /\ ~(Rebuilt(p) /\ Matches(record, PlanUnderLock(p))) /\ Same
          /\ End(p, "incomplete")
    /\ UNCHANGED <<world, record, ghosts>>

\* The record cannot be read, or no longer decodes.
LookFails(p) ==
    /\ At(p, "look") /\ Fault
    /\ End(p, "incomplete")
    /\ UNCHANGED <<world, record, ghosts>>

Begin(p) ==
    /\ At(p, "begin")
    /\ Write(p, Fresh(job[p].plan), "loop")
    /\ since' = IF record' = record THEN since ELSE {}
    /\ UNCHANGED <<world, ran, orphans>>

\* NoMutationOnGenerationFailure: a retry verifies before it writes anything.
Recheck(p) ==
    /\ At(p, "recheck")
    /\ \/ Verified(p) /\ Goto(p, IF job[p].rec.state = "failed" THEN "restart" ELSE "loop")
       \/ NotVerified(p) /\ End(p, "incomplete")
    /\ UNCHANGED <<world, record, ghosts>>

Restart(p) ==
    /\ At(p, "restart")
    /\ Write(p, [job[p].rec EXCEPT !.state = "running"], "loop")
    /\ UNCHANGED <<world, ghosts>>

--------------------------------------------------------------------------------
(* Run, the loop.                                                          *)

Current(p) == job[p].rec.next + 1

\* hookResolveExecutable finds nothing it can run.
ExecutableMissing == Fault

\* Before each hook the generations are compared again and the executable is
\* resolved.  A retry leaves the record alone when the generation changed.
Verify(p) ==
    /\ At(p, "loop")
    /\ \/ Verified(p) /\ Goto(p, "launch")
       \/ NotVerified(p) /\ (IF job[p].cmd = "retry" THEN End(p, "incomplete") ELSE Goto(p, "failing"))
       \/ AuthorityHolds(p) /\ ExecutableMissing /\ Goto(p, "failing")
    /\ UNCHANGED <<world, record, ghosts>>

\* hookProcessAdapter.Run.
Launch(p) ==
    /\ At(p, "launch")
    /\ Goto(p, "hook")
    /\ UNCHANGED <<world, record, ghosts, counters>>

\* Mutant: success is recorded for the hook that has not run yet.
AdvanceTwice(rec) == [rec EXCEPT !.next = IF @ + 2 > Hooks THEN Hooks ELSE @ + 2]

\* The in-memory record after a success.
Advance(rec) == [rec EXCEPT !.next = @ + 1]

\* The process exited with zero.  The last success is published only by the
\* finalizing record.
HookSucceeds(p) ==
    /\ At(p, "hook")
    /\ LET rec == Advance(job[p].rec) IN Set(p, IF rec.next < Hooks THEN "progress" ELSE "finish", rec)
    /\ ran' = ran \cup {Current(p)} /\ since' = since \cup {Current(p)}
    /\ UNCHANGED <<world, record, orphans, counters>>

\* Mutant: a hook that timed out counts as done.
HookFailsSilently(p) ==
    /\ At(p, "hook") /\ Fault
    /\ LET rec == Advance(job[p].rec) IN Set(p, IF rec.next < Hooks THEN "progress" ELSE "finish", rec)
    /\ UNCHANGED <<world, record, ghosts>>

\* A non-zero exit, a failed launch, the timeout, a cancellation or a broken
\* output: the process tree is terminated before Run returns.
HookFails(p) ==
    /\ At(p, "hook") /\ Fault
    /\ Goto(p, "failing")
    /\ UNCHANGED <<world, record, ghosts>>

Progress(p) ==
    /\ At(p, "progress")
    /\ Write(p, job[p].rec, "loop")
    /\ UNCHANGED <<world, ghosts>>

\* failRecord.  Whether or not the write succeeds, the run is over.
FailRecord(p) ==
    /\ At(p, "failing")
    /\ Write(p, [job[p].rec EXCEPT !.state = "failed"], "incomplete")
    /\ UNCHANGED <<world, ghosts>>

--------------------------------------------------------------------------------
(* Run, the end.                                                           *)

Finish(p) ==
    /\ At(p, "finish")
    /\ Write(p, [job[p].rec EXCEPT !.state = "finalizing"], "remove")
    /\ UNCHANGED <<world, ghosts>>

\* A finalizing record found: validation and cleanup only.
VerifyFinal(p) ==
    /\ At(p, "verifyFinal")
    /\ \/ Verified(p) /\ Goto(p, "remove")
       \/ NotVerified(p) /\ End(p, "incomplete")
    /\ UNCHANGED <<world, record, ghosts>>

Remove(p) ==
    /\ At(p, "remove")
    /\ Unlink(p)
    /\ UNCHANGED <<world, ghosts>>

\* A removal that failed may have happened: the finalizing record is written
\* again, so that a later run can only clean up.
RestoreRecord(p) ==
    /\ At(p, "restore")
    /\ Write(p, job[p].rec, "incomplete")
    /\ UNCHANGED <<world, ghosts>>

Step(p) ==
    \/ TakeLock(p) \/ LockFails(p)
    \/ LookAbsent(p) \/ LookFound(p) \/ LookFails(p)
    \/ Begin(p) \/ Recheck(p) \/ Restart(p)
    \/ Verify(p) \/ Launch(p) \/ HookSucceeds(p) \/ HookFails(p) \/ Progress(p) \/ FailRecord(p)
    \/ Finish(p) \/ VerifyFinal(p) \/ Remove(p) \/ RestoreRecord(p)

--------------------------------------------------------------------------------
(* The environment.                                                        *)

\* A killed wtree loses its lock; the hook it started goes on.
Crash(p) ==
    /\ job[p].pc \in Holding \cup {"lock"} /\ crashes < MaxCrashes
    /\ crashes' = crashes + 1 /\ UNCHANGED <<commands, failures, changes>>
    /\ orphans' = IF At(p, "hook") THEN orphans \cup {Current(p)} ELSE orphans
    /\ End(p, "dead")
    /\ UNCHANGED <<world, record, ran, since>>

OrphanEnds ==
    /\ orphans # {}
    /\ \E i \in orphans : orphans' = orphans \ {i}
    /\ UNCHANGED <<world, record, job, ran, since, counters>>

Change == changes < MaxChanges /\ changes' = changes + 1
          /\ UNCHANGED <<commands, failures, crashes, record, job, since, orphans>>

\* The source of a clone is tracked: it changes only with its commit.
EditConfig ==
    /\ Change /\ ~portable
    /\ config' \in Sources \ {config}
    /\ UNCHANGED <<portable, baseline, state, head, ran>>

\* A commit on the branch new workspaces start from.
CommitBaseline ==
    /\ Change
    /\ baseline' \in Commits \ {baseline}
    /\ UNCHANGED <<portable, config, state, head, ran>>

\* A commit, or a checkout, in the workspace: by the user or by a hook.
CommitWorkspace ==
    /\ Change /\ state # None
    /\ head' \in Commits \ {head}
    /\ UNCHANGED <<portable, config, baseline, state, ran>>

\* update of the default workspace, which is the one of a clone, or the update of
\* a companion in any workspace: they take the project lock, not this one, and
\* write the new commit to the state file.  The tracked manifest moves along.
UpdateWorkspace ==
    /\ Change /\ state # None
    /\ state' \in Commits \ {state} /\ head' = state'
    /\ config' \in IF portable THEN Sources ELSE {config}
    /\ UNCHANGED <<portable, baseline, ran>>

\* workspace delete or remove.  It takes the project lock, not this one, and
\* leaves the record where it is.  The workspace of a clone holds the main
\* checkouts, which are no linked worktrees and are not removed this way.
DeleteWorkspace ==
    /\ Change /\ ~portable /\ state # None
    /\ state' = None /\ head' = None /\ ran' = {}
    /\ UNCHANGED <<portable, config, baseline>>

Command(p) == Create(p) \/ CreateWithoutHooks(p) \/ Retry(p)

HooksNext ==
    \/ \E p \in Procs : Command(p) \/ Step(p) \/ Crash(p)
    \/ OrphanEnds \/ EditConfig \/ CommitBaseline
    \/ CommitWorkspace \/ UpdateWorkspace \/ DeleteWorkspace

\* Every step of a run returns: file operations end, a hook has a timeout after
\* which its tree is terminated, and a wait for the lock ends after a second.
HooksSpec == HooksInit /\ [][HooksNext]_hookVars /\ \A p \in Procs : WF_hookVars(Step(p))

--------------------------------------------------------------------------------
(* Properties.                                                             *)

\* The record claims no hook that did not succeed since it was created, so a
\* retry, which starts at its next index, skips only what was done (record
\* contract, spec 9.1).
RecordIsTrue == record # None => \A i \in 1..record.next : i \in since

\* While a hook runs, the record on disk is the one its runner took or wrote:
\* running, with this hook next.  No other command wrote it, and a process
\* killed now leaves exactly the evidence retry needs (Run, spec 9.1).
RunningIsRecorded ==
    \A p \in Procs : At(p, "hook") => record # None /\ record = job[p].rec /\ record.state = "running"

\* A record is only ever moved forward: no command, failing, killed or racing
\* with another, lowers its next index or binds it to another plan, and it goes
\* only when every hook succeeded (Run, Resume, spec 9.2).
ProgressIsKept ==
    [][record # None =>
         \/ record' # None /\ record'.plan = record.plan /\ record'.next >= record.next
         \/ record' = None /\ since = 1..Hooks]_hookVars

\* A run that says completed had every hook succeed since the record it removed
\* was created, by whatever commands (Run, validHookRetrySuccess).
CompletedRanAll ==
    [][\A p \in Procs : job[p].pc # "completed" /\ job'[p].pc = "completed" /\ job'[p].plan # None
         => since' = 1..Hooks]_hookVars

\* Every command returns, whoever holds the lock and however a hook ends.
HooksReturn == \A p \in Procs : At(p, "lock") ~> (job[p].pc \in Ended)

\* What the specification of the hooks says of a create: it creates a record
\* and executes the hooks, so a completed create had all of them succeed in the
\* checkout it made, while that is there.  The code does not keep it: deleting a workspace leaves its
\* record, and creating it again at the same commits takes that record up.
HooksBelongToCheckout ==
    [][\A p \in Procs : job[p].pc # "completed" /\ job'[p].pc = "completed" /\ job'[p].cmd = "create"
                             /\ job'[p].plan # None /\ state' # None
         => ran' = 1..Hooks]_hookVars
================================================================================
