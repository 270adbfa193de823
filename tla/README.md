# A TLA+ verification of wtree

wtree manages *workspaces*: one Git branch name checked out as a worktree in
every repository of a project, the repositories mounted inside each other. Its
hard promise is the one of `docs/spec/wtree.spec.md` sections 21, 30 and 83: an
operation over several repositories is done completely, or is undone, or says
what it could not undo. This directory models the code that keeps the promise,
checks the models with TLC on small instances, and proves the most important
facts with TLAPS for every instance.

Contents: 1 inventory, 2 modules, 3 runs, 4 what the models abstract, 5 proofs,
6 where the code and its documents differ, 7 what is not modelled, 8 what is left.

## 1. Inventory

State, operations, and what makes each part correct. Paths are below
`src/internal/` unless they say otherwise. The last column names the module.

| Component | State | Operations | Hard behaviour | Correct when | Module |
|---|---|---|---|---|---|
| transaction runner (`transaction/`) | `Result` of a run | Run, Rollback | failure in any step, in the cleanup of a failed step, in any undo; cancellation between steps | everything is done, or undone in reverse, or named | `TransactionRunner` |
| workspace transaction (`service/transaction.go`) | state file, recovery record, project lock | Execute | stale plan, existing recovery record, state write that fails after replacing the file, record write that fails | the state file commits last; failure restores it; an incomplete rollback blocks later mutations | `WorkspaceLifecycle` |
| create, checkout (`service/create.go`, `plan.go`, `workspace_grouping.go`) | branches, worktrees, grouping directories, ignore files, ownership receipts | create and checkout | somebody works in a checkout that is being rolled back; Git fails after its effect | nothing of the user's is lost, nothing of wtree's own stays unnamed | `WorkspaceLifecycle`, `GitWorkspace` |
| quarantine removal (`service/create.go`) | the checkout, two private names, Git's registration | removeOwnedCreatedWorktree | the directory is replaced, moved, edited, or its path taken at any point | only the transaction's own checkout is deleted | `OwnedWorktreeRemoval` |
| remove, delete (`service/remove.go`, `remove_grouping.go`, `delete.go`) | the same, in reverse | remove, delete | forced removals that cannot be restored; a branch recreated before it is restored | as above; baselines and unmerged work survive | `WorkspaceLifecycle` |
| locks (`lock/`) | flock files | project, registry, hook run lock | timeout, death of the holder | exclusion; a dead holder blocks nobody | in the modules that take them |
| Git adapter (`git/`) | none (Git's own) | branch, worktree, status, refs, fast-forward | killed commands | refuses what Git refuses; a movement is noticed | `GitWorkspace`, `CompanionUpdate` |
| atomic files (`fsutil/`), store (`store/`) | files | write, compare-and-swap, rename without replacing | failure after the replacement | a reader sees the old file or the new one | in the modules that write them |
| update planning (`service/update_collect.go`, `update_plan.go`, `drift_snapshot.go`) | a snapshot read piece by piece | plan, collect, classify | anything changes between two reads or before the lock | accepted exactly when safe; applied as planned | `DriftSnapshot`, `UpdatePlanning` |
| update execution, publication (`service/update_execute.go`, `update_journal.go`, `update_publication.go`) | a journal, heads, manifest, registry | execute, publish, roll back, recover | crash between an effect and its journal entry; lock released between execution and publication | done, undone, or retained with evidence; success is final | `UpdateJournal`, `UpdateTransaction` |
| companion update (`service/companion_update.go`, `git/aggregate.go`) | refs, checkouts, state files, records | fast-forward the baseline and every workspace | partial failure, a user in the checkouts, cancellation | branch, files and state agree, or are restored, or are recorded | `CompanionUpdate` |
| project registry, init, clone, materialize, prune, unregister, relocation (`service/init.go`, `clone_*.go`, `release_materialize.go`, `resolve.go`, `project_*.go`) | registry, configuration, default state, tree | publish a project, remove it, reconcile it | two processes, partial publication, others' edits during rollback | one project per place; entries and foreign files kept; clean means clean | `ProjectRegistry` |
| hook runs (`service/hook_*.go`, `create_hooks.go`, `clone_hooks.go`) | run record, child processes | run, retry | crash before the record is written, two runners, changed plan | what is recorded was run; progress is never lost; completed means all | `HookRuns` |
| repository branch, hooks share/install, config (`service/repository_branch.go`, `hooks_management.go`, `config.go`) | manifest and local configuration | edit both, or copy between them | two editors, one file written and not the other | no silent disagreement, nobody's bytes lost | `ConfigurationEdits` |
| doctor, import (`service/doctor.go`, `publication_recovery.go`, `import.go`, `domain/`) | workspace state, Git registrations | report, `--fix`, import | checkouts moved during the walk, the state file edited | a repair needs no second one, an imported workspace none | `DoctorRepair`, `UpdatePlanning` |
| exec, fetch, push (`service/exec.go`, `fetch.go`, `push.go`, `aggregate.go`, `cli/`) | rows of a result, child processes | run over repositories | interrupts, broken output, programs that keep pipes | the output is the result and the result is true | `WorkspaceCommands`, `DirectProcess` |
| resolution, selection, paths (`service/resolve.go`, `domain/`) | none | pure algorithms | nesting and order | equal to their definition | partly, see 7 |
| status, release lock | none of their own | read, or write one file | reads race edits | | section 7 |
| `tools/test-runner` | worker slots | schedule test packages | cancellation, timeouts | | section 7 |

They interact through calls within one process, and between processes through
the file system and Git only: the project lock is what orders mutating commands,
the registry lock what orders changes of the registry, and the recovery record
is what one command tells the next. Reading commands, users, editors and other
tools take no lock.

## 2. Modules

| Module | Models |
|---|---|
| `TransactionOutcome` | the abstract promise: all effects, none, or a report that covers the rest |
| `TransactionRunner` | `transaction.Runner`: the loop, the cleanup of the failed step, the reverse loop, the caller's boundary; implements `TransactionOutcome` |
| `GitWorkspace` | the world of the lifecycle: branches, worktrees, what Git accepts, what a user does |
| `WorkspaceLifecycle` | create, checkout, remove and delete by several processes (extends `GitWorkspace`) |
| `OwnedWorktreeRemoval` | `removeOwnedCreatedWorktree`, call by call |
| `UpdateJournal` | the private journal of an update: what is valid, and each rewriting of it |
| `UpdateTransaction` | one update: execution, publication, rollback, recovery, cleanup (extends `UpdateJournal`) |
| `DriftSnapshot` | the classification of what a collection captured, a pure function |
| `UpdatePlanning` | how update and doctor collect it, plan, and plan again under the lock (extends `DriftSnapshot`) |
| `CompanionUpdate` | `wtree companion update` and the fast-forward in its Git steps |
| `ProjectRegistry` | init, clone, materialize, relocation, prune and unregister by several processes |
| `HookRuns` | the hook run record, the first run and retry |
| `ConfigurationEdits` | repo branch, hooks share, install and list, config set and unset on the same two files |
| `DoctorRepair` | `doctor --fix` and `import` on one workspace: what is found below a directory, and the state file |
| `DirectProcess` | one program run by exec: its process group, its pipes, cancellation; the output of a Git call over the network |
| `WorkspaceCommands` | exec, fetch and push over a workspace (extends `DirectProcess`) |
| `...Proofs` (eight) | TLAPS proofs about the module they extend, section 5 |
| `MC...` (ten) | constants and symmetry of the instances |

`WorkspaceLifecycle` has the runner's loop in its own program counter, and takes
the whole of `OwnedWorktreeRemoval` as its one step `UndoAdd`, whose outcomes are
those that module shows: gone, gone while somebody made the mount again, refused
with the checkout at its mount, or given up with the checkout, or what could not be
deleted of it, in the quarantine (`held`), where it keeps the directory around it
from being removed. `UpdatePlanning` takes an
update that may run as one step `Apply`; `UpdateTransaction` has its steps.

### How state and actions correspond to the code

*TransactionRunner.* `completed`, `failedStep`, `failedExecuteRolledBack`,
`rollbackFailure` and `unrevertedSteps` are the fields of `Result`; `next` and
`cursor` the indices of the two loops. `effect` is a ghost: the steps whose
effect is in place, which `Result` cannot see. `PartialExecute` are steps whose
failing `Execute` may leave its effect, `Overlooks` those whose cleanup then may not
see it. `MayEscape` are the steps of which such an effect can stay without a word:
create_branch, which has no `RollbackFailedExecute`, and add_worktree, whose cleanup
trusts a flag set after Git succeeded (`service/create.go:313`, `:341`). The properties except
exactly that effect, of exactly the step that failed (`Escaped`). An invalid step (`validateStep`) ends the loop like
`StopInjected`.

*GitWorkspace.* Per repository, `branch` is the branch of the workspace's name
(absent, at the commit the workspace was planned from, or with commits of the
user), `tree` the mount: directory, registration, identity of the directory
(`os.SameFile`), whether the branch is its HEAD, and what `git status` shows.
`grouping` is the directory that holds the workspace. A *receipt*
(`createdWorktreeReceipt`) is the identity in `tree[r].id` plus registration,
branch and head. `touched` and the snapshot `found` in `WorkspaceLifecycle`
are ghosts for the properties.

*WorkspaceLifecycle.* A process is one command and goes through `planned`
(nothing held), `locked`, `running` (one action per runner step: `ExecBranch`,
`ExecGroup`, `ExecAdd`, `ExecInspect`, `ExecIgnore`, `ExecRemove`, `ExecDrop`,
`ExecUnstate`), `cleanup` and `rollback` (one action per kind of undo),
`validate`, `commit` and `reported`. Each `Exec` action has the disjuncts the code
has: nothing happened and an error, effect and success, effect and error. A step
is a Git command with the checks made right before it, so the check and the
command are atomic in the model. `FailUntouched` and `UndoFails` need no fault
when the step's own check refuses, and one fault otherwise.

*OwnedWorktreeRemoval.* (Its `Init`, `Next` and `Spec` are named `Removal...`, so that one module
can hold the proofs about it and the runner.) One action per system call or Git command: `Inspect`,
`Detach` (rename into quarantine), `Identify`, `Repair`, `Revalidate`, `Isolate`
(second rename), `Look`, `Unregister`, `LookAgain`, `Destroy`, `Return` and the
ways back (`PutBack`, `Restore`, `RepairRestored`). `at` says what is at the
public path, at the two private names, and aside. Between any two of them others
edit, commit, move the checkout away or put something at its path.

*UpdateJournal, UpdateTransaction.* A journal is its state, its terminal outcome and
its entries; `Valid` is `UpdateJournal.Validate`, and nothing invalid is written. Every
checkout, tracking ref, staging directory and file is at one of three
generations: `before` (what the plan was made from), `after` (what the update makes
of it) or `theirs`. `head[r]` is the checkout, `side[r]` the tracking ref of a
fast-forward or the staging directory of an addition. `disk` is the journal file,
`proc.journal` the copy in memory, which rollback rewrites before it is stored.
`proc.pc` follows the code: `Start` (lock, recapture, backups), `Create`, then per
repository `StartEffect`, `Prepare`, `Prepared`, `Execute`, `Completed`; `HandOff`; the
failure path `FailStart`, `CleanUpFailed`, `RollbackEffect`, `RollbackEnds`;
`OpenPublication`, `BuildTargets`, `Publish` and `Record` per file, `Verify`, `Unpublish`;
`OpenJournal` and its successors for `Recover`; `TerminalStart` to `RemoveSummary` for
the cleanup both end in, with `Retain` for a cleanup that fails. A journal write has
the outcomes the code tells apart (`WriteAt`): written, written but cancelled
after, not written, invalid. `CallRecover` is whoever has the plan: `Recover` takes it as
an argument. `committed` is a ghost.

*DriftSnapshot, UpdatePlanning.* A snapshot `s` is a record of what was captured;
`Row(s, r)` is the class and the checks of a repository (`ClassifyExisting`, `ClassifyRemoved`,
`AddedChecks`: the order of the refusals in the code is the order of a list),
`Failures(s)` what blocks an update, `DriftFindings(s)` what doctor lists. `job.pc` names
the next read: configuration, candidate, publication facts, base, registry, default
state, one repository at a time, other workspaces listed twice, reconciliation,
recovery records and journals listed twice. `Change` lets the user, the remote, the
manifest source or another command act between any two reads. `Plan`, `Lock`, the
second collection and `Agrees` are those of the command; `Apply` is what a
successful `UpdateTransaction` leaves. `NoManifest` stands for a base that tracks none.

*CompanionUpdate.* `ref`, `tree`, `state` and `record` are the branches, checkouts, state
files and recovery records. `job.pc` follows `Revalidate`, `Fetch`, then for the baseline
and every workspace `Check`, `Forward` (the branch by compare-and-swap), `Files`, `Look`,
`Publish` and `Readback` of the state file, and on the way back `RestoreState`, `Back`
(the same three Git steps in the other direction) and `Record`. `held` says that the
baseline is checked out and settled together with its owner. `touched` and `lost` are
ghosts.

*ProjectRegistry.* A job goes through `planned`, `staged` (clone and materialize),
`locked`, `publishing` and `undoing`, with `owned` the targets it has published, in the order
of `Order`. `Recheck` is what is looked at again under the locks; `PublishNext` writes one
target or fails; a file is then `written`, and owned when `ReadBack` finds it as it was
written. What gives no receipt, and what `KeepTarget` leaves, is `failed` (the error will
say so) or in `left` (it will not); `LastCheckFails` is a clone's last look at its tree.
`UndoTarget` captures, compares and removes as one; a clone removes its tree and its
state file by path, a step (`RemoveByPath`) after the comparison (`CheckByPath`, `checked`).
`Reconcile` is `ResolveForMutation`. `foreign` is a ghost of what the user did.

*HookRuns.* A record is plan, next index and state (`HookRunRecord`). `job[p].pc` goes
through the lock, `look`, `begin`, then per hook `loop` (verification), `launch`, `hook`,
`progress`, then `finish`, `verifyFinal`, `remove` or `restore`. `Write` and `Unlink` may fail
before or after the file was replaced. `ran` and `since` are ghosts; `orphans` are
hooks whose wtree was killed.

*ConfigurationEdits.* `file[f]` is a generation of the portable manifest or the local
configuration: identity, writer, data. repo branch goes through `captureLocal`,
`capturePortable`, `lock`, `authorize`, `compare`, `exchange`, `observe`, `verify`, `rollback` and
`record`; the hooks commands and config use `recheck`, `rename` and `readback`.
`aside` are the generations an exchange kept beside the file, `looked` (a ghost) the bytes a
command last saw of each file before it renames over it.

*DoctorRepair.* A path is a sequence of numbers; `at` is where a checkout's directory
is, `reg` the path Git has registered for it. `Walk`, `Compare` and `Collect` make the
report; `TakeLock`, `Capture`, `ReadState`, `Walk` again, `Prune` per repository, `Rewalk`,
`Publish`, `Restore` and `Record` are the repair. An import plans three times: `Preview` of
the command line, `PlanImport`, and `Replan` under the lock; then `CheckUnpublished`,
`WriteImport`, `VerifyImport`, and `Withdraw` with `RemoveByPath`, or `Record`,
when that fails. `Effective`, `Valid`, `Discovered` and `RepairsFor` are the path rules and the walk.

*DirectProcess, WorkspaceCommands.* `child`, `pipes` and `holder` are the program, the write
ends of its output and a descendant that inherited them; `waiter` is what
`RunDirectProcess` waits for. `held` says that a transport helper of Git holds the output of
the call over the network that is running. A command goes through its preflight, its rows in order
(`pos`) and its end; `rows` is the result, `shown` what reached the output,
`begun`, `moved`, `unread`, `abandoned`, `been` and `advertised` are ghosts.

## 3. Runs

| Run | Instance | Distinct states | Question |
|---|---|---|---|
| `runner` | 5 steps: irreversible ones, and partly failing ones with a cleanup, without one, and with one that may not see the effect | 456 | does a failed run leave what it does not name; is the undo in reverse; does it implement the promise |
| `lifecycle` | root and companion child, whose baseline has the workspace's name; 2 processes, 2 commands of 4 kinds, 1 fault, 1 crash, 2 user actions, partial Git failures | 1,095,290 | is every leftover reported; does one command leave the next half a workspace; does a recovery record block; is work kept |
| `owned_removal` | 2 failing calls, 4 actions of others | 1,629 | is only the own checkout deleted, with nothing unseen in it |
| `update` | a fast-forward of the base, an addition, 2 files; 2 faults, 1 crash, 1 move of others, any number of recoveries | 42,407 | is the result true; is every change covered by the journal; is success final; is what others wrote kept |
| `registry` | 2 projects, 3 places, 2 processes, 3 commands of 5 kinds; 1 fault, 1 user move, 1 crash | 2,848,429 | is a place registered once; are others' entries and files kept; is a clean end clean |
| `hooks` | 2 hooks, 2 generations of configuration, 2 commits, 2 processes, 3 commands; 2 faults, 1 crash, 2 changes | 662,873 | does the record tell the truth; is progress kept; did a completed run run all; do commands return |
| `companion` | baseline and 2 workspaces, 4 commits, 2 commands; 2 faults, 1 crash, 1 user action | 576,341 | did a clean failure undo; is residue recorded; is the user's work kept |
| `planning` | base, companion, one owned and one addable repository; 4 commits, 2 manifests; 2 commands, 2 changes | 2,769,156 | is what is safe accepted; is what is applied safe; is an update followed by quiet; is a silent report true |
| `doctor` | 2 repositories, a child, another workspace's worktree; with and without a state file; paths of depth 2 over 3 names; 2 moves of others, 2 faults | 424,913 | does a repair need no second one, and an import none; is a failure's report true; are edits kept |
| `commands` | base and companion; complete, partial and detached workspace; 7 invocations; 1 edit, 1 fault, an interrupt | 656,844 | is the output the result; is the result true; was what is called ready publishable; does an interrupt end it |
| `configuration` | 2 processes, 2 branches, 2 hook definitions; 2 events among an edit, a fault and a crash | 2,262,593 | is a split reported; is a clean rollback clean; is no edit lost |
| `doctor_prune` | as `doctor`, without faults | | violation, section 6 |

Each property below has a mutated definition of the code that TLC shows to break
it.

- `runner`: `LeftoversAreNamed`: what a failed run leaves is named, of completed steps
  always, of the failed one unless its caller has no way to clean it (`Escaped`).
  `UndoneInReverse`. `ImplementsPromise` (every run is a run of
  `TransactionOutcome`, which allows that one effect and no second one).
- `lifecycle`: `LeftoversAreReported` and `NoPartialWorkspace`: after a failure every
  repository, the state file and the grouping directory are as found, or a step that
  touched them is named, and the next command finds no half workspace. Both leave out
  what a Git command that fails after its effect leaves (section 6). `RecoveryBlocks`: after
  a recovery record no command changes anything. `UncommittedWorkSurvives`: only a plan
  made under the lock with `--force` discards the user's uncommitted work.
  `RemovalKeepsCommits`: remove and delete drop no unmerged commit without `--force`.
- `owned_removal`: `WorkSurvives`, `TheirsSurvives`, `SuccessIsComplete`.
- `update`: `OutcomeIsTrue`: what an update or a recovery reports holds of repositories
  and files. `RepositoryEvidence`: no uncommitted change to a repository without an entry
  for it on disk. `SuccessIsNeverUndone`: across crashes, cancelled cleanups and
  recoveries. `TheirsKept`: no step replaces what others wrote (but see section 6).
- `registry`: `OnePlaceOneProject`, `EntriesKept` (no command changes the entry of another
  project, neither by a stale copy nor by restoring one). `ForeignSurvives`: no step replaces or
  removes what the user changed, but for a clone's tree or state file changed between the
  comparison of its rollback and the removal by path. `CleanLeavesNothing`: after a clean
  end entry and default state of the project are gone, but for a target that the command
  is known to pass over without a word (`Unsaid`, section 6); init has none.
- `hooks`: `RecordIsTrue`: the record claims no hook that did not succeed since the record
  was created. `ProgressIsKept`: a record only moves forward, and goes only when every
  hook succeeded. `CompletedRanAll`. `HooksReturn`.
- `companion`: `CleanFailureUndoes`: an entry that failed and does not say that its
  rollback is incomplete left branch, files and state as planned. `ResidueIsRecorded`: what
  an incomplete rollback leaves is named by a recovery record. `TheirsSurvive`.
- `planning`: `SafeIsAccepted`: a project in order, with a candidate that changes nothing
  wtree refuses to change, is not refused. Excepted are what the code refuses beyond its
  specification: a candidate that gives a kept repository another contract, or adds a repository
  into one it adds too, and a removed repository that is off its baseline or whose remote is gone. `AppliedIsSafe`: what an update changes under the
  lock was safe at every read, and is what was planned. `RepeatIsQuiet`: the plan after an
  applied update finds nothing to do. `SilentReportIsTrue`: doctor says nothing only of a
  project that is in order; only a repository with a parent has to be ignored by it.
- `doctor`: `FixConverges`: after a repair, or an import, that claims success a report lists
  no repair, and the state file is valid (excepted is a prune that takes a checkout the report
  found, section 6). `FailureIsTrue`: what a failure says of the state
  file and the recovery record is so. `EditsAreKept`: no edit of the state file is overwritten
  or removed, except in the two windows of an import that section 6 names.
- `commands`: `OutputIsTheResult`: every row once, in order, with its final status.
  `ReportIsTrue`: a ref that moved has its receipt, a program that ran is a started row,
  one that was left running is reported. `ReadyWasPublished`: of a row called ready, the
  branch was at the head of the row, the checkout on that branch was clean with its upstream,
  and the remote had that head, each at some moment while push ran. `InterruptEnds`:
  an interrupted command ends whatever holds the pipes of its program, unless it waits for
  ever for one that closed its output or for a helper of Git.
- `configuration`: `SplitIsReported`: the two files never name different baselines without
  a trace. `CleanRollbackIsTrue`, `NoLostEdit`.

The modules state more than the runs above check. These hold on the same instances
too, and are checked by adding them to a configuration: `RollbackCompleteMeansUndone`,
`NamedOnce` (proved) and `RunEnds` of the runner; `TypeOK`, `SuccessIsWhole` and
`BaselineSurvives` (proved) and `Terminates` of the lifecycle, in `MCLifecycleFurther.cfg` (one user action instead of
two); `RefusalLosesNothing`, `RegistrationFollows` and `Returns` of the quarantine;
`TypeOK`, `SummaryIsTrue` and `Returns` of the update; `TypeOK` of the registry;
`HooksTypeOK` and `RunningIsRecorded` (proved) of the hooks; `TypeOK`, `CompletedIsWhole`,
`ResultIsComplete`, `RecordBlocks` and `Returns` of the companion update; `AcceptedIsSafe` and
`AppliesThePlan` (proved) of planning; `TypeOK` (proved) and `Returns` of doctor; `NothingStartsLate` of the
commands; `TypeOK`, `CopiesAreCurrent`, `EvidenceBlocks` (proved) and `CompletedIsWhole` of the
configuration.

### Bounds

- *Two nested repositories* have everything that nesting brings: parent before
  child, an ignore rule in the parent, a child deleted with its parent's
  directory, a companion. A third adds no new kind of step.
- *Two processes* are enough for every pair of a planner and a lock holder; the
  theorems of section 5 cover any number.
- *Commands* (`MaxOps`, `MaxCommands`, `MaxJobs`): a second one finds what the first left; the
  registry and the hooks have a third, because a project is removed and published
  again and a workspace deleted and created again. A planning command starts after
  the first only when that was an applied update: otherwise the first may be left out.
- *`MaxFaults`, `MaxCrashes`*: one fault reaches every failure, two the failure of the undo
  of a failure, or of its journal, record or cleanup. A crash may precede or follow
  them. In the lifecycle one fault and `PartialCreates` give every step that fails
  after its effect; the failing undo of a failed step is the run of the runner.
- *Moves of others* (`MaxUserMoves`, `MaxMoves`, `MaxChanges`, `MaxEdits`): one is enough to break a
  comparison; two where something can be changed and changed back, or committed and
  switched away from, or deleted and occupied; four in the quarantine, where the
  checkout can be edited, moved and replaced in one run.
- `update`: an effect of each kind and two files give every order of a completed and
  a failed step. The same properties hold with three faults, two crashes and two moves.
- `registry`: the places are the three starting points of a publication: a base checkout
  with a release lock, checkouts without a project, and nothing.
- `hooks`: two hooks are a first and a last; two generations and two commits are the
  planned one and another.
- `companion`: history is a commit, a descendant that a fetch may bring, and two commits
  a user can make, beside and above it.
- `planning`: the two manifests differ by one repository, so a candidate may add and
  remove; of the four commits one descends from the start with the new manifest, one
  with the old, one not at all.
- `doctor`: depth two and three names hold every relation of two paths: the same,
  below, beside, before and after in the order of the walk.
- `commands`: the invocations are every form that differs in what the code does.

In `registry` and `configuration` the processes are symmetric, in `configuration` the
hook definitions too, and neither states a liveness property.

`CHECK_DEADLOCK` is FALSE in every run: the bounded commands end, and a finished
command stops.

### Fairness

A command is one goroutine that runs until it returns: `WF` of what a started
command does by itself (`Work`, `Call` and `Progress(p)` of the lifecycle, `Running /\ Step` of the update,
`Step(p)` of a hook run, `Step` of the companion update, `Doctor \/ Import`, `CommandStep`), never of
starting a command, cancelling, being killed, or acting as a user. A hook and a
program of exec are not assumed to end: the hook's end is a step of its runner
because `Run` kills it at its time limit. Git ends, at the latest killed with its context, but
not its helpers: `Output` waits for whoever holds the pipe (`git/adapter.go:536`), with no
process group and no `WaitDelay`. `InterruptEnds` therefore says nothing of a command that
waits for such a helper for ever, or for a program that closed its output. A command that waits for a lock ends by its timeout, so no fairness between
processes is needed. `UpdatePlanning`, `ProjectRegistry` and `ConfigurationEdits` are
checked for safety only and state none.

## 4. What the models abstract

- File contents, paths (but in `DoctorRepair`), messages and progress events. Of `git
  status`, nothing, exactly the own `.gitignore` edit, or anything else.
- Commits are elements of a small set with an order; digests are what they digest.
- *Lifecycle*: one workspace of one project; other workspaces touch other branches and
  directories, and the project lock orders them the same way. The forest root is
  mounted at the workspace directory. A check and the Git command after it are one
  step. `git worktree remove` deletes ignored files, hence also what is mounted below. A
  recovery record is removed by no command, as in the code.
- *Update*: a branch transition, the removal of an added tree and the write of a
  file are one step each. Of the four published files, two: they are handled alike.
  Nothing in the command line calls `Recover` for an update whose process died; the
  model has it called by anybody, at any time, because the library offers it.
- *Planning*: one repository is observed in one step. A manifest is a record of what
  the classification compares; the clone URL, the upstream and the initial commits
  are one field.
- *Companion*: a state file is the head it records.
- *Registry*: the checkouts of a project are one tree, there whole, as a base only, or not.
  A comparison and the write or removal right after it are one step, but not where a clone
  removes by path. The registry file is the commands' own: the user does not edit it.
- *Hooks*: one event; a plan is what its digest covers. What a hook does is success or
  failure.
- *Configuration*: of the manifest and the configuration the baseline of one companion,
  one hook event and the worktree root.
- *Doctor and import*: findings without a repair are `DriftSnapshot`'s; a walk is one step;
  a comparison and the write or removal right after it are one step, but not import's
  look for a state file and its write, nor its comparison and its removal. The name of an imported workspace is given.
- *Commands*: commit 1 is the recorded one, 2 descends from it and 0 does not; the two
  pipes of a program are one; bounds and redaction of output are left out. Calls of Git that
  stay on this machine return.

## 5. Proofs

For every value of the constants, checked by TLAPS:

- *Runner* (`TransactionProofs`). The inductive invariant says that
  `completed` is `1..next-1` in order, that effects are among the completed steps
  and the failed one, and that what the cursor has passed is undone, named, or the
  effect of the failed step that its caller cannot clean.
  From it: `TypeOK`, `RollbackCompleteMeansUndone`, `LeftoversAreNamed`, `NamedOnce`,
  `UndoneInReverse`, and, step by step, the refinement of `TransactionOutcome`.
  Any number of steps, any choice of which can be undone, cleaned, fail half way, and be
  overlooked by their cleanup. Assumption: `RunnerAssumption`, which only says that these are sets
  of steps.
- *Quarantine* (`TransactionProofs`). The invariant needs that the own
  directory is only in one place, that control past `Isolate` implies it is at
  the second name, that nothing was done in it that the revalidation did not
  see, and that the registration goes first. From it: `RemovalTypeOK`, `WorkSurvives`,
  `TheirsSurvives`, `SuccessIsComplete`, for any number of faults and moves.
  Assumption: bounds are numbers.
- *Lifecycle* (`WorkspaceLifecycleProofs`). A command is past `AcquireLock` exactly
  when it holds the lock (`LockIsExclusive`), and `RecoveryBlocks`. The lock alone
  does not give the second: the invariant `RecordStops` (no command works while
  there is a record) is inductive because the record is looked at under the
  lock and written by its holder. Any repositories, nesting, processes, commands,
  faults, crashes and user actions. On top of it, `LInv` gives `LeftoversAreReported`,
  `NoPartialWorkspace`, `SuccessIsWhole`, `UncommittedWorkSurvives`, `RemovalKeepsCommits` and
  `BaselineSurvives`. Its heart is `Accounted`: in every repository the user has not touched,
  the branch, the worktree, the grouping directory and the state file are as the command
  found them, or a step that will undo the change is pending, or an unreverted step names it. Beside it go
  what a successful step made (`Forward`), what a finished command did (`Done`), and, while
  nobody else acts and no repair is asked for (`Calm`), that the workspace is whole or gone
  whenever no command is at work, and was when the working command found it. None of
  these is inductive without the others: a rollback restores what it found, which is whole
  only because the command before it left it whole. Which steps are pending is a matter
  of the step lists, so the proof begins with what `FlattenSeq` makes of one
  block per repository, by induction over their number. Assumptions: the ids `Nobody` and `NoParent` are
  not those of a process or a repository, `RepoOrder` lists every repository and a
  parent before its children (`OrderAssumption`, what the topological sort of the manifest
  gives), and commands and baselines are what they say (`CommandAssumption`).
- *Update* (`UpdateTransactionProofs`). For a plan of any length and any
  number of faults, crashes, recoveries and moves of others: `TheirsKept`, because most steps do not touch
  the world (`PrivateKeepsWorld`), of those that do each compares first, and the
  inverses have a lemma of their own; and `RepositoryEvidence`, `OutcomeIsTrue` and
  `SuccessIsNeverUndone` from one inductive invariant. It has three parts: the journal is honest,
  the one on disk and the one the process holds (a repository that is not as
  captured has an entry, an entry that says rolled back belongs to a repository that
  is back); each stage of a call has done what comes before it; and once the journal
  on disk names success the world is as planned or somebody else's, and only the private
  files are still to go. The middle part is what makes the others inductive: an effect may start only
  because the write of its entry came back. Assumption: `PlanAssumption` (a plan names each
  repository and each file once, and no repository is called like a synthetic entry).
- *Planning* (`UpdateTransactionProofs`, after the transaction it leads to).
  `SafeIsAccepted`, `RepeatIsQuiet`, `SilentReportIsTrue`, `AppliedIsSafe`, and of section 3
  `AcceptedIsSafe` and `AppliesThePlan`. The invariant
  `PlanningInv` says, read by read, what a running command has captured: as long as nobody
  changed anything since it began, that is what is there (`ResolvedNow`, `FilesNow`, `SightsNow`,
  `WorkspacesNow`, `RecordsNow`), and an observation that failed had a reason. Under the lock, where the
  other commands are kept out, the inventories stay current even while the user acts. A second part says what an
  applied update leaves (`AfterUpdate`): with this and the first part the next snapshot is
  the one every check of the classification passes. The classification is a list of refusals
  of which the first that applies counts, so each lemma about it (`ExistingAccepted`,
  `RemovedAccepted`, `AddedAccepted`, `ProjectAccepted`) says that a repository is accepted
  exactly when no refusal applies (`FirstNone`). The code does not compare the merge ref of
  a companion that is off its baseline (`drift_snapshot.go:1050`); the invariant needs, and has, that a
  checkout on a baseline branch follows the ref of that name.
  Any repositories, parents, manifests, history, order of observation, commands and changes.
  Assumptions: `DriftAssumption` (the base is one of finitely many repositories, and the marker `None` is
  none of the names used) and `PlanningAssumption` (the order lists every repository, and
  every manifest is one that `PortableManifest.Validate` lets through).
- *Hooks* (`TransactionProofs`, with the transactions they follow). The lock excludes, and the holder's copy of the record is
  the one on disk in every phase that writes it: with that, `RecordIsTrue`,
  `RunningIsRecorded`, `ProgressIsKept` and `CompletedRanAll` follow from one inductive
  invariant. The part that is not obvious is what a failed write leaves: the
  old record or the new one, and in both cases the ghost `since` has every hook the
  record claims. Any number of hooks, processes, commands, faults and kills.
- *Registry* (`ProjectRegistryProofs`). `LockIsExclusive`, `OnePlaceOneProject`, `EntriesKept`,
  `ForeignSurvives` and `CleanLeavesNothing`.
  A conflict is looked for before a publication, and the entry is written steps
  later, so the invariant has to carry the check through: while a command publishes or
  undoes, the registry is what it saw under the lock, or that with its own entry
  (`Publication`). The last two come from `NInv`: what a job has not taken back it has just
  written, still owns, has noted as failed, or is known to have passed over (`Withdrawn`,
  `Noted`); and what is noted as the user's is really there (`Disk`),
  so that a write that goes over nothing, and an undo that compares, cannot meet it. Only a
  clone with its tree or state file compared removes anything unseen (`Keeping`).
  Any number of projects, places, commands, faults and user actions.
- *Configuration* (`ConfigurationEditsProofs`). `LockIsExclusive`, `NoLostEdit`, `EvidenceBlocks`,
  `CleanRollbackIsTrue` and `SplitIsReported`.
  What a write may rely on was read steps before it, so three facts go with the job: a
  receipt has the data that was published, what was looked at before a rename is what was
  captured, and nobody publishes while there is evidence. The last is
  inductive only because the evidence is looked at, and written, under the lock. The last two
  properties need to know whose baseline is in a file: a baseline is some process's only
  if that process may have put it there and has not taken it back (`Marks`), and the generations
  no person wrote name one baseline, but for the files the publishing command has replaced,
  unless a command spoilt that and is about to say so, or has (`Base`). Any
  number of processes, branches, hook definitions, edits, faults and kills.
  Assumptions: the names of the ghosts are no process (`DistinctAssumption`) and an
  unfinished job has no result (`ResultAssumption`).

- *Companion* (`CompanionUpdateProofs`). `TypeOK`, `CleanFailureUndoes`, `ResidueIsRecorded`
  and `TheirsSurvive`. The invariant follows the entry at work: while nobody touched it, its
  branch and files are as far as the stage of the fast-forward, or of its restoration, says
  (`Stage`), its state file is the planned one or what the publication installed
  (`StateStage`), and what of it would be residue has a mark on the job that makes the
  recovery record name it (`Residues`). Every entry not at work and not moved is as planned,
  which for the owner of the baseline depends on whether the baseline was found checked out
  (`Others`, `OwnerFree`, `OwnerHeld`). Any number of workspaces, commands, faults, kills and
  actions of the user, any history, any owner. The first attempt failed on `ForwardRef`,
  which let a killed `git update-ref` move a branch the checks before it had refused:
  the model was wrong there, not the code (`git/aggregate.go:211-250` compares first).
  Assumptions: names are distinct (`CompanionAssumption`), and a commit that does not exist
  yet is in the history of none that does (`HistoryAssumption`).
- *Doctor and import* (`DoctorRepairProofs`). `TypeOK`, `FixConverges`, `FailureIsTrue` and
  `EditsAreKept`. The invariant `DInv` relates three generations of the state file, the captured
  one, the one read after it and the one that is there (`Generations`): a writer that is not
  the repair only adds a later one, so what carries the captured mark is the captured file.
  While nobody else acts all three are one (`Still`), and what a report said of the checkouts
  stays true through the prunes (`Reported`): a prune takes registrations, never adds a
  checkout, so the first checkout of a repository stays the first as long as it is there. That the
  first one exists, and is unique, is a lemma about the order of a walk (`FirstExists`):
  `Before` is a total order on paths of any length and any names. A move takes a directory to a
  path of its own (`MovedFacts`). Any repositories and parents, mounts, worktrees of others, paths,
  faults and moves. The proof found that `FixConverges` was false as it stood, section 6.
  Assumptions: `OrderAssumption`, `ParentAssumption` (a parent is listed before its children)
  and `PlacesAssumption` (create gave every repository a path of its own, a worktree of
  others is of some repository of the project, and the markers are no paths).
- *Commands* (`WorkspaceCommandsProofs`). `TypeOK`, `ReportIsTrue`, `ReadyWasPublished` and
  `OutputIsTheResult`. Five facts go together. `Waited`: who waits for a program knows
  that nobody holds its pipes, or was interrupted. `Marked`: what was started, moved or left
  running is in its row, but for the ref that was moved a step ago. `Tallied`: the statuses of
  the settled rows, without which a success could be one of some rows. `Witnessed`: a ready
  row of push carries, stage by stage (`Looked`, `Known`, `Published`), what its checkout and
  its remote were seen as. `Written`: the rows that are written are the settled ones in their
  order, or the command is a push that was interrupted (`Excused`), or its output broke.
  Where rows stand in the order of the command is a matter of `InOrder`, by induction over the order.
  Any repositories, workspaces, commands, edits by others and failures. `ReadyWasPublished` used
  to say that one moment had all of a row's facts, and the proof found that to be false, section 6.
  Assumptions: `OrderAssumption` (each repository once), `NoneAssumption` and `CommandsTyped`.

Only model-checked: the liveness properties, which need fairness and are out of
the prover's reach, and every property of section 3 not named here. Theorems with an
operator as parameter, the library's induction among them, cannot be instantiated by
the installed provers; where a proof needs induction over the natural numbers it takes
the least counterexample of a set instead (`WFMin`, `NatLessThanWellFounded`).

## 6. Where the code and its documents differ

`doctor_prune` is among the runs:

- *Prune takes a checkout that is there* (`FoundCheckoutsStayUsable`). `doctor --fix` prunes
  stale registrations with `git worktree prune`, which is of the whole repository. A
  checkout that was moved by hand within the workspace, which the same walk finds and
  the same repair is about to record, loses its registration with it
  (`service/doctor.go:336`). For the same reason a repair can succeed and the next report list
  another one: the prune took a checkout the report had found, and the walk now finds a
  worktree of somebody else in its place. `FixConverges` excepts it. It takes three moves of
  others before the report (one with Git, one by hand, a deletion), one more than the run
  `doctor` has, and was found where the proof failed.

These have a configuration that shows them, and are in no run:

| Configuration | Property | What TLC finds |
|---|---|---|
| `MCLifecyclePartialGit.cfg` | `FailureLeavesNothing` | `create_branch` has no cleanup of its failed execution, and `add_worktree` only looks at a flag set after Git succeeded: a Git command that is killed, or fails, after its effect leaves a branch or worktree behind a failure that calls itself clean (`service/create.go:313`, `:341`; `docs/spec/wtree.spec.md:939`) |
| `MCLifecycleCommittedWork.cfg` | `CommittedWorkSurvives` | two of the ways to keep a worktree return before `preservedBranches` is marked, and the branch is then force-deleted without comparing its head (`service/create.go:322`; `wtree.spec.md:1301`) |
| `MCUpdateConcurrentRegistry.cfg` | `OthersGenerationKept` | the new registry is made from the planned one and compared with whatever is there at publication, without the registry lock: a project registered during the update is lost (`service/update_publication.go:421`) |
| `MCUpdateCrashedPublication.cfg` | `RecoveredFilesAreWhole` | a file is published before its journal entry; after a crash in between, `Recover` leaves it, restores the rest and reports success (`service/update_publication.go:236`) |
| `MCPlanningRetained.cfg` | `RetainedDoesNotBlock` | an update that removes a repository keeps its checkout as history; the next update refuses because of it (`service/drift_snapshot.go:1412`; `drift_snapshot_test.go:337`) |
| `MCPlanningCompanion.cfg` | `StateFollowsCheckouts` | publication rebuilds the default state from the checkouts' baselines and overwrites a companion's recorded branch (`service/update_publication.go:366`; `companion-repositories.md:177`) |
| `MCCommandsPromises.cfg`, without its invariant | `CanceledCommandEnds` | once a program has closed its output, `RunDirectProcess` waits for it without looking at the context (`service/aggregate.go:373`, `:197`) |
| the same, with `-continue` | `WrittenRowsAreFinal` | a cancelled push rewrites rows it has already written (`service/push.go:476`, `:64`) |
| `MCRegistryMutation.cfg` | `MutationRegistersAgain` | a mutating command run from the retained configuration of an unregistered project does not register it again (`service/resolve.go:907`; `README.md:537`) |
| `MCHooksRecreated.cfg` | `HooksBelongToCheckout` | the run record outlives the workspace: deleted and created again at the same commits, it takes up the old record and skips its hooks (`service/hook_runner.go:154`; `local-workspace-lifecycle-hooks.md:240`) |
| `MCConfigurationPromises.cfg` | `CompareAndSwap` | between the last verification of share or install and the rename, an edit is overwritten (`service/hooks_management.go`; `local-workspace-lifecycle-hooks.md:390`) |
| the same, with `-continue` | `SplitIsNeverSilent` | killed between its two writes, repo branch leaves the two configurations disagreeing, and no evidence (`service/repository_branch.go`; `companion-repositories.md:169`) |
| `MCCompanionKilledRef.cfg` | `MovementIsSurfaced` | a baseline reference moved by a Git command that is killed after its effect is reported as no action (`service/companion_update.go:839`) |

Seen while modelling, and stated by no configuration:

- A candidate that adds a repository and another mounted below it is always refused,
  because the child's parent is not there to be observed (`service/update_collect.go:304`).
- The remote's tip moving between the plan and the lock refuses the update, although
  the plan's comparison leaves the advertised commit out (`service/update_execute.go:2440`).
- A candidate that changes a companion's baseline is refused as a change of contract.
- In doctor, a dirty checkout or an unbound companion ends the classification of its
  repository before later drift is looked at.
- A helper of Git (ssh, a remote helper) that outlives Git holds the output, and an
  interrupted fetch or push waits for it (`git/adapter.go:536`).
- A clean rollback is to mean that every effect was undone (`service/error.go:92`). In five
  branches of a clone the error of an undo is joined and not marked
  (`service/clone_execute.go:569`, `:599`, `:603`, `:635`, `:655`), so the state file, or the registry
  entry, may stay behind a clean end. A release that could not read back what it wrote
  has no receipt of it (`service/release_materialize.go:1097`), its rollback skips the file
  (`:582`), and its error does not say that the rollback is incomplete.
- The rollback of a clone compares its state file, or its tree, and removes what is at
  the path then (`service/clone_execute.go:143`, `:873`); an edit in between is lost.
- An incomplete rollback of init writes no recovery
  record (`service/init.go:466`), nor does materialize when the base changed
  (`service/release_materialize.go:1151`).
- A ready row of push may describe a state that never was: head, status, upstream and remote
  are read one after the other (`service/push.go:270-361`), so with three changes by others in
  between the head is that of a moment when the checkout was dirty, and the clean status
  that of another commit. `ReadyWasPublished` says what remains: each fact was true at a moment of its own.
- A push without authority prints no rows in human form, and a row that is written
  after a failed one clears the failure.
- `doctor --fix` that pruned and then cannot repair the state returns an error, not what
  it did; an observation that fails makes doctor return an error instead of a report.
- hooks share and install do not look at recovery evidence.
- Import looks for a state file and then writes by replacing what is there: one that
  appears in between is lost (`service/import.go:258`), and so is one that replaces the
  import's own between the comparison of its rollback and the removal (`:101-107`).
  `EditsAreKept` excepts both.
- Safe but stuck, each an incomplete update journal that no call of `Recover` finishes:
  a cleanup whose first write fails keeps a `terminal-cleanup` entry without an outcome
  (`service/update_execute.go:1332`), a fetch that fails before it did anything has no valid
  receipt, a crash between an inverse and its entry repeats a compare-and-swap that
  can only fail, and a synthetic `recovery-retained` entry cannot be undone.

## 7. Not modelled

- *Status* reads one checkout after the other and changes nothing; its classification
  is `DriftSnapshot`'s, its rendering wording.
- *Partial imports*, and the root an import derives from a checkout deep in the forest
  (`service/import.go:365-475`).
- *Release lock* writes one file from what it observed. It observes before it takes
  the project lock and does not look again.
- *The dry run of the companion update* only reports.
- *Ignore rules*: which pattern covers which path is a pure algorithm over text; the
  models take its answer as a fact about a mount.
- *Path texts*: parsing and normalisation. What mounts mean is `DoctorRepair`'s.
- *Aliases and nearest-root choice* in resolution: names and paths without a state.
- *YAML, encodings, permissions, leases, private directories, platform files.*
- *`tools/test-runner`, scripts, tutorial, documents*: not the program.

## 8. What is left

Proofs: every safety property of the runs has one. What is model-checked only is named at the
end of section 5.

Then an abstract specification of an update (at once, or not, or retained) that
`UpdateTransaction` implements; `CompletedIsWhole`; `UndoAdd` as an implementation
of an abstract removal that `OwnedWorktreeRemoval` refines; the pure algorithms of
resolution and ignore rules against reference definitions.
