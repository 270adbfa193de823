-------------------------- MODULE WorkspaceLifecycle --------------------------
(***************************************************************************)
(* create, checkout, remove and delete of one workspace by several wtree   *)
(* processes: planning without the lock, the project lock, planning again, *)
(* the transaction runner over the command's Git steps, result validation, *)
(* the workspace state file, and the recovery record.                      *)
(*                                                                         *)
(* Sources: service/create.go, remove.go, delete.go, transaction.go, with  *)
(* transaction/transaction.go driving the steps (module TransactionRunner  *)
(* has that loop alone).  One TLA+ step is one runner step: a Git command  *)
(* and the checks the code makes around it.                                *)
(*                                                                         *)
(* A process is one wtree command.  It may fail at any step (MaxFaults),   *)
(* be cancelled, or be killed (MaxCrashes); nothing of it survives but the *)
(* world, the state file and the recovery record.                          *)
(***************************************************************************)
EXTENDS GitWorkspace, SequencesExt

CONSTANTS
    Ops,            \* the commands run: "create", "checkout", "remove", "delete"
    Companions,     \* companion repositories
    Baselines,      \* companions whose baseline branch may have the workspace's name
    MaxOps,         \* bound on commands started
    MaxFaults,      \* bound on injected failures and cancellations
    MaxCrashes,     \* bound on killed processes
    PartialCreates  \* may a failing git branch, or worktree add, have taken effect

\* A project lists every repository after those it is mounted in.
ASSUME OrderAssumption ==
    /\ RepoOrder \in Seq(Repos)
    /\ \A r \in Repos : \E i \in 1..Len(RepoOrder) : RepoOrder[i] = r
    /\ \A i, j \in 1..Len(RepoOrder) : RepoOrder[j] \in Below(RepoOrder[i]) => i < j

ASSUME CommandAssumption ==
    /\ Ops \subseteq {"create", "checkout", "remove", "delete"}
    /\ Baselines \subseteq Repos

VARIABLES
    proc,           \* [Procs -> the command each process runs]
    lock,           \* holder of the project lock, or Nobody
    state,          \* the workspace state file: recorded heads, or NoState
    recovery,       \* the recovery record's unreverted steps, or NoRecovery
    alert,          \* has a command ended with ErrorRollbackIncomplete
    ops, faults, crashes

files == <<state, recovery>>
budget == <<ops, faults, crashes>>
vars == <<branch, tree, grouping, touched, moves, baselines,
          proc, lock, state, recovery, alert, ops, faults, crashes>>

NoState == [r \in Repos |-> "none"]
NoReceipt == "no receipt"
NoRecovery == {<<"no recovery record", Nobody>>}
CommitState == <<"commit_state", Nobody>>   \* the step name "commit-state"

-----------------------------------------------------------------------------
(* Plans                                                                    *)

\* What a plan says of one repository: the commit it was made for, and whether
\* Git's protections are overridden.
NoPlan == [r \in Repos |-> [head |-> "none", force |-> FALSE, drop |-> "keep"]]

\* Forest root: no other repository's checkout contains it.
IsRoot(r) == Parent[r] = NoParent

CanCreate ==
    /\ state = NoState
    /\ \A r \in Repos : branch[r] = "none"
    /\ \A r \in Repos : IsRoot(r) => tree[r].dir = "none"

CanCheckout ==
    /\ \A r \in Repos : branch[r] # "none" /\ ~CheckedOut(r)
    /\ \A r \in Repos : IsRoot(r) => tree[r].dir = "none"

\* PlanRemove, from the state file read when the command was resolved.
CanRemove(known, force) ==
    /\ known # NoState
    /\ \A r \in Repos :
          /\ tree[r].dir = "checkout" /\ CheckedOut(r)
          /\ force \/ tree[r].dirt = "clean"
          /\ r \in Companions /\ branch[r] # known[r] => known[r] = "base"

\* Mutant: unmerged branches are deleted without --force.
CanDeleteUnmerged(known, force) ==
    /\ CanRemove(known, force)
    /\ \A r \in Repos \ baselines : branch[r] # "none"

CanDelete(known, force) ==
    /\ CanRemove(known, force)
    /\ \A r \in Repos \ baselines :
          branch[r] # "none" /\ (force \/ branch[r] = "base")

Plannable(op, known, force) ==
    CASE op = "create"   -> CanCreate
      [] op = "checkout" -> CanCheckout
      [] op = "remove"   -> CanRemove(known, force)
      [] op = "delete"   -> CanDelete(known, force)

\* What delete does to a branch: baselines are kept, an unmerged branch is forced.
DropOf(op, r) ==
    IF op # "delete" \/ r \in baselines THEN "keep"
    ELSE IF branch[r] = "base" THEN "merged" ELSE "forced"

PlanOf(op, force) ==
    [r \in Repos |->
        [head  |-> IF op = "create" THEN "base" ELSE branch[r],
         force |-> op \in {"remove", "delete"} /\ tree[r].dirt # "clean",
         drop  |-> DropOf(op, r)]]

\* The runner's step list.  A step is its kind and its repository.
CreateSteps(r) ==
    <<<<"branch", r>>>>
    \o (IF IsRoot(r) THEN <<<<"group", r>>>> ELSE <<>>)
    \o <<<<"add", r>>>>
    \o (IF Children(r) # {} THEN <<<<"inspect", r>>, <<"ignore", r>>>> ELSE <<>>)

CheckoutSteps(r) ==
    (IF IsRoot(r) THEN <<<<"group", r>>>> ELSE <<>>) \o <<<<"add", r>>>>

RemovalOrder == Reverse(RepoOrder)

RemoveSteps == [i \in 1..Len(RemovalOrder) |-> <<"remove", RemovalOrder[i]>>]

DropSteps(plan, r) == IF plan[r].drop = "keep" THEN <<>> ELSE <<<<"drop", r>>>>

DeleteSteps(plan) ==
    RemoveSteps
    \o FlattenSeq([i \in 1..Len(RemovalOrder) |-> DropSteps(plan, RemovalOrder[i])])
    \o <<<<"unstate", Nobody>>>>

StepsOf(op, plan) ==
    CASE op = "create"   -> FlattenSeq([i \in 1..Len(RepoOrder) |-> CreateSteps(RepoOrder[i])])
      [] op = "checkout" -> FlattenSeq([i \in 1..Len(RepoOrder) |-> CheckoutSteps(RepoOrder[i])])
      [] op = "remove"   -> RemoveSteps
      [] op = "delete"   -> DeleteSteps(plan)
      [] OTHER           -> <<>>

-----------------------------------------------------------------------------
(* Processes                                                                *)

Idle == [pc |-> "idle", op |-> "none", force |-> FALSE, known |-> NoState,
         plan |-> NoPlan, at |-> 0, canceled |-> FALSE,
         receipt |-> [r \in Repos |-> NoReceipt],
         added |-> {}, preserved |-> {}, held |-> {}, ignoreOwned |-> {}, madeGroup |-> FALSE,
         unreverted |-> {}, prior |-> NoState, outcome |-> "none",
         found |-> <<>>, partial |-> FALSE]

\* A process that is done with its command.
Released(p) == [Idle EXCEPT !.partial = proc[p].partial]

Steps(p) == StepsOf(proc[p].op, proc[p].plan)
Step(p) == Steps(p)[proc[p].at]
At(p, pc) == proc[p].pc = pc
Set(p, record) == proc' = [proc EXCEPT ![p] = record]

IsKind(p, kind) == Step(p)[1] = kind
Repo(p) == Step(p)[2]

Init ==
    /\ baselines \in {{}, Baselines}
    /\ \/ /\ branch = [r \in Repos |-> IF r \in baselines THEN "base" ELSE "none"]
          /\ tree = [r \in Repos |-> NoTree]
          /\ state = NoState
          /\ grouping = FALSE
       \/ /\ branch = [r \in Repos |-> "base"]
          /\ tree = [r \in Repos |-> NewTree(Nobody)]
          /\ state = [r \in Repos |-> "base"]
          /\ grouping = TRUE
    /\ touched = {} /\ moves = 0
    /\ proc = [p \in Procs |-> Idle]
    /\ lock = Nobody
    /\ recovery = NoRecovery
    /\ alert = FALSE
    /\ ops = 0 /\ faults = 0 /\ crashes = 0

Fault == faults < MaxFaults /\ faults' = faults + 1
NoFault == UNCHANGED faults

\* The command reads the state file and plans, holding nothing.
Start(p) ==
    /\ At(p, "idle")
    /\ ops < MaxOps
    /\ ops' = ops + 1
    /\ \E op \in Ops, force \in BOOLEAN :
          /\ force => op \in {"remove", "delete"}
          /\ Plannable(op, state, force)
          /\ Set(p, [Idle EXCEPT !.pc = "planned", !.op = op, !.force = force,
                                 !.known = state, !.plan = PlanOf(op, force),
                                 !.partial = proc[p].partial])
    /\ UNCHANGED <<world, userVars, lock, files, alert, faults, crashes>>

\* The lock is polled until the timeout, then the command ends with a conflict.
LockTimesOut(p) ==
    /\ At(p, "planned")
    /\ lock # Nobody
    /\ Set(p, Released(p))
    /\ UNCHANGED <<world, userVars, lock, files, alert, budget>>

AcquireLock(p) ==
    /\ At(p, "planned")
    /\ lock = Nobody
    /\ lock' = p
    /\ Set(p, [proc[p] EXCEPT !.pc = "locked"])
    /\ UNCHANGED <<world, userVars, files, alert, budget>>

\* Mutant: a recovery record does not stop the command.
StillPlannedDespiteRecovery(p) ==
    /\ Plannable(proc[p].op, proc[p].known, proc[p].force)
    /\ proc[p].plan = PlanOf(proc[p].op, proc[p].force)
    /\ proc[p].op = "delete" => state # NoState

\* Under the lock: the plan is made again and must be the same, and there must
\* be no recovery record.  delete reads the state file again; remove and delete
\* capture a receipt of every checkout.  For the properties, `found` keeps the
\* world as it is now, and `touched` restarts: it tells what the user did behind
\* the back of the command that holds the lock.
StillPlanned(p) ==
    /\ Plannable(proc[p].op, proc[p].known, proc[p].force)
    /\ proc[p].plan = PlanOf(proc[p].op, proc[p].force)
    /\ recovery = NoRecovery
    /\ proc[p].op = "delete" => state # NoState

Revalidate(p) ==
    /\ At(p, "locked")
    /\ LET receipts == IF proc[p].op \in {"remove", "delete"}
                       THEN [r \in Repos |-> tree[r].id]
                       ELSE Idle.receipt
       IN IF StillPlanned(p)
          THEN Set(p, [proc[p] EXCEPT !.pc = "running", !.at = 1,
                                      !.receipt = receipts, !.prior = state,
                                      !.found = [branch |-> branch, tree |-> tree,
                                                 grouping |-> grouping]])
          ELSE Set(p, [proc[p] EXCEPT !.pc = "reported", !.outcome = "refused"])
    /\ touched' = {}
    /\ UNCHANGED <<world, moves, baselines, lock, files, alert, budget>>

-----------------------------------------------------------------------------
(* Runner: Execute                                                          *)

Executing(p, kind) ==
    /\ At(p, "running")
    /\ ~proc[p].canceled
    /\ proc[p].at <= Len(Steps(p))
    /\ IsKind(p, kind)

\* Steps with a RollbackFailedExecute function.
CleansUp == {"group", "add", "remove", "drop", "unstate"}

Succeed(p, record) == Set(p, [record EXCEPT !.at = @ + 1])

\* Mutant: the runner never calls RollbackFailedExecute.
FailNoCleanup(p, record) ==
    Set(p, [record EXCEPT !.pc = "rollback", !.at = @ - 1])

Fail(p, record) ==
    Set(p, IF Step(p)[1] \in CleansUp
           THEN [record EXCEPT !.pc = "cleanup"]
           ELSE [record EXCEPT !.pc = "rollback", !.at = @ - 1])

\* The step took effect, reports an error, and nothing the runner keeps says so;
\* `partial` tells the properties.
Unnoticed(p) == [proc[p] EXCEPT !.partial = TRUE]

\* The step reports an error and has changed nothing, because what it needs is
\* not so, or because something else went wrong.
FailUntouched(p, possible) ==
    /\ IF possible THEN Fault ELSE NoFault
    /\ Fail(p, proc[p])
    /\ UNCHANGED <<world, state>>

StepFrame == UNCHANGED <<userVars, lock, recovery, alert, ops, crashes>>

\* create_branch.  A git branch that is killed, or whose hook fails, may have
\* created the branch.
ExecBranch(p) ==
    /\ Executing(p, "branch")
    /\ LET r == Repo(p) IN
          \/ FailUntouched(p, BranchCreatable(r))
          \/ /\ BranchCreatable(r)
             /\ branch' = [branch EXCEPT ![r] = proc[p].plan[r].head]
             /\ UNCHANGED <<tree, grouping, state>>
             /\ \/ NoFault /\ Succeed(p, proc[p])
                \/ PartialCreates /\ Fault /\ Fail(p, Unnoticed(p))
    /\ StepFrame

\* prepare_grouping.  The directory becomes the step's own only after it has
\* been inspected and its identity retained.
ExecGroup(p) ==
    /\ Executing(p, "group")
    /\ \/ FailUntouched(p, TRUE)
       \/ grouping /\ UNCHANGED <<world, state>> /\ NoFault /\ Succeed(p, proc[p])
       \/ /\ ~grouping
          /\ grouping' = TRUE
          /\ UNCHANGED <<branch, tree, state>>
          /\ LET made == [proc[p] EXCEPT !.madeGroup = TRUE] IN
                \/ NoFault /\ Succeed(p, made)
                \/ Fault /\ Fail(p, made)
                \/ PartialCreates /\ Fault /\ Fail(p, Unnoticed(p))
    /\ StepFrame

\* The checkout at r is still the one the command holds a receipt of: directory
\* identity, Git registration, branch and HEAD.
ReceiptHolds(p, r) ==
    /\ tree[r].dir = "checkout" /\ CheckedOut(r)
    /\ tree[r].id = proc[p].receipt[r]
    /\ branch[r] = proc[p].plan[r].head

\* add_worktree: the mount and its parent are checked again, then Git runs, then
\* the receipt is captured, which fails when the branch is not where planned.
ExecAdd(p) ==
    /\ Executing(p, "add")
    /\ LET r == Repo(p)
           possible ==
              /\ IF IsRoot(r)
                 THEN grouping
                 ELSE /\ tree[Parent[r]].dir = "checkout"
                      /\ tree[Parent[r]].id = proc[p].receipt[Parent[r]]
              /\ WorktreeAddable(r)
           added == [proc[p] EXCEPT !.added = @ \cup {r}]
           captured == [added EXCEPT !.receipt[r] = p]
           atHead == branch[r] = proc[p].plan[r].head
       IN \/ FailUntouched(p, possible)
          \/ /\ possible
             /\ tree' = [tree EXCEPT ![r] = NewTree(p)]
             /\ UNCHANGED <<branch, grouping, state>>
             /\ \/ atHead /\ NoFault /\ Succeed(p, captured)
                \/ atHead /\ Fault /\ Fail(p, captured)
                \/ (IF atHead THEN Fault ELSE NoFault) /\ Fail(p, added)
                \/ PartialCreates /\ Fault /\ Fail(p, Unnoticed(p))
    /\ StepFrame

\* inspect_ignore_owner only asks Git for a status.
ExecInspect(p) ==
    /\ Executing(p, "inspect")
    /\ \/ FailUntouched(p, tree[Repo(p)].dir = "checkout")
       \/ /\ tree[Repo(p)].dir = "checkout"
          /\ NoFault /\ Succeed(p, proc[p])
          /\ UNCHANGED <<world, state>>
    /\ StepFrame

\* ensure_ignore edits .gitignore unless it has the rules already; what it knows
\* of its edit (clean when planned, exact bytes) is evidence for the rollback of
\* add_worktree.  Verification may fail after the edit.
ExecIgnore(p) ==
    /\ Executing(p, "ignore")
    /\ LET r == Repo(p)
           possible == tree[r].dir = "checkout"
           edited == IF tree[r].dirt = "clean"
                     THEN [proc[p] EXCEPT !.ignoreOwned = @ \cup {r}]
                     ELSE proc[p]
       IN \/ FailUntouched(p, possible)
          \/ /\ possible
             /\ UNCHANGED <<world, state>>
             /\ NoFault /\ Succeed(p, proc[p])
          \/ /\ possible
             /\ tree' = [tree EXCEPT ![r].dirt = IF @ = "clean" THEN "ignore" ELSE @]
             /\ UNCHANGED <<branch, grouping, state>>
             /\ \/ NoFault /\ Succeed(p, edited)
                \/ Fault /\ Fail(p, edited)
    /\ StepFrame

\* remove_worktree.  Git deletes the directory, then its registration; it may be
\* killed in between or after.
ExecRemove(p) ==
    /\ Executing(p, "remove")
    /\ LET r == Repo(p)
           possible == ReceiptHolds(p, r) /\ WorktreeRemovable(r, proc[p].plan[r].force)
       IN \/ FailUntouched(p, possible)
          \/ /\ possible
             /\ UNCHANGED <<branch, grouping, state>>
             /\ \/ /\ tree' = WithoutTree(r, NoTree)
                   /\ \/ NoFault /\ Succeed(p, proc[p])
                      \/ Fault /\ Fail(p, proc[p])
                \/ /\ tree' = WithoutTree(r, Emptied(tree[r]))
                   /\ Fault /\ Fail(p, proc[p])
    /\ StepFrame

\* delete_branch: the head is compared, then git branch -d or -D runs.
ExecDrop(p) ==
    /\ Executing(p, "drop")
    /\ LET r == Repo(p)
           plan == proc[p].plan[r]
           possible == branch[r] = plan.head /\ BranchDeletable(r, plan.drop = "forced")
       IN \/ FailUntouched(p, possible)
          \/ /\ possible
             /\ branch' = [branch EXCEPT ![r] = "none"]
             /\ UNCHANGED <<tree, grouping, state>>
             /\ \/ NoFault /\ Succeed(p, proc[p])
                \/ Fault /\ Fail(p, proc[p])
    /\ StepFrame

\* delete_state
ExecUnstate(p) ==
    /\ Executing(p, "unstate")
    /\ LET possible == state = proc[p].prior
       IN \/ FailUntouched(p, possible)
          \/ /\ possible
             /\ state' = NoState
             /\ UNCHANGED world
             /\ \/ NoFault /\ Succeed(p, proc[p])
                \/ Fault /\ Fail(p, proc[p])
    /\ StepFrame

\* The context is looked at between steps, and once more after the last one by
\* create and checkout (WorkspaceTransaction.Execute) but not by remove and
\* delete.
Transactional(p) == proc[p].op \in {"create", "checkout"}

StopCanceled(p) ==
    /\ At(p, "running")
    /\ proc[p].canceled
    /\ proc[p].at <= Len(Steps(p)) \/ Transactional(p)
    /\ Set(p, [proc[p] EXCEPT !.pc = "rollback", !.at = @ - 1])
    /\ UNCHANGED <<world, userVars, lock, files, alert, budget>>

RunReturns(p) ==
    /\ At(p, "running")
    /\ proc[p].at > Len(Steps(p))
    /\ ~(proc[p].canceled /\ Transactional(p))
    /\ Set(p, IF Transactional(p)
              THEN [proc[p] EXCEPT !.pc = "validate"]
              ELSE [proc[p] EXCEPT !.pc = "reported", !.outcome = "ok"])
    /\ UNCHANGED <<world, userVars, lock, files, alert, budget>>

-----------------------------------------------------------------------------
(* Runner: RollbackFailedExecute of the failed step, then Rollback of the   *)
(* completed ones in reverse order                                          *)

Undoing(p, kind) ==
    /\ proc[p].pc \in {"cleanup", "rollback"}
    /\ proc[p].at > 0
    /\ IsKind(p, kind)

Undone(p, record) ==
    Set(p, [record EXCEPT !.pc = "rollback", !.at = @ - 1])

\* Mutant: an undo that failed is not named.
NotUndoneSilently(p, record) == Undone(p, record)

\* A failed undo names its step and the rollback goes on.
NotUndone(p, record) ==
    Undone(p, [record EXCEPT !.unreverted = @ \cup {Step(p)}])

\* The undo refuses, or fails, and has changed nothing.
UndoFails(p, possible, record) ==
    /\ IF possible THEN Fault ELSE NoFault
    /\ NotUndone(p, record)
    /\ UNCHANGED <<world, state>>

\* The undo has nothing to do.
UndoIsIdle(p) ==
    NoFault /\ Undone(p, proc[p]) /\ UNCHANGED <<world, state>>

\* git branch -D, unless the branch was marked preserved.
UndoBranch(p) ==
    /\ Undoing(p, "branch")
    /\ LET r == Repo(p)
           possible == r \notin proc[p].preserved /\ BranchDeletable(r, TRUE)
       IN \/ UndoFails(p, possible, proc[p])
          \/ /\ possible
             /\ branch' = [branch EXCEPT ![r] = "none"]
             /\ UNCHANGED <<tree, grouping, state>>
             /\ NoFault /\ Undone(p, proc[p])
    /\ StepFrame

\* rmdir of the directories this step made: they must be empty, and a quarantine
\* is next to the mount.
UndoGroup(p) ==
    /\ Undoing(p, "group")
    /\ LET empty == \A r \in Repos : IsRoot(r) => tree[r].dir = "none" /\ r \notin proc[p].held
       IN IF ~proc[p].madeGroup
          THEN UndoIsIdle(p)
          ELSE \/ UndoFails(p, empty, proc[p])
               \/ /\ empty
                  /\ grouping' = FALSE
                  /\ UNCHANGED <<branch, tree, state>>
                  /\ NoFault /\ Undone(p, proc[p])
    /\ StepFrame

\* Mutant: the dirt of a created worktree is not looked at.
DirtIsOwnedAlways(p, r) == tree[r].dir = "checkout"

\* What git status --ignored may show of a checkout that create removes: nothing,
\* or exactly its own .gitignore edit.
DirtIsOwned(p, r) ==
    \/ CleanIncludingIgnored(r)
    \/ /\ tree[r].dir = "checkout"
       /\ tree[r].dirt = "ignore" /\ r \in proc[p].ignoreOwned
       /\ \A c \in Children(r) : tree[c].dir = "none"

\* What is left of a checkout in quarantine when removeOwnedCreatedWorktree gets no
\* further: all of it, and Git has the worktree registered there, or what could
\* not be deleted of it.
Held(r) == {Emptied(tree[r]), NoTree}

\* Rollback of add_worktree.  For create, safeRemoveCreatedWorktree returns at once
\* when the status fails, or shows dirt that is not expected, as a quarantine left
\* by a child's rollback is; only a refusal or failure of
\* removeOwnedCreatedWorktree preserves the branch, and so does somebody who makes
\* the mount again behind its back (what stays there is a move of the user's).
\* Checkout has no branch to preserve and owns no dirt.  The calls inside
\* removeOwnedCreatedWorktree are one step here, and each in module
\* OwnedWorktreeRemoval.
UndoAdd(p) ==
    /\ Undoing(p, "add")
    /\ LET r == Repo(p)
           creates == proc[p].op = "create"
           owned == /\ IF creates THEN DirtIsOwned(p, r) ELSE CleanIncludingIgnored(r)
                    /\ Children(r) \cap proc[p].held = {}
           possible == proc[p].receipt[r] # NoReceipt /\ owned /\ ReceiptHolds(p, r)
           preserving == [proc[p] EXCEPT !.preserved = @ \cup {r}]
           refused == IF creates /\ proc[p].receipt[r] # NoReceipt /\ owned THEN preserving ELSE proc[p]
           holding == [proc[p] EXCEPT !.preserved = IF creates THEN @ \cup {r} ELSE @,
                                      !.held = @ \cup {r}]
           gone == [proc[p] EXCEPT !.added = @ \ {r}]
           recreated == [proc[p] EXCEPT !.added = @ \ {r}, !.preserved = @ \cup {r}]
       IN IF r \notin proc[p].added
          THEN UndoIsIdle(p)
          ELSE \/ \E record \in {proc[p], refused} :
                      UndoFails(p, possible \/ record # refused, record)
               \/ /\ possible
                  /\ UNCHANGED <<branch, grouping, state>>
                  /\ \/ /\ tree' = [tree EXCEPT ![r] = NoTree]
                        /\ \/ NoFault /\ Undone(p, gone)
                           \/ creates /\ Fault /\ Undone(p, recreated)
                     \/ /\ \E left \in Held(r) : tree' = [tree EXCEPT ![r] = left]
                        /\ Fault /\ NotUndone(p, holding)
    /\ StepFrame

\* The rollback of inspect_ignore_owner and of ensure_ignore does nothing.
UndoNothing(p) ==
    /\ Undoing(p, "inspect") \/ Undoing(p, "ignore")
    /\ UndoIsIdle(p)
    /\ StepFrame

\* restoreRemovedWorktree.  A forced removal has no Rollback at all: only its
\* own failed execution is looked at.
UndoRemove(p) ==
    /\ Undoing(p, "remove")
    /\ LET r == Repo(p)
           plan == proc[p].plan[r]
           possible ==
              /\ tree[r].dir = "none" /\ ~tree[r].reg
              /\ ~plan.force
              /\ IF IsRoot(r) THEN TRUE ELSE ReceiptHolds(p, Parent[r])
              /\ branch[r] = plan.head
       IN IF ReceiptHolds(p, r) /\ (At(p, "cleanup") \/ ~plan.force)
          THEN UndoIsIdle(p)
          ELSE \/ UndoFails(p, possible, proc[p])
               \/ /\ possible
                  /\ tree' = [tree EXCEPT ![r] = NewTree(p)]
                  /\ UNCHANGED <<branch, grouping, state>>
                  /\ NoFault
                  /\ Undone(p, [proc[p] EXCEPT !.receipt[r] = p])
    /\ StepFrame

\* restoreDeletedBranch never replaces a branch that is there.
UndoDrop(p) ==
    /\ Undoing(p, "drop")
    /\ LET r == Repo(p)
           possible == branch[r] = "none"
       IN IF branch[r] = proc[p].plan[r].head
          THEN UndoIsIdle(p)
          ELSE \/ UndoFails(p, possible, proc[p])
               \/ /\ possible
                  /\ branch' = [branch EXCEPT ![r] = proc[p].plan[r].head]
                  /\ UNCHANGED <<tree, grouping, state>>
                  /\ NoFault /\ Undone(p, proc[p])
    /\ StepFrame

\* restoreDeletedState
UndoUnstate(p) ==
    /\ Undoing(p, "unstate")
    /\ LET possible == state = NoState
       IN IF state = proc[p].prior
          THEN UndoIsIdle(p)
          ELSE \/ UndoFails(p, possible, proc[p])
               \/ /\ possible
                  /\ state' = proc[p].prior
                  /\ UNCHANGED world
                  /\ NoFault /\ Undone(p, proc[p])
    /\ StepFrame

-----------------------------------------------------------------------------
(* The command around the runner                                            *)

\* validateResult: every checkout is registered, on the branch, at the planned
\* commit; the context is looked at once more.  A failure rolls everything back.
Validate(p) ==
    /\ At(p, "validate")
    /\ LET valid == \A r \in Repos : /\ tree[r].dir = "checkout" /\ CheckedOut(r)
                                     /\ branch[r] = proc[p].plan[r].head
       IN \/ /\ valid /\ ~proc[p].canceled
             /\ NoFault
             /\ Set(p, [proc[p] EXCEPT !.pc = "commit"])
          \/ /\ IF valid /\ ~proc[p].canceled THEN Fault ELSE NoFault
             /\ Set(p, [proc[p] EXCEPT !.pc = "rollback", !.at = @ - 1])
    /\ UNCHANGED <<world, state>>
    /\ StepFrame

PlannedState(p) == [r \in Repos |-> proc[p].plan[r].head]

\* The state file is written last.
Commit(p) ==
    /\ At(p, "commit")
    /\ state' = PlannedState(p)
    /\ NoFault
    /\ Set(p, [proc[p] EXCEPT !.pc = "reported", !.outcome = "ok"])
    /\ UNCHANGED world
    /\ StepFrame

\* The write fails, before or after it replaced the file.  The prior contents
\* are put back (a file that was not there is removed again), or that fails too
\* and "commit-state" is one more unreverted step; then every step is undone.
CommitFails(p) ==
    /\ At(p, "commit")
    /\ LET undoing == [proc[p] EXCEPT !.pc = "rollback", !.at = @ - 1]
       IN \/ /\ Fault
             /\ state' = proc[p].prior
             /\ Set(p, undoing)
          \/ /\ faults + 2 <= MaxFaults
             /\ faults' = faults + 2
             /\ \/ state' = PlannedState(p)
                \/ proc[p].prior # NoState /\ state' = proc[p].prior
             /\ Set(p, [undoing EXCEPT !.unreverted = @ \cup {CommitState}])
    /\ UNCHANGED world
    /\ StepFrame

\* finishFailure, and the end of Remove and Delete: a rollback that is complete
\* leaves no recovery record; an incomplete one writes it, or fails to.
Finish(p) ==
    /\ At(p, "rollback")
    /\ proc[p].at = 0
    /\ \/ /\ proc[p].unreverted = {}
          /\ NoFault
          /\ Set(p, [proc[p] EXCEPT !.pc = "reported", !.outcome = "failed"])
          /\ UNCHANGED <<recovery, alert>>
       \/ /\ \/ proc[p].unreverted # {} /\ NoFault
             \/ proc[p].unreverted = {} /\ Transactional(p) /\ Fault
          /\ Set(p, [proc[p] EXCEPT !.pc = "reported", !.outcome = "incomplete"])
          /\ recovery' = proc[p].unreverted
          /\ alert' = TRUE
       \/ /\ proc[p].unreverted # {} /\ Fault
          /\ Set(p, [proc[p] EXCEPT !.pc = "reported", !.outcome = "incomplete"])
          /\ alert' = TRUE
          /\ UNCHANGED recovery
    /\ UNCHANGED <<world, userVars, lock, state, ops, crashes>>

Unlock(p) ==
    /\ At(p, "reported")
    /\ lock' = Nobody
    /\ Set(p, Released(p))
    /\ UNCHANGED <<world, userVars, files, alert, budget>>

\* A signal cancels the context of a command that has begun its steps.
Cancel(p) ==
    /\ proc[p].pc \in {"running", "validate", "commit"}
    /\ ~proc[p].canceled
    /\ Fault
    /\ Set(p, [proc[p] EXCEPT !.canceled = TRUE])
    /\ UNCHANGED <<world, state>>
    /\ StepFrame

\* The process is killed; the kernel releases its lock.
Crash(p) ==
    /\ ~At(p, "idle")
    /\ crashes < MaxCrashes
    /\ crashes' = crashes + 1
    /\ lock' = IF lock = p THEN Nobody ELSE lock
    /\ Set(p, Released(p))
    /\ UNCHANGED <<world, userVars, files, alert, ops, faults>>

UserStep ==
    /\ UserActs
    /\ UNCHANGED <<proc, lock, files, alert, budget>>

\* What a started command does without anybody's help.
Progress(p) ==
    \/ LockTimesOut(p)
    \/ AcquireLock(p)
    \/ Revalidate(p)
    \/ ExecBranch(p)
    \/ ExecGroup(p)
    \/ ExecAdd(p)
    \/ ExecInspect(p)
    \/ ExecIgnore(p)
    \/ ExecRemove(p)
    \/ ExecDrop(p)
    \/ ExecUnstate(p)
    \/ StopCanceled(p)
    \/ RunReturns(p)
    \/ UndoBranch(p)
    \/ UndoGroup(p)
    \/ UndoAdd(p)
    \/ UndoNothing(p)
    \/ UndoRemove(p)
    \/ UndoDrop(p)
    \/ UndoUnstate(p)
    \/ Validate(p)
    \/ Commit(p)
    \/ CommitFails(p)
    \/ Finish(p)
    \/ Unlock(p)

Next ==
    \/ \E p \in Procs : Start(p) \/ Progress(p) \/ Cancel(p) \/ Crash(p)
    \/ UserStep

\* A started command is scheduled until it ends.
Fairness == \A p \in Procs : WF_vars(Progress(p))

Spec == Init /\ [][Next]_vars /\ Fairness

-----------------------------------------------------------------------------
(* Properties                                                               *)

Pcs == {"idle", "planned", "locked", "running", "cleanup", "rollback",
        "validate", "commit", "reported"}

Kinds == {"branch", "group", "add", "inspect", "ignore", "remove", "drop"}

StepNames == (Kinds \X Repos) \cup {<<"unstate", Nobody>>, CommitState}

TypeOK ==
    /\ GitTypeOK
    /\ lock \in Procs \cup {Nobody}
    /\ state \in [Repos -> {"none"} \cup Heads]
    /\ recovery \subseteq StepNames \/ recovery = NoRecovery
    /\ alert \in BOOLEAN
    /\ ops \in 0..MaxOps /\ faults \in 0..MaxFaults /\ crashes \in 0..MaxCrashes
    /\ \A p \in Procs :
          /\ proc[p].pc \in Pcs
          /\ proc[p].pc \notin {"idle", "planned"} <=> lock = p
          /\ proc[p].at \in 0..(Len(Steps(p)) + 1)
          /\ proc[p].unreverted \subseteq StepNames
          /\ proc[p].outcome \in {"none", "ok", "refused", "failed", "incomplete"}

\* Repository r is as the command found it, up to the identity of a directory
\* that was removed and restored.
AsFound(p, r) ==
    LET then == proc[p].found.tree[r]
    IN branch[r] = proc[p].found.branch[r] /\ tree[r] = [then EXCEPT !.id = tree[r].id]

Unsuccessful(p) == At(p, "reported") /\ proc[p].outcome \in {"failed", "incomplete"}

\* A command that fails leaves each repository, the state file and the grouping
\* directory as it found them, or names a step that touched them among the
\* unreverted ones; repositories the user worked in meanwhile aside.
LeftoversAreReported ==
    \A p \in Procs : Unsuccessful(p) /\ ~proc[p].partial =>
        /\ \A r \in Repos \ touched :
              AsFound(p, r) \/ \E k \in Kinds : <<k, r>> \in proc[p].unreverted
        /\ state = proc[p].prior
             \/ {CommitState, <<"unstate", Nobody>>} \cap proc[p].unreverted # {}
        /\ grouping = proc[p].found.grouping
             \/ \E r \in Repos : <<"group", r>> \in proc[p].unreverted

Present(r) == tree[r].dir = "checkout" /\ CheckedOut(r)
Absent(r) == tree[r] = NoTree

\* A command that reports success did all of it: create and checkout leave every
\* checkout at the commit the state file records, remove leaves no checkout and
\* the state file, delete leaves neither those nor a branch it did not mean to
\* preserve.
SuccessIsWhole ==
    \A p \in Procs : At(p, "reported") /\ proc[p].outcome = "ok" =>
        /\ state = IF proc[p].op = "delete" THEN NoState
                   ELSE IF proc[p].op = "remove" THEN proc[p].prior
                   ELSE PlannedState(p)
        /\ \A r \in Repos \ touched :
              IF Transactional(p)
              THEN Present(r) /\ branch[r] = state[r]
              ELSE /\ Absent(r)
                   /\ branch[r] = IF proc[p].plan[r].drop = "keep"
                                  THEN proc[p].plan[r].head ELSE "none"

\* The workspace is checked out everywhere with a state file, removed everywhere
\* with its branches and state file kept, or gone.
WholeOrGone ==
    \/ state # NoState /\ \A r \in Repos : Present(r) /\ branch[r] = state[r]
    \/ state # NoState /\ \A r \in Repos : Absent(r) /\ branch[r] = state[r]
    \/ /\ state = NoState
       /\ \A r \in Repos :
             Absent(r) /\ branch[r] = IF r \in baselines THEN "base" ELSE "none"

\* Between commands, when nobody else interfered, no process was killed, no
\* command asked for repair and no Git command failed after its effect, the
\* workspace is there or is not, over any sequence of commands, failed or not
\* (Create, Checkout, Remove, Delete and the runner below them).
NoPartialWorkspace ==
    lock = Nobody /\ moves = 0 /\ crashes = 0 /\ ~alert /\ (\A p \in Procs : ~proc[p].partial)
        => WholeOrGone

\* docs/spec/wtree.spec.md:939 has no exception for a Git command that fails
\* after its effect: a command should not leave a partially created workspace
\* unless rollback itself fails.
FailureLeavesNothing ==
    lock = Nobody /\ moves = 0 /\ crashes = 0 /\ ~alert => WholeOrGone

\* Once a recovery record exists no wtree command changes a branch, a worktree
\* or the state file: whoever held the lock when it was written is done, and
\* whoever planned before that is refused.
RecoveryBlocks ==
    [][recovery # NoRecovery /\ moves' = moves => UNCHANGED <<world, files>>]_vars

\* Edits the user has not committed are discarded only by a removal that planned,
\* under the lock, to force that repository.
UncommittedWorkSurvives ==
    [][\A r \in Repos :
          tree[r].dirt = "user" /\ tree'[r].dirt # "user" /\ moves' = moves
          => \E p \in Procs : lock = p /\ proc[p].plan[r].force]_vars

\* Commits of the user are never dropped with their branch, unless by a delete
\* with --force that planned, under the lock, to force that branch.
CommittedWorkSurvives ==
    [][\A r \in Repos :
          branch[r] = "user" /\ branch'[r] = "none"
          => \E p \in Procs :
                lock = p /\ proc[p].force /\ proc[p].plan[r].drop = "forced"]_vars

\* The same of checkout, remove and delete, which compare the branch they drop
\* with what they planned (delete.go:206); the rollback of a create does not.
RemovalKeepsCommits ==
    [][\A r \in Repos :
          branch[r] = "user" /\ branch'[r] = "none"
          => \E p \in Procs :
                /\ lock = p
                /\ \/ proc[p].op = "create"
                   \/ proc[p].force /\ proc[p].plan[r].drop = "forced"]_vars

\* A baseline branch a workspace is named after is never deleted.
BaselineSurvives == [][\A r \in baselines : branch'[r] # "none"]_vars

\* Every command ends and lets go of the lock.
Terminates == \A p \in Procs : ~At(p, "idle") ~> At(p, "idle")
=============================================================================
