---------------------------- MODULE CompanionUpdate ----------------------------
(***************************************************************************)
(* wtree companion update (companion_update.go) and the fast-forwards of   *)
(* internal/git/aggregate.go it is made of.                                *)
(*                                                                         *)
(* One companion repository: a baseline branch, and in every workspace a   *)
(* checkout whose state file records its head.  The command plans without  *)
(* a lock, revalidates under it, fetches, moves the baseline, and then the *)
(* workspaces one after the other.  A checkout is moved in three steps:    *)
(* the branch by compare-and-swap, the files, a last look.  A user works   *)
(* in the checkouts, and edits state files, between any two of them.       *)
(*                                                                         *)
(* A commit is an element of a constant tree; a state file is the head it  *)
(* records.                                                                *)
(***************************************************************************)
EXTENDS Naturals, Sequences, FiniteSets

CONSTANTS
    Order,              \* the workspaces in the order of the inventory
    Base,               \* the baseline branch, and the entry that stands for it
    Commits, Parent,    \* history: [Commits -> Commits \cup {None}]
    Old, Fetched,       \* the planned baseline head and what the fetch may bring
    UserCommits,        \* commits that do not exist yet
    None,
    MaxCommands, MaxFaults, MaxCrashes, MaxMoves    \* bounds of the exploration

Workspaces == {Order[i] : i \in 1..Len(Order)}

ASSUME CompanionAssumption ==
    /\ Base \notin Workspaces /\ None \notin Workspaces \cup Commits \cup {Base}
    /\ \A named \in SUBSET {"ref", "worktree", "state"} : named # None
    /\ Old \in Commits /\ Fetched \subseteq Commits /\ UserCommits \subseteq Commits

VARIABLES
    owner,      \* the workspace whose recorded branch is the baseline, or None
    upstream,   \* what the fetch finds
    config,     \* generation of the configuration and the manifest
    ref,        \* local branches
    tree,       \* checkouts
    state,      \* state files: the recorded head
    record,     \* recovery records: what they name as not reverted, or None
    plan,       \* what Plan captured, or None
    job,        \* the step the command is at
    entries,    \* what the command reports of each entry
    canceled,   \* the context is canceled
    touched,    \* ghost: what others changed since Plan
    lost,       \* ghost: a recovery record could not be written
    commands, faults, crashes, moves

world == <<owner, upstream, config>>
git == <<ref, tree>>
counters == <<commands, faults, crashes, moves>>
vars == <<world, git, state, record, plan, job, entries, canceled, touched, lost, counters>>

Entries == Workspaces \cup {Base}
Branch(w) == IF w = owner THEN Base ELSE w

\* at: the commit the index and the files are of; on: what HEAD is attached to.
Tree == [at: Commits \cup {"partial"}, on: {"branch", "baseline", "other"},
         dirty: BOOLEAN, there: BOOLEAN]

Unsettled == [status |-> "none", action |-> "none", incomplete |-> FALSE]
Settled == [status: {"completed", "failed", "canceled"},
            action: {"none", "unchanged", "fast-forward"}, incomplete: BOOLEAN]

\* held: the baseline is checked out, and its owner is settled with it.  moved: a
\* receipt of a fast-forward is held.  back: it is being restored.
Idle == [pc |-> "idle", cur |-> None, from |-> None, to |-> None, held |-> FALSE,
         moved |-> FALSE, back |-> FALSE, replaced |-> FALSE, installed |-> FALSE,
         stateErr |-> FALSE, refErr |-> FALSE, stopped |-> FALSE]

Ended == {"idle", "ended", "refused", "dead"}

TypeOK ==
    /\ owner \in Workspaces \cup {None} /\ upstream \in Fetched /\ config \in 0..1
    /\ ref \in [Entries -> Commits] /\ tree \in [Workspaces -> Tree]
    /\ state \in [Workspaces -> Commits \cup {"invalid", "theirs"}]
    /\ record \in [Entries -> (SUBSET {"ref", "worktree", "state"}) \cup {None}]
    /\ entries \in [Entries -> Settled \cup {Unsettled}]
    /\ canceled \in BOOLEAN /\ lost \in BOOLEAN /\ touched \subseteq Entries

\* The history of b: what is in everything that has b and the parents of what it has.
Ancestors == [b \in Commits |->
    {a \in Commits : \A within \in SUBSET Commits :
        b \in within /\ (\A c \in within : Parent[c] \in within \cup {None}) => a \in within}]
IsAncestor(a, b) == a \in Ancestors[b]

\* What does not exist yet is not in the history of what does.
ASSUME HistoryAssumption ==
    /\ {"partial", "invalid", "theirs"} \cap Commits = {}
    /\ \A c \in UserCommits : \A known \in Fetched \cup {Old} : ~IsAncestor(c, known)

\* A checkout of the companion as its creation leaves it; an invalid state file
\* may lie between the others.
Init ==
    /\ owner \in Workspaces \cup {None} /\ upstream \in Fetched /\ config = 0
    /\ ref = [e \in Entries |-> Old]
    /\ tree = [w \in Workspaces |-> [at |-> Old, on |-> "branch", dirty |-> FALSE, there |-> TRUE]]
    /\ state \in {s \in [Workspaces -> {Old, "invalid"}] :
                     \A v, w \in Workspaces : s[v] = "invalid" /\ s[w] = "invalid" => v = w}
    /\ record = [e \in Entries |-> None]
    /\ plan = None /\ job = Idle /\ entries = [e \in Entries |-> Unsettled]
    /\ canceled = FALSE /\ touched = {} /\ lost = FALSE
    /\ commands = 0 /\ faults = 0 /\ crashes = 0 /\ moves = 0

--------------------------------------------------------------------------------
(* What the actions are made of.                                           *)

At(pc) == job.pc = pc
Same == UNCHANGED counters
Fault == faults < MaxFaults /\ faults' = faults + 1 /\ UNCHANGED <<commands, crashes, moves>>
\* A command run under the canceled context fails; it may also just be through.
Broken == Fault \/ (canceled /\ Same)

Goto(pc) == job' = [job EXCEPT !.pc = pc]
End(how) == job' = [Idle EXCEPT !.pc = how, !.held = job.held]
Settle(e, status, action, incomplete) ==
    entries' = [entries EXCEPT ![e] = [status |-> status, action |-> action, incomplete |-> incomplete]]

\* The checkout that is moved, and the branch it must be on.
Checkout == IF job.cur = Base THEN owner ELSE job.cur
Moved == IF job.cur = Base THEN Base ELSE Branch(job.cur)

\* assertAttachedBranchHead, worktreeMatchesCommit.
Attached(w, commit) == tree[w].there /\ tree[w].on = "branch" /\ ref[Branch(w)] = commit
Matches(w, commit) == tree[w].at = commit /\ ~tree[w].dirty
Clean(w) == Matches(w, ref[Branch(w)])

\* git worktree list: any worktree attached to the baseline.
BaselineCheckedOut == \/ owner # None /\ tree[owner].on = "branch"
                      \/ \E w \in Workspaces : tree[w].on = "baseline"

--------------------------------------------------------------------------------
(* Plan and the checks under the lock.                                     *)

Valid(w) == plan.state[w] # "invalid"

\* A valid workspace that was absent when planned is outside the operation.
Skipped(w) == Valid(w) /\ ~plan.present[w]

Plan ==
    /\ job.pc \in Ended /\ commands < MaxCommands
    /\ commands' = commands + 1 /\ UNCHANGED <<faults, crashes, moves>>
    /\ plan' = [head |-> ref[Base], config |-> config, state |-> state,
                present |-> [w \in Workspaces |-> tree[w].there], ref |-> ref, tree |-> tree]
    /\ job' = [Idle EXCEPT !.pc = "planned"]
    /\ entries' = [e \in Entries |-> Unsettled]
    /\ canceled' = FALSE /\ touched' = {} /\ lost' = FALSE
    /\ UNCHANGED <<world, git, state, record>>

\* hasCompanionUpdateProjectRecovery: a record of a known workspace is a local
\* fact; any other one, that of the baseline among them, stops the command.
ProjectRecovery == record[Base] # None \/ \E w \in Workspaces : record[w] # None /\ ~Valid(w)

\* revalidatePlan
StillPlanned == config = plan.config /\ state = plan.state /\ ref[Base] = plan.head

Revalidate ==
    /\ At("planned")
    /\ \/ ~ProjectRecovery /\ StillPlanned /\ Same /\ Goto("fetch")
       \/ (ProjectRecovery \/ ~StillPlanned) /\ Same /\ End("refused")
       \/ Broken /\ End("refused")
    /\ UNCHANGED <<world, git, state, record, plan, entries, canceled, touched, lost>>

\* FetchConfiguredRef moves the tracking ref, which is nobody's work, and
\* nothing else.
Fetch ==
    /\ At("fetch")
    /\ \/ Same /\ Goto("baseline") /\ UNCHANGED entries
       \/ Broken /\ End("ended") /\ Settle(Base, "failed", "none", FALSE)
    /\ UNCHANGED <<world, git, state, record, plan, canceled, touched, lost>>

--------------------------------------------------------------------------------
(* The baseline.                                                           *)

Target == upstream

\* activeBaselineOwner: exactly one valid workspace is on the baseline.
HasOwner == owner # None /\ Valid(owner) /\ tree[owner].there /\ tree[owner].on = "branch"

\* The owner's state file, recovery record, files and head are as planned.
OwnerIsReady ==
    /\ state[owner] = plan.state[owner] /\ record[owner] = None
    /\ Clean(owner)
    /\ ref[Base] = plan.head
    /\ state[owner] \in Commits /\ IsAncestor(state[owner], ref[Base])

Enter(cur, from, to, held, pc) ==
    job' = [Idle EXCEPT !.pc = pc, !.cur = cur, !.from = from, !.to = to, !.held = held]

BaselineIsHeld ==
    /\ BaselineCheckedOut
    /\ \/ HasOwner /\ OwnerIsReady /\ Same
          /\ Enter(Base, plan.head, Target, TRUE, IF plan.head = Target THEN "decide" ELSE "forward")
          /\ UNCHANGED entries
       \/ ~(HasOwner /\ OwnerIsReady) /\ Same /\ End("ended") /\ Settle(Base, "failed", "none", FALSE)
       \/ Broken /\ End("ended") /\ Settle(Base, "failed", "none", FALSE)

BaselineIsFree ==
    /\ ~BaselineCheckedOut
    /\ Enter(Base, plan.head, Target, FALSE, IF plan.head = Target THEN "emit" ELSE "forwardRef")
    /\ IF plan.head = Target THEN Settle(Base, "completed", "unchanged", FALSE) ELSE UNCHANGED entries
    /\ Same

\* BranchCheckedOut itself fails: an error and no result.
Baseline ==
    /\ At("baseline")
    /\ \/ BaselineIsHeld
       \/ BaselineIsFree
       \/ Broken /\ End("refused") /\ UNCHANGED entries
    /\ UNCHANGED <<world, git, state, record, plan, canceled, touched, lost>>

\* FastForwardRef up to its compare-and-swap.  An error of git update-ref comes
\* without a receipt, and counts as no effect even where a killed one had moved
\* the branch.
ForwardRef ==
    /\ At("forwardRef")
    /\ LET owned == ~BaselineCheckedOut /\ ref[Base] = job.from /\ IsAncestor(job.from, job.to)
           there == [ref EXCEPT ![Base] = job.to]
       IN \/ owned /\ Same /\ ref' = there /\ UNCHANGED entries
             /\ job' = [job EXCEPT !.pc = "confirmRef", !.moved = TRUE]
          \/ ~owned /\ Same /\ UNCHANGED ref
             /\ Settle(Base, "failed", "none", FALSE) /\ End("ended")
          \/ Broken /\ ref' \in {ref, IF owned THEN there ELSE ref}
             /\ Settle(Base, "failed", "none", FALSE) /\ End("ended")
    /\ UNCHANGED <<world, tree, state, record, plan, canceled, touched, lost>>

\* A worktree attached to the branch meanwhile keeps the old files: the ref is
\* not moved back below it, and the receipt comes with an error.
ConfirmRef ==
    /\ At("confirmRef")
    /\ \/ ~BaselineCheckedOut /\ ~canceled /\ Same
          /\ Settle(Base, "completed", "fast-forward", FALSE) /\ Goto("emit")
       \/ (BaselineCheckedOut \/ canceled) /\ Same
          /\ job' = [job EXCEPT !.pc = "record", !.refErr = TRUE] /\ UNCHANGED entries
       \/ Fault
          /\ job' = [job EXCEPT !.pc = "record", !.refErr = TRUE] /\ UNCHANGED entries
    /\ UNCHANGED <<world, git, state, record, plan, canceled, touched, lost>>

--------------------------------------------------------------------------------
(* The loop over the entries.                                              *)

\* Still to be reported: not the owner of a baseline that is checked out, and
\* not a workspace that was absent when planned.
Later == {w \in Workspaces : /\ entries[w].status = "none" /\ ~Skipped(w)
                             /\ ~(job.held /\ w = owner)}

\* companionCanceledEntries
CancelRest ==
    entries' = [e \in Entries |->
        IF e \notin Later THEN entries[e]
        ELSE [status |-> IF Valid(e) THEN "canceled" ELSE "failed",
              action |-> "none", incomplete |-> FALSE]]

\* Progress, the output of a settled entry.
Emit ==
    /\ At("emit")
    /\ \/ Goto("next") /\ Same /\ UNCHANGED entries
       \/ Fault /\ CancelRest /\ End("ended")
    /\ UNCHANGED <<world, git, state, record, plan, canceled, touched, lost>>

NextEntry ==
    /\ At("next")
    /\ \/ Later = {} /\ End("ended") /\ UNCHANGED entries
       \/ Later # {} /\ canceled /\ CancelRest /\ End("ended")
       \/ /\ Later # {} /\ ~canceled /\ UNCHANGED entries
          /\ \E i \in 1..Len(Order) :
                /\ Order[i] \in Later /\ \A j \in 1..(i - 1) : Order[j] \notin Later
                /\ Enter(Order[i], None, None, job.held, "check")
    /\ UNCHANGED <<world, git, state, record, plan, canceled, touched, lost, counters>>

\* updateWorkspace, up to its first change: state file, path, branch, files,
\* recovery record, and a head that descends from the recorded one.
WorkspaceIsReady(w) ==
    /\ Valid(w) /\ state[w] = plan.state[w] /\ state[w] \in Commits
    /\ tree[w].there /\ tree[w].on = "branch" /\ Clean(w)
    /\ record[w] = None
    /\ IsAncestor(state[w], ref[Branch(w)])

Check ==
    /\ At("check")
    /\ LET w == job.cur
           head == ref[Branch(w)]
           behind == head # Target /\ IsAncestor(head, Target)
           ready == WorkspaceIsReady(w) /\ (behind \/ IsAncestor(Target, head))
       IN \/ ready /\ behind /\ Same /\ UNCHANGED entries
             /\ Enter(w, head, Target, job.held, "forward")
          \/ ready /\ ~behind /\ Same /\ UNCHANGED entries
             /\ Enter(w, head, head, job.held, "decide")
          \/ ~ready /\ Same /\ Settle(w, "failed", "none", FALSE) /\ Goto("emit")
          \/ Broken /\ Settle(w, "failed", "none", FALSE) /\ Goto("emit")
    /\ UNCHANGED <<world, git, state, record, plan, canceled, touched, lost>>

--------------------------------------------------------------------------------
(* FastForward and RestoreFastForward of a checkout, step by step.         *)

\* The commits the transition goes from and to; restoring swaps them.
Source == IF job.back THEN job.to ELSE job.from
Goal == IF job.back THEN job.from ELSE job.to

\* Restoring runs without the cancellation.
Breaks == IF job.back THEN Fault ELSE Broken

\* assertOwnedBranchGeneration, assertAncestor and the compare-and-swap.  A
\* killed git update-ref may have moved the branch.
Forward ==
    /\ At("forward")
    /\ LET owned == Attached(Checkout, job.from) /\ Matches(Checkout, job.from)
                    /\ IsAncestor(job.from, job.to)
           there == [ref EXCEPT ![Moved] = job.to]
       IN \/ owned /\ Same /\ ref' = there /\ Goto("files")
          \/ ~owned /\ Same /\ UNCHANGED ref /\ Goto("forwardFailed")
          \/ Broken /\ ref' \in {ref, IF owned THEN there ELSE ref} /\ Goto("forwardFailed")
    /\ UNCHANGED <<world, tree, state, record, plan, entries, canceled, touched, lost>>

Failed == IF job.back THEN "backFailed" ELSE "forwardFailed"

\* Mutant: the files are taken over whatever they hold.
FilesForced ==
    /\ At("files")
    /\ \/ /\ Attached(Checkout, Goal) /\ Same
          /\ tree' = [tree EXCEPT ![Checkout].at = Goal, ![Checkout].dirty = FALSE]
          /\ Goto("look")
       \/ ~Attached(Checkout, Goal) /\ Same /\ UNCHANGED tree /\ Goto("cleanup")
    /\ UNCHANGED <<world, ref, state, record, plan, entries, canceled, touched, lost>>

\* The two-tree merge of the index and the files, while they still are what they
\* were.  Killed, it leaves some of both.
Files ==
    /\ At("files")
    /\ LET exact == Attached(Checkout, Goal) /\ Matches(Checkout, Source) IN
       \/ exact /\ Same /\ tree' = [tree EXCEPT ![Checkout].at = Goal] /\ Goto("look")
       \/ ~exact /\ Same /\ UNCHANGED tree /\ Goto("cleanup")
       \/ exact /\ Breaks /\ Goto("cleanup")
          /\ tree' \in {tree, [tree EXCEPT ![Checkout].at = "partial"]}
    /\ UNCHANGED <<world, ref, state, record, plan, entries, canceled, touched, lost>>

\* cleanupFailedTransition: the branch goes back only below files that did not
\* move, and only from where this transition put it.
Cleanup ==
    /\ At("cleanup")
    /\ LET owned == Attached(Checkout, Goal) /\ Matches(Checkout, Source)
           back == [ref EXCEPT ![Moved] = Source]
       IN \/ Same /\ ref' = IF owned THEN back ELSE ref
          \/ Fault /\ ref' \in {ref, IF owned THEN back ELSE ref}
    /\ Goto(Failed)
    /\ UNCHANGED <<world, tree, state, record, plan, entries, canceled, touched, lost>>

\* The last look: the checkout is attached, at the new commit, and clean.
Look ==
    /\ At("look")
    /\ LET owned == Attached(Checkout, Goal) /\ Matches(Checkout, Goal) IN
       \/ owned /\ Same
          /\ job' = [job EXCEPT !.pc = IF job.back THEN "restored" ELSE "decide", !.moved = ~job.back]
       \/ ~owned /\ Same /\ Goto(Failed)
       \/ Breaks /\ Goto(Failed)
    /\ UNCHANGED <<world, git, state, record, plan, entries, canceled, touched, lost>>

--------------------------------------------------------------------------------
(* The outcome of one entry.                                               *)

\* An entry that is settled without residue; a failed baseline ends the command.
Report(status, action) ==
    /\ Settle(job.cur, status, action, FALSE)
    /\ IF job.cur = Base /\ status # "completed" THEN End("ended") ELSE Goto("emit")

Action == IF job.from = job.to THEN "unchanged" ELSE "fast-forward"

\* Mutant: a failed fast-forward did nothing.
ForwardFailedClean ==
    /\ At("forwardFailed")
    /\ Same /\ Report("failed", "none")
    /\ UNCHANGED <<world, git, state, record, plan, canceled, touched, lost>>

\* companionForwardReceiptAfterError: only the old branch head proves that
\* nothing was done.
ForwardFailed ==
    /\ At("forwardFailed")
    /\ \/ ref[Moved] = job.from /\ Same /\ Report("failed", "none")
       \/ ref[Moved] # job.from /\ Same /\ UNCHANGED entries
          /\ job' = [job EXCEPT !.pc = "record", !.refErr = TRUE]
       \/ Fault /\ UNCHANGED entries
          /\ job' = [job EXCEPT !.pc = "record", !.refErr = TRUE]
    /\ UNCHANGED <<world, git, state, record, plan, canceled, touched, lost>>

\* After the fast-forward, or without one: the cancellation is looked at.
Decide ==
    /\ At("decide")
    /\ \/ ~canceled /\ Goto("publish") /\ UNCHANGED entries
       \/ canceled /\ job.moved /\ UNCHANGED entries
          /\ job' = [job EXCEPT !.pc = "back", !.stopped = TRUE]
       \/ canceled /\ ~job.moved /\ Report("canceled", Action)
    /\ UNCHANGED <<world, git, state, record, plan, canceled, touched, lost, counters>>

\* publishCompanionHead: compare with the planned state file, and replace it.  The
\* write may fail before or after the replacement.
Publish ==
    /\ At("publish")
    /\ LET next == [state EXCEPT ![Checkout] = job.to]
           fails(replaced) == job' = [job EXCEPT !.pc = "readback", !.replaced = replaced]
       IN \/ /\ state[Checkout] = plan.state[Checkout] /\ Same
             /\ state' = next /\ Report("completed", Action)
          \/ /\ state[Checkout] # plan.state[Checkout] /\ Same
             /\ UNCHANGED <<state, entries>> /\ fails(FALSE)
          \/ /\ state[Checkout] = plan.state[Checkout] /\ Fault /\ UNCHANGED entries
             /\ \/ state' = state /\ fails(FALSE)
                \/ state' = next /\ fails(TRUE)
    /\ UNCHANGED <<world, git, record, plan, canceled, touched, lost>>

\* What the failed write did: the attempted bytes are its receipt, the prior ones
\* without a replacement the proof of no effect; anything else is not ours.
Readback ==
    /\ At("readback")
    /\ LET installed == state[Checkout] = job.to
           uncertain == ~installed /\ (job.replaced \/ state[Checkout] # plan.state[Checkout])
       IN \/ Same /\ job' = [job EXCEPT !.pc = "restoreState", !.installed = installed, !.stateErr = uncertain]
          \/ Fault /\ job' = [job EXCEPT !.pc = "restoreState", !.stateErr = TRUE]
    /\ UNCHANGED <<world, git, state, record, plan, entries, canceled, touched, lost>>

\* restoreCompanionPublishedState
RestoreState ==
    /\ At("restoreState")
    /\ LET own == job.installed /\ ~job.stateErr
           prior == [state EXCEPT ![Checkout] = plan.state[Checkout]]
       IN \/ ~own /\ Same /\ UNCHANGED state /\ Goto("stateSettled")
          \/ own /\ state[Checkout] = job.to /\ Same /\ state' = prior /\ Goto("stateSettled")
          \/ own /\ (Fault \/ (state[Checkout] # job.to /\ Same))
             /\ state' \in {state, IF state[Checkout] = job.to THEN prior ELSE state}
             /\ \E unseen \in BOOLEAN :
                   job' = [job EXCEPT !.pc = "stateSettled",
                                      !.stateErr = unseen \/ state'[Checkout] # plan.state[Checkout]]
    /\ UNCHANGED <<world, git, record, plan, entries, canceled, touched, lost>>

\* The state file is behind us; a fast-forward is restored next.
StateSettled ==
    /\ At("stateSettled")
    /\ \/ job.moved /\ Goto("back") /\ UNCHANGED entries
       \/ ~job.moved /\ job.stateErr /\ Goto("record") /\ UNCHANGED entries
       \/ ~job.moved /\ ~job.stateErr /\ Report("failed", Action)
    /\ UNCHANGED <<world, git, state, record, plan, canceled, touched, lost, counters>>

\* RestoreFastForward
Back ==
    /\ At("back")
    /\ LET there == [ref EXCEPT ![Moved] = job.from]
           owned == Attached(Checkout, job.to) /\ Matches(Checkout, job.to)
       IN \/ owned /\ Same /\ ref' = there /\ job' = [job EXCEPT !.pc = "files", !.back = TRUE]
          \/ ~owned /\ Same /\ UNCHANGED ref /\ Goto("backFailed")
          \/ Fault /\ ref' \in {ref, IF owned THEN there ELSE ref} /\ Goto("backFailed")
    /\ UNCHANGED <<world, tree, state, record, plan, entries, canceled, touched, lost>>

\* canceled: nothing was published, the command just stops.
Restored ==
    /\ At("restored")
    /\ \/ job.stateErr /\ Goto("record") /\ UNCHANGED entries
       \/ ~job.stateErr /\ Report(IF job.stopped THEN "canceled" ELSE "failed", "none")
    /\ UNCHANGED <<world, git, state, record, plan, canceled, touched, lost, counters>>

BackFailed ==
    /\ At("backFailed")
    /\ job' = [job EXCEPT !.pc = "record", !.refErr = TRUE]
    /\ UNCHANGED <<world, git, state, record, plan, entries, canceled, touched, lost, counters>>

--------------------------------------------------------------------------------
(* The recovery record.                                                    *)

\* recordCompanionStatePublicationRecovery goes by the workspace,
\* recordCompanionRecovery by the entry.
RecordId == IF job.stateErr THEN Checkout ELSE job.cur

\* Mutant: only the first residue is recorded.
ResidueFirst == IF job.stateErr THEN {"state"} ELSE IF ref[Moved] = job.to THEN {"ref"} ELSE {"worktree"}

\* A branch is named as ours only where this command put it; otherwise the index
\* and the files may be.
Residue == (IF job.stateErr THEN {"state"} ELSE {})
           \cup (IF ~job.refErr THEN {} ELSE IF ref[Moved] = job.to THEN {"ref"} ELSE {"worktree"})

\* An existing record is not replaced.  The entry is settled, and no other one is
\* touched after it.
Record ==
    /\ At("record")
    /\ LET written == [record EXCEPT ![RecordId] = Residue]
           unseen == [record EXCEPT ![RecordId] = (Residue \ {"ref"}) \cup {"worktree"}]
       IN \/ record[RecordId] = None /\ Same /\ record' = written /\ UNCHANGED lost
          \/ record[RecordId] # None /\ Same /\ UNCHANGED record /\ lost' = TRUE
          \/ record[RecordId] = None /\ Fault /\ record' \in {record, written} /\ lost' = TRUE
          \/ record[RecordId] = None /\ job.refErr /\ Fault /\ record' = unseen /\ UNCHANGED lost
    /\ entries' = [e \in Entries |->
           CASE e = job.cur -> [status |-> "failed", action |-> Action, incomplete |-> TRUE]
             [] e # job.cur /\ job.cur # Base /\ e \in Later ->
                  [status |-> IF Valid(e) THEN "canceled" ELSE "failed", action |-> "none", incomplete |-> FALSE]
             [] OTHER -> entries[e]]
    /\ End("ended")
    /\ UNCHANGED <<world, git, state, plan, canceled, touched>>

Step ==
    \/ Revalidate \/ Fetch \/ Baseline \/ ForwardRef \/ ConfirmRef
    \/ Emit \/ NextEntry \/ Check
    \/ Forward \/ Files \/ Cleanup \/ Look \/ ForwardFailed
    \/ Decide \/ Publish \/ Readback \/ RestoreState \/ StateSettled
    \/ Back \/ Restored \/ BackFailed \/ Record

--------------------------------------------------------------------------------
(* The environment.                                                        *)

Cancel ==
    /\ job.pc \notin Ended /\ ~canceled /\ Fault
    /\ canceled' = TRUE
    /\ UNCHANGED <<world, git, state, record, plan, job, entries, touched, lost>>

\* A killed wtree.  Its lock goes, and nobody undoes what it did.
Crash ==
    /\ job.pc \notin Ended /\ crashes < MaxCrashes
    /\ crashes' = crashes + 1 /\ UNCHANGED <<commands, faults, moves>>
    /\ End("dead")
    /\ UNCHANGED <<world, git, state, record, plan, entries, canceled, touched, lost>>

Move(others) ==
    /\ moves < MaxMoves /\ moves' = moves + 1
    /\ touched' = touched \cup others
    /\ UNCHANGED <<owner, upstream, record, plan, job, entries, canceled, lost, commands, faults, crashes>>

Of(w) == {w, Branch(w)}

\* git commit -a
UserCommit(w) ==
    /\ Move(Of(w)) /\ tree[w].there /\ tree[w].on = "branch"
    /\ \E c \in UserCommits :
          /\ Parent[c] = ref[Branch(w)] /\ \A e \in Entries : ref[e] # c
          /\ ref' = [ref EXCEPT ![Branch(w)] = c]
          /\ tree' = [tree EXCEPT ![w].at = c, ![w].dirty = FALSE]
    /\ UNCHANGED <<state, config>>

UserEdits(w) ==
    /\ Move(Of(w)) /\ tree[w].there /\ ~tree[w].dirty
    /\ tree' = [tree EXCEPT ![w].dirty = TRUE]
    /\ UNCHANGED <<ref, state, config>>

\* git switch, to another branch or to a baseline nobody has checked out.
UserSwitches(w) ==
    /\ Move(Of(w) \cup {Base}) /\ tree[w].there /\ tree[w].on = "branch" /\ Clean(w)
    /\ \/ tree' = [tree EXCEPT ![w].on = "other"]
       \/ ~BaselineCheckedOut /\ tree' = [tree EXCEPT ![w].on = "baseline", ![w].at = ref[Base]]
    /\ UNCHANGED <<ref, state, config>>

UserDeletes(w) ==
    /\ Move(Of(w)) /\ tree[w].there
    /\ tree' = [tree EXCEPT ![w].there = FALSE]
    /\ UNCHANGED <<ref, state, config>>

\* An editor, or an older wtree, replaces the state file.
UserEditsState(w) ==
    /\ Move({w}) /\ state[w] # "theirs"
    /\ state' = [state EXCEPT ![w] = "theirs"]
    /\ UNCHANGED <<git, config>>

UserEditsConfig ==
    /\ Move({}) /\ config' = 1 - config
    /\ UNCHANGED <<git, state>>

UserActs ==
    \/ \E w \in Workspaces : UserCommit(w) \/ UserEdits(w) \/ UserSwitches(w)
                              \/ UserDeletes(w) \/ UserEditsState(w)
    \/ UserEditsConfig

Next == Plan \/ Step \/ Cancel \/ Crash \/ UserActs

\* A Git command, a write and the caller's Progress return.
Spec == Init /\ [][Next]_vars /\ WF_vars(Step)

--------------------------------------------------------------------------------
(* Properties.                                                             *)

\* A completed entry is whole: branch, files and state file agree, and have the
\* fetched baseline; so have those of a baseline that is checked out
\* (executeFetched, updateWorkspace).
CompletedIsWhole ==
    plan # None =>
    \A e \in Entries : entries[e].status = "completed" /\ e \notin touched =>
        /\ IsAncestor(Target, ref[IF e = Base THEN Base ELSE Branch(e)])
        /\ LET w == IF e = Base THEN owner ELSE e IN
           w # None /\ w \notin touched /\ (e = Base => Valid(w) /\ tree[w].on = "branch") =>
               Clean(w) /\ state[w] = ref[Branch(w)]

\* An entry that failed or was canceled, and does not say that its rollback is
\* incomplete, left nothing: branch, files and state file are as planned.  The
\* exception is the branch of a baseline nobody has checked out, see ForwardRef.
CleanFailureUndoes ==
    \A e \in Entries : entries[e].status \in {"failed", "canceled"} /\ ~entries[e].incomplete /\ e \notin touched =>
        /\ e = owner \/ (e = Base /\ ~job.held) \/ ref[e] = plan.ref[e]
        /\ LET w == IF e = Base THEN owner ELSE e IN
           w # None /\ w \notin touched => tree[w] = plan.tree[w] /\ state[w] = plan.state[w]

\* As written at companion_update.go:839-842 for the baseline: a movement is
\* never classified as no effect.
MovementIsSurfaced ==
    entries[Base].status = "failed" /\ entries[Base].action = "none" /\ Base \notin touched
        => ref[Base] = plan.ref[Base]

Named(e) == LET of(x) == IF x = None \/ record[x] = None THEN {} ELSE record[x] IN
            IF e = Base THEN of(Base) \cup (IF owner = None THEN {} ELSE of(owner)) ELSE of(e)

\* What an incomplete rollback leaves where this command put it is named by the
\* recovery record, also when it is there because of what the user did.
ResidueIsRecorded ==
    \A e \in Entries : entries[e].incomplete /\ ~lost =>
        /\ (ref[e] = Target /\ plan.ref[e] # Target => Named(e) \cap {"ref", "worktree"} # {})
        /\ LET w == IF e = Base THEN owner ELSE e IN w # None =>
             /\ (state[w] = Target /\ plan.state[w] # Target => "state" \in Named(e))
             /\ (tree[w].at \in {Target, "partial"} /\ tree[w].at # plan.tree[w].at /\ tree[w].on = "branch"
                  => Named(e) \cap {"ref", "worktree"} # {})

\* Whatever ends the command after the baseline, every workspace that was there
\* when planned is reported, none twice over, and no other (ExecutePlan).
ResultIsComplete ==
    At("ended") /\ entries[Base].status = "completed" =>
        \A w \in Workspaces : (entries[w].status = "none") <=> (Skipped(w) \/ (w = owner /\ job.held))

\* No step of the command drops a commit of the user, touches files with changes
\* in them, or replaces a state file that is not the planned one or its own.
TheirsSurvive ==
    [][Step => /\ \A e \in Entries, c \in UserCommits :
                     (IsAncestor(c, ref[e]) => IsAncestor(c, ref'[e]))
               /\ \A w \in Workspaces : /\ (tree'[w] # tree[w] => ~tree[w].dirty)
                                         /\ (state[w] = "theirs" => state'[w] = "theirs")]_vars

\* A recovery record keeps the command from what it is about: the checkout, its
\* own branch and its state file; that of a baseline keeps it from everything.
RecordBlocks ==
    [][Step => /\ (record[Base] # None => UNCHANGED <<ref, tree, state>>)
               /\ \A w \in Workspaces : (record[w] # None =>
                     tree'[w] = tree[w] /\ state'[w] = state[w] /\ ref'[w] = ref[w])]_vars

\* The command returns, so the project lock is let go.
Returns == At("planned") ~> (job.pc \in Ended)
================================================================================
