------------------------- MODULE WorkspaceLifecycleProofs -------------------------
(***************************************************************************)
(* Proofs about WorkspaceLifecycle, for every set of repositories, every   *)
(* nesting of them, and any number of wtree processes, faults, crashes and *)
(* user actions.                                                           *)
(*                                                                         *)
(* First, from IInv: the project lock excludes, and once a recovery record *)
(* exists no wtree command changes anything any more.  Both depend on one  *)
(* fact, and it is not the lock alone: a command that planned before the   *)
(* record was written may get the lock afterwards, and only its look at    *)
(* the record under the lock stops it.                                     *)
(*                                                                         *)
(* Then, from LInv: a command that fails has put back or named all that it *)
(* changed, one that succeeds did all of it, between commands the          *)
(* workspace is there or is not, and nothing the user has not asked to     *)
(* lose is lost.  The heart of LInv is Accounted: in each repository the   *)
(* user has not touched, a branch or worktree is as the command found it,  *)
(* or a step that will undo the change is still pending, or an unreverted  *)
(* step names it.  Which steps are pending is a matter of the step lists,  *)
(* so what FlattenSeq makes of a list of blocks is proved first, by        *)
(* induction over their number.                                            *)
(***************************************************************************)
EXTENDS WorkspaceLifecycle, WellFoundedInduction, TLAPS

\* Where a command changes the world, the state file or the recovery record.
Working == {"running", "cleanup", "rollback", "validate", "commit"}

\* A command's record keeps its program counter.
ProcOK ==
    /\ DOMAIN proc = Procs
    /\ \A p \in Procs : "pc" \in DOMAIN proc[p] /\ proc[p].pc \in Pcs

\* A command holds the lock exactly from AcquireLock to Unlock.
LockExcludes ==
    \A p \in Procs : proc[p].pc \notin {"idle", "planned"} <=> lock = p

\* No command works while there is a recovery record.
RecordStops ==
    recovery # NoRecovery => \A p \in Procs : proc[p].pc \notin Working

IInv ==
    /\ ProcOK
    /\ LockExcludes
    /\ RecordStops
    /\ moves \in Nat

\* Only process p moves, to the program counter pc.
Becomes(p, pc) ==
    /\ DOMAIN proc' = Procs
    /\ "pc" \in DOMAIN proc'[p] /\ proc'[p].pc = pc
    /\ \A q \in Procs \ {p} : proc'[q] = proc[q]

\* A step of a working command, which leaves lock and record alone.
WorkStep(p) ==
    /\ proc[p].pc \in Working
    /\ \E pc \in Working \cup {"reported"} : Becomes(p, pc)
    /\ UNCHANGED <<lock, recovery, moves>>

-----------------------------------------------------------------------------
(* What setting one process's record does                                   *)

LEMMA SetBecomes ==
    ASSUME ProcOK, NEW p \in Procs, NEW record, "pc" \in DOMAIN record, Set(p, record)
    PROVE  Becomes(p, record.pc)
BY DEF Set, Becomes, ProcOK

LEMMA WorkKeeps ==
    ASSUME IInv, NEW p \in Procs, WorkStep(p)
    PROVE  IInv'
<1>1. PICK pc \in Working \cup {"reported"} : Becomes(p, pc)
  BY DEF WorkStep
<1>2. \A q \in Procs \ {p} : proc'[q] = proc[q]
  BY <1>1 DEF Becomes
<1>3. ProcOK'
  BY <1>1, <1>2 DEF Becomes, IInv, ProcOK, Working, Pcs
<1>4. LockExcludes'
  BY <1>1, <1>2 DEF Becomes, WorkStep, IInv, LockExcludes, Working
<1>5. RecordStops'
  BY <1>1, <1>2 DEF Becomes, WorkStep, IInv, RecordStops
<1> QED BY <1>3, <1>4, <1>5 DEF IInv, WorkStep

\* The records a command's step may leave.
LEMMA RunnerRecords ==
    ASSUME ProcOK, NEW p \in Procs, NEW record,
           "pc" \in DOMAIN record, record.pc = "running",
           Succeed(p, record) \/ Fail(p, record)
    PROVE  \E pc \in Working : Becomes(p, pc)
<1>1. CASE Succeed(p, record)
  <2>1. Becomes(p, [record EXCEPT !.at = @ + 1].pc)
    BY <1>1, SetBecomes DEF Succeed
  <2> QED BY <2>1 DEF Working
<1>2. CASE Fail(p, record) /\ Step(p)[1] \in CleansUp
  <2>1. Becomes(p, [record EXCEPT !.pc = "cleanup"].pc)
    BY <1>2, SetBecomes DEF Fail
  <2> QED BY <2>1 DEF Working
<1>3. CASE Fail(p, record) /\ Step(p)[1] \notin CleansUp
  <2>1. Becomes(p, [record EXCEPT !.pc = "rollback", !.at = @ - 1].pc)
    BY <1>3, SetBecomes DEF Fail
  <2> QED BY <2>1 DEF Working
<1> QED BY <1>1, <1>2, <1>3

LEMMA UndoRecords ==
    ASSUME ProcOK, NEW p \in Procs, NEW record,
           "pc" \in DOMAIN record, Undone(p, record) \/ NotUndone(p, record)
    PROVE  \E pc \in Working : Becomes(p, pc)
<1>1. CASE Undone(p, record)
  <2>1. Becomes(p, [record EXCEPT !.pc = "rollback", !.at = @ - 1].pc)
    BY <1>1, SetBecomes DEF Undone
  <2> QED BY <2>1 DEF Working
<1>2. CASE NotUndone(p, record)
  <2> DEFINE named == [record EXCEPT !.unreverted = @ \cup {Step(p)}]
  <2>1. Becomes(p, [named EXCEPT !.pc = "rollback", !.at = @ - 1].pc)
    BY <1>2, SetBecomes DEF NotUndone, Undone
  <2> QED BY <2>1 DEF Working
<1> QED BY <1>1, <1>2

-----------------------------------------------------------------------------
(* Every step of a working command is a WorkStep                            *)

LEMMA ExecSteps ==
    ASSUME IInv, NEW p \in Procs,
           \/ ExecBranch(p) \/ ExecGroup(p) \/ ExecAdd(p) \/ ExecInspect(p)
           \/ ExecIgnore(p) \/ ExecRemove(p) \/ ExecDrop(p) \/ ExecUnstate(p)
    PROVE  WorkStep(p)
<1>1. /\ ProcOK /\ "pc" \in DOMAIN proc[p] /\ proc[p].pc = "running"
      /\ UNCHANGED <<lock, recovery, moves>>
  BY DEF IInv, ProcOK, Executing, At, StepFrame, userVars, ExecBranch, ExecGroup,
         ExecAdd, ExecInspect, ExecIgnore, ExecRemove, ExecDrop, ExecUnstate
<1>2. SUFFICES \E record : /\ "pc" \in DOMAIN record /\ record.pc = "running"
                           /\ Succeed(p, record) \/ Fail(p, record)
  BY <1>1, RunnerRecords DEF WorkStep, Working
<1>3. CASE ExecBranch(p)
  BY <1>1, <1>3 DEF ExecBranch, FailUntouched, Unnoticed
<1>4. CASE ExecGroup(p)
  BY <1>1, <1>4 DEF ExecGroup, FailUntouched, Unnoticed
<1>5. CASE ExecAdd(p)
  BY <1>1, <1>5 DEF ExecAdd, FailUntouched, Unnoticed
<1>6. CASE ExecInspect(p)
  BY <1>1, <1>6 DEF ExecInspect, FailUntouched
<1>7. CASE ExecIgnore(p)
  BY <1>1, <1>7 DEF ExecIgnore, FailUntouched
<1>8. CASE ExecRemove(p)
  BY <1>1, <1>8 DEF ExecRemove, FailUntouched
<1>9. CASE ExecDrop(p)
  BY <1>1, <1>9 DEF ExecDrop, FailUntouched
<1>10. CASE ExecUnstate(p)
  BY <1>1, <1>10 DEF ExecUnstate, FailUntouched
<1> QED BY <1>3, <1>4, <1>5, <1>6, <1>7, <1>8, <1>9, <1>10

LEMMA UndoSteps ==
    ASSUME IInv, NEW p \in Procs,
           \/ UndoBranch(p) \/ UndoGroup(p) \/ UndoAdd(p) \/ UndoNothing(p)
           \/ UndoRemove(p) \/ UndoDrop(p) \/ UndoUnstate(p)
    PROVE  WorkStep(p)
<1>1. /\ ProcOK /\ "pc" \in DOMAIN proc[p] /\ proc[p].pc \in Working
      /\ UNCHANGED <<lock, recovery, moves>>
  BY DEF IInv, ProcOK, Working, Undoing, StepFrame, userVars, UndoBranch, UndoGroup,
         UndoAdd, UndoNothing, UndoRemove, UndoDrop, UndoUnstate
<1>2. SUFFICES \E record : /\ "pc" \in DOMAIN record
                           /\ Undone(p, record) \/ NotUndone(p, record)
  BY <1>1, UndoRecords DEF WorkStep, Working
<1>3. CASE UndoBranch(p)
  BY <1>1, <1>3 DEF UndoBranch, UndoFails
<1>4. CASE UndoGroup(p)
  BY <1>1, <1>4 DEF UndoGroup, UndoFails, UndoIsIdle
<1>5. CASE UndoAdd(p)
  BY <1>1, <1>5 DEF UndoAdd, UndoFails, UndoIsIdle
<1>6. CASE UndoNothing(p)
  BY <1>1, <1>6 DEF UndoNothing, UndoIsIdle
<1>7. CASE UndoRemove(p)
  BY <1>1, <1>7 DEF UndoRemove, UndoFails, UndoIsIdle
<1>8. CASE UndoDrop(p)
  BY <1>1, <1>8 DEF UndoDrop, UndoFails, UndoIsIdle
<1>9. CASE UndoUnstate(p)
  BY <1>1, <1>9 DEF UndoUnstate, UndoFails, UndoIsIdle
<1> QED BY <1>3, <1>4, <1>5, <1>6, <1>7, <1>8, <1>9

LEMMA CommandSteps ==
    ASSUME IInv, NEW p \in Procs,
           \/ StopCanceled(p) \/ RunReturns(p) \/ Validate(p) \/ Commit(p)
           \/ CommitFails(p) \/ Cancel(p)
    PROVE  WorkStep(p)
<1>1. ProcOK /\ "pc" \in DOMAIN proc[p]
  BY DEF IInv, ProcOK
<1>2. CASE StopCanceled(p)
  <2>1. Becomes(p, [proc[p] EXCEPT !.pc = "rollback", !.at = @ - 1].pc)
    BY <1>1, <1>2, SetBecomes DEF StopCanceled
  <2> QED BY <1>1, <1>2, <2>1 DEF StopCanceled, WorkStep, Working, At, userVars, files
<1>3. CASE RunReturns(p)
  <2> DEFINE validating == [proc[p] EXCEPT !.pc = "validate"]
             done == [proc[p] EXCEPT !.pc = "reported", !.outcome = "ok"]
  <2>1. Set(p, validating) \/ Set(p, done)
    BY <1>3 DEF RunReturns
  <2>2. Becomes(p, validating.pc) \/ Becomes(p, done.pc)
    BY <1>1, <2>1, SetBecomes
  <2>3. \E pc \in {"validate", "reported"} : Becomes(p, pc)
    BY <1>1, <2>2
  <2> QED BY <1>3, <2>3 DEF RunReturns, WorkStep, Working, At, userVars, files
<1>4. CASE Validate(p)
  <2> DEFINE committing == [proc[p] EXCEPT !.pc = "commit"]
             undoing == [proc[p] EXCEPT !.pc = "rollback", !.at = @ - 1]
  <2>1. Set(p, committing) \/ Set(p, undoing)
    BY <1>4 DEF Validate
  <2>2. Becomes(p, committing.pc) \/ Becomes(p, undoing.pc)
    BY <1>1, <2>1, SetBecomes
  <2>3. \E pc \in {"commit", "rollback"} : Becomes(p, pc)
    BY <1>1, <2>2
  <2> QED BY <1>4, <2>3 DEF Validate, StepFrame, WorkStep, Working, At, userVars
<1>5. CASE Commit(p)
  <2>1. Becomes(p, [proc[p] EXCEPT !.pc = "reported", !.outcome = "ok"].pc)
    BY <1>1, <1>5, SetBecomes DEF Commit
  <2> QED BY <1>1, <1>5, <2>1 DEF Commit, StepFrame, WorkStep, Working, At, userVars
<1>6. CASE CommitFails(p)
  <2> DEFINE undoing == [proc[p] EXCEPT !.pc = "rollback", !.at = @ - 1]
             unwritten == [undoing EXCEPT !.unreverted = @ \cup {CommitState}]
  <2>1. Set(p, undoing) \/ Set(p, unwritten)
    BY <1>6 DEF CommitFails
  <2>2. Becomes(p, undoing.pc) \/ Becomes(p, unwritten.pc)
    BY <1>1, <2>1, SetBecomes
  <2>3. Becomes(p, "rollback")
    BY <1>1, <2>2
  <2> QED BY <1>6, <2>3 DEF CommitFails, StepFrame, WorkStep, Working, At, userVars
<1>7. CASE Cancel(p)
  <2>1. Becomes(p, [proc[p] EXCEPT !.canceled = TRUE].pc)
    BY <1>1, <1>7, SetBecomes DEF Cancel
  <2> QED BY <1>1, <1>7, <2>1 DEF Cancel, StepFrame, WorkStep, Working, At, userVars
<1> QED BY <1>2, <1>3, <1>4, <1>5, <1>6, <1>7

-----------------------------------------------------------------------------
(* The steps at either end of a command                                     *)

LEMMA EndSteps ==
    ASSUME IInv, NEW p \in Procs,
           \/ Start(p) \/ LockTimesOut(p) \/ AcquireLock(p) \/ Revalidate(p)
           \/ Finish(p) \/ Unlock(p) \/ Crash(p)
    PROVE  IInv'
<1>0. /\ ProcOK /\ "pc" \in DOMAIN proc[p] /\ "pc" \in DOMAIN Idle
      /\ "pc" \in DOMAIN Released(p) /\ Released(p).pc = "idle"
  BY DEF IInv, ProcOK, Idle, Released
<1>1. moves' \in Nat
  BY DEF IInv, Start, LockTimesOut, AcquireLock, Revalidate, Finish, Unlock, Crash,
         userVars
<1>2. SUFFICES ASSUME NEW pc \in Pcs, Becomes(p, pc),
                      \/ /\ pc = "planned" /\ proc[p].pc = "idle"
                         /\ UNCHANGED <<lock, recovery>>
                      \/ /\ pc = "idle" /\ proc[p].pc = "planned"
                         /\ UNCHANGED <<lock, recovery>>
                      \/ /\ pc = "locked" /\ proc[p].pc = "planned"
                         /\ lock = Nobody /\ lock' = p /\ UNCHANGED recovery
                      \/ /\ pc = "running" /\ proc[p].pc = "locked"
                         /\ recovery = NoRecovery /\ UNCHANGED <<lock, recovery>>
                      \/ /\ pc = "reported" /\ proc[p].pc \in {"locked", "rollback"}
                         /\ UNCHANGED lock
                         /\ proc[p].pc = "locked" => UNCHANGED recovery
                      \/ /\ pc = "idle"
                         /\ lock' = IF lock = p THEN Nobody ELSE lock
                         /\ UNCHANGED recovery
               PROVE  IInv'
  <2>1. CASE Start(p)
    <3>1. \E record : "pc" \in DOMAIN record /\ record.pc = "planned" /\ Set(p, record)
      BY <2>1, <1>0 DEF Start
    <3>2. Becomes(p, "planned")
      BY <3>1, <1>0, SetBecomes
    <3> QED BY <2>1, <3>2, <1>2 DEF Start, At, Pcs, files
  <2>2. CASE LockTimesOut(p)
    <3>1. Becomes(p, "idle")
      BY <2>2, <1>0, SetBecomes DEF LockTimesOut
    <3> QED BY <2>2, <3>1, <1>2 DEF LockTimesOut, At, Pcs, files
  <2>3. CASE AcquireLock(p)
    <3>1. Becomes(p, [proc[p] EXCEPT !.pc = "locked"].pc)
      BY <2>3, <1>0, SetBecomes DEF AcquireLock
    <3> QED BY <2>3, <3>1, <1>0, <1>2 DEF AcquireLock, At, Pcs, files
  <2>4. CASE Revalidate(p)
    <3> DEFINE receipts == IF proc[p].op \in {"remove", "delete"}
                           THEN [r \in Repos |-> tree[r].id]
                           ELSE Idle.receipt
               run == [proc[p] EXCEPT !.pc = "running", !.at = 1,
                                      !.receipt = receipts, !.prior = state,
                                      !.found = [branch |-> branch, tree |-> tree,
                                                 grouping |-> grouping]]
               refuse == [proc[p] EXCEPT !.pc = "reported", !.outcome = "refused"]
    <3>1. (Set(p, run) /\ StillPlanned(p)) \/ Set(p, refuse)
      BY <2>4, Zenon DEF Revalidate
    <3>2. /\ "pc" \in DOMAIN run /\ run.pc = "running"
          /\ "pc" \in DOMAIN refuse /\ refuse.pc = "reported"
      BY <1>0
    <3> HIDE DEF run, refuse
    <3>3. \/ Becomes(p, "running") /\ recovery = NoRecovery
          \/ Becomes(p, "reported")
      BY <3>1, <3>2, <1>0, SetBecomes DEF StillPlanned
    <3> QED BY <2>4, <3>3, <1>2 DEF Revalidate, At, Pcs, files
  <2>5. CASE Finish(p)
    <3>1. \E record : "pc" \in DOMAIN record /\ record.pc = "reported" /\ Set(p, record)
      BY <2>5, <1>0 DEF Finish
    <3>2. Becomes(p, "reported")
      BY <3>1, <1>0, SetBecomes
    <3> QED BY <2>5, <3>2, <1>2 DEF Finish, At, Pcs
  <2>6. CASE Unlock(p)
    <3>1. Becomes(p, "idle")
      BY <2>6, <1>0, SetBecomes DEF Unlock
    <3>2. lock = p
      BY <2>6 DEF Unlock, At, IInv, LockExcludes
    <3> QED BY <2>6, <3>1, <3>2, <1>2 DEF Unlock, At, Pcs, files
  <2>7. CASE Crash(p)
    <3>1. Becomes(p, "idle")
      BY <2>7, <1>0, SetBecomes DEF Crash
    <3> QED BY <2>7, <3>1, <1>2 DEF Crash, Pcs, files
  <2> QED BY <2>1, <2>2, <2>3, <2>4, <2>5, <2>6, <2>7
<1>3. \A q \in Procs \ {p} : proc'[q] = proc[q]
  BY <1>2 DEF Becomes
<1>4. ProcOK'
  BY <1>0, <1>2, <1>3 DEF Becomes, ProcOK
<1>5. LockExcludes'
  BY <1>2, <1>3, WorldAssumption DEF Becomes, IInv, LockExcludes
<1>6. RecordStops'
  BY <1>2, <1>3 DEF Becomes, IInv, RecordStops, LockExcludes, Working
<1> QED BY <1>1, <1>4, <1>5, <1>6 DEF IInv

\* The user changes only the world and counts it.
LEMMA UserKeeps ==
    ASSUME IInv, UserStep
    PROVE  IInv' /\ moves' # moves
<1>1. moves' = moves + 1
  BY DEF UserStep, UserActs, UserEdits, UserCommits, UserSwitches, UserDeletes,
         UserOccupies, UserCreatesBranch, UserMove
<1>2. UNCHANGED <<proc, lock, recovery>>
  BY DEF UserStep, files
<1> QED BY <1>1, <1>2 DEF IInv, ProcOK, LockExcludes, RecordStops

\* What a command's step is, by the phase of the command it belongs to.
LEMMA NextCases ==
    ASSUME Next
    PROVE  \/ UserStep
           \/ \E p \in Procs :
                 \/ ExecBranch(p) \/ ExecGroup(p) \/ ExecAdd(p) \/ ExecInspect(p)
                 \/ ExecIgnore(p) \/ ExecRemove(p) \/ ExecDrop(p) \/ ExecUnstate(p)
           \/ \E p \in Procs :
                 \/ UndoBranch(p) \/ UndoGroup(p) \/ UndoAdd(p) \/ UndoNothing(p)
                 \/ UndoRemove(p) \/ UndoDrop(p) \/ UndoUnstate(p)
           \/ \E p \in Procs :
                 \/ StopCanceled(p) \/ RunReturns(p) \/ Validate(p) \/ Commit(p)
                 \/ CommitFails(p) \/ Cancel(p)
           \/ \E p \in Procs :
                 \/ Start(p) \/ LockTimesOut(p) \/ AcquireLock(p) \/ Revalidate(p)
                 \/ Finish(p) \/ Unlock(p) \/ Crash(p)
BY DEF Next, Progress

LEMMA Begun == ASSUME Init PROVE IInv
<1>1. DOMAIN proc = Procs /\ \A p \in Procs : proc[p] = Idle
  BY DEF Init
<1>2. "pc" \in DOMAIN Idle /\ Idle.pc = "idle"
  BY DEF Idle
<1> QED BY <1>1, <1>2, WorldAssumption DEF Init, IInv, ProcOK, Pcs, LockExcludes, RecordStops

LEMMA NextKeeps == ASSUME IInv, Next PROVE IInv'
<1>1. ASSUME NEW p \in Procs, WorkStep(p) PROVE IInv'
  BY <1>1, WorkKeeps
<1> QED BY <1>1, NextCases, ExecSteps, UndoSteps, CommandSteps, EndSteps, UserKeeps

LEMMA InvariantHolds == Spec => []IInv
<1>1. Init => IInv
  BY Begun
<1>2. IInv /\ [Next]_vars => IInv'
  <2>1. ASSUME IInv, UNCHANGED vars PROVE IInv'
    BY <2>1 DEF vars, IInv, ProcOK, LockExcludes, RecordStops
  <2> QED BY <2>1, NextKeeps
<1> QED BY <1>1, <1>2, PTL DEF Spec

\* Two commands never hold the project lock, and none works without it, whoever
\* is killed when: what TypeOK says of lock and pc.
THEOREM LockIsExclusive ==
    Spec => [](\A p \in Procs : proc[p].pc \notin {"idle", "planned"} <=> lock = p)
<1>1. IInv => \A p \in Procs : proc[p].pc \notin {"idle", "planned"} <=> lock = p
  BY DEF IInv, LockExcludes
<1> QED BY <1>1, InvariantHolds, PTL

\* Once a recovery record exists no wtree command changes the repositories or
\* its files.
THEOREM RecoveryBlocksHolds == Spec => RecoveryBlocks
<1> DEFINE Blocked == recovery # NoRecovery /\ moves' = moves => UNCHANGED <<world, files>>
<1>1. IInv /\ [Next]_vars => [Blocked]_vars
  <2> SUFFICES ASSUME IInv, Next, recovery # NoRecovery, moves' = moves
               PROVE  UNCHANGED <<world, files>>
    BY Zenon
  <2>1. ASSUME NEW p \in Procs, proc[p].pc \in Working PROVE FALSE
    BY <2>1 DEF IInv, RecordStops
  <2>2. ASSUME NEW p \in Procs,
               \/ ExecBranch(p) \/ ExecGroup(p) \/ ExecAdd(p) \/ ExecInspect(p)
               \/ ExecIgnore(p) \/ ExecRemove(p) \/ ExecDrop(p) \/ ExecUnstate(p)
        PROVE  FALSE
    BY <2>2, <2>1, ExecSteps DEF WorkStep
  <2>3. ASSUME NEW p \in Procs,
               \/ UndoBranch(p) \/ UndoGroup(p) \/ UndoAdd(p) \/ UndoNothing(p)
               \/ UndoRemove(p) \/ UndoDrop(p) \/ UndoUnstate(p)
        PROVE  FALSE
    BY <2>3, <2>1, UndoSteps DEF WorkStep
  <2>4. ASSUME NEW p \in Procs,
               \/ StopCanceled(p) \/ RunReturns(p) \/ Validate(p) \/ Commit(p)
               \/ CommitFails(p) \/ Cancel(p)
        PROVE  FALSE
    BY <2>4, <2>1, CommandSteps DEF WorkStep
  <2>5. ASSUME NEW p \in Procs, Finish(p) PROVE FALSE
    BY <2>5, <2>1 DEF Finish, At, Working
  <2>6. ASSUME NEW p \in Procs,
               \/ Start(p) \/ LockTimesOut(p) \/ AcquireLock(p) \/ Revalidate(p)
               \/ Unlock(p) \/ Crash(p)
        PROVE  UNCHANGED <<world, files>>
    BY <2>6 DEF Start, LockTimesOut, AcquireLock, Revalidate, Unlock, Crash
  <2> QED BY <2>2, <2>3, <2>4, <2>5, <2>6, NextCases, UserKeeps
<1> QED BY <1>1, InvariantHolds, PTL DEF Spec, RecoveryBlocks

-----------------------------------------------------------------------------
(* Flattened sequences                                                      *)

\* Induction, over a set of natural numbers.
LEMMA NatSets ==
    ASSUME NEW G, 0 \in G, \A n \in Nat : n \in G => n + 1 \in G
    PROVE  Nat \subseteq G
<1> DEFINE R == {ss \in Nat \X Nat : ss[1] < ss[2]}
<1>1. \A x, y \in Nat : <<y, x>> \in R <=> y < x
  OBVIOUS
<1>2. IsWellFoundedOn(R, Nat)
  BY NatLessThanWellFounded DEF OpToRel
<1> HIDE DEF R
<1>3. SUFFICES ASSUME Nat \ G # {} PROVE FALSE
  OBVIOUS
<1>4. \E x \in Nat \ G : \A y \in Nat \ G : ~ (<<y, x>> \in R)
  BY <1>2, <1>3, WFMin
<1>5. PICK x \in Nat \ G : \A y \in Nat \ G : ~ (<<y, x>> \in R)
  BY <1>4
<1>6. x # 0 /\ x - 1 \in Nat /\ x - 1 < x /\ x - 1 + 1 = x
  BY <1>5
<1>7. x - 1 \in G
  BY <1>1, <1>5, <1>6
<1> QED BY <1>5, <1>6, <1>7

LEMMA FlattenUnfolds ==
    ASSUME NEW S, NEW seqs \in Seq(Seq(S)), seqs # <<>>
    PROVE  \E f \in [1..Len(seqs) -> Seq(S)] :
              /\ \A i \in 1..Len(seqs) :
                    f[i] = IF i = 1 THEN seqs[i] ELSE f[i-1] \o seqs[i]
              /\ FlattenSeq(seqs) = f[Len(seqs)]
<1> DEFINE n == Len(seqs)
           Fits(f, m) == \A i \in 1..m : f[i] = IF i = 1 THEN seqs[i] ELSE f[i-1] \o seqs[i]
           G == {m \in Nat : m <= n => \E f \in [1..m -> Seq(S)] : Fits(f, m)}
<1>1. n \in Nat /\ n > 0 /\ \A i \in 1..n : seqs[i] \in Seq(S)
  OBVIOUS
<1>2. 0 \in G
  <2>1. [i \in 1..0 |-> <<>>] \in [1..0 -> Seq(S)] /\ Fits([i \in 1..0 |-> <<>>], 0)
    OBVIOUS
  <2> QED BY <2>1
<1>3. ASSUME NEW m \in Nat, m \in G PROVE m + 1 \in G
  <2> SUFFICES ASSUME m + 1 <= n
               PROVE  \E f \in [1..(m + 1) -> Seq(S)] : Fits(f, m + 1)
    OBVIOUS
  <2>1. PICK f \in [1..m -> Seq(S)] : Fits(f, m)
    BY <1>1, <1>3
  <2> DEFINE last == IF m = 0 THEN seqs[1] ELSE f[m] \o seqs[m + 1]
             g == [i \in 1..(m + 1) |-> IF i = m + 1 THEN last ELSE f[i]]
  <2>2. last \in Seq(S)
    BY <1>1, <2>1
  <2>3. g \in [1..(m + 1) -> Seq(S)]
    BY <2>1, <2>2
  <2>4. ASSUME NEW i \in 1..(m + 1)
        PROVE  g[i] = IF i = 1 THEN seqs[i] ELSE g[i-1] \o seqs[i]
    <3>1. CASE i = m + 1
      <4>1. CASE m = 0
        BY <3>1, <4>1
      <4>2. CASE m # 0
        <5>1. g[i] = f[m] \o seqs[m + 1]
          BY <3>1, <4>2
        <5>2. i - 1 = m /\ m \in 1..(m + 1) /\ m # m + 1
          BY <3>1, <4>2
        <5>3. g[i - 1] = f[m]
          BY <5>2
        <5>4. i # 1 /\ seqs[i] = seqs[m + 1]
          BY <3>1, <4>2
        <5> HIDE DEF g, last
        <5> QED BY <5>1, <5>3, <5>4
      <4> QED BY <4>1, <4>2
    <3>2. CASE i # m + 1
      <4>1. i \in 1..m /\ g[i] = f[i]
        BY <3>2
      <4>2. i # 1 => i - 1 \in 1..m /\ g[i - 1] = f[i - 1]
        BY <3>2
      <4> QED BY <4>1, <4>2, <2>1
    <3> QED BY <3>1, <3>2
  <2> HIDE DEF g
  <2> QED BY <2>3, <2>4
<1>4. n \in G
  <2> HIDE DEF G
  <2> QED BY <1>1, <1>2, <1>3, NatSets
<1>5. PICK f \in [1..n -> Seq(S)] : Fits(f, n)
  BY <1>1, <1>4
<1> DEFINE F == CHOOSE F : F = [i \in 1..n |-> IF i = 1 THEN seqs[i] ELSE F[i-1] \o seqs[i]]
<1>6. f = [i \in 1..n |-> IF i = 1 THEN seqs[i] ELSE f[i-1] \o seqs[i]]
  BY <1>5
<1>7. F = [i \in 1..n |-> IF i = 1 THEN seqs[i] ELSE F[i-1] \o seqs[i]]
  BY <1>6
<1>8. FlattenSeq(seqs) = F[n]
  BY <1>1 DEF FlattenSeq
<1> HIDE DEF F
<1>9. \A i \in 1..n : F[i] = IF i = 1 THEN seqs[i] ELSE F[i-1] \o seqs[i]
  BY <1>7
<1>10. \A i \in 1..n : F[i] \in Seq(S)
  <2> DEFINE H == {m \in Nat : m <= n => \A i \in 1..m : F[i] \in Seq(S)}
  <2>1. 0 \in H
    OBVIOUS
  <2>2. ASSUME NEW m \in Nat, m \in H PROVE m + 1 \in H
    <3> SUFFICES ASSUME m + 1 <= n PROVE \A i \in 1..(m + 1) : F[i] \in Seq(S)
      OBVIOUS
    <3>1. \A i \in 1..m : F[i] \in Seq(S)
      BY <2>2, <1>1
    <3>2. F[m + 1] \in Seq(S)
      <4>1. CASE m = 0
        BY <4>1, <1>1, <1>9
      <4>2. CASE m # 0
        <5> n \in Nat
          BY <1>1
        <5>0. m + 1 \in 1..n /\ m + 1 # 1 /\ (m + 1) - 1 = m
          BY <4>2
        <5>1. F[m + 1] = F[m] \o seqs[m + 1]
          BY <5>0, <1>9
        <5>2. F[m] \in Seq(S) /\ seqs[m + 1] \in Seq(S)
          BY <4>2, <3>1, <1>1
        <5> QED BY <5>1, <5>2
      <4> QED BY <4>1, <4>2
    <3> QED BY <3>1, <3>2
  <2>3. n \in H
    <3> HIDE DEF H
    <3> QED BY <1>1, <2>1, <2>2, NatSets
  <2>4. n \in Nat /\ n <= n
    BY <1>1
  <2> HIDE DEF n
  <2> QED BY <2>3, <2>4
<1>11. F \in [1..n -> Seq(S)]
  BY <1>7, <1>10
<1> QED BY <1>8, <1>9, <1>11

\* Element j of s comes from place k of block b, after all before it in the block.
From(s, seqs, j, b, k) ==
    /\ s[j] = seqs[b][k]
    /\ \A h \in 1..(k - 1) : \E i \in 1..(j - 1) : s[i] = seqs[b][h]

Blocks(s, seqs, m) ==
    /\ \A j \in 1..Len(s) : \E b \in 1..m : \E k \in 1..Len(seqs[b]) : From(s, seqs, j, b, k)
    /\ \A b \in 1..m : \A k \in 1..Len(seqs[b]) : \E j \in 1..Len(s) : s[j] = seqs[b][k]

LEMMA BlocksGrow ==
    ASSUME NEW S, NEW seqs \in Seq(Seq(S)), NEW m \in Nat, m + 1 \in 1..Len(seqs),
           NEW s \in Seq(S), Blocks(s, seqs, m)
    PROVE  Blocks(s \o seqs[m + 1], seqs, m + 1)
<1> DEFINE t == seqs[m + 1]
           u == s \o t
<1>1. t \in Seq(S) /\ u \in Seq(S) /\ Len(s) \in Nat /\ Len(t) \in Nat
      /\ Len(u) = Len(s) + Len(t)
  OBVIOUS
<1>2. \A i \in 1..Len(s) : u[i] = s[i]
  OBVIOUS
<1>3. \A k \in 1..Len(t) : u[Len(s) + k] = t[k]
  OBVIOUS
<1> HIDE DEF u
<1>4. ASSUME NEW j \in 1..Len(u)
      PROVE  \E b \in 1..(m + 1) : \E k \in 1..Len(seqs[b]) : From(u, seqs, j, b, k)
  <2>1. CASE j <= Len(s)
    <3>1. j \in 1..Len(s)
      BY <2>1, <1>1
    <3>2. PICK b \in 1..m : \E k \in 1..Len(seqs[b]) : From(s, seqs, j, b, k)
      BY <3>1 DEF Blocks
    <3>3. PICK k \in 1..Len(seqs[b]) : From(s, seqs, j, b, k)
      BY <3>2
    <3>4. u[j] = seqs[b][k]
      BY <3>1, <3>3, <1>2 DEF From
    <3>5. ASSUME NEW h \in 1..(k - 1) PROVE \E i \in 1..(j - 1) : u[i] = seqs[b][h]
      <4>1. PICK i \in 1..(j - 1) : s[i] = seqs[b][h]
        BY <3>3 DEF From
      <4>2. i \in 1..Len(s)
        BY <3>1, <1>1
      <4> QED BY <4>1, <4>2, <1>2
    <3>6. b \in 1..(m + 1)
      OBVIOUS
    <3> QED BY <3>4, <3>5, <3>6 DEF From
  <2>2. CASE j > Len(s)
    <3> DEFINE k == j - Len(s)
    <3>1. k \in 1..Len(t) /\ j = Len(s) + k
      BY <2>2, <1>1
    <3>2. u[j] = seqs[m + 1][k]
      BY <3>1, <1>3
    <3>3. ASSUME NEW h \in 1..(k - 1) PROVE \E i \in 1..(j - 1) : u[i] = seqs[m + 1][h]
      <4>1. h \in 1..Len(t) /\ Len(s) + h \in 1..(j - 1)
        BY <3>1, <1>1
      <4> QED BY <4>1, <1>3
    <3>4. From(u, seqs, j, m + 1, k)
      BY <3>2, <3>3 DEF From
    <3>5. m + 1 \in 1..(m + 1)
      OBVIOUS
    <3> HIDE DEF k
    <3> QED BY <3>1, <3>4, <3>5
  <2> QED BY <2>1, <2>2, <1>1
<1>5. ASSUME NEW b \in 1..(m + 1), NEW k \in 1..Len(seqs[b])
      PROVE  \E j \in 1..Len(u) : u[j] = seqs[b][k]
  <2>1. CASE b = m + 1
    <3>1. k \in 1..Len(t) /\ Len(s) + k \in 1..Len(u)
      BY <2>1, <1>1
    <3> QED BY <2>1, <3>1, <1>3
  <2>2. CASE b # m + 1
    <3>1. PICK j \in 1..Len(s) : s[j] = seqs[b][k]
      BY <2>2 DEF Blocks
    <3>2. j \in 1..Len(u)
      BY <1>1
    <3> QED BY <3>1, <3>2, <1>2
  <2> QED BY <2>1, <2>2
<1>6. Blocks(u, seqs, m + 1)
  BY <1>4, <1>5 DEF Blocks
<1> QED BY <1>6 DEF u

LEMMA FlattenBlocks ==
    ASSUME NEW S, NEW seqs \in Seq(Seq(S))
    PROVE  /\ FlattenSeq(seqs) \in Seq(S)
           /\ Blocks(FlattenSeq(seqs), seqs, Len(seqs))
<1>0. SUFFICES ASSUME NEW n, n = Len(seqs)
               PROVE  FlattenSeq(seqs) \in Seq(S) /\ Blocks(FlattenSeq(seqs), seqs, n)
  OBVIOUS
<1>1. n \in Nat /\ \A i \in 1..n : seqs[i] \in Seq(S)
  BY <1>0
<1>2. Blocks(<<>>, seqs, 0) /\ <<>> \in Seq(S)
  BY DEF Blocks
<1>3. CASE seqs = <<>>
  <2>1. FlattenSeq(seqs) = <<>> /\ n = 0
    BY <1>0, <1>3 DEF FlattenSeq
  <2> QED BY <2>1, <1>2
<1>4. CASE seqs # <<>>
  <2>1. PICK f \in [1..n -> Seq(S)] :
           /\ \A i \in 1..n : f[i] = IF i = 1 THEN seqs[i] ELSE f[i-1] \o seqs[i]
           /\ FlattenSeq(seqs) = f[n]
    BY <1>0, <1>4, FlattenUnfolds
  <2>2. n > 0
    BY <1>0, <1>4
  <2> DEFINE G == {m \in Nat : m + 1 <= n => Blocks(f[m + 1], seqs, m + 1)}
  <2>3. 0 \in G
    <3>0. 1 \in 1..n
      BY <2>2, <1>1
    <3>1. 1 \in 1..n /\ f[1] = seqs[1]
      BY <2>1, <3>0, Zenon
    <3>2. <<>> \o seqs[1] = seqs[1] /\ 0 + 1 = 1
      <4>1. seqs[1] \in Seq(S)
        BY <3>1, <1>1
      <4> QED BY <4>1
    <3>3. Blocks(<<>> \o seqs[0 + 1], seqs, 0 + 1)
      BY <3>1, <3>2, <1>0, <1>2, BlocksGrow
    <3> QED BY <3>1, <3>2, <3>3
  <2>4. ASSUME NEW m \in Nat, m \in G PROVE m + 1 \in G
    <3> SUFFICES ASSUME m + 1 + 1 <= n PROVE Blocks(f[m + 1 + 1], seqs, m + 1 + 1)
      OBVIOUS
    <3>1. m + 1 \in 1..n /\ m + 1 + 1 \in 1..n /\ m + 1 + 1 # 1 /\ m + 1 + 1 - 1 = m + 1
      BY <1>1
    <3>2. f[m + 1 + 1] = f[m + 1] \o seqs[m + 1 + 1]
      <4> HIDE DEF G
      <4>1. \A i \in 1..n, k \in 1..n : i # 1 /\ k = i - 1 => f[i] = f[k] \o seqs[i]
        BY <2>1, Zenon
      <4>2. PICK i \in 1..n, k \in 1..n : i = m + 1 + 1 /\ k = m + 1
        BY <3>1
      <4>3. i # 1 /\ k = i - 1
        BY <4>2
      <4>4. f[i] = f[k] \o seqs[i]
        BY <4>1, <4>3, Zenon
      <4> QED BY <4>2, <4>4, Zenon
    <3>3. f[m + 1] \in Seq(S) /\ Blocks(f[m + 1], seqs, m + 1)
      BY <3>1, <2>1, <2>4, <1>1
    <3>4. \A k \in Nat : k + 1 \in 1..Len(seqs) =>
             \A t \in Seq(S) : Blocks(t, seqs, k) => Blocks(t \o seqs[k + 1], seqs, k + 1)
      BY BlocksGrow
    <3> QED BY <3>1, <3>2, <3>3, <3>4, <1>0
  <2>5. n - 1 \in Nat /\ (n - 1) + 1 = n
    BY <2>2, <1>1
  <2>6. n - 1 \in G
    <3> HIDE DEF G
    <3> QED BY <2>3, <2>4, <2>5, NatSets
  <2>7. Blocks(f[n], seqs, n)
    BY <2>5, <2>6
  <2>8. f[n] \in Seq(S)
    BY <2>1, <2>2, <1>1
  <2> QED BY <2>1, <2>7, <2>8
<1> QED BY <1>3, <1>4

-----------------------------------------------------------------------------
(* The step lists                                                           *)

LEMMA SmallSequences ==
    ASSUME NEW S, NEW a \in S, NEW b \in S
    PROVE  <<>> \in Seq(S) /\ <<a>> \in Seq(S) /\ <<a, b>> \in Seq(S)
OBVIOUS

LEMMA JoinedSequences ==
    ASSUME NEW S, NEW s \in Seq(S), NEW t \in Seq(S)
    PROVE  s \o t \in Seq(S)
OBVIOUS

LEMMA WiderSequences ==
    ASSUME NEW S, NEW T, S \subseteq T, NEW s \in Seq(S)
    PROVE  s \in Seq(T)
OBVIOUS

OpNames == {"create", "checkout", "remove", "delete"}

StepSpace == (Kinds \cup {"unstate"}) \X (Repos \cup {Nobody})

LEMMA OrderFacts ==
    /\ Len(RepoOrder) \in Nat
    /\ \A i \in 1..Len(RepoOrder) : RepoOrder[i] \in Repos
    /\ Len(RemovalOrder) = Len(RepoOrder)
    /\ \A i \in 1..Len(RepoOrder) :
          /\ RemovalOrder[i] = RepoOrder[Len(RepoOrder) - i + 1]
          /\ Len(RepoOrder) - i + 1 \in 1..Len(RepoOrder)
          /\ RemovalOrder[i] \in Repos
<1>1. Len(RepoOrder) \in Nat /\ \A i \in 1..Len(RepoOrder) : RepoOrder[i] \in Repos
  BY OrderAssumption
<1>2. RemovalOrder = [i \in 1..Len(RepoOrder) |-> RepoOrder[(Len(RepoOrder) - i) + 1]]
  BY DEF RemovalOrder, Reverse
<1>3. \A i \in 1..Len(RepoOrder) : Len(RepoOrder) - i + 1 \in 1..Len(RepoOrder)
  BY <1>1
<1>4. RemovalOrder \in Seq(Repos)
  BY <1>1, <1>2, <1>3
<1>5. Len(RemovalOrder) = Len(RepoOrder)
  BY <1>1, <1>2
<1> QED BY <1>1, <1>2, <1>3, <1>5

\* The lists of a create or a checkout: a block for every repository.
MakingBlock(op, r) == IF op = "create" THEN CreateSteps(r) ELSE CheckoutSteps(r)

LEMMA MakingSteps ==
    ASSUME NEW op \in {"create", "checkout"}, NEW plan
    PROVE  StepsOf(op, plan) =
              FlattenSeq([i \in 1..Len(RepoOrder) |-> MakingBlock(op, RepoOrder[i])])
<1>1. CASE op = "create"
  BY <1>1 DEF StepsOf, MakingBlock
<1>2. CASE op = "checkout"
  BY <1>2 DEF StepsOf, MakingBlock
<1> QED BY <1>1, <1>2

MakingKinds(op) ==
    IF op = "create" THEN {"branch", "group", "add", "inspect", "ignore"}
    ELSE {"group", "add"}

\* A block has the kinds of its command and its own repository, and ignore comes
\* after add.
LEMMA BlockFacts ==
    ASSUME NEW op \in {"create", "checkout"}, NEW r \in Repos
    PROVE  /\ MakingBlock(op, r) \in Seq(StepSpace)
           /\ \A k \in 1..Len(MakingBlock(op, r)) :
                 /\ MakingBlock(op, r)[k][1] \in MakingKinds(op)
                 /\ MakingBlock(op, r)[k] = <<MakingBlock(op, r)[k][1], r>>
                 /\ MakingBlock(op, r)[k][1] = "ignore" =>
                       \E h \in 1..(k - 1) : MakingBlock(op, r)[h] = <<"add", r>>
<1>1. PICK b : b = MakingBlock(op, r)
  OBVIOUS
<1>2. SUFFICES /\ b \in Seq(StepSpace)
               /\ \A k \in 1..Len(b) :
                     /\ b[k][1] \in MakingKinds(op)
                     /\ b[k] = <<b[k][1], r>>
                     /\ b[k][1] = "ignore" => \E h \in 1..(k - 1) : b[h] = <<"add", r>>
  BY <1>1
<1>3. PICK br, gr, ad, ins, ig :
         /\ br = <<"branch", r>> /\ gr = <<"group", r>> /\ ad = <<"add", r>>
         /\ ins = <<"inspect", r>> /\ ig = <<"ignore", r>>
  OBVIOUS
<1>4. {br, gr, ad} \subseteq StepSpace /\ {ins, ig} \subseteq StepSpace
  BY <1>3 DEF StepSpace, Kinds
<1>5. PICK first, mid, last :
         /\ b = first \o mid \o <<ad>> \o last
         /\ op = "create" => first = <<br>>
         /\ op = "checkout" => first = <<>> /\ last = <<>>
         /\ mid \in {<<>>, <<gr>>} /\ last \in {<<>>, <<ins, ig>>}
  <2>1. CASE op = "create"
    BY <1>1, <1>3, <2>1, Zenon DEF MakingBlock, CreateSteps
  <2>2. CASE op = "checkout"
    <3>1. PICK mid : mid = IF IsRoot(r) THEN <<gr>> ELSE <<>>
      OBVIOUS
    <3>2. mid \in {<<>>, <<gr>>}
      BY <3>1
    <3>3. b = mid \o <<ad>>
      BY <1>1, <1>3, <2>2, <3>1, Zenon DEF MakingBlock, CheckoutSteps
    <3>4. <<>> \o mid = mid /\ mid \o <<ad>> \o <<>> = mid \o <<ad>>
      <4>1. mid \in Seq({gr, ad})
        BY <3>2, SmallSequences
      <4> QED BY <4>1
    <3> QED BY <2>2, <3>2, <3>3, <3>4
  <2> QED BY <2>1, <2>2
<1>6. first \in Seq({br, gr, ad}) /\ mid \in Seq({br, gr, ad}) /\ last \in Seq({ins, ig})
  <2>1. op \in {"create", "checkout"}
    OBVIOUS
  <2>2. <<>> \in Seq({br, gr, ad}) /\ <<br>> \in Seq({br, gr, ad}) /\ <<gr>> \in Seq({br, gr, ad})
    BY SmallSequences
  <2>3. <<>> \in Seq({ins, ig}) /\ <<ins, ig>> \in Seq({ins, ig})
    BY SmallSequences
  <2> QED BY <1>5, <2>1, <2>2, <2>3
<1>7. PICK s \in Seq({br, gr, ad}) : s = first \o mid \o <<ad>>
  <2>1. <<ad>> \in Seq({br, gr, ad})
    BY SmallSequences
  <2>2. first \o mid \in Seq({br, gr, ad})
    BY <1>6
  <2>3. first \o mid \o <<ad>> \in Seq({br, gr, ad})
    <3> DEFINE T == {br, gr, ad}
    <3> HIDE DEF T
    <3>1. ASSUME NEW u \in Seq(T), NEW v \in Seq(T) PROVE u \o v \in Seq(T)
      OBVIOUS
    <3> QED BY <2>1, <2>2, <3>1 DEF T
  <2> QED BY <2>3
<1>8. Len(s) \in Nat /\ Len(s) > 0 /\ s[Len(s)] = ad
  BY <1>6, <1>7
<1>9. b = s \o last
  BY <1>5, <1>7, Zenon
<1>10. /\ Len(b) = Len(s) + Len(last)
       /\ \A k \in 1..Len(s) : b[k] = s[k]
       /\ \A k \in 1..Len(last) : b[Len(s) + k] = last[k]
       /\ Len(last) \in Nat
  BY <1>6, <1>9
<1>11. b \in Seq(StepSpace)
  <2>1. s \in Seq(StepSpace) /\ last \in Seq(StepSpace)
    BY <1>4, <1>6, <1>7, WiderSequences
  <2> QED BY <2>1, <1>9
<1>12. op = "checkout" => \A k \in 1..Len(s) : s[k] \in {gr, ad}
  <2>1. ASSUME op = "checkout" PROVE s \in Seq({gr, ad})
    BY <1>5, <1>7, <2>1
  <2> QED BY <2>1
<1>13. ASSUME NEW k \in 1..Len(b)
       PROVE  /\ b[k][1] \in MakingKinds(op)
              /\ b[k] = <<b[k][1], r>>
              /\ b[k][1] = "ignore" => \E h \in 1..(k - 1) : b[h] = <<"add", r>>
  <2>1. CASE k <= Len(s)
    <3>1. k \in 1..Len(s) /\ b[k] = s[k] /\ s[k] \in {br, gr, ad}
      BY <2>1, <1>8, <1>10
    <3>2. op = "checkout" => b[k] \in {gr, ad}
      BY <3>1, <1>12
    <3> QED BY <3>1, <3>2, <1>3 DEF MakingKinds
  <2>2. CASE k > Len(s)
    <3>1. PICK i \in 1..Len(last) : k = Len(s) + i
      <4>1. k - Len(s) \in 1..Len(last) /\ k = Len(s) + (k - Len(s))
        BY <2>2, <1>8, <1>10
      <4> QED BY <4>1
    <3>2. b[k] = last[i] /\ last[i] \in {ins, ig}
      BY <3>1, <1>6, <1>10
    <3>3. Len(s) \in 1..(k - 1) /\ b[Len(s)] = ad
      <4>1. Len(s) \in 1..Len(s) /\ b[Len(s)] = s[Len(s)]
        BY <1>8, <1>10
      <4>2. k \in Nat /\ Len(s) <= k - 1
        BY <2>2, <1>8
      <4> QED BY <4>1, <4>2, <1>8
    <3>4. op = "create"
      BY <3>1, <1>5
    <3> QED BY <3>2, <3>3, <3>4, <1>3 DEF MakingKinds
  <2> QED BY <2>1, <2>2, <1>8, <1>10
<1> QED BY <1>11, <1>13

LEMMA MakingFacts ==
    ASSUME NEW op \in {"create", "checkout"}, NEW plan
    PROVE  /\ StepsOf(op, plan) \in Seq(StepSpace)
           /\ \A j \in 1..Len(StepsOf(op, plan)) :
                 /\ StepsOf(op, plan)[j][1] \in MakingKinds(op)
                 /\ StepsOf(op, plan)[j][2] \in Repos
                 /\ \A r \in Repos : StepsOf(op, plan)[j] = <<"ignore", r>> =>
                       \E i \in 1..(j - 1) : StepsOf(op, plan)[i] = <<"add", r>>
<1>1. PICK seqs : seqs = [i \in 1..Len(RepoOrder) |-> MakingBlock(op, RepoOrder[i])]
  OBVIOUS
<1>2. \A i \in 1..Len(RepoOrder) : seqs[i] \in Seq(StepSpace)
  BY <1>1, OrderFacts, BlockFacts
<1>3. seqs \in Seq(Seq(StepSpace)) /\ Len(seqs) = Len(RepoOrder)
  BY <1>1, <1>2, OrderFacts
<1>4. PICK steps : steps = StepsOf(op, plan)
  OBVIOUS
<1>5. steps \in Seq(StepSpace) /\ Blocks(steps, seqs, Len(RepoOrder))
  BY <1>1, <1>3, <1>4, MakingSteps, FlattenBlocks
<1>6. ASSUME NEW j \in 1..Len(steps)
      PROVE  /\ steps[j][1] \in MakingKinds(op)
             /\ steps[j][2] \in Repos
             /\ \A r \in Repos : steps[j] = <<"ignore", r>> =>
                   \E i \in 1..(j - 1) : steps[i] = <<"add", r>>
  <2>1. PICK b \in 1..Len(RepoOrder) : \E k \in 1..Len(seqs[b]) : From(steps, seqs, j, b, k)
    BY <1>5 DEF Blocks
  <2>2. PICK k \in 1..Len(seqs[b]) : From(steps, seqs, j, b, k)
    BY <2>1
  <2>3. seqs[b] = MakingBlock(op, RepoOrder[b]) /\ RepoOrder[b] \in Repos
    BY <1>1, OrderFacts
  <2>4. /\ seqs[b][k][1] \in MakingKinds(op)
        /\ seqs[b][k] = <<seqs[b][k][1], RepoOrder[b]>>
        /\ seqs[b][k][1] = "ignore" =>
              \E h \in 1..(k - 1) : seqs[b][h] = <<"add", RepoOrder[b]>>
    <3>1. PICK r \in Repos : r = RepoOrder[b]
      BY <2>3
    <3>2. k \in 1..Len(MakingBlock(op, r)) /\ seqs[b] = MakingBlock(op, r)
      BY <2>3, <3>1
    <3>3. /\ MakingBlock(op, r)[k][1] \in MakingKinds(op)
          /\ MakingBlock(op, r)[k] = <<MakingBlock(op, r)[k][1], r>>
          /\ MakingBlock(op, r)[k][1] = "ignore" =>
                \E h \in 1..(k - 1) : MakingBlock(op, r)[h] = <<"add", r>>
      BY <3>2, BlockFacts
    <3> QED BY <3>1, <3>2, <3>3
  <2>5. steps[j] = seqs[b][k] /\ \A h \in 1..(k - 1) : \E i \in 1..(j - 1) : steps[i] = seqs[b][h]
    BY <2>2 DEF From
  <2>6. steps[j][2] = RepoOrder[b]
    BY <2>4, <2>5
  <2>7. ASSUME NEW r \in Repos, steps[j] = <<"ignore", r>>
        PROVE  \E i \in 1..(j - 1) : steps[i] = <<"add", r>>
    <3>1. seqs[b][k][1] = "ignore" /\ r = RepoOrder[b]
      BY <2>5, <2>6, <2>7
    <3> QED BY <3>1, <2>4, <2>5
  <2> QED BY <2>3, <2>4, <2>5, <2>6, <2>7
<1> QED BY <1>4, <1>5, <1>6

LEMMA RemoveStepFacts ==
    /\ RemoveSteps \in Seq(StepSpace)
    /\ Len(RemoveSteps) = Len(RepoOrder)
    /\ \A j \in 1..Len(RepoOrder) : RemoveSteps[j] = <<"remove", RemovalOrder[j]>>
<1>1. RemoveSteps = [j \in 1..Len(RepoOrder) |-> <<"remove", RemovalOrder[j]>>]
  BY OrderFacts DEF RemoveSteps
<1>2. \A j \in 1..Len(RepoOrder) : <<"remove", RemovalOrder[j]>> \in StepSpace
  BY OrderFacts DEF StepSpace, Kinds
<1> QED BY <1>1, <1>2, OrderFacts

\* The branches a delete drops, in its order.
Drops(plan) ==
    FlattenSeq([i \in 1..Len(RemovalOrder) |-> DropSteps(plan, RemovalOrder[i])])

LEMMA DropFacts ==
    ASSUME NEW plan
    PROVE  /\ Drops(plan) \in Seq(StepSpace)
           /\ \A j \in 1..Len(Drops(plan)) :
                 \E r \in Repos : Drops(plan)[j] = <<"drop", r>> /\ plan[r].drop # "keep"
           /\ \A r \in Repos : plan[r].drop # "keep" =>
                 \E j \in 1..Len(Drops(plan)) : Drops(plan)[j] = <<"drop", r>>
<1>1. PICK seqs : seqs = [i \in 1..Len(RepoOrder) |-> DropSteps(plan, RemovalOrder[i])]
  OBVIOUS
<1>2. ASSUME NEW i \in 1..Len(RepoOrder)
      PROVE  /\ seqs[i] \in Seq(StepSpace)
             /\ plan[RemovalOrder[i]].drop = "keep" => Len(seqs[i]) = 0
             /\ plan[RemovalOrder[i]].drop # "keep" =>
                   Len(seqs[i]) = 1 /\ seqs[i][1] = <<"drop", RemovalOrder[i]>>
  <2>1. PICK a : a = <<"drop", RemovalOrder[i]>>
    OBVIOUS
  <2>2. a \in StepSpace
    BY <2>1, OrderFacts DEF StepSpace, Kinds
  <2>3. seqs[i] = IF plan[RemovalOrder[i]].drop = "keep" THEN <<>> ELSE <<a>>
    BY <1>1, <2>1 DEF DropSteps
  <2> QED BY <2>1, <2>2, <2>3, SmallSequences
<1>3. seqs \in Seq(Seq(StepSpace)) /\ Len(seqs) = Len(RepoOrder)
  BY <1>1, <1>2, OrderFacts
<1>4. PICK steps : steps = Drops(plan)
  OBVIOUS
<1>5. steps \in Seq(StepSpace) /\ Blocks(steps, seqs, Len(RepoOrder))
  BY <1>1, <1>3, <1>4, OrderFacts, FlattenBlocks DEF Drops
<1>6. ASSUME NEW j \in 1..Len(steps)
      PROVE  \E r \in Repos : steps[j] = <<"drop", r>> /\ plan[r].drop # "keep"
  <2>1. PICK b \in 1..Len(RepoOrder) : \E k \in 1..Len(seqs[b]) : From(steps, seqs, j, b, k)
    BY <1>5 DEF Blocks
  <2>2. PICK k \in 1..Len(seqs[b]) : From(steps, seqs, j, b, k)
    BY <2>1
  <2>3. plan[RemovalOrder[b]].drop # "keep" /\ k = 1
    <3>1. CASE plan[RemovalOrder[b]].drop = "keep"
      BY <1>2, <2>2, <3>1
    <3>2. CASE plan[RemovalOrder[b]].drop # "keep"
      <4>1. Len(seqs[b]) = 1
        BY <1>2, <3>2
      <4>2. k \in 1..1
        BY <2>2, <4>1
      <4> QED BY <4>2, <3>2
    <3> QED BY <3>1, <3>2
  <2>4. steps[j] = <<"drop", RemovalOrder[b]>>
    BY <1>2, <2>2, <2>3 DEF From
  <2> QED BY <2>3, <2>4, OrderFacts
<1>7. ASSUME NEW r \in Repos, plan[r].drop # "keep"
      PROVE  \E j \in 1..Len(steps) : steps[j] = <<"drop", r>>
  <2>1. PICK i \in 1..Len(RepoOrder) : RemovalOrder[i] = r
    <3>1. PICK i \in 1..Len(RepoOrder) : RepoOrder[i] = r
      BY OrderAssumption
    <3>2. Len(RepoOrder) - i + 1 \in 1..Len(RepoOrder)
          /\ Len(RepoOrder) - (Len(RepoOrder) - i + 1) + 1 = i
      BY OrderFacts
    <3>3. RemovalOrder[Len(RepoOrder) - i + 1] = RepoOrder[i]
      BY <3>2, OrderFacts
    <3> QED BY <3>1, <3>2, <3>3
  <2>2. 1 \in 1..Len(seqs[i]) /\ seqs[i][1] = <<"drop", r>>
    BY <1>2, <1>7, <2>1
  <2>3. \A b \in 1..Len(RepoOrder) : \A k \in 1..Len(seqs[b]) :
           \E j \in 1..Len(steps) : steps[j] = seqs[b][k]
    BY <1>5 DEF Blocks
  <2>4. \E j \in 1..Len(steps) : steps[j] = seqs[i][1]
    BY <2>1, <2>2, <2>3, Zenon
  <2> QED BY <2>2, <2>4
<1> QED BY <1>4, <1>5, <1>6, <1>7

LEMMA UnmakingFacts ==
    ASSUME NEW op \in {"remove", "delete"}, NEW plan
    PROVE  /\ StepsOf(op, plan) \in Seq(StepSpace)
           /\ Len(RepoOrder) <= Len(StepsOf(op, plan))
           /\ \A j \in 1..Len(RepoOrder) :
                 StepsOf(op, plan)[j] = <<"remove", RemovalOrder[j]>>
           /\ op = "remove" => Len(StepsOf(op, plan)) = Len(RepoOrder)
           /\ op = "delete" =>
                 /\ \A j \in (Len(RepoOrder) + 1)..Len(StepsOf(op, plan)) :
                       \/ StepsOf(op, plan)[j] = <<"unstate", Nobody>>
                       \/ \E r \in Repos : /\ StepsOf(op, plan)[j] = <<"drop", r>>
                                           /\ plan[r].drop # "keep"
                 /\ \A r \in Repos : plan[r].drop # "keep" =>
                       \E j \in 1..Len(StepsOf(op, plan)) : StepsOf(op, plan)[j] = <<"drop", r>>
                 /\ \E j \in 1..Len(StepsOf(op, plan)) :
                       StepsOf(op, plan)[j] = <<"unstate", Nobody>>
<1>1. CASE op = "remove"
  <2>1. StepsOf(op, plan) = RemoveSteps
    BY <1>1 DEF StepsOf
  <2> QED BY <1>1, <2>1, RemoveStepFacts, OrderFacts
<1>2. CASE op = "delete"
  <2>1. PICK a : a = <<"unstate", Nobody>>
    OBVIOUS
  <2>2. <<a>> \in Seq(StepSpace) /\ Len(<<a>>) = 1 /\ <<a>>[1] = a
    <3>1. a \in StepSpace
      BY <2>1 DEF StepSpace
    <3> QED BY <3>1, SmallSequences
  <2>3. PICK d \in Seq(StepSpace) : d = Drops(plan)
    BY DropFacts
  <2>4. PICK rs \in Seq(StepSpace) : rs = RemoveSteps
    BY RemoveStepFacts
  <2>5. PICK last \in Seq(StepSpace) : last = <<a>>
    BY <2>2
  <2>6. PICK first \in Seq(StepSpace) : first = rs \o d
    BY <2>3, <2>4, JoinedSequences, Zenon
  <2>7. PICK steps \in Seq(StepSpace) : steps = first \o last
    BY <2>5, <2>6, JoinedSequences, Zenon
  <2>8. steps = StepsOf(op, plan)
    BY <1>2, <2>1, <2>3, <2>4, <2>5, <2>6, <2>7, Zenon DEF StepsOf, DeleteSteps, Drops
  <2>9. /\ Len(last) = 1 /\ last[1] = a /\ Len(rs) = Len(RepoOrder) /\ Len(rs) \in Nat
        /\ Len(d) \in Nat
        /\ Len(first) = Len(rs) + Len(d)
        /\ Len(steps) = Len(first) + 1
    <3>1. Len(last) = 1 /\ last[1] = a /\ Len(rs) = Len(RepoOrder)
      BY <2>2, <2>4, <2>5, RemoveStepFacts
    <3>2. Len(rs) \in Nat /\ Len(d) \in Nat /\ Len(first) = Len(rs) + Len(d)
      BY <2>3, <2>4, <2>6
    <3>3. Len(steps) = Len(first) + Len(last)
      BY <2>5, <2>6, <2>7
    <3> QED BY <3>1, <3>2, <3>3
  <2>10. \A j \in 1..Len(rs) : first[j] = rs[j]
    BY <2>6
  <2>11. \A j \in 1..Len(d) : first[Len(rs) + j] = d[j]
    BY <2>6
  <2>12. \A j \in 1..Len(first) : steps[j] = first[j]
    BY <2>7
  <2>13. steps[Len(first) + 1] = a
    <3>1. \A j \in 1..Len(last) : steps[Len(first) + j] = last[j]
      BY <2>7
    <3> QED BY <3>1, <2>9
  <2>14. \A j \in 1..Len(RepoOrder) : steps[j] = <<"remove", RemovalOrder[j]>>
    <3>1. ASSUME NEW j \in 1..Len(RepoOrder) PROVE steps[j] = rs[j]
      <4>1. j \in 1..Len(rs) /\ j \in 1..Len(first)
        BY <2>9
      <4> QED BY <4>1, <2>10, <2>12
    <3> QED BY <3>1, <2>4, RemoveStepFacts
  <2>15. ASSUME NEW j \in (Len(RepoOrder) + 1)..Len(steps)
         PROVE  \/ steps[j] = <<"unstate", Nobody>>
                \/ \E r \in Repos : steps[j] = <<"drop", r>> /\ plan[r].drop # "keep"
    <3>1. CASE j = Len(first) + 1
      BY <3>1, <2>1, <2>13
    <3>2. CASE j # Len(first) + 1
      <4>1. PICK i \in 1..Len(d) : j = Len(rs) + i
        <5>1. j - Len(rs) \in 1..Len(d) /\ j = Len(rs) + (j - Len(rs))
          <6>1. j \in Nat /\ j > Len(rs) /\ j <= Len(steps)
            BY <2>9
          <6> QED BY <6>1, <3>2, <2>9
        <5> QED BY <5>1
      <4>2. steps[j] = d[i]
        <5>1. j \in 1..Len(first)
          BY <4>1, <2>9
        <5> QED BY <4>1, <5>1, <2>11, <2>12
      <4> QED BY <4>2, <2>3, DropFacts
    <3> QED BY <3>1, <3>2
  <2>16. ASSUME NEW r \in Repos, plan[r].drop # "keep"
         PROVE  \E j \in 1..Len(steps) : steps[j] = <<"drop", r>>
    <3>1. PICK i \in 1..Len(d) : d[i] = <<"drop", r>>
      BY <2>3, <2>16, DropFacts
    <3>2. Len(rs) + i \in 1..Len(steps) /\ Len(rs) + i \in 1..Len(first)
      BY <2>9
    <3>3. steps[Len(rs) + i] = d[i]
      BY <3>2, <2>11, <2>12
    <3> QED BY <3>1, <3>2, <3>3
  <2>17. \E j \in 1..Len(steps) : steps[j] = <<"unstate", Nobody>>
    <3>1. Len(first) + 1 \in 1..Len(steps)
      BY <2>9
    <3> QED BY <3>1, <2>1, <2>13
  <2>18. Len(RepoOrder) <= Len(steps)
    BY <2>9
  <2> QED BY <1>2, <2>8, <2>14, <2>15, <2>16, <2>17, <2>18
<1> QED BY <1>1, <1>2

\* What the proofs of the actions use of the step lists.
LEMMA StepFacts ==
    ASSUME NEW op \in OpNames, NEW plan
    PROVE  /\ Len(StepsOf(op, plan)) \in Nat
           /\ \A j \in 1..Len(StepsOf(op, plan)) :
                 LET step == StepsOf(op, plan)[j] IN
                 /\ step = <<step[1], step[2]>>
                 /\ op = "create" => step[1] \in {"branch", "group", "add", "inspect", "ignore"}
                 /\ op = "checkout" => step[1] \in {"group", "add"}
                 /\ op = "remove" => step[1] = "remove"
                 /\ op = "delete" => step[1] \in {"remove", "drop", "unstate"}
                 /\ step[1] # "unstate" => step[2] \in Repos
                 /\ step[1] = "unstate" => step[2] = Nobody
                 /\ step[1] = "drop" => plan[step[2]].drop # "keep"
<1> DEFINE steps == StepsOf(op, plan)
<1>1. CASE op \in {"create", "checkout"}
  <2>1. steps \in Seq(StepSpace) /\ Len(steps) \in Nat
    BY <1>1, MakingFacts
  <2>2. ASSUME NEW j \in 1..Len(steps)
        PROVE  /\ steps[j] = <<steps[j][1], steps[j][2]>>
               /\ steps[j][1] \in MakingKinds(op)
               /\ steps[j][2] \in Repos
    <3>1. steps[j] \in StepSpace
      BY <2>1
    <3>2. steps[j] = <<steps[j][1], steps[j][2]>>
      BY <3>1 DEF StepSpace
    <3> QED BY <3>2, <1>1, MakingFacts
  <2> HIDE DEF steps
  <2> QED BY <1>1, <2>1, <2>2 DEF MakingKinds, steps
<1>2. CASE op \in {"remove", "delete"}
  <2>1. steps \in Seq(StepSpace) /\ Len(steps) \in Nat
    BY <1>2, UnmakingFacts
  <2>2. ASSUME NEW j \in 1..Len(steps)
        PROVE  \/ \E r \in Repos : steps[j] = <<"remove", r>>
               \/ op = "delete" /\ steps[j] = <<"unstate", Nobody>>
               \/ op = "delete" /\ \E r \in Repos : /\ steps[j] = <<"drop", r>>
                                                   /\ plan[r].drop # "keep"
    <3>1. CASE j <= Len(RepoOrder)
      BY <3>1, <1>2, UnmakingFacts, OrderFacts
    <3>2. CASE j > Len(RepoOrder)
      <4>1. op = "delete" /\ j \in (Len(RepoOrder) + 1)..Len(steps)
        BY <3>2, <1>2, <2>1, UnmakingFacts, OrderFacts
      <4> QED BY <4>1, UnmakingFacts
    <3> QED BY <3>1, <3>2, OrderFacts, <2>1
  <2> HIDE DEF steps
  <2> QED BY <1>2, <2>1, <2>2 DEF steps
<1> QED BY <1>1, <1>2 DEF OpNames

LEMMA IgnoreAfterAdd ==
    ASSUME NEW op \in OpNames, NEW plan, NEW j \in 1..Len(StepsOf(op, plan)), NEW r \in Repos,
           StepsOf(op, plan)[j] = <<"ignore", r>>
    PROVE  \E i \in 1..(j - 1) : StepsOf(op, plan)[i] = <<"add", r>>
<1>1. op = "create"
  BY StepFacts DEF OpNames
<1> QED BY <1>1, MakingFacts

LEMMA BelowFirst ==
    ASSUME NEW op \in OpNames, NEW plan, NEW j \in 1..Len(StepsOf(op, plan)), NEW r \in Repos,
           StepsOf(op, plan)[j] = <<"remove", r>>, NEW s \in Below(r)
    PROVE  \E i \in 1..(j - 1) : StepsOf(op, plan)[i] = <<"remove", s>>
<1>1. op \in {"remove", "delete"}
  BY StepFacts DEF OpNames
<1>2. j <= Len(RepoOrder)
  <2>1. ASSUME j > Len(RepoOrder) PROVE FALSE
    <3>1. op = "delete" /\ j \in (Len(RepoOrder) + 1)..Len(StepsOf(op, plan))
      BY <2>1, <1>1, StepFacts, UnmakingFacts, OrderFacts
    <3> QED BY <3>1, UnmakingFacts
  <2> QED BY <2>1, OrderFacts
<1>3. j \in 1..Len(RepoOrder) /\ RemovalOrder[j] = r
  BY <1>1, <1>2, OrderFacts, UnmakingFacts
<1>4. s \in Repos
  BY DEF Below
<1>5. PICK a \in 1..Len(RepoOrder) : RepoOrder[a] = s
  BY <1>4, OrderAssumption
<1>6. PICK n \in Nat : n = Len(RepoOrder)
  BY OrderFacts
<1>7. RepoOrder[n - j + 1] = r /\ n - j + 1 \in 1..n
  BY <1>3, <1>6, OrderFacts
<1>8. n - j + 1 < a
  BY <1>5, <1>6, <1>7, OrderAssumption
<1>9. PICK i : i = n - a + 1
  OBVIOUS
<1>10. i \in 1..(j - 1) /\ i \in 1..n /\ n - i + 1 = a
  BY <1>3, <1>5, <1>6, <1>8, <1>9
<1>11. RemovalOrder[i] = s
  BY <1>5, <1>6, <1>10, OrderFacts
<1>12. StepsOf(op, plan)[i] = <<"remove", s>>
  BY <1>1, <1>6, <1>10, <1>11, UnmakingFacts
<1> QED BY <1>10, <1>12

LEMMA RemovesAll ==
    ASSUME NEW op \in {"remove", "delete"}, NEW plan, NEW r \in Repos
    PROVE  \E j \in 1..Len(StepsOf(op, plan)) : StepsOf(op, plan)[j] = <<"remove", r>>
<1>1. PICK n \in Nat : n = Len(RepoOrder)
  BY OrderFacts
<1>2. PICK i \in 1..n : RepoOrder[i] = r
  BY <1>1, OrderAssumption
<1>3. PICK k : k = n - i + 1
  OBVIOUS
<1>4. k \in 1..n /\ n - k + 1 = i
  BY <1>3, <1>1
<1>5. RemovalOrder[k] = r
  BY <1>1, <1>2, <1>4, OrderFacts
<1>6. StepsOf(op, plan)[k] = <<"remove", r>> /\ k \in 1..Len(StepsOf(op, plan))
  <2>1. n <= Len(StepsOf(op, plan)) /\ Len(StepsOf(op, plan)) \in Nat
    BY <1>1, UnmakingFacts
  <2> QED BY <1>1, <1>4, <1>5, <2>1, UnmakingFacts
<1> QED BY <1>6

-----------------------------------------------------------------------------
(* What a command has still to answer for                                   *)

Paths == [Repos -> Tree]
Refs == [Repos -> {"none"} \cup Heads]

\* Edits are in checkouts, a checkout is registered, and what is not registered
\* bears no trace of a worktree.
Shaped(t) ==
    \A r \in Repos :
        /\ t[r].dirt # "clean" => t[r].dir = "checkout"
        /\ ~t[r].reg => t[r].dir # "checkout" /\ ~t[r].on /\ t[r].id = Nobody

\* The last step a command has still to undo, or to look at.
Limit(c) == IF c.pc \in {"cleanup", "rollback"} THEN c.at ELSE c.at - 1

\* A step of this kind, for r, is among those.
Pending(c, kind, r) ==
    \E j \in 1..Limit(c) : StepsOf(c.op, c.plan)[j] = <<kind, r>>

\* An unreverted step names r.
Named(c, r) == \E k \in Kinds : <<k, r>> \in c.unreverted

\* Two states of a worktree, up to the identity of its directory.
Same(t, u) == t = [u EXCEPT !.id = t.id]

Making(c) == c.op \in {"create", "checkout"}
Unmaking(c) == c.op \in {"remove", "delete"}

BranchAccounted(c, r, b) ==
    \/ b = c.found.branch[r]
    \/ Named(c, r)
    \/ c.op = "create" /\ Pending(c, "branch", r)
    \/ c.op = "delete" /\ Pending(c, "drop", r)

TreeAccounted(c, r, t) ==
    \/ Same(t, c.found.tree[r])
    \/ Named(c, r)
    \/ Making(c) /\ r \in c.added
    \/ Unmaking(c) /\ t.dir = "none" /\ Pending(c, "remove", r)

\* A worktree the command added, and may take away again, was not there.
AddedAccounted(c, r) ==
    r \in c.added =>
        /\ c.found.tree[r].dir = "none" /\ ~c.found.tree[r].reg
        /\ Named(c, r) \/ Pending(c, "add", r)

StateAccounted(c, s) ==
    \/ s = c.prior
    \/ CommitState \in c.unreverted
    \/ <<"unstate", Nobody>> \in c.unreverted
    \/ c.op = "delete" /\ s = NoState /\ Pending(c, "unstate", Nobody)

GroupAccounted(c, g) ==
    \/ g = c.found.grouping
    \/ \E r \in Repos : <<"group", r>> \in c.unreverted
    \/ c.madeGroup /\ \E r \in Repos : Pending(c, "group", r)

\* Everything the command changed will still be undone, or is named; the
\* repositories the user has acted on aside.
Accounted(c, b, t, g, s, users) ==
    /\ \A r \in Repos \ users :
          /\ BranchAccounted(c, r, b[r])
          /\ TreeAccounted(c, r, t[r])
          /\ AddedAccounted(c, r)
    /\ StateAccounted(c, s)
    /\ GroupAccounted(c, g)
    /\ c.madeGroup => ~c.found.grouping

\* The completed steps of a command that goes forward have taken effect.
Forward(c, b, t, s, users) ==
    /\ \A r \in Repos : Making(c) /\ Pending(c, "add", r) => r \in c.added
    /\ \A r \in Repos : Unmaking(c) /\ Pending(c, "remove", r) =>
          /\ t[r].dir # "checkout"
          /\ r \notin users => t[r] = NoTree
    /\ \A r \in Repos \ users : c.op = "delete" /\ Pending(c, "drop", r) => b[r] = "none"
    /\ c.op = "delete" /\ Pending(c, "unstate", Nobody) => s = NoState

\* What the plan says of what the command found, under the lock.
PlanFits(c) ==
    /\ c.prior \in Refs
    /\ c.found.branch \in Refs
    /\ c.found.tree \in Paths /\ Shaped(c.found.tree)
    /\ c.found.grouping \in BOOLEAN
    /\ c.op = "create" => baselines = {} /\ \A r \in Repos : c.found.branch[r] = "none"
    /\ c.op # "create" => \A r \in Repos : c.plan[r].head = c.found.branch[r]
    /\ Unmaking(c) => \A r \in Repos :
          /\ c.found.tree[r].dir = "checkout" /\ c.found.tree[r].reg /\ c.found.tree[r].on
          /\ c.plan[r].force \/ c.found.tree[r].dirt = "clean"

\* The workspace is everywhere where the state file says, or removed with its
\* branches and state file kept, or gone: what WholeOrGone says, of any world.
Whole(b, t, s) ==
    \/ /\ s # NoState
       /\ \A r \in Repos : /\ t[r].dir = "checkout" /\ t[r].reg /\ t[r].on
                           /\ b[r] = s[r] /\ s[r] # "none"
    \/ /\ s # NoState
       /\ \A r \in Repos : t[r] = NoTree /\ b[r] = s[r] /\ s[r] # "none"
    \/ /\ s = NoState
       /\ \A r \in Repos : t[r] = NoTree /\ b[r] = IF r \in baselines THEN "base" ELSE "none"

\* What a command that succeeded leaves, as SuccessIsWhole says.
Done(c, b, t, s, users) ==
    /\ s = IF c.op = "delete" THEN NoState
           ELSE IF c.op = "remove" THEN c.prior
           ELSE [r \in Repos |-> c.plan[r].head]
    /\ \A r \in Repos \ users :
          IF Making(c)
          THEN t[r].dir = "checkout" /\ t[r].reg /\ t[r].on /\ b[r] = s[r]
          ELSE /\ t[r] = NoTree
               /\ b[r] = IF c.plan[r].drop = "keep" THEN c.plan[r].head ELSE "none"

Valid(c, b, t, users) ==
    \A r \in Repos \ users :
        t[r].dir = "checkout" /\ t[r].reg /\ t[r].on /\ b[r] = c.plan[r].head

StepCount(c) == Len(StepsOf(c.op, c.plan))

Failed(c) == c.pc = "reported" /\ c.outcome \in {"failed", "incomplete"}

\* Whether a step that took effect unnoticed may be among those undone.
Accountable(c) == Unmaking(c) \/ ~c.partial

\* Where the command of the lock's holder is.
Stage(c, b, t, g, s, users) ==
    /\ c.pc \in Working => PlanFits(c)
    /\ c.pc = "running" => c.at \in 1..(StepCount(c) + 1)
    /\ c.pc = "cleanup" => c.at \in 1..StepCount(c)
    /\ c.pc = "rollback" => c.at \in 0..StepCount(c)
    /\ c.pc \in {"validate", "commit"} => c.at = StepCount(c) + 1 /\ Making(c)
    /\ c.pc \in {"running", "validate", "commit"} => Accounted(c, b, t, g, s, users)
    /\ c.pc \in {"cleanup", "rollback"} /\ Accountable(c) => Accounted(c, b, t, g, s, users)
    /\ c.pc = "running" => Forward(c, b, t, s, users)
    /\ c.pc = "commit" => Valid(c, b, t, users)
    /\ Failed(c) => c.at = 0
    /\ Failed(c) /\ Accountable(c) => Accounted(c, b, t, g, s, users)
    /\ c.pc = "reported" /\ c.outcome = "ok" => Done(c, b, t, s, users)

CmdFields == {"pc", "op", "force", "known", "plan", "at", "canceled", "receipt", "added",
              "preserved", "held", "ignoreOwned", "madeGroup", "unreverted", "prior", "outcome",
              "found", "partial"}

\* A command's record, and what its plan may say.
Command(c) ==
    /\ c = [x \in CmdFields |-> c[x]]
    /\ c.op \in OpNames \cup {"none"}
    /\ c.pc # "idle" => c.op \in OpNames
    /\ c.at \in Nat
    /\ c.partial \in BOOLEAN
    /\ c.pc \notin {"rollback", "reported"} => c.unreverted = {}
    /\ c.pc \in {"idle", "planned", "locked"} => c.added = {} /\ ~c.madeGroup
    /\ \A r \in Repos :
          /\ c.plan[r].head \in {"none"} \cup Heads
          /\ c.op \in {"create", "checkout"} => c.plan[r].head # "none"
          /\ c.plan[r].drop = "forced" => c.force
          /\ c.op # "delete" => c.plan[r].drop = "keep"
          /\ c.op = "delete" => (c.plan[r].drop = "keep" <=> r \in baselines)

\* Nobody but wtree has acted, and no command has failed beyond repair.
Calm == moves = 0 /\ crashes = 0 /\ ~alert /\ \A p \in Procs : ~proc[p].partial

World ==
    /\ branch \in Refs /\ tree \in Paths /\ grouping \in BOOLEAN /\ state \in Refs
    /\ baselines \subseteq Repos /\ crashes \in Nat
    /\ Shaped(tree)
    /\ \A r \in baselines : branch[r] # "none"
    /\ moves = 0 => touched = {} /\ \A r \in Repos : branch[r] # "user"

\* The world is as a command should leave it.
Settled(c) == c.pc = "locked" \/ (c.pc = "reported" /\ c.outcome # "incomplete")

LInv ==
    /\ IInv
    /\ World
    /\ \A p \in Procs : Command(proc[p])
    /\ \A p \in Procs : Stage(proc[p], branch, tree, grouping, state, touched)
    /\ \A p \in Procs : proc[p].pc = "reported" /\ proc[p].outcome = "incomplete" => alert
    /\ moves = 0 => \A p \in Procs : \A r \in Repos : proc[p].plan[r].head # "user"
    /\ lock = Nobody /\ Calm => Whole(branch, tree, state)
    /\ \A p \in Procs : Settled(proc[p]) /\ Calm => Whole(branch, tree, state)
    /\ \A p \in Procs : proc[p].pc \in Working /\ Calm =>
          Whole(proc[p].found.branch, proc[p].found.tree, proc[p].prior)

-----------------------------------------------------------------------------
(* What a step does to the command's record                                 *)

\* The record d is c, but for its place, its notes, and its unreverted steps.
Kept(c, d) ==
    /\ d = [x \in CmdFields |-> d[x]]
    /\ d.op = c.op /\ d.force = c.force /\ d.plan = c.plan
    /\ d.prior = c.prior /\ d.found = c.found /\ d.outcome = c.outcome

OnlyMoves(p) ==
    /\ DOMAIN proc' = Procs
    /\ \A q \in Procs \ {p} : proc'[q] = proc[q]

\* A step of Execute, with what the command then notes.
Advances(p, c, d, added, made, partial) ==
    /\ OnlyMoves(p)
    /\ Kept(c, d) /\ d.unreverted = c.unreverted
    /\ d.added = added /\ d.madeGroup = made /\ d.partial = partial
    /\ \/ d.pc = "running" /\ d.at = c.at + 1
       \/ d.pc = "cleanup" /\ d.at = c.at
       \/ d.pc = "rollback" /\ d.at = c.at - 1 /\ Step(p)[1] \notin CleansUp

\* A step of the rollback.
Retreats(p, c, d, added, unreverted) ==
    /\ OnlyMoves(p)
    /\ Kept(c, d) /\ d.unreverted = unreverted
    /\ d.added = added /\ d.madeGroup = c.madeGroup /\ d.partial = c.partial
    /\ d.pc = "rollback" /\ d.at = c.at - 1

LEMMA SetsRecord ==
    ASSUME ProcOK, NEW p \in Procs, NEW record, Set(p, record)
    PROVE  proc'[p] = record /\ OnlyMoves(p)
BY DEF Set, ProcOK, OnlyMoves

\* The records a step of Execute starts from.
LEMMA AdvanceOf ==
    ASSUME ProcOK, NEW p \in Procs, NEW c, c = proc[p], Command(c), c.pc = "running",
           NEW d, d = proc'[p],
           NEW record, Kept(c, record), record.unreverted = c.unreverted,
           record.pc = "running", record.at = c.at
    PROVE  /\ Succeed(p, record) =>
                 /\ Advances(p, c, d, record.added, record.madeGroup, record.partial)
                 /\ d.pc = "running"
           /\ Fail(p, record) =>
                 /\ Advances(p, c, d, record.added, record.madeGroup, record.partial)
                 /\ d.pc # "running"
<1>1. record = [x \in CmdFields |-> record[x]]
  BY DEF Kept
<1>2. ASSUME Succeed(p, record)
      PROVE  /\ Advances(p, c, d, record.added, record.madeGroup, record.partial)
             /\ d.pc = "running"
  <2>1. d = [record EXCEPT !.at = @ + 1] /\ OnlyMoves(p)
    BY <1>2, SetsRecord DEF Succeed
  <2>2. d = [x \in CmdFields |-> d[x]]
    BY <1>1, <2>1
  <2>3. /\ d.pc = record.pc /\ d.op = record.op /\ d.force = record.force
        /\ d.plan = record.plan /\ d.prior = record.prior /\ d.found = record.found
        /\ d.outcome = record.outcome /\ d.unreverted = record.unreverted
        /\ d.added = record.added /\ d.madeGroup = record.madeGroup
        /\ d.partial = record.partial /\ d.at = record.at + 1
    BY <1>1, <2>1 DEF CmdFields
  <2> QED BY <2>1, <2>2, <2>3 DEF Kept, Advances
<1>3. ASSUME Fail(p, record)
      PROVE  /\ Advances(p, c, d, record.added, record.madeGroup, record.partial)
             /\ d.pc # "running"
  <2> DEFINE e == [record EXCEPT !.pc = "cleanup"]
             f == [record EXCEPT !.pc = "rollback", !.at = @ - 1]
  <2>1. e = [x \in CmdFields |-> e[x]] /\ f = [x \in CmdFields |-> f[x]]
    BY <1>1
  <2>2. /\ e.pc = "cleanup" /\ e.at = record.at
        /\ e.op = record.op /\ e.force = record.force
        /\ e.plan = record.plan /\ e.prior = record.prior /\ e.found = record.found
        /\ e.outcome = record.outcome /\ e.unreverted = record.unreverted
        /\ e.added = record.added /\ e.madeGroup = record.madeGroup
        /\ e.partial = record.partial
    BY <1>1 DEF CmdFields
  <2>3. /\ f.pc = "rollback" /\ f.at = record.at - 1
        /\ f.op = record.op /\ f.force = record.force
        /\ f.plan = record.plan /\ f.prior = record.prior /\ f.found = record.found
        /\ f.outcome = record.outcome /\ f.unreverted = record.unreverted
        /\ f.added = record.added /\ f.madeGroup = record.madeGroup
        /\ f.partial = record.partial
    BY <1>1 DEF CmdFields
  <2>4. \/ d = e /\ Step(p)[1] \in CleansUp
        \/ d = f /\ Step(p)[1] \notin CleansUp
    BY <1>3, SetsRecord DEF Fail
  <2>5. OnlyMoves(p)
    BY <1>3, SetsRecord DEF Fail
  <2> HIDE DEF e, f
  <2> QED BY <2>1, <2>2, <2>3, <2>4, <2>5 DEF Kept, Advances
<1> QED BY <1>2, <1>3

\* A record with the same command and plan as c is a command's record as well.
LEMMA CommandKept ==
    ASSUME NEW c, Command(c), c.pc # "idle", NEW d, d = [x \in CmdFields |-> d[x]],
           d.op = c.op, d.force = c.force, d.plan = c.plan,
           d.at \in Nat, d.partial \in BOOLEAN,
           d.pc \notin {"rollback", "reported"} => d.unreverted = {},
           d.pc \in {"idle", "planned", "locked"} => d.added = {} /\ ~d.madeGroup
    PROVE  Command(d)
<1>1. /\ d.op \in OpNames
      /\ \A r \in Repos :
            /\ d.plan[r].head \in {"none"} \cup Heads
            /\ d.op \in {"create", "checkout"} => d.plan[r].head # "none"
            /\ d.plan[r].drop = "forced" => d.force
            /\ d.op # "delete" => d.plan[r].drop = "keep"
            /\ d.op = "delete" => (d.plan[r].drop = "keep" <=> r \in baselines)
  BY DEF Command
<1> QED BY ONLY <1>1, d = [x \in CmdFields |-> d[x]], d.at \in Nat, d.partial \in BOOLEAN,
           d.pc \notin {"rollback", "reported"} => d.unreverted = {},
           d.pc \in {"idle", "planned", "locked"} => d.added = {} /\ ~d.madeGroup
           DEF Command

LEMMA PlanKept ==
    ASSUME NEW c, PlanFits(c), NEW d,
           d.op = c.op, d.plan = c.plan, d.found = c.found, d.prior = c.prior
    PROVE  /\ PlanFits(d) /\ StepCount(d) = StepCount(c)
           /\ Making(d) = Making(c) /\ Unmaking(d) = Unmaking(c)
<1>1. Making(d) = Making(c) /\ Unmaking(d) = Unmaking(c) /\ StepCount(d) = StepCount(c)
  BY DEF Making, Unmaking, StepCount
<1> QED BY <1>1 DEF PlanFits

LEMMA KeptItself ==
    ASSUME NEW c, Command(c)
    PROVE  Kept(c, c)
BY DEF Kept, Command

LEMMA RetreatOf ==
    ASSUME ProcOK, NEW p \in Procs, NEW c, c = proc[p], Command(c),
           NEW d, d = proc'[p],
           NEW record, Kept(c, record), record.unreverted = c.unreverted,
           record.at = c.at, record.madeGroup = c.madeGroup, record.partial = c.partial
    PROVE  /\ Undone(p, record) => Retreats(p, c, d, record.added, c.unreverted)
           /\ NotUndone(p, record) =>
                 Retreats(p, c, d, record.added, c.unreverted \cup {Step(p)})
<1>1. record = [x \in CmdFields |-> record[x]]
  BY DEF Kept
<1>2. ASSUME NEW r, r = [x \in CmdFields |-> r[x]], Undone(p, r)
      PROVE  /\ OnlyMoves(p)
             /\ d = [x \in CmdFields |-> d[x]]
             /\ d.pc = "rollback" /\ d.at = r.at - 1
             /\ d.op = r.op /\ d.force = r.force /\ d.plan = r.plan /\ d.prior = r.prior
             /\ d.found = r.found /\ d.outcome = r.outcome /\ d.unreverted = r.unreverted
             /\ d.added = r.added /\ d.madeGroup = r.madeGroup /\ d.partial = r.partial
  <2>1. d = [r EXCEPT !.pc = "rollback", !.at = @ - 1] /\ OnlyMoves(p)
    BY <1>2, SetsRecord DEF Undone
  <2> QED BY <1>2, <2>1 DEF CmdFields
<1>3. ASSUME Undone(p, record)
      PROVE  Retreats(p, c, d, record.added, c.unreverted)
  BY <1>1, <1>2, <1>3 DEF Kept, Retreats
<1>4. ASSUME NotUndone(p, record)
      PROVE  Retreats(p, c, d, record.added, c.unreverted \cup {Step(p)})
  <2>1. PICK r : r = [record EXCEPT !.unreverted = @ \cup {Step(p)}]
    OBVIOUS
  <2>2. /\ r = [x \in CmdFields |-> r[x]]
        /\ r.at = record.at
        /\ r.op = record.op /\ r.force = record.force /\ r.plan = record.plan
        /\ r.prior = record.prior /\ r.found = record.found /\ r.outcome = record.outcome
        /\ r.unreverted = record.unreverted \cup {Step(p)}
        /\ r.added = record.added /\ r.madeGroup = record.madeGroup
        /\ r.partial = record.partial
    BY <1>1, <2>1 DEF CmdFields
  <2>3. Undone(p, r)
    BY <1>4, <2>1 DEF NotUndone
  <2> QED BY <1>2, <2>2, <2>3 DEF Kept, Retreats
<1> QED BY <1>3, <1>4

-----------------------------------------------------------------------------
(* Pending steps                                                            *)

LEMMA StepOf ==
    ASSUME NEW p \in Procs, NEW c, c = proc[p], Command(c), c.pc # "idle",
           c.at \in 1..StepCount(c)
    PROVE  /\ Step(p) = StepsOf(c.op, c.plan)[c.at]
           /\ Step(p) = <<Step(p)[1], Step(p)[2]>>
           /\ c.op = "create" => Step(p)[1] \in {"branch", "group", "add", "inspect", "ignore"}
           /\ c.op = "checkout" => Step(p)[1] \in {"group", "add"}
           /\ c.op = "remove" => Step(p)[1] = "remove"
           /\ c.op = "delete" => Step(p)[1] \in {"remove", "drop", "unstate"}
           /\ Step(p)[1] # "unstate" => Step(p)[2] \in Repos
           /\ Step(p)[1] = "unstate" => Step(p)[2] = Nobody
           /\ Step(p)[1] = "drop" => c.plan[Step(p)[2]].drop # "keep"
<1>1. c.op \in OpNames
  BY DEF Command
<1>2. Step(p) = StepsOf(c.op, c.plan)[c.at]
  BY DEF Step, Steps
<1>3. c.at \in 1..Len(StepsOf(c.op, c.plan))
  BY DEF StepCount
<1> HIDE DEF OpNames
<1> QED BY ONLY <1>1, <1>2, <1>3, StepFacts

LEMMA PendingAdvances ==
    ASSUME NEW p \in Procs, NEW c, c = proc[p], Command(c), c.pc = "running",
           c.at \in 1..StepCount(c),
           NEW d, NEW added, NEW made, NEW partial, Advances(p, c, d, added, made, partial),
           NEW kind, NEW r
    PROVE  /\ Pending(c, kind, r) => Pending(d, kind, r)
           /\ d.pc \in {"running", "cleanup"} /\ Step(p) = <<kind, r>> => Pending(d, kind, r)
           /\ d.pc = "running" /\ Pending(d, kind, r) =>
                 Pending(c, kind, r) \/ Step(p) = <<kind, r>>
<1>1. c.at \in Nat /\ c.at >= 1 /\ Limit(c) = c.at - 1
  BY DEF Limit, Command
<1>2. /\ d.pc \in {"running", "cleanup"} => Limit(d) = c.at
      /\ d.pc = "rollback" => Limit(d) = c.at - 1
      /\ d.pc \in {"running", "cleanup", "rollback"}
  BY <1>1 DEF Advances, Limit
<1>3. d.op = c.op /\ d.plan = c.plan
  BY DEF Advances, Kept
<1>4. Step(p) = StepsOf(c.op, c.plan)[c.at]
  BY DEF Step, Steps
<1>5. Limit(c) <= Limit(d) /\ Limit(d) \in Nat /\ Limit(c) \in Nat
  BY <1>1, <1>2
<1>6. ASSUME Pending(c, kind, r) PROVE Pending(d, kind, r)
  BY <1>3, <1>5, <1>6 DEF Pending
<1>7. ASSUME d.pc \in {"running", "cleanup"}, Step(p) = <<kind, r>> PROVE Pending(d, kind, r)
  <2>1. c.at \in 1..Limit(d)
    BY <1>1, <1>2, <1>7
  <2> QED BY <2>1, <1>3, <1>4, <1>7 DEF Pending
<1>8. ASSUME d.pc = "running", Pending(d, kind, r)
      PROVE  Pending(c, kind, r) \/ Step(p) = <<kind, r>>
  <2>1. PICK j \in 1..c.at : StepsOf(c.op, c.plan)[j] = <<kind, r>>
    BY <1>2, <1>3, <1>8 DEF Pending
  <2>2. CASE j = c.at
    BY <2>1, <2>2, <1>4
  <2>3. CASE j # c.at
    <3>1. j \in 1..(c.at - 1)
      BY <2>1, <2>3, <1>1
    <3> QED BY <3>1, <2>1, <1>1 DEF Pending
  <2> QED BY <2>2, <2>3
<1> QED BY <1>6, <1>7, <1>8

LEMMA PendingRetreats ==
    ASSUME NEW p \in Procs, NEW c, c = proc[p], Command(c), c.pc \in {"cleanup", "rollback"},
           c.at \in 1..StepCount(c),
           NEW d, NEW added, NEW unreverted, Retreats(p, c, d, added, unreverted),
           NEW kind, NEW r, Pending(c, kind, r)
    PROVE  Pending(d, kind, r) \/ Step(p) = <<kind, r>>
<1>1. c.at \in Nat /\ c.at >= 1 /\ Limit(c) = c.at /\ Limit(d) = c.at - 1
  BY DEF Limit, Command, Retreats
<1>2. d.op = c.op /\ d.plan = c.plan
  BY DEF Retreats, Kept
<1>3. PICK j \in 1..c.at : StepsOf(c.op, c.plan)[j] = <<kind, r>>
  BY <1>1 DEF Pending
<1>4. CASE j = c.at
  BY <1>3, <1>4 DEF Step, Steps
<1>5. CASE j # c.at
  <2>1. j \in 1..(c.at - 1)
    BY <1>1, <1>3, <1>5
  <2> QED BY <2>1, <1>1, <1>2, <1>3 DEF Pending
<1> QED BY <1>4, <1>5

-----------------------------------------------------------------------------
(* What is accounted for stays accounted for                                *)

\* A step that was to be undone still is, or is named.
Inherits(c, d, kind, r) ==
    Pending(c, kind, r) => Pending(d, kind, r) \/ <<kind, r>> \in d.unreverted

\* The record d is of the same command as c, and forgets no unreverted step.
Heir(c, d) ==
    /\ d.op = c.op /\ d.prior = c.prior /\ d.found = c.found
    /\ c.unreverted \subseteq d.unreverted

LEMMA NamedInherits ==
    ASSUME NEW c, NEW d, Heir(c, d), NEW r, Named(c, r)
    PROVE  Named(d, r)
BY DEF Heir, Named

LEMMA BranchInherits ==
    ASSUME NEW c, NEW d, Heir(c, d), NEW r, NEW b, BranchAccounted(c, r, b),
           Inherits(c, d, "branch", r), Inherits(c, d, "drop", r)
    PROVE  BranchAccounted(d, r, b)
<1>1. "branch" \in Kinds /\ "drop" \in Kinds
  BY DEF Kinds
<1>2. CASE b = c.found.branch[r] \/ Named(c, r)
  BY <1>2, NamedInherits DEF BranchAccounted, Heir
<1>3. CASE \/ c.op = "create" /\ Pending(c, "branch", r)
           \/ c.op = "delete" /\ Pending(c, "drop", r)
  <2>1. \/ d.op = "create" /\ Pending(d, "branch", r)
        \/ d.op = "delete" /\ Pending(d, "drop", r)
        \/ <<"branch", r>> \in d.unreverted
        \/ <<"drop", r>> \in d.unreverted
    BY <1>3 DEF Heir, Inherits
  <2> QED BY <1>1, <2>1 DEF BranchAccounted, Named
<1> QED BY <1>2, <1>3 DEF BranchAccounted

LEMMA TreeInherits ==
    ASSUME NEW c, NEW d, Heir(c, d), NEW r, NEW t, TreeAccounted(c, r, t),
           Inherits(c, d, "remove", r), r \in c.added => r \in d.added
    PROVE  TreeAccounted(d, r, t)
<1>1. "remove" \in Kinds
  BY DEF Kinds
<1>2. CASE Same(t, c.found.tree[r]) \/ Named(c, r)
  BY <1>2, NamedInherits DEF TreeAccounted, Heir
<1>3. CASE Making(c) /\ r \in c.added
  BY <1>3 DEF TreeAccounted, Heir, Making
<1>4. CASE Unmaking(c) /\ t.dir = "none" /\ Pending(c, "remove", r)
  <2>1. Pending(d, "remove", r) \/ <<"remove", r>> \in d.unreverted
    BY <1>4 DEF Inherits
  <2>2. Unmaking(d)
    BY <1>4 DEF Heir, Unmaking
  <2> QED BY <1>1, <1>4, <2>1, <2>2 DEF TreeAccounted, Named
<1> QED BY <1>2, <1>3, <1>4 DEF TreeAccounted

LEMMA AddedInherits ==
    ASSUME NEW c, NEW d, Heir(c, d), NEW r, AddedAccounted(c, r),
           Inherits(c, d, "add", r), r \in d.added => r \in c.added
    PROVE  AddedAccounted(d, r)
<1>1. "add" \in Kinds
  BY DEF Kinds
<1>2. SUFFICES ASSUME r \in d.added
               PROVE  /\ d.found.tree[r].dir = "none" /\ ~d.found.tree[r].reg
                      /\ Named(d, r) \/ Pending(d, "add", r)
  BY DEF AddedAccounted
<1>3. /\ c.found.tree[r].dir = "none" /\ ~c.found.tree[r].reg
      /\ Named(c, r) \/ Pending(c, "add", r)
  BY <1>2 DEF AddedAccounted
<1>4. Named(d, r) \/ Pending(d, "add", r)
  BY <1>1, <1>3, NamedInherits DEF Inherits, Named
<1> QED BY <1>3, <1>4 DEF Heir

LEMMA StateInherits ==
    ASSUME NEW c, NEW d, Heir(c, d), NEW s, StateAccounted(c, s),
           Inherits(c, d, "unstate", Nobody)
    PROVE  StateAccounted(d, s)
BY DEF StateAccounted, Heir, Inherits

LEMMA GroupInherits ==
    ASSUME NEW c, NEW d, Heir(c, d), NEW g, GroupAccounted(c, g),
           \A r \in Repos : Inherits(c, d, "group", r), c.madeGroup => d.madeGroup
    PROVE  GroupAccounted(d, g)
BY DEF GroupAccounted, Heir, Inherits

\* What keeps all of it: no step is forgotten, and the notes are the same.
LEMMA AccountedInherits ==
    ASSUME NEW c, NEW d, Heir(c, d), d.added = c.added, d.madeGroup = c.madeGroup,
           \A kind \in Kinds, r \in Repos : Inherits(c, d, kind, r),
           Inherits(c, d, "unstate", Nobody),
           NEW b, NEW t, NEW g, NEW s, NEW users, Accounted(c, b, t, g, s, users)
    PROVE  Accounted(d, b, t, g, s, users)
<1>1. \A r \in Repos : /\ Inherits(c, d, "branch", r) /\ Inherits(c, d, "drop", r)
                       /\ Inherits(c, d, "remove", r) /\ Inherits(c, d, "add", r)
                       /\ Inherits(c, d, "group", r)
  BY DEF Kinds
<1>2. ASSUME NEW r \in Repos \ users
      PROVE  BranchAccounted(d, r, b[r]) /\ TreeAccounted(d, r, t[r]) /\ AddedAccounted(d, r)
  <2>1. BranchAccounted(c, r, b[r]) /\ TreeAccounted(c, r, t[r]) /\ AddedAccounted(c, r)
    BY DEF Accounted
  <2>2. BranchAccounted(d, r, b[r])
    BY <1>1, <2>1, BranchInherits
  <2>3. TreeAccounted(d, r, t[r])
    BY <1>1, <2>1, TreeInherits
  <2>4. AddedAccounted(d, r)
    BY <1>1, <2>1, AddedInherits
  <2> QED BY <2>2, <2>3, <2>4
<1>3. StateAccounted(d, s)
  BY StateInherits DEF Accounted
<1>4. GroupAccounted(d, g)
  BY <1>1, GroupInherits DEF Accounted
<1>5. d.madeGroup => ~d.found.grouping
  BY DEF Accounted, Heir
<1> QED BY <1>2, <1>3, <1>4, <1>5 DEF Accounted

-----------------------------------------------------------------------------
(* Steps of the command that holds the lock                                 *)

\* The rest of the system during a step of process p.
Aside(p) ==
    /\ OnlyMoves(p)
    /\ UNCHANGED <<userVars, lock, alert, crashes>>

\* What a step of the lock's holder has to keep, for the rest to stay true.
LEMMA HolderKeeps ==
    ASSUME LInv, IInv', NEW p \in Procs, NEW c, c = proc[p], c.pc \in Working,
           NEW d, d = proc'[p], Aside(p),
           d.pc \in Working \/ (d.pc = "reported" /\ d.outcome # "incomplete"),
           d.plan = c.plan, d.found = c.found, d.prior = c.prior,
           c.partial => d.partial,
           World', Command(d),
           Stage(d, branch', tree', grouping', state', touched),
           d.pc = "reported" /\ Calm => Whole(branch', tree', state')
    PROVE  LInv'
<1>1. \A q \in Procs \ {p} : proc'[q] = proc[q] /\ proc[q].pc \in {"idle", "planned"}
  BY DEF LInv, IInv, LockExcludes, Working, Aside, OnlyMoves
<1>2. lock' = p /\ p # Nobody
  BY WorldAssumption DEF LInv, IInv, LockExcludes, Working, Aside
<1>3. UNCHANGED <<touched, moves, baselines, alert, crashes>>
  BY DEF Aside, userVars
<1>4. Calm' => Calm
  BY <1>1, <1>3 DEF Calm
<1>5. (\A q \in Procs : Command(proc[q]))'
  <2> SUFFICES ASSUME NEW q \in Procs PROVE Command(proc[q])'
    OBVIOUS
  <2>1. Command(proc[q]) \/ q = p
    BY DEF LInv
  <2>2. CASE q = p
    BY <1>3, <2>2 DEF Command
  <2>3. CASE q # p
    <3>1. proc'[q] = proc[q] /\ Command(proc[q]) /\ baselines' = baselines
      BY <1>1, <1>3, <2>1, <2>3
    <3> QED BY ONLY <3>1 DEF Command
  <2> QED BY <2>2, <2>3
<1>6. (\A q \in Procs : Stage(proc[q], branch, tree, grouping, state, touched))'
  <2> SUFFICES ASSUME NEW q \in Procs
               PROVE  Stage(proc[q], branch, tree, grouping, state, touched)'
    OBVIOUS
  <2>2. CASE q = p
    BY <1>3, <2>2 DEF Stage, PlanFits
  <2>3. CASE q # p
    <3>1. proc'[q].pc \in {"idle", "planned"}
      BY <1>1, <2>3
    <3> QED BY <3>1 DEF Stage, Working, Failed
  <2> QED BY <2>2, <2>3
<1>7. (moves = 0 => \A q \in Procs : \A r \in Repos : proc[q].plan[r].head # "user")'
  <2> SUFFICES ASSUME moves' = 0, NEW q \in Procs, NEW r \in Repos
               PROVE  proc'[q].plan[r].head # "user"
    OBVIOUS
  <2>1. proc[q].plan[r].head # "user"
    BY <1>3 DEF LInv
  <2> QED BY <2>1, <1>1
<1>8. (lock = Nobody /\ Calm => Whole(branch, tree, state))'
  BY <1>2
<1>9. (\A q \in Procs : Settled(proc[q]) /\ Calm => Whole(branch, tree, state))'
  <2> SUFFICES ASSUME NEW q \in Procs, Settled(proc'[q]), Calm'
               PROVE  Whole(branch, tree, state)'
    BY DEF Settled
  <2>1. q = p
    BY <1>1 DEF Settled
  <2>2. d.pc = "reported"
    BY <2>1 DEF Settled, Working
  <2>3. Whole(branch', tree', state')
    BY <1>4, <2>2
  <2> QED BY <2>3, <1>3 DEF Whole
<1>10. (\A q \in Procs : proc[q].pc \in Working /\ Calm =>
            Whole(proc[q].found.branch, proc[q].found.tree, proc[q].prior))'
  <2> SUFFICES ASSUME NEW q \in Procs, proc'[q].pc \in Working, Calm'
               PROVE  Whole(proc[q].found.branch, proc[q].found.tree, proc[q].prior)'
    OBVIOUS
  <2>1. q = p
    BY <1>1 DEF Working
  <2>2. Whole(c.found.branch, c.found.tree, c.prior)
    BY <1>4 DEF LInv
  <2>3. /\ proc'[q].found.branch = c.found.branch /\ proc'[q].found.tree = c.found.tree
        /\ proc'[q].prior = c.prior /\ baselines' = baselines
    BY <1>3, <2>1
  <2> QED BY ONLY <2>2, <2>3 DEF Whole
<1>11. (\A q \in Procs : proc[q].pc = "reported" /\ proc[q].outcome = "incomplete" => alert)'
  BY <1>1 DEF Working
<1> QED BY <1>5, <1>6, <1>7, <1>8, <1>9, <1>10, <1>11 DEF LInv

-----------------------------------------------------------------------------
(* Execute                                                                  *)

\* What holds of the command that executes a step.
LEMMA Running ==
    ASSUME LInv, NEW p \in Procs, NEW kind, Executing(p, kind), NEW c, c = proc[p]
    PROVE  /\ ProcOK /\ World /\ Command(c) /\ PlanFits(c)
           /\ c.pc = "running" /\ c.at \in 1..StepCount(c) /\ c.unreverted = {}
           /\ Accounted(c, branch, tree, grouping, state, touched)
           /\ Forward(c, branch, tree, state, touched)
           /\ Step(p) = <<kind, Repo(p)>>
           /\ kind # "unstate" => Repo(p) \in Repos
           /\ kind = "unstate" => Repo(p) = Nobody
           /\ c.op = "create" => kind \in {"branch", "group", "add", "inspect", "ignore"}
           /\ c.op = "checkout" => kind \in {"group", "add"}
           /\ c.op = "remove" => kind = "remove"
           /\ c.op = "delete" => kind \in {"remove", "drop", "unstate"}
           /\ kind = "drop" => c.plan[Repo(p)].drop # "keep"
           /\ c.op \in OpNames
<1>1. /\ ProcOK /\ World /\ Command(c) /\ c.pc = "running"
      /\ Stage(c, branch, tree, grouping, state, touched)
  BY DEF LInv, IInv, Executing, At
<1>2. /\ PlanFits(c) /\ Accounted(c, branch, tree, grouping, state, touched)
      /\ Forward(c, branch, tree, state, touched) /\ c.at \in 1..(StepCount(c) + 1)
  BY <1>1 DEF Stage, Working
<1>3. c.unreverted = {} /\ c.op \in OpNames
  BY <1>1 DEF Command
<1>4. c.at <= StepCount(c)
  BY DEF Executing, Steps, StepCount
<1>5. StepCount(c) \in Nat
  BY <1>3, StepFacts DEF StepCount
<1>6. c.at \in 1..StepCount(c)
  BY <1>2, <1>4, <1>5
<1>7. Step(p)[1] = kind /\ Repo(p) = Step(p)[2]
  BY DEF Executing, IsKind, Repo
<1> HIDE DEF OpNames
<1> QED BY <1>1, <1>2, <1>3, <1>6, <1>7, StepOf

LEMMA AdvanceInherits ==
    ASSUME NEW p \in Procs, NEW c, c = proc[p], Command(c), c.pc = "running",
           c.at \in 1..StepCount(c),
           NEW d, NEW added, NEW made, NEW partial, Advances(p, c, d, added, made, partial)
    PROVE  Heir(c, d) /\ \A kind, r : Inherits(c, d, kind, r)
<1>1. Heir(c, d)
  BY DEF Heir, Advances, Kept
<1>2. ASSUME NEW kind, NEW r PROVE Inherits(c, d, kind, r)
  BY PendingAdvances DEF Inherits
<1> QED BY <1>1, <1>2

\* A step that succeeds adds itself to those to undo, and nothing else.
Follows(p, c, d) ==
    \A kind, r : Pending(d, kind, r) => Pending(c, kind, r) \/ Step(p) = <<kind, r>>

LEMMA RunningPending ==
    ASSUME NEW p \in Procs, NEW c, c = proc[p], Command(c), c.pc = "running",
           c.at \in 1..StepCount(c),
           NEW d, NEW added, NEW made, NEW partial, Advances(p, c, d, added, made, partial)
    PROVE  d.pc = "running" => Follows(p, c, d)
<1>1. ASSUME NEW kind, NEW r
      PROVE  d.pc = "running" /\ Pending(d, kind, r) =>
                Pending(c, kind, r) \/ Step(p) = <<kind, r>>
  BY PendingAdvances, ZenonT(40)
<1> QED BY <1>1 DEF Follows

\* What a step of Execute has to keep.
LEMMA AdvanceKeeps ==
    ASSUME LInv, IInv', NEW p \in Procs, NEW c, c = proc[p], Command(c), c.pc = "running",
           PlanFits(c), c.at \in 1..StepCount(c),
           NEW d, d = proc'[p],
           NEW added, NEW made, NEW partial \in BOOLEAN,
           Advances(p, c, d, added, made, partial), c.partial => partial,
           StepFrame, World',
           d.pc = "running" \/ Accountable(d) =>
              Accounted(d, branch', tree', grouping', state', touched),
           d.pc = "running" => Forward(d, branch', tree', state', touched)
    PROVE  LInv'
<1>1. /\ d.op = c.op /\ d.plan = c.plan /\ d.found = c.found /\ d.prior = c.prior
      /\ d.force = c.force /\ d.partial = partial /\ d.outcome = c.outcome
      /\ d.unreverted = c.unreverted /\ d = [x \in CmdFields |-> d[x]]
  BY DEF Advances, Kept
<1>2. c.at \in Nat /\ c.at >= 1
  BY DEF Command
<1>3. \/ d.pc = "running" /\ d.at = c.at + 1
      \/ d.pc = "cleanup" /\ d.at = c.at
      \/ d.pc = "rollback" /\ d.at = c.at - 1
  BY DEF Advances
<1>4. StepCount(d) = StepCount(c)
  BY <1>1 DEF StepCount
<1>5. c.unreverted = {}
  BY DEF Command
<1>6. Command(d)
  <2>1. d.at \in Nat
    BY <1>2, <1>3
  <2>2. d.pc \notin {"idle", "planned", "locked"}
    BY <1>3
  <2>3. c.pc # "idle"
    OBVIOUS
  <2> QED BY <1>1, <1>5, <2>1, <2>2, <2>3, CommandKept
<1>7. PlanFits(d)
  BY <1>1, PlanKept
<1>8. StepCount(c) \in Nat
  BY StepFacts DEF StepCount, Command
<1>9. Stage(d, branch', tree', grouping', state', touched)
  <2>1. /\ d.pc = "running" => d.at \in 1..(StepCount(d) + 1)
        /\ d.pc = "cleanup" => d.at \in 1..StepCount(d)
        /\ d.pc = "rollback" => d.at \in 0..StepCount(d)
    BY <1>2, <1>3, <1>4, <1>8
  <2>2. d.pc \notin {"validate", "commit", "reported"}
    BY <1>3
  <2> QED BY <1>7, <2>1, <2>2 DEF Stage, Failed
<1>10. Aside(p) /\ d.pc \in Working
  BY <1>3 DEF Aside, Advances, StepFrame, Working
<1>11. c.pc \in Working
  BY DEF Working
<1> QED BY <1>1, <1>6, <1>9, <1>10, <1>11, <1>3, HolderKeeps

\* A step that changes nothing keeps everything, whether it fails or not.
LEMMA IdleAdvanceKeeps ==
    ASSUME LInv, IInv', NEW p \in Procs, NEW kind, Executing(p, kind), StepFrame,
           UNCHANGED <<world, state>>,
           \/ Fail(p, proc[p])
           \/ Succeed(p, proc[p]) /\ kind \in {"group", "inspect", "ignore"}
    PROVE  LInv'
<1>1. PICK c : c = proc[p]
  OBVIOUS
<1>2. PICK d : d = proc'[p]
  OBVIOUS
<1>3. /\ ProcOK /\ World /\ Command(c) /\ PlanFits(c)
      /\ c.pc = "running" /\ c.at \in 1..StepCount(c) /\ c.unreverted = {}
      /\ Accounted(c, branch, tree, grouping, state, touched)
      /\ Forward(c, branch, tree, state, touched)
      /\ Step(p) = <<kind, Repo(p)>>
  BY <1>1, Running
<1>4. Kept(c, c)
  BY <1>3, KeptItself
<1>5. /\ Advances(p, c, d, c.added, c.madeGroup, c.partial)
      /\ d.pc = "running" => kind \in {"group", "inspect", "ignore"}
  BY <1>1, <1>2, <1>3, <1>4, AdvanceOf
<1>6. c.partial \in BOOLEAN
  BY <1>3 DEF Command
<1>7. Heir(c, d) /\ \A k, r : Inherits(c, d, k, r)
  BY <1>1, <1>3, <1>5, AdvanceInherits
<1>8. d.added = c.added /\ d.madeGroup = c.madeGroup /\ d.op = c.op
  BY <1>5 DEF Advances, Kept
<1>9. Accounted(d, branch, tree, grouping, state, touched)
  BY <1>3, <1>7, <1>8, AccountedInherits
<1>10. UNCHANGED <<branch, tree, grouping, state, touched, moves, baselines, crashes>>
  BY DEF world, StepFrame, userVars
<1>11. ASSUME d.pc = "running" PROVE Forward(d, branch, tree, state, touched)
  <2>1. \A k, r : Pending(d, k, r) => Pending(c, k, r) \/ Step(p) = <<k, r>>
    <3>1. Command(c) /\ c.pc = "running" /\ c.at \in 1..StepCount(c)
      BY <1>3
    <3>2. Advances(p, c, d, c.added, c.madeGroup, c.partial) /\ d.pc = "running"
      BY <1>5, <1>11
    <3>3. Follows(p, c, d)
      BY <1>1, <3>1, <3>2, RunningPending
    <3> QED BY <3>3 DEF Follows
  <2>2. \A k, r : k \in {"add", "remove", "drop", "unstate"} /\ Pending(d, k, r) => Pending(c, k, r)
    <3> SUFFICES ASSUME NEW k \in {"add", "remove", "drop", "unstate"}, NEW r, Pending(d, k, r)
                 PROVE  Pending(c, k, r)
      OBVIOUS
    <3>1. Pending(c, k, r) \/ Step(p)[1] = k
      BY <2>1
    <3>2. Step(p)[1] \in {"group", "inspect", "ignore"}
      BY <1>3, <1>5, <1>11
    <3> QED BY <3>1, <3>2
  <2>3. Making(d) = Making(c) /\ Unmaking(d) = Unmaking(c)
    BY <1>8 DEF Making, Unmaking
  <2> QED BY <1>3, <1>8, <2>2, <2>3 DEF Forward
<1>12. World'
  BY <1>3, <1>10 DEF World
<1> QED BY <1>1, <1>2, <1>3, <1>5, <1>6, <1>9, <1>10, <1>11, <1>12, AdvanceKeeps

\* What an heir keeps of each account.
LEMMA Inherited ==
    ASSUME NEW c, NEW d, Heir(c, d), \A kind, r : Inherits(c, d, kind, r)
    PROVE  /\ \A r, b : BranchAccounted(c, r, b) => BranchAccounted(d, r, b)
           /\ \A r, t : TreeAccounted(c, r, t) /\ (r \in c.added => r \in d.added) =>
                 TreeAccounted(d, r, t)
           /\ \A r : AddedAccounted(c, r) /\ (r \in d.added => r \in c.added) =>
                 AddedAccounted(d, r)
           /\ \A s : StateAccounted(c, s) => StateAccounted(d, s)
           /\ (c.madeGroup => d.madeGroup) =>
                 \A g : GroupAccounted(c, g) => GroupAccounted(d, g)
BY BranchInherits, TreeInherits, AddedInherits, StateInherits, GroupInherits

LEMMA BranchExecutes ==
    ASSUME LInv, IInv', NEW p \in Procs, ExecBranch(p)
    PROVE  LInv'
<1>1. PICK c : c = proc[p]
  OBVIOUS
<1>2. PICK d : d = proc'[p]
  OBVIOUS
<1>3. PICK r : r = Repo(p)
  OBVIOUS
<1>4. Executing(p, "branch") /\ StepFrame
  BY DEF ExecBranch
<1>5. /\ ProcOK /\ World /\ Command(c) /\ PlanFits(c)
      /\ c.pc = "running" /\ c.at \in 1..StepCount(c) /\ c.unreverted = {}
      /\ Accounted(c, branch, tree, grouping, state, touched)
      /\ Forward(c, branch, tree, state, touched)
      /\ Step(p) = <<"branch", r>> /\ r \in Repos /\ c.op \in OpNames
      /\ c.op = "create"
  BY <1>1, <1>3, <1>4, Running DEF OpNames
<1>6. CASE FailUntouched(p, BranchCreatable(r))
  BY <1>4, <1>6, IdleAdvanceKeeps DEF FailUntouched
<1>7. CASE /\ branch' = [branch EXCEPT ![r] = c.plan[r].head]
           /\ UNCHANGED <<tree, grouping, state>>
           /\ Succeed(p, c) \/ Fail(p, Unnoticed(p))
  <2>1. PICK partial \in BOOLEAN :
           /\ Advances(p, c, d, c.added, c.madeGroup, partial)
           /\ c.partial => partial
           /\ d.pc # "running" => partial
    <3>1. CASE Succeed(p, c)
      <4>1. Advances(p, c, d, c.added, c.madeGroup, c.partial) /\ d.pc = "running"
        BY <1>1, <1>2, <1>5, <3>1, AdvanceOf, KeptItself
      <4> QED BY <4>1, <1>5 DEF Command
    <3>2. CASE Fail(p, Unnoticed(p))
      <4>1. PICK e : e = [c EXCEPT !.partial = TRUE]
        OBVIOUS
      <4>2. /\ Kept(c, e) /\ e.unreverted = c.unreverted /\ e.pc = c.pc /\ e.at = c.at
            /\ e.partial = TRUE /\ e.madeGroup = c.madeGroup /\ e.added = c.added
        BY <1>5, <4>1 DEF Kept, Command, CmdFields
      <4>3. Fail(p, e)
        BY <1>1, <3>2, <4>1 DEF Unnoticed
      <4>4. Advances(p, c, d, e.added, e.madeGroup, e.partial) /\ d.pc # "running"
        BY <1>1, <1>2, <1>5, <4>2, <4>3, AdvanceOf
      <4> QED BY <4>2, <4>4
    <3> QED BY <1>7, <3>1, <3>2
  <2>2. Heir(c, d) /\ \A k, x : Inherits(c, d, k, x)
    BY <1>1, <1>5, <2>1, AdvanceInherits
  <2>3. /\ d.added = c.added /\ d.madeGroup = c.madeGroup /\ d.op = c.op
        /\ d.found = c.found /\ d.partial = partial
    BY <2>1 DEF Advances, Kept
  <2>4. ~Accountable(d) \/ d.pc = "running"
    BY <1>5, <2>1, <2>3 DEF Accountable, Unmaking
  <2>5. ASSUME d.pc = "running"
        PROVE  Accounted(d, branch', tree', grouping', state', touched')
    <3>1. Pending(d, "branch", r)
      <4>1. Command(c) /\ c.pc = "running" /\ c.at \in 1..StepCount(c)
        BY <1>5
      <4>2. Advances(p, c, d, c.added, c.madeGroup, partial)
        BY <2>1
      <4>3. d.pc \in {"running", "cleanup"} /\ Step(p) = <<"branch", r>>
        BY <1>5, <2>5
      <4> QED BY <1>1, <4>1, <4>2, <4>3, PendingAdvances
    <3>2. ASSUME NEW x \in Repos \ touched PROVE BranchAccounted(d, x, branch'[x])
      <4>1. BranchAccounted(c, x, branch[x])
        BY <1>5 DEF Accounted
      <4>2. CASE x = r
        BY <1>5, <2>3, <3>1, <4>2 DEF BranchAccounted
      <4>3. CASE x # r
        <5>1. branch'[x] = branch[x]
          BY <1>5, <1>7, <4>3 DEF World, Refs
        <5> QED BY <2>2, <4>1, <5>1, Inherited
      <4> QED BY <4>2, <4>3
    <3>3. ASSUME NEW x \in Repos \ touched
          PROVE  TreeAccounted(d, x, tree[x]) /\ AddedAccounted(d, x)
      <4>1. TreeAccounted(c, x, tree[x]) /\ AddedAccounted(c, x)
        BY <1>5 DEF Accounted
      <4> QED BY <2>2, <2>3, <4>1, Inherited
    <3>4. StateAccounted(d, state) /\ GroupAccounted(d, grouping)
      <4>1. StateAccounted(c, state) /\ GroupAccounted(c, grouping)
        BY <1>5 DEF Accounted
      <4> QED BY <2>2, <2>3, <4>1, Inherited
    <3>5. d.madeGroup => ~d.found.grouping
      BY <1>5, <2>3 DEF Accounted
    <3>6. UNCHANGED <<tree, grouping, state, touched>>
      BY <1>4, <1>7 DEF StepFrame, userVars
    <3> QED BY <3>2, <3>3, <3>4, <3>5, <3>6 DEF Accounted
  <2>6. ASSUME d.pc = "running" PROVE Forward(d, branch', tree', state', touched')
    <3>1. Command(c) /\ c.pc = "running" /\ c.at \in 1..StepCount(c)
      BY <1>5
    <3>2. Advances(p, c, d, c.added, c.madeGroup, partial)
      BY <2>1
    <3>3. \A x : Pending(d, "add", x) => Pending(c, "add", x)
      <4>1. \A x : Pending(d, "add", x) => Pending(c, "add", x) \/ Step(p) = <<"add", x>>
        <5>1. Follows(p, c, d)
          BY <1>1, <2>6, <3>1, <3>2, RunningPending
        <5> QED BY <5>1 DEF Follows
      <4> QED BY <4>1, <1>5
    <3> QED BY <1>5, <2>3, <3>3 DEF Forward, Making, Unmaking
  <2>7. World'
    <3>1. branch' \in Refs
      BY <1>5, <1>7 DEF World, Refs, Command
    <3>2. baselines = {}
      BY <1>5 DEF PlanFits
    <3>3. moves = 0 => c.plan[r].head # "user"
      BY <1>1, <1>5 DEF LInv
    <3>4. moves = 0 => \A x \in Repos : branch'[x] # "user"
      BY <1>5, <1>7, <3>3 DEF World, Refs
    <3>5. UNCHANGED <<tree, grouping, state, touched, moves, baselines, crashes>>
      BY <1>4, <1>7 DEF StepFrame, userVars
    <3> QED BY <1>5, <3>1, <3>2, <3>4, <3>5 DEF World
  <2>8. UNCHANGED touched
    BY <1>4 DEF StepFrame, userVars
  <2> QED BY <1>1, <1>2, <1>4, <1>5, <2>1, <2>4, <2>5, <2>6, <2>7, <2>8, AdvanceKeeps
<1> QED BY <1>1, <1>3, <1>6, <1>7 DEF ExecBranch

LEMMA GroupExecutes ==
    ASSUME LInv, IInv', NEW p \in Procs, ExecGroup(p)
    PROVE  LInv'
<1>1. PICK c : c = proc[p]
  OBVIOUS
<1>2. PICK d : d = proc'[p]
  OBVIOUS
<1>3. PICK r : r = Repo(p)
  OBVIOUS
<1>4. Executing(p, "group") /\ StepFrame
  BY DEF ExecGroup
<1>5. /\ ProcOK /\ World /\ Command(c) /\ PlanFits(c)
      /\ c.pc = "running" /\ c.at \in 1..StepCount(c) /\ c.unreverted = {}
      /\ Accounted(c, branch, tree, grouping, state, touched)
      /\ Forward(c, branch, tree, state, touched)
      /\ Step(p) = <<"group", r>> /\ r \in Repos /\ Making(c)
  BY <1>1, <1>3, <1>4, Running DEF OpNames, Making
<1>6. CASE \/ FailUntouched(p, TRUE)
           \/ grouping /\ UNCHANGED <<world, state>> /\ NoFault /\ Succeed(p, proc[p])
  BY <1>4, <1>6, IdleAdvanceKeeps DEF FailUntouched
<1>7. CASE /\ ~grouping /\ grouping' = TRUE
           /\ UNCHANGED <<branch, tree, state>>
           /\ \/ Succeed(p, [c EXCEPT !.madeGroup = TRUE])
              \/ Fail(p, [c EXCEPT !.madeGroup = TRUE])
              \/ Fail(p, Unnoticed(p))
  <2>1. PICK made, partial :
           /\ partial \in BOOLEAN
           /\ Advances(p, c, d, c.added, made, partial)
           /\ c.partial => partial
           /\ made = TRUE \/ (partial /\ d.pc # "running")
    <3>1. CASE Succeed(p, [c EXCEPT !.madeGroup = TRUE]) \/ Fail(p, [c EXCEPT !.madeGroup = TRUE])
      <4>1. PICK e : e = [c EXCEPT !.madeGroup = TRUE]
        OBVIOUS
      <4>2. /\ Kept(c, e) /\ e.unreverted = c.unreverted /\ e.pc = c.pc /\ e.at = c.at
            /\ e.partial = c.partial /\ e.madeGroup = TRUE /\ e.added = c.added
        BY <1>5, <4>1 DEF Kept, Command, CmdFields
      <4>3. Succeed(p, e) \/ Fail(p, e)
        BY <3>1, <4>1
      <4>4. Advances(p, c, d, e.added, e.madeGroup, e.partial)
        BY <1>1, <1>2, <1>5, <4>2, <4>3, AdvanceOf
      <4> QED BY <4>2, <4>4, <1>5 DEF Command
    <3>2. CASE Fail(p, Unnoticed(p))
      <4>1. PICK e : e = [c EXCEPT !.partial = TRUE]
        OBVIOUS
      <4>2. /\ Kept(c, e) /\ e.unreverted = c.unreverted /\ e.pc = c.pc /\ e.at = c.at
            /\ e.partial = TRUE /\ e.madeGroup = c.madeGroup /\ e.added = c.added
        BY <1>5, <4>1 DEF Kept, Command, CmdFields
      <4>3. Fail(p, e)
        BY <1>1, <3>2, <4>1 DEF Unnoticed
      <4>4. Advances(p, c, d, e.added, e.madeGroup, e.partial) /\ d.pc # "running"
        BY <1>1, <1>2, <1>5, <4>2, <4>3, AdvanceOf
      <4> QED BY <4>2, <4>4
    <3> QED BY <1>7, <3>1, <3>2
  <2>2. Heir(c, d) /\ \A k, x : Inherits(c, d, k, x)
    BY <1>1, <1>5, <2>1, AdvanceInherits
  <2>3. /\ d.added = c.added /\ d.madeGroup = made /\ d.op = c.op
        /\ d.found = c.found /\ d.partial = partial
    BY <2>1 DEF Advances, Kept
  <2>4. /\ Command(c) /\ c.pc = "running" /\ c.at \in 1..StepCount(c)
        /\ Advances(p, c, d, c.added, made, partial)
    BY <1>5, <2>1
  <2>5. ASSUME d.pc = "running" \/ Accountable(d)
        PROVE  Accounted(d, branch', tree', grouping', state', touched')
    <3>1. made = TRUE
      BY <1>5, <2>1, <2>3, <2>5 DEF Accountable, Unmaking, Making
    <3>2. Pending(d, "group", r)
      <4>1. d.pc \in {"running", "cleanup"} /\ Step(p) = <<"group", r>>
        BY <1>5, <2>1 DEF Advances, CleansUp
      <4> QED BY <1>1, <2>4, <4>1, PendingAdvances
    <3>3. ASSUME NEW x \in Repos \ touched
          PROVE  /\ BranchAccounted(d, x, branch[x]) /\ TreeAccounted(d, x, tree[x])
                 /\ AddedAccounted(d, x)
      <4>1. /\ BranchAccounted(c, x, branch[x]) /\ TreeAccounted(c, x, tree[x])
            /\ AddedAccounted(c, x)
        BY <1>5 DEF Accounted
      <4> QED BY <2>2, <2>3, <4>1, Inherited
    <3>4. StateAccounted(d, state)
      <4>1. StateAccounted(c, state)
        BY <1>5 DEF Accounted
      <4> QED BY <2>2, <4>1, Inherited
    <3>5. GroupAccounted(d, TRUE)
      BY <1>5, <2>3, <3>1, <3>2 DEF GroupAccounted
    <3>6. ~d.found.grouping
      <4>1. GroupAccounted(c, grouping) /\ (c.madeGroup => ~c.found.grouping)
        BY <1>5 DEF Accounted
      <4> QED BY <1>5, <1>7, <2>3, <4>1 DEF GroupAccounted
    <3>7. UNCHANGED <<branch, tree, state, touched>> /\ grouping' = TRUE
      BY <1>4, <1>7 DEF StepFrame, userVars
    <3> QED BY <3>3, <3>4, <3>5, <3>6, <3>7 DEF Accounted
  <2>6. ASSUME d.pc = "running" PROVE Forward(d, branch', tree', state', touched')
    <3>1. \A x : Pending(d, "add", x) => Pending(c, "add", x)
      <4>1. \A x : Pending(d, "add", x) => Pending(c, "add", x) \/ Step(p) = <<"add", x>>
        <5>1. Follows(p, c, d)
          BY <1>1, <2>6, <2>4, RunningPending
        <5> QED BY <5>1 DEF Follows
      <4> QED BY <4>1, <1>5
    <3> QED BY <1>5, <2>3, <3>1 DEF Forward, Making, Unmaking
  <2>7. World'
    <3>1. /\ UNCHANGED <<branch, tree, state, touched, moves, baselines, crashes>>
          /\ grouping' = TRUE
      BY <1>4, <1>7 DEF StepFrame, userVars
    <3> QED BY <1>5, <3>1 DEF World
  <2>8. UNCHANGED touched
    BY <1>4 DEF StepFrame, userVars
  <2> QED BY <1>1, <1>2, <1>4, <1>5, <2>1, <2>5, <2>6, <2>7, <2>8, AdvanceKeeps
<1> QED BY <1>1, <1>6, <1>7 DEF ExecGroup

LEMMA AddExecutes ==
    ASSUME LInv, IInv', NEW p \in Procs, ExecAdd(p)
    PROVE  LInv'
<1>1. PICK c : c = proc[p]
  OBVIOUS
<1>2. PICK d : d = proc'[p]
  OBVIOUS
<1>3. PICK r : r = Repo(p)
  OBVIOUS
<1>4. Executing(p, "add") /\ StepFrame
  BY DEF ExecAdd
<1>5. /\ ProcOK /\ World /\ Command(c) /\ PlanFits(c)
      /\ c.pc = "running" /\ c.at \in 1..StepCount(c) /\ c.unreverted = {}
      /\ Accounted(c, branch, tree, grouping, state, touched)
      /\ Forward(c, branch, tree, state, touched)
      /\ Step(p) = <<"add", r>> /\ r \in Repos /\ Making(c)
  BY <1>1, <1>3, <1>4, Running DEF OpNames, Making
<1> DEFINE noted == [c EXCEPT !.added = @ \cup {r}]
           captured == [noted EXCEPT !.receipt[r] = p]
<1>6. CASE \E possible : FailUntouched(p, possible)
  BY <1>4, <1>6, IdleAdvanceKeeps DEF FailUntouched
<1>7. CASE /\ WorktreeAddable(r)
           /\ tree' = [tree EXCEPT ![r] = NewTree(p)]
           /\ UNCHANGED <<branch, grouping, state>>
           /\ \/ Succeed(p, captured)
              \/ Fail(p, captured)
              \/ Fail(p, noted)
              \/ Fail(p, Unnoticed(p))
  <2>1. PICK added, partial :
           /\ partial \in BOOLEAN
           /\ Advances(p, c, d, added, c.madeGroup, partial)
           /\ c.partial => partial
           /\ \/ added = c.added \cup {r}
              \/ added = c.added /\ partial /\ d.pc # "running"
    <3>0. c = [f \in CmdFields |-> c[f]] /\ c.partial \in BOOLEAN
      BY <1>5 DEF Command
    <3>1. CASE Succeed(p, captured) \/ Fail(p, captured) \/ Fail(p, noted)
      <4>1. PICK e : (e = captured \/ e = noted) /\ (Succeed(p, e) \/ Fail(p, e))
        BY <3>1
      <4>2. /\ noted = [f \in CmdFields |-> noted[f]]
            /\ Kept(c, noted) /\ noted.unreverted = c.unreverted
            /\ noted.pc = c.pc /\ noted.at = c.at
            /\ noted.partial = c.partial /\ noted.madeGroup = c.madeGroup
            /\ noted.added = c.added \cup {r}
        BY <3>0 DEF Kept, CmdFields
      <4> HIDE DEF noted
      <4>3. /\ captured = [f \in CmdFields |-> captured[f]]
            /\ Kept(noted, captured) /\ captured.unreverted = noted.unreverted
            /\ captured.pc = noted.pc /\ captured.at = noted.at
            /\ captured.partial = noted.partial /\ captured.madeGroup = noted.madeGroup
            /\ captured.added = noted.added
        BY <4>2 DEF Kept, CmdFields
      <4> HIDE DEF captured
      <4>4. /\ Kept(c, e) /\ e.unreverted = c.unreverted /\ e.pc = c.pc /\ e.at = c.at
            /\ e.partial = c.partial /\ e.madeGroup = c.madeGroup
            /\ e.added = c.added \cup {r}
        BY <4>1, <4>2, <4>3 DEF Kept
      <4>5. Advances(p, c, d, e.added, e.madeGroup, e.partial)
        BY <1>1, <1>2, <1>5, <4>1, <4>4, AdvanceOf
      <4> QED BY <3>0, <4>4, <4>5
    <3>2. CASE Fail(p, Unnoticed(p))
      <4>1. PICK e : e = [c EXCEPT !.partial = TRUE]
        OBVIOUS
      <4>2. /\ Kept(c, e) /\ e.unreverted = c.unreverted /\ e.pc = c.pc /\ e.at = c.at
            /\ e.partial = TRUE /\ e.madeGroup = c.madeGroup /\ e.added = c.added
        BY <3>0, <4>1 DEF Kept, CmdFields
      <4>3. Fail(p, e)
        BY <1>1, <3>2, <4>1 DEF Unnoticed
      <4>4. Advances(p, c, d, e.added, e.madeGroup, e.partial) /\ d.pc # "running"
        BY <1>1, <1>2, <1>5, <4>2, <4>3, AdvanceOf
      <4> QED BY <4>2, <4>4
    <3> QED BY <1>7, <3>1, <3>2
  <2> HIDE DEF noted, captured
  <2>2. Heir(c, d) /\ \A k, x : Inherits(c, d, k, x)
    BY <1>1, <1>5, <2>1, AdvanceInherits
  <2>3. /\ d.added = added /\ d.madeGroup = c.madeGroup /\ d.op = c.op
        /\ d.found = c.found /\ d.partial = partial /\ d.unreverted = {}
    BY <1>5, <2>1 DEF Advances, Kept
  <2>4. /\ Command(c) /\ c.pc = "running" /\ c.at \in 1..StepCount(c)
        /\ Advances(p, c, d, added, c.madeGroup, partial)
    BY <1>5, <2>1
  <2>5. ASSUME d.pc = "running" \/ Accountable(d)
        PROVE  Accounted(d, branch', tree', grouping', state', touched')
    <3>1. d.added = c.added \cup {r}
      BY <1>5, <2>1, <2>3, <2>5 DEF Accountable, Unmaking, Making
    <3>2. Pending(d, "add", r)
      <4>1. d.pc \in {"running", "cleanup"} /\ Step(p) = <<"add", r>>
        BY <1>5, <2>1 DEF Advances, CleansUp
      <4> QED BY <1>1, <2>4, <4>1, PendingAdvances
    <3>3. ASSUME NEW x \in Repos \ touched
          PROVE  /\ BranchAccounted(d, x, branch[x]) /\ TreeAccounted(d, x, tree'[x])
                 /\ AddedAccounted(d, x)
      <4>1. /\ BranchAccounted(c, x, branch[x]) /\ TreeAccounted(c, x, tree[x])
            /\ AddedAccounted(c, x)
        BY <1>5 DEF Accounted
      <4>2. BranchAccounted(d, x, branch[x])
        BY <2>2, <4>1, Inherited
      <4>3. CASE x # r
        <5>1. tree'[x] = tree[x]
          BY <1>5, <1>7, <4>3 DEF World, Paths
        <5>2. x \in d.added <=> x \in c.added
          BY <3>1, <4>3
        <5> QED BY <2>2, <4>1, <4>2, <5>1, <5>2, Inherited
      <4>4. CASE x = r
        <5>1. TreeAccounted(d, x, tree'[x])
          BY <1>5, <2>3, <3>1, <4>4 DEF TreeAccounted, Making
        <5>2. ~Named(c, r)
          BY <1>5 DEF Named
        <5>3. tree[r].dir = "none" /\ ~tree[r].reg
          BY <1>7 DEF WorktreeAddable
        <5>4. c.found.tree[r].dir = "none" /\ ~c.found.tree[r].reg
          <6>1. CASE r \in c.added
            BY <4>1, <4>4, <6>1 DEF AddedAccounted
          <6>2. CASE r \notin c.added
            <7>1. Same(tree[r], c.found.tree[r])
              BY <1>5, <4>1, <4>4, <5>2, <6>2 DEF TreeAccounted, Making, Unmaking
            <7>2. c.found.tree[r] \in Tree
              BY <1>5 DEF PlanFits, Paths
            <7> QED BY <5>3, <7>1, <7>2 DEF Same, Tree
          <6> QED BY <6>1, <6>2
        <5>5. AddedAccounted(d, x)
          BY <2>3, <3>2, <4>4, <5>4 DEF AddedAccounted
        <5> QED BY <4>2, <5>1, <5>5
      <4> QED BY <4>3, <4>4
    <3>4. StateAccounted(d, state) /\ GroupAccounted(d, grouping)
      <4>1. StateAccounted(c, state) /\ GroupAccounted(c, grouping)
        BY <1>5 DEF Accounted
      <4> QED BY <2>2, <2>3, <4>1, Inherited
    <3>5. d.madeGroup => ~d.found.grouping
      BY <1>5, <2>3 DEF Accounted
    <3>6. UNCHANGED <<branch, grouping, state, touched>>
      BY <1>4, <1>7 DEF StepFrame, userVars
    <3> QED BY <3>3, <3>4, <3>5, <3>6 DEF Accounted
  <2>6. ASSUME d.pc = "running" PROVE Forward(d, branch', tree', state', touched')
    <3>1. \A x : Pending(d, "add", x) => Pending(c, "add", x) \/ Step(p) = <<"add", x>>
      <4>1. Follows(p, c, d)
        BY <1>1, <2>6, <2>4, RunningPending
      <4> QED BY <4>1 DEF Follows
    <3>2. d.added = c.added \cup {r}
      BY <2>1, <2>3, <2>6
    <3>3. \A x \in Repos : Pending(d, "add", x) => x \in d.added
      BY <1>5, <3>1, <3>2 DEF Forward
    <3> QED BY <1>5, <2>3, <3>3 DEF Forward, Making, Unmaking
  <2>7. World'
    <3>1. UNCHANGED <<branch, grouping, state, touched, moves, baselines, crashes>>
      BY <1>4, <1>7 DEF StepFrame, userVars
    <3>2. NewTree(p) \in Tree
      BY DEF NewTree, Tree
    <3>3. tree' \in Paths
      BY <1>5, <1>7, <3>2 DEF World, Paths
    <3>4. Shaped(tree')
      BY <1>5, <1>7 DEF World, Shaped, NewTree, Paths
    <3> QED BY <1>5, <3>1, <3>3, <3>4 DEF World
  <2>8. UNCHANGED touched
    BY <1>4 DEF StepFrame, userVars
  <2> QED BY <1>1, <1>2, <1>4, <1>5, <2>1, <2>5, <2>6, <2>7, <2>8, AdvanceKeeps
<1>8. \/ \E possible : FailUntouched(p, possible)
      \/ /\ WorktreeAddable(r)
         /\ tree' = [tree EXCEPT ![r] = NewTree(p)]
         /\ UNCHANGED <<branch, grouping, state>>
         /\ \/ Succeed(p, captured)
            \/ Fail(p, captured)
            \/ Fail(p, noted)
            \/ Fail(p, Unnoticed(p))
  BY <1>1, <1>3, Zenon DEF ExecAdd
<1> QED BY <1>6, <1>7, <1>8

LEMMA InspectExecutes ==
    ASSUME LInv, IInv', NEW p \in Procs, ExecInspect(p)
    PROVE  LInv'
BY IdleAdvanceKeeps DEF ExecInspect, FailUntouched

LEMMA IgnoreExecutes ==
    ASSUME LInv, IInv', NEW p \in Procs, ExecIgnore(p)
    PROVE  LInv'
<1>1. PICK c : c = proc[p]
  OBVIOUS
<1>2. PICK d : d = proc'[p]
  OBVIOUS
<1>3. PICK r : r = Repo(p)
  OBVIOUS
<1>4. Executing(p, "ignore") /\ StepFrame
  BY DEF ExecIgnore
<1>5. /\ ProcOK /\ World /\ Command(c) /\ PlanFits(c)
      /\ c.pc = "running" /\ c.at \in 1..StepCount(c) /\ c.unreverted = {}
      /\ Accounted(c, branch, tree, grouping, state, touched)
      /\ Forward(c, branch, tree, state, touched)
      /\ Step(p) = <<"ignore", r>> /\ r \in Repos /\ Making(c) /\ c.op \in OpNames
  BY <1>1, <1>3, <1>4, Running DEF OpNames, Making
<1> DEFINE edited == IF tree[r].dirt = "clean"
                     THEN [c EXCEPT !.ignoreOwned = @ \cup {r}]
                     ELSE c
<1>6. CASE \E possible : FailUntouched(p, possible)
  BY <1>4, <1>6, IdleAdvanceKeeps DEF FailUntouched
<1>7. CASE UNCHANGED <<world, state>> /\ Succeed(p, proc[p])
  BY <1>4, <1>7, IdleAdvanceKeeps
<1>8. CASE /\ tree[r].dir = "checkout"
           /\ tree' = [tree EXCEPT ![r].dirt = IF @ = "clean" THEN "ignore" ELSE @]
           /\ UNCHANGED <<branch, grouping, state>>
           /\ Succeed(p, edited) \/ Fail(p, edited)
  <2>1. Advances(p, c, d, c.added, c.madeGroup, c.partial)
    <3>1. c = [f \in CmdFields |-> c[f]]
      BY <1>5 DEF Command
    <3>2. /\ Kept(c, edited) /\ edited.unreverted = c.unreverted
          /\ edited.pc = c.pc /\ edited.at = c.at
          /\ edited.partial = c.partial /\ edited.madeGroup = c.madeGroup
          /\ edited.added = c.added
      BY <3>1 DEF Kept, CmdFields
    <3> HIDE DEF edited
    <3>3. Advances(p, c, d, edited.added, edited.madeGroup, edited.partial)
      BY <1>1, <1>2, <1>5, <1>8, <3>2, AdvanceOf
    <3> QED BY <3>2, <3>3
  <2> HIDE DEF edited
  <2>2. Heir(c, d) /\ \A k, x : Inherits(c, d, k, x)
    BY <1>1, <1>5, <2>1, AdvanceInherits
  <2>3. /\ d.added = c.added /\ d.madeGroup = c.madeGroup /\ d.op = c.op
        /\ d.found = c.found
    BY <2>1 DEF Advances, Kept
  <2>4. /\ Command(c) /\ c.pc = "running" /\ c.at \in 1..StepCount(c)
        /\ Advances(p, c, d, c.added, c.madeGroup, c.partial)
    BY <1>5, <2>1
  \* The checkout that gets the rules is one the command has added.
  <2>5. r \in c.added
    <3>1. PICK n : n = StepCount(c)
      OBVIOUS
    <3>2. StepsOf(c.op, c.plan)[c.at] = <<"ignore", r>>
      BY <1>1, <1>5 DEF Step, Steps
    <3>3. c.at \in 1..Len(StepsOf(c.op, c.plan))
      BY <1>5 DEF StepCount
    <3> c.op \in OpNames /\ r \in Repos
      BY <1>5
    <3>4. \E i \in 1..(c.at - 1) : StepsOf(c.op, c.plan)[i] = <<"add", r>>
      BY <3>2, <3>3, IgnoreAfterAdd, Zenon
    <3>5. Pending(c, "add", r)
      BY <1>5, <3>4 DEF Pending, Limit
    <3> QED BY <1>5, <3>5 DEF Forward
  <2>6. Accounted(d, branch', tree', grouping', state', touched')
    <3>1. ASSUME NEW x \in Repos \ touched
          PROVE  /\ BranchAccounted(d, x, branch[x]) /\ TreeAccounted(d, x, tree'[x])
                 /\ AddedAccounted(d, x)
      <4>1. /\ BranchAccounted(c, x, branch[x]) /\ TreeAccounted(c, x, tree[x])
            /\ AddedAccounted(c, x)
        BY <1>5 DEF Accounted
      <4>2. BranchAccounted(d, x, branch[x]) /\ AddedAccounted(d, x)
        BY <2>2, <2>3, <4>1, Inherited
      <4>3. TreeAccounted(d, x, tree'[x])
        <5>1. CASE x = r
          BY <1>5, <2>3, <2>5, <5>1 DEF TreeAccounted, Making
        <5>2. CASE x # r
          <6>1. tree'[x] = tree[x]
            BY <1>5, <1>8, <5>2 DEF World, Paths
          <6> QED BY <2>2, <2>3, <4>1, <6>1, Inherited
        <5> QED BY <5>1, <5>2
      <4> QED BY <4>2, <4>3
    <3>2. StateAccounted(d, state) /\ GroupAccounted(d, grouping)
      <4>1. StateAccounted(c, state) /\ GroupAccounted(c, grouping)
        BY <1>5 DEF Accounted
      <4> QED BY <2>2, <2>3, <4>1, Inherited
    <3>3. d.madeGroup => ~d.found.grouping
      BY <1>5, <2>3 DEF Accounted
    <3>4. UNCHANGED <<branch, grouping, state, touched>>
      BY <1>4, <1>8 DEF StepFrame, userVars
    <3> QED BY <3>1, <3>2, <3>3, <3>4 DEF Accounted
  <2>7. ASSUME d.pc = "running" PROVE Forward(d, branch', tree', state', touched')
    <3>1. \A x : Pending(d, "add", x) => Pending(c, "add", x) \/ Step(p) = <<"add", x>>
      <4>1. Follows(p, c, d)
        BY <1>1, <2>7, <2>4, RunningPending
      <4> QED BY <4>1 DEF Follows
    <3>2. \A x \in Repos : Pending(d, "add", x) => x \in d.added
      BY <1>5, <2>3, <3>1 DEF Forward
    <3> QED BY <1>5, <2>3, <3>2 DEF Forward, Making, Unmaking
  <2>8. World'
    <3>1. UNCHANGED <<branch, grouping, state, touched, moves, baselines, crashes>>
      BY <1>4, <1>8 DEF StepFrame, userVars
    <3>2. /\ tree \in [Repos -> Tree]
          /\ \A x \in Repos : x # r => tree'[x] = tree[x]
          /\ tree'[r] = [tree[r] EXCEPT !.dirt = IF @ = "clean" THEN "ignore" ELSE @]
          /\ tree' = [x \in Repos |-> tree'[x]]
      BY <1>5, <1>8 DEF World, Paths
    <3>3. /\ tree'[r] \in Tree /\ tree'[r].dir = "checkout"
          /\ tree'[r].reg = tree[r].reg /\ tree[r].reg
      BY <1>5, <1>8, <3>2 DEF World, Shaped, Tree
    <3>4. tree' \in Paths /\ Shaped(tree')
      <4>1. tree' \in Paths
        BY <3>2, <3>3 DEF Paths
      <4>2. Shaped(tree)
        BY <1>5 DEF World
      <4> QED BY <3>2, <3>3, <4>1, <4>2 DEF Shaped
    <3> QED BY <1>5, <3>1, <3>4 DEF World
  <2>9. UNCHANGED touched /\ c.partial \in BOOLEAN
    BY <1>4, <1>5 DEF StepFrame, userVars, Command
  <2> QED BY <1>1, <1>2, <1>4, <1>5, <2>1, <2>6, <2>7, <2>8, <2>9, AdvanceKeeps
<1>9. \/ \E possible : FailUntouched(p, possible)
      \/ UNCHANGED <<world, state>> /\ Succeed(p, proc[p])
      \/ /\ tree[r].dir = "checkout"
         /\ tree' = [tree EXCEPT ![r].dirt = IF @ = "clean" THEN "ignore" ELSE @]
         /\ UNCHANGED <<branch, grouping, state>>
         /\ Succeed(p, edited) \/ Fail(p, edited)
  BY <1>1, <1>3, Zenon DEF ExecIgnore
<1> QED BY <1>6, <1>7, <1>8, <1>9

\* What an effective step of remove and delete leaves to show.
LEMMA UnmakingKeeps ==
    ASSUME LInv, IInv', NEW p \in Procs, NEW kind, Executing(p, kind), StepFrame,
           NEW c, c = proc[p], NEW d, d = proc'[p],
           Succeed(p, c) \/ Fail(p, c), kind \in {"remove", "drop", "unstate"},
           World', UNCHANGED grouping,
           \A x \in Repos \ touched :
              /\ branch'[x] # branch[x] => c.op = "delete" /\ Pending(d, "drop", x)
              /\ tree'[x] # tree[x] => tree'[x].dir = "none" /\ Pending(d, "remove", x),
           state' # state =>
              c.op = "delete" /\ state' = NoState /\ Pending(d, "unstate", Nobody),
           d.pc = "running" => Forward(d, branch', tree', state', touched)
    PROVE  LInv'
<1>1. PICK r : r = Repo(p)
  OBVIOUS
<1>2. /\ ProcOK /\ World /\ Command(c) /\ PlanFits(c)
      /\ c.pc = "running" /\ c.at \in 1..StepCount(c) /\ c.unreverted = {}
      /\ Accounted(c, branch, tree, grouping, state, touched)
      /\ Unmaking(c)
  BY Running DEF OpNames, Unmaking
<1>3. Advances(p, c, d, c.added, c.madeGroup, c.partial)
  BY <1>2, AdvanceOf, KeptItself
<1>4. Heir(c, d) /\ \A k, x : Inherits(c, d, k, x)
  BY <1>2, <1>3, AdvanceInherits
<1>5. /\ d.added = c.added /\ d.madeGroup = c.madeGroup /\ d.op = c.op
      /\ d.found = c.found
  BY <1>3 DEF Advances, Kept
<1>6. UNCHANGED touched /\ c.partial \in BOOLEAN
  BY <1>2 DEF StepFrame, userVars, Command
<1>7. Accounted(d, branch', tree', grouping', state', touched')
  <2>1. ASSUME NEW x \in Repos \ touched
        PROVE  /\ BranchAccounted(d, x, branch'[x]) /\ TreeAccounted(d, x, tree'[x])
               /\ AddedAccounted(d, x)
    <3>1. /\ BranchAccounted(c, x, branch[x]) /\ TreeAccounted(c, x, tree[x])
          /\ AddedAccounted(c, x)
      BY <1>2 DEF Accounted
    <3>2. /\ BranchAccounted(d, x, branch[x]) /\ TreeAccounted(d, x, tree[x])
          /\ AddedAccounted(d, x)
      BY <1>4, <1>5, <3>1, Inherited
    <3>3. BranchAccounted(d, x, branch'[x])
      BY <1>5, <3>2 DEF BranchAccounted
    <3>4. TreeAccounted(d, x, tree'[x])
      BY <1>2, <1>5, <3>2 DEF TreeAccounted, Unmaking
    <3> QED BY <3>2, <3>3, <3>4
  <2>2. StateAccounted(d, state) /\ GroupAccounted(d, grouping)
    <3>1. StateAccounted(c, state) /\ GroupAccounted(c, grouping)
      BY <1>2 DEF Accounted
    <3> QED BY <1>4, <1>5, <3>1, Inherited
  <2>3. StateAccounted(d, state')
    BY <1>5, <2>2 DEF StateAccounted
  <2>4. d.madeGroup => ~d.found.grouping
    BY <1>2, <1>5 DEF Accounted
  <2> QED BY <1>6, <2>1, <2>2, <2>3, <2>4 DEF Accounted
<1> QED BY <1>2, <1>3, <1>6, <1>7, AdvanceKeeps

\* What deleting a directory does to a worktree, and to the others.
LEMMA EmptiedIs ==
    ASSUME NEW t \in Tree
    PROVE  /\ Emptied(t) \in Tree
           /\ Emptied(t).dir = "none" /\ Emptied(t).dirt = "clean"
           /\ Emptied(t).reg = t.reg /\ Emptied(t).on = t.on /\ Emptied(t).id = t.id
BY DEF Emptied, Tree

LEMMA WithoutTreeIs ==
    ASSUME NEW r \in Repos, NEW gone, NEW t, t = WithoutTree(r, gone)
    PROVE  /\ t = [x \in Repos |-> t[x]]
           /\ t[r] = gone
           /\ \A x \in Repos : x # r =>
                 IF x \in Below(r) THEN t[x] = Emptied(tree[x]) ELSE t[x] = tree[x]
<1> DEFINE After(x) == CASE x = r -> gone
                         [] x \in Below(r) -> Emptied(tree[x])
                         [] OTHER -> tree[x]
<1>1. t = [x \in Repos |-> After(x)]
  BY DEF WithoutTree
<1>0. r \notin Below(r)
  BY OrderAssumption
<1>2. After(r) = gone
  BY <1>0
<1>3. ASSUME NEW x \in Repos, x # r
      PROVE  IF x \in Below(r) THEN After(x) = Emptied(tree[x]) ELSE After(x) = tree[x]
  BY <1>3
<1> HIDE DEF After
<1> QED BY <1>1, <1>2, <1>3

LEMMA RemoveExecutes ==
    ASSUME LInv, IInv', NEW p \in Procs, ExecRemove(p)
    PROVE  LInv'
<1>1. PICK c : c = proc[p]
  OBVIOUS
<1>2. PICK d : d = proc'[p]
  OBVIOUS
<1>3. PICK r : r = Repo(p)
  OBVIOUS
<1>4. Executing(p, "remove") /\ StepFrame
  BY DEF ExecRemove
<1>5. /\ ProcOK /\ World /\ Command(c) /\ PlanFits(c)
      /\ c.pc = "running" /\ c.at \in 1..StepCount(c) /\ c.unreverted = {}
      /\ Accounted(c, branch, tree, grouping, state, touched)
      /\ Forward(c, branch, tree, state, touched)
      /\ Step(p) = <<"remove", r>> /\ r \in Repos /\ Unmaking(c) /\ c.op \in OpNames
  BY <1>1, <1>3, <1>4, Running DEF OpNames, Unmaking
<1>6. CASE \E possible : FailUntouched(p, possible)
  BY <1>4, <1>6, IdleAdvanceKeeps DEF FailUntouched
<1>7. ASSUME NEW gone, gone = NoTree \/ gone = Emptied(tree[r]),
             tree' = WithoutTree(r, gone),
             UNCHANGED <<branch, grouping, state>>,
             Succeed(p, c) \/ Fail(p, c),
             Succeed(p, c) => gone = NoTree
      PROVE  LInv'
  <2>1. /\ Advances(p, c, d, c.added, c.madeGroup, c.partial)
        /\ d.pc = "running" => Succeed(p, c)
    BY <1>1, <1>2, <1>5, <1>7, AdvanceOf, KeptItself
  <2>2. Heir(c, d) /\ \A k, x : Inherits(c, d, k, x)
    BY <1>1, <1>5, <2>1, AdvanceInherits
  <2>3. /\ Command(c) /\ c.pc = "running" /\ c.at \in 1..StepCount(c)
        /\ Advances(p, c, d, c.added, c.madeGroup, c.partial)
        /\ d.op = c.op /\ d.unreverted = {}
    BY <1>5, <2>1 DEF Advances, Kept
  <2>4. Pending(d, "remove", r)
    <3>1. d.pc \in {"running", "cleanup"} /\ Step(p) = <<"remove", r>>
      BY <1>5, <2>1 DEF Advances, CleansUp
    <3> QED BY <1>1, <2>1, <2>3, <3>1, PendingAdvances
  <2>5. tree \in [Repos -> Tree] /\ Shaped(tree)
    BY <1>5 DEF World, Paths
  <2>6. \A x \in Repos : /\ Emptied(tree[x]) \in Tree
                          /\ Emptied(tree[x]).dir = "none" /\ Emptied(tree[x]).dirt = "clean"
                          /\ Emptied(tree[x]).reg = tree[x].reg
                          /\ Emptied(tree[x]).on = tree[x].on
                          /\ Emptied(tree[x]).id = tree[x].id
    BY <2>5, EmptiedIs
  <2>7. /\ \A x \in Repos : x # r => tree'[x] \in {tree[x], Emptied(tree[x])}
        /\ tree'[r] = gone
        /\ tree' = [x \in Repos |-> tree'[x]]
        /\ \A x \in Repos : tree'[x] # tree[x] => x = r \/ x \in Below(r)
    <3>1. /\ tree' = [x \in Repos |-> tree'[x]]
          /\ tree'[r] = gone
          /\ \A x \in Repos : x # r =>
                IF x \in Below(r) THEN tree'[x] = Emptied(tree[x]) ELSE tree'[x] = tree[x]
      BY <1>5, <1>7, WithoutTreeIs
    <3> QED BY <3>1
  \* What is mounted below is gone already.
  <2>8. ASSUME NEW x \in Below(r)
        PROVE  Pending(c, "remove", x) /\ x \in Repos
    <3>1. StepsOf(c.op, c.plan)[c.at] = <<"remove", r>>
      BY <1>1, <1>5 DEF Step, Steps
    <3>2. c.at \in 1..Len(StepsOf(c.op, c.plan))
      BY <1>5 DEF StepCount
    <3> c.op \in OpNames /\ r \in Repos
      BY <1>5
    <3>3. \E i \in 1..(c.at - 1) : StepsOf(c.op, c.plan)[i] = <<"remove", x>>
      BY <3>1, <3>2, BelowFirst, Zenon
    <3> QED BY <1>5, <3>3 DEF Pending, Limit, Below
  <2>9. \A x \in Below(r) : x \notin touched => tree[x] = NoTree
    BY <1>5, <2>8 DEF Forward
  <2>10. \A x \in Repos : x = r \/ tree'[x] = tree[x] \/ x \in touched
    <3> SUFFICES ASSUME NEW x \in Repos, x # r, x \notin touched PROVE tree'[x] = tree[x]
      OBVIOUS
    <3>1. CASE x \in Below(r)
      <4>1. tree[x] = NoTree
        BY <2>9, <3>1
      <4>2. Emptied(NoTree) = NoTree
        <5>1. NoTree \in Tree
          BY DEF NoTree, Tree
        <5> QED BY <5>1, EmptiedIs DEF NoTree, Tree
      <4> QED BY <4>1, <4>2, <2>7
    <3>2. CASE x \notin Below(r)
      BY <2>7, <3>2
    <3> QED BY <3>1, <3>2
  <2>11. \A x \in Repos : tree'[x] \in Tree
    <3>1. NoTree \in Tree
      BY DEF NoTree, Tree
    <3> QED BY <1>5, <2>5, <2>6, <2>7, <3>1, <1>7
  <2>12. gone.dir = "none" /\ gone.dirt = "clean" /\ (~gone.reg => ~gone.on /\ gone.id = Nobody)
    BY <1>5, <1>7, <2>5, <2>6 DEF NoTree, Shaped
  <2>13. World'
    <3>1. UNCHANGED <<branch, grouping, state, touched, moves, baselines, crashes>>
      BY <1>4, <1>7 DEF StepFrame, userVars
    <3>2. tree' \in Paths
      BY <2>7, <2>11 DEF Paths
    <3>3. Shaped(tree')
      BY <2>5, <2>6, <2>7, <2>12 DEF Shaped
    <3> QED BY <1>5, <3>1, <3>2, <3>3 DEF World
  <2>14. \A x \in Repos \ touched :
            tree'[x] # tree[x] => tree'[x].dir = "none" /\ Pending(d, "remove", x)
    BY <2>4, <2>7, <2>10, <2>12
  <2>15. ASSUME d.pc = "running" PROVE Forward(d, branch', tree', state', touched)
    <3>1. \A k, x : Pending(d, k, x) => Pending(c, k, x) \/ Step(p) = <<k, x>>
      <4>1. Command(c) /\ c.pc = "running" /\ c.at \in 1..StepCount(c)
        BY <2>3
      <4>2. Advances(p, c, d, c.added, c.madeGroup, c.partial) /\ d.pc = "running"
        BY <2>3, <2>15
      <4>3. Follows(p, c, d)
        BY <1>1, <4>1, <4>2, RunningPending
      <4> QED BY <4>3 DEF Follows
    <3>2. gone = NoTree
      BY <1>7, <2>1, <2>15
    <3>3. \A x \in Repos : Pending(d, "drop", x) => Pending(c, "drop", x)
      BY <1>5, <3>1
    <3>4. Pending(d, "unstate", Nobody) => Pending(c, "unstate", Nobody)
      BY <1>5, <3>1
    <3>5. ASSUME NEW x \in Repos, Pending(d, "remove", x)
          PROVE  tree'[x].dir # "checkout" /\ (x \notin touched => tree'[x] = NoTree)
      <4>1. CASE x = r
        BY <2>7, <2>12, <3>2, <4>1
      <4>2. CASE x # r
        <5>1. Pending(c, "remove", x)
          BY <1>5, <3>1, <3>5, <4>2
        <5>2. tree[x].dir # "checkout" /\ (x \notin touched => tree[x] = NoTree)
          BY <1>5, <5>1 DEF Forward
        <5>3. tree'[x].dir # "checkout"
          BY <2>6, <2>7, <4>2, <5>2
        <5> QED BY <2>10, <4>2, <5>2, <5>3
      <4> QED BY <4>1, <4>2
    <3>6. UNCHANGED <<branch, state>> /\ ~Making(d)
      BY <1>5, <1>7, <2>3 DEF Making, Unmaking
    <3> QED BY <1>5, <2>3, <3>3, <3>4, <3>5, <3>6 DEF Forward, Making, Unmaking
  <2> QED BY <1>1, <1>2, <1>4, <1>7, <2>13, <2>14, <2>15, UnmakingKeeps
<1>8. \/ \E possible : FailUntouched(p, possible)
      \/ /\ UNCHANGED <<branch, grouping, state>>
         /\ tree' = WithoutTree(r, NoTree)
         /\ Succeed(p, c) \/ Fail(p, c)
      \/ /\ UNCHANGED <<branch, grouping, state>>
         /\ tree' = WithoutTree(r, Emptied(tree[r]))
         /\ Fail(p, c)
  BY <1>1, <1>3, Zenon DEF ExecRemove
<1>9. Fail(p, c) => ~Succeed(p, c)
  BY <1>1, <1>2, <1>5, AdvanceOf, KeptItself
<1> QED BY <1>6, <1>7, <1>8, <1>9

LEMMA DropExecutes ==
    ASSUME LInv, IInv', NEW p \in Procs, ExecDrop(p)
    PROVE  LInv'
<1>1. PICK c : c = proc[p]
  OBVIOUS
<1>2. PICK d : d = proc'[p]
  OBVIOUS
<1>3. PICK r : r = Repo(p)
  OBVIOUS
<1>4. Executing(p, "drop") /\ StepFrame
  BY DEF ExecDrop
<1>5. /\ ProcOK /\ World /\ Command(c) /\ PlanFits(c)
      /\ c.pc = "running" /\ c.at \in 1..StepCount(c) /\ c.unreverted = {}
      /\ Forward(c, branch, tree, state, touched)
      /\ Step(p) = <<"drop", r>> /\ r \in Repos /\ c.op = "delete"
      /\ c.plan[r].drop # "keep"
  BY <1>1, <1>3, <1>4, Running DEF OpNames
<1>6. CASE \E possible : FailUntouched(p, possible)
  BY <1>4, <1>6, IdleAdvanceKeeps DEF FailUntouched
<1>7. CASE /\ branch' = [branch EXCEPT ![r] = "none"]
           /\ UNCHANGED <<tree, grouping, state>>
           /\ Succeed(p, c) \/ Fail(p, c)
  <2>1. Advances(p, c, d, c.added, c.madeGroup, c.partial)
    BY <1>1, <1>2, <1>5, <1>7, AdvanceOf, KeptItself
  <2>2. Command(c) /\ c.pc = "running" /\ c.at \in 1..StepCount(c) /\ d.op = c.op
    BY <1>5, <2>1 DEF Advances, Kept
  <2>3. Pending(d, "drop", r)
    <3>1. d.pc \in {"running", "cleanup"} /\ Step(p) = <<"drop", r>>
      BY <1>5, <2>1 DEF Advances, CleansUp
    <3> QED BY <1>1, <2>1, <2>2, <3>1, PendingAdvances
  <2>4. branch'[r] = "none" /\ \A x \in Repos : x # r => branch'[x] = branch[x]
    BY <1>5, <1>7 DEF World, Refs
  <2>5. World'
    <3>1. UNCHANGED <<tree, grouping, state, touched, moves, baselines, crashes>>
      BY <1>4, <1>7 DEF StepFrame, userVars
    <3>2. branch' \in Refs
      BY <1>5, <1>7 DEF World, Refs
    <3>3. r \notin baselines
      BY <1>5 DEF Command
    <3>4. \A x \in baselines : branch'[x] # "none"
      BY <1>5, <2>4, <3>3 DEF World
    <3>5. moves = 0 => \A x \in Repos : branch'[x] # "user"
      BY <1>5, <2>4 DEF World
    <3> QED BY <1>5, <3>1, <3>2, <3>4, <3>5 DEF World
  <2>6. ASSUME d.pc = "running" PROVE Forward(d, branch', tree', state', touched)
    <3>1. Follows(p, c, d)
      BY <1>1, <2>1, <2>2, <2>6, RunningPending
    <3>2. \A x : Pending(d, "remove", x) => Pending(c, "remove", x)
      BY <1>5, <3>1 DEF Follows
    <3>3. \A x : Pending(d, "unstate", x) => Pending(c, "unstate", x)
      BY <1>5, <3>1 DEF Follows
    <3>4. \A x \in Repos \ touched : Pending(d, "drop", x) => branch'[x] = "none"
      <4> SUFFICES ASSUME NEW x \in Repos \ touched, Pending(d, "drop", x), x # r
                   PROVE  branch'[x] = "none"
        BY <2>4
      <4>1. Pending(c, "drop", x)
        BY <1>5, <3>1 DEF Follows
      <4> QED BY <1>5, <2>4, <4>1 DEF Forward
    <3>5. UNCHANGED <<tree, state>> /\ ~Making(d) /\ Unmaking(d) /\ Unmaking(c)
      BY <1>5, <1>7, <2>2 DEF Making, Unmaking
    <3> QED BY <1>5, <2>2, <3>2, <3>3, <3>4, <3>5 DEF Forward
  <2>7. \A x \in Repos \ touched : branch'[x] # branch[x] => Pending(d, "drop", x)
    BY <2>3, <2>4
  <2> QED BY <1>1, <1>2, <1>4, <1>5, <1>7, <2>5, <2>6, <2>7, UnmakingKeeps
<1>8. \/ \E possible : FailUntouched(p, possible)
      \/ /\ branch' = [branch EXCEPT ![r] = "none"]
         /\ UNCHANGED <<tree, grouping, state>>
         /\ Succeed(p, c) \/ Fail(p, c)
  BY <1>1, <1>3, Zenon DEF ExecDrop
<1> QED BY <1>6, <1>7, <1>8

LEMMA UnstateExecutes ==
    ASSUME LInv, IInv', NEW p \in Procs, ExecUnstate(p)
    PROVE  LInv'
<1>1. PICK c : c = proc[p]
  OBVIOUS
<1>2. PICK d : d = proc'[p]
  OBVIOUS
<1>4. Executing(p, "unstate") /\ StepFrame
  BY DEF ExecUnstate
<1>5. /\ ProcOK /\ World /\ Command(c) /\ PlanFits(c)
      /\ c.pc = "running" /\ c.at \in 1..StepCount(c) /\ c.unreverted = {}
      /\ Forward(c, branch, tree, state, touched)
      /\ Step(p) = <<"unstate", Nobody>> /\ c.op = "delete"
  BY <1>1, <1>4, Running DEF OpNames
<1>6. CASE \E possible : FailUntouched(p, possible)
  BY <1>4, <1>6, IdleAdvanceKeeps DEF FailUntouched
<1>7. CASE /\ state' = NoState
           /\ UNCHANGED world
           /\ Succeed(p, c) \/ Fail(p, c)
  <2>0. UNCHANGED <<branch, tree, grouping>>
    BY <1>7 DEF world
  <2>1. Advances(p, c, d, c.added, c.madeGroup, c.partial)
    BY <1>1, <1>2, <1>5, <1>7, AdvanceOf, KeptItself
  <2>2. Command(c) /\ c.pc = "running" /\ c.at \in 1..StepCount(c) /\ d.op = c.op
    BY <1>5, <2>1 DEF Advances, Kept
  <2>3. Pending(d, "unstate", Nobody)
    <3>1. d.pc \in {"running", "cleanup"} /\ Step(p) = <<"unstate", Nobody>>
      BY <1>5, <2>1 DEF Advances, CleansUp
    <3> QED BY <1>1, <2>1, <2>2, <3>1, PendingAdvances
  <2>4. World'
    <3>1. UNCHANGED <<touched, moves, baselines, crashes>>
      BY <1>4 DEF StepFrame, userVars
    <3>2. state' \in Refs
      BY <1>7 DEF NoState, Refs
    <3> QED BY <1>5, <2>0, <3>1, <3>2 DEF World
  <2>5. ASSUME d.pc = "running" PROVE Forward(d, branch', tree', state', touched)
    <3>1. Follows(p, c, d)
      BY <1>1, <2>1, <2>2, <2>5, RunningPending
    <3>2. \A x : Pending(d, "remove", x) => Pending(c, "remove", x)
      BY <1>5, <3>1 DEF Follows
    <3>3. \A x : Pending(d, "drop", x) => Pending(c, "drop", x)
      BY <1>5, <3>1 DEF Follows
    <3>4. ~Making(d) /\ Unmaking(d) /\ Unmaking(c)
      BY <1>5, <2>2 DEF Making, Unmaking
    <3> QED BY <1>5, <1>7, <2>0, <2>2, <3>2, <3>3, <3>4 DEF Forward
  <2> QED BY <1>1, <1>2, <1>4, <1>5, <1>7, <2>0, <2>3, <2>4, <2>5, UnmakingKeeps
<1>8. \/ \E possible : FailUntouched(p, possible)
      \/ /\ state' = NoState
         /\ UNCHANGED world
         /\ Succeed(p, c) \/ Fail(p, c)
  BY <1>1, Zenon DEF ExecUnstate
<1> QED BY <1>6, <1>7, <1>8

-----------------------------------------------------------------------------
(* Rollback                                                                 *)

\* What holds of the command that undoes a step.
LEMMA Undoes ==
    ASSUME LInv, NEW p \in Procs, NEW kind, Undoing(p, kind), NEW c, c = proc[p]
    PROVE  /\ ProcOK /\ World /\ Command(c) /\ PlanFits(c)
           /\ c.pc \in {"cleanup", "rollback"} /\ c.at \in 1..StepCount(c)
           /\ Accountable(c) => Accounted(c, branch, tree, grouping, state, touched)
           /\ Step(p) = <<kind, Repo(p)>>
           /\ kind # "unstate" => Repo(p) \in Repos
           /\ kind = "unstate" => Repo(p) = Nobody
           /\ c.op = "create" => kind \in {"branch", "group", "add", "inspect", "ignore"}
           /\ c.op = "checkout" => kind \in {"group", "add"}
           /\ c.op = "remove" => kind = "remove"
           /\ c.op = "delete" => kind \in {"remove", "drop", "unstate"}
           /\ kind = "drop" => c.plan[Repo(p)].drop # "keep"
           /\ c.op \in OpNames
<1>1. /\ ProcOK /\ World /\ Command(c) /\ c.pc \in {"cleanup", "rollback"}
      /\ Stage(c, branch, tree, grouping, state, touched)
  BY DEF LInv, IInv, Undoing
<1>2. c.op \in OpNames
  BY <1>1 DEF Command
<1>3. StepCount(c) \in Nat
  BY <1>2, StepFacts DEF StepCount
<1>4. /\ PlanFits(c)
      /\ Accountable(c) => Accounted(c, branch, tree, grouping, state, touched)
      /\ c.at \in 0..StepCount(c)
  BY <1>1, <1>3 DEF Stage, Working
<1>5. c.at \in 1..StepCount(c)
  BY <1>3, <1>4 DEF Undoing
<1>6. Step(p)[1] = kind /\ Repo(p) = Step(p)[2]
  BY DEF Undoing, IsKind, Repo
<1> HIDE DEF OpNames
<1> QED BY <1>1, <1>2, <1>4, <1>5, <1>6, StepOf

\* Every step but the one undone is still to be undone; it may be named.
LEMMA RetreatInherits ==
    ASSUME NEW p \in Procs, NEW c, c = proc[p], Command(c), c.pc \in {"cleanup", "rollback"},
           c.at \in 1..StepCount(c),
           NEW d, NEW added, NEW unreverted, Retreats(p, c, d, added, unreverted),
           c.unreverted \subseteq unreverted
    PROVE  /\ Heir(c, d)
           /\ \A kind, r : Step(p) # <<kind, r>> \/ Step(p) \in unreverted =>
                 Inherits(c, d, kind, r)
<1>1. Heir(c, d) /\ d.unreverted = unreverted
  BY DEF Heir, Retreats, Kept
<1>2. ASSUME NEW kind, NEW r, Step(p) # <<kind, r>> \/ Step(p) \in unreverted
      PROVE  Inherits(c, d, kind, r)
  <2>1. Pending(c, kind, r) => Pending(d, kind, r) \/ Step(p) = <<kind, r>>
    BY PendingRetreats
  <2> QED BY <1>1, <1>2, <2>1 DEF Inherits
<1> QED BY <1>1, <1>2

\* What a step of the rollback has to keep.
LEMMA RetreatKeeps ==
    ASSUME LInv, IInv', NEW p \in Procs, NEW c, c = proc[p], Command(c),
           c.pc \in {"cleanup", "rollback"}, PlanFits(c), c.at \in 1..StepCount(c),
           NEW d, d = proc'[p],
           NEW added, NEW unreverted, Retreats(p, c, d, added, unreverted),
           StepFrame, World',
           Accountable(c) => Accounted(d, branch', tree', grouping', state', touched)
    PROVE  LInv'
<1>1. /\ d.op = c.op /\ d.plan = c.plan /\ d.found = c.found /\ d.prior = c.prior
      /\ d.force = c.force /\ d.partial = c.partial /\ d.outcome = c.outcome
      /\ d = [x \in CmdFields |-> d[x]] /\ d.pc = "rollback" /\ d.at = c.at - 1
  BY DEF Retreats, Kept
<1>2. c.at \in Nat /\ c.at >= 1 /\ StepCount(c) \in Nat
  BY StepFacts DEF Command, StepCount
<1>3. StepCount(d) = StepCount(c)
  BY <1>1 DEF StepCount
<1>4. Command(d)
  <2>1. d.at \in Nat
    BY <1>1, <1>2
  <2>2. d.partial \in BOOLEAN
    BY <1>1 DEF Command
  <2>3. d.pc = "rollback" /\ c.pc # "idle"
    BY <1>1
  <2> QED BY <1>1, <2>1, <2>2, <2>3, CommandKept
<1>5. PlanFits(d)
  BY <1>1, PlanKept
<1>6. Stage(d, branch', tree', grouping', state', touched)
  <2>1. d.at \in 0..StepCount(d)
    BY <1>1, <1>2, <1>3
  <2>2. Accountable(d) = Accountable(c)
    BY <1>1 DEF Accountable, Unmaking
  <2> QED BY <1>1, <1>5, <2>1, <2>2 DEF Stage, Failed
<1>7. Aside(p) /\ d.pc \in Working /\ c.pc \in Working
  BY <1>1 DEF Aside, Retreats, StepFrame, Working
<1> QED BY <1>1, <1>4, <1>6, <1>7, HolderKeeps

\* A record that differs from c in what the command notes.
Noted(c, record, added) ==
    /\ Kept(c, record) /\ record.unreverted = c.unreverted /\ record.at = c.at
    /\ record.madeGroup = c.madeGroup /\ record.partial = c.partial
    /\ record.added = added

\* A step whose undo fails is named, and so is whatever it leaves of its own
\* worktree.
LEMMA FailedUndoIsNamed ==
    ASSUME LInv, IInv', NEW p \in Procs, NEW kind, Undoing(p, kind), StepFrame,
           NEW c, c = proc[p], NEW record, NotUndone(p, record),
           Noted(c, record, c.added), UNCHANGED <<branch, grouping, state>>, World',
           \A x \in Repos : tree'[x] = tree[x] \/ (kind \in Kinds /\ Step(p) = <<kind, x>>)
    PROVE  LInv'
<1>1. PICK d : d = proc'[p]
  OBVIOUS
<1>2. /\ ProcOK /\ World /\ Command(c) /\ PlanFits(c)
      /\ c.pc \in {"cleanup", "rollback"} /\ c.at \in 1..StepCount(c)
      /\ Accountable(c) => Accounted(c, branch, tree, grouping, state, touched)
  BY Undoes
<1>3. PICK unreverted : unreverted = c.unreverted \cup {Step(p)}
  OBVIOUS
<1>0. PICK added : added = c.added
  OBVIOUS
<1>4. Retreats(p, c, d, added, unreverted)
  BY <1>0, <1>1, <1>2, <1>3, RetreatOf DEF Noted
<1>5. Heir(c, d) /\ \A k, x : Inherits(c, d, k, x)
  <2>1. c.unreverted \subseteq unreverted /\ Step(p) \in unreverted
    BY <1>3
  <2> QED BY <1>2, <1>4, <2>1, RetreatInherits
<1>6. d.added = c.added /\ d.madeGroup = c.madeGroup
  BY <1>0, <1>4 DEF Retreats
<1>7. Accountable(c) => Accounted(d, branch, tree, grouping, state, touched)
  BY <1>2, <1>5, <1>6, AccountedInherits
<1>8. UNCHANGED <<branch, grouping, state, touched, moves, baselines, crashes>>
  BY DEF StepFrame, userVars
<1>10. ASSUME Accountable(c)
       PROVE  Accounted(d, branch', tree', grouping', state', touched)
  <2>1. Accounted(d, branch, tree, grouping, state, touched)
    BY <1>7, <1>10
  <2>2. d.unreverted = c.unreverted \cup {Step(p)}
    BY <1>3, <1>4 DEF Retreats
  <2>3. ASSUME NEW x \in Repos \ touched PROVE TreeAccounted(d, x, tree'[x])
    <3>1. CASE tree'[x] = tree[x]
      BY <2>1, <3>1 DEF Accounted
    <3>2. CASE kind \in Kinds /\ Step(p) = <<kind, x>>
      BY <2>2, <3>2 DEF TreeAccounted, Named
    <3> QED BY <3>1, <3>2
  <2> QED BY <1>8, <2>1, <2>3 DEF Accounted
<1>11. UNCHANGED touched
  BY <1>8
<1> QED BY <1>1, <1>2, <1>4, <1>10, <1>11, RetreatKeeps

LEMMA FailedUndoKeeps ==
    ASSUME LInv, IInv', NEW p \in Procs, NEW kind, Undoing(p, kind), StepFrame,
           NEW c, c = proc[p], NEW record, NotUndone(p, record),
           Noted(c, record, c.added), UNCHANGED <<world, state>>
    PROVE  LInv'
<1>1. UNCHANGED <<branch, tree, grouping, state, touched, moves, baselines, crashes>>
  BY DEF world, StepFrame, userVars
<1>2. World
  BY Undoes
<1>3. World'
  BY <1>1, <1>2 DEF World
<1> QED BY <1>1, <1>3, FailedUndoIsNamed

\* Undoing step p puts back what the step had changed.
PutsBack(p, kind, c, added) ==
    /\ added \subseteq c.added
    /\ \A x \in Repos \ touched :
          /\ \/ branch'[x] = c.found.branch[x]
             \/ branch'[x] = branch[x] /\ Step(p) \notin {<<"branch", x>>, <<"drop", x>>}
          /\ \/ Same(tree'[x], c.found.tree[x])
             \/ /\ tree'[x] = tree[x]
                /\ Step(p) # <<"remove", x>> \/ tree[x].dir # "none"
                /\ x \in c.added => x \in added
          /\ Step(p) = <<"add", x>> => x \notin added
    /\ state' = c.prior \/ (state' = state /\ kind # "unstate")
    /\ \/ grouping' = c.found.grouping
       \/ grouping' = grouping /\ (kind # "group" \/ ~c.madeGroup)

LEMMA UndoneKeeps ==
    ASSUME LInv, IInv', NEW p \in Procs, NEW kind, Undoing(p, kind), StepFrame,
           NEW c, c = proc[p], NEW record, Undone(p, record),
           NEW added, Noted(c, record, added), World',
           Accountable(c) => PutsBack(p, kind, c, added)
    PROVE  LInv'
<1>1. PICK d : d = proc'[p]
  OBVIOUS
<1>2. /\ ProcOK /\ World /\ Command(c) /\ PlanFits(c)
      /\ c.pc \in {"cleanup", "rollback"} /\ c.at \in 1..StepCount(c)
      /\ Accountable(c) => Accounted(c, branch, tree, grouping, state, touched)
      /\ Step(p) = <<kind, Repo(p)>>
  BY Undoes
<1>4. Retreats(p, c, d, added, c.unreverted)
  BY <1>1, <1>2, RetreatOf DEF Noted
<1>5. Heir(c, d) /\ \A k, x : Step(p) # <<k, x>> => Inherits(c, d, k, x)
  BY <1>2, <1>4, RetreatInherits
<1>6. /\ d.added = added /\ d.madeGroup = c.madeGroup /\ d.op = c.op
      /\ d.found = c.found /\ d.prior = c.prior
  BY <1>4 DEF Retreats, Kept
<1>7. UNCHANGED touched
  BY DEF StepFrame, userVars
<1>8. ASSUME Accountable(c)
      PROVE  Accounted(d, branch', tree', grouping', state', touched)
  <2>1. PutsBack(p, kind, c, added) /\ Accounted(c, branch, tree, grouping, state, touched)
    BY <1>2, <1>8
  <2>2. ASSUME NEW x \in Repos \ touched
        PROVE  /\ BranchAccounted(d, x, branch'[x]) /\ TreeAccounted(d, x, tree'[x])
               /\ AddedAccounted(d, x)
    <3>1. /\ BranchAccounted(c, x, branch[x]) /\ TreeAccounted(c, x, tree[x])
          /\ AddedAccounted(c, x)
      BY <2>1 DEF Accounted
    <3>2. BranchAccounted(d, x, branch'[x])
      <4>1. CASE branch'[x] = c.found.branch[x]
        BY <1>6, <4>1 DEF BranchAccounted
      <4>2. CASE branch'[x] = branch[x] /\ Step(p) \notin {<<"branch", x>>, <<"drop", x>>}
        <5>1. Inherits(c, d, "branch", x) /\ Inherits(c, d, "drop", x)
          BY <1>5, <4>2
        <5> QED BY <1>5, <3>1, <4>2, <5>1, BranchInherits
      <4> QED BY <2>1, <4>1, <4>2 DEF PutsBack
    <3>3. TreeAccounted(d, x, tree'[x])
      <4>1. CASE Same(tree'[x], c.found.tree[x])
        BY <1>6, <4>1 DEF TreeAccounted
      <4>2. CASE /\ tree'[x] = tree[x] /\ Step(p) # <<"remove", x>>
                 /\ x \in c.added => x \in added
        <5>1. Inherits(c, d, "remove", x)
          BY <1>5, <4>2
        <5> QED BY <1>5, <1>6, <3>1, <4>2, <5>1, TreeInherits
      <4>3. CASE /\ tree'[x] = tree[x] /\ tree[x].dir # "none"
                 /\ x \in c.added => x \in added
        <5>1. \/ Same(tree[x], c.found.tree[x]) \/ Named(c, x)
              \/ Making(c) /\ x \in c.added
          BY <3>1, <4>3 DEF TreeAccounted
        <5>2. Named(c, x) => Named(d, x)
          BY <1>5, NamedInherits
        <5> QED BY <1>6, <4>3, <5>1, <5>2 DEF TreeAccounted, Making
      <4> QED BY <2>1, <4>1, <4>2, <4>3 DEF PutsBack
    <3>4. AddedAccounted(d, x)
      <4>1. CASE x \notin added
        BY <1>6, <4>1 DEF AddedAccounted
      <4>2. CASE x \in added
        <5>1. Inherits(c, d, "add", x) /\ x \in c.added
          BY <1>5, <2>1, <4>2 DEF PutsBack
        <5> QED BY <1>5, <3>1, <5>1, AddedInherits
      <4> QED BY <4>1, <4>2
    <3> QED BY <3>2, <3>3, <3>4
  <2>3. StateAccounted(d, state')
    <3>1. CASE state' = c.prior
      BY <1>6, <3>1 DEF StateAccounted
    <3>2. CASE state' = state /\ kind # "unstate"
      <4>1. Inherits(c, d, "unstate", Nobody)
        BY <1>2, <1>5, <3>2
      <4>2. StateAccounted(c, state)
        BY <2>1 DEF Accounted
      <4> QED BY <1>5, <3>2, <4>1, <4>2, StateInherits
    <3> QED BY <2>1, <3>1, <3>2 DEF PutsBack
  <2>4. GroupAccounted(d, grouping')
    <3>1. CASE grouping' = c.found.grouping
      BY <1>6, <3>1 DEF GroupAccounted
    <3>2. CASE grouping' = grouping /\ kind # "group"
      <4>1. \A x \in Repos : Inherits(c, d, "group", x)
        BY <1>2, <1>5, <3>2
      <4>2. GroupAccounted(c, grouping)
        BY <2>1 DEF Accounted
      <4> QED BY <1>5, <1>6, <3>2, <4>1, <4>2, GroupInherits
    <3>3. CASE grouping' = grouping /\ ~c.madeGroup
      <4>1. GroupAccounted(c, grouping)
        BY <2>1 DEF Accounted
      <4> QED BY <1>5, <1>6, <3>3, <4>1 DEF GroupAccounted, Heir
    <3> QED BY <2>1, <3>1, <3>2, <3>3 DEF PutsBack
  <2>5. d.madeGroup => ~d.found.grouping
    BY <1>6, <2>1 DEF Accounted
  <2> QED BY <2>2, <2>3, <2>4, <2>5 DEF Accounted
<1> QED BY <1>1, <1>2, <1>4, <1>7, <1>8, RetreatKeeps

LEMMA BranchUndone ==
    ASSUME LInv, IInv', NEW p \in Procs, UndoBranch(p)
    PROVE  LInv'
<1>1. PICK c : c = proc[p]
  OBVIOUS
<1>2. PICK r : r = Repo(p)
  OBVIOUS
<1>3. Undoing(p, "branch") /\ StepFrame
  BY DEF UndoBranch
<1>4. /\ World /\ Command(c) /\ PlanFits(c)
      /\ Step(p) = <<"branch", r>> /\ r \in Repos /\ c.op = "create"
  BY <1>1, <1>2, <1>3, Undoes DEF OpNames
<1>5. /\ Noted(c, c, c.added) /\ UNCHANGED <<touched, moves, baselines, crashes>>
  BY <1>3, <1>4, KeptItself DEF Noted, StepFrame, userVars
<1>6. CASE NotUndone(p, c) /\ UNCHANGED <<world, state>>
  BY <1>1, <1>3, <1>5, <1>6, FailedUndoKeeps
<1>7. CASE /\ branch' = [branch EXCEPT ![r] = "none"]
           /\ UNCHANGED <<tree, grouping, state>>
           /\ Undone(p, c)
  <2>1. branch'[r] = "none" /\ \A x \in Repos : x # r => branch'[x] = branch[x]
    BY <1>4, <1>7 DEF World, Refs
  <2>2. c.found.branch[r] = "none" /\ baselines = {}
    BY <1>4 DEF PlanFits
  <2>3. PutsBack(p, "branch", c, c.added)
    BY <1>4, <1>7, <2>1, <2>2 DEF PutsBack
  <2>4. branch' \in Refs
    BY <1>4, <1>7 DEF World, Refs
  <2>5. World'
    BY <1>4, <1>5, <1>7, <2>1, <2>2, <2>4 DEF World
  <2> QED BY <1>1, <1>3, <1>5, <1>7, <2>3, <2>5, UndoneKeeps
<1> QED BY <1>1, <1>2, <1>6, <1>7 DEF UndoBranch, UndoFails

LEMMA GroupUndone ==
    ASSUME LInv, IInv', NEW p \in Procs, UndoGroup(p)
    PROVE  LInv'
<1>1. PICK c : c = proc[p]
  OBVIOUS
<1>2. PICK r : r = Repo(p)
  OBVIOUS
<1>3. Undoing(p, "group") /\ StepFrame
  BY DEF UndoGroup
<1>4. /\ World /\ Command(c) /\ PlanFits(c)
      /\ Step(p) = <<"group", r>> /\ r \in Repos
      /\ Accountable(c) => Accounted(c, branch, tree, grouping, state, touched)
  BY <1>1, <1>2, <1>3, Undoes
<1>5. /\ Noted(c, c, c.added) /\ UNCHANGED <<touched, moves, baselines, crashes>>
  BY <1>3, <1>4, KeptItself DEF Noted, StepFrame, userVars
<1>6. CASE NotUndone(p, c) /\ UNCHANGED <<world, state>>
  BY <1>1, <1>3, <1>5, <1>6, FailedUndoKeeps
<1>7. CASE /\ \/ ~c.madeGroup /\ UNCHANGED grouping
              \/ c.madeGroup /\ grouping' = FALSE
           /\ UNCHANGED <<branch, tree, state>>
           /\ Undone(p, c)
  <2>1. Accountable(c) => (c.madeGroup => c.found.grouping = FALSE)
    BY <1>4 DEF Accounted, PlanFits
  <2>2. ASSUME Accountable(c) PROVE PutsBack(p, "group", c, c.added)
    <3>1. grouping' = c.found.grouping \/ (grouping' = grouping /\ ~c.madeGroup)
      BY <1>7, <2>1, <2>2
    <3>2. \A x \in Repos : Step(p) \notin {<<"branch", x>>, <<"drop", x>>, <<"remove", x>>, <<"add", x>>}
      BY <1>4
    <3> QED BY <1>7, <3>1, <3>2 DEF PutsBack
  <2>3. World'
    BY <1>4, <1>5, <1>7 DEF World
  <2> QED BY <1>1, <1>3, <1>5, <1>7, <2>2, <2>3, UndoneKeeps
<1> QED BY <1>1, <1>6, <1>7 DEF UndoGroup, UndoFails, UndoIsIdle, world

LEMMA NothingUndone ==
    ASSUME LInv, IInv', NEW p \in Procs, UndoNothing(p)
    PROVE  LInv'
<1>1. PICK c : c = proc[p]
  OBVIOUS
<1>2. PICK kind \in {"inspect", "ignore"} : Undoing(p, kind)
  BY DEF UndoNothing
<1>3. StepFrame /\ Undone(p, c) /\ UNCHANGED <<branch, tree, grouping, state>>
  BY <1>1 DEF UndoNothing, UndoIsIdle, world
<1>4. World /\ Command(c) /\ Step(p) = <<kind, Repo(p)>>
  BY <1>1, <1>2, Undoes
<1>5. /\ Noted(c, c, c.added) /\ UNCHANGED <<touched, moves, baselines, crashes>>
  BY <1>3, <1>4, KeptItself DEF Noted, StepFrame, userVars
<1>6. PutsBack(p, kind, c, c.added)
  BY <1>2, <1>3, <1>4 DEF PutsBack
<1>7. World'
  BY <1>3, <1>4, <1>5 DEF World
<1> QED BY <1>1, <1>2, <1>3, <1>5, <1>6, <1>7, UndoneKeeps

LEMMA AddUndone ==
    ASSUME LInv, IInv', NEW p \in Procs, UndoAdd(p)
    PROVE  LInv'
<1>1. PICK c : c = proc[p]
  OBVIOUS
<1>2. PICK r : r = Repo(p)
  OBVIOUS
<1>3. Undoing(p, "add") /\ StepFrame
  BY DEF UndoAdd
<1>4. /\ World /\ Command(c) /\ PlanFits(c)
      /\ Step(p) = <<"add", r>> /\ r \in Repos
      /\ Accountable(c) => Accounted(c, branch, tree, grouping, state, touched)
  BY <1>1, <1>2, <1>3, Undoes
<1>5. /\ Noted(c, c, c.added) /\ UNCHANGED <<touched, moves, baselines, crashes>>
  BY <1>3, <1>4, KeptItself DEF Noted, StepFrame, userVars
<1>6. \/ r \notin c.added /\ UndoIsIdle(p)
      \/ \E possible : UndoFails(p, possible, c)
      \/ \E possible : UndoFails(p, possible, [c EXCEPT !.preserved = @ \cup {r}])
      \/ /\ r \in c.added
         /\ tree' = [tree EXCEPT ![r] = NoTree]
         /\ UNCHANGED <<branch, grouping, state>>
         /\ \/ Undone(p, [c EXCEPT !.added = @ \ {r}])
            \/ Undone(p, [c EXCEPT !.added = @ \ {r}, !.preserved = @ \cup {r}])
      \/ /\ \E left \in Held(r) : tree' = [tree EXCEPT ![r] = left]
         /\ UNCHANGED <<branch, grouping, state>>
         /\ NotUndone(p, [c EXCEPT !.preserved = IF c.op = "create" THEN @ \cup {r} ELSE @,
                                   !.held = @ \cup {r}])
  BY <1>1, <1>2, ZenonT(40) DEF UndoAdd
<1>7. CASE r \notin c.added /\ UndoIsIdle(p)
  <2>1. UNCHANGED <<branch, tree, grouping, state>> /\ Undone(p, c)
    BY <1>1, <1>7 DEF UndoIsIdle, world
  <2>2. PutsBack(p, "add", c, c.added)
    BY <1>4, <1>7, <2>1 DEF PutsBack
  <2>3. World'
    BY <1>4, <1>5, <2>1 DEF World
  <2> QED BY <1>1, <1>3, <1>5, <2>1, <2>2, <2>3, UndoneKeeps
<1>8. CASE \E possible : UndoFails(p, possible, c)
  BY <1>1, <1>3, <1>5, <1>8, FailedUndoKeeps DEF UndoFails
<1>9. CASE \E possible : UndoFails(p, possible, [c EXCEPT !.preserved = @ \cup {r}])
  <2>1. PICK e : e = [c EXCEPT !.preserved = @ \cup {r}]
    OBVIOUS
  <2>2. Noted(c, e, c.added)
    BY <1>4, <2>1 DEF Noted, Kept, Command, CmdFields
  <2>3. NotUndone(p, e) /\ UNCHANGED <<world, state>>
    BY <1>9, <2>1 DEF UndoFails
  <2> QED BY <1>1, <1>3, <2>2, <2>3, FailedUndoKeeps
<1>10. CASE /\ r \in c.added
            /\ tree' = [tree EXCEPT ![r] = NoTree]
            /\ UNCHANGED <<branch, grouping, state>>
            /\ \/ Undone(p, [c EXCEPT !.added = @ \ {r}])
               \/ Undone(p, [c EXCEPT !.added = @ \ {r}, !.preserved = @ \cup {r}])
  <2>1. PICK e \in {[c EXCEPT !.added = @ \ {r}],
                    [c EXCEPT !.added = @ \ {r}, !.preserved = @ \cup {r}]} : Undone(p, e)
    BY <1>10
  <2>2. PICK added : added = c.added \ {r}
    OBVIOUS
  <2>3. Noted(c, e, added)
    BY <1>4, <2>1, <2>2 DEF Noted, Kept, Command, CmdFields
  <2>4. tree'[r] = NoTree /\ \A x \in Repos : x # r => tree'[x] = tree[x]
    BY <1>4, <1>10 DEF World, Paths
  <2>5. ASSUME Accountable(c) PROVE PutsBack(p, "add", c, added)
    <3>1. r \notin touched => c.found.tree[r].dir = "none" /\ ~c.found.tree[r].reg
      BY <1>4, <1>10, <2>5 DEF Accounted, AddedAccounted
    <3>2. r \notin touched => c.found.tree[r] = NoTree
      <4>1. c.found.tree[r] \in Tree /\ Shaped(c.found.tree)
        BY <1>4 DEF PlanFits, Paths
      <4> QED BY <1>4, <3>1, <4>1 DEF Shaped, Tree, NoTree
    <3>3. r \notin touched => Same(tree'[r], c.found.tree[r])
      BY <2>4, <3>2 DEF Same, NoTree
    <3>4. added \subseteq c.added /\ r \notin added /\ \A x : x # r /\ x \in c.added => x \in added
      BY <2>2
    <3> QED BY <1>4, <1>10, <2>4, <3>3, <3>4 DEF PutsBack
  <2>6. NoTree \in Tree
    BY DEF NoTree, Tree
  <2>7. tree' \in Paths /\ Shaped(tree')
    BY <1>4, <1>10, <2>4, <2>6 DEF World, Paths, Shaped, NoTree
  <2>8. World'
    BY <1>4, <1>5, <1>10, <2>7 DEF World
  <2> QED BY <1>1, <1>3, <2>1, <2>3, <2>5, <2>8, UndoneKeeps
<1>11. CASE /\ \E left \in Held(r) : tree' = [tree EXCEPT ![r] = left]
            /\ UNCHANGED <<branch, grouping, state>>
            /\ NotUndone(p, [c EXCEPT !.preserved = IF c.op = "create" THEN @ \cup {r} ELSE @,
                                      !.held = @ \cup {r}])
  <2>1. PICK e : e = [c EXCEPT !.preserved = IF c.op = "create" THEN @ \cup {r} ELSE @,
                               !.held = @ \cup {r}]
    OBVIOUS
  <2>2. Noted(c, e, c.added)
    BY <1>4, <2>1 DEF Noted, Kept, Command, CmdFields
  <2>3. PICK left \in Held(r) : tree' = [tree EXCEPT ![r] = left]
    BY <1>11
  <2>4. tree'[r] = left /\ \A x \in Repos : x # r => tree'[x] = tree[x]
    BY <1>4, <2>3 DEF World, Paths
  <2>5. tree[r] \in Tree /\ Shaped(tree)
    BY <1>4 DEF World, Paths
  <2>6. /\ left \in Tree /\ left.dirt = "clean" /\ left.dir = "none"
        /\ ~left.reg => ~left.on /\ left.id = Nobody
    <3>1. CASE left = NoTree
      BY <3>1 DEF NoTree, Tree
    <3>2. CASE left = Emptied(tree[r])
      BY <1>4, <2>5, <3>2 DEF Emptied, Tree, Shaped
    <3> QED BY <2>3, <3>1, <3>2 DEF Held
  <2>7. tree' \in Paths
    BY <1>4, <2>3, <2>6 DEF World, Paths
  <2>8. Shaped(tree')
    BY <1>4, <2>4, <2>5, <2>6 DEF Shaped
  <2>9. World'
    BY <1>4, <1>5, <1>11, <2>7, <2>8 DEF World
  <2>10. NotUndone(p, e)
    BY <1>11, <2>1
  <2>11. "add" \in Kinds
    BY DEF Kinds
  <2> QED BY <1>1, <1>3, <1>4, <1>11, <2>2, <2>4, <2>9, <2>10, <2>11, FailedUndoIsNamed
<1> QED BY <1>6, <1>7, <1>8, <1>9, <1>10, <1>11

LEMMA RemoveUndone ==
    ASSUME LInv, IInv', NEW p \in Procs, UndoRemove(p)
    PROVE  LInv'
<1>1. PICK c : c = proc[p]
  OBVIOUS
<1>2. PICK r : r = Repo(p)
  OBVIOUS
<1>3. Undoing(p, "remove") /\ StepFrame
  BY DEF UndoRemove
<1>4. /\ World /\ Command(c) /\ PlanFits(c)
      /\ Step(p) = <<"remove", r>> /\ r \in Repos /\ Unmaking(c)
  BY <1>1, <1>2, <1>3, Undoes DEF OpNames, Unmaking
<1>5. /\ Noted(c, c, c.added) /\ UNCHANGED <<touched, moves, baselines, crashes>>
  BY <1>3, <1>4, KeptItself DEF Noted, StepFrame, userVars
<1>6. \/ tree[r].dir = "checkout" /\ UndoIsIdle(p)
      \/ \E possible : UndoFails(p, possible, c)
      \/ /\ ~c.plan[r].force
         /\ tree' = [tree EXCEPT ![r] = NewTree(p)]
         /\ UNCHANGED <<branch, grouping, state>>
         /\ Undone(p, [c EXCEPT !.receipt[r] = p])
  BY <1>1, <1>2, Zenon DEF UndoRemove, ReceiptHolds
<1>7. CASE tree[r].dir = "checkout" /\ UndoIsIdle(p)
  <2>1. UNCHANGED <<branch, tree, grouping, state>> /\ Undone(p, c)
    BY <1>1, <1>7 DEF UndoIsIdle, world
  <2>2. PutsBack(p, "remove", c, c.added)
    BY <1>4, <1>7, <2>1 DEF PutsBack
  <2>3. World'
    BY <1>4, <1>5, <2>1 DEF World
  <2> QED BY <1>1, <1>3, <1>5, <2>1, <2>2, <2>3, UndoneKeeps
<1>8. CASE \E possible : UndoFails(p, possible, c)
  BY <1>1, <1>3, <1>5, <1>8, FailedUndoKeeps DEF UndoFails
<1>9. CASE /\ ~c.plan[r].force
           /\ tree' = [tree EXCEPT ![r] = NewTree(p)]
           /\ UNCHANGED <<branch, grouping, state>>
           /\ Undone(p, [c EXCEPT !.receipt[r] = p])
  <2>1. PICK e : e = [c EXCEPT !.receipt[r] = p]
    OBVIOUS
  <2>2. Noted(c, e, c.added)
    BY <1>4, <2>1 DEF Noted, Kept, Command, CmdFields
  <2>3. tree'[r] = NewTree(p) /\ \A x \in Repos : x # r => tree'[x] = tree[x]
    BY <1>4, <1>9 DEF World, Paths
  <2>4. Same(tree'[r], c.found.tree[r])
    <3>1. PICK t : t = c.found.tree[r]
      OBVIOUS
    <3>2. /\ t \in Tree /\ t.dir = "checkout" /\ t.reg /\ t.on /\ t.dirt = "clean"
      BY <1>4, <1>9, <3>1 DEF PlanFits, Paths
    <3>3. NewTree(p) \in Tree
      BY DEF NewTree, Tree
    <3>4. NewTree(p) = [t EXCEPT !.id = p]
      <4>1. PICK u : u = [t EXCEPT !.id = p]
        OBVIOUS
      <4>2. t.reg = TRUE /\ t.on = TRUE
        BY <3>2 DEF Tree
      <4>3. /\ u \in Tree /\ u.dir = "checkout" /\ u.reg = TRUE /\ u.on = TRUE
            /\ u.dirt = "clean" /\ u.id = p
        BY <3>2, <4>1, <4>2 DEF Tree
      <4>4. PICK n : n = NewTree(p)
        OBVIOUS
      <4>5. /\ n \in Tree /\ n.dir = "checkout" /\ n.reg = TRUE /\ n.on = TRUE
            /\ n.dirt = "clean" /\ n.id = p
        BY <3>3, <4>4 DEF NewTree
      <4>6. u = n
        BY <4>3, <4>5 DEF Tree
      <4> QED BY <4>1, <4>4, <4>6
    <3>5. NewTree(p).id = p
      BY DEF NewTree
    <3> QED BY <2>3, <3>1, <3>4, <3>5 DEF Same
  <2>5. PutsBack(p, "remove", c, c.added)
    BY <1>4, <1>9, <2>3, <2>4 DEF PutsBack
  <2>6. NewTree(p) \in Tree
    BY DEF NewTree, Tree
  <2>7. tree' \in Paths /\ Shaped(tree')
    BY <1>4, <1>9, <2>3, <2>6 DEF World, Paths, Shaped, NewTree
  <2>8. World'
    BY <1>4, <1>5, <1>9, <2>7 DEF World
  <2>9. Undone(p, e)
    BY <1>9, <2>1
  <2> QED BY <1>1, <1>3, <2>2, <2>5, <2>8, <2>9, UndoneKeeps
<1> QED BY <1>6, <1>7, <1>8, <1>9

LEMMA DropUndone ==
    ASSUME LInv, IInv', NEW p \in Procs, UndoDrop(p)
    PROVE  LInv'
<1>1. PICK c : c = proc[p]
  OBVIOUS
<1>2. PICK r : r = Repo(p)
  OBVIOUS
<1>3. Undoing(p, "drop") /\ StepFrame
  BY DEF UndoDrop
<1>4. /\ World /\ Command(c) /\ PlanFits(c)
      /\ Step(p) = <<"drop", r>> /\ r \in Repos /\ c.op = "delete"
      /\ c.plan[r].drop # "keep"
  BY <1>1, <1>2, <1>3, Undoes DEF OpNames
<1>5. /\ Noted(c, c, c.added) /\ UNCHANGED <<touched, moves, baselines, crashes>>
  BY <1>3, <1>4, KeptItself DEF Noted, StepFrame, userVars
<1>6. \/ branch[r] = c.plan[r].head /\ UndoIsIdle(p)
      \/ \E possible : UndoFails(p, possible, c)
      \/ /\ branch' = [branch EXCEPT ![r] = c.plan[r].head]
         /\ UNCHANGED <<tree, grouping, state>>
         /\ Undone(p, c)
  BY <1>1, <1>2, Zenon DEF UndoDrop
<1>7. c.plan[r].head = c.found.branch[r]
  BY <1>4 DEF PlanFits
<1>8. CASE \E possible : UndoFails(p, possible, c)
  BY <1>1, <1>3, <1>5, <1>8, FailedUndoKeeps DEF UndoFails
<1>9. CASE branch[r] = c.plan[r].head /\ UndoIsIdle(p)
  <2>1. UNCHANGED <<branch, tree, grouping, state>> /\ Undone(p, c)
    BY <1>1, <1>9 DEF UndoIsIdle, world
  <2>2. PutsBack(p, "drop", c, c.added)
    BY <1>4, <1>7, <1>9, <2>1 DEF PutsBack
  <2>3. World'
    BY <1>4, <1>5, <2>1 DEF World
  <2> QED BY <1>1, <1>3, <1>5, <2>1, <2>2, <2>3, UndoneKeeps
<1>10. CASE /\ branch' = [branch EXCEPT ![r] = c.plan[r].head]
            /\ UNCHANGED <<tree, grouping, state>>
            /\ Undone(p, c)
  <2>1. branch'[r] = c.plan[r].head /\ \A x \in Repos : x # r => branch'[x] = branch[x]
    BY <1>4, <1>10 DEF World, Refs
  <2>2. PutsBack(p, "drop", c, c.added)
    BY <1>4, <1>7, <1>10, <2>1 DEF PutsBack
  <2>3. branch' \in Refs
    BY <1>4, <1>10 DEF World, Refs, Command
  <2>4. r \notin baselines
    BY <1>4 DEF Command
  <2>5. moves = 0 => c.plan[r].head # "user"
    BY <1>1, <1>4 DEF LInv
  <2>6. /\ \A x \in baselines : branch'[x] # "none"
        /\ moves = 0 => \A x \in Repos : branch'[x] # "user"
    BY <1>4, <2>1, <2>4, <2>5 DEF World
  <2>7. World'
    BY <1>4, <1>5, <1>10, <2>3, <2>6 DEF World
  <2> QED BY <1>1, <1>3, <1>5, <1>10, <2>2, <2>7, UndoneKeeps
<1> QED BY <1>6, <1>8, <1>9, <1>10

LEMMA UnstateUndone ==
    ASSUME LInv, IInv', NEW p \in Procs, UndoUnstate(p)
    PROVE  LInv'
<1>1. PICK c : c = proc[p]
  OBVIOUS
<1>2. Undoing(p, "unstate") /\ StepFrame
  BY DEF UndoUnstate
<1>3. /\ World /\ Command(c) /\ PlanFits(c) /\ Step(p) = <<"unstate", Nobody>>
  BY <1>1, <1>2, Undoes
<1>4. /\ Noted(c, c, c.added) /\ UNCHANGED <<touched, moves, baselines, crashes>>
  BY <1>2, <1>3, KeptItself DEF Noted, StepFrame, userVars
<1>5. CASE \E possible : UndoFails(p, possible, c)
  BY <1>1, <1>2, <1>4, <1>5, FailedUndoKeeps DEF UndoFails
<1>6. CASE state' = c.prior /\ UNCHANGED <<branch, tree, grouping>> /\ Undone(p, c)
  <2>1. PutsBack(p, "unstate", c, c.added)
    BY <1>3, <1>6 DEF PutsBack
  <2>2. state' \in Refs
    BY <1>3, <1>6 DEF PlanFits
  <2>3. World'
    BY <1>3, <1>4, <1>6, <2>2 DEF World
  <2> QED BY <1>1, <1>2, <1>4, <1>6, <2>1, <2>3, UndoneKeeps
<1>7. \/ \E possible : UndoFails(p, possible, c)
      \/ state' = c.prior /\ UNCHANGED <<branch, tree, grouping>> /\ Undone(p, c)
  BY <1>1 DEF UndoUnstate, UndoIsIdle, world
<1> QED BY <1>5, <1>6, <1>7

-----------------------------------------------------------------------------
(* The command around the runner                                            *)

\* What holds of a command that has not failed yet.
LEMMA Forwards ==
    ASSUME LInv, NEW p \in Procs, NEW c, c = proc[p],
           c.pc \in {"running", "validate", "commit"}
    PROVE  /\ ProcOK /\ World /\ Command(c) /\ PlanFits(c)
           /\ c.op \in OpNames /\ c.unreverted = {}
           /\ StepCount(c) \in Nat /\ c.at \in 1..(StepCount(c) + 1)
           /\ c.pc # "running" => c.at = StepCount(c) + 1 /\ Making(c)
           /\ Accounted(c, branch, tree, grouping, state, touched)
           /\ c.pc = "running" => Forward(c, branch, tree, state, touched)
           /\ c.pc = "commit" => Valid(c, branch, tree, touched)
<1>1. /\ ProcOK /\ World /\ Command(c) /\ Stage(c, branch, tree, grouping, state, touched)
  BY DEF LInv, IInv
<1>2. c.op \in OpNames /\ c.unreverted = {}
  BY <1>1 DEF Command
<1>3. StepCount(c) \in Nat
  BY <1>2, StepFacts DEF StepCount
<1>4. /\ PlanFits(c) /\ Accounted(c, branch, tree, grouping, state, touched)
      /\ c.pc # "running" => c.at = StepCount(c) + 1 /\ Making(c)
      /\ c.pc = "running" => Forward(c, branch, tree, state, touched)
      /\ c.pc = "commit" => Valid(c, branch, tree, touched)
      /\ c.pc = "running" => c.at \in 1..(StepCount(c) + 1)
  BY <1>1 DEF Stage, Working
<1>5. c.at \in 1..(StepCount(c) + 1)
  BY <1>3, <1>4
<1> HIDE DEF OpNames
<1> QED BY <1>1, <1>2, <1>3, <1>4, <1>5

\* A command that turns back has everything to undo that it had done.
LEMMA TurnsBack ==
    ASSUME LInv, IInv', NEW p \in Procs, NEW c, c = proc[p],
           c.pc \in {"running", "validate", "commit"}, NEW d, d = proc'[p],
           Aside(p), Kept(c, d), c.unreverted \subseteq d.unreverted,
           d.pc = "rollback", d.at = c.at - 1, d.added = c.added,
           d.madeGroup = c.madeGroup, d.partial = c.partial,
           UNCHANGED <<branch, tree, grouping>>, state' \in Refs,
           state' = state \/ state' = c.prior \/ CommitState \in d.unreverted
    PROVE  LInv'
<1>1. /\ World /\ Command(c) /\ PlanFits(c) /\ c.op \in OpNames /\ c.unreverted = {}
      /\ StepCount(c) \in Nat /\ c.at \in 1..(StepCount(c) + 1)
      /\ Accounted(c, branch, tree, grouping, state, touched)
  BY Forwards
<1>2. /\ d.op = c.op /\ d.plan = c.plan /\ d.found = c.found /\ d.prior = c.prior
      /\ d.force = c.force /\ d.outcome = c.outcome /\ d = [x \in CmdFields |-> d[x]]
  BY DEF Kept
<1>3. c.at \in Nat /\ c.at >= 1 /\ d.at \in 0..StepCount(c)
  BY <1>1
<1>4. Command(d)
  <2>1. c.pc # "idle" /\ d.at \in Nat /\ d.partial \in BOOLEAN
    <3>1. c.partial \in BOOLEAN
      BY <1>1 DEF Command
    <3>2. d.at \in Nat
      BY <1>3
    <3> QED BY <3>1, <3>2
  <2>2. d.pc = "rollback"
    OBVIOUS
  <2> QED BY <1>1, <1>2, <2>1, <2>2, CommandKept
<1>5. Heir(c, d) /\ \A k, x : Inherits(c, d, k, x)
  <2>1. Limit(c) = Limit(d)
    BY DEF Limit
  <2>2. \A k, x : Pending(c, k, x) => Pending(d, k, x)
    BY <1>2, <2>1 DEF Pending
  <2> QED BY <1>2, <2>2 DEF Heir, Inherits
<1>6. Accounted(d, branch, tree, grouping, state, touched)
  BY <1>1, <1>5, AccountedInherits
<1>7. StateAccounted(d, state')
  BY <1>2, <1>6 DEF Accounted, StateAccounted
<1>8. Accounted(d, branch', tree', grouping', state', touched)
  BY <1>6, <1>7 DEF Accounted
<1>9. Stage(d, branch', tree', grouping', state', touched)
  <2>1. PlanFits(d) /\ StepCount(d) = StepCount(c)
    BY <1>1, <1>2, PlanKept
  <2> QED BY <1>3, <1>8, <2>1 DEF Stage, Failed
<1>10. World'
  <2>1. UNCHANGED <<touched, moves, baselines, crashes>>
    BY DEF Aside, userVars
  <2> QED BY <1>1, <2>1 DEF World
<1>11. d.pc \in Working /\ c.pc \in Working
  BY DEF Working
<1>12. c.partial => d.partial
  OBVIOUS
<1> QED BY <1>2, <1>4, <1>9, <1>10, <1>11, <1>12, HolderKeeps

\* The record a command turns back with.
LEMMA TurnedBack ==
    ASSUME NEW c, Command(c), NEW e, e = [c EXCEPT !.pc = "rollback", !.at = @ - 1]
    PROVE  /\ Kept(c, e) /\ e.unreverted = c.unreverted /\ e.pc = "rollback"
           /\ e.at = c.at - 1 /\ e.added = c.added /\ e.madeGroup = c.madeGroup
           /\ e.partial = c.partial
BY DEF Command, Kept, CmdFields

LEMMA StopKeeps ==
    ASSUME LInv, IInv', NEW p \in Procs, StopCanceled(p)
    PROVE  LInv'
<1>1. PICK c : c = proc[p]
  OBVIOUS
<1>2. PICK d : d = proc'[p]
  OBVIOUS
<1>3. c.pc = "running" /\ UNCHANGED <<branch, tree, grouping, state>>
  BY <1>1 DEF StopCanceled, At, world, files
<1>4. ProcOK /\ World /\ Command(c)
  BY <1>1, <1>3, Forwards
<1>5. d = [c EXCEPT !.pc = "rollback", !.at = @ - 1] /\ OnlyMoves(p)
  BY <1>1, <1>2, <1>4, SetsRecord DEF StopCanceled
<1>6. Aside(p)
  BY <1>5 DEF StopCanceled, Aside, budget
<1>7. /\ Kept(c, d) /\ d.unreverted = c.unreverted /\ d.pc = "rollback"
      /\ d.at = c.at - 1 /\ d.added = c.added /\ d.madeGroup = c.madeGroup
      /\ d.partial = c.partial
  BY <1>4, <1>5, TurnedBack
<1>8. state' \in Refs
  BY <1>3, <1>4 DEF World
<1> QED BY <1>1, <1>2, <1>3, <1>6, <1>7, <1>8, TurnsBack

\* A command that goes on keeps all it has to undo.
LEMMA ProceedsKeeps ==
    ASSUME LInv, IInv', NEW p \in Procs, NEW c, c = proc[p],
           c.pc \in {"running", "validate", "commit"}, NEW d, d = proc'[p],
           Aside(p), Kept(c, d), d.unreverted = c.unreverted,
           d.pc \in {"running", "validate", "commit"}, d.at = c.at, d.added = c.added,
           d.madeGroup = c.madeGroup, d.partial = c.partial,
           UNCHANGED <<branch, tree, grouping, state>>,
           d.pc = "running" => c.pc = "running",
           d.pc # "running" => c.at = StepCount(c) + 1 /\ Making(c),
           d.pc = "commit" => Valid(c, branch, tree, touched)
    PROVE  LInv'
<1>1. /\ World /\ Command(c) /\ PlanFits(c) /\ c.at \in 1..(StepCount(c) + 1)
      /\ Accounted(c, branch, tree, grouping, state, touched)
      /\ c.pc = "running" => Forward(c, branch, tree, state, touched)
  BY Forwards
<1>2. /\ d.op = c.op /\ d.plan = c.plan /\ d.found = c.found /\ d.prior = c.prior
      /\ d.force = c.force /\ d.outcome = c.outcome /\ d = [x \in CmdFields |-> d[x]]
  BY DEF Kept
<1>3. Command(d)
  <2>1. /\ d.at \in Nat /\ d.partial \in BOOLEAN /\ d.unreverted = {}
        /\ c.pc # "idle" /\ d.pc \notin {"idle", "planned", "locked"}
    BY <1>1 DEF Command
  <2> QED BY <1>1, <1>2, <2>1, CommandKept
<1>4. \A k, x : Pending(d, k, x) <=> Pending(c, k, x)
  <2>1. Limit(c) = Limit(d)
    BY DEF Limit
  <2> QED BY <1>2, <2>1 DEF Pending
<1>5. Accounted(d, branch, tree, grouping, state, touched)
  <2>1. Heir(c, d) /\ \A k, x : Inherits(c, d, k, x)
    BY <1>2, <1>4 DEF Heir, Inherits
  <2> QED BY <1>1, <2>1, AccountedInherits
<1>6. d.pc = "running" => Forward(d, branch, tree, state, touched)
  <2>1. Making(d) = Making(c) /\ Unmaking(d) = Unmaking(c)
    BY <1>2 DEF Making, Unmaking
  <2> QED BY <1>1, <1>2, <1>4, <2>1 DEF Forward
<1>7. Stage(d, branch', tree', grouping', state', touched)
  <2>1. PlanFits(d) /\ StepCount(d) = StepCount(c) /\ Making(d) = Making(c)
    BY <1>1, <1>2, PlanKept
  <2>2. d.pc = "commit" => Valid(d, branch, tree, touched)
    BY <1>2 DEF Valid
  <2> QED BY <1>1, <1>5, <1>6, <2>1, <2>2 DEF Stage, Failed
<1>8. World'
  <2>1. UNCHANGED <<touched, moves, baselines, crashes>>
    BY DEF Aside, userVars
  <2> QED BY <1>1, <2>1 DEF World
<1>9. c.pc \in Working /\ d.pc \in Working
  BY DEF Working
<1>10. c.partial => d.partial
  OBVIOUS
<1> QED BY <1>2, <1>3, <1>7, <1>8, <1>9, <1>10, HolderKeeps

LEMMA CancelKeeps ==
    ASSUME LInv, IInv', NEW p \in Procs, Cancel(p)
    PROVE  LInv'
<1>1. PICK c : c = proc[p]
  OBVIOUS
<1>2. PICK d : d = proc'[p]
  OBVIOUS
<1>3. /\ c.pc \in {"running", "validate", "commit"}
      /\ UNCHANGED <<branch, tree, grouping, state>>
  BY <1>1 DEF Cancel, world
<1>4. /\ ProcOK /\ Command(c)
      /\ c.pc # "running" => c.at = StepCount(c) + 1 /\ Making(c)
      /\ c.pc = "commit" => Valid(c, branch, tree, touched)
  BY <1>1, <1>3, Forwards
<1>5. d = [c EXCEPT !.canceled = TRUE] /\ OnlyMoves(p)
  BY <1>1, <1>2, <1>4, SetsRecord DEF Cancel
<1>6. Aside(p)
  BY <1>5 DEF Cancel, StepFrame, Aside
<1>7. /\ Kept(c, d) /\ d.pc = c.pc /\ d.at = c.at /\ d.unreverted = c.unreverted
      /\ d.added = c.added /\ d.madeGroup = c.madeGroup /\ d.partial = c.partial
  BY <1>4, <1>5 DEF Command, CmdFields, Kept
<1> QED BY <1>1, <1>2, <1>3, <1>4, <1>6, <1>7, ProceedsKeeps

LEMMA ValidateKeeps ==
    ASSUME LInv, IInv', NEW p \in Procs, Validate(p)
    PROVE  LInv'
<1>1. PICK c : c = proc[p]
  OBVIOUS
<1>2. PICK d : d = proc'[p]
  OBVIOUS
<1>3. c.pc = "validate" /\ UNCHANGED <<branch, tree, grouping, state>>
  BY <1>1 DEF Validate, At, world
<1>4. /\ ProcOK /\ World /\ Command(c) /\ c.at = StepCount(c) + 1 /\ Making(c)
  BY <1>1, <1>3, Forwards
<1>5. \/ /\ d = [c EXCEPT !.pc = "commit"]
         /\ \A r \in Repos : /\ tree[r].dir = "checkout" /\ CheckedOut(r)
                             /\ branch[r] = c.plan[r].head
      \/ d = [c EXCEPT !.pc = "rollback", !.at = @ - 1]
  BY <1>1, <1>2, <1>4, SetsRecord DEF Validate
<1>6. Aside(p)
  <2>1. OnlyMoves(p)
    BY <1>4, SetsRecord DEF Validate
  <2> QED BY <2>1 DEF Validate, StepFrame, Aside
<1>7. CASE /\ d = [c EXCEPT !.pc = "commit"]
           /\ \A r \in Repos : /\ tree[r].dir = "checkout" /\ CheckedOut(r)
                               /\ branch[r] = c.plan[r].head
  <2>1. /\ Kept(c, d) /\ d.pc = "commit" /\ d.at = c.at /\ d.unreverted = c.unreverted
        /\ d.added = c.added /\ d.madeGroup = c.madeGroup /\ d.partial = c.partial
    BY <1>4, <1>7 DEF Command, CmdFields, Kept
  <2>2. Valid(c, branch, tree, touched)
    BY <1>7 DEF Valid, CheckedOut
  <2> QED BY <1>1, <1>2, <1>3, <1>4, <1>6, <2>1, <2>2, ProceedsKeeps
<1>8. CASE d = [c EXCEPT !.pc = "rollback", !.at = @ - 1]
  <2>1. /\ Kept(c, d) /\ d.unreverted = c.unreverted /\ d.pc = "rollback"
        /\ d.at = c.at - 1 /\ d.added = c.added /\ d.madeGroup = c.madeGroup
        /\ d.partial = c.partial
    BY <1>4, <1>8, TurnedBack
  <2>2. state' \in Refs
    BY <1>3, <1>4 DEF World
  <2> QED BY <1>1, <1>2, <1>3, <1>6, <2>1, <2>2, TurnsBack
<1> QED BY <1>5, <1>7, <1>8

LEMMA CommitFailKeeps ==
    ASSUME LInv, IInv', NEW p \in Procs, CommitFails(p)
    PROVE  LInv'
<1>1. PICK c : c = proc[p]
  OBVIOUS
<1>2. PICK d : d = proc'[p]
  OBVIOUS
<1>3. c.pc = "commit" /\ UNCHANGED <<branch, tree, grouping>>
  BY <1>1 DEF CommitFails, At, world
<1>4. /\ ProcOK /\ World /\ Command(c) /\ PlanFits(c) /\ c.unreverted = {}
  BY <1>1, <1>3, Forwards
<1>5. PICK e : e = [c EXCEPT !.pc = "rollback", !.at = @ - 1]
  OBVIOUS
<1>6. /\ Kept(c, e) /\ e.unreverted = c.unreverted /\ e.pc = "rollback"
      /\ e.at = c.at - 1 /\ e.added = c.added /\ e.madeGroup = c.madeGroup
      /\ e.partial = c.partial
  BY <1>4, <1>5, TurnedBack
<1>7. \/ state' = c.prior /\ d = e
      \/ /\ state' \in {PlannedState(p), c.prior}
         /\ d = [e EXCEPT !.unreverted = @ \cup {CommitState}]
  BY <1>1, <1>2, <1>4, <1>5, SetsRecord DEF CommitFails
<1>8. Aside(p)
  <2>1. OnlyMoves(p)
    BY <1>4, SetsRecord DEF CommitFails
  <2> QED BY <2>1 DEF CommitFails, StepFrame, Aside
<1>9. state' \in Refs
  <2>1. PlannedState(p) \in Refs
    BY <1>1, <1>4 DEF PlannedState, Refs, Command
  <2> QED BY <1>4, <1>7, <2>1 DEF PlanFits
<1>10. CASE state' = c.prior /\ d = e
  BY <1>1, <1>2, <1>3, <1>6, <1>8, <1>9, <1>10, TurnsBack
<1>11. CASE d = [e EXCEPT !.unreverted = @ \cup {CommitState}]
  <2>1. e = [x \in CmdFields |-> e[x]]
    BY <1>6 DEF Kept
  <2>2. /\ Kept(e, d) /\ d.unreverted = e.unreverted \cup {CommitState}
        /\ d.pc = e.pc /\ d.at = e.at /\ d.added = e.added
        /\ d.madeGroup = e.madeGroup /\ d.partial = e.partial
    BY <1>11, <2>1 DEF Kept, CmdFields
  <2>3. /\ Kept(c, d) /\ c.unreverted \subseteq d.unreverted /\ d.pc = "rollback"
        /\ d.at = c.at - 1 /\ d.added = c.added /\ d.madeGroup = c.madeGroup
        /\ d.partial = c.partial /\ CommitState \in d.unreverted
    BY <1>6, <2>2 DEF Kept
  <2> QED BY <1>1, <1>2, <1>3, <1>8, <1>9, <2>3, TurnsBack
<1> QED BY <1>7, <1>10, <1>11

\* The command c ends.
Ends(c, d, outcome) == d = [c EXCEPT !.pc = "reported", !.outcome = outcome]

\* What a command that succeeds has to show.
LEMMA SucceedsKeeps ==
    ASSUME LInv, IInv', NEW p \in Procs, NEW c, c = proc[p],
           c.pc \in {"running", "validate", "commit"}, NEW d, d = proc'[p], Aside(p),
           Ends(c, d, "ok"),
           UNCHANGED <<branch, tree, grouping>>, state' \in Refs,
           Done(c, branch, tree, state', touched),
           Calm => Whole(branch, tree, state')
    PROVE  LInv'
<1>1. /\ World /\ Command(c) /\ c.op \in OpNames /\ c.unreverted = {}
  BY Forwards
<1>2. /\ d.op = c.op /\ d.plan = c.plan /\ d.found = c.found /\ d.prior = c.prior
      /\ d.force = c.force /\ d.outcome = "ok" /\ d = [x \in CmdFields |-> d[x]]
      /\ d.pc = "reported" /\ d.at = c.at /\ d.partial = c.partial
      /\ d.unreverted = c.unreverted
  BY <1>1 DEF Command, CmdFields, Ends
<1>3. Command(d)
  <2>1. d.at \in Nat /\ d.partial \in BOOLEAN /\ c.pc # "idle"
    BY <1>1, <1>2 DEF Command
  <2> QED BY <1>1, <1>2, <2>1, CommandKept
<1>4. Stage(d, branch', tree', grouping', state', touched)
  <2>1. Done(d, branch, tree, state', touched)
    BY <1>2 DEF Done, Making
  <2> QED BY <1>2, <2>1 DEF Stage, Working, Failed
<1>5. World'
  <2>1. UNCHANGED <<touched, moves, baselines, crashes>>
    BY DEF Aside, userVars
  <2> QED BY <1>1, <2>1 DEF World
<1>6. c.pc \in Working
  BY DEF Working
<1>7. Calm => Whole(branch', tree', state')
  OBVIOUS
<1>8. c.partial => d.partial
  BY <1>2
<1> QED BY <1>2, <1>3, <1>4, <1>5, <1>6, <1>7, <1>8, HolderKeeps

LEMMA CommitKeeps ==
    ASSUME LInv, IInv', NEW p \in Procs, Commit(p)
    PROVE  LInv'
<1>1. PICK c : c = proc[p]
  OBVIOUS
<1>2. PICK d : d = proc'[p]
  OBVIOUS
<1>3. c.pc = "commit" /\ UNCHANGED <<branch, tree, grouping>>
  BY <1>1 DEF Commit, At, world
<1>4. /\ ProcOK /\ World /\ Command(c) /\ PlanFits(c) /\ Making(c)
      /\ Valid(c, branch, tree, touched)
  BY <1>1, <1>3, Forwards
<1>5. Ends(c, d, "ok") /\ OnlyMoves(p)
  BY <1>1, <1>2, <1>4, SetsRecord DEF Commit, Ends
<1>6. Aside(p)
  BY <1>5 DEF Commit, StepFrame, Aside
<1>7. PICK s : s = [r \in Repos |-> c.plan[r].head]
  OBVIOUS
<1>8. state' = s
  BY <1>1, <1>7 DEF Commit, PlannedState
<1>9. s \in Refs /\ \A r \in Repos : s[r] = c.plan[r].head /\ s[r] # "none"
  BY <1>4, <1>7 DEF Refs, Command, Making
<1>10. Done(c, branch, tree, s, touched)
  <2>1. c.op \notin {"remove", "delete"}
    BY <1>4 DEF Making
  <2> QED BY <1>4, <1>7, <1>9, <2>1 DEF Done, Valid
<1>11. Calm => Whole(branch, tree, s)
  <2> SUFFICES ASSUME Calm PROVE Whole(branch, tree, s)
    OBVIOUS
  <2>1. touched = {}
    BY <1>4 DEF Calm, World
  <2>2. \A r \in Repos : /\ tree[r].dir = "checkout" /\ tree[r].reg /\ tree[r].on
                         /\ branch[r] = s[r] /\ s[r] # "none"
    BY <1>4, <1>9, <2>1 DEF Valid
  <2>3. CASE s # NoState
    BY <2>2, <2>3 DEF Whole
  <2>4. CASE s = NoState
    <3>1. Repos = {}
      BY <1>9, <2>4 DEF NoState
    <3> QED BY <2>4, <3>1 DEF Whole
  <2> QED BY <2>3, <2>4
<1>12. state' \in Refs /\ Done(c, branch, tree, state', touched)
  BY <1>8, <1>9, <1>10
<1>13. Calm => Whole(branch, tree, state')
  BY <1>8, <1>11
<1> QED BY <1>1, <1>2, <1>3, <1>5, <1>6, <1>12, <1>13, SucceedsKeeps

\* A step of each kind that a removal or deletion needs is among those done.
LEMMA AllDone ==
    ASSUME NEW c, Command(c), c.pc = "running", c.at = StepCount(c) + 1, Unmaking(c)
    PROVE  /\ \A r \in Repos : Pending(c, "remove", r)
           /\ c.op = "delete" =>
                 /\ Pending(c, "unstate", Nobody)
                 /\ \A r \in Repos : c.plan[r].drop # "keep" <=> Pending(c, "drop", r)
<1>1. StepCount(c) \in Nat /\ c.op \in OpNames
  BY StepFacts DEF StepCount, Command
<1>2. Limit(c) = StepCount(c)
  BY <1>1 DEF Limit
<1>3. \A k, r : Pending(c, k, r) <=>
         \E j \in 1..Len(StepsOf(c.op, c.plan)) : StepsOf(c.op, c.plan)[j] = <<k, r>>
  BY <1>2 DEF Pending, StepCount
<1>4. c.op \in {"remove", "delete"}
  BY DEF Unmaking
<1>5. \A r \in Repos : Pending(c, "remove", r)
  BY <1>3, <1>4, RemovesAll
<1>6. ASSUME c.op = "delete"
      PROVE  /\ Pending(c, "unstate", Nobody)
             /\ \A r \in Repos : c.plan[r].drop # "keep" => Pending(c, "drop", r)
  <2>1. ASSUME NEW plan
        PROVE  /\ \A r \in Repos : plan[r].drop # "keep" =>
                    \E j \in 1..Len(StepsOf("delete", plan)) :
                       StepsOf("delete", plan)[j] = <<"drop", r>>
               /\ \E j \in 1..Len(StepsOf("delete", plan)) :
                    StepsOf("delete", plan)[j] = <<"unstate", Nobody>>
    BY ONLY UnmakingFacts
  <2>2. Pending(c, "unstate", Nobody)
    <3>1. \E j \in 1..Len(StepsOf(c.op, c.plan)) :
             StepsOf(c.op, c.plan)[j] = <<"unstate", Nobody>>
      BY ONLY <1>6, <2>1
    <3> QED BY ONLY <1>3, <3>1
  <2>3. ASSUME NEW r \in Repos, c.plan[r].drop # "keep" PROVE Pending(c, "drop", r)
    <3>1. \E j \in 1..Len(StepsOf(c.op, c.plan)) : StepsOf(c.op, c.plan)[j] = <<"drop", r>>
      BY ONLY <1>6, <2>1, <2>3
    <3> QED BY ONLY <1>3, <3>1
  <2> QED BY ONLY <2>2, <2>3
<1>7. ASSUME c.op = "delete", NEW r \in Repos, Pending(c, "drop", r)
      PROVE  c.plan[r].drop # "keep"
  <2>1. PICK j \in 1..Len(StepsOf(c.op, c.plan)) : StepsOf(c.op, c.plan)[j] = <<"drop", r>>
    BY <1>3, <1>7
  <2> QED BY <1>1, <2>1, StepFacts
<1> QED BY <1>5, <1>6, <1>7

LEMMA ReturnKeeps ==
    ASSUME LInv, IInv', NEW p \in Procs, RunReturns(p)
    PROVE  LInv'
<1>1. PICK c : c = proc[p]
  OBVIOUS
<1>2. PICK d : d = proc'[p]
  OBVIOUS
<1>3. c.pc = "running" /\ UNCHANGED <<branch, tree, grouping, state>>
  BY <1>1 DEF RunReturns, At, world, files
<1>4. /\ ProcOK /\ World /\ Command(c) /\ PlanFits(c) /\ c.unreverted = {}
      /\ Accounted(c, branch, tree, grouping, state, touched)
      /\ Forward(c, branch, tree, state, touched)
      /\ StepCount(c) \in Nat /\ c.at \in 1..(StepCount(c) + 1) /\ c.op \in OpNames
  BY <1>1, <1>3, Forwards
<1>5. c.at = StepCount(c) + 1
  <2>1. c.at > StepCount(c)
    BY <1>1 DEF RunReturns, Steps, StepCount
  <2> QED BY <1>4, <2>1
<1>6. Aside(p)
  <2>1. OnlyMoves(p)
    BY <1>4, SetsRecord DEF RunReturns
  <2> QED BY <2>1 DEF RunReturns, budget, Aside
<1>7. CASE Transactional(p)
  <2>1. d = [c EXCEPT !.pc = "validate"]
    BY <1>1, <1>2, <1>4, <1>7, SetsRecord DEF RunReturns
  <2>2. /\ Kept(c, d) /\ d.pc = "validate" /\ d.at = c.at /\ d.unreverted = c.unreverted
        /\ d.added = c.added /\ d.madeGroup = c.madeGroup /\ d.partial = c.partial
    BY <1>4, <2>1 DEF Command, CmdFields, Kept
  <2>3. Making(c)
    BY <1>1, <1>7 DEF Transactional, Making
  <2> QED BY <1>1, <1>2, <1>3, <1>5, <1>6, <2>2, <2>3, ProceedsKeeps
<1>8. CASE ~Transactional(p)
  <2>1. Ends(c, d, "ok")
    BY <1>1, <1>2, <1>4, <1>8, SetsRecord DEF RunReturns, Ends
  <2>2. Unmaking(c) /\ ~Making(c)
    BY <1>1, <1>4, <1>8 DEF Transactional, Making, Unmaking, OpNames
  <2>3. /\ \A r \in Repos : Pending(c, "remove", r)
        /\ c.op = "delete" =>
              /\ Pending(c, "unstate", Nobody)
              /\ \A r \in Repos : c.plan[r].drop # "keep" <=> Pending(c, "drop", r)
    BY <1>3, <1>4, <1>5, <2>2, AllDone
  <2>4. \A r \in Repos \ touched : tree[r] = NoTree
    BY <1>4, <2>2, <2>3 DEF Forward
  <2>5. state = IF c.op = "delete" THEN NoState ELSE c.prior
    <3>1. CASE c.op = "delete"
      BY <1>4, <2>3, <3>1 DEF Forward
    <3>2. CASE c.op # "delete"
      <4>1. StateAccounted(c, state)
        BY <1>4 DEF Accounted
      <4> QED BY <1>4, <3>2, <4>1 DEF StateAccounted
    <3> QED BY <3>1, <3>2
  <2>6. ASSUME NEW r \in Repos \ touched
        PROVE  branch[r] = IF c.plan[r].drop = "keep" THEN c.plan[r].head ELSE "none"
    <3>1. CASE c.plan[r].drop = "keep"
      <4>1. BranchAccounted(c, r, branch[r])
        BY <1>4 DEF Accounted
      <4>2. c.op # "create" /\ ~(c.op = "delete" /\ Pending(c, "drop", r))
        BY <2>2, <2>3, <3>1 DEF Making
      <4>3. branch[r] = c.found.branch[r]
        BY <1>4, <4>1, <4>2 DEF BranchAccounted, Named
      <4>4. c.plan[r].head = c.found.branch[r]
        BY <1>4, <4>2 DEF PlanFits
      <4> QED BY <3>1, <4>3, <4>4
    <3>2. CASE c.plan[r].drop # "keep"
      <4>1. c.op = "delete"
        BY <1>4, <3>2 DEF Command
      <4> QED BY <1>4, <2>3, <3>2, <4>1 DEF Forward
    <3> QED BY <3>1, <3>2
  <2>7. Done(c, branch, tree, state, touched)
    <3>1. c.op = "remove" \/ c.op = "delete"
      BY <2>2 DEF Unmaking
    <3> QED BY <2>2, <2>4, <2>5, <2>6, <3>1 DEF Done
  <2>8. Calm => Whole(branch, tree, state)
    <3> SUFFICES ASSUME Calm PROVE Whole(branch, tree, state)
      OBVIOUS
    <3>1. touched = {} /\ state \in Refs
      BY <1>4 DEF Calm, World
    <3>2. Whole(c.found.branch, c.found.tree, c.prior)
      BY <1>1, <1>3 DEF LInv, Working
    <3>3. CASE Repos = {}
      <4>1. state = NoState
        BY <3>1, <3>3 DEF Refs, NoState
      <4> QED BY <3>3, <4>1 DEF Whole
    <3>4. CASE Repos # {}
      <4>1. \A r \in Repos : c.found.tree[r].dir = "checkout"
        BY <1>4, <2>2 DEF PlanFits
      <4>2. /\ c.prior # NoState
            /\ \A r \in Repos : c.found.branch[r] = c.prior[r] /\ c.prior[r] # "none"
        BY <3>2, <3>4, <4>1 DEF Whole, NoTree
      <4>3. \A r \in Repos : c.plan[r].head = c.found.branch[r] /\ c.plan[r].head # "user"
        <5>1. moves = 0 /\ c.op # "create"
          BY <2>2 DEF Calm, Making
        <5> QED BY <1>1, <1>4, <5>1 DEF PlanFits, LInv
      <4>4. CASE c.op = "remove"
        <5>1. \A r \in Repos : c.plan[r].drop = "keep"
          BY <1>4, <4>4 DEF Command
        <5>2. \A r \in Repos : /\ tree[r] = NoTree
                               /\ branch[r] = c.prior[r] /\ c.prior[r] # "none"
          BY <2>4, <2>6, <3>1, <4>2, <4>3, <5>1
        <5>3. state = c.prior
          BY <2>5, <4>4
        <5> QED BY <4>2, <5>2, <5>3 DEF Whole
      <4>5. CASE c.op = "delete"
        <5>1. ASSUME NEW r \in Repos
              PROVE  tree[r] = NoTree /\ branch[r] = IF r \in baselines THEN "base" ELSE "none"
          <6>1. c.plan[r].drop = "keep" <=> r \in baselines
            BY <1>4, <4>5 DEF Command
          <6>2. c.plan[r].head \in {"none"} \cup Heads
            BY <1>4 DEF Command
          <6>3. c.plan[r].head = "base"
            BY <4>2, <4>3, <6>2 DEF Heads
          <6> QED BY <2>4, <2>6, <3>1, <6>1, <6>3
        <5>2. state = NoState
          BY <2>5, <4>5
        <5> QED BY <5>1, <5>2 DEF Whole
      <4> QED BY <2>2, <4>4, <4>5 DEF Unmaking
    <3> QED BY <3>3, <3>4
  <2>9. /\ state' \in Refs /\ Done(c, branch, tree, state', touched)
        /\ Calm => Whole(branch, tree, state')
    BY <1>3, <1>4, <2>7, <2>8 DEF World
  <2>10. c.pc \in {"running", "validate", "commit"}
    BY <1>3
  <2> QED BY <1>1, <1>2, <1>3, <1>6, <2>1, <2>9, <2>10, SucceedsKeeps
<1> QED BY <1>7, <1>8

-----------------------------------------------------------------------------
(* Beginning and ending a command                                           *)

LEMMA EndKeeps ==
    ASSUME LInv, IInv', NEW p \in Procs, NEW c, c = proc[p], NEW d, d = proc'[p],
           OnlyMoves(p), UNCHANGED <<branch, tree, grouping, state, moves, baselines>>,
           crashes' \in Nat, crashes' = 0 => crashes = 0, alert => alert',
           NEW users, users = touched', users \in {{}, touched},
           users # touched => lock = p,
           Command(d), Stage(d, branch, tree, grouping, state, users),
           moves = 0 => \A r \in Repos : d.plan[r].head # "user",
           c.partial => d.partial,
           d.pc = "reported" /\ d.outcome = "incomplete" => alert',
           Calm' /\ Calm /\ (lock' = Nobody \/ Settled(d)) => Whole(branch, tree, state),
           Calm' /\ Calm /\ d.pc \in Working => Whole(d.found.branch, d.found.tree, d.prior)
    PROVE  LInv'
<1>1. \A q \in Procs \ {p} : proc'[q] = proc[q]
  BY DEF OnlyMoves
<1>2. Calm' => Calm
  BY <1>1 DEF Calm
<1>3. World'
  BY DEF World, LInv
<1>4. (\A q \in Procs : Command(proc[q]))'
  <2> SUFFICES ASSUME NEW q \in Procs PROVE Command(proc[q])'
    OBVIOUS
  <2>1. Command(proc[q]) \/ q = p
    BY DEF LInv
  <2>2. CASE q = p
    BY <2>2 DEF Command
  <2>3. CASE q # p
    <3>1. proc'[q] = proc[q] /\ Command(proc[q]) /\ baselines' = baselines
      BY <1>1, <2>1, <2>3
    <3> QED BY ONLY <3>1 DEF Command
  <2> QED BY <2>2, <2>3
<1>5. (\A q \in Procs : Stage(proc[q], branch, tree, grouping, state, touched))'
  <2> SUFFICES ASSUME NEW q \in Procs
               PROVE  Stage(proc[q], branch, tree, grouping, state, touched)'
    OBVIOUS
  <2>1. CASE q = p
    BY <2>1 DEF Stage, PlanFits
  <2>2. CASE q # p /\ users = touched
    <3>1. Stage(proc[q], branch, tree, grouping, state, touched)
      BY DEF LInv
    <3>2. /\ proc'[q] = proc[q] /\ touched' = touched
          /\ UNCHANGED <<branch, tree, grouping, state, baselines>>
      BY <1>1, <2>2
    <3> QED BY ONLY <3>1, <3>2 DEF Stage, PlanFits
  <2>3. CASE q # p /\ users # touched
    <3>1. proc[q].pc \in {"idle", "planned"}
      BY <2>3 DEF LInv, IInv, LockExcludes
    <3> QED BY <1>1, <2>3, <3>1 DEF Stage, Working, Failed
  <2> QED BY <2>1, <2>2, <2>3
<1>6. (moves = 0 => \A q \in Procs : \A r \in Repos : proc[q].plan[r].head # "user")'
  <2> SUFFICES ASSUME moves' = 0, NEW q \in Procs, NEW r \in Repos
               PROVE  proc'[q].plan[r].head # "user"
    OBVIOUS
  <2>1. proc[q].plan[r].head # "user"
    BY DEF LInv
  <2> QED BY <2>1, <1>1
<1>7. (lock = Nobody /\ Calm => Whole(branch, tree, state))'
  BY <1>2 DEF Whole
<1>8. (\A q \in Procs : Settled(proc[q]) /\ Calm => Whole(branch, tree, state))'
  <2> SUFFICES ASSUME NEW q \in Procs, Settled(proc'[q]), Calm'
               PROVE  Whole(branch, tree, state)'
    BY DEF Settled
  <2>1. Whole(branch, tree, state)
    <3>1. CASE q = p
      BY <1>2, <3>1
    <3>2. CASE q # p
      BY <1>1, <1>2, <3>2 DEF LInv
    <3> QED BY <3>1, <3>2
  <2> QED BY <2>1 DEF Whole
<1>9. (\A q \in Procs : proc[q].pc \in Working /\ Calm =>
            Whole(proc[q].found.branch, proc[q].found.tree, proc[q].prior))'
  <2> SUFFICES ASSUME NEW q \in Procs, proc'[q].pc \in Working, Calm'
               PROVE  Whole(proc[q].found.branch, proc[q].found.tree, proc[q].prior)'
    OBVIOUS
  <2>1. CASE q = p
    <3>1. Whole(d.found.branch, d.found.tree, d.prior)
      BY <1>2, <2>1
    <3>2. /\ proc'[q].found.branch = d.found.branch /\ proc'[q].found.tree = d.found.tree
          /\ proc'[q].prior = d.prior /\ baselines' = baselines
      BY <2>1
    <3> QED BY ONLY <3>1, <3>2 DEF Whole
  <2>2. CASE q # p
    <3>1. Whole(proc[q].found.branch, proc[q].found.tree, proc[q].prior)
      BY <1>1, <1>2, <2>2 DEF LInv
    <3>2. proc'[q] = proc[q] /\ baselines' = baselines
      BY <1>1, <2>2
    <3> QED BY ONLY <3>1, <3>2 DEF Whole
  <2> QED BY <2>1, <2>2
<1>10. (\A q \in Procs : proc[q].pc = "reported" /\ proc[q].outcome = "incomplete" => alert)'
  BY <1>1 DEF LInv
<1> QED BY <1>3, <1>4, <1>5, <1>6, <1>7, <1>8, <1>9, <1>10 DEF LInv

\* A command that has not begun its steps has nothing to answer for.
LEMMA Unbegun ==
    ASSUME NEW d, d.pc \in {"idle", "planned", "locked"} \/
                  (d.pc = "reported" /\ d.outcome = "refused"),
           NEW b, NEW t, NEW g, NEW s, NEW users
    PROVE  Stage(d, b, t, g, s, users)
BY DEF Stage, Working, Failed

\* What a plan that was just made says.
LEMMA PlanFacts ==
    ASSUME World, NEW op \in OpNames, NEW force, NEW known, Plannable(op, known, force),
           NEW plan, plan = PlanOf(op, force)
    PROVE  /\ \A r \in Repos :
                 /\ plan[r].head \in {"none"} \cup Heads
                 /\ op \in {"create", "checkout"} => plan[r].head # "none"
                 /\ plan[r].drop = "forced" => force
                 /\ op # "delete" => plan[r].drop = "keep"
                 /\ op = "delete" => (plan[r].drop = "keep" <=> r \in baselines)
                 /\ op # "create" => plan[r].head = branch[r]
                 /\ op \in {"remove", "delete"} =>
                       /\ plan[r].force \/ tree[r].dirt = "clean"
                       /\ tree[r].dir = "checkout" /\ tree[r].reg /\ tree[r].on
                 /\ moves = 0 => plan[r].head # "user"
           /\ op = "create" => baselines = {} /\ \A r \in Repos : branch[r] = "none"
<1>1. ASSUME op = "create"
      PROVE  baselines = {} /\ \A r \in Repos : branch[r] = "none"
  BY <1>1 DEF Plannable, CanCreate, World
<1>2. ASSUME op \in {"remove", "delete"}, NEW r \in Repos
      PROVE  tree[r].dir = "checkout" /\ tree[r].reg /\ tree[r].on
  BY <1>2 DEF Plannable, CanDelete, CanRemove, CheckedOut
<1>3. ASSUME NEW r \in Repos
      PROVE  /\ plan[r].head = IF op = "create" THEN "base" ELSE branch[r]
             /\ plan[r].force = (op \in {"remove", "delete"} /\ tree[r].dirt # "clean")
             /\ plan[r].drop = DropOf(op, r)
  BY DEF PlanOf
<1>4. ASSUME NEW r \in Repos
      PROVE  /\ plan[r].head \in {"none"} \cup Heads
             /\ op \in {"create", "checkout"} => plan[r].head # "none"
             /\ moves = 0 => plan[r].head # "user"
  <2>1. op = "checkout" => branch[r] # "none"
    BY DEF Plannable, CanCheckout
  <2> QED BY <1>3, <2>1 DEF World, Refs, Heads
<1>5. ASSUME NEW r \in Repos
      PROVE  /\ plan[r].drop = "forced" => force
             /\ op # "delete" => plan[r].drop = "keep"
             /\ op = "delete" => (plan[r].drop = "keep" <=> r \in baselines)
  <2>1. op = "delete" /\ r \notin baselines => force \/ branch[r] = "base"
    BY DEF Plannable, CanDelete
  <2> QED BY <1>3, <2>1 DEF DropOf
<1>6. ASSUME NEW r \in Repos
      PROVE  op # "create" => plan[r].head = branch[r]
  BY <1>3
<1>7. ASSUME NEW r \in Repos, op \in {"remove", "delete"}
      PROVE  plan[r].force \/ tree[r].dirt = "clean"
  BY <1>3, <1>7
<1> HIDE DEF OpNames, World
<1> QED BY <1>1, <1>2, <1>4, <1>5, <1>6, <1>7, Zenon

\* The record a process has between commands.
LEMMA AtRest ==
    ASSUME LInv, NEW p \in Procs, NEW d, d = Released(p)
    PROVE  /\ Command(d) /\ d.pc = "idle" /\ d.partial = proc[p].partial
           /\ \A r \in Repos : d.plan[r].head # "user"
<1>1. proc[p].partial \in BOOLEAN
  BY DEF LInv, Command
<1>2. d = [x \in CmdFields |-> d[x]]
  BY DEF Released, Idle, CmdFields
<1>3. /\ d.pc = "idle" /\ d.op = "none" /\ d.at = 0 /\ d.partial = proc[p].partial
      /\ d.unreverted = {} /\ d.added = {} /\ d.madeGroup = FALSE /\ d.plan = NoPlan
  BY DEF Released, Idle
<1>4. \A r \in Repos : d.plan[r].head = "none" /\ d.plan[r].drop = "keep"
  BY <1>3 DEF NoPlan
<1> QED BY <1>1, <1>2, <1>3, <1>4 DEF Command, OpNames

LEMMA StartKeeps ==
    ASSUME LInv, IInv', NEW p \in Procs, Start(p)
    PROVE  LInv'
<1>1. PICK c : c = proc[p]
  OBVIOUS
<1>2. PICK d : d = proc'[p]
  OBVIOUS
<1>3. ProcOK /\ World /\ Command(c)
  BY <1>1 DEF LInv, IInv
<1>4. PICK op \in Ops, force \in BOOLEAN :
         /\ Plannable(op, state, force)
         /\ Set(p, [Idle EXCEPT !.pc = "planned", !.op = op, !.force = force,
                                !.known = state, !.plan = PlanOf(op, force),
                                !.partial = c.partial])
  BY <1>1 DEF Start
<1>5. op \in OpNames
  BY CommandAssumption DEF OpNames
<1>6. PICK plan : plan = PlanOf(op, force)
  OBVIOUS
<1>7. /\ d = [Idle EXCEPT !.pc = "planned", !.op = op, !.force = force,
                          !.known = state, !.plan = plan, !.partial = c.partial]
      /\ OnlyMoves(p)
  BY <1>2, <1>3, <1>4, <1>6, SetsRecord
<1>8. /\ d = [x \in CmdFields |-> d[x]]
      /\ d.pc = "planned" /\ d.op = op /\ d.force = force /\ d.plan = plan
      /\ d.partial = c.partial /\ d.at = 0 /\ d.unreverted = {} /\ d.added = {}
      /\ d.madeGroup = FALSE
  <2>1. d = [Idle EXCEPT !.pc = "planned", !.op = op, !.force = force,
                          !.known = state, !.plan = plan, !.partial = c.partial]
    BY <1>7
  <2>2. d = [x \in CmdFields |-> d[x]]
    BY ONLY <2>1 DEF Idle, CmdFields
  <2>3. /\ d.pc = "planned" /\ d.op = op /\ d.force = force /\ d.plan = plan
        /\ d.partial = c.partial
    BY ONLY <2>1 DEF Idle
  <2>4. d.at = 0 /\ d.unreverted = {} /\ d.added = {} /\ d.madeGroup = FALSE
    BY ONLY <2>1 DEF Idle
  <2> QED BY ONLY <2>2, <2>3, <2>4
<1>9. /\ \A r \in Repos :
            /\ plan[r].head \in {"none"} \cup Heads
            /\ op \in {"create", "checkout"} => plan[r].head # "none"
            /\ plan[r].drop = "forced" => force
            /\ op # "delete" => plan[r].drop = "keep"
            /\ op = "delete" => (plan[r].drop = "keep" <=> r \in baselines)
            /\ moves = 0 => plan[r].head # "user"
  BY <1>3, <1>4, <1>5, <1>6, PlanFacts
<1>10. c.partial \in BOOLEAN
  BY <1>3 DEF Command
<1>11. Command(d)
  BY <1>5, <1>8, <1>9, <1>10 DEF Command
<1>12. UNCHANGED <<branch, tree, grouping, state, moves, baselines, touched, crashes, alert, lock>>
  BY DEF Start, world, userVars, files
<1>13. Stage(d, branch, tree, grouping, state, touched)
  BY <1>8, Unbegun
<1>14. d.pc \notin Working /\ d.pc # "reported" /\ ~Settled(d)
  BY <1>8 DEF Working, Settled
<1>15. lock' = Nobody /\ Calm => Whole(branch, tree, state)
  BY <1>12 DEF LInv
<1>16. /\ crashes' \in Nat /\ (crashes' = 0 => crashes = 0) /\ (alert => alert')
       /\ touched = touched' /\ (c.partial => d.partial)
       /\ (moves = 0 => \A r \in Repos : d.plan[r].head # "user")
  BY <1>3, <1>8, <1>9, <1>12 DEF World
<1> QED BY <1>1, <1>2, <1>7, <1>11, <1>12, <1>13, <1>14, <1>15, <1>16, EndKeeps

LEMMA ReleaseKeeps ==
    ASSUME LInv, IInv', NEW p \in Procs, NEW d, d = proc'[p], d = Released(p),
           OnlyMoves(p), UNCHANGED <<world, userVars, state, alert>>,
           crashes' \in Nat, crashes' = 0 => crashes = 0,
           Calm' /\ Calm /\ lock' = Nobody => Whole(branch, tree, state)
    PROVE  LInv'
<1>1. PICK c : c = proc[p]
  OBVIOUS
<1>2. /\ Command(d) /\ d.pc = "idle" /\ d.partial = c.partial
      /\ \A r \in Repos : d.plan[r].head # "user"
  BY <1>1, AtRest
<1>3. PICK users : users = touched
  OBVIOUS
<1>4. Stage(d, branch, tree, grouping, state, users)
  BY <1>2, Unbegun
<1>5. d.pc \notin Working /\ d.pc # "reported" /\ ~Settled(d)
  BY <1>2 DEF Working, Settled
<1>6. /\ UNCHANGED <<branch, tree, grouping, state, moves, baselines>>
      /\ users = touched' /\ users = touched /\ alert' = alert
  BY <1>3 DEF world, userVars
<1>7. Calm' /\ Calm /\ (lock' = Nobody \/ Settled(d)) => Whole(branch, tree, state)
  BY <1>5
<1>8. /\ users \in {{}, touched} /\ (users # touched => lock = p) /\ (c.partial => d.partial)
      /\ (moves = 0 => \A r \in Repos : d.plan[r].head # "user") /\ (alert => alert')
      /\ (d.pc = "reported" /\ d.outcome = "incomplete" => alert')
      /\ (Calm' /\ Calm /\ d.pc \in Working => Whole(d.found.branch, d.found.tree, d.prior))
  BY <1>2, <1>5, <1>6
<1> QED BY <1>1, <1>2, <1>4, <1>6, <1>7, <1>8, EndKeeps

LEMMA TimeoutKeeps ==
    ASSUME LInv, IInv', NEW p \in Procs, LockTimesOut(p)
    PROVE  LInv'
<1>1. PICK d : d = proc'[p]
  OBVIOUS
<1>2. d = Released(p) /\ OnlyMoves(p)
  BY <1>1, SetsRecord DEF LInv, IInv, LockTimesOut
<1>3. /\ UNCHANGED <<world, userVars, state, alert>> /\ lock' # Nobody
      /\ crashes' = crashes
  BY DEF LockTimesOut, files, budget
<1>4. crashes \in Nat
  BY DEF LInv, World
<1> QED BY <1>1, <1>2, <1>3, <1>4, ReleaseKeeps

\* The lock is let go of when the world is whole, or an alert has been raised.
LEMMA UnlockKeeps ==
    ASSUME LInv, IInv', NEW p \in Procs, Unlock(p)
    PROVE  LInv'
<1>1. PICK d : d = proc'[p]
  OBVIOUS
<1>2. d = Released(p) /\ OnlyMoves(p)
  BY <1>1, SetsRecord DEF LInv, IInv, Unlock
<1>3. UNCHANGED <<world, userVars, state, alert>> /\ crashes' = crashes
  BY DEF Unlock, files, budget
<1>4. crashes \in Nat
  BY DEF LInv, World
<1>5. proc[p].pc = "reported"
  BY DEF Unlock, At
<1>6. Calm => Settled(proc[p])
  BY <1>5 DEF LInv, Calm, Settled
<1>7. Calm => Whole(branch, tree, state)
  BY <1>6 DEF LInv
<1> QED BY <1>1, <1>2, <1>3, <1>4, <1>7, ReleaseKeeps

LEMMA CrashKeeps ==
    ASSUME LInv, IInv', NEW p \in Procs, Crash(p)
    PROVE  LInv'
<1>1. PICK d : d = proc'[p]
  OBVIOUS
<1>2. d = Released(p) /\ OnlyMoves(p)
  BY <1>1, SetsRecord DEF LInv, IInv, Crash
<1>3. UNCHANGED <<world, userVars, state, alert>> /\ crashes' = crashes + 1
  BY DEF Crash, files
<1>4. crashes' \in Nat /\ crashes' # 0
  BY <1>3 DEF LInv, World
<1>5. ~Calm'
  BY <1>4 DEF Calm
<1> QED BY <1>1, <1>2, <1>3, <1>4, <1>5, ReleaseKeeps

LEMMA AcquireKeeps ==
    ASSUME LInv, IInv', NEW p \in Procs, AcquireLock(p)
    PROVE  LInv'
<1>1. PICK c : c = proc[p]
  OBVIOUS
<1>2. PICK d : d = proc'[p]
  OBVIOUS
<1>3. Command(c) /\ World /\ ProcOK
  BY <1>1 DEF LInv, IInv
<1>4. d = [c EXCEPT !.pc = "locked"] /\ OnlyMoves(p)
  BY <1>1, <1>2, <1>3, SetsRecord DEF AcquireLock
<1>5. c.pc = "planned" /\ lock = Nobody
  BY <1>1 DEF AcquireLock, At
<1>6. /\ d = [x \in CmdFields |-> d[x]] /\ d.pc = "locked" /\ d.op = c.op
      /\ d.at = c.at /\ d.partial = c.partial /\ d.unreverted = c.unreverted
      /\ d.added = c.added /\ d.madeGroup = c.madeGroup /\ d.plan = c.plan
      /\ d.force = c.force
  BY <1>3, <1>4 DEF Command, CmdFields
<1>7. Command(d)
  BY <1>3, <1>5, <1>6 DEF Command
<1>8. PICK users : users = touched
  OBVIOUS
<1>9. Stage(d, branch, tree, grouping, state, users)
  BY <1>6, Unbegun
<1>10. /\ UNCHANGED <<branch, tree, grouping, state, moves, baselines>>
       /\ users = touched' /\ users = touched /\ alert' = alert /\ crashes' = crashes
  BY <1>8 DEF AcquireLock, world, userVars, files, budget
<1>11. Calm => Whole(branch, tree, state)
  BY <1>5 DEF LInv
<1>12. d.pc \notin Working /\ d.pc # "reported" /\ crashes \in Nat
  BY <1>3, <1>6 DEF Working, World
<1>13. moves = 0 => \A r \in Repos : d.plan[r].head # "user"
  BY <1>1, <1>6 DEF LInv
<1>14. /\ crashes' \in Nat /\ (crashes' = 0 => crashes = 0) /\ (alert => alert')
       /\ users \in {{}, touched} /\ (users # touched => lock = p) /\ (c.partial => d.partial)
       /\ (d.pc = "reported" /\ d.outcome = "incomplete" => alert')
       /\ (Calm' /\ Calm /\ (lock' = Nobody \/ Settled(d)) => Whole(branch, tree, state))
       /\ (Calm' /\ Calm /\ d.pc \in Working => Whole(d.found.branch, d.found.tree, d.prior))
  BY <1>6, <1>10, <1>11, <1>12
<1>15. UNCHANGED <<branch, tree, grouping, state, moves, baselines>> /\ users = touched'
  BY <1>10
<1> QED BY <1>1, <1>2, <1>4, <1>7, <1>9, <1>13, <1>14, <1>15, EndKeeps

\* The command c, whose plan still stands, begins its steps; a command whose plan
\* does not is refused.
Begins(c, d) ==
    /\ d = [x \in CmdFields |-> d[x]]
    /\ d.op = c.op /\ d.force = c.force /\ d.plan = c.plan /\ d.outcome = c.outcome
    /\ d.added = c.added /\ d.madeGroup = c.madeGroup /\ d.partial = c.partial
    /\ d.unreverted = c.unreverted /\ d.pc = "running" /\ d.at = 1 /\ d.prior = state
    /\ d.found.branch = branch /\ d.found.tree = tree /\ d.found.grouping = grouping

LEMMA BeginsKeeps ==
    ASSUME LInv, IInv', NEW p \in Procs, Revalidate(p), StillPlanned(p),
           NEW c, c = proc[p], NEW d, d = proc'[p], Begins(c, d), OnlyMoves(p)
    PROVE  LInv'
<1>1. /\ World /\ Command(c) /\ c.pc = "locked"
  BY DEF LInv, Revalidate, At
<1>2. /\ c.op \in OpNames /\ c.unreverted = {} /\ c.added = {} /\ ~c.madeGroup
  BY <1>1 DEF Command
<1>3. Plannable(c.op, c.known, c.force) /\ c.plan = PlanOf(c.op, c.force)
  BY DEF StillPlanned
<1>4. /\ \A r \in Repos :
            /\ c.op # "create" => c.plan[r].head = branch[r]
            /\ c.op \in {"remove", "delete"} =>
                  /\ c.plan[r].force \/ tree[r].dirt = "clean"
                  /\ tree[r].dir = "checkout" /\ tree[r].reg /\ tree[r].on
      /\ c.op = "create" => baselines = {} /\ \A r \in Repos : branch[r] = "none"
  BY <1>1, <1>2, <1>3, PlanFacts
<1>5. PlanFits(d)
  <2>1. /\ branch \in Refs /\ tree \in Paths /\ grouping \in BOOLEAN /\ state \in Refs
        /\ Shaped(tree)
    BY <1>1 DEF World
  <2>2. /\ d.prior = state /\ d.found.branch = branch /\ d.found.tree = tree
        /\ d.found.grouping = grouping /\ d.op = c.op /\ d.plan = c.plan
    BY DEF Begins
  <2> QED BY ONLY <1>4, <2>1, <2>2 DEF PlanFits, Unmaking
<1>6. Command(d)
  <2>1. d.at \in Nat /\ d.partial \in BOOLEAN /\ d.unreverted = {}
    <3>1. c.partial \in BOOLEAN
      BY <1>1 DEF Command
    <3> QED BY <1>2, <3>1 DEF Begins
  <2> QED BY <1>1, <2>1, CommandKept DEF Begins
<1>7. \A k, x : ~Pending(d, k, x)
  BY DEF Begins, Pending, Limit
<1>8. d.added = {} /\ ~d.madeGroup
  BY <1>2 DEF Begins
<1>9. Accounted(d, branch, tree, grouping, state, {})
  <2>1. \A r \in Repos : BranchAccounted(d, r, branch[r]) /\ AddedAccounted(d, r)
    BY <1>8 DEF BranchAccounted, AddedAccounted, Begins
  <2>2. \A r \in Repos : TreeAccounted(d, r, tree[r])
    <3>1. ASSUME NEW r \in Repos PROVE Same(tree[r], tree[r])
      <4>1. tree[r] \in Tree
        BY <1>1 DEF World, Paths
      <4> QED BY <4>1 DEF Tree, Same
    <3> QED BY <3>1 DEF TreeAccounted, Begins
  <2>3. StateAccounted(d, state) /\ GroupAccounted(d, grouping)
    BY DEF StateAccounted, GroupAccounted, Begins
  <2> QED BY <1>8, <2>1, <2>2, <2>3 DEF Accounted
<1>10. Forward(d, branch, tree, state, {})
  BY <1>7 DEF Forward
<1>11. Stage(d, branch, tree, grouping, state, {})
  <2>1. StepCount(d) \in Nat
    BY <1>2, StepFacts DEF Begins, StepCount
  <2> QED BY <1>5, <1>9, <1>10, <2>1 DEF Begins, Stage, Failed
<1>12. Calm => Whole(branch, tree, state)
  BY <1>1 DEF LInv, Settled
<1>13. lock = p
  BY <1>1 DEF LInv, IInv, LockExcludes
<1>14. PICK users : users = {}
  OBVIOUS
<1>15. /\ UNCHANGED <<branch, tree, grouping, state, moves, baselines>>
       /\ users = touched' /\ alert' = alert /\ crashes' = crashes /\ lock' = lock
  BY <1>14 DEF Revalidate, world, files, budget
<1>16. crashes \in Nat /\ p # Nobody
  BY <1>1, WorldAssumption DEF World
<1>17. d.pc = "running" /\ ~Settled(d) /\ (c.partial => d.partial)
  BY DEF Begins, Settled
<1>18. moves = 0 => \A r \in Repos : d.plan[r].head # "user"
  BY DEF Begins, LInv
<1>19. Calm => Whole(d.found.branch, d.found.tree, d.prior)
  BY <1>12 DEF Begins
<1>20. Stage(d, branch, tree, grouping, state, users) /\ users \in {{}, touched}
  BY <1>11, <1>14
<1>21. Calm' /\ Calm /\ (lock' = Nobody \/ Settled(d)) => Whole(branch, tree, state)
  BY <1>12
<1> QED BY <1>6, <1>13, <1>15, <1>16, <1>17, <1>18, <1>19, <1>20, <1>21, EndKeeps

LEMMA RefusedKeeps ==
    ASSUME LInv, IInv', NEW p \in Procs, Revalidate(p),
           NEW c, c = proc[p], NEW d, d = proc'[p], Ends(c, d, "refused"), OnlyMoves(p)
    PROVE  LInv'
<1>1. /\ World /\ Command(c) /\ c.pc = "locked"
  BY DEF LInv, Revalidate, At
<1>2. /\ d = [x \in CmdFields |-> d[x]] /\ d.pc = "reported" /\ d.op = c.op
      /\ d.at = c.at /\ d.partial = c.partial /\ d.unreverted = c.unreverted
      /\ d.added = c.added /\ d.madeGroup = c.madeGroup /\ d.plan = c.plan
      /\ d.force = c.force /\ d.outcome = "refused"
  <2>1. c = [x \in CmdFields |-> c[x]]
    BY <1>1 DEF Command
  <2> QED BY ONLY <2>1, Ends(c, d, "refused") DEF Ends, CmdFields
<1>3. Command(d)
  <2>1. d.at \in Nat /\ d.partial \in BOOLEAN /\ c.pc # "idle"
    BY <1>1, <1>2 DEF Command
  <2> QED BY <1>1, <1>2, <2>1, CommandKept
<1>4. PICK users : users = {}
  OBVIOUS
<1>5. Stage(d, branch, tree, grouping, state, users)
  BY <1>2, Unbegun
<1>6. Calm => Whole(branch, tree, state)
  BY <1>1 DEF LInv, Settled
<1>7. lock = p
  BY <1>1 DEF LInv, IInv, LockExcludes
<1>8. /\ UNCHANGED <<branch, tree, grouping, state, moves, baselines>>
      /\ users = touched' /\ alert' = alert /\ crashes' = crashes
      /\ users \in {{}, touched}
  BY <1>4 DEF Revalidate, world, files, budget
<1>9. crashes \in Nat /\ d.pc \notin Working
  BY <1>1, <1>2 DEF World, Working
<1>10. moves = 0 => \A r \in Repos : d.plan[r].head # "user"
  BY <1>2 DEF LInv
<1>11. Calm' /\ Calm /\ (lock' = Nobody \/ Settled(d)) => Whole(branch, tree, state)
  BY <1>6
<1>12. /\ crashes' \in Nat /\ (crashes' = 0 => crashes = 0) /\ (alert => alert')
       /\ users \in {{}, touched} /\ (users # touched => lock = p) /\ (c.partial => d.partial)
       /\ (d.pc = "reported" /\ d.outcome = "incomplete" => alert')
       /\ (Calm' /\ Calm /\ d.pc \in Working => Whole(d.found.branch, d.found.tree, d.prior))
  BY <1>2, <1>7, <1>8, <1>9
<1>13. UNCHANGED <<branch, tree, grouping, state, moves, baselines>> /\ users = touched'
  BY <1>8
<1> QED BY <1>3, <1>5, <1>10, <1>11, <1>12, <1>13, EndKeeps

LEMMA RevalidateKeeps ==
    ASSUME LInv, IInv', NEW p \in Procs, Revalidate(p)
    PROVE  LInv'
<1>1. PICK c : c = proc[p]
  OBVIOUS
<1>2. PICK d : d = proc'[p]
  OBVIOUS
<1>3. Command(c) /\ ProcOK
  BY <1>1 DEF LInv, IInv
<1>4. PICK receipts : receipts = IF c.op \in {"remove", "delete"}
                                 THEN [r \in Repos |-> tree[r].id]
                                 ELSE Idle.receipt
  OBVIOUS
<1>5. PICK run : run = [c EXCEPT !.pc = "running", !.at = 1,
                                 !.receipt = receipts, !.prior = state,
                                 !.found = [branch |-> branch, tree |-> tree,
                                            grouping |-> grouping]]
  OBVIOUS
<1>6. PICK refuse : refuse = [c EXCEPT !.pc = "reported", !.outcome = "refused"]
  OBVIOUS
<1>7. (Set(p, run) /\ StillPlanned(p)) \/ Set(p, refuse)
  BY <1>1, <1>4, <1>5, <1>6, Zenon DEF Revalidate
<1>8. CASE Set(p, run) /\ StillPlanned(p)
  <2>1. d = run /\ OnlyMoves(p)
    BY <1>2, <1>3, <1>8, SetsRecord
  <2>2. Begins(c, run)
    BY <1>3, <1>5 DEF Command, CmdFields, Begins
  <2> QED BY <1>1, <1>2, <1>8, <2>1, <2>2, BeginsKeeps
<1>9. CASE Set(p, refuse)
  <2>1. d = refuse /\ OnlyMoves(p)
    BY <1>2, <1>3, <1>9, SetsRecord
  <2>2. Ends(c, d, "refused")
    BY <1>6, <2>1 DEF Ends
  <2> QED BY <1>1, <1>2, <2>1, <2>2, RefusedKeeps
<1> QED BY <1>7, <1>8, <1>9

\* A command that has undone all it could ends: nothing is left to undo, so what it
\* changed and could not put back is named.
LEMMA FinishStage ==
    ASSUME LInv, NEW p \in Procs, NEW c, c = proc[p], c.pc = "rollback", c.at = 0,
           NEW d, NEW outcome \in {"failed", "incomplete"}, Ends(c, d, outcome)
    PROVE  /\ Command(d) /\ d.plan = c.plan /\ d.partial = c.partial
           /\ d.pc = "reported" /\ d.outcome = outcome
           /\ Stage(d, branch, tree, grouping, state, touched)
<1>1. /\ World /\ Command(c) /\ Stage(c, branch, tree, grouping, state, touched)
  BY DEF LInv
<1>2. /\ d = [x \in CmdFields |-> d[x]] /\ d.pc = "reported" /\ d.op = c.op
      /\ d.at = c.at /\ d.partial = c.partial /\ d.unreverted = c.unreverted
      /\ d.added = c.added /\ d.madeGroup = c.madeGroup /\ d.plan = c.plan
      /\ d.force = c.force /\ d.outcome = outcome /\ d.found = c.found /\ d.prior = c.prior
  BY <1>1 DEF Ends, Command, CmdFields
<1>3. Command(d)
  <2>1. d.at \in Nat /\ d.partial \in BOOLEAN /\ c.pc # "idle"
    BY <1>1, <1>2 DEF Command
  <2> QED BY <1>1, <1>2, <2>1, CommandKept
<1>4. \A k, x : ~Pending(c, k, x)
  BY DEF Pending, Limit
<1>5. Heir(c, d) /\ \A k, x : Inherits(c, d, k, x)
  BY <1>2, <1>4 DEF Heir, Inherits
<1>6. Accountable(c) => Accounted(c, branch, tree, grouping, state, touched)
  BY <1>1 DEF Stage
<1>7. Accountable(d) => Accounted(d, branch, tree, grouping, state, touched)
  <2>1. Accountable(d) = Accountable(c)
    BY <1>2 DEF Accountable, Unmaking
  <2> QED BY <1>2, <1>5, <1>6, <2>1, AccountedInherits
<1>8. Stage(d, branch, tree, grouping, state, touched)
  BY <1>2, <1>7 DEF Stage, Working, Failed
<1> QED BY <1>2, <1>3, <1>8

\* A complete rollback leaves what the command found, when nobody else acted.
LEMMA UndoneIsWhole ==
    ASSUME LInv, NEW p \in Procs, NEW c, c = proc[p], c.pc = "rollback", c.at = 0,
           c.unreverted = {}, Calm
    PROVE  Whole(branch, tree, state)
<1>1. /\ World /\ Command(c) /\ Stage(c, branch, tree, grouping, state, touched)
  BY DEF LInv
<1>2. touched = {} /\ ~c.partial
  BY <1>1 DEF World, Calm
<1>3. Accounted(c, branch, tree, grouping, state, touched) /\ PlanFits(c)
  BY <1>1, <1>2 DEF Stage, Accountable, Working
<1>4. \A k, x : ~Pending(c, k, x)
  BY DEF Pending, Limit
<1>5. \A r \in Repos : ~Named(c, r)
  BY DEF Named
<1>6. state = c.prior
  BY <1>3, <1>4 DEF Accounted, StateAccounted
<1>7. ASSUME NEW r \in Repos PROVE branch[r] = c.found.branch[r]
  <2>1. BranchAccounted(c, r, branch[r])
    BY <1>2, <1>3 DEF Accounted
  <2> QED BY <2>1, <1>4, <1>5 DEF BranchAccounted
<1>8. ASSUME NEW r \in Repos PROVE Same(tree[r], c.found.tree[r])
  <2>1. TreeAccounted(c, r, tree[r]) /\ AddedAccounted(c, r)
    BY <1>2, <1>3 DEF Accounted
  <2> QED BY <2>1, <1>4, <1>5 DEF TreeAccounted, AddedAccounted
<1>9. Whole(c.found.branch, c.found.tree, c.prior)
  BY DEF LInv, Working
<1>10. ASSUME NEW r \in Repos
       PROVE  /\ c.found.tree[r].dir = tree[r].dir /\ c.found.tree[r].reg = tree[r].reg
              /\ c.found.tree[r].on = tree[r].on
              /\ c.found.tree[r] = NoTree => tree[r] = NoTree
  <2>1. tree[r] \in Tree /\ c.found.tree[r] \in Tree
    BY <1>1, <1>3 DEF World, PlanFits, Paths
  <2>2. /\ tree[r].dir = c.found.tree[r].dir /\ tree[r].reg = c.found.tree[r].reg
        /\ tree[r].on = c.found.tree[r].on /\ tree[r].dirt = c.found.tree[r].dirt
    <3>1. tree[r] = [c.found.tree[r] EXCEPT !.id = tree[r].id]
      BY <1>8 DEF Same
    <3> QED BY ONLY <2>1, <3>1 DEF Tree
  <2>3. ASSUME c.found.tree[r] = NoTree PROVE tree[r] = NoTree
    <3>1. /\ tree[r].dir = "none" /\ tree[r].reg = FALSE /\ tree[r].on = FALSE
          /\ tree[r].dirt = "clean"
      BY <2>2, <2>3 DEF NoTree
    <3>2. tree[r].id = Nobody
      BY <3>1, <1>1 DEF World, Shaped
    <3> QED BY <3>1, <3>2, <2>1 DEF Tree, NoTree
  <2> QED BY <2>2, <2>3
<1> QED BY ONLY <1>6, <1>7, <1>9, <1>10 DEF Whole

LEMMA FinishKeeps ==
    ASSUME LInv, IInv', NEW p \in Procs, Finish(p)
    PROVE  LInv'
<1>1. PICK c : c = proc[p]
  OBVIOUS
<1>2. PICK d : d = proc'[p]
  OBVIOUS
<1>3. c.pc = "rollback" /\ c.at = 0
  BY <1>1 DEF Finish, At
<1>4. World /\ ProcOK
  BY DEF LInv, IInv
<1>5. PICK users : users = touched
  OBVIOUS
<1>6. /\ UNCHANGED <<branch, tree, grouping, state, moves, baselines>>
      /\ users = touched' /\ crashes' = crashes /\ lock' = lock
      /\ users \in {{}, touched} /\ (users # touched => lock = p)
  BY <1>5 DEF Finish, world, userVars
<1>7. crashes \in Nat
  BY <1>4 DEF World
<1>8. lock # Nobody
  BY <1>1, <1>3, WorldAssumption DEF LInv, IInv, LockExcludes
<1>9. moves = 0 => \A r \in Repos : c.plan[r].head # "user"
  BY <1>1 DEF LInv
<1>10. CASE c.unreverted = {} /\ alert' = alert /\ Set(p, [c EXCEPT !.pc = "reported", !.outcome = "failed"])
  <2>1. Ends(c, d, "failed") /\ OnlyMoves(p)
    BY <1>2, <1>4, <1>10, SetsRecord DEF Ends
  <2>2. /\ Command(d) /\ d.plan = c.plan /\ d.partial = c.partial
        /\ d.pc = "reported" /\ d.outcome = "failed"
        /\ Stage(d, branch, tree, grouping, state, touched)
    BY <1>1, <1>3, <2>1, FinishStage
  <2>3. Stage(d, branch, tree, grouping, state, users) /\ d.pc \notin Working
    BY <1>5, <2>2 DEF Working
  <2>4. Calm' /\ Calm /\ (lock' = Nobody \/ Settled(d)) => Whole(branch, tree, state)
    BY <1>1, <1>3, <1>10, UndoneIsWhole
  <2>5. (alert => alert') /\ d.outcome # "incomplete"
        /\ (c.partial => d.partial) /\ (moves = 0 => \A r \in Repos : d.plan[r].head # "user")
    BY <1>9, <1>10, <2>2
  <2> QED BY <1>1, <1>2, <1>6, <1>7, <2>1, <2>2, <2>3, <2>4, <2>5, EndKeeps
<1>11. CASE alert' = TRUE /\ Set(p, [c EXCEPT !.pc = "reported", !.outcome = "incomplete"])
  <2>1. Ends(c, d, "incomplete") /\ OnlyMoves(p)
    BY <1>2, <1>4, <1>11, SetsRecord DEF Ends
  <2>2. /\ Command(d) /\ d.plan = c.plan /\ d.partial = c.partial
        /\ d.pc = "reported" /\ d.outcome = "incomplete"
        /\ Stage(d, branch, tree, grouping, state, touched)
    BY <1>1, <1>3, <2>1, FinishStage
  <2>3. Stage(d, branch, tree, grouping, state, users) /\ d.pc \notin Working
    BY <1>5, <2>2 DEF Working
  <2>4. ~Calm'
    BY <1>11 DEF Calm
  <2>5. alert' /\ (c.partial => d.partial)
        /\ (moves = 0 => \A r \in Repos : d.plan[r].head # "user")
    BY <1>9, <1>11, <2>2
  <2> QED BY <1>1, <1>2, <1>6, <1>7, <2>1, <2>2, <2>3, <2>4, <2>5, EndKeeps
<1> QED BY <1>1, <1>10, <1>11 DEF Finish

-----------------------------------------------------------------------------
(* The user                                                                 *)

\* What a move of the user leaves alone: repositories it does not touch, baselines,
\* and it makes no checkout, nor removes a branch.
UserMoved ==
    /\ moves' = moves + 1 /\ touched \subseteq touched'
    /\ branch' \in Refs /\ tree' \in Paths /\ grouping' = grouping
    /\ Shaped(tree')
    /\ \A r \in Repos :
          /\ r \notin touched' => branch'[r] = branch[r] /\ tree'[r] = tree[r]
          /\ branch[r] # "none" => branch'[r] # "none"
          /\ tree[r].dir # "checkout" => tree'[r].dir # "checkout"

LEMMA MovesOfUser ==
    ASSUME World, moves \in Nat, UserActs
    PROVE  UserMoved
<1>1. PICK r \in Repos : \/ UserEdits(r) \/ UserCommits(r) \/ UserSwitches(r)
                         \/ UserDeletes(r) \/ UserOccupies(r) \/ UserCreatesBranch(r)
  BY DEF UserActs
<1>2. moves' = moves + 1 /\ touched \subseteq touched' /\ grouping' = grouping
  BY <1>1 DEF UserEdits, UserCommits, UserSwitches, UserDeletes, UserOccupies,
              UserCreatesBranch, UserMove
<1>3. branch \in Refs /\ tree \in Paths /\ Shaped(tree)
  BY DEF World
<1>4. /\ branch' \in Refs
      /\ \A s \in Repos : /\ s \notin touched' => branch'[s] = branch[s]
                          /\ branch[s] # "none" => branch'[s] # "none"
  <2>1. CASE UserCommits(r) \/ UserCreatesBranch(r)
    <3>1. branch' = [branch EXCEPT ![r] = "user"] /\ r \in touched'
      BY <2>1 DEF UserCommits, UserCreatesBranch, UserMove
    <3> QED BY <1>3, <3>1 DEF Refs, Heads
  <2>2. CASE branch' = branch
    BY <1>3, <2>2
  <2> QED BY <1>1, <2>1, <2>2 DEF UserEdits, UserSwitches, UserDeletes, UserOccupies
<1>5. \A s \in Repos : /\ tree[s] \in Tree
                       /\ tree[s].dirt # "clean" => tree[s].dir = "checkout"
                       /\ ~tree[s].reg => /\ tree[s].dir # "checkout" /\ ~tree[s].on
                                          /\ tree[s].id = Nobody
  BY <1>3 DEF Paths, Shaped
<1>6. /\ tree' \in Paths /\ Shaped(tree')
      /\ \A s \in Repos : /\ s \notin touched' => tree'[s] = tree[s]
                          /\ tree[s].dir # "checkout" => tree'[s].dir # "checkout"
  <2>1. CASE \E new \in Tree :
                /\ r \in touched' /\ tree' = [tree EXCEPT ![r] = new]
                /\ new.dirt # "clean" => new.dir = "checkout"
                /\ ~new.reg => new.dir # "checkout" /\ ~new.on /\ new.id = Nobody
                /\ tree[r].dir # "checkout" => new.dir # "checkout"
    <3>1. PICK new \in Tree :
                /\ r \in touched' /\ tree' = [tree EXCEPT ![r] = new]
                /\ new.dirt # "clean" => new.dir = "checkout"
                /\ ~new.reg => new.dir # "checkout" /\ ~new.on /\ new.id = Nobody
                /\ tree[r].dir # "checkout" => new.dir # "checkout"
      BY <2>1
    <3>2. \A s \in Repos : tree'[s] = IF s = r THEN new ELSE tree[s]
      BY <1>3, <3>1 DEF Paths
    <3>3. tree' \in Paths
      BY <1>3, <3>1 DEF Paths
    <3> QED BY <1>5, <3>1, <3>2, <3>3 DEF Shaped
  <2>2. CASE UserEdits(r)
    <3>1. PICK new : new = [tree[r] EXCEPT !.dirt = "user"]
      OBVIOUS
    <3>2. /\ new \in Tree /\ new.dir = tree[r].dir /\ new.reg = tree[r].reg
          /\ tree' = [tree EXCEPT ![r] = new] /\ r \in touched'
          /\ tree[r].dir = "checkout"
      BY <1>5, <2>2, <3>1 DEF UserEdits, UserMove, Tree
    <3> QED BY <1>5, <2>1, <3>2
  <2>3. CASE UserCommits(r)
    <3>1. PICK new : new = [tree[r] EXCEPT !.dirt = "clean"]
      OBVIOUS
    <3>2. /\ new \in Tree /\ new.dir = tree[r].dir /\ new.reg = tree[r].reg
          /\ tree' = [tree EXCEPT ![r] = new] /\ r \in touched'
          /\ tree[r].dir = "checkout"
      BY <1>5, <2>3, <3>1 DEF UserCommits, UserMove, Tree
    <3> QED BY <1>5, <2>1, <3>2
  <2>4. CASE UserSwitches(r)
    <3>1. PICK new : new = [tree[r] EXCEPT !.on = FALSE]
      OBVIOUS
    <3>2. /\ new \in Tree /\ new.dir = tree[r].dir /\ new.reg = tree[r].reg
          /\ tree' = [tree EXCEPT ![r] = new] /\ r \in touched'
          /\ tree[r].dir = "checkout"
      BY <1>5, <2>4, <3>1 DEF UserSwitches, UserMove, Tree
    <3> QED BY <1>5, <2>1, <3>2
  <2>5. CASE UserOccupies(r)
    <3>1. PICK new : new = [tree[r] EXCEPT !.dir = "foreign"]
      OBVIOUS
    <3>2. /\ new \in Tree /\ new.dir = "foreign" /\ new.reg = tree[r].reg
          /\ new.on = tree[r].on /\ new.id = tree[r].id /\ new.dirt = tree[r].dirt
          /\ tree' = [tree EXCEPT ![r] = new] /\ r \in touched'
          /\ tree[r].dir = "none"
      BY <1>5, <2>5, <3>1 DEF UserOccupies, UserMove, Tree
    <3> QED BY <1>5, <2>1, <3>2
  <2>6. CASE UserCreatesBranch(r)
    BY <1>3, <2>6 DEF UserCreatesBranch
  <2>7. CASE UserDeletes(r)
    <3>1. /\ tree' = WithoutTree(r, Emptied(tree[r]))
          /\ r \in touched' /\ Below(r) \subseteq touched'
      BY <2>7 DEF UserDeletes, UserMove
    <3>2. tree' = [s \in Repos |-> IF s = r \/ s \in Below(r) THEN Emptied(tree[s]) ELSE tree[s]]
      BY <3>1 DEF WithoutTree
    <3>3. ASSUME NEW s \in Repos
          PROVE  /\ Emptied(tree[s]) \in Tree /\ Emptied(tree[s]).dir = "none"
                 /\ Emptied(tree[s]).dirt = "clean" /\ Emptied(tree[s]).reg = tree[s].reg
                 /\ Emptied(tree[s]).on = tree[s].on /\ Emptied(tree[s]).id = tree[s].id
      <4>1. tree[s] \in Tree
        BY <1>5
      <4> QED BY <4>1 DEF Tree, Emptied
    <3>4. \A s \in Repos : tree'[s] = IF s = r \/ s \in Below(r) THEN Emptied(tree[s]) ELSE tree[s]
      BY <3>2
    <3>5. tree' \in Paths
      BY <1>5, <3>2, <3>3 DEF Paths
    <3> QED BY <1>5, <3>1, <3>3, <3>4, <3>5 DEF Shaped
  <2> QED BY <1>1, <2>2, <2>3, <2>4, <2>5, <2>6, <2>7
<1> QED BY <1>2, <1>4, <1>6 DEF UserMoved

\* What a command answers for does not include what the user did.
LEMMA StageOutlivesUser ==
    ASSUME UserMoved, NEW c, Stage(c, branch, tree, grouping, state, touched)
    PROVE  Stage(c, branch', tree', grouping', state, touched')
<1>1. touched \subseteq touched' /\ grouping' = grouping
  BY DEF UserMoved
<1>2. \A r \in Repos \ touched' : r \notin touched /\ branch'[r] = branch[r] /\ tree'[r] = tree[r]
  BY DEF UserMoved
<1>3. \A r \in Repos : tree[r].dir # "checkout" => tree'[r].dir # "checkout"
  BY DEF UserMoved
<1>4. ASSUME Accounted(c, branch, tree, grouping, state, touched)
      PROVE  Accounted(c, branch', tree', grouping', state, touched')
  BY <1>1, <1>2, <1>4 DEF Accounted
<1>5. ASSUME Forward(c, branch, tree, state, touched)
      PROVE  Forward(c, branch', tree', state, touched')
  BY <1>2, <1>3, <1>5 DEF Forward
<1>6. ASSUME Valid(c, branch, tree, touched)
      PROVE  Valid(c, branch', tree', touched')
  BY <1>2, <1>6 DEF Valid
<1>7. ASSUME Done(c, branch, tree, state, touched)
      PROVE  Done(c, branch', tree', state, touched')
  BY <1>2, <1>7 DEF Done
<1> QED BY <1>4, <1>5, <1>6, <1>7 DEF Stage

LEMMA UserStepKeeps ==
    ASSUME LInv, UserStep
    PROVE  LInv'
<1>1. World /\ moves \in Nat /\ IInv'
  BY UserKeeps DEF LInv, IInv
<1>2. UserMoved /\ UNCHANGED <<proc, lock, state, alert, crashes, baselines>>
  <2>1. baselines' = baselines
    BY DEF UserStep, UserActs, UserEdits, UserCommits, UserSwitches, UserDeletes,
           UserOccupies, UserCreatesBranch, UserMove
  <2> QED BY <1>1, <2>1, MovesOfUser DEF UserStep, files, budget
<1>3. moves' # 0
  BY <1>1, <1>2 DEF UserMoved
<1>4. World'
  BY <1>1, <1>2, <1>3 DEF World, UserMoved
<1>5. (\A p \in Procs : Command(proc[p]))'
  BY <1>2 DEF LInv, Command
<1>6. (\A p \in Procs : Stage(proc[p], branch, tree, grouping, state, touched))'
  <2> SUFFICES ASSUME NEW p \in Procs
               PROVE  Stage(proc[p], branch, tree, grouping, state, touched)'
    OBVIOUS
  <2>1. PICK c : c = proc[p]
    OBVIOUS
  <2>2. Stage(c, branch', tree', grouping', state, touched')
    BY <1>2, <2>1, StageOutlivesUser DEF LInv
  <2>3. c = proc'[p] /\ state' = state /\ baselines' = baselines
    BY <1>2, <2>1
  <2> QED BY <2>2, <2>3 DEF Stage, PlanFits
<1>7. ~Calm'
  BY <1>3 DEF Calm
<1>8. (\A p \in Procs : proc[p].pc = "reported" /\ proc[p].outcome = "incomplete" => alert)'
  BY <1>2 DEF LInv
<1> QED BY <1>1, <1>3, <1>4, <1>5, <1>6, <1>7, <1>8 DEF LInv

-----------------------------------------------------------------------------
(* The invariant                                                            *)

LEMMA FirstWorld ==
    ASSUME Init
    PROVE  World /\ Whole(branch, tree, state)
<1>1. baselines \subseteq Repos
  BY CommandAssumption DEF Init
<1>2. CASE /\ branch = [r \in Repos |-> IF r \in baselines THEN "base" ELSE "none"]
           /\ tree = [r \in Repos |-> NoTree]
           /\ state = NoState
           /\ grouping = FALSE
  <2>1. NoTree \in Tree
    BY DEF NoTree, Tree
  <2>2. branch \in Refs /\ tree \in Paths /\ state \in Refs
    BY <1>2, <2>1 DEF Refs, Heads, Paths, NoState
  <2>3. \A r \in Repos : tree[r] = NoTree /\ branch[r] = IF r \in baselines THEN "base" ELSE "none"
    BY <1>2
  <2>4. Shaped(tree)
    BY <2>3 DEF Shaped, NoTree
  <2>5. Whole(branch, tree, state)
    BY <1>2, <2>3 DEF Whole
  <2> QED BY <1>1, <1>2, <2>2, <2>3, <2>4, <2>5 DEF Init, World
<1>3. CASE /\ branch = [r \in Repos |-> "base"]
           /\ tree = [r \in Repos |-> NewTree(Nobody)]
           /\ state = [r \in Repos |-> "base"]
           /\ grouping = TRUE
  <2>1. NewTree(Nobody) \in Tree
    BY DEF NewTree, Tree
  <2>2. branch \in Refs /\ tree \in Paths /\ state \in Refs
    BY <1>3, <2>1 DEF Refs, Heads, Paths
  <2>3. \A r \in Repos : tree[r] = NewTree(Nobody) /\ branch[r] = "base" /\ state[r] = "base"
    BY <1>3
  <2>4. Shaped(tree)
    BY <2>3 DEF Shaped, NewTree
  <2>5. Whole(branch, tree, state)
    <3>1. CASE state = NoState
      <4>1. Repos = {}
        BY <2>3, <3>1 DEF NoState
      <4> QED BY <3>1, <4>1 DEF Whole
    <3>2. CASE state # NoState
      BY <2>3, <3>2 DEF Whole, NewTree
    <3> QED BY <3>1, <3>2
  <2> QED BY <1>1, <1>3, <2>2, <2>3, <2>4, <2>5 DEF Init, World
<1> QED BY <1>2, <1>3 DEF Init

LEMMA LifecycleBegun == ASSUME Init PROVE LInv
<1>1. IInv /\ World /\ Whole(branch, tree, state)
  BY Begun, FirstWorld
<1>2. PICK d : d = Idle
  OBVIOUS
<1>3. \A p \in Procs : proc[p] = d
  BY <1>2 DEF Init
<1>4. /\ d = [x \in CmdFields |-> d[x]] /\ d.pc = "idle" /\ d.op = "none" /\ d.at = 0
      /\ d.partial = FALSE /\ d.unreverted = {} /\ d.added = {} /\ d.madeGroup = FALSE
      /\ d.plan = NoPlan
  BY <1>2 DEF Idle, CmdFields
<1>5. \A r \in Repos : d.plan[r].head = "none" /\ d.plan[r].drop = "keep"
  BY <1>4 DEF NoPlan
<1>6. Command(d)
  <2>1. d.partial \in BOOLEAN /\ 0 \in Nat
    BY <1>4
  <2> QED BY <1>4, <1>5, <2>1 DEF Command, OpNames
<1>7. Stage(d, branch, tree, grouping, state, touched)
  BY <1>4, Unbegun
<1>8. d.pc \notin Working /\ d.pc # "reported" /\ ~Settled(d)
  BY <1>4 DEF Working, Settled
<1> QED BY <1>1, <1>3, <1>5, <1>6, <1>7, <1>8 DEF LInv

LEMMA ExecKeeps ==
    ASSUME LInv, IInv', NEW p \in Procs,
           \/ ExecBranch(p) \/ ExecGroup(p) \/ ExecAdd(p) \/ ExecInspect(p)
           \/ ExecIgnore(p) \/ ExecRemove(p) \/ ExecDrop(p) \/ ExecUnstate(p)
    PROVE  LInv'
BY BranchExecutes, GroupExecutes, AddExecutes, InspectExecutes, IgnoreExecutes,
   RemoveExecutes, DropExecutes, UnstateExecutes

LEMMA UndoKeeps ==
    ASSUME LInv, IInv', NEW p \in Procs,
           \/ UndoBranch(p) \/ UndoGroup(p) \/ UndoAdd(p) \/ UndoNothing(p)
           \/ UndoRemove(p) \/ UndoDrop(p) \/ UndoUnstate(p)
    PROVE  LInv'
BY BranchUndone, GroupUndone, NothingUndone, AddUndone, RemoveUndone, DropUndone,
   UnstateUndone

LEMMA CommandKeeps ==
    ASSUME LInv, IInv', NEW p \in Procs,
           \/ StopCanceled(p) \/ RunReturns(p) \/ Validate(p) \/ Commit(p)
           \/ CommitFails(p) \/ Cancel(p)
    PROVE  LInv'
BY StopKeeps, ReturnKeeps, ValidateKeeps, CommitKeeps, CommitFailKeeps, CancelKeeps

LEMMA EitherEndKeeps ==
    ASSUME LInv, IInv', NEW p \in Procs,
           \/ Start(p) \/ LockTimesOut(p) \/ AcquireLock(p) \/ Revalidate(p)
           \/ Finish(p) \/ Unlock(p) \/ Crash(p)
    PROVE  LInv'
BY StartKeeps, TimeoutKeeps, AcquireKeeps, RevalidateKeeps, FinishKeeps, UnlockKeeps,
   CrashKeeps

LEMMA LifecycleInvariant == Spec => []LInv
<1>1. Init => LInv
  BY LifecycleBegun
<1>2. LInv /\ [Next]_vars => LInv'
  <2>1. ASSUME LInv, Next PROVE LInv'
    <3>1. IInv'
      BY <2>1, NextKeeps DEF LInv
    <3> QED BY <2>1, <3>1, NextCases, ExecKeeps, UndoKeeps, CommandKeeps, EitherEndKeeps,
               UserStepKeeps
  <2>2. ASSUME LInv, UNCHANGED vars PROVE LInv'
    <3>1. IInv'
      BY <2>2 DEF LInv, vars, IInv, ProcOK, LockExcludes, RecordStops
    <3>2. World' /\ (Calm' => Calm)
      BY <2>2 DEF LInv, vars, World, Calm
    <3>3. (\A p \in Procs : Command(proc[p]))'
      BY <2>2 DEF LInv, vars, Command
    <3>4. (\A p \in Procs : Stage(proc[p], branch, tree, grouping, state, touched))'
      <4> SUFFICES ASSUME NEW p \in Procs
                   PROVE  Stage(proc[p], branch, tree, grouping, state, touched)'
        OBVIOUS
      <4>1. Stage(proc[p], branch, tree, grouping, state, touched)
        BY <2>2 DEF LInv
      <4>2. /\ proc'[p] = proc[p] /\ branch' = branch /\ tree' = tree
            /\ grouping' = grouping /\ state' = state /\ touched' = touched
            /\ baselines' = baselines
        BY <2>2 DEF vars
      <4> QED BY ONLY <4>1, <4>2, SMTT(30) DEF Stage, PlanFits
    <3>5. (lock = Nobody /\ Calm => Whole(branch, tree, state))'
      BY <2>2, <3>2 DEF LInv, vars, Whole
    <3>6. (\A p \in Procs : Settled(proc[p]) /\ Calm => Whole(branch, tree, state))'
      BY <2>2, <3>2 DEF LInv, vars, Whole
    <3>7. (\A p \in Procs : proc[p].pc \in Working /\ Calm =>
             Whole(proc[p].found.branch, proc[p].found.tree, proc[p].prior))'
      BY <2>2, <3>2 DEF LInv, vars, Whole
    <3>8. /\ (\A p \in Procs : proc[p].pc = "reported" /\ proc[p].outcome = "incomplete" => alert)'
          /\ (moves = 0 => \A p \in Procs : \A r \in Repos : proc[p].plan[r].head # "user")'
      BY <2>2 DEF LInv, vars
    <3> QED BY <3>1, <3>2, <3>3, <3>4, <3>5, <3>6, <3>7, <3>8 DEF LInv
  <2> QED BY <2>1, <2>2
<1> QED BY <1>1, <1>2, PTL DEF Spec

-----------------------------------------------------------------------------
(* What the invariant says of a command that has ended                      *)

\* LeftoversAreReported: a command that fails has put back, or names, everything
\* it changed (finishFailure, and the end of Remove and Delete).
THEOREM LeftoversHold == Spec => []LeftoversAreReported
<1>1. LInv => LeftoversAreReported
  <2> SUFFICES ASSUME LInv, NEW p \in Procs, Unsuccessful(p), ~proc[p].partial,
                      NEW c, c = proc[p]
               PROVE  /\ \A r \in Repos \ touched :
                            AsFound(p, r) \/ \E k \in Kinds : <<k, r>> \in c.unreverted
                      /\ state = c.prior
                           \/ {CommitState, <<"unstate", Nobody>>} \cap c.unreverted # {}
                      /\ grouping = c.found.grouping
                           \/ \E r \in Repos : <<"group", r>> \in c.unreverted
    BY DEF LeftoversAreReported
  <2>1. Failed(c) /\ Accountable(c)
    BY DEF Unsuccessful, At, Failed, Accountable
  <2>2. Stage(c, branch, tree, grouping, state, touched)
    BY DEF LInv
  <2>3. c.at = 0 /\ Accounted(c, branch, tree, grouping, state, touched)
    BY <2>1, <2>2 DEF Stage
  <2>4. \A k, x : ~Pending(c, k, x)
    BY <2>1, <2>3 DEF Failed, Pending, Limit
  <2>5. ASSUME NEW r \in Repos \ touched PROVE AsFound(p, r) \/ Named(c, r)
    <3>1. /\ BranchAccounted(c, r, branch[r]) /\ TreeAccounted(c, r, tree[r])
          /\ AddedAccounted(c, r)
      BY <2>3 DEF Accounted
    <3>2. branch[r] = c.found.branch[r] \/ Named(c, r)
      BY <2>4, <3>1 DEF BranchAccounted
    <3>3. Same(tree[r], c.found.tree[r]) \/ Named(c, r)
      BY <2>4, <3>1 DEF TreeAccounted, AddedAccounted
    <3> QED BY <3>2, <3>3 DEF AsFound, Same
  <2>6. state = c.prior \/ {CommitState, <<"unstate", Nobody>>} \cap c.unreverted # {}
    BY <2>3, <2>4 DEF Accounted, StateAccounted
  <2>7. grouping = c.found.grouping \/ \E r \in Repos : <<"group", r>> \in c.unreverted
    BY <2>3, <2>4 DEF Accounted, GroupAccounted
  <2> QED BY <2>5, <2>6, <2>7 DEF Named
<1> QED BY <1>1, LifecycleInvariant, PTL

\* NoPartialWorkspace: between commands the workspace is there or is not, over any
\* sequence of commands, unless somebody else acted, a process was killed, or a
\* command asked for repair.
THEOREM NoPartialWorkspaceHolds == Spec => []NoPartialWorkspace
<1>1. LInv => NoPartialWorkspace
  <2> SUFFICES ASSUME LInv, lock = Nobody, Calm PROVE WholeOrGone
    BY DEF NoPartialWorkspace, Calm
  <2>1. Whole(branch, tree, state)
    BY DEF LInv
  <2> QED BY <2>1 DEF Whole, WholeOrGone, Present, Absent, CheckedOut
<1> QED BY <1>1, LifecycleInvariant, PTL

\* SuccessIsWhole: a command that reports success did all of it.
THEOREM SuccessIsWholeHolds == Spec => []SuccessIsWhole
<1>1. LInv => SuccessIsWhole
  <2> SUFFICES ASSUME LInv, NEW p \in Procs, At(p, "reported"), proc[p].outcome = "ok",
                      NEW c, c = proc[p]
               PROVE  /\ state = IF c.op = "delete" THEN NoState
                                 ELSE IF c.op = "remove" THEN c.prior
                                 ELSE PlannedState(p)
                      /\ \A r \in Repos \ touched :
                            IF Transactional(p)
                            THEN Present(r) /\ branch[r] = state[r]
                            ELSE /\ Absent(r)
                                 /\ branch[r] = IF c.plan[r].drop = "keep"
                                                THEN c.plan[r].head ELSE "none"
    BY DEF SuccessIsWhole
  <2>1. Stage(c, branch, tree, grouping, state, touched)
    BY DEF LInv
  <2>2. Done(c, branch, tree, state, touched)
    BY <2>1 DEF At, Stage
  <2> QED BY <2>2 DEF Done, Making, Transactional, PlannedState, Present, Absent, CheckedOut
<1> QED BY <1>1, LifecycleInvariant, PTL

-----------------------------------------------------------------------------
(* What no step does                                                        *)

\* A step that changes a branch or a worktree is the user's, or that of the command
\* that holds the lock.
LEMMA HoldsTheLock ==
    ASSUME LInv, NEW p \in Procs, proc[p].pc \in Working
    PROVE  lock = p
BY DEF LInv, IInv, LockExcludes, Working

\* remove_worktree discards edits only of the repository it was forced for: what is
\* mounted below was removed before.
LEMMA RemoveSpares ==
    ASSUME LInv, NEW p \in Procs, ExecRemove(p),
           NEW x \in Repos, tree[x].dirt = "user", tree'[x].dirt # "user"
    PROVE  proc[p].plan[x].force
<1>1. PICK c : c = proc[p]
  OBVIOUS
<1>2. PICK r : r = Repo(p)
  OBVIOUS
<1>3. Executing(p, "remove")
  BY DEF ExecRemove
<1>4. /\ World /\ c.pc = "running" /\ c.at \in 1..StepCount(c)
      /\ Forward(c, branch, tree, state, touched)
      /\ Step(p) = <<"remove", r>> /\ r \in Repos /\ Unmaking(c) /\ c.op \in OpNames
  BY <1>1, <1>2, <1>3, Running DEF OpNames, Unmaking
<1>5. \/ UNCHANGED tree
      \/ /\ WorktreeRemovable(r, c.plan[r].force)
         /\ \E gone : tree' = WithoutTree(r, gone)
  <2>1. \/ \E possible : FailUntouched(p, possible)
        \/ /\ WorktreeRemovable(r, c.plan[r].force)
           /\ \E gone : tree' = WithoutTree(r, gone)
    BY <1>1, <1>2, Zenon DEF ExecRemove
  <2> QED BY <2>1 DEF FailUntouched, world
<1>6. x = r \/ x \in Below(r)
  BY <1>4, <1>5, WithoutTreeIs
<1>7. CASE x \in Below(r)
  <2>1. StepsOf(c.op, c.plan)[c.at] = <<"remove", r>>
    BY <1>1, <1>4 DEF Step, Steps
  <2>2. c.at \in 1..Len(StepsOf(c.op, c.plan))
    BY <1>4 DEF StepCount
  <2> c.op \in OpNames /\ r \in Repos
    BY <1>4
  <2>3. \E i \in 1..(c.at - 1) : StepsOf(c.op, c.plan)[i] = <<"remove", x>>
    BY <1>7, <2>1, <2>2, BelowFirst, Zenon
  <2>4. Pending(c, "remove", x)
    BY <1>4, <2>3 DEF Pending, Limit
  <2>5. tree[x].dir # "checkout"
    BY <1>4, <2>4 DEF Forward
  <2> QED BY <1>4, <2>5 DEF World, Shaped
<1>8. CASE x = r
  BY <1>1, <1>5, <1>8 DEF WorktreeRemovable
<1> QED BY <1>6, <1>7, <1>8

\* UncommittedWorkSurvives: edits the user has not committed are discarded only by a
\* removal that planned, under the lock, to force that repository.
THEOREM UncommittedWorkHolds == Spec => UncommittedWorkSurvives
<1> DEFINE Spared == \A r \in Repos :
                       tree[r].dirt = "user" /\ tree'[r].dirt # "user" /\ moves' = moves
                       => \E p \in Procs : lock = p /\ proc[p].plan[r].force
<1>1. LInv /\ [Next]_vars => [Spared]_vars
  <2> SUFFICES ASSUME LInv, Next, NEW r \in Repos, tree[r].dirt = "user",
                      tree'[r].dirt # "user", moves' = moves
               PROVE  \E p \in Procs : lock = p /\ proc[p].plan[r].force
    BY Zenon
  <2>1. tree \in [Repos -> Tree] /\ Shaped(tree) /\ tree[r].dir = "checkout"
    BY DEF LInv, World, Paths, Shaped
  <2>2. ~UserStep
    BY UserKeeps DEF LInv
  <2>3. ASSUME NEW p \in Procs, ExecRemove(p)
        PROVE  \E q \in Procs : lock = q /\ proc[q].plan[r].force
    <3>1. proc[p].pc \in Working
      BY <2>3 DEF ExecRemove, Executing, At, Working
    <3> QED BY <2>3, <3>1, RemoveSpares, HoldsTheLock
  <2>4. ASSUME NEW p \in Procs, ExecAdd(p) PROVE FALSE
    <3>1. PICK s : s = Repo(p)
      OBVIOUS
    <3>2. UNCHANGED tree \/ (WorktreeAddable(s) /\ \E new : tree' = [tree EXCEPT ![s] = new])
      <4>1. \/ \E possible : FailUntouched(p, possible)
            \/ WorktreeAddable(s) /\ \E new : tree' = [tree EXCEPT ![s] = new]
        BY <2>4, <3>1, Zenon DEF ExecAdd
      <4> QED BY <4>1 DEF FailUntouched, world
    <3> QED BY <2>1, <3>2 DEF WorktreeAddable
  <2>5. ASSUME NEW p \in Procs, ExecIgnore(p) PROVE FALSE
    <3>1. PICK s : s = Repo(p)
      OBVIOUS
    <3>2. \/ UNCHANGED tree
          \/ tree' = [tree EXCEPT ![s].dirt = IF @ = "clean" THEN "ignore" ELSE @]
      <4>1. \/ \E possible : FailUntouched(p, possible)
            \/ UNCHANGED <<world, state>>
            \/ tree' = [tree EXCEPT ![s].dirt = IF @ = "clean" THEN "ignore" ELSE @]
        BY <2>5, <3>1, Zenon DEF ExecIgnore
      <4> QED BY <4>1 DEF FailUntouched, world
    <3>3. tree[r] = [x \in DOMAIN tree[r] |-> tree[r][x]] /\ "dirt" \in DOMAIN tree[r]
      BY <2>1 DEF Tree
    <3> QED BY <2>1, <3>2, <3>3 DEF Tree
  <2>6. ASSUME NEW p \in Procs, UndoAdd(p) PROVE FALSE
    <3>1. PICK s : s = Repo(p)
      OBVIOUS
    <3>2. \/ UNCHANGED tree
          \/ /\ DirtIsOwned(p, s) \/ CleanIncludingIgnored(s)
             /\ \E left : tree' = [tree EXCEPT ![s] = left]
      <4>1. \/ UndoIsIdle(p)
            \/ \E possible, record : UndoFails(p, possible, record)
            \/ /\ DirtIsOwned(p, s) \/ CleanIncludingIgnored(s)
               /\ \E left : tree' = [tree EXCEPT ![s] = left]
        BY <2>6, <3>1, ZenonT(40) DEF UndoAdd
      <4> QED BY <4>1 DEF UndoFails, UndoIsIdle, world
    <3>3. DirtIsOwned(p, s) \/ CleanIncludingIgnored(s) => tree[s].dirt # "user"
      BY DEF DirtIsOwned, CleanIncludingIgnored
    <3> QED BY <2>1, <3>2, <3>3
  <2>7. ASSUME NEW p \in Procs, UndoRemove(p) PROVE FALSE
    <3>1. PICK s : s = Repo(p)
      OBVIOUS
    <3>2. \/ UNCHANGED tree
          \/ tree[s].dir = "none" /\ tree' = [tree EXCEPT ![s] = NewTree(p)]
      BY <2>7, <3>1 DEF UndoRemove, UndoFails, UndoIsIdle, world
    <3> QED BY <2>1, <3>2
  <2>8. ASSUME NEW p \in Procs,
               \/ ExecBranch(p) \/ ExecGroup(p) \/ ExecInspect(p) \/ ExecDrop(p)
               \/ ExecUnstate(p)
        PROVE  UNCHANGED tree
    BY <2>8 DEF ExecBranch, ExecGroup, ExecInspect, ExecDrop, ExecUnstate, FailUntouched, world
  <2>9. ASSUME NEW p \in Procs,
               \/ UndoBranch(p) \/ UndoGroup(p) \/ UndoNothing(p) \/ UndoDrop(p)
               \/ UndoUnstate(p)
        PROVE  UNCHANGED tree
    BY <2>9 DEF UndoBranch, UndoGroup, UndoNothing, UndoDrop, UndoUnstate, UndoFails,
                UndoIsIdle, world
  <2>10. ASSUME NEW p \in Procs,
                \/ StopCanceled(p) \/ RunReturns(p) \/ Validate(p) \/ Commit(p)
                \/ CommitFails(p) \/ Cancel(p)
                \/ Start(p) \/ LockTimesOut(p) \/ AcquireLock(p) \/ Revalidate(p)
                \/ Finish(p) \/ Unlock(p) \/ Crash(p)
         PROVE  UNCHANGED tree
    BY <2>10 DEF StopCanceled, RunReturns, Validate, Commit, CommitFails, Cancel, Start,
                 LockTimesOut, AcquireLock, Revalidate, Finish, Unlock, Crash, world
  <2> QED BY <2>2, <2>3, <2>4, <2>5, <2>6, <2>7, <2>8, <2>9, <2>10, NextCases
<1> QED BY <1>1, LifecycleInvariant, PTL DEF Spec, UncommittedWorkSurvives

\* Which steps remove a branch.
LEMMA Removals ==
    ASSUME LInv, Next, NEW r \in Repos, branch[r] # "none", branch'[r] = "none"
    PROVE  \E p \in Procs :
              /\ lock = p
              /\ \/ /\ proc[p].op = "create"
                    /\ UndoBranch(p)
                 \/ /\ proc[p].op = "delete" /\ r \notin baselines
                    /\ branch[r] = "base" \/ proc[p].plan[r].drop = "forced"
                    /\ ExecDrop(p)
<1>1. branch \in Refs
  BY DEF LInv, World
<1>2. ~UserStep
  <2>1. ASSUME UserStep PROVE UserMoved
    BY <2>1, MovesOfUser DEF LInv, IInv, UserStep
  <2> QED BY <2>1 DEF UserMoved
<1>3. ASSUME NEW p \in Procs, ExecBranch(p) PROVE FALSE
  <2>1. PICK s : s = Repo(p)
    OBVIOUS
  <2>2. \/ UNCHANGED branch
        \/ BranchCreatable(s) /\ \E head : branch' = [branch EXCEPT ![s] = head]
    <3>1. \/ \E possible : FailUntouched(p, possible)
          \/ BranchCreatable(s) /\ \E head : branch' = [branch EXCEPT ![s] = head]
      BY <1>3, <2>1, Zenon DEF ExecBranch
    <3> QED BY <3>1 DEF FailUntouched, world
  <2> QED BY <1>1, <2>2 DEF BranchCreatable, Refs
<1>4. ASSUME NEW p \in Procs, ExecDrop(p)
      PROVE  /\ lock = p /\ proc[p].op = "delete" /\ r \notin baselines
             /\ branch[r] = "base" \/ proc[p].plan[r].drop = "forced"
  <2>1. PICK c : c = proc[p]
    OBVIOUS
  <2>2. PICK s : s = Repo(p)
    OBVIOUS
  <2>3. Executing(p, "drop")
    BY <1>4 DEF ExecDrop
  <2>4. /\ Command(c) /\ c.pc = "running" /\ s \in Repos /\ c.op = "delete"
        /\ c.plan[s].drop # "keep"
    BY <2>1, <2>2, <2>3, Running DEF OpNames
  <2>5. \/ UNCHANGED branch
        \/ /\ BranchDeletable(s, c.plan[s].drop = "forced")
           /\ branch' = [branch EXCEPT ![s] = "none"]
    <3>1. \/ \E possible : FailUntouched(p, possible)
          \/ /\ BranchDeletable(s, c.plan[s].drop = "forced")
             /\ branch' = [branch EXCEPT ![s] = "none"]
      BY <1>4, <2>1, <2>2, Zenon DEF ExecDrop
    <3> QED BY <3>1 DEF FailUntouched, world
  <2>6. s = r /\ (branch[r] = "base" \/ c.plan[r].drop = "forced")
    BY <1>1, <2>4, <2>5 DEF BranchDeletable, Refs
  <2>7. r \notin baselines
    BY <2>4, <2>6 DEF Command
  <2>8. lock = p
    BY <2>1, <2>4, HoldsTheLock DEF Working
  <2> QED BY <2>1, <2>4, <2>6, <2>7, <2>8
<1>5. ASSUME NEW p \in Procs, UndoBranch(p)
      PROVE  lock = p /\ proc[p].op = "create"
  <2>1. PICK c : c = proc[p]
    OBVIOUS
  <2>2. Undoing(p, "branch")
    BY <1>5 DEF UndoBranch
  <2>3. c.op = "create"
    BY <2>1, <2>2, Undoes DEF OpNames
  <2>4. lock = p
    BY <2>2, HoldsTheLock DEF Undoing, Working
  <2> QED BY <2>1, <2>3, <2>4
<1>6. ASSUME NEW p \in Procs, UndoDrop(p) PROVE FALSE
  <2>1. PICK s : s = Repo(p)
    OBVIOUS
  <2>2. PICK head : head = proc[p].plan[s].head
    OBVIOUS
  <2>3. \/ UNCHANGED branch
        \/ branch[s] = "none" /\ branch' = [branch EXCEPT ![s] = head]
    BY <1>6, <2>1, <2>2 DEF UndoDrop, UndoFails, UndoIsIdle, world
  <2> QED BY <1>1, <2>3 DEF Refs
<1>7. ASSUME NEW p \in Procs,
             \/ ExecGroup(p) \/ ExecAdd(p) \/ ExecInspect(p) \/ ExecIgnore(p)
             \/ ExecRemove(p) \/ ExecUnstate(p)
      PROVE  UNCHANGED branch
  BY <1>7 DEF ExecGroup, ExecAdd, ExecInspect, ExecIgnore, ExecRemove, ExecUnstate,
              FailUntouched, world
<1>8. ASSUME NEW p \in Procs,
             \/ UndoGroup(p) \/ UndoAdd(p) \/ UndoNothing(p) \/ UndoRemove(p)
             \/ UndoUnstate(p)
      PROVE  UNCHANGED branch
  BY <1>8 DEF UndoGroup, UndoAdd, UndoNothing, UndoRemove, UndoUnstate, UndoFails,
              UndoIsIdle, world
<1>9. ASSUME NEW p \in Procs,
             \/ StopCanceled(p) \/ RunReturns(p) \/ Validate(p) \/ Commit(p)
             \/ CommitFails(p) \/ Cancel(p)
             \/ Start(p) \/ LockTimesOut(p) \/ AcquireLock(p) \/ Revalidate(p)
             \/ Finish(p) \/ Unlock(p) \/ Crash(p)
      PROVE  UNCHANGED branch
  BY <1>9 DEF StopCanceled, RunReturns, Validate, Commit, CommitFails, Cancel, Start,
              LockTimesOut, AcquireLock, Revalidate, Finish, Unlock, Crash, world
<1> QED BY <1>2, <1>3, <1>4, <1>5, <1>6, <1>7, <1>8, <1>9, NextCases

\* RemovalKeepsCommits: a branch the user has committed to goes only with --force, or
\* with the rollback of the create that made it.
THEOREM RemovalKeepsCommitsHolds == Spec => RemovalKeepsCommits
<1> DEFINE Spared == \A r \in Repos :
                        branch[r] = "user" /\ branch'[r] = "none"
                        => \E p \in Procs :
                              /\ lock = p
                              /\ \/ proc[p].op = "create"
                                 \/ proc[p].force /\ proc[p].plan[r].drop = "forced"
<1>1. LInv /\ [Next]_vars => [Spared]_vars
  <2> SUFFICES ASSUME LInv, Next, NEW r \in Repos, branch[r] = "user", branch'[r] = "none"
               PROVE  \E p \in Procs :
                         /\ lock = p
                         /\ \/ proc[p].op = "create"
                            \/ proc[p].force /\ proc[p].plan[r].drop = "forced"
    BY Zenon
  <2>1. PICK p \in Procs : /\ lock = p
                           /\ proc[p].op = "create" \/ proc[p].plan[r].drop = "forced"
    BY Removals
  <2>2. proc[p].plan[r].drop = "forced" => proc[p].force
    BY DEF LInv, Command
  <2> QED BY <2>1, <2>2
<1> QED BY <1>1, LifecycleInvariant, PTL DEF Spec, RemovalKeepsCommits

\* BaselineSurvives: a baseline branch a workspace is named after is never deleted.
THEOREM BaselineSurvivesHolds == Spec => BaselineSurvives
<1> DEFINE Spared == \A r \in baselines : branch'[r] # "none"
<1>1. LInv /\ [Next]_vars => [Spared]_vars
  <2> SUFFICES ASSUME LInv, Next, NEW r \in baselines, branch'[r] = "none" PROVE FALSE
    BY Zenon
  <2>1. r \in Repos /\ branch[r] # "none" /\ World
    BY DEF LInv, World
  <2>2. PICK p \in Procs : proc[p].op = "create" /\ UndoBranch(p)
    BY <2>1, Removals
  <2>3. PICK c : c = proc[p]
    OBVIOUS
  <2>4. PlanFits(c)
    BY <2>2, <2>3, Undoes DEF UndoBranch
  <2> QED BY <2>2, <2>3, <2>4 DEF PlanFits
<1> QED BY <1>1, LifecycleInvariant, PTL DEF Spec, BaselineSurvives
=============================================================================
