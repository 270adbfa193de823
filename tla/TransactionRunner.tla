--------------------------- MODULE TransactionRunner ---------------------------
(***************************************************************************)
(* transaction.Runner (src/internal/transaction/transaction.go): executes  *)
(* a list of reversible steps, stops at the first failure, and undoes what *)
(* completed in reverse order.  One call of Run, followed by the caller's  *)
(* boundary: commit, or Runner.Rollback of everything.                     *)
(*                                                                         *)
(* A step is its position in the list.  The model keeps what the Result    *)
(* carries and, in effect, what the steps did to the world, which Result   *)
(* cannot see: the properties relate the two.                              *)
(***************************************************************************)
EXTENDS Naturals, Sequences

CONSTANTS
    N,                      \* number of steps
    Reversible,             \* steps with a Rollback function
    CleansFailedExecute,    \* steps with a RollbackFailedExecute function
    PartialExecute,         \* steps whose failing Execute may leave its effect
    Overlooks               \* those whose cleanup may not see what was left

Steps == 1..N

ASSUME RunnerAssumption ==
    /\ N \in Nat \ {0}
    /\ Reversible \subseteq Steps
    /\ CleansFailedExecute \subseteq Steps
    /\ PartialExecute \subseteq Steps
    /\ Overlooks \subseteq PartialExecute

\* The steps whose failing Execute can leave an effect nobody undoes or names:
\* create_branch, which has no cleanup, and add_worktree, whose cleanup trusts
\* a flag that is set only after Git succeeded.
MayEscape == Overlooks \cup (PartialExecute \ CleansFailedExecute)

VARIABLES
    phase,          \* where the control of Run, or of rollback, is
    next,           \* the step the loop of Run is at
    completed,      \* Result.Completed
    failedStep,     \* Result.FailedStep; 0: none, N + 1: a boundary of the caller
    failedExecuteRolledBack,    \* Result.FailedExecuteRolledBack
    rollbackFailure,            \* Result.RollbackFailure # nil
    unrevertedSteps,            \* Result.UnrevertedSteps
    cursor,         \* how many of completed rollback has still to visit
    canceled,       \* ctx.Err() # nil
    effect          \* the steps whose effect is in place

vars == <<phase, next, completed, failedStep, failedExecuteRolledBack,
          rollbackFailure, unrevertedSteps, cursor, canceled, effect>>

Phases == {"running", "succeeded", "cleanup", "rollback", "failed", "committed"}

Named(seq) == {seq[i] : i \in 1..Len(seq)}

TypeOK ==
    /\ phase \in Phases
    /\ next \in 1..(N + 1)
    /\ completed \in Seq(Steps)
    /\ failedStep \in 0..(N + 1)
    /\ failedExecuteRolledBack \in BOOLEAN
    /\ rollbackFailure \in BOOLEAN
    /\ unrevertedSteps \in Seq(Steps)
    /\ cursor \in 0..N
    /\ canceled \in BOOLEAN
    /\ effect \subseteq Steps

Init ==
    /\ phase = "running"
    /\ next = 1
    /\ completed = <<>>
    /\ failedStep = 0
    /\ failedExecuteRolledBack = FALSE
    /\ rollbackFailure = FALSE
    /\ unrevertedSteps = <<>>
    /\ cursor = 0
    /\ canceled = FALSE
    /\ effect = {}

-----------------------------------------------------------------------------
(* Run                                                                      *)

\* The signal handler cancels the context; nothing is interrupted by it here.
Cancel ==
    /\ ~canceled
    /\ canceled' = TRUE
    /\ UNCHANGED <<phase, next, completed, failedStep, failedExecuteRolledBack,
                   rollbackFailure, unrevertedSteps, cursor, effect>>

\* The loop returns r.rollback(completed) for the step it was about to start.
RollBackBefore(step) ==
    /\ failedStep' = step
    /\ cursor' = Len(completed)
    /\ phase' = "rollback"
    /\ UNCHANGED <<next, completed, failedExecuteRolledBack, rollbackFailure,
                   unrevertedSteps, canceled, effect>>

\* ctx.Err() is looked at between two steps, and only there.
StopCanceled ==
    /\ phase = "running"
    /\ next <= N
    /\ canceled
    /\ RollBackBefore(next)

\* The BeforeExecute hook refuses the step.
StopInjected ==
    /\ phase = "running"
    /\ next <= N
    /\ ~canceled
    /\ RollBackBefore(next)

ExecuteSucceeds ==
    /\ phase = "running"
    /\ next <= N
    /\ ~canceled
    /\ effect' = effect \cup {next}
    /\ completed' = Append(completed, next)
    /\ next' = next + 1
    /\ UNCHANGED <<phase, failedStep, failedExecuteRolledBack, rollbackFailure,
                   unrevertedSteps, cursor, canceled>>

\* The step reports an error, before or (for some steps) after its effect.
ExecuteFails ==
    /\ phase = "running"
    /\ next <= N
    /\ ~canceled
    /\ failedStep' = next
    /\ \/ UNCHANGED effect
       \/ next \in PartialExecute /\ effect' = effect \cup {next}
    /\ cursor' = Len(completed)
    /\ phase' = IF next \in CleansFailedExecute THEN "cleanup" ELSE "rollback"
    /\ UNCHANGED <<next, completed, failedExecuteRolledBack, rollbackFailure,
                   unrevertedSteps, canceled>>

RunReturns ==
    /\ phase = "running"
    /\ next = N + 1
    /\ phase' = "succeeded"
    /\ UNCHANGED <<next, completed, failedStep, failedExecuteRolledBack,
                   rollbackFailure, unrevertedSteps, cursor, canceled, effect>>

\* Mutant: the failure of an undo is kept but not named.
RecordUnrevertedUnnamed(step) ==
    /\ rollbackFailure' = TRUE
    /\ UNCHANGED unrevertedSteps

\* What a failing undo does to the Result: the step is named, in order.
RecordUnreverted(step) ==
    /\ rollbackFailure' = TRUE
    /\ unrevertedSteps' = Append(unrevertedSteps, step)

\* RollbackFailedExecute of the step that failed.  It removes the effect, or
\* finds nothing to do where it cannot see it, or fails and is named.
CleanFailedExecute ==
    /\ phase = "cleanup"
    /\ phase' = "rollback"
    /\ \/ /\ effect' = effect \ {next}
          /\ failedExecuteRolledBack' = TRUE
          /\ UNCHANGED <<rollbackFailure, unrevertedSteps>>
       \/ /\ next \in Overlooks
          /\ failedExecuteRolledBack' = TRUE
          /\ UNCHANGED <<effect, rollbackFailure, unrevertedSteps>>
       \/ /\ RecordUnreverted(next)
          /\ UNCHANGED <<effect, failedExecuteRolledBack>>
    /\ UNCHANGED <<next, completed, failedStep, cursor, canceled>>

-----------------------------------------------------------------------------
(* rollback                                                                 *)

\* Mutant: the completed steps are visited first to last.
UndoStepForward ==
    /\ phase = "rollback"
    /\ cursor > 0
    /\ cursor' = cursor - 1
    /\ LET step == completed[Len(completed) - cursor + 1]
       IN \/ /\ step \in Reversible
             /\ effect' = effect \ {step}
             /\ UNCHANGED <<rollbackFailure, unrevertedSteps>>
          \/ /\ RecordUnreverted(step)
             /\ UNCHANGED effect
    /\ UNCHANGED <<phase, next, completed, failedStep, failedExecuteRolledBack,
                   canceled>>

\* Mutant: a step without a Rollback function is skipped.
UndoStepSkips ==
    /\ phase = "rollback"
    /\ cursor > 0
    /\ cursor' = cursor - 1
    /\ LET step == completed[cursor]
       IN \/ /\ step \in Reversible
             /\ effect' = effect \ {step}
             /\ UNCHANGED <<rollbackFailure, unrevertedSteps>>
          \/ /\ IF step \in Reversible
                THEN RecordUnreverted(step)
                ELSE UNCHANGED <<rollbackFailure, unrevertedSteps>>
             /\ UNCHANGED effect
    /\ UNCHANGED <<phase, next, completed, failedStep, failedExecuteRolledBack,
                   canceled>>

\* One iteration of the reverse loop; a failure never stops it.
UndoStep ==
    /\ phase = "rollback"
    /\ cursor > 0
    /\ cursor' = cursor - 1
    /\ LET step == completed[cursor]
       IN \/ /\ step \in Reversible
             /\ effect' = effect \ {step}
             /\ UNCHANGED <<rollbackFailure, unrevertedSteps>>
          \/ /\ RecordUnreverted(step)
             /\ UNCHANGED effect
    /\ UNCHANGED <<phase, next, completed, failedStep, failedExecuteRolledBack,
                   canceled>>

RollbackReturns ==
    /\ phase = "rollback"
    /\ cursor = 0
    /\ phase' = "failed"
    /\ UNCHANGED <<next, completed, failedStep, failedExecuteRolledBack,
                   rollbackFailure, unrevertedSteps, cursor, canceled, effect>>

-----------------------------------------------------------------------------
(* The caller                                                               *)

\* Runner.Rollback of every step, after validation or the state commit failed.
CallerRollsBack ==
    /\ phase = "succeeded"
    /\ RollBackBefore(N + 1)

CallerCommits ==
    /\ phase = "succeeded"
    /\ phase' = "committed"
    /\ UNCHANGED <<next, completed, failedStep, failedExecuteRolledBack,
                   rollbackFailure, unrevertedSteps, cursor, canceled, effect>>

Work ==
    \/ StopCanceled
    \/ StopInjected
    \/ ExecuteSucceeds
    \/ ExecuteFails
    \/ RunReturns
    \/ CleanFailedExecute
    \/ UndoStep
    \/ RollbackReturns
    \/ CallerRollsBack
    \/ CallerCommits

Next == Work \/ Cancel

\* Run is a straight loop in one goroutine: it goes on until it returns.
Fairness == WF_vars(Work)

Spec == Init /\ [][Next]_vars /\ Fairness

-----------------------------------------------------------------------------
(* Properties                                                               *)

\* The effect of the step that failed, if it is one that can escape.
Escaped == {failedStep} \cap MayEscape

\* A failed execution without a rollback failure (Result.RollbackComplete)
\* left nothing of any completed step, and of the failed one only what its
\* caller gave the runner no way to clean.
RollbackCompleteMeansUndone ==
    phase = "failed" /\ ~rollbackFailure => effect \subseteq Escaped

\* Every effect a failed execution leaves is a step in UnrevertedSteps, the
\* list that becomes the recovery record, or is the one of the failed step that
\* its caller cannot clean: of the completed steps, whatever failed and in
\* whatever undo, a person repairing from the record misses nothing.
LeftoversAreNamed ==
    phase = "failed" => effect \subseteq Named(unrevertedSteps) \cup Escaped

\* The record does not name a step twice, although the failed step and the
\* completed ones are cleaned by different code; nor does it name a step that
\* was never started.
NamedOnce ==
    /\ \A i, j \in 1..Len(unrevertedSteps) :
          i # j => unrevertedSteps[i] # unrevertedSteps[j]
    /\ \A s \in Named(unrevertedSteps) : s < next \/ s = failedStep

\* Effects are undone in reverse order: none is undone while a later one is in
\* place, unless rollback has already tried, and failed, to undo that one or
\* could not see it.
UndoneInReverse ==
    [][\A s \in effect \ effect' :
          \A t \in effect : t > s => t \in Named(unrevertedSteps) \cup Escaped]_vars

\* Every execution ends, whatever fails and however often.
RunEnds == <>(phase \in {"failed", "committed"})

-----------------------------------------------------------------------------
(* Refinement of the abstract promise                                       *)

Outcome ==
    CASE phase = "committed" -> "committed"
      [] phase = "failed" /\ ~rollbackFailure -> "aborted"
      [] phase = "failed" /\ rollbackFailure -> "incomplete"
      [] OTHER -> "pending"

Promise == INSTANCE TransactionOutcome
               WITH Escaping <- MayEscape,
                    outcome <- Outcome,
                    visible <- effect,
                    reported <- Named(unrevertedSteps)

\* The runner implements the promise: all effects, none, or the leftovers
\* reported, but for one effect of a step that can escape.
ImplementsPromise == Promise!Spec
=============================================================================
