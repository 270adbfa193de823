--------------------------- MODULE TransactionProofs ---------------------------
(***************************************************************************)
(* Proofs about the transaction runner, about its one rollback step that   *)
(* deletes directories, and about the hooks that run once a create has     *)
(* committed: modules TransactionRunner, OwnedWorktreeRemoval, HookRuns.   *)
(*                                                                         *)
(* For every number of steps, and every choice of which of them can be     *)
(* undone, cleaned, or fail half way with or without a cleanup that sees   *)
(* it, the runner leaves either all effects, none, or effects that are     *)
(* named, but for the failed step's own where its caller cannot clean it.  *)
(* IInv says where rollback stands: whatever it has passed is undone or    *)
(* named, or escaped, and nothing it has not passed is named.              *)
(*                                                                         *)
(* For every number of faults and of moves by others, the removal never    *)
(* deletes a directory the transaction did not create, never deletes work  *)
(* it had not looked past, and reports success only when everything of its *)
(* own is gone.                                                            *)
(*                                                                         *)
(* For any number of processes and hooks, and of commands, failures,       *)
(* crashes and changes, the hook run lock has one holder.  What its holder *)
(* keeps in memory is what is on disk, or one success ahead of it (Phase), *)
(* and the record claims only hooks that succeeded since it was created.   *)
(***************************************************************************)
EXTENDS TransactionRunner, OwnedWorktreeRemoval, HookRuns, TLAPS

\* completed is always the list of the steps before next.
CompletedIsPrefix ==
    /\ Len(completed) = next - 1
    /\ \A i \in 1..Len(completed) : completed[i] = i

\* The Result names a step exactly when it carries a rollback failure.
FailureIsNamed == rollbackFailure <=> unrevertedSteps # <<>>

\* Before rollback starts nothing is named.
NothingNamedYet ==
    phase \in {"running", "succeeded", "cleanup", "committed"} =>
        unrevertedSteps = <<>>

RunningEffects ==
    /\ phase = "running" => effect = 1..(next - 1)
    /\ phase \in {"succeeded", "committed"} => next = N + 1 /\ effect = Steps

CleanupEffects ==
    phase = "cleanup" =>
        /\ next <= N
        /\ failedStep = next
        /\ cursor = next - 1
        /\ effect \subseteq 1..next

\* Rollback has passed every step above cursor.
RollbackEffects ==
    phase \in {"rollback", "failed"} =>
        /\ cursor <= next - 1
        /\ \A s \in effect :
              s <= cursor \/ s \in Named(unrevertedSteps) \/ s \in Escaped
        /\ \A s \in Named(unrevertedSteps) :
              s > cursor /\ (s < next \/ s = failedStep)
        /\ phase = "failed" => cursor = 0

IInv ==
    /\ TypeOK
    /\ CompletedIsPrefix
    /\ FailureIsNamed
    /\ NothingNamedYet
    /\ RunningEffects
    /\ CleanupEffects
    /\ RollbackEffects
    /\ NamedOnce

-----------------------------------------------------------------------------
(* Facts about the list of names                                            *)

\* Naming one more step adds that step to the named set, and nothing else.
LEMMA NamedAppend ==
    ASSUME NEW S, NEW seq \in Seq(S), NEW x \in S
    PROVE  Named(Append(seq, x)) = Named(seq) \cup {x}
<1> DEFINE app == Append(seq, x)
<1>1. /\ Len(app) = Len(seq) + 1
      /\ \A i \in 1..Len(seq) : app[i] = seq[i]
      /\ app[Len(seq) + 1] = x
      /\ Len(seq) \in Nat
  OBVIOUS
<1>2. ASSUME NEW y \in Named(app) PROVE y \in Named(seq) \cup {x}
  BY <1>1, <1>2 DEF Named
<1>3. ASSUME NEW y \in Named(seq) PROVE y \in Named(app)
  BY <1>1, <1>3 DEF Named
<1>4. x \in Named(app)
  BY <1>1 DEF Named
<1> QED BY <1>2, <1>3, <1>4

\* Nothing is named by the empty list, and only by it.
LEMMA NamedEmpty ==
    ASSUME NEW S, NEW seq \in Seq(S)
    PROVE  Named(seq) = {} <=> seq = <<>>
<1>1. CASE seq = <<>>
  BY <1>1 DEF Named
<1>2. CASE seq # <<>>
  <2>1. Len(seq) \in Nat /\ Len(seq) >= 1
    BY <1>2
  <2>2. seq[1] \in Named(seq)
    BY <2>1 DEF Named
  <2> QED BY <1>2, <2>2
<1> QED BY <1>1, <1>2

\* A list without repetition stays so when a step that is not in it is added.
LEMMA DistinctAppend ==
    ASSUME NEW S, NEW seq \in Seq(S), NEW x \in S, x \notin Named(seq),
           \A i, j \in 1..Len(seq) : i # j => seq[i] # seq[j]
    PROVE  \A i, j \in 1..Len(Append(seq, x)) :
              i # j => Append(seq, x)[i] # Append(seq, x)[j]
<1> DEFINE app == Append(seq, x)
<1>1. /\ Len(app) = Len(seq) + 1
      /\ \A i \in 1..Len(seq) : app[i] = seq[i]
      /\ app[Len(seq) + 1] = x
      /\ Len(seq) \in Nat
  OBVIOUS
<1>2. \A i \in 1..Len(seq) : app[i] # x
  BY <1>1 DEF Named
<1> SUFFICES ASSUME NEW i \in 1..Len(app), NEW j \in 1..Len(app), i # j
             PROVE  app[i] # app[j]
  OBVIOUS
<1>3. CASE i \in 1..Len(seq) /\ j \in 1..Len(seq)
  BY <1>1, <1>3
<1>4. CASE i = Len(seq) + 1 /\ j \in 1..Len(seq)
  BY <1>1, <1>2, <1>4
<1>5. CASE j = Len(seq) + 1 /\ i \in 1..Len(seq)
  BY <1>1, <1>2, <1>5
<1> QED BY <1>1, <1>3, <1>4, <1>5
-----------------------------------------------------------------------------
(* IInv is inductive                                                        *)

LEMMA InitIInv == Init => IInv
<1> SUFFICES ASSUME Init PROVE IInv
  OBVIOUS
<1> USE RunnerAssumption DEF Init, Steps
<1>1. TypeOK
  <2>1. completed \in Seq(1..N) /\ unrevertedSteps \in Seq(1..N)
    OBVIOUS
  <2>2. next \in 1..(N + 1) /\ failedStep \in 0..(N + 1) /\ cursor \in 0..N
    OBVIOUS
  <2> QED BY <2>1, <2>2 DEF TypeOK, Phases
<1>2. CompletedIsPrefix /\ FailureIsNamed /\ NothingNamedYet
  BY DEF CompletedIsPrefix, FailureIsNamed, NothingNamedYet
<1>3. RunningEffects /\ CleanupEffects /\ RollbackEffects
  BY DEF RunningEffects, CleanupEffects, RollbackEffects
<1>4. NamedOnce
  BY DEF NamedOnce, Named
<1> QED BY <1>1, <1>2, <1>3, <1>4 DEF IInv

\* Starting rollback before step, with every completed effect in place.
LEMMA RollBackBeforeIInv ==
    ASSUME IInv, NEW step \in 1..(N + 1), RollBackBefore(step),
           phase \in {"running", "succeeded"}
    PROVE  IInv'
<1> USE RunnerAssumption DEF IInv, RollBackBefore, Steps
<1>1. TypeOK'
  BY DEF TypeOK, Phases, CompletedIsPrefix
<1>2. unrevertedSteps = <<>> /\ Named(unrevertedSteps') = {}
  BY NamedEmpty DEF NothingNamedYet, TypeOK
<1>3. CompletedIsPrefix' /\ FailureIsNamed' /\ NothingNamedYet'
  BY DEF CompletedIsPrefix, FailureIsNamed, NothingNamedYet
<1>4. RunningEffects' /\ CleanupEffects' /\ NamedOnce'
  BY <1>2 DEF RunningEffects, CleanupEffects, NamedOnce
<1>5. \A s \in effect : s <= next - 1
  BY DEF RunningEffects, TypeOK
<1>6. RollbackEffects'
  BY <1>2, <1>5 DEF RollbackEffects, CompletedIsPrefix, TypeOK
<1> QED BY <1>1, <1>3, <1>4, <1>6

LEMMA ExecuteSucceedsIInv == IInv /\ ExecuteSucceeds => IInv'
<1> SUFFICES ASSUME IInv, ExecuteSucceeds PROVE IInv'
  OBVIOUS
<1> USE RunnerAssumption DEF IInv, ExecuteSucceeds, Steps
<1>1. TypeOK'
  BY DEF TypeOK, Phases
<1>2. CompletedIsPrefix'
  BY DEF CompletedIsPrefix, TypeOK
<1>3. FailureIsNamed' /\ NothingNamedYet' /\ NamedOnce'
  <2>1. unrevertedSteps = <<>> /\ Named(unrevertedSteps') = {}
    BY NamedEmpty DEF NothingNamedYet, TypeOK
  <2> QED BY <2>1 DEF FailureIsNamed, NothingNamedYet, NamedOnce
<1>4. RunningEffects'
  BY DEF RunningEffects, TypeOK
<1>5. CleanupEffects' /\ RollbackEffects'
  BY DEF CleanupEffects, RollbackEffects
<1> QED BY <1>1, <1>2, <1>3, <1>4, <1>5

LEMMA ExecuteFailsIInv == IInv /\ ExecuteFails => IInv'
<1> SUFFICES ASSUME IInv, ExecuteFails PROVE IInv'
  OBVIOUS
<1> USE RunnerAssumption DEF IInv, ExecuteFails, Steps
<1>1. TypeOK'
  <2>0. next \in 1..N /\ failedStep' \in 0..(N + 1)
    BY DEF TypeOK
  <2>1. effect' \subseteq Steps
    <3>1. effect' = effect \/ effect' = effect \cup {next}
      OBVIOUS
    <3> QED BY <2>0, <3>1 DEF TypeOK
  <2>2. phase' \in Phases
    BY DEF Phases
  <2>3. cursor' \in 0..N
    BY DEF CompletedIsPrefix, TypeOK
  <2> QED BY <2>0, <2>1, <2>2, <2>3 DEF TypeOK
<1>2. unrevertedSteps = <<>> /\ Named(unrevertedSteps') = {}
  BY NamedEmpty DEF NothingNamedYet, TypeOK
<1>3. CompletedIsPrefix' /\ FailureIsNamed' /\ NothingNamedYet' /\ NamedOnce'
  BY <1>2 DEF CompletedIsPrefix, FailureIsNamed, NothingNamedYet, NamedOnce
<1>4. RunningEffects' /\ CleanupEffects'
  BY DEF RunningEffects, CleanupEffects, CompletedIsPrefix, TypeOK
<1>5. phase' = "rollback" => \A s \in effect' : s <= next - 1 \/ s \in Escaped'
  BY DEF RunningEffects, TypeOK, Escaped, MayEscape
<1>6. RollbackEffects'
  BY <1>2, <1>5 DEF RollbackEffects, CompletedIsPrefix, TypeOK
<1> QED BY <1>1, <1>3, <1>4, <1>6

LEMMA CleanFailedExecuteIInv == IInv /\ CleanFailedExecute => IInv'
<1> SUFFICES ASSUME IInv, CleanFailedExecute PROVE IInv'
  OBVIOUS
<1> USE RunnerAssumption DEF IInv, CleanFailedExecute, Steps
<1>1. /\ unrevertedSteps = <<>>
      /\ ~rollbackFailure
      /\ Named(unrevertedSteps) = {}
      /\ next \in 1..N /\ failedStep = next /\ cursor = next - 1
      /\ effect \subseteq 1..next
      /\ \A s \in effect : s <= cursor \/ s = next
  <2>1. unrevertedSteps = <<>> /\ ~rollbackFailure
    BY DEF NothingNamedYet, FailureIsNamed
  <2>2. Named(unrevertedSteps) = {}
    BY <2>1, NamedEmpty DEF TypeOK
  <2>3. next <= N /\ failedStep = next /\ cursor = next - 1 /\ effect \subseteq 1..next
    BY DEF CleanupEffects
  <2> QED BY <2>1, <2>2, <2>3 DEF TypeOK
<1>2. CompletedIsPrefix' /\ NothingNamedYet' /\ RunningEffects' /\ CleanupEffects'
  BY DEF CompletedIsPrefix, NothingNamedYet, RunningEffects, CleanupEffects
<1>3. CASE RecordUnreverted(next) /\ UNCHANGED <<effect, failedExecuteRolledBack>>
  <2>1. unrevertedSteps' = <<next>> /\ Named(unrevertedSteps') = {next}
    BY <1>1, <1>3 DEF RecordUnreverted, Named
  <2>2. TypeOK' /\ FailureIsNamed' /\ NamedOnce'
    BY <1>1, <1>3, <2>1
    DEF TypeOK, Phases, FailureIsNamed, NamedOnce, RecordUnreverted
  <2>3. RollbackEffects'
    BY <1>1, <1>3, <2>1 DEF RollbackEffects, TypeOK
  <2> QED BY <1>2, <2>2, <2>3
<1>4. CASE UNCHANGED <<rollbackFailure, unrevertedSteps>> /\ effect' = effect \ {next}
           /\ failedExecuteRolledBack' = TRUE
  <2>1. Named(unrevertedSteps') = {}
    BY <1>1, <1>4
  <2>2. TypeOK' /\ FailureIsNamed' /\ NamedOnce' /\ RollbackEffects'
    BY <1>1, <1>4, <2>1
    DEF TypeOK, Phases, FailureIsNamed, NamedOnce, RollbackEffects
  <2> QED BY <1>2, <2>2
<1>5. CASE /\ next \in Overlooks
           /\ failedExecuteRolledBack' = TRUE
           /\ UNCHANGED <<effect, rollbackFailure, unrevertedSteps>>
  <2>1. Named(unrevertedSteps') = {} /\ next \in Escaped'
    BY <1>1, <1>5 DEF Escaped, MayEscape
  <2>2. TypeOK' /\ FailureIsNamed' /\ NamedOnce'
    BY <1>1, <1>5, <2>1 DEF TypeOK, Phases, FailureIsNamed, NamedOnce
  <2>3. RollbackEffects'
    BY <1>1, <1>5, <2>1 DEF RollbackEffects, TypeOK
  <2> QED BY <1>2, <2>2, <2>3
<1> QED BY <1>3, <1>4, <1>5

LEMMA UndoStepIInv == IInv /\ UndoStep => IInv'
<1> SUFFICES ASSUME IInv, UndoStep PROVE IInv'
  OBVIOUS
<1> USE RunnerAssumption DEF IInv, UndoStep, Steps
<1>1. /\ cursor \in 1..N /\ cursor <= next - 1 /\ completed[cursor] = cursor
      /\ cursor' = cursor - 1
      /\ \A s \in effect :
            s <= cursor \/ s \in Named(unrevertedSteps) \/ s \in Escaped
      /\ Escaped' = Escaped
      /\ \A s \in Named(unrevertedSteps) :
            s > cursor /\ (s < next \/ s = failedStep)
  BY DEF Escaped, RollbackEffects, CompletedIsPrefix, TypeOK
<1>2. CompletedIsPrefix' /\ NothingNamedYet' /\ RunningEffects' /\ CleanupEffects'
  BY DEF CompletedIsPrefix, NothingNamedYet, RunningEffects, CleanupEffects
<1>3. CASE effect' = effect \ {cursor} /\ UNCHANGED <<rollbackFailure, unrevertedSteps>>
  <2>1. TypeOK' /\ FailureIsNamed' /\ NamedOnce'
    BY <1>1, <1>3 DEF TypeOK, Phases, FailureIsNamed, NamedOnce
  <2>2. \A s \in effect' :
           s <= cursor - 1 \/ s \in Named(unrevertedSteps) \/ s \in Escaped
    BY <1>1, <1>3 DEF TypeOK
  <2>3. cursor' <= next - 1
    BY <1>1 DEF TypeOK
  <2>4. \A s \in Named(unrevertedSteps) : s \in Nat
    BY SMTT(30) DEF Named, TypeOK
  <2>5. \A s \in Named(unrevertedSteps) :
           s > cursor' /\ (s < next \/ s = failedStep)
    BY <1>1, <2>4
  <2>6. RollbackEffects'
    BY <1>1, <1>3, <2>2, <2>3, <2>5 DEF RollbackEffects
  <2> QED BY <1>2, <2>1, <2>6
<1>4. CASE RecordUnreverted(cursor) /\ UNCHANGED effect
  <2>1. cursor \notin Named(unrevertedSteps)
    BY <1>1
  <2>2. Named(unrevertedSteps') = Named(unrevertedSteps) \cup {cursor}
    BY <1>1, <1>4, NamedAppend DEF RecordUnreverted, TypeOK
  <2>3. TypeOK' /\ FailureIsNamed'
    BY <1>1, <1>4 DEF TypeOK, Phases, FailureIsNamed, RecordUnreverted
  <2>4. NamedOnce'
    <3>1. \A i, j \in 1..Len(unrevertedSteps') :
             i # j => unrevertedSteps'[i] # unrevertedSteps'[j]
      <4>1. /\ unrevertedSteps \in Seq(1..N)
            /\ cursor \in 1..N
            /\ \A i, j \in 1..Len(unrevertedSteps) :
                  i # j => unrevertedSteps[i] # unrevertedSteps[j]
        BY <1>1 DEF NamedOnce, TypeOK
      <4>2. unrevertedSteps' = Append(unrevertedSteps, cursor)
        BY <1>1, <1>4 DEF RecordUnreverted
      <4> HIDE DEF IInv, UndoStep
      <4> QED BY <2>1, <4>1, <4>2, DistinctAppend
    <3>2. \A s \in Named(unrevertedSteps') : s < next \/ s = failedStep
      BY <1>1, <2>2 DEF TypeOK
    <3> QED BY <3>1, <3>2 DEF NamedOnce
  <2>5. \A s \in effect' :
           s <= cursor - 1 \/ s \in Named(unrevertedSteps') \/ s \in Escaped
    BY <1>1, <1>4, <2>2 DEF TypeOK
  <2>6. \A s \in Named(unrevertedSteps') :
           s > cursor - 1 /\ (s < next \/ s = failedStep)
    <3>1. \A s \in Named(unrevertedSteps) : s \in Nat
      BY SMTT(30) DEF Named, TypeOK
    <3> QED BY <1>1, <2>2, <3>1 DEF TypeOK
  <2>7. cursor' <= next - 1
    BY <1>1 DEF TypeOK
  <2>8. RollbackEffects'
    BY <1>1, <2>5, <2>6, <2>7 DEF RollbackEffects
  <2> QED BY <1>2, <2>3, <2>4, <2>8
<1> QED BY <1>1, <1>3, <1>4

\* The steps that move the phase and nothing else.
LEMMA ReturnIInv ==
    IInv /\ (RunReturns \/ RollbackReturns \/ CallerCommits) => IInv'
<1> SUFFICES ASSUME IInv, RunReturns \/ RollbackReturns \/ CallerCommits
             PROVE IInv'
  OBVIOUS
<1>1. UNCHANGED <<next, completed, failedStep, failedExecuteRolledBack,
                  rollbackFailure, unrevertedSteps, cursor, canceled, effect>>
  BY DEF RunReturns, RollbackReturns, CallerCommits
<1>2. \/ phase = "running" /\ next = N + 1 /\ phase' = "succeeded"
      \/ phase = "rollback" /\ cursor = 0 /\ phase' = "failed"
      \/ phase = "succeeded" /\ phase' = "committed"
  BY DEF RunReturns, RollbackReturns, CallerCommits
<1> USE RunnerAssumption, <1>1, <1>2 DEF IInv, Steps
<1>3. TypeOK'
  BY DEF TypeOK, Phases
<1>4. CompletedIsPrefix' /\ FailureIsNamed' /\ NamedOnce'
  BY DEF CompletedIsPrefix, FailureIsNamed, NamedOnce
<1>5. NothingNamedYet'
  BY DEF NothingNamedYet
<1>6. RunningEffects'
  <2>1. CASE phase = "running" /\ next = N + 1 /\ phase' = "succeeded"
    <3>1. effect = 1..((N + 1) - 1)
      BY <2>1 DEF RunningEffects
    <3>2. (N + 1) - 1 = N
      BY DEF TypeOK
    <3> QED BY <2>1, <3>1, <3>2 DEF RunningEffects
  <2>2. CASE phase # "running"
    BY <2>2 DEF RunningEffects
  <2> QED BY <2>1, <2>2
<1>7. CleanupEffects' /\ RollbackEffects'
  BY DEF CleanupEffects, RollbackEffects, Escaped
<1> QED BY <1>3, <1>4, <1>5, <1>6, <1>7

LEMMA CancelIInv == IInv /\ Cancel => IInv'
<1> SUFFICES ASSUME IInv, Cancel PROVE IInv'
  OBVIOUS
<1> USE DEF IInv, Cancel
<1>1. TypeOK'
  BY DEF TypeOK
<1>2. CompletedIsPrefix' /\ FailureIsNamed' /\ NothingNamedYet' /\ NamedOnce'
  BY DEF CompletedIsPrefix, FailureIsNamed, NothingNamedYet, NamedOnce
<1>3. RunningEffects' /\ CleanupEffects' /\ RollbackEffects'
  BY DEF RunningEffects, CleanupEffects, RollbackEffects, Escaped
<1> QED BY <1>1, <1>2, <1>3

LEMMA NextIInv == IInv /\ [Next]_vars => IInv'
<1> SUFFICES ASSUME IInv, [Next]_vars PROVE IInv'
  OBVIOUS
<1>1. CASE StopCanceled
  BY <1>1, RollBackBeforeIInv, RunnerAssumption DEF StopCanceled, IInv, TypeOK
<1>2. CASE StopInjected
  BY <1>2, RollBackBeforeIInv, RunnerAssumption DEF StopInjected, IInv, TypeOK
<1>3. CASE CallerRollsBack
  BY <1>3, RollBackBeforeIInv, RunnerAssumption DEF CallerRollsBack
<1>4. CASE ExecuteSucceeds
  BY <1>4, ExecuteSucceedsIInv
<1>5. CASE ExecuteFails
  BY <1>5, ExecuteFailsIInv
<1>6. CASE CleanFailedExecute
  BY <1>6, CleanFailedExecuteIInv
<1>7. CASE UndoStep
  BY <1>7, UndoStepIInv
<1>8. CASE RunReturns \/ RollbackReturns \/ CallerCommits
  BY <1>8, ReturnIInv
<1>10. CASE Cancel
  BY <1>10, CancelIInv
<1>9. CASE UNCHANGED vars
  BY <1>9 DEF vars, IInv, TypeOK, CompletedIsPrefix, FailureIsNamed,
     NothingNamedYet, RunningEffects, CleanupEffects, RollbackEffects, Escaped,
     NamedOnce
<1> QED
  BY <1>1, <1>2, <1>3, <1>4, <1>5, <1>6, <1>7, <1>8, <1>9, <1>10 DEF Next, Work

-----------------------------------------------------------------------------
(* Theorems                                                                 *)

LEMMA Invariance == Spec => []IInv
BY InitIInv, NextIInv, PTL DEF Spec

\* The Result and the world always have their types.
THEOREM TypeCorrect == Spec => []TypeOK
<1>1. IInv => TypeOK
  BY DEF IInv
<1> QED BY <1>1, Invariance, PTL

\* RollbackComplete tells the truth of every completed step: with no rollback
\* failure in the Result nothing is left but what a step that failed half way
\* gave the runner no way to clean.
THEOREM RollbackCompleteIsUndone == Spec => []RollbackCompleteMeansUndone
<1>1. IInv => RollbackCompleteMeansUndone
  <2> SUFFICES ASSUME IInv, phase = "failed", ~rollbackFailure, NEW s \in effect
               PROVE  s \in Escaped
    BY DEF RollbackCompleteMeansUndone
  <2>1. Named(unrevertedSteps) = {}
    BY NamedEmpty DEF IInv, FailureIsNamed, TypeOK
  <2>2. s <= 0 \/ s \in Escaped
    BY <2>1 DEF IInv, RollbackEffects
  <2> QED BY <2>2 DEF IInv, TypeOK, Steps
<1> QED BY <1>1, Invariance, PTL

\* Whatever a failed execution leaves is named in UnrevertedSteps, or is the
\* effect of the failed step that its caller cannot clean.
THEOREM LeftoversNamed == Spec => []LeftoversAreNamed
<1>1. IInv => LeftoversAreNamed
  <2> SUFFICES ASSUME IInv, phase = "failed", NEW s \in effect
               PROVE  s \in Named(unrevertedSteps) \/ s \in Escaped
    BY DEF LeftoversAreNamed
  <2>1. s \in Nat /\ s >= 1
    BY RunnerAssumption DEF IInv, TypeOK, Steps
  <2>2. s <= 0 \/ s \in Named(unrevertedSteps) \/ s \in Escaped
    BY DEF IInv, RollbackEffects
  <2> QED BY <2>1, <2>2
<1> QED BY <1>1, Invariance, PTL

\* No step is named twice, and none that was not started.
THEOREM NamedOnceHolds == Spec => []NamedOnce
<1>1. IInv => NamedOnce
  BY DEF IInv
<1> QED BY <1>1, Invariance, PTL

\* Effects disappear in reverse order of the list.
THEOREM ReverseOrder == Spec => UndoneInReverse
<1> DEFINE Rev == \A s \in effect \ effect' :
                    \A t \in effect :
                        t > s => t \in Named(unrevertedSteps) \cup Escaped
<1>1. IInv /\ [Next]_vars => Rev
  <2> SUFFICES ASSUME IInv, [Next]_vars,
                      NEW s \in effect \ effect', NEW t \in effect, t > s
               PROVE  t \in Named(unrevertedSteps) \cup Escaped
    OBVIOUS
  <2>1. CASE CleanFailedExecute
    <3>1. s = next /\ t \in 1..next
      BY <2>1 DEF CleanFailedExecute, IInv, CleanupEffects
    <3> QED BY <3>1 DEF IInv, TypeOK
  <2>2. CASE UndoStep
    <3>1. /\ cursor \in 1..N /\ cursor <= next - 1
          /\ t <= cursor \/ t \in Named(unrevertedSteps) \/ t \in Escaped
      BY <2>2, RunnerAssumption DEF UndoStep, IInv, RollbackEffects, TypeOK
    <3>2. completed[cursor] = cursor
      BY <3>1 DEF IInv, CompletedIsPrefix, TypeOK
    <3>3. s = cursor
      BY <2>2, <3>2 DEF UndoStep
    <3> QED BY <3>1, <3>3
  <2>3. CASE ~CleanFailedExecute /\ ~UndoStep
    <3>1. effect \subseteq effect'
      BY <2>3 DEF Next, Work, vars, StopCanceled, StopInjected, CallerRollsBack,
         RollBackBefore, ExecuteSucceeds, ExecuteFails, RunReturns,
         RollbackReturns, CallerCommits, Cancel
    <3> QED BY <3>1
  <2> QED BY <2>1, <2>2, <2>3
<1>2. IInv /\ [Next]_vars => [Rev]_vars
  BY <1>1
<1>3. QED
  BY <1>2, Invariance, PTL DEF Spec, UndoneInReverse

-----------------------------------------------------------------------------
(* Refinement                                                               *)

\* While a step leaves the outcome pending it is Progress of the promise.
LEMMA ProgressStep ==
    ASSUME IInv, IInv', Outcome = "pending", Outcome' = "pending"
    PROVE  Promise!Progress
<1>1. effect' \in SUBSET Steps
  BY DEF IInv, TypeOK
<1>2. Named(unrevertedSteps') \in SUBSET Steps
  BY SMTT(30) DEF IInv, TypeOK, Named
<1> QED BY <1>1, <1>2 DEF Promise!Progress

\* Each step of the runner is a step of the promise, or changes nothing of it.
LEMMA StepRefines == IInv /\ IInv' /\ [Next]_vars => [Promise!Next]_(Promise!vars)
<1> SUFFICES ASSUME IInv, IInv', [Next]_vars
             PROVE  [Promise!Next]_(Promise!vars)
  OBVIOUS
<1> USE DEF Promise!Next, Promise!vars
<1>1. CASE RollbackReturns
  <2>1. /\ phase = "rollback" /\ phase' = "failed" /\ cursor = 0
        /\ UNCHANGED <<rollbackFailure, unrevertedSteps, effect>>
    BY <1>1 DEF RollbackReturns
  <2>2. Outcome = "pending"
    BY <2>1 DEF Outcome
  <2>3. effect \subseteq Named(unrevertedSteps) \cup Escaped
    <3> SUFFICES ASSUME NEW s \in effect
                 PROVE  s \in Named(unrevertedSteps) \/ s \in Escaped
      BY <2>1
    <3>1. s \in Nat /\ s >= 1
      BY RunnerAssumption DEF IInv, TypeOK, Steps
    <3> QED BY <2>1, <3>1 DEF IInv, RollbackEffects
  <2>7. Promise!Accounted(Named(unrevertedSteps))
    <3>1. CASE failedStep \in MayEscape
      BY <2>3, <3>1 DEF Escaped, Promise!Accounted
    <3>2. CASE failedStep \notin MayEscape
      BY <2>3, <3>2 DEF Escaped, Promise!Accounted
    <3> QED BY <3>1, <3>2
  <2>4. rollbackFailure <=> Named(unrevertedSteps) # {}
    BY NamedEmpty DEF IInv, FailureIsNamed, TypeOK
  <2>5. CASE rollbackFailure
    <3>1. Outcome' = "incomplete"
      BY <2>1, <2>5 DEF Outcome
    <3> QED BY <2>1, <2>2, <2>4, <2>5, <2>7, <3>1 DEF Promise!GiveUp
  <2>6. CASE ~rollbackFailure
    <3>1. Outcome' = "aborted"
      BY <2>1, <2>6 DEF Outcome
    <3> QED BY <2>1, <2>2, <2>4, <2>6, <2>7, <3>1 DEF Promise!Abort
  <2> QED BY <2>5, <2>6
<1>2. CASE CallerCommits
  <2>1. /\ phase = "succeeded" /\ phase' = "committed"
        /\ UNCHANGED <<unrevertedSteps, effect>>
    BY <1>2 DEF CallerCommits
  <2>2. Outcome = "pending" /\ Outcome' = "committed"
    BY <2>1 DEF Outcome
  <2>3. effect = Steps /\ Named(unrevertedSteps) = {}
    BY <2>1, NamedEmpty DEF IInv, RunningEffects, NothingNamedYet, TypeOK
  <2>4. UNCHANGED Named(unrevertedSteps)
    BY <2>1
  <2> QED BY <2>1, <2>2, <2>3, <2>4 DEF Promise!Commit
<1>3. CASE UNCHANGED vars \/ Cancel
  <2>1. UNCHANGED <<phase, rollbackFailure, unrevertedSteps, effect>>
    BY <1>3 DEF vars, Cancel
  <2>2. UNCHANGED <<Outcome, effect, Named(unrevertedSteps)>>
    BY <2>1 DEF Outcome
  <2> QED BY <2>2
<1>4. CASE /\ Work
           /\ ~RollbackReturns
           /\ ~CallerCommits
  <2>1. /\ phase \in {"running", "succeeded", "cleanup", "rollback"}
        /\ phase' \in {"running", "succeeded", "cleanup", "rollback"}
    BY <1>4 DEF Work, StopCanceled, StopInjected, CallerRollsBack,
       RollBackBefore, ExecuteSucceeds, ExecuteFails, RunReturns,
       CleanFailedExecute, UndoStep
  <2>2. Outcome = "pending" /\ Outcome' = "pending"
    BY <2>1 DEF Outcome
  <2> QED BY <2>2, ProgressStep
<1> QED BY <1>1, <1>2, <1>3, <1>4 DEF Next

\* The runner implements the promise of TransactionOutcome for every list of
\* steps, whatever can be undone or cleaned of them.
THEOREM RunnerImplementsPromise == Spec => ImplementsPromise
<1>1. Init => Promise!Init
  <2> SUFFICES ASSUME Init PROVE Promise!Init
    OBVIOUS
  <2>1. Outcome = "pending"
    BY DEF Init, Outcome
  <2>2. Named(unrevertedSteps) = {}
    BY DEF Init, Named
  <2> QED BY <2>1, <2>2 DEF Init, Promise!Init
<1>2. IInv /\ IInv' /\ [Next]_vars => [Promise!Next]_(Promise!vars)
  BY StepRefines
<1> QED
  BY <1>1, <1>2, Invariance, PTL DEF Spec, ImplementsPromise, Promise!Spec

-----------------------------------------------------------------------------
(* The removal of an owned worktree                                         *)

\* Control has passed the revalidation and the second rename.
Isolated == {"look", "unregister", "lookAgain", "destroy", "destroyRaced"}

\* There is only one directory that the transaction created.
OursIsOne ==
    \A p, q \in Places : at[p] = "ours" /\ at[q] = "ours" => p = q

\* From the revalidation on, what will be deleted is the transaction's own.
WhatIsDeleted ==
    /\ pc = "isolate" => at["owned"] = "ours"
    /\ pc \in Isolated => at["destroy"] = "ours" /\ at["owned"] = "none"

\* And nothing was in it that the revalidation did not see.
NothingUnseen == Unwatched => late \/ (~edited /\ ~moved)

\* The registration goes before the directory, and success is decided last.
Unregistered ==
    /\ pc \in {"lookAgain", "destroy", "destroyRaced"} => reg = "none"
    /\ pc \notin {"return", "done"} => result = "none" /\ cleanupRoot
    /\ result \in {"removed", "raced"} =>
          /\ cleanupRoot
          /\ ~Exists("ours")
          /\ reg = "none"
          /\ at["owned"] = "none" /\ at["destroy"] = "none"
          /\ pc = "done" => ~root

ShapeOK ==
    /\ pc \in {"inspect", "detach", "identify", "putBack", "repair", "revalidate",
               "restore", "repairRestored", "isolate", "look", "unregister",
               "lookAgain", "destroy", "destroyRaced", "return", "done"}
    /\ at \in [Places -> Things]
    /\ at["aside"] # "theirs"

\* The inductive invariant.
RemovalInv ==
    /\ ShapeOK
    /\ OursIsOne
    /\ WhatIsDeleted
    /\ NothingUnseen
    /\ WorkSurvives
    /\ Unregistered

-----------------------------------------------------------------------------
(* Renaming                                                                 *)

\* A rename that replaces nothing loses nothing and makes nothing.
LEMMA RenameKeeps ==
    ASSUME at \in [Places -> Things], NEW from \in Places, NEW to \in Places,
           RenameNoReplace(from, to), at' = Renamed(from, to), from # to
    PROVE  /\ at' \in [Places -> Things]
           /\ at'[to] = at[from] /\ at'[from] = "none"
           /\ \A p \in Places : p # to /\ p # from => at'[p] = at[p]
           /\ \A thing \in {"ours", "theirs"} : Exists(thing)' <=> Exists(thing)
           /\ OursIsOne => OursIsOne'
<1>1. at' \in [Places -> Things]
  BY DEF Renamed, Places, Things
<1>2. at'[to] = at[from] /\ at'[from] = "none"
  BY DEF Renamed
<1>3. \A p \in Places : p # to /\ p # from => at'[p] = at[p]
  BY DEF Renamed
<1>4. ASSUME NEW thing \in {"ours", "theirs"}
      PROVE  Exists(thing)' <=> Exists(thing)
  <2>1. ASSUME NEW p \in Places, at[p] = thing
        PROVE  \E q \in Places : at'[q] = thing
    <3>1. CASE p = from
      BY <3>1, <2>1, <1>2
    <3>2. CASE p # from
      <4>1. p # to
        BY <2>1, <1>4 DEF RenameNoReplace
      <4> QED BY <4>1, <3>2, <2>1, <1>3
    <3> QED BY <3>1, <3>2
  <2>2. ASSUME NEW p \in Places, at'[p] = thing
        PROVE  \E q \in Places : at[q] = thing
    <3>1. p # from
      BY <2>2, <1>2, <1>4
    <3>2. CASE p = to
      BY <3>2, <2>2, <1>2
    <3>3. CASE p # to
      BY <3>1, <3>3, <2>2, <1>3
    <3> QED BY <3>2, <3>3
  <2> QED BY <2>1, <2>2 DEF Exists
<1>5. OursIsOne => OursIsOne'
  <2> SUFFICES ASSUME OursIsOne,
                      NEW p \in Places, NEW q \in Places,
                      at'[p] = "ours", at'[q] = "ours"
               PROVE  p = q
    BY DEF OursIsOne
  <2>1. p # from /\ q # from
    BY <1>2
  <2>2. p = to \/ at[p] = "ours"
    BY <2>1, <1>3
  <2>3. q = to \/ at[q] = "ours"
    BY <2>1, <1>3
  <2>4. p = to => at[from] = "ours"
    BY <1>2
  <2>5. q = to => at[from] = "ours"
    BY <1>2
  <2> QED BY <2>1, <2>2, <2>3, <2>4, <2>5 DEF OursIsOne
<1> QED BY <1>1, <1>2, <1>3, <1>4, <1>5

-----------------------------------------------------------------------------
(* The invariant                                                            *)

\* At the start the checkout is at its public path, untouched.
LEMMA InitInvariant == RemovalInit => RemovalInv
<1> SUFFICES ASSUME RemovalInit PROVE RemovalInv
  OBVIOUS
<1>1. at \in [Places -> Things] /\ at["public"] = "ours" /\ at["aside"] = "none"
  BY DEF RemovalInit, Places, Things
<1>2. \A p \in Places : at[p] = "ours" => p = "public"
  BY DEF RemovalInit
<1>3. Exists("ours")
  BY <1>1 DEF Exists, Places
<1> QED BY <1>1, <1>2, <1>3 DEF RemovalInit, RemovalInv, ShapeOK, OursIsOne, WhatIsDeleted,
           NothingUnseen, WorkSurvives, Unregistered, Unwatched, Isolated

\* Calls that leave every directory where it is.
LEMMA StillCalls ==
    ASSUME RemovalInv,
           Inspect \/ Identify \/ Repair \/ Revalidate \/ RepairRestored
             \/ Look \/ Unregister \/ LookAgain \/ Return,
           UNCHANGED at
    PROVE  RemovalInv'
<1> USE DEF RemovalInv
<1>0. UNCHANGED <<edited, moved, late>>
  BY DEF Inspect, Identify, Repair, Revalidate, RepairRestored, Look,
         Unregister, LookAgain, Return, others
<1>1. ShapeOK'
  BY DEF ShapeOK, Inspect, Identify, Repair, Revalidate, RepairRestored, Look,
         Unregister, LookAgain, Return, Go, Refuse, RefuseAndKeep
<1>2. OursIsOne' /\ (Exists("ours")' <=> Exists("ours"))
  BY DEF OursIsOne, Exists
<1>3. WhatIsDeleted'
  BY DEF WhatIsDeleted, Isolated, Inspect, Identify, Repair, Revalidate,
         RepairRestored, Look, Unregister, LookAgain, Return, Go, Refuse,
         RefuseAndKeep
<1>4. NothingUnseen'
  BY <1>0 DEF NothingUnseen, Unwatched, Inspect, Identify, Repair, Revalidate,
         RepairRestored, Look, Unregister, LookAgain, Return, Go, Refuse,
         RefuseAndKeep
<1>5. WorkSurvives'
  BY <1>0, <1>2 DEF WorkSurvives
<1>6. Unregistered'
  BY <1>2 DEF Unregistered, Inspect, Identify, Repair, Revalidate,
         RepairRestored, Look, Unregister, LookAgain, Return, Go, Refuse,
         RefuseAndKeep
<1> QED BY <1>1, <1>2, <1>3, <1>4, <1>5, <1>6

\* Calls that rename: they may fail, and then nothing moves either.
LEMMA RenamingCalls ==
    ASSUME RemovalInv, Detach \/ PutBack \/ Restore \/ Isolate
    PROVE  RemovalInv'
<1> USE DEF RemovalInv
<1>0. UNCHANGED <<edited, moved, late, reg, root>>
  BY DEF Detach, PutBack, Restore, Isolate, others
<1>places. /\ {"public", "owned", "destroy"} \subseteq Places \ {"aside"}
      /\ "aside" \in Places
  BY DEF Places
<1>1. CASE UNCHANGED at
  <2>1. OursIsOne' /\ (Exists("ours")' <=> Exists("ours"))
    BY <1>1 DEF OursIsOne, Exists
  <2>2. pc' \in {"identify", "return", "repairRestored", "look", "restore"}
    BY DEF Detach, PutBack, Restore, Isolate, Rename, Go, Refuse, RefuseAndKeep
  <2>3. pc' # "look"
    <3>1. ASSUME pc' = "look" PROVE FALSE
      <4>1. Isolate /\ at' = Renamed("owned", "destroy") /\ pc = "isolate"
        BY <3>1 DEF Detach, PutBack, Restore, Isolate, Rename, Go, Refuse,
                    RefuseAndKeep
      <4>2. at["owned"] = "ours" /\ at'["owned"] = "none"
        BY <4>1 DEF WhatIsDeleted, Renamed, ShapeOK, Places
      <4> QED BY <4>2, <1>1
    <3> QED BY <3>1
  <2>4. ShapeOK'
    BY <2>2, <1>1 DEF ShapeOK
  <2>5. WhatIsDeleted'
    BY <2>2, <2>3 DEF WhatIsDeleted, Isolated
  <2>6. NothingUnseen'
    BY <2>2, <2>3 DEF NothingUnseen, Unwatched
  <2>7. WorkSurvives'
    BY <2>1, <1>0 DEF WorkSurvives
  <2>8. Unregistered'
    BY <2>2, <2>3, <1>0 DEF Unregistered, Detach, PutBack, Restore,
           Isolate, Rename, Go, Refuse, RefuseAndKeep
  <2> QED BY <2>1, <2>4, <2>5, <2>6, <2>7, <2>8
<1>2. ASSUME NEW from \in Places \ {"aside"}, NEW to \in Places \ {"aside"}, from # to,
             RenameNoReplace(from, to), at' = Renamed(from, to),
             \/ Detach /\ pc' = "identify"
             \/ PutBack /\ pc' = "return"
             \/ Restore /\ pc' = "repairRestored"
             \/ Isolate /\ pc' = "look" /\ from = "owned" /\ to = "destroy",
             pc' = "return" => result' = "refused",
             pc' # "return" => UNCHANGED <<result, cleanupRoot>>
      PROVE  RemovalInv'
  <2>1. /\ at' \in [Places -> Things]
        /\ at'[to] = at[from] /\ at'[from] = "none"
        /\ at'["aside"] = at["aside"]
        /\ Exists("ours")' <=> Exists("ours")
        /\ OursIsOne'
    BY <1>2, <1>places, RenameKeeps DEF ShapeOK
  <2>2. ShapeOK'
    BY <2>1, <1>2 DEF ShapeOK
  <2>3. WhatIsDeleted'
    BY <2>1, <1>2 DEF WhatIsDeleted, Isolated, Isolate
  <2>4. NothingUnseen'
    BY <1>0, <1>2 DEF NothingUnseen, Unwatched, Isolate
  <2>5. WorkSurvives'
    BY <2>1, <1>0 DEF WorkSurvives
  <2>6. Unregistered'
    BY <1>0, <1>2 DEF Unregistered, Detach, PutBack, Restore, Isolate
  <2> QED BY <2>1, <2>2, <2>3, <2>4, <2>5, <2>6
<1>4. CASE Detach
  BY <1>4, <1>1, <1>2, <1>places DEF Detach, Rename, Go, Refuse
<1>5. CASE PutBack
  BY <1>5, <1>1, <1>2, <1>places DEF PutBack, Rename, Refuse, RefuseAndKeep
<1>6. CASE Restore
  BY <1>6, <1>1, <1>2, <1>places DEF Restore, Rename, Go, RefuseAndKeep
<1>7. CASE Isolate
  BY <1>7, <1>1, <1>2, <1>places DEF Isolate, Rename, Go
<1> QED BY <1>4, <1>5, <1>6, <1>7

\* The one call that deletes.
LEMMA DestroyStep ==
    ASSUME RemovalInv, Destroy
    PROVE  RemovalInv' /\ (Exists("theirs") => Exists("theirs")')
<1> USE DEF RemovalInv
<1>0. /\ pc \in {"destroy", "destroyRaced"}
      /\ UNCHANGED <<reg, root, edited, moved, late>>
      /\ pc' = "return"
  BY DEF Destroy, RefuseAndKeep, others
<1>1. /\ at["destroy"] = "ours" /\ at["owned"] = "none"
      /\ reg = "none" /\ cleanupRoot
      /\ late \/ (~edited /\ ~moved)
  BY <1>0 DEF WhatIsDeleted, Isolated, Unregistered, NothingUnseen, Unwatched
<1>2. CASE UNCHANGED at /\ result' = "refused"
  <2>1. OursIsOne' /\ (\A thing \in Things : Exists(thing)' <=> Exists(thing))
    BY <1>2 DEF OursIsOne, Exists
  <2> QED BY <2>1, <1>0, <1>2 DEF ShapeOK, WhatIsDeleted, Isolated,
             NothingUnseen, Unwatched, WorkSurvives, Unregistered, Things
<1>3. CASE /\ at' = [at EXCEPT !["destroy"] = "none"]
           /\ result' \in {"removed", "raced"}
           /\ UNCHANGED cleanupRoot
  <2>1. /\ at' \in [Places -> Things]
        /\ at'["destroy"] = "none"
        /\ \A p \in Places : p # "destroy" => at'[p] = at[p]
    BY <1>3 DEF ShapeOK, Places, Things
  <2>2. \A p \in Places : at'[p] # "ours"
    BY <2>1, <1>1 DEF OursIsOne, Places
  <2>3. ~Exists("ours")' /\ OursIsOne'
    BY <2>2 DEF Exists, OursIsOne
  <2>4. Exists("theirs") => Exists("theirs")'
    BY <2>1, <1>1 DEF Exists
  <2>5. at'["owned"] = "none"
    BY <2>1, <1>1 DEF Places
  <2> QED BY <2>1, <2>3, <2>4, <2>5, <1>0, <1>1, <1>3 DEF ShapeOK,
             WhatIsDeleted, Isolated, NothingUnseen, Unwatched, WorkSurvives,
             Unregistered
<1> QED BY <1>2, <1>3 DEF Destroy, RefuseAndKeep

\* What others do.
LEMMA OtherSteps ==
    ASSUME RemovalInv, Other
    PROVE  RemovalInv' /\ (Exists("theirs") => Exists("theirs")')
<1> USE DEF RemovalInv
<1>0. UNCHANGED <<pc, reg, root, cleanupRoot, result>>
  BY DEF Other, Edits, CommitsOrSwitches, MovesOursAside, PutsTheirs, Moves
<1>1. CASE Edits \/ CommitsOrSwitches
  <2>1. /\ UNCHANGED at
        /\ Exists("ours")
        /\ Unwatched => late'
    BY <1>1 DEF Edits, CommitsOrSwitches
  <2>2. OursIsOne' /\ (\A thing \in Things : Exists(thing)' <=> Exists(thing))
    BY <2>1 DEF OursIsOne, Exists
  <2>3. Exists("ours")'
    BY <2>1, <2>2 DEF Things
  <2>4. NothingUnseen' /\ WorkSurvives'
    BY <2>1, <2>3, <1>0 DEF NothingUnseen, Unwatched, WorkSurvives
  <2> QED BY <2>1, <2>2, <2>4, <1>0 DEF ShapeOK, WhatIsDeleted, Isolated,
             Unregistered, Things
<1>2. CASE MovesOursAside
  <2>1. /\ at["public"] = "ours" /\ at' = Renamed("public", "aside")
        /\ UNCHANGED <<edited, moved, late>>
    BY <1>2 DEF MovesOursAside
  <2>2. /\ at' \in [Places -> Things]
        /\ at'["aside"] = "ours" /\ at'["public"] = "none"
        /\ \A p \in {"owned", "destroy"} : at'[p] = at[p]
    BY <2>1 DEF Renamed, ShapeOK, Places, Things
  <2>3. \A p \in Places : at[p] = "ours" => p = "public"
    BY <2>1 DEF OursIsOne, Places
  <2>4. OursIsOne'
    BY <2>2, <2>3 DEF OursIsOne, Places
  <2>5. Exists("ours") /\ Exists("ours")'
    BY <2>1, <2>2 DEF Exists, Places
  <2>6. Exists("theirs") => Exists("theirs")'
    BY <2>1, <2>2 DEF Exists, Places, ShapeOK
  <2>7. pc # "isolate" /\ pc \notin Isolated
    BY <2>3 DEF WhatIsDeleted, Places
  <2> QED BY <2>2, <2>4, <2>5, <2>6, <2>7, <1>0 DEF ShapeOK, WhatIsDeleted,
             NothingUnseen, Unwatched, Isolated, WorkSurvives, Unregistered
<1>3. CASE PutsTheirs
  <2>1. /\ at["public"] = "none" /\ at' = [at EXCEPT !["public"] = "theirs"]
        /\ ~Exists("theirs")
        /\ UNCHANGED <<edited, moved, late>>
    BY <1>3 DEF PutsTheirs
  <2>2. /\ at' \in [Places -> Things]
        /\ at'["public"] = "theirs"
        /\ \A p \in Places : p # "public" => at'[p] = at[p]
    BY <2>1 DEF ShapeOK, Places, Things
  <2>3. OursIsOne' /\ (Exists("ours")' <=> Exists("ours"))
    BY <2>1, <2>2 DEF OursIsOne, Exists
  <2>4. at'["owned"] = at["owned"] /\ at'["destroy"] = at["destroy"]
    BY <2>2 DEF Places
  <2> QED BY <2>1, <2>2, <2>3, <2>4, <1>0 DEF ShapeOK, WhatIsDeleted,
             NothingUnseen, Unwatched, Isolated, WorkSurvives, Unregistered
<1> QED BY <1>1, <1>2, <1>3 DEF Other

\* Whoever acts, the invariant is kept, and a directory of somebody else's too.
LEMMA NextKeeps ==
    ASSUME RemovalInv, [RemovalNext]_removalVars
    PROVE  RemovalInv' /\ (Exists("theirs") => Exists("theirs")')
<1>1. CASE /\ Inspect \/ Identify \/ Repair \/ Revalidate \/ RepairRestored
                \/ Look \/ Unregister \/ LookAgain \/ Return
           /\ UNCHANGED at
  <2>1. Exists("theirs") => Exists("theirs")'
    BY <1>1 DEF Exists
  <2> QED BY <2>1, <1>1, StillCalls
<1>2. CASE Detach \/ PutBack \/ Restore \/ Isolate
  <2>1. /\ at \in [Places -> Things]
        /\ {"public", "owned", "destroy"} \subseteq Places
    BY DEF RemovalInv, ShapeOK, Places
  <2>2. CASE UNCHANGED at
    BY <2>2, <1>2, RenamingCalls DEF Exists
  <2>3. ASSUME NEW from \in Places, NEW to \in Places, from # to,
               RenameNoReplace(from, to), at' = Renamed(from, to)
        PROVE  Exists("theirs") => Exists("theirs")'
    BY <2>1, <2>3, RenameKeeps
  <2>4. Exists("theirs") => Exists("theirs")'
    BY <1>2, <2>1, <2>2, <2>3 DEF Detach, PutBack, Restore, Isolate, Rename, Exists
  <2> QED BY <2>4, <1>2, RenamingCalls
<1>3. CASE Destroy
  BY <1>3, DestroyStep
<1>4. CASE Other
  BY <1>4, OtherSteps
<1>5. CASE UNCHANGED removalVars
  BY <1>5 DEF removalVars, RemovalInv, ShapeOK, OursIsOne, WhatIsDeleted, NothingUnseen,
              Unwatched, Isolated, WorkSurvives, Unregistered, Exists
<1>6. Inspect \/ Identify \/ Repair \/ Revalidate \/ RepairRestored
        \/ Look \/ Unregister \/ LookAgain \/ Return => UNCHANGED at
  BY DEF Inspect, Identify, Repair, Revalidate, RepairRestored, Look,
         Unregister, LookAgain, Return
<1> QED BY <1>1, <1>2, <1>3, <1>4, <1>5, <1>6 DEF RemovalNext, Call

LEMMA InvariantHolds == RemovalSpec => []RemovalInv
<1>1. RemovalInit => RemovalInv
  BY InitInvariant
<1>2. RemovalInv /\ [RemovalNext]_removalVars => RemovalInv'
  BY NextKeeps
<1> QED BY <1>1, <1>2, PTL DEF RemovalSpec

-----------------------------------------------------------------------------
(* The theorems                                                             *)

\* Every variable keeps its type, and the bounds are kept.
THEOREM RemovalTypeCorrect == RemovalSpec => []RemovalTypeOK
<1>1. RemovalInit => RemovalTypeOK
  <2> SUFFICES ASSUME RemovalInit PROVE RemovalTypeOK
    OBVIOUS
  <2>1. at \in [Places -> Things] /\ reg \in Places \cup {"none"}
    BY DEF RemovalInit, Places, Things
  <2>2. faults \in 0..MaxFaults /\ moves \in 0..MaxMoves
    BY BoundsAssumption DEF RemovalInit
  <2>3. /\ edited \in BOOLEAN /\ moved \in BOOLEAN /\ late \in BOOLEAN
        /\ root \in BOOLEAN /\ cleanupRoot \in BOOLEAN
    BY Zenon DEF RemovalInit
  <2> QED BY <2>1, <2>2, <2>3 DEF RemovalInit, RemovalTypeOK
<1>2. RemovalTypeOK /\ RemovalInv' /\ [RemovalNext]_removalVars => RemovalTypeOK'
  <2> SUFFICES ASSUME RemovalTypeOK, RemovalInv', [RemovalNext]_removalVars PROVE RemovalTypeOK'
    OBVIOUS
  <2>1. pc' \in {"inspect", "detach", "identify", "putBack", "repair", "revalidate",
               "restore", "repairRestored", "isolate", "look", "unregister",
               "lookAgain", "destroy", "destroyRaced", "return", "done"}
        /\ at' \in [Places -> Things]
    BY DEF RemovalInv, ShapeOK
  <2>2. CASE Call
    <3>1. faults' \in 0..MaxFaults
      BY <2>2, BoundsAssumption DEF RemovalTypeOK, Call, Inspect, Detach, Identify,
             PutBack, Repair, Revalidate, Restore, RepairRestored, Isolate, Look,
             Unregister, LookAgain, Destroy, Return, Rename, Works, Breaks
    <3>2. UNCHANGED others
      BY <2>2 DEF Call, Inspect, Detach, Identify, PutBack, Repair, Revalidate,
             Restore, RepairRestored, Isolate, Look, Unregister, LookAgain,
             Destroy, Return
    <3>3. reg' \in Places \cup {"none"} /\ root' \in BOOLEAN
      BY <2>2 DEF RemovalTypeOK, Places, Call, Inspect, Detach, Identify, PutBack,
             Repair, Revalidate, Restore, RepairRestored, Isolate, Look,
             Unregister, LookAgain, Destroy, Return
    <3>4. cleanupRoot' \in BOOLEAN /\ result' \in {"none", "removed", "raced", "refused"}
      BY <2>2 DEF RemovalTypeOK, Call, Inspect, Detach, Identify, PutBack, Repair,
             Revalidate, Restore, RepairRestored, Isolate, Look, Unregister,
             LookAgain, Destroy, Return, Rename, Go, Refuse, RefuseAndKeep
    <3> QED BY <2>1, <3>1, <3>2, <3>3, <3>4 DEF RemovalTypeOK, others
  <2>3. CASE Other
    <3>1. moves' \in 0..MaxMoves
      BY <2>3, BoundsAssumption DEF RemovalTypeOK, Other, Edits, CommitsOrSwitches,
             MovesOursAside, PutsTheirs, Moves
    <3>2. edited' \in BOOLEAN /\ moved' \in BOOLEAN /\ late' \in BOOLEAN
      BY <2>3, Zenon DEF RemovalTypeOK, Other, Edits, CommitsOrSwitches, MovesOursAside,
             PutsTheirs
    <3>3. UNCHANGED <<reg, root, cleanupRoot, result, faults>>
      BY <2>3 DEF Other, Edits, CommitsOrSwitches, MovesOursAside, PutsTheirs, Moves
    <3> QED BY <2>1, <3>1, <3>2, <3>3 DEF RemovalTypeOK
  <2>4. CASE UNCHANGED removalVars
    BY <2>4 DEF removalVars, RemovalTypeOK
  <2> QED BY <2>2, <2>3, <2>4 DEF RemovalNext
<1> QED BY <1>1, <1>2, InvariantHolds, PTL DEF RemovalSpec

\* The checkout is never deleted with work the last revalidation did not see.
THEOREM WorkIsKept == RemovalSpec => []WorkSurvives
<1>1. RemovalInv => WorkSurvives
  BY DEF RemovalInv
<1> QED BY <1>1, InvariantHolds, PTL

\* No step deletes a directory the transaction did not create.
THEOREM TheirsIsKept == RemovalSpec => TheirsSurvives
<1>1. RemovalInv /\ [RemovalNext]_removalVars => [Exists("theirs") => Exists("theirs")']_removalVars
  BY NextKeeps
<1> QED BY <1>1, InvariantHolds, PTL DEF RemovalSpec, TheirsSurvives

\* A removal that reports success left nothing of its own: no checkout, no
\* registration, no quarantine.
THEOREM SuccessIsWhole == RemovalSpec => []SuccessIsComplete
<1>1. RemovalInv => SuccessIsComplete
  BY DEF RemovalInv, Unregistered, SuccessIsComplete
<1> QED BY <1>1, InvariantHolds, PTL

-----------------------------------------------------------------------------
(* The hook runs                                                            *)


Jobs == [cmd: {"none", "create", "retry"}, plan: Plans \cup {None},
         rec: Drafts \cup {None}, pc: Holding \cup Ended \cup {"idle", "lock"}]

Types ==
    /\ config \in Sources /\ baseline \in Commits /\ state \in Commits \cup {None}
    /\ job \in [Procs -> Jobs]
    /\ record \in Records \cup {None}
    /\ since \in SUBSET (1..Hooks)
    /\ \A p \in Procs : job[p].pc \in Holding \cup {"lock"} => job[p].plan \in Plans

Exclusive == \A p, q \in Procs : Holds(p) /\ Holds(q) => p = q

\* Where the record in memory is the one on disk.
OnDisk == {"recheck", "restart", "loop", "launch", "hook", "failing", "verifyFinal", "remove"}

\* What the holder of the lock knows of the record.
Phase(p) ==
    /\ At(p, "begin") => record = None
    /\ job[p].pc \in OnDisk => record # None /\ record = job[p].rec
    /\ At(p, "recheck") => job[p].rec.state # "finalizing"
    /\ At(p, "restart") => job[p].rec.state = "failed"
    /\ job[p].pc \in {"loop", "launch", "hook", "failing"} => job[p].rec.state = "running"
    /\ job[p].pc \in {"verifyFinal", "remove"} => job[p].rec.state = "finalizing"
    /\ job[p].pc \in {"progress", "finish"} =>
          /\ record # None /\ record.state = "running"
          /\ job[p].rec = Advance(record)
          /\ job[p].rec.next \in since
    /\ At(p, "progress") => job[p].rec.next < Hooks
    /\ At(p, "finish") => job[p].rec.next = Hooks
    /\ At(p, "restore") =>
          /\ job[p].rec \in Records /\ job[p].rec.state = "finalizing"
          /\ record \in {None, job[p].rec}
          /\ since = 1..Hooks

HooksInv == Types /\ Exclusive /\ RecordIsTrue /\ \A p \in Procs : Phase(p)

-----------------------------------------------------------------------------
(* Setting one process's entry                                              *)

LEMMA SetJob ==
    ASSUME job \in [Procs -> Jobs], NEW p \in Procs, NEW where, NEW rec, Set(p, where, rec)
    PROVE  /\ job' = [job EXCEPT ![p] = [job[p] EXCEPT !.pc = where, !.rec = rec]]
           /\ job'[p].pc = where /\ job'[p].rec = rec
           /\ job'[p].cmd = job[p].cmd /\ job'[p].plan = job[p].plan
           /\ (where \in Holding \cup Ended \cup {"idle", "lock"} /\ rec \in Drafts \cup {None})
                  => job'[p] \in Jobs
           /\ \A q \in Procs \ {p} : job'[q] = job[q]
           /\ DOMAIN job' = Procs /\ job' = [q \in Procs |-> job'[q]]
BY DEF Set, Jobs

\* A step of one process that keeps the others away from the record, and its own
\* part of the invariant, keeps the invariant.
LEMMA OneProcess ==
    ASSUME HooksInv, NEW p \in Procs,
           job' = [q \in Procs |-> job'[q]], job'[p] \in Jobs,
           \A q \in Procs \ {p} : job'[q] = job[q],
           job'[p].pc \in Holding \cup {"lock"} => job'[p].plan \in Plans,
           job'[p].pc \in Holding => Holds(p) \/ LockIsFree,
           Holds(p) \/ UNCHANGED <<record, since>>,
           config' \in Sources, baseline' \in Commits, state' \in Commits \cup {None},
           record' \in Records \cup {None}, since' \in SUBSET (1..Hooks),
           RecordIsTrue', Phase(p)'
    PROVE  HooksInv'
<1>1. Types'
  BY DEF HooksInv, Types
<1>2. Exclusive'
  BY DEF HooksInv, Exclusive, Holds, LockIsFree
<1>3. ASSUME NEW q \in Procs PROVE Phase(q)'
  <2>1. CASE q = p
    BY <2>1
  <2>2. CASE q # p /\ UNCHANGED <<record, since>>
    BY <2>2 DEF HooksInv, Phase, At
  <2>3. CASE q # p /\ Holds(p)
    <3>1. ~Holds(q) /\ job'[q] = job[q]
      BY <2>3 DEF HooksInv, Exclusive
    <3> QED BY <3>1 DEF Holds, Holding, OnDisk, Phase, At
  <2> QED BY <2>1, <2>2, <2>3
<1> QED BY <1>1, <1>2, <1>3 DEF HooksInv


-----------------------------------------------------------------------------
(* The steps of a command                                                   *)

\* What every record on disk satisfies.
LEMMA RecordFacts ==
    ASSUME NEW rec \in Records
    PROVE  /\ rec \in Drafts /\ rec # None
           /\ rec.next \in 0..Hooks /\ rec.plan \in Plans
           /\ rec.state \in {"running", "failed", "finalizing"}
           /\ rec.state = "finalizing" <=> rec.next = Hooks
           /\ rec.state # "finalizing" => rec.next + 1 \in 1..Hooks
BY HooksAssumption, NoRecordAssumption DEF Records, Drafts, ValidRecord

\* The steps before the first hook that change nothing but where the command is.
LEMMA LookSteps ==
    ASSUME HooksInv, NEW p \in Procs,
           TakeLock(p) \/ LockFails(p) \/ LookAbsent(p) \/ LookFails(p)
    PROVE  HooksInv'
<1>1. PICK where \in {"look", "begin", "incomplete"}, rec \in Drafts \cup {None} :
        /\ Set(p, where, rec)
        /\ UNCHANGED <<world, record, ghosts>>
        /\ where = "begin" => Holds(p) /\ record = None
        /\ where = "look" => LockIsFree
        /\ job[p].pc \in {"lock", "look"}
  BY DEF TakeLock, LockFails, LookAbsent, LookFails, Goto, End, At, Holds, Holding, HooksInv, Types, Jobs, world, ghosts
<1>2. UNCHANGED <<config, baseline, state, record, since>>
  BY <1>1, SMTT(30) DEF world, ghosts
<1>3. /\ job' = [q \in Procs |-> job'[q]] /\ job'[p] \in Jobs
      /\ job'[p].pc = where /\ job'[p].plan = job[p].plan
      /\ \A q \in Procs \ {p} : job'[q] = job[q]
  BY <1>1, SetJob DEF HooksInv, Types, Holding, Ended
<1>4. job[p].plan \in Plans
  BY <1>1 DEF HooksInv, Types, Holding
<1>5. Phase(p)'
  BY <1>1, <1>2, <1>3 DEF Phase, At, OnDisk
<1>6. RecordIsTrue'
  BY <1>2 DEF HooksInv, RecordIsTrue
<1>7. job'[p].pc \in Holding => Holds(p) \/ LockIsFree
  BY <1>1, <1>3 DEF Holding
<1> QED BY <1>2, <1>3, <1>4, <1>5, <1>6, <1>7, OneProcess DEF HooksInv, Types

\* A command ends, or is killed, with the record as it is.
LEMMA Ends ==
    ASSUME HooksInv, NEW p \in Procs, NEW where \in Ended, NEW rec \in Drafts \cup {None},
           Set(p, where, rec), UNCHANGED <<config, baseline, state, record, since>>
    PROVE  HooksInv'
<1>1. /\ job' = [q \in Procs |-> job'[q]] /\ job'[p] \in Jobs /\ job'[p].pc = where
      /\ \A q \in Procs \ {p} : job'[q] = job[q]
  BY SetJob DEF HooksInv, Types
<1>2. Phase(p)'
  BY <1>1 DEF Phase, At, OnDisk, Ended
<1>3. job'[p].pc \notin Holding \cup {"lock"}
  BY <1>1 DEF Ended, Holding
<1>4. RecordIsTrue'
  BY DEF HooksInv, RecordIsTrue
<1> QED BY <1>1, <1>2, <1>3, <1>4, OneProcess, SMTT(30) DEF HooksInv, Types

LEMMA LookFoundStep ==
    ASSUME HooksInv, NEW p \in Procs, LookFound(p)
    PROVE  HooksInv'
<1>1. record \in Records /\ Holds(p) /\ job[p].plan \in Plans /\ job[p] \in Jobs
  BY DEF LookFound, At, Holds, Holding, HooksInv, Types
<1>2. UNCHANGED <<config, baseline, state, record, since>>
  BY DEF LookFound, world, ghosts
<1>3. CASE End(p, "incomplete")
  BY <1>2, <1>3, Ends DEF End, Ended
<1>4. CASE job' = [job EXCEPT ![p].plan = PlanUnderLock(p), ![p].rec = record, ![p].pc = After(p)]
  <2>1. PlanUnderLock(p) \in Plans
    BY <1>1 DEF PlanUnderLock, PlanOf, Plans, HooksInv, Types
  <2>2. /\ After(p) \in {"verifyFinal", "recheck", "restart", "loop"}
        /\ After(p) = "verifyFinal" => record.state = "finalizing"
        /\ After(p) = "recheck" => record.state # "finalizing"
        /\ After(p) = "restart" => record.state = "failed"
        /\ After(p) = "loop" => record.state = "running"
    BY <1>1, RecordFacts DEF After
  <2>3. record \in Drafts /\ record # None
    BY <1>1, RecordFacts
  <2>4. /\ job' = [q \in Procs |-> job'[q]] /\ job'[p].plan = PlanUnderLock(p)
        /\ job'[p].rec = record /\ job'[p].pc = After(p) /\ job'[p].cmd = job[p].cmd
        /\ \A q \in Procs \ {p} : job'[q] = job[q]
    BY <1>4, ZenonT(60) DEF HooksInv, Types, Jobs
  <2>5. job'[p] \in Jobs
    <3>1. job'[p] = [job[p] EXCEPT !.plan = PlanUnderLock(p), !.rec = record, !.pc = After(p)]
      BY <1>4 DEF HooksInv, Types
    <3>2. After(p) \in Holding
      BY <2>2 DEF Holding
    <3> QED BY <1>1, <2>1, <2>3, <3>1, <3>2 DEF Jobs
  <2>6. Phase(p)'
    BY <1>2, <2>2, <2>3, <2>4 DEF Phase, At, OnDisk
  <2>7. RecordIsTrue'
    BY <1>2 DEF HooksInv, RecordIsTrue
  <2> QED BY <1>1, <1>2, <2>1, <2>4, <2>5, <2>6, <2>7, OneProcess DEF HooksInv, Types
<1> QED BY <1>3, <1>4 DEF LookFound

\* The steps that change nothing but where the holder of a record on disk is.
LEMMA RunSteps ==
    ASSUME HooksInv, NEW p \in Procs,
           Recheck(p) \/ Verify(p) \/ Launch(p) \/ HookFails(p) \/ VerifyFinal(p)
    PROVE  HooksInv'
<1>1. /\ job[p].pc \in OnDisk /\ Holds(p)
      /\ UNCHANGED <<config, baseline, state, record, since>>
  BY DEF Recheck, Verify, Launch, HookFails, VerifyFinal, At, OnDisk, Holds, Holding, world, ghosts
<1>2. /\ Phase(p) /\ record # None /\ record = job[p].rec /\ record \in Records
  BY <1>1 DEF HooksInv, Types, Phase
<1>3. /\ record \in Drafts /\ record.state \in {"running", "failed", "finalizing"}
  BY <1>2, RecordFacts
<1>4. CASE End(p, "incomplete")
  BY <1>1, <1>4, Ends DEF End, Ended
<1>5. CASE \E where \in {"restart", "loop", "launch", "hook", "failing", "remove"} :
             /\ Goto(p, where)
             /\ where = "restart" => record.state = "failed"
             /\ where \in {"loop", "launch", "hook", "failing"} => record.state = "running"
             /\ where = "remove" => record.state = "finalizing"
  <2>1. PICK where \in {"restart", "loop", "launch", "hook", "failing", "remove"} :
             /\ Goto(p, where)
             /\ where = "restart" => record.state = "failed"
             /\ where \in {"loop", "launch", "hook", "failing"} => record.state = "running"
             /\ where = "remove" => record.state = "finalizing"
    BY <1>5, SMTT(30)
  <2>2. /\ job' = [q \in Procs |-> job'[q]] /\ job'[p] \in Jobs
        /\ job'[p].pc = where /\ job'[p].rec = record /\ job'[p].plan = job[p].plan
        /\ \A q \in Procs \ {p} : job'[q] = job[q]
    BY <1>2, <1>3, <2>1, SetJob, ZenonT(60) DEF Goto, HooksInv, Types, Holding
  <2>3. Phase(p)'
    BY <1>1, <1>2, <2>1, <2>2 DEF Phase, At, OnDisk
  <2>4. RecordIsTrue'
    BY <1>1 DEF HooksInv, RecordIsTrue
  <2>5. job[p].plan \in Plans
    BY <1>1 DEF HooksInv, Types, Holds
  <2> QED BY <1>1, <2>2, <2>3, <2>4, <2>5, OneProcess DEF HooksInv, Types
<1> QED
  <2>1. CASE Recheck(p)
    BY <2>1, <1>2, <1>3, <1>4, <1>5 DEF Recheck, Phase, At
  <2>2. CASE Verify(p)
    BY <2>2, <1>2, <1>4, <1>5 DEF Verify, Phase, At
  <2>3. CASE Launch(p)
    BY <2>3, <1>2, <1>5 DEF Launch, Phase, At
  <2>4. CASE HookFails(p)
    BY <2>4, <1>2, <1>5 DEF HookFails, Phase, At
  <2>5. CASE VerifyFinal(p)
    BY <2>5, <1>2, <1>4, <1>5 DEF VerifyFinal, Phase, At
  <2> QED BY <2>1, <2>2, <2>3, <2>4, <2>5

-----------------------------------------------------------------------------
(* The steps that write the record                                          *)

\* A write, whether it succeeds, fails before the replacement or after it.
LEMMA Writes ==
    ASSUME HooksInv, NEW p \in Procs, NEW rec \in Records, NEW where \in {"loop", "remove", "incomplete"},
           Write(p, rec, where), Holds(p), UNCHANGED <<config, baseline, state>>,
           where = "loop" => rec.state = "running",
           where = "remove" => rec.state = "finalizing",
           since' \in SUBSET (1..Hooks), 1..rec.next \subseteq since',
           record # None => 1..record.next \subseteq since'
    PROVE  HooksInv'
<1>1. rec \in Drafts /\ rec # None
  BY RecordFacts
<1>2. job[p].plan \in Plans
  BY DEF HooksInv, Types, Holds
<1>3. record' \in {record, rec}
  BY DEF Write
<1>4. RecordIsTrue' /\ record' \in Records \cup {None}
  BY <1>3 DEF RecordIsTrue, HooksInv, Types
<1>5. PICK to \in {where, "incomplete"}, held \in Drafts \cup {None} :
        Set(p, to, held) /\ (to # "incomplete" => record' = rec /\ held = rec)
  BY <1>1 DEF Write, End
<1>6. /\ job' = [q \in Procs |-> job'[q]] /\ job'[p] \in Jobs
      /\ job'[p].pc = to /\ job'[p].rec = held /\ job'[p].plan = job[p].plan
      /\ \A q \in Procs \ {p} : job'[q] = job[q]
  <2>1. to \in Holding \cup Ended
    BY <1>5 DEF Holding, Ended
  <2>2. job \in [Procs -> Jobs]
    BY DEF HooksInv, Types
  <2> QED BY <1>5, <2>1, <2>2, SetJob, ZenonT(60)
<1>7. Phase(p)'
  BY <1>1, <1>5, <1>6 DEF Phase, At, OnDisk
<1> QED BY <1>2, <1>4, <1>6, <1>7, OneProcess DEF HooksInv, Types

LEMMA WriteSteps ==
    ASSUME HooksInv, NEW p \in Procs,
           Begin(p) \/ Restart(p) \/ Progress(p) \/ FailRecord(p) \/ Finish(p) \/ RestoreRecord(p)
    PROVE  HooksInv'
<1>1. /\ UNCHANGED <<config, baseline, state>> /\ Holds(p) /\ Phase(p) /\ Types
      /\ job[p].plan \in Plans
  BY DEF Begin, Restart, Progress, FailRecord, Finish, RestoreRecord, world, Holds, Holding, At, HooksInv, Types
<1>2. record # None => record \in Records /\ 1..record.next \subseteq since
  BY DEF HooksInv, Types, RecordIsTrue
<1>3. CASE Begin(p)
  <2>1. Fresh(job[p].plan) \in Records
    BY <1>1, HooksAssumption DEF Fresh, Records, Drafts, ValidRecord
  <2>2. record = None /\ since' \in SUBSET (1..Hooks)
    BY <1>1, <1>3 DEF Begin, Phase, Types
  <2>3. Fresh(job[p].plan).next = 0 /\ Fresh(job[p].plan).state = "running"
    BY DEF Fresh
  <2>4. 1..0 \subseteq since'
    OBVIOUS
  <2> QED BY <1>1, <1>3, <2>1, <2>2, <2>3, <2>4, Writes DEF Begin
<1>4. CASE Restart(p)
  <2> DEFINE rec == [job[p].rec EXCEPT !.state = "running"]
  <2>1. record # None /\ record = job[p].rec /\ record.state = "failed" /\ UNCHANGED since
    BY <1>1, <1>4 DEF Restart, Phase, At, OnDisk, ghosts
  <2>2. rec \in Records /\ rec.next = record.next /\ rec.state = "running"
    BY <1>2, <2>1, RecordFacts DEF Records, Drafts, ValidRecord
  <2> QED BY <1>1, <1>2, <1>4, <2>1, <2>2, Writes DEF Restart, Types
<1>5. CASE FailRecord(p)
  <2> DEFINE rec == [job[p].rec EXCEPT !.state = "failed"]
  <2>1. record # None /\ record = job[p].rec /\ record.state = "running" /\ UNCHANGED since
    BY <1>1, <1>5 DEF FailRecord, Phase, At, OnDisk, ghosts
  <2>2. rec \in Records /\ rec.next = record.next
    BY <1>2, <2>1, RecordFacts DEF Records, Drafts, ValidRecord
  <2> QED BY <1>1, <1>2, <1>5, <2>1, <2>2, Writes DEF FailRecord, Types
<1>6. CASE Progress(p) \/ Finish(p)
  <2>1. /\ record # None /\ record.state = "running" /\ UNCHANGED since
        /\ job[p].rec = [record EXCEPT !.next = @ + 1] /\ job[p].rec.next \in since
    BY <1>1, <1>6 DEF Progress, Finish, Phase, At, ghosts, Advance
  <2>2. /\ record.next \in 0..Hooks /\ record.next # Hooks /\ job[p].rec.next = record.next + 1
        /\ 1..job[p].rec.next \subseteq since
    BY <1>2, <2>1, RecordFacts, HooksAssumption DEF Records, Drafts
  <2>3. CASE Progress(p)
    <3>1. job[p].rec.next < Hooks
      BY <1>1, <2>3 DEF Progress, Phase
    <3>2. job[p].rec \in Records /\ job[p].rec.state = "running"
      BY <1>2, <2>1, <2>2, <3>1, HooksAssumption DEF Records, Drafts, ValidRecord
    <3> QED BY <1>1, <1>2, <2>1, <2>2, <2>3, <3>2, Writes DEF Progress, Types
  <2>4. CASE Finish(p)
    <3> DEFINE rec == [job[p].rec EXCEPT !.state = "finalizing"]
    <3>1. job[p].rec.next = Hooks
      BY <1>1, <2>4 DEF Finish, Phase
    <3>2. job[p].rec \in Drafts
      BY <1>2, <2>1, <2>2, <3>1, HooksAssumption DEF Records, Drafts
    <3>3. rec \in Records /\ rec.state = "finalizing" /\ rec.next = job[p].rec.next
      BY <3>1, <3>2 DEF Records, Drafts, ValidRecord
    <3> QED BY <1>1, <1>2, <2>1, <2>2, <2>4, <3>3, Writes DEF Finish, Types
  <2> QED BY <1>6, <2>3, <2>4
<1>7. CASE RestoreRecord(p)
  <2>1. job[p].rec \in Records /\ since = 1..Hooks /\ UNCHANGED since
    BY <1>1, <1>7 DEF RestoreRecord, Phase, ghosts
  <2>2. job[p].rec.next \in 0..Hooks
    BY <2>1, RecordFacts
  <2>3. 1..job[p].rec.next \subseteq since
    BY <2>1, <2>2, HooksAssumption
  <2> QED BY <1>1, <1>2, <1>7, <2>1, <2>3, Writes DEF RestoreRecord, Types
<1> QED BY <1>3, <1>4, <1>5, <1>6, <1>7

LEMMA HookSucceedsStep ==
    ASSUME HooksInv, NEW p \in Procs, HookSucceeds(p)
    PROVE  HooksInv'
<1>1. /\ Holds(p) /\ Phase(p) /\ UNCHANGED <<config, baseline, state, record>>
      /\ record # None /\ record = job[p].rec /\ record.state = "running" /\ record \in Records
  BY DEF HookSucceeds, At, Holds, Holding, HooksInv, Types, Phase, OnDisk, world
<1>2. /\ record.next \in Nat /\ record.next + 1 \in 1..Hooks /\ record \in Drafts
      /\ since' = since \cup {record.next + 1}
  BY <1>1, RecordFacts DEF HookSucceeds, Current
<1> DEFINE rec == [record EXCEPT !.next = @ + 1]
           where == IF rec.next < Hooks THEN "progress" ELSE "finish"
<1>3. /\ rec \in Drafts /\ rec.next = record.next + 1 /\ rec = Advance(record)
      /\ Set(p, where, rec)
  BY <1>1, <1>2, HooksAssumption, SMTT(30) DEF HookSucceeds, Advance, Drafts
<1>4. /\ job' = [q \in Procs |-> job'[q]] /\ job'[p] \in Jobs
      /\ job'[p].pc = where /\ job'[p].rec = rec /\ job'[p].plan = job[p].plan
      /\ \A q \in Procs \ {p} : job'[q] = job[q]
  <2>1. where \in Holding
    BY DEF Holding
  <2>2. job \in [Procs -> Jobs]
    BY DEF HooksInv, Types
  <2> HIDE DEF where, rec
  <2> QED BY <1>3, <2>1, <2>2, SetJob, ZenonT(60)
<1>5. Phase(p)'
  BY <1>1, <1>2, <1>3, <1>4, HooksAssumption DEF Phase, At, OnDisk, Advance
<1>6. RecordIsTrue'
  BY <1>1, <1>2 DEF HooksInv, RecordIsTrue
<1>7. job[p].plan \in Plans
  BY <1>1 DEF HooksInv, Types, Holds
<1> QED BY <1>1, <1>2, <1>4, <1>5, <1>6, <1>7, OneProcess DEF HooksInv, Types

\* Where a record says finalizing, every hook succeeded.
LEMMA FinalRanAll ==
    ASSUME HooksInv, record # None, record.state = "finalizing"
    PROVE  since = 1..Hooks
<1>1. record.next = Hooks
  BY RecordFacts DEF HooksInv, Types
<1> QED BY <1>1 DEF HooksInv, RecordIsTrue, Types

LEMMA RemoveStep ==
    ASSUME HooksInv, NEW p \in Procs, Remove(p)
    PROVE  HooksInv'
<1>1. /\ Holds(p) /\ Phase(p) /\ UNCHANGED <<config, baseline, state, since>>
      /\ record # None /\ record = job[p].rec /\ record.state = "finalizing" /\ record \in Records
      /\ job[p].plan \in Plans
  BY DEF Remove, At, Holds, Holding, HooksInv, Types, Phase, OnDisk, world, ghosts
<1>2. since = 1..Hooks /\ record \in Drafts
  BY <1>1, FinalRanAll, RecordFacts
<1>3. record' \in {record, None}
  BY DEF Remove, Unlink
<1>4. RecordIsTrue'
  BY <1>1, <1>3 DEF HooksInv, RecordIsTrue
<1>5. PICK where \in {"completed", "restore"}, rec \in {None, record} :
        Set(p, where, rec) /\ (where = "restore" => rec = record)
  BY <1>1 DEF Remove, Unlink, End, Goto
<1>6. /\ job' = [q \in Procs |-> job'[q]] /\ job'[p] \in Jobs
      /\ job'[p].pc = where /\ job'[p].rec = rec /\ job'[p].plan = job[p].plan
      /\ \A q \in Procs \ {p} : job'[q] = job[q]
  <2>1. where \in Holding \cup Ended /\ rec \in Drafts \cup {None}
    BY <1>2, <1>5 DEF Holding, Ended
  <2>2. job \in [Procs -> Jobs]
    BY DEF HooksInv, Types
  <2> QED BY <1>5, <2>1, <2>2, SetJob, ZenonT(60)
<1>7. Phase(p)'
  BY <1>1, <1>2, <1>3, <1>5, <1>6 DEF Phase, At, OnDisk
<1> QED BY <1>1, <1>3, <1>4, <1>6, <1>7, OneProcess DEF HooksInv, Types

-----------------------------------------------------------------------------
(* The commands, the environment, and the whole next-state relation         *)

LEMMA CommandSteps ==
    ASSUME HooksInv, NEW p \in Procs, Command(p)
    PROVE  HooksInv'
<1>1. /\ UNCHANGED <<config, baseline, record, since>> /\ state' \in Commits \cup {None}
      /\ job \in [Procs -> Jobs]
  BY DEF Command, Create, CreateWithoutHooks, Retry, world, ghosts, HooksInv, Types
<1>2. PICK cmd \in {"create", "retry"}, plan \in Plans \cup {None}, where \in Ended \cup {"lock"} :
        /\ job' = [job EXCEPT ![p] = [cmd |-> cmd, plan |-> plan, rec |-> None, pc |-> where]]
        /\ where = "lock" => plan \in Plans
  <2>1. CASE Create(p)
    <3>1. Preflight \in Plans
      BY DEF Preflight, PlanOf, Plans, HooksInv, Types
    <3> QED BY <2>1, <3>1 DEF Create, Start
  <2>2. CASE CreateWithoutHooks(p)
    <3>1. job' = [job EXCEPT ![p] = [cmd |-> "create", plan |-> None, rec |-> None, pc |-> "completed"]]
      BY <2>2 DEF CreateWithoutHooks, Start
    <3>2. "create" \in {"create", "retry"} /\ None \in Plans \cup {None} /\ "completed" \in Ended \cup {"lock"}
      BY DEF Ended
    <3>3. "completed" # "lock"
      OBVIOUS
    <3> QED BY <3>1, <3>2, <3>3
  <2>3. CASE Retry(p)
    <3>1. PlanOf(config, state) \in Plans
      BY <2>3 DEF Retry, PlanOf, Plans, HooksInv, Types
    <3> QED BY <2>3, <3>1 DEF Retry, Start, Ended
  <2> QED BY <2>1, <2>2, <2>3 DEF Command
<1>3. /\ job' = [q \in Procs |-> job'[q]] /\ job'[p].pc = where /\ job'[p].plan = plan
      /\ job'[p] \in Jobs /\ \A q \in Procs \ {p} : job'[q] = job[q]
  BY <1>1, <1>2 DEF Jobs
<1>4. where \notin Holding
  BY <1>2 DEF Holding, Ended
<1>5. Phase(p)'
  BY <1>3, <1>4 DEF Phase, At, OnDisk, Holding
<1>6. RecordIsTrue'
  BY <1>1 DEF HooksInv, RecordIsTrue
<1> QED BY <1>1, <1>2, <1>3, <1>4, <1>5, <1>6, OneProcess DEF HooksInv, Types

LEMMA StepKeeps ==
    ASSUME HooksInv, NEW p \in Procs, Step(p)
    PROVE  HooksInv'
BY LookSteps, LookFoundStep, RunSteps, WriteSteps, HookSucceedsStep, RemoveStep DEF Step

\* The environment does not touch the record, the runs or what they did.
LEMMA OutsideKeeps ==
    ASSUME HooksInv,
           \/ OrphanEnds \/ EditConfig \/ CommitBaseline
           \/ CommitWorkspace \/ UpdateWorkspace \/ DeleteWorkspace \/ UNCHANGED hookVars
    PROVE  HooksInv'
<1>1. /\ UNCHANGED <<record, job, since>>
      /\ config' \in Sources /\ baseline' \in Commits /\ state' \in Commits \cup {None}
  BY DEF OrphanEnds, EditConfig, CommitBaseline, CommitWorkspace, UpdateWorkspace,
         DeleteWorkspace, Change, hookVars, world, ghosts, HooksInv, Types
<1>2. Types'
  BY <1>1 DEF HooksInv, Types
<1>3. Exclusive' /\ RecordIsTrue'
  BY <1>1 DEF HooksInv, Exclusive, Holds, RecordIsTrue
<1>4. \A p \in Procs : Phase(p)'
  BY <1>1 DEF HooksInv, Phase, At
<1> QED BY <1>2, <1>3, <1>4 DEF HooksInv

LEMMA HooksNextKeeps ==
    ASSUME HooksInv, [HooksNext]_hookVars
    PROVE  HooksInv'
<1>1. ASSUME NEW p \in Procs, Crash(p) PROVE HooksInv'
  <2>1. Set(p, "dead", None) /\ UNCHANGED <<config, baseline, state, record, since>>
    BY <1>1 DEF Crash, End, world
  <2> QED BY <2>1, Ends DEF Ended
<1> QED BY <1>1, CommandSteps, StepKeeps, OutsideKeeps DEF HooksNext

LEMMA InitHolds == HooksInit => HooksInv
<1> SUFFICES ASSUME HooksInit PROVE HooksInv
  OBVIOUS
<1>1. \A p \in Procs : job[p] = Idle
  BY DEF HooksInit
<1>2. Idle \in Jobs /\ Idle.pc = "idle"
  BY DEF Idle, Jobs
<1>3. Types
  BY <1>1, <1>2, FirstAssumption DEF HooksInit, Types, Holding
<1>4. Exclusive /\ RecordIsTrue /\ \A p \in Procs : Phase(p)
  BY <1>1, <1>2 DEF HooksInit, Exclusive, Holds, Holding, RecordIsTrue, Phase, At, OnDisk
<1> QED BY <1>3, <1>4 DEF HooksInv

LEMMA Inductive == HooksSpec => []HooksInv
<1>1. HooksInv /\ [HooksNext]_hookVars => HooksInv'
  BY HooksNextKeeps
<1> QED BY InitHolds, <1>1, PTL DEF HooksSpec

-----------------------------------------------------------------------------
(* The theorems                                                             *)

\* One process at a time runs the hooks of a workspace or touches their record,
\* whatever commands start, fail or are killed (HookRunLock).
THEOREM LockIsExclusive == HooksSpec => []Exclusive
<1>1. HooksInv => Exclusive
  BY DEF HooksInv
<1> QED BY Inductive, <1>1, PTL

\* The record on disk claims only hooks that succeeded since it was created
\* (the writes of Run).
THEOREM RecordIsTrueHolds == HooksSpec => []RecordIsTrue
<1>1. HooksInv => RecordIsTrue
  BY DEF HooksInv
<1> QED BY Inductive, <1>1, PTL

\* While a hook runs, the record on disk is its runner's: running, with this hook
\* next.  So a process killed now leaves the evidence retry needs.
THEOREM RunningIsRecordedHolds == HooksSpec => []RunningIsRecorded
<1>1. HooksInv => RunningIsRecorded
  BY DEF HooksInv, Phase, RunningIsRecorded, At, OnDisk
<1> QED BY Inductive, <1>1, PTL

\* What ProgressIsKept asks of a step.
Kept ==
    \/ record' # None /\ record'.plan = record.plan /\ record'.next >= record.next
    \/ record' = None /\ since = 1..Hooks

\* A write that binds no other plan and lowers no index keeps the record.
LEMMA WriteKeeps ==
    ASSUME record \in Records, NEW p \in Procs, NEW rec, NEW where, Write(p, rec, where), rec # None,
           rec.plan = record.plan, rec.next >= record.next
    PROVE  Kept
<1>1. record # None /\ record.next \in Nat
  BY RecordFacts
<1>2. record' \in {record, rec}
  BY DEF Write
<1> QED BY <1>1, <1>2 DEF Kept

LEMMA StepKeepsProgress ==
    ASSUME HooksInv, NEW p \in Procs, Step(p), record # None
    PROVE  Kept
<1>1. record \in Records /\ Phase(p) /\ record \in Drafts /\ record.next \in 0..Hooks
  BY RecordFacts DEF HooksInv, Types
<1>2. CASE UNCHANGED record
  BY <1>1, <1>2 DEF Kept
<1>3. CASE Begin(p)
  BY <1>1, <1>3 DEF Begin, Phase
<1>4. CASE Restart(p) \/ FailRecord(p)
  <2>1. PICK how \in {"running", "failed"}, where \in {"loop", "incomplete"} :
          Write(p, [job[p].rec EXCEPT !.state = how], where)
    BY <1>4 DEF Restart, FailRecord
  <2>2. job[p].rec = record
    BY <1>1, <1>4 DEF Restart, FailRecord, Phase, At, OnDisk
  <2>3. /\ [record EXCEPT !.state = how] \in Drafts
        /\ [record EXCEPT !.state = how].plan = record.plan
        /\ [record EXCEPT !.state = how].next >= record.next
    BY <1>1, HooksAssumption DEF Drafts
  <2> QED BY <1>1, <2>1, <2>2, <2>3, WriteKeeps, NoRecordAssumption
<1>5. CASE Progress(p) \/ Finish(p)
  <2>1. job[p].rec = [record EXCEPT !.next = @ + 1]
    BY <1>1, <1>5 DEF Progress, Finish, Phase, At, Advance
  <2>2. CASE Progress(p)
    <3>1. job[p].rec # None
      BY <2>1, <1>1, <2>2, HooksAssumption, NoRecordAssumption DEF Progress, Phase, Drafts
    <3> QED BY <1>1, <2>1, <2>2, <3>1, WriteKeeps, HooksAssumption DEF Progress, Drafts
  <2>3. CASE Finish(p)
    <3> DEFINE rec == [job[p].rec EXCEPT !.state = "finalizing"]
    <3>1. job[p].rec.next = Hooks
      BY <1>1, <2>3 DEF Finish, Phase
    <3>2. rec = [record EXCEPT !.next = Hooks, !.state = "finalizing"]
      BY <1>1, <2>1, <3>1 DEF Drafts
    <3> HIDE DEF rec
    <3>3. rec \in Drafts /\ rec.plan = record.plan /\ rec.next = Hooks
      <4>1. Hooks \in 0..Hooks
        BY HooksAssumption
      <4> QED BY <1>1, <3>2, <4>1 DEF Drafts
    <3>4. rec.next >= record.next
      BY <1>1, <3>3, HooksAssumption
    <3> USE DEF rec
    <3> QED BY <1>1, <2>3, <3>3, <3>4, WriteKeeps, NoRecordAssumption DEF Finish
  <2> QED BY <1>5, <2>2, <2>3
<1>6. CASE Remove(p)
  <2>1. record.state = "finalizing" /\ record' \in {record, None}
    BY <1>1, <1>6 DEF Remove, Unlink, Phase, At, OnDisk
  <2> QED BY <1>1, <2>1, FinalRanAll DEF Kept
<1>7. CASE RestoreRecord(p)
  <2>1. record = job[p].rec
    BY <1>1, <1>7 DEF RestoreRecord, Phase
  <2> QED BY <1>1, <1>7, <2>1, WriteKeeps, HooksAssumption DEF RestoreRecord
<1> QED BY <1>2, <1>3, <1>4, <1>5, <1>6, <1>7
  DEF Step, TakeLock, LockFails, LookAbsent, LookFound, LookFails, Recheck, Verify, Launch,
      HookSucceeds, HookFails, VerifyFinal

\* A record is only ever moved forward, under its plan, and removed only when every
\* hook succeeded, whatever commands run, fail or are killed (Run, Resume).
THEOREM ProgressIsKeptHolds == HooksSpec => ProgressIsKept
<1>1. ASSUME HooksInv, [HooksNext]_hookVars, record # None PROVE Kept
  <2>1. CASE UNCHANGED record
    BY <1>1, <2>1, RecordFacts DEF Kept, HooksInv, Types
  <2>2. CASE \E p \in Procs : Step(p)
    BY <1>1, <2>2, StepKeepsProgress
  <2>3. UNCHANGED record \/ \E p \in Procs : Step(p)
    <3>1. ASSUME NEW p \in Procs, Command(p) \/ Crash(p) PROVE UNCHANGED record
      BY <3>1 DEF Command, Create, CreateWithoutHooks, Retry, Crash
    <3>2. CASE UNCHANGED hookVars
      BY <3>2 DEF hookVars
    <3>3. CASE OrphanEnds \/ EditConfig \/ CommitBaseline
      BY <3>3 DEF OrphanEnds, EditConfig, CommitBaseline, Change
    <3>4. CASE CommitWorkspace \/ UpdateWorkspace \/ DeleteWorkspace
      BY <3>4 DEF CommitWorkspace, UpdateWorkspace, DeleteWorkspace, Change
    <3> QED BY <1>1, <3>1, <3>2, <3>3, <3>4 DEF HooksNext
  <2> QED BY <2>1, <2>2, <2>3
<1>2. HooksInv /\ [HooksNext]_hookVars => (record # None => Kept)
  BY <1>1
<1>3. (record # None => Kept) <=>
        (record # None =>
          \/ record' # None /\ record'.plan = record.plan /\ record'.next >= record.next
          \/ record' = None /\ since = 1..Hooks)
  BY DEF Kept
<1> QED BY Inductive, <1>2, <1>3, PTL DEF HooksSpec, ProgressIsKept

\* Process p says completed in this step, of a run that had a plan.
Completes(p) == job[p].pc # "completed" /\ job'[p].pc = "completed" /\ job'[p].plan # None

LEMMA OnlyRemovalCompletes ==
    ASSUME HooksInv, NEW p \in Procs, NEW q \in Procs, Step(q) \/ Command(q) \/ Crash(q), Completes(p)
    PROVE  p = q /\ Remove(p)
<1>1. job \in [Procs -> Jobs]
  BY SMTT(30) DEF HooksInv, Types
<1>2. CASE \E where \in Holding \cup Ended \cup {"lock"} : \E rec :
             Set(q, where, rec) /\ (where = "completed" => Remove(q))
  BY <1>1, <1>2, SetJob, ZenonT(60) DEF Completes
<1>3. CASE Command(q)
  BY <1>1, <1>3 DEF Completes, Command, Create, CreateWithoutHooks, Retry, Start, Jobs
<1>4. CASE LookFound(q)
  <2>1. CASE End(q, "incomplete")
    BY <1>2, <2>1 DEF End, Ended
  <2>2. CASE job' = [job EXCEPT ![q].plan = PlanUnderLock(q), ![q].rec = record, ![q].pc = After(q)]
    <3>1. After(q) # "completed"
      BY DEF After
    <3>2. job'[p].pc = IF p = q THEN After(q) ELSE job[p].pc
      BY <1>1, <2>2 DEF Jobs
    <3> QED BY <3>1, <3>2 DEF Completes
  <2> QED BY <1>4, <2>1, <2>2 DEF LookFound
<1>5. CASE Step(q) /\ ~LookFound(q)
  <2>1. CASE TakeLock(q) \/ LockFails(q) \/ LookAbsent(q) \/ LookFails(q) \/ Recheck(q) \/ Verify(q)
    BY <1>2, <2>1 DEF TakeLock, LockFails, LookAbsent, LookFails, Recheck, Verify, Goto, End, Holding, Ended
  <2>2. CASE Launch(q) \/ HookFails(q) \/ VerifyFinal(q)
    BY <1>2, <2>2 DEF Launch, HookFails, VerifyFinal, Goto, End, Holding, Ended
  <2>3. CASE HookSucceeds(q)
    BY <1>2, <2>3 DEF HookSucceeds, Holding
  <2>4. CASE \E rec : \E where \in {"loop", "remove", "incomplete"} : Write(q, rec, where)
    BY <1>2, <2>4 DEF Write, End, Holding, Ended
  <2>5. CASE Begin(q) \/ Restart(q) \/ Progress(q) \/ FailRecord(q) \/ Finish(q) \/ RestoreRecord(q)
    BY <2>4, <2>5 DEF Begin, Restart, Progress, FailRecord, Finish, RestoreRecord
  <2>6. CASE Remove(q)
    <3>1. PICK where \in {"completed", "restore"} : \E rec : Set(q, where, rec)
      BY <2>6 DEF Remove, Unlink, End, Goto
    <3> QED BY <1>2, <2>6, <3>1 DEF Holding, Ended
  <2> QED BY <1>5, <2>1, <2>2, <2>3, <2>5, <2>6 DEF Step
<1>6. CASE Crash(q)
  BY <1>2, <1>6 DEF Crash, End, Ended
<1> QED BY <1>3, <1>4, <1>5, <1>6

\* A run that says completed had every hook succeed since the record it removed was
\* created, by whichever commands got that far (Run, validHookRetrySuccess).
THEOREM CompletedRanAllHolds == HooksSpec => CompletedRanAll
<1>1. ASSUME HooksInv, [HooksNext]_hookVars, NEW p \in Procs, Completes(p) PROVE since' = 1..Hooks
  <2>1. CASE \E q \in Procs : Step(q) \/ Command(q) \/ Crash(q)
    <3>1. Remove(p)
      BY <1>1, <2>1, OnlyRemovalCompletes
    <3>2. record # None /\ record.state = "finalizing" /\ UNCHANGED since
      BY <1>1, <3>1 DEF Remove, HooksInv, Phase, At, OnDisk, ghosts
    <3> QED BY <1>1, <3>2, FinalRanAll
  <2>2. CASE UNCHANGED job
    BY <1>1, <2>2 DEF Completes
  <2>3. UNCHANGED job \/ \E q \in Procs : Step(q) \/ Command(q) \/ Crash(q)
    BY <1>1 DEF HooksNext, OrphanEnds, EditConfig, CommitBaseline, CommitWorkspace,
                UpdateWorkspace, DeleteWorkspace, Change, hookVars
  <2> QED BY <2>1, <2>2, <2>3
<1>2. HooksInv /\ [HooksNext]_hookVars => \A p \in Procs : Completes(p) => since' = 1..Hooks
  BY <1>1
<1>3. (\A p \in Procs : Completes(p) => since' = 1..Hooks) <=>
        (\A p \in Procs : job[p].pc # "completed" /\ job'[p].pc = "completed" /\ job'[p].plan # None
           => since' = 1..Hooks)
  BY DEF Completes
<1> QED BY Inductive, <1>2, <1>3, PTL DEF HooksSpec, CompletedRanAll

=============================================================================
