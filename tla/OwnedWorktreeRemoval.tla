------------------------- MODULE OwnedWorktreeRemoval -------------------------
(***************************************************************************)
(* removeOwnedCreatedWorktree (service/create.go): a rollback deletes the  *)
(* checkout its transaction created, and nothing else, although anybody    *)
(* may work in it, move it, or put something else at its path meanwhile.   *)
(*                                                                         *)
(* The checkout is renamed into a private quarantine, identified and       *)
(* revalidated there, isolated under a second name, unregistered under the *)
(* first, which Git then finds missing, and deleted.  Module               *)
(* WorkspaceLifecycle has all of it as the one step UndoAdd.               *)
(*                                                                         *)
(* `ours` is the directory the transaction created, `theirs` any other.    *)
(***************************************************************************)
EXTENDS Naturals

CONSTANTS
    MaxFaults,      \* bound on system calls and Git commands that fail
    MaxMoves        \* bound on what others do

ASSUME BoundsAssumption == MaxFaults \in Nat /\ MaxMoves \in Nat

VARIABLES
    pc,             \* the call the function makes next
    at,             \* [Places -> what is there]
    reg,            \* the place Git has the worktree registered at
    edited,         \* ours has dirt the rollback does not own
    moved,          \* ours is on another branch or commit than the receipt's
    late,           \* ours changed in quarantine after it was revalidated
    root,           \* the quarantine directory exists
    cleanupRoot,    \* it is to be removed on return
    result,         \* what the function returns
    faults, moves

removalVars == <<pc, at, reg, edited, moved, late, root, cleanupRoot, result, faults, moves>>

\* The public path, the two names in quarantine, and wherever somebody may have
\* moved the checkout.
Places == {"public", "owned", "destroy", "aside"}
Things == {"none", "ours", "theirs"}

Exists(thing) == \E place \in Places : at[place] = thing

RemovalInit ==
    /\ pc = "inspect"
    /\ at = [place \in Places |-> IF place = "public" THEN "ours" ELSE "none"]
    /\ reg = "public"
    /\ edited = FALSE /\ moved = FALSE /\ late = FALSE
    /\ root = FALSE /\ cleanupRoot = TRUE
    /\ result = "none"
    /\ faults = 0 /\ moves = 0

-----------------------------------------------------------------------------
(* The calls                                                                *)

Works == UNCHANGED faults
Breaks == faults < MaxFaults /\ faults' = faults + 1

others == <<edited, moved, late, moves>>

Go(next) == pc' = next /\ UNCHANGED <<result, cleanupRoot>>

\* The function returns an error; its deferred cleanup comes last.
Refuse == pc' = "return" /\ result' = "refused" /\ UNCHANGED cleanupRoot

\* It returns an error and leaves the quarantine to whoever repairs.
RefuseAndKeep == pc' = "return" /\ result' = "refused" /\ cleanupRoot' = FALSE

\* Mutant: a rename that replaces what is at the target.
RenameReplacing(from, to) == at[from] # "none"

RenameNoReplace(from, to) == at[from] # "none" /\ at[to] = "none"

Renamed(from, to) == [at EXCEPT ![to] = at[from], ![from] = "none"]

\* Lstat, SameFile and the receipt's Git facts at the public path, then MkdirTemp.
Inspect ==
    /\ pc = "inspect"
    /\ \/ /\ at["public"] = "ours" /\ ~moved
          /\ Works
          /\ root' = TRUE
          /\ Go("detach")
       \/ /\ IF at["public"] = "ours" /\ ~moved THEN Breaks ELSE Works
          /\ Refuse
          /\ UNCHANGED root
    /\ UNCHANGED <<at, reg, others>>

\* A rename and the branches it leads to.
Rename(from, to, onSuccess, onFailure) ==
    \/ /\ RenameNoReplace(from, to)
       /\ Works
       /\ at' = Renamed(from, to)
       /\ onSuccess
    \/ /\ IF RenameNoReplace(from, to) THEN Breaks ELSE Works
       /\ onFailure
       /\ UNCHANGED at

Detach ==
    /\ pc = "detach"
    /\ Rename("public", "owned", Go("identify"), Refuse)
    /\ UNCHANGED <<reg, root, others>>

\* What was renamed may not be what was inspected: then it is put back.
Identify ==
    /\ pc = "identify"
    /\ IF at["owned"] = "ours"
       THEN \/ Works /\ Go("repair")
            \/ Breaks /\ Go("putBack")
       ELSE Works /\ Go("putBack")
    /\ UNCHANGED <<at, reg, root, others>>

PutBack ==
    /\ pc = "putBack"
    /\ Rename("owned", "public", Refuse, RefuseAndKeep)
    /\ UNCHANGED <<reg, root, others>>

\* git worktree repair: the registration follows the checkout.
Repair ==
    /\ pc = "repair"
    /\ \/ Works /\ reg' = "owned" /\ Go("revalidate")
       \/ Breaks /\ UNCHANGED reg /\ Go("restore")
    /\ UNCHANGED <<at, root, others>>

\* Mutant: the status is not read again in quarantine.
RevalidateReceiptOnly ==
    /\ pc = "revalidate"
    /\ IF at["owned"] = "ours" /\ ~moved
       THEN \/ Works /\ Go("isolate")
            \/ Breaks /\ Go("restore")
       ELSE Works /\ Go("restore")
    /\ UNCHANGED <<at, reg, root, others>>

\* Receipt, status, receipt again, and capturedWorktreeStillOwned.
Revalidate ==
    /\ pc = "revalidate"
    /\ IF at["owned"] = "ours" /\ ~moved /\ ~edited
       THEN \/ Works /\ Go("isolate")
            \/ Breaks /\ Go("restore")
       ELSE Works /\ Go("restore")
    /\ UNCHANGED <<at, reg, root, others>>

\* restoreCapturedWorktree
Restore ==
    /\ pc = "restore"
    /\ Rename("owned", "public", Go("repairRestored"), RefuseAndKeep)
    /\ UNCHANGED <<reg, root, others>>

RepairRestored ==
    /\ pc = "repairRestored"
    /\ \/ /\ at["public"] = "ours" /\ Works
          /\ reg' = "public"
          /\ Refuse
       \/ /\ IF at["public"] = "ours" THEN Breaks ELSE Works
          /\ UNCHANGED reg
          /\ RefuseAndKeep
    /\ UNCHANGED <<at, root, others>>

Isolate ==
    /\ pc = "isolate"
    /\ Rename("owned", "destroy", Go("look"), Go("restore"))
    /\ UNCHANGED <<reg, root, others>>

\* Something new at the public path: the checkout is kept where it is, and Git
\* is told, if it will listen.
Look ==
    /\ pc = "look"
    /\ IF at["public"] = "none"
       THEN Works /\ Go("unregister") /\ UNCHANGED reg
       ELSE /\ RefuseAndKeep
            /\ \/ Works /\ reg' = "destroy"
               \/ Breaks /\ UNCHANGED reg
    /\ UNCHANGED <<at, root, others>>

\* Mutant: the error of git worktree remove is ignored.
UnregisterIgnoringError ==
    /\ pc = "unregister"
    /\ \/ Works /\ reg' = "none"
       \/ Breaks /\ UNCHANGED reg
    /\ Go("lookAgain")
    /\ UNCHANGED <<at, root, others>>

\* git worktree remove of the first name, where Git finds nothing to delete.
Unregister ==
    /\ pc = "unregister"
    /\ \/ Works /\ reg' = "none" /\ Go("lookAgain")
       \/ Breaks /\ reg' = "destroy" /\ RefuseAndKeep
       \/ /\ faults + 2 <= MaxFaults
          /\ faults' = faults + 2
          /\ UNCHANGED reg
          /\ RefuseAndKeep
    /\ UNCHANGED <<at, root, others>>

\* RemoveAll of the isolated name; what Lstat of the public path says only
\* decides what the caller is told.
LookAgain ==
    /\ pc = "lookAgain"
    /\ Works
    /\ Go(IF at["public"] = "none" THEN "destroy" ELSE "destroyRaced")
    /\ UNCHANGED <<at, reg, root, others>>

Destroy ==
    /\ pc \in {"destroy", "destroyRaced"}
    /\ \/ /\ Works
          /\ at' = [at EXCEPT !["destroy"] = "none"]
          /\ pc' = "return"
          /\ result' = IF pc = "destroy" THEN "removed" ELSE "raced"
          /\ UNCHANGED cleanupRoot
       \/ /\ Breaks
          /\ RefuseAndKeep
          /\ UNCHANGED at
    /\ UNCHANGED <<reg, root, others>>

\* The deferred rmdir of the quarantine, which must be empty.
Return ==
    /\ pc = "return"
    /\ pc' = "done"
    /\ LET empty == at["owned"] = "none" /\ at["destroy"] = "none"
       IN IF ~root \/ ~cleanupRoot
          THEN Works /\ UNCHANGED <<root, result>>
          ELSE \/ empty /\ Works /\ root' = FALSE /\ UNCHANGED result
               \/ /\ IF empty THEN Breaks ELSE Works
                  /\ result' = "refused"
                  /\ UNCHANGED root
    /\ UNCHANGED <<at, reg, cleanupRoot, others>>

-----------------------------------------------------------------------------
(* The others                                                               *)

Moves ==
    /\ pc # "done"
    /\ moves < MaxMoves
    /\ moves' = moves + 1
    /\ UNCHANGED <<pc, reg, root, cleanupRoot, result, faults>>

\* Past the revalidation nothing is looked at in the checkout any more.
Unwatched == pc \in {"isolate", "look", "unregister", "lookAgain", "destroy", "destroyRaced"}

\* Through its path or an open handle, ours can be edited wherever it is.
Edits ==
    /\ Moves
    /\ Exists("ours")
    /\ edited' = TRUE
    /\ late' = (late \/ Unwatched)
    /\ UNCHANGED <<at, moved>>

CommitsOrSwitches ==
    /\ Moves
    /\ Exists("ours")
    /\ moved' = TRUE
    /\ late' = (late \/ Unwatched)
    /\ UNCHANGED <<at, edited>>

MovesOursAside ==
    /\ Moves
    /\ at["public"] = "ours"
    /\ at' = Renamed("public", "aside")
    /\ UNCHANGED <<edited, moved, late>>

PutsTheirs ==
    /\ Moves
    /\ at["public"] = "none"
    /\ ~Exists("theirs")
    /\ at' = [at EXCEPT !["public"] = "theirs"]
    /\ UNCHANGED <<edited, moved, late>>

Call ==
    \/ Inspect \/ Detach \/ Identify \/ PutBack \/ Repair \/ Revalidate
    \/ Restore \/ RepairRestored \/ Isolate \/ Look \/ Unregister
    \/ LookAgain \/ Destroy \/ Return

Other == Edits \/ CommitsOrSwitches \/ MovesOursAside \/ PutsTheirs

RemovalNext == Call \/ Other

RemovalSpec == RemovalInit /\ [][RemovalNext]_removalVars /\ WF_removalVars(Call)

-----------------------------------------------------------------------------
(* Properties                                                               *)

RemovalTypeOK ==
    /\ pc \in {"inspect", "detach", "identify", "putBack", "repair", "revalidate",
               "restore", "repairRestored", "isolate", "look", "unregister",
               "lookAgain", "destroy", "destroyRaced", "return", "done"}
    /\ at \in [Places -> Things]
    /\ reg \in Places \cup {"none"}
    /\ edited \in BOOLEAN /\ moved \in BOOLEAN /\ late \in BOOLEAN
    /\ root \in BOOLEAN /\ cleanupRoot \in BOOLEAN
    /\ result \in {"none", "removed", "raced", "refused"}
    /\ faults \in 0..MaxFaults /\ moves \in 0..MaxMoves

\* A directory the transaction did not create is never deleted, whenever it
\* appears at the public path and however often it is renamed by mistake.
TheirsSurvives == [][Exists("theirs") => Exists("theirs")']_removalVars

\* The checkout is never deleted with edits or commits that were in it when it
\* was revalidated, in quarantine, for the last time.
WorkSurvives == ~Exists("ours") => late \/ (~edited /\ ~moved)

\* Success means what it says: the checkout is gone with its registration, and
\* the quarantine is gone, with nobody's directory caught in it.
SuccessIsComplete ==
    pc = "done" /\ result \in {"removed", "raced"} =>
        /\ ~Exists("ours")
        /\ reg = "none"
        /\ ~root /\ at["owned"] = "none" /\ at["destroy"] = "none"

\* A refusal leaves the checkout somewhere, or only an empty quarantine to
\* remove; and a quarantine with something in it is never left after success.
RefusalLosesNothing ==
    pc = "done" /\ result = "refused" =>
        /\ Exists("ours") \/ root
        /\ at["owned"] # "none" \/ at["destroy"] # "none" => root

\* If no Git command fails and nobody took the checkout away, Git's registration
\* names the place it ended up at, even when the public path was taken.
RegistrationFollows ==
    pc = "done" /\ faults = 0 =>
        \A place \in Places \ {"aside"} : at[place] = "ours" => reg = place

\* The removal returns.
Returns == <>(pc = "done")
=============================================================================
