----------------------------- MODULE DoctorRepair -----------------------------
(***************************************************************************)
(* wtree doctor --fix and wtree import on one workspace (doctor.go,        *)
(* publication_recovery.go, import.go and the path rules of                *)
(* domain/project.go): both walk the directories below the workspace root, *)
(* and make the state file say where the checkouts are.                    *)
(*                                                                         *)
(* A path below the workspace root is a sequence of numbers, so that the   *)
(* lexical order of a directory walk is the order of the numbers.  The     *)
(* checkouts are linked worktrees: Git knows one by the path it was added  *)
(* at, and a checkout works in Git for as long as that registration is     *)
(* there, wherever its directory is.  Trees holds the workspace's own      *)
(* checkout of every repository, named like the repository, and worktrees  *)
(* of the same repositories that belong elsewhere.                         *)
(***************************************************************************)
EXTENDS Naturals, Sequences, FiniteSets, SequencesExt

CONSTANTS
    Order,          \* the repositories, parents first
    Parent,         \* repository -> its parent, or None
    Others,         \* worktrees of other workspaces
    RepoOf,         \* what each of Others is a worktree of
    Mounted,        \* repository -> where create put its checkout
    Names,          \* a path has names in 1..Names
    Depth,          \* and at most Depth of them
    None, Outside,
    MaxMoves, MaxFaults     \* bounds of the exploration

Repos == ToSet(Order)
Trees == Repos \cup Others
Places == UNION {[1..n -> 1..Names] : n \in 1..Depth}

ASSUME OrderAssumption == Order \in Seq(Repos) /\ IsInjective(Order)
ASSUME ParentAssumption ==
    \A i \in DOMAIN Order :
        Parent[Order[i]] = None \/ \E j \in 1..(i - 1) : Order[j] = Parent[Order[i]]

\* What a state file records; mark tells its writers apart.
States == [mark: Nat, entries: [Repos -> [path: Places, mount: Seq(1..Names)]]]

ASSUME PlacesAssumption ==
    /\ Names \in Nat /\ Depth \in Nat
    /\ Mounted \in [Repos -> Places] /\ \A q, r \in Repos : Mounted[q] = Mounted[r] => q = r
    /\ IsFiniteSet(Others) /\ \A o \in Others : RepoOf[o] \in Repos
    /\ None # Outside /\ {None, Outside} \cap Places = {} /\ None \notin Repos \cup States

VARIABLES
    at,         \* where each tree's directory is, Outside the root, or None
    reg,        \* the path Git has registered for it, or None
    state,      \* the workspace state file, or None
    recovery,   \* the workspace has a recovery record
    pc, locked, dry,
    ws,         \* the workspace doctor was called with, then the one it read;
                \* the one import planned
    snap,       \* the state file as captured under the lock
    seen,       \* repository -> where the last walk found it, or None
    repairs,    \* repairs the last report lists
    pruned,     \* repositories pruned so far
    result,
    quiet,      \* ghost: nobody else acted since the capture, in the rollback of an
                \* import since its comparison
    moves, faults

files == <<state, recovery>>
trees == <<at, reg>>
job == <<pc, locked, dry, ws, snap, seen, repairs, pruned, result>>
vars == <<files, trees, job, quiet, moves, faults>>

Of(t) == IF t \in Repos THEN t ELSE RepoOf[t]
Steps == {"idle", "walk", "compare", "collect", "decide", "lock", "capture", "validate",
          "prune", "rewalk", "publish", "restore", "record", "done",
          "preview", "plan", "importLock", "replan", "check", "write", "verify", "withdraw",
          "remove", "gone"}
Running == pc \notin {"idle", "done"}

-----------------------------------------------------------------------------
(* Paths, mounts and what a walk of the workspace finds.                   *)

\* Lexical order of a directory walk: a directory comes before what it holds.
Before(p, q) ==
    \/ IsStrictPrefix(p, q)
    \/ \E i \in DOMAIN p \cap DOMAIN q :
           p[i] < q[i] /\ \A j \in 1..(i - 1) : p[j] = q[j]

\* The path the mounts of a state give a repository.
Effective(entries, r) ==
    IF Parent[r] = None
    THEN entries[r].mount
    ELSE entries[Parent[r]].path \o entries[r].mount

Ancestors[r \in Repos] ==
    IF Parent[r] = None THEN {} ELSE {Parent[r]} \cup Ancestors[Parent[r]]

\* The mounts stay below their parents, no two meet, and only an ancestor's
\* checkout may hold another; every recorded path is the effective one.
Valid(entries) ==
    \A r \in Repos :
        /\ entries[r].mount # <<>>
        /\ entries[r].path = Effective(entries, r)
        /\ \A o \in Repos \ {r} :
               IsPrefix(entries[o].path, entries[r].path) =>
                   o \in Ancestors[r] /\ entries[o].path # entries[r].path

Below(t) == at[t] \in Places
Usable(t) == at[t] # None /\ reg[t] # None
Occupied(p) == \E t \in Trees : Below(t) /\ IsPrefix(p, at[t])

\* Checkouts of a repository that Git answers for.
CheckoutsOf(r) == {t \in Trees : Of(t) = r /\ Below(t) /\ Usable(t)}

Discovered ==
    [r \in Repos |->
        IF CheckoutsOf(r) = {} THEN None
        ELSE at[CHOOSE t \in CheckoutsOf(r) :
                   \A u \in CheckoutsOf(r) \ {t} : Before(at[t], at[u])]]

Duplicates == {r \in Repos : \E t, u \in CheckoutsOf(r) : t # u}

\* Git still lists a worktree at a path where there is nothing.
MissingRegistration(r, p) ==
    ~Occupied(p) /\ \E t \in Trees : Of(t) = r /\ reg[t] = p

\* The repairs a report lists, for a workspace and what a walk found.
RepairsFor(w, found) ==
    {"mount" : r \in {q \in Repos : found[q] # None /\ found[q] # w.entries[q].path}}
    \cup
    {"prune" : r \in {q \in Repos : found[q] = None /\ MissingRegistration(q, w.entries[q].path)}}

-----------------------------------------------------------------------------
(* The call.                                                               *)

\* The path and the mount of a repository found there.
EntryAt(found, r) ==
    [path |-> found[r],
     mount |-> IF Parent[r] = None THEN found[r]
               ELSE SubSeq(found[r], Len(found[Parent[r]]) + 1, Len(found[r]))]

Recorded(mark, found) == [mark |-> mark, entries |-> [r \in Repos |-> EntryAt(found, r)]]

\* A workspace as create leaves it, or checkouts made by hand.
Init ==
    /\ at = [t \in Trees |-> IF t \in Repos THEN Mounted[t] ELSE Outside]
    /\ reg = at
    /\ state \in {None, Recorded(0, Mounted)}
    /\ recovery \in BOOLEAN
    /\ pc = "idle" /\ locked = FALSE /\ dry \in BOOLEAN
    /\ ws = None /\ snap = None
    /\ seen = [r \in Repos |-> None]
    /\ repairs = {} /\ pruned = {} /\ result = None
    /\ quiet = TRUE /\ moves = 0 /\ faults = 0

World == <<files, trees, quiet, moves>>
Call == <<locked, dry, ws, snap, seen, repairs, pruned>>

Fault == faults < MaxFaults /\ faults' = faults + 1

End(how) == pc' = "done" /\ result' = how /\ locked' = FALSE

\* RequireWorkspace: the state has to be there, and to be valid.
Start ==
    /\ pc = "idle" /\ state # None /\ Valid(state.entries)
    /\ pc' = "walk" /\ ws' = state
    /\ UNCHANGED <<World, locked, dry, snap, seen, repairs, pruned, result, faults>>

Walk ==
    /\ pc = "walk"
    /\ pc' = "compare" /\ seen' = Discovered
    /\ UNCHANGED <<World, locked, dry, ws, snap, repairs, pruned, result, faults>>

\* The branch and head of every checkout found are read once more.
StillThere == \A r \in Repos : seen[r] # None => \E t \in CheckoutsOf(r) : at[t] = seen[r]

Compare ==
    /\ pc = "compare" /\ StillThere
    /\ pc' = "collect" /\ repairs' = RepairsFor(ws, seen)
    /\ UNCHANGED <<World, locked, dry, ws, snap, seen, pruned, result, faults>>

CompareFails ==
    /\ pc = "compare" /\ ~StillThere
    /\ End("refused")
    /\ UNCHANGED <<World, dry, ws, snap, seen, repairs, pruned, faults>>

\* The drift snapshot and the hook run inventory add findings, no repairs.
Collect ==
    /\ pc = "collect" /\ pc' = "decide"
    /\ UNCHANGED <<World, Call, result, faults>>

\* Any Git command or read of a report, or of a plan of import, can fail or be
\* canceled.
ReportFails ==
    /\ pc \in {"walk", "compare", "collect", "rewalk", "preview", "plan", "replan"} /\ Fault
    /\ End("refused")
    /\ UNCHANGED <<World, dry, ws, snap, seen, repairs, pruned>>

Report ==
    /\ pc = "decide"
    /\ repairs = {} \/ (~locked /\ dry)
    /\ End("reported")
    /\ UNCHANGED <<World, dry, ws, snap, seen, repairs, pruned, faults>>

Decide ==
    /\ pc = "decide" /\ repairs # {} /\ (locked \/ ~dry)
    /\ pc' = IF ~locked THEN "lock" ELSE IF "prune" \in repairs THEN "prune" ELSE "rewalk"
    /\ UNCHANGED <<World, Call, result, faults>>

TakeLock ==
    /\ pc = "lock"
    /\ pc' = "capture" /\ locked' = TRUE
    /\ UNCHANGED <<World, dry, ws, snap, seen, repairs, pruned, result, faults>>

\* The lock times out, or the project has an active update journal.
LockFails ==
    /\ pc \in {"lock", "importLock"} /\ Fault
    /\ End("refused")
    /\ UNCHANGED <<World, dry, ws, snap, seen, repairs, pruned>>

Capture ==
    /\ pc = "capture" /\ state # None
    /\ pc' = "validate" /\ snap' = state /\ quiet' = TRUE
    /\ UNCHANGED <<files, trees, moves, locked, dry, ws, seen, repairs, pruned, result, faults>>

CaptureFails ==
    /\ pc = "capture" /\ state = None
    /\ End("refused")
    /\ UNCHANGED <<World, dry, ws, snap, seen, repairs, pruned, faults>>

\* The state is read again, after the capture.
ReadState ==
    /\ pc = "validate" /\ state # None /\ Valid(state.entries)
    /\ pc' = "walk" /\ ws' = state
    /\ UNCHANGED <<World, locked, dry, snap, seen, repairs, pruned, result, faults>>

ReadStateFails ==
    /\ pc = "validate" /\ (state = None \/ ~Valid(state.entries))
    /\ End("refused")
    /\ UNCHANGED <<World, dry, ws, snap, seen, repairs, pruned, faults>>

-----------------------------------------------------------------------------
(* The repairs.                                                            *)

\* git worktree prune keeps a registration as long as something is there.
RegistrationHolds(t) ==
    \/ reg[t] = Outside /\ at[t] = Outside
    \/ \E u \in Trees : Below(u) /\ at[u] = reg[t]

\* Mutant: only the first repository is pruned.
PruneFirst ==
    /\ pc = "prune"
    /\ reg' = [t \in Trees |->
                  IF Of(t) = Order[1] /\ ~RegistrationHolds(t) THEN None ELSE reg[t]]
    /\ pruned' = Repos
    /\ IF "mount" \in repairs THEN pc' = "rewalk" /\ UNCHANGED <<locked, result>> ELSE End("fixed")
    /\ UNCHANGED <<files, at, quiet, moves, dry, ws, snap, seen, repairs, faults>>

\* git worktree prune, one repository after the other.
Prune ==
    LET r == Order[Cardinality(pruned) + 1]
    IN /\ pc = "prune"
       /\ reg' = [t \in Trees |->
                     IF Of(t) = r /\ ~RegistrationHolds(t) THEN None ELSE reg[t]]
       /\ pruned' = pruned \cup {r}
       /\ IF pruned' # Repos THEN UNCHANGED <<pc, locked, result>>
          ELSE IF "mount" \in repairs
          THEN pc' = "rewalk" /\ UNCHANGED <<locked, result>>
          ELSE End("fixed")
       /\ UNCHANGED <<files, at, quiet, moves, dry, ws, snap, seen, repairs, faults>>

PruneFails ==
    /\ pc = "prune" /\ Fault
    /\ End("refused")
    /\ UNCHANGED <<World, dry, ws, snap, seen, repairs, pruned>>

\* A mount can be derived when the parent was found, above the checkout.
Derivable(found) ==
    \A r \in Repos :
        found[r] # None /\ Parent[r] # None =>
            found[Parent[r]] # None /\ IsStrictPrefix(found[Parent[r]], found[r])

\* The state with the paths and mounts found; what was not found stays.
Repaired(w, found) ==
    [w EXCEPT !.entries = [r \in Repos |->
        IF found[r] = None THEN @[r] ELSE EntryAt(found, r)]]

Repairable(w, found) ==
    Duplicates = {} /\ Derivable(found) /\ Valid(Repaired(w, found).entries)

Rewalk ==
    /\ pc = "rewalk" /\ Repairable(ws, Discovered)
    /\ pc' = "publish" /\ ws' = Repaired(ws, Discovered)
    /\ UNCHANGED <<World, locked, dry, snap, seen, repairs, pruned, result, faults>>

RewalkRefuses ==
    /\ pc = "rewalk" /\ ~Repairable(ws, Discovered)
    /\ End("refused")
    /\ UNCHANGED <<World, dry, ws, snap, seen, repairs, pruned, faults>>

Publish ==
    /\ pc = "publish" /\ state = snap
    /\ state' = ws
    /\ End("fixed")
    /\ UNCHANGED <<recovery, trees, quiet, moves, dry, ws, snap, seen, repairs, pruned, faults>>

\* The file changed since the capture, or the write fails before it replaced it.
PublishFails ==
    /\ pc = "publish"
    /\ \/ state # snap /\ UNCHANGED faults
       \/ Fault
    /\ End("refused")
    /\ UNCHANGED <<World, dry, ws, snap, seen, repairs, pruned>>

\* Mutant: every failed write is taken for one that replaced nothing.
PublishLateUnnoticed ==
    /\ pc = "publish" /\ state = snap /\ Fault
    /\ state' = ws /\ End("refused")
    /\ UNCHANGED <<recovery, trees, quiet, moves, dry, ws, snap, seen, repairs, pruned>>

\* The write fails after it replaced the file.
PublishLate ==
    /\ pc = "publish" /\ state = snap /\ Fault
    /\ state' = ws /\ pc' = "restore"
    /\ UNCHANGED <<recovery, trees, quiet, moves, Call, result>>

\* Mutant: the prior bytes come back over whatever is there.
RestoreOverTheirs ==
    /\ pc = "restore" /\ state # None
    /\ state' = snap
    /\ End("clean")
    /\ UNCHANGED <<recovery, trees, quiet, moves, dry, ws, snap, seen, repairs, pruned, faults>>

\* finishReplacedPublicationFailure: the prior bytes come back over its own.
Restore ==
    /\ pc = "restore" /\ state = ws
    /\ state' = snap
    /\ End("clean")
    /\ UNCHANGED <<recovery, trees, quiet, moves, dry, ws, snap, seen, repairs, pruned, faults>>

\* Somebody wrote since, or the write fails, before or after the replacement.
RestoreFails ==
    /\ pc = "restore"
    /\ \/ state # ws /\ UNCHANGED <<state, faults>>
       \/ state = ws /\ Fault /\ state' \in {ws, snap}
    /\ pc' = "record"
    /\ UNCHANGED <<recovery, trees, quiet, moves, Call, result>>

\* An older record is kept.
Record ==
    /\ pc = "record"
    /\ IF recovery THEN End("unrecorded") ELSE End("incomplete")
    /\ recovery' = TRUE
    /\ UNCHANGED <<state, trees, quiet, moves, dry, ws, snap, seen, repairs, pruned, faults>>

RecordFails ==
    /\ pc = "record" /\ Fault
    /\ End("unrecorded")
    /\ UNCHANGED <<World, dry, ws, snap, seen, repairs, pruned>>

Crash ==
    /\ Running /\ Fault
    /\ End("killed")
    /\ UNCHANGED <<World, dry, ws, snap, seen, repairs, pruned>>

-----------------------------------------------------------------------------
(* Import.                                                                 *)

\* Every repository has one checkout below the root, a child below its parent.
Observed == Duplicates = {} /\ \A r \in Repos : Discovered[r] # None

\* PlanImport: the mounts follow from where the checkouts are; another state file
\* for the name or the root is a collision.
Importable ==
    /\ Observed /\ Derivable(Discovered)
    /\ Valid(Recorded(0, Discovered).entries)
    /\ state = None

StartImport ==
    /\ pc = "idle" /\ pc' = "preview"
    /\ UNCHANGED <<World, Call, result, faults>>

\* The command line plans once for itself, and ends there in a dry run.
Preview ==
    /\ pc = "preview" /\ Importable
    /\ IF dry THEN End("reported") ELSE pc' = "plan" /\ UNCHANGED <<locked, result>>
    /\ UNCHANGED <<World, dry, ws, snap, seen, repairs, pruned, faults>>

PlanImport ==
    /\ pc = "plan" /\ Importable
    /\ pc' = "importLock" /\ ws' = Recorded(0, Discovered)
    /\ UNCHANGED <<World, locked, dry, snap, seen, repairs, pruned, result, faults>>

LockImport ==
    /\ pc = "importLock"
    /\ pc' = "replan" /\ locked' = TRUE
    /\ UNCHANGED <<World, dry, ws, snap, seen, repairs, pruned, result, faults>>

\* Under the lock, the plan made now has to be the one made before.
Replan ==
    /\ pc = "replan" /\ Importable /\ Recorded(0, Discovered) = ws
    /\ pc' = "check" /\ quiet' = TRUE
    /\ UNCHANGED <<files, trees, moves, Call, result, faults>>

ImportRefused ==
    /\ \/ pc \in {"preview", "plan", "replan"} /\ ~Importable
       \/ pc = "replan" /\ Importable /\ Recorded(0, Discovered) # ws
       \/ pc = "check" /\ (recovery \/ state # None)
    /\ End("refused")
    /\ UNCHANGED <<World, dry, ws, snap, seen, repairs, pruned, faults>>

\* Neither a recovery record nor a state file may be there.
CheckUnpublished ==
    /\ pc = "check" /\ ~recovery /\ state = None
    /\ pc' = "write"
    /\ UNCHANGED <<World, Call, result, faults>>

\* The write replaces what is at the path, and takes a receipt of it.
WriteImport ==
    /\ pc = "write"
    /\ state' = ws /\ pc' = "verify"
    /\ UNCHANGED <<recovery, trees, quiet, moves, Call, result, faults>>

\* The write fails, before or after it replaced the file.
WriteImportFails ==
    /\ pc = "write" /\ Fault
    /\ state' \in {state, ws} /\ pc' = "withdraw"
    /\ UNCHANGED <<recovery, trees, quiet, moves, Call, result>>

VerifyImport ==
    /\ pc = "verify"
    /\ IF state = ws THEN End("imported")
       ELSE pc' = "withdraw" /\ UNCHANGED <<locked, result>>
    /\ UNCHANGED <<World, dry, ws, snap, seen, repairs, pruned, faults>>

\* The rollback compares the file with its receipt, then removes what is at the
\* path, and looks once more.
Withdraw ==
    /\ \/ /\ pc = "withdraw" /\ state = ws
          /\ pc' = "remove" /\ quiet' = TRUE /\ UNCHANGED <<locked, result>>
       \/ /\ pc \in {"withdraw", "gone"} /\ state = None
          /\ End("withdrawn") /\ UNCHANGED quiet
    /\ UNCHANGED <<files, trees, moves, dry, ws, snap, seen, repairs, pruned, faults>>

RemoveByPath ==
    /\ pc = "remove" /\ state # None
    /\ state' = None /\ pc' = "gone"
    /\ UNCHANGED <<recovery, trees, quiet, moves, Call, result, faults>>

\* It is another generation, or one appeared, or was gone before the removal; or a
\* call fails.
WithdrawFails ==
    /\ \/ pc = "withdraw" /\ state \notin {None, ws} /\ UNCHANGED faults
       \/ pc = "remove" /\ state = None /\ UNCHANGED faults
       \/ pc = "gone" /\ state # None /\ UNCHANGED faults
       \/ pc \in {"withdraw", "remove", "gone"} /\ Fault
    /\ pc' = "record"
    /\ UNCHANGED <<World, Call, result>>

Import ==
    \/ Preview \/ PlanImport \/ LockImport \/ Replan \/ ImportRefused \/ CheckUnpublished
    \/ WriteImport \/ WriteImportFails \/ VerifyImport
    \/ Withdraw \/ RemoveByPath \/ WithdrawFails

-----------------------------------------------------------------------------
(* Other actors.                                                           *)

OthersAct == moves < MaxMoves /\ pc # "done" /\ moves' = moves + 1 /\ quiet' = FALSE

\* A directory takes along what it holds.
Moved(t, p) ==
    [u \in Trees |->
        IF u = t THEN p
        ELSE IF Below(t) /\ Below(u) /\ IsPrefix(at[t], at[u])
        THEN IF p \notin Places THEN p
             ELSE p \o SubSeq(at[u], Len(at[t]) + 1, Len(at[u]))
        ELSE at[u]]

\* mv, into the workspace, within it or out of it.
UserMoves ==
    /\ OthersAct
    /\ \E t \in Trees : \E p \in Places \cup {Outside} :
           /\ at[t] \notin {None, p}
           /\ p \in Places => ~Occupied(p) /\ ~(Below(t) /\ IsPrefix(at[t], p))
           /\ at' = Moved(t, p)
           /\ \A u \in Trees : at'[u] \in Places \cup {Outside, None}
    /\ UNCHANGED <<files, reg, job, faults>>

\* git worktree move.
UserMovesWithGit ==
    /\ OthersAct
    /\ \E t \in Repos : \E p \in Places :
           /\ Below(t) /\ reg[t] = at[t]
           /\ ~Occupied(p) /\ ~IsPrefix(at[t], p)
           /\ \A u \in Trees : reg[u] # p
           /\ at' = Moved(t, p)
           /\ \A u \in Trees : at'[u] \in Places \cup {Outside, None}
           /\ reg' = [reg EXCEPT ![t] = p]
    /\ UNCHANGED <<files, job, faults>>

UserDeletes ==
    /\ OthersAct
    /\ \E t \in Repos :
           /\ Below(t)
           /\ at' = Moved(t, None)
    /\ UNCHANGED <<files, reg, job, faults>>

\* An editor, or an older wtree, writes the state file.
UserEditsState ==
    /\ OthersAct
    /\ \/ state = None /\ state' = Recorded(1, Mounted)
       \/ state # None /\ state' = [state EXCEPT !.mark = @ + 1]
       \/ state # None /\ \E r \in Repos :
              state' = [state EXCEPT !.mark = @ + 1, !.entries[r].mount = <<>>]
    /\ UNCHANGED <<recovery, trees, job, faults>>

\* Another wtree command on the workspace, under the lock: it removes it, or
\* ends with a recovery record.
OtherCommand ==
    /\ OthersAct /\ ~locked /\ state # None
    /\ \/ /\ state' = None /\ UNCHANGED recovery
          /\ at' = [t \in Trees |-> IF t \in Repos THEN None ELSE at[t]]
          /\ reg' = [t \in Trees |-> IF t \in Repos THEN None ELSE reg[t]]
       \/ recovery' = TRUE /\ UNCHANGED <<state, trees>>
    /\ UNCHANGED <<job, faults>>

Doctor ==
    \/ Walk \/ Compare \/ CompareFails \/ Collect \/ ReportFails \/ Report \/ Decide
    \/ TakeLock \/ LockFails \/ Capture \/ CaptureFails \/ ReadState \/ ReadStateFails
    \/ Prune \/ PruneFails \/ Rewalk \/ RewalkRefuses \/ Publish \/ PublishFails \/ PublishLate
    \/ Restore \/ RestoreFails \/ Record \/ RecordFails

Next ==
    \/ Start \/ Doctor \/ StartImport \/ Import \/ Crash
    \/ UserMoves \/ UserMovesWithGit \/ UserDeletes \/ UserEditsState \/ OtherCommand

Spec == Init /\ [][Next]_vars /\ WF_vars(Doctor \/ Import)

-----------------------------------------------------------------------------
(* Properties.                                                             *)

TypeOK ==
    /\ at \in [Trees -> Places \cup {Outside, None}]
    /\ reg \in [Trees -> Places \cup {Outside, None}]
    /\ recovery \in BOOLEAN /\ locked \in BOOLEAN /\ dry \in BOOLEAN /\ quiet \in BOOLEAN
    /\ pc \in Steps
    /\ repairs \subseteq {"mount", "prune"} /\ pruned \subseteq Repos

\* A repair that claims success needs no second one, and an imported workspace
\* none: when nobody else acted since the last look, a report made now on the
\* state that was written lists no repair, and the next command can read it
\* (doctor.go:297-364, import.go:234-274).  Excepted is a prune, without a repair of
\* the state, that takes a checkout the report found: another one may be next.
FixConverges ==
    /\ pc = "done" /\ result \in {"fixed", "imported"} /\ quiet
    /\ result = "fixed" /\ "mount" \notin repairs => StillThere
    => RepairsFor(state, Discovered) = {} /\ Valid(state.entries)

\* What others write to the state file is neither overwritten by a repair nor
\* undone by the restoration of a failed one, nor removed by the rollback of an
\* import (doctor.go:348, publication_recovery.go:51, import.go:305).  The
\* exceptions are import's: a file that appears after it looked for one, 258, and one
\* put in place between the last comparison of its rollback and the removal, 101-107.
EditsAreKept ==
    [][state # None =>
         \/ state' # None /\ state'.mark >= state.mark
         \/ state' = None /\ (state.mark = 0 \/ moves' # moves)
         \/ pc = "write" /\ state' = ws
         \/ pc = "remove" /\ ~quiet]_vars

\* A failed publication says what it left: clean means the repair is not in
\* the state file, withdrawn that there is none, incomplete that a recovery record
\* tells of it (publication_recovery.go:22-46, import.go:327-362).
FailureIsTrue ==
    pc = "done" =>
        /\ result \in {"clean", "refused"} /\ snap # None /\ state # None =>
               state.entries = snap.entries \/ state.mark # snap.mark
        /\ result = "withdrawn" => state = None
        /\ result = "incomplete" => recovery

\* doctor --fix and import come to an end.
Returns == Running ~> pc = "done"

\* --fix applies only independently verified safe repairs: a checkout that is
\* below the workspace root, where the walk finds it, goes on working in Git
\* (doctor.go:184-188, 334-341).
FoundCheckoutsStayUsable == \A t \in Trees : Below(t) => reg[t] # None

================================================================================
