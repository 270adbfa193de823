---------------------------- MODULE ProjectRegistry ----------------------------
(***************************************************************************)
(* Which projects exist: the global registry file, and the commands that   *)
(* change it while other commands do the same.                             *)
(*                                                                         *)
(*   init         publishes a project around existing checkouts;           *)
(*   clone        publishes a whole checkout tree and registers it;        *)
(*   materialize  adds the children of a release lock to a base checkout;  *)
(*   mutate       any command that finds its project by the configuration  *)
(*                above it and reconciles the registry with it;            *)
(*   remove       project prune and project unregister.                    *)
(*                                                                         *)
(* Each plans without a lock, then holds the registry lock and the lock of *)
(* its project while it checks again, publishes its targets one by one and *)
(* undoes them when one fails.  The user edits, moves and deletes files    *)
(* at any moment.  A write may fail, before or after it took effect.       *)
(***************************************************************************)
EXTENDS Naturals, Sequences, FiniteSets

CONSTANTS
    Procs,          \* running commands
    Ids,            \* project ids
    Places,         \* directories that can hold a checkout tree
    None,           \* no project, no place
    ReleaseId,      \* the project the base checkout carries a release lock of
    BasePlace,      \* where that base checkout is
    GroupPlace,     \* where checkouts without a project are
    Cmds,           \* the commands started
    MaxCommands, MaxFaults, MaxUserMoves, MaxCrashes

ASSUME RegistryAssumption ==
    /\ ReleaseId \in Ids
    /\ BasePlace \in Places /\ GroupPlace \in Places /\ BasePlace # GroupPlace
    /\ None \notin Ids \cup Places
    /\ Cmds \subseteq {"init", "clone", "materialize", "mutate", "remove"}
    /\ {MaxCommands, MaxFaults, MaxUserMoves, MaxCrashes} \subseteq Nat

VARIABLES
    tree,       \* what is at a place: nothing, a base checkout, all checkouts
    config,     \* the project the .wtree.yml at a place declares
    state,      \* the path the default workspace state of a project records
    registry,   \* the place the registry entry of a project names
    recovery,   \* recovery/default.json of a project exists
    foreign,    \* what the user last wrote, and a command did not
    job,        \* the commands
    commands, faults, userMoves, crashes    \* used up bounds

world == <<tree, config, state, registry, recovery>>
user == <<foreign, userMoves>>
bounds == <<commands, faults, crashes>>
vars == <<world, user, job, bounds>>

--------------------------------------------------------------------------------
(* The commands and what they publish.                                     *)

Targets == {"tree", "config", "state", "registry"}
Publishers == {"init", "clone", "materialize"}

\* Publication order.  A clone's configuration is inside its staged tree.
Order == [init        |-> <<"config", "registry", "state">>,
          clone       |-> <<"tree", "state", "registry">>,
          materialize |-> <<"tree", "config", "state", "registry">>]

\* owned, written and checked are targets: published, written and not yet read
\* back, compared and not yet removed.  failed: the error will say that the
\* rollback is incomplete; left: what it will not say.
NoJob == [cmd |-> "none", id |-> None, place |-> None, pc |-> "idle",
          seen |-> [i \in Ids |-> None], owned |-> {}, written |-> "none",
          checked |-> "none", failed |-> FALSE, quiet |-> FALSE, left |-> {},
          staging |-> FALSE, end |-> "refused"]

Running == {"planned", "staged", "locked", "publishing", "undoing", "discarding"}
Ended == {"ok", "clean", "incomplete", "refused", "dead"}

\* acquireProjectMutationAuthority, RegistryLock: held in every phase between
\* the recheck and the return, lost when the process dies.
Locked == {"locked", "publishing", "undoing"}
Holds(p) == job[p].pc \in Locked

Key(j, t) == <<t, IF t = "state" THEN j.id ELSE j.place>>
NextTarget(j) == Order[j.cmd][Cardinality(j.owned) + 1]
AllPublished(j) == Cardinality(j.owned) = Len(Order[j.cmd])

Becomes(p, j) == job' = [job EXCEPT ![p] = j]

AtPlace(p) == {<<t, p>> : t \in {"tree", "base", "config"}}

\* Mutant: rollback compares the presence of a target, not its generation.
ChangedPresence(j, t) ==
    \/ t = "tree" /\ tree[j.place] = "absent"
    \/ t = "config" /\ config[j.place] # j.id
    \/ t = "state" /\ state[j.id] # j.place

\* The user changed what the command published: revalidateCloneTree,
\* sameCloneFileSnapshot, revalidateSnapshot.  The tree of a clone includes its
\* configuration.
Changed(j, t) ==
    \/ Key(j, t) \in foreign
    \/ t = "tree" /\ tree[j.place] = "absent"
    \/ t = "tree" /\ j.cmd = "clone"
         /\ (<<"config", j.place>> \in foreign \/ config[j.place] # j.id)
    \/ t = "config" /\ config[j.place] # j.id
    \/ t = "state" /\ state[j.id] # j.place

\* removeOwnedTree has nothing to do when the destination is gone.
CloneTreeGone(j, t) == t = "tree" /\ j.cmd = "clone" /\ tree[j.place] = "absent"

TypeOK ==
    /\ tree \in [Places -> {"absent", "base", "group"}]
    /\ config \in [Places -> Ids \cup {None}]
    /\ state \in [Ids -> Places \cup {None}]
    /\ registry \in [Ids -> Places \cup {None}]
    /\ recovery \in [Ids -> BOOLEAN]
    /\ foreign \subseteq ({"tree", "base", "config"} \X Places) \cup ({"state"} \X Ids)
    /\ job \in [Procs -> [cmd: Cmds \cup {"none"}, id: Ids \cup {None},
                          place: Places \cup {None}, pc: Running \cup Ended \cup {"idle"},
                          seen: [Ids -> Places \cup {None}], owned: SUBSET Targets,
                          written: Targets \cup {"none"}, checked: Targets \cup {"none"},
                          failed: BOOLEAN, quiet: BOOLEAN, left: SUBSET Targets,
                          staging: BOOLEAN, end: Ended]]
    /\ commands \in 0..MaxCommands
    /\ faults \in 0..MaxFaults
    /\ userMoves \in 0..MaxUserMoves
    /\ crashes \in 0..MaxCrashes

Init ==
    /\ tree = [p \in Places |-> CASE p = BasePlace -> "base" [] p = GroupPlace -> "group"
                                  [] OTHER -> "absent"]
    /\ config = [p \in Places |-> None]
    /\ state = [i \in Ids |-> None]
    /\ registry = [i \in Ids |-> None]
    /\ recovery = [i \in Ids |-> FALSE]
    /\ foreign = {}
    /\ job = [p \in Procs |-> NoJob]
    /\ commands = 0 /\ faults = 0 /\ userMoves = 0 /\ crashes = 0

--------------------------------------------------------------------------------
(* What a command requires when it plans, before any lock.                 *)

\* Mutant: entries whose configuration is gone are not compared.
RegistrationConflictReadable(i, p) ==
    \E other \in Ids \ {i} : registry[other] = p /\ config[p] = other

\* RegistrationConflictIDsForTarget: a place is taken when another project's
\* entry names its configuration, its repositories, its root or a checkout.
RegistrationConflict(i, p) == \E other \in Ids \ {i} : registry[other] = p

\* availableInitProjectID: a new id has no retained storage.
FreshId(i) == registry[i] = None /\ state[i] = None /\ ~recovery[i]

\* Initializer.plan
InitAllowed(i, p) ==
    /\ tree[p] # "absent" /\ config[p] = None
    /\ FreshId(i) /\ ~RegistrationConflict(i, p)

\* validateCloneRegistryFacts: neither the id nor the destination is registered.
RegistryAdmitsClone(i, p) ==
    /\ registry[i] = None
    /\ \A other \in Ids : registry[other] # p

\* ClonePlanner.planAttempt: the destination does not exist.
CloneAllowed(i, p) == tree[p] = "absent" /\ RegistryAdmitsClone(i, p)

\* validateBase
BaseIsIntact(p) == tree[p] = "base" /\ <<"base", p>> \notin foreign

\* validateLocalPreconditions
MaterializeAllowed(i, p) ==
    /\ i = ReleaseId /\ BaseIsIntact(p)
    /\ config[p] = None /\ state[i] = None /\ ~recovery[i] /\ registry[i] = None

\* Resolver.resolve: the configuration at the place declares the id.  Another
\* place may be registered for it, which then is where the command goes.
MutateAllowed(i, p) ==
    /\ config[p] = i
    /\ registry[i] \notin {None, p} => config[registry[i]] = None

\* planPruneFromRegistry, planUnregisterFromRegistry
RemoveAllowed(i, p) == registry[i] = p /\ ~recovery[i]

Allowed(c, i, p) ==
    CASE c = "init" -> InitAllowed(i, p)
      [] c = "clone" -> CloneAllowed(i, p)
      [] c = "materialize" -> MaterializeAllowed(i, p)
      [] c = "mutate" -> MutateAllowed(i, p)
      [] c = "remove" -> RemoveAllowed(i, p)

Plan(p) ==
    /\ job[p].pc \in {"idle", "ok", "clean", "refused"}
    /\ commands < MaxCommands /\ commands' = commands + 1
    /\ \E c \in Cmds, i \in Ids, at \in Places :
         /\ Allowed(c, i, at)
         /\ job' = [job EXCEPT ![p] = [NoJob EXCEPT !.cmd = c, !.id = i, !.place = at,
                                                    !.pc = "planned", !.seen = registry]]
    /\ UNCHANGED <<world, user, faults, crashes>>

\* A command that fails before it publishes first drops its private staging.
Fails(p, end) ==
    [job EXCEPT ![p].pc = IF job[p].staging THEN "discarding" ELSE end,
                ![p].end = end]

\* The loop over the repositories of a clone: each is cloned into the private
\* staging, fetched, checked out and verified; any of them may fail.
StageClone(p) ==
    /\ job[p].pc = "planned" /\ job[p].cmd = "clone"
    /\ \/ /\ CloneAllowed(job[p].id, job[p].place)
          /\ job' = [job EXCEPT ![p].pc = "staged", ![p].staging = TRUE]
          /\ UNCHANGED faults
       \/ /\ ~CloneAllowed(job[p].id, job[p].place)
          /\ job' = [job EXCEPT ![p].pc = "refused"]
          /\ UNCHANGED faults
       \/ /\ faults < MaxFaults /\ faults' = faults + 1
          /\ job' = [job EXCEPT ![p].pc = "discarding", ![p].staging = TRUE,
                                ![p].end = "clean"]
    /\ UNCHANGED <<world, user, commands, crashes>>

\* The children of a release, each at its locked revision.
StageMaterialize(p) ==
    /\ job[p].pc = "planned" /\ job[p].cmd = "materialize"
    /\ \/ /\ job' = [job EXCEPT ![p].pc = "staged", ![p].staging = TRUE]
          /\ UNCHANGED faults
       \/ /\ faults < MaxFaults /\ faults' = faults + 1
          /\ job' = [job EXCEPT ![p].pc = "discarding", ![p].staging = TRUE]
    /\ UNCHANGED <<world, user, commands, crashes>>

\* cleanup of a clone that published nothing.  Staging that is not provably
\* its own, or cannot be removed, stays and the command says so.
DiscardClone(p) ==
    /\ job[p].pc = "discarding" /\ job[p].cmd = "clone"
    /\ \/ /\ job' = [job EXCEPT ![p].pc = "clean", ![p].staging = FALSE]
          /\ UNCHANGED faults
       \/ /\ faults < MaxFaults /\ faults' = faults + 1
          /\ job' = [job EXCEPT ![p].pc = "incomplete"]
    /\ UNCHANGED <<world, user, commands, crashes>>

\* releaseMaterializeCleanupStaging, after every publication, failed or not.
DiscardMaterialize(p) ==
    /\ job[p].pc = "discarding" /\ job[p].cmd = "materialize"
    /\ job' = [job EXCEPT ![p].pc = job[p].end, ![p].staging = FALSE]
    /\ UNCHANGED <<world, user, bounds>>

\* writeMaterializeStagingRecovery: the staging stays.  The locks of the
\* publication are released; the record needs the lock of the project, the
\* base checkout as it was and the place of a record to be free.
StagingKept(p) ==
    LET j == job[p]
        may == /\ \A q \in Procs : ~(Holds(q) /\ job[q].id = j.id)
               /\ ~recovery[j.id] /\ <<"base", j.place>> \notin foreign
    IN
    /\ j.pc = "discarding" /\ j.cmd = "materialize"
    /\ faults < MaxFaults /\ faults' = faults + 1
    /\ recovery' = [recovery EXCEPT ![j.id] = @ \/ may]
    /\ job' = [job EXCEPT ![p].pc = "incomplete"]
    /\ UNCHANGED <<tree, config, state, registry, user, commands, crashes>>

--------------------------------------------------------------------------------
(* The locks, and the checks repeated under them.                          *)

ReadyToLock(j) == j.pc = IF j.cmd \in {"clone", "materialize"} THEN "staged" ELSE "planned"

\* The locks are tried for a second; somebody else keeps one for longer.
LockTimeout(p) ==
    /\ ReadyToLock(job[p])
    /\ \E q \in Procs \ {p} : Holds(q)
    /\ job' = Fails(p, "refused")
    /\ UNCHANGED <<world, user, bounds>>

\* The registry lock, then the lock of the project.
Lock(p) ==
    /\ ReadyToLock(job[p])
    /\ \A q \in Procs : ~Holds(q)
    /\ job' = [job EXCEPT ![p].pc = "locked"]
    /\ UNCHANGED <<world, user, bounds>>

\* init insists on the registry it planned with, and on its targets as they were;
\* it does not look again at the tree, nor for a recovery record.
InitHolds(j) ==
    /\ registry = j.seen /\ registry[j.id] = None /\ ~RegistrationConflict(j.id, j.place)
    /\ config[j.place] = None /\ state[j.id] = None

\* A clone looks again: other commands may have registered something else.
CloneHolds(j) ==
    /\ CloneAllowed(j.id, j.place) /\ ~RegistrationConflict(j.id, j.place)
    /\ state[j.id] = None /\ ~recovery[j.id]

MaterializeHolds(j) ==
    MaterializeAllowed(j.id, j.place) /\ ~RegistrationConflict(j.id, j.place)

PlanHolds(j) ==
    CASE j.cmd = "init" -> InitHolds(j)
      [] j.cmd = "clone" -> CloneHolds(j)
      [] j.cmd = "materialize" -> MaterializeHolds(j)
      [] j.cmd = "remove" -> RemoveAllowed(j.id, j.place)
      [] OTHER -> TRUE

RecheckFails(p) ==
    /\ job[p].pc = "locked" /\ ~PlanHolds(job[p])
    /\ job' = Fails(p, "refused")
    /\ UNCHANGED <<world, user, bounds>>

\* Mutant: a clone or a release publishes the registry it planned with.
RecheckKeepingPlanned(p) ==
    /\ job[p].pc = "locked" /\ job[p].cmd \in Publishers /\ PlanHolds(job[p])
    /\ job' = [job EXCEPT ![p].pc = "publishing"]
    /\ UNCHANGED <<world, user, bounds>>

\* The registry the publication replaces is the one read under the lock.
Recheck(p) ==
    /\ job[p].pc = "locked" /\ job[p].cmd \in Publishers /\ PlanHolds(job[p])
    /\ job' = [job EXCEPT ![p].pc = "publishing", ![p].seen = registry]
    /\ UNCHANGED <<world, user, bounds>>

--------------------------------------------------------------------------------
(* Registry removal and reconciliation: one file to write.                 *)

\* The writer may report an error before or after it replaced the file.
Remove(p) ==
    LET j == job[p]
        Removed == [registry EXCEPT ![j.id] = None]
    IN
    /\ j.pc = "locked" /\ j.cmd = "remove" /\ PlanHolds(j)
    /\ \/ registry' = Removed /\ Becomes(p, [j EXCEPT !.pc = "ok"]) /\ UNCHANGED faults
       \/ /\ faults < MaxFaults /\ faults' = faults + 1
          /\ registry' \in {registry, Removed}
          /\ Becomes(p, [j EXCEPT !.pc = "refused"])
    /\ UNCHANGED <<tree, config, state, recovery, user, commands, crashes>>

\* registryNeedsReconciliation: an entry that is there and names another
\* configuration, which is gone.  An absent entry is never added.
NeedsReconciliation(j) ==
    /\ registry[j.id] \notin {None, j.place}
    /\ config[registry[j.id]] = None

\* reconcileRegistry, with finishReplacedPublicationFailure when the write
\* reports an error after it replaced the file.
Reconcile(p) ==
    LET j == job[p]
        Relocated == [registry EXCEPT ![j.id] = j.place]
    IN
    /\ j.pc = "locked" /\ j.cmd = "mutate"
    /\ UNCHANGED <<tree, config, state, user, commands, crashes>>
    /\ \/ /\ ~NeedsReconciliation(j)
          /\ job' = [job EXCEPT ![p].pc = "ok"]
          /\ UNCHANGED <<registry, recovery, faults>>
       \/ /\ NeedsReconciliation(j) /\ RegistrationConflict(j.id, j.place)
          /\ job' = [job EXCEPT ![p].pc = "refused"]
          /\ UNCHANGED <<registry, recovery, faults>>
       \/ /\ NeedsReconciliation(j) /\ ~RegistrationConflict(j.id, j.place)
          /\ \/ /\ registry' = Relocated
                /\ job' = [job EXCEPT ![p].pc = "ok"]
                /\ UNCHANGED <<recovery, faults>>
             \/ /\ faults < MaxFaults /\ faults' = faults + 1
                /\ \/ /\ job' = [job EXCEPT ![p].pc = "clean"]
                      /\ UNCHANGED <<registry, recovery>>
                   \/ /\ registry' = Relocated
                      /\ recovery' = [recovery EXCEPT ![j.id] = TRUE]
                      /\ job' = [job EXCEPT ![p].pc = "incomplete"]

--------------------------------------------------------------------------------
(* Publication of init, clone and materialize.                             *)

\* The writer of a configuration makes a directory that has gone again.
Written(j, t) ==
    /\ tree' = IF t = "tree" \/ (t = "config" /\ tree[j.place] = "absent")
               THEN [tree EXCEPT ![j.place] = "group"] ELSE tree
    /\ config' = IF t = "config" \/ (t = "tree" /\ j.cmd = "clone")
                 THEN [config EXCEPT ![j.place] = j.id] ELSE config
    /\ state' = IF t = "state" THEN [state EXCEPT ![j.id] = j.place] ELSE state
    /\ registry' = IF t = "registry" THEN [j.seen EXCEPT ![j.id] = j.place] ELSE registry
    /\ UNCHANGED recovery

Unwritten(j, t) ==
    /\ tree' = IF t = "tree"
               THEN [tree EXCEPT ![j.place] = IF j.cmd = "clone" THEN "absent" ELSE "base"]
               ELSE tree
    /\ config' = IF t = "config" \/ (t = "tree" /\ j.cmd = "clone")
                 THEN [config EXCEPT ![j.place] = None] ELSE config
    /\ state' = IF t = "state" THEN [state EXCEPT ![j.id] = None] ELSE state
    /\ registry' = IF t = "registry" THEN j.seen ELSE registry
    /\ UNCHANGED recovery

\* What is replaced is still what was captured.
Replaceable(j, t) ==
    /\ t = "tree" => tree[j.place] = IF j.cmd = "clone" THEN "absent" ELSE "base"
    /\ t = "config" => config[j.place] = None
    /\ t = "state" => state[j.id] = None

\* revalidateCloneTree, sameCloneFileSnapshot: all published so far is its own.
StillOwned(j) == \A o \in j.owned : ~Changed(j, o)

\* revalidateMaterializeBase: its checkout is clean, at the planned revision.
BaseUnchanged(j) == <<"base", j.place>> \notin foreign

PublicationFails(j, quiet) ==
    [j EXCEPT !.pc = "undoing", !.written = "none", !.quiet = quiet]

\* The target is the command's own; the staging of a clone has become its tree.
Owning(j, t) ==
    [j EXCEPT !.owned = @ \cup {t}, !.written = "none",
              !.staging = @ /\ ~(j.cmd = "clone" /\ t = "tree")]

\* One target: refused by the compare before it, written, or not written.  A tree
\* is owned as soon as it has its name, also when what follows fails.
PublishNext(p, admitted, quiets) ==
    LET j == job[p]
        t == NextTarget(j)
    IN
    /\ j.pc = "publishing" /\ j.written = "none" /\ ~AllPublished(j)
    /\ UNCHANGED <<user, commands, crashes>>
    /\ \/ /\ ~admitted
          /\ \E quiet \in quiets : Becomes(p, PublicationFails(j, quiet))
          /\ UNCHANGED <<world, faults>>
       \/ /\ admitted /\ Written(j, t)
          /\ Becomes(p, IF t = "tree" THEN Owning(j, t) ELSE [j EXCEPT !.written = t])
          /\ UNCHANGED faults
       \/ /\ admitted
          /\ faults < MaxFaults /\ faults' = faults + 1
          /\ \/ Becomes(p, PublicationFails(j, FALSE)) /\ UNCHANGED world
             \/ /\ t = "tree" /\ Written(j, t)
                /\ Becomes(p, PublicationFails(Owning(j, t), FALSE))

\* A file that was written and gave no receipt stays, if it is still there: said
\* or not, it is not a target of the rollback.
NoReceipt(j, said) ==
    LET t == j.written
        gone == t = "config" /\ config[j.place] = None
    IN [PublicationFails(j, ~said) EXCEPT
            !.failed = @ \/ (said /\ ~gone),
            !.left = IF said \/ gone THEN @ ELSE @ \cup {t}]

\* A file that was written is read back: it is the command's own only when that
\* shows what was written.  Then the command may still be cancelled, or the writer
\* have reported an error.  init keeps note of a file it does not own; so does a
\* clone when the writer or the reading failed, in a record; else it, and a
\* release always, goes on with its rollback as if the file were not there.
ReadBack(p) ==
    LET j == job[p]
        t == j.written
        Preserved(said) ==
            /\ Becomes(p, NoReceipt(j, said))
            /\ recovery' = [recovery EXCEPT ![j.id] = @ \/ (said /\ j.cmd = "clone")]
    IN
    /\ j.pc = "publishing" /\ t # "none"
    /\ \/ ~Changed(j, t) /\ Becomes(p, Owning(j, t)) /\ UNCHANGED <<recovery, faults>>
       \/ Changed(j, t) /\ Preserved(j.cmd = "init") /\ UNCHANGED faults
       \/ /\ faults < MaxFaults /\ faults' = faults + 1
          /\ \/ /\ ~Changed(j, t) /\ Becomes(p, PublicationFails(Owning(j, t), FALSE))
                /\ UNCHANGED recovery
             \/ Preserved(j.cmd \in {"init", "clone"})
    /\ UNCHANGED <<tree, config, state, registry, user, commands, crashes>>

\* initPlan.publish compares each file with its snapshot, no more.
PublishInit(p) ==
    /\ job[p].cmd = "init"
    /\ PublishNext(p, ~AllPublished(job[p]) => Replaceable(job[p], NextTarget(job[p])), {FALSE})

\* A clone compares before it writes the registry and again in the writer: the
\* error of an undo after the first of the two is joined, but not marked.
PublishClone(p) ==
    LET j == job[p] IN
    /\ j.cmd = "clone"
    /\ PublishNext(p, ~AllPublished(j) => Replaceable(j, NextTarget(j)) /\ StillOwned(j),
                   {FALSE, "state" \in j.owned})

PublishMaterialize(p) ==
    LET j == job[p] IN
    /\ j.cmd = "materialize"
    /\ PublishNext(p, ~AllPublished(j) => /\ Replaceable(j, NextTarget(j))
                                          /\ StillOwned(j) /\ BaseUnchanged(j), {FALSE})

\* A clone looks at its tree once more after the registry: the errors of the
\* undoing that follows are joined, but not marked.
LastCheckFails(p) ==
    LET j == job[p] IN
    /\ j.pc = "publishing" /\ j.written = "none" /\ AllPublished(j)
    /\ j.cmd = "clone" /\ Changed(j, "tree")
    /\ Becomes(p, PublicationFails(j, TRUE))
    /\ UNCHANGED <<world, user, bounds>>

\* The return; the deferred cleanup of a release's staging follows the unlock.
Published(p) ==
    LET j == job[p] IN
    /\ j.pc = "publishing" /\ j.written = "none" /\ AllPublished(j)
    /\ ~(j.cmd = "clone" /\ Changed(j, "tree"))
    /\ Becomes(p, [j EXCEPT !.pc = IF j.staging THEN "discarding" ELSE "ok", !.end = "ok"])
    /\ UNCHANGED <<world, user, bounds>>

--------------------------------------------------------------------------------
(* Rollback.                                                               *)

\* restoreOwnedSnapshots; rollback in publish of a release: in reverse.
UndoInReverse(j) == {Order[j.cmd][Cardinality(j.owned)]}

\* A clone undoes its two files in the order of the failing branch, then its tree.
UndoCloneNext(j) == IF j.owned = {"tree"} THEN j.owned ELSE j.owned \ {"tree"}

UndoNext(j) ==
    CASE j.checked # "none" -> {j.checked}
      [] j.checked = "none" /\ j.cmd = "clone" -> UndoCloneNext(j)
      [] OTHER -> UndoInReverse(j)

\* removeOwnedTree, removeExactCloneSnapshot: a clone compares its tree, or its
\* state file, and then removes it by its path.  Everything else is captured,
\* compared and removed, or compared and replaced, as one.
ByPath(j, t) == j.cmd = "clone" /\ t \in {"tree", "state"}

\* Mutant: a target that cannot be removed is passed over.
KeepTargetSilently(p) ==
    LET j == job[p] IN
    /\ j.pc = "undoing" /\ j.owned # {}
    /\ \E t \in UndoNext(j) :
         /\ \/ Changed(j, t) /\ ~CloneTreeGone(j, t) /\ UNCHANGED faults
            \/ ~Changed(j, t) /\ faults < MaxFaults /\ faults' = faults + 1
         /\ Becomes(p, [j EXCEPT !.owned = @ \ {t}, !.checked = "none"])
    /\ UNCHANGED <<world, user, commands, crashes>>

\* A target that is not the command's own any more stays, and so does one that
\* cannot be removed.  A clone records it here, but for the files of a branch
\* that only joins their errors.
KeepTarget(p) ==
    LET j == job[p] IN
    /\ j.pc = "undoing" /\ j.owned # {}
    /\ \E t \in UndoNext(j) :
         LET silent == j.cmd = "clone" /\ j.quiet /\ t # "tree" IN
         /\ \/ j.checked = "none" /\ Changed(j, t) /\ ~CloneTreeGone(j, t) /\ UNCHANGED faults
            \/ (j.checked = t \/ ~Changed(j, t)) /\ faults < MaxFaults /\ faults' = faults + 1
         /\ Becomes(p, [j EXCEPT !.owned = @ \ {t}, !.checked = "none",
                                 !.failed = @ \/ ~silent,
                                 !.left = IF silent THEN @ \cup {t} ELSE @])
         /\ recovery' = [recovery EXCEPT ![j.id] = @ \/ (j.cmd = "clone" /\ ~silent)]
    /\ UNCHANGED <<tree, config, state, registry, user, commands, crashes>>

\* restoreExactRegistrySnapshot, rollbackMaterializePublication, removeOwnedFile,
\* removeMaterializeChild.
UndoTarget(p) ==
    LET j == job[p] IN
    /\ j.pc = "undoing" /\ j.owned # {}
    /\ \E t \in UndoNext(j) :
         /\ ~ByPath(j, t) /\ ~Changed(j, t)
         /\ Unwritten(j, t)
         /\ Becomes(p, [j EXCEPT !.owned = @ \ {t}])
    /\ UNCHANGED <<user, bounds>>

CheckByPath(p) ==
    LET j == job[p] IN
    /\ j.pc = "undoing" /\ j.owned # {} /\ j.checked = "none"
    /\ \E t \in UndoNext(j) :
         /\ ByPath(j, t) /\ (~Changed(j, t) \/ CloneTreeGone(j, t))
         /\ Becomes(p, [j EXCEPT !.checked = t])
    /\ UNCHANGED <<world, user, bounds>>

\* What goes with the path of a target, whoever wrote it.
Exposed(j) ==
    CASE j.checked = "tree" -> AtPlace(j.place)
      [] j.checked = "state" -> {<<"state", j.id>>}
      [] OTHER -> {}

RemoveByPath(p) ==
    LET j == job[p] IN
    /\ j.pc = "undoing" /\ j.checked # "none"
    /\ Unwritten(j, j.checked)
    /\ Becomes(p, [j EXCEPT !.owned = @ \ {j.checked}, !.checked = "none"])
    /\ foreign' = foreign \ Exposed(j)
    /\ UNCHANGED <<userMoves, bounds>>

\* The end of rollback.  init keeps no record; writeMaterializeRecovery does
\* only while the base checkout is still the one it planned with.
EndRollback(p) ==
    LET j == job[p]
        outcome == IF j.failed THEN "incomplete" ELSE "clean"
    IN
    /\ j.pc = "undoing" /\ j.owned = {}
    /\ job' = [job EXCEPT ![p].pc = IF j.staging THEN "discarding" ELSE outcome,
                          ![p].end = outcome]
    /\ recovery' = [recovery EXCEPT ![j.id] =
                      @ \/ (j.failed /\ j.cmd = "materialize" /\ BaseUnchanged(j))]
    /\ UNCHANGED <<tree, config, state, registry, user, bounds>>

--------------------------------------------------------------------------------
(* The process dies; the user does what he likes with his files.           *)

Crash(p) ==
    /\ crashes < MaxCrashes /\ crashes' = crashes + 1
    /\ job[p].pc \in Running
    /\ job' = [job EXCEPT ![p].pc = "dead"]
    /\ UNCHANGED <<world, user, commands, faults>>

UserEdits ==
    /\ userMoves < MaxUserMoves /\ userMoves' = userMoves + 1
    /\ \E p \in Places, i \in Ids :
         \/ tree[p] = "group" /\ foreign' = foreign \cup {<<"tree", p>>}
         \/ p = BasePlace /\ tree[p] # "absent" /\ foreign' = foreign \cup {<<"base", p>>}
         \/ config[p] # None /\ foreign' = foreign \cup {<<"config", p>>}
         \/ state[i] # None /\ foreign' = foreign \cup {<<"state", i>>}
    /\ UNCHANGED <<world, job, bounds>>

\* Deleting a configuration or a tree, or moving a tree with the configuration
\* in it: what arrives is not what a command put there.
UserMoves ==
    /\ userMoves < MaxUserMoves /\ userMoves' = userMoves + 1
    /\ \E p \in Places :
         /\ tree[p] = "group"
         /\ \/ /\ config' = [config EXCEPT ![p] = None]
               /\ foreign' = foreign \ {<<"config", p>>}
               /\ UNCHANGED tree
            \/ /\ tree' = [tree EXCEPT ![p] = "absent"]
               /\ config' = [config EXCEPT ![p] = None]
               /\ foreign' = foreign \ AtPlace(p)
            \/ \E q \in Places :
                 /\ tree[q] = "absent"
                 /\ tree' = [tree EXCEPT ![p] = "absent", ![q] = "group"]
                 /\ config' = [config EXCEPT ![p] = None, ![q] = config[p]]
                 /\ foreign' = (foreign \ AtPlace(p)) \cup {<<"tree", q>>}
    /\ UNCHANGED <<state, registry, recovery, job, bounds>>

Next ==
    \/ \E p \in Procs :
         \/ Plan(p)
         \/ StageClone(p) \/ StageMaterialize(p)
         \/ DiscardClone(p) \/ DiscardMaterialize(p) \/ StagingKept(p)
         \/ LockTimeout(p) \/ Lock(p) \/ RecheckFails(p) \/ Recheck(p)
         \/ Remove(p) \/ Reconcile(p)
         \/ PublishInit(p) \/ PublishClone(p) \/ PublishMaterialize(p)
         \/ ReadBack(p) \/ LastCheckFails(p) \/ Published(p)
         \/ KeepTarget(p) \/ UndoTarget(p) \/ CheckByPath(p) \/ RemoveByPath(p)
         \/ EndRollback(p)
         \/ Crash(p)
    \/ UserEdits \/ UserMoves

Spec == Init /\ [][Next]_vars

--------------------------------------------------------------------------------
(* Properties.                                                             *)

\* One directory is never registered for two projects, whatever order inits,
\* clones, releases and relocations come in (registration_conflict.go).
OnePlaceOneProject ==
    \A i, k \in Ids : i # k /\ registry[i] = registry[k] => registry[i] = None

\* What a command may leave without saying so: a clone the files of the branches
\* that join the errors of their undoing without a mark (clone_execute.go:569,
\* 599, 603, 635, 655), a release the file it could not read back
\* (release_materialize.go:1097), init nothing.
Unsaid(j, t) == j.cmd # "init" /\ t \in j.left

\* A rollback that reports a clean end (error.go:92) left no entry and no default
\* state of its project, whatever the user and other commands did meanwhile, but
\* for what one of the branches of Unsaid passed over.
CleanLeavesNothing ==
    [][\A p \in Procs :
        job[p].cmd \in Publishers /\ job[p].pc = "undoing"
        /\ job'[p].pc # "undoing" /\ job'[p].end = "clean"
        => /\ registry'[job[p].id] = None \/ Unsaid(job[p], "registry")
           /\ state'[job[p].id] = None \/ Unsaid(job[p], "state")]_vars

\* The registry is one file, written whole: no command changes the entry of
\* another project, by a stale copy or by restoring one in its rollback.
EntriesKept ==
    [][\A i \in Ids : registry'[i] # registry[i] =>
            \E p \in Procs : Holds(p) /\ job[p].id = i]_vars

ContentKept(k) ==
    CASE k[1] = "tree" -> tree'[k[2]] = tree[k[2]]
      [] k[1] = "base" -> tree'[k[2]] # "absent"
      [] k[1] = "config" -> config'[k[2]] = config[k[2]]
      [] k[1] = "state" -> state'[k[2]] = state[k[2]]

\* Rollback keeps what it cannot prove to be its own (README.md:599): no step
\* of a command replaces or removes what the user changed.  The two exceptions
\* are the tree and the state file of a clone, changed between the comparison of
\* a rollback that is under way and the removal by path that follows it
\* (clone_execute.go:873, 143).
ForeignSurvives ==
    [][\/ userMoves' # userMoves
       \/ \A k \in foreign :
            \/ ContentKept(k)
            \/ \E p \in Procs : job[p].pc = "undoing" /\ k \in Exposed(job[p])]_vars

\* README.md:537: the retained configuration of an unregistered project can
\* register it again when a mutating command is run from it.
MutationRegistersAgain ==
    [][\A p \in Procs :
        job[p].cmd = "mutate" /\ job[p].pc = "locked" /\ job'[p].pc = "ok"
        /\ config[job[p].place] = job[p].id
        => registry'[job[p].id] # None]_vars
================================================================================
