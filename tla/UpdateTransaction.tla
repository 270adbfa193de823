-------------------------- MODULE UpdateTransaction --------------------------
(***************************************************************************)
(* One `wtree update`: UpdateExecutor.Execute, CompleteUpdate and Recover  *)
(* (service/update_execute.go, update_publication.go).  Repositories are   *)
(* fetched and fast-forwarded, or cloned and moved into place, each step   *)
(* journaled; then local config, workspace state and registry are          *)
(* published; then the journal and its backups are removed.  A failure     *)
(* undoes what was done; a crash leaves it to Recover.                     *)
(*                                                                         *)
(* The project lock excludes other wtree operations on the project while a *)
(* call runs, and the journal does between them, so there is one process.  *)
(* What it does not exclude are the user's own commits and fetches, edits  *)
(* of the files, and operations on other projects, which share the         *)
(* registry: these are the moves of others.                                *)
(***************************************************************************)
EXTENDS UpdateJournal

CONSTANTS
    Effects,        \* the repositories the plan changes, parent first
    Additions,      \* those of them that are cloned; the rest are fast-forwarded
    Base,           \* the repository that holds the tracked manifest
    Targets,        \* the files CompleteUpdate publishes, in its order
    MaxFaults,      \* bound on calls that fail and cancellations noticed
    MaxCrashes,     \* bound on deaths of the process
    MaxMoves        \* bound on what others do

Elements(seq) == {seq[i] : i \in DOMAIN seq}
Repos == Elements(Effects)
Files == Elements(Targets)

ASSUME PlanAssumption ==
    /\ Effects \in Seq(Repos) /\ Targets \in Seq(Files)
    /\ \A i, j \in DOMAIN Effects : Effects[i] = Effects[j] => i = j
    /\ \A i, j \in DOMAIN Targets : Targets[i] = Targets[j] => i = j
    /\ Additions \subseteq Repos
    /\ Base \in Repos \ Additions
    /\ Repos \cap Files = {} /\ (Repos \cup Files) \cap Synthetic = {}
    /\ "nothing" \notin Repos      \* it stands for "no effect" below
    /\ MaxFaults \in Nat /\ MaxCrashes \in Nat /\ MaxMoves \in Nat

VARIABLES
    head,           \* [Repos -> generation of the checkout at its mount]
    side,           \* [Repos -> of the tracking ref; of an addition, its staging]
    manifest,       \* generation of the tracked manifest in the base checkout
    file,           \* [Files -> generation]
    disk,           \* the journal on disk, or NoJournal
    private,        \* the operation directory, its backups, the public summary
    committed,      \* history: the journal has said that the update succeeded
    proc,           \* the process: its call, its memory and its result
    budget          \* faults, crashes and moves so far

world == <<head, side, manifest, file>>
vars == <<head, side, manifest, file, disk, private, committed, proc, budget>>

Idle == [pc |-> "idle", call |-> "update", background |-> FALSE,
         journal |-> NoJournal, at |-> 0, done |-> 0, failed |-> "nothing",
         known |-> "none", moved |-> FALSE, rollback |-> FALSE,
         before |-> [k \in Files |-> "before"], outcome |-> "none",
         result |-> "none"]

Init ==
    /\ head = [r \in Repos |-> "before"]
    /\ side = [r \in Repos |-> "before"]
    /\ manifest = "before"
    /\ file = [k \in Files |-> "before"]
    /\ disk = NoJournal
    /\ private = [operation |-> FALSE, backups |-> "none", summary |-> FALSE]
    /\ committed = FALSE
    /\ proc = Idle
    /\ budget = [faults |-> 0, crashes |-> 0, moves |-> 0]

-----------------------------------------------------------------------------
(* The process and its journal                                              *)

Works == UNCHANGED budget
Breaks == budget.faults < MaxFaults /\ budget' = [budget EXCEPT !.faults = @ + 1]

At(pc) == proc.pc = pc
Goes(p, pc) == [p EXCEPT !.pc = pc]
Ends(p, result) == [p EXCEPT !.pc = "ended", !.result = result]

Stores(journal) == disk # NoJournal /\ Valid(journal)

\* writeUpdateJournalAt: written; or written, but canceled after, unless the call
\* has gone on to clean up under a context of its own; or not written.
WriteAt(journal, written, failed) ==
    \/ Stores(journal) /\ disk' = journal /\ Works /\ proc' = written
    \/ /\ Stores(journal) /\ disk' = journal
       /\ ~proc.background /\ Breaks /\ proc' = failed
    \/ UNCHANGED disk /\ Breaks /\ proc' = failed
    \/ ~Stores(journal) /\ UNCHANGED <<disk, budget>> /\ proc' = failed

\* The same where the code ignores the error.
WriteAnyway(journal, next) ==
    /\ proc' = next
    /\ \/ Stores(journal) /\ disk' = journal /\ Works
       \/ UNCHANGED disk /\ Breaks
       \/ ~Stores(journal) /\ UNCHANGED <<disk, budget>>

-----------------------------------------------------------------------------
(* Execute                                                                  *)

\* Under the lock the world is captured again; it is still what was planned for,
\* or the update refuses.
AsPlanned ==
    /\ \A r \in Repos : head[r] = "before" /\ side[r] # "after"
    /\ \A k \in Files : file[k] = "before"
    /\ manifest = "before"

Start ==
    /\ At("idle")
    /\ \/ /\ ~AsPlanned
          /\ proc' = Ends(proc, "refused") /\ Works /\ UNCHANGED private
       \/ /\ AsPlanned
          /\ private' = [private EXCEPT !.operation = TRUE, !.backups = "all"]
          /\ proc' = Goes(proc, "create") /\ Works
       \/ /\ AsPlanned /\ Breaks
          /\ \E left \in {"none", "some"} :
                private' = [private EXCEPT !.operation = TRUE, !.backups = left]
          /\ proc' = Ends(proc, "failed")
    /\ UNCHANGED <<world, disk, committed>>

\* fail begins: what follows is not canceled.
Fails(p, failed) ==
    [p EXCEPT !.pc = "fail", !.background = TRUE, !.failed = failed]

Create ==
    LET created == [proc EXCEPT !.pc = "effect", !.at = 1, !.journal = NewJournal]
    IN /\ At("create")
       /\ \/ disk' = NewJournal /\ Works /\ proc' = created /\ UNCHANGED private
          \/ /\ disk' = NewJournal /\ Breaks
             /\ proc' = Fails(created, "nothing") /\ UNCHANGED private
          \/ \* not written: the backups are removed if the write was tried
             /\ UNCHANGED disk /\ Breaks /\ proc' = Ends(proc, "failed")
             /\ \/ private' = [private EXCEPT !.backups = "none"]
                \/ UNCHANGED private
       /\ UNCHANGED <<world, committed>>

EffectsLeft == proc.at <= Len(Effects)
Current == Effects[proc.at]

\* Mutant: the effect is prepared first and entered after.
StartEffectLate ==
    LET entered == [proc EXCEPT !.journal = Started(@, Current), !.known = "none",
                                !.moved = FALSE]
    IN /\ At("effect") /\ EffectsLeft
       /\ proc' = Goes(entered, "prepare")
       /\ UNCHANGED <<world, disk, private, committed, budget>>

\* The entry is on disk before anything is done to the repository.
StartEffect ==
    LET entered == [proc EXCEPT !.journal = Started(@, Current), !.known = "none",
                                !.moved = FALSE]
    IN /\ At("effect") /\ EffectsLeft
       /\ \/ /\ WriteAt(entered.journal, Goes(entered, "prepare"),
                        Fails(entered, "nothing"))
          \/ UNCHANGED disk /\ Breaks /\ proc' = Fails(proc, "nothing")
       /\ UNCHANGED <<world, private, committed>>

\* Prepare: the fetch of the tracking ref, or the clone into staging.  It fails
\* before it did anything, or after; and then with a receipt or without.  The
\* receipt of a fetch that did nothing is only good for a ref that was ahead.
Prepare ==
    LET receipt == IF Current \in Additions THEN "before" ELSE side[Current]
        known == [proc EXCEPT !.known = receipt]
    IN /\ At("prepare")
       /\ \/ UNCHANGED side /\ Breaks /\ proc' = Fails(proc, Current)
          \/ /\ UNCHANGED side /\ side[Current] = "theirs" /\ Breaks
             /\ proc' = Fails([proc EXCEPT !.known = "unfetched"], Current)
          \/ /\ side' = [side EXCEPT ![Current] = "after"]
             /\ \/ Works /\ proc' = Goes(known, "prepared")
                \/ Breaks /\ proc' \in {Fails(known, Current), Fails(proc, Current)}
       /\ UNCHANGED <<head, manifest, file, disk, private, committed>>

Prepared ==
    LET prepared == [proc EXCEPT !.journal = WithReceipt(@, "prepared", proc.known)]
    IN /\ At("prepared")
       /\ WriteAt(prepared.journal, Goes(prepared, "execute"), Fails(prepared, Current))
       /\ UNCHANGED <<world, private, committed>>

\* FastForward refuses a branch that moved and a checkout that is not clean; an
\* addition is renamed from staging into an absent mount.
CanExecute(r) ==
    /\ head[r] = "before"
    /\ r = Base => manifest = "before"

Arrives(r) ==
    /\ head' = [head EXCEPT ![r] = "after"]
    /\ side' = IF r \in Additions THEN [side EXCEPT ![r] = "before"] ELSE side
    /\ manifest' = IF r = Base THEN "after" ELSE manifest

Execute ==
    /\ At("execute")
    /\ \/ /\ CanExecute(Current) /\ Arrives(Current)
          /\ \/ Works /\ proc' = Goes([proc EXCEPT !.moved = TRUE], "completed")
             \/ Breaks /\ proc' = Fails([proc EXCEPT !.moved = TRUE], Current)
       \/ /\ UNCHANGED <<head, side, manifest>>
          /\ proc' = Fails(proc, Current)
          /\ IF CanExecute(Current) THEN Breaks ELSE Works
    /\ UNCHANGED <<file, disk, private, committed>>

\* The effect counts as completed, and is rolled back, even if its entry fails.
Completed ==
    LET completed == [proc EXCEPT !.journal = WithReceipt(@, "completed", proc.known),
                                  !.done = proc.at]
    IN /\ At("completed")
       /\ WriteAt(completed.journal,
                  [completed EXCEPT !.pc = "effect", !.at = @ + 1],
                  Fails(completed, "nothing"))
       /\ UNCHANGED <<world, private, committed>>

\* The base checkout has the candidate manifest and the backups are whole: the
\* active journal is handed to CompleteUpdate, and the lock released.
HandOff ==
    /\ At("effect") /\ ~EffectsLeft
    /\ \/ head[Base] = "after" /\ Works /\ proc' = Goes(proc, "executed")
       \/ head[Base] # "after" /\ Works /\ proc' = Fails(proc, "nothing")
       \/ Breaks /\ proc' = Fails(proc, "nothing")
    /\ UNCHANGED <<world, disk, private, committed>>

-----------------------------------------------------------------------------
(* The inverses                                                             *)

\* Either the inverse of a fast-forward, given the tracking ref's prior
\* generation: the branch first, if it is where the update left it and the
\* checkout is clean, then the ref, by compare-and-swap.  The branch may be
\* restored and the ref not.
HeadRestorable(r) == head[r] = "after" /\ (r = Base => manifest = "after")

HeadRestored(r) ==
    /\ head' = [head EXCEPT ![r] = "before"]
    /\ manifest' = IF r = Base /\ head[r] = "after" THEN "before" ELSE manifest

Fetched(prior) == IF prior = "unfetched" THEN "theirs" ELSE "after"
Unfetched(prior) == IF prior = "unfetched" THEN "theirs" ELSE prior

UndoFastForward(r, prior, undone, kept) ==
    LET owned == prior # "none" /\ (head[r] = "before" \/ HeadRestorable(r))
        fetched == side[r] = Fetched(prior)
    IN \/ /\ owned /\ fetched /\ HeadRestored(r)
          /\ side' = [side EXCEPT ![r] = Unfetched(prior)]
          /\ Works /\ proc' = undone
       \/ /\ owned /\ HeadRestored(r) /\ UNCHANGED side
          /\ IF fetched THEN Breaks ELSE Works
          /\ proc' = kept
       \/ /\ UNCHANGED <<head, side, manifest>>
          /\ IF owned THEN Breaks ELSE Works
          /\ proc' = kept

\* The inverse of an addition removes the tree the receipt describes, from the
\* mount or from staging.
UndoAddition(r, mine, undone, kept) ==
    \/ /\ mine /\ Works /\ proc' = undone
       /\ head' = IF head[r] = "after" THEN [head EXCEPT ![r] = "before"] ELSE head
       /\ side' = [side EXCEPT ![r] = "before"]
       /\ UNCHANGED manifest
    \/ /\ UNCHANGED <<head, side, manifest>> /\ proc' = kept
       /\ IF mine THEN Breaks ELSE Works

\* Cleanup and Rollback know what this process did: published, or only staged.
Undo(r, prior, moved, undone, kept) ==
    IF r \in Additions
    THEN LET mine == IF moved THEN head[r] = "after"
                     ELSE side[r] = "before" \/ prior # "none"
         IN UndoAddition(r, mine, undone, kept)
    ELSE UndoFastForward(r, prior, undone, kept)

\* fail: the journal says so first, as well as it can.
FailStart ==
    LET failing == [proc EXCEPT !.journal.state = "rolling-back"]
        last == Len(proc.journal.progress)
        unstarted == IF proc.failed = "nothing" /\ last # 0
                           /\ proc.journal.progress[last].state = "started"
                     THEN [failing EXCEPT !.journal = Mark(@, last, "rolled-back")]
                     ELSE failing
    IN /\ At("fail")
       /\ WriteAnyway(failing.journal,
                      [unstarted EXCEPT !.at = unstarted.done,
                           !.pc = IF proc.failed = "nothing" THEN "rollback" ELSE "cleanup"])
       /\ UNCHANGED <<world, private, committed>>

Undone(i, pc, at) ==
    [proc EXCEPT !.journal = Mark(@, i, "rolled-back"), !.pc = pc, !.at = at]
Kept(i, pc, at) ==
    [proc EXCEPT !.journal = Mark(@, i, "unreverted"), !.pc = pc, !.at = at,
                 !.rollback = TRUE]

CleanUpFailed ==
    LET last == Len(proc.journal.progress)
    IN /\ At("cleanup")
       /\ Undo(proc.failed, proc.known, proc.moved,
               Undone(last, "rollback", proc.at), Kept(last, "rollback", proc.at))
       /\ UNCHANGED <<file, disk, private, committed>>

RollbackEffect ==
    LET entry == proc.journal.progress[proc.at]
    IN /\ At("rollback") /\ proc.at > 0
       /\ Undo(entry.name, entry.receipt, TRUE,
               Undone(proc.at, "rollback", proc.at - 1),
               Kept(proc.at, "rollback", proc.at - 1))
       /\ UNCHANGED <<file, disk, private, committed>>

RollbackEnds ==
    LET incomplete == [proc.journal EXCEPT !.state = "incomplete"]
    IN /\ At("rollback") /\ proc.at = 0
       /\ IF proc.rollback \/ private.backups # "all"
          THEN WriteAnyway(incomplete, Ends(proc, "incomplete"))
          ELSE /\ proc' = [proc EXCEPT !.pc = "terminal", !.outcome = "rolled-back"]
               /\ UNCHANGED <<disk, budget>>
       /\ UNCHANGED <<world, private, committed>>

-----------------------------------------------------------------------------
(* CompleteUpdate                                                           *)

\* The lock is taken again and the journal read; or it cannot be, and the active
\* journal stays.
OpenPublication ==
    /\ At("executed")
    /\ \/ Works /\ proc' = [proc EXCEPT !.pc = "targets", !.journal = disk, !.done = 0]
       \/ Breaks /\ proc' = Ends(proc, "failed")
    /\ UNCHANGED <<world, disk, private, committed>>

Unpublishes(p) == [p EXCEPT !.pc = "unpublish", !.at = p.done, !.background = TRUE]

\* updatePublicationTargets: the new bytes are made from the planned generation;
\* the compare-and-swap will be against the generation there is now.
BuildTargets ==
    /\ At("targets")
    /\ \/ /\ \A r \in Repos : head[r] = "after"
          /\ Works
          /\ proc' = [proc EXCEPT !.pc = "publish", !.at = 1, !.before = file]
       \/ (\E r \in Repos : head[r] # "after") /\ Works /\ proc' = Unpublishes(proc)
       \/ Breaks /\ proc' = Unpublishes(proc)
    /\ UNCHANGED <<world, disk, private, committed>>

\* Mutant: the file is written without comparing.
PublishAnyway ==
    /\ At("publish") /\ proc.at <= Len(Targets)
    /\ file' = [file EXCEPT ![Targets[proc.at]] = "after"]
    /\ proc' = [proc EXCEPT !.pc = "record", !.done = proc.at]
    /\ UNCHANGED <<head, side, manifest, disk, private, committed, budget>>

\* store.WriteRawCAS.
Publish ==
    LET k == Targets[proc.at]
    IN /\ At("publish") /\ proc.at <= Len(Targets)
       /\ \/ /\ file[k] = proc.before[k]
             /\ file' = [file EXCEPT ![k] = "after"]
             /\ Works /\ proc' = [proc EXCEPT !.pc = "record", !.done = proc.at]
          \/ /\ file[k] # proc.before[k] /\ UNCHANGED file
             /\ Works /\ proc' = Unpublishes(proc)
          \/ UNCHANGED file /\ Breaks /\ proc' = Unpublishes(proc)
       /\ UNCHANGED <<head, side, manifest, disk, private, committed>>

\* The entry follows the file.
Record ==
    LET entered == [proc EXCEPT
            !.journal = Append1(@, Entry(Targets[proc.at], "completed", "before"))]
    IN /\ At("record")
       /\ WriteAt(entered.journal, [entered EXCEPT !.pc = "publish", !.at = @ + 1],
                  Unpublishes(entered))
       /\ UNCHANGED <<world, private, committed>>

\* verifyPublishedUpdate and updatePublicationResult read everything once more.
AsPublished ==
    /\ \A k \in Files : file[k] = "after"
    /\ \A r \in Repos : head[r] = "after"

Verify ==
    /\ At("publish") /\ proc.at > Len(Targets)
    /\ \/ /\ AsPublished /\ Works
          /\ proc' = [proc EXCEPT !.pc = "terminal", !.outcome = "success"]
       \/ ~AsPublished /\ Works /\ proc' = Unpublishes(proc)
       \/ Breaks /\ proc' = Unpublishes(proc)
    /\ UNCHANGED <<world, disk, private, committed>>

\* Mutant: the loop stops before the first file that was published.
UnpublishButFirst ==
    LET k == Targets[proc.at]
    IN /\ At("unpublish") /\ proc.at > 0
       /\ file' = IF proc.at > 1 THEN [file EXCEPT ![k] = proc.before[k]] ELSE file
       /\ proc' = [proc EXCEPT !.at = @ - 1]
       /\ UNCHANGED <<head, side, manifest, disk, private, committed, budget>>

\* rollbackPublishedUpdate: what this process published goes back to what it
\* replaced, if it is still there.  The journal is not told; Recover follows.
Unpublish ==
    LET k == Targets[proc.at]
    IN /\ At("unpublish") /\ proc.at > 0
       /\ \/ /\ file[k] = "after" /\ Works
             /\ file' = [file EXCEPT ![k] = proc.before[k]]
             /\ proc' = [proc EXCEPT !.at = @ - 1]
          \/ /\ UNCHANGED file /\ proc' = Ends(proc, "incomplete")
             /\ IF file[k] = "after" THEN Breaks ELSE Works
       /\ UNCHANGED <<head, side, manifest, disk, private, committed>>

UnpublishEnds ==
    /\ At("unpublish") /\ proc.at = 0
    /\ \/ Works /\ proc' = Goes(proc, "recover")
       \/ Breaks /\ proc' = Ends(proc, "failed")     \* the lock is not had again
    /\ UNCHANGED <<world, disk, private, committed>>

-----------------------------------------------------------------------------
(* Recover                                                                  *)

\* Recover is called with the plan after the process died or its update failed.
CallRecover ==
    /\ proc.pc = "down" \/ (At("ended") /\ proc.result \in {"failed", "incomplete"})
    /\ proc' = [Idle EXCEPT !.pc = "recover", !.call = "recover"]
    /\ UNCHANGED <<world, disk, private, committed, budget>>

StagingIsEmpty == \A r \in Additions : side[r] = "before"
IsEmpty == private.backups = "none" /\ StagingIsEmpty

\* Mutant: a journal that was cleaning up is rolled back like any other.
OpenJournalAlways ==
    LET rolling == [proc EXCEPT !.journal = [disk EXCEPT !.state = "rolling-back",
                                                         !.outcome = "none"]]
    IN /\ At("recover") /\ disk # NoJournal
       /\ WriteAt(rolling.journal,
                  [rolling EXCEPT !.pc = "undo", !.at = Len(disk.progress)],
                  Goes(rolling, "incomplete"))
       /\ UNCHANGED <<world, private, committed>>

OpenJournal ==
    LET opened == [proc EXCEPT !.journal = disk]
        rolling == [opened EXCEPT !.journal.state = "rolling-back"]
    IN /\ At("recover") /\ disk # NoJournal
       /\ IF Terminal(disk)
          THEN /\ proc' = [opened EXCEPT !.pc = "terminal", !.outcome = disk.outcome]
               /\ UNCHANGED <<disk, budget>>
          ELSE IF private.backups # "all"
          THEN proc' = Goes(opened, "incomplete") /\ UNCHANGED <<disk, budget>>
          ELSE WriteAt(rolling.journal,
                       [rolling EXCEPT !.pc = "undo", !.at = Len(disk.progress)],
                       Goes(rolling, "incomplete"))
       /\ UNCHANGED <<world, private, committed>>

\* recoverTerminalSummary: no journal is left, but its directory or the summary
\* may be.
NoActiveJournal ==
    /\ At("recover") /\ disk = NoJournal
    /\ proc' = IF ~private.summary
               THEN Ends(proc, IF private.operation THEN "incomplete" ELSE "recovered")
               ELSE IF ~private.operation THEN Goes(proc, "removeSummary")
               ELSE IF IsEmpty THEN Goes(proc, "removeOperation")
                    ELSE Ends(proc, "incomplete")
    /\ UNCHANGED <<world, disk, private, committed, budget>>

RecoverSkips ==
    /\ At("undo") /\ proc.at > 0
    /\ proc.journal.progress[proc.at].state = "rolled-back"
    /\ proc' = [proc EXCEPT !.at = @ - 1]
    /\ UNCHANGED <<world, disk, private, committed, budget>>

\* restorePublishedUpdateGeneration: back to the backup, unless it is there
\* already or somebody else's generation is.
UndoPublication(k, undone, kept) ==
    \/ /\ file[k] # "theirs" /\ file' = [file EXCEPT ![k] = "before"]
       /\ Works /\ proc' = undone
    \/ /\ UNCHANGED file /\ proc' = kept
       /\ IF file[k] # "theirs" THEN Breaks ELSE Works

\* recoverPreparedAddition: gone, or in staging or at its mount and not in both.
RecoverAddition(r, receipt, undone, kept) ==
    LET gone == side[r] = "before" /\ head[r] = "before"
        mine == gone \/ (receipt # "none" /\ (side[r] = "after") # (head[r] = "after")
                         /\ head[r] # "theirs")
    IN UndoAddition(r, mine, undone, kept)

\* recoverJournalEffectForRequest, for an entry that has what it needs.
RecoverEffect ==
    LET entry == proc.journal.progress[proc.at]
        undone == Undone(proc.at, "undone", proc.at)
        kept == Goes(proc, "incomplete")
    IN /\ At("undo") /\ proc.at > 0
       /\ entry.state # "rolled-back"
       /\ \/ /\ entry.state = "started" \/ entry.name \in Synthetic
             /\ proc' = kept
             /\ UNCHANGED <<world, budget>>
          \/ /\ entry.state # "started" /\ entry.name \in Files
             /\ UndoPublication(entry.name, undone, kept)
             /\ UNCHANGED <<head, side, manifest>>
          \/ /\ entry.state # "started" /\ entry.name \in Repos
             /\ IF entry.name \in Additions
                THEN RecoverAddition(entry.name, entry.receipt, undone, kept)
                ELSE UndoFastForward(entry.name, entry.receipt, undone, kept)
             /\ UNCHANGED file
       /\ UNCHANGED <<disk, private, committed>>

\* The entry is rolled back on disk before the next one is undone.
RecoverRecords ==
    /\ At("undone")
    /\ WriteAt(proc.journal, [proc EXCEPT !.pc = "undo", !.at = @ - 1],
               Goes(proc, "incomplete"))
    /\ UNCHANGED <<world, private, committed>>

\* restoreTrackedManifestBackup.
RecoverManifest ==
    /\ At("undo") /\ proc.at = 0
    /\ \/ /\ manifest # "theirs" /\ manifest' = "before"
          /\ Works
          /\ proc' = [proc EXCEPT !.pc = "terminal", !.outcome = "rolled-back"]
       \/ /\ UNCHANGED manifest /\ proc' = Goes(proc, "incomplete")
          /\ IF manifest = "theirs" THEN Works ELSE Breaks
    /\ UNCHANGED <<head, side, file, disk, private, committed>>

RecoverIncomplete ==
    LET retained == RecoveryIncomplete(proc.journal)
    IN /\ At("incomplete")
       /\ WriteAnyway(retained, Ends(proc, "incomplete"))
       /\ UNCHANGED <<world, private, committed>>

-----------------------------------------------------------------------------
(* terminalCleanup                                                          *)

Retains(p) == [p EXCEPT !.pc = "retain"]

\* The outcome is on disk before any evidence is removed.
TerminalStart ==
    LET cleaning == CleaningJournal(proc.journal, proc.outcome)
        next == [proc EXCEPT !.pc = "summary", !.journal = cleaning]
    IN /\ At("terminal")
       /\ IF ~Valid(cleaning)
          THEN proc' = Ends(proc, "incomplete") /\ UNCHANGED <<disk, budget, committed>>
          ELSE IF proc.journal.state = "cleaning"
          THEN proc' = next /\ UNCHANGED <<disk, budget, committed>>
          ELSE /\ WriteAt(cleaning, next, Retains(proc))
               /\ committed' = (committed \/ (disk' = cleaning /\ proc.outcome = "success"))
       /\ UNCHANGED <<world, private>>

\* publishUpdateTerminalRecovery, unless the summary is there from before.
PublishSummary ==
    /\ At("summary")
    /\ \/ private' = [private EXCEPT !.summary = TRUE] /\ Works /\ proc' = Goes(proc, "backups")
       \/ /\ ~private.summary /\ Breaks /\ proc' = Retains(proc)
          /\ \E there \in BOOLEAN : private' = [private EXCEPT !.summary = there]
    /\ UNCHANGED <<world, disk, committed>>

\* removeCleaningUpdateBackups goes on from whatever is left of them.
RemoveBackups ==
    /\ At("backups")
    /\ \/ private' = [private EXCEPT !.backups = "none"] /\ Works /\ proc' = Goes(proc, "staging")
       \/ /\ Breaks /\ proc' = Retains(proc)
          /\ \E left \in {private.backups, "none"} \cup
                         (IF private.backups = "all" THEN {"some"} ELSE {}) :
                private' = [private EXCEPT !.backups = left]
    /\ UNCHANGED <<world, disk, committed>>

RemoveStaging ==
    /\ At("staging")
    /\ \/ StagingIsEmpty /\ Works /\ proc' = Goes(proc, "removeJournal")
       \/ ~StagingIsEmpty /\ Works /\ proc' = Retains(proc)
       \/ Breaks /\ proc' = Retains(proc)
    /\ UNCHANGED <<world, disk, private, committed>>

RemoveJournal ==
    /\ At("removeJournal")
    /\ \/ disk' = NoJournal /\ Works /\ proc' = Goes(proc, "removeOperation")
       \/ disk' \in {disk, NoJournal} /\ Breaks /\ proc' = Retains(proc)
    /\ UNCHANGED <<world, private, committed>>

\* Without a journal to keep, only the summary stays behind a failure.
RemoveOperation ==
    /\ At("removeOperation")
    /\ \/ /\ IsEmpty /\ private' = [private EXCEPT !.operation = FALSE]
          /\ \/ Works /\ proc' = Goes(proc, "removeSummary")
             \/ ~proc.background /\ Breaks /\ proc' = Ends(proc, "incomplete")
       \/ /\ UNCHANGED private
          /\ IF IsEmpty THEN Breaks ELSE Works
          /\ proc' = IF proc.journal = NoJournal THEN Ends(proc, "incomplete") ELSE Retains(proc)
    /\ UNCHANGED <<world, disk, committed>>

FinalResult ==
    IF proc.call = "recover" THEN "recovered"
    ELSE IF proc.outcome = "success" THEN "completed" ELSE "rolled-back"

RemoveSummary ==
    /\ At("removeSummary")
    /\ \/ /\ private' = [private EXCEPT !.summary = FALSE]
          /\ Works /\ proc' = Ends(proc, FinalResult)
       \/ UNCHANGED private /\ Breaks /\ proc' = Ends(proc, "incomplete")
    /\ UNCHANGED <<world, disk, committed>>

\* retainTerminalCleanupFailure: the journal is written again, or written anew if
\* it had been removed; failing that, the summary is what is left.
Retain ==
    LET retained == CleanupIncomplete(proc.journal)
    IN /\ At("retain")
       /\ proc' = Ends(proc, "incomplete")
       /\ \/ private.operation /\ Valid(retained) /\ disk' = retained /\ Works
          \/ UNCHANGED disk /\ Breaks
          \/ ~(private.operation /\ Valid(retained)) /\ UNCHANGED <<disk, budget>>
       /\ UNCHANGED <<world, private, committed>>

-----------------------------------------------------------------------------
(* Crashes and others                                                       *)

Running == proc.pc \notin {"idle", "ended", "down"}

Crash ==
    /\ Running /\ budget.crashes < MaxCrashes
    /\ budget' = [budget EXCEPT !.crashes = @ + 1]
    /\ proc' = [Idle EXCEPT !.pc = "down"]
    /\ UNCHANGED <<world, disk, private, committed>>

Move ==
    /\ budget.moves < MaxMoves
    /\ budget' = [budget EXCEPT !.moves = @ + 1]
    /\ UNCHANGED <<disk, private, committed, proc>>

\* A commit, or a change in what was added; a fetch; an edit of the manifest; an
\* edit of a file, or another project's update of the registry.
SomebodyCommits ==
    /\ Move /\ \E r \in Repos : head' = [head EXCEPT ![r] = "theirs"]
    /\ UNCHANGED <<side, manifest, file>>

SomebodyFetches ==
    /\ Move /\ \E r \in Repos \ Additions : side' = [side EXCEPT ![r] = "theirs"]
    /\ UNCHANGED <<head, manifest, file>>

SomebodyEditsManifest ==
    /\ Move /\ manifest' = "theirs"
    /\ UNCHANGED <<head, side, file>>

SomebodyPublishes ==
    /\ Move /\ \E k \in Files : file' = [file EXCEPT ![k] = "theirs"]
    /\ UNCHANGED <<head, side, manifest>>

ExecuteStep ==
    Start \/ Create \/ StartEffect \/ Prepare \/ Prepared \/ Execute \/ Completed
    \/ HandOff \/ FailStart \/ CleanUpFailed \/ RollbackEffect \/ RollbackEnds
CompleteStep ==
    OpenPublication \/ BuildTargets \/ Publish \/ Record \/ Verify \/ Unpublish
    \/ UnpublishEnds
RecoverStep ==
    CallRecover \/ OpenJournal \/ NoActiveJournal \/ RecoverSkips \/ RecoverEffect
    \/ RecoverRecords \/ RecoverManifest \/ RecoverIncomplete
TerminalStep ==
    TerminalStart \/ PublishSummary \/ RemoveBackups \/ RemoveStaging \/ RemoveJournal
    \/ RemoveOperation \/ RemoveSummary \/ Retain
Others ==
    SomebodyCommits \/ SomebodyFetches \/ SomebodyEditsManifest \/ SomebodyPublishes

Step == ExecuteStep \/ CompleteStep \/ RecoverStep \/ TerminalStep
Next == Step \/ Crash \/ Others

\* A call that is running goes on; nobody has to call Recover.
Spec == Init /\ [][Next]_vars /\ WF_vars(Running /\ Step)

-----------------------------------------------------------------------------
(* Properties                                                               *)

Receipts == {"none", "before", "theirs"}

JournalType(journal) ==
    /\ journal.state \in JournalStates \cup {"absent"}
    /\ journal.outcome \in Outcomes
    /\ \A i \in DOMAIN journal.progress :
          journal.progress[i] \in [name : Repos \cup Files \cup Synthetic,
                                   state : EntryStates, receipt : Receipts]

\* Every variable has its type, and the journal on disk is one that
\* UpdateJournal.Validate accepts: it can always be read back.
TypeOK ==
    /\ head \in [Repos -> Generations]
    /\ side \in [Repos -> Generations]
    /\ manifest \in Generations
    /\ file \in [Files -> Generations]
    /\ disk = NoJournal \/ (JournalType(disk) /\ Valid(disk))
    /\ private \in [operation : BOOLEAN, backups : {"none", "some", "all"},
                    summary : BOOLEAN]
    /\ committed \in BOOLEAN
    /\ JournalType(proc.journal)
    /\ proc.at \in 0..(Len(Effects) + Len(Targets) + 1)
    /\ proc.known \in Receipts \cup {"unfetched"}

\* The result the caller is told is true of the repositories and the files: after
\* "completed" nothing planned is left undone and nothing private is left behind;
\* after a clean rollback nothing of the update is left, files and tracked manifest
\* included; after a recovery of an update that had not succeeded, no checkout and
\* no tracking ref is left where the update put it.
\* (Execute, CompleteUpdate, NewCleanRollbackError, Recover.)
Untouched == \A r \in Repos : head[r] # "after" /\ side[r] # "after"

OutcomeIsTrue ==
    /\ At("ended") /\ proc.result = "completed" =>
          /\ \A r \in Repos : head[r] # "before"
          /\ \A k \in Files : file[k] # "before"
          /\ disk = NoJournal /\ private.backups = "none" /\ ~private.operation
    /\ At("ended") /\ proc.result = "rolled-back" =>
          Untouched /\ manifest # "after" /\ \A k \in Files : file[k] # "after"
    /\ At("ended") /\ proc.result = "recovered" /\ ~committed => Untouched

\* Whatever the update did to a repository, and has not committed, the journal on
\* disk has an entry for it that does not claim to be rolled back: no crash, failed
\* write or interrupted recovery leaves a change without evidence, and the journal
\* keeps the project refused to others (RefuseActiveUpdateJournal).
RepositoryEvidence ==
    \A r \in Repos :
        ~committed /\ (head[r] = "after" \/ side[r] = "after") =>
            \E i \in DOMAIN disk.progress :
                disk.progress[i].name = r /\ disk.progress[i].state # "rolled-back"

\* The public summary of a cleanup says the truth for as long as it is there: either
\* the journal names the outcome that was reached, or the journal is gone and
\* nothing it accounted for is left, so that Recover has only an empty directory to
\* remove (terminalCleanup, recoverTerminalSummary).
SummaryIsTrue ==
    private.summary => IF disk = NoJournal THEN IsEmpty ELSE Terminal(disk)

\* Once the journal has said that the update succeeded, nothing takes a checkout, a
\* tracking ref, the manifest or a file back: an interrupted cleanup is resumed and
\* never mistaken for an update to undo (TerminalOutcome).
SuccessIsNeverUndone ==
    [][committed =>
         /\ \A r \in Repos : /\ head[r] = "after" => head'[r] # "before"
                             /\ side[r] = "after" => side'[r] = "after" \/ side'[r] = "theirs"
         /\ manifest = "after" => manifest' # "before"
         /\ \A k \in Files : file[k] = "after" => file'[k] # "before"]_vars

\* No step of the process, forward or inverse, replaces a commit, an added checkout,
\* a manifest or a file that somebody else changed; the one exception is a file that
\* was already theirs when publication captured what it would replace.
TheirsKept ==
    [][proc' # proc =>
         /\ \A r \in Repos : head[r] = "theirs" => head'[r] = "theirs"
         /\ manifest = "theirs" => manifest' = "theirs"
         /\ \A k \in Files : file[k] = "theirs" /\ file'[k] # "theirs" =>
               At("publish") /\ proc.before[k] = "theirs"]_vars

\* A call that is running returns, or dies.
Returns == Running ~> ~Running

\* "refusal to overwrite concurrent generations": no step of the process replaces a
\* file that somebody else changed.
OthersGenerationKept ==
    [][proc' # proc => \A k \in Files : file[k] = "theirs" => file'[k] = "theirs"]_vars

\* "Existing-checkout changes use an operation journal, byte-for-byte metadata
\* backups, and reverse-order rollback": when Recover says it recovered an update
\* that had not succeeded, no published file is left behind either.
RecoveredFilesAreWhole ==
    At("ended") /\ proc.result = "recovered" /\ ~committed =>
        \A k \in Files : file[k] # "after"
=============================================================================
