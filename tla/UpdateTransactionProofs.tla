----------------------- MODULE UpdateTransactionProofs -----------------------
(***************************************************************************)
(* What holds of an update, for any plan of any length and any number of   *)
(* faults, crashes, recoveries and moves of others.                        *)
(*                                                                         *)
(* What others wrote is kept: most steps do not touch the world at all,    *)
(* and those that do change a generation only after a comparison that      *)
(* "theirs" fails (TheirsIsKept, from Shape).                              *)
(*                                                                         *)
(* The journal is honest: every repository that is not where it was has an *)
(* entry of the journal on disk, or the journal names an outcome that was  *)
(* reached.  The inductive invariant says this of the journal on disk and  *)
(* of the one the process holds, and by stages of the call what has been   *)
(* done so far (IInv).  Evidence, success and outcome follow from it.      *)
(*                                                                         *)
(* The plan of an update is right, for any repositories and manifests and  *)
(* any number of commands and of changes between two of their reads: what  *)
(* a command has captured is what is there as long as nobody changes       *)
(* anything, and what an update leaves is what the next plan wants to see  *)
(* (PlanningInv, in the second half).                                      *)
(***************************************************************************)
EXTENDS UpdateTransaction, UpdatePlanning, FiniteSetTheorems, WellFoundedInduction, TLAPS

-----------------------------------------------------------------------------
(* What others wrote                                                         *)

Shape ==
    /\ DOMAIN head = Repos /\ head = [r \in Repos |-> head[r]]
    /\ DOMAIN file = Files /\ file = [k \in Files |-> file[k]]

\* The steps of the process that only touch what is private to it.
Private ==
    \/ Start \/ Create \/ StartEffect \/ Prepared \/ Completed \/ HandOff
    \/ FailStart \/ RollbackEnds \/ OpenPublication \/ BuildTargets \/ Record
    \/ Verify \/ UnpublishEnds \/ CallRecover \/ OpenJournal \/ NoActiveJournal
    \/ RecoverSkips \/ RecoverRecords \/ RecoverIncomplete \/ TerminalStep

\* What one step may do to what others wrote, and to the shape of the maps.
KeepsTheirs ==
    /\ \A r \in Repos : head[r] = "theirs" => head'[r] = "theirs"
    /\ manifest = "theirs" => manifest' = "theirs"
    /\ \A k \in Files : file[k] = "theirs" /\ file'[k] # "theirs" =>
          At("publish") /\ proc.before[k] = "theirs"

\* The inverse of a fast-forward, its result aside, keeps a branch, a manifest and a
\* file of others (HeadRestorable compares the branch and the cleanliness of the
\* checkout; UndoFastForward of productionEffects and of Recover).
LEMMA FastForwardInverse ==
    ASSUME Shape, NEW r, NEW prior, NEW undone, NEW kept,
           UndoFastForward(r, prior, undone, kept)
    PROVE  /\ \A q \in Repos : head[q] = "theirs" => head'[q] = "theirs"
           /\ manifest = "theirs" => manifest' = "theirs"
           /\ DOMAIN head' = Repos /\ head' = [q \in Repos |-> head'[q]]
  <1>1. CASE UNCHANGED <<head, side, manifest>>
    BY <1>1 DEF Shape
  <1>2. CASE HeadRestored(r) /\ (head[r] = "before" \/ HeadRestorable(r))
    BY <1>2 DEF Shape, HeadRestored, HeadRestorable
  <1>. QED
    BY <1>1, <1>2 DEF UndoFastForward

\* The inverse of an addition removes only what the update put there.
LEMMA AdditionInverse ==
    ASSUME Shape, NEW r, NEW mine, NEW undone, NEW kept,
           UndoAddition(r, mine, undone, kept)
    PROVE  /\ \A q \in Repos : head[q] = "theirs" => head'[q] = "theirs"
           /\ manifest' = manifest
           /\ DOMAIN head' = Repos /\ head' = [q \in Repos |-> head'[q]]
  BY DEF Shape, UndoAddition

\* Journal, cleanup and bookkeeping steps leave the world alone.
LEMMA PrivateKeepsWorld == Private => UNCHANGED world
  <1>. SUFFICES ASSUME Private PROVE UNCHANGED world
    OBVIOUS
  <1>1. CASE Start \/ Create \/ StartEffect \/ Prepared \/ Completed \/ HandOff
    BY <1>1 DEF Start, Create, StartEffect, Prepared, Completed, HandOff, world
  <1>2. CASE FailStart \/ RollbackEnds \/ OpenPublication \/ BuildTargets \/ Record
    BY <1>2 DEF FailStart, RollbackEnds, OpenPublication, BuildTargets, Record, world
  <1>3. CASE Verify \/ UnpublishEnds \/ CallRecover \/ OpenJournal \/ NoActiveJournal
    BY <1>3 DEF Verify, UnpublishEnds, CallRecover, OpenJournal, NoActiveJournal, world
  <1>4. CASE RecoverSkips \/ RecoverRecords \/ RecoverIncomplete
    BY <1>4 DEF RecoverSkips, RecoverRecords, RecoverIncomplete, world
  <1>5. CASE TerminalStep
    BY <1>5 DEF TerminalStep, TerminalStart, PublishSummary, RemoveBackups, RemoveStaging,
                RemoveJournal, RemoveOperation, RemoveSummary, Retain, world
  <1>. QED
    BY <1>1, <1>2, <1>3, <1>4, <1>5 DEF Private

\* The steps of the process that change the world.
LEMMA PublicStep ==
    ASSUME Step, ~Private
    PROVE  \/ Prepare \/ Execute \/ CleanUpFailed \/ RollbackEffect
           \/ Publish \/ Unpublish \/ RecoverEffect \/ RecoverManifest
  BY DEF Step, ExecuteStep, CompleteStep, RecoverStep, Private

\* Every step of the process keeps what others wrote, and the shape of the maps.
LEMMA StepKeepsTheirs ==
    ASSUME PlanAssumption, Shape, Step
    PROVE  Shape' /\ KeepsTheirs
  <1>1. CASE Private
    <2>1. UNCHANGED world
      BY <1>1, PrivateKeepsWorld
    <2>. QED
      BY <2>1 DEF world, Shape, KeepsTheirs
  <1>2. CASE Prepare
    BY <1>2 DEF Prepare, Shape, KeepsTheirs
  <1>3. CASE Execute
    BY <1>3 DEF Execute, CanExecute, Arrives, Shape, KeepsTheirs
  <1>4. ASSUME NEW r, NEW prior, NEW shifted, NEW undone, NEW kept,
               Undo(r, prior, shifted, undone, kept), UNCHANGED file
        PROVE  Shape' /\ KeepsTheirs
    <2>1. CASE r \in Additions
      <3>1. PICK mine : UndoAddition(r, mine, undone, kept)
        BY <1>4, <2>1 DEF Undo
      <3>. QED
        BY <1>4, <3>1, AdditionInverse DEF Shape, KeepsTheirs
    <2>2. CASE r \notin Additions
      <3>1. UndoFastForward(r, prior, undone, kept)
        BY <1>4, <2>2 DEF Undo
      <3>. QED
        BY <1>4, <3>1, FastForwardInverse DEF Shape, KeepsTheirs
    <2>. QED
      BY <2>1, <2>2
  <1>5. CASE CleanUpFailed
    BY <1>4, <1>5 DEF CleanUpFailed
  <1>6. CASE RollbackEffect
    BY <1>4, <1>6 DEF RollbackEffect
  <1>7. CASE Publish
    BY <1>7 DEF Publish, Shape, KeepsTheirs
  <1>8. CASE Unpublish
    BY <1>8 DEF Unpublish, Shape, KeepsTheirs
  <1>9. CASE RecoverEffect
    <2>1. PICK undone, kept, name, receipt :
             \/ UNCHANGED world
             \/ UndoPublication(name, undone, kept) /\ UNCHANGED <<head, side, manifest>>
             \/ RecoverAddition(name, receipt, undone, kept) /\ UNCHANGED file
             \/ UndoFastForward(name, receipt, undone, kept) /\ UNCHANGED file
      BY <1>9 DEF RecoverEffect
    <2>2. CASE UNCHANGED world
      BY <2>2 DEF world, Shape, KeepsTheirs
    <2>3. CASE UndoPublication(name, undone, kept) /\ UNCHANGED <<head, side, manifest>>
      BY <2>3 DEF UndoPublication, Shape, KeepsTheirs
    <2>4. CASE RecoverAddition(name, receipt, undone, kept) /\ UNCHANGED file
      <3>1. PICK mine : UndoAddition(name, mine, undone, kept)
        BY <2>4 DEF RecoverAddition
      <3>. QED
        BY <2>4, <3>1, AdditionInverse DEF Shape, KeepsTheirs
    <2>5. CASE UndoFastForward(name, receipt, undone, kept) /\ UNCHANGED file
      BY <2>5, FastForwardInverse DEF Shape, KeepsTheirs
    <2>. QED
      BY <2>1, <2>2, <2>3, <2>4, <2>5
  <1>10. CASE RecoverManifest
    BY <1>10 DEF RecoverManifest, Shape, KeepsTheirs
  <1>. QED
    BY <1>1, <1>2, <1>3, <1>5, <1>6, <1>7, <1>8, <1>9, <1>10, PublicStep

LEMMA OthersShape ==
    ASSUME Shape, Crash \/ Others
    PROVE  Shape' /\ (Others => proc' = proc) /\ (Crash => UNCHANGED world)
  BY DEF Crash, Others, SomebodyCommits, SomebodyFetches, SomebodyEditsManifest,
         SomebodyPublishes, Move, Shape, world

\* Whatever fails, dies, is cancelled or is recovered, and however often: no step of an
\* update replaces a commit, an added checkout, a manifest or a file that somebody
\* else changed, except a file that was theirs when publication captured it (FastForward,
\* RestoreFastForward, undoPublished, WriteRawCAS, restorePublishedUpdateGeneration).
THEOREM TheirsIsKept == Spec => TheirsKept
  <1>1. Init => Shape
    BY DEF Init, Shape
  <1>2. Shape /\ [Next]_vars => Shape' /\ (proc' # proc => KeepsTheirs)
    <2>. SUFFICES ASSUME Shape, [Next]_vars PROVE Shape' /\ (proc' # proc => KeepsTheirs)
      OBVIOUS
    <2>1. CASE Step
      BY <2>1, StepKeepsTheirs, PlanAssumption
    <2>2. CASE Crash
      BY <2>2, OthersShape DEF Shape, KeepsTheirs, world
    <2>3. CASE Others
      BY <2>3, OthersShape
    <2>4. CASE UNCHANGED vars
      BY <2>4 DEF vars, Shape
    <2>. QED
      BY <2>1, <2>2, <2>3, <2>4 DEF Next
  <1>3. Shape /\ [Next]_vars =>
          [proc' # proc =>
             /\ \A r \in Repos : head[r] = "theirs" => head'[r] = "theirs"
             /\ manifest = "theirs" => manifest' = "theirs"
             /\ \A k \in Files : file[k] = "theirs" /\ file'[k] # "theirs" =>
                   At("publish") /\ proc.before[k] = "theirs"]_vars
    BY <1>2 DEF KeepsTheirs
  <1>. QED
    BY <1>1, <1>2, <1>3, PTL DEF Spec, TheirsKept

-----------------------------------------------------------------------------
(* What a journal says                                                       *)

EntryType == [name : Repos \cup Files \cup Synthetic, state : EntryStates,
              receipt : Receipts]

\* A journal without an outcome, and one with.
OpenJournals == [state : {"absent", "active", "rolling-back", "incomplete"},
                 outcome : {"none"}, progress : Seq(EntryType)]

JournalFields == {"state", "outcome", "progress"}
Closed(j) ==
    /\ j = [x \in JournalFields |-> j[x]]
    /\ j.state \in {"cleaning", "incomplete"} /\ j.outcome \in {"success", "rolled-back"}

\* An entry for r that does not claim to be rolled back.
Has(j, r) ==
    \E i \in DOMAIN j.progress : j.progress[i].name = r /\ j.progress[i].state # "rolled-back"

\* The repositories d are where the update left them, and each has its entry.
Evident(j, d) == \A r \in d : Has(j, r)

\* Given the repositories d and that the update has succeeded or not, the journal
\* tells no lie: it has its evidence, or the outcome it names was reached.
Honest(j, d, success) ==
    \/ j \in OpenJournals /\ (success \/ Evident(j, d))
    \/ Closed(j) /\ (success \/ (j.outcome = "rolled-back" /\ d = {}))

\* The last entry is one that Recover stops at before it undoes anything.
Blocked(j) ==
    /\ j \in OpenJournals /\ Len(j.progress) > 0
    /\ j.progress[Len(j.progress)].name \in Synthetic
    /\ j.progress[Len(j.progress)].state # "rolled-back"

Final(j) == Closed(j) \/ j = NoJournal \/ Blocked(j)

RepoEntries(j) == \A i \in DOMAIN j.progress : j.progress[i].name \in Repos

-----------------------------------------------------------------------------
(* The invariant                                                             *)

\* The repositories that are not where they were before the update.
DirtyRepos == {r \in Repos : head[r] = "after" \/ side[r] = "after"
                             \/ (r = Base /\ manifest = "after")}
FilesClean == \A k \in Files : file[k] # "after"
Whole == (\A r \in Repos : head[r] # "before") /\ (\A k \in Files : file[k] # "before")

ProcFields == {"pc", "call", "background", "journal", "at", "done", "failed", "known",
               "moved", "rollback", "before", "outcome", "result"}

\* The base checkout has the new manifest only with its new commit.
World ==
    /\ head \in [Repos -> Generations] /\ side \in [Repos -> Generations]
    /\ manifest \in Generations /\ file \in [Files -> Generations]
    /\ manifest = "after" => head[Base] # "before"

Form ==
    /\ committed \in BOOLEAN /\ proc = [x \in ProcFields |-> proc[x]]
    /\ proc.call \in {"update", "recover"}
    /\ proc.before \in [Files -> {"before", "theirs"}]
    /\ private \in [operation : BOOLEAN, backups : {"none", "some", "all"}, summary : BOOLEAN]
    /\ ~private.operation => private.backups = "none"

\* What a crash leaves: an honest journal; and once the success is on record, none
\* that Recover would undo anything of.
Disk == Honest(disk, DirtyRepos, committed) /\ (committed => Final(disk))

InUpdate == ~committed /\ proc.call = "update" /\ proc.outcome = "none"

\* The stages of a call, by the program counter.  In each: what the process knows of
\* the journal it holds, and of what the update has done so far.
Beginning ==
    /\ proc.pc \in {"idle", "create"} /\ InUpdate /\ FilesClean
    /\ DirtyRepos = {} /\ proc.done = 0

Last == Len(proc.journal.progress)

\* The entry of the effect being executed is on disk before anything is done, the
\* effects after it have not begun, and those before it are not "started".
Forwarding ==
    /\ proc.pc \in {"effect", "prepare", "prepared", "execute", "completed"}
    /\ InUpdate /\ FilesClean
    /\ proc.journal \in OpenJournals /\ disk \in OpenJournals
    /\ Evident(proc.journal, DirtyRepos) /\ RepoEntries(proc.journal)
    /\ proc.at \in 1..(Len(Effects) + 1) /\ proc.done = proc.at - 1
    /\ \A i \in 1..proc.done : proc.journal.progress[i].state # "started"
    /\ \A j \in DOMAIN Effects : j > proc.at => Effects[j] \notin DirtyRepos
    /\ \/ /\ proc.pc = "effect" /\ Last = proc.done
          /\ EffectsLeft => Current \notin DirtyRepos
       \/ /\ proc.pc # "effect" /\ EffectsLeft /\ Last = proc.at
          /\ proc.journal.progress[Last].name = Current
          /\ proc.journal.progress[Last].state # "rolled-back"
          /\ Has(disk, Current)
          /\ proc.known \in Receipts
          /\ proc.pc = "prepare" => Current \notin DirtyRepos

\* An effect that is only "started" has done nothing; a failed one is the last entry.
Reverting ==
    /\ proc.pc \in {"fail", "cleanup", "rollback"} /\ InUpdate /\ FilesClean
    /\ proc.journal \in OpenJournals
    /\ Evident(proc.journal, DirtyRepos) /\ RepoEntries(proc.journal)
    /\ proc.done \in 0..Last
    /\ proc.pc = "fail" /\ proc.failed = "nothing" /\ Last # 0
          /\ proc.journal.progress[Last].state = "started" =>
              proc.journal.progress[Last].name \notin DirtyRepos
    /\ proc.pc # "rollback" /\ proc.failed # "nothing" =>
          /\ Last # 0 /\ proc.journal.progress[Last].name = proc.failed
          /\ proc.known \in Receipts \cup {"unfetched"}
    /\ proc.pc = "cleanup" => proc.failed # "nothing"
    /\ proc.pc # "fail" => proc.at \in 0..Last

\* The files that are where the update puts them are among the first n targets.
Published(n) == \A k \in Files : file[k] = "after" => \E i \in 1..n : k = Targets[i]

Publishing ==
    /\ proc.pc \in {"executed", "targets", "publish", "record", "unpublish"} /\ InUpdate
    /\ disk \in OpenJournals
    /\ proc.pc # "executed" => proc.journal \in OpenJournals
                               /\ Evident(proc.journal, DirtyRepos)
    /\ proc.pc \in {"executed", "targets"} => FilesClean
    /\ proc.pc = "targets" => proc.done = 0
    /\ proc.pc = "publish" => /\ proc.at \in 1..(Len(Targets) + 1)
                              /\ proc.done = proc.at - 1 /\ Published(proc.done)
    /\ proc.pc = "record" => /\ proc.at \in 1..Len(Targets)
                             /\ proc.done = proc.at /\ Published(proc.done)
    /\ proc.pc = "unpublish" => proc.at \in 0..Len(Targets) /\ Published(proc.at)

\* After the success Recover stops at the last entry, before it undoes anything.
Recovering ==
    /\ proc.pc \in {"recover", "undo", "undone", "incomplete"}
    /\ proc.outcome = "none" /\ proc.journal \in OpenJournals
    /\ proc.call = "update" => ~committed /\ FilesClean
    /\ proc.pc # "recover" => committed \/ Evident(proc.journal, DirtyRepos)
    /\ committed => /\ proc.pc # "undone"
                    /\ proc.pc # "recover" => Blocked(proc.journal)
                    /\ proc.pc = "undo" => proc.at = Last
    /\ proc.pc = "undo" => proc.at \in 0..Last
    /\ proc.pc = "undone" => proc.at \in 1..Last

\* Evidence is removed only after the outcome was reached and, if it is a success,
\* was on disk.
Closing ==
    /\ proc.pc \in {"terminal", "retain", "summary", "backups", "staging",
                    "removeJournal", "removeOperation", "removeSummary"}
    /\ Honest(proc.journal, DirtyRepos, committed)
    /\ proc.outcome \in Outcomes
    /\ proc.call = "update" /\ proc.outcome # "success" => ~committed /\ FilesClean
    /\ proc.call = "update" /\ proc.outcome = "success" => Whole
    /\ proc.pc = "terminal" => /\ proc.outcome # "none"
                               /\ Closed(proc.journal) => proc.journal.outcome = proc.outcome
    /\ proc.pc \notin {"terminal", "retain"} =>
          /\ committed \/ DirtyRepos = {}
          /\ proc.outcome = "success" => committed
    /\ proc.pc \in {"removeOperation", "removeSummary"} => disk = NoJournal
    /\ proc.pc = "removeSummary" => ~private.operation

Over ==
    /\ proc.pc \in {"ended", "down"}
    /\ proc.pc = "ended" /\ proc.result = "completed" =>
          Whole /\ disk = NoJournal /\ private.backups = "none" /\ ~private.operation
    /\ proc.pc = "ended" /\ proc.result = "rolled-back" => DirtyRepos = {} /\ FilesClean
    /\ proc.pc = "ended" /\ proc.result = "recovered" => committed \/ DirtyRepos = {}

Stage == \/ Beginning \/ Forwarding \/ Reverting \/ Publishing \/ Recovering
         \/ Closing \/ Over

IInv == World /\ Form /\ Disk /\ Stage

-----------------------------------------------------------------------------
(* What the operations on a journal keep                                     *)

\* Less to account for, or the success on record: what was honest still is.
LEMMA StaysHonest ==
    ASSUME NEW j, NEW d, NEW e, NEW c \in BOOLEAN, NEW s \in BOOLEAN,
           Honest(j, d, c), e \subseteq d, c => s
    PROVE  Honest(j, e, s)
  BY DEF Honest, Evident

LEMMA OpenIsNotClosed ==
    ASSUME NEW j \in OpenJournals
    PROVE  ~Closed(j) /\ ~Terminal(j) /\ j.outcome = "none" /\ j.progress \in Seq(EntryType)
  BY DEF OpenJournals, Closed, Terminal

LEMMA ClosedIsTerminal ==
    ASSUME NEW j, Closed(j)
    PROVE  Terminal(j) /\ j.outcome # "none" /\ j # NoJournal
  BY DEF Closed, Terminal, NoJournal

\* A new state of the whole leaves the entries alone.
LEMMA Restated ==
    ASSUME NEW j \in OpenJournals, NEW s \in {"rolling-back", "incomplete"}, NEW d
    PROVE  LET k == [j EXCEPT !.state = s]
           IN /\ k \in OpenJournals /\ k.progress = j.progress
              /\ Evident(j, d) => Evident(k, d)
              /\ Blocked(j) => Blocked(k)
              /\ RepoEntries(j) => RepoEntries(k)
  BY DEF OpenJournals, Evident, Has, Blocked, RepoEntries

\* An entry more.
LEMMA Appended ==
    ASSUME NEW j \in OpenJournals, NEW e \in EntryType, NEW d
    PROVE  LET k == Append1(j, e)
           IN /\ k \in OpenJournals
              /\ Len(k.progress) = Len(j.progress) + 1
              /\ \A i \in DOMAIN j.progress : k.progress[i] = j.progress[i]
              /\ k.progress[Len(j.progress) + 1] = e
              /\ Evident(j, d) => Evident(k, d)
              /\ RepoEntries(j) /\ e.name \in Repos => RepoEntries(k)
  <1>. DEFINE k == Append1(j, e)
  <1>1. j.progress \in Seq(EntryType) /\ k.progress = Append(j.progress, e)
    BY DEF OpenJournals, Append1
  <1>2. k \in OpenJournals
    BY <1>1 DEF OpenJournals, Append1
  <1>3. /\ Len(k.progress) = Len(j.progress) + 1
        /\ \A i \in DOMAIN j.progress : k.progress[i] = j.progress[i]
        /\ k.progress[Len(j.progress) + 1] = e
        /\ DOMAIN k.progress = 1..Len(k.progress) /\ DOMAIN j.progress = 1..Len(j.progress)
    BY <1>1
  <1>. HIDE DEF k
  <1>4. Evident(j, d) => Evident(k, d)
    BY <1>3 DEF Evident, Has
  <1>5. RepoEntries(j) /\ e.name \in Repos => RepoEntries(k)
    BY <1>3 DEF RepoEntries
  <1>. QED
    BY <1>2, <1>3, <1>4, <1>5 DEF k

\* One entry marked: the others stay.
LEMMA Marked ==
    ASSUME NEW j \in OpenJournals, NEW i \in 1..Len(j.progress), NEW s \in EntryStates
    PROVE  /\ Mark(j, i, s) \in OpenJournals
           /\ Len(Mark(j, i, s).progress) = Len(j.progress)
           /\ Mark(j, i, s).progress[i].name = j.progress[i].name
           /\ Mark(j, i, s).progress[i].state = s
           /\ \A h \in 1..Len(j.progress) :
                 h # i => Mark(j, i, s).progress[h] = j.progress[h]
           /\ DOMAIN Mark(j, i, s).progress = 1..Len(j.progress)
           /\ DOMAIN j.progress = 1..Len(j.progress)
  <1>. DEFINE k == Mark(j, i, s)
              e == [j.progress[i] EXCEPT !.state = s]
  <1>1. j.progress \in Seq(EntryType) /\ k.progress = [j.progress EXCEPT ![i] = e]
    BY DEF OpenJournals, Mark
  <1>2. e \in EntryType /\ e.name = j.progress[i].name /\ e.state = s
    <2>1. j.progress[i] \in EntryType
      BY <1>1
    <2>. QED
      BY <2>1 DEF EntryType
  <1>. HIDE DEF e
  <1>3. k.progress \in Seq(EntryType) /\ Len(k.progress) = Len(j.progress)
        /\ k.progress[i] = e
        /\ \A h \in 1..Len(j.progress) : h # i => k.progress[h] = j.progress[h]
    BY <1>1, <1>2
  <1>4. k \in OpenJournals
    BY <1>3 DEF OpenJournals, Mark
  <1>. QED
    BY <1>1, <1>2, <1>3, <1>4

LEMMA MarkedRepos ==
    ASSUME NEW j \in OpenJournals, NEW i \in 1..Len(j.progress), NEW s \in EntryStates,
           RepoEntries(j)
    PROVE  RepoEntries(Mark(j, i, s))
  <1>. SUFFICES ASSUME NEW h \in 1..Len(j.progress)
                PROVE  Mark(j, i, s).progress[h].name \in Repos
    BY Marked DEF RepoEntries
  <1>1. j.progress[h].name \in Repos
    BY Marked DEF RepoEntries
  <1>. QED
    BY <1>1, Marked

\* Evidence that is kept, and evidence that is given up for a repository that is
\* where it was.
LEMMA EvidenceKept ==
    ASSUME NEW j \in OpenJournals, NEW i \in 1..Len(j.progress),
           NEW s \in EntryStates \ {"rolled-back"}, NEW d, Evident(j, d)
    PROVE  Evident(Mark(j, i, s), d)
  BY Marked, SMTT(40) DEF Evident, Has

LEMMA EvidenceGivenUp ==
    ASSUME NEW j \in OpenJournals, NEW i \in 1..Len(j.progress),
           NEW d, NEW e, e \subseteq d, Evident(j, d), j.progress[i].name \notin e
    PROVE  Evident(Mark(j, i, "rolled-back"), e)
  <1>1. "rolled-back" \in EntryStates
    BY DEF EntryStates
  <1>. SUFFICES ASSUME NEW r \in e PROVE Has(Mark(j, i, "rolled-back"), r)
    BY DEF Evident
  <1>2. PICK h \in DOMAIN j.progress :
           j.progress[h].name = r /\ j.progress[h].state # "rolled-back"
    BY DEF Evident, Has
  <1>. QED
    BY <1>1, <1>2, Marked DEF Has

\* The entry being executed, with its receipt.
LEMMA Received ==
    ASSUME NEW j \in OpenJournals, NEW s \in {"prepared", "completed"}, NEW t \in Receipts,
           Len(j.progress) # 0
    PROVE  /\ WithReceipt(j, s, t) \in OpenJournals
           /\ Len(WithReceipt(j, s, t).progress) = Len(j.progress)
           /\ \A h \in 1..Len(j.progress) :
                 h # Len(j.progress) => WithReceipt(j, s, t).progress[h] = j.progress[h]
           /\ WithReceipt(j, s, t).progress[Len(j.progress)].name
                 = j.progress[Len(j.progress)].name
           /\ WithReceipt(j, s, t).progress[Len(j.progress)].state = s
           /\ DOMAIN WithReceipt(j, s, t).progress = 1..Len(j.progress)
           /\ DOMAIN j.progress = 1..Len(j.progress)
           /\ Len(j.progress) \in 1..Len(j.progress)
  <1>. DEFINE k == WithReceipt(j, s, t)
              n == Len(j.progress)
              e == [j.progress[n] EXCEPT !.state = s, !.receipt = t]
  <1>0. j.progress \in Seq(EntryType) /\ n \in 1..Len(j.progress)
    BY DEF OpenJournals
  <1>1. k.progress = [j.progress EXCEPT ![n] = e]
    BY <1>0 DEF OpenJournals, WithReceipt
  <1>2. e \in EntryType /\ e.name = j.progress[n].name /\ e.state = s
    <2>1. j.progress[n] \in EntryType
      BY <1>0
    <2>. QED
      BY <2>1 DEF EntryType, EntryStates
  <1>. HIDE DEF e
  <1>3. k.progress \in Seq(EntryType) /\ Len(k.progress) = n
        /\ (\A h \in 1..n : h # n => k.progress[h] = j.progress[h]) /\ k.progress[n] = e
    BY <1>0, <1>1, <1>2
  <1>4. k \in OpenJournals
    BY <1>3 DEF OpenJournals, WithReceipt
  <1>. QED
    BY <1>0, <1>2, <1>3, <1>4

LEMMA ReceivedEvidence ==
    ASSUME NEW j \in OpenJournals, NEW s \in {"prepared", "completed"}, NEW t \in Receipts,
           Len(j.progress) # 0, NEW d, Evident(j, d)
    PROVE  Evident(WithReceipt(j, s, t), d)
  <1>. SUFFICES ASSUME NEW r \in d PROVE Has(WithReceipt(j, s, t), r)
    BY DEF Evident
  <1>1. PICK h \in DOMAIN j.progress :
           j.progress[h].name = r /\ j.progress[h].state # "rolled-back"
    BY DEF Evident, Has
  <1>. QED
    BY <1>1, Received DEF Has

LEMMA ReceivedRepos ==
    ASSUME NEW j \in OpenJournals, NEW s \in {"prepared", "completed"}, NEW t \in Receipts,
           Len(j.progress) # 0, RepoEntries(j)
    PROVE  RepoEntries(WithReceipt(j, s, t))
  <1>. SUFFICES ASSUME NEW h \in 1..Len(j.progress)
                PROVE  WithReceipt(j, s, t).progress[h].name \in Repos
    BY Received DEF RepoEntries
  <1>1. /\ j.progress[h].name \in Repos
        /\ j.progress[Len(j.progress)].name \in Repos
    BY Received DEF RepoEntries
  <1>. QED
    BY <1>1, Received

\* A cleanup that failed leaves an honest journal, and one that ends the story.
LEMMA CleanupKept ==
    ASSUME NEW j, NEW d, NEW c \in BOOLEAN, Honest(j, d, c), PlanAssumption
    PROVE  Honest(CleanupIncomplete(j), d, c) /\ Final(CleanupIncomplete(j))
  <1>. DEFINE e == Entry("terminal-cleanup", "unreverted", "none")
              k == Append1(j, e)
              l == CleanupIncomplete(j)
  <1>1. l = [k EXCEPT !.state = "incomplete"]
    BY DEF CleanupIncomplete
  <1>2. CASE j \in OpenJournals
    <2>1. e \in EntryType /\ e.name \in Synthetic /\ e.state = "unreverted"
      BY DEF EntryType, Entry, Synthetic, EntryStates, Receipts
    <2>2. c \/ Evident(j, d)
      BY <1>2, OpenIsNotClosed DEF Honest
    <2>. HIDE DEF e
    <2>3. /\ k \in OpenJournals /\ Len(k.progress) > 0 /\ k.progress[Len(k.progress)] = e
          /\ Evident(j, d) => Evident(k, d)
      <3>1. Len(j.progress) \in Nat
        BY <1>2 DEF OpenJournals
      <3>. QED
        BY <3>1, <1>2, <2>1, Appended, SMTT(40)
    <2>4. Blocked(k)
      BY <2>1, <2>3 DEF Blocked
    <2>. HIDE DEF k
    <2>5. l \in OpenJournals /\ (Evident(k, d) => Evident(l, d)) /\ Blocked(l)
      BY <1>1, <2>3, <2>4, Restated
    <2>. QED
      BY <2>2, <2>3, <2>5 DEF Honest, Final
  <1>3. CASE Closed(j)
    <2>1. c \/ (j.outcome = "rolled-back" /\ d = {})
      BY <1>3, OpenIsNotClosed DEF Honest
    <2>2. Closed(l) /\ l.outcome = j.outcome
      BY <1>3 DEF Closed, CleanupIncomplete, Append1, JournalFields
    <2>. QED
      BY <2>1, <2>2 DEF Honest, Final
  <1>. QED
    BY <1>2, <1>3 DEF Honest

\* So does a recovery that is not complete.
LEMMA RecoveryKept ==
    ASSUME NEW j \in OpenJournals, NEW d
    PROVE  /\ RecoveryIncomplete(j) \in OpenJournals
           /\ Evident(j, d) => Evident(RecoveryIncomplete(j), d)
           /\ Blocked(j) => Blocked(RecoveryIncomplete(j))
  <1>. DEFINE pending == {i \in DOMAIN j.progress : LastPending(j, i)}
              e == Entry("recovery-retained", "unreverted", "none")
              p == CHOOSE i \in pending : TRUE
              marked == IF pending = {} THEN Append1(j, e) ELSE Mark(j, p, "unreverted")
  <1>0. RecoveryIncomplete(j) = [marked EXCEPT !.state = "incomplete"]
    BY DEF RecoveryIncomplete
  <1>1. j.progress \in Seq(EntryType)
    BY DEF OpenJournals
  <1>2. CASE pending = {}
    <2>1. e \in EntryType
      BY DEF EntryType, Entry, Synthetic, EntryStates, Receipts
    <2>2. ~Blocked(j)
      <3>. SUFFICES ASSUME Blocked(j) PROVE FALSE
        OBVIOUS
      <3>1. Len(j.progress) \in pending
        BY <1>1 DEF Blocked, LastPending
      <3>. QED
        BY <3>1, <1>2
    <2>3. marked = Append1(j, e)
      BY <1>2
    <2>. HIDE DEF e, marked, pending
    <2>4. marked \in OpenJournals /\ (Evident(j, d) => Evident(marked, d))
      BY <2>1, <2>3, Appended
    <2>. QED
      BY <1>0, <2>2, <2>4, Restated
  <1>3. CASE pending # {}
    <2>1. p \in pending
      BY <1>3
    <2>2. p \in 1..Len(j.progress) /\ LastPending(j, p)
      BY <2>1, <1>1
    <2>3. marked = Mark(j, p, "unreverted")
      BY <1>3
    <2>. HIDE DEF marked, pending, p
    <2>4. "unreverted" \in EntryStates \ {"rolled-back"}
      BY DEF EntryStates
    <2>5. marked \in OpenJournals /\ (Evident(j, d) => Evident(marked, d))
      BY <2>2, <2>3, <2>4, Marked, EvidenceKept
    <2>6. Blocked(j) => Blocked(marked)
      <3>. SUFFICES ASSUME Blocked(j) PROVE Blocked(marked)
        OBVIOUS
      <3>1. p = Len(j.progress)
        BY <1>1, <2>2 DEF Blocked, LastPending
      <3>. QED
        BY <3>1, <2>2, <2>3, <2>4, <2>5, Marked DEF Blocked
    <2>. QED
      BY <1>0, <2>5, <2>6, Restated
  <1>. QED
    BY <1>2, <1>3

\* What is on disk before any evidence is removed: the outcome that was reached.
LEMMA CleaningKept ==
    ASSUME NEW j, NEW d, NEW c \in BOOLEAN, NEW o \in {"success", "rolled-back"},
           Honest(j, d, c), Valid(CleaningJournal(j, o)), Closed(j) => j.outcome = o
    PROVE  /\ Closed(CleaningJournal(j, o)) /\ CleaningJournal(j, o).outcome = o
           /\ o = "rolled-back" => c \/ d = {}
  <1>. DEFINE k == CleaningJournal(j, o)
  <1>1. Closed(k) /\ k.outcome = o /\ k.state = "cleaning"
    BY DEF CleaningJournal, Closed, JournalFields
  <1>2. ASSUME o = "rolled-back", ~c, j \in OpenJournals PROVE d = {}
    <2>1. Evident(j, d)
      BY <1>2, OpenIsNotClosed DEF Honest
    <2>2. k.progress = j.progress
      BY <1>2, OpenIsNotClosed DEF CleaningJournal
    <2>3. StatesOf(k) \subseteq {"rolled-back"}
      BY <1>1, <1>2 DEF Valid
    <2>4. \A i \in DOMAIN j.progress : j.progress[i].state = "rolled-back"
      BY <2>2, <2>3 DEF StatesOf
    <2>. QED
      BY <2>1, <2>4 DEF Evident, Has
  <1>. QED
    BY <1>1, <1>2 DEF Honest

-----------------------------------------------------------------------------
(* What a step does to the world                                             *)

\* Nothing of the update appears where it was not.
Calmer ==
    /\ World' /\ DirtyRepos' \subseteq DirtyRepos
    /\ FilesClean => FilesClean'
    /\ committed' = committed

LEMMA Same ==
    ASSUME World, UNCHANGED world, UNCHANGED committed
    PROVE  Calmer /\ DirtyRepos' = DirtyRepos /\ (Whole => Whole')
  BY DEF World, world, Calmer, DirtyRepos, FilesClean, Whole

\* Others only ever leave what is theirs.
LEMMA OthersAreCalm ==
    ASSUME World, Others
    PROVE  /\ Calmer /\ (Whole => Whole')
           /\ UNCHANGED <<disk, private, committed, proc>>
           /\ \A n : Published(n) => Published(n)'
  <1>1. UNCHANGED <<disk, private, committed, proc>>
    BY DEF Others, SomebodyCommits, SomebodyFetches, SomebodyEditsManifest,
           SomebodyPublishes, Move
  <1>2. CASE SomebodyCommits
    BY <1>1, <1>2 DEF World, SomebodyCommits, Calmer, DirtyRepos, FilesClean, Whole,
                      Generations, Published
  <1>3. CASE SomebodyFetches
    BY <1>1, <1>3 DEF World, SomebodyFetches, Calmer, DirtyRepos, FilesClean, Whole,
                      Generations, Published
  <1>4. CASE SomebodyEditsManifest
    BY <1>1, <1>4 DEF World, SomebodyEditsManifest, Calmer, DirtyRepos, FilesClean, Whole,
                      Generations, Published
  <1>5. CASE SomebodyPublishes
    BY <1>1, <1>5 DEF World, SomebodyPublishes, Calmer, DirtyRepos, FilesClean, Whole,
                      Generations, Published
  <1>. QED
    BY <1>2, <1>3, <1>4, <1>5 DEF Others

\* The inverses.
LEMMA FastForwardUndone ==
    ASSUME PlanAssumption, World, NEW r \in Repos, NEW prior \in Receipts \cup {"unfetched"},
           NEW undone, NEW kept, UndoFastForward(r, prior, undone, kept),
           UNCHANGED <<file, committed>>
    PROVE  /\ Calmer
           /\ (proc' = undone /\ r \notin DirtyRepos') \/ proc' = kept
  <1>1. CASE UNCHANGED <<head, side, manifest>> /\ proc' = kept
    BY <1>1 DEF World, Calmer, DirtyRepos, FilesClean
  <1>2. ASSUME HeadRestored(r), head[r] = "before" \/ HeadRestorable(r)
        PROVE  /\ head' \in [Repos -> Generations] /\ manifest' \in Generations
               /\ manifest' = "after" => head'[Base] # "before"
               /\ \A q \in Repos : head'[q] = "after" => head[q] = "after" /\ q # r
               /\ manifest' = "after" => manifest = "after" /\ r # Base
    BY <1>2 DEF World, HeadRestored, HeadRestorable, Generations, PlanAssumption
  <1>3. CASE /\ prior # "none" /\ (head[r] = "before" \/ HeadRestorable(r))
             /\ HeadRestored(r) /\ UNCHANGED side /\ proc' = kept
    BY <1>2, <1>3 DEF World, Calmer, DirtyRepos, FilesClean
  <1>4. CASE /\ prior # "none" /\ (head[r] = "before" \/ HeadRestorable(r))
             /\ HeadRestored(r) /\ side' = [side EXCEPT ![r] = Unfetched(prior)]
             /\ proc' = undone
    <2>1. Unfetched(prior) \in {"before", "theirs"}
      BY <1>4 DEF Unfetched, Receipts
    <2>. QED
      BY <1>2, <1>4, <2>1 DEF World, Calmer, DirtyRepos, FilesClean, Generations
  <1>. QED
    BY <1>1, <1>3, <1>4 DEF UndoFastForward

LEMMA AdditionUndone ==
    ASSUME PlanAssumption, World, NEW r \in Additions, NEW mine,
           NEW undone, NEW kept, UndoAddition(r, mine, undone, kept),
           UNCHANGED <<file, committed>>
    PROVE  /\ Calmer
           /\ (proc' = undone /\ r \notin DirtyRepos') \/ proc' = kept
  <1>1. r \in Repos /\ r # Base
    BY DEF PlanAssumption
  <1>2. CASE UNCHANGED <<head, side, manifest>> /\ proc' = kept
    BY <1>2 DEF World, Calmer, DirtyRepos, FilesClean
  <1>3. CASE /\ proc' = undone /\ UNCHANGED manifest
             /\ head' = IF head[r] = "after" THEN [head EXCEPT ![r] = "before"] ELSE head
             /\ side' = [side EXCEPT ![r] = "before"]
    BY <1>1, <1>3 DEF World, Calmer, DirtyRepos, FilesClean, Generations
  <1>. QED
    BY <1>2, <1>3 DEF UndoAddition

LEMMA Undoing ==
    ASSUME PlanAssumption, World, NEW r \in Repos, NEW prior \in Receipts \cup {"unfetched"},
           NEW shifted, NEW undone, NEW kept, Undo(r, prior, shifted, undone, kept),
           UNCHANGED <<file, committed>>
    PROVE  /\ Calmer
           /\ (proc' = undone /\ r \notin DirtyRepos') \/ proc' = kept
  <1>1. CASE r \in Additions
    <2>1. PICK mine : UndoAddition(r, mine, undone, kept)
      BY <1>1 DEF Undo
    <2>. QED
      BY <1>1, <2>1, AdditionUndone
  <1>2. CASE r \notin Additions
    BY <1>2, FastForwardUndone DEF Undo
  <1>. QED
    BY <1>1, <1>2

\* A write of the journal.
LEMMA Written ==
    ASSUME NEW j, NEW written, NEW failed, WriteAt(j, written, failed)
    PROVE  (disk' = j /\ proc' = written) \/ (disk' \in {disk, j} /\ proc' = failed)
  BY DEF WriteAt

LEMMA WrittenAnyway ==
    ASSUME NEW j, NEW next, WriteAnyway(j, next)
    PROVE  disk' \in {disk, j} /\ proc' = next
  BY DEF WriteAnyway

LEMMA Succession ==
    ASSUME Honest(disk, DirtyRepos, committed), Calmer, UNCHANGED disk, committed \in BOOLEAN
    PROVE  Honest(disk, DirtyRepos, committed)'
  BY StaysHonest DEF Calmer, Honest, Evident

-----------------------------------------------------------------------------
(* One step at a time                                                        *)

LEMMA StageIs ==
    ASSUME Stage
    PROVE  /\ proc.pc \in {"idle", "create"} => Beginning
           /\ proc.pc \in {"effect", "prepare", "prepared", "execute", "completed"} => Forwarding
           /\ proc.pc \in {"fail", "cleanup", "rollback"} => Reverting
           /\ proc.pc \in {"executed", "targets", "publish", "record", "unpublish"} => Publishing
           /\ proc.pc \in {"recover", "undo", "undone", "incomplete"} => Recovering
           /\ proc.pc \in {"terminal", "retain", "summary", "backups", "staging",
                           "removeJournal", "removeOperation", "removeSummary"} => Closing
           /\ proc.pc \in {"ended", "down"} => Over
  BY DEF Stage, Beginning, Forwarding, Reverting, Publishing, Recovering, Closing, Over

\* The process ends without having said what is not so.
LEMMA EndsQuietly ==
    ASSUME NEW result \in {"refused", "failed", "incomplete"}, proc' = Ends(proc, result), Form
    PROVE  Over'
  BY DEF Ends, Form, ProcFields, Over

\* The journal on disk is as it was, or the one that is written; neither lies.
LEMMA DiskIs ==
    ASSUME NEW j, disk' \in {disk, j}, Disk, World, Form, Calmer,
           Honest(j, DirtyRepos, committed), committed => Final(j)
    PROVE  Disk'
  <1>1. Honest(disk', DirtyRepos', committed')
    BY StaysHonest DEF Disk, Form, Calmer
  <1>2. committed' => Final(disk')
    BY DEF Disk, Calmer
  <1>. QED
    BY <1>1, <1>2 DEF Disk

LEMMA DiskStays ==
    ASSUME disk' = disk, Disk, World, Form, Calmer
    PROVE  Disk'
  BY DiskIs DEF Disk

LEMMA StartKeeps ==
    ASSUME PlanAssumption, IInv, Start PROVE IInv'
  <1>. USE DEF IInv
  <1>1. Beginning
    BY StageIs DEF Start, At
  <1>2. Calmer /\ DirtyRepos' = DirtyRepos
    BY Same DEF Start
  <1>3. Disk'
    BY <1>2, DiskStays DEF Start
  <1>4. CASE proc' = Goes(proc, "create")
    <2>1. Form'
      BY <1>4, ZenonT(60) DEF Start, Form, Goes, ProcFields
    <2>2. Beginning'
      BY <1>1, <1>2, <1>4 DEF Start, Beginning, InUpdate, Form, Goes, ProcFields, Calmer
    <2>. QED
      BY <1>2, <1>3, <2>1, <2>2 DEF Stage, Calmer
  <1>5. ASSUME NEW result \in {"refused", "failed"}, proc' = Ends(proc, result) PROVE IInv'
    <2>1. Form'
      BY <1>5, ZenonT(60) DEF Start, Form, Ends, ProcFields
    <2>2. Over'
      BY <1>5, EndsQuietly
    <2>. QED
      BY <1>2, <1>3, <2>1, <2>2 DEF Stage, Calmer
  <1>. QED
    BY <1>4, <1>5 DEF Start

LEMMA CreateKeeps ==
    ASSUME PlanAssumption, IInv, Create PROVE IInv'
  <1>. USE DEF IInv
  <1>. DEFINE created == [proc EXCEPT !.pc = "effect", !.at = 1, !.journal = NewJournal]
  <1>1. Beginning /\ ~committed
    BY StageIs DEF Create, At, Beginning, InUpdate
  <1>2. Calmer /\ DirtyRepos' = {}
    BY <1>1, Same DEF Create, Beginning
  <1>3. /\ NewJournal \in OpenJournals /\ Len(NewJournal.progress) = 0
        /\ Evident(NewJournal, {}) /\ RepoEntries(NewJournal) /\ Honest(NewJournal, {}, committed)
    BY DEF NewJournal, OpenJournals, Evident, RepoEntries, Honest
  <1>4. Disk'
    <2>1. disk' \in {disk, NewJournal}
      BY DEF Create
    <2>. QED
      BY <1>1, <1>2, <1>3, <2>1, DiskIs DEF Beginning
  <1>5. CASE disk' = NewJournal /\ UNCHANGED private /\ proc' = created
    <2>1. Form'
      BY <1>1, <1>5, ZenonT(60) DEF Create, Form, ProcFields
    <2>2. \A j \in DOMAIN Effects : Effects[j] \notin DirtyRepos'
      BY <1>2
    <2>3. Forwarding'
      BY <1>1, <1>2, <1>3, <1>5, <2>2 DEF Create, Form, Beginning, InUpdate, FilesClean, Forwarding, ProcFields,
         Calmer, Last, EffectsLeft, Current, PlanAssumption
    <2>. QED
      BY <1>2, <1>4, <2>1, <2>3 DEF Stage, Calmer
  <1>6. CASE disk' = NewJournal /\ UNCHANGED private /\ proc' = Fails(created, "nothing")
    <2>1. Form'
      BY <1>1, <1>6, ZenonT(60) DEF Create, Form, ProcFields, Fails
    <2>2. Reverting'
      BY <1>1, <1>2, <1>3, <1>6 DEF Create, Form, Beginning, InUpdate, Reverting, ProcFields, Calmer,
         Fails, Last
    <2>. QED
      BY <1>2, <1>4, <2>1, <2>2 DEF Stage, Calmer
  <1>7. CASE proc' = Ends(proc, "failed") /\ private' \in {private, [private EXCEPT !.backups = "none"]}
    <2>1. Form'
      BY <1>1, <1>7, ZenonT(60) DEF Create, Form, ProcFields, Ends
    <2>2. Over'
      BY <1>7, EndsQuietly
    <2>. QED
      BY <1>2, <1>4, <2>1, <2>2 DEF Stage, Calmer
  <1>. QED
    BY <1>5, <1>6, <1>7 DEF Create

LEMMA StartEffectKeeps ==
    ASSUME PlanAssumption, IInv, StartEffect PROVE IInv'
  <1>. USE DEF IInv
  <1>. DEFINE j == Started(proc.journal, Current)
              entered == [proc EXCEPT !.journal = j, !.known = "none", !.moved = FALSE]
  <1>1. /\ Forwarding /\ proc.pc = "effect" /\ EffectsLeft /\ ~committed /\ Last = proc.done
        /\ Current \notin DirtyRepos
    BY StageIs DEF StartEffect, At, Forwarding, InUpdate
  <1>2. Calmer /\ DirtyRepos' = DirtyRepos
    BY Same DEF StartEffect
  <1>3. Current \in Repos /\ proc.at \in 1..Len(Effects) /\ proc.at \in Nat /\ Last \in Nat
    BY <1>1 DEF Forwarding, EffectsLeft, Current, PlanAssumption, OpenJournals, Last
  <1>4. /\ j \in OpenJournals /\ Len(j.progress) = Last + 1
        /\ \A i \in 1..Last : j.progress[i] = proc.journal.progress[i]
        /\ j.progress[Last + 1].name = Current /\ j.progress[Last + 1].state = "started"
        /\ Evident(j, DirtyRepos) /\ RepoEntries(j)
    <2>. DEFINE e == Entry(Current, "started", "none")
    <2>1. e \in EntryType /\ e.name = Current /\ e.state = "started"
      BY <1>3 DEF Entry, EntryType, EntryStates, Receipts
    <2>2. DOMAIN proc.journal.progress = 1..Last
      BY <1>1 DEF Forwarding, OpenJournals, Last
    <2>3. j = Append1(proc.journal, e)
      BY DEF Started
    <2>. HIDE DEF e, j
    <2>4. proc.journal \in OpenJournals /\ Evident(proc.journal, DirtyRepos)
          /\ RepoEntries(proc.journal)
      BY <1>1 DEF Forwarding
    <2>. QED
      BY <1>3, <2>1, <2>2, <2>3, <2>4, Appended, SMTT(30) DEF Last
  <1>5. Has(j, Current)
    <2>1. DOMAIN j.progress = 1..(Last + 1)
      BY <1>4 DEF OpenJournals
    <2>. QED
      BY <1>3, <1>4, <2>1, SMTT(30) DEF Has
  <1>6. Disk'
    <2>1. disk' \in {disk, j}
      <3>1. CASE WriteAt(j, Goes(entered, "prepare"), Fails(entered, "nothing"))
        BY <3>1, Written
      <3>2. CASE UNCHANGED disk
        BY <3>2
      <3>. QED
        BY <3>1, <3>2 DEF StartEffect
    <2>. QED
      BY <1>1, <1>2, <1>4, <2>1, DiskIs DEF Honest
  <1>7. CASE disk' = j /\ proc' = Goes(entered, "prepare")
    <2>. HIDE DEF j
    <2>1. Form'
      BY <1>7, ZenonT(60) DEF StartEffect, Form, ProcFields, Goes
    <2>2. /\ proc'.pc = "prepare" /\ proc'.journal = j /\ proc'.at = proc.at /\ proc'.done = proc.done
          /\ proc'.known = "none" /\ proc'.call = proc.call /\ proc'.outcome = proc.outcome
      BY <1>7 DEF Form, ProcFields, Goes
    <2>3. Last' = proc.at /\ Current' = Current /\ EffectsLeft' /\ proc.done = Last
      BY <1>1, <1>3, <1>4, <2>2 DEF Last, Current, EffectsLeft, Forwarding
    <2>4. Has(disk, Current)'
      BY <1>5, <1>7, <2>3 DEF Has
    <2>5. \A i \in 1..proc'.done : proc'.journal.progress[i].state # "started"
      BY <1>1, <1>4, <2>2, <2>3, ZenonT(60) DEF Forwarding
    <2>6. /\ proc'.journal.progress[Last'].name = Current'
          /\ proc'.journal.progress[Last'].state # "rolled-back"
          /\ Current' \notin DirtyRepos' /\ Last' = proc'.at
      BY <1>1, <1>2, <1>3, <1>4, <2>2, <2>3, SMTT(30) DEF Forwarding
    <2>7. \A i \in DOMAIN Effects : i > proc'.at => Effects[i] \notin DirtyRepos'
      BY <1>1, <1>2, <2>2 DEF Forwarding
    <2>8. Evident(proc.journal, DirtyRepos)' /\ RepoEntries(proc.journal)'
      BY <1>2, <1>4, <2>2 DEF Evident, Has, RepoEntries
    <2>9. InUpdate' /\ FilesClean' /\ disk' \in OpenJournals
      BY <1>1, <1>2, <1>4, <1>7, <2>2 DEF Forwarding, InUpdate, Calmer
    <2>10. Forwarding'
      BY <1>1, <1>4, <2>2, <2>3, <2>4, <2>5, <2>6, <2>7, <2>8, <2>9
      DEF Forwarding, Receipts
    <2>. QED
      BY <1>2, <1>6, <2>1, <2>10 DEF Stage, Calmer
  <1>8. CASE disk' \in {disk, j} /\ proc' = Fails(entered, "nothing")
    <2>. HIDE DEF j
    <2>1. Form'
      BY <1>8, ZenonT(60) DEF StartEffect, Form, ProcFields, Fails
    <2>2. Reverting'
      BY <1>1, <1>2, <1>3, <1>4, <1>8, SMTT(30) DEF Form, ProcFields, Fails, Forwarding, Reverting, InUpdate, Calmer, Last
    <2>. QED
      BY <1>2, <1>6, <2>1, <2>2 DEF Stage, Calmer
  <1>9. CASE disk' = disk /\ proc' = Fails(proc, "nothing")
    <2>1. Form'
      BY <1>9 DEF StartEffect, Form, ProcFields, Fails
    <2>2. Reverting'
      BY <1>1, <1>2, <1>3, <1>9, SMTT(30) DEF Form, ProcFields, Fails, Forwarding, Reverting, InUpdate, Calmer, Last
    <2>. QED
      BY <1>2, <1>6, <2>1, <2>2 DEF Stage, Calmer
  <1>. QED
    <2>1. CASE WriteAt(j, Goes(entered, "prepare"), Fails(entered, "nothing"))
      BY <2>1, <1>7, <1>8, Written
    <2>. QED
      BY <2>1, <1>9 DEF StartEffect

\* The entry that is being executed, and its repository.
LEMMA Midway ==
    ASSUME PlanAssumption, Forwarding, proc.pc # "effect"
    PROVE  /\ Current \in Repos /\ proc.at \in 1..Len(Effects) /\ proc.at \in Nat
           /\ Last = proc.at /\ DOMAIN proc.journal.progress = 1..Last
           /\ proc.journal.progress[Last].name = Current
           /\ proc.journal.progress[Last].state # "rolled-back"
           /\ Has(proc.journal, Current) /\ Has(disk, Current)
  BY SMTT(40) DEF Forwarding, EffectsLeft, Current, PlanAssumption, OpenJournals, Last, Has

\* A journal that accounts for the repository being changed.
Accounts(j) ==
    /\ j \in OpenJournals /\ Len(j.progress) = Last
    /\ Evident(j, DirtyRepos \cup {Current}) /\ RepoEntries(j)
    /\ \A i \in 1..Last : i # Last => j.progress[i] = proc.journal.progress[i]
    /\ j.progress[Last].name = Current /\ j.progress[Last].state # "rolled-back"

LEMMA AccountsAlready ==
    ASSUME PlanAssumption, Forwarding, proc.pc # "effect"
    PROVE  Accounts(proc.journal)
  BY Midway DEF Accounts, Forwarding, Evident, Last

LEMMA AccountsAfter ==
    ASSUME PlanAssumption, Forwarding, proc.pc # "effect",
           NEW s \in {"prepared", "completed"}
    PROVE  Accounts(WithReceipt(proc.journal, s, proc.known))
  <1>. DEFINE j == WithReceipt(proc.journal, s, proc.known)
              e == DirtyRepos \cup {Current}
  <1>1. Evident(proc.journal, e)
    BY AccountsAlready DEF Accounts
  <1>2. proc.journal \in OpenJournals /\ proc.known \in Receipts /\ RepoEntries(proc.journal)
        /\ Len(proc.journal.progress) # 0
    BY Midway, SMTT(30) DEF Forwarding, Last
  <1>. HIDE DEF e
  <1>3. /\ j \in OpenJournals /\ Len(j.progress) = Last
        /\ \A i \in 1..Last : i # Last => j.progress[i] = proc.journal.progress[i]
        /\ j.progress[Last].name = proc.journal.progress[Last].name /\ j.progress[Last].state = s
    BY <1>2, Received, SMTT(30) DEF Last
  <1>4. Evident(j, e) /\ RepoEntries(j)
    BY <1>1, <1>2, ReceivedEvidence, ReceivedRepos
  <1>. QED
    BY <1>3, <1>4, Midway DEF Accounts, e

\* The effect goes on, or fails, and what it has changed is accounted for.
LEMMA Advances ==
    ASSUME PlanAssumption, IInv, Forwarding, proc.pc # "effect", World', Form', FilesClean',
           DirtyRepos' \subseteq DirtyRepos \cup {Current}, committed' = committed,
           NEW j, Accounts(j), disk' \in {disk, j}, proc'.journal = j,
           proc'.at = proc.at, proc'.done = proc.done, proc'.call = proc.call,
           proc'.outcome = proc.outcome,
           \/ proc'.pc \in {"prepared", "execute", "completed"} /\ proc'.known \in Receipts
           \/ /\ proc'.pc = "fail" /\ proc'.failed = Current
              /\ proc'.known \in Receipts \cup {"unfetched"}
    PROVE  IInv'
  <1>1. j \in OpenJournals /\ Evident(j, DirtyRepos') /\ RepoEntries(j)
    BY DEF Accounts, Evident
  <1>2. disk' \in OpenJournals /\ Evident(disk', DirtyRepos') /\ Has(disk', Current)
        /\ Has(j, Current)
    <2>1. Evident(disk, DirtyRepos) /\ disk \in OpenJournals
      BY OpenIsNotClosed DEF IInv, Disk, Forwarding, InUpdate, Honest
    <2>2. Has(disk, Current) /\ Has(j, Current)
      BY Midway DEF Accounts, Evident
    <2>. QED
      BY <1>1, <2>1, <2>2 DEF Evident
  <1>3. Disk'
    <2>1. ~committed'
      BY DEF Forwarding, InUpdate
    <2>2. Honest(disk', DirtyRepos', committed')
      BY <1>2 DEF Honest
    <2>. QED
      BY <2>1, <2>2 DEF Disk
  <1>4. InUpdate' /\ FilesClean'
    BY DEF Forwarding, InUpdate
  <1>5. Evident(proc.journal, DirtyRepos)' /\ RepoEntries(proc.journal)'
    BY <1>1 DEF Evident, Has, RepoEntries
  <1>6. Last' = Last /\ Current' = Current /\ EffectsLeft' /\ Last = proc.at
        /\ proc.at \in 1..Len(Effects) /\ Has(disk, Current)'
    <2>1. Last' = Last /\ Current' = Current
      BY DEF Last, Current, Accounts
    <2>2. EffectsLeft'
      BY Midway DEF EffectsLeft
    <2>. QED
      BY <2>1, <2>2, <1>2, Midway DEF Has
  <1>7. CASE proc'.pc \in {"prepared", "execute", "completed"} /\ proc'.known \in Receipts
    <2>1. \A i \in 1..proc'.done : proc'.journal.progress[i].state # "started"
      BY <1>6, SMTT(30) DEF Forwarding, Accounts
    <2>2. \A i \in DOMAIN Effects : i > proc'.at => Effects[i] \notin DirtyRepos'
      <3>1. \A i \in DOMAIN Effects : i > proc.at => Effects[i] # Current
        BY <1>6 DEF PlanAssumption, Current
      <3>. QED
        BY <3>1 DEF Forwarding
    <2>3. /\ proc'.journal.progress[Last'].name = Current'
          /\ proc'.journal.progress[Last'].state # "rolled-back"
      BY <1>6 DEF Accounts
    <2>4. Forwarding'
      BY <1>1, <1>2, <1>4, <1>5, <1>6, <1>7, <2>1, <2>2, <2>3 DEF Forwarding
    <2>. QED
      BY <1>3, <2>4 DEF IInv, Stage
  <1>8. CASE /\ proc'.pc = "fail" /\ proc'.failed = Current
             /\ proc'.known \in Receipts \cup {"unfetched"}
    <2>1. Current # "nothing"
      BY Midway DEF PlanAssumption
    <2>2. proc'.done \in 0..Last' /\ Last' # 0 /\ proc'.journal.progress[Last'].name = Current
      BY <1>6, SMTT(30) DEF Forwarding, Accounts
    <2>3. Reverting'
      BY <1>1, <1>4, <1>5, <1>8, <2>1, <2>2 DEF Reverting
    <2>. QED
      BY <1>3, <2>3 DEF IInv, Stage
  <1>. QED
    BY <1>7, <1>8

LEMMA PrepareKeeps ==
    ASSUME PlanAssumption, IInv, Prepare PROVE IInv'
  <1>1. Forwarding /\ proc.pc = "prepare" /\ Current \notin DirtyRepos /\ FilesClean
    BY StageIs DEF IInv, Prepare, At, Forwarding
  <1>2. Current \in Repos
    BY <1>1, Midway
  <1>3. Accounts(proc.journal)
    BY <1>1, AccountsAlready
  <1>. DEFINE receipt == IF Current \in Additions THEN "before" ELSE side[Current]
              known == [proc EXCEPT !.known = receipt]
  <1>4. receipt \in Receipts
    BY <1>1, <1>2 DEF IInv, World, DirtyRepos, Generations, Receipts
  <1>. HIDE DEF receipt
  <1>5. /\ World' /\ FilesClean' /\ DirtyRepos' \subseteq DirtyRepos \cup {Current}
        /\ UNCHANGED <<disk, private, committed>>
    <2>1. side' \in {side, [side EXCEPT ![Current] = "after"]}
      BY DEF Prepare
    <2>2. UNCHANGED <<head, manifest, file, disk, private, committed>>
      BY DEF Prepare
    <2>. QED
      BY <1>1, <1>2, <2>1, <2>2 DEF IInv, World, DirtyRepos, FilesClean, Generations
  <1>6. proc.known \in Receipts
    BY <1>1 DEF Forwarding
  <1>7. \/ proc' = Fails(proc, Current)
        \/ proc' = Fails([proc EXCEPT !.known = "unfetched"], Current)
        \/ proc' = Goes(known, "prepared")
        \/ proc' = Fails(known, Current)
    BY DEF Prepare, receipt
  <1>8. Form'
    BY <1>5, <1>7, ZenonT(60) DEF IInv, Form, ProcFields, Fails, Goes
  <1>9. /\ proc'.journal = proc.journal /\ proc'.at = proc.at /\ proc'.done = proc.done
        /\ proc'.call = proc.call /\ proc'.outcome = proc.outcome
        /\ \/ proc'.pc \in {"prepared", "execute", "completed"} /\ proc'.known \in Receipts
           \/ /\ proc'.pc = "fail" /\ proc'.failed = Current
              /\ proc'.known \in Receipts \cup {"unfetched"}
    <2>1. proc = [x \in ProcFields |-> proc[x]]
      BY DEF IInv, Form
    <2>2. known = [x \in ProcFields |-> known[x]]
      BY <2>1, ZenonT(40) DEF ProcFields
    <2>3. /\ known.journal = proc.journal /\ known.at = proc.at /\ known.done = proc.done
          /\ known.call = proc.call /\ known.outcome = proc.outcome
          /\ known.known \in Receipts
      BY <1>4, <2>1 DEF ProcFields
    <2>4. PICK from : /\ from \in {proc, known, [proc EXCEPT !.known = "unfetched"]}
                      /\ \/ proc' = Fails(from, Current)
                         \/ from = known /\ proc' = Goes(from, "prepared")
      BY <1>7
    <2>5. /\ from = [x \in ProcFields |-> from[x]]
          /\ from.journal = proc.journal /\ from.at = proc.at /\ from.done = proc.done
          /\ from.call = proc.call /\ from.outcome = proc.outcome
          /\ from.known \in Receipts \cup {"unfetched"}
          /\ from = known => from.known \in Receipts
      <3>1. CASE from = [proc EXCEPT !.known = "unfetched"]
        BY <2>1, <2>3, <3>1, ZenonT(40) DEF ProcFields
      <3>. QED
        BY <1>6, <2>1, <2>2, <2>3, <2>4, <3>1
    <2>6. CASE proc' = Fails(from, Current)
      BY ONLY <2>5, <2>6 DEF ProcFields, Fails
    <2>7. CASE from = known /\ proc' = Goes(from, "prepared")
      BY ONLY <2>5, <2>7 DEF ProcFields, Goes
    <2>. QED
      BY <2>4, <2>6, <2>7
  <1>. QED
    BY <1>1, <1>3, <1>5, <1>8, <1>9, Advances

LEMMA PreparedKeeps ==
    ASSUME PlanAssumption, IInv, Prepared PROVE IInv'
  <1>. DEFINE j == WithReceipt(proc.journal, "prepared", proc.known)
              prepared == [proc EXCEPT !.journal = j]
  <1>1. Forwarding /\ proc.pc = "prepared" /\ FilesClean
    BY StageIs DEF IInv, Prepared, At, Forwarding
  <1>2. Accounts(j)
    BY <1>1, AccountsAfter
  <1>3. proc.known \in Receipts
    BY <1>1 DEF Forwarding
  <1>4. Calmer /\ DirtyRepos' = DirtyRepos /\ UNCHANGED private
    BY Same DEF IInv, Prepared
  <1>. HIDE DEF j
  <1>5. \/ disk' = j /\ proc' = Goes(prepared, "execute")
        \/ disk' \in {disk, j} /\ proc' = Fails(prepared, Current)
    <2>1. WriteAt(prepared.journal, Goes(prepared, "execute"), Fails(prepared, Current))
      BY DEF Prepared, j
    <2>2. prepared.journal = j
      BY DEF IInv, Form, ProcFields
    <2>. QED
      BY <2>1, <2>2, Written
  <1>6. Form'
    BY <1>4, <1>5, ZenonT(60) DEF IInv, Form, ProcFields, Fails, Goes, Calmer
  <1>7. /\ proc'.journal = j /\ proc'.at = proc.at /\ proc'.done = proc.done
        /\ proc'.call = proc.call /\ proc'.outcome = proc.outcome /\ proc'.known = proc.known
        /\ proc'.pc = "execute" \/ (proc'.pc = "fail" /\ proc'.failed = Current)
    BY <1>5, ZenonT(60) DEF IInv, Form, ProcFields, Fails, Goes
  <1>8. disk' \in {disk, j} /\ World' /\ FilesClean' /\ committed' = committed
    BY <1>1, <1>4, <1>5 DEF Calmer
  <1>. QED
    BY <1>1, <1>2, <1>3, <1>4, <1>6, <1>7, <1>8, Advances

LEMMA ExecuteKeeps ==
    ASSUME PlanAssumption, IInv, Execute PROVE IInv'
  <1>1. Forwarding /\ proc.pc = "execute" /\ FilesClean
    BY StageIs DEF IInv, Execute, At, Forwarding
  <1>2. Current \in Repos /\ Accounts(proc.journal) /\ proc.known \in Receipts
    BY <1>1, Midway, AccountsAlready DEF Forwarding
  <1>3. /\ World' /\ FilesClean' /\ DirtyRepos' \subseteq DirtyRepos \cup {Current}
        /\ UNCHANGED <<disk, private, committed>>
    <2>1. UNCHANGED <<file, disk, private, committed>>
      BY DEF Execute
    <2>2. CASE UNCHANGED <<head, side, manifest>>
      BY <1>1, <2>1, <2>2 DEF IInv, World, DirtyRepos, FilesClean
    <2>3. CASE Arrives(Current)
      BY <1>1, <1>2, <2>1, <2>3 DEF Arrives, IInv, World, DirtyRepos, FilesClean, Generations
    <2>. QED
      BY <2>1, <2>2, <2>3 DEF Execute
  <1>4. \/ proc' = Goes([proc EXCEPT !.moved = TRUE], "completed")
        \/ proc' = Fails([proc EXCEPT !.moved = TRUE], Current)
        \/ proc' = Fails(proc, Current)
    BY DEF Execute
  <1>5. Form'
    BY <1>3, <1>4, ZenonT(60) DEF IInv, Form, ProcFields, Fails, Goes
  <1>6. /\ proc'.journal = proc.journal /\ proc'.at = proc.at /\ proc'.done = proc.done
        /\ proc'.call = proc.call /\ proc'.outcome = proc.outcome /\ proc'.known = proc.known
        /\ proc'.pc = "completed" \/ (proc'.pc = "fail" /\ proc'.failed = Current)
    BY <1>4, ZenonT(60) DEF IInv, Form, ProcFields, Fails, Goes
  <1>. QED
    BY <1>1, <1>2, <1>3, <1>5, <1>6, Advances

LEMMA CompletedKeeps ==
    ASSUME PlanAssumption, IInv, Completed PROVE IInv'
  <1>. DEFINE j == WithReceipt(proc.journal, "completed", proc.known)
              completed == [proc EXCEPT !.journal = j, !.done = proc.at]
              on == [completed EXCEPT !.pc = "effect", !.at = completed.at + 1]
  <1>1. Forwarding /\ proc.pc = "completed" /\ FilesClean /\ ~committed
    BY StageIs DEF IInv, Completed, At, Forwarding, InUpdate
  <1>2. Accounts(j) /\ j.progress[Last].state = "completed"
    <2>1. Accounts(j)
      BY <1>1, AccountsAfter
    <2>2. proc.journal \in OpenJournals /\ proc.known \in Receipts
          /\ Len(proc.journal.progress) # 0
      BY <1>1, Midway DEF Forwarding, Last
    <2>. QED
      BY <2>1, <2>2, Received DEF Last
  <1>3. Calmer /\ DirtyRepos' = DirtyRepos /\ UNCHANGED private
    BY Same DEF IInv, Completed
  <1>4. Last = proc.at /\ proc.at \in 1..Len(Effects) /\ proc.at \in Nat /\ Last \in Nat
    BY <1>1, Midway
  <1>. HIDE DEF j
  <1>5. \/ disk' = j /\ proc' = on
        \/ disk' \in {disk, j} /\ proc' = Fails(completed, "nothing")
    <2>1. WriteAt(completed.journal, on, Fails(completed, "nothing"))
      BY DEF Completed, j
    <2>2. completed.journal = j
      BY DEF IInv, Form, ProcFields
    <2>. QED
      BY <2>1, <2>2, Written
  <1>6. Form'
    BY <1>3, <1>5, ZenonT(60) DEF IInv, Form, ProcFields, Fails, Calmer
  <1>7. /\ j \in OpenJournals /\ Evident(j, DirtyRepos) /\ RepoEntries(j)
        /\ Len(j.progress) = Last
        /\ \A i \in 1..Last : j.progress[i].state # "started"
    <2>1. \A i \in 1..Last : i # Last => j.progress[i].state # "started"
      BY <1>1, <1>2, <1>4, SMTT(30) DEF Accounts, Forwarding
    <2>. QED
      BY <1>2, <2>1 DEF Accounts, Evident
  <1>8. Disk'
    <2>1. disk' \in {disk, j} /\ Honest(j, DirtyRepos, committed)
      BY <1>5, <1>7 DEF Honest
    <2>. QED
      BY <1>1, <1>3, <2>1, DiskIs DEF IInv
  <1>9. CASE disk' = j /\ proc' = on
    <2>1. /\ proc'.pc = "effect" /\ proc'.journal = j /\ proc'.at = proc.at + 1
          /\ proc'.done = proc.at /\ proc'.call = proc.call /\ proc'.outcome = proc.outcome
      BY <1>9 DEF IInv, Form, ProcFields
    <2>2. Last' = Last
      BY <1>7, <2>1 DEF Last
    <2>3. InUpdate' /\ FilesClean'
      BY <1>1, <1>3, <2>1 DEF Forwarding, InUpdate, Calmer
    <2>4. Evident(proc.journal, DirtyRepos)' /\ RepoEntries(proc.journal)'
      BY <1>3, <1>7, <2>1 DEF Evident, Has, RepoEntries
    <2>5. \A i \in DOMAIN Effects : i > proc.at => Effects[i] \notin DirtyRepos'
      BY <1>1, <1>3 DEF Forwarding
    <2>6. EffectsLeft' => Current' \notin DirtyRepos'
      <3>. SUFFICES ASSUME EffectsLeft' PROVE Current' \notin DirtyRepos'
        OBVIOUS
      <3>1. proc.at + 1 \in DOMAIN Effects /\ proc.at + 1 > proc.at
        BY <1>4, <2>1 DEF EffectsLeft, PlanAssumption
      <3>. QED
        BY <2>1, <2>5, <3>1 DEF Current
    <2>7. \A i \in DOMAIN Effects : i > proc'.at => Effects[i] \notin DirtyRepos'
      <3>1. \A i \in DOMAIN Effects : i > proc'.at => i > proc.at
        BY <1>4, <2>1 DEF PlanAssumption
      <3>. QED
        BY <2>5, <3>1
    <2>8. Forwarding'
      BY <1>4, <1>7, <1>9, <2>1, <2>2, <2>3, <2>4, <2>6, <2>7, SMTT(30) DEF Forwarding
    <2>. QED
      BY <1>3, <1>6, <1>8, <2>8 DEF IInv, Stage, Calmer
  <1>10. CASE disk' \in {disk, j} /\ proc' = Fails(completed, "nothing")
    <2>1. /\ proc'.pc = "fail" /\ proc'.journal = j /\ proc'.failed = "nothing"
          /\ proc'.done = proc.at /\ proc'.call = proc.call /\ proc'.outcome = proc.outcome
      BY <1>10 DEF IInv, Form, ProcFields, Fails
    <2>2. Last' = Last
      BY <1>7, <2>1 DEF Last
    <2>3. InUpdate' /\ FilesClean'
      BY <1>1, <1>3, <2>1 DEF Forwarding, InUpdate, Calmer
    <2>4. Evident(proc.journal, DirtyRepos)' /\ RepoEntries(proc.journal)'
      BY <1>3, <1>7, <2>1 DEF Evident, Has, RepoEntries
    <2>5. Reverting'
      BY <1>4, <1>7, <2>1, <2>2, <2>3, <2>4 DEF Reverting
    <2>. QED
      BY <1>3, <1>6, <1>8, <2>5 DEF IInv, Stage, Calmer
  <1>. QED
    BY <1>5, <1>9, <1>10

LEMMA HandOffKeeps ==
    ASSUME PlanAssumption, IInv, HandOff PROVE IInv'
  <1>1. /\ Forwarding /\ proc.pc = "effect" /\ FilesClean /\ ~committed /\ Last = proc.done
        /\ Evident(proc.journal, DirtyRepos) /\ RepoEntries(proc.journal)
    BY StageIs DEF IInv, HandOff, At, Forwarding, InUpdate
  <1>2. Calmer /\ DirtyRepos' = DirtyRepos /\ UNCHANGED <<disk, private>>
    BY Same DEF IInv, HandOff
  <1>3. Disk'
    BY <1>2, DiskStays DEF IInv
  <1>4. proc' = Goes(proc, "executed") \/ proc' = Fails(proc, "nothing")
    BY DEF HandOff
  <1>5. Form'
    BY <1>2, <1>4, ZenonT(60) DEF IInv, Form, ProcFields, Fails, Goes, Calmer
  <1>6. CASE proc' = Goes(proc, "executed")
    <2>1. Publishing'
      BY <1>1, <1>2, <1>6 DEF Publishing, Forwarding, InUpdate, Calmer, IInv, Form, ProcFields, Goes
    <2>. QED
      BY <1>2, <1>3, <1>5, <2>1 DEF IInv, Stage, Calmer
  <1>7. CASE proc' = Fails(proc, "nothing")
    <2>1. /\ proc'.pc = "fail" /\ proc'.journal = proc.journal /\ proc'.failed = "nothing"
          /\ proc'.done = proc.done /\ proc'.call = proc.call /\ proc'.outcome = proc.outcome
      BY <1>7 DEF IInv, Form, ProcFields, Fails
    <2>2. Last' = Last /\ proc.done \in Nat
      BY <1>1, <2>1 DEF Last, Forwarding
    <2>3. InUpdate' /\ FilesClean'
      BY <1>1, <1>2, <2>1 DEF Forwarding, InUpdate, Calmer
    <2>4. Evident(proc.journal, DirtyRepos)' /\ RepoEntries(proc.journal)'
      BY <1>1, <1>2, <2>1 DEF Evident, Has, RepoEntries
    <2>5. Reverting'
      BY <1>1, <2>1, <2>2, <2>3, <2>4 DEF Reverting, Forwarding
    <2>. QED
      BY <1>2, <1>3, <1>5, <2>5 DEF IInv, Stage, Calmer
  <1>. QED
    BY <1>4, <1>6, <1>7

LEMMA FailStartKeeps ==
    ASSUME PlanAssumption, IInv, FailStart PROVE IInv'
  <1>. DEFINE j == [proc.journal EXCEPT !.state = "rolling-back"]
              failing == [proc EXCEPT !.journal.state = "rolling-back"]
              started == /\ proc.failed = "nothing" /\ Last # 0
                         /\ proc.journal.progress[Last].state = "started"
              k == IF started THEN Mark(j, Last, "rolled-back") ELSE j
              pc == IF proc.failed = "nothing" THEN "rollback" ELSE "cleanup"
  <1>1. /\ Reverting /\ proc.pc = "fail" /\ FilesClean /\ ~committed
        /\ proc.journal \in OpenJournals /\ Evident(proc.journal, DirtyRepos)
        /\ RepoEntries(proc.journal) /\ proc.done \in 0..Last
        /\ started => proc.journal.progress[Last].name \notin DirtyRepos
    BY StageIs DEF IInv, FailStart, At, Reverting, InUpdate
  <1>2. Calmer /\ DirtyRepos' = DirtyRepos /\ UNCHANGED private
    BY Same DEF IInv, FailStart
  <1>3. /\ j \in OpenJournals /\ j.progress = proc.journal.progress /\ Evident(j, DirtyRepos)
        /\ RepoEntries(j)
    BY <1>1, Restated
  <1>4. Last \in Nat
    BY <1>1 DEF Last, OpenJournals
  <1>5. disk' \in {disk, j} /\ proc' = [failing EXCEPT !.journal = k, !.at = proc.done, !.pc = pc]
    <2>. DEFINE u == IF started
                     THEN [failing EXCEPT !.journal = Mark(failing.journal, Last, "rolled-back")]
                     ELSE failing
    <2>1. failing.journal = j /\ failing.done = proc.done /\ failing = [proc EXCEPT !.journal = j]
      BY DEF IInv, Form, ProcFields
    <2>2. WriteAnyway(failing.journal, [u EXCEPT !.at = u.done, !.pc = pc])
      BY Zenon DEF FailStart, Last
    <2>. HIDE DEF j, k, failing
    <2>3. u = [failing EXCEPT !.journal = k] /\ u.done = proc.done
      BY <2>1 DEF k, IInv, Form, ProcFields
    <2>. HIDE DEF u
    <2>4. [u EXCEPT !.at = u.done, !.pc = pc] = [failing EXCEPT !.journal = k, !.at = proc.done, !.pc = pc]
      BY <2>3
    <2>. QED
      BY <2>1, <2>2, <2>4, WrittenAnyway
  <1>. HIDE DEF j
  <1>6. /\ k \in OpenJournals /\ Len(k.progress) = Last
        /\ Last # 0 => k.progress[Last].name = proc.journal.progress[Last].name
        /\ Evident(k, DirtyRepos) /\ RepoEntries(k)
    <2>1. CASE started
      <3>1. Last \in 1..Len(j.progress) /\ "rolled-back" \in EntryStates
        BY <1>3, <1>4, <2>1 DEF EntryStates, Last
      <3>2. k = Mark(j, Last, "rolled-back")
        BY <2>1
      <3>. HIDE DEF k
      <3>. QED
        BY <1>1, <1>3, <2>1, <3>1, <3>2, Marked, MarkedRepos, EvidenceGivenUp, SMTT(40) DEF Last
    <2>2. CASE ~started
      BY <1>3, <2>2 DEF Last
    <2>. QED
      BY <2>1, <2>2
  <1>. HIDE DEF k
  <1>7. Disk'
    <2>1. Honest(j, DirtyRepos, committed)
      BY <1>3 DEF Honest
    <2>. QED
      BY <1>1, <1>2, <1>5, <2>1, DiskIs DEF IInv
  <1>8. Form'
    BY <1>2, <1>5 DEF IInv, Form, ProcFields, Calmer
  <1>9. /\ proc'.pc = pc /\ proc'.journal = k /\ proc'.at = proc.done /\ proc'.done = proc.done
        /\ proc'.failed = proc.failed /\ proc'.known = proc.known
        /\ proc'.call = proc.call /\ proc'.outcome = proc.outcome
    BY <1>5 DEF IInv, Form, ProcFields
  <1>10. Last' = Last
    BY <1>6, <1>9 DEF Last
  <1>11. Evident(proc.journal, DirtyRepos)' /\ RepoEntries(proc.journal)'
    BY <1>2, <1>6, <1>9 DEF Evident, Has, RepoEntries
  <1>12. Reverting'
    BY <1>1, <1>2, <1>6, <1>9, <1>10, <1>11 DEF Reverting, InUpdate, Calmer
  <1>. QED
    BY <1>2, <1>7, <1>8, <1>12 DEF IInv, Stage, Calmer

\* An inverse was tried: its entry says how that went.
LEMMA Reverts ==
    ASSUME PlanAssumption, IInv, Reverting, Calmer, UNCHANGED <<disk, private>>,
           NEW i \in 1..Last, NEW at \in 0..Last,
           \/ /\ proc' = Undone(i, "rollback", at)
              /\ proc.journal.progress[i].name \notin DirtyRepos'
           \/ proc' = Kept(i, "rollback", at)
    PROVE  IInv'
  <1>1. /\ FilesClean /\ ~committed /\ proc.journal \in OpenJournals
        /\ Evident(proc.journal, DirtyRepos) /\ RepoEntries(proc.journal) /\ proc.done \in 0..Last
    BY DEF Reverting, InUpdate
  <1>2. Evident(proc.journal, DirtyRepos') /\ DirtyRepos' \subseteq DirtyRepos
    BY <1>1 DEF Evident, Calmer
  <1>3. Disk'
    BY DiskStays DEF IInv
  <1>4. ASSUME NEW s \in {"rolled-back", "unreverted"}, NEW p, p = Mark(proc.journal, i, s),
               s = "rolled-back" => proc.journal.progress[i].name \notin DirtyRepos',
               proc'.pc = "rollback", proc'.journal = p, proc'.at = at, proc'.done = proc.done,
               proc'.call = proc.call, proc'.outcome = proc.outcome, Form'
        PROVE  IInv'
    <2>1. s \in EntryStates /\ i \in 1..Len(proc.journal.progress)
      BY DEF EntryStates, Last
    <2>2. p \in OpenJournals /\ Len(p.progress) = Last /\ RepoEntries(p)
      BY <1>1, <1>4, <2>1, Marked, MarkedRepos DEF Last
    <2>3. Evident(p, DirtyRepos')
      BY <1>1, <1>2, <1>4, <2>1, EvidenceKept, EvidenceGivenUp, SMTT(30)
    <2>4. Evident(proc.journal, DirtyRepos)' /\ RepoEntries(proc.journal)' /\ Last' = Last
      BY <1>4, <2>2, <2>3 DEF Evident, Has, RepoEntries, Last
    <2>5. Reverting'
      BY <1>1, <1>4, <2>2, <2>4 DEF Reverting, InUpdate, Calmer
    <2>. QED
      BY <1>3, <1>4, <2>5 DEF IInv, Stage, Calmer
  <1>5. CASE proc' = Undone(i, "rollback", at) /\ proc.journal.progress[i].name \notin DirtyRepos'
    <2>. DEFINE p == Mark(proc.journal, i, "rolled-back")
    <2>1. proc' = [proc EXCEPT !.journal = p, !.pc = "rollback", !.at = at]
      BY <1>5 DEF Undone
    <2>. HIDE DEF p
    <2>2. /\ proc'.pc = "rollback" /\ proc'.journal = p /\ proc'.at = at /\ proc'.done = proc.done
          /\ proc'.call = proc.call /\ proc'.outcome = proc.outcome /\ Form'
      BY <2>1, ZenonT(60) DEF IInv, Form, ProcFields, Calmer
    <2>. QED
      BY <1>4, <1>5, <2>2 DEF p
  <1>6. CASE proc' = Kept(i, "rollback", at)
    <2>. DEFINE p == Mark(proc.journal, i, "unreverted")
    <2>1. proc' = [proc EXCEPT !.journal = p, !.pc = "rollback", !.at = at, !.rollback = TRUE]
      BY <1>6 DEF Kept
    <2>. HIDE DEF p
    <2>2. /\ proc'.pc = "rollback" /\ proc'.journal = p /\ proc'.at = at /\ proc'.done = proc.done
          /\ proc'.call = proc.call /\ proc'.outcome = proc.outcome /\ Form'
      BY <2>1, ZenonT(60) DEF IInv, Form, ProcFields, Calmer
    <2>. QED
      BY <1>4, <2>2 DEF p
  <1>. QED
    BY <1>5, <1>6

LEMMA CleanUpFailedKeeps ==
    ASSUME PlanAssumption, IInv, CleanUpFailed PROVE IInv'
  <1>1. /\ Reverting /\ proc.pc = "cleanup" /\ proc.journal \in OpenJournals
        /\ Last # 0 /\ proc.journal.progress[Last].name = proc.failed
        /\ proc.known \in Receipts \cup {"unfetched"} /\ proc.at \in 0..Last
        /\ RepoEntries(proc.journal)
    BY StageIs DEF IInv, CleanUpFailed, At, Reverting
  <1>2. Last \in 1..Last /\ proc.failed \in Repos
    BY <1>1 DEF OpenJournals, Last, RepoEntries
  <1>3. /\ Calmer
        /\ \/ /\ proc' = Undone(Last, "rollback", proc.at)
              /\ proc.failed \notin DirtyRepos'
           \/ proc' = Kept(Last, "rollback", proc.at)
    <2>1. /\ Undo(proc.failed, proc.known, proc.moved,
                  Undone(Last, "rollback", proc.at), Kept(Last, "rollback", proc.at))
          /\ UNCHANGED <<file, committed>>
      BY DEF CleanUpFailed, Last
    <2>. QED
      BY <1>1, <1>2, <2>1, Undoing DEF IInv
  <1>4. UNCHANGED <<disk, private>>
    BY DEF CleanUpFailed
  <1>. QED
    BY <1>1, <1>2, <1>3, <1>4, Reverts

LEMMA RollbackEffectKeeps ==
    ASSUME PlanAssumption, IInv, RollbackEffect PROVE IInv'
  <1>. DEFINE entry == proc.journal.progress[proc.at]
  <1>1. /\ Reverting /\ proc.pc = "rollback" /\ proc.journal \in OpenJournals
        /\ proc.at \in 0..Last /\ proc.at > 0 /\ RepoEntries(proc.journal)
    BY StageIs DEF IInv, RollbackEffect, At, Reverting
  <1>2. /\ Last \in Nat /\ proc.at \in 1..Last /\ proc.at - 1 \in 0..Last
        /\ entry \in EntryType /\ entry.name \in Repos
    BY <1>1 DEF OpenJournals, Last, RepoEntries
  <1>3. entry.receipt \in Receipts
    BY <1>2 DEF EntryType
  <1>. HIDE DEF entry
  <1>4. /\ Calmer
        /\ \/ /\ proc' = Undone(proc.at, "rollback", proc.at - 1)
              /\ entry.name \notin DirtyRepos'
           \/ proc' = Kept(proc.at, "rollback", proc.at - 1)
    <2>1. /\ Undo(entry.name, entry.receipt, TRUE,
                  Undone(proc.at, "rollback", proc.at - 1), Kept(proc.at, "rollback", proc.at - 1))
          /\ UNCHANGED <<file, committed>>
      BY DEF RollbackEffect, entry
    <2>. QED
      BY <1>2, <1>3, <2>1, Undoing DEF IInv
  <1>5. UNCHANGED <<disk, private>>
    BY DEF RollbackEffect
  <1>. QED
    BY <1>1, <1>2, <1>4, <1>5, Reverts DEF entry

LEMMA RollbackEndsKeeps ==
    ASSUME PlanAssumption, IInv, RollbackEnds PROVE IInv'
  <1>. DEFINE j == [proc.journal EXCEPT !.state = "incomplete"]
  <1>1. /\ Reverting /\ FilesClean /\ ~committed /\ proc.journal \in OpenJournals
        /\ Evident(proc.journal, DirtyRepos)
    BY StageIs DEF IInv, RollbackEnds, At, Reverting, InUpdate
  <1>2. Calmer /\ DirtyRepos' = DirtyRepos /\ UNCHANGED private
    BY Same DEF IInv, RollbackEnds
  <1>3. CASE disk' \in {disk, j} /\ proc' = Ends(proc, "incomplete")
    <2>1. Honest(j, DirtyRepos, committed)
      BY <1>1, Restated DEF Honest
    <2>2. Disk'
      BY <1>1, <1>2, <1>3, <2>1, DiskIs DEF IInv
    <2>3. Form' /\ Over'
      BY <1>2, <1>3, EndsQuietly DEF IInv, Form, ProcFields, Ends, Calmer
    <2>. QED
      BY <1>2, <2>2, <2>3 DEF IInv, Stage, Calmer
  <1>4. CASE disk' = disk /\ proc' = [proc EXCEPT !.pc = "terminal", !.outcome = "rolled-back"]
    <2>1. Disk'
      BY <1>2, <1>4, DiskStays DEF IInv
    <2>2. Form'
      BY <1>2, <1>4 DEF IInv, Form, ProcFields, Calmer
    <2>3. /\ proc'.pc = "terminal" /\ proc'.outcome = "rolled-back" /\ proc'.journal = proc.journal
          /\ proc'.call = proc.call
      BY <1>4 DEF IInv, Form, ProcFields
    <2>4. Honest(proc.journal, DirtyRepos, committed)'
      BY <1>1, <1>2, <2>3 DEF Honest, Evident, Has
    <2>5. ~Closed(proc.journal)'
      BY <1>1, <2>3, OpenIsNotClosed DEF Closed
    <2>6. Closing'
      BY <1>1, <1>2, <2>3, <2>4, <2>5 DEF Closing, Outcomes, Calmer
    <2>. QED
      BY <1>2, <2>1, <2>2, <2>6 DEF IInv, Stage, Calmer
  <1>. QED
    BY <1>3, <1>4, WrittenAnyway DEF RollbackEnds

\* A step that only writes files.
LEMMA FilesOnly ==
    ASSUME IInv, UNCHANGED <<head, side, manifest, disk, private, committed>>,
           file' \in [Files -> Generations]
    PROVE  World' /\ DirtyRepos' = DirtyRepos /\ Disk'
  <1>1. World' /\ DirtyRepos' = DirtyRepos
    BY DEF IInv, World, DirtyRepos
  <1>2. Honest(disk', DirtyRepos', committed') /\ (committed' => Final(disk'))
    BY <1>1 DEF IInv, Disk
  <1>. QED
    BY <1>1, <1>2 DEF Disk

\* Publication is given up; what is published is among the targets that are done.
LEMMA GivesUp ==
    ASSUME IInv, Publishing, proc.pc # "executed", World', Disk', DirtyRepos' = DirtyRepos,
           UNCHANGED <<private, committed>>, disk' \in OpenJournals,
           NEW j \in OpenJournals, Evident(j, DirtyRepos),
           NEW p, p = [proc EXCEPT !.journal = j], proc' = Unpublishes(p),
           proc.done \in 0..Len(Targets), Published(proc.done)'
    PROVE  IInv'
  <1>1. /\ proc'.pc = "unpublish" /\ proc'.journal = j /\ proc'.at = proc.done
        /\ proc'.call = proc.call /\ proc'.outcome = proc.outcome
    BY DEF IInv, Form, ProcFields, Unpublishes
  <1>2. Form'
    BY DEF IInv, Form, ProcFields, Unpublishes
  <1>3. Evident(proc.journal, DirtyRepos)'
    BY <1>1 DEF Evident, Has
  <1>4. Published(proc.at)'
    BY <1>1 DEF Published, IInv, Form, ProcFields, Unpublishes
  <1>5. Publishing'
    BY <1>1, <1>3, <1>4 DEF Publishing, InUpdate
  <1>. QED
    BY <1>2, <1>5 DEF IInv, Stage

LEMMA Unaltered ==
    ASSUME Form PROVE [proc EXCEPT !.journal = proc.journal] = proc
  BY DEF Form, ProcFields

LEMMA OpenPublicationKeeps ==
    ASSUME PlanAssumption, IInv, OpenPublication PROVE IInv'
  <1>1. Publishing /\ proc.pc = "executed" /\ FilesClean /\ ~committed /\ disk \in OpenJournals
    BY StageIs DEF IInv, OpenPublication, At, Publishing, InUpdate
  <1>2. Calmer /\ DirtyRepos' = DirtyRepos /\ UNCHANGED <<private, disk>>
    BY Same DEF IInv, OpenPublication
  <1>3. Disk'
    BY <1>2, DiskStays DEF IInv
  <1>4. CASE proc' = [proc EXCEPT !.pc = "targets", !.journal = disk, !.done = 0]
    <2>1. Form'
      BY <1>2, <1>4 DEF IInv, Form, ProcFields, Calmer
    <2>2. /\ proc'.pc = "targets" /\ proc'.journal = disk /\ proc'.done = 0
          /\ proc'.call = proc.call /\ proc'.outcome = proc.outcome
      BY <1>4 DEF IInv, Form, ProcFields
    <2>3. Evident(disk, DirtyRepos)
      BY <1>1, OpenIsNotClosed DEF IInv, Disk, Honest
    <2>4. Evident(proc.journal, DirtyRepos)'
      BY <1>2, <2>2, <2>3 DEF Evident, Has
    <2>5. Publishing'
      BY <1>1, <1>2, <2>2, <2>4 DEF Publishing, InUpdate, Calmer
    <2>. QED
      BY <1>2, <1>3, <2>1, <2>5 DEF IInv, Stage, Calmer
  <1>5. CASE proc' = Ends(proc, "failed")
    <2>1. Form' /\ Over'
      BY <1>2, <1>5, EndsQuietly DEF IInv, Form, ProcFields, Ends, Calmer
    <2>. QED
      BY <1>2, <1>3, <2>1 DEF IInv, Stage, Calmer
  <1>. QED
    BY <1>4, <1>5 DEF OpenPublication

LEMMA BuildTargetsKeeps ==
    ASSUME PlanAssumption, IInv, BuildTargets PROVE IInv'
  <1>1. /\ Publishing /\ proc.pc = "targets" /\ FilesClean /\ ~committed /\ disk \in OpenJournals
        /\ proc.journal \in OpenJournals /\ Evident(proc.journal, DirtyRepos) /\ proc.done = 0
    BY StageIs DEF IInv, BuildTargets, At, Publishing, InUpdate
  <1>2. Calmer /\ DirtyRepos' = DirtyRepos /\ UNCHANGED <<private, disk, committed>>
    BY Same DEF IInv, BuildTargets
  <1>3. Disk'
    BY <1>2, DiskStays DEF IInv
  <1>4. FilesClean' /\ \A n : Published(n)'
    BY <1>1, <1>2 DEF Calmer, FilesClean, Published
  <1>5. Len(Targets) \in Nat
    BY DEF PlanAssumption
  <1>6. CASE proc' = [proc EXCEPT !.pc = "publish", !.at = 1, !.before = file]
    <2>1. file \in [Files -> {"before", "theirs"}]
      BY <1>1 DEF IInv, World, FilesClean, Generations
    <2>2. Form'
      BY <1>2, <1>6, <2>1 DEF IInv, Form, ProcFields, Calmer
    <2>3. /\ proc'.pc = "publish" /\ proc'.journal = proc.journal /\ proc'.done = 0
          /\ proc'.at = 1 /\ proc'.call = proc.call /\ proc'.outcome = proc.outcome
      BY <1>1, <1>6 DEF IInv, Form, ProcFields
    <2>4. Evident(proc.journal, DirtyRepos)'
      BY <1>1, <1>2, <2>3 DEF Evident, Has
    <2>5. Published(proc.done)'
      BY <1>4 DEF FilesClean, Published
    <2>6. Publishing'
      BY <1>1, <1>2, <1>5, <2>3, <2>4, <2>5 DEF Publishing, InUpdate, Calmer
    <2>. QED
      BY <1>2, <1>3, <2>2, <2>6 DEF IInv, Stage, Calmer
  <1>7. CASE proc' = Unpublishes(proc)
    <2>1. Published(proc.done)'
      BY <1>4 DEF FilesClean, Published
    <2>2. proc = [proc EXCEPT !.journal = proc.journal]
      BY Unaltered DEF IInv
    <2>3. World' /\ disk' \in OpenJournals /\ proc.done \in 0..Len(Targets)
      BY <1>1, <1>2, <1>5 DEF Calmer
    <2>. QED
      BY <1>1, <1>2, <1>3, <1>7, <2>1, <2>2, <2>3, GivesUp
  <1>. QED
    BY <1>6, <1>7 DEF BuildTargets

LEMMA PublishKeeps ==
    ASSUME PlanAssumption, IInv, Publish PROVE IInv'
  <1>. DEFINE k == Targets[proc.at]
  <1>1. /\ Publishing /\ proc.pc = "publish" /\ ~committed /\ disk \in OpenJournals
        /\ proc.journal \in OpenJournals /\ Evident(proc.journal, DirtyRepos)
        /\ proc.at \in 1..(Len(Targets) + 1) /\ proc.done = proc.at - 1 /\ Published(proc.done)
        /\ proc.at <= Len(Targets)
    BY StageIs DEF IInv, Publish, At, Publishing, InUpdate
  <1>2. UNCHANGED <<head, side, manifest, disk, private, committed>>
    BY DEF Publish
  <1>3. Len(Targets) \in Nat /\ proc.at \in 1..Len(Targets) /\ k \in Files
    BY <1>1 DEF PlanAssumption
  <1>4. CASE /\ file' = [file EXCEPT ![k] = "after"]
             /\ proc' = [proc EXCEPT !.pc = "record", !.done = proc.at]
    <2>1. file' \in [Files -> Generations]
      BY <1>4 DEF IInv, World, Generations
    <2>2. World' /\ DirtyRepos' = DirtyRepos /\ Disk'
      BY <1>2, <2>1, FilesOnly
    <2>3. Form'
      BY <1>2, <1>4 DEF IInv, Form, ProcFields
    <2>4. /\ proc'.pc = "record" /\ proc'.journal = proc.journal /\ proc'.at = proc.at
          /\ proc'.done = proc.at /\ proc'.call = proc.call /\ proc'.outcome = proc.outcome
      BY <1>4 DEF IInv, Form, ProcFields
    <2>5. \A f \in Files : file'[f] = "after" => \E i \in 1..proc.at : f = Targets[i]
      <3>. SUFFICES ASSUME NEW f \in Files, file'[f] = "after"
                    PROVE  \E i \in 1..proc.at : f = Targets[i]
        OBVIOUS
      <3>1. CASE f = k
        BY <1>3, <3>1
      <3>2. CASE f # k
        BY <1>1, <1>3, <1>4, <3>2 DEF Published, IInv, World
      <3>. QED
        BY <3>1, <3>2
    <2>6. Published(proc.done)'
      BY <2>4, <2>5 DEF Published
    <2>7. Evident(proc.journal, DirtyRepos)'
      BY <1>1, <2>2, <2>4 DEF Evident, Has
    <2>8. Publishing'
      BY <1>1, <1>2, <1>3, <2>4, <2>6, <2>7 DEF Publishing, InUpdate
    <2>. QED
      BY <2>2, <2>3, <2>8 DEF IInv, Stage
  <1>5. CASE UNCHANGED file /\ proc' = Unpublishes(proc)
    <2>1. World' /\ DirtyRepos' = DirtyRepos /\ Disk'
      BY <1>2, <1>5, FilesOnly DEF IInv, World
    <2>2. proc = [proc EXCEPT !.journal = proc.journal]
      BY Unaltered DEF IInv
    <2>3. Published(proc.done)' /\ disk' \in OpenJournals /\ proc.done \in 0..Len(Targets)
      <3>1. proc'.done = proc.done
        BY <1>5 DEF Unpublishes, IInv, Form, ProcFields
      <3>. QED
        BY <1>1, <1>2, <1>3, <1>5, <3>1 DEF Published
    <2>. QED
      BY <1>1, <1>2, <1>5, <2>1, <2>2, <2>3, GivesUp
  <1>. QED
    BY <1>4, <1>5 DEF Publish

LEMMA RecordKeeps ==
    ASSUME PlanAssumption, IInv, Record PROVE IInv'
  <1>. DEFINE e == Entry(Targets[proc.at], "completed", "before")
              j == Append1(proc.journal, e)
              entered == [proc EXCEPT !.journal = j]
              on == [entered EXCEPT !.pc = "publish", !.at = entered.at + 1]
  <1>1. /\ Publishing /\ proc.pc = "record" /\ ~committed /\ disk \in OpenJournals
        /\ proc.journal \in OpenJournals /\ Evident(proc.journal, DirtyRepos)
        /\ proc.at \in 1..Len(Targets) /\ proc.done = proc.at /\ Published(proc.done)
    BY StageIs DEF IInv, Record, At, Publishing, InUpdate
  <1>2. /\ Calmer /\ DirtyRepos' = DirtyRepos /\ UNCHANGED <<private, file, committed>>
    BY Same DEF IInv, Record, world
  <1>3. Len(Targets) \in Nat /\ e \in EntryType
    BY <1>1 DEF PlanAssumption, Entry, EntryType, EntryStates, Receipts
  <1>. HIDE DEF e
  <1>4. j \in OpenJournals /\ Evident(j, DirtyRepos)
    BY <1>1, <1>3, Appended
  <1>5. \/ disk' = j /\ proc' = on
        \/ disk' \in {disk, j} /\ proc' = Unpublishes(entered)
    <2>1. WriteAt(entered.journal, on, Unpublishes(entered))
      BY DEF Record, e
    <2>2. entered.journal = j
      BY DEF IInv, Form, ProcFields
    <2>. HIDE DEF j
    <2>. QED
      BY <2>1, <2>2, Written
  <1>. HIDE DEF j
  <1>6. Disk' /\ World' /\ disk' \in OpenJournals
    <2>1. Honest(j, DirtyRepos, committed)
      BY <1>4 DEF Honest
    <2>2. disk' \in {disk, j} /\ World'
      BY <1>2, <1>5 DEF Calmer
    <2>. QED
      BY <1>1, <1>2, <1>4, <2>1, <2>2, DiskIs DEF IInv
  <1>7. CASE proc' = on
    <2>1. Form'
      BY <1>2, <1>7 DEF IInv, Form, ProcFields
    <2>2. /\ proc'.pc = "publish" /\ proc'.journal = j /\ proc'.at = proc.at + 1
          /\ proc'.done = proc.at /\ proc'.call = proc.call /\ proc'.outcome = proc.outcome
      BY <1>1, <1>7 DEF IInv, Form, ProcFields
    <2>3. Published(proc.done)'
      BY <1>1, <1>2, <2>2, SMTT(30) DEF Published
    <2>4. Evident(proc.journal, DirtyRepos)'
      BY <1>2, <1>4, <2>2 DEF Evident, Has
    <2>5. Publishing'
      BY <1>1, <1>2, <1>3, <1>4, <1>6, <2>2, <2>3, <2>4, SMTT(30) DEF Publishing, InUpdate
    <2>. QED
      BY <1>6, <2>1, <2>5 DEF IInv, Stage
  <1>8. CASE proc' = Unpublishes(entered)
    <2>1. Published(proc.done)' /\ proc.done \in 0..Len(Targets)
      <3>1. proc'.done = proc.done
        BY <1>8 DEF Unpublishes, IInv, Form, ProcFields
      <3>. QED
        BY <1>1, <1>2, <1>3, <3>1 DEF Published
    <2>. QED
      BY <1>1, <1>2, <1>4, <1>6, <1>8, <2>1, GivesUp
  <1>. QED
    BY <1>5, <1>7, <1>8

LEMMA VerifyKeeps ==
    ASSUME PlanAssumption, IInv, Verify PROVE IInv'
  <1>1. /\ Publishing /\ proc.pc = "publish" /\ ~committed /\ disk \in OpenJournals
        /\ proc.journal \in OpenJournals /\ Evident(proc.journal, DirtyRepos)
        /\ proc.at \in 1..(Len(Targets) + 1) /\ proc.done = proc.at - 1 /\ Published(proc.done)
    BY StageIs DEF IInv, Verify, At, Publishing, InUpdate
  <1>2. /\ Calmer /\ DirtyRepos' = DirtyRepos /\ UNCHANGED <<private, file, disk, committed>>
        /\ (Whole => Whole')
    BY Same DEF IInv, Verify, world
  <1>3. Disk' /\ World' /\ disk' \in OpenJournals /\ Len(Targets) \in Nat
    BY <1>1, <1>2, DiskStays DEF IInv, Calmer, PlanAssumption
  <1>4. CASE AsPublished /\ proc' = [proc EXCEPT !.pc = "terminal", !.outcome = "success"]
    <2>1. Form'
      BY <1>2, <1>4 DEF IInv, Form, ProcFields
    <2>2. /\ proc'.pc = "terminal" /\ proc'.outcome = "success" /\ proc'.journal = proc.journal
      BY <1>4 DEF IInv, Form, ProcFields
    <2>3. Honest(proc.journal, DirtyRepos, committed)'
      BY <1>1, <1>2, <2>2 DEF Honest, Evident, Has
    <2>4. ~Closed(proc.journal)'
      BY <1>1, <2>2, OpenIsNotClosed DEF Closed
    <2>5. Whole'
      BY <1>2, <1>4 DEF AsPublished, Whole
    <2>6. Closing'
      BY <2>2, <2>3, <2>4, <2>5 DEF Closing, Outcomes
    <2>. QED
      BY <1>3, <2>1, <2>6 DEF IInv, Stage
  <1>5. CASE proc' = Unpublishes(proc)
    <2>1. Published(proc.done)' /\ proc.done \in 0..Len(Targets)
      <3>1. proc'.done = proc.done
        BY <1>5 DEF Unpublishes, IInv, Form, ProcFields
      <3>. QED
        BY <1>1, <1>2, <1>3, <3>1 DEF Published
    <2>2. proc = [proc EXCEPT !.journal = proc.journal]
      BY Unaltered DEF IInv
    <2>. QED
      BY <1>1, <1>2, <1>3, <1>5, <2>1, <2>2, GivesUp
  <1>. QED
    BY <1>4, <1>5 DEF Verify

LEMMA UnpublishKeeps ==
    ASSUME PlanAssumption, IInv, Unpublish PROVE IInv'
  <1>. DEFINE k == Targets[proc.at]
  <1>1. /\ Publishing /\ proc.pc = "unpublish" /\ ~committed /\ disk \in OpenJournals
        /\ proc.journal \in OpenJournals /\ Evident(proc.journal, DirtyRepos)
        /\ proc.at \in 0..Len(Targets) /\ proc.at > 0 /\ Published(proc.at)
    BY StageIs DEF IInv, Unpublish, At, Publishing, InUpdate
  <1>2. UNCHANGED <<head, side, manifest, disk, private, committed>>
    BY DEF Unpublish
  <1>3. Len(Targets) \in Nat /\ proc.at \in 1..Len(Targets) /\ k \in Files
        /\ proc.before[k] \in {"before", "theirs"}
    BY <1>1 DEF PlanAssumption, IInv, Form
  <1>4. CASE /\ file' = [file EXCEPT ![k] = proc.before[k]]
             /\ proc' = [proc EXCEPT !.at = proc.at - 1]
    <2>1. file' \in [Files -> Generations]
      BY <1>3, <1>4 DEF IInv, World, Generations
    <2>2. World' /\ DirtyRepos' = DirtyRepos /\ Disk'
      BY <1>2, <2>1, FilesOnly
    <2>3. Form'
      BY <1>2, <1>4 DEF IInv, Form, ProcFields
    <2>4. /\ proc'.pc = "unpublish" /\ proc'.journal = proc.journal /\ proc'.at = proc.at - 1
          /\ proc'.call = proc.call /\ proc'.outcome = proc.outcome
      BY <1>1, <1>4 DEF IInv, Form, ProcFields
    <2>5. \A f \in Files : file'[f] = "after" => \E i \in 1..(proc.at - 1) : f = Targets[i]
      <3>. SUFFICES ASSUME NEW f \in Files, file'[f] = "after"
                    PROVE  \E i \in 1..(proc.at - 1) : f = Targets[i]
        OBVIOUS
      <3>1. f # k /\ file[f] = "after"
        BY <1>3, <1>4 DEF IInv, World
      <3>2. PICK i \in 1..proc.at : f = Targets[i]
        BY <1>1, <3>1 DEF Published
      <3>. QED
        BY <1>3, <3>1, <3>2
    <2>6. Published(proc.at)'
      BY <2>4, <2>5 DEF Published
    <2>7. Evident(proc.journal, DirtyRepos)'
      BY <1>1, <2>2, <2>4 DEF Evident, Has
    <2>8. Publishing'
      BY <1>1, <1>2, <1>3, <2>4, <2>6, <2>7 DEF Publishing, InUpdate
    <2>. QED
      BY <2>2, <2>3, <2>8 DEF IInv, Stage
  <1>5. CASE UNCHANGED file /\ proc' = Ends(proc, "incomplete")
    <2>1. World' /\ DirtyRepos' = DirtyRepos /\ Disk'
      BY <1>2, <1>5, FilesOnly DEF IInv, World
    <2>2. Form' /\ Over'
      BY <1>2, <1>5, EndsQuietly DEF IInv, Form, ProcFields, Ends
    <2>. QED
      BY <2>1, <2>2 DEF IInv, Stage
  <1>. QED
    BY <1>4, <1>5 DEF Unpublish

LEMMA UnpublishEndsKeeps ==
    ASSUME PlanAssumption, IInv, UnpublishEnds PROVE IInv'
  <1>1. /\ Publishing /\ proc.pc = "unpublish" /\ ~committed /\ proc.at = 0
        /\ proc.journal \in OpenJournals /\ Published(0)
    BY StageIs DEF IInv, UnpublishEnds, At, Publishing, InUpdate
  <1>2. FilesClean
    BY <1>1 DEF Published, FilesClean
  <1>3. /\ Calmer /\ DirtyRepos' = DirtyRepos /\ UNCHANGED <<private, file, disk, committed>>
    BY Same DEF IInv, UnpublishEnds, world
  <1>4. Disk' /\ World'
    BY <1>3, DiskStays DEF IInv, Calmer
  <1>5. CASE proc' = Goes(proc, "recover")
    <2>1. Form'
      BY <1>3, <1>5 DEF IInv, Form, ProcFields, Goes
    <2>2. Recovering'
      BY <1>1, <1>2, <1>3, <1>5 DEF IInv, Form, ProcFields, Goes, Recovering, Publishing, InUpdate, Calmer
    <2>. QED
      BY <1>4, <2>1, <2>2 DEF IInv, Stage
  <1>6. CASE proc' = Ends(proc, "failed")
    <2>1. Form' /\ Over'
      BY <1>3, <1>6, EndsQuietly DEF IInv, Form, ProcFields, Ends
    <2>. QED
      BY <1>4, <2>1 DEF IInv, Stage
  <1>. QED
    BY <1>5, <1>6 DEF UnpublishEnds

LEMMA CallRecoverKeeps ==
    ASSUME PlanAssumption, IInv, CallRecover PROVE IInv'
  <1>1. /\ Calmer /\ DirtyRepos' = DirtyRepos /\ UNCHANGED <<private, file, disk, committed>>
    BY Same DEF IInv, CallRecover, world
  <1>2. Disk' /\ World'
    BY <1>1, DiskStays DEF IInv, Calmer
  <1>3. /\ proc'.pc = "recover" /\ proc'.call = "recover" /\ proc'.outcome = "none"
        /\ proc'.journal = NoJournal
    BY DEF CallRecover, Idle
  <1>4. Form'
    BY <1>1, ZenonT(60) DEF CallRecover, Idle, IInv, Form, ProcFields
  <1>5. NoJournal \in OpenJournals
    BY DEF NoJournal, OpenJournals
  <1>6. Recovering'
    BY <1>3, <1>5 DEF Recovering
  <1>. QED
    BY <1>2, <1>4, <1>6 DEF IInv, Stage

\* A journal on disk that is not terminal is open, and has its evidence; after the
\* success it is one that stops Recover.
LEMMA DiskIsOpen ==
    ASSUME IInv, ~Terminal(disk)
    PROVE  /\ disk \in OpenJournals
           /\ committed \/ Evident(disk, DirtyRepos)
           /\ committed /\ disk # NoJournal => Blocked(disk)
  BY ClosedIsTerminal DEF IInv, Disk, Honest, Final

LEMMA DiskIsClosed ==
    ASSUME IInv, Terminal(disk)
    PROVE  /\ Closed(disk) /\ disk.outcome \in {"success", "rolled-back"}
           /\ disk.outcome = "success" => committed
  BY OpenIsNotClosed DEF IInv, Disk, Honest, Closed

LEMMA OpenJournalKeeps ==
    ASSUME PlanAssumption, IInv, OpenJournal PROVE IInv'
  <1>. DEFINE opened == [proc EXCEPT !.journal = disk]
              j == [disk EXCEPT !.state = "rolling-back"]
              rolling == [opened EXCEPT !.journal.state = "rolling-back"]
              on == [rolling EXCEPT !.pc = "undo", !.at = Len(disk.progress)]
  <1>1. /\ Recovering /\ proc.pc = "recover" /\ proc.outcome = "none" /\ disk # NoJournal
        /\ proc.call = "update" => ~committed /\ FilesClean
    BY StageIs DEF IInv, OpenJournal, At, Recovering
  <1>2. /\ Calmer /\ DirtyRepos' = DirtyRepos /\ UNCHANGED <<private, file, committed>>
    BY Same DEF IInv, OpenJournal, world
  <1>3. CASE /\ Terminal(disk) /\ UNCHANGED disk
             /\ proc' = [opened EXCEPT !.pc = "terminal", !.outcome = disk.outcome]
    <2>1. /\ proc'.pc = "terminal" /\ proc'.journal = disk /\ proc'.outcome = disk.outcome
          /\ proc'.call = proc.call /\ Form'
      BY <1>2, <1>3 DEF IInv, Form, ProcFields
    <2>2. Disk' /\ World'
      BY <1>2, <1>3, DiskStays DEF IInv, Calmer
    <2>3. Honest(proc.journal, DirtyRepos, committed)'
      BY <1>3, <2>1, <2>2 DEF Disk, Honest, Evident, Has, Closed
    <2>4. disk.outcome \in {"success", "rolled-back"} /\ (disk.outcome = "success" => committed)
      BY <1>3, DiskIsClosed
    <2>5. proc'.outcome # "none" /\ proc'.outcome \in Outcomes
          /\ proc'.journal.outcome = proc'.outcome
      BY <2>1, <2>4 DEF Outcomes
    <2>6. Closing'
      BY <1>1, <1>2, <2>1, <2>3, <2>4, <2>5 DEF Closing, Calmer
    <2>. QED
      BY <2>1, <2>2, <2>6 DEF IInv, Stage
  <1>4. CASE ~Terminal(disk)
    <2>1. /\ disk \in OpenJournals
          /\ committed \/ Evident(disk, DirtyRepos)
          /\ committed => Blocked(disk)
      BY <1>1, <1>4, DiskIsOpen
    <2>2. /\ j \in OpenJournals /\ j.progress = disk.progress
          /\ committed \/ Evident(j, DirtyRepos)
          /\ committed => Blocked(j)
      BY <2>1, Restated
    <2>3. rolling.journal = j /\ rolling = [proc EXCEPT !.journal = j]
      BY DEF IInv, Form, ProcFields
    <2>4. Len(disk.progress) \in Nat
      BY <2>1 DEF OpenJournals
    <2>. HIDE DEF j
    <2>5. \/ disk' = disk /\ proc' = Goes(opened, "incomplete")
          \/ disk' = j /\ proc' = on
          \/ disk' \in {disk, j} /\ proc' = Goes(rolling, "incomplete")
      <3>1. \/ disk' = disk /\ proc' = Goes(opened, "incomplete")
            \/ WriteAt(rolling.journal, on, Goes(rolling, "incomplete"))
        BY <1>4 DEF OpenJournal
      <3>. HIDE DEF opened, rolling, on
      <3>. QED
        BY <2>3, <3>1, Written
    <2>6. Disk' /\ World'
      <3>1. disk' \in {disk, j} /\ Honest(j, DirtyRepos, committed) /\ (committed => Final(j))
        BY <2>2, <2>5 DEF Honest, Final
      <3>. QED
        BY <1>2, <3>1, DiskIs DEF IInv, Calmer
    <2>7. ASSUME NEW k \in {disk, j}, proc' = Goes([proc EXCEPT !.journal = k], "incomplete")
          PROVE  IInv'
      <3>1. /\ proc'.pc = "incomplete" /\ proc'.journal = k /\ proc'.outcome = proc.outcome
            /\ proc'.call = proc.call /\ Form'
        BY <1>2, <2>7 DEF IInv, Form, ProcFields, Goes
      <3>2. k \in OpenJournals /\ (committed \/ Evident(k, DirtyRepos)) /\ (committed => Blocked(k))
        BY <2>1, <2>2
      <3>3. (committed \/ Evident(proc.journal, DirtyRepos))' /\ (committed => Blocked(proc.journal))'
        BY <1>2, <3>1, <3>2 DEF Evident, Has, Blocked
      <3>4. Recovering'
        BY <1>1, <1>2, <3>1, <3>2, <3>3 DEF Recovering, Calmer
      <3>. QED
        BY <2>6, <3>1, <3>4 DEF IInv, Stage
    <2>8. CASE proc' = on
      <3>1. proc' = [proc EXCEPT !.journal = j, !.pc = "undo", !.at = Len(disk.progress)]
        BY <2>3, <2>8
      <3>2. /\ proc'.pc = "undo" /\ proc'.journal = j /\ proc'.outcome = proc.outcome
            /\ proc'.at = Len(disk.progress) /\ proc'.call = proc.call /\ Form'
        BY <1>2, <3>1 DEF IInv, Form, ProcFields
      <3>3. (committed \/ Evident(proc.journal, DirtyRepos))' /\ (committed => Blocked(proc.journal))'
        BY <1>2, <2>2, <3>2, SMTT(30) DEF Evident, Has, Blocked
      <3>4. Last' = proc'.at /\ Last' \in Nat
        BY <2>2, <2>4, <3>2 DEF Last
      <3>5. Recovering'
        BY <1>1, <1>2, <2>2, <3>2, <3>3, <3>4 DEF Recovering, Calmer
      <3>. QED
        BY <2>6, <3>2, <3>5 DEF IInv, Stage
    <2>. QED
      BY <2>3, <2>5, <2>7, <2>8
  <1>. QED
    BY <1>3, <1>4 DEF OpenJournal

LEMMA NoActiveJournalKeeps ==
    ASSUME PlanAssumption, IInv, NoActiveJournal PROVE IInv'
  <1>1. /\ Recovering /\ proc.pc = "recover" /\ proc.outcome = "none" /\ disk = NoJournal
        /\ proc.journal \in OpenJournals
        /\ proc.call = "update" => ~committed /\ FilesClean
    BY StageIs DEF IInv, NoActiveJournal, At, Recovering
  <1>2. /\ Calmer /\ DirtyRepos' = DirtyRepos /\ UNCHANGED <<private, file, disk, committed>>
    BY Same DEF IInv, NoActiveJournal, world
  <1>3. Disk' /\ World'
    BY <1>2, DiskStays DEF IInv, Calmer
  <1>4. committed \/ DirtyRepos = {}
    BY <1>1 DEF IInv, Disk, Honest, NoJournal, Closed, Evident, Has
  <1>5. \/ proc' = Ends(proc, "incomplete") \/ proc' = Ends(proc, "recovered")
        \/ proc' = Goes(proc, "removeSummary") /\ ~private.operation
        \/ proc' = Goes(proc, "removeOperation")
    BY DEF NoActiveJournal
  <1>6. Form'
    BY <1>2, <1>5, ZenonT(60) DEF IInv, Form, ProcFields, Ends, Goes
  <1>7. CASE proc' = Ends(proc, "incomplete") \/ proc' = Ends(proc, "recovered")
    <2>1. proc'.pc = "ended" /\ proc'.result \in {"incomplete", "recovered"}
      BY <1>7 DEF IInv, Form, ProcFields, Ends
    <2>2. Over'
      BY <1>2, <1>4, <2>1 DEF Over
    <2>. QED
      BY <1>3, <1>6, <2>2 DEF IInv, Stage
  <1>8. CASE \/ proc' = Goes(proc, "removeSummary") /\ ~private.operation
             \/ proc' = Goes(proc, "removeOperation")
    <2>1. /\ proc'.journal = proc.journal /\ proc'.call = proc.call
          /\ proc'.outcome = "none"
          /\ \/ proc'.pc = "removeSummary" /\ ~private.operation
             \/ proc'.pc = "removeOperation"
      BY <1>1, <1>8 DEF IInv, Form, ProcFields, Goes
    <2>2. Honest(proc.journal, DirtyRepos, committed)'
      BY <1>1, <1>2, <1>4, <2>1 DEF Honest, Evident
    <2>3. Closing'
      BY <1>1, <1>2, <1>4, <2>1, <2>2 DEF Closing, Outcomes, Calmer
    <2>. QED
      BY <1>3, <1>6, <2>3 DEF IInv, Stage
  <1>. QED
    BY <1>5, <1>7, <1>8

LEMMA RecoverSkipsKeeps ==
    ASSUME PlanAssumption, IInv, RecoverSkips PROVE IInv'
  <1>1. /\ Recovering /\ proc.pc = "undo" /\ proc.at > 0 /\ proc.at \in 0..Last
        /\ proc.journal \in OpenJournals /\ ~committed
    <2>1. Recovering /\ proc.pc = "undo"
      BY StageIs DEF IInv, RecoverSkips, At
    <2>. QED
      BY <2>1 DEF RecoverSkips, Recovering, Blocked, Last
  <1>2. /\ Calmer /\ DirtyRepos' = DirtyRepos /\ UNCHANGED <<private, file, disk, committed>>
    BY Same DEF IInv, RecoverSkips, world
  <1>3. Disk' /\ World'
    BY <1>2, DiskStays DEF IInv, Calmer
  <1>4. /\ proc'.pc = "undo" /\ proc'.journal = proc.journal /\ proc'.outcome = proc.outcome
        /\ proc'.at = proc.at - 1 /\ proc'.call = proc.call /\ Form'
    BY <1>1, <1>2 DEF RecoverSkips, IInv, Form, ProcFields
  <1>5. Last' = Last /\ Last \in Nat /\ proc'.at \in 0..Last'
    BY <1>1, <1>4 DEF Last, OpenJournals
  <1>6. Evident(proc.journal, DirtyRepos)'
    BY <1>1, <1>2, <1>4 DEF Recovering, Evident, Has
  <1>7. Recovering'
    BY <1>1, <1>2, <1>4, <1>5, <1>6 DEF Recovering, Calmer
  <1>. QED
    BY <1>3, <1>4, <1>7 DEF IInv, Stage

\* Recovery stops, with the journal it has.
LEMMA RecoveryStops ==
    ASSUME IInv, Recovering, proc.pc = "undo", Calmer, UNCHANGED <<disk, private>>,
           proc' = Goes(proc, "incomplete")
    PROVE  IInv'
  <1>1. Disk' /\ World'
    BY DiskStays DEF IInv, Calmer
  <1>2. /\ proc'.pc = "incomplete" /\ proc'.journal = proc.journal
        /\ proc'.outcome = proc.outcome /\ proc'.call = proc.call /\ Form'
    BY DEF IInv, Form, ProcFields, Goes, Calmer
  <1>3. (committed \/ Evident(proc.journal, DirtyRepos))' /\ (committed => Blocked(proc.journal))'
    BY <1>2 DEF Recovering, Evident, Has, Blocked, Calmer
  <1>4. Recovering'
    BY <1>2, <1>3 DEF Recovering, Calmer
  <1>. QED
    BY <1>1, <1>2, <1>4 DEF IInv, Stage

\* After the success, what Recover finds to undo is not an effect.
LEMMA NothingToUndo ==
    ASSUME PlanAssumption, IInv, RecoverEffect, committed
    PROVE  UNCHANGED world /\ proc' = Goes(proc, "incomplete")
  <1>1. Recovering /\ proc.pc = "undo"
    BY StageIs DEF IInv, RecoverEffect, At
  <1>2. proc.journal.progress[proc.at].name \in Synthetic
    BY <1>1 DEF Recovering, Blocked, Last
  <1>3. /\ proc.journal.progress[proc.at].name \notin Files
        /\ proc.journal.progress[proc.at].name \notin Repos
    BY <1>2 DEF PlanAssumption
  <1>. QED
    BY <1>2, <1>3 DEF RecoverEffect

LEMMA RecoverEffectKeeps ==
    ASSUME PlanAssumption, IInv, RecoverEffect PROVE IInv'
  <1>. DEFINE entry == proc.journal.progress[proc.at]
              undone == Undone(proc.at, "undone", proc.at)
              kept == Goes(proc, "incomplete")
  <1>1. /\ Recovering /\ proc.pc = "undo" /\ proc.at > 0 /\ proc.at \in 0..Last
        /\ proc.journal \in OpenJournals
    BY StageIs DEF IInv, RecoverEffect, At, Recovering
  <1>2. /\ Last \in Nat /\ proc.at \in 1..Last /\ entry \in EntryType
    BY <1>1 DEF OpenJournals, Last
  <1>3. UNCHANGED <<disk, private, committed>>
    BY DEF RecoverEffect
  <1>4. ASSUME ~committed, Calmer, proc' = undone, entry.name \notin DirtyRepos' PROVE IInv'
    <2>. DEFINE j == Mark(proc.journal, proc.at, "rolled-back")
    <2>1. proc' = [proc EXCEPT !.journal = j, !.pc = "undone", !.at = proc.at]
      BY <1>4 DEF Undone
    <2>2. j \in OpenJournals /\ Len(j.progress) = Last
      <3>1. "rolled-back" \in EntryStates /\ proc.at \in 1..Len(proc.journal.progress)
        BY <1>2 DEF EntryStates, Last
      <3>. QED
        BY <1>1, <3>1, Marked DEF Last
    <2>3. Evident(j, DirtyRepos')
      <3>1. Evident(proc.journal, DirtyRepos) /\ DirtyRepos' \subseteq DirtyRepos
            /\ proc.at \in 1..Len(proc.journal.progress)
        BY <1>1, <1>2, <1>4 DEF Recovering, Calmer, Last
      <3>. QED
        BY <1>1, <1>4, <3>1, EvidenceGivenUp
    <2>. HIDE DEF j
    <2>4. /\ proc'.pc = "undone" /\ proc'.journal = j /\ proc'.at = proc.at
          /\ proc'.outcome = proc.outcome /\ proc'.call = proc.call /\ Form'
      BY <1>3, <2>1 DEF IInv, Form, ProcFields
    <2>5. Disk' /\ World'
      BY <1>3, <1>4, DiskStays DEF IInv, Calmer
    <2>6. Evident(proc.journal, DirtyRepos)' /\ Last' = Last
      BY <2>2, <2>3, <2>4 DEF Evident, Has, Last
    <2>7. Recovering'
      BY <1>1, <1>2, <1>4, <2>2, <2>4, <2>6 DEF Recovering, Calmer
    <2>. QED
      BY <2>4, <2>5, <2>7 DEF IInv, Stage
  <1>5. ASSUME Calmer, proc' = kept PROVE IInv'
    BY <1>1, <1>3, <1>5, RecoveryStops
  <1>6. CASE committed
    <2>1. UNCHANGED world /\ proc' = kept
      BY <1>6, NothingToUndo
    <2>2. Calmer
      BY <1>3, <2>1, Same, SMTT(30) DEF IInv
    <2>. QED
      BY <1>5, <2>1, <2>2
  <1>7. CASE ~committed
    <2>. HIDE DEF entry, undone, kept
    <2>1. CASE proc' = kept /\ UNCHANGED world
      <3>1. Calmer
        BY <1>3, <2>1, Same DEF IInv
      <3>. QED
        BY <1>5, <2>1, <3>1
    <2>2. CASE /\ entry.name \in Files /\ UndoPublication(entry.name, undone, kept)
               /\ UNCHANGED <<head, side, manifest>>
      <3>1. Calmer /\ DirtyRepos' = DirtyRepos
        BY <1>3, <2>2 DEF UndoPublication, IInv, World, Calmer, DirtyRepos, FilesClean, Generations
      <3>2. entry.name \notin DirtyRepos'
        BY <2>2, <3>1 DEF DirtyRepos, PlanAssumption
      <3>3. proc' = undone \/ proc' = kept
        BY <2>2 DEF UndoPublication
      <3>. QED
        BY <1>4, <1>5, <1>7, <3>1, <3>2, <3>3
    <2>3. CASE /\ entry.name \in Repos /\ UNCHANGED file
               /\ IF entry.name \in Additions
                  THEN RecoverAddition(entry.name, entry.receipt, undone, kept)
                  ELSE UndoFastForward(entry.name, entry.receipt, undone, kept)
      <3>1. entry.receipt \in Receipts \cup {"unfetched"}
        BY <1>2 DEF EntryType, entry
      <3>2. Calmer /\ ((proc' = undone /\ entry.name \notin DirtyRepos') \/ proc' = kept)
        <4>1. CASE entry.name \in Additions
          <5>1. PICK mine : UndoAddition(entry.name, mine, undone, kept)
            BY <2>3, <4>1 DEF RecoverAddition
          <5>. QED
            BY <1>3, <2>3, <4>1, <5>1, AdditionUndone DEF IInv
        <4>2. CASE entry.name \notin Additions
          BY <1>3, <2>3, <3>1, <4>2, FastForwardUndone DEF IInv
        <4>. QED
          BY <4>1, <4>2
      <3>. QED
        BY <1>4, <1>5, <1>7, <3>2
    <2>. QED
      BY <2>1, <2>2, <2>3 DEF RecoverEffect, world, entry, undone, kept
  <1>. QED
    BY <1>6, <1>7

LEMMA RecoverRecordsKeeps ==
    ASSUME PlanAssumption, IInv, RecoverRecords PROVE IInv'
  <1>. DEFINE on == [proc EXCEPT !.pc = "undo", !.at = proc.at - 1]
  <1>1. /\ Recovering /\ proc.pc = "undone" /\ proc.at \in 1..Last /\ ~committed
        /\ proc.journal \in OpenJournals /\ Evident(proc.journal, DirtyRepos)
    BY StageIs DEF IInv, RecoverRecords, At, Recovering
  <1>2. /\ Calmer /\ DirtyRepos' = DirtyRepos /\ UNCHANGED <<private, file, committed>>
    BY Same DEF IInv, RecoverRecords, world
  <1>3. \/ disk' = proc.journal /\ proc' = on
        \/ disk' \in {disk, proc.journal} /\ proc' = Goes(proc, "incomplete")
    BY Written DEF RecoverRecords
  <1>4. Disk' /\ World'
    <2>1. Honest(proc.journal, DirtyRepos, committed) /\ disk' \in {disk, proc.journal}
      BY <1>1, <1>3 DEF Honest
    <2>. QED
      BY <1>1, <1>2, <2>1, DiskIs DEF IInv, Calmer
  <1>5. /\ proc'.journal = proc.journal /\ proc'.outcome = proc.outcome
        /\ proc'.call = proc.call /\ Form'
        /\ (proc'.pc = "undo" /\ proc'.at = proc.at - 1) \/ proc'.pc = "incomplete"
    BY <1>2, <1>3, ZenonT(60) DEF IInv, Form, ProcFields, Goes
  <1>6. Evident(proc.journal, DirtyRepos)' /\ Last' = Last /\ Last \in Nat
    BY <1>1, <1>2, <1>5 DEF Evident, Has, Last, OpenJournals
  <1>7. Recovering'
    BY <1>1, <1>2, <1>5, <1>6 DEF Recovering, Calmer
  <1>. QED
    BY <1>4, <1>5, <1>7 DEF IInv, Stage

LEMMA RecoverManifestKeeps ==
    ASSUME PlanAssumption, IInv, RecoverManifest PROVE IInv'
  <1>1. /\ Recovering /\ proc.pc = "undo" /\ proc.at = 0 /\ ~committed
        /\ proc.journal \in OpenJournals /\ Evident(proc.journal, DirtyRepos)
        /\ proc.call = "update" => FilesClean
    <2>1. Recovering /\ proc.pc = "undo" /\ proc.at = 0
      BY StageIs DEF IInv, RecoverManifest, At
    <2>. QED
      BY <2>1 DEF Recovering, Blocked, Last
  <1>2. UNCHANGED <<head, side, file, disk, private, committed>>
    BY DEF RecoverManifest
  <1>3. Calmer
    BY <1>2 DEF RecoverManifest, IInv, World, Calmer, DirtyRepos, FilesClean, Generations
  <1>4. CASE proc' = [proc EXCEPT !.pc = "terminal", !.outcome = "rolled-back"]
    <2>1. Disk' /\ World'
      BY <1>2, <1>3, DiskStays DEF IInv, Calmer
    <2>2. /\ proc'.pc = "terminal" /\ proc'.outcome = "rolled-back" /\ proc'.journal = proc.journal
          /\ proc'.call = proc.call /\ Form'
      BY <1>2, <1>4 DEF IInv, Form, ProcFields
    <2>3. Evident(proc.journal, DirtyRepos)'
      BY <1>1, <1>3, <2>2 DEF Evident, Has, Calmer
    <2>4. Honest(proc.journal, DirtyRepos, committed)' /\ ~Closed(proc.journal)'
      BY <1>1, <2>2, <2>3, OpenIsNotClosed DEF Honest, Closed
    <2>5. Closing'
      BY <1>1, <1>2, <1>3, <2>2, <2>4 DEF Closing, Outcomes, Calmer
    <2>. QED
      BY <2>1, <2>2, <2>5 DEF IInv, Stage
  <1>5. CASE proc' = Goes(proc, "incomplete")
    BY <1>1, <1>2, <1>3, <1>5, RecoveryStops
  <1>. QED
    BY <1>4, <1>5 DEF RecoverManifest

LEMMA RecoverIncompleteKeeps ==
    ASSUME PlanAssumption, IInv, RecoverIncomplete PROVE IInv'
  <1>. DEFINE j == RecoveryIncomplete(proc.journal)
  <1>1. /\ Recovering /\ proc.journal \in OpenJournals
        /\ committed \/ Evident(proc.journal, DirtyRepos)
        /\ committed => Blocked(proc.journal)
    BY StageIs DEF IInv, RecoverIncomplete, At, Recovering
  <1>2. /\ Calmer /\ DirtyRepos' = DirtyRepos /\ UNCHANGED <<private, file, committed>>
    BY Same DEF IInv, RecoverIncomplete, world
  <1>3. disk' \in {disk, j} /\ proc' = Ends(proc, "incomplete")
    BY WrittenAnyway DEF RecoverIncomplete
  <1>4. Honest(j, DirtyRepos, committed) /\ (committed => Final(j))
    BY <1>1, RecoveryKept DEF Honest, Final
  <1>5. Disk' /\ World'
    BY <1>2, <1>3, <1>4, DiskIs DEF IInv, Calmer
  <1>6. Form' /\ Over'
    BY <1>2, <1>3, EndsQuietly DEF IInv, Form, ProcFields, Ends
  <1>. QED
    BY <1>5, <1>6 DEF IInv, Stage

LEMMA TerminalStartKeeps ==
    ASSUME PlanAssumption, IInv, TerminalStart PROVE IInv'
  <1>. DEFINE j == CleaningJournal(proc.journal, proc.outcome)
              next == [proc EXCEPT !.pc = "summary", !.journal = j]
  <1>1. /\ Closing /\ proc.pc = "terminal" /\ Honest(proc.journal, DirtyRepos, committed)
        /\ proc.outcome \in {"success", "rolled-back"}
        /\ Closed(proc.journal) => proc.journal.outcome = proc.outcome
    BY StageIs DEF IInv, TerminalStart, At, Closing, Outcomes
  <1>2. UNCHANGED <<head, side, manifest, file, private>>
    BY DEF TerminalStart, world
  <1>3. World' /\ DirtyRepos' = DirtyRepos /\ FilesClean' = FilesClean /\ Whole' = Whole
    BY <1>2 DEF IInv, World, DirtyRepos, FilesClean, Whole
  <1>4. committed \in BOOLEAN
    BY DEF IInv, Form
  <1>5. CASE proc' = Ends(proc, "incomplete") /\ UNCHANGED <<disk, committed>>
    <2>1. Calmer
      BY <1>3, <1>5 DEF Calmer
    <2>2. Disk' /\ Form' /\ Over'
      BY <1>2, <1>5, <2>1, DiskStays, EndsQuietly DEF IInv, Form, ProcFields, Ends
    <2>. QED
      BY <1>3, <2>2 DEF IInv, Stage
  <1>6. CASE Valid(j)
    <2>1. /\ Closed(j) /\ j.outcome = proc.outcome
          /\ proc.outcome = "rolled-back" => committed \/ DirtyRepos = {}
      BY <1>1, <1>4, <1>6, CleaningKept
    <2>. HIDE DEF j
    <2>2. /\ (committed' => committed \/ proc.outcome = "success") /\ (committed => committed')
          /\ committed' \in BOOLEAN
          /\ \/ disk' = disk /\ proc' = next /\ committed' = committed
                /\ proc.journal.state = "cleaning"
             \/ disk' = j /\ proc' = next /\ (proc.outcome = "success" => committed')
             \/ disk' \in {disk, j} /\ proc' = Retains(proc)
                /\ (committed' /\ ~committed => disk' = j)
                /\ (disk' = j /\ proc.outcome = "success" => committed')
      <3>1. CASE /\ WriteAt(j, next, Retains(proc))
                 /\ committed' = (committed \/ (disk' = j /\ proc.outcome = "success"))
        BY <1>4, <3>1, Written
      <3>2. CASE UNCHANGED <<disk, committed>> /\ proc' = next /\ proc.journal.state = "cleaning"
        BY <1>4, <3>2
      <3>. QED
        BY <1>6, <3>1, <3>2 DEF TerminalStart, j
    <2>3. Disk'
      <3>1. Honest(disk, DirtyRepos, committed') /\ (committed => Final(disk))
        BY <1>4, <2>2, StaysHonest DEF IInv, Disk
      <3>2. CASE disk' = disk /\ committed' = committed
        BY <1>3, <3>1, <3>2 DEF Disk, Honest, Final, Evident, Has, Closed, Blocked
      <3>3. CASE disk' = j /\ (proc.outcome = "success" => committed')
        <4>1. Honest(j, DirtyRepos, committed') /\ Final(j)
          BY <1>1, <2>1, <2>2, <3>3 DEF Honest, Final
        <4>2. Honest(disk', DirtyRepos', committed') /\ Final(disk')
          BY <1>3, <3>3, <4>1
        <4>. QED
          BY <4>2 DEF Disk
      <3>. QED
        BY <1>4, <2>2, <3>2, <3>3
    <2>4. Form'
      BY <1>2, <2>2, ZenonT(60) DEF IInv, Form, ProcFields, Retains
    <2>5. CASE proc' = Retains(proc)
      <3>1. /\ proc'.pc = "retain" /\ proc'.journal = proc.journal /\ proc'.outcome = proc.outcome
            /\ proc'.call = proc.call
        BY <2>5 DEF IInv, Form, ProcFields, Retains
      <3>2. Honest(proc.journal, DirtyRepos, committed')
        BY <1>1, <1>4, <2>2, StaysHonest
      <3>3. Honest(proc'.journal, DirtyRepos', committed')
        BY <1>3, <3>1, <3>2
      <3>4. Closing'
        BY <1>1, <1>3, <2>2, <3>1, <3>3 DEF Closing
      <3>. QED
        BY <1>3, <2>3, <2>4, <3>4 DEF IInv, Stage
    <2>6. CASE /\ proc' = next
               /\ \/ committed' = committed /\ proc.journal.state = "cleaning"
                  \/ proc.outcome = "success" => committed'
      <3>1. /\ proc'.pc = "summary" /\ proc'.journal = j /\ proc'.outcome = proc.outcome
            /\ proc'.call = proc.call
        BY <2>6 DEF IInv, Form, ProcFields
      <3>2. proc.outcome = "success" => committed'
        <4>1. CASE committed' = committed /\ proc.journal.state = "cleaning"
          <5>1. Closed(proc.journal)
            BY <1>1, <4>1, OpenIsNotClosed DEF Honest, OpenJournals
          <5>2. proc.journal.outcome = "success" => committed
            BY <1>1, <5>1, OpenIsNotClosed DEF Honest
          <5>. QED
            BY <1>1, <4>1, <5>1, <5>2
        <4>. QED
          BY <2>6, <4>1
      <3>3. Honest(j, DirtyRepos, committed')
        BY <1>1, <2>1, <2>2, <3>2 DEF Honest
      <3>4. Honest(proc'.journal, DirtyRepos', committed')
        BY <1>3, <3>1, <3>3
      <3>5. committed' \/ DirtyRepos' = {}
        BY <1>1, <1>3, <2>1, <2>2, <3>2
      <3>6. Closing'
        BY <1>1, <1>3, <2>2, <3>1, <3>2, <3>4, <3>5 DEF Closing
      <3>. QED
        BY <1>3, <2>3, <2>4, <3>6 DEF IInv, Stage
    <2>. QED
      BY <2>2, <2>5, <2>6
  <1>. QED
    BY <1>5, <1>6 DEF TerminalStart

\* A step of the cleanup that leaves the journal alone: on to the next one, or to
\* say that it failed.
LEMMA CleansOn ==
    ASSUME IInv, Closing, proc.pc \notin {"terminal", "retain"},
           Calmer, DirtyRepos' = DirtyRepos, Whole' = Whole, Disk', Form',
           NEW pc \in {"retain", "backups", "staging", "removeJournal", "removeOperation",
                       "removeSummary"},
           proc' = Goes(proc, pc),
           pc \in {"removeOperation", "removeSummary"} => disk' = NoJournal,
           pc = "removeSummary" => ~private'.operation
    PROVE  IInv'
  <1>1. /\ proc'.pc = pc /\ proc'.journal = proc.journal /\ proc'.outcome = proc.outcome
        /\ proc'.call = proc.call
    BY DEF IInv, Form, ProcFields, Goes
  <1>2. Honest(proc'.journal, DirtyRepos', committed')
    BY <1>1 DEF Closing, Calmer
  <1>3. Closing'
    BY <1>1, <1>2 DEF Closing, Calmer
  <1>. QED
    BY <1>3 DEF IInv, Stage, Calmer

LEMMA Retaining == ASSUME NEW p PROVE Retains(p) = Goes(p, "retain")
  BY DEF Retains, Goes

LEMMA PublishSummaryKeeps ==
    ASSUME PlanAssumption, IInv, PublishSummary PROVE IInv'
  <1>1. Closing /\ proc.pc = "summary"
    BY StageIs DEF IInv, PublishSummary, At
  <1>2. /\ Calmer /\ DirtyRepos' = DirtyRepos /\ UNCHANGED <<file, disk, committed>>
        /\ Whole' = Whole
    BY Same DEF IInv, PublishSummary, world, Whole
  <1>3. PICK pc \in {"backups", "retain"} : proc' = Goes(proc, pc)
    BY Retaining DEF PublishSummary
  <1>4. PICK there \in BOOLEAN : private' = [private EXCEPT !.summary = there]
    BY DEF PublishSummary
  <1>5. Disk' /\ Form'
    BY <1>2, <1>3, <1>4, DiskStays DEF IInv, Form, ProcFields, Goes
  <1>. QED
    BY <1>1, <1>2, <1>3, <1>5, CleansOn

LEMMA RemoveBackupsKeeps ==
    ASSUME PlanAssumption, IInv, RemoveBackups PROVE IInv'
  <1>1. Closing /\ proc.pc = "backups"
    BY StageIs DEF IInv, RemoveBackups, At
  <1>2. /\ Calmer /\ DirtyRepos' = DirtyRepos /\ UNCHANGED <<file, disk, committed>>
        /\ Whole' = Whole
    BY Same DEF IInv, RemoveBackups, world, Whole
  <1>3. PICK pc \in {"staging", "retain"} : proc' = Goes(proc, pc)
    BY Retaining DEF RemoveBackups
  <1>4. PICK left \in {"none", "some", "all"} :
           /\ private' = [private EXCEPT !.backups = left]
           /\ private.backups = "none" => left = "none"
    BY DEF RemoveBackups, IInv, Form
  <1>5. Disk' /\ Form'
    BY <1>2, <1>3, <1>4, DiskStays DEF IInv, Form, ProcFields, Goes
  <1>. QED
    BY <1>1, <1>2, <1>3, <1>5, CleansOn

LEMMA RemoveStagingKeeps ==
    ASSUME PlanAssumption, IInv, RemoveStaging PROVE IInv'
  <1>1. Closing /\ proc.pc = "staging"
    BY StageIs DEF IInv, RemoveStaging, At
  <1>2. /\ Calmer /\ DirtyRepos' = DirtyRepos /\ UNCHANGED <<file, disk, private, committed>>
        /\ Whole' = Whole
    BY Same DEF IInv, RemoveStaging, world, Whole
  <1>3. PICK pc \in {"removeJournal", "retain"} : proc' = Goes(proc, pc)
    BY Retaining DEF RemoveStaging
  <1>4. Disk' /\ Form'
    BY <1>2, <1>3, DiskStays DEF IInv, Form, ProcFields, Goes
  <1>. QED
    BY <1>1, <1>2, <1>3, <1>4, CleansOn

LEMMA RemoveJournalKeeps ==
    ASSUME PlanAssumption, IInv, RemoveJournal PROVE IInv'
  <1>1. Closing /\ proc.pc = "removeJournal" /\ (committed \/ DirtyRepos = {})
    BY StageIs DEF IInv, RemoveJournal, At, Closing
  <1>2. /\ Calmer /\ DirtyRepos' = DirtyRepos /\ UNCHANGED <<file, private, committed>>
        /\ Whole' = Whole
    BY Same DEF IInv, RemoveJournal, world, Whole
  <1>3. PICK pc \in {"removeOperation", "retain"} :
           proc' = Goes(proc, pc) /\ (pc = "removeOperation" => disk' = NoJournal)
    BY Retaining DEF RemoveJournal
  <1>4. disk' \in {disk, NoJournal}
    BY DEF RemoveJournal
  <1>5. Honest(NoJournal, DirtyRepos, committed) /\ Final(NoJournal)
    BY <1>1 DEF Honest, Final, NoJournal, OpenJournals, Evident
  <1>6. Disk'
    BY <1>2, <1>4, <1>5, DiskIs DEF IInv
  <1>7. Form'
    BY <1>2, <1>3 DEF IInv, Form, ProcFields, Goes
  <1>. QED
    BY <1>1, <1>2, <1>3, <1>6, <1>7, CleansOn

LEMMA RemoveOperationKeeps ==
    ASSUME PlanAssumption, IInv, RemoveOperation PROVE IInv'
  <1>1. Closing /\ proc.pc = "removeOperation" /\ disk = NoJournal
    BY StageIs DEF IInv, RemoveOperation, At, Closing
  <1>2. /\ Calmer /\ DirtyRepos' = DirtyRepos /\ UNCHANGED <<file, disk, committed>>
        /\ Whole' = Whole
    BY Same DEF IInv, RemoveOperation, world, Whole
  <1>3. \/ private' = private
        \/ IsEmpty /\ private' = [private EXCEPT !.operation = FALSE]
    BY DEF RemoveOperation
  <1>4. \/ proc' = Ends(proc, "incomplete")
        \/ proc' = Goes(proc, "retain")
        \/ proc' = Goes(proc, "removeSummary") /\ private' = [private EXCEPT !.operation = FALSE]
    BY Retaining DEF RemoveOperation
  <1>5. Disk' /\ Form'
    BY <1>2, <1>3, <1>4, DiskStays, ZenonT(60) DEF IInv, Form, ProcFields, Goes, Ends, IsEmpty
  <1>6. CASE proc' = Ends(proc, "incomplete")
    <2>1. Over'
      BY <1>6, EndsQuietly DEF IInv
    <2>. QED
      BY <1>2, <1>5, <2>1 DEF IInv, Stage, Calmer
  <1>7. CASE proc' = Goes(proc, "retain")
    BY <1>1, <1>2, <1>5, <1>7, CleansOn
  <1>8. CASE proc' = Goes(proc, "removeSummary") /\ private' = [private EXCEPT !.operation = FALSE]
    <2>1. ~private'.operation /\ disk' = NoJournal
      BY <1>1, <1>2, <1>8 DEF IInv, Form
    <2>. QED
      BY <1>1, <1>2, <1>5, <1>8, <2>1, CleansOn
  <1>. QED
    BY <1>4, <1>6, <1>7, <1>8

LEMMA RemoveSummaryKeeps ==
    ASSUME PlanAssumption, IInv, RemoveSummary PROVE IInv'
  <1>1. /\ Closing /\ proc.pc = "removeSummary" /\ disk = NoJournal /\ ~private.operation
        /\ committed \/ DirtyRepos = {}
    BY StageIs DEF IInv, RemoveSummary, At, Closing
  <1>2. /\ Calmer /\ DirtyRepos' = DirtyRepos /\ UNCHANGED <<file, disk, committed>>
        /\ Whole' = Whole
    BY Same DEF IInv, RemoveSummary, world, Whole
  <1>3. private' \in {private, [private EXCEPT !.summary = FALSE]}
    BY DEF RemoveSummary
  <1>4. PICK result \in {FinalResult, "incomplete"} : proc' = Ends(proc, result)
    BY DEF RemoveSummary
  <1>5. /\ FinalResult = "completed" => Whole
        /\ FinalResult = "rolled-back" => DirtyRepos = {} /\ FilesClean
    BY <1>1 DEF FinalResult, Closing, IInv, Form
  <1>6. Disk' /\ Form'
    BY <1>2, <1>3, <1>4, DiskStays, ZenonT(60) DEF IInv, Form, ProcFields, Ends
  <1>7. /\ proc'.pc = "ended" /\ proc'.result = result /\ ~private'.operation
        /\ private'.backups = "none"
    BY <1>1, <1>3, <1>4 DEF IInv, Form, ProcFields, Ends
  <1>8. Over'
    BY <1>1, <1>2, <1>4, <1>5, <1>7 DEF Over, Calmer
  <1>. QED
    BY <1>2, <1>6, <1>8 DEF IInv, Stage, Calmer

LEMMA RetainKeeps ==
    ASSUME PlanAssumption, IInv, Retain PROVE IInv'
  <1>. DEFINE j == CleanupIncomplete(proc.journal)
  <1>1. Closing /\ proc.pc = "retain" /\ Honest(proc.journal, DirtyRepos, committed)
    BY StageIs DEF IInv, Retain, At, Closing
  <1>2. /\ Calmer /\ DirtyRepos' = DirtyRepos /\ UNCHANGED <<file, private, committed>>
    BY Same DEF IInv, Retain, world
  <1>3. disk' \in {disk, j} /\ proc' = Ends(proc, "incomplete")
    BY DEF Retain
  <1>4. Honest(j, DirtyRepos, committed) /\ Final(j)
    BY <1>1, CleanupKept, ZenonT(60) DEF IInv, Form
  <1>5. Disk' /\ World'
    BY <1>2, <1>3, <1>4, DiskIs DEF IInv, Calmer
  <1>6. Form' /\ Over'
    BY <1>2, <1>3, EndsQuietly DEF IInv, Form, ProcFields, Ends
  <1>. QED
    BY <1>5, <1>6 DEF IInv, Stage

LEMMA CrashKeeps ==
    ASSUME PlanAssumption, IInv, Crash PROVE IInv'
  <1>1. /\ Calmer /\ DirtyRepos' = DirtyRepos /\ UNCHANGED <<file, disk, private, committed>>
    BY Same DEF IInv, Crash, world
  <1>2. Disk' /\ World'
    BY <1>1, DiskStays DEF IInv, Calmer
  <1>3. Form' /\ Over'
    BY <1>1 DEF Crash, Idle, IInv, Form, ProcFields, Over
  <1>. QED
    BY <1>2, <1>3 DEF IInv, Stage

\* The process, its journal and its summary stay, and the world only calms down.
LEMMA StageKept ==
    ASSUME IInv, Calmer, Whole => Whole', UNCHANGED <<disk, private, committed, proc>>,
           \A n : Published(n) => Published(n)'
    PROVE  IInv'
  <1>1. /\ Calmer /\ (Whole => Whole') /\ UNCHANGED <<disk, private, committed, proc>>
        /\ \A n : Published(n) => Published(n)'
    OBVIOUS
  <1>2. Disk' /\ World' /\ Form'
    BY <1>1, DiskStays DEF IInv, Form, Calmer
  <1>3. DirtyRepos' \subseteq DirtyRepos /\ (FilesClean => FilesClean') /\ Last' = Last
        /\ Current' = Current /\ EffectsLeft' = EffectsLeft
    BY <1>1 DEF Calmer, Last, Current, EffectsLeft
  <1>4. CASE Beginning
    <2>1. Beginning'
      BY <1>1, <1>3, <1>4 DEF Beginning, InUpdate
    <2>. QED
      BY <1>2, <2>1 DEF IInv, Stage
  <1>5. CASE Forwarding
    <2>1. Evident(proc.journal, DirtyRepos)' /\ RepoEntries(proc.journal)' /\ Has(disk, Current)' = Has(disk, Current)
      BY <1>1, <1>3, <1>5 DEF Forwarding, Evident, Has, RepoEntries
    <2>2. Forwarding'
      BY <1>1, <1>3, <1>5, <2>1 DEF Forwarding, InUpdate
    <2>. QED
      BY <1>2, <2>2 DEF IInv, Stage
  <1>6. CASE Reverting
    <2>1. Evident(proc.journal, DirtyRepos)' /\ RepoEntries(proc.journal)'
      BY <1>1, <1>3, <1>6 DEF Reverting, Evident, Has, RepoEntries
    <2>2. Reverting'
      BY <1>1, <1>3, <1>6, <2>1 DEF Reverting, InUpdate
    <2>. QED
      BY <1>2, <2>2 DEF IInv, Stage
  <1>7. CASE Publishing
    <2>1. Evident(proc.journal, DirtyRepos) => Evident(proc.journal, DirtyRepos)'
      BY <1>1, <1>3 DEF Evident, Has
    <2>2. /\ Published(proc.done) => Published(proc.done)'
          /\ Published(proc.at) => Published(proc.at)'
      BY <1>1 DEF Published
    <2>3. Publishing'
      BY <1>1, <1>3, <1>7, <2>1, <2>2 DEF Publishing, InUpdate
    <2>. QED
      BY <1>2, <2>3 DEF IInv, Stage
  <1>8. CASE Recovering
    <2>1. /\ Evident(proc.journal, DirtyRepos) => Evident(proc.journal, DirtyRepos)'
          /\ Blocked(proc.journal) => Blocked(proc.journal)'
      BY <1>1, <1>3 DEF Evident, Has, Blocked
    <2>2. Recovering'
      BY <1>1, <1>3, <1>8, <2>1 DEF Recovering
    <2>. QED
      BY <1>2, <2>2 DEF IInv, Stage
  <1>9. CASE Closing
    <2>1. Honest(proc.journal, DirtyRepos', committed)
      BY <1>3, <1>9, StaysHonest DEF Closing, IInv, Form
    <2>2. Honest(proc'.journal, DirtyRepos', committed')
      BY <1>1, <2>1
    <2>3. Closed(proc.journal)' = Closed(proc.journal)
      BY <1>1 DEF Closed
    <2>4. Closing'
      BY <1>1, <1>3, <1>9, <2>2, <2>3 DEF Closing
    <2>. QED
      BY <1>2, <2>4 DEF IInv, Stage
  <1>10. CASE Over
    <2>1. Over'
      BY <1>1, <1>3, <1>10 DEF Over
    <2>. QED
      BY <1>2, <2>1 DEF IInv, Stage
  <1>. QED
    BY <1>4, <1>5, <1>6, <1>7, <1>8, <1>9, <1>10 DEF IInv, Stage

LEMMA OthersKeep == ASSUME IInv, Others PROVE IInv'
  BY OthersAreCalm, StageKept DEF IInv

LEMMA Initially == ASSUME PlanAssumption, Init PROVE IInv
  <1>1. World /\ DirtyRepos = {} /\ FilesClean
    BY DEF Init, World, Generations, DirtyRepos, FilesClean, PlanAssumption
  <1>2. Form
    BY DEF Init, Idle, Form, ProcFields
  <1>3. Disk
    BY <1>1 DEF Init, Disk, Honest, NoJournal, OpenJournals, Evident
  <1>4. Beginning
    BY <1>1 DEF Init, Idle, Beginning, InUpdate
  <1>. QED
    BY <1>1, <1>2, <1>3, <1>4 DEF IInv, Stage

LEMMA Stuttering == ASSUME IInv, UNCHANGED vars PROVE IInv'
  <1>1. Calmer /\ Whole' = Whole /\ \A n : Published(n) => Published(n)'
    BY DEF vars, IInv, World, Calmer, DirtyRepos, FilesClean, Whole, Published
  <1>. QED
    BY <1>1, StageKept DEF vars

LEMMA NextKeeps ==
    ASSUME PlanAssumption, IInv, [Next]_vars PROVE IInv'
  <1>1. CASE ExecuteStep
    BY <1>1, StartKeeps, CreateKeeps, StartEffectKeeps, PrepareKeeps, PreparedKeeps, ExecuteKeeps,
       CompletedKeeps, HandOffKeeps, FailStartKeeps, CleanUpFailedKeeps, RollbackEffectKeeps,
       RollbackEndsKeeps DEF ExecuteStep
  <1>2. CASE CompleteStep
    BY <1>2, OpenPublicationKeeps, BuildTargetsKeeps, PublishKeeps, RecordKeeps, VerifyKeeps,
       UnpublishKeeps, UnpublishEndsKeeps DEF CompleteStep
  <1>3. CASE RecoverStep
    BY <1>3, CallRecoverKeeps, OpenJournalKeeps, NoActiveJournalKeeps, RecoverSkipsKeeps,
       RecoverEffectKeeps, RecoverRecordsKeeps, RecoverManifestKeeps, RecoverIncompleteKeeps
    DEF RecoverStep
  <1>4. CASE TerminalStep
    BY <1>4, TerminalStartKeeps, PublishSummaryKeeps, RemoveBackupsKeeps, RemoveStagingKeeps,
       RemoveJournalKeeps, RemoveOperationKeeps, RemoveSummaryKeeps, RetainKeeps DEF TerminalStep
  <1>5. CASE Crash
    BY <1>5, CrashKeeps
  <1>6. CASE Others
    BY <1>6, OthersKeep
  <1>7. CASE UNCHANGED vars
    BY <1>7, Stuttering
  <1>. QED
    BY <1>1, <1>2, <1>3, <1>4, <1>5, <1>6, <1>7 DEF Next, Step

LEMMA Invariance == Spec => []IInv
  <1>1. Init => IInv
    BY Initially, PlanAssumption
  <1>2. IInv /\ [Next]_vars => IInv'
    BY NextKeeps, PlanAssumption
  <1>. QED
    BY <1>1, <1>2, PTL DEF Spec

-----------------------------------------------------------------------------
(* What follows                                                              *)

\* No crash, failed write or interrupted recovery leaves a repository where an update
\* that has not succeeded put it, without an entry of the journal that says so.
THEOREM EvidenceRemains == Spec => []RepositoryEvidence
  <1>1. IInv => RepositoryEvidence
    <2>. SUFFICES ASSUME IInv, NEW r \in Repos, ~committed, head[r] = "after" \/ side[r] = "after"
                  PROVE  Has(disk, r)
      BY DEF RepositoryEvidence, Has
    <2>1. r \in DirtyRepos
      BY DEF DirtyRepos
    <2>. QED
      BY <2>1 DEF IInv, Disk, Honest, Evident
  <1>. QED
    BY <1>1, Invariance, PTL

\* The caller is never told of a success, of a clean rollback or of a recovery that
\* was not one.
THEOREM OutcomeHolds == Spec => []OutcomeIsTrue
  <1>1. IInv => OutcomeIsTrue
    <2>. SUFFICES ASSUME IInv, At("ended") PROVE OutcomeIsTrue
      BY DEF OutcomeIsTrue
    <2>1. Over
      BY StageIs DEF IInv, At
    <2>2. DirtyRepos = {} => Untouched /\ manifest # "after"
      BY PlanAssumption DEF DirtyRepos, Untouched
    <2>. QED
      BY <2>1, <2>2 DEF Over, OutcomeIsTrue, Whole, FilesClean, At
  <1>. QED
    BY <1>1, Invariance, PTL

\* What a step may do once the journal has named the success.
Stands ==
    /\ \A r \in Repos : /\ head[r] = "after" => head'[r] # "before"
                        /\ side[r] = "after" => side'[r] = "after" \/ side'[r] = "theirs"
    /\ manifest = "after" => manifest' # "before"
    /\ \A k \in Files : file[k] = "after" => file'[k] # "before"

LEMMA CommittedSteps ==
    ASSUME PlanAssumption, IInv, committed, Step
    PROVE  UNCHANGED world
  <1>1. ~Prepare /\ ~Execute
    BY StageIs DEF IInv, Prepare, Execute, At, Forwarding, InUpdate
  <1>2. ~CleanUpFailed /\ ~RollbackEffect
    BY StageIs DEF IInv, CleanUpFailed, RollbackEffect, At, Reverting, InUpdate
  <1>3. ~Publish /\ ~Unpublish
    BY StageIs DEF IInv, Publish, Unpublish, At, Publishing, InUpdate
  <1>4. ~RecoverManifest
    <2>. SUFFICES ASSUME RecoverManifest PROVE FALSE
      OBVIOUS
    <2>1. Recovering /\ proc.pc = "undo" /\ proc.at = 0
      BY StageIs DEF IInv, RecoverManifest, At
    <2>. QED
      BY <2>1 DEF Recovering, Blocked, Last
  <1>. QED
    BY <1>1, <1>2, <1>3, <1>4, PublicStep, PrivateKeepsWorld, NothingToUndo

\* An update that is on record as successful stays: a cleanup that was interrupted or
\* that failed is resumed, and nothing takes for an update to undo what it left.
THEOREM SuccessStands == Spec => SuccessIsNeverUndone
  <1>1. IInv /\ [Next]_vars => (committed => Stands)
    <2>. SUFFICES ASSUME IInv, [Next]_vars, committed PROVE Stands
      OBVIOUS
    <2>1. CASE Step
      <3>1. UNCHANGED world
        BY <2>1, CommittedSteps, PlanAssumption
      <3>. QED
        BY <3>1 DEF Stands, world
    <2>2. CASE Crash \/ UNCHANGED vars
      BY <2>2 DEF Crash, vars, world, Stands
    <2>3. CASE Others
      BY <2>3 DEF Others, SomebodyCommits, SomebodyFetches, SomebodyEditsManifest,
                  SomebodyPublishes, Stands, IInv, World
    <2>. QED
      BY <2>1, <2>2, <2>3 DEF Next
  <1>2. IInv /\ [Next]_vars =>
          [committed =>
             /\ \A r \in Repos : /\ head[r] = "after" => head'[r] # "before"
                                 /\ side[r] = "after" => side'[r] = "after" \/ side'[r] = "theirs"
             /\ manifest = "after" => manifest' # "before"
             /\ \A k \in Files : file[k] = "after" => file'[k] # "before"]_vars
    BY <1>1 DEF Stands
  <1>. QED
    BY <1>2, Invariance, PTL DEF Spec, SuccessIsNeverUndone

-----------------------------------------------------------------------------
(* The plan of an update                                                     *)

\* A set of indices that is not empty has a least one.
LEMMA LeastHit ==
    ASSUME NEW hit, hit \subseteq Nat, hit # {}
    PROVE  \E i \in hit : \A j \in hit : i <= j
<1>1. PICK m \in hit : \A j \in hit : ~(<<j, m>> \in OpToRel(<, Nat))
  BY NatLessThanWellFounded, WFMin
<1>2. \A j \in hit : ~(j < m)
  BY <1>1 DEF OpToRel
<1>. QED
  BY <1>2

\* First finds the first refusal that applies, if one does.
LEMMA FirstFinds ==
    ASSUME NEW n \in Nat, NEW refusals, Len(refusals) = n, NEW otherwise
    PROVE  \/ First(refusals, otherwise) = otherwise /\ \A i \in 1..n : ~refusals[i].when
           \/ \E i \in 1..n : /\ First(refusals, otherwise) = refusals[i] /\ refusals[i].when
                              /\ \A j \in 1..n : j < i => ~refusals[j].when
<1>. DEFINE hit == {i \in 1..n : refusals[i].when}
            least == CHOOSE i \in hit : \A j \in hit : i <= j
<1>1. CASE hit = {}
  BY <1>1 DEF First
<1>2. CASE hit # {}
  <2>1. hit \subseteq Nat
    OBVIOUS
  <2>2. least \in hit /\ \A j \in hit : least <= j
    BY <1>2, <2>1, LeastHit
  <2>3. First(refusals, otherwise) = refusals[least]
    BY <1>2 DEF First
  <2>4. least \in 1..n /\ refusals[least].when
    BY <2>2
  <2>5. \A j \in 1..n : j < least => ~refusals[j].when
    <3>. HIDE DEF least
    <3>. QED BY <2>2, <2>4
  <2>. HIDE DEF least
  <2>. QED
    BY <2>3, <2>4, <2>5
<1>. QED
  BY <1>1, <1>2

LEMMA FirstNone ==
    ASSUME NEW n \in Nat, NEW refusals, Len(refusals) = n, NEW otherwise, otherwise.check = None,
           \A i \in 1..n : refusals[i].check # None
    PROVE  /\ First(refusals, otherwise).check = None <=> \A i \in 1..n : ~refusals[i].when
           /\ First(refusals, otherwise).check = None => First(refusals, otherwise) = otherwise
BY FirstFinds

\* A repository both manifests declare is accepted.
AcceptsExisting(s, r) ==
    LET o == ObservationOf(s, r)
        cur == s.current.repos[r]
        cand == s.candidate.repos[r]
    IN /\ cur.mount = cand.mount /\ cur.parent = cand.parent /\ cur.branch = cand.branch
       /\ cur.source = cand.source
       /\ ProjectAgrees(s, r) /\ ~o.absent /\ IdentityHolds(s, r) /\ o.clean
       /\ (cur.companion => CompanionIsBound(s, r))
       /\ o.branch # None /\ o.branch = ExpectedBranch(s, r)
       /\ UpstreamHolds(s, r) /\ (r = Root => o.exact)
       /\ (cur.parent # None => o.ignored)
       /\ ~(s.remote /\ o.advertised = None) /\ (Moved(s, r) => o.forward)

LEMMA ExistingAccepted ==
    ASSUME NEW s, NEW r
    PROVE  /\ ClassifyExisting(s, r).check = None <=> AcceptsExisting(s, r)
           /\ ClassifyExisting(s, r).check = None =>
                ClassifyExisting(s, r).class = IF Moved(s, r) THEN "fast-forwardable" ELSE "unchanged"
<1>. DEFINE o == ObservationOf(s, r)
            cur == s.current.repos[r]
            cand == s.candidate.repos[r]
            refusals == <<
            Refuse(cur.mount # cand.mount, "mount-change-blocked", "mount-change"),
            Refuse(\/ cur.parent # cand.parent \/ cur.branch # cand.branch \/ cur.source # cand.source,
                   "structurally-inconsistent", "repository-contract"),
            Refuse(~ProjectAgrees(s, r), "structurally-inconsistent", "configuration-contract"),
            Refuse(o.absent, "missing", "checkout"),
            Refuse(~IdentityHolds(s, r), "structurally-inconsistent", "identity"),
            Refuse(~o.clean, "dirty", "cleanliness"),
            Refuse(cur.companion /\ ~CompanionIsBound(s, r), "structurally-inconsistent", "checkout-authority"),
            Refuse(o.branch = None \/ o.branch # ExpectedBranch(s, r), "divergent", "branch"),
            Refuse(~UpstreamHolds(s, r), "structurally-inconsistent", "upstream"),
            Refuse(r = Root /\ ~o.exact, "structurally-inconsistent", "tracked-manifest"),
            Refuse(cur.parent # None /\ ~o.ignored, "structurally-inconsistent", "parent-ignore"),
            Refuse(s.remote /\ o.advertised = None, "structurally-inconsistent", "advertised-ref"),
            Refuse(Moved(s, r) /\ ~o.forward, "divergent", "ancestry")>>
            otherwise == Refuse(FALSE, IF Moved(s, r) THEN "fast-forwardable" ELSE "unchanged", None)
<1>1. ClassifyExisting(s, r) = First(refusals, otherwise)
  BY DEF ClassifyExisting
<1>2. Len(refusals) = 13
  OBVIOUS
<1>3. otherwise.check = None /\ otherwise.class = IF Moved(s, r) THEN "fast-forwardable" ELSE "unchanged"
  BY DEF Refuse
<1>4. \A i \in 1..13 : refusals[i].check # None
  <2>1. /\ refusals[1].check = "mount-change" /\ refusals[2].check = "repository-contract"
        /\ refusals[3].check = "configuration-contract" /\ refusals[4].check = "checkout"
        /\ refusals[5].check = "identity" /\ refusals[6].check = "cleanliness"
        /\ refusals[7].check = "checkout-authority" /\ refusals[8].check = "branch"
        /\ refusals[9].check = "upstream" /\ refusals[10].check = "tracked-manifest"
        /\ refusals[11].check = "parent-ignore" /\ refusals[12].check = "advertised-ref"
        /\ refusals[13].check = "ancestry"
    BY DEF Refuse
  <2>. HIDE DEF refusals
  <2>2. \A i \in 1..13 : refusals[i].check \in Checks
    BY <2>1, SMT DEF Checks
  <2>. QED
    BY <2>2, DriftAssumption
<1>5. (\A i \in 1..13 : ~refusals[i].when) <=> AcceptsExisting(s, r)
  <2>1. /\ refusals[1].when <=> cur.mount # cand.mount
        /\ refusals[2].when <=> (cur.parent # cand.parent \/ cur.branch # cand.branch \/ cur.source # cand.source)
        /\ refusals[3].when <=> ~ProjectAgrees(s, r)
        /\ refusals[4].when <=> o.absent
        /\ refusals[5].when <=> ~IdentityHolds(s, r)
        /\ refusals[6].when <=> ~o.clean
        /\ refusals[7].when <=> (cur.companion /\ ~CompanionIsBound(s, r))
    BY DEF Refuse
  <2>2. /\ refusals[8].when <=> (o.branch = None \/ o.branch # ExpectedBranch(s, r))
        /\ refusals[9].when <=> ~UpstreamHolds(s, r)
        /\ refusals[10].when <=> (r = Root /\ ~o.exact)
        /\ refusals[11].when <=> (cur.parent # None /\ ~o.ignored)
        /\ refusals[12].when <=> (s.remote /\ o.advertised = None)
        /\ refusals[13].when <=> (Moved(s, r) /\ ~o.forward)
    BY DEF Refuse
  <2>3. (\A i \in 1..13 : ~refusals[i].when) <=>
           /\ ~refusals[1].when /\ ~refusals[2].when /\ ~refusals[3].when /\ ~refusals[4].when
           /\ ~refusals[5].when /\ ~refusals[6].when /\ ~refusals[7].when /\ ~refusals[8].when
           /\ ~refusals[9].when /\ ~refusals[10].when /\ ~refusals[11].when /\ ~refusals[12].when
           /\ ~refusals[13].when
    <3>. HIDE DEF refusals
    <3>. QED BY SMT
  <2>. HIDE DEF refusals
  <2>. QED BY <2>1, <2>2, <2>3, SMTT(30) DEF AcceptsExisting
<1>. QED
  <2>. HIDE DEF refusals, otherwise
  <2>0. /\ Len(refusals) = 13 /\ otherwise.check = None /\ \A i \in 1..13 : refusals[i].check # None
        /\ 13 \in Nat
    BY <1>2, <1>3, <1>4
  <2>1. /\ First(refusals, otherwise).check = None <=> \A i \in 1..13 : ~refusals[i].when
        /\ First(refusals, otherwise).check = None => First(refusals, otherwise) = otherwise
    BY <2>0, FirstNone, ZenonT(30)
  <2>2. ClassifyExisting(s, r).check = None <=> \A i \in 1..13 : ~refusals[i].when
    BY <1>1, <2>1
  <2>4. ClassifyExisting(s, r).check = None <=> AcceptsExisting(s, r)
    BY <1>5, <2>2, Zenon
  <2>3. ClassifyExisting(s, r).check = None =>
          ClassifyExisting(s, r).class = IF Moved(s, r) THEN "fast-forwardable" ELSE "unchanged"
    BY <1>1, <1>3, <2>1, Zenon
  <2>. QED
    BY <2>3, <2>4, Zenon

\* One the candidate removes.
AcceptsRemoved(s, r) ==
    LET o == ObservationOf(s, r)
        cur == s.current.repos[r]
    IN /\ ProjectAgrees(s, r) /\ ~o.absent /\ IdentityHolds(s, r) /\ o.clean
       /\ o.branch = cur.branch /\ o.upstream = cur.source /\ o.merge = cur.branch
       /\ (r \in DOMAIN s.retained => s.retained[r] = RetainedFact(s, r))

LEMMA RemovedAccepted ==
    ASSUME NEW s, NEW r
    PROVE  ClassifyRemoved(s, r).check = None <=> AcceptsRemoved(s, r)
<1>. DEFINE o == ObservationOf(s, r)
            cur == s.current.repos[r]
            refusals == <<
            Refuse(~ProjectAgrees(s, r), "removed-retained", "removed-retained-contract"),
            Refuse(o.absent, "removed-retained", "removed-retained"),
            Refuse(~IdentityHolds(s, r), "removed-retained", "removed-retained"),
            Refuse(~o.clean \/ o.branch # cur.branch, "removed-retained", "removed-retained"),
            Refuse(o.upstream # cur.source \/ o.merge # cur.branch, "removed-retained", "upstream"),
            Refuse(r \in DOMAIN s.retained /\ s.retained[r] # RetainedFact(s, r),
                   "removed-retained", "retained-unmanaged")>>
            otherwise == Refuse(FALSE, "removed-retained", None)
<1>1. ClassifyRemoved(s, r) = First(refusals, otherwise)
  BY DEF ClassifyRemoved
<1>2. Len(refusals) = 6
  OBVIOUS
<1>3. otherwise.check = None
  BY DEF Refuse
<1>4. \A i \in 1..6 : refusals[i].check # None
  <2>1. /\ refusals[1].check = "removed-retained-contract" /\ refusals[2].check = "removed-retained"
        /\ refusals[3].check = "removed-retained" /\ refusals[4].check = "removed-retained"
        /\ refusals[5].check = "upstream" /\ refusals[6].check = "retained-unmanaged"
    BY DEF Refuse
  <2>. HIDE DEF refusals
  <2>2. \A i \in 1..6 : refusals[i].check \in Checks
    BY <2>1, SMT DEF Checks
  <2>. QED
    BY <2>2, DriftAssumption
<1>5. (\A i \in 1..6 : ~refusals[i].when) <=> AcceptsRemoved(s, r)
  <2>1. /\ refusals[1].when <=> ~ProjectAgrees(s, r)
        /\ refusals[2].when <=> o.absent
        /\ refusals[3].when <=> ~IdentityHolds(s, r)
        /\ refusals[4].when <=> (~o.clean \/ o.branch # cur.branch)
        /\ refusals[5].when <=> (o.upstream # cur.source \/ o.merge # cur.branch)
        /\ refusals[6].when <=> (r \in DOMAIN s.retained /\ s.retained[r] # RetainedFact(s, r))
    BY DEF Refuse
  <2>2. (\A i \in 1..6 : ~refusals[i].when) <=>
           /\ ~refusals[1].when /\ ~refusals[2].when /\ ~refusals[3].when /\ ~refusals[4].when
           /\ ~refusals[5].when /\ ~refusals[6].when
    <3>. HIDE DEF refusals
    <3>. QED BY SMT
  <2>. HIDE DEF refusals
  <2>. QED BY <2>1, <2>2, SMTT(30) DEF AcceptsRemoved
<1>. QED
  <2>. HIDE DEF refusals, otherwise
  <2>1. First(refusals, otherwise).check = None <=> \A i \in 1..6 : ~refusals[i].when
    BY <1>2, <1>3, <1>4, FirstNone
  <2>. QED
    BY <1>1, <1>5, <2>1

\* One the candidate adds.
AcceptsAdded(s, r) ==
    LET o == ObservationOf(s, r) IN
    /\ o.absent /\ ~o.occupied /\ o.advertised # None
    /\ (s.candidate.repos[r].parent # None => o.ignored)

LEMMA AddedAccepted ==
    ASSUME NEW s, NEW r
    PROVE  AddedChecks(s, r) = {} <=> AcceptsAdded(s, r)
<1>1. "occupied-target" \in AddedChecks(s, r) <=> (~ObservationOf(s, r).absent \/ ObservationOf(s, r).occupied)
  BY DEF AddedChecks
<1>2. "parent-ignore" \in AddedChecks(s, r) <=> (s.candidate.repos[r].parent # None /\ ~ObservationOf(s, r).ignored)
  BY DEF AddedChecks
<1>3. "advertised-ref" \in AddedChecks(s, r) <=> ObservationOf(s, r).advertised = None
  BY DEF AddedChecks
<1>4. AddedChecks(s, r) \subseteq {"occupied-target", "parent-ignore", "advertised-ref"}
  BY DEF AddedChecks
<1>. QED
  BY <1>1, <1>2, <1>3, <1>4 DEF AcceptsAdded

\* The files and records of the project.
AcceptsProject(s) ==
    /\ s.config.base = s.project.base /\ LocalOf(s.config.repos) = s.project.repos
    /\ s.registry = s.project.git
    /\ s.current.base = s.project.base /\ s.candidate.base = s.current.base
    /\ Cardinality(DOMAIN s.current.repos) = Cardinality(DOMAIN s.project.repos)
    /\ \A n \in DOMAIN s.others : s.others[n].valid
    /\ s.records = {}
    /\ (DOMAIN s.others # {} => DOMAIN s.current.repos = DOMAIN s.candidate.repos)
    /\ DefaultStateHolds(s)

LEMMA ProjectAccepted ==
    ASSUME NEW s
    PROVE  (\A f \in ProjectFailures(s) : f[2] = None) <=> AcceptsProject(s)
<1>. DEFINE found == LocalConfigChecks(s) \cup RegistryChecks(s) \cup ManifestChecks(s)
                       \cup WorkspaceChecks(s) \cup OperationChecks(s) \cup SetChangeChecks(s)
                       \cup (IF DefaultStateHolds(s) THEN {} ELSE {"default-state"})
<1>1. LocalConfigChecks(s) = {} <=> (s.config.base = s.project.base /\ LocalOf(s.config.repos) = s.project.repos)
  BY DEF LocalConfigChecks
<1>2. RegistryChecks(s) = {} <=> s.registry = s.project.git
  BY DEF RegistryChecks
<1>3. ManifestChecks(s) = {} <=>
        /\ s.current.base = s.project.base /\ s.candidate.base = s.current.base
        /\ Cardinality(DOMAIN s.current.repos) = Cardinality(DOMAIN s.project.repos)
  <2>1. "current-manifest-base" \in ManifestChecks(s) <=> s.current.base # s.project.base
    BY DEF ManifestChecks
  <2>2. "base-repository" \in ManifestChecks(s) <=> s.candidate.base # s.current.base
    BY DEF ManifestChecks
  <2>3. "current-manifest-repository-set" \in ManifestChecks(s) <=>
           Cardinality(DOMAIN s.current.repos) # Cardinality(DOMAIN s.project.repos)
    BY DEF ManifestChecks
  <2>4. ManifestChecks(s) \subseteq {"current-manifest-base", "current-manifest-repository-set", "base-repository"}
    BY DEF ManifestChecks
  <2>. QED
    BY <2>1, <2>2, <2>3, <2>4
<1>4. WorkspaceChecks(s) = {} <=> \A n \in DOMAIN s.others : s.others[n].valid
  BY DEF WorkspaceChecks
<1>5. OperationChecks(s) = {} <=> s.records = {}
  BY DEF OperationChecks
<1>6. SetChangeChecks(s) = {} <=> (DOMAIN s.others # {} => DOMAIN s.current.repos = DOMAIN s.candidate.repos)
  BY DEF SetChangeChecks
<1>7. found \subseteq Checks
  <2>1. ManifestChecks(s) \subseteq Checks
    BY DEF ManifestChecks, Checks
  <2>2. LocalConfigChecks(s) \subseteq Checks /\ RegistryChecks(s) \subseteq Checks
    BY DEF LocalConfigChecks, RegistryChecks, Checks
  <2>3. /\ WorkspaceChecks(s) \subseteq Checks /\ OperationChecks(s) \subseteq Checks
        /\ SetChangeChecks(s) \subseteq Checks
    BY DEF WorkspaceChecks, OperationChecks, SetChangeChecks, Checks
  <2>4. (IF DefaultStateHolds(s) THEN {} ELSE {"default-state"}) \subseteq Checks
    BY DEF Checks
  <2>. QED
    BY <2>1, <2>2, <2>3, <2>4
<1>8. found = {} <=> AcceptsProject(s)
  BY <1>1, <1>2, <1>3, <1>4, <1>5, <1>6, Zenon DEF AcceptsProject
<1>9. ProjectFailures(s) = {<<"project", c>> : c \in found}
  BY DEF ProjectFailures
<1>. HIDE DEF found
<1>10. (\A f \in ProjectFailures(s) : f[2] = None) <=> found = {}
  <2>1. ASSUME NEW c \in found PROVE <<"project", c>> \in ProjectFailures(s) /\ <<"project", c>>[2] = c /\ c # None
    BY <1>7, <1>9, <2>1, DriftAssumption
  <2>2. found = {} => ProjectFailures(s) = {}
    BY <1>9
  <2>. QED
    BY <2>1, <2>2
<1>. QED
  BY <1>8, <1>10

LEMMA RepositoryAccepted ==
    ASSUME NEW s
    PROVE  (\A f \in RepositoryFailures(s) : f[2] = None) <=>
             /\ \A r \in Common(s) : AcceptsExisting(s, r)
             /\ \A r \in Removed(s) : AcceptsRemoved(s, r)
             /\ \A r \in Added(s) : AcceptsAdded(s, r)
<1>1. (\A f \in {<<r, ClassifyExisting(s, r).check>> : r \in Common(s)} : f[2] = None)
         <=> \A r \in Common(s) : AcceptsExisting(s, r)
  <2>1. (\A f \in {<<r, ClassifyExisting(s, r).check>> : r \in Common(s)} : f[2] = None)
         <=> \A r \in Common(s) : ClassifyExisting(s, r).check = None
    <3>. DEFINE F == {<<r, ClassifyExisting(s, r).check>> : r \in Common(s)}
    <3>1. ASSUME NEW r \in Common(s) PROVE <<r, ClassifyExisting(s, r).check>> \in F /\ <<r, ClassifyExisting(s, r).check>>[2] = ClassifyExisting(s, r).check
      OBVIOUS
    <3>2. ASSUME NEW f \in F PROVE \E r \in Common(s) : f = <<r, ClassifyExisting(s, r).check>> /\ f[2] = ClassifyExisting(s, r).check
      OBVIOUS
    <3>. HIDE DEF F
    <3>3. ASSUME \A f \in F : f[2] = None, NEW r \in Common(s) PROVE ClassifyExisting(s, r).check = None
      BY <3>1, <3>3
    <3>4. ASSUME \A r \in Common(s) : ClassifyExisting(s, r).check = None, NEW f \in F PROVE f[2] = None
      BY <3>2, <3>4
    <3>. QED
      BY <3>3, <3>4 DEF F
  <2>. QED
    BY <2>1, ExistingAccepted
<1>2. (\A f \in {<<r, ClassifyRemoved(s, r).check>> : r \in Removed(s)} : f[2] = None)
         <=> \A r \in Removed(s) : AcceptsRemoved(s, r)
  <2>1. (\A f \in {<<r, ClassifyRemoved(s, r).check>> : r \in Removed(s)} : f[2] = None)
         <=> \A r \in Removed(s) : ClassifyRemoved(s, r).check = None
    <3>. DEFINE F == {<<r, ClassifyRemoved(s, r).check>> : r \in Removed(s)}
    <3>1. ASSUME NEW r \in Removed(s) PROVE <<r, ClassifyRemoved(s, r).check>> \in F /\ <<r, ClassifyRemoved(s, r).check>>[2] = ClassifyRemoved(s, r).check
      OBVIOUS
    <3>2. ASSUME NEW f \in F PROVE \E r \in Removed(s) : f = <<r, ClassifyRemoved(s, r).check>> /\ f[2] = ClassifyRemoved(s, r).check
      OBVIOUS
    <3>. HIDE DEF F
    <3>3. ASSUME \A f \in F : f[2] = None, NEW r \in Removed(s) PROVE ClassifyRemoved(s, r).check = None
      BY <3>1, <3>3
    <3>4. ASSUME \A r \in Removed(s) : ClassifyRemoved(s, r).check = None, NEW f \in F PROVE f[2] = None
      BY <3>2, <3>4
    <3>. QED
      BY <3>3, <3>4 DEF F
  <2>. QED
    BY <2>1, RemovedAccepted
<1>3. (\A f \in UNION {{<<r, c>> : c \in AddedChecks(s, r)} : r \in Added(s)} : f[2] = None)
         <=> \A r \in Added(s) : AcceptsAdded(s, r)
  <2>1. \A r : \A c \in AddedChecks(s, r) : c # None
    BY DriftAssumption DEF AddedChecks, Checks
  <2>2. (\A f \in UNION {{<<r, c>> : c \in AddedChecks(s, r)} : r \in Added(s)} : f[2] = None)
           <=> \A r \in Added(s) : \A c \in AddedChecks(s, r) : c = None
    <3>. DEFINE F == UNION {{<<r, c>> : c \in AddedChecks(s, r)} : r \in Added(s)}
    <3>1. ASSUME NEW r \in Added(s), NEW c \in AddedChecks(s, r) PROVE <<r, c>> \in F /\ <<r, c>>[2] = c
      OBVIOUS
    <3>2. ASSUME NEW f \in F PROVE \E r \in Added(s) : \E c \in AddedChecks(s, r) : f[2] = c
      <4>1. PICK r \in Added(s) : f \in {<<r, c>> : c \in AddedChecks(s, r)}
        OBVIOUS
      <4>2. PICK c \in AddedChecks(s, r) : f = <<r, c>>
        BY <4>1
      <4>. QED
        BY <4>2
    <3>. HIDE DEF F
    <3>3. ASSUME \A f \in F : f[2] = None, NEW r \in Added(s), NEW c \in AddedChecks(s, r) PROVE c = None
      BY <3>1, <3>3
    <3>4. ASSUME \A r \in Added(s) : \A c \in AddedChecks(s, r) : c = None, NEW f \in F PROVE f[2] = None
      BY <3>2, <3>4
    <3>. QED
      BY <3>3, <3>4 DEF F
  <2>. QED
    BY <2>1, <2>2, AddedAccepted
<1>. QED
  BY <1>1, <1>2, <1>3 DEF RepositoryFailures

\* All that a collection must show for an update to run.
Accepts(s) ==
    /\ s.errors = {}
    /\ AcceptsProject(s)
    /\ \A r \in Common(s) : AcceptsExisting(s, r)
    /\ \A r \in Removed(s) : AcceptsRemoved(s, r)
    /\ \A r \in Added(s) : AcceptsAdded(s, r)
    /\ \A r \in DOMAIN s.current.repos : ProjectAgrees(s, r)
    /\ RetainedFailures(s) = {} /\ UnexpectedFailures(s) = {} /\ StateOnlyFailures(s) = {}

LEMMA Accepted ==
    ASSUME NEW s, \A f \in s.errors : f[2] # None
    PROVE  MayUpdate(s) <=> Accepts(s)
<1>1. CASE s.errors # {}
  BY <1>1 DEF MayUpdate, Failures, Accepts
<1>2. CASE s.errors = {}
  <2>1. (\A f \in ManifestConfigurationFailures(s) : f[2] = None) <=>
          \A r \in DOMAIN s.current.repos : ProjectAgrees(s, r)
    <3>1. \A r : <<r, "current-manifest-configuration">>[2] # None
      BY DriftAssumption DEF Checks
    <3>. QED
      <4>. DEFINE S == {q \in DOMAIN s.current.repos : ~ProjectAgrees(s, q)}
                  F == {<<r, "current-manifest-configuration">> : r \in S}
      <4>1. \A f \in F : f[2] # None
        BY <3>1
      <4>2. F = {} <=> S = {}
        OBVIOUS
      <4>3. ManifestConfigurationFailures(s) = F
        BY DEF ManifestConfigurationFailures
      <4>. HIDE DEF F
      <4>. QED
        BY <4>1, <4>2, <4>3
  <2>2. \A f \in RetainedFailures(s) \cup UnexpectedFailures(s) \cup StateOnlyFailures(s) : f[2] # None
    <3>1. \A r : /\ <<r, "retained-unmanaged">>[2] # None /\ <<r, "identity">>[2] # None
                 /\ <<r, "disk-only">>[2] # None /\ <<r, "state-only">>[2] # None
      BY DriftAssumption DEF Checks
    <3>2. \A f \in RetainedFailures(s) : f[2] # None
      BY <3>1 DEF RetainedFailures
    <3>3. \A f \in UnexpectedFailures(s) : f[2] # None
      BY <3>1 DEF UnexpectedFailures
    <3>4. \A f \in StateOnlyFailures(s) : f[2] # None
      <4>. DEFINE named == DOMAIN s.state \cup UNION {s.others[n].repos : n \in DOMAIN s.others}
                  F == {<<r, "state-only">> : r \in named \ (Declared(s) \cup DOMAIN s.retained \cup DOMAIN s.observed)}
      <4>1. StateOnlyFailures(s) = F
        BY DEF StateOnlyFailures
      <4>. HIDE DEF named
      <4>2. \A f \in F : \E r : f = <<r, "state-only">>
        OBVIOUS
      <4>3. \A f \in F : f[2] # None
        <5>. HIDE DEF F
        <5>. QED BY <3>1, <4>2
      <4>. HIDE DEF F
      <4>. QED
        BY <4>1, <4>3
    <3>. QED
      BY <3>2, <3>3, <3>4
  <2>3. MayUpdate(s) <=> \A f \in ProjectFailures(s) \cup RepositoryFailures(s) \cup ManifestConfigurationFailures(s)
                \cup RetainedFailures(s) \cup UnexpectedFailures(s) \cup StateOnlyFailures(s) : f[2] = None
    BY <1>2 DEF MayUpdate, Failures
  <2>4. MayUpdate(s) <=>
          /\ \A f \in ProjectFailures(s) : f[2] = None
          /\ \A f \in RepositoryFailures(s) : f[2] = None
          /\ \A f \in ManifestConfigurationFailures(s) : f[2] = None
          /\ RetainedFailures(s) = {} /\ UnexpectedFailures(s) = {} /\ StateOnlyFailures(s) = {}
    BY <2>2, <2>3
  <2>. QED
    BY <1>2, <2>1, <2>4, ProjectAccepted, RepositoryAccepted DEF Accepts
<1>. QED
  BY <1>1, <1>2

-----------------------------------------------------------------------------
(* What holds of the project whoever acts *)

CheckoutType ==
    [there: {"none", "file", "checkout"}, git: {"own", "other", None}, clean: BOOLEAN,
     branch: {"main", "next", "topic", None}, head: Commits \cup {None},
     upstream: {"a", "b", None}, merge: {"main", "next", None}]

StateType == [branch: {"main", "next", "topic", None}, head: Commits \cup {None}]

ProjectTyped ==
    /\ config = [base |-> Root, repos |-> config.repos] /\ config.repos = LocalOf(config.repos)
    /\ DOMAIN config.repos \subseteq Repositories
    /\ registry \in [DOMAIN config.repos -> {"own", "other", None}]
    /\ state \in [DOMAIN config.repos -> StateType]
    /\ others = [n \in DOMAIN others |-> others[n]]
    /\ \A n \in DOMAIN others : others[n].repos = DOMAIN config.repos
    /\ retained = [r \in DOMAIN retained |-> retained[r]]
    /\ records \subseteq {"recovery", "journal"}
    /\ checkouts \in [Repositories -> CheckoutType]
    /\ \A r \in Repositories : IF checkouts[r].there = "checkout" THEN checkouts[r].head \in Commits
                                                                  ELSE checkouts[r].branch = None
    /\ \A r \in Repositories : checkouts[r].branch \in {"main", "next"} => checkouts[r].merge = checkouts[r].branch
    /\ checkouts[Root].there = "checkout"
    /\ IsManifest(working) /\ IsManifest(source)
    /\ ignored \in [Repositories -> {"none", "working", "committed"}]
    /\ tip \in [Repositories -> Commits \cup {None}]

-----------------------------------------------------------------------------
(* The command and what it has captured *)

SeenFields == {"project", "workspace", "state", "config", "registry", "current", "candidate", "others",
               "retained", "records", "observed", "errors", "remote", "early", "listed", "exact"}
JobFields == {"kind", "pc", "todo", "locked", "change", "left"}

Late == {"build", "lock"}
Listing == {"list-recovery", "relist-recovery", "list-updates", "relist-updates"} \cup Late
Looked == {"relist", "retained"} \cup Listing
Watched == {"list", "look"} \cup Looked
Watching == {"observe"} \cup Watched
Based == {"registry", "default"} \cup Watching
Configured == {"candidate", "base"} \cup Based

JobTyped ==
    /\ job = [f \in JobFields |-> job[f]]
    /\ job.pc \in {"idle", "config"} \cup Configured
    /\ job.pc # "idle" => job.kind \in {"update", "doctor"}
    /\ job.pc = "idle" => ~job.locked /\ job.change = None
    /\ job.locked \in BOOLEAN /\ (job.locked => job.kind = "update")
    /\ job.pc \in {"candidate", "lock"} => job.kind = "update" /\ ~job.locked
    /\ job.change \in {None, "unlocked", "locked"}
    /\ job.change = "locked" => job.locked

ToObserve == IF job.kind = "update" THEN Declared(seen) ELSE DOMAIN seen.project.repos

SeenShape ==
    /\ seen = [f \in SeenFields |-> seen[f]]
    /\ seen.observed = [r \in DOMAIN seen.observed |-> seen.observed[r]]
    /\ seen.others = [n \in DOMAIN seen.others |-> seen.others[n]]
    /\ \A r \in DOMAIN seen.observed :
         LET o == seen.observed[r] IN /\ o.head \in Commits \cup {None} /\ o.advertised \in Commits \cup {None}
                                      /\ o.branch # None => o.head \in Commits
    /\ \A f \in seen.errors : f[2] # None

SeenKnown ==
    /\ job.pc # "idle" =>
         /\ seen.remote = (job.kind = "update")
         /\ seen.project = [base |-> Root, repos |-> seen.project.repos, git |-> seen.project.git]
         /\ DOMAIN seen.project.repos = DOMAIN config.repos 
         /\ seen.project.git \in [DOMAIN config.repos -> {"own", "other", None}]
         /\ DOMAIN seen.workspace = DOMAIN config.repos
         /\ job.kind = "update" => ~seen.exact
    /\ job.kind = "update" /\ (job.locked \/ job.pc \notin {"idle", "config", "candidate"}) => IsManifest(seen.candidate)
    /\ job.pc \in Based =>
         /\ seen.current = NoManifest \/ IsManifest(seen.current)
         /\ job.pc \in Based \ ({"retained"} \cup Listing) \/ job.kind = "update" => seen.current # NoManifest
         /\ job.kind = "doctor" /\ seen.current # NoManifest => seen.candidate = seen.current

SeenSoFar ==
    /\ job.pc = "observe" => /\ job.todo \subseteq ToObserve
                             /\ DOMAIN seen.observed = ToObserve \ job.todo
    /\ job.pc \in Watched /\ seen.current # NoManifest => DOMAIN seen.observed = ToObserve
    /\ job.pc \in {"config", "candidate", "base", "registry", "default"} =>
          seen.observed = NoEntries /\ seen.errors = {}
    /\ job.pc \in {"config", "candidate", "base"} => ~seen.exact
    /\ job.pc \in {"config", "candidate", "base", "registry", "default", "observe", "list"} =>
          seen.others = NoEntries
    /\ job.pc \notin Listing \ {"list-recovery"} => seen.records = {}
    /\ job.pc \notin {"relist-updates"} \cup Late => "journal" \notin seen.records

SeenTyped == SeenShape /\ SeenKnown /\ SeenSoFar

-----------------------------------------------------------------------------
(* What was captured is what is there *)

\* Nothing was changed since this capture began.
Steady == job.change = None \/ (job.locked /\ job.change # "locked")

\* What a look at r gives.
Sight(r) ==
    IF job.kind = "update" /\ r \notin DOMAIN seen.current.repos THEN Target(r)
    ELSE IF r \notin DOMAIN seen.workspace \/ checkouts[r].there = "none" THEN Unobserved
    ELSE Observe(r, ParentIn(seen.current, r))

ParentOf(r) == IF r \in DOMAIN seen.current.repos THEN seen.current.repos[r].parent ELSE seen.candidate.repos[r].parent

\* Why an update may not get to observe r.
Troubled(r) ==
    \/ r \in DOMAIN seen.current.repos /\ (\/ r \notin DOMAIN seen.workspace
                                           \/ checkouts[r].upstream = None \/ checkouts[r].branch = None)
    \/ ParentOf(r) # None /\ ParentOf(r) \notin DOMAIN seen.workspace
    \/ tip[r] = None

ResolvedNow ==
    job.pc # "idle" /\ job.change = None =>
        /\ SourcesResolve
        /\ seen.project = [base |-> config.base, repos |-> config.repos,
                           git |-> [r \in DOMAIN config.repos |-> checkouts[r].git]]
        /\ seen.workspace = state
        /\ job.kind = "update" /\ (job.locked \/ job.pc \notin {"config", "candidate"}) => seen.candidate = source

FilesNow ==
    Steady =>
        /\ job.pc \in Configured => seen.config = config
        /\ job.pc \in Based =>
             LET tracked == Tracked[checkouts[Root].head] IN
             \/ seen.current = tracked /\ ~seen.exact
             \/ working # tracked
        /\ job.pc \in Based /\ seen.current # NoManifest =>
             /\ job.pc # "registry" => seen.registry = registry
             /\ job.pc \in Watching => seen.early = state
             /\ job.pc \in Looked => seen.state = state

SightsNow ==
    Steady /\ job.pc \in Watching /\ seen.current # NoManifest =>
        /\ \A r \in DOMAIN seen.observed : seen.observed[r] = Sight(r)
        /\ job.kind = "update" /\ seen.errors # {} => \E r \in DOMAIN seen.observed : Troubled(r)

WorkspacesNow ==
    Steady \/ job.locked =>
        /\ job.pc \in {"look", "relist"} => seen.listed = DOMAIN others
        /\ job.pc = "look" =>
             \A n \in DOMAIN seen.others : n \in DOMAIN others /\ seen.others[n] = others[n]
        /\ job.pc \in Looked /\ seen.current # NoManifest => seen.others = others

RecordsNow ==
    Steady \/ job.locked =>
        /\ job.pc \in Listing => seen.retained = retained
        /\ job.pc \in Listing \ {"list-recovery"} => ("recovery" \in seen.records <=> "recovery" \in records)
        /\ job.pc \in {"relist-updates"} \cup Late => ("journal" \in seen.records <=> "journal" \in records)
        /\ seen.records \subseteq {"recovery", "journal"}

-----------------------------------------------------------------------------
(* What an update leaves *)

AsApplied ==
    /\ records = {} /\ \A n \in DOMAIN others : others[n].valid
    /\ working = source /\ Tracked[checkouts[Root].head] = source /\ source.base = Root
    /\ config.repos = LocalOf(source.repos)
    /\ \A r \in DOMAIN source.repos :
         /\ checkouts[r].there = "checkout" /\ checkouts[r].git = registry[r] /\ checkouts[r].clean
         /\ checkouts[r].branch # None
         /\ state[r] = [branch |-> source.repos[r].branch, head |-> checkouts[r].head]
         /\ checkouts[r].upstream = source.repos[r].source
         /\ source.repos[r].parent # None => ignored[r] # "none"
         /\ tip[r] = checkouts[r].head

AfterUpdate ==
    report.kind = "update" /\ report.outcome = "applied" /\ report.quiet /\ ~moved /\ job.change = None => AsApplied

PlanningInv == ProjectTyped /\ JobTyped /\ SeenTyped /\ ResolvedNow /\ FilesNow /\ SightsNow /\ WorkspacesNow /\ RecordsNow
               /\ AfterUpdate /\ SilentReportIsTrue
-----------------------------------------------------------------------------
(* Steps *)

\* A step that only reads and goes on.
GoesOn ==
    /\ UNCHANGED <<outside, report, moved>>
    /\ job.pc # "idle" /\ job'.pc # "idle"
    /\ job'.kind = job.kind /\ job'.locked = job.locked /\ job'.change = job.change
    /\ job' = [f \in JobFields |-> job'[f]]

LEMMA SameProject ==
    ASSUME ProjectTyped, UNCHANGED outside
    PROVE  ProjectTyped'
BY DEF ProjectTyped, outside

LEMMA GoingOn ==
    ASSUME PlanningInv, GoesOn
    PROVE  /\ ProjectTyped' /\ AfterUpdate' /\ SilentReportIsTrue'
           /\ (Steady' <=> Steady)
<1>1. ProjectTyped'
  BY SameProject DEF PlanningInv, GoesOn
<1>2. AfterUpdate'
  <2>1. AsApplied' <=> AsApplied
    BY DEF GoesOn, outside, AsApplied
  <2>. QED
    BY <2>1 DEF PlanningInv, GoesOn, AfterUpdate
<1>3. SilentReportIsTrue'
  BY DEF GoesOn, SilentReportIsTrue
<1>4. Steady' <=> Steady
  BY DEF GoesOn, Steady
<1>. QED
  BY <1>1, <1>2, <1>3, <1>4

\* A command that ends forgets what it captured.
LEMMA Ending ==
    ASSUME JobTyped, NEW outcome, NEW findings, End(outcome, findings), ProjectTyped',
           job.kind = "update" /\ outcome = "applied" /\ job.change = None => AsApplied',
           SilentReportIsTrue'
    PROVE  PlanningInv'
<1>1. /\ job' = [f \in JobFields |-> job'[f]] /\ job'.kind = None /\ job'.pc = "idle" /\ job'.todo = {}
      /\ job'.locked = FALSE /\ job'.change = None
  BY DEF End, NoCommand, JobFields
<1>2. seen' = [f \in SeenFields |-> seen'[f]] /\ seen'.observed = NoEntries /\ seen'.errors = {}
      /\ seen'.others = NoEntries /\ seen'.records = {} /\ seen'.listed = {}
  BY DEF End, Blank, SeenFields
<1>3. /\ report'.kind = job.kind /\ report'.outcome = outcome /\ report'.findings = findings
      /\ (report'.quiet <=> job.change = None)
  BY DEF End
<1>4. None # "update" /\ None # "doctor" /\ None # "locked"
  BY DriftAssumption DEF Values
<1>5. JobTyped'
  BY <1>1, <1>4 DEF JobTyped
<1>6. SeenTyped'
  BY <1>1, <1>2, <1>4 DEF SeenTyped, SeenShape, SeenKnown, SeenSoFar, NoEntries, Based, Watching, Watched, Looked, Listing, Late
<1>7. ResolvedNow' /\ FilesNow' /\ SightsNow' /\ WorkspacesNow' /\ RecordsNow'
  BY <1>1, <1>2 DEF ResolvedNow, FilesNow, SightsNow, WorkspacesNow, RecordsNow, Configured, Based, Watching, Watched, Looked, Listing, Late
<1>8. AfterUpdate'
  BY <1>3 DEF AfterUpdate
<1>. QED
  BY <1>5, <1>6, <1>7, <1>8 DEF PlanningInv

LEMMA Refusing ==
    ASSUME PlanningInv, Refused
    PROVE  PlanningInv'
<1>1. End("refused", {}) /\ UNCHANGED outside
  BY DEF Refused
<1>2. ProjectTyped'
  BY <1>1, SameProject DEF PlanningInv
<1>3. SilentReportIsTrue'
  BY <1>1 DEF End, SilentReportIsTrue
<1>. QED
  BY <1>1, <1>2, <1>3, Ending DEF PlanningInv

-----------------------------------------------------------------------------
(* Reading, step by step *)

LEMMA Resolves ==
    ASSUME PlanningInv, NEW kind \in {"update", "doctor"}, StartCommand(kind)
    PROVE  PlanningInv'
<1>1. /\ UNCHANGED <<outside, report, moved>> /\ job.pc = "idle" /\ job.change = None
      /\ job'.kind = kind /\ job'.pc = "config" /\ job'.locked = FALSE /\ job'.change = None
      /\ job' = [f \in JobFields |-> job'[f]]
  BY DEF StartCommand, NoCommand, JobFields, PlanningInv, JobTyped
<1>2. /\ seen' = [f \in SeenFields |-> seen'[f]] /\ seen'.observed = NoEntries /\ seen'.errors = {}
      /\ seen'.others = NoEntries /\ seen'.records = {} /\ seen'.exact = FALSE
      /\ seen'.project = [base |-> config.base, repos |-> config.repos,
                          git |-> [r \in DOMAIN config.repos |-> checkouts[r].git]]
      /\ seen'.workspace = state /\ seen'.remote = (kind = "update")
  BY DEF StartCommand, Blank, SeenFields
<1>3. ProjectTyped'
  BY <1>1, SameProject DEF PlanningInv
<1>4. JobTyped'
  <2>1. None # "locked"
    BY DriftAssumption DEF Values
  <2>. QED
    BY <1>1, <2>1 DEF JobTyped
<1>5. SeenShape'
  BY <1>2 DEF SeenShape, NoEntries
<1>10. SeenKnown'
  <2>1. DOMAIN config.repos \subseteq Repositories /\ \A r \in Repositories : checkouts[r].git \in {"own", "other", None}
    BY DEF PlanningInv, ProjectTyped, CheckoutType
  <2>2. seen'.project.git \in [DOMAIN config.repos -> {"own", "other", None}]
    BY <1>2, <2>1
  <2>3. config.base = Root /\ DOMAIN state = DOMAIN config.repos
    BY DEF PlanningInv, ProjectTyped
  <2>. QED
    BY <1>1, <1>2, <2>2, <2>3 DEF SeenKnown, outside, Based, Watching, Watched, Looked, Listing, Late
<1>11. SeenSoFar'
  BY <1>1, <1>2 DEF SeenSoFar, Watched, Looked, Listing, Late
<1>6. ResolvedNow'
  <2>1. SourcesResolve
    BY DEF StartCommand
  <2>. QED
    BY <1>1, <1>2, <2>1 DEF ResolvedNow, outside, SourcesResolve
<1>7. FilesNow' /\ SightsNow' /\ WorkspacesNow' /\ RecordsNow'
  BY <1>1, <1>2 DEF FilesNow, SightsNow, WorkspacesNow, RecordsNow, Configured, Based, Watching, Watched, Looked, Listing, Late
<1>8. AfterUpdate'
  <2>1. AsApplied' <=> AsApplied
    BY <1>1 DEF outside, AsApplied
  <2>. QED
    BY <1>1, <2>1 DEF PlanningInv, AfterUpdate
<1>9. SilentReportIsTrue'
  BY <1>1 DEF SilentReportIsTrue
<1>. QED
  BY <1>3, <1>4, <1>5, <1>6, <1>7, <1>8, <1>9, <1>10, <1>11 DEF PlanningInv, SeenTyped

LEMMA ReadsConfig ==
    ASSUME PlanningInv, ReadConfig
    PROVE  PlanningInv'
<1>1. /\ GoesOn /\ job.pc = "config"
      /\ job'.pc = IF job.kind = "update" /\ ~job.locked THEN "candidate" ELSE "base"
  BY DEF ReadConfig, Read, Go, GoesOn, PlanningInv, JobTyped, JobFields
<1>2. /\ seen' = [f \in SeenFields |-> seen'[f]] /\ seen'.config = config
      /\ seen'.workspace = IF job.kind = "doctor" THEN state ELSE seen.workspace
      /\ seen'.project = seen.project /\ seen'.candidate = seen.candidate /\ seen'.others = seen.others
      /\ seen'.records = seen.records /\ seen'.observed = seen.observed /\ seen'.errors = seen.errors
      /\ seen'.remote = seen.remote /\ seen'.exact = seen.exact
  BY DEF ReadConfig, Read, PlanningInv, SeenTyped, SeenShape, SeenKnown, SeenSoFar, SeenFields
<1>3. ProjectTyped' /\ AfterUpdate' /\ SilentReportIsTrue' /\ (Steady' <=> Steady)
  BY <1>1, GoingOn
<1>4. JobTyped'
  BY <1>1 DEF GoesOn, PlanningInv, JobTyped, Configured
<1>5. SeenShape'
  BY <1>2 DEF PlanningInv, SeenTyped, SeenShape
<1>8. SeenKnown'
  BY <1>1, <1>2 DEF GoesOn, PlanningInv, ProjectTyped, JobTyped, SeenTyped, SeenKnown, outside, Based, Watching, Watched, Looked, Listing, Late
<1>9. SeenSoFar'
  BY <1>1, <1>2 DEF GoesOn, PlanningInv, JobTyped, SeenTyped, SeenSoFar, Watched, Looked, Listing, Late
<1>6. ResolvedNow'
  BY <1>1, <1>2 DEF GoesOn, PlanningInv, ResolvedNow, SourcesResolve, outside
<1>7. FilesNow' /\ SightsNow' /\ WorkspacesNow' /\ RecordsNow'
  BY <1>1, <1>2, <1>3 DEF PlanningInv, GoesOn, SeenTyped, SeenShape, SeenKnown, SeenSoFar, outside, FilesNow, SightsNow, WorkspacesNow, RecordsNow, Configured, Based, Watching, Watched, Looked, Listing, Late
<1>. QED
  BY <1>3, <1>4, <1>5, <1>6, <1>7, <1>8, <1>9 DEF PlanningInv, SeenTyped

LEMMA LoadsCandidate ==
    ASSUME PlanningInv, LoadCandidate
    PROVE  PlanningInv'
<1>1. GoesOn /\ job.pc = "candidate" /\ job'.pc = "base"
  BY DEF LoadCandidate, Read, Go, GoesOn, PlanningInv, JobTyped, JobFields
<1>2. /\ seen' = [f \in SeenFields |-> seen'[f]] /\ seen'.candidate = source
      /\ seen'.project = seen.project /\ seen'.config = seen.config /\ seen'.others = seen.others
      /\ seen'.workspace = seen.workspace
      /\ seen'.records = seen.records /\ seen'.observed = seen.observed /\ seen'.errors = seen.errors
      /\ seen'.remote = seen.remote /\ seen'.exact = seen.exact
  BY DEF LoadCandidate, Read, PlanningInv, SeenTyped, SeenShape, SeenKnown, SeenSoFar, SeenFields
<1>3. ProjectTyped' /\ AfterUpdate' /\ SilentReportIsTrue' /\ (Steady' <=> Steady)
  BY <1>1, GoingOn
<1>4. JobTyped'
  BY <1>1 DEF GoesOn, PlanningInv, JobTyped, Configured
<1>5. SeenShape'
  BY <1>2 DEF PlanningInv, SeenTyped, SeenShape
<1>8. SeenKnown'
  BY <1>1, <1>2 DEF GoesOn, PlanningInv, ProjectTyped, JobTyped, SeenTyped, SeenKnown, outside, Based, Watching, Watched, Looked, Listing, Late
<1>9. SeenSoFar'
  BY <1>1, <1>2 DEF GoesOn, PlanningInv, JobTyped, SeenTyped, SeenSoFar, Watched, Looked, Listing, Late
<1>6. ResolvedNow'
  BY <1>1, <1>2 DEF GoesOn, PlanningInv, ResolvedNow, SourcesResolve, outside
<1>7. FilesNow' /\ SightsNow' /\ WorkspacesNow' /\ RecordsNow'
  BY <1>1, <1>2, <1>3 DEF PlanningInv, GoesOn, SeenTyped, SeenShape, SeenKnown, SeenSoFar, outside, FilesNow, SightsNow, WorkspacesNow, RecordsNow, Configured, Based, Watching, Watched, Looked, Listing, Late
<1>. QED
  BY <1>3, <1>4, <1>5, <1>6, <1>7, <1>8, <1>9 DEF PlanningInv, SeenTyped

LEMMA SameSight ==
    ASSUME UNCHANGED <<outside, job.kind, seen.project, seen.workspace, seen.current, seen.candidate, seen.exact>>, NEW r
    PROVE  Sight(r)' = Sight(r) /\ (Troubled(r)' <=> Troubled(r))
<1>1. Sight(r)' = Sight(r)
  BY DEF outside, Sight, Target, Observe, Covers, IsClean, ParentIn
<1>2. Troubled(r)' <=> Troubled(r)
  BY DEF outside, Troubled, ParentOf
<1>. QED
  BY <1>1, <1>2

LEMMA SameMap ==
    ASSUME NEW f, NEW g, f = [x \in DOMAIN f |-> f[x]], g = [x \in DOMAIN g |-> g[x]],
           DOMAIN f = DOMAIN g, \A x \in DOMAIN f : f[x] = g[x]
    PROVE  f = g
<1>1. f = [x \in DOMAIN g |-> g[x]]
  <2>1. [x \in DOMAIN f |-> f[x]] = [x \in DOMAIN g |-> g[x]]
    OBVIOUS
  <2>. QED
    BY <2>1
<1>. QED
  BY <1>1

LEMMA SameToObserve ==
    ASSUME UNCHANGED <<job.kind, seen.project, seen.current, seen.candidate>>
    PROVE  ToObserve' = ToObserve
BY DEF ToObserve, Declared

LEMMA SightsStay ==
    ASSUME SightsNow, UNCHANGED <<outside, job.kind, seen.project, seen.workspace, seen.current, seen.candidate, seen.exact>>,
           UNCHANGED <<seen.observed, seen.errors>>, Steady' => Steady, job'.pc \in Watching => job.pc \in Watching
    PROVE  SightsNow'
<1>1. ASSUME Steady', job'.pc \in Watching, seen'.current # NoManifest
      PROVE  /\ \A r \in DOMAIN seen'.observed : seen'.observed[r] = Sight(r)'
             /\ job'.kind = "update" /\ seen'.errors # {} => \E r \in DOMAIN seen'.observed : Troubled(r)'
  <2>1. /\ \A r \in DOMAIN seen.observed : seen.observed[r] = Sight(r)
        /\ job.kind = "update" /\ seen.errors # {} => \E r \in DOMAIN seen.observed : Troubled(r)
    BY <1>1 DEF SightsNow
  <2>2. ASSUME NEW r \in DOMAIN seen'.observed PROVE seen'.observed[r] = Sight(r)'
    BY <2>1, <2>2, SameSight
  <2>3. ASSUME job'.kind = "update", seen'.errors # {} PROVE \E r \in DOMAIN seen'.observed : Troubled(r)'
    <3>1. PICK r \in DOMAIN seen.observed : Troubled(r)
      BY <2>1, <2>3
    <3>2. Troubled(r)'
      BY <3>1, SameSight
    <3>. QED
      BY <3>2
  <2>. QED
    BY <2>2, <2>3
<1>. QED
  BY <1>1 DEF SightsNow

LEMMA ReadsRegistry ==
    ASSUME PlanningInv, ReadRegistry
    PROVE  PlanningInv'
<1>1. GoesOn /\ job.pc = "registry" /\ job'.pc = "default"
  BY DEF ReadRegistry, Read, Go, GoesOn, PlanningInv, JobTyped, JobFields
<1>2. /\ seen' = [f \in SeenFields |-> seen'[f]]
      /\ seen'.registry = registry
      /\ seen'.project = seen.project /\ seen'.workspace = seen.workspace /\ seen'.state = seen.state
      /\ seen'.config = seen.config /\ seen'.current = seen.current /\ seen'.candidate = seen.candidate
      /\ seen'.others = seen.others /\ seen'.retained = seen.retained /\ seen'.records = seen.records
      /\ seen'.observed = seen.observed /\ seen'.errors = seen.errors /\ seen'.remote = seen.remote
      /\ seen'.early = seen.early /\ seen'.listed = seen.listed /\ seen'.exact = seen.exact
  BY DEF ReadRegistry, Read, Go, PlanningInv, SeenTyped, SeenShape, SeenFields
<1>3. ProjectTyped' /\ AfterUpdate' /\ SilentReportIsTrue' /\ (Steady' <=> Steady)
  BY <1>1, GoingOn
<1>4. JobTyped'
  BY <1>1 DEF GoesOn, PlanningInv, JobTyped, Configured, Based, Watching, Watched, Looked, Listing, Late
<1>5. SeenShape'
  BY <1>2 DEF PlanningInv, SeenTyped, SeenShape
<1>10. SeenKnown'
  BY <1>1, <1>2 DEF GoesOn, PlanningInv, JobTyped, SeenTyped, SeenKnown, outside, Configured, Based, Watching, Watched, Looked, Listing, Late
<1>11. SeenSoFar'
  BY <1>1, <1>2, SameToObserve DEF GoesOn, PlanningInv, JobTyped, SeenTyped, SeenSoFar, Configured, Based, Watching, Watched, Looked, Listing, Late
<1>6. ResolvedNow'
  BY <1>1, <1>2 DEF GoesOn, PlanningInv, JobTyped, ResolvedNow, SourcesResolve, outside
<1>7. FilesNow'
  BY <1>1, <1>2, <1>3 DEF GoesOn, PlanningInv, JobTyped, SeenTyped, SeenKnown, FilesNow, outside, Configured, Based, Watching, Watched, Looked, Listing, Late
<1>8. SightsNow'
  BY <1>1, <1>2, <1>3, SightsStay DEF GoesOn, PlanningInv, Configured, Based, Watching, Watched, Looked, Listing, Late
<1>9. WorkspacesNow' /\ RecordsNow'
  BY <1>1, <1>2, <1>3 DEF GoesOn, PlanningInv, JobTyped, ProjectTyped, SeenTyped, SeenSoFar, WorkspacesNow, RecordsNow, outside, Configured, Based, Watching, Watched, Looked, Listing, Late
<1>. QED
  BY <1>3, <1>4, <1>5, <1>6, <1>7, <1>8, <1>9, <1>10, <1>11 DEF PlanningInv, SeenTyped

LEMMA Observes ==
    ASSUME PlanningInv, Observed
    PROVE  PlanningInv'
<1>1. GoesOn /\ job.pc = "observe" /\ job'.pc = "list"
  BY DEF Observed, Read, Go, GoesOn, PlanningInv, JobTyped, JobFields
<1>2. /\ seen' = [f \in SeenFields |-> seen'[f]]
      /\ seen'.project = seen.project /\ seen'.workspace = seen.workspace /\ seen'.state = seen.state
      /\ seen'.config = seen.config /\ seen'.registry = seen.registry /\ seen'.current = seen.current
      /\ seen'.candidate = seen.candidate /\ seen'.others = seen.others /\ seen'.retained = seen.retained
      /\ seen'.records = seen.records /\ seen'.observed = seen.observed /\ seen'.errors = seen.errors
      /\ seen'.remote = seen.remote /\ seen'.early = seen.early /\ seen'.listed = seen.listed
      /\ seen'.exact = seen.exact
  BY DEF Observed, Read, Go, PlanningInv, SeenTyped, SeenShape, SeenFields
<1>3. ProjectTyped' /\ AfterUpdate' /\ SilentReportIsTrue' /\ (Steady' <=> Steady)
  BY <1>1, GoingOn
<1>4. JobTyped'
  BY <1>1 DEF GoesOn, PlanningInv, JobTyped, Configured, Based, Watching, Watched, Looked, Listing, Late
<1>5. SeenShape'
  BY <1>2 DEF PlanningInv, SeenTyped, SeenShape
<1>10. SeenKnown'
  BY <1>1, <1>2 DEF GoesOn, PlanningInv, JobTyped, SeenTyped, SeenKnown, outside, Configured, Based, Watching, Watched, Looked, Listing, Late
<1>11. SeenSoFar'
  <2>1. DOMAIN seen.observed = ToObserve /\ ToObserve' = ToObserve
    BY <1>1, <1>2 DEF Observed, GoesOn, PlanningInv, SeenTyped, SeenSoFar, ToObserve, Declared
  <2>. QED
    BY <1>1, <1>2, <2>1 DEF GoesOn, PlanningInv, JobTyped, SeenTyped, SeenSoFar, outside, Configured, Based, Watching, Watched, Looked, Listing, Late
<1>6. ResolvedNow'
  BY <1>1, <1>2 DEF GoesOn, PlanningInv, JobTyped, ResolvedNow, SourcesResolve, outside
<1>7. FilesNow'
  BY <1>1, <1>2, <1>3 DEF GoesOn, PlanningInv, JobTyped, SeenTyped, SeenKnown, FilesNow, outside, Configured, Based, Watching, Watched, Looked, Listing, Late
<1>8. SightsNow'
  BY <1>1, <1>2, <1>3, SightsStay DEF GoesOn, PlanningInv, Configured, Based, Watching, Watched, Looked, Listing, Late
<1>9. WorkspacesNow' /\ RecordsNow'
  BY <1>1, <1>2, <1>3 DEF GoesOn, PlanningInv, JobTyped, ProjectTyped, SeenTyped, SeenSoFar, WorkspacesNow, RecordsNow, outside, Configured, Based, Watching, Watched, Looked, Listing, Late
<1>. QED
  BY <1>3, <1>4, <1>5, <1>6, <1>7, <1>8, <1>9, <1>10, <1>11 DEF PlanningInv, SeenTyped

LEMMA ReadsRetained ==
    ASSUME PlanningInv, ReadRetained
    PROVE  PlanningInv'
<1>1. GoesOn /\ job.pc = "retained" /\ job'.pc = "list-recovery"
  BY DEF ReadRetained, Read, Go, GoesOn, PlanningInv, JobTyped, JobFields
<1>2. /\ seen' = [f \in SeenFields |-> seen'[f]]
      /\ seen'.retained = retained
      /\ seen'.project = seen.project /\ seen'.workspace = seen.workspace /\ seen'.state = seen.state
      /\ seen'.config = seen.config /\ seen'.registry = seen.registry /\ seen'.current = seen.current
      /\ seen'.candidate = seen.candidate /\ seen'.others = seen.others /\ seen'.records = seen.records
      /\ seen'.observed = seen.observed /\ seen'.errors = seen.errors /\ seen'.remote = seen.remote
      /\ seen'.early = seen.early /\ seen'.listed = seen.listed /\ seen'.exact = seen.exact
  BY DEF ReadRetained, Read, Go, PlanningInv, SeenTyped, SeenShape, SeenFields
<1>3. ProjectTyped' /\ AfterUpdate' /\ SilentReportIsTrue' /\ (Steady' <=> Steady)
  BY <1>1, GoingOn
<1>4. JobTyped'
  BY <1>1 DEF GoesOn, PlanningInv, JobTyped, Configured, Based, Watching, Watched, Looked, Listing, Late
<1>5. SeenShape'
  BY <1>2 DEF PlanningInv, SeenTyped, SeenShape
<1>10. SeenKnown'
  BY <1>1, <1>2 DEF GoesOn, PlanningInv, JobTyped, SeenTyped, SeenKnown, outside, Configured, Based, Watching, Watched, Looked, Listing, Late
<1>11. SeenSoFar'
  BY <1>1, <1>2, SameToObserve DEF GoesOn, PlanningInv, JobTyped, SeenTyped, SeenSoFar, Configured, Based, Watching, Watched, Looked, Listing, Late
<1>6. ResolvedNow'
  BY <1>1, <1>2 DEF GoesOn, PlanningInv, JobTyped, ResolvedNow, SourcesResolve, outside
<1>7. FilesNow'
  BY <1>1, <1>2, <1>3 DEF GoesOn, PlanningInv, JobTyped, SeenTyped, SeenKnown, FilesNow, outside, Configured, Based, Watching, Watched, Looked, Listing, Late
<1>8. SightsNow'
  BY <1>1, <1>2, <1>3, SightsStay DEF GoesOn, PlanningInv, Configured, Based, Watching, Watched, Looked, Listing, Late
<1>9. WorkspacesNow' /\ RecordsNow'
  BY <1>1, <1>2, <1>3 DEF GoesOn, PlanningInv, JobTyped, ProjectTyped, SeenTyped, SeenSoFar, WorkspacesNow, RecordsNow, outside, Configured, Based, Watching, Watched, Looked, Listing, Late
<1>. QED
  BY <1>3, <1>4, <1>5, <1>6, <1>7, <1>8, <1>9, <1>10, <1>11 DEF PlanningInv, SeenTyped

LEMMA ListsWorkspaces ==
    ASSUME PlanningInv, ListWorkspaces
    PROVE  PlanningInv'
<1>1. GoesOn /\ job.pc = "list" /\ job'.pc = "look"
  BY DEF ListWorkspaces, Read, Go, GoesOn, PlanningInv, JobTyped, JobFields
<1>2. /\ seen' = [f \in SeenFields |-> seen'[f]]
      /\ seen'.listed = DOMAIN others
      /\ seen'.project = seen.project /\ seen'.workspace = seen.workspace /\ seen'.state = seen.state
      /\ seen'.config = seen.config /\ seen'.registry = seen.registry /\ seen'.current = seen.current
      /\ seen'.candidate = seen.candidate /\ seen'.others = seen.others /\ seen'.retained = seen.retained
      /\ seen'.records = seen.records /\ seen'.observed = seen.observed /\ seen'.errors = seen.errors
      /\ seen'.remote = seen.remote /\ seen'.early = seen.early /\ seen'.exact = seen.exact
  BY DEF ListWorkspaces, Read, Go, PlanningInv, SeenTyped, SeenShape, SeenFields
<1>3. ProjectTyped' /\ AfterUpdate' /\ SilentReportIsTrue' /\ (Steady' <=> Steady)
  BY <1>1, GoingOn
<1>4. JobTyped'
  BY <1>1 DEF GoesOn, PlanningInv, JobTyped, Configured, Based, Watching, Watched, Looked, Listing, Late
<1>5. SeenShape'
  BY <1>2, SMTT(30) DEF PlanningInv, SeenTyped, SeenShape
<1>10. SeenKnown'
  BY <1>1, <1>2 DEF GoesOn, PlanningInv, JobTyped, SeenTyped, SeenKnown, outside, Configured, Based, Watching, Watched, Looked, Listing, Late
<1>11. SeenSoFar'
  BY <1>1, <1>2, SameToObserve DEF GoesOn, PlanningInv, JobTyped, SeenTyped, SeenSoFar, Configured, Based, Watching, Watched, Looked, Listing, Late
<1>6. ResolvedNow'
  BY <1>1, <1>2 DEF GoesOn, PlanningInv, JobTyped, ResolvedNow, SourcesResolve, outside
<1>7. FilesNow'
  BY <1>1, <1>2, <1>3 DEF GoesOn, PlanningInv, JobTyped, SeenTyped, SeenKnown, FilesNow, outside, Configured, Based, Watching, Watched, Looked, Listing, Late
<1>8. SightsNow'
  BY <1>1, <1>2, <1>3, SightsStay DEF GoesOn, PlanningInv, Configured, Based, Watching, Watched, Looked, Listing, Late
<1>9. WorkspacesNow' /\ RecordsNow'
  <2>1. DOMAIN seen'.others = {}
    BY <1>1, <1>2 DEF PlanningInv, SeenTyped, SeenSoFar, NoEntries
  <2>4. seen'.records = {}
    BY <1>1, <1>2 DEF PlanningInv, SeenTyped, SeenSoFar, Listing, Late
  <2>2. WorkspacesNow'
    BY <1>1, <1>2, <2>1 DEF GoesOn, WorkspacesNow, outside, Configured, Based, Watching, Watched, Looked, Listing, Late
  <2>3. RecordsNow'
    BY <1>1, <2>4 DEF RecordsNow, Configured, Based, Watching, Watched, Looked, Listing, Late
  <2>. QED
    BY <2>2, <2>3
<1>. QED
  BY <1>3, <1>4, <1>5, <1>6, <1>7, <1>8, <1>9, <1>10, <1>11 DEF PlanningInv, SeenTyped

LEMMA ReadsDefaultState ==
    ASSUME PlanningInv, ReadDefaultState
    PROVE  PlanningInv'
<1>1. GoesOn /\ job.pc = "default" /\ job'.pc = "observe"
  BY DEF ReadDefaultState, Read, Go, GoesOn, PlanningInv, JobTyped, JobFields
<1>2. /\ seen' = [f \in SeenFields |-> seen'[f]]
      /\ seen'.early = state
      /\ seen'.project = seen.project /\ seen'.workspace = seen.workspace /\ seen'.state = seen.state
      /\ seen'.config = seen.config /\ seen'.registry = seen.registry /\ seen'.current = seen.current
      /\ seen'.candidate = seen.candidate /\ seen'.others = seen.others /\ seen'.retained = seen.retained
      /\ seen'.records = seen.records /\ seen'.observed = seen.observed /\ seen'.errors = seen.errors
      /\ seen'.remote = seen.remote /\ seen'.listed = seen.listed /\ seen'.exact = seen.exact
  BY DEF ReadDefaultState, Read, Go, PlanningInv, SeenTyped, SeenShape, SeenFields
<1>3. ProjectTyped' /\ AfterUpdate' /\ SilentReportIsTrue' /\ (Steady' <=> Steady)
  BY <1>1, GoingOn
<1>4. JobTyped'
  BY <1>1 DEF GoesOn, PlanningInv, JobTyped, Configured, Based, Watching, Watched, Looked, Listing, Late
<1>5. SeenShape'
  BY <1>2 DEF PlanningInv, SeenTyped, SeenShape
<1>10. SeenKnown'
  BY <1>1, <1>2 DEF GoesOn, PlanningInv, JobTyped, SeenTyped, SeenKnown, outside, Configured, Based, Watching, Watched, Looked, Listing, Late
<1>11. SeenSoFar'
  <2>0. ToObserve' = ToObserve
    BY <1>1, <1>2, SameToObserve DEF GoesOn
  <2>1. job'.todo = ToObserve'
    <3>1. job'.todo = ToObserve
      BY DEF ReadDefaultState, PlanningInv, JobTyped, JobFields, ToObserve
    <3>. QED
      BY <2>0, <3>1
  <2>2. DOMAIN seen'.observed = {}
    BY <1>1, <1>2 DEF PlanningInv, SeenTyped, SeenSoFar, NoEntries
  <2>. QED
    BY <1>1, <1>2, <2>1, <2>2 DEF GoesOn, PlanningInv, JobTyped, SeenTyped, SeenSoFar, Configured, Based, Watching, Watched, Looked, Listing, Late
<1>6. ResolvedNow'
  BY <1>1, <1>2 DEF GoesOn, PlanningInv, JobTyped, ResolvedNow, SourcesResolve, outside
<1>7. FilesNow'
  BY <1>1, <1>2, <1>3 DEF GoesOn, PlanningInv, JobTyped, SeenTyped, SeenKnown, FilesNow, outside, Configured, Based, Watching, Watched, Looked, Listing, Late
<1>8. SightsNow'
  <2>1. DOMAIN seen'.observed = {} /\ seen'.errors = {}
    BY <1>1, <1>2 DEF PlanningInv, SeenTyped, SeenSoFar, NoEntries
  <2>. QED
    BY <2>1 DEF SightsNow
<1>9. WorkspacesNow' /\ RecordsNow'
  BY <1>1, <1>2, <1>3 DEF GoesOn, PlanningInv, JobTyped, ProjectTyped, SeenTyped, SeenSoFar, WorkspacesNow, RecordsNow, outside, Configured, Based, Watching, Watched, Looked, Listing, Late
<1>. QED
  BY <1>3, <1>4, <1>5, <1>6, <1>7, <1>8, <1>9, <1>10, <1>11 DEF PlanningInv, SeenTyped

LEMMA LooksAtWorkspace ==
    ASSUME PlanningInv, LookWorkspace
    PROVE  PlanningInv'
<1>. PICK n \in seen.listed \ DOMAIN seen.others :
        IF n \in DOMAIN others
        THEN /\ seen' = [seen EXCEPT !.others = With(@, n, others[n])]
             /\ UNCHANGED <<outside, job, plan, report, moved, changes>>
        ELSE Refused
  BY DEF LookWorkspace
<1>0. CASE n \notin DOMAIN others
  BY <1>0, Refusing
<1>a. CASE n \in DOMAIN others
  <2>1. GoesOn /\ job.pc = "look" /\ job'.pc = "look"
    BY <1>a DEF LookWorkspace, GoesOn, PlanningInv, JobTyped, JobFields
  <2>2. /\ seen' = [f \in SeenFields |-> seen'[f]]
        /\ seen'.others = With(seen.others, n, others[n])
        /\ seen'.project = seen.project /\ seen'.workspace = seen.workspace /\ seen'.state = seen.state
        /\ seen'.config = seen.config /\ seen'.registry = seen.registry /\ seen'.current = seen.current
        /\ seen'.candidate = seen.candidate /\ seen'.retained = seen.retained /\ seen'.records = seen.records
        /\ seen'.observed = seen.observed /\ seen'.errors = seen.errors /\ seen'.remote = seen.remote
        /\ seen'.early = seen.early /\ seen'.listed = seen.listed /\ seen'.exact = seen.exact
    BY <1>a DEF LookWorkspace, PlanningInv, SeenTyped, SeenShape, SeenFields
  <2>3. ProjectTyped' /\ AfterUpdate' /\ SilentReportIsTrue' /\ (Steady' <=> Steady)
    BY <2>1, GoingOn
  <2>4. JobTyped'
    BY <2>1 DEF GoesOn, PlanningInv, JobTyped, Configured, Based, Watching, Watched, Looked, Listing, Late
  <2>5. SeenShape'
    <3>1. seen'.others = [m \in DOMAIN seen'.others |-> seen'.others[m]]
      BY <2>2 DEF With
    <3>. QED
      BY <2>1, <2>2, <3>1, SMTT(40) DEF PlanningInv, SeenTyped, SeenShape
  <2>10. SeenKnown'
    BY <2>1, <2>2 DEF GoesOn, PlanningInv, JobTyped, SeenTyped, SeenKnown, outside, Configured, Based, Watching, Watched, Looked, Listing, Late
  <2>11. SeenSoFar'
    BY <2>1, <2>2, SameToObserve DEF GoesOn, PlanningInv, JobTyped, SeenTyped, SeenSoFar, Configured, Based, Watching, Watched, Looked, Listing, Late
  <2>6. ResolvedNow'
    BY <2>1, <2>2 DEF GoesOn, PlanningInv, JobTyped, ResolvedNow, SourcesResolve, outside
  <2>7. FilesNow'
    BY <2>1, <2>2, <2>3 DEF GoesOn, PlanningInv, JobTyped, SeenTyped, SeenKnown, FilesNow, outside, Configured, Based, Watching, Watched, Looked, Listing, Late
  <2>8. SightsNow'
    BY <2>1, <2>2, <2>3, SightsStay DEF GoesOn, PlanningInv, Configured, Based, Watching, Watched, Looked, Listing, Late
  <2>9. WorkspacesNow' /\ RecordsNow'
    <3>1. DOMAIN seen'.others = DOMAIN seen.others \cup {n}
      BY <2>2 DEF With
    <3>2. \A m \in DOMAIN seen'.others : seen'.others[m] = IF m = n THEN others[n] ELSE seen.others[m]
      BY <2>2 DEF With
    <3>3. WorkspacesNow'
      BY <2>1, <2>2, <2>3, <1>a, <3>1, <3>2 DEF GoesOn, PlanningInv, WorkspacesNow, outside, Configured, Based, Watching, Watched, Looked, Listing, Late
    <3>4. RecordsNow'
      BY <2>1, <2>2, <2>3 DEF GoesOn, PlanningInv, RecordsNow, outside, Configured, Based, Watching, Watched, Looked, Listing, Late
    <3>. QED
      BY <3>3, <3>4
  <2>. QED
    BY <2>3, <2>4, <2>5, <2>6, <2>7, <2>8, <2>9, <2>10, <2>11 DEF PlanningInv, SeenTyped
<1>. QED
  BY <1>0, <1>a

LEMMA LooksAtDefaultState ==
    ASSUME PlanningInv, LookDefaultState
    PROVE  PlanningInv'
<1>1. CASE Refused
  BY <1>1, Refusing
<1>2. CASE ~Refused
  <2>1. GoesOn /\ job.pc = "look" /\ job'.pc = "relist"
    BY <1>2 DEF LookDefaultState, Read, Go, GoesOn, PlanningInv, JobTyped, JobFields
  <2>2. /\ seen' = [f \in SeenFields |-> seen'[f]]
        /\ seen'.state = state
        /\ seen'.project = seen.project /\ seen'.workspace = seen.workspace /\ seen'.config = seen.config
        /\ seen'.registry = seen.registry /\ seen'.current = seen.current /\ seen'.candidate = seen.candidate
        /\ seen'.others = seen.others /\ seen'.retained = seen.retained /\ seen'.records = seen.records
        /\ seen'.observed = seen.observed /\ seen'.errors = seen.errors /\ seen'.remote = seen.remote
        /\ seen'.early = seen.early /\ seen'.listed = seen.listed /\ seen'.exact = seen.exact
    BY <1>2 DEF LookDefaultState, Read, Go, PlanningInv, SeenTyped, SeenShape, SeenFields
  <2>3. ProjectTyped' /\ AfterUpdate' /\ SilentReportIsTrue' /\ (Steady' <=> Steady)
    BY <2>1, GoingOn
  <2>4. JobTyped'
    BY <2>1 DEF GoesOn, PlanningInv, JobTyped, Configured, Based, Watching, Watched, Looked, Listing, Late
  <2>5. SeenShape'
    BY <2>2 DEF PlanningInv, SeenTyped, SeenShape
  <2>10. SeenKnown'
    BY <2>1, <2>2 DEF GoesOn, PlanningInv, JobTyped, SeenTyped, SeenKnown, outside, Configured, Based, Watching, Watched, Looked, Listing, Late
  <2>11. SeenSoFar'
    BY <2>1, <2>2, SameToObserve DEF GoesOn, PlanningInv, JobTyped, SeenTyped, SeenSoFar, Configured, Based, Watching, Watched, Looked, Listing, Late
  <2>6. ResolvedNow'
    BY <2>1, <2>2 DEF GoesOn, PlanningInv, JobTyped, ResolvedNow, SourcesResolve, outside
  <2>7. FilesNow'
    <3>1. seen.early = state
      BY <1>2 DEF LookDefaultState
    <3>. QED
      BY <2>1, <2>2, <2>3, <3>1 DEF GoesOn, PlanningInv, FilesNow, outside, Configured, Based, Watching, Watched, Looked, Listing, Late
  <2>8. SightsNow'
    BY <2>1, <2>2, <2>3, SightsStay DEF GoesOn, PlanningInv, Configured, Based, Watching, Watched, Looked, Listing, Late
  <2>9. WorkspacesNow' /\ RecordsNow'
    <3>1. seen.listed = DOMAIN seen.others
      BY <1>2 DEF LookDefaultState
    <3>2. ASSUME Steady \/ job.locked PROVE seen.others = others
      <4>1. DOMAIN seen.others = DOMAIN others /\ \A n \in DOMAIN seen.others : seen.others[n] = others[n]
        BY <2>1, <3>1, <3>2 DEF PlanningInv, WorkspacesNow
      <4>2. /\ seen.others = [n \in DOMAIN seen.others |-> seen.others[n]]
            /\ others = [n \in DOMAIN others |-> others[n]]
        BY DEF PlanningInv, ProjectTyped, SeenTyped, SeenShape
      <4>. QED
        BY <4>1, <4>2, SameMap
    <3>3. WorkspacesNow'
      BY <2>1, <2>2, <2>3, <3>2 DEF GoesOn, PlanningInv, WorkspacesNow, outside, Configured, Based, Watching, Watched, Looked, Listing, Late
    <3>4. RecordsNow'
      BY <2>1, <2>2, <2>3 DEF GoesOn, PlanningInv, RecordsNow, outside, Configured, Based, Watching, Watched, Looked, Listing, Late
    <3>. QED
      BY <3>3, <3>4
  <2>. QED
    BY <2>3, <2>4, <2>5, <2>6, <2>7, <2>8, <2>9, <2>10, <2>11 DEF PlanningInv, SeenTyped
<1>. QED
  BY <1>1, <1>2

LEMMA RelistsWorkspaces ==
    ASSUME PlanningInv, RelistWorkspaces
    PROVE  PlanningInv'
<1>1. CASE Refused
  BY <1>1, Refusing
<1>2. CASE ~Refused
  <2>1. GoesOn /\ job.pc = "relist" /\ job'.pc = "retained"
    BY <1>2 DEF RelistWorkspaces, Read, Go, GoesOn, PlanningInv, JobTyped, JobFields
  <2>2. /\ seen' = [f \in SeenFields |-> seen'[f]]
        /\ seen'.listed = {}
        /\ seen'.project = seen.project /\ seen'.workspace = seen.workspace /\ seen'.state = seen.state
        /\ seen'.config = seen.config /\ seen'.registry = seen.registry /\ seen'.current = seen.current
        /\ seen'.candidate = seen.candidate /\ seen'.others = seen.others /\ seen'.retained = seen.retained
        /\ seen'.records = seen.records /\ seen'.observed = seen.observed /\ seen'.errors = seen.errors
        /\ seen'.remote = seen.remote /\ seen'.early = seen.early /\ seen'.exact = seen.exact
    BY <1>2 DEF RelistWorkspaces, Read, Go, PlanningInv, SeenTyped, SeenShape, SeenFields
  <2>3. ProjectTyped' /\ AfterUpdate' /\ SilentReportIsTrue' /\ (Steady' <=> Steady)
    BY <2>1, GoingOn
  <2>4. JobTyped'
    BY <2>1 DEF GoesOn, PlanningInv, JobTyped, Configured, Based, Watching, Watched, Looked, Listing, Late
  <2>5. SeenShape'
    BY <2>2 DEF PlanningInv, SeenTyped, SeenShape
  <2>10. SeenKnown'
    BY <2>1, <2>2 DEF GoesOn, PlanningInv, JobTyped, SeenTyped, SeenKnown, outside, Configured, Based, Watching, Watched, Looked, Listing, Late
  <2>11. SeenSoFar'
    BY <2>1, <2>2, SameToObserve DEF GoesOn, PlanningInv, JobTyped, SeenTyped, SeenSoFar, Configured, Based, Watching, Watched, Looked, Listing, Late
  <2>6. ResolvedNow'
    BY <2>1, <2>2 DEF GoesOn, PlanningInv, JobTyped, ResolvedNow, SourcesResolve, outside
  <2>7. FilesNow'
    BY <2>1, <2>2, <2>3 DEF GoesOn, PlanningInv, JobTyped, SeenTyped, SeenKnown, FilesNow, outside, Configured, Based, Watching, Watched, Looked, Listing, Late
  <2>8. SightsNow'
    BY <2>1, <2>2, <2>3, SightsStay DEF GoesOn, PlanningInv, Configured, Based, Watching, Watched, Looked, Listing, Late
  <2>9. WorkspacesNow' /\ RecordsNow'
    BY <2>1, <2>2, <2>3 DEF GoesOn, PlanningInv, JobTyped, ProjectTyped, SeenTyped, SeenSoFar, WorkspacesNow, RecordsNow, outside, Configured, Based, Watching, Watched, Looked, Listing, Late
  <2>. QED
    BY <2>3, <2>4, <2>5, <2>6, <2>7, <2>8, <2>9, <2>10, <2>11 DEF PlanningInv, SeenTyped
<1>. QED
  BY <1>1, <1>2

LEMMA ListsRecovery ==
    ASSUME PlanningInv, ListRecovery
    PROVE  PlanningInv'
<1>1. GoesOn /\ job.pc = "list-recovery" /\ job'.pc = "relist-recovery"
  BY DEF ListRecovery, ListRecords, Read, Go, GoesOn, PlanningInv, JobTyped, JobFields
<1>2. /\ seen' = [f \in SeenFields |-> seen'[f]]
      /\ seen'.records = seen.records \cup (records \cap {"recovery"})
      /\ seen'.project = seen.project /\ seen'.workspace = seen.workspace /\ seen'.state = seen.state
      /\ seen'.config = seen.config /\ seen'.registry = seen.registry /\ seen'.current = seen.current
      /\ seen'.candidate = seen.candidate /\ seen'.others = seen.others /\ seen'.retained = seen.retained
      /\ seen'.observed = seen.observed /\ seen'.errors = seen.errors /\ seen'.remote = seen.remote
      /\ seen'.early = seen.early /\ seen'.listed = seen.listed /\ seen'.exact = seen.exact
  BY DEF ListRecovery, ListRecords, Read, Go, PlanningInv, SeenTyped, SeenShape, SeenFields
<1>3. ProjectTyped' /\ AfterUpdate' /\ SilentReportIsTrue' /\ (Steady' <=> Steady)
  BY <1>1, GoingOn
<1>4. JobTyped'
  BY <1>1 DEF GoesOn, PlanningInv, JobTyped, Configured, Based, Watching, Watched, Looked, Listing, Late
<1>5. SeenShape'
  BY <1>2 DEF PlanningInv, SeenTyped, SeenShape
<1>10. SeenKnown'
  BY <1>1, <1>2 DEF GoesOn, PlanningInv, JobTyped, SeenTyped, SeenKnown, outside, Configured, Based, Watching, Watched, Looked, Listing, Late
<1>11. SeenSoFar'
  BY <1>1, <1>2, SameToObserve DEF GoesOn, PlanningInv, JobTyped, SeenTyped, SeenSoFar, Configured, Based, Watching, Watched, Looked, Listing, Late
<1>6. ResolvedNow'
  BY <1>1, <1>2 DEF GoesOn, PlanningInv, JobTyped, ResolvedNow, SourcesResolve, outside
<1>7. FilesNow'
  BY <1>1, <1>2, <1>3 DEF GoesOn, PlanningInv, JobTyped, SeenTyped, SeenKnown, FilesNow, outside, Configured, Based, Watching, Watched, Looked, Listing, Late
<1>8. SightsNow'
  BY <1>1, <1>2, <1>3, SightsStay DEF GoesOn, PlanningInv, Configured, Based, Watching, Watched, Looked, Listing, Late
<1>9. WorkspacesNow' /\ RecordsNow'
  BY <1>1, <1>2, <1>3 DEF GoesOn, PlanningInv, JobTyped, ProjectTyped, SeenTyped, SeenSoFar, WorkspacesNow, RecordsNow, outside, Configured, Based, Watching, Watched, Looked, Listing, Late
<1>. QED
  BY <1>3, <1>4, <1>5, <1>6, <1>7, <1>8, <1>9, <1>10, <1>11 DEF PlanningInv, SeenTyped

LEMMA RelistsRecovery ==
    ASSUME PlanningInv, RelistRecovery
    PROVE  PlanningInv'
<1>1. CASE Refused
  BY <1>1, Refusing
<1>2. CASE ~Refused
  <2>1. GoesOn /\ job.pc = "relist-recovery" /\ job'.pc = "list-updates"
    BY <1>2 DEF RelistRecovery, RelistRecords, Read, Go, GoesOn, PlanningInv, JobTyped, JobFields
  <2>2. /\ seen' = [f \in SeenFields |-> seen'[f]]
        /\ seen'.project = seen.project /\ seen'.workspace = seen.workspace /\ seen'.state = seen.state
        /\ seen'.config = seen.config /\ seen'.registry = seen.registry /\ seen'.current = seen.current
        /\ seen'.candidate = seen.candidate /\ seen'.others = seen.others /\ seen'.retained = seen.retained
        /\ seen'.records = seen.records /\ seen'.observed = seen.observed /\ seen'.errors = seen.errors
        /\ seen'.remote = seen.remote /\ seen'.early = seen.early /\ seen'.listed = seen.listed
        /\ seen'.exact = seen.exact
    BY <1>2 DEF RelistRecovery, RelistRecords, Read, Go, PlanningInv, SeenTyped, SeenShape, SeenFields
  <2>3. ProjectTyped' /\ AfterUpdate' /\ SilentReportIsTrue' /\ (Steady' <=> Steady)
    BY <2>1, GoingOn
  <2>4. JobTyped'
    BY <2>1 DEF GoesOn, PlanningInv, JobTyped, Configured, Based, Watching, Watched, Looked, Listing, Late
  <2>5. SeenShape'
    BY <2>2 DEF PlanningInv, SeenTyped, SeenShape
  <2>10. SeenKnown'
    BY <2>1, <2>2 DEF GoesOn, PlanningInv, JobTyped, SeenTyped, SeenKnown, outside, Configured, Based, Watching, Watched, Looked, Listing, Late
  <2>11. SeenSoFar'
    BY <2>1, <2>2, SameToObserve DEF GoesOn, PlanningInv, JobTyped, SeenTyped, SeenSoFar, Configured, Based, Watching, Watched, Looked, Listing, Late
  <2>6. ResolvedNow'
    BY <2>1, <2>2 DEF GoesOn, PlanningInv, JobTyped, ResolvedNow, SourcesResolve, outside
  <2>7. FilesNow'
    BY <2>1, <2>2, <2>3 DEF GoesOn, PlanningInv, JobTyped, SeenTyped, SeenKnown, FilesNow, outside, Configured, Based, Watching, Watched, Looked, Listing, Late
  <2>8. SightsNow'
    BY <2>1, <2>2, <2>3, SightsStay DEF GoesOn, PlanningInv, Configured, Based, Watching, Watched, Looked, Listing, Late
  <2>9. WorkspacesNow' /\ RecordsNow'
    BY <2>1, <2>2, <2>3 DEF GoesOn, PlanningInv, JobTyped, ProjectTyped, SeenTyped, SeenSoFar, WorkspacesNow, RecordsNow, outside, Configured, Based, Watching, Watched, Looked, Listing, Late
  <2>. QED
    BY <2>3, <2>4, <2>5, <2>6, <2>7, <2>8, <2>9, <2>10, <2>11 DEF PlanningInv, SeenTyped
<1>. QED
  BY <1>1, <1>2

LEMMA ListsUpdates ==
    ASSUME PlanningInv, ListUpdates
    PROVE  PlanningInv'
<1>1. GoesOn /\ job.pc = "list-updates" /\ job'.pc = "relist-updates"
  BY DEF ListUpdates, ListRecords, Read, Go, GoesOn, PlanningInv, JobTyped, JobFields
<1>2. /\ seen' = [f \in SeenFields |-> seen'[f]]
      /\ seen'.records = seen.records \cup (records \cap {"journal"})
      /\ seen'.project = seen.project /\ seen'.workspace = seen.workspace /\ seen'.state = seen.state
      /\ seen'.config = seen.config /\ seen'.registry = seen.registry /\ seen'.current = seen.current
      /\ seen'.candidate = seen.candidate /\ seen'.others = seen.others /\ seen'.retained = seen.retained
      /\ seen'.observed = seen.observed /\ seen'.errors = seen.errors /\ seen'.remote = seen.remote
      /\ seen'.early = seen.early /\ seen'.listed = seen.listed /\ seen'.exact = seen.exact
  BY DEF ListUpdates, ListRecords, Read, Go, PlanningInv, SeenTyped, SeenShape, SeenFields
<1>3. ProjectTyped' /\ AfterUpdate' /\ SilentReportIsTrue' /\ (Steady' <=> Steady)
  BY <1>1, GoingOn
<1>4. JobTyped'
  BY <1>1 DEF GoesOn, PlanningInv, JobTyped, Configured, Based, Watching, Watched, Looked, Listing, Late
<1>5. SeenShape'
  BY <1>2 DEF PlanningInv, SeenTyped, SeenShape
<1>10. SeenKnown'
  BY <1>1, <1>2 DEF GoesOn, PlanningInv, JobTyped, SeenTyped, SeenKnown, outside, Configured, Based, Watching, Watched, Looked, Listing, Late
<1>11. SeenSoFar'
  BY <1>1, <1>2, SameToObserve DEF GoesOn, PlanningInv, JobTyped, SeenTyped, SeenSoFar, Configured, Based, Watching, Watched, Looked, Listing, Late
<1>6. ResolvedNow'
  BY <1>1, <1>2 DEF GoesOn, PlanningInv, JobTyped, ResolvedNow, SourcesResolve, outside
<1>7. FilesNow'
  BY <1>1, <1>2, <1>3 DEF GoesOn, PlanningInv, JobTyped, SeenTyped, SeenKnown, FilesNow, outside, Configured, Based, Watching, Watched, Looked, Listing, Late
<1>8. SightsNow'
  BY <1>1, <1>2, <1>3, SightsStay DEF GoesOn, PlanningInv, Configured, Based, Watching, Watched, Looked, Listing, Late
<1>9. WorkspacesNow' /\ RecordsNow'
  BY <1>1, <1>2, <1>3 DEF GoesOn, PlanningInv, JobTyped, ProjectTyped, SeenTyped, SeenSoFar, WorkspacesNow, RecordsNow, outside, Configured, Based, Watching, Watched, Looked, Listing, Late
<1>. QED
  BY <1>3, <1>4, <1>5, <1>6, <1>7, <1>8, <1>9, <1>10, <1>11 DEF PlanningInv, SeenTyped

LEMMA RelistsUpdates ==
    ASSUME PlanningInv, RelistUpdates
    PROVE  PlanningInv'
<1>1. CASE Refused
  BY <1>1, Refusing
<1>2. CASE ~Refused
  <2>1. GoesOn /\ job.pc = "relist-updates" /\ job'.pc = "build"
    BY <1>2 DEF RelistUpdates, RelistRecords, Read, Go, GoesOn, PlanningInv, JobTyped, JobFields
  <2>2. /\ seen' = [f \in SeenFields |-> seen'[f]]
        /\ seen'.project = seen.project /\ seen'.workspace = seen.workspace /\ seen'.state = seen.state
        /\ seen'.config = seen.config /\ seen'.registry = seen.registry /\ seen'.current = seen.current
        /\ seen'.candidate = seen.candidate /\ seen'.others = seen.others /\ seen'.retained = seen.retained
        /\ seen'.records = seen.records /\ seen'.observed = seen.observed /\ seen'.errors = seen.errors
        /\ seen'.remote = seen.remote /\ seen'.early = seen.early /\ seen'.listed = seen.listed
        /\ seen'.exact = seen.exact
    BY <1>2 DEF RelistUpdates, RelistRecords, Read, Go, PlanningInv, SeenTyped, SeenShape, SeenFields
  <2>3. ProjectTyped' /\ AfterUpdate' /\ SilentReportIsTrue' /\ (Steady' <=> Steady)
    BY <2>1, GoingOn
  <2>4. JobTyped'
    BY <2>1 DEF GoesOn, PlanningInv, JobTyped, Configured, Based, Watching, Watched, Looked, Listing, Late
  <2>5. SeenShape'
    BY <2>2 DEF PlanningInv, SeenTyped, SeenShape
  <2>10. SeenKnown'
    BY <2>1, <2>2 DEF GoesOn, PlanningInv, JobTyped, SeenTyped, SeenKnown, outside, Configured, Based, Watching, Watched, Looked, Listing, Late
  <2>11. SeenSoFar'
    BY <2>1, <2>2, SameToObserve DEF GoesOn, PlanningInv, JobTyped, SeenTyped, SeenSoFar, Configured, Based, Watching, Watched, Looked, Listing, Late
  <2>6. ResolvedNow'
    BY <2>1, <2>2 DEF GoesOn, PlanningInv, JobTyped, ResolvedNow, SourcesResolve, outside
  <2>7. FilesNow'
    BY <2>1, <2>2, <2>3 DEF GoesOn, PlanningInv, JobTyped, SeenTyped, SeenKnown, FilesNow, outside, Configured, Based, Watching, Watched, Looked, Listing, Late
  <2>8. SightsNow'
    BY <2>1, <2>2, <2>3, SightsStay DEF GoesOn, PlanningInv, Configured, Based, Watching, Watched, Looked, Listing, Late
  <2>9. WorkspacesNow' /\ RecordsNow'
    BY <2>1, <2>2, <2>3 DEF GoesOn, PlanningInv, JobTyped, ProjectTyped, SeenTyped, SeenSoFar, WorkspacesNow, RecordsNow, outside, Configured, Based, Watching, Watched, Looked, Listing, Late
  <2>. QED
    BY <2>3, <2>4, <2>5, <2>6, <2>7, <2>8, <2>9, <2>10, <2>11 DEF PlanningInv, SeenTyped
<1>. QED
  BY <1>1, <1>2

\* A manifest is not the missing one.
LEMMA ManifestIsThere ==
    ASSUME NEW m, IsManifest(m)
    PROVE  m # NoManifest
BY DriftAssumption DEF IsManifest, NoManifest

LEMMA ReadsBase ==
    ASSUME PlanningInv, ReadBase
    PROVE  PlanningInv'
<1>. DEFINE tracked == Tracked[checkouts[Root].head]
<1>0. /\ seen.project.base = Root /\ job.pc = "base" /\ checkouts[Root].head \in Commits
      /\ tracked = NoManifest \/ IsManifest(tracked)
      /\ seen.observed = NoEntries /\ seen.errors = {} /\ ~seen.exact /\ seen.records = {} /\ seen.others = NoEntries
      /\ job.kind = "update" => IsManifest(seen.candidate)
  <2>1. job.pc = "base"
    BY DEF ReadBase
  <2>2. seen.project.base = Root /\ (job.kind = "update" => IsManifest(seen.candidate))
    BY <2>1 DEF PlanningInv, SeenTyped, SeenKnown
  <2>3. seen.observed = NoEntries /\ seen.errors = {} /\ ~seen.exact /\ seen.records = {} /\ seen.others = NoEntries
    BY <2>1 DEF PlanningInv, SeenTyped, SeenSoFar, Listing, Late
  <2>4. checkouts[Root].head \in Commits
    BY DriftAssumption DEF PlanningInv, ProjectTyped
  <2>. QED
    BY <2>1, <2>2, <2>3, <2>4, PlanningAssumption
<1>. HIDE DEF tracked
<1>1. CASE Refused
  BY <1>1, Refusing
<1>2. CASE tracked = NoManifest /\ job.kind # "update" /\ Read([seen EXCEPT !.current = NoManifest], "retained")
  <2>1. GoesOn /\ job'.pc = "retained"
    BY <1>0, <1>2 DEF Read, Go, GoesOn, PlanningInv, JobTyped, JobFields
  <2>2. /\ seen' = [f \in SeenFields |-> seen'[f]] /\ seen'.current = NoManifest
        /\ seen'.project = seen.project /\ seen'.workspace = seen.workspace /\ seen'.state = seen.state
        /\ seen'.config = seen.config /\ seen'.registry = seen.registry
        /\ seen'.candidate = seen.candidate /\ seen'.others = seen.others /\ seen'.retained = seen.retained
        /\ seen'.records = seen.records /\ seen'.observed = seen.observed /\ seen'.errors = seen.errors
        /\ seen'.remote = seen.remote /\ seen'.early = seen.early /\ seen'.listed = seen.listed
        /\ seen'.exact = seen.exact
    BY <1>2 DEF Read, PlanningInv, SeenTyped, SeenShape, SeenFields
  <2>3. ProjectTyped' /\ AfterUpdate' /\ SilentReportIsTrue' /\ (Steady' <=> Steady)
    BY <2>1, GoingOn
  <2>4. JobTyped'
    BY <2>1 DEF GoesOn, PlanningInv, JobTyped, Configured, Based, Watching, Watched, Looked, Listing, Late
  <2>5. SeenShape'
    BY <2>2 DEF PlanningInv, SeenTyped, SeenShape
  <2>6. SeenKnown'
    BY <1>0, <1>2, <2>1, <2>2 DEF GoesOn, PlanningInv, JobTyped, SeenTyped, SeenKnown, outside, Based, Watching, Watched, Looked, Listing, Late
  <2>7. SeenSoFar'
    BY <1>0, <2>1, <2>2 DEF SeenSoFar, Watched, Looked, Listing, Late
  <2>8. ResolvedNow'
    BY <1>0, <2>1, <2>2 DEF GoesOn, PlanningInv, ResolvedNow, SourcesResolve, outside
  <2>9. FilesNow'
    <3>1. tracked' = tracked
      BY <2>1 DEF GoesOn, outside, tracked
    <3>2. Steady => seen.config = config
      BY <1>0 DEF PlanningInv, FilesNow, Configured
    <3>. QED
      BY <1>0, <1>2, <2>1, <2>2, <2>3, <3>1, <3>2 DEF GoesOn, FilesNow, outside, tracked
  <2>10. SightsNow' /\ WorkspacesNow' /\ RecordsNow'
    BY <1>0, <2>1, <2>2 DEF SightsNow, WorkspacesNow, RecordsNow, Looked, Listing, Late
  <2>. QED
    BY <2>3, <2>4, <2>5, <2>6, <2>7, <2>8, <2>9, <2>10 DEF PlanningInv, SeenTyped
<1>3. ASSUME NEW authorized \in {FALSE} \cup {PublicationIsAuthorized}, NEW m,
             m = IF authorized THEN working ELSE tracked, tracked # NoManifest,
             Read([seen EXCEPT !.current = m, !.exact = authorized,
                               !.candidate = IF job.kind = "doctor" THEN m ELSE @], "registry")
      PROVE  PlanningInv'
  <2>1. GoesOn /\ job'.pc = "registry"
    BY <1>0, <1>3 DEF Read, Go, GoesOn, PlanningInv, JobTyped, JobFields
  <2>2. /\ seen' = [f \in SeenFields |-> seen'[f]] /\ seen'.current = m /\ seen'.exact = authorized
        /\ seen'.candidate = IF job.kind = "doctor" THEN m ELSE seen.candidate
        /\ seen'.project = seen.project /\ seen'.workspace = seen.workspace /\ seen'.state = seen.state
        /\ seen'.config = seen.config /\ seen'.registry = seen.registry
        /\ seen'.others = seen.others /\ seen'.retained = seen.retained
        /\ seen'.records = seen.records /\ seen'.observed = seen.observed /\ seen'.errors = seen.errors
        /\ seen'.remote = seen.remote /\ seen'.early = seen.early /\ seen'.listed = seen.listed
    BY <1>3 DEF Read, PlanningInv, SeenTyped, SeenShape, SeenFields
  <2>3. ProjectTyped' /\ AfterUpdate' /\ SilentReportIsTrue' /\ (Steady' <=> Steady)
    BY <2>1, GoingOn
  <2>4. JobTyped'
    BY <2>1 DEF GoesOn, PlanningInv, JobTyped, Configured, Based, Watching, Watched, Looked, Listing, Late
  <2>5. SeenShape'
    BY <2>2 DEF PlanningInv, SeenTyped, SeenShape
  <2>11. IsManifest(m) /\ m # NoManifest
    BY <1>0, <1>3, ManifestIsThere DEF PlanningInv, ProjectTyped
  <2>12. authorized => job.kind = "doctor" /\ working # tracked
    <3>1. PublicationIsAuthorized => job.kind = "doctor" /\ working # tracked
      BY DEF PublicationIsAuthorized, tracked
    <3>. QED
      BY <3>1
  <2>13. job.kind # "update" => job.kind = "doctor"
    BY <1>0 DEF PlanningInv, JobTyped
  <2>6. SeenKnown'
    <3>1. job'.pc # "idle" =>
            /\ seen'.remote = (job'.kind = "update")
            /\ seen'.project = [base |-> Root, repos |-> seen'.project.repos, git |-> seen'.project.git]
            /\ DOMAIN seen'.project.repos = DOMAIN config'.repos
            /\ seen'.project.git \in [DOMAIN config'.repos -> {"own", "other", None}]
            /\ DOMAIN seen'.workspace = DOMAIN config'.repos
      BY <1>0, <2>1, <2>2 DEF GoesOn, PlanningInv, SeenTyped, SeenKnown, outside
    <3>2. job'.kind = "update" => ~seen'.exact
      BY <2>1, <2>2, <2>12 DEF GoesOn
    <3>3. job'.kind = "update" => IsManifest(seen'.candidate)
      BY <1>0, <2>1, <2>2 DEF GoesOn
    <3>4. IsManifest(seen'.current) /\ seen'.current # NoManifest
      BY <2>2, <2>11
    <3>5. job'.kind = "doctor" => seen'.candidate = seen'.current
      BY <2>1, <2>2 DEF GoesOn
    <3>. QED
      BY <2>1, <3>1, <3>2, <3>3, <3>4, <3>5 DEF SeenKnown, Based, Watching, Watched, Looked, Listing, Late
  <2>7. SeenSoFar'
    BY <1>0, <2>1, <2>2 DEF SeenSoFar, Watched, Looked, Listing, Late
  <2>8. ResolvedNow'
    BY <1>0, <2>1, <2>2 DEF GoesOn, PlanningInv, ResolvedNow, SourcesResolve, outside
  <2>9. FilesNow'
    <3>1. tracked' = tracked
      BY <2>1 DEF GoesOn, outside, tracked
    <3>2. Steady => seen.config = config
      BY <1>0 DEF PlanningInv, FilesNow, Configured
    <3>3. (m = tracked /\ ~authorized) \/ working # tracked
      BY <1>3, <2>12
    <3>. QED
      BY <2>1, <2>2, <2>3, <3>1, <3>2, <3>3 DEF GoesOn, FilesNow, outside, tracked, Watching, Watched, Looked, Listing, Late
  <2>10. SightsNow' /\ WorkspacesNow' /\ RecordsNow'
    BY <1>0, <2>1, <2>2 DEF SightsNow, WorkspacesNow, RecordsNow, Watching, Watched, Looked, Listing, Late
  <2>. QED
    BY <2>3, <2>4, <2>5, <2>6, <2>7, <2>8, <2>9, <2>10 DEF PlanningInv, SeenTyped
<1>4. \/ Refused
      \/ tracked = NoManifest /\ job.kind # "update" /\ Read([seen EXCEPT !.current = NoManifest], "retained")
      \/ tracked # NoManifest /\ \E authorized \in {FALSE} \cup {PublicationIsAuthorized} :
             LET m == IF authorized THEN working ELSE tracked IN
             Read([seen EXCEPT !.current = m, !.exact = authorized,
                               !.candidate = IF job.kind = "doctor" THEN m ELSE @], "registry")
  BY <1>0 DEF ReadBase, tracked
<1>. QED
  BY <1>1, <1>2, <1>3, <1>4

LEMMA Noting ==
    ASSUME PlanningInv, job.pc = "observe", NEW r \in Repositories, r \in job.todo,
           NEW checks, Note(r, Sight(r), checks),
           LET o == Sight(r) IN /\ o.head \in Commits \cup {None} /\ o.advertised \in Commits \cup {None}
                                /\ o.branch # None => o.head \in Commits,
           \A c \in checks : c # None,
           job.kind = "update" /\ checks # {} => Troubled(r)
    PROVE  PlanningInv'
<1>1. GoesOn /\ job'.pc = "observe" /\ job'.todo = job.todo \ {r}
  BY DEF Note, GoesOn, PlanningInv, JobTyped, JobFields
<1>2. /\ seen' = [f \in SeenFields |-> seen'[f]]
      /\ seen'.observed = With(seen.observed, r, Sight(r))
      /\ seen'.errors = seen.errors \cup {<<r, c>> : c \in checks}
      /\ seen'.project = seen.project /\ seen'.workspace = seen.workspace /\ seen'.state = seen.state
      /\ seen'.config = seen.config /\ seen'.registry = seen.registry /\ seen'.current = seen.current
      /\ seen'.candidate = seen.candidate /\ seen'.others = seen.others /\ seen'.retained = seen.retained
      /\ seen'.records = seen.records
      /\ seen'.remote = seen.remote /\ seen'.early = seen.early /\ seen'.listed = seen.listed
      /\ seen'.exact = seen.exact
  BY DEF Note, PlanningInv, SeenTyped, SeenShape, SeenFields
<1>3. ProjectTyped' /\ AfterUpdate' /\ SilentReportIsTrue' /\ (Steady' <=> Steady)
  BY <1>1, GoingOn
<1>4. JobTyped'
  BY <1>1 DEF GoesOn, PlanningInv, JobTyped, Configured, Based, Watching, Watched, Looked, Listing, Late
<1>a. /\ DOMAIN seen'.observed = DOMAIN seen.observed \cup {r}
      /\ seen'.observed = [q \in DOMAIN seen'.observed |-> seen'.observed[q]]
      /\ \A q \in DOMAIN seen'.observed : seen'.observed[q] = IF q = r THEN Sight(r) ELSE seen.observed[q]
  BY <1>2 DEF With
<1>5. SeenShape'
  <2>1. \A f \in seen'.errors : f[2] # None
    BY <1>2 DEF PlanningInv, SeenTyped, SeenShape
  <2>2. ASSUME NEW q \in DOMAIN seen'.observed
        PROVE  LET o == seen'.observed[q] IN
               /\ o.head \in Commits \cup {None} /\ o.advertised \in Commits \cup {None}
               /\ o.branch # None => o.head \in Commits
    BY <1>a DEF PlanningInv, SeenTyped, SeenShape
  <2>3. seen'.others = [n \in DOMAIN seen'.others |-> seen'.others[n]]
    BY <1>2 DEF PlanningInv, SeenTyped, SeenShape
  <2>. QED
    BY <1>2, <1>a, <2>1, <2>2, <2>3 DEF SeenShape
<1>10. SeenKnown'
  BY <1>1, <1>2 DEF GoesOn, PlanningInv, JobTyped, SeenTyped, SeenKnown, outside, Configured, Based, Watching, Watched, Looked, Listing, Late
<1>11. SeenSoFar'
  <2>1. ToObserve' = ToObserve
    BY <1>1, <1>2, SameToObserve DEF GoesOn
  <2>2. job'.todo \subseteq ToObserve' /\ DOMAIN seen'.observed = ToObserve' \ job'.todo
    BY <1>1, <1>a, <2>1 DEF PlanningInv, SeenTyped, SeenSoFar
  <2>. QED
    BY <1>1, <1>2, <2>2 DEF PlanningInv, SeenTyped, SeenSoFar, Watched, Looked, Listing, Late
<1>6. ResolvedNow'
  BY <1>1, <1>2 DEF GoesOn, PlanningInv, JobTyped, ResolvedNow, SourcesResolve, outside
<1>7. FilesNow'
  BY <1>1, <1>2, <1>3 DEF GoesOn, PlanningInv, JobTyped, FilesNow, outside, Configured, Based, Watching, Watched, Looked, Listing, Late
<1>8. SightsNow'
  <2>0. \A q : Sight(q)' = Sight(q) /\ (Troubled(q)' <=> Troubled(q))
    BY <1>1, <1>2, SameSight DEF GoesOn
  <2>1. ASSUME Steady', seen'.current # NoManifest
        PROVE  /\ \A q \in DOMAIN seen.observed : seen.observed[q] = Sight(q)
               /\ job.kind = "update" /\ seen.errors # {} => \E q \in DOMAIN seen.observed : Troubled(q)
    BY <1>1, <1>2, <1>3, <2>1 DEF PlanningInv, SightsNow, Watching
  <2>2. ASSUME Steady', seen'.current # NoManifest, NEW q \in DOMAIN seen'.observed
        PROVE  seen'.observed[q] = Sight(q)'
    BY <1>a, <2>0, <2>1, <2>2
  <2>3. ASSUME Steady', seen'.current # NoManifest, job'.kind = "update", seen'.errors # {}
        PROVE  \E q \in DOMAIN seen'.observed : Troubled(q)'
    <3>1. CASE checks # {}
      <4>1. Troubled(r)' /\ r \in DOMAIN seen'.observed
        BY <1>1, <1>a, <2>0, <2>3, <3>1 DEF GoesOn
      <4>. QED
        BY <4>1
    <3>2. CASE checks = {}
      <4>1. seen.errors # {} /\ job.kind = "update"
        BY <1>1, <1>2, <2>3, <3>2 DEF GoesOn
      <4>2. PICK q \in DOMAIN seen.observed : Troubled(q)
        BY <2>1, <2>3, <4>1
      <4>3. Troubled(q)' /\ q \in DOMAIN seen'.observed
        BY <1>a, <2>0, <4>2
      <4>. QED
        BY <4>3
    <3>. QED
      BY <3>1, <3>2
  <2>. QED
    BY <2>2, <2>3 DEF SightsNow
<1>9. WorkspacesNow' /\ RecordsNow'
  BY <1>1, <1>2, <1>3 DEF GoesOn, PlanningInv, WorkspacesNow, RecordsNow, outside, Looked, Listing, Late
<1>. QED
  BY <1>3, <1>4, <1>5, <1>6, <1>7, <1>8, <1>9, <1>10, <1>11 DEF PlanningInv, SeenTyped

LEMMA ObservesExisting ==
    ASSUME PlanningInv, NEW r \in Repositories, ObserveExisting(r)
    PROVE  PlanningInv'
<1>0. /\ job.pc = "observe" /\ r \in job.todo /\ (job.kind = "doctor" \/ r \in DOMAIN seen.current.repos)
      /\ job.kind \in {"update", "doctor"}
  BY DEF ObserveExisting, Upcoming, PlanningInv, JobTyped
<1>. DEFINE parent == ParentIn(seen.current, r)
<1>a. "workspace-path" # None /\ \A c \in Errors(r, parent) : c # None
  BY DriftAssumption DEF Checks, Errors
<1>b. Unobserved.head = None /\ Unobserved.advertised = None /\ Unobserved.branch = None
  BY DEF Unobserved
<1>1. CASE r \notin DOMAIN seen.workspace
  <2>1. Note(r, Sight(r), {"workspace-path"}) /\ Sight(r) = Unobserved
    BY <1>0, <1>1 DEF ObserveExisting, Sight
  <2>2. job.kind = "update" => Troubled(r)
    BY <1>0, <1>1 DEF Troubled
  <2>. QED
    BY <1>0, <1>a, <1>b, <2>1, <2>2, Noting
<1>2. CASE r \in DOMAIN seen.workspace /\ checkouts[r].there = "none"
  <2>1. Note(r, Sight(r), {}) /\ Sight(r) = Unobserved
    BY <1>0, <1>2 DEF ObserveExisting, Sight
  <2>. QED
    BY <1>0, <1>b, <2>1, Noting
<1>3. CASE r \in DOMAIN seen.workspace /\ checkouts[r].there # "none"
  <2>1. Note(r, Sight(r), Errors(r, parent)) /\ Sight(r) = Observe(r, parent)
    BY <1>0, <1>3 DEF ObserveExisting, Sight
  <2>2. /\ checkouts[r].head \in Commits \cup {None} /\ tip[r] \in Commits \cup {None}
        /\ checkouts[r].branch # None => checkouts[r].head \in Commits
    BY DEF PlanningInv, ProjectTyped, CheckoutType
  <2>3. /\ Sight(r).head = checkouts[r].head /\ Sight(r).branch = checkouts[r].branch
        /\ Sight(r).advertised = IF job.kind = "update" THEN tip[r] ELSE None
    BY <2>1 DEF Observe
  <2>4. ASSUME job.kind = "update", NEW e \in Errors(r, parent) PROVE Troubled(r)
    <3>1. r \in DOMAIN seen.current.repos /\ parent = ParentOf(r)
      BY <1>0, <2>4 DEF ParentIn, ParentOf
    <3>. QED
      BY <2>4, <3>1 DEF Errors, Troubled
  <2>. QED
    BY <1>0, <1>a, <2>1, <2>2, <2>3, <2>4, Noting
<1>. QED
  BY <1>1, <1>2, <1>3

LEMMA ObservesAdded ==
    ASSUME PlanningInv, NEW r \in Repositories, ObserveAdded(r)
    PROVE  PlanningInv'
<1>. DEFINE checks == Errors(r, seen.candidate.repos[r].parent) \ {"workspace-path", "upstream-observation"}
<1>0. /\ job.pc = "observe" /\ r \in job.todo /\ job.kind = "update" /\ r \notin DOMAIN seen.current.repos
      /\ Note(r, Target(r), checks)
  BY DEF ObserveAdded, Upcoming
<1>1. Sight(r) = Target(r)
  BY <1>0 DEF Sight
<1>2. \A c \in checks : c # None
  BY DriftAssumption DEF Checks, Errors
<1>3. Target(r).head = None /\ Target(r).branch = None /\ Target(r).advertised = tip[r] /\ tip[r] \in Commits \cup {None}
  BY DEF Target, Unobserved, PlanningInv, ProjectTyped
<1>4. ASSUME NEW e \in checks PROVE Troubled(r)
  <2>1. ParentOf(r) = seen.candidate.repos[r].parent
    BY <1>0 DEF ParentOf
  <2>. QED
    BY <1>0, <1>4, <2>1 DEF Errors, Troubled
<1>. HIDE DEF checks
<1>. QED
  BY <1>0, <1>1, <1>2, <1>3, <1>4, Noting

-----------------------------------------------------------------------------
(* Planning, and what others do *)

LEMMA Plans ==
    ASSUME PlanningInv, Plan
    PROVE  PlanningInv'
<1>1. GoesOn /\ job.pc = "build" /\ job.kind = "update" /\ ~job.locked /\ job'.pc = "lock" /\ seen' = seen
  BY DEF Plan, GoesOn, PlanningInv, JobTyped, JobFields
<1>3. ProjectTyped' /\ AfterUpdate' /\ SilentReportIsTrue' /\ (Steady' <=> Steady)
  BY <1>1, GoingOn
<1>4. JobTyped'
  BY <1>1 DEF GoesOn, PlanningInv, JobTyped, Configured, Based, Watching, Watched, Looked, Listing, Late
<1>5. SeenShape'
  BY <1>1 DEF PlanningInv, SeenTyped, SeenShape
<1>6. SeenKnown'
  BY <1>1 DEF GoesOn, PlanningInv, SeenTyped, SeenKnown, outside, Based, Watching, Watched, Looked, Listing, Late
<1>7. SeenSoFar'
  BY <1>1, SameToObserve DEF GoesOn, PlanningInv, SeenTyped, SeenSoFar, Watched, Looked, Listing, Late
<1>8. ResolvedNow'
  BY <1>1 DEF GoesOn, PlanningInv, ResolvedNow, SourcesResolve, outside
<1>9. FilesNow'
  BY <1>1, <1>3 DEF GoesOn, PlanningInv, FilesNow, outside, Configured, Based, Watching, Watched, Looked, Listing, Late
<1>10. SightsNow'
  BY <1>1, <1>3, SightsStay DEF GoesOn, PlanningInv, Watching, Watched, Looked, Listing, Late
<1>11. WorkspacesNow' /\ RecordsNow'
  BY <1>1, <1>3 DEF GoesOn, PlanningInv, WorkspacesNow, RecordsNow, outside, Looked, Listing, Late
<1>. QED
  BY <1>3, <1>4, <1>5, <1>6, <1>7, <1>8, <1>9, <1>10, <1>11 DEF PlanningInv, SeenTyped

LEMMA Locks ==
    ASSUME PlanningInv, Lock
    PROVE  PlanningInv'
<1>1. /\ UNCHANGED <<outside, report, moved>> /\ job.pc = "lock" /\ job.kind = "update" /\ ~job.locked
      /\ job' = [f \in JobFields |-> job'[f]] /\ job'.kind = "update" /\ job'.pc = "config"
      /\ job'.locked = TRUE /\ job'.change = job.change
  BY DEF Lock, PlanningInv, JobTyped, JobFields
<1>2. /\ seen' = [f \in SeenFields |-> seen'[f]] /\ seen'.observed = NoEntries /\ seen'.errors = {}
      /\ seen'.others = NoEntries /\ seen'.records = {} /\ seen'.exact = FALSE /\ seen'.remote = TRUE
      /\ seen'.project = seen.project /\ seen'.workspace = seen.workspace /\ seen'.candidate = seen.candidate
  BY DEF Lock, Blank, SeenFields
<1>3. ProjectTyped'
  BY <1>1, SameProject DEF PlanningInv
<1>4. JobTyped'
  BY <1>1, DriftAssumption DEF PlanningInv, JobTyped, Values
<1>5. SeenShape'
  BY <1>2 DEF SeenShape, NoEntries
<1>6. SeenKnown'
  BY <1>1, <1>2 DEF PlanningInv, SeenTyped, SeenKnown, outside, Based, Watching, Watched, Looked, Listing, Late
<1>7. SeenSoFar'
  BY <1>1, <1>2 DEF SeenSoFar, Watched, Looked, Listing, Late
<1>8. ResolvedNow'
  BY <1>1, <1>2 DEF PlanningInv, ResolvedNow, SourcesResolve, outside
<1>9. FilesNow' /\ SightsNow' /\ WorkspacesNow' /\ RecordsNow'
  BY <1>1, <1>2 DEF FilesNow, SightsNow, WorkspacesNow, RecordsNow, Configured, Based, Watching, Watched, Looked, Listing, Late
<1>10. AfterUpdate'
  <2>1. AsApplied' <=> AsApplied
    BY <1>1 DEF outside, AsApplied
  <2>. QED
    BY <1>1, <2>1 DEF PlanningInv, AfterUpdate
<1>11. SilentReportIsTrue'
  BY <1>1 DEF SilentReportIsTrue
<1>. QED
  BY <1>3, <1>4, <1>5, <1>6, <1>7, <1>8, <1>9, <1>10, <1>11 DEF PlanningInv, SeenTyped

LEMMA EndsDry ==
    ASSUME PlanningInv, DryRun
    PROVE  PlanningInv'
<1>1. End("planned", {}) /\ UNCHANGED outside
  BY DEF DryRun
<1>2. ProjectTyped'
  BY <1>1, SameProject DEF PlanningInv
<1>3. SilentReportIsTrue'
  BY <1>1 DEF End, SilentReportIsTrue
<1>. QED
  BY <1>1, <1>2, <1>3, Ending DEF PlanningInv

\* What others do makes a running capture no longer steady, and the time since
\* the last command no longer quiet.
LEMMA Disturbing ==
    ASSUME PlanningInv, Disturb, ProjectTyped', DOMAIN config'.repos = DOMAIN config.repos,
           job.locked => UNCHANGED <<others, records>>, UNCHANGED retained
    PROVE  PlanningInv'
<1>1. /\ job' = [f \in JobFields |-> job'[f]] /\ job'.kind = job.kind /\ job'.pc = job.pc
      /\ job'.todo = job.todo /\ job'.locked = job.locked
      /\ job'.change = IF job.pc = "idle" THEN None ELSE IF job.locked THEN "locked" ELSE "unlocked"
  BY DEF Disturb, PlanningInv, JobTyped, JobFields
<1>2. seen' = seen /\ report' = report /\ moved' = (moved \/ job.pc = "idle")
  BY DEF Disturb
<1>3. None # "locked" /\ None # "unlocked"
  BY DriftAssumption DEF Values
<1>4. JobTyped'
  BY <1>1, <1>3 DEF PlanningInv, JobTyped
<1>5. SeenShape'
  BY <1>2 DEF PlanningInv, SeenTyped, SeenShape
<1>6. SeenKnown'
  BY <1>1, <1>2 DEF PlanningInv, SeenTyped, SeenKnown
<1>7. SeenSoFar'
  BY <1>1, <1>2, SameToObserve DEF PlanningInv, SeenTyped, SeenSoFar
<1>8. Steady' => job.pc = "idle" /\ job'.pc = "idle"
  BY <1>1, <1>3 DEF Steady
<1>9. ResolvedNow'
  BY <1>1, <1>3 DEF ResolvedNow
<1>10. FilesNow' /\ SightsNow'
  BY <1>8 DEF FilesNow, SightsNow, Configured, Based, Watching, Watched, Looked, Listing, Late
<1>11. WorkspacesNow' /\ RecordsNow'
  <2>1. CASE ~job.locked
    <3>1. Steady' \/ job'.locked => job'.pc = "idle" /\ seen'.records = {}
      BY <1>1, <1>2, <1>8, <2>1 DEF PlanningInv, SeenTyped, SeenSoFar, Listing, Late
    <3>. QED
      BY <3>1 DEF WorkspacesNow, RecordsNow, Looked, Listing, Late
  <2>2. CASE job.locked
    BY <1>1, <1>2, <2>2 DEF PlanningInv, WorkspacesNow, RecordsNow
  <2>. QED
    BY <2>1, <2>2
<1>12. AfterUpdate' /\ SilentReportIsTrue'
  <2>1. job'.change = None => job.pc = "idle"
    BY <1>1, <1>3
  <2>2. job'.pc = "idle" \/ job'.change = None => moved'
    BY <1>1, <1>2, <2>1
  <2>. QED
    BY <2>2 DEF AfterUpdate, SilentReportIsTrue
<1>. QED
  BY <1>4, <1>5, <1>6, <1>7, <1>9, <1>10, <1>11, <1>12 DEF PlanningInv, SeenTyped

\* What a project still is when one checkout changes.
CheckoutsTyped ==
    /\ checkouts \in [Repositories -> CheckoutType]
    /\ \A r \in Repositories : IF checkouts[r].there = "checkout" THEN checkouts[r].head \in Commits
                                                                  ELSE checkouts[r].branch = None
    /\ \A r \in Repositories : checkouts[r].branch \in {"main", "next"} => checkouts[r].merge = checkouts[r].branch
    /\ checkouts[Root].there = "checkout"

LEMMA OneCheckout ==
    ASSUME ProjectTyped, NEW r \in Repositories, NEW d \in CheckoutType, checkouts' = [checkouts EXCEPT ![r] = d],
           IF d.there = "checkout" THEN d.head \in Commits ELSE d.branch = None,
           d.branch \in {"main", "next"} => d.merge = d.branch, r = Root => d.there = "checkout"
    PROVE  CheckoutsTyped'
<1>1. checkouts \in [Repositories -> CheckoutType] /\ Root \in Repositories
  BY DriftAssumption DEF ProjectTyped
<1>2. \A q \in Repositories : checkouts'[q] = IF q = r THEN d ELSE checkouts[q]
  BY <1>1
<1>3. checkouts' \in [Repositories -> CheckoutType]
  BY <1>1
<1>. QED
  BY <1>1, <1>2, <1>3 DEF ProjectTyped, CheckoutsTyped

LEMMA UserCommitsKeeps ==
    ASSUME PlanningInv, NEW r \in Repositories, UserCommits(r)
    PROVE  PlanningInv'
<1>1. PICK c \in Commits : /\ checkouts' = [checkouts EXCEPT ![r].head = c]
                           /\ working' = IF r = Root /\ Tracked[c] # NoManifest THEN Tracked[c] ELSE working
  BY DEF UserCommits
<1>2. /\ Disturb /\ checkouts[r].there = "checkout"
      /\ UNCHANGED <<config, registry, state, others, retained, records, fetched, tip, source>>
      /\ ignored' \in {ignored} \cup {[ignored EXCEPT ![q] = "none"] : q \in IF r = Root THEN Repositories \ {Root} ELSE {}}
  BY DEF UserCommits
<1>3. IsManifest(working')
  BY <1>1, PlanningAssumption DEF PlanningInv, ProjectTyped
<1>4. ignored' \in [Repositories -> {"none", "working", "committed"}]
  BY <1>2 DEF PlanningInv, ProjectTyped
<1>5. CheckoutsTyped'
  <2>. DEFINE d == [checkouts[r] EXCEPT !.head = c]
  <2>1. ProjectTyped /\ checkouts[r] \in CheckoutType
    BY DEF PlanningInv, ProjectTyped
  <2>2. /\ d \in CheckoutType /\ d.there = "checkout" /\ d.head \in Commits
        /\ d.branch = checkouts[r].branch /\ d.merge = checkouts[r].merge
    BY <1>2, <2>1 DEF CheckoutType
  <2>3. checkouts' = [checkouts EXCEPT ![r] = d]
    BY <1>1
  <2>4. checkouts[r].branch \in {"main", "next"} => checkouts[r].merge = checkouts[r].branch
    BY <2>1 DEF ProjectTyped
  <2>. HIDE DEF d
  <2>. QED
    BY <2>1, <2>2, <2>3, <2>4, OneCheckout
<1>6. ProjectTyped'
  BY <1>2, <1>3, <1>4, <1>5 DEF PlanningInv, ProjectTyped, CheckoutsTyped
<1>. QED
  BY <1>2, <1>6, Disturbing

LEMMA UserChangesKeeps ==
    ASSUME PlanningInv, NEW r \in Repositories, UserChanges(r)
    PROVE  PlanningInv'
<1>1. PICK d \in {[checkouts[r] EXCEPT !.clean = FALSE], [checkouts[r] EXCEPT !.branch = "topic"],
                 [checkouts[r] EXCEPT !.branch = None], [checkouts[r] EXCEPT !.upstream = "b"],
                 [checkouts[r] EXCEPT !.git = "other"], Nowhere} :
        /\ checkouts[r].there = "checkout" /\ d # checkouts[r] /\ (r = Root => d.there = "checkout")
        /\ checkouts' = [checkouts EXCEPT ![r] = d]
  BY DEF UserChanges
<1>2. /\ Disturb
      /\ UNCHANGED <<config, registry, state, others, retained, records, working, ignored, fetched, tip, source>>
  BY DEF UserChanges
<1>3. checkouts[r] \in CheckoutType /\ checkouts[r].head \in Commits
  BY <1>1 DEF PlanningInv, ProjectTyped
<1>4. Nowhere \in CheckoutType /\ Nowhere.there = "none" /\ Nowhere.branch = None
  BY DEF Nowhere, CheckoutType
<1>5. /\ d \in CheckoutType
      /\ IF d.there = "checkout" THEN d.head \in Commits ELSE d.branch = None
      /\ d.branch \in {"main", "next"} => d.merge = d.branch
  <2>1. CASE d = Nowhere
    BY <1>4, <2>1, DriftAssumption DEF Values
  <2>2. CASE d # Nowhere
    <3>1. checkouts[r].branch \in {"main", "next"} => checkouts[r].merge = checkouts[r].branch
      BY DEF PlanningInv, ProjectTyped
    <3>2. None \notin {"main", "next"}
      BY DriftAssumption DEF Values
    <3>. QED
      BY <1>1, <1>3, <2>2, <3>1, <3>2 DEF CheckoutType
  <2>. QED
    BY <2>1, <2>2
<1>7. CheckoutsTyped'
  BY <1>1, <1>5, OneCheckout DEF PlanningInv
<1>9. ProjectTyped'
  BY <1>2, <1>7 DEF PlanningInv, ProjectTyped, CheckoutsTyped
<1>. QED
  BY <1>2, <1>9, Disturbing

LEMMA UserOccupiesKeeps ==
    ASSUME PlanningInv, NEW r \in Repositories, UserOccupies(r)
    PROVE  PlanningInv'
<1>1. /\ Disturb /\ checkouts[r].there = "none" /\ checkouts' = [checkouts EXCEPT ![r].there = "file"]
      /\ UNCHANGED <<config, registry, state, others, retained, records, working, ignored, fetched, tip, source>>
  BY DEF UserOccupies
<1>2. CheckoutsTyped'
  <2>. DEFINE d == [checkouts[r] EXCEPT !.there = "file"]
  <2>1. /\ ProjectTyped /\ checkouts[r] \in CheckoutType /\ checkouts[r].branch = None /\ r # Root
        /\ checkouts[r].branch \in {"main", "next"} => checkouts[r].merge = checkouts[r].branch
    BY <1>1 DEF PlanningInv, ProjectTyped
  <2>2. d \in CheckoutType /\ d.there = "file" /\ d.branch = None /\ d.merge = checkouts[r].merge
    BY <2>1 DEF CheckoutType
  <2>3. checkouts' = [checkouts EXCEPT ![r] = d]
    BY <1>1
  <2>. HIDE DEF d
  <2>. QED
    BY <2>1, <2>2, <2>3, OneCheckout
<1>3. ProjectTyped'
  BY <1>1, <1>2 DEF PlanningInv, ProjectTyped, CheckoutsTyped
<1>. QED
  BY <1>1, <1>3, Disturbing

LEMMA UserIgnoresKeeps ==
    ASSUME PlanningInv, NEW r \in Repositories, UserIgnores(r)
    PROVE  PlanningInv'
<1>1. /\ Disturb /\ checkouts' = [checkouts EXCEPT ![Root].clean = FALSE]
      /\ UNCHANGED <<config, registry, state, others, retained, records, working, fetched, tip, source>>
      /\ \E i \in {"none", "working"} : ignored' = [ignored EXCEPT ![r] = i]
  BY DEF UserIgnores
<1>2. ignored' \in [Repositories -> {"none", "working", "committed"}]
  BY <1>1 DEF PlanningInv, ProjectTyped
<1>3. CheckoutsTyped'
  <2>. DEFINE d == [checkouts[Root] EXCEPT !.clean = FALSE]
  <2>0. Root \in Repositories
    BY DriftAssumption
  <2>1. /\ ProjectTyped /\ checkouts[Root] \in CheckoutType
        /\ checkouts[Root].there = "checkout" /\ checkouts[Root].head \in Commits
        /\ checkouts[Root].branch \in {"main", "next"} => checkouts[Root].merge = checkouts[Root].branch
    BY <2>0 DEF PlanningInv, ProjectTyped
  <2>2. /\ d \in CheckoutType /\ d.there = "checkout" /\ d.head \in Commits
        /\ d.branch = checkouts[Root].branch /\ d.merge = checkouts[Root].merge
    BY <2>1 DEF CheckoutType
  <2>3. checkouts' = [checkouts EXCEPT ![Root] = d]
    BY <1>1
  <2>. HIDE DEF d
  <2>. QED
    BY <2>0, <2>1, <2>2, <2>3, OneCheckout
<1>4. ProjectTyped'
  BY <1>1, <1>2, <1>3 DEF PlanningInv, ProjectTyped, CheckoutsTyped
<1>. QED
  BY <1>1, <1>4, Disturbing

LEMMA BaselinePublishedKeeps ==
    ASSUME PlanningInv, NEW r \in Repositories, BaselinePublished(r)
    PROVE  PlanningInv'
<1>1. /\ Disturb /\ r \in DOMAIN config.repos /\ r \in DOMAIN working.repos
      /\ working' = [working EXCEPT !.repos[r].branch = "next"]
      /\ config' = [config EXCEPT !.repos[r].branch = "next"] \/ config' = config
      /\ UNCHANGED <<registry, state, others, retained, records, checkouts, ignored, fetched, tip, source>>
  BY DEF BaselinePublished
<1>2. IsManifest(working')
  <2>1. IsManifest(working)
    BY DEF PlanningInv, ProjectTyped
  <2>2. /\ working'.base = working.base /\ DOMAIN working'.repos = DOMAIN working.repos
        /\ working' = [base |-> working'.base, repos |-> working'.repos]
        /\ working'.repos = [working.repos EXCEPT ![r].branch = "next"]
    BY <1>1, <2>1 DEF IsManifest
  <2>3. working'.repos \in [DOMAIN working'.repos -> Contract]
    BY <1>1, <2>1, <2>2, SMTT(30) DEF IsManifest, Contract
  <2>4. \A q \in DOMAIN working.repos : working'.repos[q].parent = working.repos[q].parent
    BY <1>1, <2>1, <2>2 DEF IsManifest, Contract
  <2>. QED
    BY <2>1, <2>2, <2>3, <2>4 DEF IsManifest
<1>3. /\ config'.base = Root /\ DOMAIN config'.repos = DOMAIN config.repos
      /\ config' = [base |-> Root, repos |-> config'.repos] /\ config'.repos = LocalOf(config'.repos)
  <2>1. CASE config' = config
    BY <2>1 DEF PlanningInv, ProjectTyped
  <2>2. CASE config' = [config EXCEPT !.repos[r].branch = "next"]
    <3>1. config = [base |-> Root, repos |-> config.repos] /\ config.repos = LocalOf(config.repos)
      BY DEF PlanningInv, ProjectTyped
    <3>2. config' = [base |-> Root, repos |-> [config.repos EXCEPT ![r].branch = "next"]]
      BY <2>2, <3>1
    <3>3. \A q \in DOMAIN config.repos : config.repos[q] = Local(config.repos[q])
      BY <3>1 DEF LocalOf
    <3>4. \A q \in DOMAIN config.repos : config'.repos[q] = Local(config'.repos[q])
      BY <3>2, <3>3 DEF Local
    <3>. QED
      BY <3>2, <3>4 DEF LocalOf
  <2>. QED
    BY <1>1, <2>1, <2>2
<1>4. ProjectTyped'
  BY <1>1, <1>2, <1>3 DEF PlanningInv, ProjectTyped
<1>. QED
  BY <1>1, <1>3, <1>4, Disturbing

LEMMA OtherChangesKeep ==
    ASSUME PlanningInv, \/ \E r \in Repositories : RemoteChanges(r)
                        \/ SourceChanges \/ WorkspaceChanges \/ RecordChanges \/ StateRefreshed
    PROVE  PlanningInv'
<1>1. CASE \E r \in Repositories : RemoteChanges(r)
  <2>1. Disturb /\ tip' \in [Repositories -> Commits \cup {None}]
    BY <1>1 DEF RemoteChanges, PlanningInv, ProjectTyped
  <2>2. UNCHANGED <<config, registry, state, others, retained, records, checkouts, working, ignored, source>>
    BY <1>1 DEF RemoteChanges
  <2>3. ProjectTyped'
    BY <2>1, <2>2 DEF PlanningInv, ProjectTyped
  <2>. QED
    BY <2>1, <2>2, <2>3, Disturbing
<1>2. CASE SourceChanges
  <2>1. Disturb /\ IsManifest(source')
    BY <1>2, PlanningAssumption DEF SourceChanges
  <2>2. UNCHANGED <<config, registry, state, others, retained, records, checkouts, working, ignored, tip>>
    BY <1>2 DEF SourceChanges
  <2>3. ProjectTyped'
    BY <2>1, <2>2 DEF PlanningInv, ProjectTyped
  <2>. QED
    BY <2>1, <2>2, <2>3, Disturbing
<1>3. CASE WorkspaceChanges
  <2>1. Disturb /\ ~job.locked /\ UNCHANGED <<config, registry, state, retained, records, checkouts, working, ignored, tip, source>>
    BY <1>3 DEF WorkspaceChanges
  <2>2. others' = [n \in DOMAIN others' |-> others'[n]] /\ \A n \in DOMAIN others' : others'[n].repos = DOMAIN config.repos
    <3>1. CASE \E ok \in BOOLEAN : others' = With(NoEntries, "w", [repos |-> DOMAIN config.repos, valid |-> ok])
      <4>1. PICK ok \in BOOLEAN : others' = With(NoEntries, "w", [repos |-> DOMAIN config.repos, valid |-> ok])
        BY <3>1
      <4>2. DOMAIN NoEntries = {}
        BY DEF NoEntries
      <4>3. others' = [n \in {"w"} |-> [repos |-> DOMAIN config.repos, valid |-> ok]]
        BY <4>1, <4>2 DEF With
      <4>. QED
        BY <4>3
    <3>2. CASE others' = NoEntries
      BY <3>2 DEF NoEntries
    <3>. QED
      BY <1>3, <3>1, <3>2 DEF WorkspaceChanges
  <2>3. ProjectTyped'
    BY <2>1, <2>2 DEF PlanningInv, ProjectTyped
  <2>. QED
    BY <2>1, <2>3, Disturbing
<1>4. CASE RecordChanges
  <2>1. Disturb /\ ~job.locked /\ UNCHANGED <<config, registry, state, others, retained, checkouts, working, ignored, tip, source>>
    BY <1>4 DEF RecordChanges
  <2>2. records' \subseteq {"recovery", "journal"}
    BY <1>4 DEF RecordChanges, PlanningInv, ProjectTyped
  <2>3. ProjectTyped'
    BY <2>1, <2>2 DEF PlanningInv, ProjectTyped
  <2>. QED
    BY <2>1, <2>3, Disturbing
<1>5. CASE StateRefreshed
  <2>1. Disturb /\ ~job.locked /\ UNCHANGED <<config, registry, others, retained, records, checkouts, working, ignored, tip, source>>
    BY <1>5 DEF StateRefreshed
  <2>2. state' \in [DOMAIN config.repos -> StateType]
    BY <1>5 DEF StateRefreshed, PlanningInv, ProjectTyped, CheckoutType, StateType
  <2>3. ProjectTyped'
    BY <2>1, <2>2 DEF PlanningInv, ProjectTyped
  <2>. QED
    BY <2>1, <2>3, Disturbing
<1>. QED
  BY <1>1, <1>2, <1>3, <1>4, <1>5

LEMMA ChangesKeepInv ==
    ASSUME PlanningInv, Change
    PROVE  PlanningInv'
BY UserCommitsKeeps, UserChangesKeeps, UserOccupiesKeeps, UserIgnoresKeeps, BaselinePublishedKeeps, OtherChangesKeep DEF Change

LEMMA InitiallyPlanned ==
    ASSUME PlanningInit
    PROVE  PlanningInv
<1>. DEFINE m == Tracked[Start0]
<1>1. IsManifest(m) /\ m.base = Root
  BY PlanningAssumption
<1>2. /\ config = [base |-> m.base, repos |-> LocalOf(m.repos)]
      /\ registry = [r \in DOMAIN m.repos |-> "own"]
      /\ state = [r \in DOMAIN m.repos |-> [branch |-> m.repos[r].branch, head |-> Start0]]
      /\ others = NoEntries /\ retained = NoEntries /\ records = {}
      /\ checkouts = [r \in Repositories |-> IF r \in DOMAIN m.repos THEN Checkout(m.repos[r], Start0) ELSE Nowhere]
      /\ working = m
      /\ ignored = [r \in Repositories |-> IF r = Root THEN "none" ELSE "committed"]
      /\ job = NoCommand /\ seen = Blank /\ report = NoReport
  BY DEF PlanningInit
<1>3. PICK c \in Tips : tip = [r \in Repositories |-> IF r = Root THEN c ELSE Start0] /\ source = Tracked[c]
  BY DEF PlanningInit
<1>. HIDE DEF m
<1>4. ProjectTyped
  <2>1. \A r \in DOMAIN m.repos : m.repos[r] \in Contract /\ r \in Repositories
    BY <1>1 DEF IsManifest
  <2>2. /\ config = [base |-> Root, repos |-> config.repos] /\ config.repos = LocalOf(config.repos)
        /\ DOMAIN config.repos = DOMAIN m.repos
    BY <1>1, <1>2 DEF LocalOf, Local
  <2>3. Start0 \in Commits /\ c \in Commits /\ IsManifest(source)
    BY <1>3, PlanningAssumption
  <2>4. state \in [DOMAIN m.repos -> StateType] /\ registry \in [DOMAIN m.repos -> {"own", "other", None}]
    BY <1>2, <2>1, <2>3 DEF StateType, Contract
  <2>5. \A r \in Repositories : /\ checkouts[r] \in CheckoutType
                                /\ IF checkouts[r].there = "checkout" THEN checkouts[r].head \in Commits
                                                                       ELSE checkouts[r].branch = None
                                /\ checkouts[r].branch \in {"main", "next"} => checkouts[r].merge = checkouts[r].branch
                                /\ r \in DOMAIN m.repos => checkouts[r].there = "checkout"
    <3>1. ASSUME NEW r \in DOMAIN m.repos
          PROVE  /\ checkouts[r] = Checkout(m.repos[r], Start0) /\ checkouts[r] \in CheckoutType
                 /\ checkouts[r].there = "checkout" /\ checkouts[r].head \in Commits
                 /\ checkouts[r].merge = checkouts[r].branch
      BY <1>2, <2>1, <2>3 DEF Checkout, CheckoutType, Contract
    <3>2. ASSUME NEW r \in Repositories, r \notin DOMAIN m.repos
          PROVE  checkouts[r] \in CheckoutType /\ checkouts[r].there = "none" /\ checkouts[r].branch = None
      BY <1>2, <3>2 DEF Nowhere, CheckoutType
    <3>3. None \notin {"main", "next"}
      BY DriftAssumption DEF Values
    <3>. QED
      BY <2>1, <3>1, <3>2, <3>3
  <2>6. checkouts \in [Repositories -> CheckoutType] /\ checkouts[Root].there = "checkout"
    BY <1>1, <1>2, <2>5 DEF IsManifest
  <2>7. tip \in [Repositories -> Commits \cup {None}] /\ ignored \in [Repositories -> {"none", "working", "committed"}]
    BY <1>2, <1>3, <2>3
  <2>8. DOMAIN m.repos \subseteq Repositories
    BY <2>1
  <2>. QED
    BY <1>1, <1>2, <2>2, <2>3, <2>4, <2>5, <2>6, <2>7, <2>8 DEF ProjectTyped, NoEntries
<1>5. /\ job = [f \in JobFields |-> job[f]] /\ job.kind = None /\ job.pc = "idle" /\ job.todo = {}
      /\ job.locked = FALSE /\ job.change = None
  BY <1>2 DEF NoCommand, JobFields
<1>6. seen = [f \in SeenFields |-> seen[f]] /\ seen.observed = NoEntries /\ seen.errors = {}
      /\ seen.others = NoEntries /\ seen.records = {}
  BY <1>2 DEF Blank, SeenFields
<1>7. None # "update" /\ None # "doctor" /\ None # "locked"
  BY DriftAssumption DEF Values
<1>8. JobTyped
  BY <1>5, <1>7 DEF JobTyped
<1>9. SeenTyped
  BY <1>5, <1>6, <1>7 DEF SeenTyped, SeenShape, SeenKnown, SeenSoFar, NoEntries, Based, Watching, Watched, Looked, Listing, Late
<1>10. ResolvedNow /\ FilesNow /\ SightsNow /\ WorkspacesNow /\ RecordsNow
  BY <1>5, <1>6 DEF ResolvedNow, FilesNow, SightsNow, WorkspacesNow, RecordsNow, Configured, Based, Watching, Watched, Looked, Listing, Late
<1>11. AfterUpdate /\ SilentReportIsTrue
  BY <1>2, <1>7 DEF AfterUpdate, SilentReportIsTrue, NoReport
<1>. QED
  BY <1>4, <1>8, <1>9, <1>10, <1>11 DEF PlanningInv

-----------------------------------------------------------------------------
(* What an accepted collection says *)

\* The current manifest declares the project's repositories, no more and no less.
LEMMA SameRepositories ==
    ASSUME PlanningInv, job.pc = "build", \A r \in DOMAIN seen.current.repos : ProjectAgrees(seen, r),
           Cardinality(DOMAIN seen.current.repos) = Cardinality(DOMAIN seen.project.repos)
    PROVE  DOMAIN seen.current.repos = DOMAIN config.repos
<1>1. DOMAIN seen.project.repos = DOMAIN config.repos
  BY DEF PlanningInv, SeenTyped, SeenKnown
<1>2. IsFiniteSet(DOMAIN config.repos)
  BY DriftAssumption, FS_Subset DEF PlanningInv, ProjectTyped
<1>3. DOMAIN seen.current.repos \in SUBSET DOMAIN config.repos
  BY <1>1 DEF ProjectAgrees
<1>. QED
  BY <1>1, <1>2, <1>3, FS_Subset

LEMMA AcceptedFacts ==
    ASSUME PlanningInv, job.pc = "build", job.kind = "update", MayUpdate(seen)
    PROVE  /\ Accepts(seen)
           /\ IsManifest(seen.current) /\ seen.current.base = Root
           /\ IsManifest(seen.candidate) /\ seen.candidate.base = Root
           /\ DOMAIN seen.current.repos = DOMAIN config.repos
           /\ Root \in Common(seen) /\ DOMAIN seen.observed = Declared(seen)
           /\ seen.current # NoManifest /\ ~seen.exact /\ seen.remote = TRUE
<1>1. Accepts(seen)
  BY Accepted DEF PlanningInv, SeenTyped, SeenShape
<1>2. /\ seen.project.base = Root /\ seen.remote = TRUE /\ ~seen.exact
      /\ IsManifest(seen.candidate) /\ IsManifest(seen.current) /\ seen.current # NoManifest
  <2>1. seen.project.base = Root /\ ~seen.exact /\ IsManifest(seen.candidate)
    BY DEF PlanningInv, SeenTyped, SeenKnown
  <2>2. seen.remote = TRUE
    BY DEF PlanningInv, SeenTyped, SeenKnown
  <2>3. IsManifest(seen.current) /\ seen.current # NoManifest
    <3>1. job.pc \in Based
      BY DEF Based, Watching, Watched, Looked, Listing, Late
    <3>. QED
      BY <3>1 DEF PlanningInv, SeenTyped, SeenKnown
  <2>. QED
    BY <2>1, <2>2, <2>3
<1>3. seen.current.base = Root /\ seen.candidate.base = Root
  BY <1>1, <1>2 DEF Accepts, AcceptsProject
<1>4. DOMAIN seen.current.repos = DOMAIN config.repos
  BY <1>1, SameRepositories DEF Accepts, AcceptsProject
<1>5. Root \in Common(seen)
  BY <1>2, <1>3 DEF IsManifest, Common
<1>6. DOMAIN seen.observed = Declared(seen)
  BY <1>2 DEF PlanningInv, SeenTyped, SeenSoFar, ToObserve, Watched, Looked, Listing, Late
<1>. QED
  BY <1>1, <1>2, <1>3, <1>4, <1>5, <1>6

\* Other workspaces and unresolved operations do not change under the lock, so
\* that these are true of them whatever else was changed.
LEMMA AcceptedRecords ==
    ASSUME PlanningInv, job.pc = "build", job.kind = "update", MayUpdate(seen), Steady \/ job.locked
    PROVE  /\ records = {} /\ \A n \in DOMAIN others : others[n].valid
           /\ DOMAIN others # {} => DOMAIN seen.candidate.repos = DOMAIN config.repos
<1>1. Accepts(seen) /\ DOMAIN seen.current.repos = DOMAIN config.repos /\ seen.current # NoManifest
  BY AcceptedFacts
<1>2. seen.others = others
  BY <1>1 DEF PlanningInv, WorkspacesNow, Looked, Listing, Late
<1>3. seen.records = {} /\ records \subseteq {"recovery", "journal"}
  BY <1>1 DEF Accepts, AcceptsProject, PlanningInv, ProjectTyped
<1>4. "recovery" \notin records /\ "journal" \notin records
  BY <1>3 DEF PlanningInv, RecordsNow, Listing, Late
<1>. QED
  BY <1>1, <1>2, <1>3, <1>4 DEF Accepts, AcceptsProject

\* A kept repository is settled, and where the plan saw it.
LEMMA AcceptedExisting ==
    ASSUME PlanningInv, job.pc = "build", job.kind = "update", MayUpdate(seen), Steady, NEW r \in Common(seen)
    PROVE  LET o == seen.observed[r] IN
           /\ Settled(r) /\ checkouts[r].there = "checkout" /\ checkouts[r].git = seen.project.git[r]
           /\ checkouts[r].clean /\ checkouts[r].branch # None
           /\ checkouts[r].upstream = seen.candidate.repos[r].source
           /\ seen.candidate.repos[r].parent # None => ignored[r] # "none"
           /\ o.head = checkouts[r].head /\ o.advertised = tip[r]
           /\ o.forward => <<checkouts[r].head, tip[r]>> \in Forward
<1>. DEFINE o == seen.observed[r]
            parent == ParentIn(seen.current, r)
<1>1. /\ Accepts(seen) /\ seen.current # NoManifest /\ DOMAIN seen.observed = Declared(seen) /\ ~seen.exact
      /\ DOMAIN seen.current.repos = DOMAIN config.repos
  BY AcceptedFacts
<1>2. r \in DOMAIN seen.observed /\ r \in DOMAIN seen.current.repos /\ r \in Repositories
  BY <1>1 DEF Declared, Common, PlanningInv, ProjectTyped
<1>3. o = Sight(r)
  BY <1>1, <1>2 DEF PlanningInv, SightsNow, Watching, Watched, Looked, Listing, Late
<1>4. AcceptsExisting(seen, r) /\ ObservationOf(seen, r) = o /\ parent = seen.current.repos[r].parent
  BY <1>1, <1>2 DEF Accepts, ObservationOf, ParentIn
<1>5. ~o.absent
  BY <1>4 DEF AcceptsExisting
<1>6. o = Observe(r, parent) /\ r \in DOMAIN seen.workspace
  <2>1. Unobserved.absent = TRUE
    BY DEF Unobserved
  <2>. QED
    BY <1>2, <1>3, <1>5, <2>1 DEF Sight
<1>7. /\ o.git = checkouts[r].git /\ o.branch = checkouts[r].branch /\ o.head = checkouts[r].head
      /\ o.upstream = checkouts[r].upstream /\ o.advertised = tip[r]
      /\ o.forward => <<checkouts[r].head, tip[r]>> \in Forward
  <2>. DEFINE w == Observe(r, parent)
  <2>1. /\ w.git = checkouts[r].git /\ w.branch = checkouts[r].branch /\ w.head = checkouts[r].head
        /\ w.upstream = checkouts[r].upstream /\ w.advertised = tip[r]
    BY DEF Observe
  <2>2. w.forward => <<checkouts[r].head, tip[r]>> \in Forward
    BY DEF Observe
  <2>. HIDE DEF w
  <2>. QED
    BY <1>6, <2>1, <2>2 DEF w
<1>8. o.clean => IsClean(r)
  <2>1. Observe(r, parent).clean => IsClean(r)
    BY <1>1 DEF Observe
  <2>. QED
    BY <1>6, <2>1
<1>9. o.ignored => Covers(r, parent)
  <2>1. Observe(r, parent).ignored => Covers(r, parent)
    BY DEF Observe
  <2>. QED
    BY <1>6, <2>1
<1>10. /\ seen.project.git[r] = checkouts[r].git /\ IsClean(r) /\ checkouts[r].branch # None
       /\ checkouts[r].upstream = seen.current.repos[r].source /\ seen.current.repos[r].source = seen.candidate.repos[r].source
       /\ seen.current.repos[r].parent = seen.candidate.repos[r].parent
       /\ seen.current.repos[r].parent # None => o.ignored
  BY <1>4, <1>7, <1>8 DEF AcceptsExisting, IdentityHolds, UpstreamHolds
<1>11. checkouts[r].there = "checkout"
  BY <1>2, <1>10 DEF PlanningInv, ProjectTyped
<1>12. seen.registry = registry /\ seen.registry = seen.project.git /\ seen.state = state /\ seen.state = seen.workspace
  BY <1>1 DEF Accepts, AcceptsProject, DefaultStateHolds, PlanningInv, FilesNow, Watching, Watched, Looked, Listing, Late, Based
<1>13. state[r] = [branch |-> checkouts[r].branch, head |-> checkouts[r].head]
  BY <1>1, <1>6, <1>7, <1>12 DEF Accepts, AcceptsProject, DefaultStateHolds
<1>14. Settled(r)
  BY <1>10, <1>11, <1>12, <1>13 DEF Settled
<1>15. seen.candidate.repos[r].parent # None => ignored[r] # "none"
  BY <1>4, <1>9, <1>10 DEF Covers
<1>. QED
  BY <1>7, <1>10, <1>11, <1>14, <1>15 DEF IsClean

\* An added repository has room, and something to clone.
LEMMA AcceptedAdded ==
    ASSUME PlanningInv, job.pc = "build", job.kind = "update", MayUpdate(seen), Steady, NEW r \in Added(seen)
    PROVE  /\ checkouts[r].there = "none" /\ r \notin DOMAIN state
           /\ seen.observed[r].advertised = tip[r]
           /\ seen.candidate.repos[r].parent # None => ignored[r] # "none"
<1>1. /\ Accepts(seen) /\ seen.current # NoManifest /\ DOMAIN seen.observed = Declared(seen)
      /\ DOMAIN seen.current.repos = DOMAIN config.repos
  BY AcceptedFacts
<1>2. r \in DOMAIN seen.observed /\ r \notin DOMAIN seen.current.repos
  BY <1>1 DEF Declared, Added
<1>3. seen.observed[r] = Target(r)
  BY <1>1, <1>2 DEF PlanningInv, SightsNow, Sight, Watching, Watched, Looked, Listing, Late
<1>4. AcceptsAdded(seen, r) /\ ObservationOf(seen, r) = Target(r)
  BY <1>1, <1>2, <1>3 DEF Accepts, ObservationOf
<1>5. /\ Target(r).absent = (checkouts[r].there = "none") /\ Target(r).advertised = tip[r]
      /\ Target(r).ignored = Covers(r, seen.candidate.repos[r].parent)
  BY DEF Target, Unobserved
<1>6. checkouts[r].there = "none" /\ (seen.candidate.repos[r].parent # None => Covers(r, seen.candidate.repos[r].parent))
  BY <1>4, <1>5 DEF AcceptsAdded
<1>7. DOMAIN state = DOMAIN config.repos
  BY DEF PlanningInv, ProjectTyped
<1>. QED
  BY <1>1, <1>2, <1>3, <1>5, <1>6, <1>7 DEF Covers

\* The heads an update leaves.
LEMMA HeadsAfter ==
    ASSUME PlanningInv, job.pc = "build", job.kind = "update", MayUpdate(seen)
    PROVE  /\ \A r \in Added(seen) : HeadAfter(r) = seen.observed[r].advertised /\ HeadAfter(r) \in Commits
           /\ \A r \in Common(seen) :
                 LET o == seen.observed[r] IN
                 /\ HeadAfter(r) \in Commits
                 /\ HeadAfter(r) = IF o.advertised # o.head THEN o.advertised ELSE o.head
                 /\ o.advertised # o.head => o.forward
<1>1. Accepts(seen) /\ DOMAIN seen.observed = Declared(seen) /\ seen.remote = TRUE
  BY AcceptedFacts
<1>2. \A r \in DOMAIN seen.observed :
         LET o == seen.observed[r] IN /\ o.advertised \in Commits \cup {None} /\ (o.branch # None => o.head \in Commits)
                                      /\ ObservationOf(seen, r) = o
  BY DEF PlanningInv, SeenTyped, SeenShape, ObservationOf
<1>3. ASSUME NEW r \in Added(seen)
      PROVE  HeadAfter(r) = seen.observed[r].advertised /\ HeadAfter(r) \in Commits
  <2>1. r \in DOMAIN seen.observed /\ r \notin Common(seen)
    BY <1>1 DEF Declared, Added, Common
  <2>2. Row(seen, r) = [class |-> "added", head |-> None, advertised |-> seen.observed[r].advertised]
    BY <1>2, <2>1 DEF Row
  <2>3. HeadAfter(r) = seen.observed[r].advertised
    BY <2>2 DEF HeadAfter
  <2>4. seen.observed[r].advertised # None
    BY <1>1, <1>2, <2>1 DEF Accepts, AcceptsAdded
  <2>. QED
    BY <1>2, <2>1, <2>3, <2>4
<1>4. ASSUME NEW r \in Common(seen)
      PROVE  LET o == seen.observed[r] IN
             /\ HeadAfter(r) \in Commits
             /\ HeadAfter(r) = IF o.advertised # o.head THEN o.advertised ELSE o.head
             /\ o.advertised # o.head => o.forward
  <2>. DEFINE o == seen.observed[r]
  <2>1. r \in DOMAIN seen.observed /\ ObservationOf(seen, r) = o /\ r \notin Added(seen)
    BY <1>1, <1>2 DEF Declared, Common, Added
  <2>2. AcceptsExisting(seen, r) /\ (Moved(seen, r) <=> o.advertised # o.head)
    BY <1>1, <2>1 DEF Accepts, Moved
  <2>3. o.branch # None /\ o.advertised # None /\ (o.advertised # o.head => o.forward)
    BY <1>1, <2>1, <2>2 DEF AcceptsExisting
  <2>4. ClassifyExisting(seen, r).class = IF o.advertised # o.head THEN "fast-forwardable" ELSE "unchanged"
    <3>1. ClassifyExisting(seen, r).class = IF Moved(seen, r) THEN "fast-forwardable" ELSE "unchanged"
      BY <2>2, ExistingAccepted
    <3>2. CASE Moved(seen, r)
      BY <2>2, <3>1, <3>2
    <3>3. CASE ~Moved(seen, r)
      BY <2>2, <3>1, <3>3
    <3>. QED
      BY <3>2, <3>3
  <2>5. Row(seen, r) = [class |-> ClassifyExisting(seen, r).class, head |-> o.head, advertised |-> o.advertised]
    BY <1>4, <2>1 DEF Row
  <2>6. HeadAfter(r) = IF o.advertised # o.head THEN o.advertised ELSE o.head
    BY <2>4, <2>5 DEF HeadAfter
  <2>. QED
    BY <1>2, <2>1, <2>3, <2>6
<1>. QED
  BY <1>3, <1>4

-----------------------------------------------------------------------------
(* Applying *)

\* An update that is applied, field by field.
LEMMA ApplyChanges ==
    ASSUME PlanningInv, Apply, ~Refused
    PROVE  /\ job.pc = "build" /\ job.locked /\ job.kind = "update" /\ MayUpdate(seen)
           /\ End("applied", {}) /\ Tracked[HeadAfter(Root)] = seen.candidate
           /\ checkouts' = [r \in Repositories |->
                            CASE r \in Added(seen) -> Checkout(seen.candidate.repos[r], HeadAfter(r))
                              [] r \in Common(seen)  -> [checkouts[r] EXCEPT !.head = HeadAfter(r)]
                              [] OTHER             -> checkouts[r]]
           /\ working' = seen.candidate
           /\ config' = [base |-> seen.candidate.base, repos |-> LocalOf(seen.candidate.repos)]
           /\ registry' = [r \in DOMAIN seen.candidate.repos |->
                                IF r \in Added(seen) THEN "own" ELSE seen.project.git[r]]
           /\ state' = StateAfter /\ retained' = Retained(seen)
           /\ UNCHANGED <<others, records, ignored, tip, source>>
BY DEF Apply, Agrees, PlanningInv, JobTyped

\* Where each checkout is then.
LEMMA CheckoutsAfter ==
    ASSUME PlanningInv, Apply, ~Refused, NEW r \in Repositories
    PROVE  /\ r \in Added(seen) => checkouts'[r] = Checkout(seen.candidate.repos[r], HeadAfter(r))
           /\ r \in Common(seen) => checkouts'[r] = [checkouts[r] EXCEPT !.head = HeadAfter(r)]
           /\ r \notin DOMAIN seen.candidate.repos => checkouts'[r] = checkouts[r]
<1>1. checkouts'[r] = CASE r \in Added(seen) -> Checkout(seen.candidate.repos[r], HeadAfter(r))
                        [] r \in Common(seen)  -> [checkouts[r] EXCEPT !.head = HeadAfter(r)]
                        [] OTHER             -> checkouts[r]
  BY ApplyChanges
<1>2. r \in Added(seen) => r \notin Common(seen)
  BY DEF Added, Common
<1>3. r \notin DOMAIN seen.candidate.repos => r \notin Common(seen) /\ r \notin Added(seen)
  BY DEF Added, Common
<1>. QED
  BY <1>1, <1>2, <1>3

LEMMA AppliedTyped ==
    ASSUME PlanningInv, Apply, ~Refused
    PROVE  ProjectTyped'
<1>. DEFINE new == seen.candidate.repos
<1>1. /\ job.pc = "build" /\ job.locked /\ job.kind = "update" /\ MayUpdate(seen)
  BY ApplyChanges
<1>2. /\ IsManifest(seen.candidate) /\ seen.candidate.base = Root /\ Root \in Common(seen)
      /\ DOMAIN seen.current.repos = DOMAIN config.repos
  BY <1>1, AcceptedFacts
<1>3. /\ DOMAIN new \subseteq Repositories /\ \A r \in DOMAIN new : new[r] \in Contract
      /\ \A r \in DOMAIN new : r \in Added(seen) \/ r \in Common(seen)
  BY <1>2 DEF IsManifest, Added, Common
<1>4. \A r \in DOMAIN new : HeadAfter(r) \in Commits
  BY <1>1, <1>3, HeadsAfter
<1>5. /\ config' = [base |-> Root, repos |-> config'.repos] /\ config'.repos = LocalOf(config'.repos)
      /\ DOMAIN config'.repos = DOMAIN new
  <2>1. config' = [base |-> Root, repos |-> LocalOf(new)]
    BY <1>2, ApplyChanges
  <2>. QED
    BY <2>1 DEF LocalOf, Local
<1>6. registry' \in [DOMAIN new -> {"own", "other", None}]
  <2>1. seen.project.git \in [DOMAIN config.repos -> {"own", "other", None}]
    BY <1>1 DEF PlanningInv, SeenTyped, SeenKnown
  <2>2. \A r \in DOMAIN new : r \notin Added(seen) => r \in DOMAIN config.repos
    BY <1>2 DEF Added
  <2>. QED
    BY <2>1, <2>2, ApplyChanges
<1>7. state' \in [DOMAIN new -> StateType]
  <2>1. \A r \in DOMAIN new : new[r].branch \in {"main", "next"}
    BY <1>3 DEF Contract
  <2>. QED
    BY <1>4, <2>1, ApplyChanges DEF StateAfter, StateType
<1>8. others' = [n \in DOMAIN others' |-> others'[n]] /\ \A n \in DOMAIN others' : others'[n].repos = DOMAIN new
  <2>1. DOMAIN others # {} => DOMAIN new = DOMAIN config.repos
    BY <1>1, AcceptedRecords
  <2>. QED
    BY <2>1, ApplyChanges DEF PlanningInv, ProjectTyped
<1>9. retained' = [r \in DOMAIN retained' |-> retained'[r]]
  BY ApplyChanges DEF Retained
<1>10. CheckoutsTyped'
  <2>1. ASSUME NEW r \in Repositories
        PROVE  /\ checkouts'[r] \in CheckoutType
               /\ IF checkouts'[r].there = "checkout" THEN checkouts'[r].head \in Commits ELSE checkouts'[r].branch = None
               /\ checkouts'[r].branch \in {"main", "next"} => checkouts'[r].merge = checkouts'[r].branch
               /\ r \in Common(seen) => checkouts'[r].there = checkouts[r].there
    <3>0. /\ checkouts[r] \in CheckoutType
          /\ IF checkouts[r].there = "checkout" THEN checkouts[r].head \in Commits ELSE checkouts[r].branch = None
          /\ checkouts[r].branch \in {"main", "next"} => checkouts[r].merge = checkouts[r].branch
      BY DEF PlanningInv, ProjectTyped
    <3>1. CASE r \in Added(seen)
      <4>1. checkouts'[r] = Checkout(new[r], HeadAfter(r)) /\ HeadAfter(r) \in Commits /\ new[r] \in Contract
        BY <1>3, <1>4, <3>1, CheckoutsAfter DEF Added
      <4>2. r \notin Common(seen)
        BY <3>1 DEF Added, Common
      <4>. QED
        BY <4>1, <4>2 DEF Checkout, CheckoutType, Contract
    <3>2. CASE r \in Common(seen)
      <4>1. checkouts'[r] = [checkouts[r] EXCEPT !.head = HeadAfter(r)] /\ HeadAfter(r) \in Commits
        BY <1>4, <3>2, CheckoutsAfter DEF Common
      <4>. QED
        BY <3>0, <4>1 DEF CheckoutType
    <3>3. CASE r \notin DOMAIN new
      <4>1. checkouts'[r] = checkouts[r]
        BY <3>3, CheckoutsAfter
      <4>. QED
        BY <3>0, <4>1
    <3>. QED
      BY <1>3, <3>1, <3>2, <3>3
  <2>2. checkouts' \in [Repositories -> CheckoutType]
    <3>1. checkouts' = [r \in Repositories |-> checkouts'[r]]
      BY ApplyChanges
    <3>. QED
      BY <2>1, <3>1
  <2>3. checkouts'[Root].there = "checkout"
    <3>1. Root \in Repositories /\ checkouts[Root].there = "checkout"
      BY DriftAssumption DEF PlanningInv, ProjectTyped
    <3>. QED
      BY <1>2, <2>1, <3>1
  <2>. QED
    BY <2>1, <2>2, <2>3 DEF CheckoutsTyped
<1>11. IsManifest(working')
  BY <1>2, ApplyChanges
<1>12. UNCHANGED <<records, source, ignored, tip>>
  BY ApplyChanges
<1>. HIDE DEF new
<1>. QED
  BY <1>3, <1>5, <1>6, <1>7, <1>8, <1>9, <1>10, <1>11, <1>12 DEF PlanningInv, ProjectTyped, CheckoutsTyped

\* An update nobody disturbed leaves what its manifest says.
LEMMA AppliedLeaves ==
    ASSUME PlanningInv, Apply, ~Refused, job.change = None
    PROVE  AsApplied'
<1>1. job.pc = "build" /\ job.locked /\ job.kind = "update" /\ MayUpdate(seen) /\ Steady
  BY ApplyChanges DEF Steady
<1>2. /\ IsManifest(seen.candidate) /\ seen.candidate.base = Root /\ Root \in Common(seen)
  BY <1>1, AcceptedFacts
<1>3. seen.candidate = source /\ source' = source
  BY <1>1, ApplyChanges DEF PlanningInv, ResolvedNow
<1>. DEFINE new == source.repos
<1>4. /\ DOMAIN new \subseteq Repositories /\ \A r \in DOMAIN new : new[r] \in Contract
      /\ \A r \in DOMAIN new : r \in Added(seen) \/ r \in Common(seen)
  BY <1>2, <1>3 DEF IsManifest, Added, Common
<1>5. records' = {} /\ \A n \in DOMAIN others' : others'[n].valid
  BY <1>1, AcceptedRecords, ApplyChanges
<1>6. working' = source' /\ Tracked[checkouts'[Root].head] = source' /\ source'.base = Root
  <2>1. checkouts'[Root].head = HeadAfter(Root)
    <3>1. Root \in Repositories /\ checkouts[Root] \in CheckoutType
      BY DriftAssumption DEF PlanningInv, ProjectTyped
    <3>2. checkouts'[Root] = [checkouts[Root] EXCEPT !.head = HeadAfter(Root)]
      BY <1>2, <3>1, CheckoutsAfter
    <3>. QED
      BY <3>1, <3>2 DEF CheckoutType
  <2>. QED
    BY <1>2, <1>3, <2>1, ApplyChanges
<1>7. config'.repos = LocalOf(new)
  BY <1>3, ApplyChanges
<1>8. ASSUME NEW r \in DOMAIN new
      PROVE  /\ checkouts'[r].there = "checkout" /\ checkouts'[r].git = registry'[r] /\ checkouts'[r].clean
             /\ checkouts'[r].branch # None
             /\ state'[r] = [branch |-> new[r].branch, head |-> checkouts'[r].head]
             /\ checkouts'[r].upstream = new[r].source
             /\ new[r].parent # None => ignored'[r] # "none"
             /\ tip'[r] = checkouts'[r].head
  <2>0. r \in Repositories /\ checkouts[r] \in CheckoutType /\ new[r] \in Contract /\ r \in DOMAIN seen.candidate.repos
    BY <1>3, <1>4 DEF PlanningInv, ProjectTyped
  <2>1. /\ registry'[r] = IF r \in Added(seen) THEN "own" ELSE seen.project.git[r]
        /\ state'[r] = [branch |-> new[r].branch, head |-> HeadAfter(r)]
        /\ ignored' = ignored /\ tip' = tip
    BY <1>3, <2>0, ApplyChanges DEF StateAfter
  <2>2. CASE r \in Added(seen)
    <3>1. checkouts'[r] = Checkout(new[r], HeadAfter(r))
      BY <1>3, <2>0, <2>2, CheckoutsAfter
    <3>2. HeadAfter(r) = tip[r] /\ (new[r].parent # None => ignored[r] # "none")
      BY <1>1, <1>3, <2>2, AcceptedAdded, HeadsAfter
    <3>3. new[r].branch # None
      BY <2>0, DriftAssumption DEF Contract, Values
    <3>. QED
      BY <2>1, <2>2, <3>1, <3>2, <3>3 DEF Checkout
  <2>3. CASE r \in Common(seen)
    <3>1. checkouts'[r] = [checkouts[r] EXCEPT !.head = HeadAfter(r)]
      BY <2>0, <2>3, CheckoutsAfter
    <3>2. HeadAfter(r) = tip[r]
      BY <1>1, <2>3, AcceptedExisting, HeadsAfter, ZenonT(40)
    <3>3. /\ checkouts[r].there = "checkout" /\ checkouts[r].git = seen.project.git[r]
          /\ checkouts[r].clean /\ checkouts[r].branch # None
          /\ checkouts[r].upstream = new[r].source /\ (new[r].parent # None => ignored[r] # "none")
      BY <1>1, <1>3, <2>3, AcceptedExisting
    <3>4. r \notin Added(seen)
      BY <2>3 DEF Common, Added
    <3>. QED
      BY <2>0, <2>1, <3>1, <3>2, <3>3, <3>4 DEF CheckoutType
  <2>. QED
    BY <1>4, <2>2, <2>3
<1>. QED
  BY <1>3, <1>5, <1>6, <1>7, <1>8 DEF AsApplied

LEMMA Applies ==
    ASSUME PlanningInv, Apply
    PROVE  PlanningInv'
<1>1. CASE Refused
  BY <1>1, Refusing
<1>2. CASE ~Refused
  <2>1. End("applied", {}) /\ job.kind = "update"
    BY <1>2, ApplyChanges
  <2>2. ProjectTyped'
    BY <1>2, AppliedTyped
  <2>3. job.change = None => AsApplied'
    BY <1>2, AppliedLeaves
  <2>4. SilentReportIsTrue'
    BY <2>1 DEF End, SilentReportIsTrue
  <2>. QED
    BY <2>1, <2>2, <2>3, <2>4, Ending DEF PlanningInv
<1>. QED
  BY <1>1, <1>2

-----------------------------------------------------------------------------
(* Reporting *)

\* What wtree doctor makes a finding of.
Found == {"checkout", "identity", "branch", "parent-ignore", "upstream", "configuration-contract",
          "current-manifest-configuration", "tracked-manifest", "current-manifest-repository-set",
          "current-manifest-base", "local-config", "registry-generation"}

LEMMA FoundIsFinding ==
    ASSUME NEW f, f[2] \in Found
    PROVE  FindingCode(f) # None
<1>1. FindingCode(f) \in Codes
  BY DEF Found, FindingCode, Codes
<1>. QED
  BY <1>1, DriftAssumption

\* The first refusal is a finding if one of the list is, and all before it are.
LEMMA FirstIsFound ==
    ASSUME NEW n \in Nat, NEW refusals, Len(refusals) = n, NEW otherwise, NEW i \in 1..n, refusals[i].when,
           \A j \in 1..i : refusals[j].when => refusals[j].check \in Found
    PROVE  First(refusals, otherwise).check \in Found
<1>1. PICK k \in 1..n : /\ First(refusals, otherwise) = refusals[k] /\ refusals[k].when
                        /\ \A j \in 1..n : j < k => ~refusals[j].when
  BY FirstFinds
<1>2. ~(i < k)
  BY <1>1
<1>3. k \in 1..i
  BY <1>2
<1>. QED
  BY <1>1, <1>3

\* A repository whose refusals are none that doctor is silent about, and that
\* is no finding, has what a finding would be about.
LEMMA NothingFound ==
    ASSUME NEW s, NEW r, s.candidate = s.current, ClassifyExisting(s, r).check \notin Found,
           LET o == ObservationOf(s, r)
               cur == s.current.repos[r]
           IN o.clean /\ (cur.companion => CompanionIsBound(s, r))
    PROVE  LET o == ObservationOf(s, r)
               cur == s.current.repos[r]
           IN /\ o.branch = ExpectedBranch(s, r) /\ UpstreamHolds(s, r)
              /\ cur.parent # None => o.ignored
<1>. DEFINE o == ObservationOf(s, r)
            cur == s.current.repos[r]
            cand == s.candidate.repos[r]
            refusals == <<
            Refuse(cur.mount # cand.mount, "mount-change-blocked", "mount-change"),
            Refuse(\/ cur.parent # cand.parent \/ cur.branch # cand.branch \/ cur.source # cand.source,
                   "structurally-inconsistent", "repository-contract"),
            Refuse(~ProjectAgrees(s, r), "structurally-inconsistent", "configuration-contract"),
            Refuse(o.absent, "missing", "checkout"),
            Refuse(~IdentityHolds(s, r), "structurally-inconsistent", "identity"),
            Refuse(~o.clean, "dirty", "cleanliness"),
            Refuse(cur.companion /\ ~CompanionIsBound(s, r), "structurally-inconsistent", "checkout-authority"),
            Refuse(o.branch = None \/ o.branch # ExpectedBranch(s, r), "divergent", "branch"),
            Refuse(~UpstreamHolds(s, r), "structurally-inconsistent", "upstream"),
            Refuse(r = Root /\ ~o.exact, "structurally-inconsistent", "tracked-manifest"),
            Refuse(cur.parent # None /\ ~o.ignored, "structurally-inconsistent", "parent-ignore"),
            Refuse(s.remote /\ o.advertised = None, "structurally-inconsistent", "advertised-ref"),
            Refuse(Moved(s, r) /\ ~o.forward, "divergent", "ancestry")>>
            otherwise == Refuse(FALSE, IF Moved(s, r) THEN "fast-forwardable" ELSE "unchanged", None)
<1>1. ClassifyExisting(s, r) = First(refusals, otherwise)
  BY DEF ClassifyExisting
<1>2. Len(refusals) = 13
  OBVIOUS
<1>3. /\ ~refusals[1].when /\ ~refusals[2].when
  BY DEF Refuse
<1>4. ~refusals[6].when /\ ~refusals[7].when
  BY DEF Refuse
<1>5. /\ refusals[3].check \in Found /\ refusals[4].check \in Found /\ refusals[5].check \in Found
      /\ refusals[8].check \in Found /\ refusals[9].check \in Found /\ refusals[10].check \in Found
      /\ refusals[11].check \in Found
  BY DEF Refuse, Found
<1>6. /\ refusals[8].when <=> o.branch = None \/ o.branch # ExpectedBranch(s, r)
      /\ refusals[9].when <=> ~UpstreamHolds(s, r)
      /\ refusals[11].when <=> cur.parent # None /\ ~o.ignored
  BY DEF Refuse
<1>. HIDE DEF refusals, otherwise
<1>7. \A j \in 1..11 : refusals[j].when => refusals[j].check \in Found
  <2>1. \A j \in 1..11 : j = 1 \/ j = 2 \/ j = 3 \/ j = 4 \/ j = 5 \/ j = 6 \/ j = 7 \/ j = 8 \/ j = 9 \/ j = 10 \/ j = 11
    OBVIOUS
  <2>. QED
    BY <1>3, <1>4, <1>5, <2>1
<1>8. \A i \in 1..11 : ~refusals[i].when
  <2>1. ASSUME NEW i \in 1..11, refusals[i].when PROVE FALSE
    <3>1. i \in 1..13 /\ \A j \in 1..i : refusals[j].when => refusals[j].check \in Found
      BY <1>7
    <3>2. First(refusals, otherwise).check \in Found
      BY <1>2, <2>1, <3>1, FirstIsFound
    <3>. QED
      BY <1>1, <3>2
  <2>. QED
    BY <2>1
<1>9. ~refusals[8].when /\ ~refusals[9].when /\ ~refusals[11].when
  BY <1>8
<1>. QED
  BY <1>6, <1>9

LEMMA SilenceIsTrue ==
    ASSUME PlanningInv, Report, job.change = None, report'.outcome = "report", report'.findings = {},
           \A r \in Repositories \ {Root} : checkouts[r].clean
    PROVE  /\ records = {} /\ retained = NoEntries
           /\ DOMAIN state = DOMAIN config.repos
           /\ IsClean(Root) =>
              /\ config = [base |-> Root, repos |-> LocalOf(Tracked[checkouts[Root].head].repos)]
              /\ \A r \in DOMAIN config.repos :
                /\ checkouts[r].there = "checkout" /\ checkouts[r].git = registry[r]
                /\ config.repos[r].parent # None /\ ~Unbound(r) => ignored[r] = "committed"
                /\ ~config.repos[r].companion => /\ checkouts[r].branch = config.repos[r].branch
                                                 /\ checkouts[r].upstream = working.repos[r].source
<1>1. job.pc = "build" /\ job.kind = "doctor" /\ Steady
  BY DEF Report, Steady
<1>2. seen.current # NoManifest /\ seen.errors = {} /\ DriftFindings(seen) = {}
  <2>1. CASE seen.current = NoManifest
    <3>1. report'.findings = FallbackFindings(seen)
      BY <1>1, <2>1 DEF Report, End
    <3>. QED
      BY <3>1 DEF FallbackFindings
  <2>2. CASE seen.current # NoManifest /\ seen.errors # {}
    BY <1>1, <2>2 DEF Report, End
  <2>3. CASE seen.current # NoManifest /\ seen.errors = {}
    BY <1>1, <2>3 DEF Report, End
  <2>. QED
    BY <2>1, <2>2, <2>3
<1>3. records = {}
  <2>1. OperationFindings(seen.records) = {}
    BY <1>2 DEF DriftFindings
  <2>2. seen.records = {}
    BY <2>1 DEF OperationFindings
  <2>3. "recovery" \notin records /\ "journal" \notin records
    BY <1>1, <2>2 DEF PlanningInv, RecordsNow, Listing, Late
  <2>. QED
    BY <2>3 DEF PlanningInv, ProjectTyped
<1>4. retained = NoEntries
  <2>1. {"retained-unmanaged-repository" : r \in DOMAIN seen.retained} = {}
    BY <1>2 DEF DriftFindings
  <2>2. DOMAIN seen.retained = {}
    BY <2>1
  <2>3. seen.retained = retained
    BY <1>1 DEF PlanningInv, RecordsNow, Listing, Late
  <2>. QED
    BY <2>2, <2>3 DEF PlanningInv, ProjectTyped, NoEntries
<1>5. DOMAIN state = DOMAIN config.repos
  BY DEF PlanningInv, ProjectTyped
<1>6. ASSUME IsClean(Root)
      PROVE  /\ config = [base |-> Root, repos |-> LocalOf(Tracked[checkouts[Root].head].repos)]
             /\ \A r \in DOMAIN config.repos :
                /\ checkouts[r].there = "checkout" /\ checkouts[r].git = registry[r]
                /\ config.repos[r].parent # None /\ ~Unbound(r) => ignored[r] = "committed"
                /\ ~config.repos[r].companion => /\ checkouts[r].branch = config.repos[r].branch
                                                 /\ checkouts[r].upstream = working.repos[r].source
  <2>1. /\ seen.current = Tracked[checkouts[Root].head] /\ ~seen.exact /\ working = seen.current
        /\ seen.config = config /\ seen.registry = registry /\ seen.state = state
    <3>1. working = Tracked[checkouts[Root].head]
      BY <1>6 DEF IsClean
    <3>2. job.pc \in Based /\ job.pc \in Watching /\ job.pc \in Looked /\ job.pc \in Configured
      BY <1>1 DEF Configured, Based, Watching, Watched, Looked, Listing, Late
    <3>3. seen.current = Tracked[checkouts[Root].head] /\ ~seen.exact
      BY <1>1, <3>1, <3>2 DEF PlanningInv, FilesNow
    <3>4. seen.config = config /\ seen.registry = registry /\ seen.state = state
      BY <1>1, <1>2, <3>2 DEF PlanningInv, FilesNow
    <3>. QED
      BY <3>1, <3>3, <3>4
  <2>2. /\ seen.project = [base |-> config.base, repos |-> config.repos,
                           git |-> [r \in DOMAIN config.repos |-> checkouts[r].git]]
        /\ seen.workspace = state /\ SourcesResolve
    BY <1>1 DEF PlanningInv, ResolvedNow
  <2>3. /\ seen.candidate = seen.current /\ IsManifest(seen.current)
        /\ DOMAIN seen.observed = DOMAIN config.repos
    BY <1>1, <1>2, <2>2 DEF PlanningInv, SeenTyped, SeenKnown, SeenSoFar, ToObserve, Based, Watching, Watched, Looked, Listing, Late
  <2>4. ASSUME NEW f \in ProjectFailures(seen) \cup RepositoryFailures(seen) \cup ManifestConfigurationFailures(seen)
        PROVE  f[2] \notin Found
    <3>1. SUFFICES ASSUME f[2] \in Found PROVE FALSE
      OBVIOUS
    <3>2. f[2] # None
      BY <3>1, DriftAssumption DEF Found, Checks
    <3>3. f \in Failures(seen)
      BY <1>2, <3>2 DEF Failures
    <3>4. FindingCode(f) # None
      BY <3>1, FoundIsFinding
    <3>5. FindingCode(f) \in {FindingCode(g) : g \in Failures(seen)} \ {None}
      BY <3>3, <3>4
    <3>. QED
      BY <1>2, <3>5 DEF DriftFindings
  <2>5. /\ RegistryChecks(seen) = {} /\ "current-manifest-repository-set" \notin ManifestChecks(seen)
    <3>. DEFINE found == LocalConfigChecks(seen) \cup RegistryChecks(seen) \cup ManifestChecks(seen)
                           \cup WorkspaceChecks(seen) \cup OperationChecks(seen) \cup SetChangeChecks(seen)
                           \cup (IF DefaultStateHolds(seen) THEN {} ELSE {"default-state"})
    <3>1. \A c \in found : <<"project", c>> \in ProjectFailures(seen) /\ <<"project", c>>[2] = c
      BY DEF ProjectFailures
    <3>2. \A c \in found : c \notin Found
      BY <2>4, <3>1
    <3>3. RegistryChecks(seen) \subseteq {"registry-generation"}
      BY DEF RegistryChecks
    <3>. QED
      BY <3>2, <3>3 DEF Found
  <2>6. seen.registry = seen.project.git
    BY <2>5 DEF RegistryChecks
  <2>7. Cardinality(DOMAIN seen.current.repos) = Cardinality(DOMAIN seen.project.repos)
    BY <2>5 DEF ManifestChecks
  <2>8. \A r \in DOMAIN seen.current.repos : ProjectAgrees(seen, r)
    <3>1. SUFFICES ASSUME NEW r \in DOMAIN seen.current.repos, ~ProjectAgrees(seen, r) PROVE FALSE
      OBVIOUS
    <3>2. <<r, "current-manifest-configuration">> \in ManifestConfigurationFailures(seen)
      BY <3>1 DEF ManifestConfigurationFailures
    <3>3. <<r, "current-manifest-configuration">>[2] \in Found
      BY DEF Found
    <3>. QED
      BY <2>4, <3>2, <3>3
  <2>9. DOMAIN seen.current.repos = DOMAIN config.repos
    BY <1>1, <2>7, <2>8, SameRepositories
  <2>10. config = [base |-> Root, repos |-> LocalOf(seen.current.repos)]
    <3>1. config = [base |-> Root, repos |-> config.repos] /\ config.repos = LocalOf(config.repos)
      BY DEF PlanningInv, ProjectTyped
    <3>2. \A r \in DOMAIN config.repos : config.repos[r] = Local(seen.current.repos[r])
      BY <2>2, <2>8, <2>9 DEF ProjectAgrees
    <3>3. config.repos = LocalOf(seen.current.repos)
      <4>1. LocalOf(seen.current.repos) = [r \in DOMAIN config.repos |-> Local(seen.current.repos[r])]
        BY <2>9 DEF LocalOf
      <4>2. config.repos = [r \in DOMAIN config.repos |-> config.repos[r]]
        BY <3>1 DEF LocalOf
      <4>. QED
        BY <3>2, <4>1, <4>2
    <3>. QED
      BY <3>1, <3>3
  <2>11. ASSUME NEW r \in DOMAIN config.repos
         PROVE  /\ checkouts[r].there = "checkout" /\ checkouts[r].git = registry[r]
                /\ config.repos[r].parent # None /\ ~Unbound(r) => ignored[r] = "committed"
                /\ ~config.repos[r].companion => /\ checkouts[r].branch = config.repos[r].branch
                                                 /\ checkouts[r].upstream = working.repos[r].source
    <3>. DEFINE o == seen.observed[r]
                cur == seen.current.repos[r]
    <3>1. checkouts[r].there = "checkout" /\ checkouts[r].git = registry[r] /\ r \in Repositories
      BY <2>1, <2>2, <2>6 DEF SourcesResolve, PlanningInv, ProjectTyped
    <3>2. /\ config.repos[r].parent = cur.parent /\ config.repos[r].companion = cur.companion
          /\ config.repos[r].branch = cur.branch /\ working.repos[r].source = cur.source
          /\ ParentIn(seen.current, r) = cur.parent
      <4>1. config.repos[r] = Local(cur)
        BY <2>9, <2>10 DEF LocalOf
      <4>2. working.repos[r].source = cur.source /\ ParentIn(seen.current, r) = cur.parent
        BY <2>1, <2>9 DEF ParentIn
      <4>. QED
        BY <4>1, <4>2 DEF Local
    <3>3. o = Observe(r, cur.parent) /\ ObservationOf(seen, r) = o
      <4>1. o = Sight(r)
        BY <1>1, <1>2, <2>3 DEF PlanningInv, SightsNow, Watching, Watched, Looked, Listing, Late
      <4>2. r \in DOMAIN seen.workspace /\ r \in DOMAIN seen.current.repos
        BY <1>5, <2>2, <2>9
      <4>. QED
        BY <1>1, <2>3, <3>1, <3>2, <4>1, <4>2 DEF Sight, ObservationOf
    <3>4. o.branch = checkouts[r].branch /\ o.head = checkouts[r].head /\ o.upstream = checkouts[r].upstream
      <4>1. LET w == Observe(r, cur.parent) IN
            w.branch = checkouts[r].branch /\ w.head = checkouts[r].head /\ w.upstream = checkouts[r].upstream
        BY DEF Observe
      <4>. QED
        BY <3>3, <4>1
    <3>5. o.clean
      <4>1. IsClean(r)
        BY <1>6, <3>1 DEF IsClean
      <4>2. IsClean(r) => Observe(r, cur.parent).clean
        BY DEF Observe
      <4>. QED
        BY <3>3, <4>1, <4>2
    <3>6. o.ignored => Covers(r, cur.parent)
      <4>1. Observe(r, cur.parent).ignored => Covers(r, cur.parent)
        BY DEF Observe
      <4>. QED
        BY <3>3, <4>1
    <3>7. ClassifyExisting(seen, r).check \notin Found
      <4>1. r \in Common(seen)
        BY <2>3, <2>9 DEF Common
      <4>2. <<r, ClassifyExisting(seen, r).check>> \in RepositoryFailures(seen)
        BY <4>1 DEF RepositoryFailures
      <4>3. <<r, ClassifyExisting(seen, r).check>>[2] = ClassifyExisting(seen, r).check
        OBVIOUS
      <4>. QED
        BY <2>4, <4>2, <4>3
    <3>. HIDE DEF o
    <3>8. ASSUME cur.companion => CompanionIsBound(seen, r)
          PROVE  /\ o.branch = ExpectedBranch(seen, r) /\ UpstreamHolds(seen, r)
                 /\ cur.parent # None => o.ignored
      BY <2>3, <3>3, <3>5, <3>7, <3>8, NothingFound
    <3>9. ASSUME config.repos[r].parent # None, ~Unbound(r) PROVE ignored[r] = "committed"
      <4>1. cur.companion => CompanionIsBound(seen, r)
        BY <1>5, <2>2, <3>2, <3>3, <3>4, <3>9 DEF Unbound, CompanionIsBound
      <4>. QED
        BY <1>1, <3>2, <3>6, <3>8, <3>9, <4>1, DriftAssumption DEF Covers, Values
    <3>10. ASSUME ~config.repos[r].companion
           PROVE  checkouts[r].branch = config.repos[r].branch /\ checkouts[r].upstream = working.repos[r].source
      <4>1. o.branch = ExpectedBranch(seen, r) /\ UpstreamHolds(seen, r)
        BY <3>2, <3>8, <3>10
      <4>. QED
        BY <3>2, <3>3, <3>4, <3>10, <4>1 DEF ExpectedBranch, UpstreamHolds
    <3>. QED
      BY <3>1, <3>9, <3>10
  <2>. QED
    BY <2>1, <2>10, <2>11
<1>. QED
  BY <1>3, <1>4, <1>5, <1>6

LEMMA Reports ==
    ASSUME PlanningInv, Report
    PROVE  PlanningInv'
<1>1. /\ UNCHANGED outside /\ job.kind = "doctor" /\ (report'.quiet => job.change = None)
      /\ \E outcome \in {"report", "refused"} : \E findings : End(outcome, findings)
  <2>1. UNCHANGED outside /\ job.kind = "doctor"
    BY DEF Report
  <2>2. \E outcome \in {"report", "refused"} : \E findings : End(outcome, findings)
    <3>1. CASE seen.current = NoManifest
      BY <3>1 DEF Report
    <3>2. CASE seen.current # NoManifest /\ seen.errors # {}
      BY <3>2 DEF Report
    <3>3. CASE seen.current # NoManifest /\ seen.errors = {}
      BY <3>3 DEF Report
    <3>. QED
      BY <3>1, <3>2, <3>3
  <2>3. report'.quiet <=> job.change = None
    <3>1. PICK outcome, findings : End(outcome, findings)
      BY <2>2
    <3>. QED
      BY <3>1 DEF End
  <2>. QED
    BY <2>1, <2>2, <2>3
<1>2. PICK outcome, findings : outcome \in {"report", "refused"} /\ End(outcome, findings)
  BY <1>1
<1>3. ProjectTyped'
  BY <1>1, SameProject DEF PlanningInv
<1>4. SilentReportIsTrue'
  <2>1. SUFFICES ASSUME report'.outcome = "report", report'.quiet, report'.findings = {},
                        \A r \in Repositories \ {Root} : checkouts'[r].clean
                 PROVE  /\ records = {} /\ retained = NoEntries
                        /\ DOMAIN state = DOMAIN config.repos
                        /\ IsClean(Root) =>
                           /\ config = [base |-> Root, repos |-> LocalOf(Tracked[checkouts[Root].head].repos)]
                           /\ \A r \in DOMAIN config.repos :
                             /\ checkouts[r].there = "checkout" /\ checkouts[r].git = registry[r]
                             /\ config.repos[r].parent # None /\ ~Unbound(r) => ignored[r] = "committed"
                             /\ ~config.repos[r].companion => /\ checkouts[r].branch = config.repos[r].branch
                                                              /\ checkouts[r].upstream = working.repos[r].source
    BY <1>1 DEF SilentReportIsTrue, outside, IsClean, Unbound
  <2>2. job.change = None /\ \A r \in Repositories \ {Root} : checkouts[r].clean
    BY <1>1, <2>1 DEF outside
  <2>. QED
    BY <2>1, <2>2, SilenceIsTrue
<1>. QED
  BY <1>1, <1>2, <1>3, <1>4, Ending DEF PlanningInv

-----------------------------------------------------------------------------
(* The invariant *)

LEMMA Collects ==
    ASSUME PlanningInv, Collect
    PROVE  PlanningInv'
<1>1. CASE \E kind \in {"update", "doctor"} : StartCommand(kind)
  BY <1>1, Resolves
<1>2. CASE ReadConfig \/ LoadCandidate \/ ReadBase \/ ReadRegistry \/ ReadDefaultState
  BY <1>2, ReadsConfig, LoadsCandidate, ReadsBase, ReadsRegistry, ReadsDefaultState
<1>3. CASE \E r \in Repositories : ObserveExisting(r) \/ ObserveAdded(r)
  BY <1>3, ObservesExisting, ObservesAdded
<1>4. CASE Observed \/ ListWorkspaces \/ LookWorkspace \/ LookDefaultState \/ RelistWorkspaces
  BY <1>4, Observes, ListsWorkspaces, LooksAtWorkspace, LooksAtDefaultState, RelistsWorkspaces
<1>5. CASE ReadRetained \/ ListRecovery \/ RelistRecovery \/ ListUpdates \/ RelistUpdates
  BY <1>5, ReadsRetained, ListsRecovery, RelistsRecovery, ListsUpdates, RelistsUpdates
<1>. QED
  BY <1>1, <1>2, <1>3, <1>4, <1>5 DEF Collect

LEMMA Decides ==
    ASSUME PlanningInv, Decide
    PROVE  PlanningInv'
<1>1. RefusePlan => Refused
  BY DEF RefusePlan
<1>2. Disagree => Refused
  BY DEF Disagree
<1>. QED
  BY <1>1, <1>2, Plans, EndsDry, Refusing, Locks, Applies, Reports DEF Decide

LEMMA Idles ==
    ASSUME PlanningInv, UNCHANGED planningVars
    PROVE  PlanningInv'
<1>. USE DEF planningVars, outside
<1>1. ProjectTyped'
  BY DEF PlanningInv, ProjectTyped
<1>2. JobTyped'
  BY DEF PlanningInv, JobTyped
<1>6. SeenShape' /\ SeenKnown'
  BY DEF PlanningInv, SeenTyped, SeenShape, SeenKnown
<1>7. SeenSoFar'
  BY SameToObserve DEF PlanningInv, SeenTyped, SeenSoFar
<1>8. ResolvedNow' /\ FilesNow'
  BY DEF PlanningInv, ResolvedNow, SourcesResolve, FilesNow, Steady
<1>3. SightsNow'
  BY SightsStay DEF PlanningInv, Steady
<1>4. WorkspacesNow' /\ RecordsNow'
  BY DEF PlanningInv, WorkspacesNow, RecordsNow, Steady
<1>5. AfterUpdate' /\ SilentReportIsTrue'
  BY DEF PlanningInv, AfterUpdate, AsApplied, SilentReportIsTrue, IsClean, Unbound
<1>. QED
  BY <1>1, <1>2, <1>3, <1>4, <1>5, <1>6, <1>7, <1>8 DEF PlanningInv, SeenTyped

\* What a running command has captured is what is there, as long as nobody
\* changes anything.
THEOREM PlanningInvariant == PlanningSpec => []PlanningInv
<1>1. PlanningInit => PlanningInv
  BY InitiallyPlanned
<1>2. PlanningInv /\ [PlanningNext]_planningVars => PlanningInv'
  BY Collects, Decides, ChangesKeepInv, Idles DEF PlanningNext
<1>. QED
  BY <1>1, <1>2, PTL DEF PlanningSpec

\* What doctor passes over in silence is as it should be.
THEOREM SilentReportIsTrueHolds == PlanningSpec => []SilentReportIsTrue
<1>1. PlanningInv => SilentReportIsTrue
  BY DEF PlanningInv
<1>. QED
  BY <1>1, PlanningInvariant, PTL

-----------------------------------------------------------------------------
(* What may be updated is updated *)

\* A project that is safe to update, seen as it is, is accepted.
LEMMA SafeAccepted ==
    ASSUME PlanningInv, job.pc = "build", job.kind = "update", job.change = None, retained = NoEntries,
           SafeToUpdate, \A r \in Declared(seen) : tip[r] # None,
           \A r \in Common(seen) : /\ seen.candidate.repos[r] = seen.current.repos[r]
                                   /\ tip[r] \in fetched[r] \cup {checkouts[r].head}
                                   /\ checkouts[r].merge = seen.current.repos[r].branch,
           \A r \in Added(seen) : seen.candidate.repos[r].parent \in DOMAIN seen.current.repos \cup {None},
           \A r \in Removed(seen) : /\ checkouts[r].branch = seen.current.repos[r].branch
                                    /\ checkouts[r].merge = seen.current.repos[r].branch
    PROVE  MayUpdate(seen)
<1>. DEFINE now == Tracked[checkouts[Root].head]
<1>1. Steady /\ job.pc \in Based /\ job.pc \in Configured /\ job.pc \in Watching /\ job.pc \in Looked /\ job.pc \in Watched
  BY DEF Steady, Configured, Based, Watching, Watched, Looked, Listing, Late
<1>2. /\ seen.project = [base |-> config.base, repos |-> config.repos,
                         git |-> [r \in DOMAIN config.repos |-> checkouts[r].git]]
      /\ seen.workspace = state /\ seen.candidate = source /\ SourcesResolve
  BY DEF PlanningInv, ResolvedNow
<1>3. /\ config = [base |-> now.base, repos |-> LocalOf(now.repos)] /\ source.base = now.base /\ records = {}
      /\ config.base = Root /\ config.repos = LocalOf(config.repos) /\ IsManifest(source)
      /\ checkouts[Root].head \in Commits
  BY DriftAssumption DEF SafeToUpdate, PlanningInv, ProjectTyped
<1>4. /\ now # NoManifest /\ IsManifest(now) /\ now.base = Root
      /\ DOMAIN now.repos = DOMAIN config.repos /\ Root \in DOMAIN now.repos
  <2>1. source.base \in Repositories
    BY <1>3 DEF IsManifest
  <2>2. NoManifest.base \notin Repositories
    BY DriftAssumption DEF NoManifest
  <2>3. IsManifest(now)
    BY <1>3, <2>1, <2>2, PlanningAssumption
  <2>4. DOMAIN now.repos = DOMAIN config.repos
    BY <1>3 DEF LocalOf
  <2>. QED
    BY <1>3, <2>1, <2>2, <2>3, <2>4 DEF IsManifest
<1>5. \A r \in DOMAIN now.repos : Settled(r) /\ checkouts[r].upstream = now.repos[r].source
  BY DEF SafeToUpdate
<1>6. seen.current = now /\ seen.current # NoManifest /\ ~seen.exact
  <2>1. working = now
    BY <1>4, <1>5 DEF Settled, IsClean
  <2>. HIDE DEF now
  <2>2. seen.current = now /\ ~seen.exact
    BY <1>1, <2>1 DEF PlanningInv, FilesNow, now
  <2>. QED
    BY <1>4, <2>2
<1>7. seen.config = config /\ seen.registry = registry /\ seen.state = state /\ seen.others = others
  BY <1>1, <1>6 DEF PlanningInv, FilesNow, WorkspacesNow
<1>8. seen.retained = NoEntries /\ DOMAIN seen.retained = {}
  BY <1>1 DEF PlanningInv, RecordsNow, NoEntries, Listing, Late
<1>9. seen.records = {}
  <2>1. seen.records \subseteq {"recovery", "journal"} /\ "recovery" \notin seen.records /\ "journal" \notin seen.records
    BY <1>1, <1>3 DEF PlanningInv, RecordsNow, Listing, Late
  <2>. QED
    BY <2>1
<1>10. DOMAIN seen.observed = Declared(seen) /\ \A r \in DOMAIN seen.observed : seen.observed[r] = Sight(r)
  BY <1>1, <1>6 DEF PlanningInv, SeenTyped, SeenSoFar, SightsNow, ToObserve
<1>11. DOMAIN state = DOMAIN config.repos /\ registry \in [DOMAIN config.repos -> {"own", "other", None}]
  BY DEF PlanningInv, ProjectTyped
<1>18. \A r \in DOMAIN now.repos \cap DOMAIN source.repos :
          tip[r] = checkouts[r].head \/ <<checkouts[r].head, tip[r]>> \in Forward
  BY DEF SafeToUpdate
<1>19. \A r \in DOMAIN now.repos : ~now.repos[r].companion => checkouts[r].branch = now.repos[r].branch
  BY DEF SafeToUpdate
<1>20. \A r \in DOMAIN source.repos \ DOMAIN now.repos : checkouts[r].there = "none" /\ tip[r] # None
  BY DEF SafeToUpdate
<1>21. \A n \in DOMAIN others : others[n].valid /\ DOMAIN source.repos = DOMAIN now.repos
  BY DEF SafeToUpdate
<1>. HIDE DEF now
<1>12. \A r \in DOMAIN now.repos : now.repos[r] \in Contract /\ r \in Repositories
  BY <1>4 DEF IsManifest
<1>13. \A r \in DOMAIN now.repos : now.repos[r].parent \in DOMAIN now.repos \cup {None}
  BY <1>4 DEF IsManifest
<1>14. ASSUME NEW r \in DOMAIN now.repos
       PROVE  LET o == ObservationOf(seen, r) IN
              /\ r \in DOMAIN seen.observed /\ o = seen.observed[r]
              /\ ~o.absent /\ o.identity /\ o.clean
              /\ o.git = checkouts[r].git /\ o.branch = checkouts[r].branch /\ o.head = checkouts[r].head
              /\ o.upstream = checkouts[r].upstream /\ o.merge = checkouts[r].merge /\ o.advertised = tip[r]
              /\ r = Root => o.exact
              /\ ParentIn(seen.current, r) = now.repos[r].parent
              /\ Covers(r, now.repos[r].parent) => o.ignored
              /\ <<checkouts[r].head, tip[r]>> \in Forward /\ tip[r] \in fetched[r] => o.forward
  <2>. DEFINE parent == ParentIn(seen.current, r)
              w == Observe(r, parent)
  <2>1. /\ r \in DOMAIN seen.observed /\ r \in DOMAIN seen.workspace /\ checkouts[r].there = "checkout"
        /\ r \in DOMAIN seen.current.repos
    BY <1>2, <1>4, <1>5, <1>6, <1>10, <1>11 DEF Declared, Settled
  <2>2. seen.observed[r] = w /\ ObservationOf(seen, r) = w
    BY <1>10, <2>1 DEF Sight, ObservationOf
  <2>3. parent = now.repos[r].parent
    BY <1>6 DEF ParentIn
  <2>4. /\ w.git = checkouts[r].git /\ w.branch = checkouts[r].branch /\ w.head = checkouts[r].head
        /\ w.upstream = checkouts[r].upstream /\ w.merge = checkouts[r].merge /\ w.advertised = tip[r]
    BY DEF Observe
  <2>5. ~w.absent /\ (Covers(r, parent) => w.ignored)
    BY DEF Observe
  <2>6. IsClean(r) => w.clean
    BY DEF Observe
  <2>7. <<checkouts[r].head, tip[r]>> \in Forward /\ tip[r] \in fetched[r] => w.forward
    BY DEF Observe
  <2>8. w.identity
    <3>1. seen.project.git[r] = checkouts[r].git
      BY <1>2, <1>4
    <3>. QED
      BY <3>1 DEF Observe
  <2>9. r = Root => w.exact
    BY <1>6 DEF Observe, now
  <2>10. IsClean(r)
    BY <1>5 DEF Settled
  <2>. HIDE DEF w
  <2>. QED
    BY <2>1, <2>2, <2>3, <2>4, <2>5, <2>6, <2>7, <2>8, <2>9, <2>10
<1>15. ASSUME NEW r \in DOMAIN now.repos
       PROVE  /\ ProjectAgrees(seen, r) /\ IdentityHolds(seen, r)
              /\ state[r] = [branch |-> checkouts[r].branch, head |-> checkouts[r].head] /\ checkouts[r].branch # None
  <2>1. seen.project.repos[r] = Local(seen.current.repos[r]) /\ r \in DOMAIN seen.project.repos
    BY <1>2, <1>3, <1>4, <1>6 DEF LocalOf
  <2>2. seen.project.git[r] = checkouts[r].git
    BY <1>2, <1>4
  <2>3. Settled(r)
    BY <1>5
  <2>4. ObservationOf(seen, r).identity /\ ObservationOf(seen, r).git = checkouts[r].git
    BY <1>14
  <2>. QED
    BY <2>1, <2>2, <2>3, <2>4 DEF ProjectAgrees, IdentityHolds, Settled
<1>22. ASSUME NEW r \in DOMAIN now.repos
       PROVE  /\ r \in DOMAIN seen.observed /\ ObservationOf(seen, r) = seen.observed[r]
              /\ state[r] = [branch |-> seen.observed[r].branch, head |-> seen.observed[r].head]
  <2>1. /\ r \in DOMAIN seen.observed /\ ObservationOf(seen, r) = seen.observed[r]
        /\ ObservationOf(seen, r).branch = checkouts[r].branch /\ ObservationOf(seen, r).head = checkouts[r].head
    BY <1>14
  <2>2. state[r] = [branch |-> checkouts[r].branch, head |-> checkouts[r].head]
    BY <1>15
  <2>. QED
    BY <2>1, <2>2
<1>16. \A r \in DOMAIN source.repos : source.repos[r].parent # None => ignored[r] # "none"
  BY DEF SafeToUpdate
<1>17. \A r, p : r \in Repositories /\ ignored[r] # "none" => Covers(r, p)
  BY DEF Covers, PlanningInv, ProjectTyped
<1>a. seen.errors = {}
  <2>1. SUFFICES ASSUME NEW r \in DOMAIN seen.observed, Troubled(r) PROVE FALSE
    BY <1>1, <1>6 DEF PlanningInv, SightsNow
  <2>2. r \in Declared(seen) /\ tip[r] # None
    BY <1>10
  <2>3. ParentOf(r) \in DOMAIN seen.workspace \cup {None}
    BY <1>2, <1>4, <1>6, <1>11, <1>13, <2>2 DEF ParentOf, Declared, Added
  <2>4. r \in DOMAIN seen.current.repos => /\ r \in DOMAIN seen.workspace /\ checkouts[r].upstream # None
                                           /\ checkouts[r].branch # None
    <3>1. r \in DOMAIN now.repos => now.repos[r].source # None
      BY <1>12, DriftAssumption DEF Contract, Values
    <3>. QED
      BY <1>2, <1>4, <1>5, <1>6, <1>11, <3>1 DEF Settled
  <2>. QED
    BY <2>1, <2>2, <2>3, <2>4 DEF Troubled
<1>b. AcceptsProject(seen)
  <2>1. seen.registry = seen.project.git
    <3>1. \A r \in DOMAIN config.repos : registry[r] = checkouts[r].git
      BY <1>4, <1>5 DEF Settled
    <3>. QED
      BY <1>2, <1>7, <1>11, <3>1
  <2>2. seen.config.base = seen.project.base /\ LocalOf(seen.config.repos) = seen.project.repos
    BY <1>2, <1>3, <1>7
  <2>3. seen.current.base = seen.project.base /\ seen.candidate.base = seen.current.base
    <3>1. seen.project.base = config.base /\ config.base = now.base
      BY <1>2, <1>3
    <3>2. seen.candidate.base = source.base /\ source.base = now.base
      BY <1>2, <1>3
    <3>3. seen.current.base = now.base
      BY <1>6
    <3>. QED
      BY <3>1, <3>2, <3>3
  <2>4. Cardinality(DOMAIN seen.current.repos) = Cardinality(DOMAIN seen.project.repos)
    BY <1>2, <1>4, <1>6
  <2>5. /\ \A n \in DOMAIN seen.others : seen.others[n].valid
        /\ DOMAIN seen.others # {} => DOMAIN seen.current.repos = DOMAIN seen.candidate.repos
    BY <1>2, <1>6, <1>7, <1>21
  <2>6. DefaultStateHolds(seen)
    BY <1>2, <1>4, <1>7, <1>11, <1>22 DEF DefaultStateHolds
  <2>. QED
    BY <1>9, <2>1, <2>2, <2>3, <2>4, <2>5, <2>6 DEF AcceptsProject
<1>c. ASSUME NEW r \in Common(seen) PROVE AcceptsExisting(seen, r)
  <2>. DEFINE o == ObservationOf(seen, r)
  <2>1. r \in DOMAIN now.repos /\ r \in DOMAIN source.repos /\ seen.candidate.repos[r] = seen.current.repos[r]
    BY <1>2, <1>6 DEF Common
  <2>2. seen.current.repos[r] = now.repos[r] /\ source.repos[r] = now.repos[r]
    BY <1>2, <1>6, <2>1
  <2>3. ~now.repos[r].companion => checkouts[r].branch = now.repos[r].branch
    BY <1>19, <2>1
  <2>4. tip[r] = checkouts[r].head \/ <<checkouts[r].head, tip[r]>> \in Forward
    BY <1>18, <2>1
  <2>5. now.repos[r].companion => CompanionIsBound(seen, r) /\ seen.workspace[r].branch = checkouts[r].branch
    <3>1. r \in DOMAIN seen.workspace /\ seen.workspace[r] = state[r]
      BY <1>2, <1>4, <1>11, <2>1
    <3>2. state[r] = [branch |-> o.branch, head |-> o.head]
      BY <1>22, <2>1
    <3>3. state[r].branch = checkouts[r].branch /\ state[r].branch # None
      <4>1. Settled(r)
        BY <1>5, <2>1
      <4>. QED
        BY <4>1 DEF Settled
    <3>. QED
      BY <3>1, <3>2, <3>3 DEF CompanionIsBound
  <2>6. o.branch # None /\ o.branch = ExpectedBranch(seen, r)
    <3>1. o.branch = checkouts[r].branch
      BY <1>14, <2>1
    <3>2. checkouts[r].branch # None
      BY <1>15, <2>1
    <3>. QED
      BY <2>2, <2>3, <2>5, <3>1, <3>2 DEF ExpectedBranch
  <2>7. UpstreamHolds(seen, r)
    <3>1. checkouts[r].upstream = now.repos[r].source /\ checkouts[r].merge = now.repos[r].branch
      BY <1>5, <2>1, <2>2
    <3>. QED
      BY <1>14, <2>1, <2>2, <3>1 DEF UpstreamHolds
  <2>8. now.repos[r].parent # None => o.ignored
    BY <1>12, <1>14, <1>16, <1>17, <2>1, <2>2, ZenonT(40)
  <2>9. o.advertised # None /\ (o.advertised # o.head => o.forward)
    <3>1. tip[r] # None /\ tip[r] \in fetched[r] \cup {checkouts[r].head}
      BY <2>1, <1>2, <1>6 DEF Declared
    <3>. QED
      BY <1>14, <2>1, <2>4, <3>1
  <2>10. Moved(seen, r) => o.forward
    BY <2>9 DEF Moved
  <2>11. ProjectAgrees(seen, r) /\ IdentityHolds(seen, r)
    BY <1>15, <2>1
  <2>12. ~o.absent /\ o.clean /\ (r = Root => o.exact)
    BY <1>14, <2>1
  <2>. QED
    BY <2>1, <2>2, <2>5, <2>6, <2>7, <2>8, <2>9, <2>10, <2>11, <2>12 DEF AcceptsExisting
<1>d. ASSUME NEW r \in Removed(seen) PROVE AcceptsRemoved(seen, r)
  <2>1. r \in DOMAIN now.repos /\ seen.current.repos[r] = now.repos[r]
    BY <1>6 DEF Removed
  <2>2. /\ checkouts[r].branch = now.repos[r].branch /\ checkouts[r].merge = now.repos[r].branch
        /\ checkouts[r].upstream = now.repos[r].source
    BY <1>5, <2>1
  <2>. QED
    BY <1>8, <1>14, <1>15, <2>1, <2>2 DEF AcceptsRemoved
<1>e. ASSUME NEW r \in Added(seen) PROVE AcceptsAdded(seen, r)
  <2>1. r \in DOMAIN source.repos /\ r \notin DOMAIN now.repos /\ r \in DOMAIN seen.observed /\ r \in Declared(seen)
    BY <1>2, <1>6, <1>10 DEF Added, Declared
  <2>2. ObservationOf(seen, r) = Target(r)
    BY <1>6, <1>10, <2>1 DEF ObservationOf, Sight
  <2>3. checkouts[r].there = "none" /\ tip[r] # None
    BY <1>20, <2>1
  <2>4. /\ Target(r).absent = (checkouts[r].there = "none") /\ Target(r).occupied = (checkouts[r].there # "none")
        /\ Target(r).advertised = tip[r] /\ Target(r).ignored = Covers(r, seen.candidate.repos[r].parent)
    BY DEF Target, Unobserved
  <2>5. source.repos[r].parent # None => Covers(r, source.repos[r].parent)
    BY <1>3, <1>16, <1>17, <2>1 DEF IsManifest
  <2>. QED
    BY <1>2, <2>2, <2>3, <2>4, <2>5, ZenonT(40) DEF AcceptsAdded
<1>f. RetainedFailures(seen) = {} /\ UnexpectedFailures(seen) = {} /\ StateOnlyFailures(seen) = {}
  <2>1. RetainedFailures(seen) = {}
    BY <1>8 DEF RetainedFailures
  <2>2. UnexpectedFailures(seen) = {}
    BY <1>10 DEF UnexpectedFailures
  <2>3. DOMAIN seen.state \cup UNION {seen.others[n].repos : n \in DOMAIN seen.others} \subseteq Declared(seen)
    <3>1. DOMAIN seen.state \subseteq Declared(seen)
      BY <1>4, <1>6, <1>7, <1>11 DEF Declared
    <3>2. \A n \in DOMAIN others : others[n].repos = DOMAIN config.repos
      BY DEF PlanningInv, ProjectTyped
    <3>3. \A n \in DOMAIN seen.others : seen.others[n].repos \subseteq Declared(seen)
      BY <1>4, <1>6, <1>7, <3>2 DEF Declared
    <3>. QED
      BY <3>1, <3>3
  <2>4. StateOnlyFailures(seen) = {}
    BY <2>3 DEF StateOnlyFailures
  <2>. QED
    BY <2>1, <2>2, <2>4
<1>g. Accepts(seen)
  BY <1>6, <1>15, <1>a, <1>b, <1>c, <1>d, <1>e, <1>f DEF Accepts
<1>. QED
  BY <1>g, Accepted DEF PlanningInv, SeenTyped, SeenShape

\* A plan made while nothing changes does not refuse a project that may be
\* updated.
THEOREM SafeIsAcceptedHolds == PlanningSpec => []SafeIsAccepted
<1>1. PlanningInv => SafeIsAccepted
  BY SafeAccepted DEF SafeIsAccepted
<1>. QED
  BY <1>1, PlanningInvariant, PTL

LEMMA RepeatAccepted ==
    ASSUME PlanningInv, Repeats, retained = NoEntries,
           \A r \in DOMAIN seen.current.repos : checkouts[r].branch = seen.current.repos[r].branch
    PROVE  AllUnchanged
<1>1. /\ job.pc = "build" /\ job.kind = "update" /\ job.change = None /\ AsApplied
      /\ job.pc \in Based /\ Steady
  BY DEF Repeats, PlanningInv, AfterUpdate, Steady, Based, Watching, Watched, Looked, Listing, Late
<1>2. seen.candidate = source /\ IsManifest(source) /\ source.base = Root /\ config.base = Root
  BY <1>1 DEF PlanningInv, ResolvedNow, AsApplied, ProjectTyped
<1>3. seen.current = source
  BY <1>1 DEF PlanningInv, FilesNow, AsApplied
<1>4. /\ Common(seen) = DOMAIN source.repos /\ Declared(seen) = DOMAIN source.repos
      /\ Added(seen) = {} /\ Removed(seen) = {}
  BY <1>2, <1>3 DEF Common, Declared, Added, Removed
<1>5. /\ config = [base |-> source.base, repos |-> LocalOf(source.repos)] /\ records = {}
      /\ DOMAIN config.repos = DOMAIN source.repos
  BY <1>1, <1>2 DEF PlanningInv, ProjectTyped, AsApplied, LocalOf
<1>6. Root \in DOMAIN source.repos /\ \A r \in DOMAIN source.repos : r \in Repositories /\ source.repos[r] \in Contract
  BY <1>2 DEF IsManifest
<1>7. ASSUME NEW r \in DOMAIN source.repos
      PROVE  /\ Settled(r) /\ checkouts[r].upstream = source.repos[r].source
             /\ checkouts[r].branch = source.repos[r].branch /\ checkouts[r].merge = source.repos[r].branch
             /\ tip[r] = checkouts[r].head /\ tip[r] # None
             /\ source.repos[r].parent # None => ignored[r] # "none"
  <2>1. /\ checkouts[r].there = "checkout" /\ checkouts[r].git = registry[r] /\ checkouts[r].clean
        /\ checkouts[r].branch # None
        /\ state[r] = [branch |-> source.repos[r].branch, head |-> checkouts[r].head]
        /\ checkouts[r].upstream = source.repos[r].source
        /\ source.repos[r].parent # None => ignored[r] # "none"
        /\ tip[r] = checkouts[r].head
    BY <1>1 DEF AsApplied
  <2>2. checkouts[r].branch = source.repos[r].branch
    BY <1>3
  <2>3. checkouts[r].merge = source.repos[r].branch /\ checkouts[r].head \in Commits
    BY <1>6, <2>1, <2>2 DEF PlanningInv, ProjectTyped, Contract
  <2>4. IsClean(r)
    BY <1>1, <2>1 DEF IsClean, AsApplied
  <2>5. Settled(r)
    BY <2>1, <2>2, <2>4 DEF Settled
  <2>6. tip[r] # None
    BY <2>1, <2>3, DriftAssumption
  <2>. QED
    BY <2>1, <2>2, <2>3, <2>5, <2>6
<1>8. \A n \in DOMAIN others : others[n].valid
  BY <1>1 DEF AsApplied
<1>9. Tracked[checkouts[Root].head] = source
  BY <1>1 DEF AsApplied
<1>10. SafeToUpdate
  BY <1>5, <1>7, <1>8, <1>9 DEF SafeToUpdate
<1>11. MayUpdate(seen)
  <2>1. \A r \in Declared(seen) : tip[r] # None
    BY <1>4, <1>7
  <2>2. \A r \in Common(seen) : /\ seen.candidate.repos[r] = seen.current.repos[r]
                                /\ tip[r] \in fetched[r] \cup {checkouts[r].head}
                                /\ checkouts[r].merge = seen.current.repos[r].branch
    BY <1>2, <1>3, <1>4, <1>7
  <2>. QED
    BY <1>1, <1>4, <1>10, <2>1, <2>2, SafeAccepted
<1>12. ASSUME NEW r \in Declared(seen) PROVE Row(seen, r).class = "unchanged"
  <2>1. r \in Common(seen) /\ r \notin Added(seen)
    BY <1>4
  <2>2. /\ seen.observed[r].head = checkouts[r].head /\ seen.observed[r].advertised = tip[r]
        /\ r \in DOMAIN seen.observed /\ Accepts(seen)
    BY <1>1, <1>11, <2>1, AcceptedExisting, AcceptedFacts
  <2>3. ~Moved(seen, r)
    BY <1>4, <1>7, <2>2 DEF Moved, ObservationOf
  <2>4. ClassifyExisting(seen, r).class = "unchanged"
    BY <2>1, <2>2, <2>3, ExistingAccepted DEF Accepts
  <2>. QED
    BY <2>1, <2>4 DEF Row
<1>. QED
  BY <1>11, <1>12 DEF AllUnchanged

\* The next plan after an update finds nothing to do.
THEOREM RepeatIsQuietHolds == PlanningSpec => []RepeatIsQuiet
<1>1. PlanningInv => RepeatIsQuiet
  BY RepeatAccepted DEF RepeatIsQuiet
<1>. QED
  BY <1>1, PlanningInvariant, PTL

-----------------------------------------------------------------------------
(* What an update changes *)

\* Only Apply ends a locked command with an applied update.
LEMMA OnlyApplyApplies ==
    ASSUME PlanningInv, PlanningNext, Applying
    PROVE  Apply /\ ~Refused
<1>1. job.locked /\ job'.pc = "idle" /\ report'.outcome = "applied"
  BY DEF Applying
<1>2. job.pc # "idle" /\ job.kind = "update" /\ job.pc # "lock"
  BY <1>1 DEF PlanningInv, JobTyped
<1>3. ~Refused
  BY <1>1 DEF Refused, End
<1>4. job = [f \in JobFields |-> job[f]]
  BY DEF PlanningInv, JobTyped
<1>5. \A pc : Go(pc) => job'.pc = pc
  BY <1>4 DEF Go, JobFields
<1>6. ~Change
  <2>1. ASSUME Disturb PROVE job'.pc = job.pc
    BY <1>4, <2>1 DEF Disturb, JobFields
  <2>2. ~Disturb
    BY <1>1, <1>2, <2>1
  <2>. QED
    BY <2>2 DEF Change, UserCommits, UserChanges, UserOccupies, UserIgnores, BaselinePublished, RemoteChanges,
                SourceChanges, WorkspaceChanges, RecordChanges, StateRefreshed
<1>7. ~Collect
  <2>1. ~(\E kind \in {"update", "doctor"} : StartCommand(kind))
    BY <1>2 DEF StartCommand
  <2>0. \A captured, pc : Read(captured, pc) => job'.pc = pc
    BY <1>5 DEF Read
  <2>2. ~ReadConfig
    BY <1>1, <2>0 DEF ReadConfig
  <2>9. ~LoadCandidate /\ ~ReadRegistry /\ ~ReadRetained
    BY <1>1, <2>0 DEF LoadCandidate, ReadRegistry, ReadRetained
  <2>10. ~Observed
    BY <1>1, <1>5 DEF Observed
  <2>3. ~ReadBase
    BY <1>1, <1>3, <2>0 DEF ReadBase
  <2>4. ~ReadDefaultState
    <3>1. ReadDefaultState => job'.pc = "observe"
      BY <1>4 DEF ReadDefaultState, JobFields
    <3>. QED
      BY <1>1, <3>1
  <2>11. ~ListWorkspaces
    <3>1. ListWorkspaces => job'.pc = "look"
      BY <1>4 DEF ListWorkspaces, JobFields
    <3>. QED
      BY <1>1, <3>1
  <2>5. ~(\E r \in Repositories : ObserveExisting(r) \/ ObserveAdded(r))
    <3>1. ASSUME NEW r, NEW o, NEW checks, Note(r, o, checks) PROVE job'.pc = job.pc
      BY <1>4, <3>1 DEF Note, JobFields
    <3>2. \A r, o, checks : ~Note(r, o, checks)
      BY <1>1, <1>2, <3>1
    <3>. QED
      BY <3>2 DEF ObserveExisting, ObserveAdded
  <2>6. ~LookWorkspace
    BY <1>1, <1>2, <1>3 DEF LookWorkspace
  <2>7. ~LookDefaultState /\ ~RelistWorkspaces
    BY <1>1, <1>3, <1>5 DEF LookDefaultState, RelistWorkspaces, Read
  <2>8. ~ListRecovery /\ ~RelistRecovery /\ ~ListUpdates /\ ~RelistUpdates
    BY <1>1, <1>3, <1>5 DEF ListRecovery, RelistRecovery, ListUpdates, RelistUpdates, ListRecords, RelistRecords, Read
  <2>. QED
    BY <2>1, <2>2, <2>3, <2>4, <2>11, <2>5, <2>6, <2>7, <2>8, <2>9, <2>10 DEF Collect
<1>8. ~Plan /\ ~DryRun /\ ~RefusePlan /\ ~Lock /\ ~Disagree /\ ~Report
  BY <1>1, <1>2, <1>3 DEF Plan, DryRun, RefusePlan, Lock, Disagree, Report
<1>. QED
  BY <1>3, <1>6, <1>7, <1>8 DEF PlanningNext, Decide

LEMMA AppliesSafely ==
    ASSUME PlanningInv, Apply, ~Refused, job.change # "locked"
    PROVE  /\ records = {}
           /\ \A r \in Repositories :
               \/ checkouts'[r] = checkouts[r]
               \/ checkouts[r].there = "none" /\ r \notin DOMAIN state
               \/ Settled(r) /\ <<checkouts[r].head, checkouts'[r].head>> \in Forward
           /\ \A r \in DOMAIN state \ DOMAIN state' : checkouts'[r] = checkouts[r] /\ retained'[r] = registry[r]
           /\ \A n \in DOMAIN others : others[n].repos = DOMAIN state'
<1>1. job.pc = "build" /\ job.locked /\ job.kind = "update" /\ MayUpdate(seen) /\ Steady
  BY ApplyChanges DEF Steady
<1>2. /\ Accepts(seen) /\ DOMAIN seen.current.repos = DOMAIN config.repos /\ seen.current # NoManifest
      /\ IsManifest(seen.candidate)
  BY <1>1, AcceptedFacts
<1>3. /\ records = {} /\ (DOMAIN others # {} => DOMAIN seen.candidate.repos = DOMAIN config.repos)
  BY <1>1, AcceptedRecords
<1>4. DOMAIN state = DOMAIN config.repos /\ DOMAIN state' = DOMAIN seen.candidate.repos
  BY ApplyChanges DEF StateAfter, PlanningInv, ProjectTyped
<1>5. ASSUME NEW r \in Repositories
      PROVE  \/ checkouts'[r] = checkouts[r]
             \/ checkouts[r].there = "none" /\ r \notin DOMAIN state
             \/ Settled(r) /\ <<checkouts[r].head, checkouts'[r].head>> \in Forward
  <2>1. CASE r \in Added(seen)
    BY <1>1, <2>1, AcceptedAdded
  <2>2. CASE r \in Common(seen)
    <3>. DEFINE o == seen.observed[r]
    <3>1. checkouts'[r] = [checkouts[r] EXCEPT !.head = HeadAfter(r)]
      BY <2>2, CheckoutsAfter
    <3>2. checkouts[r] \in CheckoutType
      BY DEF PlanningInv, ProjectTyped
    <3>3. /\ Settled(r) /\ o.head = checkouts[r].head /\ o.advertised = tip[r]
          /\ o.forward => <<checkouts[r].head, tip[r]>> \in Forward
      BY <1>1, <2>2, AcceptedExisting
    <3>4. /\ HeadAfter(r) = IF o.advertised # o.head THEN o.advertised ELSE o.head
          /\ o.advertised # o.head => o.forward
      BY <1>1, <2>2, HeadsAfter
    <3>. HIDE DEF o
    <3>5. CASE o.advertised = o.head
      <4>1. HeadAfter(r) = checkouts[r].head
        BY <3>3, <3>4, <3>5
      <4>2. checkouts'[r] = checkouts[r]
        BY <3>1, <3>2, <4>1 DEF CheckoutType
      <4>. QED
        BY <4>2
    <3>6. CASE o.advertised # o.head
      <4>1. checkouts'[r].head = tip[r]
        BY <3>1, <3>2, <3>3, <3>4, <3>6 DEF CheckoutType
      <4>. QED
        BY <3>3, <3>4, <3>6, <4>1
    <3>. QED
      BY <3>5, <3>6
  <2>3. CASE r \notin DOMAIN seen.candidate.repos
    BY <2>3, CheckoutsAfter
  <2>. QED
    BY <2>1, <2>2, <2>3 DEF Added, Common
<1>6. ASSUME NEW r \in DOMAIN state \ DOMAIN state'
      PROVE  checkouts'[r] = checkouts[r] /\ retained'[r] = registry[r]
  <2>1. r \in Removed(seen) /\ r \in Repositories /\ r \notin DOMAIN seen.candidate.repos
    BY <1>2, <1>4 DEF Removed, PlanningInv, ProjectTyped
  <2>2. AcceptsRemoved(seen, r)
    BY <1>2, <2>1 DEF Accepts
  <2>3. RetainedFact(seen, r) = seen.project.git[r]
    BY <2>2 DEF AcceptsRemoved, IdentityHolds, RetainedFact
  <2>4. seen.registry = seen.project.git /\ seen.registry = registry
    BY <1>1, <1>2 DEF Accepts, AcceptsProject, PlanningInv, FilesNow, Based, Watching, Watched, Looked, Listing, Late
  <2>5. retained'[r] = RetainedFact(seen, r)
    BY <2>1, ApplyChanges DEF Retained
  <2>. QED
    BY <2>1, <2>3, <2>4, <2>5, CheckoutsAfter
<1>7. \A n \in DOMAIN others : others[n].repos = DOMAIN state'
  BY <1>3, <1>4 DEF PlanningInv, ProjectTyped
<1>. QED
  BY <1>3, <1>5, <1>6, <1>7

\* An update changes a project only as it is under the lock.
THEOREM AppliedIsSafeHolds == PlanningSpec => AppliedIsSafe
<1>1. PlanningInv /\ [PlanningNext]_planningVars =>
        [Applying /\ job.change # "locked" =>
          /\ records = {}
          /\ \A r \in Repositories :
              \/ checkouts'[r] = checkouts[r]
              \/ checkouts[r].there = "none" /\ r \notin DOMAIN state
              \/ Settled(r) /\ <<checkouts[r].head, checkouts'[r].head>> \in Forward
          /\ \A r \in DOMAIN state \ DOMAIN state' : checkouts'[r] = checkouts[r] /\ retained'[r] = registry[r]
          /\ \A n \in DOMAIN others : others[n].repos = DOMAIN state']_planningVars
  BY OnlyApplyApplies, AppliesSafely
<1>. QED
  BY <1>1, PlanningInvariant, PTL DEF PlanningSpec, AppliedIsSafe

-----------------------------------------------------------------------------
(* What is accepted *)

\* Where a repository is present, it was seen as it is.
LEMMA SeenAsIs ==
    ASSUME PlanningInv, job.pc = "build", job.kind = "update", MayUpdate(seen), Steady,
           NEW r \in DOMAIN seen.current.repos, ~ObservationOf(seen, r).absent
    PROVE  LET o == ObservationOf(seen, r) IN
           /\ o = seen.observed[r] /\ r \in DOMAIN seen.observed /\ r \in DOMAIN seen.workspace /\ r \in Repositories
           /\ o.git = checkouts[r].git /\ o.branch = checkouts[r].branch /\ o.head = checkouts[r].head
           /\ o.upstream = checkouts[r].upstream /\ o.merge = checkouts[r].merge /\ o.advertised = tip[r]
           /\ o.clean => IsClean(r)
<1>. DEFINE o == seen.observed[r]
            parent == ParentIn(seen.current, r)
            w == Observe(r, parent)
<1>1. /\ seen.current # NoManifest /\ DOMAIN seen.observed = Declared(seen) /\ ~seen.exact
      /\ DOMAIN seen.current.repos = DOMAIN config.repos
  BY AcceptedFacts
<1>2. r \in DOMAIN seen.observed /\ r \in Repositories
  BY <1>1 DEF Declared, PlanningInv, ProjectTyped
<1>3. o = Sight(r) /\ ObservationOf(seen, r) = o
  BY <1>1, <1>2 DEF PlanningInv, SightsNow, Watching, Watched, Looked, Listing, Late, ObservationOf
<1>4. o = w /\ r \in DOMAIN seen.workspace
  <2>1. Unobserved.absent = TRUE
    BY DEF Unobserved
  <2>. QED
    BY <1>3, <2>1 DEF Sight
<1>5. /\ w.git = checkouts[r].git /\ w.branch = checkouts[r].branch /\ w.head = checkouts[r].head
      /\ w.upstream = checkouts[r].upstream /\ w.merge = checkouts[r].merge /\ w.advertised = tip[r]
  BY DEF Observe
<1>6. w.clean => IsClean(r)
  BY <1>1 DEF Observe
<1>. HIDE DEF w, o
<1>. QED
  BY <1>2, <1>3, <1>4, <1>5, <1>6 DEF o

\* A removed repository is settled, and on its baseline.
LEMMA AcceptedRemoval ==
    ASSUME PlanningInv, job.pc = "build", job.kind = "update", MayUpdate(seen), Steady, NEW r \in Removed(seen)
    PROVE  /\ Settled(r) /\ checkouts[r].upstream = seen.current.repos[r].source
           /\ checkouts[r].branch = seen.current.repos[r].branch
<1>. DEFINE o == ObservationOf(seen, r)
<1>1. /\ Accepts(seen) /\ seen.current # NoManifest /\ IsManifest(seen.current)
      /\ DOMAIN seen.current.repos = DOMAIN config.repos
  BY AcceptedFacts
<1>2. AcceptsRemoved(seen, r) /\ r \in DOMAIN seen.current.repos
  BY <1>1 DEF Accepts, Removed
<1>3. ~o.absent /\ o.clean /\ o.git = seen.project.git[r] /\ o.branch = seen.current.repos[r].branch
      /\ o.upstream = seen.current.repos[r].source
  BY <1>2 DEF AcceptsRemoved, IdentityHolds
<1>4. /\ o = seen.observed[r] /\ r \in DOMAIN seen.observed /\ r \in DOMAIN seen.workspace /\ r \in Repositories
      /\ o.git = checkouts[r].git /\ o.branch = checkouts[r].branch /\ o.head = checkouts[r].head
      /\ o.upstream = checkouts[r].upstream /\ IsClean(r)
  BY <1>2, <1>3, SeenAsIs
<1>5. seen.current.repos[r].branch # None
  <2>1. seen.current.repos[r] \in Contract
    BY <1>1, <1>2 DEF IsManifest
  <2>2. seen.current.repos[r].branch \in {"main", "next"}
    BY <2>1 DEF Contract
  <2>. QED
    BY <2>2, DriftAssumption DEF Values
<1>6. seen.registry = registry /\ seen.registry = seen.project.git /\ seen.state = state /\ seen.state = seen.workspace
  BY <1>1 DEF Accepts, AcceptsProject, DefaultStateHolds, PlanningInv, FilesNow, Watching, Watched, Looked, Listing, Late, Based
<1>. HIDE DEF o
<1>7. state[r] = [branch |-> checkouts[r].branch, head |-> checkouts[r].head]
  BY <1>1, <1>4, <1>6 DEF Accepts, AcceptsProject, DefaultStateHolds
<1>8. checkouts[r].branch # None /\ checkouts[r].there = "checkout"
  BY <1>3, <1>4, <1>5 DEF PlanningInv, ProjectTyped
<1>. QED
  BY <1>3, <1>4, <1>6, <1>7, <1>8 DEF Settled

\* What wtree update accepts may be updated.
LEMMA AcceptedSafe ==
    ASSUME PlanningInv, job.pc = "build", job.kind = "update", ~job.locked, job.change = None, MayUpdate(seen)
    PROVE  SafeToUpdate
<1>. DEFINE now == Tracked[checkouts[Root].head]
<1>1. /\ Steady
      /\ Accepts(seen) /\ IsManifest(seen.current) /\ seen.current.base = Root
      /\ IsManifest(seen.candidate) /\ seen.candidate.base = Root
      /\ DOMAIN seen.current.repos = DOMAIN config.repos
      /\ Root \in Common(seen) /\ DOMAIN seen.observed = Declared(seen)
      /\ seen.current # NoManifest /\ ~seen.exact /\ seen.remote = TRUE
  BY AcceptedFacts DEF Steady
<1>2. seen.candidate = source
  BY DEF PlanningInv, ResolvedNow
<1>3. seen.current = now
  <2>1. IsClean(Root)
    BY <1>1, AcceptedExisting DEF Settled
  <2>. QED
    BY <1>1, <2>1 DEF IsClean, PlanningInv, FilesNow, Based, Watching, Watched, Looked, Listing, Late
<1>4. records = {} /\ \A n \in DOMAIN others : others[n].valid
  BY <1>1, AcceptedRecords
<1>5. ASSUME NEW n \in DOMAIN others PROVE DOMAIN source.repos = DOMAIN now.repos
  <2>1. DOMAIN others # {}
    BY <1>5
  <2>. QED
    BY <1>1, <1>2, <1>3, <2>1, AcceptedRecords
<1>6. config = [base |-> now.base, repos |-> LocalOf(now.repos)]
  <2>1. /\ seen.config = config /\ LocalOf(seen.config.repos) = seen.project.repos
        /\ \A r \in DOMAIN seen.current.repos : seen.project.repos[r] = Local(seen.current.repos[r])
    BY <1>1 DEF Accepts, AcceptsProject, ProjectAgrees, PlanningInv, FilesNow, Configured, Based, Watching, Watched, Looked, Listing, Late
  <2>2. config = [base |-> Root, repos |-> config.repos] /\ config.repos = LocalOf(config.repos)
    BY DEF PlanningInv, ProjectTyped
  <2>3. config.repos = LocalOf(seen.current.repos)
    <3>1. \A r \in DOMAIN config.repos : config.repos[r] = Local(seen.current.repos[r])
      BY <1>1, <2>1, <2>2
    <3>. QED
      BY <1>1, <2>2, <3>1, SameMap DEF LocalOf
  <2>. QED
    BY <1>1, <1>3, <2>2, <2>3
<1>7. ASSUME NEW r \in DOMAIN seen.current.repos
      PROVE  /\ Settled(r) /\ checkouts[r].upstream = seen.current.repos[r].source
             /\ ~seen.current.repos[r].companion => checkouts[r].branch = seen.current.repos[r].branch
  <2>1. CASE r \in Removed(seen)
    BY <1>1, <2>1, AcceptedRemoval
  <2>2. CASE r \in Common(seen)
    <3>1. AcceptsExisting(seen, r)
      BY <1>1, <2>2 DEF Accepts
    <3>2. /\ Settled(r) /\ checkouts[r].upstream = seen.candidate.repos[r].source
      BY <1>1, <2>2, AcceptedExisting
    <3>3. ~ObservationOf(seen, r).absent /\ ObservationOf(seen, r).branch = ExpectedBranch(seen, r)
          /\ seen.current.repos[r].source = seen.candidate.repos[r].source
      BY <3>1 DEF AcceptsExisting
    <3>4. ObservationOf(seen, r).branch = checkouts[r].branch
      BY <1>1, <3>3, SeenAsIs
    <3>. QED
      BY <3>2, <3>3, <3>4 DEF ExpectedBranch
  <2>. QED
    BY <2>1, <2>2 DEF Removed, Common
<1>8. ASSUME NEW r \in Common(seen)
      PROVE  /\ seen.candidate.repos[r].mount = seen.current.repos[r].mount
             /\ seen.candidate.repos[r].parent = seen.current.repos[r].parent
             /\ tip[r] = checkouts[r].head \/ <<checkouts[r].head, tip[r]>> \in Forward
             /\ seen.candidate.repos[r].parent # None => ignored[r] # "none"
  <2>1. AcceptsExisting(seen, r)
    BY <1>1 DEF Accepts
  <2>2. LET o == seen.observed[r] IN
        /\ o.head = checkouts[r].head /\ o.advertised = tip[r]
        /\ o.forward => <<checkouts[r].head, tip[r]>> \in Forward
        /\ seen.candidate.repos[r].parent # None => ignored[r] # "none"
    BY <1>1, AcceptedExisting
  <2>3. ObservationOf(seen, r) = seen.observed[r]
    BY <1>1 DEF ObservationOf, Declared, Common
  <2>. QED
    BY <1>1, <2>1, <2>2, <2>3 DEF AcceptsExisting, Moved
<1>9. ASSUME NEW r \in Added(seen)
      PROVE  /\ checkouts[r].there = "none" /\ tip[r] # None
             /\ seen.candidate.repos[r].parent # None => ignored[r] # "none"
  <2>1. AcceptsAdded(seen, r)
    BY <1>1 DEF Accepts
  <2>2. ObservationOf(seen, r) = seen.observed[r]
    BY <1>1 DEF ObservationOf, Declared, Added
  <2>. QED
    BY <1>1, <2>1, <2>2, AcceptedAdded DEF AcceptsAdded
<1>. HIDE DEF now
<1>10. \A r \in DOMAIN source.repos : source.repos[r].parent # None => ignored[r] # "none"
  BY <1>2, <1>8, <1>9 DEF Common, Added
<1>11. \A r \in DOMAIN now.repos \cap DOMAIN source.repos :
          /\ source.repos[r].mount = now.repos[r].mount
          /\ source.repos[r].parent = now.repos[r].parent
          /\ tip[r] = checkouts[r].head \/ <<checkouts[r].head, tip[r]>> \in Forward
  BY <1>2, <1>3, <1>8 DEF Common
<1>12. \A r \in DOMAIN source.repos \ DOMAIN now.repos : checkouts[r].there = "none" /\ tip[r] # None
  BY <1>2, <1>3, <1>9 DEF Added
<1>13. source.base = now.base
  BY <1>1, <1>2, <1>3
<1>. QED
  BY <1>3, <1>4, <1>5, <1>6, <1>7, <1>10, <1>11, <1>12, <1>13 DEF SafeToUpdate, now

\* Only Plan waits for the lock.
LEMMA OnlyPlanWaits ==
    ASSUME PlanningInv, Collect \/ Decide, job'.pc = "lock"
    PROVE  Plan
<1>1. job = [f \in JobFields |-> job[f]]
  BY DEF PlanningInv, JobTyped
<1>2. \A pc : Go(pc) => job'.pc = pc
  BY <1>1 DEF Go, JobFields
<1>3. \A captured, pc : Read(captured, pc) => job'.pc = pc
  BY <1>2 DEF Read
<1>4. \A outcome, findings : ~End(outcome, findings)
  <2>1. \A outcome, findings : End(outcome, findings) => job'.pc = "idle"
    BY DEF End, NoCommand
  <2>. QED
    BY <2>1
<1>5. ~Refused
  BY <1>4 DEF Refused
<1>6. ~Collect
  <2>1. ~(\E kind \in {"update", "doctor"} : StartCommand(kind))
    <3>1. \A kind : StartCommand(kind) => job'.pc = "config"
      BY DEF StartCommand, NoCommand
    <3>. QED
      BY <3>1
  <2>2. ~ReadConfig
    BY <1>3 DEF ReadConfig
  <2>3. ~LoadCandidate /\ ~ReadRegistry /\ ~ReadRetained
    BY <1>3 DEF LoadCandidate, ReadRegistry, ReadRetained
  <2>4. ~Observed
    BY <1>2 DEF Observed
  <2>5. ~ReadBase
    BY <1>3, <1>5 DEF ReadBase
  <2>6. ~ReadDefaultState
    <3>1. ReadDefaultState => job'.pc = "observe"
      BY <1>1 DEF ReadDefaultState, JobFields
    <3>. QED
      BY <3>1
  <2>7. ~ListWorkspaces
    <3>1. ListWorkspaces => job'.pc = "look"
      BY <1>1 DEF ListWorkspaces, JobFields
    <3>. QED
      BY <3>1
  <2>8. ~(\E r \in Repositories : ObserveExisting(r) \/ ObserveAdded(r))
    <3>1. \A r, o, checks : Note(r, o, checks) => job'.pc = job.pc
      BY <1>1 DEF Note, JobFields
    <3>2. ASSUME NEW r, ObserveExisting(r) \/ ObserveAdded(r) PROVE job'.pc = "observe"
      BY <3>1, <3>2 DEF ObserveExisting, ObserveAdded, Upcoming
    <3>. QED
      BY <3>2
  <2>9. ~LookWorkspace
    BY <1>5 DEF LookWorkspace
  <2>10. ~LookDefaultState
    BY <1>3, <1>5 DEF LookDefaultState
  <2>11. ~RelistWorkspaces
    BY <1>3, <1>5 DEF RelistWorkspaces
  <2>12. ~ListRecovery /\ ~ListUpdates
    BY <1>3 DEF ListRecovery, ListUpdates, ListRecords
  <2>13. ~RelistRecovery /\ ~RelistUpdates
    BY <1>3, <1>5 DEF RelistRecovery, RelistUpdates, RelistRecords
  <2>. QED
    BY <2>1, <2>2, <2>3, <2>4, <2>5, <2>6, <2>7, <2>8, <2>9, <2>10, <2>11, <2>12, <2>13 DEF Collect
<1>7. ~DryRun /\ ~RefusePlan /\ ~Disagree /\ ~Report /\ ~Apply
  BY <1>4, <1>5 DEF DryRun, RefusePlan, Disagree, Report, Apply
<1>8. ~Lock
  <2>1. Lock => job'.pc = "config"
    BY <1>1 DEF Lock, JobFields
  <2>. QED
    BY <2>1
<1>. QED
  BY <1>6, <1>7, <1>8 DEF Decide

\* wtree update accepts, and its dry run plans, only what may be updated.
THEOREM AcceptedIsSafeHolds == PlanningSpec => []AcceptedIsSafe
<1>1. PlanningInit => AcceptedIsSafe
  BY DEF PlanningInit, NoCommand, AcceptedIsSafe
<1>2. ASSUME PlanningInv, AcceptedIsSafe, [PlanningNext]_planningVars, job'.pc = "lock", job'.change = None
      PROVE  SafeToUpdate'
  <2>1. CASE UNCHANGED planningVars
    BY <1>2, <2>1 DEF AcceptedIsSafe, SafeToUpdate, Settled, IsClean, planningVars, outside
  <2>2. CASE Collect \/ Decide
    <3>1. Plan
      BY <1>2, <2>2, OnlyPlanWaits
    <3>2. job.change = None
      BY <1>2, <3>1 DEF Plan, PlanningInv, JobTyped, JobFields
    <3>3. SafeToUpdate
      BY <1>2, <3>1, <3>2, AcceptedSafe DEF Plan
    <3>. QED
      BY <3>1, <3>3 DEF Plan, SafeToUpdate, Settled, IsClean, outside
  <2>3. CASE Change
    <3>1. Disturb
      BY <2>3 DEF Change, UserCommits, UserChanges, UserOccupies, UserIgnores, BaselinePublished, RemoteChanges,
                  SourceChanges, WorkspaceChanges, RecordChanges, StateRefreshed
    <3>2. /\ job'.pc = job.pc
          /\ job'.change = IF job.pc = "idle" THEN None ELSE IF job.locked THEN "locked" ELSE "unlocked"
      BY <1>2, <3>1 DEF Disturb, PlanningInv, JobTyped, JobFields
    <3>3. None # "locked" /\ None # "unlocked"
      BY DriftAssumption DEF Values
    <3>. QED
      BY <1>2, <3>2, <3>3
  <2>. QED
    BY <1>2, <2>1, <2>2, <2>3 DEF PlanningNext
<1>3. PlanningInv /\ AcceptedIsSafe /\ [PlanningNext]_planningVars => AcceptedIsSafe'
  BY <1>2 DEF AcceptedIsSafe
<1>. QED
  BY <1>1, <1>3, PlanningInvariant, PTL DEF PlanningSpec

\* The update does what its plan said.
THEOREM AppliesThePlanHolds == PlanningSpec => AppliesThePlan
<1>1. ASSUME PlanningInv, Apply, ~Refused
      PROVE  /\ DOMAIN plan.rows = DOMAIN state' \cup DOMAIN retained'
             /\ \A r \in DOMAIN state' :
                 state'[r].head = IF plan.rows[r].class \in {"added", "fast-forwardable"}
                                  THEN plan.rows[r].advertised ELSE plan.rows[r].head
  <2>1. /\ job.pc = "build" /\ job.kind = "update" /\ MayUpdate(seen)
        /\ state' = StateAfter /\ retained' = Retained(seen)
    BY <1>1, ApplyChanges
  <2>2. plan.rows = Rows(seen)
    BY <1>1 DEF Apply, Agrees, Baseline
  <2>3. Accepts(seen) /\ DOMAIN seen.observed = Declared(seen)
    BY <1>1, <2>1, AcceptedFacts
  <2>4. DOMAIN seen.retained \subseteq Removed(seen)
    <3>. DEFINE bad(q) == \/ q \notin Declared(seen) /\ ObservationOf(seen, q).absent
                          \/ q \in DOMAIN seen.candidate.repos
                          \/ q \in Removed(seen) /\ (ObservationOf(seen, q).absent \/ DiffersFromFact(seen, q))
                wrong(q) == ~ObservationOf(seen, q).absent /\ DiffersFromFact(seen, q)
    <3>1. RetainedFailures(seen) =
            {<<r, "retained-unmanaged">> : r \in {q \in DOMAIN seen.retained : bad(q)}}
            \cup {<<r, "identity">> : r \in {q \in DOMAIN seen.retained \ Declared(seen) : wrong(q)}}
      BY DEF RetainedFailures
    <3>2. RetainedFailures(seen) = {}
      BY <2>3 DEF Accepts
    <3>3. \A q \in DOMAIN seen.retained : ~bad(q)
      <4>. HIDE DEF bad, wrong
      <4>. QED
        BY <3>1, <3>2
    <3>4. \A q \in DOMAIN seen.retained : q \in Declared(seen) /\ q \notin DOMAIN seen.candidate.repos
      BY <2>3, <3>3 DEF ObservationOf, Unobserved
    <3>. QED
      BY <3>4 DEF Declared, Removed
  <2>5. DOMAIN Rows(seen) = Declared(seen) \cup DOMAIN seen.retained
        /\ \A r \in Declared(seen) : Rows(seen)[r] = Row(seen, r)
    BY DEF Rows
  <2>6. DOMAIN state' = DOMAIN seen.candidate.repos /\ DOMAIN retained' = Removed(seen)
        /\ \A r \in DOMAIN seen.candidate.repos : state'[r].head = HeadAfter(r)
    BY <2>1 DEF StateAfter, Retained
  <2>7. DOMAIN seen.candidate.repos \subseteq Declared(seen)
        /\ Declared(seen) = DOMAIN seen.candidate.repos \cup Removed(seen)
    BY DEF Declared, Removed
  <2>. QED
    BY <2>2, <2>4, <2>5, <2>6, <2>7 DEF HeadAfter
<1>2. PlanningInv /\ [PlanningNext]_planningVars =>
        [Applying =>
          /\ DOMAIN plan.rows = DOMAIN state' \cup DOMAIN retained'
          /\ \A r \in DOMAIN state' :
              state'[r].head = IF plan.rows[r].class \in {"added", "fast-forwardable"}
                               THEN plan.rows[r].advertised ELSE plan.rows[r].head]_planningVars
  BY <1>1, OnlyApplyApplies
<1>. QED
  BY <1>2, PlanningInvariant, PTL DEF PlanningSpec, AppliesThePlan

=============================================================================
