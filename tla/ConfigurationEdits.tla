--------------------------- MODULE ConfigurationEdits ---------------------------
(***************************************************************************)
(* The commands that edit a project's two configurations in place: wtree   *)
(* repo branch (repository_branch.go), which moves a companion's baseline  *)
(* in the portable manifest and in .wtree.yml together, wtree hooks share  *)
(* and install (hooks_management.go), which copy the post-create hooks     *)
(* from one to the other, and wtree config set and unset (config.go) of    *)
(* the project's worktree root.                                            *)
(*                                                                         *)
(* A file is a generation: its identity (inode and mode), the process that *)
(* wrote it and its data: the companion's baseline, the hooks and whether  *)
(* a worktree root is set, which only the local file can.                  *)
(* "setBy" is a ghost: who gave the file its baseline, and so is "looked"  *)
(* of a job: the files when it last looked before its rename.  A person    *)
(* edits the files, moves branches and untracks the hook executable at any *)
(* point.                                                                  *)
(***************************************************************************)
EXTENDS Naturals

CONSTANTS
    Procs,              \* wtree processes, one command each
    Branches,           \* local branches of the companion
    Hooks, NoHooks,     \* definitions of the post-create event
    User, None,
    FirstBranch,
    MaxEdits, MaxFaults, MaxCrashes, MaxEvents   \* bounds of the exploration

ASSUME FirstAssumption == FirstBranch \in Branches
ASSUME DistinctAssumption == NoHooks \notin Hooks /\ User \notin Procs /\ None \notin Procs \cup Branches
\* A job without a result has none of these.
ASSUME ResultAssumption == None \notin {"completed", "clean", "canceled", "refused", "unrecorded"}

VARIABLES
    file,       \* "portable" and "local": the generation on disk
    tip,        \* commit of each branch, 0 when the branch does not exist
    tracked,    \* the hooks' executable is tracked by its repository
    record,     \* recovery evidence of the project exists
    holder,     \* holder of the project lock
    job,        \* what each process is doing
    last,       \* identities handed out
    edits, faults, crashes

counters == <<edits, faults, crashes>>
world == <<tip, tracked>>
vars == <<file, world, record, holder, job, last, counters>>

Files == {"portable", "local"}
Data == [baseline: Branches, hooks: Hooks \cup {NoHooks}, root: BOOLEAN]
Generations == [id: Nat, by: Procs \cup {User}, data: Data, setBy: Procs \cup {User, None}]

Requests == [op: {"repo-branch"}, branch: Branches, dryRun: BOOLEAN]
              \cup [op: {"hooks-share"}, force: BOOLEAN]
              \cup [op: {"hooks-install"}, mode: {"conflicts", "missing", "force"}]
              \cup [op: {"hooks-list"}] \cup [op: {"config"}, set: BOOLEAN]

Idle == [pc |-> "idle", req |-> None, known |-> None, seen |-> [f \in {} |-> None], tip |-> 0,
         looked |-> [f \in {} |-> None], after |-> [f \in {} |-> None], written |-> [f \in {} |-> None],
         failed |-> FALSE, residual |-> {}, aside |-> {}, result |-> None]

Publishing == {"compare", "exchange", "observe", "verify", "rollback", "record"}
Holding == Publishing \cup {"authorize", "recheck", "rename", "readback"}

\* os.SameFile, the mode and the exact bytes.
Same(g, h) == g.id = h.id /\ g.data = h.data

Init ==
    /\ \E h, k \in Hooks \cup {NoHooks} :
         file = [f \in Files |-> [id |-> 0, by |-> User, setBy |-> None,
                                  data |-> [baseline |-> FirstBranch, root |-> FALSE,
                                            hooks |-> IF f = "local" THEN h ELSE k]]]
    /\ tip = [b \in Branches |-> 1] /\ tracked = TRUE
    /\ record = FALSE /\ holder = None
    /\ job = [p \in Procs |-> Idle]
    /\ last = 0 /\ edits = 0 /\ faults = 0 /\ crashes = 0

Quiet == edits + faults + crashes < MaxEvents
Fault == Quiet /\ faults < MaxFaults /\ faults' = faults + 1

Return(p, result) ==
    /\ job' = [job EXCEPT ![p] = [Idle EXCEPT !.pc = "done", !.req = job[p].req, !.result = result,
                                              !.aside = job[p].aside]]
    /\ holder' = IF holder = p THEN None ELSE holder

\* The write of one whole file by p, as a new generation.
Write(p, f, data, setBy) ==
    /\ last' = last + 1
    /\ file' = [file EXCEPT ![f] = [id |-> last + 1, by |-> p, data |-> data, setBy |-> setBy]]

(***************************************************************************)
(* Planning, without the lock.                                             *)
(***************************************************************************)

\* The project is resolved before the command looks at the files; config
\* looks only under the lock.
Start(p) ==
    /\ job[p].pc = "idle"
    /\ \E req \in Requests :
         job' = [job EXCEPT ![p].pc = IF req.op = "config" THEN "lock" ELSE "captureLocal", ![p].req = req,
                            ![p].known = file["local"].data.baseline]
    /\ UNCHANGED <<file, world, record, holder, last, counters>>

\* A plain entry in the project's recovery directory.
Blocked == record

\* repositoryBranchAuthorityAligned, hookManagementTopologyMatches.
Known(p) == file["local"].data.baseline = job[p].known

CaptureLocal(p) ==
    /\ job[p].pc = "captureLocal"
    /\ LET req == job[p].req
           branch == req.op = "repo-branch" IN
       IF ~Known(p) \/ (branch /\ (Blocked \/ tip[req.branch] = 0))
         THEN Return(p, "refused")
         ELSE /\ job' = [job EXCEPT ![p].pc = "capturePortable", ![p].seen = [local |-> file["local"]],
                                    ![p].tip = IF branch THEN tip[req.branch] ELSE 0]
              /\ UNCHANGED holder
    /\ UNCHANGED <<file, world, record, last, counters>>

\* What each command makes of the two files: a result, or the data to publish.
\* The baseline of every repository must agree between the files.
BranchPlan(req, local, portable) ==
    [result |-> IF portable.baseline # local.baseline THEN "refused"
                ELSE IF ~req.dryRun THEN None
                ELSE IF req.branch = local.baseline THEN "unchanged" ELSE "planned",
     after |-> [f \in Files |-> [(IF f = "local" THEN local ELSE portable)
                                   EXCEPT !.baseline = req.branch]]]

Share(req, local, portable) ==
    [result |-> IF local.hooks = NoHooks \/ ~tracked THEN "refused"
                ELSE IF portable.hooks = local.hooks THEN "unchanged"
                ELSE IF portable.hooks # NoHooks /\ ~req.force THEN "refused" ELSE None,
     after |-> [portable |-> [portable EXCEPT !.hooks = local.hooks]]]

Install(req, local, portable) ==
    [result |-> IF portable.hooks \in {NoHooks, local.hooks} THEN "unchanged"
                ELSE IF local.hooks = NoHooks \/ req.mode = "force" THEN None
                ELSE IF req.mode = "missing" THEN "unchanged" ELSE "refused",
     after |-> [local |-> [local EXCEPT !.hooks = portable.hooks]]]

\* list compares the two and changes nothing.
List(req, local, portable) ==
    [result |-> IF NoHooks \in {local.hooks, portable.hooks} THEN "missing"
                ELSE IF local.hooks = portable.hooks THEN "identical" ELSE "conflicting",
     after |-> [f \in {} |-> None]]

Plan(req, local, portable) ==
    CASE req.op = "repo-branch" -> BranchPlan(req, local, portable)
      [] req.op = "hooks-share" -> Share(req, local, portable)
      [] req.op = "hooks-install" -> Install(req, local, portable)
      [] req.op = "hooks-list" -> List(req, local, portable)

\* repo branch looks again at the identity of the local file; the hooks
\* commands leave that to the verification under the lock.
CapturePortable(p) ==
    /\ job[p].pc = "capturePortable"
    /\ LET req == job[p].req
           seen == [local |-> job[p].seen["local"], portable |-> file["portable"]]
           moved == req.op = "repo-branch" /\ file["local"].id # seen.local.id
           plan == Plan(req, seen.local.data, seen.portable.data) IN
       IF moved \/ plan.result # None
         THEN Return(p, IF moved THEN "refused" ELSE plan.result)
         ELSE /\ job' = [job EXCEPT ![p].pc = "lock", ![p].seen = seen, ![p].after = plan.after]
              /\ UNCHANGED holder
    /\ UNCHANGED <<file, world, record, last, counters>>

TakeLock(p) ==
    /\ job[p].pc = "lock" /\ holder = None
    /\ holder' = p /\ job' = [job EXCEPT ![p].pc = "authorize"]
    /\ UNCHANGED <<file, world, record, last, counters>>

\* The lock is not free within its timeout, or the command is interrupted.
LockFails(p) ==
    /\ job[p].pc = "lock" /\ holder # None
    /\ Return(p, "refused")
    /\ UNCHANGED <<file, world, record, last, counters>>

\* Mutant: the captured generations are not verified under the lock.
SourcesAssumed(p) == TRUE

SourcesHold(p) == \A f \in Files : Same(file[f], job[p].seen[f])
Executable(p) == job[p].req.op = "hooks-share" => tracked

\* Under the lock the plan must still describe the files, and for repo branch
\* the branch and the absence of recovery evidence.
Authorize(p) ==
    /\ job[p].pc = "authorize" /\ job[p].req.op # "config"
    /\ LET req == job[p].req
           branch == req.op = "repo-branch" IN
       IF \/ branch /\ (Blocked \/ tip[req.branch] # job[p].tip)
          \/ ~SourcesHold(p) \/ ~Executable(p)
         THEN Return(p, "refused")
         ELSE IF branch /\ \A f \in Files : job[p].after[f] = job[p].seen[f].data
         THEN Return(p, "unchanged")
         ELSE /\ job' = [job EXCEPT ![p].pc = IF branch THEN "compare" ELSE "recheck"]
              /\ UNCHANGED holder
    /\ UNCHANGED <<file, world, record, last, counters>>

(***************************************************************************)
(* repo branch: publication of the portable file, then of the local one.   *)
(***************************************************************************)

Written(p) == DOMAIN job[p].written
Target(p) == IF "portable" \in Written(p) THEN "local" ELSE "portable"
Setter(p, f) == IF job[p].after[f].baseline = job[p].seen[f].data.baseline
                  THEN job[p].seen[f].setBy ELSE p

\* verifyPublicationGenerations: bytes only, of both files.
AsPublished(p) == \A f \in Files :
    file[f].data = IF f \in Written(p) THEN job[p].after[f] ELSE job[p].seen[f].data

GoTo(p, pc) == job' = [job EXCEPT ![p].pc = pc] /\ UNCHANGED holder
RollBack(p) == job' = [job EXCEPT ![p].pc = "rollback", ![p].failed = TRUE] /\ UNCHANGED holder

InterruptEnds(p) ==   \* Mutant: an interrupt between the two writes ends the command too.
    /\ job[p].pc = "compare"
    /\ \/ IF AsPublished(p) THEN GoTo(p, "exchange") ELSE RollBack(p)
       \/ Return(p, "canceled")
    /\ UNCHANGED <<file, world, record, last, counters>>

\* An interrupt before anything was written just ends the command.
Compare(p) ==
    /\ job[p].pc = "compare"
    /\ \/ IF AsPublished(p) THEN GoTo(p, "exchange") ELSE RollBack(p)
       \/ IF Written(p) = {} THEN Return(p, "canceled") ELSE RollBack(p)
    /\ UNCHANGED <<file, world, record, last, counters>>

\* WriteFileAtomicModeExpected.  The new generation and the one on disk change
\* places; when the displaced one is not the expected one they change back.
\* A generation that cannot be put back or removed stays beside the file.
Exchanged(p, f, expected, data, setBy, kept, failed) ==
    \/ Same(file[f], expected) /\ kept = {} /\ ~failed
       /\ Write(p, f, data, setBy) /\ UNCHANGED faults
    \/ Same(file[f], expected) /\ kept \in {{}, {file[f].id}} /\ failed
       /\ Write(p, f, data, setBy) /\ Fault
    \/ ~Same(file[f], expected) /\ kept = {file[f].id} /\ failed
       /\ Write(p, f, data, setBy) /\ Fault

NotExchanged(p, f, expected, kept) ==
    /\ \/ Same(file[f], expected) /\ kept = {} /\ Fault
       \/ ~Same(file[f], expected) /\ kept = {} /\ UNCHANGED faults
       \/ ~Same(file[f], expected) /\ kept = {last + 1} /\ Fault
    /\ last' = last + 1
    /\ UNCHANGED file

Kept == {{}, {last + 1}} \cup {{file[f].id} : f \in Files}

Exchange(p) ==
    /\ job[p].pc = "exchange"
    /\ LET f == Target(p)
           want == job[p].seen[f] IN
       \E kept \in Kept :
         \/ \E failed \in BOOLEAN :
              /\ Exchanged(p, f, want, job[p].after[f], Setter(p, f), kept, failed)
              /\ job' = [job EXCEPT ![p].pc = "observe", ![p].failed = failed, ![p].aside = kept]
         \/ /\ NotExchanged(p, f, want, kept)
            /\ job' = [job EXCEPT ![p].pc = IF kept = {} THEN "rollback" ELSE "observe",
                                  ![p].failed = TRUE, ![p].aside = kept]
    /\ UNCHANGED <<world, record, holder, edits, crashes>>

Receipt(p, f) == [g \in Written(p) \cup {f} |-> IF g = f THEN file[f] ELSE job[p].written[g]]

ForgetUnobserved(p) ==   \* Mutant: a published file whose receipt cannot be taken counts as untouched.
    /\ job[p].pc = "observe"
    /\ LET f == Target(p)
           observed == file[f].data = job[p].after[f] IN
       job' = [job EXCEPT ![p].written = IF observed THEN Receipt(p, f) ELSE @,
                          ![p].pc = IF ~observed \/ job[p].failed THEN "rollback"
                                    ELSE IF f = "local" THEN "verify" ELSE "compare"]
    /\ UNCHANGED <<file, world, record, holder, last, counters>>

\* After a replacement the installed generation is read back: its receipt is
\* what a rollback may replace.  Without a receipt the file is not touched again.
Observe(p) ==
    /\ job[p].pc = "observe"
    /\ LET f == Target(p)
           observed == file[f].data = job[p].after[f] IN
       job' = [job EXCEPT ![p].written = IF observed THEN Receipt(p, f) ELSE @,
                          ![p].residual = IF observed THEN @ ELSE @ \cup {f},
                          ![p].pc = IF ~observed \/ job[p].failed THEN "rollback"
                                    ELSE IF f = "local" THEN "verify" ELSE "compare"]
    /\ UNCHANGED <<file, world, record, holder, last, counters>>

Verify(p) ==
    /\ job[p].pc = "verify"
    /\ \/ IF AsPublished(p) THEN Return(p, "completed") ELSE RollBack(p)
       \/ RollBack(p)
    /\ UNCHANGED <<file, world, record, last, counters>>

\* The local file is restored first; only a generation with a receipt is replaced.
Restore(p) ==
    /\ job[p].pc = "rollback" /\ Written(p) # {}
    /\ LET f == IF "local" \in Written(p) THEN "local" ELSE "portable"
           before == job[p].seen[f]
           rest == [g \in Written(p) \ {f} |-> job[p].written[g]] IN
       \E kept \in Kept :
         \/ \E failed \in BOOLEAN :
              /\ Exchanged(p, f, job[p].written[f], before.data, before.setBy, kept, failed)
              /\ job' = [job EXCEPT ![p].written = rest, ![p].aside = @ \cup kept]
         \/ /\ NotExchanged(p, f, job[p].written[f], kept)
            /\ job' = [job EXCEPT ![p].written = rest, ![p].aside = @ \cup kept,
                                  ![p].residual = @ \cup {f}]
    /\ UNCHANGED <<world, record, holder, edits, crashes>>

Restored(p) ==
    /\ job[p].pc = "rollback" /\ Written(p) = {}
    /\ IF job[p].residual = {} /\ job[p].aside = {} THEN Return(p, "clean") ELSE GoTo(p, "record")
    /\ UNCHANGED <<file, world, record, last, counters>>

\* The evidence is written only where there is none; the error says it when it cannot be.
WriteRecord(p) ==
    /\ job[p].pc = "record"
    /\ \/ record' = TRUE /\ Return(p, "incomplete") /\ UNCHANGED faults
       \/ record' = record /\ Return(p, "unrecorded") /\ Fault
    /\ UNCHANGED <<file, world, last, edits, crashes>>

(***************************************************************************)
(* hooks share and install, config: one file, by rename.                   *)
(***************************************************************************)

\* The new file is prepared beside the old one; both files are verified again
\* just before the rename.
Recheck(p) ==
    /\ job[p].pc = "recheck"
    /\ \/ UNCHANGED faults
          /\ IF SourcesHold(p) /\ Executable(p)
               THEN /\ job' = [job EXCEPT ![p].pc = "rename", ![p].looked = file]
                    /\ UNCHANGED holder
               ELSE Return(p, "refused")
       \/ Fault /\ Return(p, "failed")
    /\ UNCHANGED <<file, world, record, last, edits, crashes>>

\* config set and unset read the file under the lock and write it whole.
ReadSetting(p) ==
    /\ job[p].pc = "authorize" /\ job[p].req.op = "config"
    /\ job' = [job EXCEPT ![p].pc = "rename", ![p].seen = file, ![p].looked = file,
                         ![p].after = [local |-> [file["local"].data EXCEPT !.root = job[p].req.set]]]
    /\ UNCHANGED <<file, world, record, holder, last, counters>>

\* The rename replaces whatever is there by then.
Rename(p) ==
    /\ job[p].pc = "rename"
    /\ \E f \in DOMAIN job[p].after :
         \/ /\ Write(p, f, job[p].after[f], job[p].seen[f].setBy)
            /\ \/ GoTo(p, "readback") /\ UNCHANGED faults
               \/ job' = [job EXCEPT ![p].pc = "readback", ![p].failed = TRUE] /\ UNCHANGED holder /\ Fault
         \/ Return(p, "failed") /\ Fault /\ UNCHANGED <<file, last>>
    /\ UNCHANGED <<world, record, edits, crashes>>

Readback(p) ==
    /\ job[p].pc = "readback"
    /\ \E f \in DOMAIN job[p].after :
         Return(p, IF job[p].req.op # "config" /\ file[f].data # job[p].after[f] THEN "unvalidated"
                   ELSE IF job[p].failed THEN "undurable" ELSE "changed")
    /\ UNCHANGED <<file, world, record, last, counters>>

(***************************************************************************)
(* Surroundings.                                                           *)
(***************************************************************************)

\* An editor or git checkout: in place or as a new file.
EditFile(f) ==
    /\ Quiet /\ edits < MaxEdits /\ edits' = edits + 1
    /\ \E data \in Data, id \in {file[f].id, last + 1} :
         /\ data.root = file[f].data.root
         /\ data # file[f].data \/ id = last + 1
         /\ last' = IF id > last THEN id ELSE last
         /\ file' = [file EXCEPT ![f] =
              [id |-> id, by |-> User, data |-> data,
               setBy |-> IF data.baseline = @.data.baseline THEN @.setBy ELSE User]]
    /\ UNCHANGED <<world, record, holder, job, faults, crashes>>

\* A commit on a branch, or its deletion.
MoveTip(b) ==
    /\ Quiet /\ edits < MaxEdits /\ edits' = edits + 1
    /\ tip[b] # 0 /\ \E commit \in {0, tip[b] + 1} : tip' = [tip EXCEPT ![b] = commit]
    /\ UNCHANGED <<file, tracked, record, holder, job, last, faults, crashes>>

Untrack ==
    /\ Quiet /\ edits < MaxEdits /\ edits' = edits + 1
    /\ tracked /\ tracked' = FALSE
    /\ UNCHANGED <<file, tip, record, holder, job, last, faults, crashes>>

\* wtree is killed; the operating system drops its lock.
Crash(p) ==
    /\ Quiet /\ crashes < MaxCrashes /\ crashes' = crashes + 1
    /\ job[p].pc \notin {"idle", "done", "dead"}
    /\ job' = [job EXCEPT ![p] = [Idle EXCEPT !.pc = "dead", !.req = job[p].req]]
    /\ holder' = IF holder = p THEN None ELSE holder
    /\ UNCHANGED <<file, world, record, last, edits, faults>>

Step(p) ==
    \/ Start(p) \/ CaptureLocal(p) \/ CapturePortable(p)
    \/ TakeLock(p) \/ LockFails(p) \/ Authorize(p)
    \/ Compare(p) \/ Exchange(p) \/ Observe(p) \/ Verify(p)
    \/ Restore(p) \/ Restored(p) \/ WriteRecord(p)
    \/ Recheck(p) \/ ReadSetting(p) \/ Rename(p) \/ Readback(p)

Next ==
    \/ \E p \in Procs : Step(p) \/ Crash(p)
    \/ \E f \in Files : EditFile(f)
    \/ \E b \in Branches : MoveTip(b)
    \/ Untrack

Spec == Init /\ [][Next]_vars

(***************************************************************************)
(* Properties.                                                             *)
(***************************************************************************)

\* The types of the variables of the two configurations and of their editors.
TypeOK ==
    /\ file \in [Files -> Generations]
    /\ tip \in [Branches -> Nat] /\ tracked \in BOOLEAN /\ record \in BOOLEAN
    /\ holder \in Procs \cup {None}
    /\ \A p \in Procs : job[p].pc \in Holding \cup {"idle", "captureLocal", "capturePortable", "lock",
                                                    "done", "dead"}

\* The two files never name different baselines without a trace: a person
\* wrote one of them, repo branch is at work or was killed at it, recovery
\* evidence blocks the project, or the command said it could not write it
\* (publish and its rollbacks).
SplitIsReported ==
    file["portable"].data.baseline # file["local"].data.baseline =>
        \/ \E f \in Files : file[f].setBy = User
        \/ record
        \/ holder # None /\ job[holder].pc \in Publishing
        \/ \E p \in Procs : job[p].result = "unrecorded" \/ job[p].pc = "dead"

\* repo branch that reports a clean rollback, a refusal or an interrupt left
\* none of its baselines in either file and nothing of anyone beside them
\* (NewCleanRollbackError, cancelPublication, uncertainPublication).
CleanRollbackIsTrue ==
    \A p \in Procs : job[p].result \in {"clean", "canceled", "refused"} =>
        job[p].aside = {} /\ \A f \in Files : file[f].setBy # p

\* Bytes a process replaces are the ones it captured or published; a
\* generation of somebody else goes only into a file kept beside, or is one
\* that came between the last look of a hooks or config command and its rename
\* (WriteFileAtomicModeExpected, replaceHookManagementFile).
NoLostEdit ==
    [][\A p \in Procs, f \in Files :
         file'[f] # file[f] /\ file'[f].by = p =>
           \/ file[f].data \in {job[p].seen[f].data, job[p].after[f]}
           \/ file[f].id \in job'[p].aside
           \/ job[p].pc = "rename" /\ file[f] # job[p].looked[f]]_vars

\* What share and install copy is what the other file says at the moment of the
\* rename, unless a person changed that file after the last verification
\* (replaceHookManagementFile).
CopiesAreCurrent ==
    [][\A p \in Procs : job[p].pc = "rename" /\ job'[p].pc = "readback" /\ job[p].req.op # "config" =>
         \/ file'["portable"].data.hooks = file'["local"].data.hooks
         \/ \E f \in Files : ~Same(file[f], job[p].seen[f]) /\ file[f].by = User]_vars

\* While recovery evidence exists no repo branch moves a baseline (ExecutePlan).
EvidenceBlocks ==
    [][record => \A p \in Procs, f \in Files :
         job[p].req # None /\ job[p].req.op = "repo-branch" /\ file'[f].by = p
           => file'[f] = file[f]]_vars

\* A completed repo branch leaves both files with the baseline it was asked
\* for, whatever happened between its two writes (verifyPublicationGenerations).
CompletedIsWhole ==
    [][\A p \in Procs : job'[p].result = "completed" /\ job[p].result # "completed" =>
         \A f \in Files : file'[f].data.baseline = job[p].req.branch]_vars

\* The specification's "a failure cannot leave portable and local configuration
\* silently disagreeing", a kill included.
SplitIsNeverSilent ==
    file["portable"].data.baseline # file["local"].data.baseline =>
        \/ \E f \in Files : file[f].setBy = User
        \/ record
        \/ holder # None /\ job[holder].pc \in Publishing
        \/ \E p \in Procs : job[p].result = "unrecorded"

\* The specification's "exact-byte compare-and-swap" of share and install.
CompareAndSwap ==
    [][\A p \in Procs, f \in Files :
         file'[f] # file[f] /\ job[p].pc = "rename" /\ file'[f].by = p =>
           file[f].data = job[p].seen[f].data]_vars
================================================================================
