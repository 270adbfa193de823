---------------------------- MODULE UpdatePlanning -----------------------------
(***************************************************************************)
(* How wtree update plans and how wtree doctor reports: a collection that  *)
(* reads files, directories and checkouts one after the other, without a   *)
(* lock, while people and other wtree commands change them; the            *)
(* classification of what it read (DriftSnapshot); and, for update, the    *)
(* second collection under the project lock that has to agree with the     *)
(* first before anything is changed.                                       *)
(*                                                                         *)
(* One repository is observed in one step, and an update that may run is   *)
(* applied in one step (UpdateTransaction has its steps and failures).     *)
(***************************************************************************)
EXTENDS DriftSnapshot

CONSTANTS
    Order,       \* the repositories, parents first
    Forward,     \* pairs <<a, b>>: commit b descends from a, and is not a
    Tracked,     \* Tracked[c]: the manifest in commit c of the base, or NoManifest
    Start0,      \* the commit every checkout starts at
    Tips,        \* what the base's remote advertises at first
    Candidates,  \* manifests the source may hold
    MaxJobs,     \* bound: commands; another one comes only after an applied update
    MaxChanges   \* bound: what others do meanwhile

\* A map of nothing, and one entry more.
NoEntries == [x \in {} |-> None]
With(f, x, v) == [y \in DOMAIN f \cup {x} |-> IF y = x THEN v ELSE f[y]]

NoManifest == [base |-> None, repos |-> NoEntries]

\* What loading accepts of a manifest.
IsManifest(m) ==
    /\ m = [base |-> m.base, repos |-> m.repos]
    /\ DOMAIN m.repos \subseteq Repositories /\ m.repos \in [DOMAIN m.repos -> Contract]
    /\ m.base \in DOMAIN m.repos /\ m.repos[m.base].parent = None
    /\ \A r \in DOMAIN m.repos : m.repos[r].parent \in DOMAIN m.repos \cup {None}

ASSUME PlanningAssumption ==
    /\ Order \in Seq(Repositories) /\ \A r \in Repositories : \E i \in 1..Len(Order) : Order[i] = r
    /\ Start0 \in Commits /\ Tips \subseteq Commits
    /\ \A c \in Commits : Tracked[c] = NoManifest \/ IsManifest(Tracked[c])
    /\ \A c \in Tips \cup {Start0} : Tracked[c] # NoManifest
    /\ Tracked[Start0].base = Root
    /\ \A m \in Candidates : IsManifest(m)
    /\ MaxJobs \in Nat /\ MaxChanges \in Nat

VARIABLES
    config,      \* .wtree/project.yml: [base, repos]
    registry,    \* registry.json: repository -> Git identity
    state,       \* the default workspace's state file: repository -> [branch, head]
    others,      \* the other workspaces' state files: name -> [repos, valid]
    retained,    \* reconciliation.json: repository -> Git identity
    records,     \* unresolved operations
    checkouts,   \* the default workspace's checkouts
    working,     \* the manifest in the base's working tree
    ignored,     \* how the parent's .gitignore covers a mount
    fetched,     \* commits each repository has
    tip,         \* what the remotes advertise
    source,      \* the manifest the source holds
    job,         \* the running command
    seen,        \* what it has captured so far
    plan,        \* update: the accepted first capture
    report,      \* the last command's result
    moved,       \* whether something was changed since the last command ended
    changes

outside == <<config, registry, state, others, retained, records, checkouts, working, ignored, fetched, tip, source>>
planningVars == <<outside, job, seen, plan, report, moved, changes>>

Nowhere == [there |-> "none", git |-> None, clean |-> TRUE, branch |-> None, head |-> None,
            upstream |-> None, merge |-> None]

Checkout(c, commit) == [there |-> "checkout", git |-> "own", clean |-> TRUE, branch |-> c.branch,
                        head |-> commit, upstream |-> c.source, merge |-> c.branch]

NoCommand == [kind |-> None, pc |-> "idle", todo |-> {}, locked |-> FALSE, change |-> None, left |-> MaxJobs]

Blank == [project |-> None, workspace |-> None, state |-> None, config |-> None, registry |-> None,
          current |-> None, candidate |-> None, others |-> NoEntries, retained |-> NoEntries, records |-> {},
          observed |-> NoEntries, errors |-> {}, remote |-> TRUE, early |-> None, listed |-> {}, exact |-> FALSE]

NoReport == [kind |-> None, outcome |-> None, findings |-> {}, quiet |-> FALSE]

\* A project as clone or update leaves it.
PlanningInit ==
    LET m == Tracked[Start0] IN
    /\ config = [base |-> m.base, repos |-> LocalOf(m.repos)]
    /\ registry = [r \in DOMAIN m.repos |-> "own"]
    /\ state = [r \in DOMAIN m.repos |-> [branch |-> m.repos[r].branch, head |-> Start0]]
    /\ others = NoEntries /\ retained = NoEntries /\ records = {}
    /\ checkouts = [r \in Repositories |-> IF r \in DOMAIN m.repos THEN Checkout(m.repos[r], Start0) ELSE Nowhere]
    /\ working = m
    /\ ignored = [r \in Repositories |-> IF r = Root THEN "none" ELSE "committed"]
    /\ fetched = [r \in Repositories |-> {Start0} \cup {b \in Commits : <<Start0, b>> \in Forward}]
    /\ \E c \in Tips : /\ tip = [r \in Repositories |-> IF r = Root THEN c ELSE Start0]
                       /\ source = Tracked[c]
    /\ job = NoCommand /\ seen = Blank /\ plan = None /\ report = NoReport /\ moved = FALSE /\ changes = 0

IsClean(r) == checkouts[r].clean /\ (r = Root => working = Tracked[checkouts[r].head])

----------------------------------------------------------------------------
(* Reading. *)

Go(pc) == job' = [job EXCEPT !.pc = pc]

End(outcome, findings) ==
    /\ job' = [NoCommand EXCEPT !.left = job.left]
    /\ seen' = Blank /\ plan' = None /\ moved' = FALSE /\ UNCHANGED changes
    /\ report' = [kind |-> job.kind, outcome |-> outcome, findings |-> findings, quiet |-> job.change = None]

Refused == End("refused", {}) /\ UNCHANGED outside

Read(captured, pc) ==
    /\ seen' = captured
    /\ Go(pc)
    /\ UNCHANGED <<outside, plan, report, moved, changes>>

SourcesResolve == \A r \in DOMAIN config.repos : checkouts[r].there = "checkout"

\* The project is resolved from its configuration, which needs every source
\* checkout; update also refuses while a journal is there.
StartCommand(kind) ==
    /\ job.pc = "idle" /\ job.left > 0 /\ report.outcome \in {None, "applied"}
    /\ SourcesResolve
    /\ kind = "update" => "journal" \notin records
    /\ job' = [NoCommand EXCEPT !.kind = kind, !.pc = "config", !.left = job.left - 1]
    /\ seen' = [Blank EXCEPT !.project = [base |-> config.base, repos |-> config.repos,
                                          git |-> [r \in DOMAIN config.repos |-> checkouts[r].git]],
                             !.workspace = state, !.remote = kind = "update"]
    /\ UNCHANGED <<outside, plan, report, moved, changes>>

\* doctor resolves the default workspace again here.
ReadConfig ==
    /\ job.pc = "config"
    /\ Read([seen EXCEPT !.config = config, !.workspace = IF job.kind = "doctor" THEN state ELSE @],
            IF job.kind = "update" /\ ~job.locked THEN "candidate" ELSE "base")

LoadCandidate ==
    /\ job.pc = "candidate"
    /\ Read([seen EXCEPT !.candidate = source], "base")

\* The one dirt doctor accepts: the working manifest, and nothing else, moves
\* one companion's baseline, and the local configuration says the same.
ExactPublication ==
    LET tracked == Tracked[checkouts[Root].head].repos
        changed == {r \in DOMAIN tracked : tracked[r] # working.repos[r]}
    IN /\ working.base = seen.project.base
       /\ DOMAIN working.repos = DOMAIN tracked
       /\ LocalOf(working.repos) = seen.config.repos /\ seen.config.repos = seen.project.repos
       /\ \E r \in DOMAIN tracked :
            /\ changed = {r} /\ tracked[r].companion
            /\ working.repos[r] = [tracked[r] EXCEPT !.branch = working.repos[r].branch]
            /\ checkouts[r].there = "checkout" /\ checkouts[r].git = seen.project.git[r]

\* Whether the new baseline exists as a branch is any.
PublicationIsAuthorized ==
    /\ job.kind = "doctor" /\ checkouts[Root].clean /\ working # Tracked[checkouts[Root].head]
    /\ ExactPublication

\* doctor first compares the Git identity of the base; only of the base it knows
\* does it fall back on the records when the manifest is not tracked.
ReadBase ==
    /\ job.pc = "base"
    /\ LET base == checkouts[seen.project.base]
           tracked == Tracked[base.head]
           known == job.kind = "doctor" => base.git = seen.project.git[Root]
       IN \/ /\ ~known \/ (tracked = NoManifest /\ job.kind = "update")
             /\ Refused
          \/ /\ known /\ tracked = NoManifest /\ job.kind = "doctor"
             /\ Read([seen EXCEPT !.current = NoManifest], "retained")
          \/ /\ known /\ tracked # NoManifest
             /\ \E authorized \in {FALSE} \cup {PublicationIsAuthorized} :
                    LET m == IF authorized THEN working ELSE tracked IN
                    Read([seen EXCEPT !.current = m, !.exact = authorized,
                                      !.candidate = IF job.kind = "doctor" THEN m ELSE @], "registry")

ReadRegistry ==
    /\ job.pc = "registry"
    /\ Read([seen EXCEPT !.registry = registry], "default")

\* Only what a manifest declares is looked at: the candidate's repositories
\* and the removed ones for update, the project's for doctor.
ReadDefaultState ==
    /\ job.pc = "default"
    /\ seen' = [seen EXCEPT !.early = state]
    /\ job' = [job EXCEPT !.pc = "observe",
                          !.todo = IF job.kind = "update" THEN Declared(seen) ELSE DOMAIN seen.project.repos]
    /\ UNCHANGED <<outside, plan, report, moved, changes>>

Covers(r, parent) ==
    parent # None => ignored[r] = "committed" \/ (job.kind = "update" /\ ignored[r] = "working")

\* The observation of a checkout that is there, given the contract it should meet.
Observe(r, parent) ==
    LET d == checkouts[r] IN
    [absent |-> FALSE, occupied |-> FALSE,
     identity |-> r \in DOMAIN seen.project.git => d.git = seen.project.git[r], git |-> d.git,
     clean |-> IsClean(r) \/ (r = Root /\ seen.exact), branch |-> d.branch, head |-> d.head,
     upstream |-> d.upstream, merge |-> d.merge,
     exact |-> r = Root /\ (seen.exact \/ Tracked[d.head] = seen.current),
     ignored |-> Covers(r, parent), advertised |-> IF job.kind = "update" THEN tip[r] ELSE None,
     forward |-> job.kind = "update" /\ <<d.head, tip[r]>> \in Forward /\ tip[r] \in fetched[r]]

\* A git command that fails while a repository is observed refuses the whole.
Errors(r, parent) ==
    {e \in {"workspace-path", "upstream-observation", "parent-workspace-path", "advertised-ref-observation"} :
        CASE e = "workspace-path"        -> r \notin DOMAIN seen.workspace
          [] e = "upstream-observation"  -> IF job.kind = "update" THEN checkouts[r].upstream = None \/ checkouts[r].branch = None
                                            ELSE checkouts[r].upstream = None /\ checkouts[r].branch # None
          [] e = "parent-workspace-path" ->
                /\ parent # None
                /\ \/ parent \notin DOMAIN seen.workspace
                   \/ job.kind = "doctor" /\ ObservationOf(seen, parent).head = None
          [] OTHER                       -> job.kind = "update" /\ tip[r] = None}

Note(r, observation, checks) ==
    /\ seen' = [seen EXCEPT !.observed = With(@, r, observation),
                            !.errors = @ \cup {<<r, c>> : c \in checks}]
    /\ job' = [job EXCEPT !.todo = @ \ {r}]
    /\ UNCHANGED <<outside, plan, report, moved, changes>>

\* The next one to look at, parents first.
Upcoming(r) ==
    /\ job.pc = "observe" /\ r \in job.todo
    /\ \A q \in job.todo : \E i, j \in 1..Len(Order) : i <= j /\ Order[i] = r /\ Order[j] = q

ParentIn(m, r) == IF r \in DOMAIN m.repos THEN m.repos[r].parent ELSE None

ObserveExisting(r) ==
    /\ Upcoming(r)
    /\ job.kind = "doctor" \/ r \in DOMAIN seen.current.repos
    /\ IF r \notin DOMAIN seen.workspace THEN Note(r, Unobserved, {"workspace-path"})
       ELSE IF checkouts[r].there = "none" THEN Note(r, Unobserved, {})
       ELSE Note(r, Observe(r, ParentIn(seen.current, r)), Errors(r, ParentIn(seen.current, r)))

\* What a repository the candidate adds will need.
Target(r) ==
    [Unobserved EXCEPT !.absent = checkouts[r].there = "none", !.occupied = checkouts[r].there # "none",
                       !.ignored = Covers(r, seen.candidate.repos[r].parent), !.advertised = tip[r]]

ObserveAdded(r) ==
    /\ Upcoming(r)
    /\ job.kind = "update" /\ r \notin DOMAIN seen.current.repos
    /\ Note(r, Target(r), Errors(r, seen.candidate.repos[r].parent) \ {"workspace-path", "upstream-observation"})

Observed ==
    /\ job.pc = "observe" /\ job.todo = {}
    /\ Go("list") /\ UNCHANGED <<outside, seen, plan, report, moved, changes>>

\* The state files: listed, read one by one, and listed again. Each file is
\* written by renaming, so the two reads the code makes of it are one.
ListWorkspaces ==
    /\ job.pc = "list"
    /\ seen' = [seen EXCEPT !.listed = DOMAIN others]
    /\ job' = [job EXCEPT !.pc = "look"]
    /\ UNCHANGED <<outside, plan, report, moved, changes>>

LookWorkspace ==
    /\ job.pc = "look"
    /\ \E n \in seen.listed \ DOMAIN seen.others :
        IF n \in DOMAIN others
        THEN /\ seen' = [seen EXCEPT !.others = With(@, n, others[n])]
             /\ UNCHANGED <<outside, job, plan, report, moved, changes>>
        ELSE Refused

\* The default state was read before the observations, and must be the same.
LookDefaultState ==
    /\ job.pc = "look" /\ seen.listed = DOMAIN seen.others
    /\ IF state = seen.early THEN Read([seen EXCEPT !.state = state], "relist") ELSE Refused

RelistWorkspaces ==
    /\ job.pc = "relist"
    /\ IF DOMAIN others = seen.listed THEN Read([seen EXCEPT !.listed = {}], "retained") ELSE Refused

ReadRetained ==
    /\ job.pc = "retained"
    /\ Read([seen EXCEPT !.retained = retained], "list-recovery")

\* The two directories of unresolved operations, each listed twice.
ListRecords(k, pc, next) ==
    /\ job.pc = pc
    /\ Read([seen EXCEPT !.records = @ \cup (records \cap {k})], next)

RelistRecords(k, pc, next) ==
    /\ job.pc = pc
    /\ IF seen.records \cap {k} = records \cap {k} THEN Read(seen, next) ELSE Refused

ListRecovery == ListRecords("recovery", "list-recovery", "relist-recovery")
RelistRecovery == RelistRecords("recovery", "relist-recovery", "list-updates")
ListUpdates == ListRecords("journal", "list-updates", "relist-updates")
RelistUpdates == RelistRecords("journal", "relist-updates", "build")

----------------------------------------------------------------------------
(* Deciding. *)

\* What the captures of an update have to agree on; the advertised commits are
\* left out of the observations, but the rows name them.
Baseline(s) == [project |-> s.project, workspace |-> s.workspace, current |-> s.current, state |-> s.state,
                config |-> s.config, registry |-> s.registry, retained |-> s.retained, rows |-> Rows(s),
                observed |-> [r \in DOMAIN s.observed |-> [s.observed[r] EXCEPT !.advertised = None]]]

\* Accepted: the plan is kept and the project lock is taken.
Plan ==
    /\ job.pc = "build" /\ job.kind = "update" /\ ~job.locked
    /\ MayUpdate(seen)
    /\ plan' = Baseline(seen)
    /\ job' = [job EXCEPT !.pc = "lock"]
    /\ UNCHANGED <<outside, seen, report, moved, changes>>

\* The dry run ends with the plan.
DryRun ==
    /\ job.pc = "lock"
    /\ End("planned", {}) /\ UNCHANGED outside

RefusePlan ==
    /\ job.pc = "build" /\ job.kind = "update" /\ ~MayUpdate(seen)
    /\ Refused

\* Mutant: the update runs from its first capture.
LockOnly ==
    /\ job.pc = "lock"
    /\ job' = [job EXCEPT !.pc = "build", !.locked = TRUE]
    /\ UNCHANGED <<outside, seen, plan, report, moved, changes>>

\* The locked capture starts from the planned project, workspace and candidate.
Lock ==
    /\ job.pc = "lock"
    /\ seen' = [Blank EXCEPT !.project = seen.project, !.workspace = seen.workspace, !.candidate = seen.candidate]
    /\ job' = [job EXCEPT !.pc = "config", !.locked = TRUE]
    /\ UNCHANGED <<outside, plan, report, moved, changes>>

Agrees == MayUpdate(seen) /\ Baseline(seen) = plan

Disagree ==
    /\ job.pc = "build" /\ job.locked /\ ~Agrees
    /\ Refused

HeadAfter(r) ==
    IF Row(seen, r).class \in {"added", "fast-forwardable"} THEN Row(seen, r).advertised ELSE Row(seen, r).head

\* Mutant: the heads before the update are recorded.
StateAfterStale ==
    [r \in DOMAIN seen.candidate.repos |-> [branch |-> seen.candidate.repos[r].branch, head |-> Row(seen, r).head]]

\* The manifest's branch is recorded, also for a companion that is on another.
StateAfter ==
    [r \in DOMAIN seen.candidate.repos |-> [branch |-> seen.candidate.repos[r].branch, head |-> HeadAfter(r)]]

\* The update itself. The base's new head must track the candidate, or the
\* update is rolled back.
Apply ==
    /\ job.pc = "build" /\ job.locked /\ Agrees
    /\ IF Tracked[HeadAfter(Root)] # seen.candidate THEN Refused
       ELSE /\ End("applied", {})
            /\ checkouts' = [r \in Repositories |->
                            CASE r \in Added(seen) -> Checkout(seen.candidate.repos[r], HeadAfter(r))
                              [] r \in Common(seen)  -> [checkouts[r] EXCEPT !.head = HeadAfter(r)]
                              [] OTHER             -> checkouts[r]]
            /\ fetched' = [r \in Repositories |-> IF r \in Added(seen) THEN {HeadAfter(r)} ELSE fetched[r]]
            /\ working' = seen.candidate
            /\ config' = [base |-> seen.candidate.base, repos |-> LocalOf(seen.candidate.repos)]
            /\ registry' = [r \in DOMAIN seen.candidate.repos |->
                                IF r \in Added(seen) THEN "own" ELSE seen.project.git[r]]
            /\ state' = StateAfter
            /\ retained' = Retained(seen)
            /\ UNCHANGED <<others, records, ignored, tip, source>>

\* doctor's answer; a failed observation is an error, not a report.
Report ==
    /\ job.pc = "build" /\ job.kind = "doctor"
    /\ IF seen.current = NoManifest THEN End("report", FallbackFindings(seen))
       ELSE IF seen.errors # {} THEN End("refused", {})
       ELSE End("report", DriftFindings(seen))
    /\ UNCHANGED outside

----------------------------------------------------------------------------
(* What goes on meanwhile. *)

Disturb ==
    /\ changes < MaxChanges /\ changes' = changes + 1
    /\ moved' = (moved \/ job.pc = "idle")
    /\ job' = [job EXCEPT !.change = IF job.pc = "idle" THEN None
                                     ELSE IF job.locked THEN "locked" ELSE "unlocked"]
    /\ UNCHANGED <<seen, plan, report>>

\* A commit of the base may uncover a mount.
UserCommits(r) ==
    /\ Disturb
    /\ checkouts[r].there = "checkout" /\ checkouts[r].branch # None
    /\ \E c \in Commits : /\ <<checkouts[r].head, c>> \in Forward
                          /\ checkouts' = [checkouts EXCEPT ![r].head = c]
                          /\ working' = IF r = Root /\ Tracked[c] # NoManifest THEN Tracked[c] ELSE working
    /\ ignored' \in {ignored} \cup {[ignored EXCEPT ![q] = "none"] : q \in IF r = Root THEN Repositories \ {Root} ELSE {}}
    /\ UNCHANGED <<config, registry, state, others, retained, records, fetched, tip, source>>

UserChanges(r) ==
    /\ Disturb
    /\ \E d \in {[checkouts[r] EXCEPT !.clean = FALSE], [checkouts[r] EXCEPT !.branch = "topic"],
                 [checkouts[r] EXCEPT !.branch = None], [checkouts[r] EXCEPT !.upstream = "b"],
                 [checkouts[r] EXCEPT !.git = "other"], Nowhere} :
        /\ checkouts[r].there = "checkout" /\ d # checkouts[r] /\ (r = Root => d.there = "checkout")
        /\ checkouts' = [checkouts EXCEPT ![r] = d]
    /\ UNCHANGED <<config, registry, state, others, retained, records, working, ignored, fetched, tip, source>>

UserOccupies(r) ==
    /\ Disturb
    /\ checkouts[r].there = "none" /\ r \notin DOMAIN state
    /\ checkouts' = [checkouts EXCEPT ![r].there = "file"]
    /\ UNCHANGED <<config, registry, state, others, retained, records, working, ignored, fetched, tip, source>>

\* An uncommitted edit of the base's .gitignore.
UserIgnores(r) ==
    /\ Disturb
    /\ r # Root
    /\ \E i \in {"none", "working"} \ {ignored[r]} : ignored' = [ignored EXCEPT ![r] = i]
    /\ checkouts' = [checkouts EXCEPT ![Root].clean = FALSE]
    /\ UNCHANGED <<config, registry, state, others, retained, records, working, fetched, tip, source>>

\* repository branch --publish, or somebody editing the same two files.
BaselinePublished(r) ==
    /\ Disturb
    /\ r \in DOMAIN config.repos \cap DOMAIN working.repos
    /\ working' = [working EXCEPT !.repos[r].branch = "next"]
    /\ \E alsoConfig \in BOOLEAN :
        config' = IF alsoConfig THEN [config EXCEPT !.repos[r].branch = "next"] ELSE config
    /\ UNCHANGED <<registry, state, others, retained, records, checkouts, ignored, fetched, tip, source>>

RemoteChanges(r) ==
    /\ Disturb
    /\ \E c \in (Commits \cup {None}) \ {tip[r]} : tip' = [tip EXCEPT ![r] = c]
    /\ UNCHANGED <<config, registry, state, others, retained, records, checkouts, working, ignored, fetched, source>>

SourceChanges ==
    /\ Disturb
    /\ \E m \in Candidates \ {source} : source' = m
    /\ UNCHANGED <<config, registry, state, others, retained, records, checkouts, working, ignored, fetched, tip>>

\* Other wtree commands of the project, which hold its lock.
WorkspaceChanges ==
    /\ Disturb /\ ~job.locked
    /\ \/ others = NoEntries /\ \E ok \in BOOLEAN :
            others' = With(NoEntries, "w", [repos |-> DOMAIN config.repos, valid |-> ok])
       \/ others # NoEntries /\ others' = NoEntries
    /\ UNCHANGED <<config, registry, state, retained, records, checkouts, working, ignored, fetched, tip, source>>

\* A command that failed leaves a record, one that was killed a journal, and
\* recovery removes it.
RecordChanges ==
    /\ Disturb /\ ~job.locked
    /\ \E k \in {"recovery", "journal"} :
        records' = IF k \in records THEN records \ {k} ELSE records \cup {k}
    /\ UNCHANGED <<config, registry, state, others, retained, checkouts, working, ignored, fetched, tip, source>>

\* A command that records where the checkouts are now.
StateRefreshed ==
    /\ Disturb /\ ~job.locked
    /\ LET new == [r \in DOMAIN state |-> [branch |-> checkouts[r].branch, head |-> checkouts[r].head]]
       IN new # state /\ state' = new
    /\ UNCHANGED <<config, registry, others, retained, records, checkouts, working, ignored, fetched, tip, source>>

Change ==
    \/ \E r \in Repositories : \/ UserCommits(r) \/ UserChanges(r) \/ UserOccupies(r) \/ UserIgnores(r)
                               \/ BaselinePublished(r) \/ RemoteChanges(r)
    \/ SourceChanges \/ WorkspaceChanges \/ RecordChanges \/ StateRefreshed

Collect ==
    \/ \E kind \in {"update", "doctor"} : StartCommand(kind)
    \/ ReadConfig \/ LoadCandidate \/ ReadBase \/ ReadRegistry \/ ReadDefaultState
    \/ (\E r \in Repositories : ObserveExisting(r) \/ ObserveAdded(r)) \/ Observed
    \/ ListWorkspaces \/ LookWorkspace \/ LookDefaultState \/ RelistWorkspaces
    \/ ReadRetained \/ ListRecovery \/ RelistRecovery \/ ListUpdates \/ RelistUpdates

Decide == Plan \/ DryRun \/ RefusePlan \/ Lock \/ Disagree \/ Apply \/ Report

PlanningNext == Collect \/ Decide \/ Change

PlanningSpec == PlanningInit /\ [][PlanningNext]_planningVars

----------------------------------------------------------------------------
(* Properties. *)

\* A checkout an update may move: what it is known to be, clean, and where the
\* state file says.
Settled(r) ==
    /\ checkouts[r].there = "checkout" /\ checkouts[r].git = registry[r] /\ IsClean(r)
    /\ checkouts[r].branch # None /\ state[r] = [branch |-> checkouts[r].branch, head |-> checkouts[r].head]

\* What the specification of wtree update asks of a project before it may be
\* updated to the source's manifest (the update must not delete a repository,
\* overwrite local changes, divergent branches or an occupied target, change an
\* identity, or touch generated workspaces).
SafeToUpdate ==
    LET now == Tracked[checkouts[Root].head]
        kept == DOMAIN now.repos \cap DOMAIN source.repos
    IN /\ records = {}
       /\ config = [base |-> now.base, repos |-> LocalOf(now.repos)] /\ source.base = now.base
       /\ \A r \in DOMAIN now.repos : Settled(r) /\ checkouts[r].upstream = now.repos[r].source
       /\ \A r \in kept : /\ source.repos[r].mount = now.repos[r].mount
                          /\ source.repos[r].parent = now.repos[r].parent
                          /\ tip[r] = checkouts[r].head \/ <<checkouts[r].head, tip[r]>> \in Forward
       /\ \A r \in DOMAIN now.repos : ~now.repos[r].companion => checkouts[r].branch = now.repos[r].branch
       /\ \A r \in DOMAIN source.repos \ DOMAIN now.repos : checkouts[r].there = "none" /\ tip[r] # None
       /\ \A r \in DOMAIN source.repos : source.repos[r].parent # None => ignored[r] # "none"
       /\ \A n \in DOMAIN others : others[n].valid /\ DOMAIN source.repos = DOMAIN now.repos

\* A plan made while nothing changed is made for a project that may be updated:
\* wtree update (and its dry run) accepts nothing the specification forbids.
AcceptedIsSafe == job.pc = "lock" /\ job.change = None => SafeToUpdate

\* The other way round: a project that may be updated is not refused. Retained
\* repositories are another question (RetainedDoesNotBlock). Refused all the same
\* are a candidate that gives a kept repository a new contract, or adds a
\* repository into one it adds too, and a removed repository that is off its
\* baseline or whose remote is gone (it is asked, and not answering refuses).
SafeIsAccepted ==
    (/\ job.pc = "build" /\ job.kind = "update" /\ ~job.locked /\ job.change = None
     /\ retained = NoEntries /\ SafeToUpdate /\ \A r \in Declared(seen) : tip[r] # None
     /\ \A r \in Common(seen) : /\ seen.candidate.repos[r] = seen.current.repos[r]
                              /\ tip[r] \in fetched[r] \cup {checkouts[r].head}
                              /\ checkouts[r].merge = seen.current.repos[r].branch
     /\ \A r \in Added(seen) : seen.candidate.repos[r].parent \in DOMAIN seen.current.repos \cup {None}
     /\ \A r \in Removed(seen) : /\ checkouts[r].branch = seen.current.repos[r].branch
                                 /\ checkouts[r].merge = seen.current.repos[r].branch)
    => MayUpdate(seen)

Applying == job.locked /\ job'.pc = "idle" /\ report'.outcome = "applied"

\* An update changes a project only as it is under the lock: whatever changed
\* since it was planned, only settled checkouts move, only forward, occupied
\* targets and removed repositories stay, and nothing is unresolved. (A user who
\* acts after the locked capture meets the checks of the single effects.)
AppliedIsSafe ==
    [][Applying /\ job.change # "locked" =>
        /\ records = {}
        /\ \A r \in Repositories :
            \/ checkouts'[r] = checkouts[r]
            \/ checkouts[r].there = "none" /\ r \notin DOMAIN state
            \/ Settled(r) /\ <<checkouts[r].head, checkouts'[r].head>> \in Forward
        /\ \A r \in DOMAIN state \ DOMAIN state' : checkouts'[r] = checkouts[r] /\ retained'[r] = registry[r]
        /\ \A n \in DOMAIN others : others[n].repos = DOMAIN state']_planningVars

\* The update does what its plan said, also where only a remote changed between
\* planning and locking.
AppliesThePlan ==
    [][Applying =>
        /\ DOMAIN plan.rows = DOMAIN state' \cup DOMAIN retained'
        /\ \A r \in DOMAIN state' :
            state'[r].head = IF plan.rows[r].class \in {"added", "fast-forwardable"}
                             THEN plan.rows[r].advertised ELSE plan.rows[r].head]_planningVars

Repeats ==
    /\ job.pc = "build" /\ job.kind = "update" /\ ~job.locked
    /\ report.kind = "update" /\ report.outcome = "applied" /\ report.quiet
    /\ ~moved /\ job.change = None

AllUnchanged == MayUpdate(seen) /\ \A r \in Declared(seen) : Row(seen, r).class = "unchanged"

\* After an update nothing is left to update: the files it published and the
\* checkouts it moved are the ones the next plan finds in order. Retained
\* repositories and companions on another branch than their baseline are
\* excepted, see RetainedDoesNotBlock and StateFollowsCheckouts.
RepeatIsQuiet ==
    /\ Repeats /\ retained = NoEntries
    /\ \A r \in DOMAIN seen.current.repos : checkouts[r].branch = seen.current.repos[r].branch
    => AllUnchanged

\* The same for an update that retained a repository the candidate removed; a
\* test of drift_snapshot.go says that the retained checkout is history then and
\* does not block a later update.
RetainedDoesNotBlock == Repeats => MayUpdate(seen)

\* A companion on no branch, or elsewhere than its state file says: its
\* classification ends there, with a check that is no finding.
Unbound(r) ==
    /\ config.repos[r].companion
    /\ checkouts[r].branch = None \/ state[r] # [branch |-> checkouts[r].branch, head |-> checkouts[r].head]

\* A companion may be on another branch than its baseline when the default
\* workspace's state says so, and changing the baseline leaves that state alone:
\* an update must not record a branch the checkout is not on.
StateFollowsCheckouts ==
    (/\ job.pc = "idle" /\ report.kind = "update" /\ report.outcome = "applied" /\ report.quiet /\ ~moved)
    => \A r \in DOMAIN state : state[r].branch = checkouts[r].branch

\* wtree doctor says nothing of a project (whose checkouts are clean) only when
\* its files, its checkouts and its records are in order.
SilentReportIsTrue ==
    (/\ job.pc = "idle" /\ report.kind = "doctor" /\ report.outcome = "report" /\ report.quiet /\ ~moved
     /\ report.findings = {} /\ \A r \in Repositories \ {Root} : checkouts[r].clean)
    => /\ records = {} /\ retained = NoEntries
       /\ DOMAIN state = DOMAIN config.repos
       /\ IsClean(Root) =>
          /\ config = [base |-> Root, repos |-> LocalOf(Tracked[checkouts[Root].head].repos)]
          /\ \A r \in DOMAIN config.repos :
            /\ checkouts[r].there = "checkout" /\ checkouts[r].git = registry[r]
            /\ config.repos[r].parent # None /\ ~Unbound(r) => ignored[r] = "committed"
            /\ ~config.repos[r].companion => /\ checkouts[r].branch = config.repos[r].branch
                                             /\ checkouts[r].upstream = working.repos[r].source
================================================================================
