----------------------------- MODULE DriftSnapshot -----------------------------
(***************************************************************************)
(* The classification of internal/service/drift_snapshot.go, as a function *)
(* of what a collection captured.  wtree update plans from it with the     *)
(* remote refs required, wtree doctor and wtree status report from it      *)
(* without them.                                                           *)
(*                                                                         *)
(* A manifest is a record of its base and of a contract per repository.    *)
(* Paths follow the mounts; the clone URL, the upstream remote and the     *)
(* initial commits are one field, "source".                                *)
(***************************************************************************)
EXTENDS Naturals, FiniteSets, Sequences

CONSTANTS
    Repositories,  \* repository ids
    Root,          \* the base repository
    None,
    Commits

\* What None stands apart from.
Checks == {"mount-change", "repository-contract", "configuration-contract", "checkout", "identity",
           "cleanliness", "checkout-authority", "branch", "upstream", "tracked-manifest",
           "parent-ignore", "advertised-ref", "ancestry", "occupied-target",
           "removed-retained-contract", "removed-retained", "retained-unmanaged", "local-config",
           "registry-generation", "current-manifest-base", "current-manifest-repository-set",
           "base-repository", "current-manifest-configuration", "workspace-state",
           "unresolved-operation", "non-default-workspace-repository-set-change", "disk-only",
           "state-only", "default-state", "workspace-path", "upstream-observation",
           "parent-workspace-path", "advertised-ref-observation"}
Values == {"main", "next", "topic", "a", "b", "own", "other", "locked", "unlocked", "update", "doctor"}

Codes == {"manifest-repository-missing", "manifest-repository-unmanaged", "source-identity-mismatch",
          "branch-mismatch", "parent-ignore-missing", "retained-unmanaged-repository",
          "repository-upstream-mismatch", "manifest-configuration-mismatch"}

ASSUME DriftAssumption ==
    /\ Root \in Repositories /\ IsFiniteSet(Repositories)
    /\ None \notin Repositories \cup Commits /\ None \notin Checks \cup Values \cup Codes

Contract == [parent: Repositories \cup {None}, mount: {"here", "there"}, branch: {"main", "next"},
             companion: BOOLEAN, source: {"a", "b"}]

\* What the resolved project and the local configuration repeat of a contract.
Local(c) == [parent |-> c.parent, mount |-> c.mount, branch |-> c.branch, companion |-> c.companion]
LocalOf(repos) == [r \in DOMAIN repos |-> Local(repos[r])]

\* One observation; head and advertised are None when there is none, branch is
\* None when HEAD is detached.
Observation == [absent: BOOLEAN, occupied: BOOLEAN, identity: BOOLEAN, git: {"own", "other", None},
                clean: BOOLEAN, branch: {"main", "next", "topic", None}, head: Commits \cup {None},
                upstream: {"a", "b", None}, merge: {"main", "next", "topic", None},
                exact: BOOLEAN, ignored: BOOLEAN, advertised: Commits \cup {None}, forward: BOOLEAN]

Unobserved == [absent |-> TRUE, occupied |-> FALSE, identity |-> FALSE, git |-> None, clean |-> FALSE,
               branch |-> None, head |-> None, upstream |-> None, merge |-> None, exact |-> FALSE,
               ignored |-> FALSE, advertised |-> None, forward |-> FALSE]

ObservationOf(s, r) == IF r \in DOMAIN s.observed THEN s.observed[r] ELSE Unobserved

\* The first of a list of refusals that applies, or what holds without one.
First(refusals, otherwise) ==
    LET hit == {i \in 1..Len(refusals) : refusals[i].when}
    IN IF hit = {} THEN otherwise ELSE refusals[CHOOSE i \in hit : \A j \in hit : i <= j]

Refuse(when, class, check) == [when |-> when, class |-> class, check |-> check]

----------------------------------------------------------------------------
(* One repository. *)

ProjectAgrees(s, r) == r \in DOMAIN s.project.repos /\ s.project.repos[r] = Local(s.current.repos[r])

IdentityHolds(s, r) ==
    LET o == ObservationOf(s, r) IN o.identity /\ o.git = s.project.git[r]

\* A companion's default checkout may be on another branch than the baseline
\* when the state file says so.
CompanionIsBound(s, r) ==
    LET o == ObservationOf(s, r) IN
    /\ r \in DOMAIN s.workspace
    /\ s.workspace[r].branch # None /\ s.workspace[r] = [branch |-> o.branch, head |-> o.head]

ExpectedBranch(s, r) ==
    IF s.current.repos[r].companion THEN s.workspace[r].branch ELSE s.current.repos[r].branch

\* Mutant: any upstream will do.
UpstreamSet(s, r) == ObservationOf(s, r).upstream # None

UpstreamHolds(s, r) ==
    LET o == ObservationOf(s, r)
        c == s.current.repos[r]
    IN o.upstream = c.source /\ (c.companion \/ o.merge = c.branch)

Moved(s, r) == LET o == ObservationOf(s, r) IN s.remote /\ o.advertised # o.head

ClassifyExisting(s, r) ==
    LET o == ObservationOf(s, r)
        cur == s.current.repos[r]
        cand == s.candidate.repos[r]
        refusals == <<
            Refuse(cur.mount # cand.mount, "mount-change-blocked", "mount-change"),
            Refuse(\/ cur.parent # cand.parent \/ cur.branch # cand.branch \/ cur.source # cand.source,
                   "structurally-inconsistent", "repository-contract"),
            Refuse(~ProjectAgrees(s, r), "structurally-inconsistent", "configuration-contract"),
            Refuse(o.absent, "missing", "checkout"),
            Refuse(~IdentityHolds(s, r), "structurally-inconsistent", "identity"),
            Refuse(~o.clean, "dirty", "cleanliness"),
            Refuse(cur.companion /\ ~CompanionIsBound(s, r), "structurally-inconsistent", "checkout-authority"),
            Refuse(o.branch = None \/ o.branch # ExpectedBranch(s, r), "divergent", "branch"),
            Refuse(~UpstreamHolds(s, r), "structurally-inconsistent", "upstream"),
            Refuse(r = Root /\ ~o.exact, "structurally-inconsistent", "tracked-manifest"),
            Refuse(cur.parent # None /\ ~o.ignored, "structurally-inconsistent", "parent-ignore"),
            Refuse(s.remote /\ o.advertised = None, "structurally-inconsistent", "advertised-ref"),
            Refuse(Moved(s, r) /\ ~o.forward, "divergent", "ancestry")>>
    IN First(refusals, Refuse(FALSE, IF Moved(s, r) THEN "fast-forwardable" ELSE "unchanged", None))

\* A repository the candidate adds: every refusal that applies is reported.
AddedChecks(s, r) ==
    LET o == ObservationOf(s, r) IN
    {c \in {"occupied-target", "parent-ignore", "advertised-ref"} :
        CASE c = "occupied-target" -> ~o.absent \/ o.occupied
          [] c = "parent-ignore"   -> s.candidate.repos[r].parent # None /\ ~o.ignored
          [] OTHER                 -> o.advertised = None}

RetainedFact(s, r) == ObservationOf(s, r).git

\* A repository the candidate removes is kept where it is, if it is exactly
\* what the project knows.
ClassifyRemoved(s, r) ==
    LET o == ObservationOf(s, r)
        cur == s.current.repos[r]
        refusals == <<
            Refuse(~ProjectAgrees(s, r), "removed-retained", "removed-retained-contract"),
            Refuse(o.absent, "removed-retained", "removed-retained"),
            Refuse(~IdentityHolds(s, r), "removed-retained", "removed-retained"),
            Refuse(~o.clean \/ o.branch # cur.branch, "removed-retained", "removed-retained"),
            Refuse(o.upstream # cur.source \/ o.merge # cur.branch, "removed-retained", "upstream"),
            Refuse(r \in DOMAIN s.retained /\ s.retained[r] # RetainedFact(s, r),
                   "removed-retained", "retained-unmanaged")>>
    IN First(refusals, Refuse(FALSE, "removed-retained", None))

----------------------------------------------------------------------------
(* The whole snapshot. *)

Common(s) == DOMAIN s.candidate.repos \cap DOMAIN s.current.repos
Added(s) == DOMAIN s.candidate.repos \ DOMAIN s.current.repos
Removed(s) == DOMAIN s.current.repos \ DOMAIN s.candidate.repos
Declared(s) == DOMAIN s.candidate.repos \cup DOMAIN s.current.repos

LocalConfigChecks(s) ==
    IF s.config.base = s.project.base /\ LocalOf(s.config.repos) = s.project.repos
    THEN {} ELSE {"local-config"}

RegistryChecks(s) ==
    IF s.registry = s.project.git THEN {} ELSE {"registry-generation"}

ManifestChecks(s) ==
    {c \in {"current-manifest-base", "current-manifest-repository-set", "base-repository"} :
        CASE c = "current-manifest-base" -> s.current.base # s.project.base
          [] c = "base-repository"       -> s.candidate.base # s.current.base
          [] OTHER -> Cardinality(DOMAIN s.current.repos) # Cardinality(DOMAIN s.project.repos)}

ManifestConfigurationFailures(s) ==
    {<<r, "current-manifest-configuration">> : r \in {q \in DOMAIN s.current.repos : ~ProjectAgrees(s, q)}}

\* The state file, the resolved workspace and the observed checkouts are one.
DefaultStateHolds(s) ==
    /\ s.state = s.workspace
    /\ \A r \in DOMAIN s.workspace :
        /\ r \in DOMAIN s.observed
        /\ s.workspace[r] = [branch |-> s.observed[r].branch, head |-> s.observed[r].head]

WorkspaceChecks(s) ==
    IF \A n \in DOMAIN s.others : s.others[n].valid THEN {} ELSE {"workspace-state"}

OperationChecks(s) == IF s.records = {} THEN {} ELSE {"unresolved-operation"}

\* Mutant: another workspace blocks every update.
SetChangeAlways(s) ==
    IF DOMAIN s.others # {} THEN {"non-default-workspace-repository-set-change"} ELSE {}

SetChangeChecks(s) ==
    IF DOMAIN s.others # {} /\ DOMAIN s.current.repos # DOMAIN s.candidate.repos
    THEN {"non-default-workspace-repository-set-change"} ELSE {}

\* A checkout retained by an earlier update.  Of one no manifest declares any more
\* the code names a wrong path apart from a wrong identity; a checkout is at its
\* mount here, so that both are "identity".
DiffersFromFact(s, r) == ~ObservationOf(s, r).identity \/ ObservationOf(s, r).git # s.retained[r]

RetainedFailures(s) ==
    {<<r, "retained-unmanaged">> : r \in {q \in DOMAIN s.retained :
        \/ q \notin Declared(s) /\ ObservationOf(s, q).absent
        \/ q \in DOMAIN s.candidate.repos
        \/ q \in Removed(s) /\ (ObservationOf(s, q).absent \/ DiffersFromFact(s, q))}}
    \cup {<<r, "identity">> : r \in {q \in DOMAIN s.retained \ Declared(s) :
        ~ObservationOf(s, q).absent /\ DiffersFromFact(s, q)}}

\* Rows are reported parents first; the order is left out.
UnexpectedFailures(s) ==
    {<<r, "disk-only">> : r \in DOMAIN s.observed \ (Declared(s) \cup DOMAIN s.retained)}

StateOnlyFailures(s) ==
    LET named == DOMAIN s.state \cup UNION {s.others[n].repos : n \in DOMAIN s.others}
    IN {<<r, "state-only">> : r \in named \ (Declared(s) \cup DOMAIN s.retained \cup DOMAIN s.observed)}

Row(s, r) ==
    CASE r \in Common(s) -> [class |-> ClassifyExisting(s, r).class, head |-> ObservationOf(s, r).head,
                            advertised |-> ObservationOf(s, r).advertised]
      [] r \in Added(s) -> [class |-> "added", head |-> None, advertised |-> ObservationOf(s, r).advertised]
      [] OTHER          -> [class |-> "removed-retained", head |-> ObservationOf(s, r).head,
                            advertised |-> ObservationOf(s, r).advertised]

Rows(s) == [r \in Declared(s) \cup DOMAIN s.retained |-> Row(s, r)]

RepositoryFailures(s) ==
    {<<r, ClassifyExisting(s, r).check>> : r \in Common(s)}
    \cup {<<r, ClassifyRemoved(s, r).check>> : r \in Removed(s)}
    \cup UNION {{<<r, c>> : c \in AddedChecks(s, r)} : r \in Added(s)}

ProjectFailures(s) ==
    {<<"project", c>> : c \in LocalConfigChecks(s) \cup RegistryChecks(s) \cup ManifestChecks(s)
                              \cup WorkspaceChecks(s) \cup OperationChecks(s) \cup SetChangeChecks(s)
                              \cup (IF DefaultStateHolds(s) THEN {} ELSE {"default-state"})}

\* buildDriftSnapshot: a failed observation refuses before anything is classified.
Failures(s) ==
    IF s.errors # {} THEN s.errors
    ELSE {f \in ProjectFailures(s) \cup RepositoryFailures(s) \cup ManifestConfigurationFailures(s)
                \cup RetainedFailures(s) \cup UnexpectedFailures(s) \cup StateOnlyFailures(s) : f[2] # None}

MayUpdate(s) == Failures(s) = {}

\* What an accepted removal adds to the retained checkouts.
Retained(s) == [r \in Removed(s) |-> RetainedFact(s, r)]

----------------------------------------------------------------------------
(* The findings of wtree doctor (doctor_drift.go). *)

FindingCode(f) ==
    CASE f[2] = "checkout"                   -> "manifest-repository-missing"
      [] f[2] \in {"state-only", "disk-only"} -> "manifest-repository-unmanaged"
      [] f[2] = "identity"                   -> "source-identity-mismatch"
      [] f[2] = "branch"                     -> "branch-mismatch"
      [] f[2] = "parent-ignore"              -> "parent-ignore-missing"
      [] f[2] = "retained-unmanaged"         -> "retained-unmanaged-repository"
      [] f[2] = "upstream"                   -> "repository-upstream-mismatch"
      [] f[2] \in {"configuration-contract", "current-manifest-configuration", "tracked-manifest",
                   "current-manifest-repository-set", "current-manifest-base", "local-config",
                   "registry-generation"}    -> "manifest-configuration-mismatch"
      [] OTHER                               -> None

OperationFindings(records) ==
    {IF k = "journal" THEN "update-in-progress" ELSE "update-recovery-record" : k \in records}

\* A failure and an expected retention of one repository are one finding.
DriftFindings(s) ==
    ({FindingCode(f) : f \in Failures(s)} \ {None})
    \cup {"retained-unmanaged-repository" : r \in DOMAIN s.retained}
    \cup OperationFindings(s.records)

\* Without the tracked manifest only what is on record is reported.
FallbackFindings(s) ==
    {"manifest-configuration-mismatch"} \cup {"retained-unmanaged-repository" : r \in DOMAIN s.retained}
    \cup OperationFindings(s.records)
================================================================================
