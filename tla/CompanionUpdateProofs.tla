-------------------------- MODULE CompanionUpdateProofs --------------------------
(***************************************************************************)
(* Proofs about CompanionUpdate, for any history, any number of workspaces *)
(* and commands, and any number of faults, crashes and moves of the user.  *)
(*                                                                         *)
(* The invariant follows the entry at work through every phase (Progress): *)
(* how far branch and files are, while the user left them alone (Stage),   *)
(* the state file (StateStage), and what of it would be residue            *)
(* (Residues).  Everything not at work and not moved is as planned         *)
(* (Others, OwnerFree, OwnerHeld).                                         *)
(***************************************************************************)
EXTENDS CompanionUpdate, TLAPS

Working == {"forward", "files", "cleanup", "look", "forwardFailed", "decide", "publish",
            "readback", "restoreState", "stateSettled", "back", "restored", "backFailed", "record"}
Preparing == {"planned", "fetch", "baseline"}
Phases == Ended \cup Preparing \cup Working \cup {"forwardRef", "confirmRef", "emit", "next", "check"}

Jobs == [pc: Phases, cur: Entries \cup {None}, from: Commits \cup {None}, to: Commits \cup {None},
         held: BOOLEAN, moved: BOOLEAN, back: BOOLEAN, replaced: BOOLEAN, installed: BOOLEAN,
         stateErr: BOOLEAN, refErr: BOOLEAN, stopped: BOOLEAN]

Planned ==
    /\ plan.head = plan.ref[Base] /\ plan.ref \in [Entries -> Commits]
    /\ plan.tree \in [Workspaces -> Tree] /\ plan.state \in [Workspaces -> Commits \cup {"invalid", "theirs"}]

-----------------------------------------------------------------------------
(* What is as planned, and what is not what the command would have left     *)

RefKept(e) == e \notin touched => ref[e] = plan.ref[e]
TreeKept(w) == w \notin touched \/ Branch(w) \notin touched => tree[w] = plan.tree[w]
StateKept(w) == w \notin touched => state[w] = plan.state[w]

\* A branch, the files and a state file that are at the target were there when planned.
OldRef(r, planned, target) == r = target => planned = target
OldTree(t, planned, target) == t.at \in {target, "partial"} /\ t.on = "branch" => t.at = planned.at
OldState(s, planned, target) == s = target => planned = target

RefIsOld(e) == OldRef(ref[e], plan.ref[e], Target)
TreeIsOld(w) == OldTree(tree[w], plan.tree[w], Target)
StateIsOld(w) == OldState(state[w], plan.state[w], Target)

AtWork(e) == job.pc \in Working /\ job.cur = e

\* Nothing was done for this entry yet; or nothing that stayed.
Waiting(e) == ~AtWork(e) /\ job.pc \notin Ended /\ entries[e].status = "none"
Open(e) == Waiting(e) \/ (entries[e].status \in {"failed", "canceled"} /\ ~entries[e].incomplete)

Others ==
    \A w \in Workspaces \ {owner} :
        /\ Open(w) => RefKept(w) /\ TreeKept(w) /\ StateKept(w)
        /\ Waiting(w) => RefIsOld(w) /\ TreeIsOld(w) /\ StateIsOld(w)

\* The owner of the baseline: nothing is done in its checkout but with the baseline.
OwnerFree ==
    owner # None /\ ~job.held =>
        TreeKept(owner) /\ StateKept(owner) /\ TreeIsOld(owner) /\ StateIsOld(owner)

OwnerHeld ==
    job.held =>
        /\ owner # None /\ entries[owner] = Unsettled
        /\ Open(Base) => RefKept(Base) /\ TreeKept(owner) /\ StateKept(owner)
        /\ Waiting(Base) => RefIsOld(Base) /\ TreeIsOld(owner) /\ StateIsOld(owner)

OwnRef == owner # None => RefIsOld(owner)

Before ==
    job.pc \in Preparing =>
        ~job.held /\ RefKept(Base) /\ RefIsOld(Base) /\ \A e \in Entries : entries[e] = Unsettled

\* A baseline that is not checked out stays so in the workspace it belongs to.
Away ==
    job.pc \notin Ended \cup Preparing /\ ~job.held /\ owner # None => tree[owner].on # "branch"

Whole == job.pc \notin Ended => \A e \in Entries : ~entries[e].incomplete

Current ==
    /\ job.pc \in Working \cup {"check"} => job.cur \in Entries /\ entries[job.cur] = Unsettled
    /\ job.pc \in Working =>
         /\ job.cur # owner
         /\ job.cur = Base /\ ~job.held => job.pc = "record" /\ job.refErr /\ ~job.stateErr
    /\ job.pc = "check" => job.cur \in Workspaces /\ ~(job.held /\ job.cur = owner)
    /\ job.pc \in {"forwardRef", "confirmRef"} =>
         /\ job.cur = Base /\ ~job.held /\ entries[Base] = Unsettled
         /\ job.to \in Commits /\ ~job.stateErr /\ ~job.refErr

-----------------------------------------------------------------------------
(* The entry at work                                                        *)

Settling == {"decide", "publish", "readback", "restoreState", "stateSettled", "back"}
InTransit == {"files", "cleanup", "look"}

SourceOf(j) == IF j.back THEN j.to ELSE j.from
GoalOf(j) == IF j.back THEN j.from ELSE j.to

Flags(j, target) ==
    /\ j.from \in Commits /\ j.to \in Commits /\ (j.to = target \/ j.from = j.to)
    /\ j.moved \/ j.pc \in InTransit \cup {"forward", "forwardFailed", "back", "restored"}
         => j.from # j.to
    /\ j.moved \/ j.pc \in InTransit \cup {"back", "restored"} => IsAncestor(j.from, j.to)
    /\ j.pc \in {"forward", "forwardFailed"} \cup Settling => ~j.back
    /\ (j.pc \in {"forward", "forwardFailed", "decide", "publish", "readback"}
            \/ (j.pc \in InTransit /\ ~j.back)) => ~j.stateErr

\* The files are those of a commit, and nothing else about the checkout changed.
Here(t, planned, at) == t = [planned EXCEPT !.at = at]

Stage(j, r, pr, t, pt) ==
    /\ pr = j.from /\ pt.at = j.from
    /\ j.pc \in {"forward", "restored"} => r = j.from /\ Here(t, pt, j.from)
    /\ j.pc = "files" => r = GoalOf(j) /\ Here(t, pt, SourceOf(j))
    /\ j.pc = "cleanup" => r = GoalOf(j) /\ (Here(t, pt, SourceOf(j)) \/ Here(t, pt, "partial"))
    /\ j.pc = "look" => r = GoalOf(j) /\ Here(t, pt, GoalOf(j))
    /\ j.pc = "forwardFailed" => r = j.to \/ (r = j.from /\ Here(t, pt, j.from))
    /\ j.pc \in Settling => IF j.moved THEN r = j.to /\ Here(t, pt, j.to)
                            ELSE r = j.from /\ Here(t, pt, j.from)

StateStage(j, s, ps) ==
    /\ j.pc \notin {"readback", "restoreState", "backFailed", "record"} => j.stateErr \/ s = ps
    /\ j.pc = "readback" => s = ps \/ s = j.to
    /\ j.pc = "restoreState" => j.stateErr \/ s = ps \/ (j.installed /\ s = j.to)

Residues(j, r, pr, t, pt, s, ps, target) ==
    /\ j.pc \notin {"readback", "restoreState"} => j.stateErr \/ OldState(s, ps, target)
    /\ j.pc = "readback" => s = j.to \/ OldState(s, ps, target)
    /\ j.pc = "restoreState" => j.stateErr \/ j.installed \/ OldState(s, ps, target)
    /\ (j.pc \in {"forward", "restored"} \/ (j.pc \in Settling /\ ~j.moved)
            \/ (j.pc = "record" /\ ~j.refErr))
         => OldRef(r, pr, target) /\ OldTree(t, pt, target)

\* The branch, the files and the state file of the entry at work.
Moving(j, r, pr, t, pt, s, ps, target, gitMine, stateMine) ==
    /\ Flags(j, target) /\ ps \in Commits
    /\ gitMine => Stage(j, r, pr, t, pt)
    /\ stateMine => StateStage(j, s, ps)
    /\ Residues(j, r, pr, t, pt, s, ps, target)

\* The user has not moved the checkout and its branch.
Mine == Moved \notin touched \/ Checkout \notin touched

InMotion ==
    Moving(job, ref[Moved], plan.ref[Moved], tree[Checkout], plan.tree[Checkout], state[Checkout],
           plan.state[Checkout], Target, Mine, Checkout \notin touched)

Progress == job.pc \in Working /\ (job.cur # Base \/ job.held) => InMotion

CInv ==
    /\ TypeOK /\ job \in Jobs
    /\ job.pc = "idle" => \A e \in Entries : entries[e] = Unsettled
    /\ job.pc # "idle" =>
         /\ Planned /\ Others /\ OwnerFree /\ OwnerHeld /\ OwnRef /\ Before /\ Away
         /\ Current /\ Progress
    /\ Whole /\ ResidueIsRecorded


-----------------------------------------------------------------------------
(* History, places and shapes                                               *)

LEMMA AncestryIsOrder ==
    ASSUME NEW a \in Commits, NEW b \in Commits, NEW c \in Commits
    PROVE  IsAncestor(a, a) /\ (IsAncestor(a, b) /\ IsAncestor(b, c) => IsAncestor(a, c))
  BY DEF IsAncestor, Ancestors

LEMMA SpecialIsNoCommit ==
    ASSUME NEW c \in Commits
    PROVE  c # "partial" /\ c # "invalid" /\ c # "theirs"
  BY HistoryAssumption

LEMMA UserCommitsAreNew ==
    ASSUME NEW c \in UserCommits, NEW t \in Fetched
    PROVE  c # t /\ ~IsAncestor(c, t) /\ c \in Commits /\ t \in Commits
  <1>1. c \in Commits /\ t \in Commits
    BY CompanionAssumption
  <1>2. ~IsAncestor(c, t)
    BY HistoryAssumption
  <1>3. IsAncestor(t, t)
    BY <1>1, AncestryIsOrder
  <1>. QED
    BY <1>1, <1>2, <1>3

LEMMA Branches ==
    ASSUME owner \in Workspaces \cup {None}, NEW v \in Workspaces, NEW w \in Workspaces
    PROVE  /\ Branch(w) \in Entries /\ (w # owner => Branch(w) = w)
           /\ (owner # None => Branch(owner) = Base /\ owner \in Workspaces)
           /\ (v # w => Branch(v) # Branch(w)) /\ w # Base /\ w # None
           /\ w \in Entries /\ Base \in Entries
  BY CompanionAssumption DEF Branch, Entries

\* Where the entry at work is.
LEMMA Busy ==
    ASSUME CInv, job.pc \in Working \ {"record"}
    PROVE  /\ TypeOK /\ job \in Jobs /\ Planned /\ InMotion
           /\ job.cur \in Entries /\ job.cur # owner /\ (job.cur # Base \/ job.held)
           /\ entries[job.cur] = Unsettled
           /\ Moved \in Entries /\ Checkout \in Workspaces /\ Branch(Checkout) = Moved
           /\ (job.cur = Base => Moved = Base /\ Checkout = owner)
           /\ (job.cur # Base => Moved = job.cur /\ Checkout = job.cur)
  <1>1. job.pc # "idle" /\ job.pc \in Working
    BY DEF Working
  <1>2. TypeOK /\ job \in Jobs /\ Planned /\ Current /\ Progress /\ OwnerHeld
    BY <1>1 DEF CInv
  <1>3. job.cur \in Entries /\ job.cur # owner /\ (job.cur # Base \/ job.held) /\ entries[job.cur] = Unsettled
    BY <1>1, <1>2 DEF Current, Jobs
  <1>4. job.cur = Base => owner # None
    BY <1>2, <1>3 DEF OwnerHeld
  <1>5. /\ Moved \in Entries /\ Checkout \in Workspaces /\ Branch(Checkout) = Moved
        /\ (job.cur = Base => Moved = Base /\ Checkout = owner)
        /\ (job.cur # Base => Moved = job.cur /\ Checkout = job.cur)
    BY <1>2, <1>3, <1>4, CompanionAssumption DEF TypeOK, Moved, Checkout, Branch, Entries
  <1>. QED
    BY <1>1, <1>2, <1>3, <1>5 DEF Progress

-----------------------------------------------------------------------------
(* What a step may do to the entries that are not at work                   *)

\* What the report of an entry that failed or was canceled stands for.
Kept(e) == IF e = Base THEN RefKept(Base) /\ (owner # None => TreeKept(owner) /\ StateKept(owner))
           ELSE RefKept(e) /\ TreeKept(e) /\ StateKept(e)

Accounted == Others /\ OwnerFree /\ OwnerHeld /\ OwnRef

Unmoved(w) == ref'[w] = ref[w] /\ tree'[w] = tree[w] /\ state'[w] = state[w]

\* An entry that has nothing done to it stays so, and one that is reported as
\* failed or canceled has been taken back.
LEMMA Accounts ==
    ASSUME CInv, job.pc # "idle", UNCHANGED <<owner, upstream, plan, touched>>,
           job'.held = job.held,
           \A e \in Entries : Open(e)' => Open(e) \/ Kept(e),
           \A e \in Entries : Waiting(e)' => Waiting(e),
           \A w \in Workspaces \ {owner} : Open(w)' => Unmoved(w),
           job.held /\ Open(Base)' =>
               ref'[Base] = ref[Base] /\ tree'[owner] = tree[owner] /\ state'[owner] = state[owner],
           ~job.held /\ owner # None => tree'[owner] = tree[owner] /\ state'[owner] = state[owner],
           owner # None => ref'[owner] = ref[owner],
           job.held => entries'[owner] = entries[owner]
    PROVE  Accounted'
  <1>1. TypeOK /\ Others /\ OwnerFree /\ OwnerHeld /\ OwnRef
    BY DEF CInv
  <1>2. /\ owner \in Workspaces \cup {None} /\ Target' = Target
        /\ \A w \in Workspaces : w \in Entries /\ w # Base /\ Branch(w)' = Branch(w)
        /\ Base \in Entries
    BY <1>1, CompanionAssumption DEF TypeOK, Target, Entries, Branch
  <1>3. Others'
    <2>. SUFFICES ASSUME NEW w \in Workspaces \ {owner}
                  PROVE  /\ (Open(w) => RefKept(w) /\ TreeKept(w) /\ StateKept(w))'
                         /\ (Waiting(w) => RefIsOld(w) /\ TreeIsOld(w) /\ StateIsOld(w))'
      BY DEF Others
    <2>1. Open(w) => RefKept(w) /\ TreeKept(w) /\ StateKept(w)
      BY <1>1 DEF Others
    <2>2. Waiting(w) => RefIsOld(w) /\ TreeIsOld(w) /\ StateIsOld(w)
      BY <1>1 DEF Others
    <2>3. ASSUME Open(w)'
          PROVE  RefKept(w)' /\ TreeKept(w)' /\ StateKept(w)'
      <3>1. RefKept(w) /\ TreeKept(w) /\ StateKept(w)
        BY <2>1, <2>3, <1>2 DEF Kept
      <3>2. Unmoved(w)
        BY <2>3
      <3>. QED
        BY <3>1, <3>2, <1>2 DEF Unmoved, RefKept, TreeKept, StateKept
    <2>4. ASSUME Waiting(w)'
          PROVE  RefIsOld(w)' /\ TreeIsOld(w)' /\ StateIsOld(w)'
      <3>1. RefIsOld(w) /\ TreeIsOld(w) /\ StateIsOld(w)
        BY <2>2, <2>4, <1>2
      <3>2. Open(w)'
        BY <2>4 DEF Open
      <3>3. Unmoved(w)
        BY <3>2
      <3>. QED
        BY <3>1, <3>3, <1>2 DEF Unmoved, RefIsOld, TreeIsOld, StateIsOld
    <2>. QED
      BY <2>3, <2>4
  <1>4. OwnerFree'
    <2>. SUFFICES ASSUME owner # None, ~job.held
                  PROVE  TreeKept(owner)' /\ StateKept(owner)' /\ TreeIsOld(owner)' /\ StateIsOld(owner)'
      BY DEF OwnerFree
    <2>1. TreeKept(owner) /\ StateKept(owner) /\ TreeIsOld(owner) /\ StateIsOld(owner)
      BY <1>1 DEF OwnerFree
    <2>. QED
      BY <2>1, <1>2 DEF TreeKept, StateKept, TreeIsOld, StateIsOld
  <1>5. OwnerHeld'
    <2>. SUFFICES ASSUME job.held
                  PROVE  /\ owner # None /\ entries'[owner] = Unsettled
                         /\ (Open(Base) => RefKept(Base) /\ TreeKept(owner) /\ StateKept(owner))'
                         /\ (Waiting(Base) => RefIsOld(Base) /\ TreeIsOld(owner) /\ StateIsOld(owner))'
      BY DEF OwnerHeld
    <2>1. /\ owner # None /\ entries[owner] = Unsettled
          /\ Open(Base) => RefKept(Base) /\ TreeKept(owner) /\ StateKept(owner)
          /\ Waiting(Base) => RefIsOld(Base) /\ TreeIsOld(owner) /\ StateIsOld(owner)
      BY <1>1 DEF OwnerHeld
    <2>2. ASSUME Open(Base)'
          PROVE  RefKept(Base)' /\ TreeKept(owner)' /\ StateKept(owner)'
      <3>1. RefKept(Base) /\ TreeKept(owner) /\ StateKept(owner)
        BY <2>1, <2>2, <1>2 DEF Kept
      <3>. QED
        BY <3>1, <2>1, <2>2, <1>2 DEF RefKept, TreeKept, StateKept
    <2>3. ASSUME Waiting(Base)'
          PROVE  RefIsOld(Base)' /\ TreeIsOld(owner)' /\ StateIsOld(owner)'
      <3>1. RefIsOld(Base) /\ TreeIsOld(owner) /\ StateIsOld(owner)
        BY <2>1, <2>3, <1>2
      <3>2. Open(Base)'
        BY <2>3 DEF Open
      <3>. QED
        BY <3>1, <3>2, <1>2 DEF RefIsOld, TreeIsOld, StateIsOld
    <2>. QED
      BY <2>1, <2>2, <2>3
  <1>6. OwnRef'
    BY <1>1, <1>2 DEF OwnRef, RefIsOld
  <1>. QED
    BY <1>3, <1>4, <1>5, <1>6 DEF Accounted

\* A step of the entry at work changes its branch, its checkout and its state file.
LEMMA WorkStep ==
    ASSUME CInv, job.pc \in Working \ {"record"}, job' \in Jobs, job'.pc \in Working,
           job'.cur = job.cur, job'.held = job.held, TypeOK',
           UNCHANGED <<owner, upstream, record, plan, entries, touched, lost>>,
           \A e \in Entries \ {Moved} : ref'[e] = ref[e],
           \A w \in Workspaces \ {Checkout} : tree'[w] = tree[w] /\ state'[w] = state[w],
           InMotion'
    PROVE  CInv'
  <1>1. /\ TypeOK /\ Planned /\ job.cur \in Entries /\ job.cur # owner /\ (job.cur # Base \/ job.held)
        /\ entries[job.cur] = Unsettled
        /\ (job.cur = Base => Moved = Base /\ Checkout = owner)
        /\ (job.cur # Base => Moved = job.cur /\ Checkout = job.cur)
    BY Busy
  <1>2. /\ job.pc # "idle" /\ job'.pc # "idle" /\ job.pc \notin Ended /\ job'.pc \notin Ended \cup Preparing
        /\ job.pc \in Working /\ job'.pc # "check" /\ job'.pc \notin {"forwardRef", "confirmRef"}
    BY DEF Working, Ended, Preparing
  <1>3. OwnerHeld /\ Away /\ Whole
    BY <1>2 DEF CInv
  <1>4. owner \in Workspaces \cup {None} /\ \A w \in Workspaces : w # Base /\ w \in Entries
    BY <1>1, CompanionAssumption DEF TypeOK, Entries
  <1>5. entries' = entries /\ \A e \in Entries : Waiting(e)' <=> Waiting(e)
    BY <1>2 DEF Waiting, AtWork
  <1>6. \A e \in Entries : Open(e)' <=> Open(e)
    BY <1>5 DEF Open
  <1>7. ~Open(job.cur)
    BY <1>1, <1>2 DEF Open, Waiting, AtWork, Unsettled
  <1>8. Accounted'
    <2>1. \A w \in Workspaces \ {owner} : Open(w)' => Unmoved(w)
      BY <1>1, <1>4, <1>6, <1>7 DEF Unmoved
    <2>2. job.held /\ Open(Base)' =>
              ref'[Base] = ref[Base] /\ tree'[owner] = tree[owner] /\ state'[owner] = state[owner]
      BY <1>1, <1>3, <1>4, <1>6, <1>7, CompanionAssumption DEF OwnerHeld, Entries
    <2>3. ~job.held /\ owner # None => tree'[owner] = tree[owner] /\ state'[owner] = state[owner]
      BY <1>1, <1>4
    <2>4. owner # None => ref'[owner] = ref[owner]
      BY <1>1, <1>4
    <2>. QED
      BY <1>2, <1>5, <1>6, <2>1, <2>2, <2>3, <2>4, Accounts
  <1>9. Planned' /\ Before' /\ Whole'
    BY <1>1, <1>2, <1>3 DEF Planned, Before, Whole
  <1>10. Away'
    BY <1>1, <1>2, <1>3, <1>4, CompanionAssumption DEF Away, Working, Preparing
  <1>11. Current'
    BY <1>1, <1>2 DEF Current
  <1>12. ResidueIsRecorded'
    BY <1>2, <1>3 DEF Whole, ResidueIsRecorded
  <1>. QED
    BY <1>2, <1>8, <1>9, <1>10, <1>11, <1>12 DEF CInv, Accounted, Progress

\* A step that settles entries, or goes from one to the next.
LEMMA SettleStep ==
    ASSUME CInv, job.pc \notin Ended, job' \in Jobs, job'.pc \notin Working \cup Preparing \cup {"idle"},
           job'.held = job.held, TypeOK', UNCHANGED <<owner, upstream, plan, touched>>,
           \A e \in Entries : \/ entries'[e] = entries[e]
                              \/ entries'[e].status = "completed"
                              \/ entries'[e].status # "none" /\ (entries'[e].incomplete \/ Open(e) \/ Kept(e)),
           job.pc \in Working => job'.pc \in Ended \/ entries'[job.cur].status # "none",
           \A w \in Workspaces \ {owner} : Unmoved(w) \/ entries'[w].status = "completed",
           \/ ~job.held
           \/ ref'[Base] = ref[Base] /\ tree'[owner] = tree[owner] /\ state'[owner] = state[owner]
           \/ entries'[Base].status = "completed",
           ~job.held /\ owner # None => tree'[owner] = tree[owner] /\ state'[owner] = state[owner],
           owner # None => ref'[owner] = ref[owner],
           job.held => entries'[owner] = entries[owner],
           Current', Whole', ResidueIsRecorded', Away'
    PROVE  CInv'
  <1>1. job.pc # "idle" /\ TypeOK /\ Planned
    BY DEF CInv, Ended
  <1>2. ASSUME NEW e \in Entries, Waiting(e)'
        PROVE  Waiting(e)
    <2>1. entries'[e].status = "none" /\ job'.pc \notin Ended
      BY <1>2 DEF Waiting
    <2>2. entries'[e] = entries[e]
      BY <2>1
    <2>. QED
      BY <2>1, <2>2 DEF Waiting, AtWork
  <1>3. ASSUME NEW e \in Entries, Open(e)'
        PROVE  (Open(e) \/ Kept(e)) /\ entries'[e].status # "completed"
    <2>1. CASE Waiting(e)'
      BY <1>2, <2>1 DEF Open, Waiting
    <2>2. CASE entries'[e].status \in {"failed", "canceled"} /\ ~entries'[e].incomplete
      BY <2>2 DEF Open
    <2>. QED
      BY <1>3, <2>1, <2>2 DEF Open
  <1>4. \A w \in Workspaces : w \in Entries
    BY DEF Entries
  <1>5. Base \in Entries
    BY DEF Entries
  <1>6. Accounted'
    BY <1>1, <1>2, <1>3, <1>4, <1>5, Accounts
  <1>7. Planned' /\ Before' /\ Progress' /\ job'.pc # "idle"
    BY <1>1 DEF Planned, Before, Progress
  <1>. QED
    BY <1>6, <1>7 DEF CInv, Accounted

\* The command ends, and leaves the world as it is.
LEMMA EndStep ==
    ASSUME CInv, job.pc \notin Ended, NEW how \in {"ended", "refused", "dead"}, End(how),
           UNCHANGED <<owner, upstream, plan, touched, tree, state>>,
           TypeOK', ref' = ref \/ (~job.held /\ \E c \in Commits : ref' = [ref EXCEPT ![Base] = c]),
           \A e \in Entries : \/ entries'[e] = entries[e]
                              \/ entries'[e].status # "none" /\ (entries'[e].incomplete \/ Open(e) \/ Kept(e)),
           job.held => entries'[owner] = entries[owner],
           ResidueIsRecorded'
    PROVE  CInv'
  <1>1. TypeOK /\ job \in Jobs
    BY DEF CInv
  <1>2. job' \in Jobs /\ job'.pc = how /\ job'.held = job.held
    BY <1>1, ZenonT(60) DEF End, Jobs, Phases, Idle, Ended
  <1>3. job'.pc \in Ended /\ job'.pc \notin Working \cup Preparing \cup {"idle"}
    BY <1>2 DEF Ended, Working, Preparing
  <1>4. Current' /\ Whole' /\ Away'
    BY <1>2, <1>3 DEF Current, Whole, Away
  <1>5. \A w \in Workspaces : ref'[w] = ref[w]
    BY <1>1, CompanionAssumption DEF TypeOK, Entries
  <1>6. owner \in Workspaces \cup {None}
    BY <1>1 DEF TypeOK
  <1>7. \A w \in Workspaces \ {owner} : Unmoved(w)
    BY <1>5 DEF Unmoved
  <1>. QED
    BY <1>2, <1>3, <1>4, <1>5, <1>6, <1>7, SettleStep

-----------------------------------------------------------------------------
(* The steps of the entry at work                                           *)

\* What a step of the entry at work reads and leaves alone.
Static == UNCHANGED <<owner, upstream, record, plan, touched, lost>>

LEMMA StaticPlaces ==
    ASSUME Static, job'.cur = job.cur
    PROVE  Moved' = Moved /\ Checkout' = Checkout /\ Target' = Target /\ Mine' = Mine
  BY DEF Static, Moved, Checkout, Target, Mine, Branch

\* The types, when a step sets at most the branch, the files and the state file of
\* the entry at work.
LEMMA WorkTypes ==
    ASSUME TypeOK, Static, UNCHANGED <<config, canceled>>,
           ref' \in [Entries -> Commits], tree' \in [Workspaces -> Tree],
           state' \in [Workspaces -> Commits \cup {"invalid", "theirs"}],
           entries' \in [Entries -> Settled \cup {Unsettled}]
    PROVE  TypeOK'
  BY DEF TypeOK, Static

\* What the entry at work is after a step, said of the places where it is now.
MovingOn ==
    Moving(job', ref'[Moved], plan.ref[Moved], tree'[Checkout], plan.tree[Checkout],
           state'[Checkout], plan.state[Checkout], Target, Mine, Checkout \notin touched)

LEMMA Advance ==
    ASSUME CInv, job.pc \in Working \ {"record"}, job' \in Jobs, job'.pc \in Working,
           job'.cur = job.cur, job'.held = job.held, Static, UNCHANGED <<config, canceled, entries>>,
           \/ ref' = ref
           \/ \E c \in Commits : ref' = [ref EXCEPT ![Moved] = c],
           \/ tree' = tree
           \/ \E c \in Commits \cup {"partial"} : tree' = [tree EXCEPT ![Checkout].at = c],
           \/ state' = state
           \/ \E c \in Commits : state' = [state EXCEPT ![Checkout] = c],
           MovingOn
    PROVE  CInv'
  <1>1. TypeOK /\ Moved \in Entries /\ Checkout \in Workspaces
    BY Busy
  <1>2. ref' \in [Entries -> Commits] /\ \A e \in Entries \ {Moved} : ref'[e] = ref[e]
    BY <1>1 DEF TypeOK
  <1>3. tree' \in [Workspaces -> Tree] /\ \A w \in Workspaces \ {Checkout} : tree'[w] = tree[w]
    BY <1>1 DEF TypeOK, Tree
  <1>4. /\ state' \in [Workspaces -> Commits \cup {"invalid", "theirs"}]
        /\ \A w \in Workspaces \ {Checkout} : state'[w] = state[w]
    BY <1>1 DEF TypeOK
  <1>5. TypeOK'
    BY <1>1, <1>2, <1>3, <1>4, WorkTypes DEF TypeOK
  <1>6. InMotion'
    BY StaticPlaces DEF InMotion, MovingOn, Static
  <1>. QED
    BY <1>2, <1>3, <1>4, <1>5, <1>6, WorkStep DEF Static

LEMMA ForwardStep == CInv /\ Forward => CInv'
  <1>. SUFFICES ASSUME CInv, Forward PROVE CInv'
    OBVIOUS
  <1>1. job.pc = "forward" /\ job.pc \in Working \ {"record"}
    BY DEF Forward, At, Working
  <1>2. TypeOK /\ job \in Jobs /\ InMotion /\ Moved \in Entries
    BY <1>1, Busy
  <1>3. Static /\ UNCHANGED <<config, canceled, tree, state, entries>>
    BY DEF Forward, Static, world
  <1>4. /\ job' \in Jobs /\ job'.pc \in {"files", "forwardFailed"} /\ job'.cur = job.cur
        /\ job'.held = job.held /\ job'.from = job.from /\ job'.to = job.to /\ job'.moved = job.moved
        /\ job'.back = job.back /\ job'.stateErr = job.stateErr
    <2>1. job' = [job EXCEPT !.pc = "files"] \/ job' = [job EXCEPT !.pc = "forwardFailed"]
      BY DEF Forward, Goto
    <2>. QED
      BY <2>1, <1>2 DEF Jobs, Phases, Working
  <1>5. job.from \in Commits /\ job.to \in Commits /\ ref \in [Entries -> Commits]
    BY <1>1, <1>2 DEF InMotion, Moving, Flags, TypeOK
  <1>6. \/ ref' = ref /\ job'.pc = "forwardFailed"
        \/ ref' = [ref EXCEPT ![Moved] = job.to] /\ IsAncestor(job.from, job.to)
    <2>1. Goto("forwardFailed") => job'.pc = "forwardFailed"
      BY <1>2 DEF Goto, Jobs
    <2>. QED
      BY <2>1 DEF Forward
  <1>7. \/ ref'[Moved] = ref[Moved] /\ job'.pc = "forwardFailed"
        \/ ref'[Moved] = job.to /\ IsAncestor(job.from, job.to)
    BY <1>2, <1>5, <1>6
  <1>8. MovingOn
    <2>. Moving(job, ref[Moved], plan.ref[Moved], tree[Checkout], plan.tree[Checkout],
                state[Checkout], plan.state[Checkout], Target, Mine, Checkout \notin touched)
      BY <1>2 DEF InMotion
    <2>1. Flags(job', Target)
      BY <1>1, <1>4, <1>7 DEF Moving, Flags, InTransit, Settling
    <2>2. Mine => Stage(job', ref'[Moved], plan.ref[Moved], tree'[Checkout], plan.tree[Checkout])
      BY <1>1, <1>3, <1>4, <1>7 DEF Moving, Flags, Stage, SourceOf, GoalOf, InTransit, Settling
    <2>3. Checkout \notin touched => StateStage(job', state'[Checkout], plan.state[Checkout])
      BY <1>1, <1>3, <1>4 DEF Moving, StateStage
    <2>4. Residues(job', ref'[Moved], plan.ref[Moved], tree'[Checkout], plan.tree[Checkout],
                   state'[Checkout], plan.state[Checkout], Target)
      BY <1>1, <1>3, <1>4 DEF Moving, Residues, Settling
    <2>. QED
      BY <2>1, <2>2, <2>3, <2>4 DEF Moving, MovingOn
  <1>. QED
    BY <1>1, <1>3, <1>4, <1>5, <1>6, <1>8, Advance DEF Working

LEMMA FilesStep == CInv /\ Files => CInv'
  <1>. SUFFICES ASSUME CInv, Files PROVE CInv'
    OBVIOUS
  <1>1. job.pc = "files" /\ job.pc \in Working \ {"record"}
    BY DEF Files, At, Working
  <1>2. TypeOK /\ job \in Jobs /\ InMotion /\ Moved \in Entries /\ Checkout \in Workspaces
    BY <1>1, Busy
  <1>3. Static /\ UNCHANGED <<config, canceled, ref, state, entries>>
    BY DEF Files, Static, world
  <1>4. /\ job' \in Jobs /\ job'.pc \in {"look", "cleanup"} /\ job'.cur = job.cur
        /\ job'.held = job.held /\ job'.from = job.from /\ job'.to = job.to /\ job'.moved = job.moved
        /\ job'.back = job.back /\ job'.stateErr = job.stateErr
    <2>1. job' = [job EXCEPT !.pc = "look"] \/ job' = [job EXCEPT !.pc = "cleanup"]
      BY DEF Files, Goto
    <2>. QED
      BY <2>1, <1>2 DEF Jobs, Phases, Working
  <1>5. /\ job.from \in Commits /\ job.to \in Commits
        /\ Goal = GoalOf(job) /\ Source = SourceOf(job) /\ Goal \in Commits
    BY <1>1, <1>2 DEF InMotion, Moving, Flags, GoalOf, SourceOf, Goal, Source
  <1>6. \/ tree' = [tree EXCEPT ![Checkout].at = Goal] /\ job'.pc = "look"
        \/ tree' = tree /\ job'.pc = "cleanup"
        \/ tree' = [tree EXCEPT ![Checkout].at = "partial"] /\ job'.pc = "cleanup"
    <2>1. Goto("look") => job'.pc = "look"
      BY <1>2 DEF Goto, Jobs
    <2>2. Goto("cleanup") => job'.pc = "cleanup"
      BY <1>2 DEF Goto, Jobs
    <2>. QED
      BY <2>1, <2>2 DEF Files
  <1>7. \/ tree'[Checkout] = [tree[Checkout] EXCEPT !.at = Goal] /\ job'.pc = "look"
        \/ tree'[Checkout] = tree[Checkout] /\ job'.pc = "cleanup"
        \/ tree'[Checkout] = [tree[Checkout] EXCEPT !.at = "partial"] /\ job'.pc = "cleanup"
    BY <1>2, <1>6 DEF TypeOK
  <1>8. MovingOn
    <2>. Moving(job, ref[Moved], plan.ref[Moved], tree[Checkout], plan.tree[Checkout],
                state[Checkout], plan.state[Checkout], Target, Mine, Checkout \notin touched)
      BY <1>2 DEF InMotion
    <2>1. Flags(job', Target)
      BY <1>1, <1>4 DEF Moving, Flags, InTransit, Settling
    <2>2. Mine => Stage(job', ref'[Moved], plan.ref[Moved], tree'[Checkout], plan.tree[Checkout])
      <3>. SUFFICES ASSUME Mine
                    PROVE  Stage(job', ref[Moved], plan.ref[Moved], tree'[Checkout], plan.tree[Checkout])
        BY <1>3
      <3>1. /\ plan.ref[Moved] = job.from /\ plan.tree[Checkout].at = job.from /\ ref[Moved] = GoalOf(job)
            /\ Here(tree[Checkout], plan.tree[Checkout], SourceOf(job))
        BY <1>1 DEF Moving, Stage
      <3>2. GoalOf(job') = GoalOf(job) /\ SourceOf(job') = SourceOf(job)
        BY <1>4 DEF GoalOf, SourceOf
      <3>3. \/ job'.pc = "look" /\ Here(tree'[Checkout], plan.tree[Checkout], GoalOf(job))
            \/ /\ job'.pc = "cleanup"
               /\ \/ Here(tree'[Checkout], plan.tree[Checkout], SourceOf(job))
                  \/ Here(tree'[Checkout], plan.tree[Checkout], "partial")
        BY <3>1, <1>5, <1>7 DEF Here
      <3>. QED
        BY <3>1, <3>2, <3>3, <1>4 DEF Stage, Settling
    <2>3. Checkout \notin touched => StateStage(job', state'[Checkout], plan.state[Checkout])
      BY <1>1, <1>3, <1>4 DEF Moving, StateStage
    <2>4. Residues(job', ref'[Moved], plan.ref[Moved], tree'[Checkout], plan.tree[Checkout],
                   state'[Checkout], plan.state[Checkout], Target)
      BY <1>1, <1>3, <1>4 DEF Moving, Residues, Settling
    <2>. QED
      BY <2>1, <2>2, <2>3, <2>4 DEF Moving, MovingOn
  <1>. QED
    BY <1>1, <1>3, <1>4, <1>5, <1>6, <1>8, Advance DEF Working

LEMMA CleanupStep == CInv /\ Cleanup => CInv'
  <1>. SUFFICES ASSUME CInv, Cleanup PROVE CInv'
    OBVIOUS
  <1>1. job.pc = "cleanup" /\ job.pc \in Working \ {"record"}
    BY DEF Cleanup, At, Working
  <1>2. TypeOK /\ job \in Jobs /\ InMotion /\ Moved \in Entries /\ Checkout \in Workspaces
    BY <1>1, Busy
  <1>3. Static /\ UNCHANGED <<config, canceled, tree, state, entries>>
    BY DEF Cleanup, Static, world
  <1>4. /\ job' \in Jobs /\ job'.pc = (IF job.back THEN "backFailed" ELSE "forwardFailed") /\ job'.cur = job.cur
        /\ job'.held = job.held /\ job'.from = job.from /\ job'.to = job.to /\ job'.moved = job.moved
        /\ job'.back = job.back /\ job'.stateErr = job.stateErr
    <2>1. job' = [job EXCEPT !.pc = IF job.back THEN "backFailed" ELSE "forwardFailed"]
      BY DEF Cleanup, Goto, Failed
    <2>. QED
      BY <2>1, <1>2 DEF Jobs, Phases, Working
  <1>5. /\ job.from \in Commits /\ job.to \in Commits
        /\ Source = SourceOf(job) /\ Source \in Commits
    BY <1>1, <1>2 DEF InMotion, Moving, Flags, SourceOf, Source
  <1>6. \/ ref' = ref
        \/ ref' = [ref EXCEPT ![Moved] = Source] /\ Matches(Checkout, Source)
    BY DEF Cleanup
  <1>7. \/ ref'[Moved] = ref[Moved]
        \/ ref'[Moved] = Source /\ tree[Checkout].at = Source
    BY <1>2, <1>6 DEF TypeOK, Matches
  <1>8. MovingOn
    <2>. Moving(job, ref[Moved], plan.ref[Moved], tree[Checkout], plan.tree[Checkout],
                state[Checkout], plan.state[Checkout], Target, Mine, Checkout \notin touched)
      BY <1>2 DEF InMotion
    <2>1. Flags(job', Target)
      BY <1>1, <1>4 DEF Moving, Flags, InTransit, Settling
    <2>2. Mine => Stage(job', ref'[Moved], plan.ref[Moved], tree'[Checkout], plan.tree[Checkout])
      <3>. SUFFICES ASSUME Mine, ~job.back
                    PROVE  ref'[Moved] = job.to \/ (ref'[Moved] = job.from /\ Here(tree[Checkout], plan.tree[Checkout], job.from))
        BY <1>1, <1>3, <1>4 DEF Moving, Stage, Settling
      <3>1. /\ plan.tree[Checkout].at = job.from /\ ref[Moved] = job.to
            /\ \/ Here(tree[Checkout], plan.tree[Checkout], job.from)
               \/ Here(tree[Checkout], plan.tree[Checkout], "partial")
        BY <1>1 DEF Moving, Stage, GoalOf, SourceOf
      <3>2. Source = job.from
        BY DEF Source
      <3>3. tree[Checkout] \in Tree /\ plan.tree[Checkout] \in Tree /\ job.from # "partial"
        BY <1>1, <1>2, <1>5, Busy, SpecialIsNoCommit DEF TypeOK, Planned
      <3>4. Here(tree[Checkout], plan.tree[Checkout], "partial") => tree[Checkout].at = "partial"
        BY <3>3 DEF Here, Tree
      <3>. QED
        BY <1>7, <3>1, <3>2, <3>3, <3>4
    <2>3. Checkout \notin touched => StateStage(job', state'[Checkout], plan.state[Checkout])
      BY <1>1, <1>3, <1>4 DEF Moving, StateStage
    <2>4. Residues(job', ref'[Moved], plan.ref[Moved], tree'[Checkout], plan.tree[Checkout],
                   state'[Checkout], plan.state[Checkout], Target)
      BY <1>1, <1>3, <1>4 DEF Moving, Residues, Settling
    <2>. QED
      BY <2>1, <2>2, <2>3, <2>4 DEF Moving, MovingOn
  <1>. QED
    BY <1>1, <1>3, <1>4, <1>5, <1>6, <1>8, Advance DEF Working

LEMMA LookStep == CInv /\ Look => CInv'
  <1>. SUFFICES ASSUME CInv, Look PROVE CInv'
    OBVIOUS
  <1>1. job.pc = "look" /\ job.pc \in Working \ {"record"}
    BY DEF Look, At, Working
  <1>2. TypeOK /\ job \in Jobs /\ InMotion /\ Branch(Checkout) = Moved
    BY <1>1, Busy
  <1>3. Static /\ UNCHANGED <<config, canceled, ref, tree, state, entries>>
    BY DEF Look, Static, world, git
  <1>4. /\ job' \in Jobs /\ job'.cur = job.cur /\ job'.held = job.held /\ job'.from = job.from
        /\ job'.to = job.to /\ job'.back = job.back /\ job'.stateErr = job.stateErr
        /\ \/ /\ job'.pc = "restored" /\ job.back /\ ~job'.moved
              /\ ref[Moved] = job.from /\ tree[Checkout].at = job.from
           \/ job'.pc = "decide" /\ ~job.back /\ job'.moved
           \/ job'.pc = "backFailed" /\ job.back /\ job'.moved = job.moved
           \/ job'.pc = "forwardFailed" /\ ~job.back /\ job'.moved = job.moved
    <2>1. \/ /\ job' = [job EXCEPT !.pc = IF job.back THEN "restored" ELSE "decide", !.moved = ~job.back]
             /\ Attached(Checkout, Goal) /\ Matches(Checkout, Goal)
          \/ job' = [job EXCEPT !.pc = IF job.back THEN "backFailed" ELSE "forwardFailed"]
      BY DEF Look, Goto, Failed
    <2>2. job.back /\ Attached(Checkout, Goal) /\ Matches(Checkout, Goal)
            => ref[Moved] = job.from /\ tree[Checkout].at = job.from
      BY <1>2 DEF Attached, Matches, Goal
    <2>. QED
      BY <2>1, <2>2, <1>2, ZenonT(60) DEF Jobs, Phases, Working
  <1>5. MovingOn
    <2>. Moving(job, ref[Moved], plan.ref[Moved], tree[Checkout], plan.tree[Checkout],
                state[Checkout], plan.state[Checkout], Target, Mine, Checkout \notin touched)
      BY <1>2 DEF InMotion
    <2>1. Flags(job', Target)
      BY <1>1, <1>4 DEF Moving, Flags, InTransit, Settling
    <2>2. Mine => Stage(job', ref'[Moved], plan.ref[Moved], tree'[Checkout], plan.tree[Checkout])
      BY <1>1, <1>3, <1>4 DEF Moving, Stage, GoalOf, SourceOf, Settling
    <2>3. Checkout \notin touched => StateStage(job', state'[Checkout], plan.state[Checkout])
      BY <1>1, <1>3, <1>4 DEF Moving, StateStage
    <2>4. Residues(job', ref[Moved], plan.ref[Moved], tree[Checkout], plan.tree[Checkout],
                   state[Checkout], plan.state[Checkout], Target)
      <3>1. job'.stateErr \/ OldState(state[Checkout], plan.state[Checkout], Target)
        BY <1>1, <1>4 DEF Moving, Residues
      <3>2. ASSUME job'.pc = "restored"
            PROVE  OldRef(ref[Moved], plan.ref[Moved], Target) /\ OldTree(tree[Checkout], plan.tree[Checkout], Target)
        <4>1. job.from # Target /\ job.from # "partial"
          BY <1>1, SpecialIsNoCommit DEF Moving, Flags, InTransit
        <4>. QED
          BY <4>1, <3>2, <1>4 DEF OldRef, OldTree
      <3>. QED
        BY <3>1, <3>2, <1>4 DEF Residues, Settling
    <2>. QED
      BY <1>3, <2>1, <2>2, <2>3, <2>4 DEF Moving, MovingOn
  <1>. QED
    BY <1>1, <1>3, <1>4, <1>5, Advance DEF Working

LEMMA BackStep == CInv /\ Back => CInv'
  <1>. SUFFICES ASSUME CInv, Back PROVE CInv'
    OBVIOUS
  <1>1. job.pc = "back" /\ job.pc \in Working \ {"record"}
    BY DEF Back, At, Working
  <1>2. TypeOK /\ job \in Jobs /\ InMotion /\ Moved \in Entries
    BY <1>1, Busy
  <1>3. Static /\ UNCHANGED <<config, canceled, tree, state, entries>>
    BY DEF Back, Static, world
  <1>4. /\ job' \in Jobs /\ job'.cur = job.cur /\ job'.held = job.held /\ job'.from = job.from
        /\ job'.to = job.to /\ job'.moved = job.moved /\ job'.stateErr = job.stateErr
        /\ \/ job'.pc = "files" /\ job'.back /\ ref' = [ref EXCEPT ![Moved] = job.from]
              /\ Matches(Checkout, job.to)
           \/ job'.pc = "backFailed" /\ ref' \in {ref, [ref EXCEPT ![Moved] = job.from]}
    <2>1. \/ job' = [job EXCEPT !.pc = "files", !.back = TRUE] /\ ref' = [ref EXCEPT ![Moved] = job.from]
             /\ Matches(Checkout, job.to)
          \/ job' = [job EXCEPT !.pc = "backFailed"] /\ ref' \in {ref, [ref EXCEPT ![Moved] = job.from]}
      BY DEF Back, Goto
    <2>. QED
      BY <2>1, <1>2, ZenonT(60) DEF Jobs, Phases, Working
  <1>5. job.from \in Commits /\ job.to \in Commits
    BY <1>1, <1>2 DEF InMotion, Moving, Flags
  <1>6. \/ job'.pc = "files" /\ job'.back /\ ref'[Moved] = job.from /\ tree[Checkout].at = job.to
        \/ job'.pc = "backFailed"
    BY <1>2, <1>4 DEF TypeOK, Matches
  <1>7. MovingOn
    <2>. Moving(job, ref[Moved], plan.ref[Moved], tree[Checkout], plan.tree[Checkout],
                state[Checkout], plan.state[Checkout], Target, Mine, Checkout \notin touched)
      BY <1>2 DEF InMotion
    <2>1. Flags(job', Target)
      BY <1>1, <1>4 DEF Moving, Flags, InTransit, Settling
    <2>2. Mine => Stage(job', ref'[Moved], plan.ref[Moved], tree'[Checkout], plan.tree[Checkout])
      <3>. SUFFICES ASSUME Mine, job'.pc = "files"
                    PROVE  Here(tree[Checkout], plan.tree[Checkout], job.to)
        BY <1>1, <1>3, <1>4, <1>6 DEF Moving, Stage, GoalOf, SourceOf, Settling
      <3>1. /\ plan.tree[Checkout].at = job.from
            /\ Here(tree[Checkout], plan.tree[Checkout], job.from) \/ Here(tree[Checkout], plan.tree[Checkout], job.to)
        BY <1>1 DEF Moving, Stage, Settling
      <3>2. tree[Checkout] \in Tree /\ plan.tree[Checkout] \in Tree
        BY <1>1, Busy DEF TypeOK, Planned
      <3>3. Here(tree[Checkout], plan.tree[Checkout], job.from) => tree[Checkout].at = job.from
        BY <3>2 DEF Here, Tree
      <3>. QED
        BY <3>1, <3>3, <1>6
    <2>3. Checkout \notin touched => StateStage(job', state'[Checkout], plan.state[Checkout])
      BY <1>1, <1>3, <1>4 DEF Moving, StateStage
    <2>4. Residues(job', ref'[Moved], plan.ref[Moved], tree'[Checkout], plan.tree[Checkout],
                   state'[Checkout], plan.state[Checkout], Target)
      BY <1>1, <1>3, <1>4 DEF Moving, Residues, Settling
    <2>. QED
      BY <2>1, <2>2, <2>3, <2>4 DEF Moving, MovingOn
  <1>. QED
    BY <1>1, <1>3, <1>4, <1>5, <1>7, Advance DEF Working

-----------------------------------------------------------------------------
(* The steps that settle the entry at work                                  *)

LEMMA ReportStep ==
    ASSUME CInv, job.pc \in (Working \ {"record"}) \cup {"check"}, Static,
           NEW status \in {"completed", "failed", "canceled"},
           NEW action \in {"none", "unchanged", "fast-forward"}, Report(status, action),
           UNCHANGED <<config, canceled, ref, tree>>,
           \/ state' = state
           \/ /\ status = "completed" /\ job.pc \in Working
              /\ \E c \in Commits : state' = [state EXCEPT ![Checkout] = c],
           status # "completed" => Open(job.cur) \/ Kept(job.cur)
    PROVE  CInv'
  <1>1. /\ job.pc # "idle" /\ job.pc \notin Ended /\ job.pc \notin Ended \cup Preparing
        /\ job.pc \in Working \cup {"check"}
    BY DEF Working, Ended, Preparing
  <1>2. TypeOK /\ job \in Jobs /\ Current /\ OwnerHeld /\ Away /\ Whole /\ ResidueIsRecorded
    BY <1>1 DEF CInv
  <1>3. /\ job.cur \in Entries /\ (job.held => job.cur # owner)
        /\ owner \in Workspaces \cup {None} /\ Base \in Entries /\ Base # None
        /\ \A w \in Workspaces : w \in Entries /\ w # Base
    BY <1>1, <1>2, CompanionAssumption DEF Current, Entries, TypeOK
  <1>4. entries' = [entries EXCEPT ![job.cur] = [status |-> status, action |-> action, incomplete |-> FALSE]]
    BY DEF Report, Settle
  <1>5. /\ \A e \in Entries \ {job.cur} : entries'[e] = entries[e]
        /\ entries'[job.cur] = [status |-> status, action |-> action, incomplete |-> FALSE]
        /\ entries' \in [Entries -> Settled \cup {Unsettled}]
    BY <1>2, <1>3, <1>4 DEF TypeOK, Settled
  <1>6. \/ state' = state
        \/ /\ status = "completed" /\ state' \in [Workspaces -> Commits \cup {"invalid", "theirs"}]
           /\ (\A w \in Workspaces \ {job.cur} : state'[w] = state[w]) \/ (job.cur = Base /\ job.held)
           /\ \A w \in Workspaces \ {owner, job.cur} : state'[w] = state[w]
           /\ job.cur # owner
    <2>. SUFFICES ASSUME job.pc \in Working \ {"record"}, NEW c \in Commits, state' = [state EXCEPT ![Checkout] = c]
                  PROVE  /\ state' \in [Workspaces -> Commits \cup {"invalid", "theirs"}]
                         /\ (\A w \in Workspaces \ {job.cur} : state'[w] = state[w]) \/ (job.cur = Base /\ job.held)
                         /\ \A w \in Workspaces \ {owner, job.cur} : state'[w] = state[w]
                         /\ job.cur # owner
      BY DEF Working
    <2>1. /\ Checkout \in Workspaces /\ job.cur # owner /\ (job.cur # Base \/ job.held)
          /\ (job.cur = Base => Checkout = owner) /\ (job.cur # Base => Checkout = job.cur)
      BY Busy
    <2>. QED
      BY <2>1, <1>2 DEF TypeOK
  <1>7. TypeOK'
    BY <1>2, <1>5, <1>6, WorkTypes DEF TypeOK
  <1>8. job' \in Jobs /\ job'.pc \in {"emit", "ended"} /\ job'.held = job.held
    <2>1. job' = [Idle EXCEPT !.pc = "ended", !.held = job.held] \/ job' = [job EXCEPT !.pc = "emit"]
      BY DEF Report, End, Goto
    <2>2. CASE job' = [Idle EXCEPT !.pc = "ended", !.held = job.held]
      BY <2>2, <1>2, ZenonT(60) DEF Jobs, Phases, Idle, Ended
    <2>3. CASE job' = [job EXCEPT !.pc = "emit"]
      BY <2>3, <1>2 DEF Jobs, Phases
    <2>. QED
      BY <2>1, <2>2, <2>3
  <1>9. job'.pc \notin Working \cup Preparing \cup {"idle", "check", "forwardRef", "confirmRef"}
    BY <1>8 DEF Working, Preparing
  <1>10. Whole' /\ ResidueIsRecorded'
    <2>1. \A e \in Entries : ~entries'[e].incomplete
      BY <1>1, <1>2, <1>5 DEF Whole
    <2>. QED
      BY <2>1 DEF Whole, ResidueIsRecorded
  <1>11. Away' /\ Current'
    BY <1>1, <1>2, <1>8, <1>9 DEF Away, Current, Static
  <1>12. \A e \in Entries : \/ entries'[e] = entries[e]
                            \/ entries'[e].status = "completed"
                            \/ entries'[e].status # "none" /\ (entries'[e].incomplete \/ Open(e) \/ Kept(e))
    BY <1>5
  <1>13. \A w \in Workspaces \ {owner} : Unmoved(w) \/ entries'[w].status = "completed"
    BY <1>3, <1>5, <1>6 DEF Unmoved
  <1>14. /\ \/ ~job.held
            \/ ref'[Base] = ref[Base] /\ tree'[owner] = tree[owner] /\ state'[owner] = state[owner]
            \/ entries'[Base].status = "completed"
         /\ ~job.held /\ owner # None => tree'[owner] = tree[owner] /\ state'[owner] = state[owner]
         /\ owner # None => ref'[owner] = ref[owner]
         /\ job.held => entries'[owner] = entries[owner]
    <2>1. job.held => owner \in Workspaces
      BY <1>2, <1>3 DEF OwnerHeld
    <2>. QED
      BY <2>1, <1>3, <1>5, <1>6
  <1>. QED
    BY <1>1, <1>5, <1>7, <1>8, <1>9, <1>10, <1>11, <1>12, <1>13, <1>14, SettleStep DEF Static

\* The entry at work goes on, with nothing changed but the job.
LEMMA TurnStep ==
    ASSUME CInv, job.pc \in Working \ {"record"}, job' \in Jobs, job'.pc \in Working,
           job'.cur = job.cur, job'.held = job.held, job'.from = job.from, job'.to = job.to,
           job'.moved = job.moved, job'.back = job.back,
           Static, UNCHANGED <<config, canceled, ref, tree, state, entries>>,
           Moving(job', ref[Moved], plan.ref[Moved], tree[Checkout], plan.tree[Checkout],
                  state[Checkout], plan.state[Checkout], Target, Mine, Checkout \notin touched)
    PROVE  CInv'
  BY Advance DEF MovingOn

\* What a settled entry that was not moved stands for.
LEMMA NothingLeft ==
    ASSUME CInv, job.pc \in Working \ {"record"}, ~job.stateErr,
           job.pc \in {"restored"} \/ (job.pc \in Settling \ {"readback", "restoreState"} /\ ~job.moved)
               \/ (job.pc = "forwardFailed" /\ ref[Moved] = job.from)
    PROVE  Kept(job.cur)
  <1>1. /\ TypeOK /\ Planned /\ InMotion /\ job.cur \in Entries /\ job.cur # owner
        /\ (job.cur # Base \/ job.held)
        /\ Moved \in Entries /\ Checkout \in Workspaces /\ Branch(Checkout) = Moved
        /\ (job.cur = Base => Moved = Base /\ Checkout = owner)
        /\ (job.cur # Base => Moved = job.cur /\ Checkout = job.cur)
    BY Busy
  <1>2. Moving(job, ref[Moved], plan.ref[Moved], tree[Checkout], plan.tree[Checkout],
               state[Checkout], plan.state[Checkout], Target, Mine, Checkout \notin touched)
    BY <1>1 DEF InMotion
  <1>3. Mine => ref[Moved] = plan.ref[Moved] /\ Here(tree[Checkout], plan.tree[Checkout], plan.tree[Checkout].at)
    <2>1. job.pc = "forwardFailed" => job.from # job.to
      BY <1>2 DEF Moving, Flags
    <2>. QED
      BY <1>2, <2>1 DEF Moving, Stage, Settling
  <1>4. Mine => tree[Checkout] = plan.tree[Checkout]
    <2>1. plan.tree[Checkout] \in Tree
      BY <1>1 DEF Planned
    <2>. QED
      BY <1>3, <2>1 DEF Here, Tree
  <1>5. Checkout \notin touched => state[Checkout] = plan.state[Checkout]
    BY <1>2 DEF Moving, StateStage, Settling
  <1>6. RefKept(Moved) /\ TreeKept(Checkout) /\ StateKept(Checkout)
    BY <1>1, <1>3, <1>4, <1>5 DEF RefKept, TreeKept, StateKept, Mine
  <1>. QED
    BY <1>1, <1>6 DEF Kept

LEMMA ForwardFailedStep == CInv /\ ForwardFailed => CInv'
  <1>. SUFFICES ASSUME CInv, ForwardFailed PROVE CInv'
    OBVIOUS
  <1>1. job.pc = "forwardFailed" /\ job.pc \in Working \ {"record"}
    BY DEF ForwardFailed, At, Working
  <1>2. job \in Jobs /\ InMotion
    BY <1>1, Busy
  <1>3. Static /\ UNCHANGED <<config, canceled, ref, tree, state>>
    BY DEF ForwardFailed, Static, world, git
  <1>4. ~job.stateErr
    BY <1>1, <1>2 DEF InMotion, Moving, Flags
  <1>5. CASE ref[Moved] = job.from /\ Report("failed", "none")
    <2>1. Kept(job.cur)
      BY <1>1, <1>4, <1>5, NothingLeft
    <2>. QED
      BY <1>1, <1>3, <1>5, <2>1, ReportStep
  <1>6. CASE job' = [job EXCEPT !.pc = "record", !.refErr = TRUE] /\ UNCHANGED entries
    <2>1. /\ job' \in Jobs /\ job'.pc = "record" /\ job'.cur = job.cur /\ job'.held = job.held
          /\ job'.from = job.from /\ job'.to = job.to /\ job'.moved = job.moved
          /\ job'.back = job.back /\ job'.refErr /\ job'.stateErr = job.stateErr
      BY <1>6, <1>2 DEF Jobs, Phases, Working
    <2>2. Moving(job', ref[Moved], plan.ref[Moved], tree[Checkout], plan.tree[Checkout],
                 state[Checkout], plan.state[Checkout], Target, Mine, Checkout \notin touched)
      BY <1>1, <1>2, <2>1 DEF InMotion, Moving, Flags, Stage, StateStage, Residues, InTransit, Settling
    <2>. QED
      BY <1>1, <1>3, <1>6, <2>1, <2>2, TurnStep DEF Working
  <1>. QED
    BY <1>5, <1>6 DEF ForwardFailed

LEMMA DecideStep == CInv /\ Decide => CInv'
  <1>. SUFFICES ASSUME CInv, Decide PROVE CInv'
    OBVIOUS
  <1>1. job.pc = "decide" /\ job.pc \in Working \ {"record"} /\ job.pc \in Settling
    BY DEF Decide, At, Working, Settling
  <1>2. job \in Jobs /\ InMotion
    BY <1>1, Busy
  <1>3. Static /\ UNCHANGED <<config, canceled, ref, tree, state>>
    BY DEF Decide, Static, world, git
  <1>4. ~job.stateErr
    BY <1>1, <1>2 DEF InMotion, Moving, Flags
  <1>5. CASE ~job.moved /\ Report("canceled", Action)
    <2>1. Kept(job.cur)
      BY <1>1, <1>4, <1>5, NothingLeft
    <2>. QED
      BY <1>1, <1>3, <1>5, <2>1, ReportStep DEF Action
  <1>6. CASE UNCHANGED entries /\ \/ job' = [job EXCEPT !.pc = "publish"]
                                  \/ job.moved /\ job' = [job EXCEPT !.pc = "back", !.stopped = TRUE]
    <2>1. /\ job' \in Jobs /\ job'.cur = job.cur /\ job'.held = job.held
          /\ job'.from = job.from /\ job'.to = job.to /\ job'.moved = job.moved
          /\ job'.back = job.back /\ job'.stateErr = job.stateErr
          /\ job'.pc = "publish" \/ (job'.pc = "back" /\ job.moved)
      BY <1>6, <1>2, ZenonT(60) DEF Jobs, Phases, Working
    <2>2. Moving(job', ref[Moved], plan.ref[Moved], tree[Checkout], plan.tree[Checkout],
                 state[Checkout], plan.state[Checkout], Target, Mine, Checkout \notin touched)
      BY <1>1, <1>2, <2>1 DEF InMotion, Moving, Flags, Stage, StateStage, Residues, InTransit, Settling
    <2>. QED
      BY <1>1, <1>3, <1>6, <2>1, <2>2, TurnStep DEF Working
  <1>. QED
    BY <1>5, <1>6 DEF Decide, Goto

LEMMA PublishStep == CInv /\ Publish => CInv'
  <1>. SUFFICES ASSUME CInv, Publish PROVE CInv'
    OBVIOUS
  <1>1. job.pc = "publish" /\ job.pc \in Working \ {"record"}
    BY DEF Publish, At, Working
  <1>2. TypeOK /\ job \in Jobs /\ InMotion /\ Checkout \in Workspaces
    BY <1>1, Busy
  <1>3. Static /\ UNCHANGED <<config, canceled, ref, tree>>
    BY DEF Publish, Static, world, git
  <1>4. ~job.stateErr /\ job.to \in Commits
    BY <1>1, <1>2 DEF InMotion, Moving, Flags
  <1>5. CASE state' = [state EXCEPT ![Checkout] = job.to] /\ Report("completed", Action)
    BY <1>1, <1>3, <1>4, <1>5, ReportStep DEF Action, Working
  <1>6. CASE /\ UNCHANGED entries
             /\ state' = state \/ state' = [state EXCEPT ![Checkout] = job.to]
             /\ \E replaced \in BOOLEAN : job' = [job EXCEPT !.pc = "readback", !.replaced = replaced]
    <2>1. /\ job' \in Jobs /\ job'.pc = "readback" /\ job'.cur = job.cur /\ job'.held = job.held
          /\ job'.from = job.from /\ job'.to = job.to /\ job'.moved = job.moved
          /\ job'.back = job.back /\ job'.stateErr = job.stateErr
      BY <1>6, <1>2 DEF Jobs, Phases, Working
    <2>2. state'[Checkout] = state[Checkout] \/ state'[Checkout] = job'.to
      BY <1>2, <1>6, <2>1 DEF TypeOK
    <2>3. MovingOn
      BY <1>1, <1>2, <1>3, <2>1, <2>2
         DEF MovingOn, InMotion, Moving, Flags, Stage, StateStage, Residues, InTransit, Settling
    <2>. QED
      BY <1>1, <1>3, <1>4, <1>6, <2>1, <2>3, Advance DEF Working
  <1>. QED
    BY <1>5, <1>6 DEF Publish

LEMMA ReadbackStep == CInv /\ Readback => CInv'
  <1>. SUFFICES ASSUME CInv, Readback PROVE CInv'
    OBVIOUS
  <1>1. job.pc = "readback" /\ job.pc \in Working \ {"record"}
    BY DEF Readback, At, Working
  <1>2. TypeOK /\ job \in Jobs /\ InMotion
    BY <1>1, Busy
  <1>3. Static /\ UNCHANGED <<config, canceled, ref, tree, state, entries>>
    BY SMTT(30) DEF Readback, Static, world, git
  <1>4. /\ job' \in Jobs /\ job'.pc = "restoreState" /\ job'.cur = job.cur /\ job'.held = job.held
        /\ job'.from = job.from /\ job'.to = job.to /\ job'.moved = job.moved /\ job'.back = job.back
        /\ job'.stateErr \/ (job'.installed <=> state[Checkout] = job.to)
    <2>1. \/ \E uncertain \in BOOLEAN : job' = [job EXCEPT !.pc = "restoreState", !.installed = (state[Checkout] = job.to),
                                                           !.stateErr = uncertain]
          \/ job' = [job EXCEPT !.pc = "restoreState", !.stateErr = TRUE]
      BY DEF Readback
    <2>2. CASE job' = [job EXCEPT !.pc = "restoreState", !.stateErr = TRUE]
      BY <2>2, <1>2 DEF Jobs, Phases, Working
    <2>3. ASSUME NEW uncertain \in BOOLEAN,
                 job' = [job EXCEPT !.pc = "restoreState", !.installed = (state[Checkout] = job.to),
                                    !.stateErr = uncertain]
          PROVE  /\ job' \in Jobs /\ job'.pc = "restoreState" /\ job'.cur = job.cur /\ job'.held = job.held
                 /\ job'.from = job.from /\ job'.to = job.to /\ job'.moved = job.moved /\ job'.back = job.back
                 /\ job'.installed <=> state[Checkout] = job.to
      <3>. DEFINE seen == state[Checkout] = job.to
      <3>1. seen \in BOOLEAN /\ job' = [job EXCEPT !.pc = "restoreState", !.installed = seen, !.stateErr = uncertain]
        BY <2>3
      <3>. HIDE DEF seen
      <3>2. /\ job' \in Jobs /\ job'.pc = "restoreState" /\ job'.cur = job.cur /\ job'.held = job.held
            /\ job'.from = job.from /\ job'.to = job.to /\ job'.moved = job.moved /\ job'.back = job.back
            /\ job'.installed = seen
        BY <3>1, <1>2, ZenonT(60) DEF Jobs, Phases, Working
      <3>. QED
        BY <3>2 DEF seen
    <2>. QED
      BY <2>1, <2>2, <2>3
  <1>5. Moving(job', ref[Moved], plan.ref[Moved], tree[Checkout], plan.tree[Checkout],
               state[Checkout], plan.state[Checkout], Target, Mine, Checkout \notin touched)
    BY <1>1, <1>2, <1>4 DEF InMotion, Moving, Flags, Stage, StateStage, Residues, InTransit, Settling
  <1>. QED
    BY <1>1, <1>3, <1>4, <1>5, TurnStep DEF Working

LEMMA RestoreStateStep == CInv /\ RestoreState => CInv'
  <1>. SUFFICES ASSUME CInv, RestoreState PROVE CInv'
    OBVIOUS
  <1>1. job.pc = "restoreState" /\ job.pc \in Working \ {"record"}
    BY DEF RestoreState, At, Working
  <1>2. TypeOK /\ job \in Jobs /\ InMotion /\ Checkout \in Workspaces
    BY <1>1, Busy
  <1>3. Static /\ UNCHANGED <<config, canceled, ref, tree, entries>>
    BY DEF RestoreState, Static, world, git
  <1>4. plan.state[Checkout] \in Commits
    BY <1>2 DEF InMotion, Moving
  <1>5. CASE /\ ~job.installed \/ job.stateErr
             /\ state' = state /\ job' = [job EXCEPT !.pc = "stateSettled"]
    <2>1. /\ job' \in Jobs /\ job'.pc = "stateSettled" /\ job'.cur = job.cur /\ job'.held = job.held
          /\ job'.from = job.from /\ job'.to = job.to /\ job'.moved = job.moved
          /\ job'.back = job.back /\ job'.stateErr = job.stateErr
      BY <1>5, <1>2 DEF Jobs, Phases, Working
    <2>2. Moving(job', ref[Moved], plan.ref[Moved], tree[Checkout], plan.tree[Checkout],
                 state[Checkout], plan.state[Checkout], Target, Mine, Checkout \notin touched)
      BY <1>1, <1>2, <1>5, <2>1 DEF InMotion, Moving, Flags, Stage, StateStage, Residues, InTransit, Settling
    <2>. QED
      BY <1>1, <1>3, <1>5, <2>1, <2>2, TurnStep DEF Working
  <1>6. CASE /\ state' = state \/ state' = [state EXCEPT ![Checkout] = plan.state[Checkout]]
             /\ \E failed \in BOOLEAN :
                   /\ job' = [job EXCEPT !.pc = "stateSettled", !.stateErr = failed]
                   /\ failed \/ state'[Checkout] = plan.state[Checkout]
    <2>1. /\ job' \in Jobs /\ job'.pc = "stateSettled" /\ job'.cur = job.cur /\ job'.held = job.held
          /\ job'.from = job.from /\ job'.to = job.to /\ job'.moved = job.moved /\ job'.back = job.back
          /\ job'.stateErr \/ state'[Checkout] = plan.state[Checkout]
      BY <1>6, <1>2 DEF Jobs, Phases, Working
    <2>2. MovingOn
      BY <1>1, <1>2, <1>3, <2>1
         DEF MovingOn, InMotion, Moving, Flags, Stage, StateStage, Residues, InTransit, Settling, OldState
    <2>. QED
      BY <1>1, <1>3, <1>4, <1>6, <2>1, <2>2, Advance DEF Working
  <1>7. CASE /\ job.installed /\ ~job.stateErr
             /\ state' = [state EXCEPT ![Checkout] = plan.state[Checkout]]
             /\ job' = [job EXCEPT !.pc = "stateSettled"]
    <2>1. job' = [job EXCEPT !.pc = "stateSettled", !.stateErr = FALSE]
      BY <1>2, <1>7 DEF Jobs
    <2>2. state'[Checkout] = plan.state[Checkout]
      BY <1>2, <1>7 DEF TypeOK
    <2>. QED
      BY <1>6, <1>7, <2>1, <2>2
  <1>. QED
    <2>1. ASSUME NEW unseen \in BOOLEAN, state' \in {state, IF state[Checkout] = job.to
                                        THEN [state EXCEPT ![Checkout] = plan.state[Checkout]] ELSE state},
                 job' = [job EXCEPT !.pc = "stateSettled",
                                    !.stateErr = unseen \/ state'[Checkout] # plan.state[Checkout]]
          PROVE  CInv'
      <3>. DEFINE failed == unseen \/ state'[Checkout] # plan.state[Checkout]
      <3>1. failed \in BOOLEAN /\ (failed \/ state'[Checkout] = plan.state[Checkout])
        OBVIOUS
      <3>2. job' = [job EXCEPT !.pc = "stateSettled", !.stateErr = failed]
        BY <2>1
      <3>. HIDE DEF failed
      <3>. QED
        BY <1>6, <2>1, <3>1, <3>2
    <2>. QED
      BY <1>5, <1>7, <2>1 DEF RestoreState, Goto

LEMMA StateSettledStep == CInv /\ StateSettled => CInv'
  <1>. SUFFICES ASSUME CInv, StateSettled PROVE CInv'
    OBVIOUS
  <1>1. job.pc = "stateSettled" /\ job.pc \in Working \ {"record"} /\ job.pc \in Settling
    BY DEF StateSettled, At, Working, Settling
  <1>2. job \in Jobs /\ InMotion
    BY <1>1, Busy
  <1>3. Static /\ UNCHANGED <<config, canceled, ref, tree, state>>
    BY DEF StateSettled, Static, world, git
  <1>4. CASE ~job.moved /\ ~job.stateErr /\ Report("failed", Action)
    <2>1. Kept(job.cur)
      BY <1>1, <1>4, NothingLeft
    <2>. QED
      BY <1>1, <1>3, <1>4, <2>1, ReportStep DEF Action
  <1>5. CASE UNCHANGED entries /\ \/ job.moved /\ job' = [job EXCEPT !.pc = "back"]
                                  \/ ~job.moved /\ job.stateErr /\ job' = [job EXCEPT !.pc = "record"]
    <2>1. /\ job' \in Jobs /\ job'.cur = job.cur /\ job'.held = job.held
          /\ job'.from = job.from /\ job'.to = job.to /\ job'.moved = job.moved
          /\ job'.back = job.back /\ job'.stateErr = job.stateErr /\ job'.refErr = job.refErr
          /\ (job'.pc = "back" /\ job.moved) \/ (job'.pc = "record" /\ ~job.moved /\ job.stateErr)
      BY <1>5, <1>2 DEF Jobs, Phases, Working
    <2>2. Moving(job', ref[Moved], plan.ref[Moved], tree[Checkout], plan.tree[Checkout],
                 state[Checkout], plan.state[Checkout], Target, Mine, Checkout \notin touched)
      BY <1>1, <1>2, <2>1 DEF InMotion, Moving, Flags, Stage, StateStage, Residues, InTransit, Settling
    <2>. QED
      BY <1>1, <1>3, <1>5, <2>1, <2>2, TurnStep DEF Working
  <1>. QED
    BY <1>4, <1>5 DEF StateSettled, Goto

LEMMA RestoredStep == CInv /\ Restored => CInv'
  <1>. SUFFICES ASSUME CInv, Restored PROVE CInv'
    OBVIOUS
  <1>1. job.pc = "restored" /\ job.pc \in Working \ {"record"}
    BY DEF Restored, At, Working
  <1>2. job \in Jobs /\ InMotion
    BY <1>1, Busy
  <1>3. Static /\ UNCHANGED <<config, canceled, ref, tree, state>>
    BY DEF Restored, Static, world, git
  <1>4. CASE ~job.stateErr /\ Report(IF job.stopped THEN "canceled" ELSE "failed", "none")
    <2>1. Kept(job.cur)
      BY <1>1, <1>4, NothingLeft
    <2>. QED
      BY <1>1, <1>3, <1>4, <2>1, ReportStep
  <1>5. CASE UNCHANGED entries /\ job.stateErr /\ job' = [job EXCEPT !.pc = "record"]
    <2>1. /\ job' \in Jobs /\ job'.pc = "record" /\ job'.cur = job.cur /\ job'.held = job.held
          /\ job'.from = job.from /\ job'.to = job.to /\ job'.moved = job.moved
          /\ job'.back = job.back /\ job'.stateErr /\ job'.refErr = job.refErr
      BY <1>5, <1>2 DEF Jobs, Phases, Working
    <2>2. Moving(job', ref[Moved], plan.ref[Moved], tree[Checkout], plan.tree[Checkout],
                 state[Checkout], plan.state[Checkout], Target, Mine, Checkout \notin touched)
      BY <1>1, <1>2, <2>1 DEF InMotion, Moving, Flags, Stage, StateStage, Residues, InTransit, Settling
    <2>. QED
      BY <1>1, <1>3, <1>5, <2>1, <2>2, TurnStep DEF Working
  <1>. QED
    BY <1>4, <1>5 DEF Restored, Goto

LEMMA BackFailedStep == CInv /\ BackFailed => CInv'
  <1>. SUFFICES ASSUME CInv, BackFailed PROVE CInv'
    OBVIOUS
  <1>1. job.pc = "backFailed" /\ job.pc \in Working \ {"record"}
    BY DEF BackFailed, At, Working
  <1>2. job \in Jobs /\ InMotion
    BY <1>1, Busy
  <1>3. Static /\ UNCHANGED <<config, canceled, ref, tree, state, entries>>
    BY DEF BackFailed, Static, world, git
  <1>4. /\ job' \in Jobs /\ job'.pc = "record" /\ job'.cur = job.cur /\ job'.held = job.held
        /\ job'.from = job.from /\ job'.to = job.to /\ job'.moved = job.moved
        /\ job'.back = job.back /\ job'.stateErr = job.stateErr /\ job'.refErr
    BY <1>2 DEF BackFailed, Jobs, Phases, Working
  <1>5. Moving(job', ref[Moved], plan.ref[Moved], tree[Checkout], plan.tree[Checkout],
               state[Checkout], plan.state[Checkout], Target, Mine, Checkout \notin touched)
    BY <1>1, <1>2, <1>4 DEF InMotion, Moving, Flags, Stage, StateStage, Residues, InTransit, Settling
  <1>. QED
    BY <1>1, <1>3, <1>4, <1>5, TurnStep DEF Working

-----------------------------------------------------------------------------
(* From the plan to the first entry                                         *)

LEMMA InitHolds == Init => CInv
  <1>. SUFFICES ASSUME Init PROVE CInv
    OBVIOUS
  <1>1. TypeOK
    <2>1. /\ owner \in Workspaces \cup {None} /\ upstream \in Fetched /\ config = 0
          /\ ref = [e \in Entries |-> Old] /\ record = [e \in Entries |-> None]
          /\ tree = [w \in Workspaces |-> [at |-> Old, on |-> "branch", dirty |-> FALSE, there |-> TRUE]]
          /\ state \in [Workspaces -> {Old, "invalid"}] /\ entries = [e \in Entries |-> Unsettled]
          /\ canceled = FALSE /\ touched = {} /\ lost = FALSE
      BY DEF Init
    <2>2. Old \in Commits
      BY CompanionAssumption
    <2>3. state \in [Workspaces -> Commits \cup {"invalid", "theirs"}]
      BY <2>1, <2>2
    <2>4. ref \in [Entries -> Commits] /\ tree \in [Workspaces -> Tree]
      BY <2>1, <2>2 DEF Tree
    <2>5. /\ record \in [Entries -> (SUBSET {"ref", "worktree", "state"}) \cup {None}]
          /\ entries \in [Entries -> Settled \cup {Unsettled}]
      <3>. DEFINE names == (SUBSET {"ref", "worktree", "state"}) \cup {None}
      <3>1. None \in names
        OBVIOUS
      <3>2. record \in [Entries -> names]
        <4>. HIDE DEF names
        <4>. QED
          BY <2>1, <3>1
      <3>3. entries \in [Entries -> Settled \cup {Unsettled}]
        BY <2>1
      <3>. QED
        BY <3>2, <3>3
    <2>6. config \in 0..1
      BY <2>1
    <2>7. canceled \in BOOLEAN /\ lost \in BOOLEAN
      BY <2>1
    <2>8. touched \subseteq Entries
      BY <2>1
    <2>. QED
      BY <2>1, <2>3, <2>4, <2>5, <2>6, <2>7, <2>8 DEF TypeOK
  <1>2. job \in Jobs /\ job.pc = "idle" /\ \A e \in Entries : entries[e] = Unsettled
    BY DEF Init, Jobs, Phases, Ended, Idle
  <1>3. Whole /\ ResidueIsRecorded
    BY <1>2 DEF Whole, ResidueIsRecorded, Unsettled, Ended
  <1>. QED
    BY <1>1, <1>2, <1>3 DEF CInv

LEMMA PlanStep == CInv /\ Plan => CInv'
  <1>. SUFFICES ASSUME CInv, Plan PROVE CInv'
    OBVIOUS
  <1>1. TypeOK
    BY DEF CInv
  <1>2. /\ plan'.head = ref[Base] /\ plan'.ref = ref /\ plan'.tree = tree /\ plan'.state = state
        /\ \A e \in Entries : entries'[e] = Unsettled
        /\ touched' = {} /\ UNCHANGED <<owner, upstream, config, ref, tree, state, record>>
    BY DEF Plan, world, git
  <1>3. job' \in Jobs /\ job'.pc = "planned" /\ ~job'.held
    BY DEF Plan, Idle, Jobs, Phases, Preparing
  <1>4. TypeOK'
    <2>1. entries' \in [Entries -> Settled \cup {Unsettled}] /\ canceled' \in BOOLEAN /\ lost' \in BOOLEAN
      BY DEF Plan
    <2>. QED
      BY <1>1, <1>2, <2>1 DEF TypeOK
  <1>5. job'.pc \in Preparing /\ job'.pc \notin Ended \cup Working
    BY <1>3 DEF Preparing, Ended, Working
  <1>6. /\ \A e \in Entries : RefKept(e)' /\ RefIsOld(e)'
        /\ \A w \in Workspaces : TreeKept(w)' /\ StateKept(w)' /\ TreeIsOld(w)' /\ StateIsOld(w)'
    BY <1>2 DEF RefKept, RefIsOld, TreeKept, StateKept, TreeIsOld, StateIsOld, OldRef, OldTree, OldState
  <1>7. /\ \A w \in Workspaces : w \in Entries
        /\ Base \in Entries /\ owner' \in Workspaces \cup {None}
    BY <1>1, <1>2 DEF Entries, TypeOK
  <1>8. Planned'
    BY <1>1, <1>2 DEF Planned, TypeOK
  <1>9. Others' /\ OwnerFree' /\ OwnerHeld' /\ OwnRef'
    BY <1>3, <1>6, <1>7 DEF Others, OwnerFree, OwnerHeld, OwnRef
  <1>10. Before'
    BY <1>2, <1>3, <1>6, <1>7 DEF Before
  <1>11. Away' /\ Progress' /\ Current'
    BY <1>3, <1>5 DEF Away, Progress, Current
  <1>12. Whole' /\ ResidueIsRecorded'
    BY <1>2 DEF Whole, ResidueIsRecorded, Unsettled
  <1>. QED
    BY <1>3, <1>4, <1>8, <1>9, <1>10, <1>11, <1>12 DEF CInv

\* Before the baseline nothing was done.
LEMMA Prepared ==
    ASSUME CInv, job.pc \in Preparing
    PROVE  /\ job.pc \notin Ended /\ job.pc # "idle" /\ job.pc \notin Working /\ TypeOK /\ job \in Jobs
           /\ Planned /\ ~job.held /\ RefKept(Base) /\ RefIsOld(Base) /\ OwnerFree /\ Others /\ OwnRef
           /\ \A e \in Entries : entries[e] = Unsettled /\ Waiting(e) /\ Open(e)
           /\ Base \in Entries /\ owner \in Workspaces \cup {None}
           /\ ResidueIsRecorded /\ \A e \in Entries : ~entries[e].incomplete
  <1>1. job.pc \notin Ended /\ job.pc # "idle" /\ job.pc \notin Working
    BY DEF Preparing, Ended, Working
  <1>2. /\ TypeOK /\ job \in Jobs /\ Planned /\ Before /\ OwnerFree /\ Others /\ OwnRef /\ ResidueIsRecorded
    BY <1>1 DEF CInv
  <1>3. \A e \in Entries : entries[e] = Unsettled /\ ~entries[e].incomplete
    BY <1>2 DEF Before, Unsettled
  <1>4. \A e \in Entries : Waiting(e) /\ Open(e)
    BY <1>1, <1>3 DEF Waiting, Open, AtWork, Unsettled
  <1>. QED
    BY <1>1, <1>2, <1>3, <1>4 DEF Before, TypeOK, Entries

\* The steps that end a command before the baseline was moved, or go on with it.
LEMMA PreparingEnds ==
    ASSUME CInv, job.pc \in Preparing, NEW how \in {"ended", "refused"}, End(how),
           UNCHANGED <<owner, upstream, config, record, plan, touched, ref, tree, state, canceled, lost>>,
           entries' = entries \/ Settle(Base, "failed", "none", FALSE)
    PROVE  CInv'
  <1>1. /\ job.pc \notin Ended /\ job.pc \notin Working /\ TypeOK /\ ~job.held /\ ResidueIsRecorded
        /\ \A e \in Entries : Open(e) /\ ~entries[e].incomplete
        /\ Base \in Entries
    BY Prepared
  <1>2. /\ entries' \in [Entries -> Settled \cup {Unsettled}]
        /\ \A e \in Entries : entries'[e] = entries[e] \/ entries'[e].status = "failed"
        /\ \A e \in Entries : ~entries'[e].incomplete
    <2>1. CASE entries' = entries
      BY <1>1, <2>1 DEF TypeOK
    <2>2. CASE entries' = [entries EXCEPT ![Base] = [status |-> "failed", action |-> "none", incomplete |-> FALSE]]
      BY <1>1, <2>2 DEF TypeOK, Settled
    <2>. QED
      BY <2>1, <2>2 DEF Settle
  <1>3. TypeOK'
    BY <1>1, <1>2 DEF TypeOK
  <1>4. ResidueIsRecorded'
    BY <1>2 DEF ResidueIsRecorded
  <1>. QED
    BY <1>1, <1>2, <1>3, <1>4, EndStep

LEMMA PreparingGoesOn ==
    ASSUME CInv, job.pc \in Preparing, NEW pc \in Preparing, Goto(pc),
           UNCHANGED <<owner, upstream, config, record, plan, touched, ref, tree, state, canceled, lost, entries>>
    PROVE  CInv'
  <1>1. /\ job.pc \notin Ended /\ job.pc # "idle" /\ job.pc \notin Working /\ TypeOK /\ job \in Jobs
        /\ Planned /\ ~job.held /\ RefKept(Base) /\ RefIsOld(Base)
        /\ \A e \in Entries : entries[e] = Unsettled /\ Waiting(e) /\ Open(e) /\ ~entries[e].incomplete
        /\ Base \in Entries /\ owner \in Workspaces \cup {None}
    BY Prepared
  <1>2. job' \in Jobs /\ job'.pc = pc /\ ~job'.held /\ job'.held = job.held
    BY <1>1 DEF Goto, Jobs, Phases
  <1>3. pc \notin Ended \cup Working \cup {"idle", "check", "forwardRef", "confirmRef"}
    BY DEF Preparing, Ended, Working
  <1>4. Accounted'
    <2>1. \A w \in Workspaces : Unmoved(w)
      <3>. QED
        BY DEF Unmoved
    <2>. QED
      BY <1>1, <1>2, <2>1, Accounts
  <1>5. TypeOK' /\ Planned'
    BY <1>1 DEF TypeOK, Planned
  <1>6. Before' /\ Whole' /\ ResidueIsRecorded'
    BY <1>1, <1>2 DEF Before, Whole, ResidueIsRecorded, RefKept, RefIsOld, Target
  <1>7. Away' /\ Progress' /\ Current'
    BY <1>2, <1>3 DEF Away, Progress, Current
  <1>. QED
    BY <1>2, <1>3, <1>4, <1>5, <1>6, <1>7 DEF CInv, Accounted

LEMMA RevalidateStep == CInv /\ Revalidate => CInv'
  <1>. SUFFICES ASSUME CInv, Revalidate PROVE CInv'
    OBVIOUS
  <1>1. /\ job.pc \in Preparing /\ "fetch" \in Preparing
        /\ UNCHANGED <<owner, upstream, config, record, plan, touched, ref, tree, state, canceled, lost, entries>>
    BY DEF Revalidate, At, Preparing, world, git
  <1>2. Goto("fetch") \/ End("refused")
    BY DEF Revalidate
  <1>. QED
    BY <1>1, <1>2, PreparingGoesOn, PreparingEnds

LEMMA FetchStep == CInv /\ Fetch => CInv'
  <1>. SUFFICES ASSUME CInv, Fetch PROVE CInv'
    OBVIOUS
  <1>1. /\ job.pc \in Preparing /\ "baseline" \in Preparing
        /\ UNCHANGED <<owner, upstream, config, record, plan, touched, ref, tree, state, canceled, lost>>
    BY DEF Fetch, At, Preparing, world, git
  <1>2. \/ Goto("baseline") /\ UNCHANGED entries
        \/ End("ended") /\ Settle(Base, "failed", "none", FALSE)
    BY DEF Fetch
  <1>. QED
    BY <1>1, <1>2, PreparingGoesOn, PreparingEnds

\* The baseline is checked out, and its owner is as planned.
LEMMA BaselineTaken ==
    ASSUME CInv, job.pc = "baseline", HasOwner, OwnerIsReady,
           Enter(Base, plan.head, Target, TRUE, IF plan.head = Target THEN "decide" ELSE "forward"),
           UNCHANGED <<owner, upstream, config, record, plan, touched, ref, tree, state, canceled, lost, entries>>
    PROVE  CInv'
  <1>1. /\ job.pc \notin Ended /\ job.pc # "idle" /\ job.pc \notin Working /\ TypeOK /\ job \in Jobs
        /\ Planned /\ ~job.held /\ RefKept(Base) /\ RefIsOld(Base) /\ OwnerFree /\ Others /\ OwnRef
        /\ \A e \in Entries : entries[e] = Unsettled /\ Waiting(e) /\ Open(e)
        /\ Base \in Entries
        /\ \A e \in Entries : ~entries[e].incomplete
    BY Prepared DEF Preparing
  <1>2. owner \in Workspaces /\ owner # None /\ owner # Base /\ Base # None /\ owner \in Entries
    BY <1>1, CompanionAssumption DEF HasOwner, TypeOK, Entries
  <1>3. /\ plan.head \in Commits /\ Target \in Commits /\ plan.head = plan.ref[Base]
    BY <1>1, CompanionAssumption DEF Planned, TypeOK, Target, Entries
  <1>4. /\ job' \in Jobs /\ job'.pc = (IF plan.head = Target THEN "decide" ELSE "forward") /\ job'.cur = Base
        /\ job'.held /\ job'.from = plan.head /\ job'.to = Target /\ ~job'.moved /\ ~job'.back /\ ~job'.stateErr
    <2>. DEFINE pc == IF plan.head = Target THEN "decide" ELSE "forward"
    <2>1. /\ job' = [pc |-> pc, cur |-> Base, from |-> plan.head, to |-> Target, held |-> TRUE, moved |-> FALSE,
                     back |-> FALSE, replaced |-> FALSE, installed |-> FALSE, stateErr |-> FALSE,
                     refErr |-> FALSE, stopped |-> FALSE]
          /\ pc \in Phases
      BY DEF Enter, Idle, Phases, Working
    <2>. HIDE DEF pc
    <2>2. /\ job' \in Jobs /\ job'.pc = pc /\ job'.cur = Base
          /\ job'.held /\ job'.from = plan.head /\ job'.to = Target /\ ~job'.moved /\ ~job'.back /\ ~job'.stateErr
      BY <2>1, <1>1, <1>3 DEF Jobs
    <2>. QED
      BY <2>2 DEF pc
  <1>5. job'.pc \in Working /\ job'.pc \notin Ended \cup Preparing \cup {"idle", "check", "forwardRef", "confirmRef", "record"}
    BY <1>4 DEF Working, Ended, Preparing
  <1>6. Moved' = Base /\ Checkout' = owner /\ Target' = Target /\ Branch(owner) = Base
    BY <1>2, <1>4 DEF Moved, Checkout, Target, Branch
  <1>7. /\ ref[Base] = plan.head /\ state[owner] = plan.state[owner] /\ state[owner] \in Commits
        /\ tree[owner].at = plan.head
    BY <1>6 DEF OwnerIsReady, Clean, Matches
  <1>8. TreeKept(owner) /\ TreeIsOld(owner) /\ StateIsOld(owner)
    BY <1>1, <1>2 DEF OwnerFree
  <1>9. Moving(job', ref[Base], plan.ref[Base], tree[owner], plan.tree[owner], state[owner], plan.state[owner],
               Target, Base \notin touched \/ owner \notin touched, owner \notin touched)
    <2>1. Flags(job', Target)
      BY <1>3, <1>4 DEF Flags, InTransit, Settling
    <2>2. Base \notin touched \/ owner \notin touched =>
              Stage(job', ref[Base], plan.ref[Base], tree[owner], plan.tree[owner])
      <3>. SUFFICES ASSUME tree[owner] = plan.tree[owner]
                    PROVE  Stage(job', ref[Base], plan.ref[Base], tree[owner], plan.tree[owner])
        BY <1>6, <1>8 DEF TreeKept
      <3>1. Here(tree[owner], plan.tree[owner], plan.head)
        BY <1>1, <1>2, <1>7 DEF Here, TypeOK, Tree
      <3>. QED
        BY <3>1, <1>3, <1>4, <1>7 DEF Stage, InTransit, Settling
    <2>3. StateStage(job', state[owner], plan.state[owner])
      BY <1>4, <1>7 DEF StateStage
    <2>4. Residues(job', ref[Base], plan.ref[Base], tree[owner], plan.tree[owner], state[owner],
                   plan.state[owner], Target)
      BY <1>1, <1>4, <1>8 DEF Residues, RefIsOld, TreeIsOld, StateIsOld
    <2>. QED
      BY <2>1, <2>2, <2>3, <2>4, <1>7 DEF Moving
  <1>10. Progress'
    BY <1>6, <1>9 DEF Progress, InMotion, Mine
  <1>11. ~Open(Base)' /\ \A e \in Entries \ {Base} : Waiting(e)' /\ Open(e)'
    BY <1>1, <1>4, <1>5 DEF Open, Waiting, AtWork, Unsettled
  <1>12. TypeOK' /\ Planned'
    BY <1>1 DEF TypeOK, Planned
  <1>13. Others' /\ OwnRef'
    BY <1>1, <1>6, <1>11, CompanionAssumption
       DEF Others, OwnRef, Entries, RefKept, TreeKept, StateKept, RefIsOld, TreeIsOld, StateIsOld, Branch
  <1>14. OwnerHeld' /\ OwnerFree'
    BY <1>1, <1>2, <1>4, <1>11 DEF OwnerHeld, OwnerFree, Open
  <1>15. Before' /\ Away' /\ Current' /\ Whole' /\ ResidueIsRecorded'
    BY <1>1, <1>2, <1>4, <1>5 DEF Before, Away, Current, Whole, ResidueIsRecorded
  <1>. QED
    BY <1>4, <1>5, <1>10, <1>12, <1>13, <1>14, <1>15 DEF CInv

\* Nobody has it checked out.
LEMMA BaselineLeft ==
    ASSUME CInv, job.pc = "baseline", BaselineIsFree,
           UNCHANGED <<owner, upstream, config, record, plan, touched, ref, tree, state, canceled, lost>>
    PROVE  CInv'
  <1>1. /\ job.pc \notin Ended /\ job.pc # "idle" /\ job.pc \notin Working /\ TypeOK /\ job \in Jobs
        /\ Planned /\ ~job.held /\ RefKept(Base) /\ RefIsOld(Base) /\ OwnerFree /\ Others /\ OwnRef
        /\ \A e \in Entries : entries[e] = Unsettled /\ Waiting(e) /\ Open(e)
        /\ Base \in Entries /\ owner \in Workspaces \cup {None}
        /\ \A e \in Entries : ~entries[e].incomplete
    BY Prepared DEF Preparing
  <1>2. /\ plan.head \in Commits /\ Target \in Commits
    BY <1>1, CompanionAssumption DEF Planned, TypeOK, Target, Entries
  <1>3. /\ job' \in Jobs /\ job'.pc = (IF plan.head = Target THEN "emit" ELSE "forwardRef") /\ job'.cur = Base
        /\ ~job'.held /\ job'.held = job.held /\ ~job'.stateErr /\ ~job'.refErr /\ job'.to = Target
    <2>. DEFINE pc == IF plan.head = Target THEN "emit" ELSE "forwardRef"
    <2>1. /\ job' = [pc |-> pc, cur |-> Base, from |-> plan.head, to |-> Target, held |-> FALSE, moved |-> FALSE,
                     back |-> FALSE, replaced |-> FALSE, installed |-> FALSE, stateErr |-> FALSE,
                     refErr |-> FALSE, stopped |-> FALSE]
          /\ pc \in Phases
      BY DEF BaselineIsFree, Enter, Idle, Phases, Working
    <2>. HIDE DEF pc
    <2>2. /\ job' \in Jobs /\ job'.pc = pc /\ job'.cur = Base
          /\ ~job'.held /\ job'.held = job.held /\ ~job'.stateErr /\ ~job'.refErr /\ job'.to = Target
      BY <2>1, <1>1, <1>2 DEF Jobs
    <2>. QED
      BY <2>2 DEF pc
  <1>4. job'.pc \notin Ended \cup Working \cup Preparing \cup {"idle", "check", "confirmRef"}
    BY <1>3 DEF Ended, Working, Preparing
  <1>5. /\ entries' \in [Entries -> Settled \cup {Unsettled}]
        /\ \A e \in Entries : entries'[e] = entries[e] \/ entries'[e].status = "completed"
        /\ \A e \in Entries : ~entries'[e].incomplete
        /\ plan.head # Target => entries' = entries
        /\ owner # Base => entries'[owner] = entries[owner]
    <2>1. CASE entries' = entries
      BY <1>1, <2>1 DEF TypeOK
    <2>2. CASE /\ plan.head = Target
               /\ entries' = [entries EXCEPT ![Base] = [status |-> "completed", action |-> "unchanged", incomplete |-> FALSE]]
      BY <1>1, <2>2 DEF TypeOK, Settled
    <2>. QED
      BY <2>1, <2>2 DEF BaselineIsFree, Settle
  <1>6. Away'
    BY <1>3 DEF Away, BaselineIsFree, BaselineCheckedOut
  <1>7. Current'
    BY <1>1, <1>2, <1>3, <1>4, <1>5 DEF Current
  <1>8. Whole' /\ ResidueIsRecorded'
    BY <1>5 DEF Whole, ResidueIsRecorded
  <1>9. TypeOK'
    BY <1>1, <1>5 DEF TypeOK
  <1>10. \A w \in Workspaces : Unmoved(w)
    <2>. QED
      BY DEF Unmoved
  <1>. QED
    BY <1>1, <1>3, <1>4, <1>5, <1>6, <1>7, <1>8, <1>9, <1>10, SettleStep

LEMMA BaselineStep == CInv /\ Baseline => CInv'
  <1>. SUFFICES ASSUME CInv, Baseline PROVE CInv'
    OBVIOUS
  <1>1. /\ job.pc = "baseline" /\ job.pc \in Preparing
        /\ UNCHANGED <<owner, upstream, config, record, plan, touched, ref, tree, state, canceled, lost>>
    BY DEF Baseline, At, Preparing, world, git
  <1>2. \/ /\ HasOwner /\ OwnerIsReady /\ UNCHANGED entries
           /\ Enter(Base, plan.head, Target, TRUE, IF plan.head = Target THEN "decide" ELSE "forward")
        \/ End("ended") /\ Settle(Base, "failed", "none", FALSE)
        \/ End("refused") /\ UNCHANGED entries
        \/ BaselineIsFree
    BY DEF Baseline, BaselineIsHeld
  <1>. QED
    BY <1>1, <1>2, BaselineTaken, BaselineLeft, PreparingEnds

LEMMA ForwardRefStep == CInv /\ ForwardRef => CInv'
  <1>. SUFFICES ASSUME CInv, ForwardRef PROVE CInv'
    OBVIOUS
  <1>1. job.pc = "forwardRef" /\ job.pc \notin Ended /\ job.pc # "idle" /\ job.pc \notin Working
        /\ job.pc \notin Ended \cup Preparing
    BY DEF ForwardRef, At, Ended, Working, Preparing
  <1>2. /\ TypeOK /\ job \in Jobs /\ Planned /\ OwnerFree /\ Away /\ Whole /\ ResidueIsRecorded
        /\ job.cur = Base /\ ~job.held /\ entries[Base] = Unsettled /\ ~job.stateErr /\ ~job.refErr
        /\ job.to \in Commits
    BY <1>1 DEF CInv, Current
  <1>3. UNCHANGED <<owner, upstream, config, tree, state, record, plan, canceled, touched, lost>>
    BY DEF ForwardRef, world
  <1>4. /\ Base \in Entries /\ owner \in Workspaces \cup {None}
        /\ \A w \in Workspaces : w \in Entries /\ w # Base
    BY <1>2, CompanionAssumption DEF TypeOK, Entries
  <1>5. ref' = ref \/ ref' = [ref EXCEPT ![Base] = job.to]
    BY DEF ForwardRef
  <1>6. ref' \in [Entries -> Commits] /\ \A w \in Workspaces : ref'[w] = ref[w]
    BY <1>2, <1>4, <1>5 DEF TypeOK
  <1>7. CASE UNCHANGED entries /\ job' = [job EXCEPT !.pc = "confirmRef", !.moved = TRUE]
    <2>1. /\ job' \in Jobs /\ job'.pc = "confirmRef" /\ job'.cur = Base /\ ~job'.held /\ job'.held = job.held
          /\ ~job'.stateErr /\ ~job'.refErr /\ job'.to = job.to
      BY <1>2, <1>7 DEF Jobs, Phases
    <2>2. job'.pc \notin Working \cup Preparing \cup {"idle", "check"}
      BY <2>1 DEF Working, Preparing
    <2>3. TypeOK'
      BY <1>2, <1>3, <1>6, <1>7 DEF TypeOK
    <2>4. Away' /\ Current'
      BY <1>1, <1>2, <1>3, <1>7, <2>1, <2>2 DEF Away, Current
    <2>5. Whole' /\ ResidueIsRecorded'
      BY <1>1, <1>2, <1>7 DEF Whole, ResidueIsRecorded
    <2>6. \A w \in Workspaces : Unmoved(w)
      BY <1>3, <1>6 DEF Unmoved
    <2>. QED
      BY <1>1, <1>2, <1>3, <1>4, <1>6, <1>7, <2>1, <2>2, <2>3, <2>4, <2>5, <2>6, SettleStep
  <1>8. CASE Settle(Base, "failed", "none", FALSE) /\ End("ended")
    <2>1. entries' = [entries EXCEPT ![Base] = [status |-> "failed", action |-> "none", incomplete |-> FALSE]]
      BY <1>8 DEF Settle
    <2>2. /\ entries' \in [Entries -> Settled \cup {Unsettled}] /\ entries'[Base].status = "failed"
          /\ \A e \in Entries \ {Base} : entries'[e] = entries[e]
          /\ ~entries'[Base].incomplete
      BY <2>1, <1>2, <1>4 DEF TypeOK, Settled
    <2>3. Open(Base)
      BY <1>1, <1>2 DEF Open, Waiting, AtWork, Unsettled
    <2>4. TypeOK'
      BY <1>2, <1>3, <1>6, <2>2 DEF TypeOK
    <2>5. ResidueIsRecorded'
      <3>1. \A e \in Entries : ~entries'[e].incomplete
        BY <1>1, <1>2, <2>2 DEF Whole
      <3>. QED
        BY <3>1 DEF ResidueIsRecorded
    <2>. QED
      BY <1>1, <1>2, <1>3, <1>5, <1>8, <2>2, <2>3, <2>4, <2>5, EndStep
  <1>. QED
    BY <1>7, <1>8 DEF ForwardRef

LEMMA ConfirmRefStep == CInv /\ ConfirmRef => CInv'
  <1>. SUFFICES ASSUME CInv, ConfirmRef PROVE CInv'
    OBVIOUS
  <1>1. job.pc = "confirmRef" /\ job.pc \notin Ended /\ job.pc # "idle" /\ job.pc \notin Working
        /\ job.pc \notin Ended \cup Preparing
    BY DEF ConfirmRef, At, Ended, Working, Preparing
  <1>2. /\ TypeOK /\ job \in Jobs /\ Planned /\ OwnerFree /\ Away /\ Whole /\ ResidueIsRecorded
        /\ job.cur = Base /\ ~job.held /\ entries[Base] = Unsettled /\ ~job.stateErr /\ ~job.refErr
        /\ job.to \in Commits
    BY <1>1 DEF CInv, Current
  <1>3. UNCHANGED <<owner, upstream, config, ref, tree, state, record, plan, canceled, touched, lost>>
    BY DEF ConfirmRef, world, git
  <1>4. /\ Base \in Entries /\ owner \in Workspaces \cup {None} /\ Base # owner
        /\ \A w \in Workspaces : w \in Entries /\ w # Base
    BY <1>2, CompanionAssumption DEF TypeOK, Entries
  <1>5. \A w \in Workspaces : Unmoved(w)
    <2>. QED
      BY <1>3 DEF Unmoved
  <1>6. CASE Settle(Base, "completed", "fast-forward", FALSE) /\ Goto("emit")
    <2>1. /\ job' \in Jobs /\ job'.pc = "emit" /\ ~job'.held /\ job'.held = job.held
      BY <1>2, <1>6 DEF Goto, Jobs, Phases
    <2>2. job'.pc \notin Working \cup Preparing \cup {"idle", "check", "forwardRef", "confirmRef"}
      BY <2>1 DEF Working, Preparing
    <2>3. entries' = [entries EXCEPT ![Base] = [status |-> "completed", action |-> "fast-forward", incomplete |-> FALSE]]
      BY <1>6 DEF Settle
    <2>4. /\ entries' \in [Entries -> Settled \cup {Unsettled}] /\ entries'[Base].status = "completed"
          /\ \A e \in Entries \ {Base} : entries'[e] = entries[e]
          /\ ~entries'[Base].incomplete
      BY <2>3, <1>2, <1>4 DEF TypeOK, Settled
    <2>5. TypeOK'
      BY <1>2, <1>3, <2>4 DEF TypeOK
    <2>6. Away' /\ Current'
      BY <1>1, <1>2, <1>3, <2>1, <2>2 DEF Away, Current
    <2>7. Whole' /\ ResidueIsRecorded'
      <3>1. \A e \in Entries : ~entries'[e].incomplete
        BY <1>1, <1>2, <2>4 DEF Whole
      <3>. QED
        BY <3>1 DEF Whole, ResidueIsRecorded
    <2>. QED
      BY <1>1, <1>2, <1>3, <1>4, <1>5, <2>1, <2>2, <2>4, <2>5, <2>6, <2>7, SettleStep
  <1>7. CASE UNCHANGED entries /\ job' = [job EXCEPT !.pc = "record", !.refErr = TRUE]
    <2>1. /\ job' \in Jobs /\ job'.pc = "record" /\ job'.cur = Base /\ ~job'.held /\ job'.held = job.held
          /\ ~job'.stateErr /\ job'.refErr
      BY <1>2, <1>7 DEF Jobs, Phases, Working
    <2>2. job'.pc \notin Ended \cup Preparing \cup {"idle", "check", "forwardRef", "confirmRef"}
          /\ job'.pc \in Working
      BY <2>1 DEF Working, Preparing, Ended
    <2>3. TypeOK' /\ Planned'
      BY <1>2, <1>3, <1>7 DEF TypeOK, Planned
    <2>4. Away' /\ Current' /\ Progress' /\ Before'
      BY <1>1, <1>2, <1>3, <1>4, <1>7, <2>1, <2>2 DEF Away, Current, Progress, Before
    <2>5. Whole' /\ ResidueIsRecorded'
      BY <1>1, <1>2, <1>3, <1>7 DEF Whole, ResidueIsRecorded, Named
    <2>6. \A e \in Entries : (Waiting(e)' => Waiting(e)) /\ (Open(e)' => Open(e))
      BY <1>1, <1>7, <2>2 DEF Open, Waiting, AtWork
    <2>7. Accounted'
      BY <1>1, <1>2, <1>3, <1>5, <1>7, <2>1, <2>6, Accounts
    <2>. QED
      BY <2>1, <2>2, <2>3, <2>4, <2>5, <2>7 DEF CInv, Accounted
  <1>. QED
    BY <1>6, <1>7 DEF ConfirmRef

-----------------------------------------------------------------------------
(* The loop                                                                 *)

\* What is still to be reported has nothing done to it.
LEMMA LaterIsOpen ==
    ASSUME CInv, job.pc \notin Ended, NEW e \in Later, ~AtWork(e)
    PROVE  /\ e \in Workspaces /\ e \in Entries /\ Waiting(e) /\ Open(e) /\ entries[e] = Unsettled
           /\ ~(job.held /\ e = owner)
  <1>1. /\ e \in Workspaces /\ e \in Entries /\ entries[e].status = "none" /\ ~(job.held /\ e = owner)
    BY DEF Later, Entries
  <1>2. entries[e] = Unsettled
    <2>1. entries[e] \in Settled \cup {Unsettled}
      BY <1>1 DEF CInv, TypeOK
    <2>. QED
      BY <1>1, <2>1 DEF Settled
  <1>3. Waiting(e)
    BY <1>1 DEF Waiting
  <1>. QED
    BY <1>1, <1>2, <1>3 DEF Open

LEMMA RestIsCanceled ==
    ASSUME CInv, job.pc \in {"emit", "next"}, CancelRest
    PROVE  /\ entries' \in [Entries -> Settled \cup {Unsettled}]
           /\ \A e \in Entries : entries'[e] = entries[e] \/ (entries'[e].status # "none" /\ Open(e))
           /\ \A e \in Entries : ~entries'[e].incomplete
           /\ job.held => entries'[owner] = entries[owner]
  <1>1. job.pc \notin Ended /\ job.pc # "idle" /\ job.pc \notin Working
    BY DEF Ended, Working
  <1>2. TypeOK /\ OwnerHeld /\ \A e \in Entries : ~entries[e].incomplete
    BY <1>1 DEF CInv, Whole
  <1>3. \A e \in Later : e \in Entries /\ Open(e) /\ ~(job.held /\ e = owner)
    BY <1>1, LaterIsOpen DEF AtWork
  <1>4. ASSUME NEW e \in Entries
        PROVE  /\ \/ entries'[e] = entries[e]
                  \/ /\ e \in Later
                     /\ \E status \in {"canceled", "failed"} :
                           entries'[e] = [status |-> status, action |-> "none", incomplete |-> FALSE]
    BY DEF CancelRest
  <1>5. \A e \in Entries :
            \/ entries'[e] = entries[e]
            \/ e \in Later /\ entries'[e] \in Settled /\ entries'[e].status # "none" /\ ~entries'[e].incomplete
    <2>. SUFFICES ASSUME NEW e \in Entries, NEW status \in {"canceled", "failed"},
                         entries'[e] = [status |-> status, action |-> "none", incomplete |-> FALSE]
                  PROVE  entries'[e] \in Settled /\ entries'[e].status # "none" /\ ~entries'[e].incomplete
      BY <1>4
    <2>. QED
      BY DEF Settled
  <1>6. DOMAIN entries' = Entries /\ entries' = [e \in Entries |-> entries'[e]]
    BY DEF CancelRest
  <1>7. entries' \in [Entries -> Settled \cup {Unsettled}]
    <2>1. \A e \in Entries : entries'[e] \in Settled \cup {Unsettled}
      BY <1>2, <1>5 DEF TypeOK
    <2>. QED
      BY <2>1, <1>6
  <1>8. job.held => owner \in Entries /\ owner \notin Later
    BY <1>2, <1>3 DEF OwnerHeld, TypeOK, Entries
  <1>9. job.held => entries'[owner] = entries[owner]
    BY <1>5, <1>8
  <1>. QED
    BY <1>2, <1>3, <1>5, <1>7, <1>9

LEMMA LoopEnds ==
    ASSUME CInv, job.pc \in {"emit", "next"}, End("ended"), CancelRest \/ UNCHANGED entries,
           UNCHANGED <<owner, upstream, config, record, plan, touched, ref, tree, state, canceled, lost>>
    PROVE  CInv'
  <1>1. job.pc \notin Ended /\ job.pc # "idle" /\ job.pc \notin Working
    BY DEF Ended, Working
  <1>2. TypeOK /\ \A e \in Entries : ~entries[e].incomplete
    BY <1>1 DEF CInv, Whole
  <1>3. /\ entries' \in [Entries -> Settled \cup {Unsettled}]
        /\ \A e \in Entries : entries'[e] = entries[e] \/ (entries'[e].status # "none" /\ Open(e))
        /\ \A e \in Entries : ~entries'[e].incomplete
        /\ job.held => entries'[owner] = entries[owner]
    BY <1>2, RestIsCanceled DEF TypeOK
  <1>4. TypeOK'
    BY <1>2, <1>3 DEF TypeOK
  <1>5. ResidueIsRecorded'
    BY <1>3 DEF ResidueIsRecorded
  <1>. QED
    BY <1>1, <1>3, <1>4, <1>5, EndStep

LEMMA EmitStep == CInv /\ Emit => CInv'
  <1>. SUFFICES ASSUME CInv, Emit PROVE CInv'
    OBVIOUS
  <1>1. job.pc = "emit" /\ job.pc \notin Ended /\ job.pc # "idle" /\ job.pc \notin Working \cup Preparing
    BY DEF Emit, At, Ended, Working, Preparing
  <1>2. TypeOK /\ job \in Jobs /\ Away /\ Whole /\ ResidueIsRecorded
    BY <1>1 DEF CInv
  <1>3. UNCHANGED <<owner, upstream, config, ref, tree, state, record, plan, canceled, touched, lost>>
    BY DEF Emit, world, git
  <1>4. CASE Goto("next") /\ UNCHANGED entries
    <2>1. job' \in Jobs /\ job'.pc = "next" /\ job'.held = job.held
      BY <1>2, <1>4 DEF Goto, Jobs, Phases
    <2>2. job'.pc \notin Working \cup Preparing \cup {"idle", "check", "forwardRef", "confirmRef"}
      BY <2>1 DEF Working, Preparing
    <2>3. TypeOK' /\ Away' /\ Current'
      BY <1>1, <1>2, <1>3, <1>4, <2>1, <2>2 DEF TypeOK, Away, Current
    <2>4. Whole' /\ ResidueIsRecorded'
      BY <1>1, <1>2, <1>4 DEF Whole, ResidueIsRecorded
    <2>5. \A w \in Workspaces : Unmoved(w)
      <3>. QED
        BY <1>3 DEF Unmoved
    <2>. QED
      BY <1>1, <1>3, <1>4, <2>1, <2>2, <2>3, <2>4, <2>5, SettleStep
  <1>5. CASE CancelRest /\ End("ended")
    BY <1>1, <1>3, <1>5, LoopEnds
  <1>. QED
    BY <1>4, <1>5 DEF Emit

LEMMA NextEntryStep == CInv /\ NextEntry => CInv'
  <1>. SUFFICES ASSUME CInv, NextEntry PROVE CInv'
    OBVIOUS
  <1>1. job.pc = "next" /\ job.pc \notin Ended /\ job.pc # "idle" /\ job.pc \notin Working \cup Preparing
    BY DEF NextEntry, At, Ended, Working, Preparing
  <1>2. TypeOK /\ job \in Jobs /\ Away /\ Whole /\ ResidueIsRecorded
    BY <1>1 DEF CInv
  <1>3. UNCHANGED <<owner, upstream, config, ref, tree, state, record, plan, canceled, touched, lost>>
    BY DEF NextEntry, world, git
  <1>4. ASSUME NEW w \in Later, Enter(w, None, None, job.held, "check"), UNCHANGED entries
        PROVE  CInv'
    <2>1. w \in Workspaces /\ w \in Entries /\ entries[w] = Unsettled /\ ~(job.held /\ w = owner)
      BY <1>1, LaterIsOpen DEF AtWork
    <2>2. job' \in Jobs /\ job'.pc = "check" /\ job'.cur = w /\ job'.held = job.held
      <3>1. job' = [pc |-> "check", cur |-> w, from |-> None, to |-> None, held |-> job.held, moved |-> FALSE,
                    back |-> FALSE, replaced |-> FALSE, installed |-> FALSE, stateErr |-> FALSE,
                    refErr |-> FALSE, stopped |-> FALSE]
        BY <1>4 DEF Enter, Idle
      <3>. QED
        BY <3>1, <2>1, <1>2 DEF Jobs, Phases
    <2>3. job'.pc \notin Working \cup Preparing \cup {"idle", "forwardRef", "confirmRef"}
      BY <2>2 DEF Working, Preparing
    <2>4. TypeOK' /\ Away'
      BY <1>1, <1>2, <1>3, <1>4, <2>2, <2>3 DEF TypeOK, Away
    <2>5. Current'
      BY <1>3, <1>4, <2>1, <2>2, <2>3 DEF Current
    <2>6. Whole' /\ ResidueIsRecorded'
      BY <1>1, <1>2, <1>4 DEF Whole, ResidueIsRecorded
    <2>7. \A v \in Workspaces : Unmoved(v)
      <3>. QED
        BY <1>3 DEF Unmoved
    <2>. QED
      BY <1>1, <1>3, <1>4, <2>2, <2>3, <2>4, <2>5, <2>6, <2>7, SettleStep
  <1>5. CASE End("ended") /\ (CancelRest \/ UNCHANGED entries)
    BY <1>1, <1>3, <1>5, LoopEnds
  <1>. QED
    BY <1>4, <1>5 DEF NextEntry

LEMMA CheckStep == CInv /\ Check => CInv'
  <1>. SUFFICES ASSUME CInv, Check PROVE CInv'
    OBVIOUS
  <1>1. job.pc = "check" /\ job.pc \notin Ended /\ job.pc # "idle" /\ job.pc \notin Working \cup Preparing
    BY DEF Check, At, Ended, Working, Preparing
  <1>2. /\ TypeOK /\ job \in Jobs /\ Planned /\ Others /\ OwnerFree /\ OwnerHeld /\ OwnRef /\ Away /\ Whole
        /\ ResidueIsRecorded
        /\ job.cur \in Workspaces /\ ~(job.held /\ job.cur = owner) /\ entries[job.cur] = Unsettled
        /\ job.cur \in Entries
    BY <1>1 DEF CInv, Current
  <1>3. UNCHANGED <<owner, upstream, config, ref, tree, state, record, plan, canceled, touched, lost>>
    BY DEF Check, world, git
  <1>4. Waiting(job.cur) /\ Open(job.cur)
    BY <1>1, <1>2 DEF Waiting, Open, AtWork, Unsettled
  <1>5. CASE Settle(job.cur, "failed", "none", FALSE) /\ Goto("emit")
    <2>1. Report("failed", "none")
      BY <1>2, <1>5, CompanionAssumption DEF Report
    <2>. QED
      BY <1>1, <1>3, <1>4, <2>1, ReportStep DEF Static
  <1>6. ASSUME NEW to \in Commits, NEW pc \in {"forward", "decide"}, UNCHANGED entries,
               WorkspaceIsReady(job.cur), Enter(job.cur, ref[Branch(job.cur)], to, job.held, pc),
               \/ pc = "decide" /\ to = ref[Branch(job.cur)]
               \/ pc = "forward" /\ to = Target /\ to # ref[Branch(job.cur)]
        PROVE  CInv'
    <2>1. job.cur # owner
      BY <1>1, <1>2, <1>6, CompanionAssumption DEF Away, WorkspaceIsReady
    <2>. DEFINE w == job.cur
    <2>2. /\ Branch(w) = w /\ w # Base /\ w \in Workspaces /\ w \in Entries /\ w # owner
          /\ ref[w] \in Commits /\ Target \in Commits
      BY <1>2, <2>1, CompanionAssumption DEF Branch, TypeOK, Target
    <2>3. /\ job' \in Jobs /\ job'.pc = pc /\ job'.cur = w /\ job'.held = job.held
          /\ job'.from = ref[w] /\ job'.to = to /\ ~job'.moved /\ ~job'.back /\ ~job'.stateErr
      <3>1. job' = [pc |-> pc, cur |-> job.cur, from |-> ref[w], to |-> to, held |-> job.held, moved |-> FALSE,
                    back |-> FALSE, replaced |-> FALSE, installed |-> FALSE, stateErr |-> FALSE,
                    refErr |-> FALSE, stopped |-> FALSE]
        BY <1>6, <2>2 DEF Enter, Idle
      <3>2. pc \in Phases
        BY DEF Phases, Working
      <3>. QED
        BY <3>1, <3>2, <2>2, <1>2 DEF Jobs
    <2>4. /\ job'.pc \in Working
          /\ job'.pc \notin Ended \cup Preparing \cup {"idle", "check", "forwardRef", "confirmRef", "record"}
      BY <2>3 DEF Working, Ended, Preparing
    <2>5. Moved' = w /\ Checkout' = w /\ Target' = Target
      BY <1>3, <2>2, <2>3 DEF Moved, Checkout, Target, Branch
    <2>6. /\ state[w] = plan.state[w] /\ state[w] \in Commits /\ tree[w].at = ref[w]
      BY <1>6, <2>2 DEF WorkspaceIsReady, Clean, Matches
    <2>7. RefKept(w) /\ TreeKept(w) /\ RefIsOld(w) /\ TreeIsOld(w) /\ StateIsOld(w)
      BY <1>2, <1>4, <2>2 DEF Others
    <2>8. Moving(job', ref[w], plan.ref[w], tree[w], plan.tree[w], state[w], plan.state[w],
                 Target, w \notin touched, w \notin touched)
      <3>1. Flags(job', Target)
        BY <1>6, <2>2, <2>3 DEF Flags, InTransit, Settling
      <3>2. w \notin touched => Stage(job', ref[w], plan.ref[w], tree[w], plan.tree[w])
        <4>. SUFFICES ASSUME ref[w] = plan.ref[w], tree[w] = plan.tree[w]
                      PROVE  Stage(job', ref[w], plan.ref[w], tree[w], plan.tree[w])
          BY <2>7 DEF RefKept, TreeKept
        <4>1. Here(tree[w], plan.tree[w], ref[w])
          BY <1>2, <2>2, <2>6 DEF Here, TypeOK, Tree
        <4>. QED
          BY <4>1, <2>3, <2>6 DEF Stage, InTransit, Settling
      <3>3. StateStage(job', state[w], plan.state[w])
        BY <2>3, <2>6 DEF StateStage
      <3>4. Residues(job', ref[w], plan.ref[w], tree[w], plan.tree[w], state[w], plan.state[w], Target)
        BY <2>3, <2>7 DEF Residues, RefIsOld, TreeIsOld, StateIsOld
      <3>. QED
        BY <3>1, <3>2, <3>3, <3>4, <2>6 DEF Moving
    <2>9. Progress'
      BY <1>3, <2>5, <2>8 DEF Progress, InMotion, Mine
    <2>10. TypeOK' /\ Planned'
      BY <1>2, <1>3, <1>6 DEF TypeOK, Planned
    <2>11. Before' /\ Away' /\ Whole' /\ ResidueIsRecorded' /\ Current'
      BY <1>1, <1>2, <1>3, <1>6, <2>2, <2>3, <2>4
         DEF Before, Away, Current, Whole, ResidueIsRecorded, Named
    <2>12. \A e \in Entries : (Waiting(e)' => Waiting(e)) /\ (Open(e)' => Open(e))
      BY <1>1, <1>6, <2>4 DEF Open, Waiting, AtWork
    <2>13. \A v \in Workspaces : Unmoved(v)
      BY <1>3 DEF Unmoved
    <2>14. Accounted'
      BY <1>1, <1>2, <1>3, <1>6, <2>3, <2>12, <2>13, Accounts
    <2>. QED
      BY <2>3, <2>4, <2>9, <2>10, <2>11, <2>14 DEF CInv, Accounted
  <1>. QED
    <2>1. ref[Branch(job.cur)] \in Commits /\ Target \in Commits
      BY <1>2, CompanionAssumption DEF Branch, TypeOK, Target, Entries
    <2>. QED
      BY <1>5, <1>6, <2>1 DEF Check

-----------------------------------------------------------------------------
(* The record, and what comes from outside                                  *)

\* What the record is about is in it.
LEMMA ResidueIsNamed ==
    ASSUME CInv, job.pc = "record", Record, ~lost', NEW e \in Entries, e = job.cur
    PROVE  /\ Named(e)' \subseteq {"ref", "worktree", "state"}
           /\ (job.stateErr => "state" \in Named(e)')
           /\ (job.refErr => Named(e)' \cap {"ref", "worktree"} # {})
  <1>1. job.pc \in Working /\ job.pc # "idle"
    BY DEF Working
  <1>2. TypeOK /\ job \in Jobs /\ Current /\ OwnerHeld
    BY <1>1 DEF CInv
  <1>3. /\ job.cur \in Entries /\ job.cur # owner /\ owner \in Workspaces \cup {None} /\ owner # Base
        /\ (job.cur = Base /\ ~job.held => ~job.stateErr)
        /\ (job.held => owner # None)
        /\ record \in [Entries -> (SUBSET {"ref", "worktree", "state"}) \cup {None}]
    BY <1>1, <1>2, CompanionAssumption DEF Current, OwnerHeld, TypeOK
  <1>4. /\ RecordId \in Entries /\ (job.cur # Base => RecordId = job.cur)
        /\ (job.cur = Base => RecordId = Base \/ (RecordId = owner /\ owner # None))
    BY <1>3 DEF RecordId, Checkout, Entries
  <1>5. owner' = owner /\ lost = lost'
    BY DEF Record, world
  <1>. DEFINE named == record'[RecordId]
  <1>6. /\ named \in SUBSET {"ref", "worktree", "state"}
        /\ (job.stateErr => "state" \in named)
        /\ (job.refErr => named \cap {"ref", "worktree"} # {})
        /\ \A x \in Entries \ {RecordId} : record'[x] = record[x]
    <2>1. ASSUME NEW r, record' = [record EXCEPT ![RecordId] = r]
          PROVE  named = r /\ \A x \in Entries \ {RecordId} : record'[x] = record[x]
      BY <2>1, <1>3, <1>4
    <2>2. CASE record' = [record EXCEPT ![RecordId] = Residue]
      <3>1. named = Residue /\ \A x \in Entries \ {RecordId} : record'[x] = record[x]
        BY <2>1, <2>2
      <3>. QED
        BY <3>1 DEF Residue
    <2>3. CASE job.refErr /\ record' = [record EXCEPT ![RecordId] = (Residue \ {"ref"}) \cup {"worktree"}]
      <3>1. named = (Residue \ {"ref"}) \cup {"worktree"} /\ \A x \in Entries \ {RecordId} : record'[x] = record[x]
        BY <2>1, <2>3
      <3>. QED
        BY <3>1 DEF Residue
    <2>. QED
      BY <2>2, <2>3 DEF Record
  <1>7. named # None
    BY <1>6, CompanionAssumption
  <1>8. named \subseteq Named(e)' /\ Named(e)' \subseteq {"ref", "worktree", "state"}
    <2>. HIDE DEF named
    <2>. DEFINE of(x) == IF x = None \/ record'[x] = None THEN {} ELSE record'[x]
    <2>1. Named(e)' = IF e = Base THEN of(Base) \cup (IF owner = None THEN {} ELSE of(owner))
                            ELSE of(e)
      BY <1>5 DEF Named
    <2>2. None \notin Entries /\ Base \in Entries /\ (owner # None => owner \in Entries)
      BY <1>3, CompanionAssumption DEF Entries
    <2>3. of(RecordId) = named
      BY <1>4, <1>7, <2>2 DEF named
    <2>4. \A x \in Entries : of(x) \subseteq {"ref", "worktree", "state"}
      <3>. SUFFICES ASSUME NEW x \in Entries
                    PROVE  of(x) \subseteq {"ref", "worktree", "state"}
        OBVIOUS
      <3>1. CASE x = RecordId
        BY <3>1, <1>6, <2>3
      <3>2. CASE x # RecordId
        <4>1. record'[x] = record[x]
          BY <3>2, <1>6
        <4>2. record[x] = None \/ record[x] \subseteq {"ref", "worktree", "state"}
          BY <1>3
        <4>. QED
          BY <4>1, <4>2
      <3>. QED
        BY <3>1, <3>2
    <2>. HIDE DEF of
    <2>. QED
      BY <1>3, <1>4, <2>1, <2>2, <2>3, <2>4
  <1>. QED
    BY <1>3, <1>6, <1>8

LEMMA RecordStep == CInv /\ Record => CInv'
  <1>. SUFFICES ASSUME CInv, Record PROVE CInv'
    OBVIOUS
  <1>1. job.pc = "record" /\ job.pc \in Working /\ job.pc # "idle" /\ job.pc \notin Ended
    BY DEF Record, At, Working, Ended
  <1>2. TypeOK /\ job \in Jobs /\ Current /\ OwnerHeld /\ OwnerFree /\ Progress /\ Whole
    BY <1>1 DEF CInv
  <1>3. /\ job.cur \in Entries /\ job.cur # owner /\ owner \in Workspaces \cup {None} /\ owner # Base
        /\ (job.cur = Base /\ ~job.held => job.refErr /\ ~job.stateErr)
        /\ (job.held => owner # None) /\ Base \in Entries
    BY <1>1, <1>2, CompanionAssumption DEF Current, OwnerHeld, TypeOK, Entries
  <1>4. UNCHANGED <<owner, upstream, config, ref, tree, state, plan, canceled, touched>> /\ End("ended")
    BY DEF Record, world, git
  <1>5. \A e \in Entries \ {job.cur} :
            \/ entries'[e] = entries[e]
            \/ /\ e \in Later /\ entries'[e] \in Settled /\ entries'[e].status # "none"
               /\ ~entries'[e].incomplete
    <2>. SUFFICES ASSUME NEW e \in Entries \ {job.cur}, e \in Later, NEW status \in {"canceled", "failed"},
                         entries'[e] = [status |-> status, action |-> "none", incomplete |-> FALSE]
                  PROVE  entries'[e] \in Settled /\ entries'[e].status # "none" /\ ~entries'[e].incomplete
      BY DEF Record
    <2>. QED
      BY DEF Settled
  <1>6. /\ entries'[job.cur] \in Settled /\ entries'[job.cur].status = "failed" /\ entries'[job.cur].incomplete
    <2>1. entries'[job.cur] = [status |-> "failed", action |-> Action, incomplete |-> TRUE]
      BY <1>3 DEF Record
    <2>2. Action \in {"none", "unchanged", "fast-forward"}
      BY DEF Action
    <2>. QED
      BY <2>1, <2>2 DEF Settled
  <1>7. DOMAIN entries' = Entries /\ entries' = [e \in Entries |-> entries'[e]]
    BY DEF Record
  <1>8. entries' \in [Entries -> Settled \cup {Unsettled}]
    <2>1. \A e \in Entries : entries'[e] \in Settled \cup {Unsettled}
      BY <1>2, <1>5, <1>6 DEF TypeOK
    <2>. QED
      BY <2>1, <1>7
  <1>9. \A e \in Later \ {job.cur} : Open(e) /\ ~(job.held /\ e = owner)
    BY <1>1, LaterIsOpen DEF AtWork
  <1>10. \A e \in Entries : \/ entries'[e] = entries[e]
                            \/ entries'[e].status # "none" /\ (entries'[e].incomplete \/ Open(e) \/ Kept(e))
    BY <1>5, <1>6, <1>9
  <1>11. job.held => entries'[owner] = entries[owner]
    <2>1. owner # None => owner \in Entries
      BY <1>3 DEF Entries
    <2>. QED
      BY <1>3, <1>5, <1>9, <2>1
  <1>12. TypeOK'
    <2>1. record' \in [Entries -> (SUBSET {"ref", "worktree", "state"}) \cup {None}] /\ lost' \in BOOLEAN
      <3>1. Residue \in SUBSET {"ref", "worktree", "state"}
        BY DEF Residue
      <3>2. (Residue \ {"ref"}) \cup {"worktree"} \in SUBSET {"ref", "worktree", "state"}
        BY <3>1
      <3>3. \/ record' = record
            \/ record' = [record EXCEPT ![RecordId] = Residue]
            \/ record' = [record EXCEPT ![RecordId] = (Residue \ {"ref"}) \cup {"worktree"}]
        BY DEF Record
      <3>4. lost' \in BOOLEAN
        BY <1>2 DEF Record, TypeOK
      <3>. DEFINE names == (SUBSET {"ref", "worktree", "state"}) \cup {None}
      <3>5. /\ Residue \in names /\ (Residue \ {"ref"}) \cup {"worktree"} \in names
            /\ record \in [Entries -> names]
        BY <3>1, <3>2, <1>2 DEF TypeOK
      <3>6. record' \in [Entries -> names]
        <4>. HIDE DEF names
        <4>. QED
          BY <3>3, <3>5
      <3>. QED
        BY <3>4, <3>6
    <2>. QED
      BY <1>2, <1>4, <1>8, <2>1 DEF TypeOK
  <1>13. ResidueIsRecorded'
    <2>. SUFFICES ASSUME NEW e \in Entries, entries'[e].incomplete, ~lost'
                  PROVE  /\ (ref[e] = Target /\ plan.ref[e] # Target => Named(e)' \cap {"ref", "worktree"} # {})
                         /\ LET w == IF e = Base THEN owner ELSE e IN w # None =>
                              /\ (state[w] = Target /\ plan.state[w] # Target => "state" \in Named(e)')
                              /\ (tree[w].at \in {Target, "partial"} /\ tree[w].at # plan.tree[w].at
                                      /\ tree[w].on = "branch"
                                   => Named(e)' \cap {"ref", "worktree"} # {})
      BY <1>4 DEF ResidueIsRecorded, Target
    <2>1. e = job.cur
      BY <1>1, <1>2, <1>5 DEF Whole
    <2>2. (job.stateErr => "state" \in Named(e)') /\ (job.refErr => Named(e)' \cap {"ref", "worktree"} # {})
      BY <1>1, <2>1, ResidueIsNamed
    <2>3. CASE job.cur = Base /\ ~job.held
      <3>1. owner # None => StateIsOld(owner)
        BY <1>2, <2>3 DEF OwnerFree
      <3>. QED
        BY <1>3, <2>1, <2>2, <2>3, <3>1 DEF StateIsOld, OldState
    <2>4. CASE job.cur # Base \/ job.held
      <3>1. InMotion
        BY <1>1, <1>2, <2>4 DEF Progress
      <3>2. /\ Moved = job.cur /\ (job.cur = Base => Checkout = owner) /\ (job.cur # Base => Checkout = job.cur)
        BY <1>3 DEF Moved, Checkout, Branch
      <3>3. /\ job.stateErr \/ OldState(state[Checkout], plan.state[Checkout], Target)
            /\ ~job.refErr => /\ OldRef(ref[Moved], plan.ref[Moved], Target)
                              /\ OldTree(tree[Checkout], plan.tree[Checkout], Target)
        BY <1>1, <3>1 DEF InMotion, Moving, Residues
      <3>. QED
        BY <2>1, <2>2, <3>2, <3>3 DEF OldState, OldRef, OldTree
    <2>. QED
      BY <2>3, <2>4
  <1>. QED
    BY <1>1, <1>4, <1>6, <1>10, <1>11, <1>12, <1>13, EndStep

LEMMA CrashStep == CInv /\ Crash => CInv'
  <1>. SUFFICES ASSUME CInv, Crash PROVE CInv'
    OBVIOUS
  <1>1. job.pc \notin Ended /\ job.pc # "idle" /\ End("dead")
    BY DEF Crash, Ended
  <1>2. UNCHANGED <<owner, upstream, config, ref, tree, state, plan, record, entries, canceled, touched, lost>>
    BY DEF Crash, world, git
  <1>3. TypeOK /\ ResidueIsRecorded
    BY <1>1 DEF CInv
  <1>4. TypeOK' /\ ResidueIsRecorded'
    BY <1>2, <1>3 DEF TypeOK, ResidueIsRecorded, Named, Target
  <1>. QED
    BY <1>1, <1>2, <1>4, EndStep

\* What the user may do to branches, checkouts and state files.
UserChange ==
    /\ UNCHANGED <<owner, upstream, record, plan, job, entries, canceled, lost>>
    /\ TypeOK' /\ touched \subseteq touched'
    /\ \A e \in Entries : ref'[e] = ref[e] \/ (e \in touched' /\ ref'[e] \in UserCommits)
    /\ \A w \in Workspaces :
          /\ w \notin touched' \/ Branch(w) \notin touched'
               => ref'[Branch(w)] = ref[Branch(w)] /\ tree'[w] = tree[w]
          /\ tree'[w].on = "branch"
               => tree[w].on = "branch" /\ (tree'[w].at = tree[w].at \/ tree'[w].at \in UserCommits)
          /\ state'[w] = state[w] \/ (w \in touched' /\ state'[w] = "theirs")

LEMMA UserCommitChange ==
    ASSUME TypeOK, NEW w \in Workspaces, UserCommit(w)
    PROVE  UserChange
  <1>1. PICK c \in UserCommits : /\ ref' = [ref EXCEPT ![Branch(w)] = c]
                                 /\ tree' = [tree EXCEPT ![w].at = c, ![w].dirty = FALSE]
    BY DEF UserCommit
  <1>2. /\ UNCHANGED <<owner, upstream, record, plan, job, entries, canceled, lost, state, config>>
        /\ touched' = touched \cup {w, Branch(w)} /\ tree[w].on = "branch"
    BY DEF UserCommit, Move, Of
  <1>3. /\ Branch(w) \in Entries /\ w \in Entries /\ c \in Commits
        /\ \A v \in Workspaces \ {w} : Branch(v) # Branch(w)
        /\ \A v \in Workspaces : Branch(v) \in Entries
    BY CompanionAssumption DEF Branch, Entries
  <1>4. /\ ref' \in [Entries -> Commits] /\ ref'[Branch(w)] = c
        /\ \A e \in Entries \ {Branch(w)} : ref'[e] = ref[e]
    BY <1>1, <1>3 DEF TypeOK
  <1>5. /\ tree' \in [Workspaces -> Tree] /\ tree'[w].at = c
        /\ \A v \in Workspaces \ {w} : tree'[v] = tree[v]
    BY <1>1, <1>3, ZenonT(60) DEF TypeOK, Tree
  <1>6. TypeOK'
    BY <1>2, <1>3, <1>4, <1>5 DEF TypeOK
  <1>. QED
    BY <1>2, <1>3, <1>4, <1>5, <1>6 DEF UserChange

LEMMA UserTreeChange ==
    ASSUME TypeOK, NEW w \in Workspaces, UserEdits(w) \/ UserSwitches(w) \/ UserDeletes(w)
    PROVE  UserChange
  <1>1. /\ UNCHANGED <<owner, upstream, record, plan, job, entries, canceled, lost, ref, state, config>>
        /\ touched' = touched \cup {w, Branch(w)} \/ touched' = touched \cup ({w, Branch(w)} \cup {Base})
    BY DEF UserEdits, UserSwitches, UserDeletes, Move, Of
  <1>2. /\ Branch(w) \in Entries /\ w \in Entries /\ Base \in Entries
        /\ \A v \in Workspaces : Branch(v) \in Entries
    BY DEF Branch, Entries
  <1>3. ref[Base] \in Commits
    BY <1>2 DEF TypeOK
  <1>4. \/ tree' = [tree EXCEPT ![w].dirty = TRUE]
        \/ tree' = [tree EXCEPT ![w].there = FALSE]
        \/ tree' = [tree EXCEPT ![w].on = "other"]
        \/ tree' = [tree EXCEPT ![w].on = "baseline", ![w].at = ref[Base]]
    BY DEF UserEdits, UserSwitches, UserDeletes
  <1>5. tree' \in [Workspaces -> Tree]
    <2>. tree \in [Workspaces -> Tree]
      BY DEF TypeOK
    <2>1. CASE tree' = [tree EXCEPT ![w].dirty = TRUE]
      BY <2>1 DEF Tree
    <2>2. CASE tree' = [tree EXCEPT ![w].there = FALSE]
      BY <2>2 DEF Tree
    <2>3. CASE tree' = [tree EXCEPT ![w].on = "other"]
      BY <2>3 DEF Tree
    <2>4. CASE tree' = [tree EXCEPT ![w].on = "baseline", ![w].at = ref[Base]]
      BY <2>4, <1>3, ZenonT(60) DEF Tree
    <2>. QED
      BY <1>4, <2>1, <2>2, <2>3, <2>4
  <1>6. \A v \in Workspaces \ {w} : tree'[v] = tree[v]
    BY <1>3, <1>4 DEF TypeOK
  <1>7. tree'[w].on = "branch" => tree[w].on = "branch" /\ tree'[w].at = tree[w].at
    BY <1>3, <1>4 DEF TypeOK, Tree
  <1>8. TypeOK'
    BY <1>1, <1>2, <1>5 DEF TypeOK
  <1>. QED
    BY <1>1, <1>2, <1>6, <1>7, <1>8 DEF UserChange

LEMMA UserFileChange ==
    ASSUME TypeOK, UserEditsConfig \/ \E w \in Workspaces : UserEditsState(w)
    PROVE  UserChange
  <1>1. CASE UserEditsConfig
    <2>1. /\ UNCHANGED <<owner, upstream, record, plan, job, entries, canceled, lost, ref, tree, state>>
          /\ touched' = touched \cup {} /\ config' = 1 - config
      BY <1>1 DEF UserEditsConfig, Move, git
    <2>2. config' \in 0..1
      BY <2>1 DEF TypeOK
    <2>3. TypeOK'
      BY <2>1, <2>2 DEF TypeOK
    <2>. QED
      BY <2>1, <2>3 DEF UserChange
  <1>2. ASSUME NEW w \in Workspaces, UserEditsState(w)
        PROVE  UserChange
    <2>1. /\ UNCHANGED <<owner, upstream, record, plan, job, entries, canceled, lost, ref, tree, config>>
          /\ touched' = touched \cup {w} /\ state' = [state EXCEPT ![w] = "theirs"] /\ w \in Entries
      BY <1>2 DEF UserEditsState, Move, git, Entries
    <2>2. /\ state' \in [Workspaces -> Commits \cup {"invalid", "theirs"}]
          /\ \A v \in Workspaces : state'[v] = state[v] \/ (v = w /\ state'[v] = "theirs")
      BY <2>1 DEF TypeOK
    <2>3. TypeOK'
      BY <2>1, <2>2 DEF TypeOK
    <2>. QED
      BY <2>1, <2>2, <2>3 DEF UserChange
  <1>. QED
    BY <1>1, <1>2

\* The user puts nothing at the target, and what is not touched stays.
LEMMA UserStep == CInv /\ UserActs => CInv'
  <1>. SUFFICES ASSUME CInv, UserActs PROVE CInv'
    OBVIOUS
  <1>1. TypeOK /\ job \in Jobs /\ Whole /\ ResidueIsRecorded
    BY DEF CInv
  <1>2. UserChange
    BY <1>1, UserCommitChange, UserTreeChange, UserFileChange DEF UserActs
  <1>3. /\ UNCHANGED <<owner, upstream, record, plan, job, entries, canceled, lost>>
        /\ TypeOK' /\ touched \subseteq touched'
    BY <1>2 DEF UserChange
  <1>4. /\ Target' = Target /\ Target \in Commits /\ Moved' = Moved /\ Checkout' = Checkout
        /\ owner \in Workspaces \cup {None} /\ Base \in Entries /\ Base # None
        /\ \A w \in Workspaces : w \in Entries /\ Branch(w) \in Entries /\ Branch(w)' = Branch(w)
        /\ \A c \in UserCommits : c # Target /\ c # "partial"
    BY <1>1, <1>3, CompanionAssumption, UserCommitsAreNew, SpecialIsNoCommit
       DEF TypeOK, Target, Moved, Checkout, Branch, Entries
  <1>5. ASSUME NEW e \in Entries
        PROVE  /\ RefKept(e) /\ job.pc # "idle" => RefKept(e)'
               /\ RefIsOld(e) => RefIsOld(e)'
               /\ ref'[e] = Target => ref[e] = Target
    <2>1. ref'[e] = ref[e] \/ (e \in touched' /\ ref'[e] \in UserCommits)
      BY <1>2 DEF UserChange
    <2>. QED
      BY <2>1, <1>3, <1>4 DEF RefKept, RefIsOld, OldRef
  <1>6. ASSUME NEW w \in Workspaces
        PROVE  /\ TreeKept(w) => TreeKept(w)'
               /\ StateKept(w) => StateKept(w)'
               /\ TreeIsOld(w) => TreeIsOld(w)'
               /\ StateIsOld(w) => StateIsOld(w)'
               /\ state'[w] = Target => state[w] = Target
               /\ tree'[w].at \in {Target, "partial"} /\ tree'[w].on = "branch"
                    => tree[w].at = tree'[w].at /\ tree[w].on = "branch"
    <2>1. /\ w \notin touched' \/ Branch(w) \notin touched' => tree'[w] = tree[w]
          /\ tree'[w].on = "branch"
               => tree[w].on = "branch" /\ (tree'[w].at = tree[w].at \/ tree'[w].at \in UserCommits)
          /\ state'[w] = state[w] \/ (w \in touched' /\ state'[w] = "theirs")
      BY <1>2 DEF UserChange
    <2>2. Target # "theirs"
      BY <1>4, SpecialIsNoCommit
    <2>3. /\ tree'[w].at \in {Target, "partial"} /\ tree'[w].on = "branch"
               => tree[w].at = tree'[w].at /\ tree[w].on = "branch"
      BY <2>1, <1>4
    <2>4. (TreeKept(w) => TreeKept(w)') /\ (StateKept(w) => StateKept(w)')
      BY <2>1, <1>3, <1>4 DEF TreeKept, StateKept
    <2>5. (TreeIsOld(w) => TreeIsOld(w)') /\ (StateIsOld(w) => StateIsOld(w)')
      BY <2>1, <2>2, <2>3, <1>3, <1>4 DEF TreeIsOld, StateIsOld, OldTree, OldState
    <2>. QED
      BY <2>1, <2>2, <2>3, <2>4, <2>5
  <1>7. Whole' /\ ResidueIsRecorded'
    <2>1. Whole'
      BY <1>1, <1>3 DEF Whole
    <2>2. \A e \in Entries : Named(e)' = Named(e)
      BY <1>3 DEF Named
    <2>3. ResidueIsRecorded'
      <3>. SUFFICES ASSUME NEW e \in Entries, entries[e].incomplete, ~lost
                    PROVE  /\ (ref'[e] = Target /\ plan.ref[e] # Target => Named(e) \cap {"ref", "worktree"} # {})
                           /\ LET w == IF e = Base THEN owner ELSE e IN w # None =>
                                /\ (state'[w] = Target /\ plan.state[w] # Target => "state" \in Named(e))
                                /\ (tree'[w].at \in {Target, "partial"} /\ tree'[w].at # plan.tree[w].at
                                        /\ tree'[w].on = "branch"
                                     => Named(e) \cap {"ref", "worktree"} # {})
        BY <1>3, <1>4, <2>2 DEF ResidueIsRecorded
      <3>. DEFINE w == IF e = Base THEN owner ELSE e
      <3>1. w # None => w \in Workspaces
        BY <1>4 DEF Entries
      <3>2. /\ (ref[e] = Target /\ plan.ref[e] # Target => Named(e) \cap {"ref", "worktree"} # {})
            /\ w # None =>
                 /\ (state[w] = Target /\ plan.state[w] # Target => "state" \in Named(e))
                 /\ (tree[w].at \in {Target, "partial"} /\ tree[w].at # plan.tree[w].at /\ tree[w].on = "branch"
                      => Named(e) \cap {"ref", "worktree"} # {})
        BY <1>1 DEF ResidueIsRecorded
      <3>. HIDE DEF w
      <3>3. /\ (ref'[e] = Target /\ plan.ref[e] # Target => Named(e) \cap {"ref", "worktree"} # {})
            /\ w # None =>
                 /\ (state'[w] = Target /\ plan.state[w] # Target => "state" \in Named(e))
                 /\ (tree'[w].at \in {Target, "partial"} /\ tree'[w].at # plan.tree[w].at /\ tree'[w].on = "branch"
                      => Named(e) \cap {"ref", "worktree"} # {})
        BY <1>5, <1>6, <3>1, <3>2
      <3>. QED
        BY <3>3 DEF w
    <2>. QED
      BY <2>1, <2>3
  <1>8. CASE job.pc = "idle"
    BY <1>1, <1>3, <1>7, <1>8 DEF CInv
  <1>9. CASE job.pc # "idle"
    <2>1. /\ Planned /\ Others /\ OwnerFree /\ OwnerHeld /\ OwnRef /\ Before /\ Away
          /\ Current /\ Progress
      BY <1>9 DEF CInv
    <2>2. \A e \in Entries : (Waiting(e)' <=> Waiting(e)) /\ (Open(e)' <=> Open(e))
      BY <1>3 DEF Open, Waiting, AtWork
    <2>3. Others'
      BY <1>3, <1>4, <1>5, <1>6, <1>9, <2>1, <2>2 DEF Others
    <2>4. OwnerFree' /\ OwnerHeld' /\ OwnRef'
      BY <1>3, <1>4, <1>5, <1>6, <1>9, <2>1, <2>2 DEF OwnerFree, OwnerHeld, OwnRef
    <2>5. Planned' /\ Current'
      BY <1>3, <2>1 DEF Planned, Current
    <2>6. Before'
      BY <1>3, <1>4, <1>5, <1>9, <2>1 DEF Before
    <2>7. Away'
      BY <1>2, <1>3, <1>4, <2>1 DEF Away, UserChange
    <2>8. Progress'
      <3>. SUFFICES ASSUME job.pc \in Working, job.cur # Base \/ job.held
                    PROVE  InMotion'
        BY <1>3 DEF Progress
      <3>1. /\ InMotion /\ job.cur \in Entries /\ job.cur # owner
        BY <2>1 DEF Progress, Current
      <3>2. /\ Moved \in Entries /\ Checkout \in Workspaces /\ Branch(Checkout) = Moved
        BY <1>4, <2>1, <3>1 DEF OwnerHeld, Moved, Checkout, Branch, Entries
      <3>3. /\ Moved \notin touched' \/ Checkout \notin touched'
                 => ref'[Moved] = ref[Moved] /\ tree'[Checkout] = tree[Checkout]
            /\ state'[Checkout] = state[Checkout] \/ (Checkout \in touched' /\ state'[Checkout] = "theirs")
            /\ Mine' => Mine
            /\ Checkout \notin touched' => Checkout \notin touched
        BY <1>2, <1>3, <1>4, <3>2 DEF UserChange, Mine
      <3>4. /\ OldRef(ref[Moved], plan.ref[Moved], Target) => OldRef(ref'[Moved], plan.ref[Moved], Target)
            /\ OldTree(tree[Checkout], plan.tree[Checkout], Target)
                 => OldTree(tree'[Checkout], plan.tree[Checkout], Target)
            /\ OldState(state[Checkout], plan.state[Checkout], Target)
                 => OldState(state'[Checkout], plan.state[Checkout], Target)
        BY <1>3, <1>4, <1>5, <1>6, <3>2 DEF RefIsOld, TreeIsOld, StateIsOld
      <3>5. state'[Checkout] = "theirs" => OldState(state'[Checkout], plan.state[Checkout], Target)
        BY <1>4, SpecialIsNoCommit DEF OldState
      <3>6. Residues(job, ref'[Moved], plan.ref[Moved], tree'[Checkout], plan.tree[Checkout],
                     state'[Checkout], plan.state[Checkout], Target)
        BY <3>1, <3>3, <3>4, <3>5 DEF InMotion, Moving, Residues
      <3>7. Moving(job, ref'[Moved], plan.ref[Moved], tree'[Checkout], plan.tree[Checkout], state'[Checkout],
                   plan.state[Checkout], Target, Mine', Checkout \notin touched')
        BY <1>4, <3>1, <3>3, <3>6 DEF InMotion, Moving, Mine
      <3>. QED
        BY <1>3, <1>4, <3>7 DEF InMotion
    <2>. QED
      BY <1>1, <1>3, <1>7, <2>1, <2>3, <2>4, <2>5, <2>6, <2>7, <2>8 DEF CInv
  <1>. QED
    BY <1>8, <1>9

\* A step that is somebody else's, or none.
LEMMA StutterStep ==
    ASSUME CInv, canceled' \in BOOLEAN,
           UNCHANGED <<owner, upstream, config, ref, tree, state, record, plan, job, entries, touched, lost>>
    PROVE  CInv'
  <1>1. TypeOK' /\ job' \in Jobs
    BY DEF CInv, TypeOK
  <1>2. (job.pc = "idle" => \A e \in Entries : entries[e] = Unsettled)'
    BY DEF CInv
  <1>3. Whole' /\ ResidueIsRecorded'
    BY DEF CInv, Whole, ResidueIsRecorded, Named, Target
  <1>4. ASSUME job.pc # "idle"
        PROVE  /\ Planned' /\ Others' /\ OwnerFree' /\ OwnerHeld' /\ OwnRef' /\ Before' /\ Away'
               /\ Current' /\ Progress'
    <2>1. /\ Planned /\ Others /\ OwnerFree /\ OwnerHeld /\ OwnRef /\ Before /\ Away
          /\ Current /\ Progress
      BY <1>4 DEF CInv
    <2>2. /\ \A e : (RefKept(e)' <=> RefKept(e)) /\ (TreeKept(e)' <=> TreeKept(e)) /\ (StateKept(e)' <=> StateKept(e))
          /\ \A e : (RefIsOld(e)' <=> RefIsOld(e)) /\ (TreeIsOld(e)' <=> TreeIsOld(e)) /\ (StateIsOld(e)' <=> StateIsOld(e))
      BY DEF RefKept, TreeKept, StateKept, RefIsOld, TreeIsOld, StateIsOld, Target, Branch
    <2>3. \A e : (Waiting(e)' <=> Waiting(e)) /\ (Open(e)' <=> Open(e))
      BY DEF Waiting, Open, AtWork
    <2>4. Others' /\ OwnerFree' /\ OwnerHeld' /\ OwnRef' /\ Before'
      BY <2>1, <2>2, <2>3 DEF Others, OwnerFree, OwnerHeld, OwnRef, Before
    <2>5. Planned' /\ Away' /\ Current'
      BY <2>1 DEF Planned, Away, Current
    <2>6. Progress'
      BY <2>1 DEF Progress, InMotion, Moved, Checkout, Branch, Mine, Target
    <2>. QED
      BY <2>1, <2>4, <2>5, <2>6
  <1>. QED
    BY <1>1, <1>2, <1>3, <1>4 DEF CInv

-----------------------------------------------------------------------------
(* The theorems                                                             *)

LEMMA InvariantStep == CInv /\ [Next]_vars => CInv'
  <1>. SUFFICES ASSUME CInv, [Next]_vars PROVE CInv'
    OBVIOUS
  <1>1. CASE Revalidate \/ Fetch \/ Baseline \/ ForwardRef \/ ConfirmRef
    BY <1>1, RevalidateStep, FetchStep, BaselineStep, ForwardRefStep, ConfirmRefStep
  <1>2. CASE Emit \/ NextEntry \/ Check \/ Record
    BY <1>2, EmitStep, NextEntryStep, CheckStep, RecordStep DEF At
  <1>3. CASE Forward \/ Files \/ Cleanup \/ Look \/ ForwardFailed
    BY <1>3, ForwardStep, FilesStep, CleanupStep, LookStep, ForwardFailedStep
  <1>4. CASE Decide \/ Publish \/ Readback \/ RestoreState \/ StateSettled
    BY <1>4, DecideStep, PublishStep, ReadbackStep, RestoreStateStep, StateSettledStep
  <1>5. CASE Back \/ Restored \/ BackFailed
    BY <1>5, BackStep, RestoredStep, BackFailedStep
  <1>6. CASE Plan \/ Crash \/ UserActs
    BY <1>6, PlanStep, CrashStep, UserStep
  <1>7. CASE Cancel \/ UNCHANGED vars
    <2>1. /\ UNCHANGED <<owner, upstream, config, ref, tree, state, record, plan, job, entries, touched, lost>>
          /\ canceled' \in BOOLEAN
      <3>1. canceled \in BOOLEAN
        BY DEF CInv, TypeOK
      <3>. QED
        BY <1>7, <3>1 DEF Cancel, vars, world, git
    <2>. QED
      BY <2>1, StutterStep
  <1>. QED
    BY <1>1, <1>2, <1>3, <1>4, <1>5, <1>6, <1>7 DEF Next, Step

LEMMA Invariant == Spec => []CInv
  BY InitHolds, InvariantStep, PTL DEF Spec

LEMMA UndoneWhenClean == CInv => CleanFailureUndoes
  <1>. SUFFICES ASSUME CInv, NEW e \in Entries,
                       entries[e].status \in {"failed", "canceled"}, ~entries[e].incomplete, e \notin touched
                PROVE  /\ e = owner \/ (e = Base /\ ~job.held) \/ ref[e] = plan.ref[e]
                       /\ LET w == IF e = Base THEN owner ELSE e IN
                          w # None /\ w \notin touched => tree[w] = plan.tree[w] /\ state[w] = plan.state[w]
    BY DEF CleanFailureUndoes
  <1>1. job.pc # "idle" /\ Open(e)
    <2>1. entries[e] # Unsettled
      BY DEF Unsettled
    <2>. QED
      BY <2>1 DEF CInv, Open
  <1>2. /\ Others /\ OwnerFree /\ OwnerHeld /\ owner \in Workspaces \cup {None}
        /\ \A w \in Workspaces : w # Base /\ w # None
    BY <1>1, CompanionAssumption DEF CInv, TypeOK
  <1>3. CASE e = Base /\ job.held
    BY <1>1, <1>2, <1>3 DEF OwnerHeld, RefKept, TreeKept, StateKept
  <1>4. CASE e = Base /\ ~job.held
    BY <1>2, <1>4 DEF OwnerFree, TreeKept, StateKept
  <1>5. CASE e = owner /\ e # Base
    <2>1. ~job.held
      BY <1>2, <1>5 DEF OwnerHeld, Unsettled
    <2>. QED
      BY <1>2, <1>5, <2>1 DEF OwnerFree, TreeKept, StateKept, Entries
  <1>6. CASE e # owner /\ e # Base
    BY <1>1, <1>2, <1>6 DEF Others, RefKept, TreeKept, StateKept, Entries
  <1>. QED
    BY <1>3, <1>4, <1>5, <1>6

\* Branches, checkouts, state files and what is reported of them have their types.
THEOREM TypeCorrect == Spec => []TypeOK
  <1>1. CInv => TypeOK
    BY DEF CInv
  <1>. QED
    BY <1>1, Invariant, PTL

\* An entry that failed or was canceled, and does not say that its rollback is
\* incomplete, left nothing (updateWorkspace, rollbackCompanionEntry).
THEOREM CleanFailureUndoesHolds == Spec => []CleanFailureUndoes
  BY Invariant, UndoneWhenClean, PTL

\* What an incomplete rollback leaves is named by the recovery record
\* (recordCompanionRecovery, recordCompanionStatePublicationRecovery).
THEOREM ResidueIsRecordedHolds == Spec => []ResidueIsRecorded
  <1>1. CInv => ResidueIsRecorded
    BY DEF CInv
  <1>. QED
    BY <1>1, Invariant, PTL

-----------------------------------------------------------------------------
(* Nothing of the user's is dropped                                         *)

\* What one step of the command may do to a branch, files and a state file.
Spares ==
    /\ \A e \in Entries : ref'[e] # ref[e] =>
          /\ ref[e] \in Commits /\ ref'[e] \in Commits
          /\ IsAncestor(ref[e], ref'[e]) \/ ref[e] \in Fetched
    /\ \A w \in Workspaces : /\ (tree'[w] # tree[w] => ~tree[w].dirty)
                              /\ (state[w] = "theirs" => state'[w] = "theirs")

LEMMA SparesStep == CInv /\ Step => Spares
  <1>. SUFFICES ASSUME CInv, Step PROVE Spares
    OBVIOUS
  <1>1. TypeOK
    BY DEF CInv
  <1>2. CASE UNCHANGED <<ref, tree, state>>
    BY <1>2 DEF Spares
  <1>3. CASE ForwardRef
    <2>1. job.pc = "forwardRef" /\ job.pc # "idle" /\ UNCHANGED <<tree, state>>
      BY <1>3 DEF ForwardRef, At, world
    <2>2. job.to \in Commits /\ Base \in Entries
      BY <2>1 DEF CInv, Current, Entries
    <2>3. \/ ref' = ref
          \/ ref' = [ref EXCEPT ![Base] = job.to] /\ ref[Base] = job.from /\ IsAncestor(job.from, job.to)
      BY <1>3 DEF ForwardRef
    <2>. QED
      BY <1>1, <2>1, <2>2, <2>3 DEF Spares, TypeOK
  <1>4. CASE Forward
    <2>1. job.pc \in Working \ {"record"} /\ UNCHANGED <<tree, state>>
      BY <1>4 DEF Forward, At, world, Working
    <2>2. InMotion /\ Branch(Checkout) = Moved /\ Moved \in Entries
      BY <2>1, Busy
    <2>3. job.to \in Commits
      BY <2>2 DEF InMotion, Moving, Flags
    <2>4. \/ ref' = ref
          \/ ref' = [ref EXCEPT ![Moved] = job.to] /\ ref[Moved] = job.from /\ IsAncestor(job.from, job.to)
      BY <1>4, <2>2 DEF Forward, Attached
    <2>. QED
      BY <1>1, <2>1, <2>2, <2>3, <2>4 DEF Spares, TypeOK
  <1>5. CASE Files
    <2>1. job.pc \in Working \ {"record"} /\ UNCHANGED <<ref, state>>
      BY <1>5 DEF Files, At, world, Working
    <2>2. Checkout \in Workspaces
      BY <2>1, Busy
    <2>3. \/ tree' = tree
          \/ ~tree[Checkout].dirty /\ \E c : tree' = [tree EXCEPT ![Checkout].at = c]
      BY <1>5 DEF Files, Matches
    <2>. QED
      BY <1>1, <2>1, <2>2, <2>3 DEF Spares, TypeOK
  <1>6. CASE Cleanup
    <2>1. job.pc = "cleanup" /\ job.pc \in Working \ {"record"} /\ UNCHANGED <<tree, state>>
      BY <1>6 DEF Cleanup, At, world, Working
    <2>2. InMotion /\ Branch(Checkout) = Moved /\ Moved \in Entries
      BY <2>1, Busy
    <2>3. /\ job.from \in Commits /\ job.to \in Commits /\ job.from # job.to /\ job.to = Target
          /\ IsAncestor(job.from, job.to)
      BY <2>1, <2>2 DEF InMotion, Moving, Flags, InTransit
    <2>4. \/ ref' = ref
          \/ ref' = [ref EXCEPT ![Moved] = Source] /\ ref[Moved] = Goal
      BY <1>6, <2>2 DEF Cleanup, Attached
    <2>5. Source \in Commits /\ (IsAncestor(Goal, Source) \/ Goal \in Fetched)
      BY <1>1, <2>3 DEF Source, Goal, TypeOK, Target
    <2>. QED
      BY <1>1, <2>1, <2>2, <2>4, <2>5 DEF Spares, TypeOK
  <1>7. CASE Back
    <2>1. job.pc = "back" /\ job.pc \in Working \ {"record"} /\ UNCHANGED <<tree, state>>
      BY <1>7 DEF Back, At, world, Working
    <2>2. InMotion /\ Branch(Checkout) = Moved /\ Moved \in Entries
      BY <2>1, Busy
    <2>3. job.from \in Commits /\ job.to = Target /\ Target \in Fetched
      BY <1>1, <2>1, <2>2 DEF InMotion, Moving, Flags, TypeOK, Target
    <2>4. \/ ref' = ref
          \/ ref' = [ref EXCEPT ![Moved] = job.from] /\ ref[Moved] = job.to
      BY <1>7, <2>2 DEF Back, Attached
    <2>. QED
      BY <1>1, <2>1, <2>2, <2>3, <2>4 DEF Spares, TypeOK
  <1>8. CASE Publish \/ RestoreState
    <2>1. job.pc \in Working \ {"record"} /\ UNCHANGED <<ref, tree>>
      BY <1>8 DEF Publish, RestoreState, At, world, git, Working
    <2>2. InMotion /\ Checkout \in Workspaces
      BY <2>1, Busy
    <2>3. plan.state[Checkout] # "theirs" /\ job.to # "theirs"
      BY <2>2, SpecialIsNoCommit DEF InMotion, Moving, Flags
    <2>4. \/ state' = state
          \/ /\ state[Checkout] # "theirs"
             /\ \E s : state' = [state EXCEPT ![Checkout] = s]
      BY <1>8, <2>3 DEF Publish, RestoreState
    <2>. QED
      BY <1>1, <2>1, <2>2, <2>4 DEF Spares, TypeOK
  <1>9. CASE Revalidate \/ Fetch \/ Baseline \/ ConfirmRef \/ Emit \/ NextEntry \/ Check
    BY <1>2, <1>9 DEF Revalidate, Fetch, Baseline, ConfirmRef, Emit, NextEntry, Check, git
  <1>10. CASE Look \/ ForwardFailed \/ Decide \/ Readback \/ StateSettled \/ Restored \/ BackFailed \/ Record
    BY <1>2, <1>10 DEF Look, ForwardFailed, Decide, Readback, StateSettled, Restored, BackFailed, Record, git
  <1>. QED
    BY <1>3, <1>4, <1>5, <1>6, <1>7, <1>8, <1>9, <1>10 DEF Step

\* No step of the command drops a commit of the user, touches files with changes
\* in them, or replaces a state file that is not the planned one or its own
\* (assertOwnedBranchGeneration, worktreeMatchesCommit, publishCompanionHead).
THEOREM TheirsSurviveHolds == Spec => TheirsSurvive
  <1>1. ASSUME CInv, [Next]_vars, ~UNCHANGED vars, Step,
               NEW e \in Entries, NEW c \in UserCommits, IsAncestor(c, ref[e])
        PROVE  IsAncestor(c, ref'[e])
    <2>1. Spares /\ c \in Commits
      BY <1>1, SparesStep, CompanionAssumption
    <2>2. CASE ref'[e] = ref[e]
      BY <1>1, <2>2
    <2>3. CASE ref'[e] # ref[e]
      <3>1. /\ ref[e] \in Commits /\ ref'[e] \in Commits
            /\ IsAncestor(ref[e], ref'[e]) \/ ref[e] \in Fetched
        BY <2>1, <2>3 DEF Spares
      <3>2. ref[e] \notin Fetched
        BY <1>1, HistoryAssumption
      <3>. QED
        BY <1>1, <2>1, <3>1, <3>2, AncestryIsOrder
    <2>. QED
      BY <2>2, <2>3
  <1>2. ASSUME CInv, Step, NEW w \in Workspaces
        PROVE  /\ (tree'[w] # tree[w] => ~tree[w].dirty)
               /\ (state[w] = "theirs" => state'[w] = "theirs")
    BY <1>2, SparesStep DEF Spares
  <1>3. CInv /\ [Next]_vars =>
            [Step => /\ \A e \in Entries, c \in UserCommits :
                           (IsAncestor(c, ref[e]) => IsAncestor(c, ref'[e]))
                     /\ \A w \in Workspaces : /\ (tree'[w] # tree[w] => ~tree[w].dirty)
                                               /\ (state[w] = "theirs" => state'[w] = "theirs")]_vars
    BY <1>1, <1>2
  <1>. QED
    BY <1>3, Invariant, PTL DEF TheirsSurvive, Spec
=============================================================================
