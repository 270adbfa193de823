------------------------- MODULE ProjectRegistryProofs -------------------------
(***************************************************************************)
(* Proofs about ProjectRegistry, for any set of projects and places, any   *)
(* number of commands, faults, crashes and moves of the user.              *)
(*                                                                         *)
(* What makes the registry safe is that a command that publishes or undoes *)
(* holds the registry lock, and that the file is, for as long as it does,  *)
(* what the command saw under the lock or that with its own entry          *)
(* (Publication).  What the user changed survives, and a clean end is      *)
(* clean, because a command notes what it still has to take back           *)
(* (Withdrawn) and compares it with what there is (Disk): NInv.            *)
(***************************************************************************)
EXTENDS ProjectRegistry, TLAPS

Registries == [Ids -> Places \cup {None}]

\* No two projects at one place.
Distinct(reg) == \A i, k \in Ids : i # k /\ reg[i] = reg[k] => reg[i] = None

\* A command, whatever targets it has in hand.
Jobs(c) ==
    [cmd: Cmds \cup {"none"}, id: Ids \cup {None}, place: Places \cup {None},
     pc: Running \cup Ended \cup {"idle"}, seen: Registries, owned: {c.owned},
     written: {c.written}, checked: {c.checked}, failed: BOOLEAN, quiet: BOOLEAN,
     left: {c.left}, staging: BOOLEAN, end: Ended]

Shape(j) == j \in Jobs(j)

Commands ==
    /\ job = [p \in Procs |-> job[p]]
    /\ \A p \in Procs :
         /\ Shape(job[p])
         /\ job[p].pc \in Running => job[p].id \in Ids /\ job[p].place \in Places

Exclusive == \A p, q \in Procs : Holds(p) /\ Holds(q) => p = q

InPublication == {"publishing", "undoing"}

\* What a command saw under the lock, with its entry.
Registered(j) == [j.seen EXCEPT ![j.id] = j.place]

Publication(p) ==
    job[p].pc \in InPublication =>
        /\ job[p].seen \in Registries /\ Distinct(job[p].seen)
        /\ \A other \in Ids \ {job[p].id} : job[p].seen[other] # job[p].place
        /\ registry \in {job[p].seen, Registered(job[p])}

IInv ==
    /\ registry \in Registries
    /\ OnePlaceOneProject
    /\ Commands
    /\ Exclusive
    /\ \A p \in Procs : Publication(p)

-----------------------------------------------------------------------------
(* Steps of one command                                                     *)

\* A step of one command that leaves the others alone, holds the lock if it
\* writes, and keeps its own part of the invariant keeps the invariant.
LEMMA OneCommand ==
    ASSUME IInv, NEW p \in Procs, NEW r,
           job' = [job EXCEPT ![p] = r], Shape(r),
           r.pc \in Running => r.id \in Ids /\ r.place \in Places,
           r.pc \in Locked => \A q \in Procs \ {p} : ~Holds(q),
           Holds(p) \/ UNCHANGED registry,
           registry' \in Registries, OnePlaceOneProject', Publication(p)'
    PROVE  IInv'
<1>1. /\ job' = [q \in Procs |-> job'[q]] /\ job'[p] = r
      /\ \A q \in Procs \ {p} : job'[q] = job[q]
  BY DEF IInv, Commands
<1>2. Commands'
  BY <1>1 DEF IInv, Commands
<1>3. Exclusive'
  BY <1>1 DEF IInv, Exclusive, Holds
<1>4. ASSUME NEW q \in Procs, q # p PROVE Publication(q)'
  <2>1. CASE UNCHANGED registry
    BY <1>1, <1>4, <2>1 DEF IInv, Publication, Registered
  <2>2. CASE Holds(p)
    <3>1. job'[q].pc \notin InPublication
      BY <1>1, <1>4, <2>2 DEF IInv, Exclusive, Holds, Locked, InPublication
    <3> QED BY <3>1 DEF Publication
  <2> QED BY <2>1, <2>2
<1> QED BY <1>2, <1>3, <1>4 DEF IInv

\* A step that does not touch the registry and goes on with the same plan.
LEMMA Passes ==
    ASSUME IInv, NEW p \in Procs, NEW r,
           job' = [job EXCEPT ![p] = r], Shape(r), UNCHANGED registry,
           r.id = job[p].id, r.place = job[p].place, r.seen = job[p].seen,
           r.pc \in Running => job[p].pc \in Running,
           r.pc \in Locked => \A q \in Procs \ {p} : ~Holds(q),
           r.pc \in InPublication => job[p].pc \in InPublication
    PROVE  IInv'
<1>1. job'[p] = r
  BY DEF IInv, Commands
<1>2. Publication(p)'
  BY <1>1 DEF IInv, Publication, Registered
<1>3. OnePlaceOneProject'
  BY DEF IInv, OnePlaceOneProject
<1>4. r.pc \in Running => r.id \in Ids /\ r.place \in Places
  BY DEF IInv, Commands
<1> QED BY <1>2, <1>3, <1>4, OneCommand DEF IInv

\* A command goes on with its plan.
Continues(p) ==
    /\ job' = [job EXCEPT ![p] = job'[p]] /\ Shape(job'[p])
    /\ job'[p].id = job[p].id /\ job'[p].place = job[p].place /\ job'[p].seen = job[p].seen

\* Every command that is not past its end has a shape.
LEMMA Shaped ==
    ASSUME IInv, NEW p \in Procs
    PROVE  job = [q \in Procs |-> job[q]] /\ Shape(job[p])
BY DEF IInv, Commands

\* Where a command is.
Phases == Running \cup Ended \cup {"idle"}

LEMMA Moves ==
    ASSUME IInv, NEW p \in Procs, NEW pc \in Phases,
           \/ job' = [job EXCEPT ![p].pc = pc]
           \/ job' = [job EXCEPT ![p].pc = pc, ![p].staging = FALSE]
    PROVE  Continues(p) /\ job'[p].pc = pc
BY Shaped DEF Continues, Shape, Jobs, Phases

LEMMA FailsTyped ==
    ASSUME IInv, NEW p \in Procs, job' = Fails(p, "refused")
    PROVE  Continues(p) /\ job'[p].pc \in {"discarding", "refused"}
<1>1. PICK pc \in {"discarding", "refused"} :
        job' = [job EXCEPT ![p].pc = pc, ![p].end = "refused"]
  BY DEF Fails
<1> QED BY <1>1, Shaped DEF Continues, Shape, Jobs, Running, Ended

\* Planning, staging and giving up: before the locks.
LEMMA BeforeLocks ==
    ASSUME IInv, NEW p \in Procs,
           \/ StageClone(p) \/ StageMaterialize(p) \/ DiscardClone(p) \/ DiscardMaterialize(p)
           \/ StagingKept(p) \/ LockTimeout(p)
    PROVE  IInv'
<1>1. UNCHANGED registry
  BY DEF StageClone, StageMaterialize, DiscardClone, DiscardMaterialize, StagingKept, LockTimeout, world
<1>2. Continues(p) /\ (job'[p].pc \in {"staged", "discarding"} \/ job'[p].pc \notin Running)
  <2>1. CASE StageClone(p) \/ StageMaterialize(p)
    BY <2>1, Shaped DEF StageClone, StageMaterialize, Continues, Shape, Jobs, Running, Ended
  <2>2. CASE DiscardClone(p) \/ StagingKept(p)
    BY <2>2, Shaped DEF DiscardClone, StagingKept, Continues, Shape, Jobs, Running, Ended
  <2>3. CASE DiscardMaterialize(p)
    <3>1. job[p].end \in Ended
      BY Shaped DEF Shape, Jobs
    <3>2. PICK pc \in Ended : job' = [job EXCEPT ![p].pc = pc, ![p].staging = FALSE]
      BY <2>3, <3>1 DEF DiscardMaterialize
    <3>3. pc \in Phases /\ pc \notin Running
      BY DEF Phases, Ended, Running
    <3> QED BY <3>2, <3>3, Moves
  <2>4. CASE LockTimeout(p)
    BY <2>4, FailsTyped DEF LockTimeout, Running
  <2> QED BY <2>1, <2>2, <2>3, <2>4
<1>3. job[p].pc \in Running
  BY DEF StageClone, StageMaterialize, DiscardClone, DiscardMaterialize, StagingKept, LockTimeout,
         ReadyToLock, Running
<1> QED BY <1>1, <1>2, <1>3, Passes DEF Continues, Locked, Running, InPublication

LEMMA LockSteps ==
    ASSUME IInv, NEW p \in Procs, Lock(p) \/ RecheckFails(p)
    PROVE  IInv'
<1>1. UNCHANGED registry
  BY DEF Lock, RecheckFails, world
<1>2. CASE Lock(p)
  <2>1. Continues(p) /\ job'[p].pc = "locked"
    <3>1. "locked" \in Phases
      BY DEF Phases, Running
    <3> QED BY <1>2, <3>1, Moves DEF Lock
  <2>2. job[p].pc \in Running /\ \A q \in Procs : ~Holds(q)
    BY <1>2 DEF Lock, ReadyToLock, Running
  <2> QED BY <1>1, <2>1, <2>2, Passes DEF Continues, InPublication
<1>3. CASE RecheckFails(p)
  <2>1. Continues(p) /\ job'[p].pc \in {"discarding", "refused"}
    BY <1>3, FailsTyped DEF RecheckFails
  <2>2. job[p].pc \in Running
    BY <1>3 DEF RecheckFails, Running
  <2> QED BY <1>1, <2>1, <2>2, Passes DEF Continues, InPublication, Locked
<1> QED BY <1>2, <1>3

\* Who holds the lock keeps everybody else from it.
LEMMA Alone ==
    ASSUME IInv, NEW p \in Procs, Holds(p)
    PROVE  \A q \in Procs \ {p} : ~Holds(q)
BY DEF IInv, Exclusive

\* What a publication may rely on: the registry it saw is the one there is, and
\* its place is nobody else's.
LEMMA RecheckStep ==
    ASSUME IInv, NEW p \in Procs, Recheck(p)
    PROVE  IInv'
<1>1. /\ UNCHANGED registry /\ Holds(p) /\ job[p].pc \in Running
      /\ job[p].cmd \in Publishers /\ PlanHolds(job[p])
  BY DEF Recheck, world, Holds, Locked, Running
<1>2. ~RegistrationConflict(job[p].id, job[p].place)
  BY <1>1 DEF Publishers, PlanHolds, InitHolds, CloneHolds, MaterializeHolds
<1>3. /\ job' = [job EXCEPT ![p] = job'[p]] /\ Shape(job'[p])
      /\ job'[p].id = job[p].id /\ job'[p].place = job[p].place /\ job'[p].seen = registry
      /\ job'[p].pc = "publishing"
  <2>1. "publishing" \in Phases
    BY DEF Phases, Running
  <2>2. job' = [job EXCEPT ![p].pc = "publishing", ![p].seen = registry]
    BY DEF Recheck
  <2>3. PICK r : r = [job[p] EXCEPT !.pc = "publishing", !.seen = registry]
    OBVIOUS
  <2>4. registry \in Registries /\ Shape(job[p])
    BY Shaped DEF IInv
  <2>5. /\ Shape(r) /\ r.id = job[p].id /\ r.place = job[p].place /\ r.seen = registry
        /\ r.pc = "publishing"
    BY ONLY <2>1, <2>3, <2>4 DEF Shape, Jobs, Phases
  <2>6. job' = [job EXCEPT ![p] = r] /\ job'[p] = r
    BY <2>2, <2>3, Shaped
  <2> QED BY <2>5, <2>6
<1>4. Publication(p)'
  BY <1>1, <1>2, <1>3 DEF Publication, RegistrationConflict, IInv, OnePlaceOneProject, Distinct
<1>5. OnePlaceOneProject'
  BY <1>1 DEF IInv, OnePlaceOneProject
<1>6. job[p].id \in Ids /\ job[p].place \in Places
  BY <1>1 DEF IInv, Commands
<1> QED BY <1>1, <1>3, <1>4, <1>5, <1>6, Alone, OneCommand DEF IInv

-----------------------------------------------------------------------------
(* Steps that write the registry                                            *)

\* Removal of an entry, and relocation to a place nobody else has.
LEMMA EntrySteps ==
    ASSUME IInv, NEW p \in Procs, Remove(p) \/ Reconcile(p)
    PROVE  IInv'
<1>1. Holds(p) /\ job[p].pc = "locked" /\ job[p].id \in Ids /\ job[p].place \in Places
  BY DEF Remove, Reconcile, Holds, Locked, Running, IInv, Commands
<1>2. Continues(p) /\ job'[p].pc \in Ended
  <2>1. PICK pc \in Ended : \/ job' = [job EXCEPT ![p].pc = pc]
                            \/ job' = [job EXCEPT ![p] = [job[p] EXCEPT !.pc = pc]]
    BY DEF Remove, Reconcile, Becomes, Ended
  <2> QED BY <2>1, Shaped DEF Continues, Shape, Jobs
<1>3. job'[p].pc \notin Running \cup Locked \cup InPublication
  BY <1>2 DEF Ended, Running, Locked, InPublication
<1>4. registry' \in Registries /\ OnePlaceOneProject'
  <2>1. CASE UNCHANGED registry
    BY <2>1 DEF IInv, OnePlaceOneProject
  <2>2. CASE registry' = [registry EXCEPT ![job[p].id] = None]
    BY <1>1, <2>2, RegistryAssumption DEF IInv, OnePlaceOneProject, Registries
  <2>3. CASE /\ registry' = [registry EXCEPT ![job[p].id] = job[p].place]
             /\ ~RegistrationConflict(job[p].id, job[p].place)
    BY <1>1, <2>3 DEF IInv, OnePlaceOneProject, Registries, RegistrationConflict
  <2> QED BY <2>1, <2>2, <2>3 DEF Remove, Reconcile
<1>5. Publication(p)'
  BY <1>3 DEF Publication
<1> QED BY <1>1, <1>2, <1>3, <1>4, <1>5, OneCommand DEF Continues

\* A step of a publication or a rollback: the registry is, before and after, what
\* the command saw or that with its entry.
LEMMA PublicationStep ==
    ASSUME IInv, NEW p \in Procs, job[p].pc \in InPublication, Continues(p),
           registry' \in {registry, job[p].seen, Registered(job[p])}
    PROVE  IInv'
<1>1. Holds(p) /\ job[p].pc \in Running /\ job[p].id \in Ids /\ job[p].place \in Places
  BY DEF InPublication, Holds, Locked, Running, IInv, Commands
<1>2. /\ job[p].seen \in Registries /\ Distinct(job[p].seen)
      /\ \A other \in Ids \ {job[p].id} : job[p].seen[other] # job[p].place
      /\ registry' \in {job[p].seen, Registered(job[p])}
  BY DEF IInv, Publication
<1>3. registry' \in Registries /\ OnePlaceOneProject'
  BY <1>1, <1>2 DEF Registered, Registries, OnePlaceOneProject, Distinct
<1>4. Publication(p)'
  BY <1>2 DEF Continues, Publication, Registered
<1> QED BY <1>1, <1>3, <1>4, Alone, OneCommand DEF Continues

\* A job that goes on with its plan.
SamePlan(j, r) == Shape(r) /\ r.id = j.id /\ r.place = j.place /\ r.seen = j.seen

LEMMA Turns ==
    ASSUME IInv, NEW p \in Procs, NEW r, Becomes(p, r), SamePlan(job[p], r)
    PROVE  Continues(p)
BY Shaped DEF Becomes, Continues, SamePlan

\* What a step of a publication or a rollback may make of a job.
LEMMA Reshaped ==
    ASSUME NEW j, Shape(j)
    PROVE  /\ \A quiet \in BOOLEAN : SamePlan(j, PublicationFails(j, quiet))
           /\ \A t : SamePlan(j, Owning(j, t)) /\ SamePlan(j, [j EXCEPT !.written = t])
           /\ \A said \in BOOLEAN : SamePlan(j, NoReceipt(j, said))
<1>1. ASSUME NEW quiet \in BOOLEAN PROVE SamePlan(j, PublicationFails(j, quiet))
  BY DEF PublicationFails, SamePlan, Shape, Jobs, Running
<1>2. ASSUME NEW t PROVE SamePlan(j, Owning(j, t))
  <2>1. PICK staging \in BOOLEAN : staging = (j.staging /\ ~(j.cmd = "clone" /\ t = "tree"))
    BY DEF Shape, Jobs
  <2>2. Owning(j, t) = [j EXCEPT !.owned = j.owned \cup {t}, !.written = "none", !.staging = staging]
    BY <2>1 DEF Owning
  <2> QED BY <2>2 DEF SamePlan, Shape, Jobs
<1>3. ASSUME NEW t PROVE SamePlan(j, [j EXCEPT !.written = t])
  BY DEF SamePlan, Shape, Jobs
<1>4. ASSUME NEW said \in BOOLEAN PROVE SamePlan(j, NoReceipt(j, said))
  <2>1. PICK r : r = PublicationFails(j, ~said)
    OBVIOUS
  <2>2. SamePlan(j, r)
    BY <1>1, <2>1
  <2>3. \E failed \in BOOLEAN : \E left : NoReceipt(j, said) = [r EXCEPT !.failed = failed, !.left = left]
    <3>1. PICK failed \in BOOLEAN :
            failed = (r.failed \/ (said /\ ~(j.written = "config" /\ config[j.place] = None)))
      BY <2>2 DEF SamePlan, Shape, Jobs
    <3>2. PICK left : left = IF said \/ (j.written = "config" /\ config[j.place] = None) THEN r.left
                             ELSE r.left \cup {j.written}
      OBVIOUS
    <3>3. NoReceipt(j, said) = [r EXCEPT !.failed = failed, !.left = left]
      BY <2>1, <3>1, <3>2 DEF NoReceipt
    <3> QED BY <3>3
  <2>4. PICK failed \in BOOLEAN : \E left : NoReceipt(j, said) = [r EXCEPT !.failed = failed, !.left = left]
    BY <2>3
  <2>5. PICK left : NoReceipt(j, said) = [r EXCEPT !.failed = failed, !.left = left]
    BY <2>4
  <2> QED BY <2>2, <2>5 DEF SamePlan, Shape, Jobs
<1> QED BY <1>1, <1>2, <1>3, <1>4

\* What PublishNext and ReadBack make of a job.
Advance(j, r) ==
    \/ \E quiet \in BOOLEAN : r = PublicationFails(j, quiet)
    \/ \E t : r = Owning(j, t) \/ r = [j EXCEPT !.written = t] \/ r = PublicationFails(Owning(j, t), FALSE)
    \/ \E said \in BOOLEAN : r = NoReceipt(j, said)

LEMMA AdvanceShape ==
    ASSUME NEW j, Shape(j), NEW r, Advance(j, r)
    PROVE  SamePlan(j, r)
<1>1. ASSUME NEW t PROVE SamePlan(j, PublicationFails(Owning(j, t), FALSE))
  <2>1. PICK o : o = Owning(j, t)
    OBVIOUS
  <2>2. SamePlan(j, o) /\ Shape(o)
    BY <2>1, Reshaped DEF SamePlan
  <2>3. SamePlan(o, PublicationFails(o, FALSE))
    BY <2>2, Reshaped
  <2> QED BY <2>1, <2>2, <2>3 DEF SamePlan
<1>2. CASE \E quiet \in BOOLEAN : r = PublicationFails(j, quiet)
  <2>1. PICK quiet \in BOOLEAN : r = PublicationFails(j, quiet)
    BY <1>2
  <2> QED BY ONLY <2>1, Reshaped, Shape(j)
<1>3. CASE \E t : r = Owning(j, t) \/ r = [j EXCEPT !.written = t]
  <2>1. PICK t : r = Owning(j, t) \/ r = [j EXCEPT !.written = t]
    BY <1>3
  <2>2. SamePlan(j, Owning(j, t)) /\ SamePlan(j, [j EXCEPT !.written = t])
    BY Reshaped
  <2> QED BY ONLY <2>1, <2>2
<1>4. CASE \E t : r = PublicationFails(Owning(j, t), FALSE)
  BY <1>1, <1>4, Zenon
<1>5. CASE \E said \in BOOLEAN : r = NoReceipt(j, said)
  <2>1. PICK said \in BOOLEAN : r = NoReceipt(j, said)
    BY <1>5
  <2> QED BY ONLY <2>1, Reshaped, Shape(j)
<1> QED BY <1>2, <1>3, <1>4, <1>5, Zenon DEF Advance

LEMMA PublishTurns ==
    ASSUME NEW p \in Procs,
           \/ PublishInit(p) \/ PublishClone(p) \/ PublishMaterialize(p) \/ ReadBack(p)
           \/ LastCheckFails(p)
    PROVE  \E r : Becomes(p, r) /\ Advance(job[p], r)
<1>1. ASSUME NEW admitted, NEW quiets \in SUBSET BOOLEAN, PublishNext(p, admitted, quiets)
      PROVE  \E r : Becomes(p, r) /\ Advance(job[p], r)
  <2>1. PICK t : t = NextTarget(job[p])
    OBVIOUS
  <2>2. \/ \E quiet \in BOOLEAN : Becomes(p, PublicationFails(job[p], quiet))
        \/ Becomes(p, IF t = "tree" THEN Owning(job[p], t) ELSE [job[p] EXCEPT !.written = t])
        \/ Becomes(p, PublicationFails(Owning(job[p], t), FALSE))
    BY <1>1, <2>1, Zenon DEF PublishNext
  <2>3. CASE t = "tree"
    BY <2>2, <2>3, Zenon DEF Advance
  <2>4. CASE t # "tree"
    BY <2>2, <2>4, Zenon DEF Advance
  <2> QED BY <2>3, <2>4
<1>2. CASE PublishInit(p) \/ PublishClone(p) \/ PublishMaterialize(p)
  <2>1. {FALSE} \in SUBSET BOOLEAN /\ {FALSE, "state" \in job[p].owned} \in SUBSET BOOLEAN
    OBVIOUS
  <2>2. \E admitted : \E quiets \in SUBSET BOOLEAN : PublishNext(p, admitted, quiets)
    BY <1>2, <2>1, Zenon DEF PublishInit, PublishClone, PublishMaterialize
  <2> QED BY <1>1, <2>2, Zenon
<1>3. CASE ReadBack(p)
  <2>1. ("init" = job[p].cmd) \in BOOLEAN /\ (job[p].cmd \in {"init", "clone"}) \in BOOLEAN
    OBVIOUS
  <2>2. \/ \E t : Becomes(p, Owning(job[p], t)) \/ Becomes(p, PublicationFails(Owning(job[p], t), FALSE))
        \/ \E said \in BOOLEAN : Becomes(p, NoReceipt(job[p], said))
    BY <1>3, <2>1, Zenon DEF ReadBack
  <2> QED BY <2>2, Zenon DEF Advance
<1>4. CASE LastCheckFails(p)
  BY <1>4, Zenon DEF LastCheckFails, Advance
<1> QED BY <1>2, <1>3, <1>4

\* Publication: the entry is written last but for init's state, with the registry
\* seen under the lock.
LEMMA PublishSteps ==
    ASSUME IInv, NEW p \in Procs,
           \/ PublishInit(p) \/ PublishClone(p) \/ PublishMaterialize(p) \/ ReadBack(p)
           \/ LastCheckFails(p)
    PROVE  IInv'
<1>1. job[p].pc \in InPublication
  BY DEF PublishInit, PublishClone, PublishMaterialize, PublishNext, ReadBack, LastCheckFails, InPublication
<1>2. registry' \in {registry, job[p].seen, Registered(job[p])}
  BY DEF PublishInit, PublishClone, PublishMaterialize, PublishNext, ReadBack, LastCheckFails,
         Written, Registered, world
<1>3. Continues(p)
  BY PublishTurns, AdvanceShape, Shaped, Turns, Zenon
<1> QED BY <1>1, <1>2, <1>3, PublicationStep

\* What a step of a rollback may make of a job.
Rolled(c, r) ==
    \E owned, checked, left : \E failed \in BOOLEAN :
        r = [c EXCEPT !.owned = owned, !.checked = checked, !.failed = failed, !.left = left]

LEMMA RolledShape ==
    ASSUME NEW c, Shape(c), NEW r, Rolled(c, r)
    PROVE  SamePlan(c, r)
<1>1. PICK owned, checked, left : \E failed \in BOOLEAN :
        r = [c EXCEPT !.owned = owned, !.checked = checked, !.failed = failed, !.left = left]
  BY DEF Rolled
<1>2. PICK failed \in BOOLEAN :
        r = [c EXCEPT !.owned = owned, !.checked = checked, !.failed = failed, !.left = left]
  BY <1>1
<1> QED BY <1>2 DEF SamePlan, Shape, Jobs

\* A step of a rollback, and which fields it sets.
RollsTo(p, owned, checked, failed, left) ==
    Becomes(p, [job[p] EXCEPT !.owned = owned, !.checked = checked, !.failed = failed, !.left = left])

LEMMA RollSteps ==
    ASSUME NEW p \in Procs, Shape(job[p])
    PROVE  /\ KeepTarget(p) =>
                \E t \in UndoNext(job[p]), silent \in BOOLEAN :
                    /\ silent => job[p].cmd = "clone" /\ t # "tree"
                    /\ \E failed \in BOOLEAN : \E left :
                         /\ RollsTo(p, job[p].owned \ {t}, "none", failed, left)
                         /\ failed = (job[p].failed \/ ~silent)
                         /\ left = IF silent THEN job[p].left \cup {t} ELSE job[p].left
           /\ UndoTarget(p) =>
                \E t \in UndoNext(job[p]) :
                    /\ ~ByPath(job[p], t) /\ ~Changed(job[p], t) /\ Unwritten(job[p], t)
                    /\ RollsTo(p, job[p].owned \ {t}, job[p].checked, job[p].failed, job[p].left)
           /\ CheckByPath(p) =>
                \E t \in UndoNext(job[p]) :
                    /\ ByPath(job[p], t) /\ job[p].checked = "none"
                    /\ RollsTo(p, job[p].owned, t, job[p].failed, job[p].left)
           /\ RemoveByPath(p) =>
                RollsTo(p, job[p].owned \ {job[p].checked}, "none", job[p].failed, job[p].left)
<1> DEFINE c == job[p]
<1>1. c.failed \in BOOLEAN /\ c.quiet \in BOOLEAN
  BY DEF Shape, Jobs
<1>2. ASSUME KeepTarget(p)
      PROVE  \E t \in UndoNext(c), silent \in BOOLEAN :
                    /\ silent => c.cmd = "clone" /\ t # "tree"
                    /\ \E failed \in BOOLEAN : \E left :
                         /\ RollsTo(p, c.owned \ {t}, "none", failed, left)
                         /\ failed = (c.failed \/ ~silent)
                         /\ left = IF silent THEN c.left \cup {t} ELSE c.left
  <2>1. PICK t \in UndoNext(c) :
          Becomes(p, [c EXCEPT !.owned = @ \ {t}, !.checked = "none",
                               !.failed = @ \/ ~(c.cmd = "clone" /\ c.quiet /\ t # "tree"),
                               !.left = IF c.cmd = "clone" /\ c.quiet /\ t # "tree" THEN @ \cup {t} ELSE @])
    BY <1>2, Zenon DEF KeepTarget
  <2>2. PICK silent \in BOOLEAN : silent = (c.cmd = "clone" /\ c.quiet /\ t # "tree")
    BY <1>1
  <2>3. PICK failed \in BOOLEAN : failed = (c.failed \/ ~silent)
    BY <1>1
  <2>4. PICK left : left = IF silent THEN c.left \cup {t} ELSE c.left
    OBVIOUS
  <2>5. RollsTo(p, c.owned \ {t}, "none", failed, left)
    BY <2>1, <2>2, <2>3, <2>4 DEF RollsTo
  <2> QED BY <2>2, <2>3, <2>4, <2>5
<1>3. ASSUME NEW owned, NEW checked PROVE
        /\ [c EXCEPT !.owned = owned]
             = [c EXCEPT !.owned = owned, !.checked = c.checked, !.failed = c.failed, !.left = c.left]
        /\ [c EXCEPT !.checked = checked]
             = [c EXCEPT !.owned = c.owned, !.checked = checked, !.failed = c.failed, !.left = c.left]
        /\ [c EXCEPT !.owned = owned, !.checked = checked]
             = [c EXCEPT !.owned = owned, !.checked = checked, !.failed = c.failed, !.left = c.left]
  BY DEF Shape, Jobs
<1> HIDE DEF c
<1>4. c = job[p]
  BY DEF c
<1>5. UndoTarget(p) => \E t \in UndoNext(c) :
                    /\ ~ByPath(c, t) /\ ~Changed(c, t) /\ Unwritten(c, t)
                    /\ RollsTo(p, c.owned \ {t}, c.checked, c.failed, c.left)
  <2>1. ASSUME UndoTarget(p)
        PROVE  \E t \in UndoNext(c) : /\ ~ByPath(c, t) /\ ~Changed(c, t) /\ Unwritten(c, t)
                                     /\ Becomes(p, [c EXCEPT !.owned = c.owned \ {t}])
    BY <1>4, <2>1, Zenon DEF UndoTarget
  <2>2. ASSUME NEW t, Becomes(p, [c EXCEPT !.owned = c.owned \ {t}])
        PROVE  RollsTo(p, c.owned \ {t}, c.checked, c.failed, c.left)
    BY ONLY <1>3, <1>4, <2>2 DEF RollsTo
  <2> QED BY <2>1, <2>2, Zenon
<1>6. CheckByPath(p) => \E t \in UndoNext(c) :
                    /\ ByPath(c, t) /\ c.checked = "none"
                    /\ RollsTo(p, c.owned, t, c.failed, c.left)
  <2>1. ASSUME CheckByPath(p)
        PROVE  \E t \in UndoNext(c) : /\ ByPath(c, t) /\ c.checked = "none"
                                     /\ Becomes(p, [c EXCEPT !.checked = t])
    BY <1>4, <2>1, Zenon DEF CheckByPath
  <2>2. ASSUME NEW t, Becomes(p, [c EXCEPT !.checked = t])
        PROVE  RollsTo(p, c.owned, t, c.failed, c.left)
    BY ONLY <1>3, <1>4, <2>2 DEF RollsTo
  <2> QED BY <2>1, <2>2, Zenon
<1>7. RemoveByPath(p) => RollsTo(p, c.owned \ {c.checked}, "none", c.failed, c.left)
  <2>1. ASSUME RemoveByPath(p)
        PROVE  Becomes(p, [c EXCEPT !.owned = c.owned \ {c.checked}, !.checked = "none"])
    BY <1>4, <2>1, Zenon DEF RemoveByPath
  <2> QED BY <1>3, <1>4, <2>1, Zenon DEF RollsTo
<1> QED BY <1>2, <1>4, <1>5, <1>6, <1>7

LEMMA RollTurns ==
    ASSUME IInv, NEW p \in Procs,
           KeepTarget(p) \/ UndoTarget(p) \/ CheckByPath(p) \/ RemoveByPath(p)
    PROVE  Continues(p)
<1>1. Shape(job[p]) /\ job[p].failed \in BOOLEAN
  BY Shaped DEF Shape, Jobs
<1>2. \E owned, checked, left : \E failed \in BOOLEAN : RollsTo(p, owned, checked, failed, left)
  <2>1. CASE KeepTarget(p)
    <3>1. PICK t \in UndoNext(job[p]) : \E failed \in BOOLEAN : \E left :
            RollsTo(p, job[p].owned \ {t}, "none", failed, left)
      BY <1>1, <2>1, RollSteps, Zenon
    <3> QED BY <3>1, Zenon
  <2>2. CASE UndoTarget(p)
    <3>1. PICK t \in UndoNext(job[p]) :
            RollsTo(p, job[p].owned \ {t}, job[p].checked, job[p].failed, job[p].left)
      BY <1>1, <2>2, RollSteps, Zenon
    <3> QED BY <1>1, <3>1, Zenon
  <2>3. CASE CheckByPath(p)
    <3>1. PICK t \in UndoNext(job[p]) : RollsTo(p, job[p].owned, t, job[p].failed, job[p].left)
      BY <1>1, <2>3, RollSteps, Zenon
    <3> QED BY <1>1, <3>1, Zenon
  <2>4. CASE RemoveByPath(p)
    <3>1. RollsTo(p, job[p].owned \ {job[p].checked}, "none", job[p].failed, job[p].left)
      BY <1>1, <2>4, RollSteps, Zenon
    <3> QED BY <1>1, <3>1, Zenon
  <2> QED BY <2>1, <2>2, <2>3, <2>4
<1>3. PICK r : Becomes(p, r) /\ Rolled(job[p], r)
  <2>1. PICK owned, checked, left : \E failed \in BOOLEAN : RollsTo(p, owned, checked, failed, left)
    BY <1>2
  <2>2. PICK failed \in BOOLEAN : RollsTo(p, owned, checked, failed, left)
    BY <2>1
  <2>3. PICK r : r = [job[p] EXCEPT !.owned = owned, !.checked = checked, !.failed = failed, !.left = left]
    OBVIOUS
  <2>4. Rolled(job[p], r)
    BY ONLY <2>3, failed \in BOOLEAN DEF Rolled
  <2>5. Becomes(p, r)
    BY ONLY <2>2, <2>3 DEF RollsTo
  <2> QED BY <2>4, <2>5
<1> QED BY <1>1, <1>3, RolledShape, Turns

\* The end of a publication, and rollback, which can only bring back what the
\* command saw.
LEMMA UndoSteps ==
    ASSUME IInv, NEW p \in Procs,
           \/ Published(p) \/ KeepTarget(p) \/ UndoTarget(p) \/ CheckByPath(p)
           \/ RemoveByPath(p) \/ EndRollback(p)
    PROVE  IInv'
<1>1. job[p].pc \in InPublication
  BY DEF Published, KeepTarget, UndoTarget, CheckByPath, RemoveByPath, EndRollback, InPublication
<1>2. registry' \in {registry, job[p].seen, Registered(job[p])}
  BY DEF Published, KeepTarget, UndoTarget, CheckByPath, RemoveByPath, EndRollback, Unwritten, world
<1>3. CASE Published(p) \/ EndRollback(p)
  <2>1. {"discarding", "ok", "incomplete", "clean"} \subseteq Phases /\ {"ok", "incomplete", "clean"} \subseteq Ended
    BY DEF Phases, Running, Ended
  <2>2. PICK pc \in Phases, end \in Ended :
          \/ Becomes(p, [job[p] EXCEPT !.pc = pc, !.end = end])
          \/ job' = [job EXCEPT ![p].pc = pc, ![p].end = end]
    <3>1. CASE Published(p)
      BY <2>1, <3>1 DEF Published
    <3>2. CASE EndRollback(p)
      BY <2>1, <3>2 DEF EndRollback
    <3> QED BY <1>3, <3>1, <3>2
  <2>3. ASSUME Becomes(p, [job[p] EXCEPT !.pc = pc, !.end = end]) PROVE Continues(p)
    <3>1. SamePlan(job[p], [job[p] EXCEPT !.pc = pc, !.end = end])
      BY Shaped DEF SamePlan, Shape, Jobs, Phases
    <3> QED BY <2>3, <3>1, Turns
  <2>4. ASSUME job' = [job EXCEPT ![p].pc = pc, ![p].end = end] PROVE Continues(p)
    <3>1. job' = [job EXCEPT ![p] = [job[p] EXCEPT !.pc = pc, !.end = end]]
      BY <2>4, Shaped
    <3> QED BY <2>3, <3>1 DEF Becomes
  <2>5. Continues(p)
    BY <2>2, <2>4, <2>3
  <2> QED BY <1>1, <1>2, <2>5, PublicationStep
<1>4. CASE KeepTarget(p) \/ UndoTarget(p) \/ CheckByPath(p) \/ RemoveByPath(p)
  BY <1>1, <1>2, <1>4, RollTurns, PublicationStep
<1> QED BY <1>3, <1>4

-----------------------------------------------------------------------------
(* The other steps, and the whole next-state relation                       *)

LEMMA PlanStep ==
    ASSUME IInv, NEW p \in Procs, Plan(p)
    PROVE  IInv'
<1>1. PICK c \in Cmds, i \in Ids, at \in Places :
        job' = [job EXCEPT ![p] = [NoJob EXCEPT !.cmd = c, !.id = i, !.place = at,
                                                !.pc = "planned", !.seen = registry]]
  BY DEF Plan
<1> DEFINE r == [NoJob EXCEPT !.cmd = c, !.id = i, !.place = at, !.pc = "planned", !.seen = registry]
<1>2. Shape(NoJob) /\ "planned" \in Running \cup Ended \cup {"idle"} /\ registry \in Registries
  BY DEF NoJob, Shape, Jobs, Registries, Ended, Running, IInv
<1>3. /\ r.pc = "planned" /\ r.id = i /\ r.place = at
      /\ Shape(r)
  BY <1>2 DEF Jobs, Shape
<1>4. UNCHANGED registry /\ job' = [job EXCEPT ![p] = r]
  BY <1>1 DEF Plan, world
<1> HIDE DEF r
<1>5. job'[p] = r
  BY <1>4, Shaped
<1>6. Publication(p)' /\ OnePlaceOneProject'
  BY <1>3, <1>4, <1>5 DEF Publication, InPublication, IInv, OnePlaceOneProject
<1>7. r.pc \notin Locked
  BY <1>3 DEF Locked
<1> QED BY <1>3, <1>4, <1>6, <1>7, OneCommand DEF IInv

LEMMA CrashStep ==
    ASSUME IInv, NEW p \in Procs, Crash(p)
    PROVE  IInv'
<1>1. Continues(p) /\ job'[p].pc = "dead"
  <2>1. "dead" \in Phases
    BY DEF Phases, Ended
  <2> QED BY <2>1, Moves DEF Crash
<1> QED BY <1>1, Passes DEF Crash, world, Continues, Running, Locked, InPublication

LEMMA UserKeeps ==
    ASSUME IInv, UserEdits \/ UserMoves \/ UNCHANGED vars
    PROVE  IInv'
<1>1. UNCHANGED <<registry, job>>
  BY DEF UserEdits, UserMoves, vars, world
<1> QED BY <1>1 DEF IInv, OnePlaceOneProject, Commands, Exclusive, Holds, Publication, Registered

LEMMA NextKeeps ==
    ASSUME IInv, [Next]_vars
    PROVE  IInv'
BY PlanStep, BeforeLocks, LockSteps, RecheckStep, EntrySteps, PublishSteps, UndoSteps, CrashStep,
   UserKeeps DEF Next

LEMMA InitiallyHolds == Init => IInv
<1> SUFFICES ASSUME Init PROVE IInv
  OBVIOUS
<1>1. registry = [i \in Ids |-> None] /\ job = [p \in Procs |-> NoJob]
  BY DEF Init
<1>2. NoJob.pc = "idle" /\ Shape(NoJob)
  BY DEF NoJob, Shape, Jobs, Ended, Registries
<1>3. "idle" \notin Running \cup Locked \cup InPublication
  BY DEF Running, Locked, InPublication
<1> QED BY <1>1, <1>2, <1>3
        DEF IInv, Registries, OnePlaceOneProject, Commands, Exclusive, Holds, Publication

LEMMA Inductive == Spec => []IInv
<1>1. IInv /\ [Next]_vars => IInv'
  BY NextKeeps
<1> QED BY InitiallyHolds, <1>1, PTL DEF Spec

-----------------------------------------------------------------------------
(* The theorems                                                             *)

\* One command at a time is past the registry lock, whichever commands run, fail
\* or are killed (RegistryLock).
THEOREM LockIsExclusive == Spec => []Exclusive
<1>1. IInv => Exclusive
  BY DEF IInv
<1> QED BY Inductive, <1>1, PTL

\* One directory is never registered for two projects, whatever order inits,
\* clones, releases, removals and relocations come in (registration_conflict.go).
THEOREM OnePlaceOneProjectHolds == Spec => []OnePlaceOneProject
<1>1. IInv => OnePlaceOneProject
  BY DEF IInv
<1> QED BY Inductive, <1>1, PTL

\* A process that changes the registry holds the lock and changes its own entry.
Keeps(p) == \A i \in Ids : registry'[i] # registry[i] => Holds(p) /\ job[p].id = i

LEMMA StepKeepsEntries ==
    ASSUME IInv, NEW p \in Procs, Holds(p),
           \/ UNCHANGED registry
           \/ \E entry : registry' = [registry EXCEPT ![job[p].id] = entry]
           \/ job[p].pc \in InPublication /\ registry' \in {job[p].seen, Registered(job[p])}
    PROVE  Keeps(p)
<1>1. CASE UNCHANGED registry
  BY <1>1 DEF Keeps
<1>2. CASE \E entry : registry' = [registry EXCEPT ![job[p].id] = entry]
  BY <1>2 DEF Keeps, IInv, Registries
<1>3. CASE job[p].pc \in InPublication /\ registry' \in {job[p].seen, Registered(job[p])}
  <2>1. /\ job[p].seen \in Registries
        /\ registry \in {job[p].seen, Registered(job[p])}
    BY <1>3 DEF IInv, Publication
  <2> QED BY <1>3, <2>1 DEF Keeps, Registered, Registries
<1> QED BY <1>1, <1>2, <1>3

\* The registry is one file, written whole: no command changes the entry of another
\* project, by a stale copy or by restoring one in its rollback (init, clone,
\* materialize, reconcileRegistry, project removal).
THEOREM EntriesKeptHolds == Spec => EntriesKept
<1>1. ASSUME IInv, [Next]_vars PROVE UNCHANGED registry \/ \E p \in Procs : Keeps(p)
  <2>1. ASSUME NEW p \in Procs, Remove(p) \/ Reconcile(p) PROVE Keeps(p)
    <3>1. Holds(p) /\ \/ UNCHANGED registry
                      \/ \E entry : registry' = [registry EXCEPT ![job[p].id] = entry]
      BY <2>1 DEF Remove, Reconcile, Holds, Locked
    <3> QED BY <1>1, <3>1, StepKeepsEntries
  <2>2. ASSUME NEW p \in Procs,
               \/ PublishInit(p) \/ PublishClone(p) \/ PublishMaterialize(p)
               \/ UndoTarget(p) \/ RemoveByPath(p)
        PROVE  Keeps(p)
    <3>1. job[p].pc \in InPublication
      BY <2>2 DEF PublishInit, PublishClone, PublishMaterialize, PublishNext, UndoTarget,
                  RemoveByPath, InPublication
    <3>2. registry' \in {registry, job[p].seen, Registered(job[p])}
      BY <2>2 DEF PublishInit, PublishClone, PublishMaterialize, PublishNext, Written, UndoTarget,
                  RemoveByPath, Unwritten, Registered, world
    <3>3. Holds(p)
      BY <3>1 DEF InPublication, Holds, Locked
    <3> QED BY <1>1, <3>1, <3>2, <3>3, StepKeepsEntries
  <2>3. ASSUME NEW p \in Procs,
               \/ Plan(p) \/ StageClone(p) \/ StageMaterialize(p) \/ DiscardClone(p)
               \/ DiscardMaterialize(p) \/ StagingKept(p) \/ LockTimeout(p) \/ Lock(p)
               \/ RecheckFails(p) \/ Recheck(p) \/ ReadBack(p) \/ LastCheckFails(p)
               \/ Published(p) \/ KeepTarget(p) \/ CheckByPath(p) \/ EndRollback(p) \/ Crash(p)
        PROVE  UNCHANGED registry
    BY <2>3 DEF Plan, StageClone, StageMaterialize, DiscardClone, DiscardMaterialize, StagingKept,
                LockTimeout, Lock, RecheckFails, Recheck, ReadBack, LastCheckFails, Published, KeepTarget,
                CheckByPath, EndRollback, Crash, world
  <2>4. CASE UserEdits \/ UserMoves \/ UNCHANGED vars
    BY <2>4 DEF UserEdits, UserMoves, vars, world
  <2> QED BY <1>1, <2>1, <2>2, <2>3, <2>4 DEF Next
<1>2. IInv /\ [Next]_vars => \A i \in Ids : registry'[i] # registry[i] =>
                                \E p \in Procs : Holds(p) /\ job[p].id = i
  BY <1>1 DEF Keeps
<1> QED BY Inductive, <1>2, PTL DEF Spec, EntriesKept

-----------------------------------------------------------------------------
(* What the user has, and what a command takes back                         *)

\* How far a command may say that it ends clean, and what it may remove unseen.
Keeping(j) ==
    /\ j.pc \in {"planned", "staged", "locked", "publishing", "undoing"} =>
         j.end = "refused" /\ (j.cmd = "init" => j.left = {})
    /\ j.pc \in {"planned", "staged", "locked", "publishing"} => j.checked = "none"
    /\ j.pc \in {"planned", "staged", "locked", "undoing"} => j.written = "none"
    /\ j.pc \in InPublication => j.cmd \in Publishers
    /\ j.pc = "undoing" /\ j.checked # "none" => ByPath(j, j.checked)

\* A target of the project is there only while the command has it in hand, or has
\* noted that it stays.
Noted(j, t) == t \in j.owned \/ j.written = t \/ j.failed \/ t \in j.left

Withdrawn(j, reg, st) ==
    j.pc \in InPublication =>
        /\ j.seen[j.id] = None
        /\ reg[j.id] = None \/ Noted(j, "registry")
        /\ st[j.id] = None \/ Noted(j, "state")

Kinds == ({"tree", "base", "config"} \X Places) \cup ({"state"} \X Ids)

\* What the user changed is there.
Disk ==
    /\ tree \in [Places -> {"absent", "base", "group"}]
    /\ config \in [Places -> Ids \cup {None}] /\ state \in [Ids -> Places \cup {None}]
    /\ foreign \subseteq Kinds
    /\ userMoves \in Nat
    /\ \A at \in Places :
         /\ <<"tree", at>> \in foreign => tree[at] = "group"
         /\ <<"base", at>> \in foreign => tree[at] # "absent"
         /\ <<"config", at>> \in foreign => config[at] # None
         /\ tree[at] = "absent" => config[at] = None
    /\ \A i \in Ids : <<"state", i>> \in foreign => state[i] # None

NInv ==
    /\ IInv
    /\ Disk
    /\ \A p \in Procs : Keeping(job[p]) /\ Withdrawn(job[p], registry, state)

\* Another process holds no lock, or nothing it knows of changes.
LEMMA OneJob ==
    ASSUME NInv, IInv', Disk', NEW p \in Procs,
           \A q \in Procs \ {p} : job'[q] = job[q],
           NEW d, d = job'[p], Keeping(d), Withdrawn(d, registry', state'),
           Holds(p) \/ UNCHANGED <<registry, state>>
    PROVE  NInv'
<1>1. ASSUME NEW q \in Procs
      PROVE  Keeping(job'[q]) /\ Withdrawn(job'[q], registry', state')
  <2>1. CASE q = p
    BY <2>1
  <2>2. CASE q # p /\ UNCHANGED <<registry, state>>
    BY <2>2 DEF NInv
  <2>3. CASE q # p /\ Holds(p)
    <3>1. ~Holds(q)
      BY <2>3, Alone DEF NInv
    <3>2. job'[q] = job[q] /\ job[q].pc \notin InPublication
      BY <2>3, <3>1 DEF Holds, Locked, InPublication
    <3> QED BY <3>2 DEF NInv, Withdrawn
  <2> QED BY <2>1, <2>2, <2>3
<1>2. ASSUME NEW q \in Procs PROVE (Keeping(job[q]) /\ Withdrawn(job[q], registry, state))'
  <2>1. Keeping(job'[q]) /\ Withdrawn(job'[q], registry', state')
    BY <1>1
  <2> QED BY ONLY <2>1 DEF Keeping, Withdrawn
<1> QED BY <1>2 DEF NInv

\* A command that is not publishing has nothing to take back.
Rests(j) ==
    /\ j.pc \notin InPublication
    /\ j.pc \in {"planned", "staged", "locked"} =>
         /\ j.end = "refused" /\ j.checked = "none" /\ j.written = "none"
         /\ j.cmd = "init" => j.left = {}

LEMMA RestKeeps ==
    ASSUME NInv, IInv', Disk', NEW p \in Procs,
           \A q \in Procs \ {p} : job'[q] = job[q], Rests(job'[p]),
           Holds(p) \/ UNCHANGED <<registry, state>>
    PROVE  NInv'
<1>1. PICK d : d = job'[p]
  OBVIOUS
<1>2. Keeping(d) /\ Withdrawn(d, registry', state')
  BY <1>1 DEF Rests, Keeping, Withdrawn, InPublication
<1> QED BY <1>1, <1>2, OneJob

\* The job of p alone changes.
LEMMA Alters ==
    ASSUME IInv, NEW p \in Procs, NEW r, job' = [job EXCEPT ![p] = r]
    PROVE  job'[p] = r /\ \A q \in Procs \ {p} : job'[q] = job[q]
BY Shaped

LEMMA FailsRests ==
    ASSUME IInv, NEW p \in Procs, job' = Fails(p, "refused")
    PROVE  Rests(job'[p]) /\ \A q \in Procs \ {p} : job'[q] = job[q]
<1>1. job'[p].pc \in {"discarding", "refused"} /\ \A q \in Procs \ {p} : job'[q] = job[q]
  BY FailsTyped, Shaped DEF Fails
<1> QED BY <1>1 DEF Rests, InPublication

LEMMA RestSteps ==
    ASSUME NInv, NEW p \in Procs,
           \/ Plan(p) \/ StageClone(p) \/ StageMaterialize(p) \/ DiscardClone(p)
           \/ DiscardMaterialize(p) \/ StagingKept(p) \/ LockTimeout(p) \/ Lock(p)
           \/ RecheckFails(p) \/ Remove(p) \/ Reconcile(p) \/ Published(p)
           \/ EndRollback(p) \/ Crash(p)
    PROVE  Rests(job'[p]) /\ \A q \in Procs \ {p} : job'[q] = job[q]
<1>1. IInv /\ Keeping(job[p])
  BY DEF NInv
<1>2. CASE Plan(p)
  <2>1. PICK c \in Cmds, i \in Ids, at \in Places :
          job' = [job EXCEPT ![p] = [NoJob EXCEPT !.cmd = c, !.id = i, !.place = at,
                                                  !.pc = "planned", !.seen = registry]]
    BY <1>2 DEF Plan
  <2> DEFINE r == [NoJob EXCEPT !.cmd = c, !.id = i, !.place = at, !.pc = "planned", !.seen = registry]
  <2>2. r.pc = "planned" /\ r.end = "refused" /\ r.checked = "none" /\ r.written = "none" /\ r.left = {}
    BY DEF NoJob
  <2>3. job' = [job EXCEPT ![p] = r]
    BY <2>1
  <2> HIDE DEF r
  <2>4. job'[p] = r /\ \A q \in Procs \ {p} : job'[q] = job[q]
    BY <1>1, <2>3, Alters
  <2> QED BY <2>2, <2>4 DEF Rests, InPublication
<1>3. CASE StageClone(p) \/ StageMaterialize(p) \/ Lock(p)
  <2>1. /\ job[p].end = "refused" /\ job[p].checked = "none" /\ job[p].written = "none"
        /\ job[p].cmd = "init" => job[p].left = {}
    BY <1>1, <1>3, SMTT(30) DEF StageClone, StageMaterialize, Lock, ReadyToLock, Keeping
  <2>2. \/ \E pc \in {"staged", "refused", "locked", "discarding"} :
             \/ job' = [job EXCEPT ![p].pc = pc]
             \/ job' = [job EXCEPT ![p].pc = pc, ![p].staging = TRUE]
        \/ job' = [job EXCEPT ![p].pc = "discarding", ![p].staging = TRUE, ![p].end = "clean"]
    BY <1>3 DEF StageClone, StageMaterialize, Lock
  <2>3. CASE \E pc \in {"staged", "refused", "locked", "discarding"} :
               \/ job' = [job EXCEPT ![p].pc = pc]
               \/ job' = [job EXCEPT ![p].pc = pc, ![p].staging = TRUE]
    <3>1. PICK pc \in {"staged", "refused", "locked", "discarding"} :
            /\ job'[p].pc = pc /\ job'[p].end = job[p].end /\ job'[p].checked = job[p].checked
            /\ job'[p].written = job[p].written /\ job'[p].left = job[p].left /\ job'[p].cmd = job[p].cmd
            /\ \A q \in Procs \ {p} : job'[q] = job[q]
      BY <1>1, <2>3, Shaped DEF Shape, Jobs
    <3> QED BY <2>1, <3>1 DEF Rests, InPublication
  <2>4. CASE job' = [job EXCEPT ![p].pc = "discarding", ![p].staging = TRUE, ![p].end = "clean"]
    <3>1. job'[p].pc = "discarding" /\ \A q \in Procs \ {p} : job'[q] = job[q]
      BY <1>1, <2>4, Shaped DEF Shape, Jobs
    <3> QED BY <3>1 DEF Rests, InPublication
  <2> QED BY <2>2, <2>3, <2>4
<1>4. CASE LockTimeout(p) \/ RecheckFails(p)
  BY <1>1, <1>4, FailsRests DEF LockTimeout, RecheckFails
<1>5. ASSUME NEW pc \in Ended \cup {"discarding"}, NEW staging, NEW end,
             \/ job' = [job EXCEPT ![p].pc = pc]
             \/ job' = [job EXCEPT ![p].pc = pc, ![p].staging = staging]
             \/ job' = [job EXCEPT ![p].pc = pc, ![p].end = end]
             \/ Becomes(p, [job[p] EXCEPT !.pc = pc])
             \/ Becomes(p, [job[p] EXCEPT !.pc = pc, !.end = end])
      PROVE  Rests(job'[p]) /\ \A q \in Procs \ {p} : job'[q] = job[q]
  <2> DEFINE To == job'[p].pc = pc /\ \A q \in Procs \ {p} : job'[q] = job[q]
  <2>1. ASSUME \/ job' = [job EXCEPT ![p].pc = pc]
               \/ job' = [job EXCEPT ![p].pc = pc, ![p].staging = staging]
               \/ job' = [job EXCEPT ![p].pc = pc, ![p].end = end]
        PROVE  To
    BY <1>1, <2>1, Shaped DEF Shape, Jobs
  <2>2. ASSUME \/ Becomes(p, [job[p] EXCEPT !.pc = pc])
               \/ Becomes(p, [job[p] EXCEPT !.pc = pc, !.end = end])
        PROVE  To
    BY <1>1, <2>2, Shaped DEF Shape, Jobs, Becomes
  <2>3. To
    BY <1>5, <2>1, <2>2, Zenon
  <2> QED BY <2>3 DEF Rests, InPublication, Ended
<1>6. CASE DiscardClone(p) \/ StagingKept(p) \/ Crash(p) \/ Remove(p) \/ Reconcile(p)
  <2>1. PICK pc \in Ended : \/ job' = [job EXCEPT ![p].pc = pc]
                            \/ job' = [job EXCEPT ![p].pc = pc, ![p].staging = FALSE]
                            \/ Becomes(p, [job[p] EXCEPT !.pc = pc])
    BY <1>6 DEF DiscardClone, StagingKept, Crash, Remove, Reconcile, Ended
  <2> QED BY <1>5, <2>1, Zenon
<1>7. CASE DiscardMaterialize(p)
  <2>1. job[p].end \in Ended
    BY <1>1, Shaped DEF Shape, Jobs
  <2> QED BY <1>5, <1>7, <2>1 DEF DiscardMaterialize
<1>8. CASE Published(p) \/ EndRollback(p)
  <2>1. PICK pc \in Ended \cup {"discarding"}, end \in Ended :
          \/ job' = [job EXCEPT ![p].pc = pc, ![p].end = end]
          \/ Becomes(p, [job[p] EXCEPT !.pc = pc, !.end = end])
    BY <1>8, ZenonT(60) DEF Published, EndRollback, Ended
  <2> QED BY <1>5, <2>1
<1> QED BY <1>2, <1>3, <1>4, <1>6, <1>7, <1>8

-----------------------------------------------------------------------------
(* The steps of a publication and of its rollback                           *)

\* What a step does to a job in publication leaves its plan alone.
LEMMA JobSteps ==
    ASSUME NInv, NEW p \in Procs,
           \/ Recheck(p) \/ PublishInit(p) \/ PublishClone(p) \/ PublishMaterialize(p)
           \/ ReadBack(p) \/ LastCheckFails(p)
           \/ KeepTarget(p) \/ UndoTarget(p) \/ CheckByPath(p) \/ RemoveByPath(p)
    PROVE  /\ Holds(p) /\ job[p].cmd \in Publishers /\ job[p].end = "refused"
           /\ job[p].id \in Ids /\ job[p].place \in Places
           /\ Shape(job[p]) /\ job = [q \in Procs |-> job[q]]
<1>1. job[p].pc \in Locked /\ (job[p].pc = "locked" => job[p].cmd \in Publishers)
  BY DEF Recheck, PublishInit, PublishClone, PublishMaterialize, PublishNext, ReadBack,
         LastCheckFails, KeepTarget, UndoTarget, CheckByPath, RemoveByPath, Locked
<1>2. IInv /\ Keeping(job[p])
  BY DEF NInv
<1>3. job[p].cmd \in Publishers /\ job[p].end = "refused" /\ job[p].pc \in Running
  BY <1>1, <1>2 DEF Keeping, Locked, InPublication, Running
<1>4. job[p].id \in Ids /\ job[p].place \in Places
  BY <1>2, <1>3 DEF IInv, Commands
<1> QED BY <1>1, <1>2, <1>3, <1>4, Shaped DEF Holds

\* The recheck under the lock finds neither an entry nor a state of the project.
LEMMA RecheckKeepsJob ==
    ASSUME NInv, NEW p \in Procs, Recheck(p)
    PROVE  /\ \A q \in Procs \ {p} : job'[q] = job[q]
           /\ \E d : d = job'[p] /\ Keeping(d) /\ Withdrawn(d, registry', state')
<1>1. /\ job[p].cmd \in Publishers /\ job[p].end = "refused" /\ job[p].id \in Ids
      /\ Shape(job[p]) /\ job = [q \in Procs |-> job[q]] /\ Keeping(job[p])
  BY JobSteps DEF NInv
<1>2. job[p].pc = "locked" /\ PlanHolds(job[p]) /\ UNCHANGED <<registry, state>>
  BY DEF Recheck, world
<1>3. registry[job[p].id] = None /\ state[job[p].id] = None
  BY <1>1, <1>2 DEF PlanHolds, Publishers, InitHolds, CloneHolds, CloneAllowed,
                    RegistryAdmitsClone, MaterializeHolds, MaterializeAllowed
<1>4. job[p].checked = "none" /\ job[p].written = "none" /\ (job[p].cmd = "init" => job[p].left = {})
  BY <1>1, <1>2 DEF Keeping
<1>5. job' = [job EXCEPT ![p].pc = "publishing", ![p].seen = registry]
  BY DEF Recheck
<1>6. PICK d : d = [job[p] EXCEPT !.pc = "publishing", !.seen = registry]
  OBVIOUS
<1>7. job'[p] = d /\ \A q \in Procs \ {p} : job'[q] = job[q]
  BY <1>1, <1>5, <1>6
<1>8. /\ d.pc = "publishing" /\ d.seen = registry /\ d.id = job[p].id /\ d.end = "refused"
      /\ d.checked = "none" /\ d.written = "none" /\ d.cmd \in Publishers
      /\ d.cmd = "init" => d.left = {}
  BY <1>1, <1>4, <1>6 DEF Shape, Jobs
<1>9. Keeping(d) /\ Withdrawn(d, registry', state')
  BY <1>2, <1>3, <1>8 DEF Keeping, Withdrawn
<1> QED BY <1>7, <1>9

\* What a job keeps when it goes on.
Same(c, d) ==
    d.id = c.id /\ d.seen = c.seen /\ d.end = c.end /\ d.checked = c.checked /\ d.cmd = c.cmd

\* The fields of a job that publishes.
LEMMA AdvanceFields ==
    ASSUME NEW c, Shape(c)
    PROVE  /\ \A quiet : LET d == PublicationFails(c, quiet) IN
                /\ Same(c, d) /\ d.pc = "undoing" /\ d.written = "none"
                /\ d.owned = c.owned /\ d.left = c.left /\ d.failed = c.failed
           /\ \A t : LET d == Owning(c, t) IN
                /\ Same(c, d) /\ d.pc = c.pc /\ d.written = "none"
                /\ d.owned = c.owned \cup {t} /\ d.left = c.left /\ d.failed = c.failed
           /\ \A t : LET d == [c EXCEPT !.written = t] IN
                /\ Same(c, d) /\ d.pc = c.pc /\ d.written = t
                /\ d.owned = c.owned /\ d.left = c.left /\ d.failed = c.failed
BY DEF Shape, Jobs, Same, PublicationFails, Owning

LEMMA NoReceiptFields ==
    ASSUME NEW c, Shape(c), NEW said \in BOOLEAN, NEW d, d = NoReceipt(c, said)
    PROVE  /\ Same(c, d) /\ d.pc = "undoing" /\ d.written = "none" /\ d.owned = c.owned
           /\ c.failed => d.failed
           /\ c.left \subseteq d.left
           /\ said => d.left = c.left
           /\ c.written # "config" => d.failed \/ c.written \in d.left
<1>1. PICK r : r = PublicationFails(c, ~said)
  OBVIOUS
<1>2. /\ Same(c, r) /\ r.pc = "undoing" /\ r.written = "none"
      /\ r.owned = c.owned /\ r.left = c.left /\ r.failed = c.failed
  BY <1>1, AdvanceFields
<1>3. SamePlan(c, r)
  BY <1>1, Reshaped
<1>4. PICK gone : gone = (c.written = "config" /\ config[c.place] = None)
  OBVIOUS
<1>5. d = [r EXCEPT !.failed = r.failed \/ (said /\ ~gone),
                    !.left = IF said \/ gone THEN r.left ELSE r.left \cup {c.written}]
  BY <1>1, <1>4 DEF NoReceipt
<1>6. PICK failed : failed = (r.failed \/ (said /\ ~gone))
  OBVIOUS
<1>7. PICK left : left = IF said \/ gone THEN r.left ELSE r.left \cup {c.written}
  OBVIOUS
<1>8. d = [r EXCEPT !.failed = failed, !.left = left]
  BY <1>5, <1>6, <1>7
<1>9. /\ Same(r, d) /\ d.pc = r.pc /\ d.written = r.written /\ d.owned = r.owned
      /\ d.failed = failed /\ d.left = left
  BY <1>3, <1>8 DEF SamePlan, Shape, Jobs, Same
<1>10. (c.failed => failed) /\ c.left \subseteq left /\ (said => left = c.left)
  BY <1>2, <1>6, <1>7
<1>11. c.written # "config" => failed \/ c.written \in left
  BY <1>4, <1>6, <1>7
<1> QED BY <1>2, <1>9, <1>10, <1>11 DEF Same

\* What a step of a publication does to the files, and to the job.
Outcome(c, d) ==
    \/ /\ UNCHANGED <<registry, state>>
       /\ \E quiet : d = PublicationFails(c, quiet)
    \/ /\ UNCHANGED <<registry, state>>
       /\ d = Owning(c, "tree") \/ d = PublicationFails(Owning(c, "tree"), FALSE)
    \/ \E t : Written(c, t) /\ d = [c EXCEPT !.written = t]

Reading(c, d) ==
    /\ UNCHANGED <<registry, state>>
    /\ \/ d = Owning(c, c.written) \/ d = PublicationFails(Owning(c, c.written), FALSE)
       \/ \E said \in BOOLEAN : d = NoReceipt(c, said) /\ (c.cmd = "init" => said)

LEMMA PublishOutcome ==
    ASSUME NEW p \in Procs,
           PublishInit(p) \/ PublishClone(p) \/ PublishMaterialize(p) \/ LastCheckFails(p)
    PROVE  job[p].written = "none" /\ \E d : Becomes(p, d) /\ Outcome(job[p], d)
<1>1. ASSUME NEW admitted, NEW quiets, PublishNext(p, admitted, quiets)
      PROVE  job[p].written = "none" /\ \E d : Becomes(p, d) /\ Outcome(job[p], d)
  <2>1. PICK t : t = NextTarget(job[p])
    OBVIOUS
  <2>2. \/ UNCHANGED world /\ \E quiet : Becomes(p, PublicationFails(job[p], quiet))
        \/ /\ Written(job[p], t)
           /\ Becomes(p, IF t = "tree" THEN Owning(job[p], t) ELSE [job[p] EXCEPT !.written = t])
        \/ t = "tree" /\ Written(job[p], t) /\ Becomes(p, PublicationFails(Owning(job[p], t), FALSE))
    BY <1>1, <2>1, Zenon DEF PublishNext
  <2>3. UNCHANGED world => UNCHANGED <<registry, state>>
    BY DEF world
  <2>4. Written(job[p], "tree") => UNCHANGED <<registry, state>>
    BY DEF Written
  <2>5. job[p].written = "none"
    BY <1>1 DEF PublishNext
  <2>6. CASE t = "tree"
    BY <2>2, <2>3, <2>4, <2>5, <2>6, Zenon DEF Outcome
  <2>7. CASE t # "tree"
    BY <2>2, <2>3, <2>5, <2>7, Zenon DEF Outcome
  <2> QED BY <2>6, <2>7
<1>2. CASE PublishInit(p) \/ PublishClone(p) \/ PublishMaterialize(p)
  <2>1. \E admitted, quiets : PublishNext(p, admitted, quiets)
    BY <1>2, Zenon DEF PublishInit, PublishClone, PublishMaterialize
  <2> QED BY <1>1, <2>1, Zenon
<1>3. CASE LastCheckFails(p)
  <2>1. UNCHANGED <<registry, state>> /\ Becomes(p, PublicationFails(job[p], TRUE)) /\ job[p].written = "none"
    BY <1>3 DEF LastCheckFails, world
  <2> QED BY <2>1, Zenon DEF Outcome
<1> QED BY <1>2, <1>3

LEMMA ReadBackOutcome ==
    ASSUME NEW p \in Procs, ReadBack(p)
    PROVE  job[p].written # "none" /\ \E d : Becomes(p, d) /\ Reading(job[p], d)
<1>1. UNCHANGED <<registry, state>> /\ job[p].written # "none"
  BY DEF ReadBack
<1>2. \/ Becomes(p, Owning(job[p], job[p].written))
      \/ Becomes(p, PublicationFails(Owning(job[p], job[p].written), FALSE))
      \/ Becomes(p, NoReceipt(job[p], job[p].cmd = "init"))
      \/ Becomes(p, NoReceipt(job[p], job[p].cmd \in {"init", "clone"}))
  BY Zenon DEF ReadBack
<1>3. /\ (job[p].cmd = "init") \in BOOLEAN /\ (job[p].cmd \in {"init", "clone"}) \in BOOLEAN
      /\ job[p].cmd = "init" => job[p].cmd \in {"init", "clone"}
  OBVIOUS
<1> QED BY <1>1, <1>2, <1>3, Zenon DEF Reading

\* What the job still says of the targets it had in hand.
Carried(c, d) ==
    /\ Same(c, d) /\ d.pc \in InPublication
    /\ d.pc = "undoing" => d.written = "none"
    /\ c.cmd = "init" => d.left = {}
    /\ c.owned \subseteq d.owned /\ c.left \subseteq d.left /\ (c.failed => d.failed)
    /\ \/ c.written \in {"none", "config"} \/ c.written \in d.owned \/ d.failed
       \/ c.written \in d.left

LEMMA CarriedNoted ==
    ASSUME NEW c, NEW d, Carried(c, d), NEW t \in {"registry", "state"}, Noted(c, t)
    PROVE  Noted(d, t)
BY DEF Carried, Noted

LEMMA OutcomeCarries ==
    ASSUME NEW c, Shape(c), c.pc = "publishing", c.cmd = "init" => c.left = {}, NEW d,
           \/ Outcome(c, d) /\ c.written = "none"
           \/ Reading(c, d)
    PROVE  Carried(c, d) /\ (UNCHANGED <<registry, state>> \/ Written(c, d.written))
<1>1. ASSUME NEW quiet, d = PublicationFails(c, quiet), c.written = "none"
      PROVE  Carried(c, d)
  BY <1>1, AdvanceFields DEF Carried, InPublication
<1>2. ASSUME NEW t, d = [c EXCEPT !.written = t], c.written = "none"
      PROVE  Carried(c, d) /\ d.written = t
  BY <1>2, AdvanceFields DEF Carried, InPublication
<1>3. ASSUME NEW t, d = Owning(c, t), c.written \in {"none", t}
      PROVE  Carried(c, d)
  BY <1>3, AdvanceFields DEF Carried, InPublication
<1>4. ASSUME NEW t, d = PublicationFails(Owning(c, t), FALSE), c.written \in {"none", t}
      PROVE  Carried(c, d)
  <2>1. PICK o : o = Owning(c, t)
    OBVIOUS
  <2>2. Shape(o)
    BY <2>1, Reshaped DEF SamePlan
  <2>3. /\ Same(c, o) /\ o.owned = c.owned \cup {t} /\ o.left = c.left /\ o.failed = c.failed
    BY <2>1, AdvanceFields
  <2>4. PICK quiet : d = PublicationFails(o, quiet)
    BY <1>4, <2>1
  <2>5. /\ Same(o, d) /\ d.pc = "undoing" /\ d.written = "none"
        /\ d.owned = o.owned /\ d.left = o.left /\ d.failed = o.failed
    BY ONLY <2>2, <2>4, AdvanceFields
  <2> QED BY <1>4, <2>3, <2>5 DEF Carried, InPublication, Same
<1>5. ASSUME NEW said \in BOOLEAN, d = NoReceipt(c, said), c.cmd = "init" => said
      PROVE  Carried(c, d)
  BY <1>5, NoReceiptFields DEF Carried, InPublication
<1>6. CASE Outcome(c, d) /\ c.written = "none"
  BY <1>1, <1>2, <1>3, <1>4, <1>6, Zenon DEF Outcome
<1>7. CASE Reading(c, d)
  BY <1>3, <1>4, <1>5, <1>7, Zenon DEF Reading
<1> QED BY <1>6, <1>7

\* A target that is written is in hand, owned, or noted.
LEMMA PublishKeepsJob ==
    ASSUME NInv, NEW p \in Procs,
           \/ PublishInit(p) \/ PublishClone(p) \/ PublishMaterialize(p) \/ ReadBack(p)
           \/ LastCheckFails(p)
    PROVE  /\ \A q \in Procs \ {p} : job'[q] = job[q]
           /\ \E d : d = job'[p] /\ Keeping(d) /\ Withdrawn(d, registry', state')
<1>1. PICK c : c = job[p]
  OBVIOUS
<1>2. /\ c.cmd \in Publishers /\ c.end = "refused" /\ c.id \in Ids
      /\ Shape(c) /\ job = [q \in Procs |-> job[q]] /\ Keeping(c) /\ Withdrawn(c, registry, state)
  BY <1>1, JobSteps DEF NInv
<1>3. c.pc = "publishing"
  BY <1>1 DEF PublishInit, PublishClone, PublishMaterialize, PublishNext, ReadBack, LastCheckFails
<1>4. c.checked = "none" /\ (c.cmd = "init" => c.left = {})
  BY <1>2, <1>3 DEF Keeping
<1>5. PICK d : Becomes(p, d) /\ ((Outcome(c, d) /\ c.written = "none") \/ Reading(c, d))
  BY <1>1, PublishOutcome, ReadBackOutcome, Zenon
<1>6. d = job'[p] /\ \A q \in Procs \ {p} : job'[q] = job[q]
  BY <1>2, <1>5 DEF Becomes
<1>7. /\ c.seen[c.id] = None
      /\ registry[c.id] = None \/ Noted(c, "registry")
      /\ state[c.id] = None \/ Noted(c, "state")
  BY <1>2, <1>3 DEF Withdrawn, InPublication
<1>8. Carried(c, d) /\ (UNCHANGED <<registry, state>> \/ Written(c, d.written))
  BY <1>2, <1>3, <1>4, <1>5, OutcomeCarries, Zenon
<1>9. /\ registry'[c.id] = None \/ Noted(d, "registry")
      /\ state'[c.id] = None \/ Noted(d, "state")
  <2>1. Noted(c, "registry") => Noted(d, "registry")
    BY <1>8, CarriedNoted
  <2>2. Noted(c, "state") => Noted(d, "state")
    BY <1>8, CarriedNoted
  <2>3. registry' = registry \/ d.written = "registry"
    BY <1>8 DEF Written
  <2>4. state' = state \/ d.written = "state"
    BY <1>8 DEF Written
  <2>5. (d.written = "registry" => Noted(d, "registry")) /\ (d.written = "state" => Noted(d, "state"))
    BY DEF Noted
  <2> QED BY <1>7, <2>1, <2>2, <2>3, <2>4, <2>5
<1>10. Keeping(d)
  BY <1>2, <1>3, <1>4, <1>8 DEF Keeping, InPublication, Same, Carried
<1>11. Withdrawn(d, registry', state')
  BY <1>7, <1>8, <1>9 DEF Withdrawn, Same, Carried
<1> QED BY <1>6, <1>10, <1>11

\* Rollback gives up an owned target when it is undone, or notes that it stays.
LEMMA RollbackKeepsJob ==
    ASSUME NInv, NEW p \in Procs,
           KeepTarget(p) \/ UndoTarget(p) \/ CheckByPath(p) \/ RemoveByPath(p)
    PROVE  /\ \A q \in Procs \ {p} : job'[q] = job[q]
           /\ \E d : d = job'[p] /\ d.pc = "undoing" /\ Keeping(d) /\ Withdrawn(d, registry', state')
<1>1. PICK c : c = job[p]
  OBVIOUS
<1>2. /\ c.cmd \in Publishers /\ c.end = "refused" /\ c.id \in Ids
      /\ Shape(c) /\ job = [q \in Procs |-> job[q]] /\ Keeping(c) /\ Withdrawn(c, registry, state)
  BY <1>1, JobSteps DEF NInv
<1>3. c.pc = "undoing"
  BY <1>1 DEF KeepTarget, UndoTarget, CheckByPath, RemoveByPath
<1>4. /\ c.written = "none" /\ (c.cmd = "init" => c.left = {})
      /\ c.checked # "none" => ByPath(c, c.checked)
  BY <1>2, <1>3 DEF Keeping
<1>5. /\ c.seen[c.id] = None
      /\ registry[c.id] = None \/ Noted(c, "registry")
      /\ state[c.id] = None \/ Noted(c, "state")
  BY <1>2, <1>3 DEF Withdrawn, InPublication
<1>6. state \in [Ids -> Places \cup {None}] /\ c.failed \in BOOLEAN
  BY <1>2 DEF NInv, Disk, Shape, Jobs
<1>7. ASSUME NEW owned, NEW checked, NEW failed, NEW left,
             RollsTo(p, owned, checked, failed, left),
             c.cmd = "init" => left = {},
             checked # "none" => ByPath(c, checked),
             \/ registry'[c.id] = None
             \/ "registry" \in owned \/ failed \/ "registry" \in left,
             state'[c.id] = None \/ "state" \in owned \/ failed \/ "state" \in left
      PROVE  /\ \A q \in Procs \ {p} : job'[q] = job[q]
             /\ \E d : d = job'[p] /\ d.pc = "undoing" /\ Keeping(d) /\ Withdrawn(d, registry', state')
  <2>1. PICK d : d = [c EXCEPT !.owned = owned, !.checked = checked, !.failed = failed, !.left = left]
    OBVIOUS
  <2>2. d = job'[p] /\ \A q \in Procs \ {p} : job'[q] = job[q]
    BY <1>1, <1>2, <1>7, <2>1 DEF RollsTo, Becomes
  <2>3. /\ d.id = c.id /\ d.seen = c.seen /\ d.end = c.end /\ d.cmd = c.cmd /\ d.pc = c.pc
        /\ d.written = c.written /\ d.owned = owned /\ d.checked = checked
        /\ d.failed = failed /\ d.left = left
    BY ONLY <1>2, <2>1 DEF Shape, Jobs
  <2>4. Withdrawn(d, registry', state')
    BY <1>5, <1>7, <2>3 DEF Withdrawn, Noted
  <2>5. Keeping(d)
    BY <1>2, <1>3, <1>4, <1>7, <2>3 DEF Keeping, ByPath
  <2> QED BY <1>3, <2>2, <2>3, <2>4, <2>5
<1>8. CASE KeepTarget(p)
  <2>0. PICK t \in UndoNext(c), silent \in BOOLEAN :
          /\ silent => c.cmd = "clone"
          /\ \E failed \in BOOLEAN : \E left :
               /\ RollsTo(p, c.owned \ {t}, "none", failed, left)
               /\ failed = (c.failed \/ ~silent)
               /\ left = IF silent THEN c.left \cup {t} ELSE c.left
    BY <1>1, <1>2, <1>8, RollSteps, ZenonT(40)
  <2>1. PICK failed, left :
          /\ silent => c.cmd = "clone"
          /\ RollsTo(p, c.owned \ {t}, "none", failed, left)
          /\ failed = (c.failed \/ ~silent)
          /\ left = IF silent THEN c.left \cup {t} ELSE c.left
    BY <2>0
  <2>2. UNCHANGED <<registry, state>>
    BY <1>8 DEF KeepTarget
  <2>3. c.cmd = "init" => left = {}
    BY <1>4, <2>1
  <2>4. ASSUME NEW target, Noted(c, target), target # "none"
        PROVE  target \in c.owned \ {t} \/ failed \/ target \in left
    BY <1>4, <2>1, <2>4 DEF Noted
  <2>5. /\ registry'[c.id] = None \/ "registry" \in c.owned \ {t} \/ failed \/ "registry" \in left
        /\ state'[c.id] = None \/ "state" \in c.owned \ {t} \/ failed \/ "state" \in left
    BY <1>5, <2>2, <2>4
  <2> QED BY <1>7, <2>1, <2>3, <2>5
<1>9. ASSUME NEW target, Noted(c, target), target # "none"
      PROVE  target \in c.owned \/ c.failed \/ target \in c.left
  BY <1>4, <1>9 DEF Noted
<1>10. ASSUME NEW t, Unwritten(c, t)
       PROVE  /\ \/ registry'[c.id] = None
                 \/ "registry" \in c.owned \ {t} \/ c.failed \/ "registry" \in c.left
              /\ state'[c.id] = None \/ "state" \in c.owned \ {t} \/ c.failed \/ "state" \in c.left
  <2>1. /\ registry' = IF t = "registry" THEN c.seen ELSE registry
        /\ state' = IF t = "state" THEN [state EXCEPT ![c.id] = None] ELSE state
    BY <1>10 DEF Unwritten
  <2> QED BY <1>2, <1>5, <1>6, <1>9, <2>1
<1>11. CASE UndoTarget(p)
  <2>1. PICK t \in UndoNext(c) :
          /\ ~ByPath(c, t) /\ Unwritten(c, t)
          /\ RollsTo(p, c.owned \ {t}, c.checked, c.failed, c.left)
    BY <1>1, <1>2, <1>11, RollSteps
  <2> QED BY <1>4, <1>7, <1>10, <2>1
<1>12. CASE CheckByPath(p)
  <2>1. PICK t : ByPath(c, t) /\ RollsTo(p, c.owned, t, c.failed, c.left)
    BY <1>1, <1>2, <1>12, RollSteps
  <2>2. UNCHANGED <<registry, state>>
    BY <1>12 DEF CheckByPath, world
  <2>3. /\ registry'[c.id] = None \/ "registry" \in c.owned \/ c.failed \/ "registry" \in c.left
        /\ state'[c.id] = None \/ "state" \in c.owned \/ c.failed \/ "state" \in c.left
    BY <1>5, <1>9, <2>2
  <2> QED BY <1>4, <1>7, <2>1, <2>3
<1>13. CASE RemoveByPath(p)
  <2>1. RollsTo(p, c.owned \ {c.checked}, "none", c.failed, c.left) /\ Unwritten(c, c.checked)
    BY <1>1, <1>2, <1>13, RollSteps DEF RemoveByPath
  <2> QED BY <1>4, <1>7, <1>10, <2>1
<1> QED BY <1>8, <1>11, <1>12, <1>13

-----------------------------------------------------------------------------
(* What is on disk                                                          *)

\* The content of what the user changed is kept, place by place.
AllKept ==
    /\ \A at \in Places : /\ <<"tree", at>> \in foreign => tree'[at] = tree[at]
                          /\ <<"base", at>> \in foreign => tree'[at] # "absent"
                          /\ <<"config", at>> \in foreign => config'[at] = config[at]
    /\ \A i \in Ids : <<"state", i>> \in foreign => state'[i] = state[i]

LEMMA KeptEach ==
    ASSUME foreign \subseteq Kinds, AllKept, NEW k \in foreign
    PROVE  ContentKept(k)
<1>1. CASE k \in {"tree", "base", "config"} \X Places
  <2>1. PICK what \in {"tree", "base", "config"}, at \in Places : k = <<what, at>>
    BY <1>1
  <2>2. k[1] = what /\ k[2] = at /\ <<what, at>> \in foreign
    BY <2>1
  <2> QED BY <2>2 DEF AllKept, ContentKept
<1>2. CASE k \in {"state"} \X Ids
  <2>1. PICK i \in Ids : k = <<"state", i>>
    BY <1>2
  <2>2. k[1] = "state" /\ k[2] = i /\ <<"state", i>> \in foreign
    BY <2>1
  <2> QED BY <2>2 DEF AllKept, ContentKept
<1> QED BY <1>1, <1>2 DEF Kinds

LEMMA DiskStays ==
    ASSUME Disk, UNCHANGED <<tree, config, state, foreign, userMoves>>
    PROVE  Disk' /\ AllKept
BY DEF Disk, AllKept

\* A target is written over nothing, or over the base checkout.
LEMMA WriteKeepsDisk ==
    ASSUME Disk, NEW j, j.id \in Ids, j.place \in Places, NEW t, Replaceable(j, t), Written(j, t),
           UNCHANGED <<foreign, userMoves>>
    PROVE  Disk' /\ AllKept
<1>1. CASE t = "tree" /\ j.cmd = "clone"
  <2>1. /\ tree[j.place] = "absent" /\ tree' = [tree EXCEPT ![j.place] = "group"]
        /\ config' = [config EXCEPT ![j.place] = j.id] /\ UNCHANGED state
    BY <1>1 DEF Replaceable, Written
  <2> QED BY <2>1, RegistryAssumption DEF Disk, AllKept
<1>2. CASE t = "tree" /\ j.cmd # "clone"
  <2>1. /\ tree[j.place] = "base" /\ tree' = [tree EXCEPT ![j.place] = "group"]
        /\ UNCHANGED <<config, state>>
    BY <1>2 DEF Replaceable, Written
  <2> QED BY <2>1 DEF Disk, AllKept
<1>3. CASE t = "config"
  <2>1. /\ config[j.place] = None /\ config' = [config EXCEPT ![j.place] = j.id]
        /\ \/ tree[j.place] # "absent" /\ UNCHANGED tree
           \/ tree[j.place] = "absent" /\ tree' = [tree EXCEPT ![j.place] = "group"]
        /\ UNCHANGED state
    BY <1>3 DEF Replaceable, Written
  <2> QED BY <2>1, RegistryAssumption DEF Disk, AllKept
<1>4. CASE t = "state"
  <2>1. /\ state[j.id] = None /\ state' = [state EXCEPT ![j.id] = j.place] /\ UNCHANGED <<tree, config>>
    BY <1>4 DEF Replaceable, Written
  <2> QED BY <2>1, RegistryAssumption DEF Disk, AllKept
<1>5. CASE t \notin {"tree", "config", "state"}
  <2>1. UNCHANGED <<tree, config, state>>
    BY <1>5 DEF Written
  <2> QED BY <2>1, DiskStays
<1> QED BY <1>1, <1>2, <1>3, <1>4, <1>5

\* A target is taken back only while it is the command's own.
LEMMA UndoKeepsDisk ==
    ASSUME Disk, NEW j, j.id \in Ids, j.place \in Places, NEW t, ~ByPath(j, t),
           ~Changed(j, t), Unwritten(j, t), UNCHANGED <<foreign, userMoves>>
    PROVE  Disk' /\ AllKept
<1>1. CASE t = "tree"
  <2>1. /\ <<"tree", j.place>> \notin foreign /\ tree[j.place] # "absent"
        /\ tree' = [tree EXCEPT ![j.place] = "base"] /\ UNCHANGED <<config, state>>
    BY <1>1 DEF Changed, Key, Unwritten, ByPath
  <2> QED BY <2>1 DEF Disk, AllKept
<1>2. CASE t = "config"
  <2>1. /\ <<"config", j.place>> \notin foreign
        /\ config' = [config EXCEPT ![j.place] = None] /\ UNCHANGED <<tree, state>>
    BY <1>2 DEF Changed, Key, Unwritten
  <2> QED BY <2>1 DEF Disk, AllKept
<1>3. CASE t = "state"
  <2>1. /\ <<"state", j.id>> \notin foreign
        /\ state' = [state EXCEPT ![j.id] = None] /\ UNCHANGED <<tree, config>>
    BY <1>3 DEF Changed, Key, Unwritten
  <2> QED BY <2>1 DEF Disk, AllKept
<1>4. CASE t \notin {"tree", "config", "state"}
  <2>1. UNCHANGED <<tree, config, state>>
    BY <1>4 DEF Unwritten
  <2> QED BY <2>1, DiskStays
<1> QED BY <1>1, <1>2, <1>3, <1>4

\* Nothing the user changed is lost by a step of p, but in what it had compared.
Respects(p) ==
    \A k \in foreign : ContentKept(k) \/ (job[p].pc = "undoing" /\ k \in Exposed(job[p]))

LEMMA KeptRespects ==
    ASSUME Disk, AllKept, NEW p \in Procs
    PROVE  Respects(p)
BY KeptEach DEF Disk, Respects

\* Steps that leave the files of the user's places alone.
LEMMA QuietSteps ==
    ASSUME NInv, NEW p \in Procs,
           \/ Plan(p) \/ StageClone(p) \/ StageMaterialize(p) \/ DiscardClone(p)
           \/ DiscardMaterialize(p) \/ StagingKept(p) \/ LockTimeout(p) \/ Lock(p)
           \/ RecheckFails(p) \/ Recheck(p) \/ Remove(p) \/ Reconcile(p) \/ ReadBack(p)
           \/ LastCheckFails(p) \/ Published(p) \/ KeepTarget(p) \/ CheckByPath(p)
           \/ EndRollback(p) \/ Crash(p)
    PROVE  Disk' /\ Respects(p)
<1>1. UNCHANGED <<tree, config, state, foreign, userMoves>>
  BY DEF Plan, StageClone, StageMaterialize, DiscardClone, DiscardMaterialize, StagingKept,
         LockTimeout, Lock, RecheckFails, Recheck, Remove, Reconcile, ReadBack, LastCheckFails,
         Published, KeepTarget, CheckByPath, EndRollback, Crash, world, user
<1>2. Disk
  BY DEF NInv
<1> QED BY <1>1, <1>2, DiskStays, KeptRespects, SMTT(30)

LEMMA PublishRespects ==
    ASSUME NInv, NEW p \in Procs, PublishInit(p) \/ PublishClone(p) \/ PublishMaterialize(p)
    PROVE  Disk' /\ Respects(p)
<1>1. Disk /\ job[p].id \in Ids /\ job[p].place \in Places
  BY JobSteps DEF NInv
<1>2. UNCHANGED <<foreign, userMoves>>
  BY DEF PublishInit, PublishClone, PublishMaterialize, PublishNext, user
<1>3. \/ UNCHANGED world
      \/ Replaceable(job[p], NextTarget(job[p])) /\ Written(job[p], NextTarget(job[p]))
  BY DEF PublishInit, PublishClone, PublishMaterialize, PublishNext
<1>4. CASE UNCHANGED world
  BY <1>1, <1>2, <1>4, DiskStays, KeptRespects DEF world
<1>5. CASE Replaceable(job[p], NextTarget(job[p])) /\ Written(job[p], NextTarget(job[p]))
  BY <1>1, <1>2, <1>5, WriteKeepsDisk, KeptRespects
<1> QED BY <1>3, <1>4, <1>5

LEMMA UndoRespects ==
    ASSUME NInv, NEW p \in Procs, UndoTarget(p)
    PROVE  Disk' /\ Respects(p)
<1>1. Disk /\ job[p].id \in Ids /\ job[p].place \in Places
  BY JobSteps DEF NInv
<1>2. PICK t : /\ ~ByPath(job[p], t) /\ ~Changed(job[p], t) /\ Unwritten(job[p], t)
               /\ UNCHANGED <<foreign, userMoves>>
  BY DEF UndoTarget, user
<1> QED BY <1>1, <1>2, UndoKeepsDisk, KeptRespects

\* What a clone removes by its path takes with it what the user put there.
LEMMA RemoveRespects ==
    ASSUME NInv, NEW p \in Procs, RemoveByPath(p)
    PROVE  Disk' /\ Respects(p)
<1>1. PICK at \in Places, i \in Ids : at = job[p].place /\ i = job[p].id
  BY JobSteps
<1>2. /\ Disk /\ job[p].cmd = "clone" /\ job[p].pc = "undoing"
      /\ job[p].checked \in {"tree", "state"}
  BY DEF NInv, Keeping, RemoveByPath, ByPath
<1>3. UNCHANGED userMoves /\ foreign' = foreign \ Exposed(job[p]) /\ Unwritten(job[p], job[p].checked)
  BY DEF RemoveByPath
<1>4. CASE job[p].checked = "tree"
  <2>1. /\ tree' = [tree EXCEPT ![at] = "absent"] /\ config' = [config EXCEPT ![at] = None]
        /\ UNCHANGED <<state, userMoves>> /\ foreign' = foreign \ AtPlace(at)
    BY <1>1, <1>2, <1>3, <1>4 DEF Unwritten, Exposed
  <2>2. Disk'
    <3>1. /\ tree' \in [Places -> {"absent", "base", "group"}] /\ config' \in [Places -> Ids \cup {None}]
          /\ foreign' \subseteq Kinds
      BY <1>2, <2>1 DEF Disk
    <3>2. ASSUME NEW other \in Places
          PROVE  /\ <<"tree", other>> \in foreign' => tree'[other] = "group"
                 /\ <<"base", other>> \in foreign' => tree'[other] # "absent"
                 /\ <<"config", other>> \in foreign' => config'[other] # None
                 /\ tree'[other] = "absent" => config'[other] = None
      <4>1. CASE other = at
        BY <1>2, <2>1, <4>1 DEF Disk, AtPlace
      <4>2. CASE other # at
        BY <1>2, <2>1, <4>2 DEF Disk
      <4> QED BY <4>1, <4>2
    <3> QED BY <1>2, <2>1, <3>1, <3>2 DEF Disk
  <2>3. ASSUME NEW k \in foreign PROVE ContentKept(k) \/ k \in AtPlace(at)
    <3>1. CASE k \in {"tree", "base", "config"} \X Places
      <4>1. PICK what \in {"tree", "base", "config"}, other \in Places : k = <<what, other>>
        BY <3>1
      <4>2. k[1] = what /\ k[2] = other /\ <<what, other>> \in foreign
        BY <4>1
      <4>3. CASE other = at
        BY <4>1, <4>3 DEF AtPlace
      <4>4. CASE other # at
        <5>1. tree'[other] = tree[other] /\ config'[other] = config[other]
          BY <1>2, <2>1, <4>4 DEF Disk
        <5>2. <<"base", other>> \in foreign => tree[other] # "absent"
          BY <1>2 DEF Disk
        <5> QED BY <4>2, <5>1, <5>2 DEF ContentKept
      <4> QED BY <4>3, <4>4
    <3>2. CASE k \in {"state"} \X Ids
      BY <2>1, <3>2 DEF ContentKept
    <3> QED BY <1>2, <3>1, <3>2 DEF Disk, Kinds
  <2>4. Exposed(job[p]) = AtPlace(at)
    BY <1>1, <1>4 DEF Exposed
  <2> QED BY <1>2, <2>2, <2>3, <2>4 DEF Respects
<1>5. CASE job[p].checked = "state"
  <2>1. /\ state' = [state EXCEPT ![i] = None] /\ UNCHANGED <<tree, config, userMoves>>
        /\ foreign' = foreign \ {<<"state", i>>}
    BY <1>1, <1>2, <1>3, <1>5 DEF Unwritten, Exposed
  <2>2. Disk'
    BY <1>2, <2>1 DEF Disk
  <2>3. ASSUME NEW k \in foreign PROVE ContentKept(k) \/ k \in {<<"state", i>>}
    <3>1. CASE k \in {"tree", "base", "config"} \X Places
      <4>1. PICK what \in {"tree", "base", "config"}, other \in Places : k = <<what, other>>
        BY <3>1
      <4>2. k[1] = what /\ k[2] = other /\ <<what, other>> \in foreign
        BY <4>1
      <4>3. <<"base", other>> \in foreign => tree[other] # "absent"
        BY <1>2 DEF Disk
      <4> QED BY <2>1, <4>2, <4>3 DEF ContentKept
    <3>2. CASE k \in {"state"} \X Ids
      <4>1. PICK other \in Ids : k = <<"state", other>>
        BY <3>2
      <4>2. k[1] = "state" /\ k[2] = other
        BY <4>1
      <4>3. other = i \/ state'[other] = state[other]
        BY <1>2, <2>1 DEF Disk
      <4> QED BY <4>1, <4>2, <4>3 DEF ContentKept
    <3> QED BY <1>2, <3>1, <3>2 DEF Disk, Kinds
  <2>4. Exposed(job[p]) = {<<"state", i>>}
    BY <1>1, <1>5 DEF Exposed
  <2> QED BY <1>2, <2>2, <2>3, <2>4 DEF Respects
<1> QED BY <1>2, <1>4, <1>5

\* A tree goes to another place.
TreeMoves(p, q) ==
    /\ tree[q] = "absent"
    /\ tree' = [tree EXCEPT ![p] = "absent", ![q] = "group"]
    /\ config' = [config EXCEPT ![p] = None, ![q] = config[p]]
    /\ foreign' = (foreign \ AtPlace(p)) \cup {<<"tree", q>>}

\* The user changes what is there, and may do as he likes with it.
LEMMA UserKeepsDisk ==
    ASSUME Disk, UserEdits \/ UserMoves
    PROVE  Disk' /\ userMoves' # userMoves
<1>1. userMoves' = userMoves + 1 /\ userMoves \in Nat
  BY DEF UserEdits, UserMoves, Disk
<1>2. CASE UserEdits
  <2>1. UNCHANGED <<tree, config, state>>
    BY <1>2 DEF UserEdits, world
  <2>2. PICK p \in Places, i \in Ids :
          \/ tree[p] = "group" /\ foreign' = foreign \cup {<<"tree", p>>}
          \/ tree[p] # "absent" /\ foreign' = foreign \cup {<<"base", p>>}
          \/ config[p] # None /\ foreign' = foreign \cup {<<"config", p>>}
          \/ state[i] # None /\ foreign' = foreign \cup {<<"state", i>>}
    BY <1>2 DEF UserEdits
  <2>3. foreign' \subseteq Kinds
    BY <2>2 DEF Disk, Kinds
  <2> QED BY <1>1, <2>1, <2>2, <2>3 DEF Disk
<1>3. CASE UserMoves
  <2>1. UNCHANGED state
    BY <1>3 DEF UserMoves
  <2>2. PICK p \in Places :
          /\ tree[p] = "group"
          /\ \/ /\ config' = [config EXCEPT ![p] = None]
                /\ foreign' = foreign \ {<<"config", p>>}
                /\ UNCHANGED tree
             \/ /\ tree' = [tree EXCEPT ![p] = "absent"]
                /\ config' = [config EXCEPT ![p] = None]
                /\ foreign' = foreign \ AtPlace(p)
             \/ \E q \in Places : TreeMoves(p, q)
    BY <1>3, Zenon DEF UserMoves, TreeMoves
  <2>3. CASE /\ config' = [config EXCEPT ![p] = None]
             /\ foreign' = foreign \ {<<"config", p>>}
             /\ UNCHANGED tree
    BY <1>1, <2>1, <2>3 DEF Disk
  <2>4. CASE /\ tree' = [tree EXCEPT ![p] = "absent"]
             /\ config' = [config EXCEPT ![p] = None]
             /\ foreign' = foreign \ AtPlace(p)
    BY <1>1, <2>1, <2>4 DEF Disk, AtPlace
  <2>5. ASSUME NEW q \in Places, TreeMoves(p, q)
        PROVE  Disk'
    <3>1. p # q
      BY <2>2, <2>5 DEF TreeMoves
    <3>2. foreign' \subseteq Kinds
      BY <2>5 DEF Disk, Kinds, TreeMoves
    <3>3. ASSUME NEW at \in Places
          PROVE  /\ <<"tree", at>> \in foreign' => tree'[at] = "group"
                 /\ <<"base", at>> \in foreign' => tree'[at] # "absent"
                 /\ <<"config", at>> \in foreign' => config'[at] # None
                 /\ tree'[at] = "absent" => config'[at] = None
      <4>1. CASE at = p
        BY <2>5, <3>1, <4>1 DEF Disk, AtPlace, TreeMoves
      <4>2. CASE at = q
        BY <2>5, <3>1, <4>2 DEF Disk, AtPlace, TreeMoves
      <4>3. CASE at \notin {p, q}
        BY <2>5, <3>1, <4>3 DEF Disk, AtPlace, TreeMoves
      <4> QED BY <4>1, <4>2, <4>3
    <3>4. ASSUME NEW i \in Ids, <<"state", i>> \in foreign' PROVE state'[i] # None
      BY <2>1, <2>5, <3>4 DEF Disk, TreeMoves
    <3>5. tree' \in [Places -> {"absent", "base", "group"}] /\ config' \in [Places -> Ids \cup {None}]
      BY <2>5 DEF Disk, TreeMoves
    <3> QED BY <1>1, <2>1, <3>2, <3>3, <3>4, <3>5 DEF Disk
  <2>6. Disk'
    BY <2>2, <2>3, <2>4, <2>5, Zenon
  <2> QED BY <1>1, <2>6
<1> QED BY <1>1, <1>2, <1>3

-----------------------------------------------------------------------------
(* All steps                                                                *)

\* A step of the user, or one that respects what he changed.
Respected ==
    \/ userMoves' # userMoves
    \/ \A k \in foreign : \/ ContentKept(k)
                          \/ \E p \in Procs : job[p].pc = "undoing" /\ k \in Exposed(job[p])

LEMMA NInvKept ==
    ASSUME NInv, [Next]_vars
    PROVE  NInv' /\ Respected
<1> USE DEF NInv
<1>1. IInv /\ Disk /\ IInv'
  BY NextKeeps
<1>2. ASSUME NEW p \in Procs,
             \/ Plan(p) \/ StageClone(p) \/ StageMaterialize(p) \/ DiscardClone(p)
             \/ DiscardMaterialize(p) \/ StagingKept(p) \/ LockTimeout(p) \/ Lock(p)
             \/ RecheckFails(p) \/ Remove(p) \/ Reconcile(p) \/ Published(p)
             \/ EndRollback(p) \/ Crash(p)
      PROVE  NInv' /\ Respects(p)
  <2>1. Disk' /\ Respects(p)
    BY <1>2, QuietSteps, Zenon
  <2>2. Rests(job'[p]) /\ \A q \in Procs \ {p} : job'[q] = job[q]
    BY <1>2, RestSteps, ZenonT(60)
  <2>3. Holds(p) \/ UNCHANGED <<registry, state>>
    BY <1>2 DEF Plan, StageClone, StageMaterialize, DiscardClone, DiscardMaterialize, StagingKept,
                LockTimeout, Lock, RecheckFails, Remove, Reconcile, Published, EndRollback, Crash,
                world, Holds, Locked
  <2> QED BY <1>1, <2>1, <2>2, <2>3, RestKeeps
<1>3. ASSUME NEW p \in Procs,
             \/ Recheck(p) \/ PublishInit(p) \/ PublishClone(p) \/ PublishMaterialize(p)
             \/ ReadBack(p) \/ LastCheckFails(p)
             \/ KeepTarget(p) \/ UndoTarget(p) \/ CheckByPath(p) \/ RemoveByPath(p)
      PROVE  NInv' /\ Respects(p)
  <2>1. Disk' /\ Respects(p)
    BY <1>3, QuietSteps, PublishRespects, UndoRespects, RemoveRespects, Zenon
  <2>2. /\ \A q \in Procs \ {p} : job'[q] = job[q]
        /\ \E d : d = job'[p] /\ Keeping(d) /\ Withdrawn(d, registry', state')
    BY <1>3, RecheckKeepsJob, PublishKeepsJob, RollbackKeepsJob, Zenon
  <2>3. PICK d : d = job'[p] /\ Keeping(d) /\ Withdrawn(d, registry', state')
    BY <2>2
  <2>4. Holds(p)
    BY <1>3, JobSteps, Zenon
  <2> QED BY <1>1, <2>1, <2>2, <2>3, <2>4, OneJob
<1>4. CASE UserEdits \/ UserMoves
  <2>1. Disk' /\ userMoves' # userMoves
    BY <1>1, <1>4, UserKeepsDisk
  <2>2. UNCHANGED <<job, registry, state>>
    BY <1>4 DEF UserEdits, UserMoves, world
  <2> QED BY <1>1, <2>1, <2>2 DEF Keeping, Withdrawn, Respected
<1>5. CASE UNCHANGED vars
  <2>1. UNCHANGED <<job, registry, state, tree, config, foreign, userMoves>>
    BY <1>5 DEF vars, world, user
  <2>2. Disk' /\ AllKept
    BY <1>1, <2>1, DiskStays
  <2>3. \A k \in foreign : ContentKept(k)
    BY <1>1, <2>2, KeptEach DEF Disk
  <2> QED BY <1>1, <2>1, <2>2, <2>3 DEF Keeping, Withdrawn, Respected
<1>6. ASSUME NEW p \in Procs, Respects(p)
      PROVE  Respected
  BY <1>6 DEF Respects, Respected
<1> QED BY <1>2, <1>3, <1>4, <1>5, <1>6, Zenon DEF Next

LEMMA NInvInitially == Init => NInv
<1> SUFFICES ASSUME Init PROVE NInv
  OBVIOUS
<1>1. \A p \in Procs : job[p] = NoJob
  BY DEF Init
<1>2. Keeping(NoJob) /\ Withdrawn(NoJob, registry, state)
  BY DEF NoJob, Keeping, Withdrawn, InPublication
<1>3. Disk
  <2>1. /\ \A at \in Places : tree[at] \in {"absent", "base", "group"} /\ config[at] = None
        /\ tree \in [Places -> {"absent", "base", "group"}]
    BY DEF Init
  <2>2. /\ config \in [Places -> Ids \cup {None}] /\ state \in [Ids -> Places \cup {None}]
        /\ foreign = {} /\ userMoves = 0
    BY DEF Init
  <2> QED BY <2>1, <2>2 DEF Disk
<1> QED BY <1>1, <1>2, <1>3, InitiallyHolds DEF NInv

LEMMA NInvAlways == Spec => []NInv
<1>1. NInv /\ [Next]_vars => NInv'
  BY NInvKept
<1> QED BY NInvInitially, <1>1, PTL DEF Spec

\* Rollback keeps what it cannot prove to be its own (README.md:599): no step of a
\* command replaces or removes what the user changed, except in the tree or the state
\* file of a clone, changed after the rollback under way has compared it
\* (clone_execute.go:873, 143).
THEOREM ForeignSurvivesHolds == Spec => ForeignSurvives
<1>1. NInv /\ [Next]_vars => Respected
  BY NInvKept
<1> QED BY NInvAlways, <1>1, PTL DEF Spec, ForeignSurvives, Respected

\* A rollback that reports a clean end left no entry and no default state of its
\* project, whatever the user and other commands did meanwhile (error.go:92), but for
\* the files that a clone passes over with an unmarked error, and a release without a
\* receipt; init passes over nothing.
THEOREM CleanLeavesNothingHolds == Spec => CleanLeavesNothing
<1>1. ASSUME NInv, [Next]_vars, NEW p \in Procs,
             job[p].cmd \in Publishers, job[p].pc = "undoing",
             job'[p].pc # "undoing", job'[p].end = "clean"
      PROVE  /\ registry'[job[p].id] = None \/ Unsaid(job[p], "registry")
             /\ state'[job[p].id] = None \/ Unsaid(job[p], "state")
  <2>1. job[p].end = "refused" /\ Keeping(job[p]) /\ Withdrawn(job[p], registry, state)
    BY <1>1 DEF NInv, Keeping
  <2>2. Shape(job[p]) /\ job = [q \in Procs |-> job[q]]
    BY <1>1, Shaped DEF NInv
  <2>3. job'[p] # job[p]
    BY <1>1
  <2>4. PICK q \in Procs :
          \/ Plan(q) \/ StageClone(q) \/ StageMaterialize(q) \/ DiscardClone(q)
          \/ DiscardMaterialize(q) \/ StagingKept(q) \/ LockTimeout(q) \/ Lock(q)
          \/ RecheckFails(q) \/ Recheck(q) \/ Remove(q) \/ Reconcile(q)
          \/ PublishInit(q) \/ PublishClone(q) \/ PublishMaterialize(q) \/ ReadBack(q)
          \/ LastCheckFails(q) \/ Published(q)
          \/ KeepTarget(q) \/ UndoTarget(q) \/ CheckByPath(q) \/ RemoveByPath(q)
          \/ EndRollback(q) \/ Crash(q)
    BY <1>1, <2>3 DEF Next, UserEdits, UserMoves, vars
  <2>5. q = p
    <3>1. ASSUME q # p PROVE job'[p] = job[p]
      BY <1>1, <2>4, <3>1, RestSteps, RecheckKeepsJob, PublishKeepsJob, RollbackKeepsJob
    <3> QED BY <2>3, <3>1
  <2>6. CASE EndRollback(p)
    <3>1. /\ job[p].owned = {} /\ UNCHANGED <<registry, state>>
          /\ job'[p].end = IF job[p].failed THEN "incomplete" ELSE "clean"
      BY <2>2, <2>6 DEF EndRollback, Shape, Jobs
    <3>2. job[p].written = "none" /\ ~job[p].failed /\ (job[p].cmd = "init" => job[p].left = {})
      BY <1>1, <2>1, <3>1 DEF Keeping
    <3>3. /\ registry[job[p].id] = None \/ Noted(job[p], "registry")
          /\ state[job[p].id] = None \/ Noted(job[p], "state")
      BY <1>1, <2>1 DEF Withdrawn, InPublication
    <3>4. /\ registry[job[p].id] = None \/ "registry" \in job[p].left
          /\ state[job[p].id] = None \/ "state" \in job[p].left
      BY <3>1, <3>2, <3>3 DEF Noted
    <3> QED BY <3>1, <3>2, <3>4 DEF Unsaid
  <2>7. CASE Crash(p)
    <3>1. job'[p].end = job[p].end
      BY <2>2, <2>7 DEF Crash, Shape, Jobs
    <3> QED BY <1>1, <2>1, <3>1
  <2>8. CASE KeepTarget(p) \/ UndoTarget(p) \/ CheckByPath(p) \/ RemoveByPath(p)
    BY <1>1, <2>8, RollbackKeepsJob
  <2>9. \/ EndRollback(p) \/ Crash(p)
        \/ KeepTarget(p) \/ UndoTarget(p) \/ CheckByPath(p) \/ RemoveByPath(p)
    BY <1>1, <2>4, <2>5
       DEF Plan, StageClone, StageMaterialize, DiscardClone, DiscardMaterialize, StagingKept,
           LockTimeout, Lock, ReadyToLock, RecheckFails, Recheck, Remove, Reconcile, PublishInit,
           PublishClone, PublishMaterialize, PublishNext, ReadBack, LastCheckFails, Published
  <2> QED BY <2>6, <2>7, <2>8, <2>9
<1>2. NInv /\ [Next]_vars =>
        \A p \in Procs :
          job[p].cmd \in Publishers /\ job[p].pc = "undoing"
          /\ job'[p].pc # "undoing" /\ job'[p].end = "clean"
          => /\ registry'[job[p].id] = None \/ Unsaid(job[p], "registry")
             /\ state'[job[p].id] = None \/ Unsaid(job[p], "state")
  BY <1>1
<1> QED BY NInvAlways, <1>2, PTL DEF Spec, CleanLeavesNothing
=============================================================================
