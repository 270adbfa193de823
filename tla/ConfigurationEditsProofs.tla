----------------------- MODULE ConfigurationEditsProofs -----------------------
(***************************************************************************)
(* Proofs about ConfigurationEdits, for any set of processes, branches and *)
(* hook definitions and any number of edits, faults and kills.             *)
(*                                                                         *)
(* A command writes only with the project lock.  What it replaces is then  *)
(* known from three facts about its job: a receipt has the data that was   *)
(* published, what was looked at before a rename is what was captured, and *)
(* a publication runs only while there is no recovery evidence.            *)
(*                                                                         *)
(* What a command reports needs more (JInv): whose baseline is in a file.  *)
(* A baseline is a process's only while that process may have put it there *)
(* (Marks); and the generations that no person wrote name one baseline,    *)
(* but for the files the publishing command has replaced, unless a command *)
(* spoilt that and will say so, or has (Base).                             *)
(***************************************************************************)
EXTENDS ConfigurationEdits, TLAPS

Fields == {"pc", "req", "known", "seen", "tip", "after", "written", "failed", "residual", "aside",
           "result", "looked"}
Shape(j) == j = [x \in Fields |-> j[x]]

\* A receipt is of the published data; there is none outside a publication.
Receipts(j) ==
    /\ \A f \in DOMAIN j.written : f \in Files /\ j.written[f].data = j.after[f]
    /\ j.pc \notin Publishing => DOMAIN j.written = {}

\* repo branch does not write by rename.
ByRename(j) == j.pc \in {"recheck", "rename"} => j.req.op # "repo-branch"

\* What a command looks at before its rename is what it captured.
Verified(p) ==
    job[p].pc = "rename" =>
        \A f \in Files : job[p].looked[f].data = job[p].seen[f].data

Exclusive == \A p \in Procs : holder = p <=> job[p].pc \in Holding

Unblocked == record => \A p \in Procs : job[p].pc \notin Publishing

IInv ==
    /\ file = [f \in Files |-> file[f]]
    /\ job = [p \in Procs |-> job[p]]
    /\ \A p \in Procs : Shape(job[p]) /\ Receipts(job[p]) /\ ByRename(job[p]) /\ Verified(p)
    /\ Exclusive
    /\ Unblocked

-----------------------------------------------------------------------------
(* Steps of one command                                                     *)

\* A step of one command keeps the invariant if it leaves a good job behind, writes
\* only with the lock, and hands the lock on properly.
LEMMA OneCommand ==
    ASSUME IInv, NEW p \in Procs, NEW r, job' = [job EXCEPT ![p] = r],
           Shape(r), Receipts(r), ByRename(r),
           holder' = p <=> r.pc \in Holding,
           \A q \in Procs \ {p} : holder' = q <=> holder = q,
           file' = [f \in Files |-> file'[f]],
           UNCHANGED file \/ job[p].pc \in Holding,
           r.pc = "rename" => \A f \in Files : r.looked[f].data = r.seen[f].data,
           record' => record \/ job[p].pc \in Holding,
           record' => r.pc \notin Publishing
    PROVE  IInv'
<1>1. /\ job' = [q \in Procs |-> job'[q]] /\ job'[p] = r
      /\ \A q \in Procs \ {p} : job'[q] = job[q]
  BY DEF IInv
<1>2. Verified(p)'
  BY <1>1 DEF Verified
<1>3. ASSUME NEW q \in Procs, q # p PROVE Verified(q)'
  BY <1>1, <1>3 DEF IInv, Verified
<1>4. Exclusive'
  BY <1>1 DEF IInv, Exclusive
<1>5. Unblocked'
  <2>1. ASSUME record', NEW q \in Procs, q # p PROVE job'[q].pc \notin Publishing
    <3>1. CASE record
      BY <1>1, <2>1, <3>1 DEF IInv, Unblocked
    <3>2. CASE job[p].pc \in Holding
      BY <1>1, <2>1, <3>2 DEF IInv, Exclusive, Holding
    <3> QED BY <2>1, <3>1, <3>2
  <2> QED BY <1>1, <2>1 DEF Unblocked
<1>6. \A q \in Procs : Shape(job'[q]) /\ Receipts(job'[q]) /\ ByRename(job'[q])
  BY <1>1 DEF IInv
<1>7. \A q \in Procs : Shape(job[q])' /\ Receipts(job[q])' /\ ByRename(job[q])'
  BY <1>6 DEF Shape, Receipts, ByRename
<1> QED BY <1>1, <1>2, <1>3, <1>4, <1>5, <1>7 DEF IInv

LEMMA Shaped ==
    ASSUME IInv, NEW p \in Procs
    PROVE  /\ job = [q \in Procs |-> job[q]] /\ file = [f \in Files |-> file[f]]
           /\ Shape(job[p]) /\ Receipts(job[p]) /\ ByRename(job[p])
BY DEF IInv

\* The end of a command.
LEMMA Returns ==
    ASSUME IInv, NEW p \in Procs, NEW result, Return(p, result), UNCHANGED file,
           record' => record \/ job[p].pc \in Holding
    PROVE  IInv'
<1> DEFINE r == [Idle EXCEPT !.pc = "done", !.req = job[p].req, !.result = result,
                             !.aside = job[p].aside]
<1>1. Shape(r) /\ r.pc = "done" /\ r.written = [f \in {} |-> None]
  <2>1. Shape(Idle) /\ Idle.written = [f \in {} |-> None]
    BY DEF Shape, Idle, Fields
  <2> QED BY <2>1 DEF Shape, Fields
<1>2. Receipts(r) /\ ByRename(r) /\ r.pc \notin Holding /\ r.pc \notin Publishing
  BY <1>1 DEF Receipts, ByRename, Holding, Publishing
<1>3. job' = [job EXCEPT ![p] = r] /\ holder' = IF holder = p THEN None ELSE holder
  BY DEF Return
<1> HIDE DEF r
<1>4. None \notin Procs
  BY DistinctAssumption
<1>5. file' = [f \in Files |-> file'[f]]
  BY Shaped
<1> QED BY <1>1, <1>2, <1>3, <1>4, <1>5, OneCommand

\* The job of p alone changes, and keeps its shape.
Becomes(p) == job' = [job EXCEPT ![p] = job'[p]] /\ Shape(job'[p])

LEMMA Becoming ==
    ASSUME IInv, NEW p \in Procs, NEW r, job' = [job EXCEPT ![p] = r], Shape(r)
    PROVE  Becomes(p) /\ job'[p] = r
BY Shaped DEF Becomes

\* A step that goes on, with or without the lock as before, and writes nothing.
LEMMA GoesOn ==
    ASSUME IInv, NEW p \in Procs, Becomes(p), Receipts(job'[p]), ByRename(job'[p]),
           UNCHANGED <<file, holder, record>>,
           job'[p].pc \in Holding <=> job[p].pc \in Holding,
           job'[p].pc \in Publishing => ~record,
           job'[p].pc = "rename" => \A f \in Files : job'[p].looked[f].data = job'[p].seen[f].data
    PROVE  IInv'
<1>1. file' = [f \in Files |-> file'[f]]
  BY Shaped
<1>2. holder' = p <=> job'[p].pc \in Holding
  BY DEF IInv, Exclusive
<1> QED BY <1>1, <1>2, OneCommand DEF Becomes

\* A command turns to another stage: its request, its plan and what it left stay.
Turns(p, pc) ==
    /\ Becomes(p)
    /\ job'[p].pc = pc /\ job'[p].req = job[p].req /\ job'[p].seen = job[p].seen
    /\ job'[p].written = job[p].written /\ job'[p].after = job[p].after
    /\ job'[p].aside = job[p].aside /\ job'[p].residual = job[p].residual
    /\ job'[p].result = job[p].result

LEMMA Moves ==
    ASSUME IInv, NEW p \in Procs, NEW pc, job' = [job EXCEPT ![p].pc = pc]
    PROVE  Turns(p, pc)
<1> DEFINE r == [job[p] EXCEPT !.pc = pc]
<1>1. job' = [job EXCEPT ![p] = r]
  BY Shaped
<1>2. /\ Shape(r) /\ r.pc = pc /\ r.req = job[p].req /\ r.seen = job[p].seen
      /\ r.written = job[p].written /\ r.after = job[p].after
      /\ r.aside = job[p].aside /\ r.residual = job[p].residual /\ r.result = job[p].result
  BY Shaped, ZenonT(60) DEF Shape, Fields
<1> HIDE DEF r
<1> QED BY <1>1, <1>2, Becoming DEF Turns

LEMMA FailureMoves ==
    ASSUME IInv, NEW p \in Procs, NEW pc, NEW failed,
           job' = [job EXCEPT ![p].pc = pc, ![p].failed = failed]
    PROVE  Turns(p, pc)
<1> DEFINE r == [job[p] EXCEPT !.pc = pc, !.failed = failed]
<1>1. job' = [job EXCEPT ![p] = r]
  BY Shaped
<1>2. /\ Shape(r) /\ r.pc = pc /\ r.req = job[p].req /\ r.seen = job[p].seen
      /\ r.written = job[p].written /\ r.after = job[p].after
      /\ r.aside = job[p].aside /\ r.residual = job[p].residual /\ r.result = job[p].result
  BY Shaped, ZenonT(60) DEF Shape, Fields
<1> HIDE DEF r
<1> QED BY <1>1, <1>2, Becoming DEF Turns

LEMMA LookMoves ==
    ASSUME IInv, NEW p \in Procs, NEW pc, NEW looked,
           job' = [job EXCEPT ![p].pc = pc, ![p].looked = looked]
    PROVE  Turns(p, pc) /\ job'[p].looked = looked
<1> DEFINE r == [job[p] EXCEPT !.pc = pc, !.looked = looked]
<1>1. job' = [job EXCEPT ![p] = r]
  BY Shaped
<1>2. /\ Shape(r) /\ r.pc = pc /\ r.req = job[p].req /\ r.seen = job[p].seen
      /\ r.written = job[p].written /\ r.after = job[p].after /\ r.looked = looked
      /\ r.aside = job[p].aside /\ r.residual = job[p].residual /\ r.result = job[p].result
  BY Shaped, ZenonT(60) DEF Shape, Fields
<1> HIDE DEF r
<1> QED BY <1>1, <1>2, Becoming DEF Turns

LEMMA TurnStep ==
    ASSUME IInv, NEW p \in Procs, NEW pc, Turns(p, pc),
           UNCHANGED <<file, holder, record>>,
           pc \in Holding <=> job[p].pc \in Holding,
           pc \in Publishing => ~record,
           pc \notin Publishing => job[p].pc \notin Publishing,
           pc \in {"recheck", "rename"} => job[p].req.op # "repo-branch",
           pc # "rename"
    PROVE  IInv'
<1>1. Receipts(job'[p]) /\ ByRename(job'[p])
  BY Shaped DEF Turns, Receipts, ByRename
<1> QED BY <1>1, GoesOn DEF Turns

-----------------------------------------------------------------------------
(* Planning, and the lock                                                   *)

LEMMA StartStep ==
    ASSUME IInv, NEW p \in Procs, Start(p)
    PROVE  IInv'
<1>1. PICK req \in Requests :
        job' = [job EXCEPT ![p].pc = IF req.op = "config" THEN "lock" ELSE "captureLocal",
                           ![p].req = req, ![p].known = file["local"].data.baseline]
  BY DEF Start
<1>2. PICK pc \in {"lock", "captureLocal"} : pc = IF req.op = "config" THEN "lock" ELSE "captureLocal"
  OBVIOUS
<1>3. /\ Becomes(p) /\ job'[p].pc = pc
      /\ job'[p].written = job[p].written /\ job'[p].after = job[p].after
  <2> DEFINE known == file["local"].data.baseline
             r == [job[p] EXCEPT !.pc = pc, !.req = req, !.known = known]
  <2>1. job' = [job EXCEPT ![p] = r]
    BY <1>1, <1>2, Shaped
  <2> HIDE DEF known
  <2>2. Shape(r) /\ r.pc = pc /\ r.written = job[p].written /\ r.after = job[p].after
    BY Shaped DEF Shape, Fields
  <2> HIDE DEF r
  <2> QED BY <2>1, <2>2, Becoming
<1>4. job[p].pc = "idle" /\ UNCHANGED <<file, holder, record>>
  BY DEF Start
<1>5. Receipts(job'[p]) /\ ByRename(job'[p])
  BY <1>3, <1>4, Shaped DEF Receipts, ByRename, Publishing
<1> QED BY <1>3, <1>4, <1>5, GoesOn DEF Holding, Publishing

LEMMA CaptureLocalStep ==
    ASSUME IInv, NEW p \in Procs, CaptureLocal(p)
    PROVE  IInv'
<1>1. UNCHANGED <<file, record>> /\ job[p].pc = "captureLocal"
  BY DEF CaptureLocal
<1>2. CASE Return(p, "refused")
  BY <1>1, <1>2, Returns, SMTT(30)
<1>3. CASE ~Return(p, "refused")
  <2>1. PICK seen, at :
          /\ job' = [job EXCEPT ![p].pc = "capturePortable", ![p].seen = seen, ![p].tip = at]
          /\ UNCHANGED holder
    BY <1>3 DEF CaptureLocal
  <2>2. /\ Becomes(p) /\ job'[p].pc = "capturePortable"
        /\ job'[p].written = job[p].written /\ job'[p].after = job[p].after
    <3> DEFINE r == [job[p] EXCEPT !.pc = "capturePortable", !.seen = seen, !.tip = at]
    <3>1. job' = [job EXCEPT ![p] = r]
      BY <2>1, Shaped
    <3>2. Shape(r) /\ r.pc = "capturePortable" /\ r.written = job[p].written /\ r.after = job[p].after
      BY Shaped DEF Shape, Fields
    <3> HIDE DEF r
    <3> QED BY <3>1, <3>2, Becoming
  <2>3. Receipts(job'[p]) /\ ByRename(job'[p])
    BY <1>1, <2>2, Shaped DEF Receipts, ByRename, Publishing
  <2> QED BY <1>1, <2>1, <2>2, <2>3, GoesOn DEF Holding, Publishing
<1> QED BY <1>2, <1>3

LEMMA CapturePortableStep ==
    ASSUME IInv, NEW p \in Procs, CapturePortable(p)
    PROVE  IInv'
<1>1. UNCHANGED <<file, record>> /\ job[p].pc = "capturePortable"
  BY DEF CapturePortable
<1>2. CASE \E result : Return(p, result)
  BY <1>1, <1>2, Returns
<1>3. CASE ~\E result : Return(p, result)
  <2> DEFINE seen == [local |-> job[p].seen["local"], portable |-> file["portable"]]
             plan == Plan(job[p].req, seen.local.data, seen.portable.data)
             after == plan.after
  <2>1. /\ job' = [job EXCEPT ![p].pc = "lock", ![p].seen = seen, ![p].after = after]
        /\ UNCHANGED holder
    BY <1>3, Zenon DEF CapturePortable
  <2> HIDE DEF seen, plan, after
  <2>2. Becomes(p) /\ job'[p].pc = "lock" /\ job'[p].written = job[p].written
    <3> DEFINE r == [job[p] EXCEPT !.pc = "lock", !.seen = seen, !.after = after]
    <3>1. job' = [job EXCEPT ![p] = r]
      BY <2>1, Shaped
    <3>2. Shape(r) /\ r.pc = "lock" /\ r.written = job[p].written
      BY Shaped DEF Shape, Fields
    <3> HIDE DEF r
    <3> QED BY <3>1, <3>2, Becoming
  <2>3. DOMAIN job[p].written = {}
    BY <1>1, Shaped DEF Receipts, Publishing
  <2>4. Receipts(job'[p]) /\ ByRename(job'[p])
    BY <2>2, <2>3 DEF Receipts, ByRename
  <2> QED BY <1>1, <2>1, <2>2, <2>4, GoesOn DEF Holding, Publishing
<1> QED BY <1>2, <1>3

LEMMA TakeLockStep ==
    ASSUME IInv, NEW p \in Procs, TakeLock(p)
    PROVE  IInv'
<1>1. job[p].pc = "lock" /\ UNCHANGED <<file, record>> /\ holder = None /\ holder' = p
  BY DEF TakeLock
<1>2. Turns(p, "authorize")
  BY Moves DEF TakeLock
<1>3. Receipts(job'[p]) /\ ByRename(job'[p])
  BY <1>1, <1>2, Shaped DEF Turns, Receipts, ByRename, Publishing
<1>4. None \notin Procs
  BY DistinctAssumption
<1>5. file' = [f \in Files |-> file'[f]]
  BY <1>1, Shaped
<1> QED BY <1>1, <1>2, <1>3, <1>4, <1>5, OneCommand DEF Turns, Becomes, Holding, Publishing

LEMMA AuthorizeStep ==
    ASSUME IInv, NEW p \in Procs, Authorize(p)
    PROVE  IInv'
<1>1. UNCHANGED <<file, record>> /\ job[p].pc = "authorize"
  BY DEF Authorize
<1>2. CASE \E result : Return(p, result)
  BY <1>1, <1>2, Returns
<1>3. CASE ~\E result : Return(p, result)
  <2>1. PICK pc \in {"compare", "recheck"} :
          /\ job' = [job EXCEPT ![p].pc = pc] /\ UNCHANGED holder
          /\ pc = "compare" => ~record
          /\ pc = "recheck" => job[p].req.op # "repo-branch"
    BY <1>3 DEF Authorize, Blocked
  <2>2. Turns(p, pc)
    BY <2>1, Moves
  <2> QED BY <1>1, <2>1, <2>2, TurnStep DEF Holding, Publishing
<1> QED BY <1>2, <1>3

-----------------------------------------------------------------------------
(* repo branch                                                              *)

LEMMA CompareSteps ==
    ASSUME IInv, NEW p \in Procs, Compare(p) \/ Verify(p) \/ Restored(p)
    PROVE  IInv'
<1>1. /\ UNCHANGED <<file, record>> /\ job[p].pc \in {"compare", "verify", "rollback"}
  BY DEF Compare, Verify, Restored
<1>2. CASE \E result : Return(p, result)
  BY <1>1, <1>2, Returns
<1>3. CASE ~\E result : Return(p, result)
  <2>1. UNCHANGED holder /\ \E pc \in {"exchange", "rollback", "record"} : Turns(p, pc)
    BY <1>3, Moves, FailureMoves DEF Compare, Verify, Restored, GoTo, RollBack
  <2>2. ~record
    BY <1>1 DEF IInv, Unblocked, Publishing
  <2> QED BY <1>1, <2>1, <2>2, TurnStep DEF Holding, Publishing
<1> QED BY <1>2, <1>3

LEMMA WriteRecordStep ==
    ASSUME IInv, NEW p \in Procs, WriteRecord(p)
    PROVE  IInv'
<1>1. PICK result : Return(p, result)
  BY DEF WriteRecord
<1>2. UNCHANGED file /\ job[p].pc \in Holding
  BY DEF WriteRecord, Holding, Publishing
<1> QED BY <1>1, <1>2, Returns

\* Every generation in a file goes through Write.
LEMMA WriteOne ==
    ASSUME IInv, NEW p \in Procs, NEW f \in Files, NEW data, NEW setBy, Write(p, f, data, setBy)
    PROVE  /\ file' = [file EXCEPT ![f] = file'[f]] /\ file' = [g \in Files |-> file'[g]]
           /\ file'[f].by = p /\ \A g \in Files \ {f} : file'[g] = file[g]
BY Shaped DEF Write

\* A publishing command that goes on publishing, whatever it does to the files.
LEMMA PublicationStep ==
    ASSUME IInv, NEW p \in Procs, job[p].pc \in Publishing, Becomes(p),
           job'[p].pc \in Publishing,
           Receipts(job'[p]), UNCHANGED <<holder, record>>, file' = [f \in Files |-> file'[f]]
    PROVE  IInv'
<1>1. ~record
  BY DEF IInv, Unblocked
<1>2. {job[p].pc, job'[p].pc} \subseteq Holding
  BY DEF Holding
<1>3. holder' = p
  BY <1>2 DEF IInv, Exclusive
<1>4. ByRename(job'[p]) /\ job'[p].pc # "rename"
  BY DEF ByRename, Publishing
<1> QED BY <1>1, <1>2, <1>3, <1>4, OneCommand DEF Becomes

LEMMA FilesKept ==
    ASSUME IInv, NEW p \in Procs, NEW f \in Files, NEW expected, NEW kept,
           \/ \E data, setBy, failed : Exchanged(p, f, expected, data, setBy, kept, failed)
           \/ NotExchanged(p, f, expected, kept)
    PROVE  file' = [g \in Files |-> file'[g]]
<1>1. UNCHANGED file \/ \E data, setBy : Write(p, f, data, setBy)
  BY DEF Exchanged, NotExchanged
<1> QED BY <1>1, Shaped, WriteOne

LEMMA ExchangeStep ==
    ASSUME IInv, NEW p \in Procs, Exchange(p)
    PROVE  IInv'
<1> DEFINE f == Target(p)
<1>1. f \in Files /\ job[p].pc = "exchange" /\ UNCHANGED <<holder, record>>
  BY DEF Exchange, Target, Files
<1>2. PICK kept, failed, pc :
        /\ pc \in {"observe", "rollback"}
        /\ job' = [job EXCEPT ![p].pc = pc, ![p].failed = failed, ![p].aside = kept]
        /\ \/ Exchanged(p, f, job[p].seen[f], job[p].after[f], Setter(p, f), kept, failed)
           \/ NotExchanged(p, f, job[p].seen[f], kept)
  BY DEF Exchange
<1> HIDE DEF f
<1>3. /\ Becomes(p) /\ job'[p].pc = pc
      /\ job'[p].written = job[p].written /\ job'[p].after = job[p].after
  <2> DEFINE r == [job[p] EXCEPT !.pc = pc, !.failed = failed, !.aside = kept]
  <2>1. job' = [job EXCEPT ![p] = r]
    BY <1>2, Shaped
  <2>2. Shape(r) /\ r.pc = pc /\ r.written = job[p].written /\ r.after = job[p].after
    BY Shaped DEF Shape, Fields
  <2> HIDE DEF r
  <2> QED BY <2>1, <2>2, Becoming
<1>4. Receipts(job'[p]) /\ pc \in Publishing
  BY <1>2, <1>3, Shaped DEF Receipts, Publishing
<1>5. file' = [g \in Files |-> file'[g]]
  BY <1>1, <1>2, FilesKept
<1> QED BY <1>1, <1>3, <1>4, <1>5, PublicationStep DEF Publishing

LEMMA ObserveStep ==
    ASSUME IInv, NEW p \in Procs, Observe(p)
    PROVE  IInv'
<1>1. job[p].pc = "observe" /\ UNCHANGED <<file, holder, record>>
  BY DEF Observe
<1>2. file' = [g \in Files |-> file'[g]]
  BY <1>1, Shaped
<1> DEFINE f == Target(p)
           observed == file[f].data = job[p].after[f]
           next == IF ~observed \/ job[p].failed THEN "rollback"
                   ELSE IF f = "local" THEN "verify" ELSE "compare"
           written == IF observed THEN Receipt(p, f) ELSE job[p].written
           residual == IF observed THEN job[p].residual ELSE job[p].residual \cup {f}
           r == [job[p] EXCEPT !.written = written, !.residual = residual, !.pc = next]
<1>3. job' = [job EXCEPT ![p] = r]
  BY Shaped DEF Observe
<1>4. f \in Files
  BY DEF Target, Files
<1>5. \A g \in DOMAIN written : g \in Files /\ written[g].data = job[p].after[g]
  BY <1>4, Shaped DEF Receipt, Receipts, Written
<1>6. next \in Publishing
  BY DEF Publishing
<1> HIDE DEF written, residual, next
<1>7. Shape(r) /\ r.pc = next /\ r.written = written /\ r.after = job[p].after
  BY Shaped DEF Shape, Fields
<1> HIDE DEF r
<1>8. Becomes(p) /\ job'[p] = r
  BY <1>3, <1>7, Becoming
<1>9. Receipts(job'[p])
  BY <1>5, <1>6, <1>7, <1>8 DEF Receipts
<1> QED BY <1>1, <1>2, <1>6, <1>7, <1>8, <1>9, PublicationStep DEF Publishing

LEMMA RestoreStep ==
    ASSUME IInv, NEW p \in Procs, Restore(p)
    PROVE  IInv'
<1> DEFINE f == IF "local" \in Written(p) THEN "local" ELSE "portable"
           rest == [g \in Written(p) \ {f} |-> job[p].written[g]]
<1>1. f \in Files /\ job[p].pc = "rollback" /\ UNCHANGED <<holder, record>>
  BY DEF Restore, Files
<1>2. PICK kept :
        /\ \/ job' = [job EXCEPT ![p].written = rest, ![p].aside = @ \cup kept]
           \/ job' = [job EXCEPT ![p].written = rest, ![p].aside = @ \cup kept,
                                 ![p].residual = @ \cup {f}]
        /\ \/ \E data, setBy, failed : Exchanged(p, f, job[p].written[f], data, setBy, kept, failed)
           \/ NotExchanged(p, f, job[p].written[f], kept)
  BY Zenon DEF Restore
<1>3. \A g \in DOMAIN rest : g \in Files /\ rest[g].data = job[p].after[g]
  BY Shaped DEF Receipts, Written
<1>4. file' = [g \in Files |-> file'[g]]
  BY <1>1, <1>2, FilesKept
<1> HIDE DEF f, rest
<1>5. ASSUME NEW aside, NEW residual,
             job' = [job EXCEPT ![p].written = rest, ![p].aside = aside, ![p].residual = residual]
      PROVE  IInv'
  <2> DEFINE r == [job[p] EXCEPT !.written = rest, !.aside = aside, !.residual = residual]
  <2>1. job' = [job EXCEPT ![p] = r]
    BY <1>5, Shaped
  <2>2. Shape(r) /\ r.pc = job[p].pc /\ r.written = rest /\ r.after = job[p].after
    BY Shaped DEF Shape, Fields
  <2> HIDE DEF r
  <2>3. Becomes(p) /\ job'[p] = r
    BY <2>1, <2>2, Becoming
  <2>4. Receipts(job'[p])
    BY <1>1, <1>3, <2>2, <2>3 DEF Receipts, Publishing
  <2> QED BY <1>1, <1>4, <2>2, <2>3, <2>4, PublicationStep DEF Publishing
<1>6. CASE job' = [job EXCEPT ![p].written = rest, ![p].aside = @ \cup kept]
  <2>1. job' = [job EXCEPT ![p].written = rest, ![p].aside = job[p].aside \cup kept,
                           ![p].residual = job[p].residual]
    BY <1>6, Shaped DEF Shape, Fields
  <2> QED BY <1>5, <2>1
<1>7. CASE job' = [job EXCEPT ![p].written = rest, ![p].aside = @ \cup kept,
                              ![p].residual = @ \cup {f}]
  <2>1. job' = [job EXCEPT ![p].written = rest, ![p].aside = job[p].aside \cup kept,
                           ![p].residual = job[p].residual \cup {f}]
    BY <1>7, Shaped DEF Shape, Fields
  <2> QED BY <1>5, <2>1
<1> QED BY <1>2, <1>6, <1>7, SMTT(30)

-----------------------------------------------------------------------------
(* hooks share and install, config                                          *)

LEMMA RecheckStep ==
    ASSUME IInv, NEW p \in Procs, Recheck(p)
    PROVE  IInv'
<1>1. UNCHANGED <<file, record>> /\ job[p].pc = "recheck"
  BY DEF Recheck
<1>2. CASE \E result : Return(p, result)
  BY <1>1, <1>2, Returns
<1>3. CASE ~\E result : Return(p, result)
  <2>1. /\ Turns(p, "rename") /\ job'[p].looked = file
        /\ UNCHANGED holder /\ SourcesHold(p)
    BY <1>3, LookMoves DEF Recheck
  <2>2. \A f \in Files : job'[p].looked[f].data = job'[p].seen[f].data
    BY <2>1 DEF SourcesHold, Same, Turns
  <2>3. Receipts(job'[p]) /\ ByRename(job'[p])
    BY <1>1, <2>1, Shaped DEF Turns, Receipts, ByRename, Publishing
  <2> QED BY <1>1, <2>1, <2>2, <2>3, GoesOn DEF Turns, Holding, Publishing
<1> QED BY <1>2, <1>3

LEMMA ReadSettingStep ==
    ASSUME IInv, NEW p \in Procs, ReadSetting(p)
    PROVE  IInv'
<1>1. /\ UNCHANGED <<file, holder, record>>
      /\ job[p].pc = "authorize" /\ job[p].req.op = "config"
  BY DEF ReadSetting
<1>2. PICK after : job' = [job EXCEPT ![p].pc = "rename", ![p].seen = file, ![p].looked = file,
                                       ![p].after = after]
  BY DEF ReadSetting
<1> DEFINE r == [job[p] EXCEPT !.pc = "rename", !.seen = file, !.looked = file, !.after = after]
<1>3. job' = [job EXCEPT ![p] = r]
  BY <1>2, Shaped
<1>4. /\ Shape(r) /\ r.pc = "rename" /\ r.written = job[p].written /\ r.seen = file
      /\ r.req = job[p].req /\ r.looked = file
  BY Shaped DEF Shape, Fields
<1> HIDE DEF r
<1>5. Becomes(p) /\ job'[p] = r
  BY <1>3, <1>4, Becoming
<1>6. DOMAIN job[p].written = {}
  BY <1>1, Shaped DEF Receipts, Publishing
<1>7. Receipts(job'[p]) /\ ByRename(job'[p])
  BY <1>1, <1>4, <1>5, <1>6 DEF Receipts, ByRename
<1>8. \A f \in Files : job'[p].looked[f].data = job'[p].seen[f].data
  BY <1>4, <1>5
<1> QED BY <1>1, <1>4, <1>5, <1>7, <1>8, GoesOn DEF Holding, Publishing

LEMMA RenameStep ==
    ASSUME IInv, NEW p \in Procs, Rename(p)
    PROVE  IInv'
<1>1. job[p].pc = "rename" /\ UNCHANGED record
  BY DEF Rename
<1>2. PICK f \in DOMAIN job[p].after :
        \/ /\ Write(p, f, job[p].after[f], job[p].seen[f].setBy)
           /\ \/ GoTo(p, "readback")
              \/ /\ job' = [job EXCEPT ![p].pc = "readback", ![p].failed = TRUE]
                 /\ UNCHANGED holder
        \/ Return(p, "failed") /\ UNCHANGED file
  BY DEF Rename
<1>3. CASE Return(p, "failed") /\ UNCHANGED file
  BY <1>1, <1>3, Returns
<1>4. CASE /\ Write(p, f, job[p].after[f], job[p].seen[f].setBy)
           /\ \/ GoTo(p, "readback")
              \/ /\ job' = [job EXCEPT ![p].pc = "readback", ![p].failed = TRUE]
                 /\ UNCHANGED holder
  <2>1. Turns(p, "readback") /\ UNCHANGED holder
    BY <1>4, Moves, FailureMoves DEF GoTo
  <2>2. file' = [g \in Files |-> file'[g]]
    BY <1>4, Shaped DEF Write
  <2>3. Receipts(job'[p]) /\ ByRename(job'[p])
    BY <1>1, <2>1, Shaped DEF Turns, Receipts, ByRename, Publishing
  <2>4. job[p].pc \in Holding /\ holder' = p
    BY <1>1, <2>1 DEF IInv, Exclusive, Holding
  <2> QED BY <1>1, <2>1, <2>2, <2>3, <2>4, OneCommand DEF Turns, Becomes, Holding, Publishing
<1> QED BY <1>2, <1>3, <1>4

LEMMA EndSteps ==
    ASSUME IInv, NEW p \in Procs, LockFails(p) \/ Readback(p)
    PROVE  IInv'
<1>1. UNCHANGED <<file, record>> /\ \E result : Return(p, result)
  BY DEF LockFails, Readback
<1> QED BY <1>1, Returns

-----------------------------------------------------------------------------
(* The surroundings, and the whole next-state relation                      *)

LEMMA CrashStep ==
    ASSUME IInv, NEW p \in Procs, Crash(p)
    PROVE  IInv'
<1> DEFINE r == [Idle EXCEPT !.pc = "dead", !.req = job[p].req]
<1>1. Shape(r) /\ r.pc = "dead" /\ r.written = [f \in {} |-> None]
  <2>1. Shape(Idle) /\ Idle.written = [f \in {} |-> None]
    BY DEF Shape, Idle, Fields
  <2> QED BY <2>1 DEF Shape, Fields
<1>2. Receipts(r) /\ ByRename(r) /\ r.pc \notin Holding /\ r.pc \notin Publishing
  BY <1>1 DEF Receipts, ByRename, Holding, Publishing
<1>3. /\ job' = [job EXCEPT ![p] = r] /\ UNCHANGED <<file, record>>
      /\ holder' = IF holder = p THEN None ELSE holder
  BY DEF Crash
<1> HIDE DEF r
<1>4. None \notin Procs
  BY DistinctAssumption
<1>5. file' = [f \in Files |-> file'[f]]
  BY <1>3, Shaped
<1> QED BY <1>1, <1>2, <1>3, <1>4, <1>5, OneCommand

\* What a person does leaves the jobs, the lock and the evidence alone.
LEMMA EditStep ==
    ASSUME IInv, NEW f \in Files, EditFile(f)
    PROVE  IInv'
<1>1. UNCHANGED <<job, holder, record>>
  BY DEF EditFile
<1>2. /\ file' = [g \in Files |-> file'[g]] /\ file'[f].by = User
      /\ \A g \in Files \ {f} : file'[g] = file[g]
  BY DEF EditFile, IInv
<1>3. \A p \in Procs : Verified(p)'
  BY <1>1 DEF IInv, Verified
<1> QED BY <1>1, <1>2, <1>3 DEF IInv, Shape, Receipts, ByRename, Exclusive, Unblocked

LEMMA OthersKeep ==
    ASSUME IInv, (\E b \in Branches : MoveTip(b)) \/ Untrack \/ UNCHANGED vars
    PROVE  IInv'
<1>1. UNCHANGED <<file, job, holder, record>>
  BY DEF MoveTip, Untrack, vars
<1> QED BY <1>1 DEF IInv, Shape, Receipts, ByRename, Verified, Exclusive, Unblocked

LEMMA NextKeeps ==
    ASSUME IInv, [Next]_vars
    PROVE  IInv'
<1>1. ASSUME NEW p \in Procs, Step(p) PROVE IInv'
  BY <1>1, StartStep, CaptureLocalStep, CapturePortableStep, TakeLockStep, AuthorizeStep,
     CompareSteps, ExchangeStep, ObserveStep, RestoreStep, WriteRecordStep, RecheckStep,
     ReadSettingStep, RenameStep, EndSteps DEF Step
<1> QED BY <1>1, CrashStep, EditStep, OthersKeep DEF Next

LEMMA InitiallyHolds == Init => IInv
<1> SUFFICES ASSUME Init PROVE IInv
  OBVIOUS
<1>1. /\ file = [f \in Files |-> file[f]] /\ job = [p \in Procs |-> Idle]
      /\ ~record /\ holder = None
  BY DEF Init
<1>2. Shape(Idle) /\ Idle.pc = "idle" /\ Idle.written = [f \in {} |-> None]
  BY DEF Shape, Idle, Fields
<1>3. Receipts(Idle) /\ ByRename(Idle) /\ Idle.pc \notin Holding
  BY <1>2 DEF Receipts, ByRename, Holding, Publishing
<1>4. None \notin Procs
  BY DistinctAssumption
<1> QED BY <1>1, <1>2, <1>3, <1>4 DEF IInv, Verified, Exclusive, Unblocked

LEMMA Inductive == Spec => []IInv
<1>1. IInv /\ [Next]_vars => IInv'
  BY NextKeeps
<1> QED BY InitiallyHolds, <1>1, PTL DEF Spec

-----------------------------------------------------------------------------
(* What a step may do to a file                                             *)

\* The generation in f may give way to one of p: its bytes are known to p, it is
\* kept beside, or it came in the window of a rename.
MayReplace(p, f) ==
    \/ file[f].data \in {job[p].seen[f].data, job[p].after[f]}
    \/ file[f].id \in job'[p].aside
    \/ job[p].pc = "rename" /\ file[f] # job[p].looked[f]

\* A file that changes is one p may replace, and p is publishing or renames.
Replaces(p, f) ==
    /\ file'[f].by = p /\ MayReplace(p, f)
    /\ job[p].pc \in Publishing \/ job[p].req.op # "repo-branch"

LEMMA Swapped ==
    ASSUME IInv, NEW p \in Procs, NEW f \in Files, NEW g \in Files, NEW expected, NEW kept,
           \/ \E data, setBy, failed : Exchanged(p, g, expected, data, setBy, kept, failed)
           \/ NotExchanged(p, g, expected, kept),
           file'[f] # file[f]
    PROVE  f = g /\ file'[f].by = p /\ (file[f].data = expected.data \/ file[f].id \in kept)
<1>1. ~UNCHANGED file
  OBVIOUS
<1>2. PICK data, setBy, failed : Exchanged(p, g, expected, data, setBy, kept, failed)
  BY <1>1 DEF NotExchanged
<1>3. Write(p, g, data, setBy) /\ (Same(file[g], expected) \/ kept = {file[g].id})
  BY <1>2 DEF Exchanged
<1> QED BY <1>3, WriteOne DEF Same

LEMMA ExchangeReplaces ==
    ASSUME IInv, NEW p \in Procs, NEW f \in Files, Exchange(p), file'[f] # file[f]
    PROVE  Replaces(p, f)
<1> DEFINE g == Target(p)
<1>1. g \in Files /\ job[p].pc \in Publishing
  BY DEF Exchange, Target, Files, Publishing
<1>2. PICK kept, failed, pc :
        /\ job' = [job EXCEPT ![p].pc = pc, ![p].failed = failed, ![p].aside = kept]
        /\ \/ Exchanged(p, g, job[p].seen[g], job[p].after[g], Setter(p, g), kept, failed)
           \/ NotExchanged(p, g, job[p].seen[g], kept)
  BY DEF Exchange
<1> HIDE DEF g
<1>3. f = g /\ file'[f].by = p /\ (file[f].data = job[p].seen[g].data \/ file[f].id \in kept)
  BY <1>1, <1>2, Swapped, ZenonT(60)
<1>4. job'[p].aside = kept
  BY <1>2, Shaped, ZenonT(60) DEF Shape, Fields
<1> QED BY <1>1, <1>3, <1>4 DEF Replaces, MayReplace

LEMMA RestoreReplaces ==
    ASSUME IInv, NEW p \in Procs, NEW f \in Files, Restore(p), file'[f] # file[f]
    PROVE  Replaces(p, f)
<1> DEFINE g == IF "local" \in Written(p) THEN "local" ELSE "portable"
           rest == [h \in Written(p) \ {g} |-> job[p].written[h]]
<1>1. g \in Files /\ g \in Written(p) /\ job[p].pc \in Publishing
  <2>1. job[p].pc = "rollback" /\ Written(p) # {}
    BY DEF Restore
  <2>2. Written(p) \subseteq {"portable", "local"}
    BY Shaped DEF Files, Receipts, Written
  <2> QED BY <2>1, <2>2 DEF Files, Publishing
<1>2. PICK kept :
        /\ \/ job' = [job EXCEPT ![p].written = rest, ![p].aside = @ \cup kept]
           \/ job' = [job EXCEPT ![p].written = rest, ![p].aside = @ \cup kept,
                                 ![p].residual = @ \cup {g}]
        /\ \/ \E data, setBy, failed : Exchanged(p, g, job[p].written[g], data, setBy, kept, failed)
           \/ NotExchanged(p, g, job[p].written[g], kept)
  BY Zenon DEF Restore
<1> HIDE DEF g, rest
<1>3. f = g /\ file'[f].by = p /\ (file[f].data = job[p].written[g].data \/ file[f].id \in kept)
  <2>1. \/ \E data, setBy, failed : Exchanged(p, g, job[p].written[g], data, setBy, kept, failed)
        \/ NotExchanged(p, g, job[p].written[g], kept)
    BY <1>2
  <2> QED BY <1>1, <2>1, Swapped, ZenonT(60)
<1>4. job[p].written[g].data = job[p].after[g]
  BY <1>1, Shaped DEF Receipts, Written
<1>5. job'[p].aside = job[p].aside \cup kept
  BY <1>2, Shaped, ZenonT(60) DEF Shape, Fields
<1> QED BY <1>1, <1>3, <1>4, <1>5 DEF Replaces, MayReplace

LEMMA RenameReplaces ==
    ASSUME IInv, NEW p \in Procs, NEW f \in Files, Rename(p), file'[f] # file[f]
    PROVE  Replaces(p, f)
<1>1. /\ job[p].req.op # "repo-branch"
      /\ job[p].pc = "rename" /\ job[p].looked[f].data = job[p].seen[f].data
  BY Shaped DEF IInv, Verified, Rename, ByRename
<1>2. file'[f].by = p
  BY Shaped DEF Rename, Write
<1> QED BY <1>1, <1>2 DEF Replaces, MayReplace

LEMMA ChangesAreReplacements ==
    ASSUME IInv, [Next]_vars, NEW f \in Files, file'[f] # file[f]
    PROVE  file'[f].by = User \/ \E p \in Procs : Replaces(p, f)
<1>1. ASSUME NEW p \in Procs, Step(p) PROVE Replaces(p, f)
  <2>1. UNCHANGED file \/ Exchange(p) \/ Restore(p) \/ Rename(p)
    BY <1>1 DEF Step, Start, CaptureLocal, CapturePortable, TakeLock, LockFails, Authorize, Compare,
                Observe, Verify, Restored, WriteRecord, Recheck, ReadSetting, Readback
  <2> QED BY <2>1, ExchangeReplaces, RestoreReplaces, RenameReplaces
<1>2. ASSUME NEW g \in Files, EditFile(g) PROVE file'[f].by = User
  BY <1>2, Shaped DEF EditFile, IInv
<1>3. (\E p \in Procs : Crash(p)) \/ (\E b \in Branches : MoveTip(b)) \/ Untrack \/ UNCHANGED vars
        => UNCHANGED file
  BY DEF Crash, MoveTip, Untrack, vars
<1> QED BY <1>1, <1>2, <1>3 DEF Next

-----------------------------------------------------------------------------
(* What becomes of a baseline                                               *)

\* The generations a command has looked at and may still publish from, if they
\* pass the verification, and those it publishes or renames from.
Captured(j) == IF j.pc = "capturePortable" THEN {"local"}
               ELSE IF j.pc \in {"lock", "authorize", "recheck"} /\ j.req.op # "config" THEN Files
               ELSE {}
Held(j) == IF j.pc \in Publishing \cup {"rename"} THEN Files ELSE {}
Relied(j, f) == f \in Held(j) \/ (f \in Captured(j) /\ j.seen[f].id = file[f].id)

\* The files repo branch has replaced and not restored.
Placed(j) == DOMAIN j.written
               \cup IF j.pc = "observe"
                      THEN {IF "portable" \in DOMAIN j.written THEN "local" ELSE "portable"} ELSE {}

Underway(j) == \/ j.pc \in Publishing \cup {"rename"}
               \/ j.pc \in {"lock", "authorize", "recheck"} /\ j.req.op # "config"

\* The part of the data the edits keep.
Formed(d) == d = [x \in {"baseline", "hooks", "root"} |-> d[x]]

\* repo branch sets the baseline of both files, the other commands set none.
Planned(j) ==
    /\ j.req.op = "repo-branch" =>
         DOMAIN j.after = Files /\ \A f \in Files : j.after[f].baseline = j.req.branch
    /\ j.req.op # "repo-branch" =>
         \A f \in DOMAIN j.after : f \in Files /\ j.after[f].baseline = j.seen[f].data.baseline
    /\ \A f \in DOMAIN j.after : Formed(j.after[f])

Clean == {"clean", "canceled", "refused"}

Careful(j) ==
    /\ j.pc \in {"captureLocal", "capturePortable"} =>
         j.req.op \in {"repo-branch", "hooks-share", "hooks-install", "hooks-list"}
    /\ j.pc \in Publishing => j.req.op = "repo-branch"
    /\ j.pc = "recheck" => j.req.op # "config"
    /\ Underway(j) => Planned(j)
    /\ \A f \in Captured(j) \cup Held(j) : Formed(j.seen[f].data)
    /\ j.aside # {} => \/ j.pc \in {"rollback", "record"} \/ (j.pc = "observe" /\ j.failed)
                       \/ (j.pc = "done" /\ j.result \notin Clean)
    /\ j.residual # {} => j.pc \in {"rollback", "record"}
    /\ j.pc = "record" => j.aside # {} \/ j.residual # {}
    /\ j.pc = "verify" => DOMAIN j.written = Files
    /\ j.result # None => j.pc = "done"

Ids ==
    /\ last \in Nat /\ \A f \in Files : file[f].id \in 0..last
    /\ \A p \in Procs : \A f \in Captured(job[p]) : job[p].seen[f].id \in 0..last

\* A process may have given the baseline of f: it has replaced f, has lost its hold of
\* f and will say so, or has ended without calling itself clean.
MayMark(j, f) ==
    \/ j.pc \in {"record", "dead"}
    \/ j.pc = "done" /\ j.result \notin Clean
    \/ f \in Placed(j) \cup j.residual

Marked(g, f) == \A p \in Procs : g.setBy = p => MayMark(job[p], f)

Marks ==
    \A f \in Files :
      /\ Marked(file[f], f)
      /\ \A q \in Procs : Relied(job[q], f) =>
           Marked(job[q].seen[f], f) /\ job[q].seen[f].setBy # q

\* The baseline a file has, when the project's is b and no person wrote the file.
Wanted(f, b) == IF holder \in Procs /\ f \in Placed(job[holder]) THEN job[holder].req.branch ELSE b

Says(g, b) == g.setBy # User => g.data.baseline = b

Based(b) ==
    \A f \in Files :
      /\ Says(file[f], Wanted(f, b))
      /\ \A q \in Procs :
           /\ f \in Captured(job[q]) /\ job[q].seen[f].id = file[f].id =>
                Says(job[q].seen[f], Wanted(f, b))
           /\ f \in Held(job[q]) => Says(job[q].seen[f], b)

\* Where a split is known, and where it will be.
Reported == record \/ \E p \in Procs : job[p].result = "unrecorded" \/ job[p].pc = "dead"
Spoilt(j) == j.pc \in Publishing /\ (j.aside # {} \/ j.residual # {})

Base == Reported \/ (\E p \in Procs : Spoilt(job[p])) \/ \E b : Based(b)

JInv ==
    /\ IInv
    /\ \A p \in Procs : Careful(job[p])
    /\ \A f \in Files : Formed(file[f].data)
    /\ Ids /\ Marks /\ Base

-----------------------------------------------------------------------------
(* A step of p that writes no file                                          *)

\* Only the publishing process, which holds the lock, has replaced files.
LEMMA PlacedByHolder ==
    ASSUME IInv, NEW q \in Procs, Placed(job[q]) # {}
    PROVE  holder = q /\ job[q].pc \in Publishing
BY DEF IInv, Placed, Receipts, Exclusive, Holding, Publishing

\* What p relies on after the step it relied on before, or it has just read it, and
\* had not marked it.
Looks(p) ==
    \A f \in Files :
      /\ Relied(job'[p], f) => \/ Relied(job[p], f) /\ job'[p].seen[f] = job[p].seen[f]
                              \/ /\ f \notin Held(job[p]) /\ ~MayMark(job[p], f)
                                 /\ job'[p].seen[f] = file[f]
      /\ f \in Captured(job'[p]) => \/ job'[p].seen[f] = file[f]
                                    \/ f \in Captured(job[p]) /\ job'[p].seen[f] = job[p].seen[f]

LEMMA OthersStay ==
    ASSUME IInv, NEW p \in Procs, Becomes(p), NEW q \in Procs, q # p
    PROVE  job'[q] = job[q]
BY DEF Becomes, IInv

LEMMA QuietStep ==
    ASSUME JInv, IInv', NEW p \in Procs, Becomes(p), UNCHANGED file, last' \in {last, last + 1},
           Careful(job'[p]), Looks(p),
           \A f \in Files : MayMark(job[p], f) => MayMark(job'[p], f),
           Base'
    PROVE  JInv'
<1>1. \A q \in Procs \ {p} : job'[q] = job[q]
  BY OthersStay DEF JInv
<1>2. \A j : Captured(j) \subseteq Files
  BY DEF Captured, Files
<1>3. Ids'
  <2>1. last' \in Nat /\ 0..last \subseteq 0..last'
    BY DEF JInv, Ids
  <2>2. ASSUME NEW q \in Procs, NEW f \in Captured(job'[q]) PROVE job'[q].seen[f].id \in 0..last
    BY <1>1, <1>2, <2>2 DEF JInv, Ids, Looks
  <2>3. \A q \in Procs : Captured(job'[q]) = Captured(job[q])'
    BY DEF Captured
  <2> QED BY <2>1, <2>2, <2>3 DEF JInv, Ids
<1>4. \A g, f : f \in Files /\ Marked(g, f) => \A q \in Procs : g.setBy = q => MayMark(job'[q], f)
  BY <1>1 DEF Marked
<1>5. Marks'
  <2> SUFFICES ASSUME NEW f \in Files
               PROVE  /\ \A q \in Procs : file[f].setBy = q => MayMark(job'[q], f)
                      /\ \A q \in Procs : Relied(job'[q], f) =>
                           /\ job'[q].seen[f].setBy # q
                           /\ \A o \in Procs : job'[q].seen[f].setBy = o => MayMark(job'[o], f)
    BY DEF Marks, Marked, MayMark, Placed, Relied, Held, Captured
  <2>1. Marked(file[f], f)
    BY DEF JInv, Marks
  <2>2. ASSUME NEW q \in Procs, Relied(job'[q], f)
        PROVE  Marked(job'[q].seen[f], f) /\ job'[q].seen[f].setBy # q
    <3>1. CASE q # p
      BY <1>1, <2>2, <3>1 DEF JInv, Marks
    <3>2. CASE q = p
      BY <2>1, <2>2, <3>2, SMTT(30) DEF JInv, Marks, Marked, Looks
    <3> QED BY <3>1, <3>2
  <2> QED BY <1>4, <2>1, <2>2
<1>6. \A q \in Procs : Careful(job[q])'
  BY <1>1, SMTT(30) DEF JInv, Careful, Underway, Planned, Captured, Held
<1> QED BY <1>3, <1>5, <1>6 DEF JInv, Formed

\* The same for the baselines: what p relies on is read where no file is replaced.
LEMMA QuietBase ==
    ASSUME JInv, IInv', NEW p \in Procs, Becomes(p), UNCHANGED file, Looks(p), Careful(job'[p]),
           job[p].pc \notin {"done", "dead"}, record => record',
           \A q \in Procs \ {p} : holder' = q <=> holder = q,
           Placed(job'[p]) = Placed(job[p]),
           Placed(job[p]) # {} => job'[p].req = job[p].req,
           Held(job'[p]) = {} \/ Held(job[p]) = Held(job'[p]) \/ Placed(job[p]) = {},
           Spoilt(job[p]) => Spoilt(job'[p]) \/ Reported'
    PROVE  Base'
<1>1. \A q \in Procs \ {p} : job'[q] = job[q]
  BY OthersStay DEF JInv
<1>2. CASE Reported
  <2>1. job[p].pc # "dead" /\ job[p].result # "unrecorded" 
    BY ResultAssumption DEF JInv, Careful
  <2> QED BY <1>1, <1>2, <2>1 DEF Reported, Base
<1>3. CASE \E q \in Procs : Spoilt(job[q])
  <2>1. PICK q \in Procs : Spoilt(job[q])
    BY <1>3
  <2>2. Spoilt(job'[q]) \/ Reported'
    BY <1>1, <2>1
  <2> QED BY <2>2 DEF Base, Spoilt
<1>4. ASSUME NEW b, Based(b) PROVE Based(b)'
  <2>1. ASSUME NEW f \in Files PROVE Wanted(f, b)' = Wanted(f, b)
    <3>1. CASE Placed(job[p]) = {}
      BY <1>1, <3>1 DEF Wanted, Placed
    <3>2. CASE Placed(job[p]) # {}
      <4>1. holder = p /\ holder' = p
        <5>1. Placed(job[p])' # {}
          BY <3>2 DEF Placed
        <5> QED BY <3>2, <5>1, PlacedByHolder DEF JInv, Placed, IInv, Receipts, Exclusive, Holding, Publishing
      <4> QED BY <3>2, <4>1 DEF Wanted, Placed
    <3> QED BY <3>1, <3>2
  <2> SUFFICES ASSUME NEW f \in Files, NEW q \in Procs
               PROVE  /\ Says(file[f], Wanted(f, b)')
                      /\ f \in Captured(job'[q]) /\ job'[q].seen[f].id = file[f].id =>
                           Says(job'[q].seen[f], Wanted(f, b)')
                      /\ f \in Held(job'[q]) => Says(job'[q].seen[f], b)
    BY DEF Based, Says, Captured, Held
  <2>2. CASE q # p
    BY <1>1, <1>4, <2>1, <2>2 DEF Based
  <2>3. CASE q = p
    <3>1. f \in Captured(job'[p]) => f \notin Held(job'[p])
      BY DEF Captured, Held, Publishing
    <3>2. CASE f \notin Held(job'[p])
      BY <1>4, <2>1, <2>3, <3>2 DEF Based, Looks, Relied
    <3>3. CASE f \in Held(job'[p]) /\ Held(job[p]) = Held(job'[p])
      BY <1>4, <2>1, <2>3, <3>1, <3>3 DEF Based, Looks, Relied, Captured, Held, Publishing
    <3>4. CASE f \in Held(job'[p]) /\ Placed(job[p]) = {}
      <4>1. holder' = p
        BY <3>4 DEF IInv, Exclusive, Held, Holding
      <4>2. Wanted(f, b) = b
        BY <3>4, <4>1 DEF Wanted
      <4> QED BY <1>4, <2>1, <2>3, <3>1, <3>4, <4>2 DEF Based, Looks, Relied
    <3> QED BY <3>2, <3>3, <3>4
  <2> QED BY <2>2, <2>3
<1> QED BY <1>2, <1>3, <1>4 DEF Base, JInv

-----------------------------------------------------------------------------
(* The steps outside a publication                                          *)

\* Before a publication a command has marked nothing and left nothing.
LEMMA Unmarked ==
    ASSUME JInv, NEW p \in Procs, job[p].pc \notin Publishing \cup {"done", "dead"}
    PROVE  /\ job[p].aside = {} /\ job[p].residual = {} /\ job[p].result = None
           /\ Placed(job[p]) = {} /\ DOMAIN job[p].written = {} /\ ~Spoilt(job[p])
           /\ \A f \in Files : ~MayMark(job[p], f)
<1>1. Careful(job[p]) /\ Receipts(job[p])
  BY Shaped DEF JInv
<1>2. job[p].aside = {} /\ job[p].residual = {} /\ job[p].result = None
  BY <1>1 DEF Careful, Publishing
<1>3. Placed(job[p]) = {} /\ DOMAIN job[p].written = {}
  BY <1>1 DEF Placed, Receipts, Publishing
<1> QED BY <1>2, <1>3 DEF Spoilt, MayMark, Publishing

LEMMA PlainStep ==
    ASSUME JInv, IInv', NEW p \in Procs, Becomes(p), UNCHANGED <<file, last>>, record => record',
           job[p].pc \notin Publishing \cup {"rename", "done", "dead"},
           job'[p].pc \notin Publishing \cup {"done", "dead"} \/ job'[p].pc = "compare",
           \A q \in Procs \ {p} : holder' = q <=> holder = q,
           job'[p].written = job[p].written, job'[p].aside = job[p].aside,
           job'[p].residual = job[p].residual, job'[p].result = job[p].result,
           \A f \in Captured(job'[p]) :
             \/ job'[p].seen[f] = file[f]
             \/ f \in Captured(job[p]) /\ job'[p].seen[f] = job[p].seen[f],
           \A f \in Held(job'[p]) :
             \/ job'[p].seen[f] = file[f]
             \/ Relied(job[p], f) /\ job'[p].seen[f] = job[p].seen[f],
           job'[p].pc \in {"captureLocal", "capturePortable"} =>
             job'[p].req.op \in {"repo-branch", "hooks-share", "hooks-install", "hooks-list"},
           job'[p].pc = "compare" => job'[p].req.op = "repo-branch",
           job'[p].pc = "recheck" => job'[p].req.op # "config",
           Underway(job'[p]) => Planned(job'[p])
    PROVE  JInv'
<1>1. /\ job[p].aside = {} /\ job[p].residual = {} /\ job[p].result = None
      /\ Placed(job[p]) = {} /\ DOMAIN job[p].written = {} /\ ~Spoilt(job[p])
      /\ \A f \in Files : ~MayMark(job[p], f)
  BY Unmarked
<1>2. Placed(job'[p]) = {}
  BY <1>1 DEF Placed, Publishing
<1>3. Captured(job'[p]) \subseteq Files /\ Held(job'[p]) \subseteq Files /\ Captured(job[p]) \subseteq Files
  BY DEF Captured, Held, Files
<1>4. Looks(p)
  <2>1. Held(job[p]) = {}
    BY DEF Held
  <2> QED BY <1>1, <1>3, <2>1 DEF Looks, Relied
<1>5. \A f \in Captured(job'[p]) \cup Held(job'[p]) : Formed(job'[p].seen[f].data)
  BY <1>3 DEF JInv, Careful, Relied
<1>6. Careful(job'[p])
  BY <1>1, <1>5 DEF Careful, Publishing
<1>7. Base'
  BY <1>1, <1>2, <1>4, <1>6, QuietBase
<1> QED BY <1>1, <1>4, <1>6, <1>7, QuietStep

\* The end of a command that has replaced nothing, or that says so.
LEMMA ReturnForm ==
    ASSUME IInv, NEW p \in Procs, NEW result, Return(p, result)
    PROVE  /\ Becomes(p) /\ job'[p].pc = "done" /\ job'[p].result = result
           /\ job'[p].req = job[p].req /\ job'[p].aside = job[p].aside
           /\ job'[p].residual = {} /\ DOMAIN job'[p].written = {}
           /\ \A q \in Procs \ {p} : holder' = q <=> holder = q
<1> DEFINE r == [Idle EXCEPT !.pc = "done", !.req = job[p].req, !.result = result,
                             !.aside = job[p].aside]
<1>1. /\ Shape(r) /\ r.pc = "done" /\ r.result = result /\ r.req = job[p].req
      /\ r.aside = job[p].aside /\ r.residual = {} /\ r.written = [f \in {} |-> None]
  <2>1. Shape(Idle) /\ Idle.written = [f \in {} |-> None] /\ Idle.residual = {}
    BY DEF Shape, Idle, Fields
  <2> QED BY <2>1 DEF Shape, Fields
<1>2. job' = [job EXCEPT ![p] = r] /\ holder' = IF holder = p THEN None ELSE holder
  BY DEF Return
<1> HIDE DEF r
<1>3. Becomes(p) /\ job'[p] = r
  BY <1>1, <1>2, Becoming
<1>4. None \notin Procs
  BY DistinctAssumption
<1> QED BY <1>1, <1>2, <1>3, <1>4

LEMMA ReturnStep ==
    ASSUME JInv, IInv', NEW p \in Procs, NEW result, Return(p, result), UNCHANGED <<file, last>>,
           record => record', job[p].pc \notin {"done", "dead"},
           Base' \/ (Placed(job[p]) = {} /\ ~Spoilt(job[p])),
           result \in Clean => job[p].aside = {} /\ \A f \in Files : ~MayMark(job[p], f)
    PROVE  JInv'
<1>1. /\ Becomes(p) /\ job'[p].pc = "done" /\ job'[p].result = result
      /\ job'[p].aside = job[p].aside /\ job'[p].residual = {} /\ DOMAIN job'[p].written = {}
      /\ \A q \in Procs \ {p} : holder' = q <=> holder = q
  BY ReturnForm DEF JInv
<1>2. Captured(job'[p]) = {} /\ Held(job'[p]) = {} /\ ~Underway(job'[p])
  BY <1>1 DEF Captured, Held, Underway, Publishing
<1>3. Careful(job'[p]) /\ Looks(p)
  BY <1>1, <1>2 DEF Careful, Looks, Relied, Publishing
<1>4. \A f \in Files : MayMark(job[p], f) => MayMark(job'[p], f)
  BY <1>1 DEF MayMark
<1>5. Placed(job'[p]) = {}
  BY <1>1 DEF Placed
<1>6. Base'
  BY <1>1, <1>2, <1>3, <1>5, QuietBase
<1> QED BY <1>1, <1>3, <1>4, <1>6, QuietStep

\* Such an end outside a publication.
LEMMA EndStep ==
    ASSUME JInv, IInv', NEW p \in Procs, NEW result, Return(p, result), UNCHANGED <<file, last>>,
           record => record', job[p].pc \notin Publishing \cup {"done", "dead"}
    PROVE  JInv'
BY Unmarked, ReturnStep

LEMMA StartSafe ==
    ASSUME JInv, IInv', NEW p \in Procs, Start(p)
    PROVE  JInv'
<1>1. PICK req \in Requests :
        job' = [job EXCEPT ![p].pc = IF req.op = "config" THEN "lock" ELSE "captureLocal",
                           ![p].req = req, ![p].known = file["local"].data.baseline]
  BY DEF Start
<1>2. PICK pc \in {"lock", "captureLocal"} : pc = IF req.op = "config" THEN "lock" ELSE "captureLocal"
  OBVIOUS
<1>3. req.op \in {"repo-branch", "hooks-share", "hooks-install", "hooks-list", "config"}
  BY <1>1 DEF Requests
<1>4. /\ Becomes(p) /\ job'[p].pc = pc /\ job'[p].req = req
      /\ job'[p].written = job[p].written /\ job'[p].aside = job[p].aside
      /\ job'[p].residual = job[p].residual /\ job'[p].result = job[p].result
  <2> DEFINE known == file["local"].data.baseline
             r == [job[p] EXCEPT !.pc = pc, !.req = req, !.known = known]
  <2>1. job' = [job EXCEPT ![p] = r]
    BY <1>1, <1>2, Shaped DEF JInv
  <2> HIDE DEF known
  <2>2. /\ Shape(r) /\ r.pc = pc /\ r.req = req /\ r.written = job[p].written
        /\ r.aside = job[p].aside /\ r.residual = job[p].residual /\ r.result = job[p].result
    BY Shaped, ZenonT(60) DEF Shape, Fields, JInv
  <2> HIDE DEF r
  <2> QED BY <2>1, <2>2, Becoming DEF JInv
<1>5. job[p].pc = "idle" /\ UNCHANGED <<file, last, holder, record>>
  BY DEF Start
<1>6. Captured(job'[p]) = {} /\ Held(job'[p]) = {} /\ ~Underway(job'[p])
  BY <1>2, <1>4 DEF Captured, Held, Underway, Publishing
<1> QED BY <1>2, <1>3, <1>4, <1>5, <1>6, PlainStep DEF Publishing

LEMMA CaptureLocalSafe ==
    ASSUME JInv, IInv', NEW p \in Procs, CaptureLocal(p)
    PROVE  JInv'
<1>1. UNCHANGED <<file, last, record>> /\ job[p].pc = "captureLocal"
  BY DEF CaptureLocal
<1>2. CASE Return(p, "refused")
  BY <1>1, <1>2, EndStep DEF Publishing
<1>3. CASE ~Return(p, "refused")
  <2> DEFINE seen == [local |-> file["local"]]
  <2>1. PICK at :
          /\ job' = [job EXCEPT ![p].pc = "capturePortable", ![p].seen = seen, ![p].tip = at]
          /\ UNCHANGED holder
    BY <1>3 DEF CaptureLocal
  <2>2. seen["local"] = file["local"]
    OBVIOUS
  <2> HIDE DEF seen
  <2>3. /\ Becomes(p) /\ job'[p].pc = "capturePortable" /\ job'[p].req = job[p].req
        /\ job'[p].written = job[p].written /\ job'[p].aside = job[p].aside
        /\ job'[p].residual = job[p].residual /\ job'[p].result = job[p].result
        /\ job'[p].seen = seen
    <3> DEFINE r == [job[p] EXCEPT !.pc = "capturePortable", !.seen = seen, !.tip = at]
    <3>1. job' = [job EXCEPT ![p] = r]
      BY <2>1, Shaped DEF JInv
    <3>2. /\ Shape(r) /\ r.pc = "capturePortable" /\ r.req = job[p].req /\ r.written = job[p].written
          /\ r.aside = job[p].aside /\ r.residual = job[p].residual /\ r.result = job[p].result
          /\ r.seen = seen
      BY Shaped, ZenonT(60) DEF Shape, Fields, JInv
    <3> HIDE DEF r
    <3> QED BY <3>1, <3>2, Becoming DEF JInv
  <2>4. Captured(job'[p]) = {"local"} /\ Held(job'[p]) = {} /\ ~Underway(job'[p])
    BY <2>3 DEF Captured, Held, Underway, Publishing
  <2>5. job[p].req.op \in {"repo-branch", "hooks-share", "hooks-install", "hooks-list"}
    BY <1>1 DEF JInv, Careful
  <2> QED BY <1>1, <2>1, <2>2, <2>3, <2>4, <2>5, PlainStep DEF Publishing
<1> QED BY <1>2, <1>3

\* A plan sets the baselines it says.
SetsBaselines(after, req, local, portable) ==
    /\ \A f \in DOMAIN after : Formed(after[f])
    /\ req.op = "repo-branch" =>
         DOMAIN after = Files /\ \A f \in Files : after[f].baseline = req.branch
    /\ req.op # "repo-branch" => \A f \in DOMAIN after :
         \/ f = "local" /\ after[f].baseline = local.baseline
         \/ f = "portable" /\ after[f].baseline = portable.baseline

LEMMA Plans ==
    ASSUME NEW req, NEW local, NEW portable, Formed(local), Formed(portable),
           req.op \in {"repo-branch", "hooks-share", "hooks-install", "hooks-list"},
           Plan(req, local, portable).result = None,
           NEW after, after = Plan(req, local, portable).after
    PROVE  SetsBaselines(after, req, local, portable)
<1> SUFFICES /\ \A f \in DOMAIN after : Formed(after[f])
             /\ req.op = "repo-branch" =>
                  DOMAIN after = Files /\ \A f \in Files : after[f].baseline = req.branch
             /\ req.op # "repo-branch" => \A f \in DOMAIN after :
                  \/ f = "local" /\ after[f].baseline = local.baseline
                  \/ f = "portable" /\ after[f].baseline = portable.baseline
  BY DEF SetsBaselines
<1>1. CASE req.op = "repo-branch"
  <2>1. after = [f \in Files |-> [(IF f = "local" THEN local ELSE portable) EXCEPT !.baseline = req.branch]]
    BY <1>1 DEF Plan, BranchPlan
  <2>2. ASSUME NEW f \in Files
        PROVE  Formed(after[f]) /\ after[f].baseline = req.branch
    BY <2>1 DEF Formed
  <2> QED BY <1>1, <2>1, <2>2
<1>2. CASE req.op = "hooks-share"
  <2>1. after = [portable |-> [portable EXCEPT !.hooks = local.hooks]]
    BY <1>2 DEF Plan, Share
  <2> DEFINE d == [portable EXCEPT !.hooks = local.hooks]
  <2>2. DOMAIN after = {"portable"} /\ after["portable"] = d
    BY <2>1
  <2>3. Formed(d) /\ d.baseline = portable.baseline
    BY DEF Formed
  <2> HIDE DEF d
  <2> QED BY <1>2, <2>2, <2>3
<1>3. CASE req.op = "hooks-install"
  <2>1. after = [local |-> [local EXCEPT !.hooks = portable.hooks]]
    BY <1>3 DEF Plan, Install
  <2> DEFINE d == [local EXCEPT !.hooks = portable.hooks]
  <2>2. DOMAIN after = {"local"} /\ after["local"] = d
    BY <2>1
  <2>3. Formed(d) /\ d.baseline = local.baseline
    BY DEF Formed
  <2> HIDE DEF d
  <2> QED BY <1>3, <2>2, <2>3
<1>4. CASE req.op = "hooks-list"
  BY <1>4 DEF Plan, List
<1> QED BY <1>1, <1>2, <1>3, <1>4

LEMMA CapturePortableSafe ==
    ASSUME JInv, IInv', NEW p \in Procs, CapturePortable(p)
    PROVE  JInv'
<1>1. UNCHANGED <<file, last, record>> /\ job[p].pc = "capturePortable"
  BY DEF CapturePortable
<1>2. CASE \E result : Return(p, result)
  BY <1>1, <1>2, EndStep, SMTT(30) DEF Publishing
<1>3. CASE ~\E result : Return(p, result)
  <2> DEFINE seen == [local |-> job[p].seen["local"], portable |-> file["portable"]]
             plan == Plan(job[p].req, seen.local.data, seen.portable.data)
             after == plan.after
  <2>1. /\ job' = [job EXCEPT ![p].pc = "lock", ![p].seen = seen, ![p].after = after]
        /\ UNCHANGED holder /\ plan.result = None
    BY <1>3, Zenon DEF CapturePortable
  <2>2. seen["local"] = job[p].seen["local"] /\ seen["portable"] = file["portable"]
    OBVIOUS
  <2>3. /\ job[p].req.op \in {"repo-branch", "hooks-share", "hooks-install", "hooks-list"}
        /\ Formed(seen["local"].data) /\ Formed(seen["portable"].data) /\ Captured(job[p]) = {"local"}
    BY <1>1, <2>2 DEF JInv, Careful, Captured, Files
  <2>4. /\ \A f \in DOMAIN after : Formed(after[f])
        /\ job[p].req.op = "repo-branch" =>
             DOMAIN after = Files /\ \A f \in Files : after[f].baseline = job[p].req.branch
        /\ job[p].req.op # "repo-branch" => \A f \in DOMAIN after :
             f \in Files /\ after[f].baseline = seen[f].data.baseline
    <3> PICK local, portable : local = seen["local"].data /\ portable = seen["portable"].data
      OBVIOUS
    <3>1. /\ Plan(job[p].req, local, portable).result = None
          /\ after = Plan(job[p].req, local, portable).after
      BY <2>1
    <3> HIDE DEF seen, plan, after
    <3>3. /\ job[p].req.op \in {"repo-branch", "hooks-share", "hooks-install", "hooks-list"}
          /\ Formed(local) /\ Formed(portable)
      BY <2>3
    <3>2. /\ \A f \in DOMAIN after : Formed(after[f])
          /\ job[p].req.op = "repo-branch" =>
               DOMAIN after = Files /\ \A f \in Files : after[f].baseline = job[p].req.branch
          /\ job[p].req.op # "repo-branch" => \A f \in DOMAIN after :
               \/ f = "local" /\ after[f].baseline = seen["local"].data.baseline
               \/ f = "portable" /\ after[f].baseline = seen["portable"].data.baseline
      <4>1. SetsBaselines(after, job[p].req, local, portable)
        BY ONLY <3>1, <3>3, Plans
      <4> QED BY <4>1 DEF SetsBaselines
    <3> QED BY <3>2 DEF Files
  <2> HIDE DEF seen, plan, after
  <2>5. /\ Becomes(p) /\ job'[p].pc = "lock" /\ job'[p].req = job[p].req
        /\ job'[p].written = job[p].written /\ job'[p].aside = job[p].aside
        /\ job'[p].residual = job[p].residual /\ job'[p].result = job[p].result
        /\ job'[p].seen = seen /\ job'[p].after = after
    <3> DEFINE r == [job[p] EXCEPT !.pc = "lock", !.seen = seen, !.after = after]
    <3>1. job' = [job EXCEPT ![p] = r]
      BY <2>1, Shaped DEF JInv
    <3>2. /\ Shape(r) /\ r.pc = "lock" /\ r.req = job[p].req /\ r.written = job[p].written
          /\ r.aside = job[p].aside /\ r.residual = job[p].residual /\ r.result = job[p].result
          /\ r.seen = seen /\ r.after = after
      BY Shaped, ZenonT(60) DEF Shape, Fields, JInv
    <3> HIDE DEF r
    <3> QED BY <3>1, <3>2, Becoming DEF JInv
  <2>6. Captured(job'[p]) = Files /\ Held(job'[p]) = {} /\ Planned(job'[p])
    BY <2>3, <2>4, <2>5 DEF Captured, Held, Planned, Publishing
  <2>7. \A f \in Captured(job'[p]) :
          \/ job'[p].seen[f] = file[f]
          \/ f \in Captured(job[p]) /\ job'[p].seen[f] = job[p].seen[f]
    BY <2>2, <2>3, <2>5, <2>6 DEF Files
  <2> QED BY <1>1, <2>1, <2>5, <2>6, <2>7, PlainStep DEF Publishing
<1> QED BY <1>2, <1>3

\* A turn before the files are relied on, or under the lock once they are verified.
LEMMA TurnPlainly ==
    ASSUME JInv, IInv', NEW p \in Procs, NEW pc, Turns(p, pc), UNCHANGED <<file, last, record>>,
           \A q \in Procs \ {p} : holder' = q <=> holder = q,
           job[p].pc \in {"lock", "authorize", "recheck"},
           pc = "authorize" \/ (job[p].req.op # "config" /\ SourcesHold(p)),
           pc = "compare" => job[p].req.op = "repo-branch",
           pc \in {"authorize", "recheck", "rename", "compare"}
    PROVE  JInv'
<1>1. Captured(job[p]) = IF job[p].req.op = "config" THEN {} ELSE Files
  BY DEF Captured
<1>2. Captured(job'[p]) \subseteq Captured(job[p])
  BY <1>1 DEF Captured, Turns
<1>3. \A f \in Held(job'[p]) : Relied(job[p], f)
  BY <1>1 DEF Held, Turns, Relied, SourcesHold, Same, Publishing
<1>4. Underway(job'[p]) => Planned(job'[p])
  <2>1. Underway(job'[p]) => Underway(job[p])
    BY DEF Underway, Turns, Publishing
  <2>2. Underway(job[p]) => Planned(job[p])
    BY DEF JInv, Careful
  <2> QED BY <2>1, <2>2 DEF Turns, Planned
<1> QED BY <1>2, <1>3, <1>4, PlainStep DEF Turns, Publishing

LEMMA TakeLockSafe ==
    ASSUME JInv, IInv', NEW p \in Procs, TakeLock(p)
    PROVE  JInv'
<1>1. job[p].pc = "lock" /\ UNCHANGED <<file, last, record>> /\ holder = None /\ holder' = p
  BY DEF TakeLock
<1>2. Turns(p, "authorize")
  BY Moves DEF TakeLock, JInv
<1>3. None \notin Procs
  BY DistinctAssumption
<1> QED BY <1>1, <1>2, <1>3, TurnPlainly

LEMMA AuthorizeSafe ==
    ASSUME JInv, IInv', NEW p \in Procs, Authorize(p)
    PROVE  JInv'
<1>1. UNCHANGED <<file, last, record>> /\ job[p].pc = "authorize" /\ job[p].req.op # "config"
  BY DEF Authorize
<1>2. CASE \E result : Return(p, result)
  BY <1>1, <1>2, EndStep DEF Publishing
<1>3. CASE ~\E result : Return(p, result)
  <2>1. PICK pc \in {"compare", "recheck"} :
          /\ job' = [job EXCEPT ![p].pc = pc] /\ UNCHANGED holder /\ SourcesHold(p)
          /\ pc = "compare" => job[p].req.op = "repo-branch"
    BY <1>3 DEF Authorize
  <2>2. Turns(p, pc)
    BY <2>1, Moves DEF JInv
  <2> QED BY <1>1, <2>1, <2>2, TurnPlainly
<1> QED BY <1>2, <1>3

LEMMA RecheckSafe ==
    ASSUME JInv, IInv', NEW p \in Procs, Recheck(p)
    PROVE  JInv'
<1>1. UNCHANGED <<file, last, record>> /\ job[p].pc = "recheck"
  BY DEF Recheck
<1>2. CASE \E result : Return(p, result)
  BY <1>1, <1>2, EndStep DEF Publishing
<1>3. CASE ~\E result : Return(p, result)
  <2>1. Turns(p, "rename") /\ UNCHANGED holder /\ SourcesHold(p)
    BY <1>3, LookMoves DEF Recheck, JInv
  <2>2. CASE job[p].req.op # "config"
    BY <1>1, <2>1, <2>2, TurnPlainly
  <2>3. CASE job[p].req.op = "config"
    BY <1>1, <2>3 DEF JInv, Careful
  <2> QED BY <2>2, <2>3
<1> QED BY <1>2, <1>3

LEMMA ReadSettingSafe ==
    ASSUME JInv, IInv', NEW p \in Procs, ReadSetting(p)
    PROVE  JInv'
<1>1. /\ UNCHANGED <<file, last, holder, record>>
      /\ job[p].pc = "authorize" /\ job[p].req.op = "config"
  BY DEF ReadSetting
<1> DEFINE d == [file["local"].data EXCEPT !.root = job[p].req.set]
           after == [local |-> d]
           r == [job[p] EXCEPT !.pc = "rename", !.seen = file, !.looked = file, !.after = after]
<1>2. job' = [job EXCEPT ![p] = r]
  BY Shaped DEF ReadSetting, JInv
<1>3. Formed(d) /\ d.baseline = file["local"].data.baseline
  BY DEF JInv, Formed, Files
<1>4. DOMAIN after = {"local"} /\ after["local"] = d
  OBVIOUS
<1> HIDE DEF d, after
<1>5. /\ Shape(r) /\ r.pc = "rename" /\ r.written = job[p].written /\ r.seen = file
      /\ r.req = job[p].req /\ r.aside = job[p].aside /\ r.residual = job[p].residual
      /\ r.result = job[p].result /\ r.after = after
  BY Shaped, ZenonT(60) DEF Shape, Fields, JInv
<1> HIDE DEF r
<1>6. Becomes(p) /\ job'[p] = r
  BY <1>2, <1>5, Becoming DEF JInv
<1>7. Captured(r) = {} /\ Planned(r)
  BY <1>1, <1>3, <1>4, <1>5 DEF Captured, Planned, Files
<1> QED BY <1>1, <1>5, <1>6, <1>7, PlainStep DEF Publishing

LEMMA EndsSafe ==
    ASSUME JInv, IInv', NEW p \in Procs, LockFails(p) \/ Readback(p)
    PROVE  JInv'
<1>1. /\ UNCHANGED <<file, last, record>> /\ \E result : Return(p, result)
      /\ job[p].pc \in {"lock", "readback"}
  BY DEF LockFails, Readback
<1> QED BY <1>1, EndStep DEF Publishing


-----------------------------------------------------------------------------
(* The steps of a publication                                               *)

\* What a publication carries along.
Carries(p) ==
    /\ Becomes(p) /\ job[p].pc \in Publishing \ {"record"} /\ job'[p].pc \in Publishing
    /\ job'[p].req = job[p].req /\ job'[p].seen = job[p].seen /\ job'[p].after = job[p].after
    /\ job'[p].result = job[p].result
    /\ UNCHANGED <<holder, record>>
    /\ job'[p].aside # {} => \/ job'[p].pc \in {"rollback", "record"}
                             \/ job'[p].pc = "observe" /\ job'[p].failed
    /\ job'[p].residual # {} => job'[p].pc \in {"rollback", "record"}
    /\ job'[p].pc = "record" => job'[p].aside # {} \/ job'[p].residual # {}
    /\ job'[p].pc = "verify" => DOMAIN job'[p].written = Files

LEMMA Carried ==
    ASSUME JInv, NEW p \in Procs, Carries(p)
    PROVE  /\ Careful(job'[p]) /\ Captured(job'[p]) = {} /\ Captured(job[p]) = {}
           /\ Held(job'[p]) = Files /\ Held(job[p]) = Files
           /\ holder = p /\ holder' = p
<1>1. /\ Captured(job'[p]) = {} /\ Captured(job[p]) = {}
      /\ Held(job'[p]) = Files /\ Held(job[p]) = Files
      /\ Underway(job[p]) /\ job[p].pc \in Holding
  BY DEF Carries, Captured, Held, Underway, Publishing, Holding
<1>2. Planned(job'[p]) /\ \A f \in Files : Formed(job'[p].seen[f].data)
  BY <1>1 DEF JInv, Careful, Carries, Planned
<1>3. job'[p].req.op = "repo-branch" /\ job'[p].result = None
  BY DEF JInv, Careful, Carries, Publishing
<1>4. Careful(job'[p])
  BY <1>1, <1>2, <1>3 DEF Careful, Carries, Publishing
<1>5. holder = p /\ holder' = p
  BY <1>1 DEF JInv, IInv, Exclusive, Carries
<1> QED BY <1>1, <1>4, <1>5

LEMMA CarryStep ==
    ASSUME JInv, IInv', NEW p \in Procs, Carries(p), UNCHANGED file, last' \in {last, last + 1},
           Placed(job[p]) \cup job[p].residual \subseteq Placed(job'[p]) \cup job'[p].residual
             \/ job'[p].pc = "record",
           Spoilt(job'[p]) \/ (Placed(job'[p]) = Placed(job[p]) /\ ~Spoilt(job[p]))
    PROVE  JInv'
<1>1. /\ Careful(job'[p]) /\ Captured(job'[p]) = {} /\ Held(job'[p]) = Files /\ Held(job[p]) = Files
      /\ holder = p /\ holder' = p
  BY Carried
<1>2. Looks(p)
  BY <1>1 DEF Looks, Relied, Carries
<1>3. \A f \in Files : MayMark(job[p], f) => MayMark(job'[p], f)
  BY DEF MayMark, Carries, Publishing
<1>4. Base'
  <2>1. CASE Spoilt(job'[p])
    BY <2>1 DEF Base, Spoilt
  <2>2. CASE Placed(job'[p]) = Placed(job[p]) /\ ~Spoilt(job[p])
    <3>1. job[p].pc \notin {"done", "dead"}
      BY DEF Carries, Publishing
    <3> QED BY <1>1, <1>2, <2>2, <3>1, QuietBase DEF Carries
  <2> QED BY <2>1, <2>2
<1> QED BY <1>1, <1>2, <1>3, <1>4, QuietStep DEF Carries

\* A publication turns to its next stage.
LEMMA CarriedTurn ==
    ASSUME JInv, IInv', NEW p \in Procs, NEW pc, Turns(p, pc), UNCHANGED <<file, last, holder, record>>,
           job[p].pc \in Publishing \ {"record", "observe"}, pc \in Publishing \ {"observe", "verify"},
           job[p].aside # {} \/ job[p].residual # {} => pc \in {"rollback", "record"},
           pc = "record" => job[p].aside # {} \/ job[p].residual # {}
    PROVE  JInv'
<1>1. Carries(p)
  BY DEF Carries, Turns
<1>2. Placed(job'[p]) = Placed(job[p])
  BY DEF Turns, Placed
<1>3. Spoilt(job'[p]) <=> Spoilt(job[p])
  BY DEF Turns, Spoilt
<1> QED BY <1>1, <1>2, <1>3, CarryStep DEF Turns

LEMMA CompareSafe ==
    ASSUME JInv, IInv', NEW p \in Procs, Compare(p)
    PROVE  JInv'
<1>1. UNCHANGED <<file, last, record>> /\ job[p].pc = "compare"
  BY DEF Compare
<1>2. job[p].aside = {} /\ job[p].residual = {}
  BY <1>1 DEF JInv, Careful
<1>3. CASE Written(p) = {} /\ Return(p, "canceled")
  <2>1. Placed(job[p]) = {} /\ ~Spoilt(job[p]) /\ \A f \in Files : ~MayMark(job[p], f)
    BY <1>1, <1>2, <1>3 DEF Placed, Written, Spoilt, MayMark
  <2> QED BY <1>1, <1>2, <1>3, <2>1, ReturnStep
<1>4. CASE ~(Written(p) = {} /\ Return(p, "canceled"))
  <2>1. UNCHANGED holder /\ \E pc \in {"exchange", "rollback"} : Turns(p, pc)
    BY <1>4, Moves, FailureMoves DEF Compare, GoTo, RollBack, JInv
  <2> QED BY <1>1, <1>2, <2>1, CarriedTurn DEF Publishing
<1> QED BY <1>3, <1>4

LEMMA RestoredSafe ==
    ASSUME JInv, IInv', NEW p \in Procs, Restored(p)
    PROVE  JInv'
<1>1. UNCHANGED <<file, last, record>> /\ job[p].pc = "rollback" /\ Written(p) = {}
  BY DEF Restored
<1>2. CASE job[p].residual = {} /\ job[p].aside = {}
  <2>1. Placed(job[p]) = {} /\ ~Spoilt(job[p]) /\ \A f \in Files : ~MayMark(job[p], f)
    BY <1>1, <1>2 DEF Placed, Written, Spoilt, MayMark
  <2> QED BY <1>1, <1>2, <2>1, ReturnStep DEF Restored
<1>3. CASE ~(job[p].residual = {} /\ job[p].aside = {})
  <2>1. UNCHANGED holder /\ Turns(p, "record")
    BY <1>3, Moves DEF Restored, GoTo, JInv
  <2> QED BY <1>1, <1>3, <2>1, CarriedTurn DEF Publishing
<1> QED BY <1>2, <1>3

LEMMA WriteRecordSafe ==
    ASSUME JInv, IInv', NEW p \in Procs, WriteRecord(p)
    PROVE  JInv'
<1>1. UNCHANGED <<file, last>> /\ job[p].pc = "record"
  BY DEF WriteRecord
<1>2. PICK result \in {"incomplete", "unrecorded"} :
        Return(p, result) /\ (record' \/ (result = "unrecorded" /\ UNCHANGED record))
  BY DEF WriteRecord
<1>3. job'[p].result = result
  BY <1>2, ReturnForm DEF JInv
<1>4. Base'
  BY <1>2, <1>3 DEF Base, Reported
<1> QED BY <1>1, <1>2, <1>4, ReturnStep DEF Clean

\* Once a publication completes, both files have its baseline, and that is the project's.
LEMMA Completing ==
    ASSUME JInv, NEW p \in Procs, job[p].pc = "verify", AsPublished(p), Written(p) = Files
    PROVE  \A f \in Files : file[f].data.baseline = job[p].req.branch
<1>1. Planned(job[p]) /\ job[p].req.op = "repo-branch"
  BY DEF JInv, Careful, Underway, Publishing
<1> QED BY <1>1 DEF Planned, AsPublished


LEMMA CompletedBase ==
    ASSUME JInv, IInv', NEW p \in Procs, job[p].pc = "verify", AsPublished(p),
           Return(p, "completed"), UNCHANGED <<file, record>>
    PROVE  Base'
<1>1. /\ Becomes(p) /\ job'[p].pc = "done" /\ job'[p].result = "completed"
  BY ReturnForm DEF JInv
<1>2. \A q \in Procs \ {p} : job'[q] = job[q]
  BY <1>1, OthersStay DEF JInv
<1>3. DOMAIN job[p].written = Files /\ ~Spoilt(job[p]) /\ job[p].result = None
  BY DEF JInv, Careful, Spoilt
<1>4. \A q \in Procs \ {p} : job[q].pc \notin Holding
  BY DEF JInv, IInv, Exclusive, Holding, Publishing
<1>5. holder = p /\ holder' = None /\ None \notin Procs
  BY DistinctAssumption DEF JInv, IInv, Exclusive, Holding, Publishing, Return
<1>6. CASE Reported
  <2>1. job[p].result # "unrecorded" /\ job[p].pc # "dead"
    BY <1>3, ResultAssumption
  <2>2. record' \/ \E q \in Procs \ {p} : job'[q].result = "unrecorded" \/ job'[q].pc = "dead"
    BY <1>2, <1>6, <2>1 DEF Reported
  <2> QED BY <2>2 DEF Reported, Base
<1>7. ~\E q \in Procs : Spoilt(job[q])
  BY <1>3, <1>4 DEF Spoilt, Holding
<1>8. ASSUME NEW b, Based(b), NEW c, c = job[p].req.branch PROVE Based(c)'
  <2>1. \A f \in Files : Wanted(f, b) = c /\ Wanted(f, c)' = c
    BY <1>3, <1>5, <1>8 DEF Wanted, Placed
  <2>2. \A f \in Files : file[f].data.baseline = c
    BY <1>3, <1>8, Completing DEF Written
  <2> SUFFICES ASSUME NEW f \in Files, NEW q \in Procs
               PROVE  /\ f \in Captured(job'[q]) /\ job'[q].seen[f].id = file[f].id =>
                           Says(job'[q].seen[f], c)
                      /\ f \notin Held(job'[q])
    BY <2>1, <2>2 DEF Based, Says, Captured, Held
  <2>3. CASE q = p
    BY <1>1, <2>3 DEF Captured, Held, Publishing
  <2>4. CASE q # p
    BY <1>2, <1>4, <1>8, <2>1, <2>4 DEF Based, Held, Holding
  <2> QED BY <2>3, <2>4
<1> QED BY <1>6, <1>7, <1>8 DEF Base, JInv

LEMMA VerifySafe ==
    ASSUME JInv, IInv', NEW p \in Procs, Verify(p)
    PROVE  JInv'
<1>1. UNCHANGED <<file, last, record>> /\ job[p].pc = "verify"
  BY DEF Verify
<1>2. CASE AsPublished(p) /\ Return(p, "completed")
  <2>1. Base'
    BY <1>1, <1>2, CompletedBase
  <2> QED BY <1>1, <1>2, <2>1, ReturnStep DEF Clean
<1>3. CASE RollBack(p)
  <2>1. UNCHANGED holder /\ Turns(p, "rollback")
    BY <1>3, FailureMoves DEF RollBack, JInv
  <2> QED BY <1>1, <2>1, CarriedTurn DEF Publishing
<1> QED BY <1>2, <1>3 DEF Verify

LEMMA ObserveSafe ==
    ASSUME JInv, IInv', NEW p \in Procs, Observe(p)
    PROVE  JInv'
<1> DEFINE f == Target(p)
           observed == file[f].data = job[p].after[f]
           next == IF ~observed \/ job[p].failed THEN "rollback"
                   ELSE IF f = "local" THEN "verify" ELSE "compare"
           written == IF observed THEN Receipt(p, f) ELSE job[p].written
           residual == IF observed THEN job[p].residual ELSE job[p].residual \cup {f}
           r == [job[p] EXCEPT !.written = written, !.residual = residual, !.pc = next]
<1>1. job[p].pc = "observe" /\ UNCHANGED <<file, last, holder, record>> /\ f \in Files
  BY DEF Observe, Target, Files
<1>2. job' = [job EXCEPT ![p] = r]
  BY Shaped DEF Observe, JInv
<1>3. job[p].residual = {} /\ (job[p].aside # {} => job[p].failed)
  BY <1>1 DEF JInv, Careful
<1>4. Placed(job[p]) = DOMAIN job[p].written \cup {f}
  BY <1>1 DEF Placed, Target, Written
<1>5. \/ DOMAIN written = DOMAIN job[p].written \cup {f} /\ residual = {}
      \/ DOMAIN written = DOMAIN job[p].written /\ residual = {f} /\ next = "rollback"
  BY <1>3 DEF Receipt, Written
<1>6. next = "verify" => DOMAIN written = Files
  <2>1. ASSUME next = "verify"
        PROVE  "portable" \in DOMAIN job[p].written /\ f = "local" /\ DOMAIN written = Written(p) \cup {f}
    BY <2>1 DEF Target, Receipt, Written
  <2>2. DOMAIN job[p].written \subseteq Files
    BY Shaped DEF JInv, Receipts
  <2> QED BY <2>1, <2>2 DEF Files, Written
<1>7. next \in {"rollback", "verify", "compare"} /\ (job[p].failed => next = "rollback")
  OBVIOUS
<1> HIDE DEF written, residual, next
<1>8. /\ Shape(r) /\ r.pc = next /\ r.written = written /\ r.residual = residual
      /\ r.after = job[p].after /\ r.seen = job[p].seen /\ r.req = job[p].req
      /\ r.result = job[p].result /\ r.aside = job[p].aside
  BY Shaped, ZenonT(40) DEF Shape, Fields, JInv
<1> HIDE DEF r, f
<1>9. Becomes(p) /\ job'[p] = r
  BY <1>2, <1>8, Becoming DEF JInv
<1>10. Carries(p)
  BY <1>1, <1>3, <1>5, <1>6, <1>7, <1>8, <1>9 DEF Carries, Publishing
<1>11. Placed(r) = DOMAIN written
  BY <1>7, <1>8 DEF Placed
<1>12. CASE DOMAIN written = DOMAIN job[p].written \cup {f} /\ residual = {}
  <2>1. Placed(r) = Placed(job[p]) /\ (Spoilt(job[p]) => Spoilt(r))
    BY <1>4, <1>7, <1>8, <1>11, <1>12, <1>3 DEF Spoilt, Publishing
  <2> QED BY <1>1, <1>3, <1>9, <1>10, <2>1, CarryStep
<1>13. CASE DOMAIN written = DOMAIN job[p].written /\ residual = {f} /\ next = "rollback"
  <2>1. Spoilt(r)
    BY <1>8, <1>13 DEF Spoilt, Publishing
  <2>2. Placed(job[p]) \cup job[p].residual \subseteq Placed(r) \cup r.residual
    BY <1>3, <1>4, <1>8, <1>11, <1>13
  <2> QED BY <1>1, <1>9, <1>10, <2>1, <2>2, CarryStep
<1> QED BY <1>5, <1>12, <1>13


-----------------------------------------------------------------------------
(* The steps that write                                                     *)

\* p writes f, where it says that it may have given the baseline.
LEMMA WriteStep ==
    ASSUME JInv, IInv', NEW p \in Procs, Becomes(p), job[p].pc \in Holding,
           NEW f \in Files, NEW data, NEW setBy, Write(p, f, data, setBy), Formed(data),
           Careful(job'[p]), Captured(job'[p]) = {},
           \A h \in Held(job'[p]) : h \in Held(job[p]) /\ job'[p].seen[h] = job[p].seen[h],
           \A h \in Files \ {f} : MayMark(job[p], h) => MayMark(job'[p], h),
           setBy = p => MayMark(job'[p], f),
           \A q \in Procs \ {p} : setBy = q => MayMark(job[q], f),
           Base'
    PROVE  JInv'
<1>1. \A q \in Procs \ {p} : job'[q] = job[q] /\ Held(job[q]) = {}
  BY OthersStay DEF JInv, IInv, Exclusive, Held, Holding
<1>2. /\ last' = last + 1 /\ last \in Nat
      /\ file'[f].id = last + 1 /\ file'[f].setBy = setBy /\ file'[f].data = data
      /\ \A h \in Files \ {f} : file'[h] = file[h]
  BY Shaped DEF Write, JInv, Ids
<1>3. \A j : Captured(j) \subseteq Files /\ Held(j) \subseteq Files
  BY DEF Captured, Held, Files
<1>4. Ids'
  <2>1. \A h \in Files : file'[h].id \in 0..last'
    BY <1>2 DEF JInv, Ids
  <2>2. ASSUME NEW q \in Procs, NEW h \in Captured(job'[q]) PROVE job'[q].seen[h].id \in 0..last'
    BY <1>1, <1>2, <2>2 DEF JInv, Ids
  <2>3. \A q \in Procs : Captured(job'[q]) = Captured(job[q])'
    BY DEF Captured
  <2> QED BY <1>2, <2>1, <2>2, <2>3 DEF Ids
<1>5. ASSUME NEW h \in Files, NEW q \in Procs, Relied(job[q], h)'
      PROVE  /\ Relied(job[q], h) /\ job'[q].seen[h] = job[q].seen[h]
             /\ q = p \/ h # f
  <2>1. CASE q = p
    BY <1>3, <1>5, <2>1 DEF Relied, Held, Captured
  <2>2. CASE q # p
    <3>1. h \in Captured(job[q]) /\ job[q].seen[h].id = file'[h].id
      BY <1>1, <1>5, <2>2 DEF Relied, Held, Captured
    <3>2. job[q].seen[h].id \in 0..last
      BY <3>1 DEF JInv, Ids
    <3>3. h # f
      BY <1>2, <3>1, <3>2
    <3> QED BY <1>1, <1>2, <2>2, <3>1, <3>3 DEF Relied
  <2> QED BY <2>1, <2>2
<1>6. ASSUME NEW h \in Files, NEW g, NEW o \in Procs, g.setBy = o, Marked(g, h), h # f \/ o # p
      PROVE  MayMark(job'[o], h)
  BY <1>1, <1>6 DEF Marked
<1>7. Marks'
  <2> SUFFICES ASSUME NEW h \in Files, NEW o \in Procs
               PROVE  /\ file'[h].setBy = o => MayMark(job'[o], h)
                      /\ \A q \in Procs : Relied(job[q], h)' =>
                           /\ job'[q].seen[h].setBy # q
                           /\ job'[q].seen[h].setBy = o => MayMark(job'[o], h)
    BY DEF Marks, Marked, MayMark, Placed
  <2>1. file'[h].setBy = o => MayMark(job'[o], h)
    BY <1>1, <1>2, <1>6 DEF JInv, Marks
  <2>2. ASSUME NEW q \in Procs, Relied(job[q], h)'
        PROVE  /\ job'[q].seen[h].setBy # q
               /\ job'[q].seen[h].setBy = o => MayMark(job'[o], h)
    <3>1. /\ job'[q].seen[h] = job[q].seen[h] /\ (q = p \/ h # f)
          /\ Marked(job[q].seen[h], h) /\ job[q].seen[h].setBy # q
      BY <1>5, <2>2, SMTT(30) DEF JInv, Marks
    <3> QED BY <1>6, <3>1
  <2> QED BY <2>1, <2>2
<1>8. \A q \in Procs : Careful(job[q])'
  BY <1>1, SMTT(30) DEF JInv, Careful, Underway, Planned, Captured, Held
<1>9. \A h \in Files : Formed(file'[h].data)
  BY <1>2 DEF JInv
<1> QED BY <1>4, <1>7, <1>8, <1>9 DEF JInv, Formed

\* The same for the baselines: the new one is repo branch's, or the one p relied on.
LEMMA WriteBase ==
    ASSUME JInv, NEW p \in Procs, Becomes(p), job[p].pc \in Holding, holder' = p, record' = record,
           NEW f \in Files, NEW data, NEW setBy, Write(p, f, data, setBy),
           Captured(job'[p]) = {}, ~Spoilt(job[p]), job'[p].req = job[p].req,
           \A h \in Held(job'[p]) : h \in Held(job[p]) /\ job'[p].seen[h] = job[p].seen[h],
           \A h \in Files \ {f} : h \in Placed(job'[p]) <=> h \in Placed(job[p]),
           f \in Placed(job'[p]) => data.baseline = job[p].req.branch,
           f \notin Placed(job'[p]) =>
             /\ f \in Held(job[p]) /\ setBy = job[p].seen[f].setBy
             /\ data.baseline = job[p].seen[f].data.baseline
    PROVE  Base'
<1>1. \A q \in Procs \ {p} : job'[q] = job[q] /\ Held(job[q]) = {} /\ ~Spoilt(job[q])
  BY OthersStay DEF JInv, IInv, Exclusive, Held, Holding, Spoilt
<1>2. /\ last \in Nat
      /\ file'[f].id = last + 1 /\ file'[f].setBy = setBy /\ file'[f].data = data
      /\ \A h \in Files \ {f} : file'[h] = file[h]
  BY Shaped DEF Write, JInv, Ids
<1>3. holder = p
  BY DEF JInv, IInv, Exclusive
<1>4. CASE Reported
  <2>1. job[p].pc # "dead" /\ job[p].result # "unrecorded"
    BY ResultAssumption DEF JInv, Careful, Holding, Publishing
  <2>2. record' \/ \E q \in Procs \ {p} : job'[q].result = "unrecorded" \/ job'[q].pc = "dead"
    BY <1>1, <1>4, <2>1 DEF Reported
  <2> QED BY <2>2 DEF Reported, Base
<1>5. ~\E q \in Procs : Spoilt(job[q])
  BY <1>1
<1>6. ASSUME NEW b, Based(b) PROVE Based(b)'
  <2>1. /\ \A h \in Files \ {f} : Wanted(h, b)' = Wanted(h, b)
        /\ Wanted(f, b)' = IF f \in Placed(job'[p]) THEN job[p].req.branch ELSE b
    BY <1>3 DEF Wanted, Placed
  <2> SUFFICES ASSUME NEW h \in Files, NEW q \in Procs
               PROVE  /\ Says(file'[h], Wanted(h, b)')
                      /\ h \in Captured(job'[q]) /\ job'[q].seen[h].id = file'[h].id =>
                           Says(job'[q].seen[h], Wanted(h, b)')
                      /\ h \in Held(job'[q]) => Says(job'[q].seen[h], b)
    BY DEF Based, Says, Captured, Held
  <2>2. Says(file'[h], Wanted(h, b)')
    <3>1. CASE h # f
      BY <1>2, <1>6, <2>1, <3>1 DEF Based
    <3>2. CASE h = f
      BY <1>2, <1>6, <2>1, <3>2 DEF Based, Says
    <3> QED BY <3>1, <3>2
  <2>3. CASE q = p
    BY <1>6, <2>2, <2>3 DEF Based
  <2>4. CASE q # p
    <3>1. h \in Captured(job'[q]) => job'[q].seen[h].id \in 0..last
      BY <1>1, <2>4 DEF JInv, Ids
    <3> QED BY <1>1, <1>2, <1>6, <2>1, <2>2, <2>4, <3>1 DEF Based
  <2> QED BY <2>3, <2>4
<1> QED BY <1>4, <1>5, <1>6 DEF Base, JInv

\* A publishing process writes.
LEMMA CarriedWrite ==
    ASSUME JInv, IInv', NEW p \in Procs, Carries(p),
           NEW f \in Files, NEW data, NEW setBy, Write(p, f, data, setBy), Formed(data),
           \A h \in Files \ {f} : /\ h \in Placed(job'[p]) <=> h \in Placed(job[p])
                                  /\ h \in job[p].residual => h \in job'[p].residual,
           \/ setBy = p /\ f \in Placed(job'[p])
           \/ setBy = job[p].seen[f].setBy,
           \/ f \in Placed(job'[p]) /\ data.baseline = job[p].req.branch
           \/ f \notin Placed(job'[p]) /\ data = job[p].seen[f].data /\ setBy = job[p].seen[f].setBy,
           Spoilt(job'[p]) \/ ~Spoilt(job[p])
    PROVE  JInv'
<1>1. /\ Careful(job'[p]) /\ Captured(job'[p]) = {} /\ Held(job'[p]) = Files /\ Held(job[p]) = Files
      /\ holder = p /\ holder' = p
  BY Carried
<1>2. job[p].pc \in Holding /\ Becomes(p)
  BY DEF Carries, Holding
<1>3. Base'
  <2>1. CASE Spoilt(job'[p])
    BY <2>1 DEF Base, Spoilt
  <2>2. CASE ~Spoilt(job[p])
    BY <1>1, <1>2, <2>2, WriteBase DEF Carries
  <2> QED BY <2>1, <2>2
<1>4. \A h \in Files \ {f} : MayMark(job[p], h) => MayMark(job'[p], h)
  BY DEF MayMark, Carries, Publishing
<1>5. Marked(job[p].seen[f], f) /\ job[p].seen[f].setBy # p
  BY <1>1 DEF JInv, Marks, Relied
<1>6. /\ setBy = p => MayMark(job'[p], f)
      /\ \A q \in Procs \ {p} : setBy = q => MayMark(job[q], f)
  BY <1>5 DEF Marked, MayMark
<1> QED BY <1>1, <1>2, <1>3, <1>4, <1>6, WriteStep DEF Carries

LEMMA ExchangeSafe ==
    ASSUME JInv, IInv', NEW p \in Procs, Exchange(p)
    PROVE  JInv'
<1> DEFINE f == Target(p)
           seen == job[p].seen[f]
           after == job[p].after[f]
<1>1. f \in Files /\ job[p].pc = "exchange" /\ UNCHANGED <<holder, record>>
  BY DEF Exchange, Target, Files
<1>2. PICK kept, failed, pc :
        /\ job' = [job EXCEPT ![p].pc = pc, ![p].failed = failed, ![p].aside = kept]
        /\ \/ pc = "observe" /\ Exchanged(p, f, seen, after, Setter(p, f), kept, failed)
           \/ /\ pc = IF kept = {} THEN "rollback" ELSE "observe"
              /\ failed = TRUE /\ NotExchanged(p, f, seen, kept)
  BY DEF Exchange
<1>3. Placed(job[p]) = Written(p) /\ f = IF "portable" \in Written(p) THEN "local" ELSE "portable"
  BY <1>1 DEF Placed, Written, Target
<1> HIDE DEF f
<1>4. /\ Becomes(p) /\ job'[p].pc = pc /\ job'[p].failed = failed /\ job'[p].aside = kept
      /\ job'[p].written = job[p].written /\ job'[p].after = job[p].after
      /\ job'[p].req = job[p].req /\ job'[p].seen = job[p].seen /\ job'[p].result = job[p].result
      /\ job'[p].residual = job[p].residual
  <2> DEFINE r == [job[p] EXCEPT !.pc = pc, !.failed = failed, !.aside = kept]
  <2>1. job' = [job EXCEPT ![p] = r]
    BY <1>2, Shaped DEF JInv
  <2>2. /\ Shape(r) /\ r.pc = pc /\ r.written = job[p].written /\ r.after = job[p].after
        /\ r.failed = failed /\ r.aside = kept /\ r.req = job[p].req /\ r.seen = job[p].seen
        /\ r.result = job[p].result /\ r.residual = job[p].residual
    BY Shaped, ZenonT(60) DEF Shape, Fields, JInv
  <2> HIDE DEF r
  <2> QED BY <2>1, <2>2, Becoming DEF JInv
<1>5. job[p].aside = {} /\ job[p].residual = {} /\ ~Spoilt(job[p])
  BY <1>1 DEF JInv, Careful, Spoilt
<1>6. CASE pc = "observe" /\ Exchanged(p, f, seen, after, Setter(p, f), kept, failed)
  <2>1. Write(p, f, after, Setter(p, f)) /\ (kept # {} => failed)
    BY <1>6 DEF Exchanged
  <2>2. Placed(job'[p]) = Placed(job[p]) \cup {f}
    BY <1>3, <1>4, <1>6 DEF Placed, Written
  <2>3. Carries(p)
    BY <1>1, <1>4, <1>5, <1>6, <2>1 DEF Carries, Publishing
  <2>4. Formed(after) /\ after.baseline = job[p].req.branch
    BY <1>1 DEF JInv, Careful, Underway, Planned, Publishing
  <2>5. Setter(p, f) \in {p, seen.setBy}
    BY DEF Setter
  <2> HIDE DEF after
  <2> QED BY <1>1, <1>4, <1>5, <2>1, <2>2, <2>3, <2>4, <2>5, CarriedWrite
<1>7. CASE /\ pc = IF kept = {} THEN "rollback" ELSE "observe"
           /\ failed = TRUE /\ NotExchanged(p, f, seen, kept)
  <2>1. UNCHANGED file /\ last' = last + 1
    BY <1>7 DEF NotExchanged
  <2>2. Carries(p)
    BY <1>1, <1>4, <1>5, <1>7 DEF Carries, Publishing
  <2>3. Placed(job[p]) \subseteq Placed(job'[p])
    BY <1>3, <1>4 DEF Placed, Written
  <2>4. kept = {} => Placed(job'[p]) = Placed(job[p])
    BY <1>3, <1>4, <1>7 DEF Placed, Written
  <2>5. kept # {} => Spoilt(job'[p])
    BY <1>4, <1>7 DEF Spoilt, Publishing
  <2> QED BY <1>4, <1>5, <2>1, <2>2, <2>3, <2>4, <2>5, CarryStep
<1> QED BY <1>2, <1>6, <1>7

LEMMA RestoreSafe ==
    ASSUME JInv, IInv', NEW p \in Procs, Restore(p)
    PROVE  JInv'
<1> DEFINE f == IF "local" \in Written(p) THEN "local" ELSE "portable"
           rest == [g \in Written(p) \ {f} |-> job[p].written[g]]
           seen == job[p].seen[f]
<1>1. f \in Files /\ job[p].pc = "rollback" /\ UNCHANGED <<holder, record>>
  BY DEF Restore, Files
<1>2. PICK kept, residual :
        /\ job' = [job EXCEPT ![p].written = rest, ![p].aside = job[p].aside \cup kept,
                              ![p].residual = residual]
        /\ \/ residual = job[p].residual
              /\ \E failed : Exchanged(p, f, job[p].written[f], seen.data, seen.setBy, kept, failed)
           \/ residual = job[p].residual \cup {f} /\ NotExchanged(p, f, job[p].written[f], kept)
  <2>1. PICK kept :
          \/ /\ \E failed : Exchanged(p, f, job[p].written[f], seen.data, seen.setBy, kept, failed)
             /\ job' = [job EXCEPT ![p].written = rest, ![p].aside = @ \cup kept]
          \/ /\ NotExchanged(p, f, job[p].written[f], kept)
             /\ job' = [job EXCEPT ![p].written = rest, ![p].aside = @ \cup kept,
                                   ![p].residual = @ \cup {f}]
    BY Zenon DEF Restore
  <2> HIDE DEF f, rest
  <2>2. ASSUME job' = [job EXCEPT ![p].written = rest, ![p].aside = @ \cup kept]
        PROVE  job' = [job EXCEPT ![p].written = rest, ![p].aside = job[p].aside \cup kept,
                                  ![p].residual = job[p].residual]
    BY <2>2, Shaped DEF Shape, Fields, JInv
  <2>3. ASSUME job' = [job EXCEPT ![p].written = rest, ![p].aside = @ \cup kept,
                                  ![p].residual = @ \cup {f}]
        PROVE  job' = [job EXCEPT ![p].written = rest, ![p].aside = job[p].aside \cup kept,
                                  ![p].residual = job[p].residual \cup {f}]
    BY <2>3, Shaped DEF Shape, Fields, JInv
  <2> QED BY <2>1, <2>2, <2>3
<1>3. DOMAIN rest = Written(p) \ {f} /\ f \in {"portable", "local"}
  OBVIOUS
<1> HIDE DEF f, rest
<1>4. /\ Becomes(p) /\ job'[p].pc = "rollback" /\ job'[p].aside = job[p].aside \cup kept
      /\ job'[p].written = rest /\ job'[p].after = job[p].after
      /\ job'[p].req = job[p].req /\ job'[p].seen = job[p].seen /\ job'[p].result = job[p].result
      /\ job'[p].residual = residual
  <2> DEFINE aside == job[p].aside \cup kept
             r == [job[p] EXCEPT !.written = rest, !.aside = aside, !.residual = residual]
  <2>1. job' = [job EXCEPT ![p] = r]
    BY <1>2, Shaped DEF JInv
  <2> HIDE DEF aside
  <2>2. /\ Shape(r) /\ r.pc = job[p].pc /\ r.written = rest /\ r.after = job[p].after
        /\ r.aside = aside /\ r.req = job[p].req /\ r.seen = job[p].seen
        /\ r.result = job[p].result /\ r.residual = residual
    BY Shaped, ZenonT(60) DEF Shape, Fields, JInv
  <2> HIDE DEF r
  <2> QED BY <1>1, <2>1, <2>2, Becoming DEF JInv, aside
<1>5. Carries(p)
  BY <1>1, <1>4 DEF Carries, Publishing
<1>6. Placed(job[p]) = Written(p) /\ Placed(job'[p]) = Written(p) \ {f}
  BY <1>1, <1>3, <1>4 DEF Placed, Written
<1>7. CASE residual = job[p].residual
             /\ \E failed : Exchanged(p, f, job[p].written[f], seen.data, seen.setBy, kept, failed)
  <2>1. Write(p, f, seen.data, seen.setBy)
    BY <1>7 DEF Exchanged
  <2>2. Formed(seen.data)
    BY <1>1, <1>5, Carried DEF JInv, Careful
  <2>3. Spoilt(job[p]) => Spoilt(job'[p])
    BY <1>4, <1>7 DEF Spoilt, Publishing
  <2> QED BY <1>1, <1>4, <1>5, <1>6, <1>7, <2>1, <2>2, <2>3, CarriedWrite
<1>8. CASE residual = job[p].residual \cup {f} /\ NotExchanged(p, f, job[p].written[f], kept)
  <2>1. UNCHANGED file /\ last' = last + 1
    BY <1>8 DEF NotExchanged
  <2>2. Spoilt(job'[p])
    BY <1>4, <1>8 DEF Spoilt, Publishing
  <2> QED BY <1>4, <1>5, <1>6, <1>8, <2>1, <2>2, CarryStep
<1> QED BY <1>2, <1>7, <1>8, SMTT(30)

LEMMA RenameSafe ==
    ASSUME JInv, IInv', NEW p \in Procs, Rename(p)
    PROVE  JInv'
<1>1. job[p].pc = "rename" /\ UNCHANGED record /\ job[p].req.op # "repo-branch"
  BY Shaped DEF Rename, JInv, ByRename
<1>2. PICK f \in DOMAIN job[p].after :
        \/ /\ Write(p, f, job[p].after[f], job[p].seen[f].setBy)
           /\ \/ GoTo(p, "readback")
              \/ /\ job' = [job EXCEPT ![p].pc = "readback", ![p].failed = TRUE]
                 /\ UNCHANGED holder
        \/ Return(p, "failed") /\ UNCHANGED <<file, last>>
  BY DEF Rename
<1>3. CASE Return(p, "failed") /\ UNCHANGED <<file, last>>
  BY <1>1, <1>3, EndStep DEF Publishing
<1>4. CASE /\ Write(p, f, job[p].after[f], job[p].seen[f].setBy)
           /\ \/ GoTo(p, "readback")
              \/ /\ job' = [job EXCEPT ![p].pc = "readback", ![p].failed = TRUE]
                 /\ UNCHANGED holder
  <2> DEFINE data == job[p].after[f]
             setBy == job[p].seen[f].setBy
  <2>1. Turns(p, "readback") /\ UNCHANGED holder
    BY <1>4, Moves, FailureMoves DEF GoTo, JInv
  <2>2. /\ job[p].aside = {} /\ job[p].residual = {} /\ job[p].result = None
        /\ Placed(job[p]) = {} /\ ~Spoilt(job[p]) /\ DOMAIN job[p].written = {}
        /\ \A h \in Files : ~MayMark(job[p], h)
    BY <1>1, Unmarked DEF Publishing
  <2>3. Captured(job'[p]) = {} /\ Held(job'[p]) = {} /\ ~Underway(job'[p]) /\ Held(job[p]) = Files
    BY <1>1, <2>1 DEF Turns, Captured, Held, Underway, Publishing
  <2>4. Careful(job'[p]) /\ Placed(job'[p]) = {}
    BY <2>1, <2>2, <2>3 DEF Careful, Placed, Turns, Publishing
  <2>5. f \in Files /\ Formed(data) /\ data.baseline = job[p].seen[f].data.baseline
    BY <1>1, <1>2 DEF JInv, Careful, Underway, Planned
  <2>6. job[p].pc \in Holding /\ holder' = p /\ Becomes(p) /\ job'[p].req = job[p].req
    BY <1>1, <2>1 DEF JInv, IInv, Exclusive, Holding, Turns
  <2>7. Marked(job[p].seen[f], f) /\ setBy # p
    BY <2>3, <2>5 DEF JInv, Marks, Relied
  <2> HIDE DEF data
  <2>8. Write(p, f, data, setBy)
    BY <1>4 DEF data
  <2>9. Base'
    BY <1>1, <2>2, <2>3, <2>4, <2>5, <2>6, <2>8, WriteBase
  <2>10. \A q \in Procs \ {p} : setBy = q => MayMark(job[q], f)
    BY <2>7 DEF Marked
  <2> QED BY <2>2, <2>3, <2>4, <2>5, <2>6, <2>7, <2>8, <2>9, <2>10, WriteStep
<1> QED BY <1>2, <1>3, <1>4


-----------------------------------------------------------------------------
(* Kills and people, and the whole next-state relation                      *)

LEMMA CrashSafe ==
    ASSUME JInv, IInv', NEW p \in Procs, Crash(p)
    PROVE  JInv'
<1> DEFINE r == [Idle EXCEPT !.pc = "dead", !.req = job[p].req]
<1>1. /\ Shape(r) /\ r.pc = "dead" /\ r.written = [f \in {} |-> None]
      /\ r.result = None /\ r.aside = {} /\ r.residual = {}
  <2>1. /\ Shape(Idle) /\ Idle.written = [f \in {} |-> None]
        /\ Idle.result = None /\ Idle.aside = {} /\ Idle.residual = {}
    BY DEF Shape, Idle, Fields
  <2> QED BY <2>1 DEF Shape, Fields
<1>2. /\ job' = [job EXCEPT ![p] = r] /\ UNCHANGED <<file, record, last>>
  BY DEF Crash
<1> HIDE DEF r
<1>3. Becomes(p) /\ job'[p] = r
  BY <1>1, <1>2, Becoming DEF JInv
<1>4. Captured(r) = {} /\ Held(r) = {} /\ ~Underway(r)
  BY <1>1 DEF Captured, Held, Underway, Publishing
<1>5. Careful(r) /\ Looks(p)
  BY <1>1, <1>3, <1>4 DEF Careful, Looks, Relied, Publishing
<1>6. Base'
  BY <1>1, <1>3 DEF Base, Reported
<1>7. \A f \in Files : MayMark(r, f)
  BY <1>1 DEF MayMark
<1> QED BY <1>2, <1>3, <1>5, <1>6, <1>7, QuietStep

LEMMA EditSafe ==
    ASSUME JInv, IInv', NEW f \in Files, EditFile(f)
    PROVE  JInv'
<1>1. UNCHANGED <<job, holder, record>>
  BY DEF EditFile
<1>2. PICK data \in Data, id \in {file[f].id, last + 1} :
        /\ last' = IF id > last THEN id ELSE last
        /\ file' = [file EXCEPT ![f] =
             [id |-> id, by |-> User, data |-> data,
              setBy |-> IF data.baseline = @.data.baseline THEN @.setBy ELSE User]]
  BY DEF EditFile
<1>3. /\ file'[f].id = id /\ file'[f].data = data
      /\ \/ file'[f].setBy = file[f].setBy /\ data.baseline = file[f].data.baseline
         \/ file'[f].setBy = User
      /\ \A h \in Files \ {f} : file'[h] = file[h]
  BY <1>2, Shaped DEF JInv, IInv
<1>4. Formed(data)
  BY DEF Data, Formed
<1>5. last \in Nat /\ file[f].id \in 0..last /\ User \notin Procs
  BY DistinctAssumption DEF JInv, Ids
<1>6. \A j : Captured(j) \subseteq Files
  BY DEF Captured, Files
<1>7. Ids'
  <2>1. last' \in Nat /\ 0..last \subseteq 0..last' /\ id \in 0..last'
    BY <1>2, <1>5
  <2>2. \A h \in Files : file'[h].id \in 0..last'
    BY <1>3, <2>1 DEF JInv, Ids
  <2>3. \A q \in Procs : Captured(job[q])' = Captured(job[q])
    BY <1>1 DEF Captured
  <2> QED BY <1>1, <2>1, <2>2, <2>3 DEF JInv, Ids
<1>8. ASSUME NEW h \in Files, NEW q \in Procs,
             h \in Captured(job[q]), job[q].seen[h].id = file'[h].id
      PROVE  job[q].seen[h].id = file[h].id
  <2>1. job[q].seen[h].id \in 0..last
    BY <1>8 DEF JInv, Ids
  <2> QED BY <1>3, <1>5, <1>8, <2>1
<1>9. Marks'
  <2> SUFFICES ASSUME NEW h \in Files
               PROVE  /\ Marked(file'[h], h)
                      /\ \A q \in Procs : Relied(job[q], h)' =>
                           Marked(job[q].seen[h], h) /\ job[q].seen[h].setBy # q
    BY <1>1 DEF Marks, Marked, MayMark, Placed
  <2>1. Marked(file'[h], h)
    BY <1>3, <1>5 DEF JInv, Marks, Marked
  <2>2. \A q \in Procs : Relied(job[q], h)' => Relied(job[q], h)
    BY <1>1, <1>8 DEF Relied, Held, Captured
  <2> QED BY <2>1, <2>2 DEF JInv, Marks
<1>10. ASSUME NEW b, Based(b) PROVE Based(b)'
  <2>1. \A h \in Files : Wanted(h, b)' = Wanted(h, b)
    BY <1>1 DEF Wanted, Placed
  <2>2. ASSUME NEW h \in Files PROVE Says(file'[h], Wanted(h, b)')
    BY <1>3, <1>10, <2>1 DEF Based, Says
  <2>3. ASSUME NEW h \in Files, NEW q \in Procs
        PROVE  /\ h \in Captured(job'[q]) /\ job'[q].seen[h].id = file'[h].id =>
                    Says(job'[q].seen[h], Wanted(h, b)')
               /\ h \in Held(job'[q]) => Says(job'[q].seen[h], b)
    BY <1>1, <1>8, <1>10, <2>1 DEF Based
  <2> QED BY <2>2, <2>3 DEF Based, Says, Captured, Held
<1>11. Base'
  <2>1. Reported => Reported'
    BY <1>1 DEF Reported
  <2>2. (\E q \in Procs : Spoilt(job[q])) => (\E q \in Procs : Spoilt(job[q]))'
    BY <1>1, SMTT(30) DEF Spoilt
  <2> QED BY <1>10, <2>1, <2>2 DEF Base, JInv
<1>12. \A q \in Procs : Careful(job[q])'
  <2> SUFFICES ASSUME NEW q \in Procs PROVE Careful(job[q])'
    OBVIOUS
  <2>1. Careful(job[q]) /\ job' = job
    BY <1>1 DEF JInv
  <2> QED BY ONLY <2>1, ZenonT(60) DEF Careful, Underway, Planned, Captured, Held, Formed
<1> QED BY <1>3, <1>4, <1>7, <1>9, <1>11, <1>12 DEF JInv, Formed

LEMMA OthersSafe ==
    ASSUME JInv, IInv', (\E b \in Branches : MoveTip(b)) \/ Untrack \/ UNCHANGED vars
    PROVE  JInv'
<1>1. UNCHANGED <<file, job, holder, record, last>>
  BY DEF MoveTip, Untrack, vars
<1>2. Ids'
  BY <1>1 DEF JInv, Ids, Captured
<1>3. Marks'
  BY <1>1 DEF JInv, Marks, Marked, MayMark, Relied, Placed, Captured, Held
<1>4. \A q \in Procs : Careful(job[q])'
  <2> SUFFICES ASSUME NEW q \in Procs PROVE Careful(job[q])'
    OBVIOUS
  <2>1. Careful(job[q]) /\ job' = job
    BY <1>1 DEF JInv
  <2> QED BY ONLY <2>1, ZenonT(60) DEF Careful, Underway, Planned, Captured, Held, Formed
<1>5. Base'
  <2>1. Reported => Reported'
    BY <1>1 DEF Reported
  <2>2. (\E p \in Procs : Spoilt(job[p])) => (\E p \in Procs : Spoilt(job[p]))'
    BY <1>1 DEF Spoilt
  <2>3. ASSUME NEW b, Based(b) PROVE Based(b)'
    BY <1>1, <2>3 DEF Based, Says, Wanted, Placed, Captured, Held
  <2> QED BY <2>1, <2>2, <2>3 DEF Base, JInv
<1> QED BY <1>1, <1>2, <1>3, <1>4, <1>5 DEF JInv, Formed

LEMMA NextIsSafe ==
    ASSUME JInv, [Next]_vars
    PROVE  JInv'
<1>1. IInv'
  BY NextKeeps DEF JInv
<1>2. ASSUME NEW p \in Procs, Step(p) PROVE JInv'
  BY <1>1, <1>2, StartSafe, CaptureLocalSafe, CapturePortableSafe, TakeLockSafe, AuthorizeSafe,
     CompareSafe, ExchangeSafe, ObserveSafe, VerifySafe, RestoreSafe, RestoredSafe,
     WriteRecordSafe, RecheckSafe, ReadSettingSafe, RenameSafe, EndsSafe DEF Step
<1> QED BY <1>1, <1>2, CrashSafe, EditSafe, OthersSafe DEF Next

LEMMA InitiallySafe == Init => JInv
<1> SUFFICES ASSUME Init PROVE JInv
  OBVIOUS
<1>1. PICK h, k \in Hooks \cup {NoHooks} :
        file = [f \in Files |-> [id |-> 0, by |-> User, setBy |-> None,
                                 data |-> [baseline |-> FirstBranch, root |-> FALSE,
                                           hooks |-> IF f = "local" THEN h ELSE k]]]
  BY DEF Init
<1>2. \A f \in Files : /\ file[f].id = 0 /\ file[f].setBy = None
                       /\ file[f].data.baseline = FirstBranch /\ Formed(file[f].data)
  BY <1>1 DEF Formed
<1>3. job = [p \in Procs |-> Idle] /\ ~record /\ holder = None /\ last = 0 /\ None \notin Procs
  BY DistinctAssumption DEF Init
<1>4. /\ Idle.pc = "idle" /\ Idle.result = None /\ Idle.aside = {} /\ Idle.residual = {}
  BY DEF Idle
<1>5. Captured(Idle) = {} /\ Held(Idle) = {} /\ ~Underway(Idle) /\ ~Spoilt(Idle)
  BY <1>4 DEF Captured, Held, Underway, Spoilt, Publishing
<1>6. Careful(Idle)
  BY <1>4, <1>5 DEF Careful, Publishing
<1>7. Ids /\ Marks
  BY <1>2, <1>3, <1>5 DEF Ids, Marks, Marked, Relied
<1>8. Based(FirstBranch)
  BY <1>2, <1>3, <1>5 DEF Based, Says, Wanted
<1> QED BY <1>2, <1>3, <1>6, <1>7, <1>8, InitiallyHolds DEF JInv, Base

LEMMA Safe == Spec => []JInv
<1>1. JInv /\ [Next]_vars => JInv'
  BY NextIsSafe
<1> QED BY InitiallySafe, <1>1, PTL DEF Spec


-----------------------------------------------------------------------------
(* The theorems                                                             *)

\* One command at a time is past the project lock, whichever commands run, fail or
\* are killed (acquireProjectTransactionLock).
THEOREM LockIsExclusive == Spec => []Exclusive
<1>1. IInv => Exclusive
  BY DEF IInv
<1> QED BY Inductive, <1>1, PTL

\* No command replaces bytes it does not know, but for a generation that is kept
\* beside the file and for a person's write in the window of a rename: not in a
\* publication, in the second of two writes or in a rollback, after any number of
\* edits, faults and kills (WriteFileAtomicModeExpected, replaceHookManagementFile).
THEOREM NoLostEditHolds == Spec => NoLostEdit
<1>1. ASSUME IInv, [Next]_vars, NEW p \in Procs, NEW f \in Files, file'[f] # file[f], file'[f].by = p
      PROVE  MayReplace(p, f)
  <2>1. User \notin Procs
    BY DistinctAssumption
  <2> QED BY <1>1, <2>1, ChangesAreReplacements DEF Replaces
<1>2. IInv /\ [Next]_vars =>
        \A p \in Procs, f \in Files : file'[f] # file[f] /\ file'[f].by = p => MayReplace(p, f)
  BY <1>1
<1> QED BY Inductive, <1>2, PTL DEF Spec, NoLostEdit, MayReplace

\* While there is recovery evidence no repo branch moves a baseline, not even one that
\* had planned before the evidence was written (ExecutePlan).
THEOREM EvidenceBlocksHolds == Spec => EvidenceBlocks
<1>1. ASSUME IInv, [Next]_vars, record, NEW p \in Procs, NEW f \in Files,
             job[p].req.op = "repo-branch", file'[f].by = p
      PROVE  file'[f] = file[f]
  <2>1. User \notin Procs
    BY DistinctAssumption
  <2>2. job[p].pc \notin Publishing
    BY <1>1 DEF IInv, Unblocked
  <2> QED BY <1>1, <2>1, <2>2, ChangesAreReplacements DEF Replaces
<1>2. IInv /\ [Next]_vars =>
        (record => \A p \in Procs, f \in Files :
           job[p].req # None /\ job[p].req.op = "repo-branch" /\ file'[f].by = p
             => file'[f] = file[f])
  BY <1>1
<1> QED BY Inductive, <1>2, PTL DEF Spec, EvidenceBlocks

\* A repo branch that reports a clean rollback, a refusal or an interrupt has left none
\* of its baselines in either file and kept nothing beside them, whatever other commands
\* and people did to the files meanwhile (NewCleanRollbackError, cancelPublication).
THEOREM CleanRollbackHolds == Spec => []CleanRollbackIsTrue
<1>1. ASSUME JInv, NEW p \in Procs, job[p].result \in {"clean", "canceled", "refused"}
      PROVE  job[p].aside = {} /\ \A f \in Files : file[f].setBy # p
  <2>1. Careful(job[p]) /\ Receipts(job[p]) /\ job[p].result \in Clean
    BY <1>1, Shaped DEF JInv, Clean
  <2>2. job[p].pc = "done"
    BY <1>1, <2>1, ResultAssumption DEF Careful
  <2>3. job[p].aside = {} /\ job[p].residual = {}
    BY <2>1, <2>2 DEF Careful
  <2>4. \A f \in Files : ~MayMark(job[p], f)
    BY <2>1, <2>2, <2>3 DEF MayMark, Placed, Receipts, Publishing
  <2>5. \A f \in Files : Marked(file[f], f)
    BY <1>1 DEF JInv, Marks
  <2> QED BY <2>3, <2>4, <2>5 DEF Marked
<1>2. JInv => CleanRollbackIsTrue
  BY <1>1 DEF CleanRollbackIsTrue
<1> QED BY Safe, <1>2, PTL

\* When no person wrote either file and no command is at a publication, the two files
\* name the same baseline, unless recovery evidence exists, a command said that it could
\* not write it, or one was killed (publish and its rollbacks).
THEOREM SplitIsReportedHolds == Spec => []SplitIsReported
<1>1. ASSUME JInv, \A f \in Files : file[f].setBy # User, ~Reported,
             ~(holder # None /\ job[holder].pc \in Publishing)
      PROVE  file["portable"].data.baseline = file["local"].data.baseline
  <2>1. \A p \in Procs : job[p].pc \notin Publishing
    <3>1. ASSUME NEW p \in Procs, job[p].pc \in Publishing PROVE FALSE
      <4>1. holder = p
        BY <1>1, <3>1 DEF JInv, IInv, Exclusive, Holding
      <4> QED BY <1>1, <3>1, <4>1, DistinctAssumption
    <3> QED BY <3>1
  <2>2. PICK b : Based(b)
    BY <1>1, <2>1 DEF JInv, Base, Spoilt
  <2>3. \A f \in Files : Wanted(f, b) = b
    BY <1>1, <2>1, PlacedByHolder DEF JInv, Wanted
  <2>4. \A f \in Files : file[f].data.baseline = b
    BY <1>1, <2>2, <2>3 DEF Based, Says
  <2> QED BY <2>4 DEF Files
<1>2. JInv => SplitIsReported
  BY <1>1 DEF SplitIsReported, Reported
<1> QED BY Safe, <1>2, PTL
=============================================================================
