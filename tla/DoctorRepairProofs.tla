--------------------------- MODULE DoctorRepairProofs ---------------------------
(***************************************************************************)
(* Proofs about DoctorRepair, for any repositories, mounts and worktrees   *)
(* of others, any paths, and any number of faults and moves.               *)
(*                                                                         *)
(* The invariant says how the captured state, the one that was read and    *)
(* the one that is there relate (Generations), that they are one while     *)
(* nobody else acts (Still), and that a report is true of the checkouts    *)
(* until then, also after some repositories were pruned (Reported).        *)
(***************************************************************************)
EXTENDS DoctorRepair, FiniteSetTheorems, FunctionTheorems, SequenceTheorems,
        WellFoundedInduction, TLAPS


-----------------------------------------------------------------------------
(* What a walk finds, where the directories are at l and Git has g          *)
(* registered.                                                              *)

CheckoutsIn(l, g, r) == {t \in Trees : Of(t) = r /\ l[t] \in Places /\ l[t] # None /\ g[t] # None}

FoundIn(l, g) ==
    [r \in Repos |->
        IF CheckoutsIn(l, g, r) = {} THEN None
        ELSE l[CHOOSE t \in CheckoutsIn(l, g, r) :
                  \A u \in CheckoutsIn(l, g, r) \ {t} : Before(l[t], l[u])]]

MissingIn(l, g, r, p) ==
    /\ ~\E t \in Trees : l[t] \in Places /\ IsPrefix(p, l[t])
    /\ \E t \in Trees : Of(t) = r /\ g[t] = p

RepairsIn(l, g, w, found) ==
    {"mount" : r \in {q \in Repos : found[q] # None /\ found[q] # w.entries[q].path}}
    \cup
    {"prune" : r \in {q \in Repos : found[q] = None /\ MissingIn(l, g, q, w.entries[q].path)}}

HoldsIn(l, g, t) ==
    \/ g[t] = Outside /\ l[t] = Outside
    \/ \E u \in Trees : l[u] \in Places /\ l[u] = g[t]

\* No two directories are one.
Distinct(l) == \A t, u \in Trees : l[t] \in Places /\ l[t] = l[u] => t = u

\* found is the first checkout of every repository, or there was an earlier one.
FirstsIn(l, g, found) ==
    \A r \in Repos :
        /\ found[r] = None => CheckoutsIn(l, g, r) = {}
        /\ \A t \in CheckoutsIn(l, g, r) : l[t] = found[r] \/ Before(found[r], l[t])

NoneMissing(l, g, w) ==
    \A r \in Repos : FoundIn(l, g)[r] = None => ~MissingIn(l, g, r, w.entries[r].path)

-----------------------------------------------------------------------------
(* The invariant.                                                           *)

Sought == {"walk", "compare", "collect", "decide", "prune", "rewalk"}
Imported == {"preview", "plan", "importLock", "replan", "check", "write", "verify", "withdraw",
             "remove", "gone"}

Typed ==
    /\ TypeOK
    /\ state \in States \cup {None} /\ ws \in States \cup {None} /\ snap \in States \cup {None}
    /\ seen \in [Repos -> Places \cup {None}] /\ moves \in Nat
    /\ repairs # {} => Repos # {}
    /\ pc \notin {"prune", "rewalk", "publish", "restore", "record", "done"} => pruned = {}
    /\ pc = "prune" => pruned # Repos

\* Which steps hold the lock, and which of them have captured the state.
Held ==
    /\ pc \in {"idle", "lock", "preview", "plan", "importLock"} => ~locked
    /\ pc \in {"capture", "validate", "prune", "rewalk", "publish", "restore", "record",
               "replan", "check", "write", "verify", "withdraw", "remove", "gone"} => locked
    /\ pc \in Imported \cup {"idle", "lock", "capture"} => snap = None
    /\ pc \in Sought \cup {"validate"} => (snap # None <=> locked)
    /\ pc \in {"publish", "restore"} => snap # None

\* The captured state, the one that was read, and the one that is there.
Generations ==
    /\ pc \in Sought \cup {"publish", "restore"} => ws # None
    /\ snap # None /\ pc # "done" => state # None /\ snap.mark <= state.mark
    /\ snap # None /\ pc \in Sought \cup {"publish"} =>
           snap.mark <= ws.mark /\ ws.mark <= state.mark
    /\ snap # None /\ pc \in Sought \cup {"publish", "validate"} /\ state.mark = snap.mark =>
           state = snap
    /\ pc = "restore" => ws.mark = snap.mark
    /\ pc \in Imported \ {"preview", "plan"} => ws # None /\ ws.mark = 0

\* While nobody else acts the captured state is the one that is there, and so is the
\* one a rollback compared.
Still ==
    /\ quiet /\ snap # None =>
        /\ pc \in {"validate", "publish"} \cup Sought => state = snap
        /\ pc \in Sought => ws = snap /\ Valid(ws.entries)
    /\ quiet /\ pc = "remove" => state = ws

\* What a report said of the checkouts is true until somebody else acts, and
\* what was pruned stays pruned.
Reported ==
    /\ pc \in {"collect", "decide", "prune"} /\ "mount" \notin repairs =>
           \A r \in Repos : seen[r] \in {None, ws.entries[r].path}
    /\ quiet /\ snap # None =>
        /\ pc \in {"compare", "collect", "decide"} => seen = FoundIn(at, reg)
        /\ pc \in {"collect", "decide"} => repairs = RepairsIn(at, reg, ws, seen)
        /\ pc = "prune" => FirstsIn(at, reg, seen)
    /\ quiet /\ pc = "prune" =>
           \A t \in Trees : Of(t) \in pruned /\ reg[t] # None => HoldsIn(at, reg, t)
    /\ quiet /\ pc = "rewalk" => NoneMissing(at, reg, ws)
    /\ quiet /\ pc = "publish" => RepairsIn(at, reg, ws, FoundIn(at, reg)) = {} /\ Valid(ws.entries)
    /\ quiet /\ pc \in {"check", "write", "verify", "withdraw"} =>
           /\ ws = Recorded(0, FoundIn(at, reg)) /\ Valid(ws.entries)
           /\ \A r \in Repos : FoundIn(at, reg)[r] # None

DInv ==
    /\ Typed /\ Distinct(at) /\ Held /\ Generations /\ Still /\ Reported
    /\ FixConverges /\ FailureIsTrue


-----------------------------------------------------------------------------
(* Paths and their order                                                    *)

LEMMA PlaceIsSequence ==
    ASSUME NEW p \in Places
    PROVE  /\ p \in Seq(1..Names) /\ p \in Seq(Nat)
           /\ Len(p) \in Nat /\ DOMAIN p = 1..Len(p) /\ \A i \in 1..Len(p) : p[i] \in Nat
  <1>1. PICK n \in 1..Depth : p \in [1..n -> 1..Names]
    BY DEF Places
  <1>2. n \in Nat /\ Len(p) = n
    BY <1>1, PlacesAssumption, IsASeq
  <1>. QED
    BY <1>1, <1>2, PlacesAssumption, IsASeq

LEMMA PrefixAgrees ==
    ASSUME NEW p \in Seq(Nat), NEW q \in Seq(Nat)
    PROVE  IsPrefix(p, q) <=> Len(p) <= Len(q) /\ \A i \in 1..Len(p) : p[i] = q[i]
  <1>. DEFINE m == Len(p)
  <1>1. m \in Nat /\ Len(q) \in Nat
    BY LenProperties
  <1>. HIDE DEF m
  <1>2. CASE m <= Len(q)
    <2>1. /\ SubSeq(p, 1, m) \in Seq(Nat) /\ Len(SubSeq(p, 1, m)) = m
          /\ \A i \in 1..m : SubSeq(p, 1, m)[i] = p[i]
      BY <1>1, <1>2 DEF m
    <2>2. /\ SubSeq(q, 1, m) \in Seq(Nat) /\ Len(SubSeq(q, 1, m)) = m
          /\ \A i \in 1..m : SubSeq(q, 1, m)[i] = q[i]
      BY <1>1, <1>2 DEF m
    <2>3. SubSeq(p, 1, m) = SubSeq(q, 1, m) <=> \A i \in 1..m : p[i] = q[i]
      BY <2>1, <2>2, SeqEqual
    <2>. QED
      BY <1>2, <2>3 DEF IsPrefix, m
  <1>3. CASE ~(m <= Len(q))
    BY <1>3 DEF IsPrefix, m
  <1>. QED
    BY <1>2, <1>3 DEF m

\* p and q agree up to i, where p ends or has the smaller name.
Smaller(p, q, i) ==
    /\ 1 <= i /\ i <= Len(p) + 1 /\ i <= Len(q)
    /\ \A j \in Nat : 1 <= j /\ j < i => p[j] = q[j]
    /\ i <= Len(p) => p[i] < q[i]

LEMMA BeforeIs ==
    ASSUME NEW p \in Seq(Nat), NEW q \in Seq(Nat)
    PROVE  Before(p, q) <=> \E i \in Nat : Smaller(p, q, i)
  <1>. DEFINE m == Len(p)
              n == Len(q)
  <1>1. m \in Nat /\ n \in Nat /\ DOMAIN p = 1..m /\ DOMAIN q = 1..n
    BY LenProperties
  <1>2. p = q <=> m = n /\ \A i \in 1..m : p[i] = q[i]
    BY SeqEqual
  <1>3. IsPrefix(p, q) <=> m <= n /\ \A i \in 1..m : p[i] = q[i]
    BY PrefixAgrees
  <1>. HIDE DEF m, n
  <1>4. ASSUME IsStrictPrefix(p, q) PROVE Smaller(p, q, m + 1)
    <2>1. m <= n /\ m # n /\ \A i \in 1..m : p[i] = q[i]
      BY <1>2, <1>3, <1>4 DEF IsStrictPrefix
    <2>2. 1 <= m + 1 /\ m + 1 <= m + 1 /\ m + 1 <= n /\ ~(m + 1 <= m)
      BY <1>1, <2>1
    <2>3. \A j \in Nat : 1 <= j /\ j < m + 1 => p[j] = q[j]
      BY <1>1, <2>1
    <2>. QED
      BY <2>2, <2>3 DEF Smaller, m, n
  <1>5. ASSUME NEW i \in DOMAIN p \cap DOMAIN q, p[i] < q[i], \A j \in 1..(i - 1) : p[j] = q[j]
        PROVE  i \in Nat /\ Smaller(p, q, i)
    <2>1. i \in Nat /\ 1 <= i /\ i <= m /\ i <= m + 1 /\ i <= n
      BY <1>1, <1>5
    <2>2. \A j \in Nat : 1 <= j /\ j < i => p[j] = q[j]
      BY <1>5, <2>1
    <2>. QED
      BY <1>5, <2>1, <2>2 DEF Smaller, m, n
  <1>6. ASSUME NEW i \in Nat, Smaller(p, q, i) PROVE Before(p, q)
    <2>1. /\ 1 <= i /\ i <= m + 1 /\ i <= n
          /\ \A j \in Nat : 1 <= j /\ j < i => p[j] = q[j]
          /\ i <= m => p[i] < q[i]
      BY <1>6 DEF Smaller, m, n
    <2>2. CASE i <= m
      <3>1. i \in DOMAIN p \cap DOMAIN q
        BY <1>1, <2>1, <2>2
      <3>2. \A j \in 1..(i - 1) : p[j] = q[j]
        BY <2>1
      <3>. QED
        BY <2>1, <2>2, <3>1, <3>2 DEF Before
    <2>3. CASE ~(i <= m)
      <3>1. m <= n /\ m # n /\ \A j \in 1..m : p[j] = q[j]
        BY <1>1, <2>1, <2>3
      <3>. QED
        BY <1>2, <1>3, <3>1 DEF Before, IsStrictPrefix
    <2>. QED
      BY <2>2, <2>3
  <1>7. m + 1 \in Nat
    BY <1>1
  <1>. QED
    BY <1>4, <1>5, <1>6, <1>7 DEF Before

LEMMA BeforeIsTotal ==
    ASSUME NEW p \in Seq(Nat), NEW q \in Seq(Nat), p # q
    PROVE  Before(p, q) \/ Before(q, p)
  <1>. DEFINE m == Len(p)
              n == Len(q)
              Differ == {i \in Nat : /\ 1 <= i /\ i <= m + 1 /\ i <= n + 1
                                     /\ i <= m /\ i <= n => p[i] # q[i]}
  <1>1. m \in Nat /\ n \in Nat /\ (\A i \in 1..m : p[i] \in Nat) /\ (\A i \in 1..n : q[i] \in Nat)
    BY LenProperties, ElementOfSeq
  <1>2. p = q <=> m = n /\ \A i \in 1..m : p[i] = q[i]
    BY SeqEqual
  <1>. HIDE DEF m, n
  <1>3. (IF m <= n THEN m + 1 ELSE n + 1) \in Differ
    BY <1>1
  <1>4. PICK i \in Differ : \A j \in Differ : ~(<<j, i>> \in OpToRel(<, Nat))
    <2>. HIDE DEF Differ
    <2>1. Differ \subseteq Nat
      BY DEF Differ
    <2>. QED
      BY <1>3, <2>1, WFMin, NatLessThanWellFounded
  <1>5. i \in Nat /\ 1 <= i /\ i <= m + 1 /\ i <= n + 1 /\ (i <= m /\ i <= n => p[i] # q[i])
    OBVIOUS
  <1>6. \A j \in Nat : 1 <= j /\ j < i => p[j] = q[j]
    <2>. SUFFICES ASSUME NEW j \in Nat, 1 <= j, j < i, p[j] # q[j] PROVE FALSE
      OBVIOUS
    <2>1. j <= m + 1 /\ j <= n + 1
      BY <1>1, <1>5
    <2>2. j \in Differ
      BY <2>1
    <2>3. <<j, i>> \in OpToRel(<, Nat)
      BY <1>5 DEF OpToRel
    <2>. QED
      BY <1>4, <2>2, <2>3
  <1>7. i <= m \/ i <= n
    <2>. SUFFICES ASSUME ~(i <= m), ~(i <= n) PROVE FALSE
      OBVIOUS
    <2>1. m = n /\ i = m + 1
      BY <1>1, <1>5
    <2>2. \A j \in 1..m : p[j] = q[j]
      BY <1>1, <1>6, <2>1
    <2>. QED
      BY <1>2, <2>1, <2>2
  <1>8. CASE i <= n /\ (i <= m => p[i] < q[i])
    BY <1>5, <1>6, <1>8, BeforeIs DEF Smaller, m, n
  <1>9. CASE i <= m /\ (i <= n => q[i] < p[i])
    <2>1. \A j \in Nat : 1 <= j /\ j < i => q[j] = p[j]
      BY <1>6
    <2>. QED
      BY <1>5, <2>1, <1>9, BeforeIs DEF Smaller, m, n
  <1>10. i <= m /\ i <= n => p[i] < q[i] \/ q[i] < p[i]
    <2>. SUFFICES ASSUME i <= m, i <= n PROVE p[i] < q[i] \/ q[i] < p[i]
      OBVIOUS
    <2>1. p[i] \in Nat /\ q[i] \in Nat /\ p[i] # q[i]
      BY <1>1, <1>5
    <2>. QED
      BY <2>1
  <1>. QED
    BY <1>7, <1>8, <1>9, <1>10

LEMMA SmallerIsOrder ==
    ASSUME NEW p \in Seq(Nat), NEW q \in Seq(Nat), NEW s \in Seq(Nat),
           NEW i \in Nat, Smaller(p, q, i), NEW k \in Nat
    PROVE  /\ ~Smaller(q, p, k)
           /\ Smaller(q, s, k) => Smaller(p, s, IF i <= k THEN i ELSE k)
  <1>. DEFINE l == Len(p)
              m == Len(q)
              n == Len(s)
  <1>1. /\ l \in Nat /\ m \in Nat /\ n \in Nat
        /\ \A j \in 1..l : p[j] \in Nat
        /\ \A j \in 1..m : q[j] \in Nat
        /\ \A j \in 1..n : s[j] \in Nat
    BY LenProperties, ElementOfSeq
  <1>2. /\ 1 <= i /\ i <= l + 1 /\ i <= m
        /\ \A j \in Nat : 1 <= j /\ j < i => p[j] = q[j]
        /\ i <= l => p[i] < q[i]
    BY DEF Smaller
  <1>3. ASSUME Smaller(q, p, k) PROVE FALSE
    <2>. HIDE DEF l, m, n
    <2>1. /\ 1 <= k /\ k <= m + 1 /\ k <= l
          /\ \A j \in Nat : 1 <= j /\ j < k => q[j] = p[j]
          /\ k <= m => q[k] < p[k]
      BY <1>3 DEF Smaller, l, m
    <2>2. CASE i < k
      <3>1. p[i] < q[i] /\ p[i] = q[i] /\ p[i] \in Nat /\ q[i] \in Nat
        BY <1>1, <1>2, <2>1, <2>2
      <3>. QED
        BY <3>1
    <2>3. CASE k < i
      <3>1. q[k] < p[k] /\ p[k] = q[k] /\ p[k] \in Nat /\ q[k] \in Nat
        BY <1>1, <1>2, <2>1, <2>3
      <3>. QED
        BY <3>1
    <2>4. CASE i = k
      <3>1. p[i] < q[i] /\ q[i] < p[i] /\ p[i] \in Nat /\ q[i] \in Nat
        BY <1>1, <1>2, <2>1, <2>4
      <3>. QED
        BY <3>1
    <2>. QED
      BY <2>2, <2>3, <2>4
  <1>4. ASSUME Smaller(q, s, k) PROVE Smaller(p, s, IF i <= k THEN i ELSE k)
    <2>. HIDE DEF l, m, n
    <2>1. /\ 1 <= k /\ k <= m + 1 /\ k <= n
          /\ \A j \in Nat : 1 <= j /\ j < k => q[j] = s[j]
          /\ k <= m => q[k] < s[k]
      BY <1>4 DEF Smaller, m, n
    <2>2. CASE i <= k
      <3>1. i <= n /\ \A j \in Nat : 1 <= j /\ j < i => p[j] = s[j]
        BY <1>1, <1>2, <2>1, <2>2
      <3>2. i <= l => p[i] < s[i]
        <4>. SUFFICES ASSUME i <= l PROVE p[i] < s[i]
          OBVIOUS
        <4>1. p[i] < q[i] /\ p[i] \in Nat /\ q[i] \in Nat /\ s[i] \in Nat
          BY <1>1, <1>2, <3>1
        <4>2. q[i] = s[i] \/ q[i] < s[i]
          BY <1>2, <2>1, <2>2
        <4>. QED
          BY <4>1, <4>2, SMTT(30)
      <3>. QED
        BY <1>2, <2>2, <3>1, <3>2 DEF Smaller, l, n
    <2>3. CASE ~(i <= k)
      <3>1. k <= l /\ k <= l + 1 /\ k < i /\ k <= m
        BY <1>1, <1>2, <2>3
      <3>2. \A j \in Nat : 1 <= j /\ j < k => p[j] = s[j]
        BY <1>1, <1>2, <2>1, <2>3
      <3>3. p[k] < s[k]
        BY <1>2, <2>1, <3>1
      <3>. QED
        BY <2>1, <2>3, <3>1, <3>2, <3>3 DEF Smaller, l, n
    <2>. QED
      BY <2>2, <2>3
  <1>. QED
    BY <1>3, <1>4

LEMMA BeforeIsOrder ==
    ASSUME NEW p \in Seq(Nat), NEW q \in Seq(Nat), NEW s \in Seq(Nat), Before(p, q)
    PROVE  /\ ~Before(q, p) /\ p # q
           /\ Before(q, s) => Before(p, s)
  <1>1. PICK i \in Nat : Smaller(p, q, i)
    BY BeforeIs
  <1>2. ~Before(q, p)
    BY <1>1, BeforeIs, SmallerIsOrder
  <1>3. ASSUME Before(q, s) PROVE Before(p, s)
    <2>1. PICK k \in Nat : Smaller(q, s, k)
      BY <1>3, BeforeIs
    <2>2. Smaller(p, s, IF i <= k THEN i ELSE k)
      BY <1>1, <2>1, SmallerIsOrder
    <2>3. (IF i <= k THEN i ELSE k) \in Nat
      OBVIOUS
    <2>. QED
      BY <2>2, <2>3, BeforeIs
  <1>. QED
    BY <1>2, <1>3

\* Of finitely many different paths one comes first.
LEMMA FirstExists ==
    ASSUME NEW S, IsFiniteSet(S), S # {}, NEW f, \A t \in S : f[t] \in Places,
           \A t, u \in S : f[t] = f[u] => t = u
    PROVE  \E t \in S : \A u \in S \ {t} : Before(f[t], f[u])
  <1>. DEFINE First(T) == \E t \in T : \A u \in T \ {t} : Before(f[t], f[u])
              Without == {T \in SUBSET S : T # {} /\ ~First(T)}
  <1>. SUFFICES ASSUME ~First(S) PROVE FALSE
    OBVIOUS
  <1>1. S \in Without
    OBVIOUS
  <1>2. Without \subseteq FiniteSubsetsOf(S)
    BY FS_Subset DEF FiniteSubsetsOf
  <1>3. PICK T \in Without : \A U \in Without : ~(<<U, T>> \in StrictSubsetOrdering(S))
    BY <1>1, <1>2, WFMin, FS_StrictSubsetOrderingWellFounded
  <1>4. PICK x \in T : TRUE
    OBVIOUS
  <1>5. CASE T \ {x} = {}
    <2>1. First(T)
      BY <1>4, <1>5
    <2>. QED
      BY <1>3, <2>1
  <1>6. CASE T \ {x} # {}
    <2>1. <<T \ {x}, T>> \in StrictSubsetOrdering(S)
      BY <1>4 DEF StrictSubsetOrdering
    <2>2. First(T \ {x})
      BY <1>3, <1>6, <2>1
    <2>3. PICK m \in T \ {x} : \A u \in (T \ {x}) \ {m} : Before(f[m], f[u])
      BY <2>2
    <2>4. f[m] \in Seq(Nat) /\ f[x] \in Seq(Nat) /\ f[m] # f[x]
      BY <1>4, <2>3, PlaceIsSequence
    <2>5. CASE Before(f[m], f[x])
      <3>1. \A u \in T \ {m} : Before(f[m], f[u])
        BY <2>3, <2>5
      <3>. QED
        BY <1>3, <2>3, <3>1
    <2>6. CASE Before(f[x], f[m])
      <3>1. ASSUME NEW u \in T \ {x} PROVE Before(f[x], f[u])
        <4>1. f[u] \in Seq(Nat)
          BY PlaceIsSequence
        <4>2. CASE u = m
          BY <2>6, <4>2
        <4>3. CASE u # m
          <5>1. Before(f[m], f[u])
            BY <2>3, <4>3
          <5>. QED
            BY <2>4, <2>6, <4>1, <5>1, BeforeIsOrder
        <4>. QED
          BY <4>2, <4>3
      <3>. QED
        BY <1>3, <1>4, <3>1
    <2>. QED
      BY <2>4, <2>5, <2>6, BeforeIsTotal
  <1>. QED
    BY <1>5, <1>6

-----------------------------------------------------------------------------
(* What a walk finds                                                        *)

LEMMA OrderFacts ==
    /\ Order \in Seq(Repos) /\ Len(Order) \in Nat /\ DOMAIN Order = 1..Len(Order)
    /\ \A i \in 1..Len(Order) : Order[i] \in Repos
    /\ IsFiniteSet(Repos) /\ Cardinality(Repos) = Len(Order)
    /\ IsFiniteSet(Trees)
  <1>1. Order \in Seq(Repos) /\ Len(Order) \in Nat /\ DOMAIN Order = 1..Len(Order)
    BY OrderAssumption, LenProperties
  <1>2. \A i \in 1..Len(Order) : Order[i] \in Repos
    BY <1>1, ElementOfSeq
  <1>3. IsFiniteSet(1..Len(Order)) /\ Cardinality(1..Len(Order)) = Len(Order)
    BY <1>1, FS_Interval, SMTT(30)
  <1>4. Order \in Bijection(1..Len(Order), Repos)
    <2>1. \A i, j \in 1..Len(Order) : Order[i] = Order[j] => i = j
      BY <1>1, OrderAssumption DEF IsInjective
    <2>2. /\ Order \in [1..Len(Order) -> Repos]
          /\ \A r \in Repos : \E i \in 1..Len(Order) : Order[i] = r
      BY <1>1, <1>2 DEF Repos, ToSet
    <2>. QED
      BY <2>1, <2>2, Fun_IsBij
  <1>5. IsFiniteSet(Repos) /\ Cardinality(Repos) = Len(Order)
    <2>1. ExistsBijection(1..Len(Order), Repos)
      BY <1>4 DEF ExistsBijection
    <2>. HIDE DEF Repos
    <2>. QED
      BY <1>3, <2>1, FS_Bijection
  <1>6. IsFiniteSet(Trees)
    BY <1>5, PlacesAssumption, FS_Union DEF Trees
  <1>. QED
    BY <1>1, <1>2, <1>5, <1>6

LEMMA SomeAreLeft ==
    ASSUME NEW S \in SUBSET Repos, S # Repos
    PROVE  Order[Cardinality(S) + 1] \in Repos
  <1>1. IsFiniteSet(S) /\ Cardinality(S) \in Nat /\ Cardinality(S) <= Len(Order)
    BY OrderFacts, FS_Subset, FS_CardinalityType
  <1>2. Cardinality(S) # Len(Order)
    BY OrderFacts, FS_Subset
  <1>3. Cardinality(S) + 1 \in 1..Len(Order)
    BY <1>1, <1>2, OrderFacts
  <1>. QED
    BY <1>3, OrderFacts

LEMMA ParentIsRepo ==
    ASSUME NEW r \in Repos
    PROVE  Parent[r] = None \/ Parent[r] \in Repos
  <1>1. PICK i \in DOMAIN Order : r = Order[i]
    BY DEF Repos, ToSet
  <1>2. Parent[r] = None \/ \E j \in 1..(i - 1) : Order[j] = Parent[r]
    BY <1>1, ParentAssumption
  <1>3. i \in 1..Len(Order)
    BY OrderFacts
  <1>4. \A j \in 1..(i - 1) : Order[j] \in Repos
    BY <1>3, OrderFacts
  <1>. QED
    BY <1>2, <1>4

\* Placed: where the directories can be.
LEMMA FoundFacts ==
    ASSUME NEW l \in [Trees -> Places \cup {Outside, None}], NEW g, Distinct(l)
    PROVE  /\ FoundIn(l, g) \in [Repos -> Places \cup {None}]
           /\ FirstsIn(l, g, FoundIn(l, g))
           /\ \A r \in Repos : FoundIn(l, g)[r] # None =>
                  \E t \in CheckoutsIn(l, g, r) : l[t] = FoundIn(l, g)[r]
  <1>1. ASSUME NEW r \in Repos, CheckoutsIn(l, g, r) # {}
        PROVE  \E t \in CheckoutsIn(l, g, r) :
                  /\ FoundIn(l, g)[r] = l[t]
                  /\ \A u \in CheckoutsIn(l, g, r) \ {t} : Before(l[t], l[u])
    <2>. DEFINE C == CheckoutsIn(l, g, r)
                First(t) == \A u \in C \ {t} : Before(l[t], l[u])
    <2>1. IsFiniteSet(C) /\ C # {} /\ \A t \in C : l[t] \in Places
      BY <1>1, OrderFacts, FS_Subset DEF CheckoutsIn
    <2>2. \A t, u \in C : l[t] = l[u] => t = u
      BY DEF CheckoutsIn, Distinct
    <2>3. \E t \in C : First(t)
      <3>. HIDE DEF C
      <3>. QED
        BY <2>1, <2>2, FirstExists
    <2>4. FoundIn(l, g)[r] = l[CHOOSE t \in C : First(t)]
      BY <1>1 DEF FoundIn
    <2>. HIDE DEF C, First
    <2>5. (CHOOSE t \in C : First(t)) \in C /\ First(CHOOSE t \in C : First(t))
      BY <2>3
    <2>. QED
      BY <2>4, <2>5 DEF C, First
  <1>2. \A r \in Repos : CheckoutsIn(l, g, r) = {} => FoundIn(l, g)[r] = None
    BY DEF FoundIn
  <1>3. \A r \in Repos : \A t \in CheckoutsIn(l, g, r) : l[t] \in Places /\ l[t] # None
    BY DEF CheckoutsIn
  <1>4. FoundIn(l, g) = [r \in Repos |-> FoundIn(l, g)[r]]
    BY DEF FoundIn
  <1>5. FoundIn(l, g) \in [Repos -> Places \cup {None}]
    <2>1. \A r \in Repos : FoundIn(l, g)[r] \in Places \cup {None}
      BY <1>1, <1>2, <1>3
    <2>. QED
      BY <1>4, <2>1
  <1>6. FirstsIn(l, g, FoundIn(l, g))
    <2>. SUFFICES ASSUME NEW r \in Repos
                  PROVE  /\ FoundIn(l, g)[r] = None => CheckoutsIn(l, g, r) = {}
                         /\ \A t \in CheckoutsIn(l, g, r) :
                                l[t] = FoundIn(l, g)[r] \/ Before(FoundIn(l, g)[r], l[t])
      BY DEF FirstsIn
    <2>1. CASE CheckoutsIn(l, g, r) = {}
      BY <2>1
    <2>2. CASE CheckoutsIn(l, g, r) # {}
      BY <1>1, <1>3, <2>2
    <2>. QED
      BY <2>1, <2>2
  <1>. QED
    BY <1>1, <1>2, <1>5, <1>6

\* The first of them stays the first when it is still there.
LEMMA FirstStays ==
    ASSUME NEW l \in [Trees -> Places \cup {Outside, None}], NEW g, NEW h, Distinct(l),
           NEW found \in [Repos -> Places \cup {None}], FirstsIn(l, g, found),
           \A r \in Repos : CheckoutsIn(l, h, r) \subseteq CheckoutsIn(l, g, r)
    PROVE  /\ FirstsIn(l, h, found)
           /\ \A r \in Repos :
                  /\ FoundIn(l, h)[r] # None
                  /\ found[r] # None => \E t \in CheckoutsIn(l, h, r) : l[t] = found[r]
                  => FoundIn(l, h)[r] = found[r]
  <1>1. FirstsIn(l, h, found)
    BY DEF FirstsIn
  <1>2. ASSUME NEW r \in Repos, FoundIn(l, h)[r] # None,
               found[r] # None => \E t \in CheckoutsIn(l, h, r) : l[t] = found[r]
        PROVE  FoundIn(l, h)[r] = found[r]
    <2>1. PICK c \in CheckoutsIn(l, h, r) : l[c] = FoundIn(l, h)[r]
      BY <1>2, FoundFacts
    <2>2. found[r] # None
      BY <1>1, <2>1 DEF FirstsIn
    <2>3. PICK t \in CheckoutsIn(l, h, r) : l[t] = found[r]
      BY <1>2, <2>2
    <2>4. FirstsIn(l, h, FoundIn(l, h))
      BY FoundFacts
    <2>5. l[t] = l[c] \/ Before(l[c], l[t])
      BY <2>1, <2>4 DEF FirstsIn
    <2>6. l[c] = l[t] \/ Before(l[t], l[c])
      BY <1>1, <2>3 DEF FirstsIn
    <2>7. l[c] \in Seq(Nat) /\ l[t] \in Seq(Nat)
      BY PlaceIsSequence DEF CheckoutsIn
    <2>. QED
      BY <2>1, <2>3, <2>5, <2>6, <2>7, BeforeIsOrder
  <1>. QED
    BY <1>1, <1>2

\* The operators of the model are the ones above, at the present and at the next
\* directories and registrations.
LEMMA Found ==
    /\ Discovered = FoundIn(at, reg) /\ Discovered' = FoundIn(at', reg')
    /\ \A w, f : RepairsFor(w, f) = RepairsIn(at, reg, w, f)
    /\ StillThere <=> \A r \in Repos : seen[r] # None =>
                          \E t \in CheckoutsIn(at, reg, r) : at[t] = seen[r]
    /\ StillThere' <=> \A r \in Repos : seen'[r] # None =>
                           \E t \in CheckoutsIn(at', reg', r) : at'[t] = seen'[r]
  <1>1. \A r : CheckoutsOf(r) = CheckoutsIn(at, reg, r)
    BY DEF CheckoutsOf, CheckoutsIn, Below, Usable
  <1>2. \A r, p : MissingRegistration(r, p) = MissingIn(at, reg, r, p)
    BY DEF MissingRegistration, MissingIn, Occupied, Below
  <1>. QED
    BY DEF Discovered, FoundIn, CheckoutsOf, CheckoutsIn, Below, Usable, RepairsFor, RepairsIn,
           MissingRegistration, MissingIn, Occupied, StillThere

LEMMA FixIs ==
    /\ FixConverges <=>
         ((pc = "done" /\ result \in {"fixed", "imported"} /\ quiet
           /\ (result = "fixed" /\ "mount" \notin repairs => StillThere))
          => RepairsIn(at, reg, state, FoundIn(at, reg)) = {} /\ Valid(state.entries))
    /\ FixConverges' <=>
         ((pc' = "done" /\ result' \in {"fixed", "imported"} /\ quiet'
           /\ (result' = "fixed" /\ "mount" \notin repairs' => StillThere'))
          => RepairsIn(at', reg', state', FoundIn(at', reg')) = {} /\ Valid(state'.entries))
  BY DEF FixConverges, Discovered, FoundIn, CheckoutsOf, CheckoutsIn, Below, Usable, RepairsFor,
         RepairsIn, MissingRegistration, MissingIn, Occupied

-----------------------------------------------------------------------------
(* The states that are written, and the directories that are moved          *)

LEMMA RestIsSequence ==
    ASSUME NEW S, NEW q \in Seq(S), NEW m \in Nat
    PROVE  /\ SubSeq(q, m + 1, Len(q)) \in Seq(S)
           /\ m <= Len(q) =>
                /\ Len(SubSeq(q, m + 1, Len(q))) = Len(q) - m
                /\ \A i \in 1..(Len(q) - m) : SubSeq(q, m + 1, Len(q))[i] = q[m + i]
  <1>1. Len(q) \in Nat /\ \A i \in 1..Len(q) : q[i] \in S
    BY LenProperties, ElementOfSeq
  <1>2. CASE m <= Len(q)
    <2>1. m + 1 \in 1..(Len(q) + 1) /\ Len(q) \in (m + 1 - 1)..Len(q)
      BY <1>1, <1>2
    <2>. QED
      BY <1>1, <1>2, <2>1, SubSeqProperties
  <1>3. CASE ~(m <= Len(q))
    <2>1. SubSeq(q, m + 1, Len(q)) = << >>
      BY <1>1, <1>3
    <2>. QED
      BY <1>3, <2>1, EmptySeq
  <1>. QED
    BY <1>2, <1>3

LEMMA EntryFacts ==
    ASSUME NEW found, NEW r \in Repos, found[r] \in Places,
           Parent[r] # None => found[Parent[r]] \in Places
    PROVE  /\ EntryAt(found, r) \in [path: Places, mount: Seq(1..Names)]
           /\ EntryAt(found, r).path = found[r]
  <1>1. found[r] \in Seq(1..Names)
    BY PlaceIsSequence
  <1>2. CASE Parent[r] = None
    BY <1>1, <1>2 DEF EntryAt
  <1>3. CASE Parent[r] # None
    <2>1. Len(found[Parent[r]]) \in Nat
      BY <1>3, PlaceIsSequence
    <2>2. SubSeq(found[r], Len(found[Parent[r]]) + 1, Len(found[r])) \in Seq(1..Names)
      BY <1>1, <2>1, RestIsSequence
    <2>. QED
      BY <1>3, <2>2 DEF EntryAt
  <1>. QED
    BY <1>2, <1>3

LEMMA RecordedFacts ==
    ASSUME NEW k \in Nat, NEW found \in [Repos -> Places]
    PROVE  /\ Recorded(k, found) \in States /\ Recorded(k, found) # None
           /\ Recorded(k, found).mark = k
           /\ \A r \in Repos : Recorded(k, found).entries[r].path = found[r]
  <1>1. \A r \in Repos : /\ EntryAt(found, r) \in [path: Places, mount: Seq(1..Names)]
                         /\ EntryAt(found, r).path = found[r]
    BY EntryFacts, ParentIsRepo
  <1>2. Recorded(k, found) \in States
    BY <1>1 DEF Recorded, States
  <1>. QED
    BY <1>1, <1>2, PlacesAssumption DEF Recorded

LEMMA RepairedFacts ==
    ASSUME NEW w \in States, NEW found \in [Repos -> Places \cup {None}], Derivable(found)
    PROVE  /\ Repaired(w, found) \in States /\ Repaired(w, found) # None
           /\ Repaired(w, found).mark = w.mark
           /\ \A r \in Repos : Repaired(w, found).entries[r].path =
                  IF found[r] = None THEN w.entries[r].path ELSE found[r]
  <1>. DEFINE E == [r \in Repos |-> IF found[r] = None THEN w.entries[r] ELSE EntryAt(found, r)]
  <1>1. ASSUME NEW r \in Repos, found[r] # None
        PROVE  /\ EntryAt(found, r) \in [path: Places, mount: Seq(1..Names)]
               /\ EntryAt(found, r).path = found[r]
    <2>1. found[r] \in Places
      BY <1>1
    <2>2. Parent[r] # None => found[Parent[r]] \in Places
      BY <1>1, ParentIsRepo DEF Derivable
    <2>. QED
      BY <2>1, <2>2, EntryFacts
  <1>2. w = [mark |-> w.mark, entries |-> w.entries] /\ w.mark \in Nat
        /\ \A r \in Repos : w.entries[r] \in [path: Places, mount: Seq(1..Names)]
    BY DEF States
  <1>3. Repaired(w, found) = [w EXCEPT !.entries = E]
    BY DEF Repaired
  <1>4. E \in [Repos -> [path: Places, mount: Seq(1..Names)]]
    BY <1>1, <1>2
  <1>5. \A r \in Repos : E[r].path = IF found[r] = None THEN w.entries[r].path ELSE found[r]
    BY <1>1
  <1>. HIDE DEF E
  <1>6. Repaired(w, found) = [mark |-> w.mark, entries |-> E]
    BY <1>2, <1>3
  <1>7. Repaired(w, found) \in States
    BY <1>2, <1>4, <1>6 DEF States
  <1>. QED
    BY <1>5, <1>6, <1>7, PlacesAssumption

\* A path q below b becomes the same path below p.
Rebased(p, b, q) == p \o SubSeq(q, Len(b) + 1, Len(q))

LEMMA RebasedIs ==
    ASSUME NEW p \in Seq(Nat), NEW b \in Seq(Nat), NEW q \in Seq(Nat), IsPrefix(b, q)
    PROVE  /\ Rebased(p, b, q) \in Seq(Nat) /\ Len(b) <= Len(q)
           /\ Len(Rebased(p, b, q)) = Len(p) + (Len(q) - Len(b))
           /\ \A i \in 1..Len(p) : Rebased(p, b, q)[i] = p[i]
           /\ \A i \in 1..(Len(q) - Len(b)) : Rebased(p, b, q)[Len(p) + i] = q[Len(b) + i]
           /\ \A i \in 1..Len(b) : q[i] = b[i]
  <1>. DEFINE k == Len(b)
              n == Len(q)
              rest == SubSeq(q, k + 1, n)
  <1>1. k \in Nat /\ n \in Nat /\ Len(p) \in Nat
    BY LenProperties
  <1>2. k <= n /\ \A i \in 1..k : q[i] = b[i]
    BY PrefixAgrees
  <1>3. /\ rest \in Seq(Nat) /\ Len(rest) = n - k
        /\ \A i \in 1..(n - k) : rest[i] = q[k + i]
    BY <1>1, <1>2, RestIsSequence
  <1>4. Rebased(p, b, q) = p \o rest
    BY DEF Rebased
  <1>. HIDE DEF k, n, rest
  <1>5. /\ p \o rest \in Seq(Nat) /\ Len(p \o rest) = Len(p) + Len(rest)
        /\ \A i \in 1..Len(p) : (p \o rest)[i] = p[i]
        /\ \A i \in 1..Len(rest) : (p \o rest)[Len(p) + i] = rest[i]
    <2>1. Len(rest) \in Nat
      BY <1>3, LenProperties
    <2>2. /\ p \o rest \in Seq(Nat) /\ Len(p \o rest) = Len(p) + Len(rest)
          /\ \A i \in 1..(Len(p) + Len(rest)) :
                 (p \o rest)[i] = IF i <= Len(p) THEN p[i] ELSE rest[i - Len(p)]
      BY <1>3, ConcatProperties
    <2>. DEFINE c == p \o rest
    <2>. HIDE DEF c
    <2>3. \A i \in 1..Len(p) : c[i] = p[i]
      BY <1>1, <2>1, <2>2 DEF c
    <2>4. \A i \in 1..Len(rest) : c[Len(p) + i] = rest[i]
      <3>. SUFFICES ASSUME NEW i \in 1..Len(rest) PROVE c[Len(p) + i] = rest[i]
        OBVIOUS
      <3>1. /\ Len(p) + i \in 1..(Len(p) + Len(rest)) /\ ~(Len(p) + i <= Len(p))
            /\ (Len(p) + i) - Len(p) = i
        BY <1>1, <2>1
      <3>. QED
        BY <2>2, <3>1 DEF c
    <2>. QED
      BY <2>2, <2>3, <2>4 DEF c
  <1>. QED
    BY <1>1, <1>2, <1>3, <1>4, <1>5 DEF k, n

LEMMA RebasedFacts ==
    ASSUME NEW p \in Seq(Nat), NEW b \in Seq(Nat), NEW q \in Seq(Nat), IsPrefix(b, q)
    PROVE  /\ IsPrefix(p, Rebased(p, b, q))
           /\ Rebased(p, b, q) = p => q = b
           /\ \A s \in Seq(Nat) :
                  IsPrefix(b, s) /\ Rebased(p, b, q) = Rebased(p, b, s) => q = s
  <1>1. Len(p) \in Nat /\ Len(b) \in Nat /\ Len(q) \in Nat
    BY LenProperties
  <1>2. IsPrefix(p, Rebased(p, b, q))
    <2>1. Len(p) <= Len(Rebased(p, b, q))
      BY <1>1, RebasedIs
    <2>. QED
      BY <2>1, RebasedIs, PrefixAgrees
  <1>3. ASSUME Rebased(p, b, q) = p PROVE q = b
    <2>0. /\ Len(Rebased(p, b, q)) = Len(p) + (Len(q) - Len(b))
          /\ \A i \in 1..Len(b) : q[i] = b[i]
      BY RebasedIs
    <2>1. Len(q) = Len(b) /\ \A i \in 1..Len(b) : q[i] = b[i]
      BY <1>1, <1>3, <2>0
    <2>. QED
      BY <1>1, <2>1, SeqEqual
  <1>4. ASSUME NEW s \in Seq(Nat), IsPrefix(b, s), Rebased(p, b, q) = Rebased(p, b, s) PROVE q = s
    <2>. DEFINE k == Len(b)
                l == Len(p)
                n == Len(q)
    <2>0. /\ Len(Rebased(p, b, q)) = l + (n - k) /\ Len(Rebased(p, b, s)) = l + (Len(s) - k)
          /\ Len(s) \in Nat
      BY <1>4, RebasedIs, LenProperties, ZenonT(60)
    <2>1. Len(s) \in Nat /\ Len(s) = n
      <3>1. l + (n - k) = l + (Len(s) - k) /\ l \in Nat /\ k \in Nat /\ n \in Nat
        BY <1>1, <1>4, <2>0
      <3>. HIDE DEF k, l, n
      <3>. QED
        BY <2>0, <3>1
    <2>2. /\ \A i \in 1..k : q[i] = b[i] /\ s[i] = b[i]
          /\ k <= n
      BY <1>4, RebasedIs
    <2>3. /\ \A i \in 1..(n - k) : Rebased(p, b, q)[l + i] = q[k + i]
          /\ \A i \in 1..(n - k) : Rebased(p, b, q)[l + i] = s[k + i]
      <3>1. \A i \in 1..(n - k) : Rebased(p, b, q)[l + i] = q[k + i]
        BY RebasedIs, ZenonT(60)
      <3>2. \A i \in 1..(Len(s) - k) : Rebased(p, b, s)[l + i] = s[k + i]
        BY <1>4, RebasedIs, ZenonT(60)
      <3>. HIDE DEF k, l, n
      <3>. QED
        BY <1>4, <2>1, <3>1, <3>2
    <2>4. ASSUME NEW i \in 1..n PROVE q[i] = s[i]
      <3>. HIDE DEF k, l, n
      <3>0. i \in Nat /\ k \in Nat /\ n \in Nat
        BY <1>1, <2>4 DEF k, n
      <3>1. CASE i <= k
        BY <2>2, <3>0, <3>1
      <3>2. CASE ~(i <= k)
        <4>1. i - k \in 1..(n - k) /\ k + (i - k) = i
          BY <2>4, <3>0, <3>2
        <4>. QED
          BY <2>3, <4>1
      <3>. QED
        BY <3>1, <3>2
    <2>. QED
      BY <2>1, <2>4, SeqEqual
  <1>. QED
    BY <1>2, <1>3, <1>4

\* A directory is moved to where nothing is, or out of the workspace, or deleted.
LEMMA MovedFacts ==
    ASSUME TypeOK, Distinct(at), NEW t \in Trees, NEW p \in Places \cup {Outside, None},
           p \in Places => ~Occupied(p),
           \A u \in Trees : Moved(t, p)[u] \in Places \cup {Outside, None}
    PROVE  Moved(t, p) \in [Trees -> Places \cup {Outside, None}] /\ Distinct(Moved(t, p))
  <1>. DEFINE m == Moved(t, p)
              In(u) == u # t /\ at[t] \in Places /\ at[u] \in Places /\ IsPrefix(at[t], at[u])
  <1>1. m \in [Trees -> Places \cup {Outside, None}]
    BY DEF Moved
  <1>2. /\ m[t] = p
        /\ \A u \in Trees : In(u) =>
               m[u] = IF p \notin Places THEN p ELSE Rebased(p, at[t], at[u])
        /\ \A u \in Trees : u # t /\ ~In(u) => m[u] = at[u]
    BY DEF Moved, Below, Rebased
  <1>3. \A u \in Trees : at[u] \in Places => at[u] \in Seq(Nat)
    BY PlaceIsSequence
  <1>4. p \in Places => p \in Seq(Nat)
    BY PlaceIsSequence
  <1>5. \A u \in Trees : p \in Places => ~(at[u] \in Places /\ IsPrefix(p, at[u]))
    BY DEF Occupied, Below
  <1>6. p \in Places => IsPrefix(p, p)
    BY <1>4, PrefixAgrees, LenProperties
  <1>7. p \in Places => \A u \in Trees : In(u) => IsPrefix(p, m[u]) /\ m[u] # p
    <2>. SUFFICES ASSUME p \in Places, NEW u \in Trees, In(u) PROVE IsPrefix(p, m[u]) /\ m[u] # p
      OBVIOUS
    <2>1. m[u] = Rebased(p, at[t], at[u]) /\ at[t] \in Seq(Nat) /\ at[u] \in Seq(Nat)
      BY <1>2, <1>3
    <2>2. at[t] # at[u]
      BY DEF Distinct
    <2>. QED
      BY <1>4, <2>1, <2>2, RebasedFacts
  <1>8. ASSUME NEW u \in Trees, NEW v \in Trees, m[u] \in Places, m[u] = m[v], In(u), In(v)
        PROVE  u = v
    <2>1. p \in Places
      BY <1>2, <1>8
    <2>2. Rebased(p, at[t], at[u]) = Rebased(p, at[t], at[v])
      BY <1>2, <1>8, <2>1
    <2>3. at[u] = at[v]
      BY <1>3, <1>4, <1>8, <2>1, <2>2, RebasedFacts
    <2>. QED
      BY <1>8, <2>3 DEF Distinct
  <1>9. ASSUME NEW u \in Trees, NEW v \in Trees, m[u] \in Places, m[u] = m[v],
               u = t \/ In(u), v # t, ~In(v)
        PROVE  FALSE
    <2>1. p \in Places
      BY <1>2, <1>9
    <2>2. IsPrefix(p, m[u])
      BY <1>2, <1>6, <1>7, <1>9, <2>1
    <2>3. m[v] = at[v]
      BY <1>2, <1>9
    <2>. QED
      BY <1>5, <1>9, <2>1, <2>2, <2>3
  <1>10. ASSUME NEW u \in Trees, NEW v \in Trees, m[u] \in Places, m[u] = m[v],
                u # t, ~In(u), v # t, ~In(v)
         PROVE  u = v
    <2>1. at[u] = at[v] /\ at[u] \in Places
      BY <1>2, <1>10
    <2>. QED
      BY <2>1 DEF Distinct
  <1>11. ASSUME NEW u \in Trees, m[u] \in Places, m[u] = m[t], In(u) PROVE FALSE
    BY <1>2, <1>7, <1>11
  <1>. HIDE DEF m, In
  <1>12. ASSUME NEW u \in Trees, NEW v \in Trees, m[u] \in Places, m[u] = m[v] PROVE u = v
    BY <1>8, <1>9, <1>10, <1>11, <1>12
  <1>. QED
    BY <1>1, <1>12 DEF m, Distinct

-----------------------------------------------------------------------------
(* The steps of a call                                                      *)

LEMMA RepairsAre ==
    ASSUME NEW l, NEW g, NEW w, NEW f
    PROVE  /\ RepairsIn(l, g, w, f) \subseteq {"mount", "prune"}
           /\ RepairsIn(l, g, w, f) # {} => Repos # {}
           /\ "mount" \in RepairsIn(l, g, w, f) <=>
                  \E r \in Repos : f[r] # None /\ f[r] # w.entries[r].path
           /\ "prune" \in RepairsIn(l, g, w, f) <=>
                  \E r \in Repos : f[r] = None /\ MissingIn(l, g, r, w.entries[r].path)
  BY DEF RepairsIn

LEMMA GoesOn ==
    ASSUME pc' # "done", Typed', Distinct(at)', Held', Generations', Still', Reported'
    PROVE  DInv'
  BY DEF DInv, FixConverges, FailureIsTrue

\* The call ends and leaves everything as it was.
LEMMA StopKeeps ==
    ASSUME DInv, NEW how \in {"refused", "reported", "killed", "unrecorded"}, pc # "done",
           how = "refused" => pc \notin {"restore", "record"},
           End(how), UNCHANGED <<World, dry, ws, snap, seen, repairs, pruned>>
    PROVE  DInv'
  <1>1. Typed'
    BY DEF DInv, Typed, TypeOK, Steps, End, World, files, trees
  <1>2. Distinct(at)' /\ Held'
    BY DEF DInv, Distinct, Held, Sought, Imported, End, World, files, trees
  <1>3. Generations' /\ Still' /\ Reported'
    BY DEF Generations, Still, Reported, Sought, Imported, End
  <1>4. FixConverges'
    BY DEF FixConverges, End
  <1>5. FailureIsTrue'
    <2>1. how = "refused" /\ snap # None /\ state # None =>
              state.entries = snap.entries \/ state.mark # snap.mark
      BY DEF DInv, Typed, TypeOK, Steps, Held, Generations, Sought, Imported
    <2>. QED
      BY <2>1 DEF FailureIsTrue, End, World, files
  <1>. QED
    BY <1>1, <1>2, <1>3, <1>4, <1>5 DEF DInv

LEMMA StartKeeps ==
    ASSUME DInv, Start
    PROVE  DInv'
  <1>1. Typed'
    BY DEF DInv, Typed, TypeOK, Steps, Start, World, files, trees
  <1>2. Distinct(at)' /\ Held'
    BY DEF DInv, Distinct, Held, Sought, Imported, Start, World, files, trees
  <1>3. Generations' /\ Still'
    BY DEF DInv, Typed, Held, Generations, Still, Sought, Imported, Start, World, files, trees
  <1>4. Reported'
    BY DEF DInv, Held, Reported, Sought, Imported, Start, World, files, trees
  <1>. QED
    BY <1>1, <1>2, <1>3, <1>4, GoesOn DEF Start

LEMMA WalkKeeps ==
    ASSUME DInv, Walk
    PROVE  DInv'
  <1>1. Typed'
    <2>1. Discovered \in [Repos -> Places \cup {None}]
      BY Found, FoundFacts DEF DInv, Typed, TypeOK
    <2>. QED
      BY <2>1 DEF DInv, Typed, TypeOK, Steps, Walk, World, files, trees
  <1>2. Distinct(at)' /\ Held'
    BY DEF DInv, Distinct, Held, Sought, Imported, Walk, World, files, trees
  <1>3. Generations' /\ Still'
    BY DEF DInv, Typed, Held, Generations, Still, Sought, Imported, Walk, World, files, trees
  <1>4. Reported'
    BY Found DEF DInv, Held, Reported, Sought, Imported, Walk, World, files, trees
  <1>. QED
    BY <1>1, <1>2, <1>3, <1>4, GoesOn DEF Walk

LEMMA CompareKeeps ==
    ASSUME DInv, Compare
    PROVE  DInv'
  <1>1. Typed'
    <2>1. repairs' = RepairsIn(at, reg, ws, seen)
      BY Found DEF Compare
    <2>. QED
      BY <2>1, RepairsAre DEF DInv, Typed, TypeOK, Steps, Compare, World, files, trees
  <1>2. Distinct(at)' /\ Held'
    BY DEF DInv, Distinct, Held, Sought, Imported, Compare, World, files, trees
  <1>3. Generations' /\ Still'
    BY DEF DInv, Typed, Held, Generations, Still, Sought, Imported, Compare, World, files, trees
  <1>4. Reported'
    <2>1. repairs' = RepairsIn(at, reg, ws, seen)
      BY Found DEF Compare
    <2>2. "mount" \notin repairs' => \A r \in Repos : seen[r] \in {None, ws.entries[r].path}
      BY <2>1, RepairsAre
    <2>. QED
      BY <2>1, <2>2 DEF DInv, Held, Reported, Sought, Imported, Compare, World, files, trees
  <1>. QED
    BY <1>1, <1>2, <1>3, <1>4, GoesOn DEF Compare

LEMMA CollectKeeps ==
    ASSUME DInv, Collect
    PROVE  DInv'
  <1>1. Typed'
    BY DEF DInv, Typed, TypeOK, Steps, Collect, World, files, trees, Call
  <1>2. Distinct(at)' /\ Held'
    BY DEF DInv, Distinct, Held, Sought, Imported, Collect, World, files, trees, Call
  <1>3. Generations' /\ Still'
    BY DEF DInv, Typed, Held, Generations, Still, Sought, Imported, Collect, World, files,
           trees, Call
  <1>4. Reported'
    BY DEF DInv, Held, Reported, Sought, Imported, Collect, World, files, trees, Call
  <1>. QED
    BY <1>1, <1>2, <1>3, <1>4, GoesOn DEF Collect

LEMMA DecideKeeps ==
    ASSUME DInv, Decide
    PROVE  DInv'
  <1>1. Typed'
    BY DEF DInv, Typed, TypeOK, Steps, Decide, World, files, trees, Call
  <1>2. Distinct(at)' /\ Held'
    BY DEF DInv, Distinct, Held, Sought, Imported, Decide, World, files, trees, Call
  <1>3. Generations' /\ Still'
    BY DEF DInv, Typed, Held, Generations, Still, Sought, Imported, Decide, World, files,
           trees, Call
  <1>4. Reported'
    <2>1. CASE ~locked
      BY <2>1 DEF DInv, Held, Reported, Sought, Imported, Decide, World, files, trees, Call
    <2>2. CASE locked /\ "prune" \in repairs
      <3>1. quiet => FirstsIn(at, reg, seen)
        BY <2>2, FoundFacts DEF DInv, Typed, TypeOK, Held, Reported, Sought, Decide
      <3>2. pruned = {}
        BY DEF DInv, Typed, Decide
      <3>. QED
        BY <2>2, <3>1, <3>2 DEF DInv, Reported, Imported, Decide, World, files, trees, Call
    <2>3. CASE locked /\ "prune" \notin repairs
      <3>1. quiet => NoneMissing(at, reg, ws)
        <4>. SUFFICES ASSUME quiet PROVE NoneMissing(at, reg, ws)
          OBVIOUS
        <4>1. seen = FoundIn(at, reg) /\ repairs = RepairsIn(at, reg, ws, seen)
          BY <2>3 DEF DInv, Held, Reported, Sought, Decide
        <4>. QED
          BY <2>3, <4>1, RepairsAre DEF NoneMissing
      <3>. QED
        BY <2>3, <3>1 DEF Reported, Decide, World, files, trees, Call
    <2>. QED
      BY <2>1, <2>2, <2>3
  <1>. QED
    BY <1>1, <1>2, <1>3, <1>4, GoesOn DEF Decide

LEMMA TakeLockKeeps ==
    ASSUME DInv, TakeLock
    PROVE  DInv'
  <1>1. Typed'
    BY DEF DInv, Typed, TypeOK, Steps, TakeLock, World, files, trees
  <1>2. Distinct(at)' /\ Held'
    BY DEF DInv, Distinct, Held, Sought, Imported, TakeLock, World, files, trees
  <1>3. Generations' /\ Still'
    BY DEF DInv, Typed, Held, Generations, Still, Sought, Imported, TakeLock, World, files, trees
  <1>4. Reported'
    BY DEF DInv, Held, Reported, Sought, Imported, TakeLock, World, files, trees
  <1>. QED
    BY <1>1, <1>2, <1>3, <1>4, GoesOn DEF TakeLock

LEMMA CaptureKeeps ==
    ASSUME DInv, Capture
    PROVE  DInv'
  <1>1. Typed'
    BY DEF DInv, Typed, TypeOK, Steps, Capture, World, files, trees
  <1>2. Distinct(at)' /\ Held'
    BY DEF DInv, Distinct, Held, Sought, Imported, Capture, World, files, trees
  <1>3. Generations' /\ Still'
    <2>1. state \in States /\ state.mark \in Nat
      BY DEF DInv, Typed, States, Capture
    <2>. QED
      BY <2>1 DEF DInv, Typed, Held, Generations, Still, Sought, Imported, Capture, World,
             files, trees
  <1>4. Reported'
    BY DEF DInv, Held, Reported, Sought, Imported, Capture, World, files, trees
  <1>. QED
    BY <1>1, <1>2, <1>3, <1>4, GoesOn DEF Capture

LEMMA ReadStateKeeps ==
    ASSUME DInv, ReadState
    PROVE  DInv'
  <1>1. Typed'
    BY DEF DInv, Typed, TypeOK, Steps, ReadState, World, files, trees
  <1>2. Distinct(at)' /\ Held'
    BY DEF DInv, Distinct, Held, Sought, Imported, ReadState, World, files, trees
  <1>3. Generations' /\ Still'
    <2>1. state \in States /\ state.mark \in Nat
      BY DEF DInv, Typed, States, ReadState
    <2>. QED
      BY <2>1 DEF DInv, Typed, Held, Generations, Still, Sought, Imported, ReadState, World,
             files, trees
  <1>4. Reported'
    BY DEF DInv, Held, Reported, Sought, Imported, ReadState, World, files, trees
  <1>. QED
    BY <1>1, <1>2, <1>3, <1>4, GoesOn DEF ReadState

\* A prune leaves no registration of r of which the directory is gone.
LEMMA PrunedHolds ==
    ASSUME NEW l, NEW g, NEW h, NEW r,
           h = [t \in Trees |-> IF Of(t) = r /\ ~HoldsIn(l, g, t) THEN None ELSE g[t]]
    PROVE  /\ \A t \in Trees : h[t] # None => h[t] = g[t]
           /\ \A t \in Trees : (Of(t) = r \/ HoldsIn(l, g, t)) /\ h[t] # None => HoldsIn(l, h, t)
  BY DEF HoldsIn

LEMMA NothingMissing ==
    ASSUME NEW l, NEW g, \A t \in Trees : Of(t) \in Repos /\ g[t] # None => HoldsIn(l, g, t)
    PROVE  \A r \in Repos : \A p \in Places : ~MissingIn(l, g, r, p)
  <1>. SUFFICES ASSUME NEW r \in Repos, NEW p \in Places, NEW t \in Trees, Of(t) = r, g[t] = p,
                       ~\E u \in Trees : l[u] \in Places /\ IsPrefix(p, l[u])
                PROVE  FALSE
    BY DEF MissingIn
  <1>1. p # None /\ p # Outside
    BY PlacesAssumption
  <1>2. PICK u \in Trees : l[u] \in Places /\ l[u] = p
    BY <1>1 DEF HoldsIn
  <1>3. IsPrefix(p, p)
    BY PlaceIsSequence, PrefixAgrees
  <1>. QED
    BY <1>2, <1>3

LEMMA PruneKeeps ==
    ASSUME DInv, Prune
    PROVE  DInv'
  <1>. DEFINE r == Order[Cardinality(pruned) + 1]
  <1>1. /\ pc = "prune" /\ reg' = [t \in Trees |->
               IF Of(t) = r /\ ~RegistrationHolds(t) THEN None ELSE reg[t]]
        /\ pruned' = pruned \cup {r}
        /\ UNCHANGED <<files, at, quiet, moves, dry, ws, snap, seen, repairs, faults>>
        /\ \/ pruned' # Repos /\ UNCHANGED <<pc, locked, result>>
           \/ /\ pruned' = Repos /\ "mount" \in repairs
              /\ pc' = "rewalk" /\ UNCHANGED <<locked, result>>
           \/ pruned' = Repos /\ "mount" \notin repairs /\ End("fixed")
    BY DEF Prune
  <1>2. r \in Repos
    BY <1>1, SomeAreLeft DEF DInv, Typed, TypeOK
  <1>. HIDE DEF r
  <1>3. reg' = [t \in Trees |-> IF Of(t) = r /\ ~HoldsIn(at, reg, t) THEN None ELSE reg[t]]
    BY <1>1 DEF RegistrationHolds, HoldsIn, Below
  <1>4. at' = at /\ at \in [Trees -> Places \cup {Outside, None}] /\ Distinct(at)
        /\ seen' = seen /\ seen \in [Repos -> Places \cup {None}]
    BY <1>1 DEF DInv, Typed, TypeOK
  <1>5. Typed'
    <2>1. reg' \in [Trees -> Places \cup {Outside, None}]
      BY <1>3 DEF DInv, Typed, TypeOK
    <2>2. pc' \in Steps /\ locked' \in BOOLEAN
      BY <1>1 DEF DInv, Typed, TypeOK, Steps, End
    <2>3. /\ pc' = "prune" => pruned' # Repos
          /\ pc' \in {"prune", "rewalk", "done"}
      BY <1>1 DEF End
    <2>. QED
      BY <1>1, <1>2, <2>1, <2>2, <2>3 DEF DInv, Typed, TypeOK, files
  <1>6. Distinct(at)' /\ Held'
    BY <1>1 DEF DInv, Distinct, Held, Sought, Imported, End
  <1>7. Generations' /\ Still'
    BY <1>1 DEF DInv, Generations, Still, Sought, Imported, End, files
  <1>8. quiet => FirstsIn(at, reg, seen) /\ state = ws /\ ws \in States /\ Valid(ws.entries)
    BY <1>1, PlacesAssumption DEF DInv, Typed, Held, Still, Reported, Sought
  <1>9. quiet => \A t \in Trees : Of(t) \in pruned' /\ reg'[t] # None => HoldsIn(at, reg', t)
    <2>. SUFFICES ASSUME quiet, NEW t \in Trees, Of(t) \in pruned', reg'[t] # None
                  PROVE  HoldsIn(at, reg', t)
      OBVIOUS
    <2>1. reg[t] = reg'[t]
      BY <1>3, PrunedHolds
    <2>2. Of(t) = r \/ HoldsIn(at, reg, t)
      BY <1>1, <2>1 DEF DInv, Reported
    <2>. QED
      BY <1>3, <2>2, PrunedHolds
  <1>10. quiet => FirstsIn(at, reg', seen)
    <2>1. \A q \in Repos : CheckoutsIn(at, reg', q) \subseteq CheckoutsIn(at, reg, q)
      BY <1>3 DEF CheckoutsIn
    <2>. QED
      BY <1>4, <1>8, <2>1, FirstStays
  <1>11. quiet /\ pruned' = Repos => \A q \in Repos : ~MissingIn(at, reg', q, ws.entries[q].path)
    <2>. SUFFICES ASSUME quiet, pruned' = Repos
                  PROVE  \A q \in Repos : ~MissingIn(at, reg', q, ws.entries[q].path)
      OBVIOUS
    <2>1. \A q \in Repos : ws.entries[q].path \in Places
      BY <1>8 DEF States
    <2>. QED
      BY <1>9, <2>1, NothingMissing
  <1>12. Reported'
    <2>1. CASE pc' = "prune"
      BY <1>1, <1>4, <1>9, <1>10, <2>1 DEF DInv, Reported
    <2>2. CASE pc' = "rewalk" /\ pruned' = Repos
      <3>1. quiet => NoneMissing(at, reg', ws)
        BY <1>11, <2>2 DEF NoneMissing
      <3>. QED
        BY <1>1, <1>4, <2>2, <3>1 DEF Reported
    <2>3. CASE pc' = "done"
      BY <2>3 DEF Reported
    <2>. QED
      BY <1>1, <2>1, <2>2, <2>3 DEF End
  <1>13. FailureIsTrue'
    BY <1>1 DEF FailureIsTrue, End
  <1>14. FixConverges'
    <2>. SUFFICES ASSUME pc' = "done", quiet', "mount" \notin repairs', StillThere'
                  PROVE  /\ RepairsIn(at', reg', state', FoundIn(at', reg')) = {}
                         /\ Valid(state'.entries)
      BY <1>1, FixIs DEF End
    <2>. DEFINE found == FoundIn(at, reg')
    <2>1. quiet /\ pruned' = Repos /\ state' = ws /\ Valid(ws.entries)
      BY <1>1, <1>8 DEF End, files
    <2>2. \A q \in Repos : seen[q] \in {None, ws.entries[q].path}
      BY <1>1 DEF DInv, Reported
    <2>3. \A q \in Repos : seen[q] # None => \E t \in CheckoutsIn(at, reg', q) : at[t] = seen[q]
      BY <1>4, Found
    <2>4. \A q \in Repos : found[q] # None => found[q] = seen[q]
      <3>1. \A q \in Repos : CheckoutsIn(at, reg', q) \subseteq CheckoutsIn(at, reg, q)
        BY <1>3 DEF CheckoutsIn
      <3>. QED
        BY <1>4, <1>8, <2>1, <2>3, <3>1, FirstStays
    <2>. HIDE DEF found
    <2>5. \A q \in Repos : found[q] # None => found[q] = ws.entries[q].path
      BY <2>2, <2>4
    <2>6. RepairsIn(at, reg', ws, found) = {}
      BY <1>11, <2>1, <2>5, RepairsAre
    <2>. QED
      BY <1>4, <2>1, <2>6 DEF found
  <1>. QED
    BY <1>5, <1>6, <1>7, <1>12, <1>13, <1>14 DEF DInv

LEMMA RewalkKeeps ==
    ASSUME DInv, Rewalk
    PROVE  DInv'
  <1>0. /\ FoundIn(at, reg) \in [Repos -> Places \cup {None}]
        /\ Derivable(FoundIn(at, reg)) /\ ws \in States
        /\ ws' = Repaired(ws, FoundIn(at, reg)) /\ Valid(ws'.entries)
    <2>1. FoundIn(at, reg) \in [Repos -> Places \cup {None}]
      BY FoundFacts DEF DInv, Typed, TypeOK
    <2>. QED
      BY <2>1, Found DEF DInv, Typed, Generations, Sought, Rewalk, Repairable
  <1>00. /\ ws' \in States /\ ws' # None /\ ws'.mark = ws.mark
         /\ \A r \in Repos : ws'.entries[r].path =
                IF FoundIn(at, reg)[r] = None THEN ws.entries[r].path ELSE FoundIn(at, reg)[r]
    BY <1>0, RepairedFacts
  <1>1. Typed'
    BY <1>00 DEF DInv, Typed, TypeOK, Steps, Rewalk, World, files, trees
  <1>2. Distinct(at)' /\ Held'
    BY DEF DInv, Distinct, Held, Sought, Imported, Rewalk, World, files, trees
  <1>3. Generations' /\ Still'
    BY <1>00 DEF DInv, Held, Generations, Still, Sought, Imported, Rewalk, World, files, trees
  <1>4. Reported'
    <2>1. quiet => RepairsIn(at, reg, ws', FoundIn(at, reg)) = {}
      <3>. SUFFICES ASSUME quiet PROVE RepairsIn(at, reg, ws', FoundIn(at, reg)) = {}
        OBVIOUS
      <3>1. NoneMissing(at, reg, ws)
        BY DEF DInv, Reported, Rewalk
      <3>2. "mount" \notin RepairsIn(at, reg, ws', FoundIn(at, reg))
        BY <1>00, RepairsAre
      <3>3. "prune" \notin RepairsIn(at, reg, ws', FoundIn(at, reg))
        BY <1>00, <3>1, RepairsAre DEF NoneMissing
      <3>. QED
        BY <3>2, <3>3, RepairsAre
    <2>. QED
      BY <1>0, <2>1 DEF Reported, Rewalk, World, files, trees
  <1>. QED
    BY <1>1, <1>2, <1>3, <1>4, GoesOn DEF Rewalk


LEMMA PublishKeeps ==
    ASSUME DInv, Publish
    PROVE  DInv'
  <1>1. Typed'
    BY DEF DInv, Typed, TypeOK, Steps, Publish, End, trees
  <1>2. Distinct(at)' /\ Held'
    BY DEF DInv, Distinct, Held, Sought, Imported, Publish, End, trees
  <1>3. Generations' /\ Still' /\ Reported'
    BY DEF Generations, Still, Reported, Sought, Imported, Publish, End
  <1>4. FixConverges'
    <2>1. at' = at /\ reg' = reg /\ state' = ws /\ quiet' = quiet
      BY DEF Publish, trees
    <2>2. quiet => RepairsIn(at, reg, ws, FoundIn(at, reg)) = {} /\ Valid(ws.entries)
      BY DEF DInv, Reported, Publish
    <2>. QED
      BY <2>1, <2>2, FixIs
  <1>5. FailureIsTrue'
    BY DEF FailureIsTrue, Publish, End
  <1>. QED
    BY <1>1, <1>2, <1>3, <1>4, <1>5 DEF DInv

LEMMA PublishLateKeeps ==
    ASSUME DInv, PublishLate
    PROVE  DInv'
  <1>1. Typed'
    BY DEF DInv, Typed, TypeOK, Steps, PublishLate, World, files, trees, Call, Fault
  <1>2. Distinct(at)' /\ Held'
    BY DEF DInv, Distinct, Held, Sought, Imported, PublishLate, World, files, trees, Call, Fault
  <1>3. Generations' /\ Still'
    <2>1. snap \in States /\ ws \in States /\ snap.mark \in Nat /\ ws.mark \in Nat
      BY PlacesAssumption DEF DInv, Typed, Held, Generations, States, PublishLate
    <2>2. snap.mark <= ws.mark /\ ws.mark <= snap.mark
      BY <2>1, PlacesAssumption DEF DInv, Generations, PublishLate
    <2>3. snap.mark = ws.mark
      BY <2>1, <2>2
    <2>4. ws # None /\ snap # None
      BY DEF DInv, Held, Generations, PublishLate
    <2>. QED
      BY <2>1, <2>3, <2>4 DEF Generations, Still, Sought, Imported, PublishLate, Call, trees
  <1>4. Reported'
    BY DEF DInv, Held, Reported, Sought, Imported, PublishLate, World, files, trees, Call, Fault
  <1>. QED
    BY <1>1, <1>2, <1>3, <1>4, GoesOn DEF PublishLate

LEMMA RestoreFailsKeeps ==
    ASSUME DInv, RestoreFails
    PROVE  DInv'
  <1>1. Typed'
    BY DEF DInv, Typed, TypeOK, Steps, RestoreFails, World, files, trees, Call, Fault
  <1>2. Distinct(at)' /\ Held'
    BY DEF DInv, Distinct, Held, Sought, Imported, RestoreFails, World, files, trees, Call, Fault
  <1>3. Generations' /\ Still'
    <2>1. snap \in States /\ snap.mark \in Nat /\ ws.mark = snap.mark /\ ws # None /\ snap # None
      BY PlacesAssumption DEF DInv, Typed, Held, Generations, States, RestoreFails
    <2>2. state' # None /\ snap.mark <= state'.mark
      BY <2>1 DEF DInv, Generations, RestoreFails
    <2>. QED
      BY <2>1, <2>2 DEF Generations, Still, Sought, Imported, RestoreFails, Call, trees
  <1>4. Reported'
    BY DEF DInv, Held, Reported, Sought, Imported, RestoreFails, World, files, trees, Call, Fault
  <1>. QED
    BY <1>1, <1>2, <1>3, <1>4, GoesOn DEF RestoreFails


LEMMA RestoreKeeps ==
    ASSUME DInv, Restore
    PROVE  DInv'
  <1>1. Typed'
    BY DEF DInv, Typed, TypeOK, Steps, Restore, End, trees
  <1>2. Distinct(at)' /\ Held'
    BY DEF DInv, Distinct, Held, Sought, Imported, Restore, End, trees
  <1>3. Generations' /\ Still' /\ Reported'
    BY DEF Generations, Still, Reported, Sought, Imported, Restore, End
  <1>4. FixConverges' /\ FailureIsTrue'
    BY DEF FixConverges, FailureIsTrue, Restore, End
  <1>. QED
    BY <1>1, <1>2, <1>3, <1>4 DEF DInv

LEMMA RecordKeeps ==
    ASSUME DInv, Record
    PROVE  DInv'
  <1>0. pc = "record" /\ pc' = "done" /\ locked' = FALSE /\ recovery' = TRUE
        /\ result' \in {"unrecorded", "incomplete"}
        /\ UNCHANGED <<state, trees, quiet, moves, dry, ws, snap, seen, repairs, pruned>>
    BY DEF Record, End
  <1>1. Typed'
    BY <1>0 DEF DInv, Typed, TypeOK, Steps, trees
  <1>2. Distinct(at)' /\ Held'
    BY <1>0 DEF DInv, Distinct, Held, Sought, Imported, trees
  <1>3. Generations' /\ Still' /\ Reported'
    BY <1>0 DEF Generations, Still, Reported, Sought, Imported
  <1>4. FixConverges' /\ FailureIsTrue'
    BY <1>0 DEF FixConverges, FailureIsTrue
  <1>. QED
    BY <1>1, <1>2, <1>3, <1>4 DEF DInv

-----------------------------------------------------------------------------
(* Import                                                                   *)

LEMMA StartImportKeeps ==
    ASSUME DInv, StartImport
    PROVE  DInv'
  <1>1. Typed'
    BY DEF DInv, Typed, TypeOK, Steps, StartImport, World, files, trees, Call
  <1>2. Distinct(at)' /\ Held'
    BY DEF DInv, Distinct, Held, Sought, Imported, StartImport, World, files, trees, Call
  <1>3. Generations' /\ Still'
    BY DEF DInv, Typed, Held, Generations, Still, Sought, Imported, StartImport, World, files,
           trees, Call
  <1>4. Reported'
    BY DEF DInv, Held, Reported, Sought, Imported, StartImport, World, files, trees, Call
  <1>. QED
    BY <1>1, <1>2, <1>3, <1>4, GoesOn DEF StartImport

LEMMA PreviewKeeps ==
    ASSUME DInv, Preview
    PROVE  DInv'
  <1>1. CASE dry
    <2>1. /\ End("reported") /\ pc # "done"
          /\ UNCHANGED <<World, dry, ws, snap, seen, repairs, pruned>>
      BY <1>1 DEF Preview
    <2>. QED
      BY <2>1, StopKeeps
  <1>2. CASE ~dry
    <2>0. pc = "preview" /\ pc' = "plan"
          /\ UNCHANGED <<World, locked, result, dry, ws, snap, seen, repairs, pruned>>
      BY <1>2 DEF Preview
    <2>1. Typed'
      BY <2>0 DEF DInv, Typed, TypeOK, Steps, World, files, trees
    <2>2. Distinct(at)' /\ Held'
      BY <2>0 DEF DInv, Distinct, Held, Sought, Imported, World, files, trees
    <2>3. Generations' /\ Still' /\ Reported'
      BY <2>0 DEF DInv, Held, Generations, Still, Reported, Sought, Imported, World, files, trees
    <2>. QED
      BY <2>0, <2>1, <2>2, <2>3, GoesOn
  <1>. QED
    BY <1>1, <1>2

\* What is imported is what was found.
LEMMA ImportableFacts ==
    ASSUME DInv, Importable
    PROVE  /\ Recorded(0, Discovered) = Recorded(0, FoundIn(at, reg))
           /\ Recorded(0, Discovered) \in States /\ Recorded(0, Discovered) # None
           /\ Recorded(0, Discovered).mark = 0 /\ Valid(Recorded(0, Discovered).entries)
           /\ \A r \in Repos : FoundIn(at, reg)[r] # None
  <1>1. \A r \in Repos : FoundIn(at, reg)[r] # None
    BY Found DEF Importable, Observed
  <1>2. FoundIn(at, reg) \in [Repos -> Places \cup {None}]
    BY FoundFacts DEF DInv, Typed, TypeOK
  <1>3. FoundIn(at, reg) \in [Repos -> Places]
    BY <1>1, <1>2
  <1>. QED
    BY <1>1, <1>3, Found, RecordedFacts DEF Importable

LEMMA PlanImportKeeps ==
    ASSUME DInv, PlanImport
    PROVE  DInv'
  <1>0. ws' \in States /\ ws' # None /\ ws'.mark = 0
    BY ImportableFacts DEF PlanImport
  <1>1. Typed'
    BY <1>0 DEF DInv, Typed, TypeOK, Steps, PlanImport, World, files, trees
  <1>2. Distinct(at)' /\ Held'
    BY DEF DInv, Distinct, Held, Sought, Imported, PlanImport, World, files, trees
  <1>3. Generations' /\ Still'
    BY <1>0 DEF DInv, Held, Generations, Still, Sought, Imported, PlanImport, World, files, trees
  <1>4. Reported'
    BY DEF DInv, Held, Reported, Sought, Imported, PlanImport, World, files, trees
  <1>. QED
    BY <1>1, <1>2, <1>3, <1>4, GoesOn DEF PlanImport

LEMMA LockImportKeeps ==
    ASSUME DInv, LockImport
    PROVE  DInv'
  <1>1. Typed'
    BY DEF DInv, Typed, TypeOK, Steps, LockImport, World, files, trees
  <1>2. Distinct(at)' /\ Held'
    BY DEF DInv, Distinct, Held, Sought, Imported, LockImport, World, files, trees
  <1>3. Generations' /\ Still'
    BY DEF DInv, Typed, Held, Generations, Still, Sought, Imported, LockImport, World, files, trees
  <1>4. Reported'
    BY DEF DInv, Held, Reported, Sought, Imported, LockImport, World, files, trees
  <1>. QED
    BY <1>1, <1>2, <1>3, <1>4, GoesOn DEF LockImport

LEMMA ReplanKeeps ==
    ASSUME DInv, Replan
    PROVE  DInv'
  <1>1. Typed'
    BY DEF DInv, Typed, TypeOK, Steps, Replan, World, files, trees, Call
  <1>2. Distinct(at)' /\ Held'
    BY DEF DInv, Distinct, Held, Sought, Imported, Replan, World, files, trees, Call
  <1>3. Generations' /\ Still'
    BY DEF DInv, Typed, Held, Generations, Still, Sought, Imported, Replan, World, files,
           trees, Call
  <1>4. Reported'
    BY ImportableFacts DEF DInv, Held, Reported, Imported, Replan, Call, files, trees
  <1>. QED
    BY <1>1, <1>2, <1>3, <1>4, GoesOn DEF Replan

LEMMA CheckUnpublishedKeeps ==
    ASSUME DInv, CheckUnpublished
    PROVE  DInv'
  <1>1. Typed'
    BY DEF DInv, Typed, TypeOK, Steps, CheckUnpublished, World, files, trees, Call
  <1>2. Distinct(at)' /\ Held'
    BY DEF DInv, Distinct, Held, Sought, Imported, CheckUnpublished, World, files, trees, Call
  <1>3. Generations' /\ Still'
    BY DEF DInv, Typed, Held, Generations, Still, Sought, Imported, CheckUnpublished, World,
           files, trees, Call
  <1>4. Reported'
    BY DEF DInv, Held, Reported, Sought, Imported, CheckUnpublished, World, files, trees, Call
  <1>. QED
    BY <1>1, <1>2, <1>3, <1>4, GoesOn DEF CheckUnpublished

LEMMA WriteImportKeeps ==
    ASSUME DInv, WriteImport
    PROVE  DInv'
  <1>1. Typed'
    BY DEF DInv, Typed, TypeOK, Steps, WriteImport, World, files, trees, Call
  <1>2. Distinct(at)' /\ Held'
    BY DEF DInv, Distinct, Held, Sought, Imported, WriteImport, World, files, trees, Call
  <1>3. Generations' /\ Still'
    BY DEF DInv, Typed, Held, Generations, Still, Sought, Imported, WriteImport, World, files,
           trees, Call
  <1>4. Reported'
    BY DEF DInv, Held, Reported, Sought, Imported, WriteImport, World, files, trees, Call
  <1>. QED
    BY <1>1, <1>2, <1>3, <1>4, GoesOn DEF WriteImport

LEMMA WriteImportFailsKeeps ==
    ASSUME DInv, WriteImportFails
    PROVE  DInv'
  <1>1. Typed'
    BY DEF DInv, Typed, TypeOK, Steps, WriteImportFails, World, files, trees, Call, Fault
  <1>2. Distinct(at)' /\ Held'
    BY DEF DInv, Distinct, Held, Sought, Imported, WriteImportFails, World, files, trees, Call,
           Fault
  <1>3. Generations' /\ Still'
    BY DEF DInv, Typed, Held, Generations, Still, Sought, Imported, WriteImportFails, World,
           files, trees, Call, Fault
  <1>4. Reported'
    BY DEF DInv, Held, Reported, Sought, Imported, WriteImportFails, World, files, trees, Call,
           Fault
  <1>. QED
    BY <1>1, <1>2, <1>3, <1>4, GoesOn DEF WriteImportFails

LEMMA VerifyImportKeeps ==
    ASSUME DInv, VerifyImport
    PROVE  DInv'
  <1>1. CASE state = ws
    <2>0. pc = "verify" /\ pc' = "done" /\ result' = "imported" /\ locked' = FALSE
          /\ UNCHANGED <<World, dry, ws, snap, seen, repairs, pruned>>
      BY <1>1 DEF VerifyImport, End
    <2>1. Typed'
      BY <2>0 DEF DInv, Typed, TypeOK, Steps, World, files, trees
    <2>2. Distinct(at)' /\ Held'
      BY <2>0 DEF DInv, Distinct, Held, Sought, Imported, World, files, trees
    <2>3. Generations' /\ Still' /\ Reported' /\ FailureIsTrue'
      BY <2>0 DEF Generations, Still, Reported, FailureIsTrue, Sought, Imported
    <2>4. FixConverges'
      <3>. DEFINE found == FoundIn(at, reg)
      <3>1. at' = at /\ reg' = reg /\ state' = ws /\ quiet' = quiet
        BY <1>1, <2>0 DEF World, files, trees
      <3>2. quiet => /\ ws = Recorded(0, found) /\ Valid(ws.entries)
                     /\ \A r \in Repos : found[r] # None
        BY <2>0 DEF DInv, Reported
      <3>3. found \in [Repos -> Places \cup {None}]
        BY FoundFacts DEF DInv, Typed, TypeOK
      <3>. HIDE DEF found
      <3>4. quiet => \A r \in Repos : ws.entries[r].path = found[r]
        <4>. SUFFICES ASSUME quiet PROVE \A r \in Repos : ws.entries[r].path = found[r]
          OBVIOUS
        <4>1. found \in [Repos -> Places]
          BY <3>2, <3>3
        <4>. QED
          BY <3>2, <4>1, RecordedFacts
      <3>5. quiet => RepairsIn(at, reg, ws, found) = {}
        BY <3>2, <3>4, RepairsAre
      <3>. QED
        BY <3>1, <3>2, <3>5, FixIs DEF found
    <2>. QED
      BY <2>1, <2>2, <2>3, <2>4 DEF DInv
  <1>2. CASE state # ws
    <2>0. pc = "verify" /\ pc' = "withdraw"
          /\ UNCHANGED <<World, locked, result, dry, ws, snap, seen, repairs, pruned>>
      BY <1>2 DEF VerifyImport
    <2>1. Typed'
      BY <2>0 DEF DInv, Typed, TypeOK, Steps, World, files, trees
    <2>2. Distinct(at)' /\ Held'
      BY <2>0 DEF DInv, Distinct, Held, Sought, Imported, World, files, trees
    <2>3. Generations' /\ Still' /\ Reported'
      BY <2>0 DEF DInv, Held, Generations, Still, Reported, Sought, Imported, World, files, trees
    <2>. QED
      BY <2>0, <2>1, <2>2, <2>3, GoesOn
  <1>. QED
    BY <1>1, <1>2

LEMMA WithdrawKeeps ==
    ASSUME DInv, Withdraw
    PROVE  DInv'
  <1>1. Typed'
    BY DEF DInv, Typed, TypeOK, Steps, Withdraw, World, files, trees, End
  <1>2. Distinct(at)' /\ Held'
    BY DEF DInv, Distinct, Held, Sought, Imported, Withdraw, World, files, trees, End
  <1>3. Generations' /\ Still'
    BY DEF DInv, Held, Generations, Still, Sought, Imported, Withdraw, World, files, trees, End
  <1>4. Reported'
    BY DEF DInv, Held, Reported, Sought, Imported, Withdraw, World, files, trees, End
  <1>5. FixConverges' /\ FailureIsTrue'
    BY DEF DInv, FixConverges, FailureIsTrue, Withdraw, World, files, trees, End
  <1>. QED
    BY <1>1, <1>2, <1>3, <1>4, <1>5 DEF DInv

LEMMA RemoveByPathKeeps ==
    ASSUME DInv, RemoveByPath
    PROVE  DInv'
  <1>1. Typed'
    BY DEF DInv, Typed, TypeOK, Steps, RemoveByPath, trees, Call
  <1>2. Distinct(at)' /\ Held'
    BY DEF DInv, Distinct, Held, Sought, Imported, RemoveByPath, trees, Call
  <1>3. Generations' /\ Still'
    BY DEF DInv, Held, Generations, Still, Sought, Imported, RemoveByPath, trees, Call
  <1>4. Reported'
    BY DEF DInv, Held, Reported, Sought, Imported, RemoveByPath, trees, Call
  <1>. QED
    BY <1>1, <1>2, <1>3, <1>4, GoesOn DEF RemoveByPath

LEMMA WithdrawFailsKeeps ==
    ASSUME DInv, WithdrawFails
    PROVE  DInv'
  <1>1. Typed'
    BY DEF DInv, Typed, TypeOK, Steps, WithdrawFails, World, files, trees, Call, Fault
  <1>2. Distinct(at)' /\ Held'
    BY DEF DInv, Distinct, Held, Sought, Imported, WithdrawFails, World, files, trees, Call, Fault
  <1>3. Generations' /\ Still'
    BY DEF DInv, Typed, Held, Generations, Still, Sought, Imported, WithdrawFails, World,
           files, trees, Call, Fault
  <1>4. Reported'
    BY DEF DInv, Held, Reported, Sought, Imported, WithdrawFails, World, files, trees, Call, Fault
  <1>. QED
    BY <1>1, <1>2, <1>3, <1>4, GoesOn DEF WithdrawFails

-----------------------------------------------------------------------------
(* The others                                                               *)

LEMMA TreesMoved ==
    ASSUME DInv, OthersAct, UNCHANGED <<files, job>>,
           at' \in [Trees -> Places \cup {Outside, None}], Distinct(at'),
           reg' \in [Trees -> Places \cup {Outside, None}]
    PROVE  DInv'
  <1>0. moves' \in Nat
    BY DEF DInv, Typed, OthersAct
  <1>1. Typed'
    BY <1>0, ZenonT(60) DEF DInv, Typed, TypeOK, OthersAct, files, job
  <1>2. Distinct(at)' /\ Held'
    BY DEF DInv, Held, OthersAct, job
  <1>3. Generations' /\ Still' /\ Reported'
    BY DEF DInv, Generations, Still, Reported, OthersAct, files, job
  <1>. QED
    BY <1>1, <1>2, <1>3, GoesOn DEF OthersAct, job

LEMMA UserMovesKeeps ==
    ASSUME DInv, UserMoves
    PROVE  DInv'
  <1>1. PICK t \in Trees, p \in Places \cup {Outside} :
            /\ p \in Places => ~Occupied(p)
            /\ at' = Moved(t, p)
            /\ \A u \in Trees : at'[u] \in Places \cup {Outside, None}
    BY DEF UserMoves
  <1>2. at' \in [Trees -> Places \cup {Outside, None}] /\ Distinct(at')
    BY <1>1, MovedFacts DEF DInv, Typed
  <1>3. reg' \in [Trees -> Places \cup {Outside, None}]
    BY DEF DInv, Typed, TypeOK, UserMoves
  <1>. QED
    BY <1>2, <1>3, TreesMoved DEF UserMoves

LEMMA UserMovesWithGitKeeps ==
    ASSUME DInv, UserMovesWithGit
    PROVE  DInv'
  <1>1. PICK t \in Repos, p \in Places :
            /\ ~Occupied(p)
            /\ at' = Moved(t, p)
            /\ \A u \in Trees : at'[u] \in Places \cup {Outside, None}
            /\ reg' = [reg EXCEPT ![t] = p]
    BY DEF UserMovesWithGit
  <1>2. at' \in [Trees -> Places \cup {Outside, None}] /\ Distinct(at')
    BY <1>1, MovedFacts DEF DInv, Typed, Trees
  <1>3. reg' \in [Trees -> Places \cup {Outside, None}]
    BY <1>1 DEF DInv, Typed, TypeOK
  <1>. QED
    BY <1>2, <1>3, TreesMoved DEF UserMovesWithGit

LEMMA UserDeletesKeeps ==
    ASSUME DInv, UserDeletes
    PROVE  DInv'
  <1>1. PICK t \in Repos : at' = Moved(t, None)
    BY DEF UserDeletes
  <1>2. None \notin Places
    BY PlacesAssumption
  <1>3. \A u \in Trees : Moved(t, None)[u] \in Places \cup {Outside, None}
    BY <1>2 DEF DInv, Typed, TypeOK, Moved
  <1>4. at' \in [Trees -> Places \cup {Outside, None}] /\ Distinct(at')
    BY <1>1, <1>2, <1>3, MovedFacts DEF DInv, Typed, Trees
  <1>5. reg' \in [Trees -> Places \cup {Outside, None}]
    BY DEF DInv, Typed, TypeOK, UserDeletes
  <1>. QED
    BY <1>4, <1>5, TreesMoved DEF UserDeletes

\* An editor writes the next generation.
LEMMA EditFacts ==
    ASSUME DInv, UserEditsState, state # None
    PROVE  /\ state.mark \in Nat /\ state' \in States /\ state' # None
           /\ state'.mark = state.mark + 1
  <1>. DEFINE E == [Repos -> [path: Places, mount: Seq(1..Names)]]
              n == state.mark + 1
              e == state'.entries
  <1>1. /\ state.mark \in Nat /\ state.entries \in E /\ n \in Nat
        /\ state = [mark |-> state.mark, entries |-> state.entries]
    BY DEF DInv, Typed, States
  <1>2. \/ state' = [state EXCEPT !.mark = n]
        \/ \E r \in Repos : state' = [state EXCEPT !.mark = n, !.entries[r].mount = <<>>]
    BY DEF UserEditsState
  <1>. HIDE DEF n
  <1>3. state' = [mark |-> n, entries |-> e]
    BY <1>1, <1>2
  <1>4. e \in E
    <2>1. ASSUME NEW r \in Repos, state' = [state EXCEPT !.mark = n, !.entries[r].mount = <<>>]
          PROVE  e \in E
      <3>1. e = [state.entries EXCEPT ![r].mount = <<>>]
        BY <1>1, <2>1
      <3>2. <<>> \in Seq(1..Names)
        BY EmptySeq
      <3>3. [state.entries[r] EXCEPT !.mount = <<>>] \in [path: Places, mount: Seq(1..Names)]
        BY <1>1, <3>2
      <3>. QED
        BY <1>1, <3>1, <3>3
    <2>2. ASSUME state' = [state EXCEPT !.mark = n] PROVE e \in E
      BY <1>1, <2>2
    <2>. QED
      BY <1>2, <2>1, <2>2
  <1>. HIDE DEF e, E
  <1>5. state' \in States /\ state'.mark = n
    BY <1>1, <1>3, <1>4 DEF States, E
  <1>. QED
    BY <1>1, <1>5, PlacesAssumption DEF n

LEMMA UserEditsStateKeeps ==
    ASSUME DInv, UserEditsState
    PROVE  DInv'
  <1>1. /\ state' \in States /\ state' # None /\ state'.mark \in Nat
        /\ state # None => state.mark \in Nat /\ state'.mark = state.mark + 1
    <2>1. CASE state = None
      <3>1. state' = Recorded(1, Mounted)
        BY <2>1 DEF UserEditsState
      <3>. QED
        BY <2>1, <3>1, RecordedFacts, PlacesAssumption DEF States
    <2>2. CASE state # None
      BY <2>2, EditFacts DEF States
    <2>. QED
      BY <2>1, <2>2
  <1>2. pc # "done" /\ quiet' = FALSE /\ UNCHANGED <<recovery, trees, job>> /\ moves' = moves + 1
    BY DEF UserEditsState, OthersAct
  <1>3. Typed'
    <2>1. moves' \in Nat
      BY <1>2 DEF DInv, Typed
    <2>. QED
      BY <1>1, <1>2, <2>1 DEF DInv, Typed, TypeOK, trees, job
  <1>4. Distinct(at)' /\ Held'
    BY <1>2 DEF DInv, Held, trees, job
  <1>5. Generations'
    <2>1. snap # None => snap.mark \in Nat
      BY DEF DInv, Typed, States
    <2>2. ws # None => ws.mark \in Nat
      BY DEF DInv, Typed, States
    <2>3. UNCHANGED <<pc, ws, snap>>
      BY <1>2 DEF job
    <2>. QED
      BY <1>1, <1>2, <2>1, <2>2, <2>3 DEF DInv, Generations, Sought, Imported
  <1>6. Still' /\ Reported'
    BY <1>2 DEF DInv, Still, Reported, job
  <1>. QED
    BY <1>2, <1>3, <1>4, <1>5, <1>6, GoesOn DEF job

LEMMA OtherCommandKeeps ==
    ASSUME DInv, OtherCommand
    PROVE  DInv'
  <1>1. /\ pc # "done" /\ quiet' = FALSE /\ UNCHANGED job /\ moves' = moves + 1
        /\ state' \in {state, None} /\ recovery' \in {recovery, TRUE} /\ ~locked
    BY DEF OtherCommand, OthersAct, trees
  <1>2. /\ at' \in [Trees -> Places \cup {Outside, None}] /\ Distinct(at')
        /\ reg' \in [Trees -> Places \cup {Outside, None}]
    <2>1. CASE UNCHANGED trees
      BY <2>1 DEF DInv, Typed, TypeOK, trees
    <2>2. CASE /\ at' = [t \in Trees |-> IF t \in Repos THEN None ELSE at[t]]
               /\ reg' = [t \in Trees |-> IF t \in Repos THEN None ELSE reg[t]]
      BY <2>2, PlacesAssumption DEF DInv, Typed, TypeOK, Distinct
    <2>. QED
      BY <2>1, <2>2 DEF OtherCommand
  <1>3. snap = None
    BY <1>1 DEF DInv, Typed, TypeOK, Steps, Held, Sought, Imported
  <1>4. Typed'
    <2>1. moves' \in Nat
      BY <1>1 DEF DInv, Typed, TypeOK
    <2>. QED
      BY <1>1, <1>2, <2>1, ZenonT(60) DEF DInv, Typed, TypeOK, job
  <1>5. Distinct(at)' /\ Held'
    BY <1>1, <1>2 DEF DInv, Held, job
  <1>6. Generations' /\ Still' /\ Reported'
    BY <1>1, <1>3 DEF DInv, Generations, Still, Reported, Sought, Imported, job
  <1>. QED
    BY <1>1, <1>4, <1>5, <1>6, GoesOn DEF job

-----------------------------------------------------------------------------
(* The theorems                                                             *)

LEMMA InitHolds ==
    ASSUME Init
    PROVE  DInv
  <1>1. Recorded(0, Mounted) \in States
    BY RecordedFacts, PlacesAssumption
  <1>2. at \in [Trees -> Places \cup {Outside, None}]
    BY PlacesAssumption DEF Init
  <1>3. Distinct(at)
    <2>1. Outside \notin Places
      BY PlacesAssumption
    <2>. QED
      BY <2>1, PlacesAssumption DEF Init, Distinct
  <1>4. Typed
    BY <1>1, <1>2 DEF Init, Typed, TypeOK, Steps
  <1>5. Held /\ Generations /\ Still /\ Reported /\ FixConverges /\ FailureIsTrue
    BY DEF Init, Held, Generations, Still, Reported, FixConverges, FailureIsTrue, Sought, Imported
  <1>. QED
    BY <1>3, <1>4, <1>5 DEF DInv

\* The steps that end a call and leave everything as it was.
LEMMA StopsKeep ==
    ASSUME DInv,
           \/ CompareFails \/ ReportFails \/ Report \/ LockFails \/ CaptureFails \/ ReadStateFails
           \/ PruneFails \/ RewalkRefuses \/ PublishFails \/ RecordFails \/ ImportRefused \/ Crash
    PROVE  DInv'
  <1>1. PICK how \in {"refused", "reported", "killed", "unrecorded"} :
            /\ pc # "done" /\ (how = "refused" => pc \notin {"restore", "record"})
            /\ End(how) /\ UNCHANGED <<World, dry, ws, snap, seen, repairs, pruned>>
    BY DEF CompareFails, ReportFails, Report, LockFails, CaptureFails, ReadStateFails, PruneFails,
           RewalkRefuses, PublishFails, RecordFails, ImportRefused, Crash, Running
  <1>. QED
    BY <1>1, StopKeeps

LEMMA NextKeeps ==
    ASSUME DInv, [Next]_vars
    PROVE  DInv'
  <1>1. CASE Start \/ Doctor
    <2>1. CASE Start \/ Walk \/ Compare \/ Collect \/ Decide \/ TakeLock \/ Capture \/ ReadState
      BY <2>1, StartKeeps, WalkKeeps, CompareKeeps, CollectKeeps, DecideKeeps, TakeLockKeeps,
         CaptureKeeps, ReadStateKeeps
    <2>2. CASE Prune \/ Rewalk \/ Publish \/ PublishLate \/ Restore \/ RestoreFails \/ Record
      BY <2>2, PruneKeeps, RewalkKeeps, PublishKeeps, PublishLateKeeps, RestoreKeeps,
         RestoreFailsKeeps, RecordKeeps
    <2>. QED
      BY <1>1, <2>1, <2>2, StopsKeep DEF Doctor
  <1>2. CASE StartImport \/ Import
    BY <1>2, StartImportKeeps, PreviewKeeps, PlanImportKeeps, LockImportKeeps, ReplanKeeps,
       StopsKeep, CheckUnpublishedKeeps, WriteImportKeeps, WriteImportFailsKeeps, VerifyImportKeeps,
       WithdrawKeeps, RemoveByPathKeeps, WithdrawFailsKeeps DEF Import
  <1>3. CASE Crash \/ UserMoves \/ UserMovesWithGit \/ UserDeletes \/ UserEditsState \/ OtherCommand
    BY <1>3, StopsKeep, UserMovesKeeps, UserMovesWithGitKeeps, UserDeletesKeeps,
       UserEditsStateKeeps, OtherCommandKeeps
  <1>4. CASE UNCHANGED vars
    <2>1. UNCHANGED <<files, trees, job, quiet, moves>>
      BY <1>4 DEF vars
    <2>2. Typed' /\ Distinct(at)' /\ Held'
      BY <2>1 DEF DInv, Typed, TypeOK, Distinct, Held, files, trees, job
    <2>3. Generations' /\ Still' /\ Reported' /\ FailureIsTrue'
      BY <2>1 DEF DInv, Generations, Still, Reported, FailureIsTrue, files, trees, job
    <2>4. FixConverges'
      <3>1. StillThere' <=> StillThere
        BY <2>1, Found DEF trees, job
      <3>. QED
        BY <2>1, <3>1, FixIs DEF DInv, files, trees, job
    <2>. QED
      BY <2>2, <2>3, <2>4 DEF DInv
  <1>. QED
    BY <1>1, <1>2, <1>3, <1>4 DEF Next

\* The invariant the properties follow from.
THEOREM Invariant == Spec => []DInv
  <1>1. Init => DInv
    BY InitHolds
  <1>2. DInv /\ [Next]_vars => DInv'
    BY NextKeeps
  <1>. QED
    BY <1>1, <1>2, PTL DEF Spec

\* The variables keep their types.
THEOREM TypeCorrect == Spec => []TypeOK
  <1>1. DInv => TypeOK
    BY DEF DInv, Typed
  <1>. QED
    BY <1>1, Invariant, PTL

\* A repair that claims success needs no second one, and an imported workspace none
\* (doctor.go:297-364, import.go:234-274).
THEOREM FixConvergesHolds == Spec => []FixConverges
  <1>1. DInv => FixConverges
    BY DEF DInv
  <1>. QED
    BY <1>1, Invariant, PTL

\* A failed publication says what it left (publication_recovery.go:22-46,
\* import.go:327-362).
THEOREM FailureIsTrueHolds == Spec => []FailureIsTrue
  <1>1. DInv => FailureIsTrue
    BY DEF DInv
  <1>. QED
    BY <1>1, Invariant, PTL

\* No step of a call takes back what others wrote.
LEMMA EditsKept ==
    ASSUME DInv, [Next]_vars, state # None
    PROVE  \/ state' # None /\ state'.mark >= state.mark
           \/ state' = None /\ (state.mark = 0 \/ moves' # moves)
           \/ pc = "write" /\ state' = ws
           \/ pc = "remove" /\ ~quiet
  <1>1. state \in States /\ state.mark \in Nat /\ moves \in Nat
    BY DEF DInv, Typed, States
  <1>2. CASE state' = state
    BY <1>1, <1>2
  <1>3. CASE Publish \/ PublishLate
    <2>1. state = snap /\ state' = ws /\ pc = "publish"
      BY <1>3 DEF Publish, PublishLate
    <2>2. ws # None /\ snap.mark <= ws.mark /\ ws.mark \in Nat
      BY <2>1 DEF DInv, Typed, Held, Generations, Sought, States
    <2>. QED
      BY <1>1, <2>1, <2>2
  <1>4. CASE Restore \/ RestoreFails
    <2>1. pc = "restore" /\ (state' = state \/ (state = ws /\ state' \in {ws, snap}))
      BY <1>4 DEF Restore, RestoreFails
    <2>2. ws.mark = snap.mark /\ snap # None
      BY <2>1 DEF DInv, Held, Generations
    <2>. QED
      BY <1>1, <2>1, <2>2
  <1>5. CASE WriteImport \/ WriteImportFails
    BY <1>1, <1>5 DEF WriteImport, WriteImportFails
  <1>6. CASE RemoveByPath
    <2>1. pc = "remove" /\ state' = None /\ (quiet => state = ws)
      BY <1>6 DEF DInv, Still, RemoveByPath
    <2>2. ws.mark = 0
      BY <2>1 DEF DInv, Generations, Imported
    <2>. QED
      BY <2>1, <2>2
  <1>7. CASE UserEditsState
    <2>1. state'.mark = state.mark + 1 /\ state' # None
      BY <1>7, EditFacts
    <2>. QED
      BY <1>1, <2>1
  <1>8. CASE OtherCommand
    <2>1. moves' # moves /\ state' \in {state, None}
      BY <1>1, <1>8 DEF OtherCommand, OthersAct
    <2>. QED
      BY <1>1, <2>1
  <1>9. CASE \/ Start \/ StartImport \/ Crash \/ UserMoves \/ UserMovesWithGit \/ UserDeletes
             \/ UNCHANGED vars
    BY <1>2, <1>9 DEF Start, StartImport, Crash, UserMoves, UserMovesWithGit, UserDeletes, World,
       files, vars
  <1>10. CASE \/ Walk \/ Compare \/ CompareFails \/ Collect \/ ReportFails \/ Report \/ Decide
              \/ TakeLock \/ LockFails \/ Capture \/ CaptureFails \/ ReadState \/ ReadStateFails
              \/ Prune \/ PruneFails \/ Rewalk \/ RewalkRefuses \/ PublishFails
              \/ Record \/ RecordFails
    BY <1>2, <1>10 DEF Walk, Compare, CompareFails, Collect, ReportFails, Report, Decide, TakeLock,
       LockFails, Capture, CaptureFails, ReadState, ReadStateFails, Prune, PruneFails, Rewalk,
       RewalkRefuses, PublishFails, Record, RecordFails, World, files
  <1>11. CASE \/ Preview \/ PlanImport \/ LockImport \/ Replan \/ ImportRefused \/ CheckUnpublished
              \/ VerifyImport \/ Withdraw \/ WithdrawFails
    BY <1>2, <1>11 DEF Preview, PlanImport, LockImport, Replan, ImportRefused, CheckUnpublished,
       VerifyImport, Withdraw, WithdrawFails, World, files
  <1>. QED
    BY <1>3, <1>4, <1>5, <1>6, <1>7, <1>8, <1>9, <1>10, <1>11 DEF Next, Doctor, Import

\* What others write to the state file is neither overwritten by a repair nor undone
\* by the restoration of a failed one, nor removed by the rollback of an import
\* (doctor.go:348, publication_recovery.go:51, import.go:305).
THEOREM EditsAreKeptHolds == Spec => EditsAreKept
  <1>1. DInv /\ [Next]_vars =>
            [state # None =>
                \/ state' # None /\ state'.mark >= state.mark
                \/ state' = None /\ (state.mark = 0 \/ moves' # moves)
                \/ pc = "write" /\ state' = ws
                \/ pc = "remove" /\ ~quiet]_vars
    BY EditsKept
  <1>. QED
    BY <1>1, Invariant, PTL DEF EditsAreKept, Spec
=============================================================================
