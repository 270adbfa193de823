------------------------ MODULE WorkspaceCommandsProofs ------------------------
(***************************************************************************)
(* Proofs about WorkspaceCommands, for any repositories, workspaces and    *)
(* commands, and any number of edits by others and of failures.            *)
(*                                                                         *)
(* Beside types, the invariant says what the waiter knows of the process   *)
(* (Waited), that what was started and moved is in its row (Marked), what  *)
(* the statuses of the rows add up to (Tallied), what each ready row of    *)
(* push was seen with (Witnessed), and that what was written is what the   *)
(* rows say (Written).                                                     *)
(***************************************************************************)
EXTENDS WorkspaceCommands, WellFoundedInduction, TLAPS

-----------------------------------------------------------------------------
(* Types, places and plans                                                  *)

Statuses == {"planned", "ready", "completed", "failed", "canceled", "blocked"}
Findings == {"missing-repository", "detached", "identity-mismatch", "dirty", "metadata-commit-unavailable",
             "missing-upstream", "diverged", "ahead", "behind", "partial-workspace", "unpublished-head"}
CheckoutType == [dir: {"own", "another", "gone"}, branch: {"own", "other", "none"}, at: Commits,
                 clean: BOOLEAN, upstream: {"own", "other", "none"}]
RemoteType == [own: Commits \cup {None}, other: Commits]
TrackingType == [own: Commits, other: Commits]
RowType == [status: Statuses, head: Commits, got: Commits \cup {None}, started: BOOLEAN, left: BOOLEAN,
            findings: SUBSET Findings]

\* What each command plans of a repository.
ExecPlan == [ok: {TRUE}, head: Commits]
FetchFacts == [ok: {TRUE}, head: Commits, upstream: {"own", "other"}]
FetchPlanned == FetchFacts \cup [ok: {FALSE}]
PushPlan == [row: RowType, detached: BOOLEAN, remoteOK: BOOLEAN]
PlanType == IF cmd.name = "exec" THEN ExecPlan ELSE IF cmd.name = "fetch" THEN FetchPlanned ELSE PushPlan

\* Where fetch is at one repository, every place, and the places at a row.
FetchSteps == {"recheck", "network", "fetching", "fetched", "unfetched"}
Steps == {"begin", "plan", "turn", "launch", "program", "compare", "observe", "canceling", "returned", "done"} \cup FetchSteps
AtRow == {"launch", "program", "compare", "observe"} \cup FetchSteps

ProcessTypeOK ==
    /\ canceled \in BOOLEAN /\ leaked \in BOOLEAN /\ held \in BOOLEAN
    /\ child \in {"none", "running", "ended"} /\ holder \in {"none", "group", "outside"}
    /\ pipes \in {"none", "open", "closed"} /\ code \in {"none", "zero", "other", "killed"}
    /\ waiter \in {"idle", "reading", "waiting", "stopping", "returned"}

WorldTypeOK ==
    /\ checkout \in [Repos -> CheckoutType] /\ remote \in [Repos -> RemoteType]
    /\ tracking \in [Repos -> TrackingType]
    /\ been \in [Repos -> SUBSET CheckoutType] /\ advertised \in [Repos -> SUBSET (Commits \cup {None})]

InputsTypeOK == cmd \in Commands /\ ws \in Workspaces

RunTypeOK ==
    /\ pc \in Steps /\ pos \in 1..(Len(Rows) + 1)
    /\ plan \in [Repos -> {None} \cup PlanType]
    /\ rows \in [Range(Rows) -> RowType]
    /\ result \in {"none", "refused", "planned"} \cup Statuses
    /\ streamed \in BOOLEAN /\ broken \in BOOLEAN
    /\ shown \in Seq(Repos \X Statuses)

GhostsTypeOK == begun \subseteq Repos /\ moved \subseteq Repos /\ unread \subseteq Repos /\ abandoned \subseteq Repos

BoundsTypeOK == edits \in Nat /\ faults \in Nat

TypeOK == ProcessTypeOK /\ WorldTypeOK /\ InputsTypeOK /\ RunTypeOK /\ GhostsTypeOK /\ BoundsTypeOK

\* Where a command can be.
Located ==
    /\ pc \in AtRow \/ (Pushing /\ pc = "plan") => pos <= Len(Rows)
    /\ pc \in {"launch", "program"} => cmd.name = "exec"
    /\ pc \in FetchSteps => Fetching
    /\ pc \in {"compare", "observe"} => Pushing
    /\ pc = "canceling" => canceled
    /\ cmd.dry => /\ pc \notin {"launch", "program", "fetching", "fetched", "unfetched"}
                  /\ ~(cmd.name = "exec" /\ pc = "turn")

\* What is planned: the first p of the execution order, or all.
PlannedBefore(p) == \A i \in 1..p : plan[RunOrder[i]] \in PlanType
PlannedAll == \A r \in Range(Rows) : plan[r] \in PlanType

\* What it has learned by then.
Learned ==
    /\ cmd.name = "exec" /\ pc = "plan" => \A i \in 1..(pos - 1) : plan[Rows[i]] \in PlanType
    /\ cmd.name # "exec" /\ pc = "plan" => PlannedBefore(pos - 1)
    /\ pc = "compare" => PlannedBefore(pos)
    /\ pc \in {"turn", "launch", "program", "observe"} \cup FetchSteps => PlannedAll
    /\ pc \in FetchSteps => plan[Current] \in FetchFacts

BaseInv == TypeOK /\ Located /\ Learned
RunOK == RunTypeOK /\ Located /\ Learned

-----------------------------------------------------------------------------
(* What the report says of what was done                                    *)

\* Whoever waits for a program waits until its pipes are closed and everyone who
\* held them is gone, unless it stopped after an interrupt.
Waited ==
    /\ waiter = "waiting" => pipes = "closed"
    /\ pipes = "closed" => holder = "none"
    /\ waiter = "stopping" \/ leaked => canceled
    /\ waiter = "returned" => (child = "ended" /\ holder = "none") \/ leaked

\* A ref that moved: it was read back, or that failed, or that comes next.
Receipt(r) ==
    \/ rows[r].got # None
    \/ r \in unread /\ rows[r].status # "completed"
    \/ pc = "fetched" /\ r = Current

\* What was started, moved and left running is in its row.
Marked ==
    /\ moved \subseteq Range(Rows) /\ abandoned \subseteq Range(Rows)
    /\ \A r \in moved : Receipt(r)
    /\ cmd.name = "exec" => begun = {r \in Range(Rows) : rows[r].started}
    /\ \A r \in Range(Rows) \ begun : rows[r].status # "completed"
    /\ pc \in {"program", "fetching", "fetched", "unfetched"} => Current \in begun
    /\ \A r \in abandoned : rows[r].left /\ rows[r].status = "canceled"
    /\ abandoned # {} => pc \in {"canceling", "returned", "done"}
    /\ cmd.name # "fetch" \/ cmd.dry => moved = {}
    /\ cmd.name = "exec" /\ cmd.dry => begun = {}

\* What the statuses of the settled rows are, and a result of success.
Tallied ==
    /\ cmd.name # "push" /\ pc \in {"turn", "launch", "program"} \cup FetchSteps =>
          \A i \in 1..(pos - 1) : rows[RunOrder[i]].status \in {"completed", "failed"}
    /\ cmd.name = "push" /\ pc \in {"begin", "plan", "compare", "turn", "observe"} =>
          \A r \in Range(Rows) : rows[r].status \in {"ready", "blocked", "failed"}
    /\ ~Returned => result = "none"
    /\ result \in {"completed", "ready"} => \A r \in Range(Rows) : rows[r].status = result
    /\ result = "ready" => cmd.name = "push"

-----------------------------------------------------------------------------
(* What a ready row of push stands on                                       *)

\* What a checkout was seen as.
OnBranchAt(c, head) == c.dir = "own" /\ c.branch = "own" /\ c.at = head
Tidy(c) == c.clean /\ c.at # 0 /\ c.branch = "own" /\ c.upstream = "own"

Plausible(row) == row.status \in {"ready", "blocked", "failed"}

\* What push knows of a repository after the first look at its head.
Looked(r) ==
    LET row == plan[r].row IN
    /\ Plausible(row)
    /\ row.status = "ready" =>
          /\ row.findings = {} /\ ~plan[r].detached
          /\ \E c \in been[r] : OnBranchAt(c, row.head)

\* And after its status and its upstream were compared.
Known(r) ==
    LET row == plan[r].row IN
    /\ Plausible(row)
    /\ row.status = "ready" =>
          /\ plan[r].remoteOK /\ ws.absent = {}
          /\ \E c \in been[r] : OnBranchAt(c, row.head)
          /\ \E c \in been[r] : Tidy(c)

\* And after its remote was read.
Published(r) ==
    /\ \E c \in been[r] : OnBranchAt(c, rows[r].head)
    /\ \E c \in been[r] : Tidy(c)
    /\ rows[r].head \in advertised[r]

\* The rows before position p.
Passed(p) == {RunOrder[i] : i \in 1..(p - 1)}

\* Every ready row stands on what was seen since the start.
Witnessed ==
    /\ pc # "begin" => \A r \in Repos : checkout[r] \in been[r] /\ remote[r].own \in advertised[r]
    /\ Pushing /\ pc \in {"begin", "plan", "compare"} => begun = {}
    /\ Pushing /\ pc \in {"plan", "compare"} => \A r \in Passed(pos) : Known(r)
    /\ pc = "compare" => \A r \in {Current} : Looked(r)
    /\ Pushing /\ pc \in {"turn", "observe"} =>
          /\ \A r \in Range(Rows) : Known(r)
          /\ \A r \in Passed(pos) : rows[r].status = "ready" => r \in begun /\ ws.absent = {}
    /\ Pushing => \A r \in begun : rows[r].status = "ready" => Published(r)
    /\ result = "ready" => begun = Repos /\ ws.absent = {}

-----------------------------------------------------------------------------
(* What was written so far                                                  *)

\* Where rows are being settled.
Looping == {"turn", "launch", "program", "observe", "canceling"} \cup FetchSteps

\* The first k rows are written.
Sent(k) == shown = [i \in 1..k |-> <<RunOrder[i], rows[RunOrder[i]].status>>] /\ (streamed <=> k > 0)

\* An interrupted push rewrites rows it has written.
Excused == Pushing /\ canceled

\* What is written is the rows that are settled, in their order.
Written ==
    /\ pc = "begin" => \A r \in Repos : plan[r] = None
    /\ pc \in {"begin", "plan", "compare"} => shown = <<>> /\ ~streamed /\ ~broken
    /\ ~Streams => ~streamed /\ ~broken /\ (pc # "done" => shown = <<>>)
    /\ pc \in Looping /\ ~Excused => ~broken /\ (Streams => Sent(pos - 1))
    /\ pc = "returned" /\ Streams /\ ~broken /\ ~Excused =>
          \/ Sent(Len(Rows))
          \/ shown = <<>> /\ ~streamed /\ result = "failed" /\ (Pushing => \A r \in Repos : plan[r] = None)
    /\ pc = "done" => OutputIsTheResult

IInv == BaseInv /\ Waited /\ Witnessed /\ Marked /\ Tallied /\ Written

-----------------------------------------------------------------------------
(* The order of the rows                                                    *)
LEMMA Induct ==
    ASSUME NEW G, 0 \in G, \A n \in Nat : n \in G => n + 1 \in G
    PROVE  Nat \subseteq G
<1>. DEFINE Out == Nat \ G
<1>1. SUFFICES ASSUME Out # {} PROVE FALSE
  OBVIOUS
<1>2. PICK x \in Out : \A y \in Out : ~(<<y, x>> \in OpToRel(<, Nat))
  <2>1. Out \subseteq Nat
    OBVIOUS
  <2>. QED
    BY <1>1, <2>1, WFMin, NatLessThanWellFounded
<1>3. x # 0 /\ x - 1 \in Nat /\ x - 1 < x /\ x - 1 + 1 = x
  OBVIOUS
<1>4. <<x - 1, x>> \in OpToRel(<, Nat)
  BY <1>3 DEF OpToRel
<1>5. x - 1 \in G
  BY <1>2, <1>3, <1>4
<1>. QED
  BY <1>3, <1>5

Chosen(f, m, S) ==
    f = [n \in 0..m |-> IF n = 0 THEN <<>>
                        ELSE IF Order[n] \in S THEN Append(f[n - 1], Order[n]) ELSE f[n - 1]]

LEMMA ChosenExists ==
    ASSUME NEW S, NEW m \in Nat
    PROVE  \E f : Chosen(f, m, S)
<1>. DEFINE G == {n \in Nat : \E f : Chosen(f, n, S)}
<1>1. 0 \in G
  <2>1. Chosen([n \in 0..0 |-> <<>>], 0, S)
    BY DEF Chosen
  <2>. QED
    BY <2>1
<1>2. ASSUME NEW n \in Nat, n \in G PROVE n + 1 \in G
  <2>1. PICK f : Chosen(f, n, S)
    BY <1>2
  <2>. DEFINE next == IF Order[n + 1] \in S THEN Append(f[n], Order[n + 1]) ELSE f[n]
              g == [i \in 0..(n + 1) |-> IF i = n + 1 THEN next ELSE f[i]]
  <2>2. \A i \in 0..n : f[i] = IF i = 0 THEN <<>>
                        ELSE IF Order[i] \in S THEN Append(f[i - 1], Order[i]) ELSE f[i - 1]
    BY <2>1 DEF Chosen
  <2>3. \A i \in 0..n : g[i] = f[i]
    OBVIOUS
  <2>4. g[n + 1] = next
    OBVIOUS
  <2>. HIDE DEF g
  <2>5. \A i \in 0..(n + 1) : g[i] = IF i = 0 THEN <<>>
                        ELSE IF Order[i] \in S THEN Append(g[i - 1], Order[i]) ELSE g[i - 1]
    <3>. SUFFICES ASSUME NEW i \in 0..(n + 1)
                  PROVE  g[i] = IF i = 0 THEN <<>>
                         ELSE IF Order[i] \in S THEN Append(g[i - 1], Order[i]) ELSE g[i - 1]
      OBVIOUS
    <3>1. CASE i = 0
      BY <2>2, <2>3, <3>1
    <3>2. CASE i = n + 1
      <4>1. i - 1 = n /\ i # 0 /\ n \in 0..n
        BY <3>2
      <4>. QED
        BY <2>3, <2>4, <3>2, <4>1
    <3>3. CASE i # 0 /\ i # n + 1
      <4>1. i \in 0..n /\ i - 1 \in 0..n
        BY <3>3
      <4>. QED
        BY <2>2, <2>3, <3>3, <4>1
    <3>. QED
      BY <3>1, <3>2, <3>3
  <2>6. Chosen(g, n + 1, S)
    BY <2>5 DEF Chosen, g
  <2>. QED
    BY <2>6
<1>. QED
  <2>1. Nat \subseteq G
    <3>. HIDE DEF G
    <3>. QED
      BY <1>1, <1>2, Induct
  <2>. QED
    BY <2>1

LEMMA InOrderFacts ==
    ASSUME NEW S
    PROVE  /\ InOrder(S) \in Seq(Repos)
           /\ \A i, j \in 1..Len(InOrder(S)) : InOrder(S)[i] = InOrder(S)[j] => i = j
           /\ \A r : r \in S \cap Repos <=> \E i \in 1..Len(InOrder(S)) : InOrder(S)[i] = r
<1>. DEFINE L == Len(Order)
            f == CHOOSE g : Chosen(g, L, S)
<1>1. L \in Nat /\ Order \in [1..L -> Repos]
  BY OrderAssumption
<1>2. Chosen(f, L, S)
  BY <1>1, ChosenExists
<1>3. InOrder(S) = f[L]
  BY SMTT(30) DEF InOrder, Chosen
<1>4. \A n \in 0..L : f[n] = IF n = 0 THEN <<>>
                      ELSE IF Order[n] \in S THEN Append(f[n - 1], Order[n]) ELSE f[n - 1]
  BY <1>2 DEF Chosen
<1>. HIDE DEF f
<1>. DEFINE Good(s, n) == /\ s \in Seq(Repos)
                          /\ \A i, j \in 1..Len(s) : s[i] = s[j] => i = j
                          /\ \A i \in 1..Len(s) : s[i] \in S /\ \E k \in 1..n : s[i] = Order[k]
                          /\ \A k \in 1..n : Order[k] \in S => \E i \in 1..Len(s) : s[i] = Order[k]
            G == {n \in Nat : n <= L => Good(f[n], n)}
<1>5. 0 \in G
  <2>1. f[0] = <<>>
    BY <1>1, <1>4
  <2>2. <<>> \in Seq(Repos) /\ Len(<<>>) = 0 /\ 1..0 = {}
    OBVIOUS
  <2>3. Good(<<>>, 0)
    BY <2>2
  <2>. HIDE DEF Good
  <2>. QED
    BY <2>1, <2>3
<1>6. ASSUME NEW n \in Nat, n \in G PROVE n + 1 \in G
  <2>. SUFFICES ASSUME n + 1 <= L PROVE Good(f[n + 1], n + 1)
    BY SMTT(30)
  <2>1. Good(f[n], n) /\ n + 1 \in 1..L /\ Order[n + 1] \in Repos
    BY <1>1, <1>6
  <2>2. f[n + 1] = IF Order[n + 1] \in S THEN Append(f[n], Order[n + 1]) ELSE f[n]
    BY <1>4, <2>1
  <2>3. \A k \in 1..n : Order[k] # Order[n + 1]
    BY <1>1, <2>1, OrderAssumption DEF IsInjective
  <2>4. \A k \in 1..(n + 1) : k \in 1..n \/ k = n + 1
    OBVIOUS
  <2>5. CASE Order[n + 1] \notin S
    BY <2>1, <2>2, <2>4, <2>5
  <2>6. CASE Order[n + 1] \in S
    <3>. DEFINE s == f[n]
                t == Append(s, Order[n + 1])
    <3>1. f[n + 1] = t
      BY <2>2, <2>6
    <3>2. s \in Seq(Repos)
      BY <2>1
    <3>3. t \in Seq(Repos) /\ Len(t) = Len(s) + 1 /\ t[Len(s) + 1] = Order[n + 1] /\ \A i \in 1..Len(s) : t[i] = s[i]
      BY <2>1, <3>2
    <3>4. Len(s) \in Nat /\ \A i \in 1..Len(t) : i \in 1..Len(s) \/ i = Len(s) + 1
      BY <3>2, <3>3
    <3>5. \A i \in 1..Len(s) : s[i] # Order[n + 1]
      BY <2>1, <2>3
    <3>6. \A i, j \in 1..Len(t) : t[i] = t[j] => i = j
      BY <2>1, <3>3, <3>4, <3>5
    <3>7. \A i \in 1..Len(t) : t[i] \in S /\ \E k \in 1..(n + 1) : t[i] = Order[k]
      <4>1. \A i \in 1..Len(s) : s[i] \in S /\ \E k \in 1..(n + 1) : s[i] = Order[k]
        BY <2>1, <2>4
      <4>. QED
        BY <2>6, <3>3, <3>4, <4>1
    <3>8. \A k \in 1..(n + 1) : Order[k] \in S => \E i \in 1..Len(t) : t[i] = Order[k]
      <4>1. \A i \in 1..Len(s) : i \in 1..Len(t)
        BY <3>3, <3>4
      <4>2. Len(s) + 1 \in 1..Len(t)
        BY <3>3, <3>4
      <4>3. \A k \in 1..n : Order[k] \in S => \E i \in 1..Len(s) : s[i] = Order[k]
        BY <2>1
      <4>4. ASSUME NEW k \in 1..n, Order[k] \in S PROVE \E i \in 1..Len(t) : t[i] = Order[k]
        <5>1. PICK i \in 1..Len(s) : s[i] = Order[k]
          BY <4>3, <4>4
        <5>2. i \in 1..Len(t) /\ t[i] = Order[k]
          BY <3>3, <4>1, <5>1
        <5>. HIDE DEF t
        <5>. QED
          BY <5>2
      <4>5. \E i \in 1..Len(t) : t[i] = Order[n + 1]
        <5>. HIDE DEF t
        <5>. QED
          BY <3>3, <4>2
      <4>. HIDE DEF t
      <4>. QED
        BY <2>4, <4>4, <4>5
    <3>. HIDE DEF t
    <3>. QED
      BY <3>1, <3>3, <3>6, <3>7, <3>8
  <2>. QED
    BY <2>5, <2>6
<1>7. Good(f[L], L)
  <2>1. Nat \subseteq G
    <3>. HIDE DEF G
    <3>. QED
      BY <1>5, <1>6, Induct
  <2>2. L \in G /\ L <= L
    <3>1. L \in Nat /\ L <= L
      BY <1>1
    <3>. HIDE DEF G, L
    <3>. QED
      BY <2>1, <3>1
  <2>. HIDE DEF Good, L
  <2>. QED
    BY <2>2
<1>8. \A r \in Repos : \E k \in 1..L : Order[k] = r
  BY <1>1 DEF Repos, Range
<1>9. \A r : r \in S \cap Repos => \E k \in 1..L : Order[k] = r /\ Order[k] \in S
  BY <1>8
<1>. HIDE DEF L
<1>10. \A i \in 1..Len(f[L]) : f[L][i] \in S \cap Repos
  BY <1>7
<1>. QED
  BY <1>3, <1>7, <1>9, <1>10

LEMMA RunFacts ==
    /\ Len(Rows) \in Nat /\ Rows \in [1..Len(Rows) -> Repos] /\ Rows \in Seq(Repos)
    /\ Len(RunOrder) = Len(Rows)
    /\ RunOrder \in [1..Len(Rows) -> Range(Rows)] /\ DOMAIN RunOrder = 1..Len(Rows)
    /\ \A i, j \in 1..Len(Rows) : RunOrder[i] = RunOrder[j] => i = j
    /\ \A r \in Range(Rows) : \E i \in 1..Len(Rows) : RunOrder[i] = r
    /\ \A r \in Range(Rows) : \E i \in 1..Len(Rows) : Rows[i] = r
    /\ Range(Rows) = {r \in Repos : Selected(r)}
<1>. DEFINE S == {r \in Repos : Selected(r)}
            n == Len(Rows)
<1>1. /\ Rows \in Seq(Repos)
      /\ \A i, j \in 1..n : Rows[i] = Rows[j] => i = j
      /\ \A r : r \in S \cap Repos <=> \E i \in 1..n : Rows[i] = r
  <2>. HIDE DEF S
  <2>1. Rows = InOrder(S)
    BY DEF Rows, S
  <2>. QED
    BY <2>1, InOrderFacts
<1>2. n \in Nat /\ Rows \in [1..n -> Repos] /\ DOMAIN Rows = 1..n
  BY <1>1
<1>3. Range(Rows) = {Rows[i] : i \in 1..n}
  BY <1>2 DEF Range
<1>4. Range(Rows) = S /\ \A r \in Range(Rows) : \E i \in 1..n : Rows[i] = r
  BY <1>1, <1>3
<1>5. CASE ~cmd.reverse
  <2>1. RunOrder = Rows
    BY <1>5 DEF RunOrder
  <2>2. RunOrder \in [1..n -> Range(Rows)]
    BY <1>2, <1>3, <2>1
  <2>. QED
    BY <1>1, <1>2, <1>4, <2>1, <2>2
<1>6. CASE cmd.reverse
  <2>1. RunOrder = [i \in 1..n |-> Rows[(n - i) + 1]]
    BY <1>6 DEF RunOrder, Reverse
  <2>2. \A i \in 1..n : (n - i) + 1 \in 1..n /\ RunOrder[i] = Rows[(n - i) + 1]
    BY <1>2, <2>1
  <2>3. RunOrder \in [1..n -> Range(Rows)] /\ Len(RunOrder) = n /\ DOMAIN RunOrder = 1..n
    BY <1>2, <1>3, <2>1, <2>2
  <2>4. ASSUME NEW i \in 1..n, NEW j \in 1..n, RunOrder[i] = RunOrder[j] PROVE i = j
    <3>1. Rows[(n - i) + 1] = Rows[(n - j) + 1]
      BY <2>2, <2>4
    <3>2. (n - i) + 1 \in 1..n /\ (n - j) + 1 \in 1..n
      BY <2>2
    <3>3. (n - i) + 1 = (n - j) + 1
      BY <1>1, <3>1, <3>2
    <3>. QED
      BY <1>2, <3>3
  <2>5. ASSUME NEW r \in Range(Rows) PROVE \E i \in 1..n : RunOrder[i] = r
    <3>1. PICK k \in 1..n : Rows[k] = r
      BY <1>4, <2>5
    <3>2. (n - k) + 1 \in 1..n /\ (n - ((n - k) + 1)) + 1 = k
      BY <1>2
    <3>. QED
      BY <2>2, <3>1, <3>2
  <2>. QED
    BY <1>1, <1>2, <1>4, <2>3, <2>4, <2>5
<1>. QED
  BY <1>5, <1>6

-----------------------------------------------------------------------------
(* What the steps leave alone                                               *)
LEMMA SameRun ==
    ASSUME UNCHANGED inputs
    PROVE  /\ Rows' = Rows /\ RunOrder' = RunOrder /\ Streams' = Streams /\ Unsettled' = Unsettled
           /\ Fetching' = Fetching /\ Pushing' = Pushing /\ PlanType' = PlanType
<1>1. Rows' = Rows
  BY DEF inputs, Rows, Selected, Present
<1>. QED
  BY <1>1 DEF inputs, RunOrder, Streams, Unsettled, Fetching, Pushing, PlanType

LEMMA RecordFacts ==
    ASSUME InputsTypeOK
    PROVE  /\ cmd.name \in {"exec", "fetch", "push"} /\ cmd.reverse \in BOOLEAN /\ cmd.dry \in BOOLEAN
           /\ cmd.human \in BOOLEAN /\ (Pushing => ~cmd.dry)
           /\ ws.absent \subseteq Repos /\ ws.detached \subseteq Repos
  BY CommandsAssumption, WorkspacesAssumption DEF InputsTypeOK, CommandsTyped, Pushing

LEMMA InitBase == Init => BaseInv
<1>. SUFFICES ASSUME Init PROVE BaseInv
  OBVIOUS
<1>1. InputsTypeOK /\ ProcessTypeOK /\ GhostsTypeOK /\ BoundsTypeOK
  BY DEF Init, ProcessInit, InputsTypeOK, ProcessTypeOK, GhostsTypeOK, BoundsTypeOK
<1>2. WorldTypeOK
  BY <1>1, RecordFacts DEF Init, WorldTypeOK, CheckoutType, RemoteType, TrackingType, Commits
<1>3. RunTypeOK
  <2>1. \A r : NewRow(r) \in RowType
    BY DEF NewRow, RowType, Unsettled, Statuses, Commits
  <2>. QED
    <3>1. plan \in [Repos -> {None} \cup PlanType]
      BY DEF Init
    <3>2. rows \in [Range(Rows) -> RowType]
      BY <2>1 DEF Init
    <3>3. shown \in Seq(Repos \X Statuses)
      BY DEF Init
    <3>4. pos \in 1..(Len(Rows) + 1)
      BY RunFacts DEF Init
    <3>. QED
      BY <3>1, <3>2, <3>3, <3>4 DEF Init, RunTypeOK, Steps
<1>. QED
  BY <1>1, <1>2, <1>3 DEF BaseInv, TypeOK, Init, Located, Learned, AtRow, FetchSteps

\* Nothing the command itself keeps changed.
LEMMA RunStays ==
    ASSUME BaseInv, UNCHANGED <<inputs, pc, pos, plan, rows, result, output>>, canceled => canceled'
    PROVE  RunOK'
<1>1. RunTypeOK'
  BY SameRun DEF BaseInv, TypeOK, RunTypeOK, inputs, output
<1>2. Located'
  BY SameRun DEF BaseInv, Located, inputs
<1>3. Learned'
  BY SameRun DEF BaseInv, Learned, PlannedBefore, PlannedAll, Current, inputs
<1>. QED
  BY <1>1, <1>2, <1>3 DEF RunOK

LEMMA WorldStays ==
    ASSUME BaseInv, UNCHANGED <<world, inputs>>
    PROVE  WorldTypeOK' /\ InputsTypeOK'
  BY DEF BaseInv, TypeOK, WorldTypeOK, InputsTypeOK, world, inputs

LEMMA ProcessStays ==
    ASSUME BaseInv, UNCHANGED process_vars
    PROVE  ProcessTypeOK' /\ (canceled => canceled')
  BY DEF BaseInv, TypeOK, ProcessTypeOK, process_vars

LEMMA Bounds ==
    ASSUME BaseInv, edits' \in {edits, edits + 1}, faults' \in {faults, faults + 1}
    PROVE  BoundsTypeOK'
  BY DEF BaseInv, TypeOK, BoundsTypeOK

LEMMA InterruptKeeps ==
    ASSUME BaseInv, Interrupt PROVE BaseInv'
<1>1. RunOK'
  BY RunStays DEF Interrupt, Cancel
<1>2. WorldTypeOK' /\ InputsTypeOK'
  BY WorldStays DEF Interrupt
<1>3. ProcessTypeOK' /\ GhostsTypeOK' /\ BoundsTypeOK'
  BY DEF BaseInv, TypeOK, ProcessTypeOK, GhostsTypeOK, BoundsTypeOK, Interrupt, Cancel, child_vars, ghosts
<1>. QED
  BY <1>1, <1>2, <1>3 DEF BaseInv, TypeOK, RunOK

LEMMA ProgramKeeps ==
    ASSUME BaseInv, ProgramWorks \/ GitHelper \/ Attend PROVE BaseInv'
<1>. USE DEF ProgramWorks, GitHelper, Attend
<1>1. canceled' = canceled
  BY DEF HelperHolds, HelperEnds, ProgramStep, ChildForks, ChildCloses, ChildEnds, HolderEnds,
         WaiterStep, Drained, Reaped, KillGroup, KillFails, Stopped, TimerFires, child_vars
<1>2. RunOK'
  BY <1>1, RunStays
<1>3. WorldTypeOK' /\ InputsTypeOK'
  BY WorldStays
<1>4. ProcessTypeOK'
  BY DEF BaseInv, TypeOK, ProcessTypeOK, HelperHolds, HelperEnds, ProgramStep, ChildForks, ChildCloses, ChildEnds, HolderEnds,
         WaiterStep, Drained, Reaped, KillGroup, KillFails, Stopped, TimerFires, child_vars
<1>5. GhostsTypeOK' /\ BoundsTypeOK'
  BY DEF BaseInv, TypeOK, GhostsTypeOK, BoundsTypeOK, ghosts
<1>. QED
  BY <1>2, <1>3, <1>4, <1>5 DEF BaseInv, TypeOK, RunOK

LEMMA EditKeeps ==
    ASSUME BaseInv, EditCheckout \/ UserSwitches \/ RemoteChanges \/ UserFetches PROVE BaseInv'
<1>1. Edited
  BY DEF EditCheckout, UserSwitches, RemoteChanges, UserFetches
<1>2. RunOK'
  BY <1>1, RunStays DEF Edited, process_vars
<1>. DEFINE Checkouts == checkout' \in [Repos -> CheckoutType]
            Remotes == remote' \in [Repos -> RemoteType]
            Trackings == tracking' \in [Repos -> TrackingType]
<1>3. checkout \in [Repos -> CheckoutType] /\ remote \in [Repos -> RemoteType] /\ tracking \in [Repos -> TrackingType]
  BY DEF BaseInv, TypeOK, WorldTypeOK
<1>4. Checkouts /\ Remotes /\ Trackings
  <2>1. CASE EditCheckout
    <3>1. PICK r \in Repos, f \in DOMAIN Fields \ {"branch"} : \E v \in Fields[f] :
              checkout' = [checkout EXCEPT ![r][f] = v]
      BY <2>1 DEF EditCheckout
    <3>2. PICK v \in Fields[f] : checkout' = [checkout EXCEPT ![r][f] = v]
      BY <3>1
    <3>3. f \in {"dir", "at", "clean", "upstream"}
      BY <3>1 DEF Fields
    <3>4. [checkout[r] EXCEPT ![f] = v] \in CheckoutType
      <4>1. CASE f = "dir"
        BY <1>3, <3>2, <4>1 DEF CheckoutType, Fields
      <4>2. CASE f = "at"
        BY <1>3, <3>2, <4>2 DEF CheckoutType, Fields
      <4>3. CASE f = "clean"
        <5>1. v \in BOOLEAN
          BY <3>2, <4>3 DEF Fields
        <5>2. checkout[r] \in CheckoutType
          BY <1>3
        <5>. QED
          BY <5>1, <5>2, <4>3 DEF CheckoutType
      <4>4. CASE f = "upstream"
        BY <1>3, <3>2, <4>4 DEF CheckoutType, Fields
      <4>. QED
        BY <3>3, <4>1, <4>2, <4>3, <4>4
    <3>5. UNCHANGED <<remote, tracking>>
      BY <2>1 DEF EditCheckout
    <3>. QED
      BY <1>3, <3>2, <3>4, <3>5
  <2>2. CASE UserSwitches
    <3>1. PICK r \in Repos, branch \in Fields.branch, at \in Fields.at, up \in Fields.upstream :
              checkout' = [checkout EXCEPT ![r].branch = branch, ![r].at = at, ![r].upstream = up]
      BY <2>2 DEF UserSwitches
    <3>2. [checkout[r] EXCEPT !.branch = branch, !.at = at, !.upstream = up] \in CheckoutType
      BY <1>3, ZenonT(60) DEF CheckoutType, Fields
    <3>3. checkout' = [checkout EXCEPT ![r] = [checkout[r] EXCEPT !.branch = branch, !.at = at, !.upstream = up]]
      BY <1>3, <3>1
    <3>4. UNCHANGED <<remote, tracking>>
      BY <2>2 DEF UserSwitches
    <3>. QED
      BY <1>3, <3>2, <3>3, <3>4
  <2>3. CASE RemoteChanges
    BY <1>3, <2>3 DEF RemoteChanges, RemoteType
  <2>4. CASE UserFetches
    BY <1>3, <2>4 DEF UserFetches, TrackingType, RemoteType
  <2>. HIDE DEF Checkouts, Remotes, Trackings
  <2>. QED
    BY <2>1, <2>2, <2>3, <2>4
<1>5. been' \in [Repos -> SUBSET CheckoutType]
  <2>1. been \in [Repos -> SUBSET CheckoutType] /\ been' = [r \in Repos |-> been[r] \cup {checkout'[r]}]
    BY <1>1 DEF Edited, Remember, BaseInv, TypeOK, WorldTypeOK
  <2>2. \A r \in Repos : checkout'[r] \in CheckoutType
    BY <1>4
  <2>. QED
    BY <2>1, <2>2
<1>6. advertised' \in [Repos -> SUBSET (Commits \cup {None})]
  <2>1. /\ advertised \in [Repos -> SUBSET (Commits \cup {None})]
        /\ advertised' = [r \in Repos |-> advertised[r] \cup {remote'[r].own}]
    BY <1>1 DEF Edited, Remember, BaseInv, TypeOK, WorldTypeOK
  <2>2. \A r \in Repos : remote'[r].own \in Commits \cup {None}
    BY <1>4 DEF RemoteType
  <2>. QED
    BY <2>1, <2>2
<1>7. InputsTypeOK' /\ GhostsTypeOK' /\ BoundsTypeOK' /\ ProcessTypeOK'
  BY <1>1 DEF Edited, BaseInv, TypeOK, InputsTypeOK, GhostsTypeOK, BoundsTypeOK, ProcessTypeOK, inputs, ghosts, process_vars
<1>. QED
  BY <1>2, <1>4, <1>5, <1>6, <1>7 DEF BaseInv, TypeOK, RunOK, WorldTypeOK

\* The row a command is at, and what may become of the rows.
LEMMA AtARow ==
    ASSUME BaseInv, pos <= Len(Rows)
    PROVE  Current \in Range(Rows) /\ Current \in Repos /\ rows[Current] \in RowType
  BY RunFacts DEF BaseInv, TypeOK, RunTypeOK, Current

LEMMA RowKeeps ==
    ASSUME BaseInv, NEW status \in Statuses
    PROVE  Row(status) \in [Range(Rows) -> RowType]
  BY DEF BaseInv, TypeOK, RunTypeOK, Row, RowType

LEMMA GotKeeps ==
    ASSUME BaseInv, NEW status \in Statuses, NEW commit \in Commits
    PROVE  Got(status, commit) \in [Range(Rows) -> RowType]
  BY ZenonT(60) DEF BaseInv, TypeOK, RunTypeOK, Got, RowType

LEMMA CanceledKeeps ==
    ASSUME NEW rs \in [Range(Rows) -> RowType], NEW p
    PROVE  Canceled(rs, p) \in [Range(Rows) -> RowType]
<1>1. \A r \in Range(Rows) : [rs[r] EXCEPT !.status = "canceled"] \in RowType
  BY DEF RowType, Statuses
<1>. QED
  BY <1>1 DEF Canceled

LEMMA CanceledBeforeKeeps ==
    ASSUME BaseInv, NEW p
    PROVE  CanceledBefore(p) \in [Range(Rows) -> RowType]
<1>1. rows \in [Range(Rows) -> RowType]
  BY DEF BaseInv, TypeOK, RunTypeOK
<1>2. \A r \in Range(Rows) : [rows[r] EXCEPT !.status = "canceled"] \in RowType
  BY <1>1 DEF RowType, Statuses
<1>. QED
  BY <1>1, <1>2 DEF CanceledBefore

LEMMA SettleKeeps ==
    ASSUME BaseInv, UNCHANGED <<inputs, plan>>, canceled => canceled', pos <= Len(Rows),
           NEW rs \in [Range(Rows) -> RowType], NEW where \in {"turn", "canceling"},
           where = "canceling" => canceled', where = "turn" => PlannedAll /\ ~(cmd.name = "exec" /\ cmd.dry),
           Settle(rs, Goto(where, pos + 1))
    PROVE  RunOK'
<1>1. rows' \in [Range(Rows) -> RowType]
  BY CanceledKeeps DEF Settle
<1>2. shown' \in Seq(Repos \X Statuses) /\ streamed' \in BOOLEAN /\ broken' \in BOOLEAN
  <2>1. shown \in Seq(Repos \X Statuses) /\ streamed \in BOOLEAN /\ broken \in BOOLEAN
    BY DEF BaseInv, TypeOK, RunTypeOK
  <2>2. <<Current, rs[Current].status>> \in Repos \X Statuses
    BY AtARow DEF RowType
  <2>3. Append(shown, <<Current, rs[Current].status>>) \in Seq(Repos \X Statuses)
    BY <2>1, <2>2
  <2>. QED
    BY <2>1, <2>3 DEF Settle, output
<1>3. \/ pc' = where /\ pos' = pos + 1 /\ result' = result
      \/ pc' = "returned" /\ pos' = pos /\ result' = "failed"
  BY DEF Settle, Goto, Return
<1>4. pc' \in Steps /\ pos' \in 1..(Len(Rows) + 1) /\ result' \in {"none", "refused", "planned"} \cup Statuses
  BY <1>3, RunFacts DEF BaseInv, TypeOK, RunTypeOK, Steps, Statuses
<1>5. RunTypeOK'
  BY <1>1, <1>2, <1>4, SameRun DEF BaseInv, TypeOK, RunTypeOK
<1>6. Located'
  BY <1>3, SameRun DEF BaseInv, Located, AtRow, FetchSteps, inputs
<1>7. Learned'
  BY <1>3, SameRun DEF BaseInv, Learned, PlannedAll, FetchSteps, inputs
<1>. QED
  BY <1>5, <1>6, <1>7 DEF RunOK

LEMMA CancelKeeps ==
    ASSUME BaseInv, CancelRow \/ CancelEnds PROVE BaseInv'
<1>1. WorldTypeOK' /\ InputsTypeOK' /\ ProcessTypeOK' /\ GhostsTypeOK' /\ BoundsTypeOK' /\ (canceled => canceled')
  BY WorldStays, ProcessStays, Bounds DEF CancelRow, CancelEnds, BaseInv, TypeOK, GhostsTypeOK, ghosts
<1>2. CASE CancelRow
  <2>1. pos <= Len(Rows)
    BY <1>2, RunFacts DEF CancelRow, Finished, BaseInv, TypeOK, RunTypeOK
  <2>2. Row("canceled") \in [Range(Rows) -> RowType]
    BY RowKeeps DEF Statuses
  <2>3. RunOK'
    BY <1>1, <1>2, <2>1, <2>2, SettleKeeps DEF CancelRow, BaseInv, Located
  <2>. QED
    BY <1>1, <2>3 DEF BaseInv, TypeOK, RunOK
<1>3. CASE CancelEnds
  <2>1. RunTypeOK'
    BY <1>3, SameRun DEF CancelEnds, Return, BaseInv, TypeOK, RunTypeOK, Steps, Statuses, output
  <2>2. Located' /\ Learned'
    BY <1>3, SameRun DEF CancelEnds, Return, Located, Learned, AtRow, FetchSteps
  <2>. QED
    BY <1>1, <2>1, <2>2 DEF BaseInv, TypeOK, RunOK
<1>. QED
  BY <1>2, <1>3

-----------------------------------------------------------------------------
(* Types are kept: exec                                                     *)
LEMMA StartingKeeps ==
    ASSUME BaseInv, Starting
    PROVE  /\ WorldTypeOK' /\ InputsTypeOK' /\ ProcessTypeOK' /\ GhostsTypeOK' /\ BoundsTypeOK'
           /\ canceled' = canceled /\ UNCHANGED <<inputs, output>>
<1>1. been' \in [Repos -> SUBSET CheckoutType] /\ advertised' \in [Repos -> SUBSET (Commits \cup {None})]
  BY DEF Starting, BaseInv, TypeOK, WorldTypeOK, RemoteType
<1>2. ProcessTypeOK' /\ GhostsTypeOK' /\ BoundsTypeOK' /\ InputsTypeOK'
  BY DEF Starting, BaseInv, TypeOK, ProcessTypeOK, GhostsTypeOK, BoundsTypeOK, InputsTypeOK, process_vars, ghosts, inputs
<1>3. canceled' = canceled /\ UNCHANGED <<inputs, output>>
  BY DEF Starting, process_vars
<1>. QED
  BY <1>1, <1>2, <1>3 DEF Starting, BaseInv, TypeOK, WorldTypeOK

\* Steps that change neither the world nor the process.
LEMMA KeptKeeps ==
    ASSUME BaseInv, UNCHANGED <<world, inputs, edits, process_vars>>, GhostsTypeOK', faults' \in {faults, faults + 1}, RunOK'
    PROVE  BaseInv'
<1>1. WorldTypeOK' /\ InputsTypeOK' /\ ProcessTypeOK' /\ BoundsTypeOK'
  BY WorldStays, ProcessStays, Bounds
<1>. QED
  BY <1>1 DEF BaseInv, TypeOK, RunOK

LEMMA GhostsStay == ASSUME BaseInv, UNCHANGED ghosts PROVE GhostsTypeOK'
  BY DEF BaseInv, TypeOK, GhostsTypeOK, ghosts

\* The command returns and nothing but its rows changes with it.
LEMMA ReturnKeeps ==
    ASSUME BaseInv, UNCHANGED <<inputs, plan, output>>, rows' \in [Range(Rows) -> RowType],
           NEW status \in {"failed", "planned", "completed", "blocked", "ready"}, Return(status)
    PROVE  RunOK'
<1>1. RunTypeOK'
  BY SameRun DEF Return, BaseInv, TypeOK, RunTypeOK, Steps, Statuses, output
<1>2. Located' /\ Learned'
  BY SameRun DEF Return, Located, Learned, AtRow, FetchSteps
<1>. QED
  BY <1>1, <1>2 DEF RunOK

\* It goes on.
LEMMA GotoKeeps ==
    ASSUME BaseInv, UNCHANGED <<inputs, output>>, rows' \in [Range(Rows) -> RowType],
           plan' \in [Repos -> {None} \cup PlanType], NEW where \in Steps, NEW p \in 1..(Len(Rows) + 1), Goto(where, p)
    PROVE  RunTypeOK'
  BY SameRun DEF Goto, BaseInv, TypeOK, RunTypeOK, output

LEMMA FaultCounts == Fault => faults' \in {faults, faults + 1}
  BY DEF Fault

LEMMA ExecBeginKeeps ==
    ASSUME BaseInv, ExecBegin PROVE BaseInv'
<1>1. /\ WorldTypeOK' /\ InputsTypeOK' /\ ProcessTypeOK' /\ GhostsTypeOK' /\ BoundsTypeOK'
      /\ UNCHANGED <<inputs, output, plan>> /\ pc = "begin" /\ cmd.name = "exec"
  BY StartingKeeps DEF ExecBegin
<1>2. rows \in [Range(Rows) -> RowType] /\ plan \in [Repos -> {None} \cup PlanType] /\ pos \in 1..(Len(Rows) + 1)
  BY DEF BaseInv, TypeOK, RunTypeOK
<1>3. CASE pc' = "done" /\ result' = "refused" /\ UNCHANGED <<rows, pos>>
  <2>1. RunTypeOK'
    BY <1>1, <1>2, <1>3, SameRun DEF BaseInv, TypeOK, RunTypeOK, Steps, output
  <2>2. Located' /\ Learned'
    BY <1>1, <1>3, SameRun DEF Located, Learned, AtRow, FetchSteps
  <2>. QED
    BY <1>1, <2>1, <2>2 DEF BaseInv, TypeOK
<1>4. CASE Return("failed") /\ rows' \in [Range(Rows) -> RowType]
  <2>1. RunOK'
    BY <1>1, <1>4, ReturnKeeps
  <2>. QED
    BY <1>1, <2>1 DEF BaseInv, TypeOK, RunOK
<1>5. CASE Goto("plan", 1) /\ UNCHANGED rows
  <2>1. RunTypeOK'
    BY <1>1, <1>2, <1>5, GotoKeeps, RunFacts DEF Steps
  <2>2. Located' /\ Learned'
    BY <1>1, <1>5, SameRun DEF Goto, Located, Learned, AtRow, FetchSteps, inputs, Pushing, Fetching
  <2>. QED
    BY <1>1, <2>1, <2>2 DEF BaseInv, TypeOK
<1>6. ASSUME NEW i \in 1..Len(Rows), rows' = [rows EXCEPT ![Rows[i]].status = "failed"]
      PROVE  rows' \in [Range(Rows) -> RowType]
  <2>1. Rows[i] \in Range(Rows)
    BY RunFacts DEF Range
  <2>2. [rows[Rows[i]] EXCEPT !.status = "failed"] \in RowType
    BY <1>2, <2>1 DEF RowType, Statuses
  <2>. QED
    BY <1>2, <1>6, <2>2
<1>7. \/ pc' = "done" /\ result' = "refused" /\ UNCHANGED <<rows, pos>>
      \/ Return("failed") /\ UNCHANGED rows
      \/ Return("failed") /\ \E i \in 1..Len(Rows) : rows' = [rows EXCEPT ![Rows[i]].status = "failed"]
      \/ Goto("plan", 1) /\ UNCHANGED rows
  <2>. DEFINE refused == {i \in 1..Len(Rows) : Scoped /\ Rows[i] \in ws.detached}
              least == CHOOSE i \in refused : \A j \in refused : i <= j
  <2>1. CASE refused # {} /\ Return("failed") /\ rows' = [rows EXCEPT ![Rows[least]].status = "failed"]
    <3>1. refused \subseteq Nat
      OBVIOUS
    <3>2. \E i \in refused : \A j \in refused : i <= j
      <4>1. PICK i \in refused : \A j \in refused : ~(<<j, i>> \in OpToRel(<, Nat))
        BY <2>1, <3>1, WFMin, NatLessThanWellFounded
      <4>2. \A j \in refused : ~(j < i)
        BY <3>1, <4>1 DEF OpToRel
      <4>. QED
        BY <3>1, <4>2
    <3>3. least \in refused
      BY <3>2
    <3>4. least \in 1..Len(Rows)
      BY <3>3
    <3>. HIDE DEF refused, least
    <3>. QED
      BY <2>1, <3>4
  <2>. QED
    BY <2>1 DEF ExecBegin
<1>. QED
  BY <1>2, <1>3, <1>4, <1>5, <1>6, <1>7

LEMMA PreflightKeeps ==
    ASSUME BaseInv, Preflight PROVE BaseInv'
<1>1. /\ UNCHANGED <<world, inputs, ghosts, edits, process_vars, output>> /\ pc = "plan" /\ cmd.name = "exec"
      /\ pos \in 1..Len(Rows) /\ pos <= Len(Rows) /\ faults' \in {faults, faults + 1}
  BY RunFacts DEF Preflight, Kept, Fault, BaseInv, TypeOK, RunTypeOK
<1>2. rows \in [Range(Rows) -> RowType] /\ plan \in [Repos -> {None} \cup PlanType]
  BY DEF BaseInv, TypeOK, RunTypeOK
<1>3. Rows[pos] \in Range(Rows) /\ Rows[pos] \in Repos
  BY <1>1, RunFacts DEF Range
<1>. DEFINE entry == [ok |-> TRUE, head |-> checkout[Rows[pos]].at]
<1>4. CASE plan' = [plan EXCEPT ![Rows[pos]] = entry] /\ Goto("plan", pos + 1) /\ UNCHANGED rows
  <2>1. entry \in PlanType
    BY <1>1, <1>3 DEF PlanType, ExecPlan, BaseInv, TypeOK, WorldTypeOK, CheckoutType
  <2>2. plan' \in [Repos -> {None} \cup PlanType]
    BY <1>2, <1>3, <1>4, <2>1
  <2>3. pos + 1 \in 1..(Len(Rows) + 1)
    BY <1>1, RunFacts
  <2>4. RunTypeOK'
    BY <1>1, <1>2, <1>4, <2>2, <2>3, GotoKeeps DEF Steps
  <2>5. Located'
    BY <1>1, <1>4, SameRun DEF Goto, Located, AtRow, FetchSteps, inputs, Pushing, Fetching
  <2>6. \A i \in 1..pos : plan'[Rows[i]] \in PlanType
    <3>. SUFFICES ASSUME NEW i \in 1..pos PROVE plan'[Rows[i]] \in PlanType
      OBVIOUS
    <3>1. i \in 1..Len(Rows) /\ Rows[i] \in Repos
      BY <1>1, RunFacts
    <3>2. CASE Rows[i] = Rows[pos]
      BY <1>2, <1>4, <2>1, <3>1, <3>2
    <3>3. CASE Rows[i] # Rows[pos]
      <4>1. i \in 1..(pos - 1)
        BY <1>1, <3>3
      <4>2. plan[Rows[i]] \in PlanType
        BY <1>1, <4>1 DEF BaseInv, Learned
      <4>. QED
        BY <1>2, <1>4, <3>1, <3>3, <4>2
    <3>. QED
      BY <3>2, <3>3
  <2>7. Learned'
    <3>1. pc' = "plan" /\ pos' - 1 = pos /\ cmd' = cmd /\ Rows' = Rows
      BY <1>1, <1>4, SameRun, RunFacts DEF Goto, inputs
    <3>. QED
      BY <1>1, <2>6, <3>1, SameRun DEF Learned, FetchSteps
  <2>8. RunOK'
    BY <2>4, <2>5, <2>7 DEF RunOK
  <2>. QED
    BY <1>1, <2>8, KeptKeeps, GhostsStay
<1>5. CASE rows' = [rows EXCEPT ![Rows[pos]].status = "failed"] /\ Return("failed") /\ UNCHANGED plan
  <2>1. [rows[Rows[pos]] EXCEPT !.status = "failed"] \in RowType
    BY <1>2, <1>3 DEF RowType, Statuses
  <2>2. rows' \in [Range(Rows) -> RowType]
    BY <1>2, <1>5, <2>1
  <2>3. RunOK'
    BY <1>1, <1>5, <2>2, ReturnKeeps
  <2>. QED
    BY <1>1, <2>3, KeptKeeps, GhostsStay
<1>. QED
  BY <1>4, <1>5 DEF Preflight

LEMMA PlannedKeeps ==
    ASSUME BaseInv, Planned PROVE BaseInv'
<1>1. /\ UNCHANGED <<world, inputs, ghosts, edits, process_vars, output, plan, faults>> /\ pc = "plan" /\ cmd.name = "exec"
      /\ pos > Len(Rows)
  BY DEF Planned, Kept
<1>2. rows \in [Range(Rows) -> RowType] /\ plan \in [Repos -> {None} \cup PlanType]
  BY DEF BaseInv, TypeOK, RunTypeOK
<1>3. PlannedAll
  <2>. SUFFICES ASSUME NEW r \in Range(Rows) PROVE plan[r] \in PlanType
    BY DEF PlannedAll
  <2>1. PICK i \in 1..Len(Rows) : Rows[i] = r
    BY RunFacts
  <2>2. i \in 1..(pos - 1)
    BY <1>1, RunFacts DEF BaseInv, TypeOK, RunTypeOK
  <2>. QED
    BY <1>1, <2>1, <2>2 DEF BaseInv, Learned
<1>4. rows' \in [Range(Rows) -> RowType]
  <2>1. \A r \in Range(Rows) : plan[r].head \in Commits
    BY <1>1, <1>3 DEF PlannedAll, PlanType, ExecPlan
  <2>2. \A r \in Range(Rows) : [rows[r] EXCEPT !.head = plan[r].head] \in RowType
    BY <1>2, <2>1 DEF RowType
  <2>3. DOMAIN rows = Range(Rows)
    BY <1>2
  <2>. QED
    BY <1>2, <2>2, <2>3 DEF Planned
<1>5. CASE Return("failed") \/ Return("planned")
  <2>1. RunOK'
    BY <1>1, <1>4, <1>5, ReturnKeeps
  <2>. QED
    BY <1>1, <2>1, KeptKeeps, GhostsStay
<1>6. CASE ~cmd.dry /\ Goto("turn", 1)
  <2>1. RunTypeOK'
    BY <1>1, <1>2, <1>4, <1>6, GotoKeeps, RunFacts DEF Steps
  <2>2. Located' /\ Learned'
    BY <1>1, <1>3, <1>6, SameRun DEF Goto, Located, Learned, PlannedAll, AtRow, FetchSteps, inputs, Pushing, Fetching
  <2>3. RunOK'
    BY <2>1, <2>2 DEF RunOK
  <2>. QED
    BY <1>1, <2>3, KeptKeeps, GhostsStay
<1>. QED
  BY <1>5, <1>6 DEF Planned

LEMMA ExecTurnKeeps ==
    ASSUME BaseInv, ExecTurn PROVE BaseInv'
<1>1. /\ UNCHANGED <<world, inputs, ghosts, edits, process_vars, output, plan, faults, rows>> /\ pc = "turn" /\ cmd.name = "exec"
  BY DEF ExecTurn, Kept
<1>2. rows' \in [Range(Rows) -> RowType] /\ plan' \in [Repos -> {None} \cup PlanType] /\ pos \in 1..(Len(Rows) + 1)
  BY <1>1 DEF BaseInv, TypeOK, RunTypeOK
<1>3. ~cmd.dry /\ PlannedAll /\ canceled' = canceled
  BY <1>1 DEF BaseInv, Located, Learned, process_vars
<1>4. CASE Return(Outcome)
  <2>1. Outcome \in {"failed", "completed"}
    BY DEF Outcome
  <2>2. RunOK'
    BY <1>1, <1>2, <1>4, <2>1, ReturnKeeps
  <2>. QED
    BY <1>1, <2>2, KeptKeeps, GhostsStay
<1>5. CASE ~Finished /\ \/ canceled /\ Goto("canceling", pos)
                        \/ Goto("launch", pos)
  <2>1. RunTypeOK'
    BY <1>1, <1>2, <1>5, GotoKeeps DEF Steps
  <2>2. pos <= Len(Rows)
    BY <1>2, <1>5, RunFacts DEF Finished
  <2>3. Located' /\ Learned'
    BY <1>1, <1>3, <1>5, <2>2, SameRun DEF Goto, Located, Learned, PlannedAll, AtRow, FetchSteps, inputs, Pushing, Fetching
  <2>4. RunOK'
    BY <2>1, <2>3 DEF RunOK
  <2>. QED
    BY <1>1, <2>4, KeptKeeps, GhostsStay
<1>. QED
  BY <1>4, <1>5 DEF ExecTurn

LEMMA NotLaunchedKeeps ==
    ASSUME BaseInv, NotLaunched PROVE BaseInv'
<1>1. /\ UNCHANGED <<world, inputs, ghosts, edits, process_vars, plan>> /\ pc = "launch"
      /\ faults' \in {faults, faults + 1}
  BY DEF NotLaunched, Kept, Fault
<1>2. ~cmd.dry /\ PlannedAll /\ canceled' = canceled /\ pos <= Len(Rows)
  BY <1>1 DEF BaseInv, Located, Learned, process_vars, AtRow
<1>3. Row("canceled") \in [Range(Rows) -> RowType] /\ Row("failed") \in [Range(Rows) -> RowType]
  BY RowKeeps DEF Statuses
<1>4. RunOK'
  BY <1>1, <1>2, <1>3, SettleKeeps DEF NotLaunched
<1>. QED
  BY <1>1, <1>4, KeptKeeps, GhostsStay

LEMMA LaunchKeeps ==
    ASSUME BaseInv, Launch PROVE BaseInv'
<1>1. /\ UNCHANGED <<world, inputs, plan, output, edits, faults, canceled>> /\ pc = "launch"
      /\ pos <= Len(Rows) /\ cmd.name = "exec" /\ ~cmd.dry /\ PlannedAll
  BY DEF Launch, StartChild, BaseInv, Located, Learned, AtRow
<1>2. rows \in [Range(Rows) -> RowType] /\ plan' \in [Repos -> {None} \cup PlanType] /\ pos \in 1..(Len(Rows) + 1)
  BY <1>1 DEF BaseInv, TypeOK, RunTypeOK
<1>3. rows' \in [Range(Rows) -> RowType]
  <2>1. [rows[Current] EXCEPT !.started = TRUE] \in RowType
    BY <1>1, AtARow DEF RowType
  <2>. QED
    BY <1>2, <2>1 DEF Launch
<1>4. RunTypeOK'
  BY <1>1, <1>2, <1>3, GotoKeeps DEF Launch, Steps
<1>5. Located' /\ Learned'
  BY <1>1, SameRun DEF Launch, Goto, Located, Learned, PlannedAll, AtRow, FetchSteps, inputs, Pushing, Fetching
<1>6. ProcessTypeOK'
  BY DEF Launch, StartChild, BaseInv, TypeOK, ProcessTypeOK
<1>7. GhostsTypeOK'
  BY <1>1, AtARow DEF Launch, Begins, BaseInv, TypeOK, GhostsTypeOK
<1>8. WorldTypeOK' /\ InputsTypeOK' /\ BoundsTypeOK'
  BY <1>1, WorldStays, Bounds
<1>. QED
  BY <1>4, <1>5, <1>6, <1>7, <1>8 DEF BaseInv, TypeOK

LEMMA CollectKeeps ==
    ASSUME BaseInv, Collect PROVE BaseInv'
<1>1. /\ UNCHANGED <<world, inputs, plan, begun, moved, unread, edits, canceled>> /\ pc = "program"
      /\ pos <= Len(Rows) /\ cmd.name = "exec" /\ ~cmd.dry /\ PlannedAll /\ faults' \in {faults, faults + 1}
  BY DEF Collect, TakeResult, Fault, BaseInv, Located, Learned, AtRow
<1>. DEFINE row(status) == [Row(status) EXCEPT ![Current].left = leaked]
<1>2. \A status \in Statuses : row(status) \in [Range(Rows) -> RowType]
  <2>. SUFFICES ASSUME NEW status \in Statuses PROVE row(status) \in [Range(Rows) -> RowType]
    OBVIOUS
  <2>1. Row(status) \in [Range(Rows) -> RowType] /\ Current \in Range(Rows)
    BY <1>1, RowKeeps, AtARow
  <2>2. leaked \in BOOLEAN
    BY DEF BaseInv, TypeOK, ProcessTypeOK
  <2>3. [Row(status)[Current] EXCEPT !.left = leaked] \in RowType
    <3>1. Row(status)[Current] \in RowType
      BY <2>1
    <3>. QED
      BY <2>2, <3>1 DEF RowType
  <2>. QED
    BY <2>1, <2>3
<1>3. row("canceled") \in [Range(Rows) -> RowType] /\ row("failed") \in [Range(Rows) -> RowType] /\ row("completed") \in [Range(Rows) -> RowType]
  BY <1>2 DEF Statuses
<1>4. \/ canceled /\ Settle(row("canceled"), Goto("canceling", pos + 1))
      \/ Settle(row("failed"), Goto("turn", pos + 1))
      \/ Settle(row("completed"), Goto("turn", pos + 1))
  BY DEF Collect
<1>. HIDE DEF row
<1>5. RunOK'
  BY <1>1, <1>3, <1>4, SettleKeeps
<1>6. ProcessTypeOK'
  BY DEF Collect, TakeResult, Fresh, BaseInv, TypeOK, ProcessTypeOK
<1>7. GhostsTypeOK'
  BY <1>1, AtARow DEF Collect, BaseInv, TypeOK, GhostsTypeOK
<1>8. WorldTypeOK' /\ InputsTypeOK' /\ BoundsTypeOK'
  BY <1>1, WorldStays, Bounds
<1>. QED
  BY <1>5, <1>6, <1>7, <1>8 DEF BaseInv, TypeOK, RunOK

LEMMA DeliverKeeps ==
    ASSUME BaseInv, Deliver PROVE BaseInv'
<1>. DEFINE whole == [i \in 1..Len(Rows) |-> <<Rows[i], rows[Rows[i]].status>>]
<1>1. /\ UNCHANGED <<world, inputs, pos, plan, rows, result, streamed, broken, ghosts, edits, faults, process_vars>>
      /\ pc' = "done" /\ shown' \in {shown, whole}
  BY DEF Deliver
<1>2. rows \in [Range(Rows) -> RowType] /\ shown \in Seq(Repos \X Statuses)
  BY DEF BaseInv, TypeOK, RunTypeOK
<1>3. whole \in Seq(Repos \X Statuses)
  <2>1. \A i \in 1..Len(Rows) : Rows[i] \in Repos /\ Rows[i] \in Range(Rows)
    BY RunFacts DEF Range
  <2>2. \A i \in 1..Len(Rows) : <<Rows[i], rows[Rows[i]].status>> \in Repos \X Statuses
    BY <1>2, <2>1 DEF RowType
  <2>. QED
    BY <2>2, RunFacts
<1>. HIDE DEF whole
<1>4. RunTypeOK'
  BY <1>1, <1>2, <1>3, SameRun DEF BaseInv, TypeOK, RunTypeOK, Steps
<1>5. Located' /\ Learned'
  BY <1>1, SameRun DEF Located, Learned, AtRow, FetchSteps
<1>6. RunOK'
  BY <1>4, <1>5 DEF RunOK
<1>. QED
  BY <1>1, <1>6, KeptKeeps, GhostsStay

-----------------------------------------------------------------------------
(* Types are kept: fetch                                                    *)
LEMMA FetchBeginKeeps ==
    ASSUME BaseInv, FetchBegin PROVE BaseInv'
<1>1. /\ WorldTypeOK' /\ InputsTypeOK' /\ ProcessTypeOK' /\ GhostsTypeOK' /\ BoundsTypeOK'
      /\ UNCHANGED <<inputs, output, plan>> /\ pc = "begin" /\ Fetching
  BY StartingKeeps DEF FetchBegin
<1>2. rows \in [Range(Rows) -> RowType] /\ plan \in [Repos -> {None} \cup PlanType]
  BY DEF BaseInv, TypeOK, RunTypeOK
<1>3. RunOK'
  <2>1. CASE Return("failed") /\ rows' = Canceled(rows, 1)
    BY <1>1, <1>2, <2>1, ReturnKeeps, CanceledKeeps
  <2>2. CASE Goto("plan", 1) /\ UNCHANGED rows
    <3>1. RunTypeOK'
      BY <1>1, <1>2, <2>2, GotoKeeps, RunFacts DEF Steps
    <3>2. Located' /\ Learned'
      BY <1>1, <2>2, SameRun DEF Goto, Located, Learned, PlannedBefore, AtRow, FetchSteps, inputs, Pushing, Fetching
    <3>. QED
      BY <3>1, <3>2 DEF RunOK
  <2>. QED
    BY <2>1, <2>2 DEF FetchBegin
<1>. QED
  BY <1>1, <1>3 DEF BaseInv, TypeOK, RunOK

\* One more repository is planned.
LEMMA PlanOne ==
    ASSUME BaseInv, UNCHANGED inputs, pos <= Len(Rows), PlannedBefore(pos - 1), NEW entry \in PlanType,
           plan' = [plan EXCEPT ![Current] = entry]
    PROVE  /\ plan' \in [Repos -> {None} \cup PlanType]
           /\ \A i \in 1..pos : plan'[RunOrder[i]] \in PlanType
           /\ pos = Len(Rows) => \A r \in Range(Rows) : plan'[r] \in PlanType
<1>1. plan \in [Repos -> {None} \cup PlanType] /\ pos \in 1..Len(Rows)
  BY RunFacts DEF BaseInv, TypeOK, RunTypeOK
<1>2. Current \in Repos /\ Current = RunOrder[pos]
  BY AtARow DEF Current
<1>3. plan' \in [Repos -> {None} \cup PlanType]
  BY <1>1, <1>2
<1>4. ASSUME NEW i \in 1..pos PROVE plan'[RunOrder[i]] \in PlanType
  <2>1. i \in 1..Len(Rows) /\ RunOrder[i] \in Repos
    BY <1>1, RunFacts
  <2>2. CASE i = pos
    BY <1>1, <1>2, <2>2
  <2>3. CASE i # pos
    <3>1. i \in 1..(pos - 1)
      BY <1>1, <2>3
    <3>2. plan[RunOrder[i]] \in PlanType
      BY <3>1 DEF PlannedBefore
    <3>. QED
      BY <1>1, <1>2, <2>1, <3>2
  <2>. QED
    BY <2>2, <2>3
<1>5. ASSUME pos = Len(Rows), NEW r \in Range(Rows) PROVE plan'[r] \in PlanType
  <2>1. PICK i \in 1..Len(Rows) : RunOrder[i] = r
    BY RunFacts
  <2>. QED
    BY <1>4, <1>5, <2>1
<1>. QED
  BY <1>3, <1>4, <1>5

\* Then comes the next one, or the turns begin.
LEMMA NextPlanned ==
    ASSUME BaseInv, UNCHANGED <<inputs, rows, output>>, pos <= Len(Rows), pc \in {"plan", "compare"}, cmd.name # "exec", PlannedBefore(pos - 1),
           NEW entry \in PlanType, plan' = [plan EXCEPT ![Current] = entry],
           IF pos = Len(RunOrder) THEN Goto("turn", 1) ELSE Goto("plan", pos + 1)
    PROVE  RunOK'
<1>1. /\ plan' \in [Repos -> {None} \cup PlanType]
      /\ \A i \in 1..pos : plan'[RunOrder[i]] \in PlanType
      /\ pos = Len(Rows) => \A r \in Range(Rows) : plan'[r] \in PlanType
  BY PlanOne
<1>2. rows' \in [Range(Rows) -> RowType] /\ pos \in 1..Len(Rows) /\ Len(RunOrder) = Len(Rows) /\ Len(Rows) \in Nat
  <2>1. rows \in [Range(Rows) -> RowType] /\ pos \in 1..(Len(Rows) + 1)
    BY DEF BaseInv, TypeOK, RunTypeOK
  <2>2. rows' = rows
    OBVIOUS
  <2>3. Len(RunOrder) = Len(Rows) /\ Len(Rows) \in Nat
    BY RunFacts
  <2>. QED
    BY <2>1, <2>2, <2>3
<1>3. CASE pos = Len(Rows) /\ Goto("turn", 1)
  <2>1. RunTypeOK'
    BY <1>1, <1>2, <1>3, GotoKeeps DEF Steps
  <2>2. Located' /\ Learned'
    BY <1>1, <1>3, SameRun DEF Goto, Located, Learned, PlannedAll, AtRow, FetchSteps, inputs, Pushing, Fetching
  <2>. QED
    BY <2>1, <2>2 DEF RunOK
<1>4. CASE pos # Len(Rows) /\ Goto("plan", pos + 1)
  <2>1. RunTypeOK'
    BY <1>1, <1>2, <1>4, GotoKeeps DEF Steps
  <2>2. pos' - 1 = pos /\ pos' <= Len(Rows) /\ pc' = "plan" /\ cmd' = cmd
    BY <1>2, <1>4 DEF Goto, inputs
  <2>3. Located'
    BY <2>2, SameRun DEF Located, AtRow, FetchSteps
  <2>5. Learned'
    BY <1>1, <2>2, SameRun DEF Learned, PlannedBefore, FetchSteps
  <2>. QED
    BY <2>1, <2>3, <2>5 DEF RunOK
<1>. QED
  BY <1>2, <1>3, <1>4

LEMMA FetchPlanKeeps ==
    ASSUME BaseInv, FetchPlan PROVE BaseInv'
<1>1. /\ UNCHANGED <<world, inputs, ghosts, edits, process_vars, output>> /\ pc = "plan" /\ Fetching
      /\ faults' \in {faults, faults + 1} /\ pos <= Len(Rows) /\ cmd.name # "exec"
  <2>1. pos <= Len(Rows)
    <3>1. ~Finished
      BY DEF FetchPlan
    <3>2. pos \in 1..(Len(Rows) + 1) /\ Len(RunOrder) = Len(Rows) /\ Len(Rows) \in Nat
      BY RunFacts DEF BaseInv, TypeOK, RunTypeOK
    <3>. QED
      BY <3>1, <3>2 DEF Finished
  <2>. QED
    BY <2>1 DEF FetchPlan, Kept, Fault, Fetching
<1>2. rows \in [Range(Rows) -> RowType] /\ plan \in [Repos -> {None} \cup PlanType] /\ PlannedBefore(pos - 1) /\ Current \in Repos
  BY <1>1, AtARow DEF BaseInv, TypeOK, RunTypeOK, Learned
<1>3. CASE rows' = Canceled(rows, 1) /\ Return("failed") /\ UNCHANGED plan
  <2>1. RunOK'
    BY <1>1, <1>2, <1>3, ReturnKeeps, CanceledKeeps
  <2>. QED
    BY <1>1, <2>1, KeptKeeps, GhostsStay
<1>4. ASSUME NEW entry \in PlanType, plan' = [plan EXCEPT ![Current] = entry], UNCHANGED rows,
             IF pos = Len(RunOrder) THEN Goto("turn", 1) ELSE Goto("plan", pos + 1)
      PROVE  BaseInv'
  <2>1. RunOK'
    BY <1>1, <1>2, <1>4, NextPlanned
  <2>. QED
    BY <1>1, <2>1, KeptKeeps, GhostsStay
<1>5. [ok |-> FALSE] \in PlanType
  BY <1>1 DEF PlanType, FetchPlanned, Fetching
<1>6. Fetchable(Current) => Facts(Current) \in PlanType
  <2>1. checkout[Current] \in CheckoutType
    BY <1>2 DEF BaseInv, TypeOK, WorldTypeOK
  <2>2. Fetchable(Current) => Facts(Current) \in FetchFacts
    BY <2>1 DEF Fetchable, Facts, FetchFacts, CheckoutType
  <2>. QED
    BY <1>1, <2>2 DEF PlanType, FetchPlanned, Fetching
<1>7. \/ rows' = Canceled(rows, 1) /\ Return("failed") /\ UNCHANGED plan
      \/ /\ UNCHANGED rows /\ IF pos = Len(RunOrder) THEN Goto("turn", 1) ELSE Goto("plan", pos + 1)
         /\ \/ Fetchable(Current) /\ plan' = [plan EXCEPT ![Current] = Facts(Current)]
            \/ plan' = [plan EXCEPT ![Current] = [ok |-> FALSE]]
  BY DEF FetchPlan
<1>. QED
  BY <1>3, <1>4, <1>5, <1>6, <1>7

LEMMA FetchTurnKeeps ==
    ASSUME BaseInv, FetchTurn PROVE BaseInv'
<1>1. /\ UNCHANGED <<world, inputs, ghosts, edits, process_vars, plan, faults>> /\ pc = "turn" /\ Fetching
      /\ canceled' = canceled /\ PlannedAll /\ cmd.name = "fetch"
  BY DEF FetchTurn, Kept, process_vars, BaseInv, Learned, Fetching
<1>2. rows \in [Range(Rows) -> RowType] /\ plan' \in [Repos -> {None} \cup PlanType] /\ pos \in 1..(Len(Rows) + 1)
  BY <1>1 DEF BaseInv, TypeOK, RunTypeOK
<1>3. CASE Return(Outcome) /\ UNCHANGED <<rows, output>>
  <2>1. Outcome \in {"failed", "completed"}
    BY DEF Outcome
  <2>2. RunOK'
    BY <1>1, <1>2, <1>3, <2>1, ReturnKeeps
  <2>. QED
    BY <1>1, <2>2, KeptKeeps, GhostsStay
<1>4. CASE ~Finished /\ Settle(Row("failed"), Goto("turn", pos + 1))
  <2>1. pos <= Len(Rows)
    BY <1>2, <1>4, RunFacts DEF Finished
  <2>2. Row("failed") \in [Range(Rows) -> RowType]
    BY RowKeeps DEF Statuses
  <2>3. RunOK'
    BY <1>1, <1>4, <2>1, <2>2, SettleKeeps
  <2>. QED
    BY <1>1, <2>3, KeptKeeps, GhostsStay
<1>5. CASE ~Finished /\ plan[Current].ok /\ UNCHANGED <<rows, output>> /\ Goto(IF canceled THEN "canceling" ELSE "recheck", pos)
  <2>1. pos <= Len(Rows)
    BY <1>2, <1>5, RunFacts DEF Finished
  <2>2. Current \in Range(Rows) /\ Current' = Current
    BY <2>1, <1>1, <1>5, AtARow, SameRun DEF Goto, Current
  <2>3. plan[Current] \in FetchFacts
    <3>1. plan[Current] \in FetchPlanned
      BY <1>1, <2>2 DEF PlannedAll, PlanType
    <3>2. \A p \in [ok : {FALSE}] : p.ok = FALSE
      OBVIOUS
    <3>. QED
      BY <1>5, <3>1, <3>2 DEF FetchPlanned
  <2>4. RunTypeOK'
    BY <1>1, <1>2, <1>5, GotoKeeps DEF Steps, FetchSteps
  <2>5. Located' /\ Learned'
    BY <1>1, <1>5, <2>1, <2>2, <2>3, SameRun DEF Goto, Located, Learned, PlannedAll, AtRow, FetchSteps, inputs, Pushing, Fetching
  <2>6. RunOK'
    BY <2>4, <2>5 DEF RunOK
  <2>. QED
    BY <1>1, <2>6, KeptKeeps, GhostsStay
<1>. QED
  BY <1>3, <1>4, <1>5 DEF FetchTurn

\* What holds while a command is at a row of fetch.
LEMMA AtFetch ==
    ASSUME BaseInv, pc \in FetchSteps
    PROVE  /\ Fetching /\ cmd.name = "fetch" /\ pos <= Len(Rows) /\ PlannedAll /\ plan[Current] \in FetchFacts /\ Current \in Range(Rows)
           /\ rows \in [Range(Rows) -> RowType] /\ plan \in [Repos -> {None} \cup PlanType] /\ pos \in 1..(Len(Rows) + 1)
           /\ Ref \in {"own", "other"} /\ tracking[Current][Ref] \in Commits
           /\ Advertised(Current, Ref) \in Commits \cup {None} /\ Current \in Repos
<1>1. /\ Fetching /\ cmd.name = "fetch" /\ pos <= Len(Rows) /\ PlannedAll /\ plan[Current] \in FetchFacts
      /\ rows \in [Range(Rows) -> RowType] /\ plan \in [Repos -> {None} \cup PlanType] /\ pos \in 1..(Len(Rows) + 1)
  BY DEF BaseInv, TypeOK, RunTypeOK, Located, Learned, AtRow, Fetching
<1>2. Current \in Range(Rows) /\ Current \in Repos
  BY <1>1, AtARow
<1>3. Ref \in {"own", "other"}
  BY <1>1 DEF Ref, FetchFacts
<1>4. tracking[Current] \in TrackingType /\ remote[Current] \in RemoteType
  BY <1>2 DEF BaseInv, TypeOK, WorldTypeOK
<1>. QED
  BY <1>1, <1>2, <1>3, <1>4 DEF TrackingType, RemoteType, Advertised

LEMMA RecheckKeeps ==
    ASSUME BaseInv, Recheck PROVE BaseInv'
<1>1. /\ UNCHANGED <<world, inputs, ghosts, edits, process_vars, plan>> /\ pc = "recheck"
      /\ canceled' = canceled /\ pc \in FetchSteps /\ faults' \in {faults, faults + 1}
  BY DEF Recheck, Kept, process_vars, Fault, FetchSteps
<1>2. /\ Fetching /\ cmd.name = "fetch" /\ pos <= Len(Rows) /\ PlannedAll /\ plan[Current] \in FetchFacts /\ Current \in Range(Rows)
      /\ rows \in [Range(Rows) -> RowType] /\ plan' \in [Repos -> {None} \cup PlanType] /\ pos \in 1..(Len(Rows) + 1)
  BY <1>1, AtFetch
<1>3. CASE Settle(Row("failed"), Goto("turn", pos + 1))
  <2>1. Row("failed") \in [Range(Rows) -> RowType]
    BY RowKeeps DEF Statuses
  <2>2. RunOK'
    BY <1>1, <1>2, <1>3, <2>1, SettleKeeps
  <2>. QED
    BY <1>1, <2>2, KeptKeeps, GhostsStay
<1>4. ASSUME rows' \in [Range(Rows) -> RowType], UNCHANGED output, Goto("network", pos) \/ (canceled /\ Goto("canceling", pos))
      PROVE  BaseInv'
  <2>1. RunTypeOK'
    BY <1>1, <1>2, <1>4, GotoKeeps DEF Steps, FetchSteps
  <2>2. Current' = Current
    BY <1>1, <1>4, SameRun DEF Goto, Current
  <2>3. Located' /\ Learned'
    BY <1>1, <1>2, <1>4, <2>2, SameRun DEF Goto, Located, Learned, PlannedAll, AtRow, FetchSteps, inputs, Pushing, Fetching
  <2>4. RunOK'
    BY <2>1, <2>3 DEF RunOK
  <2>. QED
    BY <1>1, <2>4, KeptKeeps, GhostsStay
<1>5. [rows EXCEPT ![Current].head = plan[Current].head] \in [Range(Rows) -> RowType]
  BY <1>2, ZenonT(60) DEF RowType, FetchFacts
<1>. QED
  BY <1>2, <1>3, <1>4, <1>5 DEF Recheck

\* A settled row of fetch.
LEMMA FetchSettles ==
    ASSUME BaseInv, pc \in FetchSteps, UNCHANGED <<inputs, plan>>, canceled' = canceled,
           NEW rs \in [Range(Rows) -> RowType], NEW where \in {"turn", "canceling"}, where = "canceling" => canceled,
           Settle(rs, Goto(where, pos + 1))
    PROVE  RunOK'
<1>1. PlannedAll /\ pos <= Len(Rows) /\ cmd.name = "fetch"
  BY AtFetch
<1>. QED
  BY <1>1, SettleKeeps

LEMMA ObserveKeeps ==
    ASSUME BaseInv, Observe PROVE BaseInv'
<1>1. /\ UNCHANGED <<world, inputs, edits, process_vars, plan>> /\ pc = "network" /\ cmd.dry
      /\ canceled' = canceled /\ pc \in FetchSteps
  BY DEF Observe, process_vars, FetchSteps
<1>2. /\ pos <= Len(Rows) /\ PlannedAll /\ plan[Current] \in FetchFacts /\ Current \in Range(Rows) /\ Current \in Repos
      /\ rows \in [Range(Rows) -> RowType] /\ plan' \in [Repos -> {None} \cup PlanType] /\ pos \in 1..(Len(Rows) + 1)
      /\ Advertised(Current, Ref) \in Commits \cup {None}
  BY <1>1, AtFetch
<1>3. CASE canceled /\ Goto("canceling", pos) /\ UNCHANGED <<rows, output, faults, ghosts>>
  <2>1. RunTypeOK'
    BY <1>1, <1>2, <1>3, GotoKeeps DEF Steps
  <2>2. Located' /\ Learned'
    BY <1>1, <1>3, SameRun DEF Goto, Located, Learned, AtRow, FetchSteps, inputs, Pushing, Fetching
  <2>3. RunOK'
    BY <2>1, <2>2 DEF RunOK
  <2>. QED
    BY <1>1, <1>3, <2>3, KeptKeeps, GhostsStay
<1>4. CASE Begins(Current) /\ faults' \in {faults, faults + 1}
           /\ \/ /\ Advertised(Current, Ref) # None
                 /\ Settle(Got("completed", Advertised(Current, Ref)), Goto("turn", pos + 1))
              \/ Settle(Row("failed"), Goto("turn", pos + 1))
  <2>1. Row("failed") \in [Range(Rows) -> RowType]
    BY RowKeeps DEF Statuses
  <2>2. Advertised(Current, Ref) # None => Got("completed", Advertised(Current, Ref)) \in [Range(Rows) -> RowType]
    BY <1>2, GotKeeps DEF Statuses
  <2>3. RunOK'
    BY <1>1, <1>4, <2>1, <2>2, FetchSettles
  <2>4. GhostsTypeOK'
    BY <1>2, <1>4 DEF Begins, BaseInv, TypeOK, GhostsTypeOK
  <2>. QED
    BY <1>1, <1>4, <2>3, <2>4, KeptKeeps
<1>. QED
  BY <1>3, <1>4 DEF Observe, Fault

LEMMA StartFetchKeeps ==
    ASSUME BaseInv, StartFetch PROVE BaseInv'
<1>1. /\ UNCHANGED <<world, inputs, edits, process_vars, plan>> /\ pc = "network" /\ ~cmd.dry
      /\ canceled' = canceled /\ pc \in FetchSteps
  BY DEF StartFetch, process_vars, FetchSteps
<1>2. /\ pos <= Len(Rows) /\ PlannedAll /\ plan[Current] \in FetchFacts /\ Current \in Range(Rows) /\ Current \in Repos
      /\ rows \in [Range(Rows) -> RowType] /\ plan' \in [Repos -> {None} \cup PlanType] /\ pos \in 1..(Len(Rows) + 1)
  BY <1>1, AtFetch
<1>3. CASE /\ UNCHANGED ghosts /\ faults' \in {faults, faults + 1}
           /\ \/ canceled /\ Settle(Row("canceled"), Goto("canceling", pos + 1))
              \/ Settle(Row("failed"), Goto("turn", pos + 1))
  <2>1. Row("failed") \in [Range(Rows) -> RowType] /\ Row("canceled") \in [Range(Rows) -> RowType]
    BY RowKeeps DEF Statuses
  <2>2. RunOK'
    BY <1>1, <1>3, <2>1, FetchSettles
  <2>. QED
    BY <1>1, <1>3, <2>2, KeptKeeps, GhostsStay
<1>4. CASE Begins(Current) /\ Goto("fetching", pos) /\ UNCHANGED <<rows, output, faults>>
  <2>1. RunTypeOK'
    BY <1>1, <1>2, <1>4, GotoKeeps DEF Steps, FetchSteps
  <2>2. Current' = Current
    BY <1>1, <1>4, SameRun DEF Goto, Current
  <2>3. Located' /\ Learned'
    BY <1>1, <1>2, <1>4, <2>2, AtFetch, SameRun DEF Goto, Located, Learned, PlannedAll, AtRow, FetchSteps, inputs, Pushing, Fetching
  <2>4. RunOK'
    BY <2>1, <2>3 DEF RunOK
  <2>5. GhostsTypeOK'
    BY <1>2, <1>4 DEF Begins, BaseInv, TypeOK, GhostsTypeOK
  <2>. QED
    BY <1>1, <1>4, <2>4, <2>5, KeptKeeps
<1>. QED
  BY <1>3, <1>4 DEF StartFetch, Fault

LEMMA FetchingKeeps ==
    ASSUME BaseInv, RefMoves \/ FetchBreaks PROVE BaseInv'
<1>1. /\ UNCHANGED <<inputs, edits, process_vars, plan, rows, output>> /\ pc = "fetching" /\ UNCHANGED <<checkout, remote, been, advertised>>
      /\ canceled' = canceled /\ pc \in FetchSteps /\ faults' \in {faults, faults + 1}
      /\ Goto("fetched", pos) \/ Goto("unfetched", pos)
  BY DEF RefMoves, FetchBreaks, process_vars, FetchSteps, Kept, Fault, world
<1>2. /\ pos <= Len(Rows) /\ PlannedAll /\ plan[Current] \in FetchFacts /\ Current \in Range(Rows) /\ Current \in Repos
      /\ rows' \in [Range(Rows) -> RowType] /\ plan' \in [Repos -> {None} \cup PlanType] /\ pos \in 1..(Len(Rows) + 1)
      /\ Advertised(Current, Ref) \in Commits \cup {None} /\ Ref \in {"own", "other"} /\ Fetching /\ ~cmd.dry
  BY <1>1, AtFetch DEF BaseInv, Located
<1>3. RunTypeOK'
  BY <1>1, <1>2, GotoKeeps DEF Steps, FetchSteps
<1>4. Current' = Current
  BY <1>1, SameRun DEF Goto, Current
<1>5. Located' /\ Learned'
  BY <1>1, <1>2, <1>4, SameRun DEF Goto, Located, Learned, PlannedAll, AtRow, FetchSteps, inputs, Pushing, Fetching
<1>6. tracking' \in [Repos -> TrackingType]
  <2>1. tracking \in [Repos -> TrackingType]
    BY DEF BaseInv, TypeOK, WorldTypeOK
  <2>2. CASE RefMoves
    <3>1. Advertised(Current, Ref) \in Commits /\ tracking' = [tracking EXCEPT ![Current][Ref] = Advertised(Current, Ref)]
      BY <1>2, <2>2 DEF RefMoves
    <3>2. [tracking[Current] EXCEPT ![Ref] = Advertised(Current, Ref)] \in TrackingType
      BY <1>2, <2>1, <3>1 DEF TrackingType
    <3>. QED
      BY <2>1, <3>1, <3>2
  <2>3. CASE FetchBreaks
    BY <2>1, <2>3 DEF FetchBreaks, Kept, world
  <2>. QED
    BY <2>2, <2>3
<1>7. GhostsTypeOK'
  BY <1>2 DEF RefMoves, FetchBreaks, Kept, ghosts, BaseInv, TypeOK, GhostsTypeOK
<1>8. WorldTypeOK' /\ InputsTypeOK'
  BY <1>1, <1>6 DEF BaseInv, TypeOK, WorldTypeOK, InputsTypeOK, inputs
<1>9. ProcessTypeOK' /\ BoundsTypeOK'
  BY <1>1, ProcessStays, Bounds
<1>. QED
  BY <1>3, <1>5, <1>7, <1>8, <1>9 DEF BaseInv, TypeOK

LEMMA FetchReturnsKeeps ==
    ASSUME BaseInv, FetchReturns PROVE BaseInv'
<1>1. /\ UNCHANGED <<world, inputs, begun, moved, abandoned, edits, process_vars, plan>> /\ pc \in {"fetched", "unfetched"}
      /\ canceled' = canceled /\ pc \in FetchSteps
  BY DEF FetchReturns, process_vars, FetchSteps
<1>2. /\ pos <= Len(Rows) /\ PlannedAll /\ Current \in Range(Rows) /\ Current \in Repos /\ tracking[Current][Ref] \in Commits
  BY <1>1, AtFetch
<1>. DEFINE where == IF canceled THEN "canceling" ELSE "turn"
            status == IF canceled THEN "canceled" ELSE IF pc = "unfetched" THEN "failed" ELSE "completed"
<1>3. status \in Statuses /\ "failed" \in Statuses /\ "canceled" \in Statuses /\ where \in {"turn", "canceling"}
      /\ (where = "canceling" => canceled)
  BY DEF Statuses
<1>4. /\ Got(status, tracking[Current][Ref]) \in [Range(Rows) -> RowType]
      /\ Got("failed", tracking[Current][Ref]) \in [Range(Rows) -> RowType]
      /\ Row(IF canceled THEN "canceled" ELSE "failed") \in [Range(Rows) -> RowType]
  BY <1>2, <1>3, GotKeeps, RowKeeps
<1>5. /\ faults' \in {faults, faults + 1} /\ unread' \in {unread, unread \cup {Current}}
      /\ \/ Settle(Got(status, tracking[Current][Ref]), Goto(where, pos + 1))
         \/ Settle(Got("failed", tracking[Current][Ref]), Goto(where, pos + 1))
         \/ Settle(Row(IF canceled THEN "canceled" ELSE "failed"), Goto(where, pos + 1))
  BY DEF FetchReturns, Fault
<1>. HIDE DEF where, status
<1>6. RunOK'
  BY <1>1, <1>3, <1>4, <1>5, FetchSettles
<1>7. GhostsTypeOK'
  BY <1>1, <1>2, <1>5 DEF BaseInv, TypeOK, GhostsTypeOK
<1>. QED
  BY <1>1, <1>5, <1>6, <1>7, KeptKeeps

-----------------------------------------------------------------------------
(* Types are kept: push                                                     *)
\* The rows of push are all repositories.
LEMMA PushRows ==
    ASSUME BaseInv, Pushing
    PROVE  /\ Range(Rows) = Repos /\ Len(Rows) >= 1 /\ cmd.name = "push" /\ ~cmd.dry /\ PlanType = PushPlan
           /\ Base \in Repos
<1>1. cmd.name = "push" /\ ~cmd.dry /\ PlanType = PushPlan
  BY RecordFacts DEF Pushing, BaseInv, TypeOK, PlanType
<1>2. Range(Rows) = Repos
  BY <1>1, RunFacts DEF Selected
<1>3. Base \in Repos
  BY OrderAssumption DEF Base, Repos, Range
<1>4. Len(Rows) >= 1
  BY <1>2, <1>3, RunFacts
<1>. QED
  BY <1>1, <1>2, <1>3, <1>4

LEMMA BlockedKeeps ==
    ASSUME NEW row \in RowType, NEW codes \in SUBSET Findings
    PROVE  Blocked(row, codes) \in RowType
<1>1. row.findings \cup codes \in SUBSET Findings /\ row.status \in Statuses
  BY DEF RowType
<1>. QED
  BY <1>1 DEF Blocked, RowType, Statuses

LEMMA NewRowTyped ==
    ASSUME NEW r PROVE NewRow(r) \in RowType
  BY DEF NewRow, RowType, Unsettled, Statuses, Commits

LEMMA PushBeginKeeps ==
    ASSUME BaseInv, PushBegin PROVE BaseInv'
<1>1. /\ UNCHANGED plan /\ pc = "begin" /\ Pushing /\ Starting
  BY DEF PushBegin
<1>2. /\ WorldTypeOK' /\ InputsTypeOK' /\ ProcessTypeOK' /\ GhostsTypeOK' /\ BoundsTypeOK'
      /\ canceled' = canceled /\ UNCHANGED <<inputs, output>>
  BY <1>1, StartingKeeps
<1>3. rows \in [Range(Rows) -> RowType] /\ plan \in [Repos -> {None} \cup PlanType]
  BY DEF BaseInv, TypeOK, RunTypeOK
<1>4. RunOK'
  <2>1. CASE UNCHANGED rows /\ ((canceled /\ Goto("canceling", 1)) \/ Goto("plan", 1))
    <3>1. RunTypeOK'
      BY <1>1, <1>2, <1>3, <2>1, GotoKeeps, RunFacts DEF Steps
    <3>2. Located' /\ Learned'
      BY <1>1, <1>2, <2>1, PushRows, SameRun DEF Goto, Located, Learned, PlannedBefore, AtRow, FetchSteps, inputs, Pushing, Fetching
    <3>. QED
      BY <3>1, <3>2 DEF RunOK
  <2>2. CASE rows' = [r \in DOMAIN rows |-> [rows[r] EXCEPT !.status = "failed"]] /\ Return("failed")
    <3>1. \A r \in Range(Rows) : [rows[r] EXCEPT !.status = "failed"] \in RowType
      BY <1>3 DEF RowType, Statuses
    <3>2. rows' \in [Range(Rows) -> RowType]
      BY <1>3, <2>2, <3>1
    <3>. QED
      BY <1>1, <1>2, <2>2, <3>2, ReturnKeeps
  <2>. QED
    BY <2>1, <2>2 DEF PushBegin
<1>. QED
  BY <1>2, <1>4 DEF BaseInv, TypeOK, RunOK

LEMMA PushLookKeeps ==
    ASSUME BaseInv, PushLook PROVE BaseInv'
<1>1. /\ UNCHANGED <<world, inputs, ghosts, edits, process_vars, output, rows>> /\ pc = "plan" /\ Pushing
      /\ faults' \in {faults, faults + 1} /\ canceled' = canceled
  BY DEF PushLook, Kept, Fault, process_vars
<1>2. /\ pos <= Len(Rows) /\ cmd.name # "exec" /\ cmd.name = "push" /\ ~cmd.dry /\ PlanType = PushPlan /\ PlannedBefore(pos - 1)
  BY <1>1, PushRows DEF BaseInv, Located, Learned
<1>3. /\ Current \in Repos /\ rows \in [Range(Rows) -> RowType] /\ plan \in [Repos -> {None} \cup PlanType]
      /\ pos \in 1..(Len(Rows) + 1)
  BY <1>2, AtARow DEF BaseInv, TypeOK, RunTypeOK
<1>4. checkout[Current].at \in Commits
  BY <1>3 DEF BaseInv, TypeOK, WorldTypeOK, CheckoutType
<1>5. ASSUME NEW entry \in PlanType, plan' = [plan EXCEPT ![Current] = entry], NextLocal
      PROVE  RunOK'
  BY <1>1, <1>2, <1>5, NextPlanned DEF NextLocal
<1>6. \A row \in RowType, codes \in SUBSET Findings, detached \in BOOLEAN : Local(Blocked(row, codes), detached, FALSE) \in PlanType
  BY <1>2, BlockedKeeps DEF Local, PushPlan
<1>7. Partial \in SUBSET Findings
  BY DEF Partial, Findings
<1>. DEFINE r == Current
            c == checkout[r]
            row == [NewRow(r) EXCEPT !.head = c.at]
            found == If(c.dir # "own", "identity-mismatch")
                     \cup If(c.branch = "none", "detached") \cup If(c.branch = "other", "identity-mismatch")
<1>8. NewRow(r) \in RowType /\ row \in RowType /\ [NewRow(r) EXCEPT !.status = "failed"] \in RowType
  BY <1>4, NewRowTyped DEF RowType, Statuses
<1>9. found \in SUBSET Findings
  BY DEF If, Findings
<1>. HIDE DEF found, row
<1>10. CASE Goto("canceling", 1) /\ canceled /\ UNCHANGED plan
  <2>1. RunTypeOK'
    BY <1>1, <1>3, <1>10, GotoKeeps, RunFacts DEF Steps
  <2>2. Located' /\ Learned'
    BY <1>1, <1>2, <1>10, SameRun DEF Goto, Located, Learned, AtRow, FetchSteps, inputs, Pushing, Fetching
  <2>3. RunOK'
    BY <2>1, <2>2 DEF RunOK
  <2>. QED
    BY <1>1, <2>3, KeptKeeps, GhostsStay
<1>11. CASE NextLocal /\ \/ plan' = [plan EXCEPT ![r] = Local(Blocked(NewRow(r), {"missing-repository"}), FALSE, FALSE)]
                         \/ plan' = [plan EXCEPT ![r] = Local(Blocked(NewRow(r), {"missing-repository"} \cup Partial), FALSE, FALSE)]
                         \/ plan' = [plan EXCEPT ![r] = Local(Blocked([NewRow(r) EXCEPT !.status = "failed"], Partial), FALSE, FALSE)]
  <2>1. {"missing-repository"} \in SUBSET Findings /\ {"missing-repository"} \cup Partial \in SUBSET Findings
    BY <1>7 DEF Findings
  <2>2. RunOK'
    BY <1>5, <1>6, <1>7, <1>8, <1>11, <2>1
  <2>. QED
    BY <1>1, <2>2, KeptKeeps, GhostsStay
<1>12. CASE plan' = [plan EXCEPT ![r] = Local(Blocked(row, found), c.branch = "none", FALSE)] /\ Goto("compare", pos)
  <2>1. Local(Blocked(row, found), c.branch = "none", FALSE) \in PlanType
    BY <1>6, <1>8, <1>9
  <2>2. /\ plan' \in [Repos -> {None} \cup PlanType]
        /\ \A i \in 1..pos : plan'[RunOrder[i]] \in PlanType
    BY <1>1, <1>2, <1>12, <2>1, PlanOne
  <2>3. RunTypeOK'
    BY <1>1, <1>3, <1>12, <2>2, GotoKeeps DEF Steps
  <2>4. Located'
    BY <1>1, <1>2, <1>12, SameRun DEF Goto, Located, AtRow, FetchSteps, inputs, Pushing, Fetching
  <2>5. Learned'
    <3>1. pc' = "compare" /\ pos' = pos
      BY <1>12 DEF Goto
    <3>2. cmd' = cmd /\ cmd.name # "exec"
      BY <1>1, <1>2 DEF inputs
    <3>3. PlannedBefore(pos)'
      BY <1>1, <2>2, <3>1, SameRun DEF PlannedBefore
    <3>. QED
      BY <3>1, <3>2, <3>3 DEF Learned, FetchSteps
  <2>6. RunOK'
    BY <2>3, <2>4, <2>5 DEF RunOK
  <2>. QED
    BY <1>1, <2>6, KeptKeeps, GhostsStay
<1>. QED
  BY <1>10, <1>11, <1>12 DEF PushLook, row, found

LEMMA PushCompareKeeps ==
    ASSUME BaseInv, PushCompare PROVE BaseInv'
<1>1. /\ UNCHANGED <<world, inputs, ghosts, edits, process_vars, output, rows>> /\ pc = "compare"
      /\ faults' \in {faults, faults + 1} /\ canceled' = canceled
  BY DEF PushCompare, Kept, Fault, process_vars
<1>2. /\ pos <= Len(Rows) /\ cmd.name # "exec" /\ Pushing /\ PlanType = PushPlan /\ PlannedBefore(pos)
  BY <1>1, PushRows DEF BaseInv, Located, Learned, AtRow
<1>3. /\ Current \in Repos /\ rows \in [Range(Rows) -> RowType] /\ plan \in [Repos -> {None} \cup PlanType]
      /\ pos \in 1..Len(Rows)
  BY <1>2, AtARow, RunFacts DEF BaseInv, TypeOK, RunTypeOK
<1>4. plan[Current] \in PushPlan
  BY <1>2, <1>3 DEF PlannedBefore, Current
<1>5. PlannedBefore(pos - 1)
  BY <1>2, <1>3 DEF PlannedBefore
<1>6. Partial \in SUBSET Findings
  BY DEF Partial, Findings
<1>. DEFINE r == Current
            c == checkout[r]
            before == plan[r].row
            status == If(~c.clean, "dirty") \cup If(c.at = 0, "metadata-commit-unavailable")
            unset == c.branch = "none" \/ c.upstream = "none"
            upstream == Distance(c.at, tracking[r][c.upstream])
                        \cup If(c.branch # "own" \/ c.upstream # "own", "identity-mismatch")
            codes == status \cup IF plan[r].detached THEN {}
                                 ELSE IF unset THEN {"missing-upstream"} ELSE upstream
            row == Blocked(before, codes)
            observe == ~plan[r].detached /\ ~unset /\ row.findings \cap NoAuthority = {}
<1>7. before \in RowType /\ plan[r].detached \in BOOLEAN /\ [before EXCEPT !.status = "failed"] \in RowType
  BY <1>4 DEF PushPlan, RowType, Statuses
<1>8. status \in SUBSET Findings
  BY DEF If, Findings
<1>9. upstream \in SUBSET Findings
  BY DEF If, Findings, Distance
<1>10. {"missing-upstream"} \in SUBSET Findings
  BY DEF Findings
<1>11. codes \in SUBSET Findings
  <2>. HIDE DEF status, upstream, unset
  <2>. QED
    BY <1>8, <1>9, <1>10
<1>12. row \in RowType
  <2>. HIDE DEF codes, before
  <2>. QED
    BY <1>7, <1>11, BlockedKeeps
<1>13. Local(Blocked(row, Partial), plan[r].detached, observe) \in PlanType
  <2>1. observe \in BOOLEAN
    OBVIOUS
  <2>. HIDE DEF row, observe
  <2>2. Blocked(row, Partial) \in RowType
    BY <1>6, <1>12, BlockedKeeps
  <2>. QED
    BY <1>2, <1>7, <2>1, <2>2 DEF Local, PushPlan
<1>14. Local(Blocked([before EXCEPT !.status = "failed"], Partial), plan[r].detached, FALSE) \in PlanType
  <2>. HIDE DEF before
  <2>1. Blocked([before EXCEPT !.status = "failed"], Partial) \in RowType
    BY <1>6, <1>7, BlockedKeeps
  <2>. QED
    BY <1>2, <1>7, <2>1 DEF Local, PushPlan
<1>15. ASSUME NEW entry \in PlanType, plan' = [plan EXCEPT ![Current] = entry], NextLocal
       PROVE  BaseInv'
  <2>1. RunOK'
    BY <1>1, <1>2, <1>5, <1>15, NextPlanned DEF NextLocal
  <2>. QED
    BY <1>1, <2>1, KeptKeeps, GhostsStay
<1>16. CASE Goto("canceling", 1) /\ canceled /\ UNCHANGED plan
  <2>1. RunTypeOK'
    BY <1>1, <1>3, <1>16, GotoKeeps, RunFacts DEF Steps
  <2>2. Located' /\ Learned'
    BY <1>1, <1>2, <1>16, SameRun, SMTT(30) DEF Goto, Located, Learned, AtRow, FetchSteps, inputs, Pushing, Fetching
  <2>3. RunOK'
    BY <2>1, <2>2 DEF RunOK
  <2>. QED
    BY <1>1, <2>3, KeptKeeps, GhostsStay
<1>17. \/ Goto("canceling", 1) /\ canceled /\ UNCHANGED plan
       \/ NextLocal /\ plan' = [plan EXCEPT ![r] = Local(Blocked(row, Partial), plan[r].detached, observe)]
       \/ NextLocal /\ plan' = [plan EXCEPT ![r] =
              Local(Blocked([before EXCEPT !.status = "failed"], Partial), plan[r].detached, FALSE)]
  BY DEF PushCompare
<1>. HIDE DEF before, row, observe
<1>. QED
  BY <1>13, <1>14, <1>15, <1>16, <1>17

LEMMA PushSettles ==
    ASSUME BaseInv, Pushing, UNCHANGED <<inputs, plan>>, canceled' = canceled, pos <= Len(Rows), PlannedAll,
           NEW row \in RowType, PushSettle(row)
    PROVE  RunOK'
<1>1. rows \in [Range(Rows) -> RowType] /\ pos \in 1..(Len(Rows) + 1) /\ plan \in [Repos -> {None} \cup PlanType]
      /\ shown \in Seq(Repos \X Statuses) /\ streamed \in BOOLEAN /\ result \in {"none", "refused", "planned"} \cup Statuses
  BY DEF BaseInv, TypeOK, RunTypeOK
<1>. DEFINE rs == [rows EXCEPT ![Current] = row]
<1>2. rs \in [Range(Rows) -> RowType]
  BY <1>1
<1>3. CASE Settle(rs, Goto("turn", pos + 1))
  <2>1. cmd.name = "push"
    BY DEF Pushing
  <2>. HIDE DEF rs
  <2>. QED
    BY <1>2, <1>3, <2>1, SettleKeeps
<1>4. CASE /\ canceled /\ broken' = TRUE /\ UNCHANGED <<shown, streamed>>
           /\ rows' = CanceledBefore(pos + 1) /\ Goto("canceling", pos + 1)
  <2>1. rows' \in [Range(Rows) -> RowType]
    BY <1>4, CanceledBeforeKeeps
  <2>2. pc' = "canceling" /\ pos' = pos + 1 /\ result' = result
    BY <1>4 DEF Goto
  <2>3. pos' \in 1..(Len(Rows) + 1)
    BY <1>1, <2>2, RunFacts
  <2>4. RunTypeOK'
    BY <1>1, <1>4, <2>1, <2>2, <2>3, SameRun DEF RunTypeOK, Steps
  <2>5. Located' /\ Learned'
    BY <1>4, <2>2, SameRun DEF Located, Learned, AtRow, FetchSteps, inputs, Pushing
  <2>. QED
    BY <2>4, <2>5 DEF RunOK
<1>. QED
  BY <1>3, <1>4 DEF PushSettle

LEMMA CancelPushKeeps ==
    ASSUME BaseInv, Pushing, UNCHANGED <<inputs, plan>>, canceled' = canceled, canceled, CancelPush
    PROVE  RunOK'
<1>1. rows' \in [Range(Rows) -> RowType]
  BY CanceledBeforeKeeps DEF CancelPush
<1>2. pos \in 1..(Len(Rows) + 1) /\ plan' \in [Repos -> {None} \cup PlanType]
  BY DEF BaseInv, TypeOK, RunTypeOK
<1>3. RunTypeOK'
  BY <1>1, <1>2, GotoKeeps DEF CancelPush, Steps
<1>4. Located' /\ Learned'
  BY SameRun DEF CancelPush, Goto, Located, Learned, AtRow, FetchSteps, inputs, Pushing
<1>. QED
  BY <1>3, <1>4 DEF RunOK

LEMMA PushTurnKeeps ==
    ASSUME BaseInv, PushTurn PROVE BaseInv'
<1>1. /\ UNCHANGED <<world, inputs, ghosts, edits, process_vars, plan, faults>> /\ pc = "turn" /\ Pushing
      /\ canceled' = canceled /\ PlannedAll
  BY DEF PushTurn, Kept, process_vars, BaseInv, Learned
<1>2. rows \in [Range(Rows) -> RowType] /\ plan' \in [Repos -> {None} \cup PlanType] /\ pos \in 1..(Len(Rows) + 1) /\ PlanType = PushPlan
  BY <1>1, PushRows DEF BaseInv, TypeOK, RunTypeOK
<1>3. CASE Return(PushOutcome) /\ UNCHANGED <<rows, output>>
  <2>1. PushOutcome \in {"failed", "blocked", "ready"}
    BY DEF PushOutcome
  <2>2. RunOK'
    BY <1>1, <1>2, <1>3, <2>1, ReturnKeeps
  <2>. QED
    BY <1>1, <2>2, KeptKeeps, GhostsStay
<1>4. CASE canceled /\ CancelPush
  <2>1. RunOK'
    BY <1>1, <1>4, CancelPushKeeps
  <2>. QED
    BY <1>1, <2>1, KeptKeeps, GhostsStay
<1>5. CASE ~Finished /\ Goto("observe", pos) /\ UNCHANGED <<rows, output>>
  <2>1. pos <= Len(Rows)
    BY <1>2, <1>5, RunFacts DEF Finished
  <2>2. RunTypeOK'
    BY <1>1, <1>2, <1>5, GotoKeeps DEF Steps, FetchSteps
  <2>3. Located' /\ Learned'
    BY <1>1, <1>5, <2>1, PushRows, SameRun DEF Goto, Located, Learned, PlannedAll, AtRow, FetchSteps, inputs, Pushing, Fetching
  <2>4. RunOK'
    BY <2>2, <2>3 DEF RunOK
  <2>. QED
    BY <1>1, <2>4, KeptKeeps, GhostsStay
<1>6. CASE ~Finished /\ PushSettle(plan[Current].row)
  <2>1. pos <= Len(Rows)
    BY <1>2, <1>6, RunFacts DEF Finished
  <2>2. Current \in Range(Rows)
    BY <2>1, AtARow
  <2>3. plan[Current].row \in RowType
    BY <1>1, <1>2, <2>2 DEF PlannedAll, PushPlan
  <2>4. RunOK'
    BY <1>1, <1>6, <2>1, <2>3, PushSettles
  <2>. QED
    BY <1>1, <2>4, KeptKeeps, GhostsStay
<1>. QED
  BY <1>3, <1>4, <1>5, <1>6 DEF PushTurn

LEMMA PushObserveKeeps ==
    ASSUME BaseInv, PushObserve PROVE BaseInv'
<1>1. /\ UNCHANGED <<world, inputs, edits, process_vars, plan>> /\ pc = "observe" /\ Pushing
      /\ canceled' = canceled /\ PlannedAll /\ pos <= Len(Rows)
  BY DEF PushObserve, process_vars, BaseInv, Located, Learned, AtRow
<1>2. plan \in [Repos -> {None} \cup PlanType] /\ PlanType = PushPlan /\ Current \in Range(Rows) /\ Current \in Repos
  BY <1>1, PushRows, AtARow DEF BaseInv, TypeOK, RunTypeOK
<1>3. CASE canceled /\ CancelPush /\ UNCHANGED <<faults, ghosts>>
  <2>1. RunOK'
    BY <1>1, <1>3, CancelPushKeeps
  <2>. QED
    BY <1>1, <1>3, <2>1, KeptKeeps, GhostsStay
<1>. DEFINE row == plan[Current].row
            tip == remote[Current].own
<1>4. row \in RowType /\ tip \in Commits \cup {None}
  BY <1>1, <1>2 DEF PlannedAll, PushPlan, BaseInv, TypeOK, WorldTypeOK, RemoteType
<1>5. ASSUME NEW settled \in RowType, PushSettle(settled), Begins(Current), faults' \in {faults, faults + 1} PROVE BaseInv'
  <2>1. RunOK'
    BY <1>1, <1>5, PushSettles
  <2>2. GhostsTypeOK'
    BY <1>2, <1>5 DEF Begins, BaseInv, TypeOK, GhostsTypeOK
  <2>. QED
    BY <1>1, <1>5, <2>1, <2>2, KeptKeeps
<1>6. /\ tip # None => Blocked([row EXCEPT !.got = tip], If(tip # row.head, "unpublished-head")) \in RowType
      /\ Blocked(row, {"unpublished-head"}) \in RowType
      /\ [row EXCEPT !.status = "failed"] \in RowType
  <2>1. If(tip # row.head, "unpublished-head") \in SUBSET Findings /\ {"unpublished-head"} \in SUBSET Findings
    BY DEF If, Findings
  <2>. HIDE DEF row, tip
  <2>2. [row EXCEPT !.got = tip] \in RowType /\ [row EXCEPT !.status = "failed"] \in RowType
    BY <1>4 DEF RowType, Statuses
  <2>. QED
    BY <1>4, <2>1, <2>2, BlockedKeeps
<1>7. \/ canceled /\ CancelPush /\ UNCHANGED <<faults, ghosts>>
      \/ /\ Begins(Current) /\ faults' \in {faults, faults + 1}
         /\ \/ tip # None /\ PushSettle(Blocked([row EXCEPT !.got = tip], If(tip # row.head, "unpublished-head")))
            \/ PushSettle(Blocked(row, {"unpublished-head"}))
            \/ PushSettle([row EXCEPT !.status = "failed"])
  BY DEF PushObserve, Fault
<1>. HIDE DEF row, tip
<1>. QED
  BY <1>3, <1>5, <1>6, <1>7

LEMMA NextKeepsBase == BaseInv /\ [Next]_vars => BaseInv'
<1>1. BaseInv /\ UNCHANGED vars => BaseInv'
  <2>. SUFFICES ASSUME BaseInv, UNCHANGED vars PROVE BaseInv'
    OBVIOUS
  <2>1. UNCHANGED <<world, inputs, edits, process_vars>> /\ faults' = faults /\ UNCHANGED ghosts
        /\ UNCHANGED <<inputs, pc, pos, plan, rows, result, output>> /\ canceled' = canceled
    BY DEF vars, process_vars
  <2>2. RunOK'
    BY <2>1, RunStays
  <2>. QED
    BY <2>1, <2>2, KeptKeeps, GhostsStay
<1>. QED
  BY <1>1, InterruptKeeps, ProgramKeeps, EditKeeps, CancelKeeps, ExecBeginKeeps, PreflightKeeps, PlannedKeeps,
     ExecTurnKeeps, NotLaunchedKeeps, LaunchKeeps, CollectKeeps, DeliverKeeps, FetchBeginKeeps, FetchPlanKeeps,
     FetchTurnKeeps, RecheckKeeps, ObserveKeeps, StartFetchKeeps, FetchingKeeps, FetchReturnsKeeps,
     PushBeginKeeps, PushLookKeeps, PushCompareKeeps, PushTurnKeeps, PushObserveKeeps
     DEF Next, CommandStep, Others

-----------------------------------------------------------------------------
(* The fields of the rows, and the process                                  *)
(* What becomes of the fields of the rows. *)
Same(new, old) == new.head = old.head /\ new.got = old.got /\ new.started = old.started /\ new.left = old.left

LEMMA RowFields ==
    ASSUME BaseInv, NEW status \in Statuses, NEW r \in Range(Rows)
    PROVE  Same(Row(status)[r], rows[r]) /\ Row(status)[r].status = IF r = Current THEN status ELSE rows[r].status
<1>1. rows \in [Range(Rows) -> RowType]
  BY DEF BaseInv, TypeOK, RunTypeOK
<1>2. Row(status)[r] = IF r = Current THEN [rows[r] EXCEPT !.status = status] ELSE rows[r]
  BY <1>1 DEF Row
<1>. QED
  BY <1>1, <1>2 DEF Same, RowType

LEMMA GotFields ==
    ASSUME BaseInv, NEW status \in Statuses, NEW commit \in Commits, NEW r \in Range(Rows)
    PROVE  /\ Got(status, commit)[r].status = IF r = Current THEN status ELSE rows[r].status
           /\ Got(status, commit)[r].got = IF r = Current THEN commit ELSE rows[r].got
           /\ Got(status, commit)[r].started = rows[r].started /\ Got(status, commit)[r].left = rows[r].left
<1>1. rows \in [Range(Rows) -> RowType]
  BY DEF BaseInv, TypeOK, RunTypeOK
<1>2. Got(status, commit)[r] = IF r = Current THEN [rows[r] EXCEPT !.status = status, !.got = commit] ELSE rows[r]
  BY <1>1 DEF Got
<1>. QED
  BY <1>1, <1>2 DEF RowType

LEMMA CanceledFields ==
    ASSUME NEW rs \in [Range(Rows) -> RowType], NEW p, NEW r \in Range(Rows)
    PROVE  /\ Same(Canceled(rs, p)[r], rs[r])
           /\ \/ Canceled(rs, p)[r].status = rs[r].status
              \/ Canceled(rs, p)[r].status = "canceled" /\ rs[r].status = Unsettled
<1>1. Canceled(rs, p)[r] \in {rs[r], [rs[r] EXCEPT !.status = "canceled"]}
      /\ (Canceled(rs, p)[r] # rs[r] => rs[r].status = Unsettled)
  BY DEF Canceled
<1>. QED
  BY <1>1 DEF Same, RowType

LEMMA CanceledBeforeFields ==
    ASSUME BaseInv, NEW p, NEW r \in Range(Rows)
    PROVE  /\ Same(CanceledBefore(p)[r], rows[r])
           /\ CanceledBefore(p)[r].status \in {rows[r].status, "canceled"}
<1>1. rows \in [Range(Rows) -> RowType]
  BY DEF BaseInv, TypeOK, RunTypeOK
<1>2. CanceledBefore(p)[r] \in {rows[r], [rows[r] EXCEPT !.status = "canceled"]}
  BY <1>1 DEF CanceledBefore
<1>. QED
  BY <1>1, <1>2 DEF Same, RowType

LEMMA SettleCases ==
    ASSUME NEW rs, NEW where, Settle(rs, Goto(where, pos + 1))
    PROVE  \/ rows' = rs /\ pc' = where /\ pos' = pos + 1 /\ result' = result
           \/ rows' = Canceled(rs, pos + 1) /\ pc' = "returned" /\ pos' = pos /\ result' = "failed" /\ broken'
  BY DEF Settle, Goto, Return

LEMMA InitMarked == Init => Waited /\ Marked /\ Tallied
<1>. SUFFICES ASSUME Init PROVE Waited /\ Marked /\ Tallied
  OBVIOUS
<1>1. BaseInv
  BY InitBase
<1>2. \A r \in Range(Rows) : rows[r].status = Unsettled /\ rows[r].started = FALSE
  BY DEF Init, NewRow
<1>3. Waited
  BY DEF Init, ProcessInit, Waited
<1>4. Marked
  BY <1>2 DEF Init, Marked, Unsettled
<1>5. Tallied
  BY <1>2 DEF Init, Tallied, Unsettled, Returned, FetchSteps
<1>. QED
  BY <1>3, <1>4, <1>5

LEMMA ReportFollows ==
    ASSUME BaseInv, Marked, Tallied PROVE ReportIsTrue
<1>1. DOMAIN rows = Range(Rows)
  BY DEF BaseInv, TypeOK, RunTypeOK
<1>2. CASE Returned
  <2>1. pc # "fetched"
    BY <1>2 DEF Returned
  <2>. QED
    BY <1>1, <1>2, <2>1 DEF Marked, Tallied, ReportIsTrue, Receipt
<1>. QED
  BY <1>2 DEF ReportIsTrue

LEMMA WaitedKeeps ==
    ASSUME BaseInv, Waited, [Next]_vars PROVE Waited'
<1>1. CASE UNCHANGED process_vars
  BY <1>1 DEF Waited, process_vars
<1>2. CASE Cancel
  BY <1>2 DEF Waited, Cancel, child_vars
<1>3. CASE ProgramStep
  BY <1>3 DEF Waited, ProgramStep, ChildForks, ChildCloses, ChildEnds, HolderEnds
<1>4. CASE WaiterStep
  BY <1>4 DEF Waited, WaiterStep, Drained, Reaped, KillGroup, KillFails, Stopped, TimerFires, child_vars, BaseInv, TypeOK, ProcessTypeOK
<1>5. CASE StartChild
  BY <1>5 DEF Waited, StartChild
<1>6. CASE TakeResult
  BY <1>6 DEF Waited, TakeResult, Fresh
<1>7. CASE HelperHolds \/ HelperEnds
  BY <1>7 DEF Waited, HelperHolds, HelperEnds, child_vars
<1>8. UNCHANGED process_vars \/ Cancel \/ HelperHolds \/ HelperEnds \/ ProgramStep \/ WaiterStep \/ StartChild \/ TakeResult
  <2>1. CASE Others
    BY <2>1 DEF Others, EditCheckout, UserSwitches, RemoteChanges, UserFetches, Edited, Interrupt, ProgramWorks, GitHelper
  <2>2. CASE ExecBegin \/ Preflight \/ Planned \/ ExecTurn \/ NotLaunched \/ Launch \/ Attend \/ Collect
    BY <2>2 DEF ExecBegin, Preflight, Planned, ExecTurn, NotLaunched, Launch, Attend, Collect, Starting, Kept
  <2>3. CASE FetchBegin \/ FetchPlan \/ FetchTurn \/ Recheck \/ Observe \/ StartFetch \/ RefMoves \/ FetchBreaks \/ FetchReturns
    BY <2>3, SMTT(30) DEF FetchBegin, FetchPlan, FetchTurn, Recheck, Observe, StartFetch, RefMoves, FetchBreaks, FetchReturns, Starting, Kept
  <2>4. CASE PushBegin \/ PushLook \/ PushCompare \/ PushTurn \/ PushObserve
    BY <2>4 DEF PushBegin, PushLook, PushCompare, PushTurn, PushObserve, Starting, Kept
  <2>5. CASE CancelRow \/ CancelEnds \/ Deliver \/ UNCHANGED vars
    BY <2>5 DEF CancelRow, CancelEnds, Deliver, vars
  <2>. QED
    BY <2>1, <2>2, <2>3, <2>4, <2>5, SMTT(30) DEF Next, CommandStep
<1>. QED
  BY <1>1, <1>2, <1>3, <1>4, <1>5, <1>6, <1>8, <1>7

-----------------------------------------------------------------------------
(* The report is kept                                                       *)
Kin(new, old) == new.got = old.got /\ new.started = old.started /\ new.left = old.left

LEMMA StayMarks ==
    ASSUME BaseInv, Marked, Tallied, UNCHANGED <<inputs, pc, pos, plan, rows, result, ghosts>>
    PROVE  Marked' /\ Tallied'
<1>1. Current' = Current /\ Rows' = Rows /\ RunOrder' = RunOrder /\ cmd' = cmd
  BY SameRun DEF Current, inputs
<1>2. Marked'
  BY <1>1 DEF Marked, Receipt, ghosts
<1>3. Tallied'
  BY <1>1 DEF Tallied, Returned
<1>. QED
  BY <1>2, <1>3

\* Steps that start nothing and settle no row by what was done.
LEMMA MoveMarks ==
    ASSUME BaseInv, Marked, UNCHANGED <<inputs, ghosts>>, pc # "fetched",
           pc' \notin {"program", "fetching", "fetched"},
           pc' = "unfetched" => pc = "fetching" /\ pos' = pos,
           abandoned = {} \/ pc' \in {"canceling", "returned", "done"},
           \A r \in Range(Rows) :
               /\ Kin(rows'[r], rows[r])
               /\ \/ rows'[r].status \in {rows[r].status, "canceled"}
                  \/ rows'[r].status # "completed" /\ abandoned = {}
    PROVE  Marked'
<1>1. Rows' = Rows /\ RunOrder' = RunOrder /\ cmd' = cmd
  BY SameRun DEF inputs
<1>2. begun' = begun /\ moved' = moved /\ unread' = unread /\ abandoned' = abandoned
  BY DEF ghosts
<1>3. ASSUME NEW r \in moved PROVE Receipt(r)'
  <2>1. r \in Range(Rows) /\ (rows[r].got # None \/ (r \in unread /\ rows[r].status # "completed"))
    BY <1>3 DEF Marked, Receipt
  <2>2. rows'[r].got = rows[r].got /\ (rows[r].status # "completed" => rows'[r].status # "completed")
    BY <2>1 DEF Kin
  <2>. QED
    BY <1>2, <2>1, <2>2 DEF Receipt
<1>4. cmd.name = "exec" => begun = {r \in Range(Rows) : rows'[r].started}
  BY DEF Marked, Kin
<1>5. \A r \in Range(Rows) \ begun : rows'[r].status # "completed"
  BY DEF Marked
<1>6. \A r \in abandoned : rows'[r].left /\ rows'[r].status = "canceled"
  BY DEF Marked, Kin
<1>7. pc' \in {"program", "fetching", "fetched", "unfetched"} => Current' \in begun
  BY <1>1 DEF Marked, Current
<1>8. abandoned # {} => pc' \in {"canceling", "returned", "done"}
  OBVIOUS
<1>. QED
  BY <1>1, <1>2, <1>3, <1>4, <1>5, <1>6, <1>7, <1>8 DEF Marked

\* The current row is settled.
Settles(rs, where) ==
    /\ rs \in [Range(Rows) -> RowType] /\ where \in {"turn", "canceling"}
    /\ \A r \in Range(Rows) \ {Current} : rs[r] = rows[r]
    /\ where = "turn" =>
          /\ Pushing => rs[Current].status \in {"ready", "blocked", "failed"} /\ pc \in {"turn", "observe"}
          /\ ~Pushing => /\ rs[Current].status \in {"completed", "failed"}
                         /\ pc \in {"turn", "launch", "program"} \cup FetchSteps
    /\ Settle(rs, Goto(where, pos + 1))

LEMMA Earlier ==
    ASSUME BaseInv, pos <= Len(Rows), NEW i \in 1..(pos - 1)
    PROVE  RunOrder[i] \in Range(Rows) \ {Current} /\ i \in 1..Len(Rows)
<1>1. i \in 1..Len(Rows) /\ pos \in 1..Len(Rows) /\ i # pos
  BY RunFacts DEF BaseInv, TypeOK, RunTypeOK
<1>. QED
  BY <1>1, RunFacts DEF Current

LEMMA SettleTallies ==
    ASSUME BaseInv, Tallied, UNCHANGED inputs, pos <= Len(Rows), ~Returned, NEW rs, NEW where, Settles(rs, where)
    PROVE  Tallied'
<1>1. Rows' = Rows /\ RunOrder' = RunOrder /\ cmd' = cmd
  BY SameRun DEF inputs
<1>2. \/ rows' = rs /\ pc' = where /\ pos' = pos + 1 /\ result' = result
      \/ pc' = "returned" /\ result' = "failed"
  BY SettleCases DEF Settles
<1>3. CASE pc' = "returned" /\ result' = "failed"
  BY <1>1, <1>3 DEF Tallied, Returned, FetchSteps
<1>4. CASE rows' = rs /\ pc' = where /\ pos' = pos + 1 /\ result' = result
  <2>1. result' = "none"
    BY <1>4 DEF Tallied
  <2>2. CASE where = "canceling"
    BY <1>1, <1>4, <2>1, <2>2 DEF Tallied, Returned, FetchSteps
  <2>3. CASE where = "turn"
    <3>1. ASSUME ~Pushing, NEW i \in 1..pos PROVE rs[RunOrder[i]].status \in {"completed", "failed"}
      <4>1. CASE i = pos
        BY <2>3, <3>1, <4>1 DEF Settles, Current
      <4>2. CASE i # pos
        <5>1. i \in 1..(pos - 1)
          BY <4>2 DEF BaseInv, TypeOK, RunTypeOK
        <5>2. rs[RunOrder[i]] = rows[RunOrder[i]]
          BY <5>1, Earlier DEF Settles
        <5>. QED
          BY <2>3, <3>1, <5>1, <5>2 DEF Settles, Tallied, Pushing
      <4>. QED
        BY <4>1, <4>2
    <3>2. ASSUME Pushing, NEW r \in Range(Rows) PROVE rs[r].status \in {"ready", "blocked", "failed"}
      <4>1. CASE r = Current
        BY <2>3, <3>2, <4>1 DEF Settles
      <4>2. CASE r # Current
        BY <2>3, <3>2, <4>2 DEF Settles, Tallied, Pushing
      <4>. QED
        BY <4>1, <4>2
    <3>3. pos' - 1 = pos
      BY <1>4 DEF BaseInv, TypeOK, RunTypeOK
    <3>. QED
      BY <1>1, <1>4, <2>1, <2>3, <3>1, <3>2, <3>3 DEF Tallied, Returned, Pushing
  <2>. QED
    BY <2>2, <2>3 DEF Settles
<1>. QED
  BY <1>2, <1>3, <1>4

LEMMA SettleMarks ==
    ASSUME BaseInv, Marked, UNCHANGED <<inputs, moved>>, pos <= Len(Rows), ~Returned,
           NEW rs, NEW where, Settles(rs, where),
           unread \subseteq unread', begun' \in {begun, begun \cup {Current}}, abandoned' \in {abandoned, abandoned \cup {Current}},
           Current \in moved => rs[Current].got # None \/ (Current \in unread' /\ rs[Current].status # "completed"),
           cmd.name = "exec" => begun' = begun /\ rs[Current].started = rows[Current].started,
           Current \notin begun' => rs[Current].status # "completed",
           Current \in abandoned' => rs[Current].left /\ rs[Current].status = "canceled",
           abandoned' # {} => where = "canceling"
    PROVE  Marked'
<1>1. Rows' = Rows /\ RunOrder' = RunOrder /\ cmd' = cmd
  BY SameRun DEF inputs
<1>2. pc' \in {"turn", "canceling", "returned"} /\ (abandoned' # {} => pc' # "turn")
  BY SettleCases DEF Settles
<1>3. \A r \in Range(Rows) : Kin(rows'[r], rs[r]) /\ rows'[r].status \in {rs[r].status, "canceled"}
  <2>. SUFFICES ASSUME NEW r \in Range(Rows) PROVE Kin(rows'[r], rs[r]) /\ rows'[r].status \in {rs[r].status, "canceled"}
    OBVIOUS
  <2>1. rows' = rs \/ rows' = Canceled(rs, pos + 1)
    BY SettleCases DEF Settles
  <2>2. rs \in [Range(Rows) -> RowType]
    BY DEF Settles
  <2>3. Kin(Canceled(rs, pos + 1)[r], rs[r]) /\ Canceled(rs, pos + 1)[r].status \in {rs[r].status, "canceled"}
    BY <2>2, CanceledFields DEF Same, Kin
  <2>4. Kin(rs[r], rs[r])
    BY DEF Kin
  <2>. QED
    BY <2>1, <2>3, <2>4
<1>4. \A r \in Range(Rows) : r # Current => rs[r] = rows[r]
  BY DEF Settles
<1>5. Current \in Range(Rows)
  BY AtARow
<1>6. ASSUME NEW r \in moved PROVE Receipt(r)'
  <2>1. r \in Range(Rows)
    BY <1>6 DEF Marked
  <2>2. rs[r].got # None \/ (r \in unread' /\ rs[r].status # "completed")
    BY <1>4, <1>6, <2>1 DEF Marked, Receipt
  <2>3. rows'[r].got = rs[r].got /\ rows'[r].status \in {rs[r].status, "canceled"}
    BY <1>3, <2>1 DEF Kin
  <2>. QED
    BY <2>2, <2>3 DEF Receipt
<1>7. cmd.name = "exec" => begun' = {r \in Range(Rows) : rows'[r].started}
  <2>1. ASSUME cmd.name = "exec", NEW r \in Range(Rows) PROVE rows'[r].started = rows[r].started
    BY <1>3, <1>4, <2>1 DEF Kin
  <2>. QED
    BY <2>1 DEF Marked
<1>8. \A r \in Range(Rows) \ begun' : rows'[r].status # "completed"
  <2>. SUFFICES ASSUME NEW r \in Range(Rows), r \notin begun' PROVE rows'[r].status # "completed"
    OBVIOUS
  <2>1. rs[r].status # "completed"
    BY <1>4 DEF Marked
  <2>. QED
    BY <1>3, <2>1
<1>9. \A r \in abandoned' : rows'[r].left /\ rows'[r].status = "canceled"
  <2>. SUFFICES ASSUME NEW r \in abandoned' PROVE rows'[r].left /\ rows'[r].status = "canceled"
    OBVIOUS
  <2>1. r \in Range(Rows)
    BY <1>5 DEF Marked
  <2>2. rs[r].left /\ rs[r].status = "canceled"
    BY <1>4, <2>1 DEF Marked
  <2>. QED
    BY <1>3, <2>1, <2>2 DEF Kin
<1>10. moved \subseteq Range(Rows) /\ abandoned' \subseteq Range(Rows)
  BY <1>5 DEF Marked
<1>11. cmd.name = "exec" /\ cmd.dry => begun' = {}
  BY DEF Marked
<1>. QED
  BY <1>1, <1>2, <1>6, <1>7, <1>8, <1>9, <1>10, <1>11 DEF Marked

-----------------------------------------------------------------------------
(* The report: exec                                                         *)
LEMMA OthersMark ==
    ASSUME BaseInv, Marked, Tallied, Others \/ Attend \/ UNCHANGED vars PROVE Marked' /\ Tallied'
<1>1. UNCHANGED <<inputs, pc, pos, plan, rows, result, ghosts>>
  BY DEF Others, EditCheckout, UserSwitches, RemoteChanges, UserFetches, Edited, Interrupt, ProgramWorks, GitHelper, Attend, vars
<1>. QED
  BY <1>1, StayMarks, SMTT(30)

\* A row that is settled with a new status and nothing else.
LEMMA RowSettles ==
    ASSUME BaseInv, Marked, Tallied, UNCHANGED <<inputs, ghosts>>, pos <= Len(Rows), ~Returned, pc # "fetched",
           NEW status \in {"failed", "canceled"}, NEW where \in {"turn", "canceling"},
           status = "failed" => where = "turn",
           where = "turn" => /\ status = "failed" /\ abandoned = {}
                             /\ pc \in {"turn", "launch", "program"} \cup FetchSteps /\ (Pushing => pc \in {"turn", "observe"}),
           Settle(Row(status), Goto(where, pos + 1))
    PROVE  Marked' /\ Tallied'
<1>. DEFINE rs == Row(status)
<1>1. status \in Statuses
  BY DEF Statuses
<1>2. rs \in [Range(Rows) -> RowType] /\ Current \in Range(Rows)
  BY <1>1, RowKeeps, AtARow
<1>3. \A r \in Range(Rows) : Same(rs[r], rows[r]) /\ rs[r].status = IF r = Current THEN status ELSE rows[r].status
  BY <1>1, RowFields
<1>4. \A r \in Range(Rows) \ {Current} : rs[r] = rows[r]
  BY <1>2 DEF Row, BaseInv, TypeOK, RunTypeOK
<1>5. Settle(rs, Goto(where, pos + 1))
  OBVIOUS
<1>. HIDE DEF rs
<1>6. Settles(rs, where)
  BY <1>2, <1>3, <1>4, <1>5 DEF Settles
<1>7. Tallied'
  BY <1>6, SettleTallies
<1>8. UNCHANGED <<begun, moved, unread, abandoned>>
  BY DEF ghosts
<1>9. Current \in moved => rs[Current].got # None \/ (Current \in unread' /\ rs[Current].status # "completed")
  BY <1>2, <1>3, <1>8 DEF Marked, Receipt, Same
<1>10. Current \in abandoned => rs[Current].left /\ rs[Current].status = "canceled"
  BY <1>2, <1>3 DEF Marked, Same
<1>11. rs[Current].started = rows[Current].started /\ rs[Current].status # "completed"
  BY <1>2, <1>3 DEF Same
<1>12. abandoned' # {} => where = "canceling"
  BY <1>8
<1>13. Marked'
  BY <1>6, <1>8, <1>9, <1>10, <1>11, <1>12, SettleMarks
<1>. QED
  BY <1>7, <1>13

\* Rows that keep what was done.
LEMMA RowsAreKin ==
    ASSUME UNCHANGED rows, NEW r PROVE Kin(rows'[r], rows[r]) /\ rows'[r].status = rows[r].status
  BY DEF Kin

LEMMA FailedIsKin ==
    ASSUME BaseInv, NEW s \in Range(Rows), NEW r \in Range(Rows), rows' = [rows EXCEPT ![s].status = "failed"]
    PROVE  Kin(rows'[r], rows[r]) /\ rows'[r].status \in {rows[r].status, "failed"}
<1>1. rows \in [Range(Rows) -> RowType]
  BY DEF BaseInv, TypeOK, RunTypeOK
<1>2. rows'[r] \in {rows[r], [rows[r] EXCEPT !.status = "failed"]}
  BY <1>1
<1>. QED
  BY <1>1, <1>2 DEF Kin, RowType

\* The command returns before any row is settled, or goes to where rows are.
LEMMA EarlyTallies ==
    ASSUME Tallied, UNCHANGED inputs, ~Returned,
           \/ pc' = "returned" /\ result' \in {"failed", "planned"}
           \/ pc' = "done" /\ result' = "refused"
           \/ pc' = "canceling" /\ result' = result
           \/ pc' = "plan" /\ result' = result /\ cmd.name # "push"
           \/ pc' = "turn" /\ pos' = 1 /\ result' = result /\ cmd.name # "push"
    PROVE  Tallied'
<1>1. Rows' = Rows /\ RunOrder' = RunOrder /\ cmd' = cmd
  BY SameRun DEF inputs
<1>2. pos' = 1 => \A i \in 1..(pos' - 1) : FALSE
  OBVIOUS
<1>3. result = "none"
  BY DEF Tallied
<1>. QED
  BY <1>1, <1>2, <1>3 DEF Tallied, Returned, FetchSteps

LEMMA FirstRefused ==
    ASSUME BaseInv, NEW refused, refused \subseteq 1..Len(Rows), refused # {}
    PROVE  Rows[CHOOSE i \in refused : \A j \in refused : i <= j] \in Range(Rows)
<1>1. refused \subseteq Nat
  OBVIOUS
<1>2. PICK k \in refused : \A j \in refused : ~(<<j, k>> \in OpToRel(<, Nat))
  BY <1>1, WFMin, NatLessThanWellFounded
<1>3. \A j \in refused : ~(j < k)
  BY <1>1, <1>2 DEF OpToRel
<1>4. \A j \in refused : k <= j
  BY <1>1, <1>3
<1>5. (CHOOSE i \in refused : \A j \in refused : i <= j) \in refused
  BY <1>4
<1>. QED
  BY <1>5, RunFacts DEF Range

LEMMA ExecBeginMarks ==
    ASSUME BaseInv, Marked, Tallied, ExecBegin PROVE Marked' /\ Tallied'
<1>1. UNCHANGED <<inputs, ghosts>> /\ pc = "begin" /\ cmd.name = "exec" /\ abandoned = {} /\ ~Returned
  BY DEF ExecBegin, Starting, Marked, Returned
<1>2. /\ \/ pc' = "returned" /\ result' = "failed"
         \/ pc' = "done" /\ result' = "refused"
         \/ pc' = "plan" /\ result' = result
      /\ \/ UNCHANGED rows
         \/ \E s \in Range(Rows) : rows' = [rows EXCEPT ![s].status = "failed"]
  <2>. DEFINE refused == {i \in 1..Len(Rows) : Scoped /\ Rows[i] \in ws.detached}
              least == CHOOSE i \in refused : \A j \in refused : i <= j
  <2>1. refused # {} => Rows[least] \in Range(Rows)
    <3>. HIDE DEF refused
    <3>1. refused \subseteq 1..Len(Rows)
      BY DEF refused
    <3>. QED
      BY <3>1, FirstRefused
  <2>2. \/ UNCHANGED rows
        \/ refused # {} /\ rows' = [rows EXCEPT ![Rows[least]].status = "failed"]
    BY DEF ExecBegin
  <2>3. \/ pc' = "returned" /\ result' = "failed"
        \/ pc' = "done" /\ result' = "refused"
        \/ pc' = "plan" /\ result' = result
    BY DEF ExecBegin, Return, Goto
  <2>. HIDE DEF least, refused
  <2>. QED
    BY <2>1, <2>2, <2>3
<1>3. \A r \in Range(Rows) : Kin(rows'[r], rows[r]) /\ rows'[r].status \in {rows[r].status, "failed"}
  BY <1>2, RowsAreKin, FailedIsKin
<1>4. Marked'
  BY <1>1, <1>2, <1>3, MoveMarks
<1>5. Tallied'
  BY <1>1, <1>2, EarlyTallies
<1>. QED
  BY <1>4, <1>5

LEMMA PreflightMarks ==
    ASSUME BaseInv, Marked, Tallied, Preflight PROVE Marked' /\ Tallied'
<1>1. UNCHANGED <<inputs, ghosts>> /\ pc = "plan" /\ cmd.name = "exec" /\ abandoned = {} /\ ~Returned /\ pos \in 1..Len(Rows)
  BY RunFacts DEF Preflight, Kept, Marked, Returned, BaseInv, TypeOK, RunTypeOK
<1>2. \/ pc' = "returned" /\ result' = "failed" /\ rows' = [rows EXCEPT ![Rows[pos]].status = "failed"]
      \/ pc' = "plan" /\ result' = result /\ UNCHANGED rows
  BY DEF Preflight, Return, Goto
<1>. Rows[pos] \in Range(Rows)
  BY <1>1, RunFacts DEF Range
<1>3. \A r \in Range(Rows) : Kin(rows'[r], rows[r]) /\ rows'[r].status \in {rows[r].status, "failed"}
  BY <1>1, <1>2, RowsAreKin, FailedIsKin
<1>4. Marked'
  BY <1>1, <1>2, <1>3, MoveMarks
<1>5. Tallied'
  BY <1>1, <1>2, EarlyTallies
<1>. QED
  BY <1>4, <1>5

LEMMA PlannedMarks ==
    ASSUME BaseInv, Marked, Tallied, Planned PROVE Marked' /\ Tallied'
<1>1. UNCHANGED <<inputs, ghosts>> /\ pc = "plan" /\ cmd.name = "exec" /\ abandoned = {} /\ ~Returned
  BY DEF Planned, Kept, Marked, Returned
<1>2. \/ pc' = "returned" /\ result' \in {"failed", "planned"}
      \/ pc' = "turn" /\ pos' = 1 /\ result' = result
  BY DEF Planned, Return, Goto
<1>3. \A r \in Range(Rows) : Kin(rows'[r], rows[r]) /\ rows'[r].status = rows[r].status
  <2>1. rows \in [Range(Rows) -> RowType]
    BY DEF BaseInv, TypeOK, RunTypeOK
  <2>2. UNCHANGED rows \/ rows' = [r \in DOMAIN rows |-> [rows[r] EXCEPT !.head = plan[r].head]]
    BY DEF Planned
  <2>3. \A r \in Range(Rows) : rows'[r] = rows[r] \/ rows'[r] = [rows[r] EXCEPT !.head = plan[r].head]
    BY <2>1, <2>2
  <2>4. \A r \in Range(Rows) : [rows[r] EXCEPT !.head = plan[r].head].status = rows[r].status
                               /\ Kin([rows[r] EXCEPT !.head = plan[r].head], rows[r])
    BY <2>1 DEF Kin, RowType
  <2>. QED
    BY <2>3, <2>4 DEF Kin
<1>4. Marked'
  BY <1>1, <1>2, <1>3, MoveMarks
<1>5. Tallied'
  BY <1>1, <1>2, EarlyTallies
<1>. QED
  BY <1>4, <1>5

LEMMA OutcomeTallies ==
    ASSUME BaseInv, Tallied, UNCHANGED <<inputs, rows>>, cmd.name # "push", pc = "turn", Finished, Return(Outcome)
    PROVE  Tallied'
<1>1. Rows' = Rows /\ RunOrder' = RunOrder /\ cmd' = cmd
  BY SameRun DEF inputs
<1>2. DOMAIN rows = Range(Rows) /\ pos = Len(Rows) + 1
  BY RunFacts DEF BaseInv, TypeOK, RunTypeOK, Finished
<1>3. ASSUME NEW r \in Range(Rows) PROVE rows[r].status \in {"completed", "failed"}
  <2>1. PICK i \in 1..Len(Rows) : RunOrder[i] = r
    BY RunFacts
  <2>2. i \in 1..(pos - 1)
    BY <1>2, RunFacts
  <2>. QED
    BY <2>1, <2>2 DEF Tallied
<1>4. Outcome = "completed" => \A r \in Range(Rows) : rows[r].status = "completed"
  BY <1>2, <1>3 DEF Outcome
<1>5. Outcome \in {"completed", "failed"}
  BY DEF Outcome
<1>6. pc' = "returned" /\ result' = Outcome /\ rows' = rows
  BY DEF Return
<1>. HIDE DEF Outcome
<1>. QED
  BY <1>1, <1>4, <1>5, <1>6 DEF Tallied, Returned, FetchSteps

LEMMA ExecTurnMarks ==
    ASSUME BaseInv, Marked, Tallied, ExecTurn PROVE Marked' /\ Tallied'
<1>1. UNCHANGED <<inputs, ghosts, rows>> /\ pc = "turn" /\ cmd.name = "exec" /\ abandoned = {} /\ ~Returned
  BY DEF ExecTurn, Kept, Marked, Returned
<1>2. \/ Finished /\ Return(Outcome)
      \/ Goto("canceling", pos)
      \/ Goto("launch", pos)
  BY DEF ExecTurn
<1>3. Marked'
  BY <1>1, <1>2, RowsAreKin, MoveMarks DEF Return, Goto
<1>4. CASE Finished /\ Return(Outcome)
  BY <1>1, <1>3, <1>4, OutcomeTallies
<1>5. CASE Goto("canceling", pos)
  BY <1>1, <1>3, <1>5, EarlyTallies DEF Goto
<1>6. CASE Goto("launch", pos)
  BY <1>1, <1>3, <1>6, SameRun DEF Goto, Tallied, Returned, FetchSteps, inputs
<1>. QED
  BY <1>2, <1>4, <1>5, <1>6

LEMMA NotLaunchedMarks ==
    ASSUME BaseInv, Marked, Tallied, NotLaunched PROVE Marked' /\ Tallied'
<1>1. UNCHANGED <<inputs, ghosts>> /\ pc = "launch" /\ cmd.name = "exec" /\ abandoned = {} /\ ~Returned /\ ~Pushing /\ pos <= Len(Rows)
  BY DEF NotLaunched, Kept, Marked, Returned, BaseInv, Located, AtRow, Pushing
<1>2. Settle(Row("canceled"), Goto("canceling", pos + 1)) \/ Settle(Row("failed"), Goto("turn", pos + 1))
  BY DEF NotLaunched
<1>. QED
  BY <1>1, <1>2, RowSettles

LEMMA LaunchMarks ==
    ASSUME BaseInv, Marked, Tallied, Launch PROVE Marked' /\ Tallied'
<1>1. /\ UNCHANGED <<inputs, moved, unread, abandoned>> /\ pc = "launch" /\ cmd.name = "exec" /\ ~cmd.dry /\ abandoned = {} /\ moved = {}
      /\ pos <= Len(Rows) /\ begun' = begun \cup {Current} /\ pc' = "program" /\ pos' = pos /\ result' = result
  BY DEF Launch, Begins, Goto, Marked, BaseInv, Located, AtRow
<1>2. Rows' = Rows /\ RunOrder' = RunOrder /\ cmd' = cmd /\ Current' = Current
  BY <1>1, SameRun DEF inputs, Current
<1>3. rows \in [Range(Rows) -> RowType] /\ Current \in Range(Rows)
  BY <1>1, AtARow DEF BaseInv, TypeOK, RunTypeOK
<1>4. \A r \in Range(Rows) : rows'[r] = IF r = Current THEN [rows[r] EXCEPT !.started = TRUE] ELSE rows[r]
  BY <1>3 DEF Launch
<1>5. \A r \in Range(Rows) : rows'[r].status = rows[r].status /\ rows'[r].started = (r = Current \/ rows[r].started)
  <2>. SUFFICES ASSUME NEW r \in Range(Rows) PROVE rows'[r].status = rows[r].status /\ rows'[r].started = (r = Current \/ rows[r].started)
    OBVIOUS
  <2>1. rows[r] \in RowType
    BY <1>3
  <2>2. CASE r = Current
    BY <1>4, <2>1, <2>2 DEF RowType
  <2>3. CASE r # Current
    BY <1>4, <2>1, <2>3 DEF RowType
  <2>. QED
    BY <2>2, <2>3
<1>6. begun' = {r \in Range(Rows) : rows'[r].started}
  BY <1>1, <1>3, <1>5 DEF Marked
<1>7. Marked'
  BY <1>1, <1>2, <1>5, <1>6 DEF Marked
<1>8. Tallied'
  BY <1>1, <1>2, <1>5, Earlier DEF Tallied, Returned, FetchSteps
<1>. QED
  BY <1>7, <1>8

LEMMA CollectMarks ==
    ASSUME BaseInv, Waited, Marked, Tallied, Collect PROVE Marked' /\ Tallied'
<1>1. /\ UNCHANGED <<inputs, moved, begun, unread>> /\ pc = "program" /\ cmd.name = "exec" /\ ~cmd.dry /\ abandoned = {} /\ moved = {}
      /\ pos <= Len(Rows) /\ ~Returned /\ ~Pushing /\ Current \in begun /\ abandoned' \in {abandoned, abandoned \cup {Current}}
      /\ waiter = "returned" /\ (abandoned' # {} => child = "running" \/ holder # "none")
  BY DEF Collect, TakeResult, Marked, BaseInv, Located, AtRow, Returned, Pushing
<1>. DEFINE row(status) == [Row(status) EXCEPT ![Current].left = leaked]
<1>2. rows \in [Range(Rows) -> RowType] /\ Current \in Range(Rows) /\ leaked \in BOOLEAN
  BY <1>1, AtARow DEF BaseInv, TypeOK, RunTypeOK, ProcessTypeOK
<1>3. ASSUME NEW status \in Statuses
      PROVE  /\ row(status) \in [Range(Rows) -> RowType]
             /\ \A r \in Range(Rows) \ {Current} : row(status)[r] = rows[r]
             /\ row(status)[Current].status = status /\ row(status)[Current].left = leaked
             /\ row(status)[Current].started = rows[Current].started
  <2>1. Row(status) \in [Range(Rows) -> RowType]
    BY RowKeeps
  <2>2. \A r \in Range(Rows) \ {Current} : row(status)[r] = rows[r]
    BY <1>2, <2>1 DEF Row
  <2>3. Row(status)[Current] \in RowType /\ Row(status)[Current].status = status /\ Row(status)[Current].started = rows[Current].started
    BY <1>2, <2>1, RowFields DEF Same
  <2>4. row(status)[Current] = [Row(status)[Current] EXCEPT !.left = leaked]
    BY <1>2, <2>1
  <2>5. row(status)[Current] \in RowType
    BY <1>2, <2>3, <2>4 DEF RowType
  <2>6. row(status) \in [Range(Rows) -> RowType]
    BY <1>2, <2>1, <2>4, <2>5
  <2>7. row(status)[Current].status = status /\ row(status)[Current].started = rows[Current].started
    BY <2>3, <2>4 DEF RowType
  <2>8. row(status)[Current].left = leaked
    BY <2>3, <2>4 DEF RowType
  <2>. QED
    BY <2>2, <2>6, <2>7, <2>8
<1>4. abandoned' # {} => leaked /\ canceled
  BY <1>1 DEF Waited, BaseInv, TypeOK, ProcessTypeOK
<1>5. \/ canceled /\ Settle(row("canceled"), Goto("canceling", pos + 1))
      \/ ~canceled /\ \E status \in {"completed", "failed"} : Settle(row(status), Goto("turn", pos + 1))
  BY DEF Collect
<1>. HIDE DEF row
<1>6. ASSUME NEW status \in {"completed", "failed", "canceled"}, NEW where \in {"turn", "canceling"},
             where = "turn" => status # "canceled" /\ ~canceled, where = "canceling" => status = "canceled",
             Settle(row(status), Goto(where, pos + 1))
      PROVE  Marked' /\ Tallied'
  <2>1. status \in Statuses
    BY DEF Statuses
  <2>2. /\ row(status) \in [Range(Rows) -> RowType] /\ row(status)[Current].status = status
        /\ \A r \in Range(Rows) \ {Current} : row(status)[r] = rows[r]
        /\ row(status)[Current].left = leaked /\ row(status)[Current].started = rows[Current].started
    BY <1>3, <2>1
  <2>3. Settles(row(status), where)
    BY <1>1, <1>6, <2>2 DEF Settles
  <2>4. abandoned' # {} => where = "canceling"
    BY <1>4, <1>6
  <2>5. Current \in abandoned' => row(status)[Current].left /\ row(status)[Current].status = "canceled"
    BY <1>4, <1>6, <2>2, <2>4
  <2>6. Marked'
    BY <1>1, <2>2, <2>3, <2>4, <2>5, SettleMarks
  <2>7. Tallied'
    BY <1>1, <2>3, SettleTallies
  <2>. QED
    BY <2>6, <2>7
<1>. QED
  BY <1>5, <1>6

-----------------------------------------------------------------------------
(* The report: fetch                                                        *)
\* The command goes on at the same row.
LEMMA TravelTallies ==
    ASSUME BaseInv, Tallied, UNCHANGED <<inputs, pos, result>>, cmd.name # "push", pos <= Len(Rows),
           pc \in {"turn", "launch", "program"} \cup FetchSteps, pc' \in {"launch", "program"} \cup FetchSteps,
           \A r \in Range(Rows) : rows'[r].status = rows[r].status
    PROVE  Tallied'
<1>1. Rows' = Rows /\ RunOrder' = RunOrder /\ cmd' = cmd
  BY SameRun DEF inputs
<1>2. ASSUME NEW i \in 1..(pos - 1) PROVE rows'[RunOrder[i]].status \in {"completed", "failed"}
  <2>1. RunOrder[i] \in Range(Rows)
    BY <1>2, Earlier
  <2>2. rows[RunOrder[i]].status \in {"completed", "failed"}
    BY <1>2 DEF Tallied
  <2>. QED
    BY <2>1, <2>2
<1>3. result' = "none" /\ ~Returned'
  BY DEF Tallied, Returned, FetchSteps
<1>. QED
  BY <1>1, <1>2, <1>3 DEF Tallied

LEMMA FetchBeginMarks ==
    ASSUME BaseInv, Marked, Tallied, FetchBegin PROVE Marked' /\ Tallied'
<1>1. UNCHANGED <<inputs, ghosts>> /\ pc = "begin" /\ cmd.name = "fetch" /\ ~Returned /\ abandoned = {}
  BY DEF FetchBegin, Starting, Returned, Fetching, Marked
<1>2. \/ rows' = Canceled(rows, 1) /\ pc' = "returned" /\ result' = "failed"
      \/ UNCHANGED rows /\ pc' = "plan" /\ result' = result
  BY DEF FetchBegin, Return, Goto
<1>3. rows \in [Range(Rows) -> RowType]
  BY DEF BaseInv, TypeOK, RunTypeOK
<1>4. \A r \in Range(Rows) : Kin(rows'[r], rows[r]) /\ rows'[r].status \in {rows[r].status, "canceled"}
  BY <1>2, <1>3, CanceledFields, RowsAreKin DEF Kin, Same
<1>5. Marked'
  BY <1>1, <1>2, <1>4, MoveMarks
<1>6. Tallied'
  BY <1>1, <1>2, EarlyTallies
<1>. QED
  BY <1>5, <1>6

LEMMA FetchPlanMarks ==
    ASSUME BaseInv, Marked, Tallied, FetchPlan PROVE Marked' /\ Tallied'
<1>1. UNCHANGED <<inputs, ghosts>> /\ pc = "plan" /\ cmd.name = "fetch" /\ ~Returned /\ abandoned = {}
  BY DEF FetchPlan, Kept, Returned, Fetching, Marked
<1>2. \/ rows' = Canceled(rows, 1) /\ pc' = "returned" /\ result' = "failed"
      \/ UNCHANGED rows /\ pc' = "plan" /\ result' = result
      \/ UNCHANGED rows /\ pc' = "turn" /\ pos' = 1 /\ result' = result
  BY DEF FetchPlan, Return, Goto
<1>3. rows \in [Range(Rows) -> RowType]
  BY DEF BaseInv, TypeOK, RunTypeOK
<1>4. \A r \in Range(Rows) : Kin(rows'[r], rows[r]) /\ rows'[r].status \in {rows[r].status, "canceled"}
  BY <1>2, <1>3, CanceledFields, RowsAreKin DEF Kin, Same
<1>5. Marked'
  BY <1>1, <1>2, <1>4, MoveMarks
<1>6. Tallied'
  BY <1>1, <1>2, EarlyTallies
<1>. QED
  BY <1>5, <1>6

LEMMA Unfinished == ASSUME BaseInv, ~Finished PROVE pos <= Len(Rows)
  BY RunFacts DEF Finished, BaseInv, TypeOK, RunTypeOK

LEMMA FetchTurnMarks ==
    ASSUME BaseInv, Marked, Tallied, FetchTurn PROVE Marked' /\ Tallied'
<1>1. UNCHANGED <<inputs, ghosts>> /\ pc = "turn" /\ cmd.name = "fetch" /\ ~Returned /\ abandoned = {} /\ ~Pushing
  BY DEF FetchTurn, Kept, Returned, Fetching, Marked, Pushing
<1>2. CASE Finished /\ Return(Outcome) /\ UNCHANGED rows
  <2>1. Marked'
    BY <1>1, <1>2, RowsAreKin, MoveMarks DEF Return
  <2>. QED
    BY <1>1, <1>2, <2>1, OutcomeTallies
<1>3. CASE ~Finished /\ Settle(Row("failed"), Goto("turn", pos + 1))
  BY <1>1, <1>3, RowSettles, Unfinished
<1>4. CASE ~Finished /\ UNCHANGED rows /\ Goto(IF canceled THEN "canceling" ELSE "recheck", pos)
  <2>1. pc' \in {"canceling", "recheck"} /\ UNCHANGED <<pos, result>> /\ pos <= Len(Rows)
    BY <1>4, Unfinished DEF Goto
  <2>2. Marked'
    BY <1>1, <1>4, <2>1, RowsAreKin, MoveMarks
  <2>3. Tallied'
    BY <1>1, <1>4, <2>1, EarlyTallies, TravelTallies DEF FetchSteps
  <2>. QED
    BY <2>2, <2>3
<1>. QED
  BY <1>2, <1>3, <1>4 DEF FetchTurn

LEMMA RecheckMarks ==
    ASSUME BaseInv, Marked, Tallied, Recheck PROVE Marked' /\ Tallied'
<1>1. UNCHANGED <<inputs, ghosts>> /\ pc = "recheck" /\ pc \in FetchSteps /\ ~Returned /\ abandoned = {}
  BY DEF Recheck, Kept, Returned, Marked, FetchSteps
<1>2. pos <= Len(Rows) /\ cmd.name = "fetch" /\ ~Pushing /\ rows \in [Range(Rows) -> RowType] /\ Current \in Range(Rows)
  BY <1>1, AtFetch DEF Pushing
<1>3. CASE Settle(Row("failed"), Goto("turn", pos + 1))
  BY <1>1, <1>2, <1>3, RowSettles
<1>4. CASE /\ pc' \in {"canceling", "network"} /\ UNCHANGED <<pos, result>>
           /\ UNCHANGED rows \/ rows' = [rows EXCEPT ![Current].head = plan[Current].head]
  <2>1. \A r \in Range(Rows) : Kin(rows'[r], rows[r]) /\ rows'[r].status = rows[r].status
    <3>1. \A r \in Range(Rows) : rows'[r] \in {rows[r], [rows[r] EXCEPT !.head = plan[Current].head]}
      BY <1>2, <1>4
    <3>2. \A r \in Range(Rows) : Kin([rows[r] EXCEPT !.head = plan[Current].head], rows[r])
                                 /\ [rows[r] EXCEPT !.head = plan[Current].head].status = rows[r].status
      BY <1>2 DEF Kin, RowType
    <3>. QED
      BY <3>1, <3>2 DEF Kin
  <2>2. Marked'
    BY <1>1, <1>4, <2>1, MoveMarks
  <2>3. Tallied'
    BY <1>1, <1>2, <1>4, <2>1, EarlyTallies, TravelTallies DEF FetchSteps
  <2>. QED
    BY <2>2, <2>3
<1>. QED
  BY <1>3, <1>4 DEF Recheck, Goto

\* A settled row of fetch that carries a commit.
LEMMA GotSettles ==
    ASSUME BaseInv, pc \in FetchSteps, NEW status \in {"completed", "failed", "canceled"}, NEW commit \in Commits,
           NEW where \in {"turn", "canceling"}, where = "turn" => status # "canceled",
           Settle(Got(status, commit), Goto(where, pos + 1))
    PROVE  /\ Settles(Got(status, commit), where)
           /\ Got(status, commit)[Current].status = status /\ Got(status, commit)[Current].got = commit
<1>. DEFINE rs == Got(status, commit)
<1>1. status \in Statuses
  BY DEF Statuses
<1>2. Current \in Range(Rows) /\ cmd.name = "fetch" /\ ~Pushing /\ rows \in [Range(Rows) -> RowType]
  BY AtFetch DEF Pushing
<1>3. rs \in [Range(Rows) -> RowType] /\ rs[Current].status = status /\ rs[Current].got = commit
  BY <1>1, <1>2, GotKeeps, GotFields
<1>4. \A r \in Range(Rows) \ {Current} : rs[r] = rows[r]
  BY <1>2 DEF Got
<1>5. Settle(rs, Goto(where, pos + 1))
  OBVIOUS
<1>. HIDE DEF rs
<1>6. Settles(rs, where)
  BY <1>2, <1>3, <1>4, <1>5 DEF Settles
<1>. QED
  BY <1>3, <1>6 DEF rs

LEMMA RowSettlesAs ==
    ASSUME BaseInv, pc \in FetchSteps, NEW status \in {"failed", "canceled"}, NEW where \in {"turn", "canceling"},
           where = "turn" => status # "canceled", Settle(Row(status), Goto(where, pos + 1))
    PROVE  /\ Settles(Row(status), where) /\ Row(status)[Current].status = status
           /\ Row(status)[Current].got = rows[Current].got
<1>. DEFINE rs == Row(status)
<1>1. status \in Statuses
  BY DEF Statuses
<1>2. Current \in Range(Rows) /\ cmd.name = "fetch" /\ ~Pushing /\ rows \in [Range(Rows) -> RowType]
  BY AtFetch DEF Pushing
<1>3. rs \in [Range(Rows) -> RowType] /\ rs[Current].status = status /\ rs[Current].got = rows[Current].got
  BY <1>1, <1>2, RowKeeps, RowFields DEF Same
<1>4. \A r \in Range(Rows) \ {Current} : rs[r] = rows[r]
  BY <1>2 DEF Row
<1>5. Settle(rs, Goto(where, pos + 1))
  OBVIOUS
<1>. HIDE DEF rs
<1>6. Settles(rs, where)
  BY <1>2, <1>3, <1>4, <1>5 DEF Settles
<1>. QED
  BY <1>3, <1>6 DEF rs

LEMMA ObserveMarks ==
    ASSUME BaseInv, Marked, Tallied, Observe PROVE Marked' /\ Tallied'
<1>1. UNCHANGED inputs /\ pc = "network" /\ pc \in FetchSteps /\ ~Returned /\ abandoned = {} /\ moved = {}
  BY DEF Observe, Returned, Marked, FetchSteps
<1>2. /\ pos <= Len(Rows) /\ cmd.name = "fetch" /\ ~Pushing /\ rows \in [Range(Rows) -> RowType] /\ Current \in Range(Rows)
      /\ Advertised(Current, Ref) \in Commits \cup {None}
  BY <1>1, AtFetch DEF Pushing
<1>3. CASE Goto("canceling", pos) /\ UNCHANGED <<rows, ghosts>>
  <2>1. Marked'
    BY <1>1, <1>3, RowsAreKin, MoveMarks DEF Goto
  <2>2. Tallied'
    BY <1>1, <1>3, EarlyTallies DEF Goto
  <2>. QED
    BY <2>1, <2>2
<1>4. CASE Begins(Current) /\ Settle(Row("failed"), Goto("turn", pos + 1))
  <2>1. Settles(Row("failed"), "turn") /\ Row("failed")[Current].status = "failed"
    BY <1>1, <1>4, RowSettlesAs
  <2>2. Tallied'
    BY <1>1, <1>2, <2>1, SettleTallies
  <2>3. Marked'
    BY <1>1, <1>2, <1>4, <2>1, SettleMarks DEF Begins
  <2>. QED
    BY <2>2, <2>3
<1>5. CASE /\ Begins(Current) /\ Advertised(Current, Ref) # None
           /\ Settle(Got("completed", Advertised(Current, Ref)), Goto("turn", pos + 1))
  <2>1. Settles(Got("completed", Advertised(Current, Ref)), "turn")
    BY <1>1, <1>2, <1>5, GotSettles
  <2>2. Tallied'
    BY <1>1, <1>2, <2>1, SettleTallies
  <2>3. begun' = begun \cup {Current} /\ UNCHANGED <<moved, unread, abandoned>>
    BY <1>5 DEF Begins
  <2>4. Marked'
    BY <1>1, <1>2, <2>1, <2>3, SettleMarks
  <2>. QED
    BY <2>2, <2>4
<1>. QED
  BY <1>3, <1>4, <1>5 DEF Observe

LEMMA StartFetchMarks ==
    ASSUME BaseInv, Marked, Tallied, StartFetch PROVE Marked' /\ Tallied'
<1>1. UNCHANGED inputs /\ pc = "network" /\ pc \in FetchSteps /\ ~Returned /\ abandoned = {}
  BY DEF StartFetch, Returned, Marked, FetchSteps
<1>2. pos <= Len(Rows) /\ cmd.name = "fetch" /\ ~Pushing /\ rows \in [Range(Rows) -> RowType] /\ Current \in Range(Rows)
  BY <1>1, AtFetch DEF Pushing
<1>3. CASE UNCHANGED ghosts /\ \/ Settle(Row("canceled"), Goto("canceling", pos + 1))
                               \/ Settle(Row("failed"), Goto("turn", pos + 1))
  BY <1>1, <1>2, <1>3, RowSettles
<1>4. CASE Begins(Current) /\ Goto("fetching", pos) /\ UNCHANGED rows
  <2>1. /\ Rows' = Rows /\ RunOrder' = RunOrder /\ cmd' = cmd /\ Current' = Current /\ pc' = "fetching"
        /\ UNCHANGED <<pos, result, rows, moved, unread, abandoned>> /\ begun' = begun \cup {Current}
    BY <1>1, <1>4, SameRun DEF inputs, Current, Goto, Begins
  <2>2. \A r \in moved : Receipt(r)'
    BY <1>1, <2>1 DEF Marked, Receipt
  <2>3. Marked'
    BY <1>1, <1>2, <2>1, <2>2 DEF Marked
  <2>4. Tallied'
    BY <1>1, <1>2, <2>1, TravelTallies DEF FetchSteps
  <2>. QED
    BY <2>3, <2>4
<1>. QED
  BY <1>3, <1>4 DEF StartFetch

LEMMA FetchingMarks ==
    ASSUME BaseInv, Marked, Tallied, RefMoves \/ FetchBreaks PROVE Marked' /\ Tallied'
<1>1. /\ UNCHANGED <<inputs, rows, begun, unread, abandoned>> /\ pc = "fetching" /\ pc \in FetchSteps /\ ~Returned /\ abandoned = {}
      /\ UNCHANGED <<pos, result>> /\ Current \in begun
      /\ \/ pc' = "fetched" /\ moved' = moved \cup {Current}
         \/ pc' = "unfetched" /\ moved' = moved
  BY DEF RefMoves, FetchBreaks, Kept, Goto, Returned, Marked, FetchSteps, ghosts
<1>2. pos <= Len(Rows) /\ cmd.name = "fetch" /\ ~cmd.dry /\ Current \in Range(Rows)
  BY <1>1, AtFetch DEF BaseInv, Located
<1>3. Rows' = Rows /\ RunOrder' = RunOrder /\ cmd' = cmd /\ Current' = Current
  BY <1>1, SameRun DEF inputs, Current
<1>4. \A r \in moved' : Receipt(r)'
  BY <1>1, <1>3 DEF Marked, Receipt
<1>5. Marked'
  BY <1>1, <1>2, <1>3, <1>4 DEF Marked
<1>6. Tallied'
  BY <1>1, <1>2, TravelTallies DEF FetchSteps
<1>. QED
  BY <1>5, <1>6

LEMMA FetchReturnsMarks ==
    ASSUME BaseInv, Marked, Tallied, FetchReturns PROVE Marked' /\ Tallied'
<1>1. /\ UNCHANGED <<inputs, begun, moved, abandoned>> /\ pc \in {"fetched", "unfetched"} /\ pc \in FetchSteps /\ ~Returned
      /\ abandoned = {} /\ Current \in begun
  BY DEF FetchReturns, Returned, Marked, FetchSteps
<1>2. /\ pos <= Len(Rows) /\ cmd.name = "fetch" /\ ~Pushing /\ rows \in [Range(Rows) -> RowType] /\ Current \in Range(Rows)
      /\ tracking[Current][Ref] \in Commits
  BY <1>1, AtFetch DEF Pushing
<1>. DEFINE where == IF canceled THEN "canceling" ELSE "turn"
            status == IF canceled THEN "canceled" ELSE IF pc = "unfetched" THEN "failed" ELSE "completed"
<1>3. /\ where \in {"turn", "canceling"} /\ status \in {"completed", "failed", "canceled"} /\ (where = "turn" => status # "canceled")
      /\ (where = "turn" <=> ~canceled)
  OBVIOUS
<1>4. \/ Settle(Got(status, tracking[Current][Ref]), Goto(where, pos + 1)) /\ UNCHANGED unread
      \/ Settle(Got("failed", tracking[Current][Ref]), Goto(where, pos + 1)) /\ UNCHANGED unread /\ ~canceled
      \/ canceled /\ Settle(Row("canceled"), Goto(where, pos + 1)) /\ unread' = unread \cup {Current}
      \/ ~canceled /\ Settle(Row("failed"), Goto(where, pos + 1)) /\ unread' = unread \cup {Current}
  BY DEF FetchReturns
<1>. HIDE DEF where, status
<1>5. ASSUME NEW s \in {"completed", "failed", "canceled"}, Settle(Got(s, tracking[Current][Ref]), Goto(where, pos + 1)), UNCHANGED unread,
             where = "turn" => s # "canceled"
      PROVE  Marked' /\ Tallied'
  <2>1. Settles(Got(s, tracking[Current][Ref]), where) /\ Got(s, tracking[Current][Ref])[Current].got = tracking[Current][Ref]
    BY <1>1, <1>2, <1>3, <1>5, GotSettles
  <2>2. Tallied'
    BY <1>1, <1>2, <2>1, SettleTallies
  <2>3. Got(s, tracking[Current][Ref])[Current].got # None
    BY <1>2, <2>1, NoneAssumption
  <2>4. Marked'
    BY <1>1, <1>2, <1>5, <2>1, <2>3, SettleMarks
  <2>. QED
    BY <2>2, <2>4
<1>6. ASSUME NEW s \in {"failed", "canceled"}, Settle(Row(s), Goto(where, pos + 1)), unread' = unread \cup {Current},
             where = "turn" => s # "canceled"
      PROVE  Marked' /\ Tallied'
  <2>1. Settles(Row(s), where) /\ Row(s)[Current].status = s
    BY <1>1, <1>2, <1>3, <1>6, RowSettlesAs
  <2>2. Tallied'
    BY <1>1, <1>2, <2>1, SettleTallies
  <2>3. Marked'
    BY <1>1, <1>2, <1>6, <2>1, SettleMarks
  <2>. QED
    BY <2>2, <2>3
<1>. QED
  BY <1>3, <1>4, <1>5, <1>6

-----------------------------------------------------------------------------
(* The report: push                                                         *)
\* Push goes on among its plan and its turns.
LEMMA PushTallies ==
    ASSUME BaseInv, Tallied, UNCHANGED inputs, cmd.name = "push", result' = result, pc \in {"begin", "plan", "compare", "turn"},
           pc' \in {"plan", "compare", "turn", "observe"}, UNCHANGED rows
    PROVE  Tallied'
<1>1. Rows' = Rows /\ RunOrder' = RunOrder /\ cmd' = cmd
  BY SameRun DEF inputs
<1>. QED
  BY <1>1 DEF Tallied, Returned, FetchSteps

LEMMA PushBeginMarks ==
    ASSUME BaseInv, Marked, Tallied, PushBegin PROVE Marked' /\ Tallied'
<1>1. UNCHANGED <<inputs, ghosts>> /\ pc = "begin" /\ cmd.name = "push" /\ ~Returned /\ abandoned = {}
  BY DEF PushBegin, Starting, Returned, Pushing, Marked
<1>2. \/ UNCHANGED rows /\ pc' = "canceling" /\ result' = result
      \/ UNCHANGED rows /\ pc' = "plan" /\ result' = result
      \/ /\ rows' = [r \in DOMAIN rows |-> [rows[r] EXCEPT !.status = "failed"]]
         /\ pc' = "returned" /\ result' = "failed"
  BY DEF PushBegin, Return, Goto
<1>3. \A r \in Range(Rows) : Kin(rows'[r], rows[r]) /\ rows'[r].status \in {rows[r].status, "failed"}
  <2>1. rows \in [Range(Rows) -> RowType]
    BY DEF BaseInv, TypeOK, RunTypeOK
  <2>2. \A r \in Range(Rows) : rows'[r] \in {rows[r], [rows[r] EXCEPT !.status = "failed"]}
    BY <1>2, <2>1
  <2>3. \A r \in Range(Rows) : Kin([rows[r] EXCEPT !.status = "failed"], rows[r]) /\ [rows[r] EXCEPT !.status = "failed"].status = "failed"
    BY <2>1 DEF Kin, RowType
  <2>. QED
    BY <2>2, <2>3 DEF Kin
<1>4. Marked'
  BY <1>1, <1>2, <1>3, MoveMarks
<1>5. Tallied'
  BY <1>1, <1>2, EarlyTallies, PushTallies, SMTT(30)
<1>. QED
  BY <1>4, <1>5

LEMMA PushPlanMarks ==
    ASSUME BaseInv, Marked, Tallied, PushLook \/ PushCompare PROVE Marked' /\ Tallied'
<1>1. UNCHANGED <<inputs, ghosts, rows>> /\ pc \in {"plan", "compare"} /\ cmd.name = "push" /\ ~Returned /\ abandoned = {}
  BY DEF PushLook, PushCompare, Kept, Returned, Pushing, Marked, BaseInv, Located
<1>2. pc' \in {"canceling", "plan", "compare", "turn"} /\ result' = result
  BY DEF PushLook, PushCompare, NextLocal, Goto
<1>3. Marked'
  BY <1>1, <1>2, RowsAreKin, MoveMarks
<1>4. Tallied'
  BY <1>1, <1>2, EarlyTallies, PushTallies
<1>. QED
  BY <1>3, <1>4

LEMMA CanceledBeforeMarks ==
    ASSUME BaseInv, Marked, Tallied, UNCHANGED <<inputs, ghosts>>, pc \in {"turn", "observe"}, ~Returned,
           NEW p, rows' = CanceledBefore(p), pc' = "canceling", result' = result
    PROVE  Marked' /\ Tallied'
<1>1. \A r \in Range(Rows) : Kin(rows'[r], rows[r]) /\ rows'[r].status \in {rows[r].status, "canceled"}
  BY CanceledBeforeFields DEF Kin, Same
<1>2. Marked'
  BY <1>1, MoveMarks
<1>3. Tallied'
  BY EarlyTallies
<1>. QED
  BY <1>2, <1>3

LEMMA PushSettleMarks ==
    ASSUME BaseInv, Marked, Tallied, UNCHANGED <<inputs, moved, unread, abandoned>>, Pushing, pos <= Len(Rows), pc \in {"turn", "observe"},
           begun' \in {begun, begun \cup {Current}}, NEW row \in RowType, Plausible(row), PushSettle(row)
    PROVE  Marked' /\ Tallied'
<1>. DEFINE rs == [rows EXCEPT ![Current] = row]
<1>1. rows \in [Range(Rows) -> RowType] /\ Current \in Range(Rows) /\ cmd.name = "push" /\ ~Returned /\ moved = {} /\ abandoned = {}
  BY AtARow DEF BaseInv, TypeOK, RunTypeOK, Pushing, Returned, Marked
<1>2. CASE Settle(rs, Goto("turn", pos + 1))
  <2>1. rs \in [Range(Rows) -> RowType] /\ rs[Current] = row /\ \A r \in Range(Rows) \ {Current} : rs[r] = rows[r]
    BY <1>1
  <2>. HIDE DEF rs
  <2>2. Settles(rs, "turn")
    BY <1>2, <2>1 DEF Settles, Plausible
  <2>3. Tallied'
    BY <1>1, <2>2, SettleTallies
  <2>4. Marked'
    BY <1>1, <2>1, <2>2, SettleMarks DEF Plausible
  <2>. QED
    BY <2>3, <2>4
<1>3. CASE rows' = CanceledBefore(pos + 1) /\ Goto("canceling", pos + 1)
  <2>1. pc' = "canceling" /\ result' = result
    BY <1>3 DEF Goto
  <2>2. CASE begun' = begun
    <3>1. UNCHANGED ghosts
      BY <2>2 DEF ghosts
    <3>. QED
      BY <1>1, <1>3, <2>1, <3>1, CanceledBeforeMarks
  <2>3. CASE begun' = begun \cup {Current}
    <3>1. Rows' = Rows /\ RunOrder' = RunOrder /\ cmd' = cmd
      BY SameRun DEF inputs
    <3>2. \A r \in Range(Rows) : Kin(rows'[r], rows[r]) /\ rows'[r].status \in {rows[r].status, "canceled"}
      BY <1>3, CanceledBeforeFields DEF Kin, Same
    <3>3. Marked'
      BY <1>1, <2>1, <2>3, <3>1, <3>2 DEF Marked
    <3>4. Tallied'
      BY <1>1, <2>1, EarlyTallies
    <3>. QED
      BY <3>3, <3>4
  <2>. QED
    BY <2>2, <2>3
<1>. QED
  BY <1>2, <1>3 DEF PushSettle

LEMMA PushOutcomeTallies ==
    ASSUME BaseInv, Tallied, UNCHANGED <<inputs, rows>>, cmd.name = "push", pc = "turn", Return(PushOutcome)
    PROVE  Tallied'
<1>1. Rows' = Rows /\ RunOrder' = RunOrder /\ cmd' = cmd
  BY SameRun DEF inputs
<1>2. DOMAIN rows = Range(Rows)
  BY DEF BaseInv, TypeOK, RunTypeOK
<1>3. PushOutcome = "ready" => \A r \in Range(Rows) : rows[r].status = "ready"
  BY <1>2 DEF PushOutcome, Tallied
<1>4. PushOutcome \in {"ready", "blocked", "failed"}
  BY DEF PushOutcome
<1>5. pc' = "returned" /\ result' = PushOutcome /\ rows' = rows
  BY DEF Return
<1>. HIDE DEF PushOutcome
<1>. QED
  BY <1>1, <1>3, <1>4, <1>5 DEF Tallied, Returned, FetchSteps

LEMMA PushTurnMarks ==
    ASSUME BaseInv, Witnessed, Marked, Tallied, PushTurn PROVE Marked' /\ Tallied'
<1>1. UNCHANGED <<inputs, ghosts>> /\ pc = "turn" /\ cmd.name = "push" /\ Pushing /\ ~Returned /\ abandoned = {} /\ PlannedAll /\ PlanType = PushPlan
  BY PushRows DEF PushTurn, Kept, Returned, Pushing, Marked, BaseInv, Learned
<1>2. CASE Return(PushOutcome) /\ UNCHANGED rows
  <2>1. Marked'
    BY <1>1, <1>2, RowsAreKin, MoveMarks DEF Return
  <2>. QED
    BY <1>1, <1>2, <2>1, PushOutcomeTallies
<1>3. CASE CancelPush
  BY <1>1, <1>3, CanceledBeforeMarks DEF CancelPush, Goto
<1>4. CASE Goto("observe", pos) /\ UNCHANGED rows
  <2>1. Marked'
    BY <1>1, <1>4, RowsAreKin, MoveMarks DEF Goto
  <2>2. Tallied'
    BY <1>1, <1>4, PushTallies DEF Goto
  <2>. QED
    BY <2>1, <2>2
<1>5. CASE ~Finished /\ PushSettle(plan[Current].row)
  <2>1. pos <= Len(Rows) /\ Current \in Range(Rows)
    BY <1>5, Unfinished, AtARow
  <2>2. plan[Current].row \in RowType /\ Plausible(plan[Current].row)
    BY <1>1, <2>1 DEF PlannedAll, PushPlan, Witnessed, Known
  <2>3. begun' = begun /\ UNCHANGED <<moved, unread, abandoned>>
    BY <1>1 DEF ghosts
  <2>. QED
    BY <1>1, <1>5, <2>1, <2>2, <2>3, PushSettleMarks
<1>. QED
  BY <1>2, <1>3, <1>4, <1>5 DEF PushTurn

\* What the observation of a remote makes of a row.
LEMMA BlockedFacts ==
    ASSUME NEW row \in RowType, NEW codes \in SUBSET Findings, Plausible(row)
    PROVE  /\ Blocked(row, codes) \in RowType /\ Plausible(Blocked(row, codes))
           /\ Blocked(row, codes).head = row.head
           /\ Blocked(row, codes).status = "ready" => row.status = "ready" /\ codes = {} /\ Blocked(row, codes) = row
<1>1. Blocked(row, codes) \in RowType
  BY BlockedKeeps
<1>2. CASE codes = {}
  BY <1>1, <1>2 DEF Blocked
<1>3. CASE codes # {}
  <2>1. Blocked(row, codes) = [row EXCEPT !.findings = row.findings \cup codes,
                                          !.status = IF row.status = "failed" THEN "failed" ELSE "blocked"]
    BY <1>3 DEF Blocked
  <2>2. Blocked(row, codes).head = row.head /\ Blocked(row, codes).status \in {"failed", "blocked"}
    BY <2>1 DEF RowType
  <2>. QED
    BY <1>1, <2>2 DEF Plausible
<1>. QED
  BY <1>2, <1>3

\* The row PushObserve settles.
Observed(row) ==
    LET before == plan[Current].row
        tip == remote[Current].own
    IN \/ tip # None /\ row = Blocked([before EXCEPT !.got = tip], If(tip # before.head, "unpublished-head"))
       \/ row = Blocked(before, {"unpublished-head"})
       \/ row = [before EXCEPT !.status = "failed"]

LEMMA ObservedFacts ==
    ASSUME BaseInv, Pushing, pos <= Len(Rows), PlannedAll, Plausible(plan[Current].row), NEW row, Observed(row)
    PROVE  /\ row \in RowType /\ Plausible(row) /\ row.head = plan[Current].row.head
           /\ row.status = "ready" => plan[Current].row.status = "ready" /\ remote[Current].own = row.head
<1>. DEFINE before == plan[Current].row
            tip == remote[Current].own
<1>1. before \in RowType /\ tip \in Commits \cup {None} /\ Plausible(before)
  BY AtARow, PushRows DEF PlannedAll, PushPlan, BaseInv, TypeOK, WorldTypeOK, RemoteType
<1>2. If(tip # before.head, "unpublished-head") \in SUBSET Findings /\ {"unpublished-head"} \in SUBSET Findings
  BY DEF If, Findings
<1>3. If(tip # before.head, "unpublished-head") = {} => tip = before.head
  BY DEF If
<1>4. \/ tip # None /\ row = Blocked([before EXCEPT !.got = tip], If(tip # before.head, "unpublished-head"))
      \/ row = Blocked(before, {"unpublished-head"})
      \/ row = [before EXCEPT !.status = "failed"]
  BY DEF Observed
<1>. HIDE DEF before, tip
<1>5. CASE tip # None /\ row = Blocked([before EXCEPT !.got = tip], If(tip # before.head, "unpublished-head"))
  <2>1. [before EXCEPT !.got = tip] \in RowType /\ [before EXCEPT !.got = tip].status = before.status /\ [before EXCEPT !.got = tip].head = before.head
    BY <1>1 DEF RowType
  <2>2. Plausible([before EXCEPT !.got = tip])
    BY <1>1, <2>1 DEF Plausible
  <2>3. /\ row \in RowType /\ Plausible(row) /\ row.head = before.head
        /\ row.status = "ready" => before.status = "ready" /\ tip = row.head
    BY <1>2, <1>3, <1>5, <2>1, <2>2, BlockedFacts
  <2>. QED
    BY <2>3 DEF before, tip
<1>6. CASE row = Blocked(before, {"unpublished-head"})
  <2>1. row \in RowType /\ Plausible(row) /\ row.head = before.head /\ row.status # "ready"
    BY <1>1, <1>2, <1>6, BlockedFacts
  <2>. QED
    BY <2>1 DEF before
<1>7. CASE row = [before EXCEPT !.status = "failed"]
  <2>1. row \in RowType /\ row.status = "failed" /\ row.head = before.head
    BY <1>1, <1>7 DEF RowType, Statuses
  <2>. QED
    BY <2>1 DEF before, Plausible
<1>. QED
  BY <1>4, <1>5, <1>6, <1>7

LEMMA PushObserveCases ==
    ASSUME PushObserve
    PROVE  \/ canceled /\ CancelPush /\ UNCHANGED <<faults, ghosts>>
           \/ ~canceled /\ Begins(Current) /\ \E row : Observed(row) /\ PushSettle(row)
  BY DEF PushObserve, Observed

LEMMA PushObserveMarks ==
    ASSUME BaseInv, Witnessed, Marked, Tallied, PushObserve PROVE Marked' /\ Tallied'
<1>1. UNCHANGED inputs /\ pc = "observe" /\ cmd.name = "push" /\ Pushing /\ ~Returned /\ abandoned = {} /\ PlannedAll /\ pos <= Len(Rows)
  BY DEF PushObserve, Returned, Pushing, Marked, BaseInv, Learned, Located, AtRow
<1>2. CASE CancelPush /\ UNCHANGED ghosts
  BY <1>1, <1>2, CanceledBeforeMarks DEF CancelPush, Goto
<1>3. CASE Begins(Current) /\ \E row : Observed(row) /\ PushSettle(row)
  <2>1. PICK row : Observed(row) /\ PushSettle(row)
    BY <1>3
  <2>2. Plausible(plan[Current].row)
    BY <1>1, AtARow DEF Witnessed, Known
  <2>3. row \in RowType /\ Plausible(row)
    BY <1>1, <2>1, <2>2, ObservedFacts
  <2>4. begun' = begun \cup {Current} /\ UNCHANGED <<moved, unread, abandoned>>
    BY <1>3 DEF Begins
  <2>. QED
    BY <1>1, <2>1, <2>3, <2>4, PushSettleMarks
<1>. QED
  BY <1>2, <1>3, PushObserveCases

LEMMA CancelMarks ==
    ASSUME BaseInv, Marked, Tallied, CancelRow \/ CancelEnds PROVE Marked' /\ Tallied'
<1>1. UNCHANGED <<inputs, ghosts>> /\ pc = "canceling" /\ ~Returned
  BY DEF CancelRow, CancelEnds, Returned
<1>2. CASE CancelRow
  BY <1>1, <1>2, Unfinished, RowSettles DEF CancelRow
<1>3. CASE CancelEnds
  <2>1. pc' = "returned" /\ result' = "failed" /\ UNCHANGED rows
    BY <1>3 DEF CancelEnds, Return
  <2>2. Marked'
    BY <1>1, <2>1, RowsAreKin, MoveMarks
  <2>3. Tallied'
    BY <1>1, <2>1, EarlyTallies
  <2>. QED
    BY <2>2, <2>3
<1>. QED
  BY <1>2, <1>3

LEMMA DeliverMarks ==
    ASSUME BaseInv, Marked, Tallied, Deliver PROVE Marked' /\ Tallied'
<1>1. UNCHANGED <<inputs, ghosts, rows, result>> /\ pc = "returned" /\ pc' = "done"
  BY DEF Deliver
<1>2. Marked'
  BY <1>1, RowsAreKin, MoveMarks
<1>3. Rows' = Rows /\ cmd' = cmd
  BY <1>1, SameRun DEF inputs
<1>4. Tallied'
  BY <1>1, <1>3 DEF Tallied, Returned, FetchSteps
<1>. QED
  BY <1>2, <1>4

LEMMA NextMarks == BaseInv /\ Waited /\ Witnessed /\ Marked /\ Tallied /\ [Next]_vars => Marked' /\ Tallied'
  BY OthersMark, ExecBeginMarks, PreflightMarks, PlannedMarks, ExecTurnMarks, NotLaunchedMarks, LaunchMarks, CollectMarks,
     FetchBeginMarks, FetchPlanMarks, FetchTurnMarks, RecheckMarks, ObserveMarks, StartFetchMarks, FetchingMarks, FetchReturnsMarks,
     PushBeginMarks, PushPlanMarks, PushTurnMarks, PushObserveMarks, CancelMarks, DeliverMarks
     DEF Next, CommandStep, Others

-----------------------------------------------------------------------------
(* What was seen is kept                                                    *)
\* What was seen of a checkout and of a remote is not forgotten.
Grows == \A r \in Repos :
    /\ checkout'[r] \in been'[r] /\ been[r] \subseteq been'[r]
    /\ remote'[r].own \in advertised'[r] /\ advertised[r] \subseteq advertised'[r]

LEMMA WorldGrows ==
    ASSUME BaseInv, Witnessed, pc # "begin", [Next]_vars PROVE Grows
<1>1. CASE Edited
  BY <1>1 DEF Edited, Remember, Grows, BaseInv, TypeOK, WorldTypeOK
<1>2. CASE UNCHANGED <<checkout, remote, been, advertised>>
  BY <1>2 DEF Witnessed, Grows
<1>3. Edited \/ UNCHANGED <<checkout, remote, been, advertised>>
  <2>1. CASE Others \/ UNCHANGED vars
    BY <2>1 DEF Others, EditCheckout, UserSwitches, RemoteChanges, UserFetches, Interrupt, ProgramWorks, GitHelper, vars, world
  <2>2. CASE ExecBegin \/ Preflight \/ Planned \/ ExecTurn \/ NotLaunched \/ Launch \/ Attend \/ Collect
    BY <2>2 DEF ExecBegin, Preflight, Planned, ExecTurn, NotLaunched, Launch, Attend, Collect, Kept, world
  <2>3. CASE FetchBegin \/ FetchPlan \/ FetchTurn \/ Recheck \/ Observe \/ StartFetch \/ RefMoves \/ FetchBreaks \/ FetchReturns
    BY <2>3, SMTT(30) DEF FetchBegin, FetchPlan, FetchTurn, Recheck, Observe, StartFetch, RefMoves, FetchBreaks, FetchReturns, Kept, world
  <2>4. CASE PushBegin \/ PushLook \/ PushCompare \/ PushTurn \/ PushObserve
    BY <2>4 DEF PushBegin, PushLook, PushCompare, PushTurn, PushObserve, Kept, world
  <2>5. CASE CancelRow \/ CancelEnds \/ Deliver
    BY <2>5 DEF CancelRow, CancelEnds, Deliver, world
  <2>. QED
    BY <2>1, <2>2, <2>3, <2>4, <2>5, SMTT(30) DEF Next, CommandStep
<1>. QED
  BY <1>1, <1>2, <1>3

Seen == \A r \in Repos : checkout[r] \in been[r] /\ remote[r].own \in advertised[r]

LEMMA StartingSees == Starting => Seen'
  BY DEF Starting, Seen

LEMMA GrowsSees == Grows => Seen'
  BY DEF Grows, Seen

LEMMA KnownGrows ==
    ASSUME BaseInv, Grows, UNCHANGED inputs, NEW r \in Repos, plan'[r] = plan[r]
    PROVE  (Known(r) => Known(r)') /\ (Looked(r) => Looked(r)')
<1>1. Known(r) => Known(r)'
  BY DEF Known, Grows, inputs, Plausible
<1>2. Looked(r) => Looked(r)'
  BY DEF Looked, Grows, inputs, Plausible
<1>. QED
  BY <1>1, <1>2

LEMMA PublishedGrows ==
    ASSUME Grows, NEW r \in Repos, Published(r), rows'[r].head = rows[r].head
    PROVE  Published(r)'
  BY DEF Published, Grows

LEMMA StayWitness ==
    ASSUME BaseInv, Witnessed, pc # "begin" => Grows, UNCHANGED <<inputs, pc, pos, plan, rows, result, ghosts>>
    PROVE  Witnessed'
<1>1. /\ Rows' = Rows /\ RunOrder' = RunOrder /\ cmd' = cmd /\ ws' = ws /\ Pushing' = Pushing
      /\ Current' = Current /\ begun' = begun
  BY SameRun DEF inputs, Current, ghosts
<1>2. CASE pc = "begin"
  BY <1>1, <1>2 DEF Witnessed
<1>3. CASE pc # "begin"
  <2>1. Grows /\ Seen'
    BY <1>3, GrowsSees
  <2>2. \A r \in Repos : (Known(r) => Known(r)') /\ (Looked(r) => Looked(r)')
    BY <2>1, KnownGrows
  <2>3. Passed(pos)' = Passed(pos) /\ Passed(pos) \subseteq Repos
    BY <1>1, RunFacts DEF Passed, BaseInv, TypeOK, RunTypeOK
  <2>4. pc = "compare" => Current \in Repos
    BY AtARow DEF BaseInv, Located, AtRow
  <2>5. Pushing /\ pc \in {"turn", "observe"} => \A r \in Range(Rows) : Known(r)'
    BY <2>2, RunFacts DEF Witnessed
  <2>6. Pushing => \A r \in begun : rows'[r].status = "ready" => Published(r)'
    BY <2>1, PublishedGrows DEF Witnessed, BaseInv, TypeOK, GhostsTypeOK
  <2>. QED
    BY <1>1, <1>3, <2>1, <2>2, <2>3, <2>4, <2>5, <2>6 DEF Witnessed, Seen
<1>. QED
  BY <1>2, <1>3

\* exec and fetch only keep up with what is seen.
LEMMA OtherCommandsWitness ==
    ASSUME UNCHANGED inputs, cmd.name # "push", pc' # "begin" => Seen', BaseInv', Tallied'
    PROVE  Witnessed'
  BY DEF Witnessed, Seen, inputs, Pushing, BaseInv, Located, Tallied

\* A push that settles no more rows.
LEMMA LateWitness ==
    ASSUME BaseInv, Witnessed, Grows, UNCHANGED inputs, begun' = begun, pc' \in {"canceling", "returned", "done"},
           result' = "ready" => begun = Repos /\ ws.absent = {},
           \A r \in begun : rows'[r].status = "ready" => rows[r].status = "ready" /\ rows'[r].head = rows[r].head
    PROVE  Witnessed'
<1>1. Pushing' = Pushing /\ ws' = ws
  BY SameRun DEF inputs
<1>2. Seen'
  BY GrowsSees
<1>3. Pushing => \A r \in begun : rows'[r].status = "ready" => Published(r)'
  BY PublishedGrows DEF Witnessed, BaseInv, TypeOK, GhostsTypeOK
<1>. QED
  BY <1>1, <1>2, <1>3 DEF Witnessed, Seen

LEMMA PushBeginWitness ==
    ASSUME BaseInv, Witnessed, PushBegin PROVE Witnessed'
<1>1. /\ UNCHANGED inputs /\ begun' = begun /\ pc = "begin" /\ Pushing /\ begun = {} /\ Starting
      /\ pc' \in {"canceling", "plan", "returned"} /\ (pc' = "plan" => pos' = 1) /\ result' \in {result, "failed"}
  BY DEF PushBegin, Starting, ghosts, Witnessed, Return, Goto
<1>2. Pushing' = Pushing /\ ws' = ws /\ RunOrder' = RunOrder
  BY <1>1, SameRun DEF inputs
<1>3. Seen'
  BY <1>1, StartingSees
<1>4. pos' = 1 => Passed(pos)' = {}
  BY <1>2 DEF Passed
<1>. QED
  BY <1>1, <1>2, <1>3, <1>4 DEF Witnessed, Seen

\* One more repository is known.
LEMMA NextKnown ==
    ASSUME BaseInv, Tallied, Witnessed, Grows, UNCHANGED <<inputs, begun, rows>>, Pushing, pc \in {"plan", "compare"}, pos <= Len(Rows),
           NEW entry, plan' = [plan EXCEPT ![Current] = entry], \A r \in {Current} : Known(r)', NextLocal
    PROVE  Witnessed'
<1>1. /\ Rows' = Rows /\ RunOrder' = RunOrder /\ Pushing' = Pushing /\ ws' = ws /\ result' = result /\ result = "none"
      /\ begun = {} /\ begun' = begun
  BY SameRun DEF inputs, NextLocal, Goto, Tallied, Returned, Witnessed
<1>2. Seen'
  BY GrowsSees
<1>3. \A r \in Passed(pos) : Known(r)'
  <2>. SUFFICES ASSUME NEW r \in Passed(pos) PROVE Known(r)'
    OBVIOUS
  <2>1. PICK i \in 1..(pos - 1) : r = RunOrder[i]
    BY DEF Passed
  <2>2. r \in Range(Rows) /\ r # Current /\ r \in Repos
    BY <2>1, Earlier, RunFacts
  <2>3. plan'[r] = plan[r] /\ Known(r)
    BY <2>2 DEF BaseInv, TypeOK, RunTypeOK, Witnessed
  <2>. QED
    BY <2>2, <2>3, KnownGrows
<1>4. \A r \in Passed(pos) \cup {Current} : Known(r)'
  BY <1>3
<1>5. Passed(pos + 1) = Passed(pos) \cup {Current} /\ Passed(1) = {}
  <2>1. pos \in Nat \ {0} /\ pos + 1 - 1 = pos
    BY DEF BaseInv, TypeOK, RunTypeOK
  <2>2. 1..pos = 1..(pos - 1) \cup {pos} /\ 1..(1 - 1) = {}
    BY <2>1
  <2>. QED
    BY <2>1, <2>2 DEF Passed, Current
<1>6. CASE pos = Len(RunOrder) /\ Goto("turn", 1)
  <2>1. \A r \in Range(Rows) : Known(r)'
    <3>. SUFFICES ASSUME NEW r \in Range(Rows) PROVE Known(r)'
      OBVIOUS
    <3>1. PICK i \in 1..Len(Rows) : RunOrder[i] = r
      BY RunFacts
    <3>2. r \in Passed(pos) \cup {Current}
      <4>1. i = pos \/ i \in 1..(pos - 1)
        BY <1>6, <3>1, RunFacts
      <4>. QED
        BY <3>1, <4>1 DEF Passed, Current
    <3>. QED
      BY <1>4, <3>2
  <2>2. pc' = "turn" /\ pos' = 1 /\ Passed(pos)' = {}
    BY <1>1, <1>5, <1>6 DEF Goto, Passed
  <2>. QED
    BY <1>1, <1>2, <2>1, <2>2 DEF Witnessed, Seen
<1>7. CASE Goto("plan", pos + 1)
  <2>1. pc' = "plan" /\ Passed(pos)' = Passed(pos) \cup {Current}
    BY <1>1, <1>5, <1>7 DEF Goto, Passed
  <2>. QED
    BY <1>1, <1>2, <1>4, <2>1 DEF Witnessed, Seen
<1>. QED
  BY <1>6, <1>7 DEF NextLocal

-----------------------------------------------------------------------------
(* What push sees                                                           *)
LEMMA PushLookWitness ==
    ASSUME BaseInv, Tallied, Witnessed, Grows, PushLook PROVE Witnessed'
<1>1. /\ UNCHANGED <<inputs, rows>> /\ begun' = begun /\ pc = "plan" /\ Pushing /\ pos <= Len(Rows) /\ result = "none" /\ begun = {}
  BY DEF PushLook, Kept, ghosts, BaseInv, Located, Tallied, Returned, Witnessed
<1>2. plan \in [Repos -> {None} \cup PlanType] /\ Current \in Repos /\ checkout[Current] \in CheckoutType
  BY <1>1, AtARow DEF BaseInv, TypeOK, RunTypeOK, WorldTypeOK
<1>3. CASE Goto("canceling", 1) /\ UNCHANGED plan
  BY <1>1, <1>3, LateWitness DEF Goto
<1>4. Partial \in SUBSET Findings /\ {"missing-repository"} \in SUBSET Findings
      /\ {"missing-repository"} \cup Partial \in SUBSET Findings /\ {"missing-repository"} \cup Partial # {}
  BY DEF Partial, Findings
<1>. DEFINE new == NewRow(Current)
<1>5. new \in RowType /\ new.status = "ready" /\ new.findings = {} /\ Plausible(new)
  BY <1>1, NewRowTyped DEF NewRow, Unsettled, Pushing, Plausible
<1>6. ASSUME NEW row, Plausible(row), row.status # "ready", plan' = [plan EXCEPT ![Current] = Local(row, FALSE, FALSE)], NextLocal
      PROVE  Witnessed'
  <2>1. plan'[Current] = Local(row, FALSE, FALSE)
    BY <1>2, <1>6
  <2>2. \A r \in {Current} : Known(r)'
    BY <1>6, <2>1 DEF Known, Local, Plausible
  <2>. QED
    BY <1>1, <1>6, <2>2, NextKnown
<1>7. CASE NextLocal /\ plan' = [plan EXCEPT ![Current] = Local(Blocked(new, {"missing-repository"}), FALSE, FALSE)]
  <2>. HIDE DEF new
  <2>1. Plausible(Blocked(new, {"missing-repository"})) /\ Blocked(new, {"missing-repository"}).status # "ready"
    BY <1>4, <1>5, BlockedFacts
  <2>. QED
    BY <1>6, <1>7, <2>1
<1>8. CASE NextLocal /\ plan' = [plan EXCEPT ![Current] = Local(Blocked(new, {"missing-repository"} \cup Partial), FALSE, FALSE)]
  <2>. HIDE DEF new
  <2>1. Plausible(Blocked(new, {"missing-repository"} \cup Partial)) /\ Blocked(new, {"missing-repository"} \cup Partial).status # "ready"
    BY <1>4, <1>5, BlockedFacts
  <2>. QED
    BY <1>6, <1>8, <2>1
<1>9. CASE NextLocal /\ plan' = [plan EXCEPT ![Current] = Local(Blocked([new EXCEPT !.status = "failed"], Partial), FALSE, FALSE)]
  <2>. HIDE DEF new
  <2>1. [new EXCEPT !.status = "failed"] \in RowType /\ [new EXCEPT !.status = "failed"].status = "failed"
    BY <1>5 DEF RowType, Statuses
  <2>2. Plausible([new EXCEPT !.status = "failed"])
    BY <2>1 DEF Plausible
  <2>3. Plausible(Blocked([new EXCEPT !.status = "failed"], Partial)) /\ Blocked([new EXCEPT !.status = "failed"], Partial).status # "ready"
    BY <1>4, <2>1, <2>2, BlockedFacts
  <2>. QED
    BY <1>6, <1>9, <2>3
<1>. DEFINE c == checkout[Current]
            row == [new EXCEPT !.head = c.at]
            found == If(c.dir # "own", "identity-mismatch")
                     \cup If(c.branch = "none", "detached") \cup If(c.branch = "other", "identity-mismatch")
<1>10. CASE Goto("compare", pos) /\ plan' = [plan EXCEPT ![Current] = Local(Blocked(row, found), c.branch = "none", FALSE)]
  <2>1. row \in RowType /\ row.head = c.at /\ row.status = "ready" /\ row.findings = {}
    <3>. HIDE DEF new
    <3>. QED
      BY <1>2, <1>5 DEF RowType, CheckoutType
  <2>2. found \in SUBSET Findings
    BY DEF If, Findings
  <2>3. found = {} => c.dir = "own" /\ c.branch = "own"
    BY <1>2 DEF If, CheckoutType
  <2>4. plan'[Current] = Local(Blocked(row, found), c.branch = "none", FALSE)
    BY <1>2, <1>10
  <2>5. Plausible(row)
    BY <2>1 DEF Plausible
  <2>6. c \in been'[Current]
    BY <1>2 DEF Grows, PushLook, Kept, world
  <2>. HIDE DEF row, found, c
  <2>7. Plausible(Blocked(row, found)) /\ (Blocked(row, found).status = "ready" => found = {} /\ Blocked(row, found) = row)
    BY <2>1, <2>2, <2>5, BlockedFacts
  <2>8. \A r \in {Current} : Looked(r)'
    <3>1. plan'[Current].row = Blocked(row, found) /\ plan'[Current].detached = (c.branch = "none")
      BY <2>4 DEF Local
    <3>2. Blocked(row, found).status = "ready" =>
              /\ Blocked(row, found).findings = {} /\ c.branch # "none"
              /\ OnBranchAt(c, Blocked(row, found).head)
      BY <2>1, <2>3, <2>7 DEF OnBranchAt
    <3>3. Blocked(row, found).status = "ready" =>
              /\ plan'[Current].row.findings = {} /\ ~plan'[Current].detached
              /\ \E k \in been'[Current] : OnBranchAt(k, plan'[Current].row.head)
      BY <2>6, <3>1, <3>2
    <3>. QED
      BY <2>7, <3>1, <3>3 DEF Looked, Plausible
  <2>9. /\ Rows' = Rows /\ RunOrder' = RunOrder /\ Pushing' = Pushing /\ pc' = "compare" /\ pos' = pos /\ Current' = Current
        /\ result' = "none"
    BY <1>1, <1>10, SameRun DEF inputs, Goto, Current
  <2>10. Passed(pos)' = Passed(pos)
    BY <2>9 DEF Passed
  <2>11. \A r \in Passed(pos) : Known(r)'
    <3>. SUFFICES ASSUME NEW r \in Passed(pos) PROVE Known(r)'
      OBVIOUS
    <3>1. PICK i \in 1..(pos - 1) : r = RunOrder[i]
      BY DEF Passed
    <3>2. r \in Range(Rows) /\ r # Current /\ r \in Repos
      BY <1>1, <3>1, Earlier, RunFacts
    <3>3. plan'[r] = plan[r] /\ Known(r)
      BY <1>1, <1>2, <1>10, <3>2 DEF Witnessed
    <3>. QED
      BY <1>1, <3>2, <3>3, KnownGrows
  <2>12. Seen'
    BY GrowsSees
  <2>. QED
    BY <1>1, <2>8, <2>9, <2>10, <2>11, <2>12 DEF Witnessed, Seen
<1>11. \/ Goto("canceling", 1) /\ UNCHANGED plan
       \/ NextLocal /\ plan' = [plan EXCEPT ![Current] = Local(Blocked(new, {"missing-repository"}), FALSE, FALSE)]
       \/ NextLocal /\ plan' = [plan EXCEPT ![Current] = Local(Blocked(new, {"missing-repository"} \cup Partial), FALSE, FALSE)]
       \/ NextLocal /\ plan' = [plan EXCEPT ![Current] = Local(Blocked([new EXCEPT !.status = "failed"], Partial), FALSE, FALSE)]
       \/ Goto("compare", pos) /\ plan' = [plan EXCEPT ![Current] = Local(Blocked(row, found), c.branch = "none", FALSE)]
  BY DEF PushLook
<1>. HIDE DEF new, c, row, found
<1>. QED
  BY <1>3, <1>7, <1>8, <1>9, <1>10, <1>11

LEMMA PushCompareWitness ==
    ASSUME BaseInv, Tallied, Witnessed, Grows, PushCompare PROVE Witnessed'
<1>1. /\ UNCHANGED <<inputs, rows>> /\ begun' = begun /\ pc = "compare" /\ Pushing /\ pos <= Len(Rows) /\ result = "none" /\ begun = {}
      /\ PlannedBefore(pos) /\ PlanType = PushPlan
  BY PushRows DEF PushCompare, Kept, ghosts, BaseInv, Located, Learned, AtRow, Tallied, Returned, Witnessed
<1>2. plan \in [Repos -> {None} \cup PlanType] /\ Current \in Repos /\ checkout[Current] \in CheckoutType /\ tracking[Current] \in TrackingType
      /\ plan[Current] \in PushPlan /\ Looked(Current)
  BY <1>1, AtARow DEF BaseInv, TypeOK, RunTypeOK, WorldTypeOK, PlannedBefore, Current, Witnessed
<1>3. CASE Goto("canceling", 1) /\ UNCHANGED plan
  BY <1>1, <1>3, LateWitness DEF Goto
<1>4. Partial \in SUBSET Findings /\ (Partial = {} => ws.absent = {})
  BY DEF Partial, Findings
<1>. DEFINE c == checkout[Current]
            before == plan[Current].row
            status == If(~c.clean, "dirty") \cup If(c.at = 0, "metadata-commit-unavailable")
            unset == c.branch = "none" \/ c.upstream = "none"
            upstream == Distance(c.at, tracking[Current][c.upstream])
                        \cup If(c.branch # "own" \/ c.upstream # "own", "identity-mismatch")
            codes == status \cup IF plan[Current].detached THEN {}
                                 ELSE IF unset THEN {"missing-upstream"} ELSE upstream
            row == Blocked(before, codes)
            observe == ~plan[Current].detached /\ ~unset /\ row.findings \cap NoAuthority = {}
<1>5. before \in RowType /\ Plausible(before) /\ plan[Current].detached \in BOOLEAN
  BY <1>2 DEF PushPlan, Looked
<1>6. codes \in SUBSET Findings
  <2>1. status \in SUBSET Findings
    BY DEF If, Findings
  <2>2. upstream \in SUBSET Findings
    BY DEF If, Findings, Distance
  <2>3. {"missing-upstream"} \in SUBSET Findings
    BY DEF Findings
  <2>. HIDE DEF status, upstream, unset
  <2>. QED
    BY <2>1, <2>2, <2>3
<1>7. codes = {} /\ ~plan[Current].detached => Tidy(c) /\ ~unset
  <2>1. status = {} => c.clean /\ c.at # 0
    BY DEF If
  <2>2. upstream = {} => c.branch = "own" /\ c.upstream = "own"
    BY DEF If
  <2>3. codes = {} /\ ~plan[Current].detached => status = {} /\ ~unset /\ upstream = {}
    <3>. HIDE DEF status, upstream, unset
    <3>. QED
      BY SMTT(30)
  <2>. QED
    BY <2>1, <2>2, <2>3 DEF Tidy
<1>8. c \in been'[Current]
  BY <1>2 DEF Grows, PushCompare, Kept, world
<1>9. Looked(Current) /\ before.status = "ready" => ~plan[Current].detached /\ before.findings = {} /\ \E k \in been'[Current] : OnBranchAt(k, before.head)
  BY <1>2 DEF Looked, Grows
<1>10. CASE NextLocal /\ plan' = [plan EXCEPT ![Current] = Local(Blocked(row, Partial), plan[Current].detached, observe)]
  <2>. HIDE DEF codes, before, c, unset
  <2>1. row \in RowType /\ Plausible(row) /\ (row.status = "ready" => before.status = "ready" /\ codes = {} /\ row = before)
    BY <1>5, <1>6, BlockedFacts
  <2>2. observe <=> ~plan[Current].detached /\ ~unset /\ row.findings \cap NoAuthority = {}
    OBVIOUS
  <2>. HIDE DEF row, observe
  <2>3. Plausible(Blocked(row, Partial)) /\ (Blocked(row, Partial).status = "ready" => row.status = "ready" /\ Partial = {} /\ Blocked(row, Partial) = row)
    BY <1>4, <2>1, BlockedFacts
  <2>4. plan'[Current] = Local(Blocked(row, Partial), plan[Current].detached, observe)
    BY <1>2, <1>10
  <2>5. Blocked(row, Partial).status = "ready" =>
            /\ observe = TRUE /\ ws.absent = {}
            /\ \E k \in been'[Current] : OnBranchAt(k, Blocked(row, Partial).head)
            /\ \E k \in been'[Current] : Tidy(k)
    BY <1>2, <1>4, <1>7, <1>8, <1>9, <2>1, <2>2, <2>3
  <2>6. ws' = ws
    BY <1>1 DEF inputs
  <2>7. \A r \in {Current} : Known(r)'
    BY <2>3, <2>4, <2>5, <2>6 DEF Known, Local, Plausible
  <2>. QED
    BY <1>1, <1>10, <2>7, NextKnown
<1>11. CASE NextLocal /\ plan' = [plan EXCEPT ![Current] =
              Local(Blocked([before EXCEPT !.status = "failed"], Partial), plan[Current].detached, FALSE)]
  <2>. HIDE DEF before
  <2>1. [before EXCEPT !.status = "failed"] \in RowType /\ [before EXCEPT !.status = "failed"].status = "failed"
    BY <1>5 DEF RowType, Statuses
  <2>2. Plausible([before EXCEPT !.status = "failed"])
    BY <2>1 DEF Plausible
  <2>3. Plausible(Blocked([before EXCEPT !.status = "failed"], Partial)) /\ Blocked([before EXCEPT !.status = "failed"], Partial).status # "ready"
    BY <1>4, <2>1, <2>2, BlockedFacts
  <2>4. plan'[Current] = Local(Blocked([before EXCEPT !.status = "failed"], Partial), plan[Current].detached, FALSE)
    BY <1>2, <1>11
  <2>5. \A r \in {Current} : Known(r)'
    BY <2>3, <2>4 DEF Known, Local, Plausible
  <2>. QED
    BY <1>1, <1>11, <2>5, NextKnown
<1>12. \/ Goto("canceling", 1) /\ UNCHANGED plan
       \/ NextLocal /\ plan' = [plan EXCEPT ![Current] = Local(Blocked(row, Partial), plan[Current].detached, observe)]
       \/ NextLocal /\ plan' = [plan EXCEPT ![Current] =
              Local(Blocked([before EXCEPT !.status = "failed"], Partial), plan[Current].detached, FALSE)]
  BY DEF PushCompare
<1>. HIDE DEF before, row, observe
<1>. QED
  BY <1>3, <1>10, <1>11, <1>12

LEMMA PushSettleWitness ==
    ASSUME BaseInv, Tallied, Witnessed, Grows, UNCHANGED <<inputs, plan>>, Pushing, pos <= Len(Rows), pc \in {"turn", "observe"},
           begun' \in {begun, begun \cup {Current}}, NEW row \in RowType, PushSettle(row),
           row.status = "ready" =>
               /\ Current \in begun' /\ ws.absent = {} /\ row.head \in advertised'[Current]
               /\ \E c \in been'[Current] : OnBranchAt(c, row.head)
               /\ \E c \in been'[Current] : Tidy(c)
    PROVE  Witnessed'
<1>. DEFINE rs == [rows EXCEPT ![Current] = row]
<1>1. rows \in [Range(Rows) -> RowType] /\ Current \in Range(Rows) /\ Current \in Repos /\ result = "none" /\ Range(Rows) = Repos /\ begun \subseteq Repos
      /\ pos \in 1..(Len(Rows) + 1)
  BY AtARow, PushRows DEF BaseInv, TypeOK, RunTypeOK, GhostsTypeOK, Tallied, Returned
<1>2. /\ Rows' = Rows /\ RunOrder' = RunOrder /\ Pushing' = Pushing /\ ws' = ws
  BY SameRun DEF inputs
<1>3. Seen'
  BY GrowsSees
<1>4. rs \in [Range(Rows) -> RowType] /\ rs[Current] = row /\ \A r \in Range(Rows) \ {Current} : rs[r] = rows[r]
  BY <1>1
<1>5. ASSUME NEW r \in begun', rs[r].status = "ready", rows'[r].head = rs[r].head PROVE Published(r)'
  <2>1. CASE r = Current
    BY <1>4, <1>5, <2>1 DEF Published
  <2>2. CASE r # Current
    <3>1. r \in begun /\ r \in Repos /\ rs[r] = rows[r]
      BY <1>1, <1>4, <2>2
    <3>2. Published(r)
      BY <1>5, <3>1 DEF Witnessed
    <3>. HIDE DEF rs
    <3>. QED
      BY <1>5, <3>1, <3>2, PublishedGrows
  <2>. QED
    BY <2>1, <2>2
<1>6. CASE Settle(rs, Goto("turn", pos + 1))
  <2>. HIDE DEF rs
  <2>1. \/ rows' = rs /\ pc' = "turn" /\ pos' = pos + 1 /\ result' = result
        \/ rows' = Canceled(rs, pos + 1) /\ pc' = "returned" /\ result' = "failed"
    BY <1>6, SettleCases
  <2>2. CASE rows' = Canceled(rs, pos + 1) /\ pc' = "returned" /\ result' = "failed"
    <3>1. \A r \in Repos : rows'[r].head = rs[r].head /\ (rows'[r].status = "ready" => rs[r].status = "ready")
      BY <1>1, <1>4, <2>2, CanceledFields DEF Same
    <3>2. \A r \in begun' : rows'[r].status = "ready" => Published(r)'
      BY <1>1, <1>5, <3>1
    <3>. QED
      BY <1>2, <1>3, <2>2, <3>2 DEF Witnessed, Seen
  <2>3. CASE rows' = rs /\ pc' = "turn" /\ pos' = pos + 1 /\ result' = result
    <3>1. \A r \in begun' : rows'[r].status = "ready" => Published(r)'
      BY <1>5, <2>3
    <3>2. Passed(pos)' = Passed(pos) \cup {Current}
      <4>1. 1..(pos + 1 - 1) = 1..(pos - 1) \cup {pos}
        BY <1>1
      <4>. QED
        BY <1>2, <2>3, <4>1 DEF Passed, Current
    <3>3. ASSUME NEW r \in Passed(pos) \cup {Current}, rs[r].status = "ready" PROVE r \in begun' /\ ws.absent = {}
      <4>1. CASE r = Current
        BY <1>4, <3>3, <4>1
      <4>2. CASE r # Current
        <5>1. r \in Passed(pos) /\ r \in Range(Rows) /\ rs[r] = rows[r]
          BY <1>4, <3>3, <4>2, Earlier DEF Passed
        <5>. QED
          BY <3>3, <5>1 DEF Witnessed
      <4>. QED
        BY <4>1, <4>2
    <3>4. \A r \in Repos : Known(r)'
      BY <1>1, KnownGrows DEF Witnessed
    <3>. QED
      BY <1>1, <1>2, <1>3, <2>3, <3>1, <3>2, <3>3, <3>4 DEF Witnessed, Seen
  <2>. QED
    BY <2>1, <2>2, <2>3
<1>7. CASE rows' = CanceledBefore(pos + 1) /\ Goto("canceling", pos + 1)
  <2>1. pc' = "canceling" /\ result' = result
    BY <1>7 DEF Goto
  <2>2. pos \in 1..((pos + 1) - 1) /\ RunOrder[pos] = Current
    BY <1>1 DEF Current
  <2>3. CanceledBefore(pos + 1)[Current] = [rows[Current] EXCEPT !.status = "canceled"]
    BY <1>1, <2>2 DEF CanceledBefore
  <2>4. rows'[Current].status = "canceled"
    BY <1>1, <1>7, <2>3 DEF RowType
  <2>5. \A r \in Repos : rows'[r].head = rows[r].head /\ (rows'[r].status = "ready" => rows[r].status = "ready")
    BY <1>1, <1>7, CanceledBeforeFields DEF Same
  <2>6. ASSUME NEW r \in begun', rows'[r].status = "ready" PROVE Published(r)'
    <3>1. r \in begun /\ r \in Repos /\ rows[r].status = "ready" /\ rows'[r].head = rows[r].head
      BY <1>1, <2>4, <2>5, <2>6
    <3>2. Published(r)
      BY <3>1 DEF Witnessed
    <3>. QED
      BY <3>1, <3>2, PublishedGrows
  <2>. QED
    BY <1>1, <1>2, <1>3, <2>1, <2>6 DEF Witnessed, Seen
<1>. QED
  BY <1>6, <1>7 DEF PushSettle

LEMMA CancelPushWitness ==
    ASSUME BaseInv, Tallied, Witnessed, Grows, UNCHANGED inputs, begun' = begun, Pushing, ~Returned, CancelPush
    PROVE  Witnessed'
<1>1. pc' = "canceling" /\ result' = "none" /\ begun \subseteq Range(Rows)
  BY PushRows DEF CancelPush, Goto, Tallied, BaseInv, TypeOK, GhostsTypeOK
<1>2. \A r \in begun : rows'[r].status = "ready" => rows[r].status = "ready" /\ rows'[r].head = rows[r].head
  BY <1>1, CanceledBeforeFields DEF CancelPush, Same
<1>. QED
  BY <1>1, <1>2, LateWitness

LEMMA PushTurnWitness ==
    ASSUME BaseInv, Tallied, Witnessed, Grows, PushTurn PROVE Witnessed'
<1>1. UNCHANGED <<inputs, plan>> /\ begun' = begun /\ pc = "turn" /\ Pushing /\ ~Returned /\ PlannedAll /\ PlanType = PushPlan /\ result = "none"
  BY PushRows DEF PushTurn, Kept, ghosts, Returned, BaseInv, Learned, Tallied
<1>2. Range(Rows) = Repos /\ Len(Rows) >= 1 /\ DOMAIN rows = Repos /\ pos \in 1..(Len(Rows) + 1)
  BY <1>1, PushRows DEF BaseInv, TypeOK, RunTypeOK
<1>3. CASE Finished /\ Return(PushOutcome) /\ UNCHANGED rows
  <2>1. PushOutcome = "ready" => \A r \in Repos : rows[r].status = "ready"
    BY <1>1, <1>2 DEF PushOutcome, Tallied, Pushing
  <2>2. Passed(pos) = Repos
    <3>1. pos - 1 = Len(Rows)
      BY <1>2, <1>3, RunFacts DEF Finished
    <3>2. Passed(pos) = {RunOrder[i] : i \in 1..Len(Rows)}
      BY <3>1 DEF Passed
    <3>3. \A r \in Repos : r \in Passed(pos)
      BY <1>2, <3>2, RunFacts
    <3>4. Passed(pos) \subseteq Repos
      BY <1>2, <3>2, RunFacts
    <3>. QED
      BY <3>3, <3>4
  <2>3. PushOutcome = "ready" => begun = Repos /\ ws.absent = {}
    <3>. SUFFICES ASSUME PushOutcome = "ready" PROVE begun = Repos /\ ws.absent = {}
      OBVIOUS
    <3>1. \A r \in Repos : r \in begun /\ ws.absent = {}
      BY <1>1, <2>1, <2>2 DEF Witnessed
    <3>2. Base \in Repos
      BY <1>1, PushRows
    <3>. QED
      BY <3>1, <3>2 DEF BaseInv, TypeOK, GhostsTypeOK
  <2>4. pc' = "returned" /\ result' = PushOutcome
    BY <1>3 DEF Return
  <2>. HIDE DEF PushOutcome
  <2>. QED
    BY <1>1, <1>3, <2>3, <2>4, LateWitness
<1>4. CASE CancelPush
  BY <1>1, <1>4, CancelPushWitness
<1>5. CASE Goto("observe", pos) /\ UNCHANGED rows
  <2>1. /\ Rows' = Rows /\ RunOrder' = RunOrder /\ Pushing' = Pushing /\ ws' = ws /\ pos' = pos /\ pc' = "observe" /\ result' = "none"
    BY <1>1, <1>5, SameRun DEF inputs, Goto
  <2>2. Passed(pos)' = Passed(pos)
    BY <2>1 DEF Passed
  <2>3. \A r \in Repos : Known(r)'
    BY <1>1, <1>2, KnownGrows DEF Witnessed
  <2>4. \A r \in begun : rows'[r].status = "ready" => Published(r)'
    BY <1>1, <1>5, PublishedGrows DEF Witnessed, BaseInv, TypeOK, GhostsTypeOK
  <2>5. Seen'
    BY GrowsSees
  <2>. QED
    BY <1>1, <1>2, <1>5, <2>1, <2>2, <2>3, <2>4, <2>5 DEF Witnessed, Seen
<1>6. CASE ~Finished /\ ~plan[Current].remoteOK /\ PushSettle(plan[Current].row)
  <2>1. pos <= Len(Rows) /\ Current \in Range(Rows)
    BY <1>6, Unfinished, AtARow
  <2>2. plan[Current].row \in RowType /\ plan[Current].row.status # "ready"
    BY <1>1, <1>6, <2>1 DEF PlannedAll, PushPlan, Witnessed, Known
  <2>. QED
    BY <1>1, <1>6, <2>1, <2>2, PushSettleWitness
<1>. QED
  BY <1>3, <1>4, <1>5, <1>6 DEF PushTurn

LEMMA PushObserveWitness ==
    ASSUME BaseInv, Tallied, Witnessed, Grows, PushObserve PROVE Witnessed'
<1>1. UNCHANGED <<inputs, plan, remote>> /\ pc = "observe" /\ Pushing /\ ~Returned /\ PlannedAll /\ pos <= Len(Rows)
  BY DEF PushObserve, world, Returned, BaseInv, Learned, Located, AtRow
<1>2. CASE CancelPush /\ UNCHANGED ghosts
  BY <1>1, <1>2, CancelPushWitness DEF ghosts
<1>3. CASE Begins(Current) /\ \E row : Observed(row) /\ PushSettle(row)
  <2>1. PICK row : Observed(row) /\ PushSettle(row)
    BY <1>3
  <2>2. Current \in Range(Rows) /\ Current \in Repos /\ Known(Current)
    BY <1>1, AtARow DEF Witnessed
  <2>3. /\ row \in RowType /\ row.head = plan[Current].row.head
        /\ row.status = "ready" => plan[Current].row.status = "ready" /\ remote[Current].own = row.head
    BY <1>1, <2>1, <2>2, ObservedFacts DEF Known
  <2>4. begun' = begun \cup {Current}
    BY <1>3 DEF Begins
  <2>5. row.status = "ready" =>
            /\ ws.absent = {} /\ row.head \in advertised'[Current]
            /\ \E c \in been'[Current] : OnBranchAt(c, row.head)
            /\ \E c \in been'[Current] : Tidy(c)
    BY <1>1, <2>2, <2>3 DEF Known, Grows
  <2>. QED
    BY <1>1, <2>1, <2>3, <2>4, <2>5, PushSettleWitness
<1>. QED
  BY <1>2, <1>3, PushObserveCases

LEMMA PushEndsWitness ==
    ASSUME BaseInv, Tallied, Witnessed, Grows, Pushing, CancelRow \/ CancelEnds \/ Deliver PROVE Witnessed'
<1>1. UNCHANGED inputs /\ begun' = begun /\ begun \subseteq Range(Rows) /\ rows \in [Range(Rows) -> RowType]
  BY PushRows DEF CancelRow, CancelEnds, Deliver, ghosts, BaseInv, TypeOK, GhostsTypeOK, RunTypeOK
<1>2. CASE CancelRow
  <2>1. pos <= Len(Rows) /\ result = "none"
    BY <1>2, Unfinished DEF CancelRow, Tallied, Returned
  <2>2. Row("canceled") \in [Range(Rows) -> RowType] /\ \A r \in Range(Rows) :
            Row("canceled")[r].head = rows[r].head /\ (Row("canceled")[r].status = "ready" => rows[r].status = "ready")
    BY RowKeeps, RowFields DEF Statuses, Same
  <2>3. \/ rows' = Row("canceled") /\ pc' = "canceling" /\ result' = result
        \/ rows' = Canceled(Row("canceled"), pos + 1) /\ pc' = "returned" /\ result' = "failed"
    BY <1>2, SettleCases DEF CancelRow
  <2>4. \A r \in Range(Rows) : rows'[r].head = rows[r].head /\ (rows'[r].status = "ready" => rows[r].status = "ready")
    <3>1. CASE rows' = Row("canceled")
      BY <2>2, <3>1
    <3>2. CASE rows' = Canceled(Row("canceled"), pos + 1)
      <4>1. \A r \in Range(Rows) : Canceled(Row("canceled"), pos + 1)[r].head = Row("canceled")[r].head
                 /\ (Canceled(Row("canceled"), pos + 1)[r].status = "ready" => Row("canceled")[r].status = "ready")
        BY <2>2, CanceledFields DEF Same
      <4>. QED
        BY <2>2, <3>2, <4>1
    <3>. QED
      BY <2>3, <3>1, <3>2
  <2>5. pc' \in {"canceling", "returned"} /\ result' # "ready"
    BY <2>1, <2>3
  <2>. QED
    BY <1>1, <2>4, <2>5, LateWitness
<1>3. CASE CancelEnds
  BY <1>1, <1>3, LateWitness DEF CancelEnds, Return
<1>4. CASE Deliver
  BY <1>1, <1>4, LateWitness DEF Deliver, Witnessed
<1>. QED
  BY <1>2, <1>3, <1>4

LEMMA SeenNext == BaseInv /\ Witnessed /\ [Next]_vars /\ pc' # "begin" => Seen'
<1>. SUFFICES ASSUME BaseInv, Witnessed, [Next]_vars, pc' # "begin" PROVE Seen'
  OBVIOUS
<1>1. CASE pc # "begin"
  BY <1>1, WorldGrows, GrowsSees
<1>2. CASE pc = "begin"
  <2>1. CASE Others \/ UNCHANGED vars
    BY <1>2, <2>1, ZenonT(60) DEF Others, EditCheckout, UserSwitches, RemoteChanges, UserFetches, Edited, Interrupt, ProgramWorks, GitHelper, vars
  <2>2. CASE ExecBegin \/ FetchBegin \/ PushBegin
    BY <2>2, StartingSees DEF ExecBegin, FetchBegin, PushBegin
  <2>3. CASE CommandStep /\ ~(ExecBegin \/ FetchBegin \/ PushBegin)
    BY <1>2, <2>3 DEF CommandStep, Preflight, Planned, ExecTurn, NotLaunched, Launch, Attend, Collect, FetchPlan, FetchTurn,
       Recheck, Observe, StartFetch, RefMoves, FetchBreaks, FetchReturns, PushLook, PushCompare, PushTurn, PushObserve,
       CancelRow, CancelEnds, Deliver
  <2>. QED
    BY <2>1, <2>2, <2>3, SMTT(30) DEF Next
<1>. QED
  BY <1>1, <1>2

LEMMA InputsStay == [Next]_vars => UNCHANGED inputs
<1>. SUFFICES ASSUME [Next]_vars PROVE UNCHANGED inputs
  OBVIOUS
<1>1. CASE Others \/ UNCHANGED vars
  BY <1>1 DEF Others, EditCheckout, UserSwitches, RemoteChanges, UserFetches, Edited, Interrupt, ProgramWorks, GitHelper, vars
<1>2. CASE CommandStep
  BY <1>2 DEF CommandStep, Starting, Kept, ExecBegin, Preflight, Planned, ExecTurn, NotLaunched, Launch, Attend, Collect,
     FetchBegin, FetchPlan, FetchTurn, Recheck, Observe, StartFetch, RefMoves, FetchBreaks, FetchReturns, PushBegin,
     PushLook, PushCompare, PushTurn, PushObserve, CancelRow, CancelEnds, Deliver
<1>. QED
  BY <1>1, <1>2 DEF Next

LEMMA NextWitness == BaseInv /\ BaseInv' /\ Tallied /\ Tallied' /\ Witnessed /\ [Next]_vars => Witnessed'
<1>. SUFFICES ASSUME BaseInv, BaseInv', Tallied, Tallied', Witnessed, [Next]_vars PROVE Witnessed'
  OBVIOUS
<1>1. UNCHANGED inputs
  BY InputsStay
<1>2. pc # "begin" => Grows
  BY WorldGrows
<1>3. CASE Others \/ Attend \/ UNCHANGED vars
  <2>1. UNCHANGED <<inputs, pc, pos, plan, rows, result, ghosts>>
    BY <1>3 DEF Others, EditCheckout, UserSwitches, RemoteChanges, UserFetches, Edited, Interrupt, ProgramWorks, GitHelper, Attend, vars
  <2>. QED
    BY <1>2, <2>1, StayWitness, SMTT(30)
<1>4. CASE cmd.name # "push"
  BY <1>1, <1>4, SeenNext, OtherCommandsWitness
<1>5. CASE Pushing /\ CommandStep /\ ~Attend
  <2>1. PushBegin \/ PushLook \/ PushCompare \/ PushTurn \/ PushObserve \/ CancelRow \/ CancelEnds \/ Deliver
    BY <1>5 DEF CommandStep, ExecBegin, Preflight, Planned, ExecTurn, NotLaunched, Launch, Collect, FetchBegin, FetchPlan,
       FetchTurn, Recheck, Observe, StartFetch, RefMoves, FetchBreaks, FetchReturns, Pushing, Fetching, BaseInv, Located, FetchSteps
  <2>2. CASE PushBegin
    BY <2>2, PushBeginWitness
  <2>3. CASE ~PushBegin
    <3>1. pc # "begin"
      BY <2>1, <2>3 DEF PushLook, PushCompare, PushTurn, PushObserve, CancelRow, CancelEnds, Deliver
    <3>. QED
      BY <1>2, <1>5, <2>1, <2>3, <3>1, PushLookWitness, PushCompareWitness, PushTurnWitness, PushObserveWitness, PushEndsWitness, SMTT(30)
  <2>. QED
    BY <2>2, <2>3
<1>. QED
  BY <1>3, <1>4, <1>5 DEF Next, Pushing

LEMMA InitWitness == Init => Witnessed
<1>. SUFFICES ASSUME Init PROVE Witnessed
  OBVIOUS
<1>. QED
  BY DEF Init, Witnessed

LEMMA WitnessFollows ==
    ASSUME BaseInv, Witnessed PROVE ReadyWasPublished
<1>1. Pushing /\ Returned /\ result = "ready" => begun = Repos /\ ws.absent = {}
  BY DEF Witnessed
<1>2. ASSUME Pushing, NEW r \in DOMAIN rows, r \in begun, rows[r].status = "ready"
      PROVE  /\ \E c \in been[r] : c.dir = "own" /\ c.branch = "own" /\ c.at = rows[r].head
             /\ \E c \in been[r] : c.clean /\ c.at # 0 /\ c.branch = "own" /\ c.upstream = "own"
             /\ rows[r].head \in advertised[r]
  BY <1>2 DEF Witnessed, Published, OnBranchAt, Tidy
<1>. QED
  BY <1>1, <1>2 DEF ReadyWasPublished

-----------------------------------------------------------------------------
(* What was written is kept                                                 *)
LEMMA StayWrites ==
    ASSUME BaseInv, Written, UNCHANGED <<inputs, pc, pos, plan, rows, result, output>>, canceled => canceled', Returned => canceled' = canceled
    PROVE  Written'
<1>1. /\ Rows' = Rows /\ RunOrder' = RunOrder /\ Streams' = Streams /\ Pushing' = Pushing /\ cmd' = cmd
      /\ shown' = shown /\ streamed' = streamed /\ broken' = broken /\ (Excused => Excused')
  BY SameRun DEF inputs, output, Excused
<1>3. Sent(pos - 1) => Sent(pos - 1)'
  BY <1>1 DEF Sent
<1>4. Sent(Len(Rows)) => Sent(Len(Rows))'
  BY <1>1 DEF Sent
<1>5. Returned => canceled' = canceled
  OBVIOUS
<1>6. pc = "done" => OutputIsTheResult'
  BY <1>1, <1>5 DEF Written, OutputIsTheResult, Returned
<1>. QED
  BY <1>1, <1>3, <1>4, <1>6 DEF Written

\* A command ends before its turns, or comes to them.
LEMMA EarlyWrites ==
    ASSUME BaseInv, Written, UNCHANGED <<inputs, output>>, pc \in {"begin", "plan", "compare"},
           \/ /\ pc' = "returned" /\ (result' = "failed" \/ ~Streams)
              /\ Pushing => pc = "begin" /\ UNCHANGED plan
           \/ pc' = "done" /\ result' = "refused"
           \/ pc' \in {"plan", "compare"}
           \/ pc' = "canceling" /\ Pushing /\ canceled'
           \/ pc' = "turn" /\ pos' = 1
    PROVE  Written'
<1>1. /\ Rows' = Rows /\ RunOrder' = RunOrder /\ Streams' = Streams /\ Pushing' = Pushing /\ cmd' = cmd
      /\ shown' = <<>> /\ ~streamed' /\ ~broken'
  BY SameRun DEF inputs, output, Written
<1>2. [i \in 1..(1 - 1) |-> <<RunOrder[i], rows'[RunOrder[i]].status>>] = <<>>
  OBVIOUS
<1>3. CASE pc' = "returned" /\ (result' = "failed" \/ ~Streams) /\ (Pushing => pc = "begin" /\ UNCHANGED plan)
  BY <1>1, <1>3 DEF Written, Looping, FetchSteps
<1>4. CASE pc' = "done" /\ result' = "refused"
  BY <1>1, <1>4 DEF Written, Looping, FetchSteps, OutputIsTheResult
<1>5. CASE pc' \in {"plan", "compare"}
  BY <1>1, <1>5 DEF Written, Looping, FetchSteps
<1>6. CASE pc' = "canceling" /\ Pushing /\ canceled'
  BY <1>1, <1>6 DEF Written, Looping, FetchSteps, Excused
<1>7. CASE pc' = "turn" /\ pos' = 1
  <2>1. Sent(pos - 1)'
    BY <1>1, <1>2, <1>7 DEF Sent
  <2>. QED
    BY <1>1, <1>7, <2>1 DEF Written, Looping, FetchSteps
<1>. QED
  BY <1>3, <1>4, <1>5, <1>6, <1>7

\* It goes on at the same row.
LEMMA TravelWrites ==
    ASSUME BaseInv, Written, UNCHANGED <<inputs, output, pos>>, pc \in Looping, pc' \in Looping, canceled => canceled',
           pos \in 1..(Len(Rows) + 1), \A r \in Range(Rows) : rows'[r].status = rows[r].status
    PROVE  Written'
<1>1. /\ Rows' = Rows /\ RunOrder' = RunOrder /\ Streams' = Streams /\ Pushing' = Pushing /\ cmd' = cmd
      /\ shown' = shown /\ streamed' = streamed /\ broken' = broken /\ (Excused => Excused')
  BY SameRun DEF inputs, output, Excused
<1>2. \A i \in 1..(pos - 1) : rows'[RunOrder[i]].status = rows[RunOrder[i]].status
  BY RunFacts
<1>3. [i \in 1..(pos - 1) |-> <<RunOrder[i], rows[RunOrder[i]].status>>] = [i \in 1..(pos - 1) |-> <<RunOrder[i], rows'[RunOrder[i]].status>>]
  BY <1>2
<1>4. Sent(pos - 1) => Sent(pos - 1)'
  BY <1>1, <1>3 DEF Sent
<1>5. pc' \notin {"begin", "plan", "compare", "returned", "done"} /\ pc # "done"
  BY DEF Looping, FetchSteps
<1>. QED
  BY <1>1, <1>4, <1>5 DEF Written

\* It returns after its last row.
LEMMA LastWrites ==
    ASSUME BaseInv, Written, UNCHANGED <<inputs, output, rows>>, pc \in Looping, pc' = "returned", canceled' = canceled, Finished
    PROVE  Written'
<1>1. /\ Rows' = Rows /\ RunOrder' = RunOrder /\ Streams' = Streams /\ Pushing' = Pushing /\ cmd' = cmd
      /\ shown' = shown /\ streamed' = streamed /\ broken' = broken /\ (Excused <=> Excused')
  BY SameRun DEF inputs, output, Excused
<1>2. pos - 1 = Len(Rows)
  BY RunFacts DEF BaseInv, TypeOK, RunTypeOK, Finished
<1>3. Sent(pos - 1) => Sent(Len(Rows))'
  BY <1>1, <1>2 DEF Sent
<1>4. pc # "done" /\ pc' \notin Looping
  BY DEF Looping, FetchSteps
<1>. QED
  BY <1>1, <1>3, <1>4 DEF Written

\* A row is written.
LEMMA SentGrows ==
    ASSUME BaseInv, pos <= Len(Rows), Sent(pos - 1), NEW rs \in [Range(Rows) -> RowType],
           \A r \in Range(Rows) \ {Current} : rs[r] = rows[r]
    PROVE  Append(shown, <<Current, rs[Current].status>>) = [i \in 1..pos |-> <<RunOrder[i], rs[RunOrder[i]].status>>]
<1>. DEFINE e == <<Current, rs[Current].status>>
            t == Append(shown, e)
            u == [i \in 1..pos |-> <<RunOrder[i], rs[RunOrder[i]].status>>]
<1>1. pos \in 1..Len(Rows) /\ pos \in Nat /\ pos - 1 \in Nat /\ shown \in Seq(Repos \X Statuses)
  BY RunFacts DEF BaseInv, TypeOK, RunTypeOK
<1>2. e \in Repos \X Statuses
  BY AtARow DEF RowType
<1>3. shown = [i \in 1..(pos - 1) |-> <<RunOrder[i], rows[RunOrder[i]].status>>]
  BY DEF Sent
<1>4. DOMAIN shown = 1..(pos - 1) /\ Len(shown) = pos - 1
  BY <1>1, <1>3
<1>5. t \in Seq(Repos \X Statuses) /\ Len(t) = pos /\ t[pos] = e /\ \A i \in 1..(pos - 1) : t[i] = shown[i]
  <2>. HIDE DEF e
  <2>1. t \in Seq(Repos \X Statuses) /\ Len(t) = Len(shown) + 1 /\ t[Len(shown) + 1] = e /\ \A i \in 1..Len(shown) : t[i] = shown[i]
    BY <1>1, <1>2
  <2>. HIDE DEF t
  <2>. QED
    BY <1>1, <1>4, <2>1
<1>6. \A i \in 1..pos : t[i] = <<RunOrder[i], rs[RunOrder[i]].status>>
  <2>. SUFFICES ASSUME NEW i \in 1..pos PROVE t[i] = <<RunOrder[i], rs[RunOrder[i]].status>>
    OBVIOUS
  <2>1. CASE i = pos
    BY <1>5, <2>1 DEF Current
  <2>2. CASE i # pos
    <3>1. i \in 1..(pos - 1)
      BY <1>1, <2>2
    <3>2. rs[RunOrder[i]] = rows[RunOrder[i]]
      BY <3>1, Earlier
    <3>3. shown[i] = <<RunOrder[i], rows[RunOrder[i]].status>>
      BY <1>3, <3>1
    <3>. HIDE DEF t
    <3>. QED
      BY <1>5, <3>1, <3>2, <3>3
  <2>. QED
    BY <2>1, <2>2
<1>7. DOMAIN t = 1..pos /\ t = [i \in DOMAIN t |-> t[i]]
  <2>. HIDE DEF t
  <2>. QED
    BY <1>5
<1>. HIDE DEF t
<1>8. t = u
  BY <1>6, <1>7
<1>. QED
  BY <1>8 DEF t

LEMMA SettleWrites ==
    ASSUME BaseInv, Written, UNCHANGED inputs, pos <= Len(Rows), pc \in Looping, canceled' = canceled,
           NEW rs \in [Range(Rows) -> RowType], \A r \in Range(Rows) \ {Current} : rs[r] = rows[r],
           NEW where \in {"turn", "canceling"}, Settle(rs, Goto(where, pos + 1))
    PROVE  Written'
<1>1. /\ Rows' = Rows /\ RunOrder' = RunOrder /\ Streams' = Streams /\ Pushing' = Pushing /\ cmd' = cmd
      /\ (Excused <=> Excused') /\ pc # "done" /\ where \in Looping
      /\ where \notin {"begin", "plan", "compare", "returned", "done"}
  BY SameRun DEF inputs, Excused, Written, Looping, FetchSteps
<1>2. pos \in 1..Len(Rows) /\ pos - 1 \in Nat /\ pos + 1 - 1 = pos /\ pos > 0
  BY RunFacts DEF BaseInv, TypeOK, RunTypeOK
<1>3. CASE Streams /\ rows' = rs /\ pc' = where /\ pos' = pos + 1
           /\ shown' = Append(shown, <<Current, rs[Current].status>>) /\ streamed' = TRUE /\ broken' = FALSE
  <2>1. Sent(pos - 1) => Sent(pos - 1)'
    <3>. SUFFICES ASSUME Sent(pos - 1) PROVE Sent(pos - 1)'
      OBVIOUS
    <3>1. shown' = [i \in 1..pos |-> <<RunOrder[i], rs[RunOrder[i]].status>>]
      BY <1>3, SentGrows
    <3>. QED
      BY <1>1, <1>2, <1>3, <3>1 DEF Sent
  <2>. QED
    BY <1>1, <1>3, <2>1 DEF Written
<1>4. CASE ~Streams /\ UNCHANGED output /\ pc' = where
  BY <1>1, <1>4 DEF Written, output
<1>5. CASE Streams /\ broken' = TRUE /\ pc' = "returned"
  BY <1>1, <1>5 DEF Written, Looping, FetchSteps
<1>. QED
  BY <1>3, <1>4, <1>5 DEF Settle, Goto, Return

\* An interrupted push rewrites what it has handed out.
LEMMA ExcusedWrites ==
    ASSUME BaseInv, Written, UNCHANGED inputs, pc \in Looping, pc' = "canceling", Pushing, canceled',
           Streams \/ UNCHANGED output
    PROVE  Written'
<1>1. /\ Rows' = Rows /\ Streams' = Streams /\ Excused' /\ pc # "done"
  BY SameRun DEF inputs, Excused, Written, Looping, FetchSteps
<1>. QED
  BY <1>1 DEF Written, output, Looping, FetchSteps

-----------------------------------------------------------------------------
(* What each step writes                                                    *)
LEMMA EarlyStepsWrite ==
    ASSUME BaseInv, Written, ExecBegin \/ Preflight \/ Planned \/ FetchBegin \/ FetchPlan \/ PushBegin \/ PushLook \/ PushCompare
    PROVE  Written'
<1>1. UNCHANGED <<inputs, output>> /\ pc \in {"begin", "plan", "compare"} /\ canceled' = canceled
  BY DEF ExecBegin, Preflight, Planned, FetchBegin, FetchPlan, PushBegin, PushLook, PushCompare, Starting, Kept, process_vars
<1>2. CASE ExecBegin
  <2>1. ~Pushing
    BY <1>2 DEF ExecBegin, Pushing
  <2>. QED
    BY <1>1, <1>2, <2>1, EarlyWrites DEF ExecBegin, Return, Goto
<1>3. CASE Preflight \/ Planned
  <2>1. cmd.name = "exec" /\ ~Pushing /\ pc = "plan"
    BY <1>3 DEF Preflight, Planned, Pushing
  <2>2. \/ pc' = "returned" /\ (result' = "failed" \/ ~Streams)
        \/ pc' = "plan"
        \/ pc' = "turn" /\ pos' = 1
    BY <1>3 DEF Preflight, Planned, Return, Goto, Streams
  <2>. QED
    BY <1>1, <2>1, <2>2, EarlyWrites
<1>4. CASE FetchBegin \/ FetchPlan
  <2>1. cmd.name = "fetch" /\ ~Pushing
    BY <1>4 DEF FetchBegin, FetchPlan, Fetching, Pushing
  <2>2. \/ pc' = "returned" /\ result' = "failed"
        \/ pc' = "plan"
        \/ pc' = "turn" /\ pos' = 1
    BY <1>4 DEF FetchBegin, FetchPlan, Return, Goto
  <2>. QED
    BY <1>1, <2>1, <2>2, EarlyWrites
<1>5. CASE PushBegin \/ PushLook \/ PushCompare
  <2>1. Pushing
    BY <1>5 DEF PushBegin, PushLook, PushCompare, BaseInv, Located
  <2>2. \/ pc' = "returned" /\ result' = "failed" /\ pc = "begin" /\ UNCHANGED plan
        \/ pc' \in {"plan", "compare"}
        \/ pc' = "canceling" /\ canceled'
        \/ pc' = "turn" /\ pos' = 1
    BY <1>1, <1>5 DEF PushBegin, PushLook, PushCompare, NextLocal, Return, Goto
  <2>. QED
    BY <1>1, <2>1, <2>2, EarlyWrites, SMTT(30)
<1>. QED
  BY <1>2, <1>3, <1>4, <1>5, SMTT(30)

\* The row at pos is settled with another status.
LEMMA RowWrites ==
    ASSUME BaseInv, Written, UNCHANGED inputs, pos <= Len(Rows), pc \in Looping, canceled' = canceled,
           NEW status \in Statuses, NEW where \in {"turn", "canceling"}, Settle(Row(status), Goto(where, pos + 1))
    PROVE  Written'
<1>. DEFINE rs == Row(status)
<1>1. rows \in [Range(Rows) -> RowType] /\ rs \in [Range(Rows) -> RowType]
  BY RowKeeps DEF BaseInv, TypeOK, RunTypeOK
<1>2. \A r \in Range(Rows) \ {Current} : rs[r] = rows[r]
  BY <1>1 DEF Row
<1>3. Settle(rs, Goto(where, pos + 1))
  OBVIOUS
<1>. HIDE DEF rs
<1>. QED
  BY <1>1, <1>2, <1>3, SettleWrites

LEMMA GotWrites ==
    ASSUME BaseInv, Written, UNCHANGED inputs, pos <= Len(Rows), pc \in Looping, canceled' = canceled,
           NEW status \in Statuses, NEW commit \in Commits, NEW where \in {"turn", "canceling"},
           Settle(Got(status, commit), Goto(where, pos + 1))
    PROVE  Written'
<1>. DEFINE rs == Got(status, commit)
<1>1. rows \in [Range(Rows) -> RowType] /\ rs \in [Range(Rows) -> RowType]
  BY GotKeeps DEF BaseInv, TypeOK, RunTypeOK
<1>2. \A r \in Range(Rows) \ {Current} : rs[r] = rows[r]
  BY <1>1 DEF Got
<1>3. Settle(rs, Goto(where, pos + 1))
  OBVIOUS
<1>. HIDE DEF rs
<1>. QED
  BY <1>1, <1>2, <1>3, SettleWrites

LEMMA ExecStepsWrite ==
    ASSUME BaseInv, Written, ExecTurn \/ NotLaunched \/ Launch \/ Collect PROVE Written'
<1>1. UNCHANGED inputs /\ pc \in Looping /\ canceled' = canceled /\ pos \in 1..(Len(Rows) + 1)
  BY DEF ExecTurn, NotLaunched, Launch, Collect, Kept, process_vars, StartChild, TakeResult, Looping, BaseInv, TypeOK, RunTypeOK
<1>2. CASE ExecTurn
  <2>1. UNCHANGED <<rows, output>>
    BY <1>2 DEF ExecTurn, Kept
  <2>2. CASE Finished /\ Return(Outcome)
    BY <1>1, <2>1, <2>2, LastWrites DEF Return
  <2>3. CASE Goto("canceling", pos) \/ Goto("launch", pos)
    BY <1>1, <2>1, <2>3, TravelWrites DEF Goto, Looping
  <2>. QED
    BY <1>2, <2>2, <2>3 DEF ExecTurn
<1>3. CASE NotLaunched
  <2>1. pos <= Len(Rows) /\ (Settle(Row("canceled"), Goto("canceling", pos + 1)) \/ Settle(Row("failed"), Goto("turn", pos + 1)))
    BY <1>3 DEF NotLaunched, BaseInv, Located, AtRow
  <2>. QED
    BY <1>1, <2>1, RowWrites DEF Statuses
<1>4. CASE Launch
  <2>1. rows \in [Range(Rows) -> RowType] /\ rows' = [rows EXCEPT ![Current].started = TRUE]
    BY <1>4 DEF Launch, BaseInv, TypeOK, RunTypeOK
  <2>2. \A r \in Range(Rows) : rows'[r] \in {rows[r], [rows[r] EXCEPT !.started = TRUE]}
    BY <2>1
  <2>3. \A r \in Range(Rows) : [rows[r] EXCEPT !.started = TRUE].status = rows[r].status
    BY <2>1 DEF RowType
  <2>4. \A r \in Range(Rows) : rows'[r].status = rows[r].status
    BY <2>2, <2>3
  <2>. QED
    BY <1>1, <1>4, <2>4, TravelWrites DEF Launch, Goto, Looping
<1>5. CASE Collect
  <2>. DEFINE row(status) == [Row(status) EXCEPT ![Current].left = leaked]
  <2>1. pos <= Len(Rows) /\ Current \in Range(Rows) /\ leaked \in BOOLEAN /\ rows \in [Range(Rows) -> RowType]
    BY <1>5, AtARow DEF Collect, BaseInv, Located, AtRow, TypeOK, ProcessTypeOK, RunTypeOK
  <2>2. ASSUME NEW status \in Statuses
        PROVE  row(status) \in [Range(Rows) -> RowType] /\ \A r \in Range(Rows) \ {Current} : row(status)[r] = rows[r]
    <3>1. Row(status) \in [Range(Rows) -> RowType]
      BY RowKeeps
    <3>2. [Row(status)[Current] EXCEPT !.left = leaked] \in RowType
      <4>1. Row(status)[Current] \in RowType
        BY <2>1, <3>1
      <4>. QED
        BY <2>1, <4>1 DEF RowType
    <3>3. \A r \in Range(Rows) \ {Current} : Row(status)[r] = rows[r]
      BY <2>1 DEF Row
    <3>. QED
      BY <2>1, <3>1, <3>2, <3>3
  <2>3. \E status \in Statuses, where \in {"turn", "canceling"} : Settle(row(status), Goto(where, pos + 1))
    BY <1>5 DEF Collect, Statuses
  <2>. HIDE DEF row
  <2>. QED
    BY <1>1, <2>1, <2>2, <2>3, SettleWrites
<1>. QED
  BY <1>2, <1>3, <1>4, <1>5

LEMMA FetchStepsWrite ==
    ASSUME BaseInv, Written, FetchTurn \/ Recheck \/ Observe \/ StartFetch \/ RefMoves \/ FetchBreaks \/ FetchReturns PROVE Written'
<1>1. UNCHANGED inputs /\ pc \in Looping /\ canceled' = canceled /\ pos \in 1..(Len(Rows) + 1)
  BY DEF FetchTurn, Recheck, Observe, StartFetch, RefMoves, FetchBreaks, FetchReturns, Kept, process_vars, Looping, FetchSteps,
         BaseInv, TypeOK, RunTypeOK
<1>2. CASE FetchTurn
  <2>1. CASE Finished /\ Return(Outcome) /\ UNCHANGED <<rows, output>>
    BY <1>1, <2>1, LastWrites DEF Return
  <2>2. CASE ~Finished /\ Settle(Row("failed"), Goto("turn", pos + 1))
    BY <1>1, <2>2, Unfinished, RowWrites DEF Statuses
  <2>3. CASE UNCHANGED <<rows, output>> /\ (Goto("canceling", pos) \/ Goto("recheck", pos))
    BY <1>1, <2>3, TravelWrites DEF Goto, Looping, FetchSteps
  <2>. QED
    BY <1>2, <2>1, <2>2, <2>3 DEF FetchTurn
<1>3. CASE ~FetchTurn
  <2>1. pc \in FetchSteps /\ (pc # "recheck" => UNCHANGED plan)
    BY <1>3 DEF Recheck, Observe, StartFetch, RefMoves, FetchBreaks, FetchReturns, FetchSteps
  <2>2. /\ pos <= Len(Rows) /\ rows \in [Range(Rows) -> RowType] /\ tracking[Current][Ref] \in Commits
        /\ Advertised(Current, Ref) \in Commits \cup {None}
    BY <2>1, AtFetch
  <2>3. CASE \E status \in Statuses, where \in {"turn", "canceling"} : Settle(Row(status), Goto(where, pos + 1))
    BY <1>1, <2>2, <2>3, RowWrites
  <2>4. CASE \E status \in Statuses, commit \in Commits, where \in {"turn", "canceling"} : Settle(Got(status, commit), Goto(where, pos + 1))
    BY <1>1, <2>2, <2>4, GotWrites
  <2>5. CASE UNCHANGED <<pos, output>> /\ pc' \in Looping /\ (UNCHANGED rows \/ rows' = [rows EXCEPT ![Current].head = plan[Current].head])
    <3>1. \A r \in Range(Rows) : rows'[r] \in {rows[r], [rows[r] EXCEPT !.head = plan[Current].head]}
      BY <2>2, <2>5
    <3>2. \A r \in Range(Rows) : [rows[r] EXCEPT !.head = plan[Current].head].status = rows[r].status
      BY <2>2 DEF RowType
    <3>3. \A r \in Range(Rows) : rows'[r].status = rows[r].status
      BY <3>1, <3>2
    <3>. QED
      BY <1>1, <2>5, <3>3, TravelWrites
  <2>6. CASE Recheck
    BY <2>3, <2>5, <2>6 DEF Recheck, Goto, Looping, FetchSteps, Statuses
  <2>7. CASE Observe
    BY <2>2, <2>3, <2>4, <2>5, <2>7 DEF Observe, Goto, Looping, FetchSteps, Statuses
  <2>8. CASE StartFetch
    BY <2>3, <2>5, <2>8 DEF StartFetch, Goto, Looping, FetchSteps, Statuses
  <2>9. CASE RefMoves \/ FetchBreaks
    BY <2>5, <2>9 DEF RefMoves, FetchBreaks, Kept, Goto, Looping, FetchSteps
  <2>10. CASE FetchReturns
    <3>. DEFINE where == IF canceled THEN "canceling" ELSE "turn"
                status == IF canceled THEN "canceled" ELSE IF pc = "unfetched" THEN "failed" ELSE "completed"
                other == IF canceled THEN "canceled" ELSE "failed"
    <3>1. status \in Statuses /\ other \in Statuses /\ "failed" \in Statuses /\ where \in {"turn", "canceling"}
      BY DEF Statuses
    <3>2. \/ Settle(Got(status, tracking[Current][Ref]), Goto(where, pos + 1))
          \/ Settle(Got("failed", tracking[Current][Ref]), Goto(where, pos + 1))
          \/ Settle(Row(other), Goto(where, pos + 1))
      BY <2>10 DEF FetchReturns
    <3>. HIDE DEF where, status, other
    <3>. QED
      BY <2>2, <2>3, <2>4, <3>1, <3>2
  <2>. QED
    BY <1>3, <2>6, <2>7, <2>8, <2>9, <2>10
<1>. QED
  BY <1>2, <1>3

LEMMA PushSettlesWrite ==
    ASSUME BaseInv, Written, UNCHANGED inputs, pos <= Len(Rows), pc \in Looping, canceled' = canceled, Pushing,
           NEW row \in RowType, PushSettle(row)
    PROVE  Written'
<1>. DEFINE rs == [rows EXCEPT ![Current] = row]
<1>1. rs \in [Range(Rows) -> RowType] /\ \A r \in Range(Rows) \ {Current} : rs[r] = rows[r]
  BY DEF BaseInv, TypeOK, RunTypeOK
<1>2. CASE Settle(rs, Goto("turn", pos + 1))
  <2>. HIDE DEF rs
  <2>. QED
    BY <1>1, <1>2, SettleWrites
<1>3. CASE Streams /\ canceled /\ Goto("canceling", pos + 1)
  BY <1>3, ExcusedWrites DEF Goto
<1>. QED
  BY <1>2, <1>3 DEF PushSettle

LEMMA PushStepsWrite ==
    ASSUME BaseInv, Witnessed, Written, PushTurn \/ PushObserve PROVE Written'
<1>1. /\ UNCHANGED inputs /\ pc \in Looping /\ canceled' = canceled /\ pos \in 1..(Len(Rows) + 1) /\ Pushing /\ PlannedAll
      /\ PlanType = PushPlan
  BY PushRows DEF PushTurn, PushObserve, Kept, process_vars, Looping, FetchSteps, BaseInv, TypeOK, RunTypeOK, Located, Learned
<1>2. CASE CancelPush /\ canceled
  BY <1>1, <1>2, ExcusedWrites DEF CancelPush, Goto
<1>3. CASE Finished /\ Return(PushOutcome) /\ UNCHANGED <<rows, output>>
  BY <1>1, <1>3, LastWrites DEF Return
<1>4. CASE Goto("observe", pos) /\ UNCHANGED <<rows, output>>
  BY <1>1, <1>4, TravelWrites DEF Goto, Looping
<1>5. CASE PushTurn /\ ~Finished /\ PushSettle(plan[Current].row)
  <2>1. pos <= Len(Rows) /\ Current \in Range(Rows)
    BY <1>5, Unfinished, AtARow
  <2>2. plan[Current].row \in RowType
    BY <1>1, <2>1 DEF PlannedAll, PushPlan
  <2>. QED
    BY <1>1, <1>5, <2>1, <2>2, PushSettlesWrite
<1>6. CASE PushObserve /\ \E row : Observed(row) /\ PushSettle(row)
  <2>1. pos <= Len(Rows) /\ Current \in Range(Rows)
    BY <1>6, AtARow DEF PushObserve, BaseInv, Located, AtRow
  <2>2. Plausible(plan[Current].row)
    BY <1>1, <1>6, <2>1 DEF PushObserve, Witnessed, Known
  <2>3. PICK row : Observed(row) /\ PushSettle(row)
    BY <1>6
  <2>4. row \in RowType
    BY <1>1, <2>1, <2>2, <2>3, ObservedFacts
  <2>. QED
    BY <1>1, <2>1, <2>3, <2>4, PushSettlesWrite
<1>7. CASE PushTurn
  BY <1>2, <1>3, <1>4, <1>5, <1>7 DEF PushTurn
<1>8. CASE PushObserve
  BY <1>2, <1>6, <1>8, PushObserveCases
<1>. QED
  BY <1>7, <1>8

LEMMA CancelStepsWrite ==
    ASSUME BaseInv, Written, CancelRow \/ CancelEnds PROVE Written'
<1>1. UNCHANGED inputs /\ pc \in Looping /\ canceled' = canceled
  BY DEF CancelRow, CancelEnds, process_vars, Looping
<1>2. CASE CancelRow
  BY <1>1, <1>2, Unfinished, RowWrites DEF CancelRow, Statuses
<1>3. CASE CancelEnds
  BY <1>1, <1>3, LastWrites DEF CancelEnds, Return
<1>. QED
  BY <1>2, <1>3

LEMMA DeliverWrites ==
    ASSUME BaseInv, Written, Deliver PROVE Written'
<1>1. /\ UNCHANGED <<inputs, pos, plan, rows, result, streamed, broken, process_vars>> /\ pc = "returned" /\ pc' = "done"
  BY DEF Deliver
<1>2. /\ Rows' = Rows /\ RunOrder' = RunOrder /\ Streams' = Streams /\ Pushing' = Pushing /\ cmd' = cmd /\ canceled' = canceled
      /\ DOMAIN rows = Range(Rows) /\ Range(Rows) \subseteq Repos
  BY <1>1, SameRun, RunFacts DEF inputs, process_vars, BaseInv, TypeOK, RunTypeOK
<1>. DEFINE whole == [i \in 1..Len(Rows) |-> <<Rows[i], rows[Rows[i]].status>>]
            sent == [i \in 1..Len(Rows) |-> <<RunOrder[i], rows[RunOrder[i]].status>>]
            unseen == cmd.name # "push" /\ (cmd.dry \/ (result = "failed" /\ ~streamed))
<1>3. shown' = IF ~broken /\ (~cmd.human \/ unseen) THEN whole ELSE shown
  BY DEF Deliver
<1>4. Len(RunOrder) = Len(Rows)
  BY RunFacts
<1>5. ASSUME ~broken, result # "refused", Pushing /\ cmd.human => ~canceled /\ \E r \in DOMAIN rows : plan[r] # None
      PROVE  shown' = IF streamed THEN sent ELSE whole
  <2>1. CASE ~Streams
    <3>1. ~streamed /\ (~cmd.human \/ cmd.dry)
      BY <2>1 DEF Written, Streams
    <3>2. cmd.dry => cmd.name # "push"
      BY RecordFacts DEF BaseInv, TypeOK, Pushing
    <3>. QED
      BY <1>3, <1>5, <3>1, <3>2
  <2>2. CASE Streams
    <3>1. cmd.human /\ ~cmd.dry /\ ~Excused
      BY <1>5, <2>2 DEF Streams, Excused
    <3>2. \/ Sent(Len(Rows))
          \/ ~streamed /\ result = "failed" /\ (Pushing => \A r \in Repos : plan[r] = None)
      BY <1>1, <1>5, <2>2, <3>1 DEF Written
    <3>3. CASE Sent(Len(Rows))
      <4>1. shown = sent /\ (streamed <=> Len(Rows) > 0)
        BY <3>3 DEF Sent
      <4>2. CASE streamed
        BY <1>3, <3>1, <4>1, <4>2
      <4>3. CASE ~streamed
        <5>1. Len(Rows) = 0
          BY <4>1, <4>3, RunFacts
        <5>2. whole = sent
          BY <5>1
        <5>. HIDE DEF whole, sent
        <5>. QED
          BY <1>3, <4>1, <4>3, <5>2
      <4>. QED
        BY <4>2, <4>3
    <3>4. CASE ~streamed /\ result = "failed" /\ (Pushing => \A r \in Repos : plan[r] = None)
      <4>1. ~Pushing
        BY <1>2, <1>5, <3>1, <3>4
      <4>. QED
        BY <1>3, <1>5, <3>4, <4>1 DEF Pushing
    <3>. QED
      BY <3>2, <3>3, <3>4
  <2>. QED
    BY <2>1, <2>2
<1>6. OutputIsTheResult'
  <2>. HIDE DEF whole, sent
  <2>1. ASSUME ~broken, result # "refused", Pushing /\ cmd.human => ~canceled /\ \E r \in DOMAIN rows : plan[r] # None
        PROVE  shown' = LET ids == IF streamed THEN RunOrder ELSE Rows
                        IN [i \in 1..Len(ids) |-> <<ids[i], rows[ids[i]].status>>]
    BY <1>4, <1>5, <2>1 DEF whole, sent
  <2>. QED
    BY <1>1, <1>2, <2>1 DEF OutputIsTheResult
<1>. QED
  BY <1>1, <1>2, <1>6 DEF Written, Looping, FetchSteps

LEMMA NextWrites == BaseInv /\ Witnessed /\ Written /\ [Next]_vars => Written'
<1>1. BaseInv /\ Written /\ (Others \/ Attend \/ UNCHANGED vars) => Written'
  <2>. SUFFICES ASSUME BaseInv, Written, Others \/ Attend \/ UNCHANGED vars PROVE Written'
    OBVIOUS
  <2>1. UNCHANGED <<inputs, pc, pos, plan, rows, result, output>> /\ (canceled => canceled') /\ (Returned => canceled' = canceled)
    <3>1. CASE EditCheckout \/ UserSwitches \/ RemoteChanges \/ UserFetches \/ UNCHANGED vars
      <4>1. UNCHANGED <<inputs, pc, pos, plan, rows, result, output, process_vars>>
        BY <3>1 DEF EditCheckout, UserSwitches, RemoteChanges, UserFetches, Edited, vars
      <4>2. canceled' = canceled
        BY <4>1 DEF process_vars
      <4>. QED
        BY <4>1, <4>2, SMTT(30)
    <3>2. CASE Interrupt
      BY <3>2 DEF Interrupt, Cancel
    <3>3. CASE ProgramWorks \/ GitHelper \/ Attend
      BY <3>3 DEF ProgramWorks, GitHelper, Attend, HelperHolds, HelperEnds, ProgramStep, ChildForks, ChildCloses, ChildEnds, HolderEnds, WaiterStep, Drained, Reaped,
         KillGroup, KillFails, Stopped, TimerFires
    <3>. QED
      BY <3>1, <3>2, <3>3 DEF Others
  <2>. QED
    BY <2>1, StayWrites
<1>. QED
  BY <1>1, EarlyStepsWrite, ExecStepsWrite, FetchStepsWrite, PushStepsWrite, CancelStepsWrite, DeliverWrites DEF Next, CommandStep

LEMMA InitWrites == Init => Written
  BY DEF Init, Written, Looping, FetchSteps

-----------------------------------------------------------------------------
(* Theorems                                                                 *)

\* Whatever others do to checkouts and remotes, and whatever fails, the command is
\* where its rows, its plan, its process and its output say it is.
THEOREM Invariant == Spec => []IInv
<1>1. Init => IInv
  BY InitBase, InitMarked, InitWitness, InitWrites DEF IInv
<1>2. IInv /\ [Next]_vars => IInv'
  BY NextKeepsBase, WaitedKeeps, NextMarks, NextWitness, NextWrites DEF IInv
<1>. QED
  BY <1>1, <1>2, PTL DEF Spec

\* Rows, plan, process, world and ghosts have their types.
THEOREM TypeCorrect == Spec => []TypeOK
<1>1. IInv => TypeOK
  BY DEF IInv, BaseInv
<1>. QED
  BY <1>1, Invariant, PTL

\* Exec, fetch and push report what they did: a moved ref has its receipt or could
\* not be read again, a program that ran is a started row, one that was left
\* running is reported, and a success is one of every row.
THEOREM ReportIsTrueHolds == Spec => []ReportIsTrue
<1>1. IInv => ReportIsTrue
  BY ReportFollows DEF IInv
<1>. QED
  BY <1>1, Invariant, PTL

\* Each fact a ready row of push stands on was true while the command ran.
THEOREM ReadyWasPublishedHolds == Spec => []ReadyWasPublished
<1>1. IInv => ReadyWasPublished
  BY WitnessFollows DEF IInv
<1>. QED
  BY <1>1, Invariant, PTL

\* What reached the output is the result, every row once and in order.
THEOREM OutputIsTheResultHolds == Spec => []OutputIsTheResult
<1>1. IInv => OutputIsTheResult
  <2>1. Written => OutputIsTheResult
    BY DEF Written, OutputIsTheResult
  <2>. QED
    BY <2>1 DEF IInv
<1>. QED
  BY <1>1, Invariant, PTL

=============================================================================
