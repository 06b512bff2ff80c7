-------------------------- MODULE MarketSalesProofs --------------------------
(***************************************************************************)
(* What holds of MarketSales for any assets, copies, baskets and bounds:   *)
(* its types, that the rows of a batch tell the truth, that what is sent   *)
(* is what was reviewed and, as long as no restart forgets a sale that     *)
(* Steam has not decided, that one copy always stays.                      *)
(***************************************************************************)
EXTENDS MarketSales, FiniteSetTheorems, WellFoundedInduction, TLAPS

(***************************************************************************)
(* The inductive invariant                                                 *)
(***************************************************************************)

\* A listing's copies that are still shown are part of it, and no copy is made.
SteamTrue ==
    /\ steam \in Steam
    /\ \A a \in Assets :
        /\ steam.moving[a] <= steam.listed[a] /\ steam.moving[a] <= steam.owned[a]
        /\ steam.owned[a] + steam.listed[a] - steam.moving[a] <= Copies[a]

Typed ==
    /\ submitted \in [Assets -> Submission] /\ intents \subseteq Intent
    /\ rules \in Nat /\ quiet \in BOOLEAN

Fresh(row) == row.status = "queued" /\ ~row.sent /\ ~row.unsure

\* What is prepared has not begun.
PreparedTrue ==
    /\ prepared \in Job /\ ~prepared.active /\ ~prepared.stop
    /\ \A i \in DOMAIN prepared.rows : Fresh(prepared.rows[i])

\* Who waits for the lock has not begun, and what has begun is where its kind can be.
TasksTrue ==
    /\ tasks \in Seq(Task)
    /\ \A i \in DOMAIN tasks :
        /\ i > 1 => tasks[i].at = "start"
        /\ tasks[i].op \in Works => tasks[i].quantity \in Quantities
        /\ tasks[i].op \notin Works => tasks[i].row = 0
        /\ tasks[i].op = "save" => tasks[i].at \in {"start", "turn"}

Sent == {"sent", "accepted", "rejected", "verify"}

\* The row that is at work has a task, and was sent if its task says so.
RowsAtWork ==
    /\ job \in Job /\ (job.active \/ job = NoJob)
    /\ \A i \in DOMAIN tasks : tasks[i].row > 0 =>
        /\ job.active /\ tasks[i].row \in DOMAIN job.rows
        /\ job.rows[tasks[i].row].status = "running"
        /\ job.rows[tasks[i].row].sent <=> tasks[i].at \in Sent
    /\ \A i, j \in DOMAIN tasks : tasks[i].row > 0 /\ tasks[j].row > 0 => i = j
    /\ \A k \in DOMAIN job.rows : job.rows[k].status = "running" =>
        \E i \in DOMAIN tasks : tasks[i].row = k

\* The rows are dealt with in their order, and none after one of which nobody knows.
RowsInOrder ==
    \A k \in DOMAIN job.rows :
        LET row == job.rows[k] IN
        /\ row.status = "queued" => Fresh(row)
        /\ row.status = "skipped" => ~row.sent
        /\ row.status \in {"listed", "cancelled"} => row.sent
        /\ row.unsure => job.stop /\ row.status = "failed"
        /\ row.status \in {"queued", "running"} \/ row.unsure =>
            \A l \in DOMAIN job.rows : k < l => Fresh(job.rows[l])

\* After a stop nothing is left that could send.
QuietTrue ==
    quiet =>
        /\ intents = {} /\ prepared.rows = <<>> /\ (job.active => job.stop)
        /\ \A i \in DOMAIN tasks : tasks[i].op # "save" => ~tasks[i].live

\* A sale that has been reviewed is still under the rules that are saved.
RulesTrue ==
    At({"sell"}, "turn") \/ At({"sell"}, "session") => T.rules = rules

Taken(a) == steam.wire[a] + steam.moving[a]

\* A submission accounts for what Steam may still take: all of its copies, or none;
\* and while a request is not decided, the asset is not listed.
Accounted ==
    \A a \in Assets :
        /\ Taken(a) = 0 \/ Taken(a) = submitted[a].quantity
        /\ steam.wire[a] = 0 \/ steam.listed[a] = 0
        /\ Taken(a) # 0 => steam.owned[a] = submitted[a].before

\* What a sale under way relies on: its asset is not offered, and leaves a copy.
Relied ==
    tasks # <<>> /\ T.op = "sell" =>
        /\ T.at \in {"turn", "session"} =>
            /\ Taken(T.asset) = 0 /\ steam.listed[T.asset] = 0
            /\ T.quantity <= steam.owned[T.asset] /\ Kept >= T.quantity + 1
        /\ T.at = "turn" =>
            submitted[T.asset].quantity = 0 /\ T.before = steam.owned[T.asset]
        /\ T.at = "session" => submitted[T.asset] =
            [quantity |-> T.quantity, before |-> steam.owned[T.asset]]
        /\ T.at = "rejected" => Taken(T.asset) = 0

\* As long as a restart does not forget what was sent
Remembered == ~MayForget => Accounted /\ Relied /\ OneCopyStays

IInv ==
    /\ SteamTrue /\ Typed /\ PreparedTrue /\ TasksTrue /\ RowsAtWork /\ RowsInOrder
    /\ QuietTrue /\ RulesTrue /\ Remembered

(***************************************************************************)
(* Copies                                                                  *)
(***************************************************************************)

Pairs(f) == UNION {{a} \X (1..f[a]) : a \in DOMAIN f}

LEMMA CopiesAreFinite ==
    /\ IsFiniteSet(Pairs(Copies)) /\ Total(Copies) \in Nat
    /\ Copies \in [Assets -> Nat \ {0}]
<1> DEFINE Of == [a \in Assets |-> {a} \X (1..Copies[a])]
           S  == {Of[a] : a \in Assets}
<1>1. Copies \in [Assets -> Nat \ {0}] /\ IsFiniteSet(Assets)
  BY ConstantsAssumption
<1>2. \A a \in Assets : IsFiniteSet(Of[a])
  <2> TAKE a \in Assets
  <2>1. IsFiniteSet({a})
    BY FS_Singleton
  <2>2. 1 \in Int /\ Copies[a] \in Int
    BY <1>1
  <2>3. IsFiniteSet(1..Copies[a])
    BY <2>2, FS_Interval
  <2> QED
    BY <2>1, <2>3, FS_Product
<1>3. IsFiniteSet(S)
  <2>1. Of \in Surjection(Assets, S)
    BY DEF Surjection
  <2> QED
    BY <1>1, <2>1, FS_Surjection
<1>4. IsFiniteSet(UNION S)
  BY <1>2, <1>3, FS_UNION
<1>5. Pairs(Copies) = UNION S
  BY <1>1 DEF Pairs
<1> QED
  BY <1>1, <1>4, <1>5, FS_CardinalityType DEF Total, Pairs

LEMMA PairOf ==
    ASSUME NEW f \in [Assets -> Int], NEW p
    PROVE  p \in Pairs(f) <=> /\ p = <<p[1], p[2]>> /\ p[1] \in Assets
                              /\ p[2] \in Nat /\ 1 <= p[2] /\ p[2] <= f[p[1]]
<1>1. ASSUME p \in Pairs(f)
      PROVE  /\ p = <<p[1], p[2]>> /\ p[1] \in Assets
             /\ p[2] \in Nat /\ 1 <= p[2] /\ p[2] <= f[p[1]]
  <2>1. PICK a \in Assets : p \in {a} \X (1..f[a])
    BY <1>1 DEF Pairs
  <2>2. f[a] \in Int
    OBVIOUS
  <2>3. p = <<p[1], p[2]>> /\ p[1] = a /\ p[2] \in 1..f[a]
    BY <2>1
  <2> QED
    BY <2>2, <2>3
<1>2. ASSUME p = <<p[1], p[2]>>, p[1] \in Assets, p[2] \in Nat, 1 <= p[2], p[2] <= f[p[1]]
      PROVE  p \in Pairs(f)
  <2>1. f[p[1]] \in Int
    BY <1>2
  <2>2. p[2] \in 1..f[p[1]]
    BY <1>2, <2>1
  <2>3. p \in {p[1]} \X (1..f[p[1]])
    BY <1>2, <2>2
  <2> QED
    BY <1>2, <2>3 DEF Pairs
<1> QED
  BY <1>1, <1>2

\* Fewer copies in every asset are fewer copies.
LEMMA TotalMonotone ==
    ASSUME NEW f \in [Assets -> Int], NEW g \in [Assets -> Int],
           \A a \in Assets : f[a] <= g[a] /\ g[a] <= Copies[a]
    PROVE  /\ Total(f) \in Nat /\ Total(g) \in Nat /\ Total(f) <= Total(g)
           /\ IsFiniteSet(Pairs(f)) /\ IsFiniteSet(Pairs(g))
<1>1. Copies \in [Assets -> Int] /\ IsFiniteSet(Pairs(Copies))
  BY CopiesAreFinite
<1>2. ASSUME NEW p \in Pairs(f) PROVE p \in Pairs(g)
  <2>1. /\ p = <<p[1], p[2]>> /\ p[1] \in Assets
        /\ p[2] \in Nat /\ 1 <= p[2] /\ p[2] <= f[p[1]]
    BY <1>2, PairOf
  <2>2. f[p[1]] \in Int /\ g[p[1]] \in Int /\ f[p[1]] <= g[p[1]]
    BY <2>1
  <2>3. p[2] <= g[p[1]]
    BY <2>1, <2>2
  <2> QED
    BY <2>1, <2>3, PairOf
<1>3. ASSUME NEW p \in Pairs(g) PROVE p \in Pairs(Copies)
  <2>1. /\ p = <<p[1], p[2]>> /\ p[1] \in Assets
        /\ p[2] \in Nat /\ 1 <= p[2] /\ p[2] <= g[p[1]]
    BY <1>3, PairOf
  <2>2. Copies[p[1]] \in Int /\ g[p[1]] \in Int /\ g[p[1]] <= Copies[p[1]]
    BY <1>1, <2>1
  <2>3. p[2] <= Copies[p[1]]
    BY <2>1, <2>2
  <2> QED
    BY <1>1, <2>1, <2>3, PairOf
<1>4. IsFiniteSet(Pairs(g))
  BY <1>1, <1>3, FS_Subset
<1>5. IsFiniteSet(Pairs(f)) /\ Cardinality(Pairs(f)) <= Cardinality(Pairs(g))
  BY <1>2, <1>4, FS_Subset
<1> QED
  BY <1>4, <1>5, FS_CardinalityType DEF Total, Pairs

\* When q copies of one asset are taken, there are q fewer.
LEMMA TotalTake ==
    ASSUME NEW f \in [Assets -> Int], \A b \in Assets : f[b] <= Copies[b],
           NEW a \in Assets, NEW q \in Nat, q <= f[a],
           NEW g \in [Assets -> Int], g[a] = f[a] - q,
           \A b \in Assets : b # a => g[b] = f[b]
    PROVE  Total(f) \in Nat /\ Total(g) = Total(f) - q
<1> DEFINE D == {a} \X ((f[a] - q + 1)..f[a])
           h == [i \in (f[a] - q + 1)..f[a] |-> <<a, i>>]
<1>1. IsFiniteSet(Pairs(f)) /\ Total(f) \in Nat
  BY TotalMonotone
<1>2. f[a] \in Nat /\ f[a] - q \in Nat /\ g[a] = f[a] - q
      /\ \A b \in Assets : b # a => g[b] = f[b]
  BY ConstantsAssumption
<1>3. IsFiniteSet(D) /\ Cardinality(D) = q
  <2> DEFINE I == (f[a] - q + 1)..f[a]
  <2>1. IsFiniteSet(I) /\ Cardinality(I) = q
    <3>1. f[a] - q + 1 \in Int /\ f[a] \in Int
      BY <1>2
    <3>2. IsFiniteSet(I)
          /\ Cardinality(I) = IF f[a] - q + 1 > f[a] THEN 0 ELSE f[a] - (f[a] - q + 1) + 1
      BY <3>1, FS_Interval
    <3> QED
      BY <1>2, <3>1, <3>2
  <2>2. h \in Bijection(I, D)
    <3>1. h \in [I -> D]
      BY Zenon
    <3>2. \A i, j \in I : h[i] = h[j] => i = j
      OBVIOUS
    <3>3. \A d \in D : \E i \in I : h[i] = d
      OBVIOUS
    <3> QED
      BY <3>1, <3>2, <3>3 DEF Bijection, Injection, Surjection, IsInjective
  <2>3. ExistsBijection(I, D)
    BY <2>2 DEF ExistsBijection
  <2> QED
    BY <2>1, <2>3, FS_Bijection
<1>4. D \subseteq Pairs(f)
  <2> SUFFICES ASSUME NEW p \in D PROVE p \in Pairs(f)
    OBVIOUS
  <2>1. /\ p = <<p[1], p[2]>> /\ p[1] = a
        /\ p[2] \in (f[a] - q + 1)..f[a]
    OBVIOUS
  <2>2. p[2] \in Nat /\ 1 <= p[2] /\ p[2] <= f[p[1]]
    BY <1>2, <2>1
  <2> QED
    BY <2>1, <2>2, PairOf
<1>5. ASSUME NEW p PROVE p \in Pairs(g) <=> p \in Pairs(f) \ D
  <2>1. CASE ~(p = <<p[1], p[2]>> /\ p[1] \in Assets /\ p[2] \in Nat)
    BY <2>1, PairOf
  <2>2. CASE p = <<p[1], p[2]>> /\ p[1] \in Assets /\ p[2] \in Nat
    <3>1. CASE p[1] # a
      <4>1. p \notin D /\ g[p[1]] = f[p[1]]
        BY <1>2, <2>2, <3>1
      <4> QED
        BY <2>2, <4>1, PairOf
    <3>2. CASE p[1] = a
      <4>1. p \in D <=> (f[a] - q + 1 <= p[2] /\ p[2] <= f[a])
        BY <1>2, <2>2, <3>2
      <4>2. p \in Pairs(g) <=> (1 <= p[2] /\ p[2] <= f[a] - q)
        <5>1. p \in Pairs(g) <=> (1 <= p[2] /\ p[2] <= g[p[1]])
          BY <2>2, PairOf
        <5> QED
          BY <1>2, <3>2, <5>1
      <4>3. p \in Pairs(f) <=> (1 <= p[2] /\ p[2] <= f[a])
        BY <2>2, <3>2, PairOf
      <4> QED
        BY <1>2, <2>2, <4>1, <4>2, <4>3
    <3> QED
      BY <3>1, <3>2
  <2> QED
    BY <2>1, <2>2
<1>6. Pairs(g) = Pairs(f) \ D
  BY <1>5
<1>7. Cardinality(Pairs(f) \ D) = Cardinality(Pairs(f)) - q
  <2>1. Pairs(f) \cap D = D
    BY <1>4
  <2>2. Cardinality(Pairs(f) \ D) = Cardinality(Pairs(f)) - Cardinality(Pairs(f) \cap D)
    BY <1>1, <1>3, FS_Difference
  <2> QED
    BY <1>3, <2>1, <2>2
<1> QED
  BY <1>1, <1>6, <1>7 DEF Total, Pairs

\* No asset has more copies than there are.
LEMMA CopiesBound ==
    ASSUME NEW a \in Assets
    PROVE  Copies[a] <= Total(Copies) /\ Copies[a] \in Nat /\ Total(Copies) \in Nat
<1>1. Copies \in [Assets -> Int] /\ Copies[a] \in Nat /\ Total(Copies) \in Nat
      /\ \A b \in Assets : Copies[b] <= Copies[b]
  BY CopiesAreFinite
<1> DEFINE g == [Copies EXCEPT ![a] = Copies[a] - Copies[a]]
<1>2. /\ g \in [Assets -> Int] /\ g[a] = Copies[a] - Copies[a]
      /\ \A b \in Assets : b # a => g[b] = Copies[b]
      /\ \A b \in Assets : g[b] <= Copies[b]
  BY <1>1, CopiesAreFinite
<1> HIDE DEF g
<1>3. Total(g) = Total(Copies) - Copies[a]
  BY <1>1, <1>2, TotalTake
<1>4. Total(g) \in Nat
  BY <1>1, <1>2, TotalMonotone
<1> QED
  BY <1>1, <1>3, <1>4

(***************************************************************************)
(* The lock                                                                *)
(***************************************************************************)

LEMMA TaskFacts ==
    ASSUME IInv, tasks # <<>>
    PROVE  /\ T = tasks[1] /\ T \in Task /\ 1 \in DOMAIN tasks
           /\ Len(tasks) \in Nat /\ DOMAIN tasks = 1..Len(tasks)
           /\ Tail(tasks) \in Seq(Task)
           /\ \A i \in DOMAIN Tail(tasks) : /\ i + 1 \in DOMAIN tasks /\ i + 1 > 1
                                            /\ Tail(tasks)[i] = tasks[i + 1]
                                            /\ i \in Nat
           /\ \A i \in DOMAIN tasks : i # 1 => /\ i - 1 \in DOMAIN Tail(tasks) /\ i > 1
                                               /\ Tail(tasks)[i - 1] = tasks[i]
<1>1. tasks \in Seq(Task)
  BY DEF IInv, TasksTrue
<1>2. DOMAIN tasks = 1..Len(tasks) /\ Len(tasks) \in Nat /\ Len(tasks) > 0
  BY <1>1
<1>3. /\ Tail(tasks) \in Seq(Task) /\ DOMAIN Tail(tasks) = 1..(Len(tasks) - 1)
      /\ \A i \in 1..(Len(tasks) - 1) : Tail(tasks)[i] = tasks[i + 1]
  BY <1>1, <1>2
<1>4. T = tasks[1] /\ 1 \in DOMAIN tasks /\ tasks[1] \in Task
  BY <1>1, <1>2 DEF T
<1> DEFINE rest == Tail(tasks)
<1>5. rest \in Seq(Task) /\ DOMAIN rest = 1..(Len(tasks) - 1)
      /\ \A i \in 1..(Len(tasks) - 1) : rest[i] = tasks[i + 1]
  BY <1>3
<1> HIDE DEF rest
<1>6. \A i \in DOMAIN rest : /\ i + 1 \in DOMAIN tasks /\ i + 1 > 1
                             /\ rest[i] = tasks[i + 1] /\ i \in Nat
  BY <1>2, <1>5
<1>7. \A i \in DOMAIN tasks : i # 1 =>
        i - 1 \in DOMAIN rest /\ i > 1 /\ rest[i - 1] = tasks[i]
  <2> TAKE i \in DOMAIN tasks
  <2> HAVE i # 1
  <2>1. i \in Int /\ i > 1 /\ i <= Len(tasks) /\ i - 1 \in 1..(Len(tasks) - 1)
        /\ (i - 1) + 1 = i
    BY <1>2
  <2> QED
    BY <1>5, <2>1
<1> QED
  BY <1>2, <1>4, <1>5, <1>6, <1>7 DEF rest

\* Who is served next has not begun.
LEMMA NextHasNotBegun ==
    ASSUME IInv, tasks # <<>>, tasks' = Tail(tasks)
    PROVE  TasksTrue' /\ (tasks' # <<>> => T'.at = "start")
<1>1. \A i \in DOMAIN tasks' : /\ i + 1 \in DOMAIN tasks /\ tasks'[i] = tasks[i + 1]
                               /\ tasks'[i].at = "start"
  BY TaskFacts DEF IInv, TasksTrue
<1>2. tasks' \in Seq(Task)
  BY TaskFacts
<1>3. TasksTrue'
  BY <1>1, <1>2 DEF IInv, TasksTrue
<1>4. tasks' # <<>> => T' = tasks'[1] /\ 1 \in DOMAIN tasks'
  BY <1>2 DEF T
<1>5. tasks' # <<>> => T'.at = "start"
  BY <1>1, <1>4
<1> QED
  BY <1>3, <1>5

\* The row of a task, and the rows behind it.
LEMMA RowFacts ==
    ASSUME IInv, NEW i \in DOMAIN tasks, tasks[i].row > 0
    PROVE  LET k == tasks[i].row IN
           /\ job.active /\ k \in DOMAIN job.rows /\ job.rows[k].status = "running"
           /\ job.rows \in Seq(Row) /\ job.rows[k] \in Row /\ ~job.rows[k].unsure
           /\ (job.rows[k].sent <=> tasks[i].at \in Sent)
           /\ \A l \in DOMAIN job.rows : k < l => Fresh(job.rows[l])
           /\ \A l \in DOMAIN job.rows : l < k =>
                ~job.rows[l].unsure /\ job.rows[l].status \notin {"queued", "running"}
<1> DEFINE k == tasks[i].row
<1>1. /\ job.active /\ k \in DOMAIN job.rows /\ job.rows[k].status = "running"
      /\ (job.rows[k].sent <=> tasks[i].at \in Sent)
  BY DEF IInv, RowsAtWork
<1>2. job.rows \in Seq(Row)
  BY DEF IInv, RowsAtWork, Job
<1>3. job.rows[k] \in Row
  BY <1>1, <1>2
<1>4. /\ ~job.rows[k].unsure
      /\ \A l \in DOMAIN job.rows : k < l => Fresh(job.rows[l])
  BY <1>1, <1>3 DEF IInv, RowsInOrder, Row
<1>5. \A l \in DOMAIN job.rows : l < k =>
        ~job.rows[l].unsure /\ job.rows[l].status \notin {"queued", "running"}
  BY <1>1 DEF IInv, RowsInOrder, Fresh
<1> QED
  BY <1>1, <1>2, <1>3, <1>4, <1>5

\* A row may be given a status when its task ends.
EndsAs(status, stop, unsure) ==
    /\ status \in {"listed", "cancelled", "failed", "skipped"}
    /\ stop \in BOOLEAN /\ unsure \in BOOLEAN
    /\ unsure => stop /\ status = "failed"
    /\ status = "skipped" => T.at \notin Sent
    /\ status \in {"listed", "cancelled"} => T.at \in Sent

LEMMA EndKeeps ==
    ASSUME IInv, tasks # <<>>, NEW status, NEW stop, NEW unsure,
           EndsAs(status, stop, unsure), End(status, stop, unsure)
    PROVE  /\ TasksTrue' /\ RowsAtWork' /\ RowsInOrder'
           /\ tasks' # <<>> => T'.at = "start"
           /\ job'.active = job.active /\ (job.stop => job'.stop)
           /\ \A i \in DOMAIN tasks' : \E j \in DOMAIN tasks : tasks'[i] = tasks[j]
<1>1. tasks' = Tail(tasks)
  BY DEF End
<1>2. TasksTrue' /\ (tasks' # <<>> => T'.at = "start")
  BY <1>1, NextHasNotBegun
<1>3. /\ T = tasks[1] /\ 1 \in DOMAIN tasks /\ T \in Task
      /\ \A i \in DOMAIN tasks' : i + 1 \in DOMAIN tasks /\ tasks'[i] = tasks[i + 1]
                                  /\ i + 1 # 1
      /\ \A i \in DOMAIN tasks : i # 1 => i - 1 \in DOMAIN tasks' /\ tasks'[i - 1] = tasks[i]
  BY <1>1, TaskFacts
<1>4. job \in Job /\ T.row \in Nat
  BY <1>3 DEF IInv, RowsAtWork, Task
<1>5. CASE T.row = 0
  <2>1. job' = job
    BY <1>5 DEF End
  <2>2. RowsAtWork'
    <3>1. \A k \in DOMAIN job.rows : job.rows[k].status = "running" =>
            k > 0 /\ \E i \in DOMAIN tasks : tasks[i].row = k
      BY <1>4 DEF IInv, RowsAtWork, Job
    <3>2. \A k \in DOMAIN job.rows : job.rows[k].status = "running" =>
            \E i \in DOMAIN tasks' : tasks'[i].row = k
      BY <1>3, <1>5, <3>1
    <3>3. \A i, j \in DOMAIN tasks' : i + 1 = j + 1 => i = j
      BY <1>1, TaskFacts
    <3> QED
      BY <1>3, <2>1, <3>2, <3>3 DEF IInv, RowsAtWork
  <2> QED
    BY <1>2, <1>3, <2>1, <2>2 DEF IInv, RowsInOrder
<1>6. CASE T.row > 0
  <2> DEFINE k == T.row
             r == [job.rows[k] EXCEPT !.status = status, !.unsure = unsure]
  <2>1. /\ job.active /\ k \in DOMAIN job.rows /\ job.rows[k].status = "running"
        /\ job.rows \in Seq(Row) /\ job.rows[k] \in Row /\ ~job.rows[k].unsure
        /\ (job.rows[k].sent <=> T.at \in Sent)
        /\ \A l \in DOMAIN job.rows : k < l => Fresh(job.rows[l])
        /\ \A l \in DOMAIN job.rows : l < k =>
            ~job.rows[l].unsure /\ job.rows[l].status \notin {"queued", "running"}
    BY <1>3, <1>6, RowFacts
  <2>2. /\ r \in Row /\ r.status = status /\ r.unsure = unsure /\ r.sent = job.rows[k].sent
    BY <2>1 DEF EndsAs, Row
  <2>3. job' = [RowIs(k, r) EXCEPT !.stop = @ \/ stop]
    BY <1>4, <1>6 DEF End
  <2> HIDE DEF r
  <2>4. /\ job' \in Job /\ job'.active = job.active /\ job'.stop = (job.stop \/ stop)
        /\ job'.rows = [job.rows EXCEPT ![k] = r]
    <3> DEFINE rs == [job.rows EXCEPT ![k] = r]
    <3>1. rs \in Seq(Row)
      BY <2>1, <2>2
    <3> HIDE DEF rs
    <3>2. RowIs(k, r) = [job EXCEPT !.rows = rs]
      BY DEF RowIs, rs
    <3>3. /\ [job EXCEPT !.rows = rs] \in Job
          /\ [job EXCEPT !.rows = rs].active = job.active
          /\ [job EXCEPT !.rows = rs].stop = job.stop
          /\ [job EXCEPT !.rows = rs].rows = rs
      BY <1>4, <3>1 DEF Job
    <3>4. job.stop \in BOOLEAN /\ stop \in BOOLEAN
      BY <1>4 DEF Job, EndsAs
    <3>5. /\ job' \in Job /\ job'.active = job.active /\ job'.stop = (job.stop \/ stop)
          /\ job'.rows = rs
      BY <2>3, <3>2, <3>3, <3>4 DEF Job
    <3> QED
      BY <3>5 DEF rs
  <2>5. /\ DOMAIN job'.rows = DOMAIN job.rows
        /\ \A l \in DOMAIN job.rows : job'.rows[l] = IF l = k THEN r ELSE job.rows[l]
    BY <2>1, <2>4
  <2>6. \A i \in DOMAIN tasks' : tasks'[i].row > 0 => FALSE
    <3>1. \A i \in DOMAIN tasks : tasks[i].row > 0 => i = 1
      BY <1>3, <1>6 DEF IInv, RowsAtWork
    <3> QED
      BY <1>3, <3>1
  <2>7. \A l \in DOMAIN job.rows : job.rows[l].status = "running" => l = k
    <3>1. \A i \in DOMAIN tasks : tasks[i].row > 0 => i = 1
      BY <1>3, <1>6 DEF IInv, RowsAtWork
    <3>2. \A l \in DOMAIN job.rows : l > 0
      BY <2>1
    <3> QED
      BY <1>3, <3>1, <3>2 DEF IInv, RowsAtWork
  <2>8. RowsAtWork'
    <3>1. \A l \in DOMAIN job'.rows : job'.rows[l].status # "running"
      BY <2>2, <2>5, <2>7 DEF EndsAs
    <3> QED
      BY <2>1, <2>4, <2>6, <3>1 DEF RowsAtWork
  <2>9. RowsInOrder'
    <3> SUFFICES ASSUME NEW l \in DOMAIN job.rows
                 PROVE  LET row == job'.rows[l] IN
                        /\ row.status = "queued" => Fresh(row)
                        /\ row.status = "skipped" => ~row.sent
                        /\ row.status \in {"listed", "cancelled"} => row.sent
                        /\ row.unsure => job'.stop /\ row.status = "failed"
                        /\ row.status \in {"queued", "running"} \/ row.unsure =>
                            \A m \in DOMAIN job.rows : l < m => Fresh(job'.rows[m])
      BY <2>5 DEF RowsInOrder
    <3>1. CASE l = k
      <4>1. \A m \in DOMAIN job.rows : k < m => job'.rows[m] = job.rows[m]
        BY <2>1, <2>5
      <4> QED
        BY <2>1, <2>2, <2>4, <2>5, <3>1, <4>1 DEF EndsAs
    <3>2. CASE l # k
      <4>1. job'.rows[l] = job.rows[l]
        BY <2>5, <3>2
      <4>2. CASE l < k
        BY <2>1, <2>4, <4>1, <4>2 DEF IInv, RowsInOrder
      <4>3. CASE k < l
        <5>1. \A m \in DOMAIN job.rows : l < m => m # k /\ k < m
          BY <2>1, <4>3
        <5>2. \A m \in DOMAIN job.rows : l < m => Fresh(job'.rows[m])
          BY <2>1, <2>5, <5>1
        <5> QED
          BY <2>1, <2>4, <4>1, <4>3, <5>2 DEF IInv, RowsInOrder
      <4>4. l < k \/ k < l
        BY <2>1, <3>2
      <4> QED
        BY <4>2, <4>3, <4>4
    <3> QED
      BY <3>1, <3>2
  <2> QED
    BY <1>2, <1>3, <2>4, <2>8, <2>9
<1> QED
  BY <1>4, <1>5, <1>6

\* The holder of the lock takes a step.
LEMMA StepKeeps ==
    ASSUME IInv, tasks # <<>>, NEW t \in Task, tasks' = [tasks EXCEPT ![1] = t],
           t.op = T.op, t.row = T.row, t.quantity = T.quantity,
           t.live = T.live, T.op = "save" => t.at \in {"start", "turn"}
    PROVE  /\ TasksTrue' /\ T' = t /\ tasks' # <<>> /\ DOMAIN tasks' = DOMAIN tasks
           /\ tasks'[1] = t /\ \A i \in DOMAIN tasks : i # 1 => tasks'[i] = tasks[i]
           /\ (t.at \in Sent <=> T.at \in Sent) /\ job' = job => RowsAtWork' /\ RowsInOrder'
<1>1. tasks \in Seq(Task) /\ T = tasks[1] /\ 1 \in DOMAIN tasks
  BY TaskFacts DEF IInv, TasksTrue
<1>2. tasks' \in Seq(Task) /\ DOMAIN tasks' = DOMAIN tasks /\ tasks' # <<>>
  BY <1>1
<1>3. \A i \in DOMAIN tasks : tasks'[i] = IF i = 1 THEN t ELSE tasks[i]
  BY <1>1
<1>4. TasksTrue'
  BY <1>1, <1>2, <1>3 DEF IInv, TasksTrue
<1>5. T' = t
  BY <1>1, <1>2, <1>3 DEF T
<1>6. ASSUME job' = job, t.at \in Sent <=> T.at \in Sent
      PROVE  RowsAtWork' /\ RowsInOrder'
  <2>1. \A i \in DOMAIN tasks : /\ tasks'[i].row = tasks[i].row
                                /\ tasks'[i].at \in Sent <=> tasks[i].at \in Sent
    BY <1>1, <1>3, <1>6
  <2> QED
    BY <1>2, <1>6, <2>1 DEF IInv, RowsAtWork, RowsInOrder
<1> QED
  BY <1>1, <1>2, <1>3, <1>4, <1>5, <1>6

\* A request that nothing of the batch depends on waits behind the others.
LEMMA EnqueuedKeeps ==
    ASSUME IInv, NEW op \in {"sell", "cancel", "save", "preview", "preview_batch"},
           NEW asset \in Assets, NEW quantity \in Amounts, NEW r \in Nat,
           op \in Works => quantity \in Quantities,
           tasks' = Enqueued(op, 0, asset, quantity, r)
    PROVE  /\ TasksTrue'
           /\ job' = job => RowsAtWork' /\ RowsInOrder'
           /\ \A i \in DOMAIN tasks' : \/ i \in DOMAIN tasks /\ tasks'[i] = tasks[i]
                                       \/ tasks'[i].op = op
           /\ tasks # <<>> => tasks' # <<>> /\ T' = T
           /\ tasks = <<>> => T'.at = "start"
<1> DEFINE n == Len(tasks) + 1
           t == [op |-> op, row |-> 0, asset |-> asset, quantity |-> quantity,
                 rules |-> r, live |-> TRUE, at |-> "start", before |-> 0]
<1>1. tasks \in Seq(Task) /\ tasks' = Append(tasks, t)
  BY DEF IInv, TasksTrue, Enqueued
<1>2. t \in Task /\ t.row = 0 /\ t.at = "start" /\ t.op = op /\ t.quantity = quantity
  <2>1. 0 \in Nat /\ 0 \in Amounts
    BY CopiesAreFinite DEF Amounts
  <2> QED
    BY <2>1 DEF Task, Steps
<1> HIDE DEF t
<1>3. /\ DOMAIN tasks = 1..Len(tasks) /\ DOMAIN tasks' = 1..n /\ n \in Nat
      /\ tasks' \in Seq(Task) /\ tasks'[n] = t
      /\ \A i \in DOMAIN tasks : tasks'[i] = tasks[i] /\ i \in DOMAIN tasks' /\ i # n
      /\ \A i \in DOMAIN tasks' : i = n \/ i \in DOMAIN tasks
  BY <1>1, <1>2
<1>4. TasksTrue'
  BY <1>2, <1>3 DEF IInv, TasksTrue
<1>5. ASSUME job' = job PROVE RowsAtWork' /\ RowsInOrder'
  <2>1. \A i \in DOMAIN tasks' : tasks'[i].row > 0 => i \in DOMAIN tasks
    BY <1>2, <1>3
  <2>2. RowsAtWork'
    BY <1>3, <1>5, <2>1 DEF IInv, RowsAtWork
  <2>3. RowsInOrder'
    BY <1>5 DEF IInv, RowsInOrder
  <2> QED
    BY <2>2, <2>3
<1>6. tasks # <<>> => tasks' # <<>> /\ T' = T
  BY <1>1 DEF T
<1>7. tasks = <<>> => T' = t
  BY <1>1 DEF T
<1> QED
  BY <1>2, <1>3, <1>4, <1>5, <1>6, <1>7

(***************************************************************************)
(* What a step leaves alone                                                *)
(***************************************************************************)

\* Who holds the lock is where it was, or where nothing is relied on.
HeadKept ==
    tasks' # <<>> => \/ tasks # <<>> /\ T' = T
                     \/ T'.at \notin {"turn", "session", "rejected"}

LEMMA SteamKept ==
    ASSUME IInv, UNCHANGED steam
    PROVE  SteamTrue'
BY DEF IInv, SteamTrue

LEMMA PreparedKept ==
    ASSUME IInv, UNCHANGED prepared \/ prepared' = NoJob
    PROVE  PreparedTrue'
<1>1. CASE UNCHANGED prepared
  BY <1>1 DEF IInv, PreparedTrue
<1>2. CASE prepared' = NoJob
  <2>1. NoJob \in Job /\ DOMAIN NoJob.rows = {} /\ ~NoJob.active /\ ~NoJob.stop
    BY DEF NoJob, Job
  <2> QED
    BY <1>2, <2>1 DEF PreparedTrue
<1> QED
  BY <1>1, <1>2

LEMMA RowsKept ==
    ASSUME IInv, UNCHANGED <<job, tasks>>
    PROVE  TasksTrue' /\ RowsAtWork' /\ RowsInOrder'
BY DEF IInv, TasksTrue, RowsAtWork, RowsInOrder

LEMMA RulesKept ==
    ASSUME IInv, HeadKept, UNCHANGED rules
    PROVE  RulesTrue'
BY DEF IInv, HeadKept, RulesTrue, At

LEMMA RememberedKept ==
    ASSUME IInv, HeadKept, UNCHANGED <<steam, submitted>>
    PROVE  Remembered'
<1>1. CASE MayForget
  BY <1>1 DEF Remembered
<1>2. CASE ~MayForget
  <2>1. Accounted /\ Relied /\ OneCopyStays
    BY <1>2 DEF IInv, Remembered
  <2>2. Accounted' /\ OneCopyStays' /\ Kept' = Kept
    BY <2>1 DEF Accounted, Taken, OneCopyStays, Kept
  <2>3. Relied'
    BY <2>1, <2>2 DEF HeadKept, Relied, Taken
  <2> QED
    BY <2>2, <2>3 DEF Remembered
<1> QED
  BY <1>1, <1>2

LEMMA QuietKept ==
    ASSUME IInv, UNCHANGED quiet, intents' \subseteq intents,
           UNCHANGED prepared \/ prepared' = NoJob,
           job'.active => job.active, job.stop => job'.stop,
           \A i \in DOMAIN tasks' :
              \/ tasks'[i].op = "save"
              \/ \E j \in DOMAIN tasks : /\ tasks'[i].op = tasks[j].op
                                         /\ tasks'[i].live = tasks[j].live
    PROVE  QuietTrue'
BY DEF IInv, QuietTrue, NoJob

(***************************************************************************)
(* Requests                                                                *)
(***************************************************************************)

LEMMA RequestPreviewInv ==
    ASSUME IInv, NEW op \in {"preview", "preview_batch"}, RequestPreview(op)
    PROVE  IInv'
<1> DEFINE a == CHOOSE a \in Assets : TRUE
<1>1. a \in Assets /\ 0 \in Amounts /\ rules \in Nat
  BY ConstantsAssumption, CopiesAreFinite DEF Amounts, IInv, Typed
<1>2. op \notin Works /\ tasks' = Enqueued(op, 0, a, 0, rules) /\ quiet' = FALSE
  BY DEF RequestPreview, Works
<1>3. UNCHANGED <<steam, submitted, intents, prepared, job, rules>>
  BY DEF RequestPreview
<1> HIDE DEF a
<1>4. /\ TasksTrue' /\ RowsAtWork' /\ RowsInOrder'
      /\ tasks # <<>> => tasks' # <<>> /\ T' = T
      /\ tasks = <<>> => T'.at = "start"
  BY <1>1, <1>2, <1>3, EnqueuedKeeps
<1>5. HeadKept
  BY <1>4 DEF HeadKept, T
<1>6. Typed'
  BY <1>2, <1>3 DEF IInv, Typed
<1>7. QuietTrue'
  BY <1>2 DEF QuietTrue
<1> QED
  BY <1>3, <1>4, <1>5, <1>6, <1>7, SteamKept, PreparedKept, RulesKept, RememberedKept
  DEF IInv

LEMMA ConfirmInv ==
    ASSUME IInv, NEW i \in intents, Confirm(i)
    PROVE  IInv'
<1>1. i \in Intent /\ i.quantity \in Amounts
  BY DEF IInv, Typed, Intent, Quantities, Amounts
<1>2. tasks' = Enqueued(i.op, 0, i.asset, i.quantity, i.rules)
  BY DEF Confirm
<1>3. UNCHANGED <<steam, submitted, intents, prepared, job, rules, quiet>>
  BY DEF Confirm
<1>4. /\ TasksTrue' /\ RowsAtWork' /\ RowsInOrder'
      /\ tasks # <<>> => tasks' # <<>> /\ T' = T
      /\ tasks = <<>> => T'.at = "start"
  BY <1>1, <1>2, <1>3, EnqueuedKeeps DEF Intent
<1>5. HeadKept
  BY <1>4 DEF HeadKept, T
<1>6. Typed'
  BY <1>3 DEF IInv, Typed
<1>7. QuietTrue'
  BY <1>3 DEF IInv, QuietTrue
<1> QED
  BY <1>3, <1>4, <1>5, <1>6, <1>7, SteamKept, PreparedKept, RulesKept, RememberedKept
  DEF IInv

LEMMA RequestSaveInv ==
    ASSUME IInv, RequestSave
    PROVE  IInv'
<1> DEFINE a == CHOOSE a \in Assets : TRUE
<1>1. a \in Assets /\ 0 \in Amounts /\ rules + 1 \in Nat
  BY ConstantsAssumption, CopiesAreFinite DEF Amounts, IInv, Typed
<1>2. "save" \notin Works /\ tasks' = Enqueued("save", 0, a, 0, rules + 1)
  BY DEF RequestSave, Works
<1>3. UNCHANGED <<steam, submitted, intents, prepared, job, rules, quiet>>
  BY DEF RequestSave
<1> HIDE DEF a
<1>4. /\ TasksTrue' /\ RowsAtWork' /\ RowsInOrder'
      /\ \A i \in DOMAIN tasks' : \/ i \in DOMAIN tasks /\ tasks'[i] = tasks[i]
                                  \/ tasks'[i].op = "save"
      /\ tasks # <<>> => tasks' # <<>> /\ T' = T
      /\ tasks = <<>> => T'.at = "start"
  BY <1>1, <1>2, <1>3, EnqueuedKeeps
<1>5. HeadKept
  BY <1>4 DEF HeadKept, T
<1>6. Typed'
  BY <1>3 DEF IInv, Typed
<1>7. QuietTrue'
  BY <1>3, <1>4, QuietKept
<1> QED
  BY <1>3, <1>4, <1>5, <1>6, <1>7, SteamKept, PreparedKept, RulesKept, RememberedKept
  DEF IInv

\* What was prepared becomes the batch: none of its rows has begun.
LEMMA ConfirmBatchInv ==
    ASSUME IInv, ConfirmBatch
    PROVE  IInv'
<1>1. UNCHANGED <<steam, submitted, intents, tasks, rules, quiet>> /\ prepared' = NoJob
  BY DEF ConfirmBatch
<1>2. /\ prepared \in Job /\ ~prepared.stop
      /\ \A i \in DOMAIN prepared.rows : Fresh(prepared.rows[i])
  BY DEF IInv, PreparedTrue
<1>3. /\ job' \in Job /\ job'.active /\ job'.rows = prepared.rows /\ ~job'.stop
  BY <1>2 DEF ConfirmBatch, Job
<1>4. ~job.active /\ prepared.rows # <<>>
  BY DEF ConfirmBatch, Idle
<1>5. \A i \in DOMAIN tasks : ~(tasks[i].row > 0)
  BY <1>4 DEF IInv, RowsAtWork
<1>6. RowsAtWork'
  BY <1>1, <1>2, <1>3, <1>5 DEF RowsAtWork, Fresh
<1>7. RowsInOrder'
  BY <1>2, <1>3 DEF RowsInOrder, Fresh
<1>8. QuietTrue'
  BY <1>1, <1>4 DEF IInv, QuietTrue
<1>9. HeadKept
  BY <1>1 DEF HeadKept, T
<1>10. Typed' /\ TasksTrue'
  BY <1>1 DEF IInv, Typed, TasksTrue
<1> QED
  BY <1>1, <1>6, <1>7, <1>8, <1>9, <1>10, SteamKept, PreparedKept, RulesKept,
     RememberedKept DEF IInv

LEMMA ExpireInv ==
    ASSUME IInv, Expire
    PROVE  IInv'
<1>1. /\ UNCHANGED <<steam, submitted, job, tasks, rules, quiet>>
      /\ prepared' = NoJob /\ intents' = {}
  BY DEF Expire
<1>2. HeadKept
  BY <1>1 DEF HeadKept, T
<1>3. Typed'
  BY <1>1 DEF IInv, Typed
<1>4. QuietTrue'
  BY <1>1, QuietKept
<1> QED
  BY <1>1, <1>2, <1>3, <1>4, SteamKept, PreparedKept, RowsKept, RulesKept,
     RememberedKept DEF IInv

\* The batch may be stopped at any time.
LEMMA StopKeeps ==
    ASSUME IInv, NEW b \in BOOLEAN, job.stop => b, ~job.active => b = job.stop,
           job' = [job EXCEPT !.stop = b], DOMAIN tasks' = DOMAIN tasks,
           \A i \in DOMAIN tasks :
              tasks'[i].row = tasks[i].row /\ tasks'[i].at = tasks[i].at
    PROVE  RowsAtWork' /\ RowsInOrder' /\ job'.active = job.active /\ job'.stop = b
<1>1. job \in Job
  BY DEF IInv, RowsAtWork
<1>2. /\ job' \in Job /\ job'.rows = job.rows /\ job'.active = job.active
      /\ job'.stop = b
  BY <1>1 DEF Job
<1>3. ~job.active => job' = NoJob
  BY <1>1 DEF IInv, RowsAtWork, NoJob, Job
<1>4. RowsAtWork'
  BY <1>2, <1>3 DEF IInv, RowsAtWork
<1>5. RowsInOrder'
  BY <1>2 DEF IInv, RowsInOrder
<1> QED
  BY <1>2, <1>4, <1>5

LEMMA StopBatchInv ==
    ASSUME IInv, StopBatch
    PROVE  IInv'
<1>1. UNCHANGED <<steam, submitted, intents, prepared, tasks, rules, quiet>>
  BY DEF StopBatch
<1>2. RowsAtWork' /\ RowsInOrder' /\ job'.active = job.active /\ job'.stop = TRUE
  BY <1>1, StopKeeps DEF StopBatch
<1>3. HeadKept
  BY <1>1 DEF HeadKept, T
<1>4. Typed' /\ TasksTrue'
  BY <1>1 DEF IInv, Typed, TasksTrue
<1>5. QuietTrue'
  BY <1>1, <1>2, QuietKept
<1> QED
  BY <1>1, <1>2, <1>3, <1>4, <1>5, SteamKept, PreparedKept, RulesKept, RememberedKept
  DEF IInv

LEMMA StopAccountInv ==
    ASSUME IInv, StopAccount
    PROVE  IInv'
<1>1. /\ UNCHANGED <<steam, submitted, rules>> /\ quiet' = TRUE
      /\ intents' = {} /\ prepared' = NoJob
  BY DEF StopAccount, Revoked
<1>2. tasks' = [i \in DOMAIN tasks |-> [tasks[i] EXCEPT !.live = FALSE]]
  BY DEF StopAccount, Revoked
<1>3. tasks \in Seq(Task) /\ job \in Job
  BY DEF IInv, TasksTrue, RowsAtWork
<1>4. \A i \in DOMAIN tasks :
        LET t == [tasks[i] EXCEPT !.live = FALSE]
        IN  /\ t \in Task /\ t.op = tasks[i].op /\ t.row = tasks[i].row /\ ~t.live
            /\ t.asset = tasks[i].asset /\ t.quantity = tasks[i].quantity
            /\ t.rules = tasks[i].rules /\ t.at = tasks[i].at
            /\ t.before = tasks[i].before
  <2> TAKE i \in DOMAIN tasks
  <2>1. tasks[i] \in Task
    BY <1>3
  <2> QED
    BY <2>1 DEF Task
<1>5. /\ tasks' \in Seq(Task) /\ DOMAIN tasks' = DOMAIN tasks
      /\ \A i \in DOMAIN tasks :
            /\ tasks'[i].op = tasks[i].op /\ tasks'[i].row = tasks[i].row
            /\ ~tasks'[i].live /\ tasks'[i].at = tasks[i].at
            /\ tasks'[i].asset = tasks[i].asset
            /\ tasks'[i].quantity = tasks[i].quantity
            /\ tasks'[i].rules = tasks[i].rules /\ tasks'[i].before = tasks[i].before
  <2>1. DOMAIN tasks' = DOMAIN tasks
        /\ \A i \in DOMAIN tasks : tasks'[i] = [tasks[i] EXCEPT !.live = FALSE]
    BY <1>2
  <2>2. \A i \in DOMAIN tasks : tasks'[i] \in Task
    BY <1>4, <2>1
  <2>3. \E n \in Nat : DOMAIN tasks = 1..n
    BY <1>3
  <2>4. tasks' \in Seq(Task)
    BY <1>2, <2>1, <2>2, <2>3
  <2> QED
    BY <1>4, <2>1, <2>4
<1>6. TasksTrue'
  BY <1>5 DEF IInv, TasksTrue
<1>7. /\ RowsAtWork' /\ RowsInOrder' /\ job'.active = job.active
      /\ job'.stop = (job.stop \/ job.active)
  <2> DEFINE b == job.stop \/ job.active
  <2>1. b \in BOOLEAN /\ (job.stop => b) /\ (~job.active => b = job.stop)
    BY <1>3 DEF Job
  <2>2. job' = [job EXCEPT !.stop = b]
    BY <1>3 DEF StopAccount, Job
  <2> HIDE DEF b
  <2>3. RowsAtWork' /\ RowsInOrder' /\ job'.active = job.active /\ job'.stop = b
    BY <1>5, <2>1, <2>2, StopKeeps
  <2> QED
    BY <2>3 DEF b
<1>8. QuietTrue'
  BY <1>1, <1>5, <1>7 DEF QuietTrue, NoJob
<1>9. Typed'
  BY <1>1 DEF IInv, Typed
<1>10. /\ tasks' # <<>> <=> tasks # <<>>
       /\ tasks # <<>> => /\ T'.op = T.op /\ T'.at = T.at /\ T'.asset = T.asset
                          /\ T'.quantity = T.quantity /\ T'.rules = T.rules
                          /\ T'.before = T.before
  <2>1. DOMAIN tasks = 1..Len(tasks) /\ DOMAIN tasks' = 1..Len(tasks')
        /\ Len(tasks) \in Nat /\ Len(tasks') \in Nat
    BY <1>3, <1>5
  <2>2. Len(tasks') = Len(tasks)
    BY <1>5, <2>1
  <2>3. tasks' # <<>> <=> tasks # <<>>
    BY <1>3, <1>5, <2>2
  <2>4. tasks # <<>> => 1 \in DOMAIN tasks /\ T = tasks[1] /\ T' = tasks'[1]
    BY <1>3, <1>5, <2>1, <2>3 DEF T
  <2> QED
    BY <1>5, <2>3, <2>4
<1>11. RulesTrue'
  BY <1>1, <1>10 DEF IInv, RulesTrue, At
<1>12. Remembered'
  <2>1. CASE MayForget
    BY <2>1 DEF Remembered
  <2>2. CASE ~MayForget
    <3>1. Accounted /\ Relied /\ OneCopyStays
      BY <2>2 DEF IInv, Remembered
    <3>2. Accounted' /\ OneCopyStays' /\ Kept' = Kept
      BY <1>1, <3>1 DEF Accounted, Taken, OneCopyStays, Kept
    <3>3. Relied'
      BY <1>1, <1>10, <3>1, <3>2 DEF Relied, Taken
    <3> QED
      BY <3>2, <3>3 DEF Remembered
  <2> QED
    BY <2>1, <2>2
<1> QED
  BY <1>1, <1>6, <1>7, <1>8, <1>9, <1>11, <1>12, SteamKept, PreparedKept DEF IInv

(***************************************************************************)
(* The inventory is read                                                   *)
(***************************************************************************)

\* Only what has left the inventory is forgotten.
LEMMA ReleasedKeeps ==
    ASSUME IInv, UNCHANGED steam, submitted' = Released(submitted, steam.owned)
    PROVE  /\ submitted' \in [Assets -> Submission]
           /\ ~MayForget => Accounted'
           /\ \A a \in Assets : submitted'[a].quantity = 0 \/ submitted'[a] = submitted[a]
           /\ \A a \in Assets :
                submitted[a].quantity > 0 /\ submitted[a].before = steam.owned[a]
                    => submitted'[a] = submitted[a]
<1>1. NoSubmission \in Submission /\ NoSubmission.quantity = 0
  BY CopiesAreFinite DEF NoSubmission, Submission, Amounts
<1>2. submitted \in [Assets -> Submission]
  BY DEF IInv, Typed
<1>3. \A a \in Assets :
        submitted'[a] = IF steam.owned[a] <= submitted[a].before - submitted[a].quantity
                        THEN NoSubmission ELSE submitted[a]
  BY DEF Released
<1>4. submitted' \in [Assets -> Submission]
  <2>1. \A a \in Assets : submitted'[a] \in Submission
    BY <1>1, <1>2, <1>3
  <2> QED
    BY <2>1 DEF Released
<1>5. \A a \in Assets : /\ steam.owned[a] \in Nat /\ submitted[a].before \in Nat
                        /\ submitted[a].quantity \in Nat
                        /\ steam.wire[a] \in Nat /\ steam.moving[a] \in Nat
  BY <1>2, CopiesAreFinite DEF IInv, SteamTrue, Steam, Submission, Amounts
<1>6. \A a \in Assets :
        submitted[a].quantity > 0 /\ submitted[a].before = steam.owned[a]
            => submitted'[a] = submitted[a]
  BY <1>3, <1>5
<1>7. \A a \in Assets : submitted'[a].quantity = 0 \/ submitted'[a] = submitted[a]
  BY <1>1, <1>3
<1>8. ASSUME ~MayForget PROVE Accounted'
  <2>1. Accounted
    BY <1>8 DEF IInv, Remembered
  <2> SUFFICES ASSUME NEW a \in Assets
               PROVE  /\ Taken(a) = 0 \/ Taken(a) = submitted'[a].quantity
                      /\ steam.wire[a] = 0 \/ steam.listed[a] = 0
                      /\ Taken(a) # 0 => steam.owned[a] = submitted'[a].before
    BY DEF Accounted, Taken
  <2>2. CASE Taken(a) = 0
    BY <2>1, <2>2 DEF Accounted
  <2>3. CASE Taken(a) # 0
    <3>1. Taken(a) = submitted[a].quantity /\ steam.owned[a] = submitted[a].before
          /\ (steam.wire[a] = 0 \/ steam.listed[a] = 0)
      BY <2>1, <2>3 DEF Accounted
    <3>2. submitted[a].quantity > 0
      BY <1>5, <2>3, <3>1
    <3>3. submitted'[a] = submitted[a]
      BY <1>6, <3>1, <3>2
    <3> QED
      BY <3>1, <3>3
  <2> QED
    BY <2>2, <2>3
<1> QED
  BY <1>4, <1>6, <1>7, <1>8

LEMMA RefreshInv ==
    ASSUME IInv, Refresh
    PROVE  IInv'
<1>1. UNCHANGED <<steam, intents, prepared, job, tasks, rules, quiet>>
      /\ submitted' = Released(submitted, steam.owned)
  BY DEF Refresh
<1>2. /\ submitted' \in [Assets -> Submission]
      /\ ~MayForget => Accounted'
      /\ \A a \in Assets : submitted'[a].quantity = 0 \/ submitted'[a] = submitted[a]
      /\ \A a \in Assets :
            submitted[a].quantity > 0 /\ submitted[a].before = steam.owned[a]
                => submitted'[a] = submitted[a]
  BY <1>1, ReleasedKeeps
<1>3. HeadKept
  BY <1>1 DEF HeadKept, T
<1>4. Typed'
  BY <1>1, <1>2 DEF IInv, Typed
<1>5. QuietTrue'
  BY <1>1 DEF IInv, QuietTrue
<1>6. Remembered'
  <2>1. CASE MayForget
    BY <2>1 DEF Remembered
  <2>2. CASE ~MayForget
    <3>1. Relied /\ OneCopyStays
      BY <2>2 DEF IInv, Remembered
    <3>2. OneCopyStays' /\ Kept' = Kept /\ T' = T
      BY <1>1, <3>1 DEF OneCopyStays, Kept, T
    <3>3. Relied'
      <4> SUFFICES ASSUME tasks # <<>>, T.op = "sell"
                   PROVE  /\ T.at \in {"turn", "session"} =>
                              /\ Taken(T.asset) = 0 /\ steam.listed[T.asset] = 0
                              /\ T.quantity <= steam.owned[T.asset] /\ Kept >= T.quantity + 1
                          /\ T.at = "turn" =>
                              /\ submitted'[T.asset].quantity = 0
                              /\ T.before = steam.owned[T.asset]
                          /\ T.at = "session" => submitted'[T.asset] =
                              [quantity |-> T.quantity, before |-> steam.owned[T.asset]]
                          /\ T.at = "rejected" => Taken(T.asset) = 0
        BY <1>1, <3>2 DEF Relied, Taken
      <4>1. T \in Task /\ T.quantity \in Quantities /\ T = tasks[1] /\ 1 \in DOMAIN tasks
        BY TaskFacts DEF IInv, TasksTrue, Works
      <4>2. T.asset \in Assets /\ T.quantity > 0
        BY <4>1, CopiesAreFinite DEF Task, Quantities
      <4>3. T.at = "turn" => submitted'[T.asset].quantity = 0
        BY <1>2, <3>1, <4>2 DEF Relied
      <4>4. T.at = "session" => submitted'[T.asset] =
                [quantity |-> T.quantity, before |-> steam.owned[T.asset]]
        <5> HAVE T.at = "session"
        <5>1. submitted[T.asset] =
                [quantity |-> T.quantity, before |-> steam.owned[T.asset]]
          BY <3>1 DEF Relied
        <5>2. submitted[T.asset].quantity > 0
              /\ submitted[T.asset].before = steam.owned[T.asset]
          BY <4>2, <5>1
        <5> QED
          BY <1>2, <4>2, <5>1, <5>2
      <4> QED
        BY <3>1, <4>3, <4>4 DEF Relied
    <3> QED
      BY <1>2, <2>2, <3>2, <3>3 DEF Remembered
  <2> QED
    BY <2>1, <2>2
<1> QED
  BY <1>1, <1>3, <1>4, <1>5, <1>6, SteamKept, PreparedKept, RowsKept, RulesKept DEF IInv

\* When the holder of the lock leaves it, the next one relies on nothing yet.
LEMMA LeavesLock ==
    ASSUME IInv, tasks # <<>>, tasks' = Tail(tasks)
    PROVE  /\ TasksTrue' /\ HeadKept /\ RulesTrue' /\ Relied'
           /\ \A i \in DOMAIN tasks' : \E j \in DOMAIN tasks : tasks'[i] = tasks[j]
<1>1. TasksTrue' /\ (tasks' # <<>> => T'.at = "start")
  BY NextHasNotBegun
<1>2. \A i \in DOMAIN tasks' : \E j \in DOMAIN tasks : tasks'[i] = tasks[j]
  BY TaskFacts
<1>4. HeadKept /\ Relied'
  BY <1>1 DEF HeadKept, Relied
<1>5. RulesTrue'
  BY <1>1 DEF RulesTrue, At
<1> QED
  BY <1>1, <1>2, <1>4, <1>5

(***************************************************************************)
(* The holder of the lock                                                  *)
(***************************************************************************)

LEMMA SteamStands ==
    ASSUME IInv, UNCHANGED steam, ~MayForget
    PROVE  OneCopyStays' /\ (UNCHANGED submitted => Accounted')
<1>1. Accounted /\ OneCopyStays
  BY DEF IInv, Remembered
<1> QED
  BY <1>1 DEF Accounted, Taken, OneCopyStays, Kept

\* A task ends.
LEMMA EndInv ==
    ASSUME IInv, tasks # <<>>, NEW status, NEW stop, NEW unsure,
           EndsAs(status, stop, unsure), End(status, stop, unsure),
           UNCHANGED <<steam, prepared, rules, quiet>>, intents' \subseteq intents,
           submitted' \in [Assets -> Submission], ~MayForget => Accounted'
    PROVE  IInv'
<1>1. tasks' = Tail(tasks)
  BY DEF End
<1>2. /\ TasksTrue' /\ RowsAtWork' /\ RowsInOrder'
      /\ job'.active = job.active /\ (job.stop => job'.stop)
      /\ \A i \in DOMAIN tasks' : \E j \in DOMAIN tasks : tasks'[i] = tasks[j]
  BY EndKeeps
<1>3. RulesTrue' /\ Relied'
  BY <1>1, LeavesLock
<1>4. Typed'
  BY DEF IInv, Typed
<1>5. QuietTrue'
  BY <1>2, QuietKept
<1>6. Remembered'
  BY <1>3, SteamStands DEF Remembered
<1> QED
  BY <1>2, <1>3, <1>4, <1>5, <1>6, SteamKept, PreparedKept DEF IInv

LEMMA AnswerLostInv ==
    ASSUME IInv, AnswerLost
    PROVE  IInv'
<1>1. tasks # <<>> /\ End("failed", TRUE, TRUE)
  BY DEF AnswerLost, At, Uncertain
<1>2. UNCHANGED <<steam, submitted, intents, prepared, rules, quiet>>
  BY DEF AnswerLost
<1>3. EndsAs("failed", TRUE, TRUE)
  BY DEF EndsAs
<1>4. submitted' \in [Assets -> Submission] /\ (~MayForget => Accounted')
  BY <1>2, SteamStands DEF IInv, Typed
<1> QED
  BY <1>1, <1>2, <1>3, <1>4, EndInv

LEMMA VerifyInv ==
    ASSUME IInv, Verify
    PROVE  IInv'
<1>1. /\ tasks # <<>> /\ T.at = "verify"
      /\ \/ End("failed", TRUE, FALSE) \/ End("cancelled", FALSE, FALSE)
  BY DEF Verify, At
<1>2. UNCHANGED <<steam, submitted, intents, prepared, rules, quiet>>
  BY DEF Verify
<1>3. EndsAs("failed", TRUE, FALSE) /\ EndsAs("cancelled", FALSE, FALSE)
  BY <1>1 DEF EndsAs, Sent
<1>4. submitted' \in [Assets -> Submission] /\ (~MayForget => Accounted')
  BY <1>2, SteamStands DEF IInv, Typed
<1> QED
  BY <1>1, <1>2, <1>3, <1>4, EndInv

\* An asset of which Steam may take nothing any more is free again.
LEMMA UnreservedKeeps ==
    ASSUME IInv, tasks # <<>>, T.op \in Works, UNCHANGED steam, submitted' = Unreserved,
           ~MayForget /\ T.op = "sell" => Taken(T.asset) = 0
    PROVE  submitted' \in [Assets -> Submission] /\ (~MayForget => Accounted')
<1>1. CASE T.op = "cancel"
  BY <1>1, SteamStands DEF Unreserved, IInv, Typed
<1>2. CASE T.op = "sell"
  <2> DEFINE a == T.asset
  <2>1. submitted \in [Assets -> Submission] /\ NoSubmission \in Submission
    BY CopiesAreFinite DEF IInv, Typed, NoSubmission, Submission, Amounts
  <2>2. submitted' = [submitted EXCEPT ![a] = NoSubmission]
    BY <1>2 DEF Unreserved
  <2>3. ASSUME ~MayForget PROVE Accounted'
    <3>1. Accounted /\ Taken(a) = 0
      BY <1>2, <2>3 DEF IInv, Remembered
    <3>2. \A b \in Assets : b # a => submitted'[b] = submitted[b]
      BY <2>1, <2>2
    <3> QED
      BY <3>1, <3>2 DEF Accounted, Taken
  <2> QED
    BY <2>1, <2>2, <2>3
<1> QED
  BY <1>1, <1>2 DEF Works

LEMMA RejectedInv ==
    ASSUME IInv, Rejected
    PROVE  IInv'
<1>1. tasks # <<>> /\ T.op \in Works /\ T.at = "rejected" /\ submitted' = Unreserved
  BY DEF Rejected, At
<1>2. UNCHANGED <<steam, intents, prepared, rules, quiet>>
  BY DEF Rejected
<1>3. PICK stop \in BOOLEAN : End("failed", stop, FALSE)
  BY DEF Rejected, Failed
<1>4. EndsAs("failed", stop, FALSE)
  BY DEF EndsAs
<1>5. ~MayForget /\ T.op = "sell" => Taken(T.asset) = 0
  BY <1>1 DEF IInv, Remembered, Relied
<1>6. submitted' \in [Assets -> Submission] /\ (~MayForget => Accounted')
  BY <1>1, <1>2, <1>5, UnreservedKeeps
<1> QED
  BY <1>1, <1>2, <1>3, <1>4, <1>6, EndInv

\* The holder of the lock goes on; what it relies on is another matter.
LEMMA GoesOn ==
    ASSUME IInv, tasks # <<>>, NEW t \in Task, tasks' = [tasks EXCEPT ![1] = t],
           t.op = T.op, t.row = T.row, t.quantity = T.quantity,
           t.live = T.live, T.op = "save" => t.at \in {"start", "turn"},
           t.at \in Sent <=> T.at \in Sent,
           UNCHANGED <<prepared, job, rules, quiet>>, intents' \subseteq intents
    PROVE  /\ PreparedTrue' /\ TasksTrue' /\ RowsAtWork' /\ RowsInOrder' /\ QuietTrue'
           /\ T' = t /\ tasks' # <<>>
<1>1. /\ TasksTrue' /\ T' = t /\ tasks' # <<>> /\ DOMAIN tasks' = DOMAIN tasks
      /\ tasks'[1] = t /\ \A i \in DOMAIN tasks : i # 1 => tasks'[i] = tasks[i]
      /\ RowsAtWork' /\ RowsInOrder'
  BY StepKeeps
<1>2. \A i \in DOMAIN tasks' : \E j \in DOMAIN tasks : /\ tasks'[i].op = tasks[j].op
                                                       /\ tasks'[i].live = tasks[j].live
  BY <1>1, TaskFacts
<1>3. QuietTrue'
  BY <1>2, QuietKept
<1> QED
  BY <1>1, <1>3, PreparedKept

LEMMA AcceptedInv ==
    ASSUME IInv, Accepted
    PROVE  IInv'
<1>1. tasks # <<>> /\ T.op \in Works /\ T.at = "accepted"
  BY DEF Accepted, At
<1>2. UNCHANGED <<steam, submitted, intents, prepared, rules, quiet>>
  BY DEF Accepted
<1>3. CASE T.op = "sell"
  <2>1. End("listed", FALSE, FALSE) /\ EndsAs("listed", FALSE, FALSE)
    BY <1>1, <1>3 DEF Accepted, EndsAs, Sent
  <2>2. submitted' \in [Assets -> Submission] /\ (~MayForget => Accounted')
    BY <1>2, SteamStands DEF IInv, Typed
  <2> QED
    BY <1>1, <1>2, <2>1, <2>2, EndInv
<1>4. CASE T.op = "cancel"
  <2> DEFINE t == [T EXCEPT !.at = "verify"]
  <2>1. tasks' = [tasks EXCEPT ![1] = t] /\ UNCHANGED job
    BY <1>1, <1>4, TaskFacts DEF Accepted, Goto
  <2>2. /\ t \in Task /\ t.at = "verify" /\ t.op = T.op /\ t.row = T.row
        /\ t.quantity = T.quantity /\ t.live = T.live
    BY <1>1, TaskFacts DEF Task, Steps
  <2>3. "verify" \in Sent /\ T.at \in Sent
    BY <1>1 DEF Sent
  <2> HIDE DEF t
  <2>4. /\ PreparedTrue' /\ TasksTrue' /\ RowsAtWork' /\ RowsInOrder' /\ QuietTrue'
        /\ T' = t /\ tasks' # <<>>
    BY <1>1, <1>2, <1>4, <2>1, <2>2, <2>3, GoesOn
  <2>5. HeadKept
    BY <2>2, <2>4 DEF HeadKept
  <2>6. Typed'
    BY <1>2 DEF IInv, Typed
  <2> QED
    BY <1>2, <2>4, <2>5, <2>6, SteamKept, RulesKept, RememberedKept DEF IInv
<1> QED
  BY <1>1, <1>3, <1>4 DEF Works

LEMMA SaveInv ==
    ASSUME IInv, Save
    PROVE  IInv'
<1>1. UNCHANGED <<steam, submitted, intents, prepared, job, quiet>>
      /\ tasks # <<>> /\ T.op = "save"
  BY DEF Save, At
<1>2. CASE T.at = "start" /\ tasks' = Goto("turn") /\ UNCHANGED rules
  <2> DEFINE t == [T EXCEPT !.at = "turn"]
  <2>1. tasks' = [tasks EXCEPT ![1] = t]
    BY <1>1, <1>2, TaskFacts DEF Goto
  <2>2. /\ t \in Task /\ t.at = "turn" /\ t.op = T.op /\ t.row = T.row
        /\ t.quantity = T.quantity /\ t.live = T.live
    BY <1>1, TaskFacts DEF Task, Steps
  <2>3. "turn" \notin Sent /\ T.at \notin Sent
    BY <1>2 DEF Sent
  <2> HIDE DEF t
  <2>4. /\ PreparedTrue' /\ TasksTrue' /\ RowsAtWork' /\ RowsInOrder' /\ QuietTrue'
        /\ T' = t /\ tasks' # <<>>
    BY <1>1, <1>2, <2>1, <2>2, <2>3, GoesOn
  <2>5. RulesTrue'
    BY <1>1, <2>2, <2>4 DEF RulesTrue, At
  <2>6. Relied'
    BY <1>1, <2>2, <2>4 DEF Relied
  <2>7. Remembered'
    BY <1>1, <2>6, SteamStands DEF Remembered
  <2>8. Typed'
    BY <1>1, <1>2 DEF IInv, Typed
  <2> QED
    BY <1>1, <2>4, <2>5, <2>7, <2>8, SteamKept DEF IInv
<1>3. CASE tasks' = Tail(tasks) /\ (rules' = T.rules \/ UNCHANGED rules)
  <2>1. T.row = 0 /\ T \in Task
    <3>1. T = tasks[1] /\ 1 \in DOMAIN tasks /\ T \in Task
      BY <1>1, TaskFacts
    <3> QED
      BY <1>1, <3>1 DEF IInv, TasksTrue, Works
  <2>2. End("failed", FALSE, FALSE) /\ EndsAs("failed", FALSE, FALSE)
    BY <1>1, <1>3, <2>1 DEF End, EndsAs
  <2>3. /\ TasksTrue' /\ RowsAtWork' /\ RowsInOrder'
        /\ job'.active = job.active /\ (job.stop => job'.stop)
        /\ \A i \in DOMAIN tasks' : \E j \in DOMAIN tasks : tasks'[i] = tasks[j]
    BY <1>1, <2>2, EndKeeps
  <2>4. RulesTrue' /\ Relied'
    BY <1>1, <1>3, LeavesLock
  <2>5. Typed'
    BY <1>1, <1>3, <2>1 DEF IInv, Typed, Task
  <2>6. QuietTrue'
    BY <1>1, <2>3, QuietKept
  <2>7. Remembered'
    BY <1>1, <2>4, SteamStands DEF Remembered
  <2> QED
    BY <1>1, <2>3, <2>4, <2>5, <2>6, <2>7, SteamKept, PreparedKept DEF IInv
<1> QED
  BY <1>1, <1>2, <1>3 DEF Save, At

\* What is offered can be prepared.
LEMMA OfferedIsTyped ==
    ASSUME IInv, UNCHANGED steam, submitted' \in [Assets -> Submission],
           NEW op \in {"sell", "cancel"}, NEW c \in Baskets, Offered(op, c)
    PROVE  /\ c \in Seq([asset : Assets, quantity : Nat \ {0}])
           /\ \A i \in DOMAIN c : c[i].asset \in Assets /\ c[i].quantity \in Quantities
<1>1. c \in Seq([asset : Assets, quantity : Nat \ {0}])
  BY ConstantsAssumption
<1>2. Total(Copies) \in Nat
  BY CopiesAreFinite
<1>3. ASSUME NEW i \in DOMAIN c PROVE c[i].asset \in Assets /\ c[i].quantity \in Quantities
  <2>1. c[i] \in [asset : Assets, quantity : Nat \ {0}]
    <3> DEFINE Choice == [asset : Assets, quantity : Nat \ {0}]
    <3>1. c \in Seq(Choice)
      BY <1>1
    <3> HIDE DEF Choice
    <3>2. c[i] \in Choice
      BY <3>1
    <3> QED
      BY <3>2 DEF Choice
  <2>2. c[i].asset \in Assets /\ c[i].quantity \in Nat /\ c[i].quantity > 0
    BY <2>1
  <2>3. /\ steam.owned[c[i].asset] \in Amounts /\ steam.listed[c[i].asset] \in Amounts
    BY <2>2 DEF IInv, SteamTrue, Steam
  <2>4. \/ c[i].quantity <= steam.owned[c[i].asset]
        \/ c[i].quantity = steam.listed[c[i].asset]
    BY DEF Offered, Sellable
  <2> QED
    BY <1>2, <2>2, <2>3, <2>4 DEF Amounts, Quantities
<1> QED
  BY <1>1, <1>3

LEMMA PreviewInv ==
    ASSUME IInv, Preview
    PROVE  IInv'
<1>1. /\ tasks # <<>> /\ T.op \in Asked /\ T.at = "start" /\ tasks' = Tail(tasks)
      /\ submitted' = Released(submitted, steam.owned)
      /\ UNCHANGED <<steam, job, rules, quiet>>
  BY DEF Preview, At
<1>2. T.row = 0 /\ T \in Task /\ T = tasks[1] /\ 1 \in DOMAIN tasks /\ T.op # "save"
  <2>1. T = tasks[1] /\ 1 \in DOMAIN tasks /\ T \in Task
    BY <1>1, TaskFacts
  <2> QED
    BY <1>1, <2>1 DEF IInv, TasksTrue, Works, Asked
<1>3. End("failed", FALSE, FALSE) /\ EndsAs("failed", FALSE, FALSE)
  BY <1>1, <1>2 DEF End, EndsAs
<1>4. submitted' \in [Assets -> Submission] /\ (~MayForget => Accounted')
  BY <1>1, ReleasedKeeps
<1>5. CASE UNCHANGED <<intents, prepared>>
  BY <1>1, <1>3, <1>4, <1>5, EndInv
<1>6. ASSUME T.live, NEW op \in {"sell", "cancel"}, NEW c \in Baskets, Offered(op, c),
             \/ /\ Len(c) = 1 /\ UNCHANGED prepared
                /\ intents' = {[op |-> op, asset |-> c[1].asset,
                                quantity |-> c[1].quantity, rules |-> rules]}
             \/ /\ UNCHANGED intents
                /\ prepared' = [NoJob EXCEPT !.op = op, !.rules = rules, !.rows = Rows(c)]
      PROVE  IInv'
  <2>1. ~quiet
    BY <1>1, <1>2, <1>6 DEF IInv, QuietTrue
  <2>2. QuietTrue'
    BY <1>1, <2>1 DEF QuietTrue
  <2>3. /\ TasksTrue' /\ RowsAtWork' /\ RowsInOrder'
    BY <1>1, <1>3, EndKeeps
  <2>4. RulesTrue' /\ Relied'
    BY <1>1, LeavesLock
  <2>5. Remembered'
    BY <1>1, <1>4, <2>4, SteamStands DEF Remembered
  <2>6. /\ c \in Seq([asset : Assets, quantity : Nat \ {0}])
        /\ \A i \in DOMAIN c : c[i].asset \in Assets /\ c[i].quantity \in Quantities
    BY <1>1, <1>4, <1>6, OfferedIsTyped
  <2>7. rules \in Nat /\ intents \subseteq Intent
    BY DEF IInv, Typed
  <2>8. CASE /\ Len(c) = 1 /\ UNCHANGED prepared
             /\ intents' = {[op |-> op, asset |-> c[1].asset,
                             quantity |-> c[1].quantity, rules |-> rules]}
    <3>1. c[1].asset \in Assets /\ c[1].quantity \in Quantities
      BY <2>6, <2>8
    <3>2. intents' \subseteq Intent
      BY <2>7, <2>8, <3>1 DEF Intent
    <3>3. Typed'
      BY <1>1, <1>4, <3>2 DEF IInv, Typed
    <3> QED
      BY <1>1, <2>2, <2>3, <2>4, <2>5, <2>8, <3>3, SteamKept, PreparedKept DEF IInv
  <2>9. CASE /\ UNCHANGED intents
             /\ prepared' = [NoJob EXCEPT !.op = op, !.rules = rules, !.rows = Rows(c)]
    <3> DEFINE rs == Rows(c)
    <3>1. /\ DOMAIN rs = DOMAIN c
          /\ \A i \in DOMAIN rs : rs[i] \in Row /\ Fresh(rs[i])
      BY <2>6 DEF Rows, Row, Fresh
    <3>2. \E n \in Nat : DOMAIN c = 1..n
      BY <2>6
    <3>3. rs \in Seq(Row)
      BY <3>1, <3>2 DEF Rows
    <3> HIDE DEF rs
    <3>4. prepared' = [op |-> op, rules |-> rules, rows |-> rs,
                       active |-> FALSE, stop |-> FALSE]
      BY <2>9 DEF NoJob, rs
    <3>5. PreparedTrue'
      BY <2>7, <3>1, <3>3, <3>4 DEF PreparedTrue, Job
    <3>6. Typed'
      BY <1>1, <1>4, <2>9 DEF IInv, Typed
    <3> QED
      BY <1>1, <2>2, <2>3, <2>4, <2>5, <3>5, <3>6, SteamKept DEF IInv
  <2> QED
    BY <1>6, <2>8, <2>9
<1> QED
  BY <1>5, <1>6 DEF Preview

\* What may still be taken is offered by no one: a copy is left beside the sale.
LEMMA ReviewedLeavesACopy ==
    ASSUME IInv, ~MayForget, UNCHANGED steam, Accounted', NEW a \in Assets, NEW q \in Nat,
           submitted' \in [Assets -> Submission], Sellable(submitted', steam.owned, a, q)
    PROVE  Taken(a) = 0 /\ q <= steam.owned[a] /\ Kept >= q + 1
<1> DEFINE f == [b \in Assets |-> steam.owned[b] - submitted'[b].quantity]
           g == [b \in Assets |-> steam.owned[b] - steam.moving[b] - steam.wire[b]]
<1>1. \A b \in Assets : /\ steam.owned[b] \in Nat /\ steam.moving[b] \in Nat
                        /\ steam.wire[b] \in Nat /\ steam.listed[b] \in Nat
                        /\ submitted'[b].quantity \in Nat /\ Copies[b] \in Nat
                        /\ steam.moving[b] <= steam.listed[b]
                        /\ steam.owned[b] + steam.listed[b] - steam.moving[b] <= Copies[b]
  BY CopiesAreFinite DEF IInv, SteamTrue, Steam, Submission, Amounts
<1>2. \A b \in Assets : Taken(b) = 0 \/ Taken(b) = submitted'[b].quantity
  BY DEF Accounted, Taken
<1>3. \A b \in Assets : f[b] <= g[b] /\ g[b] <= Copies[b] /\ f[b] \in Int /\ g[b] \in Int
  BY <1>1, <1>2 DEF Taken
<1>4. f \in [Assets -> Int] /\ g \in [Assets -> Int]
  BY <1>3
<1>5. Total(f) \in Nat /\ Total(g) \in Nat /\ Total(f) <= Total(g)
  BY <1>3, <1>4, TotalMonotone
<1>6. q <= steam.owned[a] /\ submitted'[a].quantity = 0 /\ Total(f) - q >= 1
  BY DEF Sellable, Available
<1>7. Kept = Total(g)
  BY DEF Kept
<1> HIDE DEF f, g
<1> QED
  BY <1>2, <1>5, <1>6, <1>7

LEMMA ReviewInv ==
    ASSUME IInv, Review
    PROVE  IInv'
<1>1. /\ tasks # <<>> /\ T.op \in Works /\ T.at = "start"
      /\ UNCHANGED <<steam, prepared, rules, quiet>>
  BY DEF Review, At
<1>2. T \in Task /\ T.quantity \in Quantities /\ T = tasks[1] /\ 1 \in DOMAIN tasks
  BY <1>1, TaskFacts DEF IInv, TasksTrue
<1>3. CASE ~Current(T) \/ (T.row = 0 /\ Token \notin intents)
  <2>1. \/ End("failed", FALSE, FALSE) \/ End("skipped", TRUE, FALSE)
    BY <1>3 DEF Review, Stopped
  <2>2. EndsAs("failed", FALSE, FALSE) /\ EndsAs("skipped", TRUE, FALSE)
    BY <1>1 DEF EndsAs, Sent
  <2>3. UNCHANGED <<intents, submitted>>
    BY <1>3 DEF Review
  <2>4. submitted' \in [Assets -> Submission] /\ (~MayForget => Accounted')
    BY <1>1, <2>3, SteamStands DEF IInv, Typed
  <2> QED
    BY <1>1, <2>1, <2>2, <2>3, <2>4, EndInv
<1>4. CASE ~(~Current(T) \/ (T.row = 0 /\ Token \notin intents))
  <2>1. intents' \subseteq intents /\ submitted' = Loaded(T.op)
    BY <1>4 DEF Review
  <2>2. submitted' \in [Assets -> Submission] /\ (~MayForget => Accounted')
    <3>1. CASE T.op = "sell"
      BY <1>1, <2>1, <3>1, ReleasedKeeps DEF Loaded
    <3>2. CASE T.op # "sell"
      BY <1>1, <2>1, <3>2, SteamStands DEF Loaded, IInv, Typed
    <3> QED
      BY <3>1, <3>2
  <2>3. CASE Failed
    <3>1. PICK stop \in BOOLEAN : End("failed", stop, FALSE)
      BY <2>3 DEF Failed
    <3>2. EndsAs("failed", stop, FALSE)
      BY DEF EndsAs
    <3> QED
      BY <1>1, <2>1, <2>2, <3>1, <3>2, EndInv
  <2>4. CASE /\ Reviewed(T) /\ UNCHANGED job
             /\ tasks' = [tasks EXCEPT ![1] = [@ EXCEPT !.at = "turn",
                                                !.before = steam.owned[T.asset]]]
    <3> DEFINE t == [T EXCEPT !.at = "turn", !.before = steam.owned[T.asset]]
    <3>1. tasks' = [tasks EXCEPT ![1] = t]
      BY <1>2, <2>4
    <3>2. T.asset \in Assets /\ steam.owned[T.asset] \in Amounts
      BY <1>2 DEF Task, IInv, SteamTrue, Steam
    <3>3. /\ t \in Task /\ t.at = "turn" /\ t.op = T.op /\ t.row = T.row
          /\ t.quantity = T.quantity /\ t.live = T.live /\ t.asset = T.asset
          /\ t.rules = T.rules /\ t.before = steam.owned[T.asset]
      BY <1>2, <3>2 DEF Task, Steps
    <3>4. "turn" \notin Sent /\ T.at \notin Sent /\ T.op # "save"
      BY <1>1 DEF Sent, Works
    <3> HIDE DEF t
    <3>5. /\ PreparedTrue' /\ TasksTrue' /\ RowsAtWork' /\ RowsInOrder' /\ QuietTrue'
          /\ T' = t /\ tasks' # <<>>
      BY <1>1, <2>1, <2>4, <3>1, <3>3, <3>4, GoesOn
    <3>6. RulesTrue'
      BY <1>1, <2>4, <3>3, <3>5 DEF RulesTrue, At, Reviewed
    <3>7. Typed'
      BY <1>1, <2>1, <2>2 DEF IInv, Typed
    <3>8. Remembered'
      <4>1. CASE MayForget
        BY <4>1 DEF Remembered
      <4>2. CASE ~MayForget
        <5>1. OneCopyStays' /\ Accounted' /\ Kept' = Kept
          BY <1>1, <2>2, <4>2, SteamStands DEF Kept
        <5>2. CASE T.op = "sell"
          <6>1. /\ steam.listed[T.asset] = 0
                /\ Sellable(submitted', steam.owned, T.asset, T.quantity)
            <7>1. steam.listed[T.asset] \in Nat
              BY <3>2, CopiesAreFinite DEF IInv, SteamTrue, Steam, Amounts
            <7> QED
              BY <2>4, <5>2, <7>1 DEF Reviewed, Listed
          <6>2. T.quantity \in Nat
            BY <1>2, CopiesAreFinite DEF Quantities
          <6>3. /\ Taken(T.asset) = 0 /\ T.quantity <= steam.owned[T.asset]
                /\ Kept >= T.quantity + 1
            BY <1>1, <2>2, <3>2, <4>2, <5>1, <6>1, <6>2, ReviewedLeavesACopy
          <6>4. submitted'[T.asset].quantity = 0
            BY <6>1 DEF Sellable
          <6>5. Relied'
            BY <1>1, <3>3, <3>5, <5>1, <6>1, <6>3, <6>4 DEF Relied, Taken
          <6> QED
            BY <5>1, <6>5 DEF Remembered
        <5>3. CASE T.op # "sell"
          <6>1. Relied'
            BY <3>3, <3>5, <5>3 DEF Relied
          <6> QED
            BY <5>1, <6>1 DEF Remembered
        <5> QED
          BY <5>2, <5>3
      <4> QED
        BY <4>1, <4>2
    <3> QED
      BY <1>1, <3>5, <3>6, <3>7, <3>8, SteamKept DEF IInv
  <2> QED
    BY <1>4, <2>3, <2>4 DEF Review
<1> QED
  BY <1>3, <1>4

\* The sale is reserved before anything is sent.
LEMMA TurnInv ==
    ASSUME IInv, Turn
    PROVE  IInv'
<1>1. /\ tasks # <<>> /\ T.op \in Works /\ T.at = "turn"
      /\ UNCHANGED <<steam, intents, prepared, rules, quiet>>
  BY DEF Turn, At
<1>2. T \in Task /\ T.quantity \in Quantities /\ T = tasks[1] /\ 1 \in DOMAIN tasks
  BY <1>1, TaskFacts DEF IInv, TasksTrue
<1>3. CASE ~Current(T)
  <2>1. End("skipped", TRUE, FALSE) /\ UNCHANGED submitted
    BY <1>3 DEF Turn, Stopped
  <2>2. EndsAs("skipped", TRUE, FALSE)
    BY <1>1 DEF EndsAs, Sent
  <2>3. submitted' \in [Assets -> Submission] /\ (~MayForget => Accounted')
    BY <1>1, <2>1, SteamStands DEF IInv, Typed
  <2> QED
    BY <1>1, <2>1, <2>2, <2>3, EndInv
<1>4. CASE Current(T)
  <2> DEFINE t == [T EXCEPT !.at = "session", !.before = 0]
  <2>1. tasks' = [tasks EXCEPT ![1] = t] /\ UNCHANGED job
    BY <1>2, <1>4 DEF Turn
  <2>2. 0 \in Amounts /\ T.quantity \in Amounts
    BY <1>2, CopiesAreFinite DEF Amounts, Quantities
  <2>3. /\ t \in Task /\ t.at = "session" /\ t.op = T.op /\ t.row = T.row
        /\ t.quantity = T.quantity /\ t.live = T.live /\ t.asset = T.asset
        /\ t.rules = T.rules
    BY <1>2, <2>2 DEF Task, Steps
  <2>4. "session" \notin Sent /\ T.at \notin Sent /\ T.op # "save"
    BY <1>1 DEF Sent, Works
  <2> HIDE DEF t
  <2>5. /\ PreparedTrue' /\ TasksTrue' /\ RowsAtWork' /\ RowsInOrder' /\ QuietTrue'
        /\ T' = t /\ tasks' # <<>>
    BY <1>1, <2>1, <2>3, <2>4, GoesOn
  <2>6. RulesTrue'
    BY <1>1, <2>3, <2>5 DEF IInv, RulesTrue, At
  <2>7. CASE T.op = "sell"
    <3> DEFINE a == T.asset
               r == [quantity |-> T.quantity, before |-> T.before]
    <3>1. a \in Assets /\ T.before \in Amounts /\ r \in Submission
      BY <1>2, <2>2 DEF Task, Submission
    <3>2. submitted \in [Assets -> Submission]
      BY DEF IInv, Typed
    <3>3. submitted' = [submitted EXCEPT ![a] = r]
      BY <1>4, <2>7 DEF Turn, Reservation
    <3>4. /\ submitted' \in [Assets -> Submission] /\ submitted'[a] = r
          /\ \A b \in Assets : b # a => submitted'[b] = submitted[b]
      BY <3>1, <3>2, <3>3
    <3>5. Typed'
      BY <1>1, <3>4 DEF IInv, Typed
    <3>6. Remembered'
      <4>1. CASE MayForget
        BY <4>1 DEF Remembered
      <4>2. CASE ~MayForget
        <5>1. /\ Accounted /\ Taken(a) = 0 /\ steam.listed[a] = 0
              /\ T.quantity <= steam.owned[a] /\ Kept >= T.quantity + 1
              /\ T.before = steam.owned[a]
          BY <1>1, <2>7, <4>2 DEF IInv, Remembered, Relied
        <5>2. Accounted'
          BY <1>1, <3>4, <5>1 DEF Accounted, Taken
        <5>3. OneCopyStays' /\ Kept' = Kept
          BY <1>1, <4>2, SteamStands DEF Kept
        <5>4. Relied'
          BY <1>1, <2>3, <2>5, <3>4, <5>1, <5>3 DEF Relied, Taken
        <5> QED
          BY <5>2, <5>3, <5>4 DEF Remembered
      <4> QED
        BY <4>1, <4>2
    <3> QED
      BY <1>1, <2>5, <2>6, <3>5, <3>6, SteamKept DEF IInv
  <2>8. CASE T.op = "cancel"
    <3>1. UNCHANGED submitted
      BY <1>4, <2>8 DEF Turn
    <3>2. Typed'
      BY <1>1, <3>1 DEF IInv, Typed
    <3>3. Relied'
      BY <2>3, <2>5, <2>8 DEF Relied
    <3>4. Remembered'
      BY <1>1, <3>1, <3>3, SteamStands DEF Remembered
    <3> QED
      BY <1>1, <2>5, <2>6, <3>2, <3>4, SteamKept DEF IInv
  <2> QED
    BY <1>1, <2>7, <2>8 DEF Works
<1> QED
  BY <1>3, <1>4

\* The request that is sent is one that the copies to keep allow.
LEMMA SendInv ==
    ASSUME IInv, Send
    PROVE  IInv'
<1>1. /\ tasks # <<>> /\ T.op \in Works /\ T.at = "session"
      /\ UNCHANGED <<intents, prepared, rules, quiet>>
  BY DEF Send, At
<1>2. T \in Task /\ T.quantity \in Quantities /\ T = tasks[1] /\ 1 \in DOMAIN tasks
  BY <1>1, TaskFacts DEF IInv, TasksTrue
<1> DEFINE a == T.asset
<1>3. /\ a \in Assets /\ steam \in Steam /\ steam.wire \in [Assets -> Amounts]
      /\ T.quantity \in Nat /\ T.quantity > 0 /\ T.quantity \in Amounts
      /\ \A b \in Assets : /\ steam.owned[b] \in Nat /\ steam.moving[b] \in Nat
                           /\ steam.wire[b] \in Nat /\ steam.listed[b] \in Nat
                           /\ steam.moving[b] <= steam.listed[b]
                           /\ steam.owned[b] + steam.listed[b] - steam.moving[b] <= Copies[b]
  BY <1>2, CopiesAreFinite DEF IInv, SteamTrue, Steam, Task, Amounts, Quantities
<1>4. CASE ~Current(T)
  <2>1. End("skipped", TRUE, FALSE) /\ submitted' = Unreserved /\ UNCHANGED steam
    BY <1>4 DEF Send, Stopped
  <2>2. EndsAs("skipped", TRUE, FALSE)
    BY <1>1 DEF EndsAs, Sent
  <2>3. ~MayForget /\ T.op = "sell" => Taken(T.asset) = 0
    BY <1>1 DEF IInv, Remembered, Relied
  <2>4. submitted' \in [Assets -> Submission] /\ (~MayForget => Accounted')
    BY <1>1, <2>1, <2>3, UnreservedKeeps
  <2> QED
    BY <1>1, <2>1, <2>2, <2>4, EndInv
<1>5. CASE Current(T)
  <2> DEFINE t == [T EXCEPT !.at = "sent"]
  <2>1. tasks' = [tasks EXCEPT ![1] = t] /\ UNCHANGED submitted
    BY <1>2, <1>5 DEF Send, Goto
  <2>2. /\ t \in Task /\ t.at = "sent" /\ t.op = T.op /\ t.row = T.row
        /\ t.quantity = T.quantity /\ t.live = T.live
    BY <1>2 DEF Task, Steps
  <2> HIDE DEF t
  <2>3. /\ TasksTrue' /\ T' = t /\ tasks' # <<>> /\ DOMAIN tasks' = DOMAIN tasks
        /\ tasks'[1] = t /\ \A i \in DOMAIN tasks : i # 1 => tasks'[i] = tasks[i]
    BY <1>1, <2>1, <2>2, StepKeeps DEF Works
  <2>4. HeadKept
    BY <2>2, <2>3 DEF HeadKept
  <2>5. Relied' /\ RulesTrue'
    BY <2>2, <2>3 DEF Relied, RulesTrue, At
  <2>6. /\ RowsAtWork' /\ RowsInOrder' /\ job'.active = job.active
        /\ job'.stop = job.stop
    <3>1. job \in Job /\ T.row \in Nat
      BY <1>2 DEF IInv, RowsAtWork, Task
    <3>2. CASE T.row = 0
      <4>1. UNCHANGED job
        BY <1>5, <3>2 DEF Send
      <4>2. \A i \in DOMAIN tasks : /\ tasks'[i].row = tasks[i].row
                                    /\ tasks[i].row > 0 => tasks'[i].at = tasks[i].at
        BY <1>2, <2>2, <2>3, <3>2
      <4> QED
        BY <2>3, <4>1, <4>2 DEF IInv, RowsAtWork, RowsInOrder
    <3>3. CASE T.row > 0
      <4> DEFINE k == T.row
                 r == [job.rows[k] EXCEPT !.sent = TRUE]
                 rs == [job.rows EXCEPT ![k] = r]
      <4>1. /\ job.active /\ k \in DOMAIN job.rows /\ job.rows[k].status = "running"
            /\ job.rows \in Seq(Row) /\ job.rows[k] \in Row /\ ~job.rows[k].unsure
            /\ \A l \in DOMAIN job.rows : k < l => Fresh(job.rows[l])
            /\ \A l \in DOMAIN job.rows : l < k =>
                ~job.rows[l].unsure /\ job.rows[l].status \notin {"queued", "running"}
        BY <1>2, <3>3, RowFacts
      <4>2. r \in Row /\ r.status = "running" /\ ~r.unsure /\ r.sent
        BY <4>1 DEF Row
      <4>3. job' = RowIs(k, r)
        BY <1>5, <3>3 DEF Send
      <4> HIDE DEF r
      <4>4. /\ rs \in Seq(Row) /\ DOMAIN rs = DOMAIN job.rows
            /\ \A l \in DOMAIN job.rows : rs[l] = IF l = k THEN r ELSE job.rows[l]
        BY <4>1, <4>2
      <4>5. job' = [job EXCEPT !.rows = rs]
        BY <4>3 DEF RowIs
      <4> HIDE DEF rs
      <4>6. /\ job' \in Job /\ job'.active = job.active /\ job'.stop = job.stop
            /\ job'.rows = rs
        BY <3>1, <4>4, <4>5 DEF Job
      <4>7. \A i \in DOMAIN tasks : tasks'[i].row = tasks[i].row
        BY <2>2, <2>3, <1>2
      <4>8. \A i \in DOMAIN tasks : tasks[i].row > 0 => i = 1
        BY <1>2, <3>3 DEF IInv, RowsAtWork
      <4>9. RowsAtWork'
        <5>1. \A l \in DOMAIN job.rows : rs[l].status = job.rows[l].status
          BY <4>1, <4>2, <4>4
        <5>2. tasks'[1].row = k /\ rs[k] = r /\ tasks'[1].at \in Sent
          BY <1>2, <2>2, <2>3, <4>1, <4>4 DEF Sent
        <5>3. \A i \in DOMAIN tasks' : tasks'[i].row > 0 => i = 1
          BY <2>3, <4>7, <4>8
        <5>4. \A i \in DOMAIN tasks' : tasks'[i].row > 0 =>
                /\ job'.active /\ tasks'[i].row \in DOMAIN job'.rows
                /\ job'.rows[tasks'[i].row].status = "running"
                /\ job'.rows[tasks'[i].row].sent <=> tasks'[i].at \in Sent
          BY <4>1, <4>2, <4>4, <4>6, <5>2, <5>3
        <5>5. \A l \in DOMAIN job'.rows : job'.rows[l].status = "running" =>
                \E i \in DOMAIN tasks' : tasks'[i].row = l
          BY <2>3, <4>4, <4>6, <4>7, <5>1 DEF IInv, RowsAtWork
        <5> QED
          BY <4>1, <4>6, <5>3, <5>4, <5>5 DEF RowsAtWork
      <4>10. RowsInOrder'
        <5> SUFFICES ASSUME NEW l \in DOMAIN job.rows
                     PROVE  LET row == rs[l] IN
                            /\ row.status = "queued" => Fresh(row)
                            /\ row.status = "skipped" => ~row.sent
                            /\ row.status \in {"listed", "cancelled"} => row.sent
                            /\ row.unsure => job.stop /\ row.status = "failed"
                            /\ row.status \in {"queued", "running"} \/ row.unsure =>
                                \A m \in DOMAIN job.rows : l < m => Fresh(rs[m])
          BY <4>4, <4>6 DEF RowsInOrder
        <5>1. CASE l = k
          <6>1. \A m \in DOMAIN job.rows : k < m => rs[m] = job.rows[m]
            BY <4>1, <4>4
          <6> QED
            BY <4>1, <4>2, <4>4, <5>1, <6>1
        <5>2. CASE l # k
          <6>1. rs[l] = job.rows[l]
            BY <4>4, <5>2
          <6>2. CASE l < k
            BY <4>1, <6>1, <6>2 DEF IInv, RowsInOrder
          <6>3. CASE k < l
            <7>1. \A m \in DOMAIN job.rows : l < m => m # k /\ k < m
              BY <4>1, <6>3
            <7>2. \A m \in DOMAIN job.rows : l < m => Fresh(rs[m])
              BY <4>1, <4>4, <7>1
            <7> QED
              BY <4>1, <6>1, <6>3, <7>2 DEF IInv, RowsInOrder
          <6>4. l < k \/ k < l
            BY <4>1, <5>2
          <6> QED
            BY <6>2, <6>3, <6>4
        <5> QED
          BY <5>1, <5>2
      <4> QED
        BY <4>6, <4>9, <4>10
    <3> QED
      BY <3>1, <3>2, <3>3
  <2>7. QuietTrue'
    <3>1. \A i \in DOMAIN tasks' : \E j \in DOMAIN tasks : /\ tasks'[i].op = tasks[j].op
                                                           /\ tasks'[i].live = tasks[j].live
      BY <1>2, <2>2, <2>3
    <3> QED
      BY <1>1, <2>6, <3>1, QuietKept
  <2>8. Typed'
    BY <1>1, <2>1 DEF IInv, Typed
  <2>9. CASE T.op = "sell"
    <3> DEFINE w == [steam.wire EXCEPT ![a] = steam.wire[a] + T.quantity]
    <3>1. steam' = [steam EXCEPT !.wire = w]
      BY <1>5, <2>9 DEF Send, Put
    <3>2. steam.wire[a] = 0
      <4>1. CASE MayForget
        BY <4>1 DEF Send
      <4>2. CASE ~MayForget
        <5>1. Taken(a) = 0
          BY <1>1, <2>9, <4>2 DEF IInv, Remembered, Relied
        <5> QED
          BY <1>3, <5>1 DEF Taken
      <4> QED
        BY <4>1, <4>2
    <3>3. /\ w \in [Assets -> Amounts] /\ w[a] = T.quantity
          /\ \A b \in Assets : b # a => w[b] = steam.wire[b]
      <4>1. steam.wire[a] + T.quantity = T.quantity
        BY <1>3, <3>2
      <4>2. w = [steam.wire EXCEPT ![a] = T.quantity]
        BY <4>1
      <4> QED
        BY <1>3, <4>2
    <3> HIDE DEF w
    <3>4. /\ steam' \in Steam /\ steam'.wire = w /\ steam'.owned = steam.owned
          /\ steam'.listed = steam.listed /\ steam'.moving = steam.moving
      BY <1>3, <3>1, <3>3 DEF Steam
    <3>5. SteamTrue'
      BY <3>4 DEF IInv, SteamTrue
    <3>6. Remembered'
      <4>1. CASE MayForget
        BY <4>1 DEF Remembered
      <4>2. CASE ~MayForget
        <5>1. /\ Accounted /\ Taken(a) = 0 /\ steam.listed[a] = 0
              /\ T.quantity <= steam.owned[a] /\ Kept >= T.quantity + 1
              /\ submitted[a] = [quantity |-> T.quantity, before |-> steam.owned[a]]
          BY <1>1, <2>9, <4>2 DEF IInv, Remembered, Relied
        <5>2. Accounted'
          <6> SUFFICES ASSUME NEW b \in Assets
                       PROVE  /\ w[b] + steam.moving[b] = 0
                                 \/ w[b] + steam.moving[b] = submitted[b].quantity
                              /\ w[b] = 0 \/ steam.listed[b] = 0
                              /\ w[b] + steam.moving[b] # 0
                                   => steam.owned[b] = submitted[b].before
            BY <2>1, <3>4 DEF Accounted, Taken
          <6>1. CASE b = a
            <7>1. steam.moving[a] = 0
              BY <1>3, <5>1 DEF Taken
            <7> QED
              BY <1>3, <3>3, <5>1, <6>1, <7>1
          <6>2. CASE b # a
            BY <3>3, <5>1, <6>2 DEF Accounted, Taken
          <6> QED
            BY <6>1, <6>2
        <5>3. OneCopyStays'
          <6> DEFINE f == [b \in Assets |->
                              steam.owned[b] - steam.moving[b] - steam.wire[b]]
                     g == [b \in Assets |-> steam.owned[b] - steam.moving[b] - w[b]]
          <6>1. /\ f \in [Assets -> Int] /\ \A b \in Assets : f[b] <= Copies[b]
                /\ f[a] = steam.owned[a]
            <7>1. \A b \in Assets : Copies[b] \in Nat
              BY CopiesAreFinite
            <7>2. steam.wire[a] = 0 /\ steam.moving[a] = 0
              BY <1>3, <5>1 DEF Taken
            <7> QED
              BY <1>3, <7>1, <7>2
          <6>2. w[a] \in Nat /\ \A b \in Assets : w[b] \in Nat
            BY <1>3, <3>3
          <6>3. g \in [Assets -> Int]
            BY <1>3, <6>2
          <6>4. g[a] = f[a] - T.quantity
            <7>1. steam.moving[a] = 0
              BY <1>3, <5>1 DEF Taken
            <7> QED
              BY <1>3, <3>3, <6>1, <7>1
          <6>5. \A b \in Assets : b # a => g[b] = f[b]
            BY <3>3
          <6>6. Kept = Total(f) /\ Kept' = Total(g)
            BY <3>4 DEF Kept
          <6> HIDE DEF f, g
          <6>7. Total(f) \in Nat /\ Total(g) = Total(f) - T.quantity
            <7>1. T.quantity <= f[a] /\ T.quantity \in Nat /\ a \in Assets
              BY <1>3, <5>1, <6>1
            <7> QED
              BY <6>1, <6>3, <6>4, <6>5, <7>1, TotalTake
          <6> QED
            BY <1>3, <5>1, <6>6, <6>7 DEF OneCopyStays
        <5> QED
          BY <2>5, <5>2, <5>3 DEF Remembered
      <4> QED
        BY <4>1, <4>2
    <3> QED
      BY <1>1, <2>3, <2>5, <2>6, <2>7, <2>8, <3>5, <3>6, PreparedKept DEF IInv
  <2>10. CASE T.op = "cancel"
    <3>1. steam' = [steam EXCEPT !.removing = steam.removing \cup {a}]
      BY <1>5, <2>10 DEF Send
    <3>2. /\ steam' \in Steam /\ steam'.wire = steam.wire /\ steam'.owned = steam.owned
          /\ steam'.listed = steam.listed /\ steam'.moving = steam.moving
      BY <1>3, <3>1 DEF Steam
    <3>3. SteamTrue'
      BY <3>2 DEF IInv, SteamTrue
    <3>4. ~MayForget => Accounted' /\ OneCopyStays'
      BY <2>1, <3>2 DEF IInv, Remembered, Accounted, Taken, OneCopyStays, Kept
    <3>5. Remembered'
      BY <2>5, <3>4 DEF Remembered
    <3> QED
      BY <1>1, <2>3, <2>5, <2>6, <2>7, <2>8, <3>3, <3>5, PreparedKept DEF IInv
  <2> QED
    BY <1>1, <2>9, <2>10 DEF Works
<1> QED
  BY <1>4, <1>5

(***************************************************************************)
(* The batch                                                               *)
(***************************************************************************)

\* The first row that is queued is given a task; those before it are done with.
LEMMA NextRowInv ==
    ASSUME IInv, NextRow
    PROVE  IInv'
<1>1. /\ job.active /\ ~AtWork /\ ~job.stop /\ Queued # {}
      /\ UNCHANGED <<steam, submitted, intents, prepared, rules, quiet>>
  BY DEF NextRow
<1>2. job \in Job /\ job.rows \in Seq(Row) /\ DOMAIN job.rows \subseteq Nat
  <2>1. job \in Job
    BY DEF IInv, RowsAtWork
  <2>2. job.rows \in Seq(Row)
    BY <2>1 DEF Job
  <2> QED
    BY <2>1, <2>2
<1> DEFINE k == CHOOSE i \in Queued : \A j \in Queued : i <= j
<1>3. k \in Queued /\ \A j \in Queued : k <= j
  <2>1. Queued \subseteq Nat /\ Queued # {}
    BY <1>1, <1>2 DEF Queued
  <2>2. \E i \in Queued : \A j \in Queued : i <= j
    <3>1. PICK n \in Queued : TRUE
      BY <2>1
    <3>2. \E i \in Queued : \A j \in Queued : ~(<<j, i>> \in OpToRel(<, Nat))
      BY <2>1, NatLessThanWellFounded, WFMin
    <3>3. \A i, j \in Nat : j < i => <<j, i>> \in OpToRel(<, Nat)
      <4> TAKE i, j \in Nat
      <4> HAVE j < i
      <4>1. <<j, i>> \in Nat \X Nat /\ <<j, i>>[1] < <<j, i>>[2]
        OBVIOUS
      <4> QED
        BY <4>1, Zenon DEF OpToRel
    <3>4. \A i, j \in Nat : ~(j < i) => i <= j
      OBVIOUS
    <3> QED
      BY <2>1, <3>2, <3>3, <3>4
  <2> QED
    BY <2>2
<1> DEFINE r == [job.rows[k] EXCEPT !.status = "running"]
           rs == [job.rows EXCEPT ![k] = r]
           t == [op |-> job.op, row |-> k, asset |-> job.rows[k].asset,
                 quantity |-> job.rows[k].quantity, rules |-> job.rules, live |-> TRUE,
                 at |-> "start", before |-> 0]
<1>4. tasks' = Append(tasks, t) /\ job' = RowIs(k, r)
  BY DEF NextRow, Enqueued
<1> HIDE DEF k
<1>5. k \in DOMAIN job.rows /\ job.rows[k].status = "queued" /\ k \in Nat /\ k > 0
      /\ job.rows[k] \in Row
  BY <1>2, <1>3 DEF Queued
<1>6. Fresh(job.rows[k]) /\ (\A l \in DOMAIN job.rows : k < l => Fresh(job.rows[l]))
  BY <1>5 DEF IInv, RowsInOrder
<1>7. /\ r \in Row /\ r.status = "running" /\ ~r.sent /\ ~r.unsure
  BY <1>5, <1>6 DEF Row, Fresh
<1>8. /\ t \in Task /\ t.row = k /\ t.at = "start" /\ t.op \in Works
      /\ t.quantity \in Quantities
  <2>1. job.op \in {"sell", "cancel"} /\ job.rules \in Nat
    BY <1>2 DEF Job
  <2>2. /\ job.rows[k].asset \in Assets /\ job.rows[k].quantity \in Quantities
        /\ job.rows[k].quantity \in Amounts /\ 0 \in Amounts
    BY <1>5, CopiesAreFinite DEF Row, Quantities, Amounts
  <2> QED
    BY <1>5, <2>1, <2>2 DEF Task, Steps, Works
<1> HIDE DEF r, t
<1>9. /\ rs \in Seq(Row) /\ DOMAIN rs = DOMAIN job.rows
      /\ \A l \in DOMAIN job.rows : rs[l] = IF l = k THEN r ELSE job.rows[l]
  BY <1>2, <1>5, <1>7
<1>10. job' = [job EXCEPT !.rows = rs]
  BY <1>4 DEF RowIs
<1> HIDE DEF rs
<1>11. /\ job' \in Job /\ job'.active = job.active /\ job'.stop = job.stop
       /\ job'.rows = rs
  BY <1>2, <1>9, <1>10 DEF Job
<1> DEFINE n == Len(tasks) + 1
<1>12. tasks \in Seq(Task)
  BY DEF IInv, TasksTrue
<1>13. /\ DOMAIN tasks = 1..Len(tasks) /\ DOMAIN tasks' = 1..n /\ n \in Nat /\ n > 0
       /\ tasks' \in Seq(Task) /\ tasks'[n] = t /\ tasks' # <<>>
       /\ \A i \in DOMAIN tasks : tasks'[i] = tasks[i] /\ i \in DOMAIN tasks' /\ i # n
       /\ \A i \in DOMAIN tasks' : i = n \/ i \in DOMAIN tasks
  BY <1>4, <1>8, <1>12
<1>14. TasksTrue'
  BY <1>8, <1>13 DEF IInv, TasksTrue, Works
<1>15. \A i \in DOMAIN tasks : ~(tasks[i].row > 0)
  BY <1>1 DEF AtWork
<1>16. n \in DOMAIN tasks' /\ \A i \in DOMAIN tasks' : tasks'[i].row > 0 => i = n
  BY <1>13, <1>15
<1>17. RowsAtWork'
  <2>1. \A i \in DOMAIN tasks' : tasks'[i].row > 0 =>
           /\ job'.active /\ tasks'[i].row \in DOMAIN job'.rows
           /\ job'.rows[tasks'[i].row].status = "running"
           /\ job'.rows[tasks'[i].row].sent <=> tasks'[i].at \in Sent
    <3>1. tasks'[n].row = k /\ rs[k] = r /\ tasks'[n].at \notin Sent
      BY <1>5, <1>8, <1>9, <1>13 DEF Sent
    <3> QED
      BY <1>1, <1>5, <1>7, <1>9, <1>11, <1>16, <3>1
  <2>2. \A l \in DOMAIN job.rows : job.rows[l].status = "running" => FALSE
    <3>1. \A l \in DOMAIN job.rows : l > 0
      BY <1>2
    <3> QED
      BY <1>15, <3>1 DEF IInv, RowsAtWork
  <2>3. \A l \in DOMAIN job'.rows : job'.rows[l].status = "running" =>
           \E i \in DOMAIN tasks' : tasks'[i].row = l
    BY <1>8, <1>9, <1>11, <1>13, <1>16, <2>2
  <2> QED
    BY <1>1, <1>11, <1>16, <2>1, <2>3 DEF RowsAtWork
<1>18. RowsInOrder'
  <2> SUFFICES ASSUME NEW l \in DOMAIN job.rows
               PROVE  LET row == rs[l] IN
                      /\ row.status = "queued" => Fresh(row)
                      /\ row.status = "skipped" => ~row.sent
                      /\ row.status \in {"listed", "cancelled"} => row.sent
                      /\ row.unsure => job.stop /\ row.status = "failed"
                      /\ row.status \in {"queued", "running"} \/ row.unsure =>
                          \A m \in DOMAIN job.rows : l < m => Fresh(rs[m])
    BY <1>9, <1>11 DEF RowsInOrder
  <2>1. CASE l = k
    <3>1. \A m \in DOMAIN job.rows : k < m => rs[m] = job.rows[m]
      BY <1>5, <1>9
    <3> QED
      BY <1>5, <1>6, <1>7, <1>9, <2>1, <3>1
  <2>2. CASE l # k
    <3>1. rs[l] = job.rows[l]
      BY <1>9, <2>2
    <3>2. job.rows[l].status # "running"
      <4>1. \A j \in DOMAIN job.rows : j > 0
        BY <1>2
      <4> QED
        BY <1>15, <4>1 DEF IInv, RowsAtWork
    <3>3. ~job.rows[l].unsure
      BY <1>1 DEF IInv, RowsInOrder
    <3>4. CASE job.rows[l].status = "queued"
      <4>1. k < l
        <5>1. l \in Queued /\ l \in Nat
          BY <1>2, <3>4 DEF Queued
        <5> QED
          BY <1>3, <1>5, <2>2, <5>1
      <4>2. \A m \in DOMAIN job.rows : l < m => m # k
        BY <1>2, <1>5, <4>1
      <4> QED
        BY <1>9, <3>1, <4>2 DEF IInv, RowsInOrder
    <3>5. CASE job.rows[l].status # "queued"
      BY <3>1, <3>2, <3>3, <3>5 DEF IInv, RowsInOrder
    <3> QED
      BY <3>4, <3>5
  <2> QED
    BY <2>1, <2>2
<1>19. tasks # <<>> => T' = T
  <2> HAVE tasks # <<>>
  <2>1. 1 \in DOMAIN tasks /\ T = tasks[1]
    BY TaskFacts
  <2> QED
    BY <1>13, <2>1 DEF T
<1>20. tasks = <<>> => T'.at = "start"
  BY <1>4, <1>8 DEF T
<1>21. HeadKept
  BY <1>19, <1>20 DEF HeadKept
<1>22. Typed'
  BY <1>1 DEF IInv, Typed
<1>23. QuietTrue'
  BY <1>1 DEF IInv, QuietTrue
<1> QED
  BY <1>1, <1>14, <1>17, <1>18, <1>21, <1>22, <1>23, SteamKept, PreparedKept, RulesKept,
     RememberedKept DEF IInv

LEMMA FinishBatchInv ==
    ASSUME IInv, FinishBatch
    PROVE  IInv'
<1>1. /\ ~AtWork /\ job' = NoJob
      /\ UNCHANGED <<steam, submitted, intents, prepared, tasks, rules, quiet>>
  BY DEF FinishBatch
<1>2. NoJob \in Job /\ NoJob.rows = <<>> /\ ~NoJob.active
  BY DEF NoJob, Job
<1>3. RowsAtWork'
  BY <1>1, <1>2 DEF RowsAtWork, AtWork
<1>4. RowsInOrder'
  BY <1>1, <1>2 DEF RowsInOrder
<1>5. HeadKept
  BY <1>1 DEF HeadKept, T
<1>6. Typed' /\ TasksTrue'
  BY <1>1 DEF IInv, Typed, TasksTrue
<1>7. QuietTrue'
  BY <1>1, <1>2 DEF IInv, QuietTrue
<1> QED
  BY <1>1, <1>3, <1>4, <1>5, <1>6, <1>7, SteamKept, PreparedKept, RulesKept,
     RememberedKept DEF IInv

(***************************************************************************)
(* Steam                                                                   *)
(***************************************************************************)

\* An answer reaches the task that waits for it, and nothing else of the process.
LEMMA AnsweredKeeps ==
    ASSUME IInv, NEW op \in Works, NEW a \in Assets, NEW answer \in {"accepted", "rejected"},
           Answered(op, a, answer), UNCHANGED Outside
    PROVE  /\ Typed' /\ PreparedTrue' /\ TasksTrue' /\ RowsAtWork' /\ RowsInOrder'
           /\ QuietTrue' /\ RulesTrue'
           /\ \/ UNCHANGED tasks /\ T' = T /\ ~Awaits(op, a)
              \/ /\ tasks' # <<>> /\ T'.at = answer /\ T'.asset = a /\ T'.op = op
                 /\ Awaits(op, a)
<1>1. UNCHANGED <<submitted, intents, prepared, job, rules, quiet>>
  BY DEF Outside
<1>2. Typed'
  BY <1>1 DEF IInv, Typed
<1>3. CASE ~Awaits(op, a)
  <2>1. UNCHANGED tasks /\ T' = T
    BY <1>3 DEF Answered, T
  <2>2. HeadKept
    BY <2>1 DEF HeadKept
  <2>3. QuietTrue'
    BY <1>1, <2>1 DEF IInv, QuietTrue
  <2> QED
    BY <1>1, <1>2, <1>3, <2>1, <2>2, <2>3, PreparedKept, RowsKept, RulesKept
<1>4. CASE Awaits(op, a)
  <2>1. tasks # <<>> /\ T.op = op /\ T.at = "sent" /\ T.asset = a
    BY <1>4 DEF Awaits, At
  <2>2. T \in Task /\ T = tasks[1] /\ 1 \in DOMAIN tasks
    BY <2>1, TaskFacts
  <2> DEFINE t == [T EXCEPT !.at = answer]
  <2>3. tasks' = [tasks EXCEPT ![1] = t]
    BY <1>4, <2>2 DEF Answered, Goto
  <2>4. /\ t \in Task /\ t.at = answer /\ t.op = T.op /\ t.row = T.row
        /\ t.quantity = T.quantity /\ t.live = T.live /\ t.asset = T.asset
    BY <2>2 DEF Task, Steps
  <2>5. answer \in Sent /\ T.at \in Sent /\ T.op # "save"
    BY <2>1 DEF Sent, Works
  <2> HIDE DEF t
  <2>6. /\ PreparedTrue' /\ TasksTrue' /\ RowsAtWork' /\ RowsInOrder' /\ QuietTrue'
        /\ T' = t /\ tasks' # <<>>
    BY <1>1, <2>1, <2>3, <2>4, <2>5, GoesOn
  <2>7. RulesTrue'
    BY <2>4, <2>6 DEF RulesTrue, At
  <2> QED
    BY <1>2, <1>4, <2>1, <2>4, <2>6, <2>7
<1> QED
  BY <1>3, <1>4

LEMMA SteamFacts ==
    ASSUME IInv, NEW a \in Assets
    PROVE  /\ steam.owned[a] \in Nat /\ steam.listed[a] \in Nat
           /\ steam.moving[a] \in Nat /\ steam.wire[a] \in Nat
           /\ steam.moving[a] <= steam.listed[a] /\ steam.moving[a] <= steam.owned[a]
           /\ steam.owned[a] + steam.listed[a] - steam.moving[a] <= Copies[a]
           /\ Copies[a] \in Nat /\ Copies[a] <= Total(Copies) /\ Total(Copies) \in Nat
           /\ \A n \in Nat : n <= Copies[a] => n \in Amounts
<1>1. Copies[a] \in Nat /\ Copies[a] <= Total(Copies) /\ Total(Copies) \in Nat
  BY CopiesBound
<1>2. /\ steam.owned[a] \in Amounts /\ steam.listed[a] \in Amounts
      /\ steam.moving[a] \in Amounts /\ steam.wire[a] \in Amounts
      /\ steam.moving[a] <= steam.listed[a] /\ steam.moving[a] <= steam.owned[a]
      /\ steam.owned[a] + steam.listed[a] - steam.moving[a] <= Copies[a]
  BY DEF IInv, SteamTrue, Steam
<1> QED
  BY <1>1, <1>2 DEF Amounts

\* A decision takes no copy that was not accounted for.
LEMMA SteamMoves ==
    ASSUME IInv, NEW a \in Assets, NEW o \in Nat, NEW l \in Nat, NEW m \in Nat, NEW w \in Nat,
           NEW removing \in SUBSET Assets,
           steam' = [owned |-> Put(steam.owned, a, o), listed |-> Put(steam.listed, a, l),
                     moving |-> Put(steam.moving, a, m), wire |-> Put(steam.wire, a, w),
                     removing |-> removing],
           m <= l, m <= o, o + l - m <= Copies[a], w <= steam.wire[a],
           UNCHANGED submitted,
           o - m - w >= steam.owned[a] - steam.moving[a] - steam.wire[a]
    PROVE  /\ SteamTrue'
           /\ steam'.owned[a] = o /\ steam'.listed[a] = l /\ steam'.moving[a] = m
           /\ steam'.wire[a] = w
           /\ \A b \in Assets : b # a =>
                /\ steam'.owned[b] = steam.owned[b] /\ steam'.listed[b] = steam.listed[b]
                /\ steam'.moving[b] = steam.moving[b] /\ steam'.wire[b] = steam.wire[b]
           /\ Kept' >= Kept /\ Kept \in Nat /\ Kept' \in Nat
<1>1. \A b \in Assets :
        /\ steam.owned[b] \in Nat /\ steam.listed[b] \in Nat
        /\ steam.moving[b] \in Nat /\ steam.wire[b] \in Nat
        /\ steam.moving[b] <= steam.listed[b] /\ steam.moving[b] <= steam.owned[b]
        /\ steam.owned[b] + steam.listed[b] - steam.moving[b] <= Copies[b]
        /\ Copies[b] \in Nat
  BY SteamFacts
<1>2. /\ steam.owned \in [Assets -> Amounts] /\ steam.listed \in [Assets -> Amounts]
      /\ steam.moving \in [Assets -> Amounts] /\ steam.wire \in [Assets -> Amounts]
  BY DEF IInv, SteamTrue, Steam
<1>3. o \in Amounts /\ l \in Amounts /\ m \in Amounts
  BY SteamFacts
<1>4. w \in Amounts
  BY <1>1, <1>2, CopiesAreFinite DEF Amounts
<1>5. /\ steam' \in Steam
      /\ steam'.owned = Put(steam.owned, a, o) /\ steam'.listed = Put(steam.listed, a, l)
      /\ steam'.moving = Put(steam.moving, a, m) /\ steam'.wire = Put(steam.wire, a, w)
  BY <1>2, <1>3, <1>4 DEF Steam, Put
<1>6. /\ steam'.owned[a] = o /\ steam'.listed[a] = l /\ steam'.moving[a] = m
      /\ steam'.wire[a] = w
      /\ \A b \in Assets : b # a =>
            /\ steam'.owned[b] = steam.owned[b] /\ steam'.listed[b] = steam.listed[b]
            /\ steam'.moving[b] = steam.moving[b] /\ steam'.wire[b] = steam.wire[b]
  BY <1>2, <1>5 DEF Put
<1>7. SteamTrue'
  <2> SUFFICES ASSUME NEW b \in Assets
               PROVE  /\ steam'.moving[b] <= steam'.listed[b]
                      /\ steam'.moving[b] <= steam'.owned[b]
                      /\ steam'.owned[b] + steam'.listed[b] - steam'.moving[b] <= Copies[b]
    BY <1>5 DEF SteamTrue
  <2>1. CASE b = a
    BY <1>6, <2>1
  <2>2. CASE b # a
    BY <1>1, <1>6, <2>2
  <2> QED
    BY <2>1, <2>2
<1>8. Kept' >= Kept /\ Kept \in Nat /\ Kept' \in Nat
  <2> DEFINE f == [b \in Assets |-> steam.owned[b] - steam.moving[b] - steam.wire[b]]
             g == [b \in Assets |-> steam'.owned[b] - steam'.moving[b] - steam'.wire[b]]
  <2>1. ASSUME NEW b \in Assets
        PROVE  f[b] \in Int /\ g[b] \in Int /\ f[b] <= g[b] /\ g[b] <= Copies[b]
    <3>1. CASE b = a
      BY <1>1, <1>6, <3>1
    <3>2. CASE b # a
      BY <1>1, <1>6, <3>2
    <3> QED
      BY <3>1, <3>2
  <2>2. f \in [Assets -> Int] /\ g \in [Assets -> Int]
    BY <2>1
  <2>3. Kept = Total(f) /\ Kept' = Total(g)
    BY DEF Kept
  <2> HIDE DEF f, g
  <2>4. Total(f) \in Nat /\ Total(g) \in Nat /\ Total(f) <= Total(g)
    BY <2>1, <2>2, TotalMonotone
  <2> QED
    BY <2>3, <2>4
<1> QED
  BY <1>6, <1>7, <1>8

\* What is relied on stays true, unless the asset itself is decided.
LEMMA ReliedKept ==
    ASSUME IInv, ~MayForget, NEW a \in Assets, UNCHANGED <<submitted, tasks>>,
           tasks # <<>> /\ T.op = "sell" /\ T.asset = a =>
              /\ T.at \in {"turn", "session"} => Taken(a)' = 0 /\ steam'.listed[a] = 0
                                                 /\ steam'.owned[a] = steam.owned[a]
              /\ T.at = "rejected" => Taken(a)' = 0,
           \A b \in Assets : b # a =>
                /\ steam'.owned[b] = steam.owned[b] /\ steam'.listed[b] = steam.listed[b]
                /\ steam'.moving[b] = steam.moving[b] /\ steam'.wire[b] = steam.wire[b],
           Kept' >= Kept, Kept \in Nat, Kept' \in Nat
    PROVE  Relied'
<1> SUFFICES ASSUME tasks # <<>>, T.op = "sell"
             PROVE  /\ T.at \in {"turn", "session"} =>
                        /\ steam'.wire[T.asset] + steam'.moving[T.asset] = 0
                        /\ steam'.listed[T.asset] = 0
                        /\ T.quantity <= steam'.owned[T.asset] /\ Kept' >= T.quantity + 1
                    /\ T.at = "turn" => /\ submitted[T.asset].quantity = 0
                                        /\ T.before = steam'.owned[T.asset]
                    /\ T.at = "session" => submitted[T.asset] =
                        [quantity |-> T.quantity, before |-> steam'.owned[T.asset]]
                    /\ T.at = "rejected" =>
                        steam'.wire[T.asset] + steam'.moving[T.asset] = 0
  <2>1. T' = T
    BY DEF T
  <2> QED
    BY <2>1 DEF Relied, Taken
<1>1. Relied
  BY DEF IInv, Remembered
<1>2. T.asset \in Assets /\ T.quantity \in Nat
  BY TaskFacts, CopiesAreFinite DEF Task, Amounts
<1>3. CASE T.asset = a
  BY <1>1, <1>2, <1>3 DEF Relied, Taken
<1>4. CASE T.asset # a
  <2>1. steam'.wire[T.asset] + steam'.moving[T.asset] = Taken(T.asset)
    BY <1>2, <1>4 DEF Taken
  <2> QED
    BY <1>1, <1>2, <1>4, <2>1 DEF Relied
<1> QED
  BY <1>3, <1>4

LEMMA DecideSaleInv ==
    ASSUME IInv, NEW a \in Assets, DecideSale(a)
    PROVE  IInv'
<1>1. steam.wire[a] > 0 /\ UNCHANGED Outside /\ UNCHANGED submitted
  BY DEF DecideSale, Outside
<1>2. /\ steam.owned[a] \in Nat /\ steam.listed[a] \in Nat
      /\ steam.moving[a] \in Nat /\ steam.wire[a] \in Nat
      /\ steam.moving[a] <= steam.listed[a] /\ steam.moving[a] <= steam.owned[a]
      /\ steam.owned[a] + steam.listed[a] - steam.moving[a] <= Copies[a]
      /\ Copies[a] \in Nat
  BY SteamFacts
<1>3. steam \in Steam /\ steam.removing \in SUBSET Assets /\ "sell" \in Works
  BY DEF IInv, SteamTrue, Steam, Works
<1>4. ASSUME NEW answer \in {"accepted", "rejected"}, NEW l \in Nat, NEW m \in Nat,
             Answered("sell", a, answer),
             steam' = [owned |-> Put(steam.owned, a, steam.owned[a]),
                       listed |-> Put(steam.listed, a, l), moving |-> Put(steam.moving, a, m),
                       wire |-> Put(steam.wire, a, 0), removing |-> steam.removing],
             m <= l, m <= steam.owned[a],
             steam.owned[a] + l - m <= Copies[a],
             \/ answer = "accepted" /\ m = steam.moving[a] + steam.wire[a]
             \/ answer = "rejected" /\ m = steam.moving[a]
      PROVE  IInv'
  <2>1. /\ Typed' /\ PreparedTrue' /\ TasksTrue' /\ RowsAtWork' /\ RowsInOrder'
        /\ QuietTrue' /\ RulesTrue'
        /\ \/ UNCHANGED tasks /\ T' = T /\ ~Awaits("sell", a)
           \/ /\ tasks' # <<>> /\ T'.at = answer /\ T'.asset = a /\ T'.op = "sell"
              /\ Awaits("sell", a)
    BY <1>1, <1>3, <1>4, AnsweredKeeps
  <2>2. /\ SteamTrue'
        /\ steam'.owned[a] = steam.owned[a] /\ steam'.listed[a] = l /\ steam'.moving[a] = m
        /\ steam'.wire[a] = 0
        /\ \A b \in Assets : b # a =>
              /\ steam'.owned[b] = steam.owned[b] /\ steam'.listed[b] = steam.listed[b]
              /\ steam'.moving[b] = steam.moving[b] /\ steam'.wire[b] = steam.wire[b]
        /\ Kept' >= Kept /\ Kept \in Nat /\ Kept' \in Nat
    <3>1. /\ 0 \in Nat /\ 0 <= steam.wire[a]
          /\ steam.owned[a] - m - 0 >= steam.owned[a] - steam.moving[a] - steam.wire[a]
      BY <1>2, <1>4
    <3> QED
      BY <1>1, <1>2, <1>3, <1>4, <3>1, SteamMoves
  <2>3. Remembered'
    <3>1. CASE MayForget
      BY <3>1 DEF Remembered
    <3>2. CASE ~MayForget
      <4>1. Accounted /\ Relied /\ OneCopyStays
        BY <3>2 DEF IInv, Remembered
      <4>2. /\ Taken(a) = submitted[a].quantity /\ steam.owned[a] = submitted[a].before
            /\ steam.listed[a] = 0 /\ steam.moving[a] = 0 /\ Taken(a) = steam.wire[a]
        <5>1. Taken(a) # 0 /\ steam.wire[a] # 0
          BY <1>1, <1>2 DEF Taken
        <5>2. steam.listed[a] = 0
          BY <4>1, <5>1 DEF Accounted
        <5>3. steam.moving[a] = 0
          BY <1>2, <5>2
        <5>4. Taken(a) = steam.wire[a]
          BY <1>2, <5>3 DEF Taken
        <5> QED
          BY <4>1, <5>1, <5>2, <5>3, <5>4 DEF Accounted
      <4>3. /\ Taken(a)' = m /\ (m = 0 \/ m = submitted[a].quantity)
            /\ answer = "rejected" => m = 0
        BY <1>2, <1>4, <2>2, <4>2 DEF Taken
      <4>4. Accounted'
        <5> SUFFICES ASSUME NEW b \in Assets
                     PROVE  /\ Taken(b)' = 0 \/ Taken(b)' = submitted[b].quantity
                            /\ steam'.wire[b] = 0 \/ steam'.listed[b] = 0
                            /\ Taken(b)' # 0 => steam'.owned[b] = submitted[b].before
          BY <1>1 DEF Accounted, Taken
        <5>1. CASE b = a
          BY <2>2, <4>2, <4>3, <5>1
        <5>2. CASE b # a
          BY <2>2, <4>1, <5>2 DEF Accounted, Taken
        <5> QED
          BY <5>1, <5>2
      <4>5. OneCopyStays'
        BY <2>2, <4>1 DEF OneCopyStays
      <4>6. Relied'
        <5>1. CASE UNCHANGED tasks /\ T' = T /\ ~Awaits("sell", a)
          <6>1. tasks # <<>> /\ T.op = "sell" /\ T.asset = a =>
                    T.at \notin {"turn", "session", "rejected"}
            <7>1. Taken(a) # 0
              BY <1>1, <1>2, <4>2
            <7> QED
              BY <4>1, <7>1 DEF Relied
          <6> QED
            BY <1>1, <2>2, <3>2, <5>1, <6>1, ReliedKept
        <5>2. CASE /\ tasks' # <<>> /\ T'.at = answer /\ T'.asset = a /\ T'.op = "sell"
                   /\ Awaits("sell", a)
          <6>1. T'.at \notin {"turn", "session"} /\ (T'.at = "rejected" => Taken(a)' = 0)
            BY <1>4, <4>3, <5>2
          <6> QED
            BY <5>2, <6>1 DEF Relied, Taken
        <5> QED
          BY <2>1, <5>1, <5>2
      <4> QED
        BY <4>4, <4>5, <4>6 DEF Remembered
    <3> QED
      BY <3>1, <3>2
  <2> QED
    BY <2>1, <2>2, <2>3 DEF IInv
<1>5. Put(steam.owned, a, steam.owned[a]) = steam.owned
      /\ Put(steam.listed, a, steam.listed[a]) = steam.listed
      /\ Put(steam.moving, a, steam.moving[a]) = steam.moving
      /\ Put(steam.wire, a, steam.wire[a]) = steam.wire
  BY <1>3 DEF Steam, Put
<1>6. CASE /\ steam.moving[a] + steam.wire[a] <= steam.owned[a]
           /\ steam' = [steam EXCEPT
                !.listed = Put(@, a, steam.listed[a] + steam.wire[a]),
                !.moving = Put(@, a, steam.moving[a] + steam.wire[a]),
                !.wire   = Put(@, a, 0)]
           /\ Answered("sell", a, "accepted")
  <2> DEFINE l == steam.listed[a] + steam.wire[a]
             m == steam.moving[a] + steam.wire[a]
  <2>1. /\ l \in Nat /\ m \in Nat /\ m <= l /\ m <= steam.owned[a]
        /\ steam.owned[a] + l - m <= Copies[a]
    BY <1>2, <1>6
  <2>2. steam' = [owned |-> steam.owned,
                  listed |-> Put(steam.listed, a, l), moving |-> Put(steam.moving, a, m),
                  wire |-> Put(steam.wire, a, 0), removing |-> steam.removing]
    BY <1>3, <1>6 DEF Steam
  <2> QED
    BY <1>4, <1>5, <1>6, <2>1, <2>2
<1>7. CASE /\ steam' = [steam EXCEPT !.wire = Put(@, a, 0)]
           /\ Answered("sell", a, "rejected")
  <2>1. steam' = [owned |-> steam.owned, listed |-> steam.listed, moving |-> steam.moving,
                  wire |-> Put(steam.wire, a, 0), removing |-> steam.removing]
    BY <1>3, <1>7 DEF Steam
  <2> QED
    BY <1>2, <1>4, <1>5, <1>7, <2>1
<1> QED
  BY <1>6, <1>7 DEF DecideSale

LEMMA DecideCancellationInv ==
    ASSUME IInv, NEW a \in Assets, DecideCancellation(a)
    PROVE  IInv'
<1>1. UNCHANGED Outside /\ UNCHANGED submitted
  BY DEF DecideCancellation, Outside
<1>2. /\ steam.owned[a] \in Nat /\ steam.listed[a] \in Nat
      /\ steam.moving[a] \in Nat /\ steam.wire[a] \in Nat
      /\ steam.moving[a] <= steam.listed[a] /\ steam.moving[a] <= steam.owned[a]
      /\ steam.owned[a] + steam.listed[a] - steam.moving[a] <= Copies[a]
      /\ Copies[a] \in Nat
  BY SteamFacts
<1>3. steam \in Steam /\ steam.removing \ {a} \in SUBSET Assets /\ "cancel" \in Works
  BY DEF IInv, SteamTrue, Steam, Works
<1>4. ASSUME NEW answer \in {"accepted", "rejected"}, NEW o \in Nat, NEW l \in Nat,
             NEW m \in Nat, Answered("cancel", a, answer),
             steam' = [owned |-> Put(steam.owned, a, o), listed |-> Put(steam.listed, a, l),
                       moving |-> Put(steam.moving, a, m),
                       wire |-> Put(steam.wire, a, steam.wire[a]),
                       removing |-> steam.removing \ {a}],
             \/ /\ o = steam.owned[a] + steam.listed[a] - steam.moving[a]
                /\ l = 0 /\ m = 0
             \/ o = steam.owned[a] /\ l = steam.listed[a] /\ m = steam.moving[a]
      PROVE  IInv'
  <2>1. /\ Typed' /\ PreparedTrue' /\ TasksTrue' /\ RowsAtWork' /\ RowsInOrder'
        /\ QuietTrue' /\ RulesTrue'
        /\ \/ UNCHANGED tasks /\ T' = T /\ ~Awaits("cancel", a)
           \/ /\ tasks' # <<>> /\ T'.at = answer /\ T'.asset = a /\ T'.op = "cancel"
              /\ Awaits("cancel", a)
    BY <1>1, <1>3, <1>4, AnsweredKeeps
  <2>2. /\ SteamTrue'
        /\ steam'.owned[a] = o /\ steam'.listed[a] = l /\ steam'.moving[a] = m
        /\ steam'.wire[a] = steam.wire[a]
        /\ \A b \in Assets : b # a =>
              /\ steam'.owned[b] = steam.owned[b] /\ steam'.listed[b] = steam.listed[b]
              /\ steam'.moving[b] = steam.moving[b] /\ steam'.wire[b] = steam.wire[b]
        /\ Kept' >= Kept /\ Kept \in Nat /\ Kept' \in Nat
    <3>1. /\ m <= l /\ m <= o /\ o + l - m <= Copies[a] /\ steam.wire[a] <= steam.wire[a]
          /\ o - m - steam.wire[a] >= steam.owned[a] - steam.moving[a] - steam.wire[a]
      BY <1>2, <1>4
    <3> DEFINE w == steam.wire[a]
               rest == steam.removing \ {a}
    <3>2. /\ w \in Nat /\ w <= steam.wire[a] /\ w = steam.wire[a] /\ rest \in SUBSET Assets
          /\ o - m - w >= steam.owned[a] - steam.moving[a] - steam.wire[a]
      BY <1>2, <1>3, <3>1
    <3>3. steam' = [owned |-> Put(steam.owned, a, o), listed |-> Put(steam.listed, a, l),
                    moving |-> Put(steam.moving, a, m), wire |-> Put(steam.wire, a, w),
                    removing |-> rest]
      BY <1>4
    <3> HIDE DEF w, rest
    <3> QED
      BY <1>1, <3>1, <3>2, <3>3, SteamMoves
  <2>3. Remembered'
    <3>1. CASE MayForget
      BY <3>1 DEF Remembered
    <3>2. CASE ~MayForget
      <4>1. Accounted /\ Relied /\ OneCopyStays
        BY <3>2 DEF IInv, Remembered
      <4>2. /\ Taken(a) = 0 \/ Taken(a) = submitted[a].quantity
            /\ steam.wire[a] = 0 \/ steam.listed[a] = 0
            /\ Taken(a) # 0 => steam.owned[a] = submitted[a].before
        BY <4>1 DEF Accounted
      <4>3. Taken(a)' = 0 \/ (Taken(a)' = Taken(a) /\ o = steam.owned[a])
        <5>1. CASE steam.wire[a] = 0 /\ m = 0
          BY <1>2, <2>2, <5>1 DEF Taken
        <5>2. CASE m # 0
          BY <1>2, <1>4, <2>2, <5>2 DEF Taken
        <5>3. CASE steam.wire[a] # 0
          <6>1. steam.listed[a] = 0 /\ steam.moving[a] = 0
            BY <1>2, <4>2, <5>3
          <6> QED
            BY <1>2, <1>4, <2>2, <6>1 DEF Taken
        <5> QED
          BY <5>1, <5>2, <5>3
      <4>4. Accounted'
        <5> SUFFICES ASSUME NEW b \in Assets
                     PROVE  /\ Taken(b)' = 0 \/ Taken(b)' = submitted[b].quantity
                            /\ steam'.wire[b] = 0 \/ steam'.listed[b] = 0
                            /\ Taken(b)' # 0 => steam'.owned[b] = submitted[b].before
          BY <1>1 DEF Accounted, Taken
        <5>1. CASE b = a
          BY <1>4, <2>2, <4>2, <4>3, <5>1
        <5>2. CASE b # a
          BY <2>2, <4>1, <5>2 DEF Accounted, Taken
        <5> QED
          BY <5>1, <5>2
      <4>5. OneCopyStays'
        BY <2>2, <4>1 DEF OneCopyStays
      <4>6. Relied'
        <5>1. CASE UNCHANGED tasks /\ T' = T /\ ~Awaits("cancel", a)
          <6>1. tasks # <<>> /\ T.op = "sell" /\ T.asset = a =>
                    /\ T.at \in {"turn", "session"} =>
                          Taken(a)' = 0 /\ l = 0 /\ o = steam.owned[a]
                    /\ T.at = "rejected" => Taken(a)' = 0
            <7> SUFFICES ASSUME tasks # <<>>, T.op = "sell", T.asset = a
                         PROVE  /\ T.at \in {"turn", "session"} =>
                                      Taken(a)' = 0 /\ l = 0 /\ o = steam.owned[a]
                                /\ T.at = "rejected" => Taken(a)' = 0
              OBVIOUS
            <7>1. /\ T.at \in {"turn", "session", "rejected"} => Taken(a) = 0
                  /\ T.at \in {"turn", "session"} => steam.listed[a] = 0
              BY <4>1 DEF Relied
            <7>2. Taken(a) = 0 => Taken(a)' = 0
              BY <4>3
            <7>3. steam.listed[a] = 0 => l = 0 /\ o = steam.owned[a]
              BY <1>2, <1>4
            <7> QED
              BY <7>1, <7>2, <7>3
          <6> QED
            BY <1>1, <2>2, <3>2, <5>1, <6>1, ReliedKept
        <5>2. CASE T'.op = "cancel"
          BY <5>2 DEF Relied
        <5> QED
          BY <2>1, <5>1, <5>2
      <4> QED
        BY <4>4, <4>5, <4>6 DEF Remembered
    <3> QED
      BY <3>1, <3>2
  <2> QED
    BY <2>1, <2>2, <2>3 DEF IInv
<1>5. Put(steam.owned, a, steam.owned[a]) = steam.owned
      /\ Put(steam.listed, a, steam.listed[a]) = steam.listed
      /\ Put(steam.moving, a, steam.moving[a]) = steam.moving
      /\ Put(steam.wire, a, steam.wire[a]) = steam.wire
  BY <1>3 DEF Steam, Put
<1>6. CASE /\ steam' = [steam EXCEPT !.removing = @ \ {a},
                !.owned  = Put(@, a, steam.owned[a] + steam.listed[a] - steam.moving[a]),
                !.listed = Put(@, a, 0), !.moving = Put(@, a, 0)]
           /\ Answered("cancel", a, "accepted")
  <2> DEFINE o == steam.owned[a] + steam.listed[a] - steam.moving[a]
             none == 0
  <2>1. o \in Nat /\ none \in Nat
    BY <1>2
  <2>2. steam' = [owned |-> Put(steam.owned, a, o), listed |-> Put(steam.listed, a, none),
                  moving |-> Put(steam.moving, a, none), wire |-> steam.wire,
                  removing |-> steam.removing \ {a}]
    BY <1>3, <1>6 DEF Steam
  <2>3. /\ o = steam.owned[a] + steam.listed[a] - steam.moving[a]
        /\ none = 0 /\ none = 0
    OBVIOUS
  <2> HIDE DEF o, none
  <2>4. steam' = [owned |-> Put(steam.owned, a, o), listed |-> Put(steam.listed, a, none),
                  moving |-> Put(steam.moving, a, none),
                  wire |-> Put(steam.wire, a, steam.wire[a]),
                  removing |-> steam.removing \ {a}]
    BY <1>5, <2>2
  <2>5. Answered("cancel", a, "accepted")
    BY <1>6
  <2> QED
    BY <1>4, <2>1, <2>3, <2>4, <2>5, Zenon
<1>7. CASE /\ steam' = [steam EXCEPT !.removing = @ \ {a}]
           /\ Answered("cancel", a, "rejected")
  <2>1. steam' = [owned |-> steam.owned, listed |-> steam.listed, moving |-> steam.moving,
                  wire |-> steam.wire, removing |-> steam.removing \ {a}]
    BY <1>3, <1>7 DEF Steam
  <2> QED
    BY <1>2, <1>4, <1>5, <1>7, <2>1
<1> QED
  BY <1>6, <1>7 DEF DecideCancellation

LEMMA LeavesInventoryInv ==
    ASSUME IInv, NEW a \in Assets, LeavesInventory(a)
    PROVE  IInv'
<1>1. /\ UNCHANGED <<submitted, intents, prepared, job, tasks, rules, quiet>>
      /\ steam.moving[a] > 0 /\ T' = T
  BY DEF LeavesInventory, Outside, T
<1>2. /\ steam.owned[a] \in Nat /\ steam.listed[a] \in Nat
      /\ steam.moving[a] \in Nat /\ steam.wire[a] \in Nat
      /\ steam.moving[a] <= steam.listed[a] /\ steam.moving[a] <= steam.owned[a]
      /\ steam.owned[a] + steam.listed[a] - steam.moving[a] <= Copies[a]
  BY SteamFacts
<1>3. steam \in Steam
  BY DEF IInv, SteamTrue
<1> DEFINE o == steam.owned[a] - steam.moving[a]
           l == steam.listed[a]
           w == steam.wire[a]
           removing == steam.removing
<1>4. /\ Put(steam.listed, a, l) = steam.listed /\ Put(steam.wire, a, w) = steam.wire
      /\ removing \in SUBSET Assets
  BY <1>3 DEF Steam, Put
<1>5. steam' = [owned |-> Put(steam.owned, a, o), listed |-> steam.listed,
                moving |-> Put(steam.moving, a, 0), wire |-> steam.wire,
                removing |-> removing]
  BY <1>3 DEF LeavesInventory, Steam
<1>6. /\ o \in Nat /\ l \in Nat /\ w \in Nat /\ 0 \in Nat /\ 0 <= l /\ 0 <= o
      /\ o + l - 0 <= Copies[a] /\ w <= steam.wire[a]
      /\ o - 0 - w >= steam.owned[a] - steam.moving[a] - steam.wire[a]
      /\ l = steam.listed[a] /\ w = steam.wire[a] /\ l > 0
  BY <1>1, <1>2
<1> HIDE DEF o, l, w, removing
<1>7. steam' = [owned |-> Put(steam.owned, a, o), listed |-> Put(steam.listed, a, l),
                moving |-> Put(steam.moving, a, 0), wire |-> Put(steam.wire, a, w),
                removing |-> removing]
  BY <1>4, <1>5
<1>8. /\ SteamTrue'
      /\ steam'.owned[a] = o /\ steam'.listed[a] = l /\ steam'.moving[a] = 0
      /\ steam'.wire[a] = w
      /\ \A b \in Assets : b # a =>
            /\ steam'.owned[b] = steam.owned[b] /\ steam'.listed[b] = steam.listed[b]
            /\ steam'.moving[b] = steam.moving[b] /\ steam'.wire[b] = steam.wire[b]
      /\ Kept' >= Kept /\ Kept \in Nat /\ Kept' \in Nat
  BY <1>1, <1>4, <1>6, <1>7, SteamMoves
<1>9. Remembered'
  <2>1. CASE MayForget
    BY <2>1 DEF Remembered
  <2>2. CASE ~MayForget
    <3>1. Accounted /\ Relied /\ OneCopyStays
      BY <2>2 DEF IInv, Remembered
    <3>2. w = 0 /\ Taken(a) # 0 /\ Taken(a)' = 0
      <4>1. w = 0
        BY <1>2, <1>6, <3>1 DEF Accounted
      <4> QED
        BY <1>1, <1>2, <1>6, <1>8, <4>1 DEF Taken
    <3>3. Accounted'
      <4> SUFFICES ASSUME NEW b \in Assets
                   PROVE  /\ Taken(b)' = 0 \/ Taken(b)' = submitted[b].quantity
                          /\ steam'.wire[b] = 0 \/ steam'.listed[b] = 0
                          /\ Taken(b)' # 0 => steam'.owned[b] = submitted[b].before
        BY <1>1 DEF Accounted, Taken
      <4>1. CASE b = a
        BY <1>8, <3>2, <4>1
      <4>2. CASE b # a
        BY <1>8, <3>1, <4>2 DEF Accounted, Taken
      <4> QED
        BY <4>1, <4>2
    <3>4. OneCopyStays'
      BY <1>8, <3>1 DEF OneCopyStays
    <3>5. tasks # <<>> /\ T.op = "sell" /\ T.asset = a =>
              T.at \notin {"turn", "session", "rejected"}
      BY <3>1, <3>2 DEF Relied
    <3>6. Relied'
      BY <1>1, <1>8, <2>2, <3>5, ReliedKept
    <3> QED
      BY <3>3, <3>4, <3>6 DEF Remembered
  <2> QED
    BY <2>1, <2>2
<1>10. HeadKept
  BY <1>1 DEF HeadKept
<1>11. Typed' /\ QuietTrue'
  BY <1>1 DEF IInv, Typed, QuietTrue
<1> QED
  BY <1>1, <1>8, <1>9, <1>10, <1>11, PreparedKept, RowsKept, RulesKept DEF IInv

LEMMA SoldInv ==
    ASSUME IInv, NEW a \in Assets, Sold(a)
    PROVE  IInv'
<1>1. /\ UNCHANGED <<submitted, intents, prepared, job, tasks, rules, quiet>>
      /\ steam.moving[a] = 0 /\ T' = T
  BY DEF Sold, Outside, T
<1>2. /\ steam.owned[a] \in Nat /\ steam.listed[a] \in Nat
      /\ steam.moving[a] \in Nat /\ steam.wire[a] \in Nat
      /\ steam.owned[a] + steam.listed[a] - steam.moving[a] <= Copies[a]
      /\ Copies[a] \in Nat
  BY SteamFacts
<1>3. steam \in Steam
  BY DEF IInv, SteamTrue
<1> DEFINE o == steam.owned[a]
           m == steam.moving[a]
           w == steam.wire[a]
           none == 0
           removing == steam.removing
<1>4. /\ Put(steam.owned, a, o) = steam.owned /\ Put(steam.wire, a, w) = steam.wire
      /\ Put(steam.moving, a, m) = steam.moving /\ removing \in SUBSET Assets
  BY <1>3 DEF Steam, Put
<1>5. steam' = [owned |-> steam.owned, listed |-> Put(steam.listed, a, none),
                moving |-> steam.moving, wire |-> steam.wire, removing |-> removing]
  BY <1>3 DEF Sold, Steam
<1>6. /\ o \in Nat /\ m \in Nat /\ w \in Nat /\ none \in Nat /\ m <= none /\ m <= o
      /\ o + none - m <= Copies[a] /\ w <= steam.wire[a]
      /\ o - m - w >= steam.owned[a] - steam.moving[a] - steam.wire[a]
  BY <1>1, <1>2
<1>0. o = steam.owned[a] /\ w = steam.wire[a] /\ m = 0 /\ none = 0
  BY <1>1
<1> HIDE DEF o, m, w, none, removing
<1>7. steam' = [owned |-> Put(steam.owned, a, o), listed |-> Put(steam.listed, a, none),
                moving |-> Put(steam.moving, a, m), wire |-> Put(steam.wire, a, w),
                removing |-> removing]
  BY <1>4, <1>5
<1>8. /\ SteamTrue'
      /\ steam'.owned[a] = o /\ steam'.listed[a] = none /\ steam'.moving[a] = m
      /\ steam'.wire[a] = w
      /\ \A b \in Assets : b # a =>
            /\ steam'.owned[b] = steam.owned[b] /\ steam'.listed[b] = steam.listed[b]
            /\ steam'.moving[b] = steam.moving[b] /\ steam'.wire[b] = steam.wire[b]
      /\ Kept' >= Kept /\ Kept \in Nat /\ Kept' \in Nat
  BY <1>1, <1>4, <1>6, <1>7, SteamMoves
<1>9. Remembered'
  <2>1. CASE MayForget
    BY <2>1 DEF Remembered
  <2>2. CASE ~MayForget
    <3>1. Accounted /\ Relied /\ OneCopyStays
      BY <2>2 DEF IInv, Remembered
    <3>2. Taken(a)' = Taken(a)
      BY <1>0, <1>1, <1>2, <1>6, <1>8 DEF Taken
    <3>3. Accounted'
      <4> SUFFICES ASSUME NEW b \in Assets
                   PROVE  /\ Taken(b)' = 0 \/ Taken(b)' = submitted[b].quantity
                          /\ steam'.wire[b] = 0 \/ steam'.listed[b] = 0
                          /\ Taken(b)' # 0 => steam'.owned[b] = submitted[b].before
        BY <1>1 DEF Accounted, Taken
      <4>1. CASE b = a
        BY <1>0, <1>6, <1>8, <3>1, <3>2, <4>1 DEF Accounted
      <4>2. CASE b # a
        BY <1>8, <3>1, <4>2 DEF Accounted, Taken
      <4> QED
        BY <4>1, <4>2
    <3>4. OneCopyStays'
      BY <1>8, <3>1 DEF OneCopyStays
    <3>5. tasks # <<>> /\ T.op = "sell" /\ T.asset = a =>
              /\ T.at \in {"turn", "session"} => Taken(a)' = 0 /\ steam'.listed[a] = 0
                                                 /\ steam'.owned[a] = steam.owned[a]
              /\ T.at = "rejected" => Taken(a)' = 0
      BY <1>0, <1>6, <1>8, <3>1, <3>2 DEF Relied
    <3>6. Relied'
      BY <1>1, <1>8, <2>2, <3>5, ReliedKept
    <3> QED
      BY <3>3, <3>4, <3>6 DEF Remembered
  <2> QED
    BY <2>1, <2>2
<1>10. HeadKept
  BY <1>1 DEF HeadKept
<1>11. Typed' /\ QuietTrue'
  BY <1>1 DEF IInv, Typed, QuietTrue
<1> QED
  BY <1>1, <1>8, <1>9, <1>10, <1>11, PreparedKept, RowsKept, RulesKept DEF IInv

(***************************************************************************)
(* The process                                                             *)
(***************************************************************************)

LEMMA RestartInv ==
    ASSUME IInv, Restart
    PROVE  IInv'
<1>1. /\ MayForget \/ \A a \in Assets : steam.moving[a] + steam.wire[a] = 0
      /\ submitted' = [a \in Assets |-> NoSubmission]
      /\ intents' = {} /\ prepared' = NoJob /\ tasks' = <<>> /\ job' = NoJob
      /\ quiet' = TRUE /\ UNCHANGED <<steam, rules>>
  BY DEF Restart
<1>2. NoSubmission \in Submission
  BY CopiesAreFinite DEF NoSubmission, Submission, Amounts
<1>3. Typed'
  BY <1>1, <1>2 DEF IInv, Typed
<1>4. NoJob \in Job /\ NoJob.rows = <<>> /\ ~NoJob.active /\ ~NoJob.stop
  BY DEF NoJob, Job
<1>5. TasksTrue' /\ RowsAtWork' /\ RowsInOrder'
  BY <1>1, <1>4 DEF TasksTrue, RowsAtWork, RowsInOrder
<1>6. QuietTrue' /\ RulesTrue'
  BY <1>1, <1>4 DEF QuietTrue, RulesTrue, At
<1>7. Remembered'
  <2>1. CASE MayForget
    BY <2>1 DEF Remembered
  <2>2. CASE ~MayForget
    <3>1. Accounted'
      <4>1. \A a \in Assets : Taken(a)' = 0 /\ (steam'.wire[a] = 0 \/ steam'.listed[a] = 0)
        <5> TAKE a \in Assets
        <5>1. steam.moving[a] = 0 /\ steam.wire[a] = 0
          BY <1>1, <2>2, SteamFacts
        <5> QED
          BY <1>1, <5>1 DEF Taken
      <4> QED
        BY <4>1 DEF Accounted, Taken
    <3>2. OneCopyStays'
      BY <1>1, <2>2, SteamStands
    <3>3. Relied'
      BY <1>1 DEF Relied
    <3> QED
      BY <3>1, <3>2, <3>3 DEF Remembered
  <2> QED
    BY <2>1, <2>2
<1> QED
  BY <1>1, <1>3, <1>5, <1>6, <1>7, SteamKept, PreparedKept DEF IInv

LEMMA InitInv == Init => IInv
<1> SUFFICES ASSUME Init PROVE IInv
  OBVIOUS
<1> DEFINE zero == [a \in Assets |-> 0]
<1>1. /\ steam.owned = Copies /\ steam.listed = zero /\ steam.moving = zero
      /\ steam.wire = zero /\ steam.removing = {}
      /\ steam = [owned |-> Copies, listed |-> zero, moving |-> zero, wire |-> zero,
                  removing |-> {}]
      /\ submitted = [a \in Assets |-> NoSubmission]
      /\ intents = {} /\ prepared = NoJob /\ job = NoJob /\ tasks = <<>>
      /\ rules = 0 /\ quiet = TRUE
  BY DEF Init
<1>2. Copies \in [Assets -> Nat \ {0}] /\ Assets # {}
  BY ConstantsAssumption
<1>3. Copies \in [Assets -> Amounts] /\ 0 \in Amounts /\ zero \in [Assets -> Amounts]
  <2>1. \A a \in Assets : Copies[a] \in Amounts
    BY CopiesBound DEF Amounts
  <2>2. 0 \in Amounts
    BY CopiesAreFinite DEF Amounts
  <2> QED
    BY <1>2, <2>1, <2>2
<1>4. SteamTrue
  <2>1. \A a \in Assets : /\ steam.owned[a] = Copies[a] /\ steam.listed[a] = 0
                          /\ steam.moving[a] = 0 /\ Copies[a] \in Nat
    BY <1>1, <1>2
  <2>2. steam \in Steam
    BY <1>1, <1>3 DEF Steam
  <2> QED
    BY <2>1, <2>2 DEF SteamTrue
<1>5. NoSubmission \in Submission
  BY <1>3 DEF NoSubmission, Submission
<1>6. Typed
  BY <1>1, <1>5 DEF Typed
<1>7. NoJob \in Job /\ NoJob.rows = <<>> /\ ~NoJob.active /\ ~NoJob.stop
  BY DEF NoJob, Job
<1>8. PreparedTrue /\ TasksTrue /\ RowsAtWork /\ RowsInOrder
  BY <1>1, <1>7 DEF PreparedTrue, TasksTrue, RowsAtWork, RowsInOrder
<1>9. QuietTrue /\ RulesTrue
  BY <1>1, <1>7 DEF QuietTrue, RulesTrue, At
<1>10. Remembered
  <2>1. Accounted /\ Relied
    BY <1>1 DEF Accounted, Relied, Taken
  <2>2. [a \in Assets |-> steam.owned[a] - steam.moving[a] - steam.wire[a]] = Copies
    <3>1. \A a \in Assets : steam.owned[a] - steam.moving[a] - steam.wire[a] = Copies[a]
      BY <1>1, <1>2
    <3> QED
      BY <1>2, <3>1
  <2>3. Kept = Total(Copies)
    BY <2>2 DEF Kept
  <2>4. \E a \in Assets : Copies[a] <= Total(Copies) /\ Copies[a] \in Nat /\ Copies[a] >= 1
    BY <1>2, CopiesBound
  <2>5. OneCopyStays
    BY <2>3, <2>4, CopiesAreFinite DEF OneCopyStays
  <2> QED
    BY <2>1, <2>5 DEF Remembered
<1> QED
  BY <1>4, <1>6, <1>8, <1>9, <1>10 DEF IInv

LEMMA StutterInv ==
    ASSUME IInv, UNCHANGED vars
    PROVE  IInv'
<1>1. UNCHANGED <<steam, submitted, intents, prepared, job, tasks, rules, quiet>>
  BY DEF vars
<1>2. HeadKept
  BY <1>1 DEF HeadKept, T
<1>3. Typed' /\ QuietTrue'
  BY <1>1 DEF IInv, Typed, QuietTrue
<1> QED
  BY <1>1, <1>2, <1>3, SteamKept, PreparedKept, RowsKept, RulesKept, RememberedKept DEF IInv

LEMMA NextInv ==
    ASSUME IInv, [Next]_vars
    PROVE  IInv'
<1>1. CASE Requests
  BY <1>1, RequestPreviewInv, ConfirmInv, RequestSaveInv, ConfirmBatchInv, ExpireInv,
     StopBatchInv, StopAccountInv, RefreshInv DEF Requests
<1>2. CASE Work
  BY <1>2, PreviewInv, SaveInv, ReviewInv, TurnInv, SendInv, AnswerLostInv, RejectedInv,
     AcceptedInv, VerifyInv DEF Work
<1>3. CASE RunBatch
  BY <1>3, NextRowInv, FinishBatchInv DEF RunBatch
<1>4. CASE Decide
  BY <1>4, DecideSaleInv, DecideCancellationInv, LeavesInventoryInv, SoldInv DEF Decide
<1>5. CASE Restart
  BY <1>5, RestartInv
<1>6. CASE UNCHANGED vars
  BY <1>6, StutterInv
<1> QED
  BY <1>1, <1>2, <1>3, <1>4, <1>5, <1>6 DEF Next

LEMMA Invariance == Spec => []IInv
BY InitInv, NextInv, PTL DEF Spec

(***************************************************************************)
(* The theorems                                                            *)
(***************************************************************************)

\* Every variable keeps its type; in particular no request asks for more copies
\* than there are.
THEOREM TypeCorrect == Spec => []TypeOK
<1>1. IInv => TypeOK
  BY DEF IInv, TypeOK, SteamTrue, Typed, PreparedTrue, TasksTrue, RowsAtWork
<1> QED
  BY <1>1, Invariance, PTL

\* What a batch says of its rows is what happened to them, whatever was stopped, lost
\* or restarted, and it sends nothing after a row of which nobody knows what became.
THEOREM RowsAreTrueHolds == Spec => []RowsAreTrue
<1>1. IInv => RowsAreTrue
  <2> SUFFICES ASSUME IInv PROVE RowsAreTrue
    OBVIOUS
  <2>1. job \in Job /\ job.rows \in Seq(Row)
    BY DEF IInv, RowsAtWork, Job
  <2>2. ASSUME ~AtWork, NEW i \in DOMAIN Outcome
        PROVE  /\ Outcome[i].status \in {"listed", "cancelled", "failed", "skipped"}
                    \/ ~Over
               /\ Outcome[i].status \in {"queued", "skipped"} => ~Outcome[i].sent
               /\ Outcome[i].status \in {"listed", "cancelled"} =>
                    Outcome[i].sent /\ ~Outcome[i].unsure
    <3>1. i \in DOMAIN job.rows /\ job.rows[i] \in Row /\ i > 0
      BY <2>1 DEF Outcome
    <3>2. job.rows[i].status # "running"
      BY <2>2, <3>1 DEF IInv, RowsAtWork, AtWork
    <3>3. CASE i \in Queued
      <4>1. /\ Outcome[i].status = "skipped"
            /\ Outcome[i].sent = job.rows[i].sent /\ Outcome[i].unsure = job.rows[i].unsure
        BY <3>1, <3>3 DEF Outcome, Row
      <4>2. ~job.rows[i].sent
        BY <3>1, <3>3 DEF Queued, IInv, RowsInOrder, Fresh
      <4> QED
        BY <4>1, <4>2
    <3>4. CASE i \notin Queued
      <4>1. Outcome[i] = job.rows[i]
        BY <3>1, <3>4 DEF Outcome
      <4>2. job.rows[i].status \in {"listed", "cancelled", "failed", "skipped"}
        BY <3>1, <3>2, <3>4 DEF Queued, Row
      <4>3. /\ job.rows[i].status = "skipped" => ~job.rows[i].sent
            /\ job.rows[i].status \in {"listed", "cancelled"} =>
                  job.rows[i].sent /\ ~job.rows[i].unsure
        BY <3>1 DEF IInv, RowsInOrder
      <4> QED
        BY <4>1, <4>2, <4>3
    <3> QED
      BY <3>3, <3>4
  <2>3. ASSUME NEW i \in DOMAIN job.rows, NEW j \in DOMAIN job.rows,
               i < j, job.rows[i].unsure
        PROVE  ~job.rows[j].sent
    BY <2>3 DEF IInv, RowsInOrder, Fresh
  <2> QED
    BY <2>2, <2>3 DEF RowsAreTrue
<1> QED
  BY <1>1, Invariance, PTL

\* One copy always stays, whatever was sent, lost, cancelled or is not shown yet, as long
\* as no restart forgets a sale that Steam has not decided.
THEOREM OneCopyStaysHolds == ~MayForget => (Spec => []OneCopyStays)
<1> SUFFICES ASSUME ~MayForget PROVE Spec => []OneCopyStays
  OBVIOUS
<1>1. IInv => OneCopyStays
  BY DEF IInv, Remembered
<1> QED
  BY <1>1, Invariance, PTL

\* Only the request that goes out asks Steam for anything.
LEMMA SendAsks ==
    ASSUME IInv, [Next]_vars, Posts
    PROVE  Send /\ Current(T)
<1>1. \A a \in Assets : steam.wire[a] \in Nat
  BY SteamFacts
<1>2. ~UNCHANGED steam
  <2> SUFFICES ASSUME UNCHANGED steam PROVE FALSE
    OBVIOUS
  <2>1. \A a \in Assets : steam'.wire[a] = steam.wire[a]
    OBVIOUS
  <2>2. steam'.removing \ steam.removing = {}
    OBVIOUS
  <2> QED
    BY <1>1, <2>1, <2>2 DEF Posts
<1>3. ~Requests
  BY <1>2 DEF Requests, RequestPreview, Confirm, RequestSave, ConfirmBatch, Expire,
     StopBatch, StopAccount, Refresh
<1>4. ~RunBatch /\ ~Restart /\ ~UNCHANGED vars
  BY <1>2 DEF RunBatch, NextRow, FinishBatch, Restart, vars
<1>5. Work => Send
  BY <1>2 DEF Work, Preview, Save, Review, Turn, AnswerLost, Rejected, Accepted, Verify
<1>6. ~Decide
  <2> SUFFICES ASSUME Decide PROVE FALSE
    OBVIOUS
  <2>1. PICK a \in Assets : DecideSale(a) \/ DecideCancellation(a) \/ LeavesInventory(a)
                            \/ Sold(a)
    BY DEF Decide
  <2>2. /\ steam \in Steam /\ steam.wire \in [Assets -> Amounts]
        /\ Put(steam.wire, a, 0)[a] = 0
        /\ \A b \in Assets : b # a => Put(steam.wire, a, 0)[b] = steam.wire[b]
    BY DEF IInv, SteamTrue, Steam, Put
  <2>3. steam'.wire = steam.wire \/ steam'.wire = Put(steam.wire, a, 0)
    BY <2>1, <2>2 DEF DecideSale, DecideCancellation, LeavesInventory, Sold, Steam
  <2>4. steam'.removing = steam.removing \/ steam'.removing = steam.removing \ {a}
    BY <2>1, <2>2 DEF DecideSale, DecideCancellation, LeavesInventory, Sold, Steam
  <2>5. \A b \in Assets : ~(steam'.wire[b] > steam.wire[b])
    <3> TAKE b \in Assets
    <3>1. steam'.wire[b] = steam.wire[b] \/ steam'.wire[b] = 0
      BY <2>2, <2>3
    <3> QED
      BY <1>1, <3>1
  <2> QED
    BY <2>4, <2>5 DEF Posts
<1>7. Send
  BY <1>3, <1>4, <1>5, <1>6 DEF Next
<1>8. Current(T)
  BY <1>2, <1>7 DEF Send
<1> QED
  BY <1>7, <1>8

\* Nothing is sent after a stop, nor under rules that were not reviewed.
LEMMA StepAsReviewed ==
    ASSUME IInv, [Next]_vars
    PROVE  /\ Posts => ~quiet
           /\ \A a \in Assets : steam'.wire[a] > steam.wire[a] => T.rules = rules
           /\ job.active => rules' = rules
<1>1. Posts => /\ tasks # <<>> /\ T.op \in Works /\ T.at = "session" /\ Send /\ Current(T)
               /\ T = tasks[1] /\ 1 \in DOMAIN tasks
  BY SendAsks, TaskFacts DEF Send, At
<1>2. Posts => ~quiet
  <2> HAVE Posts
  <2>1. CASE T.row > 0
    <3>1. job.active /\ ~job.stop
      BY <1>1, <2>1, RowFacts DEF Current
    <3> QED
      BY <3>1 DEF IInv, QuietTrue
  <2>2. CASE ~(T.row > 0)
    <3>1. T.live /\ T.op # "save"
      BY <1>1, <2>2 DEF Current, Works
    <3> QED
      BY <1>1, <3>1 DEF IInv, QuietTrue
  <2> QED
    BY <2>1, <2>2
<1>3. ASSUME NEW a \in Assets, steam'.wire[a] > steam.wire[a] PROVE T.rules = rules
  <2>1. Posts
    BY <1>3 DEF Posts
  <2>2. CASE T.op = "sell"
    BY <1>1, <2>1, <2>2 DEF IInv, RulesTrue, At
  <2>3. CASE T.op = "cancel"
    <3>1. steam' = [steam EXCEPT !.removing = steam.removing \cup {T.asset}]
      BY <1>1, <2>1, <2>3 DEF Send
    <3>2. steam'.wire = steam.wire
      BY <3>1 DEF IInv, SteamTrue, Steam
    <3>3. steam.wire[a] \in Nat
      BY SteamFacts
    <3> QED
      BY <1>3, <3>2, <3>3
  <2> QED
    BY <1>1, <2>1, <2>2, <2>3 DEF Works
<1>4. ASSUME job.active PROVE rules' = rules
  <2>1. CASE UNCHANGED rules
    BY <2>1
  <2>2. CASE Save
    BY <1>4, <2>2 DEF Save, Idle
  <2>3. UNCHANGED rules \/ Save
    BY DEF Next, Requests, Work, RunBatch, Decide, RequestPreview, Confirm, RequestSave,
       ConfirmBatch, Expire, StopBatch, StopAccount, Refresh, Preview, Review, Turn, Send,
       AnswerLost, Rejected, Accepted, Verify, NextRow, FinishBatch, DecideSale,
       DecideCancellation, LeavesInventory, Sold, Outside, Restart, vars
  <2> QED
    BY <2>1, <2>2, <2>3
<1> QED
  BY <1>2, <1>3, <1>4

\* No asset is offered while an earlier offer of it may still succeed.
LEMMA StepSellsOnce ==
    ASSUME ~MayForget, IInv, [Next]_vars
    PROVE  \A a \in Assets : steam'.wire[a] > steam.wire[a] =>
              steam.wire[a] = 0 /\ steam.moving[a] = 0
<1> SUFFICES ASSUME NEW a \in Assets, steam'.wire[a] > steam.wire[a]
             PROVE  steam.wire[a] = 0 /\ steam.moving[a] = 0
  OBVIOUS
<1>1. Send /\ Current(T)
  BY SendAsks DEF Posts
<1>2. tasks # <<>> /\ T.op \in Works /\ T.at = "session"
  BY <1>1 DEF Send, At
<1>3. /\ steam \in Steam /\ steam.wire[a] \in Nat /\ steam.moving[a] \in Nat
      /\ steam.wire \in [Assets -> Amounts]
  BY SteamFacts DEF IInv, SteamTrue, Steam
<1>4. CASE T.op = "cancel"
  <2>1. steam' = [steam EXCEPT !.removing = steam.removing \cup {T.asset}]
    BY <1>1, <1>4 DEF Send
  <2>2. steam'.wire = steam.wire
    BY <1>3, <2>1 DEF Steam
  <2> QED
    BY <1>3, <2>2
<1>5. CASE T.op = "sell"
  <2>1. steam'.wire = Put(steam.wire, T.asset, steam.wire[T.asset] + T.quantity)
    BY <1>1, <1>3, <1>5 DEF Send, Steam
  <2>2. T.asset = a
    BY <1>3, <2>1 DEF Put
  <2>3. Taken(a) = 0
    BY <1>2, <1>5, <2>2 DEF IInv, Remembered, Relied
  <2> QED
    BY <1>3, <2>3 DEF Taken
<1> QED
  BY <1>2, <1>4, <1>5 DEF Works

\* Nothing is sent after the account was stopped until something is previewed anew, and
\* a sale is sent under the rules it was reviewed under, which stay while a batch runs.
THEOREM SoldAsReviewedHolds == Spec => SoldAsReviewed
<1> DEFINE A == /\ Posts => ~quiet
                /\ \A a \in Assets : steam'.wire[a] > steam.wire[a] => T.rules = rules
                /\ job.active => rules' = rules
<1>1. IInv /\ [Next]_vars => A
  BY StepAsReviewed
<1> HIDE DEF A
<1>2. Spec => [][A]_vars
  BY <1>1, Invariance, PTL DEF Spec
<1> QED
  BY <1>2 DEF SoldAsReviewed, A

\* The same, and each asset is offered only when no earlier offer of it can succeed, as
\* long as no restart forgets a sale that Steam has not decided.
THEOREM SoldOnceAsReviewedHolds == ~MayForget => (Spec => SoldOnceAsReviewed)
<1> SUFFICES ASSUME ~MayForget PROVE Spec => SoldOnceAsReviewed
  OBVIOUS
<1> DEFINE A == \A a \in Assets : steam'.wire[a] > steam.wire[a] =>
                    steam.wire[a] = 0 /\ steam.moving[a] = 0
<1>1. IInv /\ [Next]_vars => A
  BY StepSellsOnce
<1> HIDE DEF A
<1>2. Spec => [][A]_vars
  BY <1>1, Invariance, PTL DEF Spec
<1>3. Spec => NeverSoldTwice
  BY <1>2 DEF NeverSoldTwice, A
<1> QED
  BY <1>3, SoldAsReviewedHolds DEF SoldOnceAsReviewed

==============================================================================
