------------------------- MODULE InventoryPanelProofs -------------------------
(***************************************************************************)
(* Proofs about the two hooks of InventoryPanel.tsx, the page that follows *)
(* a batch (BatchPage) and the prices of the cards (InventoryPrices), and  *)
(* about the money that both are about (MarketMoney).                      *)
(*                                                                         *)
(* BatchPage, for any batches: the state has its types, one batch runs at  *)
(* a time, and the page is true to the server's batches (PageIsTrue).      *)
(* What every answer under way says of a batch was true of it once: its    *)
(* rows, its end and its stop are no further than the server's now. That   *)
(* stays so whatever the server does after the answer (Grows), and merging *)
(* two such pictures of a batch gives such a picture. Nothing is known of  *)
(* their times and their order, which is why the page never trusts them    *)
(* for the end of a batch. The rest of the invariant says which answers    *)
(* are current: none while a confirmation is under way, and after it only  *)
(* reads that found the batch it started.                                  *)
(*                                                                         *)
(* MarketMoney, for any wallets, fees, prices and rules: the search by     *)
(* halves finds the highest share that fits, because fees grow with the    *)
(* share and a step never loses it; its recursive function has one         *)
(* solution. What is converted between units is exact, so the limits hold  *)
(* in the units the user wrote them in.                                    *)
(*                                                                         *)
(* InventoryPrices, the last part, for any cards, reads and changes:       *)
(* what is shown has one basis, no wallet of an earlier sign-in is used,   *)
(* and an expired inventory is refreshed once.                             *)
(***************************************************************************)
EXTENDS BatchPage, MarketMoney, FiniteSetTheorems, SequenceTheorems, WellFoundedInduction, TLAPS

(***************************************************************************)
(* The inductive invariant                                                 *)
(***************************************************************************)

Row == {"queued", "running"} \cup Finished

\* The first picture of a batch may be older than the second.
Before(v, w) ==
    /\ v.id = w.id
    /\ \A r \in Rows(w.id) :
          /\ Progress(v.rows[r]) <= Progress(w.rows[r])
          /\ v.rows[r] \in Finished => v.rows[r] = w.rows[r]
    /\ v.status \in Over =>
          v.status = w.status /\ \A r \in Rows(w.id) : v.rows[r] \in Finished
    /\ v.stop => w.stop

HappenedIn(j, v)  == v.id \in 1..Len(j) /\ Before(v, j[v.id].value)
Tells(j, reply)   == reply.is = "job" => HappenedIn(j, reply.job)

\* A batch that is over has no open rows, and one that waits has a row to go on with.
Settled(v) ==
    /\ v.status \in Over => \A r \in Rows(v.id) : v.rows[r] \in Finished
    /\ v.status = "waiting" => Queued(v) # {}

\* Only the batch that was confirmed last can run.
Orderly(j) ==
    /\ j \in Seq(Jobs) /\ Len(j) <= MaxJobs
    /\ \A i \in 1..Len(j) :
          /\ j[i].value.id = i /\ Settled(j[i].value)
          /\ j[i].known /\ j[i].value.status \in Running => i = Len(j)

\* What the server does to the batches: they go on, and are forgotten, for ever.
Grows(i, j) ==
    /\ Len(i) <= Len(j)
    /\ \A k \in 1..Len(i) : Before(i[k].value, j[k].value) /\ (j[k].known => i[k].known)

Shaped ==
    /\ token \in BOOLEAN
    /\ page \in [preview : BOOLEAN, job : Values \cup {None}, needs : BOOLEAN]
    /\ act \in [kind : {"none", "preview", "confirm", "stop"}, job : 0..MaxJobs, reply : Replies]
    /\ reads \subseteq Replies
    /\ poll \in Replies \cup {None}
    /\ history \in [sent : BOOLEAN, own : BOOLEAN]

AnswersHappened ==
    /\ page.job # None => HappenedIn(jobs, page.job)
    /\ Tells(jobs, act.reply)
    /\ \A reply \in reads : Tells(jobs, reply)
    /\ poll # None => Tells(jobs, poll)

Polled ==
    poll # None =>
        /\ IsRunning(page.job) /\ poll.is \in {"none", "job", "gone"}
        /\ poll.is = "gone" => ~jobs[page.job.id].known

Requested ==
    /\ act.kind = "none" => act = NoRequest
    /\ act.kind = "stop" => act.job \in 1..Len(jobs)

Confirming ==
    act.kind = "confirm" =>
        /\ reads = {} /\ poll = None /\ ~IsRunning(page.job)
        /\ act.reply.is = "job" /\ page.job # None => page.job.id < act.reply.job.id

SentIsPending == history.sent => act.kind = "confirm"

OwnRuns ==
    history.own =>
        /\ Active # {}
        /\ act.kind = "confirm" => act.reply.is = "job" /\ act.reply.job.id \in Active
        /\ \A reply \in reads : reply # NoReply => reply.is = "job" /\ reply.job.id \in Active

IInv ==
    /\ Orderly(jobs) /\ Shaped /\ AnswersHappened
    /\ Polled /\ Requested /\ Confirming
    /\ SentIsPending /\ OwnRuns /\ OwnIsFound

(***************************************************************************)
(* Batches                                                                 *)
(***************************************************************************)

LEMMA SizesAreNumbers ==
  /\ MaxJobs \in Nat \ {0}
  /\ \A i \in 1..MaxJobs : Sizes[i] \in Nat \ {0} /\ Times[i] \in Nat
BY ConstantsAssumption DEF MaxJobs

LEMMA ValueFields ==
  ASSUME NEW v \in Values
  PROVE  /\ v.id \in 1..MaxJobs
         /\ v.rows \in [Rows(v.id) -> Row]
         /\ v.status \in Running \cup Over
         /\ v.stop \in BOOLEAN
         /\ v.updated \in 0..Times[v.id]
         /\ v = [id |-> v.id, rows |-> v.rows, status |-> v.status, stop |-> v.stop,
                 updated |-> v.updated]
BY DEF Values, Row

LEMMA ValueIntro ==
  ASSUME NEW i \in 1..MaxJobs, NEW rows \in [Rows(i) -> Row],
         NEW status \in Running \cup Over, NEW stop \in BOOLEAN, NEW updated \in 0..Times[i]
  PROVE  [id |-> i, rows |-> rows, status |-> status, stop |-> stop, updated |-> updated]
            \in Values
BY DEF Values, Row

\* One field of a batch changes.
LEMMA ValueUpdates ==
  ASSUME NEW v \in Values
  PROVE  /\ \A rows \in [Rows(v.id) -> Row] :
              [v EXCEPT !.rows = rows] = [id |-> v.id, rows |-> rows, status |-> v.status,
                                          stop |-> v.stop, updated |-> v.updated]
         /\ \A status : [v EXCEPT !.status = status]
                          = [id |-> v.id, rows |-> v.rows, status |-> status,
                             stop |-> v.stop, updated |-> v.updated]
         /\ \A stop : [v EXCEPT !.stop = stop]
                          = [id |-> v.id, rows |-> v.rows, status |-> v.status,
                             stop |-> stop, updated |-> v.updated]
         /\ \A u : [v EXCEPT !.updated = u]
                          = [id |-> v.id, rows |-> v.rows, status |-> v.status,
                             stop |-> v.stop, updated |-> u]
BY DEF Values

\* A finite set of numbers that is not empty has a least one.
LEMMA LeastIsThere ==
  ASSUME NEW S, S \subseteq Int, IsFiniteSet(S), S # {}
  PROVE  Min(S) \in S /\ \A x \in S : Min(S) <= x
<1> DEFINE Below(x) == {y \in S : y < x}
           T == {Below(x) : x \in S}
<1>1. IsWellFoundedOn(StrictSubsetOrdering(S), SUBSET S)
  BY FS_StrictSubsetOrderingWellFounded, FS_FiniteSubsetsOfFinite
<1>2. T \subseteq SUBSET S /\ T # {}
  <2>1. T \subseteq SUBSET S
    OBVIOUS
  <2>2. PICK x : x \in S
    OBVIOUS
  <2>3. Below(x) \in T
    BY <2>2
  <2> QED
    BY <2>1, <2>3
<1>3. PICK A \in T : \A B \in T : <<B, A>> \notin StrictSubsetOrdering(S)
  <2> HIDE DEF T
  <2> QED
    BY <1>1, <1>2, WFMin
<1>4. PICK x \in S : A = Below(x)
  BY <1>3
<1>5. ASSUME NEW y \in S, y < x PROVE FALSE
  <2>1. ASSUME NEW z \in S, z < y PROVE z < x
    <3>1. x \in Int /\ y \in Int /\ z \in Int
      OBVIOUS
    <3> QED
      BY <1>5, <2>1, <3>1
  <2>2. y \in Below(x) /\ y \notin Below(y)
    BY <1>5
  <2>3. <<Below(y), Below(x)>> \in StrictSubsetOrdering(S)
    BY <2>1, <2>2 DEF StrictSubsetOrdering
  <2> QED
    BY <1>3, <1>4, <2>3
<1>6. \A y \in S : x <= y
  BY <1>5
<1> QED
  BY <1>4, <1>6 DEF Min

LEMMA Chosen ==
  ASSUME NEW a \in Int, NEW b \in Int
  PROVE  /\ Min({a, b}) = IF a <= b THEN a ELSE b
         /\ Max({a, b}) = IF a >= b THEN a ELSE b
BY DEF Min, Max

LEMMA NextRowIsQueued ==
  ASSUME NEW v \in Values, Queued(v) # {}
  PROVE  Min(Queued(v)) \in Rows(v.id) /\ v.rows[Min(Queued(v))] = "queued"
<1>1. Queued(v) \subseteq Rows(v.id) /\ Rows(v.id) \subseteq Int
  BY ValueFields, SizesAreNumbers DEF Queued, Rows
<1>2. IsFiniteSet(Rows(v.id))
  <2>1. Sizes[v.id] \in Int
    BY ValueFields, SizesAreNumbers
  <2> QED
    BY <2>1, FS_Interval DEF Rows
<1>3. IsFiniteSet(Queued(v))
  BY <1>1, <1>2, FS_Subset
<1>4. Min(Queued(v)) \in Queued(v)
  BY <1>1, <1>3, LeastIsThere
<1> QED
  BY <1>1, <1>4 DEF Queued

LEMMA ProgressIsNumber == \A row \in Row : Progress(row) \in 0..2
BY DEF Progress

LEMMA BeforeItself ==
  ASSUME NEW v \in Values, Settled(v)
  PROVE  Before(v, v)
<1>1. \A r \in Rows(v.id) : v.rows[r] \in Row
  BY ValueFields
<1> QED
  BY <1>1, ProgressIsNumber DEF Before, Settled

LEMMA BeforeIsTransitive ==
  ASSUME NEW u \in Values, NEW v \in Values, NEW w \in Values, Before(u, v), Before(v, w)
  PROVE  Before(u, w)
<1>1. u.id = v.id /\ v.id = w.id
  BY DEF Before
<1>2. ASSUME NEW r \in Rows(w.id)
      PROVE  /\ Progress(u.rows[r]) <= Progress(w.rows[r])
             /\ u.rows[r] \in Finished => u.rows[r] = w.rows[r]
  <2>1. u.rows[r] \in Row /\ v.rows[r] \in Row /\ w.rows[r] \in Row
    BY <1>1, <1>2, ValueFields
  <2>2. Progress(u.rows[r]) <= Progress(v.rows[r]) /\ Progress(v.rows[r]) <= Progress(w.rows[r])
    BY <1>1, <1>2 DEF Before
  <2>3. /\ Progress(u.rows[r]) \in Int /\ Progress(v.rows[r]) \in Int
        /\ Progress(w.rows[r]) \in Int
    BY <2>1, ProgressIsNumber
  <2>4. u.rows[r] \in Finished => u.rows[r] = w.rows[r]
    BY <1>1, <1>2 DEF Before
  <2> QED
    BY <2>2, <2>3, <2>4
<1>3. u.status \in Over => u.status = w.status /\ \A r \in Rows(w.id) : u.rows[r] \in Finished
  BY <1>1 DEF Before
<1>4. u.stop => w.stop
  BY DEF Before
<1> QED
  BY <1>1, <1>2, <1>3, <1>4 DEF Before

\* A later picture of a batch, which is one that the server may come to.
GoesOn(v, w) == w \in Values /\ Settled(w) /\ Before(v, w)

LEMMA FinishEnds ==
  ASSUME NEW v \in Values, v.status \in Running
  PROVE  GoesOn(v, Finish(v)) /\ Finish(v).status \in Over
<1> DEFINE rows == [r \in Rows(v.id) |-> IF v.rows[r] \in Finished THEN v.rows[r] ELSE "skipped"]
           status == IF v.stop THEN "stopped" ELSE "completed"
           w == [v EXCEPT !.rows = rows, !.status = status]
<1>1. v.rows \in [Rows(v.id) -> Row] /\ v.status \notin Over
  BY ValueFields DEF Running, Over
<1>2. Finish(v) = w
  BY <1>1 DEF Finish
<1>3. rows \in [Rows(v.id) -> Row] /\ status \in Over
  BY <1>1 DEF Row, Finished, Over
<1>4. \A r \in Rows(v.id) : /\ rows[r] \in Finished
                            /\ Progress(v.rows[r]) <= Progress(rows[r])
                            /\ v.rows[r] \in Finished => v.rows[r] = rows[r]
  BY <1>1 DEF Row, Finished, Progress
<1> HIDE DEF rows, status
<1>5. /\ w \in Values
      /\ w.id = v.id /\ w.rows = rows /\ w.status = status /\ w.stop = v.stop
  <2> DEFINE u == [v EXCEPT !.rows = rows]
  <2>1. u \in Values
    BY <1>3 DEF Values, Row
  <2>2. w = [u EXCEPT !.status = status]
    BY DEF Values
  <2> HIDE DEF u
  <2>3. [u EXCEPT !.status = status] \in Values
    BY <1>3, <2>1 DEF Values
  <2>4. w.id = v.id /\ w.rows = rows /\ w.status = status /\ w.stop = v.stop
    BY DEF Values
  <2> HIDE DEF w
  <2> QED
    BY <2>2, <2>3, <2>4
<1> HIDE DEF w
<1>6. Settled(w)
  BY <1>3, <1>4, <1>5 DEF Settled, Over
<1>7. Before(v, w)
  BY <1>1, <1>4, <1>5 DEF Before
<1> QED
  BY <1>2, <1>3, <1>5, <1>6, <1>7 DEF GoesOn

LEMMA RowBegins ==
  ASSUME NEW v \in Values, v.status \in Running, Queued(v) # {}
  PROVE  GoesOn(v, BeginRow(v)) /\ BeginRow(v).status = "running"
<1> DEFINE next == Min(Queued(v))
           rows == [v.rows EXCEPT ![next] = "running"]
           w == [v EXCEPT !.rows[next] = "running", !.status = "running"]
<1>1. v.rows \in [Rows(v.id) -> Row] /\ v.status \notin Over
  BY ValueFields DEF Running, Over
<1>2. next \in Rows(v.id) /\ v.rows[next] = "queued"
  BY NextRowIsQueued
<1>3. BeginRow(v) = w
  BY DEF BeginRow
<1> HIDE DEF next
<1>4. /\ w \in Values
      /\ w.id = v.id /\ w.rows = rows /\ w.status = "running" /\ w.stop = v.stop
  <2> DEFINE u == [v EXCEPT !.rows[next] = "running"]
  <2>1. u \in Values
    BY DEF Values, Row
  <2>2. w = [u EXCEPT !.status = "running"]
    BY DEF Values
  <2> HIDE DEF u
  <2>3. [u EXCEPT !.status = "running"] \in Values
    BY <2>1 DEF Values, Running
  <2>4. w.id = v.id /\ w.rows = rows /\ w.status = "running" /\ w.stop = v.stop
    BY DEF Values
  <2> HIDE DEF w
  <2> QED
    BY <2>2, <2>3, <2>4
<1> HIDE DEF w
<1>5. \A r \in Rows(v.id) : /\ Progress(v.rows[r]) <= Progress(rows[r])
                            /\ v.rows[r] \in Finished => v.rows[r] = rows[r]
  BY <1>1, <1>2 DEF Row, Finished, Progress
<1> HIDE DEF rows
<1>6. Settled(w)
  BY <1>4 DEF Settled, Over
<1>7. Before(v, w)
  BY <1>1, <1>4, <1>5 DEF Before
<1> QED
  BY <1>3, <1>4, <1>6, <1>7 DEF GoesOn

\* A row that ran has an outcome, and the batch may be asked to stop.
LEMMA RowsEnd ==
  ASSUME NEW v \in Values, v.status \in Running, NEW r, v.rows[r] = "running",
         NEW w \in Values, w.id = v.id, w.status = v.status, v.stop => w.stop,
         \A s \in Rows(v.id) : s # r => w.rows[s] = v.rows[s],
         w.rows[r] \in Finished
  PROVE  Before(v, w)
<1>1. v.rows \in [Rows(v.id) -> Row] /\ v.status \notin Over
  BY ValueFields DEF Running, Over
<1>2. ASSUME NEW s \in Rows(v.id)
      PROVE  /\ Progress(v.rows[s]) <= Progress(w.rows[s])
             /\ v.rows[s] \in Finished => v.rows[s] = w.rows[s]
  <2>1. v.rows[s] \in Row
    BY <1>1
  <2>2. CASE s = r
    BY <2>2 DEF Finished, Progress
  <2>3. CASE s # r
    BY <2>1, <2>3, ProgressIsNumber
  <2> QED
    BY <2>2, <2>3
<1> QED
  BY <1>1, <1>2 DEF Before

\* What a change of the time leaves alone.
LEMMA StampingIsIdle ==
  ASSUME NEW v \in Values, NEW w \in Stamped(v)
  PROVE  /\ w \in Values
         /\ w.id = v.id /\ w.rows = v.rows /\ w.status = v.status /\ w.stop = v.stop
<1>1. v.updated \in 0..Times[v.id] /\ Times[v.id] \in Nat
  BY ValueFields, SizesAreNumbers
<1>2. PICK u \in v.updated..Min({v.updated + 1, Times[v.id]}) : w = [v EXCEPT !.updated = u]
  BY DEF Stamped
<1>3. Min({v.updated + 1, Times[v.id]}) \in Int /\ Min({v.updated + 1, Times[v.id]}) <= Times[v.id]
  <2>1. v.updated + 1 \in Int /\ Times[v.id] \in Int
    BY <1>1
  <2>2. Min({v.updated + 1, Times[v.id]})
          = IF v.updated + 1 <= Times[v.id] THEN v.updated + 1 ELSE Times[v.id]
    BY <2>1, Chosen
  <2> QED
    BY <2>1, <2>2
<1>4. u \in 0..Times[v.id]
  BY <1>1, <1>3
<1>5. [v EXCEPT !.updated = u] \in Values
  BY <1>4 DEF Values
<1>6. LET x == [v EXCEPT !.updated = u] IN
      x.id = v.id /\ x.rows = v.rows /\ x.status = v.status /\ x.stop = v.stop
  BY DEF Values
<1> QED
  BY <1>2, <1>5, <1>6

LEMMA SamePictures ==
  ASSUME NEW u, NEW v, NEW w,
         w.id = v.id, w.rows = v.rows, w.status = v.status, w.stop = v.stop
  PROVE  /\ Before(u, v) => Before(u, w)
         /\ Settled(v) => Settled(w)
<1>1. Before(u, v) => Before(u, w)
  BY DEF Before
<1>2. Queued(v) = Queued(w)
  BY DEF Queued
<1> QED
  BY <1>1, <1>2 DEF Settled

LEMMA StampedGoesOn ==
  ASSUME NEW u \in Values, NEW v, GoesOn(u, v), NEW w \in Stamped(v)
  PROVE  GoesOn(u, w) /\ w.status = v.status
<1>1. /\ w \in Values
      /\ w.id = v.id /\ w.rows = v.rows /\ w.status = v.status /\ w.stop = v.stop
  BY StampingIsIdle DEF GoesOn
<1> QED
  BY <1>1, SamePictures DEF GoesOn

LEMMA GoesOnFrom ==
  ASSUME NEW u \in Values, NEW v \in Values, NEW w, Before(u, v), GoesOn(v, w)
  PROVE  GoesOn(u, w)
BY BeforeIsTransitive DEF GoesOn

\* The loop goes on from the end of a row.
LEMMA LoopGoesOn ==
  ASSUME NEW v \in Values, v.status \in Running, NEW submitted \in BOOLEAN
  PROVE  GoesOn(v, GoOn(v, submitted))
<1>1. CASE v.stop \/ Queued(v) = {}
  BY <1>1, FinishEnds DEF GoOn
<1>2. CASE ~(v.stop \/ Queued(v) = {}) /\ submitted
  <2> DEFINE w == [v EXCEPT !.status = "waiting"]
  <2>1. GoOn(v, submitted) = w
    BY <1>2 DEF GoOn
  <2>2. w \in Values
    BY DEF Values, Running
  <2>3. w.id = v.id /\ w.rows = v.rows /\ w.status = "waiting" /\ w.stop = v.stop
    BY DEF Values
  <2> HIDE DEF w
  <2>4. Settled(w)
    <3>1. Queued(w) = Queued(v)
      BY <2>3 DEF Queued
    <3> QED
      BY <1>2, <2>3, <3>1 DEF Settled, Over
  <2>5. Before(v, w)
    <3>1. \A r \in Rows(v.id) : v.rows[r] \in Row
      BY ValueFields
    <3>2. v.status \notin Over
      BY DEF Running, Over
    <3> QED
      BY <2>3, <3>1, <3>2, ProgressIsNumber DEF Before
  <2> QED
    BY <2>1, <2>2, <2>4, <2>5 DEF GoesOn
<1>3. CASE ~(v.stop \/ Queued(v) = {}) /\ ~submitted
  BY <1>3, RowBegins DEF GoOn
<1> QED
  BY <1>1, <1>2, <1>3

\* A batch may be asked to stop, or its deadline may pass.
LEMMA StopIsLater ==
  ASSUME NEW v \in Values, Settled(v), NEW stop \in BOOLEAN, v.stop => stop
  PROVE  LET w == [v EXCEPT !.stop = stop] IN
         GoesOn(v, w) /\ w.status = v.status /\ Queued(w) = Queued(v)
<1> DEFINE w == [v EXCEPT !.stop = stop]
<1>1. w \in Values
  BY DEF Values
<1>2. w.id = v.id /\ w.rows = v.rows /\ w.status = v.status /\ w.stop = stop
  BY DEF Values
<1> HIDE DEF w
<1>3. Queued(w) = Queued(v)
  BY <1>2 DEF Queued
<1>4. Settled(w)
  BY <1>2, <1>3 DEF Settled
<1>5. Before(v, w)
  BY <1>2, BeforeItself DEF Before
<1>6. GoesOn(v, w) /\ w.status = v.status /\ Queued(w) = Queued(v)
  BY <1>1, <1>2, <1>3, <1>4, <1>5 DEF GoesOn
<1> QED
  BY <1>6 DEF w

\* A batch that is started shows its first row running.
LEMMA NewJobIsNew ==
  ASSUME jobs \in Seq(Jobs), Len(jobs) + 1 <= MaxJobs
  PROVE  /\ NewJob \in Jobs /\ NewJob.known
         /\ NewJob.value.id = Len(jobs) + 1 /\ Settled(NewJob.value)
         /\ NewJob.value.status = "running"
<1> DEFINE i == Len(jobs) + 1
           rows == [r \in Rows(i) |-> "queued"]
           v == [id |-> i, rows |-> rows, status |-> "running", stop |-> FALSE, updated |-> 0]
<1>1. i \in 1..MaxJobs /\ Times[i] \in Nat /\ Sizes[i] \in Nat \ {0}
  <2>1. Len(jobs) \in Nat
    BY LenProperties
  <2> QED
    BY <2>1, SizesAreNumbers
<1>2. rows \in [Rows(i) -> Row]
  BY DEF Row
<1>3. v \in Values
  <2>1. 0 \in 0..Times[i] /\ "running" \in Running \cup Over
    BY <1>1 DEF Running
  <2> HIDE DEF rows, i
  <2> QED
    BY <1>1, <1>2, <2>1, ValueIntro
<1>4. Queued(v) # {}
  <2>1. 1 \in Rows(i) /\ rows[1] = "queued"
    BY <1>1 DEF Rows
  <2>2. 1 \in Queued(v)
    BY <2>1 DEF Queued
  <2> QED
    BY <2>2
<1>5. v.status \in Running /\ v.id = i
  BY DEF Running
<1>6. NewJob = [value |-> BeginRow(v), known |-> TRUE]
  BY DEF NewJob
<1> HIDE DEF v, i
<1>7. GoesOn(v, BeginRow(v)) /\ BeginRow(v).status = "running"
  BY <1>3, <1>4, <1>5, RowBegins
<1>8. BeginRow(v).id = i
  BY <1>5, <1>7 DEF GoesOn, Before
<1> QED
  BY <1>6, <1>7, <1>8 DEF Jobs, GoesOn, i

(***************************************************************************)
(* The server                                                              *)
(***************************************************************************)

LEMMA OrderlyJobs ==
  ASSUME NEW j, Orderly(j), NEW i \in 1..Len(j)
  PROVE  /\ j[i].value \in Values /\ j[i].known \in BOOLEAN
         /\ j[i].value.id = i /\ i \in 1..MaxJobs /\ Settled(j[i].value)
         /\ j[i].known /\ j[i].value.status \in Running => i = Len(j)
<1>1. j \in Seq(Jobs) /\ Len(j) \in Nat /\ Len(j) <= MaxJobs
  BY LenProperties DEF Orderly
<1>2. j[i] \in Jobs
  BY <1>1, ElementOfSeq
<1> QED
  BY <1>1, <1>2, SizesAreNumbers DEF Orderly, Jobs

LEMMA LenIsNumber ==
  ASSUME NEW j, Orderly(j)
  PROVE  Len(j) \in Nat /\ DOMAIN j = 1..Len(j)
BY LenProperties DEF Orderly

LEMMA ActiveIsLast ==
  ASSUME Orderly(jobs)
  PROVE  /\ Active \subseteq 1..Len(jobs)
         /\ \A i \in Active : i = Len(jobs) /\ jobs[i].known
                              /\ jobs[i].value.status \in Running
<1>1. DOMAIN jobs = 1..Len(jobs)
  BY LenIsNumber
<1> QED
  BY <1>1, OrderlyJobs DEF Active

LEMMA GrowsItself ==
  ASSUME NEW j, Orderly(j)
  PROVE  Grows(j, j)
<1>1. ASSUME NEW i \in 1..Len(j) PROVE Before(j[i].value, j[i].value)
  <2>1. j[i].value \in Values /\ Settled(j[i].value)
    BY OrderlyJobs
  <2> QED
    BY <2>1, BeforeItself
<1> QED
  BY <1>1, LenIsNumber DEF Grows

LEMMA ReplyFields ==
  ASSUME NEW reply \in Replies
  PROVE  /\ reply.is \in Refusals \cup {"job"}
         /\ reply.is = "job" => reply.job \in Values
BY DEF Replies, Refusals

\* What has happened stays so.
LEMMA HappenedGrows ==
  ASSUME NEW i, NEW j, Orderly(i), Orderly(j), Grows(i, j),
         NEW v \in Values, HappenedIn(i, v)
  PROVE  HappenedIn(j, v)
<1>1. v.id \in 1..Len(i) /\ Before(v, i[v.id].value)
  BY DEF HappenedIn
<1>2. v.id \in 1..Len(j)
  BY <1>1, LenIsNumber DEF Grows
<1>3. i[v.id].value \in Values /\ j[v.id].value \in Values
  BY <1>1, <1>2, OrderlyJobs
<1>4. Before(i[v.id].value, j[v.id].value)
  BY <1>1 DEF Grows
<1>5. Before(v, j[v.id].value)
  BY <1>1, <1>3, <1>4, BeforeIsTransitive
<1> QED
  BY <1>2, <1>5 DEF HappenedIn

LEMMA TellsGrows ==
  ASSUME NEW i, NEW j, Orderly(i), Orderly(j), Grows(i, j),
         NEW reply \in Replies, Tells(i, reply)
  PROVE  Tells(j, reply)
BY ReplyFields, HappenedGrows DEF Tells

\* One batch goes on.
LEMMA OneGoesOn ==
  ASSUME NEW j, Orderly(j), NEW i \in 1..Len(j), NEW w, GoesOn(j[i].value, w),
         j[i].known /\ w.status \in Running => i = Len(j),
         NEW k \in Seq(Jobs), Len(k) = Len(j), k[i].value = w, k[i].known = j[i].known,
         \A l \in 1..Len(j) : l # i => k[l] = j[l]
  PROVE  Orderly(k) /\ Grows(j, k)
<1>1. Len(j) \in Nat /\ Len(j) <= MaxJobs
  BY LenIsNumber DEF Orderly
<1>2. w.id = i /\ Settled(w)
  BY OrderlyJobs DEF GoesOn, Before
<1>3. ASSUME NEW l \in 1..Len(k)
      PROVE  /\ k[l].value.id = l /\ Settled(k[l].value)
             /\ k[l].known /\ k[l].value.status \in Running => l = Len(k)
  <2>1. CASE l = i
    BY <1>2, <2>1
  <2>2. CASE l # i
    <3>0. l \in 1..Len(j)
      OBVIOUS
    <3>1. /\ j[l].value.id = l /\ Settled(j[l].value)
          /\ j[l].known /\ j[l].value.status \in Running => l = Len(j)
      BY <3>0, OrderlyJobs
    <3> QED
      BY <2>2, <3>1
  <2> QED
    BY <2>1, <2>2
<1>4. ASSUME NEW l \in 1..Len(j)
      PROVE  Before(j[l].value, k[l].value) /\ (k[l].known => j[l].known)
  <2>1. CASE l = i
    BY <2>1 DEF GoesOn
  <2>2. CASE l # i
    <3>1. j[l].value \in Values /\ Settled(j[l].value)
      BY OrderlyJobs
    <3> QED
      BY <2>2, <3>1, BeforeItself
  <2> QED
    BY <2>1, <2>2
<1> QED
  BY <1>1, <1>3, <1>4 DEF Orderly, Grows

\* What it is to replace the value of one batch.
LEMMA OneIsReplaced ==
  ASSUME NEW j, Orderly(j), NEW i \in 1..Len(j), NEW w \in Values
  PROVE  LET k == [j EXCEPT ![i].value = w] IN
         /\ k \in Seq(Jobs) /\ Len(k) = Len(j) /\ k[i].value = w /\ k[i].known = j[i].known
         /\ \A l \in 1..Len(j) : l # i => k[l] = j[l]
<1> DEFINE e == [j[i] EXCEPT !.value = w]
           k == [j EXCEPT ![i] = e]
<1>1. j \in Seq(Jobs) /\ Len(j) \in Nat /\ DOMAIN j = 1..Len(j) /\ j[i] \in Jobs
  BY LenIsNumber, ElementOfSeq DEF Orderly
<1>2. [j EXCEPT ![i].value = w] = k
  OBVIOUS
<1>3. e \in Jobs /\ e.value = w /\ e.known = j[i].known
  BY <1>1 DEF Jobs
<1> HIDE DEF e
<1>4. k \in Seq(Jobs) /\ Len(k) = Len(j)
  BY <1>1, <1>3, ExceptSeq
<1>5. k[i] = e /\ \A l \in 1..Len(j) : l # i => k[l] = j[l]
  BY <1>1
<1> QED
  BY <1>2, <1>3, <1>4, <1>5

\* Batches are forgotten.
LEMMA SomeAreForgotten ==
  ASSUME NEW j, Orderly(j), NEW k \in Seq(Jobs), Len(k) = Len(j),
         \A i \in 1..Len(j) : k[i].value = j[i].value /\ (k[i].known => j[i].known)
  PROVE  Orderly(k) /\ Grows(j, k)
<1>1. Orderly(k)
  BY OrderlyJobs DEF Orderly
<1>2. Grows(j, k)
  BY LenIsNumber, GrowsItself DEF Grows
<1> QED
  BY <1>1, <1>2

\* What the server does by itself, or for somebody else.
ServerMoves ==
    /\ Orderly(jobs') /\ Grows(jobs, jobs') /\ token' \in BOOLEAN
    /\ history' \in [sent : BOOLEAN, own : BOOLEAN] /\ history'.sent = history.sent
    /\ history'.own => history.own /\ Active' = Active
    /\ UNCHANGED <<page, act, reads, poll>>

LEMMA ChangesMove ==
  ASSUME IInv, NEW i \in Active, NEW v, GoesOn(jobs[i].value, v), Changes(i, v)
  PROVE  ServerMoves
<1>1. Orderly(jobs) /\ history \in [sent : BOOLEAN, own : BOOLEAN] /\ token \in BOOLEAN
  BY DEF IInv, Shaped
<1>2. i \in 1..Len(jobs) /\ i = Len(jobs) /\ jobs[i].known
  BY <1>1, ActiveIsLast
<1>3. PICK w \in Stamped(v) : jobs' = [jobs EXCEPT ![i].value = w]
  BY DEF Changes
<1>4. jobs[i].value \in Values
  BY <1>1, <1>2, OrderlyJobs
<1>5. GoesOn(jobs[i].value, w) /\ w.status = v.status
  BY <1>3, <1>4, StampedGoesOn
<1>6. /\ Orderly(jobs') /\ Grows(jobs, jobs') /\ Len(jobs') = Len(jobs)
      /\ jobs'[i].value = w /\ jobs'[i].known = jobs[i].known
      /\ \A l \in 1..Len(jobs) : l # i => jobs'[l] = jobs[l]
  <2>1. jobs' \in Seq(Jobs) /\ Len(jobs') = Len(jobs) /\ jobs'[i].value = w
        /\ jobs'[i].known = jobs[i].known /\ \A l \in 1..Len(jobs) : l # i => jobs'[l] = jobs[l]
    <3> DEFINE k == [jobs EXCEPT ![i].value = w]
    <3>0. w \in Values
      BY <1>5 DEF GoesOn
    <3>2. jobs' = k /\ i \in 1..Len(jobs)
      BY <1>2, <1>3
    <3>1. k \in Seq(Jobs) /\ Len(k) = Len(jobs) /\ k[i].value = w
          /\ k[i].known = jobs[i].known /\ \A l \in 1..Len(jobs) : l # i => k[l] = jobs[l]
      BY <1>1, <3>0, <3>2, OneIsReplaced
    <3> HIDE DEF k
    <3> QED
      BY <3>1, <3>2
  <2>2. jobs[i].known /\ w.status \in Running => i = Len(jobs)
    BY <1>2
  <2>3. Orderly(jobs') /\ Grows(jobs, jobs')
    BY <1>1, <1>2, <1>5, <2>1, <2>2, OneGoesOn
  <2> QED
    BY <2>1, <2>3
<1>7. /\ history' \in [sent : BOOLEAN, own : BOOLEAN] /\ history'.sent = history.sent
      /\ history'.own = (history.own /\ v.status \in Running)
  BY <1>1 DEF Changes
<1>8. ASSUME v.status \in Running PROVE Active' = Active
  <2>1. DOMAIN jobs = 1..Len(jobs) /\ DOMAIN jobs' = 1..Len(jobs)
    BY <1>1, <1>6, LenIsNumber
  <2>2. \A l \in 1..Len(jobs) : l \in Active' <=> l \in Active
    BY <1>2, <1>5, <1>6, <1>8, <2>1 DEF Active
  <2> QED
    BY <2>1, <2>2 DEF Active
<1> QED
  BY <1>1, <1>6, <1>7, <1>8 DEF Changes, ServerMoves

LEMMA RowEndsMoves ==
  ASSUME IInv, RowEnds
  PROVE  ServerMoves
<1>1. Orderly(jobs)
  BY DEF IInv
<1>2. PICK i \in Active, outcome \in Finished, halts \in BOOLEAN : \E r \in Rows(i) :
        /\ jobs[i].value.rows[r] = "running"
        /\ Changes(i, GoOn([jobs[i].value EXCEPT !.rows[r] = outcome, !.stop = @ \/ halts],
                           outcome = "sent"))
  BY DEF RowEnds
<1>3. PICK r \in Rows(i) :
        /\ jobs[i].value.rows[r] = "running"
        /\ Changes(i, GoOn([jobs[i].value EXCEPT !.rows[r] = outcome, !.stop = @ \/ halts],
                           outcome = "sent"))
  BY <1>2
<1> DEFINE v == jobs[i].value
           w == [v EXCEPT !.rows[r] = outcome, !.stop = @ \/ halts]
<1>4. /\ v \in Values /\ v.id = i /\ v.status \in Running /\ v.rows[r] = "running"
  BY <1>1, <1>3, ActiveIsLast, OrderlyJobs
<1>5. Changes(i, GoOn(w, outcome = "sent"))
  BY <1>3
<1> HIDE DEF v
<1>6. w \in Values /\ w.id = v.id /\ w.status = v.status /\ Before(v, w)
  <2> DEFINE x == [v EXCEPT !.rows[r] = outcome]
             stop == v.stop \/ halts
  <2>1. x \in Values /\ stop \in BOOLEAN
    BY <1>4 DEF Values, Finished
  <2>2. w = [x EXCEPT !.stop = stop]
    BY <1>4 DEF Values
  <2>3. /\ w.id = v.id /\ w.status = v.status /\ w.stop = (v.stop \/ halts)
        /\ w.rows = [v.rows EXCEPT ![r] = outcome]
    BY <1>4 DEF Values
  <2> HIDE DEF x, stop
  <2>4. [x EXCEPT !.stop = stop] \in Values
    BY <2>1 DEF Values
  <2> HIDE DEF w
  <2>5. w.rows[r] = outcome /\ \A s \in Rows(v.id) : s # r => w.rows[s] = v.rows[s]
    BY <1>3, <1>4, <2>3, ValueFields
  <2>6. (v.stop => w.stop) /\ w.rows[r] \in Finished
    BY <1>2, <2>3, <2>5
  <2>7. w \in Values
    BY <2>2, <2>4
  <2>8. Before(v, w)
    <3>1. \A s \in Rows(v.id) : s # r => w.rows[s] = v.rows[s]
      BY <2>5
    <3>2. v.status \in Running /\ v.rows[r] = "running" /\ w.id = v.id /\ w.status = v.status
      BY <1>4, <2>3
    <3> QED
      BY <1>4, <2>6, <2>7, <3>1, <3>2, RowsEnd
  <2> QED
    BY <2>3, <2>7, <2>8
<1> HIDE DEF w
<1>7. GoesOn(w, GoOn(w, outcome = "sent"))
  BY <1>4, <1>6, LoopGoesOn
<1>8. GoesOn(v, GoOn(w, outcome = "sent"))
  BY <1>4, <1>6, <1>7, GoesOnFrom
<1> QED
  BY <1>5, <1>8, ChangesMove DEF v

LEMMA PauseEndsMoves ==
  ASSUME IInv, PauseEnds
  PROVE  ServerMoves
<1>1. Orderly(jobs)
  BY DEF IInv
<1>2. PICK i \in Active, deadline \in BOOLEAN :
        LET v == [jobs[i].value EXCEPT !.stop = @ \/ deadline] IN
        /\ v.status = "waiting"
        /\ Changes(i, IF v.stop THEN Finish(v) ELSE BeginRow(v))
  BY DEF PauseEnds
<1> DEFINE u == jobs[i].value
           stop == u.stop \/ deadline
           v == [u EXCEPT !.stop = stop]
           w == IF v.stop THEN Finish(v) ELSE BeginRow(v)
<1>3. u \in Values /\ Settled(u) /\ u.status \in Running
  BY <1>1, ActiveIsLast, OrderlyJobs
<1>4. v.status = "waiting" /\ Changes(i, w)
  BY <1>2
<1> HIDE DEF u
<1>5. stop \in BOOLEAN /\ (u.stop => stop)
  BY <1>3, ValueFields
<1> HIDE DEF stop
<1>6. GoesOn(u, v) /\ v.status = u.status /\ Queued(v) = Queued(u)
  BY <1>3, <1>5, StopIsLater
<1> HIDE DEF v
<1>7. Queued(v) # {} /\ v \in Values /\ v.status \in Running
  BY <1>3, <1>4, <1>6 DEF GoesOn, Settled
<1>8. GoesOn(v, w)
  BY <1>7, FinishEnds, RowBegins
<1>9. GoesOn(u, w)
  BY <1>3, <1>6, <1>7, <1>8, GoesOnFrom DEF GoesOn
<1> QED
  BY <1>4, <1>9, ChangesMove DEF u

\* One batch more was started.
LEMMA StartedGrows ==
  ASSUME Orderly(jobs), NEW j \in Started
  PROVE  /\ Orderly(j) /\ Grows(jobs, j) /\ j # jobs /\ Active = {}
         /\ Len(j) = Len(jobs) + 1 /\ j[Len(j)].known
         /\ j[Len(j)].value.status = "running"
<1>1. Active = {} /\ Len(jobs) # MaxJobs /\ j = Append(jobs, NewJob)
  BY DEF Started
<1>2. /\ jobs \in Seq(Jobs) /\ Len(jobs) \in Nat /\ Len(jobs) + 1 <= MaxJobs
      /\ DOMAIN jobs = 1..Len(jobs)
  BY <1>1, LenIsNumber, SizesAreNumbers DEF Orderly
<1>3. /\ NewJob \in Jobs /\ NewJob.known
      /\ NewJob.value.id = Len(jobs) + 1 /\ Settled(NewJob.value)
      /\ NewJob.value.status = "running"
  BY <1>2, NewJobIsNew
<1>4. /\ j \in Seq(Jobs) /\ Len(j) = Len(jobs) + 1 /\ j[Len(j)] = NewJob
      /\ \A i \in 1..Len(jobs) : j[i] = jobs[i]
  BY <1>1, <1>2, <1>3, AppendProperties
<1>5. \A i \in 1..Len(jobs) : ~(jobs[i].known /\ jobs[i].value.status \in Running)
  BY <1>1, <1>2 DEF Active
<1>6. ASSUME NEW i \in 1..Len(j)
      PROVE  /\ j[i].value.id = i /\ Settled(j[i].value)
             /\ j[i].known /\ j[i].value.status \in Running => i = Len(j)
  <2>1. CASE i = Len(j)
    BY <1>3, <1>4, <2>1
  <2>2. CASE i # Len(j)
    <3>1. i \in 1..Len(jobs) /\ j[i] = jobs[i]
      BY <1>2, <1>4, <2>2
    <3> QED
      <4>1. jobs[i].value.id = i /\ Settled(jobs[i].value)
        BY <3>1, OrderlyJobs
      <4> QED
        BY <1>5, <3>1, <4>1
  <2> QED
    BY <2>1, <2>2
<1>7. Orderly(j)
  BY <1>2, <1>4, <1>6 DEF Orderly
<1>8. Grows(jobs, j)
  BY <1>2, <1>4, GrowsItself DEF Grows
<1>9. j # jobs
  BY <1>2, <1>4
<1> QED
  BY <1>1, <1>3, <1>4, <1>7, <1>8, <1>9

\* A batch was asked to stop: what runs stays the same.
LEMMA StoppedGrows ==
  ASSUME Orderly(jobs), NEW i \in 1..Len(jobs), NEW j \in Stopped(i)
  PROVE  /\ Orderly(j) /\ Grows(jobs, j) /\ Len(j) = Len(jobs)
         /\ \A k \in 1..Len(jobs) : j[k].known = jobs[k].known
                                    /\ j[k].value.status = jobs[k].value.status
<1>1. CASE jobs[i].value.status \in Over
  <2>1. j = jobs
    BY <1>1 DEF Stopped
  <2> QED
    BY <2>1, GrowsItself
<1>2. CASE jobs[i].value.status \notin Over
  <2> DEFINE u == jobs[i].value
             v == [u EXCEPT !.stop = TRUE]
  <2>1. PICK w \in Stamped(v) : j = [jobs EXCEPT ![i].value = w]
    BY <1>2 DEF Stopped
  <2>2. u \in Values /\ Settled(u)
    BY OrderlyJobs
  <2> HIDE DEF u
  <2>3. GoesOn(u, v) /\ v.status = u.status
    BY <2>2, StopIsLater
  <2> HIDE DEF v
  <2>4. GoesOn(u, w) /\ w.status = u.status
    BY <2>1, <2>2, <2>3, StampedGoesOn
  <2>5. jobs[i].known /\ w.status \in Running => i = Len(jobs)
    BY <2>4, OrderlyJobs DEF u
  <2>6. /\ Orderly(j) /\ Grows(jobs, j) /\ Len(j) = Len(jobs)
        /\ j[i].value = w /\ j[i].known = jobs[i].known
        /\ \A l \in 1..Len(jobs) : l # i => j[l] = jobs[l]
    <3>1. j \in Seq(Jobs) /\ Len(j) = Len(jobs) /\ j[i].value = w
          /\ j[i].known = jobs[i].known /\ \A l \in 1..Len(jobs) : l # i => j[l] = jobs[l]
      BY <2>1, <2>4, OneIsReplaced DEF GoesOn
    <3>2. Orderly(j) /\ Grows(jobs, j)
      BY <2>4, <2>5, <3>1, OneGoesOn DEF u
    <3> QED
      BY <3>1, <3>2
  <2> QED
    BY <2>4, <2>6 DEF u
<1> QED
  BY <1>1, <1>2

LEMMA StartedElsewhereMoves ==
  ASSUME IInv, StartedElsewhere
  PROVE  ServerMoves
<1>1. Orderly(jobs) /\ history \in [sent : BOOLEAN, own : BOOLEAN]
  BY DEF IInv, Shaped
<1>2. jobs' \in Started /\ token' = FALSE /\ UNCHANGED <<page, act, reads, poll, history>>
  BY DEF StartedElsewhere
<1>3. Orderly(jobs') /\ Grows(jobs, jobs') /\ Active = {}
  BY <1>1, <1>2, StartedGrows
<1>4. ~history.own
  BY <1>3 DEF IInv, OwnRuns
<1> QED
  BY <1>1, <1>2, <1>3, <1>4 DEF ServerMoves

LEMMA StoppedElsewhereMoves ==
  ASSUME IInv, StoppedElsewhere
  PROVE  ServerMoves
<1>1. /\ Orderly(jobs) /\ token \in BOOLEAN
      /\ history \in [sent : BOOLEAN, own : BOOLEAN]
  BY DEF IInv, Shaped
<1>2. PICK i \in Active : jobs' \in Stopped(i)
  BY DEF StoppedElsewhere
<1>3. i \in 1..Len(jobs)
  BY <1>1, ActiveIsLast
<1>4. /\ Orderly(jobs') /\ Grows(jobs, jobs') /\ Len(jobs') = Len(jobs)
      /\ \A k \in 1..Len(jobs) : jobs'[k].known = jobs[k].known
                                 /\ jobs'[k].value.status = jobs[k].value.status
  BY <1>1, <1>2, <1>3, StoppedGrows
<1>5. Active' = Active
  <2>1. DOMAIN jobs = 1..Len(jobs) /\ DOMAIN jobs' = 1..Len(jobs)
    BY <1>1, <1>4, LenIsNumber
  <2> QED
    BY <1>4, <2>1 DEF Active
<1>6. token' \in BOOLEAN /\ UNCHANGED <<page, act, reads, poll, history>>
  BY <1>1 DEF StoppedElsewhere
<1> QED
  BY <1>1, <1>4, <1>5, <1>6 DEF ServerMoves

LEMMA PreviewExpiresMoves ==
  ASSUME IInv, PreviewExpires
  PROVE  ServerMoves
<1>1. Orderly(jobs) /\ history \in [sent : BOOLEAN, own : BOOLEAN]
  BY DEF IInv, Shaped
<1>2. token' = FALSE /\ UNCHANGED <<jobs, page, act, reads, poll, history>>
  BY DEF PreviewExpires
<1>3. Active' = Active
  BY <1>2 DEF Active
<1> QED
  BY <1>1, <1>2, <1>3, GrowsItself DEF ServerMoves

LEMMA JobExpiresMoves ==
  ASSUME IInv, JobExpires
  PROVE  ServerMoves
<1>1. /\ Orderly(jobs) /\ token \in BOOLEAN
      /\ history \in [sent : BOOLEAN, own : BOOLEAN]
      /\ jobs \in Seq(Jobs) /\ Len(jobs) \in Nat /\ DOMAIN jobs = 1..Len(jobs)
  BY LenIsNumber DEF IInv, Shaped, Orderly
<1>2. PICK i \in (DOMAIN jobs) \ Active : jobs' = [jobs EXCEPT ![i].known = FALSE]
  BY DEF JobExpires
<1> DEFINE e == [jobs[i] EXCEPT !.known = FALSE]
<1>3. jobs' = [jobs EXCEPT ![i] = e]
  BY <1>2
<1>4. e \in Jobs /\ e.value = jobs[i].value /\ e.known = FALSE
  <2>1. jobs[i] \in Jobs
    BY <1>1, <1>2, ElementOfSeq
  <2> QED
    BY <2>1 DEF Jobs
<1> HIDE DEF e
<1>5. jobs' \in Seq(Jobs) /\ Len(jobs') = Len(jobs)
  <2>1. i \in 1..Len(jobs) /\ e \in Jobs
    BY <1>1, <1>2, <1>4
  <2>2. [jobs EXCEPT ![i] = e] \in Seq(Jobs) /\ Len([jobs EXCEPT ![i] = e]) = Len(jobs)
    BY <1>1, <2>1, ExceptSeq
  <2> QED
    BY <1>3, <2>2
<1>6. jobs'[i] = e /\ \A k \in 1..Len(jobs) : k # i => jobs'[k] = jobs[k]
  BY <1>1, <1>2, <1>3
<1>7. \A k \in 1..Len(jobs) :
         jobs'[k].value = jobs[k].value /\ (jobs'[k].known => jobs[k].known)
  BY <1>4, <1>6
<1>8. Orderly(jobs') /\ Grows(jobs, jobs')
  BY <1>1, <1>5, <1>7, SomeAreForgotten
<1>9. Active' = Active
  <2>1. DOMAIN jobs' = 1..Len(jobs)
    BY <1>5, <1>8, LenIsNumber
  <2>2. \A k \in 1..Len(jobs) : k \in Active' <=> k \in Active
    BY <1>1, <1>2, <1>4, <1>6, <2>1 DEF Active
  <2> QED
    BY <1>1, <2>1, <2>2 DEF Active
<1> QED
  BY <1>1, <1>8, <1>9 DEF JobExpires, ServerMoves

LEMMA RestartMoves ==
  ASSUME IInv, Restart
  PROVE  ServerMoves
<1>1. /\ Orderly(jobs) /\ history \in [sent : BOOLEAN, own : BOOLEAN]
      /\ jobs \in Seq(Jobs) /\ Len(jobs) \in Nat /\ DOMAIN jobs = 1..Len(jobs)
  BY LenIsNumber DEF IInv, Shaped, Orderly
<1>2. jobs' = [i \in 1..Len(jobs) |-> [jobs[i] EXCEPT !.known = FALSE]]
  BY <1>1 DEF Restart
<1>3. \A i \in 1..Len(jobs) : LET e == [jobs[i] EXCEPT !.known = FALSE] IN
         e \in Jobs /\ e.value = jobs[i].value /\ e.known = FALSE
  <2> TAKE i \in 1..Len(jobs)
  <2>1. jobs[i] \in Jobs
    BY <1>1, ElementOfSeq
  <2> QED
    BY <2>1 DEF Jobs
<1>4. jobs' \in [1..Len(jobs) -> Jobs]
  BY <1>2, <1>3
<1>5. jobs' \in Seq(Jobs) /\ Len(jobs') = Len(jobs)
  BY <1>1, <1>4
<1>6. \A i \in 1..Len(jobs) :
         jobs'[i].value = jobs[i].value /\ (jobs'[i].known => jobs[i].known)
  BY <1>2, <1>3
<1>7. Orderly(jobs') /\ Grows(jobs, jobs')
  BY <1>1, <1>5, <1>6, SomeAreForgotten
<1>8. token' = FALSE /\ UNCHANGED <<page, act, reads, poll>>
  BY DEF Restart
<1>9. /\ history' \in [sent : BOOLEAN, own : BOOLEAN]
      /\ history'.sent = history.sent /\ history'.own = FALSE
  BY <1>1 DEF Restart
<1> QED
  BY <1>7, <1>8, <1>9 DEF ServerMoves

\* What the page holds, and what is under way, stays true of the batches.
LEMMA AnswersGrow ==
  ASSUME NEW j, Orderly(jobs), Orderly(j), Grows(jobs, j), Shaped, AnswersHappened
  PROVE  /\ page.job # None => HappenedIn(j, page.job)
         /\ Tells(j, act.reply)
         /\ \A reply \in reads : Tells(j, reply)
         /\ poll # None => Tells(j, poll)
<1>1. ASSUME page.job # None PROVE HappenedIn(j, page.job)
  BY <1>1, HappenedGrows DEF Shaped, AnswersHappened
<1>2. Tells(j, act.reply)
  BY TellsGrows DEF Shaped, AnswersHappened
<1>3. ASSUME NEW reply \in reads PROVE Tells(j, reply)
  BY <1>3, TellsGrows DEF Shaped, AnswersHappened
<1>4. ASSUME poll # None PROVE Tells(j, poll)
  BY <1>4, TellsGrows DEF Shaped, AnswersHappened
<1> QED
  BY <1>1, <1>2, <1>3, <1>4

LEMMA ForgottenStaysSo ==
  ASSUME NEW j, Orderly(jobs), Grows(jobs, j), Shaped, AnswersHappened, Polled,
         poll # None, poll.is = "gone"
  PROVE  ~j[page.job.id].known
<1>1. page.job.id \in 1..Len(jobs) /\ ~jobs[page.job.id].known
  BY DEF AnswersHappened, HappenedIn, Polled, IsRunning
<1> QED
  BY <1>1 DEF Grows

LEMMA MovesKeep ==
  ASSUME IInv, ServerMoves
  PROVE  IInv'
<1>1. /\ Orderly(jobs) /\ Orderly(jobs') /\ Grows(jobs, jobs')
      /\ Shaped /\ AnswersHappened /\ Polled
      /\ UNCHANGED <<page, act, reads, poll>>
  BY DEF IInv, ServerMoves
<1>2. Shaped'
  BY <1>1 DEF Shaped, ServerMoves
<1>3. AnswersHappened'
  BY <1>1, AnswersGrow DEF AnswersHappened
<1>4. Polled'
  BY <1>1, ForgottenStaysSo DEF Polled, IsRunning
<1>5. Requested'
  BY <1>1, LenIsNumber DEF IInv, Requested, Grows
<1>6. Confirming' /\ SentIsPending'
  BY <1>1 DEF IInv, ServerMoves, Confirming, SentIsPending, IsRunning
<1>7. OwnRuns'
  <2>1. ASSUME history'.own PROVE history.own /\ Active' = Active
    BY <2>1 DEF ServerMoves
  <2> HIDE DEF Active
  <2> QED
    BY <1>1, <2>1 DEF IInv, OwnRuns
<1>8. OwnIsFound'
  <2>1. ASSUME history'.own PROVE history.own /\ Active' = Active
    BY <2>1 DEF ServerMoves
  <2> QED
    BY <1>1, <2>1 DEF IInv, OwnIsFound
<1> QED
  BY <1>1, <1>2, <1>3, <1>4, <1>5, <1>6, <1>7, <1>8 DEF IInv

(***************************************************************************)
(* What the page makes of an answer                                        *)
(***************************************************************************)

LEMMA MergedFields ==
  ASSUME NEW p \in Values, NEW q \in Values, p.id = q.id
  PROVE  /\ MergeJob(p, q) \in Values
         /\ MergeJob(p, q).id = q.id
         /\ \A r \in Rows(q.id) : MergeJob(p, q).rows[r] = MergeRow(p.rows[r], q.rows[r])
         /\ MergeJob(p, q).status = MergeStatus(p, q)
         /\ MergeJob(p, q).stop = (q.stop \/ p.stop)
<1> DEFINE rows == [r \in DOMAIN q.rows |-> MergeRow(p.rows[r], q.rows[r])]
           status == MergeStatus(p, q)
           stop == q.stop \/ p.stop
           updated == Max({q.updated, p.updated})
           m == [q EXCEPT !.rows = rows, !.status = status, !.stop = stop, !.updated = updated]
<1>1. MergeJob(p, q) = m
  BY DEF MergeJob
<1>2. /\ p.rows \in [Rows(q.id) -> Row] /\ q.rows \in [Rows(q.id) -> Row]
      /\ p.updated \in 0..Times[q.id] /\ q.updated \in 0..Times[q.id]
      /\ p.stop \in BOOLEAN /\ q.stop \in BOOLEAN
      /\ p.status \in Running \cup Over /\ q.status \in Running \cup Over
  BY ValueFields
<1>3. rows \in [Rows(q.id) -> Row] /\ \A r \in Rows(q.id) : rows[r] = MergeRow(p.rows[r], q.rows[r])
  BY <1>2 DEF MergeRow
<1>4. status \in Running \cup Over
  BY <1>2 DEF MergeStatus
<1>5. stop \in BOOLEAN
  BY <1>2
<1>6. updated \in 0..Times[q.id]
  <2>0. q.updated \in Int /\ p.updated \in Int
    BY <1>2
  <2>1. updated = IF q.updated >= p.updated THEN q.updated ELSE p.updated
    BY <2>0, Chosen
  <2> QED
    BY <1>2, <2>1
<1>7. stop = (q.stop \/ p.stop) /\ status = MergeStatus(p, q)
  OBVIOUS
<1> HIDE DEF rows, status, stop, updated
<1>8. /\ m.id = q.id /\ m.rows = rows /\ m.status = status /\ m.stop = stop
  BY DEF Values
<1>9. m \in Values
  <2> DEFINE a == [q EXCEPT !.rows = rows]
             b == [a EXCEPT !.status = status]
             c == [b EXCEPT !.stop = stop]
             d == [c EXCEPT !.updated = updated]
  <2>1. m = d
    BY DEF Values
  <2>2. a \in Values /\ a.id = q.id
    BY <1>3 DEF Values, Row
  <2> HIDE DEF a
  <2>3. b \in Values /\ b.id = q.id
    BY <1>4, <2>2 DEF Values
  <2> HIDE DEF b
  <2>4. c \in Values /\ c.id = q.id
    BY <1>5, <2>3 DEF Values
  <2> HIDE DEF c
  <2>5. d \in Values
    BY <1>6, <2>4 DEF Values
  <2> QED
    BY <2>1, <2>5
<1> HIDE DEF m
<1> QED
  BY <1>1, <1>3, <1>7, <1>8, <1>9

\* What the page shows does not go back (NoStepBack).
Forward(p, q) ==
    IF q.id # p.id THEN q.id > p.id
    ELSE /\ \A r \in Rows(p.id) : Progress(p.rows[r]) <= Progress(q.rows[r])
         /\ p.stop => q.stop
         /\ p.status \in Over => q.status = p.status

\* Two pictures of a batch, whichever is older, make a picture of it.
LEMMA MergedHappened ==
  ASSUME NEW p \in Values, NEW q \in Values, NEW w \in Values,
         Before(p, w), Before(q, w)
  PROVE  /\ MergeJob(p, q) \in Values /\ MergeJob(p, q).id = p.id
         /\ Before(MergeJob(p, q), w) /\ Forward(p, MergeJob(p, q))
<1> DEFINE m == MergeJob(p, q)
<1>1. p.id = w.id /\ q.id = w.id
  BY DEF Before
<1>2. /\ m \in Values /\ m.id = w.id
      /\ \A r \in Rows(w.id) : m.rows[r] = MergeRow(p.rows[r], q.rows[r])
      /\ m.status = MergeStatus(p, q)
      /\ m.stop = (q.stop \/ p.stop)
  BY <1>1, MergedFields
<1> HIDE DEF m
<1>3. ASSUME NEW r \in Rows(w.id)
      PROVE  /\ Progress(m.rows[r]) <= Progress(w.rows[r])
             /\ Progress(p.rows[r]) <= Progress(m.rows[r])
             /\ m.rows[r] \in Finished => m.rows[r] = w.rows[r]
             /\ p.rows[r] \in Finished \/ q.rows[r] \in Finished => m.rows[r] \in Finished
  <2>1. p.rows[r] \in Row /\ q.rows[r] \in Row /\ w.rows[r] \in Row
    BY <1>1, ValueFields
  <2>2. /\ Progress(p.rows[r]) <= Progress(w.rows[r])
        /\ Progress(q.rows[r]) <= Progress(w.rows[r])
        /\ p.rows[r] \in Finished => p.rows[r] = w.rows[r]
        /\ q.rows[r] \in Finished => q.rows[r] = w.rows[r]
    BY <1>1 DEF Before
  <2>3. m.rows[r] = MergeRow(p.rows[r], q.rows[r])
    BY <1>2
  <2> QED
    BY <2>1, <2>2, <2>3 DEF MergeRow, Progress, Row, Finished
<1>4. m.status \in Over =>
        m.status = w.status /\ \A r \in Rows(w.id) : m.rows[r] \in Finished
  <2>1. CASE p.status \in Over
    <3>1. m.status = p.status
      BY <1>2, <2>1 DEF MergeStatus
    <3> QED
      BY <1>3, <2>1, <3>1 DEF Before
  <2>2. CASE p.status \notin Over /\ q.status \in Over
    <3>1. m.status = q.status
      BY <1>2, <2>2 DEF MergeStatus
    <3> QED
      BY <1>3, <2>2, <3>1 DEF Before
  <2>3. CASE p.status \notin Over /\ q.status \notin Over
    BY <1>2, <2>3 DEF MergeStatus
  <2> QED
    BY <2>1, <2>2, <2>3
<1>5. m.stop => w.stop
  BY <1>2 DEF Before
<1>6. Before(m, w)
  BY <1>2, <1>3, <1>4, <1>5 DEF Before
<1>7. Forward(p, m)
  <2>1. p.stop => m.stop
    BY <1>2
  <2>2. p.status \in Over => m.status = p.status
    BY <1>2 DEF MergeStatus
  <2> QED
    BY <1>1, <1>2, <1>3, <2>1, <2>2 DEF Forward
<1> QED
  BY <1>1, <1>2, <1>6, <1>7 DEF m

LEMMA ForwardItself ==
  ASSUME NEW p \in Values
  PROVE  Forward(p, p)
<1>1. \A r \in Rows(p.id) : p.rows[r] \in Row
  BY ValueFields
<1> QED
  BY <1>1, ProgressIsNumber DEF Forward

\* What the page shows after an answer happened, does not go back, and is of the batch
\* of the answer if that is the last one.
LEMMA UpdatedHappened ==
  ASSUME Orderly(jobs), Shaped, AnswersHappened,
         NEW value \in Values, HappenedIn(jobs, value), NEW confirmed \in BOOLEAN,
         confirmed /\ page.job # None => page.job.id < value.id
  PROVE  /\ Updated(value, confirmed) \in Values
         /\ HappenedIn(jobs, Updated(value, confirmed))
         /\ page.job # None => Forward(page.job, Updated(value, confirmed))
         /\ value.id = Len(jobs) => Updated(value, confirmed).id = Len(jobs)
         /\ page.job # None /\ page.job.id = Len(jobs) =>
              Updated(value, confirmed).id = Len(jobs)
<1>1. /\ value.id \in 1..Len(jobs) /\ jobs[value.id].value \in Values
      /\ Before(value, jobs[value.id].value) /\ Len(jobs) \in Nat
  BY OrderlyJobs, LenIsNumber DEF HappenedIn
<1>2. ASSUME page.job # None
      PROVE  page.job \in Values /\ HappenedIn(jobs, page.job)
  BY <1>2 DEF Shaped, AnswersHappened
<1>3. CASE page.job = None
  BY <1>3 DEF Updated, IsDelayed
<1>4. CASE page.job # None /\ IsDelayed(value, confirmed)
  <2>1. Updated(value, confirmed) = page.job
    BY <1>4 DEF Updated
  <2>2. page.job.id # value.id /\ value.id <= page.job.id /\ page.job.id \in 1..Len(jobs)
    BY <1>2, <1>4 DEF IsDelayed, HappenedIn
  <2>3. Forward(page.job, page.job)
    BY <1>2, <1>4, ForwardItself
  <2> QED
    BY <1>1, <1>2, <1>4, <2>1, <2>2, <2>3
<1>5. CASE page.job # None /\ ~IsDelayed(value, confirmed) /\ page.job.id = value.id
  <2>1. Updated(value, confirmed) = MergeJob(page.job, value)
    BY <1>5 DEF Updated
  <2>2. Before(page.job, jobs[value.id].value)
    BY <1>2, <1>5 DEF HappenedIn
  <2>3. /\ MergeJob(page.job, value) \in Values /\ MergeJob(page.job, value).id = page.job.id
        /\ Before(MergeJob(page.job, value), jobs[value.id].value)
        /\ Forward(page.job, MergeJob(page.job, value))
    BY <1>1, <1>2, <1>5, <2>2, MergedHappened
  <2> QED
    BY <1>1, <1>5, <2>1, <2>3 DEF HappenedIn
<1>6. CASE page.job # None /\ ~IsDelayed(value, confirmed) /\ page.job.id # value.id
  <2>1. Updated(value, confirmed) = value
    BY <1>6 DEF Updated
  <2>2. page.job.id \in 1..Len(jobs)
    BY <1>2, <1>6 DEF HappenedIn
  <2>3. page.job.id < value.id
    BY <1>1, <1>6, <2>2 DEF IsDelayed
  <2>4. Forward(page.job, value)
    BY <1>1, <2>2, <2>3 DEF Forward
  <2> QED
    BY <1>1, <2>1, <2>2, <2>3, <2>4
<1> QED
  BY <1>3, <1>4, <1>5, <1>6

LEMMA InitIsSound == Init => IInv
<1> SUFFICES ASSUME Init PROVE IInv
  OBVIOUS
<1>1. jobs = <<>> /\ Len(jobs) = 0 /\ DOMAIN jobs = {}
  BY DEF Init
<1>2. Orderly(jobs)
  BY <1>1, SizesAreNumbers DEF Orderly
<1>3. NoReply \in Replies
  BY DEF NoReply, Replies, Refusals
<1>4. Shaped
  <2>1. page \in [preview : BOOLEAN, job : Values \cup {None}, needs : BOOLEAN]
    BY DEF Init, NoPage
  <2>2. act \in [kind : {"none", "preview", "confirm", "stop"}, job : 0..MaxJobs,
                reply : Replies]
    BY <1>3, SizesAreNumbers DEF Init, NoRequest
  <2>3. /\ token \in BOOLEAN /\ reads \subseteq Replies /\ poll \in Replies \cup {None}
        /\ history \in [sent : BOOLEAN, own : BOOLEAN]
    BY <1>3 DEF Init, NoHistory
  <2> QED
    BY <2>1, <2>2, <2>3 DEF Shaped
<1>5. AnswersHappened /\ Polled /\ Requested
  BY DEF Init, AnswersHappened, Polled, Requested, Tells, NoPage, NoRequest, NoReply
<1>6. Confirming /\ SentIsPending /\ OwnRuns /\ OwnIsFound
  BY DEF Init, Confirming, SentIsPending, OwnRuns, OwnIsFound, NoPage, NoRequest, NoHistory
<1> QED
  BY <1>2, <1>4, <1>5, <1>6 DEF IInv

(***************************************************************************)
(* The requests                                                            *)
(***************************************************************************)

LEMMA NothingIsNoJob ==
  /\ NoReply \in Replies /\ NoReply.is = "none"
  /\ NoRequest.kind = "none" /\ NoRequest.reply = NoReply
  /\ NoRequest \in [kind : {"none", "preview", "confirm", "stop"}, job : 0..MaxJobs,
                    reply : Replies]
  /\ \A j : Tells(j, NoReply)
<1>1. NoReply \in Replies /\ NoReply.is = "none"
  BY DEF NoReply, Replies, Refusals
<1> QED
  BY <1>1, SizesAreNumbers DEF NoRequest, Tells

\* A request begins.
LEMMA BeginKeeps ==
  ASSUME IInv, NEW kind \in {"preview", "confirm", "stop"}, NEW job \in 0..MaxJobs,
         Begin(kind, job), kind = "stop" => job \in 1..Len(jobs),
         kind = "confirm" => ~IsRunning(page.job) /\ history' = [sent |-> TRUE, own |-> FALSE],
         kind # "confirm" => history' = history
  PROVE  IInv'
<1>1. /\ act = NoRequest /\ act' = [NoRequest EXCEPT !.kind = kind, !.job = job]
      /\ reads' = {} /\ poll' = None /\ UNCHANGED <<jobs, token, page>>
  BY DEF Begin, NewEpoch, server
<1>2. act' = [kind |-> kind, job |-> job, reply |-> NoReply]
  BY <1>1 DEF NoRequest
<1>3. Orderly(jobs)' /\ Active' = Active
  BY <1>1 DEF IInv, Active
<1>4. Shaped'
  <2>1. act' \in [kind : {"none", "preview", "confirm", "stop"}, job : 0..MaxJobs,
                 reply : Replies]
    BY <1>2, NothingIsNoJob
  <2>2. history' \in [sent : BOOLEAN, own : BOOLEAN]
    <3>1. history \in [sent : BOOLEAN, own : BOOLEAN]
      BY DEF IInv, Shaped
    <3>2. CASE kind = "confirm"
      <4>1. history' = [sent |-> TRUE, own |-> FALSE]
        BY <3>2
      <4> QED
        BY <4>1
    <3>3. CASE kind # "confirm"
      BY <3>1, <3>3
    <3> QED
      BY <3>2, <3>3
  <2> QED
    BY <1>1, <2>1, <2>2 DEF IInv, Shaped
<1>5. AnswersHappened' /\ Polled'
  BY <1>1, <1>2, NothingIsNoJob DEF IInv, AnswersHappened, Polled
<1>6. Requested'
  BY <1>1, <1>2 DEF Requested
<1>7. Confirming'
  BY <1>1, <1>2, NothingIsNoJob DEF Confirming, IsRunning
<1>8. SentIsPending' /\ OwnRuns' /\ OwnIsFound'
  <2>1. CASE kind = "confirm"
    BY <1>2, <2>1 DEF SentIsPending, OwnRuns, OwnIsFound
  <2>2. CASE kind # "confirm"
    <3>1. history' = history /\ ~history.sent
      BY <1>1, <2>2, NothingIsNoJob DEF IInv, SentIsPending
    <3>2. page' = page /\ act'.kind # "confirm" /\ reads' = {} /\ act.kind # "confirm"
      BY <1>1, <1>2, <2>2, NothingIsNoJob
    <3> HIDE DEF Active
    <3> QED
      BY <1>3, <3>1, <3>2 DEF IInv, SentIsPending, OwnRuns, OwnIsFound
  <2> QED
    BY <2>1, <2>2
<1> QED
  BY <1>3, <1>4, <1>5, <1>6, <1>7, <1>8 DEF IInv

LEMMA CreatePreviewKeeps ==
  ASSUME IInv, CreatePreview
  PROVE  IInv'
<1>1. Begin("preview", 0) /\ history' = history /\ 0 \in 0..MaxJobs
  BY SizesAreNumbers DEF CreatePreview
<1> QED
  BY <1>1, BeginKeeps

LEMMA ConfirmKeeps ==
  ASSUME IInv, Confirm
  PROVE  IInv'
<1>1. /\ Begin("confirm", 0) /\ history' = [sent |-> TRUE, own |-> FALSE] /\ 0 \in 0..MaxJobs
      /\ ~IsRunning(page.job)
  BY SizesAreNumbers DEF Confirm
<1> QED
  BY <1>1, BeginKeeps

LEMMA StopKeeps ==
  ASSUME IInv, Stop
  PROVE  IInv'
<1>1. page.job # None /\ Begin("stop", page.job.id) /\ history' = history
  BY DEF Stop, IsRunning
<1>2. page.job.id \in 1..Len(jobs)
  BY <1>1 DEF IInv, AnswersHappened, HappenedIn
<1>3. page.job.id \in 0..MaxJobs
  BY <1>2, LenIsNumber, SizesAreNumbers DEF IInv, Orderly
<1> QED
  BY <1>1, <1>2, <1>3, BeginKeeps

\* What the server makes of a request.
LEMMA OutcomesAreSound ==
  ASSUME IInv, act # NoRequest, NEW o \in Outcomes(act)
  PROVE  /\ Orderly(o.jobs) /\ Grows(jobs, o.jobs)
         /\ o.token \in BOOLEAN /\ o.reply \in Replies /\ Tells(o.jobs, o.reply)
         /\ \/ /\ \A i \in 1..Len(jobs) : o.jobs[i].known = jobs[i].known
                         /\ o.jobs[i].value.status = jobs[i].value.status
               /\ Len(o.jobs) = Len(jobs)
               /\ act.kind = "confirm" => o.jobs = jobs /\ o.reply.is # "job"
            \/ /\ act.kind = "confirm" /\ o.jobs # jobs
               /\ Active = {} /\ Len(o.jobs) = Len(jobs) + 1
               /\ o.reply.is = "job" /\ o.reply.job.id = Len(o.jobs)
               /\ o.jobs[Len(o.jobs)].known
               /\ o.jobs[Len(o.jobs)].value.status \in Running
<1>1. /\ Orderly(jobs) /\ token \in BOOLEAN
      /\ act.kind \in {"preview", "confirm", "stop"}
      /\ act.kind = "stop" => act.job \in 1..Len(jobs)
  BY DEF IInv, Shaped, Requested
<1>2. \A is \in {"conflict", "error", "preview", "gone"} :
         Says(is) \in Replies /\ Says(is).is = is
  BY DEF Says, Replies, Refusals
<1>3. \A v \in Values : Shows(v) \in Replies /\ Shows(v).is = "job" /\ Shows(v).job = v
  BY DEF Shows, Replies
<1>4. \A j, t, r : Outcome(j, t, r).jobs = j /\ Outcome(j, t, r).token = t
                   /\ Outcome(j, t, r).reply = r
  BY DEF Outcome
<1>5. ASSUME NEW t \in BOOLEAN, NEW is \in {"conflict", "error", "preview", "gone"},
             o = Outcome(jobs, t, Says(is))
      PROVE  /\ o.jobs = jobs /\ o.token \in BOOLEAN /\ o.reply \in Replies
             /\ o.reply.is # "job" /\ Tells(o.jobs, o.reply)
  BY <1>2, <1>4, <1>5 DEF Tells
<1>6. CASE act.kind = "preview"
  <2>1. token \in BOOLEAN
    BY DEF IInv, Shaped
  <2>2. \E t \in BOOLEAN, is \in {"conflict", "error", "preview", "gone"} :
           o = Outcome(jobs, t, Says(is))
    BY <1>6, <2>1 DEF Outcomes, Previewed
  <2> QED
    BY <1>1, <1>5, <1>6, <2>2, GrowsItself
<1>7. CASE act.kind = "confirm"
  <2>1. CASE o = Outcome(jobs, FALSE, Says("conflict"))
    <3>1. /\ o.jobs = jobs /\ o.token \in BOOLEAN /\ o.reply \in Replies
          /\ o.reply.is # "job" /\ Tells(o.jobs, o.reply)
      BY <1>5, <2>1
    <3> QED
      BY <1>1, <1>7, <3>1, GrowsItself
  <2>2. CASE \E j \in Started : o = Outcome(j, FALSE, Shows(j[Len(j)].value))
    <3>1. PICK j \in Started : o = Outcome(j, FALSE, Shows(j[Len(j)].value))
      BY <2>2
    <3>2. /\ Orderly(j) /\ Grows(jobs, j) /\ j # jobs /\ Active = {}
          /\ Len(j) = Len(jobs) + 1 /\ j[Len(j)].known
          /\ j[Len(j)].value.status = "running"
      BY <1>1, StartedGrows
    <3>3. Len(j) \in 1..Len(j)
      BY <1>1, <3>2, LenIsNumber
    <3>4. /\ j[Len(j)].value \in Values /\ j[Len(j)].value.id = Len(j)
          /\ Settled(j[Len(j)].value)
      BY <3>2, <3>3, OrderlyJobs
    <3>5. HappenedIn(j, j[Len(j)].value)
      BY <3>3, <3>4, BeforeItself DEF HappenedIn
    <3>6. /\ o.jobs = j /\ o.token = FALSE /\ o.reply = Shows(j[Len(j)].value)
      BY <3>1 DEF Outcome
    <3>7. /\ o.reply \in Replies /\ o.reply.is = "job" /\ o.reply.job = j[Len(j)].value
      BY <1>3, <3>4, <3>6
    <3>8. Tells(o.jobs, o.reply)
      BY <3>5, <3>6, <3>7 DEF Tells
    <3>9. "running" \in Running
      BY DEF Running
    <3> QED
      BY <1>7, <3>2, <3>4, <3>6, <3>7, <3>8, <3>9
  <2> QED
    BY <1>7, <2>1, <2>2 DEF Outcomes, Confirmed
<1>8. CASE act.kind = "stop"
  <2>1. act.job \in 1..Len(jobs) /\ o \in StopAnswered(act.job)
    BY <1>1, <1>8 DEF Outcomes
  <2>2. CASE o = Outcome(jobs, token, Says("gone"))
    <3>1. /\ o.jobs = jobs /\ o.token \in BOOLEAN /\ o.reply \in Replies
          /\ o.reply.is # "job" /\ Tells(o.jobs, o.reply)
      BY <1>1, <1>5, <2>2
    <3> QED
      BY <1>1, <1>8, <3>1, GrowsItself
  <2>3. CASE \E j \in Stopped(act.job) : o = Outcome(j, token, Shows(j[act.job].value))
    <3>1. PICK j \in Stopped(act.job) : o = Outcome(j, token, Shows(j[act.job].value))
      BY <2>3
    <3>2. /\ Orderly(j) /\ Grows(jobs, j) /\ Len(j) = Len(jobs)
          /\ \A k \in 1..Len(jobs) : j[k].known = jobs[k].known
                                     /\ j[k].value.status = jobs[k].value.status
      BY <1>1, <2>1, StoppedGrows
    <3>3. /\ act.job \in 1..Len(j) /\ j[act.job].value \in Values
          /\ j[act.job].value.id = act.job /\ Settled(j[act.job].value)
      BY <2>1, <3>2, OrderlyJobs
    <3>4. HappenedIn(j, j[act.job].value)
      BY <3>3, BeforeItself DEF HappenedIn
    <3>5. /\ o.jobs = j /\ o.token = token /\ o.reply = Shows(j[act.job].value)
      BY <1>4, <3>1
    <3>6. /\ o.reply \in Replies /\ o.reply.is = "job" /\ o.reply.job = j[act.job].value
      BY <1>3, <3>3, <3>5
    <3>7. Tells(o.jobs, o.reply)
      BY <3>4, <3>5, <3>6 DEF Tells
    <3> QED
      BY <1>1, <1>8, <3>2, <3>5, <3>6, <3>7
  <2> QED
    BY <2>1, <2>2, <2>3 DEF StopAnswered
<1> QED
  BY <1>1, <1>6, <1>7, <1>8

LEMMA ServeActKeeps ==
  ASSUME IInv, ServeAct
  PROVE  IInv'
<1>1. act # NoRequest /\ act.reply = NoReply /\ UNCHANGED <<page, reads, poll>>
  BY DEF ServeAct
<1>2. PICK o \in Outcomes(act) :
        /\ jobs' = o.jobs /\ token' = o.token /\ act' = [act EXCEPT !.reply = o.reply]
        /\ history' = IF act.kind = "confirm" /\ o.jobs # jobs
                      THEN [history EXCEPT !.own = TRUE] ELSE history
  BY DEF ServeAct
<1>3. /\ Orderly(jobs') /\ Grows(jobs, jobs')
      /\ token' \in BOOLEAN /\ o.reply \in Replies /\ Tells(jobs', o.reply)
  BY <1>1, <1>2, OutcomesAreSound
<1>4. \/ /\ \A i \in 1..Len(jobs) : jobs'[i].known = jobs[i].known
                   /\ jobs'[i].value.status = jobs[i].value.status
         /\ Len(jobs') = Len(jobs)
         /\ act.kind = "confirm" => jobs' = jobs /\ o.reply.is # "job"
      \/ /\ act.kind = "confirm" /\ jobs' # jobs
         /\ Active = {} /\ Len(jobs') = Len(jobs) + 1
         /\ o.reply.is = "job" /\ o.reply.job.id = Len(jobs')
         /\ jobs'[Len(jobs')].known
         /\ jobs'[Len(jobs')].value.status \in Running
  BY <1>1, <1>2, OutcomesAreSound
<1>5. /\ Orderly(jobs) /\ Shaped /\ AnswersHappened /\ Polled /\ Requested
      /\ Confirming /\ SentIsPending /\ OwnRuns /\ OwnIsFound
      /\ act \in [kind : {"none", "preview", "confirm", "stop"}, job : 0..MaxJobs,
                  reply : Replies]
      /\ history \in [sent : BOOLEAN, own : BOOLEAN]
  BY DEF IInv, Shaped
<1>6. /\ act' = [kind |-> act.kind, job |-> act.job, reply |-> o.reply]
      /\ act.kind # "none"
  BY <1>1, <1>2, <1>5 DEF Requested
<1>7. /\ Len(jobs) \in Nat /\ DOMAIN jobs = 1..Len(jobs)
      /\ Len(jobs') \in Nat /\ DOMAIN jobs' = 1..Len(jobs')
  BY <1>3, <1>5, LenIsNumber
<1>8. Shaped'
  <2>1. act' \in [kind : {"none", "preview", "confirm", "stop"}, job : 0..MaxJobs,
                  reply : Replies]
    BY <1>3, <1>5, <1>6
  <2>2. history' \in [sent : BOOLEAN, own : BOOLEAN]
    BY <1>2, <1>5
  <2> QED
    BY <1>1, <1>3, <1>5, <2>1, <2>2 DEF Shaped
<1>9. AnswersHappened'
  BY <1>1, <1>3, <1>5, <1>6, AnswersGrow DEF AnswersHappened
<1>10. Polled'
  BY <1>1, <1>3, <1>5, ForgottenStaysSo DEF Polled, IsRunning
<1>11. Requested'
  BY <1>3, <1>5, <1>6, <1>7 DEF Requested, Grows
<1>12. Confirming'
  <2>1. ASSUME act.kind = "confirm", o.reply.is = "job", page.job # None
        PROVE  page.job.id < o.reply.job.id
    <3>1. page.job.id \in 1..Len(jobs)
      BY <1>5, <2>1 DEF AnswersHappened, HappenedIn
    <3> QED
      BY <1>4, <1>7, <2>1, <3>1
  <2> QED
    BY <1>1, <1>5, <1>6, <2>1 DEF Confirming, IsRunning
<1>13. SentIsPending'
  <2>1. history'.sent = history.sent
    BY <1>2, <1>5
  <2> QED
    BY <1>5, <1>6, <2>1 DEF SentIsPending
<1>14. OwnRuns' /\ OwnIsFound'
  <2>1. CASE act.kind = "confirm"
    <3>1. OwnIsFound'
      BY <1>6, <2>1 DEF OwnIsFound
    <3>2. ~history.own
      BY <1>1, <1>5, <2>1, NothingIsNoJob DEF OwnRuns
    <3>3. ASSUME history'.own PROVE Len(jobs') \in Active' /\ o.reply.is = "job"
                                    /\ o.reply.job.id = Len(jobs')
      <4>1. jobs' # jobs
        BY <1>2, <3>2, <3>3
      <4>2. Len(jobs') = Len(jobs) + 1
        BY <1>4, <2>1, <4>1
      <4>3. Len(jobs') \in 1..Len(jobs')
        BY <1>7, <4>2
      <4> QED
        BY <1>4, <1>7, <2>1, <4>1, <4>3 DEF Active
    <3>4. reads' = {}
      BY <1>1, <1>5, <2>1 DEF Confirming
    <3>5. OwnRuns'
      <4> HIDE DEF Active
      <4> QED
        BY <1>6, <3>3, <3>4 DEF OwnRuns
    <3> QED
      BY <3>1, <3>5
  <2>2. CASE act.kind # "confirm"
    <3>1. Active' = Active
      BY <1>4, <1>7, <2>2 DEF Active
    <3>2. history' = history
      BY <1>2, <2>2
    <3> HIDE DEF Active
    <3> QED
      BY <1>1, <1>5, <1>6, <2>2, <3>1, <3>2 DEF OwnRuns, OwnIsFound
  <2> QED
    BY <2>1, <2>2
<1> QED
  BY <1>3, <1>8, <1>9, <1>10, <1>11, <1>12, <1>13, <1>14 DEF IInv

(***************************************************************************)
(* What becomes of a request                                               *)
(***************************************************************************)

\* The invariant, and what may only be seen of a step that changes the page.
Steps == IInv' /\ NoStepBack

LEMMA ForwardIsNoStepBack ==
  ASSUME page.job # None => page.job \in Values /\ Forward(page.job, page'.job)
  PROVE  NoStepBack
<1> SUFFICES ASSUME page.job # None, page'.job # None
             PROVE  IF page'.job.id # page.job.id THEN page'.job.id > page.job.id
                    ELSE /\ \A r \in DOMAIN page.job.rows :
                              Progress(page.job.rows[r]) <= Progress(page'.job.rows[r])
                         /\ page.job.stop => page'.job.stop
                         /\ IsFinished(page.job) => page'.job.status = page.job.status
  BY DEF NoStepBack
<1>1. page.job \in Values /\ Forward(page.job, page'.job)
  OBVIOUS
<1>2. DOMAIN page.job.rows = Rows(page.job.id)
  BY <1>1, ValueFields
<1> QED
  BY <1>1, <1>2 DEF Forward, IsFinished

LEMMA SameJobIsNoStepBack ==
  ASSUME Shaped, page'.job = page.job \/ page'.job = None
  PROVE  NoStepBack
<1>1. CASE page'.job = None
  BY <1>1 DEF NoStepBack
<1>2. CASE page'.job = page.job
  <2>1. page.job # None => page.job \in Values
    BY DEF Shaped
  <2> QED
    BY <1>2, <2>1, ForwardItself, ForwardIsNoStepBack
<1> QED
  BY <1>1, <1>2

\* Nothing is under way, and the page shows the same.
LEMMA RequestEnds ==
  ASSUME IInv, act' = NoRequest, UNCHANGED jobs, token' \in BOOLEAN,
         page'.job = page.job, page' \in [preview : BOOLEAN, job : Values \cup {None}, needs : BOOLEAN],
         reads' = reads \/ reads' = reads \cup {NoReply}, poll' = poll,
         history' \in [sent : BOOLEAN, own : BOOLEAN], history'.own = history.own,
         ~history'.sent,
         page.needs \/ act.kind = "confirm" => page'.needs
  PROVE  Steps
<1>1. Orderly(jobs)' /\ Active' = Active
  BY DEF IInv, Active
<1>2. Shaped'
  BY NothingIsNoJob DEF IInv, Shaped
<1>3. AnswersHappened'
  <2>1. page'.job # None => HappenedIn(jobs', page'.job)
    BY DEF IInv, AnswersHappened
  <2>2. Tells(jobs', act'.reply)
    BY NothingIsNoJob
  <2>3. \A reply \in reads' : Tells(jobs', reply)
    BY NothingIsNoJob DEF IInv, AnswersHappened
  <2>4. poll' # None => Tells(jobs', poll')
    BY DEF IInv, AnswersHappened
  <2> QED
    BY <2>1, <2>2, <2>3, <2>4 DEF AnswersHappened
<1>4. Polled'
  BY DEF IInv, Polled, IsRunning
<1>5. Requested' /\ Confirming' /\ SentIsPending'
  BY NothingIsNoJob DEF Requested, Confirming, SentIsPending
<1>6. OwnRuns' /\ OwnIsFound'
  <2> HIDE DEF Active
  <2> QED
    BY <1>1, NothingIsNoJob DEF IInv, OwnRuns, OwnIsFound
<1>7. NoStepBack
  BY SameJobIsNoStepBack DEF IInv
<1> QED
  BY <1>1, <1>2, <1>3, <1>4, <1>5, <1>6, <1>7 DEF Steps, IInv

LEMMA TakePreviewSteps ==
  ASSUME IInv, TakePreview
  PROVE  Steps
<1>1. /\ act' = NoRequest /\ page' = [page EXCEPT !.preview = TRUE] /\ act.kind = "preview"
      /\ UNCHANGED <<jobs, token, reads, poll, history>>
  BY DEF TakePreview, server
<1>2. /\ page \in [preview : BOOLEAN, job : Values \cup {None}, needs : BOOLEAN]
      /\ history \in [sent : BOOLEAN, own : BOOLEAN] /\ token \in BOOLEAN /\ ~history.sent
  BY <1>1 DEF IInv, Shaped, SentIsPending
<1>3. /\ page' \in [preview : BOOLEAN, job : Values \cup {None}, needs : BOOLEAN]
      /\ page'.job = page.job /\ page'.needs = page.needs
  BY <1>1, <1>2
<1> QED
  BY <1>1, <1>2, <1>3, RequestEnds

LEMMA FailsSteps ==
  ASSUME IInv, NEW conflict \in BOOLEAN, Fails(conflict)
  PROVE  Steps
<1>1. /\ page \in [preview : BOOLEAN, job : Values \cup {None}, needs : BOOLEAN]
      /\ history \in [sent : BOOLEAN, own : BOOLEAN] /\ token \in BOOLEAN
      /\ history.sent => act.kind = "confirm"
  BY DEF IInv, Shaped, SentIsPending
<1>2. PreviewAfter \in BOOLEAN /\ (act.kind = "confirm" => PreviewAfter = FALSE)
  BY <1>1 DEF PreviewAfter
<1>3. /\ act' = NoRequest /\ UNCHANGED <<jobs, poll>>
      /\ token' = (token /\ page'.preview /\ act.reply.is # "preview")
      /\ history' = [history EXCEPT !.sent = @ /\ page'.preview]
  BY DEF Fails
<1>4. /\ page' \in [preview : BOOLEAN, job : Values \cup {None}, needs : BOOLEAN]
      /\ page'.job = page.job /\ page'.preview = PreviewAfter
      /\ page.needs \/ act.kind = "confirm" => page'.needs
      /\ reads' = reads \/ reads' = reads \cup {NoReply}
  <2>1. CASE NeedsRecovery(conflict)
    <3>1. /\ page' = [page EXCEPT !.preview = PreviewAfter, !.needs = TRUE]
          /\ reads' = reads \cup {NoReply}
      BY <2>1 DEF Fails
    <3> QED
      BY <1>1, <1>2, <3>1
  <2>2. CASE ~NeedsRecovery(conflict)
    <3>1. /\ page' = [page EXCEPT !.preview = PreviewAfter] /\ reads' = reads
          /\ act.kind # "confirm"
      BY <2>2 DEF Fails, NeedsRecovery
    <3> QED
      BY <1>1, <1>2, <3>1
  <2> QED
    BY <2>1, <2>2
<1>5. /\ history' \in [sent : BOOLEAN, own : BOOLEAN] /\ history'.own = history.own
      /\ history'.sent = (history.sent /\ page'.preview)
  BY <1>1, <1>2, <1>3, <1>4
<1>6. ~history'.sent /\ token' \in BOOLEAN
  BY <1>1, <1>2, <1>3, <1>4, <1>5
<1> QED
  BY <1>3, <1>4, <1>5, <1>6, RequestEnds

LEMMA TakeRefusalSteps ==
  ASSUME IInv, TakeRefusal
  PROVE  Steps
<1>1. (act.reply.is = "conflict") \in BOOLEAN
  OBVIOUS
<1> QED
  BY <1>1, FailsSteps DEF TakeRefusal

LEMMA LoseActSteps ==
  ASSUME IInv, LoseAct
  PROVE  Steps
BY FailsSteps DEF LoseAct

(***************************************************************************)
(* What is made of the answers                                             *)
(***************************************************************************)

\* The page shows another picture of a batch, of which it happened; a poll goes on only
\* if the same batch is still shown as running.
LEMMA ShownAnew ==
  ASSUME IInv, UNCHANGED jobs, token' \in BOOLEAN,
         page' \in [preview : BOOLEAN, job : Values \cup {None}, needs : BOOLEAN],
         page'.job # None => HappenedIn(jobs, page'.job),
         \/ poll' = None
         \/ poll' = poll /\ IsRunning(page'.job) /\ page'.job.id = page.job.id,
         act' = act \/ act' = NoRequest, act'.kind = "confirm" => page'.job = page.job,
         reads' \subseteq reads \cup {NoReply}, act'.kind = "confirm" => reads' = {},
         history' \in [sent : BOOLEAN, own : BOOLEAN], history'.own => history.own,
         history'.sent => act'.kind = "confirm",
         history'.own => \/ page'.job # None /\ page'.job.id \in Active
                         \/ act'.kind = "confirm" \/ page'.needs
  PROVE  IInv'
<1>1. Orderly(jobs)' /\ Active' = Active
  BY DEF IInv, Active
<1>2. Shaped'
  <2>1. act' \in [kind : {"none", "preview", "confirm", "stop"}, job : 0..MaxJobs,
                  reply : Replies]
    BY NothingIsNoJob DEF IInv, Shaped
  <2>2. reads' \subseteq Replies /\ poll' \in Replies \cup {None}
    BY NothingIsNoJob DEF IInv, Shaped
  <2> QED
    BY <2>1, <2>2 DEF Shaped
<1>3. AnswersHappened'
  <2>1. Tells(jobs', act'.reply)
    BY NothingIsNoJob DEF IInv, AnswersHappened
  <2>2. \A reply \in reads' : Tells(jobs', reply)
    BY NothingIsNoJob DEF IInv, AnswersHappened
  <2>3. poll' # None => Tells(jobs', poll')
    BY DEF IInv, AnswersHappened
  <2> QED
    BY <2>1, <2>2, <2>3 DEF AnswersHappened
<1>4. Polled'
  BY DEF IInv, Polled, IsRunning
<1>5. Requested'
  BY NothingIsNoJob DEF IInv, Requested
<1>6. Confirming'
  <2>1. ASSUME act'.kind = "confirm" PROVE act' = act /\ page'.job = page.job /\ reads' = {}
    BY <2>1, NothingIsNoJob
  <2>2. ASSUME act'.kind = "confirm"
        PROVE  poll' = None /\ ~IsRunning(page'.job)
               /\ (act'.reply.is = "job" /\ page'.job # None => page'.job.id < act'.reply.job.id)
    BY <2>1, <2>2 DEF IInv, Confirming
  <2> QED
    BY <2>1, <2>2 DEF Confirming, IsRunning
<1>7. SentIsPending'
  BY DEF SentIsPending
<1>8. OwnRuns'
  <2> HIDE DEF Active
  <2> QED
    BY <1>1, NothingIsNoJob DEF IInv, OwnRuns
<1>9. OwnIsFound'
  <2> HIDE DEF Active
  <2> QED
    BY <1>1 DEF OwnIsFound
<1> QED
  BY <1>1, <1>2, <1>3, <1>4, <1>5, <1>6, <1>7, <1>8, <1>9 DEF IInv

\* What the page shows of its own batch: the one that runs is the last.
LEMMA OwnIsLast ==
  ASSUME IInv, history.own
  PROVE  /\ Len(jobs) \in Active /\ \A i \in Active : i = Len(jobs)
         /\ \/ page.job # None /\ page.job.id = Len(jobs)
            \/ act.kind = "confirm" \/ page.needs
<1>1. \A i \in Active : i = Len(jobs)
  BY ActiveIsLast DEF IInv
<1>2. Active # {}
  BY DEF IInv, OwnRuns
<1>3. Len(jobs) \in Active
  BY <1>1, <1>2
<1> QED
  BY <1>1, <1>3 DEF IInv, OwnIsFound

LEMMA ShowFields ==
  ASSUME NEW job, NEW others \in [preview : BOOLEAN, job : Values \cup {None}, needs : BOOLEAN],
         job \in Values \cup {None}, Show(job, others)
  PROVE  /\ page' \in [preview : BOOLEAN, job : Values \cup {None}, needs : BOOLEAN]
         /\ page'.job = job /\ page'.needs = others.needs
         /\ \/ poll' = None
            \/ poll' = poll /\ IsRunning(page'.job) /\ page'.job.id = page.job.id
BY DEF Show

LEMMA TakeConfirmedSteps ==
  ASSUME IInv, TakeConfirmed
  PROVE  Steps
<1>1. /\ act.kind = "confirm" /\ act.reply.is = "job" /\ act' = NoRequest
      /\ Show(Updated(act.reply.job, TRUE), [page EXCEPT !.preview = FALSE])
      /\ history' = [history EXCEPT !.sent = FALSE]
      /\ UNCHANGED <<jobs, token, reads>>
  BY DEF TakeConfirmed, server
<1>2. /\ Orderly(jobs) /\ Shaped /\ AnswersHappened
      /\ page \in [preview : BOOLEAN, job : Values \cup {None}, needs : BOOLEAN]
      /\ history \in [sent : BOOLEAN, own : BOOLEAN] /\ token \in BOOLEAN
      /\ act.reply \in Replies
  BY DEF IInv, Shaped
<1>3. act.reply.job \in Values /\ HappenedIn(jobs, act.reply.job)
  BY <1>1, <1>2, ReplyFields DEF AnswersHappened, Tells
<1>4. page.job # None => page.job.id < act.reply.job.id
  BY <1>1 DEF IInv, Confirming
<1> DEFINE job == Updated(act.reply.job, TRUE)
           others == [page EXCEPT !.preview = FALSE]
<1>5. /\ job \in Values /\ HappenedIn(jobs, job)
      /\ page.job # None => Forward(page.job, job)
      /\ act.reply.job.id = Len(jobs) => job.id = Len(jobs)
  BY <1>2, <1>3, <1>4, UpdatedHappened
<1>6. Show(job, others)
  BY <1>1
<1> HIDE DEF job
<1>7. others \in [preview : BOOLEAN, job : Values \cup {None}, needs : BOOLEAN]
  BY <1>2
<1> HIDE DEF others
<1>8. /\ page' \in [preview : BOOLEAN, job : Values \cup {None}, needs : BOOLEAN]
      /\ page'.job = job
      /\ \/ poll' = None
         \/ poll' = poll /\ IsRunning(page'.job) /\ page'.job.id = page.job.id
  BY <1>5, <1>6, <1>7, ShowFields
<1>9. job # None
  BY <1>5, NoneAssumption
<1>10. history' \in [sent : BOOLEAN, own : BOOLEAN] /\ history'.own = history.own
       /\ history'.sent = FALSE
  BY <1>1, <1>2
<1>11. history.own => page'.job # None /\ page'.job.id \in Active
  <2>1. ASSUME history.own PROVE job.id \in Active
    <3>1. act.reply.job.id \in Active
      BY <1>1, <2>1 DEF IInv, OwnRuns
    <3> QED
      BY <1>5, <2>1, <3>1, OwnIsLast
  <2> QED
    BY <1>8, <1>9, <2>1
<1>12. reads' \subseteq reads \cup {NoReply} /\ act'.kind # "confirm" /\ token' \in BOOLEAN
  BY <1>1, <1>2, NothingIsNoJob
<1>13. IInv'
  BY <1>1, <1>5, <1>8, <1>10, <1>11, <1>12, ShownAnew
<1>14. NoStepBack
  BY <1>2, <1>5, <1>8, ForwardIsNoStepBack
<1> QED
  BY <1>13, <1>14 DEF Steps

LEMMA TakeStoppedSteps ==
  ASSUME IInv, TakeStopped
  PROVE  Steps
<1>1. /\ act.kind = "stop" /\ act.reply.is = "job" /\ act' = NoRequest
      /\ Show(Updated(act.reply.job, FALSE), page)
      /\ UNCHANGED <<jobs, token, reads, history>>
  BY DEF TakeStopped, server
<1>2. /\ Orderly(jobs) /\ Shaped /\ AnswersHappened
      /\ page \in [preview : BOOLEAN, job : Values \cup {None}, needs : BOOLEAN]
      /\ history \in [sent : BOOLEAN, own : BOOLEAN] /\ token \in BOOLEAN
      /\ act.reply \in Replies /\ ~history.sent
  BY <1>1 DEF IInv, Shaped, SentIsPending
<1>3. act.reply.job \in Values /\ HappenedIn(jobs, act.reply.job)
  BY <1>1, <1>2, ReplyFields DEF AnswersHappened, Tells
<1> DEFINE job == Updated(act.reply.job, FALSE)
<1>4. /\ job \in Values /\ HappenedIn(jobs, job)
      /\ page.job # None => Forward(page.job, job)
      /\ page.job # None /\ page.job.id = Len(jobs) => job.id = Len(jobs)
  BY <1>2, <1>3, UpdatedHappened
<1>5. Show(job, page)
  BY <1>1
<1> HIDE DEF job
<1>6. /\ page' \in [preview : BOOLEAN, job : Values \cup {None}, needs : BOOLEAN]
      /\ page'.job = job /\ page'.needs = page.needs
      /\ \/ poll' = None
         \/ poll' = poll /\ IsRunning(page'.job) /\ page'.job.id = page.job.id
  BY <1>2, <1>4, <1>5, ShowFields
<1>7. job # None
  BY <1>4, NoneAssumption
<1>8. ASSUME history'.own
      PROVE  (page'.job # None /\ page'.job.id \in Active) \/ page'.needs
  <2>1. /\ Len(jobs) \in Active
        /\ (page.job # None /\ page.job.id = Len(jobs)) \/ page.needs
    BY <1>1, <1>8, OwnIsLast
  <2> HIDE DEF Active
  <2> QED
    BY <1>4, <1>6, <1>7, <2>1
<1>9. reads' \subseteq reads \cup {NoReply} /\ act'.kind # "confirm" /\ token' \in BOOLEAN
  BY <1>1, <1>2, NothingIsNoJob
<1>10. IInv'
  BY <1>1, <1>2, <1>4, <1>6, <1>8, <1>9, ShownAnew
<1>11. NoStepBack
  BY <1>2, <1>4, <1>6, ForwardIsNoStepBack
<1> QED
  BY <1>10, <1>11 DEF Steps

LEMMA TakeReadSteps ==
  ASSUME IInv, TakeRead
  PROVE  Steps
<1>1. PICK reply \in reads \ {NoReply} :
        /\ reads' = reads \ {reply}
        /\ Show(IF reply.is = "job" THEN Updated(reply.job, FALSE) ELSE page.job,
                [page EXCEPT !.needs = FALSE])
        /\ UNCHANGED <<jobs, token, act, history>>
  BY DEF TakeRead, server
<1>2. /\ Orderly(jobs) /\ Shaped /\ AnswersHappened
      /\ page \in [preview : BOOLEAN, job : Values \cup {None}, needs : BOOLEAN]
      /\ history \in [sent : BOOLEAN, own : BOOLEAN] /\ token \in BOOLEAN
      /\ reply \in Replies /\ reply \in reads /\ reply # NoReply
      /\ page.job # None => page.job \in Values /\ HappenedIn(jobs, page.job)
  BY <1>1 DEF IInv, Shaped, AnswersHappened
<1>3. act.kind # "confirm"
  BY <1>2 DEF IInv, Confirming
<1> DEFINE job == IF reply.is = "job" THEN Updated(reply.job, FALSE) ELSE page.job
           others == [page EXCEPT !.needs = FALSE]
<1>4. /\ job \in Values \cup {None}
      /\ job # None => HappenedIn(jobs, job)
      /\ page.job # None => Forward(page.job, job)
      /\ reply.is = "job" => job # None /\ (reply.job.id = Len(jobs) => job.id = Len(jobs))
  <2>1. CASE reply.is = "job"
    <3>1. reply.job \in Values /\ HappenedIn(jobs, reply.job)
      BY <1>2, <2>1, ReplyFields DEF AnswersHappened, Tells
    <3>2. /\ Updated(reply.job, FALSE) \in Values /\ HappenedIn(jobs, Updated(reply.job, FALSE))
          /\ page.job # None => Forward(page.job, Updated(reply.job, FALSE))
          /\ reply.job.id = Len(jobs) => Updated(reply.job, FALSE).id = Len(jobs)
      BY <1>2, <3>1, UpdatedHappened
    <3> QED
      BY <2>1, <3>2, NoneAssumption
  <2>2. CASE reply.is # "job"
    BY <1>2, <2>2, ForwardItself
  <2> QED
    BY <2>1, <2>2
<1>5. Show(job, others)
  BY <1>1
<1>6. others \in [preview : BOOLEAN, job : Values \cup {None}, needs : BOOLEAN]
  BY <1>2
<1> HIDE DEF job, others
<1>7. /\ page' \in [preview : BOOLEAN, job : Values \cup {None}, needs : BOOLEAN]
      /\ page'.job = job
      /\ \/ poll' = None
         \/ poll' = poll /\ IsRunning(page'.job) /\ page'.job.id = page.job.id
  BY <1>4, <1>5, <1>6, ShowFields
<1>8. history'.own => page'.job # None /\ page'.job.id \in Active
  <2>1. ASSUME history.own PROVE job # None /\ job.id \in Active
    <3>1. reply.is = "job" /\ reply.job.id \in Active
      BY <1>2, <2>1 DEF IInv, OwnRuns
    <3> QED
      BY <1>4, <2>1, <3>1, OwnIsLast
  <2> QED
    BY <1>1, <1>7, <2>1
<1>9. /\ reads' \subseteq reads \cup {NoReply} /\ act' = act /\ act'.kind # "confirm"
      /\ token' \in BOOLEAN /\ jobs' = jobs /\ history' = history
  BY <1>1, <1>2, <1>3
<1>10. ~history.sent
  BY <1>3 DEF IInv, SentIsPending
<1>11. IInv'
  BY <1>2, <1>4, <1>7, <1>8, <1>9, <1>10, ShownAnew
<1>12. NoStepBack
  BY <1>2, <1>4, <1>7, ForwardIsNoStepBack
<1> QED
  BY <1>11, <1>12 DEF Steps

\* A step after which the page shows the same batch, and nothing new is under way.
LEMMA SameIsShown ==
  ASSUME IInv, UNCHANGED <<jobs, act, history>>, token' \in BOOLEAN,
         page' \in [preview : BOOLEAN, job : Values \cup {None}, needs : BOOLEAN],
         page'.job = page.job, page'.needs = page.needs,
         poll' = poll \/ poll' = None,
         reads' \subseteq reads \cup {NoReply}, act.kind = "confirm" => reads' = {}
  PROVE  Steps
<1>1. /\ history \in [sent : BOOLEAN, own : BOOLEAN] /\ Shaped /\ Orderly(jobs)
      /\ page.job # None => HappenedIn(jobs, page.job)
      /\ history.sent => act.kind = "confirm"
  BY DEF IInv, Shaped, AnswersHappened, SentIsPending
<1>2. \/ poll' = None
      \/ poll' = poll /\ IsRunning(page'.job) /\ page'.job.id = page.job.id
  <2>1. ASSUME poll # None PROVE IsRunning(page.job)
    BY <2>1 DEF IInv, Polled
  <2>2. ASSUME poll # None PROVE IsRunning(page'.job) /\ page'.job.id = page.job.id
    BY <2>1, <2>2 DEF IsRunning
  <2> QED
    BY <2>2
<1>3. history'.own => \/ page'.job # None /\ page'.job.id \in Active
                      \/ act'.kind = "confirm" \/ page'.needs
  BY DEF IInv, OwnIsFound
<1>4. IInv'
  <2> HIDE DEF Active
  <2> QED
    BY <1>1, <1>2, <1>3, ShownAnew
<1>5. NoStepBack
  BY <1>1, SameJobIsNoStepBack
<1> QED
  BY <1>4, <1>5 DEF Steps

LEMMA PageFields ==
  ASSUME IInv
  PROVE  /\ page \in [preview : BOOLEAN, job : Values \cup {None}, needs : BOOLEAN]
         /\ token \in BOOLEAN /\ history \in [sent : BOOLEAN, own : BOOLEAN]
         /\ act.kind = "confirm" => reads = {} /\ poll = None
BY DEF IInv, Shaped, Confirming

LEMMA ReadFailsSteps ==
  ASSUME IInv, ReadFails
  PROVE  Steps
<1>1. PICK reply \in reads : reads' = reads \ {reply}
  BY DEF ReadFails
<1>2. page' = page /\ UNCHANGED <<jobs, token, act, poll, history>>
  BY DEF ReadFails, AfterFailedRead, server
<1> QED
  BY <1>1, <1>2, PageFields, SameIsShown

LEMMA RetryRecoverySteps ==
  ASSUME IInv, RetryRecovery
  PROVE  Steps
<1>1. /\ act = NoRequest /\ reads' = {NoReply} /\ poll' = None
      /\ UNCHANGED <<jobs, token, page, act, history>>
  BY DEF RetryRecovery, server
<1> QED
  BY <1>1, PageFields, NothingIsNoJob, SameIsShown

LEMMA LosePollSteps ==
  ASSUME IInv, LosePoll
  PROVE  Steps
<1>1. poll' = None /\ UNCHANGED <<jobs, token, page, act, reads, history>>
  BY DEF LosePoll, server
<1> QED
  BY <1>1, PageFields, SameIsShown

LEMMA ClosePreviewSteps ==
  ASSUME IInv, ClosePreview
  PROVE  Steps
<1>1. /\ page' = [page EXCEPT !.preview = FALSE] /\ token' = FALSE
      /\ UNCHANGED <<jobs, act, reads, poll, history>>
  BY DEF ClosePreview
<1>2. /\ page' \in [preview : BOOLEAN, job : Values \cup {None}, needs : BOOLEAN]
      /\ page'.job = page.job /\ page'.needs = page.needs
  BY <1>1, PageFields
<1> QED
  BY <1>1, <1>2, PageFields, SameIsShown

LEMMA DismissSteps ==
  ASSUME IInv, Dismiss
  PROVE  Steps
<1>1. /\ page.job # None /\ ~IsRunning(page.job) /\ ~page.needs /\ act = NoRequest
      /\ page' = [page EXCEPT !.job = None] /\ reads' = {} /\ poll' = None
      /\ UNCHANGED <<jobs, token, act, history>>
  BY DEF Dismiss, NewEpoch, server
<1>2. /\ page' \in [preview : BOOLEAN, job : Values \cup {None}, needs : BOOLEAN]
      /\ page'.job = None /\ act.kind # "confirm" /\ ~history.sent
  BY <1>1, PageFields, NothingIsNoJob DEF IInv, SentIsPending
<1>3. ~history.own
  <2> SUFFICES ASSUME history.own PROVE FALSE
    OBVIOUS
  <2>1. page.job.id = Len(jobs) /\ Len(jobs) \in Active
    BY <1>1, <1>2, OwnIsLast
  <2>2. jobs[Len(jobs)].value.status \in Running
    BY <2>1, ActiveIsLast DEF IInv
  <2>3. page.job \in Values /\ Before(page.job, jobs[Len(jobs)].value)
    BY <1>1, <2>1 DEF IInv, Shaped, AnswersHappened, HappenedIn
  <2>4. page.job.status \in Over
    BY <1>1, <2>3, ValueFields DEF IsRunning
  <2> QED
    BY <2>2, <2>3, <2>4 DEF Before, Running, Over
<1>4. IInv'
  BY <1>1, <1>2, <1>3, PageFields, ShownAnew
<1>5. NoStepBack
  BY <1>2, SameJobIsNoStepBack DEF IInv
<1> QED
  BY <1>4, <1>5 DEF Steps

LEMMA OpenSteps ==
  ASSUME IInv, Open
  PROVE  Steps
<1>1. /\ page' = NoPage /\ act' = NoRequest /\ poll' = None
      /\ reads' = {NoReply} /\ history' = NoHistory /\ token' = FALSE /\ UNCHANGED jobs
  BY DEF Open
<1>2. /\ page' \in [preview : BOOLEAN, job : Values \cup {None}, needs : BOOLEAN]
      /\ page'.job = None
  BY <1>1 DEF NoPage
<1>3. /\ history' \in [sent : BOOLEAN, own : BOOLEAN] /\ history'.own = FALSE
      /\ history'.sent = FALSE
  BY <1>1 DEF NoHistory
<1>4. IInv'
  BY <1>1, <1>2, <1>3, NothingIsNoJob, ShownAnew
<1>5. NoStepBack
  BY <1>2, SameJobIsNoStepBack DEF IInv
<1> QED
  BY <1>4, <1>5 DEF Steps

LEMMA StartPollSteps ==
  ASSUME IInv, StartPoll
  PROVE  Steps
<1>1. IsRunning(page.job) /\ poll' = NoReply /\ UNCHANGED <<jobs, token, page, act, reads, history>>
  BY DEF StartPoll, server
<1>2. Orderly(jobs)' /\ Requested' /\ SentIsPending'
  BY <1>1 DEF IInv, Requested, SentIsPending
<1>3. Shaped'
  BY <1>1, NothingIsNoJob DEF IInv, Shaped
<1>4. AnswersHappened'
  BY <1>1, NothingIsNoJob DEF IInv, AnswersHappened
<1>5. Polled' /\ Confirming'
  BY <1>1, NothingIsNoJob DEF IInv, Polled, Confirming, IsRunning
<1>6. OwnRuns' /\ OwnIsFound'
  <2>1. Active' = Active
    BY <1>1 DEF Active
  <2> HIDE DEF Active
  <2> QED
    BY <1>1, <2>1 DEF IInv, OwnRuns, OwnIsFound
<1>7. NoStepBack
  BY <1>1, SameJobIsNoStepBack DEF IInv
<1> QED
  BY <1>2, <1>3, <1>4, <1>5, <1>6, <1>7 DEF Steps, IInv

LEMMA ServePollSteps ==
  ASSUME IInv, ServePoll
  PROVE  Steps
<1>1. /\ poll = NoReply /\ poll' = PollReply(page.job.id)
      /\ UNCHANGED <<jobs, token, page, act, reads, history>>
  BY DEF ServePoll, server
<1>2. poll # None
  BY <1>1, NothingIsNoJob, NoneAssumption
<1>3. /\ Orderly(jobs) /\ IsRunning(page.job) /\ page.job # None
      /\ page.job.id \in 1..Len(jobs)
  BY <1>2 DEF IInv, Polled, AnswersHappened, HappenedIn, IsRunning
<1>4. /\ jobs[page.job.id].value \in Values /\ Settled(jobs[page.job.id].value)
      /\ jobs[page.job.id].value.id = page.job.id
  BY <1>3, OrderlyJobs
<1>5. /\ poll' \in Replies /\ Tells(jobs, poll')
      /\ poll'.is = "gone" => ~jobs[page.job.id].known
      /\ poll'.is \in {"job", "gone"}
  <2>1. CASE jobs[page.job.id].known
    <3>1. poll' = [is |-> "job", job |-> jobs[page.job.id].value]
      BY <1>1, <2>1 DEF PollReply, Shows
    <3>2. HappenedIn(jobs, jobs[page.job.id].value)
      BY <1>3, <1>4, BeforeItself DEF HappenedIn
    <3> QED
      BY <1>4, <3>1, <3>2 DEF Replies, Tells
  <2>2. CASE ~jobs[page.job.id].known
    <3>1. poll' = [is |-> "gone"]
      BY <1>1, <2>2 DEF PollReply, Says
    <3> QED
      BY <2>2, <3>1 DEF Replies, Refusals, Tells
  <2> QED
    BY <2>1, <2>2
<1>6. Orderly(jobs)' /\ Requested' /\ SentIsPending'
  BY <1>1 DEF IInv, Requested, SentIsPending
<1>7. Shaped'
  BY <1>1, <1>5 DEF IInv, Shaped
<1>8. AnswersHappened'
  BY <1>1, <1>5 DEF IInv, AnswersHappened
<1>9. Polled' /\ Confirming'
  BY <1>1, <1>2, <1>3, <1>5 DEF IInv, Polled, Confirming, IsRunning
<1>10. OwnRuns' /\ OwnIsFound'
  <2>1. Active' = Active
    BY <1>1 DEF Active
  <2> HIDE DEF Active
  <2> QED
    BY <1>1, <2>1 DEF IInv, OwnRuns, OwnIsFound
<1>11. NoStepBack
  BY <1>1, SameJobIsNoStepBack DEF IInv
<1> QED
  BY <1>6, <1>7, <1>8, <1>9, <1>10, <1>11 DEF Steps, IInv

LEMMA ServeReadSteps ==
  ASSUME IInv, ServeRead
  PROVE  Steps
<1>1. /\ NoReply \in reads /\ reads' = (reads \ {NoReply}) \cup {ActiveReply}
      /\ UNCHANGED <<jobs, token, page, act, poll, history>>
  BY DEF ServeRead, server
<1>2. Orderly(jobs) /\ Len(jobs) \in Nat
  BY LenIsNumber DEF IInv
<1>3. /\ ActiveReply \in Replies /\ Tells(jobs, ActiveReply)
      /\ Active # {} => ActiveReply.is = "job" /\ ActiveReply.job.id \in Active
  <2>1. CASE Active = {}
    <3>1. ActiveReply = [is |-> "nothing"]
      BY <2>1 DEF ActiveReply, Says
    <3> QED
      BY <2>1, <3>1 DEF Replies, Refusals, Tells
  <2>2. CASE Active # {}
    <3>1. Active = {Len(jobs)} /\ Len(jobs) \in 1..Len(jobs)
      <4>1. \A i \in Active : i = Len(jobs) /\ i \in 1..Len(jobs)
        BY <1>2, ActiveIsLast
      <4> QED
        BY <2>2, <4>1
    <3>2. Min(Active) = Len(jobs)
      <4>1. Min({Len(jobs), Len(jobs)}) = Len(jobs)
        BY <1>2, Chosen
      <4>2. Active = {Len(jobs), Len(jobs)}
        BY <3>1
      <4> QED
        BY <4>1, <4>2
    <3>3. ActiveReply = [is |-> "job", job |-> jobs[Len(jobs)].value]
      BY <2>2, <3>2 DEF ActiveReply, Shows
    <3>4. /\ jobs[Len(jobs)].value \in Values /\ jobs[Len(jobs)].value.id = Len(jobs)
          /\ Settled(jobs[Len(jobs)].value)
      BY <1>2, <3>1, OrderlyJobs
    <3>5. HappenedIn(jobs, jobs[Len(jobs)].value)
      BY <3>1, <3>4, BeforeItself DEF HappenedIn
    <3>6. ActiveReply \in Replies
      BY <3>3, <3>4 DEF Replies
    <3>7. Tells(jobs, ActiveReply)
      BY <3>3, <3>5 DEF Tells
    <3>8. ActiveReply.is = "job" /\ ActiveReply.job.id \in Active
      BY <3>1, <3>3, <3>4
    <3> QED
      BY <3>6, <3>7, <3>8
  <2> QED
    BY <2>1, <2>2
<1>4. reads # {}
  BY <1>1
<1>5. Orderly(jobs)' /\ Requested' /\ SentIsPending'
  BY <1>1 DEF IInv, Requested, SentIsPending
<1>6. Shaped'
  BY <1>1, <1>3 DEF IInv, Shaped
<1>7. AnswersHappened'
  BY <1>1, <1>3 DEF IInv, AnswersHappened
<1>8. Polled' /\ Confirming'
  BY <1>1, <1>4 DEF IInv, Polled, Confirming, IsRunning
<1>9. OwnRuns' /\ OwnIsFound'
  <2>1. Active' = Active
    BY <1>1 DEF Active
  <2> HIDE DEF Active
  <2> QED
    BY <1>1, <1>3, <2>1 DEF IInv, OwnRuns, OwnIsFound
<1>10. NoStepBack
  BY <1>1, SameJobIsNoStepBack DEF IInv
<1> QED
  BY <1>5, <1>6, <1>7, <1>8, <1>9, <1>10 DEF Steps, IInv

LEMMA TakePollSteps ==
  ASSUME IInv, TakePoll
  PROVE  Steps
<1>1. /\ poll # None /\ poll # NoReply /\ poll' = None
      /\ UNCHANGED <<jobs, token, act, history>>
  BY DEF TakePoll, server
<1>2. /\ Orderly(jobs) /\ Shaped /\ AnswersHappened /\ poll \in Replies
      /\ Tells(jobs, poll) /\ act.kind # "confirm" /\ ~history.sent
  BY <1>1 DEF IInv, Shaped, AnswersHappened, Confirming, SentIsPending
<1>3. /\ page.job # None /\ page.job \in Values /\ HappenedIn(jobs, page.job)
      /\ poll.is = "gone" => ~jobs[page.job.id].known
  BY <1>1 DEF IInv, Polled, IsRunning, Shaped, AnswersHappened
<1>4. history.own => page.job.id = Len(jobs) \/ page.needs
  BY <1>2, OwnIsLast
<1>5. CASE poll.is = "gone"
  <2>1. page' = [page EXCEPT !.job = None] /\ reads' = reads \cup {NoReply}
    BY <1>5 DEF TakePoll, AfterGone
  <2>2. /\ page' \in [preview : BOOLEAN, job : Values \cup {None}, needs : BOOLEAN]
        /\ page'.job = None /\ page'.needs = page.needs
    BY <2>1, PageFields
  <2>3. history'.own => page'.needs
    <3>1. ASSUME history.own, ~page.needs PROVE FALSE
      <4>1. page.job.id = Len(jobs) /\ Len(jobs) \in Active
        BY <1>4, <3>1, OwnIsLast
      <4>2. jobs[Len(jobs)].known
        BY <1>2, <4>1, ActiveIsLast
      <4> QED
        BY <1>3, <1>5, <4>1, <4>2
    <3> QED
      BY <1>1, <2>2, <3>1
  <2>4. IInv'
    BY <1>1, <1>2, <2>1, <2>2, <2>3, PageFields, ShownAnew
  <2>5. NoStepBack
    BY <1>2, <2>2, SameJobIsNoStepBack
  <2> QED
    BY <2>4, <2>5 DEF Steps
<1>6. CASE poll.is # "gone"
  <2> DEFINE job == Updated(poll.job, FALSE)
  <2>1. page' = [page EXCEPT !.job = job] /\ reads' = reads
    BY <1>6 DEF TakePoll
  <2>2. poll.is = "job"
    <3>1. poll.is \in {"none", "job", "gone"}
      BY <1>1 DEF IInv, Polled
    <3>2. poll.is # "none"
      BY <1>1, <1>2 DEF Replies, NoReply
    <3> QED
      BY <1>6, <3>1, <3>2
  <2>3. poll.job \in Values /\ HappenedIn(jobs, poll.job)
    BY <1>2, <2>2, ReplyFields DEF Tells
  <2>4. /\ job \in Values /\ HappenedIn(jobs, job) /\ Forward(page.job, job)
        /\ page.job.id = Len(jobs) => job.id = Len(jobs)
    BY <1>2, <1>3, <2>3, UpdatedHappened
  <2>5. job # None
    BY <2>4, NoneAssumption
  <2> HIDE DEF job
  <2>6. /\ page' \in [preview : BOOLEAN, job : Values \cup {None}, needs : BOOLEAN]
        /\ page'.job = job /\ page'.needs = page.needs
    BY <2>1, <2>4, PageFields
  <2>7. history'.own => (page'.job # None /\ page'.job.id \in Active) \/ page'.needs
    <3>1. ASSUME history.own PROVE Len(jobs) \in Active
      BY <3>1, OwnIsLast
    <3> HIDE DEF Active
    <3> QED
      BY <1>1, <1>4, <2>4, <2>5, <2>6, <3>1
  <2>8. IInv'
    BY <1>1, <1>2, <2>1, <2>4, <2>6, <2>7, PageFields, ShownAnew
  <2>9. NoStepBack
    BY <1>3, <2>4, <2>6, ForwardIsNoStepBack
  <2> QED
    BY <2>8, <2>9 DEF Steps
<1> QED
  BY <1>5, <1>6

(***************************************************************************)
(* The theorems                                                            *)
(***************************************************************************)

LEMMA ServerSteps ==
  ASSUME IInv, Server
  PROVE  Steps
<1>1. CASE ServerMoves
  <2>1. page' = page
    BY <1>1 DEF ServerMoves
  <2> QED
    BY <1>1, <2>1, MovesKeep, SameJobIsNoStepBack DEF Steps, IInv
<1>2. CASE ServeAct
  <2>1. page' = page
    BY <1>2 DEF ServeAct
  <2> QED
    BY <1>2, <2>1, ServeActKeeps, SameJobIsNoStepBack DEF Steps, IInv
<1> QED
  BY <1>1, <1>2, RowEndsMoves, PauseEndsMoves, StartedElsewhereMoves, StoppedElsewhereMoves,
     PreviewExpiresMoves, JobExpiresMoves, RestartMoves, ServeReadSteps, ServePollSteps
     DEF Server

LEMMA BrowserSteps ==
  ASSUME IInv, Browser
  PROVE  Steps
<1>1. ASSUME CreatePreview \/ Confirm \/ Stop PROVE Steps
  <2>1. page' = page
    BY <1>1 DEF CreatePreview, Confirm, Stop, Begin
  <2>2. IInv'
    BY <1>1, CreatePreviewKeeps, ConfirmKeeps, StopKeeps
  <2> QED
    BY <2>1, <2>2, SameJobIsNoStepBack DEF Steps, IInv
<1> QED
  BY <1>1, RetryRecoverySteps, ClosePreviewSteps, DismissSteps, OpenSteps, TakePreviewSteps,
     TakeConfirmedSteps, TakeStoppedSteps, TakeRefusalSteps, LoseActSteps, TakeReadSteps,
     ReadFailsSteps, StartPollSteps, TakePollSteps, LosePollSteps
     DEF Browser

LEMMA StepsAreTrue ==
  ASSUME IInv, [Next]_vars
  PROVE  IInv' /\ [NoStepBack /\ SentOnce]_vars
<1>1. CASE UNCHANGED vars
  <2>1. UNCHANGED <<jobs, token, page, act, reads, poll, history>>
    BY <1>1 DEF vars
  <2>2. IInv'
    BY <2>1 DEF IInv, Shaped, AnswersHappened, Polled, Requested, Confirming, SentIsPending,
                OwnRuns, OwnIsFound, Active, IsRunning
  <2> QED
    BY <1>1, <2>2
<1>2. CASE Next
  <2>1. IInv' /\ NoStepBack
    BY <1>2, ServerSteps, BrowserSteps DEF Next, Steps
  <2>2. SentOnce
    BY DEF IInv, SentIsPending, SentOnce
  <2> QED
    BY <2>1, <2>2
<1> QED
  BY <1>1, <1>2

THEOREM Invariance == Spec => []IInv
<1>1. Init => IInv
  BY InitIsSound
<1>2. IInv /\ [Next]_vars => IInv'
  BY StepsAreTrue
<1> QED
  BY <1>1, <1>2, PTL DEF Spec

LEMMA SoundIsTyped == IInv => TypeOK
<1> SUFFICES ASSUME IInv PROVE TypeOK
  OBVIOUS
<1>1. jobs \in Seq(Jobs) /\ Len(jobs) <= MaxJobs
  BY DEF IInv, Orderly
<1>2. Cardinality(Active) <= 1
  <2>1. Active \subseteq {Len(jobs)}
    BY ActiveIsLast DEF IInv
  <2>2. CASE Active = {}
    BY <2>2, FS_EmptySet
  <2>3. CASE Active = {Len(jobs)}
    <3> DEFINE last == Len(jobs)
    <3>1. Cardinality({last}) = 1
      BY FS_Singleton
    <3> QED
      BY <2>3, <3>1
  <2> QED
    BY <2>1, <2>2, <2>3
<1>3. /\ token \in BOOLEAN /\ page.preview \in BOOLEAN /\ page.needs \in BOOLEAN
      /\ page.job # None => page.job \in Values
      /\ act.kind \in {"none", "preview", "confirm", "stop"}
      /\ act.job \in 0..MaxJobs /\ act.reply \in Replies /\ reads \subseteq Replies
      /\ history \in [sent : BOOLEAN, own : BOOLEAN]
  BY DEF IInv, Shaped
<1>4. poll # None => IsRunning(page.job) /\ poll \in Replies
  BY DEF IInv, Shaped, Polled
<1> QED
  BY <1>1, <1>2, <1>3, <1>4 DEF TypeOK

LEMMA SoundHappened == IInv => ShownHappened
<1> SUFFICES ASSUME IInv, page.job # None
             PROVE  LET v == jobs[page.job.id].value IN
                    /\ \A r \in DOMAIN v.rows :
                          /\ Progress(page.job.rows[r]) <= Progress(v.rows[r])
                          /\ page.job.rows[r] \in Finished => page.job.rows[r] = v.rows[r]
                    /\ IsFinished(page.job) =>
                          /\ page.job.status = v.status
                          /\ \A r \in DOMAIN page.job.rows : page.job.rows[r] \in Finished
                    /\ page.job.stop => v.stop
  BY DEF ShownHappened
<1> DEFINE v == jobs[page.job.id].value
<1>1. /\ page.job \in Values /\ v \in Values /\ Before(page.job, v) /\ page.job.id = v.id
  BY OrderlyJobs DEF IInv, Shaped, AnswersHappened, HappenedIn, Before
<1>2. DOMAIN v.rows = Rows(v.id) /\ DOMAIN page.job.rows = Rows(v.id)
  BY <1>1, ValueFields
<1> HIDE DEF v
<1>3. /\ \A r \in DOMAIN v.rows :
            /\ Progress(page.job.rows[r]) <= Progress(v.rows[r])
            /\ page.job.rows[r] \in Finished => page.job.rows[r] = v.rows[r]
      /\ IsFinished(page.job) =>
            /\ page.job.status = v.status
            /\ \A r \in DOMAIN page.job.rows : page.job.rows[r] \in Finished
      /\ page.job.stop => v.stop
  BY <1>1, <1>2 DEF Before, IsFinished
<1> QED
  BY <1>3 DEF v

\* The state has its types, and one batch runs at a time (TypeOK).
THEOREM TypeCorrect == Spec => []TypeOK
BY Invariance, SoundIsTyped, PTL

\* The page is true to the batches of the server although answers are lost, delayed and
\* overtaken (useBatchMarket.ts): what it shows has happened, the batch it confirmed is
\* found, nothing it shows goes back, and no token is sent twice.
THEOREM PageIsTrueHolds == Spec => PageIsTrue
<1> DEFINE A == NoStepBack /\ SentOnce
<1>1. Spec => [](ShownHappened /\ OwnIsFound)
  <2>1. IInv => ShownHappened /\ OwnIsFound
    BY SoundHappened DEF IInv
  <2> QED
    BY <2>1, Invariance, PTL
<1>2. Spec => [][A]_vars
  <2>1. IInv /\ [Next]_vars => [A]_vars
    BY StepsAreTrue
  <2> HIDE DEF A
  <2> QED
    BY <2>1, Invariance, PTL DEF Spec
<1>3. PageIsTrue <=> [](ShownHappened /\ OwnIsFound) /\ [][A]_vars
  BY DEF PageIsTrue
<1> HIDE DEF A
<1> QED
  BY <1>1, <1>2, <1>3, PTL

(***************************************************************************)
(* The money of the market: MarketMoney                                    *)
(***************************************************************************)

\* The powers of ten of the decimals of a currency (0 to 3).
LEMMA TenthsAre ==
    ASSUME NEW n \in 0..3 PROVE 10^n \in {1, 10, 100, 1000}
<1>1. 10^0 = 1 /\ 10^1 = 10 /\ 10^2 = 100 /\ 10^3 = 1000
  BY SMT
<1>2. n = 0 \/ n = 1 \/ n = 2 \/ n = 3
  OBVIOUS
<1>3. CASE n = 0
  BY <1>1, <1>3
<1>4. CASE n = 1
  BY <1>1, <1>4
<1>5. CASE n = 2
  BY <1>1, <1>5
<1>6. CASE n = 3
  BY <1>1, <1>6
<1> QED
  BY <1>2, <1>3, <1>4, <1>5, <1>6

\* A product grows with its factor.
LEMMA ProductGrows ==
    ASSUME NEW a \in Nat, NEW b \in Nat, NEW c \in Nat, a <= b
    PROVE  a * c \in Nat /\ b * c \in Nat /\ a * c <= b * c
  OBVIOUS

\* What the quotient and the remainder of a division are.
LEMMA Division ==
    ASSUME NEW a \in Nat, NEW b \in Nat \ {0}
    PROVE  a \div b \in Nat /\ b * (a \div b) <= a /\ a < b * (a \div b) + b
  OBVIOUS

\* The quotient is the greatest number that fits.
LEMMA QuotientIs ==
    ASSUME NEW a \in Nat, NEW b \in Nat \ {0}, NEW q \in Nat
    PROVE  b * q <= a <=> q <= a \div b
<1> DEFINE d == a \div b
<1>1. d \in Nat /\ b * d <= a /\ a < b * d + b
  BY Division
<1> HIDE DEF d
<1>2. CASE q <= d
  <2>1. q * b <= d * b
    BY <1>1, <1>2, ProductGrows
  <2> QED
    BY <1>1, <1>2, <2>1 DEF d
<1>3. CASE q >= d + 1
  <2>1. (d + 1) * b <= q * b
    BY <1>1, <1>3, ProductGrows
  <2>2. (d + 1) * b = b * d + b
    BY <1>1
  <2> QED
    BY <1>1, <1>3, <2>1, <2>2 DEF d
<1> QED
  BY <1>1, <1>2, <1>3

\* A quotient grows with the dividend.
LEMMA DivisionGrows ==
    ASSUME NEW a \in Nat, NEW c \in Nat, NEW b \in Nat \ {0}, a <= c
    PROVE  a \div b \in Nat /\ c \div b \in Nat /\ a \div b <= c \div b
<1>1. a \div b \in Nat /\ c \div b \in Nat /\ b * (a \div b) <= a
  BY Division
<1>2. b * (a \div b) <= c
  BY <1>1
<1> QED
  BY <1>1, <1>2, QuotientIs

\* Fees do not fall when the share grows, although they jump to the minimum of the wallet
\* and are rounded to its grid.
LEMMA FeeGrows ==
    ASSUME NEW w, Wallet(w), NEW r, Rate(r), NEW a \in Nat, NEW b \in Nat, a <= b
    PROVE  Fee(a, r, w) \in Nat /\ Fee(b, r, w) \in Nat /\ Fee(a, r, w) <= Fee(b, r, w)
<1>1. /\ w.minimum \in Nat \ {0} /\ w.increment \in Nat \ {0} /\ w.minimum % w.increment = 0
      /\ r.num \in Nat /\ r.den \in Nat \ {0}
  BY DEF Wallet, Rate
<1> DEFINE f == (a * r.num) \div r.den
           g == (b * r.num) \div r.den
           inc == w.increment
           min == w.minimum
           up(x) == ((2 * x + inc) \div (2 * inc)) * inc
<1>2. f \in Nat /\ g \in Nat /\ f <= g
  BY <1>1, ProductGrows, DivisionGrows
<1>3. ASSUME NEW x \in Nat, NEW y \in Nat, x <= y
      PROVE  up(x) \in Nat /\ up(y) \in Nat /\ up(x) <= up(y)
  <2> DEFINE s == (2 * x + inc) \div (2 * inc)
             t == (2 * y + inc) \div (2 * inc)
  <2>1. 2 * inc \in Nat \ {0} /\ 2 * x + inc \in Nat /\ 2 * y + inc \in Nat
        /\ 2 * x + inc <= 2 * y + inc
    BY <1>1, <1>3
  <2>2. s \in Nat /\ t \in Nat /\ s <= t
    BY <2>1, DivisionGrows
  <2> HIDE DEF s, t
  <2>3. s * inc \in Nat /\ t * inc \in Nat /\ s * inc <= t * inc
    BY <1>1, <2>2, ProductGrows
  <2> QED
    BY <2>3 DEF s, t
<1>4. ASSUME NEW x \in Nat, min <= x PROVE min <= up(x)
  <2> DEFINE m == min \div inc
             s == (2 * x + inc) \div (2 * inc)
  <2>1. m \in Nat /\ min = inc * m
    BY <1>1
  <2>2. 2 * inc \in Nat \ {0} /\ 2 * x + inc \in Nat
    BY <1>1, <1>4
  <2> HIDE DEF m
  <2>3. (2 * inc) * m <= 2 * x + inc
    <3>1. (2 * inc) * m = 2 * (inc * m)
      BY <1>1, <2>1
    <3> QED
      BY <1>1, <1>4, <2>1, <3>1
  <2>4. m <= s /\ s \in Nat
    BY <2>1, <2>2, <2>3, QuotientIs, Division
  <2> HIDE DEF s
  <2>5. m * inc <= s * inc
    BY <1>1, <2>1, <2>4, ProductGrows
  <2>6. m * inc = min
    BY <1>1, <2>1
  <2> QED
    BY <2>5, <2>6 DEF s
<1> HIDE DEF f, g, up
<1>5. /\ Fee(a, r, w) = IF r.num = 0 THEN 0 ELSE IF f <= min THEN min ELSE up(f)
      /\ Fee(b, r, w) = IF r.num = 0 THEN 0 ELSE IF g <= min THEN min ELSE up(g)
  BY DEF Fee, f, g, up
<1>6. CASE r.num = 0
  BY <1>5, <1>6
<1>7. CASE r.num # 0 /\ g <= min
  BY <1>1, <1>2, <1>5, <1>7
<1>8. CASE r.num # 0 /\ ~(g <= min) /\ f <= min
  <2>1. min <= up(g) /\ up(g) \in Nat
    BY <1>1, <1>2, <1>3, <1>4, <1>8
  <2> QED
    BY <1>1, <1>5, <1>8, <2>1
<1>9. CASE r.num # 0 /\ ~(g <= min) /\ ~(f <= min)
  BY <1>2, <1>3, <1>5, <1>9
<1> QED
  BY <1>6, <1>7, <1>8, <1>9

\* What the buyer pays does not fall when the share grows, and is at least the share.
LEMMA PriceGrows ==
    ASSUME NEW w, Wallet(w), Rate(w.steamRate), NEW r, Rate(r),
           NEW a \in Nat, NEW b \in Nat, a <= b
    PROVE  /\ BuyerPays(a, w, r) \in Nat /\ BuyerPays(b, w, r) \in Nat
           /\ BuyerPays(a, w, r) <= BuyerPays(b, w, r) /\ a <= BuyerPays(a, w, r)
<1>1. /\ Fee(a, r, w) \in Nat /\ Fee(b, r, w) \in Nat /\ Fee(a, r, w) <= Fee(b, r, w)
      /\ Fee(a, w.steamRate, w) \in Nat /\ Fee(b, w.steamRate, w) \in Nat
      /\ Fee(a, w.steamRate, w) <= Fee(b, w.steamRate, w)
  BY FeeGrows
<1>2. w.steamBase \in Nat
  BY DEF Wallet
<1> QED
  BY <1>1, <1>2 DEF BuyerPays

\* A set of natural numbers has a least one.
LEMMA LeastExists ==
    ASSUME NEW T \in SUBSET Nat, T # {}
    PROVE  \E x \in T : \A y \in T : x <= y
<1>1. PICK x \in T : \A y \in T : ~(<<y, x>> \in OpToRel(<, Nat))
  BY NatLessThanWellFounded, WFMin
<1>2. ASSUME NEW y \in T PROVE ~(y < x)
  <2>1. ASSUME y < x PROVE <<y, x>> \in OpToRel(<, Nat)
    <3>1. y \in Nat /\ x \in Nat
      OBVIOUS
    <3> QED
      BY <2>1, <3>1, Zenon DEF OpToRel
  <2> QED
    BY <1>1, <2>1
<1> QED
  BY <1>2

\* A bounded set of natural numbers has a greatest one.
LEMMA GreatestOf ==
    ASSUME NEW S \in SUBSET Nat, NEW n \in Nat, \A k \in S : k <= n, S # {}
    PROVE  \E x \in S : \A y \in S : y <= x
<1> DEFINE T == {n - k : k \in S}
<1>1. T \in SUBSET Nat /\ T # {}
  <2>1. \A k \in S : n - k \in Nat
    OBVIOUS
  <2>2. PICK k \in S : TRUE
    OBVIOUS
  <2>3. n - k \in T
    BY <2>2
  <2> QED
    BY <2>1, <2>3
<1>2. PICK t \in T : \A u \in T : t <= u
  <2> HIDE DEF T
  <2> QED
    BY <1>1, LeastExists
<1>3. PICK x \in S : t = n - x
  OBVIOUS
<1>4. ASSUME NEW y \in S PROVE y <= x
  <2>1. n - y \in T
    OBVIOUS
  <2>2. t <= n - y
    BY <1>2, <2>1
  <2> QED
    BY <1>3, <2>2
<1> QED
  BY <1>4

\* The shares within a range of the grid that fit, and the highest of them.
FitsAt(k, cap, w, rate) == Fits(k * w.increment, cap, w, rate)
Between(s, cap, w, rate) == {k \in s[1]..s[2] : FitsAt(k, cap, w, rate)}
Highest(S) == CHOOSE x \in S : \A y \in S : y <= x
Found(s, cap, w, rate) ==
    LET S == Between(s, cap, w, rate)
    IN  IF S = {} THEN s[3] ELSE Highest(S) * w.increment

Searches == Nat \X Int \X Nat

\* The highest of a bounded set belongs to it.
LEMMA HighestIs ==
    ASSUME NEW S \in SUBSET Nat, NEW n \in Nat, \A k \in S : k <= n, S # {}
    PROVE  Highest(S) \in S /\ \A y \in S : y <= Highest(S)
  BY GreatestOf DEF Highest

\* There is one highest.
LEMMA HighestIsOne ==
    ASSUME NEW S \in SUBSET Nat, NEW x \in S, \A y \in S : y <= x
    PROVE  Highest(S) = x
<1>1. Highest(S) \in S /\ \A y \in S : y <= Highest(S)
  BY DEF Highest
<1>2. x <= Highest(S) /\ Highest(S) <= x /\ x \in Nat /\ Highest(S) \in Nat
  BY <1>1
<1> QED
  BY <1>2

\* What fits at a share fits at every lower one.
LEMMA FitsDown ==
    ASSUME NEW w, Wallet(w), Rate(w.steamRate), NEW r, Rate(r), NEW cap \in Nat,
           NEW k \in Nat, NEW l \in Nat, k <= l, FitsAt(l, cap, w, r)
    PROVE  FitsAt(k, cap, w, r)
<1>1. w.increment \in Nat
  BY DEF Wallet
<1>2. k * w.increment \in Nat /\ l * w.increment \in Nat /\ k * w.increment <= l * w.increment
  BY <1>1, ProductGrows
<1>3. /\ BuyerPays(k * w.increment, w, r) \in Nat /\ BuyerPays(l * w.increment, w, r) \in Nat
      /\ BuyerPays(k * w.increment, w, r) <= BuyerPays(l * w.increment, w, r)
  BY <1>2, PriceGrows
<1> QED
  BY <1>3 DEF FitsAt, Fits

\* One step of the search by halves
LEMMA HalfIs ==
    ASSUME NEW w, Wallet(w), Rate(w.steamRate), NEW r, Rate(r), NEW cap \in Nat,
           NEW low \in Nat, NEW high \in Int, NEW best \in Nat
    PROVE  LET middle == (low + high) \div 2
               s      == <<low, high, best>>
           IN  Found(s, cap, w, r) =
                  IF low > high THEN best
                  ELSE IF FitsAt(middle, cap, w, r)
                       THEN Found(<<middle + 1, high, middle * w.increment>>, cap, w, r)
                       ELSE Found(<<low, middle - 1, best>>, cap, w, r)
<1> DEFINE middle == (low + high) \div 2
           s      == <<low, high, best>>
           upper  == <<middle + 1, high, middle * w.increment>>
           lower  == <<low, middle - 1, best>>
           S      == Between(s, cap, w, r)
           U      == Between(upper, cap, w, r)
           D      == Between(lower, cap, w, r)
<1>1. S = {k \in low..high : FitsAt(k, cap, w, r)}
  BY DEF Between
<1>2. U = {k \in (middle + 1)..high : FitsAt(k, cap, w, r)}
  BY DEF Between
<1>3. D = {k \in low..(middle - 1) : FitsAt(k, cap, w, r)}
  BY DEF Between
<1>4. /\ Found(s, cap, w, r) = IF S = {} THEN best ELSE Highest(S) * w.increment
      /\ Found(upper, cap, w, r) = IF U = {} THEN middle * w.increment ELSE Highest(U) * w.increment
      /\ Found(lower, cap, w, r) = IF D = {} THEN best ELSE Highest(D) * w.increment
  BY DEF Found
<1> HIDE DEF S, U, D
<1>5. CASE low > high
  <2>1. S = {}
    BY <1>1, <1>5
  <2> QED
    BY <1>4, <1>5, <2>1
<1>6. CASE low <= high
  <2>1. middle \in low..high /\ middle \in Nat /\ high \in Nat
    BY <1>6
  <2> HIDE DEF middle
  <2>2. CASE FitsAt(middle, cap, w, r)
    <3>1. middle \in S /\ S \in SUBSET Nat /\ U \in SUBSET Nat /\ (\A k \in U : k <= high)
      BY <1>1, <1>2, <2>1, <2>2
    <3>2. CASE U = {}
      <4>1. \A k \in S : k <= middle
        BY <1>1, <1>2, <2>1, <3>2
      <4>2. Highest(S) = middle
        BY <3>1, <4>1, HighestIsOne
      <4>3. Found(s, cap, w, r) = Found(upper, cap, w, r)
        BY <1>4, <3>1, <3>2, <4>2
      <4> QED
        BY <1>6, <2>1, <2>2, <4>3 DEF middle
    <3>3. CASE U # {}
      <4>1. Highest(U) \in U /\ \A y \in U : y <= Highest(U)
        BY <2>1, <3>1, <3>3, HighestIs
      <4>2. Highest(U) \in S /\ \A y \in S : y <= Highest(U)
        BY <1>1, <1>2, <2>1, <4>1
      <4>3. Highest(S) = Highest(U)
        BY <3>1, <4>2, HighestIsOne
      <4>4. Found(s, cap, w, r) = Found(upper, cap, w, r)
        BY <1>4, <3>1, <3>3, <4>3
      <4> QED
        BY <1>6, <2>1, <2>2, <4>4 DEF middle
    <3> QED
      BY <3>2, <3>3
  <2>3. CASE ~FitsAt(middle, cap, w, r)
    <3>1. ASSUME NEW k \in low..high, FitsAt(k, cap, w, r) PROVE k \in low..(middle - 1)
      <4>1. k \in Nat /\ ~(middle <= k)
        BY <2>1, <2>3, <3>1, FitsDown
      <4> QED
        BY <2>1, <4>1
    <3>2. S = D
      BY <1>1, <1>3, <2>1, <3>1
    <3>3. Found(s, cap, w, r) = Found(lower, cap, w, r)
      BY <1>4, <3>2
    <3> QED
      BY <1>6, <2>1, <2>3, <3>3 DEF middle
  <2> QED
    BY <2>2, <2>3
<1> QED
  BY <1>5, <1>6

\* The range of the grid that quoteFromBuyerCap searches
Start(cap, w) == <<w.minimum \div w.increment, cap \div w.increment, 0>>

\* quoteFromBuyerCap is the highest share that fits between the minimum and the cap.
LEMMA SearchFinds ==
    ASSUME NEW w, Wallet(w), Rate(w.steamRate), NEW r, Rate(r), NEW cap \in Nat
    PROVE  QuoteFromBuyerCap(cap, w, r) = Found(Start(cap, w), cap, w, r)
<1> DEFINE B(f) == [s \in Nat \X Int \X Nat |->
                LET low    == s[1]
                    high   == s[2]
                    middle == (low + high) \div 2
                    base   == middle * w.increment
                IN  IF low > high THEN s[3]
                    ELSE IF Fits(base, cap, w, r) THEN f[<<middle + 1, high, base>>]
                    ELSE f[<<low, middle - 1, s[3]>>]]
           search == CHOOSE f : f = B(f)
           v == [s \in Searches |-> Found(s, cap, w, r)]
           Halves(f, low, high, best) ==
                IF low > high THEN best
                ELSE IF FitsAt((low + high) \div 2, cap, w, r)
                THEN f[<<(low + high) \div 2 + 1, high, ((low + high) \div 2) * w.increment>>]
                ELSE f[<<low, (low + high) \div 2 - 1, best>>]
<1>1. QuoteFromBuyerCap(cap, w, r) = search[Start(cap, w)]
  BY DEF QuoteFromBuyerCap, Start
<1>2. w.minimum \in Nat /\ w.increment \in Nat \ {0}
  BY DEF Wallet
<1>3. ASSUME NEW f, NEW low \in Nat, NEW high \in Int, NEW best \in Nat
      PROVE  B(f)[<<low, high, best>>] = Halves(f, low, high, best)
  BY DEF FitsAt
<1>4. ASSUME NEW low \in Nat, NEW high \in Int, NEW best \in Nat, low <= high
      PROVE  LET middle == (low + high) \div 2
             IN  /\ middle \in Nat /\ middle * w.increment \in Nat
                 /\ low <= middle /\ middle <= high /\ high \in Nat
                 /\ <<middle + 1, high, middle * w.increment>> \in Searches
                 /\ <<low, middle - 1, best>> \in Searches
  <2> DEFINE middle == (low + high) \div 2
  <2>1. middle \in Nat /\ low <= middle /\ middle <= high /\ high \in Nat
    BY <1>4
  <2> HIDE DEF middle
  <2>2. middle * w.increment \in Nat
    BY <1>2, <2>1
  <2>3. middle + 1 \in Nat /\ middle - 1 \in Int
    BY <2>1
  <2> QED
    BY <2>1, <2>2, <2>3 DEF middle, Searches
<1>5. \A s \in Searches : v[s] = Found(s, cap, w, r)
  OBVIOUS
<1>6. ASSUME NEW low \in Nat, NEW high \in Int, NEW best \in Nat
      PROVE  v[<<low, high, best>>] = Halves(v, low, high, best)
  <2> DEFINE middle == (low + high) \div 2
             upper  == <<middle + 1, high, middle * w.increment>>
             lower  == <<low, middle - 1, best>>
  <2>1. v[<<low, high, best>>] = Found(<<low, high, best>>, cap, w, r)
    BY <1>5 DEF Searches
  <2>2. Found(<<low, high, best>>, cap, w, r) =
            IF low > high THEN best
            ELSE IF FitsAt(middle, cap, w, r) THEN Found(upper, cap, w, r)
            ELSE Found(lower, cap, w, r)
    BY HalfIs
  <2>3. low <= high => v[upper] = Found(upper, cap, w, r) /\ v[lower] = Found(lower, cap, w, r)
    <3> HIDE DEF v
    <3> QED
      BY <1>4, <1>5
  <2>4. Halves(v, low, high, best) = IF low > high THEN best
            ELSE IF FitsAt(middle, cap, w, r) THEN v[upper] ELSE v[lower]
    OBVIOUS
  <2>5. low <= high \/ low > high
    OBVIOUS
  <2> HIDE DEF v, upper, lower, middle, Halves
  <2> QED
    BY <2>1, <2>2, <2>3, <2>4, <2>5
<1>7. v = B(v)
  <2>1. ASSUME NEW s \in Searches PROVE v[s] = B(v)[s]
    <3>1. PICK low \in Nat, high \in Int, best \in Nat : s = <<low, high, best>>
      BY DEF Searches
    <3> HIDE DEF v, B, Halves
    <3> QED
      BY <1>3, <1>6, <3>1
  <2>2. v = [s \in Searches |-> v[s]]
    OBVIOUS
  <2>3. B(v) = [s \in Searches |-> B(v)[s]]
    BY DEF Searches
  <2> HIDE DEF v, B
  <2> QED
    BY <2>1, <2>2, <2>3
<1>8. search = B(search)
  <2> HIDE DEF v, B
  <2> QED
    BY <1>7
<1>9. \A s \in Searches : search[s] = v[s]
  <2> HIDE DEF search
  <2> DEFINE Size(s) == IF s[1] > s[2] THEN 0 ELSE s[2] - s[1] + 1
             T == {n \in Nat : \E s \in Searches : Size(s) = n /\ search[s] # v[s]}
  <2>1. ASSUME NEW low \in Nat, NEW high \in Int, NEW best \in Nat
        PROVE  search[<<low, high, best>>] = Halves(search, low, high, best)
    <3> HIDE DEF B, Halves
    <3> QED
      BY <1>3, <1>8
  <2>2. \A s \in Searches : Size(s) \in Nat
    <3> TAKE s \in Searches
    <3>1. s[1] \in Nat /\ s[2] \in Int
      BY DEF Searches
    <3> QED
      BY <3>1
  <2>3. ASSUME T # {} PROVE FALSE
    <3>1. PICK n \in T : \A m \in T : n <= m
      <4>1. T \in SUBSET Nat
        OBVIOUS
      <4> HIDE DEF T
      <4> QED
        BY <2>3, <4>1, LeastExists
    <3>2. PICK low \in Nat, high \in Int, best \in Nat :
            /\ Size(<<low, high, best>>) = n
            /\ search[<<low, high, best>>] # v[<<low, high, best>>]
      <4>1. PICK s \in Searches : Size(s) = n /\ search[s] # v[s]
        BY <3>1
      <4>2. PICK low \in Nat, high \in Int, best \in Nat : s = <<low, high, best>>
        BY DEF Searches
      <4> HIDE DEF v, Size
      <4> QED
        BY <4>1, <4>2
    <3> DEFINE middle == (low + high) \div 2
               upper  == <<middle + 1, high, middle * w.increment>>
               lower  == <<low, middle - 1, best>>
    <3>3. low <= high
      <4>1. ASSUME low > high PROVE search[<<low, high, best>>] = v[<<low, high, best>>]
        <5>1. Halves(search, low, high, best) = best /\ Halves(v, low, high, best) = best
          BY <4>1
        <5> HIDE DEF v, Halves
        <5> QED
          BY <1>6, <2>1, <5>1
      <4> HIDE DEF v
      <4> QED
        BY <3>2, <4>1
    <3>4. /\ upper \in Searches /\ lower \in Searches /\ middle \in Nat
          /\ low <= middle /\ middle <= high
      BY <1>4, <3>3
    <3>5. Size(upper) < n /\ Size(lower) < n
      <4>1. n = high - low + 1
        BY <3>2, <3>3
      <4> HIDE DEF middle
      <4> QED
        BY <3>3, <3>4, <4>1
    <3>6. ASSUME NEW s \in Searches, Size(s) < n PROVE search[s] = v[s]
      <4>1. Size(s) \in Nat /\ Size(s) \notin T
        <5> HIDE DEF T, Size
        <5>1. Size(s) \in Nat /\ n \in Nat
          BY <2>2, <3>1 DEF T
        <5> QED
          BY <3>1, <3>6, <5>1
      <4> QED
        BY <4>1
    <3>7. search[upper] = v[upper] /\ search[lower] = v[lower]
      <4> HIDE DEF v, Size, T, upper, lower
      <4> QED
        BY <3>4, <3>5, <3>6
    <3>8. Halves(search, low, high, best) = Halves(v, low, high, best)
      <4> HIDE DEF v
      <4> QED
        BY <3>7
    <3> HIDE DEF v, Halves
    <3> QED
      BY <1>6, <2>1, <3>2, <3>8
  <2>4. ASSUME NEW s \in Searches PROVE search[s] = v[s]
    <3>1. Size(s) \notin T /\ Size(s) \in Nat
      BY <2>2, <2>3
    <3> HIDE DEF v, Size
    <3> QED
      BY <3>1
  <2> QED
    BY <2>4
<1>10. Start(cap, w) \in Searches
  <2>1. w.minimum \div w.increment \in Nat /\ cap \div w.increment \in Nat
    BY <1>2, Division
  <2> QED
    BY <2>1 DEF Start, Searches
<1> HIDE DEF search, v
<1> QED
  BY <1>1, <1>5, <1>9, <1>10

\* The shares that the cap covers are those of the grid between the minimum and the cap.
LEMMA SharesAre ==
    ASSUME NEW w, Wallet(w), Rate(w.steamRate), NEW r, Rate(r), NEW cap \in Nat
    PROVE  LET S == Between(Start(cap, w), cap, w, r)
           IN  /\ S \in SUBSET Nat /\ \A k \in S : k <= cap \div w.increment
               /\ Shares(cap, w, r) = {k * w.increment : k \in S}
               /\ \A k \in S : k * w.increment \in Nat \ {0}
<1> DEFINE S == Between(Start(cap, w), cap, w, r)
           inc == w.increment
           m == w.minimum \div w.increment
           h == cap \div w.increment
<1>1. inc \in Nat \ {0} /\ w.minimum \in Nat \ {0} /\ w.minimum % inc = 0
  BY DEF Wallet
<1>2. m \in Nat /\ h \in Nat /\ w.minimum = inc * m
  <2>1. w.minimum = inc * m
    <3> DEFINE min == w.minimum
    <3>1. min \in Nat /\ inc \in Nat \ {0} /\ min % inc = 0
      BY <1>1
    <3> HIDE DEF min, inc
    <3>2. min = inc * (min \div inc)
      BY <3>1
    <3> QED
      BY <3>2 DEF min, inc
  <2>2. m \in Nat /\ h \in Nat
    BY <1>1, Division
  <2> HIDE DEF m, inc
  <2> QED
    BY <1>1, <2>1, <2>2
<1>3. S = {k \in m..h : BuyerPays(k * inc, w, r) <= cap}
  BY DEF Between, Start, FitsAt, Fits
<1>4. Shares(cap, w, r) =
        {b \in {k * inc : k \in 1..h} : b >= w.minimum /\ BuyerPays(b, w, r) <= cap}
  BY DEF Shares
<1> HIDE DEF S, inc, m, h
<1>5. m # 0
  BY <1>1, <1>2
<1>6. ASSUME NEW k \in Nat PROVE k * inc >= w.minimum <=> k >= m
  <2>1. w.minimum = m * inc
    BY <1>1, <1>2
  <2>2. CASE k >= m
    BY <1>1, <1>2, <2>1, <2>2, ProductGrows
  <2>3. CASE m >= k + 1
    <3>1. (k + 1) * inc <= m * inc /\ (k + 1) * inc = k * inc + inc /\ k * inc \in Nat
      BY <1>1, <1>2, <2>3, ProductGrows
    <3> QED
      BY <1>1, <1>2, <2>1, <2>3, <3>1
  <2> QED
    BY <1>2, <2>2, <2>3
<1>7. ASSUME NEW k \in S PROVE k \in Nat /\ k \in 1..h /\ k * inc \in Nat \ {0}
  <2>1. k \in Nat /\ k >= 1 /\ k <= h /\ k >= m
    BY <1>2, <1>3, <1>5
  <2>2. k * inc \in Nat
    BY <1>1, <2>1
  <2>3. k * inc >= w.minimum
    BY <1>6, <2>1
  <2> QED
    BY <1>1, <1>2, <2>1, <2>2, <2>3
<1>8. ASSUME NEW b \in Shares(cap, w, r) PROVE \E k \in S : b = k * inc
  <2>1. PICK k \in 1..h : b = k * inc /\ b >= w.minimum /\ BuyerPays(b, w, r) <= cap
    BY <1>4
  <2>2. k \in Nat /\ k >= m
    BY <1>6, <2>1
  <2>3. k \in S
    BY <1>2, <1>3, <2>1, <2>2
  <2> QED
    BY <2>1, <2>3
<1>9. ASSUME NEW k \in S PROVE k * inc \in Shares(cap, w, r)
  <2>1. k \in Nat /\ k \in 1..h /\ k >= m
    BY <1>2, <1>3, <1>7
  <2>2. k * inc >= w.minimum /\ BuyerPays(k * inc, w, r) <= cap
    BY <1>3, <1>6, <2>1
  <2> QED
    BY <1>4, <2>1, <2>2
<1>10. Shares(cap, w, r) = {k * inc : k \in S}
  BY <1>8, <1>9
<1>11. S \in SUBSET Nat /\ \A k \in S : k <= h
  BY <1>2, <1>7
<1> QED
  BY <1>7, <1>10, <1>11 DEF S, inc, h

\* The search finds the highest share.
LEMMA QuoteIsBest ==
    ASSUME NEW w, Wallet(w), Rate(w.steamRate), NEW r, Rate(r), NEW cap \in Nat
    PROVE  LET base == QuoteFromBuyerCap(cap, w, r)
           IN  /\ Shares(cap, w, r) = {} => base = 0
               /\ Shares(cap, w, r) # {} =>
                    /\ base \in Shares(cap, w, r)
                    /\ \A other \in Shares(cap, w, r) : other <= base
               /\ base \in Nat
<1> DEFINE S == Between(Start(cap, w), cap, w, r)
           inc == w.increment
           base == QuoteFromBuyerCap(cap, w, r)
<1>1. /\ S \in SUBSET Nat /\ \A k \in S : k <= cap \div inc
      /\ Shares(cap, w, r) = {k * inc : k \in S}
      /\ \A k \in S : k * inc \in Nat \ {0}
  BY SharesAre
<1>2. base = IF S = {} THEN 0 ELSE Highest(S) * inc
  BY SearchFinds DEF Found, Start
<1>3. inc \in Nat \ {0} /\ cap \div inc \in Nat
  BY Division DEF Wallet
<1> HIDE DEF S, inc, base
<1>4. CASE S = {}
  BY <1>1, <1>2, <1>4 DEF base
<1>5. CASE S # {}
  <2>1. Highest(S) \in S /\ \A k \in S : k <= Highest(S)
    BY <1>1, <1>3, <1>5, HighestIs
  <2>2. \A k \in S : k * inc <= base
    BY <1>1, <1>2, <1>3, <1>5, <2>1, ProductGrows
  <2>3. base \in Shares(cap, w, r) /\ base \in Nat
    BY <1>1, <1>2, <1>5, <2>1
  <2> QED
    BY <1>1, <1>5, <2>2, <2>3 DEF base
<1> QED
  BY <1>4, <1>5

\* What converts exactly is what it was in the other units.
LEMMA ConvertsExactly ==
    ASSUME NEW x \in Int, NEW d \in Nat \ {0}, x % d = 0
    PROVE  x \div d \in Int /\ (x \div d) * d = x
  OBVIOUS

\* A sale that is offered keeps the limits, one set of rules at a time (quoteWithRules).
LEMMA SaleKeepsLimits ==
    ASSUME MoneyAssumption, NEW w \in Wallets, NEW rate \in Rates,
           NEW reference \in References, NEW rules \in RuleSets,
           QuoteWithRules(reference, w, rate, rules) # 0
    PROVE  LET price == BuyerPays(QuoteWithRules(reference, w, rate, rules), w, rate)
               spent == price * 10^w.minor
           IN  /\ spent <= reference * 10^w.minor + rules.adjustment * 100
               /\ rules.min # Unset => spent >= rules.min * 100
               /\ rules.max # Unset => spent <= rules.max * 100
               /\ spent % 100 = 0
<1> DEFINE p     == 10^w.minor
           cap   == BuyerCap(reference, w, rules)
           base  == QuoteFromBuyerCap(cap, w, rate)
           price == BuyerPays(base, w, rate)
           adj   == rules.adjustment
           e     == (adj * 100) \div p
<1>1. /\ Wallet(w) /\ Rate(w.steamRate) /\ Rate(rate) /\ reference \in Nat
      /\ Unset \notin Int /\ Limit \in Nat /\ adj \in Int
      /\ rules.min \in Nat \cup {Unset} /\ rules.max \in Nat \cup {Unset}
  BY DEF MoneyAssumption
<1>2. p \in {1, 10, 100, 1000}
  <2> DEFINE n == w.minor
  <2>1. n \in 0..3
    BY <1>1 DEF Wallet
  <2> HIDE DEF n
  <2>2. 10^n \in {1, 10, 100, 1000}
    BY <2>1, TenthsAre, ZenonT(60)
  <2> QED
    BY <2>2 DEF n
<1>3. /\ QuoteWithRules(reference, w, rate, rules) = base
      /\ Valid(w, rules) /\ cap \in 1..Limit /\ base # 0 /\ InBounds(price, w, rules)
  BY DEF QuoteWithRules, Acceptable
<1>4. (adj * 100) % p = 0
  <2>1. adj \in Amounts(rules)
    BY <1>1 DEF Amounts
  <2> QED
    BY <1>3, <2>1 DEF Valid, HasSteamAmount, Convertible
<1>5. cap = reference + e
  BY DEF BuyerCap, FromMinorUnits
<1>6. e \in Int /\ e * p = adj * 100
  <2> DEFINE x == adj * 100
  <2>1. x \in Int /\ p \in Nat \ {0} /\ x % p = 0
    BY <1>1, <1>2, <1>4
  <2> HIDE DEF x, p
  <2>2. x \div p \in Int /\ (x \div p) * p = x
    BY <2>1, ConvertsExactly
  <2> QED
    BY <2>2 DEF x
<1>7. price \in Nat /\ price <= cap /\ cap \in Nat
  <2>1. cap \in Nat
    BY <1>1, <1>3
  <2>2. base \in Shares(cap, w, rate) /\ base \in Nat
    <3> HIDE DEF cap
    <3>1. /\ Shares(cap, w, rate) = {} => base = 0
          /\ Shares(cap, w, rate) # {} => base \in Shares(cap, w, rate)
          /\ base \in Nat
      BY <1>1, <2>1, QuoteIsBest
    <3> QED
      BY <1>3, <3>1
  <2>3. price <= cap
    BY <2>2 DEF Shares
  <2>4. price \in Nat
    <3> HIDE DEF base
    <3> QED
      BY <1>1, <2>2, PriceGrows
  <2> QED
    BY <2>1, <2>3, <2>4
<1>8. /\ (price * p) % 100 = 0
      /\ rules.min # Unset => (price * p) \div 100 >= rules.min
      /\ rules.max # Unset => (price * p) \div 100 <= rules.max
  <2> HIDE DEF price
  <2> QED
    BY <1>3 DEF InBounds, HasMinorUnits, Convertible, ToMinorUnits
<1> HIDE DEF cap, base, price, e, p
<1>9. price * p <= reference * p + adj * 100
  BY <1>1, <1>2, <1>5, <1>6, <1>7
<1>10. price * p \in Nat
  BY <1>2, <1>7
<1>11. /\ rules.min # Unset => price * p >= rules.min * 100
       /\ rules.max # Unset => price * p <= rules.max * 100
  <2> DEFINE spent == price * p
  <2>1. spent \in Nat /\ spent % 100 = 0
    BY <1>8, <1>10
  <2>2. /\ rules.min # Unset => spent \div 100 >= rules.min
        /\ rules.max # Unset => spent \div 100 <= rules.max
    BY <1>8
  <2> HIDE DEF spent
  <2> QED
    BY <1>1, <2>1, <2>2 DEF spent
<1> QED
  BY <1>3, <1>8, <1>9, <1>11 DEF price, p

\* The search by halves finds the highest seller's share that fits, for every wallet, every
\* fee and every cap, although fees jump at the minimum and are rounded to the grid
\* (quoteFromBuyerCap).
THEOREM SearchIsExactHolds == SearchIsExact
<1> SUFFICES ASSUME NEW w \in Wallets, NEW rate \in Rates, NEW cap \in References
             PROVE  LET base == QuoteFromBuyerCap(cap, w, rate) IN
                    IF Shares(cap, w, rate) = {} THEN base = 0
                    ELSE /\ base \in Shares(cap, w, rate)
                         /\ \A other \in Shares(cap, w, rate) : other <= base
  BY DEF SearchIsExact
<1>1. Wallet(w) /\ Rate(w.steamRate) /\ Rate(rate) /\ cap \in Nat
  BY MoneyAssumption DEF MoneyAssumption
<1> QED
  BY <1>1, QuoteIsBest

\* No sale is offered outside the user's limits or above the price on the market with his
\* adjustment, in the units he wrote them in, whatever the fees leave (quoteWithRules).
THEOREM LimitsAreKeptHolds == LimitsAreKept
<1> SUFFICES ASSUME NEW w \in Wallets, NEW rate \in Rates,
                    NEW reference \in References, NEW rules \in RuleSets,
                    QuoteWithRules(reference, w, rate, rules) # 0
             PROVE  LET price == BuyerPays(QuoteWithRules(reference, w, rate, rules), w, rate)
                        spent == price * 10^w.minor
                    IN  /\ spent <= reference * 10^w.minor + rules.adjustment * 100
                        /\ rules.min # Unset => spent >= rules.min * 100
                        /\ rules.max # Unset => spent <= rules.max * 100
                        /\ spent % 100 = 0
  BY DEF LimitsAreKept
<1> QED
  BY MoneyAssumption, SaleKeepsLimits

(***************************************************************************)
(* The prices: InventoryPrices, and its inductive invariant                *)
(***************************************************************************)

CONSTANTS Variants, Flights, MaxChanges

VARIABLES rules, wallet, login, context, cache, flights, req, changes,
          panel, refresh, shown, records, hook, repairs

Prices == INSTANCE InventoryPrices

\* The rules, the wallet and the epoch do not run ahead of the changes that are counted.
PricesTyped ==
    /\ changes \in 0..MaxChanges
    /\ rules \in 0..changes /\ wallet \in 0..changes /\ login \in 0..changes
    /\ context \in BOOLEAN /\ shown \in BOOLEAN /\ repairs \in Nat
    /\ panel \in (0..rules) \cup {None} /\ refresh \in (0..login) \cup {None}
    /\ cache \in Prices!Remembered \cup {None}
    /\ flights \in [Flights -> Prices!Reading \cup {None}]

Answers ==
    [kind : {"none", "expired", "failed", "overview"}, rules : Nat \cup {None},
     priced : SUBSET Variants, limited : BOOLEAN]

Requests ==
    [phase : {"idle", "wallet", "prices", "answered"}, ids : SUBSET Variants, login : Nat,
     flight : Flights \cup {None}, wallet : Prices!Remembered \cup {None}, answer : Answers]

Records ==
    [price : Prices!Basis \cup {None}, busy : {"no", "loading", "refreshing"}, due : BOOLEAN]

Hooks ==
    [wallet : Nat \cup {None}, rules : Nat \cup {None},
     fixing : BOOLEAN, used : BOOLEAN, cooldown : BOOLEAN]

\* Nothing is asked for without a request, an answer is there when the request is
\* answered, and prices were estimated with a wallet.
RequestTyped(r) ==
    /\ r \in Requests
    /\ r.phase = "idle" => r.ids = {}
    /\ r.phase = "answered" <=> r.answer.kind # "none"
    /\ r.answer.kind = "overview" => r.answer.rules \in Nat
    /\ r.answer.priced # {} => r.answer.kind = "overview" /\ r.wallet # None

\* What the server remembers of the wallet, or is about to, is of the account that is
\* signed in now; a request has the wallet of the account it was made for.
WalletsAreCurrent(r, c, fs, l) ==
    /\ c # None => c.login = l
    /\ \A f \in Flights : fs[f] # None /\ fs[f].active => fs[f].wallet.login = l
    /\ (r.phase = "wallet") <=> (r.flight # None)
    /\ r.flight # None => fs[r.flight] # None /\ (fs[r.flight].active => r.login = l)
    /\ r.wallet # None => r.wallet.login = r.login

\* What is shown was estimated by the rules and for the wallet that the hook has, and by
\* the rules that the panel has, if it has any.
PricesAgree(rs, h, p) ==
    \A v \in Variants : rs[v].price # None =>
        rs[v].price = [rules |-> h.rules, wallet |-> h.wallet] /\ p \in {None, h.rules}

\* The cards that are being asked for are those of the request.
AskedFor(rs, r) == \A v \in Variants : rs[v].busy # "no" => v \in r.ids

RepairsAreCounted(h, n) == n <= 1 /\ (~h.used => n = 0)

PricesInv ==
    /\ PricesTyped
    /\ records \in [Variants -> Records] /\ hook \in Hooks
    /\ RequestTyped(req)
    /\ WalletsAreCurrent(req, cache, flights, login)
    /\ PricesAgree(records, hook, panel)
    /\ AskedFor(records, req)
    /\ RepairsAreCounted(hook, repairs)

(***************************************************************************)
(* The prices: the server                                                  *)
(***************************************************************************)

LEMMA NoRequestFacts ==
    ASSUME Prices!NoneAssumption
    PROVE  /\ RequestTyped(Prices!NoRequest) /\ Prices!NoRequest.ids = {}
           /\ Prices!NoRequest.phase = "idle" /\ Prices!NoRequest.flight = None
           /\ Prices!NoRequest.wallet = None /\ Prices!NoRequest.answer.kind = "none"
<1>1. Prices!NoAnswer \in Answers /\ Prices!NoAnswer.kind = "none" /\ Prices!NoAnswer.priced = {}
  BY DEF Prices!NoAnswer, Answers
<1> DEFINE r == Prices!NoRequest
<1>2. /\ r \in Requests /\ r.answer = Prices!NoAnswer /\ r.ids = {}
      /\ r.phase = "idle" /\ r.flight = None /\ r.wallet = None
  BY <1>1 DEF Prices!NoRequest, Requests
<1> QED
  BY <1>1, <1>2 DEF RequestTyped

\* What the browser holds does not change, and the request asks for the same cards.
LEMMA ServerKeeps ==
    ASSUME PricesInv, PricesTyped', UNCHANGED Prices!browser,
           RequestTyped(req'), WalletsAreCurrent(req', cache', flights', login'),
           req'.ids = req.ids
    PROVE  PricesInv'
  BY DEF PricesInv, Prices!browser, AskedFor

LEMMA ClearAccountKeeps ==
    ASSUME Prices!BoundsAssumption, Prices!NoneAssumption, PricesInv, Prices!ClearAccount
    PROVE  PricesInv'
<1>1. /\ PricesTyped /\ RequestTyped(req) /\ WalletsAreCurrent(req, cache, flights, login)
      /\ changes' = changes + 1 /\ changes < MaxChanges /\ login' = login + 1
      /\ context' = FALSE /\ cache' = None /\ req' = req
      /\ rules' = rules /\ wallet' = wallet /\ UNCHANGED Prices!browser
      /\ panel' = panel /\ refresh' = refresh /\ shown' = shown /\ repairs' = repairs
  BY DEF PricesInv, Prices!ClearAccount, Prices!Change, Prices!steam, Prices!browser
<1>2. ASSUME NEW f \in Flights
      PROVE  /\ flights'[f] \in Prices!Reading \cup {None}
             /\ flights[f] = None => flights'[f] = None
             /\ flights[f] # None => flights'[f] # None /\ flights'[f].active = FALSE
  <2>1. flights[f] \in Prices!Reading \cup {None}
    BY <1>1 DEF PricesTyped
  <2>2. flights'[f] = IF flights[f] = None THEN None ELSE [flights[f] EXCEPT !.active = FALSE]
    BY DEF Prices!ClearAccount
  <2> QED
    BY <2>1, <2>2 DEF Prices!Reading, Prices!NoneAssumption
<1>3. flights' \in [Flights -> Prices!Reading \cup {None}]
  <2>1. flights' = [f \in Flights |-> flights'[f]]
    BY DEF Prices!ClearAccount
  <2> QED
    BY <1>2, <2>1
<1>4. PricesTyped'
  <2>1. /\ changes' \in 0..MaxChanges /\ rules' \in 0..changes' /\ wallet' \in 0..changes'
        /\ login' \in 0..changes' /\ 0..login \subseteq 0..login'
    BY <1>1 DEF PricesTyped, Prices!BoundsAssumption
  <2> QED
    BY <1>1, <1>3, <2>1 DEF PricesTyped
<1>5. req.flight \in Flights \cup {None}
  BY <1>1 DEF RequestTyped, Requests
<1>6. WalletsAreCurrent(req', cache', flights', login')
  BY <1>1, <1>2, <1>5 DEF WalletsAreCurrent
<1> QED
  BY <1>1, <1>4, <1>6, ServerKeeps

LEMMA ForgettingKeeps ==
    ASSUME Prices!BoundsAssumption, Prices!NoneAssumption, PricesInv,
           Prices!Seed \/ Prices!ContextExpires \/ Prices!WalletExpires \/ Prices!WalletChanges
    PROVE  PricesInv'
<1>1. PricesTyped /\ RequestTyped(req) /\ WalletsAreCurrent(req, cache, flights, login)
  BY DEF PricesInv
<1>2. /\ UNCHANGED Prices!browser /\ req' = req /\ cache' \in {cache, None}
      /\ flights' = flights /\ login' = login
  BY DEF Prices!Seed, Prices!ContextExpires, Prices!WalletExpires, Prices!WalletChanges,
         Prices!server
<1>3. PricesTyped'
  <2>1. /\ rules' = rules /\ login' = login /\ panel' = panel /\ refresh' = refresh
        /\ shown' = shown /\ repairs' = repairs
        /\ wallet' = wallet \/ (wallet' = wallet + 1 /\ changes' = changes + 1)
        /\ changes' = changes \/ (changes < MaxChanges /\ changes' = changes + 1)
    BY <1>1 DEF PricesTyped, Prices!Seed, Prices!ContextExpires, Prices!WalletExpires,
       Prices!WalletChanges, Prices!Change, Prices!server, Prices!steam, Prices!browser
  <2>2. context' \in BOOLEAN
    BY <1>1 DEF PricesTyped, Prices!Seed, Prices!ContextExpires, Prices!WalletExpires,
       Prices!WalletChanges, Prices!server
  <2>3. /\ changes' \in 0..MaxChanges /\ rules' \in 0..changes' /\ wallet' \in 0..changes'
        /\ login' \in 0..changes'
    BY <1>1, <2>1 DEF PricesTyped, Prices!BoundsAssumption
  <2> QED
    BY <1>1, <1>2, <2>1, <2>2, <2>3 DEF PricesTyped
<1>4. WalletsAreCurrent(req', cache', flights', login')
  BY <1>1, <1>2 DEF WalletsAreCurrent
<1> QED
  BY <1>1, <1>2, <1>3, <1>4, ServerKeeps

\* A request that gets its answer waits for nothing any more.
LEMMA AnsweredFacts ==
    ASSUME Prices!NoneAssumption, PricesInv, NEW a \in Answers, a.kind # "none",
           a.kind = "overview" => a.rules \in Nat,
           a.priced # {} => a.kind = "overview" /\ req.wallet # None,
           req' = Prices!Answered(a), UNCHANGED <<cache, flights, login>>
    PROVE  /\ RequestTyped(req') /\ WalletsAreCurrent(req', cache', flights', login')
           /\ req'.ids = req.ids /\ req'.answer = a
<1>1. RequestTyped(req) /\ WalletsAreCurrent(req, cache, flights, login)
  BY DEF PricesInv
<1>2. /\ req' \in Requests /\ req'.phase = "answered" /\ req'.flight = None
      /\ req'.answer = a /\ req'.ids = req.ids
      /\ req'.wallet = req.wallet /\ req'.login = req.login
  BY <1>1 DEF RequestTyped, Requests, Prices!Answered
<1> QED
  BY <1>1, <1>2 DEF RequestTyped, WalletsAreCurrent

LEMMA AnswersKeep ==
    ASSUME Prices!NoneAssumption, PricesInv, Prices!Overview \/ Prices!RequestFails
    PROVE  PricesInv'
<1>1. /\ UNCHANGED <<cache, flights, login>> /\ UNCHANGED Prices!browser
      /\ PricesTyped'
  BY DEF Prices!Overview, Prices!RequestFails, Prices!server, Prices!steam, Prices!browser,
         PricesInv, PricesTyped
<1>2. req.ids \subseteq Variants /\ rules \in Nat
  BY DEF PricesInv, PricesTyped, RequestTyped, Requests
<1>3. \E a \in Answers : /\ a.kind # "none" /\ (a.kind = "overview" => a.rules \in Nat)
                         /\ (a.priced # {} => a.kind = "overview" /\ req.wallet # None)
                         /\ req' = Prices!Answered(a)
  <2>1. Prices!Expired \in Answers /\ Prices!Expired.kind = "expired" /\ Prices!Expired.priced = {}
    BY DEF Prices!Expired, Prices!NoAnswer, Answers
  <2>2. ASSUME NEW limited \in BOOLEAN
        PROVE  LET a == [Prices!NoAnswer EXCEPT !.kind = "failed", !.limited = limited]
               IN  a \in Answers /\ a.kind = "failed" /\ a.priced = {}
    BY DEF Prices!NoAnswer, Answers
  <2>3. ASSUME NEW limited \in BOOLEAN, NEW priced \in SUBSET Variants
        PROVE  LET a == [kind |-> "overview", rules |-> rules,
                         priced |-> priced, limited |-> limited]
               IN  a \in Answers /\ a.kind = "overview" /\ a.priced = priced /\ a.rules \in Nat
    BY <1>2 DEF Answers
  <2>4. CASE Prices!RequestFails
    BY <2>2, <2>4 DEF Prices!RequestFails
  <2>5. CASE Prices!Overview /\ ~Prices!Current
    BY <2>1, <2>5 DEF Prices!Overview
  <2>6. CASE Prices!Overview /\ Prices!Current
    <3>1. PICK priced \in (IF req.wallet = None THEN {{}} ELSE SUBSET req.ids) :
              \E limited \in BOOLEAN :
                  req' = Prices!Answered([kind |-> "overview", rules |-> rules,
                                          priced |-> priced, limited |-> limited])
      BY <2>6 DEF Prices!Overview
    <3>2. priced \in SUBSET Variants /\ (priced # {} => req.wallet # None)
      BY <1>2
    <3> QED
      BY <2>3, <3>1, <3>2
  <2> QED
    BY <2>4, <2>5, <2>6
<1> QED
  BY <1>1, <1>3, AnsweredFacts, ServerKeeps

LEMMA FlightEndsKeeps ==
    ASSUME Prices!NoneAssumption, PricesInv, NEW f \in Flights, Prices!FlightEnds(f)
    PROVE  PricesInv'
<1>1. PricesTyped /\ RequestTyped(req) /\ WalletsAreCurrent(req, cache, flights, login)
  BY DEF PricesInv
<1>2. /\ UNCHANGED Prices!browser /\ login' = login /\ rules' = rules /\ wallet' = wallet
      /\ context' = context /\ changes' = changes /\ panel' = panel /\ refresh' = refresh
      /\ shown' = shown /\ repairs' = repairs
      /\ flights[f] # None /\ flights' = [flights EXCEPT ![f] = None]
  BY DEF Prices!FlightEnds, Prices!browser, Prices!steam
<1>3. PICK ok \in {flights[f].active, FALSE} :
        /\ cache' = IF ok THEN flights[f].wallet ELSE cache
        /\ req' = IF req.flight # f THEN req
                  ELSE [req EXCEPT !.phase = "prices", !.flight = None,
                                   !.wallet = IF ok THEN flights[f].wallet ELSE None]
  BY DEF Prices!FlightEnds, Prices!Accepted
<1>4. /\ flights[f] \in Prices!Reading /\ flights[f].wallet \in Prices!Remembered
      /\ flights[f].active \in BOOLEAN
      /\ ok => flights[f].active /\ flights[f].wallet.login = login
  BY <1>1, <1>2 DEF PricesTyped, Prices!Reading, WalletsAreCurrent
<1>5. PricesTyped'
  BY <1>1, <1>2, <1>3, <1>4 DEF PricesTyped
<1>6. \A g \in Flights : flights'[g] = IF g = f THEN None ELSE flights[g]
  BY <1>1, <1>2 DEF PricesTyped
<1>7. cache' # None => cache'.login = login
  BY <1>1, <1>3, <1>4 DEF WalletsAreCurrent
<1>8. CASE req.flight # f
  <2>1. req' = req
    BY <1>3, <1>8
  <2>2. req.flight \in Flights \cup {None}
    BY <1>1 DEF RequestTyped, Requests
  <2>3. WalletsAreCurrent(req', cache', flights', login')
    BY <1>1, <1>2, <1>6, <1>7, <1>8, <2>1, <2>2 DEF WalletsAreCurrent
  <2> QED
    BY <1>1, <1>2, <1>5, <2>1, <2>3, ServerKeeps
<1>9. CASE req.flight = f
  <2> DEFINE t == IF ok THEN flights[f].wallet ELSE None
  <2>1. t \in Prices!Remembered \cup {None} /\ (t # None => ok)
    BY <1>4
  <2>2. req' = [req EXCEPT !.phase = "prices", !.flight = None, !.wallet = t]
    BY <1>3, <1>9
  <2>3. t # None => t.login = login
    BY <1>4
  <2>8. t # None => req.login = login
    BY <1>1, <1>2, <1>4, <1>9, <2>1 DEF WalletsAreCurrent, Prices!NoneAssumption
  <2> HIDE DEF t
  <2>4. /\ req' \in Requests /\ req'.phase = "prices" /\ req'.flight = None
        /\ req'.answer = req.answer /\ req'.ids = req.ids
        /\ req'.wallet = t /\ req'.login = req.login
    BY <1>1, <2>1, <2>2 DEF RequestTyped, Requests
  <2>5. req.phase = "wallet" /\ req.wallet = req.wallet
    BY <1>1, <1>9 DEF WalletsAreCurrent, Prices!NoneAssumption
  <2>6. RequestTyped(req')
    BY <1>1, <2>4, <2>5 DEF RequestTyped
  <2>7. WalletsAreCurrent(req', cache', flights', login')
    BY <1>1, <1>2, <1>6, <1>7, <2>3, <2>4, <2>8 DEF WalletsAreCurrent
  <2> QED
    BY <1>2, <1>5, <2>4, <2>6, <2>7, ServerKeeps
<1> QED
  BY <1>8, <1>9

(***************************************************************************)
(* The prices: the cards and the panel                                     *)
(***************************************************************************)

LEMMA RecordFacts ==
    ASSUME NEW r \in Records, NEW p \in Prices!Basis \cup {None}
    PROVE  /\ Prices!Settle(r, p) \in Records
           /\ Prices!Settle(r, p).price = p /\ Prices!Settle(r, p).busy = "no"
           /\ Prices!Released(r) \in Records
           /\ Prices!Released(r).price \in {r.price, None} /\ Prices!Released(r).busy = "no"
           /\ Prices!Empty \in Records
           /\ Prices!Empty.price = None /\ Prices!Empty.busy = "no"
<1>1. Prices!Empty \in Records /\ Prices!Empty.price = None /\ Prices!Empty.busy = "no"
  BY DEF Prices!Empty, Records
<1>2. /\ Prices!Settle(r, p) \in Records
      /\ Prices!Settle(r, p).price = p /\ Prices!Settle(r, p).busy = "no"
  BY DEF Prices!Settle, Records
<1>3. [r EXCEPT !.busy = "no"] \in Records /\ [r EXCEPT !.busy = "no"].price = r.price
      /\ [r EXCEPT !.busy = "no"].busy = "no"
  BY DEF Records
<1> QED
  BY <1>1, <1>2, <1>3 DEF Prices!Released

LEMMA NoRecordsFacts ==
    /\ Prices!NoRecords \in [Variants -> Records]
    /\ \A v \in Variants : Prices!NoRecords[v].price = None /\ Prices!NoRecords[v].busy = "no"
<1>1. Prices!Empty \in Records /\ Prices!Empty.price = None /\ Prices!Empty.busy = "no"
  BY DEF Prices!Empty, Records
<1> QED
  BY <1>1 DEF Prices!NoRecords

\* Cards that keep what they show, or show nothing, agree as before.
LEMMA FewerAgree ==
    ASSUME NEW rs, NEW ss, NEW h, NEW g, NEW p, PricesAgree(rs, h, p),
           \A v \in Variants : ss[v].price \in {rs[v].price, None},
           g.rules = h.rules, g.wallet = h.wallet
    PROVE  PricesAgree(ss, g, p)
  BY DEF PricesAgree

LEMMA NoneAgree ==
    ASSUME NEW ss, NEW g, NEW p, \A v \in Variants : ss[v].price = None
    PROVE  PricesAgree(ss, g, p)
  BY DEF PricesAgree

LEMMA NoneAskedFor ==
    ASSUME NEW ss, NEW r, \A v \in Variants : ss[v].busy = "no"
    PROVE  AskedFor(ss, r)
  BY DEF AskedFor

\* The browser changes what it shows, and gives its request up or keeps it.
LEMMA BrowserKeeps ==
    ASSUME Prices!NoneAssumption, PricesInv, PricesTyped',
           UNCHANGED <<cache, flights, login>>, req' \in {req, Prices!NoRequest},
           records' \in [Variants -> Records], hook' \in Hooks,
           PricesAgree(records', hook', panel'), AskedFor(records', req'),
           RepairsAreCounted(hook', repairs')
    PROVE  PricesInv'
<1>1. RequestTyped(req) /\ WalletsAreCurrent(req, cache, flights, login)
  BY DEF PricesInv
<1>2. RequestTyped(req')
  BY <1>1, NoRequestFacts
<1>3. WalletsAreCurrent(req', cache', flights', login')
  BY <1>1, NoRequestFacts DEF WalletsAreCurrent
<1> QED
  BY <1>2, <1>3 DEF PricesInv

LEMMA ReleasedRecords ==
    ASSUME PricesInv
    PROVE  LET rs == Prices!AllReleased
           IN  /\ rs \in [Variants -> Records]
               /\ \A v \in Variants : rs[v].price \in {records[v].price, None} /\ rs[v].busy = "no"
<1>1. \A v \in Variants : records[v] \in Records
  BY DEF PricesInv
<1> QED
  BY <1>1, RecordFacts DEF Prices!AllReleased

LEMMA HookFacts ==
    ASSUME NEW h \in Hooks, NEW b \in BOOLEAN
    PROVE  /\ LET g == [h EXCEPT !.fixing = b]
              IN  g \in Hooks /\ g.rules = h.rules /\ g.wallet = h.wallet /\ g.used = h.used
           /\ LET g == [h EXCEPT !.cooldown = b]
              IN  g \in Hooks /\ g.rules = h.rules /\ g.wallet = h.wallet /\ g.used = h.used
           /\ LET g == [h EXCEPT !.used = b]
              IN  g \in Hooks /\ g.rules = h.rules /\ g.wallet = h.wallet /\ g.used = b
           /\ LET g == [h EXCEPT !.wallet = None, !.rules = None, !.fixing = b]
              IN  g \in Hooks /\ g.used = h.used
  BY DEF Hooks

\* Everything that was shown is forgotten.
LEMMA NewContextKeeps ==
    ASSUME Prices!NoneAssumption, PricesInv, PricesTyped',
           UNCHANGED <<cache, flights, login, repairs>>, Prices!NewContext
    PROVE  PricesInv'
<1>1. records' = Prices!NoRecords /\ req' = Prices!NoRequest
      /\ hook' = [hook EXCEPT !.wallet = None, !.rules = None, !.fixing = FALSE]
  BY DEF Prices!NewContext
<1>2. hook' \in Hooks /\ hook'.used = hook.used
  BY <1>1, HookFacts DEF PricesInv
<1>3. RepairsAreCounted(hook', repairs')
  BY <1>2 DEF PricesInv, RepairsAreCounted
<1> QED
  BY <1>1, <1>2, <1>3, NoRecordsFacts, NoneAgree, NoneAskedFor, BrowserKeeps

\* The request is given up, and the cards are released.
LEMMA DisposeKeeps ==
    ASSUME Prices!NoneAssumption, PricesInv, PricesTyped',
           UNCHANGED <<cache, flights, login, panel, repairs>>,
           records' = Prices!AllReleased, req' = Prices!NoRequest,
           hook' \in {hook, [hook EXCEPT !.fixing = FALSE]}
    PROVE  PricesInv'
<1>1. /\ hook' \in Hooks /\ hook'.used = hook.used
      /\ hook'.rules = hook.rules /\ hook'.wallet = hook.wallet
  BY DEF PricesInv, Hooks
<1>2. RepairsAreCounted(hook', repairs') /\ PricesAgree(records, hook, panel)
  BY <1>1 DEF PricesInv, RepairsAreCounted
<1>3. PricesAgree(records', hook', panel')
  BY <1>1, <1>2, ReleasedRecords, FewerAgree
<1> QED
  BY <1>1, <1>2, <1>3, ReleasedRecords, NoneAskedFor, BrowserKeeps

LEMMA HidingKeeps ==
    ASSUME Prices!NoneAssumption, PricesInv,
           Prices!HidePage \/ Prices!ShowPage \/ Prices!BeginRefresh
    PROVE  PricesInv'
<1>1. /\ UNCHANGED <<cache, flights, login, panel, repairs>>
      /\ UNCHANGED <<changes, rules, wallet, context>>
      /\ shown' \in BOOLEAN /\ refresh' \in {refresh, login}
  BY DEF Prices!HidePage, Prices!ShowPage, Prices!BeginRefresh, Prices!steam, Prices!server,
         PricesInv, PricesTyped
<1>2. PricesTyped'
  BY <1>1 DEF PricesInv, PricesTyped
<1>3. CASE Prices!ShowPage
  <2>1. UNCHANGED <<records, hook, req>>
    BY <1>3 DEF Prices!ShowPage
  <2> QED
    BY <1>1, <1>2, <2>1, BrowserKeeps DEF PricesInv
<1>4. CASE Prices!HidePage \/ Prices!BeginRefresh
  <2>1. /\ records' = Prices!AllReleased /\ req' = Prices!NoRequest
        /\ hook' \in {hook, [hook EXCEPT !.fixing = FALSE]}
    BY <1>4 DEF Prices!HidePage, Prices!BeginRefresh, Prices!Dispose
  <2> QED
    BY <1>1, <1>2, <2>1, DisposeKeeps
<1> QED
  BY <1>3, <1>4

LEMMA RefreshEndsKeeps ==
    ASSUME Prices!NoneAssumption, PricesInv, Prices!RefreshEnds
    PROVE  PricesInv'
<1>1. /\ UNCHANGED <<cache, flights, login, repairs>>
      /\ UNCHANGED <<changes, rules, wallet, panel, shown>>
      /\ context' \in BOOLEAN /\ refresh' = None /\ Prices!NewContext
  BY DEF Prices!RefreshEnds, Prices!steam, PricesInv, PricesTyped
<1>2. PricesTyped'
  BY <1>1 DEF PricesInv, PricesTyped
<1> QED
  BY <1>1, <1>2, NewContextKeeps

\* The rules that the panel takes are those that are saved.
LEMMA TakeRulesKeeps ==
    ASSUME Prices!NoneAssumption, PricesInv, PricesTyped', NEW value, Prices!TakeRules(value),
           UNCHANGED <<cache, flights, login, repairs>>
    PROVE  PricesInv'
<1>1. CASE value = panel
  <2>1. /\ hook' = [hook EXCEPT !.fixing = FALSE] /\ records' = records /\ req' = req
        /\ panel' = panel
    BY <1>1 DEF Prices!TakeRules
  <2>2. /\ hook' \in Hooks /\ hook'.used = hook.used
        /\ hook'.rules = hook.rules /\ hook'.wallet = hook.wallet
    BY <2>1 DEF PricesInv, Hooks
  <2>3. /\ RepairsAreCounted(hook', repairs') /\ PricesAgree(records', hook', panel')
        /\ AskedFor(records', req')
    BY <2>1, <2>2 DEF PricesInv, RepairsAreCounted, PricesAgree
  <2> QED
    BY <2>1, <2>2, <2>3, BrowserKeeps DEF PricesInv
<1>2. CASE value # panel
  BY <1>2, NewContextKeeps DEF Prices!TakeRules
<1> QED
  BY <1>1, <1>2

LEMMA RulesKeep ==
    ASSUME Prices!BoundsAssumption, Prices!NoneAssumption, PricesInv,
           Prices!SaveRules \/ Prices!ReadRules
    PROVE  PricesInv'
<1>1. /\ UNCHANGED <<cache, flights, login, repairs>>
      /\ UNCHANGED <<wallet, context, refresh, shown>>
      /\ panel' \in {panel, rules'}
      /\ \/ rules' = rules /\ changes' = changes
         \/ rules' = rules + 1 /\ changes < MaxChanges /\ changes' = changes + 1
  BY DEF Prices!SaveRules, Prices!ReadRules, Prices!TakeRules, Prices!steam, Prices!server,
         Prices!Change
<1>2. PricesTyped
  BY DEF PricesInv
<1>3. /\ changes' \in 0..MaxChanges /\ rules' \in 0..changes' /\ wallet' \in 0..changes'
      /\ login' \in 0..changes' /\ 0..rules \subseteq 0..rules' /\ rules' \in 0..rules'
  BY <1>1, <1>2 DEF PricesTyped, Prices!BoundsAssumption
<1>4. PricesTyped'
  BY <1>1, <1>2, <1>3 DEF PricesTyped
<1>5. CASE \E value : Prices!TakeRules(value)
  BY <1>1, <1>4, <1>5, TakeRulesKeeps
<1>6. CASE UNCHANGED <<panel, records, req>> /\ hook' \in {hook, [hook EXCEPT !.fixing = FALSE]}
  <2>1. /\ hook' \in Hooks /\ hook'.used = hook.used
        /\ hook'.rules = hook.rules /\ hook'.wallet = hook.wallet
    BY <1>6 DEF PricesInv, Hooks
  <2>2. /\ RepairsAreCounted(hook', repairs') /\ PricesAgree(records', hook', panel')
        /\ AskedFor(records', req')
    BY <1>1, <1>6, <2>1 DEF PricesInv, RepairsAreCounted, PricesAgree
  <2> QED
    BY <1>1, <1>4, <1>6, <2>1, <2>2, BrowserKeeps DEF PricesInv
<1> QED
  BY <1>5, <1>6 DEF Prices!SaveRules, Prices!ReadRules

LEMMA CardsKeep ==
    ASSUME Prices!NoneAssumption, PricesInv,
           \/ Prices!Retry \/ Prices!CooldownEnds
           \/ \E v \in Variants : Prices!BecomesDue(v)
    PROVE  PricesInv'
<1>1. /\ UNCHANGED <<cache, flights, login, panel, req>>
      /\ UNCHANGED <<changes, rules, wallet, context, refresh, shown>>
  BY DEF Prices!Retry, Prices!CooldownEnds, Prices!BecomesDue, Prices!steam, Prices!server
<1>2. /\ \A v \in Variants : records[v] \in Records
      /\ records \in [Variants -> Records] /\ hook \in Hooks
      /\ PricesAgree(records, hook, panel) /\ AskedFor(records, req)
      /\ RepairsAreCounted(hook, repairs) /\ PricesTyped
  BY DEF PricesInv
<1>3. CASE Prices!Retry
  <2>1. PICK ids \in SUBSET Variants :
            records' = [v \in Variants |-> IF v \in ids THEN Prices!Empty ELSE records[v]]
    BY <1>3 DEF Prices!Retry
  <2>2. /\ records' \in [Variants -> Records]
        /\ \A v \in Variants : /\ records'[v].price \in {records[v].price, None}
                               /\ records'[v].busy \in {records[v].busy, "no"}
    BY <1>2, <2>1, RecordFacts
  <2>3. /\ hook' \in Hooks /\ hook'.rules = hook.rules /\ hook'.wallet = hook.wallet
        /\ repairs' = 0
    BY <1>2, <1>3 DEF Prices!Retry, Hooks
  <2>4. PricesAgree(records', hook', panel')
    BY <1>1, <1>2, <2>2, <2>3, FewerAgree
  <2>5. AskedFor(records', req') /\ RepairsAreCounted(hook', repairs')
    BY <1>1, <1>2, <2>2, <2>3 DEF AskedFor, RepairsAreCounted
  <2>6. PricesTyped'
    BY <1>1, <1>2, <2>3 DEF PricesTyped
  <2> QED
    BY <1>1, <2>2, <2>3, <2>4, <2>5, <2>6, BrowserKeeps
<1>4. CASE Prices!CooldownEnds
  <2>1. records' = records /\ repairs' = repairs
    BY <1>4 DEF Prices!CooldownEnds
  <2>2. /\ hook' \in Hooks /\ hook'.used = hook.used
        /\ hook'.rules = hook.rules /\ hook'.wallet = hook.wallet
    BY <1>2, <1>4 DEF Prices!CooldownEnds, Hooks
  <2>3. /\ RepairsAreCounted(hook', repairs') /\ PricesAgree(records', hook', panel')
        /\ AskedFor(records', req') /\ PricesTyped'
    BY <1>1, <1>2, <2>1, <2>2 DEF RepairsAreCounted, PricesAgree, PricesTyped
  <2> QED
    BY <1>1, <1>2, <2>1, <2>2, <2>3, BrowserKeeps
<1>5. ASSUME NEW v \in Variants, Prices!BecomesDue(v)
      PROVE  PricesInv'
  <2>1. PICK price \in {records[v].price, None} :
            records' = [records EXCEPT ![v].due = TRUE, ![v].price = price]
    BY <1>5 DEF Prices!BecomesDue
  <2> DEFINE r == [[records[v] EXCEPT !.due = TRUE] EXCEPT !.price = price]
  <2>2. r \in Records /\ r.price = price /\ r.busy = records[v].busy
    BY <1>2 DEF Records
  <2>3. records' = [records EXCEPT ![v] = r]
    BY <1>2, <2>1
  <2> HIDE DEF r
  <2>4. /\ records' \in [Variants -> Records]
        /\ \A u \in Variants : /\ records'[u].price \in {records[u].price, None}
                               /\ records'[u].busy = records[u].busy
    BY <1>2, <2>2, <2>3
  <2>5. hook' = hook /\ repairs' = repairs
    BY <1>5 DEF Prices!BecomesDue
  <2>6. PricesAgree(records', hook', panel')
    BY <1>1, <1>2, <2>4, <2>5, FewerAgree
  <2>7. AskedFor(records', req') /\ RepairsAreCounted(hook', repairs') /\ PricesTyped'
    BY <1>1, <1>2, <2>4, <2>5 DEF AskedFor, PricesTyped
  <2> QED
    BY <1>1, <1>2, <2>4, <2>5, <2>6, <2>7, BrowserKeeps
<1> QED
  BY <1>3, <1>4, <1>5

(***************************************************************************)
(* The prices: requests and their answers                                  *)
(***************************************************************************)

\* A request arrives: it waits for a wallet that is current, has one, or is refused.
LEMMA ArriveFacts ==
    ASSUME Prices!NoneAssumption, PricesInv, NEW ids \in SUBSET Variants,
           Prices!Arrive(ids), UNCHANGED <<cache, login>>
    PROVE  /\ RequestTyped(req') /\ WalletsAreCurrent(req', cache', flights', login')
           /\ req'.ids = ids
           /\ flights' \in [Flights -> Prices!Reading \cup {None}]
<1>1. PricesTyped /\ WalletsAreCurrent(req, cache, flights, login)
  BY DEF PricesInv
<1> DEFINE taken == [Prices!NoRequest EXCEPT !.ids = ids, !.login = login]
<1>2. /\ taken \in Requests /\ taken.ids = ids /\ taken.login = login /\ taken.phase = "idle"
      /\ taken.wallet = None /\ taken.flight = None
      /\ taken.answer = Prices!NoAnswer
      /\ Prices!NoAnswer \in Answers
      /\ Prices!NoAnswer.kind = "none" /\ Prices!NoAnswer.priced = {}
  <2>1. /\ Prices!NoAnswer \in Answers
        /\ Prices!NoAnswer.kind = "none" /\ Prices!NoAnswer.priced = {}
    BY DEF Prices!NoAnswer, Answers
  <2>2. login \in Nat
    BY <1>1 DEF PricesTyped
  <2> QED
    BY <2>1, <2>2 DEF Prices!NoRequest, Requests
<1>3. Prices!Expired \in Answers /\ Prices!Expired.kind = "expired" /\ Prices!Expired.priced = {}
  BY DEF Prices!Expired, Prices!NoAnswer, Answers
<1>4. CASE req' = [taken EXCEPT !.phase = "answered", !.answer = Prices!Expired] /\ flights' = flights
  <2> HIDE DEF taken
  <2>1. /\ req' \in Requests /\ req'.ids = ids /\ req'.phase = "answered"
        /\ req'.wallet = None /\ req'.flight = None /\ req'.answer = Prices!Expired
    BY <1>2, <1>3, <1>4 DEF Requests
  <2> QED
    BY <1>1, <1>3, <1>4, <2>1 DEF RequestTyped, WalletsAreCurrent, PricesTyped
<1>5. CASE req' = [taken EXCEPT !.phase = "prices", !.wallet = cache] /\ flights' = flights
  <2> HIDE DEF taken
  <2>0. cache \in Prices!Remembered \cup {None}
    BY <1>1 DEF PricesTyped
  <2>1. /\ req' \in Requests /\ req'.ids = ids /\ req'.phase = "prices" /\ req'.login = login
        /\ req'.wallet = cache /\ req'.flight = None /\ req'.answer = Prices!NoAnswer
    BY <1>2, <1>5, <2>0 DEF Requests
  <2> QED
    BY <1>1, <1>2, <1>5, <2>1 DEF RequestTyped, WalletsAreCurrent, PricesTyped
<1>6. ASSUME NEW f \in Flights,
             req' = [taken EXCEPT !.phase = "wallet", !.flight = f],
             \A g \in Flights : flights'[g] # None /\ flights'[g].active => flights'[g].wallet.login = login,
             flights'[f] # None, flights' \in [Flights -> Prices!Reading \cup {None}]
      PROVE  /\ RequestTyped(req') /\ WalletsAreCurrent(req', cache', flights', login')
             /\ req'.ids = ids
  <2> HIDE DEF taken
  <2>1. /\ req' \in Requests /\ req'.ids = ids /\ req'.phase = "wallet" /\ req'.login = login
        /\ req'.wallet = None /\ req'.flight = f /\ req'.answer = Prices!NoAnswer
    BY <1>2, <1>6 DEF Requests
  <2>2. f # None
    BY DEF Prices!NoneAssumption
  <2>3. RequestTyped(req')
    BY <1>2, <2>1 DEF RequestTyped
  <2> QED
    BY <1>1, <1>2, <1>6, <2>1, <2>2, <2>3 DEF WalletsAreCurrent
<1>7. ASSUME NEW f \in Flights, flights[f] # None, flights' = flights,
             req' = [taken EXCEPT !.phase = "wallet", !.flight = f]
      PROVE  /\ RequestTyped(req') /\ WalletsAreCurrent(req', cache', flights', login')
             /\ req'.ids = ids
             /\ flights' \in [Flights -> Prices!Reading \cup {None}]
  <2>1. /\ \A g \in Flights : flights'[g] # None /\ flights'[g].active => flights'[g].wallet.login = login
        /\ flights'[f] # None /\ flights' \in [Flights -> Prices!Reading \cup {None}]
    BY <1>1, <1>7 DEF WalletsAreCurrent, PricesTyped
  <2> HIDE DEF taken
  <2> QED
    BY <1>6, <1>7, <2>1
<1>8. ASSUME NEW f \in Flights, flights' = [flights EXCEPT ![f] = [active |-> TRUE, wallet |-> Prices!Read]],
             req' = [taken EXCEPT !.phase = "wallet", !.flight = f]
      PROVE  /\ RequestTyped(req') /\ WalletsAreCurrent(req', cache', flights', login')
             /\ req'.ids = ids
             /\ flights' \in [Flights -> Prices!Reading \cup {None}]
  <2> DEFINE x == [active |-> TRUE, wallet |-> Prices!Read]
  <2>1. x \in Prices!Reading /\ x.wallet.login = login
    BY <1>1 DEF Prices!Read, Prices!Reading, Prices!Remembered, PricesTyped
  <2>2. x # None
    BY <2>1 DEF Prices!NoneAssumption
  <2>3. flights' = [flights EXCEPT ![f] = x]
    BY <1>8
  <2> HIDE DEF x, taken
  <2>4. flights \in [Flights -> Prices!Reading \cup {None}]
    BY <1>1 DEF PricesTyped
  <2>5. \A g \in Flights : flights'[g] = IF g = f THEN x ELSE flights[g]
    BY <2>3, <2>4
  <2>6. /\ \A g \in Flights : flights'[g] # None /\ flights'[g].active => flights'[g].wallet.login = login
        /\ flights'[f] # None /\ flights' \in [Flights -> Prices!Reading \cup {None}]
    BY <1>1, <2>1, <2>2, <2>3, <2>4, <2>5 DEF WalletsAreCurrent
  <2> QED
    BY <1>6, <1>8, <2>6
<1>9. \/ req' = [taken EXCEPT !.phase = "answered", !.answer = Prices!Expired] /\ flights' = flights
      \/ req' = [taken EXCEPT !.phase = "prices", !.wallet = cache] /\ flights' = flights
      \/ \E f \in Flights : /\ flights[f] # None /\ flights' = flights
                            /\ req' = [taken EXCEPT !.phase = "wallet", !.flight = f]
      \/ \E f \in Flights : /\ flights' = [flights EXCEPT ![f] = [active |-> TRUE, wallet |-> Prices!Read]]
                            /\ req' = [taken EXCEPT !.phase = "wallet", !.flight = f]
  BY DEF Prices!Arrive
<1>10. flights \in [Flights -> Prices!Reading \cup {None}]
  BY <1>1 DEF PricesTyped
<1> HIDE DEF taken
<1> QED
  BY <1>4, <1>5, <1>7, <1>8, <1>9, <1>10

LEMMA PumpKeeps ==
    ASSUME Prices!NoneAssumption, PricesInv, Prices!Pump
    PROVE  PricesInv'
<1> DEFINE ids == {v \in Variants : records[v].due}
<1>1. /\ UNCHANGED <<cache, login, panel, hook, repairs>>
      /\ UNCHANGED <<changes, rules, wallet, context, refresh, shown>>
      /\ Prices!Arrive(ids) /\ req.phase = "idle"
  BY DEF Prices!Pump, Prices!steam
<1>2. /\ \A v \in Variants : records[v] \in Records
      /\ hook \in Hooks /\ RequestTyped(req)
      /\ PricesAgree(records, hook, panel) /\ AskedFor(records, req)
      /\ RepairsAreCounted(hook, repairs) /\ PricesTyped
  BY DEF PricesInv
<1>3. /\ RequestTyped(req') /\ WalletsAreCurrent(req', cache', flights', login')
      /\ req'.ids = ids
      /\ flights' \in [Flights -> Prices!Reading \cup {None}]
  <2>1. ids \in SUBSET Variants
    OBVIOUS
  <2> HIDE DEF ids
  <2> QED
    BY <1>1, <2>1, ArriveFacts
<1>4. PricesTyped'
  BY <1>1, <1>2, <1>3 DEF PricesTyped
<1>5. ASSUME NEW v \in Variants
      PROVE  /\ records'[v] \in Records /\ records'[v].price = records[v].price
             /\ v \notin ids => records'[v] = records[v]
  <2>1. records'[v] = IF v \notin ids THEN records[v]
                      ELSE IF records[v].price # None THEN [records[v] EXCEPT !.busy = "refreshing"]
                      ELSE [records[v] EXCEPT !.busy = "loading", !.due = FALSE]
    BY DEF Prices!Pump
  <2> HIDE DEF ids
  <2> QED
    BY <1>2, <2>1 DEF Records
<1>6. records' \in [Variants -> Records]
  <2>1. records' = [v \in Variants |-> records'[v]]
    BY DEF Prices!Pump
  <2> QED
    BY <1>5, <2>1
<1>7. PricesAgree(records', hook', panel')
  BY <1>1, <1>2, <1>5 DEF PricesAgree
<1>8. AskedFor(records', req')
  <2> HIDE DEF ids
  <2> QED
    BY <1>1, <1>2, <1>3, <1>5 DEF AskedFor, RequestTyped
<1> QED
  BY <1>1, <1>2, <1>3, <1>4, <1>6, <1>7, <1>8 DEF PricesInv

\* An estimate that is kept was made by the rules of the answer, and for its wallet.
LEMMA ApplyRowsFacts ==
    ASSUME Prices!NoneAssumption, PricesInv, Prices!ApplyRows,
           req.answer.kind = "overview", panel \in {None, req.answer.rules}
    PROVE  /\ records' \in [Variants -> Records] /\ hook' \in Hooks
           /\ PricesAgree(records', hook', panel)
           /\ \A v \in Variants : records'[v].busy = "no"
           /\ repairs' = 0
<1> DEFINE a == req.answer
           w == Prices!WalletOf
           kept == Prices!Kept(a, w)
<1>1. /\ \A v \in Variants : records[v] \in Records
      /\ records \in [Variants -> Records] /\ hook \in Hooks
      /\ PricesAgree(records, hook, panel) /\ AskedFor(records, req)
      /\ req \in Requests /\ a \in Answers /\ a.rules \in Nat
      /\ a.priced # {} => req.wallet # None
  BY DEF PricesInv, RequestTyped, Requests
<1>2. w \in Nat \cup {None} /\ (req.wallet # None => w \in Nat)
  BY <1>1 DEF Requests, Prices!Remembered, Prices!WalletOf
<1>3. PICK refused \in BOOLEAN :
        records' = [v \in Variants |->
            IF v \in req.ids
            THEN Prices!Settle(kept[v],
                     IF v \in a.priced THEN [rules |-> a.rules, wallet |-> w]
                     ELSE IF refused THEN kept[v].price ELSE None)
            ELSE kept[v]]
  BY DEF Prices!ApplyRows
<1>4. /\ hook' = [hook EXCEPT !.rules = a.rules, !.wallet = IF w = None THEN @ ELSE w,
                              !.cooldown = @ \/ a.limited, !.used = FALSE]
      /\ repairs' = 0
  BY DEF Prices!ApplyRows
<1> HIDE DEF w
<1>5. /\ hook' \in Hooks /\ hook'.rules = a.rules
      /\ hook'.wallet = IF w = None THEN hook.wallet ELSE w
  BY <1>1, <1>2, <1>4 DEF Hooks, Answers
<1>6. /\ kept \in [Variants -> Records]
      /\ \A v \in Variants :
            /\ kept[v].price # None => kept[v].price = [rules |-> a.rules, wallet |-> hook'.wallet]
            /\ kept[v].busy # "no" => v \in req.ids
  <2>1. CASE Prices!Other(a, w)
    BY <2>1, NoRecordsFacts DEF Prices!Kept
  <2>2. CASE ~Prices!Other(a, w)
    <3>1. kept = records
      BY <2>2 DEF Prices!Kept
    <3>2. ASSUME NEW v \in Variants, records[v].price # None
          PROVE  records[v].price = [rules |-> a.rules, wallet |-> hook'.wallet]
      <4>1. records[v].price = [rules |-> hook.rules, wallet |-> hook.wallet]
            /\ records[v].price \in Prices!Basis
        BY <1>1, <3>2 DEF PricesAgree, Records
      <4>2. hook.rules \in Nat /\ hook.wallet \in Nat
        BY <4>1 DEF Prices!Basis
      <4>3. hook.rules # None /\ hook.wallet # None
        BY <4>2 DEF Prices!NoneAssumption
      <4> QED
        BY <1>5, <2>2, <4>1, <4>3 DEF Prices!Other
    <3> QED
      BY <1>1, <3>1, <3>2 DEF AskedFor
  <2> QED
    BY <2>1, <2>2
<1> HIDE DEF kept
<1>7. ASSUME NEW v \in Variants
      PROVE  /\ records'[v] \in Records /\ records'[v].busy = "no"
             /\ records'[v].price # None =>
                   records'[v].price = [rules |-> a.rules, wallet |-> hook'.wallet]
  <2> DEFINE p == IF v \in a.priced THEN [rules |-> a.rules, wallet |-> w]
                  ELSE IF refused THEN kept[v].price ELSE None
  <2>1. kept[v] \in Records /\ kept[v].price \in Prices!Basis \cup {None}
    BY <1>6 DEF Records
  <2>2. p \in Prices!Basis \cup {None}
    BY <1>1, <1>2, <2>1 DEF Prices!Basis
  <2>3. p # None => p = [rules |-> a.rules, wallet |-> hook'.wallet]
    BY <1>1, <1>2, <1>5, <1>6 DEF Prices!NoneAssumption
  <2>4. records'[v] = IF v \in req.ids THEN Prices!Settle(kept[v], p) ELSE kept[v]
    BY <1>3
  <2> HIDE DEF p, a
  <2>5. /\ Prices!Settle(kept[v], p) \in Records
        /\ Prices!Settle(kept[v], p).price = p /\ Prices!Settle(kept[v], p).busy = "no"
    BY <2>1, <2>2, RecordFacts
  <2> QED
    BY <1>6, <2>1, <2>3, <2>4, <2>5
<1>8. records' \in [Variants -> Records]
  <2>1. records' = [v \in Variants |-> records'[v]]
    BY <1>3
  <2> QED
    BY <1>7, <2>1
<1> QED
  BY <1>4, <1>5, <1>7, <1>8 DEF PricesAgree

LEMMA FailedFacts ==
    ASSUME PricesInv, req.ids \subseteq Variants
    PROVE  LET rs == Prices!Failed(req.ids)
           IN  /\ rs \in [Variants -> Records]
               /\ \A v \in Variants : rs[v].price = records[v].price /\ rs[v].busy = "no"
<1>1. \A v \in Variants : records[v] \in Records /\ records[v].price \in Prices!Basis \cup {None}
  BY DEF PricesInv, Records
<1>2. AskedFor(records, req)
  BY DEF PricesInv
<1> QED
  BY <1>1, <1>2, RecordFacts DEF Prices!Failed, AskedFor

LEMMA TakeAnswerKeeps ==
    ASSUME Prices!NoneAssumption, PricesInv, Prices!TakeAnswer
    PROVE  PricesInv'
<1>1. /\ UNCHANGED <<cache, flights, login, panel>>
      /\ UNCHANGED <<changes, rules, wallet, context, shown>>
      /\ req' = Prices!NoRequest /\ Prices!ApplyAnswer
  BY DEF Prices!TakeAnswer, Prices!steam, Prices!server
<1>2. /\ \A v \in Variants : records[v] \in Records
      /\ hook \in Hooks /\ req \in Requests /\ req.answer \in Answers
      /\ PricesAgree(records, hook, panel)
      /\ RepairsAreCounted(hook, repairs) /\ PricesTyped
  BY DEF PricesInv, RequestTyped, Requests
<1>3. /\ records' \in [Variants -> Records] /\ hook' \in Hooks
      /\ PricesAgree(records', hook', panel)
      /\ \A v \in Variants : records'[v].busy = "no"
      /\ RepairsAreCounted(hook', repairs')
      /\ refresh' \in {refresh, login} /\ repairs' \in Nat
  <2>1. CASE Prices!Fails \/ Prices!ContextIsGone
    <3>1. records' = Prices!Failed(req.ids) /\ req.ids \subseteq Variants
      BY <1>2, <2>1 DEF Prices!Fails, Prices!ContextIsGone, Requests
    <3>2. /\ records' \in [Variants -> Records]
          /\ \A v \in Variants : records'[v].price = records[v].price /\ records'[v].busy = "no"
      BY <3>1, FailedFacts
    <3>3. hook' \in Hooks /\ hook'.rules = hook.rules /\ hook'.wallet = hook.wallet
      BY <1>2, <2>1 DEF Prices!Fails, Prices!ContextIsGone, Hooks, Answers
    <3>4. PricesAgree(records', hook', panel)
      BY <1>2, <3>2, <3>3 DEF PricesAgree
    <3>5. CASE Prices!Fails
      <4>1. hook'.used = hook.used /\ repairs' = repairs /\ refresh' = refresh
        BY <1>2, <3>5 DEF Prices!Fails, Hooks
      <4> QED
        BY <1>2, <3>2, <3>3, <3>4, <4>1 DEF RepairsAreCounted, PricesTyped
    <3>6. CASE Prices!ContextIsGone
      <4>1. hook'.used = TRUE
        BY <1>2, <3>6 DEF Prices!ContextIsGone, Hooks
      <4>2. /\ refresh' \in {refresh, login}
            /\ repairs' = repairs \/ (~hook.used /\ repairs' = repairs + 1)
        BY <3>6 DEF Prices!ContextIsGone, Prices!MayRepair
      <4> QED
        BY <1>2, <3>2, <3>3, <3>4, <4>1, <4>2 DEF RepairsAreCounted, PricesTyped
    <3> QED
      BY <2>1, <3>5, <3>6
  <2>2. CASE Prices!RulesDiffer
    <3>1. \A v \in Variants : records'[v] = Prices!Settle(records[v], None)
      BY <2>2 DEF Prices!RulesDiffer
    <3>2. \A v \in Variants : /\ records'[v] \in Records /\ records'[v].price = None
                              /\ records'[v].busy = "no"
      BY <1>2, <3>1, RecordFacts
    <3>3. records' = [v \in Variants |-> records'[v]]
      BY <2>2 DEF Prices!RulesDiffer
    <3>4. hook' \in Hooks /\ hook'.used = hook.used /\ repairs' = repairs /\ refresh' = refresh
      BY <1>2, <2>2 DEF Prices!RulesDiffer, Hooks
    <3>5. records' \in [Variants -> Records] /\ PricesAgree(records', hook', panel)
      BY <3>2, <3>3, NoneAgree
    <3> QED
      BY <1>2, <3>2, <3>4, <3>5 DEF RepairsAreCounted, PricesTyped
  <2>3. CASE /\ Prices!ApplyRows /\ req.answer.kind = "overview"
             /\ panel \in {None, req.answer.rules}
    <3>1. refresh' = refresh
      BY <2>3 DEF Prices!ApplyRows
    <3> QED
      BY <2>3, <3>1, ApplyRowsFacts DEF RepairsAreCounted
  <2> QED
    BY <1>1, <2>1, <2>2, <2>3 DEF Prices!ApplyAnswer
<1>4. PricesTyped'
  BY <1>1, <1>2, <1>3 DEF PricesTyped
<1> QED
  BY <1>1, <1>3, <1>4, NoneAskedFor, BrowserKeeps

LEMMA PricesInit ==
    ASSUME Prices!BoundsAssumption, Prices!NoneAssumption, Prices!Init
    PROVE  PricesInv
<1>1. hook \in Hooks /\ hook.used = FALSE /\ repairs = 0
  BY DEF Prices!Init, Prices!NoHook, Hooks
<1>2. flights \in [Flights -> Prices!Reading \cup {None}] /\ \A f \in Flights : flights[f] = None
  BY DEF Prices!Init
<1>3. PricesTyped
  <2>1. /\ changes \in 0..MaxChanges /\ rules \in 0..changes /\ wallet \in 0..changes
        /\ login \in 0..changes
    BY DEF Prices!Init, Prices!BoundsAssumption
  <2> QED
    BY <1>2, <2>1 DEF Prices!Init, PricesTyped
<1>4. RequestTyped(req) /\ WalletsAreCurrent(req, cache, flights, login)
  BY <1>2, NoRequestFacts DEF Prices!Init, WalletsAreCurrent
<1>5. records = Prices!NoRecords
  BY DEF Prices!Init
<1> QED
  BY <1>1, <1>3, <1>4, <1>5, NoRecordsFacts, NoneAgree, NoneAskedFor
     DEF PricesInv, RepairsAreCounted

LEMMA PricesNext ==
    ASSUME Prices!BoundsAssumption, Prices!NoneAssumption, PricesInv, [Prices!Next]_Prices!vars
    PROVE  PricesInv'
<1>1. CASE UNCHANGED Prices!vars
  BY <1>1 DEF Prices!vars, Prices!steam, Prices!server, Prices!browser, PricesInv, PricesTyped
<1>2. CASE Prices!Server
  BY <1>2, ClearAccountKeeps, ForgettingKeeps, AnswersKeep, FlightEndsKeeps DEF Prices!Server
<1>3. CASE Prices!Browser
  BY <1>3, HidingKeeps, RefreshEndsKeeps, RulesKeep, CardsKeep, PumpKeeps, TakeAnswerKeeps
     DEF Prices!Browser
<1> QED
  BY <1>1, <1>2, <1>3 DEF Prices!Next

(***************************************************************************)
(* The prices: the theorems                                                *)
(***************************************************************************)

\* Every step of the server and of the browser keeps the types; the cards that are shown
\* as being asked for are those of the request.
THEOREM PricesTypeCorrect ==
    ASSUME Prices!BoundsAssumption, Prices!NoneAssumption
    PROVE  Prices!Spec => []Prices!TypeOK
<1>1. Prices!Init => PricesInv
  BY PricesInit
<1>2. PricesInv /\ [Prices!Next]_Prices!vars => PricesInv'
  BY PricesNext
<1>3. PricesInv => Prices!TypeOK
  <2> SUFFICES ASSUME PricesInv PROVE Prices!TypeOK
    OBVIOUS
  <2>1. /\ PricesTyped /\ RequestTyped(req) /\ AskedFor(records, req)
        /\ WalletsAreCurrent(req, cache, flights, login)
    BY DEF PricesInv
  <2>2. /\ {rules, wallet, login, changes} \subseteq 0..MaxChanges /\ context \in BOOLEAN
        /\ {panel, refresh} \subseteq (0..MaxChanges) \cup {None}
    BY <2>1 DEF PricesTyped, Prices!BoundsAssumption
  <2>3. /\ req.phase \in {"idle", "wallet", "prices", "answered"} /\ req.ids \subseteq Variants
        /\ req.phase = "wallet" => flights[req.flight] # None
    BY <2>1 DEF RequestTyped, Requests, WalletsAreCurrent
  <2> QED
    BY <2>1, <2>2, <2>3 DEF Prices!TypeOK, Prices!Changes, AskedFor
<1> QED
  BY <1>1, <1>2, <1>3, PTL DEF Prices!Spec

\* Whatever rules are saved, wallets read and accounts stopped while requests, answers
\* and reads are under way: all estimates that are shown were made by the rules that the
\* panel has and for one wallet, and no wallet that was read for an account before it was
\* stopped is remembered or used in an answer.  An estimate is kept only if neither the
\* rules nor the wallet of the answer differ (Other), and what the panel forgets with its
\* rules leaves no card with a price.
THEOREM OneBasisHolds ==
    ASSUME Prices!BoundsAssumption, Prices!NoneAssumption
    PROVE  Prices!Spec => Prices!OneBasis
<1> DEFINE Agree == /\ \A e \in Prices!Estimates :
                          /\ e = [rules |-> hook.rules, wallet |-> hook.wallet]
                          /\ panel \in {None, e.rules}
                    /\ cache # None => cache.login = login
           Answer == req.answer.kind = "none" /\ req'.answer.kind = "overview"
                        => req.wallet = None \/ req.wallet.login = login
<1>1. Prices!Init => PricesInv
  BY PricesInit
<1>2. PricesInv /\ [Prices!Next]_Prices!vars => PricesInv'
  BY PricesNext
<1>3. PricesInv => Agree
  BY DEF PricesInv, PricesAgree, WalletsAreCurrent, Prices!Estimates
<1>4. PricesInv /\ [Prices!Next]_Prices!vars => [Answer]_Prices!vars
  <2> SUFFICES ASSUME PricesInv, [Prices!Next]_Prices!vars, req.answer.kind = "none",
                      req'.answer.kind = "overview"
               PROVE  req.wallet = None \/ req.wallet.login = login
    BY DEF Prices!vars
  <2>1. RequestTyped(req) /\ WalletsAreCurrent(req, cache, flights, login) /\ req.answer \in Answers
    BY DEF PricesInv, RequestTyped, Requests
  <2>2. req' # req /\ req' # Prices!NoRequest
    BY NoRequestFacts
  <2>3. CASE Prices!Overview
    <3>1. CASE Prices!Current
      BY <2>1, <3>1 DEF Prices!Current, WalletsAreCurrent
    <3>2. CASE ~Prices!Current
      <4>1. req' = Prices!Answered(Prices!Expired)
        BY <2>3, <3>2 DEF Prices!Overview
      <4>2. req'.answer.kind = "expired"
        BY <2>1, <4>1 DEF Prices!Answered, Prices!Expired, Prices!NoAnswer, RequestTyped, Requests
      <4> QED
        BY <4>2
    <3> QED
      BY <3>1, <3>2
  <2>4. CASE Prices!RequestFails
    <3>1. PICK limited \in BOOLEAN :
              req' = Prices!Answered([Prices!NoAnswer EXCEPT !.kind = "failed", !.limited = limited])
      BY <2>4 DEF Prices!RequestFails
    <3>2. req'.answer.kind = "failed"
      BY <2>1, <3>1 DEF Prices!Answered, Prices!NoAnswer, RequestTyped, Requests
    <3> QED
      BY <3>2
  <2>5. CASE Prices!Pump
    <3> DEFINE ids == {v \in Variants : records[v].due}
               taken == [Prices!NoRequest EXCEPT !.ids = ids, !.login = login]
    <3>1. Prices!Arrive(ids)
      BY <2>5 DEF Prices!Pump
    <3>2. taken \in [phase : {"idle"}, ids : {ids}, login : {login}, flight : {None},
                     wallet : {None}, answer : {Prices!NoAnswer}]
      BY DEF Prices!NoRequest
    <3>3. Prices!NoAnswer.kind = "none" /\ Prices!Expired.kind = "expired"
      BY DEF Prices!Expired, Prices!NoAnswer
    <3>4. \/ req' = [taken EXCEPT !.phase = "answered", !.answer = Prices!Expired]
          \/ req' = [taken EXCEPT !.phase = "prices", !.wallet = cache]
          \/ \E f \in Flights : req' = [taken EXCEPT !.phase = "wallet", !.flight = f]
      BY <3>1 DEF Prices!Arrive
    <3> HIDE DEF taken
    <3> QED
      BY <3>2, <3>3, <3>4
  <2>6. ASSUME NEW f \in Flights, Prices!FlightEnds(f) PROVE FALSE
    <3>1. req'.answer = req.answer
      BY <2>1, <2>6 DEF Prices!FlightEnds, RequestTyped, Requests
    <3> QED
      BY <3>1
  <2>7. ASSUME req' = req \/ req' = Prices!NoRequest PROVE FALSE
    BY <2>2, <2>7
  <2>8. CASE Prices!Server
    BY <2>3, <2>4, <2>6, <2>7, <2>8 DEF Prices!Server, Prices!ClearAccount, Prices!Seed,
       Prices!ContextExpires, Prices!WalletExpires, Prices!WalletChanges
  <2>9. CASE Prices!Browser
    BY <2>5, <2>7, <2>9 DEF Prices!Browser, Prices!Retry, Prices!CooldownEnds, Prices!HidePage,
       Prices!ShowPage, Prices!BeginRefresh, Prices!RefreshEnds, Prices!SaveRules,
       Prices!ReadRules, Prices!TakeRules, Prices!NewContext, Prices!Dispose,
       Prices!TakeAnswer, Prices!BecomesDue
  <2>10. CASE UNCHANGED Prices!vars
    BY <2>7, <2>10 DEF Prices!vars
  <2> QED
    BY <2>8, <2>9, <2>10 DEF Prices!Next
<1>5. [](PricesInv => Agree)
  BY <1>3, PTL
<1> HIDE DEF Agree, Answer
<1>6. Prices!Spec => []Agree /\ [][Answer]_Prices!vars
  BY <1>1, <1>2, <1>3, <1>4, PTL DEF Prices!Spec
<1> QED
  BY <1>6 DEF Prices!OneBasis, Agree, Answer

\* An expired inventory is refreshed at most once before prices are read or the user asks
\* again: the hook has used its repair whenever one is counted.
THEOREM OneRepairHolds ==
    ASSUME Prices!BoundsAssumption, Prices!NoneAssumption
    PROVE  Prices!Spec => []Prices!OneRepair
<1>1. Prices!Init => PricesInv
  BY PricesInit
<1>2. PricesInv /\ [Prices!Next]_Prices!vars => PricesInv'
  BY PricesNext
<1>3. PricesInv => Prices!OneRepair
  BY DEF PricesInv, RepairsAreCounted, Prices!OneRepair
<1> QED
  BY <1>1, <1>2, <1>3, PTL DEF Prices!Spec

===============================================================================
