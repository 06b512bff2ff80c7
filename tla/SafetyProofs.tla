---------------------------- MODULE SafetyProofs ----------------------------
(***************************************************************************)
(* Proofs about what starts and stops an account: its schedules            *)
(* (ScheduleWindows), and the sessions that its caps are computed from     *)
(* (BoostSessions).                                                        *)
(*                                                                         *)
(* ScheduleWindows: the inductive invariant ties what made the account run *)
(* to the windows that the rows and the memory take for the one under way. *)
(* Every result of a tick is shown to be faithful to what the tick finds,  *)
(* whatever fails on its way; the lemmas on actions and the theorems rest  *)
(* on that.                                                                *)
(*                                                                         *)
(* BoostSessions, the second half, for any games, caps and instants: the   *)
(* rows say when the account played, the sessions of one run follow each   *)
(* other without a gap, and what the caps count is what was played.        *)
(***************************************************************************)
EXTENDS ScheduleWindows, FiniteSetTheorems, FunctionTheorems, SequenceTheorems,
        WellFoundedInduction, TLAPS

(***************************************************************************)
(* The inductive invariant                                                 *)
(***************************************************************************)

\* The windows that the rows and the memory take for the one under way.
Believed(rows, m) == OpenScheduleWindows(rows) \cup ({m.active} \ {None})

Alone(S) == \A w, v \in S : w = v

\* What a process knows, and the ticks in flight, end with it.
Dormant == ~mem.up => mem = NoMemory /\ ticks = NoTicks

\* What a user started when no window was open: none has been opened since.
Uncovered ==
    run.by = "user" /\ ~run.covered
    => OpenScheduleWindows(db.rows) = {} /\ mem.active = None

\* What a window made run has an open window, unless it was not marked or its
\* schedule is gone.
Marked == run.by = "schedule" /\ ~run.astray => OpenScheduleWindows(db.rows) # {}

\* So the timed pause of such a run has an owner.
Owned ==
    db.hold = "pause_until" /\ run.by = "schedule" /\ ~run.astray
    => db.owner # None

IInv ==
    /\ TypeOK
    /\ Alone(Believed(db.rows, mem))
    /\ Dormant
    /\ TimerIsArmed
    /\ Uncovered
    /\ Marked
    /\ Owned

(***************************************************************************)
(* Numbers and finite sets                                                 *)
(***************************************************************************)

\* A power of two counts the subsets of an interval.
LEMMA PowerIsPositive == ASSUME NEW n \in Nat PROVE 2 ^ n \in Nat /\ 2 ^ n > 0
<1>1. IsFiniteSet(1..n) /\ Cardinality(1..n) = n
  BY FS_Interval
<1>2. IsFiniteSet(SUBSET (1..n)) /\ Cardinality(SUBSET (1..n)) = 2 ^ n
  BY <1>1, FS_SUBSET
<1>3. 2 ^ n \in Nat
  BY <1>2, FS_CardinalityType
<1>4. {} \in SUBSET (1..n)
  OBVIOUS
<1>5. Cardinality(SUBSET (1..n)) # 0
  BY <1>2, <1>4, FS_EmptySet
<1> QED
  BY <1>2, <1>3, <1>5

LEMMA MinOfTwo ==
  ASSUME NEW a \in Int, NEW b \in Int
  PROVE  Min({a, b}) \in {a, b} /\ Min({a, b}) <= a /\ Min({a, b}) <= b
BY DEF Min

LEMMA AloneCounts ==
  ASSUME NEW S, Alone(S) PROVE IsFiniteSet(S) /\ Cardinality(S) <= 1
<1>1. CASE S = {}
  BY <1>1, FS_EmptySet
<1>2. CASE S # {}
  <2>1. PICK x : x \in S
    BY <1>2
  <2>2. S = {x}
    BY <2>1 DEF Alone
  <2>3. IsFiniteSet({x}) /\ Cardinality({x}) = 1
    BY FS_Singleton
  <2> QED
    BY <2>2, <2>3
<1> QED
  BY <1>1, <1>2

\* A total preorder on a finite set has a greatest element.
LEMMA GreatestExists ==
  ASSUME NEW S, IsFiniteSet(S), S # {}, NEW R,
         \A x \in S : <<x, x>> \in R,
         \A x, y \in S : <<x, y>> \in R \/ <<y, x>> \in R,
         \A x, y, z \in S : <<x, y>> \in R /\ <<y, z>> \in R => <<x, z>> \in R
  PROVE  \E x \in S : \A y \in S : <<x, y>> \in R
<1> DEFINE Above(x) == {y \in S : <<x, y>> \notin R}
           T == {Above(x) : x \in S}
<1>1. IsWellFoundedOn(StrictSubsetOrdering(S), SUBSET S)
  BY FS_StrictSubsetOrderingWellFounded, FS_FiniteSubsetsOfFinite
<1>2. T \subseteq SUBSET S /\ T # {}
  <2>1. T \subseteq SUBSET S
    OBVIOUS
  <2>2. PICK x : x \in S
    OBVIOUS
  <2>3. Above(x) \in T
    BY <2>2
  <2> QED
    BY <2>1, <2>3
<1>3. PICK A \in T : \A B \in T : <<B, A>> \notin StrictSubsetOrdering(S)
  <2> HIDE DEF T
  <2> QED
    BY <1>1, <1>2, WFMin
<1>4. PICK x \in S : A = Above(x)
  BY <1>3
<1>5. ASSUME NEW y \in S, <<x, y>> \notin R PROVE FALSE
  <2>1. Above(y) \subseteq Above(x)
    BY <1>5
  <2>2. y \in Above(x) /\ y \notin Above(y)
    BY <1>5
  <2>3. <<Above(y), Above(x)>> \in StrictSubsetOrdering(S)
    BY <2>1, <2>2 DEF StrictSubsetOrdering
  <2> QED
    BY <1>3, <1>4, <2>3
<1> QED
  BY <1>5

(***************************************************************************)
(* Windows                                                                 *)
(***************************************************************************)

LEMMA TimesAreNumbers == Times \subseteq Nat /\ NoTime \notin Times
BY ConstantsAssumption DEF Times, NoTime

LEMMA DaysOfTimes ==
  ASSUME NEW t \in Times
  PROVE  /\ DayOf(t) \in 0..t /\ DayOf(t) \in 0..MaxNow
         /\ MinuteOf(t) \in Minutes
BY ConstantsAssumption DEF Times, DayOf, MinuteOf, Minutes

LEMMA EvaluatesToWindow ==
  ASSUME NEW s \in Schedules, NEW r \in Row, NEW t \in Times
  PROVE  LET w == EvaluateScheduleWindow(s, r, t)
         IN w # None => w \in Windows /\ w.schedule = s
<1>1. DayOf(t) \in 0..MaxNow /\ MaxNow \in Nat
  BY DaysOfTimes, ConstantsAssumption
<1>2. r.start \in Minutes /\ r.end \in Minutes
  BY DEF Row
<1>3. \A day \in -1..(MaxNow + 1) :
          Window(s, r, day) \in Windows /\ Window(s, r, day).schedule = s
  BY <1>2 DEF Window, Windows
<1>4. DayOf(t) \in -1..(MaxNow + 1) /\ DayOf(t) - 1 \in -1..(MaxNow + 1)
  BY <1>1
<1>5. EvaluateScheduleWindow(s, r, t)
          \in {Window(s, r, DayOf(t)), Window(s, r, DayOf(t) - 1), None}
  BY DEF EvaluateScheduleWindow
<1> QED
  BY <1>3, <1>4, <1>5

LEMMA RowsOfDb ==
  ASSUME NEW d \in Db, NEW s \in Existing(d.rows)
  PROVE  s \in Schedules /\ d.rows[s] \in Row
BY DEF Db, Existing, Maybe

LEMMA ActiveWindows ==
  ASSUME NEW d \in Db, NEW t \in Times
  PROVE  /\ EvaluateSchedules(d, t) \subseteq Windows \ d.skips
         /\ None \notin EvaluateSchedules(d, t)
         /\ \A w \in EvaluateSchedules(d, t) : w.schedule \in Existing(d.rows)
         /\ \A w, v \in EvaluateSchedules(d, t) : w.schedule = v.schedule => w = v
<1>1. ASSUME NEW w \in EvaluateSchedules(d, t)
      PROVE  \E s \in Existing(d.rows) :
                /\ w = EvaluateScheduleWindow(s, d.rows[s], t)
                /\ w \in Windows /\ w.schedule = s /\ w \notin d.skips /\ w # None
  <2>1. PICK s \in Existing(d.rows) : w = EvaluateScheduleWindow(s, d.rows[s], t)
    BY DEF EvaluateSchedules
  <2>2. w \notin d.skips /\ w # None
    BY DEF EvaluateSchedules
  <2> QED
    BY <2>1, <2>2, RowsOfDb, EvaluatesToWindow
<1> QED
  BY <1>1

LEMMA ActiveIsFinite ==
  ASSUME NEW d \in Db, NEW t \in Times
  PROVE  IsFiniteSet(EvaluateSchedules(d, t))
<1> DEFINE S == EvaluateSchedules(d, t)
           f == [w \in S |-> w.schedule]
<1>1. \A w \in S : w.schedule \in Schedules
  BY ActiveWindows DEF Existing
<1>2. \A w, v \in S : w.schedule = v.schedule => w = v
  BY ActiveWindows
<1>3. f \in Injection(S, Schedules)
  <2> HIDE DEF S
  <2> QED
    BY <1>1, <1>2 DEF Injection, IsInjective
<1> QED
  BY <1>3, FS_Injection, ConstantsAssumption

\* selectScheduleWinner: the order it sorts by has a first element.
LEMMA WinnerIsActive ==
  ASSUME NEW d \in Db, NEW t \in Times
  PROVE  LET w == SelectScheduleWinner(d, t)
         IN w # None => /\ w \in Windows /\ w \notin d.skips
                        /\ w.schedule \in Existing(d.rows)
<1> DEFINE S == EvaluateSchedules(d, t)
           R == {p \in S \X S : Beats(d, p[1], p[2])}
<1> SUFFICES ASSUME S # {}
             PROVE  SelectScheduleWinner(d, t) \in S
  BY ActiveWindows DEF SelectScheduleWinner
<1>1. \A w \in S : /\ StartsAt(w) \in Int /\ d.rows[w.schedule].updated \in Int
                   /\ w.schedule \in Int
  <2>1. ASSUME NEW w \in S PROVE w \in Windows /\ d.rows[w.schedule] \in Row
    BY ActiveWindows, RowsOfDb
  <2>2. ASSUME NEW w \in Windows PROVE StartsAt(w) \in Int /\ w.schedule \in Int
    <3>1. w.day \in Int /\ w.start \in Int /\ w.schedule \in Int
      <4>1. w.schedule \in Schedules /\ w.day \in -1..(MaxNow + 1) /\ w.start \in Minutes
        BY DEF Windows
      <4>2. Schedules \subseteq Int /\ MaxNow \in Int /\ Minutes \subseteq Int
        BY ConstantsAssumption DEF Minutes
      <4>3. \A x \in -1..(MaxNow + 1) : x \in Int
        BY <4>2
      <4> HIDE DEF R
      <4> QED
        BY <4>1, <4>2, <4>3
    <3>2. DayLength \in Int
      BY ConstantsAssumption
    <3> QED
      BY <3>1, <3>2 DEF StartsAt
  <2>3. \A r \in Row : r.updated \in Int
    BY ConstantsAssumption DEF Row, Times
  <2> HIDE DEF S
  <2> QED
    BY <2>1, <2>2, <2>3
<1> HIDE DEF S
<1>2. \A x, y \in S : <<x, y>> \in R <=> Beats(d, x, y)
  OBVIOUS
<1>3. \A x \in S : Beats(d, x, x)
  BY <1>1 DEF Beats
<1>4. \A x, y \in S : Beats(d, x, y) \/ Beats(d, y, x)
  BY <1>1 DEF Beats
<1>5. \A x, y, z \in S : Beats(d, x, y) /\ Beats(d, y, z) => Beats(d, x, z)
  BY <1>1 DEF Beats
<1>6. IsFiniteSet(S)
  BY ActiveIsFinite DEF S
<1> HIDE DEF R
<1>7. \E x \in S : \A y \in S : <<x, y>> \in R
  BY <1>2, <1>3, <1>4, <1>5, <1>6, GreatestExists
<1>8. \E x \in S : \A y \in S : Beats(d, x, y)
  BY <1>2, <1>7
<1> QED
  BY <1>8 DEF SelectScheduleWinner, S

(***************************************************************************)
(* Rows and markers                                                        *)
(***************************************************************************)

Rows == [Schedules -> Maybe(Row)]

LEMMA OpenWindows ==
  ASSUME NEW rows, NEW w
  PROVE  w \in OpenScheduleWindows(rows)
         <=> \E s \in Existing(rows) : /\ rows[s].started = w /\ w # None
                                       /\ rows[s].stopped # w
BY DEF OpenScheduleWindows

LEMMA OpenAreWindows ==
  ASSUME NEW rows \in Rows
  PROVE  OpenScheduleWindows(rows) \subseteq Windows
BY DEF OpenScheduleWindows, Rows, Existing, Row, Maybe

LEMMA MarkedRows ==
  ASSUME NEW rows \in Rows, NEW W \in SUBSET Windows
  PROVE  LET marked == MarkWindowsStopped(rows, W)
         IN /\ marked \in Rows
            /\ Existing(marked) = Existing(rows)
            /\ OpenScheduleWindows(marked) = OpenScheduleWindows(rows) \ W
<1> DEFINE marked == MarkWindowsStopped(rows, W)
<1>1. ASSUME NEW s \in Existing(rows), rows[s].started \in W
      PROVE  /\ marked[s] = [rows[s] EXCEPT !.stopped = rows[s].started]
             /\ marked[s] \in Row
             /\ marked[s].started = rows[s].started /\ marked[s].stopped = rows[s].started
  <2>1. s \in Schedules /\ rows[s] \in Row
    BY DEF Existing, Rows, Maybe
  <2>2. marked[s] = [rows[s] EXCEPT !.stopped = rows[s].started]
    BY <1>1, <2>1 DEF MarkWindowsStopped
  <2> QED
    BY <1>1, <2>1, <2>2 DEF Row, Maybe
<1>2. ASSUME NEW s \in Schedules, ~(s \in Existing(rows) /\ rows[s].started \in W)
      PROVE  marked[s] = rows[s]
  BY <1>2 DEF MarkWindowsStopped
<1>3. marked = [s \in Schedules |-> marked[s]]
  BY DEF MarkWindowsStopped
<1> HIDE DEF marked
<1>4. marked \in Rows
  <2>1. ASSUME NEW s \in Schedules PROVE marked[s] \in Maybe(Row)
    BY <1>1, <1>2 DEF Rows, Maybe
  <2> QED
    BY <1>3, <2>1 DEF Rows
<1>5. ASSUME NEW s \in Schedules PROVE marked[s] = None <=> rows[s] = None
  BY <1>1, <1>2, NoneAssumption DEF Existing
<1>6. Existing(marked) = Existing(rows)
  BY <1>5 DEF Existing
<1>7. ASSUME NEW w
      PROVE  w \in OpenScheduleWindows(marked) <=> w \in OpenScheduleWindows(rows) \ W
  <2>1. ASSUME NEW s \in Existing(rows)
        PROVE  (marked[s].started = w /\ marked[s].stopped # w)
               <=> (rows[s].started = w /\ rows[s].stopped # w /\ w \notin W)
    BY <1>1, <1>2 DEF Existing
  <2> QED
    BY <1>6, <2>1, OpenWindows
<1> QED
  BY <1>4, <1>6, <1>7 DEF marked

LEMMA OpenedRow ==
  ASSUME NEW r \in Row, NEW w \in Windows
  PROVE  /\ Opened(r, w) \in Row
         /\ Opened(r, w).started = w /\ Opened(r, w).stopped # w
<1>1. w # None
  BY NoneAssumption
<1> QED
  BY <1>1 DEF Opened, Row, Maybe

\* commitStartedWindow leaves one window open.
LEMMA CommittedRows ==
  ASSUME NEW rows \in Rows, NEW w \in Windows, w.schedule \in Existing(rows)
  PROVE  LET committed == CommitStartedWindow(rows, w)
         IN /\ committed \in Rows
            /\ Existing(committed) = Existing(rows)
            /\ OpenScheduleWindows(committed) = {w}
<1> DEFINE W == OpenScheduleWindows(rows) \ {w}
           closed == MarkWindowsStopped(rows, W)
           s == w.schedule
           committed == CommitStartedWindow(rows, w)
<1>1. /\ closed \in Rows /\ Existing(closed) = Existing(rows)
      /\ OpenScheduleWindows(closed) = OpenScheduleWindows(rows) \ W
  BY OpenAreWindows, MarkedRows
<1>2. committed = [closed EXCEPT ![s] = Opened(closed[s], w)]
  BY DEF CommitStartedWindow
<1>3. s \in Schedules /\ closed[s] \in Row
  BY <1>1 DEF Rows, Existing, Maybe
<1>4. OpenScheduleWindows(closed) \subseteq {w}
  BY <1>1
<1> HIDE DEF closed, committed, W, s
<1>5. /\ committed[s] \in Row
      /\ committed[s].started = w /\ committed[s].stopped # w
  BY <1>1, <1>2, <1>3, OpenedRow DEF Rows
<1>6. \A x \in Schedules : x # s => committed[x] = closed[x]
  BY <1>1, <1>2 DEF Rows
<1>7. committed \in Rows
  BY <1>1, <1>2, <1>3, <1>5 DEF Rows, Maybe
<1>8. Existing(committed) = Existing(rows)
  <2>1. committed[s] # None /\ s \in Existing(rows)
    BY <1>5, NoneAssumption DEF s
  <2> QED
    BY <1>1, <1>6, <2>1 DEF Existing
<1>9. ASSUME NEW v PROVE v \in OpenScheduleWindows(committed) <=> v = w
  <2>1. ASSUME v = w PROVE v \in OpenScheduleWindows(committed)
    <3>1. s \in Existing(committed) /\ w # None
      BY <1>8, NoneAssumption DEF s
    <3> QED
      BY <1>5, <2>1, <3>1, OpenWindows
  <2>2. ASSUME v \in OpenScheduleWindows(committed) PROVE v = w
    <3>1. PICK x \in Existing(committed) : committed[x].started = v /\ v # None
                                           /\ committed[x].stopped # v
      BY <2>2, OpenWindows
    <3>2. CASE x = s
      BY <1>5, <3>1, <3>2
    <3>3. CASE x # s
      <4>1. x \in Existing(closed) /\ committed[x] = closed[x]
        BY <1>1, <1>6, <1>8, <3>1, <3>3 DEF Existing
      <4>2. v \in OpenScheduleWindows(closed)
        BY <3>1, <4>1, OpenWindows
      <4> QED
        BY <1>4, <4>2
    <3> QED
      BY <3>2, <3>3
  <2> QED
    BY <2>1, <2>2
<1> QED
  BY <1>7, <1>8, <1>9 DEF committed

(***************************************************************************)
(* Holds, starts and pauses                                                *)
(***************************************************************************)

\* The rows of schedules and of skipped windows are the same.
SameRows(e, d) == e.rows = d.rows /\ e.used = d.used /\ e.skips = d.skips

\* A row has an end of its hold if and only if it holds a timed pause.
Timed(d) == (d.hold = "pause_until") <=> (d.until # NoTime)

LEMMA HoldIsSet ==
  ASSUME NEW d \in Db, NEW reason \in Reasons, NEW until \in Times \cup {NoTime},
         NEW owner \in Maybe(Windows)
  PROVE  LET e == SetSafetyHold(d, reason, until, owner)
         IN /\ e \in Db /\ SameRows(e, d)
            /\ e.hold = reason /\ e.until = until /\ e.owner = owner
            /\ e.desired = d.desired /\ e.attention = d.attention
BY DEF SetSafetyHold, Db, SameRows

LEMMA HoldIsCleared ==
  ASSUME NEW d \in Db
  PROVE  LET e == Cleared(d)
         IN /\ e \in Db /\ SameRows(e, d)
            /\ e.hold = "none" /\ e.until = NoTime /\ e.owner = None
            /\ e.desired = d.desired
<1>1. "none" \in Reasons /\ None \in Maybe(Windows) /\ NoTime \in Times \cup {NoTime}
  BY DEF Reasons, Maybe
<1>2. /\ ClearSafetyHold(d) \in Db /\ SameRows(ClearSafetyHold(d), d)
      /\ ClearSafetyHold(d).hold = "none" /\ ClearSafetyHold(d).until = NoTime
      /\ ClearSafetyHold(d).owner = None /\ ClearSafetyHold(d).desired = d.desired
  BY <1>1, HoldIsSet DEF ClearSafetyHold
<1> QED
  BY <1>2 DEF Cleared, Db, SameRows

LEMMA IsResumed ==
  ASSUME NEW d \in Db
  PROVE  LET e == Resumed(d)
         IN /\ e \in Db /\ SameRows(e, d)
            /\ e.hold = "none" /\ e.until = NoTime /\ e.owner = None
            /\ e.desired = "running"
BY HoldIsCleared DEF Resumed, Db, SameRows

LEMMA IsPaused ==
  ASSUME NEW d \in Db
  PROVE  LET e == Paused(d)
         IN /\ e \in Db /\ SameRows(e, d)
            /\ e.hold = d.hold /\ e.until = d.until /\ e.owner = d.owner
            /\ e.desired = "paused"
BY DEF Paused, Db, SameRows

LEMMA IsPausedForSafety ==
  ASSUME NEW d \in Db, Timed(d), NEW e \in PausedForSafety(d)
  PROVE  /\ e \in Db /\ SameRows(e, d) /\ Timed(e) /\ e.desired = "paused"
         /\ e.hold = "pause_until" => e.hold = d.hold /\ e.until = d.until
                                      /\ e.owner = d.owner
<1>1. CASE e = Paused(d)
  BY <1>1, IsPaused DEF Timed
<1>2. CASE e = [SetSafetyHold(Paused(d), "safety_failure", NoTime, None)
                  EXCEPT !.attention = TRUE]
  <2> DEFINE g == SetSafetyHold(Paused(d), "safety_failure", NoTime, None)
  <2>1. "safety_failure" \in Reasons /\ None \in Maybe(Windows) /\ NoTime \in Times \cup {NoTime}
    BY DEF Reasons, Maybe
  <2>2. /\ g \in Db /\ SameRows(g, d) /\ g.desired = "paused"
        /\ g.hold = "safety_failure" /\ g.until = NoTime
    <3> DEFINE p == Paused(d)
    <3>1. p \in Db /\ SameRows(p, d) /\ p.desired = "paused"
      BY IsPaused
    <3> HIDE DEF p
    <3>2. LET e1 == SetSafetyHold(p, "safety_failure", NoTime, None)
          IN /\ e1 \in Db /\ SameRows(e1, p) /\ e1.desired = p.desired
             /\ e1.hold = "safety_failure" /\ e1.until = NoTime
      BY <2>1, <3>1, HoldIsSet
    <3> QED
      BY <3>1, <3>2 DEF SameRows, p
  <2> HIDE DEF g
  <2>3. e = [g EXCEPT !.attention = TRUE]
    BY <1>2 DEF g
  <2> QED
    BY <2>2, <2>3 DEF Db, SameRows, Timed
<1> QED
  BY <1>1, <1>2 DEF PausedForSafety

LEMMA HasBegun ==
  ASSUME NEW d \in Db, NEW e \in Begun(d) \cup ResumeOrStart(d)
  PROVE  /\ e \in Db /\ SameRows(e, d) /\ Timed(e) /\ e.hold = "none"
         /\ e.desired \in {"running", d.desired}
<1>1. e \in {Resumed(d), Cleared(d)}
  BY DEF Begun, ResumeOrStart
<1> QED
  BY <1>1, IsResumed, HoldIsCleared DEF Timed

LEMMA FailureIsRecorded ==
  ASSUME NEW m \in Mem, NEW kind \in {"start", "pause"},
         NEW window \in Maybe(Windows), NEW t \in Times
  PROVE  LET e == RecordTransitionFailure(m, kind, window, t)
         IN /\ e \in Mem
            /\ e.up = m.up /\ e.active = m.active
            /\ e.timer = m.timer /\ e.late = m.late
<1> DEFINE again == m.failed.kind = kind /\ m.failed.window = window
           failures == IF again THEN Min({m.failed.failures + 1, MaxDelay}) ELSE 1
           retryAt == Min({t + RetryDelay(failures), MaxNow})
           new == [kind |-> kind, window |-> window,
                   failures |-> failures, retryAt |-> retryAt]
<1>1. m.failed \in Failure /\ m.failed.failures \in 0..MaxDelay
  BY DEF Mem, Failure
<1>2. failures \in 1..MaxDelay
  <2> DEFINE n == m.failed.failures + 1
  <2>1. n \in Int /\ 1 <= n /\ MaxDelay \in Int /\ 1 <= MaxDelay
    BY <1>1, ConstantsAssumption
  <2> HIDE DEF n
  <2>2. Min({n, MaxDelay}) \in {n, MaxDelay} /\ Min({n, MaxDelay}) <= MaxDelay
    BY <2>1, MinOfTwo
  <2>3. Min({n, MaxDelay}) \in 1..MaxDelay /\ 1 \in 1..MaxDelay
    BY <2>1, <2>2
  <2> QED
    BY <2>3 DEF n
<1>3. RetryDelay(failures) \in Nat
  <2> HIDE DEF failures
  <2>1. failures - 1 \in Nat
    BY <1>2
  <2>2. 2 ^ (failures - 1) \in Nat
    BY <2>1, PowerIsPositive
  <2> DEFINE p == 2 ^ (failures - 1)
  <2> HIDE DEF p
  <2>3. Min({p, MaxDelay}) \in Nat
    <3>1. p \in Nat /\ MaxDelay \in Nat /\ p \in Int /\ MaxDelay \in Int
      BY <2>2, ConstantsAssumption DEF p
    <3>2. Min({p, MaxDelay}) \in {p, MaxDelay}
      BY <3>1, MinOfTwo
    <3> QED
      BY <3>1, <3>2
  <2> QED
    BY <2>3 DEF RetryDelay, p
<1>4. retryAt \in Times
  <2> HIDE DEF failures
  <2>1. t \in Int /\ MinNow \in Int /\ MaxNow \in Int
        /\ MinNow <= t /\ t <= MaxNow
    BY ConstantsAssumption DEF Times
  <2> DEFINE p == t + RetryDelay(failures)
  <2>2. p \in Int /\ MinNow <= p
    BY <1>3, <2>1
  <2> HIDE DEF p
  <2>3. Min({p, MaxNow}) \in {p, MaxNow} /\ Min({p, MaxNow}) <= MaxNow
    BY <2>1, <2>2, MinOfTwo
  <2>4. Min({p, MaxNow}) \in Times
    BY <2>1, <2>2, <2>3 DEF Times
  <2> QED
    BY <2>4 DEF p
<1> HIDE DEF retryAt, failures
<1>5. new \in Failure
  BY <1>2, <1>4 DEF Failure
<1>6. RecordTransitionFailure(m, kind, window, t) = [m EXCEPT !.failed = new]
  BY DEF RecordTransitionFailure, retryAt, failures
<1> HIDE DEF new
<1> QED
  BY <1>5, <1>6 DEF Mem

LEMMA NothingFailed == NoFailure \in Failure
BY ConstantsAssumption DEF NoFailure, Failure, Maybe, Times

(***************************************************************************)
(* One account in a tick                                                   *)
(***************************************************************************)

\* The rows, the memory and the wish of an account as the invariant has them.
Sound(d, m) ==
    /\ d \in Db /\ Existing(d.rows) \subseteq d.used /\ Timed(d)
    /\ m \in Mem
    /\ Alone(Believed(d.rows, m))

\* What every result of a tick keeps of the rows and the memory it begins with.
Faithful(d, m, t, r) ==
    /\ Sound(r.db, r.mem) /\ r.mem.up = m.up /\ r.mem.late = m.late
    /\ r.did \in Dids
    /\ r.db.hold = "pause_until" => r.db = d /\ r.mem = m /\ r.did = "nothing"
    /\ r.did = "nothing" =>
          /\ Believed(d.rows, m) = {} => Believed(r.db.rows, r.mem) = {}
          /\ OpenScheduleWindows(d.rows) # {} => OpenScheduleWindows(r.db.rows) # {}
    /\ r.did = "started" => OpenScheduleWindows(r.db.rows) # {}
    /\ d.desired # "running" /\ r.db.desired = "running"
          => SelectScheduleWinner(d, t) \notin OpenScheduleWindows(d.rows)
    /\ d.desired = "running" /\ r.db.desired = "paused"
          => Believed(d.rows, m) # {}
    /\ \A w \in d.skips :
          w \in OpenScheduleWindows(r.db.rows) => w \in OpenScheduleWindows(d.rows)

LEMMA RowsAreTyped ==
  ASSUME NEW d \in Db PROVE d.rows \in Rows /\ d.skips \subseteq Windows
BY DEF Db, Rows

LEMMA SameBelief ==
  ASSUME NEW d, NEW e, NEW m, NEW n, e.rows = d.rows, n.active = m.active
  PROVE  Believed(e.rows, n) = Believed(d.rows, m)
BY DEF Believed

\* The rows of another row of the database.
LEMMA RowsAreReplaced ==
  ASSUME NEW d \in Db, Existing(d.rows) \subseteq d.used, Timed(d),
         NEW rows \in Rows, Existing(rows) = Existing(d.rows)
  PROVE  LET e == [d EXCEPT !.rows = rows]
         IN /\ e \in Db /\ Existing(e.rows) \subseteq e.used /\ Timed(e)
            /\ e.rows = rows /\ e.hold = d.hold /\ e.desired = d.desired
            /\ e.skips = d.skips
BY DEF Db, Rows, Timed

\* Nothing is done.
LEMMA NothingIsFaithful ==
  ASSUME NEW d, NEW m, NEW t \in Times, Sound(d, m)
  PROVE  Faithful(d, m, t, Result(d, m, "nothing"))
<1> DEFINE r == Result(d, m, "nothing")
<1>1. r.db = d /\ r.mem = m /\ r.did = "nothing"
  BY DEF Result
<1> HIDE DEF r
<1>2. ~(d.desired # "running" /\ d.desired = "running")
  OBVIOUS
<1>3. ~(d.desired = "running" /\ d.desired = "paused")
  OBVIOUS
<1>4. Sound(r.db, r.mem) /\ r.mem.up = m.up /\ r.mem.late = m.late /\ r.did \in Dids
  BY <1>1 DEF Dids
<1>5. /\ r.db.hold = "pause_until" => r.db = d /\ r.mem = m /\ r.did = "nothing"
      /\ r.did = "nothing" =>
          /\ Believed(d.rows, m) = {} => Believed(r.db.rows, r.mem) = {}
          /\ OpenScheduleWindows(d.rows) # {} => OpenScheduleWindows(r.db.rows) # {}
      /\ r.did # "started"
  BY <1>1
<1>6. \A w \in d.skips :
          w \in OpenScheduleWindows(r.db.rows) => w \in OpenScheduleWindows(d.rows)
  BY <1>1
<1> QED
  BY <1>1, <1>2, <1>3, <1>4, <1>5, <1>6 DEF Faithful, r

\* The rows stay, as does what is remembered of the window.
LEMMA UnmarkedIsFaithful ==
  ASSUME NEW d, NEW m, NEW t \in Times, Sound(d, m),
         NEW e \in Db, SameRows(e, d), Timed(e), e.hold # "pause_until",
         NEW n \in Mem, n.up = m.up, n.active = m.active, n.late = m.late,
         NEW did \in {"nothing", "broken"},
         d.desired # "running" /\ e.desired = "running"
            => SelectScheduleWinner(d, t) \notin OpenScheduleWindows(d.rows),
         d.desired = "running" /\ e.desired = "paused" => Believed(d.rows, m) # {}
  PROVE  Faithful(d, m, t, Result(e, n, did))
<1> DEFINE r == Result(e, n, did)
<1>1. r.db = e /\ r.mem = n /\ r.did = did
  BY DEF Result
<1> HIDE DEF r
<1>2. e.rows = d.rows /\ e.used = d.used
  BY DEF SameRows
<1>3. Believed(e.rows, n) = Believed(d.rows, m)
  BY <1>2, SameBelief
<1>4. Sound(e, n)
  BY <1>2, <1>3 DEF Sound
<1>5. Sound(r.db, r.mem) /\ r.mem.up = m.up /\ r.mem.late = m.late /\ r.did \in Dids
  BY <1>1, <1>4 DEF Dids
<1>6. /\ r.db.hold # "pause_until"
      /\ Believed(r.db.rows, r.mem) = Believed(d.rows, m)
      /\ OpenScheduleWindows(r.db.rows) = OpenScheduleWindows(d.rows)
      /\ r.did # "started"
  BY <1>1, <1>2, <1>3
<1> QED
  BY <1>1, <1>5, <1>6 DEF Faithful, r

\* One window is opened or kept, and all others are closed.
LEMMA CommittedIsFaithful ==
  ASSUME NEW d, NEW m, NEW t \in Times, Sound(d, m),
         NEW w \in Windows, w.schedule \in Existing(d.rows), w \notin d.skips,
         NEW e \in Db, SameRows(e, d), Timed(e), e.hold # "pause_until",
         NEW n \in Mem, n.up = m.up, n.active = w, n.late = m.late,
         NEW did \in {"nothing", "started"},
         did = "nothing" => w \in OpenScheduleWindows(d.rows),
         d.desired # "running" /\ e.desired = "running"
            => SelectScheduleWinner(d, t) \notin OpenScheduleWindows(d.rows),
         e.desired \in {d.desired, "running"}
  PROVE  LET g == [e EXCEPT !.rows = CommitStartedWindow(e.rows, w)]
         IN Faithful(d, m, t, Result(g, n, did))
<1> DEFINE rows == CommitStartedWindow(e.rows, w)
           g == [e EXCEPT !.rows = rows]
           r == Result(g, n, did)
<1>1. e.rows = d.rows /\ e.used = d.used /\ e.rows \in Rows
  BY RowsAreTyped DEF SameRows
<1>2. /\ rows \in Rows /\ Existing(rows) = Existing(e.rows)
      /\ OpenScheduleWindows(rows) = {w}
  BY <1>1, CommittedRows
<1> HIDE DEF rows
<1>3. Existing(e.rows) \subseteq e.used
  BY <1>1 DEF Sound
<1>4. /\ g \in Db /\ Existing(g.rows) \subseteq g.used /\ Timed(g)
      /\ g.rows = rows /\ g.hold = e.hold /\ g.desired = e.desired
  BY <1>2, <1>3, RowsAreReplaced
<1> HIDE DEF g
<1>5. r.db = g /\ r.mem = n /\ r.did = did
  BY DEF Result
<1> HIDE DEF r
<1>6. Believed(g.rows, n) = {w}
  BY <1>2, <1>4 DEF Believed
<1>7. Sound(g, n)
  BY <1>4, <1>6 DEF Sound, Alone
<1>8. did = "nothing" => Believed(d.rows, m) # {}
  BY DEF Believed
<1>9. Sound(r.db, r.mem) /\ r.mem.up = m.up /\ r.mem.late = m.late /\ r.did \in Dids
  BY <1>5, <1>7 DEF Dids
<1>10. /\ r.db.hold # "pause_until" /\ r.db.desired = e.desired
       /\ OpenScheduleWindows(r.db.rows) = {w}
  BY <1>2, <1>4, <1>5
<1>11. r.did = "nothing" =>
          /\ Believed(d.rows, m) = {} => Believed(r.db.rows, r.mem) = {}
          /\ OpenScheduleWindows(d.rows) # {} => OpenScheduleWindows(r.db.rows) # {}
  BY <1>5, <1>8, <1>10
<1>12. ~(d.desired = "running" /\ r.db.desired = "paused")
  BY <1>10
<1>13. \A v \in d.skips : v \notin OpenScheduleWindows(r.db.rows)
  BY <1>10
<1> QED
  BY <1>9, <1>10, <1>11, <1>12, <1>13 DEF Faithful, g, rows, r

\* All windows are closed and forgotten.
LEMMA PausedIsFaithful ==
  ASSUME NEW d, NEW m, NEW t \in Times, Sound(d, m), Believed(d.rows, m) # {},
         NEW e \in Db, SameRows(e, d), Timed(e), e.hold # "pause_until",
         e.desired # "running",
         NEW n \in Mem, n.up = m.up, n.active = None, n.late = m.late
  PROVE  LET g == [e EXCEPT !.rows =
                      MarkWindowsStopped(e.rows, OpenScheduleWindows(d.rows))]
         IN Faithful(d, m, t, Result(g, n, "paused"))
<1> DEFINE rows == MarkWindowsStopped(e.rows, OpenScheduleWindows(d.rows))
           g == [e EXCEPT !.rows = rows]
           r == Result(g, n, "paused")
<1>1. e.rows = d.rows /\ e.used = d.used /\ e.rows \in Rows
  BY RowsAreTyped DEF SameRows
<1>2. /\ rows \in Rows /\ Existing(rows) = Existing(e.rows)
      /\ OpenScheduleWindows(rows) = {}
  BY <1>1, OpenAreWindows, MarkedRows
<1> HIDE DEF rows
<1>3. Existing(e.rows) \subseteq e.used
  BY <1>1 DEF Sound
<1>4. /\ g \in Db /\ Existing(g.rows) \subseteq g.used /\ Timed(g)
      /\ g.rows = rows /\ g.hold = e.hold /\ g.desired = e.desired
  BY <1>2, <1>3, RowsAreReplaced
<1> HIDE DEF g
<1>5. r.db = g /\ r.mem = n /\ r.did = "paused"
  BY DEF Result
<1> HIDE DEF r
<1>6. Believed(g.rows, n) = {}
  BY <1>2, <1>4 DEF Believed
<1>7. Sound(g, n)
  BY <1>4, <1>6 DEF Sound, Alone
<1> QED
  BY <1>2, <1>4, <1>5, <1>7 DEF Faithful, Dids, g, rows, r

LEMMA StartIsFaithful ==
  ASSUME NEW d, NEW m, NEW t \in Times, Sound(d, m), ~Held(d),
         NEW w \in Windows, w.schedule \in Existing(d.rows), w \notin d.skips,
         w = SelectScheduleWinner(d, t), w \notin OpenScheduleWindows(d.rows),
         NEW r \in StartWindow(d, m, w, t)
  PROVE  Faithful(d, m, t, r)
<1> DEFINE failed == RecordTransitionFailure(m, "start", w, t)
           later == [failed EXCEPT !.timer = NoTime]
           begun == [m EXCEPT !.active = w, !.failed = NoFailure, !.timer = NoTime]
<1>1. d \in Db /\ m \in Mem /\ Timed(d) /\ d.hold = "none"
  BY DEF Sound, Held
<1>2. /\ failed \in Mem /\ failed.up = m.up /\ failed.active = m.active
      /\ failed.timer = m.timer /\ failed.late = m.late
  <2>1. w \in Maybe(Windows)
    BY DEF Maybe
  <2> QED
    BY <1>1, <2>1, FailureIsRecorded
<1> HIDE DEF failed
<1>3. /\ later \in Mem /\ later.up = m.up /\ later.active = m.active
      /\ later.late = m.late
  BY <1>2 DEF Mem
<1>4. /\ begun \in Mem /\ begun.up = m.up /\ begun.active = w
      /\ begun.late = m.late
  BY <1>1, NothingFailed DEF Mem, Maybe
<1>5. SelectScheduleWinner(d, t) \notin OpenScheduleWindows(d.rows)
  OBVIOUS
<1>6. r = Result(d, m, "nothing")
      \/ r = Result(d, failed, "nothing")
      \/ r = Result(Resumed(d), later, "broken")
      \/ \E e \in ResumeOrStart(d) :
            r = Result([e EXCEPT !.rows = CommitStartedWindow(e.rows, w)], begun, "started")
  BY DEF StartWindow, failed, later, begun
<1> HIDE DEF later, begun
<1>7. CASE r = Result(d, m, "nothing")
  BY <1>7, NothingIsFaithful
<1>8. CASE r = Result(d, failed, "nothing")
  <2>1. SameRows(d, d) /\ d.hold # "pause_until"
        /\ ~(d.desired = "running" /\ d.desired = "paused")
    BY <1>1 DEF SameRows
  <2> QED
    BY <1>1, <1>2, <1>5, <1>8, <2>1, UnmarkedIsFaithful
<1>9. CASE r = Result(Resumed(d), later, "broken")
  <2> DEFINE e == Resumed(d)
  <2>1. e \in Db /\ SameRows(e, d) /\ Timed(e) /\ e.hold # "pause_until"
        /\ ~(d.desired = "running" /\ e.desired = "paused")
    BY <1>1, IsResumed DEF Timed
  <2> HIDE DEF e
  <2>2. Faithful(d, m, t, Result(e, later, "broken"))
    BY <1>1, <1>3, <1>5, <2>1, UnmarkedIsFaithful
  <2> QED
    BY <1>9, <2>2 DEF e
<1>10. ASSUME NEW e \in ResumeOrStart(d),
              r = Result([e EXCEPT !.rows = CommitStartedWindow(e.rows, w)], begun, "started")
       PROVE  Faithful(d, m, t, r)
  <2>1. e \in Db /\ SameRows(e, d) /\ Timed(e) /\ e.hold # "pause_until"
        /\ e.desired \in {d.desired, "running"}
    BY <1>1, HasBegun
  <2> QED
    BY <1>1, <1>4, <1>5, <1>10, <2>1, CommittedIsFaithful
<1> QED
  BY <1>6, <1>7, <1>8, <1>9, <1>10

LEMMA StopIsFaithful ==
  ASSUME NEW d, NEW m, NEW t \in Times, Sound(d, m), ~Held(d),
         SelectScheduleWinner(d, t) = None,
         NEW r \in StopAccountWindow(d, m, t)
  PROVE  Faithful(d, m, t, r)
<1> DEFINE open == OpenScheduleWindows(d.rows)
           failed == RecordTransitionFailure(m, "pause", None, t)
           later == [failed EXCEPT !.timer = NoTime]
           gone == [m EXCEPT !.active = None, !.failed = NoFailure]
           cleared == [gone EXCEPT !.timer = NoTime]
           marked(e) == [e EXCEPT !.rows = MarkWindowsStopped(e.rows, open)]
<1>1. d \in Db /\ m \in Mem /\ Timed(d) /\ d.hold = "none"
  BY DEF Sound, Held
<1>2. /\ failed \in Mem /\ failed.up = m.up /\ failed.active = m.active
      /\ failed.timer = m.timer /\ failed.late = m.late
  <2>1. None \in Maybe(Windows)
    BY DEF Maybe
  <2> QED
    BY <1>1, <2>1, FailureIsRecorded
<1> HIDE DEF failed
<1>3. /\ later \in Mem /\ later.up = m.up /\ later.active = m.active
      /\ later.late = m.late
  BY <1>2 DEF Mem
<1>4. /\ gone \in Mem /\ gone.up = m.up /\ gone.active = None
      /\ gone.late = m.late
  BY <1>1, NothingFailed DEF Mem, Maybe
<1> HIDE DEF gone
<1>5. /\ cleared \in Mem /\ cleared.up = m.up /\ cleared.active = None
      /\ cleared.late = m.late
  BY <1>4 DEF Mem
<1>6. SelectScheduleWinner(d, t) \notin open
  BY NoneAssumption, OpenAreWindows, RowsAreTyped, <1>1
<1>7. r = Result(d, m, "nothing")
      \/ /\ Believed(d.rows, m) # {}
         /\ \/ d.desired = "stopped" /\ r = Result(marked(d), gone, "paused")
            \/ r = Result(marked(Paused(d)), cleared, "paused")
            \/ r = Result(d, later, "nothing")
            \/ r = Result(Paused(d), later, "nothing")
  <2>1. ~(m.active = None /\ open = {}) => Believed(d.rows, m) # {}
    BY DEF Believed
  <2>2. r = Result(d, m, "nothing")
        \/ /\ ~(m.active = None /\ open = {})
           /\ \/ d.desired = "stopped" /\ r = Result(marked(d), gone, "paused")
              \/ r = Result(marked(Paused(d)), cleared, "paused")
              \/ r = Result(d, later, "nothing")
              \/ r = Result(Paused(d), later, "nothing")
    BY DEF StopAccountWindow, failed, later, cleared, gone
  <2> QED
    BY <2>1, <2>2
<1> HIDE DEF later, cleared, marked
<1>8. CASE r = Result(d, m, "nothing")
  BY <1>8, NothingIsFaithful
<1>9. CASE Believed(d.rows, m) # {} /\ d.desired = "stopped"
           /\ r = Result(marked(d), gone, "paused")
  <2>1. SameRows(d, d) /\ d.hold # "pause_until" /\ d.desired # "running"
    BY <1>1, <1>9 DEF SameRows
  <2> QED
    BY <1>1, <1>4, <1>9, <2>1, PausedIsFaithful DEF marked
<1> DEFINE e == Paused(d)
<1>10. e \in Db /\ SameRows(e, d) /\ Timed(e) /\ e.hold # "pause_until"
       /\ e.desired = "paused"
  BY <1>1, IsPaused DEF Timed
<1> HIDE DEF e
<1>11. CASE Believed(d.rows, m) # {} /\ r = Result(marked(e), cleared, "paused")
  <2>1. e.desired # "running"
    BY <1>10
  <2> QED
    BY <1>5, <1>10, <1>11, <2>1, PausedIsFaithful DEF marked
<1>12. CASE Believed(d.rows, m) # {} /\ r = Result(d, later, "nothing")
  <2>1. SameRows(d, d) /\ d.hold # "pause_until"
    BY <1>1 DEF SameRows
  <2> QED
    BY <1>1, <1>3, <1>6, <1>12, <2>1, UnmarkedIsFaithful
<1>13. CASE Believed(d.rows, m) # {} /\ r = Result(e, later, "nothing")
  BY <1>3, <1>6, <1>10, <1>13, UnmarkedIsFaithful
<1> QED
  BY <1>7, <1>8, <1>9, <1>11, <1>12, <1>13 DEF e

\* transitionAccount: whatever it finds, and whatever fails.
LEMMA TransitionIsFaithful ==
  ASSUME NEW d, NEW m, NEW t \in Times, Sound(d, m),
         NEW r \in TransitionAccount(d, m, t)
  PROVE  Faithful(d, m, t, r)
<1> DEFINE w == SelectScheduleWinner(d, t)
           open == OpenScheduleWindows(d.rows)
           kept == w \in open /\ m.active \in {w, None}
           n == [m EXCEPT !.active = w]
<1>1. d \in Db /\ m \in Mem /\ Timed(d) /\ Alone(Believed(d.rows, m))
  BY DEF Sound
<1>2. w # None => w \in Windows /\ w \notin d.skips /\ w.schedule \in Existing(d.rows)
  BY <1>1, WinnerIsActive
<1> HIDE DEF w
<1>3. CASE Held(d)
  <2>1. r = Result(d, m, "nothing")
    BY <1>3 DEF TransitionAccount
  <2> QED
    BY <2>1, NothingIsFaithful
<1>4. CASE ~Held(d) /\ w = None
  <2>1. r \in StopAccountWindow(d, m, t)
    BY <1>4 DEF TransitionAccount, w
  <2> QED
    BY <1>4, <2>1, StopIsFaithful DEF w
<1>5. CASE ~Held(d) /\ w # None /\ kept
  <2>1. r = Result([d EXCEPT !.rows = CommitStartedWindow(d.rows, w)], n, "nothing")
    BY <1>5 DEF TransitionAccount, w
  <2>2. n \in Mem /\ n.up = m.up /\ n.active = w /\ n.late = m.late
    BY <1>1, <1>2, <1>5 DEF Mem, Maybe
  <2> HIDE DEF n
  <2>3. SameRows(d, d) /\ d.hold # "pause_until" /\ d.desired \in {d.desired, "running"}
        /\ ~(d.desired # "running" /\ d.desired = "running")
    BY <1>5 DEF SameRows, Held
  <2>4. w \in open
    BY <1>5
  <2>5. LET g == [d EXCEPT !.rows = CommitStartedWindow(d.rows, w)]
        IN Faithful(d, m, t, Result(g, n, "nothing"))
    BY <1>1, <1>2, <1>5, <2>2, <2>3, <2>4, CommittedIsFaithful
  <2> QED
    BY <2>1, <2>5
<1>6. CASE ~Held(d) /\ w # None /\ ~kept
  <2>1. r \in StartWindow(d, m, w, t)
    BY <1>6 DEF TransitionAccount, w
  <2>2. w \notin open
    BY <1>1, <1>6 DEF Believed, Alone
  <2> QED
    BY <1>2, <1>6, <2>1, <2>2, StartIsFaithful DEF w
<1> QED
  BY <1>3, <1>4, <1>5, <1>6

(***************************************************************************)
(* What the actions have in common                                         *)
(***************************************************************************)

Queue == [at : Times \cup {NoTime}, next : Times \cup {NoTime}]

\* No window is opened.
Shrinks == OpenScheduleWindows(db'.rows) \subseteq OpenScheduleWindows(db.rows)

LEMMA Unpacked ==
  ASSUME IInv
  PROVE  /\ now \in Times /\ changes \in 0..MaxChanges
         /\ Sound(db, mem) /\ run \in Run /\ ticks \in Queue
BY DEF IInv, TypeOK, Sound, Timed, Queue

LEMMA Packed ==
  ASSUME now' \in Times, changes' \in 0..MaxChanges, Sound(db', mem'),
         run' \in Run, ticks' \in Queue,
         Dormant', TimerIsArmed', Uncovered', Marked', Owned'
  PROVE  IInv'
BY DEF IInv, TypeOK, Sound, Timed, Queue

LEMMA Runs ==
  /\ NoRun \in Run /\ NoRun.by = "nobody"
  /\ RunByUser \in Run /\ RunByUser.by = "user"
  /\ ~RunByUser.covered => Believed(db.rows, mem) = {}
BY DEF NoRun, RunByUser, Run, Covered, Believed

LEMMA NothingIsRemembered ==
  /\ NoMemory \in Mem /\ ~NoMemory.up /\ NoMemory.active = None
  /\ NoMemory.timer = NoTime /\ ~NoMemory.late
  /\ NoTicks \in Queue
BY NothingFailed DEF NoMemory, Mem, Maybe, NoTicks, Queue

\* Believed less, with the same windows open.
LEMMA BelievesLess ==
  ASSUME NEW d, NEW e, NEW m, NEW n, e.rows = d.rows, n.active \in {m.active, None}
  PROVE  /\ Believed(e.rows, n) \subseteq Believed(d.rows, m)
         /\ Alone(Believed(d.rows, m)) => Alone(Believed(e.rows, n))
BY DEF Believed, Alone

LEMMA StaysSound ==
  ASSUME Sound(db, mem), NEW e \in Db, SameRows(e, db), Timed(e),
         NEW n \in Mem, n.active \in {mem.active, None}
  PROVE  Sound(e, n)
BY BelievesLess DEF Sound, SameRows

\* A step that neither opens nor closes a window: of the run it may make one of
\* the user's or none.
LEMMA HistoryIsKept ==
  ASSUME IInv, OpenScheduleWindows(db'.rows) = OpenScheduleWindows(db.rows),
         mem'.active \in {mem.active, None},
         run' = run \/ run' = NoRun \/ run' = RunByUser
  PROVE  Uncovered' /\ Marked' /\ run' \in Run
<1>1. CASE run' = run
  BY <1>1, Unpacked DEF IInv, Uncovered, Marked
<1>2. CASE run' = NoRun
  BY <1>2, Runs DEF Uncovered, Marked
<1>3. CASE run' = RunByUser
  BY <1>3, Runs DEF Uncovered, Marked, Believed
<1> QED
  BY <1>1, <1>2, <1>3

\* A command that ends any timed pause.
LEMMA CommandKeeps ==
  ASSUME IInv, mem.up,
         db' \in Db, SameRows(db', db), Timed(db'), db'.hold # "pause_until",
         mem' \in Mem, mem'.up, mem'.active \in {mem.active, None},
         run' = run \/ run' = NoRun \/ run' = RunByUser,
         UNCHANGED <<now, ticks, changes>>
  PROVE  IInv' /\ Shrinks
<1>1. now' \in Times /\ changes' \in 0..MaxChanges /\ ticks' \in Queue
  BY Unpacked
<1>2. Sound(db', mem')
  BY Unpacked, StaysSound
<1>3. db'.rows = db.rows
  BY DEF SameRows
<1>4. Uncovered' /\ Marked' /\ run' \in Run
  BY <1>3, HistoryIsKept
<1>5. Dormant' /\ TimerIsArmed' /\ Owned'
  BY DEF Dormant, TimerIsArmed, Owned
<1> QED
  BY <1>1, <1>2, <1>3, <1>4, <1>5, Packed DEF Shrinks

\* getHoldOwner finds an owner when a window is open.
LEMMA OwnerIsFound ==
  ASSUME NEW d, NEW m, NEW t \in Times, Sound(d, m)
  PROVE  /\ HoldOwner(d, m, t) \in Maybe(Windows)
         /\ OpenScheduleWindows(d.rows) # {} => HoldOwner(d, m, t) # None
<1> DEFINE winner == SelectScheduleWinner(d, t)
           open == OpenScheduleWindows(d.rows)
<1>1. d \in Db /\ Alone(Believed(d.rows, m))
  BY DEF Sound
<1>2. winner # None => winner \in Windows
  BY <1>1, WinnerIsActive
<1>3. open \subseteq Windows /\ None \notin open
  BY <1>1, RowsAreTyped, OpenAreWindows, NoneAssumption
<1>4. ASSUME open # {}
      PROVE  (CHOOSE w \in open : \A v \in open : w.schedule <= v.schedule) \in open
  <2>1. PICK w \in open : TRUE
    BY <1>4
  <2>2. \A v \in open : v = w
    BY <1>1, <2>1 DEF Believed, Alone
  <2>3. w.schedule <= w.schedule
    <3>1. w.schedule \in Schedules
      BY <1>3, <2>1 DEF Windows
    <3>2. \A x \in Schedules : x <= x
      BY ConstantsAssumption
    <3> HIDE DEF open, winner
    <3> QED
      BY <3>1, <3>2
  <2>4. \E x \in open : \A v \in open : x.schedule <= v.schedule
    BY <2>1, <2>2, <2>3
  <2> QED
    BY <2>4
<1> QED
  BY <1>2, <1>3, <1>4 DEF HoldOwner, Maybe

(***************************************************************************)
(* Ticks and time                                                          *)
(***************************************************************************)

\* What a tick makes of the histories.
LEMMA HistoryAfterTick ==
  ASSUME IInv, NEW t \in Times, NEW r, Faithful(db, mem, t, r),
         db' = r.db, mem'.active = r.mem.active, run' = RunAfter(r.did, r.db)
  PROVE  run' \in Run /\ Uncovered' /\ Marked' /\ Owned'
<1>1. run \in Run
  BY Unpacked
<1>2. /\ r.did \in Dids
      /\ r.db.hold = "pause_until" => r.db = db /\ r.did = "nothing"
      /\ r.did = "nothing" =>
          /\ Believed(db.rows, mem) = {} => Believed(r.db.rows, r.mem) = {}
          /\ OpenScheduleWindows(db.rows) # {} => OpenScheduleWindows(r.db.rows) # {}
      /\ r.did = "started" => OpenScheduleWindows(r.db.rows) # {}
  BY DEF Faithful
<1>3. CASE r.did = "nothing"
  <2>1. run' \in Run /\ (run' = run \/ run'.by = "nobody")
    BY <1>1, <1>3 DEF RunAfter, Run
  <2>2. Uncovered'
    BY <1>2, <1>3, <2>1 DEF IInv, Uncovered, Believed
  <2>3. Marked'
    BY <1>2, <1>3, <2>1 DEF IInv, Marked
  <2>4. Owned'
    BY <1>2, <2>1 DEF IInv, Owned
  <2> QED
    BY <2>1, <2>2, <2>3, <2>4
<1>4. CASE r.did # "nothing"
  <2>1. /\ run' \in Run
        /\ run'.by = "schedule" /\ ~run'.astray => r.did = "started"
        /\ run'.by # "user"
    BY <1>2, <1>4 DEF RunAfter, Run, NoRun, Dids
  <2> QED
    BY <1>2, <1>4, <2>1 DEF Uncovered, Marked, Owned
<1> QED
  BY <1>3, <1>4

LEMMA AdvanceKeeps == ASSUME IInv, Advance PROVE IInv' /\ Shrinks
<1>1. /\ now \in Times /\ changes \in 0..MaxChanges
      /\ Sound(db, mem) /\ run \in Run /\ ticks \in Queue
  BY Unpacked
<1>2. now' \in Times
  BY <1>1, ConstantsAssumption DEF Advance, Times
<1>3. UNCHANGED <<db, mem, ticks, run, changes>>
  BY DEF Advance
<1>4. Dormant' /\ TimerIsArmed' /\ Uncovered' /\ Marked' /\ Owned'
  BY <1>3 DEF IInv, Dormant, TimerIsArmed, Uncovered, Marked, Owned
<1> QED
  BY <1>1, <1>2, <1>3, <1>4, Packed DEF Shrinks

LEMMA RequestTickKeeps == ASSUME IInv, RequestTick PROVE IInv' /\ Shrinks
<1>1. /\ now \in Times /\ changes \in 0..MaxChanges
      /\ Sound(db, mem) /\ run \in Run /\ ticks \in Queue
  BY Unpacked
<1>2. ticks' \in Queue
  BY <1>1 DEF RequestTick, Queue
<1>3. mem.up /\ UNCHANGED <<now, db, mem, run, changes>>
  BY DEF RequestTick
<1>4. Dormant' /\ TimerIsArmed' /\ Uncovered' /\ Marked' /\ Owned'
  BY <1>3 DEF IInv, Dormant, TimerIsArmed, Uncovered, Marked, Owned
<1> QED
  BY <1>1, <1>2, <1>3, <1>4, Packed DEF Shrinks

LEMMA RunTickKeeps == ASSUME IInv, NEW did \in Dids, RunTick(did) PROVE IInv'
<1>1. /\ now \in Times /\ changes \in 0..MaxChanges
      /\ Sound(db, mem) /\ run \in Run /\ ticks \in Queue
  BY Unpacked
<1>2. mem.up /\ ticks.at \in Times /\ ticks' \in Queue /\ UNCHANGED <<now, changes>>
  BY <1>1 DEF RunTick, Queue
<1>3. PICK r \in TransitionAccount(db, mem, ticks.at) :
        r.did = did /\ db' = r.db /\ mem' = r.mem /\ run' = RunAfter(r.did, r.db)
  BY DEF RunTick
<1>4. Faithful(db, mem, ticks.at, r)
  BY <1>1, <1>2, TransitionIsFaithful
<1>5. run' \in Run /\ Uncovered' /\ Marked' /\ Owned'
  BY <1>2, <1>3, <1>4, HistoryAfterTick
<1>6. Sound(db', mem') /\ mem'.up = mem.up
      /\ (db'.hold = "pause_until" => db' = db /\ mem' = mem)
  BY <1>3, <1>4 DEF Faithful
<1>7. Dormant' /\ TimerIsArmed'
  BY <1>2, <1>6 DEF IInv, Dormant, TimerIsArmed
<1> QED
  BY <1>1, <1>2, <1>5, <1>6, <1>7, Packed

LEMMA BootKeeps == ASSUME IInv, NEW did \in Dids, Boot(did) PROVE IInv'
<1>1. /\ now \in Times /\ changes \in 0..MaxChanges
      /\ Sound(db, mem) /\ run \in Run /\ ticks \in Queue
  BY Unpacked
<1>2. UNCHANGED <<now, ticks, changes>>
  BY DEF Boot
<1>3. PICK r \in TransitionAccount(db, mem, now) :
        /\ r.did = did /\ db' = r.db /\ run' = RunAfter(r.did, r.db)
        /\ mem' = [r.mem EXCEPT !.up = TRUE, !.timer = Restored(r.db)]
  BY DEF Boot
<1>4. Faithful(db, mem, now, r)
  BY <1>1, TransitionIsFaithful
<1>5. Sound(r.db, r.mem) /\ r.mem \in Mem /\ r.db \in Db
  BY <1>4 DEF Faithful, Sound
<1>6. Restored(r.db) \in Times \cup {NoTime}
  BY <1>5 DEF Restored, Db
<1>7. /\ mem' \in Mem /\ mem'.up /\ mem'.active = r.mem.active
      /\ mem'.timer = Restored(r.db)
  BY <1>3, <1>5, <1>6 DEF Mem
<1>8. run' \in Run /\ Uncovered' /\ Marked' /\ Owned'
  BY <1>1, <1>3, <1>4, <1>7, HistoryAfterTick
<1>9. Sound(db', mem')
  <2>1. Believed(db'.rows, mem') = Believed(r.db.rows, r.mem)
    BY <1>3, <1>7 DEF Believed
  <2> QED
    BY <1>3, <1>5, <1>7, <2>1 DEF Sound
<1>10. Dormant' /\ TimerIsArmed'
  BY <1>3, <1>7 DEF Dormant, TimerIsArmed, Restored
<1> QED
  BY <1>1, <1>2, <1>8, <1>9, <1>10, Packed

(***************************************************************************)
(* Commands, caps and lost sessions                                        *)
(***************************************************************************)

LEMMA Forgotten ==
  ASSUME NEW m \in Mem
  PROVE  LET n == Forgetting(m)
         IN /\ n \in Mem /\ n.up = m.up /\ n.active = m.active
            /\ n.timer = NoTime /\ n.late = m.late
BY DEF Forgetting, Mem

LEMMA StartKeeps == ASSUME IInv, Start PROVE IInv' /\ Shrinks
<1>1. db \in Db /\ mem \in Mem
  BY Unpacked DEF Sound
<1>2. db' \in Begun(db) /\ mem' = Forgetting(mem) /\ mem.up
      /\ (run' = run \/ run' = RunByUser) /\ UNCHANGED <<now, ticks, changes>>
  BY DEF Start
<1>3. db' \in Db /\ SameRows(db', db) /\ Timed(db') /\ db'.hold # "pause_until"
  BY <1>1, <1>2, HasBegun
<1>4. mem' \in Mem /\ mem'.up /\ mem'.active \in {mem.active, None}
  BY <1>1, <1>2, Forgotten
<1> QED
  BY <1>2, <1>3, <1>4, CommandKeeps

LEMMA ResumeKeeps == ASSUME IInv, Resume PROVE IInv' /\ Shrinks
<1>1. db \in Db /\ mem \in Mem
  BY Unpacked DEF Sound
<1>2. db' = Resumed(db) /\ mem' = Forgetting(mem) /\ mem.up
      /\ run' = RunByUser /\ UNCHANGED <<now, ticks, changes>>
  BY DEF Resume
<1>3. db' \in Db /\ SameRows(db', db) /\ Timed(db') /\ db'.hold # "pause_until"
  BY <1>1, <1>2, IsResumed DEF Timed
<1>4. mem' \in Mem /\ mem'.up /\ mem'.active \in {mem.active, None}
  BY <1>1, <1>2, Forgotten
<1> QED
  BY <1>2, <1>3, <1>4, CommandKeeps

LEMMA StopKeeps == ASSUME IInv, Stop PROVE IInv' /\ Shrinks
<1>1. db \in Db /\ mem \in Mem
  BY Unpacked DEF Sound
<1>2. db' = [Cleared(db) EXCEPT !.desired = "stopped"] /\ mem' = Forgetting(mem)
      /\ mem.up /\ run' = NoRun /\ UNCHANGED <<now, ticks, changes>>
  BY DEF Stop
<1>3. db' \in Db /\ SameRows(db', db) /\ Timed(db') /\ db'.hold # "pause_until"
  <2> DEFINE e == Cleared(db)
  <2>1. e \in Db /\ SameRows(e, db) /\ e.hold = "none" /\ e.until = NoTime
    BY <1>1, HoldIsCleared
  <2> HIDE DEF e
  <2>2. db' = [e EXCEPT !.desired = "stopped"]
    BY <1>2 DEF e
  <2> QED
    BY <2>1, <2>2 DEF Db, SameRows, Timed
<1>4. mem' \in Mem /\ mem'.up /\ mem'.active \in {mem.active, None}
  BY <1>1, <1>2, Forgotten
<1> QED
  BY <1>2, <1>3, <1>4, CommandKeeps

LEMMA PauseKeeps == ASSUME IInv, Pause PROVE IInv' /\ Shrinks
<1>1. db \in Db /\ mem \in Mem
  BY Unpacked DEF Sound
<1>2. db' = Paused(SetSafetyHold(db, "manual", NoTime, None))
      /\ mem' = [Forgetting(mem) EXCEPT !.active = None, !.failed = NoFailure]
      /\ mem.up /\ run' = NoRun /\ UNCHANGED <<now, ticks, changes>>
  BY DEF Pause
<1>3. db' \in Db /\ SameRows(db', db) /\ Timed(db') /\ db'.hold # "pause_until"
  <2> DEFINE e == SetSafetyHold(db, "manual", NoTime, None)
  <2>1. "manual" \in Reasons /\ None \in Maybe(Windows) /\ NoTime \in Times \cup {NoTime}
    BY DEF Reasons, Maybe
  <2>2. e \in Db /\ SameRows(e, db) /\ e.hold = "manual" /\ e.until = NoTime
    BY <1>1, <2>1, HoldIsSet
  <2> HIDE DEF e
  <2>3. db' = Paused(e)
    BY <1>2 DEF e
  <2> QED
    BY <2>2, <2>3, IsPaused DEF SameRows, Timed
<1>4. mem' \in Mem /\ mem'.up /\ mem'.active \in {mem.active, None}
  <2> DEFINE n == Forgetting(mem)
  <2>1. n \in Mem /\ n.up = mem.up
    BY <1>1, Forgotten
  <2> HIDE DEF n
  <2>2. mem' = [n EXCEPT !.active = None, !.failed = NoFailure]
    BY <1>2 DEF n
  <2> QED
    BY <1>2, <2>1, <2>2, NothingFailed DEF Mem, Maybe
<1> QED
  BY <1>2, <1>3, <1>4, CommandKeeps

LEMMA EnforceCapKeeps == ASSUME IInv, EnforceCap PROVE IInv' /\ Shrinks
<1>1. db \in Db /\ mem \in Mem
  BY Unpacked DEF Sound
<1> DEFINE e == SetSafetyHold(db, "limit", NoTime, None)
<1>2. db' \in PausedForSafety(e) /\ mem' = Forgetting(mem)
      /\ mem.up /\ run' = NoRun /\ UNCHANGED <<now, ticks, changes>>
  BY DEF EnforceCap
<1>3. "limit" \in Reasons /\ None \in Maybe(Windows) /\ NoTime \in Times \cup {NoTime}
  BY DEF Reasons, Maybe
<1>4. e \in Db /\ SameRows(e, db) /\ e.hold = "limit" /\ e.until = NoTime
  BY <1>1, <1>3, HoldIsSet
<1> HIDE DEF e
<1>5. db' \in Db /\ SameRows(db', db) /\ Timed(db') /\ db'.hold # "pause_until"
  <2>1. Timed(e)
    BY <1>4 DEF Timed
  <2> QED
    BY <1>2, <1>4, <2>1, IsPausedForSafety DEF SameRows
<1>6. mem' \in Mem /\ mem'.up /\ mem'.active \in {mem.active, None}
  BY <1>1, <1>2, Forgotten
<1> QED
  BY <1>2, <1>5, <1>6, CommandKeeps

\* The hold of a timed pause, as it is written.
LEMMA PauseIsWritten ==
  ASSUME IInv, NEW until \in Times
  PROVE  LET e == SetSafetyHold(db, "pause_until", until, HoldOwner(db, mem, now))
         IN /\ e \in Db /\ SameRows(e, db) /\ Timed(e)
            /\ e.hold = "pause_until" /\ e.until = until
            /\ run.by = "schedule" /\ ~run.astray => e.owner # None
<1> DEFINE owner == HoldOwner(db, mem, now)
<1>1. Sound(db, mem) /\ db \in Db
  BY Unpacked DEF Sound
<1>2. /\ owner \in Maybe(Windows)
      /\ OpenScheduleWindows(db.rows) # {} => owner # None
  BY <1>1, Unpacked, OwnerIsFound
<1> HIDE DEF owner
<1>3. "pause_until" \in Reasons /\ until \in Times \cup {NoTime} /\ until # NoTime
  BY TimesAreNumbers DEF Reasons
<1>4. LET e == SetSafetyHold(db, "pause_until", until, owner)
      IN /\ e \in Db /\ SameRows(e, db) /\ e.hold = "pause_until"
         /\ e.until = until /\ e.owner = owner
  BY <1>1, <1>2, <1>3, HoldIsSet
<1>5. run.by = "schedule" /\ ~run.astray => owner # None
  BY <1>2 DEF IInv, Marked
<1> QED
  BY <1>3, <1>4, <1>5 DEF Timed, owner

LEMMA PauseUntilKeeps ==
  ASSUME IInv, NEW until \in Times, PauseUntil(until) PROVE IInv' /\ Shrinks
<1> DEFINE e == SetSafetyHold(db, "pause_until", until, HoldOwner(db, mem, now))
<1>1. /\ e \in Db /\ SameRows(e, db) /\ Timed(e)
      /\ e.hold = "pause_until" /\ e.until = until
      /\ run.by = "schedule" /\ ~run.astray => e.owner # None
  BY PauseIsWritten
<1>2. /\ db' \in PausedForSafety(e) /\ mem.up
      /\ mem' = [mem EXCEPT !.timer = IF db'.hold = "pause_until" THEN until ELSE NoTime]
      /\ UNCHANGED <<now, ticks, run, changes>>
  BY DEF PauseUntil
<1> HIDE DEF e
<1>3. /\ now \in Times /\ changes \in 0..MaxChanges
      /\ Sound(db, mem) /\ mem \in Mem /\ run \in Run /\ ticks \in Queue
  BY Unpacked DEF Sound
<1>4. /\ db' \in Db /\ SameRows(db', db) /\ Timed(db')
      /\ db'.hold = "pause_until" => db'.until = until /\ db'.owner = e.owner
  BY <1>1, <1>2, IsPausedForSafety DEF SameRows
<1>5. /\ mem' \in Mem /\ mem'.up /\ mem'.active = mem.active
      /\ db'.hold = "pause_until" => mem'.timer = until
  BY <1>2, <1>3 DEF Mem
<1>6. Sound(db', mem')
  BY <1>3, <1>4, <1>5, StaysSound
<1>7. Uncovered' /\ Marked'
  <2>1. db'.rows = db.rows
    BY <1>4 DEF SameRows
  <2> QED
    BY <1>2, <1>5, <2>1, HistoryIsKept
<1>8. Dormant' /\ TimerIsArmed' /\ Owned'
  BY <1>1, <1>2, <1>4, <1>5 DEF Dormant, TimerIsArmed, Owned
<1> QED
  BY <1>2, <1>3, <1>4, <1>6, <1>7, <1>8, Packed DEF Shrinks, SameRows

LEMMA PauseUntilCutOffKeeps ==
  ASSUME IInv, NEW until \in Times, PauseUntilCutOff(until) PROVE IInv' /\ Shrinks
<1> DEFINE e == SetSafetyHold(db, "pause_until", until, HoldOwner(db, mem, now))
<1>1. /\ e \in Db /\ SameRows(e, db) /\ Timed(e)
      /\ run.by = "schedule" /\ ~run.astray => e.owner # None
  BY PauseIsWritten
<1>2. db' = e /\ mem' = NoMemory /\ ticks' = NoTicks /\ UNCHANGED <<now, run, changes>>
  BY DEF PauseUntilCutOff
<1> HIDE DEF e
<1>3. /\ now \in Times /\ changes \in 0..MaxChanges
      /\ Sound(db, mem) /\ run \in Run
  BY Unpacked
<1>4. mem' \in Mem /\ ~mem'.up /\ mem'.active \in {mem.active, None} /\ ticks' \in Queue
  BY <1>2, NothingIsRemembered
<1>5. Sound(db', mem')
  BY <1>1, <1>2, <1>3, <1>4, StaysSound
<1>6. Uncovered' /\ Marked'
  <2>1. db'.rows = db.rows
    BY <1>1, <1>2 DEF SameRows
  <2> QED
    BY <1>2, <1>4, <2>1, HistoryIsKept
<1>7. Dormant' /\ TimerIsArmed' /\ Owned'
  BY <1>1, <1>2, <1>4 DEF Dormant, TimerIsArmed, Owned
<1> QED
  BY <1>1, <1>2, <1>3, <1>4, <1>5, <1>6, <1>7, Packed DEF Shrinks, SameRows

\* A step that changes the wish or the health only.
LEMMA NeedsAttentionKeeps == ASSUME IInv, NeedsAttention PROVE IInv' /\ Shrinks
<1>1. /\ now \in Times /\ changes \in 0..MaxChanges
      /\ Sound(db, mem) /\ db \in Db /\ mem \in Mem /\ run \in Run /\ ticks \in Queue
      /\ Timed(db)
  BY Unpacked DEF Sound
<1>2. db' = [db EXCEPT !.attention = TRUE] /\ UNCHANGED <<now, mem, ticks, run, changes>>
  BY DEF NeedsAttention
<1>3. /\ db' \in Db /\ SameRows(db', db) /\ Timed(db') /\ db'.hold = db.hold
      /\ db'.until = db.until /\ db'.owner = db.owner
  BY <1>1, <1>2 DEF Db, SameRows, Timed
<1>4. Sound(db', mem')
  BY <1>1, <1>2, <1>3, StaysSound
<1>5. db'.rows = db.rows
  BY <1>3 DEF SameRows
<1>6. Uncovered' /\ Marked'
  BY <1>2, <1>5, HistoryIsKept
<1>7. Dormant' /\ TimerIsArmed' /\ Owned'
  BY <1>2, <1>3 DEF IInv, Dormant, TimerIsArmed, Owned
<1> QED
  BY <1>1, <1>2, <1>4, <1>5, <1>6, <1>7, Packed DEF Shrinks, SameRows

LEMMA DisplacedKeeps == ASSUME IInv, Displaced PROVE IInv' /\ Shrinks
<1>1. /\ now \in Times /\ changes \in 0..MaxChanges
      /\ Sound(db, mem) /\ db \in Db /\ mem \in Mem /\ run \in Run /\ ticks \in Queue
      /\ Timed(db)
  BY Unpacked DEF Sound
<1>2. db' = [db EXCEPT !.desired = "paused"] /\ run' = NoRun
      /\ UNCHANGED <<now, mem, ticks, changes>>
  BY DEF Displaced
<1>3. /\ db' \in Db /\ SameRows(db', db) /\ Timed(db') /\ db'.hold = db.hold
      /\ db'.until = db.until /\ db'.owner = db.owner
  BY <1>1, <1>2 DEF Db, SameRows, Timed
<1>4. Sound(db', mem')
  BY <1>1, <1>2, <1>3, StaysSound
<1>5. db'.rows = db.rows
  BY <1>3 DEF SameRows
<1>6. Uncovered' /\ Marked' /\ run' \in Run
  BY <1>2, <1>5, HistoryIsKept
<1>7. Dormant' /\ TimerIsArmed' /\ Owned'
  BY <1>2, <1>3, Runs DEF IInv, Dormant, TimerIsArmed, Owned
<1> QED
  BY <1>1, <1>2, <1>4, <1>5, <1>6, <1>7, Packed DEF Shrinks, SameRows

(***************************************************************************)
(* The end of a timed pause, and of the process                            *)
(***************************************************************************)

LEMMA TimerFiresKeeps == ASSUME IInv, TimerFires PROVE IInv' /\ Shrinks
<1>1. /\ now \in Times /\ changes \in 0..MaxChanges
      /\ Sound(db, mem) /\ db \in Db /\ mem \in Mem /\ run \in Run /\ ticks \in Queue
      /\ Timed(db)
  BY Unpacked DEF Sound
<1>2. /\ mem' = [mem EXCEPT !.timer = NoTime, !.late = TRUE] /\ mem.timer # NoTime
      /\ UNCHANGED <<now, db, ticks, run, changes>>
  BY DEF TimerFires
<1>3. /\ mem' \in Mem /\ mem'.up = mem.up /\ mem'.active = mem.active /\ mem'.late
  BY <1>1, <1>2 DEF Mem
<1>4. mem.up
  BY <1>2, NothingIsRemembered DEF IInv, Dormant
<1>5. SameRows(db, db)
  BY DEF SameRows
<1>6. Sound(db', mem')
  BY <1>1, <1>2, <1>3, <1>5, StaysSound
<1>7. Uncovered' /\ Marked'
  BY <1>2, <1>3, HistoryIsKept
<1>8. Dormant' /\ TimerIsArmed' /\ Owned'
  BY <1>2, <1>3, <1>4 DEF IInv, Dormant, TimerIsArmed, Owned
<1> QED
  BY <1>1, <1>2, <1>6, <1>7, <1>8, Packed DEF Shrinks

\* The end of a timed pause leaves no timed pause behind but one that lasts longer.
LEMMA ExpireKeeps == ASSUME IInv, Expire PROVE IInv' /\ Shrinks
<1> DEFINE m == [mem EXCEPT !.late = FALSE]
<1>1. /\ now \in Times /\ changes \in 0..MaxChanges
      /\ Sound(db, mem) /\ db \in Db /\ mem \in Mem /\ run \in Run /\ ticks \in Queue
      /\ Timed(db)
  BY Unpacked DEF Sound
<1>2. m \in Mem /\ m.up = mem.up /\ m.active = mem.active /\ ~m.late
      /\ m.timer = mem.timer
  BY <1>1 DEF Mem
<1>3. mem.late /\ mem.up /\ UNCHANGED <<now, ticks, run, changes>>
  BY NothingIsRemembered DEF Expire, IInv, Dormant
<1>4. \/ db.hold # "pause_until" /\ db' = db /\ mem' = m
      \/ db.hold = "pause_until" /\ db' = db /\ mem' = [m EXCEPT !.timer = db.until]
      \/ db' \in Begun(db) /\ mem' = Forgetting(m)
      \/ db' = ClearSafetyHold(db) /\ mem' = m
  BY DEF Expire
<1> HIDE DEF m
<1>5. SameRows(db, db)
  BY DEF SameRows
<1>6. ASSUME db' \in Db, SameRows(db', db), Timed(db'), TimerIsArmed',
             db'.hold = "pause_until" => db' = db,
             mem' \in Mem, mem'.up, mem'.active = mem.active
      PROVE  IInv' /\ Shrinks
  <2>1. Sound(db', mem')
    BY <1>1, <1>6, StaysSound
  <2>2. db'.rows = db.rows
    BY <1>6 DEF SameRows
  <2>3. Uncovered' /\ Marked'
    BY <1>3, <1>6, <2>2, HistoryIsKept
  <2>4. Dormant' /\ Owned'
    BY <1>3, <1>6 DEF IInv, Dormant, Owned
  <2> QED
    BY <1>1, <1>3, <1>6, <2>1, <2>2, <2>3, <2>4, Packed DEF Shrinks
<1>7. CASE db.hold # "pause_until" /\ db' = db /\ mem' = m
  <2>1. TimerIsArmed'
    BY <1>7 DEF TimerIsArmed
  <2> QED
    BY <1>1, <1>2, <1>3, <1>5, <1>6, <1>7, <2>1
<1>8. CASE db.hold = "pause_until" /\ db' = db /\ mem' = [m EXCEPT !.timer = db.until]
  <2>1. /\ mem' \in Mem /\ mem'.up = mem.up /\ mem'.active = mem.active
        /\ mem'.timer = db.until
    BY <1>1, <1>2, <1>8 DEF Mem, Db
  <2>2. TimerIsArmed'
    BY <1>8, <2>1 DEF TimerIsArmed
  <2> QED
    BY <1>1, <1>2, <1>3, <1>5, <1>6, <1>8, <2>1, <2>2
<1>9. CASE db' \in Begun(db) /\ mem' = Forgetting(m)
  <2>1. db' \in Db /\ SameRows(db', db) /\ Timed(db') /\ db'.hold # "pause_until"
    BY <1>1, <1>9, HasBegun
  <2>2. mem' \in Mem /\ mem'.up = mem.up /\ mem'.active = mem.active
    BY <1>2, <1>9, Forgotten
  <2>3. TimerIsArmed'
    BY <2>1 DEF TimerIsArmed
  <2> QED
    BY <1>3, <1>6, <2>1, <2>2, <2>3
<1>10. CASE db' = ClearSafetyHold(db) /\ mem' = m
  <2>1. "none" \in Reasons /\ None \in Maybe(Windows) /\ NoTime \in Times \cup {NoTime}
    BY DEF Reasons, Maybe
  <2>2. db' \in Db /\ SameRows(db', db) /\ db'.hold = "none" /\ db'.until = NoTime
    BY <1>1, <1>10, <2>1, HoldIsSet DEF ClearSafetyHold
  <2>3. Timed(db') /\ TimerIsArmed' /\ db'.hold # "pause_until"
    BY <2>2 DEF Timed, TimerIsArmed
  <2> QED
    BY <1>2, <1>3, <1>6, <1>10, <2>2, <2>3
<1> QED
  BY <1>4, <1>7, <1>8, <1>9, <1>10

LEMMA ExitKeeps == ASSUME IInv, Exit PROVE IInv' /\ Shrinks
<1>1. /\ now \in Times /\ changes \in 0..MaxChanges
      /\ Sound(db, mem) /\ db \in Db /\ run \in Run /\ Timed(db)
  BY Unpacked DEF Sound
<1>2. mem' = NoMemory /\ ticks' = NoTicks /\ UNCHANGED <<now, db, run, changes>>
  BY DEF Exit
<1>3. mem' \in Mem /\ ~mem'.up /\ mem'.active \in {mem.active, None} /\ ticks' \in Queue
  BY <1>2, NothingIsRemembered
<1>4. SameRows(db, db)
  BY DEF SameRows
<1>5. Sound(db', mem')
  BY <1>1, <1>2, <1>3, <1>4, StaysSound
<1>6. Uncovered' /\ Marked'
  BY <1>2, <1>3, HistoryIsKept
<1>7. Dormant' /\ TimerIsArmed' /\ Owned'
  BY <1>2, <1>3 DEF IInv, Dormant, TimerIsArmed, Owned
<1> QED
  BY <1>1, <1>2, <1>3, <1>5, <1>6, <1>7, Packed DEF Shrinks

(***************************************************************************)
(* Schedules                                                               *)
(***************************************************************************)

\* One row is written: it may be new, changed with its markers kept, or gone.
LEMMA RowIsWritten ==
  ASSUME NEW rows \in Rows, NEW s \in Schedules, NEW row \in Maybe(Row)
  PROVE  LET new == [rows EXCEPT ![s] = row]
         IN /\ new \in Rows /\ new[s] = row
            /\ \A x \in Schedules : x # s => new[x] = rows[x]
            /\ Existing(new) \subseteq Existing(rows) \cup {s}
BY DEF Rows, Existing

LEMMA OpenStays ==
  ASSUME NEW rows, NEW new, NEW s \in Schedules,
         \A x \in Schedules : x # s => new[x] = rows[x],
         \A w : (s \in Existing(new) /\ new[s].started = w /\ w # None /\ new[s].stopped # w)
                <=> (s \in Existing(rows) /\ rows[s].started = w /\ w # None
                     /\ rows[s].stopped # w)
  PROVE  OpenScheduleWindows(new) = OpenScheduleWindows(rows)
<1>1. \A x \in Schedules : x # s => (x \in Existing(new) <=> x \in Existing(rows))
  BY DEF Existing
<1>2. \A x : (x \in Existing(new) => x \in Schedules)
             /\ (x \in Existing(rows) => x \in Schedules)
  BY DEF Existing
<1>3. ASSUME NEW w
      PROVE  w \in OpenScheduleWindows(new) <=> w \in OpenScheduleWindows(rows)
  BY <1>1, <1>2, OpenWindows
<1> QED
  BY <1>3

LEMMA RowIsScheduled ==
  ASSUME IInv, NEW p \in Plans, NEW enabled \in BOOLEAN,
         NEW started \in Maybe(Windows), NEW stopped \in Maybe(Windows)
  PROVE  LET r == Scheduled(p, enabled, started, stopped)
         IN r \in Row /\ r # None /\ r.started = started /\ r.stopped = stopped
<1>1. now \in Times
  BY Unpacked
<1>2. p \in [weekdays : SUBSET Weekdays, start : Minutes, end : Minutes]
  BY ConstantsAssumption
<1>3. Scheduled(p, enabled, started, stopped) \in Row
  BY <1>1, <1>2 DEF Scheduled, Row
<1> QED
  BY <1>3, NoneAssumption DEF Scheduled

LEMMA ChangeIsCounted ==
  ASSUME IInv, Change
  PROVE  mem.up /\ now' \in Times /\ changes' \in 0..MaxChanges /\ ticks' \in Queue
         /\ UNCHANGED <<now, ticks>>
<1>1. changes \in 0..MaxChanges /\ now \in Times /\ ticks \in Queue
  BY Unpacked
<1> QED
  BY <1>1, ConstantsAssumption DEF Change

\* The rows are written without opening a window.
LEMMA ScheduleKeeps ==
  ASSUME IInv, Change, UNCHANGED mem,
         db' \in Db, Existing(db'.rows) \subseteq db'.used, Timed(db'),
         db'.hold = db.hold, db'.until = db.until, db'.owner = db.owner,
         OpenScheduleWindows(db'.rows) \subseteq OpenScheduleWindows(db.rows),
         run' \in Run, run'.by = run.by, run'.covered = run.covered,
         ~run'.astray => ~run.astray
              /\ OpenScheduleWindows(db'.rows) = OpenScheduleWindows(db.rows)
  PROVE  IInv' /\ Shrinks
<1>1. /\ mem.up /\ now' \in Times /\ changes' \in 0..MaxChanges /\ ticks' \in Queue
  BY ChangeIsCounted
<1>2. mem' \in Mem /\ Alone(Believed(db'.rows, mem'))
  BY Unpacked DEF Sound, Alone, Believed
<1>3. Sound(db', mem')
  BY <1>2 DEF Sound
<1>4. Uncovered' /\ Marked'
  BY DEF IInv, Uncovered, Marked
<1>5. Dormant' /\ TimerIsArmed' /\ Owned'
  BY <1>1 DEF IInv, Dormant, TimerIsArmed, Owned
<1> QED
  BY <1>1, <1>3, <1>4, <1>5, Packed DEF Shrinks

LEMMA CreateScheduleKeeps ==
  ASSUME IInv, NEW s \in Schedules, NEW p \in Plans, NEW enabled \in BOOLEAN,
         CreateSchedule(s, p, enabled)
  PROVE  IInv' /\ Shrinks
<1> DEFINE row == Scheduled(p, enabled, None, None)
           rows == [db.rows EXCEPT ![s] = row]
<1>1. /\ db \in Db /\ Existing(db.rows) \subseteq db.used /\ Timed(db) /\ run \in Run
  BY Unpacked DEF Sound
<1>2. Change /\ s \notin db.used /\ UNCHANGED <<mem, run>>
      /\ db' = [db EXCEPT !.used = db.used \cup {s}, !.rows = rows]
  BY DEF CreateSchedule
<1>3. row \in Row /\ row # None /\ row.started = None
  <2>1. None \in Maybe(Windows)
    BY DEF Maybe
  <2> QED
    BY <2>1, RowIsScheduled
<1>4. db.rows \in Rows /\ row \in Maybe(Row)
  BY <1>1, <1>3, RowsAreTyped DEF Maybe
<1> HIDE DEF row
<1>5. /\ rows \in Rows /\ rows[s] = row
      /\ \A x \in Schedules : x # s => rows[x] = db.rows[x]
      /\ Existing(rows) \subseteq Existing(db.rows) \cup {s}
  BY <1>4, RowIsWritten
<1> HIDE DEF rows
<1>6. OpenScheduleWindows(rows) = OpenScheduleWindows(db.rows)
  <2>1. s \notin Existing(db.rows)
    BY <1>1, <1>2
  <2> QED
    BY <1>3, <1>5, <2>1, OpenStays
<1>7. /\ db' \in Db /\ db'.rows = rows /\ db'.used = db.used \cup {s}
      /\ db'.hold = db.hold /\ db'.until = db.until /\ db'.owner = db.owner
  BY <1>1, <1>2, <1>5 DEF Db, Rows
<1>8. Existing(db'.rows) \subseteq db'.used /\ Timed(db')
  BY <1>1, <1>5, <1>7 DEF Timed
<1> QED
  BY <1>1, <1>2, <1>6, <1>7, <1>8, ScheduleKeeps

LEMMA UpdateScheduleKeeps ==
  ASSUME IInv, NEW s \in Schedules, NEW p \in Plans, NEW enabled \in BOOLEAN,
         UpdateSchedule(s, p, enabled)
  PROVE  IInv' /\ Shrinks
<1> DEFINE old == db.rows[s]
           row == Scheduled(p, enabled, old.started, old.stopped)
           rows == [db.rows EXCEPT ![s] = row]
<1>1. /\ db \in Db /\ Existing(db.rows) \subseteq db.used /\ Timed(db) /\ run \in Run
  BY Unpacked DEF Sound
<1>2. Change /\ s \in Existing(db.rows) /\ UNCHANGED <<mem, run>>
      /\ db' = [db EXCEPT !.rows = rows]
  BY DEF UpdateSchedule
<1>3. old \in Row /\ old.started \in Maybe(Windows) /\ old.stopped \in Maybe(Windows)
  <2>1. old \in Row
    BY <1>1, <1>2, RowsOfDb
  <2> QED
    BY <2>1 DEF Row
<1>4. /\ row \in Row /\ row # None
      /\ row.started = old.started /\ row.stopped = old.stopped
  BY <1>3, RowIsScheduled
<1>5. db.rows \in Rows /\ row \in Maybe(Row)
  BY <1>1, <1>4, RowsAreTyped DEF Maybe
<1> HIDE DEF row
<1>6. /\ rows \in Rows /\ rows[s] = row
      /\ \A x \in Schedules : x # s => rows[x] = db.rows[x]
      /\ Existing(rows) \subseteq Existing(db.rows) \cup {s}
  BY <1>5, RowIsWritten
<1> HIDE DEF rows
<1>7. OpenScheduleWindows(rows) = OpenScheduleWindows(db.rows)
  <2>1. s \in Existing(rows)
    BY <1>4, <1>6 DEF Existing
  <2> QED
    BY <1>2, <1>4, <1>6, <2>1, OpenStays
<1>8. /\ db' \in Db /\ db'.rows = rows /\ db'.used = db.used
      /\ db'.hold = db.hold /\ db'.until = db.until /\ db'.owner = db.owner
  BY <1>1, <1>2, <1>6 DEF Db, Rows
<1>9. Existing(db'.rows) \subseteq db'.used /\ Timed(db')
  BY <1>1, <1>2, <1>6, <1>8 DEF Timed
<1> QED
  BY <1>1, <1>2, <1>7, <1>8, <1>9, ScheduleKeeps

LEMMA DeleteScheduleKeeps ==
  ASSUME IInv, NEW s \in Schedules, DeleteSchedule(s) PROVE IInv' /\ Shrinks
<1> DEFINE rows == [db.rows EXCEPT ![s] = None]
           skips == {w \in db.skips : w.schedule # s}
           astray == run.astray \/ db.rows[s].started \in OpenScheduleWindows(db.rows)
<1>1. /\ db \in Db /\ Existing(db.rows) \subseteq db.used /\ Timed(db) /\ run \in Run
  BY Unpacked DEF Sound
<1>2. Change /\ s \in Existing(db.rows) /\ UNCHANGED mem
      /\ db' = [db EXCEPT !.rows = rows, !.skips = skips]
      /\ run' = [run EXCEPT !.astray = astray]
  BY DEF DeleteSchedule
<1>3. db.rows \in Rows /\ None \in Maybe(Row) /\ skips \in SUBSET Windows
  BY <1>1, RowsAreTyped DEF Maybe
<1>4. /\ rows \in Rows /\ rows[s] = None
      /\ \A x \in Schedules : x # s => rows[x] = db.rows[x]
      /\ Existing(rows) \subseteq Existing(db.rows) \cup {s}
  BY <1>3, RowIsWritten
<1> HIDE DEF rows, skips
<1>5. s \notin Existing(rows)
  BY <1>4 DEF Existing
<1>6. \A x \in Existing(rows) : x # s /\ x \in Existing(db.rows) /\ rows[x] = db.rows[x]
  BY <1>4, <1>5 DEF Existing
<1>7. OpenScheduleWindows(rows) \subseteq OpenScheduleWindows(db.rows)
  BY <1>6, OpenWindows
<1>8. ASSUME ~astray PROVE OpenScheduleWindows(rows) = OpenScheduleWindows(db.rows)
  <2>1. ~(db.rows[s].started # None /\ db.rows[s].stopped # db.rows[s].started)
    BY <1>2, <1>8, OpenWindows
  <2> QED
    BY <1>4, <1>5, <2>1, OpenStays
<1>9. /\ db' \in Db /\ db'.rows = rows /\ db'.used = db.used
      /\ db'.hold = db.hold /\ db'.until = db.until /\ db'.owner = db.owner
  BY <1>1, <1>2, <1>3, <1>4 DEF Db, Rows
<1>10. Existing(db'.rows) \subseteq db'.used /\ Timed(db')
  BY <1>1, <1>2, <1>4, <1>9 DEF Timed
<1>11. astray \in BOOLEAN
  BY <1>1 DEF Run
<1>12. /\ run' \in Run /\ run'.by = run.by /\ run'.covered = run.covered
       /\ run'.astray = astray
  <2> HIDE DEF astray
  <2> QED
    BY <1>1, <1>2, <1>11 DEF Run
<1>13. ~run'.astray => ~run.astray
           /\ OpenScheduleWindows(db'.rows) = OpenScheduleWindows(db.rows)
  BY <1>8, <1>9, <1>12
<1> QED
  BY <1>2, <1>7, <1>9, <1>10, <1>12, <1>13, ScheduleKeeps

LEMMA SkipNextKeeps == ASSUME IInv, NEW s \in Schedules, SkipNext(s) PROVE IInv' /\ Shrinks
<1>1. /\ db \in Db /\ Existing(db.rows) \subseteq db.used /\ Timed(db)
      /\ mem \in Mem /\ run \in Run /\ Alone(Believed(db.rows, mem))
  BY Unpacked DEF Sound
<1>2. /\ mem.up /\ now \in Times /\ now' \in Times /\ changes' \in 0..MaxChanges
      /\ ticks' \in Queue /\ UNCHANGED <<now, ticks>>
  BY ChangeIsCounted, Unpacked DEF SkipNext
<1>3. /\ s \in Existing(db.rows) /\ UNCHANGED run
      /\ mem' = [mem EXCEPT !.active = None, !.failed = NoFailure]
  BY DEF SkipNext
<1>4. PICK w \in Preview(db, s) : db' = [db EXCEPT !.skips = db.skips \cup {w}]
  BY DEF SkipNext
<1>5. w \in Windows
  <2>1. PICK day \in DayOf(now)..DayOf(MaxNow) : w = Window(s, db.rows[s], day)
    BY DEF Preview
  <2>2. db.rows[s] \in Row
    BY <1>1, <1>3, RowsOfDb
  <2>3. DayOf(now) \in 0..MaxNow /\ DayOf(MaxNow) \in 0..MaxNow
    <3>1. MaxNow \in Times
      BY ConstantsAssumption DEF Times
    <3> QED
      BY <1>2, <3>1, DaysOfTimes
  <2>4. day \in -1..(MaxNow + 1)
    BY <2>3, ConstantsAssumption
  <2> QED
    BY <2>1, <2>2, <2>4 DEF Window, Windows, Row
<1>6. /\ db' \in Db /\ db'.rows = db.rows /\ db'.used = db.used
      /\ db'.hold = db.hold /\ db'.until = db.until /\ db'.owner = db.owner
  BY <1>1, <1>4, <1>5 DEF Db
<1>7. /\ mem' \in Mem /\ mem'.up /\ mem'.active = None
      /\ mem'.timer = mem.timer /\ mem'.late = mem.late
  BY <1>1, <1>2, <1>3, NothingFailed DEF Mem, Maybe
<1>8. Sound(db', mem')
  BY <1>1, <1>6, <1>7, BelievesLess DEF Sound, Timed
<1>9. Uncovered' /\ Marked'
  BY <1>3, <1>6, <1>7, HistoryIsKept
<1>10. Dormant' /\ TimerIsArmed' /\ Owned'
  BY <1>3, <1>6, <1>7 DEF IInv, Dormant, TimerIsArmed, Owned
<1>11. run' \in Run
  BY <1>1, <1>3
<1> QED
  BY <1>2, <1>6, <1>8, <1>9, <1>10, <1>11, Packed DEF Shrinks

(***************************************************************************)
(* The invariant                                                           *)
(***************************************************************************)

LEMMA Initially == ASSUME Init PROVE IInv
<1>1. PICK S \in SUBSET Schedules, p \in [Schedules -> Plans] :
        db = [rows |-> [s \in Schedules |-> IF s \notin S THEN None ELSE
                 [weekdays |-> p[s].weekdays, start |-> p[s].start, end |-> p[s].end,
                  enabled |-> TRUE, updated |-> MinNow, started |-> None, stopped |-> None]],
              used |-> S, skips |-> {}, desired |-> "stopped",
              hold |-> "none", until |-> NoTime, owner |-> None, attention |-> FALSE]
  BY DEF Init
<1> DEFINE row(s) == [weekdays |-> p[s].weekdays, start |-> p[s].start, end |-> p[s].end,
                      enabled |-> TRUE, updated |-> MinNow, started |-> None,
                      stopped |-> None]
           rows == [s \in Schedules |-> IF s \notin S THEN None ELSE row(s)]
<1>2. MinNow \in Times /\ 0 \in 0..MaxChanges
  BY ConstantsAssumption DEF Times
<1>3. ASSUME NEW s \in Schedules
      PROVE  row(s) \in Row /\ row(s) # None /\ row(s).started = None
  <2>1. p[s] \in [weekdays : SUBSET Weekdays, start : Minutes, end : Minutes]
    BY ConstantsAssumption
  <2>2. row(s) \in Row
    BY <1>2, <2>1 DEF Row, Maybe
  <2> QED
    BY <2>2, NoneAssumption
<1> HIDE DEF row
<1>4. rows \in Rows
  BY <1>3 DEF Rows, Maybe
<1>5. Existing(rows) \subseteq S
  BY DEF Existing
<1>6. \A s \in Existing(rows) : rows[s].started = None
  BY <1>3 DEF Existing
<1>7. OpenScheduleWindows(rows) = {}
  BY <1>6 DEF OpenScheduleWindows
<1>8. db.rows = rows /\ db.used = S /\ db.skips = {} /\ db.desired = "stopped"
      /\ db.hold = "none" /\ db.until = NoTime /\ db.owner = None /\ ~db.attention
  BY <1>1 DEF row
<1>9. db \in Db
  <2>1. db = [rows |-> rows, used |-> S, skips |-> {}, desired |-> "stopped",
              hold |-> "none", until |-> NoTime, owner |-> None, attention |-> FALSE]
    BY <1>1 DEF row
  <2> HIDE DEF rows
  <2> QED
    BY <1>4, <2>1 DEF Db, Rows, Maybe, Reasons
<1>10. /\ mem = NoMemory /\ ticks = NoTicks /\ run = NoRun /\ changes = 0 /\ now = MinNow
  BY DEF Init
<1> HIDE DEF rows
<1>11. Believed(db.rows, mem) = {}
  BY <1>7, <1>8, <1>10, NothingIsRemembered DEF Believed
<1>12. TypeOK
  BY <1>2, <1>5, <1>8, <1>9, <1>10, NothingIsRemembered, Runs DEF TypeOK, Queue
<1>13. Alone(Believed(db.rows, mem))
  BY <1>11 DEF Alone
<1>14. Dormant /\ TimerIsArmed /\ Uncovered /\ Marked /\ Owned
  BY <1>10, NothingIsRemembered, Runs
     DEF Dormant, TimerIsArmed, Uncovered, Marked, Owned
<1> QED
  BY <1>12, <1>13, <1>14 DEF IInv

LEMMA Preserved == ASSUME IInv, [Next]_vars PROVE IInv'
<1>1. CASE UNCHANGED vars
  <2>1. UNCHANGED <<now, db, mem, ticks, run, changes>>
    BY <1>1 DEF vars
  <2>2. TypeOK'
    BY <2>1 DEF IInv, TypeOK, Existing
  <2>3. Believed(db'.rows, mem') = Believed(db.rows, mem)
    BY <2>1
  <2>4. (Alone(Believed(db.rows, mem)) /\ Dormant)'
    BY <2>1, <2>3 DEF IInv, Dormant
  <2>5. (TimerIsArmed /\ Owned)'
    BY <2>1 DEF IInv, TimerIsArmed, Owned
  <2>6. (Uncovered /\ Marked)'
    BY <2>1 DEF IInv, Uncovered, Marked
  <2> QED
    BY <2>2, <2>4, <2>5, <2>6 DEF IInv
<1>2. CASE Advance
  BY <1>2, AdvanceKeeps
<1>3. CASE RequestTick
  BY <1>3, RequestTickKeeps
<1>4. CASE TimerFires
  BY <1>4, TimerFiresKeeps
<1>5. CASE Expire
  BY <1>5, ExpireKeeps
<1>6. CASE Exit
  BY <1>6, ExitKeeps
<1>7. CASE \E did \in Dids : RunTick(did)
  BY <1>7, RunTickKeeps
<1>8. CASE \E did \in Dids : Boot(did)
  BY <1>8, BootKeeps
<1>9. CASE EnforceCap
  BY <1>9, EnforceCapKeeps
<1>10. CASE NeedsAttention
  BY <1>10, NeedsAttentionKeeps
<1>11. CASE Displaced
  BY <1>11, DisplacedKeeps
<1>12. CASE Commands
  <2>1. CASE Start
    BY <2>1, StartKeeps
  <2>2. CASE Resume
    BY <2>2, ResumeKeeps
  <2>3. CASE Stop
    BY <2>3, StopKeeps
  <2>4. CASE Pause
    BY <2>4, PauseKeeps
  <2>5. CASE \E until \in Times : PauseUntil(until)
    BY <2>5, PauseUntilKeeps
  <2>6. CASE \E until \in Times : PauseUntilCutOff(until)
    BY <2>6, PauseUntilCutOffKeeps
  <2>7. CASE \E s \in Schedules, p \in Plans, e \in BOOLEAN : CreateSchedule(s, p, e)
    BY <2>7, CreateScheduleKeeps
  <2>8. CASE \E s \in Schedules, p \in Plans, e \in BOOLEAN : UpdateSchedule(s, p, e)
    BY <2>8, UpdateScheduleKeeps
  <2>9. CASE \E s \in Schedules : DeleteSchedule(s)
    BY <2>9, DeleteScheduleKeeps
  <2>10. CASE \E s \in Schedules : SkipNext(s)
    BY <2>10, SkipNextKeeps
  <2> QED
    BY <1>12, <2>1, <2>2, <2>3, <2>4, <2>5, <2>6, <2>7, <2>8, <2>9, <2>10 DEF Commands
<1> QED
  BY <1>1, <1>2, <1>3, <1>4, <1>5, <1>6, <1>7, <1>8, <1>9, <1>10, <1>11, <1>12
     DEF Next

LEMMA Invariance == Spec => []IInv
<1>1. Init => IInv
  BY Initially
<1>2. IInv /\ [Next]_vars => IInv'
  BY Preserved
<1> QED
  BY <1>1, <1>2, PTL DEF Spec

\* The rows, what the process remembers and the histories keep their types, and a
\* hold has an end exactly when it is a timed pause (setSafetyHold).
THEOREM TypeCorrect == Spec => []TypeOK
<1>1. IInv => TypeOK
  BY DEF IInv
<1> QED
  BY <1>1, Invariance, PTL

\* At most one window is believed to be under way (commitStartedWindow, activeWindows),
\* whatever fails between the start of an account and the mark in its row.
THEOREM WindowsAgreeHolds == Spec => []WindowsAgree
<1>1. IInv => WindowsAgree
  <2>1. IInv => Alone(Believed(db.rows, mem))
    BY DEF IInv
  <2> QED
    BY <2>1, AloneCounts DEF WindowsAgree, Believed
<1> QED
  BY <1>1, Invariance, PTL

(***************************************************************************)
(* Ticks respect users                                                     *)
(***************************************************************************)

\* A step of the schedules is a result of transitionAccount.
LEMMA TicksTransit ==
  ASSUME IInv, Next, Ticking, db' # db
  PROVE  \E r \in TransitionAccount(db, mem, TickTime) :
            TickTime \in Times /\ db' = r.db
<1>1. /\ now \in Times /\ Sound(db, mem) /\ ticks \in Queue
  BY Unpacked
<1>2. ASSUME NEW did \in Dids, RunTick(did)
      PROVE  \E r \in TransitionAccount(db, mem, TickTime) :
                TickTime \in Times /\ db' = r.db
  BY <1>1, <1>2 DEF RunTick, TickTime, Queue
<1>3. ASSUME NEW did \in Dids, Boot(did)
      PROVE  \E r \in TransitionAccount(db, mem, TickTime) :
                TickTime \in Times /\ db' = r.db
  BY <1>1, <1>3 DEF Boot, TickTime
<1>4. ~mem.up => mem.timer = NoTime /\ ~mem.late
  BY NothingIsRemembered DEF IInv, Dormant
<1>5. ~(Advance \/ RequestTick \/ TimerFires \/ Expire \/ Exit)
  BY <1>4 DEF Ticking, Advance, RequestTick, TimerFires, Expire, Exit
<1>6. ~(EnforceCap \/ NeedsAttention \/ Displaced)
  BY DEF Ticking, EnforceCap, NeedsAttention, Displaced
<1>7. ~Commands
  <2>1. ~(Start \/ Resume \/ Stop \/ Pause)
    BY DEF Ticking, Start, Resume, Stop, Pause
  <2>2. ASSUME NEW until \in Times PROVE ~PauseUntil(until) /\ ~PauseUntilCutOff(until)
    BY NothingIsRemembered DEF Ticking, PauseUntil, PauseUntilCutOff
  <2>3. ASSUME NEW s \in Schedules, NEW p \in Plans, NEW e \in BOOLEAN
        PROVE  ~CreateSchedule(s, p, e) /\ ~UpdateSchedule(s, p, e)
    BY DEF Ticking, CreateSchedule, UpdateSchedule, Change
  <2>4. ASSUME NEW s \in Schedules PROVE ~DeleteSchedule(s) /\ ~SkipNext(s)
    BY DEF Ticking, DeleteSchedule, SkipNext, Change
  <2> QED
    BY <2>1, <2>2, <2>3, <2>4 DEF Commands
<1> QED
  BY <1>2, <1>3, <1>5, <1>6, <1>7 DEF Next

LEMMA OtherStepsShrink ==
  ASSUME IInv, Next, \A did \in Dids : ~RunTick(did) /\ ~Boot(did)
  PROVE  Shrinks
<1>1. CASE Advance \/ RequestTick \/ TimerFires \/ Expire \/ Exit
  BY <1>1, AdvanceKeeps, RequestTickKeeps, TimerFiresKeeps, ExpireKeeps, ExitKeeps
<1>2. CASE EnforceCap \/ NeedsAttention \/ Displaced
  BY <1>2, EnforceCapKeeps, NeedsAttentionKeeps, DisplacedKeeps
<1>3. CASE Commands
  <2>1. CASE Start \/ Resume \/ Stop \/ Pause
    BY <2>1, StartKeeps, ResumeKeeps, StopKeeps, PauseKeeps
  <2>2. CASE \E until \in Times : PauseUntil(until)
    BY <2>2, PauseUntilKeeps
  <2>3. CASE \E until \in Times : PauseUntilCutOff(until)
    BY <2>3, PauseUntilCutOffKeeps
  <2>4. CASE \E s \in Schedules, p \in Plans, e \in BOOLEAN : CreateSchedule(s, p, e)
    BY <2>4, CreateScheduleKeeps
  <2>5. CASE \E s \in Schedules, p \in Plans, e \in BOOLEAN : UpdateSchedule(s, p, e)
    BY <2>5, UpdateScheduleKeeps
  <2>6. CASE \E s \in Schedules : DeleteSchedule(s)
    BY <2>6, DeleteScheduleKeeps
  <2>7. CASE \E s \in Schedules : SkipNext(s)
    BY <2>7, SkipNextKeeps
  <2> QED
    BY <1>3, <2>1, <2>2, <2>3, <2>4, <2>5, <2>6, <2>7 DEF Commands
<1> QED
  BY <1>1, <1>2, <1>3 DEF Next

\* A tick, or the one that begins a process, is faithful to what it finds.
LEMMA TicksAreFaithful ==
  ASSUME IInv, NEW did \in Dids, RunTick(did) \/ Boot(did)
  PROVE  \E t \in Times : \E r : Faithful(db, mem, t, r) /\ db' = r.db
<1>1. /\ now \in Times /\ Sound(db, mem) /\ ticks \in Queue
  BY Unpacked
<1>2. CASE RunTick(did)
  <2>1. ticks.at \in Times
    BY <1>1, <1>2 DEF RunTick, Queue
  <2>2. PICK r \in TransitionAccount(db, mem, ticks.at) : db' = r.db
    BY <1>2 DEF RunTick
  <2>3. Faithful(db, mem, ticks.at, r)
    BY <1>1, <2>1, TransitionIsFaithful
  <2> QED
    BY <2>1, <2>2, <2>3
<1>3. CASE Boot(did)
  <2>1. PICK r \in TransitionAccount(db, mem, now) : db' = r.db
    BY <1>3 DEF Boot
  <2>2. Faithful(db, mem, now, r)
    BY <1>1, TransitionIsFaithful
  <2> QED
    BY <1>1, <2>1, <2>2
<1> QED
  BY <1>2, <1>3

LEMMA StepsRespectUsers ==
  ASSUME IInv, Next
  PROVE  /\ StartsByTick =>
               SelectScheduleWinner(db, TickTime) \notin OpenScheduleWindows(db.rows)
         /\ PausesByTick => ~(run.by = "user" /\ ~run.covered)
         /\ \A w \in db.skips :
               w \in OpenScheduleWindows(db'.rows) => w \in OpenScheduleWindows(db.rows)
<1>1. Sound(db, mem)
  BY Unpacked
<1>2. ASSUME Ticking, db' # db
      PROVE  \E r : Faithful(db, mem, TickTime, r) /\ db' = r.db
  BY <1>1, <1>2, TicksTransit, TransitionIsFaithful
<1>3. ASSUME StartsByTick
      PROVE  SelectScheduleWinner(db, TickTime) \notin OpenScheduleWindows(db.rows)
  <2>1. Ticking /\ db' # db /\ db.desired # "running" /\ db'.desired = "running"
    BY <1>3 DEF StartsByTick
  <2> QED
    BY <1>2, <2>1 DEF Faithful
<1>4. ASSUME PausesByTick PROVE ~(run.by = "user" /\ ~run.covered)
  <2>1. Ticking /\ db' # db /\ db.desired = "running" /\ db'.desired = "paused"
    BY <1>4 DEF PausesByTick
  <2>2. Believed(db.rows, mem) # {}
    BY <1>2, <2>1 DEF Faithful
  <2> QED
    BY <2>2 DEF IInv, Uncovered, Believed
<1>5. ASSUME NEW w \in db.skips, w \in OpenScheduleWindows(db'.rows)
      PROVE  w \in OpenScheduleWindows(db.rows)
  <2>1. CASE \A did \in Dids : ~RunTick(did) /\ ~Boot(did)
    BY <1>5, <2>1, OtherStepsShrink DEF Shrinks
  <2>2. CASE \E did \in Dids : RunTick(did) \/ Boot(did)
    <3>0. PICK t \in Times : \E r : Faithful(db, mem, t, r) /\ db' = r.db
      BY <2>2, TicksAreFaithful
    <3>1. PICK r : Faithful(db, mem, t, r) /\ db' = r.db
      BY <3>0
    <3> QED
      BY <1>5, <3>1 DEF Faithful
  <2> QED
    BY <2>1, <2>2
<1> QED
  BY <1>3, <1>4, <1>5

\* Ticks start an account only for a window that is not open yet, pause no account
\* that its user made run outside all windows, and open no window that was skipped
\* (transitionAccount, stopAccountWindow, skip-next): in every step of every behaviour.
THEOREM TicksRespectUsersHolds == Spec => TicksRespectUsers
<1> DEFINE A == /\ StartsByTick =>
                     SelectScheduleWinner(db, TickTime) \notin OpenScheduleWindows(db.rows)
                /\ PausesByTick => ~(run.by = "user" /\ ~run.covered)
                /\ \A w \in db.skips :
                     w \in OpenScheduleWindows(db'.rows) => w \in OpenScheduleWindows(db.rows)
<1>1. IInv /\ [Next]_vars => [A]_vars
  <2> SUFFICES ASSUME IInv, Next PROVE A
    OBVIOUS
  <2> QED
    BY StepsRespectUsers
<1> HIDE DEF A
<1>2. Spec => [][A]_vars
  BY <1>1, Invariance, PTL DEF Spec
<1> QED
  BY <1>2 DEF TicksRespectUsers, A

(***************************************************************************)
(* Timed pauses end                                                        *)
(***************************************************************************)

\* The rest of an action that ends a timed pause and makes the account run.
EndsForItsOwner ==
    /\ db.hold = "pause_until" /\ db'.hold = "none"
    /\ db.desired = "paused" /\ db'.desired = "running"
    /\ run.by = "schedule" /\ run'.by = "schedule" /\ ~run.astray
    => SelectScheduleWinner(db, now) # None

LEMMA StepsEndForTheirOwner == ASSUME IInv, Next PROVE EndsForItsOwner
<1> SUFFICES ASSUME db.hold = "pause_until", db'.hold = "none",
                    db.desired = "paused", db'.desired = "running",
                    run.by = "schedule", run'.by = "schedule", ~run.astray
             PROVE  SelectScheduleWinner(db, now) # None
  BY DEF EndsForItsOwner
<1>1. db \in Db /\ db.owner # None
  BY Unpacked DEF Sound, IInv, Owned
<1>2. CASE Expire
  <2>1. db'.desired # "running" \/ CanResumeHeldAccount(db, now)
    <3>1. ClearSafetyHold(db).desired = db.desired
      BY <1>1 DEF ClearSafetyHold, SetSafetyHold, Db
    <3> QED
      BY <1>2, <3>1 DEF Expire
  <2> QED
    BY <1>1, <2>1 DEF CanResumeHeldAccount
<1>3. ~(Advance \/ RequestTick \/ TimerFires \/ Exit)
  BY DEF Advance, RequestTick, TimerFires, Exit
<1>4. ASSUME NEW did \in Dids PROVE ~RunTick(did) /\ ~Boot(did)
  <2>1. Held(db)
    BY DEF Held
  <2>2. \A t, r : r \in TransitionAccount(db, mem, t) => r.db = db
    BY <2>1 DEF TransitionAccount, Result
  <2>3. RunTick(did) => \E r \in TransitionAccount(db, mem, ticks.at) : db' = r.db
    BY DEF RunTick
  <2>4. Boot(did) => \E r \in TransitionAccount(db, mem, now) : db' = r.db
    BY DEF Boot
  <2> QED
    BY <2>2, <2>3, <2>4
<1>5. ~(EnforceCap \/ NeedsAttention \/ Displaced)
  BY DEF EnforceCap, NeedsAttention, Displaced
<1>6. ~Commands
  <2>1. ~Start /\ ~Resume
    BY Runs DEF Start, Resume
  <2>2. ~Stop /\ ~Pause
    BY Runs DEF Stop, Pause
  <2>3. ASSUME NEW until \in Times PROVE ~PauseUntil(until) /\ ~PauseUntilCutOff(until)
    BY DEF PauseUntil, PauseUntilCutOff
  <2>4. ASSUME NEW s \in Schedules, NEW p \in Plans, NEW e \in BOOLEAN
        PROVE  ~CreateSchedule(s, p, e) /\ ~UpdateSchedule(s, p, e)
    BY <1>1 DEF CreateSchedule, UpdateSchedule, Db
  <2>5. ASSUME NEW s \in Schedules PROVE ~DeleteSchedule(s) /\ ~SkipNext(s)
    BY <1>1 DEF DeleteSchedule, SkipNext, Db
  <2> QED
    BY <2>1, <2>2, <2>3, <2>4, <2>5 DEF Commands
<1> QED
  BY <1>2, <1>3, <1>4, <1>5, <1>6 DEF Next

\* A timed pause has its timer as long as the process runs, and when it ends, an
\* account that a schedule made run comes back only while a window is under way
\* (getHoldOwner, canResumeHeldAccount).
THEOREM TimedPauseEndsHolds == Spec => TimedPauseEnds
<1>1. Spec => []TimerIsArmed
  <2>1. IInv => TimerIsArmed
    BY DEF IInv
  <2> QED
    BY <2>1, Invariance, PTL
<1> DEFINE B == /\ db.hold = "pause_until" /\ db'.hold = "none"
                /\ db.desired = "paused" /\ db'.desired = "running"
                /\ run.by = "schedule" /\ run'.by = "schedule" /\ ~run.astray
                => SelectScheduleWinner(db, now) # None
<1>2. IInv /\ [Next]_vars => [B]_vars
  <2> SUFFICES ASSUME IInv, Next PROVE B
    OBVIOUS
  <2> QED
    BY StepsEndForTheirOwner DEF EndsForItsOwner
<1> HIDE DEF B
<1>3. Spec => [][B]_vars
  BY <1>2, Invariance, PTL DEF Spec
<1> QED
  BY <1>1, <1>3 DEF TimedPauseEnds, B

(***************************************************************************)
(* The sessions: BoostSessions, and its inductive invariant                *)
(***************************************************************************)

CONSTANTS Targets, CapSets, Day, Week, Last, MaxQueue

VARIABLES clock, phase, row, caps, plays, queue, rows, opening, since, stamp, known

Sessions == INSTANCE BoostSessions WITH
    now <- clock, DayLength <- Day, WeekLength <- Week, MaxNow <- Last

SessionRows ==
    [start : Nat, end : Nat \cup {None},
     reason : {None, "status", "selection_changed", "interrupted"},
     target : Targets \cup {None}, seen : Nat \cup {None}]

Openings   == [start : Nat, target : Targets \cup {None}]
Operations == [op : {"status", "pause", "resume", "cap"}, target : Targets \cup {None}, at : Nat]

AccountRows ==
    [boosting : BOOLEAN, desired : {"running", "paused"},
     hold : {"session_limit", "daily_limit", "weekly_limit", "manual", None}]

SessionsTyped ==
    /\ clock \in 0..Last /\ phase \in {"up", "stopping", "down"} /\ caps \in CapSets
    /\ row \in AccountRows /\ plays \in Targets \cup {None}
    /\ queue \in Seq(Operations)
    /\ rows \in Seq(SessionRows) /\ opening \in Openings \cup {None}
    /\ since \in Nat \cup {None} /\ stamp \in Nat
    /\ known \in [played : SUBSET Nat, lost : SUBSET Nat]

\* The rows, with the one of the session that is being opened
With(rs, o) == IF o = None THEN rs ELSE Append(rs, Sessions!Session(o.start, o.target))
Written     == With(rows, opening)

\* A session ends before the next one begins, and only the last is open.  One that was
\* replaced ended before now: nothing that begins later is taken for its continuation.
InOrder(rs, t) ==
    /\ \A i \in 1..Len(rs) :
          /\ rs[i].end # None => /\ rs[i].start <= rs[i].end /\ rs[i].end <= t
                                 /\ rs[i].reason = "selection_changed" => rs[i].end < t
          /\ rs[i].end = None => /\ i = Len(rs) /\ rs[i].start < t
                                 /\ rs[i].seen \in rs[i].start..t
    /\ \A i, j \in 1..Len(rs) : i < j => rs[i].end <= rs[j].start

\* What a crash left open lasts as long as it was seen.
Until(s, p, t) == IF s.end # None THEN s.end ELSE IF p = "down" THEN s.seen ELSE t

\* The rows say when the account played.
Counts(rs, k, p, t) ==
    /\ k.lost \subseteq k.played /\ \A x \in k.played : x < t
    /\ \A x \in Nat :
          x \in k.played \ k.lost <=>
              \E i \in 1..Len(rs) : rs[i].start <= x /\ x < Until(rs[i], p, t)

OpenLast(rs) == rs # <<>> /\ rs[Len(rs)].end = None

\* The sessions from one of them on are each replaced by the next, and none is before.
Goes(rs, s) ==
    \E c \in 1..Len(rs) :
        /\ rs[c].start = s
        /\ \A i \in c..(Len(rs) - 1) : Sessions!Continues(rs[i], rs[i + 1].start)
        /\ \A i \in 1..(c - 1) : ~Sessions!Continues(rs[i], s)

Plays(rs, s, m) ==
    /\ s # None <=> OpenLast(rs)
    /\ s # None => rs[Len(rs)].seen = m /\ Goes(rs, s)

SessionsInv ==
    /\ SessionsTyped
    /\ InOrder(Written, clock)
    /\ Counts(Written, known, phase, clock)
    /\ phase = "down" => since = None /\ opening = None
    /\ phase # "down" => Plays(Written, since, stamp)

\* The sessions of rs that are open have an end in qs.
Ends(rs, qs, t, u) ==
    /\ Len(qs) = Len(rs)
    /\ \A i \in 1..Len(rs) :
          /\ rs[i].end # None => qs[i] = rs[i]
          /\ rs[i].end = None => /\ qs[i].start = rs[i].start
                                 /\ qs[i].end \in rs[i].start..t
                                 /\ qs[i].reason = "selection_changed" => qs[i].end < u

LEMMA SessionIs ==
    ASSUME NEW start \in Nat, NEW target \in Targets \cup {None}
    PROVE  LET s == Sessions!Session(start, target)
           IN  s \in SessionRows /\ s.start = start /\ s.end = None /\ s.seen = start
  BY DEF Sessions!Session, SessionRows

LEMMA EndedIs ==
    ASSUME NEW s \in SessionRows, NEW end \in Nat,
           NEW reason \in {"status", "selection_changed", "interrupted"}
    PROVE  LET e == Sessions!Ended(s, end, reason)
           IN  e \in SessionRows /\ e.start = s.start /\ e.end = end /\ e.reason = reason
  BY DEF Sessions!Ended, SessionRows

LEMMA RowTypes ==
    ASSUME NEW rs \in Seq(SessionRows), NEW i \in 1..Len(rs)
    PROVE  /\ rs[i] \in SessionRows /\ rs[i].start \in Nat /\ rs[i].end \in Nat \cup {None}
           /\ rs[i].seen \in Nat \cup {None}
<1>1. rs[i] \in SessionRows
  OBVIOUS
<1> QED
  BY <1>1 DEF SessionRows

LEMMA AppendIs ==
    ASSUME NEW rs \in Seq(SessionRows), NEW s \in SessionRows
    PROVE  /\ Append(rs, s) \in Seq(SessionRows) /\ Len(Append(rs, s)) = Len(rs) + 1
           /\ \A i \in 1..Len(rs) : Append(rs, s)[i] = rs[i]
           /\ Append(rs, s)[Len(rs) + 1] = s
  OBVIOUS

\* Time does not disturb the order.
LEMMA OrderLater ==
    ASSUME NEW rs \in Seq(SessionRows), NEW t \in Nat, NEW u \in Nat, t <= u, InOrder(rs, t)
    PROVE  InOrder(rs, u)
<1>1. \A i \in 1..Len(rs) : /\ rs[i].start \in Nat /\ rs[i].end \in Nat \cup {None}
                            /\ rs[i].seen \in Nat \cup {None}
  BY RowTypes
<1> QED
  BY <1>1 DEF InOrder

\* Sessions that were open are given an end that is not to come.
LEMMA OrderEnded ==
    ASSUME Sessions!NoneAssumption, NEW rs \in Seq(SessionRows), NEW qs \in Seq(SessionRows),
           NEW t \in Nat, NEW u \in Nat, t <= u, InOrder(rs, t), Ends(rs, qs, t, u)
    PROVE  InOrder(qs, u) /\ \A i \in 1..Len(qs) : qs[i].end # None
<1>1. \A i \in 1..Len(rs) : /\ rs[i].start \in Nat /\ rs[i].end \in Nat \cup {None}
                            /\ qs[i].start \in Nat /\ qs[i].end \in Nat \cup {None}
                            /\ rs[i].seen \in Nat \cup {None}
  BY RowTypes DEF Ends
<1>2. ASSUME NEW i \in 1..Len(qs)
      PROVE  /\ qs[i].end # None /\ qs[i].start <= qs[i].end /\ qs[i].end <= u
             /\ qs[i].reason = "selection_changed" => qs[i].end < u
  <2>1. i \in 1..Len(rs)
    BY DEF Ends
  <2>2. CASE rs[i].end # None
    <3>1. qs[i] = rs[i]
      BY <2>1, <2>2 DEF Ends
    <3>2. /\ rs[i].start <= rs[i].end /\ rs[i].end <= t
          /\ rs[i].reason = "selection_changed" => rs[i].end < t
      BY <2>1, <2>2 DEF InOrder
    <3> QED
      BY <1>1, <2>1, <2>2, <3>1, <3>2
  <2>3. CASE rs[i].end = None
    <3>1. /\ qs[i].start = rs[i].start /\ qs[i].end \in rs[i].start..t
          /\ qs[i].reason = "selection_changed" => qs[i].end < u
      BY <2>1, <2>3 DEF Ends
    <3>2. qs[i].end \in Nat
      BY <1>1, <2>1, <3>1
    <3> QED
      BY <1>1, <2>1, <3>1, <3>2 DEF Sessions!NoneAssumption
  <2> QED
    BY <2>2, <2>3
<1>3. ASSUME NEW i \in 1..Len(qs), NEW j \in 1..Len(qs), i < j
      PROVE  qs[i].end <= qs[j].start
  <2>1. i \in 1..Len(rs) /\ j \in 1..Len(rs) /\ i # Len(rs)
    BY <1>3 DEF Ends
  <2>2. rs[i].end # None /\ rs[i].end <= rs[j].start
    BY <1>3, <2>1 DEF InOrder
  <2>3. qs[i] = rs[i]
    BY <2>1, <2>2 DEF Ends
  <2>4. qs[j].start = rs[j].start
    BY <2>1 DEF Ends
  <2> QED
    BY <2>2, <2>3, <2>4
<1> QED
  BY <1>2, <1>3 DEF InOrder

\* A session begins after all the others.
LEMMA OrderAppended ==
    ASSUME Sessions!NoneAssumption, NEW rs \in Seq(SessionRows), NEW s \in SessionRows,
           NEW t \in Nat, InOrder(rs, t),
           \A i \in 1..Len(rs) : rs[i].end # None /\ rs[i].end <= s.start,
           s.end = None, s.start < t, s.seen \in s.start..t
    PROVE  InOrder(Append(rs, s), t) /\ OpenLast(Append(rs, s))
<1> DEFINE qs == Append(rs, s)
<1>1. /\ qs \in Seq(SessionRows) /\ Len(qs) = Len(rs) + 1
      /\ \A i \in 1..Len(rs) : qs[i] = rs[i]
      /\ qs[Len(rs) + 1] = s /\ Len(rs) \in Nat
  BY AppendIs
<1> HIDE DEF qs
<1>2. ASSUME NEW i \in 1..Len(qs)
      PROVE  /\ qs[i].end # None => /\ qs[i].start <= qs[i].end /\ qs[i].end <= t
                                    /\ qs[i].reason = "selection_changed" => qs[i].end < t
             /\ qs[i].end = None => /\ i = Len(qs) /\ qs[i].start < t
                                    /\ qs[i].seen \in qs[i].start..t
  <2>1. CASE i \in 1..Len(rs)
    BY <1>1, <2>1 DEF InOrder
  <2>2. CASE i = Len(rs) + 1
    BY <1>1, <2>2
  <2> QED
    BY <1>1, <2>1, <2>2
<1>3. ASSUME NEW i \in 1..Len(qs), NEW j \in 1..Len(qs), i < j
      PROVE  qs[i].end <= qs[j].start
  <2>1. i \in 1..Len(rs) /\ qs[i] = rs[i]
    BY <1>1, <1>3
  <2>2. CASE j \in 1..Len(rs)
    <3>1. qs[j] = rs[j] /\ rs[i].end <= rs[j].start
      BY <1>1, <1>3, <2>1, <2>2 DEF InOrder
    <3> QED
      BY <2>1, <3>1
  <2>3. CASE j = Len(rs) + 1
    BY <1>1, <2>1, <2>3
  <2> QED
    BY <1>1, <2>2, <2>3
<1>4. qs # <<>> /\ qs[Len(qs)].end = None
  BY <1>1
<1> QED
  BY <1>2, <1>3, <1>4 DEF InOrder, OpenLast, qs

\* What is counted is the same when every session begins and ends as before.
LEMMA CountsSame ==
    ASSUME NEW rs, NEW qs, NEW k, NEW p, NEW o, NEW t \in Nat, NEW u \in Nat, t <= u,
           k.played \subseteq Nat, Counts(rs, k, p, t), Len(qs) = Len(rs),
           \A i \in 1..Len(rs) : /\ qs[i].start = rs[i].start
                                 /\ Until(qs[i], o, u) = Until(rs[i], p, t)
    PROVE  Counts(qs, k, o, u)
<1>1. \A x \in k.played : x < u
  BY DEF Counts
<1> QED
  BY <1>1 DEF Counts

\* The account plays for an instant: the last session goes on.
LEMMA CountsLonger ==
    ASSUME Sessions!NoneAssumption, NEW rs \in Seq(SessionRows),
           NEW k \in [played : SUBSET Nat, lost : SUBSET Nat], NEW p, p # "down",
           NEW t \in Nat, InOrder(rs, t), OpenLast(rs), Counts(rs, k, p, t),
           NEW l, l.played = k.played \cup {t}, l.lost = k.lost
    PROVE  Counts(rs, l, p, t + 1)
<1>1. \A i \in 1..Len(rs) : rs[i].start \in Nat /\ rs[i].end \in Nat \cup {None}
  BY RowTypes
<1>2. l.lost \subseteq l.played /\ (\A x \in l.played : x < t + 1) /\ t \notin l.lost
  BY DEF Counts
<1>3. ASSUME NEW x \in Nat
      PROVE  x \in l.played \ l.lost <=>
                \E i \in 1..Len(rs) : rs[i].start <= x /\ x < Until(rs[i], p, t + 1)
  <2>1. CASE x = t
    <3>1. Len(rs) \in 1..Len(rs) /\ rs[Len(rs)].start <= t /\ Until(rs[Len(rs)], p, t + 1) = t + 1
      BY <1>1 DEF OpenLast, InOrder, Until
    <3> QED
      BY <1>2, <2>1, <3>1
  <2>2. CASE x # t
    <3>1. \A i \in 1..Len(rs) : x < Until(rs[i], p, t + 1) <=> x < Until(rs[i], p, t) 
      BY <1>1, <2>2 DEF Until, InOrder
    <3>2. x \in l.played \ l.lost <=> x \in k.played \ k.lost
      BY <2>2
    <3> QED
      BY <3>1, <3>2 DEF Counts
  <2> QED
    BY <2>1, <2>2
<1> QED
  BY <1>2, <1>3 DEF Counts

\* It begins to play.
LEMMA CountsAnew ==
    ASSUME Sessions!NoneAssumption, NEW rs \in Seq(SessionRows),
           NEW k \in [played : SUBSET Nat, lost : SUBSET Nat], NEW p, p # "down",
           NEW t \in Nat, NEW s \in SessionRows, s.start = t, s.end = None,
           \A i \in 1..Len(rs) : rs[i].end # None, Counts(rs, k, p, t),
           NEW l, l.played = k.played \cup {t}, l.lost = k.lost
    PROVE  Counts(Append(rs, s), l, p, t + 1)
<1> DEFINE qs == Append(rs, s)
<1>1. /\ Len(qs) = Len(rs) + 1 /\ Len(rs) \in Nat
      /\ \A i \in 1..Len(rs) : qs[i] = rs[i] /\ rs[i].end \in Nat
      /\ qs[Len(rs) + 1] = s
  BY AppendIs, RowTypes
<1> HIDE DEF qs
<1>2. l.lost \subseteq l.played /\ (\A x \in l.played : x < t + 1) /\ t \notin l.lost
  BY DEF Counts
<1>3. \A i \in 1..Len(rs) : Until(qs[i], p, t + 1) = Until(rs[i], p, t) /\ qs[i].start = rs[i].start
  BY <1>1 DEF Until
<1>4. Until(qs[Len(rs) + 1], p, t + 1) = t + 1 /\ qs[Len(rs) + 1].start = t
  BY <1>1 DEF Until
<1>5. ASSUME NEW x \in Nat
      PROVE  x \in l.played \ l.lost <=>
                \E i \in 1..Len(qs) : qs[i].start <= x /\ x < Until(qs[i], p, t + 1)
  <2>1. (\E i \in 1..Len(qs) : qs[i].start <= x /\ x < Until(qs[i], p, t + 1))
        <=> \/ \E i \in 1..Len(rs) : rs[i].start <= x /\ x < Until(rs[i], p, t)
            \/ t <= x /\ x < t + 1
    BY <1>1, <1>3, <1>4
  <2>2. x \in l.played \ l.lost <=> x \in k.played \ k.lost \/ x = t
    BY <1>2
  <2> QED
    BY <2>1, <2>2 DEF Counts
<1> QED
  BY <1>2, <1>5 DEF Counts, qs

\* A crash loses what was played since the open session was written last.
LEMMA CountsLost ==
    ASSUME Sessions!NoneAssumption, NEW rs \in Seq(SessionRows),
           NEW k \in [played : SUBSET Nat, lost : SUBSET Nat], NEW p, p # "down", NEW t \in Nat,
           InOrder(rs, t), OpenLast(rs), Counts(rs, k, p, t), NEW m, rs[Len(rs)].seen = m,
           NEW l, l.played = k.played, l.lost = k.lost \cup {x \in k.played : x >= m}
    PROVE  Counts(rs, l, "down", t)
<1>1. /\ \A i \in 1..Len(rs) : rs[i].start \in Nat /\ rs[i].end \in Nat \cup {None}
      /\ Len(rs) \in 1..Len(rs)
  BY RowTypes DEF OpenLast
<1>2. rs[Len(rs)].end = None /\ m \in rs[Len(rs)].start..t
  BY <1>1 DEF OpenLast, InOrder
<1>3. l.lost \subseteq l.played /\ \A x \in l.played : x < t
  BY DEF Counts
<1>4. \A i \in 1..Len(rs) : i # Len(rs) => rs[i].end # None /\ rs[i].end <= m
  BY <1>1, <1>2 DEF InOrder
<1>5. ASSUME NEW x \in Nat, NEW i \in 1..Len(rs)
      PROVE  rs[i].start <= x /\ x < Until(rs[i], "down", t) <=>
                rs[i].start <= x /\ x < Until(rs[i], p, t) /\ x < m
  <2>1. CASE i = Len(rs)
    BY <1>1, <1>2, <2>1 DEF Until
  <2>2. CASE i # Len(rs)
    BY <1>1, <1>2, <1>4, <2>2 DEF Until
  <2> QED
    BY <2>1, <2>2
<1>6. ASSUME NEW x \in Nat
      PROVE  x \in l.played \ l.lost <=>
                \E i \in 1..Len(rs) : rs[i].start <= x /\ x < Until(rs[i], "down", t)
  <2>1. x \in l.played \ l.lost <=> x \in k.played \ k.lost /\ x < m
    BY <1>2
  <2> QED
    BY <1>5, <2>1 DEF Counts
<1> QED
  BY <1>3, <1>6 DEF Counts

\* Nothing was written of a session that was still being opened.
LEMMA CountsNever ==
    ASSUME Sessions!NoneAssumption, NEW rs \in Seq(SessionRows), NEW s \in SessionRows,
           NEW k, NEW t \in Nat, s.end = None, s.seen = s.start,
           Counts(Append(rs, s), k, "down", t)
    PROVE  Counts(rs, k, "down", t)
<1> DEFINE qs == Append(rs, s)
<1>1. /\ Len(qs) = Len(rs) + 1 /\ Len(rs) \in Nat /\ \A i \in 1..Len(rs) : qs[i] = rs[i]
      /\ qs[Len(rs) + 1] = s /\ s.start \in Nat /\ Counts(qs, k, "down", t)
  BY AppendIs DEF SessionRows
<1> HIDE DEF qs
<1>2. ASSUME NEW x \in Nat
      PROVE  (\E i \in 1..Len(qs) : qs[i].start <= x /\ x < Until(qs[i], "down", t))
             <=> \E i \in 1..Len(rs) : rs[i].start <= x /\ x < Until(rs[i], "down", t)
  <2>1. ~(s.start <= x /\ x < Until(s, "down", t))
    BY <1>1 DEF Until
  <2> QED
    BY <1>1, <2>1
<1> QED
  BY <1>1, <1>2 DEF Counts

\* A session that begins anew continues none that is over.
LEMMA GoesAnew ==
    ASSUME Sessions!NoneAssumption, NEW rs \in Seq(SessionRows), NEW s \in SessionRows,
           NEW t \in Nat, InOrder(rs, t), s.start = t, \A i \in 1..Len(rs) : rs[i].end # None
    PROVE  Goes(Append(rs, s), t)
<1> DEFINE qs == Append(rs, s)
<1>1. /\ Len(qs) = Len(rs) + 1 /\ Len(rs) \in Nat /\ \A i \in 1..Len(rs) : qs[i] = rs[i]
      /\ qs[Len(rs) + 1] = s
  BY AppendIs
<1> HIDE DEF qs
<1>2. \A i \in 1..Len(rs) : rs[i].end \in Nat
  BY RowTypes
<1>3. \A i \in 1..Len(rs) : ~Sessions!Continues(qs[i], t)
  BY <1>1, <1>2 DEF InOrder, Sessions!Continues
<1>4. Len(qs) \in 1..Len(qs) /\ qs[Len(qs)].start = t
  BY <1>1
<1>5. \A i \in Len(qs)..(Len(qs) - 1) : Sessions!Continues(qs[i], qs[i + 1].start)
  BY <1>1
<1> QED
  BY <1>1, <1>3, <1>4, <1>5 DEF Goes, qs

\* A session that is replaced is continued.
LEMMA GoesOn ==
    ASSUME Sessions!NoneAssumption, NEW rs \in Seq(SessionRows), NEW qs \in Seq(SessionRows),
           NEW s \in SessionRows, NEW t \in Nat, NEW since0, InOrder(rs, t), OpenLast(rs),
           Goes(rs, since0), Len(qs) = Len(rs), \A i \in 1..(Len(rs) - 1) : qs[i] = rs[i],
           qs[Len(rs)].start = rs[Len(rs)].start, qs[Len(rs)].end = t,
           qs[Len(rs)].reason = "selection_changed", s.start = t
    PROVE  Goes(Append(qs, s), since0)
<1> DEFINE ws == Append(qs, s)
<1>0. Len(rs) \in Nat \ {0}
  BY DEF OpenLast
<1>1. /\ Len(ws) = Len(rs) + 1
      /\ \A i \in 1..(Len(rs) - 1) : ws[i] = rs[i]
      /\ ws[Len(rs)] = qs[Len(rs)] /\ ws[Len(rs) + 1] = s
  BY <1>0, AppendIs
<1> HIDE DEF ws
<1>2. PICK c \in 1..Len(rs) :
        /\ rs[c].start = since0
        /\ \A i \in c..(Len(rs) - 1) : Sessions!Continues(rs[i], rs[i + 1].start)
        /\ \A i \in 1..(c - 1) : ~Sessions!Continues(rs[i], since0)
  BY DEF Goes
<1>3. \A i \in 1..Len(rs) : ws[i].start = rs[i].start
  BY <1>0, <1>1
<1>4. Sessions!Continues(ws[Len(rs)], t)
  <2>1. rs[Len(rs)].start < t
    BY <1>0 DEF InOrder, OpenLast
  <2> QED
    BY <1>0, <1>1, <2>1 DEF Sessions!Continues
<1>5. \A i \in c..(Len(ws) - 1) : Sessions!Continues(ws[i], ws[i + 1].start)
  <2> SUFFICES ASSUME NEW i \in c..(Len(ws) - 1)
               PROVE  Sessions!Continues(ws[i], ws[i + 1].start)
    OBVIOUS
  <2>1. CASE i = Len(rs)
    BY <1>1, <1>4, <2>1
  <2>2. CASE i # Len(rs)
    <3>1. i \in c..(Len(rs) - 1) /\ i \in 1..(Len(rs) - 1) /\ i + 1 \in 1..Len(rs)
      BY <1>0, <1>1, <2>2
    <3> QED
      BY <1>1, <1>2, <1>3, <3>1
  <2> QED
    BY <2>1, <2>2
<1>6. \A i \in 1..(c - 1) : ~Sessions!Continues(ws[i], since0)
  BY <1>0, <1>1, <1>2
<1>7. c \in 1..Len(ws) /\ ws[c].start = since0
  BY <1>0, <1>1, <1>2, <1>3
<1>8. Goes(ws, since0)
  BY <1>5, <1>6, <1>7 DEF Goes
<1> QED
  BY <1>8 DEF ws

\* Nothing but what the last session was seen at changes.
LEMMA GoesSeen ==
    ASSUME NEW rs \in Seq(SessionRows), NEW qs \in Seq(SessionRows), NEW since0,
           Goes(rs, since0), Len(qs) = Len(rs), \A i \in 1..(Len(rs) - 1) : qs[i] = rs[i],
           qs[Len(rs)].start = rs[Len(rs)].start
    PROVE  Goes(qs, since0)
<1>1. PICK c \in 1..Len(rs) :
        /\ rs[c].start = since0
        /\ \A i \in c..(Len(rs) - 1) : Sessions!Continues(rs[i], rs[i + 1].start)
        /\ \A i \in 1..(c - 1) : ~Sessions!Continues(rs[i], since0)
  BY DEF Goes
<1>2. Len(rs) \in Nat /\ \A i \in 1..Len(rs) : qs[i].start = rs[i].start
  OBVIOUS
<1>3. \A i \in c..(Len(qs) - 1) : Sessions!Continues(qs[i], qs[i + 1].start)
  <2> SUFFICES ASSUME NEW i \in c..(Len(qs) - 1)
               PROVE  Sessions!Continues(qs[i], qs[i + 1].start)
    OBVIOUS
  <2>1. i \in c..(Len(rs) - 1) /\ i \in 1..(Len(rs) - 1) /\ i + 1 \in 1..Len(rs)
    BY <1>2
  <2> QED
    BY <1>1, <1>2, <2>1
<1>4. \A i \in 1..(c - 1) : ~Sessions!Continues(qs[i], since0)
  BY <1>1, <1>2
<1> QED
  BY <1>1, <1>2, <1>3, <1>4 DEF Goes

LEMMA ExceededIs ==
    ASSUME NEW t
    PROVE  Sessions!Exceeded(t) \in {"session_limit", "daily_limit", "weekly_limit", None}
<1> DEFINE reached(i) == /\ caps[Sessions!Reasons[i]] # None
                         /\ Sessions!Consumed(t)[Sessions!Reasons[i]] >= caps[Sessions!Reasons[i]]
           all == {i \in DOMAIN Sessions!Reasons : reached(i)}
<1>1. Sessions!Exceeded(t) = IF all = {} THEN None ELSE Sessions!Reasons[Sessions!Min(all)]
  BY DEF Sessions!Exceeded
<1>2. all \subseteq 1..3
  BY DEF Sessions!Reasons
<1> HIDE DEF all
<1>3. ASSUME all # {}
      PROVE  Sessions!Min(all) \in 1..3
  <2>1. \E x \in all : \A y \in all : x <= y
    <3>1. \A y \in all : y = 1 \/ y = 2 \/ y = 3
      BY <1>2
    <3>2. CASE 1 \in all
      BY <3>1, <3>2
    <3>3. CASE 1 \notin all /\ 2 \in all
      BY <3>1, <3>3
    <3>4. CASE 1 \notin all /\ 2 \notin all
      BY <1>3, <3>1, <3>4
    <3> QED
      BY <3>2, <3>3, <3>4
  <2>2. Sessions!Min(all) \in all
    BY <2>1 DEF Sessions!Min
  <2> QED
    BY <1>2, <2>2
<1>4. \A i \in 1..3 : Sessions!Reasons[i] \in {"session_limit", "daily_limit", "weekly_limit"}
  BY DEF Sessions!Reasons
<1> QED
  BY <1>1, <1>3, <1>4

LEMMA OpenFacts ==
    ASSUME Sessions!NoneAssumption, SessionsInv
    PROVE  /\ \A i \in 1..Len(rows) : i \in Sessions!Open => i = Len(rows) /\ opening = None
           /\ \A i \in 1..Len(rows) : i \in Sessions!Open <=> rows[i].end = None
           /\ Sessions!Open = {} \/ (Len(rows) \in 1..Len(rows) /\ Sessions!Open = {Len(rows)})
           /\ opening = None => (Sessions!Open # {} <=> OpenLast(rows))
<1>1. rows \in Seq(SessionRows) /\ opening \in Openings \cup {None} /\ InOrder(Written, clock)
  BY DEF SessionsInv, SessionsTyped
<1>2. Sessions!Open = {i \in 1..Len(rows) : rows[i].end = None} /\ Len(rows) \in Nat
  BY <1>1 DEF Sessions!Open
<1>3. ASSUME NEW i \in 1..Len(rows), rows[i].end = None
      PROVE  i = Len(rows) /\ opening = None
  <2>1. CASE opening = None
    BY <1>1, <1>3, <2>1 DEF Written, With, InOrder
  <2>2. CASE opening # None
    <3> DEFINE s == Sessions!Session(opening.start, opening.target)
    <3>1. opening.start \in Nat /\ opening.target \in Targets \cup {None}
      BY <1>1, <2>2 DEF Openings
    <3>2. s \in SessionRows
      BY <3>1, SessionIs
    <3> HIDE DEF s
    <3>3. Len(Append(rows, s)) = Len(rows) + 1 /\ Append(rows, s)[i] = rows[i]
      BY <1>1, <3>2, AppendIs
    <3>4. InOrder(Append(rows, s), clock)
      BY <1>1, <2>2 DEF Written, With, s
    <3>5. i = Len(rows) + 1
      BY <1>2, <1>3, <3>3, <3>4 DEF InOrder
    <3> QED
      BY <1>2, <3>5
  <2> QED
    BY <2>1, <2>2
<1>4. OpenLast(rows) <=> Len(rows) \in 1..Len(rows) /\ rows[Len(rows)].end = None
  BY <1>1 DEF OpenLast
<1> QED
  BY <1>2, <1>3, <1>4

\* Nothing of the sessions changes.
LEMMA SessionsStay ==
    ASSUME SessionsInv, SessionsTyped', UNCHANGED <<clock, rows, opening, since, stamp, known>>,
           phase \in {"up", "stopping"}, phase' \in {"up", "stopping"}
    PROVE  SessionsInv'
<1>1. Written' = Written
  BY DEF Written
<1>2. /\ InOrder(Written, clock) /\ Plays(Written, since, stamp)
      /\ Counts(Written, known, phase, clock)
  BY DEF SessionsInv
<1>3. Counts(Written, known, phase', clock)
  BY <1>2 DEF Counts, Until
<1>4. /\ InOrder(Written', clock') /\ Plays(Written', since', stamp')
      /\ Counts(Written', known', phase', clock')
  BY <1>1, <1>2, <1>3
<1> QED
  BY <1>4 DEF SessionsInv

LEMMA OperationsAre ==
    ASSUME SessionsTyped
    PROVE  /\ \A op \in {"pause", "resume"} : Sessions!Request(op) \in Operations
           /\ \A target \in Targets \cup {None} : Sessions!Status(target) \in Operations
           /\ Sessions!Cap(clock) \in Operations
           /\ \A q \in Seq(Operations), x \in Operations : Append(q, x) \in Seq(Operations)
           /\ queue # <<>> => Tail(queue) \in Seq(Operations) /\ Head(queue) \in Operations
<1>1. clock \in Nat /\ queue \in Seq(Operations)
  BY DEF SessionsTyped
<1>2. /\ \A op \in {"pause", "resume"} : Sessions!Request(op) \in Operations
      /\ \A target \in Targets \cup {None} : Sessions!Status(target) \in Operations
      /\ Sessions!Cap(clock) \in Operations
  BY <1>1 DEF Sessions!Request, Sessions!Status, Sessions!Cap, Operations
<1> HIDE DEF Operations
<1> QED
  BY <1>1, <1>2

LEMMA CommandsKeep ==
    ASSUME SessionsInv,
           \/ Sessions!Tick \/ Sessions!Report \/ Sessions!Ask
           \/ Sessions!SaveCaps \/ Sessions!BeginShutdown
    PROVE  SessionsInv'
<1>1. /\ UNCHANGED <<clock, rows, opening, since, stamp, known>>
      /\ phase = "up" /\ phase' \in {"up", "stopping"}
  BY DEF Sessions!Tick, Sessions!Report, Sessions!Ask, Sessions!SaveCaps,
         Sessions!BeginShutdown, Sessions!account, Sessions!sessions, Sessions!history
<1>2. SessionsTyped
  BY DEF SessionsInv
<1>3. /\ caps' \in CapSets /\ row' \in AccountRows /\ plays' \in Targets \cup {None}
      /\ queue' \in Seq(Operations)
  <2>1. CASE Sessions!Tick
    BY <1>2, <2>1, OperationsAre DEF Sessions!Tick, SessionsTyped
  <2>2. CASE Sessions!Report
    <3>1. PICK target \in Targets \cup {None} :
            /\ plays' = target /\ row' = [row EXCEPT !.boosting = target # None]
            /\ queue' = Append(queue, Sessions!Status(target))
      BY <2>2 DEF Sessions!Report
    <3>2. row' \in AccountRows
      BY <1>2, <3>1 DEF SessionsTyped, AccountRows
    <3>3. caps' = caps /\ queue \in Seq(Operations)
      BY <1>2, <2>2 DEF Sessions!Report, SessionsTyped
    <3> QED
      BY <1>2, <3>1, <3>2, <3>3, OperationsAre DEF SessionsTyped
  <2>3. CASE Sessions!Ask
    <3>1. PICK op \in {"pause", "resume"} : queue' = Append(queue, Sessions!Request(op))
      BY <2>3 DEF Sessions!Ask
    <3>2. UNCHANGED <<row, caps, plays>> /\ queue \in Seq(Operations)
      BY <1>2, <2>3 DEF Sessions!Ask, SessionsTyped, Sessions!account
    <3> QED
      BY <1>2, <3>1, <3>2, OperationsAre DEF SessionsTyped
  <2>4. CASE Sessions!SaveCaps \/ Sessions!BeginShutdown
    BY <1>2, <2>4 DEF SessionsTyped, Sessions!SaveCaps, Sessions!BeginShutdown, Sessions!account
  <2> QED
    BY <2>1, <2>2, <2>3, <2>4
<1>4. SessionsTyped'
  BY <1>1, <1>2, <1>3 DEF SessionsTyped
<1> QED
  BY <1>1, <1>4, SessionsStay

LEMMA RunOperationKeeps ==
    ASSUME SessionsInv, Sessions!RunOperation
    PROVE  SessionsInv'
<1>1. /\ UNCHANGED <<clock, rows, opening, since, stamp, known>> /\ UNCHANGED <<phase, caps>>
      /\ phase \in {"up", "stopping"} /\ queue # <<>>
  BY DEF Sessions!RunOperation, Sessions!Turn, Sessions!sessions, Sessions!history,
         SessionsInv, SessionsTyped
<1>2. SessionsTyped
  BY DEF SessionsInv
<1>3. /\ row \in AccountRows /\ queue \in Seq(Operations) /\ plays \in Targets \cup {None}
      /\ Tail(queue) \in Seq(Operations)
  BY <1>1, <1>2, OperationsAre DEF SessionsTyped
<1>4. /\ row' \in AccountRows /\ plays' \in Targets \cup {None}
      /\ queue' \in Seq(Operations)
  <2>1. ASSUME NEW hold \in {"session_limit", "daily_limit", "weekly_limit", "manual", None},
               Sessions!Paused(hold)
        PROVE  /\ row' \in AccountRows /\ plays' \in Targets \cup {None}
               /\ queue' \in Seq(Operations)
    <3>1. row' \in AccountRows /\ plays' = None
      BY <2>1 DEF Sessions!Paused, AccountRows
    <3>2. queue' = Tail(queue) \/ queue' = Append(Tail(queue), Sessions!Status(None))
      BY <2>1 DEF Sessions!Paused
    <3> QED
      BY <1>2, <1>3, <3>1, <3>2, OperationsAre
  <2>2. CASE row' = [row EXCEPT !.desired = "running", !.hold = None]
             /\ queue' = Tail(queue) /\ plays' = plays
    BY <1>3, <2>2 DEF AccountRows
  <2>3. CASE Sessions!Rejected
    BY <1>3, <2>3 DEF Sessions!Rejected
  <2>4. \A t : Sessions!Exceeded(t) \in {"session_limit", "daily_limit", "weekly_limit", None}
    BY ExceededIs
  <2>5. \/ Sessions!Rejected \/ Sessions!Paused("manual")
        \/ (row' = [row EXCEPT !.desired = "running", !.hold = None]
            /\ queue' = Tail(queue) /\ plays' = plays)
        \/ Sessions!Paused(Sessions!Exceeded(Head(queue).at))
    BY DEF Sessions!RunOperation
  <2> QED
    BY <2>1, <2>2, <2>3, <2>4, <2>5
<1>5. SessionsTyped'
  BY <1>1, <1>2, <1>4 DEF SessionsTyped
<1> QED
  BY <1>1, <1>5, SessionsStay

LEMMA WrittenIs ==
    ASSUME Sessions!NoneAssumption, SessionsTyped
    PROVE  /\ Written \in Seq(SessionRows)
           /\ opening # None =>
                LET s == Sessions!Session(opening.start, opening.target)
                IN  /\ s \in SessionRows /\ s.start = opening.start /\ s.seen = opening.start
                    /\ s.end = None
                    /\ Written = Append(rows, s) /\ Len(Written) = Len(rows) + 1
                    /\ Written[Len(Written)] = s
<1>1. rows \in Seq(SessionRows) /\ opening \in Openings \cup {None}
  BY DEF SessionsTyped
<1>2. CASE opening = None
  BY <1>1, <1>2 DEF Written, With
<1>3. CASE opening # None
  <2> DEFINE s == Sessions!Session(opening.start, opening.target)
  <2>1. opening.start \in Nat /\ opening.target \in Targets \cup {None}
    BY <1>1, <1>3 DEF Openings
  <2>2. s \in SessionRows /\ s.start = opening.start /\ s.seen = opening.start /\ s.end = None
    BY <2>1, SessionIs
  <2>3. Written = Append(rows, s)
    BY <1>3 DEF Written, With
  <2> HIDE DEF s
  <2>4. Written \in Seq(SessionRows) /\ Len(Written) = Len(rows) + 1 /\ Written[Len(Written)] = s
    BY <1>1, <2>2, <2>3, AppendIs
  <2> QED
    BY <1>3, <2>2, <2>3, <2>4 DEF s
<1> QED
  BY <1>2, <1>3

\* With no session open at the end, none is.
LEMMA AllEnded ==
    ASSUME NEW rs \in Seq(SessionRows), NEW t, InOrder(rs, t), ~OpenLast(rs)
    PROVE  \A i \in 1..Len(rs) : rs[i].end # None
  BY DEF InOrder, OpenLast

LEMMA CountsIdle ==
    ASSUME NEW rs, NEW k \in [played : SUBSET Nat, lost : SUBSET Nat], NEW p, NEW o,
           NEW t \in Nat, NEW u \in Nat, t <= u, Counts(rs, k, p, t),
           (p = "down" /\ o = "down") \/ \A i \in 1..Len(rs) : rs[i].end # None
    PROVE  Counts(rs, k, o, u)
<1>1. \A i \in 1..Len(rs) : Until(rs[i], o, u) = Until(rs[i], p, t)
  BY DEF Until
<1>2. k.played \subseteq Nat
  OBVIOUS
<1> QED
  BY <1>1, <1>2, CountsSame

LEMMA PassesIs ==
    ASSUME Sessions!BoostAssumption, SessionsTyped,
           NEW playing \in BOOLEAN, Sessions!Passes(playing)
    PROVE  /\ clock \in Nat /\ clock' = clock + 1 /\ clock' \in 0..Last
           /\ known' \in [played : SUBSET Nat, lost : SUBSET Nat] /\ known'.lost = known.lost
           /\ playing => known'.played = known.played \cup {clock}
           /\ ~playing => known'.played = known.played /\ known' = known
<1>1. /\ clock \in 0..Last /\ Last \in Nat
      /\ known \in [played : SUBSET Nat, lost : SUBSET Nat]
  BY DEF SessionsTyped, Sessions!BoostAssumption
<1>2. clock < Last /\ clock' = clock + 1
  BY DEF Sessions!Passes
<1>3. known' = [known EXCEPT !.played = IF playing THEN known.played \cup {clock} ELSE known.played]
  BY <1>1 DEF Sessions!Passes
<1> QED
  BY <1>1, <1>2, <1>3

LEMMA TimeKeeps ==
    ASSUME Sessions!BoostAssumption, Sessions!NoneAssumption, SessionsInv, Sessions!Time
    PROVE  SessionsInv'
<1> DEFINE playing == phase # "down" /\ since # None
<1>1. /\ UNCHANGED <<phase, caps, row, plays, queue, rows, opening, since, stamp>>
      /\ Sessions!Passes(playing) /\ SessionsTyped /\ InOrder(Written, clock)
      /\ Counts(Written, known, phase, clock)
  BY DEF Sessions!Time, Sessions!account, Sessions!sessions, SessionsInv
<1>2. /\ clock \in Nat /\ clock' = clock + 1 /\ clock' \in 0..Last
      /\ known' \in [played : SUBSET Nat, lost : SUBSET Nat] /\ known'.lost = known.lost
      /\ playing => known'.played = known.played \cup {clock}
      /\ ~playing => known' = known
  BY <1>1, PassesIs
<1>3. SessionsTyped' /\ Written' = Written /\ Written \in Seq(SessionRows)
      /\ known \in [played : SUBSET Nat, lost : SUBSET Nat]
  BY <1>1, <1>2, WrittenIs DEF SessionsTyped, Written
<1>4. InOrder(Written', clock')
  BY <1>1, <1>2, <1>3, OrderLater
<1>5. Counts(Written', known', phase', clock')
  <2>1. CASE playing
    <3>1. OpenLast(Written)
      BY <2>1 DEF SessionsInv, Plays
    <3> QED
      BY <1>1, <1>2, <1>3, <2>1, <3>1, CountsLonger
  <2>2. CASE ~playing
    <3>1. phase = "down" \/ ~OpenLast(Written)
      BY <2>2 DEF SessionsInv, Plays
    <3>2. phase = "down" \/ \A i \in 1..Len(Written) : Written[i].end # None
      BY <1>1, <1>3, <3>1, AllEnded
    <3> QED
      BY <1>1, <1>2, <1>3, <2>2, <3>2, CountsIdle
  <2> QED
    BY <2>1, <2>2
<1> QED
  BY <1>1, <1>3, <1>4, <1>5 DEF SessionsInv

\* closeBoostSession, for the session that is open
LEMMA ClosedIs ==
    ASSUME Sessions!NoneAssumption, SessionsInv, NEW reason \in {"status", "selection_changed"}
    PROVE  LET qs == Sessions!Closed(reason, Sessions!Open)
           IN  /\ qs \in Seq(SessionRows) /\ Len(qs) = Len(rows)
               /\ \A i \in 1..Len(rows) :
                     /\ rows[i].end # None => qs[i] = rows[i]
                     /\ rows[i].end = None => /\ qs[i].start = rows[i].start /\ qs[i].end = clock
                                              /\ qs[i].reason = reason
                                              /\ clock \in rows[i].start..clock
<1> DEFINE qs == Sessions!Closed(reason, Sessions!Open)
<1>1. rows \in Seq(SessionRows) /\ clock \in Nat /\ InOrder(Written, clock)
  BY DEF SessionsInv, SessionsTyped
<1>2. qs = [i \in 1..Len(rows) |-> IF i \in Sessions!Open
                                   THEN Sessions!Ended(rows[i], clock, reason) ELSE rows[i]]
  BY <1>1 DEF Sessions!Closed
<1>3. ASSUME NEW i \in 1..Len(rows)
      PROVE  /\ qs[i] \in SessionRows
             /\ rows[i].end # None => qs[i] = rows[i]
             /\ rows[i].end = None => qs[i].start = rows[i].start /\ qs[i].end = clock
                                      /\ qs[i].reason = reason
  <2>1. rows[i] \in SessionRows
    BY <1>1, RowTypes
  <2>2. /\ Sessions!Ended(rows[i], clock, reason) \in SessionRows
        /\ Sessions!Ended(rows[i], clock, reason).start = rows[i].start
        /\ Sessions!Ended(rows[i], clock, reason).end = clock
        /\ Sessions!Ended(rows[i], clock, reason).reason = reason
    BY <1>1, <2>1, EndedIs
  <2>3. i \in Sessions!Open <=> rows[i].end = None
    BY OpenFacts
  <2> QED
    BY <1>2, <2>1, <2>2, <2>3
<1>4. ASSUME NEW i \in 1..Len(rows), rows[i].end = None
      PROVE  clock \in rows[i].start..clock
  <2>1. opening = None
    BY <1>4, OpenFacts
  <2>2. InOrder(rows, clock) /\ rows[i].start \in Nat
    BY <1>1, <2>1, RowTypes DEF Written, With
  <2> QED
    BY <1>1, <1>4, <2>2 DEF InOrder
<1>5. qs \in Seq(SessionRows) /\ Len(qs) = Len(rows)
  <2>1. Len(rows) \in Nat
    BY <1>1
  <2> QED
    BY <1>2, <1>3, <2>1
<1> QED
  BY <1>3, <1>4, <1>5

LEMMA CountIs ==
    ASSUME NEW S PROVE Sessions!Cardinality(S) = Cardinality(S)
  BY DEF Sessions!Cardinality, Cardinality

LEMMA ProcessStatusKeeps ==
    ASSUME Sessions!BoostAssumption, Sessions!NoneAssumption, SessionsInv, Sessions!ProcessStatus
    PROVE  SessionsInv'
<1> DEFINE target == Head(queue).target
           playing == target # None
<1>1. /\ UNCHANGED <<phase, caps, row, plays>> /\ phase # "down" /\ opening = None /\ queue # <<>>
      /\ Sessions!Track(target) /\ Sessions!Passes(playing) /\ queue' = Tail(queue)
      /\ since' = IF target = None THEN None ELSE IF since = None THEN clock ELSE since
  BY DEF Sessions!ProcessStatus, Sessions!Turn, Sessions!account
<1>2. /\ SessionsTyped /\ Written = rows /\ InOrder(rows, clock)
      /\ Counts(rows, known, phase, clock) /\ Plays(rows, since, stamp)
  BY <1>1 DEF SessionsInv, Written, With
<1>3. /\ target \in Targets \cup {None} /\ Tail(queue) \in Seq(Operations)
      /\ rows \in Seq(SessionRows) /\ since \in Nat \cup {None} /\ stamp \in Nat
      /\ known \in [played : SUBSET Nat, lost : SUBSET Nat]
  <2>1. Head(queue) \in Operations /\ Tail(queue) \in Seq(Operations)
    BY <1>1, <1>2, OperationsAre
  <2> QED
    BY <1>2, <2>1 DEF SessionsTyped, Operations
<1>4. /\ clock \in Nat /\ clock' = clock + 1 /\ clock' \in 0..Last
      /\ known' \in [played : SUBSET Nat, lost : SUBSET Nat] /\ known'.lost = known.lost
      /\ playing => known'.played = known.played \cup {clock}
      /\ ~playing => known' = known
  BY <1>1, <1>2, PassesIs
<1>5. SUFFICES /\ rows' \in Seq(SessionRows) /\ opening' \in Openings \cup {None} /\ stamp' \in Nat
               /\ InOrder(Written', clock') /\ Counts(Written', known', phase, clock')
               /\ Plays(Written', since', stamp')
  <2>1. since' \in Nat \cup {None}
    BY <1>1, <1>3, <1>4
  <2>2. SessionsTyped'
    BY <1>1, <1>2, <1>3, <1>4, <1>5, <2>1 DEF SessionsTyped
  <2> QED
    BY <1>1, <1>5, <2>2 DEF SessionsInv
<1>6. InOrder(rows, clock + 1)
  BY <1>2, <1>3, <1>4, OrderLater
<1> DEFINE anew == Sessions!Session(clock, target)
<1>7. /\ anew \in SessionRows /\ anew.start = clock /\ anew.end = None /\ anew.seen = clock
      /\ anew.seen \in anew.start..(clock + 1) /\ anew.start < clock + 1
  BY <1>3, <1>4, SessionIs
<1>8. \/ target = None
      \/ playing /\ Sessions!Open # {} /\ UNCHANGED <<rows, opening, stamp>>
      \/ /\ playing /\ Sessions!Open = {} /\ rows' = Append(rows, anew)
         /\ opening' = None /\ stamp' = clock
      \/ /\ playing /\ Sessions!Open # {}
         /\ rows' = Sessions!Closed("selection_changed", Sessions!Open)
         /\ opening' = [start |-> clock, target |-> target] /\ stamp' = clock
  <2>1. Sessions!Cardinality({}) # 1
    BY CountIs, FS_EmptySet
  <2> QED
    BY <1>1, <2>1 DEF Sessions!Track, Sessions!Replaced
<1>9. CASE target = None
  <2> DEFINE qs == Sessions!Closed("status", Sessions!Open)
  <2>1. rows' = qs /\ opening' = None /\ stamp' = 0 /\ since' = None
    BY <1>1, <1>9 DEF Sessions!Track
  <2>2. /\ qs \in Seq(SessionRows) /\ Len(qs) = Len(rows)
        /\ \A i \in 1..Len(rows) :
              /\ rows[i].end # None => qs[i] = rows[i]
              /\ rows[i].end = None => /\ qs[i].start = rows[i].start /\ qs[i].end = clock
                                       /\ qs[i].reason = "status"
                                       /\ clock \in rows[i].start..clock
    BY ClosedIs
  <2> HIDE DEF qs
  <2>8. /\ clock + 1 \in Nat /\ clock <= clock + 1 /\ known.played \subseteq Nat
       /\ Ends(rows, qs, clock, clock + 1)
    BY <1>3, <1>4, <2>2 DEF Ends
  <2>3. InOrder(qs, clock + 1) /\ \A i \in 1..Len(qs) : qs[i].end # None
    <3>1. /\ rows \in Seq(SessionRows) /\ qs \in Seq(SessionRows) /\ clock \in Nat
          /\ InOrder(rows, clock) /\ Len(qs) = Len(rows)
      BY <1>2, <1>3, <1>4, <2>2
    <3> QED
      BY <2>8, <3>1, OrderEnded
  <2>4. ~OpenLast(qs)
    BY <2>2, <2>3 DEF OpenLast
  <2>5. \A i \in 1..Len(rows) : qs[i].start = rows[i].start
                               /\ Until(qs[i], phase, clock + 1) = Until(rows[i], phase, clock)
    BY <1>1, <1>4, <2>2, <2>3 DEF Until
  <2>6. Counts(qs, known, phase, clock + 1)
    BY <1>2, <1>3, <1>4, <2>2, <2>5, <2>8, CountsSame
  <2>7. Written' = qs
    BY <2>1 DEF Written, With
  <2> QED
    BY <1>4, <1>9, <2>1, <2>2, <2>3, <2>4, <2>6, <2>7 DEF Plays
<1>10. CASE playing /\ Sessions!Open # {} /\ UNCHANGED <<rows, opening, stamp>>
  <2>1. OpenLast(rows)
    BY <1>1, <1>10, OpenFacts
  <2>2. since # None /\ since' = since
    BY <1>1, <1>2, <1>10, <2>1 DEF Plays
  <2>3. Counts(rows, known', phase, clock + 1)
    BY <1>1, <1>2, <1>3, <1>4, <1>10, <2>1, CountsLonger
  <2>4. Written' = rows
    BY <1>1, <1>10 DEF Written, With
  <2> QED
    BY <1>1, <1>2, <1>3, <1>4, <1>6, <1>10, <2>2, <2>3, <2>4
<1>11. CASE /\ playing /\ Sessions!Open = {} /\ rows' = Append(rows, anew)
            /\ opening' = None /\ stamp' = clock
  <2> HIDE DEF anew
  <2>1. ~OpenLast(rows) /\ \A i \in 1..Len(rows) : rows[i].end # None
    BY <1>1, <1>11, OpenFacts
  <2>2. since = None /\ since' = clock
    BY <1>1, <1>2, <1>11, <2>1 DEF Plays
  <2>3. \A i \in 1..Len(rows) : rows[i].end <= anew.start
    BY <1>2, <1>7, <2>1 DEF InOrder
  <2>4. InOrder(rows', clock') /\ OpenLast(rows')
    <3>1. \A i \in 1..Len(rows) : rows[i].end # None /\ rows[i].end <= anew.start
      BY <2>1, <2>3
    <3>2. clock + 1 \in Nat
      BY <1>4
    <3>3. InOrder(Append(rows, anew), clock + 1) /\ OpenLast(Append(rows, anew))
      BY <1>3, <1>6, <1>7, <3>1, <3>2, OrderAppended
    <3> QED
      BY <1>4, <1>11, <3>3
  <2>5. Counts(rows', known', phase, clock')
    BY <1>1, <1>2, <1>3, <1>4, <1>7, <1>11, <2>1, CountsAnew
  <2>6. Goes(rows', clock)
    BY <1>2, <1>3, <1>4, <1>7, <1>11, <2>1, GoesAnew
  <2>7. rows' \in Seq(SessionRows) /\ rows'[Len(rows')] = anew
    BY <1>3, <1>7, <1>11, AppendIs
  <2>8. Written' = rows' /\ clock # None
    BY <1>4, <1>11 DEF Written, With, Sessions!NoneAssumption
  <2> QED
    BY <1>4, <1>7, <1>11, <2>2, <2>4, <2>5, <2>6, <2>7, <2>8 DEF Plays
<1>12. CASE /\ playing /\ Sessions!Open # {}
            /\ rows' = Sessions!Closed("selection_changed", Sessions!Open)
            /\ opening' = [start |-> clock, target |-> target] /\ stamp' = clock
  <2> DEFINE qs == Sessions!Closed("selection_changed", Sessions!Open)
  <2>1. OpenLast(rows)
    BY <1>1, <1>12, OpenFacts
  <2>2. since # None /\ since' = since /\ Goes(rows, since)
    BY <1>1, <1>2, <1>12, <2>1 DEF Plays
  <2>3. /\ qs \in Seq(SessionRows) /\ Len(qs) = Len(rows)
        /\ \A i \in 1..Len(rows) :
              /\ rows[i].end # None => qs[i] = rows[i]
              /\ rows[i].end = None => /\ qs[i].start = rows[i].start /\ qs[i].end = clock
                                       /\ qs[i].reason = "selection_changed"
                                       /\ clock \in rows[i].start..clock
    BY ClosedIs
  <2>4. rows' = qs
    BY <1>12
  <2> HIDE DEF qs, anew
  <2>15. /\ clock + 1 \in Nat /\ clock <= clock + 1 /\ known.played \subseteq Nat
        /\ Ends(rows, qs, clock, clock + 1)
    BY <1>3, <1>4, <2>3 DEF Ends
  <2>5. InOrder(qs, clock + 1) /\ \A i \in 1..Len(qs) : qs[i].end # None
    <3>1. /\ rows \in Seq(SessionRows) /\ qs \in Seq(SessionRows) /\ clock \in Nat
          /\ InOrder(rows, clock) /\ Len(qs) = Len(rows)
      BY <1>2, <1>3, <1>4, <2>3
    <3> QED
      BY <2>15, <3>1, OrderEnded
  <2>6. ASSUME NEW i \in 1..Len(qs)
        PROVE  qs[i].end <= clock
    <3>1. i \in 1..Len(rows)
      BY <2>3
    <3>2. CASE rows[i].end # None
      BY <1>2, <2>3, <3>1, <3>2 DEF InOrder
    <3>3. CASE rows[i].end = None
      BY <1>4, <2>3, <3>1, <3>3
    <3> QED
      BY <3>2, <3>3
  <2>7. \A i \in 1..Len(rows) : qs[i].start = rows[i].start
                               /\ Until(qs[i], phase, clock) = Until(rows[i], phase, clock)
    BY <1>1, <1>4, <2>3, <2>5 DEF Until
  <2>8. Counts(qs, known, phase, clock)
    BY <1>2, <1>3, <1>4, <2>3, <2>7, CountsSame
  <2>9. InOrder(Append(qs, anew), clock + 1) /\ OpenLast(Append(qs, anew))
    BY <1>4, <1>7, <2>3, <2>5, <2>6, OrderAppended
  <2>10. Counts(Append(qs, anew), known', phase, clock + 1)
    BY <1>1, <1>3, <1>4, <1>7, <1>12, <2>3, <2>5, <2>8, CountsAnew
  <2>11. Goes(Append(qs, anew), since)
    <3>1. Len(rows) \in 1..Len(rows) /\ rows[Len(rows)].end = None
      BY <1>3, <2>1 DEF OpenLast
    <3>2. /\ qs[Len(rows)].start = rows[Len(rows)].start /\ qs[Len(rows)].end = clock
          /\ qs[Len(rows)].reason = "selection_changed"
      BY <2>3, <3>1
    <3>3. \A i \in 1..(Len(rows) - 1) : qs[i] = rows[i]
      <4> SUFFICES ASSUME NEW i \in 1..(Len(rows) - 1) PROVE qs[i] = rows[i]
        OBVIOUS
      <4>1. i \in 1..Len(rows) /\ i # Len(rows)
        BY <3>1
      <4>2. rows[i].end # None
        BY <1>2, <4>1 DEF InOrder
      <4> QED
        BY <2>3, <4>1, <4>2
    <3> QED
      BY <1>2, <1>3, <1>4, <1>7, <2>1, <2>2, <2>3, <3>2, <3>3, GoesOn
  <2>12. opening' \in Openings /\ opening' # None
    BY <1>3, <1>4, <1>12 DEF Openings, Sessions!NoneAssumption
  <2>13. Written' = Append(qs, anew)
    BY <1>12, <2>4, <2>12 DEF Written, With, anew
  <2>14. Append(qs, anew)[Len(Append(qs, anew))] = anew
    BY <1>7, <2>3, AppendIs
  <2> QED
    BY <1>4, <1>7, <1>12, <2>2, <2>3, <2>4, <2>9, <2>10, <2>11, <2>12, <2>13, <2>14 DEF Plays
<1> QED
  BY <1>8, <1>9, <1>10, <1>11, <1>12

\* The second half of a replacement writes what has been counted already.
LEMMA OpenSessionKeeps ==
    ASSUME Sessions!NoneAssumption, SessionsInv, Sessions!OpenSession
    PROVE  SessionsInv'
<1> DEFINE s == Sessions!Session(opening.start, opening.target)
<1>1. /\ UNCHANGED <<clock, phase, caps, row, plays, queue, since, stamp, known>>
      /\ phase # "down" /\ opening # None /\ rows' = Append(rows, s) /\ opening' = None
  BY DEF Sessions!OpenSession, Sessions!account, Sessions!history
<1>2. SessionsTyped
  BY DEF SessionsInv
<1>3. Written = Append(rows, s) /\ Written \in Seq(SessionRows)
  BY <1>1, <1>2, WrittenIs
<1> HIDE DEF s
<1>4. Written' = Written
  BY <1>1, <1>3 DEF Written, With
<1>5. SessionsTyped'
  BY <1>1, <1>2, <1>3 DEF SessionsTyped
<1>6. InOrder(Written, clock) /\ Counts(Written, known, phase, clock) /\ Plays(Written, since, stamp)
  BY <1>1 DEF SessionsInv
<1>7. /\ InOrder(Written', clock') /\ Counts(Written', known', phase', clock')
      /\ Plays(Written', since', stamp')
  BY <1>1, <1>4, <1>6
<1> QED
  BY <1>1, <1>5, <1>7 DEF SessionsInv

LEMMA HeartbeatKeeps ==
    ASSUME Sessions!NoneAssumption, SessionsInv, Sessions!Heartbeat
    PROVE  SessionsInv'
<1>1. /\ UNCHANGED <<clock, phase, caps, row, plays, queue, opening, since, known>>
      /\ phase = "up" /\ Sessions!Open # {} /\ stamp' = clock
      /\ rows' = [i \in DOMAIN rows |-> IF i \in Sessions!Open THEN [rows[i] EXCEPT !.seen = clock]
                                        ELSE rows[i]]
  BY DEF Sessions!Heartbeat, Sessions!account
<1>2. /\ SessionsTyped /\ rows \in Seq(SessionRows) /\ clock \in Nat
      /\ known \in [played : SUBSET Nat, lost : SUBSET Nat]
  BY DEF SessionsInv, SessionsTyped
<1>3. /\ \A i \in 1..Len(rows) : i \in Sessions!Open <=> rows[i].end = None
      /\ Len(rows) \in 1..Len(rows) /\ Sessions!Open = {Len(rows)} /\ opening = None
  BY <1>1, OpenFacts
<1>4. /\ Written = rows /\ InOrder(rows, clock) /\ Counts(rows, known, phase, clock)
      /\ Plays(rows, since, stamp)
  BY <1>1, <1>3 DEF SessionsInv, Written, With
<1>5. ASSUME NEW i \in 1..Len(rows)
      PROVE  /\ rows'[i] \in SessionRows /\ rows'[i].start = rows[i].start
             /\ rows'[i].end = rows[i].end /\ rows'[i].reason = rows[i].reason
             /\ i # Len(rows) => rows'[i] = rows[i]
             /\ i = Len(rows) => rows'[i].seen = clock
  <2>1. rows[i] \in SessionRows
    BY <1>2, RowTypes
  <2>2. rows'[i] = IF i = Len(rows) THEN [rows[i] EXCEPT !.seen = clock] ELSE rows[i]
    BY <1>1, <1>2, <1>3
  <2> QED
    BY <1>2, <2>1, <2>2 DEF SessionRows
<1>6. rows' \in Seq(SessionRows) /\ Len(rows') = Len(rows)
  <2>1. DOMAIN rows = 1..Len(rows) /\ Len(rows) \in Nat
    BY <1>2
  <2>2. rows' \in [1..Len(rows) -> SessionRows]
    BY <1>1, <1>5, <2>1
  <2> QED
    BY <2>1, <2>2
<1>7. Written' = rows' /\ SessionsTyped'
  BY <1>1, <1>2, <1>3, <1>6 DEF SessionsTyped, Written, With
<1>8. InOrder(rows', clock)
  <2>1. \A i \in 1..Len(rows) : rows[i].start \in Nat /\ rows[i].end \in Nat \cup {None}
    BY <1>2, RowTypes
  <2>2. rows[Len(rows)].start < clock
    BY <1>3, <1>4 DEF InOrder
  <2>3. ASSUME NEW i \in 1..Len(rows'), rows'[i].end = None
        PROVE  i = Len(rows') /\ rows'[i].start < clock /\ rows'[i].seen \in rows'[i].start..clock
    <3>1. i = Len(rows)
      BY <1>4, <1>5, <1>6, <2>3 DEF InOrder
    <3> QED
      BY <1>2, <1>3, <1>5, <1>6, <2>1, <2>2, <3>1
  <2>4. ASSUME NEW i \in 1..Len(rows'), rows'[i].end # None
        PROVE  /\ rows'[i].start <= rows'[i].end /\ rows'[i].end <= clock
               /\ rows'[i].reason = "selection_changed" => rows'[i].end < clock
    BY <1>4, <1>5, <1>6, <2>4 DEF InOrder
  <2>5. \A i, j \in 1..Len(rows') : i < j => rows'[i].end <= rows'[j].start
    BY <1>4, <1>5, <1>6 DEF InOrder
  <2> QED
    BY <2>3, <2>4, <2>5 DEF InOrder
<1>9. Counts(rows', known, phase, clock)
  <2>1. \A i \in 1..Len(rows) : rows'[i].start = rows[i].start
                               /\ Until(rows'[i], phase, clock) = Until(rows[i], phase, clock)
    BY <1>1, <1>5 DEF Until
  <2>2. known.played \subseteq Nat /\ clock <= clock
    BY <1>2
  <2> QED
    BY <1>2, <1>4, <1>6, <2>1, <2>2, CountsSame
<1>10. Plays(rows', since, clock)
  <2>1. OpenLast(rows) /\ OpenLast(rows')
    BY <1>3, <1>5, <1>6, OpenFacts DEF OpenLast
  <2>2. since # None /\ Goes(rows, since)
    BY <1>4, <2>1 DEF Plays
  <2>3. \A i \in 1..(Len(rows) - 1) : rows'[i] = rows[i]
    <3> SUFFICES ASSUME NEW i \in 1..(Len(rows) - 1) PROVE rows'[i] = rows[i]
      OBVIOUS
    <3>1. i \in 1..Len(rows) /\ i # Len(rows)
      BY <1>3
    <3> QED
      BY <1>5, <3>1
  <2>4. Goes(rows', since)
    BY <1>2, <1>3, <1>5, <1>6, <2>2, <2>3, GoesSeen
  <2> QED
    BY <1>3, <1>5, <1>6, <2>1, <2>2, <2>4 DEF Plays
<1>11. /\ InOrder(Written', clock') /\ Counts(Written', known', phase', clock')
       /\ Plays(Written', since', stamp')
  BY <1>1, <1>7, <1>8, <1>9, <1>10
<1> QED
  BY <1>1, <1>7, <1>11 DEF SessionsInv

\* What the sessions are without the one that was being opened
LEMMA OrderPrefix ==
    ASSUME NEW rs \in Seq(SessionRows), NEW s \in SessionRows, NEW t,
           InOrder(Append(rs, s), t)
    PROVE  InOrder(rs, t)
<1> DEFINE qs == Append(rs, s)
<1>1. /\ Len(qs) = Len(rs) + 1 /\ Len(rs) \in Nat /\ \A i \in 1..Len(rs) : qs[i] = rs[i]
      /\ InOrder(qs, t)
  BY AppendIs
<1> HIDE DEF qs
<1>2. \A i \in 1..Len(rs) : i \in 1..Len(qs) /\ i # Len(qs)
  BY <1>1
<1> QED
  BY <1>1, <1>2 DEF InOrder

LEMMA HeldIs ==
    ASSUME SessionsInv, row' \in {row} \cup Sessions!Held
    PROVE  row' \in AccountRows
<1>1. row \in AccountRows
  BY DEF SessionsInv, SessionsTyped
<1>2. Sessions!Exceeded(Head(queue).at) \in {"session_limit", "daily_limit", "weekly_limit", None}
  BY ExceededIs
<1>3. \/ row' = row \/ row' = [row EXCEPT !.hold = "manual"]
      \/ row' = [row EXCEPT !.hold = Sessions!Exceeded(Head(queue).at)]
  BY DEF Sessions!Held
<1> QED
  BY <1>1, <1>2, <1>3 DEF AccountRows

LEMMA CrashKeeps ==
    ASSUME Sessions!NoneAssumption, SessionsInv, Sessions!Crash
    PROVE  SessionsInv'
<1>1. /\ UNCHANGED <<clock, caps, rows>> /\ phase # "down" /\ phase' = "down"
      /\ plays' = None /\ queue' = <<>> /\ opening' = None /\ since' = None /\ stamp' = 0
      /\ row' \in {row} \cup Sessions!Held
      /\ known' = [known EXCEPT !.lost = IF since = None THEN known.lost
                     ELSE known.lost \cup {t \in known.played : t >= Sessions!Unwritten}]
  <2>1. known \in [played : SUBSET Nat, lost : SUBSET Nat]
    BY DEF SessionsInv, SessionsTyped
  <2> QED
    BY <2>1 DEF Sessions!Crash, Sessions!Gone
<1>2. /\ SessionsTyped /\ rows \in Seq(SessionRows) /\ clock \in Nat
      /\ known \in [played : SUBSET Nat, lost : SUBSET Nat]
      /\ InOrder(Written, clock) /\ Counts(Written, known, phase, clock)
      /\ Plays(Written, since, stamp) /\ opening \in Openings \cup {None}
  BY <1>1 DEF SessionsInv, SessionsTyped
<1>3. Written \in Seq(SessionRows)
  BY <1>2, WrittenIs
<1>4. /\ known' \in [played : SUBSET Nat, lost : SUBSET Nat] /\ known'.played = known.played
      /\ since = None => known' = known
      /\ since # None => known'.lost = known.lost \cup {t \in known.played : t >= Sessions!Unwritten}
  BY <1>1, <1>2
<1>5. Counts(Written, known', "down", clock)
  <2>1. CASE since = None
    <3>1. ~OpenLast(Written)
      BY <1>2, <2>1 DEF Plays
    <3>2. \A i \in 1..Len(Written) : Written[i].end # None
      BY <1>2, <1>3, <3>1, AllEnded
    <3>3. clock <= clock
      BY <1>2
    <3> QED
      BY <1>2, <1>4, <2>1, <3>2, <3>3, CountsIdle
  <2>2. CASE since # None
    <3>1. OpenLast(Written)
      BY <1>2, <2>2 DEF Plays
    <3>2. Written[Len(Written)].seen = Sessions!Unwritten
      <4>1. CASE opening = None
        BY <1>2, <2>2, <4>1 DEF Plays, Sessions!Unwritten
      <4>2. CASE opening # None
        BY <1>2, <4>2, WrittenIs DEF Sessions!Unwritten
      <4> QED
        BY <4>1, <4>2
    <3> DEFINE l == known'
               m == Sessions!Unwritten
    <3>3. /\ l.played = known.played /\ l.lost = known.lost \cup {x \in known.played : x >= m}
          /\ Written[Len(Written)].seen = m
      BY <1>4, <2>2, <3>2
    <3> HIDE DEF l, m
    <3>4. Counts(Written, l, "down", clock)
      BY <1>1, <1>2, <1>3, <3>1, <3>3, CountsLost
    <3> QED
      BY <3>4 DEF l
  <2> QED
    BY <2>1, <2>2
<1>6. InOrder(rows, clock) /\ Counts(rows, known', "down", clock)
  <2>1. CASE opening = None
    BY <1>2, <1>5, <2>1 DEF Written, With
  <2>2. CASE opening # None
    <3> DEFINE s == Sessions!Session(opening.start, opening.target)
    <3>1. /\ s \in SessionRows /\ s.start = opening.start /\ s.seen = opening.start
          /\ s.end = None /\ Written = Append(rows, s)
      BY <1>2, <2>2, WrittenIs
    <3> HIDE DEF s
    <3>2. InOrder(rows, clock)
      BY <1>2, <3>1, OrderPrefix
    <3>3. Counts(rows, known', "down", clock)
      BY <1>2, <1>5, <3>1, CountsNever
    <3> QED
      BY <3>2, <3>3
  <2> QED
    BY <2>1, <2>2
<1>7. Written' = rows
  BY <1>1 DEF Written, With
<1>8. row' \in AccountRows
  BY <1>1, HeldIs
<1>9. SessionsTyped'
  BY <1>1, <1>2, <1>4, <1>8 DEF SessionsTyped
<1>10. InOrder(Written', clock') /\ Counts(Written', known', phase', clock')
  BY <1>1, <1>6, <1>7
<1> QED
  BY <1>1, <1>9, <1>10 DEF SessionsInv

LEMMA FinishShutdownKeeps ==
    ASSUME Sessions!NoneAssumption, SessionsInv, Sessions!FinishShutdown
    PROVE  SessionsInv'
<1> DEFINE qs == Sessions!Closed("status", Sessions!Open)
<1>1. /\ UNCHANGED <<clock, caps, known>> /\ phase = "stopping" /\ phase' = "down"
      /\ opening = None /\ rows' = qs
      /\ plays' = None /\ queue' = <<>> /\ opening' = None /\ since' = None /\ stamp' = 0
      /\ row' = [row EXCEPT !.boosting = FALSE]
  BY DEF Sessions!FinishShutdown, Sessions!Gone
<1>2. /\ SessionsTyped /\ rows \in Seq(SessionRows) /\ clock \in Nat /\ row \in AccountRows
      /\ known \in [played : SUBSET Nat, lost : SUBSET Nat]
      /\ Written = rows /\ InOrder(rows, clock) /\ Counts(rows, known, phase, clock)
  BY <1>1 DEF SessionsInv, SessionsTyped, Written, With
<1>3. /\ qs \in Seq(SessionRows) /\ Len(qs) = Len(rows)
      /\ \A i \in 1..Len(rows) :
            /\ rows[i].end # None => qs[i] = rows[i]
            /\ rows[i].end = None => /\ qs[i].start = rows[i].start /\ qs[i].end = clock
                                     /\ qs[i].reason = "status"
                                     /\ clock \in rows[i].start..clock
  BY ClosedIs
<1> HIDE DEF qs
<1>4. Ends(rows, qs, clock, clock) /\ clock <= clock /\ known.played \subseteq Nat
  BY <1>2, <1>3 DEF Ends
<1>5. InOrder(qs, clock) /\ \A i \in 1..Len(qs) : qs[i].end # None
  BY <1>2, <1>3, <1>4, OrderEnded
<1>6. \A i \in 1..Len(rows) : qs[i].start = rows[i].start
                             /\ Until(qs[i], "down", clock) = Until(rows[i], phase, clock)
  BY <1>1, <1>3, <1>5 DEF Until
<1>7. Counts(qs, known, "down", clock)
  BY <1>2, <1>3, <1>4, <1>6, CountsSame
<1>8. Written' = qs /\ SessionsTyped'
  <2>1. row' \in AccountRows
    BY <1>1, <1>2 DEF AccountRows
  <2> QED
    BY <1>1, <1>2, <1>3, <2>1 DEF SessionsTyped, Written, With
<1>9. InOrder(Written', clock') /\ Counts(Written', known', phase', clock')
  BY <1>1, <1>5, <1>7, <1>8
<1> QED
  BY <1>1, <1>8, <1>9 DEF SessionsInv

LEMMA RestartKeeps ==
    ASSUME Sessions!NoneAssumption, SessionsInv, Sessions!Boot
    PROVE  SessionsInv'
<1>1. /\ UNCHANGED <<clock, caps, row, plays, queue, opening, since, stamp, known>>
      /\ phase = "down" /\ phase' = "up" /\ since = None /\ opening = None
      /\ rows' = [i \in DOMAIN rows |->
            IF i \in Sessions!Open
            THEN Sessions!Ended(rows[i], Sessions!InterruptedAt(rows[i]), "interrupted")
            ELSE rows[i]]
  BY DEF Sessions!Boot, Sessions!account, Sessions!history, SessionsInv
<1>2. /\ SessionsTyped /\ rows \in Seq(SessionRows) /\ clock \in Nat
      /\ known \in [played : SUBSET Nat, lost : SUBSET Nat]
      /\ Written = rows /\ InOrder(rows, clock) /\ Counts(rows, known, phase, clock)
  BY <1>1 DEF SessionsInv, SessionsTyped, Written, With
<1>3. ASSUME NEW i \in 1..Len(rows)
      PROVE  /\ rows'[i] \in SessionRows
             /\ rows[i].end # None => rows'[i] = rows[i]
             /\ rows[i].end = None => /\ rows'[i].start = rows[i].start
                                      /\ rows'[i].end = rows[i].seen
                                      /\ rows'[i].end \in rows[i].start..clock
                                      /\ rows'[i].reason = "interrupted"
  <2>1. rows[i] \in SessionRows /\ rows[i].start \in Nat
    BY <1>2, RowTypes
  <2>2. i \in Sessions!Open <=> rows[i].end = None
    BY OpenFacts
  <2>3. CASE rows[i].end # None
    BY <1>1, <1>2, <2>1, <2>2, <2>3
  <2>4. CASE rows[i].end = None
    <3>1. rows[i].seen \in rows[i].start..clock
      BY <1>2, <2>4 DEF InOrder
    <3>2. Sessions!InterruptedAt(rows[i]) = rows[i].seen
      BY <2>1, <3>1 DEF Sessions!InterruptedAt, Sessions!Max
    <3>3. rows'[i] = Sessions!Ended(rows[i], rows[i].seen, "interrupted")
      BY <1>1, <1>2, <2>2, <2>4, <3>2
    <3>4. rows[i].seen \in Nat
      BY <1>2, <2>1, <3>1
    <3> DEFINE e == Sessions!Ended(rows[i], rows[i].seen, "interrupted")
    <3>5. /\ e \in SessionRows /\ e.start = rows[i].start /\ e.end = rows[i].seen
          /\ e.reason = "interrupted"
      <4> DEFINE seen == rows[i].seen
                 row0 == rows[i]
      <4>1. row0 \in SessionRows /\ seen \in Nat
        BY <2>1, <3>4
      <4> HIDE DEF seen, row0
      <4>2. LET x == Sessions!Ended(row0, seen, "interrupted")
            IN  /\ x \in SessionRows /\ x.start = row0.start /\ x.end = seen
                /\ x.reason = "interrupted"
        BY <4>1, EndedIs
      <4> QED
        BY <4>2 DEF seen, row0
    <3>6. rows'[i] = e
      BY <3>3
    <3> HIDE DEF e
    <3> QED
      BY <2>4, <3>1, <3>5, <3>6
  <2> QED
    BY <2>3, <2>4
<1>4. rows' \in Seq(SessionRows) /\ Len(rows') = Len(rows)
  <2>1. DOMAIN rows = 1..Len(rows) /\ Len(rows) \in Nat
    BY <1>2
  <2>2. rows' \in [1..Len(rows) -> SessionRows]
    BY <1>1, <1>3, <2>1
  <2> QED
    BY <2>1, <2>2
<1>5. Ends(rows, rows', clock, clock) /\ clock <= clock /\ known.played \subseteq Nat
  BY <1>2, <1>3, <1>4 DEF Ends
<1>6. InOrder(rows', clock) /\ \A i \in 1..Len(rows') : rows'[i].end # None
  BY <1>2, <1>4, <1>5, OrderEnded
<1>7. ASSUME NEW i \in 1..Len(rows)
      PROVE  /\ rows'[i].start = rows[i].start
             /\ Until(rows'[i], "up", clock) = Until(rows[i], phase, clock)
  <2>1. rows'[i].end # None
    BY <1>4, <1>6
  <2>2. Until(rows'[i], "up", clock) = rows'[i].end
    BY <2>1 DEF Until
  <2>3. Until(rows[i], phase, clock) = IF rows[i].end = None THEN rows[i].seen ELSE rows[i].end
    BY <1>1 DEF Until
  <2> QED
    BY <1>3, <2>2, <2>3
<1>8. Counts(rows', known, "up", clock)
  BY <1>2, <1>4, <1>5, <1>7, CountsSame
<1>9. Plays(rows', None, stamp)
  BY <1>6, <1>4 DEF Plays, OpenLast
<1>10. Written' = rows' /\ SessionsTyped'
  BY <1>1, <1>2, <1>4 DEF SessionsTyped, Written, With
<1>11. InOrder(Written', clock') /\ Counts(Written', known', phase', clock')
       /\ Plays(Written', since', stamp')
  BY <1>1, <1>6, <1>8, <1>9, <1>10
<1> QED
  BY <1>1, <1>10, <1>11 DEF SessionsInv

LEMMA SessionsInit ==
    ASSUME Sessions!BoostAssumption, Sessions!Init
    PROVE  SessionsInv
<1>1. /\ clock = 0 /\ phase = "up" /\ caps \in CapSets /\ Last \in Nat
      /\ row = [boosting |-> FALSE, desired |-> "running", hold |-> None]
      /\ plays = None /\ queue = <<>> /\ rows = <<>> /\ opening = None
      /\ since = None /\ stamp = 0 /\ known = [played |-> {}, lost |-> {}]
  BY DEF Sessions!Init, Sessions!BoostAssumption
<1>2. SessionsTyped /\ Written = <<>>
  BY <1>1 DEF SessionsTyped, AccountRows, Written, With
<1>3. InOrder(<<>>, 0) /\ Counts(<<>>, known, "up", 0) /\ Plays(<<>>, None, 0)
  BY <1>1 DEF InOrder, Counts, Plays, OpenLast
<1> QED
  BY <1>1, <1>2, <1>3 DEF SessionsInv

LEMMA SessionsNext ==
    ASSUME Sessions!BoostAssumption, Sessions!NoneAssumption, SessionsInv,
           [Sessions!Next]_Sessions!vars
    PROVE  SessionsInv'
<1>1. CASE UNCHANGED Sessions!vars
  BY <1>1 DEF Sessions!vars, SessionsInv, SessionsTyped, Written, With, Plays, Counts
<1>2. CASE Sessions!Next
  BY <1>2, CommandsKeep, ProcessStatusKeeps, OpenSessionKeeps, HeartbeatKeeps, TimeKeeps,
     RunOperationKeeps, CrashKeeps, FinishShutdownKeeps, RestartKeeps DEF Sessions!Next
<1> QED
  BY <1>1, <1>2

(***************************************************************************)
(* What the invariant says                                                 *)
(***************************************************************************)

\* The instants of the rows are those at which the account played.
LEMMA InstantsAre ==
    ASSUME Sessions!NoneAssumption, SessionsInv, phase # "down", opening = None
    PROVE  /\ UNION {Sessions!Instants(rows[i]) : i \in DOMAIN rows} = known.played \ known.lost
           /\ \A x \in known.played \ known.lost :
                 \E i \in 1..Len(rows) : rows[i].start <= x /\ (rows[i].end # None => x < rows[i].end)
           /\ \A x \in Nat, i \in 1..Len(rows) :
                 x < clock /\ rows[i].start <= x /\ (rows[i].end # None => x < rows[i].end)
                 => x \in known.played \ known.lost
<1>1. /\ rows \in Seq(SessionRows) /\ clock \in Nat /\ Written = rows
      /\ known \in [played : SUBSET Nat, lost : SUBSET Nat] /\ Counts(rows, known, phase, clock)
  BY DEF SessionsInv, SessionsTyped, Written, With
<1>2. \A i \in 1..Len(rows) : rows[i].start \in Nat /\ rows[i].end \in Nat \cup {None}
  BY <1>1, RowTypes
<1>3. \A x \in Nat :
          x \in known.played \ known.lost <=>
              \E i \in 1..Len(rows) : rows[i].start <= x /\ x < Until(rows[i], phase, clock)
  BY <1>1 DEF Counts
<1>4. ASSUME NEW i \in 1..Len(rows)
      PROVE  \A x : x \in Sessions!Instants(rows[i]) <=>
                x \in Nat /\ rows[i].start <= x /\ x < Until(rows[i], phase, clock)
  BY <1>1, <1>2 DEF Sessions!Instants, Until
<1>5. \A x : x \in UNION {Sessions!Instants(rows[i]) : i \in DOMAIN rows} <=>
                \E i \in 1..Len(rows) : x \in Sessions!Instants(rows[i])
  BY <1>1
<1>6. known.played \ known.lost \subseteq Nat
  BY <1>1
<1>7. \A x : x \in UNION {Sessions!Instants(rows[i]) : i \in DOMAIN rows}
             <=> x \in known.played \ known.lost
  BY <1>3, <1>4, <1>5, <1>6
<1>8. ASSUME NEW x \in known.played \ known.lost
      PROVE  \E i \in 1..Len(rows) : rows[i].start <= x /\ (rows[i].end # None => x < rows[i].end)
  <2>1. PICK i \in 1..Len(rows) : rows[i].start <= x /\ x < Until(rows[i], phase, clock)
    BY <1>3, <1>6
  <2> QED
    BY <2>1 DEF Until
<1>9. ASSUME NEW x \in Nat, NEW i \in 1..Len(rows), x < clock, rows[i].start <= x,
             rows[i].end # None => x < rows[i].end
      PROVE  x \in known.played \ known.lost
  <2>1. x < Until(rows[i], phase, clock)
    BY <1>9 DEF Until
  <2> QED
    BY <1>3, <1>9, <2>1
<1> QED
  BY <1>7, <1>8, <1>9

\* sumOverlap counts no instant twice: no two sessions hold the same.
LEMMA OverlapIs ==
    ASSUME Sessions!NoneAssumption, SessionsInv, phase # "down", opening = None
    PROVE  Sessions!Overlap(0, clock) = Sessions!Cardinality(known.played \ known.lost)
<1> DEFINE holds(s, x) == s.start <= x /\ (s.end # None => x < s.end)
           T == {p \in (1..Len(rows)) \X (0..(clock - 1)) : holds(rows[p[1]], p[2])}
           K == known.played \ known.lost
           f == [p \in T |-> p[2]]
<1>1. /\ rows \in Seq(SessionRows) /\ clock \in Nat /\ Written = rows /\ InOrder(rows, clock)
      /\ known \in [played : SUBSET Nat, lost : SUBSET Nat] /\ Counts(rows, known, phase, clock)
  BY DEF SessionsInv, SessionsTyped, Written, With
<1>2. \A i \in 1..Len(rows) : rows[i].start \in Nat /\ rows[i].end \in Nat \cup {None}
  BY <1>1, RowTypes
<1>3. Sessions!Overlap(0, clock) = Cardinality(T)
  <2>1. DOMAIN rows = 1..Len(rows)
    BY <1>1
  <2>2. Sessions!Overlap(0, clock) = Sessions!Cardinality(T)
    BY <2>1 DEF Sessions!Overlap
  <2> QED
    BY <2>2, CountIs
<1>4. K \subseteq 0..(clock - 1) /\ IsFiniteSet(K)
  <2>1. K \subseteq 0..(clock - 1)
    BY <1>1 DEF Counts
  <2>2. IsFiniteSet(0..(clock - 1))
    BY <1>1, FS_Interval
  <2> QED
    BY <2>1, <2>2, FS_Subset
<1>5. ASSUME NEW p \in T
      PROVE  p[2] \in K /\ p[1] \in 1..Len(rows) /\ holds(rows[p[1]], p[2]) /\ p = <<p[1], p[2]>>
  <2>1. /\ p[1] \in 1..Len(rows) /\ p[2] \in Nat /\ p[2] < clock /\ holds(rows[p[1]], p[2])
        /\ p = <<p[1], p[2]>>
    BY <1>1
  <2> QED
    BY <2>1, InstantsAre
<1>6. ASSUME NEW x \in K PROVE \E p \in T : p[2] = x
  <2>1. PICK i \in 1..Len(rows) : holds(rows[i], x)
    BY InstantsAre
  <2>2. <<i, x>> \in T
    BY <1>4, <2>1
  <2> QED
    BY <2>2
<1>7. ASSUME NEW p \in T, NEW q \in T, p[2] = q[2] PROVE p = q
  <2>1. ASSUME NEW i \in 1..Len(rows), NEW j \in 1..Len(rows), NEW x \in Nat,
               i < j, holds(rows[i], x), holds(rows[j], x)
        PROVE  FALSE
    <3>1. rows[i].end # None /\ rows[i].end <= rows[j].start
      BY <1>1, <2>1 DEF InOrder
    <3> QED
      BY <1>2, <2>1, <3>1
  <2>2. p[2] \in Nat
    BY <1>1
  <2>3. p[1] = q[1]
    BY <1>5, <1>7, <2>1, <2>2
  <2> QED
    BY <1>5, <1>7, <2>3
<1>8. f \in Bijection(T, K)
  <2> HIDE DEF T, K
  <2>1. f \in [T -> K] /\ \A p \in T : f[p] = p[2]
    BY <1>5
  <2>2. f \in Injection(T, K)
    <3>1. \A p, q \in T : f[p] = f[q] => p = q
      BY <1>7, <2>1
    <3> HIDE DEF f
    <3> QED
      BY <2>1, <3>1 DEF Injection, IsInjective
  <2>3. f \in Surjection(T, K)
    BY <1>6, <2>1 DEF Surjection
  <2> QED
    BY <2>2, <2>3 DEF Bijection
<1> HIDE DEF T, f
<1>9. ExistsBijection(K, T)
  <2>1. ExistsBijection(T, K)
    BY <1>8, Fun_ExistsBij
  <2> QED
    BY <2>1, Fun_ExistsBijSymmetric
<1>10. Cardinality(T) = Cardinality(K)
  BY <1>4, <1>9, FS_Bijection
<1> QED
  BY <1>3, <1>10, CountIs

IsOver(S, f) == f = [i \in S |-> f[i]]

\* A recursion that goes down from the end has one solution.
LEMMA OneSolution ==
    ASSUME NEW n \in Nat, NEW f, NEW g, IsOver(1..(n + 1), f), IsOver(1..(n + 1), g),
           f[n + 1] = g[n + 1], \A i \in 1..n : f[i + 1] = g[i + 1] => f[i] = g[i]
    PROVE  f = g
<1> DEFINE D == {i \in 1..(n + 1) : f[i] # g[i]}
           R == {p \in D \X D : p[1] >= p[2]}
<1>1. SUFFICES ASSUME D # {} PROVE FALSE
  BY DEF IsOver
<1>2. D \subseteq 1..(n + 1) /\ IsFiniteSet(D)
  <2>1. 1 \in Int /\ n + 1 \in Int
    OBVIOUS
  <2>2. IsFiniteSet(1..(n + 1))
    BY <2>1, FS_Interval
  <2> QED
    BY <2>2, FS_Subset
<1>3. /\ \A x \in D : <<x, x>> \in R
      /\ \A x, y \in D : <<x, y>> \in R <=> x >= y
  BY <1>2
<1>4. /\ \A x, y \in D : <<x, y>> \in R \/ <<y, x>> \in R
      /\ \A x, y, z \in D : <<x, y>> \in R /\ <<y, z>> \in R => <<x, z>> \in R
  <2> HIDE DEF R, D
  <2> QED
    BY <1>2, <1>3
<1> HIDE DEF R
<1>5. PICK m \in D : \A y \in D : <<m, y>> \in R
  <2> HIDE DEF D
  <2> QED
    BY <1>1, <1>2, <1>3, <1>4, GreatestExists
<1>6. m \in 1..n /\ m + 1 \in 1..(n + 1) /\ m + 1 \notin D
  <2>1. m \in 1..(n + 1) /\ m # n + 1
    OBVIOUS
  <2>2. ASSUME m + 1 \in D PROVE FALSE
    <3>1. <<m, m + 1>> \in R
      BY <1>5, <2>2
    <3>2. m >= m + 1
      BY <1>3, <2>2, <3>1
    <3> QED
      BY <2>1, <3>2
  <2> QED
    BY <2>1, <2>2
<1>7. f[m + 1] = g[m + 1]
  BY <1>6
<1>8. f[m] = g[m]
  BY <1>6, <1>7
<1> QED
  BY <1>8

\* continuousSessionMs goes back to when the account began to play.
LEMMA ContinuousIs ==
    ASSUME Sessions!NoneAssumption, SessionsInv, phase # "down", opening = None
    PROVE  Sessions!Continuous(clock) = IF since = None THEN 0 ELSE clock - since
<1> DEFINE L == Len(rows)
           first == Sessions!Min({rows[j].start : j \in Sessions!Open})
           B(f) == [i \in 1..Len(rows) + 1 |->
                      IF i = Len(rows) + 1
                      THEN Sessions!Min({rows[j].start : j \in Sessions!Open})
                      ELSE IF Sessions!Continues(rows[i], f[i + 1]) THEN rows[i].start
                      ELSE f[i + 1]]
           from == CHOOSE f : f = B(f)
<1>1. Sessions!Continuous(clock) =
        IF Sessions!Open = {} THEN 0 ELSE Sessions!Max({0, clock - from[1]})
  BY DEF Sessions!Continuous
<1>2. /\ rows \in Seq(SessionRows) /\ clock \in Nat /\ Written = rows /\ InOrder(rows, clock)
      /\ Plays(rows, since, stamp) /\ since \in Nat \cup {None}
  BY DEF SessionsInv, SessionsTyped, Written, With
<1>3. /\ since # None <=> Sessions!Open # {}
      /\ Sessions!Open # {} => L \in 1..L /\ Sessions!Open = {L} /\ OpenLast(rows)
  BY <1>2, OpenFacts DEF Plays
<1>4. CASE since = None
  BY <1>1, <1>3, <1>4
<1>5. CASE since # None
  <2>1. L \in 1..L /\ L \in Nat /\ Sessions!Open = {L} /\ rows[L].end = None
    BY <1>2, <1>3, <1>5 DEF OpenLast
  <2>2. PICK c \in 1..L :
          /\ rows[c].start = since
          /\ \A i \in c..(L - 1) : Sessions!Continues(rows[i], rows[i + 1].start)
          /\ \A i \in 1..(c - 1) : ~Sessions!Continues(rows[i], since)
    BY <1>2, <1>5 DEF Plays, Goes
  <2>3. \A i \in 1..L : rows[i].start \in Nat /\ rows[i].end \in Nat \cup {None}
    BY <1>2, RowTypes
  <2>4. first = rows[L].start
    <3>1. {rows[j].start : j \in Sessions!Open} = {rows[L].start}
      BY <2>1
    <3> QED
      BY <2>1, <2>3, <3>1 DEF Sessions!Min
  <2> DEFINE at(i) == IF i > L THEN rows[L].start ELSE IF i >= c THEN rows[i].start ELSE since
             w == [i \in 1..(L + 1) |-> at(i)]
  <2>5. \A i \in 1..(L + 1) : w[i] = at(i)
    OBVIOUS
  <2>6. ASSUME NEW i \in 1..L
        PROVE  w[i] = IF Sessions!Continues(rows[i], w[i + 1]) THEN rows[i].start ELSE w[i + 1]
    <3>1. w[i] = at(i) /\ w[i + 1] = at(i + 1)
      BY <2>1, <2>5
    <3> HIDE DEF w
    <3>2. CASE i = L
      <4>1. w[i + 1] = rows[L].start /\ w[i] = rows[L].start
        BY <2>1, <3>1, <3>2
      <4>2. rows[L].end # rows[L].start
        BY <2>1, <2>3 DEF Sessions!NoneAssumption
      <4> QED
        BY <3>2, <4>1, <4>2 DEF Sessions!Continues
    <3>3. CASE i # L /\ i >= c
      <4>1. w[i] = rows[i].start /\ w[i + 1] = rows[i + 1].start /\ i \in c..(L - 1)
        BY <2>1, <3>1, <3>3
      <4> QED
        BY <2>2, <4>1
    <3>4. CASE i # L /\ i < c
      <4>1. w[i] = since /\ w[i + 1] = since /\ i \in 1..(c - 1)
        <5>1. i + 1 = c \/ i + 1 < c
          BY <2>1, <3>4
        <5>2. ~(i + 1 > L) /\ ~(i > L) /\ ~(i >= c)
          BY <2>1, <3>4
        <5> QED
          BY <2>1, <2>2, <3>1, <3>4, <5>1, <5>2
      <4> QED
        BY <2>2, <4>1
    <3> QED
      BY <2>1, <3>2, <3>3, <3>4
  <2>7. w[L + 1] = first
    BY <2>1, <2>4, <2>5
  <2>8. w = B(w)
    <3>1. \A i \in 1..(L + 1) : i # L + 1 => i \in 1..L
      BY <2>1
    <3>2. \A i \in 1..(L + 1) : w[i] = B(w)[i]
      BY <2>6, <2>7, <3>1
    <3>3. DOMAIN w = 1..(L + 1) /\ DOMAIN B(w) = 1..(L + 1)
      OBVIOUS
    <3>4. w = [i \in 1..(L + 1) |-> w[i]] /\ B(w) = [i \in 1..(L + 1) |-> B(w)[i]]
      OBVIOUS
    <3> HIDE DEF w, B
    <3> QED
      BY <3>2, <3>4
  <2>9. from = B(from)
    <3> HIDE DEF w, B
    <3> QED
      BY <2>8
  <2>10. from = w
    <3> HIDE DEF from
    <3> DEFINE g == from
    <3>1. /\ IsOver(1..(L + 1), g) /\ g[L + 1] = first
          /\ \A i \in 1..L : g[i] = IF Sessions!Continues(rows[i], g[i + 1]) THEN rows[i].start
                                   ELSE g[i + 1]
      <4>1. g = B(g)
        BY <2>9
      <4> HIDE DEF g
      <4>2. \A i \in 1..(L + 1) : g[i] = B(g)[i]
        BY <4>1
      <4>3. IsOver(1..(L + 1), g)
        BY <4>1 DEF IsOver
      <4>4. L + 1 \in 1..(L + 1) /\ B(g)[L + 1] = first
        BY <2>1
      <4>5. ASSUME NEW i \in 1..L
            PROVE  B(g)[i] = IF Sessions!Continues(rows[i], g[i + 1]) THEN rows[i].start
                             ELSE g[i + 1]
        <5>1. i \in 1..(L + 1) /\ i # L + 1
          BY <2>1
        <5> QED
          BY <5>1
      <4>6. \A i \in 1..L : i \in 1..(L + 1)
        BY <2>1
      <4> HIDE DEF B, first
      <4> QED
        BY <4>2, <4>3, <4>4, <4>5, <4>6
    <3>2. IsOver(1..(L + 1), w)
      BY DEF IsOver
    <3> HIDE DEF w, g, first
    <3>3. \A i \in 1..L : g[i + 1] = w[i + 1] => g[i] = w[i]
      BY <2>6, <3>1
    <3>4. g = w
      BY <2>1, <2>7, <3>1, <3>2, <3>3, OneSolution
    <3> QED
      BY <3>4 DEF g
  <2>11. from[1] = since
    <3>1. w[1] = since
      <4>1. w[1] = at(1) /\ ~(1 > L)
        BY <2>1, <2>5
      <4>2. 1 >= c => c = 1
        BY <2>1
      <4> HIDE DEF w
      <4> QED
        BY <2>2, <4>1, <4>2
    <3> HIDE DEF from, w
    <3> QED
      BY <2>10, <3>1
  <2>12. since \in Nat /\ since <= clock
    <3>1. rows[L].start < clock
      BY <1>2, <2>1 DEF InOrder
    <3>2. c # L => rows[c].end # None /\ rows[c].start <= rows[c].end /\ rows[c].end <= rows[L].start
      BY <1>2, <2>1 DEF InOrder
    <3> QED
      BY <1>2, <2>1, <2>2, <2>3, <3>1, <3>2
  <2>13. Sessions!Max({0, clock - since}) = clock - since
    <3> DEFINE d == clock - since
    <3>1. d \in Nat
      BY <1>2, <2>12
    <3> HIDE DEF d
    <3>2. Sessions!Max({0, d}) = d
      BY <3>1 DEF Sessions!Max
    <3> QED
      BY <3>2 DEF d
  <2> HIDE DEF from
  <2> QED
    BY <1>1, <1>3, <1>5, <2>11, <2>13
<1> QED
  BY <1>4, <1>5

LEMMA SessionsInvariance ==
    ASSUME Sessions!BoostAssumption, Sessions!NoneAssumption
    PROVE  Sessions!Spec => []SessionsInv
<1>1. Sessions!Init => SessionsInv
  BY SessionsInit
<1>2. SessionsInv /\ [Sessions!Next]_Sessions!vars => SessionsInv'
  BY SessionsNext
<1> QED
  BY <1>1, <1>2, PTL DEF Sessions!Spec

\* At most one session of an account is open, and none while one is being replaced
\* (trackBoostSession, endBoostSession), and only what was played was lost.
THEOREM SessionsTypeCorrect ==
    ASSUME Sessions!BoostAssumption, Sessions!NoneAssumption
    PROVE  Sessions!Spec => []Sessions!TypeOK
<1>1. ASSUME SessionsInv PROVE Sessions!TypeOK
  <2>1. Sessions!Cardinality({}) = 0 /\ \A x : Sessions!Cardinality({x}) = 1
    BY CountIs, FS_EmptySet, FS_Singleton
  <2>2. Sessions!Cardinality(Sessions!Open) <= IF opening = None THEN 1 ELSE 0
    <3>1. CASE Sessions!Open = {}
      BY <2>1, <3>1
    <3>2. CASE Sessions!Open = {Len(rows)} /\ Len(rows) \in 1..Len(rows)
      <4>1. opening = None
        BY <1>1, <3>2, OpenFacts
      <4>2. Sessions!Cardinality({Len(rows)}) = 1
        BY <2>1
      <4> QED
        BY <3>2, <4>1, <4>2
    <3> QED
      BY <1>1, <3>1, <3>2, OpenFacts
  <2>3. {"session_limit", "daily_limit", "weekly_limit"} \subseteq Sessions!Range(Sessions!Reasons)
    BY DEF Sessions!Range, Sessions!Reasons
  <2>4. SessionsTyped /\ known.lost \subseteq known.played
    BY <1>1 DEF SessionsInv, Counts
  <2> QED
    BY <2>2, <2>3, <2>4 DEF Sessions!TypeOK, SessionsTyped, AccountRows
<1> QED
  BY <1>1, SessionsInvariance, PTL

\* The rows say when the account played, for the caps and for the statistics: no instant
\* is missing but those that a crash lost, none is counted twice, and the time of a
\* session goes on through changes of games (trackBoostSession,
\* closeInterruptedBoostSessions, sumOverlap, continuousSessionMs).
THEOREM TimeIsCountedHolds ==
    ASSUME Sessions!BoostAssumption, Sessions!NoneAssumption
    PROVE  Sessions!Spec => []Sessions!TimeIsCounted
<1>1. ASSUME SessionsInv PROVE Sessions!TimeIsCounted
  BY <1>1, InstantsAre, OverlapIs, ContinuousIs DEF Sessions!TimeIsCounted
<1> QED
  BY <1>1, SessionsInvariance, PTL
=============================================================================
