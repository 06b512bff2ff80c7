--------------------------- MODULE ScheduleWindows ---------------------------
(***************************************************************************)
(* The schedules of one account and the holds that keep them off           *)
(* (apps/server/src/steam/schedule-coordinator.ts, schedule-repository.ts, *)
(* scheduler.ts, schedule-preview.ts, and what manager.ts,                 *)
(* safety-coordinator.ts and operations-repository.ts do to them).         *)
(*                                                                         *)
(* A tick per minute looks which window of which schedule wins at its      *)
(* time, starts or pauses the account and marks the windows in the rows of *)
(* the schedules. Everything that touches the account is one entry of its  *)
(* queue, hence one step here; but a tick carries the time at which it was *)
(* requested, a start may fail or be cut off by a crash before its window  *)
(* is marked, and what the process remembers is lost with it.              *)
(***************************************************************************)
EXTENDS Integers, FiniteSets, FiniteSetsExt

CONSTANTS
    Schedules,  \* the identifiers of schedules, ordered as in the code
    Plans,      \* the times a schedule may be given: weekdays, start and end
    DayLength,  \* minutes of a day
    WeekLength, \* days of a week
    MaxDelay,   \* the longest wait between two attempts (maxRetryDelayMs)
    MinNow,     \* bound: the first minute
    MaxNow,     \* bound: the last minute
    PauseLengths, \* bound: how many minutes a timed pause may last
    MaxChanges, \* bound: how often schedules are created, changed or skipped
    None        \* no window

Minutes  == 0..(DayLength - 1)
Weekdays == 0..(WeekLength - 1)

ASSUME ConstantsAssumption ==
    /\ IsFiniteSet(Schedules) /\ Schedules \subseteq Nat
    /\ DayLength \in Nat \ {0} /\ WeekLength \in Nat \ {0}
    /\ Plans \subseteq [weekdays : SUBSET Weekdays, start : Minutes, end : Minutes]
    /\ \A p \in Plans : p.start # p.end
    /\ MaxDelay \in Nat \ {0} /\ MaxChanges \in Nat
    /\ MinNow \in Nat /\ MaxNow \in Nat /\ MinNow <= MaxNow
    /\ PauseLengths \subseteq Nat \ {0}

VARIABLES
    now,        \* the minute
    db,         \* the rows: schedules, skipped windows, wish, hold, health
    mem,        \* what the process remembers
    ticks,      \* the tick in flight and the one that follows it
    run,        \* history: who made the account run
    changes     \* how often the schedules were changed

vars == <<now, db, mem, ticks, run, changes>>

(***************************************************************************)
(* Data                                                                    *)
(***************************************************************************)

Times  == MinNow..MaxNow
NoTime == -1

\* A window is known by its schedule, the day it starts, and its hours.
Windows == [schedule : Schedules, day : -1..(MaxNow + 1),
            start : Minutes, end : Minutes]

Maybe(S) == S \cup {None}

Row == [weekdays : SUBSET Weekdays, start : Minutes, end : Minutes,
        enabled : BOOLEAN, updated : Times,
        started : Maybe(Windows), stopped : Maybe(Windows)]

Reasons == {"none", "manual", "pause_until", "limit", "safety_failure"}

\* A schedule that does not exist has no row. The owner of a hold is a window, or None for an unscheduled account.
Db == [rows : [Schedules -> Maybe(Row)],
       used : SUBSET Schedules,
       skips : SUBSET Windows,
       desired : {"running", "paused", "stopped"},
       hold : Reasons, until : Times \cup {NoTime}, owner : Maybe(Windows),
       attention : BOOLEAN]

\* A failed start is remembered with its window, a failed pause without.
Failure == [kind : {"none", "start", "pause"}, window : Maybe(Windows),
            failures : 0..MaxDelay, retryAt : Times]

NoFailure == [kind |-> "none", window |-> None, failures |-> 0, retryAt |-> MinNow]

\* late: the timer of a timed pause has fired, its callback waits in the queue.
Mem == [up : BOOLEAN, active : Maybe(Windows), failed : Failure,
        timer : Times \cup {NoTime}, late : BOOLEAN]

NoMemory == [up |-> FALSE, active |-> None, failed |-> NoFailure,
             timer |-> NoTime, late |-> FALSE]

NoTicks == [at |-> NoTime, next |-> NoTime]

\* covered: a window was open when the user made the account run.
\* astray: the schedule's start was not marked, or its schedule was deleted.
Run == [by : {"nobody", "user", "schedule"}, covered : BOOLEAN, astray : BOOLEAN]

NoRun == [by |-> "nobody", covered |-> FALSE, astray |-> FALSE]

\* What stands for no window and for no row is neither.
ASSUME NoneAssumption == None \notin Windows /\ None \notin Row

(***************************************************************************)
(* Windows                                                                 *)
(***************************************************************************)

Existing(rows) == {s \in Schedules : rows[s] # None}

DayOf(t)     == t \div DayLength
MinuteOf(t)  == t % DayLength
WeekdayOf(d) == d % WeekLength

Overnight(r) == r.start > r.end

Window(s, r, day) == [schedule |-> s, day |-> day, start |-> r.start, end |-> r.end]

StartsAt(w) == w.day * DayLength + w.start
EndsAt(w)   == (IF Overnight(w) THEN w.day + 1 ELSE w.day) * DayLength + w.end

\* The days on which a window that is under way at minute t may have begun.
EvaluateScheduleWindow(s, r, t) ==
    LET today == DayOf(t)
        begunToday ==
            /\ WeekdayOf(today) \in r.weekdays
            /\ MinuteOf(t) >= r.start
            /\ Overnight(r) \/ MinuteOf(t) < r.end
        begunYesterday ==
            /\ Overnight(r)
            /\ WeekdayOf(today - 1) \in r.weekdays
            /\ MinuteOf(t) < r.end
    IN CASE begunToday     -> Window(s, r, today)
         [] begunYesterday -> Window(s, r, today - 1)
         [] OTHER          -> None

\* Mutant: exceptions are not looked up.
EvaluateSchedules_NoSkips(d, t) ==
    {EvaluateScheduleWindow(s, d.rows[s], t) :
        s \in {s \in Existing(d.rows) : d.rows[s].enabled}} \ {None}

EvaluateSchedules(d, t) ==
    {EvaluateScheduleWindow(s, d.rows[s], t) :
        s \in {s \in Existing(d.rows) : d.rows[s].enabled}} \ (d.skips \cup {None})

\* The latest start wins, then the latest change, then the identifier.
Beats(d, w, v) ==
    LET updated(x) == d.rows[x.schedule].updated
    IN \/ StartsAt(w) > StartsAt(v)
       \/ /\ StartsAt(w) = StartsAt(v)
          /\ \/ updated(w) > updated(v)
             \/ updated(w) = updated(v) /\ w.schedule >= v.schedule

SelectScheduleWinner(d, t) ==
    LET active == EvaluateSchedules(d, t)
    IN IF active = {} THEN None
       ELSE CHOOSE w \in active : \A v \in active : Beats(d, w, v)

\* The windows of the coming days that a skip may choose from.
Preview(d, s) ==
    {Window(s, d.rows[s], day) :
        day \in {day \in DayOf(now)..DayOf(MaxNow) :
                    WeekdayOf(day) \in d.rows[s].weekdays}}

(***************************************************************************)
(* Markers                                                                 *)
(***************************************************************************)

\* Mutant: only the schedules that are enabled are asked.
OpenScheduleWindows_Enabled(rows) ==
    {rows[s].started : s \in {s \in Existing(rows) :
        /\ rows[s].enabled
        /\ rows[s].started # None /\ rows[s].started # rows[s].stopped}}

OpenScheduleWindows(rows) ==
    {rows[s].started : s \in {s \in Existing(rows) :
        rows[s].started # None /\ rows[s].started # rows[s].stopped}}

MarkWindowsStopped(rows, windows) ==
    [s \in Schedules |->
        IF s \in Existing(rows) /\ rows[s].started \in windows
        THEN [rows[s] EXCEPT !.stopped = rows[s].started]
        ELSE rows[s]]

Opened(r, w) ==
    [r EXCEPT !.started = w, !.stopped = IF r.stopped = w THEN None ELSE r.stopped]

\* Mutant: the windows that were open before stay so.
CommitStartedWindow_Alone(rows, w) ==
    [rows EXCEPT ![w.schedule] = Opened(rows[w.schedule], w)]

\* One transaction: the other windows are closed, this one is opened again.
CommitStartedWindow(rows, w) ==
    LET closed == MarkWindowsStopped(rows, OpenScheduleWindows(rows) \ {w})
    IN [closed EXCEPT ![w.schedule] = Opened(closed[w.schedule], w)]

(***************************************************************************)
(* Holds, starts and pauses                                                *)
(***************************************************************************)

\* getActiveAutomationHold: a safety hold, or a recovery that needs attention.
Held(d) == d.hold # "none" \/ d.attention

SetSafetyHold(d, reason, until, owner) ==
    [d EXCEPT !.hold = reason, !.until = until, !.owner = owner]

\* Mutant: the time of a timed pause stays in the row.
ClearSafetyHold_KeepsUntil(d) == SetSafetyHold(d, "none", d.until, None)

ClearSafetyHold(d) == SetSafetyHold(d, "none", NoTime, None)

Cleared(d) == [ClearSafetyHold(d) EXCEPT !.attention = FALSE]

\* The worker's pause clears the recovery state.
Paused(d) == [d EXCEPT !.desired = "paused", !.attention = FALSE]

\* resumeNow: the worker is set running whatever it knows of Steam.
Resumed(d) == [Cleared(d) EXCEPT !.desired = "running"]

\* startNow: a worker without a token, or one that is connecting, is left alone.
Begun(d) == {Resumed(d), Cleared(d)}

ResumeOrStart(d) == IF d.desired = "paused" THEN {Resumed(d)} ELSE Begun(d)

\* pauseForSafety: the pause or its fallback works, or the operator is called.
PausedForSafety(d) ==
    {Paused(d),
     [SetSafetyHold(Paused(d), "safety_failure", NoTime, None)
        EXCEPT !.attention = TRUE]}

\* Mutant: a window that is over but still marked open owns nothing.
HoldOwner_Winner(d, m, t) == SelectScheduleWinner(d, t)

HoldOwner(d, m, t) ==
    LET winner == SelectScheduleWinner(d, t)
        open   == OpenScheduleWindows(d.rows)
    IN IF winner # None THEN winner
       ELSE IF open = {} THEN None
       ELSE IF m.active \in open THEN m.active
       ELSE CHOOSE w \in open : \A v \in open : w.schedule <= v.schedule

CanResumeHeldAccount(d, t) ==
    d.owner = None \/ d.owner = SelectScheduleWinner(d, t)

(***************************************************************************)
(* One account in a tick: the possible results, with what was done         *)
(***************************************************************************)

Result(d, m, did) == [db |-> d, mem |-> m, did |-> did]

IsBackingOff(m, kind, window, t) ==
    /\ m.failed.kind = kind /\ m.failed.window = window
    /\ t < m.failed.retryAt

RetryDelay(failures) == Min({2 ^ (failures - 1), MaxDelay})

\* The count stops where it no longer matters. The last minute stands for all the
\* time that follows it, so no wait goes beyond it.
RecordTransitionFailure(m, kind, window, t) ==
    LET again == m.failed.kind = kind /\ m.failed.window = window
        failures == IF again THEN Min({m.failed.failures + 1, MaxDelay}) ELSE 1
    IN [m EXCEPT !.failed = [kind |-> kind, window |-> window,
                             failures |-> failures,
                             retryAt |-> Min({t + RetryDelay(failures), MaxNow})]]

\* The preset is applied, the account started, the window marked. The first may
\* fail, the second may fail when the account is already set running.
StartWindow(d, m, w, t) ==
    LET failed == RecordTransitionFailure(m, "start", w, t)
        committed(e) == [e EXCEPT !.rows = CommitStartedWindow(e.rows, w)]
    IN IF IsBackingOff(m, "start", w, t) THEN {Result(d, m, "nothing")}
       ELSE {Result(d, failed, "nothing"),
            Result(Resumed(d), [failed EXCEPT !.timer = NoTime], "broken")}
            \cup
            {Result(committed(e),
                    [m EXCEPT !.active = w, !.failed = NoFailure, !.timer = NoTime],
                    "started") : e \in ResumeOrStart(d)}

\* Mutant: a tick outside all windows pauses whatever it finds.
StopAccountWindow_Always(d, m, t) ==
    {Result([Paused(d) EXCEPT
                !.rows = MarkWindowsStopped(@, OpenScheduleWindows(@))],
            [m EXCEPT !.active = None, !.failed = NoFailure, !.timer = NoTime],
            "paused")}

\* The account is paused, unless it is stopped, and its windows are marked.
StopAccountWindow(d, m, t) ==
    LET open    == OpenScheduleWindows(d.rows)
        stopped == d.desired = "stopped"
        failed  == RecordTransitionFailure(m, "pause", None, t)
        marked(e) == [e EXCEPT !.rows = MarkWindowsStopped(e.rows, open)]
        forgotten == [m EXCEPT !.active = None, !.failed = NoFailure]
    IN IF (m.active = None /\ open = {}) \/ IsBackingOff(m, "pause", None, t)
       THEN {Result(d, m, "nothing")}
       ELSE IF stopped THEN {Result(marked(d), forgotten, "paused")}
       ELSE {Result(marked(Paused(d)), [forgotten EXCEPT !.timer = NoTime], "paused"),
             Result(d, [failed EXCEPT !.timer = NoTime], "nothing"),
             Result(Paused(d), [failed EXCEPT !.timer = NoTime], "nothing")}

\* Mutant: a window that is open already is not taken over by a new process.
TransitionAccount_NoAdoption(d, m, t) ==
    LET w == SelectScheduleWinner(d, t)
    IN IF Held(d) THEN {Result(d, m, "nothing")}
       ELSE IF w = None THEN StopAccountWindow(d, m, t)
       ELSE IF w \in OpenScheduleWindows(d.rows) /\ m.active = w
       THEN {Result([d EXCEPT !.rows = CommitStartedWindow(d.rows, w)], m, "nothing")}
       ELSE StartWindow(d, m, w, t)

\* An open window is kept, or taken over by a process that has just begun.
TransitionAccount(d, m, t) ==
    LET w    == SelectScheduleWinner(d, t)
        kept == w \in OpenScheduleWindows(d.rows) /\ m.active \in {w, None}
    IN IF Held(d) THEN {Result(d, m, "nothing")}
       ELSE IF w = None THEN StopAccountWindow(d, m, t)
       ELSE IF kept
       THEN {Result([d EXCEPT !.rows = CommitStartedWindow(d.rows, w)],
                    [m EXCEPT !.active = w], "nothing")}
       ELSE StartWindow(d, m, w, t)

\* History: what a tick makes of the run.
RunAfter(did, d) ==
    CASE did = "started" /\ d.desired = "running" ->
            [by |-> "schedule", covered |-> FALSE, astray |-> FALSE]
      [] did = "broken" -> [by |-> "schedule", covered |-> FALSE, astray |-> TRUE]
      [] did = "paused" \/ (did = "started" /\ d.desired # "running") -> NoRun
      [] did = "nothing" -> IF d.desired = "running" THEN run ELSE [run EXCEPT !.by = "nobody"]

(***************************************************************************)
(* Ticks and time                                                          *)
(***************************************************************************)

Advance ==
    /\ now < MaxNow
    /\ now' = now + 1
    /\ UNCHANGED <<db, mem, ticks, run, changes>>

\* A request during a tick is remembered if it is later than the last one.
RequestTick ==
    LET latest == IF ticks.next # NoTime THEN ticks.next ELSE ticks.at
    IN /\ mem.up
       /\ IF ticks.at = NoTime
          THEN ticks' = [ticks EXCEPT !.at = now]
          ELSE now > latest /\ ticks' = [ticks EXCEPT !.next = now]
       /\ UNCHANGED <<now, db, mem, run, changes>>

RunTick(did) ==
    /\ mem.up /\ ticks.at # NoTime
    /\ ticks' = [at |-> ticks.next, next |-> NoTime]
    /\ \E r \in TransitionAccount(db, mem, ticks.at) :
        /\ r.did = did
        /\ db' = r.db /\ mem' = r.mem /\ run' = RunAfter(did, r.db)
    /\ UNCHANGED <<now, changes>>

(***************************************************************************)
(* Commands of the user, and what the worker does of its own               *)
(***************************************************************************)


Forgetting(m) == [m EXCEPT !.timer = NoTime]

\* A window is open or remembered.
Covered == OpenScheduleWindows(db.rows) # {} \/ mem.active # None

RunByUser == [by |-> "user", covered |-> Covered, astray |-> FALSE]

Start ==
    /\ mem.up
    /\ db' \in Begun(db)
    /\ mem' = Forgetting(mem)
    /\ run' = IF db'.desired = "running" THEN RunByUser ELSE run
    /\ UNCHANGED <<now, ticks, changes>>

\* resume, and resumeForFarming, which asks for no other hold than a manual one.
Resume ==
    /\ mem.up
    /\ db' = Resumed(db) /\ mem' = Forgetting(mem) /\ run' = RunByUser
    /\ UNCHANGED <<now, ticks, changes>>

Stop ==
    /\ mem.up
    /\ db' = [Cleared(db) EXCEPT !.desired = "stopped"]
    /\ mem' = Forgetting(mem) /\ run' = NoRun
    /\ UNCHANGED <<now, ticks, changes>>

\* pause, and the end of farming: a manual hold, and the window is forgotten.
Pause ==
    /\ mem.up
    /\ db' = Paused(SetSafetyHold(db, "manual", NoTime, None))
    /\ mem' = [Forgetting(mem) EXCEPT !.active = None, !.failed = NoFailure]
    /\ run' = NoRun
    /\ UNCHANGED <<now, ticks, changes>>

PauseUntil(until) ==
    /\ mem.up
    /\ db.desired = "running" /\ until - now \in PauseLengths
    /\ db' \in PausedForSafety(
                SetSafetyHold(db, "pause_until", until, HoldOwner(db, mem, now)))
    /\ mem' = [mem EXCEPT !.timer =
                IF db'.hold = "pause_until" THEN until ELSE NoTime]
    /\ UNCHANGED <<now, ticks, run, changes>>

\* The process ends when the hold is written and the account not yet paused.
PauseUntilCutOff(until) ==
    /\ mem.up
    /\ db.desired = "running" /\ until - now \in PauseLengths
    /\ db' = SetSafetyHold(db, "pause_until", until, HoldOwner(db, mem, now))
    /\ mem' = NoMemory /\ ticks' = NoTicks
    /\ UNCHANGED <<now, run, changes>>

\* SafetyCoordinator: a cap is exceeded.
EnforceCap ==
    /\ mem.up
    /\ db.desired = "running" /\ db.hold = "none"
    /\ db' \in PausedForSafety(SetSafetyHold(db, "limit", NoTime, None))
    /\ mem' = Forgetting(mem) /\ run' = NoRun
    /\ UNCHANGED <<now, ticks, changes>>

\* The worker gives up on an account, for example when its token is refused.
NeedsAttention ==
    /\ mem.up
    /\ db.desired = "running" /\ ~db.attention
    /\ db' = [db EXCEPT !.attention = TRUE]
    /\ UNCHANGED <<now, mem, ticks, run, changes>>

\* Another session of the user displaces farming: a pause without a hold.
Displaced ==
    /\ mem.up
    /\ db.desired = "running"
    /\ db' = [db EXCEPT !.desired = "paused"] /\ run' = NoRun
    /\ UNCHANGED <<now, mem, ticks, changes>>

(***************************************************************************)
(* The end of a timed pause                                                *)
(***************************************************************************)

\* One callback waits at a time: the second of two would find nothing to do.
TimerFires ==
    /\ mem.timer # NoTime /\ now >= mem.timer /\ ~mem.late
    /\ mem' = [mem EXCEPT !.timer = NoTime, !.late = TRUE]
    /\ UNCHANGED <<now, db, ticks, run, changes>>

\* The account is resumed if it is connected, and started otherwise.
Expire ==
    LET m == [mem EXCEPT !.late = FALSE]
        nothing == db' = db /\ mem' = m
    IN /\ mem.late
       /\ \/ db.hold # "pause_until" /\ nothing
          \/ db.hold = "pause_until" /\ db.until > now
             /\ db' = db /\ mem' = [m EXCEPT !.timer = db.until]
          \/ db.hold = "pause_until" /\ db.until <= now
             /\ IF db.desired = "paused" /\ CanResumeHeldAccount(db, now)
                THEN db' \in Begun(db) /\ mem' = Forgetting(m)
                ELSE db' = ClearSafetyHold(db) /\ mem' = m
       /\ UNCHANGED <<now, ticks, run, changes>>

(***************************************************************************)
(* Schedules                                                               *)
(***************************************************************************)

Change ==
    /\ mem.up /\ changes < MaxChanges
    /\ changes' = changes + 1
    /\ UNCHANGED <<now, ticks>>

Scheduled(p, enabled, started, stopped) ==
    [weekdays |-> p.weekdays, start |-> p.start, end |-> p.end,
     enabled |-> enabled, updated |-> now, started |-> started, stopped |-> stopped]

CreateSchedule(s, p, enabled) ==
    /\ Change
    /\ s \notin db.used
    /\ db' = [db EXCEPT !.used = @ \cup {s},
                        !.rows = [db.rows EXCEPT
                            ![s] = Scheduled(p, enabled, None, None)]]
    /\ UNCHANGED <<mem, run>>

UpdateSchedule(s, p, enabled) ==
    /\ Change
    /\ s \in Existing(db.rows)
    /\ LET r == db.rows[s]
       IN db' = [db EXCEPT !.rows = [db.rows EXCEPT
                    ![s] = Scheduled(p, enabled, r.started, r.stopped)]]
    /\ UNCHANGED <<mem, run>>

\* Also when its preset is deleted. The exceptions go with the schedule.
DeleteSchedule(s) ==
    /\ Change
    /\ s \in Existing(db.rows)
    /\ db' = [db EXCEPT !.rows = [db.rows EXCEPT ![s] = None],
                        !.skips = {w \in db.skips : w.schedule # s}]
    /\ run' = [run EXCEPT !.astray =
                @ \/ db.rows[s].started \in OpenScheduleWindows(db.rows)]
    /\ UNCHANGED mem

\* The first window yet to come that is not skipped; the open one is forgotten.
SkipNext(s) ==
    LET coming == {w \in Preview(db, s) : StartsAt(w) >= now /\ w \notin db.skips}
    IN /\ Change
       /\ s \in Existing(db.rows) /\ db.rows[s].enabled
       /\ \E w \in coming :
            /\ \A v \in coming : StartsAt(w) <= StartsAt(v)
            /\ db' = [db EXCEPT !.skips = @ \cup {w}]
       /\ mem' = [mem EXCEPT !.active = None, !.failed = NoFailure]
       /\ UNCHANGED run

(***************************************************************************)
(* The process                                                             *)
(***************************************************************************)

\* A crash or a shutdown: the rows stay as they are.
Exit ==
    /\ mem.up
    /\ mem' = NoMemory /\ ticks' = NoTicks
    /\ UNCHANGED <<now, db, run, changes>>

\* Mutant: the timers of timed pauses are not restored.
Restored_Nothing(d) == NoTime

Restored(d) == IF d.hold = "pause_until" THEN d.until ELSE NoTime

\* init: the schedules are reconciled before accounts are started again.
Boot(did) ==
    /\ ~mem.up
    /\ \E r \in TransitionAccount(db, mem, now) :
        /\ r.did = did
        /\ db' = r.db /\ run' = RunAfter(did, r.db)
        /\ mem' = [r.mem EXCEPT !.up = TRUE, !.timer = Restored(r.db)]
    /\ UNCHANGED <<now, ticks, changes>>

(***************************************************************************)
(* The specification                                                       *)
(***************************************************************************)

Init ==
    /\ now = MinNow
    /\ \E S \in SUBSET Schedules, p \in [Schedules -> Plans] :
        db = [rows |-> [s \in Schedules |-> IF s \notin S THEN None ELSE
                 [weekdays |-> p[s].weekdays, start |-> p[s].start, end |-> p[s].end,
                  enabled |-> TRUE, updated |-> MinNow, started |-> None, stopped |-> None]],
              used |-> S, skips |-> {}, desired |-> "stopped",
              hold |-> "none", until |-> NoTime, owner |-> None, attention |-> FALSE]
    /\ mem = NoMemory /\ ticks = NoTicks /\ run = NoRun /\ changes = 0

Dids == {"nothing", "started", "broken", "paused"}

Commands ==
    \/ Start \/ Resume \/ Stop \/ Pause
    \/ \E until \in Times : PauseUntil(until)
    \/ \E until \in Times : PauseUntilCutOff(until)
    \/ \E s \in Schedules, p \in Plans, e \in BOOLEAN : CreateSchedule(s, p, e)
    \/ \E s \in Schedules, p \in Plans, e \in BOOLEAN : UpdateSchedule(s, p, e)
    \/ \E s \in Schedules : DeleteSchedule(s)
    \/ \E s \in Schedules : SkipNext(s)

Next ==
    \/ Advance \/ RequestTick \/ TimerFires \/ Expire \/ Exit
    \/ \E did \in Dids : RunTick(did)
    \/ \E did \in Dids : Boot(did)
    \/ EnforceCap \/ NeedsAttention \/ Displaced
    \/ Commands

\* Time passes, the interval ticks, the queue is served, a process that has ended
\* is started again, and a pause that is tried again and again succeeds.
Fairness ==
    /\ WF_vars(Advance)
    /\ SF_vars(RequestTick)
    /\ SF_vars(\E did \in Dids : RunTick(did))
    /\ SF_vars(RunTick("paused") \/ Boot("paused"))
    /\ WF_vars(\E did \in Dids : Boot(did))

Spec == Init /\ [][Next]_vars /\ Fairness

(***************************************************************************)
(* Properties                                                              *)
(***************************************************************************)

\* The rows, the memory, the ticks and the histories have their types; a hold has an
\* end if and only if it is a timed pause (setSafetyHold, clearSafetyHold).
TypeOK ==
    /\ now \in Times /\ changes \in 0..MaxChanges
    /\ db \in Db /\ Existing(db.rows) \subseteq db.used
    /\ (db.hold = "pause_until") <=> (db.until # NoTime)
    /\ mem \in Mem /\ run \in Run
    /\ ticks \in [at : Times \cup {NoTime}, next : Times \cup {NoTime}]

\* The windows marked open in the rows and the window in memory are one window at
\* most, through changes, overlaps, skips, failures and restarts (commitStartedWindow,
\* activeWindows): no two schedules believe that the account runs for them.
WindowsAgree ==
    Cardinality(OpenScheduleWindows(db.rows) \cup ({mem.active} \ {None})) <= 1

\* A timed pause has its timer, or the callback of one, as long as the process runs,
\* whatever commands clear timers in between (scheduleSafetyResume, init): it would
\* keep the account off for ever, and schedules with it.
TimerIsArmed ==
    mem.up /\ db.hold = "pause_until" => mem.timer = db.until \/ mem.late

\* A step of the schedules, not of a user, a hold or a displaced session.
Ticking == ~mem.up \/ (ticks.at # NoTime /\ ticks' # ticks /\ mem'.up /\ db' # db)

TickTime == IF mem.up THEN ticks.at ELSE now

StartsByTick ==
    Ticking /\ db.desired # "running" /\ db'.desired = "running"

PausesByTick ==
    Ticking /\ db.desired = "running" /\ db'.desired = "paused"

\* Ticks respect what a user asked for. They start the account only for a window
\* that is not open yet (transitionAccount), so that what a user stops in a window
\* stays off until another begins, also after a restart; they do not pause what a
\* user started when no window was open, unless one has been opened since
\* (stopAccountWindow); and they never open a window that was skipped before it
\* began: what the preview names (skip-next, buildSchedulePreview) is what the
\* scheduler later evaluates.
TicksRespectUsers ==
    [][/\ StartsByTick =>
             SelectScheduleWinner(db, TickTime) \notin OpenScheduleWindows(db.rows)
       /\ PausesByTick => ~(run.by = "user" /\ ~run.covered)
       /\ \A w \in db.skips :
             w \in OpenScheduleWindows(db'.rows) => w \in OpenScheduleWindows(db.rows)]_vars

\* Timed pauses end, and when one does, it brings back an account that a schedule made run only
\* while a window is under way (getHoldOwner, canResumeHeldAccount), unless the
\* window was never marked or its schedule is gone.
TimedPauseEnds ==
    /\ []TimerIsArmed
    /\ [][ /\ db.hold = "pause_until" /\ db'.hold = "none"
           /\ db.desired = "paused" /\ db'.desired = "running"
           /\ run.by = "schedule" /\ run'.by = "schedule" /\ ~run.astray
           => SelectScheduleWinner(db, now) # None]_vars

RunsOutside ==
    /\ run.by = "schedule" /\ db.desired = "running"
    /\ SelectScheduleWinner(db, now) = None

\* Liveness: an account that a window made run is paused when it is over
\* (stopAccountWindow), through failed pauses, changed schedules and restarts,
\* unless a hold or a user comes first, or the window is not marked in any row.
RunEnds == RunsOutside /\ ~run.astray ~> ~RunsOutside \/ Held(db) \/ run.astray
=============================================================================
