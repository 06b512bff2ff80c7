----------------------------- MODULE CardFarming -----------------------------
(***************************************************************************)
(* Card farming of one account: the FarmingController                      *)
(* (apps/server/src/farming/controller.ts), its HTTP routes, the resume    *)
(* row and the manager's operations that it calls (steam/manager.ts).      *)
(*                                                                         *)
(* A start, a scan or a tick of the timer is an asynchronous invocation    *)
(* that waits twice for others: in the account's operation queue, and for  *)
(* Steam's badge pages.  Meanwhile the user stops, scans or changes the    *)
(* rules, and the session is lost.  The controller numbers the invocations *)
(* and every await is followed by "am I current?"; as only equality with   *)
(* the current number is asked, an invocation carries the bit "live".      *)
(***************************************************************************)
EXTENDS Integers, Sequences, FiniteSets, FiniteSetsExt, SequencesExt

CONSTANTS
    Games,      \* games with a badge page
    Recent,     \* games bought less than a refund window ago
    Configs,    \* the rules a user may save
    Limit,      \* min(32, maxConcurrentGames, the account's game limit)
    MaxCalls    \* bound: invocations that wait at a time

ASSUME ConstantsAssumption ==
    /\ IsFiniteSet(Games) /\ Recent \subseteq Games
    /\ Limit \in Nat \ {0} /\ MaxCalls \in Nat \ {0}
    /\ Configs \subseteq [excluded : SUBSET Games, pinned : SUBSET Games,
                          protect : BOOLEAN, autoResume : BOOLEAN]
    /\ Configs # {}

VARIABLES
    f,          \* the session, its waiting invocations and its resume row
    config,     \* the saved rules, which are the session's
    account,    \* "connected", "away" (to be logged on) or "paused"
    worker,     \* the worker's farming selection and what Steam shows of it
    left,       \* games that still drop cards, as Steam knows them
    polling,    \* a start request waits for the resumed account to log on
    slips       \* history: what was superseded that should have been finished

vars == <<f, config, account, worker, left, polling, slips>>

(***************************************************************************)
(* Data                                                                    *)
(***************************************************************************)

Running == {"scanning", "warming", "farming"}
Phases  == Running \cup {"stopped", "completed", "blocked", "error"}

\* An invocation of the controller waits in the account's queue for one of these.
Waits == {"begin", "apply", "end"}
\* The operations that others put there.
Orders == {"pause", "resume", "farm_resume"}

Call ==
    [op : Waits, start : BOOLEAN, live : BOOLEAN, games : SUBSET Games,
     phase : {"warming", "farming"}]

Order(op) == [op |-> op, start |-> FALSE, live |-> FALSE, games |-> {},
              phase |-> "farming"]

Discovery == [kind : {"start", "tick", "scan"}, live : BOOLEAN]

Session ==
    [phase   : Phases,
     timer   : BOOLEAN,
     applied : BOOLEAN,                 \* the worker may have a selection of ours
     active  : SUBSET Games,            \* activeAppIds
     seen    : SUBSET Games,            \* games with drops, by the last scan
     warm    : SUBSET Games,            \* games credited with two hours
     row     : BOOLEAN,                 \* accountFarmingResume
     queue   : Seq(Call \cup {Order(op) : op \in Orders}),
     waiting : Seq(Discovery),          \* badge scans on the network
     wanted  : BOOLEAN,                 \* history: nothing has ended it for good
     lag     : BOOLEAN]                 \* history: the rules changed during an apply

Active(s) == s.phase \in Running

(***************************************************************************)
(* The controller, as functions of its state                               *)
(***************************************************************************)

Dead(calls) == [i \in DOMAIN calls |-> [calls[i] EXCEPT !.live = FALSE]]

\* A new generation: whatever waits is no longer current.
Supersede(s) ==
    [s EXCEPT !.lag = FALSE, !.queue = Dead(s.queue), !.waiting = Dead(s.waiting)]

\* Mutants: a halt leaves the timer running; only a stop deletes the resume row.
Halt_KeepsTimer(s, reason) ==
    [Supersede(s) EXCEPT
        !.applied = FALSE,
        !.active  = {},
        !.row     = @ /\ reason = "interrupted",
        !.wanted  = @ /\ reason = "interrupted",
        !.phase   = IF reason = "stopped" THEN "stopped"
                    ELSE IF Active(s) THEN "blocked" ELSE @]

Halt_KeepsRow(s, reason) ==
    [Supersede(s) EXCEPT
        !.timer   = FALSE,
        !.applied = FALSE,
        !.active  = {},
        !.row     = @ /\ reason # "stopped",
        !.wanted  = @ /\ reason = "interrupted",
        !.phase   = IF reason = "stopped" THEN "stopped"
                    ELSE IF Active(s) THEN "blocked" ELSE @]

\* reason: "stopped" by the user, "interrupted" (RESUMABLE_HALTS), or "ended" by
\* anything else, such as a pause, a preset, a conflict or a hold.
Halt(s, reason) ==
    [Supersede(s) EXCEPT
        !.timer   = FALSE,
        !.applied = FALSE,
        !.active  = {},
        !.row     = @ /\ reason = "interrupted",
        !.wanted  = @ /\ reason = "interrupted",
        !.phase   = IF reason = "stopped" THEN "stopped"
                    ELSE IF Active(s) THEN "blocked" ELSE @]

Enqueue(s, op, start, games, phase) ==
    [s EXCEPT !.queue = Append(@, [op |-> op, start |-> start, live |-> TRUE,
                                   games |-> games, phase |-> phase])]

\* The account is paused only when farming may have reached the worker.
CleanUp(s, applied, start) ==
    IF applied THEN Enqueue(s, "end", start, {}, "farming") ELSE s

Fail(s, start) ==
    CleanUp([Halt(s, "ended") EXCEPT !.phase = "error"], s.applied, start)

\* Mutant: the reason is stored where the phase belongs.
Unavailable_Reason(s, reason, start) ==
    CleanUp([Halt(s, reason) EXCEPT !.phase = reason], s.applied, start)

Unavailable(s, reason, start) == CleanUp(Halt(s, reason), s.applied, start)

Skipped(s, c) ==
    c.excluded \cup (IF c.protect THEN Recent \ s.warm ELSE {})

Eligible(s, c) == s.seen \ Skipped(s, c)

\* A pinned game runs alone; then cold games warm up together; then one game
\* is farmed.  The order among equals is a setting, left open.
Selections(s, c) ==
    LET eligible == Eligible(s, c)
        cold     == eligible \ s.warm
        size     == IF Cardinality(cold) < Limit THEN Cardinality(cold) ELSE Limit
        one(set) == {[games |-> {g}, phase |-> "farming"] : g \in set}
    IN IF eligible \cap c.pinned # {} THEN one(eligible \cap c.pinned)
       ELSE IF cold # {}
       THEN {[games |-> set, phase |-> "warming"] : set \in kSubset(size, cold)}
       ELSE one(eligible)

\* The selection is on Steam: the next tick is a minute away.
Settle(s, games, phase) ==
    [s EXCEPT !.applied = TRUE, !.active = games, !.phase = phase, !.timer = TRUE]

\* Mutant: with nothing left to select the session waits for the next tick.
Complete_Waits(s, start) == [s EXCEPT !.active = {}, !.timer = TRUE]

Complete(s, start) ==
    CleanUp([s EXCEPT !.phase = "completed", !.row = FALSE, !.wanted = FALSE,
                      !.active = {}],
            s.applied, start)

\* The rest of advance, once the games with drops are known.
Selected(s, c, start) ==
    IF Eligible(s, c) = {}
    THEN {Complete(s, start)}
    ELSE {IF sel.games = s.active
          THEN Settle(s, sel.games, sel.phase)
          ELSE Enqueue([s EXCEPT !.applied = TRUE], "apply", start, sel.games,
                       sel.phase)
            : sel \in Selections(s, c)}

\* start() remembers the session when it finds one active at its end.
Returned(s, start) == IF start /\ Active(s) THEN [s EXCEPT !.row = TRUE] ELSE s

\* start() after its checks: the account is connected and no session is active.
Started(s) ==
    Enqueue([Supersede(s) EXCEPT !.phase = "scanning", !.applied = TRUE],
            "begin", TRUE, {}, "farming")

(***************************************************************************)
(* Requests                                                                *)
(***************************************************************************)

Calls == Len(f.queue) + Len(f.waiting)
Room  == Calls < MaxCalls

\* A request that overtakes nothing begins a new history.
Afresh == IF Calls = 0 /\ ~polling THEN {} ELSE slips

RequestStart ==
    /\ Room /\ ~Active(f) /\ account = "connected"
    /\ f' = [Started(f) EXCEPT !.wanted = TRUE]
    /\ slips' = Afresh
    /\ UNCHANGED <<config, account, worker, left, polling>>

\* A manual pause is no obstacle: the request resumes the account, and then asks
\* for half a minute whether it is connected. Only then is farming that is active, a scan
\* of the paused account, a reason to refuse; the account stays resumed.
RequestStartPaused ==
    /\ Room /\ account = "paused" /\ ~polling
    /\ f' = [f EXCEPT !.queue = Append(@, Order("farm_resume")), !.wanted = TRUE]
    /\ slips' = Afresh
    /\ UNCHANGED <<config, account, worker, left, polling>>

\* The request goes on to start, unless farming is active by then.  It is the
\* user's last word only if nothing ended farming while it waited.
Begun(s) ==
    IF Active(s) THEN s ELSE [Started(s) EXCEPT !.wanted = @ \/ "poll" \notin slips]

PollSucceeds ==
    /\ Room /\ polling /\ account = "connected"
    /\ f' = Begun(f)
    /\ polling' = FALSE
    /\ UNCHANGED <<config, account, worker, left, slips>>

PollExpires ==
    /\ polling /\ account # "connected"
    /\ polling' = FALSE
    /\ UNCHANGED <<f, config, account, worker, left, slips>>

\* What a request to end farming overtakes although it can still act.
Overtaken ==
    IF polling \/ \E i \in DOMAIN f.queue : f.queue[i].op = "farm_resume"
    THEN {"poll"} ELSE {}

RequestStop ==
    /\ Room
    /\ f' = Enqueue(Halt(f, "stopped"), "end", FALSE, {}, "farming")
    /\ slips' = Afresh \cup Overtaken
    /\ UNCHANGED <<config, account, worker, left, polling>>

\* A read-only scan, but it starts a generation like any other invocation. It asks for
\* no farming to be allowed: a paused client or one in a conflict may answer it, and one
\* that is not logged on refuses at once.
RequestScan ==
    /\ Room /\ ~Active(f)
    /\ LET s == Supersede(f)
       IN \/ f' = [s EXCEPT !.phase   = "scanning",
                            !.waiting = Append(@, [kind |-> "scan", live |-> TRUE])]
          \/ account # "connected" /\ f' = [s EXCEPT !.phase = "error"]
    /\ slips' = slips \cup (IF Calls = 0 THEN {} ELSE {"scan"})
    /\ UNCHANGED <<config, account, worker, left, polling>>

\* Mutants: new rules wait for the next tick; a running invocation is not left
\* alone.
Reconfigured_Later(s, c) == {s}

Reconfigured_Always(s, c) ==
    IF Active(s) /\ s.phase # "scanning"
    THEN Selected([s EXCEPT !.timer = FALSE], c, FALSE) ELSE {s}

\* Between two ticks new rules select again at once; an invocation that is under
\* way is left to read them itself.
Reconfigured(s, c) ==
    IF Active(s) /\ s.timer
    THEN Selected([s EXCEPT !.timer = FALSE], c, FALSE)
    ELSE {s}

Reconfigure(c) ==
    /\ Room /\ c # config
    /\ config' = c
    /\ LET applying == \E i \in DOMAIN f.queue :
                          f.queue[i].op = "apply" /\ f.queue[i].live
       IN f' \in Reconfigured([f EXCEPT !.lag = @ \/ applying], c)
    /\ UNCHANGED <<account, worker, left, polling, slips>>

\* The manager halts farming before a pause, a stop or a resume is queued.
Command(op) ==
    /\ Room
    /\ f' = LET s == Halt(f, "ended") IN [s EXCEPT !.queue = Append(@, Order(op))]
    /\ worker' = [worker EXCEPT !.held = FALSE]
    /\ slips' = slips \cup Overtaken
    /\ UNCHANGED <<config, account, left, polling>>

(***************************************************************************)
(* The account's operation queue                                           *)
(***************************************************************************)

Runs(op) == f.queue # <<>> /\ Head(f.queue).op = op
Popped   == [f EXCEPT !.queue = Tail(@)]
Caller   == Head(f.queue)

RunPause ==
    /\ Runs("pause")
    /\ f' = [Halt(Popped, "ended") EXCEPT !.wanted = f.wanted]
    /\ account' = "paused"
    /\ worker' = [held |-> FALSE, playing |-> {}]
    /\ UNCHANGED <<config, left, polling, slips>>

RunResume ==
    /\ Runs("resume")
    /\ f' = Popped
    /\ account' \in (IF account = "paused" THEN {"away", "connected"} ELSE {account})
    /\ worker' = [worker EXCEPT !.playing = {}]
    /\ UNCHANGED <<config, left, polling, slips>>

\* Only a paused account is resumed.  A live client keeps an empty selection and
\* can farm at once; a new login says "connecting", which halts farming, and the
\* request begins to poll.
RunFarmResume ==
    LET begun == Begun(Popped)
    IN /\ Runs("farm_resume")
       /\ \/ /\ account = "paused" /\ account' = "connected"
             /\ worker' = [held |-> TRUE, playing |-> {}]
             /\ f' = begun /\ UNCHANGED polling
          \/ /\ account = "paused" /\ account' = "away"
             /\ worker' = [held |-> FALSE, playing |-> {}]
             /\ f' = Halt(Popped, "interrupted") /\ polling' = TRUE
          \/ /\ account # "paused"
             /\ f' = IF account = "connected" THEN begun ELSE Popped
             /\ UNCHANGED <<account, worker, polling>>
       /\ UNCHANGED <<config, left, slips>>

\* Whether the operation may act, what it leaves at the worker when it does, and
\* whether it says so: a write after the games were reported may still fail.
\* Mutant: the operation does not ask whether its caller is still current.
Allowed_Late == account = "connected"

Allowed == Caller.live /\ account = "connected"

Applied(games) == [held |-> TRUE, playing |-> games]

RunBegin ==
    /\ Runs("begin")
    /\ \/ /\ Allowed
          /\ worker' = Applied({})
          /\ f' = [Popped EXCEPT
                      !.waiting = Append(@, [kind |-> IF Caller.start THEN "start"
                                                      ELSE "tick", live |-> TRUE])]
       \/ /\ Caller.live
          /\ worker' \in {worker} \cup (IF Allowed THEN {Applied({})} ELSE {})
          /\ f' = Fail(Popped, Caller.start)
       \/ /\ ~Caller.live
          /\ f' = Returned(Popped, Caller.start) /\ UNCHANGED worker
    /\ UNCHANGED <<config, account, left, polling, slips>>

RunApply ==
    /\ Runs("apply")
    /\ \/ /\ Allowed
          /\ worker' = Applied(Caller.games)
          /\ f' = Returned(Settle(Popped, Caller.games, Caller.phase), Caller.start)
       \/ /\ Caller.live
          /\ worker' \in {worker} \cup (IF Allowed THEN {Applied(Caller.games)} ELSE {})
          /\ f' = Fail(Popped, Caller.start)
       \/ /\ ~Caller.live
          /\ f' = Returned(Popped, Caller.start) /\ UNCHANGED worker
    /\ UNCHANGED <<config, account, left, polling, slips>>

Ends == Caller.live /\ worker.held

\* The end of farming pauses the account, unless something newer has begun.
RunEnd ==
    /\ Runs("end")
    /\ IF Ends
       THEN /\ account' = "paused"
            /\ worker' = [held |-> FALSE, playing |-> {}]
       ELSE UNCHANGED <<account, worker>>
    /\ f' = Returned(Popped, Caller.start)
    /\ UNCHANGED <<config, left, polling, slips>>

(***************************************************************************)
(* Badge scans, ticks and card drops                                       *)
(***************************************************************************)

Current(d) == d.live

\* A scan that has been superseded is cancelled before its next page.
ScanReturns(i) ==
    LET d == f.waiting[i]
        s == [f EXCEPT !.waiting = RemoveAt(@, i)]
    IN /\ IF ~Current(d)
          THEN f' = Returned(s, d.kind = "start")
          ELSE IF d.kind = "scan"
          THEN f' = [s EXCEPT !.seen = left, !.phase = "stopped"]
          ELSE f' \in Selected([s EXCEPT !.seen = left], config, d.kind = "start")
       /\ UNCHANGED <<config, account, worker, left, polling, slips>>

ScanFails(i) ==
    LET d == f.waiting[i]
        s == [f EXCEPT !.waiting = RemoveAt(@, i)]
    IN /\ f' = IF ~Current(d) THEN Returned(s, d.kind = "start")
               ELSE IF d.kind = "scan" THEN [s EXCEPT !.phase = "error"]
               ELSE Fail(s, d.kind = "start")
       /\ UNCHANGED <<config, account, worker, left, polling, slips>>

\* The minute credits playtime to the active games; every fifth one scans again.
Tick(hours, rescan) ==
    /\ f.timer /\ Room /\ account = "connected"
    /\ LET s == [f EXCEPT !.timer = FALSE, !.lag = FALSE,
                          !.warm = IF hours THEN @ \cup f.active ELSE @]
       IN IF rescan
          THEN f' = [s EXCEPT !.waiting = Append(@, [kind |-> "tick", live |-> TRUE])]
          ELSE f' \in Selected(s, config, FALSE)
    /\ UNCHANGED <<config, account, worker, left, polling, slips>>

\* A hold that was set meanwhile refuses the tick.
TickRefused ==
    /\ f.timer /\ Room
    /\ f' = Unavailable([f EXCEPT !.timer = FALSE], "ended", FALSE)
    /\ UNCHANGED <<config, account, worker, left, polling, slips>>

LastDrop(g) ==
    /\ g \in left \cap worker.playing
    /\ left' = left \ {g}
    /\ UNCHANGED <<f, config, account, worker, polling, slips>>

(***************************************************************************)
(* The account's session                                                   *)
(***************************************************************************)

\* Farming that will not resume pauses the account (keepsRunningForFarming).
AfterLoss == IF worker.held /\ ~(f.row /\ config.autoResume) THEN "paused" ELSE "away"

\* Each status of an account that is not online halts its session, a scan included.
SessionLost ==
    /\ f.queue = <<>>
    /\ account' = IF account = "connected" THEN AfterLoss ELSE account
    /\ worker' = [held |-> FALSE, playing |-> {}]
    /\ f' = Halt(f, "interrupted")
    /\ UNCHANGED <<config, left, polling, slips>>

\* Another session plays on the account; it stays away until that ends.
OtherSessionPlays ==
    /\ account = "connected" /\ f.queue = <<>>
    /\ account' = IF worker.held THEN "paused" ELSE "away"
    /\ worker' = [held |-> FALSE, playing |-> {}]
    /\ f' = Halt(f, "ended")
    /\ UNCHANGED <<config, left, polling, slips>>

\* Mutant: farming that was interrupted waits for the next start of the process.
Resumes_Never == FALSE

\* resumeInterruptedFarming
Resumes == f.row /\ config.autoResume /\ ~Active(f)

LoggedOn ==
    /\ account = "away" /\ f.queue = <<>> /\ Room
    /\ account' = "connected"
    /\ f' = IF Resumes THEN Started(f) ELSE f
    /\ UNCHANGED <<config, worker, left, polling, slips>>

\* The process ends and starts again.  Farming that will not resume leaves the
\* account paused, but only when there was time to say so.
Restart ==
    /\ \E graceful \in BOOLEAN :
          account' = IF account = "paused" \/ (graceful /\ AfterLoss = "paused")
                     THEN "paused" ELSE "away"
    /\ f' = [f EXCEPT !.phase = "stopped", !.timer = FALSE, !.applied = FALSE,
                      !.active = {}, !.seen = {}, !.queue = <<>>, !.waiting = <<>>,
                      !.lag = FALSE]
    /\ worker' = [held |-> FALSE, playing |-> {}]
    /\ polling' = FALSE
    /\ slips' = IF f.row THEN slips ELSE {}
    /\ UNCHANGED <<config, left>>

(***************************************************************************)
(* The specification                                                       *)
(***************************************************************************)

Init ==
    /\ f = [phase |-> "stopped", timer |-> FALSE, applied |-> FALSE, active |-> {},
            seen |-> {}, warm |-> {}, row |-> FALSE, queue |-> <<>>,
            waiting |-> <<>>, wanted |-> FALSE, lag |-> FALSE]
    /\ config \in Configs
    /\ account = "connected"
    /\ worker = [held |-> FALSE, playing |-> {}]
    /\ left = Games /\ polling = FALSE /\ slips = {}

Requests ==
    \/ RequestStart \/ RequestStartPaused \/ PollSucceeds \/ PollExpires
    \/ RequestStop \/ RequestScan
    \/ \E c \in Configs : Reconfigure(c)
    \/ Command("pause") \/ Command("resume")

Queue ==
    \/ RunPause \/ RunResume \/ RunFarmResume \/ RunBegin \/ RunApply \/ RunEnd

Scan == \E i \in DOMAIN f.waiting : ScanReturns(i) \/ ScanFails(i)

Steam ==
    \/ \E g \in Games : LastDrop(g)
    \/ SessionLost \/ OtherSessionPlays \/ LoggedOn

Next ==
    \/ Requests \/ Queue \/ Scan \/ Steam \/ Restart
    \/ \E hours \in BOOLEAN, rescan \in BOOLEAN : Tick(hours, rescan)
    \/ TickRefused

Spec == Init /\ [][Next]_vars

\* The queue is served and a badge request ends; rules are not changed within
\* every minute, so that ticks come, credit two hours and reach the next scan; a
\* game that is played again and again drops its cards; and Steam lets the
\* account log on again.
Fairness ==
    /\ WF_vars(Queue) /\ WF_vars(Scan)
    /\ SF_vars(Tick(TRUE, TRUE))
    /\ \A g \in Games : SF_vars(LastDrop(g))
    /\ SF_vars(LoggedOn)

FairSpec == Spec /\ Fairness

(***************************************************************************)
(* Properties                                                              *)
(***************************************************************************)

TypeOK ==
    /\ f \in Session
    /\ config \in Configs
    /\ account \in {"connected", "away", "paused"}
    /\ worker \in [held : BOOLEAN, playing : SUBSET Games]
    /\ left \subseteq Games
    /\ polling \in BOOLEAN
    /\ slips \subseteq {"scan", "poll"}

LiveCalls ==
    {i \in DOMAIN f.queue : f.queue[i].live} \cup
        {-i : i \in {j \in DOMAIN f.waiting : f.waiting[j].live}}

\* The session is driven by one invocation: one that waits, or the timer's next, and
\* none but the current one makes Steam play a game (isCurrent, advance).
OneAdvance ==
    /\ [](Cardinality(LiveCalls) + (IF f.timer THEN 1 ELSE 0) <= 1)
    /\ [][worker'.playing \ worker.playing # {} => f.queue # <<>> /\ Caller.live]_vars

Settled == f.queue = <<>> /\ f.waiting = <<>> /\ ~polling

\* Steam follows the session.  Between two ticks it shows exactly the games that the
\* session says it runs, none of which the rules exclude or the refund window protects,
\* unless the rules changed while a selection was on its way.  A stop, a pause, a
\* conflict, a failure or the last card ends farming for good: it holds neither the
\* account nor a promise to come back.
SteamFollowsSession ==
    /\ f.timer =>
          /\ f.queue = <<>> => worker.held /\ worker.playing = f.active
          /\ ~f.lag => f.active \cap Skipped(f, config) = {}
    /\ Settled /\ ~f.wanted /\ slips = {} =>
          ~Active(f) /\ ~worker.held /\ ~f.row

\* A session that was interrupted comes back with the next login, for as long as
\* nothing ends it and the account is not paused (resumeInterruptedFarming). One that is
\* left alone ends: it runs out of cards, fails or is halted (advance). A scan counts as
\* active: what a login finds scanning is not resumed (controller.ts:241).
FarmingEnds ==
    /\ account = "away" /\ f.wanted /\ f.row /\ config.autoResume
           ~> Active(f) \/ ~f.wanted \/ ~config.autoResume \/ account = "paused"
    /\ Active(f) ~> ~Active(f)
=============================================================================
