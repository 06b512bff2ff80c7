----------------------------- MODULE SteamWorker -----------------------------
(***************************************************************************)
(* One Steam account of the server: its SteamWorker                        *)
(* (apps/server/src/steam/worker.ts), the manager's entry points that      *)
(* reach it (steam/manager.ts), the account's operation queue              *)
(* (steam/account-operation-state.ts) and the steam-user client it drives. *)
(*                                                                         *)
(* Node runs one thread, and a queued operation awaits only the            *)
(* synchronous database, so an operation is one step.  The exception is    *)
(* the library import, which waits for the network and holds the queue     *)
(* while commands, timers and Steam events line up behind it.              *)
(*                                                                         *)
(* worker.ts stamps each event and timer with the intent generation and    *)
(* ignores it when the generation has moved on.  Only equality with the    *)
(* current generation is ever asked, so the model keeps that one bit:      *)
(* "live" until the desired state changes.                                 *)
(***************************************************************************)
EXTENDS Naturals, Sequences

CONSTANTS
    MaxQueue,   \* bound: operations that wait for one account at a time
    Requests    \* the operations that users, schedules and farming may ask for

ASSUME MaxQueueAssumption == MaxQueue \in Nat \ {0}

VARIABLES
    w,          \* the worker's memory, its database row and its Steam client
    queue,      \* the account's operations, first to run first
    importing,  \* a library import waits for the network, at the queue's head
    phase,      \* "up", "stopping" (quiescing) or "down"
    elsewhere,  \* another Steam session is playing on the account
    lapses      \* history: why the worker may be without a recovery path

vars == <<w, queue, importing, phase, elsewhere, lapses>>

(***************************************************************************)
(* Data                                                                    *)
(***************************************************************************)

Active == {"online", "boosting"}

Statuses == Active \cup
    {"disconnected", "connecting", "paused_manual", "paused_other_session",
     "reconnecting", "error", "login_required"}

Payloads == {"none", "manual", "farming"}

\* retry-policy.ts sorts Steam results into terminal ones, session conflicts
\* and the rest, whose minimum delay is the only other difference.
Failures == {"transient", "conflict", "auth"}

Worker ==
    [desired   : {"running", "paused", "stopped"},
     status    : Statuses,
     health    : {"clear", "scheduled", "terminal"}, \* account_health_state
     connected : BOOLEAN,
     paused    : BOOLEAN,                            \* manuallyPaused
     blocked   : BOOLEAN,                            \* blockedByOtherSession
     farming   : {"off", "empty", "games"},          \* farmingAppIds
     awaiting  : BOOLEAN,                            \* awaitingFarming
     reported  : Payloads,                           \* reportedAppIds, its mode
     reconnect : {"off", "live", "stale"},           \* reconnectTimer
     conflict  : {"off", "retry", "cooldown", "stale"}, \* sessionConflictTimer
     attempt   : 0 .. 3,          \* sessionConflictAttempt, 3 standing for more
     mode      : {"none", "login", "live"},          \* sessionConflictMode
     handled   : BOOLEAN,         \* handledConflictLoginAttemptId is this login
     client    : {"off", "connecting", "on", "leaving", "refused"},
     playing   : Payloads]        \* what Steam shows for the client

\* What users ask for over HTTP; each interrupts farming before it is queued.
Commands == {"start", "stop", "pause", "resume", "update"}
\* What schedules, safety limits, the farming controller and imports ask for.
Services == {"auto_start", "auto_resume", "safety_pause", "import", "farm_resume"}
Farming  == {"farm_empty", "farm_games", "farm_end"}
Events   == {"loggedOn", "blocked", "free", "disconnected", "error"}
Timers   == {"reconnect", "retry", "cooldown"}

\* ignored: an event of a superseded intent was dropped.  boot: the row said
\* "connecting" when the process started.  held: nothing started the account.
\* attention: a safety pause left games playing.  token: the row has none.
Lapses == {"ignored", "boot", "held", "attention", "token"}

ASSUME RequestsAssumption == Requests \subseteq Commands \cup Services \cup Farming

\* live: for an event or a timer, the desired state has not changed since; for
\* a farming operation, the farming session that asked has not been halted.
Item ==
    {item \in [op   : Commands \cup Services \cup Farming \cup Events \cup Timers,
               arg  : Failures \cup {"none"},
               live : BOOLEAN] :
        item.op \in {"disconnected", "error"} => item.arg \in Failures}

Op(op, arg) == [op |-> op, arg |-> arg, live |-> TRUE]

(***************************************************************************)
(* The worker's helpers, as functions of its state                         *)
(***************************************************************************)

Stale(timer) == IF timer = "off" THEN "off" ELSE "stale"

\* A change of the desired state starts a new intent generation.
SetDesiredState(s, d) ==
    IF s.desired = d
    THEN s
    ELSE [s EXCEPT !.desired = d, !.reconnect = Stale(@), !.conflict = Stale(@)]

ClearFarmingSelection(s, keepAwaiting) ==
    [s EXCEPT !.farming = "off", !.awaiting = @ /\ keepAwaiting]

\* setStatus ignores a repetition; otherwise it emits "status", and the manager
\* halts farming at once for any status other than online and boosting.
SetStatus(s, status) ==
    IF s.status = status
    THEN s
    ELSE LET t == [s EXCEPT !.status = status]
         IN IF status \in Active THEN t ELSE ClearFarmingSelection(t, TRUE)

\* gamesPlayed reaches Steam only over a logged-on client.
ReportGames(s, payload) ==
    [s EXCEPT !.reported = payload,
              !.playing  = IF s.client = "on" THEN payload ELSE "none"]

ClearRetryTimers(s) == [s EXCEPT !.reconnect = "off", !.conflict = "off"]

ResetSessionConflict(s) ==
    [s EXCEPT !.attempt = 0, !.mode = "none", !.handled = FALSE, !.blocked = FALSE]

ClearRecoveryHealth(s) == [s EXCEPT !.health = "clear"]

\* External: steam-user refuses to log on twice; the patched client then tears
\* the session down and reports an error one tick later.
LogOn(s) ==
    [s EXCEPT !.client  = IF @ = "off" THEN "connecting" ELSE "refused",
              !.playing = "none"]

\* External: a logged-on client says goodbye first and emits "disconnected" later.
LogOff(s) ==
    [s EXCEPT !.client  = IF @ \in {"on", "leaving"} THEN "leaving" ELSE "off",
              !.playing = "none"]

\* Mutants: what is reported is the selection itself; a reservation is forgotten.
Payload_Selection(s, manual) ==
    IF s.farming = "games" THEN s.farming ELSE IF s.awaiting THEN "none" ELSE manual
Payload_NoReservation(s, manual) ==
    IF s.farming = "off" THEN manual
    ELSE IF s.farming = "games" THEN "farming" ELSE "none"

\* A farming selection wins over the manual games, and a farm that is about to
\* resume keeps them off.  What the user has selected is left open.
Payload(s, manual) ==
    CASE s.farming = "games"                -> "farming"
      [] s.farming = "empty" \/ (s.farming = "off" /\ s.awaiting) -> "none"
      [] s.farming = "off" /\ ~s.awaiting   -> manual

\* Mutant: a manual pause does not keep the games off.
ApplyGames_Paused(s, manual) ==
    LET payload == Payload(s, manual)
    IN IF ~s.connected THEN s
       ELSE IF s.blocked THEN SetStatus(ReportGames(s, "none"), "paused_other_session")
       ELSE SetStatus(ReportGames(s, payload),
                      IF payload = "none" THEN "online" ELSE "boosting")

ApplyGames(s, manual) ==
    LET payload == Payload(s, manual)
    IN CASE ~s.connected -> s
         [] s.connected /\ s.paused ->
              SetStatus(ReportGames(s, "none"), "paused_manual")
         [] s.connected /\ ~s.paused /\ s.blocked ->
              SetStatus(ReportGames(s, "none"), "paused_other_session")
         [] s.connected /\ ~s.paused /\ ~s.blocked ->
              SetStatus(ReportGames(s, payload),
                        IF payload = "none" THEN "online" ELSE "boosting")

\* Mutant: the pending reconnect stays armed beside the conflict's own timer.
RegisterSessionConflict_KeepReconnect(s, source) ==
    [s EXCEPT !.mode = source, !.attempt = IF @ < 3 THEN @ + 1 ELSE 3,
              !.health = "scheduled",
              !.conflict = IF s.attempt >= 2 THEN "cooldown" ELSE "retry"]

\* The counter chooses between the five-minute retry and the long cooldown.
RegisterSessionConflict(s, source) ==
    LET attempt == IF s.attempt < 3 THEN s.attempt + 1 ELSE 3
    IN [s EXCEPT !.reconnect = "off",
                 !.mode      = source,
                 !.attempt   = attempt,
                 !.health    = "scheduled",
                 !.conflict  = IF attempt >= 3 THEN "cooldown" ELSE "retry"]

ScheduleReconnect(s) ==
    [ResetSessionConflict(ClearRetryTimers(s))
        EXCEPT !.reconnect = "live", !.health = "scheduled"]

HandleTerminalFailure(s) ==
    LET t == [ResetSessionConflict(ClearRetryTimers(s))
                 EXCEPT !.connected = FALSE, !.health = "terminal"]
    IN SetStatus(SetDesiredState(t, "paused"), "login_required")

HandleLoginSessionConflict(s) ==
    IF s.handled
    THEN s
    ELSE LET t == [s EXCEPT !.handled = TRUE, !.connected = FALSE, !.blocked = FALSE]
         IN RegisterSessionConflict(SetStatus(t, "reconnecting"), "login")

(***************************************************************************)
(* The queued operations                                                   *)
(***************************************************************************)

\* Mutant: a new login still counts as the one whose conflict was handled.
StartNow_SameLogin(s, token) ==
    IF s.status = "connecting" \/ (s.connected /\ s.status \in Active) THEN s
    ELSE IF ~token THEN SetStatus(s, "login_required")
    ELSE LogOn(SetStatus(SetDesiredState([s EXCEPT !.paused = FALSE], "running"),
                         "connecting"))

\* token: the account row holds a usable credential.
StartNow(s, token) ==
    IF s.status = "connecting" \/ (s.connected /\ s.status \in Active)
    THEN s
    ELSE IF ~token
    THEN SetStatus(s, "login_required")
    ELSE LET t == SetDesiredState([s EXCEPT !.paused = FALSE], "running")
         IN LogOn([SetStatus(t, "connecting") EXCEPT !.handled = FALSE])

StopNow(s) ==
    LET t == ClearRecoveryHealth(ResetSessionConflict(ClearRetryTimers(
                 ClearFarmingSelection(s, FALSE))))
        u == LogOff(ReportGames(SetDesiredState(t, "stopped"), "none"))
    IN SetStatus([u EXCEPT !.connected = FALSE], "disconnected")

PauseNow(s) ==
    LET t == ClearRecoveryHealth(ResetSessionConflict(ClearRetryTimers(
                 ClearFarmingSelection(s, FALSE))))
        u == SetDesiredState([t EXCEPT !.paused = TRUE], "paused")
    IN SetStatus(ReportGames(u, "none"), "paused_manual")

\* The first fallback of a safety pause that failed part of the way.
ForceDisconnectForSafety(s) ==
    LET t == ClearRecoveryHealth(ResetSessionConflict(ClearRetryTimers(
                 ClearFarmingSelection(s, FALSE))))
        u == SetDesiredState([t EXCEPT !.paused = TRUE], "paused")
        v == LogOff(ReportGames(u, "none"))
    IN SetStatus([v EXCEPT !.connected = FALSE], "paused_manual")

\* The second fallback: the disconnect threw, so the games or the session may
\* still be there (cleared, left), and the account waits for an operator.
MarkSafetyAttention(s, cleared, left) ==
    LET t == IF cleared THEN ReportGames(s, "none") ELSE s
        u == IF left THEN LogOff(t) ELSE t
        v == [ResetSessionConflict(ClearRetryTimers(ClearFarmingSelection(u, FALSE)))
                 EXCEPT !.connected = FALSE, !.paused = TRUE, !.health = "terminal"]
    IN SetStatus(SetDesiredState(v, "paused"), "error")

ResumeNow(s, token, manual) ==
    LET t == ClearRecoveryHealth(SetDesiredState(
                 [s EXCEPT !.paused = FALSE, !.awaiting = FALSE], "running"))
    IN IF t.connected THEN ApplyGames(t, manual) ELSE StartNow(t, token)

\* getFarmingAvailability, whose safety hold is left open by the caller.
FarmingAllowed(s) == s.desired = "running" /\ s.connected /\ s.status \in Active

ResumeForFarming(s, token, manual) ==
    LET t == ClearRecoveryHealth(SetDesiredState(
                 [s EXCEPT !.paused = FALSE, !.farming = "empty", !.awaiting = TRUE],
                 "running"))
    IN IF s.desired = "running" THEN s
       ELSE IF t.connected THEN ApplyGames(t, manual) ELSE StartNow(t, token)

ApplyFarmingSelection(s, selection) ==
    IF FarmingAllowed(s) /\ ~s.paused /\ ~s.blocked
    THEN ApplyGames([s EXCEPT !.farming = selection, !.awaiting = FALSE], "none")
    ELSE s

(***************************************************************************)
(* The Steam event handlers                                                *)
(***************************************************************************)

\* Mutant: the games are not reported again after a login.
LoggedOn_NoGames(s, manual) ==
    SetStatus([ClearRecoveryHealth(ResetSessionConflict(ClearRetryTimers(s)))
                  EXCEPT !.connected = TRUE], "online")

LoggedOn(s, manual) ==
    LET t == ClearRecoveryHealth(ResetSessionConflict(ClearRetryTimers(s)))
    IN ApplyGames(SetStatus([t EXCEPT !.connected = TRUE], "online"), manual)

\* Farming that is cut short without a promise to resume pauses the account.
PauseIfFarming(s, wasFarming) ==
    IF wasFarming
    THEN SetDesiredState([s EXCEPT !.paused = TRUE], "paused")
    ELSE s

PlayingBlocked(s) ==
    LET t == ClearFarmingSelection([s EXCEPT !.blocked = TRUE], FALSE)
        u == ReportGames(PauseIfFarming(t, s.farming # "off"), "none")
        v == SetStatus(u, "paused_other_session")
    IN IF ~s.blocked /\ v.desired = "running"
       THEN RegisterSessionConflict(v, "live")
       ELSE v

PlayingFree(s, manual) ==
    LET t == [s EXCEPT !.blocked = FALSE]
    IN IF s.blocked /\ ~s.paused /\ s.desired = "running"
       THEN ApplyGames(ClearRecoveryHealth(ResetSessionConflict(
                [t EXCEPT !.conflict = "off"])), manual)
       ELSE t

\* keepsRunningForFarming: farming resumes after the drop.  resumes is what
\* farmingResumesAfterShutdown reads from the resume row and its settings.
KeepsRunningForFarming(s, failure, resumes) ==
    s.farming # "off" /\ failure = "transient" /\ ~s.handled /\ resumes

\* Mutant: the lost session is still believed to be connected.
SessionLost_Connected(s, failure, resumes) ==
    LET keep == KeepsRunningForFarming(s, failure, resumes)
    IN PauseIfFarming([ClearFarmingSelection(s, FALSE) EXCEPT !.awaiting = keep],
                      s.farming # "off" /\ ~keep)

\* What both handlers of a lost session do first.
SessionLost(s, failure, resumes) ==
    LET keep == KeepsRunningForFarming(s, failure, resumes)
        t == [ClearFarmingSelection(s, FALSE) EXCEPT !.connected = FALSE,
                                                     !.awaiting = keep]
    IN PauseIfFarming(t, s.farming # "off" /\ ~keep)

\* Mutant: the second report of a handled conflict is taken for a new loss.
Disconnected_Twice(s, failure, resumes) ==
    LET t == SessionLost(s, failure, resumes)
    IN CASE failure = "conflict" -> HandleLoginSessionConflict(t)
         [] failure = "auth" -> HandleTerminalFailure(t)
         [] failure = "transient" ->
              IF t.desired = "running"
              THEN ScheduleReconnect(SetStatus(t, "reconnecting"))
              ELSE SetStatus(t, "disconnected")

Disconnected(s, failure, resumes) ==
    LET t == SessionLost(s, failure, resumes)
    IN CASE s.handled -> t
         [] ~s.handled /\ failure = "conflict" -> HandleLoginSessionConflict(t)
         [] ~s.handled /\ failure = "auth" -> HandleTerminalFailure(t)
         [] ~s.handled /\ failure = "transient" ->
              IF t.desired = "running"
              THEN ScheduleReconnect(SetStatus(t, "reconnecting"))
              ELSE SetStatus(t, "disconnected")

ClientError(s, failure, resumes) ==
    LET t == SessionLost(s, failure, resumes)
    IN CASE s.handled -> t
         [] ~s.handled /\ failure = "conflict" -> HandleLoginSessionConflict(t)
         [] ~s.handled /\ failure = "auth" -> HandleTerminalFailure(t)
         [] ~s.handled /\ failure = "transient" ->
              LET u == SetStatus(t, "error")
              IN IF u.desired = "running" THEN ScheduleReconnect(u) ELSE u

\* Mutant: the live retry reports the games and does not wait for the answer.
RetryLiveSessionConflict_Once(s, manual) ==
    IF s.blocked
    THEN ReportGames(s, Payload(s, manual))
    ELSE ApplyGames(ClearRecoveryHealth(ResetSessionConflict(s)), manual)

RetryLiveSessionConflict(s, manual) ==
    IF s.blocked
    THEN RegisterSessionConflict(ReportGames(s, Payload(s, manual)), "live")
    ELSE ApplyGames(ClearRecoveryHealth(ResetSessionConflict(s)), manual)

RetrySessionConflict(s, cooldown, token, manual) ==
    LET t == IF cooldown THEN [s EXCEPT !.attempt = 0] ELSE s
    IN IF t.mode = "live" THEN RetryLiveSessionConflict(t, manual) ELSE StartNow(t, token)

(***************************************************************************)
(* The account's queue                                                     *)
(***************************************************************************)

\* Farming is halted by a status that is neither online nor boosting, except by
\* the pause that ends it, and by every pause that others ask for.
Halts(s, t, op) ==
    \/ op \in {"pause", "safety_pause"}
    \/ /\ t.status # s.status /\ t.status \notin Active
       /\ ~(op = "farm_end" /\ t.status = "paused_manual")

\* What is still waiting loses its standing when the intent or the farming
\* session that it belongs to is superseded.
Restamp(q, intentChanged, farmingHalted) ==
    [i \in DOMAIN q |->
        [q[i] EXCEPT !.live =
            /\ @
            /\ ~(intentChanged /\ q[i].op \in Events \cup Timers)
            /\ ~(farmingHalted /\ q[i].op \in Farming)]]

\* Microtasks run before the next timer, message or request is looked at.
Settled == queue = <<>> \/ importing

Idle == phase = "up" /\ queue = <<>> /\ ~importing

Runs(op) == phase = "up" /\ ~importing /\ queue # <<>> /\ Head(queue).op = op

\* What the operation op may leave behind, and what it makes good.
NewLapses(t, op) ==
    {l \in {"attention", "token"} :
        \/ /\ l = "attention" /\ op \in {"safety_pause", "farm_end"}
           /\ t.playing # "none"
        \/ l = "token" /\ t.desired = "running" /\ t.status = "login_required"}

Redeemed(t, op) ==
    {l \in Lapses :
        \/ op = "stop"
        \/ op = "loggedOn" /\ l = "ignored"
        \/ l # "ignored" /\ w.client = "off" /\ t.client = "connecting"}

\* The operation at the head of the queue has left the worker in state t.
Finish(t) ==
    LET op == Head(queue).op
    IN /\ w' = t
       /\ queue' = Restamp(Tail(queue), t.desired # w.desired, Halts(w, t, op))
       /\ lapses' = (lapses \cup NewLapses(t, op)) \ Redeemed(t, op)
       /\ UNCHANGED <<importing, phase, elsewhere>>

RunStart ==
    /\ Runs("start") \/ Runs("auto_start")
    /\ \E token \in BOOLEAN : Finish(StartNow(ClearRecoveryHealth(w), token))

RunStop == Runs("stop") /\ Finish(StopNow(w))

RunPause == Runs("pause") /\ Finish(PauseNow(w))

\* pauseForSafety: the pause, or the fallbacks when a write or the client fails.
SafetyPause(s) ==
    {PauseNow(s), ForceDisconnectForSafety(s)} \cup
        {MarkSafetyAttention(s, cleared, left) :
            cleared \in BOOLEAN, left \in BOOLEAN}

RunSafetyPause == Runs("safety_pause") /\ \E t \in SafetyPause(w) : Finish(t)

RunResume ==
    /\ Runs("resume") \/ Runs("auto_resume")
    /\ \E token \in BOOLEAN, manual \in {"none", "manual"} :
          Finish(ResumeNow(w, token, manual))

RunUpdate ==
    Runs("update") /\ \E manual \in {"none", "manual"} : Finish(ApplyGames(w, manual))

\* A safety hold may refuse each request of the farming controller.
RunFarmResume ==
    /\ Runs("farm_resume")
    /\ \/ \E token \in BOOLEAN, manual \in {"none", "manual"} :
             Finish(ResumeForFarming(w, token, manual))
       \/ Finish(w)

RunFarmSelection ==
    /\ Runs("farm_empty") \/ Runs("farm_games")
    /\ \/ /\ Head(queue).live
          /\ Finish(ApplyFarmingSelection(w,
                IF Head(queue).op = "farm_games" THEN "games" ELSE "empty"))
       \/ Finish(w)

RunFarmEnd ==
    /\ Runs("farm_end")
    /\ IF Head(queue).live /\ w.farming # "off"
       THEN \E t \in SafetyPause(w) : Finish(t)
       ELSE Finish(w)

\* An event that belongs to a superseded intent is ignored, whatever it says.
RunIgnoredEvent ==
    /\ phase = "up" /\ ~importing /\ queue # <<>>
    /\ Head(queue).op \in Events /\ ~Head(queue).live
    /\ w' = w /\ queue' = Tail(queue)
    /\ lapses' = lapses \cup {"ignored"}
    /\ UNCHANGED <<importing, phase, elsewhere>>

RunLoggedOn ==
    /\ Runs("loggedOn") /\ Head(queue).live
    /\ IF w.desired = "running"
       THEN \E manual \in {"none", "manual"} : Finish(LoggedOn(w, manual))
       ELSE Finish(w)

RunPlayingState ==
    /\ Runs("blocked") \/ Runs("free")
    /\ Head(queue).live
    /\ IF Head(queue).op = "blocked"
       THEN Finish(PlayingBlocked(w))
       ELSE \E manual \in {"none", "manual"} : Finish(PlayingFree(w, manual))

RunDisconnected ==
    /\ Runs("disconnected") /\ Head(queue).live
    /\ \E resumes \in BOOLEAN : Finish(Disconnected(w, Head(queue).arg, resumes))

RunError ==
    /\ Runs("error") /\ Head(queue).live
    /\ \E resumes \in BOOLEAN : Finish(ClientError(w, Head(queue).arg, resumes))

\* Mutant: a timer is checked against the generation only.
TimerCounts_AnyIntent == Head(queue).live

TimerCounts == w.desired = "running" /\ Head(queue).live

RunReconnect ==
    /\ Runs("reconnect")
    /\ IF TimerCounts
       THEN \E token \in BOOLEAN : Finish(StartNow(w, token))
       ELSE Finish(w)

RunConflictRetry ==
    /\ Runs("retry") \/ Runs("cooldown")
    /\ IF TimerCounts
       THEN \E token \in BOOLEAN, manual \in {"none", "manual"} :
              Finish(RetrySessionConflict(w, Head(queue).op = "cooldown", token, manual))
       ELSE Finish(w)

\* The import fails at once without a Steam session, and otherwise waits.
RunImport ==
    /\ Runs("import")
    /\ queue' = Tail(queue)
    /\ importing' = (w.client \in {"on", "leaving"})
    /\ UNCHANGED <<w, phase, elsewhere, lapses>>

ImportEnds ==
    /\ importing
    /\ importing' = FALSE
    /\ UNCHANGED <<w, queue, phase, elsewhere, lapses>>

(***************************************************************************)
(* What reaches the queue                                                  *)
(***************************************************************************)

\* runFarmingInterruption halts farming before the operation is queued; a start
\* of an account that is farming already is dropped.
Command(op) ==
    /\ phase = "up" /\ Settled /\ Len(queue) < MaxQueue
    /\ op \in Requests \cap Commands
    /\ ~(op = "start" /\ w.connected /\ w.farming # "off" /\ w.status \in Active)
    /\ w' = ClearFarmingSelection(w, FALSE)
    /\ queue' = Append(Restamp(queue, FALSE, TRUE), Op(op, "none"))
    /\ UNCHANGED <<importing, phase, elsewhere, lapses>>

ServiceRequest(op) ==
    /\ phase = "up" /\ Settled /\ Len(queue) < MaxQueue
    /\ op \in Requests \ Commands
    /\ queue' = Append(queue, Op(op, "none"))
    /\ UNCHANGED <<w, importing, phase, elsewhere, lapses>>

ReconnectTimerFires ==
    /\ phase = "up" /\ Settled /\ Len(queue) < MaxQueue
    /\ w.reconnect # "off"
    /\ w' = [w EXCEPT !.reconnect = "off"]
    /\ queue' = Append(queue, [op |-> "reconnect", arg |-> "none",
                               live |-> w.reconnect = "live"])
    /\ UNCHANGED <<importing, phase, elsewhere, lapses>>

ConflictTimerFires ==
    /\ phase = "up" /\ Settled /\ Len(queue) < MaxQueue
    /\ w.conflict # "off"
    /\ w' = [w EXCEPT !.conflict = "off"]
    /\ queue' = Append(queue, [op   |-> IF w.conflict = "cooldown"
                                       THEN "cooldown" ELSE "retry",
                               arg  |-> "none",
                               live |-> w.conflict # "stale"])
    /\ UNCHANGED <<importing, phase, elsewhere, lapses>>

(***************************************************************************)
(* The steam-user client and Steam                                         *)
(***************************************************************************)

\* A listener drops events once the worker is quiescing.
Emit(items) ==
    /\ phase # "down" /\ (phase = "up" => Settled)
    /\ Len(queue) + Len(items) <= MaxQueue
    /\ queue' = IF phase = "up" THEN queue \o items ELSE queue
    /\ UNCHANGED <<importing, phase, lapses>>

Client(from, to) ==
    w.client = from /\ w' = [w EXCEPT !.client = to, !.playing = "none"]

LogOnAccepted ==
    /\ Client("connecting", "on")
    /\ Emit(<<Op("loggedOn", "none")>> \o
            IF elsewhere THEN <<Op("blocked", "none")>> ELSE <<>>)
    /\ UNCHANGED elsewhere

\* steam-user reports a loss by "error", by "disconnected", or by both, where
\* the second need not repeat the result.
LossReports(failure) ==
    {<<Op("error", failure)>>, <<Op("disconnected", failure)>>} \cup
        {<<Op("error", failure), Op("disconnected", second)>> :
            second \in {failure, "transient"}}

LogOnFails ==
    /\ Client("connecting", "off")
    /\ \E failure \in Failures : \E items \in LossReports(failure) : Emit(items)
    /\ UNCHANGED elsewhere

SessionDrops ==
    /\ Client("on", "off")
    /\ \E failure \in Failures : \E items \in LossReports(failure) : Emit(items)
    /\ UNCHANGED elsewhere

LogOffCompletes ==
    /\ Client("leaving", "off")
    /\ Emit(<<Op("disconnected", "transient")>>)
    /\ UNCHANGED elsewhere

LogOnRefused ==
    /\ Client("refused", "off")
    /\ Emit(<<Op("error", "transient")>>)
    /\ UNCHANGED elsewhere

\* Steam tells a logged-on client when another session begins or ends to play.
OtherSessionChanges ==
    /\ elsewhere' = ~elsewhere
    /\ Emit(IF w.client # "on" THEN <<>>
            ELSE <<Op(IF elsewhere THEN "free" ELSE "blocked", "none")>>)
    /\ UNCHANGED w

\* Steam answers games reported while the other session plays.
GamesRefused ==
    /\ elsewhere /\ w.client = "on" /\ w.playing # "none"
    /\ Emit(<<Op("blocked", "none")>>)
    /\ UNCHANGED <<w, elsewhere>>

(***************************************************************************)
(* Shutdown, crash and start of the process                                *)
(***************************************************************************)

\* What waits in the queue is rejected; farming that will not resume pauses the
\* account, in the shutdown's last operation.
BeginShutdown ==
    /\ phase = "up" /\ Settled
    /\ phase' = "stopping"
    /\ queue' = <<>>
    /\ \E resumes \in BOOLEAN :
          LET t == ResetSessionConflict(ClearRetryTimers(
                       ClearFarmingSelection(w, FALSE)))
          IN w' = IF w.farming # "off" /\ ~resumes
                  THEN SetDesiredState(t, "paused") ELSE t
    /\ UNCHANGED <<importing, elsewhere, lapses>>

FinishShutdown ==
    /\ phase = "stopping" /\ ~importing
    /\ phase' = "down"
    /\ w' = SetStatus([ReportGames(w, "none") EXCEPT !.connected = FALSE,
                                                     !.client = "off"],
                      "disconnected")
    /\ UNCHANGED <<queue, importing, elsewhere, lapses>>

\* Only the database row survives a crash.
Reborn(s) ==
    [ResetSessionConflict(ClearRetryTimers(ClearFarmingSelection(s, FALSE)))
        EXCEPT !.connected = FALSE, !.paused = FALSE, !.reported = "none",
               !.client = "off", !.playing = "none"]

Crash ==
    /\ phase # "down"
    /\ phase' = "down"
    /\ w' = Reborn(w) /\ queue' = <<>> /\ importing' = FALSE
    /\ UNCHANGED <<elsewhere, lapses>>

\* init starts every account that should run, unless a hold defers it.
Boot ==
    /\ phase = "down"
    /\ phase' = "up"
    /\ w' = Reborn(w)
    /\ \/ /\ w.desired = "running"
          /\ queue' = <<Op("auto_start", "none")>>
          /\ lapses' = IF w.status = "connecting" THEN {"boot"} ELSE {}
       \/ queue' = <<>> /\ lapses' = {"held"}
    /\ UNCHANGED <<importing, elsewhere>>

(***************************************************************************)
(* The specification                                                       *)
(***************************************************************************)

\* The row that a sign-in leaves behind, before a worker has been made for it.
Init ==
    /\ w = [desired |-> "running", status |-> "disconnected", health |-> "clear",
            connected |-> FALSE, paused |-> FALSE, blocked |-> FALSE,
            farming |-> "off", awaiting |-> FALSE, reported |-> "none",
            reconnect |-> "off", conflict |-> "off", attempt |-> 0,
            mode |-> "none", handled |-> FALSE, client |-> "off",
            playing |-> "none"]
    /\ queue = <<>> /\ importing = FALSE
    /\ phase = "down" /\ elsewhere = FALSE /\ lapses = {}

Runner ==
    \/ RunStart \/ RunStop \/ RunPause \/ RunSafetyPause \/ RunResume \/ RunUpdate
    \/ RunFarmResume \/ RunFarmSelection \/ RunFarmEnd
    \/ RunIgnoredEvent \/ RunLoggedOn \/ RunPlayingState \/ RunDisconnected
    \/ RunError \/ RunReconnect \/ RunConflictRetry \/ RunImport \/ ImportEnds

Arrival ==
    \/ \E op \in Requests : Command(op) \/ ServiceRequest(op)
    \/ ReconnectTimerFires \/ ConflictTimerFires

Steam ==
    \/ LogOnAccepted \/ LogOnFails \/ SessionDrops \/ LogOffCompletes
    \/ LogOnRefused \/ OtherSessionChanges \/ GamesRefused

Process == BeginShutdown \/ FinishShutdown \/ Crash \/ Boot

Next == Runner \/ Arrival \/ Steam \/ Process

Spec == Init /\ [][Next]_vars

\* Node drains the queue and serves due timers whatever else arrives; and of the answers
\* that a client waits for, however often it is given up or refused, some come: Steam
\* accepts a login that is tried again and again.
Fairness ==
    /\ WF_vars(Runner)
    /\ SF_vars(ReconnectTimerFires \/ ConflictTimerFires)
    /\ SF_vars(LogOnAccepted \/ LogOffCompletes \/ LogOnRefused)

FairSpec == Spec /\ Fairness

(***************************************************************************)
(* Properties                                                              *)
(***************************************************************************)

TypeOK ==
    /\ w \in Worker
    /\ queue \in Seq(Item)
    /\ importing \in BOOLEAN
    /\ phase \in {"up", "stopping", "down"}
    /\ elsewhere \in BOOLEAN
    /\ lapses \subseteq Lapses

ReconnectArmed == w.reconnect = "live"
ConflictArmed  == w.conflict \in {"retry", "cooldown"}

\* An account that should run is never left without a way forward: it is logged
\* on, logging on, or waiting for a retry timer.
RecoveryArmed ==
    Idle /\ w.desired = "running" /\ lapses = {} =>
        \/ w.client = "on" /\ w.connected
        \/ w.client \in {"connecting", "refused"}
        \/ ReconnectArmed \/ ConflictArmed

\* The backoff timer and the conflict timer never run against each other.
OneRetryTimer == w.reconnect = "off" \/ w.conflict = "off"

\* Steam shows no games for an account that was paused or stopped, except when
\* every safety fallback failed and the account is marked for attention.
PausedIsQuiet ==
    Idle /\ w.desired # "running" /\ "attention" \notin lapses => w.playing = "none"

\* What comes late does no harm: no timer and no Steam event takes an account out of a
\* pause or a stop; and a login conflict keeps its own retry, which no other report of
\* the same loss and no late event replaces by the ordinary backoff.
LateEventsAreHarmless ==
    [][/\ w.desired # "running" /\ w'.desired = "running"
            => queue # <<>> /\ Head(queue).op \in Commands \cup Services
       /\ w.handled /\ w.conflict # "off" => w'.reconnect = "off"]_vars

\* Steam shows what it may, and the server shows what Steam shows.  Farming games are
\* played only under a farming selection, and manual games only while farming neither
\* holds nor has reserved the account; while another session plays, games reach Steam
\* only from the retry of a live conflict, which then waits for its answer with a timer
\* running.  An account shown as online or boosting has a session, and one shown as
\* boosting has its games on Steam; a refused login is about to be reported.
GamesAreShown ==
    Idle =>
        /\ "attention" \notin lapses =>
              /\ w.playing = "farming" => w.farming = "games"
              /\ w.playing = "manual"  => w.farming = "off" /\ ~w.awaiting
        /\ w.blocked /\ w.playing # "none" => w.mode = "live" /\ ConflictArmed
        /\ w.connected /\ w.client = "on" => w.reported = w.playing
        /\ w.status \in Active /\ lapses = {} /\ w.client # "refused" =>
              /\ w.connected /\ w.client = "on"
              /\ (w.status = "boosting") <=> (w.playing # "none")

\* An account that is left in the running state is logged on again and again.
RecoversWhenSteamAccepts ==
    <>[](phase = "up" /\ w.desired = "running" /\ lapses = {}) => []<>w.connected
=============================================================================
