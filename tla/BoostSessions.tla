---------------------------- MODULE BoostSessions ----------------------------
(***************************************************************************)
(* Boost sessions and the caps that are computed from them                 *)
(* (steam/boost-session-tracker.ts, steam/safety-coordinator.ts and what   *)
(* steam/manager.ts does for them), for one account.                       *)
(*                                                                         *)
(* The worker reports what it plays; each report waits for its turn in the *)
(* account's queue and then opens, closes or replaces the row of a         *)
(* session.  Every minute a tick adds the rows up, and queues a pause when *)
(* a cap is reached.  Users pause, resume and change the caps; the process *)
(* shuts down or crashes, and closes what a crash left open when it starts *)
(* again.  A pause that fails is a matter of SteamWorker.                  *)
(***************************************************************************)
EXTENDS Integers, Sequences, FiniteSets, FiniteSetsExt, SequencesExt

CONSTANTS
    Targets,        \* what can be played: games with their preset, or farming
    CapSets,        \* the caps that users choose
    DayLength, WeekLength,
    MaxNow,         \* the last instant
    MaxQueue,       \* operations that wait for the account at a time
    None

Reasons == <<"session_limit", "daily_limit", "weekly_limit">>

ASSUME BoostAssumption ==
    /\ {DayLength, WeekLength} \subseteq Nat \ {0} /\ WeekLength % DayLength = 0
    /\ MaxNow \in Nat /\ MaxQueue \in Nat \ {0}
    /\ \A caps \in CapSets, i \in DOMAIN Reasons : caps[Reasons[i]] \in Nat \cup {None}

\* What stands for no time and for no session is neither.
ASSUME NoneAssumption == None \notin Nat \cup [start : Nat, target : Targets \cup {None}]

VARIABLES
    now,
    phase,          \* of the process: "up", "stopping" or "down"
    row,            \* the account: whether its status is boosting, what is desired, its hold
    caps,
    plays,          \* what the worker has reported last
    queue,          \* what waits for the account: statuses, pauses, resumes, one cap
    rows,           \* the sessions, by their starts
    opening,        \* a session that replaces one that has been closed
    since,          \* history: when the account began to play, as far as statuses tell
    stamp,          \* history: when an open session was last written
    known           \* history: the instants at which it played; those that crashes lost

account  == <<row, caps>>
sessions == <<rows, opening>>
history  == <<since, stamp, known>>
vars     == <<now, phase, row, caps, plays, queue, rows, opening, since, stamp, known>>

Status(target) == [op |-> "status", target |-> target, at |-> 0]
Request(op)    == [op |-> op, target |-> None, at |-> 0]
Cap(at)        == [op |-> "cap", target |-> None, at |-> at]

(***************************************************************************)
(* The caps                                                                *)
(***************************************************************************)

Open == {i \in DOMAIN rows : rows[i].end = None}

\* Mutant: a change of games begins a new session for the cap, too.
Continues_Never(session, start) == FALSE

\* A session that was replaced at the very instant belongs to the one that replaced it.
Continues(session, start) ==
    /\ session.end = start /\ session.reason = "selection_changed"
    /\ session.start < start

\* continuousSessionMs, from the last session to the first
Continuous(t) ==
    LET from[i \in 1..Len(rows) + 1] ==
            IF i = Len(rows) + 1 THEN Min({rows[j].start : j \in Open})
            ELSE IF Continues(rows[i], from[i + 1]) THEN rows[i].start
            ELSE from[i + 1]
    IN  IF Open = {} THEN 0 ELSE Max({0, t - from[1]})

\* sumOverlap: the instants of the range that each session holds, one session at a time
Overlap(from, t) ==
    LET holds(session, at) == session.start <= at /\ (session.end # None => at < session.end)
    IN  Cardinality({p \in (DOMAIN rows) \X (from..(t - 1)) : holds(rows[p[1]], p[2])})

StartOf(length, t) == t - (t % length)

Consumed(t) == [session_limit |-> Continuous(t),
                daily_limit   |-> Overlap(StartOf(DayLength, t), t),
                weekly_limit  |-> Overlap(StartOf(WeekLength, t), t)]

\* exceededCap: the first that is reached
Exceeded(t) ==
    LET reached(i) == caps[Reasons[i]] # None /\ Consumed(t)[Reasons[i]] >= caps[Reasons[i]]
        all == {i \in DOMAIN Reasons : reached(i)}
    IN  IF all = {} THEN None ELSE Reasons[Min(all)]

Capped(t) == row.boosting /\ row.desired = "running" /\ row.hold = None /\ Exceeded(t) # None

\* tickNow: what is read first, and again when it is the account's turn.
Tick ==
    /\ phase = "up" /\ \A i \in DOMAIN queue : queue[i].op # "cap"
    /\ Capped(now)
    /\ queue' = Append(queue, Cap(now))
    /\ UNCHANGED <<now, phase, row, caps, plays, rows, opening, since, stamp, known>>

(***************************************************************************)
(* The sessions                                                            *)
(***************************************************************************)

\* What was played in a session that is over is not asked for here.
Ended(session, end, reason) ==
    [session EXCEPT !.end = end, !.reason = reason, !.target = None, !.seen = None]

Closed(reason, open) ==
    [i \in DOMAIN rows |-> IF i \in open THEN Ended(rows[i], now, reason) ELSE rows[i]]

Session(start, target) ==
    [start |-> start, end |-> None, reason |-> None, target |-> target, seen |-> start]

\* Mutant: a second session is opened beside the one that is open.
Replaced_None == {}

\* endBoostSession before another session is opened
Replaced == Open

\* trackBoostSession: nothing if the session is that of the games already.
Track(target) ==
    IF target = None
    THEN rows' = Closed("status", Open) /\ opening' = opening /\ stamp' = 0
    ELSE IF Cardinality(Open) = 1 /\ \A i \in Open : rows[i].target = target
    THEN UNCHANGED <<rows, opening, stamp>>
    ELSE IF Open = {}
    THEN rows' = Append(rows, Session(now, target)) /\ opening' = opening /\ stamp' = now
    ELSE /\ rows' = Closed("selection_changed", Replaced)
         /\ opening' = [start |-> now, target |-> target] /\ stamp' = now

\* An instant passes, in which the account plays or does not.
Passes(playing) ==
    /\ now < MaxNow /\ now' = now + 1
    /\ known' = [known EXCEPT !.played = IF playing THEN @ \cup {now} ELSE @]

Turn == phase # "down" /\ opening = None /\ queue # <<>>

\* processWorkerStatus: two statuses are never processed in one instant.
ProcessStatus ==
    /\ Turn /\ Head(queue).op = "status"
    /\ LET target == Head(queue).target IN
        /\ Track(target)
        /\ since' = IF target = None THEN None ELSE IF since = None THEN now ELSE since
        /\ Passes(target # None)
    /\ queue' = Tail(queue)
    /\ UNCHANGED <<phase, account, plays>>

\* The second half of a replacement
OpenSession ==
    /\ phase # "down" /\ opening # None
    /\ rows' = Append(rows, Session(opening.start, opening.target)) /\ opening' = None
    /\ UNCHANGED <<now, phase, account, plays, queue, history>>

\* markOpenBoostSessionsSeen
Heartbeat ==
    /\ phase = "up" /\ Open # {}
    /\ rows' = [i \in DOMAIN rows |-> IF i \in Open THEN [rows[i] EXCEPT !.seen = now]
                                      ELSE rows[i]]
    /\ stamp' = now
    /\ UNCHANGED <<now, phase, account, plays, queue, opening, since, known>>

Time ==
    /\ Passes(phase # "down" /\ since # None)
    /\ UNCHANGED <<phase, account, plays, queue, sessions, since, stamp>>

(***************************************************************************)
(* The worker and the users                                                *)
(***************************************************************************)

Room == Len(queue) < MaxQueue

\* What the worker plays changes (games, farming, a loss, another session), or is told
\* again with an error.
Report ==
    /\ phase = "up" /\ Room
    /\ \E target \in Targets \cup {None} :
        /\ target = plays => target # None
        /\ target # None => row.desired = "running" /\ row.hold = None
        /\ plays' = target /\ row' = [row EXCEPT !.boosting = target # None]
        /\ queue' = Append(queue, Status(target))
    /\ UNCHANGED <<now, phase, caps, sessions, history>>

Ask ==
    /\ phase = "up" /\ Room
    /\ \E op \in {"pause", "resume"} : queue' = Append(queue, Request(op))
    /\ UNCHANGED <<now, phase, account, plays, sessions, history>>

SaveCaps ==
    /\ phase = "up" /\ caps' \in CapSets \ {caps}
    /\ UNCHANGED <<now, phase, row, plays, queue, sessions, history>>

\* worker.pause, whose status waits behind what waits already
Paused(hold) ==
    /\ row' = [boosting |-> FALSE, desired |-> "paused", hold |-> hold]
    /\ plays' = None
    /\ queue' = IF plays = None THEN Tail(queue) ELSE Append(Tail(queue), Status(None))

Rejected == queue' = Tail(queue) /\ UNCHANGED <<row, plays>>

\* tickNow, in the account's queue
StillCapped(t) == Capped(t)

\* runAccountOperation refuses everything once the process shuts down.
RunOperation ==
    /\ Turn /\ Head(queue).op # "status"
    /\ LET head == Head(queue) IN
        \/ phase = "stopping" /\ Rejected
        \/ phase = "up" /\ head.op = "pause" /\ Paused("manual")
        \/ /\ phase = "up" /\ head.op = "resume"
           /\ row' = [row EXCEPT !.desired = "running", !.hold = None]
           /\ queue' = Tail(queue) /\ plays' = plays
        \/ phase = "up" /\ head.op = "cap" /\ StillCapped(head.at) /\ Paused(Exceeded(head.at))
        \/ phase = "up" /\ head.op = "cap" /\ ~StillCapped(head.at) /\ Rejected
    /\ UNCHANGED <<now, phase, caps, sessions, history>>

(***************************************************************************)
(* The process                                                             *)
(***************************************************************************)

Gone ==
    /\ plays' = None /\ queue' = <<>> /\ opening' = None
    /\ since' = None /\ stamp' = 0

\* From when on nothing of what was played has been written
Unwritten == IF opening # None THEN opening.start ELSE stamp

\* What a pause has written before it reaches the worker (setSafetyHold)
Held ==
    IF phase # "up" \/ ~Turn THEN {}
    ELSE CASE Head(queue).op = "pause" -> {[row EXCEPT !.hold = "manual"]}
           [] Head(queue).op = "cap" /\ StillCapped(Head(queue).at) ->
                 {[row EXCEPT !.hold = Exceeded(Head(queue).at)]}
           [] OTHER -> {}

Crash ==
    /\ phase # "down" /\ phase' = "down" /\ Gone
    /\ row' \in {row} \cup Held
    /\ known' = [known EXCEPT !.lost = IF since = None THEN @
                                        ELSE @ \cup {t \in known.played : t >= Unwritten}]
    /\ UNCHANGED <<now, caps, rows>>

\* beginShutdown: the listeners of the worker are removed, and the queue is drained.
BeginShutdown ==
    /\ phase = "up" /\ phase' = "stopping"
    /\ UNCHANGED <<now, account, plays, queue, sessions, history>>

\* shutdownNow, closeBoostSession
FinishShutdown ==
    /\ phase = "stopping" /\ queue = <<>> /\ opening = None
    /\ phase' = "down" /\ rows' = Closed("status", Open) /\ Gone
    /\ row' = [row EXCEPT !.boosting = FALSE]
    /\ UNCHANGED <<now, caps, known>>

\* Mutant: what a crash left open ends when the process starts again.
InterruptedAt_Now(session) == now

\* It ends when it was last seen.
InterruptedAt(session) == Max({session.start, session.seen})

\* closeInterruptedBoostSessions; the status in the row is that of the last process.
Boot ==
    /\ phase = "down" /\ phase' = "up"
    /\ rows' = [i \in DOMAIN rows |->
                IF i \in Open THEN Ended(rows[i], InterruptedAt(rows[i]), "interrupted")
                ELSE rows[i]]
    /\ UNCHANGED <<now, account, plays, queue, opening, history>>

(***************************************************************************)
(* The specification                                                       *)
(***************************************************************************)

Init ==
    /\ now = 0 /\ phase = "up" /\ caps \in CapSets
    /\ row = [boosting |-> FALSE, desired |-> "running", hold |-> None]
    /\ plays = None /\ queue = <<>> /\ rows = <<>> /\ opening = None
    /\ since = None /\ stamp = 0 /\ known = [played |-> {}, lost |-> {}]

Next ==
    \/ Tick \/ ProcessStatus \/ OpenSession \/ Heartbeat \/ Time
    \/ Report \/ Ask \/ SaveCaps \/ RunOperation
    \/ Crash \/ BeginShutdown \/ FinishShutdown \/ Boot

\* The queue is worked off and the ticks of the caps go on.
Fairness ==
    /\ WF_vars(ProcessStatus) /\ WF_vars(OpenSession) /\ WF_vars(RunOperation)
    /\ SF_vars(Tick)

Spec == Init /\ [][Next]_vars /\ Fairness

(***************************************************************************)
(* Properties                                                              *)
(***************************************************************************)

\* At most one session is open, and one that is being replaced is not.
TypeOK ==
    /\ now \in 0..MaxNow /\ phase \in {"up", "stopping", "down"} /\ caps \in CapSets
    /\ row.desired \in {"running", "paused"} /\ row.hold \in Range(Reasons) \cup {None, "manual"}
    /\ plays \in Targets \cup {None}
    /\ Cardinality(Open) <= IF opening = None THEN 1 ELSE 0
    /\ known.lost \subseteq known.played

Instants(session) == session.start..((IF session.end = None THEN now ELSE session.end) - 1)

\* The rows say when the account played, as far as statuses told: no instant is missing
\* but those that a crash lost, none is counted twice, and none while the process was
\* down.  What the cap of a session counts goes on through changes of games, and begins
\* anew after everything else (boost-session-tracker.ts:36-115, 119-160,
\* safety-coordinator.ts:173-199).
TimeIsCounted ==
    phase # "down" /\ opening = None =>
        /\ UNION {Instants(rows[i]) : i \in DOMAIN rows} = known.played \ known.lost
        /\ Overlap(0, now) = Cardinality(known.played \ known.lost)
        /\ Continuous(now) = IF since = None THEN 0 ELSE now - since

\* The account has played for as long as a cap allows, and the statuses are processed.
OverCap ==
    /\ now < MaxNow /\ phase = "up" /\ row.hold = None /\ plays # None /\ since # None
    /\ \/ caps.session_limit # None /\ now - since >= caps.session_limit
       \/ /\ caps.daily_limit # None
          /\ Cardinality({t \in known.played \ known.lost : t >= StartOf(DayLength, now)})
                >= caps.daily_limit

\* A cap that is reached stops the account (tickNow), whatever is queued, reported, saved
\* or restarted meanwhile.
CapsAreEnforced == OverCap ~> ~OverCap
=============================================================================
