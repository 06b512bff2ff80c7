-------------------------- MODULE SteamWorkerProofs --------------------------
(***************************************************************************)
(* What holds of SteamWorker for every queue bound and every set of        *)
(* requests.  First come the worker's helpers: the type of what they       *)
(* return and what they leave alone.  Then each handler as one step of the *)
(* worker, and at last the invariants, with one step per action.           *)
(***************************************************************************)
EXTENDS SteamWorker, TLAPS

(***************************************************************************)
(* The helpers                                                             *)
(***************************************************************************)

Desires == {"running", "paused", "stopped"}

\* The parts of the worker that most helpers leave alone.
SameSession(s, t) ==
    /\ t.desired = s.desired
    /\ t.connected = s.connected
    /\ t.paused = s.paused
    /\ t.client = s.client
    /\ t.playing = s.playing

SameTimers(s, t) == t.reconnect = s.reconnect /\ t.conflict = s.conflict

OneTimer(s) == s.reconnect = "off" \/ s.conflict = "off"

\* The literals that the helpers store have the types of their fields.
LEMMA Literals ==
    /\ "none" \in Payloads /\ "manual" \in Payloads /\ "farming" \in Payloads
    /\ 0 \in 0 .. 3 /\ 3 \in 0 .. 3
    /\ \A st \in {"online", "boosting", "disconnected", "connecting", "paused_manual",
                  "paused_other_session", "reconnecting", "error", "login_required"} :
          st \in Statuses
  BY DEF Payloads, Statuses, Active

\* setDesiredState touches the intent and outdates the timers, nothing else.
LEMMA SetDesiredStateFacts ==
    ASSUME NEW s \in Worker, NEW d \in Desires
    PROVE  LET t == SetDesiredState(s, d)
           IN /\ t \in Worker
              /\ t.desired = d /\ t.connected = s.connected /\ t.paused = s.paused
              /\ t.client = s.client /\ t.playing = s.playing
              /\ OneTimer(s) => OneTimer(t)
<1>1. CASE s.desired = d
  BY <1>1 DEF SetDesiredState
<1>2. CASE s.desired # d
  <2>1. Stale(s.reconnect) \in {"off", "stale"} /\ Stale(s.conflict) \in {"off", "stale"}
    BY DEF Stale
  <2>2. SetDesiredState(s, d) \in Worker
    BY <1>2, <2>1 DEF SetDesiredState, Worker, Desires
  <2>3. QED
    BY <1>2, <2>2 DEF SetDesiredState, Stale, OneTimer, Worker
<1> QED
  BY <1>1, <1>2

LEMMA ClearFarmingSelectionFacts ==
    ASSUME NEW s \in Worker, NEW keep \in BOOLEAN
    PROVE  LET t == ClearFarmingSelection(s, keep)
           IN t \in Worker /\ SameSession(s, t) /\ SameTimers(s, t)
<1>1. ClearFarmingSelection(s, keep) \in Worker
  <2>1. CASE s.awaiting /\ keep
    BY <2>1 DEF ClearFarmingSelection, Worker
  <2>2. CASE ~(s.awaiting /\ keep)
    BY <2>2 DEF ClearFarmingSelection, Worker
  <2> QED
    BY <2>1, <2>2
<1> QED
  BY <1>1 DEF ClearFarmingSelection, SameSession, SameTimers, Worker

\* A status that is neither online nor boosting also takes the farming selection.
LEMMA SetStatusFacts ==
    ASSUME NEW s \in Worker, NEW st \in Statuses
    PROVE  LET t == SetStatus(s, st)
           IN t \in Worker /\ SameSession(s, t) /\ SameTimers(s, t)
<1> DEFINE u == [s EXCEPT !.status = st]
<1>1. u \in Worker /\ SameSession(s, u) /\ SameTimers(s, u)
  BY DEF Worker, SameSession, SameTimers
<1>2. CASE s.status = st
  BY <1>2 DEF SetStatus, SameSession, SameTimers
<1>3. CASE s.status # st /\ st \in Active
  BY <1>1, <1>3 DEF SetStatus
<1>4. CASE s.status # st /\ st \notin Active
  <2>1. SetStatus(s, st) = ClearFarmingSelection(u, TRUE)
    BY <1>4 DEF SetStatus
  <2> DEFINE v == ClearFarmingSelection(u, TRUE)
  <2>2. v \in Worker /\ SameSession(u, v) /\ SameTimers(u, v)
    BY <1>1, ClearFarmingSelectionFacts
  <2> HIDE DEF u, v
  <2>3. v \in Worker /\ SameSession(s, v) /\ SameTimers(s, v)
    BY <1>1, <2>2 DEF SameSession, SameTimers
  <2> QED
    BY <2>1, <2>3 DEF v
<1> QED
  BY <1>2, <1>3, <1>4

\* Steam shows what is reported, over a logged-on client only.
LEMMA ReportGamesFacts ==
    ASSUME NEW s \in Worker, NEW p \in Payloads
    PROVE  LET t == ReportGames(s, p)
           IN /\ t \in Worker
              /\ t.desired = s.desired /\ t.connected = s.connected
              /\ t.paused = s.paused /\ t.client = s.client
              /\ SameTimers(s, t)
              /\ t.playing = IF s.client = "on" THEN p ELSE "none"
<1>1. CASE s.client = "on"
  <2>1. ReportGames(s, p) = [s EXCEPT !.reported = p, !.playing = p]
    BY <1>1 DEF ReportGames
  <2> QED
    BY <1>1, <2>1 DEF SameTimers, Worker
<1>2. CASE s.client # "on"
  <2>1. ReportGames(s, p) = [s EXCEPT !.reported = p, !.playing = "none"]
    BY <1>2 DEF ReportGames
  <2>2. ReportGames(s, p) \in Worker
    BY <2>1, Literals DEF Worker
  <2> QED
    BY <1>2, <2>1, <2>2 DEF SameTimers, Worker
<1> QED
  BY <1>1, <1>2

LEMMA ClearRetryTimersFacts ==
    ASSUME NEW s \in Worker
    PROVE  LET t == ClearRetryTimers(s)
           IN /\ t \in Worker /\ SameSession(s, t)
              /\ t.reconnect = "off" /\ t.conflict = "off"
  BY DEF ClearRetryTimers, SameSession, Worker

LEMMA ResetSessionConflictFacts ==
    ASSUME NEW s \in Worker
    PROVE  LET t == ResetSessionConflict(s)
           IN t \in Worker /\ SameSession(s, t) /\ SameTimers(s, t)
<1>1. ResetSessionConflict(s) \in Worker
  BY Literals DEF ResetSessionConflict, Worker
<1> QED
  BY <1>1 DEF ResetSessionConflict, SameSession, SameTimers, Worker

LEMMA ClearRecoveryHealthFacts ==
    ASSUME NEW s \in Worker
    PROVE  LET t == ClearRecoveryHealth(s)
           IN t \in Worker /\ SameSession(s, t) /\ SameTimers(s, t)
  BY DEF ClearRecoveryHealth, SameSession, SameTimers, Worker

\* What the client's steps store.
LEMMA ClientFacts ==
    ASSUME NEW s \in Worker, NEW c \in {"off", "connecting", "on", "leaving", "refused"}
    PROVE  [s EXCEPT !.client = c, !.playing = "none"] \in Worker
<1> DEFINE u == [s EXCEPT !.client = c]
           v == [u EXCEPT !.playing = "none"]
<1>1. u \in Worker
  BY DEF Worker
<1> HIDE DEF u
<1>2. v \in Worker
  BY <1>1, Literals DEF Worker
<1>3. v = [s EXCEPT !.client = c, !.playing = "none"]
  BY DEF u
<1> QED
  BY <1>2, <1>3

LEMMA LogOnFacts ==
    ASSUME NEW s \in Worker
    PROVE  LET t == LogOn(s)
           IN /\ t \in Worker
              /\ t.desired = s.desired /\ t.connected = s.connected
              /\ t.paused = s.paused /\ SameTimers(s, t)
              /\ t.client \in {"connecting", "refused"} /\ t.playing = "none"
<1>1. CASE s.client = "off"
  <2>1. LogOn(s) = [s EXCEPT !.client = "connecting", !.playing = "none"]
    BY <1>1 DEF LogOn
  <2>2. LogOn(s) \in Worker
    BY <2>1, ClientFacts
  <2> QED
    BY <2>1, <2>2 DEF SameTimers, Worker
<1>2. CASE s.client # "off"
  <2>1. LogOn(s) = [s EXCEPT !.client = "refused", !.playing = "none"]
    BY <1>2 DEF LogOn
  <2>2. LogOn(s) \in Worker
    BY <2>1, ClientFacts
  <2> QED
    BY <2>1, <2>2 DEF SameTimers, Worker
<1> QED
  BY <1>1, <1>2

LEMMA LogOffFacts ==
    ASSUME NEW s \in Worker
    PROVE  LET t == LogOff(s)
           IN /\ t \in Worker
              /\ t.desired = s.desired /\ t.connected = s.connected
              /\ t.paused = s.paused /\ SameTimers(s, t)
              /\ t.client \in {"leaving", "off"} /\ t.playing = "none"
<1>1. CASE s.client \in {"on", "leaving"}
  <2>1. LogOff(s) = [s EXCEPT !.client = "leaving", !.playing = "none"]
    BY <1>1 DEF LogOff
  <2>2. LogOff(s) \in Worker
    BY <2>1, ClientFacts
  <2> QED
    BY <2>1, <2>2 DEF SameTimers, Worker
<1>2. CASE s.client \notin {"on", "leaving"}
  <2>1. LogOff(s) = [s EXCEPT !.client = "off", !.playing = "none"]
    BY <1>2 DEF LogOff
  <2>2. LogOff(s) \in Worker
    BY <2>1, ClientFacts
  <2> QED
    BY <2>1, <2>2 DEF SameTimers, Worker
<1> QED
  BY <1>1, <1>2

\* A session conflict replaces the ordinary reconnect.
LEMMA RegisterSessionConflictFacts ==
    ASSUME NEW s \in Worker, NEW source \in {"login", "live"}
    PROVE  LET t == RegisterSessionConflict(s, source)
           IN t \in Worker /\ SameSession(s, t) /\ t.reconnect = "off"
<1> DEFINE n == IF s.attempt < 3 THEN s.attempt + 1 ELSE 3
           c == IF n >= 3 THEN "cooldown" ELSE "retry"
<1>1. n \in 0 .. 3
  BY DEF Worker
<1>2. c \in {"retry", "cooldown"}
  OBVIOUS
<1>3. RegisterSessionConflict(s, source) =
        [s EXCEPT !.reconnect = "off", !.mode = source, !.attempt = n,
                  !.health = "scheduled", !.conflict = c]
  BY DEF RegisterSessionConflict
<1> HIDE DEF n, c
<1>4. RegisterSessionConflict(s, source) \in Worker
  <2> DEFINE u == [s EXCEPT !.reconnect = "off", !.health = "scheduled"]
             v == [u EXCEPT !.mode = source]
             y == [v EXCEPT !.conflict = c]
  <2>1. u \in Worker
    BY DEF Worker
  <2> HIDE DEF u
  <2>2. v \in Worker
    BY <2>1 DEF Worker
  <2> HIDE DEF v
  <2>3. y \in Worker
    BY <1>2, <2>2 DEF Worker
  <2> HIDE DEF y
  <2>4. [y EXCEPT !.attempt = n] \in Worker
    BY <1>1, <2>3 DEF Worker
  <2>5. RegisterSessionConflict(s, source) = [y EXCEPT !.attempt = n]
    BY <1>3, <2>1 DEF Worker, u, v, y
  <2> QED
    BY <2>4, <2>5
<1> QED
  BY <1>3, <1>4 DEF SameSession, Worker

\* An ordinary reconnect replaces the session conflict.
LEMMA ScheduleReconnectFacts ==
    ASSUME NEW s \in Worker
    PROVE  LET t == ScheduleReconnect(s)
           IN t \in Worker /\ SameSession(s, t) /\ t.conflict = "off"
<1> DEFINE u == ResetSessionConflict(ClearRetryTimers(s))
<1>1. u \in Worker /\ SameSession(s, u) /\ u.conflict = "off"
  BY ClearRetryTimersFacts, ResetSessionConflictFacts DEF SameSession, SameTimers
<1>2. ScheduleReconnect(s) = [u EXCEPT !.reconnect = "live", !.health = "scheduled"]
  BY DEF ScheduleReconnect
<1> HIDE DEF u
<1>3. ScheduleReconnect(s) \in Worker
  BY <1>1, <1>2 DEF Worker
<1>4. SameSession(u, ScheduleReconnect(s)) /\ ScheduleReconnect(s).conflict = "off"
  BY <1>1, <1>2 DEF SameSession, Worker
<1> QED
  BY <1>1, <1>3, <1>4 DEF SameSession

LEMMA PayloadFacts ==
    ASSUME NEW s \in Worker, NEW manual \in {"none", "manual"}
    PROVE  Payload(s, manual) \in Payloads
<1>1. CASE s.farming = "games"
  BY <1>1, Literals DEF Payload
<1>2. CASE s.farming = "empty" \/ (s.farming = "off" /\ s.awaiting)
  BY <1>2, Literals DEF Payload
<1>3. CASE s.farming = "off" /\ ~s.awaiting
  BY <1>3, Literals DEF Payload
<1> QED
  BY <1>1, <1>2, <1>3 DEF Worker

(***************************************************************************)
(* The handlers, each as one step of the worker                            *)
(***************************************************************************)

\* Games are shown over a session; an account that should not run is paused
\* if it is connected, and shows none.
Shown(s) == s.playing # "none" => s.client = "on"
Meek(s)  == s.desired # "running" /\ s.connected => s.paused
Calm(s)  == s.desired # "running" => s.playing = "none"

Step(s, t) ==
    /\ t \in Worker
    /\ OneTimer(s) => OneTimer(t)
    /\ Shown(s) => Shown(t)
    /\ Meek(s) => Meek(t)
    /\ t.client = "on" => s.client = "on"

CalmStep(s, t) == Shown(s) /\ Meek(s) /\ Calm(s) => Calm(t)

LEMMA SameStep ==
    ASSUME NEW s \in Worker, NEW t \in Worker, SameSession(s, t), SameTimers(s, t)
    PROVE  Step(s, t) /\ CalmStep(s, t)
  BY DEF SameSession, SameTimers, Step, CalmStep, OneTimer, Shown, Meek, Calm

LEMMA StepTransitive ==
    ASSUME NEW s, NEW t, NEW u, Step(s, t), CalmStep(s, t), Step(t, u), CalmStep(t, u)
    PROVE  Step(s, u) /\ CalmStep(s, u)
  BY DEF Step, CalmStep

LEMMA ApplyGamesStep ==
    ASSUME NEW s \in Worker, NEW manual \in {"none", "manual"}
    PROVE  Step(s, ApplyGames(s, manual)) /\ CalmStep(s, ApplyGames(s, manual))
<1> DEFINE payload == Payload(s, manual)
<1>1. CASE ~s.connected
  <2>1. ApplyGames(s, manual) = s
    BY <1>1 DEF ApplyGames
  <2> QED
    BY <2>1, SameStep DEF SameSession, SameTimers
<1>2. CASE s.connected
  <2>1. PICK p \in Payloads, st \in Statuses :
           /\ ApplyGames(s, manual) = SetStatus(ReportGames(s, p), st)
           /\ s.paused => p = "none"
    <3>1. CASE s.paused
      BY <1>2, <3>1, Literals DEF ApplyGames
    <3>2. CASE ~s.paused /\ s.blocked
      BY <1>2, <3>2, Literals DEF ApplyGames
    <3>3. CASE ~s.paused /\ ~s.blocked
      BY <1>2, <3>3, Literals, PayloadFacts DEF ApplyGames
    <3> QED
      BY <3>1, <3>2, <3>3
  <2> DEFINE r == ReportGames(s, p)
             t == SetStatus(r, st)
  <2>2. /\ r \in Worker
        /\ r.desired = s.desired /\ r.connected = s.connected
        /\ r.paused = s.paused /\ r.client = s.client
        /\ SameTimers(s, r)
        /\ r.playing = IF s.client = "on" THEN p ELSE "none"
    BY ReportGamesFacts
  <2>3. t \in Worker /\ SameSession(r, t) /\ SameTimers(r, t)
    BY <2>2, SetStatusFacts
  <2> HIDE DEF r, t
  <2>4. Step(s, t) /\ CalmStep(s, t)
    BY <1>2, <2>1, <2>2, <2>3
    DEF SameSession, SameTimers, Step, CalmStep, OneTimer, Shown, Meek, Calm
  <2> QED
    BY <2>1, <2>4 DEF r, t
<1> QED
  BY <1>1, <1>2

LEMMA StartNowStep ==
    ASSUME NEW s \in Worker, NEW token \in BOOLEAN
    PROVE  Step(s, StartNow(s, token)) /\ CalmStep(s, StartNow(s, token))
<1>1. CASE s.status = "connecting" \/ (s.connected /\ s.status \in Active)
  <2>1. StartNow(s, token) = s
    BY <1>1 DEF StartNow
  <2> QED
    BY <2>1, SameStep DEF SameSession, SameTimers
<1>2. CASE ~(s.status = "connecting" \/ (s.connected /\ s.status \in Active)) /\ ~token
  <2>1. StartNow(s, token) = SetStatus(s, "login_required")
    BY <1>2 DEF StartNow
  <2>2. SetStatus(s, "login_required") \in Worker
        /\ SameSession(s, SetStatus(s, "login_required"))
        /\ SameTimers(s, SetStatus(s, "login_required"))
    BY SetStatusFacts, Literals
  <2> QED
    BY <2>1, <2>2, SameStep
<1>3. CASE ~(s.status = "connecting" \/ (s.connected /\ s.status \in Active)) /\ token
  <2> DEFINE a == [s EXCEPT !.paused = FALSE]
             b == SetDesiredState(a, "running")
             c == SetStatus(b, "connecting")
             d == [c EXCEPT !.handled = FALSE]
             t == LogOn(d)
  <2>1. StartNow(s, token) = t
    BY <1>3 DEF StartNow
  <2>2. a \in Worker /\ SameTimers(s, a)
    BY DEF Worker, SameTimers
  <2> HIDE DEF a
  <2>3. b \in Worker /\ b.desired = "running" /\ (OneTimer(a) => OneTimer(b))
    BY <2>2, SetDesiredStateFacts DEF Desires
  <2> HIDE DEF b
  <2>4. c \in Worker /\ SameSession(b, c) /\ SameTimers(b, c)
    BY <2>3, SetStatusFacts, Literals
  <2> HIDE DEF c
  <2>5. d \in Worker /\ SameSession(c, d) /\ SameTimers(c, d)
    BY <2>4 DEF Worker, SameSession, SameTimers
  <2> HIDE DEF d
  <2>6. /\ t \in Worker /\ t.desired = d.desired /\ SameTimers(d, t)
        /\ t.client \in {"connecting", "refused"} /\ t.playing = "none"
    BY <2>5, LogOnFacts
  <2> HIDE DEF t
  <2>7. t.desired = "running" /\ (OneTimer(s) => OneTimer(t))
    BY <2>2, <2>3, <2>4, <2>5, <2>6 DEF SameSession, SameTimers, OneTimer
  <2>8. Step(s, t) /\ CalmStep(s, t)
    BY <2>6, <2>7 DEF Step, CalmStep, Shown, Meek, Calm
  <2> QED
    BY <2>1, <2>8
<1> QED
  BY <1>1, <1>2, <1>3

\* What stop, pause and the safety disconnect do before they set the intent.
Cleared(s) ==
    ClearRecoveryHealth(ResetSessionConflict(ClearRetryTimers(
        ClearFarmingSelection(s, FALSE))))

LEMMA ClearedFacts ==
    ASSUME NEW s \in Worker
    PROVE  /\ Cleared(s) \in Worker /\ SameSession(s, Cleared(s))
           /\ Cleared(s).reconnect = "off" /\ Cleared(s).conflict = "off"
<1> DEFINE a == ClearFarmingSelection(s, FALSE)
           b == ClearRetryTimers(a)
           c == ResetSessionConflict(b)
           d == ClearRecoveryHealth(c)
<1>1. a \in Worker /\ SameSession(s, a)
  BY ClearFarmingSelectionFacts
<1> HIDE DEF a
<1>2. b \in Worker /\ SameSession(a, b) /\ b.reconnect = "off" /\ b.conflict = "off"
  BY <1>1, ClearRetryTimersFacts
<1> HIDE DEF b
<1>3. c \in Worker /\ SameSession(b, c) /\ SameTimers(b, c)
  BY <1>2, ResetSessionConflictFacts
<1> HIDE DEF c
<1>4. d \in Worker /\ SameSession(c, d) /\ SameTimers(c, d)
  BY <1>3, ClearRecoveryHealthFacts
<1> HIDE DEF d
<1>5. d \in Worker /\ SameSession(s, d) /\ d.reconnect = "off" /\ d.conflict = "off"
  BY <1>1, <1>2, <1>3, <1>4 DEF SameSession, SameTimers
<1> QED
  BY <1>5 DEF Cleared, a, b, c, d

\* A step into a state that should not run, has no timer and shows nothing.
LEMMA QuietStep ==
    ASSUME NEW s \in Worker, NEW t \in Worker, OneTimer(t), t.playing = "none",
           t.connected => t.paused, t.client = "on" => s.client = "on"
    PROVE  Step(s, t) /\ CalmStep(s, t)
  BY DEF Step, CalmStep, Shown, Meek, Calm

LEMMA StopNowStep ==
    ASSUME NEW s \in Worker
    PROVE  /\ Step(s, StopNow(s)) /\ CalmStep(s, StopNow(s))
           /\ StopNow(s).playing = "none"
<1> DEFINE a == Cleared(s)
           b == SetDesiredState(a, "stopped")
           c == ReportGames(b, "none")
           d == LogOff(c)
           e == [d EXCEPT !.connected = FALSE]
           t == SetStatus(e, "disconnected")
<1>1. StopNow(s) = t
  BY DEF StopNow, Cleared
<1>2. a \in Worker /\ SameSession(s, a) /\ a.reconnect = "off" /\ a.conflict = "off"
  BY ClearedFacts
<1> HIDE DEF a
<1>3. b \in Worker /\ b.client = a.client /\ (OneTimer(a) => OneTimer(b))
  BY <1>2, SetDesiredStateFacts DEF Desires
<1> HIDE DEF b
<1>4. c \in Worker /\ c.client = b.client /\ SameTimers(b, c)
  BY <1>3, ReportGamesFacts, Literals
<1> HIDE DEF c
<1>5. /\ d \in Worker /\ SameTimers(c, d)
      /\ d.client \in {"leaving", "off"} /\ d.playing = "none"
  BY <1>4, LogOffFacts
<1> HIDE DEF d
<1>6. /\ e \in Worker /\ SameTimers(d, e)
      /\ e.client = d.client /\ e.playing = "none" /\ e.connected = FALSE
  BY <1>5 DEF Worker, SameTimers
<1> HIDE DEF e
<1>7. t \in Worker /\ SameSession(e, t) /\ SameTimers(e, t)
  BY <1>6, SetStatusFacts, Literals
<1> HIDE DEF t
<1>8. /\ OneTimer(t) /\ t.playing = "none" /\ t.connected = FALSE
      /\ t.client \in {"leaving", "off"}
  BY <1>2, <1>3, <1>4, <1>5, <1>6, <1>7 DEF SameSession, SameTimers, OneTimer
<1> QED
  BY <1>1, <1>7, <1>8, QuietStep

LEMMA PauseNowStep ==
    ASSUME NEW s \in Worker
    PROVE  /\ Step(s, PauseNow(s)) /\ CalmStep(s, PauseNow(s))
           /\ PauseNow(s).playing = "none"
<1> DEFINE a == Cleared(s)
           b == [a EXCEPT !.paused = TRUE]
           c == SetDesiredState(b, "paused")
           d == ReportGames(c, "none")
           t == SetStatus(d, "paused_manual")
<1>1. PauseNow(s) = t
  BY DEF PauseNow, Cleared
<1>2. a \in Worker /\ SameSession(s, a) /\ a.reconnect = "off" /\ a.conflict = "off"
  BY ClearedFacts
<1> HIDE DEF a
<1>3. b \in Worker /\ b.client = a.client /\ b.paused = TRUE /\ SameTimers(a, b)
  BY <1>2 DEF Worker, SameTimers
<1> HIDE DEF b
<1>4. /\ c \in Worker /\ c.client = b.client /\ c.paused = b.paused
      /\ (OneTimer(b) => OneTimer(c))
  BY <1>3, SetDesiredStateFacts DEF Desires
<1> HIDE DEF c
<1>5. /\ d \in Worker /\ d.client = c.client /\ d.paused = c.paused /\ SameTimers(c, d)
      /\ d.playing = "none"
  BY <1>4, ReportGamesFacts, Literals
<1> HIDE DEF d
<1>6. t \in Worker /\ SameSession(d, t) /\ SameTimers(d, t)
  BY <1>5, SetStatusFacts, Literals
<1> HIDE DEF t
<1>7. /\ OneTimer(t) /\ t.playing = "none" /\ t.paused = TRUE
      /\ t.client = s.client
  BY <1>2, <1>3, <1>4, <1>5, <1>6 DEF SameSession, SameTimers, OneTimer
<1> QED
  BY <1>1, <1>6, <1>7, QuietStep

LEMMA ForceDisconnectForSafetyStep ==
    ASSUME NEW s \in Worker
    PROVE  /\ Step(s, ForceDisconnectForSafety(s))
           /\ CalmStep(s, ForceDisconnectForSafety(s))
           /\ ForceDisconnectForSafety(s).playing = "none"
<1> DEFINE a == Cleared(s)
           b == [a EXCEPT !.paused = TRUE]
           c == SetDesiredState(b, "paused")
           d == ReportGames(c, "none")
           e == LogOff(d)
           f == [e EXCEPT !.connected = FALSE]
           t == SetStatus(f, "paused_manual")
<1>1. ForceDisconnectForSafety(s) = t
  BY DEF ForceDisconnectForSafety, Cleared
<1>2. a \in Worker /\ SameSession(s, a) /\ a.reconnect = "off" /\ a.conflict = "off"
  BY ClearedFacts
<1> HIDE DEF a
<1>3. b \in Worker /\ SameTimers(a, b)
  BY <1>2 DEF Worker, SameTimers
<1> HIDE DEF b
<1>4. c \in Worker /\ (OneTimer(b) => OneTimer(c))
  BY <1>3, SetDesiredStateFacts DEF Desires
<1> HIDE DEF c
<1>5. d \in Worker /\ SameTimers(c, d)
  BY <1>4, ReportGamesFacts, Literals
<1> HIDE DEF d
<1>6. /\ e \in Worker /\ SameTimers(d, e)
      /\ e.client \in {"leaving", "off"} /\ e.playing = "none"
  BY <1>5, LogOffFacts
<1> HIDE DEF e
<1>7. /\ f \in Worker /\ SameTimers(e, f)
      /\ f.client = e.client /\ f.playing = "none" /\ f.connected = FALSE
  BY <1>6 DEF Worker, SameTimers
<1> HIDE DEF f
<1>8. t \in Worker /\ SameSession(f, t) /\ SameTimers(f, t)
  BY <1>7, SetStatusFacts, Literals
<1> HIDE DEF t
<1>9. /\ OneTimer(t) /\ t.playing = "none" /\ t.connected = FALSE
      /\ t.client \in {"leaving", "off"}
  BY <1>2, <1>3, <1>4, <1>5, <1>6, <1>7, <1>8 DEF SameSession, SameTimers, OneTimer
<1> QED
  BY <1>1, <1>8, <1>9, QuietStep

\* The last fallback may leave games on Steam, but nothing else is lost.
LEMMA MarkSafetyAttentionStep ==
    ASSUME NEW s \in Worker, NEW cleared \in BOOLEAN, NEW left \in BOOLEAN
    PROVE  Step(s, MarkSafetyAttention(s, cleared, left))
<1> DEFINE a == IF cleared THEN ReportGames(s, "none") ELSE s
           b == IF left THEN LogOff(a) ELSE a
           c == ClearFarmingSelection(b, FALSE)
           d == ClearRetryTimers(c)
           e == ResetSessionConflict(d)
           f == [e EXCEPT !.connected = FALSE, !.paused = TRUE, !.health = "terminal"]
           g == SetDesiredState(f, "paused")
           t == SetStatus(g, "error")
<1>1. MarkSafetyAttention(s, cleared, left) = t
  BY DEF MarkSafetyAttention
<1>2. a \in Worker /\ a.client = s.client /\ (Shown(s) => Shown(a))
  BY ReportGamesFacts, Literals DEF Shown
<1> HIDE DEF a
<1>3. b \in Worker /\ (b.client = "on" => a.client = "on") /\ (Shown(a) => Shown(b))
  BY <1>2, LogOffFacts DEF Shown
<1> HIDE DEF b
<1>4. c \in Worker /\ SameSession(b, c)
  BY <1>3, ClearFarmingSelectionFacts
<1> HIDE DEF c
<1>5. d \in Worker /\ SameSession(c, d) /\ d.reconnect = "off" /\ d.conflict = "off"
  BY <1>4, ClearRetryTimersFacts
<1> HIDE DEF d
<1>6. e \in Worker /\ SameSession(d, e) /\ SameTimers(d, e)
  BY <1>5, ResetSessionConflictFacts
<1> HIDE DEF e
<1>7. /\ f \in Worker /\ f.client = e.client /\ f.playing = e.playing
      /\ SameTimers(e, f) /\ f.connected = FALSE
  BY <1>6 DEF Worker, SameTimers
<1> HIDE DEF f
<1>8. /\ g \in Worker /\ g.client = f.client /\ g.playing = f.playing
      /\ g.connected = f.connected /\ (OneTimer(f) => OneTimer(g))
  BY <1>7, SetDesiredStateFacts DEF Desires
<1> HIDE DEF g
<1>9. t \in Worker /\ SameSession(g, t) /\ SameTimers(g, t)
  BY <1>8, SetStatusFacts, Literals
<1> HIDE DEF t
<1>10. OneTimer(t) /\ t.connected = FALSE
  BY <1>5, <1>6, <1>7, <1>8, <1>9 DEF SameSession, SameTimers, OneTimer
<1>11. t.client = b.client /\ t.playing = b.playing
  BY <1>4, <1>5, <1>6, <1>7, <1>8, <1>9 DEF SameSession
<1> QED
  BY <1>1, <1>2, <1>3, <1>9, <1>10, <1>11 DEF Step, Shown, Meek

\* A step into the running state.
LEMMA RunningStep ==
    ASSUME NEW s \in Worker, NEW t \in Worker, t.desired = "running",
           OneTimer(s) => OneTimer(t), t.client = s.client, Shown(s) => Shown(t)
    PROVE  Step(s, t) /\ CalmStep(s, t)
  BY DEF Step, CalmStep, Meek, Calm

LEMMA ResumeNowStep ==
    ASSUME NEW s \in Worker, NEW token \in BOOLEAN, NEW manual \in {"none", "manual"}
    PROVE  Step(s, ResumeNow(s, token, manual)) /\ CalmStep(s, ResumeNow(s, token, manual))
<1> DEFINE a == [s EXCEPT !.paused = FALSE, !.awaiting = FALSE]
           b == SetDesiredState(a, "running")
           c == ClearRecoveryHealth(b)
<1>1. ResumeNow(s, token, manual) =
        IF c.connected THEN ApplyGames(c, manual) ELSE StartNow(c, token)
  BY DEF ResumeNow
<1>2. /\ a \in Worker /\ a.client = s.client /\ a.playing = s.playing
      /\ SameTimers(s, a)
  BY DEF Worker, SameTimers
<1> HIDE DEF a
<1>3. /\ b \in Worker /\ b.desired = "running" /\ b.client = a.client
      /\ b.playing = a.playing /\ (OneTimer(a) => OneTimer(b))
  BY <1>2, SetDesiredStateFacts DEF Desires
<1> HIDE DEF b
<1>4. c \in Worker /\ SameSession(b, c) /\ SameTimers(b, c)
  BY <1>3, ClearRecoveryHealthFacts
<1> HIDE DEF c
<1>5. Step(s, c) /\ CalmStep(s, c)
  BY <1>2, <1>3, <1>4, RunningStep DEF SameSession, SameTimers, OneTimer, Shown
<1>6. CASE c.connected
  BY <1>1, <1>4, <1>5, <1>6, ApplyGamesStep, StepTransitive
<1>7. CASE ~c.connected
  BY <1>1, <1>4, <1>5, <1>7, StartNowStep, StepTransitive
<1> QED
  BY <1>6, <1>7

LEMMA ResumeForFarmingStep ==
    ASSUME NEW s \in Worker, NEW token \in BOOLEAN, NEW manual \in {"none", "manual"}
    PROVE  /\ Step(s, ResumeForFarming(s, token, manual))
           /\ CalmStep(s, ResumeForFarming(s, token, manual))
<1> DEFINE a == [s EXCEPT !.paused = FALSE, !.farming = "empty", !.awaiting = TRUE]
           b == SetDesiredState(a, "running")
           c == ClearRecoveryHealth(b)
<1>1. CASE s.desired = "running"
  <2>1. ResumeForFarming(s, token, manual) = s
    BY <1>1 DEF ResumeForFarming
  <2> QED
    BY <2>1, SameStep DEF SameSession, SameTimers
<1>2. CASE s.desired # "running"
  <2>1. ResumeForFarming(s, token, manual) =
          IF c.connected THEN ApplyGames(c, manual) ELSE StartNow(c, token)
    BY <1>2 DEF ResumeForFarming
  <2>2. /\ a \in Worker /\ a.client = s.client /\ a.playing = s.playing
        /\ SameTimers(s, a)
    BY DEF Worker, SameTimers
  <2> HIDE DEF a
  <2>3. /\ b \in Worker /\ b.desired = "running" /\ b.client = a.client
        /\ b.playing = a.playing /\ (OneTimer(a) => OneTimer(b))
    BY <2>2, SetDesiredStateFacts DEF Desires
  <2> HIDE DEF b
  <2>4. c \in Worker /\ SameSession(b, c) /\ SameTimers(b, c)
    BY <2>3, ClearRecoveryHealthFacts
  <2> HIDE DEF c
  <2>5. Step(s, c) /\ CalmStep(s, c)
    BY <2>2, <2>3, <2>4, RunningStep DEF SameSession, SameTimers, OneTimer, Shown
  <2>6. CASE c.connected
    BY <2>1, <2>4, <2>5, <2>6, ApplyGamesStep, StepTransitive
  <2>7. CASE ~c.connected
    BY <2>1, <2>4, <2>5, <2>7, StartNowStep, StepTransitive
  <2> QED
    BY <2>6, <2>7
<1> QED
  BY <1>1, <1>2

LEMMA ApplyFarmingSelectionStep ==
    ASSUME NEW s \in Worker, NEW selection \in {"empty", "games"}
    PROVE  /\ Step(s, ApplyFarmingSelection(s, selection))
           /\ CalmStep(s, ApplyFarmingSelection(s, selection))
<1> DEFINE a == [s EXCEPT !.farming = selection, !.awaiting = FALSE]
<1>1. a \in Worker /\ SameSession(s, a) /\ SameTimers(s, a)
  BY DEF Worker, SameSession, SameTimers
<1>2. ApplyFarmingSelection(s, selection) \in {s, ApplyGames(a, "none")}
  BY DEF ApplyFarmingSelection
<1> HIDE DEF a
<1>3. /\ Step(s, ApplyGames(a, "none")) /\ CalmStep(s, ApplyGames(a, "none"))
  BY <1>1, SameStep, ApplyGamesStep, StepTransitive
<1>4. Step(s, s) /\ CalmStep(s, s)
  BY SameStep DEF SameSession, SameTimers
<1> QED
  BY <1>2, <1>3, <1>4

LEMMA LoggedOnStep ==
    ASSUME NEW s \in Worker, NEW manual \in {"none", "manual"}, s.desired = "running"
    PROVE  Step(s, LoggedOn(s, manual)) /\ CalmStep(s, LoggedOn(s, manual))
<1> DEFINE a == ClearRetryTimers(s)
           b == ResetSessionConflict(a)
           c == ClearRecoveryHealth(b)
           d == [c EXCEPT !.connected = TRUE]
           e == SetStatus(d, "online")
<1>1. LoggedOn(s, manual) = ApplyGames(e, manual)
  BY DEF LoggedOn
<1>2. a \in Worker /\ SameSession(s, a) /\ a.reconnect = "off" /\ a.conflict = "off"
  BY ClearRetryTimersFacts
<1> HIDE DEF a
<1>3. b \in Worker /\ SameSession(a, b) /\ SameTimers(a, b)
  BY <1>2, ResetSessionConflictFacts
<1> HIDE DEF b
<1>4. c \in Worker /\ SameSession(b, c) /\ SameTimers(b, c)
  BY <1>3, ClearRecoveryHealthFacts
<1> HIDE DEF c
<1>5. /\ d \in Worker /\ d.desired = c.desired /\ d.client = c.client
      /\ d.playing = c.playing /\ SameTimers(c, d)
  BY <1>4 DEF Worker, SameTimers
<1> HIDE DEF d
<1>6. e \in Worker /\ SameSession(d, e) /\ SameTimers(d, e)
  BY <1>5, SetStatusFacts, Literals
<1> HIDE DEF e
<1>7. e.desired = "running" /\ e.client = s.client /\ e.playing = s.playing /\ OneTimer(e)
  BY <1>2, <1>3, <1>4, <1>5, <1>6 DEF SameSession, SameTimers, OneTimer
<1>8. Step(s, e) /\ CalmStep(s, e)
  BY <1>6, <1>7, RunningStep DEF Shown
<1> QED
  BY <1>1, <1>6, <1>8, ApplyGamesStep, StepTransitive

LEMMA PauseIfFarmingFacts ==
    ASSUME NEW s \in Worker, NEW wasFarming \in BOOLEAN
    PROVE  LET t == PauseIfFarming(s, wasFarming)
           IN /\ t \in Worker /\ t.connected = s.connected
              /\ t.client = s.client /\ t.playing = s.playing
              /\ OneTimer(s) => OneTimer(t)
              /\ Meek(s) => Meek(t)
<1> DEFINE a == [s EXCEPT !.paused = TRUE]
           b == SetDesiredState(a, "paused")
<1>1. PauseIfFarming(s, wasFarming) \in {s, b}
  BY DEF PauseIfFarming
<1>2. /\ a \in Worker /\ a.connected = s.connected /\ a.client = s.client
      /\ a.playing = s.playing /\ SameTimers(s, a) /\ a.paused = TRUE
  BY DEF Worker, SameTimers
<1> HIDE DEF a
<1>3. /\ b \in Worker /\ b.connected = a.connected /\ b.client = a.client
      /\ b.playing = a.playing /\ b.paused = a.paused /\ (OneTimer(a) => OneTimer(b))
  BY <1>2, SetDesiredStateFacts DEF Desires
<1> HIDE DEF b
<1>4. /\ b \in Worker /\ b.connected = s.connected /\ b.client = s.client
      /\ b.playing = s.playing /\ (OneTimer(s) => OneTimer(b)) /\ Meek(b)
  BY <1>2, <1>3 DEF SameTimers, OneTimer, Meek
<1> QED
  BY <1>1, <1>4

LEMMA PlayingBlockedStep ==
    ASSUME NEW s \in Worker
    PROVE  Step(s, PlayingBlocked(s)) /\ CalmStep(s, PlayingBlocked(s))
<1> DEFINE a == [s EXCEPT !.blocked = TRUE]
           b == ClearFarmingSelection(a, FALSE)
           c == PauseIfFarming(b, s.farming # "off")
           d == ReportGames(c, "none")
           e == SetStatus(d, "paused_other_session")
           f == RegisterSessionConflict(e, "live")
<1>1. PlayingBlocked(s) \in {e, f}
  BY DEF PlayingBlocked
<1>2. a \in Worker /\ SameSession(s, a) /\ SameTimers(s, a)
  BY DEF Worker, SameSession, SameTimers
<1> HIDE DEF a
<1>3. b \in Worker /\ SameSession(a, b) /\ SameTimers(a, b)
  BY <1>2, ClearFarmingSelectionFacts
<1> HIDE DEF b
<1>4. /\ c \in Worker /\ c.connected = b.connected /\ c.client = b.client
      /\ (OneTimer(b) => OneTimer(c)) /\ (Meek(b) => Meek(c))
  <2>1. (s.farming # "off") \in BOOLEAN
    OBVIOUS
  <2> QED
    BY <1>3, <2>1, PauseIfFarmingFacts
<1> HIDE DEF c
<1>5. /\ d \in Worker /\ d.desired = c.desired /\ d.connected = c.connected
      /\ d.paused = c.paused /\ d.client = c.client /\ SameTimers(c, d)
      /\ d.playing = "none"
  BY <1>4, ReportGamesFacts, Literals
<1> HIDE DEF d
<1>6. e \in Worker /\ SameSession(d, e) /\ SameTimers(d, e)
  BY <1>5, SetStatusFacts, Literals
<1> HIDE DEF e
<1>7. f \in Worker /\ SameSession(e, f) /\ f.reconnect = "off"
  BY <1>6, RegisterSessionConflictFacts
<1> HIDE DEF f
<1>8. /\ OneTimer(s) => OneTimer(e)
      /\ Meek(s) => Meek(e)
      /\ e.playing = "none" /\ e.client = s.client
  BY <1>2, <1>3, <1>4, <1>5, <1>6 DEF SameSession, SameTimers, OneTimer, Meek
<1>9. Step(s, e) /\ CalmStep(s, e)
  BY <1>6, <1>8 DEF Step, CalmStep, Shown, Calm
<1>10. Step(s, f) /\ CalmStep(s, f)
  BY <1>7, <1>8 DEF Step, CalmStep, Shown, Calm, Meek, OneTimer, SameSession
<1> QED
  BY <1>1, <1>9, <1>10

LEMMA PlayingFreeStep ==
    ASSUME NEW s \in Worker, NEW manual \in {"none", "manual"}
    PROVE  Step(s, PlayingFree(s, manual)) /\ CalmStep(s, PlayingFree(s, manual))
<1> DEFINE a == [s EXCEPT !.blocked = FALSE]
           b == [a EXCEPT !.conflict = "off"]
           c == ResetSessionConflict(b)
           d == ClearRecoveryHealth(c)
<1>1. PlayingFree(s, manual) \in {a, ApplyGames(d, manual)}
  BY DEF PlayingFree
<1>2. a \in Worker /\ SameSession(s, a) /\ SameTimers(s, a)
  BY DEF Worker, SameSession, SameTimers
<1> HIDE DEF a
<1>3. b \in Worker /\ SameSession(a, b) /\ b.conflict = "off"
  BY <1>2 DEF Worker, SameSession
<1> HIDE DEF b
<1>4. c \in Worker /\ SameSession(b, c) /\ SameTimers(b, c)
  BY <1>3, ResetSessionConflictFacts
<1> HIDE DEF c
<1>5. d \in Worker /\ SameSession(c, d) /\ SameTimers(c, d)
  BY <1>4, ClearRecoveryHealthFacts
<1> HIDE DEF d
<1>6. d \in Worker /\ SameSession(s, d) /\ OneTimer(d)
  BY <1>2, <1>3, <1>4, <1>5 DEF SameSession, SameTimers, OneTimer
<1>7. Step(s, d) /\ CalmStep(s, d)
  BY <1>6 DEF SameSession, Step, CalmStep, Shown, Meek, Calm
<1>8. Step(s, ApplyGames(d, manual)) /\ CalmStep(s, ApplyGames(d, manual))
  BY <1>6, <1>7, ApplyGamesStep, StepTransitive
<1>9. Step(s, a) /\ CalmStep(s, a)
  BY <1>2, SameStep
<1> QED
  BY <1>1, <1>8, <1>9

\* What both handlers of a lost session keep to: the worker is not connected, and
\* the client, which has lost its session already, is left alone.
Lost(s, t) ==
    /\ t \in Worker /\ t.connected = FALSE
    /\ t.client = s.client /\ t.playing = s.playing
    /\ OneTimer(s) => OneTimer(t)

LEMMA LostStep ==
    ASSUME NEW s \in Worker, NEW t, Lost(s, t), s.client # "on"
    PROVE  Step(s, t) /\ CalmStep(s, t)
  BY DEF Lost, Step, CalmStep, Shown, Meek, Calm

LEMMA LostSetStatus ==
    ASSUME NEW s \in Worker, NEW t, Lost(s, t), NEW st \in Statuses
    PROVE  Lost(s, SetStatus(t, st))
<1> DEFINE u == SetStatus(t, st)
<1>1. t \in Worker
  BY DEF Lost
<1>2. u \in Worker /\ SameSession(t, u) /\ SameTimers(t, u)
  BY <1>1, SetStatusFacts
<1> HIDE DEF u
<1>3. Lost(s, u)
  BY <1>2 DEF Lost, SameSession, SameTimers, OneTimer
<1> QED
  BY <1>3 DEF u

LEMMA SessionLostFacts ==
    ASSUME NEW s \in Worker, NEW failure \in Failures, NEW resumes \in BOOLEAN
    PROVE  Lost(s, SessionLost(s, failure, resumes))
<1> DEFINE keep == KeepsRunningForFarming(s, failure, resumes)
           a == ClearFarmingSelection(s, FALSE)
           b == [a EXCEPT !.connected = FALSE, !.awaiting = keep]
           c == PauseIfFarming(b, s.farming # "off" /\ ~keep)
<1>1. SessionLost(s, failure, resumes) = c
  BY DEF SessionLost
<1>2. keep \in BOOLEAN /\ (s.farming # "off" /\ ~keep) \in BOOLEAN
  BY DEF KeepsRunningForFarming
<1> HIDE DEF keep
<1>3. a \in Worker /\ SameSession(s, a) /\ SameTimers(s, a)
  BY ClearFarmingSelectionFacts
<1> HIDE DEF a
<1>4. /\ b \in Worker /\ b.client = a.client /\ b.playing = a.playing
      /\ b.connected = FALSE /\ SameTimers(a, b)
  BY <1>2, <1>3 DEF Worker, SameTimers
<1> HIDE DEF b
<1>5. /\ c \in Worker /\ c.connected = b.connected /\ c.client = b.client
      /\ c.playing = b.playing /\ (OneTimer(b) => OneTimer(c))
  BY <1>2, <1>4, PauseIfFarmingFacts
<1> HIDE DEF c
<1> QED
  BY <1>1, <1>3, <1>4, <1>5 DEF Lost, SameSession, SameTimers, OneTimer

LEMMA HandleTerminalFailureFacts ==
    ASSUME NEW s \in Worker, NEW t, Lost(s, t)
    PROVE  Lost(s, HandleTerminalFailure(t))
<1> DEFINE a == ClearRetryTimers(t)
           b == ResetSessionConflict(a)
           c == [b EXCEPT !.connected = FALSE, !.health = "terminal"]
           d == SetDesiredState(c, "paused")
<1>1. HandleTerminalFailure(t) = SetStatus(d, "login_required")
  BY DEF HandleTerminalFailure
<1>2. a \in Worker /\ SameSession(t, a) /\ a.reconnect = "off" /\ a.conflict = "off"
  BY ClearRetryTimersFacts DEF Lost
<1> HIDE DEF a
<1>3. b \in Worker /\ SameSession(a, b) /\ SameTimers(a, b)
  BY <1>2, ResetSessionConflictFacts
<1> HIDE DEF b
<1>4. /\ c \in Worker /\ c.client = b.client /\ c.playing = b.playing
      /\ c.connected = FALSE /\ SameTimers(b, c)
  BY <1>3 DEF Worker, SameTimers
<1> HIDE DEF c
<1>5. /\ d \in Worker /\ d.client = c.client /\ d.playing = c.playing
      /\ d.connected = c.connected /\ (OneTimer(c) => OneTimer(d))
  BY <1>4, SetDesiredStateFacts DEF Desires
<1> HIDE DEF d
<1>6. Lost(s, d)
  BY <1>2, <1>3, <1>4, <1>5 DEF Lost, SameSession, SameTimers, OneTimer
<1> QED
  BY <1>1, <1>6, LostSetStatus, Literals

LEMMA HandleLoginSessionConflictFacts ==
    ASSUME NEW s \in Worker, NEW t, Lost(s, t)
    PROVE  Lost(s, HandleLoginSessionConflict(t))
<1> DEFINE a == [t EXCEPT !.handled = TRUE, !.connected = FALSE, !.blocked = FALSE]
           b == SetStatus(a, "reconnecting")
           c == RegisterSessionConflict(b, "login")
<1>1. HandleLoginSessionConflict(t) \in {t, c}
  BY DEF HandleLoginSessionConflict
<1>2. /\ a \in Worker /\ a.client = t.client /\ a.playing = t.playing
      /\ a.connected = FALSE
  BY DEF Lost, Worker
<1> HIDE DEF a
<1>3. b \in Worker /\ SameSession(a, b)
  BY <1>2, SetStatusFacts, Literals
<1> HIDE DEF b
<1>4. c \in Worker /\ SameSession(b, c) /\ c.reconnect = "off"
  BY <1>3, RegisterSessionConflictFacts
<1> HIDE DEF c
<1> QED
  BY <1>1, <1>2, <1>3, <1>4 DEF Lost, SameSession, OneTimer

LEMMA LostScheduleReconnect ==
    ASSUME NEW s \in Worker, NEW t, Lost(s, t)
    PROVE  Lost(s, ScheduleReconnect(t))
<1> DEFINE u == ScheduleReconnect(t)
<1>1. u \in Worker /\ SameSession(t, u) /\ u.conflict = "off"
  BY ScheduleReconnectFacts DEF Lost
<1> HIDE DEF u
<1>2. Lost(s, u)
  BY <1>1 DEF Lost, SameSession, OneTimer
<1> QED
  BY <1>2 DEF u

LEMMA DisconnectedStep ==
    ASSUME NEW s \in Worker, NEW failure \in Failures, NEW resumes \in BOOLEAN,
           s.client # "on"
    PROVE  /\ Step(s, Disconnected(s, failure, resumes))
           /\ CalmStep(s, Disconnected(s, failure, resumes))
<1> DEFINE t == SessionLost(s, failure, resumes)
<1>1. Lost(s, t)
  BY SessionLostFacts
<1>2. Disconnected(s, failure, resumes) \in
        {t, HandleLoginSessionConflict(t), HandleTerminalFailure(t),
         ScheduleReconnect(SetStatus(t, "reconnecting")), SetStatus(t, "disconnected")}
  <2>1. CASE s.handled
    BY <2>1 DEF Disconnected
  <2>2. CASE ~s.handled /\ failure = "conflict"
    BY <2>2 DEF Disconnected
  <2>3. CASE ~s.handled /\ failure = "auth"
    BY <2>3 DEF Disconnected
  <2>4. CASE ~s.handled /\ failure = "transient"
    BY <2>4 DEF Disconnected
  <2> QED
    BY <2>1, <2>2, <2>3, <2>4 DEF Failures
<1> HIDE DEF t
<1>3. /\ Lost(s, HandleLoginSessionConflict(t))
      /\ Lost(s, HandleTerminalFailure(t))
      /\ Lost(s, ScheduleReconnect(SetStatus(t, "reconnecting")))
      /\ Lost(s, SetStatus(t, "disconnected"))
  BY <1>1, HandleLoginSessionConflictFacts, HandleTerminalFailureFacts,
     LostScheduleReconnect, LostSetStatus, Literals
<1> QED
  BY <1>1, <1>2, <1>3, LostStep

LEMMA ClientErrorStep ==
    ASSUME NEW s \in Worker, NEW failure \in Failures, NEW resumes \in BOOLEAN,
           s.client # "on"
    PROVE  /\ Step(s, ClientError(s, failure, resumes))
           /\ CalmStep(s, ClientError(s, failure, resumes))
<1> DEFINE t == SessionLost(s, failure, resumes)
           u == SetStatus(t, "error")
<1>1. Lost(s, t)
  BY SessionLostFacts
<1>2. ClientError(s, failure, resumes) \in
        {t, HandleLoginSessionConflict(t), HandleTerminalFailure(t),
         ScheduleReconnect(u), u}
  <2>1. CASE s.handled
    BY <2>1 DEF ClientError
  <2>2. CASE ~s.handled /\ failure = "conflict"
    BY <2>2 DEF ClientError
  <2>3. CASE ~s.handled /\ failure = "auth"
    BY <2>3 DEF ClientError
  <2>4. CASE ~s.handled /\ failure = "transient"
    BY <2>4 DEF ClientError
  <2> QED
    BY <2>1, <2>2, <2>3, <2>4 DEF Failures
<1> HIDE DEF t
<1>3. Lost(s, u)
  BY <1>1, LostSetStatus, Literals
<1> HIDE DEF u
<1>4. /\ Lost(s, HandleLoginSessionConflict(t))
      /\ Lost(s, HandleTerminalFailure(t))
      /\ Lost(s, ScheduleReconnect(u))
  BY <1>1, <1>3, HandleLoginSessionConflictFacts, HandleTerminalFailureFacts,
     LostScheduleReconnect
<1> QED
  BY <1>1, <1>2, <1>3, <1>4, LostStep

LEMMA RetrySessionConflictStep ==
    ASSUME NEW s \in Worker, NEW cooldown \in BOOLEAN, NEW token \in BOOLEAN,
           NEW manual \in {"none", "manual"}, s.desired = "running"
    PROVE  /\ Step(s, RetrySessionConflict(s, cooldown, token, manual))
           /\ CalmStep(s, RetrySessionConflict(s, cooldown, token, manual))
<1> DEFINE t == IF cooldown THEN [s EXCEPT !.attempt = 0] ELSE s
           a == ReportGames(t, Payload(t, manual))
           b == RegisterSessionConflict(a, "live")
           c == ResetSessionConflict(t)
           d == ClearRecoveryHealth(c)
<1>1. RetrySessionConflict(s, cooldown, token, manual) \in
        {b, ApplyGames(d, manual), StartNow(t, token)}
  BY DEF RetrySessionConflict, RetryLiveSessionConflict
<1>2. t \in Worker /\ SameSession(s, t) /\ SameTimers(s, t)
  <2>1. CASE cooldown
    BY <2>1, Literals DEF Worker, SameSession, SameTimers
  <2>2. CASE ~cooldown
    BY <2>2 DEF SameSession, SameTimers
  <2> QED
    BY <2>1, <2>2
<1> HIDE DEF t
<1>3. Step(s, t) /\ CalmStep(s, t)
  BY <1>2, SameStep
<1>4. /\ a \in Worker /\ a.desired = t.desired /\ a.client = t.client
      /\ (Shown(t) => Shown(a))
  BY <1>2, ReportGamesFacts, PayloadFacts DEF Shown
<1> HIDE DEF a
<1>5. b \in Worker /\ SameSession(a, b) /\ b.reconnect = "off"
  BY <1>4, RegisterSessionConflictFacts
<1> HIDE DEF b
<1>6. Step(s, b) /\ CalmStep(s, b)
  BY <1>2, <1>4, <1>5, RunningStep DEF SameSession, OneTimer, Shown
<1>7. c \in Worker /\ SameSession(t, c) /\ SameTimers(t, c)
  BY <1>2, ResetSessionConflictFacts
<1> HIDE DEF c
<1>8. d \in Worker /\ SameSession(c, d) /\ SameTimers(c, d)
  BY <1>7, ClearRecoveryHealthFacts
<1> HIDE DEF d
<1>9. Step(s, d) /\ CalmStep(s, d)
  BY <1>2, <1>7, <1>8, SameStep DEF SameSession, SameTimers
<1>10. Step(s, ApplyGames(d, manual)) /\ CalmStep(s, ApplyGames(d, manual))
  BY <1>8, <1>9, ApplyGamesStep, StepTransitive
<1>11. Step(s, StartNow(t, token)) /\ CalmStep(s, StartNow(t, token))
  BY <1>2, <1>3, StartNowStep, StepTransitive
<1> QED
  BY <1>1, <1>6, <1>10, <1>11

LEMMA SafetyPauseStep ==
    ASSUME NEW s \in Worker, NEW t \in SafetyPause(s)
    PROVE  Step(s, t) /\ (t.playing = "none" => CalmStep(s, t))
<1>1. CASE t \in {PauseNow(s), ForceDisconnectForSafety(s)}
  BY <1>1, PauseNowStep, ForceDisconnectForSafetyStep
<1>2. CASE t \notin {PauseNow(s), ForceDisconnectForSafety(s)}
  <2>1. PICK cleared \in BOOLEAN, left \in BOOLEAN :
          t = MarkSafetyAttention(s, cleared, left)
    BY <1>2 DEF SafetyPause
  <2> QED
    BY <2>1, MarkSafetyAttentionStep DEF CalmStep, Calm
<1> QED
  BY <1>1, <1>2

(***************************************************************************)
(* The queue                                                               *)
(***************************************************************************)

\* A loss that the client has reported still waits to be handled.
LossIn(q) == \E i \in DOMAIN q : q[i].op \in {"disconnected", "error"}

LEMMA RestampFacts ==
    ASSUME NEW q \in Seq(Item), NEW c \in BOOLEAN, NEW h \in BOOLEAN
    PROVE  /\ Restamp(q, c, h) \in Seq(Item)
           /\ LossIn(Restamp(q, c, h)) => LossIn(q)
<1> DEFINE r == Restamp(q, c, h)
<1>1. DOMAIN r = DOMAIN q /\ DOMAIN q = 1 .. Len(q) /\ Len(q) \in Nat
  BY DEF Restamp
<1>2. ASSUME NEW i \in DOMAIN q
      PROVE  r[i] \in Item /\ r[i].op = q[i].op
  <2>1. q[i] \in Item
    BY <1>1
  <2>2. PICK b \in BOOLEAN : r[i] = [q[i] EXCEPT !.live = b]
    BY DEF Restamp
  <2> QED
    BY <2>1, <2>2 DEF Item
<1>3. r \in [1 .. Len(q) -> Item]
  BY <1>1, <1>2 DEF Restamp
<1>4. r \in Seq(Item)
  BY <1>1, <1>3
<1> QED
  BY <1>1, <1>2, <1>4 DEF LossIn

LEMMA TailFacts ==
    ASSUME NEW q \in Seq(Item), q # <<>>
    PROVE  /\ Tail(q) \in Seq(Item) /\ Head(q) \in Item
           /\ LossIn(Tail(q)) => LossIn(q)
           /\ Head(q).op \in {"disconnected", "error"} => LossIn(q)
  BY DEF LossIn

LEMMA AppendFacts ==
    ASSUME NEW q \in Seq(Item), NEW x \in Item
    PROVE  /\ Append(q, x) \in Seq(Item)
           /\ LossIn(Append(q, x)) => LossIn(q) \/ x.op \in {"disconnected", "error"}
  BY DEF LossIn

LEMMA ConcatFacts ==
    ASSUME NEW q \in Seq(Item), NEW r \in Seq(Item)
    PROVE  /\ q \o r \in Seq(Item)
           /\ LossIn(q \o r) => LossIn(q) \/ LossIn(r)
<1>1. q \o r \in Seq(Item)
  OBVIOUS
<1>2. ASSUME NEW i \in DOMAIN (q \o r)
      PROVE  \/ i \in DOMAIN q /\ (q \o r)[i] = q[i]
             \/ i - Len(q) \in DOMAIN r /\ (q \o r)[i] = r[i - Len(q)]
  OBVIOUS
<1> QED
  BY <1>1, <1>2 DEF LossIn

(***************************************************************************)
(* The inductive invariant                                                 *)
(***************************************************************************)

\* A reported loss means that the client has no session, so that what its handler
\* does to the intent leaves no games behind; a login cannot be accepted while a
\* loss waits, because nothing logs on during the import that lets it wait.
WhileUp ==
    /\ Meek(w)
    /\ "attention" \notin lapses => Calm(w)
    /\ LossIn(queue) => w.client # "on"
    /\ importing => w.client \notin {"connecting", "refused"}

IInv ==
    /\ TypeOK
    /\ OneTimer(w)
    /\ Shown(w)
    /\ phase = "up" => WhileUp

\* An operation that leaves the worker in state t keeps the invariant.
LEMMA FinishInv ==
    ASSUME IInv, phase = "up", ~importing, queue # <<>>,
           NEW t, Step(w, t), Finish(t),
           Head(queue).op = "stop" => t.playing = "none",
           \/ CalmStep(w, t)
           \/ t.playing # "none" /\ Head(queue).op \in {"safety_pause", "farm_end"}
    PROVE  IInv'
<1> DEFINE op == Head(queue).op
<1>1. t \in Worker /\ OneTimer(t) /\ Shown(t) /\ Meek(t)
  BY DEF IInv, WhileUp, Step
<1>2. w' = t /\ importing' = importing /\ phase' = phase /\ elsewhere' = elsewhere
  BY DEF Finish
<1>3. queue' \in Seq(Item) /\ (LossIn(queue') => LossIn(queue))
  <2>1. queue' = Restamp(Tail(queue), t.desired # w.desired, Halts(w, t, op))
    BY DEF Finish
  <2>2. (t.desired # w.desired) \in BOOLEAN /\ Halts(w, t, op) \in BOOLEAN
    BY DEF Halts
  <2>3. Tail(queue) \in Seq(Item) /\ (LossIn(Tail(queue)) => LossIn(queue))
    BY TailFacts DEF IInv, TypeOK
  <2> HIDE DEF op
  <2> QED
    BY <2>1, <2>2, <2>3, RestampFacts
<1>4. lapses' = (lapses \cup NewLapses(t, op)) \ Redeemed(t, op)
  BY DEF Finish
<1>5. lapses' \subseteq Lapses
  BY <1>4 DEF IInv, TypeOK, NewLapses, Lapses
<1>6. LossIn(queue') => t.client # "on"
  BY <1>3 DEF IInv, WhileUp, Step
<1>7. "attention" \notin lapses' => Calm(t)
  <2>1. SUFFICES ASSUME "attention" \notin lapses', t.playing # "none" PROVE Calm(t)
    BY DEF Calm
  <2>2. t.client = "on"
    BY <1>1, <2>1 DEF Shown
  <2>3. "attention" \notin Redeemed(t, op)
    BY <2>1, <2>2 DEF Redeemed
  <2>4. "attention" \notin lapses /\ "attention" \notin NewLapses(t, op)
    BY <1>4, <2>1, <2>3
  <2>5. op \notin {"safety_pause", "farm_end"}
    BY <2>1, <2>4 DEF NewLapses
  <2> QED
    BY <2>4, <2>5 DEF CalmStep, IInv, WhileUp
<1> QED
  BY <1>1, <1>2, <1>3, <1>5, <1>6, <1>7 DEF IInv, WhileUp, TypeOK

\* Runs(op) is what FinishInv needs to know of the moment an operation runs.
LEMMA RunsFacts ==
    ASSUME IInv, NEW op, Runs(op)
    PROVE  /\ phase = "up" /\ ~importing /\ queue # <<>> /\ Head(queue).op = op
           /\ w \in Worker /\ Head(queue) \in Item
           /\ Step(w, w) /\ CalmStep(w, w)
<1>1. w \in Worker /\ queue # <<>> /\ queue \in Seq(Item)
  BY DEF Runs, IInv, TypeOK
<1>2. Step(w, w) /\ CalmStep(w, w)
  BY <1>1, SameStep DEF SameSession, SameTimers
<1> QED
  BY <1>1, <1>2, TailFacts DEF Runs

LEMMA RunnerInv ==
    ASSUME IInv, Runner
    PROVE  IInv'
<1>1. CASE RunStart
  <2> DEFINE s == ClearRecoveryHealth(w)
  <2>1. PICK token \in BOOLEAN : Finish(StartNow(s, token))
    BY <1>1 DEF RunStart
  <2>2. Runs("start") \/ Runs("auto_start")
    BY <1>1 DEF RunStart
  <2>3. s \in Worker /\ Step(w, s) /\ CalmStep(w, s)
    BY <2>2, RunsFacts, ClearRecoveryHealthFacts, SameStep
  <2> HIDE DEF s
  <2>4. Step(w, StartNow(s, token)) /\ CalmStep(w, StartNow(s, token))
    BY <2>3, StartNowStep, StepTransitive
  <2> QED
    BY <2>1, <2>2, <2>4, RunsFacts, FinishInv
<1>2. CASE RunStop
  BY <1>2, RunsFacts, StopNowStep, FinishInv DEF RunStop
<1>3. CASE RunPause
  BY <1>3, RunsFacts, PauseNowStep, FinishInv DEF RunPause
<1>4. CASE RunSafetyPause
  <2>1. PICK t \in SafetyPause(w) : Finish(t)
    BY <1>4 DEF RunSafetyPause
  <2>2. Runs("safety_pause")
    BY <1>4 DEF RunSafetyPause
  <2> QED
    BY <2>1, <2>2, RunsFacts, SafetyPauseStep, FinishInv
<1>5. CASE RunResume
  <2>1. PICK token \in BOOLEAN, manual \in {"none", "manual"} :
          Finish(ResumeNow(w, token, manual))
    BY <1>5 DEF RunResume
  <2>2. Runs("resume") \/ Runs("auto_resume")
    BY <1>5 DEF RunResume
  <2> QED
    BY <2>1, <2>2, RunsFacts, ResumeNowStep, FinishInv
<1>6. CASE RunUpdate
  <2>1. PICK manual \in {"none", "manual"} : Finish(ApplyGames(w, manual))
    BY <1>6 DEF RunUpdate
  <2>2. Runs("update")
    BY <1>6 DEF RunUpdate
  <2> QED
    BY <2>1, <2>2, RunsFacts, ApplyGamesStep, FinishInv
<1>7. CASE RunFarmResume
  <2>1. Runs("farm_resume")
    BY <1>7 DEF RunFarmResume
  <2>2. CASE Finish(w)
    BY <2>1, <2>2, RunsFacts, FinishInv
  <2>3. CASE \E token \in BOOLEAN, manual \in {"none", "manual"} :
               Finish(ResumeForFarming(w, token, manual))
    <3>1. PICK token \in BOOLEAN, manual \in {"none", "manual"} :
            Finish(ResumeForFarming(w, token, manual))
      BY <2>3
    <3> QED
      BY <2>1, <3>1, RunsFacts, ResumeForFarmingStep, FinishInv
  <2> QED
    BY <1>7, <2>2, <2>3 DEF RunFarmResume
<1>8. CASE RunFarmSelection
  <2>1. Runs("farm_empty") \/ Runs("farm_games")
    BY <1>8 DEF RunFarmSelection
  <2>2. CASE Finish(w)
    BY <2>1, <2>2, RunsFacts, FinishInv
  <2>3. CASE \E selection \in {"empty", "games"} :
               Finish(ApplyFarmingSelection(w, selection))
    <3>1. PICK selection \in {"empty", "games"} :
            Finish(ApplyFarmingSelection(w, selection))
      BY <2>3
    <3> QED
      BY <2>1, <3>1, RunsFacts, ApplyFarmingSelectionStep, FinishInv
  <2> QED
    BY <1>8, <2>2, <2>3 DEF RunFarmSelection
<1>9. CASE RunFarmEnd
  <2>1. Runs("farm_end")
    BY <1>9 DEF RunFarmEnd
  <2>2. CASE Finish(w)
    BY <2>1, <2>2, RunsFacts, FinishInv
  <2>3. CASE \E t \in SafetyPause(w) : Finish(t)
    <3>1. PICK t \in SafetyPause(w) : Finish(t)
      BY <2>3
    <3> QED
      BY <2>1, <3>1, RunsFacts, SafetyPauseStep, FinishInv
  <2> QED
    BY <1>9, <2>2, <2>3 DEF RunFarmEnd
<1>10. CASE RunIgnoredEvent
  <2>1. /\ w' = w /\ queue' = Tail(queue) /\ lapses' = lapses \cup {"ignored"}
        /\ importing' = importing /\ phase' = phase /\ elsewhere' = elsewhere
        /\ phase = "up" /\ queue # <<>>
    BY <1>10 DEF RunIgnoredEvent
  <2>2. queue' \in Seq(Item) /\ (LossIn(queue') => LossIn(queue))
    BY <2>1, TailFacts DEF IInv, TypeOK
  <2>3. lapses' \subseteq Lapses /\ ("attention" \in lapses' <=> "attention" \in lapses)
    BY <2>1 DEF IInv, TypeOK, Lapses
  <2> QED
    BY <2>1, <2>2, <2>3 DEF IInv, WhileUp, TypeOK
<1>11. CASE RunLoggedOn
  <2>1. Runs("loggedOn")
    BY <1>11 DEF RunLoggedOn
  <2>2. CASE w.desired = "running"
    <3>1. PICK manual \in {"none", "manual"} : Finish(LoggedOn(w, manual))
      BY <1>11, <2>2 DEF RunLoggedOn
    <3> QED
      BY <2>1, <2>2, <3>1, RunsFacts, LoggedOnStep, FinishInv
  <2>3. CASE w.desired # "running"
    BY <1>11, <2>1, <2>3, RunsFacts, FinishInv DEF RunLoggedOn
  <2> QED
    BY <2>2, <2>3
<1>12. CASE RunPlayingState
  <2>1. Runs("blocked") \/ Runs("free")
    BY <1>12 DEF RunPlayingState
  <2>2. CASE Finish(PlayingBlocked(w))
    BY <2>1, <2>2, RunsFacts, PlayingBlockedStep, FinishInv
  <2>3. CASE \E manual \in {"none", "manual"} : Finish(PlayingFree(w, manual))
    <3>1. PICK manual \in {"none", "manual"} : Finish(PlayingFree(w, manual))
      BY <2>3
    <3> QED
      BY <2>1, <3>1, RunsFacts, PlayingFreeStep, FinishInv
  <2> QED
    BY <1>12, <2>2, <2>3 DEF RunPlayingState
<1>13. CASE RunDisconnected
  <2>1. PICK resumes \in BOOLEAN : Finish(Disconnected(w, Head(queue).arg, resumes))
    BY <1>13 DEF RunDisconnected
  <2>2. Runs("disconnected")
    BY <1>13 DEF RunDisconnected
  <2>3. w.client # "on"
    BY <2>2, RunsFacts, TailFacts DEF IInv, WhileUp, TypeOK
  <2>4. Head(queue).arg \in Failures
    BY <2>2, RunsFacts DEF IInv, Item
  <2> QED
    BY <2>1, <2>2, <2>3, <2>4, RunsFacts, DisconnectedStep, FinishInv
<1>14. CASE RunError
  <2>1. PICK resumes \in BOOLEAN : Finish(ClientError(w, Head(queue).arg, resumes))
    BY <1>14 DEF RunError
  <2>2. Runs("error")
    BY <1>14 DEF RunError
  <2>3. w.client # "on"
    BY <2>2, RunsFacts, TailFacts DEF IInv, WhileUp, TypeOK
  <2>4. Head(queue).arg \in Failures
    BY <2>2, RunsFacts DEF IInv, Item
  <2> QED
    BY <2>1, <2>2, <2>3, <2>4, RunsFacts, ClientErrorStep, FinishInv
<1>15. CASE RunReconnect
  <2>1. Runs("reconnect")
    BY <1>15 DEF RunReconnect
  <2>2. CASE Finish(w)
    BY <2>1, <2>2, RunsFacts, FinishInv
  <2>3. CASE \E token \in BOOLEAN : Finish(StartNow(w, token))
    <3>1. PICK token \in BOOLEAN : Finish(StartNow(w, token))
      BY <2>3
    <3> QED
      BY <2>1, <3>1, RunsFacts, StartNowStep, FinishInv
  <2> QED
    BY <1>15, <2>2, <2>3 DEF RunReconnect
<1>16. CASE RunConflictRetry
  <2>1. Runs("retry") \/ Runs("cooldown")
    BY <1>16 DEF RunConflictRetry
  <2>2. CASE ~TimerCounts
    BY <1>16, <2>1, <2>2, RunsFacts, FinishInv DEF RunConflictRetry
  <2>3. CASE TimerCounts
    <3> DEFINE c == Head(queue).op = "cooldown"
    <3>1. PICK token \in BOOLEAN, manual \in {"none", "manual"} :
            Finish(RetrySessionConflict(w, c, token, manual))
      BY <1>16, <2>3 DEF RunConflictRetry
    <3>2. w.desired = "running" /\ c \in BOOLEAN
      BY <2>3 DEF TimerCounts
    <3> HIDE DEF c
    <3> DEFINE t == RetrySessionConflict(w, c, token, manual)
    <3>3. Step(w, t) /\ CalmStep(w, t)
      BY <2>1, <3>2, RunsFacts, RetrySessionConflictStep
    <3>4. Finish(t)
      BY <3>1
    <3> HIDE DEF t
    <3> QED
      BY <2>1, <3>3, <3>4, RunsFacts, FinishInv
  <2> QED
    BY <2>2, <2>3
<1>17. CASE RunImport
  <2>1. /\ queue' = Tail(queue) /\ importing' = (w.client \in {"on", "leaving"})
        /\ w' = w /\ phase' = phase /\ elsewhere' = elsewhere /\ lapses' = lapses
        /\ phase = "up" /\ queue # <<>>
    BY <1>17 DEF RunImport, Runs
  <2>2. queue' \in Seq(Item) /\ (LossIn(queue') => LossIn(queue))
    BY <2>1, TailFacts DEF IInv, TypeOK
  <2> QED
    BY <2>1, <2>2 DEF IInv, WhileUp, TypeOK
<1>18. CASE ImportEnds
  BY <1>18 DEF ImportEnds, IInv, WhileUp, TypeOK
<1> QED
  BY <1>1, <1>2, <1>3, <1>4, <1>5, <1>6, <1>7, <1>8, <1>9, <1>10, <1>11, <1>12,
     <1>13, <1>14, <1>15, <1>16, <1>17, <1>18
  DEF Runner

\* A request changes the farming selection at most; a timer that fires is off.
LEMMA ArrivalInv ==
    ASSUME IInv, Arrival
    PROVE  IInv'
<1>0. w \in Worker /\ queue \in Seq(Item)
  BY DEF IInv, TypeOK
<1>1. ASSUME NEW op \in Requests, Command(op)
      PROVE  IInv'
  <2> DEFINE t == ClearFarmingSelection(w, FALSE)
             r == Restamp(queue, FALSE, TRUE)
  <2>1. /\ w' = t /\ queue' = Append(r, Op(op, "none")) /\ phase = "up"
        /\ importing' = importing /\ phase' = phase /\ elsewhere' = elsewhere
        /\ lapses' = lapses /\ op \in Commands
    BY <1>1 DEF Command
  <2>2. t \in Worker /\ SameSession(w, t) /\ SameTimers(w, t)
    BY <1>0, ClearFarmingSelectionFacts
  <2>3. r \in Seq(Item) /\ (LossIn(r) => LossIn(queue))
    BY <1>0, RestampFacts
  <2>4. Op(op, "none") \in Item /\ Op(op, "none").op \notin {"disconnected", "error"}
    BY <2>1 DEF Op, Item, Commands
  <2> HIDE DEF t, r
  <2>5. queue' \in Seq(Item) /\ (LossIn(queue') => LossIn(queue))
    BY <2>1, <2>3, <2>4, AppendFacts
  <2> QED
    BY <2>1, <2>2, <2>5
    DEF IInv, WhileUp, TypeOK, SameSession, SameTimers, OneTimer, Shown, Meek, Calm
<1>2. ASSUME NEW op \in Requests, ServiceRequest(op)
      PROVE  IInv'
  <2>1. /\ w' = w /\ queue' = Append(queue, Op(op, "none"))
        /\ importing' = importing /\ phase' = phase /\ elsewhere' = elsewhere
        /\ lapses' = lapses /\ op \in Services \cup Farming
    BY <1>2, RequestsAssumption DEF ServiceRequest
  <2>2. Op(op, "none") \in Item /\ Op(op, "none").op \notin {"disconnected", "error"}
    BY <2>1 DEF Op, Item, Services, Farming
  <2>3. queue' \in Seq(Item) /\ (LossIn(queue') => LossIn(queue))
    BY <1>0, <2>1, <2>2, AppendFacts
  <2> QED
    BY <2>1, <2>3 DEF IInv, WhileUp, TypeOK
<1>3. ASSUME NEW t \in Worker, NEW x \in Item, w' = t, queue' = Append(queue, x),
             SameSession(w, t), OneTimer(w) => OneTimer(t), x.op \in Timers,
             importing' = importing, phase' = phase, elsewhere' = elsewhere,
             lapses' = lapses
      PROVE  IInv'
  <2>1. queue' \in Seq(Item) /\ (LossIn(queue') => LossIn(queue))
    BY <1>0, <1>3, AppendFacts DEF Timers
  <2> QED
    BY <1>3, <2>1 DEF IInv, WhileUp, TypeOK, SameSession, Shown, Meek, Calm
<1>4. CASE ReconnectTimerFires
  <2> DEFINE t == [w EXCEPT !.reconnect = "off"]
             x == [op |-> "reconnect", arg |-> "none", live |-> w.reconnect = "live"]
  <2>1. t \in Worker /\ SameSession(w, t) /\ OneTimer(t)
    BY <1>0 DEF Worker, SameSession, OneTimer
  <2>2. x \in Item /\ x.op \in Timers
    BY DEF Item, Timers
  <2> QED
    BY <1>3, <1>4, <2>1, <2>2 DEF ReconnectTimerFires
<1>5. CASE ConflictTimerFires
  <2> DEFINE t == [w EXCEPT !.conflict = "off"]
             o == IF w.conflict = "cooldown" THEN "cooldown" ELSE "retry"
             x == [op |-> o, arg |-> "none", live |-> w.conflict # "stale"]
  <2>1. t \in Worker /\ SameSession(w, t) /\ OneTimer(t)
    BY <1>0 DEF Worker, SameSession, OneTimer
  <2>2. o \in Timers
    BY DEF Timers
  <2>3. x \in Item /\ x.op \in Timers
    <3> HIDE DEF o
    <3> QED
      BY <2>2 DEF Item, Timers
  <2> QED
    BY <1>3, <1>5, <2>1, <2>3 DEF ConflictTimerFires
<1> QED
  BY <1>1, <1>2, <1>4, <1>5 DEF Arrival

LEMMA EmitFacts ==
    ASSUME IInv, NEW items \in Seq(Item), Emit(items)
    PROVE  /\ queue' \in Seq(Item)
           /\ LossIn(queue') => LossIn(queue) \/ LossIn(items)
           /\ importing' = importing /\ phase' = phase /\ lapses' = lapses
           /\ phase = "up" => queue = <<>> \/ importing
<1>1. queue \in Seq(Item)
  BY DEF IInv, TypeOK
<1>2. queue' = IF phase = "up" THEN queue \o items ELSE queue
  BY DEF Emit
<1>3. /\ queue \o items \in Seq(Item)
      /\ LossIn(queue \o items) => LossIn(queue) \/ LossIn(items)
  BY <1>1, ConcatFacts
<1> QED
  BY <1>1, <1>2, <1>3 DEF Emit, Settled

\* Only a logged-on client shows games, so a client that loses or has no session
\* may report its loss.
LEMMA ClientInv ==
    ASSUME IInv, NEW items \in Seq(Item), Emit(items), elsewhere' \in BOOLEAN,
           NEW from, NEW to \in {"on", "off"}, Client(from, to),
           to = "on" => from = "connecting" /\ ~LossIn(items)
    PROVE  IInv'
<1>1. w \in Worker
  BY DEF IInv, TypeOK
<1>2. /\ w' \in Worker /\ w'.client = to /\ w'.playing = "none"
      /\ w'.desired = w.desired /\ w'.connected = w.connected /\ w'.paused = w.paused
      /\ SameTimers(w, w')
  <2>1. w' = [w EXCEPT !.client = to, !.playing = "none"]
    BY DEF Client
  <2>2. w' \in Worker
    BY <1>1, <2>1, ClientFacts
  <2> QED
    BY <1>1, <2>1, <2>2 DEF Worker, SameTimers
<1>3. phase = "up" /\ LossIn(queue') => to # "on"
  <2>1. SUFFICES ASSUME phase = "up", to = "on" PROVE ~LossIn(queue')
    OBVIOUS
  <2>2. w.client = "connecting"
    BY <2>1 DEF Client
  <2>3. queue = <<>>
    BY <2>1, <2>2, EmitFacts DEF IInv, WhileUp
  <2>4. ~LossIn(queue)
    BY <2>3 DEF LossIn
  <2> QED
    BY <2>1, <2>4, EmitFacts
<1>4. phase = "up" /\ importing => to \notin {"connecting", "refused"}
  OBVIOUS
<1> QED
  BY <1>2, <1>3, <1>4, EmitFacts
  DEF IInv, WhileUp, TypeOK, SameTimers, OneTimer, Shown, Meek, Calm

LEMMA LossReportsFacts ==
    ASSUME NEW failure \in Failures, NEW items \in LossReports(failure)
    PROVE  items \in Seq(Item)
<1>1. ASSUME NEW f \in Failures
      PROVE  Op("error", f) \in Item /\ Op("disconnected", f) \in Item
  <2>1. {"error", "disconnected"} \subseteq Events
    BY DEF Events
  <2>2. ASSUME NEW op \in {"error", "disconnected"}
        PROVE  Op(op, f) \in Item
    <3> DEFINE ops == Commands \cup Services \cup Farming \cup Events \cup Timers
               args == Failures \cup {"none"}
    <3>1. op \in ops /\ f \in args
      BY <2>1
    <3>2. Item = {item \in [op : ops, arg : args, live : BOOLEAN] :
                    item.op \in {"disconnected", "error"} => item.arg \in Failures}
      BY DEF Item
    <3> HIDE DEF ops, args
    <3>3. /\ Op(op, f) \in [op : ops, arg : args, live : BOOLEAN]
          /\ Op(op, f).arg = f
      BY <3>1 DEF Op
    <3> QED
      BY <3>2, <3>3
  <2> QED
    BY <2>2
<1>2. CASE items \in {<<Op("error", failure)>>, <<Op("disconnected", failure)>>}
  <2>1. PICK op \in {"error", "disconnected"} : items = <<Op(op, failure)>>
    BY <1>2
  <2> DEFINE x == Op(op, failure)
  <2>2. x \in Item
    BY <1>1
  <2> HIDE DEF x
  <2>3. <<x>> \in Seq(Item)
    BY <2>2
  <2> QED
    BY <2>1, <2>3 DEF x
<1>3. CASE items \notin {<<Op("error", failure)>>, <<Op("disconnected", failure)>>}
  <2>1. PICK second \in {failure, "transient"} :
          items = <<Op("error", failure), Op("disconnected", second)>>
    BY <1>3 DEF LossReports
  <2>2. second \in Failures
    BY <2>1 DEF Failures
  <2> QED
    BY <1>1, <2>1, <2>2
<1> QED
  BY <1>2, <1>3

LEMMA SteamInv ==
    ASSUME IInv, Steam
    PROVE  IInv'
<1>1. elsewhere \in BOOLEAN
  BY DEF IInv, TypeOK
<1>2. /\ Op("loggedOn", "none") \in Item /\ Op("blocked", "none") \in Item
      /\ Op("free", "none") \in Item
      /\ \A op \in {"disconnected", "error"} : Op(op, "transient") \in Item
  BY DEF Op, Item, Events, Failures
<1>3. CASE LogOnAccepted
  <2> DEFINE a == <<Op("loggedOn", "none")>>
             b == IF elsewhere THEN <<Op("blocked", "none")>> ELSE <<>>
  <2>1. a \in Seq(Item) /\ b \in Seq(Item)
    BY <1>2
  <2>2. ~LossIn(a) /\ ~LossIn(b)
    BY DEF LossIn, Op
  <2> HIDE DEF a, b
  <2>3. a \o b \in Seq(Item) /\ ~LossIn(a \o b)
    BY <2>1, <2>2, ConcatFacts
  <2>4. Client("connecting", "on") /\ Emit(a \o b) /\ elsewhere' = elsewhere
    BY <1>3 DEF LogOnAccepted, a, b
  <2> QED
    BY <1>1, <2>3, <2>4, ClientInv
<1>4. CASE LogOnFails \/ SessionDrops
  <2>1. PICK failure \in Failures : \E items \in LossReports(failure) : Emit(items)
    BY <1>4 DEF LogOnFails, SessionDrops
  <2>2. PICK items \in LossReports(failure) : Emit(items)
    BY <2>1
  <2>3. \E from : Client(from, "off")
    BY <1>4 DEF LogOnFails, SessionDrops
  <2>4. elsewhere' = elsewhere
    BY <1>4 DEF LogOnFails, SessionDrops
  <2> QED
    BY <1>1, <2>2, <2>3, <2>4, LossReportsFacts, ClientInv
<1>5. CASE LogOffCompletes \/ LogOnRefused
  <2>1. PICK op \in {"disconnected", "error"} : Emit(<<Op(op, "transient")>>)
    BY <1>5 DEF LogOffCompletes, LogOnRefused
  <2>2. <<Op(op, "transient")>> \in Seq(Item)
    BY <1>2
  <2>3. (\E from : Client(from, "off")) /\ elsewhere' = elsewhere
    BY <1>5 DEF LogOffCompletes, LogOnRefused
  <2> QED
    BY <1>1, <2>1, <2>2, <2>3, ClientInv
<1>6. ASSUME NEW items \in Seq(Item), ~LossIn(items), Emit(items), w' = w,
             elsewhere' \in BOOLEAN
      PROVE  IInv'
  BY <1>6, EmitFacts DEF IInv, WhileUp, TypeOK
<1>7. CASE OtherSessionChanges
  <2> DEFINE op == IF elsewhere THEN "free" ELSE "blocked"
             items == IF w.client # "on" THEN <<>> ELSE <<Op(op, "none")>>
  <2>1. op \in {"free", "blocked"}
    OBVIOUS
  <2>2. Op(op, "none") \in Item /\ Op(op, "none").op \notin {"disconnected", "error"}
    BY <1>2, <2>1 DEF Op
  <2> HIDE DEF op
  <2>3. items \in Seq(Item) /\ ~LossIn(items)
    BY <2>2 DEF LossIn
  <2>4. Emit(items) /\ w' = w /\ elsewhere' = ~elsewhere
    BY <1>7 DEF OtherSessionChanges, op
  <2> HIDE DEF items
  <2> QED
    BY <1>1, <1>6, <2>3, <2>4
<1>8. CASE GamesRefused
  <2>1. /\ <<Op("blocked", "none")>> \in Seq(Item)
        /\ ~LossIn(<<Op("blocked", "none")>>)
    BY <1>2 DEF LossIn, Op
  <2> QED
    BY <1>1, <1>6, <1>8, <2>1 DEF GamesRefused
<1> QED
  BY <1>3, <1>4, <1>5, <1>7, <1>8 DEF Steam

LEMMA RebornFacts ==
    ASSUME NEW s \in Worker
    PROVE  LET t == Reborn(s)
           IN /\ t \in Worker
              /\ t.desired = s.desired /\ t.connected = FALSE
              /\ t.reconnect = "off" /\ t.client = "off" /\ t.playing = "none"
<1> DEFINE a == ClearFarmingSelection(s, FALSE)
           b == ClearRetryTimers(a)
           c == ResetSessionConflict(b)
<1>1. a \in Worker /\ a.desired = s.desired
  BY ClearFarmingSelectionFacts DEF SameSession
<1> HIDE DEF a
<1>2. b \in Worker /\ b.desired = s.desired /\ b.reconnect = "off"
  BY <1>1, ClearRetryTimersFacts DEF SameSession
<1> HIDE DEF b
<1>3. c \in Worker /\ c.desired = s.desired /\ c.reconnect = "off"
  BY <1>2, ResetSessionConflictFacts DEF SameSession, SameTimers
<1> HIDE DEF c
<1> DEFINE d == [c EXCEPT !.connected = FALSE]
           e == [d EXCEPT !.paused = FALSE]
           f == [e EXCEPT !.reported = "none"]
           g == [f EXCEPT !.client = "off"]
           h == [g EXCEPT !.playing = "none"]
<1>4. Reborn(s) = h
  BY DEF Reborn, a, b, c
<1>5. d \in Worker /\ d.desired = s.desired /\ d.reconnect = "off" /\ d.connected = FALSE
  BY <1>3 DEF Worker
<1> HIDE DEF d
<1>6. /\ e \in Worker /\ e.desired = s.desired /\ e.reconnect = "off"
      /\ e.connected = FALSE
  BY <1>5 DEF Worker
<1> HIDE DEF e
<1>7. /\ f \in Worker /\ f.desired = s.desired /\ f.reconnect = "off"
      /\ f.connected = FALSE
  BY <1>6, Literals DEF Worker
<1> HIDE DEF f
<1>8. /\ g \in Worker /\ g.desired = s.desired /\ g.reconnect = "off"
      /\ g.connected = FALSE /\ g.client = "off"
  BY <1>7 DEF Worker
<1> HIDE DEF g
<1>9. /\ h \in Worker /\ h.desired = s.desired /\ h.connected = FALSE
      /\ h.reconnect = "off" /\ h.client = "off" /\ h.playing = "none"
  BY <1>8, Literals DEF Worker
<1> HIDE DEF h
<1> QED
  BY <1>4, <1>9

LEMMA ProcessInv ==
    ASSUME IInv, Process
    PROVE  IInv'
<1>0. w \in Worker /\ <<>> \in Seq(Item) /\ ~LossIn(<<>>)
  BY DEF IInv, TypeOK, LossIn
<1>1. CASE BeginShutdown
  <2> DEFINE a == ClearFarmingSelection(w, FALSE)
             b == ClearRetryTimers(a)
             c == ResetSessionConflict(b)
             d == SetDesiredState(c, "paused")
  <2>1. a \in Worker /\ SameSession(w, a)
    BY <1>0, ClearFarmingSelectionFacts
  <2> HIDE DEF a
  <2>2. b \in Worker /\ SameSession(a, b) /\ b.reconnect = "off" /\ b.conflict = "off"
    BY <2>1, ClearRetryTimersFacts
  <2> HIDE DEF b
  <2>3. c \in Worker /\ SameSession(b, c) /\ SameTimers(b, c)
    BY <2>2, ResetSessionConflictFacts
  <2> HIDE DEF c
  <2>4. /\ d \in Worker /\ d.client = c.client /\ d.playing = c.playing
        /\ (OneTimer(c) => OneTimer(d))
    BY <2>3, SetDesiredStateFacts DEF Desires
  <2> HIDE DEF d
  <2>5. w' \in {c, d}
    BY <1>1 DEF BeginShutdown, a, b, c, d
  <2>6. w' \in Worker /\ OneTimer(w') /\ w'.client = w.client /\ w'.playing = w.playing
    BY <2>1, <2>2, <2>3, <2>4, <2>5 DEF SameSession, SameTimers, OneTimer
  <2> QED
    BY <1>0, <1>1, <2>6 DEF BeginShutdown, IInv, TypeOK, Shown
<1>2. CASE FinishShutdown
  <2> DEFINE a == ReportGames(w, "none")
             lost == [a EXCEPT !.connected = FALSE]
             b == [lost EXCEPT !.client = "off"]
             c == SetStatus(b, "disconnected")
  <2>1. a \in Worker /\ SameTimers(w, a) /\ a.playing = "none"
    BY <1>0, ReportGamesFacts, Literals
  <2> HIDE DEF a
  <2>2. b \in Worker /\ SameTimers(a, b) /\ b.playing = "none"
    <3>1. lost \in Worker /\ SameTimers(a, lost) /\ lost.playing = "none"
      BY <2>1 DEF Worker, SameTimers
    <3> HIDE DEF lost
    <3> QED
      BY <3>1 DEF Worker, SameTimers
  <2> HIDE DEF b
  <2>3. c \in Worker /\ SameTimers(b, c) /\ SameSession(b, c)
    BY <2>2, SetStatusFacts, Literals
  <2> HIDE DEF c
  <2>4. w' = c
    BY <1>2 DEF FinishShutdown, a, lost, b, c
  <2> QED
    BY <1>2, <2>1, <2>2, <2>3, <2>4
    DEF FinishShutdown, IInv, TypeOK, SameTimers, SameSession, OneTimer, Shown
<1>3. CASE Crash
  BY <1>0, <1>3, RebornFacts DEF Crash, IInv, TypeOK, OneTimer, Shown
<1>4. CASE Boot
  <2>1. w' = Reborn(w) /\ importing' = importing /\ elsewhere' = elsewhere /\ phase' = "up"
    BY <1>4 DEF Boot
  <2>2. /\ w' \in Worker /\ w'.connected = FALSE /\ w'.reconnect = "off"
        /\ w'.client = "off" /\ w'.playing = "none"
    BY <1>0, <2>1, RebornFacts
  <2>3. queue' \in {<<>>, <<Op("auto_start", "none")>>}
    BY <1>4 DEF Boot
  <2>4. queue' \in Seq(Item)
    <3>1. Op("auto_start", "none") \in Item
      BY DEF Op, Item, Services
    <3> DEFINE x == Op("auto_start", "none")
    <3> HIDE DEF x
    <3>2. <<x>> \in Seq(Item)
      BY <3>1 DEF x
    <3> QED
      BY <1>0, <2>3, <3>2 DEF x
  <2>5. lapses' \subseteq Lapses
    <3>1. lapses' \in {{"boot"}, {}, {"held"}}
      BY <1>4 DEF Boot
    <3> QED
      BY <3>1 DEF Lapses
  <2> QED
    BY <2>1, <2>2, <2>4, <2>5 DEF IInv, WhileUp, TypeOK, OneTimer, Shown, Meek, Calm
<1> QED
  BY <1>1, <1>2, <1>3, <1>4 DEF Process

LEMMA InitInv == Init => IInv
<1> SUFFICES ASSUME Init PROVE IInv
  OBVIOUS
<1>1. w \in Worker
  BY Literals DEF Init, Worker
<1>2. /\ w.reconnect = "off" /\ w.playing = "none" /\ phase = "down"
      /\ queue = <<>> /\ importing = FALSE /\ elsewhere = FALSE /\ lapses = {}
  BY DEF Init
<1>3. queue \in Seq(Item) /\ lapses \subseteq Lapses
  BY <1>2
<1> QED
  BY <1>1, <1>2, <1>3 DEF IInv, TypeOK, OneTimer, Shown

LEMMA NextInv == IInv /\ [Next]_vars => IInv'
<1> SUFFICES ASSUME IInv, [Next]_vars PROVE IInv'
  OBVIOUS
<1>1. CASE UNCHANGED vars
  BY <1>1 DEF vars, IInv, WhileUp, TypeOK
<1> QED
  BY <1>1, RunnerInv, ArrivalInv, SteamInv, ProcessInv DEF Next

LEMMA Invariance == Spec => []IInv
  BY InitInv, NextInv, PTL DEF Spec

(***************************************************************************)
(* What late timers and events may do                                      *)
(***************************************************************************)

\* A step that arms no backoff where none was armed; and one that, besides, does not
\* wake an account that should not run.
Tame(s, t) == t \in Worker /\ (s.reconnect = "off" => t.reconnect = "off")
NoWake(s, t) == t.desired = "running" => s.desired = "running"
Late(s, t) == Tame(s, t) /\ NoWake(s, t)

LEMMA LateTransitive ==
    ASSUME NEW s, NEW t, NEW u
    PROVE  /\ Tame(s, t) /\ Tame(t, u) => Tame(s, u)
           /\ Late(s, t) /\ Late(t, u) => Late(s, u)
  BY DEF Late, Tame, NoWake

LEMMA LateSame ==
    ASSUME NEW s \in Worker, NEW t \in Worker, SameSession(s, t), SameTimers(s, t)
    PROVE  Late(s, t)
  BY DEF Late, Tame, NoWake, SameSession, SameTimers

LEMMA LateDesired ==
    ASSUME NEW s \in Worker, NEW d \in Desires
    PROVE  /\ Tame(s, SetDesiredState(s, d))
           /\ d # "running" => Late(s, SetDesiredState(s, d))
<1>1. /\ SetDesiredState(s, d) \in Worker /\ SetDesiredState(s, d).desired = d
  BY SetDesiredStateFacts
<1>2. s.reconnect = "off" => SetDesiredState(s, d).reconnect = "off"
  BY DEF SetDesiredState, Stale, Worker
<1> QED
  BY <1>1, <1>2 DEF Late, Tame, NoWake

\* The helpers that leave the intent and the timers alone, or only clear them.
LEMMA LateHelpers ==
    ASSUME NEW s \in Worker
    PROVE  /\ Late(s, s)
           /\ Late(s, ClearFarmingSelection(s, FALSE))
           /\ \A st \in Statuses : Late(s, SetStatus(s, st))
           /\ \A p \in Payloads : Late(s, ReportGames(s, p))
           /\ Late(s, ClearRetryTimers(s))
           /\ Late(s, ResetSessionConflict(s))
           /\ Late(s, ClearRecoveryHealth(s))
           /\ Late(s, LogOn(s)) /\ Late(s, LogOff(s))
           /\ \A source \in {"login", "live"} : Late(s, RegisterSessionConflict(s, source))
<1>1. Late(s, s)
  BY LateSame DEF SameSession, SameTimers
<1>2. Late(s, ClearFarmingSelection(s, FALSE))
  BY LateSame, ClearFarmingSelectionFacts
<1>3. \A st \in Statuses : Late(s, SetStatus(s, st))
  BY LateSame, SetStatusFacts
<1>4. \A p \in Payloads : Late(s, ReportGames(s, p))
  BY ReportGamesFacts DEF SameTimers, Late, Tame, NoWake
<1>5. Late(s, ClearRetryTimers(s))
  BY ClearRetryTimersFacts DEF SameSession, Late, Tame, NoWake
<1>6. Late(s, ResetSessionConflict(s))
  BY LateSame, ResetSessionConflictFacts
<1>7. Late(s, ClearRecoveryHealth(s))
  BY LateSame, ClearRecoveryHealthFacts
<1>8. Late(s, LogOn(s)) /\ Late(s, LogOff(s))
  BY LogOnFacts, LogOffFacts DEF SameTimers, Late, Tame, NoWake
<1>9. \A source \in {"login", "live"} : Late(s, RegisterSessionConflict(s, source))
  BY RegisterSessionConflictFacts DEF SameSession, Late, Tame, NoWake
<1> QED
  BY <1>1, <1>2, <1>3, <1>4, <1>5, <1>6, <1>7, <1>8, <1>9

LEMMA LateApplyGames ==
    ASSUME NEW s \in Worker, NEW manual \in {"none", "manual"}
    PROVE  Late(s, ApplyGames(s, manual))
<1>1. CASE ~s.connected
  BY <1>1, LateHelpers DEF ApplyGames
<1>2. CASE s.connected
  <2>1. PICK p \in Payloads, st \in Statuses :
          ApplyGames(s, manual) = SetStatus(ReportGames(s, p), st)
    <3>1. CASE s.paused
      BY <1>2, <3>1, Literals DEF ApplyGames
    <3>2. CASE ~s.paused /\ s.blocked
      BY <1>2, <3>2, Literals DEF ApplyGames
    <3>3. CASE ~s.paused /\ ~s.blocked
      BY <1>2, <3>3, Literals, PayloadFacts DEF ApplyGames
    <3> QED
      BY <3>1, <3>2, <3>3
  <2> DEFINE r == ReportGames(s, p)
  <2>2. Late(s, r) /\ r \in Worker
    BY LateHelpers DEF Late, Tame
  <2> HIDE DEF r
  <2>3. Late(r, SetStatus(r, st))
    BY <2>2, LateHelpers
  <2> QED
    BY <2>1, <2>2, <2>3, LateTransitive DEF r
<1> QED
  BY <1>1, <1>2

LEMMA LateStartNow ==
    ASSUME NEW s \in Worker, NEW token \in BOOLEAN
    PROVE  Tame(s, StartNow(s, token))
<1>1. CASE s.status = "connecting" \/ (s.connected /\ s.status \in Active)
  BY <1>1 DEF StartNow, Tame
<1>2. CASE ~(s.status = "connecting" \/ (s.connected /\ s.status \in Active)) /\ ~token
  <2>1. StartNow(s, token) = SetStatus(s, "login_required")
    BY <1>2 DEF StartNow
  <2> QED
    BY <2>1, LateHelpers, Literals DEF Late
<1>3. CASE ~(s.status = "connecting" \/ (s.connected /\ s.status \in Active)) /\ token
  <2> DEFINE a == [s EXCEPT !.paused = FALSE]
             b == SetDesiredState(a, "running")
             c == SetStatus(b, "connecting")
             d == [c EXCEPT !.handled = FALSE]
  <2>1. StartNow(s, token) = LogOn(d)
    BY <1>3 DEF StartNow
  <2>2. Tame(s, a) /\ a \in Worker
    BY DEF Worker, Tame
  <2> HIDE DEF a
  <2>3. Tame(a, b) /\ b \in Worker
    BY <2>2, LateDesired DEF Desires, Tame
  <2> HIDE DEF b
  <2>4. Tame(b, c) /\ c \in Worker
    BY <2>3, LateHelpers, Literals DEF Late, Tame
  <2> HIDE DEF c
  <2>5. Tame(c, d) /\ d \in Worker
    BY <2>4 DEF Worker, Tame
  <2> HIDE DEF d
  <2>6. Tame(d, LogOn(d))
    BY <2>5, LateHelpers DEF Late
  <2> QED
    BY <2>1, <2>2, <2>3, <2>4, <2>5, <2>6, LateTransitive
<1> QED
  BY <1>1, <1>2, <1>3

LEMMA LateCleared ==
    ASSUME NEW s \in Worker
    PROVE  Late(s, Cleared(s))
  BY ClearedFacts DEF SameSession, Late, Tame, NoWake

LEMMA LateStopNow ==
    ASSUME NEW s \in Worker
    PROVE  Tame(s, StopNow(s))
<1> DEFINE a == Cleared(s)
           b == SetDesiredState(a, "stopped")
           c == ReportGames(b, "none")
           d == LogOff(c)
           e == [d EXCEPT !.connected = FALSE]
<1>1. StopNow(s) = SetStatus(e, "disconnected")
  BY DEF StopNow, Cleared
<1>2. Tame(s, a) /\ a \in Worker
  BY LateCleared DEF Late, Tame
<1> HIDE DEF a
<1>3. Tame(a, b) /\ b \in Worker
  BY <1>2, LateDesired DEF Desires, Tame
<1> HIDE DEF b
<1>4. Tame(b, c) /\ c \in Worker
  BY <1>3, LateHelpers, Literals DEF Late, Tame
<1> HIDE DEF c
<1>5. Tame(c, d) /\ d \in Worker
  BY <1>4, LateHelpers DEF Late, Tame
<1> HIDE DEF d
<1>6. Tame(d, e) /\ e \in Worker
  BY <1>5 DEF Worker, Tame
<1> HIDE DEF e
<1>7. Tame(e, SetStatus(e, "disconnected"))
  BY <1>6, LateHelpers, Literals DEF Late
<1> QED
  BY <1>1, <1>2, <1>3, <1>4, <1>5, <1>6, <1>7, LateTransitive

\* The pause, and what a pause's fallbacks share with it.
LEMMA LatePause ==
    ASSUME NEW s \in Worker
    PROVE  LET c == SetDesiredState([Cleared(s) EXCEPT !.paused = TRUE], "paused")
               d == ReportGames(c, "none")
           IN Late(s, c) /\ Late(s, d) /\ Late(s, SetStatus(d, "paused_manual"))
<1> DEFINE a == Cleared(s)
           b == [a EXCEPT !.paused = TRUE]
           c == SetDesiredState(b, "paused")
           d == ReportGames(c, "none")
<1>1. Late(s, a) /\ a \in Worker
  BY LateCleared DEF Late, Tame
<1> HIDE DEF a
<1>2. Late(a, b) /\ b \in Worker
  BY <1>1 DEF Worker, Late, Tame, NoWake
<1> HIDE DEF b
<1>3. Late(b, c) /\ c \in Worker
  BY <1>2, LateDesired DEF Desires, Late, Tame
<1> HIDE DEF c
<1>4. Late(c, d) /\ d \in Worker
  BY <1>3, LateHelpers, Literals DEF Late, Tame
<1> HIDE DEF d
<1>5. Late(d, SetStatus(d, "paused_manual"))
  BY <1>4, LateHelpers, Literals
<1>6. Late(s, c) /\ Late(s, d) /\ Late(s, SetStatus(d, "paused_manual"))
  BY <1>1, <1>2, <1>3, <1>4, <1>5, LateTransitive
<1> QED
  BY <1>6 DEF a, b, c, d

LEMMA LateSafetyPause ==
    ASSUME NEW s \in Worker, NEW t \in SafetyPause(s)
    PROVE  Late(s, t)
<1>1. Late(s, PauseNow(s))
  BY LatePause DEF PauseNow, Cleared
<1>2. Late(s, ForceDisconnectForSafety(s))
  <2> DEFINE d == ReportGames(SetDesiredState([Cleared(s) EXCEPT !.paused = TRUE],
                                              "paused"), "none")
             e == LogOff(d)
             f == [e EXCEPT !.connected = FALSE]
  <2>1. ForceDisconnectForSafety(s) = SetStatus(f, "paused_manual")
    BY DEF ForceDisconnectForSafety, Cleared
  <2>2. Late(s, d) /\ d \in Worker
    BY LatePause DEF Late, Tame
  <2> HIDE DEF d
  <2>3. Late(d, e) /\ e \in Worker
    BY <2>2, LateHelpers DEF Late, Tame
  <2> HIDE DEF e
  <2>4. Late(e, f) /\ f \in Worker
    <3>1. f \in Worker /\ f.reconnect = e.reconnect /\ f.desired = e.desired
      BY <2>3 DEF Worker
    <3> QED
      BY <3>1 DEF Late, Tame, NoWake
  <2> HIDE DEF f
  <2>5. Late(f, SetStatus(f, "paused_manual"))
    BY <2>4, LateHelpers, Literals
  <2> QED
    BY <2>1, <2>2, <2>3, <2>4, <2>5, LateTransitive
<1>3. ASSUME NEW cleared \in BOOLEAN, NEW left \in BOOLEAN
      PROVE  Late(s, MarkSafetyAttention(s, cleared, left))
  <2> DEFINE a == IF cleared THEN ReportGames(s, "none") ELSE s
             b == IF left THEN LogOff(a) ELSE a
             c == ClearFarmingSelection(b, FALSE)
             d == ClearRetryTimers(c)
             e == ResetSessionConflict(d)
             f == [e EXCEPT !.connected = FALSE, !.paused = TRUE, !.health = "terminal"]
             g == SetDesiredState(f, "paused")
  <2>1. MarkSafetyAttention(s, cleared, left) = SetStatus(g, "error")
    BY DEF MarkSafetyAttention
  <2>2. Late(s, a) /\ a \in Worker
    BY LateHelpers, Literals DEF Late, Tame
  <2> HIDE DEF a
  <2>3. Late(a, b) /\ b \in Worker
    BY <2>2, LateHelpers DEF Late, Tame
  <2> HIDE DEF b
  <2>4. Late(b, c) /\ c \in Worker
    BY <2>3, LateHelpers DEF Late, Tame
  <2> HIDE DEF c
  <2>5. Late(c, d) /\ d \in Worker
    BY <2>4, LateHelpers DEF Late, Tame
  <2> HIDE DEF d
  <2>6. Late(d, e) /\ e \in Worker
    BY <2>5, LateHelpers DEF Late, Tame
  <2> HIDE DEF e
  <2>7. Late(e, f) /\ f \in Worker
    <3> DEFINE x == [e EXCEPT !.connected = FALSE]
               y == [x EXCEPT !.paused = TRUE]
    <3>1. x \in Worker /\ x.reconnect = e.reconnect /\ x.desired = e.desired
      BY <2>6 DEF Worker
    <3> HIDE DEF x
    <3>2. y \in Worker /\ y.reconnect = x.reconnect /\ y.desired = x.desired
      BY <3>1 DEF Worker
    <3> HIDE DEF y
    <3>3. f = [y EXCEPT !.health = "terminal"]
      BY DEF f, x, y
    <3>4. f \in Worker /\ f.reconnect = y.reconnect /\ f.desired = y.desired
      BY <3>2, <3>3 DEF Worker
    <3> QED
      BY <3>1, <3>2, <3>4 DEF Late, Tame, NoWake
  <2> HIDE DEF f
  <2>8. Late(f, g) /\ g \in Worker
    BY <2>7, LateDesired DEF Desires, Late, Tame
  <2> HIDE DEF g
  <2>9. Late(g, SetStatus(g, "error"))
    BY <2>8, LateHelpers, Literals
  <2>10. Late(s, c)
    BY <2>2, <2>3, <2>4, LateTransitive
  <2>11. Late(s, f)
    BY <2>5, <2>6, <2>7, <2>10, LateTransitive
  <2> QED
    BY <2>1, <2>8, <2>9, <2>11, LateTransitive
<1> QED
  BY <1>1, <1>2, <1>3 DEF SafetyPause

LEMMA LateResume ==
    ASSUME NEW s \in Worker, NEW token \in BOOLEAN, NEW manual \in {"none", "manual"}
    PROVE  /\ Tame(s, ResumeNow(s, token, manual))
           /\ Tame(s, ResumeForFarming(s, token, manual))
<1>1. ASSUME NEW a \in Worker, Tame(s, a)
      PROVE  LET c == ClearRecoveryHealth(SetDesiredState(a, "running"))
             IN Tame(s, IF c.connected THEN ApplyGames(c, manual) ELSE StartNow(c, token))
  <2> DEFINE b == SetDesiredState(a, "running")
             c == ClearRecoveryHealth(b)
  <2>1. Tame(a, b) /\ b \in Worker
    BY LateDesired DEF Desires, Tame
  <2> HIDE DEF b
  <2>2. Tame(b, c) /\ c \in Worker
    BY <2>1, LateHelpers DEF Late, Tame
  <2> HIDE DEF c
  <2>3. Tame(c, ApplyGames(c, manual)) /\ Tame(c, StartNow(c, token))
    BY <2>2, LateApplyGames, LateStartNow DEF Late
  <2>4. Tame(s, c)
    BY <1>1, <2>1, <2>2, LateTransitive
  <2>5. Tame(s, IF c.connected THEN ApplyGames(c, manual) ELSE StartNow(c, token))
    BY <2>3, <2>4, LateTransitive
  <2> QED
    BY <2>5 DEF b, c
<1>2. Tame(s, ResumeNow(s, token, manual))
  <2> DEFINE a == [s EXCEPT !.paused = FALSE, !.awaiting = FALSE]
  <2>1. a \in Worker /\ Tame(s, a)
    BY DEF Worker, Tame
  <2>2. LET c == ClearRecoveryHealth(SetDesiredState(a, "running"))
        IN ResumeNow(s, token, manual) =
             IF c.connected THEN ApplyGames(c, manual) ELSE StartNow(c, token)
    BY DEF ResumeNow
  <2> HIDE DEF a
  <2> QED
    BY <1>1, <2>1, <2>2
<1>3. Tame(s, ResumeForFarming(s, token, manual))
  <2> DEFINE a == [s EXCEPT !.paused = FALSE, !.farming = "empty", !.awaiting = TRUE]
  <2>1. a \in Worker /\ Tame(s, a)
    BY DEF Worker, Tame
  <2>2. LET c == ClearRecoveryHealth(SetDesiredState(a, "running"))
        IN ResumeForFarming(s, token, manual) \in
             {s, IF c.connected THEN ApplyGames(c, manual) ELSE StartNow(c, token)}
    BY DEF ResumeForFarming
  <2> HIDE DEF a
  <2>3. Tame(s, s)
    BY DEF Tame
  <2> QED
    BY <1>1, <2>1, <2>2, <2>3
<1> QED
  BY <1>2, <1>3

LEMMA LateApplyFarmingSelection ==
    ASSUME NEW s \in Worker, NEW selection \in {"empty", "games"}
    PROVE  Late(s, ApplyFarmingSelection(s, selection))
<1> DEFINE a == [s EXCEPT !.farming = selection, !.awaiting = FALSE]
<1>1. a \in Worker /\ Late(s, a)
  BY DEF Worker, Late, Tame, NoWake
<1>2. ApplyFarmingSelection(s, selection) \in {s, ApplyGames(a, "none")}
  BY DEF ApplyFarmingSelection
<1> HIDE DEF a
<1>3. Late(a, ApplyGames(a, "none")) /\ Late(s, s)
  BY <1>1, LateApplyGames, LateHelpers
<1> QED
  BY <1>1, <1>2, <1>3, LateTransitive

LEMMA LateLoggedOn ==
    ASSUME NEW s \in Worker, NEW manual \in {"none", "manual"}
    PROVE  Late(s, LoggedOn(s, manual))
<1> DEFINE a == ClearRetryTimers(s)
           b == ResetSessionConflict(a)
           c == ClearRecoveryHealth(b)
           d == [c EXCEPT !.connected = TRUE]
           e == SetStatus(d, "online")
<1>1. LoggedOn(s, manual) = ApplyGames(e, manual)
  BY DEF LoggedOn
<1>2. Late(s, a) /\ a \in Worker
  BY LateHelpers DEF Late, Tame
<1> HIDE DEF a
<1>3. Late(a, b) /\ b \in Worker
  BY <1>2, LateHelpers DEF Late, Tame
<1> HIDE DEF b
<1>4. Late(b, c) /\ c \in Worker
  BY <1>3, LateHelpers DEF Late, Tame
<1> HIDE DEF c
<1>5. Late(c, d) /\ d \in Worker
  BY <1>4 DEF Worker, Late, Tame, NoWake
<1> HIDE DEF d
<1>6. Late(d, e) /\ e \in Worker
  BY <1>5, LateHelpers, Literals DEF Late, Tame
<1> HIDE DEF e
<1>7. Late(e, ApplyGames(e, manual))
  BY <1>6, LateApplyGames
<1> QED
  BY <1>1, <1>2, <1>3, <1>4, <1>5, <1>6, <1>7, LateTransitive

LEMMA LatePauseIfFarming ==
    ASSUME NEW s \in Worker, NEW wasFarming \in BOOLEAN
    PROVE  Late(s, PauseIfFarming(s, wasFarming))
<1> DEFINE a == [s EXCEPT !.paused = TRUE]
           b == SetDesiredState(a, "paused")
<1>1. PauseIfFarming(s, wasFarming) \in {s, b}
  BY DEF PauseIfFarming
<1>2. a \in Worker /\ Late(s, a)
  BY DEF Worker, Late, Tame, NoWake
<1> HIDE DEF a
<1>3. Late(a, b) /\ Late(s, s)
  BY <1>2, LateDesired, LateHelpers DEF Desires
<1> QED
  BY <1>1, <1>2, <1>3, LateTransitive

LEMMA LatePlayingState ==
    ASSUME NEW s \in Worker, NEW manual \in {"none", "manual"}
    PROVE  Late(s, PlayingBlocked(s)) /\ Late(s, PlayingFree(s, manual))
<1>1. Late(s, PlayingBlocked(s))
  <2> DEFINE a == [s EXCEPT !.blocked = TRUE]
             b == ClearFarmingSelection(a, FALSE)
             c == PauseIfFarming(b, s.farming # "off")
             d == ReportGames(c, "none")
             e == SetStatus(d, "paused_other_session")
  <2>1. PlayingBlocked(s) \in {e, RegisterSessionConflict(e, "live")}
    BY DEF PlayingBlocked
  <2>2. Late(s, a) /\ a \in Worker
    BY DEF Worker, Late, Tame, NoWake
  <2> HIDE DEF a
  <2>3. Late(a, b) /\ b \in Worker
    BY <2>2, LateHelpers DEF Late, Tame
  <2> HIDE DEF b
  <2>4. Late(b, c) /\ c \in Worker
    <3>1. (s.farming # "off") \in BOOLEAN
      OBVIOUS
    <3> QED
      BY <2>3, <3>1, LatePauseIfFarming DEF Late, Tame
  <2> HIDE DEF c
  <2>5. Late(c, d) /\ d \in Worker
    BY <2>4, LateHelpers, Literals DEF Late, Tame
  <2> HIDE DEF d
  <2>6. Late(d, e) /\ e \in Worker
    BY <2>5, LateHelpers, Literals DEF Late, Tame
  <2> HIDE DEF e
  <2>7. Late(e, RegisterSessionConflict(e, "live"))
    BY <2>6, LateHelpers
  <2>8. Late(s, e)
    BY <2>2, <2>3, <2>4, <2>5, <2>6, LateTransitive
  <2> QED
    BY <2>1, <2>7, <2>8, LateTransitive
<1>2. Late(s, PlayingFree(s, manual))
  <2> DEFINE a == [s EXCEPT !.blocked = FALSE]
             b == [a EXCEPT !.conflict = "off"]
             c == ResetSessionConflict(b)
             d == ClearRecoveryHealth(c)
  <2>1. PlayingFree(s, manual) \in {a, ApplyGames(d, manual)}
    BY DEF PlayingFree
  <2>2. Late(s, a) /\ a \in Worker
    BY DEF Worker, Late, Tame, NoWake
  <2> HIDE DEF a
  <2>3. Late(a, b) /\ b \in Worker
    BY <2>2 DEF Worker, Late, Tame, NoWake
  <2> HIDE DEF b
  <2>4. Late(b, c) /\ c \in Worker
    BY <2>3, LateHelpers DEF Late, Tame
  <2> HIDE DEF c
  <2>5. Late(c, d) /\ d \in Worker
    BY <2>4, LateHelpers DEF Late, Tame
  <2> HIDE DEF d
  <2>6. Late(d, ApplyGames(d, manual))
    BY <2>5, LateApplyGames
  <2> QED
    BY <2>1, <2>2, <2>3, <2>4, <2>5, <2>6, LateTransitive
<1> QED
  BY <1>1, <1>2

LEMMA LateSessionLost ==
    ASSUME NEW s \in Worker, NEW failure \in Failures, NEW resumes \in BOOLEAN
    PROVE  Late(s, SessionLost(s, failure, resumes))
<1> DEFINE keep == KeepsRunningForFarming(s, failure, resumes)
           a == ClearFarmingSelection(s, FALSE)
           b == [a EXCEPT !.connected = FALSE, !.awaiting = keep]
           c == PauseIfFarming(b, s.farming # "off" /\ ~keep)
<1>1. SessionLost(s, failure, resumes) = c
  BY DEF SessionLost
<1>2. keep \in BOOLEAN /\ (s.farming # "off" /\ ~keep) \in BOOLEAN
  BY DEF KeepsRunningForFarming
<1> HIDE DEF keep
<1>3. Late(s, a) /\ a \in Worker
  BY LateHelpers DEF Late, Tame
<1> HIDE DEF a
<1>4. Late(a, b) /\ b \in Worker
  <2> DEFINE x == [a EXCEPT !.connected = FALSE]
  <2>1. x \in Worker /\ x.reconnect = a.reconnect /\ x.desired = a.desired
    BY <1>3 DEF Worker
  <2> HIDE DEF x
  <2>2. b = [x EXCEPT !.awaiting = keep]
    BY DEF b, x
  <2> HIDE DEF b
  <2>3. b \in Worker /\ b.reconnect = x.reconnect /\ b.desired = x.desired
    BY <1>2, <2>1, <2>2 DEF Worker
  <2> QED
    BY <2>1, <2>3 DEF Late, Tame, NoWake
<1> HIDE DEF b
<1>5. Late(b, c)
  BY <1>2, <1>4, LatePauseIfFarming
<1> QED
  BY <1>1, <1>3, <1>4, <1>5, LateTransitive

\* A loss never wakes an account; and of a login whose conflict has been handled,
\* no second report arms the backoff.
LEMMA LateLoss ==
    ASSUME NEW s \in Worker, NEW failure \in Failures, NEW resumes \in BOOLEAN,
           NEW u \in {Disconnected(s, failure, resumes), ClientError(s, failure, resumes)}
    PROVE  NoWake(s, u) /\ (s.handled => Late(s, u))
<1> DEFINE t == SessionLost(s, failure, resumes)
<1>1. Late(s, t) /\ t \in Worker
  BY LateSessionLost DEF Late, Tame
<1>2. CASE s.handled
  <2>1. u = t
    BY <1>2 DEF Disconnected, ClientError
  <2> QED
    BY <1>1, <2>1 DEF Late
<1>3. CASE ~s.handled
  <2>1. \/ u \in {HandleLoginSessionConflict(t), HandleTerminalFailure(t)}
        \/ \E st \in Statuses : u \in {SetStatus(t, st), ScheduleReconnect(SetStatus(t, st))}
    <3>1. CASE failure = "conflict"
      BY <1>3, <3>1 DEF Disconnected, ClientError
    <3>2. CASE failure = "auth"
      BY <1>3, <3>2 DEF Disconnected, ClientError
    <3>3. CASE failure = "transient"
      BY <1>3, <3>3, Literals DEF Disconnected, ClientError
    <3> QED
      BY <3>1, <3>2, <3>3 DEF Failures
  <2> HIDE DEF t
  <2>2. NoWake(t, HandleLoginSessionConflict(t))
    <3> DEFINE a == [t EXCEPT !.handled = TRUE, !.connected = FALSE, !.blocked = FALSE]
               b == SetStatus(a, "reconnecting")
    <3>1. HandleLoginSessionConflict(t) \in {t, RegisterSessionConflict(b, "login")}
      BY DEF HandleLoginSessionConflict
    <3>2. a \in Worker /\ NoWake(t, a)
      BY <1>1 DEF Worker, NoWake
    <3> HIDE DEF a
    <3>3. b \in Worker /\ NoWake(a, b)
      BY <3>2, LateHelpers, Literals DEF Late, Tame
    <3> HIDE DEF b
    <3>4. NoWake(b, RegisterSessionConflict(b, "login"))
      BY <3>3, LateHelpers DEF Late
    <3> QED
      BY <3>1, <3>2, <3>3, <3>4 DEF NoWake
  <2>3. NoWake(t, HandleTerminalFailure(t))
    <3> DEFINE b == ResetSessionConflict(ClearRetryTimers(t))
               c == [b EXCEPT !.connected = FALSE, !.health = "terminal"]
               d == SetDesiredState(c, "paused")
    <3>1. HandleTerminalFailure(t) = SetStatus(d, "login_required")
      BY DEF HandleTerminalFailure
    <3>2. b \in Worker
      BY <1>1, ClearRetryTimersFacts, ResetSessionConflictFacts
    <3> HIDE DEF b
    <3>3. c \in Worker
      BY <3>2 DEF Worker
    <3> HIDE DEF c
    <3>4. d \in Worker /\ d.desired = "paused"
      BY <3>3, SetDesiredStateFacts DEF Desires
    <3> HIDE DEF d
    <3>5. SetStatus(d, "login_required").desired = "paused"
      BY <3>4, SetStatusFacts, Literals DEF SameSession
    <3> QED
      BY <3>1, <3>5 DEF NoWake
  <2>4. ASSUME NEW st \in Statuses
        PROVE  NoWake(t, SetStatus(t, st)) /\ NoWake(t, ScheduleReconnect(SetStatus(t, st)))
    <3> DEFINE v == SetStatus(t, st)
    <3>1. NoWake(t, v) /\ v \in Worker
      BY <1>1, LateHelpers DEF Late, Tame
    <3> HIDE DEF v
    <3>2. NoWake(v, ScheduleReconnect(v))
      BY <3>1, ScheduleReconnectFacts DEF SameSession, NoWake
    <3>3. NoWake(t, v) /\ NoWake(t, ScheduleReconnect(v))
      BY <3>1, <3>2 DEF NoWake
    <3> QED
      BY <3>3 DEF v
  <2> QED
    BY <1>1, <1>3, <2>1, <2>2, <2>3, <2>4 DEF Late, NoWake
<1> QED
  BY <1>2, <1>3

LEMMA LateRetrySessionConflict ==
    ASSUME NEW s \in Worker, NEW cooldown \in BOOLEAN, NEW token \in BOOLEAN,
           NEW manual \in {"none", "manual"}
    PROVE  Tame(s, RetrySessionConflict(s, cooldown, token, manual))
<1> DEFINE t == IF cooldown THEN [s EXCEPT !.attempt = 0] ELSE s
           a == ReportGames(t, Payload(t, manual))
           b == RegisterSessionConflict(a, "live")
           c == ResetSessionConflict(t)
           d == ClearRecoveryHealth(c)
<1>1. RetrySessionConflict(s, cooldown, token, manual) \in
        {b, ApplyGames(d, manual), StartNow(t, token)}
  BY DEF RetrySessionConflict, RetryLiveSessionConflict
<1>2. Tame(s, t) /\ t \in Worker
  <2>1. CASE cooldown
    BY <2>1, Literals DEF Worker, Tame
  <2>2. CASE ~cooldown
    BY <2>2 DEF Tame
  <2> QED
    BY <2>1, <2>2
<1> HIDE DEF t
<1>3. Tame(t, a) /\ a \in Worker
  BY <1>2, LateHelpers, PayloadFacts DEF Late, Tame
<1> HIDE DEF a
<1>4. Tame(a, b)
  BY <1>3, LateHelpers DEF Late
<1>5. Tame(t, c) /\ c \in Worker
  BY <1>2, LateHelpers DEF Late, Tame
<1> HIDE DEF c
<1>6. Tame(c, d) /\ d \in Worker
  BY <1>5, LateHelpers DEF Late, Tame
<1> HIDE DEF d
<1>7. Tame(d, ApplyGames(d, manual)) /\ Tame(t, StartNow(t, token))
  BY <1>2, <1>6, LateApplyGames, LateStartNow DEF Late
<1> QED
  BY <1>1, <1>2, <1>3, <1>4, <1>5, <1>6, <1>7, LateTransitive

\* What one step may do to the intent and to the timer of a handled conflict.
MayWake == queue # <<>> /\ Head(queue).op \in Commands \cup Services
Harmless ==
    /\ w.desired # "running" /\ w'.desired = "running" => MayWake
    /\ w.handled /\ w.conflict # "off" => w'.reconnect = "off"

LEMMA HarmlessStep ==
    ASSUME IInv, Tame(w, w'), NoWake(w, w') \/ MayWake
    PROVE  Harmless
<1>1. w.conflict # "off" => w.reconnect = "off"
  BY DEF IInv, OneTimer
<1> QED
  BY <1>1 DEF Tame, NoWake, Harmless

LEMMA RunnerHarmless ==
    ASSUME IInv, Runner
    PROVE  Harmless
<1>0. w \in Worker /\ Late(w, w)
  BY LateHelpers DEF IInv, TypeOK
<1>1. ASSUME NEW t, Finish(t) PROVE w' = t
  BY <1>1 DEF Finish
<1>2. ASSUME NEW op \in Commands \cup Services, Runs(op) PROVE MayWake
  BY <1>2 DEF Runs, MayWake
<1>3. {"start", "stop", "pause", "resume", "update", "auto_start", "auto_resume",
       "safety_pause", "import", "farm_resume"} \subseteq Commands \cup Services
  BY DEF Commands, Services
<1>4. CASE RunStart
  <2> DEFINE s == ClearRecoveryHealth(w)
  <2>1. PICK token \in BOOLEAN : Finish(StartNow(s, token))
    BY <1>4 DEF RunStart
  <2>2. MayWake
    BY <1>2, <1>3, <1>4 DEF RunStart
  <2>3. s \in Worker /\ Tame(w, s)
    BY <1>0, LateHelpers DEF Late, Tame
  <2> HIDE DEF s
  <2>4. Tame(w, StartNow(s, token))
    BY <2>3, LateStartNow, LateTransitive
  <2> QED
    BY <1>1, <2>1, <2>2, <2>4, HarmlessStep
<1>5. CASE RunStop
  <2>1. MayWake /\ w' = StopNow(w)
    BY <1>1, <1>2, <1>3, <1>5 DEF RunStop
  <2> QED
    BY <1>0, <2>1, LateStopNow, HarmlessStep
<1>6. CASE RunPause
  <2>1. w' = PauseNow(w)
    BY <1>1, <1>6 DEF RunPause
  <2> QED
    BY <1>0, <2>1, LateSafetyPause, HarmlessStep DEF SafetyPause, Late
<1>7. CASE RunSafetyPause
  <2>1. w' \in SafetyPause(w)
    BY <1>1, <1>7 DEF RunSafetyPause
  <2> QED
    BY <1>0, <2>1, LateSafetyPause, HarmlessStep DEF Late
<1>8. CASE RunResume
  <2>1. PICK token \in BOOLEAN, manual \in {"none", "manual"} :
          w' = ResumeNow(w, token, manual)
    BY <1>1, <1>8 DEF RunResume
  <2>2. MayWake
    BY <1>2, <1>3, <1>8 DEF RunResume
  <2> QED
    BY <1>0, <2>1, <2>2, LateResume, HarmlessStep
<1>9. CASE RunUpdate
  <2>1. PICK manual \in {"none", "manual"} : w' = ApplyGames(w, manual)
    BY <1>1, <1>9 DEF RunUpdate
  <2> QED
    BY <1>0, <2>1, LateApplyGames, HarmlessStep DEF Late
<1>10. CASE RunFarmResume
  <2>1. MayWake
    BY <1>2, <1>3, <1>10 DEF RunFarmResume
  <2>2. \/ w' = w
        \/ \E token \in BOOLEAN, manual \in {"none", "manual"} :
             w' = ResumeForFarming(w, token, manual)
    BY <1>1, <1>10 DEF RunFarmResume
  <2> QED
    BY <1>0, <2>1, <2>2, LateResume, HarmlessStep DEF Late
<1>11. CASE RunFarmSelection
  <2>1. w' = w \/ \E selection \in {"empty", "games"} :
                    w' = ApplyFarmingSelection(w, selection)
    BY <1>1, <1>11 DEF RunFarmSelection
  <2> QED
    BY <1>0, <2>1, LateApplyFarmingSelection, HarmlessStep DEF Late
<1>12. CASE RunFarmEnd
  <2>1. w' = w \/ w' \in SafetyPause(w)
    BY <1>1, <1>12 DEF RunFarmEnd
  <2> QED
    BY <1>0, <2>1, LateSafetyPause, HarmlessStep DEF Late
<1>13. CASE RunIgnoredEvent \/ RunImport \/ ImportEnds
  <2>1. w' = w
    BY <1>13 DEF RunIgnoredEvent, RunImport, ImportEnds
  <2> QED
    BY <1>0, <2>1, HarmlessStep DEF Late
<1>14. CASE RunLoggedOn
  <2>1. w' = w \/ \E manual \in {"none", "manual"} : w' = LoggedOn(w, manual)
    BY <1>1, <1>14 DEF RunLoggedOn
  <2> QED
    BY <1>0, <2>1, LateLoggedOn, HarmlessStep DEF Late
<1>15. CASE RunPlayingState
  <2>1. \E manual \in {"none", "manual"} : w' \in {PlayingBlocked(w), PlayingFree(w, manual)}
    BY <1>1, <1>15 DEF RunPlayingState
  <2> QED
    BY <1>0, <2>1, LatePlayingState, HarmlessStep DEF Late
<1>16. CASE RunDisconnected \/ RunError
  <2>1. Runs("disconnected") \/ Runs("error")
    BY <1>16 DEF RunDisconnected, RunError
  <2>2. Head(queue).arg \in Failures
    BY <2>1, RunsFacts DEF Item
  <2>3. PICK resumes \in BOOLEAN :
          w' \in {Disconnected(w, Head(queue).arg, resumes),
                  ClientError(w, Head(queue).arg, resumes)}
    BY <1>1, <1>16 DEF RunDisconnected, RunError
  <2>4. NoWake(w, w') /\ (w.handled => Late(w, w'))
    BY <1>0, <2>2, <2>3, LateLoss
  <2>5. CASE w.handled
    BY <2>4, <2>5, HarmlessStep DEF Late
  <2>6. CASE ~w.handled
    BY <2>4, <2>6 DEF Harmless, NoWake
  <2> QED
    BY <2>5, <2>6
<1>17. CASE RunReconnect \/ RunConflictRetry
  <2>1. CASE ~TimerCounts
    <3>1. w' = w
      BY <1>1, <1>17, <2>1 DEF RunReconnect, RunConflictRetry
    <3> QED
      BY <1>0, <3>1, HarmlessStep DEF Late
  <2>2. CASE TimerCounts
    <3>1. w.desired = "running"
      BY <2>2 DEF TimerCounts
    <3>2. \/ \E token \in BOOLEAN : w' = StartNow(w, token)
          \/ \E cooldown \in BOOLEAN, token \in BOOLEAN, manual \in {"none", "manual"} :
               w' = RetrySessionConflict(w, cooldown, token, manual)
      BY <1>1, <1>17, <2>2 DEF RunReconnect, RunConflictRetry
    <3>3. Tame(w, w')
      BY <1>0, <3>2, LateStartNow, LateRetrySessionConflict
    <3> QED
      BY <3>1, <3>3, HarmlessStep DEF NoWake
  <2> QED
    BY <2>1, <2>2
<1> QED
  BY <1>4, <1>5, <1>6, <1>7, <1>8, <1>9, <1>10, <1>11, <1>12, <1>13, <1>14, <1>15,
     <1>16, <1>17
  DEF Runner

LEMMA OthersHarmless ==
    ASSUME IInv, Arrival \/ Steam \/ Process
    PROVE  Harmless
<1>0. w \in Worker /\ Late(w, w)
  BY LateHelpers DEF IInv, TypeOK
<1>1. CASE Arrival
  <2>1. \/ w' = w \/ w' = ClearFarmingSelection(w, FALSE)
        \/ w' = [w EXCEPT !.reconnect = "off"] \/ w' = [w EXCEPT !.conflict = "off"]
    BY <1>1 DEF Arrival, Command, ServiceRequest, ReconnectTimerFires, ConflictTimerFires
  <2>2. /\ Late(w, [w EXCEPT !.reconnect = "off"])
        /\ Late(w, [w EXCEPT !.conflict = "off"])
    BY <1>0 DEF Worker, Late, Tame, NoWake
  <2>3. Late(w, w')
    BY <1>0, <2>1, <2>2, LateHelpers
  <2> QED
    BY <2>3, HarmlessStep DEF Late
<1>2. CASE Steam
  <2>1. w' = w \/ \E to \in {"on", "off"} : w' = [w EXCEPT !.client = to, !.playing = "none"]
    BY <1>2
    DEF Steam, Client, LogOnAccepted, LogOnFails, SessionDrops, LogOffCompletes,
        LogOnRefused, OtherSessionChanges, GamesRefused
  <2>2. w' \in Worker
    BY <1>0, <2>1, ClientFacts
  <2>3. w'.reconnect = w.reconnect /\ w'.desired = w.desired
    BY <1>0, <2>1 DEF Worker
  <2> QED
    BY <2>2, <2>3, HarmlessStep DEF Tame, NoWake
<1>3. CASE BeginShutdown
  <2> DEFINE a == ClearFarmingSelection(w, FALSE)
             b == ClearRetryTimers(a)
             c == ResetSessionConflict(b)
             d == SetDesiredState(c, "paused")
  <2>1. Late(w, a) /\ a \in Worker
    BY <1>0, LateHelpers DEF Late, Tame
  <2> HIDE DEF a
  <2>2. Late(a, b) /\ b \in Worker
    BY <2>1, LateHelpers DEF Late, Tame
  <2> HIDE DEF b
  <2>3. Late(b, c) /\ c \in Worker
    BY <2>2, LateHelpers DEF Late, Tame
  <2> HIDE DEF c
  <2>4. Late(c, d)
    BY <2>3, LateDesired DEF Desires
  <2> HIDE DEF d
  <2>5. w' \in {c, d}
    BY <1>3 DEF BeginShutdown, a, b, c, d
  <2>6. Late(w, w')
    BY <2>1, <2>2, <2>3, <2>4, <2>5, LateTransitive
  <2> QED
    BY <2>6, HarmlessStep DEF Late
<1>4. CASE FinishShutdown
  <2> DEFINE a == ReportGames(w, "none")
             b == [a EXCEPT !.connected = FALSE, !.client = "off"]
  <2>1. Late(w, a) /\ a \in Worker
    BY <1>0, LateHelpers, Literals DEF Late, Tame
  <2> HIDE DEF a
  <2>2. Late(a, b) /\ b \in Worker
    <3> DEFINE x == [a EXCEPT !.connected = FALSE]
    <3>1. x \in Worker /\ x.reconnect = a.reconnect /\ x.desired = a.desired
      BY <2>1 DEF Worker
    <3> HIDE DEF x
    <3>2. b = [x EXCEPT !.client = "off"]
      BY DEF b, x
    <3> HIDE DEF b
    <3>3. b \in Worker /\ b.reconnect = x.reconnect /\ b.desired = x.desired
      BY <3>1, <3>2 DEF Worker
    <3> QED
      BY <3>1, <3>3 DEF Late, Tame, NoWake
  <2> HIDE DEF b
  <2>3. Late(b, SetStatus(b, "disconnected"))
    BY <2>2, LateHelpers, Literals
  <2>4. w' = SetStatus(b, "disconnected")
    BY <1>4 DEF FinishShutdown, a, b
  <2>5. Late(w, w')
    BY <2>1, <2>2, <2>3, <2>4, LateTransitive
  <2> QED
    BY <2>5, HarmlessStep DEF Late
<1>5. CASE Crash \/ Boot
  <2>1. w' = Reborn(w)
    BY <1>5 DEF Crash, Boot
  <2>2. w'.desired = w.desired /\ w'.reconnect = "off"
    BY <1>0, <2>1, RebornFacts
  <2> QED
    BY <2>2 DEF Harmless
<1> QED
  BY <1>1, <1>2, <1>3, <1>4, <1>5 DEF Process

(***************************************************************************)
(* The worker's recovery: what its helpers do to the session's bookkeeping *)
(***************************************************************************)

SameConflict(s, t) == t.handled = s.handled /\ t.mode = s.mode /\ t.blocked = s.blocked

\* A helper that changes neither the intent, nor the session, nor a retry.
Quiet(s, t) ==
    /\ t \in Worker
    /\ t.desired = s.desired /\ t.connected = s.connected
    /\ t.paused = s.paused /\ t.client = s.client
    /\ SameTimers(s, t) /\ SameConflict(s, t)

\* A login that is under way belongs to an account that should run, whose farming is
\* off; an account that should run is not paused; a handled login is not connected.
Sound(s) ==
    /\ s.status = "connecting" =>
          ~s.handled /\ s.desired = "running" /\ s.farming = "off"
    /\ s.desired = "running" => ~s.paused
    /\ s.handled => ~s.connected

Retrying(s) == s.conflict \in {"retry", "cooldown"}
Backing(s)  == s.reconnect = "live"

LEMMA QuietTransitive ==
    ASSUME NEW s, NEW t, NEW u, Quiet(s, t), Quiet(t, u)
    PROVE  Quiet(s, u)
  BY DEF Quiet, SameTimers, SameConflict

LEMMA QuietSelf ==
    ASSUME NEW s \in Worker
    PROVE  Quiet(s, s)
  BY DEF Quiet, SameTimers, SameConflict

LEMMA ClearFarmingSelectionKeeps ==
    ASSUME NEW s \in Worker, NEW keep \in BOOLEAN
    PROVE  LET t == ClearFarmingSelection(s, keep)
           IN Quiet(s, t) /\ t.status = s.status /\ t.farming = "off"
<1> DEFINE t == ClearFarmingSelection(s, keep)
<1>1. t \in Worker /\ SameSession(s, t) /\ SameTimers(s, t)
  BY ClearFarmingSelectionFacts
<1>2. SameConflict(s, t) /\ t.status = s.status /\ t.farming = "off"
  BY DEF ClearFarmingSelection, SameConflict, Worker
<1> QED
  BY <1>1, <1>2 DEF Quiet, SameSession

LEMMA SetStatusKeeps ==
    ASSUME NEW s \in Worker, NEW st \in Statuses
    PROVE  LET t == SetStatus(s, st)
           IN /\ Quiet(s, t) /\ t.status = st
              /\ st \notin Active /\ s.status # st => t.farming = "off"
<1> DEFINE t == SetStatus(s, st)
           u == [s EXCEPT !.status = st]
<1>1. t \in Worker /\ SameSession(s, t) /\ SameTimers(s, t)
  BY SetStatusFacts
<1>2. u \in Worker /\ SameConflict(s, u) /\ u.status = st
  BY DEF Worker, SameConflict
<1>3. ASSUME s.status # st, st \notin Active
      PROVE  SameConflict(s, t) /\ t.status = st /\ t.farming = "off"
  <2>1. t = ClearFarmingSelection(u, TRUE)
    BY <1>3 DEF SetStatus
  <2> HIDE DEF t, u
  <2>2. Quiet(u, t) /\ t.status = u.status /\ t.farming = "off"
    BY <1>2, <2>1, ClearFarmingSelectionKeeps
  <2> QED
    BY <1>2, <2>2 DEF Quiet, SameConflict
<1>4. CASE s.status = st
  BY <1>4, QuietSelf DEF SetStatus
<1>5. CASE s.status # st /\ st \in Active
  <2>1. t = u
    BY <1>5 DEF SetStatus
  <2> HIDE DEF t, u
  <2> QED
    BY <1>1, <1>2, <1>5, <2>1 DEF Quiet, SameSession, t
<1>6. CASE s.status # st /\ st \notin Active
  <2> HIDE DEF u
  <2>1. SameConflict(s, t) /\ t.status = st /\ t.farming = "off"
    BY <1>3, <1>6
  <2> HIDE DEF t
  <2>2. Quiet(s, t)
    BY <1>1, <2>1 DEF Quiet, SameSession
  <2> QED
    BY <2>1, <2>2 DEF t
<1> QED
  BY <1>4, <1>5, <1>6

LEMMA ReportGamesKeeps ==
    ASSUME NEW s \in Worker, NEW p \in Payloads
    PROVE  LET t == ReportGames(s, p)
           IN Quiet(s, t) /\ t.status = s.status /\ t.farming = s.farming
<1> DEFINE t == ReportGames(s, p)
<1>1. /\ t \in Worker
      /\ t.desired = s.desired /\ t.connected = s.connected
      /\ t.paused = s.paused /\ t.client = s.client
      /\ SameTimers(s, t)
  BY ReportGamesFacts
<1>2. SameConflict(s, t) /\ t.status = s.status /\ t.farming = s.farming
  BY DEF ReportGames, SameConflict, Worker
<1> QED
  BY <1>1, <1>2 DEF Quiet

LEMMA ClearRecoveryHealthKeeps ==
    ASSUME NEW s \in Worker
    PROVE  LET t == ClearRecoveryHealth(s)
           IN Quiet(s, t) /\ t.status = s.status /\ t.farming = s.farming
<1> DEFINE t == ClearRecoveryHealth(s)
<1>1. t \in Worker /\ SameSession(s, t) /\ SameTimers(s, t)
  BY ClearRecoveryHealthFacts
<1>2. SameConflict(s, t) /\ t.status = s.status /\ t.farming = s.farming
  BY DEF ClearRecoveryHealth, SameConflict, Worker
<1> QED
  BY <1>1, <1>2 DEF Quiet, SameSession

LEMMA ResetSessionConflictKeeps ==
    ASSUME NEW s \in Worker
    PROVE  LET t == ResetSessionConflict(s)
           IN /\ t \in Worker /\ SameSession(s, t) /\ SameTimers(s, t)
              /\ t.handled = FALSE /\ t.mode = "none" /\ t.blocked = FALSE
              /\ t.status = s.status /\ t.farming = s.farming
<1> DEFINE t == ResetSessionConflict(s)
<1>1. t \in Worker /\ SameSession(s, t) /\ SameTimers(s, t)
  BY ResetSessionConflictFacts
<1>2. /\ t.handled = FALSE /\ t.mode = "none" /\ t.blocked = FALSE
      /\ t.status = s.status /\ t.farming = s.farming
  BY DEF ResetSessionConflict, Worker
<1> QED
  BY <1>1, <1>2

LEMMA ClearRetryTimersKeeps ==
    ASSUME NEW s \in Worker
    PROVE  LET t == ClearRetryTimers(s)
           IN /\ t \in Worker /\ SameSession(s, t) /\ SameConflict(s, t)
              /\ t.reconnect = "off" /\ t.conflict = "off"
              /\ t.status = s.status /\ t.farming = s.farming
<1> DEFINE t == ClearRetryTimers(s)
<1>1. t \in Worker /\ SameSession(s, t) /\ t.reconnect = "off" /\ t.conflict = "off"
  BY ClearRetryTimersFacts
<1>2. SameConflict(s, t) /\ t.status = s.status /\ t.farming = s.farming
  BY DEF ClearRetryTimers, SameConflict, Worker
<1> QED
  BY <1>1, <1>2

\* A new intent outdates what was armed under the old one.
LEMMA SetDesiredStateKeeps ==
    ASSUME NEW s \in Worker, NEW d \in Desires
    PROVE  LET t == SetDesiredState(s, d)
           IN /\ t \in Worker /\ t.desired = d
              /\ t.connected = s.connected /\ t.paused = s.paused /\ t.client = s.client
              /\ SameConflict(s, t) /\ t.status = s.status /\ t.farming = s.farming
              /\ s.desired = d => SameTimers(s, t)
              /\ s.desired # d => ~Retrying(t) /\ ~Backing(t)
<1> DEFINE t == SetDesiredState(s, d)
<1>1. /\ t \in Worker /\ t.desired = d
      /\ t.connected = s.connected /\ t.paused = s.paused /\ t.client = s.client
  BY SetDesiredStateFacts
<1>2. SameConflict(s, t) /\ t.status = s.status /\ t.farming = s.farming
  BY DEF SetDesiredState, SameConflict, Worker
<1>3. s.desired = d => SameTimers(s, t)
  BY DEF SetDesiredState, SameTimers
<1>4. s.desired # d => ~Retrying(t) /\ ~Backing(t)
  BY DEF SetDesiredState, Stale, Retrying, Backing, Worker
<1> QED
  BY <1>1, <1>2, <1>3, <1>4

LEMMA LogOnKeeps ==
    ASSUME NEW s \in Worker
    PROVE  LET t == LogOn(s)
           IN /\ t \in Worker
              /\ t.desired = s.desired /\ t.connected = s.connected /\ t.paused = s.paused
              /\ SameTimers(s, t) /\ SameConflict(s, t)
              /\ t.status = s.status /\ t.farming = s.farming
              /\ t.client = IF s.client = "off" THEN "connecting" ELSE "refused"
<1> DEFINE t == LogOn(s)
<1>1. /\ t \in Worker
      /\ t.desired = s.desired /\ t.connected = s.connected
      /\ t.paused = s.paused /\ SameTimers(s, t)
  BY LogOnFacts
<1>2. /\ SameConflict(s, t) /\ t.status = s.status /\ t.farming = s.farming
      /\ t.client = IF s.client = "off" THEN "connecting" ELSE "refused"
  BY DEF LogOn, SameConflict, Worker
<1> QED
  BY <1>1, <1>2

LEMMA LogOffKeeps ==
    ASSUME NEW s \in Worker
    PROVE  LET t == LogOff(s)
           IN /\ t \in Worker
              /\ t.desired = s.desired /\ t.connected = s.connected /\ t.paused = s.paused
              /\ SameConflict(s, t) /\ t.status = s.status
<1> DEFINE t == LogOff(s)
<1>1. t \in Worker /\ t.desired = s.desired /\ t.connected = s.connected
      /\ t.paused = s.paused
  BY LogOffFacts
<1>2. SameConflict(s, t) /\ t.status = s.status
  BY DEF LogOff, SameConflict, Worker
<1> QED
  BY <1>1, <1>2

LEMMA RegisterSessionConflictKeeps ==
    ASSUME NEW s \in Worker, NEW source \in {"login", "live"}
    PROVE  LET t == RegisterSessionConflict(s, source)
           IN /\ t \in Worker /\ SameSession(s, t)
              /\ t.handled = s.handled /\ t.blocked = s.blocked /\ t.mode = source
              /\ Retrying(t) /\ t.status = s.status /\ t.farming = s.farming
<1> DEFINE t == RegisterSessionConflict(s, source)
<1>1. t \in Worker /\ SameSession(s, t)
  BY RegisterSessionConflictFacts
<1>2. /\ t.handled = s.handled /\ t.blocked = s.blocked /\ t.mode = source
      /\ t.status = s.status /\ t.farming = s.farming
  BY DEF RegisterSessionConflict, Worker
<1>3. Retrying(t)
  BY DEF RegisterSessionConflict, Retrying, Worker
<1> QED
  BY <1>1, <1>2, <1>3

LEMMA ScheduleReconnectKeeps ==
    ASSUME NEW s \in Worker
    PROVE  LET t == ScheduleReconnect(s)
           IN /\ t \in Worker /\ SameSession(s, t)
              /\ t.handled = FALSE /\ t.mode = "none" /\ Backing(t) /\ t.status = s.status
<1> DEFINE a == ClearRetryTimers(s)
           b == ResetSessionConflict(a)
           t == ScheduleReconnect(s)
<1>1. t \in Worker /\ SameSession(s, t)
  BY ScheduleReconnectFacts
<1>2. a \in Worker /\ a.status = s.status
  BY ClearRetryTimersKeeps
<1>3. t = [b EXCEPT !.reconnect = "live", !.health = "scheduled"]
  BY DEF ScheduleReconnect
<1> HIDE DEF a
<1>4. b \in Worker /\ b.handled = FALSE /\ b.mode = "none" /\ b.status = a.status
  BY <1>2, ResetSessionConflictKeeps
<1> HIDE DEF b
<1>5. t.handled = FALSE /\ t.mode = "none" /\ Backing(t) /\ t.status = s.status
  BY <1>2, <1>3, <1>4 DEF Backing, Worker
<1> QED
  BY <1>1, <1>5

LEMMA ApplyGamesKeeps ==
    ASSUME NEW s \in Worker, NEW manual \in {"none", "manual"}
    PROVE  LET t == ApplyGames(s, manual)
           IN /\ Quiet(s, t)
              /\ ~s.connected => t = s
              /\ s.connected => t.status # "connecting"
<1>1. CASE ~s.connected
  BY <1>1, QuietSelf DEF ApplyGames
<1>2. CASE s.connected
  <2>1. PICK p \in Payloads, st \in Statuses \ {"connecting"} :
          ApplyGames(s, manual) = SetStatus(ReportGames(s, p), st)
    <3>1. CASE s.paused
      BY <1>2, <3>1, Literals DEF ApplyGames
    <3>2. CASE ~s.paused /\ s.blocked
      BY <1>2, <3>2, Literals DEF ApplyGames
    <3>3. CASE ~s.paused /\ ~s.blocked
      BY <1>2, <3>3, Literals, PayloadFacts DEF ApplyGames
    <3> QED
      BY <3>1, <3>2, <3>3
  <2> DEFINE r == ReportGames(s, p)
             t == SetStatus(r, st)
  <2>2. Quiet(s, r) /\ r \in Worker
    BY ReportGamesKeeps DEF Quiet
  <2> HIDE DEF r
  <2>3. Quiet(r, t) /\ t.status = st
    BY <2>2, SetStatusKeeps
  <2> HIDE DEF t
  <2>4. Quiet(s, t) /\ t.status # "connecting"
    BY <2>1, <2>2, <2>3, QuietTransitive
  <2> QED
    BY <1>2, <2>1, <2>4 DEF r, t
<1> QED
  BY <1>1, <1>2

\* The three ways a start ends: there is nothing to do, the credential is missing, or
\* a login begins.
Busy(s) == s.status = "connecting" \/ (s.connected /\ s.status \in Active)

LoggingOn(s, t) ==
    /\ t \in Worker /\ t.desired = "running" /\ ~t.paused
    /\ t.client = IF s.client = "off" THEN "connecting" ELSE "refused"
    /\ ~t.handled /\ t.status = "connecting" /\ t.farming = "off"
    /\ t.connected = s.connected /\ t.mode = s.mode /\ t.blocked = s.blocked
    /\ s.desired = "running" => SameTimers(s, t)
    /\ s.desired # "running" => ~Retrying(t) /\ ~Backing(t)

LEMMA StartNowCases ==
    ASSUME NEW s \in Worker, NEW token \in BOOLEAN
    PROVE  LET t == StartNow(s, token)
           IN \/ Busy(s) /\ t = s
              \/ ~Busy(s) /\ Quiet(s, t) /\ t.status = "login_required"
              \/ ~Busy(s) /\ LoggingOn(s, t)
<1>1. CASE Busy(s)
  BY <1>1 DEF Busy, StartNow
<1>2. CASE ~Busy(s) /\ ~token
  <2>1. StartNow(s, token) = SetStatus(s, "login_required")
    BY <1>2 DEF Busy, StartNow
  <2> QED
    BY <1>2, <2>1, SetStatusKeeps, Literals
<1>3. CASE ~Busy(s) /\ token
  <2> DEFINE a == [s EXCEPT !.paused = FALSE]
             b == SetDesiredState(a, "running")
             c == SetStatus(b, "connecting")
             d == [c EXCEPT !.handled = FALSE]
             t == LogOn(d)
  <2>1. StartNow(s, token) = t
    BY <1>3 DEF Busy, StartNow
  <2>2. /\ a \in Worker /\ ~a.paused /\ a.desired = s.desired /\ a.connected = s.connected
        /\ a.client = s.client /\ SameTimers(s, a) /\ SameConflict(s, a)
        /\ a.status = s.status
    BY DEF Worker, SameTimers, SameConflict
  <2> HIDE DEF a
  <2>3. /\ b \in Worker /\ b.desired = "running"
        /\ b.connected = a.connected /\ b.paused = a.paused /\ b.client = a.client
        /\ SameConflict(a, b) /\ b.status = a.status
        /\ a.desired = "running" => SameTimers(a, b)
        /\ a.desired # "running" => ~Retrying(b) /\ ~Backing(b)
    BY <2>2, SetDesiredStateKeeps DEF Desires
  <2> HIDE DEF b
  <2>4. Quiet(b, c) /\ c.status = "connecting" /\ c.farming = "off"
    <3>1. b.status # "connecting" /\ "connecting" \notin Active
      BY <1>3, <2>2, <2>3 DEF Busy, Active
    <3> QED
      BY <2>3, <3>1, SetStatusKeeps, Literals
  <2> HIDE DEF c
  <2>5. /\ d \in Worker /\ d.desired = c.desired /\ d.connected = c.connected
        /\ d.paused = c.paused /\ d.client = c.client /\ SameTimers(c, d)
        /\ d.mode = c.mode /\ d.blocked = c.blocked /\ ~d.handled
        /\ d.status = c.status /\ d.farming = c.farming
    BY <2>4 DEF Quiet, Worker, SameTimers
  <2> HIDE DEF d
  <2>6. /\ t \in Worker
        /\ t.desired = d.desired /\ t.connected = d.connected /\ t.paused = d.paused
        /\ SameTimers(d, t) /\ SameConflict(d, t)
        /\ t.status = d.status /\ t.farming = d.farming
        /\ t.client = IF d.client = "off" THEN "connecting" ELSE "refused"
    BY <2>5, LogOnKeeps
  <2> HIDE DEF t
  <2>7. LoggingOn(s, t)
    BY <2>2, <2>3, <2>4, <2>5, <2>6
    DEF LoggingOn, Quiet, SameTimers, SameConflict, Retrying, Backing
  <2> QED
    BY <1>3, <2>1, <2>7
<1> QED
  BY <1>1, <1>2, <1>3

(***************************************************************************)
(* The operations and the handlers                                         *)
(***************************************************************************)

\* The timers after a step into the running state.
Renewed(s, t) ==
    /\ s.desired = "running" => SameTimers(s, t)
    /\ s.desired # "running" => ~Retrying(t) /\ ~Backing(t)

\* The account is told to run; then it shows its games again, or lacks a credential,
\* or logs on.
Woken(s, t) ==
    /\ t \in Worker /\ t.desired = "running" /\ ~t.paused
    /\ t.client = s.client /\ t.connected = s.connected /\ SameConflict(s, t)
    /\ Renewed(s, t)

Rejoined(s, t)  == Woken(s, t) /\ s.connected /\ t.status # "connecting"
Tokenless(s, t) == Woken(s, t) /\ t.status = "login_required"

\* A step into a state that should not run.
Halted(s, t) ==
    /\ t \in Worker /\ t.desired # "running" /\ t.status # "connecting"
    /\ t.handled => ~t.connected
    /\ t.connected => s.connected /\ t.client = s.client

LEMMA CasesAreSound ==
    ASSUME NEW s \in Worker, Sound(s), NEW t,
           Rejoined(s, t) \/ Tokenless(s, t) \/ LoggingOn(s, t) \/ Halted(s, t)
    PROVE  t \in Worker /\ Sound(t)
  BY DEF Rejoined, Tokenless, Woken, LoggingOn, Halted, Sound, SameConflict

LEMMA WokenCases ==
    ASSUME NEW s \in Worker, Sound(s), NEW c, Woken(s, c), c.status = s.status,
           NEW token \in BOOLEAN, NEW manual \in {"none", "manual"},
           NEW t, t = IF c.connected THEN ApplyGames(c, manual) ELSE StartNow(c, token)
    PROVE  \/ Rejoined(s, t) \/ Tokenless(s, t) \/ LoggingOn(s, t)
           \/ s.status = "connecting" /\ ~s.connected /\ t = c
<1>0. c \in Worker /\ c.desired = "running"
  BY DEF Woken
<1>1. CASE c.connected
  <2>1. Quiet(c, t) /\ t.status # "connecting"
    BY <1>0, <1>1, ApplyGamesKeeps
  <2> QED
    BY <1>1, <2>1
    DEF Rejoined, Woken, Renewed, Quiet, SameTimers, SameConflict, Retrying, Backing
<1>2. CASE ~c.connected
  <2>1. \/ Busy(c) /\ t = c
        \/ Quiet(c, t) /\ t.status = "login_required"
        \/ LoggingOn(c, t)
    BY <1>0, <1>2, StartNowCases
  <2>2. CASE Busy(c) /\ t = c
    BY <1>2, <2>2 DEF Busy, Woken
  <2>3. CASE Quiet(c, t) /\ t.status = "login_required"
    BY <2>3
    DEF Tokenless, Woken, Renewed, Quiet, SameTimers, SameConflict, Retrying, Backing
  <2>4. CASE LoggingOn(c, t)
    BY <1>0, <2>4
    DEF LoggingOn, Woken, Renewed, SameTimers, SameConflict, Retrying, Backing
  <2> QED
    BY <2>1, <2>2, <2>3, <2>4
<1> QED
  BY <1>1, <1>2

LEMMA ResumeNowCases ==
    ASSUME NEW s \in Worker, Sound(s),
           NEW token \in BOOLEAN, NEW manual \in {"none", "manual"}
    PROVE  LET t == ResumeNow(s, token, manual)
           IN \/ Rejoined(s, t) \/ Tokenless(s, t) \/ LoggingOn(s, t)
              \/ /\ s.status = "connecting" /\ Quiet(s, t)
                 /\ t.status = s.status /\ t.farming = s.farming
<1> DEFINE a == [s EXCEPT !.paused = FALSE, !.awaiting = FALSE]
           b == SetDesiredState(a, "running")
           c == ClearRecoveryHealth(b)
           t == ResumeNow(s, token, manual)
<1>1. t = IF c.connected THEN ApplyGames(c, manual) ELSE StartNow(c, token)
  BY DEF ResumeNow
<1>2. /\ a \in Worker /\ a.paused = FALSE /\ a.desired = s.desired
      /\ a.connected = s.connected /\ a.client = s.client /\ SameTimers(s, a)
      /\ SameConflict(s, a) /\ a.status = s.status /\ a.farming = s.farming
  BY DEF Worker, SameTimers, SameConflict
<1> HIDE DEF a
<1>3. /\ b \in Worker /\ b.desired = "running"
      /\ b.connected = a.connected /\ b.paused = a.paused /\ b.client = a.client
      /\ SameConflict(a, b) /\ b.status = a.status /\ b.farming = a.farming
      /\ a.desired = "running" => SameTimers(a, b)
      /\ a.desired # "running" => ~Retrying(b) /\ ~Backing(b)
  BY <1>2, SetDesiredStateKeeps DEF Desires
<1> HIDE DEF b
<1>4. Quiet(b, c) /\ c.status = b.status /\ c.farming = b.farming
  BY <1>3, ClearRecoveryHealthKeeps
<1> HIDE DEF c, t
<1>5. Woken(s, c) /\ c.status = s.status
  BY <1>2, <1>3, <1>4
  DEF Woken, Renewed, Quiet, SameTimers, SameConflict, Retrying, Backing
<1>6. s.status = "connecting" => Quiet(s, c) /\ c.farming = s.farming
  <2>1. s.paused \in BOOLEAN
    BY DEF Worker
  <2>2. s.status = "connecting" => s.desired = "running" /\ s.paused = FALSE
    BY <2>1 DEF Sound
  <2> QED
    BY <1>2, <1>3, <1>4, <2>2 DEF Quiet, SameTimers, SameConflict
<1>7. \/ Rejoined(s, t) \/ Tokenless(s, t) \/ LoggingOn(s, t)
      \/ s.status = "connecting" /\ ~s.connected /\ t = c
  BY <1>1, <1>5, WokenCases
<1>8. \/ Rejoined(s, t) \/ Tokenless(s, t) \/ LoggingOn(s, t)
      \/ /\ s.status = "connecting" /\ Quiet(s, t)
         /\ t.status = s.status /\ t.farming = s.farming
  BY <1>5, <1>6, <1>7
<1> QED
  BY <1>8 DEF t

LEMMA ResumeForFarmingCases ==
    ASSUME NEW s \in Worker, Sound(s),
           NEW token \in BOOLEAN, NEW manual \in {"none", "manual"}
    PROVE  LET t == ResumeForFarming(s, token, manual)
           IN t = s \/ Rejoined(s, t) \/ Tokenless(s, t) \/ LoggingOn(s, t)
<1> DEFINE a == [s EXCEPT !.paused = FALSE, !.farming = "empty", !.awaiting = TRUE]
           b == SetDesiredState(a, "running")
           c == ClearRecoveryHealth(b)
           t == ResumeForFarming(s, token, manual)
<1>1. CASE s.desired = "running"
  BY <1>1 DEF ResumeForFarming
<1>2. CASE s.desired # "running"
  <2>1. t = IF c.connected THEN ApplyGames(c, manual) ELSE StartNow(c, token)
    BY <1>2 DEF ResumeForFarming
  <2>2. /\ a \in Worker /\ ~a.paused /\ a.desired = s.desired
        /\ a.connected = s.connected /\ a.client = s.client /\ SameTimers(s, a)
        /\ SameConflict(s, a) /\ a.status = s.status
    BY DEF Worker, SameTimers, SameConflict
  <2> HIDE DEF a
  <2>3. /\ b \in Worker /\ b.desired = "running"
        /\ b.connected = a.connected /\ b.paused = a.paused /\ b.client = a.client
        /\ SameConflict(a, b) /\ b.status = a.status
        /\ a.desired # "running" => ~Retrying(b) /\ ~Backing(b)
    BY <2>2, SetDesiredStateKeeps DEF Desires
  <2> HIDE DEF b
  <2>4. Quiet(b, c) /\ c.status = b.status
    BY <2>3, ClearRecoveryHealthKeeps
  <2> HIDE DEF c, t
  <2>5. Woken(s, c) /\ c.status = s.status
    BY <1>2, <2>2, <2>3, <2>4
    DEF Woken, Renewed, Quiet, SameTimers, SameConflict, Retrying, Backing
  <2>6. s.status # "connecting"
    BY <1>2 DEF Sound
  <2>7. Rejoined(s, t) \/ Tokenless(s, t) \/ LoggingOn(s, t)
    BY <2>1, <2>5, <2>6, WokenCases
  <2> QED
    BY <2>7 DEF t
<1> QED
  BY <1>1, <1>2

LEMMA ClearedKeeps ==
    ASSUME NEW s \in Worker
    PROVE  LET t == Cleared(s)
           IN t \in Worker /\ SameSession(s, t) /\ ~t.handled /\ t.status = s.status
<1> DEFINE a == ClearFarmingSelection(s, FALSE)
           b == ClearRetryTimers(a)
           c == ResetSessionConflict(b)
           d == ClearRecoveryHealth(c)
<1>1. a \in Worker /\ a.status = s.status
  BY ClearFarmingSelectionKeeps DEF Quiet
<1> HIDE DEF a
<1>2. b \in Worker /\ b.status = a.status
  BY <1>1, ClearRetryTimersKeeps
<1> HIDE DEF b
<1>3. c \in Worker /\ c.handled = FALSE /\ c.status = b.status
  BY <1>2, ResetSessionConflictKeeps
<1> HIDE DEF c
<1>4. d \in Worker /\ d.handled = c.handled /\ d.status = c.status
  BY <1>3, ClearRecoveryHealthKeeps DEF Quiet, SameConflict
<1>5. d \in Worker /\ ~d.handled /\ d.status = s.status
  BY <1>1, <1>2, <1>3, <1>4
<1>6. Cleared(s) = d
  BY DEF Cleared, a, b, c
<1> HIDE DEF d
<1>7. SameSession(s, Cleared(s))
  BY ClearedFacts
<1> QED
  BY <1>5, <1>6, <1>7

\* setStatus after the intent has left the running state.
LEMMA HaltedSetStatus ==
    ASSUME NEW s \in Worker, NEW u \in Worker, u.desired # "running", ~u.handled,
           u.connected => s.connected /\ u.client = s.client,
           NEW st \in Statuses \ {"connecting"}
    PROVE  Halted(s, SetStatus(u, st))
<1> DEFINE t == SetStatus(u, st)
<1>1. Quiet(u, t) /\ t.status = st
  BY SetStatusKeeps
<1> HIDE DEF t
<1>2. Halted(s, t)
  BY <1>1 DEF Halted, Quiet, SameConflict
<1> QED
  BY <1>2 DEF t

LEMMA StopNowHalts ==
    ASSUME NEW s \in Worker
    PROVE  Halted(s, StopNow(s)) /\ ~StopNow(s).connected
<1> DEFINE a == Cleared(s)
           b == SetDesiredState(a, "stopped")
           c == ReportGames(b, "none")
           d == LogOff(c)
           e == [d EXCEPT !.connected = FALSE]
           t == SetStatus(e, "disconnected")
<1>1. StopNow(s) = t
  BY DEF StopNow, Cleared
<1>2. a \in Worker /\ ~a.handled
  BY ClearedKeeps
<1> HIDE DEF a
<1>3. b \in Worker /\ b.desired = "stopped" /\ ~b.handled
  BY <1>2, SetDesiredStateKeeps DEF Desires, SameConflict
<1> HIDE DEF b
<1>4. c \in Worker /\ c.desired = "stopped" /\ ~c.handled
  BY <1>3, ReportGamesKeeps, Literals DEF Quiet, SameConflict
<1> HIDE DEF c
<1>5. d \in Worker /\ d.desired = "stopped" /\ ~d.handled
  BY <1>4, LogOffKeeps DEF SameConflict
<1> HIDE DEF d
<1>6. e \in Worker /\ e.desired = "stopped" /\ ~e.handled /\ ~e.connected
  BY <1>5 DEF Worker
<1> HIDE DEF e
<1>7. Halted(s, t)
  BY <1>6, HaltedSetStatus, Literals
<1>8. ~t.connected
  BY <1>6, SetStatusFacts, Literals DEF SameSession
<1> QED
  BY <1>1, <1>7, <1>8

\* The pause up to the status, which its fallbacks share.
LEMMA PauseIntent ==
    ASSUME NEW s \in Worker
    PROVE  LET d == ReportGames(SetDesiredState([Cleared(s) EXCEPT !.paused = TRUE],
                                                "paused"), "none")
           IN /\ d \in Worker /\ d.desired = "paused" /\ ~d.handled
              /\ d.connected = s.connected /\ d.client = s.client
<1> DEFINE a == Cleared(s)
           b == [a EXCEPT !.paused = TRUE]
           c == SetDesiredState(b, "paused")
           d == ReportGames(c, "none")
<1>1. a \in Worker /\ ~a.handled /\ a.connected = s.connected /\ a.client = s.client
  BY ClearedKeeps DEF SameSession
<1> HIDE DEF a
<1>2. b \in Worker /\ ~b.handled /\ b.connected = a.connected /\ b.client = a.client
  BY <1>1 DEF Worker
<1> HIDE DEF b
<1>3. /\ c \in Worker /\ c.desired = "paused" /\ ~c.handled
      /\ c.connected = b.connected /\ c.client = b.client
  BY <1>2, SetDesiredStateKeeps DEF Desires, SameConflict
<1> HIDE DEF c
<1>4. /\ d \in Worker /\ d.desired = "paused" /\ ~d.handled
      /\ d.connected = c.connected /\ d.client = c.client
  BY <1>3, ReportGamesKeeps, Literals DEF Quiet, SameConflict
<1> HIDE DEF d
<1>5. /\ d \in Worker /\ d.desired = "paused" /\ ~d.handled
      /\ d.connected = s.connected /\ d.client = s.client
  BY <1>1, <1>2, <1>3, <1>4
<1> QED
  BY <1>5 DEF d, c, b, a

LEMMA SafetyPauseHalts ==
    ASSUME NEW s \in Worker, NEW t \in SafetyPause(s)
    PROVE  Halted(s, t)
<1> DEFINE d == ReportGames(SetDesiredState([Cleared(s) EXCEPT !.paused = TRUE],
                                            "paused"), "none")
<1>0. /\ d \in Worker /\ d.desired = "paused" /\ ~d.handled
      /\ d.connected = s.connected /\ d.client = s.client
  BY PauseIntent
<1>1. Halted(s, PauseNow(s))
  <2>1. PauseNow(s) = SetStatus(d, "paused_manual")
    BY DEF PauseNow, Cleared
  <2> HIDE DEF d
  <2> QED
    BY <1>0, <2>1, HaltedSetStatus, Literals
<1>2. Halted(s, ForceDisconnectForSafety(s))
  <2> DEFINE e == LogOff(d)
             f == [e EXCEPT !.connected = FALSE]
  <2>1. ForceDisconnectForSafety(s) = SetStatus(f, "paused_manual")
    BY DEF ForceDisconnectForSafety, Cleared
  <2> HIDE DEF d
  <2>2. e \in Worker /\ e.desired = "paused" /\ ~e.handled
    BY <1>0, LogOffKeeps DEF SameConflict
  <2> HIDE DEF e
  <2>3. f \in Worker /\ f.desired = "paused" /\ ~f.handled /\ ~f.connected
    BY <2>2 DEF Worker
  <2> HIDE DEF f
  <2> QED
    BY <2>1, <2>3, HaltedSetStatus, Literals
<1> HIDE DEF d
<1>3. ASSUME NEW cleared \in BOOLEAN, NEW left \in BOOLEAN
      PROVE  Halted(s, MarkSafetyAttention(s, cleared, left))
  <2> DEFINE a == IF cleared THEN ReportGames(s, "none") ELSE s
             b == IF left THEN LogOff(a) ELSE a
             c == ClearFarmingSelection(b, FALSE)
             e == ClearRetryTimers(c)
             f == ResetSessionConflict(e)
             g == [f EXCEPT !.connected = FALSE, !.paused = TRUE, !.health = "terminal"]
             h == SetDesiredState(g, "paused")
  <2>1. MarkSafetyAttention(s, cleared, left) = SetStatus(h, "error")
    BY DEF MarkSafetyAttention
  <2>2. a \in Worker
    BY ReportGamesFacts, Literals
  <2> HIDE DEF a
  <2>3. b \in Worker
    BY <2>2, LogOffFacts
  <2> HIDE DEF b
  <2>4. c \in Worker
    BY <2>3, ClearFarmingSelectionFacts
  <2> HIDE DEF c
  <2>5. e \in Worker
    BY <2>4, ClearRetryTimersFacts
  <2> HIDE DEF e
  <2>6. f \in Worker /\ ~f.handled
    BY <2>5, ResetSessionConflictKeeps
  <2> HIDE DEF f
  <2>7. g \in Worker /\ ~g.handled /\ ~g.connected
    BY <2>6 DEF Worker
  <2> HIDE DEF g
  <2>8. h \in Worker /\ h.desired = "paused" /\ ~h.handled /\ ~h.connected
    BY <2>7, SetDesiredStateKeeps DEF Desires, SameConflict
  <2> HIDE DEF h
  <2> QED
    BY <2>1, <2>8, HaltedSetStatus, Literals
<1> QED
  BY <1>1, <1>2, <1>3 DEF SafetyPause

LEMMA ApplyFarmingSelectionKeeps ==
    ASSUME NEW s \in Worker, NEW selection \in {"empty", "games"}
    PROVE  LET t == ApplyFarmingSelection(s, selection)
           IN t = s \/ (Quiet(s, t) /\ t.status # "connecting")
<1> DEFINE a == [s EXCEPT !.farming = selection, !.awaiting = FALSE]
           t == ApplyFarmingSelection(s, selection)
<1>1. a \in Worker /\ Quiet(s, a)
  BY DEF Worker, Quiet, SameTimers, SameConflict
<1>2. t = s \/ (s.connected /\ t = ApplyGames(a, "none"))
  BY DEF ApplyFarmingSelection, FarmingAllowed
<1> HIDE DEF a
<1>3. /\ Quiet(a, ApplyGames(a, "none"))
      /\ s.connected => ApplyGames(a, "none").status # "connecting"
  BY <1>1, ApplyGamesKeeps DEF Quiet
<1>4. Quiet(s, ApplyGames(a, "none"))
  BY <1>1, <1>3, QuietTransitive
<1> QED
  BY <1>2, <1>3, <1>4

LEMMA LoggedOnConnects ==
    ASSUME NEW s \in Worker, NEW manual \in {"none", "manual"}
    PROVE  LET t == LoggedOn(s, manual)
           IN /\ t \in Worker /\ t.desired = s.desired /\ t.paused = s.paused
              /\ t.client = s.client /\ t.connected
              /\ ~t.handled /\ t.mode = "none" /\ t.status # "connecting"
<1> DEFINE a == ClearRetryTimers(s)
           b == ResetSessionConflict(a)
           c == ClearRecoveryHealth(b)
           d == [c EXCEPT !.connected = TRUE]
           e == SetStatus(d, "online")
           t == ApplyGames(e, manual)
<1>1. LoggedOn(s, manual) = t
  BY DEF LoggedOn
<1>2. a \in Worker /\ SameSession(s, a)
  BY ClearRetryTimersFacts
<1> HIDE DEF a
<1>3. b \in Worker /\ SameSession(a, b) /\ b.handled = FALSE /\ b.mode = "none"
  BY <1>2, ResetSessionConflictKeeps
<1> HIDE DEF b
<1>4. Quiet(b, c)
  BY <1>3, ClearRecoveryHealthKeeps
<1> HIDE DEF c
<1>5. /\ d \in Worker /\ d.desired = c.desired /\ d.paused = c.paused
      /\ d.client = c.client /\ d.connected = TRUE /\ SameConflict(c, d)
  BY <1>4 DEF Quiet, Worker, SameConflict
<1> HIDE DEF d
<1>6. Quiet(d, e)
  BY <1>5, SetStatusKeeps, Literals
<1> HIDE DEF e
<1>7. Quiet(e, t) /\ t.status # "connecting"
  BY <1>5, <1>6, ApplyGamesKeeps DEF Quiet
<1> HIDE DEF t
<1> QED
  BY <1>1, <1>2, <1>3, <1>4, <1>5, <1>6, <1>7 DEF Quiet, SameSession, SameConflict

\* Farming that is cut short pauses the account, or nothing happens.
LEMMA PauseIfFarmingCases ==
    ASSUME NEW s \in Worker, NEW wasFarming \in BOOLEAN
    PROVE  LET t == PauseIfFarming(s, wasFarming)
           IN /\ t = s /\ ~wasFarming
              \/ /\ wasFarming /\ t \in Worker /\ t.desired = "paused"
                 /\ t.connected = s.connected /\ t.client = s.client
                 /\ SameConflict(s, t) /\ t.status = s.status
<1> DEFINE a == [s EXCEPT !.paused = TRUE]
           b == SetDesiredState(a, "paused")
<1>1. PauseIfFarming(s, wasFarming) = IF wasFarming THEN b ELSE s
  BY DEF PauseIfFarming
<1>2. /\ a \in Worker /\ a.connected = s.connected /\ a.client = s.client
      /\ SameConflict(s, a) /\ a.status = s.status
  BY DEF Worker, SameConflict
<1> HIDE DEF a
<1>3. /\ b \in Worker /\ b.desired = "paused" /\ b.connected = a.connected
      /\ b.client = a.client /\ SameConflict(a, b) /\ b.status = a.status
  BY <1>2, SetDesiredStateKeeps DEF Desires
<1> HIDE DEF b
<1> QED
  BY <1>1, <1>2, <1>3 DEF SameConflict

\* Another session plays: the account waits for it, with a retry or as it waited.
Blocked(s, t) ==
    /\ t \in Worker /\ s.desired = "running" /\ t.desired = "running"
    /\ t.paused = s.paused /\ t.connected = s.connected /\ t.client = s.client
    /\ t.handled = s.handled /\ t.blocked /\ t.status # "connecting"
    /\ Retrying(t) \/ SameTimers(s, t)

LEMMA PlayingBlockedCases ==
    ASSUME NEW s \in Worker, Sound(s)
    PROVE  LET t == PlayingBlocked(s) IN Halted(s, t) \/ Blocked(s, t)
<1> DEFINE a == [s EXCEPT !.blocked = TRUE]
           b == ClearFarmingSelection(a, FALSE)
           c == PauseIfFarming(b, s.farming # "off")
           d == ReportGames(c, "none")
           e == SetStatus(d, "paused_other_session")
           f == RegisterSessionConflict(e, "live")
           t == PlayingBlocked(s)
<1>1. t \in {e, f} /\ (e.desired # "running" => t = e)
  BY DEF PlayingBlocked
<1>2. /\ a \in Worker /\ a.desired = s.desired /\ a.paused = s.paused
      /\ a.connected = s.connected /\ a.client = s.client /\ a.blocked = TRUE
      /\ a.handled = s.handled /\ SameTimers(s, a)
  BY DEF Worker, SameTimers
<1> HIDE DEF a
<1>3. Quiet(a, b)
  BY <1>2, ClearFarmingSelectionKeeps
<1> HIDE DEF b
<1>4. \/ c = b
      \/ /\ c \in Worker /\ c.desired = "paused"
         /\ c.connected = b.connected /\ c.client = b.client /\ SameConflict(b, c)
  <2>1. (s.farming # "off") \in BOOLEAN
    OBVIOUS
  <2> QED
    BY <1>3, <2>1, PauseIfFarmingCases DEF Quiet
<1> HIDE DEF c
<1>5. c \in Worker
  BY <1>3, <1>4 DEF Quiet
<1>6. Quiet(c, d)
  BY <1>5, ReportGamesKeeps, Literals
<1> HIDE DEF d
<1>7. Quiet(d, e) /\ e.status = "paused_other_session"
  BY <1>6, SetStatusKeeps, Literals DEF Quiet
<1> HIDE DEF e
<1>8. /\ f \in Worker /\ SameSession(e, f)
      /\ f.handled = e.handled /\ f.blocked = e.blocked
      /\ Retrying(f) /\ f.status = e.status
  BY <1>7, RegisterSessionConflictKeeps DEF Quiet
<1> HIDE DEF f, t
<1>9. /\ e \in Worker /\ e.connected = s.connected /\ e.client = s.client
      /\ e.handled = s.handled /\ e.blocked = TRUE
      /\ e.desired = "running" =>
            s.desired = "running" /\ e.paused = s.paused /\ SameTimers(s, e)
  BY <1>2, <1>3, <1>4, <1>6, <1>7 DEF Quiet, SameTimers, SameConflict
<1>10. CASE e.desired # "running"
  <2>1. Halted(s, e)
    BY <1>7, <1>9, <1>10 DEF Halted, Sound
  <2> QED
    BY <1>1, <1>10, <2>1 DEF t
<1>11. CASE e.desired = "running"
  <2>1. Blocked(s, e)
    BY <1>7, <1>9, <1>11 DEF Blocked
  <2>2. Blocked(s, f)
    BY <1>7, <1>8, <1>9, <1>11 DEF Blocked, SameSession
  <2> QED
    BY <1>1, <2>1, <2>2 DEF t
<1> QED
  BY <1>10, <1>11

\* The other session has ended: an account that should run forgets the conflict.
Freed(s, t) ==
    /\ t \in Worker /\ s.desired = "running" /\ t.desired = "running"
    /\ t.paused = s.paused /\ t.connected = s.connected /\ t.client = s.client
    /\ ~t.handled /\ t.mode = "none" /\ t.reconnect = s.reconnect
    /\ t.status = "connecting" => s.status = "connecting" /\ t.farming = s.farming

LEMMA PlayingFreeCases ==
    ASSUME NEW s \in Worker, Sound(s), NEW manual \in {"none", "manual"}
    PROVE  LET t == PlayingFree(s, manual)
           IN \/ Halted(s, t) \/ Freed(s, t)
              \/ Quiet(s, t) /\ t.status = s.status /\ t.farming = s.farming
<1> DEFINE a == [s EXCEPT !.blocked = FALSE]
           b == [a EXCEPT !.conflict = "off"]
           c == ResetSessionConflict(b)
           d == ClearRecoveryHealth(c)
           u == ApplyGames(d, manual)
           t == PlayingFree(s, manual)
           heard == s.blocked /\ ~s.paused /\ s.desired = "running"
<1>1. t = IF heard THEN u ELSE a
  BY DEF PlayingFree
<1>2. /\ a \in Worker /\ SameSession(s, a) /\ SameTimers(s, a)
      /\ a.handled = s.handled /\ a.mode = s.mode /\ a.blocked = FALSE
      /\ a.status = s.status /\ a.farming = s.farming
  BY DEF Worker, SameSession, SameTimers
<1> HIDE DEF a
<1>3. /\ b \in Worker /\ SameSession(a, b) /\ b.reconnect = a.reconnect
      /\ b.status = a.status /\ b.farming = a.farming
  BY <1>2 DEF Worker, SameSession
<1> HIDE DEF b
<1>4. /\ c \in Worker /\ SameSession(b, c) /\ c.reconnect = b.reconnect
      /\ c.handled = FALSE /\ c.mode = "none"
      /\ c.status = b.status /\ c.farming = b.farming
  BY <1>3, ResetSessionConflictKeeps DEF SameTimers
<1> HIDE DEF c
<1>5. Quiet(c, d) /\ d.status = c.status /\ d.farming = c.farming
  BY <1>4, ClearRecoveryHealthKeeps
<1> HIDE DEF d
<1>6. /\ Quiet(d, u)
      /\ ~d.connected => u = d
      /\ d.connected => u.status # "connecting"
  BY <1>5, ApplyGamesKeeps DEF Quiet
<1> HIDE DEF u, t
<1>7. CASE heard
  <2>1. t.status = "connecting" => s.status = "connecting" /\ t.farming = s.farming
    BY <1>1, <1>2, <1>3, <1>4, <1>5, <1>6, <1>7
  <2>2. Freed(s, t)
    BY <1>1, <1>2, <1>3, <1>4, <1>5, <1>6, <1>7, <2>1
    DEF Freed, Quiet, SameSession, SameTimers, SameConflict
  <2> QED
    BY <2>2 DEF t
<1>8. CASE ~heard /\ ~s.blocked
  <2>1. Quiet(s, t)
    BY <1>1, <1>2, <1>8 DEF Quiet, SameSession, SameConflict, Worker
  <2> QED
    BY <1>1, <1>2, <1>8, <2>1 DEF t
<1>9. CASE ~heard /\ s.blocked
  <2>1. s.desired # "running"
    BY <1>9 DEF Sound
  <2>2. Halted(s, t)
    BY <1>1, <1>2, <1>9, <2>1 DEF Halted, Sound, SameSession
  <2> QED
    BY <2>2 DEF t
<1> QED
  BY <1>7, <1>8, <1>9

\* What a loss leaves of an account that should still run: the retry of the conflict
\* that was handled before, or a timer of its own.
LostAgain(s, t) ==
    /\ s.handled /\ SameTimers(s, t) /\ SameConflict(s, t)
LostFirst(s, t) ==
    /\ ~s.handled /\ t.mode # "live"
    /\ t.handled => Retrying(t)
    /\ Retrying(t) \/ Backing(t)
LostRunning(s, t) ==
    /\ t \in Worker /\ s.desired = "running" /\ t.desired = "running" /\ ~t.paused
    /\ ~t.connected /\ t.client = s.client /\ t.status # "connecting"
    /\ LostAgain(s, t) \/ LostFirst(s, t)

LEMMA SessionLostCases ==
    ASSUME NEW s \in Worker, Sound(s), NEW failure \in Failures, NEW resumes \in BOOLEAN
    PROVE  LET t == SessionLost(s, failure, resumes)
           IN /\ t \in Worker /\ ~t.connected /\ t.client = s.client
              /\ SameConflict(s, t) /\ t.status = s.status
              /\ \/ t.desired = s.desired /\ t.paused = s.paused /\ SameTimers(s, t)
                 \/ t.desired = "paused" /\ s.farming # "off"
<1> DEFINE keep == KeepsRunningForFarming(s, failure, resumes)
           was == s.farming # "off" /\ ~keep
           a == ClearFarmingSelection(s, FALSE)
           b == [a EXCEPT !.connected = FALSE]
           c == [b EXCEPT !.awaiting = keep]
           t == PauseIfFarming(c, was)
<1>1. SessionLost(s, failure, resumes) = t
  BY DEF SessionLost
<1>2. keep \in BOOLEAN /\ was \in BOOLEAN /\ (was => s.farming # "off")
  BY DEF KeepsRunningForFarming
<1> HIDE DEF keep, was
<1>3. Quiet(s, a) /\ a.status = s.status
  BY ClearFarmingSelectionKeeps
<1> HIDE DEF a
<1>4. /\ b \in Worker /\ b.desired = a.desired /\ b.paused = a.paused
      /\ b.client = a.client /\ ~b.connected /\ SameTimers(a, b) /\ SameConflict(a, b)
      /\ b.status = a.status
  BY <1>3 DEF Quiet, Worker, SameTimers, SameConflict
<1> HIDE DEF b
<1>5. /\ c \in Worker /\ c.desired = b.desired /\ c.paused = b.paused
      /\ c.client = b.client /\ ~c.connected /\ SameTimers(b, c) /\ SameConflict(b, c)
      /\ c.status = b.status
  BY <1>2, <1>4 DEF Worker, SameTimers, SameConflict
<1> HIDE DEF c
<1>6. \/ t = c /\ ~was
      \/ /\ was /\ t \in Worker /\ t.desired = "paused"
         /\ t.connected = c.connected /\ t.client = c.client
         /\ SameConflict(c, t) /\ t.status = c.status
  BY <1>2, <1>5, PauseIfFarmingCases
<1> HIDE DEF t
<1> QED
  BY <1>1, <1>2, <1>3, <1>4, <1>5, <1>6 DEF Quiet, SameTimers, SameConflict

LEMMA LossCases ==
    ASSUME NEW s \in Worker, Sound(s), NEW failure \in Failures, NEW resumes \in BOOLEAN,
           NEW u \in {Disconnected(s, failure, resumes), ClientError(s, failure, resumes)}
    PROVE  ~u.connected /\ (Halted(s, u) \/ LostRunning(s, u))
<1> DEFINE t == SessionLost(s, failure, resumes)
<1>1. /\ t \in Worker /\ ~t.connected /\ t.client = s.client
      /\ SameConflict(s, t) /\ t.status = s.status
      /\ \/ t.desired = s.desired /\ t.paused = s.paused /\ SameTimers(s, t)
         \/ t.desired = "paused" /\ s.farming # "off"
  BY SessionLostCases
<1>2. t.desired = "running" => s.desired = "running" /\ ~t.paused /\ SameTimers(s, t)
  BY <1>1 DEF Sound
<1>3. CASE s.handled
  <2>1. u = t
    BY <1>3 DEF Disconnected, ClientError
  <2> HIDE DEF t
  <2>2. s.status # "connecting"
    BY <1>3 DEF Sound
  <2> QED
    BY <1>1, <1>2, <1>3, <2>1, <2>2 DEF Halted, LostRunning, LostAgain
<1>4. CASE ~s.handled /\ failure = "conflict"
  <2>1. u = HandleLoginSessionConflict(t)
    BY <1>4 DEF Disconnected, ClientError
  <2> DEFINE a == [t EXCEPT !.handled = TRUE, !.connected = FALSE, !.blocked = FALSE]
             b == SetStatus(a, "reconnecting")
             c == RegisterSessionConflict(b, "login")
  <2>2. ~t.handled
    BY <1>1, <1>4 DEF SameConflict
  <2>3. u = c
    BY <2>1, <2>2 DEF HandleLoginSessionConflict
  <2> HIDE DEF t
  <2>4. /\ a \in Worker /\ a.desired = t.desired /\ a.paused = t.paused
        /\ a.client = t.client /\ ~a.connected
    BY <1>1 DEF Worker
  <2> HIDE DEF a
  <2>5. Quiet(a, b) /\ b.status = "reconnecting"
    BY <2>4, SetStatusKeeps, Literals
  <2> HIDE DEF b
  <2>6. /\ c \in Worker /\ SameSession(b, c) /\ c.mode = "login"
        /\ Retrying(c) /\ c.status = b.status
    BY <2>5, RegisterSessionConflictKeeps DEF Quiet
  <2> HIDE DEF c
  <2> QED
    BY <1>1, <1>2, <1>4, <2>3, <2>4, <2>5, <2>6
    DEF Halted, LostRunning, LostFirst, Quiet, SameSession
<1>5. CASE ~s.handled /\ failure = "auth"
  <2>1. u = HandleTerminalFailure(t)
    BY <1>5 DEF Disconnected, ClientError
  <2> DEFINE a == ClearRetryTimers(t)
             b == ResetSessionConflict(a)
             c == [b EXCEPT !.connected = FALSE, !.health = "terminal"]
             d == SetDesiredState(c, "paused")
             e == SetStatus(d, "login_required")
  <2>2. u = e
    BY <2>1 DEF HandleTerminalFailure
  <2> HIDE DEF t
  <2>3. a \in Worker /\ a.client = t.client
    BY <1>1, ClearRetryTimersKeeps DEF SameSession
  <2> HIDE DEF a
  <2>4. b \in Worker /\ b.client = a.client /\ ~b.handled
    BY <2>3, ResetSessionConflictKeeps DEF SameSession
  <2> HIDE DEF b
  <2>5. c \in Worker /\ c.client = b.client /\ ~c.handled /\ ~c.connected
    BY <2>4 DEF Worker
  <2> HIDE DEF c
  <2>6. /\ d \in Worker /\ d.desired = "paused" /\ d.client = c.client
        /\ ~d.handled /\ ~d.connected
    BY <2>5, SetDesiredStateKeeps DEF Desires, SameConflict
  <2> HIDE DEF d
  <2>7. Quiet(d, e) /\ e.status = "login_required"
    BY <2>6, SetStatusKeeps, Literals
  <2> QED
    BY <2>2, <2>6, <2>7 DEF Halted, Quiet, SameConflict
<1>6. CASE ~s.handled /\ failure = "transient"
  <2>1. \E st \in Statuses \ {"connecting"} :
          LET v == SetStatus(t, st)
          IN u = IF v.desired = "running" THEN ScheduleReconnect(v) ELSE v
    <3>1. CASE u = ClientError(s, failure, resumes)
      BY <1>6, <3>1, Literals DEF ClientError
    <3>2. CASE u = Disconnected(s, failure, resumes)
      <4>1. u = IF t.desired = "running"
                THEN ScheduleReconnect(SetStatus(t, "reconnecting"))
                ELSE SetStatus(t, "disconnected")
        BY <1>6, <3>2 DEF Disconnected
      <4> HIDE DEF t
      <4>2. /\ SetStatus(t, "reconnecting").desired = t.desired
            /\ SetStatus(t, "disconnected").desired = t.desired
        BY <1>1, SetStatusKeeps, Literals DEF Quiet
      <4> QED
        BY <4>1, <4>2, Literals
    <3> QED
      BY <3>1, <3>2
  <2>2. PICK st \in Statuses \ {"connecting"} :
          LET v == SetStatus(t, st)
          IN u = IF v.desired = "running" THEN ScheduleReconnect(v) ELSE v
    BY <2>1
  <2> HIDE DEF t
  <2> DEFINE v == SetStatus(t, st)
             x == ScheduleReconnect(v)
  <2>3. u = IF v.desired = "running" THEN x ELSE v
    BY <2>2
  <2>4. Quiet(t, v) /\ v.status = st
    BY <1>1, SetStatusKeeps
  <2> HIDE DEF v
  <2>5. /\ x \in Worker /\ SameSession(v, x)
        /\ x.handled = FALSE /\ x.mode = "none" /\ Backing(x) /\ x.status = v.status
    BY <2>4, ScheduleReconnectKeeps DEF Quiet
  <2> HIDE DEF x
  <2>6. CASE v.desired = "running"
    BY <1>1, <1>2, <1>6, <2>3, <2>4, <2>5, <2>6
    DEF LostRunning, LostFirst, Quiet, SameSession
  <2>7. CASE v.desired # "running"
    BY <1>1, <1>6, <2>3, <2>4, <2>7 DEF Halted, Quiet, SameConflict
  <2> QED
    BY <2>6, <2>7
<1> QED
  BY <1>3, <1>4, <1>5, <1>6 DEF Failures

\* The retry of a live conflict waits for Steam's answer with a timer of its own.
Rearmed(s, t) ==
    /\ t \in Worker /\ t.desired = s.desired /\ t.paused = s.paused
    /\ t.connected = s.connected /\ t.client = s.client /\ t.handled = s.handled
    /\ t.blocked /\ Retrying(t) /\ t.status = s.status /\ t.farming = s.farming

LEMMA RetrySessionConflictCases ==
    ASSUME NEW s \in Worker, NEW cooldown \in BOOLEAN, NEW token \in BOOLEAN,
           NEW manual \in {"none", "manual"}
    PROVE  LET t == RetrySessionConflict(s, cooldown, token, manual)
           IN \/ s.mode = "live" /\ ~s.blocked
              \/ Rearmed(s, t)
              \/ Busy(s) /\ Quiet(s, t) /\ t.status = s.status /\ t.farming = s.farming
              \/ Quiet(s, t) /\ t.status = "login_required"
              \/ LoggingOn(s, t)
<1> DEFINE a == IF cooldown THEN [s EXCEPT !.attempt = 0] ELSE s
           b == ReportGames(a, Payload(a, manual))
           c == RegisterSessionConflict(b, "live")
           d == StartNow(a, token)
           t == RetrySessionConflict(s, cooldown, token, manual)
<1>1. /\ a.mode = "live" /\ a.blocked => t = c
      /\ a.mode # "live" => t = d
  BY DEF RetrySessionConflict, RetryLiveSessionConflict
<1>2. Quiet(s, a) /\ a.status = s.status /\ a.farming = s.farming
  <2>1. CASE cooldown
    BY <2>1, Literals DEF Worker, Quiet, SameTimers, SameConflict
  <2>2. CASE ~cooldown
    BY <2>2, QuietSelf
  <2> QED
    BY <2>1, <2>2
<1> HIDE DEF a, t
<1>3. CASE a.mode = "live" /\ a.blocked
  <2>1. Quiet(a, b) /\ b.status = a.status /\ b.farming = a.farming
    BY <1>2, ReportGamesKeeps, PayloadFacts DEF Quiet
  <2> HIDE DEF b
  <2>2. /\ c \in Worker /\ SameSession(b, c)
        /\ c.handled = b.handled /\ c.blocked = b.blocked
        /\ Retrying(c) /\ c.status = b.status /\ c.farming = b.farming
    BY <2>1, RegisterSessionConflictKeeps DEF Quiet
  <2> HIDE DEF c
  <2>3. Rearmed(s, t)
    BY <1>1, <1>2, <1>3, <2>1, <2>2 DEF Rearmed, Quiet, SameSession, SameConflict
  <2> QED
    BY <2>3 DEF t
<1>4. CASE a.mode = "live" /\ ~a.blocked
  BY <1>2, <1>4 DEF Quiet, SameConflict
<1>5. CASE a.mode # "live"
  <2>1. \/ Busy(a) /\ d = a
        \/ ~Busy(a) /\ Quiet(a, d) /\ d.status = "login_required"
        \/ ~Busy(a) /\ LoggingOn(a, d)
    BY <1>2, StartNowCases DEF Quiet
  <2> HIDE DEF d
  <2>2. Busy(a) => Busy(s)
    BY <1>2 DEF Busy, Quiet
  <2>3. LoggingOn(a, d) => LoggingOn(s, d)
    BY <1>2 DEF LoggingOn, Quiet, SameTimers, SameConflict
  <2>4. Quiet(a, d) => Quiet(s, d)
    BY <1>2, QuietTransitive
  <2>5. t = d
    BY <1>1, <1>5
  <2> QED
    BY <1>2, <2>1, <2>2, <2>3, <2>4, <2>5 DEF t
<1> QED
  BY <1>3, <1>4, <1>5

(***************************************************************************)
(* What waits in the queue                                                 *)
(***************************************************************************)

Losses  == {"disconnected", "error"}
Retries == {"retry", "cooldown"}

In(q, ops)   == \E i \in DOMAIN q : q[i].op \in ops
Live(q, ops) == \E i \in DOMAIN q : q[i].op \in ops /\ q[i].live

\* A client that has lost its session hears of no other session.
LossIsLast(q) ==
    \A i, j \in DOMAIN q : q[i].op \in Losses /\ q[j].op = "free" => j < i

LEMMA RestampKeeps ==
    ASSUME NEW q \in Seq(Item), NEW c \in BOOLEAN, NEW h \in BOOLEAN
    PROVE  LET r == Restamp(q, c, h)
           IN /\ r \in Seq(Item)
              /\ LossIsLast(q) => LossIsLast(r)
              /\ \A ops : In(r, ops) <=> In(q, ops)
              /\ \A ops : Live(r, ops) => Live(q, ops)
              /\ \A ops \in SUBSET (Events \cup Timers) :
                    /\ Live(r, ops) => ~c
                    /\ Live(q, ops) /\ ~c => Live(r, ops)
<1> DEFINE r == Restamp(q, c, h)
<1>1. r \in Seq(Item) /\ DOMAIN r = DOMAIN q
  BY RestampFacts DEF Restamp
<1>2. ASSUME NEW i \in DOMAIN q
      PROVE  /\ r[i].op = q[i].op
             /\ r[i].live => q[i].live
             /\ q[i].op \in Events \cup Timers =>
                   (r[i].live => ~c) /\ (q[i].live /\ ~c => r[i].live)
  <2>1. q[i] \in Item
    OBVIOUS
  <2> DEFINE b == /\ q[i].live
                  /\ ~(c /\ q[i].op \in Events \cup Timers)
                  /\ ~(h /\ q[i].op \in Farming)
  <2>2. r[i] = [q[i] EXCEPT !.live = b]
    BY DEF Restamp
  <2>3. b => q[i].live
    OBVIOUS
  <2>4. q[i].op \in Events \cup Timers => (b => ~c) /\ (q[i].live /\ ~c => b)
    BY DEF Events, Timers, Farming
  <2> HIDE DEF b, r
  <2>5. r[i].op = q[i].op /\ r[i].live = b
    BY <2>1, <2>2 DEF Item
  <2> QED
    BY <2>3, <2>4, <2>5
<1> HIDE DEF r
<1>3. LossIsLast(q) => LossIsLast(r)
  BY <1>1, <1>2 DEF LossIsLast
<1>4. ASSUME NEW ops PROVE (In(r, ops) <=> In(q, ops)) /\ (Live(r, ops) => Live(q, ops))
  BY <1>1, <1>2 DEF In, Live
<1>5. ASSUME NEW ops \in SUBSET (Events \cup Timers)
      PROVE  (Live(r, ops) => ~c) /\ (Live(q, ops) /\ ~c => Live(r, ops))
  BY <1>1, <1>2 DEF Live
<1> QED
  BY <1>1, <1>3, <1>4, <1>5 DEF r

LEMMA TailKeeps ==
    ASSUME NEW q \in Seq(Item), q # <<>>
    PROVE  /\ Tail(q) \in Seq(Item) /\ Head(q) \in Item
           /\ \A ops : In(q, ops) <=> Head(q).op \in ops \/ In(Tail(q), ops)
           /\ \A ops : Live(q, ops) <=>
                         (Head(q).op \in ops /\ Head(q).live) \/ Live(Tail(q), ops)
           /\ LossIsLast(q) =>
                 /\ LossIsLast(Tail(q))
                 /\ Head(q).op \in Losses => ~In(Tail(q), {"free"})
<1> DEFINE t == Tail(q)
<1>1. /\ t \in Seq(Item) /\ Head(q) \in Item /\ Head(q) = q[1] /\ 1 \in DOMAIN q
      /\ \A i \in DOMAIN t : t[i] = q[i + 1] /\ i + 1 \in DOMAIN q /\ i + 1 > 1
      /\ \A i \in DOMAIN q : i = 1 \/ (i - 1 \in DOMAIN t /\ q[i] = t[i - 1])
      /\ \A i \in DOMAIN q : i \in Nat
      /\ \A i \in DOMAIN t : i \in Nat
  OBVIOUS
<1> HIDE DEF t
<1>2. ASSUME NEW ops PROVE In(q, ops) <=> Head(q).op \in ops \/ In(t, ops)
  BY <1>1 DEF In
<1>3. ASSUME NEW ops
      PROVE  Live(q, ops) <=> (Head(q).op \in ops /\ Head(q).live) \/ Live(t, ops)
  BY <1>1 DEF Live
<1>4. ASSUME LossIsLast(q)
      PROVE  LossIsLast(t) /\ (Head(q).op \in Losses => ~In(t, {"free"}))
  <2>1. ASSUME NEW i \in DOMAIN t, NEW j \in DOMAIN t,
               t[i].op \in Losses, t[j].op = "free"
        PROVE  j < i
    <3>1. /\ i + 1 \in DOMAIN q /\ j + 1 \in DOMAIN q
          /\ q[i + 1].op \in Losses /\ q[j + 1].op = "free"
      BY <1>1, <2>1
    <3>2. j + 1 < i + 1
      BY <1>4, <3>1 DEF LossIsLast
    <3> QED
      BY <1>1, <3>2
  <2>2. ASSUME NEW j \in DOMAIN t, Head(q).op \in Losses, t[j].op = "free"
        PROVE  FALSE
    <3>1. /\ j + 1 \in DOMAIN q /\ q[j + 1].op = "free"
          /\ 1 \in DOMAIN q /\ q[1].op \in Losses
      BY <1>1, <2>2
    <3>2. j + 1 < 1
      BY <1>4, <3>1 DEF LossIsLast
    <3> QED
      BY <1>1, <3>2
  <2> QED
    BY <2>1, <2>2 DEF LossIsLast, In
<1> QED
  BY <1>1, <1>2, <1>3, <1>4 DEF t

LEMMA ConcatKeeps ==
    ASSUME NEW q \in Seq(Item), NEW r \in Seq(Item)
    PROVE  /\ q \o r \in Seq(Item)
           /\ \A ops : In(q \o r, ops) <=> In(q, ops) \/ In(r, ops)
           /\ \A ops : Live(q \o r, ops) <=> Live(q, ops) \/ Live(r, ops)
           /\ LossIsLast(q) /\ ~In(r, {"free"}) => LossIsLast(q \o r)
           /\ ~In(q, Losses) /\ ~In(r, Losses) => LossIsLast(q \o r)
<1> DEFINE s == q \o r
           n == Len(q)
<1>1. /\ s \in Seq(Item) /\ n \in Nat /\ DOMAIN q = 1 .. n
      /\ \A i \in DOMAIN s : i \in Nat
      /\ \A i \in DOMAIN q : i \in DOMAIN s /\ s[i] = q[i]
      /\ \A i \in DOMAIN r : i + n \in DOMAIN s /\ s[i + n] = r[i] /\ i \in Nat /\ i > 0
      /\ \A i \in DOMAIN s : \/ i \in DOMAIN q /\ s[i] = q[i]
                             \/ i > n /\ i - n \in DOMAIN r /\ s[i] = r[i - n]
  OBVIOUS
<1> HIDE DEF s, n
<1>2. ASSUME NEW ops PROVE In(s, ops) <=> In(q, ops) \/ In(r, ops)
  BY <1>1 DEF In
<1>3. ASSUME NEW ops PROVE Live(s, ops) <=> Live(q, ops) \/ Live(r, ops)
  BY <1>1 DEF Live
<1>4. ASSUME LossIsLast(q), ~In(r, {"free"}) PROVE LossIsLast(s)
  <2>1. ASSUME NEW i \in DOMAIN s, NEW j \in DOMAIN s,
               s[i].op \in Losses, s[j].op = "free"
        PROVE  j < i
    <3>1. j \in DOMAIN q /\ q[j].op = "free"
      BY <1>1, <1>4, <2>1 DEF In
    <3>2. CASE i \in DOMAIN q /\ s[i] = q[i]
      BY <1>4, <2>1, <3>1, <3>2 DEF LossIsLast
    <3>3. CASE i > n
      BY <1>1, <3>1, <3>3
    <3> QED
      BY <1>1, <3>2, <3>3
  <2> QED
    BY <2>1 DEF LossIsLast
<1>5. ASSUME ~In(q, Losses), ~In(r, Losses) PROVE LossIsLast(s)
  BY <1>2, <1>5 DEF LossIsLast, In
<1> QED
  BY <1>1, <1>2, <1>3, <1>4, <1>5 DEF s

LEMMA SingletonKeeps ==
    ASSUME NEW x \in Item
    PROVE  /\ <<x>> \in Seq(Item)
           /\ \A ops : In(<<x>>, ops) <=> x.op \in ops
           /\ \A ops : Live(<<x>>, ops) <=> x.op \in ops /\ x.live
  BY DEF In, Live

LEMMA AppendKeeps ==
    ASSUME NEW q \in Seq(Item), NEW x \in Item
    PROVE  /\ Append(q, x) \in Seq(Item)
           /\ \A ops : In(Append(q, x), ops) <=> In(q, ops) \/ x.op \in ops
           /\ \A ops : Live(Append(q, x), ops) <=>
                         Live(q, ops) \/ (x.op \in ops /\ x.live)
           /\ LossIsLast(q) /\ x.op # "free" => LossIsLast(Append(q, x))
<1>1. Append(q, x) = q \o <<x>>
  OBVIOUS
<1> DEFINE r == <<x>>
<1>2. /\ r \in Seq(Item)
      /\ \A ops : In(r, ops) <=> x.op \in ops
      /\ \A ops : Live(r, ops) <=> x.op \in ops /\ x.live
  BY SingletonKeeps
<1> HIDE DEF r
<1>3. x.op # "free" => ~In(r, {"free"})
  BY <1>2
<1>4. /\ q \o r \in Seq(Item)
      /\ \A ops : In(q \o r, ops) <=> In(q, ops) \/ In(r, ops)
      /\ \A ops : Live(q \o r, ops) <=> Live(q, ops) \/ Live(r, ops)
      /\ LossIsLast(q) /\ ~In(r, {"free"}) => LossIsLast(q \o r)
  BY <1>2, ConcatKeeps
<1>5. Append(q, x) = q \o r
  BY <1>1 DEF r
<1> HIDE DEF r
<1> QED
  BY <1>2, <1>3, <1>4, <1>5

LEMMA EmptyKeeps ==
    /\ <<>> \in Seq(Item)
    /\ \A ops : ~In(<<>>, ops) /\ ~Live(<<>>, ops)
    /\ LossIsLast(<<>>)
  BY DEF In, Live, LossIsLast

(***************************************************************************)
(* The inductive invariant of the recovery                                 *)
(***************************************************************************)

Logins == {"loggedOn"}

\* A login is told to the worker before anything else happens to the account.
LoginFirst(s, q, i) ==
    In(q, Logins) =>
        /\ s.client = "on" /\ ~i
        /\ q # <<>> /\ Head(q).op \in Logins /\ Head(q).live /\ ~In(Tail(q), Logins)

\* A worker that believes to be connected has a session, or is about to hear of the
\* loss, or was told when the intent had moved on.
Reachable(s, q, l) ==
    s.connected => s.client \in {"on", "refused"} \/ In(q, Losses) \/ "ignored" \in l

\* A login that is under way is answered.
Answered(s, q, l) ==
    s.status = "connecting" =>
        s.client \in {"connecting", "refused"} \/ In(q, Logins) \/ In(q, Losses) \/ l # {}

\* A handled conflict keeps its retry.
ConflictKept(s, q, l) ==
    s.handled /\ s.desired = "running" /\ l = {} => Retrying(s) \/ Live(q, Retries)

\* A retry of a live conflict finds the account blocked.
RetryIsBlocked(s, q) ==
    s.desired = "running" /\ s.mode = "live" /\ (Retrying(s) \/ Live(q, Retries)) =>
        s.blocked

\* The end of the other session reaches an account with a session, or one that is
\* about to hear of its loss.
FreeIsHeard(s, q, l) ==
    s.desired = "running" /\ l = {} /\ Live(q, {"free"}) =>
        s.client \in {"on", "connecting", "refused"} \/ In(q, Losses)

\* A client that is logged on is believed to be, or about to be.
LoginIsKnown(s, q, l) ==
    s.desired = "running" /\ l = {} /\ s.client = "on" => s.connected \/ In(q, Logins)

\* The way forward of an account that should run, whatever still waits in its queue.
Hope(s, q, l, i) ==
    s.desired = "running" /\ l = {} =>
        \/ s.client \in {"connecting", "refused"}
        \/ s.client = "on" /\ (s.connected \/ In(q, Logins))
        \/ Backing(s) \/ Retrying(s)
        \/ In(q, Losses) \/ Live(q, Timers)
        \/ /\ q # <<>> /\ ~i /\ Head(q).op = "auto_start"
           /\ s.status # "connecting" /\ ~s.connected

Recoverable(s, q, l, i) ==
    /\ LossIsLast(q)
    /\ LoginFirst(s, q, i)
    /\ Reachable(s, q, l)
    /\ Answered(s, q, l)
    /\ ConflictKept(s, q, l)
    /\ RetryIsBlocked(s, q)
    /\ FreeIsHeard(s, q, l)
    /\ LoginIsKnown(s, q, l)
    /\ Hope(s, q, l, i)

RInv ==
    /\ Sound(w)
    /\ phase = "up" => Recoverable(w, queue, lapses, importing)

(***************************************************************************)
(* One operation                                                           *)
(***************************************************************************)

\* The operation at the head of the queue has run, and left the worker in state t.
Turn(t) == phase = "up" /\ ~importing /\ queue # <<>> /\ t \in Worker /\ Finish(t)

\* What it leaves in the queue and of the lapses.
Left(t) ==
    /\ w' = t /\ importing' = importing /\ phase' = phase
    /\ ~In(queue', Logins)
    /\ In(queue, Logins) => Head(queue).op \in Logins
    /\ LossIsLast(queue')
    /\ In(queue, Losses) => Head(queue).op \in Losses \/ In(queue', Losses)
    /\ Head(queue).op \in Losses => ~Live(queue', {"free"})
    /\ \A ops \in SUBSET (Events \cup Timers) :
          /\ Live(queue', ops) => Live(queue, ops) /\ t.desired = w.desired
          /\ Live(queue, ops) /\ t.desired = w.desired =>
                Live(queue', ops) \/ (Head(queue).op \in ops /\ Head(queue).live)
    /\ Head(queue).op \notin {"stop", "loggedOn"} =>
          /\ "ignored" \in lapses => "ignored" \in lapses'
          /\ lapses' = {} => lapses = {} \/ (w.client = "off" /\ t.client = "connecting")
          /\ /\ t.desired = "running" /\ t.status = "login_required"
             /\ t.client = w.client
             => lapses' # {}

LEMMA Kinds ==
    /\ Retries \in SUBSET (Events \cup Timers)
    /\ Timers \in SUBSET (Events \cup Timers)
    /\ {"free"} \in SUBSET (Events \cup Timers)
    /\ Retries \subseteq Timers
    /\ "ignored" \in Lapses /\ "token" \in Lapses
  BY DEF Retries, Timers, Events, Lapses

LEMMA TurnLeaves ==
    ASSUME IInv, RInv, NEW t, Turn(t)
    PROVE  Left(t)
<1> DEFINE op == Head(queue).op
           tail == Tail(queue)
           c == t.desired # w.desired
           h == Halts(w, t, op)
           r == Restamp(tail, c, h)
<1>1. /\ w' = t /\ importing' = importing /\ phase' = phase /\ queue' = r
      /\ lapses' = (lapses \cup NewLapses(t, op)) \ Redeemed(t, op)
  BY DEF Turn, Finish
<1>2. /\ queue \in Seq(Item) /\ queue # <<>> /\ w \in Worker /\ t \in Worker
      /\ lapses \subseteq Lapses
      /\ Recoverable(w, queue, lapses, importing)
  BY DEF Turn, RInv, IInv, TypeOK
<1>3. /\ tail \in Seq(Item)
      /\ \A ops : In(queue, ops) <=> op \in ops \/ In(tail, ops)
      /\ \A ops : Live(queue, ops) <=> (op \in ops /\ Head(queue).live) \/ Live(tail, ops)
      /\ LossIsLast(tail)
      /\ op \in Losses => ~In(tail, {"free"})
  BY <1>2, TailKeeps DEF Recoverable
<1>4. c \in BOOLEAN /\ h \in BOOLEAN
  BY DEF Halts
<1> HIDE DEF c, h, tail
<1>5. /\ LossIsLast(r)
      /\ \A ops : In(r, ops) <=> In(tail, ops)
      /\ \A ops : Live(r, ops) => Live(tail, ops)
      /\ \A ops \in SUBSET (Events \cup Timers) :
            /\ Live(r, ops) => ~c
            /\ Live(tail, ops) /\ ~c => Live(r, ops)
  BY <1>3, <1>4, RestampKeeps
<1> HIDE DEF r
<1>6. /\ ~In(tail, Logins)
      /\ In(queue, Logins) => op \in Logins
  BY <1>2, <1>3 DEF Recoverable, LoginFirst, tail
<1>7. In(queue, Losses) => op \in Losses \/ In(queue', Losses)
  BY <1>1, <1>3, <1>5
<1>8. op \in Losses => ~Live(queue', {"free"})
  <2>1. Live(queue', {"free"}) => In(queue', {"free"})
    BY DEF Live, In
  <2> QED
    BY <1>1, <1>3, <1>5, <2>1
<1>9. ASSUME NEW ops \in SUBSET (Events \cup Timers)
      PROVE  /\ Live(queue', ops) => Live(queue, ops) /\ t.desired = w.desired
             /\ Live(queue, ops) /\ t.desired = w.desired =>
                   Live(queue', ops) \/ (op \in ops /\ Head(queue).live)
  BY <1>1, <1>3, <1>5 DEF c
<1>10. ASSUME op \notin {"stop", "loggedOn"}
       PROVE  /\ "ignored" \in lapses => "ignored" \in lapses'
              /\ lapses' = {} =>
                   lapses = {} \/ (w.client = "off" /\ t.client = "connecting")
              /\ /\ t.desired = "running" /\ t.status = "login_required"
                 /\ t.client = w.client
                 => lapses' # {}
  <2>1. "ignored" \notin Redeemed(t, op)
    BY <1>10 DEF Redeemed
  <2>2. ASSUME ~(w.client = "off" /\ t.client = "connecting")
        PROVE  Redeemed(t, op) = {}
    BY <1>10, <2>2 DEF Redeemed
  <2>3. t.desired = "running" /\ t.status = "login_required" =>
          "token" \in NewLapses(t, op)
    BY DEF NewLapses
  <2> HIDE DEF op
  <2>4. t.client = w.client => ~(w.client = "off" /\ t.client = "connecting")
    OBVIOUS
  <2> QED
    BY <1>1, <2>1, <2>2, <2>3, <2>4
<1> QED
  BY <1>1, <1>5, <1>6, <1>7, <1>8, <1>9, <1>10 DEF Left

\* An operation that leaves the account in a state that should not run.
LEMMA HaltedRecovers ==
    ASSUME IInv, RInv, NEW t, Turn(t), Halted(w, t),
           t.connected => Head(queue).op \notin Losses \cup {"stop", "loggedOn"}
    PROVE  RInv'
<1>1. Left(t)
  BY TurnLeaves
<1>2. Recoverable(w, queue, lapses, importing) /\ Sound(t)
  BY CasesAreSound DEF Turn, RInv, IInv, TypeOK
<1>3. LossIsLast(queue') /\ LoginFirst(t, queue', importing')
  BY <1>1 DEF Left, LoginFirst
<1>4. Reachable(t, queue', lapses')
  BY <1>1, <1>2 DEF Left, Recoverable, Reachable, Halted
<1>5. t.desired # "running" /\ t.status # "connecting"
  BY DEF Halted
<1>6. /\ Answered(t, queue', lapses') /\ ConflictKept(t, queue', lapses')
      /\ RetryIsBlocked(t, queue') /\ FreeIsHeard(t, queue', lapses')
      /\ LoginIsKnown(t, queue', lapses') /\ Hope(t, queue', lapses', importing')
  BY <1>5
  DEF Answered, ConflictKept, RetryIsBlocked, FreeIsHeard, LoginIsKnown, Hope
<1> QED
  BY <1>1, <1>2, <1>3, <1>4, <1>6 DEF RInv, Recoverable, Left

\* An operation that changes neither the session nor a retry; a timer, or the start at
\* boot, does nothing only when a login is under way or the worker is connected.
LEMMA QuietRecovers ==
    ASSUME IInv, RInv, NEW t, Turn(t), Quiet(w, t),
           t.status = "connecting" =>
              w.status = "connecting" /\ t.farming \in {w.farming, "off"},
           Head(queue).op \notin Losses \cup {"stop", "loggedOn"},
           \/ w.desired # "running" \/ w.status = "connecting" \/ w.connected
           \/ Head(queue).op # "auto_start" /\ (Head(queue).op \in Timers => ~Head(queue).live)
    PROVE  RInv'
<1>1. Left(t)
  BY TurnLeaves
<1>2. Recoverable(w, queue, lapses, importing) /\ Sound(w)
  BY DEF Turn, RInv
<1>3. Sound(t)
  BY <1>2 DEF Sound, Quiet, SameConflict
<1>4. LossIsLast(queue') /\ LoginFirst(t, queue', importing')
  BY <1>1 DEF Left, LoginFirst
<1>5. ~In(queue, Logins)
  BY <1>1 DEF Left, Logins
<1>6. lapses' = {} => lapses = {}
  BY <1>1 DEF Left, Quiet
<1>7. Reachable(t, queue', lapses')
  BY <1>1, <1>2 DEF Left, Recoverable, Reachable, Quiet
<1>8. Answered(t, queue', lapses')
  BY <1>1, <1>2, <1>5, <1>6 DEF Left, Recoverable, Answered, Quiet
<1>9. ConflictKept(t, queue', lapses')
  <2>1. CASE w.desired # "running" \/ w.status = "connecting" \/ w.connected
    BY <1>2, <2>1 DEF ConflictKept, Quiet, SameConflict, Sound
  <2>2. CASE Head(queue).op \in Timers => ~Head(queue).live
    BY <1>1, <1>2, <1>6, <2>2, Kinds
    DEF Left, Recoverable, ConflictKept, Quiet, SameTimers, SameConflict, Retrying
  <2> QED
    BY <2>1, <2>2
<1>10. RetryIsBlocked(t, queue')
  BY <1>1, <1>2, Kinds
  DEF Left, Recoverable, RetryIsBlocked, Quiet, SameTimers, SameConflict, Retrying
<1>11. FreeIsHeard(t, queue', lapses')
  BY <1>1, <1>2, <1>6, Kinds DEF Left, Recoverable, FreeIsHeard, Quiet
<1>12. LoginIsKnown(t, queue', lapses')
  BY <1>2, <1>5, <1>6 DEF Recoverable, LoginIsKnown, Quiet
<1>13. Hope(t, queue', lapses', importing')
  <2>1. SUFFICES ASSUME t.desired = "running", lapses' = {}
                 PROVE  \/ t.client \in {"connecting", "refused"}
                        \/ t.client = "on" /\ t.connected
                        \/ Backing(t) \/ Retrying(t)
                        \/ In(queue', Losses) \/ Live(queue', Timers)
    BY DEF Hope
  <2>2. In(queue, Losses) => In(queue', Losses)
    BY <1>1 DEF Left
  <2>3. "ignored" \notin lapses
    BY <1>6, <2>1
  <2>4. CASE w.connected
    BY <1>2, <2>2, <2>3, <2>4 DEF Recoverable, Reachable, Quiet
  <2>5. CASE w.status = "connecting"
    BY <1>2, <1>5, <1>6, <2>1, <2>2, <2>5 DEF Recoverable, Answered, Quiet
  <2>6. CASE /\ Head(queue).op # "auto_start"
             /\ Head(queue).op \in Timers => ~Head(queue).live
    <3>1. Live(queue, Timers) => Live(queue', Timers)
      BY <1>1, <2>6, Kinds DEF Left, Quiet
    <3> QED
      BY <1>2, <1>5, <1>6, <2>1, <2>2, <2>6, <3>1
      DEF Recoverable, Hope, Quiet, SameTimers, Backing, Retrying
  <2> QED
    BY <2>1, <2>4, <2>5, <2>6 DEF Quiet
<1> QED
  BY <1>1, <1>3, <1>4, <1>7, <1>8, <1>9, <1>10, <1>11, <1>12, <1>13
  DEF RInv, Recoverable, Left

\* An operation that begins a login.
LEMMA LoggingOnRecovers ==
    ASSUME IInv, RInv, NEW t, Turn(t), LoggingOn(w, t),
           Head(queue).op \notin Losses \cup {"stop", "loggedOn"}
    PROVE  RInv'
<1>1. Left(t)
  BY TurnLeaves
<1>2. Recoverable(w, queue, lapses, importing) /\ Sound(t)
  BY CasesAreSound DEF Turn, RInv, IInv, TypeOK
<1>3. LossIsLast(queue') /\ LoginFirst(t, queue', importing')
  BY <1>1 DEF Left, LoginFirst
<1>4. t.client \in {"connecting", "refused"} /\ ~t.handled
  BY DEF LoggingOn
<1>5. Reachable(t, queue', lapses')
  BY <1>1, <1>2 DEF Left, Recoverable, Reachable, LoggingOn
<1>6. RetryIsBlocked(t, queue')
  <2>1. CASE w.desired = "running"
    BY <1>1, <1>2, <2>1, Kinds
    DEF Left, Recoverable, RetryIsBlocked, LoggingOn, SameTimers, Retrying
  <2>2. CASE w.desired # "running"
    BY <1>1, <2>2, Kinds DEF Left, RetryIsBlocked, LoggingOn
  <2> QED
    BY <2>1, <2>2
<1>7. /\ Answered(t, queue', lapses') /\ ConflictKept(t, queue', lapses')
      /\ FreeIsHeard(t, queue', lapses')
      /\ LoginIsKnown(t, queue', lapses') /\ Hope(t, queue', lapses', importing')
  BY <1>4 DEF Answered, ConflictKept, FreeIsHeard, LoginIsKnown, Hope
<1> QED
  BY <1>1, <1>2, <1>3, <1>5, <1>6, <1>7 DEF RInv, Recoverable, Left

\* An operation that tells the account to run while it is connected, or in vain.
LEMMA WokenRecovers ==
    ASSUME IInv, RInv, NEW t, Turn(t), Rejoined(w, t) \/ Tokenless(w, t),
           Head(queue).op \notin Losses \cup {"stop", "loggedOn"}
    PROVE  RInv'
<1>1. Left(t)
  BY TurnLeaves
<1>2. Recoverable(w, queue, lapses, importing) /\ Sound(w) /\ Sound(t)
  BY CasesAreSound DEF Turn, RInv, IInv, TypeOK
<1>3. Woken(w, t) /\ t.status # "connecting"
  BY DEF Rejoined, Tokenless
<1>4. LossIsLast(queue') /\ LoginFirst(t, queue', importing')
  BY <1>1 DEF Left, LoginFirst
<1>5. Reachable(t, queue', lapses')
  BY <1>1, <1>2, <1>3 DEF Left, Recoverable, Reachable, Woken
<1>6. Answered(t, queue', lapses')
  BY <1>3 DEF Answered
<1>7. RetryIsBlocked(t, queue')
  <2>1. CASE w.desired = "running"
    BY <1>1, <1>2, <1>3, <2>1, Kinds
    DEF Left, Recoverable, RetryIsBlocked, Woken, Renewed, SameTimers, SameConflict,
        Retrying
  <2>2. CASE w.desired # "running"
    BY <1>1, <1>3, <2>2, Kinds DEF Left, RetryIsBlocked, Woken, Renewed
  <2> QED
    BY <2>1, <2>2
<1>8. CASE Tokenless(w, t)
  <2>1. lapses' # {}
    BY <1>1, <1>3, <1>8 DEF Left, Tokenless, Woken
  <2>2. /\ ConflictKept(t, queue', lapses') /\ FreeIsHeard(t, queue', lapses')
        /\ LoginIsKnown(t, queue', lapses') /\ Hope(t, queue', lapses', importing')
    BY <2>1 DEF ConflictKept, FreeIsHeard, LoginIsKnown, Hope
  <2> QED
    BY <1>1, <1>2, <1>4, <1>5, <1>6, <1>7, <2>2 DEF RInv, Recoverable, Left
<1>9. CASE Rejoined(w, t)
  <2>1. w.connected /\ t.connected /\ ~t.handled /\ t.client = w.client
    BY <1>2, <1>9 DEF Rejoined, Woken, Sound, SameConflict
  <2>2. lapses' = {} => lapses = {}
    BY <1>1, <2>1 DEF Left
  <2>3. FreeIsHeard(t, queue', lapses')
    BY <1>1, <1>2, <2>1, <2>2, Kinds DEF Left, Recoverable, FreeIsHeard
  <2>4. Hope(t, queue', lapses', importing')
    BY <1>1, <1>2, <2>1, <2>2 DEF Left, Recoverable, Reachable, Hope
  <2>5. ConflictKept(t, queue', lapses') /\ LoginIsKnown(t, queue', lapses')
    BY <2>1 DEF ConflictKept, LoginIsKnown
  <2> QED
    BY <1>1, <1>2, <1>4, <1>5, <1>6, <1>7, <2>3, <2>4, <2>5 DEF RInv, Recoverable, Left
<1> QED
  BY <1>8, <1>9

\* A login is heard: of an account that should run, or that was stopped meanwhile.
LEMMA LoginRecovers ==
    ASSUME IInv, RInv, NEW t, Turn(t), Head(queue).op = "loggedOn", Sound(t),
           t.client = w.client, t.status # "connecting",
           t.desired = "running" => t.connected /\ ~t.handled /\ t.mode = "none"
    PROVE  RInv'
<1>1. Left(t)
  BY TurnLeaves
<1>2. Recoverable(w, queue, lapses, importing)
  BY DEF Turn, RInv
<1>3. w.client = "on"
  <2>1. In(queue, Logins)
    BY TailKeeps DEF Turn, IInv, TypeOK, Logins
  <2> QED
    BY <1>2, <2>1 DEF Recoverable, LoginFirst
<1>4. LossIsLast(queue') /\ LoginFirst(t, queue', importing')
  BY <1>1 DEF Left, LoginFirst
<1>5. /\ Reachable(t, queue', lapses') /\ Answered(t, queue', lapses')
      /\ ConflictKept(t, queue', lapses') /\ RetryIsBlocked(t, queue')
      /\ FreeIsHeard(t, queue', lapses') /\ LoginIsKnown(t, queue', lapses')
      /\ Hope(t, queue', lapses', importing')
  BY <1>3
  DEF Reachable, Answered, ConflictKept, RetryIsBlocked, FreeIsHeard, LoginIsKnown, Hope
<1> QED
  BY <1>1, <1>4, <1>5 DEF RInv, Recoverable, Left

LEMMA BlockedRecovers ==
    ASSUME IInv, RInv, NEW t, Turn(t), Head(queue).op = "blocked", Blocked(w, t)
    PROVE  RInv'
<1>1. Left(t)
  BY TurnLeaves
<1>2. Recoverable(w, queue, lapses, importing) /\ Sound(w)
  BY DEF Turn, RInv
<1>3. Sound(t)
  BY <1>2 DEF Sound, Blocked
<1>4. LossIsLast(queue') /\ LoginFirst(t, queue', importing')
  BY <1>1 DEF Left, LoginFirst
<1>5. /\ ~In(queue, Logins)
      /\ lapses' = {} => lapses = {}
      /\ "ignored" \in lapses => "ignored" \in lapses'
      /\ In(queue, Losses) => In(queue', Losses)
  BY <1>1 DEF Left, Logins, Losses, Blocked
<1>6. /\ Live(queue, Retries) => Live(queue', Retries)
      /\ Live(queue, Timers) => Live(queue', Timers)
      /\ Live(queue', {"free"}) => Live(queue, {"free"})
  BY <1>1, Kinds DEF Left, Retries, Timers, Blocked
<1>7. Reachable(t, queue', lapses') /\ Answered(t, queue', lapses')
  BY <1>2, <1>5 DEF Recoverable, Reachable, Answered, Blocked
<1>8. ConflictKept(t, queue', lapses') /\ RetryIsBlocked(t, queue')
  BY <1>2, <1>5, <1>6
  DEF Recoverable, ConflictKept, RetryIsBlocked, Blocked, SameTimers, Retrying
<1>9. FreeIsHeard(t, queue', lapses') /\ LoginIsKnown(t, queue', lapses')
  BY <1>2, <1>5, <1>6 DEF Recoverable, FreeIsHeard, LoginIsKnown, Blocked
<1>10. Hope(t, queue', lapses', importing')
  BY <1>2, <1>5, <1>6 DEF Recoverable, Hope, Blocked, SameTimers, Retrying, Backing
<1> QED
  BY <1>1, <1>3, <1>4, <1>7, <1>8, <1>9, <1>10 DEF RInv, Recoverable, Left

\* When the other session ends, the way forward is the session itself, or its loss.
LEMMA FreedRecovers ==
    ASSUME IInv, RInv, NEW t, Turn(t), Head(queue).op = "free", Head(queue).live,
           Freed(w, t)
    PROVE  RInv'
<1>1. Left(t)
  BY TurnLeaves
<1>2. Recoverable(w, queue, lapses, importing) /\ Sound(w)
  BY DEF Turn, RInv
<1>3. Sound(t)
  BY <1>2 DEF Sound, Freed
<1>4. LossIsLast(queue') /\ LoginFirst(t, queue', importing')
  BY <1>1 DEF Left, LoginFirst
<1>5. /\ ~In(queue, Logins)
      /\ lapses' = {} => lapses = {}
      /\ "ignored" \in lapses => "ignored" \in lapses'
      /\ In(queue, Losses) => In(queue', Losses)
  BY <1>1 DEF Left, Logins, Losses, Freed
<1>6. Live(queue, {"free"})
  BY TailKeeps DEF Turn, IInv, TypeOK
<1>7. Reachable(t, queue', lapses') /\ Answered(t, queue', lapses')
  BY <1>2, <1>5 DEF Recoverable, Reachable, Answered, Freed
<1>8. ConflictKept(t, queue', lapses') /\ RetryIsBlocked(t, queue')
  BY DEF ConflictKept, RetryIsBlocked, Freed
<1>9. FreeIsHeard(t, queue', lapses') /\ LoginIsKnown(t, queue', lapses')
  BY <1>2, <1>5, <1>6 DEF Recoverable, FreeIsHeard, LoginIsKnown, Freed
<1>10. Hope(t, queue', lapses', importing')
  BY <1>2, <1>5, <1>6 DEF Recoverable, FreeIsHeard, LoginIsKnown, Hope, Freed
<1> QED
  BY <1>1, <1>3, <1>4, <1>7, <1>8, <1>9, <1>10 DEF RInv, Recoverable, Left

LEMMA LostRecovers ==
    ASSUME IInv, RInv, NEW t, Turn(t), Head(queue).op \in Losses, LostRunning(w, t)
    PROVE  RInv'
<1>1. Left(t)
  BY TurnLeaves
<1>2. Recoverable(w, queue, lapses, importing) /\ Sound(w)
  BY DEF Turn, RInv
<1>3. Sound(t)
  BY DEF Sound, LostRunning
<1>4. LossIsLast(queue') /\ LoginFirst(t, queue', importing')
  BY <1>1 DEF Left, LoginFirst
<1>5. Head(queue).op \notin {"stop", "loggedOn"} /\ Head(queue).op \notin Retries
  BY DEF Losses, Retries
<1>6. /\ lapses' = {} => lapses = {}
      /\ ~Live(queue', {"free"})
  BY <1>1, <1>5 DEF Left, LostRunning
<1>7. /\ Live(queue, Retries) => Live(queue', Retries)
      /\ Live(queue', Retries) => Live(queue, Retries)
  BY <1>1, <1>5, Kinds DEF Left, LostRunning
<1>8. w.client # "on"
  <2>1. LossIn(queue)
    BY TailFacts DEF Turn, IInv, TypeOK, Losses
  <2> QED
    BY <2>1 DEF Turn, IInv, WhileUp
<1>9. Reachable(t, queue', lapses') /\ Answered(t, queue', lapses')
  BY DEF Reachable, Answered, LostRunning
<1>10. FreeIsHeard(t, queue', lapses') /\ LoginIsKnown(t, queue', lapses')
  BY <1>6, <1>8 DEF FreeIsHeard, LoginIsKnown, LostRunning
<1>11. CASE LostAgain(w, t)
  <2>1. lapses' = {} => Retrying(t) \/ Live(queue', Retries)
    BY <1>2, <1>6, <1>7, <1>11
    DEF Recoverable, ConflictKept, LostAgain, LostRunning, SameTimers, Retrying
  <2>2. Live(queue', Retries) => Live(queue', Timers)
    BY Kinds DEF Live
  <2>3. ConflictKept(t, queue', lapses') /\ Hope(t, queue', lapses', importing')
    BY <2>1, <2>2 DEF ConflictKept, Hope
  <2>4. RetryIsBlocked(t, queue')
    BY <1>2, <1>7, <1>11
    DEF Recoverable, RetryIsBlocked, LostAgain, LostRunning, SameTimers, SameConflict,
        Retrying
  <2> QED
    BY <1>1, <1>3, <1>4, <1>9, <1>10, <2>3, <2>4 DEF RInv, Recoverable, Left
<1>12. CASE LostFirst(w, t)
  <2>1. /\ ConflictKept(t, queue', lapses') /\ RetryIsBlocked(t, queue')
        /\ Hope(t, queue', lapses', importing')
    BY <1>12 DEF ConflictKept, RetryIsBlocked, Hope, LostFirst
  <2> QED
    BY <1>1, <1>3, <1>4, <1>9, <1>10, <1>12, <2>1 DEF RInv, Recoverable, Left
<1> QED
  BY <1>11, <1>12 DEF LostRunning

LEMMA RearmedRecovers ==
    ASSUME IInv, RInv, NEW t, Turn(t), Head(queue).op \in Retries, Rearmed(w, t)
    PROVE  RInv'
<1>1. Left(t)
  BY TurnLeaves
<1>2. Recoverable(w, queue, lapses, importing) /\ Sound(w)
  BY DEF Turn, RInv
<1>3. Sound(t)
  BY <1>2 DEF Sound, Rearmed
<1>4. LossIsLast(queue') /\ LoginFirst(t, queue', importing')
  BY <1>1 DEF Left, LoginFirst
<1>5. Head(queue).op \notin {"stop", "loggedOn", "free"} \cup Losses \cup Logins
  BY DEF Losses, Retries, Logins
<1>6. /\ ~In(queue, Logins)
      /\ lapses' = {} => lapses = {}
      /\ "ignored" \in lapses => "ignored" \in lapses'
      /\ In(queue, Losses) => In(queue', Losses)
  BY <1>1, <1>5 DEF Left, Rearmed
<1>7. Live(queue', {"free"}) => Live(queue, {"free"})
  BY <1>1, Kinds DEF Left
<1>8. Reachable(t, queue', lapses') /\ Answered(t, queue', lapses')
  BY <1>2, <1>6 DEF Recoverable, Reachable, Answered, Rearmed
<1>9. FreeIsHeard(t, queue', lapses') /\ LoginIsKnown(t, queue', lapses')
  BY <1>2, <1>6, <1>7 DEF Recoverable, FreeIsHeard, LoginIsKnown, Rearmed
<1>10. /\ ConflictKept(t, queue', lapses') /\ RetryIsBlocked(t, queue')
       /\ Hope(t, queue', lapses', importing')
  BY DEF ConflictKept, RetryIsBlocked, Hope, Rearmed
<1> QED
  BY <1>1, <1>3, <1>4, <1>8, <1>9, <1>10 DEF RInv, Recoverable, Left

\* Where a start leads, whether a user, the boot or a timer asks for it.
LEMMA StartRecovers ==
    ASSUME IInv, RInv, NEW t, Turn(t),
           Head(queue).op \notin Losses \cup {"stop", "loggedOn"},
           \/ Busy(w) /\ Quiet(w, t) /\ t.status = w.status /\ t.farming = w.farming
           \/ Quiet(w, t) /\ t.status = "login_required"
           \/ LoggingOn(w, t)
    PROVE  RInv'
<1>1. CASE Busy(w) /\ Quiet(w, t) /\ t.status = w.status /\ t.farming = w.farming
  BY <1>1, QuietRecovers DEF Busy
<1>2. CASE Quiet(w, t) /\ t.status = "login_required"
  <2>1. Sound(w)
    BY DEF RInv
  <2>2. Tokenless(w, t) \/ Halted(w, t)
    BY <1>2, <2>1
    DEF Sound, Tokenless, Woken, Renewed, Halted, Quiet, SameConflict
  <2> QED
    BY <2>2, WokenRecovers, HaltedRecovers
<1>3. CASE LoggingOn(w, t)
  BY <1>3, LoggingOnRecovers
<1> QED
  BY <1>1, <1>2, <1>3

\* An event that is ignored goes into the history.
LEMMA IgnoredRecovers ==
    ASSUME IInv, RInv, RunIgnoredEvent
    PROVE  RInv'
<1>1. /\ phase = "up" /\ queue # <<>> /\ w' = w /\ queue' = Tail(queue)
      /\ "ignored" \in lapses' /\ lapses' # {}
      /\ Recoverable(w, queue, lapses, importing)
  BY DEF RunIgnoredEvent, RInv
<1>2. /\ LossIsLast(queue')
      /\ Live(queue', Retries) => Live(queue, Retries)
  BY <1>1, TailKeeps DEF IInv, TypeOK, Recoverable
<1>3. ~In(queue', Logins)
  <2>1. In(queue', Logins) => In(queue, Logins)
    BY <1>1, TailKeeps DEF IInv, TypeOK
  <2> QED
    BY <1>1, <2>1 DEF Recoverable, LoginFirst
<1>4. LoginFirst(w, queue', importing') /\ RetryIsBlocked(w, queue')
  BY <1>1, <1>2, <1>3 DEF Recoverable, LoginFirst, RetryIsBlocked
<1>5. /\ Reachable(w, queue', lapses') /\ Answered(w, queue', lapses')
      /\ ConflictKept(w, queue', lapses') /\ FreeIsHeard(w, queue', lapses')
      /\ LoginIsKnown(w, queue', lapses') /\ Hope(w, queue', lapses', importing')
  BY <1>1
  DEF Reachable, Answered, ConflictKept, FreeIsHeard, LoginIsKnown, Hope
<1> QED
  BY <1>1, <1>2, <1>4, <1>5 DEF RInv, Recoverable

LEMMA ImportRecovers ==
    ASSUME IInv, RInv, RunImport
    PROVE  RInv'
<1>1. /\ phase = "up" /\ queue # <<>> /\ w' = w /\ queue' = Tail(queue)
      /\ lapses' = lapses /\ Head(queue).op = "import"
      /\ Recoverable(w, queue, lapses, importing)
  BY DEF RunImport, Runs, RInv
<1>2. Head(queue).op \notin Logins \cup Losses \cup Timers \cup Retries
  BY <1>1 DEF Logins, Losses, Timers, Retries
<1>3. /\ LossIsLast(queue')
      /\ \A ops : In(queue, ops) <=> Head(queue).op \in ops \/ In(queue', ops)
      /\ \A ops : Live(queue, ops) <=>
                    (Head(queue).op \in ops /\ Head(queue).live) \/ Live(queue', ops)
  BY <1>1, TailKeeps DEF IInv, TypeOK, Recoverable
<1>4. ~In(queue, Logins) /\ ~In(queue', Logins)
  BY <1>1, <1>2, <1>3 DEF Recoverable, LoginFirst
<1>5. /\ In(queue, Losses) <=> In(queue', Losses)
      /\ Live(queue, Retries) <=> Live(queue', Retries)
      /\ Live(queue, Timers) <=> Live(queue', Timers)
      /\ Live(queue', {"free"}) => Live(queue, {"free"})
  BY <1>2, <1>3
<1>6. LoginFirst(w, queue', importing')
  BY <1>4 DEF LoginFirst
<1>7. /\ Reachable(w, queue', lapses') /\ Answered(w, queue', lapses')
      /\ ConflictKept(w, queue', lapses') /\ RetryIsBlocked(w, queue')
      /\ FreeIsHeard(w, queue', lapses') /\ LoginIsKnown(w, queue', lapses')
  BY <1>1, <1>4, <1>5
  DEF Recoverable, Reachable, Answered, ConflictKept, RetryIsBlocked, FreeIsHeard,
      LoginIsKnown
<1>8. Hope(w, queue', lapses', importing')
  BY <1>1, <1>4, <1>5 DEF Recoverable, Hope
<1> QED
  BY <1>1, <1>3, <1>6, <1>7, <1>8 DEF RInv, Recoverable

LEMMA ImportEndRecovers ==
    ASSUME IInv, RInv, ImportEnds
    PROVE  RInv'
<1>1. /\ importing /\ w' = w /\ queue' = queue /\ phase' = phase /\ lapses' = lapses
  BY DEF ImportEnds
<1>2. SUFFICES ASSUME phase = "up" PROVE Recoverable(w, queue, lapses, importing')
  BY <1>1 DEF RInv
<1>3. Recoverable(w, queue, lapses, importing)
  BY <1>2 DEF RInv
<1> QED
  BY <1>1, <1>3 DEF Recoverable, LoginFirst, Hope

LEMMA RunnerRecovers ==
    ASSUME IInv, RInv, Runner
    PROVE  RInv'
<1>0. w \in Worker /\ Sound(w)
  BY DEF IInv, TypeOK, RInv
<1>1. ASSUME NEW op, Runs(op), NEW t \in Worker, Finish(t)
      PROVE  Turn(t) /\ Head(queue).op = op
  BY <1>1 DEF Turn, Runs
<1>2. ASSUME Head(queue).op \in Commands \cup Services \cup Farming \cup Timers \cup
                                {"blocked", "free"},
             Head(queue).op # "stop"
      PROVE  Head(queue).op \notin Losses \cup {"stop", "loggedOn"}
  BY <1>2 DEF Commands, Services, Farming, Timers, Losses
<1>3. ASSUME NEW op, Runs(op), Finish(w),
             op \in Commands \cup Services \cup Farming \cup Timers, op # "stop",
             w.desired # "running" \/ op \in Farming \cup {"farm_resume"} \/
                (op \in Timers /\ ~Head(queue).live)
      PROVE  RInv'
  <2>1. Turn(w) /\ Head(queue).op = op
    BY <1>0, <1>1, <1>3
  <2>2. Head(queue).op \notin Losses \cup {"stop", "loggedOn"}
    BY <1>2, <1>3, <2>1
  <2>3. \/ w.desired # "running"
        \/ op # "auto_start" /\ (op \in Timers => ~Head(queue).live)
    BY <1>3 DEF Farming, Timers
  <2> QED
    BY <1>0, <2>1, <2>2, <2>3, QuietSelf, QuietRecovers
<1>4. CASE RunStart
  <2> DEFINE s == ClearRecoveryHealth(w)
  <2>1. PICK token \in BOOLEAN : Finish(StartNow(s, token))
    BY <1>4 DEF RunStart
  <2>2. PICK op \in {"start", "auto_start"} : Runs(op)
    BY <1>4 DEF RunStart
  <2>3. Quiet(w, s) /\ s.status = w.status /\ s.farming = w.farming
    BY <1>0, ClearRecoveryHealthKeeps
  <2> HIDE DEF s
  <2> DEFINE t == StartNow(s, token)
  <2>4. \/ Busy(s) /\ t = s
        \/ ~Busy(s) /\ Quiet(s, t) /\ t.status = "login_required"
        \/ ~Busy(s) /\ LoggingOn(s, t)
    BY <2>3, StartNowCases DEF Quiet
  <2>5. Finish(t)
    BY <2>1
  <2> HIDE DEF t
  <2>6. \/ Busy(w) /\ Quiet(w, t) /\ t.status = w.status /\ t.farming = w.farming
        \/ Quiet(w, t) /\ t.status = "login_required"
        \/ LoggingOn(w, t)
    <3>1. Busy(s) => Busy(w)
      BY <2>3 DEF Busy, Quiet
    <3>2. Quiet(s, t) => Quiet(w, t)
      BY <2>3, QuietTransitive
    <3>3. LoggingOn(s, t) => LoggingOn(w, t)
      BY <2>3 DEF LoggingOn, Quiet, SameTimers, SameConflict
    <3> QED
      BY <2>3, <2>4, <3>1, <3>2, <3>3
  <2>7. t \in Worker
    BY <2>6 DEF Quiet, LoggingOn
  <2>8. Turn(t) /\ Head(queue).op = op
    BY <1>1, <2>2, <2>5, <2>7
  <2>9. Head(queue).op \notin Losses \cup {"stop", "loggedOn"}
    BY <2>8 DEF Losses
  <2> QED
    BY <2>6, <2>8, <2>9, StartRecovers
<1>5. CASE RunStop
  <2>1. Halted(w, StopNow(w)) /\ ~StopNow(w).connected
    BY <1>0, StopNowHalts
  <2>2. Turn(StopNow(w))
    BY <1>1, <1>5, <2>1 DEF RunStop, Halted
  <2> QED
    BY <2>1, <2>2, HaltedRecovers
<1>6. ASSUME NEW op, Runs(op), NEW t \in SafetyPause(w), Finish(t),
             op \in {"pause", "safety_pause", "farm_end"}
      PROVE  RInv'
  <2>1. Halted(w, t)
    BY <1>0, SafetyPauseHalts
  <2>2. Turn(t) /\ Head(queue).op = op
    BY <1>1, <1>6, <2>1 DEF Halted
  <2>3. Head(queue).op \notin Losses \cup {"stop", "loggedOn"}
    BY <1>6, <2>2 DEF Losses
  <2> QED
    BY <2>1, <2>2, <2>3, HaltedRecovers
<1>7. CASE RunPause
  <2>1. PauseNow(w) \in SafetyPause(w)
    BY DEF SafetyPause
  <2> QED
    BY <1>6, <1>7, <2>1 DEF RunPause
<1>8. CASE RunSafetyPause
  BY <1>6, <1>8 DEF RunSafetyPause
<1>9. CASE RunResume
  <2>1. PICK token \in BOOLEAN, manual \in {"none", "manual"} :
          Finish(ResumeNow(w, token, manual))
    BY <1>9 DEF RunResume
  <2>2. PICK op \in {"resume", "auto_resume"} : Runs(op)
    BY <1>9 DEF RunResume
  <2> DEFINE t == ResumeNow(w, token, manual)
  <2>3. \/ Rejoined(w, t) \/ Tokenless(w, t) \/ LoggingOn(w, t)
        \/ /\ w.status = "connecting" /\ Quiet(w, t)
           /\ t.status = w.status /\ t.farming = w.farming
    BY <1>0, ResumeNowCases
  <2>4. Finish(t)
    BY <2>1
  <2> HIDE DEF t
  <2>5. t \in Worker
    BY <2>3 DEF Rejoined, Tokenless, Woken, LoggingOn, Quiet
  <2>6. Turn(t) /\ Head(queue).op = op
    BY <1>1, <2>2, <2>4, <2>5
  <2>7. Head(queue).op \notin Losses \cup {"stop", "loggedOn"}
    BY <2>6 DEF Losses
  <2> QED
    BY <2>3, <2>6, <2>7, WokenRecovers, LoggingOnRecovers, QuietRecovers
<1>10. ASSUME NEW op, Runs(op), NEW t \in Worker, Finish(t), Quiet(w, t),
              t.status # "connecting" \/ t = w,
              op \in {"update", "farm_resume", "farm_empty", "farm_games", "farm_end",
                      "free"}
       PROVE  RInv'
  <2>1. Turn(t) /\ Head(queue).op = op
    BY <1>1, <1>10
  <2>2. /\ op \notin Losses \cup {"stop", "loggedOn"}
        /\ op # "auto_start" /\ op \notin Timers
    BY <1>10 DEF Losses, Timers
  <2> QED
    BY <1>10, <2>1, <2>2, QuietRecovers
<1>11. CASE RunUpdate
  <2>1. PICK manual \in {"none", "manual"} : Finish(ApplyGames(w, manual))
    BY <1>11 DEF RunUpdate
  <2> DEFINE t == ApplyGames(w, manual)
  <2>2. Quiet(w, t) /\ (~w.connected => t = w) /\ (w.connected => t.status # "connecting")
    BY <1>0, ApplyGamesKeeps
  <2>3. Finish(t)
    BY <2>1
  <2> HIDE DEF t
  <2> QED
    BY <1>10, <1>11, <2>2, <2>3 DEF RunUpdate, Quiet
<1>12. CASE RunFarmResume
  <2>1. CASE Finish(w)
    BY <1>0, <1>10, <1>12, <2>1, QuietSelf DEF RunFarmResume
  <2>2. CASE \E token \in BOOLEAN, manual \in {"none", "manual"} :
               Finish(ResumeForFarming(w, token, manual))
    <3>1. PICK token \in BOOLEAN, manual \in {"none", "manual"} :
            Finish(ResumeForFarming(w, token, manual))
      BY <2>2
    <3> DEFINE t == ResumeForFarming(w, token, manual)
    <3>2. t = w \/ Rejoined(w, t) \/ Tokenless(w, t) \/ LoggingOn(w, t)
      BY <1>0, ResumeForFarmingCases
    <3>3. Finish(t)
      BY <3>1
    <3> HIDE DEF t
    <3>4. t = w \/ t \in Worker
      BY <3>2 DEF Rejoined, Tokenless, Woken, LoggingOn
    <3>5. Turn(t) /\ Head(queue).op = "farm_resume"
      BY <1>0, <1>1, <1>12, <3>3, <3>4 DEF RunFarmResume
    <3>6. Head(queue).op \notin Losses \cup {"stop", "loggedOn"}
      BY <3>5 DEF Losses
    <3> QED
      BY <2>1, <3>2, <3>3, <3>5, <3>6, WokenRecovers, LoggingOnRecovers
  <2> QED
    BY <1>12, <2>1, <2>2 DEF RunFarmResume
<1>13. CASE RunFarmSelection
  <2>1. PICK op \in {"farm_empty", "farm_games"} : Runs(op)
    BY <1>13 DEF RunFarmSelection
  <2>2. CASE Finish(w)
    BY <1>0, <1>10, <2>1, <2>2, QuietSelf
  <2>3. CASE ~Finish(w)
    <3>1. PICK selection \in {"empty", "games"} : Finish(ApplyFarmingSelection(w, selection))
      BY <1>13, <2>3 DEF RunFarmSelection
    <3> DEFINE t == ApplyFarmingSelection(w, selection)
    <3>2. t = w \/ (Quiet(w, t) /\ t.status # "connecting")
      BY <1>0, ApplyFarmingSelectionKeeps
    <3>3. Finish(t)
      BY <3>1
    <3> HIDE DEF t
    <3> QED
      BY <1>10, <2>1, <2>2, <3>2, <3>3 DEF Quiet
  <2> QED
    BY <2>2, <2>3
<1>14. CASE RunFarmEnd
  <2>1. Runs("farm_end")
    BY <1>14 DEF RunFarmEnd
  <2>2. Finish(w) \/ \E t \in SafetyPause(w) : Finish(t)
    BY <1>14 DEF RunFarmEnd
  <2> QED
    BY <1>0, <1>6, <1>10, <2>1, <2>2, QuietSelf
<1>15. CASE RunLoggedOn
  <2>1. Runs("loggedOn")
    BY <1>15 DEF RunLoggedOn
  <2>2. CASE w.desired = "running"
    <3>1. PICK manual \in {"none", "manual"} : Finish(LoggedOn(w, manual))
      BY <1>15, <2>2 DEF RunLoggedOn
    <3> DEFINE t == LoggedOn(w, manual)
    <3>2. /\ t \in Worker /\ t.desired = w.desired /\ t.paused = w.paused
          /\ t.client = w.client /\ t.connected
          /\ ~t.handled /\ t.mode = "none" /\ t.status # "connecting"
      BY <1>0, LoggedOnConnects
    <3>3. Finish(t)
      BY <3>1
    <3> HIDE DEF t
    <3>4. Turn(t) /\ Head(queue).op = "loggedOn"
      BY <1>1, <2>1, <3>2, <3>3
    <3>5. Sound(t)
      BY <1>0, <3>2 DEF Sound
    <3> QED
      BY <3>2, <3>4, <3>5, LoginRecovers
  <2>3. CASE w.desired # "running"
    <3>1. Finish(w)
      BY <1>15, <2>3 DEF RunLoggedOn
    <3>2. Turn(w) /\ Head(queue).op = "loggedOn" /\ w.status # "connecting"
      BY <1>0, <1>1, <2>1, <2>3, <3>1 DEF Sound
    <3> QED
      BY <1>0, <2>3, <3>2, LoginRecovers
  <2> QED
    BY <2>2, <2>3
<1>16. CASE RunPlayingState
  <2>1. CASE Head(queue).op = "blocked"
    <3> DEFINE t == PlayingBlocked(w)
    <3>1. Halted(w, t) \/ Blocked(w, t)
      BY <1>0, PlayingBlockedCases
    <3>2. Finish(t) /\ Runs("blocked")
      BY <1>16, <2>1 DEF RunPlayingState, Runs
    <3> HIDE DEF t
    <3>3. Turn(t)
      BY <1>1, <3>1, <3>2 DEF Halted, Blocked
    <3>4. Head(queue).op \notin Losses \cup {"stop", "loggedOn"}
      BY <2>1 DEF Losses
    <3> QED
      BY <2>1, <3>1, <3>3, <3>4, HaltedRecovers, BlockedRecovers
  <2>2. CASE Head(queue).op # "blocked"
    <3>1. PICK manual \in {"none", "manual"} : Finish(PlayingFree(w, manual))
      BY <1>16, <2>2 DEF RunPlayingState
    <3>2. Runs("free") /\ Head(queue).op = "free" /\ Head(queue).live
      BY <1>16, <2>2 DEF RunPlayingState, Runs
    <3> DEFINE t == PlayingFree(w, manual)
    <3>3. \/ Halted(w, t) \/ Freed(w, t)
          \/ Quiet(w, t) /\ t.status = w.status /\ t.farming = w.farming
      BY <1>0, PlayingFreeCases
    <3>4. Finish(t)
      BY <3>1
    <3> HIDE DEF t
    <3>5. Turn(t)
      BY <1>1, <3>2, <3>3, <3>4 DEF Halted, Freed, Quiet
    <3>6. /\ Head(queue).op \notin Losses \cup {"stop", "loggedOn"}
          /\ Head(queue).op # "auto_start" /\ Head(queue).op \notin Timers
      BY <3>2 DEF Losses, Timers
    <3> QED
      BY <3>2, <3>3, <3>5, <3>6, HaltedRecovers, FreedRecovers, QuietRecovers
  <2> QED
    BY <2>1, <2>2
<1>17. CASE RunDisconnected \/ RunError
  <2>1. PICK op \in Losses : Runs(op)
    BY <1>17 DEF RunDisconnected, RunError, Losses
  <2>2. Head(queue).op = op /\ Head(queue).arg \in Failures
    <3>1. Head(queue) \in Item /\ Head(queue).op = op
      BY <2>1, RunsFacts
    <3> QED
      BY <3>1 DEF Item, Losses
  <2>3. PICK resumes \in BOOLEAN :
          \E t \in {Disconnected(w, Head(queue).arg, resumes),
                    ClientError(w, Head(queue).arg, resumes)} : Finish(t)
    BY <1>17 DEF RunDisconnected, RunError
  <2> PICK t \in {Disconnected(w, Head(queue).arg, resumes),
                  ClientError(w, Head(queue).arg, resumes)} : Finish(t)
    BY <2>3
  <2>4. ~t.connected /\ (Halted(w, t) \/ LostRunning(w, t))
    BY <1>0, <2>2, LossCases
  <2>5. Turn(t)
    BY <1>1, <2>1, <2>4 DEF Halted, LostRunning
  <2> QED
    BY <2>2, <2>4, <2>5, HaltedRecovers, LostRecovers
<1>18. CASE RunReconnect
  <2>1. Runs("reconnect") /\ Head(queue).op = "reconnect"
    BY <1>18 DEF RunReconnect, Runs
  <2>2. CASE TimerCounts
    <3>1. PICK token \in BOOLEAN : Finish(StartNow(w, token))
      BY <1>18, <2>2 DEF RunReconnect
    <3> DEFINE t == StartNow(w, token)
    <3>2. \/ Busy(w) /\ t = w
          \/ ~Busy(w) /\ Quiet(w, t) /\ t.status = "login_required"
          \/ ~Busy(w) /\ LoggingOn(w, t)
      BY <1>0, StartNowCases
    <3>3. Finish(t)
      BY <3>1
    <3> HIDE DEF t
    <3>4. Turn(t)
      BY <1>0, <1>1, <2>1, <3>2, <3>3 DEF Quiet, LoggingOn
    <3>5. Head(queue).op \notin Losses \cup {"stop", "loggedOn"}
      BY <2>1 DEF Losses
    <3> QED
      BY <1>0, <3>2, <3>4, <3>5, QuietSelf, StartRecovers
  <2>3. CASE ~TimerCounts
    <3>1. Finish(w) /\ (w.desired # "running" \/ ~Head(queue).live)
      BY <1>18, <2>3 DEF RunReconnect, TimerCounts
    <3> QED
      BY <1>3, <2>1, <3>1 DEF Timers
  <2> QED
    BY <2>2, <2>3
<1>19. CASE RunConflictRetry
  <2>1. PICK op \in Retries : Runs(op)
    BY <1>19 DEF RunConflictRetry, Retries
  <2>2. Head(queue).op = op /\ phase = "up" /\ queue # <<>>
    BY <2>1 DEF Runs
  <2>3. CASE TimerCounts
    <3>1. PICK cooldown \in BOOLEAN, token \in BOOLEAN, manual \in {"none", "manual"} :
            Finish(RetrySessionConflict(w, cooldown, token, manual))
      BY <1>19, <2>3 DEF RunConflictRetry
    <3> DEFINE t == RetrySessionConflict(w, cooldown, token, manual)
    <3>2. \/ w.mode = "live" /\ ~w.blocked
          \/ Rearmed(w, t)
          \/ Busy(w) /\ Quiet(w, t) /\ t.status = w.status /\ t.farming = w.farming
          \/ Quiet(w, t) /\ t.status = "login_required"
          \/ LoggingOn(w, t)
      BY <1>0, RetrySessionConflictCases
    <3>3. Finish(t)
      BY <3>1
    <3> HIDE DEF t
    <3>4. Live(queue, Retries)
      BY <2>2, <2>3, TailKeeps DEF TimerCounts, IInv, TypeOK
    <3>5. ~(w.mode = "live" /\ ~w.blocked)
      BY <2>2, <2>3, <3>4 DEF TimerCounts, RInv, Recoverable, RetryIsBlocked
    <3>6. Turn(t)
      BY <1>1, <2>1, <3>2, <3>3, <3>5 DEF Rearmed, Quiet, LoggingOn
    <3>7. Head(queue).op \notin Losses \cup {"stop", "loggedOn"}
      BY <2>2 DEF Losses, Retries
    <3> QED
      BY <2>2, <3>2, <3>5, <3>6, <3>7, RearmedRecovers, StartRecovers
  <2>4. CASE ~TimerCounts
    <3>1. Finish(w) /\ (w.desired # "running" \/ ~Head(queue).live)
      BY <1>19, <2>4 DEF RunConflictRetry, TimerCounts
    <3> QED
      BY <1>3, <2>1, <3>1 DEF Timers, Retries
  <2> QED
    BY <2>3, <2>4
<1> QED
  BY <1>4, <1>5, <1>7, <1>8, <1>9, <1>11, <1>12, <1>13, <1>14, <1>15, <1>16, <1>17,
     <1>18, <1>19, IgnoredRecovers, ImportRecovers, ImportEndRecovers DEF Runner

(***************************************************************************)
(* What reaches the queue                                                  *)
(***************************************************************************)

\* Nothing has been told to a worker whose queue may grow, and no boot waits in it.
LEMMA SettledFacts ==
    ASSUME IInv, RInv, phase = "up", Settled
    PROVE  /\ ~In(queue, Logins)
           /\ ~(queue # <<>> /\ ~importing)
           /\ Recoverable(w, queue, lapses, importing)
  BY EmptyKeeps DEF Settled, RInv, Recoverable, LoginFirst

\* An operation is queued, behind a queue whose intent has not changed.
LEMMA QueuedRecovers ==
    ASSUME IInv, RInv, phase = "up", Settled,
           w' \in Worker, Quiet(w, w'), w'.status = w.status,
           w'.farming \in {w.farming, "off"},
           NEW q \in Seq(Item), LossIsLast(q),
           \A ops : In(q, ops) <=> In(queue, ops),
           \A ops \in SUBSET (Events \cup Timers) : Live(q, ops) <=> Live(queue, ops),
           NEW x \in Item, x.op \in Commands \cup Services \cup Farming,
           queue' = Append(q, x),
           importing' = importing, phase' = phase, lapses' = lapses
    PROVE  RInv'
<1>1. /\ ~In(queue, Logins) /\ ~(queue # <<>> /\ ~importing)
      /\ Recoverable(w, queue, lapses, importing) /\ Sound(w)
  BY SettledFacts DEF RInv
<1>2. x.op \notin Logins \cup Losses \cup Timers \cup Retries \cup {"free"}
  BY DEF Commands, Services, Farming, Logins, Losses, Timers, Retries
<1>3. /\ LossIsLast(queue')
      /\ \A ops : In(queue', ops) <=> In(q, ops) \/ x.op \in ops
      /\ \A ops : Live(queue', ops) <=> Live(q, ops) \/ (x.op \in ops /\ x.live)
  BY <1>2, AppendKeeps
<1>4. /\ ~In(queue', Logins)
      /\ In(queue', Losses) <=> In(queue, Losses)
      /\ Live(queue', Retries) <=> Live(queue, Retries)
      /\ Live(queue', Timers) <=> Live(queue, Timers)
      /\ Live(queue', {"free"}) <=> Live(queue, {"free"})
  BY <1>1, <1>2, <1>3, Kinds
<1>5. Sound(w')
  BY <1>1 DEF Sound, Quiet, SameConflict
<1>6. LoginFirst(w', queue', importing')
  BY <1>4 DEF LoginFirst
<1>7. /\ Reachable(w', queue', lapses') /\ Answered(w', queue', lapses')
      /\ ConflictKept(w', queue', lapses') /\ RetryIsBlocked(w', queue')
      /\ FreeIsHeard(w', queue', lapses') /\ LoginIsKnown(w', queue', lapses')
  BY <1>1, <1>4
  DEF Recoverable, Reachable, Answered, ConflictKept, RetryIsBlocked, FreeIsHeard,
      LoginIsKnown, Quiet, SameTimers, SameConflict, Retrying
<1>8. Hope(w', queue', lapses', importing')
  BY <1>1, <1>4 DEF Recoverable, Hope, Quiet, SameTimers, Retrying, Backing
<1> QED
  BY <1>3, <1>5, <1>6, <1>7, <1>8 DEF RInv, Recoverable

\* A timer that fires waits in the queue from then on.
LEMMA FiredRecovers ==
    ASSUME IInv, RInv, phase = "up", Settled,
           w' \in Worker, SameSession(w, w'), SameConflict(w, w'),
           w'.status = w.status, w'.farming = w.farming,
           NEW x \in Item, x.op \in Timers, queue' = Append(queue, x),
           \/ /\ x.op \notin Retries /\ w'.conflict = w.conflict
              /\ Backing(w) => x.live
           \/ /\ x.op \in Retries /\ w'.reconnect = w.reconnect
              /\ ~Retrying(w')
              /\ x.live <=> Retrying(w),
           importing' = importing, phase' = phase, lapses' = lapses
    PROVE  RInv'
<1>0. queue \in Seq(Item)
  BY DEF IInv, TypeOK
<1>1. /\ ~In(queue, Logins) /\ ~(queue # <<>> /\ ~importing)
      /\ Recoverable(w, queue, lapses, importing) /\ Sound(w)
  BY SettledFacts DEF RInv
<1>2. x.op \notin Logins \cup Losses \cup {"free"}
  BY DEF Logins, Losses, Timers
<1>3. /\ LossIsLast(queue')
      /\ \A ops : In(queue', ops) <=> In(queue, ops) \/ x.op \in ops
      /\ \A ops : Live(queue', ops) <=> Live(queue, ops) \/ (x.op \in ops /\ x.live)
  BY <1>0, <1>1, <1>2, AppendKeeps DEF Recoverable
<1>4. /\ ~In(queue', Logins)
      /\ In(queue', Losses) <=> In(queue, Losses)
      /\ Live(queue', Retries) <=> Live(queue, Retries) \/ (x.op \in Retries /\ x.live)
      /\ Live(queue', Timers) <=> Live(queue, Timers) \/ x.live
      /\ Live(queue', {"free"}) <=> Live(queue, {"free"})
  BY <1>1, <1>2, <1>3
<1>5. Sound(w')
  BY <1>1 DEF Sound, SameSession, SameConflict
<1>6. LoginFirst(w', queue', importing')
  BY <1>4 DEF LoginFirst
<1>7. /\ Reachable(w', queue', lapses') /\ Answered(w', queue', lapses')
      /\ FreeIsHeard(w', queue', lapses') /\ LoginIsKnown(w', queue', lapses')
  BY <1>1, <1>4
  DEF Recoverable, Reachable, Answered, FreeIsHeard, LoginIsKnown, SameSession
<1>8. Retrying(w') \/ Live(queue', Retries) <=> Retrying(w) \/ Live(queue, Retries)
  BY <1>4 DEF Retrying
<1>9. ConflictKept(w', queue', lapses') /\ RetryIsBlocked(w', queue')
  BY <1>1, <1>8
  DEF Recoverable, ConflictKept, RetryIsBlocked, SameSession, SameConflict
<1>10. Backing(w) \/ Retrying(w) \/ Live(queue, Timers) =>
         Backing(w') \/ Retrying(w') \/ Live(queue', Timers)
  BY <1>4 DEF Backing, Retrying
<1>11. Hope(w', queue', lapses', importing')
  BY <1>1, <1>4, <1>10 DEF Recoverable, Hope, SameSession
<1> QED
  BY <1>3, <1>5, <1>6, <1>7, <1>9, <1>11 DEF RInv, Recoverable

LEMMA ArrivalRecovers ==
    ASSUME IInv, RInv, Arrival
    PROVE  RInv'
<1>0. w \in Worker /\ queue \in Seq(Item)
  BY DEF IInv, TypeOK
<1>1. ASSUME NEW op \in Requests, Command(op)
      PROVE  RInv'
  <2> DEFINE t == ClearFarmingSelection(w, FALSE)
             r == Restamp(queue, FALSE, TRUE)
             x == Op(op, "none")
  <2>1. /\ w' = t /\ queue' = Append(r, x) /\ phase = "up" /\ Settled
        /\ importing' = importing /\ phase' = phase
        /\ lapses' = lapses /\ op \in Commands
    BY <1>1 DEF Command
  <2>2. Quiet(w, t) /\ t.status = w.status /\ t.farming = "off"
    BY <1>0, ClearFarmingSelectionKeeps
  <2>3. /\ r \in Seq(Item)
        /\ LossIsLast(queue) => LossIsLast(r)
        /\ \A ops : In(r, ops) <=> In(queue, ops)
        /\ \A ops : Live(r, ops) => Live(queue, ops)
        /\ \A ops \in SUBSET (Events \cup Timers) : Live(queue, ops) => Live(r, ops)
    BY <1>0, RestampKeeps
  <2>4. LossIsLast(queue)
    BY <2>1 DEF RInv, Recoverable
  <2>5. x \in Item /\ x.op \in Commands
    BY <2>1 DEF Op, Item, Commands
  <2> HIDE DEF t, r, x
  <2> QED
    BY <2>1, <2>2, <2>3, <2>4, <2>5, QueuedRecovers DEF Quiet
<1>2. ASSUME NEW op \in Requests, ServiceRequest(op)
      PROVE  RInv'
  <2> DEFINE x == Op(op, "none")
  <2>1. /\ w' = w /\ queue' = Append(queue, x) /\ phase = "up" /\ Settled
        /\ importing' = importing /\ phase' = phase
        /\ lapses' = lapses /\ op \in Services \cup Farming
    BY <1>2, RequestsAssumption DEF ServiceRequest
  <2>2. x \in Item /\ x.op \in Services \cup Farming
    BY <2>1 DEF Op, Item, Services, Farming
  <2>3. LossIsLast(queue)
    BY <2>1 DEF RInv, Recoverable
  <2> HIDE DEF x
  <2> QED
    BY <1>0, <2>1, <2>2, <2>3, QuietSelf, QueuedRecovers
<1>3. CASE ReconnectTimerFires
  <2> DEFINE t == [w EXCEPT !.reconnect = "off"]
             x == [op |-> "reconnect", arg |-> "none", live |-> w.reconnect = "live"]
  <2>1. /\ t \in Worker /\ SameSession(w, t) /\ SameConflict(w, t)
        /\ t.status = w.status /\ t.farming = w.farming /\ t.conflict = w.conflict
    BY <1>0 DEF Worker, SameSession, SameConflict
  <2>2. x \in Item /\ x.op \in Timers /\ x.op \notin Retries /\ (Backing(w) => x.live)
    BY DEF Item, Timers, Retries, Backing
  <2>3. /\ w' = t /\ queue' = Append(queue, x) /\ phase = "up" /\ Settled
        /\ importing' = importing /\ phase' = phase /\ lapses' = lapses
    BY <1>3 DEF ReconnectTimerFires
  <2> HIDE DEF t, x
  <2> QED
    BY <2>1, <2>2, <2>3, FiredRecovers
<1>4. CASE ConflictTimerFires
  <2> DEFINE t == [w EXCEPT !.conflict = "off"]
             o == IF w.conflict = "cooldown" THEN "cooldown" ELSE "retry"
             x == [op |-> o, arg |-> "none", live |-> w.conflict # "stale"]
  <2>1. /\ t \in Worker /\ SameSession(w, t) /\ SameConflict(w, t)
        /\ t.status = w.status /\ t.farming = w.farming /\ t.reconnect = w.reconnect
        /\ ~Retrying(t)
    BY <1>0 DEF Worker, SameSession, SameConflict, Retrying
  <2>2. o \in Retries /\ o \in Timers
    BY DEF Timers, Retries
  <2>3. x \in Item /\ x.op \in Timers /\ x.op \in Retries
    <3> HIDE DEF o
    <3> QED
      BY <2>2 DEF Item, Timers
  <2>4. /\ w' = t /\ queue' = Append(queue, x) /\ phase = "up" /\ Settled
        /\ importing' = importing /\ phase' = phase /\ lapses' = lapses
        /\ w.conflict # "off"
    BY <1>4 DEF ConflictTimerFires
  <2>5. x.live <=> Retrying(w)
    BY <1>0, <2>4 DEF Retrying, Worker
  <2> HIDE DEF t, o, x
  <2> QED
    BY <2>1, <2>3, <2>4, <2>5, FiredRecovers
<1> QED
  BY <1>1, <1>2, <1>3, <1>4 DEF Arrival

(***************************************************************************)
(* Steam                                                                   *)
(***************************************************************************)

LEMMA ClientKeeps ==
    ASSUME NEW from, NEW to \in {"on", "off"}, Client(from, to), w \in Worker, Sound(w)
    PROVE  /\ w.client = from /\ w'.client = to
           /\ w'.desired = w.desired /\ w'.connected = w.connected
           /\ w'.status = w.status
           /\ SameTimers(w, w') /\ SameConflict(w, w') /\ Sound(w')
<1>1. w' = [w EXCEPT !.client = to, !.playing = "none"] /\ w.client = from
  BY DEF Client
<1>2. /\ w'.client = to
      /\ w'.desired = w.desired /\ w'.connected = w.connected
      /\ w'.status = w.status /\ w'.paused = w.paused /\ w'.farming = w.farming
      /\ SameTimers(w, w') /\ SameConflict(w, w')
  BY <1>1 DEF Worker, SameTimers, SameConflict
<1>3. Sound(w')
  BY <1>2 DEF Sound, SameConflict
<1> QED
  BY <1>1, <1>2, <1>3

LEMMA EmitKeeps ==
    ASSUME IInv, RInv, NEW items \in Seq(Item), Emit(items), phase = "up"
    PROVE  /\ \A ops : In(queue', ops) <=> In(queue, ops) \/ In(items, ops)
           /\ \A ops : Live(queue', ops) <=> Live(queue, ops) \/ Live(items, ops)
           /\ ~In(items, {"free"}) => LossIsLast(queue')
           /\ ~In(queue, Losses) /\ ~In(items, Losses) => LossIsLast(queue')
           /\ ~In(queue, Logins)
           /\ ~(queue # <<>> /\ ~importing)
           /\ Recoverable(w, queue, lapses, importing)
<1>1. queue' = queue \o items /\ Settled /\ queue \in Seq(Item)
  BY DEF Emit, IInv, TypeOK
<1>2. /\ ~In(queue, Logins)
      /\ ~(queue # <<>> /\ ~importing)
      /\ Recoverable(w, queue, lapses, importing)
  BY <1>1, SettledFacts
<1>3. /\ \A ops : In(queue', ops) <=> In(queue, ops) \/ In(items, ops)
      /\ \A ops : Live(queue', ops) <=> Live(queue, ops) \/ Live(items, ops)
      /\ LossIsLast(queue) /\ ~In(items, {"free"}) => LossIsLast(queue')
      /\ ~In(queue, Losses) /\ ~In(items, Losses) => LossIsLast(queue')
  BY <1>1, ConcatKeeps
<1> QED
  BY <1>2, <1>3 DEF Recoverable

\* The client reports that it has no session.
LEMMA LossRecovers ==
    ASSUME IInv, RInv, NEW items \in Seq(Item), Emit(items),
           NEW from, Client(from, "off"),
           items # <<>>, \A i \in DOMAIN items : items[i].op \in Losses
    PROVE  RInv'
<1>1. /\ w'.client = "off"
      /\ w'.desired = w.desired /\ w'.connected = w.connected /\ w'.status = w.status
      /\ SameTimers(w, w') /\ SameConflict(w, w') /\ Sound(w')
  BY ClientKeeps DEF IInv, TypeOK, RInv
<1>2. importing' = importing /\ phase' = phase /\ lapses' = lapses
  BY EmitFacts
<1>3. SUFFICES ASSUME phase = "up"
               PROVE  Recoverable(w', queue', lapses', importing')
  BY <1>1, <1>2 DEF RInv
<1>4. /\ In(items, Losses) /\ ~In(items, {"free"}) /\ ~In(items, Logins)
      /\ ~Live(items, Retries)
  <2>1. 1 \in DOMAIN items
    OBVIOUS
  <2>2. Losses \cap (Logins \cup Retries \cup {"free"}) = {}
    BY DEF Losses, Logins, Retries
  <2> QED
    BY <2>1, <2>2 DEF In, Live
<1>5. /\ In(queue', Losses) /\ ~In(queue', Logins) /\ LossIsLast(queue')
      /\ Live(queue', Retries) <=> Live(queue, Retries)
      /\ Recoverable(w, queue, lapses, importing)
  BY <1>3, <1>4, EmitKeeps
<1>6. LoginFirst(w', queue', importing')
  BY <1>5 DEF LoginFirst
<1>7. /\ Reachable(w', queue', lapses') /\ Answered(w', queue', lapses')
      /\ FreeIsHeard(w', queue', lapses') /\ LoginIsKnown(w', queue', lapses')
      /\ Hope(w', queue', lapses', importing')
  BY <1>1, <1>5 DEF Reachable, Answered, FreeIsHeard, LoginIsKnown, Hope
<1>8. ConflictKept(w', queue', lapses') /\ RetryIsBlocked(w', queue')
  BY <1>1, <1>2, <1>5
  DEF Recoverable, ConflictKept, RetryIsBlocked, SameTimers, SameConflict, Retrying
<1> QED
  BY <1>5, <1>6, <1>7, <1>8 DEF Recoverable

\* Steam tells a client of the other session.
LEMMA ToldRecovers ==
    ASSUME IInv, RInv, NEW items \in Seq(Item), Emit(items), w' = w,
           \A i \in DOMAIN items : items[i].op \in {"free", "blocked"},
           items # <<>> => w.client = "on"
    PROVE  RInv'
<1>1. importing' = importing /\ phase' = phase /\ lapses' = lapses
  BY EmitFacts
<1>2. SUFFICES ASSUME phase = "up"
               PROVE  Recoverable(w, queue', lapses, importing)
  BY <1>1 DEF RInv
<1>3. /\ ~In(items, Losses) /\ ~In(items, Logins)
      /\ ~Live(items, Retries) /\ ~Live(items, Timers)
      /\ Live(items, {"free"}) => w.client = "on"
      /\ items = <<>> => ~In(items, {"free"})
  <2>1. {"free", "blocked"} \cap (Logins \cup Losses \cup Retries \cup Timers) = {}
    BY DEF Losses, Logins, Retries, Timers
  <2>2. items = <<>> => DOMAIN items = {}
    OBVIOUS
  <2> QED
    BY <2>1, <2>2 DEF In, Live
<1>4. /\ In(queue', Losses) <=> In(queue, Losses)
      /\ ~In(queue', Logins)
      /\ Live(queue', Retries) <=> Live(queue, Retries)
      /\ Live(queue', Timers) <=> Live(queue, Timers)
      /\ Live(queue', {"free"}) => w.client = "on" \/ Live(queue, {"free"})
      /\ ~In(queue, Logins) /\ ~(queue # <<>> /\ ~importing)
      /\ Recoverable(w, queue, lapses, importing)
  BY <1>2, <1>3, EmitKeeps
<1>5. LossIsLast(queue')
  <2>1. CASE items = <<>>
    BY <1>2, <1>3, <2>1, EmitKeeps
  <2>2. CASE items # <<>>
    <3>1. In(queue, Losses) => LossIn(queue)
      BY DEF In, LossIn, Losses
    <3>2. ~In(queue, Losses)
      BY <1>2, <2>2, <3>1 DEF IInv, WhileUp
    <3> QED
      BY <1>2, <1>3, <3>2, EmitKeeps
  <2> QED
    BY <2>1, <2>2
<1>6. LoginFirst(w, queue', importing)
  BY <1>4 DEF LoginFirst
<1>7. /\ Reachable(w, queue', lapses) /\ Answered(w, queue', lapses)
      /\ ConflictKept(w, queue', lapses) /\ RetryIsBlocked(w, queue')
      /\ FreeIsHeard(w, queue', lapses) /\ LoginIsKnown(w, queue', lapses)
      /\ Hope(w, queue', lapses, importing)
  BY <1>4
  DEF Recoverable, Reachable, Answered, ConflictKept, RetryIsBlocked, FreeIsHeard,
      LoginIsKnown, Hope
<1> QED
  BY <1>5, <1>6, <1>7 DEF Recoverable

LEMMA AcceptedRecovers ==
    ASSUME IInv, RInv, LogOnAccepted
    PROVE  RInv'
<1> DEFINE x == Op("loggedOn", "none")
           y == IF elsewhere THEN <<Op("blocked", "none")>> ELSE <<>>
           items == <<x>> \o y
<1>1. Client("connecting", "on") /\ Emit(items)
  BY DEF LogOnAccepted
<1>2. x \in Item /\ x.op \in Logins /\ x.live
  BY DEF Op, Item, Events, Logins
<1>3. y \in Seq(Item) /\ \A i \in DOMAIN y : y[i].op = "blocked"
  <2>1. Op("blocked", "none") \in Item /\ Op("blocked", "none").op = "blocked"
    BY DEF Op, Item, Events
  <2> QED
    BY <2>1
<1> HIDE DEF x, y
<1>4. /\ items \in Seq(Item) /\ items # <<>> /\ Head(items) = x /\ Tail(items) = y
  BY <1>2, <1>3
<1> HIDE DEF items
<1>5. /\ w.client = "connecting" /\ w'.client = "on"
      /\ w'.desired = w.desired /\ w'.connected = w.connected /\ w'.status = w.status
      /\ SameTimers(w, w') /\ SameConflict(w, w') /\ Sound(w')
  BY <1>1, ClientKeeps DEF IInv, TypeOK, RInv
<1>6. importing' = importing /\ phase' = phase /\ lapses' = lapses
  BY <1>1, <1>4, EmitFacts
<1>7. SUFFICES ASSUME phase = "up"
               PROVE  Recoverable(w', queue', lapses', importing')
  BY <1>5, <1>6 DEF RInv
<1>8. queue = <<>> /\ ~importing
  BY <1>1, <1>4, <1>5, <1>7, EmitFacts DEF IInv, WhileUp
<1>9. queue' = items
  <2>1. queue' = queue \o items
    BY <1>1, <1>7 DEF Emit
  <2> QED
    BY <1>4, <1>8, <2>1
<1>10. /\ ~In(y, Logins) /\ ~In(y, Losses) /\ ~Live(y, Retries)
  <2>1. "blocked" \notin Logins \cup Losses \cup Retries
    BY DEF Losses, Logins, Retries
  <2> QED
    BY <1>3, <2>1 DEF In, Live
<1>11. /\ In(items, Logins) /\ ~In(items, Losses) /\ ~Live(items, Retries)
  <2>1. x.op \notin Losses \cup Retries
    BY <1>2 DEF Losses, Logins, Retries
  <2> QED
    BY <1>2, <1>4, <1>10, <2>1, TailKeeps
<1>12. LossIsLast(queue')
  BY <1>9, <1>11 DEF LossIsLast, In
<1>13. LoginFirst(w', queue', importing')
  BY <1>2, <1>4, <1>5, <1>6, <1>8, <1>9, <1>10 DEF LoginFirst
<1>14. /\ Reachable(w', queue', lapses') /\ Answered(w', queue', lapses')
       /\ FreeIsHeard(w', queue', lapses') /\ LoginIsKnown(w', queue', lapses')
       /\ Hope(w', queue', lapses', importing')
  BY <1>5, <1>9, <1>11 DEF Reachable, Answered, FreeIsHeard, LoginIsKnown, Hope
<1>15. ConflictKept(w', queue', lapses') /\ RetryIsBlocked(w', queue')
  <2>1. Recoverable(w, queue, lapses, importing) /\ ~Live(queue, Retries)
    BY <1>7, <1>8, EmptyKeeps DEF RInv
  <2> QED
    BY <1>5, <1>6, <1>9, <1>11, <2>1
    DEF Recoverable, ConflictKept, RetryIsBlocked, SameTimers, SameConflict, Retrying
<1> QED
  BY <1>12, <1>13, <1>14, <1>15 DEF Recoverable

LEMMA SteamRecovers ==
    ASSUME IInv, RInv, Steam
    PROVE  RInv'
<1>1. ASSUME NEW failure \in Failures, NEW items \in LossReports(failure)
      PROVE  /\ items \in Seq(Item) /\ items # <<>>
             /\ \A i \in DOMAIN items : items[i].op \in Losses
  <2>1. items \in Seq(Item)
    BY <1>1, LossReportsFacts
  <2>2. \/ items = <<Op("error", failure)>> \/ items = <<Op("disconnected", failure)>>
        \/ \E second : items = <<Op("error", failure), Op("disconnected", second)>>
    BY <1>1 DEF LossReports
  <2>3. \A f : Op("error", f).op \in Losses /\ Op("disconnected", f).op \in Losses
    BY DEF Op, Losses
  <2>4. ASSUME NEW x, NEW y, x.op \in Losses, y.op \in Losses
        PROVE  /\ <<x>> # <<>> /\ <<x, y>> # <<>>
               /\ \A i \in DOMAIN <<x>> : <<x>>[i].op \in Losses
               /\ \A i \in DOMAIN <<x, y>> : <<x, y>>[i].op \in Losses
    BY <2>4
  <2> QED
    BY <2>1, <2>2, <2>3, <2>4
<1>2. CASE LogOnFails \/ SessionDrops
  <2>1. PICK from : Client(from, "off")
    BY <1>2 DEF LogOnFails, SessionDrops
  <2>2. PICK failure \in Failures : \E items \in LossReports(failure) : Emit(items)
    BY <1>2 DEF LogOnFails, SessionDrops
  <2>3. PICK items \in LossReports(failure) : Emit(items)
    BY <2>2
  <2> QED
    BY <1>1, <2>1, <2>3, LossRecovers
<1>3. CASE LogOffCompletes \/ LogOnRefused
  <2>1. /\ Client("leaving", "off") \/ Client("refused", "off")
        /\ \/ Emit(<<Op("disconnected", "transient")>>)
           \/ Emit(<<Op("error", "transient")>>)
    BY <1>3 DEF LogOffCompletes, LogOnRefused
  <2> PICK from \in {"leaving", "refused"} : Client(from, "off")
    BY <2>1
  <2> PICK op \in {"disconnected", "error"} : Emit(<<Op(op, "transient")>>)
    BY <2>1
  <2> DEFINE x == Op(op, "transient")
             items == <<x>>
  <2>2. x \in Item /\ x.op \in Losses
    BY DEF Op, Item, Failures, Losses, Events
  <2> HIDE DEF x
  <2>3. /\ items \in Seq(Item) /\ items # <<>>
        /\ \A i \in DOMAIN items : items[i].op \in Losses
    BY <2>2
  <2>4. Emit(items)
    BY DEF x
  <2> HIDE DEF items
  <2> QED
    BY <2>3, <2>4, LossRecovers
<1>4. CASE OtherSessionChanges \/ GamesRefused
  <2>1. PICK items : /\ Emit(items) /\ w' = w
                     /\ \/ items = <<>>
                        \/ /\ w.client = "on"
                           /\ \E op \in {"free", "blocked"} : items = <<Op(op, "none")>>
    BY <1>4 DEF OtherSessionChanges, GamesRefused
  <2>2. ASSUME NEW op \in {"free", "blocked"}
        PROVE  Op(op, "none") \in Item /\ Op(op, "none").op \in {"free", "blocked"}
    BY DEF Op, Item, Events
  <2>3. ASSUME NEW x \in Item, x.op \in {"free", "blocked"}
        PROVE  /\ <<x>> \in Seq(Item)
               /\ \A i \in DOMAIN <<x>> : <<x>>[i].op \in {"free", "blocked"}
    BY <2>3
  <2>4. <<>> \in Seq(Item) /\ \A i \in DOMAIN <<>> : FALSE
    OBVIOUS
  <2>5. /\ items \in Seq(Item)
        /\ \A i \in DOMAIN items : items[i].op \in {"free", "blocked"}
        /\ items # <<>> => w.client = "on"
    BY <2>1, <2>2, <2>3, <2>4
  <2> QED
    BY <2>1, <2>5, ToldRecovers
<1> QED
  BY <1>2, <1>3, <1>4, AcceptedRecovers DEF Steam

(***************************************************************************)
(* The process                                                             *)
(***************************************************************************)

LEMMA RebornKeeps ==
    ASSUME NEW s \in Worker
    PROVE  LET t == Reborn(s)
           IN /\ t.desired = s.desired /\ t.status = s.status /\ t.farming = "off"
              /\ t.connected = FALSE /\ t.paused = FALSE /\ t.handled = FALSE
              /\ t.client = "off" /\ t.mode = "none"
<1> DEFINE a == ClearFarmingSelection(s, FALSE)
           b == ClearRetryTimers(a)
           c == ResetSessionConflict(b)
<1>1. a \in Worker /\ a.desired = s.desired /\ a.status = s.status /\ a.farming = "off"
  BY ClearFarmingSelectionKeeps DEF Quiet
<1> HIDE DEF a
<1>2. b \in Worker /\ b.desired = s.desired /\ b.status = s.status /\ b.farming = "off"
  BY <1>1, ClearRetryTimersKeeps DEF SameSession
<1> HIDE DEF b
<1>3. /\ c \in Worker /\ c.desired = s.desired /\ c.status = s.status
      /\ c.farming = "off" /\ c.handled = FALSE /\ c.mode = "none"
  BY <1>2, ResetSessionConflictKeeps DEF SameSession
<1> HIDE DEF c
<1>4. Reborn(s) = [c EXCEPT !.connected = FALSE, !.paused = FALSE, !.reported = "none",
                           !.client = "off", !.playing = "none"]
  BY DEF Reborn, a, b, c
<1> QED
  BY <1>3, <1>4 DEF Worker

\* No process that is down waits for an import.
Still == phase = "down" => ~importing

LEMMA StillNext == Still /\ [Next]_vars => Still'
<1> SUFFICES ASSUME Still, Next PROVE Still'
  BY DEF vars, Still
<1>1. CASE Runner
  <2>1. ASSUME NEW t, Finish(t), phase = "up" PROVE Still'
    BY <2>1 DEF Finish, Still
  <2>2. CASE RunIgnoredEvent \/ RunImport \/ ImportEnds
    BY <2>2 DEF RunIgnoredEvent, RunImport, ImportEnds, Runs, Still
  <2> QED
    BY <1>1, <2>1, <2>2
    DEF Runner, Runs, RunStart, RunStop, RunPause, RunSafetyPause, RunResume, RunUpdate,
        RunFarmResume, RunFarmSelection, RunFarmEnd, RunLoggedOn, RunPlayingState,
        RunDisconnected, RunError, RunReconnect, RunConflictRetry
<1>2. CASE Arrival
  BY <1>2 DEF Arrival, Command, ServiceRequest, ReconnectTimerFires, ConflictTimerFires,
              Still
<1>3. CASE Steam
  <2>1. ASSUME NEW items, Emit(items) PROVE Still'
    BY <2>1 DEF Emit, Still
  <2> QED
    BY <1>3, <2>1 DEF Steam, LogOnAccepted, LogOnFails, SessionDrops, LogOffCompletes,
                      LogOnRefused, OtherSessionChanges, GamesRefused
<1>4. CASE Process
  BY <1>4 DEF Process, BeginShutdown, FinishShutdown, Crash, Boot, Still
<1> QED
  BY <1>1, <1>2, <1>3, <1>4 DEF Next

LEMMA ProcessRecovers ==
    ASSUME IInv, Still, RInv, Process
    PROVE  RInv'
<1>0. w \in Worker /\ Sound(w)
  BY DEF IInv, TypeOK, RInv
<1>1. CASE BeginShutdown
  <2> DEFINE a == ClearFarmingSelection(w, FALSE)
             b == ClearRetryTimers(a)
             c == ResetSessionConflict(b)
             d == SetDesiredState(c, "paused")
  <2>1. Quiet(w, a) /\ a.status = w.status /\ a.farming = "off"
    BY <1>0, ClearFarmingSelectionKeeps
  <2> HIDE DEF a
  <2>2. b \in Worker /\ SameSession(a, b) /\ b.status = a.status /\ b.farming = a.farming
    BY <2>1, ClearRetryTimersKeeps DEF Quiet
  <2> HIDE DEF b
  <2>3. /\ c \in Worker /\ SameSession(b, c) /\ c.handled = FALSE
        /\ c.status = b.status /\ c.farming = b.farming
    BY <2>2, ResetSessionConflictKeeps
  <2> HIDE DEF c
  <2>4. d.desired = "paused" /\ SameConflict(c, d) /\ d.status = c.status
    BY <2>3, SetDesiredStateKeeps DEF Desires
  <2> HIDE DEF d
  <2>5. w' = IF w' = d /\ w.farming # "off" THEN d ELSE c
    BY <1>1 DEF BeginShutdown, a, b, c, d
  <2>6. CASE w' = d /\ w.farming # "off"
    <3>1. Sound(d)
      BY <1>0, <2>1, <2>2, <2>3, <2>4, <2>6 DEF Sound, SameConflict
    <3> QED
      BY <1>1, <2>6, <3>1 DEF BeginShutdown, RInv
  <2>7. CASE w' = c
    <3>1. Sound(c)
      BY <1>0, <2>1, <2>2, <2>3 DEF Sound, Quiet, SameSession
    <3> QED
      BY <1>1, <2>7, <3>1 DEF BeginShutdown, RInv
  <2> QED
    BY <2>5, <2>6, <2>7
<1>2. CASE FinishShutdown
  <2> DEFINE a == ReportGames(w, "none")
             lost == [a EXCEPT !.connected = FALSE]
             b == [lost EXCEPT !.client = "off"]
             c == SetStatus(b, "disconnected")
  <2>1. Quiet(w, a)
    BY <1>0, ReportGamesKeeps, Literals
  <2> HIDE DEF a
  <2>2. /\ b \in Worker /\ b.desired = a.desired /\ b.paused = a.paused
        /\ b.connected = FALSE
    <3>1. /\ lost \in Worker /\ lost.desired = a.desired /\ lost.paused = a.paused
          /\ lost.connected = FALSE
      BY <2>1 DEF Quiet, Worker
    <3> HIDE DEF lost
    <3> QED
      BY <3>1 DEF Worker
  <2>3. w' = c
    BY <1>2 DEF FinishShutdown, a, lost, b
  <2> HIDE DEF b
  <2>4. Quiet(b, c) /\ c.status = "disconnected"
    BY <2>2, SetStatusKeeps, Literals
  <2> HIDE DEF c
  <2>5. Sound(c)
    BY <1>0, <2>1, <2>2, <2>4 DEF Sound, Quiet
  <2> QED
    BY <1>2, <2>3, <2>5 DEF FinishShutdown, RInv
<1>3. Sound(Reborn(w))
  BY <1>0, RebornKeeps DEF Sound
<1>4. CASE Crash
  BY <1>3, <1>4 DEF Crash, RInv
<1>5. CASE Boot
  <2> DEFINE t == Reborn(w)
             x == Op("auto_start", "none")
  <2>1. /\ t.desired = w.desired /\ t.status = w.status
        /\ t.connected = FALSE /\ t.handled = FALSE /\ t.client = "off" /\ t.mode = "none"
    BY <1>0, RebornKeeps
  <2>2. /\ w' = t /\ importing' = importing /\ phase' = "up"
        /\ \/ /\ queue' = <<x>>
              /\ lapses' = IF w.status = "connecting" THEN {"boot"} ELSE {}
           \/ queue' = <<>> /\ lapses' = {"held"}
    BY <1>5 DEF Boot
  <2> HIDE DEF t
  <2>3. x.op = "auto_start" /\ x.live
    BY DEF Op
  <2> HIDE DEF x
  <2>4. \A i \in DOMAIN queue' : queue'[i].op = "auto_start"
    BY <2>2, <2>3
  <2>5. /\ ~In(queue', Logins) /\ ~In(queue', Losses)
        /\ ~Live(queue', Retries) /\ ~Live(queue', {"free"})
    <3>1. "auto_start" \notin Logins \cup Losses \cup Retries \cup {"free"}
      BY DEF Logins, Losses, Retries
    <3> QED
      BY <2>4, <3>1 DEF In, Live
  <2>6. LossIsLast(queue') /\ LoginFirst(t, queue', importing')
    BY <2>5 DEF LossIsLast, LoginFirst, In
  <2>7. /\ Reachable(t, queue', lapses') /\ ConflictKept(t, queue', lapses')
        /\ RetryIsBlocked(t, queue') /\ FreeIsHeard(t, queue', lapses')
        /\ LoginIsKnown(t, queue', lapses')
    BY <2>1, <2>5 DEF Reachable, ConflictKept, RetryIsBlocked, FreeIsHeard, LoginIsKnown
  <2>8. Answered(t, queue', lapses')
    BY <2>1, <2>2 DEF Answered
  <2>9. ~importing'
    BY <1>5 DEF Boot, Still
  <2>10. Hope(t, queue', lapses', importing')
    BY <2>1, <2>2, <2>3, <2>9 DEF Hope
  <2> QED
    BY <1>3, <2>2, <2>6, <2>7, <2>8, <2>10 DEF RInv, Recoverable, t
<1> QED
  BY <1>1, <1>2, <1>4, <1>5 DEF Process

LEMMA RInit == Init => Still /\ RInv
  BY DEF Init, Still, RInv, Sound

LEMMA RNext == IInv /\ Still /\ RInv /\ [Next]_vars => RInv'
<1> SUFFICES ASSUME IInv, Still, RInv, [Next]_vars PROVE RInv'
  OBVIOUS
<1>1. CASE UNCHANGED vars
  BY <1>1
  DEF vars, RInv, Recoverable, LossIsLast, LoginFirst, Reachable, Answered, ConflictKept,
      RetryIsBlocked, FreeIsHeard, LoginIsKnown, Hope
<1> QED
  BY <1>1, RunnerRecovers, ArrivalRecovers, SteamRecovers, ProcessRecovers DEF Next

(***************************************************************************)
(* What Steam and the server show: the helpers                             *)
(***************************************************************************)

\* A helper that changes nothing of what is selected, reported or shown.
SameGames(s, t) ==
    /\ t.farming = s.farming /\ t.awaiting = s.awaiting
    /\ t.reported = s.reported /\ t.playing = s.playing /\ t.status = s.status

LEMMA BookkeepingGames ==
    ASSUME NEW s \in Worker
    PROVE  /\ SameGames(s, ClearRetryTimers(s))
           /\ SameGames(s, ResetSessionConflict(s))
           /\ SameGames(s, ClearRecoveryHealth(s))
           /\ \A d \in Desires : SameGames(s, SetDesiredState(s, d))
           /\ \A source \in {"login", "live"} :
                 SameGames(s, RegisterSessionConflict(s, source))
<1>1. SameGames(s, ClearRetryTimers(s))
  BY DEF ClearRetryTimers, SameGames, Worker
<1>2. SameGames(s, ResetSessionConflict(s))
  BY DEF ResetSessionConflict, SameGames, Worker
<1>3. SameGames(s, ClearRecoveryHealth(s))
  BY DEF ClearRecoveryHealth, SameGames, Worker
<1>4. ASSUME NEW d \in Desires PROVE SameGames(s, SetDesiredState(s, d))
  BY DEF SetDesiredState, SameGames, Worker
<1>5. ASSUME NEW source \in {"login", "live"}
      PROVE  SameGames(s, RegisterSessionConflict(s, source))
  BY DEF RegisterSessionConflict, SameGames, Worker
<1> QED
  BY <1>1, <1>2, <1>3, <1>4, <1>5

LEMMA SameGamesTransitive ==
    ASSUME NEW s, NEW t, NEW u, SameGames(s, t), SameGames(t, u)
    PROVE  SameGames(s, u)
  BY DEF SameGames

LEMMA ClearFarmingSelectionGames ==
    ASSUME NEW s \in Worker, NEW keep \in BOOLEAN
    PROVE  LET t == ClearFarmingSelection(s, keep)
           IN /\ t.farming = "off" /\ (t.awaiting => s.awaiting)
              /\ t.reported = s.reported /\ t.playing = s.playing
              /\ t.status = s.status
  BY DEF ClearFarmingSelection, Worker

\* A status that is neither online nor boosting ends the farming selection, unless it
\* is the status already.
LEMMA SetStatusGames ==
    ASSUME NEW s \in Worker, NEW st \in Statuses
    PROVE  LET t == SetStatus(s, st)
           IN /\ t.reported = s.reported /\ t.playing = s.playing
              /\ t.awaiting => s.awaiting
              /\ t.farming = s.farming \/ (st \notin Active /\ t.farming = "off")
              /\ st \in Active => t.awaiting = s.awaiting
<1> DEFINE u == [s EXCEPT !.status = st]
<1>1. /\ u \in Worker /\ u.reported = s.reported /\ u.playing = s.playing
      /\ u.awaiting = s.awaiting /\ u.farming = s.farming
  BY DEF Worker
<1>2. CASE s.status = st
  BY <1>2 DEF SetStatus
<1>3. CASE s.status # st /\ st \in Active
  <2>1. SetStatus(s, st) = u
    BY <1>3 DEF SetStatus
  <2> HIDE DEF u
  <2> QED
    BY <1>1, <2>1
<1>4. CASE s.status # st /\ st \notin Active
  <2>1. SetStatus(s, st) = ClearFarmingSelection(u, TRUE)
    BY <1>4 DEF SetStatus
  <2> DEFINE t == ClearFarmingSelection(u, TRUE)
  <2> HIDE DEF u
  <2>2. /\ t.farming = "off" /\ (t.awaiting => u.awaiting)
        /\ t.reported = u.reported /\ t.playing = u.playing
    BY <1>1, ClearFarmingSelectionGames
  <2> HIDE DEF t
  <2> QED
    BY <1>1, <1>4, <2>1, <2>2 DEF t
<1> QED
  BY <1>2, <1>3, <1>4

LEMMA ReportGamesGames ==
    ASSUME NEW s \in Worker, NEW p \in Payloads
    PROVE  LET t == ReportGames(s, p)
           IN /\ t.reported = p
              /\ t.playing = IF s.client = "on" THEN p ELSE "none"
              /\ t.farming = s.farming /\ t.awaiting = s.awaiting
              /\ t.status = s.status
  BY DEF ReportGames, Worker

LEMMA PayloadGames ==
    ASSUME NEW s \in Worker, NEW manual \in {"none", "manual"}
    PROVE  LET p == Payload(s, manual)
           IN /\ p \in Payloads
              /\ p = "farming" => s.farming = "games"
              /\ p = "manual" => s.farming = "off" /\ ~s.awaiting
<1>0. s.farming \in {"off", "empty", "games"} /\ s.awaiting \in BOOLEAN
  BY DEF Worker
<1>1. CASE s.farming = "games"
  BY <1>1, Literals DEF Payload
<1>2. CASE s.farming = "empty" \/ (s.farming = "off" /\ s.awaiting)
  BY <1>2, Literals DEF Payload
<1>3. CASE s.farming = "off" /\ ~s.awaiting
  BY <1>3, Literals DEF Payload
<1> QED
  BY <1>0, <1>1, <1>2, <1>3

\* What a connected worker shows after its games were applied: its selection, unless it
\* is paused or another session plays.
Fresh(t) ==
    /\ t.connected
    /\ t.farming = "games" => t.status \in Active
    /\ t.playing = IF t.client = "on" THEN t.reported ELSE "none"
    /\ t.reported = "farming" => t.farming = "games"
    /\ t.reported = "manual" => t.farming = "off" /\ ~t.awaiting
    /\ t.paused \/ t.blocked => t.reported = "none" /\ t.status \notin Active
    /\ (t.status = "boosting") <=> (t.reported # "none")

LEMMA ApplyGamesFresh ==
    ASSUME NEW s \in Worker, s.connected, s.farming = "games" => s.status \in Active,
           NEW manual \in {"none", "manual"}
    PROVE  Fresh(ApplyGames(s, manual))
<1>1. ASSUME NEW p \in Payloads, NEW st \in Statuses,
             p = "farming" => s.farming = "games",
             p = "manual" => s.farming = "off" /\ ~s.awaiting,
             s.paused \/ s.blocked => p = "none" /\ st \notin Active,
             p # "none" => st = "boosting", p = "none" => st # "boosting"
      PROVE  Fresh(SetStatus(ReportGames(s, p), st))
  <2> DEFINE r == ReportGames(s, p)
             t == SetStatus(r, st)
  <2>1. /\ r \in Worker /\ r.connected = s.connected /\ r.client = s.client
        /\ r.paused = s.paused /\ r.blocked = s.blocked
        /\ r.reported = p /\ r.playing = IF s.client = "on" THEN p ELSE "none"
        /\ r.farming = s.farming /\ r.awaiting = s.awaiting /\ r.status = s.status
    BY ReportGamesKeeps, ReportGamesGames DEF Quiet, SameConflict
  <2> HIDE DEF r
  <2>2. /\ t.connected = r.connected /\ t.client = r.client
        /\ t.paused = r.paused /\ t.blocked = r.blocked /\ t.status = st
        /\ st \notin Active /\ r.status # st => t.farming = "off"
    BY <2>1, SetStatusKeeps DEF Quiet, SameConflict
  <2>3. /\ t.reported = r.reported /\ t.playing = r.playing
        /\ t.awaiting => r.awaiting
        /\ t.farming = r.farming \/ (st \notin Active /\ t.farming = "off")
    BY <2>1, SetStatusGames
  <2> HIDE DEF t
  <2>4. "boosting" \in Active
    BY DEF Active
  <2>5. t.farming = "games" => t.status \in Active
    BY <2>1, <2>2, <2>3
  <2>6. t.reported = "farming" => t.farming = "games"
    BY <1>1, <2>1, <2>3, <2>4
  <2>7. Fresh(t)
    BY <1>1, <2>1, <2>2, <2>3, <2>5, <2>6 DEF Fresh
  <2> QED
    BY <2>7 DEF t, r
<1>2. CASE s.paused
  <2>1. ApplyGames(s, manual) = SetStatus(ReportGames(s, "none"), "paused_manual")
    BY <1>2 DEF ApplyGames
  <2>2. "paused_manual" \notin Active
    BY DEF Active
  <2> QED
    BY <1>1, <2>1, <2>2, Literals
<1>3. CASE ~s.paused /\ s.blocked
  <2>1. ApplyGames(s, manual) = SetStatus(ReportGames(s, "none"), "paused_other_session")
    BY <1>3 DEF ApplyGames
  <2>2. "paused_other_session" \notin Active
    BY DEF Active
  <2> QED
    BY <1>1, <2>1, <2>2, Literals
<1>4. CASE ~s.paused /\ ~s.blocked
  <2> DEFINE p == Payload(s, manual)
             st == IF p = "none" THEN "online" ELSE "boosting"
  <2>1. ApplyGames(s, manual) = SetStatus(ReportGames(s, p), st)
    BY <1>4 DEF ApplyGames
  <2>2. /\ p \in Payloads
        /\ p = "farming" => s.farming = "games"
        /\ p = "manual" => s.farming = "off" /\ ~s.awaiting
    BY PayloadGames
  <2>3. st \in Statuses /\ (p # "none" => st = "boosting") /\ (p = "none" => st # "boosting")
    BY Literals
  <2> HIDE DEF p, st
  <2> QED
    BY <1>1, <1>4, <2>1, <2>2, <2>3
<1> QED
  BY <1>2, <1>3, <1>4


(***************************************************************************)
(* What Steam and the server show: the inductive invariant                 *)
(***************************************************************************)

\* A farming selection with games belongs to a session that may play them; a status that
\* says online or boosting to a worker that is neither paused nor blocked; an account
\* that should not run reports no games; and games that Steam shows beside another
\* session are the attempt of a live conflict.
Proper(s) ==
    /\ s.farming = "games" => s.status \in Active /\ s.connected /\ ~s.blocked
    /\ s.status \in Active => ~s.handled /\ (s.connected => ~s.blocked /\ ~s.paused)
    /\ s.desired # "running" /\ s.connected => s.reported = "none"
    /\ s.blocked /\ s.playing # "none" => s.mode = "live" /\ s.desired = "running"

\* Farming games are shown by a connected worker only.
FarmingIsKnown(s, l) ==
    "attention" \in l \/ (s.playing = "farming" => s.connected)

\* The commands that report the games anew, or end the session.
Mends == Commands \ {"start"}

\* Steam shows what is selected.  A command that halts farming before it is queued ends
\* the selection, and then reports the games anew when it runs.
Fitting(s, q, l) ==
    \/ "attention" \in l
    \/ /\ s.playing = "manual" => s.farming = "off" /\ ~s.awaiting
       /\ s.playing = "farming" => s.farming = "games" \/ In(q, Mends)

\* The attempt of a live conflict waits for its answer with a timer.
AnswerIsDue(s, q) ==
    s.blocked /\ s.playing # "none" => Retrying(s) \/ Live(q, Retries)

\* What was reported last is what Steam shows, once a login has been told.
ReportIsShown(s, q) ==
    s.connected /\ s.client = "on" =>
        s.reported = s.playing \/ (s.desired = "running" /\ In(q, Logins))

\* The status is true unless a loss, or the start at boot, is about to correct it.
StatusIsTrue(s, q, l, i) ==
    s.status \in Active /\ l = {} =>
        \/ In(q, Losses)
        \/ /\ s.connected
           /\ s.client = "on" => ((s.status = "boosting") <=> (s.playing # "none"))
        \/ ~s.connected /\ q # <<>> /\ ~i /\ Head(q).op = "auto_start"

\* The row of an account that was halted while it was active waits for an operator.
ActiveIsWanted(s, l) ==
    s.status \in Active => s.desired = "running" \/ "held" \in l

Showing(s, q, l, i) ==
    /\ Proper(s)
    /\ FarmingIsKnown(s, l)
    /\ Fitting(s, q, l)
    /\ AnswerIsDue(s, q)
    /\ ReportIsShown(s, q)
    /\ StatusIsTrue(s, q, l, i)
    /\ ActiveIsWanted(s, l)

GInv == phase = "up" => Showing(w, queue, lapses, importing)

(***************************************************************************)
(* One operation                                                           *)
(***************************************************************************)

LEMMA TurnFacts ==
    ASSUME IInv, NEW t, Turn(t)
    PROVE  /\ w' = t /\ importing' = importing /\ phase' = "up"
           /\ w \in Worker /\ t \in Worker
           /\ \A ops : In(queue, ops) => Head(queue).op \in ops \/ In(queue', ops)
           /\ \A lapse \in {"attention", "held"} :
                 /\ lapse \in lapses /\ Head(queue).op # "stop"
                 /\ ~(w.client = "off" /\ t.client = "connecting")
                 => lapse \in lapses'
<1> DEFINE op == Head(queue).op
           tail == Tail(queue)
           c == t.desired # w.desired
           h == Halts(w, t, op)
           r == Restamp(tail, c, h)
<1>1. /\ w' = t /\ importing' = importing /\ phase' = "up" /\ queue' = r
      /\ lapses' = (lapses \cup NewLapses(t, op)) \ Redeemed(t, op)
      /\ queue \in Seq(Item) /\ queue # <<>> /\ w \in Worker /\ t \in Worker
  BY DEF Turn, Finish, IInv, TypeOK
<1>2. /\ tail \in Seq(Item)
      /\ \A ops : In(queue, ops) <=> op \in ops \/ In(tail, ops)
  BY <1>1, TailKeeps
<1>3. c \in BOOLEAN /\ h \in BOOLEAN
  BY DEF Halts
<1> HIDE DEF c, h, tail
<1>4. \A ops : In(r, ops) <=> In(tail, ops)
  BY <1>2, <1>3, RestampKeeps
<1> HIDE DEF r
<1>5. ASSUME NEW lapse \in {"attention", "held"}, lapse \in lapses, op # "stop",
             ~(w.client = "off" /\ t.client = "connecting")
      PROVE  lapse \in lapses'
  <2>1. lapse \notin Redeemed(t, op)
    BY <1>5 DEF Redeemed
  <2> QED
    BY <1>1, <1>5, <2>1
<1> QED
  BY <1>1, <1>2, <1>4, <1>5

\* A worker that ends without games: one that was halted, lost its session, or logs on.
\* Only a safety pause whose every fallback failed leaves games behind.
Silent(t) ==
    /\ t.status \notin Active /\ t.farming # "games"
    /\ t.connected /\ (t.client = "on" \/ t.desired # "running") => t.reported = "none"
    /\ t.blocked \/ t.connected \/ t.desired = "running" => t.playing = "none"

LEMMA SilentShows ==
    ASSUME IInv, IInv', RInv', NEW t, Turn(t), Silent(t)
    PROVE  GInv'
<1>1. w' = t /\ phase' = "up" /\ importing' = importing /\ t \in Worker
  BY TurnFacts
<1>2. "attention" \in lapses' \/ t.playing = "none"
  BY <1>1 DEF IInv, WhileUp, Calm, Silent
<1>3. Proper(t)
  BY DEF Silent, Proper
<1>4. /\ FarmingIsKnown(t, lapses') /\ Fitting(t, queue', lapses')
      /\ AnswerIsDue(t, queue') /\ ReportIsShown(t, queue')
      /\ StatusIsTrue(t, queue', lapses', importing') /\ ActiveIsWanted(t, lapses')
  BY <1>2
  DEF Silent, FarmingIsKnown, Fitting, AnswerIsDue, ReportIsShown, StatusIsTrue,
      ActiveIsWanted
<1> QED
  BY <1>1, <1>3, <1>4 DEF GInv, Showing

LEMMA FreshShows ==
    ASSUME IInv, IInv', RInv', NEW t, Turn(t), Fresh(t)
    PROVE  GInv'
<1>1. w' = t /\ phase' = "up" /\ importing' = importing /\ t \in Worker
  BY TurnFacts
<1>2. Meek(t) /\ Sound(t)
  BY <1>1 DEF IInv, WhileUp, RInv
<1>3. Proper(t)
  BY <1>2 DEF Fresh, Proper, Meek, Sound
<1>4. /\ FarmingIsKnown(t, lapses') /\ Fitting(t, queue', lapses')
      /\ AnswerIsDue(t, queue') /\ ReportIsShown(t, queue')
      /\ StatusIsTrue(t, queue', lapses', importing') /\ ActiveIsWanted(t, lapses')
  BY <1>2
  DEF Fresh, FarmingIsKnown, Fitting, AnswerIsDue, ReportIsShown, StatusIsTrue,
      ActiveIsWanted, Meek
<1> QED
  BY <1>1, <1>3, <1>4 DEF GInv, Showing

\* A step that leaves alone what is shown: there was nothing to do, or the credential is
\* missing, or a session that is not there has been told to resume.
Kept(s, t) ==
    /\ t.playing = s.playing /\ t.reported = s.reported
    /\ t.connected = s.connected /\ t.client = s.client
    /\ t.farming = "games" <=> s.farming = "games"
    /\ \/ /\ t.status = s.status /\ t.paused = s.paused /\ t.desired = s.desired
          /\ t.handled => s.handled
       \/ t.status \notin Active /\ t.farming # "games"
    /\ t.blocked => s.blocked
    /\ \/ /\ t.desired = s.desired /\ (t.awaiting => s.awaiting)
          /\ s.farming = "off" => t.farming = "off"
       \/ s.desired # "running" /\ t.desired = "running" /\ ~s.connected
    /\ t.blocked /\ s.desired = "running" => t.mode = s.mode /\ (Retrying(s) => Retrying(t))

LEMMA KeptShows ==
    ASSUME IInv, RInv, GInv, NEW t, Turn(t), Kept(w, t),
           Head(queue).op \notin Losses \cup {"stop", "loggedOn"},
           Head(queue).op \in Mends => ~w.connected,
           Head(queue).op = "auto_start" => w.connected \/ t.status \notin Active,
           Head(queue).op \in Retries /\ Head(queue).live /\ w.desired = "running" =>
               ~(w.blocked /\ w.mode = "live")
    PROVE  GInv'
<1>1. /\ w' = t /\ phase' = "up" /\ importing' = importing
      /\ w \in Worker /\ t \in Worker
      /\ \A ops : In(queue, ops) => Head(queue).op \in ops \/ In(queue', ops)
  BY TurnFacts
<1>2. phase = "up" /\ ~importing /\ queue # <<>>
  BY DEF Turn
<1>3. Showing(w, queue, lapses, importing)
  BY <1>2 DEF GInv
<1>4. Left(t)
  BY TurnLeaves
<1>5. /\ "attention" \in lapses => "attention" \in lapses'
      /\ "held" \in lapses => "held" \in lapses'
  BY TurnFacts DEF Kept
<1>6. "attention" \in lapses \/ (w.desired # "running" => w.playing = "none")
  BY <1>2 DEF IInv, WhileUp, Calm
<1>7. lapses' = {} => lapses = {}
  BY <1>4 DEF Left, Kept
<1>8. ~In(queue, Logins)
  BY <1>4 DEF Left, Logins
<1>9. Proper(t)
  BY <1>3 DEF Showing, Proper, Kept
<1>10. FarmingIsKnown(t, lapses')
  BY <1>3, <1>5 DEF Showing, FarmingIsKnown, Kept
<1>11. Fitting(t, queue', lapses')
  <2>1. SUFFICES ASSUME "attention" \notin lapses'
                 PROVE  /\ t.playing = "manual" => t.farming = "off" /\ ~t.awaiting
                        /\ t.playing = "farming" => t.farming = "games" \/ In(queue', Mends)
    BY DEF Fitting
  <2>2. t.playing = "manual" => t.farming = "off" /\ ~t.awaiting
    BY <1>3, <1>5, <1>6, <2>1 DEF Showing, Fitting, Kept
  <2>3. ASSUME t.playing = "farming", t.farming # "games"
        PROVE  In(queue', Mends)
    <3>1. In(queue, Mends) /\ w.connected
      BY <1>3, <1>5, <2>1, <2>3 DEF Showing, Fitting, FarmingIsKnown, Kept
    <3> QED
      BY <1>1, <3>1
  <2> QED
    BY <2>2, <2>3
<1>12. AnswerIsDue(t, queue')
  <2>1. SUFFICES ASSUME t.blocked, t.playing # "none"
                 PROVE  Retrying(t) \/ Live(queue', Retries)
    BY DEF AnswerIsDue
  <2>2. /\ w.mode = "live" /\ w.blocked /\ w.desired = "running"
        /\ Retrying(w) \/ Live(queue, Retries)
    BY <1>3, <2>1 DEF Showing, AnswerIsDue, Proper, Kept
  <2>3. t.desired = w.desired
    BY <2>2 DEF Kept
  <2>4. Live(queue, Retries) => Live(queue', Retries)
    BY <1>4, <2>2, <2>3, Kinds DEF Left
  <2> QED
    BY <2>1, <2>2, <2>4 DEF Kept
<1>13. ReportIsShown(t, queue')
  BY <1>3, <1>8 DEF Showing, ReportIsShown, Kept
<1>14. StatusIsTrue(t, queue', lapses', importing')
  <2>1. SUFFICES ASSUME t.status \in Active, lapses' = {}
                 PROVE  \/ In(queue', Losses)
                        \/ /\ t.connected
                           /\ t.client = "on" =>
                                 ((t.status = "boosting") <=> (t.playing # "none"))
    BY DEF StatusIsTrue
  <2>2. In(queue, Losses) => In(queue', Losses)
    BY <1>4 DEF Left
  <2>3. t.status = w.status
    BY <2>1 DEF Kept
  <2> QED
    BY <1>3, <1>7, <2>1, <2>2, <2>3 DEF Showing, StatusIsTrue, Kept
<1>15. ActiveIsWanted(t, lapses')
  BY <1>3, <1>5 DEF Showing, ActiveIsWanted, Kept
<1> QED
  BY <1>1, <1>9, <1>10, <1>11, <1>12, <1>13, <1>14, <1>15 DEF GInv, Showing

\* The attempt of a live conflict: the manual games are reported, and a timer waits.
Retried(s, t) ==
    /\ s.blocked /\ t.blocked /\ t.mode = "live" /\ Retrying(t)
    /\ s.desired = "running" /\ t.desired = "running"
    /\ t.connected = s.connected /\ t.client = s.client /\ t.paused = s.paused
    /\ t.handled = s.handled /\ t.status = s.status /\ t.farming = s.farming
    /\ t.playing = IF t.client = "on" THEN t.reported ELSE "none"
    /\ t.reported # "farming"
    /\ t.reported = "manual" => t.farming = "off" /\ ~t.awaiting

LEMMA RetriedShows ==
    ASSUME IInv, RInv, GInv, NEW t, Turn(t), Retried(w, t), Head(queue).op \in Retries
    PROVE  GInv'
<1>1. /\ w' = t /\ phase' = "up" /\ importing' = importing
      /\ w \in Worker /\ t \in Worker
  BY TurnFacts
<1>2. phase = "up" /\ ~importing /\ queue # <<>>
  BY DEF Turn
<1>3. Showing(w, queue, lapses, importing)
  BY <1>2 DEF GInv
<1>4. Left(t) /\ Head(queue).op \notin Losses \cup {"stop", "loggedOn", "auto_start"}
  BY TurnLeaves DEF Retries, Losses
<1>5. t.playing # "farming" /\ t.playing \in {"none", t.reported}
  BY DEF Retried
<1>6. Proper(t)
  BY <1>3 DEF Showing, Proper, Retried
<1>7. /\ FarmingIsKnown(t, lapses') /\ Fitting(t, queue', lapses')
      /\ AnswerIsDue(t, queue') /\ ReportIsShown(t, queue') /\ ActiveIsWanted(t, lapses')
  BY <1>5
  DEF Retried, FarmingIsKnown, Fitting, AnswerIsDue, ReportIsShown, ActiveIsWanted
<1>8. StatusIsTrue(t, queue', lapses', importing')
  <2>1. SUFFICES ASSUME t.status \in Active, lapses' = {}
                 PROVE  In(queue', Losses)
    BY DEF StatusIsTrue
  <2>2. lapses = {}
    BY <1>4, <2>1 DEF Left, Retried
  <2>3. ~w.connected
    BY <1>3, <2>1 DEF Showing, Proper, Retried
  <2>4. In(queue, Losses)
    BY <1>3, <1>4, <2>1, <2>2, <2>3 DEF Showing, StatusIsTrue, Retried
  <2> QED
    BY <1>4, <2>4 DEF Left
<1> QED
  BY <1>1, <1>6, <1>7, <1>8 DEF GInv, Showing


(***************************************************************************)
(* The operations and the handlers, and what they show                     *)
(***************************************************************************)

\* Nothing that is shown, and nothing that decides about it, has changed.
Same(s, t) == Quiet(s, t) /\ SameGames(s, t)

\* A login has begun.
Entering(t) ==
    /\ t \in Worker /\ t.desired = "running" /\ t.status = "connecting"
    /\ t.farming = "off" /\ t.client \in {"connecting", "refused"}

\* The three ways a start ends, with what they show.
Started(s, t) ==
    \/ Busy(s) /\ Same(s, t)
    \/ /\ ~Busy(s) /\ Quiet(s, t) /\ t.status = "login_required"
       /\ t.reported = s.reported /\ t.playing = s.playing
       /\ t.awaiting => s.awaiting
       /\ t.farming \in {s.farming, "off"}
    \/ Entering(t)

LEMMA StartNowGames ==
    ASSUME NEW s \in Worker, NEW token \in BOOLEAN
    PROVE  Started(s, StartNow(s, token))
<1> DEFINE t == StartNow(s, token)
<1>1. \/ Busy(s) /\ t = s
      \/ ~Busy(s) /\ Quiet(s, t) /\ t.status = "login_required"
      \/ ~Busy(s) /\ LoggingOn(s, t)
  BY StartNowCases
<1>2. CASE Busy(s) /\ t = s
  BY <1>2, QuietSelf DEF Started, Same, SameGames
<1>3. CASE ~Busy(s) /\ LoggingOn(s, t)
  <2> HIDE DEF t
  <2>1. Started(s, t)
    BY <1>3 DEF Started, Entering, LoggingOn
  <2> QED
    BY <2>1 DEF t
<1>4. CASE ~Busy(s) /\ Quiet(s, t) /\ t.status = "login_required"
  <2> DEFINE u == SetStatus(s, "login_required")
  <2>1. /\ u.reported = s.reported /\ u.playing = s.playing
        /\ u.awaiting => s.awaiting
        /\ u.farming \in {s.farming, "off"}
    BY SetStatusGames, Literals
  <2>2. token => t = LogOn([SetStatus(SetDesiredState([s EXCEPT !.paused = FALSE],
                               "running"), "connecting") EXCEPT !.handled = FALSE])
    BY <1>4 DEF Busy, StartNow
  <2>3. CASE ~token
    <3>1. t = u
      BY <1>4, <2>3 DEF Busy, StartNow
    <3> HIDE DEF t, u
    <3>2. Started(s, t)
      BY <1>4, <2>1, <3>1 DEF Started
    <3> QED
      BY <3>2 DEF t
  <2>4. CASE token
    <3> DEFINE a == [s EXCEPT !.paused = FALSE]
               b == SetDesiredState(a, "running")
               c == SetStatus(b, "connecting")
               d == [c EXCEPT !.handled = FALSE]
    <3>1. t = LogOn(d)
      BY <2>2, <2>4
    <3>2. a \in Worker
      BY DEF Worker
    <3> HIDE DEF a
    <3>3. b \in Worker
      BY <3>2, SetDesiredStateFacts DEF Desires
    <3> HIDE DEF b
    <3>4. c \in Worker /\ c.status = "connecting"
      BY <3>3, SetStatusKeeps, Literals DEF Quiet
    <3> HIDE DEF c
    <3>5. d \in Worker /\ d.status = "connecting"
      BY <3>4 DEF Worker
    <3> HIDE DEF d
    <3>6. LogOn(d).status = "connecting"
      BY <3>5, LogOnKeeps
    <3> QED
      BY <1>4, <3>1, <3>6
  <2> QED
    BY <2>3, <2>4
<1> QED
  BY <1>1, <1>2, <1>3, <1>4

LEMMA SameStarted ==
    ASSUME NEW s \in Worker, NEW u, Same(s, u), NEW t, Started(u, t)
    PROVE  Started(s, t)
<1>1. Busy(u) <=> Busy(s)
  BY DEF Busy, Same, SameGames, Quiet
<1>2. Quiet(u, t) => Quiet(s, t)
  BY QuietTransitive DEF Same
<1>3. CASE Busy(u) /\ Same(u, t)
  BY <1>1, <1>2, <1>3 DEF Started, Same, SameGames
<1>4. CASE /\ ~Busy(u) /\ Quiet(u, t) /\ t.status = "login_required"
           /\ t.reported = u.reported /\ t.playing = u.playing
           /\ t.awaiting => u.awaiting
           /\ t.farming \in {u.farming, "off"}
  BY <1>1, <1>2, <1>4 DEF Started, Same, SameGames
<1>5. CASE Entering(t)
  BY <1>5 DEF Started
<1> QED
  BY <1>3, <1>4, <1>5 DEF Started

\* The account is told to run: its games are applied, a login begins, or there is
\* nothing to show.
Woke(s, t) == Fresh(t) \/ Entering(t) \/ (~s.connected /\ Kept(s, t))

LEMMA WokenGames ==
    ASSUME NEW s \in Worker, Sound(s), Proper(s),
           NEW c, Woken(s, c), c.status = s.status,
           c.reported = s.reported, c.playing = s.playing,
           c.farming = "games" => s.farming = "games",
           s.desired = "running" => c.farming = s.farming /\ ~c.awaiting,
           NEW token \in BOOLEAN, NEW manual \in {"none", "manual"},
           NEW t, t = IF c.connected THEN ApplyGames(c, manual) ELSE StartNow(c, token)
    PROVE  Woke(s, t)
<1>0. c \in Worker /\ c.desired = "running" /\ ~c.paused /\ c.connected = s.connected
  BY DEF Woken
<1>1. CASE c.connected
  <2>1. c.farming = "games" => c.status \in Active
    BY DEF Proper
  <2> QED
    BY <1>0, <1>1, <2>1, ApplyGamesFresh DEF Woke
<1>2. CASE ~c.connected
  <2>1. Started(c, t)
    BY <1>0, <1>2, StartNowGames
  <2>2. c.farming # "games" /\ s.farming # "games"
    BY <1>0, <1>2 DEF Proper
  <2>3. CASE Busy(c) /\ Same(c, t)
    <3>1. s.status = "connecting"
      BY <1>2, <2>3 DEF Busy
    <3>2. s.desired = "running" /\ ~s.paused /\ s.farming = "off" /\ ~s.handled
      BY <3>1 DEF Sound
    <3>3. s.paused \in BOOLEAN /\ c.paused \in BOOLEAN
      BY <1>0 DEF Worker
    <3>4. SameTimers(s, c) /\ SameConflict(s, c) /\ c.client = s.client
      BY <3>2 DEF Woken, Renewed
    <3>5. Kept(s, t)
      BY <1>0, <2>2, <2>3, <3>2, <3>3, <3>4
      DEF Kept, Same, SameGames, Quiet, SameTimers, SameConflict, Retrying
    <3> QED
      BY <1>0, <1>2, <3>5 DEF Woke
  <2>4. CASE /\ Quiet(c, t) /\ t.status = "login_required"
             /\ t.reported = c.reported /\ t.playing = c.playing
             /\ t.awaiting => c.awaiting
             /\ t.farming \in {c.farming, "off"}
    <3>1. t.status \notin Active /\ t.farming # "games"
      BY <2>2, <2>4 DEF Active
    <3>2. SameConflict(s, c) /\ c.client = s.client
      BY DEF Woken
    <3>3. s.desired = "running" => SameTimers(s, c)
      BY DEF Woken, Renewed
    <3>4. Kept(s, t)
      BY <1>0, <1>2, <2>2, <2>4, <3>1, <3>2, <3>3
      DEF Kept, Quiet, SameTimers, SameConflict, Retrying
    <3> QED
      BY <1>0, <1>2, <3>4 DEF Woke
  <2>5. CASE Entering(t)
    BY <2>5 DEF Woke
  <2> QED
    BY <2>1, <2>3, <2>4, <2>5 DEF Started
<1> QED
  BY <1>1, <1>2

LEMMA ResumeNowGames ==
    ASSUME NEW s \in Worker, Sound(s), Proper(s),
           NEW token \in BOOLEAN, NEW manual \in {"none", "manual"}
    PROVE  Woke(s, ResumeNow(s, token, manual))
<1> DEFINE a == [s EXCEPT !.paused = FALSE, !.awaiting = FALSE]
           b == SetDesiredState(a, "running")
           c == ClearRecoveryHealth(b)
           t == ResumeNow(s, token, manual)
<1>1. t = IF c.connected THEN ApplyGames(c, manual) ELSE StartNow(c, token)
  BY DEF ResumeNow
<1>2. /\ a \in Worker /\ a.paused = FALSE /\ a.desired = s.desired
      /\ a.connected = s.connected /\ a.client = s.client /\ SameTimers(s, a)
      /\ SameConflict(s, a) /\ a.status = s.status /\ a.farming = s.farming
      /\ a.awaiting = FALSE /\ a.reported = s.reported /\ a.playing = s.playing
  BY DEF Worker, SameTimers, SameConflict
<1> HIDE DEF a
<1>3. /\ b \in Worker /\ b.desired = "running"
      /\ b.connected = a.connected /\ b.paused = a.paused /\ b.client = a.client
      /\ SameConflict(a, b)
      /\ a.desired = "running" => SameTimers(a, b)
      /\ a.desired # "running" => ~Retrying(b) /\ ~Backing(b)
  BY <1>2, SetDesiredStateKeeps DEF Desires
<1>4. SameGames(a, b)
  BY <1>2, BookkeepingGames DEF Desires
<1> HIDE DEF b
<1>5. Quiet(b, c)
  BY <1>3, ClearRecoveryHealthKeeps
<1>6. SameGames(b, c)
  BY <1>3, BookkeepingGames
<1> HIDE DEF c, t
<1>7. Woken(s, c)
  BY <1>2, <1>3, <1>5
  DEF Woken, Renewed, Quiet, SameTimers, SameConflict, Retrying, Backing
<1>8. /\ c.status = s.status /\ c.reported = s.reported /\ c.playing = s.playing
      /\ c.farming = s.farming /\ ~c.awaiting
  BY <1>2, <1>4, <1>6 DEF SameGames
<1>9. Woke(s, t)
  BY <1>1, <1>7, <1>8, WokenGames
<1> QED
  BY <1>9 DEF t

LEMMA ResumeForFarmingGames ==
    ASSUME NEW s \in Worker, Sound(s), Proper(s),
           NEW token \in BOOLEAN, NEW manual \in {"none", "manual"}
    PROVE  LET t == ResumeForFarming(s, token, manual) IN t = s \/ Woke(s, t)
<1> DEFINE a == [s EXCEPT !.paused = FALSE, !.farming = "empty", !.awaiting = TRUE]
           b == SetDesiredState(a, "running")
           c == ClearRecoveryHealth(b)
           t == ResumeForFarming(s, token, manual)
<1>1. CASE s.desired = "running"
  BY <1>1 DEF ResumeForFarming
<1>2. CASE s.desired # "running"
  <2>1. t = IF c.connected THEN ApplyGames(c, manual) ELSE StartNow(c, token)
    BY <1>2 DEF ResumeForFarming
  <2>2. /\ a \in Worker /\ ~a.paused /\ a.desired = s.desired
        /\ a.connected = s.connected /\ a.client = s.client /\ SameTimers(s, a)
        /\ SameConflict(s, a) /\ a.status = s.status /\ a.farming = "empty"
        /\ a.reported = s.reported /\ a.playing = s.playing
    BY DEF Worker, SameTimers, SameConflict
  <2> HIDE DEF a
  <2>3. /\ b \in Worker /\ b.desired = "running"
        /\ b.connected = a.connected /\ b.paused = a.paused /\ b.client = a.client
        /\ SameConflict(a, b)
        /\ a.desired # "running" => ~Retrying(b) /\ ~Backing(b)
    BY <2>2, SetDesiredStateKeeps DEF Desires
  <2>4. SameGames(a, b)
    BY <2>2, BookkeepingGames DEF Desires
  <2> HIDE DEF b
  <2>5. Quiet(b, c)
    BY <2>3, ClearRecoveryHealthKeeps
  <2>6. SameGames(b, c)
    BY <2>3, BookkeepingGames
  <2> HIDE DEF c, t
  <2>7. Woken(s, c)
    BY <1>2, <2>2, <2>3, <2>5
    DEF Woken, Renewed, Quiet, SameTimers, SameConflict, Retrying, Backing
  <2>8. /\ c.status = s.status /\ c.reported = s.reported /\ c.playing = s.playing
        /\ c.farming = "empty"
    BY <2>2, <2>4, <2>6 DEF SameGames
  <2>9. Woke(s, t)
    BY <1>2, <2>1, <2>7, <2>8, WokenGames
  <2> QED
    BY <2>9 DEF t
<1> QED
  BY <1>1, <1>2


LEMMA ClearedGames ==
    ASSUME NEW s \in Worker
    PROVE  Cleared(s) \in Worker /\ Cleared(s).farming = "off"
<1> DEFINE a == ClearFarmingSelection(s, FALSE)
           b == ClearRetryTimers(a)
           c == ResetSessionConflict(b)
           d == ClearRecoveryHealth(c)
<1>1. a \in Worker /\ a.farming = "off"
  BY ClearFarmingSelectionKeeps DEF Quiet
<1> HIDE DEF a
<1>2. b \in Worker /\ b.farming = a.farming
  BY <1>1, ClearRetryTimersKeeps
<1> HIDE DEF b
<1>3. c \in Worker /\ c.farming = b.farming
  BY <1>2, ResetSessionConflictKeeps
<1> HIDE DEF c
<1>4. d \in Worker /\ d.farming = c.farming
  BY <1>3, ClearRecoveryHealthKeeps DEF Quiet
<1>5. d \in Worker /\ d.farming = "off"
  BY <1>1, <1>2, <1>3, <1>4
<1> QED
  BY <1>5 DEF Cleared, a, b, c, d

LEMMA LogOffGames ==
    ASSUME NEW s \in Worker
    PROVE  LET t == LogOff(s)
           IN /\ t.farming = s.farming /\ t.reported = s.reported /\ t.playing = "none"
  BY DEF LogOff, Worker

\* A worker that is told nothing more, once its status has been set.
Hushed(u) == u \in Worker /\ u.farming = "off" /\ u.reported = "none" /\ u.playing = "none"

LEMMA HushedSetStatus ==
    ASSUME NEW u, Hushed(u), NEW st \in Statuses \ Active
    PROVE  Silent(SetStatus(u, st))
<1> DEFINE t == SetStatus(u, st)
<1>1. t.status = st
  BY SetStatusKeeps DEF Hushed
<1>2. /\ t.reported = u.reported /\ t.playing = u.playing
      /\ t.farming \in {u.farming, "off"}
  BY SetStatusGames DEF Hushed
<1> HIDE DEF t
<1>3. Silent(t)
  BY <1>1, <1>2 DEF Silent, Hushed
<1> QED
  BY <1>3 DEF t

LEMMA Inactive ==
    /\ {"disconnected", "paused_manual", "paused_other_session", "reconnecting", "error",
        "login_required", "connecting"} \subseteq Statuses \ Active
  BY DEF Statuses, Active

LEMMA StopNowGames ==
    ASSUME NEW s \in Worker
    PROVE  Silent(StopNow(s))
<1> DEFINE a == Cleared(s)
           b == SetDesiredState(a, "stopped")
           c == ReportGames(b, "none")
           d == LogOff(c)
           e == [d EXCEPT !.connected = FALSE]
<1>1. StopNow(s) = SetStatus(e, "disconnected")
  BY DEF StopNow, Cleared
<1>2. a \in Worker /\ a.farming = "off"
  BY ClearedGames
<1> HIDE DEF a
<1>3. b \in Worker /\ b.farming = "off"
  BY <1>2, SetDesiredStateKeeps DEF Desires
<1> HIDE DEF b
<1>4. c \in Worker
  BY <1>3, ReportGamesFacts, Literals
<1>5. c.farming = "off" /\ c.reported = "none"
  BY <1>3, ReportGamesGames, Literals
<1> HIDE DEF c
<1>6. d \in Worker
  BY <1>4, LogOffFacts
<1>7. d.farming = "off" /\ d.reported = "none" /\ d.playing = "none"
  BY <1>4, <1>5, LogOffGames
<1> HIDE DEF d
<1>8. Hushed(e)
  BY <1>6, <1>7 DEF Hushed, Worker
<1> HIDE DEF e
<1> QED
  BY <1>1, <1>8, HushedSetStatus, Inactive

LEMMA SafetyPauseGames ==
    ASSUME NEW s \in Worker, NEW t \in SafetyPause(s)
    PROVE  Silent(t)
<1> DEFINE a == Cleared(s)
           b == [a EXCEPT !.paused = TRUE]
           c == SetDesiredState(b, "paused")
           d == ReportGames(c, "none")
<1>0. /\ PauseNow(s) = SetStatus(d, "paused_manual")
      /\ ForceDisconnectForSafety(s) =
            SetStatus([LogOff(d) EXCEPT !.connected = FALSE], "paused_manual")
  BY DEF PauseNow, ForceDisconnectForSafety, Cleared
<1>1. Hushed(d)
  <2>1. a \in Worker /\ a.farming = "off"
    BY ClearedGames
  <2> HIDE DEF a
  <2>2. b \in Worker /\ b.farming = "off"
    BY <2>1 DEF Worker
  <2> HIDE DEF b
  <2>3. c \in Worker /\ c.farming = "off"
    BY <2>2, SetDesiredStateKeeps DEF Desires
  <2> HIDE DEF c
  <2>4. d \in Worker
    BY <2>3, ReportGamesFacts, Literals
  <2>5. d.farming = "off" /\ d.reported = "none" /\ d.playing = "none"
    BY <2>3, ReportGamesGames, Literals
  <2> QED
    BY <2>4, <2>5 DEF Hushed
<1> HIDE DEF d
<1>2. CASE t = PauseNow(s)
  BY <1>0, <1>1, <1>2, HushedSetStatus, Inactive
<1>3. CASE t = ForceDisconnectForSafety(s)
  <2> DEFINE e == LogOff(d)
             f == [e EXCEPT !.connected = FALSE]
  <2>1. t = SetStatus(f, "paused_manual")
    BY <1>0, <1>3
  <2>2. e \in Worker
    BY <1>1, LogOffFacts DEF Hushed
  <2>3. e.farming = "off" /\ e.reported = "none" /\ e.playing = "none"
    BY <1>1, LogOffGames DEF Hushed
  <2> HIDE DEF e
  <2>4. Hushed(f)
    BY <2>2, <2>3 DEF Hushed, Worker
  <2> HIDE DEF f
  <2> QED
    BY <2>1, <2>4, HushedSetStatus, Inactive
<1>4. ASSUME NEW cleared \in BOOLEAN, NEW left \in BOOLEAN,
             t = MarkSafetyAttention(s, cleared, left)
      PROVE  Silent(t)
  <2> DEFINE j == IF cleared THEN ReportGames(s, "none") ELSE s
             k == IF left THEN LogOff(j) ELSE j
             l == ClearFarmingSelection(k, FALSE)
             m == ClearRetryTimers(l)
             n == ResetSessionConflict(m)
             o == [n EXCEPT !.connected = FALSE, !.paused = TRUE, !.health = "terminal"]
             p == SetDesiredState(o, "paused")
             q == SetStatus(p, "error")
  <2>1. t = q
    BY <1>4 DEF MarkSafetyAttention
  <2>2. j \in Worker
    BY ReportGamesFacts, Literals
  <2> HIDE DEF j
  <2>3. k \in Worker
    BY <2>2, LogOffFacts
  <2> HIDE DEF k
  <2>4. l \in Worker /\ l.farming = "off"
    BY <2>3, ClearFarmingSelectionKeeps DEF Quiet
  <2> HIDE DEF l
  <2>5. m \in Worker /\ m.farming = "off"
    BY <2>4, ClearRetryTimersKeeps
  <2> HIDE DEF m
  <2>6. n \in Worker /\ n.farming = "off" /\ n.blocked = FALSE
    BY <2>5, ResetSessionConflictKeeps
  <2> HIDE DEF n
  <2>7. o \in Worker /\ o.farming = "off" /\ o.blocked = FALSE /\ o.connected = FALSE
    BY <2>6 DEF Worker
  <2> HIDE DEF o
  <2>8. /\ p \in Worker /\ p.farming = "off" /\ p.blocked = FALSE
        /\ p.connected = FALSE /\ p.desired = "paused"
    BY <2>7, SetDesiredStateKeeps DEF Desires, SameConflict
  <2> HIDE DEF p
  <2>9. Quiet(p, q) /\ q.status = "error"
    BY <2>8, SetStatusKeeps, Literals
  <2>10. q.farming \in {p.farming, "off"}
    BY <2>8, SetStatusGames, Literals
  <2> HIDE DEF q
  <2> QED
    BY <2>1, <2>8, <2>9, <2>10, Inactive DEF Silent, Quiet, SameConflict
<1> QED
  BY <1>2, <1>3, <1>4 DEF SafetyPause

LEMMA ApplyFarmingSelectionGames ==
    ASSUME NEW s \in Worker, NEW selection \in {"empty", "games"}
    PROVE  LET t == ApplyFarmingSelection(s, selection) IN t = s \/ Fresh(t)
<1> DEFINE a == [s EXCEPT !.farming = selection, !.awaiting = FALSE]
           t == ApplyFarmingSelection(s, selection)
<1>1. a \in Worker /\ a.connected = s.connected /\ a.status = s.status
  BY DEF Worker
<1>2. t = s \/ (s.connected /\ s.status \in Active /\ t = ApplyGames(a, "none"))
  BY DEF ApplyFarmingSelection, FarmingAllowed
<1> HIDE DEF a
<1>3. s.connected /\ s.status \in Active => Fresh(ApplyGames(a, "none"))
  BY <1>1, ApplyGamesFresh
<1> QED
  BY <1>2, <1>3

LEMMA LoggedOnGames ==
    ASSUME NEW s \in Worker, NEW manual \in {"none", "manual"}
    PROVE  Fresh(LoggedOn(s, manual))
<1> DEFINE a == ClearRetryTimers(s)
           b == ResetSessionConflict(a)
           c == ClearRecoveryHealth(b)
           d == [c EXCEPT !.connected = TRUE]
           e == SetStatus(d, "online")
<1>1. LoggedOn(s, manual) = ApplyGames(e, manual)
  BY DEF LoggedOn
<1>2. a \in Worker
  BY ClearRetryTimersFacts
<1> HIDE DEF a
<1>3. b \in Worker
  BY <1>2, ResetSessionConflictFacts
<1> HIDE DEF b
<1>4. c \in Worker
  BY <1>3, ClearRecoveryHealthFacts
<1> HIDE DEF c
<1>5. d \in Worker /\ d.connected = TRUE
  BY <1>4 DEF Worker
<1> HIDE DEF d
<1>6. e \in Worker /\ e.connected /\ e.status = "online"
  BY <1>5, SetStatusKeeps, Literals DEF Quiet
<1> HIDE DEF e
<1>7. "online" \in Active
  BY DEF Active
<1> QED
  BY <1>1, <1>6, <1>7, ApplyGamesFresh

LEMMA PauseIfFarmingGames ==
    ASSUME NEW s \in Worker, NEW wasFarming \in BOOLEAN
    PROVE  LET t == PauseIfFarming(s, wasFarming) IN t \in Worker /\ SameGames(s, t)
<1> DEFINE a == [s EXCEPT !.paused = TRUE]
           b == SetDesiredState(a, "paused")
<1>1. PauseIfFarming(s, wasFarming) = IF wasFarming THEN b ELSE s
  BY DEF PauseIfFarming
<1>2. a \in Worker /\ SameGames(s, a)
  BY DEF Worker, SameGames
<1> HIDE DEF a
<1>3. b \in Worker
  BY <1>2, SetDesiredStateFacts DEF Desires
<1>4. SameGames(a, b)
  BY <1>2, BookkeepingGames DEF Desires
<1> HIDE DEF b
<1>5. SameGames(s, b) /\ SameGames(s, s)
  BY <1>2, <1>4 DEF SameGames
<1> QED
  BY <1>1, <1>3, <1>5

LEMMA PlayingBlockedGames ==
    ASSUME NEW s \in Worker
    PROVE  Silent(PlayingBlocked(s))
<1> DEFINE a == [s EXCEPT !.blocked = TRUE]
           b == ClearFarmingSelection(a, FALSE)
           c == PauseIfFarming(b, s.farming # "off")
           d == ReportGames(c, "none")
           e == SetStatus(d, "paused_other_session")
           f == RegisterSessionConflict(e, "live")
           t == PlayingBlocked(s)
<1>1. t \in {e, f}
  BY DEF PlayingBlocked
<1>2. a \in Worker
  BY DEF Worker
<1> HIDE DEF a
<1>3. b \in Worker /\ b.farming = "off"
  BY <1>2, ClearFarmingSelectionKeeps DEF Quiet
<1> HIDE DEF b
<1>4. c \in Worker /\ c.farming = "off"
  <2>1. (s.farming # "off") \in BOOLEAN
    OBVIOUS
  <2> QED
    BY <1>3, <2>1, PauseIfFarmingGames DEF SameGames
<1> HIDE DEF c
<1>5. d \in Worker
  BY <1>4, ReportGamesFacts, Literals
<1>6. d.farming = "off" /\ d.reported = "none" /\ d.playing = "none"
  BY <1>4, ReportGamesGames, Literals
<1> HIDE DEF d
<1>7. Silent(e)
  BY <1>5, <1>6, HushedSetStatus, Inactive DEF Hushed
<1>8. e \in Worker /\ e.reported = "none" /\ e.playing = "none"
  <2>1. e \in Worker
    BY <1>5, SetStatusFacts, Literals
  <2>2. e.reported = d.reported /\ e.playing = d.playing
    BY <1>5, SetStatusGames, Literals
  <2> QED
    BY <1>6, <2>1, <2>2
<1> HIDE DEF e
<1>9. SameGames(e, f)
  BY <1>8, BookkeepingGames
<1> HIDE DEF f, t
<1>10. Silent(f)
  BY <1>7, <1>8, <1>9 DEF Silent, SameGames
<1> QED
  BY <1>1, <1>7, <1>10 DEF t

LEMMA PlayingFreeGames ==
    ASSUME NEW s \in Worker, Proper(s), NEW manual \in {"none", "manual"}
    PROVE  LET t == PlayingFree(s, manual) IN Fresh(t) \/ Kept(s, t)
<1> DEFINE a == [s EXCEPT !.blocked = FALSE]
           b == [a EXCEPT !.conflict = "off"]
           c == ResetSessionConflict(b)
           d == ClearRecoveryHealth(c)
           u == ApplyGames(d, manual)
           t == PlayingFree(s, manual)
           heard == s.blocked /\ ~s.paused /\ s.desired = "running"
<1>1. t = IF heard THEN u ELSE a
  BY DEF PlayingFree
<1>2. /\ a \in Worker /\ SameSession(s, a) /\ SameGames(s, a)
      /\ a.handled = s.handled /\ a.blocked = FALSE
  BY DEF Worker, SameSession, SameGames
<1> HIDE DEF a
<1>3. b \in Worker /\ SameSession(a, b) /\ SameGames(a, b)
  BY <1>2 DEF Worker, SameSession, SameGames
<1> HIDE DEF b
<1>4. c \in Worker /\ SameSession(b, c) /\ c.handled = FALSE /\ c.blocked = FALSE
  BY <1>3, ResetSessionConflictKeeps
<1>5. SameGames(b, c)
  BY <1>3, BookkeepingGames
<1> HIDE DEF c
<1>6. Quiet(c, d)
  BY <1>4, ClearRecoveryHealthKeeps
<1>7. SameGames(c, d)
  BY <1>4, BookkeepingGames
<1> HIDE DEF d
<1>8. d \in Worker /\ d.connected = s.connected /\ SameGames(s, d)
  BY <1>2, <1>3, <1>4, <1>5, <1>6, <1>7 DEF Quiet, SameSession, SameGames
<1>9. ~heard => Kept(s, t)
  <2> HIDE DEF heard
  <2> QED
    BY <1>1, <1>2 DEF Kept, SameSession, SameGames
<1>10. heard /\ ~s.connected => Kept(s, t)
  <2>1. ~s.connected => u = d
    BY <1>8 DEF ApplyGames
  <2> HIDE DEF u, heard, t
  <2>2. Kept(s, d)
    BY <1>2, <1>3, <1>4, <1>6, <1>8
    DEF Kept, Quiet, SameSession, SameGames, SameConflict
  <2> QED
    BY <1>1, <2>1, <2>2
<1>11. heard /\ s.connected => Fresh(t)
  <2>1. d.farming = "games" => d.status \in Active
    BY <1>8 DEF Proper, SameGames
  <2>2. s.connected => Fresh(u)
    BY <1>8, <2>1, ApplyGamesFresh
  <2> HIDE DEF u, heard, t
  <2> QED
    BY <1>1, <2>2
<1> QED
  BY <1>9, <1>10, <1>11


\* What is left of a session that was lost.
Gone(s, u) ==
    /\ u \in Worker /\ u.connected = FALSE /\ u.client = s.client
    /\ u.status \notin Active /\ u.farming = "off"

LEMMA SessionLostGames ==
    ASSUME NEW s \in Worker, NEW failure \in Failures, NEW resumes \in BOOLEAN
    PROVE  SessionLost(s, failure, resumes).farming = "off"
<1> DEFINE keep == KeepsRunningForFarming(s, failure, resumes)
           was == s.farming # "off" /\ ~keep
           a == ClearFarmingSelection(s, FALSE)
           b == [a EXCEPT !.connected = FALSE]
           c == [b EXCEPT !.awaiting = keep]
           t == PauseIfFarming(c, was)
<1>1. SessionLost(s, failure, resumes) = t
  BY DEF SessionLost
<1>2. keep \in BOOLEAN /\ was \in BOOLEAN
  BY DEF KeepsRunningForFarming
<1> HIDE DEF keep, was
<1>3. a \in Worker /\ a.farming = "off"
  BY ClearFarmingSelectionKeeps DEF Quiet
<1> HIDE DEF a
<1>4. b \in Worker /\ b.farming = "off"
  BY <1>3 DEF Worker
<1> HIDE DEF b
<1>5. c \in Worker /\ c.farming = "off"
  BY <1>2, <1>4 DEF Worker
<1> HIDE DEF c
<1> QED
  BY <1>1, <1>2, <1>5, PauseIfFarmingGames DEF SameGames

\* setStatus to a status that is neither online nor boosting, after the loss.
LEMMA GoneSetStatus ==
    ASSUME NEW s, NEW t \in Worker, t.connected = FALSE, t.client = s.client,
           t.farming = "off", NEW st \in Statuses \ Active
    PROVE  Gone(s, SetStatus(t, st))
<1> DEFINE u == SetStatus(t, st)
<1>1. Quiet(t, u) /\ u.status = st
  BY SetStatusKeeps
<1>2. u.farming \in {t.farming, "off"}
  BY SetStatusGames
<1> HIDE DEF u
<1>3. Gone(s, u)
  BY <1>1, <1>2 DEF Gone, Quiet
<1> QED
  BY <1>3 DEF u

LEMMA GoneTransitive ==
    ASSUME NEW s, NEW t, Gone(s, t), NEW u \in Worker, SameSession(t, u),
           u.status = t.status, u.farming = t.farming
    PROVE  Gone(s, u)
  BY DEF Gone, SameSession

LEMMA LossGames ==
    ASSUME NEW s \in Worker, Sound(s), Proper(s),
           NEW failure \in Failures, NEW resumes \in BOOLEAN,
           NEW u \in {Disconnected(s, failure, resumes), ClientError(s, failure, resumes)}
    PROVE  Gone(s, u)
<1> DEFINE t == SessionLost(s, failure, resumes)
<1>1. /\ t \in Worker /\ t.connected = FALSE /\ t.client = s.client
      /\ SameConflict(s, t) /\ t.status = s.status
  <2>1. /\ t \in Worker /\ ~t.connected /\ t.client = s.client
        /\ SameConflict(s, t) /\ t.status = s.status
    BY SessionLostCases
  <2> HIDE DEF t
  <2>2. t.connected \in BOOLEAN
    BY <2>1 DEF Worker
  <2> QED
    BY <2>1, <2>2
<1>2. t.farming = "off"
  BY SessionLostGames
<1>3. CASE s.handled
  <2>1. u = t
    BY <1>3 DEF Disconnected, ClientError
  <2> HIDE DEF t
  <2> QED
    BY <1>1, <1>2, <1>3, <2>1 DEF Gone, Proper
<1>4. CASE ~s.handled /\ failure = "conflict"
  <2>1. u = HandleLoginSessionConflict(t)
    BY <1>4 DEF Disconnected, ClientError
  <2> DEFINE a == [t EXCEPT !.handled = TRUE, !.connected = FALSE, !.blocked = FALSE]
             b == SetStatus(a, "reconnecting")
             c == RegisterSessionConflict(b, "login")
  <2>2. u = c
    BY <1>1, <1>4, <2>1 DEF HandleLoginSessionConflict, SameConflict
  <2> HIDE DEF t
  <2>3. /\ a \in Worker /\ a.connected = FALSE /\ a.client = t.client
        /\ a.farming = "off"
    BY <1>1, <1>2 DEF Worker
  <2> HIDE DEF a
  <2>4. Gone(s, b)
    BY <1>1, <2>3, GoneSetStatus, Inactive
  <2> HIDE DEF b
  <2>5. /\ c \in Worker /\ SameSession(b, c)
        /\ c.status = b.status /\ c.farming = b.farming
    BY <2>4, RegisterSessionConflictKeeps DEF Gone
  <2> HIDE DEF c
  <2> QED
    BY <2>2, <2>4, <2>5, GoneTransitive
<1>5. CASE ~s.handled /\ failure = "auth"
  <2>1. u = HandleTerminalFailure(t)
    BY <1>5 DEF Disconnected, ClientError
  <2> DEFINE a == ClearRetryTimers(t)
             b == ResetSessionConflict(a)
             c == [b EXCEPT !.connected = FALSE, !.health = "terminal"]
             d == SetDesiredState(c, "paused")
  <2>2. u = SetStatus(d, "login_required")
    BY <2>1 DEF HandleTerminalFailure
  <2> HIDE DEF t
  <2>3. a \in Worker /\ a.client = t.client /\ a.farming = "off"
    BY <1>1, <1>2, ClearRetryTimersKeeps DEF SameSession
  <2> HIDE DEF a
  <2>4. b \in Worker /\ b.client = a.client /\ b.farming = "off"
    BY <2>3, ResetSessionConflictKeeps DEF SameSession
  <2> HIDE DEF b
  <2>5. c \in Worker /\ c.client = b.client /\ c.connected = FALSE /\ c.farming = "off"
    BY <2>4 DEF Worker
  <2> HIDE DEF c
  <2>6. /\ d \in Worker /\ d.client = c.client /\ d.connected = FALSE
        /\ d.farming = "off"
    BY <2>5, SetDesiredStateKeeps DEF Desires
  <2> HIDE DEF d
  <2> QED
    BY <1>1, <2>2, <2>3, <2>4, <2>5, <2>6, GoneSetStatus, Inactive
<1>6. CASE ~s.handled /\ failure = "transient"
  <2>1. \E st \in Statuses \ Active :
          LET v == SetStatus(t, st) IN u \in {v, ScheduleReconnect(v)}
    <3> HIDE DEF t
    <3>1. CASE u = ClientError(s, failure, resumes)
      BY <1>6, <3>1, Inactive DEF ClientError, t
    <3>2. CASE u = Disconnected(s, failure, resumes)
      BY <1>6, <3>2, Inactive DEF Disconnected, t
    <3> QED
      BY <3>1, <3>2
  <2>2. PICK st \in Statuses \ Active :
          u \in {SetStatus(t, st), ScheduleReconnect(SetStatus(t, st))}
    BY <2>1
  <2> HIDE DEF t
  <2> DEFINE v == SetStatus(t, st)
             a == ClearRetryTimers(v)
             b == ResetSessionConflict(a)
             x == ScheduleReconnect(v)
  <2>3. Gone(s, v)
    BY <1>1, <1>2, GoneSetStatus
  <2>4. u \in {v, x}
    BY <2>2
  <2> HIDE DEF v
  <2>5. a \in Worker /\ a.farming = v.farming
    BY <2>3, ClearRetryTimersKeeps DEF Gone
  <2>6. x = [b EXCEPT !.reconnect = "live", !.health = "scheduled"]
    BY DEF ScheduleReconnect
  <2> HIDE DEF a
  <2>7. b \in Worker /\ b.farming = a.farming
    BY <2>5, ResetSessionConflictKeeps
  <2> HIDE DEF b
  <2>8. x.farming = v.farming
    BY <2>5, <2>6, <2>7 DEF Worker
  <2>9. x \in Worker /\ SameSession(v, x) /\ x.status = v.status
    BY <2>3, ScheduleReconnectKeeps DEF Gone
  <2> HIDE DEF x
  <2> QED
    BY <2>3, <2>4, <2>8, <2>9, GoneTransitive
<1> QED
  BY <1>3, <1>4, <1>5, <1>6 DEF Failures

LEMMA RetrySessionConflictGames ==
    ASSUME NEW s \in Worker, Proper(s), s.desired = "running",
           NEW cooldown \in BOOLEAN, NEW token \in BOOLEAN,
           NEW manual \in {"none", "manual"}
    PROVE  LET t == RetrySessionConflict(s, cooldown, token, manual)
           IN \/ s.mode = "live" /\ ~s.blocked
              \/ s.mode = "live" /\ t \in Worker /\ Retried(s, t)
              \/ s.mode # "live" /\ Started(s, t)
<1> DEFINE a == IF cooldown THEN [s EXCEPT !.attempt = 0] ELSE s
           p == Payload(a, manual)
           b == ReportGames(a, p)
           c == RegisterSessionConflict(b, "live")
           d == StartNow(a, token)
           t == RetrySessionConflict(s, cooldown, token, manual)
<1>1. /\ a.mode = "live" /\ a.blocked => t = c
      /\ a.mode # "live" => t = d
  BY DEF RetrySessionConflict, RetryLiveSessionConflict
<1>2. Same(s, a)
  <2>1. CASE cooldown
    BY <2>1, Literals DEF Worker, Same, Quiet, SameTimers, SameConflict, SameGames
  <2>2. CASE ~cooldown
    BY <2>2, QuietSelf DEF Same, SameGames
  <2> QED
    BY <2>1, <2>2
<1>3. a \in Worker /\ a.mode = s.mode /\ a.blocked = s.blocked
  BY <1>2 DEF Same, Quiet, SameConflict
<1> HIDE DEF a, t
<1>4. CASE s.mode = "live" /\ s.blocked
  <2>1. /\ p \in Payloads
        /\ p = "farming" => a.farming = "games"
        /\ p = "manual" => a.farming = "off" /\ ~a.awaiting
    BY <1>3, PayloadGames
  <2> HIDE DEF p
  <2>2. Quiet(a, b) /\ b.status = a.status
    BY <1>3, <2>1, ReportGamesKeeps
  <2>3. /\ b.reported = p
        /\ b.playing = IF a.client = "on" THEN p ELSE "none"
        /\ b.farming = a.farming /\ b.awaiting = a.awaiting
    BY <1>3, <2>1, ReportGamesGames
  <2> HIDE DEF b
  <2>4. b \in Worker
    BY <2>2 DEF Quiet
  <2>5. /\ c \in Worker /\ SameSession(b, c)
        /\ c.handled = b.handled /\ c.blocked = b.blocked /\ c.mode = "live"
        /\ Retrying(c)
    BY <2>4, RegisterSessionConflictKeeps
  <2>6. SameGames(b, c)
    BY <2>4, BookkeepingGames
  <2> HIDE DEF c
  <2>7. s.farming # "games"
    BY <1>4 DEF Proper
  <2>8. /\ c.farming = s.farming /\ c.status = s.status /\ c.reported = p
        /\ c.connected = s.connected /\ c.client = s.client /\ c.paused = s.paused
        /\ c.handled = s.handled /\ c.blocked = s.blocked /\ c.desired = s.desired
        /\ c.awaiting = a.awaiting /\ a.farming = s.farming
        /\ c.playing = b.playing /\ a.client = s.client
    BY <1>2, <2>2, <2>3, <2>5, <2>6
    DEF Same, Quiet, SameSession, SameConflict, SameGames
  <2>9. Retried(s, c)
    BY <1>4, <2>1, <2>3, <2>5, <2>7, <2>8 DEF Retried
  <2>10. t = c
    BY <1>1, <1>3, <1>4
  <2> QED
    BY <1>4, <2>5, <2>9, <2>10 DEF t
<1>5. CASE s.mode # "live"
  <2>1. Started(a, d)
    BY <1>3, StartNowGames
  <2> HIDE DEF d
  <2>2. Started(s, d)
    BY <1>2, <2>1, SameStarted
  <2>3. t = d
    BY <1>1, <1>3, <1>5
  <2> QED
    BY <1>5, <2>2, <2>3 DEF t
<1> QED
  BY <1>4, <1>5


LEMMA EnteringShows ==
    ASSUME IInv, IInv', RInv', NEW t, Turn(t), Entering(t)
    PROVE  GInv'
<1>1. Shown(t)
  BY TurnFacts DEF IInv
<1>2. Silent(t)
  BY <1>1 DEF Silent, Entering, Shown, Active
<1> QED
  BY <1>2, SilentShows

\* Where a start leads, whether a user, the boot or a timer asks for it.
LEMMA StartShows ==
    ASSUME IInv, IInv', RInv, RInv', GInv, NEW t, Turn(t), Started(w, t),
           Head(queue).op \in {"start", "auto_start"} \cup Timers,
           Head(queue).op \in Retries => w.mode # "live"
    PROVE  GInv'
<1>1. /\ Head(queue).op \notin Losses \cup {"stop", "loggedOn"}
      /\ Head(queue).op \notin Mends
  BY DEF Losses, Mends, Timers, Commands
<1>2. Proper(w)
  BY DEF Turn, GInv, Showing
<1>3. CASE Busy(w) /\ Same(w, t)
  <2>1. w.connected \/ t.status \notin Active
    BY <1>3 DEF Busy, Active, Same, SameGames
  <2>2. Kept(w, t)
    BY <1>3 DEF Kept, Same, SameGames, Quiet, SameTimers, SameConflict, Retrying
  <2> QED
    BY <1>1, <2>1, <2>2, KeptShows
<1>4. CASE /\ ~Busy(w) /\ Quiet(w, t) /\ t.status = "login_required"
           /\ t.reported = w.reported /\ t.playing = w.playing
           /\ t.awaiting => w.awaiting
           /\ t.farming \in {w.farming, "off"}
  <2>1. w.farming # "games"
    BY <1>2, <1>4 DEF Proper, Busy
  <2>2. t.status \notin Active /\ t.farming # "games"
    BY <1>4, <2>1 DEF Active
  <2>3. Kept(w, t)
    BY <1>4, <2>1, <2>2 DEF Kept, Quiet, SameTimers, SameConflict, Retrying
  <2> QED
    BY <1>1, <2>2, <2>3, KeptShows
<1>5. CASE Entering(t)
  BY <1>5, EnteringShows
<1> QED
  BY <1>3, <1>4, <1>5 DEF Started

\* Where a resume leads.
LEMMA WokeShows ==
    ASSUME IInv, IInv', RInv, RInv', GInv, NEW t, Turn(t), Woke(w, t),
           Head(queue).op \in {"resume", "auto_resume", "farm_resume"}
    PROVE  GInv'
<1>1. CASE Fresh(t)
  BY <1>1, FreshShows
<1>2. CASE Entering(t)
  BY <1>2, EnteringShows
<1>3. CASE ~w.connected /\ Kept(w, t)
  <2>1. /\ Head(queue).op \notin Losses \cup {"stop", "loggedOn"}
        /\ Head(queue).op # "auto_start" /\ Head(queue).op \notin Retries
    BY DEF Losses, Retries
  <2> QED
    BY <1>3, <2>1, KeptShows
<1> QED
  BY <1>1, <1>2, <1>3 DEF Woke

\* An operation that finds nothing to do.
LEMMA IdleShows ==
    ASSUME IInv, RInv, GInv, Turn(w),
           Head(queue).op \in Farming \cup {"farm_resume"} \cup Timers,
           Head(queue).op \in Retries => w.desired # "running" \/ ~Head(queue).live
    PROVE  GInv'
<1>1. /\ Head(queue).op \notin Losses \cup {"stop", "loggedOn"}
      /\ Head(queue).op \notin Mends /\ Head(queue).op # "auto_start"
  BY DEF Losses, Mends, Timers, Commands, Farming
<1>2. Kept(w, w)
  BY DEF Kept
<1> QED
  BY <1>1, <1>2, KeptShows

\* A loss is heard.
LEMMA GoneShows ==
    ASSUME IInv, IInv', RInv', NEW t, Turn(t), Gone(w, t), Head(queue).op \in Losses
    PROVE  GInv'
<1>1. w.client # "on"
  <2>1. LossIn(queue)
    BY TailFacts DEF Turn, IInv, TypeOK, Losses
  <2> QED
    BY <2>1 DEF Turn, IInv, WhileUp
<1>2. Shown(t)
  BY TurnFacts DEF IInv
<1>3. Silent(t)
  BY <1>1, <1>2 DEF Silent, Shown, Gone
<1> QED
  BY <1>3, SilentShows

\* A login is told to an account that has been paused or stopped meanwhile.
LEMMA UnwantedLoginShows ==
    ASSUME IInv, GInv, Turn(w), Head(queue).op = "loggedOn", w.desired # "running"
    PROVE  GInv'
<1>1. /\ w' = w /\ phase' = "up" /\ importing' = importing
      /\ In(queue, Mends) => In(queue', Mends)
      /\ "attention" \in lapses => "attention" \in lapses'
      /\ "held" \in lapses => "held" \in lapses'
  <2>1. "loggedOn" \notin Mends
    BY DEF Mends, Commands
  <2> QED
    BY <2>1, TurnFacts
<1>2. Showing(w, queue, lapses, importing)
  BY DEF Turn, GInv
<1>3. /\ Proper(w) /\ FarmingIsKnown(w, lapses') /\ Fitting(w, queue', lapses')
      /\ AnswerIsDue(w, queue') /\ ReportIsShown(w, queue')
      /\ StatusIsTrue(w, queue', lapses', importing') /\ ActiveIsWanted(w, lapses')
  BY <1>1, <1>2
  DEF Showing, Proper, FarmingIsKnown, Fitting, AnswerIsDue, ReportIsShown, StatusIsTrue,
      ActiveIsWanted
<1> QED
  BY <1>1, <1>3 DEF GInv, Showing

\* An event that is ignored goes into the history.
LEMMA IgnoredShows ==
    ASSUME IInv, RInv, GInv, RunIgnoredEvent
    PROVE  GInv'
<1>1. /\ phase = "up" /\ queue # <<>> /\ w' = w /\ queue' = Tail(queue)
      /\ lapses' = lapses \cup {"ignored"}
      /\ Head(queue).op \in Events /\ ~Head(queue).live
      /\ Recoverable(w, queue, lapses, importing)
      /\ Showing(w, queue, lapses, importing)
  BY DEF RunIgnoredEvent, RInv, GInv
<1>2. Head(queue).op \notin Mends \cup Retries
  BY <1>1 DEF Mends, Commands, Retries, Events
<1>3. /\ In(queue, Mends) => In(queue', Mends)
      /\ Live(queue, Retries) => Live(queue', Retries)
  BY <1>1, <1>2, TailKeeps DEF IInv, TypeOK
<1>4. ~In(queue, Logins)
  BY <1>1 DEF Recoverable, LoginFirst
<1>5. /\ FarmingIsKnown(w, lapses') /\ Fitting(w, queue', lapses')
      /\ AnswerIsDue(w, queue') /\ ReportIsShown(w, queue')
      /\ StatusIsTrue(w, queue', lapses', importing') /\ ActiveIsWanted(w, lapses')
  BY <1>1, <1>3, <1>4
  DEF Showing, FarmingIsKnown, Fitting, AnswerIsDue, ReportIsShown, StatusIsTrue,
      ActiveIsWanted
<1> QED
  BY <1>1, <1>5 DEF GInv, Showing

LEMMA ImportShows ==
    ASSUME IInv, RInv, GInv, RunImport
    PROVE  GInv'
<1>1. /\ phase = "up" /\ queue # <<>> /\ w' = w /\ queue' = Tail(queue)
      /\ lapses' = lapses /\ Head(queue).op = "import"
      /\ Showing(w, queue, lapses, importing)
  BY DEF RunImport, Runs, GInv
<1>2. Head(queue).op \notin Mends \cup Retries \cup Logins \cup Losses
  BY <1>1 DEF Mends, Commands, Retries, Logins, Losses
<1>3. /\ In(queue, Mends) => In(queue', Mends)
      /\ In(queue, Losses) => In(queue', Losses)
      /\ In(queue, Logins) => In(queue', Logins)
      /\ Live(queue, Retries) => Live(queue', Retries)
  BY <1>1, <1>2, TailKeeps DEF IInv, TypeOK
<1>4. /\ FarmingIsKnown(w, lapses') /\ Fitting(w, queue', lapses')
      /\ AnswerIsDue(w, queue') /\ ReportIsShown(w, queue')
      /\ ActiveIsWanted(w, lapses')
  BY <1>1, <1>3
  DEF Showing, FarmingIsKnown, Fitting, AnswerIsDue, ReportIsShown, ActiveIsWanted
<1>5. StatusIsTrue(w, queue', lapses', importing')
  BY <1>1, <1>3 DEF Showing, StatusIsTrue
<1> QED
  BY <1>1, <1>4, <1>5 DEF GInv, Showing

LEMMA ImportEndShows ==
    ASSUME GInv, ImportEnds
    PROVE  GInv'
<1>1. /\ importing /\ w' = w /\ queue' = queue /\ phase' = phase /\ lapses' = lapses
  BY DEF ImportEnds
<1>2. SUFFICES ASSUME phase = "up" PROVE Showing(w, queue, lapses, importing')
  BY <1>1 DEF GInv
<1>3. Showing(w, queue, lapses, importing)
  BY <1>2 DEF GInv
<1> QED
  BY <1>1, <1>3 DEF Showing, StatusIsTrue


LEMMA RunnerShows ==
    ASSUME IInv, IInv', RInv, RInv', GInv, Runner
    PROVE  GInv'
<1>0. w \in Worker /\ Sound(w)
  BY DEF IInv, TypeOK, RInv
<1>1. ASSUME NEW op, Runs(op), NEW t \in Worker, Finish(t)
      PROVE  Turn(t) /\ Head(queue).op = op
  BY <1>1 DEF Turn, Runs
<1>2. ASSUME NEW op, Runs(op)
      PROVE  Proper(w)
  BY <1>2 DEF Runs, GInv, Showing
<1>3. CASE RunStart
  <2> DEFINE s == ClearRecoveryHealth(w)
  <2>1. PICK token \in BOOLEAN : Finish(StartNow(s, token))
    BY <1>3 DEF RunStart
  <2>2. PICK op \in {"start", "auto_start"} : Runs(op)
    BY <1>3 DEF RunStart
  <2>3. Quiet(w, s)
    BY <1>0, ClearRecoveryHealthKeeps
  <2>4. Same(w, s)
    BY <1>0, <2>3, BookkeepingGames DEF Same
  <2> HIDE DEF s
  <2> DEFINE t == StartNow(s, token)
  <2>5. Started(s, t)
    BY <2>3, StartNowGames DEF Quiet
  <2>6. Finish(t)
    BY <2>1
  <2> HIDE DEF t
  <2>7. Started(w, t)
    BY <1>0, <2>4, <2>5, SameStarted
  <2>8. t \in Worker
    BY <2>7 DEF Started, Same, Quiet, Entering
  <2>9. Turn(t) /\ Head(queue).op = op
    BY <1>1, <2>2, <2>6, <2>8
  <2>10. op \notin Retries
    BY DEF Retries
  <2> QED
    BY <2>7, <2>9, <2>10, StartShows
<1>4. CASE RunStop
  <2>1. Silent(StopNow(w))
    BY <1>0, StopNowGames
  <2>2. StopNow(w) \in Worker
    BY <1>0, StopNowHalts DEF Halted
  <2>3. Turn(StopNow(w))
    BY <1>1, <1>4, <2>2 DEF RunStop
  <2> QED
    BY <2>1, <2>3, SilentShows
<1>5. ASSUME NEW op, Runs(op), NEW t \in SafetyPause(w), Finish(t)
      PROVE  GInv'
  <2>1. Silent(t)
    BY <1>0, SafetyPauseGames
  <2>2. t \in Worker
    BY <1>0, SafetyPauseHalts DEF Halted
  <2>3. Turn(t)
    BY <1>1, <1>5, <2>2
  <2> QED
    BY <2>1, <2>3, SilentShows
<1>6. CASE RunPause
  <2>1. PauseNow(w) \in SafetyPause(w)
    BY DEF SafetyPause
  <2> QED
    BY <1>5, <1>6, <2>1 DEF RunPause
<1>7. CASE RunSafetyPause
  BY <1>5, <1>7 DEF RunSafetyPause
<1>8. CASE RunResume
  <2>1. PICK token \in BOOLEAN, manual \in {"none", "manual"} :
          Finish(ResumeNow(w, token, manual))
    BY <1>8 DEF RunResume
  <2>2. PICK op \in {"resume", "auto_resume"} : Runs(op)
    BY <1>8 DEF RunResume
  <2> DEFINE t == ResumeNow(w, token, manual)
  <2>3. Woke(w, t)
    BY <1>0, <1>2, <2>2, ResumeNowGames
  <2>4. \/ Rejoined(w, t) \/ Tokenless(w, t) \/ LoggingOn(w, t)
        \/ w.status = "connecting" /\ Quiet(w, t)
    BY <1>0, ResumeNowCases
  <2>5. Finish(t)
    BY <2>1
  <2> HIDE DEF t
  <2>6. t \in Worker
    BY <2>4 DEF Rejoined, Tokenless, Woken, LoggingOn, Quiet
  <2>7. Turn(t) /\ Head(queue).op = op
    BY <1>1, <2>2, <2>5, <2>6
  <2> QED
    BY <2>3, <2>7, WokeShows
<1>9. CASE RunUpdate
  <2>1. PICK manual \in {"none", "manual"} : Finish(ApplyGames(w, manual))
    BY <1>9 DEF RunUpdate
  <2> DEFINE t == ApplyGames(w, manual)
  <2>2. Quiet(w, t) /\ (~w.connected => t = w)
    BY <1>0, ApplyGamesKeeps
  <2>3. Runs("update") /\ Proper(w)
    BY <1>2, <1>9 DEF RunUpdate
  <2>4. w.connected => Fresh(t)
    BY <1>0, <2>3, ApplyGamesFresh DEF Proper
  <2>5. Finish(t)
    BY <2>1
  <2> HIDE DEF t
  <2>6. Turn(t) /\ Head(queue).op = "update"
    BY <1>1, <2>2, <2>3, <2>5 DEF Quiet
  <2>7. CASE w.connected
    BY <2>4, <2>6, <2>7, FreshShows
  <2>8. CASE ~w.connected
    <3>1. /\ Head(queue).op \notin Losses \cup {"stop", "loggedOn"}
          /\ Head(queue).op # "auto_start" /\ Head(queue).op \notin Retries
      BY <2>6 DEF Losses, Retries
    <3>2. Kept(w, t)
      BY <2>2, <2>8 DEF Kept
    <3> QED
      BY <2>6, <2>8, <3>1, <3>2, KeptShows
  <2> QED
    BY <2>7, <2>8
<1>10. ASSUME NEW op \in Farming \cup {"farm_resume"}, Runs(op), Finish(w)
       PROVE  GInv'
  <2>1. Turn(w) /\ Head(queue).op = op
    BY <1>0, <1>1, <1>10
  <2>2. op \notin Retries
    BY DEF Farming, Retries
  <2> QED
    BY <2>1, <2>2, IdleShows
<1>11. CASE RunFarmResume
  <2>1. Runs("farm_resume")
    BY <1>11 DEF RunFarmResume
  <2>2. CASE \E token \in BOOLEAN, manual \in {"none", "manual"} :
               Finish(ResumeForFarming(w, token, manual))
    <3>1. PICK token \in BOOLEAN, manual \in {"none", "manual"} :
            Finish(ResumeForFarming(w, token, manual))
      BY <2>2
    <3> DEFINE t == ResumeForFarming(w, token, manual)
    <3>2. t = w \/ Woke(w, t)
      BY <1>0, <1>2, <2>1, ResumeForFarmingGames
    <3>3. t = w \/ Rejoined(w, t) \/ Tokenless(w, t) \/ LoggingOn(w, t)
      BY <1>0, ResumeForFarmingCases
    <3>4. Finish(t)
      BY <3>1
    <3> HIDE DEF t
    <3>5. t \in Worker
      BY <1>0, <3>3 DEF Rejoined, Tokenless, Woken, LoggingOn
    <3>6. Turn(t) /\ Head(queue).op = "farm_resume"
      BY <1>1, <2>1, <3>4, <3>5
    <3> QED
      BY <1>10, <2>1, <3>2, <3>4, <3>6, WokeShows
  <2> QED
    BY <1>10, <1>11, <2>1, <2>2 DEF RunFarmResume
<1>12. CASE RunFarmSelection
  <2>1. PICK op \in {"farm_empty", "farm_games"} : Runs(op)
    BY <1>12 DEF RunFarmSelection
  <2>2. CASE Finish(w)
    BY <1>10, <2>1, <2>2 DEF Farming
  <2>3. CASE ~Finish(w)
    <3>1. PICK selection \in {"empty", "games"} : Finish(ApplyFarmingSelection(w, selection))
      BY <1>12, <2>3 DEF RunFarmSelection
    <3> DEFINE t == ApplyFarmingSelection(w, selection)
    <3>2. t = w \/ (Quiet(w, t) /\ t.status # "connecting")
      BY <1>0, ApplyFarmingSelectionKeeps
    <3>3. t = w \/ Fresh(t)
      BY <1>0, ApplyFarmingSelectionGames
    <3>4. Finish(t)
      BY <3>1
    <3> HIDE DEF t
    <3>5. Turn(t)
      BY <1>0, <1>1, <2>1, <3>2, <3>4 DEF Quiet
    <3> QED
      BY <2>3, <3>3, <3>4, <3>5, FreshShows
  <2> QED
    BY <2>2, <2>3
<1>13. CASE RunFarmEnd
  <2>1. Runs("farm_end")
    BY <1>13 DEF RunFarmEnd
  <2>2. Finish(w) \/ \E t \in SafetyPause(w) : Finish(t)
    BY <1>13 DEF RunFarmEnd
  <2> QED
    BY <1>5, <1>10, <2>1, <2>2 DEF Farming
<1>14. CASE RunLoggedOn
  <2>1. Runs("loggedOn")
    BY <1>14 DEF RunLoggedOn
  <2>2. CASE w.desired = "running"
    <3>1. PICK manual \in {"none", "manual"} : Finish(LoggedOn(w, manual))
      BY <1>14, <2>2 DEF RunLoggedOn
    <3> DEFINE t == LoggedOn(w, manual)
    <3>2. t \in Worker
      BY <1>0, LoggedOnConnects
    <3>3. Fresh(t)
      BY <1>0, LoggedOnGames
    <3>4. Finish(t)
      BY <3>1
    <3> HIDE DEF t
    <3>5. Turn(t)
      BY <1>1, <2>1, <3>2, <3>4
    <3> QED
      BY <3>3, <3>5, FreshShows
  <2>3. CASE w.desired # "running"
    <3>1. Finish(w)
      BY <1>14, <2>3 DEF RunLoggedOn
    <3>2. Turn(w) /\ Head(queue).op = "loggedOn"
      BY <1>0, <1>1, <2>1, <3>1
    <3> QED
      BY <2>3, <3>2, UnwantedLoginShows
  <2> QED
    BY <2>2, <2>3
<1>15. CASE RunPlayingState
  <2>1. CASE Head(queue).op = "blocked"
    <3> DEFINE t == PlayingBlocked(w)
    <3>1. Halted(w, t) \/ Blocked(w, t)
      BY <1>0, PlayingBlockedCases
    <3>2. Silent(t)
      BY <1>0, PlayingBlockedGames
    <3>3. Finish(t) /\ Runs("blocked")
      BY <1>15, <2>1 DEF RunPlayingState, Runs
    <3> HIDE DEF t
    <3>4. Turn(t)
      BY <1>1, <3>1, <3>3 DEF Halted, Blocked
    <3> QED
      BY <3>2, <3>4, SilentShows
  <2>2. CASE Head(queue).op # "blocked"
    <3>1. PICK manual \in {"none", "manual"} : Finish(PlayingFree(w, manual))
      BY <1>15, <2>2 DEF RunPlayingState
    <3>2. Runs("free") /\ Head(queue).op = "free"
      BY <1>15, <2>2 DEF RunPlayingState, Runs
    <3> DEFINE t == PlayingFree(w, manual)
    <3>3. \/ Halted(w, t) \/ Freed(w, t)
          \/ Quiet(w, t) /\ t.status = w.status /\ t.farming = w.farming
      BY <1>0, PlayingFreeCases
    <3>4. Fresh(t) \/ Kept(w, t)
      BY <1>0, <1>2, <3>2, PlayingFreeGames
    <3>5. Finish(t)
      BY <3>1
    <3> HIDE DEF t
    <3>6. Turn(t)
      BY <1>1, <3>2, <3>3, <3>5 DEF Halted, Freed, Quiet
    <3>7. /\ Head(queue).op \notin Losses \cup {"stop", "loggedOn"}
          /\ Head(queue).op # "auto_start"
          /\ Head(queue).op \notin Retries /\ Head(queue).op \notin Mends
      BY <3>2 DEF Losses, Retries, Mends, Commands
    <3> QED
      BY <3>4, <3>6, <3>7, FreshShows, KeptShows
  <2> QED
    BY <2>1, <2>2
<1>16. CASE RunDisconnected \/ RunError
  <2>1. PICK op \in Losses : Runs(op)
    BY <1>16 DEF RunDisconnected, RunError, Losses
  <2>2. Head(queue).op = op /\ Head(queue).arg \in Failures
    <3>1. Head(queue) \in Item /\ Head(queue).op = op
      BY <2>1, RunsFacts
    <3> QED
      BY <3>1 DEF Item, Losses
  <2>3. PICK resumes \in BOOLEAN :
          \E t \in {Disconnected(w, Head(queue).arg, resumes),
                    ClientError(w, Head(queue).arg, resumes)} : Finish(t)
    BY <1>16 DEF RunDisconnected, RunError
  <2> PICK t \in {Disconnected(w, Head(queue).arg, resumes),
                  ClientError(w, Head(queue).arg, resumes)} : Finish(t)
    BY <2>3
  <2>4. Gone(w, t)
    BY <1>0, <1>2, <2>1, <2>2, LossGames
  <2>5. Turn(t)
    BY <1>1, <2>1, <2>4 DEF Gone
  <2> QED
    BY <2>2, <2>4, <2>5, GoneShows
<1>17. ASSUME NEW op \in Timers, Runs(op), Finish(w), ~TimerCounts
       PROVE  GInv'
  <2>1. Turn(w) /\ Head(queue).op = op
    BY <1>0, <1>1, <1>17
  <2>2. w.desired # "running" \/ ~Head(queue).live
    BY <1>17 DEF TimerCounts
  <2> QED
    BY <2>1, <2>2, IdleShows
<1>18. CASE RunReconnect
  <2>1. Runs("reconnect") /\ "reconnect" \in Timers /\ "reconnect" \notin Retries
    BY <1>18 DEF RunReconnect, Timers, Retries
  <2>2. CASE TimerCounts
    <3>1. PICK token \in BOOLEAN : Finish(StartNow(w, token))
      BY <1>18, <2>2 DEF RunReconnect
    <3> DEFINE t == StartNow(w, token)
    <3>2. Started(w, t)
      BY <1>0, StartNowGames
    <3>3. Finish(t)
      BY <3>1
    <3> HIDE DEF t
    <3>4. t \in Worker
      BY <3>2 DEF Started, Same, Quiet, Entering
    <3>5. Turn(t) /\ Head(queue).op = "reconnect"
      BY <1>1, <2>1, <3>3, <3>4
    <3> QED
      BY <2>1, <3>2, <3>5, StartShows
  <2>3. CASE ~TimerCounts
    <3>1. Finish(w)
      BY <1>18, <2>3 DEF RunReconnect
    <3> QED
      BY <1>17, <2>1, <2>3, <3>1
  <2> QED
    BY <2>2, <2>3
<1>19. CASE RunConflictRetry
  <2>1. PICK op \in Retries : Runs(op)
    BY <1>19 DEF RunConflictRetry, Retries
  <2>2. Head(queue).op = op /\ phase = "up" /\ queue # <<>> /\ op \in Timers
    BY <2>1, Kinds DEF Runs
  <2>3. CASE TimerCounts
    <3>1. PICK cooldown \in BOOLEAN, token \in BOOLEAN, manual \in {"none", "manual"} :
            Finish(RetrySessionConflict(w, cooldown, token, manual))
      BY <1>19, <2>3 DEF RunConflictRetry
    <3> DEFINE t == RetrySessionConflict(w, cooldown, token, manual)
    <3>2. \/ w.mode = "live" /\ ~w.blocked
          \/ w.mode = "live" /\ t \in Worker /\ Retried(w, t)
          \/ w.mode # "live" /\ Started(w, t)
      BY <1>0, <1>2, <2>1, <2>3, RetrySessionConflictGames DEF TimerCounts
    <3>3. Finish(t)
      BY <3>1
    <3> HIDE DEF t
    <3>4. Live(queue, Retries)
      BY <2>2, <2>3, TailKeeps DEF TimerCounts, IInv, TypeOK
    <3>5. ~(w.mode = "live" /\ ~w.blocked)
      BY <2>2, <2>3, <3>4 DEF TimerCounts, RInv, Recoverable, RetryIsBlocked
    <3>6. t \in Worker
      BY <3>2, <3>5 DEF Started, Same, Quiet, Entering
    <3>7. Turn(t)
      BY <1>1, <2>1, <3>3, <3>6
    <3> QED
      BY <2>2, <3>2, <3>5, <3>7, RetriedShows, StartShows
  <2>4. CASE ~TimerCounts
    <3>1. Finish(w)
      BY <1>19, <2>4 DEF RunConflictRetry
    <3> QED
      BY <1>17, <2>1, <2>2, <2>4, <3>1
  <2> QED
    BY <2>3, <2>4
<1> QED
  BY <1>3, <1>4, <1>6, <1>7, <1>8, <1>9, <1>11, <1>12, <1>13, <1>14, <1>15, <1>16,
     <1>18, <1>19, IgnoredShows, ImportShows, ImportEndShows DEF Runner


(***************************************************************************)
(* What reaches the queue, and what it shows                               *)
(***************************************************************************)

\* What is shown, and what decides about it but for the farming selection.
Unmoved(s, t) ==
    /\ t.desired = s.desired /\ t.status = s.status /\ t.connected = s.connected
    /\ t.paused = s.paused /\ t.blocked = s.blocked /\ t.handled = s.handled
    /\ t.mode = s.mode /\ t.client = s.client
    /\ t.reported = s.reported /\ t.playing = s.playing

\* The queue grows, and a command takes the farming selection.
LEMMA GrownShows ==
    ASSUME IInv, RInv, GInv, phase = "up", Settled, Unmoved(w, w'),
           w'.farming = "games" => w.farming = "games",
           \A ops : In(queue, ops) => In(queue', ops),
           Fitting(w', queue', lapses), AnswerIsDue(w', queue'),
           importing' = importing, phase' = phase, lapses' = lapses
    PROVE  GInv'
<1>1. /\ Showing(w, queue, lapses, importing)
      /\ ~In(queue, Logins) /\ ~(queue # <<>> /\ ~importing)
  BY SettledFacts DEF GInv
<1>2. Proper(w')
  BY <1>1 DEF Showing, Proper, Unmoved
<1>3. /\ FarmingIsKnown(w', lapses') /\ ReportIsShown(w', queue')
      /\ ActiveIsWanted(w', lapses')
  BY <1>1 DEF Showing, FarmingIsKnown, ReportIsShown, ActiveIsWanted, Unmoved
<1>4. StatusIsTrue(w', queue', lapses', importing')
  BY <1>1 DEF Showing, StatusIsTrue, Unmoved
<1> QED
  BY <1>2, <1>3, <1>4 DEF GInv, Showing

LEMMA ArrivalShows ==
    ASSUME IInv, RInv, GInv, Arrival
    PROVE  GInv'
<1>0. w \in Worker /\ queue \in Seq(Item)
  BY DEF IInv, TypeOK
<1>1. ASSUME phase = "up"
      PROVE  /\ Proper(w) /\ FarmingIsKnown(w, lapses) /\ Fitting(w, queue, lapses)
             /\ AnswerIsDue(w, queue)
  BY <1>1 DEF GInv, Showing
<1>2. ASSUME NEW op \in Requests, Command(op)
      PROVE  GInv'
  <2> DEFINE t == ClearFarmingSelection(w, FALSE)
             r == Restamp(queue, FALSE, TRUE)
             x == Op(op, "none")
  <2>1. /\ w' = t /\ queue' = Append(r, x) /\ phase = "up" /\ Settled
        /\ importing' = importing /\ phase' = phase
        /\ lapses' = lapses /\ op \in Commands
        /\ ~(op = "start" /\ w.connected /\ w.farming # "off" /\ w.status \in Active)
    BY <1>2 DEF Command
  <2>2. Quiet(w, t) /\ t.status = w.status /\ t.farming = "off"
    BY <1>0, ClearFarmingSelectionKeeps
  <2>3. t.reported = w.reported /\ t.playing = w.playing
    BY <1>0, ClearFarmingSelectionGames
  <2>4. ~t.awaiting
    BY <1>0 DEF ClearFarmingSelection, Worker
  <2>5. /\ r \in Seq(Item)
        /\ \A ops : In(r, ops) <=> In(queue, ops)
        /\ \A ops \in SUBSET (Events \cup Timers) : Live(queue, ops) => Live(r, ops)
    BY <1>0, RestampKeeps
  <2>6. x \in Item /\ x.op = op
    BY <2>1 DEF Op, Item, Commands
  <2> HIDE DEF t, r, x
  <2>7. /\ \A ops : In(queue', ops) <=> In(queue, ops) \/ op \in ops
        /\ Live(queue, Retries) => Live(queue', Retries)
    BY <2>1, <2>5, <2>6, AppendKeeps, Kinds
  <2>8. Unmoved(w, w')
    BY <2>1, <2>2, <2>3 DEF Unmoved, Quiet, SameConflict
  <2>9. Fitting(w', queue', lapses)
    <3>1. SUFFICES ASSUME "attention" \notin lapses, w.playing = "farming"
                   PROVE  In(queue', Mends)
      BY <2>1, <2>2, <2>3, <2>4 DEF Fitting
    <3>2. w.connected /\ (w.farming = "games" \/ In(queue, Mends))
      BY <1>1, <2>1, <3>1 DEF FarmingIsKnown, Fitting
    <3>3. CASE op \in Mends
      BY <2>7, <3>3
    <3>4. CASE op \notin Mends
      <4>1. op = "start"
        BY <2>1, <3>4 DEF Mends
      <4>2. w.farming # "games"
        BY <1>1, <2>1, <3>2, <4>1 DEF Proper
      <4> QED
        BY <2>7, <3>2, <4>2
    <3> QED
      BY <3>3, <3>4
  <2>10. AnswerIsDue(w', queue')
    BY <1>1, <2>1, <2>2, <2>7, <2>8
    DEF AnswerIsDue, Unmoved, Quiet, SameTimers, Retrying
  <2> QED
    BY <2>1, <2>2, <2>7, <2>8, <2>9, <2>10, GrownShows
<1>3. ASSUME NEW op \in Requests, ServiceRequest(op)
      PROVE  GInv'
  <2> DEFINE x == Op(op, "none")
  <2>1. /\ w' = w /\ queue' = Append(queue, x) /\ phase = "up" /\ Settled
        /\ importing' = importing /\ phase' = phase
        /\ lapses' = lapses /\ op \in Services \cup Farming
    BY <1>3, RequestsAssumption DEF ServiceRequest
  <2>2. x \in Item
    BY <2>1 DEF Op, Item, Services, Farming
  <2> HIDE DEF x
  <2>3. /\ \A ops : In(queue, ops) => In(queue', ops)
        /\ Live(queue, Retries) => Live(queue', Retries)
    BY <1>0, <2>1, <2>2, AppendKeeps
  <2>4. Fitting(w', queue', lapses) /\ AnswerIsDue(w', queue') /\ Unmoved(w, w')
    BY <1>1, <2>1, <2>3 DEF Fitting, AnswerIsDue, Unmoved
  <2> QED
    BY <2>1, <2>3, <2>4, GrownShows
<1>4. ASSUME phase = "up", Settled,
             NEW x \in Item, queue' = Append(queue, x),
             Unmoved(w, w'), w'.farming = w.farming, w'.awaiting = w.awaiting,
             Retrying(w) => Retrying(w') \/ (x.op \in Retries /\ x.live),
             importing' = importing, phase' = phase, lapses' = lapses
      PROVE  GInv'
  <2>1. /\ \A ops : In(queue, ops) => In(queue', ops)
        /\ Live(queue, Retries) \/ (x.op \in Retries /\ x.live) => Live(queue', Retries)
    BY <1>0, <1>4, AppendKeeps
  <2>2. Fitting(w', queue', lapses) /\ AnswerIsDue(w', queue')
    BY <1>1, <1>4, <2>1 DEF Fitting, AnswerIsDue, Unmoved
  <2> QED
    BY <1>4, <2>1, <2>2, GrownShows
<1>5. CASE ReconnectTimerFires
  <2> DEFINE t == [w EXCEPT !.reconnect = "off"]
             x == [op |-> "reconnect", arg |-> "none", live |-> w.reconnect = "live"]
  <2>1. /\ Unmoved(w, t) /\ t.farming = w.farming /\ t.awaiting = w.awaiting
        /\ t.conflict = w.conflict
    BY <1>0 DEF Worker, Unmoved
  <2>2. x \in Item
    BY DEF Item, Timers
  <2>3. /\ w' = t /\ queue' = Append(queue, x) /\ phase = "up" /\ Settled
        /\ importing' = importing /\ phase' = phase /\ lapses' = lapses
    BY <1>5 DEF ReconnectTimerFires
  <2> HIDE DEF t, x
  <2> QED
    BY <1>4, <2>1, <2>2, <2>3 DEF Retrying
<1>6. CASE ConflictTimerFires
  <2> DEFINE t == [w EXCEPT !.conflict = "off"]
             o == IF w.conflict = "cooldown" THEN "cooldown" ELSE "retry"
             x == [op |-> o, arg |-> "none", live |-> w.conflict # "stale"]
  <2>1. Unmoved(w, t) /\ t.farming = w.farming /\ t.awaiting = w.awaiting
    BY <1>0 DEF Worker, Unmoved
  <2>2. o \in Retries /\ o \in Timers
    BY DEF Timers, Retries
  <2>3. Retrying(w) => x.live
    BY DEF Retrying
  <2>5. x \in Item /\ x.op \in Retries
    <3> HIDE DEF o
    <3> QED
      BY <2>2 DEF Item, Timers
  <2>4. /\ w' = t /\ queue' = Append(queue, x) /\ phase = "up" /\ Settled
        /\ importing' = importing /\ phase' = phase /\ lapses' = lapses
    BY <1>6 DEF ConflictTimerFires
  <2> HIDE DEF t, o, x
  <2> QED
    BY <1>4, <2>1, <2>3, <2>4, <2>5
<1> QED
  BY <1>2, <1>3, <1>5, <1>6 DEF Arrival

(***************************************************************************)
(* Steam, the process, and what they show                                  *)
(***************************************************************************)

LEMMA ClientShows ==
    ASSUME w \in Worker, NEW from, NEW to \in {"on", "off"}, Client(from, to)
    PROVE  /\ w.client = from /\ w'.client = to /\ w'.playing = "none"
           /\ w'.desired = w.desired /\ w'.status = w.status
           /\ w'.connected = w.connected /\ w'.paused = w.paused
           /\ w'.blocked = w.blocked /\ w'.handled = w.handled /\ w'.mode = w.mode
           /\ w'.reported = w.reported /\ w'.farming = w.farming
  BY DEF Client, Worker

\* The client reports that it has no session.
LEMMA LossReportShows ==
    ASSUME IInv, RInv, GInv, NEW items \in Seq(Item), Emit(items),
           NEW from, Client(from, "off"), In(items, Losses)
    PROVE  GInv'
<1>1. /\ w'.client = "off" /\ w'.playing = "none"
      /\ w'.desired = w.desired /\ w'.status = w.status
      /\ w'.connected = w.connected /\ w'.paused = w.paused
      /\ w'.blocked = w.blocked /\ w'.handled = w.handled
      /\ w'.reported = w.reported /\ w'.farming = w.farming
  BY ClientShows DEF IInv, TypeOK
<1>2. importing' = importing /\ phase' = phase /\ lapses' = lapses
  BY EmitFacts
<1>3. SUFFICES ASSUME phase = "up"
               PROVE  Showing(w', queue', lapses', importing')
  BY <1>2 DEF GInv
<1>4. Showing(w, queue, lapses, importing) /\ In(queue', Losses)
  BY <1>3, EmitKeeps DEF GInv
<1>5. Proper(w')
  BY <1>1, <1>4 DEF Showing, Proper
<1>6. /\ FarmingIsKnown(w', lapses') /\ Fitting(w', queue', lapses')
      /\ AnswerIsDue(w', queue') /\ ReportIsShown(w', queue')
      /\ StatusIsTrue(w', queue', lapses', importing') /\ ActiveIsWanted(w', lapses')
  BY <1>1, <1>2, <1>4
  DEF Showing, FarmingIsKnown, Fitting, AnswerIsDue, ReportIsShown, StatusIsTrue,
      ActiveIsWanted
<1> QED
  BY <1>5, <1>6 DEF Showing

\* Steam tells a client of the other session.
LEMMA ToldShows ==
    ASSUME IInv, RInv, GInv, NEW items \in Seq(Item), Emit(items), w' = w
    PROVE  GInv'
<1>1. importing' = importing /\ phase' = phase /\ lapses' = lapses
  BY EmitFacts
<1>2. CASE phase = "up"
  <2>1. /\ \A ops : In(queue, ops) => In(queue', ops)
        /\ Live(queue, Retries) => Live(queue', Retries)
    BY <1>2, EmitKeeps
  <2>2. Settled
    BY <1>2 DEF Emit
  <2>3. Fitting(w', queue', lapses) /\ AnswerIsDue(w', queue') /\ Unmoved(w, w')
    BY <1>2, <2>1 DEF GInv, Showing, Fitting, AnswerIsDue, Unmoved
  <2> QED
    BY <1>1, <1>2, <2>1, <2>2, <2>3, GrownShows
<1>3. CASE phase # "up"
  BY <1>1, <1>3 DEF GInv
<1> QED
  BY <1>2, <1>3

\* A login is accepted: no game is shown yet, and the worker is about to be told.
LEMMA AcceptedShows ==
    ASSUME IInv, RInv, GInv, LogOnAccepted
    PROVE  GInv'
<1> DEFINE x == Op("loggedOn", "none")
           y == IF elsewhere THEN <<Op("blocked", "none")>> ELSE <<>>
           items == <<x>> \o y
<1>1. Client("connecting", "on") /\ Emit(items)
  BY DEF LogOnAccepted
<1>2. x \in Item /\ x.op \in Logins
  BY DEF Op, Item, Events, Logins
<1>3. y \in Seq(Item)
  <2>1. Op("blocked", "none") \in Item
    BY DEF Op, Item, Events
  <2> QED
    BY <2>1
<1> HIDE DEF x, y
<1>4. items \in Seq(Item) /\ items # <<>> /\ Head(items) = x
  BY <1>2, <1>3
<1> HIDE DEF items
<1>5. In(items, Logins)
  BY <1>2, <1>4, TailKeeps
<1>6. /\ w.client = "connecting" /\ w'.client = "on" /\ w'.playing = "none"
      /\ w'.desired = w.desired /\ w'.status = w.status
      /\ w'.connected = w.connected /\ w'.paused = w.paused
      /\ w'.blocked = w.blocked /\ w'.handled = w.handled
      /\ w'.reported = w.reported /\ w'.farming = w.farming
  BY <1>1, ClientShows DEF IInv, TypeOK
<1>7. importing' = importing /\ phase' = phase /\ lapses' = lapses
  BY <1>1, <1>4, EmitFacts
<1>8. SUFFICES ASSUME phase = "up"
               PROVE  Showing(w', queue', lapses', importing')
  BY <1>7 DEF GInv
<1>9. Showing(w, queue, lapses, importing) /\ Reachable(w, queue, lapses)
  BY <1>8 DEF GInv, RInv, Recoverable
<1>10. queue = <<>>
  BY <1>1, <1>4, <1>6, <1>8, EmitFacts DEF IInv, WhileUp
<1>11. In(queue', Logins)
  BY <1>1, <1>4, <1>5, <1>8, EmitKeeps
<1>12. w.connected => lapses # {}
  BY <1>6, <1>9, <1>10, EmptyKeeps DEF Reachable
<1>13. w.status \in Active => lapses # {}
  BY <1>9, <1>10, <1>12, EmptyKeeps DEF Showing, StatusIsTrue
<1>14. Proper(w')
  BY <1>6, <1>9 DEF Showing, Proper
<1>15. ReportIsShown(w', queue')
  BY <1>6, <1>9, <1>11 DEF Showing, Proper, ReportIsShown
<1>16. StatusIsTrue(w', queue', lapses', importing')
  BY <1>6, <1>7, <1>13 DEF StatusIsTrue
<1>17. /\ FarmingIsKnown(w', lapses') /\ Fitting(w', queue', lapses')
       /\ AnswerIsDue(w', queue') /\ ActiveIsWanted(w', lapses')
  BY <1>6, <1>7, <1>9
  DEF Showing, FarmingIsKnown, Fitting, AnswerIsDue, ActiveIsWanted
<1> QED
  BY <1>14, <1>15, <1>16, <1>17 DEF Showing

LEMMA SteamShows ==
    ASSUME IInv, RInv, GInv, Steam
    PROVE  GInv'
<1>0. ASSUME NEW op \in {"disconnected", "error"}, NEW failure \in Failures
      PROVE  Op(op, failure) \in Item /\ Op(op, failure).op \in Losses
  BY DEF Op, Item, Events, Losses
<1>1. CASE LogOnFails \/ SessionDrops
  <2>1. PICK from : Client(from, "off")
    BY <1>1 DEF LogOnFails, SessionDrops
  <2>2. PICK failure \in Failures : \E items \in LossReports(failure) : Emit(items)
    BY <1>1 DEF LogOnFails, SessionDrops
  <2>3. PICK items \in LossReports(failure) : Emit(items)
    BY <2>2
  <2>4. items \in Seq(Item)
    BY LossReportsFacts
  <2>5. \/ items = <<Op("error", failure)>> \/ items = <<Op("disconnected", failure)>>
        \/ \E second : items = <<Op("error", failure), Op("disconnected", second)>>
    BY DEF LossReports
  <2>6. items # <<>> /\ Head(items).op \in Losses
    BY <1>0, <2>5
  <2>7. In(items, Losses)
    BY <2>4, <2>6, TailKeeps
  <2> QED
    BY <2>1, <2>3, <2>4, <2>7, LossReportShows
<1>2. CASE LogOffCompletes \/ LogOnRefused
  <2>1. /\ Client("leaving", "off") \/ Client("refused", "off")
        /\ \/ Emit(<<Op("disconnected", "transient")>>)
           \/ Emit(<<Op("error", "transient")>>)
    BY <1>2 DEF LogOffCompletes, LogOnRefused
  <2> PICK from \in {"leaving", "refused"} : Client(from, "off")
    BY <2>1
  <2> PICK op \in {"disconnected", "error"} : Emit(<<Op(op, "transient")>>)
    BY <2>1
  <2> DEFINE x == Op(op, "transient")
             items == <<x>>
  <2>2. x \in Item /\ x.op \in Losses
    BY <1>0 DEF Failures
  <2>3. Emit(items)
    OBVIOUS
  <2> HIDE DEF x
  <2>4. items \in Seq(Item) /\ In(items, Losses)
    BY <2>2, SingletonKeeps
  <2> HIDE DEF items
  <2> QED
    BY <2>3, <2>4, LossReportShows
<1>3. CASE OtherSessionChanges \/ GamesRefused
  <2>1. PICK items : /\ Emit(items) /\ w' = w
                     /\ \/ items = <<>>
                        \/ \E op \in {"free", "blocked"} : items = <<Op(op, "none")>>
    BY <1>3 DEF OtherSessionChanges, GamesRefused
  <2>2. ASSUME NEW op \in {"free", "blocked"}
        PROVE  Op(op, "none") \in Item
    BY DEF Op, Item, Events
  <2>3. ASSUME NEW x \in Item
        PROVE  <<x>> \in Seq(Item)
    OBVIOUS
  <2>4. <<>> \in Seq(Item)
    OBVIOUS
  <2>5. items \in Seq(Item)
    BY <2>1, <2>2, <2>3, <2>4
  <2> QED
    BY <2>1, <2>5, ToldShows
<1> QED
  BY <1>1, <1>2, <1>3, AcceptedShows DEF Steam

LEMMA RebornGames ==
    ASSUME NEW s \in Worker
    PROVE  Reborn(s).playing = "none" /\ Reborn(s).blocked = FALSE
<1> DEFINE a == ClearFarmingSelection(s, FALSE)
           b == ClearRetryTimers(a)
           c == ResetSessionConflict(b)
<1>1. a \in Worker
  BY ClearFarmingSelectionFacts
<1> HIDE DEF a
<1>2. b \in Worker
  BY <1>1, ClearRetryTimersFacts
<1> HIDE DEF b
<1>3. c \in Worker /\ c.blocked = FALSE
  BY <1>2, ResetSessionConflictKeeps
<1> HIDE DEF c
<1>4. Reborn(s) = [c EXCEPT !.connected = FALSE, !.paused = FALSE, !.reported = "none",
                           !.client = "off", !.playing = "none"]
  BY DEF Reborn, a, b, c
<1> QED
  BY <1>3, <1>4 DEF Worker

LEMMA ProcessShows ==
    ASSUME IInv, Still, Process
    PROVE  GInv'
<1>1. CASE BeginShutdown \/ FinishShutdown \/ Crash
  BY <1>1 DEF BeginShutdown, FinishShutdown, Crash, GInv
<1>2. CASE Boot
  <2> DEFINE t == Reborn(w)
             x == Op("auto_start", "none")
  <2>1. /\ t.desired = w.desired /\ t.farming = "off" /\ t.connected = FALSE
        /\ t.handled = FALSE /\ t.client = "off"
    BY RebornKeeps DEF IInv, TypeOK
  <2>2. t.playing = "none" /\ t.blocked = FALSE
    BY RebornGames DEF IInv, TypeOK
  <2>3. /\ w' = t /\ phase' = "up"
        /\ \/ w.desired = "running" /\ queue' = <<x>>
           \/ lapses' = {"held"}
    BY <1>2 DEF Boot
  <2>4. ~importing'
    BY <1>2 DEF Boot, Still
  <2>5. x.op = "auto_start"
    BY DEF Op
  <2> HIDE DEF t, x
  <2>6. Proper(t)
    BY <2>1, <2>2 DEF Proper
  <2>7. /\ FarmingIsKnown(t, lapses') /\ Fitting(t, queue', lapses')
        /\ AnswerIsDue(t, queue') /\ ReportIsShown(t, queue')
    BY <2>1, <2>2 DEF FarmingIsKnown, Fitting, AnswerIsDue, ReportIsShown
  <2>8. StatusIsTrue(t, queue', lapses', importing') /\ ActiveIsWanted(t, lapses')
    BY <2>1, <2>3, <2>4, <2>5 DEF StatusIsTrue, ActiveIsWanted
  <2> QED
    BY <2>3, <2>6, <2>7, <2>8 DEF GInv, Showing
<1> QED
  BY <1>1, <1>2 DEF Process

LEMMA GInit == Init => GInv
  BY DEF Init, GInv

LEMMA GNext ==
    IInv /\ IInv' /\ Still /\ RInv /\ RInv' /\ GInv /\ [Next]_vars => GInv'
<1> SUFFICES ASSUME IInv, IInv', Still, RInv, RInv', GInv, [Next]_vars PROVE GInv'
  OBVIOUS
<1>1. CASE UNCHANGED vars
  BY <1>1
  DEF vars, GInv, Showing, Proper, FarmingIsKnown, Fitting, AnswerIsDue, ReportIsShown,
      StatusIsTrue, ActiveIsWanted
<1> QED
  BY <1>1, RunnerShows, ArrivalShows, SteamShows, ProcessShows DEF Next

(***************************************************************************)
(* The theorems                                                            *)
(***************************************************************************)

\* Every operation, Steam event and step of the process leaves the worker, its
\* queue and the history in their types.
THEOREM TypeCorrect == Spec => []TypeOK
<1>1. IInv => TypeOK
  BY DEF IInv
<1> QED
  BY <1>1, Invariance, PTL

\* scheduleReconnect and registerSessionConflict always replace each other's
\* timer, so that the backoff and the conflict retry never log on twice.
THEOREM OneRetryTimerHolds == Spec => []OneRetryTimer
<1>1. IInv => OneRetryTimer
  BY DEF IInv, OneTimer, OneRetryTimer
<1> QED
  BY <1>1, Invariance, PTL

\* A pause or a stop leaves no games on Steam, and nothing that was queued, timed
\* or reported before it brings them back: the games are gone until the account is
\* told to run again, unless every fallback of a safety pause has failed.
THEOREM PausedIsQuietHolds == Spec => []PausedIsQuiet
<1>1. IInv => PausedIsQuiet
  BY DEF IInv, WhileUp, Calm, Idle, PausedIsQuiet
<1> QED
  BY <1>1, Invariance, PTL

\* No timer and no Steam event takes an account out of a pause or a stop: only an
\* operation that a user, a schedule or farming has asked for does.  And while the
\* retry of a handled login conflict is armed, neither a second report of the same
\* loss nor anything else that comes late arms the ordinary backoff.
THEOREM LateEventsAreHarmlessHolds == Spec => LateEventsAreHarmless
<1> DEFINE A == /\ w.desired # "running" /\ w'.desired = "running"
                      => queue # <<>> /\ Head(queue).op \in Commands \cup Services
                /\ w.handled /\ w.conflict # "off" => w'.reconnect = "off"
<1>1. IInv /\ [Next]_vars => [A]_vars
  <2> SUFFICES ASSUME IInv, Next PROVE A
    OBVIOUS
  <2>1. Harmless
    BY RunnerHarmless, OthersHarmless DEF Next
  <2> QED
    BY <2>1 DEF Harmless, MayWake
<1> HIDE DEF A
<1>2. Spec => [][A]_vars
  BY <1>1, Invariance, PTL DEF Spec
<1> QED
  BY <1>2 DEF LateEventsAreHarmless, A

\* Whatever a login, a loss, a conflict, another session, a timer or a command did, and
\* in whatever order they were told, an account that should run and whose queue is empty
\* is logged on, logging on, or waiting for a retry timer: it is never given up silently.
THEOREM RecoveryArmedHolds == Spec => []RecoveryArmed
<1>1. IInv /\ RInv => RecoveryArmed
  <2> SUFFICES ASSUME RInv, Idle, w.desired = "running", lapses = {}
               PROVE  \/ w.client = "on" /\ w.connected
                      \/ w.client \in {"connecting", "refused"}
                      \/ ReconnectArmed \/ ConflictArmed
    BY DEF RecoveryArmed
  <2>1. Hope(w, queue, lapses, importing) /\ queue = <<>>
    BY DEF RInv, Recoverable, Idle
  <2> QED
    BY <2>1, EmptyKeeps DEF Hope, Backing, Retrying, ReconnectArmed, ConflictArmed
<1> QED
  BY <1>1, Invariance, RInit, StillNext, RNext, PTL DEF Spec


\* Whatever was asked, told, lost or retried before it: when the account's queue is
\* empty, Steam plays farming games only under a farming selection and manual games only
\* beside none; games are played beside another session only by a retry that waits for
\* its answer with a timer; what was reported last is what Steam shows; and an account
\* shown as online or boosting has its session, and the games that boosting speaks of.
THEOREM GamesAreShownHolds == Spec => []GamesAreShown
<1>1. IInv /\ RInv /\ GInv => GamesAreShown
  <2> SUFFICES ASSUME RInv, GInv, Idle PROVE GamesAreShown
    BY DEF GamesAreShown
  <2>1. /\ Showing(w, queue, lapses, importing) /\ Reachable(w, queue, lapses)
        /\ queue = <<>>
    BY DEF Idle, GInv, RInv, Recoverable
  <2>2. /\ ~In(queue, Mends) /\ ~In(queue, Losses) /\ ~In(queue, Logins)
        /\ ~Live(queue, Retries)
    BY <2>1, EmptyKeeps
  <2>3. "attention" \notin lapses =>
          /\ w.playing = "farming" => w.farming = "games"
          /\ w.playing = "manual"  => w.farming = "off" /\ ~w.awaiting
    BY <2>1, <2>2 DEF Showing, Fitting
  <2>4. w.blocked /\ w.playing # "none" => w.mode = "live" /\ ConflictArmed
    BY <2>1, <2>2 DEF Showing, Proper, AnswerIsDue, Retrying, ConflictArmed
  <2>5. w.connected /\ w.client = "on" => w.reported = w.playing
    BY <2>1, <2>2 DEF Showing, ReportIsShown
  <2>6. w.status \in Active /\ lapses = {} /\ w.client # "refused" =>
          /\ w.connected /\ w.client = "on"
          /\ (w.status = "boosting") <=> (w.playing # "none")
    BY <2>1, <2>2 DEF Showing, StatusIsTrue, Reachable
  <2> QED
    BY <2>3, <2>4, <2>5, <2>6 DEF GamesAreShown
<1> QED
  BY <1>1, Invariance, RInit, StillNext, RNext, GInit, GNext, PTL DEF Spec

=============================================================================
