------------------------- MODULE CardFarmingProofs -------------------------
(***************************************************************************)
(* Proofs about the card farming of one account (module CardFarming).      *)
(*                                                                         *)
(* The inductive invariant says what drives the session and in which state *)
(* it finds it: at most one invocation is current, none while the timer    *)
(* runs, and each kind finds the session and the worker as it left them.   *)
(* What is no longer wanted still has its end in the queue.  The lemmas    *)
(* follow the controller: its operations on the session's state first,     *)
(* then one lemma per action.                                              *)
(***************************************************************************)
EXTENDS CardFarming, SequenceTheorems, FiniteSetTheorems, TLAPS

(***************************************************************************)
(* The inductive invariant                                                 *)
(***************************************************************************)

\* What the program can hold of a session.
Shaped(s) ==
    /\ s \in Session
    /\ \A i \in DOMAIN s.queue : s.queue[i].op = "begin" => s.queue[i].start
    /\ s.active # {} => Active(s)

\* Nothing that waits is current.
Still(s) ==
    /\ \A i \in DOMAIN s.queue : ~s.queue[i].live
    /\ \A i \in DOMAIN s.waiting : ~s.waiting[i].live

\* At most one invocation is current, and none while the timer runs.
OneDrives(s) ==
    /\ \A i, j \in DOMAIN s.queue : s.queue[i].live /\ s.queue[j].live => i = j
    /\ \A i, j \in DOMAIN s.waiting : s.waiting[i].live /\ s.waiting[j].live => i = j
    /\ \A i \in DOMAIN s.queue, j \in DOMAIN s.waiting :
          ~(s.queue[i].live /\ s.waiting[j].live)
    /\ s.timer => Still(s)

\* No pause or resume of the account comes after the first n in the queue.
Clear(s, n) == \A i \in DOMAIN s.queue : i > n => s.queue[i].op \notin {"pause", "resume"}

\* The worker runs what the session says.
Follows(s, w) == s.applied /\ w.held /\ w.playing = s.active /\ Clear(s, 0)

Proper(games, s, c) == s.lag \/ games \cap Skipped(s, c) = {}

\* What drives a session finds it as it left it.
QueueDrives(s, c) ==
    \A i \in DOMAIN s.queue :
        LET call == s.queue[i] IN
        call.live =>
            /\ call.op # "end" => Active(s) /\ s.applied /\ Clear(s, i)
            /\ call.op = "begin" => s.active = {}
            /\ call.op = "apply" => Proper(call.games, s, c)
            /\ call.op = "end" => ~Active(s)

WaitingDrives(s, w) ==
    \A i \in DOMAIN s.waiting :
        s.waiting[i].live =>
            /\ Active(s)
            /\ s.waiting[i].kind # "scan" => Follows(s, w)
            /\ s.waiting[i].kind = "scan" => s.active = {}

TimerDrives(s, w, c) == s.timer => Active(s) /\ Follows(s, w) /\ Proper(s.active, s, c)

\* What drives a session to farm: the timer, an operation or a scan that is not only read.
Driven(s) ==
    \/ s.timer
    \/ \E i \in DOMAIN s.queue : s.queue[i].live /\ s.queue[i].op # "end"
    \/ \E i \in DOMAIN s.waiting : s.waiting[i].live /\ s.waiting[i].kind # "scan"

Connected(s, a) == Active(s) /\ Driven(s) => a = "connected"

\* What is not wanted any more ends: only a scan that nobody will remember goes on.
EndIsDue(s) == \E i \in DOMAIN s.queue : s.queue[i].live /\ s.queue[i].op = "end"

OnlyScans(s) ==
    /\ \E i \in DOMAIN s.waiting : s.waiting[i].live /\ s.waiting[i].kind = "scan"
    /\ \A i \in DOMAIN s.waiting : s.waiting[i].kind # "start"
    /\ \A i \in DOMAIN s.queue : ~s.queue[i].start /\ s.queue[i].op # "farm_resume"

Unwanted(s, w, sl) ==
    ~s.wanted /\ sl = {} =>
        /\ ~s.row
        /\ w.held => EndIsDue(s)
        /\ Active(s) => OnlyScans(s)

Rest ==
    /\ config \in Configs
    /\ account \in {"connected", "away", "paused"}
    /\ worker \in [held : BOOLEAN, playing : SUBSET Games]
    /\ left \subseteq Games
    /\ polling \in BOOLEAN
    /\ slips \subseteq {"scan", "poll"}

Core(s, w, c) ==
    OneDrives(s) /\ QueueDrives(s, c) /\ WaitingDrives(s, w) /\ TimerDrives(s, w, c)

Good(s, w, c, a, sl) ==
    Shaped(s) /\ Core(s, w, c) /\ Connected(s, a) /\ Unwanted(s, w, sl)

IInv == Rest /\ Good(f, worker, config, account, slips)

(***************************************************************************)
(* Sequences                                                               *)
(***************************************************************************)

Entry == Call \cup {Order(op) : op \in Orders}

LEMMA IndicesOf ==
    ASSUME NEW S, NEW q \in Seq(S)
    PROVE  /\ Len(q) \in Nat /\ DOMAIN q = 1..Len(q)
           /\ \A i \in DOMAIN q : i \in Nat /\ 1 <= i /\ i <= Len(q) /\ q[i] \in S
           /\ \A i \in Int : 1 <= i /\ i <= Len(q) => i \in DOMAIN q
           /\ q = <<>> <=> Len(q) = 0
  BY EmptySeq, LenProperties, ElementOfSeq

LEMMA AppendIs ==
    ASSUME NEW S, NEW q \in Seq(S), NEW e \in S
    PROVE  /\ Append(q, e) \in Seq(S) /\ Len(Append(q, e)) = Len(q) + 1
           /\ Append(q, e)[Len(q) + 1] = e /\ Len(q) + 1 \in DOMAIN Append(q, e)
           /\ \A i \in DOMAIN q : i \in DOMAIN Append(q, e) /\ Append(q, e)[i] = q[i]
           /\ \A i \in DOMAIN Append(q, e) :
                 \/ i \in DOMAIN q /\ Append(q, e)[i] = q[i]
                 \/ i = Len(q) + 1 /\ Append(q, e)[i] = e
<1>1. /\ Append(q, e) \in Seq(S) /\ Len(Append(q, e)) = Len(q) + 1
      /\ \A i \in 1..Len(q) : Append(q, e)[i] = q[i]
      /\ Append(q, e)[Len(q) + 1] = e
  BY AppendProperties
<1>2. /\ DOMAIN q = 1..Len(q) /\ Len(q) \in Nat
      /\ DOMAIN Append(q, e) = 1..(Len(q) + 1)
  BY <1>1, LenProperties
<1> QED
  BY <1>1, <1>2

LEMMA TailIs ==
    ASSUME NEW S, NEW q \in Seq(S), q # <<>>
    PROVE  /\ Tail(q) \in Seq(S) /\ Head(q) = q[1] /\ 1 \in DOMAIN q /\ Head(q) \in S
           /\ \A i \in DOMAIN Tail(q) :
                 i \in Nat /\ 1 <= i /\ i + 1 \in DOMAIN q /\ Tail(q)[i] = q[i + 1]
           /\ \A i \in DOMAIN q :
                 i = 1 \/ (i - 1 \in DOMAIN Tail(q) /\ Tail(q)[i - 1] = q[i])
<1>1. /\ Head(q) \in S /\ Tail(q) \in Seq(S) /\ Len(Tail(q)) = Len(q) - 1
      /\ \A i \in 1..Len(Tail(q)) : Tail(q)[i] = q[i + 1]
  BY HeadTailProperties
<1>2. /\ DOMAIN q = 1..Len(q) /\ Len(q) \in Nat /\ Len(q) # 0
      /\ DOMAIN Tail(q) = 1..(Len(q) - 1)
  BY <1>1, LenProperties, EmptySeq
<1>3. \A i \in DOMAIN q : i = 1 \/ i - 1 \in 1..(Len(q) - 1)
  BY <1>2
<1>4. \A i \in 1..(Len(q) - 1) : i \in Nat /\ 1 <= i /\ i + 1 \in 1..Len(q)
  BY <1>2
<1>5. \A i \in DOMAIN q : (i - 1) + 1 = i
  BY <1>2
<1>6. Head(q) = q[1]
  OBVIOUS
<1>7. 1 \in DOMAIN q
  BY <1>2
<1> QED
  BY <1>1, <1>2, <1>3, <1>4, <1>5, <1>6, <1>7

\* Where an element of a sequence is, once the one at i is removed.
Place(j, i) == IF j < i THEN j ELSE j + 1

LEMMA RemoveAtIs ==
    ASSUME NEW S, NEW q \in Seq(S), NEW i \in DOMAIN q
    PROVE  /\ RemoveAt(q, i) \in Seq(S)
           /\ \A j \in DOMAIN RemoveAt(q, i) :
                 /\ Place(j, i) \in DOMAIN q /\ Place(j, i) # i
                 /\ RemoveAt(q, i)[j] = q[Place(j, i)]
           /\ \A j, k \in DOMAIN RemoveAt(q, i) : Place(j, i) = Place(k, i) => j = k
           /\ \A k \in DOMAIN q : k = i \/ \E j \in DOMAIN RemoveAt(q, i) : Place(j, i) = k
<1> DEFINE n == Len(q)
           A == SubSeq(q, 1, i - 1)
           B == SubSeq(q, i + 1, n)
<1>1. n \in Nat /\ DOMAIN q = 1..n /\ i \in Nat /\ 1 <= i /\ i <= n
  BY IndicesOf
<1>2. \A k \in 1..n : q[k] \in S
  BY IndicesOf
<1>3. /\ A \in Seq(S) /\ Len(A) = i - 1 /\ \A j \in 1..(i - 1) : A[j] = q[j]
  <2>1. 1 \in Int /\ i - 1 \in Int /\ \A k \in 1..(i - 1) : q[k] \in S
    BY <1>1, <1>2
  <2>2. /\ A \in Seq(S)
        /\ Len(A) = IF 1 <= i - 1 THEN (i - 1) - 1 + 1 ELSE 0
        /\ \A j \in 1..((i - 1) - 1 + 1) : A[j] = q[1 + j - 1]
    BY <2>1, SubSeqProperties
  <2> HIDE DEF A
  <2>3. Len(A) = i - 1
    BY <1>1, <2>2
  <2>4. \A j \in 1..(i - 1) : j \in 1..((i - 1) - 1 + 1) /\ 1 + j - 1 = j
    BY <1>1
  <2> QED
    BY <2>2, <2>3, <2>4
<1>4. /\ B \in Seq(S) /\ Len(B) = n - i /\ \A j \in 1..(n - i) : B[j] = q[i + j]
  <2>1. i + 1 \in Int /\ n \in Int /\ \A k \in (i + 1)..n : q[k] \in S
    BY <1>1, <1>2
  <2>2. /\ B \in Seq(S)
        /\ Len(B) = IF i + 1 <= n THEN n - (i + 1) + 1 ELSE 0
        /\ \A j \in 1..(n - (i + 1) + 1) : B[j] = q[(i + 1) + j - 1]
    BY <2>1, SubSeqProperties
  <2> HIDE DEF B
  <2>3. Len(B) = n - i
    BY <1>1, <2>2
  <2>4. \A j \in 1..(n - i) : j \in 1..(n - (i + 1) + 1) /\ (i + 1) + j - 1 = i + j
    BY <1>1
  <2> QED
    BY <2>2, <2>3, <2>4
<1> DEFINE r == A \o B
<1>5. RemoveAt(q, i) = r
  BY DEF RemoveAt
<1> HIDE DEF A, B
<1>6. r \in Seq(S) /\ Len(r) = n - 1
      /\ \A j \in 1..(n - 1) : r[j] = IF j <= i - 1 THEN A[j] ELSE B[j - (i - 1)]
  <2>1. /\ Len(r) = Len(A) + Len(B)
        /\ \A j \in 1..(Len(A) + Len(B)) : r[j] = IF j <= Len(A) THEN A[j] ELSE B[j - Len(A)]
    BY <1>3, <1>4, ConcatProperties
  <2>2. Len(A) + Len(B) = n - 1
    BY <1>1, <1>3, <1>4
  <2>3. r \in Seq(S)
    BY <1>3, <1>4, ConcatProperties
  <2> HIDE DEF r
  <2> QED
    BY <1>3, <2>1, <2>2, <2>3
<1> HIDE DEF r
<1>7. DOMAIN r = 1..(n - 1)
  BY <1>1, <1>6, LenProperties
<1>8. \A j \in 1..(n - 1) : /\ Place(j, i) \in 1..n /\ Place(j, i) # i
                            /\ r[j] = q[Place(j, i)]
  <2> TAKE j \in 1..(n - 1)
  <2>1. CASE j < i
    BY <1>1, <1>3, <1>6, <2>1 DEF Place
  <2>2. CASE ~(j < i)
    <3>1. j - (i - 1) \in 1..(n - i) /\ i + (j - (i - 1)) = j + 1 /\ ~(j <= i - 1)
      BY <1>1, <2>2
    <3>2. r[j] = q[j + 1]
      BY <1>4, <1>6, <3>1
    <3> QED
      BY <1>1, <2>2, <3>2 DEF Place
  <2> QED
    BY <2>1, <2>2
<1>9. \A j, k \in 1..(n - 1) : Place(j, i) = Place(k, i) => j = k
  BY <1>1 DEF Place
<1>10. \A k \in 1..n : k = i \/ \E j \in 1..(n - 1) : Place(j, i) = k
  <2> TAKE k \in 1..n
  <2>1. CASE k < i
    <3>1. k \in 1..(n - 1) /\ Place(k, i) = k
      BY <1>1, <2>1 DEF Place
    <3> QED
      BY <3>1
  <2>2. CASE k > i
    <3>1. k - 1 \in 1..(n - 1) /\ Place(k - 1, i) = k
      BY <1>1, <2>2 DEF Place
    <3> QED
      BY <3>1
  <2> QED
    BY <1>1, <2>1, <2>2
<1> QED
  BY <1>1, <1>5, <1>6, <1>7, <1>8, <1>9, <1>10, Zenon

(***************************************************************************)
(* Sessions                                                                *)
(***************************************************************************)

LEMMA EntryIs ==
    /\ \A e \in Entry : /\ e.op \in Waits \cup Orders /\ e.start \in BOOLEAN
                        /\ e.live \in BOOLEAN /\ e.games \subseteq Games
                        /\ e.phase \in {"warming", "farming"}
                        /\ e.live => e.op \in Waits
                        /\ [e EXCEPT !.live = FALSE] \in Entry
                        /\ [e EXCEPT !.live = FALSE].op = e.op
                        /\ [e EXCEPT !.live = FALSE].start = e.start
                        /\ [e EXCEPT !.live = FALSE].live = FALSE
    /\ \A op \in Orders : /\ Order(op) \in Entry /\ Order(op).op = op
                          /\ ~Order(op).live /\ ~Order(op).start
<1>1. ASSUME NEW e \in Call
      PROVE  /\ e.op \in Waits \cup Orders /\ e.start \in BOOLEAN
             /\ e.live \in BOOLEAN /\ e.games \subseteq Games
             /\ e.phase \in {"warming", "farming"}
             /\ e.live => e.op \in Waits
             /\ [e EXCEPT !.live = FALSE] \in Entry
             /\ [e EXCEPT !.live = FALSE].op = e.op
             /\ [e EXCEPT !.live = FALSE].start = e.start
             /\ [e EXCEPT !.live = FALSE].live = FALSE
  BY DEF Entry, Call
<1>2. ASSUME NEW op \in Orders
      PROVE  /\ Order(op) \in Entry /\ Order(op).op = op
             /\ ~Order(op).live /\ ~Order(op).start
             /\ Order(op).games = {} /\ Order(op).phase = "farming"
             /\ [Order(op) EXCEPT !.live = FALSE] = Order(op)
  <2>1. Order(op) \in Entry
    BY DEF Entry
  <2>2. /\ Order(op).op = op /\ ~Order(op).live /\ ~Order(op).start
        /\ Order(op).games = {} /\ Order(op).phase = "farming"
    BY DEF Order
  <2>3. [Order(op) EXCEPT !.live = FALSE] = Order(op)
    <3> DEFINE R == [op : Orders, start : BOOLEAN, live : BOOLEAN, games : SUBSET Games,
                     phase : {"warming", "farming"}]
    <3>1. Order(op) \in R
      BY DEF Order
    <3> QED
      BY <2>2, <3>1
  <2> QED
    BY <2>1, <2>2, <2>3
<1>3. ASSUME NEW e \in Entry, e \notin Call
      PROVE  /\ e.op \in Waits \cup Orders /\ e.start \in BOOLEAN
             /\ e.live \in BOOLEAN /\ e.games \subseteq Games
             /\ e.phase \in {"warming", "farming"}
             /\ e.live => e.op \in Waits
             /\ [e EXCEPT !.live = FALSE] \in Entry
             /\ [e EXCEPT !.live = FALSE].op = e.op
             /\ [e EXCEPT !.live = FALSE].start = e.start
             /\ [e EXCEPT !.live = FALSE].live = FALSE
  <2>1. PICK op \in Orders : e = Order(op)
    BY <1>3 DEF Entry
  <2>2. /\ e \in Entry /\ e.op = op /\ e.live = FALSE /\ e.start = FALSE
        /\ e.games = {} /\ e.phase = "farming" /\ [e EXCEPT !.live = FALSE] = e
    BY <2>1, <1>2 DEF Order
  <2> QED
    BY <2>2
<1> QED
  BY <1>1, <1>2, <1>3

LEMMA NewCall ==
    ASSUME NEW op \in Waits, NEW start \in BOOLEAN, NEW games \in SUBSET Games,
           NEW phase \in {"warming", "farming"}
    PROVE  [op |-> op, start |-> start, live |-> TRUE, games |-> games, phase |-> phase]
             \in Entry
  BY DEF Entry, Call

LEMMA DiscoveryIs ==
    ASSUME NEW d \in Discovery
    PROVE  /\ d.kind \in {"start", "tick", "scan"} /\ d.live \in BOOLEAN
           /\ [d EXCEPT !.live = FALSE] \in Discovery
           /\ [d EXCEPT !.live = FALSE].kind = d.kind
           /\ [d EXCEPT !.live = FALSE].live = FALSE
  BY DEF Discovery

LEMMA SessionIs ==
    ASSUME NEW s \in Session
    PROVE  /\ s.phase \in Phases /\ s.timer \in BOOLEAN /\ s.applied \in BOOLEAN
           /\ s.active \in SUBSET Games /\ s.seen \in SUBSET Games
           /\ s.warm \in SUBSET Games /\ s.row \in BOOLEAN
           /\ s.queue \in Seq(Entry) /\ s.waiting \in Seq(Discovery)
           /\ s.wanted \in BOOLEAN /\ s.lag \in BOOLEAN
  BY DEF Session, Entry

LEMMA DeadIs ==
    /\ \A q \in Seq(Entry) :
          /\ Dead(q) \in Seq(Entry) /\ DOMAIN Dead(q) = DOMAIN q
          /\ \A i \in DOMAIN q : /\ Dead(q)[i].op = q[i].op
                                 /\ Dead(q)[i].start = q[i].start
                                 /\ ~Dead(q)[i].live
    /\ \A q \in Seq(Discovery) :
          /\ Dead(q) \in Seq(Discovery) /\ DOMAIN Dead(q) = DOMAIN q
          /\ \A i \in DOMAIN q : /\ Dead(q)[i].kind = q[i].kind
                                 /\ ~Dead(q)[i].live
<1>1. ASSUME NEW q \in Seq(Entry)
      PROVE  /\ Dead(q) \in Seq(Entry) /\ DOMAIN Dead(q) = DOMAIN q
             /\ \A i \in DOMAIN q : /\ Dead(q)[i].op = q[i].op
                                    /\ Dead(q)[i].start = q[i].start
                                    /\ ~Dead(q)[i].live
  <2>1. Len(q) \in Nat /\ DOMAIN q = 1..Len(q) /\ \A i \in DOMAIN q : q[i] \in Entry
    BY IndicesOf
  <2>2. DOMAIN Dead(q) = DOMAIN q /\ \A i \in DOMAIN q : Dead(q)[i] = [q[i] EXCEPT !.live = FALSE]
    BY DEF Dead
  <2>3. \A i \in DOMAIN q : Dead(q)[i] \in Entry
    BY <2>1, <2>2, EntryIs
  <2>4. Dead(q) \in [1..Len(q) -> Entry]
    BY <2>1, <2>3 DEF Dead
  <2>5. Dead(q) \in Seq(Entry)
    BY <2>1, <2>4, SeqDef
  <2>6. \A i \in DOMAIN q : /\ Dead(q)[i].op = q[i].op
                            /\ Dead(q)[i].start = q[i].start
                            /\ ~Dead(q)[i].live
    <3> TAKE i \in DOMAIN q
    <3>1. Dead(q)[i] = [q[i] EXCEPT !.live = FALSE] /\ q[i] \in Entry
      BY <2>1, <2>2
    <3> QED
      BY <3>1, EntryIs
  <2> QED
    BY <2>2, <2>5, <2>6
<1>2. ASSUME NEW q \in Seq(Discovery)
      PROVE  /\ Dead(q) \in Seq(Discovery) /\ DOMAIN Dead(q) = DOMAIN q
             /\ \A i \in DOMAIN q : Dead(q)[i].kind = q[i].kind /\ ~Dead(q)[i].live
  <2>1. Len(q) \in Nat /\ DOMAIN q = 1..Len(q) /\ \A i \in DOMAIN q : q[i] \in Discovery
    BY IndicesOf
  <2>2. DOMAIN Dead(q) = DOMAIN q /\ \A i \in DOMAIN q : Dead(q)[i] = [q[i] EXCEPT !.live = FALSE]
    BY DEF Dead
  <2>3. \A i \in DOMAIN q : Dead(q)[i] \in Discovery
    BY <2>1, <2>2, DiscoveryIs
  <2>4. Dead(q) \in [1..Len(q) -> Discovery]
    BY <2>1, <2>3 DEF Dead
  <2>5. Dead(q) \in Seq(Discovery)
    BY <2>1, <2>4, SeqDef
  <2>6. \A i \in DOMAIN q : Dead(q)[i].kind = q[i].kind /\ ~Dead(q)[i].live
    <3> TAKE i \in DOMAIN q
    <3>1. Dead(q)[i] = [q[i] EXCEPT !.live = FALSE] /\ q[i] \in Discovery
      BY <2>1, <2>2
    <3> QED
      BY <3>1, DiscoveryIs
  <2> QED
    BY <2>2, <2>5, <2>6
<1> QED
  BY <1>1, <1>2

LEMMA SupersedeIs ==
    ASSUME NEW s \in Session
    PROVE  /\ Supersede(s) \in Session /\ Still(Supersede(s))
           /\ ~Supersede(s).lag
           /\ Supersede(s).phase = s.phase /\ Supersede(s).timer = s.timer
           /\ Supersede(s).applied = s.applied /\ Supersede(s).active = s.active
           /\ Supersede(s).seen = s.seen /\ Supersede(s).warm = s.warm
           /\ Supersede(s).row = s.row /\ Supersede(s).wanted = s.wanted
           /\ Supersede(s).queue = Dead(s.queue)
           /\ Supersede(s).waiting = Dead(s.waiting)
<1>1. /\ Dead(s.queue) \in Seq(Entry) /\ Dead(s.waiting) \in Seq(Discovery)
      /\ \A i \in DOMAIN Dead(s.queue) : ~Dead(s.queue)[i].live
      /\ \A i \in DOMAIN Dead(s.waiting) : ~Dead(s.waiting)[i].live
  BY SessionIs, DeadIs
<1>2. /\ ~Supersede(s).lag
      /\ Supersede(s).phase = s.phase /\ Supersede(s).timer = s.timer
      /\ Supersede(s).applied = s.applied /\ Supersede(s).active = s.active
      /\ Supersede(s).seen = s.seen /\ Supersede(s).warm = s.warm
      /\ Supersede(s).row = s.row /\ Supersede(s).wanted = s.wanted
      /\ Supersede(s).queue = Dead(s.queue)
      /\ Supersede(s).waiting = Dead(s.waiting)
  BY DEF Supersede, Session
<1>3. Supersede(s) \in Session
  BY <1>1 DEF Supersede, Session, Entry
<1> QED
  BY <1>1, <1>2, <1>3 DEF Still

(***************************************************************************)
(* What drives a session                                                   *)
(***************************************************************************)

\* Two sessions that differ at most in what no invocation asks for.
Alike(s, t) ==
    /\ t.phase = s.phase /\ t.timer = s.timer /\ t.applied = s.applied
    /\ t.active = s.active /\ t.warm = s.warm /\ t.lag = s.lag

LEMMA StillGood ==
    ASSUME NEW s, NEW w, NEW c, Still(s), ~s.timer
    PROVE  Core(s, w, c)
  BY DEF Core, OneDrives, QueueDrives, WaitingDrives, TimerDrives, Still

LEMMA TimerGood ==
    ASSUME NEW s, NEW w, NEW c, Still(s), TimerDrives(s, w, c)
    PROVE  Core(s, w, c)
  BY DEF Core, OneDrives, QueueDrives, WaitingDrives, Still

LEMMA QueueGood ==
    ASSUME NEW h \in Session, Shaped(h), Still(h), NEW w, NEW c,
           NEW e \in Entry, e.live,
           NEW t \in Session, t.queue = Append(h.queue, e), t.waiting = h.waiting, ~t.timer,
           t.active # {} => Active(t),
           e.op = "begin" => e.start,
           e.op # "end" => Active(t) /\ t.applied,
           e.op = "begin" => t.active = {},
           e.op = "apply" => Proper(e.games, t, c),
           e.op = "end" => ~Active(t)
    PROVE  Shaped(t) /\ Core(t, w, c) /\ (e.op = "end" => EndIsDue(t))
<1> DEFINE q == h.queue
           n == Len(q) + 1
<1>1. q \in Seq(Entry) /\ Len(q) \in Nat
  BY SessionIs, IndicesOf
<1>2. n \in DOMAIN t.queue /\ t.queue[n] = e
  BY <1>1, AppendIs
<1>3. \A i \in DOMAIN t.queue :
         \/ i \in DOMAIN q /\ t.queue[i] = q[i]
         \/ i = n /\ t.queue[i] = e
  BY <1>1, AppendIs
<1>4. \A i \in DOMAIN t.queue : t.queue[i].live => i = n
  BY <1>3 DEF Still
<1>5. \A i \in DOMAIN t.waiting : ~t.waiting[i].live
  BY DEF Still
<1>6. \A i \in DOMAIN t.queue : i \in Nat /\ i <= n
  <2>1. t.queue \in Seq(Entry) /\ Len(t.queue) = n
    BY <1>1, AppendIs
  <2> QED
    BY <2>1, IndicesOf
<1>7. Clear(t, n)
  BY <1>1, <1>6 DEF Clear
<1> HIDE DEF n
<1>8. Shaped(t)
  BY <1>3 DEF Shaped
<1>9. OneDrives(t)
  BY <1>4, <1>5 DEF OneDrives
<1>10. QueueDrives(t, c)
  <2> SUFFICES ASSUME NEW i \in DOMAIN t.queue, t.queue[i].live
               PROVE  LET call == t.queue[i] IN
                      /\ call.op # "end" => Active(t) /\ t.applied /\ Clear(t, i)
                      /\ call.op = "begin" => t.active = {}
                      /\ call.op = "apply" => Proper(call.games, t, c)
                      /\ call.op = "end" => ~Active(t)
    BY DEF QueueDrives
  <2>1. i = n /\ t.queue[i] = e
    BY <1>2, <1>4
  <2> QED
    BY <1>7, <2>1
<1>11. WaitingDrives(t, w) /\ TimerDrives(t, w, c)
  BY <1>5 DEF WaitingDrives, TimerDrives
<1> QED
  BY <1>2, <1>8, <1>9, <1>10, <1>11 DEF Core, EndIsDue

LEMMA WaitGood ==
    ASSUME NEW h \in Session, Shaped(h), Still(h), NEW w, NEW c,
           NEW d \in Discovery, d.live,
           NEW t \in Session, t.waiting = Append(h.waiting, d), t.queue = h.queue, ~t.timer,
           Active(t),
           d.kind # "scan" => Follows(t, w),
           d.kind = "scan" => t.active = {}
    PROVE  Shaped(t) /\ Core(t, w, c)
<1> DEFINE q == h.waiting
           n == Len(q) + 1
<1>1. q \in Seq(Discovery) /\ Len(q) \in Nat
  BY SessionIs, IndicesOf
<1>2. n \in DOMAIN t.waiting /\ t.waiting[n] = d
  BY <1>1, AppendIs
<1>3. \A i \in DOMAIN t.waiting :
         \/ i \in DOMAIN q /\ t.waiting[i] = q[i]
         \/ i = n /\ t.waiting[i] = d
  BY <1>1, AppendIs
<1> HIDE DEF n
<1>4. \A i \in DOMAIN t.waiting : t.waiting[i].live => i = n
  BY <1>3 DEF Still
<1>5. \A i \in DOMAIN t.queue : ~t.queue[i].live
  BY DEF Still
<1>6. Shaped(t)
  BY DEF Shaped
<1>7. OneDrives(t)
  BY <1>4, <1>5 DEF OneDrives
<1>8. QueueDrives(t, c) /\ TimerDrives(t, w, c)
  BY <1>5 DEF QueueDrives, TimerDrives
<1>9. WaitingDrives(t, w)
  BY <1>2, <1>4 DEF WaitingDrives
<1> QED
  BY <1>6, <1>7, <1>8, <1>9 DEF Core

LEMMA AlikeGood ==
    ASSUME NEW s, NEW t, NEW w, NEW c, Core(s, w, c),
           Alike(s, t), t.queue = s.queue, t.waiting = s.waiting
    PROVE  Core(t, w, c)
<1>1. Active(t) <=> Active(s)
  BY DEF Active, Alike
<1>2. \A n : Clear(t, n) <=> Clear(s, n)
  BY DEF Clear
<1>3. Follows(t, w) <=> Follows(s, w)
  BY <1>2 DEF Follows, Alike
<1>4. \A g : Proper(g, t, c) <=> Proper(g, s, c)
  BY DEF Proper, Skipped, Alike
<1>5. OneDrives(t)
  BY DEF Core, OneDrives, Still, Alike
<1>6. QueueDrives(t, c)
  BY <1>1, <1>2, <1>4 DEF Core, QueueDrives, Alike
<1>7. WaitingDrives(t, w)
  BY <1>1, <1>3 DEF Core, WaitingDrives, Alike
<1>8. TimerDrives(t, w, c)
  BY <1>1, <1>3, <1>4 DEF Core, TimerDrives, Alike
<1> QED
  BY <1>5, <1>6, <1>7, <1>8 DEF Core

\* An operation that no current invocation asked for leaves the queue.
LEMMA PoppedGood ==
    ASSUME NEW s \in Session, NEW t \in Session, NEW w, NEW v, NEW c,
           Core(s, w, c), s.queue # <<>>, ~s.queue[1].live,
           Alike(s, t), t.queue = Tail(s.queue), t.waiting = s.waiting,
           v = w \/ s.queue[1].op \in {"pause", "resume"}
    PROVE  Core(t, v, c)
<1>1. s.queue \in Seq(Entry)
  BY SessionIs
<1>2. /\ 1 \in DOMAIN s.queue
      /\ \A i \in DOMAIN t.queue :
            i \in Nat /\ 1 <= i /\ i + 1 \in DOMAIN s.queue /\ t.queue[i] = s.queue[i + 1]
  BY <1>1, TailIs
<1>3. Active(t) <=> Active(s)
  BY DEF Active, Alike
<1>4. ASSUME NEW n \in Int, Clear(s, n + 1)
      PROVE  Clear(t, n)
  BY <1>2, <1>4 DEF Clear
<1>5. Clear(s, 0) => Clear(t, 0) /\ v = w
  BY <1>2 DEF Clear
<1>6. Follows(s, w) => Follows(t, v)
  BY <1>5 DEF Follows, Alike
<1>7. \A g : Proper(g, t, c) <=> Proper(g, s, c)
  BY DEF Proper, Skipped, Alike
<1>8. OneDrives(t)
  <2>1. \A i, j \in DOMAIN t.queue : t.queue[i].live /\ t.queue[j].live => i = j
    <3> TAKE i, j \in DOMAIN t.queue
    <3> HAVE t.queue[i].live /\ t.queue[j].live
    <3>1. i + 1 = j + 1
      BY <1>2 DEF Core, OneDrives
    <3> QED
      BY <1>2, <3>1
  <2>2. \A i \in DOMAIN t.queue, j \in DOMAIN t.waiting :
           ~(t.queue[i].live /\ t.waiting[j].live)
    BY <1>2 DEF Core, OneDrives
  <2>3. t.timer => Still(t)
    BY <1>2 DEF Core, OneDrives, Still, Alike
  <2> QED
    BY <2>1, <2>2, <2>3 DEF Core, OneDrives
<1>9. QueueDrives(t, c)
  <2> SUFFICES ASSUME NEW i \in DOMAIN t.queue, t.queue[i].live
               PROVE  LET call == t.queue[i] IN
                      /\ call.op # "end" => Active(t) /\ t.applied /\ Clear(t, i)
                      /\ call.op = "begin" => t.active = {}
                      /\ call.op = "apply" => Proper(call.games, t, c)
                      /\ call.op = "end" => ~Active(t)
    BY DEF QueueDrives
  <2>1. i + 1 \in DOMAIN s.queue /\ t.queue[i] = s.queue[i + 1] /\ i \in Int
    BY <1>2
  <2>2. LET call == t.queue[i] IN
        /\ call.op # "end" => Active(s) /\ s.applied /\ Clear(s, i + 1)
        /\ call.op = "begin" => s.active = {}
        /\ call.op = "apply" => Proper(call.games, s, c)
        /\ call.op = "end" => ~Active(s)
    BY <2>1 DEF Core, QueueDrives
  <2> QED
    BY <1>3, <1>4, <1>7, <2>1, <2>2 DEF Alike
<1>10. WaitingDrives(t, v)
  BY <1>3, <1>6 DEF Core, WaitingDrives, Alike
<1>11. TimerDrives(t, v, c)
  BY <1>3, <1>6, <1>7 DEF Core, TimerDrives, Alike
<1> QED
  BY <1>8, <1>9, <1>10, <1>11 DEF Core

\* What drove the session has gone to work: nothing that waits is current.
LEMMA PoppedStill ==
    ASSUME NEW s \in Session, NEW t, NEW w, NEW c, Core(s, w, c), s.queue # <<>>,
           s.queue[1].live, t.queue = Tail(s.queue), t.waiting = s.waiting
    PROVE  Still(t) /\ ~s.timer
<1>1. s.queue \in Seq(Entry)
  BY SessionIs
<1>2. /\ 1 \in DOMAIN s.queue
      /\ \A i \in DOMAIN t.queue :
            i \in Nat /\ 1 <= i /\ i + 1 \in DOMAIN s.queue /\ t.queue[i] = s.queue[i + 1]
  BY <1>1, TailIs
<1>3. \A i \in DOMAIN t.queue : i + 1 # 1
  BY <1>2
<1> QED
  BY <1>2, <1>3 DEF Core, OneDrives, Still

\* A scan that is not current is over.
LEMMA RemovedGood ==
    ASSUME NEW s \in Session, NEW t \in Session, NEW w, NEW c, Core(s, w, c),
           NEW i \in DOMAIN s.waiting, ~s.waiting[i].live,
           Alike(s, t), t.queue = s.queue, t.waiting = RemoveAt(s.waiting, i)
    PROVE  Core(t, w, c)
<1>1. s.waiting \in Seq(Discovery)
  BY SessionIs
<1>2. /\ \A j \in DOMAIN t.waiting :
            Place(j, i) \in DOMAIN s.waiting /\ t.waiting[j] = s.waiting[Place(j, i)]
      /\ \A j, k \in DOMAIN t.waiting : Place(j, i) = Place(k, i) => j = k
  BY <1>1, RemoveAtIs
<1>3. Active(t) <=> Active(s)
  BY DEF Active, Alike
<1>4. \A n : Clear(t, n) <=> Clear(s, n)
  BY DEF Clear
<1>5. Follows(t, w) <=> Follows(s, w)
  BY <1>4 DEF Follows, Alike
<1>6. \A g : Proper(g, t, c) <=> Proper(g, s, c)
  BY DEF Proper, Skipped, Alike
<1>7. OneDrives(t)
  BY <1>2 DEF Core, OneDrives, Still, Alike
<1>8. QueueDrives(t, c)
  BY <1>3, <1>4, <1>6 DEF Core, QueueDrives, Alike
<1>9. WaitingDrives(t, w)
  BY <1>2, <1>3, <1>5 DEF Core, WaitingDrives, Alike
<1>10. TimerDrives(t, w, c)
  BY <1>3, <1>5, <1>6 DEF Core, TimerDrives, Alike
<1> QED
  BY <1>7, <1>8, <1>9, <1>10 DEF Core

LEMMA RemovedStill ==
    ASSUME NEW s \in Session, NEW t, NEW w, NEW c, Core(s, w, c),
           NEW i \in DOMAIN s.waiting, s.waiting[i].live,
           t.queue = s.queue, t.waiting = RemoveAt(s.waiting, i)
    PROVE  Still(t) /\ ~s.timer
<1>1. s.waiting \in Seq(Discovery)
  BY SessionIs
<1>2. \A j \in DOMAIN t.waiting :
         /\ Place(j, i) \in DOMAIN s.waiting /\ Place(j, i) # i
         /\ t.waiting[j] = s.waiting[Place(j, i)]
  BY <1>1, RemoveAtIs
<1> QED
  BY <1>2 DEF Core, OneDrives, Still

\* The resume of a paused account disturbs nobody.
LEMMA ResumeWaits ==
    ASSUME NEW s \in Session, NEW t \in Session, NEW w, NEW c, Core(s, w, c),
           Alike(s, t), t.queue = Append(s.queue, Order("farm_resume")),
           t.waiting = s.waiting
    PROVE  Core(t, w, c)
<1> DEFINE e == Order("farm_resume")
<1>1. s.queue \in Seq(Entry) /\ e \in Entry /\ e.op = "farm_resume" /\ ~e.live
  BY SessionIs, EntryIs DEF Orders
<1>2. \A i \in DOMAIN t.queue :
         \/ i \in DOMAIN s.queue /\ t.queue[i] = s.queue[i]
         \/ t.queue[i] = e
  BY <1>1, AppendIs
<1> HIDE DEF e
<1>3. Active(t) <=> Active(s)
  BY DEF Active, Alike
<1>4. \A n : Clear(s, n) => Clear(t, n)
  BY <1>1, <1>2 DEF Clear
<1>5. Follows(s, w) => Follows(t, w)
  BY <1>4 DEF Follows, Alike
<1>6. \A g : Proper(g, t, c) <=> Proper(g, s, c)
  BY DEF Proper, Skipped, Alike
<1>7. \A i \in DOMAIN t.queue : t.queue[i].live => i \in DOMAIN s.queue /\ t.queue[i] = s.queue[i]
  BY <1>1, <1>2
<1>8. OneDrives(t)
  BY <1>7 DEF Core, OneDrives, Still, Alike
<1>9. QueueDrives(t, c)
  BY <1>3, <1>4, <1>6, <1>7 DEF Core, QueueDrives, Alike
<1>10. WaitingDrives(t, w)
  BY <1>3, <1>5 DEF Core, WaitingDrives, Alike
<1>11. TimerDrives(t, w, c)
  BY <1>3, <1>5, <1>6 DEF Core, TimerDrives, Alike
<1> QED
  BY <1>8, <1>9, <1>10, <1>11 DEF Core

(***************************************************************************)
(* The controller's operations                                             *)
(***************************************************************************)

LEMMA SupersededShape ==
    ASSUME NEW s \in Session, Shaped(s)
    PROVE  Shaped(Supersede(s))
<1>1. /\ s.queue \in Seq(Entry) /\ Supersede(s).queue = Dead(s.queue)
      /\ Supersede(s).phase = s.phase /\ Supersede(s).active = s.active
      /\ Supersede(s) \in Session
  BY SessionIs, SupersedeIs
<1>2. /\ DOMAIN Supersede(s).queue = DOMAIN s.queue
      /\ \A i \in DOMAIN s.queue : /\ Supersede(s).queue[i].op = s.queue[i].op
                                   /\ Supersede(s).queue[i].start = s.queue[i].start
  BY <1>1, DeadIs
<1> QED
  BY <1>1, <1>2 DEF Shaped, Active

LEMMA HaltIs ==
    ASSUME NEW s \in Session, Shaped(s), NEW reason
    PROVE  /\ Halt(s, reason) \in Session /\ Shaped(Halt(s, reason))
           /\ Still(Halt(s, reason)) /\ ~Halt(s, reason).timer
           /\ ~Active(Halt(s, reason)) /\ Halt(s, reason).active = {}
           /\ Halt(s, reason).row = (s.row /\ reason = "interrupted")
           /\ Halt(s, reason).wanted = (s.wanted /\ reason = "interrupted")
<1> DEFINE p == Supersede(s)
           t == Halt(s, reason)
<1>1. /\ p \in Session /\ Still(p) /\ Shaped(p)
      /\ p.phase = s.phase /\ p.row = s.row /\ p.wanted = s.wanted
  BY SupersedeIs, SupersededShape
<1>2. t = [p EXCEPT
              !.timer   = FALSE,
              !.applied = FALSE,
              !.active  = {},
              !.row     = @ /\ reason = "interrupted",
              !.wanted  = @ /\ reason = "interrupted",
              !.phase   = IF reason = "stopped" THEN "stopped"
                          ELSE IF Active(s) THEN "blocked" ELSE @]
  BY DEF Halt
<1> HIDE DEF p, t
<1>3. /\ t.timer = FALSE /\ t.applied = FALSE /\ t.active = {}
      /\ t.row = (p.row /\ reason = "interrupted")
      /\ t.wanted = (p.wanted /\ reason = "interrupted")
      /\ t.phase = IF reason = "stopped" THEN "stopped"
                   ELSE IF Active(s) THEN "blocked" ELSE p.phase
      /\ t.queue = p.queue /\ t.waiting = p.waiting
      /\ t.seen = p.seen /\ t.warm = p.warm /\ t.lag = p.lag
  BY <1>1, <1>2 DEF Session
<1>4. t.phase \in Phases /\ t.phase \notin Running
  BY <1>1, <1>3 DEF Session, Active, Phases, Running
<1>5. t \in Session
  <2>1. t.row \in BOOLEAN /\ t.wanted \in BOOLEAN /\ t.active \in SUBSET Games
    BY <1>3
  <2>2. t = [p EXCEPT !.timer = FALSE, !.applied = FALSE, !.active = {},
                      !.row = t.row, !.wanted = t.wanted, !.phase = t.phase]
    BY <1>1, <1>2 DEF Session
  <2> QED
    BY <1>1, <1>4, <2>1, <2>2 DEF Session
<1>6. Still(t) /\ ~Active(t)
  BY <1>1, <1>3, <1>4 DEF Still, Active
<1>7. Shaped(t)
  BY <1>1, <1>3, <1>5 DEF Shaped
<1> QED
  BY <1>1, <1>3, <1>5, <1>6, <1>7 DEF t

LEMMA EnqueueIs ==
    ASSUME NEW s \in Session, NEW op \in Waits, NEW start \in BOOLEAN,
           NEW games \in SUBSET Games, NEW phase \in {"warming", "farming"}
    PROVE  LET t == Enqueue(s, op, start, games, phase) IN
           /\ t \in Session
           /\ t.queue = Append(s.queue, [op |-> op, start |-> start, live |-> TRUE,
                                         games |-> games, phase |-> phase])
           /\ t.waiting = s.waiting /\ Alike(s, t)
           /\ t.seen = s.seen /\ t.row = s.row /\ t.wanted = s.wanted
<1> DEFINE e == [op |-> op, start |-> start, live |-> TRUE, games |-> games,
                 phase |-> phase]
           t == Enqueue(s, op, start, games, phase)
<1>1. e \in Entry /\ s.queue \in Seq(Entry)
  BY SessionIs, NewCall
<1>2. Append(s.queue, e) \in Seq(Entry)
  BY <1>1, AppendIs
<1>3. t = [s EXCEPT !.queue = Append(s.queue, e)]
  BY DEF Enqueue
<1> HIDE DEF e, t
<1>4. t \in Session
  BY <1>2, <1>3 DEF Session, Entry
<1>5. /\ t.queue = Append(s.queue, e) /\ t.waiting = s.waiting /\ Alike(s, t)
      /\ t.seen = s.seen /\ t.row = s.row /\ t.wanted = s.wanted
  BY <1>3 DEF Session, Alike
<1> QED
  BY <1>4, <1>5 DEF e, t

\* The end of a session that nothing drives any more waits in the queue.
LEMMA EndGood ==
    ASSUME NEW h \in Session, Shaped(h), Still(h), ~h.timer, ~Active(h),
           NEW start \in BOOLEAN, NEW w, NEW c
    PROVE  LET t == Enqueue(h, "end", start, {}, "farming") IN
           /\ Shaped(t) /\ Core(t, w, c) /\ EndIsDue(t) /\ ~Active(t)
           /\ t.row = h.row /\ t.wanted = h.wanted
<1> DEFINE e == [op |-> "end", start |-> start, live |-> TRUE, games |-> {},
                 phase |-> "farming"]
           t == Enqueue(h, "end", start, {}, "farming")
<1>1. {} \in SUBSET Games /\ "end" \in Waits /\ "farming" \in {"warming", "farming"}
  BY DEF Waits
<1>2. e \in Entry
  BY <1>1, NewCall
<1>3. /\ t \in Session /\ t.queue = Append(h.queue, e) /\ t.waiting = h.waiting
      /\ Alike(h, t) /\ t.row = h.row /\ t.wanted = h.wanted
  BY <1>1, EnqueueIs, ZenonT(60)
<1>4. e.op = "end" /\ e.live
  OBVIOUS
<1> HIDE DEF e
<1>5. ~t.timer /\ ~Active(t) /\ t.active = h.active /\ t.active = {}
  BY <1>3 DEF Alike, Shaped, Active
<1>6. Shaped(t) /\ Core(t, w, c) /\ EndIsDue(t)
  BY <1>2, <1>3, <1>4, <1>5, QueueGood
<1> QED
  BY <1>3, <1>5, <1>6

LEMMA FailGood ==
    ASSUME NEW s \in Session, Shaped(s), s.applied, NEW start \in BOOLEAN, NEW w, NEW c
    PROVE  LET t == Fail(s, start) IN
           Shaped(t) /\ Core(t, w, c) /\ EndIsDue(t) /\ ~Active(t) /\ ~t.row
<1> DEFINE p == Halt(s, "ended")
           h == [p EXCEPT !.phase = "error"]
           t == Fail(s, start)
<1>1. p \in Session /\ Shaped(p) /\ Still(p) /\ ~p.timer /\ p.active = {} /\ ~p.row
  BY HaltIs
<1>2. t = Enqueue(h, "end", start, {}, "farming")
  BY DEF Fail, CleanUp
<1> HIDE DEF p
<1>3. /\ h \in Session /\ h.phase = "error" /\ h.timer = p.timer /\ h.active = p.active
      /\ h.row = p.row /\ h.queue = p.queue /\ h.waiting = p.waiting
  BY <1>1 DEF Session, Phases, Running
<1> HIDE DEF h
<1>4. Shaped(h) /\ Still(h) /\ ~h.timer /\ ~Active(h)
  BY <1>1, <1>3 DEF Shaped, Still, Active, Running
<1> QED
  BY <1>1, <1>2, <1>3, <1>4, EndGood

LEMMA UnavailableGood ==
    ASSUME NEW s \in Session, Shaped(s), s.applied, NEW start \in BOOLEAN, NEW w, NEW c
    PROVE  LET t == Unavailable(s, "ended", start) IN
           Shaped(t) /\ Core(t, w, c) /\ EndIsDue(t) /\ ~Active(t) /\ ~t.row
<1> DEFINE h == Halt(s, "ended")
           t == Unavailable(s, "ended", start)
<1>1. h \in Session /\ Shaped(h) /\ Still(h) /\ ~h.timer /\ ~Active(h) /\ ~h.row
  BY HaltIs
<1>2. t = Enqueue(h, "end", start, {}, "farming")
  BY DEF Unavailable, CleanUp
<1> HIDE DEF h
<1> QED
  BY <1>1, <1>2, EndGood

LEMMA CompleteGood ==
    ASSUME NEW s \in Session, Shaped(s), Still(s), ~s.timer, s.applied,
           NEW start \in BOOLEAN, NEW w, NEW c
    PROVE  LET t == Complete(s, start) IN
           Shaped(t) /\ Core(t, w, c) /\ EndIsDue(t) /\ ~Active(t) /\ ~t.row
<1> DEFINE h == [s EXCEPT !.phase = "completed", !.row = FALSE, !.wanted = FALSE,
                          !.active = {}]
           t == Complete(s, start)
<1>1. t = Enqueue(h, "end", start, {}, "farming")
  BY DEF Complete, CleanUp
<1>2. /\ h \in Session /\ h.phase = "completed" /\ h.timer = s.timer /\ h.active = {}
      /\ ~h.row /\ h.queue = s.queue /\ h.waiting = s.waiting
  BY DEF Session, Phases, Running
<1> HIDE DEF h
<1>3. Shaped(h) /\ Still(h) /\ ~h.timer /\ ~Active(h)
  BY <1>2 DEF Shaped, Still, Active, Running
<1> QED
  BY <1>1, <1>2, <1>3, EndGood

LEMMA StartedGood ==
    ASSUME NEW s \in Session, Shaped(s), ~Active(s), ~s.timer, NEW w, NEW c
    PROVE  LET t == Started(s) IN
           /\ t \in Session /\ Shaped(t) /\ Core(t, w, c)
           /\ t.wanted = s.wanted /\ t.row = s.row
<1> DEFINE p == Supersede(s)
           h == [p EXCEPT !.phase = "scanning", !.applied = TRUE]
           e == [op |-> "begin", start |-> TRUE, live |-> TRUE, games |-> {},
                 phase |-> "farming"]
           t == Started(s)
<1>1. /\ p \in Session /\ Shaped(p) /\ Still(p) /\ p.timer = s.timer /\ p.row = s.row
      /\ p.wanted = s.wanted /\ p.active = s.active
  BY SupersedeIs, SupersededShape
<1>2. t = Enqueue(h, "begin", TRUE, {}, "farming")
  BY DEF Started
<1> HIDE DEF p
<1>3. /\ h \in Session /\ h.phase = "scanning" /\ h.timer = p.timer /\ h.active = p.active
      /\ h.applied /\ h.row = p.row /\ h.wanted = p.wanted
      /\ h.queue = p.queue /\ h.waiting = p.waiting
  BY <1>1 DEF Session, Phases, Running
<1> HIDE DEF h
<1>4. Shaped(h) /\ Still(h) /\ ~h.timer /\ Active(h) /\ h.active = {}
  BY <1>1, <1>3 DEF Shaped, Still, Active, Running
<1>5. {} \in SUBSET Games /\ "begin" \in Waits /\ "farming" \in {"warming", "farming"}
  BY DEF Waits
<1>6. e \in Entry
  BY <1>5, NewCall
<1>7. /\ t \in Session /\ t.queue = Append(h.queue, e) /\ t.waiting = h.waiting
      /\ Alike(h, t) /\ t.row = h.row /\ t.wanted = h.wanted
  <2> DEFINE u == Enqueue(h, "begin", TRUE, {}, "farming")
  <2>1. /\ u \in Session /\ u.queue = Append(h.queue, e) /\ u.waiting = h.waiting
        /\ Alike(h, u) /\ u.row = h.row /\ u.wanted = h.wanted
    <3>1. h \in Session
      BY <1>3
    <3> QED
      BY <1>5, <3>1, EnqueueIs, ZenonT(60)
  <2> QED
    BY <1>2, <2>1
<1>8. e.op = "begin" /\ e.live /\ e.start
  OBVIOUS
<1> HIDE DEF e
<1>9. ~t.timer /\ Active(t) /\ t.active = {} /\ t.applied
  BY <1>3, <1>4, <1>7 DEF Alike, Active
<1>10. Shaped(t) /\ Core(t, w, c)
  BY <1>3, <1>4, <1>6, <1>7, <1>8, <1>9, QueueGood
<1> QED
  BY <1>1, <1>3, <1>7, <1>10

(***************************************************************************)
(* A selection                                                             *)
(***************************************************************************)

LEMMA SelectionsFit ==
    ASSUME NEW s \in Session, NEW c, NEW sel \in Selections(s, c)
    PROVE  /\ sel.games \in SUBSET Games /\ sel.phase \in {"warming", "farming"}
           /\ sel.games \cap Skipped(s, c) = {}
<1> DEFINE eligible == Eligible(s, c)
           cold     == eligible \ s.warm
           size     == IF Cardinality(cold) < Limit THEN Cardinality(cold) ELSE Limit
           one(set) == {[games |-> {g}, phase |-> "farming"] : g \in set}
<1>1. \/ sel \in one(eligible \cap c.pinned)
      \/ sel \in {[games |-> set, phase |-> "warming"] : set \in kSubset(size, cold)}
      \/ sel \in one(eligible)
  BY DEF Selections
<1>2. kSubset(size, cold) \subseteq SUBSET cold
  BY DEF kSubset
<1> HIDE DEF size
<1>3. sel.games \subseteq eligible /\ sel.phase \in {"warming", "farming"}
  <2>1. CASE \E g \in eligible : sel = [games |-> {g}, phase |-> "farming"]
    BY <2>1
  <2>2. CASE \E set \in kSubset(size, cold) : sel = [games |-> set, phase |-> "warming"]
    BY <1>2, <2>2
  <2> QED
    BY <1>1, <2>1, <2>2
<1>4. eligible \subseteq Games /\ eligible \cap Skipped(s, c) = {}
  BY DEF Eligible, Session
<1> QED
  BY <1>3, <1>4

\* Whatever is selected for a session that has nothing else to do drives it on.
LEMMA SelectedGood ==
    ASSUME NEW s \in Session, Shaped(s), Still(s), ~s.timer, Active(s),
           NEW w, Follows(s, w), NEW c, NEW a, a = "connected",
           NEW start \in BOOLEAN, NEW sl, s.wanted \/ sl # {},
           NEW t \in Selected(s, c, start)
    PROVE  Good(t, w, c, a, sl)
<1>1. CASE Eligible(s, c) = {}
  <2>1. t = Complete(s, start) /\ s.applied
    BY <1>1 DEF Selected, Follows
  <2>2. Shaped(t) /\ Core(t, w, c) /\ EndIsDue(t) /\ ~Active(t) /\ ~t.row
    BY <2>1, CompleteGood
  <2> QED
    BY <2>2 DEF Good, Connected, Unwanted
<1>2. CASE Eligible(s, c) # {}
  <2>1. PICK sel \in Selections(s, c) :
           t = IF sel.games = s.active
               THEN Settle(s, sel.games, sel.phase)
               ELSE Enqueue([s EXCEPT !.applied = TRUE], "apply", start, sel.games,
                            sel.phase)
    BY <1>2 DEF Selected
  <2>2. /\ sel.games \in SUBSET Games /\ sel.phase \in {"warming", "farming"}
        /\ sel.games \cap Skipped(s, c) = {}
    BY SelectionsFit
  <2>3. CASE sel.games = s.active
    <3>1. t = [s EXCEPT !.applied = TRUE, !.active = sel.games, !.phase = sel.phase,
                        !.timer = TRUE]
      BY <2>1, <2>3 DEF Settle
    <3>2. t \in Session
      BY <2>2, <3>1 DEF Session, Phases, Running
    <3>3. /\ t.applied = TRUE /\ t.active = s.active /\ t.phase = sel.phase /\ t.timer = TRUE
          /\ t.queue = s.queue /\ t.waiting = s.waiting /\ t.warm = s.warm
          /\ t.lag = s.lag /\ t.row = s.row /\ t.wanted = s.wanted
      BY <2>3, <3>1 DEF Session
    <3>4. Active(t) /\ Still(t)
      BY <2>2, <3>3 DEF Active, Running, Still
    <3>5. Follows(t, w)
      BY <3>3 DEF Follows, Clear
    <3>6. Proper(t.active, t, c)
      BY <2>2, <2>3, <3>3 DEF Proper, Skipped
    <3>7. Core(t, w, c)
      BY <3>4, <3>5, <3>6, TimerGood DEF TimerDrives
    <3>8. Shaped(t) /\ Connected(t, a) /\ Unwanted(t, w, sl)
      BY <3>2, <3>3, <3>4 DEF Shaped, Connected, Unwanted
    <3> QED
      BY <3>7, <3>8 DEF Good
  <2>4. CASE sel.games # s.active
    <3> DEFINE h == [s EXCEPT !.applied = TRUE]
               e == [op |-> "apply", start |-> start, live |-> TRUE, games |-> sel.games,
                     phase |-> sel.phase]
    <3>1. t = Enqueue(h, "apply", start, sel.games, sel.phase)
      BY <2>1, <2>4
    <3>2. /\ h \in Session /\ h.applied /\ h.queue = s.queue /\ h.waiting = s.waiting
          /\ Alike(s, h) /\ h.wanted = s.wanted /\ h.active = s.active
      BY DEF Session, Alike, Follows
    <3> HIDE DEF h
    <3>3. "apply" \in Waits
      BY DEF Waits
    <3>4. /\ t \in Session /\ t.queue = Append(h.queue, e) /\ t.waiting = h.waiting
          /\ Alike(h, t) /\ t.wanted = h.wanted
      <4> DEFINE u == Enqueue(h, "apply", start, sel.games, sel.phase)
      <4>1. /\ u \in Session /\ u.queue = Append(h.queue, e) /\ u.waiting = h.waiting
            /\ Alike(h, u) /\ u.wanted = h.wanted
        <5>1. h \in Session
          BY <3>2
        <5>2. sel.games \in SUBSET Games /\ sel.phase \in {"warming", "farming"}
          BY <2>2
        <5> QED
          BY <3>3, <5>1, <5>2, EnqueueIs, ZenonT(60)
      <4> QED
        BY <3>1, <4>1
    <3>5. e \in Entry
      BY <2>2, <3>3, NewCall
    <3>6. e.op = "apply" /\ e.live /\ e.games = sel.games
      OBVIOUS
    <3> HIDE DEF e
    <3>7. Shaped(h) /\ Still(h) /\ Active(h)
      BY <3>2 DEF Shaped, Still, Active, Alike
    <3>8. ~t.timer /\ Active(t) /\ t.applied /\ Proper(e.games, t, c)
      BY <2>2, <3>2, <3>4, <3>6, <3>7 DEF Alike, Proper, Skipped, Active
    <3>9. Shaped(t) /\ Core(t, w, c)
      BY <3>2, <3>4, <3>5, <3>6, <3>7, <3>8, QueueGood
    <3>10. Connected(t, a) /\ Unwanted(t, w, sl)
      BY <3>2, <3>4 DEF Connected, Unwanted
    <3> QED
      BY <3>9, <3>10 DEF Good
  <2> QED
    BY <2>3, <2>4
<1> QED
  BY <1>1, <1>2

(***************************************************************************)
(* Steps of the queue and of the scans                                     *)
(***************************************************************************)

LEMMA PopIs ==
    ASSUME NEW s \in Session, Shaped(s), s.queue # <<>>
    PROVE  LET t == [s EXCEPT !.queue = Tail(@)] IN
           /\ t \in Session /\ Shaped(t) /\ Alike(s, t) /\ (Active(t) <=> Active(s))
           /\ t.queue = Tail(s.queue) /\ t.waiting = s.waiting
           /\ t.seen = s.seen /\ t.row = s.row /\ t.wanted = s.wanted
<1> DEFINE t == [s EXCEPT !.queue = Tail(@)]
<1>1. /\ s.queue \in Seq(Entry) /\ Tail(s.queue) \in Seq(Entry)
      /\ \A i \in DOMAIN Tail(s.queue) :
            i + 1 \in DOMAIN s.queue /\ Tail(s.queue)[i] = s.queue[i + 1]
  BY SessionIs, TailIs
<1>2. t \in Session
  BY <1>1 DEF Session, Entry
<1>3. /\ Alike(s, t) /\ t.queue = Tail(s.queue) /\ t.waiting = s.waiting
      /\ t.seen = s.seen /\ t.row = s.row /\ t.wanted = s.wanted
  BY DEF Session, Alike
<1> HIDE DEF t
<1>4. Active(t) <=> Active(s)
  BY <1>3 DEF Active, Alike
<1>5. Shaped(t)
  BY <1>1, <1>2, <1>3, <1>4 DEF Shaped, Alike
<1> QED
  BY <1>2, <1>3, <1>4, <1>5 DEF t

LEMMA RemoveIs ==
    ASSUME NEW s \in Session, Shaped(s), NEW i \in DOMAIN s.waiting
    PROVE  LET t == [s EXCEPT !.waiting = RemoveAt(@, i)] IN
           /\ t \in Session /\ Shaped(t) /\ Alike(s, t) /\ (Active(t) <=> Active(s))
           /\ t.queue = s.queue /\ t.waiting = RemoveAt(s.waiting, i)
           /\ t.seen = s.seen /\ t.row = s.row /\ t.wanted = s.wanted
<1> DEFINE t == [s EXCEPT !.waiting = RemoveAt(@, i)]
<1>1. s.waiting \in Seq(Discovery) /\ RemoveAt(s.waiting, i) \in Seq(Discovery)
  BY SessionIs, RemoveAtIs
<1>2. t \in Session
  BY <1>1 DEF Session
<1>3. /\ Alike(s, t) /\ t.queue = s.queue /\ t.waiting = RemoveAt(s.waiting, i)
      /\ t.seen = s.seen /\ t.row = s.row /\ t.wanted = s.wanted
  BY DEF Session, Alike
<1> HIDE DEF t
<1>4. Active(t) <=> Active(s)
  BY <1>3 DEF Active, Alike
<1>5. Shaped(t)
  BY <1>2, <1>3, <1>4 DEF Shaped, Alike
<1> QED
  BY <1>2, <1>3, <1>4, <1>5 DEF t

LEMMA ReturnedIs ==
    ASSUME NEW s \in Session, Shaped(s), NEW start \in BOOLEAN
    PROVE  LET t == Returned(s, start) IN
           /\ t \in Session /\ Shaped(t) /\ Alike(s, t) /\ (Active(t) <=> Active(s))
           /\ t.queue = s.queue /\ t.waiting = s.waiting /\ t.wanted = s.wanted
           /\ t.row = (s.row \/ (start /\ Active(s)))
<1> DEFINE t == Returned(s, start)
<1>1. CASE start /\ Active(s)
  <2>1. t = [s EXCEPT !.row = TRUE]
    BY <1>1 DEF Returned
  <2> HIDE DEF t
  <2>2. /\ t \in Session /\ Alike(s, t) /\ t.queue = s.queue /\ t.waiting = s.waiting
        /\ t.wanted = s.wanted /\ t.row
    BY <2>1 DEF Session, Alike
  <2>3. Active(t) <=> Active(s)
    BY <2>2 DEF Active, Alike
  <2>4. t.row = (s.row \/ (start /\ Active(s)))
    BY <1>1, <2>2 DEF Session
  <2> QED
    BY <2>2, <2>3, <2>4 DEF Shaped, Alike, t
<1>2. CASE ~(start /\ Active(s))
  <2>1. t = s
    BY <1>2 DEF Returned
  <2>2. s.row = (s.row \/ (start /\ Active(s)))
    BY <1>2 DEF Session
  <2> QED
    BY <2>1, <2>2 DEF Alike
<1> QED
  BY <1>1, <1>2

\* An invocation that is current is wanted.
LEMMA WantedIfDriven ==
    ASSUME NEW s, NEW w, NEW c, NEW a, NEW sl, Good(s, w, c, a, sl),
           \/ s.timer
           \/ \E i \in DOMAIN s.queue : s.queue[i].live /\ s.queue[i].op # "end"
           \/ \E i \in DOMAIN s.waiting : s.waiting[i].live /\ s.waiting[i].kind # "scan"
    PROVE  s.wanted \/ sl # {}
<1> SUFFICES ASSUME ~s.wanted, sl = {}
             PROVE  FALSE
  OBVIOUS
<1>1. Active(s)
  BY DEF Good, Core, QueueDrives, WaitingDrives, TimerDrives
<1>2. PICK k \in DOMAIN s.waiting : s.waiting[k].live /\ s.waiting[k].kind = "scan"
  BY <1>1 DEF Good, Unwanted, OnlyScans
<1> QED
  BY <1>2 DEF Good, Core, OneDrives, Still

LEMMA UnwantedPopped ==
    ASSUME NEW s \in Session, NEW t, NEW w, NEW v, NEW sl, Unwanted(s, w, sl),
           s.queue # <<>>, ~(s.queue[1].live /\ s.queue[1].op = "end"),
           t.queue = Tail(s.queue), t.waiting = s.waiting, t.wanted = s.wanted,
           Active(t) <=> Active(s),
           t.row => s.row \/ (s.queue[1].start /\ Active(s)),
           v.held => w.held
    PROVE  Unwanted(t, v, sl)
<1> SUFFICES ASSUME ~s.wanted, sl = {}
             PROVE  ~t.row /\ (v.held => EndIsDue(t)) /\ (Active(t) => OnlyScans(t))
  BY DEF Unwanted
<1>1. ~s.row /\ (w.held => EndIsDue(s)) /\ (Active(s) => OnlyScans(s))
  BY DEF Unwanted
<1>2. s.queue \in Seq(Entry)
  BY SessionIs
<1>3. /\ 1 \in DOMAIN s.queue
      /\ \A i \in DOMAIN t.queue : i + 1 \in DOMAIN s.queue /\ t.queue[i] = s.queue[i + 1]
      /\ \A i \in DOMAIN s.queue :
            i = 1 \/ (i - 1 \in DOMAIN t.queue /\ t.queue[i - 1] = s.queue[i])
  BY <1>2, TailIs
<1>4. ~t.row
  BY <1>1, <1>3 DEF OnlyScans
<1>5. EndIsDue(s) => EndIsDue(t)
  <2> SUFFICES ASSUME NEW i \in DOMAIN s.queue, s.queue[i].live, s.queue[i].op = "end"
               PROVE  EndIsDue(t)
    BY DEF EndIsDue
  <2>1. i # 1
    OBVIOUS
  <2>2. i - 1 \in DOMAIN t.queue /\ t.queue[i - 1] = s.queue[i]
    BY <1>3, <2>1
  <2> QED
    BY <2>2 DEF EndIsDue
<1>6. OnlyScans(s) => OnlyScans(t)
  BY <1>3 DEF OnlyScans
<1> QED
  BY <1>1, <1>4, <1>5, <1>6

LEMMA UnwantedRemoved ==
    ASSUME NEW s \in Session, NEW t, NEW w, NEW sl, Unwanted(s, w, sl),
           NEW i \in DOMAIN s.waiting, ~s.waiting[i].live,
           t.queue = s.queue, t.waiting = RemoveAt(s.waiting, i), t.wanted = s.wanted,
           Active(t) <=> Active(s),
           t.row => s.row \/ (s.waiting[i].kind = "start" /\ Active(s))
    PROVE  Unwanted(t, w, sl)
<1> SUFFICES ASSUME ~s.wanted, sl = {}
             PROVE  ~t.row /\ (w.held => EndIsDue(t)) /\ (Active(t) => OnlyScans(t))
  BY DEF Unwanted
<1>1. ~s.row /\ (w.held => EndIsDue(s)) /\ (Active(s) => OnlyScans(s))
  BY DEF Unwanted
<1>2. s.waiting \in Seq(Discovery)
  BY SessionIs
<1>3. /\ \A j \in DOMAIN t.waiting :
            Place(j, i) \in DOMAIN s.waiting /\ t.waiting[j] = s.waiting[Place(j, i)]
      /\ \A k \in DOMAIN s.waiting : k = i \/ \E j \in DOMAIN t.waiting : Place(j, i) = k
  BY <1>2, RemoveAtIs
<1>4. ~t.row
  BY <1>1 DEF OnlyScans
<1>5. EndIsDue(s) => EndIsDue(t)
  BY DEF EndIsDue
<1>6. OnlyScans(s) => OnlyScans(t)
  <2> SUFFICES ASSUME OnlyScans(s)
               PROVE  OnlyScans(t)
    OBVIOUS
  <2>1. PICK k \in DOMAIN s.waiting : s.waiting[k].live /\ s.waiting[k].kind = "scan"
    BY DEF OnlyScans
  <2>2. PICK j \in DOMAIN t.waiting : Place(j, i) = k
    BY <1>3, <2>1
  <2>3. t.waiting[j].live /\ t.waiting[j].kind = "scan"
    BY <1>3, <2>1, <2>2
  <2>4. \A l \in DOMAIN t.waiting : t.waiting[l].kind # "start"
    BY <1>3 DEF OnlyScans
  <2> QED
    BY <2>3, <2>4 DEF OnlyScans
<1> QED
  BY <1>1, <1>4, <1>5, <1>6

(***************************************************************************)
(* Requests                                                                *)
(***************************************************************************)

LEMMA Facts ==
    ASSUME IInv
    PROVE  /\ f \in Session /\ Shaped(f) /\ Core(f, worker, config)
           /\ Connected(f, account) /\ Unwanted(f, worker, slips)
           /\ ~Active(f) => ~f.timer /\ f.active = {}
           /\ Driven(f) => Active(f) /\ account = "connected"
<1>1. /\ f \in Session /\ Shaped(f) /\ Core(f, worker, config)
      /\ Connected(f, account) /\ Unwanted(f, worker, slips)
  BY DEF IInv, Good, Shaped
<1>2. ~Active(f) => ~f.timer /\ f.active = {}
  BY <1>1 DEF Shaped, Core, TimerDrives
<1>3. Driven(f) => Active(f)
  BY <1>1 DEF Core, QueueDrives, WaitingDrives, TimerDrives, Driven
<1> QED
  BY <1>1, <1>2, <1>3 DEF Connected

\* What drives the session after an entry has left the queue, or a scan that was not
\* current is over, drove it before.
LEMMA DrivenPopped ==
    ASSUME NEW s \in Session, NEW t, s.queue # <<>>, t.queue = Tail(s.queue),
           t.waiting = s.waiting, Alike(s, t), Driven(t)
    PROVE  Driven(s)
<1>1. s.queue \in Seq(Entry)
  BY SessionIs
<1>2. \A i \in DOMAIN t.queue : i + 1 \in DOMAIN s.queue /\ t.queue[i] = s.queue[i + 1]
  BY <1>1, TailIs
<1> QED
  BY <1>2 DEF Driven, Alike

LEMMA DrivenRemoved ==
    ASSUME NEW s \in Session, NEW t, NEW i \in DOMAIN s.waiting,
           t.queue = s.queue, t.waiting = RemoveAt(s.waiting, i), Alike(s, t), Driven(t)
    PROVE  Driven(s)
<1>1. s.waiting \in Seq(Discovery)
  BY SessionIs
<1>2. \A j \in DOMAIN t.waiting :
         Place(j, i) \in DOMAIN s.waiting /\ t.waiting[j] = s.waiting[Place(j, i)]
  BY <1>1, RemoveAtIs
<1> QED
  BY <1>2 DEF Driven, Alike

\* A session that nothing drives asks nothing of the worker.
LEMMA UndrivenGood ==
    ASSUME NEW s, NEW w, NEW v, NEW c, Core(s, w, c), ~Driven(s)
    PROVE  Core(s, v, c)
<1>1. WaitingDrives(s, v)
  BY DEF Core, WaitingDrives, Driven
<1>2. TimerDrives(s, v, c)
  BY DEF TimerDrives, Driven
<1> QED
  BY <1>1, <1>2 DEF Core

\* A session that starts has been wanted, or something should have been finished.
LEMMA BegunGood ==
    ASSUME NEW s \in Session, Shaped(s), ~Active(s), ~s.timer, NEW w, NEW c, NEW a,
           a = "connected", NEW sl,
           NEW t, t = Started(s),
           NEW u, u = t \/ \E b \in BOOLEAN : u = [t EXCEPT !.wanted = b],
           u.wanted \/ sl # {}
    PROVE  Good(u, w, c, a, sl)
<1>1. t \in Session /\ Shaped(t) /\ Core(t, w, c)
  BY StartedGood, Zenon
<1>2. /\ u \in Session /\ Alike(t, u) /\ u.queue = t.queue /\ u.waiting = t.waiting
  BY <1>1 DEF Session, Alike
<1>3. Core(u, w, c)
  BY <1>1, <1>2, AlikeGood
<1>4. Shaped(u)
  BY <1>1, <1>2 DEF Shaped, Alike, Active
<1> QED
  BY <1>3, <1>4 DEF Good, Connected, Unwanted

LEMMA RequestStartInv ==
    ASSUME IInv, RequestStart
    PROVE  IInv'
<1>1. f \in Session /\ Shaped(f) /\ ~Active(f) /\ ~f.timer /\ account = "connected"
  BY Facts DEF RequestStart
<1>2. f' = [Started(f) EXCEPT !.wanted = TRUE] /\ Started(f) \in Session
  BY <1>1, StartedGood DEF RequestStart
<1>3. f'.wanted
  BY <1>2 DEF Session
<1>4. Good(f', worker, config, account, slips')
  BY <1>1, <1>2, <1>3, BegunGood
<1>5. Rest'
  BY DEF IInv, Rest, RequestStart, Afresh
<1> QED
  BY <1>4, <1>5 DEF IInv, RequestStart

LEMMA RequestStartPausedInv ==
    ASSUME IInv, RequestStartPaused
    PROVE  IInv'
<1> DEFINE e == Order("farm_resume")
<1>1. /\ f \in Session /\ Shaped(f) /\ Core(f, worker, config)
      /\ Connected(f, account)
  BY Facts
<1>2. f' = [f EXCEPT !.queue = Append(f.queue, e), !.wanted = TRUE]
  BY DEF RequestStartPaused
<1>3. e \in Entry /\ e.op = "farm_resume" /\ ~e.live /\ f.queue \in Seq(Entry)
  BY <1>1, EntryIs, SessionIs DEF Orders
<1>4. Append(f.queue, e) \in Seq(Entry)
      /\ \A i \in DOMAIN Append(f.queue, e) :
            \/ i \in DOMAIN f.queue /\ Append(f.queue, e)[i] = f.queue[i]
            \/ Append(f.queue, e)[i] = e
  BY <1>3, AppendIs
<1> HIDE DEF e
<1>5. /\ f' \in Session /\ Alike(f, f') /\ f'.queue = Append(f.queue, e)
      /\ f'.waiting = f.waiting /\ f'.wanted
  BY <1>1, <1>2, <1>4 DEF Session, Alike, Entry
<1>6. Core(f', worker, config)
  BY <1>1, <1>5, ResumeWaits DEF e
<1>7. (Active(f') <=> Active(f)) /\ f'.active = f.active
  BY <1>1, <1>5 DEF Alike, Active
<1>8. Shaped(f')
  BY <1>1, <1>3, <1>4, <1>5, <1>7 DEF Shaped
<1>9. Driven(f') => Driven(f)
  BY <1>3, <1>4, <1>5 DEF Driven, Alike
<1>10. Connected(f', account) /\ Unwanted(f', worker, slips')
  BY <1>1, <1>5, <1>7, <1>9 DEF Connected, Unwanted
<1>11. Good(f', worker, config, account, slips')
  BY <1>6, <1>8, <1>10 DEF Good
<1>12. Rest'
  BY DEF IInv, Rest, RequestStartPaused, Afresh
<1> QED
  BY <1>11, <1>12 DEF IInv, RequestStartPaused

LEMMA PollSucceedsInv ==
    ASSUME IInv, PollSucceeds
    PROVE  IInv'
<1>1. f \in Session /\ Shaped(f) /\ account = "connected"
  BY Facts DEF PollSucceeds
<1>2. Good(f', worker, config, account, slips)
  <2>1. CASE Active(f)
    BY <2>1 DEF IInv, PollSucceeds, Begun
  <2>2. CASE ~Active(f)
    <3>1. Started(f) \in Session /\ ~f.timer
      BY <1>1, <2>2, StartedGood, Facts
    <3>2. f' = [Started(f) EXCEPT !.wanted = @ \/ "poll" \notin slips]
      BY <2>2 DEF PollSucceeds, Begun
    <3> DEFINE b == Started(f).wanted \/ "poll" \notin slips
    <3>3. b \in BOOLEAN /\ f' = [Started(f) EXCEPT !.wanted = b]
      BY <3>1, <3>2 DEF Session
    <3>4. f'.wanted = b
      BY <3>1, <3>3 DEF Session
    <3>5. f'.wanted \/ slips # {}
      BY <3>4
    <3> HIDE DEF b
    <3> QED
      BY <1>1, <2>2, <3>1, <3>3, <3>5, BegunGood
  <2> QED
    BY <2>1, <2>2
<1>3. Rest'
  BY DEF IInv, Rest, PollSucceeds
<1> QED
  BY <1>2, <1>3 DEF IInv, PollSucceeds

LEMMA PollExpiresInv ==
    ASSUME IInv, PollExpires
    PROVE  IInv'
  BY DEF IInv, Rest, PollExpires

LEMMA RequestStopInv ==
    ASSUME IInv, RequestStop
    PROVE  IInv'
<1> DEFINE h == Halt(f, "stopped")
<1>1. /\ h \in Session /\ Shaped(h) /\ Still(h) /\ ~h.timer /\ ~Active(h) /\ ~h.row
  BY Facts, HaltIs
<1>2. f' = Enqueue(h, "end", FALSE, {}, "farming")
  BY DEF RequestStop
<1> HIDE DEF h
<1>3. /\ Shaped(f') /\ Core(f', worker, config) /\ EndIsDue(f') /\ ~Active(f') /\ ~f'.row
  <2> DEFINE t == Enqueue(h, "end", FALSE, {}, "farming")
  <2>1. /\ Shaped(t) /\ Core(t, worker, config) /\ EndIsDue(t) /\ ~Active(t) /\ t.row = h.row
    BY <1>1, EndGood
  <2> QED
    BY <1>1, <1>2, <2>1
<1>4. Good(f', worker, config, account, slips')
  BY <1>3 DEF Good, Connected, Unwanted
<1>5. Rest'
  BY DEF IInv, Rest, RequestStop, Afresh, Overtaken
<1> QED
  BY <1>4, <1>5 DEF IInv, RequestStop

\* A read-only scan ends the session it showed.
LEMMA ScannedGood ==
    ASSUME NEW s \in Session, Shaped(s), Still(s), ~s.timer, s.active = {},
           NEW w, NEW c, NEW a, NEW sl,
           ~s.wanted /\ sl = {} => ~s.row /\ ~w.held,
           NEW t \in Session, t.phase \in {"stopped", "error"}, t.timer = s.timer,
           t.active = s.active, t.row = s.row, t.wanted = s.wanted,
           t.queue = s.queue, t.waiting = s.waiting
    PROVE  Good(t, w, c, a, sl)
<1>1. ~Active(t) /\ Still(t) /\ ~t.timer
  BY DEF Active, Running, Still
<1>2. Shaped(t)
  BY DEF Shaped
<1>3. Core(t, w, c)
  BY <1>1, StillGood
<1> QED
  BY <1>1, <1>2, <1>3 DEF Good, Connected, Unwanted

\* A scan that was asked for when nothing waited is all that is under way.
LEMMA ScanAlone ==
    ASSUME IInv, RequestScan, slips' = {}
    PROVE  DOMAIN f.queue = {} /\ DOMAIN f.waiting = {} /\ slips = {}
<1>1. Calls = 0 /\ slips = {}
  BY DEF RequestScan
<1>2. f.queue \in Seq(Entry) /\ f.waiting \in Seq(Discovery)
  BY Facts, SessionIs
<1>3. Len(f.queue) \in Nat /\ Len(f.waiting) \in Nat
  BY <1>2, IndicesOf
<1>4. Len(f.queue) + Len(f.waiting) = 0
  BY <1>1, Zenon DEF Calls
<1> DEFINE m == Len(f.queue)
           n == Len(f.waiting)
<1> HIDE DEF m, n
<1>5. m \in Nat /\ n \in Nat /\ m + n = 0
  BY <1>3, <1>4, Zenon DEF m, n
<1>6. m = 0 /\ n = 0
  BY <1>5
<1>7. Len(f.queue) = 0 /\ Len(f.waiting) = 0
  BY <1>6 DEF m, n
<1> QED
  BY <1>1, <1>2, <1>7, LenProperties

\* What a scan without a connection leaves: a session in error, with nothing under way.
LEMMA ScanRefusedGood ==
    ASSUME IInv, RequestScan, f' = [Supersede(f) EXCEPT !.phase = "error"]
    PROVE  Good(f', worker, config, account, slips')
<1> DEFINE p == Supersede(f)
<1>1. f \in Session /\ Shaped(f) /\ ~f.timer /\ f.active = {} /\ Unwanted(f, worker, slips)
  BY Facts DEF RequestScan
<1>2. /\ p \in Session /\ Still(p) /\ p.timer = f.timer /\ p.active = f.active
      /\ p.row = f.row /\ Shaped(p)
  BY <1>1, SupersedeIs, SupersededShape
<1>3. p.wanted = f.wanted
  BY <1>1, SupersedeIs
<1> HIDE DEF p
<1>4. /\ f' \in Session /\ f'.phase = "error" /\ f'.timer = p.timer
      /\ f'.active = p.active /\ f'.row = p.row /\ f'.wanted = p.wanted
      /\ f'.queue = p.queue /\ f'.waiting = p.waiting
  <2>1. f' = [p EXCEPT !.phase = "error"]
    BY DEF p
  <2> QED
    BY <1>2, <2>1 DEF Session, Phases
<1>5. ~f'.wanted /\ slips' = {} => ~f'.row /\ ~worker.held
  <2> SUFFICES ASSUME ~f'.wanted, slips' = {}
               PROVE  ~f'.row /\ ~worker.held
    OBVIOUS
  <2>1. DOMAIN f.queue = {} /\ slips = {}
    BY ScanAlone
  <2> QED
    BY <1>1, <1>2, <1>3, <1>4, <2>1 DEF Unwanted, EndIsDue
<1>6. p.active = {} /\ ~p.timer /\ (~p.wanted /\ slips' = {} => ~p.row /\ ~worker.held)
  BY <1>1, <1>2, <1>4, <1>5
<1> QED
  BY <1>2, <1>4, <1>6, ScannedGood

LEMMA RequestScanInv ==
    ASSUME IInv, RequestScan
    PROVE  IInv'
<1> DEFINE p == Supersede(f)
           h == [p EXCEPT !.phase = "scanning"]
           d == [kind |-> "scan", live |-> TRUE]
<1>1. f \in Session /\ Shaped(f) /\ ~Active(f) /\ ~f.timer /\ f.active = {}
  BY Facts DEF RequestScan
<1>2. /\ p \in Session /\ Still(p) /\ p.timer = f.timer /\ p.active = f.active
      /\ p.row = f.row /\ p.wanted = f.wanted /\ p.queue = Dead(f.queue)
      /\ p.waiting = Dead(f.waiting) /\ Shaped(p)
  BY <1>1, SupersedeIs, SupersededShape
<1>3. \/ f' = [p EXCEPT !.phase = "scanning", !.waiting = Append(@, d)]
      \/ f' = [p EXCEPT !.phase = "error"]
  BY DEF RequestScan
<1>4. Rest'
  BY DEF IInv, Rest, RequestScan
<1>5. CASE f' = [p EXCEPT !.phase = "error"]
  <2>1. Good(f', worker, config, account, slips')
    BY <1>5, ScanRefusedGood
  <2> QED
    BY <1>4, <2>1 DEF IInv, RequestScan
<1> SUFFICES ASSUME f' = [p EXCEPT !.phase = "scanning", !.waiting = Append(@, d)]
             PROVE  IInv'
  BY <1>3, <1>5
<1>6. f' = [h EXCEPT !.waiting = Append(@, d)]
  BY <1>2
<1> HIDE DEF p
<1>7. /\ h \in Session /\ h.phase = "scanning" /\ h.timer = p.timer /\ h.active = p.active
      /\ h.row = p.row /\ h.wanted = p.wanted /\ h.queue = p.queue /\ h.waiting = p.waiting
  BY <1>2 DEF Session, Phases, Running
<1> HIDE DEF h
<1>8. d \in Discovery /\ d.live /\ d.kind = "scan" /\ h.waiting \in Seq(Discovery)
  BY <1>7, SessionIs DEF Discovery
<1> HIDE DEF d
<1>9. Append(h.waiting, d) \in Seq(Discovery)
  BY <1>8, AppendIs
<1>10. /\ f' \in Session /\ f'.waiting = Append(h.waiting, d) /\ f'.queue = h.queue
       /\ f'.timer = h.timer /\ f'.phase = h.phase /\ f'.active = h.active
       /\ f'.row = h.row /\ f'.wanted = h.wanted
  BY <1>7, <1>9, <1>6 DEF Session
<1>11. Shaped(h) /\ Still(h) /\ Active(f') /\ ~f'.timer /\ f'.active = {}
  BY <1>1, <1>2, <1>7, <1>10 DEF Shaped, Still, Active, Running
<1>12. /\ Shaped(f') /\ Core(f', worker, config)
       /\ \E i \in DOMAIN f'.waiting : f'.waiting[i] = d
       /\ \A i \in DOMAIN f'.waiting :
             (\E j \in DOMAIN h.waiting : f'.waiting[i] = h.waiting[j]) \/ f'.waiting[i] = d
  <2>1. d.kind # "scan" => Follows(f', worker)
    BY <1>8
  <2>2. h \in Session
    BY <1>7
  <2>3. f' \in Session /\ f'.waiting = Append(h.waiting, d) /\ f'.queue = h.queue
    BY <1>10
  <2>4. d \in Discovery /\ d.live
    BY <1>8
  <2>5. d.kind = "scan" => f'.active = {}
    BY <1>11
  <2> QED
    <3>1. Shaped(f') /\ Core(f', worker, config)
      BY <1>11, <2>1, <2>2, <2>3, <2>4, <2>5, WaitGood
    <3>2. /\ Len(h.waiting) + 1 \in DOMAIN f'.waiting /\ f'.waiting[Len(h.waiting) + 1] = d
          /\ \A i \in DOMAIN f'.waiting :
                \/ i \in DOMAIN h.waiting /\ f'.waiting[i] = h.waiting[i]
                \/ i = Len(h.waiting) + 1 /\ f'.waiting[i] = d
      BY <1>8, <2>3, AppendIs
    <3> QED
      BY <3>1, <3>2
<1>13. Unwanted(f', worker, slips')
  <2> SUFFICES ASSUME ~f'.wanted, slips' = {}
               PROVE  ~f'.row /\ ~worker.held /\ OnlyScans(f')
    BY DEF Unwanted
  <2>1. DOMAIN f.queue = {} /\ DOMAIN f.waiting = {} /\ slips = {}
    BY ScanAlone
  <2>2. f.queue \in Seq(Entry) /\ f.waiting \in Seq(Discovery)
    BY <1>1, SessionIs
  <2>5. DOMAIN h.queue = {} /\ DOMAIN h.waiting = {}
    BY <1>2, <1>7, <2>1, <2>2, DeadIs
  <2>6. ~f.row /\ ~worker.held
    BY <1>1, <1>2, <1>7, <1>10, <2>1, Facts DEF Unwanted, EndIsDue
  <2>7. OnlyScans(f')
    BY <1>8, <1>10, <1>12, <2>5 DEF OnlyScans
  <2> QED
    BY <1>2, <1>7, <1>10, <2>6, <2>7
<1>14. ~Driven(f')
  BY <1>8, <1>10, <1>11, <1>12 DEF Driven, Still
<1>15. Good(f', worker, config, account, slips')
  BY <1>12, <1>13, <1>14 DEF Good, Connected
<1> QED
  BY <1>15, <1>4 DEF IInv, RequestScan

LEMMA ReconfigureInv ==
    ASSUME IInv, NEW c \in Configs, Reconfigure(c)
    PROVE  IInv'
<1> DEFINE applying == \E i \in DOMAIN f.queue : f.queue[i].op = "apply" /\ f.queue[i].live
           b == f.lag \/ applying
           s == [f EXCEPT !.lag = b]
<1>1. /\ f \in Session /\ Shaped(f) /\ Core(f, worker, config)
      /\ Connected(f, account) /\ Unwanted(f, worker, slips)
  BY Facts
<1>2. b \in BOOLEAN /\ (applying => b) /\ (f.lag => b)
  BY <1>1 DEF Session
<1>3. f' \in Reconfigured(s, c)
  BY DEF Reconfigure
<1> HIDE DEF b
<1>4. /\ s \in Session /\ s.phase = f.phase /\ s.timer = f.timer /\ s.applied = f.applied
      /\ s.active = f.active /\ s.warm = f.warm /\ s.lag = b /\ s.row = f.row
      /\ s.wanted = f.wanted /\ s.queue = f.queue /\ s.waiting = f.waiting
  BY <1>1, <1>2 DEF Session
<1> HIDE DEF s
<1>5. Active(s) <=> Active(f)
  BY <1>4 DEF Active
<1>6. Shaped(s)
  BY <1>1, <1>4, <1>5 DEF Shaped
<1>7. CASE Active(s) /\ s.timer
  <2> DEFINE r == [s EXCEPT !.timer = FALSE]
  <2>1. f' \in Selected(r, c, FALSE)
    BY <1>3, <1>7 DEF Reconfigured
  <2>2. /\ r \in Session /\ r.phase = s.phase /\ ~r.timer /\ r.applied = s.applied
        /\ r.active = s.active /\ r.wanted = s.wanted /\ r.queue = s.queue
        /\ r.waiting = s.waiting
    BY <1>4 DEF Session
  <2> HIDE DEF r
  <2>3. Still(f) /\ Follows(f, worker)
    BY <1>1, <1>4, <1>7 DEF Core, OneDrives, TimerDrives
  <2>4. Still(r) /\ Follows(r, worker)
    BY <1>4, <2>2, <2>3 DEF Still, Follows, Clear
  <2>5. Active(r) /\ Shaped(r) /\ account = "connected"
    BY <1>1, <1>4, <1>5, <1>6, <1>7, <2>2 DEF Active, Shaped, Connected, Driven
  <2>6. f.wanted \/ slips # {}
    BY <1>4, <1>7, WantedIfDriven DEF IInv
  <2>7. r.wanted \/ slips # {}
    BY <1>4, <2>2, <2>6
  <2> QED
    <3>1. Good(f', worker, c, account, slips)
      BY <2>1, <2>2, <2>4, <2>5, <2>7, SelectedGood
    <3>2. Rest'
      BY DEF IInv, Rest, Reconfigure
    <3> QED
      BY <3>1, <3>2 DEF IInv, Reconfigure
<1>8. CASE ~(Active(s) /\ s.timer)
  <2>1. f' = s
    BY <1>3, <1>8 DEF Reconfigured
  <2>2. \A n : Clear(s, n) <=> Clear(f, n)
    BY <1>4 DEF Clear
  <2>3. Follows(s, worker) <=> Follows(f, worker)
    BY <1>4, <2>2 DEF Follows
  <2>4. ~s.timer
    BY <1>1, <1>4, <1>5, <1>8 DEF Core, TimerDrives
  <2>5. OneDrives(s)
    BY <1>1, <1>4 DEF Core, OneDrives, Still
  <2>6. QueueDrives(s, c)
    BY <1>1, <1>2, <1>4, <1>5, <2>2 DEF Core, QueueDrives, Proper
  <2>7. WaitingDrives(s, worker)
    BY <1>1, <1>4, <1>5, <2>3 DEF Core, WaitingDrives
  <2>8. Core(s, worker, c)
    BY <2>4, <2>5, <2>6, <2>7 DEF Core, TimerDrives
  <2>9. Connected(s, account) /\ Unwanted(s, worker, slips)
    BY <1>1, <1>4, <1>5 DEF Connected, Driven, Unwanted, EndIsDue, OnlyScans
  <2>10. Good(f', worker, c, account, slips)
    BY <1>6, <2>1, <2>8, <2>9 DEF Good
  <2>11. Rest'
    BY DEF IInv, Rest, Reconfigure
  <2> QED
    BY <2>10, <2>11 DEF IInv, Reconfigure
<1> QED
  BY <1>7, <1>8

LEMMA CommandInv ==
    ASSUME IInv, NEW op \in {"pause", "resume"}, Command(op)
    PROVE  IInv'
<1> DEFINE h == Halt(f, "ended")
           e == Order(op)
<1>1. /\ h \in Session /\ Shaped(h) /\ Still(h) /\ ~h.timer /\ ~Active(h) /\ ~h.row
      /\ h.active = {}
  BY Facts, HaltIs
<1>2. f' = [h EXCEPT !.queue = Append(@, e)]
  BY DEF Command
<1>3. e \in Entry /\ ~e.live /\ e.op # "begin" /\ h.queue \in Seq(Entry)
  <2>1. op \in Orders
    BY DEF Orders
  <2>2. e \in Entry /\ ~e.live /\ e.op = op
    BY <2>1, EntryIs
  <2> QED
    BY <1>1, <2>2, SessionIs
<1> HIDE DEF h, e
<1>4. Append(h.queue, e) \in Seq(Entry)
      /\ \A i \in DOMAIN Append(h.queue, e) :
            \/ i \in DOMAIN h.queue /\ Append(h.queue, e)[i] = h.queue[i]
            \/ Append(h.queue, e)[i] = e
  BY <1>3, AppendIs
<1>5. /\ f' \in Session /\ f'.phase = h.phase /\ f'.timer = h.timer /\ f'.active = h.active
      /\ f'.row = h.row /\ f'.queue = Append(h.queue, e) /\ f'.waiting = h.waiting
  BY <1>1, <1>2, <1>4 DEF Session, Entry
<1>6. Still(f')
  BY <1>1, <1>3, <1>4, <1>5 DEF Still
<1>7. Shaped(f') /\ ~Active(f')
  BY <1>1, <1>3, <1>4, <1>5 DEF Shaped, Active
<1>8. worker'.held = FALSE /\ worker' \in [held : BOOLEAN, playing : SUBSET Games]
  BY DEF Command, IInv, Rest
<1>9. Core(f', worker', config)
  BY <1>1, <1>5, <1>6, StillGood
<1>10. Good(f', worker', config, account, slips')
  BY <1>1, <1>5, <1>7, <1>8, <1>9 DEF Good, Connected, Unwanted
<1>11. Rest'
  BY <1>8 DEF IInv, Rest, Command, Overtaken
<1> QED
  BY <1>10, <1>11 DEF IInv, Command

(***************************************************************************)
(* The account's operation queue                                           *)
(***************************************************************************)

LEMMA RunsIs ==
    ASSUME IInv, NEW op, Runs(op)
    PROVE  /\ f.queue # <<>> /\ Caller = f.queue[1] /\ f.queue[1].op = op
           /\ 1 \in DOMAIN f.queue /\ f.queue[1] \in Entry
           /\ Popped \in Session /\ Shaped(Popped) /\ Alike(f, Popped)
           /\ Active(Popped) <=> Active(f)
           /\ Popped.queue = Tail(f.queue) /\ Popped.waiting = f.waiting
           /\ Popped.seen = f.seen /\ Popped.row = f.row /\ Popped.wanted = f.wanted
<1>1. f \in Session /\ Shaped(f) /\ f.queue # <<>> /\ Head(f.queue).op = op
  BY Facts DEF Runs
<1>2. f.queue \in Seq(Entry)
  BY <1>1, SessionIs
<1>3. Head(f.queue) = f.queue[1] /\ 1 \in DOMAIN f.queue /\ Head(f.queue) \in Entry
  BY <1>1, <1>2, TailIs
<1>4. /\ Popped \in Session /\ Shaped(Popped) /\ Alike(f, Popped)
      /\ Popped.queue = Tail(f.queue) /\ Popped.waiting = f.waiting
      /\ Popped.seen = f.seen /\ Popped.row = f.row /\ Popped.wanted = f.wanted
  BY <1>1, PopIs DEF Popped
<1>5. Active(Popped) <=> Active(f)
  BY <1>4 DEF Active, Alike
<1> QED
  BY <1>1, <1>3, <1>4, <1>5 DEF Caller

\* An operation that no current invocation asked for changes nothing.
LEMMA PassedGood ==
    ASSUME IInv, NEW op, Runs(op), ~f.queue[1].live
    PROVE  /\ Good(Popped, worker, config, account, slips)
           /\ Good(Returned(Popped, f.queue[1].start), worker, config, account, slips)
<1>1. /\ f \in Session /\ Core(f, worker, config)
      /\ Connected(f, account) /\ Unwanted(f, worker, slips)
  BY Facts
<1>2. /\ f.queue # <<>> /\ f.queue[1] \in Entry /\ Popped \in Session /\ Shaped(Popped)
      /\ Alike(f, Popped) /\ (Active(Popped) <=> Active(f))
      /\ Popped.queue = Tail(f.queue) /\ Popped.waiting = f.waiting
      /\ Popped.row = f.row /\ Popped.wanted = f.wanted
  BY RunsIs
<1>3. Core(Popped, worker, config)
  BY <1>1, <1>2, PoppedGood
<1>4. Unwanted(Popped, worker, slips)
  BY <1>1, <1>2, UnwantedPopped
<1> DEFINE t == Returned(Popped, f.queue[1].start)
<1>5. f.queue[1].start \in BOOLEAN
  BY <1>2, EntryIs
<1>6. /\ t \in Session /\ Shaped(t) /\ Alike(Popped, t)
      /\ (Active(t) <=> Active(Popped)) /\ t.queue = Popped.queue
      /\ t.waiting = Popped.waiting /\ t.wanted = Popped.wanted
      /\ t.row = (Popped.row \/ (f.queue[1].start /\ Active(Popped)))
  BY <1>2, <1>5, ReturnedIs
<1> HIDE DEF t
<1>7. Core(t, worker, config)
  BY <1>3, <1>6, AlikeGood
<1>8. Unwanted(t, worker, slips)
  BY <1>1, <1>2, <1>6, UnwantedPopped
<1>9. (Driven(t) => Driven(Popped)) /\ (Driven(Popped) => Driven(f))
  BY <1>1, <1>2, <1>6, DrivenPopped DEF Driven, Alike
<1>10. Connected(t, account) /\ Connected(Popped, account)
  BY <1>1, <1>2, <1>6, <1>9 DEF Connected
<1> QED
  BY <1>2, <1>3, <1>4, <1>6, <1>7, <1>8, <1>10 DEF Good, t

LEMMA RunPauseInv ==
    ASSUME IInv, RunPause
    PROVE  IInv'
<1>1. Popped \in Session /\ Shaped(Popped)
  BY RunsIs DEF RunPause
<1> DEFINE h == Halt(Popped, "ended")
<1>2. /\ h \in Session /\ Shaped(h) /\ Still(h) /\ ~h.timer /\ ~Active(h) /\ ~h.row
  BY <1>1, HaltIs
<1>3. f' = [h EXCEPT !.wanted = f.wanted] /\ f.wanted \in BOOLEAN
  BY Facts, SessionIs DEF RunPause
<1> HIDE DEF h
<1>4. /\ f' \in Session /\ f'.phase = h.phase /\ f'.timer = h.timer /\ f'.active = h.active
      /\ f'.row = h.row /\ f'.queue = h.queue /\ f'.waiting = h.waiting
  BY <1>2, <1>3 DEF Session
<1>5. Still(f') /\ Shaped(f') /\ ~Active(f')
  BY <1>2, <1>4 DEF Still, Shaped, Active
<1>6. worker'.held = FALSE /\ worker' \in [held : BOOLEAN, playing : SUBSET Games]
  BY DEF RunPause
<1>7. Core(f', worker', config)
  BY <1>2, <1>4, <1>5, StillGood
<1>8. Good(f', worker', config, account', slips)
  BY <1>2, <1>4, <1>5, <1>6, <1>7 DEF Good, Connected, Unwanted
<1>9. Rest'
  BY <1>6 DEF IInv, Rest, RunPause
<1> QED
  BY <1>8, <1>9 DEF IInv, RunPause

LEMMA RunResumeInv ==
    ASSUME IInv, RunResume
    PROVE  IInv'
<1>1. /\ f \in Session /\ Core(f, worker, config)
      /\ Unwanted(f, worker, slips) /\ (Driven(f) => account = "connected")
  BY Facts
<1>2. /\ f.queue # <<>> /\ f.queue[1] \in Entry /\ f.queue[1].op = "resume"
      /\ Popped \in Session /\ Shaped(Popped)
      /\ Alike(f, Popped) /\ (Active(Popped) <=> Active(f))
      /\ Popped.queue = Tail(f.queue) /\ Popped.waiting = f.waiting
      /\ Popped.row = f.row /\ Popped.wanted = f.wanted
  BY RunsIs DEF RunResume
<1>3. ~f.queue[1].live
  BY <1>2, EntryIs DEF Waits
<1>4. f' = Popped /\ worker' = [worker EXCEPT !.playing = {}]
  BY DEF RunResume
<1>5. worker'.held = worker.held /\ worker' \in [held : BOOLEAN, playing : SUBSET Games]
  BY <1>4 DEF IInv, Rest
<1>6. Core(f', worker', config)
  BY <1>1, <1>2, <1>3, <1>4, PoppedGood
<1>7. Unwanted(f', worker', slips)
  BY <1>1, <1>2, <1>3, <1>4, <1>5, UnwantedPopped
<1>8. Connected(f', account')
  <2>1. Driven(Popped) => Driven(f)
    BY <1>1, <1>2, DrivenPopped
  <2>2. account = "connected" => account' = "connected"
    BY DEF RunResume
  <2> QED
    BY <1>1, <1>4, <2>1, <2>2 DEF Connected
<1>9. Rest'
  BY <1>5 DEF IInv, Rest, RunResume
<1> QED
  BY <1>2, <1>4, <1>6, <1>7, <1>8, <1>9 DEF IInv, Good, RunResume

LEMMA RunFarmResumeInv ==
    ASSUME IInv, RunFarmResume
    PROVE  IInv'
<1>1. /\ f \in Session /\ Core(f, worker, config) /\ Unwanted(f, worker, slips)
      /\ ~Active(f) => ~f.timer
      /\ Driven(f) => account = "connected"
  BY Facts
<1>2. Runs("farm_resume")
  BY DEF RunFarmResume
<1>3. /\ f.queue # <<>> /\ 1 \in DOMAIN f.queue
      /\ f.queue[1] \in Entry /\ f.queue[1].op = "farm_resume"
      /\ Popped \in Session /\ Shaped(Popped)
      /\ Alike(f, Popped) /\ (Active(Popped) <=> Active(f))
      /\ Popped.queue = Tail(f.queue) /\ Popped.waiting = f.waiting
      /\ Popped.row = f.row /\ Popped.wanted = f.wanted
  BY <1>2, RunsIs
<1>4. ~f.queue[1].live
  BY <1>3, EntryIs DEF Waits
<1>5. ASSUME NEW w, NEW a, a = "connected", ~Active(f)
      PROVE  Good(Begun(Popped), w, config, a, slips)
  <2>1. ~Active(Popped) /\ ~Popped.timer
    BY <1>1, <1>3, <1>5 DEF Alike
  <2>2. Started(Popped) \in Session
    BY <1>3, <2>1, StartedGood
  <2>3. Begun(Popped) = [Started(Popped) EXCEPT !.wanted = @ \/ "poll" \notin slips]
    BY <2>1 DEF Begun
  <2> DEFINE b == Started(Popped).wanted \/ "poll" \notin slips
             u == Begun(Popped)
  <2>4. b \in BOOLEAN /\ u = [Started(Popped) EXCEPT !.wanted = b]
    BY <2>2, <2>3 DEF Session
  <2>5. u.wanted = b
    BY <2>2, <2>4 DEF Session
  <2>6. u.wanted \/ slips # {}
    BY <2>5
  <2> HIDE DEF b, u
  <2>7. Good(u, w, config, a, slips)
    BY <1>3, <1>5, <2>1, <2>4, <2>6, BegunGood
  <2> QED
    BY <2>7 DEF u
<1>6. ASSUME account = "paused", account' = "connected",
             worker' = [held |-> TRUE, playing |-> {}],
             f' = Begun(Popped), UNCHANGED polling
      PROVE  IInv'
  <2>1. Good(f', worker', config, account', slips)
    <3>1. CASE ~Active(f)
      BY <1>5, <1>6, <3>1
    <3>2. CASE Active(f)
      <4>1. f' = Popped /\ ~Driven(f)
        BY <1>1, <1>3, <1>6, <3>2 DEF Begun
      <4>2. Core(f, worker', config)
        BY <1>1, <4>1, UndrivenGood
      <4>3. Core(Popped, worker', config)
        BY <1>1, <1>3, <1>4, <4>2, PoppedGood
      <4>4. f.wanted \/ slips # {}
        BY <1>1, <1>3, <3>2 DEF Unwanted, OnlyScans
      <4> QED
        BY <1>3, <1>6, <4>1, <4>3, <4>4 DEF Good, Connected, Unwanted
    <3> QED
      BY <3>1, <3>2
  <2>2. Rest'
    BY <1>6 DEF IInv, Rest, RunFarmResume
  <2> QED
    BY <2>1, <2>2 DEF IInv, RunFarmResume
<1>7. ASSUME account = "paused", account' = "away",
             worker' = [held |-> FALSE, playing |-> {}],
             f' = Halt(Popped, "interrupted"), polling' = TRUE
      PROVE  IInv'
  <2>1. /\ f' \in Session /\ Shaped(f') /\ Still(f') /\ ~f'.timer /\ ~Active(f')
        /\ f'.row = Popped.row /\ f'.wanted = Popped.wanted
    <3>1. Popped.row \in BOOLEAN /\ Popped.wanted \in BOOLEAN
      BY <1>3, SessionIs
    <3> QED
      BY <1>3, <1>7, <3>1, HaltIs
  <2>2. Core(f', worker', config)
    BY <2>1, StillGood
  <2>3. Good(f', worker', config, account', slips)
    BY <1>1, <1>3, <1>7, <2>1, <2>2 DEF Good, Connected, Unwanted
  <2>4. Rest'
    BY <1>7 DEF IInv, Rest, RunFarmResume
  <2> QED
    BY <2>3, <2>4 DEF IInv, RunFarmResume
<1>8. ASSUME account # "paused",
             f' = IF account = "connected" THEN Begun(Popped) ELSE Popped,
             UNCHANGED <<account, worker, polling>>
      PROVE  IInv'
  <2>1. Good(Popped, worker, config, account, slips)
    BY <1>2, <1>4, PassedGood
  <2>2. Good(f', worker, config, account, slips)
    <3>1. CASE account = "connected" /\ ~Active(f)
      BY <1>5, <1>8, <3>1
    <3>2. CASE ~(account = "connected" /\ ~Active(f))
      BY <1>3, <1>8, <2>1, <3>2 DEF Begun
    <3> QED
      BY <3>1, <3>2
  <2>3. Rest'
    BY <1>8 DEF IInv, Rest, RunFarmResume
  <2> QED
    BY <1>8, <2>2, <2>3 DEF IInv, RunFarmResume
<1> QED
  BY <1>6, <1>7, <1>8 DEF RunFarmResume

\* The invocation at the head of the queue, when it is current.
LEMMA CallerIs ==
    ASSUME IInv, NEW op, Runs(op), f.queue[1].live
    PROVE  /\ Still(Popped) /\ ~Popped.timer
           /\ op # "end" => /\ Active(f) /\ Popped.applied /\ Clear(Popped, 0)
                            /\ account = "connected"
                            /\ f.wanted \/ slips # {}
           /\ op = "begin" => Popped.active = {} /\ f.queue[1].start
           /\ op = "apply" => Proper(f.queue[1].games, Popped, config)
           /\ op = "end" => ~Active(f)
<1>1. /\ f \in Session /\ Shaped(f) /\ Core(f, worker, config) /\ Connected(f, account)
  BY Facts
<1>2. /\ f.queue # <<>> /\ 1 \in DOMAIN f.queue /\ f.queue[1].op = op
      /\ Popped \in Session /\ Alike(f, Popped)
      /\ Popped.queue = Tail(f.queue) /\ Popped.waiting = f.waiting
  BY RunsIs
<1>3. Still(Popped) /\ ~Popped.timer
  BY <1>1, <1>2, PoppedStill DEF Alike
<1>4. /\ op # "end" => Active(f) /\ f.applied /\ Clear(f, 1)
      /\ op = "begin" => f.active = {}
      /\ op = "apply" => Proper(f.queue[1].games, f, config)
      /\ op = "end" => ~Active(f)
  BY <1>1, <1>2 DEF Core, QueueDrives
<1>5. Clear(f, 1) => Clear(Popped, 0)
  <2>1. f.queue \in Seq(Entry)
    BY <1>1, SessionIs
  <2>2. \A i \in DOMAIN Popped.queue :
           i \in Nat /\ 1 <= i /\ i + 1 \in DOMAIN f.queue /\ Popped.queue[i] = f.queue[i + 1]
    BY <1>2, <2>1, TailIs
  <2> QED
    BY <2>2 DEF Clear
<1>6. op # "end" => f.wanted \/ slips # {}
  BY <1>2, WantedIfDriven DEF IInv
<1>7. op = "apply" => Proper(f.queue[1].games, Popped, config)
  BY <1>2, <1>4 DEF Proper, Skipped, Alike
<1>8. op = "begin" => f.queue[1].start
  BY <1>1, <1>2 DEF Shaped
<1> QED
  BY <1>1, <1>2, <1>3, <1>4, <1>5, <1>6, <1>7, <1>8 DEF Alike, Connected, Driven

\* An invocation that fails leaves its end in the queue.
LEMMA FailedGood ==
    ASSUME IInv, NEW op, op # "end", Runs(op), f.queue[1].live, NEW w
    PROVE  Good(Fail(Popped, f.queue[1].start), w, config, account, slips)
<1> DEFINE t == Fail(Popped, f.queue[1].start)
<1>1. Popped \in Session /\ Shaped(Popped) /\ f.queue[1] \in Entry
  BY RunsIs
<1>2. f.queue[1].start \in BOOLEAN
  BY <1>1, EntryIs
<1>3. Popped.applied
  BY CallerIs
<1>4. Shaped(t) /\ Core(t, w, config) /\ EndIsDue(t) /\ ~Active(t) /\ ~t.row
  BY <1>1, <1>2, <1>3, FailGood
<1> HIDE DEF t
<1>5. Good(t, w, config, account, slips)
  BY <1>4 DEF Good, Connected, Unwanted
<1> QED
  BY <1>5 DEF t

LEMMA RunBeginInv ==
    ASSUME IInv, RunBegin
    PROVE  IInv'
<1>1. Runs("begin")
  BY DEF RunBegin
<1>2. /\ Caller = f.queue[1] /\ f.queue[1] \in Entry /\ Popped \in Session /\ Shaped(Popped)
      /\ (Active(Popped) <=> Active(f)) /\ Popped.wanted = f.wanted
  BY <1>1, RunsIs
<1>3. ASSUME Allowed, worker' = Applied({}),
             f' = [Popped EXCEPT
                     !.waiting = Append(@, [kind |-> IF Caller.start THEN "start"
                                                     ELSE "tick", live |-> TRUE])]
      PROVE  IInv'
  <2> DEFINE d == [kind |-> "start", live |-> TRUE]
  <2>1. f.queue[1].live
    BY <1>2, <1>3 DEF Allowed
  <2>2. /\ Still(Popped) /\ ~Popped.timer /\ Active(f) /\ Popped.applied
        /\ Clear(Popped, 0) /\ account = "connected" /\ (f.wanted \/ slips # {})
        /\ Popped.active = {} /\ f.queue[1].start
    BY <1>1, <2>1, CallerIs
  <2>3. f' = [Popped EXCEPT !.waiting = Append(@, d)]
    BY <1>2, <1>3, <2>2
  <2>4. d \in Discovery /\ d.live /\ d.kind = "start"
    BY DEF Discovery
  <2>5. worker'.held /\ worker'.playing = {}
        /\ worker' \in [held : BOOLEAN, playing : SUBSET Games]
    BY <1>3 DEF Applied
  <2> HIDE DEF d
  <2>6. Append(Popped.waiting, d) \in Seq(Discovery)
    BY <1>2, <2>4, SessionIs, AppendIs
  <2>7. /\ f' \in Session /\ f'.waiting = Append(Popped.waiting, d)
        /\ f'.queue = Popped.queue /\ f'.timer = Popped.timer /\ f'.phase = Popped.phase
        /\ f'.active = Popped.active /\ f'.applied = Popped.applied
        /\ f'.wanted = Popped.wanted
    BY <1>2, <2>3, <2>6 DEF Session
  <2>8. Active(f')
    BY <1>2, <2>2, <2>7 DEF Active
  <2>9. Follows(f', worker')
    BY <2>2, <2>5, <2>7 DEF Follows, Clear
  <2>10. Shaped(f') /\ Core(f', worker', config)
    BY <1>2, <2>2, <2>4, <2>7, <2>8, <2>9, WaitGood
  <2>11. Good(f', worker', config, account, slips)
    BY <1>2, <2>2, <2>7, <2>10 DEF Good, Connected, Unwanted
  <2>12. Rest'
    BY <2>5 DEF IInv, Rest, RunBegin
  <2> QED
    BY <2>11, <2>12 DEF IInv, RunBegin
<1>4. ASSUME Caller.live,
             worker' \in {worker} \cup (IF Allowed THEN {Applied({})} ELSE {}),
             f' = Fail(Popped, Caller.start)
      PROVE  IInv'
  <2>1. Good(f', worker', config, account, slips)
    BY <1>1, <1>2, <1>4, FailedGood
  <2>2. worker' \in [held : BOOLEAN, playing : SUBSET Games]
    <3>1. worker \in [held : BOOLEAN, playing : SUBSET Games]
      BY DEF IInv, Rest
    <3>2. Applied({}) \in [held : BOOLEAN, playing : SUBSET Games]
      BY DEF Applied
    <3> QED
      BY <1>4, <3>1, <3>2
  <2>3. Rest'
    BY <2>2 DEF IInv, Rest, RunBegin
  <2> QED
    BY <2>1, <2>3 DEF IInv, RunBegin
<1>5. ASSUME ~Caller.live, f' = Returned(Popped, Caller.start), UNCHANGED worker
      PROVE  IInv'
  <2>1. Good(f', worker, config, account, slips)
    BY <1>1, <1>2, <1>5, PassedGood
  <2>2. Rest'
    BY <1>5 DEF IInv, Rest, RunBegin
  <2> QED
    BY <1>5, <2>1, <2>2 DEF IInv, RunBegin
<1> QED
  BY <1>3, <1>4, <1>5 DEF RunBegin

LEMMA RunApplyInv ==
    ASSUME IInv, RunApply
    PROVE  IInv'
<1>1. Runs("apply")
  BY DEF RunApply
<1>2. /\ Caller = f.queue[1] /\ f.queue[1] \in Entry /\ Popped \in Session /\ Shaped(Popped)
      /\ (Active(Popped) <=> Active(f)) /\ Popped.wanted = f.wanted
  BY <1>1, RunsIs
<1>3. /\ Caller.games \in SUBSET Games /\ Caller.phase \in {"warming", "farming"}
      /\ Caller.start \in BOOLEAN
  BY <1>2, EntryIs
<1>4. \A games \in SUBSET Games : Applied(games) \in [held : BOOLEAN, playing : SUBSET Games]
  BY DEF Applied
<1>5. ASSUME Allowed, worker' = Applied(Caller.games),
             f' = Returned(Settle(Popped, Caller.games, Caller.phase), Caller.start)
      PROVE  IInv'
  <2> DEFINE t == Settle(Popped, Caller.games, Caller.phase)
  <2>1. f.queue[1].live
    BY <1>2, <1>5 DEF Allowed
  <2>2. /\ Still(Popped) /\ Clear(Popped, 0) /\ account = "connected"
        /\ (f.wanted \/ slips # {}) /\ Proper(Caller.games, Popped, config)
    BY <1>1, <1>2, <2>1, CallerIs
  <2>3. /\ t \in Session /\ t.applied /\ t.active = Caller.games /\ t.phase = Caller.phase
        /\ t.timer /\ t.queue = Popped.queue /\ t.waiting = Popped.waiting
        /\ t.warm = Popped.warm /\ t.lag = Popped.lag /\ t.wanted = Popped.wanted
    BY <1>2, <1>3 DEF Settle, Session, Phases, Running
  <2> HIDE DEF t
  <2>4. Active(t) /\ Still(t)
    BY <1>3, <2>2, <2>3 DEF Active, Running, Still
  <2>5. worker'.held /\ worker'.playing = Caller.games
    BY <1>5 DEF Applied
  <2>6. Follows(t, worker') /\ Proper(t.active, t, config)
    BY <2>2, <2>3, <2>5 DEF Follows, Clear, Proper, Skipped
  <2>7. Core(t, worker', config)
    BY <2>4, <2>6, TimerGood DEF TimerDrives
  <2>8. Shaped(t)
    BY <1>2, <2>3, <2>4 DEF Shaped
  <2>9. /\ f' \in Session /\ Shaped(f') /\ Alike(t, f') /\ (Active(f') <=> Active(t))
        /\ f'.queue = t.queue /\ f'.waiting = t.waiting /\ f'.wanted = t.wanted
    BY <1>3, <1>5, <2>3, <2>8, ReturnedIs DEF t
  <2>10. Core(f', worker', config)
    BY <2>7, <2>9, AlikeGood
  <2>11. Good(f', worker', config, account, slips)
    BY <1>2, <2>2, <2>3, <2>9, <2>10 DEF Good, Connected, Unwanted
  <2>12. Rest'
    BY <1>3, <1>4, <1>5 DEF IInv, Rest, RunApply
  <2> QED
    BY <2>11, <2>12 DEF IInv, RunApply
<1>6. ASSUME Caller.live,
             worker' \in {worker} \cup (IF Allowed THEN {Applied(Caller.games)} ELSE {}),
             f' = Fail(Popped, Caller.start)
      PROVE  IInv'
  <2>1. Good(f', worker', config, account, slips)
    BY <1>1, <1>2, <1>6, FailedGood
  <2>2. worker' \in [held : BOOLEAN, playing : SUBSET Games]
    BY <1>3, <1>4, <1>6 DEF IInv, Rest
  <2>3. Rest'
    BY <2>2 DEF IInv, Rest, RunApply
  <2> QED
    BY <2>1, <2>3 DEF IInv, RunApply
<1>7. ASSUME ~Caller.live, f' = Returned(Popped, Caller.start), UNCHANGED worker
      PROVE  IInv'
  <2>1. Good(f', worker, config, account, slips)
    BY <1>1, <1>2, <1>7, PassedGood
  <2>2. Rest'
    BY <1>7 DEF IInv, Rest, RunApply
  <2> QED
    BY <1>7, <2>1, <2>2 DEF IInv, RunApply
<1> QED
  BY <1>5, <1>6, <1>7 DEF RunApply

LEMMA RunEndInv ==
    ASSUME IInv, RunEnd
    PROVE  IInv'
<1>1. Runs("end") /\ f' = Returned(Popped, Caller.start)
  BY DEF RunEnd
<1>2. /\ f \in Session /\ Caller = f.queue[1] /\ f.queue[1] \in Entry
      /\ Popped \in Session /\ Shaped(Popped)
      /\ (Active(Popped) <=> Active(f)) /\ Popped.wanted = f.wanted /\ Popped.row = f.row
      /\ Connected(f, account) /\ Unwanted(f, worker, slips)
  BY <1>1, RunsIs, Facts
<1>3. CASE f.queue[1].live
  <2>1. Still(Popped) /\ ~Popped.timer /\ ~Active(f)
    BY <1>1, <1>3, CallerIs
  <2>2. f.queue[1].start \in BOOLEAN
    BY <1>2, EntryIs
  <2>3. /\ f' \in Session /\ Shaped(f') /\ Alike(Popped, f')
        /\ (Active(f') <=> Active(Popped))
        /\ f'.queue = Popped.queue /\ f'.waiting = Popped.waiting
        /\ f'.wanted = Popped.wanted
        /\ f'.row = (Popped.row \/ (f.queue[1].start /\ Active(Popped)))
    BY <1>1, <1>2, <2>2, ReturnedIs
  <2>4. Core(f', worker', config)
    BY <2>1, <2>3, StillGood DEF Still, Alike
  <2>5. worker'.held = FALSE /\ worker' \in [held : BOOLEAN, playing : SUBSET Games]
    <3>1. worker \in [held : BOOLEAN, playing : SUBSET Games]
      BY DEF IInv, Rest
    <3>2. CASE worker.held
      <4>1. Ends
        BY <1>2, <1>3, <3>2 DEF Ends
      <4>2. worker' = [held |-> FALSE, playing |-> {}]
        BY <4>1 DEF RunEnd
      <4> QED
        BY <4>2
    <3>3. CASE ~worker.held
      BY <3>1, <3>3 DEF RunEnd, Ends
    <3> QED
      BY <3>2, <3>3
  <2>6. f'.row = f.row
    BY <1>2, <2>1, <2>3, SessionIs
  <2>7. Good(f', worker', config, account', slips)
    BY <1>2, <2>1, <2>3, <2>4, <2>5, <2>6 DEF Good, Connected, Unwanted
  <2>8. Rest'
    BY <2>5 DEF IInv, Rest, RunEnd
  <2> QED
    BY <2>7, <2>8 DEF IInv, RunEnd
<1>4. CASE ~f.queue[1].live
  <2>1. UNCHANGED <<account, worker>>
    BY <1>2, <1>4 DEF RunEnd, Ends
  <2>2. Good(f', worker, config, account, slips)
    BY <1>1, <1>2, <1>4, PassedGood
  <2>3. Rest'
    BY <2>1 DEF IInv, Rest, RunEnd
  <2> QED
    BY <2>1, <2>2, <2>3 DEF IInv, RunEnd
<1> QED
  BY <1>3, <1>4

(***************************************************************************)
(* Badge scans, ticks and the account's session                            *)
(***************************************************************************)

\* A scan whose invocation is no longer current is over.
LEMMA CancelledGood ==
    ASSUME IInv, NEW i \in DOMAIN f.waiting, ~f.waiting[i].live
    PROVE  Good(Returned([f EXCEPT !.waiting = RemoveAt(@, i)], f.waiting[i].kind = "start"),
                worker, config, account, slips)
<1> DEFINE s == [f EXCEPT !.waiting = RemoveAt(@, i)]
           b == f.waiting[i].kind = "start"
           t == Returned(s, b)
<1>1. /\ f \in Session /\ Shaped(f) /\ Core(f, worker, config)
      /\ Connected(f, account) /\ Unwanted(f, worker, slips)
  BY Facts
<1>2. /\ s \in Session /\ Shaped(s) /\ Alike(f, s) /\ (Active(s) <=> Active(f))
      /\ s.queue = f.queue /\ s.waiting = RemoveAt(f.waiting, i)
      /\ s.row = f.row /\ s.wanted = f.wanted
  BY <1>1, RemoveIs
<1> HIDE DEF s
<1>3. b \in BOOLEAN /\ (b => f.waiting[i].kind = "start")
  OBVIOUS
<1> HIDE DEF b
<1>4. /\ t \in Session /\ Shaped(t) /\ Alike(s, t) /\ (Active(t) <=> Active(s))
      /\ t.queue = s.queue /\ t.waiting = s.waiting /\ t.wanted = s.wanted
      /\ t.row = (s.row \/ (b /\ Active(s)))
  BY <1>2, <1>3, ReturnedIs
<1> HIDE DEF t
<1>5. Core(s, worker, config)
  BY <1>1, <1>2, RemovedGood
<1>6. Core(t, worker, config)
  BY <1>4, <1>5, AlikeGood
<1>7. Unwanted(t, worker, slips)
  BY <1>1, <1>2, <1>3, <1>4, UnwantedRemoved
<1>8. (Driven(t) => Driven(s)) /\ (Driven(s) => Driven(f))
  BY <1>1, <1>2, <1>4, DrivenRemoved DEF Driven, Alike
<1>9. Good(t, worker, config, account, slips)
  BY <1>1, <1>2, <1>4, <1>6, <1>7, <1>8 DEF Good, Connected
<1> QED
  BY <1>9 DEF t, s, b

\* The invocation whose scan is over, when it is current.
LEMMA ScannerIs ==
    ASSUME IInv, NEW i \in DOMAIN f.waiting, f.waiting[i].live
    PROVE  LET s == [f EXCEPT !.waiting = RemoveAt(@, i)] IN
           /\ s \in Session /\ Shaped(s) /\ Still(s) /\ ~s.timer /\ Active(s)
           /\ s.row = f.row /\ s.wanted = f.wanted /\ s.queue = f.queue
           /\ f.waiting[i].kind # "scan" =>
                 /\ Follows(s, worker) /\ (s.wanted \/ slips # {})
                 /\ account = "connected"
           /\ f.waiting[i].kind = "scan" =>
                 s.active = {} /\ (~s.wanted /\ slips = {} => ~s.row /\ ~worker.held)
<1> DEFINE s == [f EXCEPT !.waiting = RemoveAt(@, i)]
<1>1. f \in Session /\ Shaped(f) /\ Core(f, worker, config) /\ Connected(f, account)
  BY Facts
<1>2. /\ s \in Session /\ Shaped(s) /\ Alike(f, s) /\ (Active(s) <=> Active(f))
      /\ s.queue = f.queue /\ s.waiting = RemoveAt(f.waiting, i)
      /\ s.row = f.row /\ s.wanted = f.wanted
  BY <1>1, RemoveIs
<1> HIDE DEF s
<1>3. Still(s) /\ ~s.timer
  BY <1>1, <1>2, RemovedStill DEF Alike
<1>4. Active(f) /\ (f.waiting[i].kind # "scan" => Follows(f, worker))
  BY <1>1 DEF Core, WaitingDrives
<1>5. Follows(f, worker) => Follows(s, worker)
  BY <1>2 DEF Follows, Clear, Alike
<1>6. f.waiting[i].kind # "scan" => f.wanted \/ slips # {}
  BY WantedIfDriven DEF IInv
<1>7. f.waiting[i].kind = "scan" => s.active = {}
  BY <1>1, <1>2 DEF Core, WaitingDrives, Alike
<1>8. ~f.wanted /\ slips = {} => ~f.row /\ ~worker.held
  BY <1>1, Facts DEF Core, OneDrives, Unwanted, EndIsDue
<1> QED
  BY <1>1, <1>2, <1>3, <1>4, <1>5, <1>6, <1>7, <1>8 DEF Connected, Driven, s

LEMMA ScanReturnsInv ==
    ASSUME IInv, NEW i \in DOMAIN f.waiting, ScanReturns(i)
    PROVE  IInv'
<1> DEFINE s == [f EXCEPT !.waiting = RemoveAt(@, i)]
           r == [s EXCEPT !.seen = left]
<1>1. Good(f', worker, config, account, slips)
  <2>1. CASE ~f.waiting[i].live
    <3>1. f' = Returned(s, f.waiting[i].kind = "start")
      BY <2>1 DEF ScanReturns, Current
    <3> QED
      BY <2>1, <3>1, CancelledGood
  <2>2. CASE f.waiting[i].live
    <3>1. /\ s \in Session /\ Shaped(s) /\ Still(s) /\ ~s.timer /\ Active(s)
          /\ s.row = f.row /\ s.wanted = f.wanted /\ s.queue = f.queue
          /\ f.waiting[i].kind # "scan" =>
                /\ Follows(s, worker) /\ (s.wanted \/ slips # {})
                /\ account = "connected"
          /\ f.waiting[i].kind = "scan" =>
                s.active = {} /\ (~s.wanted /\ slips = {} => ~s.row /\ ~worker.held)
      BY <2>2, ScannerIs
    <3>2. left \in SUBSET Games
      BY DEF IInv, Rest
    <3>3. CASE f.waiting[i].kind = "scan"
      <4>1. f' = [s EXCEPT !.seen = left, !.phase = "stopped"]
        BY <2>2, <3>3 DEF ScanReturns, Current
      <4> HIDE DEF s
      <4>2. /\ f' \in Session /\ f'.phase = "stopped" /\ f'.timer = s.timer
            /\ f'.active = s.active /\ f'.row = s.row /\ f'.wanted = s.wanted
            /\ f'.queue = s.queue /\ f'.waiting = s.waiting
        BY <3>1, <3>2, <4>1 DEF Session, Phases, Running
      <4> QED
        BY <3>1, <3>3, <4>2, ScannedGood
    <3>4. CASE f.waiting[i].kind # "scan"
      <4>1. f' \in Selected(r, config, f.waiting[i].kind = "start")
        BY <2>2, <3>4 DEF ScanReturns, Current
      <4> HIDE DEF s
      <4>2. /\ r \in Session /\ r.phase = s.phase /\ r.timer = s.timer
            /\ r.applied = s.applied /\ r.active = s.active /\ r.wanted = s.wanted
            /\ r.queue = s.queue /\ r.waiting = s.waiting
        BY <3>1, <3>2 DEF Session
      <4> HIDE DEF r
      <4>3. /\ Shaped(r) /\ Still(r) /\ Active(r) /\ Follows(r, worker)
            /\ account = "connected"
        BY <3>1, <3>4, <4>2 DEF Shaped, Still, Active, Follows, Clear
      <4>4. (f.waiting[i].kind = "start") \in BOOLEAN /\ (r.wanted \/ slips # {})
        BY <3>1, <3>4, <4>2
      <4> QED
        BY <3>1, <4>1, <4>2, <4>3, <4>4, SelectedGood
    <3> QED
      BY <3>3, <3>4
  <2> QED
    BY <2>1, <2>2
<1>2. Rest'
  BY DEF IInv, Rest, ScanReturns
<1> QED
  BY <1>1, <1>2 DEF IInv, ScanReturns

LEMMA ScanFailsInv ==
    ASSUME IInv, NEW i \in DOMAIN f.waiting, ScanFails(i)
    PROVE  IInv'
<1> DEFINE s == [f EXCEPT !.waiting = RemoveAt(@, i)]
<1>1. Good(f', worker, config, account, slips)
  <2>1. CASE ~f.waiting[i].live
    <3>1. f' = Returned(s, f.waiting[i].kind = "start")
      BY <2>1 DEF ScanFails, Current
    <3> QED
      BY <2>1, <3>1, CancelledGood
  <2>2. CASE f.waiting[i].live
    <3>1. /\ s \in Session /\ Shaped(s) /\ Still(s) /\ ~s.timer
          /\ f.waiting[i].kind # "scan" => Follows(s, worker)
          /\ f.waiting[i].kind = "scan" =>
                s.active = {} /\ (~s.wanted /\ slips = {} => ~s.row /\ ~worker.held)
      BY <2>2, ScannerIs
    <3>2. CASE f.waiting[i].kind = "scan"
      <4>1. f' = [s EXCEPT !.phase = "error"]
        BY <2>2, <3>2 DEF ScanFails, Current
      <4> HIDE DEF s
      <4>2. /\ f' \in Session /\ f'.phase = "error" /\ f'.timer = s.timer
            /\ f'.active = s.active /\ f'.row = s.row /\ f'.wanted = s.wanted
            /\ f'.queue = s.queue /\ f'.waiting = s.waiting
        BY <3>1, <4>1 DEF Session, Phases, Running
      <4> QED
        BY <3>1, <3>2, <4>2, ScannedGood
    <3>3. CASE f.waiting[i].kind # "scan"
      <4> DEFINE b == f.waiting[i].kind = "start"
                 t == Fail(s, b)
      <4>1. f' = t
        BY <2>2, <3>3 DEF ScanFails, Current
      <4> HIDE DEF s
      <4>2. b \in BOOLEAN /\ s.applied
        BY <3>1, <3>3 DEF Follows
      <4> HIDE DEF b
      <4>3. /\ Shaped(t) /\ Core(t, worker, config) /\ EndIsDue(t) /\ ~Active(t) /\ ~t.row
        BY <3>1, <4>2, FailGood
      <4> HIDE DEF t
      <4> QED
        BY <4>1, <4>3 DEF Good, Connected, Unwanted
    <3> QED
      BY <3>2, <3>3
  <2> QED
    BY <2>1, <2>2
<1>2. Rest'
  BY DEF IInv, Rest, ScanFails
<1> QED
  BY <1>1, <1>2 DEF IInv, ScanFails

LEMMA TickInv ==
    ASSUME IInv, NEW hours \in BOOLEAN, NEW rescan \in BOOLEAN, Tick(hours, rescan)
    PROVE  IInv'
<1> DEFINE warm == IF hours THEN f.warm \cup f.active ELSE f.warm
           s == [f EXCEPT !.timer = FALSE, !.lag = FALSE,
                          !.warm = IF hours THEN @ \cup f.active ELSE @]
           d == [kind |-> "tick", live |-> TRUE]
<1>1. /\ f \in Session /\ Shaped(f) /\ f.timer /\ account = "connected"
      /\ Core(f, worker, config)
  BY Facts DEF Tick
<1>2. Still(f) /\ Active(f) /\ Follows(f, worker)
  BY <1>1 DEF Core, OneDrives, TimerDrives
<1>3. f.wanted \/ slips # {}
  BY <1>1, WantedIfDriven DEF IInv
<1>4. warm \in SUBSET Games
  BY <1>1 DEF Session
<1>5. s = [f EXCEPT !.timer = FALSE, !.lag = FALSE, !.warm = warm]
  BY <1>1 DEF Session
<1>6. IF rescan THEN f' = [s EXCEPT !.waiting = Append(@, d)]
                ELSE f' \in Selected(s, config, FALSE)
  BY DEF Tick
<1> HIDE DEF warm, s
<1>7. /\ s \in Session /\ ~s.timer /\ s.phase = f.phase /\ s.applied = f.applied
      /\ s.active = f.active /\ s.queue = f.queue /\ s.waiting = f.waiting
      /\ s.wanted = f.wanted
  BY <1>1, <1>4, <1>5 DEF Session
<1>8. Shaped(s) /\ Still(s) /\ Active(s) /\ Follows(s, worker)
  BY <1>1, <1>2, <1>7 DEF Shaped, Still, Active, Follows, Clear
<1>9. Good(f', worker, config, account, slips)
  <2>1. CASE rescan
    <3>1. d \in Discovery /\ d.live /\ d.kind = "tick"
      BY DEF Discovery
    <3>2. f' = [s EXCEPT !.waiting = Append(@, d)]
      BY <1>6, <2>1
    <3> HIDE DEF d
    <3>3. Append(s.waiting, d) \in Seq(Discovery)
      BY <1>7, <3>1, SessionIs, AppendIs
    <3>4. /\ f' \in Session /\ f'.waiting = Append(s.waiting, d) /\ f'.queue = s.queue
          /\ f'.timer = s.timer /\ f'.phase = s.phase /\ f'.applied = s.applied
          /\ f'.active = s.active /\ f'.wanted = s.wanted
      BY <1>7, <3>2, <3>3 DEF Session
    <3>5. Active(f') /\ Follows(f', worker) /\ ~f'.timer
      BY <1>7, <1>8, <3>4 DEF Active, Follows, Clear
    <3>6. Shaped(f') /\ Core(f', worker, config)
      BY <1>7, <1>8, <3>1, <3>4, <3>5, WaitGood
    <3> QED
      BY <1>1, <1>3, <1>7, <3>4, <3>6 DEF Good, Connected, Unwanted
  <2>2. CASE ~rescan
    <3>1. f' \in Selected(s, config, FALSE)
      BY <1>6, <2>2
    <3>2. s.wanted \/ slips # {}
      BY <1>3, <1>7
    <3> QED
      BY <1>1, <1>7, <1>8, <3>1, <3>2, SelectedGood
  <2> QED
    BY <2>1, <2>2
<1>10. Rest'
  BY DEF IInv, Rest, Tick
<1> QED
  BY <1>9, <1>10 DEF IInv, Tick

LEMMA TickRefusedInv ==
    ASSUME IInv, TickRefused
    PROVE  IInv'
<1> DEFINE s == [f EXCEPT !.timer = FALSE]
           t == Unavailable(s, "ended", FALSE)
<1>1. f \in Session /\ Shaped(f) /\ f.timer /\ Core(f, worker, config) /\ f' = t
  BY Facts DEF TickRefused
<1>2. f.applied
  BY <1>1 DEF Core, TimerDrives, Follows
<1>3. /\ s \in Session /\ s.applied = f.applied /\ s.phase = f.phase /\ s.active = f.active
      /\ s.queue = f.queue
  BY <1>1 DEF Session
<1> HIDE DEF s
<1>4. Shaped(s)
  BY <1>1, <1>3 DEF Shaped, Active
<1>5. Shaped(t) /\ Core(t, worker, config) /\ EndIsDue(t) /\ ~Active(t) /\ ~t.row
  BY <1>2, <1>3, <1>4, UnavailableGood
<1> HIDE DEF t
<1>6. Good(f', worker, config, account, slips)
  BY <1>1, <1>5 DEF Good, Connected, Unwanted
<1>7. Rest'
  BY DEF IInv, Rest, TickRefused
<1> QED
  BY <1>6, <1>7 DEF IInv, TickRefused

LEMMA LastDropInv ==
    ASSUME IInv, NEW g, LastDrop(g)
    PROVE  IInv'
  BY DEF IInv, Rest, LastDrop

\* What halts farming takes the worker's selection with it.
LEMMA HaltedGood ==
    ASSUME IInv, NEW reason, NEW w, ~w.held, NEW c, NEW a
    PROVE  Good(Halt(f, reason), w, c, a, slips)
<1> DEFINE h == Halt(f, reason)
<1>1. f \in Session /\ Shaped(f) /\ Unwanted(f, worker, slips)
  BY Facts
<1>2. /\ h \in Session /\ Shaped(h) /\ Still(h) /\ ~h.timer /\ ~Active(h)
      /\ h.row = (f.row /\ reason = "interrupted")
      /\ h.wanted = (f.wanted /\ reason = "interrupted")
  BY <1>1, HaltIs
<1> HIDE DEF h
<1>3. Core(h, w, c)
  BY <1>2, StillGood
<1>4. Unwanted(h, w, slips)
  BY <1>1, <1>2 DEF Unwanted
<1> QED
  BY <1>2, <1>3, <1>4 DEF Good, Connected, h

LEMMA SessionLostInv ==
    ASSUME IInv, SessionLost
    PROVE  IInv'
<1>1. worker'.held = FALSE /\ worker' \in [held : BOOLEAN, playing : SUBSET Games]
      /\ f' = Halt(f, "interrupted")
  BY DEF SessionLost
<1>2. Good(f', worker', config, account', slips)
  BY <1>1, HaltedGood
<1>3. Rest'
  BY <1>1 DEF IInv, Rest, SessionLost, AfterLoss
<1> QED
  BY <1>2, <1>3 DEF IInv, SessionLost

LEMMA OtherSessionPlaysInv ==
    ASSUME IInv, OtherSessionPlays
    PROVE  IInv'
<1>1. worker'.held = FALSE /\ worker' \in [held : BOOLEAN, playing : SUBSET Games]
      /\ f' = Halt(f, "ended")
  BY DEF OtherSessionPlays
<1>2. Good(f', worker', config, account', slips)
  BY <1>1, HaltedGood
<1>3. Rest'
  BY <1>1 DEF IInv, Rest, OtherSessionPlays
<1> QED
  BY <1>2, <1>3 DEF IInv, OtherSessionPlays

LEMMA LoggedOnInv ==
    ASSUME IInv, LoggedOn
    PROVE  IInv'
<1>1. /\ f \in Session /\ Shaped(f) /\ Core(f, worker, config)
      /\ Unwanted(f, worker, slips) /\ (~Active(f) => ~f.timer) /\ account' = "connected"
  BY Facts DEF LoggedOn
<1>2. CASE Resumes
  <2>1. f' = Started(f) /\ ~Active(f) /\ f.row
    BY <1>2 DEF LoggedOn, Resumes
  <2>2. f.wanted \/ slips # {}
    BY <1>1, <2>1 DEF Unwanted
  <2>3. f'.wanted = f.wanted
    BY <1>1, <2>1, StartedGood
  <2>4. Good(f', worker, config, account', slips)
    BY <1>1, <2>1, <2>2, <2>3, BegunGood
  <2>5. Rest'
    BY DEF IInv, Rest, LoggedOn
  <2> QED
    BY <2>4, <2>5 DEF IInv, LoggedOn
<1>3. CASE ~Resumes
  <2>1. f' = f
    BY <1>3 DEF LoggedOn
  <2>2. Good(f', worker, config, account', slips)
    BY <1>1, <2>1 DEF Good, Connected
  <2>3. Rest'
    BY DEF IInv, Rest, LoggedOn
  <2> QED
    BY <2>2, <2>3 DEF IInv, LoggedOn
<1> QED
  BY <1>2, <1>3

LEMMA RestartInv ==
    ASSUME IInv, Restart
    PROVE  IInv'
<1>1. f \in Session /\ Unwanted(f, worker, slips)
  BY Facts
<1>2. f' = [f EXCEPT !.phase = "stopped", !.timer = FALSE, !.applied = FALSE,
                     !.active = {}, !.seen = {}, !.queue = <<>>, !.waiting = <<>>,
                     !.lag = FALSE]
  BY DEF Restart
<1>3. <<>> \in Seq(Entry) /\ <<>> \in Seq(Discovery)
  BY EmptySeq
<1>4. /\ f' \in Session /\ f'.phase = "stopped" /\ ~f'.timer /\ f'.active = {}
      /\ f'.queue = <<>> /\ f'.waiting = <<>> /\ f'.row = f.row /\ f'.wanted = f.wanted
  BY <1>1, <1>2, <1>3 DEF Session, Phases, Entry
<1>5. ~Active(f')
  BY <1>4 DEF Active, Running
<1>6. Still(f') /\ Shaped(f')
  BY <1>4 DEF Still, Shaped
<1>7. worker'.held = FALSE /\ worker' \in [held : BOOLEAN, playing : SUBSET Games]
  BY DEF Restart
<1>8. Core(f', worker', config)
  BY <1>4, <1>6, StillGood
<1>9. Unwanted(f', worker', slips')
  <2>1. slips' = IF f.row THEN slips ELSE {}
    BY DEF Restart
  <2> QED
    BY <1>1, <1>4, <1>5, <1>7, <2>1 DEF Unwanted
<1>10. Good(f', worker', config, account', slips')
  BY <1>5, <1>6, <1>8, <1>9 DEF Good, Connected
<1>11. Rest'
  BY <1>7 DEF IInv, Rest, Restart, AfterLoss
<1> QED
  BY <1>10, <1>11 DEF IInv, Restart

(***************************************************************************)
(* The theorems                                                            *)
(***************************************************************************)

LEMMA InitInv == Init => IInv
<1> SUFFICES ASSUME Init PROVE IInv
  OBVIOUS
<1>1. <<>> \in Seq(Entry) /\ <<>> \in Seq(Discovery)
  BY EmptySeq
<1>2. /\ f \in Session /\ f.phase = "stopped" /\ ~f.timer /\ f.active = {} /\ ~f.row
      /\ f.queue = <<>> /\ f.waiting = <<>>
  BY <1>1 DEF Init, Session, Phases, Entry
<1>3. ~Active(f) /\ Still(f) /\ Shaped(f)
  BY <1>2 DEF Active, Running, Still, Shaped
<1>4. Core(f, worker, config)
  BY <1>2, <1>3, StillGood
<1>5. worker.held = FALSE
  BY DEF Init
<1>6. Good(f, worker, config, account, slips)
  BY <1>2, <1>3, <1>4, <1>5 DEF Good, Connected, Unwanted
<1>7. Rest
  BY DEF Init, Rest
<1> QED
  BY <1>6, <1>7 DEF IInv

LEMMA NextInv == IInv /\ [Next]_vars => IInv'
<1> SUFFICES ASSUME IInv, [Next]_vars PROVE IInv'
  OBVIOUS
<1>1. CASE Requests
  BY <1>1, RequestStartInv, RequestStartPausedInv, PollSucceedsInv, PollExpiresInv,
     RequestStopInv, RequestScanInv, ReconfigureInv, CommandInv DEF Requests
<1>2. CASE Queue
  BY <1>2, RunPauseInv, RunResumeInv, RunFarmResumeInv, RunBeginInv, RunApplyInv,
     RunEndInv DEF Queue
<1>3. CASE Scan
  BY <1>3, ScanReturnsInv, ScanFailsInv DEF Scan
<1>4. CASE Steam
  BY <1>4, LastDropInv, SessionLostInv, OtherSessionPlaysInv, LoggedOnInv DEF Steam
<1>5. CASE Restart
  BY <1>5, RestartInv
<1>6. CASE \E hours \in BOOLEAN, rescan \in BOOLEAN : Tick(hours, rescan)
  BY <1>6, TickInv
<1>7. CASE TickRefused
  BY <1>7, TickRefusedInv
<1>8. CASE UNCHANGED vars
  BY <1>8 DEF vars, IInv, Rest
<1> QED
  BY <1>1, <1>2, <1>3, <1>4, <1>5, <1>6, <1>7, <1>8 DEF Next

LEMMA Invariance == Spec => []IInv
  BY InitInv, NextInv, PTL DEF Spec

\* Every variable keeps its type: the session, its queue of operations and the badge
\* scans that wait (farming/controller.ts, steam/manager.ts).
THEOREM TypeCorrect == Spec => []TypeOK
<1>1. IInv => TypeOK
  BY DEF IInv, Good, Shaped, Rest, TypeOK
<1> QED
  BY <1>1, Invariance, PTL

\* Steam follows the session: while the timer runs it shows the games of the session,
\* all of which the rules permit, and a session that has ended for good holds nothing.
THEOREM SteamFollowsSessionHolds == Spec => []SteamFollowsSession
<1>1. IInv => SteamFollowsSession
  <2> SUFFICES ASSUME IInv PROVE SteamFollowsSession
    OBVIOUS
  <2>1. /\ f \in Session /\ Core(f, worker, config) /\ Unwanted(f, worker, slips)
    BY Facts
  <2>2. f.timer => /\ f.queue = <<>> => worker.held /\ worker.playing = f.active
                   /\ ~f.lag => f.active \cap Skipped(f, config) = {}
    BY <2>1 DEF Core, TimerDrives, Follows, Proper
  <2>3. ASSUME Settled, ~f.wanted, slips = {}
        PROVE  ~Active(f) /\ ~worker.held /\ ~f.row
    <3>1. DOMAIN f.queue = {} /\ DOMAIN f.waiting = {}
      BY <2>3 DEF Settled
    <3> QED
      BY <2>1, <2>3, <3>1 DEF Unwanted, EndIsDue, OnlyScans
  <2> QED
    BY <2>2, <2>3 DEF SteamFollowsSession
<1> QED
  BY <1>1, Invariance, PTL

LEMMA AtMostOneLives ==
    ASSUME IInv
    PROVE  Cardinality(LiveCalls) + (IF f.timer THEN 1 ELSE 0) <= 1
<1>1. f \in Session /\ OneDrives(f)
  BY Facts DEF Core
<1>2. f.queue \in Seq(Entry) /\ f.waiting \in Seq(Discovery)
  BY <1>1, SessionIs
<1>3. /\ \A i \in DOMAIN f.queue : i \in Int
      /\ \A i \in DOMAIN f.waiting : i \in Int
  BY <1>2, IndicesOf
<1>4. \A x \in LiveCalls :
         \/ x \in DOMAIN f.queue /\ f.queue[x].live
         \/ \E i \in DOMAIN f.waiting : f.waiting[i].live /\ x = -i
  BY DEF LiveCalls
<1>5. \A x, y \in LiveCalls : x = y
  BY <1>1, <1>4 DEF OneDrives
<1>6. f.timer => LiveCalls = {}
  BY <1>1, <1>4 DEF OneDrives, Still
<1>7. CASE LiveCalls = {}
  <2>1. Cardinality(LiveCalls) = 0
    BY <1>7, FS_EmptySet
  <2> QED
    BY <2>1
<1>8. CASE LiveCalls # {}
  <2>1. PICK x : LiveCalls = {x}
    BY <1>5, <1>8
  <2>2. Cardinality(LiveCalls) = 1
    BY <2>1, FS_Singleton
  <2> QED
    BY <1>6, <1>8, <2>2
<1> QED
  BY <1>7, <1>8

LEMMA OnlyTheCurrentPlays ==
    ASSUME IInv, [Next]_vars, worker'.playing \ worker.playing # {}
    PROVE  f.queue # <<>> /\ Caller.live
<1>1. worker' # worker /\ worker'.playing # {}
  OBVIOUS
<1>2. worker \in [held : BOOLEAN, playing : SUBSET Games]
  BY DEF IInv, Rest
<1>3. CASE RunBegin
  BY <1>1, <1>3 DEF RunBegin, Runs, Allowed
<1>4. CASE RunApply
  BY <1>1, <1>4 DEF RunApply, Runs, Allowed
<1>5. CASE RunPause \/ RunResume \/ RunFarmResume \/ RunEnd
  <2>1. CASE RunResume
    BY <1>1, <1>2, <2>1 DEF RunResume
  <2>2. CASE RunFarmResume
    BY <1>1, <2>2 DEF RunFarmResume
  <2>3. CASE RunPause \/ RunEnd
    BY <1>1, <2>3 DEF RunPause, RunEnd
  <2> QED
    BY <1>5, <2>1, <2>2, <2>3
<1>6. CASE Requests
  <2>1. worker' = worker \/ worker' = [worker EXCEPT !.held = FALSE]
    BY <1>6 DEF Requests, RequestStart, RequestStartPaused, PollSucceeds, PollExpires,
       RequestStop, RequestScan, Reconfigure, Command
  <2>2. worker'.playing = worker.playing
    BY <1>2, <2>1
  <2> QED
    BY <2>2
<1>7. CASE Scan \/ TickRefused
           \/ \E hours \in BOOLEAN, rescan \in BOOLEAN : Tick(hours, rescan)
  BY <1>1, <1>7 DEF Scan, ScanReturns, ScanFails, Tick, TickRefused
<1>8. CASE Steam \/ Restart
  BY <1>1, <1>8 DEF Steam, LastDrop, SessionLost, OtherSessionPlays, LoggedOn, Restart
<1>9. CASE UNCHANGED vars
  BY <1>1, <1>9 DEF vars
<1> QED
  BY <1>3, <1>4, <1>5, <1>6, <1>7, <1>8, <1>9 DEF Next, Queue

\* One invocation drives the session at a time, and only the current one makes Steam
\* play a game (isCurrent, advance).
THEOREM OneAdvanceHolds == Spec => OneAdvance
<1> DEFINE I == Cardinality(LiveCalls) + (IF f.timer THEN 1 ELSE 0) <= 1
           A == worker'.playing \ worker.playing # {} => f.queue # <<>> /\ Caller.live
<1>1. IInv => I
  BY AtMostOneLives
<1>2. IInv /\ [Next]_vars => A
  BY OnlyTheCurrentPlays
<1> HIDE DEF I, A
<1>3. Spec => []I
  BY <1>1, Invariance, PTL
<1>4. Spec => [][A]_vars
  BY <1>2, Invariance, PTL DEF Spec
<1> QED
  BY <1>3, <1>4 DEF OneAdvance, I, A
=============================================================================
