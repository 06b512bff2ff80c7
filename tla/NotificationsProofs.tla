------------------------ MODULE NotificationsProofs ------------------------
(***************************************************************************)
(* What holds of Notifications for every set of rules and all its bounds:  *)
(* the types, that saving a rule is a boundary, and that the attempts of a *)
(* delivery are bounded.                                                   *)
(***************************************************************************)
EXTENDS Notifications, FiniteSetTheorems, WellFoundedInduction, TLAPS

(***************************************************************************)
(* The inductive invariant                                                 *)
(***************************************************************************)

\* TypeOK, part by part.
RulesTyped  == rule \in [Rules -> Rule]
EventsTyped ==
    stored \subseteq Events /\ last \in 0..MaxEvents /\ matches \in [Events -> SUBSET Rules]
RowsTyped ==
    /\ row \in [Keys -> Row]
    /\ \A k \in Keys : Open(row[k]) <=> row[k].next # "never"
ProcessTyped ==
    phase \in {"up", "stopping", "down"} /\ timer \in BOOLEAN /\ exits \in 0..MaxExits
DrainTyped == drain \in [on : BOOLEAN, list : SUBSET Keys]
WireTyped ==
    /\ wire = NoWire \/ wire \in [key : Keys, revision : 0..MaxRevision,
                                  attempts : 0..(MaxAttempts - 1)]
    /\ wire # NoWire => drain.on
AnswersTyped == answers \in [Keys -> [count : 0..MaxAttempts, done : BOOLEAN]]

Typed ==
    /\ RulesTyped /\ EventsTyped /\ RowsTyped /\ ProcessTyped
    /\ DrainTyped /\ WireTyped /\ AnswersTyped

\* Events are numbered as they are stored; a rule looks at later ones only.
Numbered ==
    /\ stored \subseteq 1..last
    /\ \A r \in Rules : rule[r].after <= last
    /\ \A r \in Rules : rule[r].state = "new" => rule[r].revision = 0

\* A row is one of a stored event, after the last save of a rule that is not deleted.
Bounded ==
    \A k \in Keys : row[k].status # "none" =>
        /\ k[2] \in stored
        /\ rule[k[1]].state = "live" /\ row[k].revision = rule[k[1]].revision
        /\ k[2] > rule[k[1]].after

\* An event that may still get a row for a rule, from RecordEvent or at a start.
Enqueueable(k) ==
    \/ k[2] > last
    \/ k[2] \in stored /\ rule[k[1]].state = "live" /\ k[2] > rule[k[1]].after

\* A row counts its answers, and no row is made again for an event that had answers.
Counted ==
    \A k \in Keys :
        IF row[k].status = "none"
        THEN Enqueueable(k) => answers[k] = [count |-> 0, done |-> FALSE]
        ELSE /\ answers[k] = [count |-> row[k].attempts, done |-> row[k].status = "delivered"]
             /\ Open(row[k]) => row[k].attempts < MaxAttempts

\* The rows of a drain have not been settled by somebody else.
Listed ==
    /\ \A k \in drain.list : row[k].status # "none" => Open(row[k])
    /\ ~drain.on => drain.list = {}

\* While a webhook is on the wire, its row is as it was, or gone for good.
Sending ==
    wire # NoWire =>
        /\ K \notin drain.list
        /\ IF row[K].status = "none" THEN ~Enqueueable(K)
           ELSE /\ Open(row[K]) /\ row[K].revision = wire.revision
                /\ row[K].attempts = wire.attempts

Stopped ==
    /\ phase = "down" => ~drain.on
    /\ phase = "stopping" => exits < MaxExits

IInv == Typed /\ Numbered /\ Bounded /\ Counted /\ Listed /\ Sending /\ Stopped

(***************************************************************************)
(* Smallest and greatest events                                            *)
(***************************************************************************)

\* Min and Max choose what there is: a set of numbers up to n has a least and a greatest.
LEMMA SmallestAndGreatest ==
    ASSUME NEW n \in Nat, NEW S \in SUBSET (0..n), S # {}
    PROVE  /\ Min(S) \in S /\ \A x \in S : Min(S) <= x
           /\ Max(S) \in S /\ \A x \in S : Max(S) >= x
<1> DEFINE R == StrictSubsetOrdering(0..n)
<1>1. IsFiniteSet(0..n)
  BY FS_Interval
<1>2. IsWellFoundedOn(R, SUBSET (0..n))
  BY <1>1, FS_StrictSubsetOrderingWellFounded, FS_FiniteSubsetsOfFinite
<1>3. \E x \in S : \A y \in S : x <= y
  <2> DEFINE below == {0..x : x \in S}
  <2>1. below \subseteq SUBSET (0..n) /\ below # {}
    <3>1. \A x \in S : 0..x \in below /\ 0..x \in SUBSET (0..n)
      OBVIOUS
    <3> QED
      BY <3>1
  <2>2. PICK s \in below : \A t \in below : <<t, s>> \notin R
    BY <1>2, <2>1, WFMin
  <2>3. PICK x \in S : s = 0..x
    OBVIOUS
  <2>4. ASSUME NEW y \in S, y < x PROVE FALSE
    <3>1. 0..y \in below /\ 0..y \subseteq 0..x /\ x \in 0..x /\ x \notin 0..y
      BY <2>4
    <3>2. <<0..y, 0..x>> \in R
      BY <2>1, <2>3, <3>1 DEF StrictSubsetOrdering
    <3> QED
      BY <2>2, <2>3, <3>1, <3>2
  <2> QED
    BY <2>4
<1>4. \E x \in S : \A y \in S : x >= y
  <2> DEFINE above == {x..n : x \in S}
  <2>1. above \subseteq SUBSET (0..n) /\ above # {}
    <3>1. \A x \in S : x..n \in above /\ x..n \in SUBSET (0..n)
      OBVIOUS
    <3> QED
      BY <3>1
  <2>2. PICK s \in above : \A t \in above : <<t, s>> \notin R
    BY <1>2, <2>1, WFMin
  <2>3. PICK x \in S : s = x..n
    OBVIOUS
  <2>4. ASSUME NEW y \in S, y > x PROVE FALSE
    <3>1. y..n \in above /\ y..n \subseteq x..n /\ x \in x..n /\ x \notin y..n
      BY <2>4
    <3>2. <<y..n, x..n>> \in R
      BY <2>1, <2>3, <3>1 DEF StrictSubsetOrdering
    <3> QED
      BY <2>2, <2>3, <3>1, <3>2
  <2> QED
    BY <2>4
<1> QED
  BY <1>3, <1>4 DEF Min, Max

LEMMA LatestIsStored ==
    ASSUME IInv
    PROVE  /\ Latest \in 0..last /\ \A e \in stored : e <= Latest
           /\ stored # {} => Min(stored) \in stored
<1>1. last \in Nat /\ stored \in SUBSET (0..last)
  BY BoundsAssumption DEF IInv, Typed, EventsTyped, Numbered, Events
<1>2. stored \cup {0} \in SUBSET (0..last) /\ stored \cup {0} # {}
  BY <1>1
<1>3. stored # {} => Min(stored) \in stored
  BY <1>1, SmallestAndGreatest
<1>4. Latest \in stored \cup {0} /\ \A e \in stored \cup {0} : Latest >= e
  BY <1>1, <1>2, SmallestAndGreatest DEF Latest
<1> QED
  BY <1>1, <1>2, <1>3, <1>4 DEF Latest

LEMMA FailuresAreCapped ==
    ASSUME NEW n \in Nat
    PROVE  Min({n + 1, SuspendAfter}) \in 0..SuspendAfter
<1> DEFINE S == {n + 1, SuspendAfter}
<1>1. n + 1 + SuspendAfter \in Nat /\ S \in SUBSET (0..(n + 1 + SuspendAfter)) /\ S # {}
  BY BoundsAssumption
<1>2. Min(S) \in S /\ \A x \in S : Min(S) <= x
  BY <1>1, SmallestAndGreatest
<1> QED
  BY <1>2, BoundsAssumption

(***************************************************************************)
(* Keys and rows                                                           *)
(***************************************************************************)

LEMMA KeyParts ==
    \A k \in Keys : k[1] \in Rules /\ k[2] \in Events /\ k[2] \in Nat
  BY BoundsAssumption DEF Keys, Events

LEMMA NoRowIsTyped == NoRow \in Row /\ ~Open(NoRow) /\ NoRow.next = "never"
  BY BoundsAssumption DEF NoRow, Row, Open

\* A new row has the revision of its rule.
LEMMA NewRowIsTyped ==
    ASSUME RulesTyped, NEW r \in Rules
    PROVE  /\ NewRow(r) \in Row /\ Open(NewRow(r)) /\ NewRow(r).status = "pending"
           /\ NewRow(r).next = "due" /\ NewRow(r).attempts = 0
           /\ NewRow(r).revision = rule[r].revision
  BY BoundsAssumption DEF RulesTyped, Rule, NewRow, Row, Open

\* What is on the wire was sent for a key.
LEMMA OnWire ==
    ASSUME WireTyped, wire # NoWire
    PROVE  /\ K \in Keys /\ K[1] \in Rules
           /\ wire.revision \in 0..MaxRevision
           /\ wire.attempts \in Nat /\ wire.attempts < MaxAttempts
<1>1. wire \in [key : Keys, revision : 0..MaxRevision, attempts : 0..(MaxAttempts - 1)]
  BY DEF WireTyped
<1>2. K \in Keys
  BY <1>1 DEF K
<1> QED
  BY <1>1, <1>2, KeyParts, BoundsAssumption

\* Rows that are made: each for a rule that listens and an event that it may hear of.
Made(D) ==
    /\ \A k \in D : k \in Keys => /\ rule[k[1]].state = "live" /\ k[2] > rule[k[1]].after
                                  /\ Enqueueable(k) /\ k[2] \in stored'
    /\ row' = EnqueueForRules(row, D)
    /\ rule' = rule /\ stored \subseteq stored'

LEMMA MadeRows ==
    ASSUME IInv, NEW D, Made(D)
    PROVE  /\ RowsTyped' /\ RulesTyped' /\ Bounded'
           /\ \A k \in Keys : \/ row'[k] = row[k]
                              \/ /\ row[k].status = "none" /\ k \in D /\ Enqueueable(k)
                                 /\ row'[k] = NewRow(k[1]) /\ Open(row'[k])
                                 /\ row'[k].attempts = 0 /\ row'[k].status = "pending"
<1>1. \A k \in Keys : row'[k] = IF k \in D /\ row[k].status = "none" THEN NewRow(k[1]) ELSE row[k]
  BY DEF Made, EnqueueForRules
<1>2. \A k \in Keys : NewRow(k[1]) \in Row /\ Open(NewRow(k[1])) /\ NewRow(k[1]).next = "due"
                      /\ NewRow(k[1]).revision = rule[k[1]].revision
                      /\ NewRow(k[1]).attempts = 0 /\ NewRow(k[1]).status = "pending"
  BY KeyParts, NewRowIsTyped DEF IInv, Typed
<1>3. row' \in [Keys -> Row]
  <2>1. \A k \in Keys : row'[k] \in Row
    BY <1>1, <1>2 DEF IInv, Typed, RowsTyped
  <2>2. row' = [k \in Keys |-> row'[k]]
    BY DEF Made, EnqueueForRules
  <2> QED
    BY <2>1, <2>2
<1>4. RowsTyped'
  BY <1>1, <1>2, <1>3 DEF IInv, Typed, RowsTyped
<1>5. Bounded'
  BY <1>1, <1>2 DEF IInv, Bounded, Made
<1>6. RulesTyped'
  BY DEF IInv, Typed, RulesTyped, Made
<1> QED
  BY <1>1, <1>2, <1>4, <1>5, <1>6 DEF Made

\* Rows that are deleted.
Deleted(D) == row' = [k \in Keys |-> IF k \in D THEN NoRow ELSE row[k]]

LEMMA DeletedRows ==
    ASSUME IInv, NEW D, Deleted(D)
    PROVE  /\ RowsTyped'
           /\ \A k \in Keys : row'[k] = IF k \in D THEN NoRow ELSE row[k]
           /\ \A k \in Keys : row'[k].status # "none" => k \notin D /\ row'[k] = row[k]
<1>1. \A k \in Keys : row'[k] = IF k \in D THEN NoRow ELSE row[k]
  BY DEF Deleted
<1>2. row' \in [Keys -> Row]
  <2>1. \A k \in Keys : row'[k] \in Row
    BY <1>1, NoRowIsTyped DEF IInv, Typed, RowsTyped
  <2>2. row' = [k \in Keys |-> row'[k]]
    BY DEF Deleted
  <2> QED
    BY <2>1, <2>2
<1>3. RowsTyped'
  BY <1>1, <1>2, NoRowIsTyped DEF IInv, Typed, RowsTyped
<1> QED
  BY <1>1, <1>3 DEF NoRow

(***************************************************************************)
(* Events                                                                  *)
(***************************************************************************)

\* Storing an event makes rows of that event only, which no rule has heard of.
LEMMA RecordEventMakes ==
    ASSUME IInv, NEW S \in SUBSET Rules, NEW D \in SUBSET (S \cap Listening),
           Store(S), row' = EnqueueForRules(row, D \X {last + 1}), rule' = rule
    PROVE  /\ Made(D \X {last + 1}) /\ EventsTyped' /\ Numbered'
           /\ \A k \in Keys : Enqueueable(k)' => Enqueueable(k)
<1>1. last \in Nat /\ last + 1 \in Events /\ stored \subseteq Nat
  BY BoundsAssumption DEF IInv, Typed, EventsTyped, Events, Store
<1>2. EventsTyped'
  BY <1>1, BoundsAssumption DEF IInv, Typed, EventsTyped, Events, Store
<1>3. \A r \in Rules : rule[r].after \in Nat /\ rule[r].after <= last
  BY BoundsAssumption DEF IInv, Typed, RulesTyped, Rule, Numbered
<1>4. Made(D \X {last + 1})
  <2> SUFFICES ASSUME NEW k \in D \X {last + 1}
               PROVE  /\ rule[k[1]].state = "live" /\ k[2] > rule[k[1]].after
                      /\ Enqueueable(k) /\ k[2] \in stored'
    BY DEF Made, Store
  <2> QED
    BY <1>1, <1>3 DEF Listening, Enqueueable, Store
<1>5. Numbered'
  BY <1>1, <1>3 DEF IInv, Numbered, Store
<1>6. \A k \in Keys : Enqueueable(k)' => Enqueueable(k)
  BY <1>1, KeyParts DEF Enqueueable, Store
<1> QED
  BY <1>2, <1>4, <1>5, <1>6

\* New rows are counted, and neither the drain nor the wire knows of them.
LEMMA MadeCounted ==
    ASSUME IInv, NEW D, Made(D), answers' = answers,
           \A k \in Keys : Enqueueable(k)' => Enqueueable(k)
    PROVE  Counted'
<1> SUFFICES ASSUME NEW k \in Keys
             PROVE  IF row'[k].status = "none"
                    THEN Enqueueable(k)' => answers[k] = [count |-> 0, done |-> FALSE]
                    ELSE /\ answers[k] = [count |-> row'[k].attempts,
                                          done |-> row'[k].status = "delivered"]
                         /\ Open(row'[k]) => row'[k].attempts < MaxAttempts
  BY DEF Counted
<1>1. CASE row'[k] = row[k]
  BY <1>1 DEF IInv, Counted
<1>2. CASE /\ row[k].status = "none" /\ Enqueueable(k)
           /\ row'[k].attempts = 0 /\ row'[k].status = "pending"
  <2>1. answers[k] = [count |-> 0, done |-> FALSE]
    BY <1>2 DEF IInv, Counted
  <2>2. (row'[k].status = "delivered") = FALSE /\ row'[k].status # "none"
    BY <1>2
  <2>3. row'[k].attempts < MaxAttempts
    BY <1>2, BoundsAssumption
  <2> QED
    BY <1>2, <2>1, <2>2, <2>3
<1> QED
  BY <1>1, <1>2, MadeRows

\* A drain keeps its list while rows are made.
LEMMA MadeListed ==
    ASSUME IInv, NEW D, Made(D), drain' = drain
    PROVE  Listed'
<1>1. \A k \in drain.list : k \in Keys
  BY DEF IInv, Typed, DrainTyped
<1>2. \A k \in drain.list : row'[k].status # "none" => Open(row'[k])
  BY <1>1, MadeRows DEF IInv, Listed
<1> QED
  BY <1>2 DEF IInv, Listed

\* A webhook on the wire keeps its row, or its row stays away.
LEMMA MadeSending ==
    ASSUME IInv, NEW D, Made(D), drain' = drain, wire' = wire,
           \A k \in Keys : Enqueueable(k)' => Enqueueable(k)
    PROVE  Sending'
<1>1. CASE wire = NoWire
  BY <1>1 DEF Sending, NoWire
<1>2. CASE wire # NoWire
  <2>1. K \in Keys /\ K' = K
    BY <1>2, OnWire DEF IInv, Typed, K
  <2> DEFINE k == K
  <2>2. \/ row'[k] = row[k]
        \/ row[k].status = "none" /\ Enqueueable(k)
    BY <2>1, MadeRows
  <2>3. /\ k \notin drain.list
        /\ IF row[k].status = "none" THEN ~Enqueueable(k)
           ELSE /\ Open(row[k]) /\ row[k].revision = wire.revision
                /\ row[k].attempts = wire.attempts
    BY <1>2 DEF IInv, Sending
  <2> HIDE DEF k
  <2>4. row'[k] = row[k] /\ (row[k].status = "none" => ~Enqueueable(k)')
    BY <2>1, <2>2, <2>3 DEF k
  <2> QED
    BY <2>1, <2>3, <2>4 DEF Sending, k
<1> QED
  BY <1>1, <1>2

LEMMA RecordEventInv ==
    ASSUME IInv, RecordEvent
    PROVE  IInv'
<1>1. PICK S \in SUBSET Rules :
        Store(S) /\ row' = EnqueueForRules(row, (S \cap Listening) \X {last + 1})
  BY DEF RecordEvent
<1> DEFINE D == (S \cap Listening) \X {last + 1}
<1>2. rule' = rule /\ drain' = drain /\ wire' = wire /\ answers' = answers
  BY DEF RecordEvent
<1>3. /\ Made(D) /\ EventsTyped' /\ Numbered'
      /\ \A k \in Keys : Enqueueable(k)' => Enqueueable(k)
  BY <1>1, <1>2, RecordEventMakes
<1>4. RowsTyped' /\ RulesTyped' /\ Bounded'
  BY <1>3, MadeRows
<1>5. Counted' /\ Listed' /\ Sending'
  BY <1>2, <1>3, MadeCounted, MadeListed, MadeSending
<1>6. DrainTyped' /\ WireTyped' /\ AnswersTyped' /\ Stopped'
  BY <1>2 DEF RecordEvent, IInv, Typed, DrainTyped, WireTyped, AnswersTyped, Stopped, NoWire
<1>7. ProcessTyped'
  BY DEF RecordEvent, ScheduleDrain, IInv, Typed, ProcessTyped
<1> QED
  BY <1>3, <1>4, <1>5, <1>6, <1>7 DEF IInv, Typed

LEMMA RecordEventCutOffInv ==
    ASSUME IInv, RecordEventCutOff
    PROVE  IInv'
<1>0. PICK S \in SUBSET Rules : \E D \in SUBSET (S \cap Listening) :
        Store(S) /\ row' = EnqueueForRules(row, D \X {last + 1})
  BY DEF RecordEventCutOff
<1>1. PICK D \in SUBSET (S \cap Listening) :
        Store(S) /\ row' = EnqueueForRules(row, D \X {last + 1})
  BY <1>0
<1>2. rule' = rule /\ answers' = answers
  BY DEF RecordEventCutOff
<1>3. /\ Made(D \X {last + 1}) /\ EventsTyped' /\ Numbered'
      /\ \A k \in Keys : Enqueueable(k)' => Enqueueable(k)
  BY <1>1, <1>2, RecordEventMakes
<1>4. RowsTyped' /\ RulesTyped' /\ Bounded'
  BY <1>3, MadeRows
<1>5. Counted'
  BY <1>2, <1>3, MadeCounted
<1>6. Listed' /\ Sending' /\ DrainTyped' /\ WireTyped' /\ AnswersTyped' /\ Stopped'
  BY <1>2 DEF RecordEventCutOff, Down, IInv, Typed, Listed, Sending, DrainTyped,
     WireTyped, AnswersTyped, Stopped, NoWire, NoDrain
<1>7. ProcessTyped'
  <2>1. MayCrash /\ Down
    BY DEF RecordEventCutOff
  <2>2. exits + 1 \in 0..MaxExits
    BY <2>1, BoundsAssumption DEF MayCrash, IInv, Typed, ProcessTyped
  <2> QED
    BY <2>1, <2>2 DEF Down, ProcessTyped
<1> QED
  BY <1>3, <1>4, <1>5, <1>6, <1>7 DEF IInv, Typed

LEMMA BootInv ==
    ASSUME IInv, Boot
    PROVE  IInv'
<1>1. /\ rule' = rule /\ drain' = drain /\ wire' = wire /\ answers' = answers
      /\ stored' = stored /\ last' = last /\ matches' = matches /\ exits' = exits
  BY DEF Boot
<1>2. Made(Unnotified)
  <2>1. \A k \in Unnotified : /\ rule[k[1]].state = "live" /\ k[2] > rule[k[1]].after
                              /\ Enqueueable(k) /\ k[2] \in stored
    BY DEF Unnotified, Listening, Enqueueable
  <2> QED
    BY <1>1, <2>1 DEF Boot, Made
<1>3. \A k \in Keys : Enqueueable(k)' => Enqueueable(k)
  BY <1>1 DEF Enqueueable
<1>4. RowsTyped' /\ RulesTyped' /\ Bounded'
  BY <1>2, MadeRows
<1>5. Counted' /\ Listed' /\ Sending'
  BY <1>1, <1>2, <1>3, MadeCounted, MadeListed, MadeSending
<1>6. EventsTyped' /\ DrainTyped' /\ WireTyped' /\ AnswersTyped' /\ Numbered'
  BY <1>1 DEF IInv, Typed, EventsTyped, DrainTyped, WireTyped, AnswersTyped, Numbered, NoWire
<1>7. ProcessTyped' /\ Stopped'
  BY <1>1 DEF Boot, IInv, Typed, ProcessTyped, Stopped
<1> QED
  BY <1>4, <1>5, <1>6, <1>7 DEF IInv, Typed

\* Rows of events that are gone, or too old for the rule, leave the counts true.
LEMMA DeletedCounted ==
    ASSUME IInv, NEW D, Deleted(D), answers' = answers, drain' = drain, wire' = wire,
           \A k \in Keys : Enqueueable(k)' => Enqueueable(k) /\ (k \in D => k[2] > last)
    PROVE  Counted' /\ Listed' /\ Sending'
<1>1. \A k \in Keys : row'[k] = IF k \in D THEN NoRow ELSE row[k]
  BY DeletedRows
<1>2. \A k \in Keys : k[2] > last => row[k].status = "none" /\ Enqueueable(k)
  <2>1. \A e \in stored : e \in 1..last
    BY DEF IInv, Numbered
  <2>2. last \in Nat
    BY BoundsAssumption DEF IInv, Typed, EventsTyped
  <2> QED
    BY <2>1, <2>2, KeyParts DEF IInv, Bounded, Enqueueable
<1>3. NoRow.status = "none" /\ ~Open(NoRow)
  BY NoRowIsTyped DEF NoRow
<1>4. Counted'
  <2> SUFFICES ASSUME NEW k \in Keys
               PROVE  IF row'[k].status = "none"
                      THEN Enqueueable(k)' => answers[k] = [count |-> 0, done |-> FALSE]
                      ELSE /\ answers[k] = [count |-> row'[k].attempts,
                                            done |-> row'[k].status = "delivered"]
                           /\ Open(row'[k]) => row'[k].attempts < MaxAttempts
    BY DEF Counted
  <2>1. CASE k \in D
    BY <1>1, <1>2, <1>3, <2>1 DEF IInv, Counted
  <2>2. CASE k \notin D
    BY <1>1, <2>2 DEF IInv, Counted
  <2> QED
    BY <2>1, <2>2
<1>5. Listed'
  <2>1. \A k \in drain.list : k \in Keys
    BY DEF IInv, Typed, DrainTyped
  <2> QED
    BY <1>1, <1>3, <2>1 DEF IInv, Listed
<1>6. CASE wire = NoWire
  BY <1>4, <1>5, <1>6 DEF Sending, NoWire
<1>7. CASE wire # NoWire
  <2>1. K \in Keys /\ K' = K
    BY <1>7, OnWire DEF IInv, Typed, K
  <2> DEFINE k == K
  <2>2. /\ k \notin drain.list
        /\ IF row[k].status = "none" THEN ~Enqueueable(k)
           ELSE /\ Open(row[k]) /\ row[k].revision = wire.revision
                /\ row[k].attempts = wire.attempts
    BY <1>7 DEF IInv, Sending
  <2> HIDE DEF k
  <2>3. IF row'[k].status = "none" THEN ~Enqueueable(k)' ELSE row'[k] = row[k]
    BY <1>1, <1>2, <1>3, <2>1, <2>2 DEF k
  <2>4. Sending'
    BY <2>1, <2>2, <2>3 DEF Sending, k
  <2> QED
    BY <1>4, <1>5, <2>4
<1> QED
  BY <1>6, <1>7

LEMMA CleanupRetainedEventsInv ==
    ASSUME IInv, CleanupRetainedEvents
    PROVE  IInv'
<1> DEFINE e == Min(stored)
           D == {k \in Keys : k[2] = e}
<1>1. /\ stored # {} /\ stored' = stored \ {e}
      /\ row' = [k \in Keys |-> IF k[2] = e THEN NoRow ELSE row[k]]
      /\ UNCHANGED <<rule, last, matches, phase, timer, drain, wire, answers, exits>>
  BY DEF CleanupRetainedEvents
<1>2. e \in stored
  BY <1>1, LatestIsStored
<1>3. last \in Nat /\ stored \subseteq 1..last
  BY BoundsAssumption DEF IInv, Typed, EventsTyped, Numbered
<1> HIDE DEF e
<1>4. Deleted(D)
  BY <1>1 DEF Deleted
<1>5. \A k \in Keys : Enqueueable(k)' => Enqueueable(k) /\ (k \in D => k[2] > last)
  BY <1>1 DEF Enqueueable
<1>6. Counted' /\ Listed' /\ Sending'
  BY <1>1, <1>4, <1>5, DeletedCounted
<1>7. RowsTyped' /\ (\A k \in Keys : row'[k].status # "none" => k \notin D /\ row'[k] = row[k])
  BY <1>4, DeletedRows
<1>8. Bounded'
  BY <1>1, <1>7 DEF IInv, Bounded
<1>9. EventsTyped' /\ Numbered'
  BY <1>1 DEF IInv, Typed, EventsTyped, Numbered
<1>10. RulesTyped' /\ ProcessTyped' /\ DrainTyped' /\ WireTyped' /\ AnswersTyped' /\ Stopped'
  BY <1>1 DEF IInv, Typed, RulesTyped, ProcessTyped, DrainTyped, WireTyped, AnswersTyped,
     Stopped, NoWire
<1> QED
  BY <1>6, <1>7, <1>8, <1>9, <1>10 DEF IInv, Typed

(***************************************************************************)
(* Rules                                                                   *)
(***************************************************************************)

\* The fields of a rule.
LEMMA RuleParts ==
    ASSUME IInv, NEW r \in Rules
    PROVE  /\ rule[r] \in Rule /\ rule[r].revision \in 0..MaxRevision
           /\ rule[r].after \in Nat /\ rule[r].failures \in 0..SuspendAfter
           /\ rule[r].active \in BOOLEAN /\ rule[r].suspended \in BOOLEAN
  BY BoundsAssumption DEF IInv, Typed, RulesTyped, Rule

\* A save or a deletion: the rule's rows are gone, and it hears of later events only.
Saved(r, x) ==
    /\ rule' = [rule EXCEPT ![r] = x]
    /\ x.state = "live" => x.after = Latest
    /\ x.state # "new" /\ x.after \in 0..last
    /\ UNCHANGED Outside

\* A save and a deletion keep the invariant.
LEMMA SavedRule ==
    ASSUME IInv, NEW r \in Rules, NEW x \in Rule, Saved(r, x), NEW D, Deleted(D),
           \A k \in Keys : IF k[1] = r THEN k \in D \/ row[k].status = "none" ELSE k \notin D
    PROVE  IInv'
<1>1. \A q \in Rules : rule'[q] = IF q = r THEN x ELSE rule[q]
  BY DEF Saved, IInv, Typed, RulesTyped
<1>2. /\ stored' = stored /\ last' = last /\ matches' = matches /\ phase' = phase
      /\ timer' = timer /\ drain' = drain /\ wire' = wire /\ answers' = answers
      /\ exits' = exits
  BY DEF Saved, Outside
<1>3. Latest \in 0..last /\ last \in Nat /\ (\A e \in stored : e \in Nat /\ e <= Latest)
  <2>1. last \in Nat /\ stored \subseteq Nat
    BY BoundsAssumption DEF IInv, Typed, EventsTyped, Numbered
  <2> QED
    BY <2>1, LatestIsStored
<1>4. \A k \in Keys : Enqueueable(k)' => Enqueueable(k) /\ (k \in D => k[2] > last)
  <2> SUFFICES ASSUME NEW k \in Keys, Enqueueable(k)'
               PROVE  Enqueueable(k) /\ (k \in D => k[2] > last)
    OBVIOUS
  <2>1. CASE k[1] = r
    <3>1. x.state = "live" => ~(k[2] \in stored /\ k[2] > x.after)
      BY <1>3, KeyParts DEF Saved
    <3> QED
      BY <1>1, <1>2, <2>1, <3>1 DEF Enqueueable
  <2>2. CASE k[1] # r
    BY <1>1, <1>2, <2>2, KeyParts DEF Enqueueable
  <2> QED
    BY <2>1, <2>2
<1>5. Counted' /\ Listed' /\ Sending'
  BY <1>2, <1>4, DeletedCounted
<1>6. RowsTyped' /\ (\A k \in Keys : row'[k].status # "none" => k \notin D /\ row'[k] = row[k])
  BY DeletedRows
<1>7. Bounded'
  BY <1>1, <1>2, <1>6, KeyParts DEF IInv, Bounded
<1>8. RulesTyped'
  BY DEF Saved, IInv, Typed, RulesTyped
<1>9. Numbered'
  <2>1. x.after <= last /\ x.state # "new"
    BY <1>3 DEF Saved
  <2> QED
    BY <1>1, <1>2, <2>1 DEF IInv, Numbered
<1>10. /\ EventsTyped' /\ ProcessTyped' /\ DrainTyped' /\ WireTyped' /\ AnswersTyped'
       /\ Stopped'
  BY <1>2 DEF IInv, Typed, EventsTyped, ProcessTyped, DrainTyped, WireTyped, AnswersTyped,
     Stopped, NoWire
<1> QED
  BY <1>5, <1>6, <1>7, <1>8, <1>9, <1>10 DEF IInv, Typed

LEMMA NewRuleIsTyped ==
    ASSUME IInv, NEW n \in 0..MaxRevision, NEW active \in BOOLEAN
    PROVE  /\ NewRule(n, active) \in Rule /\ NewRule(n, active).state = "live"
           /\ NewRule(n, active).after = Latest /\ Latest \in 0..last
<1>1. Latest \in 0..MaxEvents
  <2>1. last \in 0..MaxEvents
    BY DEF IInv, Typed, EventsTyped
  <2> QED
    BY <2>1, LatestIsStored, BoundsAssumption
<1> QED
  BY <1>1, LatestIsStored, BoundsAssumption DEF NewRule, Rule

LEMMA CreateRuleInv ==
    ASSUME IInv, NEW r \in Rules, NEW active \in BOOLEAN, CreateRule(r, active)
    PROVE  IInv'
<1> DEFINE x == NewRule(1, active)
<1>1. 1 \in 0..MaxRevision
  BY BoundsAssumption DEF CreateRule
<1>2. x \in Rule /\ x.state = "live" /\ x.after = Latest /\ Latest \in 0..last
  BY <1>1, NewRuleIsTyped
<1>3. /\ rule[r].state = "new" /\ rule' = [rule EXCEPT ![r] = x] /\ row' = row
      /\ UNCHANGED Outside
  BY DEF CreateRule
<1> HIDE DEF x
<1>4. Saved(r, x)
  BY <1>2, <1>3 DEF Saved
<1>5. \A k \in Keys : k[1] = r => row[k].status = "none"
  BY <1>3 DEF IInv, Bounded
<1>6. Deleted({})
  BY <1>3 DEF Deleted, IInv, Typed, RowsTyped
<1> QED
  BY <1>2, <1>4, <1>5, <1>6, SavedRule

LEMMA UpdateRuleInv ==
    ASSUME IInv, NEW r \in Rules, NEW active \in BOOLEAN, UpdateRule(r, active)
    PROVE  IInv'
<1> DEFINE x == NewRule(rule[r].revision + 1, active)
<1>1. rule[r].revision + 1 \in 0..MaxRevision
  BY RuleParts, BoundsAssumption DEF UpdateRule
<1>2. x \in Rule /\ x.state = "live" /\ x.after = Latest /\ Latest \in 0..last
  BY <1>1, NewRuleIsTyped
<1>3. /\ rule' = [rule EXCEPT ![r] = x] /\ row' = WithoutRowsOf(r) /\ UNCHANGED Outside
  BY DEF UpdateRule
<1> HIDE DEF x
<1>4. Saved(r, x)
  BY <1>2, <1>3 DEF Saved
<1> DEFINE D == {k \in Keys : k[1] = r}
<1>5. Deleted(D)
  BY <1>3 DEF Deleted, WithoutRowsOf
<1> QED
  BY <1>2, <1>4, <1>5, SavedRule

LEMMA DeleteRuleInv ==
    ASSUME IInv, NEW r \in Rules, DeleteRule(r)
    PROVE  IInv'
<1> DEFINE x == [rule[r] EXCEPT !.state = "gone", !.active = FALSE]
           D == {k \in Keys : k[1] = r}
<1>1. Saved(r, x)
  <2>1. rule' = [rule EXCEPT ![r] = x] /\ UNCHANGED Outside
    BY DEF DeleteRule
  <2>2. rule[r].after \in 0..last
    BY RuleParts, BoundsAssumption DEF IInv, Typed, EventsTyped, Numbered
  <2> QED
    BY <2>1, <2>2, RuleParts DEF Saved, Rule
<1>2. x \in Rule
  BY RuleParts DEF Rule
<1>3. Deleted(D)
  BY DEF DeleteRule, Deleted, WithoutRowsOf
<1> HIDE DEF x
<1> QED
  BY <1>1, <1>2, <1>3, SavedRule

(***************************************************************************)
(* The drain                                                               *)
(***************************************************************************)

\* The rows of a new drain are open; the webhook of one under way is not among them.
LEMMA TimerFiresInv ==
    ASSUME IInv, TimerFires
    PROVE  IInv'
<1>1. /\ rule' = rule /\ stored' = stored /\ last' = last /\ matches' = matches
      /\ row' = row /\ phase' = phase /\ wire' = wire /\ answers' = answers
      /\ exits' = exits /\ timer' = FALSE /\ phase = "up"
  BY DEF TimerFires
<1>2. \/ drain.on /\ drain' = drain
      \/ ~drain.on /\ \E L \in SUBSET Due : drain' = [on |-> TRUE, list |-> L]
  BY DEF TimerFires
<1>3. /\ RulesTyped' /\ EventsTyped' /\ RowsTyped' /\ AnswersTyped' /\ Numbered' /\ Bounded'
      /\ Counted'
  BY <1>1 DEF IInv, Typed, RulesTyped, EventsTyped, RowsTyped, AnswersTyped, Numbered,
     Bounded, Counted, Enqueueable
<1>4. ProcessTyped'
  BY <1>1 DEF IInv, Typed, ProcessTyped
<1>5. CASE drain.on /\ drain' = drain
  <2>1. DrainTyped' /\ WireTyped' /\ Stopped'
    BY <1>1, <1>5 DEF IInv, Typed, DrainTyped, WireTyped, Stopped, NoWire
  <2>2. Listed'
    BY <1>1, <1>5 DEF IInv, Listed
  <2>3. Sending'
    BY <1>1, <1>5 DEF IInv, Sending, K, NoWire, Enqueueable
  <2> QED
    BY <1>3, <1>4, <2>1, <2>2, <2>3 DEF IInv, Typed
<1>6. CASE ~drain.on
  <2>1. PICK L \in SUBSET Due : drain' = [on |-> TRUE, list |-> L]
    BY <1>2, <1>6
  <2>2. wire = NoWire /\ wire' = NoWire
    BY <1>1, <1>6 DEF IInv, Typed, WireTyped
  <2>3. DrainTyped'
    BY <2>1 DEF DrainTyped, Due
  <2>4. WireTyped' /\ Sending'
    BY <2>2 DEF WireTyped, Sending, NoWire
  <2>5. Listed'
    BY <1>1, <2>1 DEF Listed, Due
  <2>6. Stopped'
    BY <1>1 DEF Stopped
  <2> QED
    BY <1>3, <1>4, <2>3, <2>4, <2>5, <2>6 DEF IInv, Typed
<1> QED
  BY <1>2, <1>5, <1>6

\* Deliver gives a row up, puts it off, or sends it as it was read.
DeliverRow(k, x) ==
    /\ x.status \in {"failed", "retry"} /\ x.attempts = row[k].attempts
    /\ x.revision = row[k].revision /\ (Open(x) <=> x.next # "never")
    /\ row[k].status # "none" /\ row' = [row EXCEPT ![k] = x] /\ wire' = wire

LEMMA DeliverSteps ==
    ASSUME IInv, NEW k \in Keys, Deliver(k)
    PROVE  \/ row' = row /\ wire' = wire
           \/ \E x \in Row : DeliverRow(k, x)
           \/ /\ row[k].status # "none" /\ row' = row
              /\ wire' = [key |-> k, revision |-> row[k].revision,
                          attempts |-> row[k].attempts]
<1>1. row[k] \in Row /\ row \in [Keys -> Row]
  BY DEF IInv, Typed, RowsTyped
<1>2. CASE row[k].status = "none"
  BY <1>2 DEF Deliver
<1>3. CASE row[k].status # "none" /\ ~Deliverable(k)
  <2> DEFINE x == [row[k] EXCEPT !.status = "failed", !.next = "never"]
  <2>1. row' = [row EXCEPT ![k] = x] /\ wire' = wire
    BY <1>1, <1>3 DEF Deliver
  <2>2. x \in Row /\ x.status = "failed" /\ x.attempts = row[k].attempts /\ x.next = "never"
        /\ x.revision = row[k].revision /\ ~Open(x)
    BY <1>1 DEF Row, Open
  <2> HIDE DEF x
  <2>3. DeliverRow(k, x)
    BY <1>3, <2>1, <2>2 DEF DeliverRow
  <2> QED
    BY <2>2, <2>3
<1>4. CASE row[k].status # "none" /\ Deliverable(k) /\ rule[k[1]].suspended
  <2> DEFINE x == [row[k] EXCEPT !.status = "retry", !.next = "suspension"]
  <2>1. row' = [row EXCEPT ![k] = x] /\ wire' = wire
    BY <1>1, <1>4 DEF Deliver
  <2>2. x \in Row /\ x.status = "retry" /\ x.attempts = row[k].attempts
        /\ x.next = "suspension" /\ x.revision = row[k].revision /\ Open(x)
    BY <1>1 DEF Row, Open
  <2> HIDE DEF x
  <2>3. DeliverRow(k, x)
    BY <1>4, <2>1, <2>2 DEF DeliverRow
  <2> QED
    BY <2>2, <2>3
<1>5. CASE row[k].status # "none" /\ Deliverable(k) /\ ~rule[k[1]].suspended
  BY <1>5 DEF Deliver
<1> QED
  BY <1>2, <1>3, <1>4, <1>5

LEMMA DeliverInv ==
    ASSUME IInv, NEW k \in Keys, Deliver(k)
    PROVE  IInv'
<1>1. /\ rule' = rule /\ stored' = stored /\ last' = last /\ matches' = matches
      /\ phase' = phase /\ timer' = timer /\ answers' = answers /\ exits' = exits
      /\ phase = "up" /\ drain.on /\ wire = NoWire /\ k \in drain.list
      /\ drain' = [drain EXCEPT !.list = @ \ {k}]
  BY DEF Deliver
<1>2. drain'.on /\ drain'.list = drain.list \ {k} /\ DrainTyped' /\ drain.list \subseteq Keys
  BY <1>1 DEF IInv, Typed, DrainTyped
<1>3. RulesTyped' /\ EventsTyped' /\ AnswersTyped' /\ Numbered' /\ ProcessTyped' /\ Stopped'
  BY <1>1 DEF IInv, Typed, RulesTyped, EventsTyped, AnswersTyped, Numbered, ProcessTyped,
     Stopped
<1>4. row[k].status # "none" =>
        /\ Open(row[k]) /\ row[k].attempts < MaxAttempts
        /\ answers[k] = [count |-> row[k].attempts, done |-> FALSE]
  BY <1>1 DEF IInv, Listed, Counted, Open
<1>5. row \in [Keys -> Row] /\ row[k] \in Row
  BY DEF IInv, Typed, RowsTyped
<1>6. CASE row' = row /\ wire' = wire
  <2>1. RowsTyped' /\ WireTyped' /\ Bounded' /\ Counted'
    BY <1>1, <1>2, <1>6 DEF IInv, Typed, RowsTyped, WireTyped, Bounded, Counted, Enqueueable,
       NoWire
  <2>2. Listed' /\ Sending'
    BY <1>1, <1>2, <1>6 DEF IInv, Listed, Sending, NoWire
  <2> QED
    BY <1>2, <1>3, <2>1, <2>2 DEF IInv, Typed
<1>7. ASSUME NEW x \in Row, DeliverRow(k, x) PROVE IInv'
  <2>1. \A j \in Keys : row'[j] = IF j = k THEN x ELSE row[j]
    BY <1>5, <1>7 DEF DeliverRow
  <2>2. /\ x.status \in {"failed", "retry"} /\ x.attempts = row[k].attempts
        /\ x.revision = row[k].revision /\ (Open(x) <=> x.next # "never")
        /\ row[k].status # "none" /\ wire' = NoWire
    BY <1>1, <1>7 DEF DeliverRow
  <2>3. row' \in [Keys -> Row]
    BY <1>5, <1>7 DEF DeliverRow
  <2>4. RowsTyped'
    BY <2>1, <2>2, <2>3 DEF IInv, Typed, RowsTyped
  <2>5. WireTyped' /\ Sending'
    BY <1>1, <2>2 DEF WireTyped, Sending, NoWire
  <2>6. Bounded'
    BY <1>1, <2>1, <2>2 DEF IInv, Bounded
  <2>7. Listed'
    BY <1>2, <2>1 DEF IInv, Listed
  <2>8. Counted'
    <3>1. (x.status = "delivered") = FALSE /\ x.status # "none"
      BY <2>2
    <3>2. answers[k] = [count |-> x.attempts, done |-> x.status = "delivered"]
      BY <1>4, <2>2, <3>1
    <3> QED
      BY <1>1, <1>4, <2>1, <2>2, <3>1, <3>2 DEF IInv, Counted, Enqueueable
  <2> QED
    BY <1>2, <1>3, <2>4, <2>5, <2>6, <2>7, <2>8 DEF IInv, Typed
<1>8. CASE /\ row[k].status # "none" /\ row' = row
           /\ wire' = [key |-> k, revision |-> row[k].revision, attempts |-> row[k].attempts]
  <2>1. RowsTyped' /\ Bounded' /\ Counted'
    BY <1>1, <1>8 DEF IInv, Typed, RowsTyped, Bounded, Counted, Enqueueable
  <2>2. Listed'
    BY <1>2, <1>8 DEF IInv, Listed
  <2>3. WireTyped'
    <3>1. row[k].revision \in 0..MaxRevision /\ row[k].attempts \in 0..(MaxAttempts - 1)
      BY <1>4, <1>5, <1>8, BoundsAssumption DEF Row
    <3> QED
      BY <1>2, <1>8, <3>1 DEF WireTyped
  <2>4. Sending'
    BY <1>2, <1>4, <1>8 DEF Sending, K
  <2> QED
    BY <1>2, <1>3, <2>1, <2>2, <2>3, <2>4 DEF IInv, Typed
<1> QED
  BY <1>6, <1>7, <1>8, DeliverSteps

\* No webhook is on the wire, and the drain is over.
LEMMA DrainEndsInv ==
    ASSUME IInv, EndDrain \/ DrainFails
    PROVE  IInv'
<1>1. /\ rule' = rule /\ stored' = stored /\ last' = last /\ matches' = matches
      /\ row' = row /\ phase' = phase /\ answers' = answers /\ exits' = exits
      /\ wire = NoWire /\ wire' = wire /\ drain' = NoDrain
  BY DEF EndDrain, DrainFails
<1>2. timer' \in BOOLEAN
  BY DEF EndDrain, DrainFails, Rearmed, IInv, Typed, ProcessTyped
<1>3. /\ RulesTyped' /\ EventsTyped' /\ RowsTyped' /\ AnswersTyped' /\ Numbered' /\ Bounded'
      /\ Counted'
  BY <1>1 DEF IInv, Typed, RulesTyped, EventsTyped, RowsTyped, AnswersTyped, Numbered,
     Bounded, Counted, Enqueueable
<1>4. ProcessTyped'
  BY <1>1, <1>2 DEF IInv, Typed, ProcessTyped
<1>5. DrainTyped' /\ WireTyped' /\ Listed' /\ Sending' /\ Stopped'
  BY <1>1 DEF IInv, DrainTyped, WireTyped, Listed, Sending, Stopped, NoWire, NoDrain
<1> QED
  BY <1>3, <1>4, <1>5 DEF IInv, Typed

(***************************************************************************)
(* The answer                                                              *)
(***************************************************************************)

\* An answer counts once, on the row that was sent: x is what becomes of it.
AnswerRow(x) ==
    /\ row[K].status # "none" /\ row' = [row EXCEPT ![K] = x]
    /\ x.status \in {"delivered", "failed", "retry"} /\ x.revision = row[K].revision
    /\ x.attempts = row[K].attempts + 1 /\ (Open(x) <=> x.next # "never")
    /\ Open(x) => x.attempts < MaxAttempts
    /\ answers' = [answers EXCEPT ![K] = [count |-> x.attempts,
                                          done |-> x.status = "delivered"]]

\* The row of the webhook on the wire is as it was read, if it is there.
LEMMA SentRow ==
    ASSUME IInv, wire # NoWire
    PROVE  /\ K \in Keys /\ row[K] \in Row /\ row \in [Keys -> Row]
           /\ Attempts \in Nat /\ Attempts <= MaxAttempts
           /\ SameRow <=> row[K].status # "none"
           /\ SameRow => /\ Open(row[K]) /\ Attempts = row[K].attempts + 1
                         /\ answers[K] = [count |-> row[K].attempts, done |-> FALSE]
<1>1. K \in Keys /\ wire.attempts \in Nat /\ wire.attempts < MaxAttempts
  BY OnWire DEF IInv, Typed
<1>2. row \in [Keys -> Row]
  BY DEF IInv, Typed, RowsTyped
<1>3. row[K].status # "none" =>
        Open(row[K]) /\ row[K].revision = wire.revision /\ row[K].attempts = wire.attempts
  BY DEF IInv, Sending
<1>4. SameRow <=> row[K].status # "none"
  BY <1>3 DEF SameRow
<1>5. row[K].status # "none" =>
        answers[K] = [count |-> row[K].attempts, done |-> row[K].status = "delivered"]
  BY <1>1 DEF IInv, Counted
<1>6. Open(row[K]) => (row[K].status = "delivered") = FALSE
  BY DEF Open
<1>7. Open(row[K]) /\ row[K].status # "none" =>
        answers[K] = [count |-> row[K].attempts, done |-> FALSE]
  BY <1>5, <1>6
<1>8. row[K] \in Row
  BY <1>1, <1>2
<1>9. Attempts \in Nat /\ Attempts <= MaxAttempts /\ Attempts = wire.attempts + 1
  BY <1>1, BoundsAssumption DEF Attempts
<1>10. row[K].status # "none" => Attempts = row[K].attempts + 1
  BY <1>3, <1>9
<1> QED
  BY <1>1, <1>2, <1>3, <1>4, <1>7, <1>8, <1>9, <1>10

LEMMA DeliveredRow ==
    ASSUME IInv, wire # NoWire, RowDelivered, Answered(TRUE)
    PROVE  (row' = row /\ answers' = answers) \/ \E x \in Row : AnswerRow(x)
<1>1. CASE ~SameRow
  BY <1>1 DEF RowDelivered, Answered
<1>2. CASE SameRow
  <2> DEFINE x == [row[K] EXCEPT !.status = "delivered", !.attempts = Attempts,
                                 !.next = "never"]
  <2>1. row' = [row EXCEPT ![K] = x]
    BY <1>2 DEF RowDelivered
  <2>2. /\ x \in Row /\ x.status = "delivered" /\ x.attempts = row[K].attempts + 1
        /\ x.next = "never" /\ x.revision = row[K].revision /\ ~Open(x)
    <3>1. /\ row[K] \in Row /\ Attempts \in Nat /\ Attempts <= MaxAttempts
          /\ Attempts = row[K].attempts + 1
      BY <1>2, SentRow
    <3>2. Attempts \in 0..MaxAttempts
      BY <3>1, BoundsAssumption
    <3>3. x \in Row
      BY <3>1, <3>2 DEF Row
    <3> QED
      BY <3>1, <3>3 DEF Row, Open
  <2> HIDE DEF x
  <2>3. row'[K] = x /\ x # row[K]
    BY <1>2, <2>1, <2>2, SentRow
  <2>4. answers' = [answers EXCEPT ![K] = [count |-> answers[K].count + 1, done |-> TRUE]]
    BY <2>3 DEF Answered
  <2>5. (x.status = "delivered") = TRUE
    BY <2>2
  <2>6. answers' = [answers EXCEPT ![K] = [count |-> x.attempts,
                                           done |-> x.status = "delivered"]]
    <3>1. answers[K].count + 1 = x.attempts
      BY <1>2, <2>2, SentRow
    <3> QED
      BY <2>4, <2>5, <3>1
  <2>7. AnswerRow(x)
    BY <1>2, <2>1, <2>2, <2>6, SentRow DEF AnswerRow
  <2> QED
    BY <2>2, <2>7
<1> QED
  BY <1>1, <1>2

LEMMA FailedRow ==
    ASSUME IInv, wire # NoWire, RowFailed, Answered(FALSE)
    PROVE  (row' = row /\ answers' = answers) \/ \E x \in Row : AnswerRow(x)
<1>1. CASE ~(Current /\ SameRow)
  BY <1>1 DEF RowFailed, Answered
<1>2. CASE Current /\ SameRow
  <2>1. PICK x \in Row :
          /\ row' = [row EXCEPT ![K] = x] /\ x.status \in {"failed", "retry"}
          /\ x.attempts = row[K].attempts + 1 /\ x.revision = row[K].revision
          /\ Open(x) <=> x.next # "never"
          /\ Open(x) => x.attempts < MaxAttempts
    <3>1. CASE Terminal
      <4> DEFINE x == [row[K] EXCEPT !.status = "failed", !.attempts = Attempts,
                                     !.next = "never"]
      <4>1. row' = [row EXCEPT ![K] = x]
        BY <1>2, <3>1 DEF RowFailed
      <4>2. /\ x \in Row /\ x.status = "failed" /\ x.attempts = row[K].attempts + 1
            /\ x.next = "never" /\ x.revision = row[K].revision /\ ~Open(x)
        <5>1. /\ row[K] \in Row /\ Attempts \in Nat /\ Attempts <= MaxAttempts
              /\ Attempts = row[K].attempts + 1
          BY <1>2, SentRow
        <5>2. Attempts \in 0..MaxAttempts
          BY <5>1, BoundsAssumption
        <5>3. x \in Row
          BY <5>1, <5>2 DEF Row
        <5> QED
          BY <5>1, <5>3 DEF Row, Open
      <4> HIDE DEF x
      <4> QED
        BY <4>1, <4>2
    <3>2. CASE ~Terminal
      <4> DEFINE x == [row[K] EXCEPT !.status = "retry", !.attempts = Attempts,
                                     !.next = "backoff"]
      <4>1. row' = [row EXCEPT ![K] = x]
        BY <1>2, <3>2 DEF RowFailed
      <4>2. /\ x \in Row /\ x.status = "retry" /\ x.attempts = row[K].attempts + 1
            /\ x.next = "backoff" /\ x.revision = row[K].revision /\ Open(x)
        <5>1. /\ row[K] \in Row /\ Attempts \in Nat /\ Attempts <= MaxAttempts
              /\ Attempts = row[K].attempts + 1
          BY <1>2, SentRow
        <5>2. Attempts \in 0..MaxAttempts
          BY <5>1, BoundsAssumption
        <5>3. x \in Row
          BY <5>1, <5>2 DEF Row
        <5> QED
          BY <5>1, <5>3 DEF Row, Open
      <4>3. row[K].attempts + 1 < MaxAttempts
        BY <1>2, <3>2, SentRow, BoundsAssumption DEF Terminal
      <4> HIDE DEF x
      <4> QED
        BY <4>1, <4>2, <4>3
    <3> QED
      BY <3>1, <3>2
  <2>2. row'[K] = x /\ row[K].attempts \in Nat
    BY <2>1, SentRow, BoundsAssumption DEF Row
  <2>3. row' # row
    BY <2>1, <2>2
  <2>4. answers' = [answers EXCEPT ![K] = [count |-> answers[K].count + 1, done |-> FALSE]]
    BY <2>3 DEF Answered
  <2>5. (x.status = "delivered") = FALSE
    BY <2>1
  <2>6. answers' = [answers EXCEPT ![K] = [count |-> x.attempts,
                                           done |-> x.status = "delivered"]]
    <3>1. answers[K].count + 1 = x.attempts
      BY <1>2, <2>1, SentRow
    <3> QED
      BY <2>4, <2>5, <3>1
  <2>7. AnswerRow(x)
    BY <1>2, <2>1, <2>6, SentRow DEF AnswerRow
  <2> QED
    BY <2>7
<1> QED
  BY <1>1, <1>2

\* What an answer leaves of rules: their edits.
SameEdits ==
    \A r \in Rules : rule'[r].state = rule[r].state /\ rule'[r].after = rule[r].after
                     /\ rule'[r].revision = rule[r].revision

\* An answer keeps the counts, the list and the boundary, whatever it does to the health.
LEMMA AnswerKeeps ==
    ASSUME IInv, wire # NoWire, SameEdits, stored' = stored, last' = last,
           (row' = row /\ answers' = answers) \/ \E x \in Row : AnswerRow(x)
    PROVE  /\ RowsTyped' /\ AnswersTyped' /\ Numbered' /\ Bounded' /\ Counted'
           /\ drain' = drain => Listed'
<1>1. \A k \in Keys : Enqueueable(k)' <=> Enqueueable(k)
  BY KeyParts DEF SameEdits, Enqueueable
<1>2. Numbered'
  BY DEF SameEdits, IInv, Numbered
<1>3. CASE row' = row /\ answers' = answers
  <2>1. RowsTyped' /\ AnswersTyped' /\ (drain' = drain => Listed')
    BY <1>3 DEF IInv, Typed, RowsTyped, AnswersTyped, Listed
  <2>2. Bounded'
    BY <1>3, KeyParts DEF SameEdits, IInv, Bounded
  <2>3. Counted'
    BY <1>1, <1>3 DEF IInv, Counted
  <2> QED
    BY <1>2, <2>1, <2>2, <2>3
<1>4. ASSUME NEW x \in Row, AnswerRow(x)
      PROVE  RowsTyped' /\ AnswersTyped' /\ Bounded' /\ Counted' /\ (drain' = drain => Listed')
  <2>1. K \in Keys /\ row \in [Keys -> Row]
    BY SentRow
  <2>2. /\ x.status # "none" /\ (Open(x) <=> x.next # "never") /\ x.revision = row[K].revision
        /\ Open(x) => x.attempts < MaxAttempts
        /\ row[K].status # "none"
    BY <1>4 DEF AnswerRow
  <2>3. \A j \in Keys : row'[j] = IF j = K THEN x ELSE row[j]
    BY <1>4, <2>1 DEF AnswerRow
  <2>4. RowsTyped'
    <3>1. row' \in [Keys -> Row]
      BY <1>4, <2>1 DEF AnswerRow
    <3> QED
      BY <2>2, <2>3, <3>1 DEF IInv, Typed, RowsTyped
  <2>5. Bounded'
    BY <2>2, <2>3, KeyParts DEF SameEdits, IInv, Bounded
  <2> DEFINE a == [count |-> x.attempts, done |-> x.status = "delivered"]
  <2>6. a \in [count : 0..MaxAttempts, done : BOOLEAN]
    BY BoundsAssumption DEF Row
  <2>7. answers' = [answers EXCEPT ![K] = a]
    BY <1>4 DEF AnswerRow
  <2>8. AnswersTyped'
    BY <2>6, <2>7 DEF IInv, Typed, AnswersTyped
  <2>9. \A j \in Keys : answers'[j] = IF j = K THEN a ELSE answers[j]
    BY <2>1, <2>7 DEF IInv, Typed, AnswersTyped
  <2>10. Counted'
    BY <1>1, <2>2, <2>3, <2>9 DEF IInv, Counted
  <2>11. drain' = drain => Listed'
    <3>1. K \notin drain.list /\ drain.list \subseteq Keys
      BY DEF IInv, Sending, Typed, DrainTyped
    <3> QED
      BY <2>3, <3>1 DEF IInv, Listed
  <2> QED
    BY <2>4, <2>5, <2>8, <2>10, <2>11
<1> QED
  BY <1>2, <1>3, <1>4

LEMMA AnswerInv ==
    ASSUME IInv, WebhookAccepted \/ WebhookFails
    PROVE  IInv'
<1>1. /\ wire # NoWire /\ wire' = NoWire
      /\ UNCHANGED <<stored, last, matches, phase, timer, drain, exits>>
  BY DEF WebhookAccepted, WebhookFails, Answered
<1>2. (row' = row /\ answers' = answers) \/ \E x \in Row : AnswerRow(x)
  BY <1>1, DeliveredRow, FailedRow DEF WebhookAccepted, WebhookFails
<1>3. K[1] \in Rules /\ rule[K[1]] \in Rule /\ rule[K[1]].failures \in Nat
  BY <1>1, OnWire, RuleParts, BoundsAssumption DEF IInv, Typed
<1>4. \/ rule' = rule
      \/ \E n \in 0..SuspendAfter : \E b \in BOOLEAN :
            rule' = [rule EXCEPT ![K[1]] = [@ EXCEPT !.failures = n, !.suspended = b]]
  <2>1. CASE WebhookAccepted
    <3>1. rule' = rule \/ rule' = [rule EXCEPT ![K[1]] =
                                      [@ EXCEPT !.failures = 0, !.suspended = FALSE]]
      BY <2>1 DEF WebhookAccepted, RuleDelivered
    <3>2. 0 \in 0..SuspendAfter /\ FALSE \in BOOLEAN
      BY BoundsAssumption
    <3> QED
      BY <3>1, <3>2
  <2>2. CASE WebhookFails
    <3> DEFINE n == Min({rule[K[1]].failures + 1, SuspendAfter})
    <3>1. n \in 0..SuspendAfter
      BY <1>3, FailuresAreCapped
    <3>2. rule' = rule \/ rule' = [rule EXCEPT ![K[1]] =
                            [@ EXCEPT !.failures = n, !.suspended = n >= SuspendAfter]]
      BY <2>2 DEF WebhookFails, RuleFailed
    <3> HIDE DEF n
    <3>3. (n >= SuspendAfter) \in BOOLEAN
      OBVIOUS
    <3> QED
      BY <3>1, <3>2, <3>3
  <2> QED
    BY <2>1, <2>2
<1>5. RulesTyped' /\ SameEdits
  <2>1. CASE rule' = rule
    BY <2>1 DEF IInv, Typed, RulesTyped, SameEdits
  <2>2. ASSUME NEW n \in 0..SuspendAfter, NEW b \in BOOLEAN,
               rule' = [rule EXCEPT ![K[1]] = [@ EXCEPT !.failures = n, !.suspended = b]]
        PROVE  RulesTyped' /\ SameEdits
    <3> DEFINE x == [rule[K[1]] EXCEPT !.failures = n, !.suspended = b]
    <3>1. /\ x \in Rule /\ x.state = rule[K[1]].state /\ x.after = rule[K[1]].after
          /\ x.revision = rule[K[1]].revision
      BY <1>3 DEF Rule
    <3>2. rule' = [rule EXCEPT ![K[1]] = x] /\ rule \in [Rules -> Rule]
      BY <2>2 DEF IInv, Typed, RulesTyped
    <3> HIDE DEF x
    <3> QED
      BY <1>3, <3>1, <3>2 DEF RulesTyped, SameEdits
  <2> QED
    BY <1>4, <2>1, <2>2
<1>6. RowsTyped' /\ AnswersTyped' /\ Numbered' /\ Bounded' /\ Counted' /\ Listed'
  BY <1>1, <1>2, <1>5, AnswerKeeps
<1>7. EventsTyped' /\ ProcessTyped' /\ DrainTyped' /\ WireTyped' /\ Sending' /\ Stopped'
  BY <1>1 DEF IInv, Typed, EventsTyped, ProcessTyped, DrainTyped, WireTyped, Sending, Stopped,
     NoWire
<1> QED
  BY <1>5, <1>6, <1>7 DEF IInv, Typed

\* What is left of an answer whose writing breaks off.
LEMMA HalfAnsweredKeeps ==
    ASSUME IInv, wire # NoWire, HalfAnswered, UNCHANGED <<rule, stored, last>>
    PROVE  /\ wire' = NoWire
           /\ RowsTyped' /\ AnswersTyped' /\ Numbered' /\ Bounded' /\ Counted'
<1>1. wire' = NoWire
  BY DEF HalfAnswered, Answered
<1>2. (row' = row /\ answers' = answers) \/ \E x \in Row : AnswerRow(x)
  <2>1. CASE row' = row /\ Answered(FALSE)
    BY <2>1 DEF Answered
  <2>2. CASE RowDelivered /\ Answered(TRUE)
    BY <2>2, DeliveredRow
  <2>3. CASE RowFailed /\ Answered(FALSE)
    BY <2>3, FailedRow
  <2> QED
    BY <2>1, <2>2, <2>3 DEF HalfAnswered
<1>3. RowsTyped' /\ AnswersTyped' /\ Numbered' /\ Bounded' /\ Counted'
  BY <1>2, AnswerKeeps DEF SameEdits
<1> QED
  BY <1>1, <1>3

LEMMA AnswerFailsInv ==
    ASSUME IInv, AnswerFails
    PROVE  IInv'
<1>1. /\ wire # NoWire /\ HalfAnswered /\ drain' = NoDrain
      /\ timer' = (timer \/ phase = "up")
      /\ rule' = rule /\ stored' = stored /\ last' = last /\ matches' = matches
      /\ phase' = phase /\ exits' = exits
  BY DEF AnswerFails
<1>2. /\ wire' = NoWire
      /\ RowsTyped' /\ AnswersTyped' /\ Numbered' /\ Bounded' /\ Counted'
  BY <1>1, HalfAnsweredKeeps
<1>3. RulesTyped' /\ EventsTyped'
  BY <1>1 DEF IInv, Typed, RulesTyped, EventsTyped
<1>4. ProcessTyped'
  <2>1. timer \in BOOLEAN /\ (phase = "up") \in BOOLEAN
    BY DEF IInv, Typed, ProcessTyped
  <2>2. timer' \in BOOLEAN
    BY <1>1, <2>1
  <2> QED
    BY <1>1, <2>2 DEF IInv, Typed, ProcessTyped
<1>5. DrainTyped' /\ WireTyped' /\ Listed' /\ Sending'
  BY <1>1, <1>2 DEF DrainTyped, WireTyped, Listed, Sending, NoWire, NoDrain
<1>6. Stopped'
  BY <1>1, <1>2 DEF IInv, Stopped, NoDrain
<1> QED
  BY <1>2, <1>3, <1>4, <1>5, <1>6 DEF IInv, Typed

LEMMA AnswerCutOffInv ==
    ASSUME IInv, AnswerCutOff
    PROVE  IInv'
<1>1. /\ MayCrash /\ wire # NoWire /\ HalfAnswered /\ phase' = "down" /\ timer' = FALSE
      /\ drain' = NoDrain /\ exits' = exits + 1
      /\ rule' = rule /\ stored' = stored /\ last' = last /\ matches' = matches
  BY DEF AnswerCutOff
<1>2. wire' = NoWire
  BY <1>1, HalfAnsweredKeeps
<1>3. RowsTyped' /\ AnswersTyped' /\ Numbered' /\ Bounded' /\ Counted'
  BY <1>1, HalfAnsweredKeeps
<1>4. RulesTyped' /\ EventsTyped'
  BY <1>1 DEF IInv, Typed, RulesTyped, EventsTyped
<1>5. exits + 1 \in 0..MaxExits
  BY <1>1, BoundsAssumption DEF MayCrash, IInv, Typed, ProcessTyped
<1>6. ProcessTyped' /\ DrainTyped' /\ WireTyped' /\ Listed' /\ Sending' /\ Stopped'
  BY <1>1, <1>2, <1>5 DEF ProcessTyped, DrainTyped, WireTyped, Listed, Sending, Stopped,
     NoWire, NoDrain
<1> QED
  BY <1>3, <1>4, <1>6 DEF IInv, Typed

LEMMA WebhookAbortedInv ==
    ASSUME IInv, WebhookAborted
    PROVE  IInv'
<1>1. /\ wire' = NoWire
      /\ UNCHANGED <<rule, stored, last, matches, row, phase, timer, drain, answers, exits>>
  BY DEF WebhookAborted
<1>2. /\ RulesTyped' /\ EventsTyped' /\ RowsTyped' /\ ProcessTyped' /\ DrainTyped'
      /\ AnswersTyped' /\ Numbered' /\ Bounded' /\ Counted' /\ Listed' /\ Stopped'
  BY <1>1 DEF IInv, Typed, RulesTyped, EventsTyped, RowsTyped, ProcessTyped, DrainTyped,
     AnswersTyped, Numbered, Bounded, Counted, Listed, Stopped, Enqueueable
<1>3. WireTyped' /\ Sending'
  BY <1>1 DEF WireTyped, Sending, NoWire
<1> QED
  BY <1>2, <1>3 DEF IInv, Typed

(***************************************************************************)
(* Time and the process                                                    *)
(***************************************************************************)

\* The rows W wait no longer, and are otherwise as they were.
Released(W) ==
    /\ W \subseteq Keys /\ \A k \in W : row[k].next \in {"backoff", "suspension"}
    /\ row' = [k \in Keys |-> IF k \in W THEN [row[k] EXCEPT !.next = "due"] ELSE row[k]]
    /\ SameEdits
    /\ UNCHANGED <<stored, last, matches, phase, timer, drain, wire, answers, exits>>

\* That rows become due keeps the invariant.
LEMMA ReleasedInv ==
    ASSUME IInv, NEW W, Released(W), RulesTyped'
    PROVE  IInv'
<1>1. row \in [Keys -> Row] /\ \A k \in Keys : Open(row[k]) <=> row[k].next # "never"
  BY DEF IInv, Typed, RowsTyped
<1>2. \A k \in Keys :
        /\ row'[k] \in Row /\ row'[k].status = row[k].status
        /\ row'[k].attempts = row[k].attempts /\ row'[k].revision = row[k].revision
        /\ (row'[k].next # "never") <=> (row[k].next # "never")
  <2> SUFFICES ASSUME NEW k \in Keys
               PROVE  /\ row'[k] \in Row /\ row'[k].status = row[k].status
                      /\ row'[k].attempts = row[k].attempts
                      /\ row'[k].revision = row[k].revision
                      /\ (row'[k].next # "never") <=> (row[k].next # "never")
    OBVIOUS
  <2>1. CASE k \in W
    <3>1. row'[k] = [row[k] EXCEPT !.next = "due"] /\ row[k].next # "never" /\ row[k] \in Row
      BY <1>1, <2>1 DEF Released
    <3> QED
      BY <3>1 DEF Row
  <2>2. CASE k \notin W
    <3>1. row'[k] = row[k] /\ row[k] \in Row
      BY <1>1, <2>2 DEF Released
    <3> QED
      BY <3>1
  <2> QED
    BY <2>1, <2>2
<1>3. \A k \in Keys : Open(row'[k]) <=> Open(row[k])
  BY <1>2 DEF Open
<1>4. RowsTyped'
  <2>1. row' = [k \in Keys |-> row'[k]]
    BY DEF Released
  <2>2. row' \in [Keys -> Row]
    BY <1>2, <2>1
  <2> QED
    BY <1>1, <1>2, <1>3, <2>2 DEF RowsTyped
<1>5. /\ stored' = stored /\ last' = last /\ drain' = drain /\ wire' = wire
      /\ answers' = answers
  BY DEF Released
<1>6. \A k \in Keys : Enqueueable(k)' <=> Enqueueable(k)
  BY <1>5, KeyParts DEF Released, SameEdits, Enqueueable
<1>7. Numbered'
  BY <1>5 DEF Released, SameEdits, IInv, Numbered
<1>8. Bounded'
  BY <1>2, <1>5, KeyParts DEF Released, SameEdits, IInv, Bounded
<1>9. Counted'
  BY <1>2, <1>3, <1>5, <1>6 DEF IInv, Counted
<1>10. Listed'
  BY <1>2, <1>3, <1>5 DEF IInv, Listed, Typed, DrainTyped
<1>11. Sending'
  <2>1. CASE wire = NoWire
    BY <1>5, <2>1 DEF Sending, NoWire
  <2>2. CASE wire # NoWire
    <3>1. K \in Keys /\ K' = K
      BY <1>5, <2>2, OnWire DEF IInv, Typed, K
    <3>2. /\ K \notin drain.list
          /\ IF row[K].status = "none" THEN ~Enqueueable(K)
             ELSE /\ Open(row[K]) /\ row[K].revision = wire.revision
                  /\ row[K].attempts = wire.attempts
      BY <2>2 DEF IInv, Sending
    <3> DEFINE k == K
    <3> HIDE DEF k
    <3>3. Enqueueable(k)' <=> Enqueueable(k)
      BY <1>6, <3>1 DEF k
    <3> QED
      BY <1>2, <1>3, <1>5, <3>1, <3>2, <3>3 DEF Sending, k
  <2> QED
    BY <2>1, <2>2
<1>12. EventsTyped' /\ ProcessTyped' /\ DrainTyped' /\ WireTyped' /\ AnswersTyped' /\ Stopped'
  BY DEF Released, IInv, Typed, EventsTyped, ProcessTyped, DrainTyped, WireTyped,
     AnswersTyped, Stopped, NoWire
<1> QED
  BY <1>4, <1>7, <1>8, <1>9, <1>10, <1>11, <1>12 DEF IInv, Typed

LEMMA BackoffEndsInv ==
    ASSUME IInv, NEW k \in Keys, BackoffEnds(k)
    PROVE  IInv'
<1>1. row \in [Keys -> Row]
  BY DEF IInv, Typed, RowsTyped
<1>2. row' = [j \in Keys |-> IF j \in {k} THEN [row[j] EXCEPT !.next = "due"] ELSE row[j]]
  BY <1>1 DEF BackoffEnds
<1>3. Released({k})
  BY <1>2 DEF BackoffEnds, Released, SameEdits
<1>4. RulesTyped'
  BY DEF BackoffEnds, IInv, Typed, RulesTyped
<1> QED
  BY <1>3, <1>4, ReleasedInv

LEMMA SuspensionEndsInv ==
    ASSUME IInv, NEW r \in Rules, SuspensionEnds(r)
    PROVE  IInv'
<1> DEFINE W == {k \in Keys : k[1] = r /\ row[k].next = "suspension"}
           x == [rule[r] EXCEPT !.suspended = FALSE]
<1>1. /\ x \in Rule /\ x.state = rule[r].state /\ x.after = rule[r].after
      /\ x.revision = rule[r].revision
  BY RuleParts DEF Rule
<1>2. rule' = [rule EXCEPT ![r] = x] /\ rule \in [Rules -> Rule]
  BY DEF SuspensionEnds, IInv, Typed, RulesTyped
<1>3. row' = [k \in Keys |-> IF k \in W THEN [row[k] EXCEPT !.next = "due"] ELSE row[k]]
  BY DEF SuspensionEnds
<1> HIDE DEF x
<1>4. RulesTyped' /\ SameEdits
  BY <1>1, <1>2 DEF RulesTyped, SameEdits
<1>5. Released(W)
  BY <1>3, <1>4 DEF SuspensionEnds, Released
<1> QED
  BY <1>4, <1>5, ReleasedInv

LEMMA StopInv ==
    ASSUME IInv, Stop
    PROVE  IInv'
<1>1. /\ phase' = "stopping" /\ timer' = FALSE /\ exits < MaxExits
      /\ rule' = rule /\ stored' = stored /\ last' = last /\ matches' = matches
      /\ row' = row /\ drain' = drain /\ wire' = wire /\ answers' = answers /\ exits' = exits
  BY DEF Stop
<1>2. /\ RulesTyped' /\ EventsTyped' /\ RowsTyped' /\ DrainTyped' /\ WireTyped'
      /\ AnswersTyped' /\ Numbered' /\ Bounded' /\ Counted' /\ Listed' /\ Sending'
  BY <1>1 DEF IInv, Typed, RulesTyped, EventsTyped, RowsTyped, DrainTyped, WireTyped,
     AnswersTyped, Numbered, Bounded, Counted, Listed, Sending, Enqueueable, NoWire, K
<1>3. ProcessTyped' /\ Stopped'
  BY <1>1 DEF IInv, Typed, ProcessTyped, Stopped
<1> QED
  BY <1>2, <1>3 DEF IInv, Typed

LEMMA DownInv ==
    ASSUME IInv, Exit \/ Crash
    PROVE  IInv'
<1>1. /\ Down /\ rule' = rule /\ stored' = stored /\ last' = last /\ matches' = matches
      /\ row' = row /\ answers' = answers
  BY DEF Exit, Crash
<1>2. exits < MaxExits
  BY DEF Exit, Crash, MayCrash, IInv, Stopped
<1>3. exits + 1 \in 0..MaxExits
  BY <1>2, BoundsAssumption DEF IInv, Typed, ProcessTyped
<1>4. /\ RulesTyped' /\ EventsTyped' /\ RowsTyped' /\ AnswersTyped' /\ Numbered' /\ Bounded'
      /\ Counted'
  BY <1>1 DEF IInv, Typed, RulesTyped, EventsTyped, RowsTyped, AnswersTyped, Numbered,
     Bounded, Counted, Enqueueable
<1>5. ProcessTyped' /\ DrainTyped' /\ WireTyped' /\ Listed' /\ Sending' /\ Stopped'
  BY <1>1, <1>3 DEF Down, ProcessTyped, DrainTyped, WireTyped, Listed, Sending, Stopped,
     NoWire, NoDrain
<1> QED
  BY <1>4, <1>5 DEF IInv, Typed

(***************************************************************************)
(* The theorems                                                            *)
(***************************************************************************)

LEMMA InitInv == Init => IInv
<1> SUFFICES ASSUME Init PROVE IInv
  OBVIOUS
<1>1. Numbered /\ Bounded /\ Listed /\ Sending /\ Stopped
  BY BoundsAssumption DEF Init, Numbered, Bounded, Listed, Sending, Stopped, NoRow, NoDrain
<1>2. Counted
  BY DEF Init, Counted, NoRow
<1>3. RulesTyped
  BY BoundsAssumption DEF Init, RulesTyped, Rule
<1>4. EventsTyped /\ ProcessTyped /\ DrainTyped /\ WireTyped
  <2>1. 0 \in 0..MaxEvents /\ 0 \in 0..MaxExits
    BY BoundsAssumption
  <2>2. EventsTyped
    BY <2>1 DEF Init, EventsTyped
  <2>3. ProcessTyped
    BY <2>1 DEF Init, ProcessTyped
  <2>4. DrainTyped
    BY DEF Init, DrainTyped, NoDrain
  <2>5. WireTyped
    BY DEF Init, WireTyped
  <2> QED
    BY <2>2, <2>3, <2>4, <2>5
<1>5. RowsTyped
  BY NoRowIsTyped DEF Init, RowsTyped
<1>6. AnswersTyped
  BY BoundsAssumption DEF Init, AnswersTyped
<1> QED
  BY <1>1, <1>2, <1>3, <1>4, <1>5, <1>6 DEF IInv, Typed

\* The invariant is inductive.
LEMMA NextInv == IInv /\ [Next]_vars => IInv'
<1> SUFFICES ASSUME IInv, [Next]_vars PROVE IInv'
  OBVIOUS
<1>1. CASE RecordEvent
  BY <1>1, RecordEventInv
<1>2. CASE CleanupRetainedEvents
  BY <1>2, CleanupRetainedEventsInv
<1>3. CASE Routes
  <2>1. PICK r \in Rules :
          \/ \E active \in BOOLEAN : CreateRule(r, active) \/ UpdateRule(r, active)
          \/ DeleteRule(r)
    BY <1>3 DEF Routes, UpsertBrowserRule
  <2> QED
    BY <2>1, CreateRuleInv, UpdateRuleInv, DeleteRuleInv
<1>4. CASE Dispatcher
  BY <1>4, TimerFiresInv, DeliverInv, DrainEndsInv, AnswerFailsInv DEF Dispatcher
<1>5. CASE Answer
  BY <1>5, AnswerInv, WebhookAbortedInv DEF Answer
<1>6. CASE Time
  BY <1>6, BackoffEndsInv, SuspensionEndsInv DEF Time
<1>7. CASE Process
  BY <1>7, StopInv, DownInv, RecordEventCutOffInv, AnswerCutOffInv, BootInv DEF Process
<1>8. CASE UNCHANGED vars
  BY <1>8 DEF vars, IInv, Typed, RulesTyped, EventsTyped, RowsTyped, ProcessTyped, DrainTyped,
     WireTyped, AnswersTyped, Numbered, Bounded, Counted, Listed, Sending, Stopped,
     Enqueueable, K, NoWire
<1> QED
  BY <1>1, <1>2, <1>3, <1>4, <1>5, <1>6, <1>7, <1>8 DEF Next

\* The invariant holds.
LEMMA Invariance == Spec => []IInv
<1> QED
  BY InitInv, NextInv, PTL DEF Spec

\* Rules, rows, the drain, the webhook on the wire and the history of answers have their
\* types; a row waits for a time if and only if it is open; only a drain sends.
THEOREM TypeCorrect == Spec => []TypeOK
<1>1. IInv => TypeOK
  BY DEF IInv, Typed, RulesTyped, EventsTyped, RowsTyped, ProcessTyped, DrainTyped,
     WireTyped, AnswersTyped, TypeOK
<1> QED
  BY <1>1, Invariance, PTL

\* An answer changes the health only of the rule as it was when the webhook was sent.
LEMMA HealthKept ==
    ASSUME IInv, Next, NEW r \in Rules,
           rule'[r].failures # rule[r].failures, rule'[r].revision = rule[r].revision
    PROVE  wire # NoWire /\ K[1] = r /\ wire.revision = rule[r].revision
<1>1. rule' # rule /\ rule \in [Rules -> Rule]
  BY DEF IInv, Typed, RulesTyped
<1>2. CASE RecordEvent \/ CleanupRetainedEvents \/ Dispatcher \/ Process
  BY <1>1, <1>2 DEF RecordEvent, CleanupRetainedEvents, Dispatcher, Process, TimerFires,
     Deliver, EndDrain, DrainFails, AnswerFails, Stop, Exit, Crash, RecordEventCutOff,
     AnswerCutOff, Boot
<1>3. CASE Routes
  <2>1. PICK q \in Rules :
          \/ \E active \in BOOLEAN : CreateRule(q, active) \/ UpdateRule(q, active)
          \/ DeleteRule(q)
    BY <1>3 DEF Routes, UpsertBrowserRule
  <2>2. ASSUME NEW active \in BOOLEAN, CreateRule(q, active) PROVE FALSE
    <3>1. rule' = [rule EXCEPT ![q] = NewRule(1, active)] /\ rule[q].revision = 0
      BY <2>2 DEF CreateRule, IInv, Numbered
    <3>2. NewRule(1, active).revision = 1
      BY DEF NewRule
    <3> QED
      BY <1>1, <3>1, <3>2
  <2>3. ASSUME NEW active \in BOOLEAN, UpdateRule(q, active) PROVE FALSE
    <3>1. rule' = [rule EXCEPT ![q] = NewRule(rule[q].revision + 1, active)]
      BY <2>3 DEF UpdateRule
    <3>2. NewRule(rule[q].revision + 1, active).revision = rule[q].revision + 1
      BY DEF NewRule
    <3>3. rule[q].revision \in Nat
      BY RuleParts, BoundsAssumption
    <3> QED
      BY <1>1, <3>1, <3>2, <3>3
  <2>4. ASSUME DeleteRule(q) PROVE FALSE
    BY <1>1, <2>4 DEF DeleteRule, Rule
  <2> QED
    BY <2>1, <2>2, <2>3, <2>4
<1>4. CASE Answer
  BY <1>1, <1>4 DEF Answer, WebhookAccepted, WebhookFails, WebhookAborted, RuleDelivered,
     RuleFailed, Current
<1>5. CASE Time
  BY <1>1, <1>5 DEF Time, BackoffEnds, SuspensionEnds, Rule
<1> QED
  BY <1>2, <1>3, <1>4, <1>5 DEF Next

\* A webhook is sent for a row whose answers so far were failures, fewer than allowed.
LEMMA SendingIsAllowed ==
    ASSUME IInv, Next, wire = NoWire, wire' # NoWire
    PROVE  ~answers[wire'.key].done /\ answers[wire'.key].count < MaxAttempts
<1>1. PICK k \in Keys : Deliver(k)
  BY DEF Next, RecordEvent, CleanupRetainedEvents, Routes, Dispatcher, Answer, Time, Process,
     CreateRule, UpdateRule, UpsertBrowserRule, DeleteRule, Outside, TimerFires, EndDrain,
     DrainFails, AnswerFails, WebhookAccepted, WebhookFails, WebhookAborted, BackoffEnds,
     SuspensionEnds, Stop, Exit, Crash, RecordEventCutOff, AnswerCutOff, Boot, Down
<1>2. row[k].status # "none" /\ wire'.key = k
  <2>1. ASSUME NEW x \in Row, DeliverRow(k, x) PROVE FALSE
    BY <2>1 DEF DeliverRow
  <2> QED
    BY <1>1, <2>1, DeliverSteps
<1>3. Open(row[k])
  BY <1>1, <1>2 DEF Deliver, IInv, Listed
<1>4. /\ answers[k] = [count |-> row[k].attempts, done |-> row[k].status = "delivered"]
      /\ row[k].attempts < MaxAttempts
  BY <1>2, <1>3 DEF IInv, Counted
<1>5. (row[k].status = "delivered") = FALSE
  BY <1>3 DEF Open
<1>6. answers[k] = [count |-> row[k].attempts, done |-> FALSE]
  BY <1>4, <1>5
<1> QED
  BY <1>2, <1>4, <1>6

\* Saving a rule is a boundary for its rows and its health, and a webhook is not sent again
\* once its delivery is recorded or its failures have been as many as are allowed.
THEOREM RecordsAreKeptHolds == Spec => RecordsAreKept
<1> DEFINE Boundary ==
             /\ \A k \in Keys :
                row'[k].status # "none" =>
                    /\ rule'[k[1]].state = "live" /\ row'[k].revision = rule'[k[1]].revision
                    /\ k[2] > rule'[k[1]].after
             /\ \A r \in Rules :
                rule'[r].failures # rule[r].failures /\ rule'[r].revision = rule[r].revision
                   => wire # NoWire /\ K[1] = r /\ wire.revision = rule[r].revision
           Allowed ==
             wire = NoWire /\ wire' # NoWire =>
                 /\ ~answers[wire'.key].done
                 /\ answers[wire'.key].count < MaxAttempts
<1>1. IInv /\ IInv' /\ [Next]_vars => [Boundary]_vars
  <2> SUFFICES ASSUME IInv, IInv', Next PROVE Boundary
    BY DEF vars
  <2>1. ASSUME NEW k \in Keys, row'[k].status # "none"
        PROVE  /\ rule'[k[1]].state = "live" /\ row'[k].revision = rule'[k[1]].revision
               /\ k[2] > rule'[k[1]].after
    BY <2>1 DEF IInv, Bounded
  <2> QED
    BY <2>1, HealthKept
<1>2. IInv /\ [Next]_vars => [Allowed]_vars
  BY SendingIsAllowed DEF vars
<1>3. Spec => EditIsBoundary
  BY <1>1, Invariance, PTL DEF Spec, EditIsBoundary
<1>4. Spec => TriesAreBounded
  BY <1>2, Invariance, PTL DEF Spec, TriesAreBounded
<1> QED
  BY <1>3, <1>4, PTL DEF RecordsAreKept
=============================================================================
