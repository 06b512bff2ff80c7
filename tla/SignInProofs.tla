---------------------------- MODULE SignInProofs ----------------------------
(***************************************************************************)
(* What holds of SignIn for any number of setups, logins, renewals and     *)
(* faults: its types, that there is one administrator, and that what is    *)
(* stored of the logins and told of them is what happened.                 *)
(***************************************************************************)
EXTENDS SignIn, FiniteSetTheorems, TLAPS

(***************************************************************************)
(* The inductive invariant                                                 *)
(***************************************************************************)

\* The administrator, and the setups that hash.
AdminTrue ==
    /\ hashing \in 0..MaxSetups /\ admin \in BOOLEAN /\ activeToken \in BOOLEAN
    /\ accepted \in Nat /\ OneAdministrator

QrStates == {"pending", "authenticated", "expired", "error"}

\* What the server knows of its logins agrees with what was stored of them.
QrTrue ==
    /\ qr \in [QrLogins -> [phase : Phases, state : QrStates]]
    /\ \A q \in QrLogins :
        /\ qr[q].phase \in {"none", "pending"} => ~IsSigned(q) /\ qr[q].state = "pending"
        /\ qr[q].state = "authenticated" => IsSigned(q)
        /\ qr[q].state = "expired" => qr[q].phase = "terminal" /\ ~IsSigned(q)

CredPhases == {"none", "asked", "guard", "granted", "saved", "signed", "failed", "gone"}

CredTrue ==
    /\ cred \in [Credentials -> [phase : CredPhases, calls : 0..2, waits : BOOLEAN]]
    /\ \A c \in Credentials :
        /\ cred[c].phase \in {"none", "asked", "guard", "granted"} => ~IsSigned(c)
        /\ cred[c].phase = "saved" => IsSigned(c)
        /\ cred[c].calls > 0 => cred[c].phase \in {"granted", "saved"}

TokenOf == [id : Nat, by : Logins, n : Nat]
WorkerOf == [id : Nat, by : Logins, n : Nat, status : {"busy", "online", "failed"}]

\* The row and the connection hold tokens of logins that were stored in that account.
RowTrue ==
    row # None => row \in TokenOf /\ row.by = last /\ row.id = signed[row.by].id

WorkerTrue ==
    worker # None =>
        /\ worker \in WorkerOf /\ worker.id = signed[worker.by].id
        /\ row # None /\ worker.id = row.id

NewestTyped == newest \in [Logins -> 0..MaxRenewals]

RenewalsTyped == renewals \in Seq(TokenOf)

LibraryTyped == library \in {"none", "importing", "imported"}

FaultsTyped == faults \in 0..MaxFaults

SignedSet == {x \in Logins : IsSigned(x)}

\* The history: the numbers of accounts are given once.
HistoryTrue ==
    /\ signed \in [Logins -> [id : Nat \cup {None}, told : {None, "ok", "error"}]]
    /\ \A x \in Logins : signed[x].id = None => signed[x].told = None
    /\ last \in Logins \cup {None} /\ lost \subseteq Logins
    /\ IsFiniteSet(SignedSet)
    /\ \A x \in SignedSet : signed[x].id < Cardinality(SignedSet)

\* A library that a login was told of is not imported again.
Imported ==
    \A x \in Logins :
        row # None /\ signed[x].id = row.id /\ signed[x].told = "ok" => library = "imported"

\* Only a login that was stored has renewals; those of one login are stored in their order.
Renewed ==
    /\ \A x \in Logins : newest[x] > 0 => IsSigned(x)
    /\ \A i \in DOMAIN renewals : renewals[i].n < newest[renewals[i].by]
    /\ \A i, j \in DOMAIN renewals :
        i < j /\ renewals[i].by = renewals[j].by => renewals[i].n < renewals[j].n

\* From the token in the row to the newest one, all renewals are still to be stored.
Pending ==
    row # None /\ row.by \notin lost =>
        /\ row.n <= newest[row.by]
        /\ \A i \in DOMAIN renewals : renewals[i].by = row.by => row.n <= renewals[i].n
        /\ \A m \in 0..MaxRenewals : row.n <= m /\ m < newest[row.by] =>
            \E i \in DOMAIN renewals : renewals[i] = [id |-> row.id, by |-> row.by, n |-> m]

\* What is on its way to the dialog, and what the dialog shows, is true.
AnswersTrue ==
    \A a \in answers :
        /\ a.login \in Logins
        /\ a.what = "signed" => IsSigned(a.login)
        /\ a.what = "state" /\ a.value = "authenticated" => IsSigned(a.login)
        /\ a.what \in {"progress", "refreshed"} /\ a.value = "ok" => signed[a.login].told = "ok"

DialogTrue ==
    /\ dialog \in [open : BOOLEAN, login : Logins \cup {None},
                   polling : {"none", "login", "progress"}, closing : BOOLEAN]
    /\ dialog.polling # "none" => dialog.login \in Logins
    /\ dialog.polling = "progress" => IsSigned(dialog.login)
    /\ dialog.closing => dialog.login \in Logins /\ signed[dialog.login].told = "ok"

IInv ==
    /\ AdminTrue /\ QrTrue /\ CredTrue /\ RowTrue /\ WorkerTrue /\ NewestTyped
    /\ RenewalsTyped /\ LibraryTyped /\ FaultsTyped /\ HistoryTrue /\ Imported /\ Renewed
    /\ Pending /\ AnswersTrue /\ DialogTrue

(***************************************************************************)
(* Logins that were stored                                                 *)
(***************************************************************************)

LEMMA SignedHasId ==
    ASSUME HistoryTrue, NEW x \in Logins
    PROVE  /\ IsSigned(x) <=> signed[x].id # None
           /\ IsSigned(x) <=> signed[x].id \in Nat
<1>1. /\ signed[x] \in [id : Nat \cup {None}, told : {None, "ok", "error"}]
      /\ signed[x].id = None => signed[x].told = None
  BY DEF HistoryTrue
<1>2. signed[x] = Unsigned <=> signed[x].id = None
  BY <1>1 DEF Unsigned
<1> QED
  BY <1>1, <1>2, NoneAssumption DEF IsSigned

\* The row and the connection are of logins that were stored, and so are the renewals.
LEMMA InUse ==
    ASSUME IInv
    PROVE  /\ row # None => row \in TokenOf /\ row.by \in Logins /\ IsSigned(row.by)
           /\ worker # None => worker \in WorkerOf /\ worker.by \in Logins
                               /\ worker.id \in Nat /\ IsSigned(worker.by)
           /\ \A i \in DOMAIN renewals : /\ renewals[i] \in TokenOf
                                         /\ renewals[i].by \in Logins
                                         /\ IsSigned(renewals[i].by)
<1>1. HistoryTrue
  BY DEF IInv
<1>2. ASSUME row # None PROVE row \in TokenOf /\ row.by \in Logins /\ IsSigned(row.by)
  <2>1. row \in TokenOf /\ signed[row.by].id = row.id
    BY <1>2 DEF IInv, RowTrue
  <2>2. row.by \in Logins /\ row.id \in Nat
    BY <2>1 DEF TokenOf
  <2> QED
    BY <1>1, <2>1, <2>2, SignedHasId
<1>3. ASSUME worker # None
      PROVE  worker \in WorkerOf /\ worker.by \in Logins /\ worker.id \in Nat
             /\ IsSigned(worker.by)
  <2>1. worker \in WorkerOf /\ signed[worker.by].id = worker.id
    BY <1>3 DEF IInv, WorkerTrue
  <2>2. worker.by \in Logins /\ worker.id \in Nat
    BY <2>1 DEF WorkerOf
  <2> QED
    BY <1>1, <2>1, <2>2, SignedHasId
<1>4. ASSUME NEW i \in DOMAIN renewals
      PROVE  renewals[i] \in TokenOf /\ renewals[i].by \in Logins /\ IsSigned(renewals[i].by)
  <2>1. renewals \in Seq(TokenOf)
    BY DEF IInv, RenewalsTyped
  <2>2. renewals[i] \in TokenOf
    BY <2>1
  <2>3. renewals[i].by \in Logins /\ renewals[i].n \in Nat
    BY <2>2 DEF TokenOf
  <2>4. newest[renewals[i].by] \in Nat /\ renewals[i].n < newest[renewals[i].by]
    BY <2>3, BoundsAssumption DEF IInv, NewestTyped, Renewed
  <2> QED
    BY <2>2, <2>3, <2>4 DEF IInv, Renewed
<1> QED
  BY <1>2, <1>3, <1>4

\* persistAccountToken: x is a login that was not stored before.
LEMMA PersistKeeps ==
    ASSUME IInv, NEW x \in Logins, ~IsSigned(x), Persist(x),
           worker' = worker, newest' = newest, renewals' = renewals, library' = library
    PROVE  /\ RowTrue' /\ WorkerTrue' /\ HistoryTrue' /\ Imported' /\ Renewed' /\ Pending'
           /\ IsSigned(x)' /\ \A y \in Logins \ {x} : signed'[y] = signed[y]
<1> DEFINE n == Cardinality(SignedSet)
<1>1. /\ signed' = [signed EXCEPT ![x] = [id |-> row'.id, told |-> None]]
      /\ last' = x /\ lost' = lost
  BY DEF Persist
<1>2. /\ HistoryTrue /\ IsFiniteSet(SignedSet) /\ n \in Nat /\ x \notin SignedSet
      /\ signed \in [Logins -> [id : Nat \cup {None}, told : {None, "ok", "error"}]]
  BY FS_CardinalityType DEF IInv, HistoryTrue, SignedSet
<1> HIDE DEF n
<1>3. row' \in TokenOf /\ row'.by = x /\ row'.n = 0 /\ row'.id \in Nat /\ row'.id <= n
  <2>1. CASE row = None
    <3>1. row' = [id |-> n, by |-> x, n |-> 0]
      BY <2>1 DEF Persist, n, SignedSet
    <3> QED
      BY <1>2, <3>1 DEF TokenOf
  <2>2. CASE row # None
    <3>1. row \in TokenOf /\ row.by \in SignedSet /\ row.id = signed[row.by].id
      BY <2>2, InUse DEF SignedSet, IInv, RowTrue
    <3>2. row' = [row EXCEPT !.by = x, !.n = 0]
      BY <2>2 DEF Persist
    <3>3. row'.id = row.id /\ row' \in TokenOf /\ row'.by = x /\ row'.n = 0
      BY <3>1, <3>2 DEF TokenOf
    <3>4. row.id \in Nat /\ row.id < n
      BY <3>1, <1>2 DEF n, HistoryTrue, TokenOf
    <3> QED
      BY <1>2, <3>3, <3>4
  <2> QED
    BY <2>1, <2>2
<1>4. \A y \in Logins \ {x} : signed'[y] = signed[y]
  BY <1>1, <1>2
<1>5. signed'[x] = [id |-> row'.id, told |-> None]
  BY <1>1, <1>2
<1>6. IsSigned(x)'
  BY <1>3, <1>5, NoneAssumption DEF IsSigned, Unsigned
<1>7. \A y \in Logins \ {x} : IsSigned(y)' <=> IsSigned(y)
  BY <1>4 DEF IsSigned
<1>8. SignedSet' = SignedSet \cup {x}
  BY <1>6, <1>7 DEF SignedSet
<1>9. IsFiniteSet(SignedSet') /\ Cardinality(SignedSet') = n + 1
  BY <1>2, <1>8, FS_AddElement DEF n
<1>10. RowTrue'
  BY <1>1, <1>3, <1>5 DEF RowTrue
<1>11. WorkerTrue'
  <2> SUFFICES ASSUME worker # None PROVE WorkerTrue'
    BY DEF WorkerTrue
  <2>1. /\ worker \in WorkerOf /\ worker.by \in Logins \ {x}
        /\ worker.id = signed[worker.by].id /\ row # None /\ worker.id = row.id
    BY InUse DEF IInv, WorkerTrue
  <2>2. row'.id = row.id
    BY <2>1, InUse DEF Persist, TokenOf
  <2>3. row' # None
    BY <1>3, NoneAssumption DEF TokenOf, Logins
  <2> QED
    BY <1>4, <2>1, <2>2, <2>3 DEF WorkerTrue
<1>12. HistoryTrue'
  <2>1. signed' \in [Logins -> [id : Nat \cup {None}, told : {None, "ok", "error"}]]
    BY <1>1, <1>2, <1>3
  <2>2. \A y \in Logins : signed'[y].id = None => signed'[y].told = None
    BY <1>4, <1>5, <1>2 DEF HistoryTrue
  <2>3. ASSUME NEW y \in SignedSet' PROVE signed'[y].id < Cardinality(SignedSet')
    <3>1. CASE y = x
      BY <1>2, <1>3, <1>5, <1>9, <3>1
    <3>2. CASE y # x
      <4>1. y \in SignedSet /\ y \in Logins /\ signed'[y] = signed[y]
        BY <1>4, <1>8, <2>3, <3>2 DEF SignedSet
      <4>2. signed[y].id \in Nat /\ signed[y].id < n
        BY <1>2, <4>1, SignedHasId DEF HistoryTrue, n, SignedSet
      <4> QED
        BY <1>2, <1>9, <4>1, <4>2
    <3> QED
      BY <3>1, <3>2
  <2> QED
    BY <1>1, <1>2, <1>9, <2>1, <2>2, <2>3 DEF HistoryTrue
<1>13. Imported'
  <2> SUFFICES ASSUME NEW y \in Logins, row' # None, signed'[y].id = row'.id,
                      signed'[y].told = "ok"
               PROVE  library = "imported"
    BY DEF Imported
  <2>1. y # x
    BY <1>5, NoneAssumption
  <2>2. signed'[y] = signed[y]
    BY <1>4, <2>1
  <2>3. CASE row = None
    <3>1. row'.id = n
      BY <2>3 DEF Persist, n, SignedSet
    <3>2. y \in SignedSet
      BY <1>2, <1>3, <2>2, SignedHasId DEF SignedSet
    <3>3. signed[y].id < n
      BY <1>2, <3>2 DEF n, HistoryTrue
    <3> QED
      BY <1>2, <2>2, <3>1, <3>3
  <2>4. CASE row # None
    <3>1. row'.id = row.id
      BY <2>4, InUse DEF Persist, TokenOf
    <3> QED
      BY <2>2, <2>4, <3>1 DEF IInv, Imported
  <2> QED
    BY <2>3, <2>4
<1>14. Renewed'
  BY <1>6, <1>7 DEF IInv, Renewed
<1>15. Pending'
  <2>1. newest[x] = 0
    BY BoundsAssumption DEF IInv, NewestTyped, Renewed
  <2>2. \A i \in DOMAIN renewals : renewals[i].by # x
    BY InUse
  <2> QED
    BY <1>3, <2>1, <2>2 DEF Pending
<1> QED
  BY <1>4, <1>6, <1>10, <1>11, <1>12, <1>13, <1>14, <1>15

LEMMA AuthenticatedPersists ==
    ASSUME IInv, NEW q \in QrLogins, Authenticated(q)
    PROVE  /\ CredTrue' /\ RowTrue' /\ WorkerTrue' /\ HistoryTrue' /\ Imported' /\ Pending'
<1>1. /\ ~IsSigned(q) /\ q \in Logins /\ cred' = cred
      /\ worker' = worker /\ newest' = newest /\ renewals' = renewals /\ library' = library
  BY DEF Authenticated, Listening, Logins, account
<1>2. CASE Persist(q)
  <2>1. /\ RowTrue' /\ WorkerTrue' /\ HistoryTrue' /\ Imported' /\ Pending'
        /\ \A y \in Logins \ {q} : signed'[y] = signed[y]
    BY <1>1, <1>2, PersistKeeps
  <2>2. \A c \in Credentials : c \in Logins \ {q}
    BY BoundsAssumption DEF Logins
  <2>3. CredTrue'
    BY <1>1, <2>1, <2>2 DEF IInv, CredTrue, IsSigned
  <2> QED
    BY <2>1, <2>3
<1>3. CASE row' = row /\ signed' = signed /\ last' = last /\ lost' = lost
  BY <1>1, <1>3 DEF IInv, CredTrue, RowTrue, WorkerTrue, HistoryTrue, Imported, Pending,
     IsSigned, SignedSet
<1> QED
  BY <1>2, <1>3 DEF Authenticated, history

LEMMA PersistOnceKeeps ==
    ASSUME IInv, NEW c \in Credentials, PersistOnce(c)
    PROVE  /\ QrTrue' /\ CredTrue' /\ RowTrue' /\ WorkerTrue' /\ HistoryTrue' /\ Imported'
           /\ Renewed' /\ Pending' /\ AnswersTrue' /\ DialogTrue'
<1>1. /\ c \in Logins /\ cred[c].calls > 0 /\ qr' = qr /\ answers' = answers
      /\ dialog' = dialog
      /\ cred' = [cred EXCEPT ![c] = [@ EXCEPT !.phase = "saved", !.calls = cred[c].calls - 1]]
      /\ worker' = worker /\ newest' = newest /\ renewals' = renewals /\ library' = library
  BY DEF PersistOnce, Logins, browser
<1>2. /\ cred \in [Credentials -> [phase : CredPhases, calls : 0..2, waits : BOOLEAN]]
      /\ cred[c].phase \in {"granted", "saved"}
  BY <1>1 DEF IInv, CredTrue
<1> DEFINE x == [cred[c] EXCEPT !.phase = "saved", !.calls = cred[c].calls - 1]
<1>4. cred' = [cred EXCEPT ![c] = x]
  BY <1>1, <1>2
<1>9. /\ cred[c] \in [phase : CredPhases, calls : 0..2, waits : BOOLEAN]
       /\ cred[c].calls - 1 \in 0..2
  BY <1>1, <1>2
<1>3. /\ x \in [phase : CredPhases, calls : 0..2, waits : BOOLEAN]
      /\ x.phase = "saved" /\ x.calls \in 0..2
  BY <1>9 DEF CredPhases
<1> HIDE DEF x
<1>5. CASE cred[c].phase = "saved"
  <2>1. row' = row /\ signed' = signed /\ last' = last /\ lost' = lost /\ IsSigned(c)
    BY <1>5 DEF PersistOnce, Persisted, history, IInv, CredTrue
  <2>2. CredTrue'
    BY <1>2, <1>3, <1>4, <2>1 DEF IInv, CredTrue, IsSigned
  <2> QED
    BY <1>1, <2>1, <2>2 DEF IInv, QrTrue, RowTrue, WorkerTrue, HistoryTrue, Imported, Renewed,
       Pending, AnswersTrue, DialogTrue, IsSigned, SignedSet
<1>6. CASE cred[c].phase = "granted"
  <2>1. Persist(c) /\ ~IsSigned(c)
    BY <1>6 DEF PersistOnce, Persisted, IInv, CredTrue
  <2>2. /\ RowTrue' /\ WorkerTrue' /\ HistoryTrue' /\ Imported' /\ Renewed' /\ Pending'
        /\ IsSigned(c)' /\ \A y \in Logins \ {c} : signed'[y] = signed[y]
    BY <1>1, <2>1, PersistKeeps
  <2>3. \A y \in Logins : IsSigned(y) => y # c /\ signed'[y] = signed[y] /\ IsSigned(y)'
    BY <2>1, <2>2 DEF IsSigned
  <2>4. \A y \in Logins \ {c} : IsSigned(y)' <=> IsSigned(y)
    BY <2>2 DEF IsSigned
  <2>5. CredTrue'
    <3>1. \A d \in Credentials : cred'[d] = IF d = c THEN x ELSE cred[d]
      BY <1>2, <1>4
    <3>2. cred' \in [Credentials -> [phase : CredPhases, calls : 0..2, waits : BOOLEAN]]
      BY <1>2, <1>3, <1>4
    <3>3. \A d \in Credentials : d # c => (IsSigned(d)' <=> IsSigned(d))
      BY <2>4 DEF Logins
    <3> QED
      BY <1>3, <2>2, <3>1, <3>2, <3>3 DEF IInv, CredTrue
  <2>6. QrTrue'
    <3>1. \A q \in QrLogins : IsSigned(q)' <=> IsSigned(q)
      BY <2>4, BoundsAssumption DEF Logins
    <3> QED
      BY <1>1, <3>1 DEF IInv, QrTrue
  <2>7. \A y \in Logins : signed[y].told = "ok" => signed'[y] = signed[y]
    <3>1. signed[c].told # "ok"
      BY <2>1, NoneAssumption DEF IsSigned, Unsigned
    <3> QED
      BY <2>2, <3>1
  <2>8. AnswersTrue'
    BY <1>1, <2>3, <2>7 DEF IInv, AnswersTrue
  <2>9. DialogTrue'
    BY <1>1, <2>3, <2>7 DEF IInv, DialogTrue
  <2> QED
    BY <2>2, <2>5, <2>6, <2>8, <2>9
<1> QED
  BY <1>2, <1>5, <1>6

(***************************************************************************)
(* The steps that disturb the most                                         *)
(***************************************************************************)

LEMMA CreateAdminHand ==
    ASSUME IInv, CreateAdmin
    PROVE  AdminTrue'
<1>1. /\ hashing \in 0..MaxSetups /\ hashing > 0 /\ hashing' = hashing - 1
      /\ MaxSetups \in Nat /\ AdminTrue
  BY BoundsAssumption DEF CreateAdmin, IInv, AdminTrue
<1>2. hashing' \in 0..MaxSetups
  BY <1>1
<1>3. CASE admin
  BY <1>1, <1>2, <1>3 DEF CreateAdmin, Existing, AdminTrue, OneAdministrator
<1>4. CASE ~admin
  <2>1. /\ accepted' = accepted + 1 \/ accepted' = accepted
        /\ admin' = TRUE /\ activeToken' = FALSE
    BY <1>4 DEF CreateAdmin, Existing
  <2>2. accepted = 0
    BY <1>1, <1>4 DEF AdminTrue, OneAdministrator
  <2>3. accepted' \in {0, 1}
    BY <2>1, <2>2
  <2>4. accepted' \in Nat /\ accepted' <= 1
    BY <2>3
  <2>5. OneAdministrator'
    BY <2>1, <2>3, <2>4 DEF OneAdministrator
  <2> QED
    BY <1>2, <2>1, <2>4, <2>5 DEF AdminTrue
<1> QED
  BY <1>1, <1>3, <1>4 DEF AdminTrue

LEMMA DisconnectHand ==
    ASSUME IInv, Disconnect
    PROVE  WorkerTrue'
<1>1. /\ worker # None /\ row' = row /\ signed' = signed
      /\ worker' = [worker EXCEPT !.by = row.by, !.n = row.n, !.status = "busy"]
  BY DEF Disconnect, history
<1>2. /\ worker \in WorkerOf /\ row # None /\ worker.id = row.id
      /\ row \in TokenOf /\ row.id = signed[row.by].id
  BY <1>1 DEF IInv, WorkerTrue, RowTrue
<1>3. row.by \in Logins /\ row.n \in Nat
  BY <1>2 DEF TokenOf
<1>4. worker' \in WorkerOf /\ worker'.id = worker.id /\ worker'.by = row.by
  BY <1>1, <1>2, <1>3 DEF WorkerOf
<1> QED
  BY <1>1, <1>2, <1>4 DEF WorkerTrue

\* The outcome of an import is noted of the logins of the account, all of which it had
\* not been told before.
LEMMA ImportEndsHand ==
    ASSUME IInv, ImportEnds
    PROVE  HistoryTrue' /\ AnswersTrue' /\ DialogTrue'
<1>1. /\ library = "importing" /\ row # None /\ answers' = answers /\ dialog' = dialog
      /\ last' = last /\ lost' = lost /\ HistoryTrue /\ row.id \in Nat
  BY InUse DEF ImportEnds, browser, IInv, TokenOf
<1>2. PICK ok \in BOOLEAN :
        signed' = [x \in Logins |->
            IF signed[x].id # row.id THEN signed[x]
            ELSE [signed[x] EXCEPT !.told = IF ok THEN "ok" ELSE "error"]]
  BY DEF ImportEnds
<1>3. ASSUME NEW x \in Logins
      PROVE  /\ signed'[x] \in [id : Nat \cup {None}, told : {None, "ok", "error"}]
             /\ signed'[x].id = signed[x].id
             /\ signed[x].id # row.id => signed'[x] = signed[x]
             /\ IsSigned(x)' <=> IsSigned(x)
             /\ signed[x].told = "ok" => signed'[x].told = "ok"
             /\ signed'[x].id = None => signed'[x].told = None
  <2>1. /\ signed[x] \in [id : Nat \cup {None}, told : {None, "ok", "error"}]
        /\ signed[x].id = None => signed[x].told = None
    BY <1>1 DEF HistoryTrue
  <2>2. CASE signed[x].id # row.id
    BY <1>2, <2>1, <2>2 DEF IsSigned
  <2>3. CASE signed[x].id = row.id
    <3>1. signed'[x] = [signed[x] EXCEPT !.told = IF ok THEN "ok" ELSE "error"]
      BY <1>2, <2>3
    <3>2. /\ signed'[x] \in [id : Nat \cup {None}, told : {None, "ok", "error"}]
          /\ signed'[x].id = signed[x].id
      BY <2>1, <3>1
    <3>3. signed[x] # Unsigned /\ signed'[x] # Unsigned /\ signed[x].id # None
      BY <1>1, <2>3, <3>2, NoneAssumption DEF Unsigned
    <3>4. signed[x].told # "ok"
      BY <1>1, <2>3 DEF IInv, Imported
    <3> QED
      BY <2>3, <3>2, <3>3, <3>4 DEF IsSigned
  <2> QED
    BY <2>2, <2>3
<1>4. SignedSet' = SignedSet
  BY <1>3 DEF SignedSet
<1>5. HistoryTrue'
  <2>1. signed' \in [Logins -> [id : Nat \cup {None}, told : {None, "ok", "error"}]]
    <3>1. signed' = [x \in Logins |-> signed'[x]]
      BY <1>2
    <3> QED
      BY <1>3, <3>1
  <2>2. \A x \in SignedSet' : signed'[x].id < Cardinality(SignedSet')
    BY <1>1, <1>3, <1>4 DEF HistoryTrue, SignedSet
  <2> QED
    BY <1>1, <1>3, <1>4, <2>1, <2>2 DEF HistoryTrue
<1>6. AnswersTrue'
  BY <1>1, <1>3 DEF IInv, AnswersTrue
<1>7. DialogTrue'
  BY <1>1, <1>3 DEF IInv, DialogTrue
<1> QED
  BY <1>5, <1>6, <1>7

LEMMA RenewHand ==
    ASSUME IInv, Renew
    PROVE  NewestTyped' /\ Renewed' /\ Pending'
<1> DEFINE b == worker.by
           r == [id |-> worker.id, by |-> worker.by, n |-> worker.n]
           k == Len(renewals) + 1
<1>1. /\ worker # None /\ worker.n = newest[b] /\ newest[b] < MaxRenewals
      /\ newest' = [newest EXCEPT ![b] = @ + 1] /\ renewals' = Append(renewals, r)
      /\ row' = row /\ signed' = signed /\ lost' = lost
  BY DEF Renew, history
<1>2. /\ b \in Logins /\ IsSigned(b) /\ worker.id = signed[b].id
      /\ newest \in [Logins -> 0..MaxRenewals] /\ MaxRenewals \in Nat
      /\ renewals \in Seq(TokenOf)
  BY <1>1, InUse, BoundsAssumption DEF IInv, WorkerTrue, NewestTyped, RenewalsTyped
<1>3. r.id = worker.id /\ r.by = b /\ r.n = newest[b]
  BY <1>1
<1>4. /\ DOMAIN renewals = 1..Len(renewals) /\ DOMAIN renewals' = 1..k
      /\ k \in Nat /\ k \in DOMAIN renewals' /\ renewals'[k] = r
      /\ \A i \in DOMAIN renewals : i \in DOMAIN renewals' /\ i < k
                                    /\ renewals'[i] = renewals[i]
      /\ \A i \in DOMAIN renewals' : i = k \/ i \in DOMAIN renewals
  BY <1>1, <1>2
<1>5. \A i \in DOMAIN renewals : renewals[i].by \in Logins /\ renewals[i].n \in Nat
  BY InUse DEF TokenOf
<1> HIDE DEF b, r, k
<1>6. \A x \in Logins : /\ newest'[x] = IF x = b THEN newest[b] + 1 ELSE newest[x]
                        /\ newest[x] \in 0..MaxRenewals
  BY <1>1, <1>2
<1>7. newest[b] + 1 \in 0..MaxRenewals
  BY <1>1, <1>2
<1>8. NewestTyped'
  BY <1>1, <1>2, <1>7 DEF NewestTyped
<1>9. \A i \in DOMAIN renewals : renewals[i].n < newest[renewals[i].by]
  BY DEF IInv, Renewed
<1>10. Renewed'
  <2>1. \A x \in Logins : newest'[x] > 0 => IsSigned(x)'
    BY <1>1, <1>2, <1>6 DEF IInv, Renewed, IsSigned
  <2>2. ASSUME NEW i \in DOMAIN renewals'
        PROVE  renewals'[i].n < newest'[renewals'[i].by]
    <3>1. CASE i = k
      BY <1>2, <1>3, <1>4, <1>6, <3>1
    <3>2. CASE i \in DOMAIN renewals
      <4>1. renewals'[i] = renewals[i] /\ renewals[i].by \in Logins /\ renewals[i].n \in Nat
            /\ renewals[i].n < newest[renewals[i].by]
        BY <1>4, <1>5, <1>9, <3>2
      <4> QED
        BY <1>6, <4>1
    <3> QED
      BY <1>4, <3>1, <3>2
  <2>3. ASSUME NEW i \in DOMAIN renewals', NEW j \in DOMAIN renewals', i < j,
               renewals'[i].by = renewals'[j].by
        PROVE  renewals'[i].n < renewals'[j].n
    <3>1. i \in DOMAIN renewals
      BY <1>4, <2>3
    <3>2. CASE j = k
      BY <1>3, <1>4, <1>9, <2>3, <3>1, <3>2
    <3>3. CASE j \in DOMAIN renewals
      <4>1. renewals'[i] = renewals[i] /\ renewals'[j] = renewals[j]
        BY <1>4, <3>1, <3>3
      <4> QED
        BY <2>3, <3>1, <3>3, <4>1 DEF IInv, Renewed
    <3> QED
      BY <1>4, <3>2, <3>3
  <2> QED
    BY <2>1, <2>2, <2>3 DEF Renewed
<1>11. Pending'
  <2> SUFFICES ASSUME row # None, row.by \notin lost
               PROVE  /\ row.n <= newest'[row.by]
                      /\ \A i \in DOMAIN renewals' :
                            renewals'[i].by = row.by => row.n <= renewals'[i].n
                      /\ \A m \in 0..MaxRenewals : row.n <= m /\ m < newest'[row.by] =>
                            \E i \in DOMAIN renewals' :
                                renewals'[i] = [id |-> row.id, by |-> row.by, n |-> m]
    BY <1>1 DEF Pending
  <2>1. /\ row.by \in Logins /\ row.n \in Nat /\ row.id = signed[row.by].id
        /\ row.n <= newest[row.by]
        /\ \A i \in DOMAIN renewals : renewals[i].by = row.by => row.n <= renewals[i].n
        /\ \A m \in 0..MaxRenewals : row.n <= m /\ m < newest[row.by] =>
              \E i \in DOMAIN renewals :
                  renewals[i] = [id |-> row.id, by |-> row.by, n |-> m]
    BY InUse DEF IInv, RowTrue, TokenOf, Pending
  <2>2. row.n <= newest'[row.by]
    BY <1>6, <2>1
  <2>3. ASSUME NEW i \in DOMAIN renewals', renewals'[i].by = row.by
        PROVE  row.n <= renewals'[i].n
    <3>1. CASE i = k
      <4>1. renewals'[i].n = newest[row.by]
        BY <1>3, <1>4, <2>3, <3>1
      <4> QED
        BY <2>1, <4>1
    <3>2. CASE i \in DOMAIN renewals
      BY <1>4, <2>1, <2>3, <3>2
    <3> QED
      BY <1>4, <3>1, <3>2
  <2>4. ASSUME NEW m \in 0..MaxRenewals, row.n <= m, m < newest'[row.by]
        PROVE  \E i \in DOMAIN renewals' :
                  renewals'[i] = [id |-> row.id, by |-> row.by, n |-> m]
    <3>1. CASE m < newest[row.by]
      <4>1. PICK i \in DOMAIN renewals :
                renewals[i] = [id |-> row.id, by |-> row.by, n |-> m]
        BY <2>1, <2>4, <3>1
      <4> QED
        BY <1>4, <4>1
    <3>2. CASE ~(m < newest[row.by])
      <4>1. row.by = b /\ m = newest[b]
        BY <1>2, <1>6, <2>1, <2>4, <3>2
      <4>2. r = [id |-> row.id, by |-> row.by, n |-> m]
        BY <1>1, <1>2, <2>1, <4>1 DEF r, b
      <4> QED
        BY <1>4, <4>2
    <3> QED
      BY <3>1, <3>2
  <2> QED
    BY <2>2, <2>3, <2>4
<1> QED
  BY <1>8, <1>10, <1>11

\* The renewals that are left when the first one was dealt with.
LEMMA TailOf ==
    ASSUME IInv, renewals # <<>>, renewals' = Tail(renewals)
    PROVE  /\ 1 \in DOMAIN renewals /\ Head(renewals) = renewals[1]
           /\ DOMAIN renewals \subseteq Nat \ {0}
           /\ \A i \in DOMAIN renewals' : /\ i + 1 \in DOMAIN renewals
                                          /\ renewals'[i] = renewals[i + 1]
           /\ \A i \in DOMAIN renewals \ {1} : /\ i - 1 \in DOMAIN renewals'
                                               /\ renewals'[i - 1] = renewals[i]
<1>1. renewals \in Seq(TokenOf)
  BY DEF IInv, RenewalsTyped
<1>2. DOMAIN renewals = 1..Len(renewals) /\ Len(renewals) \in Nat /\ Len(renewals) > 0
  BY <1>1
<1>3. /\ DOMAIN renewals' = 1..(Len(renewals) - 1)
      /\ \A i \in 1..(Len(renewals) - 1) : renewals'[i] = renewals[i + 1]
  BY <1>1, <1>2
<1> QED
  BY <1>1, <1>2, <1>3

LEMMA TailRenewed ==
    ASSUME IInv, renewals # <<>>, renewals' = Tail(renewals), newest' = newest,
           signed' = signed
    PROVE  Renewed'
<1>1. \A i, j \in DOMAIN renewals' : i < j => i + 1 < j + 1
  BY TailOf
<1> QED
  BY <1>1, TailOf DEF IInv, Renewed, IsSigned

\* A renewal of another login leaves those of the row's login where they are.
LEMMA TailPending ==
    ASSUME IInv, renewals # <<>>, renewals' = Tail(renewals), newest' = newest,
           row' = row, row # None, row.by \notin lost, row.by # Head(renewals).by
    PROVE  /\ row.n <= newest[row.by]
           /\ \A i \in DOMAIN renewals' :
                renewals'[i].by = row.by => row.n <= renewals'[i].n
           /\ \A m \in 0..MaxRenewals : row.n <= m /\ m < newest[row.by] =>
                \E i \in DOMAIN renewals' :
                    renewals'[i] = [id |-> row.id, by |-> row.by, n |-> m]
<1>1. /\ row.n <= newest[row.by]
      /\ \A i \in DOMAIN renewals : renewals[i].by = row.by => row.n <= renewals[i].n
      /\ \A m \in 0..MaxRenewals : row.n <= m /\ m < newest[row.by] =>
            \E i \in DOMAIN renewals :
                renewals[i] = [id |-> row.id, by |-> row.by, n |-> m]
  BY DEF IInv, Pending
<1>2. ASSUME NEW m \in 0..MaxRenewals, row.n <= m, m < newest[row.by]
      PROVE  \E i \in DOMAIN renewals' :
                renewals'[i] = [id |-> row.id, by |-> row.by, n |-> m]
  <2>1. PICK i \in DOMAIN renewals :
            renewals[i] = [id |-> row.id, by |-> row.by, n |-> m]
    BY <1>1, <1>2
  <2>2. renewals[i].by = row.by
    BY <2>1
  <2>3. i # 1
    BY <2>2, TailOf
  <2>4. i - 1 \in DOMAIN renewals' /\ renewals'[i - 1] = renewals[i]
    BY <2>3, TailOf
  <2>5. renewals'[i - 1] = [id |-> row.id, by |-> row.by, n |-> m]
    BY <2>1, <2>4
  <2> QED
    BY <2>4, <2>5
<1> QED
  BY <1>1, <1>2, TailOf

LEMMA PersistRefreshTokenHand ==
    ASSUME IInv, PersistRefreshToken
    PROVE  RowTrue' /\ WorkerTrue' /\ Renewed' /\ Pending'
<1> DEFINE r == renewals[1]
<1>1. /\ renewals # <<>> /\ renewals' = Tail(renewals) /\ newest' = newest
      /\ signed' = signed /\ lost' = lost /\ last' = last /\ worker' = worker
  BY DEF PersistRefreshToken, history
<1>2. /\ Head(renewals) = r /\ 1 \in DOMAIN renewals /\ r \in TokenOf
      /\ r.by \in Logins /\ r.n \in Nat /\ r.id \in Nat
      /\ r.n < newest[r.by] /\ newest[r.by] \in 0..MaxRenewals
  BY <1>1, TailOf, InUse DEF IInv, Renewed, TokenOf, NewestTyped
<1>3. Renewed'
  BY <1>1, TailRenewed
<1>4. CASE SameToken(r)
  <2>1. row # None /\ row = r /\ row' = [row EXCEPT !.by = r.by, !.n = r.n + 1]
    BY <1>2, <1>4 DEF PersistRefreshToken, SameToken
  <2>2. /\ row' \in TokenOf /\ row'.id = row.id /\ row'.by = row.by /\ row'.n = row.n + 1
    <3>1. r.n + 1 \in Nat /\ row \in TokenOf /\ row.by = r.by /\ row.n = r.n
      BY <1>2, <2>1
    <3> QED
      BY <1>2, <2>1, <3>1 DEF TokenOf
  <2>3. RowTrue'
    BY <1>1, <2>1, <2>2 DEF IInv, RowTrue
  <2>4. WorkerTrue'
    <3>1. row' # None
      BY <2>2, NoneAssumption DEF TokenOf, Logins
    <3> QED
      BY <1>1, <2>2, <3>1 DEF IInv, WorkerTrue
  <2>5. Pending'
    <3> SUFFICES ASSUME row.by \notin lost
                 PROVE  /\ row.n + 1 <= newest[row.by]
                        /\ \A i \in DOMAIN renewals' :
                              renewals'[i].by = row.by => row.n + 1 <= renewals'[i].n
                        /\ \A m \in 0..MaxRenewals :
                              row.n + 1 <= m /\ m < newest[row.by] =>
                                \E i \in DOMAIN renewals' :
                                    renewals'[i] = [id |-> row.id, by |-> row.by, n |-> m]
      BY <1>1, <2>2 DEF Pending
    <3>1. row.n + 1 <= newest[row.by]
      BY <1>2, <2>1
    <3>2. ASSUME NEW i \in DOMAIN renewals', renewals'[i].by = row.by
          PROVE  row.n + 1 <= renewals'[i].n
      <4>1. i + 1 \in DOMAIN renewals /\ renewals'[i] = renewals[i + 1] /\ 1 < i + 1
        BY <1>1, TailOf
      <4>2. renewals[i + 1].n \in Nat
        BY <4>1, InUse DEF TokenOf
      <4>3. r.n < renewals[i + 1].n
        BY <1>2, <2>1, <3>2, <4>1 DEF IInv, Renewed
      <4> QED
        BY <1>2, <2>1, <4>1, <4>2, <4>3
    <3>3. ASSUME NEW m \in 0..MaxRenewals, row.n + 1 <= m, m < newest[row.by]
          PROVE  \E i \in DOMAIN renewals' :
                    renewals'[i] = [id |-> row.id, by |-> row.by, n |-> m]
      <4>1. row.n \in Nat /\ row.n <= m /\ m # row.n
        BY <1>2, <2>1, <3>3
      <4>2. PICK i \in DOMAIN renewals :
                renewals[i] = [id |-> row.id, by |-> row.by, n |-> m]
        BY <2>1, <3>3, <4>1 DEF IInv, Pending
      <4>3. renewals[i].n = m
        BY <4>2
      <4>4. i # 1
        BY <2>1, <4>1, <4>3
      <4> QED
        BY <1>1, <4>2, <4>4, TailOf
    <3> QED
      BY <3>1, <3>2, <3>3
  <2> QED
    BY <1>3, <2>3, <2>4, <2>5
<1>5. CASE ~SameToken(r)
  <2>1. row' = row
    BY <1>2, <1>5 DEF PersistRefreshToken
  <2>2. RowTrue' /\ WorkerTrue'
    BY <1>1, <2>1 DEF IInv, RowTrue, WorkerTrue
  <2>3. ASSUME row # None, row.by \notin lost
        PROVE  row.by # r.by
    <3> SUFFICES ASSUME row.by = r.by PROVE FALSE
      OBVIOUS
    <3>1. row \in TokenOf /\ row.n \in Nat
      BY <2>3, InUse DEF TokenOf
    <3>2. row.n <= r.n
      BY <1>2, <2>3 DEF IInv, Pending
    <3>3. row.n \in 0..MaxRenewals /\ row.n < newest[row.by] /\ row.n <= row.n
      BY <1>2, <3>1, <3>2, BoundsAssumption
    <3>4. PICK i \in DOMAIN renewals :
              renewals[i] = [id |-> row.id, by |-> row.by, n |-> row.n]
      BY <2>3, <3>3 DEF IInv, Pending
    <3>5. renewals[i] = row
      BY <3>1, <3>4 DEF TokenOf
    <3>6. CASE i = 1
      BY <1>5, <2>3, <3>5, <3>6 DEF SameToken
    <3>7. CASE i # 1
      <4>1. 1 < i
        BY <1>1, <3>7, TailOf
      <4>2. r.n < renewals[i].n
        BY <1>2, <3>5, <4>1 DEF IInv, Renewed
      <4> QED
        BY <1>2, <3>1, <3>2, <3>5, <4>2
    <3> QED
      BY <3>6, <3>7
  <2>4. Pending'
    BY <1>1, <1>2, <2>1, <2>3, TailPending DEF Pending
  <2> QED
    BY <1>3, <2>2, <2>4
<1> QED
  BY <1>4, <1>5

LEMMA PersistRefreshTokenFailsHand ==
    ASSUME IInv, PersistRefreshTokenFails
    PROVE  HistoryTrue' /\ Renewed' /\ Pending'
<1>1. /\ renewals # <<>> /\ renewals' = Tail(renewals) /\ newest' = newest
      /\ lost' = lost \cup {Head(renewals).by}
      /\ row' = row /\ signed' = signed /\ last' = last
  BY DEF PersistRefreshTokenFails
<1>2. Head(renewals).by \in Logins
  BY <1>1, TailOf, InUse
<1>3. HistoryTrue'
  BY <1>1, <1>2 DEF IInv, HistoryTrue, SignedSet, IsSigned
<1>4. Renewed'
  BY <1>1, TailRenewed
<1>5. Pending'
  BY <1>1, TailPending DEF Pending
<1> QED
  BY <1>3, <1>4, <1>5

\* A login by password takes a step that stores nothing.
LEMMA CredStep ==
    ASSUME IInv, NEW c \in Credentials, signed' = signed,
           NEW x \in [phase : CredPhases, calls : 0..2, waits : BOOLEAN],
           cred' = [cred EXCEPT ![c] = x],
           x.phase \in {"none", "asked", "guard", "granted"} => ~IsSigned(c),
           x.phase = "saved" => IsSigned(c),
           x.calls > 0 => x.phase \in {"granted", "saved"}
    PROVE  CredTrue'
<1>1. cred \in [Credentials -> [phase : CredPhases, calls : 0..2, waits : BOOLEAN]]
  BY DEF IInv, CredTrue
<1>2. \A d \in Credentials : cred'[d] = IF d = c THEN x ELSE cred[d]
  BY <1>1
<1>3. cred' \in [Credentials -> [phase : CredPhases, calls : 0..2, waits : BOOLEAN]]
  BY <1>1
<1> QED
  BY <1>2, <1>3 DEF IInv, CredTrue, IsSigned

LEMMA CredOf ==
    ASSUME IInv, NEW c \in Credentials
    PROVE  /\ cred[c] \in [phase : CredPhases, calls : 0..2, waits : BOOLEAN]
           /\ cred[c].phase \in {"none", "asked", "guard", "granted"} => ~IsSigned(c)
           /\ cred[c].calls > 0 => cred[c].phase \in {"granted", "saved"}
  BY DEF IInv, CredTrue

LEMMA SteamDecidesHand ==
    ASSUME IInv, NEW c \in Credentials, SteamDecides(c)
    PROVE  CredTrue'
<1>1. cred[c].phase = "asked" /\ signed' = signed
  BY DEF SteamDecides, history
<1>2. /\ cred[c] \in [phase : CredPhases, calls : 0..2, waits : BOOLEAN]
      /\ ~IsSigned(c) /\ ~(cred[c].calls > 0)
  BY <1>1, CredOf
<1>3. CASE cred' = [cred EXCEPT ![c] = [@ EXCEPT !.phase = "failed"]]
  <2> DEFINE x == [cred[c] EXCEPT !.phase = "failed"]
  <2>1. x \in [phase : CredPhases, calls : 0..2, waits : BOOLEAN] /\ x.phase = "failed"
        /\ x.calls = cred[c].calls
    BY <1>2 DEF CredPhases
  <2>2. cred' = [cred EXCEPT ![c] = x]
    BY <1>3
  <2> HIDE DEF x
  <2> QED
    BY <1>1, <1>2, <2>1, <2>2, CredStep
<1>4. CASE cred' = [cred EXCEPT ![c] = [@ EXCEPT !.phase = "granted", !.calls = 2]]
  <2> DEFINE x == [cred[c] EXCEPT !.phase = "granted", !.calls = 2]
  <2>1. x \in [phase : CredPhases, calls : 0..2, waits : BOOLEAN] /\ x.phase = "granted"
    <3>1. 2 \in 0..2
      OBVIOUS
    <3> QED
      BY <1>2, <3>1 DEF CredPhases
  <2>2. cred' = [cred EXCEPT ![c] = x]
    BY <1>4
  <2> HIDE DEF x
  <2> QED
    BY <1>1, <1>2, <2>1, <2>2, CredStep
<1>5. CASE cred' = [cred EXCEPT ![c] = [@ EXCEPT !.phase = "guard", !.waits = FALSE]]
  <2> DEFINE x == [cred[c] EXCEPT !.phase = "guard", !.waits = FALSE]
  <2>1. x \in [phase : CredPhases, calls : 0..2, waits : BOOLEAN] /\ x.phase = "guard"
        /\ x.calls = cred[c].calls
    BY <1>2 DEF CredPhases
  <2>2. cred' = [cred EXCEPT ![c] = x]
    BY <1>5
  <2> HIDE DEF x
  <2> QED
    BY <1>1, <1>2, <2>1, <2>2, CredStep
<1> QED
  BY <1>3, <1>4, <1>5 DEF SteamDecides

LEMMA GuardConfirmedHand ==
    ASSUME IInv, NEW c \in Credentials, GuardConfirmed(c)
    PROVE  CredTrue'
<1>1. /\ cred[c].phase = "guard" /\ signed' = signed
      /\ cred' = [cred EXCEPT ![c] = [@ EXCEPT !.phase = "granted", !.calls = 1]]
  BY DEF GuardConfirmed, history
<1>2. cred[c] \in [phase : CredPhases, calls : 0..2, waits : BOOLEAN] /\ ~IsSigned(c)
  BY <1>1, CredOf
<1> DEFINE x == [cred[c] EXCEPT !.phase = "granted", !.calls = 1]
<1>3. x \in [phase : CredPhases, calls : 0..2, waits : BOOLEAN] /\ x.phase = "granted"
  <2>1. 1 \in 0..2
    OBVIOUS
  <2> QED
    BY <1>2, <2>1 DEF CredPhases
<1>4. cred' = [cred EXCEPT ![c] = x]
  BY <1>1
<1> HIDE DEF x
<1> QED
  BY <1>1, <1>2, <1>3, <1>4, CredStep

LEMMA SubmitCredentialsHand ==
    ASSUME IInv, NEW c \in Credentials, SubmitCredentials(c)
    PROVE  CredTrue'
<1>1. /\ cred[c] = NoCred /\ signed' = signed
      /\ cred' = [cred EXCEPT ![c] = [@ EXCEPT !.phase = "asked", !.waits = TRUE]]
  BY DEF SubmitCredentials, history
<1>2. /\ cred[c] \in [phase : CredPhases, calls : 0..2, waits : BOOLEAN]
      /\ ~IsSigned(c) /\ cred[c].calls = 0
  BY <1>1, CredOf DEF NoCred
<1> DEFINE x == [cred[c] EXCEPT !.phase = "asked", !.waits = TRUE]
<1>3. /\ x \in [phase : CredPhases, calls : 0..2, waits : BOOLEAN] /\ x.phase = "asked"
      /\ x.calls = cred[c].calls
  BY <1>2 DEF CredPhases
<1>4. cred' = [cred EXCEPT ![c] = x]
  BY <1>1
<1> HIDE DEF x
<1>5. ~(x.calls > 0) /\ x.phase # "saved"
  BY <1>2, <1>3
<1> QED
  BY <1>1, <1>2, <1>3, <1>4, <1>5, CredStep

LEMMA CrashHand ==
    ASSUME IInv, Crash
    PROVE  CredTrue' /\ HistoryTrue'
<1>1. /\ cred' = [c \in Credentials |->
                    IF cred[c] = NoCred THEN NoCred ELSE [NoCred EXCEPT !.phase = "gone"]]
      /\ signed' = signed /\ last' = last
      /\ lost' = lost \cup {renewals[i].by : i \in DOMAIN renewals}
  BY DEF Crash
<1>2. \A c \in Credentials : IsSigned(c)' <=> IsSigned(c)
  BY <1>1 DEF IsSigned
<1>3. ASSUME NEW c \in Credentials
      PROVE  /\ cred'[c] \in [phase : CredPhases, calls : 0..2, waits : BOOLEAN]
             /\ cred'[c].phase \in {"none", "asked", "guard", "granted"} => ~IsSigned(c)
             /\ cred'[c].phase # "saved" /\ cred'[c].calls = 0
  <2>1. CASE cred[c] = NoCred
    BY <1>1, <2>1, CredOf DEF NoCred, CredPhases
  <2>2. CASE cred[c] # NoCred
    <3>1. cred'[c] = [phase |-> "gone", calls |-> 0, waits |-> FALSE]
      BY <1>1, <2>2 DEF NoCred
    <3> QED
      BY <3>1 DEF CredPhases
  <2> QED
    BY <2>1, <2>2
<1>4. CredTrue'
  <2>1. cred' \in [Credentials -> [phase : CredPhases, calls : 0..2, waits : BOOLEAN]]
    BY <1>1, <1>3
  <2> QED
    BY <1>2, <1>3, <2>1 DEF CredTrue
<1>5. HistoryTrue'
  <2>1. lost' \subseteq Logins
    BY <1>1, InUse DEF IInv, HistoryTrue
  <2> QED
    BY <1>1, <2>1 DEF IInv, HistoryTrue, SignedSet, IsSigned
<1> QED
  BY <1>4, <1>5

\* What a step leaves alone.
LEMMA AdminKept == ASSUME IInv, UNCHANGED admins PROVE AdminTrue'
<1>1. UNCHANGED <<hashing, accepted, admin, activeToken>> /\ AdminTrue
  BY DEF admins, IInv
<1> QED
  BY <1>1 DEF AdminTrue, OneAdministrator

LEMMA QrKept == ASSUME IInv, UNCHANGED <<qr, history>> PROVE QrTrue'
<1>1. UNCHANGED <<qr, signed>>
  BY DEF history
<1> QED
  BY <1>1 DEF IInv, QrTrue, IsSigned

LEMMA CredKept == ASSUME IInv, UNCHANGED <<cred, history>> PROVE CredTrue'
<1>1. UNCHANGED <<cred, signed>>
  BY DEF history
<1> QED
  BY <1>1 DEF IInv, CredTrue, IsSigned

LEMMA AccountKept ==
    ASSUME IInv, UNCHANGED <<account, history>>
    PROVE  /\ RowTrue' /\ WorkerTrue' /\ NewestTyped' /\ RenewalsTyped' /\ LibraryTyped'
           /\ HistoryTrue' /\ Imported' /\ Renewed' /\ Pending'
<1>1. UNCHANGED <<row, worker, newest, renewals, library, signed, last, lost>>
  BY DEF account, history
<1> QED
  BY <1>1 DEF IInv, RowTrue, WorkerTrue, NewestTyped, RenewalsTyped, LibraryTyped,
     HistoryTrue, Imported, Renewed, Pending, IsSigned, SignedSet

LEMMA RowKept ==
    ASSUME IInv, UNCHANGED <<row, newest, renewals, history>>
    PROVE  RowTrue' /\ NewestTyped' /\ RenewalsTyped' /\ HistoryTrue' /\ Renewed' /\ Pending'
<1>1. UNCHANGED <<row, newest, renewals, signed, last, lost>>
  BY DEF history
<1> QED
  BY <1>1 DEF IInv, RowTrue, NewestTyped, RenewalsTyped, HistoryTrue, Renewed, Pending,
     IsSigned, SignedSet

LEMMA LibraryKept ==
    ASSUME IInv, UNCHANGED <<row, library, history>> PROVE LibraryTyped' /\ Imported'
<1>1. UNCHANGED <<row, library, signed>>
  BY DEF history
<1> QED
  BY <1>1 DEF IInv, LibraryTyped, Imported

LEMMA FaultsKept == ASSUME IInv, UNCHANGED faults PROVE FaultsTyped'
  BY DEF IInv, FaultsTyped

LEMMA FaultTyped == ASSUME IInv, Fault PROVE FaultsTyped'
  BY BoundsAssumption DEF IInv, FaultsTyped, Fault

LEMMA AnswersKept == ASSUME IInv, UNCHANGED <<answers, history>> PROVE AnswersTrue'
<1>1. UNCHANGED <<answers, signed>>
  BY DEF history
<1> QED
  BY <1>1 DEF IInv, AnswersTrue, IsSigned

LEMMA DialogKept == ASSUME IInv, UNCHANGED <<dialog, history>> PROVE DialogTrue'
<1>1. UNCHANGED <<dialog, signed>>
  BY DEF history
<1> QED
  BY <1>1 DEF IInv, DialogTrue, IsSigned

LEMMA TakeAnswerHand ==
    ASSUME IInv, NEW a \in answers, TakeAnswer(a)
    PROVE  AnswersTrue' /\ DialogTrue'
<1>1. signed' = signed /\ \A x \in Logins : IsSigned(x)' <=> IsSigned(x)
  BY DEF TakeAnswer, history, IsSigned
<1>2. /\ a.login \in Logins
      /\ a.what = "signed" => IsSigned(a.login)
      /\ a.what = "state" /\ a.value = "authenticated" => IsSigned(a.login)
      /\ a.what \in {"progress", "refreshed"} /\ a.value = "ok" => signed[a.login].told = "ok"
  BY DEF IInv, AnswersTrue
<1>3. CASE ~Current(a.login)
  BY <1>1, <1>3 DEF TakeAnswer, IInv, AnswersTrue, DialogTrue
<1>4. CASE Current(a.login)
  <2>1. Apply(a) /\ dialog.login = a.login
    BY <1>4 DEF TakeAnswer, Current
  <2>2. AnswersTrue'
    <3>1. ASSUME NEW y \in answers'
          PROVE  y \in answers \/ (a.what = "progress" /\ y = Answer(a.login, "refreshed", a.value))
      BY <2>1 DEF Apply
    <3>2. ASSUME NEW y \in answers', y = Answer(a.login, "refreshed", a.value),
                 a.what = "progress"
          PROVE  /\ y.login \in Logins /\ y.what = "refreshed"
                 /\ y.value = "ok" => signed[y.login].told = "ok"
      BY <1>2, <3>2 DEF Answer
    <3> QED
      BY <1>1, <3>1, <3>2 DEF IInv, AnswersTrue
  <2>3. DialogTrue'
    <3>1. /\ dialog \in [open : BOOLEAN, login : Logins \cup {None},
                         polling : {"none", "login", "progress"}, closing : BOOLEAN]
          /\ DialogTrue
      BY DEF IInv, DialogTrue
    <3>2. ASSUME NEW what \in {"none", "login", "progress"}, Polls(what),
                 what = "progress" => IsSigned(a.login)
          PROVE  DialogTrue'
      <4>1. /\ dialog' \in [open : BOOLEAN, login : Logins \cup {None},
                            polling : {"none", "login", "progress"}, closing : BOOLEAN]
            /\ dialog'.login = dialog.login /\ dialog'.polling = what
            /\ dialog'.closing = dialog.closing
        BY <3>1, <3>2 DEF Polls
      <4> QED
        BY <1>1, <1>2, <2>1, <3>1, <3>2, <4>1 DEF DialogTrue
    <3>3. CASE UNCHANGED dialog
      BY <1>1, <3>1, <3>3 DEF DialogTrue
    <3>4. CASE a.what = "refreshed"
               /\ dialog' = [dialog EXCEPT !.polling = "none", !.closing = (a.value = "ok")]
      <4>1. /\ dialog' \in [open : BOOLEAN, login : Logins \cup {None},
                            polling : {"none", "login", "progress"}, closing : BOOLEAN]
            /\ dialog'.login = dialog.login /\ dialog'.polling = "none"
            /\ dialog'.closing <=> a.value = "ok"
        BY <3>1, <3>4
      <4> QED
        BY <1>1, <1>2, <2>1, <3>4, <4>1 DEF DialogTrue
    <3> QED
      BY <1>2, <2>1, <3>2, <3>3, <3>4 DEF Apply
  <2> QED
    BY <2>2, <2>3
<1> QED
  BY <1>3, <1>4

(***************************************************************************)
(* The administrator                                                       *)
(***************************************************************************)

LEMMA BeginSetupInv ==
    ASSUME IInv, BeginSetup
    PROVE  IInv'
<1>1. AdminTrue'
  BY BoundsAssumption, NoneAssumption DEF IInv, BeginSetup, AdminTrue, account,
     browser, history, server, OneAdministrator, admins
<1>2. /\ QrTrue' /\ CredTrue' /\ RowTrue' /\ WorkerTrue' /\ NewestTyped'
      /\ RenewalsTyped' /\ LibraryTyped' /\ FaultsTyped' /\ HistoryTrue'
      /\ Imported' /\ Renewed' /\ Pending' /\ AnswersTrue' /\ DialogTrue'
  BY QrKept, CredKept, AccountKept, FaultsKept, AnswersKept, DialogKept DEF BeginSetup,
     server, browser
<1> QED
  BY <1>1, <1>2 DEF IInv

LEMMA CreateAdminInv ==
    ASSUME IInv, CreateAdmin
    PROVE  IInv'
<1>1. AdminTrue'
  BY CreateAdminHand
<1>2. UNCHANGED <<server, account, browser, history>>
  BY DEF CreateAdmin
<1>3. faults' = faults \/ Fault
  BY DEF CreateAdmin
<1>4. FaultsTyped'
  BY <1>3, FaultsKept, FaultTyped
<1>5. /\ QrTrue' /\ CredTrue' /\ RowTrue' /\ WorkerTrue' /\ NewestTyped'
      /\ RenewalsTyped' /\ LibraryTyped' /\ HistoryTrue'
      /\ Imported' /\ Renewed' /\ Pending' /\ AnswersTrue' /\ DialogTrue'
  BY <1>2, QrKept, CredKept, AccountKept, AnswersKept, DialogKept DEF server, browser
<1> QED
  BY <1>1, <1>4, <1>5 DEF IInv

(***************************************************************************)
(* The row and its token                                                   *)
(***************************************************************************)

LEMMA LogOnEndsInv ==
    ASSUME IInv, LogOnEnds
    PROVE  IInv'
<1>1. WorkerTrue'
  BY DEF IInv, LogOnEnds, WorkerTrue, admins, browser, history, server, WorkerOf,
     Logins, account
<1>2. LibraryTyped'
  BY DEF IInv, LogOnEnds, LibraryTyped, admins, browser, history, server, account
<1>3. Imported'
  BY DEF IInv, LogOnEnds, Imported, admins, browser, history, server, Logins, account
<1>4. /\ AdminTrue' /\ QrTrue' /\ CredTrue' /\ RowTrue' /\ NewestTyped'
      /\ RenewalsTyped' /\ FaultsTyped' /\ HistoryTrue' /\ Renewed' /\ Pending'
      /\ AnswersTrue' /\ DialogTrue'
  BY AdminKept, QrKept, CredKept, RowKept, FaultsKept, AnswersKept, DialogKept DEF
     LogOnEnds, server, browser
<1> QED
  BY <1>1, <1>2, <1>3, <1>4 DEF IInv

LEMMA DisconnectInv ==
    ASSUME IInv, Disconnect
    PROVE  IInv'
<1>1. WorkerTrue'
  BY DisconnectHand
<1>2. FaultsTyped'
  BY BoundsAssumption, NoneAssumption DEF IInv, Disconnect, FaultsTyped, Fault, admins,
     browser, history, server, account
<1>3. /\ AdminTrue' /\ QrTrue' /\ CredTrue' /\ RowTrue' /\ NewestTyped'
      /\ RenewalsTyped' /\ LibraryTyped' /\ HistoryTrue' /\ Imported' /\ Renewed'
      /\ Pending' /\ AnswersTrue' /\ DialogTrue'
  BY AdminKept, QrKept, CredKept, RowKept, LibraryKept, AnswersKept, DialogKept DEF
     Disconnect, server, browser
<1> QED
  BY <1>1, <1>2, <1>3 DEF IInv

LEMMA ImportEndsInv ==
    ASSUME IInv, ImportEnds
    PROVE  IInv'
<1>1. QrTrue'
  BY NoneAssumption DEF IInv, ImportEnds, QrTrue, Logins, admins, browser, server,
     IsSigned, Phases, QrStates, Unsigned, account, history, HistoryTrue, SignedSet,
     RowTrue, TokenOf, LibraryTyped
<1>2. CredTrue'
  BY NoneAssumption DEF IInv, ImportEnds, CredTrue, Logins, admins, browser, server,
     CredPhases, IsSigned, Unsigned, account, history, HistoryTrue, SignedSet, RowTrue,
     TokenOf, LibraryTyped
<1>3. RowTrue'
  BY DEF IInv, ImportEnds, RowTrue, Logins, admins, browser, server, TokenOf, account,
     history
<1>4. WorkerTrue'
  BY DEF IInv, ImportEnds, WorkerTrue, Logins, admins, browser, server, WorkerOf,
     account, history
<1>5. LibraryTyped'
  BY DEF IInv, ImportEnds, LibraryTyped, Logins, admins, browser, server, account,
     history
<1>6. Imported'
  BY NoneAssumption DEF IInv, ImportEnds, Imported, Logins, admins, browser, server,
     account, history, HistoryTrue, SignedSet, IsSigned, Unsigned
<1>7. Renewed'
  BY BoundsAssumption, NoneAssumption DEF IInv, ImportEnds, Renewed, Logins, admins,
     browser, server, IsSigned, Unsigned, account, history
<1>8. AdminTrue' /\ FaultsTyped'
  BY AdminKept, FaultsKept DEF ImportEnds
<1>9. NewestTyped' /\ RenewalsTyped' /\ Pending'
  BY DEF IInv, ImportEnds, AdminTrue, NewestTyped, RenewalsTyped, FaultsTyped, Pending,
     Logins, admins, browser, server, OneAdministrator, TokenOf, account, history
<1>10. HistoryTrue' /\ AnswersTrue' /\ DialogTrue'
  BY ImportEndsHand
<1> QED
  BY <1>1, <1>2, <1>3, <1>4, <1>5, <1>6, <1>7, <1>8, <1>9, <1>10 DEF IInv

LEMMA RenewInv ==
    ASSUME IInv, Renew
    PROVE  IInv'
<1>1. WorkerTrue'
  BY DEF IInv, Renew, WorkerTrue, admins, browser, history, server, WorkerOf, Logins,
     account
<1>2. RenewalsTyped'
  BY DEF IInv, Renew, RenewalsTyped, admins, browser, history, server, TokenOf, Logins,
     account, RowTrue, WorkerTrue, WorkerOf, NewestTyped
<1>3. /\ AdminTrue' /\ QrTrue' /\ CredTrue' /\ LibraryTyped' /\ FaultsTyped'
      /\ Imported' /\ AnswersTrue' /\ DialogTrue'
  BY AdminKept, QrKept, CredKept, LibraryKept, FaultsKept, AnswersKept, DialogKept DEF
     Renew, server, browser
<1>4. RowTrue' /\ HistoryTrue'
  BY DEF IInv, Renew, AdminTrue, QrTrue, CredTrue, RowTrue, LibraryTyped, FaultsTyped,
     HistoryTrue, Imported, AnswersTrue, DialogTrue, admins, browser, history, server,
     OneAdministrator, IsSigned, Phases, QrStates, CredPhases, TokenOf, Logins,
     SignedSet, Unsigned, account
<1>5. NewestTyped' /\ Renewed' /\ Pending'
  BY RenewHand
<1> QED
  BY <1>1, <1>2, <1>3, <1>4, <1>5 DEF IInv

LEMMA PersistRefreshTokenInv ==
    ASSUME IInv, PersistRefreshToken
    PROVE  IInv'
<1>1. RenewalsTyped'
  BY DEF IInv, PersistRefreshToken, RenewalsTyped, SameToken, admins, browser, history,
     server, TokenOf, Logins, account
<1>2. Imported'
  BY DEF IInv, PersistRefreshToken, Imported, SameToken, admins, browser, history,
     server, Logins, account
<1>3. AdminTrue' /\ QrTrue' /\ CredTrue' /\ FaultsTyped' /\ AnswersTrue' /\ DialogTrue'
  BY AdminKept, QrKept, CredKept, FaultsKept, AnswersKept, DialogKept DEF
     PersistRefreshToken, server, browser
<1>4. RowTrue' /\ WorkerTrue' /\ Renewed' /\ Pending'
  BY PersistRefreshTokenHand
<1>5. NewestTyped' /\ LibraryTyped' /\ HistoryTrue'
  BY DEF IInv, PersistRefreshToken, AdminTrue, QrTrue, CredTrue, WorkerTrue,
     NewestTyped, LibraryTyped, FaultsTyped, HistoryTrue, AnswersTrue, DialogTrue,
     SameToken, admins, browser, history, server, OneAdministrator, IsSigned, WorkerOf,
     Logins, SignedSet, Unsigned, account
<1> QED
  BY <1>1, <1>2, <1>3, <1>4, <1>5 DEF IInv

LEMMA PersistRefreshTokenFailsInv ==
    ASSUME IInv, PersistRefreshTokenFails
    PROVE  IInv'
<1>1. AdminTrue'
  BY AdminKept DEF PersistRefreshTokenFails
<1>2. RenewalsTyped'
  BY DEF IInv, PersistRefreshTokenFails, RenewalsTyped, Fault, admins, browser, server,
     TokenOf, Logins, account, history
<1>3. FaultsTyped'
  BY BoundsAssumption, NoneAssumption DEF IInv, PersistRefreshTokenFails, FaultsTyped,
     Fault, admins, browser, server, account, history
<1>4. /\ QrTrue' /\ CredTrue' /\ RowTrue' /\ WorkerTrue' /\ NewestTyped'
      /\ LibraryTyped' /\ Imported' /\ AnswersTrue' /\ DialogTrue'
  BY DEF IInv, PersistRefreshTokenFails, AdminTrue, QrTrue, CredTrue, RowTrue,
     WorkerTrue, NewestTyped, LibraryTyped, Imported, AnswersTrue, DialogTrue, Fault,
     admins, browser, server, OneAdministrator, IsSigned, Phases, QrStates, CredPhases,
     TokenOf, WorkerOf, Logins, Unsigned, account, history
<1>5. HistoryTrue' /\ Renewed' /\ Pending'
  BY PersistRefreshTokenFailsHand
<1> QED
  BY <1>1, <1>2, <1>3, <1>4, <1>5 DEF IInv

LEMMA DeleteAccountInv ==
    ASSUME IInv, DeleteAccount
    PROVE  IInv'
<1>1. RowTrue'
  BY DEF IInv, DeleteAccount, RowTrue, Fault, admins, browser, history, server,
     TokenOf, Logins, account
<1>2. WorkerTrue'
  BY DEF IInv, DeleteAccount, WorkerTrue, Fault, admins, browser, history, server,
     WorkerOf, Logins, account
<1>3. LibraryTyped'
  BY DEF IInv, DeleteAccount, LibraryTyped, Fault, admins, browser, history, server,
     account
<1>4. FaultsTyped'
  BY BoundsAssumption, NoneAssumption DEF IInv, DeleteAccount, FaultsTyped, Fault,
     admins, browser, history, server, account
<1>5. Imported'
  BY DEF IInv, DeleteAccount, Imported, Fault, admins, browser, history, server,
     Logins, account
<1>6. Pending'
  BY DEF IInv, DeleteAccount, Pending, Fault, admins, browser, history, server, account
<1>7. AdminTrue' /\ QrTrue' /\ CredTrue' /\ AnswersTrue' /\ DialogTrue'
  BY AdminKept, QrKept, CredKept, AnswersKept, DialogKept DEF DeleteAccount, server,
     browser
<1>8. NewestTyped' /\ RenewalsTyped' /\ HistoryTrue' /\ Renewed'
  BY DEF IInv, DeleteAccount, AdminTrue, QrTrue, CredTrue, NewestTyped, RenewalsTyped,
     HistoryTrue, Renewed, AnswersTrue, DialogTrue, Fault, admins, browser, history,
     server, OneAdministrator, IsSigned, Phases, QrStates, CredPhases, Logins, TokenOf,
     SignedSet, Unsigned, account
<1> QED
  BY <1>1, <1>2, <1>3, <1>4, <1>5, <1>6, <1>7, <1>8 DEF IInv

(***************************************************************************)
(* QR logins                                                               *)
(***************************************************************************)

LEMMA AuthenticatedInv ==
    ASSUME IInv, NEW q \in QrLogins, Authenticated(q)
    PROVE  IInv'
<1>1. QrTrue'
  BY NoneAssumption DEF IInv, Authenticated, QrTrue, Completing, Listening, Persist,
     Terminal, admins, browser, history, IsSigned, Phases, QrStates, Logins, Unsigned,
     server, account, HistoryTrue, SignedSet
<1>2. Renewed'
  BY NoneAssumption DEF IInv, Authenticated, Renewed, Completing, Listening, Persist,
     Terminal, admins, browser, history, IsSigned, Logins, Unsigned, server, account,
     HistoryTrue, SignedSet
<1>3. AnswersTrue'
  BY NoneAssumption DEF IInv, Authenticated, AnswersTrue, Completing, Listening,
     Persist, Terminal, admins, browser, history, IsSigned, Logins, Unsigned, server,
     account, HistoryTrue, SignedSet
<1>4. DialogTrue'
  BY NoneAssumption DEF IInv, Authenticated, DialogTrue, Completing, Listening,
     Persist, Terminal, admins, browser, history, IsSigned, Logins, Unsigned, server,
     account, HistoryTrue, SignedSet
<1>5. AdminTrue' /\ FaultsTyped'
  BY AdminKept, FaultsKept DEF Authenticated
<1>6. CredTrue' /\ RowTrue' /\ WorkerTrue' /\ HistoryTrue' /\ Imported' /\ Pending'
  BY AuthenticatedPersists
<1>7. NewestTyped' /\ RenewalsTyped' /\ LibraryTyped'
  BY DEF IInv, Authenticated, AdminTrue, NewestTyped, RenewalsTyped, LibraryTyped,
     FaultsTyped, Completing, Listening, Persist, Terminal, admins, browser, history,
     OneAdministrator, Logins, TokenOf, IsSigned, Unsigned, server, account
<1> QED
  BY <1>1, <1>2, <1>3, <1>4, <1>5, <1>6, <1>7 DEF IInv

LEMMA StartedInv ==
    ASSUME IInv, NEW q \in QrLogins, Started(q)
    PROVE  IInv'
<1>1. QrTrue'
  BY DEF IInv, Started, QrTrue, Completing, IsSigned, StartWorker, Terminal, admins,
     browser, history, Phases, QrStates, Unsigned, server, account
<1>2. WorkerTrue'
  BY NoneAssumption DEF IInv, Started, WorkerTrue, Completing, IsSigned, StartWorker,
     Terminal, admins, browser, history, WorkerOf, Unsigned, Logins, server, account,
     HistoryTrue, SignedSet, RowTrue, TokenOf, LibraryTyped
<1>3. /\ AdminTrue' /\ CredTrue' /\ RowTrue' /\ NewestTyped' /\ RenewalsTyped'
      /\ LibraryTyped' /\ FaultsTyped' /\ HistoryTrue' /\ Imported' /\ Renewed'
      /\ Pending' /\ AnswersTrue' /\ DialogTrue'
  BY AdminKept, CredKept, RowKept, LibraryKept, FaultsKept, AnswersKept, DialogKept DEF
     Started, browser
<1> QED
  BY <1>1, <1>2, <1>3 DEF IInv

LEMMA ExpiredInv ==
    ASSUME IInv, NEW q \in QrLogins, Expired(q)
    PROVE  IInv'
<1>1. QrTrue'
  BY DEF IInv, Expired, QrTrue, Terminal, account, admins, browser, history, IsSigned,
     Phases, QrStates, Unsigned, server
<1>2. /\ AdminTrue' /\ CredTrue' /\ RowTrue' /\ WorkerTrue' /\ NewestTyped'
      /\ RenewalsTyped' /\ LibraryTyped' /\ FaultsTyped' /\ HistoryTrue'
      /\ Imported' /\ Renewed' /\ Pending' /\ AnswersTrue' /\ DialogTrue'
  BY AdminKept, CredKept, AccountKept, FaultsKept, AnswersKept, DialogKept DEF Expired,
     browser
<1> QED
  BY <1>1, <1>2 DEF IInv

LEMMA ForgottenInv ==
    ASSUME IInv, NEW q \in QrLogins, Forgotten(q)
    PROVE  IInv'
<1>1. QrTrue'
  BY DEF IInv, Forgotten, QrTrue, Forgettable, NoQr, account, admins, browser, history,
     IsSigned, Phases, QrStates, Unsigned, server
<1>2. /\ AdminTrue' /\ CredTrue' /\ RowTrue' /\ WorkerTrue' /\ NewestTyped'
      /\ RenewalsTyped' /\ LibraryTyped' /\ FaultsTyped' /\ HistoryTrue'
      /\ Imported' /\ Renewed' /\ Pending' /\ AnswersTrue' /\ DialogTrue'
  BY AdminKept, CredKept, AccountKept, FaultsKept, AnswersKept, DialogKept DEF
     Forgotten, browser
<1> QED
  BY <1>1, <1>2 DEF IInv

(***************************************************************************)
(* Logins by password                                                      *)
(***************************************************************************)

LEMMA SteamDecidesInv ==
    ASSUME IInv, NEW c \in Credentials, SteamDecides(c)
    PROVE  IInv'
<1>1. CredTrue'
  BY SteamDecidesHand
<1>2. AnswersTrue'
  BY DEF IInv, SteamDecides, AnswersTrue, Answer, account, admins, history, IsSigned,
     Logins, Unsigned, server, browser
<1>3. /\ AdminTrue' /\ QrTrue' /\ RowTrue' /\ WorkerTrue' /\ NewestTyped'
      /\ RenewalsTyped' /\ LibraryTyped' /\ FaultsTyped' /\ HistoryTrue'
      /\ Imported' /\ Renewed' /\ Pending' /\ DialogTrue'
  BY AdminKept, QrKept, AccountKept, FaultsKept, DialogKept DEF SteamDecides
<1> QED
  BY <1>1, <1>2, <1>3 DEF IInv

LEMMA GuardConfirmedInv ==
    ASSUME IInv, NEW c \in Credentials, GuardConfirmed(c)
    PROVE  IInv'
<1>1. CredTrue'
  BY GuardConfirmedHand
<1>2. /\ AdminTrue' /\ QrTrue' /\ RowTrue' /\ WorkerTrue' /\ NewestTyped'
      /\ RenewalsTyped' /\ LibraryTyped' /\ FaultsTyped' /\ HistoryTrue'
      /\ Imported' /\ Renewed' /\ Pending' /\ AnswersTrue' /\ DialogTrue'
  BY AdminKept, QrKept, AccountKept, FaultsKept, AnswersKept, DialogKept DEF
     GuardConfirmed, browser
<1> QED
  BY <1>1, <1>2 DEF IInv

LEMMA PersistOnceInv ==
    ASSUME IInv, NEW c \in Credentials, PersistOnce(c)
    PROVE  IInv'
<1>1. AdminTrue' /\ FaultsTyped'
  BY AdminKept, FaultsKept DEF PersistOnce
<1>2. /\ QrTrue' /\ CredTrue' /\ RowTrue' /\ WorkerTrue' /\ HistoryTrue'
      /\ Imported' /\ Renewed' /\ Pending' /\ AnswersTrue' /\ DialogTrue'
  BY PersistOnceKeeps
<1>3. NewestTyped' /\ RenewalsTyped' /\ LibraryTyped'
  BY DEF IInv, PersistOnce, AdminTrue, NewestTyped, RenewalsTyped, LibraryTyped,
     FaultsTyped, Persist, Persisted, admins, browser, history, OneAdministrator,
     Logins, TokenOf, IsSigned, Unsigned, server, account
<1> QED
  BY <1>1, <1>2, <1>3 DEF IInv

LEMMA CredentialsStartedInv ==
    ASSUME IInv, NEW c \in Credentials, CredentialsStarted(c)
    PROVE  IInv'
<1>1. CredTrue'
  BY DEF IInv, CredentialsStarted, CredTrue, Answer, StartWorker, admins, history,
     CredPhases, IsSigned, Unsigned, server, account, browser
<1>2. WorkerTrue'
  BY NoneAssumption DEF IInv, CredentialsStarted, WorkerTrue, Answer, StartWorker,
     admins, history, WorkerOf, Logins, server, account, browser, HistoryTrue,
     SignedSet, IsSigned, Unsigned, RowTrue, TokenOf, LibraryTyped
<1>3. AnswersTrue'
  BY DEF IInv, CredentialsStarted, AnswersTrue, Answer, StartWorker, admins, history,
     IsSigned, Logins, Unsigned, server, account, browser, QrTrue, CredTrue, QrStates,
     CredPhases, Phases
<1>4. /\ AdminTrue' /\ QrTrue' /\ RowTrue' /\ NewestTyped' /\ RenewalsTyped'
      /\ LibraryTyped' /\ FaultsTyped' /\ HistoryTrue' /\ Imported' /\ Renewed'
      /\ Pending' /\ DialogTrue'
  BY AdminKept, QrKept, RowKept, LibraryKept, FaultsKept, DialogKept DEF
     CredentialsStarted
<1> QED
  BY <1>1, <1>2, <1>3, <1>4 DEF IInv

(***************************************************************************)
(* The dialog and the process                                              *)
(***************************************************************************)

LEMMA OpenDialogInv ==
    ASSUME IInv, OpenDialog
    PROVE  IInv'
<1>1. DialogTrue'
  BY DEF IInv, OpenDialog, DialogTrue, NewFlow, account, admins, history, server,
     IsSigned, Logins, Unsigned, browser
<1>2. /\ AdminTrue' /\ QrTrue' /\ CredTrue' /\ RowTrue' /\ WorkerTrue'
      /\ NewestTyped' /\ RenewalsTyped' /\ LibraryTyped' /\ FaultsTyped'
      /\ HistoryTrue' /\ Imported' /\ Renewed' /\ Pending' /\ AnswersTrue'
  BY AdminKept, QrKept, CredKept, AccountKept, FaultsKept, AnswersKept DEF OpenDialog,
     server
<1> QED
  BY <1>1, <1>2 DEF IInv

LEMMA SwitchModeInv ==
    ASSUME IInv, SwitchMode
    PROVE  IInv'
<1>1. DialogTrue'
  BY DEF IInv, SwitchMode, DialogTrue, NewFlow, account, admins, history, server,
     IsSigned, Logins, Unsigned, browser
<1>2. /\ AdminTrue' /\ QrTrue' /\ CredTrue' /\ RowTrue' /\ WorkerTrue'
      /\ NewestTyped' /\ RenewalsTyped' /\ LibraryTyped' /\ FaultsTyped'
      /\ HistoryTrue' /\ Imported' /\ Renewed' /\ Pending' /\ AnswersTrue'
  BY AdminKept, QrKept, CredKept, AccountKept, FaultsKept, AnswersKept DEF SwitchMode,
     server
<1> QED
  BY <1>1, <1>2 DEF IInv

LEMMA CloseDialogInv ==
    ASSUME IInv, CloseDialog
    PROVE  IInv'
<1>1. DialogTrue'
  BY DEF IInv, CloseDialog, DialogTrue, Closed, account, admins, history, server,
     IsSigned, Logins, Unsigned, browser
<1>2. /\ AdminTrue' /\ QrTrue' /\ CredTrue' /\ RowTrue' /\ WorkerTrue'
      /\ NewestTyped' /\ RenewalsTyped' /\ LibraryTyped' /\ FaultsTyped'
      /\ HistoryTrue' /\ Imported' /\ Renewed' /\ Pending' /\ AnswersTrue'
  BY AdminKept, QrKept, CredKept, AccountKept, FaultsKept, AnswersKept DEF CloseDialog,
     server
<1> QED
  BY <1>1, <1>2 DEF IInv

LEMMA CloseTimerInv ==
    ASSUME IInv, CloseTimer
    PROVE  IInv'
<1>1. DialogTrue'
  BY DEF IInv, CloseTimer, DialogTrue, Closed, account, admins, history, server,
     IsSigned, Logins, Unsigned, browser
<1>2. /\ AdminTrue' /\ QrTrue' /\ CredTrue' /\ RowTrue' /\ WorkerTrue'
      /\ NewestTyped' /\ RenewalsTyped' /\ LibraryTyped' /\ FaultsTyped'
      /\ HistoryTrue' /\ Imported' /\ Renewed' /\ Pending' /\ AnswersTrue'
  BY AdminKept, QrKept, CredKept, AccountKept, FaultsKept, AnswersKept DEF CloseTimer,
     server
<1> QED
  BY <1>1, <1>2 DEF IInv

LEMMA StartQrInv ==
    ASSUME IInv, NEW q \in QrLogins, StartQr(q)
    PROVE  IInv'
<1>1. QrTrue'
  BY DEF IInv, StartQr, QrTrue, Answer, NewFlow, NoQr, account, admins, history,
     IsSigned, Phases, QrStates, Unsigned, server, browser
<1>2. AnswersTrue'
  BY DEF IInv, StartQr, AnswersTrue, Answer, NewFlow, NoQr, account, admins, history,
     IsSigned, Logins, Unsigned, server, browser
<1>3. DialogTrue'
  BY DEF IInv, StartQr, DialogTrue, Answer, NewFlow, NoQr, account, admins, history,
     IsSigned, Logins, Unsigned, server, browser
<1>4. /\ AdminTrue' /\ CredTrue' /\ RowTrue' /\ WorkerTrue' /\ NewestTyped'
      /\ RenewalsTyped' /\ LibraryTyped' /\ FaultsTyped' /\ HistoryTrue'
      /\ Imported' /\ Renewed' /\ Pending'
  BY AdminKept, CredKept, AccountKept, FaultsKept DEF StartQr
<1> QED
  BY <1>1, <1>2, <1>3, <1>4 DEF IInv

LEMMA SubmitCredentialsInv ==
    ASSUME IInv, NEW c \in Credentials, SubmitCredentials(c)
    PROVE  IInv'
<1>1. CredTrue'
  BY SubmitCredentialsHand
<1>2. DialogTrue'
  BY DEF IInv, SubmitCredentials, DialogTrue, NewFlow, NoCred, account, admins,
     history, IsSigned, Logins, Unsigned, server, browser
<1>3. /\ AdminTrue' /\ QrTrue' /\ RowTrue' /\ WorkerTrue' /\ NewestTyped'
      /\ RenewalsTyped' /\ LibraryTyped' /\ FaultsTyped' /\ HistoryTrue'
      /\ Imported' /\ Renewed' /\ Pending' /\ AnswersTrue'
  BY AdminKept, QrKept, AccountKept, FaultsKept, AnswersKept DEF SubmitCredentials
<1> QED
  BY <1>1, <1>2, <1>3 DEF IInv

LEMMA PollLoginInv ==
    ASSUME IInv, PollLogin
    PROVE  IInv'
<1>1. AnswersTrue'
  BY DEF IInv, PollLogin, AnswersTrue, Answer, Waits, account, admins, history, server,
     IsSigned, Logins, Unsigned, browser, QrTrue, CredTrue, QrStates, CredPhases,
     Phases
<1>2. /\ AdminTrue' /\ QrTrue' /\ CredTrue' /\ RowTrue' /\ WorkerTrue'
      /\ NewestTyped' /\ RenewalsTyped' /\ LibraryTyped' /\ FaultsTyped'
      /\ HistoryTrue' /\ Imported' /\ Renewed' /\ Pending' /\ DialogTrue'
  BY AdminKept, QrKept, CredKept, AccountKept, FaultsKept, DialogKept DEF PollLogin,
     server
<1> QED
  BY <1>1, <1>2 DEF IInv

LEMMA PollProgressInv ==
    ASSUME IInv, PollProgress
    PROVE  IInv'
<1>1. AnswersTrue'
  BY DEF IInv, PollProgress, AnswersTrue, Answer, Logins, Progress, Waits, account,
     admins, history, server, IsSigned, Unsigned, browser
<1>2. /\ AdminTrue' /\ QrTrue' /\ CredTrue' /\ RowTrue' /\ WorkerTrue'
      /\ NewestTyped' /\ RenewalsTyped' /\ LibraryTyped' /\ FaultsTyped'
      /\ HistoryTrue' /\ Imported' /\ Renewed' /\ Pending' /\ DialogTrue'
  BY AdminKept, QrKept, CredKept, AccountKept, FaultsKept, DialogKept DEF PollProgress,
     server
<1> QED
  BY <1>1, <1>2 DEF IInv

LEMMA TakeAnswerInv ==
    ASSUME IInv, NEW a \in answers, TakeAnswer(a)
    PROVE  IInv'
<1>1. /\ AdminTrue' /\ QrTrue' /\ CredTrue' /\ RowTrue' /\ WorkerTrue'
      /\ NewestTyped' /\ RenewalsTyped' /\ LibraryTyped' /\ FaultsTyped'
      /\ HistoryTrue' /\ Imported' /\ Renewed' /\ Pending'
  BY AdminKept, QrKept, CredKept, AccountKept, FaultsKept DEF TakeAnswer, server
<1>2. AnswersTrue' /\ DialogTrue'
  BY TakeAnswerHand
<1> QED
  BY <1>1, <1>2 DEF IInv

LEMMA LoseAnswerInv ==
    ASSUME IInv, NEW a \in answers, LoseAnswer(a)
    PROVE  IInv'
<1>1. FaultsTyped'
  BY BoundsAssumption, NoneAssumption DEF IInv, LoseAnswer, FaultsTyped, Fault,
     account, admins, history, server, browser
<1>2. AnswersTrue'
  BY DEF IInv, LoseAnswer, AnswersTrue, Fault, account, admins, history, server,
     IsSigned, Logins, Unsigned, browser
<1>3. /\ AdminTrue' /\ QrTrue' /\ CredTrue' /\ RowTrue' /\ WorkerTrue'
      /\ NewestTyped' /\ RenewalsTyped' /\ LibraryTyped' /\ HistoryTrue'
      /\ Imported' /\ Renewed' /\ Pending' /\ DialogTrue'
  BY AdminKept, QrKept, CredKept, AccountKept, DialogKept DEF LoseAnswer, server
<1> QED
  BY <1>1, <1>2, <1>3 DEF IInv

LEMMA CrashInv ==
    ASSUME IInv, Crash
    PROVE  IInv'
<1>1. AdminTrue'
  BY BoundsAssumption, NoneAssumption DEF IInv, Crash, AdminTrue, Fault, NoCred, NoQr,
     OneAdministrator, admins, server, account, browser, history
<1>2. QrTrue'
  BY DEF IInv, Crash, QrTrue, Fault, NoCred, NoQr, IsSigned, Phases, QrStates,
     Unsigned, admins, server, account, browser, history
<1>3. WorkerTrue'
  BY NoneAssumption DEF IInv, Crash, WorkerTrue, Fault, NoCred, NoQr, WorkerOf, Logins,
     admins, server, account, browser, history, HistoryTrue, SignedSet, IsSigned,
     Unsigned, RowTrue, TokenOf, LibraryTyped
<1>4. RenewalsTyped'
  BY DEF IInv, Crash, RenewalsTyped, Fault, NoCred, NoQr, TokenOf, Logins, admins,
     server, account, browser, history
<1>5. LibraryTyped'
  BY DEF IInv, Crash, LibraryTyped, Fault, NoCred, NoQr, admins, server, account,
     browser, history
<1>6. FaultsTyped'
  BY BoundsAssumption, NoneAssumption DEF IInv, Crash, FaultsTyped, Fault, NoCred,
     NoQr, admins, server, account, browser, history
<1>7. Imported'
  BY DEF IInv, Crash, Imported, Fault, NoCred, NoQr, Logins, admins, server, account,
     browser, history
<1>8. Renewed'
  BY DEF IInv, Crash, Renewed, Fault, NoCred, NoQr, IsSigned, Logins, Unsigned, admins,
     server, account, browser, history
<1>9. Pending'
  BY DEF IInv, Crash, Pending, Fault, NoCred, NoQr, admins, server, account, browser,
     history
<1>10. AnswersTrue'
  BY DEF IInv, Crash, AnswersTrue, Fault, NoCred, NoQr, IsSigned, Logins, Unsigned,
     admins, server, account, browser, history
<1>11. CredTrue' /\ HistoryTrue'
  BY CrashHand
<1>12. RowTrue' /\ NewestTyped' /\ DialogTrue'
  BY DEF IInv, Crash, RowTrue, NewestTyped, DialogTrue, Fault, NoCred, NoQr, TokenOf,
     Logins, IsSigned, Unsigned, admins, server, account, browser, history
<1> QED
  BY <1>1, <1>2, <1>3, <1>4, <1>5, <1>6, <1>7, <1>8, <1>9, <1>10, <1>11, <1>12 DEF IInv

(***************************************************************************)
(* The invariant                                                           *)
(***************************************************************************)

LEMMA InitInv == Init => IInv
<1> SUFFICES ASSUME Init PROVE IInv
  OBVIOUS
<1>1. /\ hashing = 0 /\ accepted = 0 /\ admin = FALSE /\ activeToken = TRUE
      /\ qr = [q \in QrLogins |-> NoQr] /\ cred = [c \in Credentials |-> NoCred]
      /\ row = None /\ worker = None /\ newest = [x \in Logins |-> 0]
      /\ renewals = <<>> /\ library = "none"
      /\ dialog = Closed /\ answers = {} /\ faults = 0
      /\ signed = [x \in Logins |-> Unsigned] /\ last = None /\ lost = {}
  BY DEF Init
<1>2. MaxSetups \in Nat /\ MaxRenewals \in Nat /\ MaxFaults \in Nat /\ 0 \in 0..2
  BY BoundsAssumption
<1>3. /\ \A x \in Logins : ~IsSigned(x) /\ signed[x] = Unsigned
      /\ \A q \in QrLogins : q \in Logins
      /\ \A c \in Credentials : c \in Logins
  BY <1>1 DEF IsSigned, Logins
<1>4. SignedSet = {}
  BY <1>3 DEF SignedSet
<1>5. AdminTrue
  <2>1. 0 \in 0..MaxSetups /\ 0 \in Nat /\ 0 <= 1 /\ 0 # 1
    BY <1>2
  <2>2. OneAdministrator
    BY <1>1, <2>1 DEF OneAdministrator
  <2> QED
    BY <1>1, <2>1, <2>2 DEF AdminTrue
<1>6. QrTrue
  BY <1>1, <1>3 DEF QrTrue, NoQr, Phases, QrStates
<1>7. CredTrue
  BY <1>1, <1>2, <1>3 DEF CredTrue, NoCred, CredPhases
<1>8. HistoryTrue
  BY <1>1, <1>3, <1>4, FS_EmptySet DEF HistoryTrue, Unsigned
<1>9. RowTrue /\ WorkerTrue /\ Imported /\ Pending
  BY <1>1 DEF RowTrue, WorkerTrue, Imported, Pending
<1>10. NewestTyped /\ RenewalsTyped /\ LibraryTyped /\ FaultsTyped
  BY <1>1, <1>2 DEF NewestTyped, RenewalsTyped, LibraryTyped, FaultsTyped
<1>11. Renewed
  BY <1>1 DEF Renewed
<1>12. AnswersTrue /\ DialogTrue
  BY <1>1 DEF AnswersTrue, DialogTrue, Closed
<1> QED
  BY <1>5, <1>6, <1>7, <1>8, <1>9, <1>10, <1>11, <1>12 DEF IInv

LEMMA StutterInv == IInv /\ UNCHANGED vars => IInv'
<1> SUFFICES ASSUME IInv, UNCHANGED vars PROVE IInv'
  OBVIOUS
<1>1. UNCHANGED <<admins, qr, cred, account, dialog, answers, faults, history>>
  BY DEF vars, server, browser
<1> QED
  BY <1>1, AdminKept, QrKept, CredKept, AccountKept, FaultsKept, AnswersKept, DialogKept
     DEF IInv

LEMMA NextInv == IInv /\ [Next]_vars => IInv'
<1> SUFFICES ASSUME IInv, [Next]_vars PROVE IInv'
  OBVIOUS
<1>1. CASE UNCHANGED vars
  BY <1>1, StutterInv
<1>2. CASE Administrator
  BY <1>2, BeginSetupInv, CreateAdminInv DEF Administrator
<1>3. CASE Token
  BY <1>3, LogOnEndsInv, DisconnectInv, ImportEndsInv, RenewInv, PersistRefreshTokenInv,
     PersistRefreshTokenFailsInv, DeleteAccountInv DEF Token
<1>4. ASSUME NEW q \in QrLogins, Qr(q) PROVE IInv'
  BY <1>4, AuthenticatedInv, StartedInv, ExpiredInv, ForgottenInv DEF Qr
<1>5. ASSUME NEW c \in Credentials, Credential(c) PROVE IInv'
  BY <1>5, SteamDecidesInv, GuardConfirmedInv, PersistOnceInv, CredentialsStartedInv
     DEF Credential
<1>6. CASE Dialog
  BY <1>6, OpenDialogInv, SwitchModeInv, CloseDialogInv, CloseTimerInv, StartQrInv,
     SubmitCredentialsInv, PollLoginInv, PollProgressInv, TakeAnswerInv, LoseAnswerInv
     DEF Dialog
<1>7. CASE Crash
  BY <1>7, CrashInv
<1> QED
  BY <1>1, <1>2, <1>3, <1>4, <1>5, <1>6, <1>7 DEF Next

LEMMA Invariance == Spec => []IInv
  BY InitInv, NextInv, PTL DEF Spec

(***************************************************************************)
(* The theorems                                                            *)
(***************************************************************************)

\* Whatever Steam, the browser and the process do, a login is in a phase that login.ts
\* knows, the token of a login was renewed at most as often as Steam renews it, and the
\* dialog polls for a login that it shows.
THEOREM TypeCorrect == Spec => []TypeOK
<1> SUFFICES ASSUME IInv PROVE TypeOK
  BY Invariance, PTL
<1>1. /\ hashing \in 0..MaxSetups /\ {admin, activeToken} \subseteq BOOLEAN
      /\ newest \in [Logins -> 0..MaxRenewals] /\ faults \in 0..MaxFaults
      /\ library \in {"none", "importing", "imported"}
      /\ last \in Logins \cup {None} /\ lost \subseteq Logins
  BY DEF IInv, AdminTrue, NewestTyped, FaultsTyped, LibraryTyped, HistoryTrue
<1>2. \A q \in QrLogins :
        /\ qr[q].phase \in Phases
        /\ qr[q].state \in {"pending", "authenticated", "expired", "error"}
  BY DEF IInv, QrTrue, QrStates
<1>3. \A c \in Credentials :
        /\ cred[c].phase \in {"none", "asked", "guard", "granted", "saved", "signed",
                              "failed", "gone"}
        /\ cred[c].calls \in 0..2 /\ cred[c].waits \in BOOLEAN
  BY CredOf DEF CredPhases
<1>4. \A x \in Logins : signed[x].told \in {None, "ok", "error"}
  BY DEF IInv, HistoryTrue
<1>5. dialog.polling # "none" => dialog.login \in Logins
  BY DEF IInv, DialogTrue
<1> QED
  BY <1>1, <1>2, <1>3, <1>4, <1>5 DEF TypeOK

\* However many setups hash at the same time and however often the process restarts,
\* createAdmin accepts one of them and the setup token is used up with it.
THEOREM OneAdministratorHolds == Spec => []OneAdministrator
<1>1. IInv => OneAdministrator
  BY DEF IInv, AdminTrue
<1> QED
  BY <1>1, Invariance, PTL

\* The row holds the newest token of the login that was stored last, or the renewals that
\* are missing are queued in their order (credentialQueue) or were reported as lost; and
\* what the server and the dialog say of a login has happened.
THEOREM LoginsAreTrueHolds == Spec => []LoginsAreTrue
<1> SUFFICES ASSUME IInv PROVE LoginsAreTrue
  BY Invariance, PTL
<1>1. TokenIsNewest
  <2> SUFFICES ASSUME row # None, row.by \notin lost,
                      \A i \in DOMAIN renewals : renewals[i].by # row.by
               PROVE  row.n = newest[row.by]
    BY DEF TokenIsNewest, IInv, RowTrue
  <2>1. row.n \in Nat /\ newest[row.by] \in 0..MaxRenewals /\ MaxRenewals \in Nat
    BY InUse, BoundsAssumption DEF TokenOf, IInv, NewestTyped
  <2>2. row.n <= newest[row.by]
    BY DEF IInv, Pending
  <2> SUFFICES ASSUME row.n < newest[row.by] PROVE FALSE
    BY <2>1, <2>2
  <2>3. row.n \in 0..MaxRenewals /\ row.n <= row.n
    BY <2>1
  <2>4. PICK i \in DOMAIN renewals :
            renewals[i] = [id |-> row.id, by |-> row.by, n |-> row.n]
    BY <2>3 DEF IInv, Pending
  <2> QED
    BY <2>4
<1>2. SignInIsTold
  BY DEF SignInIsTold, IInv, QrTrue, DialogTrue
<1> QED
  BY <1>1, <1>2 DEF LoginsAreTrue
=============================================================================
