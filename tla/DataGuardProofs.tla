-------------------------- MODULE DataGuardProofs --------------------------
(***************************************************************************)
(* What holds of DataGuard for every set of servers and restores and every *)
(* number of versions: its invariants, and that the directory keeps what   *)
(* DataDirectory promises.                                                 *)
(***************************************************************************)
EXTENDS DataGuard, TLAPS

(***************************************************************************)
(* The inductive invariant                                                 *)
(***************************************************************************)

\* A process takes the steps of its own program, and only the owner takes any.
Owned ==
    /\ \A p \in Servers : pc[p] \in {"off"} \cup ServerSteps
    /\ \A p \in Restores : pc[p] \in {"off"} \cup RestoreSteps
    /\ \A p \in Processes : pc[p] # "off" => lock = p

\* The database is open from OpenDatabase to the end of the close or of the process.
Opened ==
    /\ \A p \in Servers : p \in open <=> pc[p] \in {"running", "closing", "failed"}
    /\ \A p \in Servers : pc[p] = "keyed" => data["secret"] # 0
    /\ open # {} => data["sqlite"] # 0

\* The fence keeps servers out, and covers every restore that may have touched a file.
Fenced ==
    /\ fence => lock \notin Servers
    /\ "staging" \in dirs => fence
    /\ \A p \in Restores : pc[p] \in RestoreSteps \ {"leaving"} => fence
    /\ \A p \in Restores : pc[p] = "leaving" /\ safe => fence /\ "staging" \notin dirs
    /\ \A p \in Restores : pc[p] = "checking" => "staging" \notin dirs /\ data["sqlite"] = last

\* Versions are counted as they are made.
Counted ==
    /\ last <= made /\ \A v \in unmerged : v <= made
    /\ \A f \in Files : data[f] <= made /\ prior[f] <= made
    /\ last = 0 => unmerged = {}

\* Nothing is half replaced: one database, not older than the last that was used.
Settled ==
    "staging" \notin dirs =>
        /\ Whole /\ last <= data["sqlite"]
        /\ ~fence => data["sqlite"] = last
        /\ rollback # Empty => \A f \in Files : prior[f] # 0 => rollback[f] = prior[f]

\* The places of one file while it is replaced: as found, moved aside, installed.
Found(f)  == data[f] = prior[f] /\ rollback[f] = 0
Moved(f)  == data[f] = 0 /\ rollback[f] = prior[f]
Swapped(f) == data[f] = made /\ rollback[f] = prior[f] /\ staging[f] = 0

Staged(f) == staging[f] = IF f = "log" THEN 0 ELSE made

\* What the restore found was the database last used, and is all there; the backup is
\* of a version of its own.
Replacing ==
    "staging" \in dirs =>
        /\ prior["sqlite"] = last
        /\ IF prior["sqlite"] = 0 THEN prior["log"] = 0
           ELSE /\ prior["secret"] = prior["sqlite"]
                /\ prior["log"] = IF prior["sqlite"] \in unmerged THEN prior["sqlite"] ELSE 0
        /\ last < made /\ made \notin unmerged
        /\ \A f \in Files : \/ Staged(f) /\ (Found(f) \/ Moved(f))
                            \/ f # "log" /\ Swapped(f)

\* How far the restore is.
Phase(p) ==
    /\ pc[p] \in {"staging", "moving", "installing", "verifying", "undoing"} =>
          "staging" \in dirs
    /\ pc[p] = "staging" => \A f \in Files : Staged(f) /\ Found(f)
    /\ pc[p] = "moving" => \A f \in Files : Staged(f)
    /\ pc[p] \in {"installing", "verifying"} => rollback = prior
    /\ pc[p] = "verifying" => staging = Empty
    /\ pc[p] \in {"moving", "installing", "verifying"} => "rollback" \in dirs

Phases ==
    /\ \A p \in Restores : Phase(p)
    /\ rollback # Empty => "rollback" \in dirs

IInv ==
    /\ TypeOK /\ Owned /\ Opened /\ Fenced /\ Counted
    /\ Settled /\ Replacing /\ Phases

(***************************************************************************)
(* One file at a time                                                      *)
(***************************************************************************)

LEMMA FirstAndLast ==
    ASSUME NEW set \in SUBSET (1..3), set # {}
    PROVE  Min(set) \in set /\ Max(set) \in set
<1>1. \E i \in set : \A j \in set : i <= j
  <2>1. CASE 1 \in set
    BY <2>1
  <2>2. CASE 1 \notin set /\ 2 \in set
    BY <2>2
  <2>3. CASE 1 \notin set /\ 2 \notin set
    <3>1. PICK i \in set : TRUE
      OBVIOUS
    <3>2. i = 3 /\ \A j \in set : j = 3
      BY <2>3
    <3> QED
      BY <3>2
  <2> QED
    BY <2>1, <2>2, <2>3
<1>2. \E i \in set : \A j \in set : i >= j
  <2>1. CASE 3 \in set
    BY <2>1
  <2>2. CASE 3 \notin set /\ 2 \in set
    BY <2>2
  <2>3. CASE 3 \notin set /\ 2 \notin set
    <3>1. PICK i \in set : TRUE
      OBVIOUS
    <3>2. i = 1 /\ \A j \in set : j = 1
      BY <2>3
    <3> QED
      BY <3>2
  <2> QED
    BY <2>1, <2>2, <2>3
<1> QED
  BY <1>1, <1>2 DEF Min, Max

\* The first and the last file of a list that are in a set are in it.
LEMMA OneOfList ==
    ASSUME NEW list, NEW set, DOMAIN list \in SUBSET (1..3),
           \E i \in DOMAIN list : list[i] \in set
    PROVE  FirstOf(list, set) \in set /\ LastOf(list, set) \in set
<1>1. Places(list, set) \in SUBSET (1..3) /\ Places(list, set) # {}
  BY DEF Places
<1>2. Min(Places(list, set)) \in Places(list, set) /\ Max(Places(list, set)) \in Places(list, set)
  BY <1>1, FirstAndLast
<1> QED
  BY <1>2 DEF Places, FirstOf, LastOf

LEMMA OneOfCurrent ==
    ASSUME NEW set \in SUBSET Files, set # {}
    PROVE  FirstOf(Current, set) \in set /\ LastOf(Current, set) \in set
<1>1. DOMAIN Current = 1..3
  BY DEF Current
<1>2. Current[1] = "sqlite" /\ Current[2] = "log" /\ Current[3] = "secret"
  BY DEF Current
<1>3. PICK f \in set : f \in {"sqlite", "log", "secret"}
  BY DEF Files
<1>4. \E i \in {1, 2, 3} : Current[i] = f
  BY <1>2, <1>3
<1> QED
  BY <1>1, <1>4, OneOfList

LEMMA OneOfBackup ==
    ASSUME NEW set \in SUBSET {"sqlite", "secret"}, set # {}
    PROVE  FirstOf(Backup, set) \in set /\ LastOf(Backup, set) \in set
<1>1. DOMAIN Backup = 1..2
  BY DEF Backup
<1>2. Backup[1] = "sqlite" /\ Backup[2] = "secret"
  BY DEF Backup
<1>3. PICK f \in set : f \in {"sqlite", "secret"}
  OBVIOUS
<1>4. \E i \in {1, 2} : Backup[i] = f
  BY <1>2, <1>3
<1> QED
  BY <1>1, <1>4, OneOfList

\* MoveAside, Install and Undo as the step they take for one file, whichever is next.
StillThere == UNCHANGED <<pc, dirs, made, safe, prior>> /\ OnlyFiles

MoveFile(p, f) ==
    /\ pc[p] = "moving" /\ data[f] # 0
    /\ data' = Removed(data, f) /\ rollback' = Added(rollback, f, data[f])
    /\ staging' = staging /\ StillThere

AllMoved(p) ==
    /\ pc[p] = "moving" /\ In(data) = {}
    /\ Go(p, "installing")
    /\ UNCHANGED <<data, staging, rollback, dirs, made, safe, prior>> /\ OnlyFiles

InstallFile(p, f) ==
    /\ pc[p] = "installing" /\ staging[f] # 0
    /\ staging' = Removed(staging, f) /\ data' = Added(data, f, staging[f])
    /\ rollback' = rollback /\ StillThere

AllInstalled(p) ==
    /\ pc[p] = "installing" /\ staging = Empty
    /\ Go(p, "verifying")
    /\ UNCHANGED <<data, staging, rollback, dirs, made, safe, prior>> /\ OnlyFiles

UninstallFile(p, f) ==
    /\ pc[p] = "undoing" /\ f \in Placed
    /\ data' = Removed(data, f) /\ staging' = Added(staging, f, data[f])
    /\ rollback' = rollback /\ StillThere

MoveFileBack(p, f) ==
    /\ pc[p] = "undoing" /\ Placed = {} /\ rollback[f] # 0
    /\ rollback' = Removed(rollback, f) /\ data' = Added(data, f, rollback[f])
    /\ staging' = staging /\ StillThere

AllUndone(p) ==
    /\ pc[p] = "undoing" /\ Placed = {} /\ rollback = Empty
    /\ dirs' = {} /\ staging' = Empty /\ safe' = TRUE /\ Go(p, "leaving")
    /\ UNCHANGED <<data, rollback, made, prior>> /\ OnlyFiles

LEMMA MoveAsideSteps ==
    ASSUME NEW p, MoveAside(p)
    PROVE  AllMoved(p) \/ \E f \in Files : MoveFile(p, f)
<1>1. CASE Aside # {}
  <2> DEFINE f == FirstOf(Current, Aside)
  <2>1. f \in Aside
    BY <1>1, OneOfCurrent DEF Aside, In
  <2>2. MoveFile(p, f)
    BY <1>1, <2>1 DEF MoveAside, MoveFile, StillThere, OnlyFiles, Aside, In
  <2> QED
    BY <2>1, <2>2 DEF Aside, In
<1>2. CASE Aside = {}
  BY <1>2 DEF MoveAside, AllMoved, Aside
<1> QED
  BY <1>1, <1>2

LEMMA InstallSteps ==
    ASSUME NEW p, Install(p), staging \in [Files -> Versions], staging["log"] = 0
    PROVE  AllInstalled(p) \/ \E f \in {"sqlite", "secret"} : InstallFile(p, f)
<1>1. CASE staging # Empty
  <2> DEFINE f == FirstOf(Backup, In(staging))
  <2>1. In(staging) \in SUBSET {"sqlite", "secret"} /\ In(staging) # {}
    BY <1>1 DEF In, Files, Empty
  <2>2. f \in In(staging)
    BY <2>1, OneOfBackup
  <2>3. InstallFile(p, f)
    BY <1>1, <2>2 DEF Install, InstallFile, StillThere, OnlyFiles, In
  <2> QED
    BY <2>1, <2>2, <2>3
<1>2. CASE staging = Empty
  BY <1>2 DEF Install, AllInstalled
<1> QED
  BY <1>1, <1>2

LEMMA UndoSteps ==
    ASSUME NEW p, Undo(p), rollback \in [Files -> Versions]
    PROVE  \/ AllUndone(p)
           \/ \E f \in {"sqlite", "secret"} : UninstallFile(p, f)
           \/ \E f \in Files : MoveFileBack(p, f)
<1>1. CASE Placed # {}
  <2> DEFINE f == LastOf(Backup, Placed)
  <2>1. Placed \in SUBSET {"sqlite", "secret"}
    BY DEF Placed, In, Files
  <2>2. f \in Placed
    BY <1>1, <2>1, OneOfBackup
  <2>3. UninstallFile(p, f)
    BY <1>1, <2>2 DEF Undo, UndoInstall, UninstallFile, StillThere, OnlyFiles
  <2> QED
    BY <2>1, <2>2, <2>3
<1>2. CASE Placed = {} /\ rollback # Empty
  <2> DEFINE f == LastOf(Current, In(rollback))
  <2>1. In(rollback) \in SUBSET Files /\ In(rollback) # {}
    BY <1>2 DEF In, Empty
  <2>2. f \in In(rollback)
    BY <2>1, OneOfCurrent
  <2>3. MoveFileBack(p, f)
    BY <1>2, <2>2 DEF Undo, UndoInstall, MoveFileBack, StillThere, OnlyFiles, In
  <2> QED
    BY <2>1, <2>2, <2>3
<1>3. CASE Placed = {} /\ rollback = Empty
  BY <1>3 DEF Undo, UndoInstall, AllUndone
<1> QED
  BY <1>1, <1>2, <1>3

(***************************************************************************)
(* The lease                                                               *)
(***************************************************************************)

LEMMA AcquireInv ==
    ASSUME IInv, NEW p \in Processes, Acquire(p)
    PROVE  IInv'
<1>1. TypeOK'
  BY ProcessesAssumption DEF IInv, Acquire, TypeOK, Available, Go, UnchangedFiles,
     Processes, ServerSteps
<1>2. Owned'
  BY ProcessesAssumption DEF IInv, Acquire, Owned, Available, Go, Processes, ServerSteps
<1>3. Opened'
  BY DEF IInv, Acquire, Opened, Go, UnchangedFiles
<1>4. Fenced'
  BY DEF IInv, Acquire, Fenced, Available, Go, UnchangedFiles, RestoreSteps
<1>5. Phases'
  BY DEF IInv, Acquire, Phases, Go, UnchangedFiles, Phase, Found, Staged
<1>6. Counted' /\ Settled' /\ Replacing'
  BY DEF IInv, Acquire, Counted, Settled, Replacing, UnchangedFiles, Whole, Found,
     Moved, Swapped, Staged
<1> QED
  BY <1>1, <1>2, <1>3, <1>4, <1>5, <1>6 DEF IInv

LEMMA AcquireForRestoreInv ==
    ASSUME IInv, NEW p \in Processes, AcquireForRestore(p)
    PROVE  IInv'
<1>1. TypeOK'
  BY ProcessesAssumption DEF IInv, AcquireForRestore, TypeOK, Available, Go,
     UnchangedFiles, Processes, RestoreSteps
<1>2. Owned'
  BY ProcessesAssumption DEF IInv, AcquireForRestore, Owned, Available, Go, Processes,
     RestoreSteps
<1>3. Opened'
  BY DEF IInv, AcquireForRestore, Opened, Go, UnchangedFiles
<1>4. Fenced'
  BY ProcessesAssumption DEF IInv, AcquireForRestore, Fenced, Available,
     UnchangedFiles, Settled
<1>5. Settled'
  BY DEF IInv, AcquireForRestore, Settled, UnchangedFiles, Whole
<1>6. Phases'
  BY DEF IInv, AcquireForRestore, Phases, Go, UnchangedFiles, Phase, Found, Staged
<1>7. Counted' /\ Replacing'
  BY DEF IInv, AcquireForRestore, Counted, Replacing, UnchangedFiles, Found, Moved,
     Swapped, Staged
<1> QED
  BY <1>1, <1>2, <1>3, <1>4, <1>5, <1>6, <1>7 DEF IInv

LEMMA ReleaseInv ==
    ASSUME IInv, NEW p \in Processes, Release(p)
    PROVE  IInv'
<1>1. TypeOK'
  BY DEF IInv, Release, TypeOK, Freed, Go, UnchangedFiles, RestoreSteps
<1>2. Owned'
  BY DEF IInv, Release, Owned, Go, TypeOK
<1>3. Opened'
  BY DEF IInv, Release, Opened, Go, UnchangedFiles
<1>4. Fenced'
  BY ProcessesAssumption DEF IInv, Release, Fenced, Freed, Go, UnchangedFiles,
     RestoreSteps
<1>5. Phases'
  BY DEF IInv, Release, Phases, Go, UnchangedFiles, Phase, Found, Staged
<1>6. Counted' /\ Settled' /\ Replacing'
  BY DEF IInv, Release, Counted, Settled, Replacing, UnchangedFiles, Whole, Found,
     Moved, Swapped, Staged
<1> QED
  BY <1>1, <1>2, <1>3, <1>4, <1>5, <1>6 DEF IInv

LEMMA CompleteRestoreType ==
    ASSUME IInv, NEW p \in Processes, CompleteRestore(p)
    PROVE  TypeOK'
<1>1. p \in Restores /\ fence /\ lock = p
  BY DEF CompleteRestore, IInv, Owned, Fenced, Processes, ServerSteps
<1>2. \A q \in Processes : pc[q] # "off" => q = p
  BY <1>1 DEF IInv, Owned
<1>3. data["sqlite"] \in Versions
  BY DEF IInv, TypeOK, Files
<1> QED
  BY <1>1, <1>2, <1>3 DEF CompleteRestore, IInv, TypeOK, Processes, RestoreSteps

LEMMA CompleteRestoreInv ==
    ASSUME IInv, NEW p \in Processes, CompleteRestore(p)
    PROVE  IInv'
<1>1. TypeOK'
  BY CompleteRestoreType
<1>2. Fenced'
  BY DEF IInv, CompleteRestore, Fenced, RestoreSteps, Owned, Processes
<1>3. Counted'
  BY DEF IInv, CompleteRestore, Counted, Files, TypeOK, Versions, Processes, Fenced,
     Settled
<1>4. Settled'
  BY DEF IInv, CompleteRestore, Settled, Files, Whole, TypeOK, Versions
<1>5. Replacing'
  BY DEF IInv, CompleteRestore, Replacing, Owned, Processes, Fenced
<1>6. Owned' /\ Opened' /\ Phases'
  BY DEF IInv, CompleteRestore, Owned, Opened, Phases, Phase, Found, Staged
<1> QED
  BY <1>1, <1>2, <1>3, <1>4, <1>5, <1>6 DEF IInv

LEMMA DieInv ==
    ASSUME IInv, NEW p \in Processes, Die(p)
    PROVE  IInv'
<1>1. TypeOK'
  BY DEF IInv, Die, TypeOK, Freed, Go, UnchangedFiles, RestoreSteps
<1>2. Owned'
  BY DEF IInv, Die, Owned, Go, TypeOK
<1>3. Opened'
  BY DEF IInv, Die, Opened, Go, TypeOK, Processes
<1>4. Fenced'
  BY ProcessesAssumption DEF IInv, Die, Fenced, Freed, Go, UnchangedFiles, RestoreSteps
<1>5. Phases'
  BY DEF IInv, Die, Phases, Go, UnchangedFiles, Phase, Found, Staged
<1>6. Counted' /\ Settled' /\ Replacing'
  BY DEF IInv, Die, Counted, Settled, Replacing, UnchangedFiles, Whole, Found, Moved,
     Swapped, Staged
<1> QED
  BY <1>1, <1>2, <1>3, <1>4, <1>5, <1>6 DEF IInv

(***************************************************************************)
(* The server                                                              *)
(***************************************************************************)

LEMMA ReadSecretInv ==
    ASSUME IInv, NEW p \in Processes, ReadSecret(p)
    PROVE  IInv'
<1>1. TypeOK'
  BY ProcessesAssumption DEF IInv, ReadSecret, TypeOK, Go, ServerSteps, Versions, Owned
<1>2. Owned'
  BY DEF IInv, ReadSecret, Owned, Go, RestoreSteps, ServerSteps
<1>3. Opened'
  BY DEF IInv, ReadSecret, Opened, Go, TypeOK, Files, Versions
<1>4. Fenced'
  BY DEF IInv, ReadSecret, Fenced, Go, Owned, Processes
<1>5. Counted'
  BY DEF IInv, ReadSecret, Counted, TypeOK, Versions
<1>6. Settled'
  BY DEF IInv, ReadSecret, Settled, Files, Whole, TypeOK
<1>7. Replacing'
  BY DEF IInv, ReadSecret, Replacing, Owned, Processes, Fenced, RestoreSteps
<1>8. Phases'
  BY DEF IInv, ReadSecret, Phases, Go, Phase, Owned, Processes
<1> QED
  BY <1>1, <1>2, <1>3, <1>4, <1>5, <1>6, <1>7, <1>8 DEF IInv

LEMMA OpenDatabaseInv ==
    ASSUME IInv, NEW p \in Processes, OpenDatabase(p)
    PROVE  IInv'
<1>1. TypeOK'
  BY DEF IInv, OpenDatabase, TypeOK, Go, Files, Processes, RestoreSteps, ServerSteps,
     Owned
<1>2. Owned'
  BY DEF IInv, OpenDatabase, Owned, Go, RestoreSteps, ServerSteps
<1>3. Opened'
  BY DEF IInv, OpenDatabase, Opened, Go, TypeOK, Owned, Files, Processes, RestoreSteps
<1>4. Fenced'
  BY DEF IInv, OpenDatabase, Fenced, Go, RestoreSteps
<1>5. Counted'
  BY DEF IInv, OpenDatabase, Counted, Files, Owned, Processes, Fenced, RestoreSteps,
     Settled
<1>6. Settled'
  BY DEF IInv, OpenDatabase, Settled, Files, Whole, TypeOK, Versions, Counted
<1>7. Replacing'
  BY DEF IInv, OpenDatabase, Replacing, Owned, Processes, Fenced, RestoreSteps
<1>8. Phases'
  BY DEF IInv, OpenDatabase, Phases, Go, Phase, Owned, Processes
<1> QED
  BY <1>1, <1>2, <1>3, <1>4, <1>5, <1>6, <1>7, <1>8 DEF IInv

LEMMA BuildFailsInv ==
    ASSUME IInv, NEW p \in Processes, BuildFails(p)
    PROVE  IInv'
<1>1. TypeOK'
  BY DEF IInv, BuildFails, TypeOK, Go, UnchangedFiles, RestoreSteps, ServerSteps
<1>2. Owned'
  BY DEF IInv, BuildFails, Owned, Go, RestoreSteps, ServerSteps
<1>3. Opened'
  BY DEF IInv, BuildFails, Opened, Go, UnchangedFiles
<1>4. Fenced'
  BY DEF IInv, BuildFails, Fenced, Go, UnchangedFiles, RestoreSteps
<1>5. Phases'
  BY DEF IInv, BuildFails, Phases, Go, UnchangedFiles, Phase, Found, Staged
<1>6. Counted' /\ Settled' /\ Replacing'
  BY DEF IInv, BuildFails, Counted, Settled, Replacing, UnchangedFiles, Whole, Found,
     Moved, Swapped, Staged
<1> QED
  BY <1>1, <1>2, <1>3, <1>4, <1>5, <1>6 DEF IInv

LEMMA CommitInv ==
    ASSUME IInv, NEW p \in Processes, Commit(p)
    PROVE  IInv'
<1>1. TypeOK'
  BY ProcessesAssumption DEF IInv, Commit, TypeOK, Files, Versions
<1>2. Owned'
  BY DEF IInv, Commit, Owned
<1>3. Opened'
  BY DEF IInv, Commit, Opened, TypeOK, Files
<1>4. Fenced'
  BY DEF IInv, Commit, Fenced, TypeOK, Files
<1>5. Counted'
  BY DEF IInv, Commit, Counted, TypeOK, Versions, Opened, Fenced, Settled
<1>6. Settled'
  BY DEF IInv, Commit, Settled, Files, Whole, TypeOK
<1>7. Replacing'
  BY DEF IInv, Commit, Replacing, TypeOK, Opened, Fenced
<1>8. Phases'
  BY DEF IInv, Commit, Phases, Phase, TypeOK, Opened, Fenced
<1> QED
  BY <1>1, <1>2, <1>3, <1>4, <1>5, <1>6, <1>7, <1>8 DEF IInv

LEMMA CloseInv ==
    ASSUME IInv, NEW p \in Processes, Close(p)
    PROVE  IInv'
<1>1. TypeOK'
  BY DEF IInv, Close, TypeOK, Go, UnchangedFiles, RestoreSteps, ServerSteps
<1>2. Owned'
  BY DEF IInv, Close, Owned, Go, RestoreSteps, ServerSteps
<1>3. Opened'
  BY DEF IInv, Close, Opened, Go, UnchangedFiles
<1>4. Fenced'
  BY DEF IInv, Close, Fenced, Go, UnchangedFiles, RestoreSteps
<1>5. Phases'
  BY DEF IInv, Close, Phases, Go, UnchangedFiles, Phase, Found, Staged
<1>6. Counted' /\ Settled' /\ Replacing'
  BY DEF IInv, Close, Counted, Settled, Replacing, UnchangedFiles, Whole, Found, Moved,
     Swapped, Staged
<1> QED
  BY <1>1, <1>2, <1>3, <1>4, <1>5, <1>6 DEF IInv

LEMMA CloseSucceedsInv ==
    ASSUME IInv, NEW p \in Processes, CloseSucceeds(p)
    PROVE  IInv'
<1>1. TypeOK'
  BY DEF IInv, CloseSucceeds, TypeOK, Go, UnchangedFiles, RestoreSteps, ServerSteps
<1>2. Owned'
  BY DEF IInv, CloseSucceeds, Owned, Go, RestoreSteps, ServerSteps
<1>3. Opened'
  BY DEF IInv, CloseSucceeds, Opened, Go, TypeOK, Processes
<1>4. Fenced'
  BY DEF IInv, CloseSucceeds, Fenced, Go, UnchangedFiles, RestoreSteps
<1>5. Phases'
  BY DEF IInv, CloseSucceeds, Phases, Go, UnchangedFiles, Phase, Found, Staged
<1>6. Counted' /\ Settled' /\ Replacing'
  BY DEF IInv, CloseSucceeds, Counted, Settled, Replacing, UnchangedFiles, Whole,
     Found, Moved, Swapped, Staged
<1> QED
  BY <1>1, <1>2, <1>3, <1>4, <1>5, <1>6 DEF IInv

LEMMA CloseFailsInv ==
    ASSUME IInv, NEW p \in Processes, CloseFails(p)
    PROVE  IInv'
<1>1. TypeOK'
  BY DEF IInv, CloseFails, TypeOK, AfterDeadline, Go, UnchangedFiles, RestoreSteps,
     ServerSteps
<1>2. Owned'
  BY DEF IInv, CloseFails, Owned, AfterDeadline, Go, RestoreSteps, ServerSteps
<1>3. Opened'
  BY DEF IInv, CloseFails, Opened, AfterDeadline, Go, UnchangedFiles
<1>4. Fenced'
  BY DEF IInv, CloseFails, Fenced, AfterDeadline, Go, UnchangedFiles, RestoreSteps
<1>5. Phases'
  BY DEF IInv, CloseFails, Phases, AfterDeadline, Go, UnchangedFiles, Phase, Found,
     Staged
<1>6. Counted' /\ Settled' /\ Replacing'
  BY DEF IInv, CloseFails, Counted, Settled, Replacing, UnchangedFiles, Whole, Found,
     Moved, Swapped, Staged
<1> QED
  BY <1>1, <1>2, <1>3, <1>4, <1>5, <1>6 DEF IInv

(***************************************************************************)
(* The restore                                                             *)
(***************************************************************************)

LEMMA DeclineInv ==
    ASSUME IInv, NEW p \in Processes, Decline(p)
    PROVE  IInv'
<1>1. TypeOK'
  BY DEF IInv, Decline, TypeOK, Go, UnchangedFiles, RestoreSteps
<1>2. Owned'
  BY DEF IInv, Decline, Owned, Go, RestoreSteps, ServerSteps
<1>3. Opened'
  BY DEF IInv, Decline, Opened, Go, UnchangedFiles
<1>4. Fenced'
  BY DEF IInv, Decline, Fenced, Go, UnchangedFiles, RestoreSteps
<1>5. Phases'
  BY DEF IInv, Decline, Phases, Go, UnchangedFiles, Phase, Found, Staged
<1>6. Counted' /\ Settled' /\ Replacing'
  BY DEF IInv, Decline, Counted, Settled, Replacing, UnchangedFiles, Whole, Found,
     Moved, Swapped, Staged
<1> QED
  BY <1>1, <1>2, <1>3, <1>4, <1>5, <1>6 DEF IInv

LEMMA StageType ==
    ASSUME IInv, NEW p \in Processes, Stage(p)
    PROVE  TypeOK'
<1>1. made + 1 \in Versions /\ 0 \in Versions
  BY ProcessesAssumption DEF Stage, IInv, TypeOK, Versions
<1>2. staging' \in [Files -> Versions] /\ prior' \in [Files -> Versions]
  BY <1>1 DEF Stage, IInv, TypeOK
<1>3. pc' \in [Processes -> {"off"} \cup ServerSteps \cup RestoreSteps]
  BY DEF Stage, Go, IInv, TypeOK, RestoreSteps
<1>4. \A q \in Processes : pc'[q] # "off" => lock' = q
  BY DEF Stage, Go, OnlyFiles, IInv, TypeOK
<1>5. \A q \in Restores : pc'[q] \in RestoreSteps \ {"leaving"} => fence'
  BY DEF Stage, Go, OnlyFiles, IInv, TypeOK, RestoreSteps, Processes
<1>6. dirs' \subseteq {"staging", "rollback"} /\ safe' \in BOOLEAN
  BY DEF Stage
<1> QED
  BY <1>1, <1>2, <1>3, <1>4, <1>5, <1>6 DEF Stage, OnlyFiles, IInv, TypeOK

LEMMA StageInv ==
    ASSUME IInv, NEW p \in Processes, Stage(p)
    PROVE  IInv'
<1>1. TypeOK'
  BY StageType
<1>2. Owned'
  BY DEF IInv, Stage, Owned, Go, OnlyFiles, RestoreSteps, ServerSteps
<1>3. Opened'
  BY DEF IInv, Stage, Opened, Go, OnlyFiles
<1>4. Fenced'
  BY DEF IInv, Stage, Fenced, Go, OnlyFiles, TypeOK, Owned, Processes, ServerSteps
<1>5. Counted'
  BY DEF IInv, Stage, Counted, OnlyFiles, TypeOK, Versions
<1>6. Settled'
  BY DEF IInv, Stage, Settled
<1>7. Replacing'
  BY DEF IInv, Stage, Replacing, OnlyFiles, Found, Staged, TypeOK, Versions, Processes,
     Fenced, Counted, Settled, Whole, Phases, Empty
<1>8. Phases'
  BY DEF IInv, Stage, Phases, Go, Empty, Phase, Found, Staged
<1> QED
  BY <1>1, <1>2, <1>3, <1>4, <1>5, <1>6, <1>7, <1>8 DEF IInv

LEMMA StagingFailsInv ==
    ASSUME IInv, NEW p \in Processes, StagingFails(p)
    PROVE  IInv'
<1>1. TypeOK'
  BY ProcessesAssumption DEF IInv, StagingFails, TypeOK, Empty, Go, OnlyFiles,
     RestoreSteps, Versions
<1>2. Owned'
  BY DEF IInv, StagingFails, Owned, Go, OnlyFiles, RestoreSteps, ServerSteps
<1>3. Opened'
  BY DEF IInv, StagingFails, Opened, Go, OnlyFiles
<1>4. Fenced'
  BY DEF IInv, StagingFails, Fenced, Go, OnlyFiles, Owned, Processes
<1>5. Counted'
  BY DEF IInv, StagingFails, Counted, OnlyFiles
<1>6. Settled'
  BY DEF IInv, StagingFails, Settled, Empty, OnlyFiles, Whole, TypeOK, Versions,
     Processes, Fenced, Replacing, Phases, Phase, Found
<1>7. Replacing'
  BY DEF IInv, StagingFails, Replacing
<1>8. Phases'
  BY DEF IInv, StagingFails, Phases, Empty, Go, Phase, Found, TypeOK, Owned, Processes,
     ServerSteps
<1> QED
  BY <1>1, <1>2, <1>3, <1>4, <1>5, <1>6, <1>7, <1>8 DEF IInv

LEMMA BeginInstallInv ==
    ASSUME IInv, NEW p \in Processes, BeginInstall(p)
    PROVE  IInv'
<1>1. TypeOK'
  BY DEF IInv, BeginInstall, TypeOK, Go, OnlyFiles, RestoreSteps
<1>2. Owned'
  BY DEF IInv, BeginInstall, Owned, Go, OnlyFiles, RestoreSteps, ServerSteps
<1>3. Opened'
  BY DEF IInv, BeginInstall, Opened, Go, OnlyFiles
<1>4. Fenced'
  BY DEF IInv, BeginInstall, Fenced, Go, OnlyFiles, RestoreSteps
<1>5. Counted'
  BY DEF IInv, BeginInstall, Counted, OnlyFiles
<1>6. Settled'
  BY DEF IInv, BeginInstall, Settled, OnlyFiles, Whole
<1>7. Replacing'
  BY DEF IInv, BeginInstall, Replacing, OnlyFiles, Found, Moved, Swapped, Staged
<1>8. Phases'
  BY DEF IInv, BeginInstall, Phases, Go, Phase, Found, Staged
<1> QED
  BY <1>1, <1>2, <1>3, <1>4, <1>5, <1>6, <1>7, <1>8 DEF IInv

LEMMA MoveFileInv ==
    ASSUME IInv, NEW p \in Processes, NEW f \in Files, MoveFile(p, f)
    PROVE  IInv'
<1>1. TypeOK'
  BY DEF IInv, MoveFile, TypeOK, Added, Removed, StillThere, Files, Processes,
     ServerSteps, OnlyFiles, Owned, Phases, Phase, Staged
<1>2. Owned'
  BY DEF IInv, MoveFile, Owned, StillThere, OnlyFiles
<1>3. Opened'
  BY DEF IInv, MoveFile, Opened, StillThere, OnlyFiles, TypeOK, Processes
<1>4. Fenced'
  BY DEF IInv, MoveFile, Fenced, StillThere, OnlyFiles, Owned, Processes
<1>5. Counted'
  BY DEF IInv, MoveFile, Counted, Removed, StillThere, OnlyFiles, TypeOK, Versions
<1>6. Settled'
  BY DEF IInv, MoveFile, Settled, StillThere, Owned, Processes, ServerSteps, Phases,
     Phase
<1>7. Replacing'
  BY DEF IInv, MoveFile, Replacing, Added, Removed, StillThere, Found, Moved, Swapped,
     Staged, OnlyFiles, TypeOK, Processes, Fenced, Phases, Phase
<1>8. Phases'
  BY DEF IInv, MoveFile, Phases, StillThere, Phase, Staged, Owned, Processes,
     ServerSteps
<1> QED
  BY <1>1, <1>2, <1>3, <1>4, <1>5, <1>6, <1>7, <1>8 DEF IInv

LEMMA AllMovedInv ==
    ASSUME IInv, NEW p \in Processes, AllMoved(p)
    PROVE  IInv'
<1>1. TypeOK'
  BY DEF IInv, AllMoved, TypeOK, Go, OnlyFiles, RestoreSteps
<1>2. Owned'
  BY DEF IInv, AllMoved, Owned, Go, OnlyFiles, RestoreSteps, ServerSteps
<1>3. Opened'
  BY DEF IInv, AllMoved, Opened, Go, OnlyFiles
<1>4. Fenced'
  BY DEF IInv, AllMoved, Fenced, Go, OnlyFiles, RestoreSteps
<1>5. Phases'
  BY DEF IInv, AllMoved, Phases, Go, In, Phase, Found, Staged, TypeOK, Replacing,
     Moved, Swapped
<1>6. Counted' /\ Settled' /\ Replacing'
  BY DEF IInv, AllMoved, Counted, Settled, Replacing, OnlyFiles, Whole, Found, Moved,
     Swapped, Staged
<1> QED
  BY <1>1, <1>2, <1>3, <1>4, <1>5, <1>6 DEF IInv

LEMMA MoveAsideInv ==
    ASSUME IInv, NEW p \in Processes, MoveAside(p)
    PROVE  IInv'
  BY MoveAsideSteps, MoveFileInv, AllMovedInv

LEMMA InstallFileInv ==
    ASSUME IInv, NEW p \in Processes, NEW f \in {"sqlite", "secret"}, InstallFile(p, f)
    PROVE  IInv'
<1>1. TypeOK'
  BY DEF IInv, InstallFile, TypeOK, Added, Removed, StillThere, Files, Processes,
     ServerSteps, OnlyFiles, Owned, Replacing, Phases, Phase, Staged
<1>2. Owned'
  BY DEF IInv, InstallFile, Owned, StillThere, OnlyFiles
<1>3. Opened'
  BY DEF IInv, InstallFile, Opened, Added, StillThere, OnlyFiles
<1>4. Fenced'
  BY DEF IInv, InstallFile, Fenced, StillThere, OnlyFiles, Owned, Processes
<1>5. Counted'
  BY DEF IInv, InstallFile, Counted, Added, StillThere, OnlyFiles, TypeOK, Versions,
     Owned, Processes, ServerSteps, Replacing, Swapped, Phases, Phase, Staged
<1>6. Settled'
  BY DEF IInv, InstallFile, Settled, StillThere, Owned, Processes, ServerSteps, Phases,
     Phase
<1>7. Replacing'
  BY DEF IInv, InstallFile, Replacing, Added, Removed, StillThere, Found, Moved,
     Swapped, Staged, OnlyFiles, TypeOK, Processes, Fenced, Phases, Phase
<1>8. Phases'
  BY DEF IInv, InstallFile, Phases, StillThere, Phase, Owned, Processes
<1> QED
  BY <1>1, <1>2, <1>3, <1>4, <1>5, <1>6, <1>7, <1>8 DEF IInv

LEMMA AllInstalledInv ==
    ASSUME IInv, NEW p \in Processes, AllInstalled(p)
    PROVE  IInv'
<1>1. TypeOK'
  BY DEF IInv, AllInstalled, TypeOK, Go, OnlyFiles, RestoreSteps
<1>2. Owned'
  BY DEF IInv, AllInstalled, Owned, Go, OnlyFiles, RestoreSteps, ServerSteps
<1>3. Opened'
  BY DEF IInv, AllInstalled, Opened, Go, OnlyFiles
<1>4. Fenced'
  BY DEF IInv, AllInstalled, Fenced, Go, OnlyFiles, RestoreSteps
<1>5. Phases'
  BY DEF IInv, AllInstalled, Phases, Go, Phase, Found, Staged
<1>6. Counted' /\ Settled' /\ Replacing'
  BY DEF IInv, AllInstalled, Counted, Settled, Replacing, OnlyFiles, Whole, Found,
     Moved, Swapped, Staged
<1> QED
  BY <1>1, <1>2, <1>3, <1>4, <1>5, <1>6 DEF IInv

LEMMA InstallInv ==
    ASSUME IInv, NEW p \in Processes, Install(p)
    PROVE  IInv'
<1>1. p \in Restores /\ "staging" \in dirs
  BY DEF Install, IInv, Owned, Phases, Phase, Processes, ServerSteps
<1>2. staging \in [Files -> Versions] /\ staging["log"] = 0
  BY <1>1 DEF IInv, TypeOK, Replacing, Staged, Files
<1> QED
  BY <1>2, InstallSteps, InstallFileInv, AllInstalledInv

LEMMA InstalledInv ==
    ASSUME IInv, NEW p \in Processes, Installed(p)
    PROVE  IInv'
<1>1. TypeOK'
  BY DEF IInv, Installed, TypeOK, Go, OnlyFiles, RestoreSteps
<1>2. Owned'
  BY DEF IInv, Installed, Owned, Go, OnlyFiles, RestoreSteps, ServerSteps
<1>3. Opened'
  BY DEF IInv, Installed, Opened, Go, OnlyFiles
<1>4. Fenced'
  BY DEF IInv, Installed, Fenced, Go, OnlyFiles, Owned, Processes
<1>5. Counted'
  BY DEF IInv, Installed, Counted, OnlyFiles
<1>6. Settled'
  BY DEF IInv, Installed, Settled, OnlyFiles, Empty, Files, Whole, TypeOK, Versions,
     Processes, Fenced, Replacing, Moved, Swapped, Phases, Phase, Found, Staged
<1>7. Replacing'
  BY DEF IInv, Installed, Replacing
<1>8. Phases'
  BY DEF IInv, Installed, Phases, Go, Phase, TypeOK, Processes
<1> QED
  BY <1>1, <1>2, <1>3, <1>4, <1>5, <1>6, <1>7, <1>8 DEF IInv

LEMMA InstallFailsInv ==
    ASSUME IInv, NEW p \in Processes, InstallFails(p)
    PROVE  IInv'
<1>1. TypeOK'
  BY DEF IInv, InstallFails, TypeOK, Go, UnchangedFiles, RestoreSteps
<1>2. Owned'
  BY DEF IInv, InstallFails, Owned, Go, RestoreSteps, ServerSteps
<1>3. Opened'
  BY DEF IInv, InstallFails, Opened, Go, UnchangedFiles
<1>4. Fenced'
  BY DEF IInv, InstallFails, Fenced, Go, UnchangedFiles, RestoreSteps
<1>5. Phases'
  BY DEF IInv, InstallFails, Phases, Go, UnchangedFiles, Phase, Found, Staged
<1>6. Counted' /\ Settled' /\ Replacing'
  BY DEF IInv, InstallFails, Counted, Settled, Replacing, UnchangedFiles, Whole, Found,
     Moved, Swapped, Staged
<1> QED
  BY <1>1, <1>2, <1>3, <1>4, <1>5, <1>6 DEF IInv

LEMMA UninstallFileInv ==
    ASSUME IInv, NEW p \in Processes, NEW f \in {"sqlite", "secret"}, UninstallFile(p, f)
    PROVE  IInv'
<1>1. TypeOK'
  BY DEF IInv, UninstallFile, TypeOK, Added, Placed, Removed, StillThere, In, OnlyFiles
<1>2. Owned'
  BY DEF IInv, UninstallFile, Owned, StillThere, OnlyFiles
<1>3. Opened'
  BY DEF IInv, UninstallFile, Opened, StillThere, OnlyFiles, TypeOK, Processes
<1>4. Fenced'
  BY DEF IInv, UninstallFile, Fenced, StillThere, OnlyFiles, Owned, Processes
<1>5. Counted'
  BY DEF IInv, UninstallFile, Counted, Added, Removed, StillThere, OnlyFiles, TypeOK,
     Versions
<1>6. Settled'
  BY DEF IInv, UninstallFile, Settled, StillThere, Owned, Processes, ServerSteps,
     Phases, Phase
<1>7. Replacing'
  BY DEF IInv, UninstallFile, Replacing, Added, Placed, Removed, StillThere, Found,
     Moved, Swapped, Staged, OnlyFiles, TypeOK, Versions
<1>8. Phases'
  BY DEF IInv, UninstallFile, Phases, StillThere, Phase, Owned, Processes
<1> QED
  BY <1>1, <1>2, <1>3, <1>4, <1>5, <1>6, <1>7, <1>8 DEF IInv

LEMMA MoveFileBackInv ==
    ASSUME IInv, NEW p \in Processes, NEW f \in Files, MoveFileBack(p, f)
    PROVE  IInv'
<1>1. TypeOK'
  BY DEF IInv, MoveFileBack, TypeOK, Added, Removed, StillThere, Files, Processes,
     ServerSteps, OnlyFiles, Owned, Replacing, Phases, Phase, Staged
<1>2. Owned'
  BY DEF IInv, MoveFileBack, Owned, StillThere, OnlyFiles
<1>3. Opened'
  BY DEF IInv, MoveFileBack, Opened, Added, StillThere, OnlyFiles
<1>4. Fenced'
  BY DEF IInv, MoveFileBack, Fenced, StillThere, OnlyFiles, Owned, Processes
<1>5. Counted'
  BY DEF IInv, MoveFileBack, Counted, Added, StillThere, OnlyFiles, Owned, Processes,
     ServerSteps, Replacing, Moved, Swapped, Phases, Phase, Found
<1>6. Settled'
  BY DEF IInv, MoveFileBack, Settled, StillThere, Owned, Processes, ServerSteps,
     Phases, Phase
<1>7. Replacing'
  BY DEF IInv, MoveFileBack, Replacing, Added, Placed, Removed, StillThere, Found,
     Moved, Swapped, Staged, In, OnlyFiles, TypeOK
<1>8. Phases'
  BY DEF IInv, MoveFileBack, Phases, StillThere, Empty, Phase, Owned, Processes
<1> QED
  BY <1>1, <1>2, <1>3, <1>4, <1>5, <1>6, <1>7, <1>8 DEF IInv

LEMMA AllUndoneInv ==
    ASSUME IInv, NEW p \in Processes, AllUndone(p)
    PROVE  IInv'
<1>1. TypeOK'
  BY DEF IInv, AllUndone, TypeOK, Go, OnlyFiles, RestoreSteps
<1>2. Owned'
  BY DEF IInv, AllUndone, Owned, Go, OnlyFiles, RestoreSteps, ServerSteps
<1>3. Opened'
  BY DEF IInv, AllUndone, Opened, Go, OnlyFiles
<1>4. Fenced'
  BY DEF IInv, AllUndone, Fenced, Go, OnlyFiles, Owned, Processes
<1>5. Counted'
  BY DEF IInv, AllUndone, Counted, OnlyFiles
<1>6. Settled'
  BY DEF IInv, AllUndone, Settled, Empty, OnlyFiles, Placed, Whole, In, TypeOK,
     Versions, Replacing, Moved, Swapped, Found
<1>7. Replacing'
  BY DEF IInv, AllUndone, Replacing
<1>8. Phases'
  BY DEF IInv, AllUndone, Phases, Go, Phase, TypeOK, Processes
<1> QED
  BY <1>1, <1>2, <1>3, <1>4, <1>5, <1>6, <1>7, <1>8 DEF IInv

LEMMA UndoInv ==
    ASSUME IInv, NEW p \in Processes, Undo(p)
    PROVE  IInv'
<1>1. rollback \in [Files -> Versions]
  BY DEF IInv, TypeOK
<1> QED
  BY <1>1, UndoSteps, UninstallFileInv, MoveFileBackInv, AllUndoneInv

LEMMA UndoFailsType ==
    ASSUME IInv, NEW p \in Processes, UndoFails(p)
    PROVE  TypeOK'
<1>1. pc' \in [Processes -> {"off"} \cup ServerSteps \cup RestoreSteps]
  BY DEF UndoFails, Go, IInv, TypeOK, RestoreSteps
<1>2. safe' \in BOOLEAN
  BY DEF UndoFails, SafeAfterFailure
<1> QED
  BY <1>1, <1>2 DEF UndoFails, Go, UnchangedFiles, IInv, TypeOK, RestoreSteps

LEMMA UndoFailsInv ==
    ASSUME IInv, NEW p \in Processes, UndoFails(p)
    PROVE  IInv'
<1>1. TypeOK'
  BY UndoFailsType
<1>2. Owned'
  BY DEF IInv, UndoFails, Owned, Go, RestoreSteps, ServerSteps
<1>3. Opened'
  BY DEF IInv, UndoFails, Opened, Go, UnchangedFiles
<1>4. Fenced'
  BY DEF IInv, UndoFails, Fenced, Go, SafeAfterFailure, UnchangedFiles
<1>5. Phases'
  BY DEF IInv, UndoFails, Phases, Go, UnchangedFiles, Phase, Found, Staged
<1>6. Counted' /\ Settled' /\ Replacing'
  BY DEF IInv, UndoFails, Counted, Settled, Replacing, UnchangedFiles, Whole, Found,
     Moved, Swapped, Staged
<1> QED
  BY <1>1, <1>2, <1>3, <1>4, <1>5, <1>6 DEF IInv

(***************************************************************************)
(* The operator                                                            *)
(***************************************************************************)

LEMMA RemoveRollbackInv ==
    ASSUME IInv, RemoveRollback
    PROVE  IInv'
<1>1. TypeOK'
  BY ProcessesAssumption DEF IInv, RemoveRollback, TypeOK, Empty, Versions
<1>2. Fenced'
  BY DEF IInv, RemoveRollback, Fenced
<1>3. Settled'
  BY DEF IInv, RemoveRollback, Settled, Whole, Fenced
<1>4. Replacing'
  BY DEF IInv, RemoveRollback, Replacing
<1>5. Phases'
  BY DEF IInv, RemoveRollback, Phases, Phase, TypeOK, RestoreSteps
<1>6. Owned' /\ Opened' /\ Counted'
  BY DEF IInv, RemoveRollback, Owned, Opened, Counted
<1> QED
  BY <1>1, <1>2, <1>3, <1>4, <1>5, <1>6 DEF IInv

LEMMA RecoverType ==
    ASSUME IInv, Recover
    PROVE  TypeOK'
<1>1. 0 \in Versions /\ Empty \in [Files -> Versions]
  BY ProcessesAssumption DEF Versions, Empty
<1>2. data' \in [Files -> Versions]
  <2>1. CASE "staging" \in dirs
    BY <1>1, <2>1 DEF Recover, IInv, TypeOK
  <2> QED
    BY <2>1 DEF Recover, IInv, TypeOK
<1>3. data'["sqlite"] \in Versions
  BY <1>2 DEF Files
<1>4. \A p \in Restores : pc[p] = "off"
  BY ProcessesAssumption DEF Recover, IInv, Owned, Processes
<1>5. staging' \in [Files -> Versions] /\ rollback' \in [Files -> Versions] /\ dirs' \subseteq {"staging", "rollback"}
  BY <1>1 DEF Recover, IInv, TypeOK
<1> QED
  BY <1>2, <1>3, <1>4, <1>5 DEF Recover, IInv, TypeOK, RestoreSteps

LEMMA RecoverInv ==
    ASSUME IInv, Recover
    PROVE  IInv'
<1>1. TypeOK'
  BY RecoverType
<1>2. Owned'
  BY DEF IInv, Recover, Owned
<1>3. Opened'
  BY ProcessesAssumption DEF IInv, Recover, Opened, TypeOK, Processes
<1>4. Fenced'
  BY ProcessesAssumption DEF IInv, Recover, Fenced, RestoreSteps, Owned, Processes
<1>5. Counted'
  BY DEF IInv, Recover, Counted, Files, TypeOK, Versions, Settled, Replacing, Moved,
     Swapped, Found
<1>6. Settled'
  BY DEF IInv, Recover, Settled, Files, Whole, TypeOK, Versions, Replacing, Moved,
     Swapped, Found
<1>7. Replacing'
  BY DEF IInv, Recover, Replacing
<1>8. Phases'
  BY ProcessesAssumption DEF IInv, Recover, Phases, Phase, Owned, Processes
<1> QED
  BY <1>1, <1>2, <1>3, <1>4, <1>5, <1>6, <1>7, <1>8 DEF IInv

(***************************************************************************)
(* The invariant                                                           *)
(***************************************************************************)

LEMMA InitInv == Init => IInv
<1> SUFFICES ASSUME Init PROVE IInv
  OBVIOUS
<1>1. 0 \in Versions /\ Empty \in [Files -> Versions]
  BY ProcessesAssumption DEF Versions, Empty
<1>2. TypeOK
  <2>1. /\ pc \in [Processes -> {"off"} \cup ServerSteps \cup RestoreSteps]
        /\ \A p \in Processes : pc[p] = "off"
    BY DEF Init
  <2>2. {data, staging, rollback, prior} \subseteq [Files -> Versions]
    BY <1>1 DEF Init
  <2> QED
    BY <1>1, <2>1, <2>2 DEF Init, TypeOK, RestoreSteps, Processes
<1>3. Owned /\ Opened /\ Fenced
  BY ProcessesAssumption DEF Init, Owned, Opened, Fenced, Processes, RestoreSteps
<1>4. Counted /\ Settled /\ Replacing /\ Phases
  BY DEF Init, Counted, Settled, Replacing, Phases, Phase, Whole, Empty, Files, Processes
<1> QED
  BY <1>2, <1>3, <1>4 DEF IInv

LEMMA StutterInv ==
    ASSUME IInv, UNCHANGED vars
    PROVE  IInv'
<1>1. TypeOK' /\ Owned' /\ Opened' /\ Fenced' /\ Counted'
  BY DEF vars, IInv, TypeOK, Owned, Opened, Fenced, Counted
<1>2. Settled' /\ Replacing' /\ Phases'
  BY DEF vars, IInv, Settled, Replacing, Phases, Phase, Found, Moved, Swapped, Staged, Whole
<1> QED
  BY <1>1, <1>2 DEF IInv

LEMMA NextInv == IInv /\ [Next]_vars => IInv'
<1> SUFFICES ASSUME IInv, [Next]_vars PROVE IInv'
  OBVIOUS
<1>1. CASE UNCHANGED vars
  BY <1>1, StutterInv
<1>2. ASSUME NEW p \in Processes, Lease(p) PROVE IInv'
  BY <1>2, AcquireInv, AcquireForRestoreInv, ReleaseInv, CompleteRestoreInv, DieInv DEF Lease
<1>3. ASSUME NEW p \in Processes, Server(p) PROVE IInv'
  BY <1>3, ReadSecretInv, OpenDatabaseInv, BuildFailsInv, CommitInv, CloseInv,
     CloseSucceedsInv, CloseFailsInv DEF Server
<1>4. ASSUME NEW p \in Processes, Restore(p) PROVE IInv'
  BY <1>4, DeclineInv, StageInv, StagingFailsInv, BeginInstallInv, MoveAsideInv, InstallInv,
     InstalledInv, InstallFailsInv, UndoInv, UndoFailsInv DEF Restore
<1>5. CASE RemoveRollback \/ Recover
  BY <1>5, RemoveRollbackInv, RecoverInv
<1> QED
  BY <1>1, <1>2, <1>3, <1>4, <1>5 DEF Next

LEMMA Invariance == Spec => []IInv
  BY InitInv, NextInv, PTL DEF Spec

LEMMA KeptInv == IInv => PreviousIsKept
<1> SUFFICES ASSUME IInv, "staging" \in dirs \/ rollback # Empty, NEW f \in Files, prior[f] # 0
             PROVE  prior[f] \in {data[f], rollback[f]}
  BY DEF PreviousIsKept
<1>1. CASE "staging" \in dirs
  BY <1>1 DEF IInv, Replacing, Found, Moved, Swapped
<1>2. CASE "staging" \notin dirs
  BY <1>2 DEF IInv, Settled
<1> QED
  BY <1>1, <1>2

(***************************************************************************)
(* The refinement                                                          *)
(***************************************************************************)

\* What the mapping makes of the open servers and of the files.
User    == IF open = {} THEN None ELSE CHOOSE p \in open : TRUE
Content == IF Whole THEN data["sqlite"] ELSE Torn

LEMMA UserIsOwner ==
    ASSUME IInv
    PROVE  /\ open = {} => User = None
           /\ \A p \in open : User = p /\ lock = p
<1>1. \A p \in open : lock = p
  BY DEF IInv, TypeOK, Owned, Opened, Processes
<1> QED
  BY <1>1 DEF User

\* A restore leaves the database before it, a new one, or nothing that could be used.
LEMMA ContentIsOldOrNew ==
    IInv /\ fence => Content = Torn \/ Content = last \/ Content \in (last + 1)..MaxVersion
<1> SUFFICES ASSUME IInv, fence
             PROVE  Content = Torn \/ Content = last \/ Content \in (last + 1)..MaxVersion
  OBVIOUS
<1>1. data["sqlite"] \in Versions /\ last \in Versions
  BY DEF IInv, TypeOK, Files
<1>2. CASE "staging" \notin dirs
  BY <1>1, <1>2, ProcessesAssumption DEF IInv, Settled, Content, Versions
<1>3. CASE "staging" \in dirs /\ Whole
  <2>1. data["sqlite"] = 0 => last = 0
    BY <1>3 DEF IInv, TypeOK, Replacing, Found, Moved, Swapped, Whole, Empty, Files
  <2> QED
    BY <1>1, <1>3, <2>1, ProcessesAssumption
    DEF IInv, TypeOK, Replacing, Found, Moved, Swapped, Content, Versions, Files
<1>4. CASE ~Whole
  BY <1>4 DEF Content
<1> QED
  BY <1>2, <1>3, <1>4

LEMMA NotFencedIsWhole ==
    ASSUME IInv, ~fence
    PROVE  Whole /\ Content = last /\ data["sqlite"] = last
  BY DEF IInv, Fenced, Settled, Content

LEMMA AcquireOwns ==
    ASSUME IInv, NEW p \in Processes, Acquire(p) \/ AcquireForRestore(p)
    PROVE  Directory!Own(p)
<1>1. Content = last
  BY NotFencedIsWhole DEF Acquire, AcquireForRestore, Available
<1>2. UNCHANGED <<open, Whole, data>>
  BY DEF Acquire, AcquireForRestore, UnchangedFiles, Whole
<1> QED
  BY <1>1, <1>2 DEF Acquire, AcquireForRestore, Available, UnchangedFiles, Directory!Own, Content

LEMMA ReleaseDisowns ==
    ASSUME IInv, NEW p \in Processes, Release(p)
    PROVE  Directory!Disown(p)
<1>1. lock = p /\ p \notin open /\ User # p
  BY UserIsOwner, ProcessesAssumption DEF Release, IInv, TypeOK, Owned, Opened, Processes
<1>2. UNCHANGED <<open, Whole, data, last>>
  BY DEF Release, UnchangedFiles, Whole
<1> QED
  BY <1>1, <1>2 DEF Release, Freed, Directory!Disown, User

LEMMA DieDies ==
    ASSUME IInv, IInv', NEW p \in Processes, Die(p)
    PROVE  Directory!Die(p)
<1>1. lock = p
  BY DEF Die, IInv, Owned
<1>2. User' = IF User = p THEN None ELSE User
  <2>1. \A q \in open : q = p
    BY <1>1, UserIsOwner
  <2>2. open' = {} /\ (open # {} => User = p) /\ (open = {} => User = None)
    BY <2>1, UserIsOwner DEF Die
  <2> QED
    BY <2>2 DEF User
<1>3. UNCHANGED <<Whole, data, last>>
  BY DEF Die, UnchangedFiles, Whole
<1> QED
  BY <1>1, <1>2, <1>3 DEF Die, Freed, Directory!Die, User

LEMMA CompleteRestoreSettles ==
    ASSUME IInv, NEW p \in Processes, CompleteRestore(p)
    PROVE  Directory!Settle(p)
<1>1. lock = p /\ open = {}
  BY ProcessesAssumption
  DEF CompleteRestore, IInv, TypeOK, Owned, Opened, Processes, ServerSteps
<1>2. Whole /\ Content # Torn
  BY <1>1, ProcessesAssumption
  DEF CompleteRestore, IInv, TypeOK, Owned, Fenced, Settled, Content, Versions, Files, Processes, ServerSteps
<1>3. UNCHANGED <<open, Whole, data>>
  BY DEF CompleteRestore, Whole
<1> QED
  BY <1>1, <1>2, <1>3 DEF CompleteRestore, Directory!Settle, Content

LEMMA OpenDatabaseUses ==
    ASSUME IInv, IInv', NEW p \in Processes, OpenDatabase(p)
    PROVE  Directory!Use(p)
<1>1. lock = p /\ p \in Servers /\ ~fence
  BY DEF OpenDatabase, IInv, Owned, Fenced, Processes, RestoreSteps
<1>2. Whole /\ Content = last /\ data["sqlite"] = last
  BY <1>1, NotFencedIsWhole
<1>3. Whole' /\ data'["sqlite"] = last'
  BY <1>1, NotFencedIsWhole DEF OpenDatabase, IInv, Fenced, Settled
<1>4. open = {} /\ open' = {p}
  BY <1>1, ProcessesAssumption DEF OpenDatabase, IInv, TypeOK, Owned, Opened, Processes
<1>5. IF last = 0 THEN last' \in 1..MaxVersion ELSE last' = last
  BY <1>1, <1>2, ProcessesAssumption DEF OpenDatabase, IInv, TypeOK, Opened, Versions, Files
<1>6. User = None /\ User' = p
  BY <1>4 DEF User
<1>7. Content' \in IF Content = 0 THEN Directory!Newer ELSE {Content}
  BY <1>2, <1>3, <1>5 DEF Content, Directory!Newer
<1>8. lock' = lock /\ Content' = last'
  BY <1>3 DEF OpenDatabase, Content
<1> QED
  BY <1>1, <1>2, <1>6, <1>7, <1>8 DEF Directory!Use, User, Content

LEMMA CloseSucceedsEndsUse ==
    ASSUME IInv, NEW p \in Processes, CloseSucceeds(p)
    PROVE  Directory!EndUse(p)
<1>1. p \in open
  BY DEF CloseSucceeds, IInv, Owned, Opened, Processes, RestoreSteps
<1>2. open = {p}
  BY <1>1, UserIsOwner
<1>3. UNCHANGED <<Whole, data, lock, last>>
  BY DEF CloseSucceeds, UnchangedFiles, Whole
<1> QED
  BY <1>2, <1>3 DEF CloseSucceeds, Directory!EndUse

LEMMA RecoverRepairs ==
    ASSUME IInv, IInv', Recover
    PROVE  Directory!Repair
<1>1. ~fence' /\ open' = open /\ lock = None /\ lock' = lock
  BY DEF Recover
<1>2. Whole' /\ data'["sqlite"] = last'
  BY <1>1 DEF IInv, Fenced, Settled
<1>3. last' \in IF Content = Torn THEN {last} ELSE {last, Content}
  <2>1. CASE "staging" \in dirs
    BY <2>1 DEF Recover, IInv, TypeOK, Replacing, Found, Moved, Swapped, Files
  <2>2. CASE "staging" \notin dirs
    BY <2>2, ProcessesAssumption DEF Recover, IInv, TypeOK, Settled, Content, Versions, Files
  <2> QED
    BY <2>1, <2>2
<1> QED
  BY <1>1, <1>2, <1>3 DEF Directory!Repair, Content

\* The steps of a server that change neither the database nor its use.
LEMMA ServerStutters ==
    ASSUME IInv, IInv', NEW p \in Processes,
           ReadSecret(p) \/ BuildFails(p) \/ Commit(p) \/ Close(p) \/ CloseFails(p)
    PROVE  UNCHANGED Directory!vars
<1>1. ~fence /\ ~fence'
  BY DEF ReadSecret, BuildFails, Commit, Close, CloseFails, UnchangedFiles,
         IInv, TypeOK, Owned, Opened, Fenced, Processes, RestoreSteps
<1>2. Whole /\ Whole' /\ data'["sqlite"] = data["sqlite"]
  BY <1>1 DEF ReadSecret, BuildFails, Commit, Close, CloseFails, UnchangedFiles,
              IInv, TypeOK, Fenced, Settled, Files
<1>3. UNCHANGED <<lock, open, last>>
  BY DEF ReadSecret, BuildFails, Commit, Close, CloseFails, UnchangedFiles
<1> QED
  BY <1>2, <1>3 DEF Directory!vars

\* The steps of a restore that move no file.
LEMMA RestoreStutters ==
    ASSUME NEW p,
           \/ Decline(p) \/ Stage(p) \/ StagingFails(p) \/ BeginInstall(p)
           \/ Installed(p) \/ InstallFails(p) \/ UndoFails(p)
    PROVE  UNCHANGED Directory!vars
<1>1. UNCHANGED <<lock, open, last, data, rollback, unmerged>>
  BY DEF Decline, Stage, StagingFails, BeginInstall, Installed, InstallFails, UndoFails,
         UnchangedFiles, OnlyFiles
<1>2. UNCHANGED Whole
  BY <1>1 DEF Whole
<1> QED
  BY <1>1, <1>2 DEF Directory!vars

LEMMA FilesAreReplaced ==
    ASSUME IInv, IInv', NEW p \in Processes, MoveAside(p) \/ Install(p) \/ Undo(p)
    PROVE  Directory!Replace(p)
<1>1. p \in Restores /\ lock = p /\ fence /\ open = {}
  BY DEF MoveAside, Install, Undo, IInv, TypeOK, Owned, Opened, Fenced, Processes,
         ServerSteps, RestoreSteps
<1>2. UNCHANGED <<lock, fence, open, last>>
  BY DEF MoveAside, Install, Undo, OnlyFiles
<1>3. (Content = Torn \/ Content = last \/ Content \in (last + 1)..MaxVersion)'
  <2>1. (IInv /\ fence => Content = Torn \/ Content = last \/ Content \in (last + 1)..MaxVersion)'
    BY ContentIsOldOrNew, PTL
  <2> QED
    BY <1>1, <1>2, <2>1
<1> QED
  BY <1>1, <1>2, <1>3 DEF Directory!Replace, Directory!Newer, Content

LEMMA RemoveRollbackStutters ==
    ASSUME IInv, IInv', RemoveRollback
    PROVE  UNCHANGED Directory!vars
<1>1. Whole /\ Whole'
  BY NotFencedIsWhole DEF RemoveRollback, IInv, Fenced, Settled
<1> QED
  BY <1>1 DEF RemoveRollback, Directory!vars

LEMMA StepRefines ==
    ASSUME IInv, IInv', [Next]_vars
    PROVE  [Directory!Next]_Directory!vars
<1>1. CASE UNCHANGED vars
  <2>1. UNCHANGED <<lock, open, last, data, rollback, unmerged>> /\ UNCHANGED Whole
    BY <1>1 DEF vars, Whole
  <2> QED
    BY <2>1 DEF Directory!vars
<1>2. ASSUME NEW p \in Processes, Lease(p)
      PROVE  Directory!Next
  BY <1>2, AcquireOwns, ReleaseDisowns, DieDies, CompleteRestoreSettles
  DEF Lease, Directory!Next
<1>3. ASSUME NEW p \in Processes, Server(p)
      PROVE  [Directory!Next]_Directory!vars
  BY <1>3, OpenDatabaseUses, CloseSucceedsEndsUse, ServerStutters
  DEF Server, Directory!Next
<1>4. ASSUME NEW p \in Processes, Restore(p)
      PROVE  [Directory!Next]_Directory!vars
  BY <1>4, FilesAreReplaced, RestoreStutters DEF Restore, Directory!Next
<1>5. CASE RemoveRollback \/ Recover
  BY <1>5, RemoveRollbackStutters, RecoverRepairs DEF Directory!Next
<1> QED
  BY <1>1, <1>2, <1>3, <1>4, <1>5 DEF Next

LEMMA InitRefines == Init => Directory!Init
<1> SUFFICES ASSUME Init PROVE Directory!Init
  OBVIOUS
<1>1. Whole
  BY DEF Init, Whole, Empty, Files
<1> QED
  BY <1>1 DEF Init, Directory!Init, Empty, Files

(***************************************************************************)
(* The theorems                                                            *)
(***************************************************************************)

\* Every step of a server, a restore and the operator leaves the files, the lock and the
\* fence in their types; who has taken a step owns the lock, and a restore that is under
\* way has set the fence (acquireInstanceLease, acquireInstanceLeaseForRestore).
THEOREM TypeCorrect == Spec => []TypeOK
<1>1. IInv => TypeOK
  BY DEF IInv
<1> QED
  BY <1>1, Invariance, PTL

\* Whatever step of installRestore failed or was cut off, and whatever is done after it,
\* each file of the database that the restore found is in the directory or moved aside
\* until an operator removes it.
THEOREM PreviousIsKeptHolds == Spec => []PreviousIsKept
  BY KeptInv, Invariance, PTL

\* The guard, the fence, the server's life cycle and the restore together implement
\* DataDirectory: one owner, one whole database under whoever uses it, and no use of the
\* directory between the begin of a replacement and its settlement.
THEOREM DirectoryIsGuardedHolds == Spec => DirectoryIsGuarded
<1>1. IInv /\ IInv' /\ [Next]_vars => [Directory!Next]_Directory!vars
  BY StepRefines
<1> QED
  BY <1>1, InitRefines, Invariance, PTL DEF Spec, DirectoryIsGuarded, Directory!Spec
=============================================================================
