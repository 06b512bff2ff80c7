----------------------------- MODULE DataGuard -----------------------------
(***************************************************************************)
(* The data directory: who may use it and how a backup replaces it         *)
(* (instance-lease.ts, startup.ts, restore.ts, index.ts).                  *)
(*                                                                         *)
(* The guard is a SQLite file of its own.  Its owner holds the lock of the *)
(* operating system on it, which ends with the process; a restore also     *)
(* sets a fence in its row, which does not.  A server opens the database   *)
(* under the lock and closes it before it releases the lock, or keeps the  *)
(* lock until it has exited.  A restore stages the backup, moves the files *)
(* of the database aside one by one, moves the staged ones in, and undoes  *)
(* all of it when a step fails.  Any process may crash between two steps.  *)
(* SQLite itself is closed by nobody: its log stays when a server ends.    *)
(***************************************************************************)
EXTENDS Integers, SequencesExt

CONSTANTS
    Servers,        \* processes that run index.ts
    Restores,       \* processes that run restore.ts
    MaxVersion,     \* databases are numbered in the order in which they are made
    None, Torn

ASSUME ProcessesAssumption ==
    /\ Servers \cap Restores = {} /\ MaxVersion \in Nat
    /\ None \notin Servers \cup Restores
    /\ Torn \notin 0..MaxVersion

VARIABLES
    pc,         \* where each process is
    open,       \* the servers whose application is open: it may write
    lock,       \* the owner of the lock of the operating system
    fence,      \* restore_required
    data, staging, rollback,    \* the version of each file in each place; 0: no file
    dirs,       \* which of the two directories exist
    unmerged,   \* the versions whose last commits are in the write-ahead log
    made,       \* the versions that have been made so far
    safe,       \* safeToClearFence
    prior,      \* history: the files that the last restore found
    last        \* history: the version that was last used or settled

vars ==
    <<pc, open, lock, fence, data, staging, rollback, dirs, unmerged, made, safe, prior, last>>

Processes == Servers \cup Restores

\* currentFiles; "log" stands for the log, its index and a rollback journal.
Files   == {"sqlite", "log", "secret"}
Current == <<"sqlite", "log", "secret">>
Backup  == <<"sqlite", "secret">>

Versions == 0..MaxVersion
Empty    == [f \in Files |-> 0]

ServerSteps  == {"acquired", "keyed", "running", "closing", "closed", "failed"}
RestoreSteps == {"checking", "staging", "moving", "installing", "verifying", "undoing",
                 "leaving"}

\* A runtime would find one database: its key, and its log if it has one and no other;
\* or none, and nothing that could be moved back.
Whole ==
    IF data["sqlite"] = 0 THEN data["log"] = 0 /\ rollback = Empty
    ELSE /\ data["secret"] = data["sqlite"]
         /\ data["log"] = IF data["sqlite"] \in unmerged THEN data["sqlite"] ELSE 0

Go(p, step) == pc' = [pc EXCEPT ![p] = step]

Removed(place, f) == [place EXCEPT ![f] = 0]
Added(place, f, version) == [place EXCEPT ![f] = version]

(***************************************************************************)
(* The lease                                                               *)
(***************************************************************************)

\* Mutant: the fence alone keeps others out.
Available_Unlocked == ~fence

\* Mutant: a fence is left to the process that set it.
Available_Unfenced == lock = None

Available == lock = None /\ ~fence

UnchangedFiles == UNCHANGED <<data, staging, rollback, dirs, unmerged, made, prior, last>>

Acquire(p) ==
    /\ p \in Servers /\ pc[p] = "off" /\ Available
    /\ lock' = p /\ Go(p, "acquired")
    /\ UnchangedFiles /\ UNCHANGED <<open, fence, safe>>

\* The lock and the fence are taken in one commit.
AcquireForRestore(p) ==
    /\ p \in Restores /\ pc[p] = "off" /\ Available
    /\ lock' = p /\ fence' = TRUE /\ safe' = TRUE
    /\ Go(p, "checking")
    /\ UnchangedFiles /\ UNCHANGED open

Freed(p) == IF lock = p THEN None ELSE lock

\* release does not touch the fence.
Release(p) ==
    /\ pc[p] = "closed" \/ (pc[p] = "leaving" /\ ~safe)
    /\ lock' = Freed(p) /\ Go(p, "off")
    /\ UnchangedFiles /\ UNCHANGED <<open, fence, safe>>

CompleteRestore(p) ==
    /\ pc[p] = "leaving" /\ safe
    /\ fence' = FALSE /\ safe' = FALSE
    /\ last' = data["sqlite"]
    /\ UNCHANGED <<pc, open, lock, data, staging, rollback, dirs, unmerged, made, prior>>

\* A crash, or the exit of a process that kept its lease (failStop, exit(1)).
Die(p) ==
    /\ pc[p] # "off"
    /\ lock' = Freed(p) /\ open' = open \ {p} /\ Go(p, "off")
    /\ UnchangedFiles /\ UNCHANGED <<fence, safe>>

(***************************************************************************)
(* The server                                                              *)
(***************************************************************************)

\* The key is made only if there is no database either (getInstanceSecret).
ReadSecret(p) ==
    /\ pc[p] = "acquired" /\ (data["secret"] = 0 => data["sqlite"] = 0 /\ made < MaxVersion)
    /\ IF data["secret"] # 0 THEN UNCHANGED <<data, made>>
       ELSE made' = made + 1 /\ data' = [data EXCEPT !["secret"] = made + 1]
    /\ Go(p, "keyed")
    /\ UNCHANGED <<open, lock, fence, staging, rollback, dirs, unmerged, safe, prior, last>>

\* A new database goes with the key that is there.
OpenDatabase(p) ==
    /\ pc[p] = "keyed"
    /\ data' = IF data["sqlite"] # 0 THEN data ELSE [data EXCEPT !["sqlite"] = data["secret"]]
    /\ last' = data'["sqlite"]
    /\ Go(p, "running") /\ open' = open \cup {p}
    /\ UNCHANGED <<lock, fence, staging, rollback, dirs, unmerged, made, safe, prior>>

\* The key or the database is not accepted: there is no application to close.
BuildFails(p) ==
    /\ pc[p] \in {"acquired", "keyed"} /\ Go(p, "closed")
    /\ UnchangedFiles /\ UNCHANGED <<open, lock, fence, safe>>

\* A commit goes to the log; a checkpoint empties it.
Commit(p) ==
    /\ p \in open
    /\ \/ /\ unmerged' = unmerged \cup {data["sqlite"]}
          /\ data' = [data EXCEPT !["log"] = data["sqlite"]]
       \/ /\ unmerged' = unmerged \ {data["sqlite"]}
          /\ data' = [data EXCEPT !["log"] = 0]
    /\ UNCHANGED <<pc, open, lock, fence, staging, rollback, dirs, made, safe, prior, last>>

\* buildApp or listen fails, or a signal comes: the application is closed.
Close(p) ==
    /\ pc[p] = "running" /\ Go(p, "closing")
    /\ UnchangedFiles /\ UNCHANGED <<open, lock, fence, safe>>

\* app.close resolves before the deadline.
CloseSucceeds(p) ==
    /\ pc[p] = "closing" /\ Go(p, "closed") /\ open' = open \ {p}
    /\ UnchangedFiles /\ UNCHANGED <<lock, fence, safe>>

\* Mutant: the lease is released when the deadline has passed.
AfterDeadline_Released == "closed"

AfterDeadline == "failed"

\* app.close fails or takes too long: the lease is kept until the process has exited
\* (ShutdownTimeoutError, IncompleteStartupCleanupError).
CloseFails(p) ==
    /\ pc[p] = "closing" /\ Go(p, AfterDeadline)
    /\ UnchangedFiles /\ UNCHANGED <<open, lock, fence, safe>>

(***************************************************************************)
(* The restore                                                             *)
(***************************************************************************)

OnlyFiles == UNCHANGED <<open, lock, fence, unmerged, last>>

\* Wrong passphrase, a backup from a newer version, or something left by an earlier
\* restore: nothing has been touched.
Decline(p) ==
    /\ pc[p] = "checking" /\ Go(p, "leaving")
    /\ UnchangedFiles /\ UNCHANGED <<open, lock, fence, safe>>

Stage(p) ==
    /\ pc[p] = "checking" /\ dirs = {} /\ made < MaxVersion
    /\ made' = made + 1 /\ safe' = FALSE /\ prior' = data
    /\ dirs' = {"staging"}
    /\ staging' = [f \in Files |-> IF f = "log" THEN 0 ELSE made + 1]
    /\ Go(p, "staging")
    /\ UNCHANGED <<data, rollback>> /\ OnlyFiles

\* The staged files are not what they should be, and are removed; an empty rollback
\* directory stays when that is noticed after it was made.
StagingFails(p) ==
    /\ pc[p] = "staging"
    /\ staging' = Empty /\ dirs' \in {{}, {"rollback"}} /\ safe' = TRUE /\ Go(p, "leaving")
    /\ UNCHANGED <<data, rollback, made, prior>> /\ OnlyFiles

BeginInstall(p) ==
    /\ pc[p] = "staging"
    /\ dirs' = dirs \cup {"rollback"} /\ Go(p, "moving")
    /\ UNCHANGED <<data, staging, rollback, made, safe, prior>> /\ OnlyFiles

In(place) == {f \in Files : place[f] # 0}

\* The first and the last of a list that are in a set.
Places(list, set)  == {i \in DOMAIN list : list[i] \in set}
FirstOf(list, set) == list[Min(Places(list, set))]
LastOf(list, set)  == list[Max(Places(list, set))]

\* Mutant: only the database and the secret are moved aside.
Aside_NoLog == In(data) \ {"log"}

\* What of the current database is still to be moved aside.
Aside == In(data)

MoveAside(p) ==
    /\ pc[p] = "moving"
    /\ \/ /\ Aside # {}
          /\ LET f == FirstOf(Current, Aside) IN
              data' = Removed(data, f) /\ rollback' = Added(rollback, f, data[f])
          /\ pc' = pc
       \/ /\ Aside = {}
          /\ Go(p, "installing") /\ UNCHANGED <<data, rollback>>
    /\ UNCHANGED <<staging, dirs, made, safe, prior>> /\ OnlyFiles

Install(p) ==
    /\ pc[p] = "installing"
    /\ \/ /\ staging # Empty
          /\ LET f == FirstOf(Backup, In(staging)) IN
              staging' = Removed(staging, f) /\ data' = Added(data, f, staging[f])
          /\ pc' = pc
       \/ /\ staging = Empty
          /\ Go(p, "verifying") /\ UNCHANGED <<data, staging>>
    /\ UNCHANGED <<rollback, dirs, made, safe, prior>> /\ OnlyFiles

\* The files are the staged ones, and the staging directory is removed.
Installed(p) ==
    /\ pc[p] = "verifying" /\ Go(p, "leaving")
    /\ safe' = TRUE /\ dirs' = dirs \ {"staging"}
    /\ UNCHANGED <<data, staging, rollback, made, prior>> /\ OnlyFiles

InstallFails(p) ==
    /\ pc[p] \in {"moving", "installing", "verifying"} /\ Go(p, "undoing")
    /\ UnchangedFiles /\ UNCHANGED <<open, lock, fence, safe>>

\* What was installed: the rest of the backup is still staged.
Placed == {f \in In(data) : f # "log" /\ staging[f] = 0}

\* Mutant: what was moved aside is put back first.
UndoInstall_Late == rollback = Empty /\ Placed # {}

UndoInstall == Placed # {}

Undo(p) ==
    /\ pc[p] = "undoing"
    /\ \/ /\ UndoInstall
          /\ LET f == LastOf(Backup, Placed) IN
              data' = Removed(data, f) /\ staging' = Added(staging, f, data[f])
          /\ UNCHANGED <<pc, rollback, dirs, safe>>
       \/ /\ ~UndoInstall /\ rollback # Empty
          /\ LET f == LastOf(Current, In(rollback)) IN
              rollback' = Removed(rollback, f) /\ data' = Added(data, f, rollback[f])
          /\ UNCHANGED <<pc, staging, dirs, safe>>
       \/ /\ ~UndoInstall /\ rollback = Empty
          /\ dirs' = {} /\ staging' = Empty /\ safe' = TRUE /\ Go(p, "leaving")
          /\ UNCHANGED <<data, rollback>>
    /\ UNCHANGED <<made, prior>> /\ OnlyFiles

\* Mutant: the fence is cleared whenever the tool ends by itself.
SafeAfterFailure_Always == TRUE

SafeAfterFailure == FALSE

\* IncompleteRestoreRollbackError: everything stays where it is, under the fence.
UndoFails(p) ==
    /\ pc[p] = "undoing" /\ Go(p, "leaving")
    /\ safe' = SafeAfterFailure
    /\ UnchangedFiles /\ UNCHANGED <<open, lock, fence>>

(***************************************************************************)
(* The operator                                                            *)
(***************************************************************************)

\* After verification the files that were moved aside are removed.
RemoveRollback ==
    /\ ~fence /\ "rollback" \in dirs
    /\ dirs' = {} /\ rollback' = Empty
    /\ UNCHANGED <<pc, open, lock, fence, data, staging, unmerged, made, safe, prior, last>>

\* Offline recovery, once all owners have stopped: what the restore found is put back,
\* unless it had ended or had changed nothing, and the fence is cleared.
Recover ==
    /\ fence /\ lock = None
    /\ fence' = FALSE
    /\ IF "staging" \in dirs
       THEN /\ data' = [f \in Files |-> IF rollback[f] # 0 THEN rollback[f]
                                       ELSE IF prior[f] # 0 THEN data[f] ELSE 0]
            /\ staging' = Empty /\ rollback' = Empty /\ dirs' = {}
       ELSE UNCHANGED <<data, staging, rollback, dirs>>
    /\ last' = data'["sqlite"]
    /\ UNCHANGED <<pc, open, lock, unmerged, made, safe, prior>>

(***************************************************************************)
(* The specification                                                       *)
(***************************************************************************)

Init ==
    /\ pc = [p \in Processes |-> "off"] /\ open = {}
    /\ lock = None /\ fence = FALSE
    /\ data = Empty /\ staging = Empty /\ rollback = Empty
    /\ dirs = {} /\ unmerged = {} /\ made = 0
    /\ safe = FALSE /\ prior = Empty /\ last = 0

Lease(p)   == Acquire(p) \/ AcquireForRestore(p) \/ Release(p) \/ CompleteRestore(p) \/ Die(p)
Server(p)  ==
    \/ ReadSecret(p) \/ OpenDatabase(p) \/ BuildFails(p) \/ Commit(p)
    \/ Close(p) \/ CloseSucceeds(p) \/ CloseFails(p)
Restore(p) ==
    \/ Decline(p) \/ Stage(p) \/ StagingFails(p) \/ BeginInstall(p)
    \/ MoveAside(p) \/ Install(p) \/ Installed(p)
    \/ InstallFails(p) \/ Undo(p) \/ UndoFails(p)

Next ==
    \/ \E p \in Processes : Lease(p) \/ Server(p) \/ Restore(p)
    \/ RemoveRollback \/ Recover

Spec == Init /\ [][Next]_vars

(***************************************************************************)
(* Properties                                                              *)
(***************************************************************************)

\* Every place has its files, and only the owner of the lock is under way; a restore
\* that is under way has set the fence unless it is about to leave.
TypeOK ==
    /\ pc \in [Processes -> {"off"} \cup ServerSteps \cup RestoreSteps]
    /\ open \subseteq Servers
    /\ lock \in Processes \cup {None} /\ fence \in BOOLEAN
    /\ {data, staging, rollback, prior} \subseteq [Files -> Versions]
    /\ dirs \subseteq {"staging", "rollback"}
    /\ unmerged \subseteq Versions /\ {made, last} \subseteq Versions /\ safe \in BOOLEAN
    /\ \A p \in Processes : pc[p] # "off" => lock = p
    /\ \A p \in Restores : pc[p] \in RestoreSteps \ {"leaving"} => fence

\* Until an operator removes it, the database that a restore found is kept, with its
\* log: every file of it is in the directory or moved aside, whatever step failed or
\* was cut off (installRestore, IncompleteRestoreRollbackError).
PreviousIsKept ==
    "staging" \in dirs \/ rollback # Empty =>
        \A f \in Files : prior[f] # 0 => prior[f] \in {data[f], rollback[f]}

\* docs/OPERATIONS.md:234-239: the directory keeps what DataDirectory promises.
Directory == INSTANCE DataDirectory WITH
    owner   <- lock,
    user    <- IF open = {} THEN None ELSE CHOOSE p \in open : TRUE,
    content <- IF Whole THEN data["sqlite"] ELSE Torn,
    before  <- last

DirectoryIsGuarded == Directory!Spec
=============================================================================
