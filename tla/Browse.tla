-------------------------------- MODULE Browse --------------------------------
(***************************************************************************)
(* Browsing one backup through the web file manager: browse of             *)
(* server/backup/manager.rs keeps the opened backup in                     *)
(* cached_browse_backups and lets one task at a time open it, with a mutex *)
(* kept in cached_browse_backup_locks; the task of the manager sweeps both.*)
(*                                                                         *)
(* The two maps are behind fair read-write locks.  A guard that is dropped *)
(* before the next await is not part of the state; the ones that are kept  *)
(* are.                                                                    *)
(***************************************************************************)
CONSTANTS
  Tasks,        \* requests to browse the backup
  Mutexes       \* mutexes that may be made for it, more than there are tasks

VARIABLES
  cached,       \* cached_browse_backups has the backup
  lock,         \* its mutex in cached_browse_backup_locks, or NoMutex
  at,           \* where a task is in browse
  mutex,        \* the mutex a task has taken from the map
  holder,       \* the task that holds a mutex
  readers,      \* tasks that keep a read guard of cached_browse_backup_locks
  sweeper       \* where the sweeper is; "locks": it keeps cached_browse_backups

vars == <<cached, lock, at, mutex, holder, readers, sweeper>>

NoMutex == "no mutex"
Nobody == "nobody"

Init ==
  /\ cached = FALSE /\ lock = NoMutex
  /\ at = [t \in Tasks |-> "idle"] /\ mutex = [t \in Tasks |-> NoMutex]
  /\ holder = [m \in Mutexes |-> Nobody] /\ readers = {}
  /\ sweeper = "sleeping"

BackupsFree == sweeper # "locks"

\* A writer that waits holds off the readers that come after it.
LocksReadable == sweeper # "locks" /\ \A t \in Tasks : at[t] # "inserting"
LocksWritable == readers = {}

Go(t, pc) == at' = [at EXCEPT ![t] = pc]

\* The task ends, and what it kept is dropped.
Return(t) ==
  /\ Go(t, "idle")
  /\ mutex' = [mutex EXCEPT ![t] = NoMutex]
  /\ holder' = [m \in Mutexes |-> IF holder[m] = t THEN Nobody ELSE holder[m]]
  /\ readers' = readers \ {t}

Ask(t) ==
  /\ at[t] = "idle"
  /\ Go(t, "asked")
  /\ UNCHANGED <<cached, lock, mutex, holder, readers, sweeper>>

\* One that is cached is returned at once.
Look(t) ==
  /\ at[t] = "asked" /\ BackupsFree
  /\ Go(t, IF cached THEN "idle" ELSE "found")
  /\ UNCHANGED <<cached, lock, mutex, holder, readers, sweeper>>

\* The read guard is kept when the mutex is there.
TakeLock(t) ==
  /\ at[t] = "found" /\ LocksReadable
  /\ IF lock # NoMutex
       THEN /\ readers' = readers \cup {t}
            /\ mutex' = [mutex EXCEPT ![t] = lock]
            /\ Go(t, "waiting")
       ELSE Go(t, "inserting") /\ UNCHANGED <<readers, mutex>>
  /\ UNCHANGED <<cached, lock, holder, sweeper>>

\* Another task may have inserted one meanwhile; it is replaced.
InsertLock(t) ==
  /\ at[t] = "inserting" /\ LocksWritable
  /\ \E m \in Mutexes :
       /\ m # lock /\ \A u \in Tasks : mutex[u] # m
       /\ lock' = m
       /\ mutex' = [mutex EXCEPT ![t] = m]
  /\ Go(t, "waiting")
  /\ UNCHANGED <<cached, holder, readers, sweeper>>

Acquire(t) ==
  /\ at[t] = "waiting" /\ holder[mutex[t]] = Nobody
  /\ holder' = [holder EXCEPT ![mutex[t]] = t]
  /\ Go(t, "looking")
  /\ UNCHANGED <<cached, lock, mutex, readers, sweeper>>

LookAgain(t) ==
  /\ at[t] = "looking" /\ BackupsFree
  /\ \/ cached /\ Return(t)
     \/ ~cached /\ Go(t, "opening") /\ UNCHANGED <<mutex, holder, readers>>
  /\ UNCHANGED <<cached, lock, sweeper>>

\* The adapter opens the backup, or cannot.
Open(t) ==
  /\ at[t] = "opening"
  /\ Return(t) \/ (Go(t, "opened") /\ UNCHANGED <<mutex, holder, readers>>)
  /\ UNCHANGED <<cached, lock, sweeper>>

Keep(t) ==
  /\ at[t] = "opened" /\ BackupsFree
  /\ cached' = TRUE
  /\ Return(t)
  /\ UNCHANGED <<lock, sweeper>>

Browse(t) ==
  \/ Look(t) \/ TakeLock(t) \/ InsertLock(t) \/ Acquire(t)
  \/ LookAgain(t) \/ Open(t) \/ Keep(t)

\* What has not been asked for in five minutes goes, and the guard is kept.
SweepBackups ==
  /\ sweeper = "sleeping"
  /\ cached' \in {cached, FALSE}
  /\ sweeper' = "locks"
  /\ UNCHANGED <<lock, at, mutex, holder, readers>>

SweepLocks ==
  /\ sweeper = "locks" /\ LocksWritable
  /\ lock' = IF cached THEN lock ELSE NoMutex
  /\ sweeper' = "sleeping"
  /\ UNCHANGED <<cached, at, mutex, holder, readers>>

Next ==
  \/ \E t \in Tasks : Ask(t) \/ Browse(t)
  \/ SweepBackups \/ SweepLocks

\* Tasks are polled until they return, and the locks are fair.
Fairness ==
  /\ \A t \in Tasks : SF_vars(Browse(t))
  /\ SF_vars(SweepLocks)

Spec == Init /\ [][Next]_vars /\ Fairness

\* Whoever asks to browse a backup, with the mounting that the configuration says
\* allows it, is answered: with the backup, or with an error.
BrowseEnds == \A t \in Tasks : at[t] = "asked" ~> at[t] = "idle"
===============================================================================
