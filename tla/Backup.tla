-------------------------------- MODULE Backup --------------------------------
(***************************************************************************)
(* Backups of one server (server/backup/): the manager creates, finds,     *)
(* deletes and restores them through six adapters, each with a store of its*)
(* own, and tells the panel how it ended.                                  *)
(*                                                                         *)
(* What a store holds of a backup is abstracted to a record:               *)
(*   data   the archive file of wings (and the one s3 uploads from), the   *)
(*          ddup-bak archive, the btrfs or zfs snapshot, the restic one    *)
(*   dir    the directory of btrfs and zfs that holds the rest             *)
(*   meta   the "dataset" file of zfs, the entry of RESTIC_BACKUP_CACHE    *)
(*   parts  the parts that s3 has accepted, as offset and length           *)
(* A tar or zip archive is "cut" when it is closed properly, but lacks what*)
(* could not be read: the walk skips such a file, and ends at such a       *)
(* directory.                                                              *)
(*                                                                         *)
(* The panel (external) names each backup once when it asks for it, and    *)
(* asks to restore or download only one it was told is successful, and to  *)
(* delete one once it was told how it ended.  Each of Restores is one      *)
(* request.  Docker (external) answers a wait when the container has ended.*)
(*                                                                         *)
(* Definitions named ..._BUG are plausible mistakes; no specification uses *)
(* them.                                                                   *)
(***************************************************************************)
EXTENDS Integers, Sequences, FiniteSets

CONSTANTS
  Backups,      \* uuids
  Restores,     \* requests to restore
  EntryCount,   \* entries of a backup
  FileSize,     \* size of the file s3 uploads
  RetryLimit    \* backups.s3.retry_limit

ASSUME BackupAssumption ==
  /\ IsFiniteSet(Backups) /\ IsFiniteSet(Restores)
  /\ EntryCount \in Nat \ {0} /\ FileSize \in Nat \ {0} /\ RetryLimit \in Nat

VARIABLES
  adapter,          \* the adapter the panel chose for a backup
  store,            \* what is stored of it
  upload,           \* the loop of s3's create
  creating,         \* where its creation is
  panel,            \* what the panel has heard of the creation
  backups,          \* server.configuration.backups
  cached_backups, cached_backup_adapters,
  deleting,         \* where its deletion is
  restore,          \* the requests to restore
  restoring,        \* server.restoring
  server,           \* "offline" or "running"
  starting,         \* a start has passed its guard and has no container yet
  raced,            \* history: restoring was raised when it was up, or past a start
  unstopped         \* history: the restore's stop returned with the server running

createVars == <<upload, creating, panel, backups>>
cacheVars == <<cached_backups, cached_backup_adapters>>
restoreVars == <<restore, restoring, raced, unstopped>>
serverVars == <<server, starting>>
vars == <<adapter, store, createVars, cacheVars, deleting, restoreVars, serverVars>>

Adapters == {"wings", "s3", "ddup-bak", "btrfs", "zfs", "restic"}

Nothing == [data |-> "none", dir |-> FALSE, meta |-> FALSE, parts |-> <<>>]

NoUpload == [urls |-> 0, part_size |-> 0, remaining |-> 0, attempts |-> 0]

Init ==
  /\ adapter \in [Backups -> Adapters]
  /\ store = [b \in Backups |-> Nothing]
  /\ upload = [b \in Backups |-> NoUpload]
  /\ creating = [b \in Backups |-> "new"]
  /\ panel = [b \in Backups |-> "none"]
  /\ backups = {} /\ cached_backups = {} /\ cached_backup_adapters = {}
  /\ deleting = [b \in Backups |-> "no"]
  /\ \E of \in [Restores -> Backups] :
       restore = [r \in Restores |-> [pc |-> "idle", backup |-> of[r], left |-> 0,
                                      missing |-> {}, successful |-> FALSE, told |-> FALSE]]
  /\ restoring = FALSE /\ raced = FALSE /\ unstopped = FALSE
  /\ server = "offline" /\ starting = FALSE

------------------------------------------------------------------------------
(* Creation.  Create(b, from, to, s) takes one from a step to another, and   *)
(* leaves s in the store.                                                    *)

Create(b, from, to, s) ==
  /\ creating[b] = from
  /\ creating' = [creating EXCEPT ![b] = to]
  /\ store' = [store EXCEPT ![b] = s]

\* A step that ends in an error, whatever it was at.
Fails(b, from) == Create(b, from, "failed", store[b])

With(b, data) == [store[b] EXCEPT !.data = data]

post_backup(b) ==
  /\ creating[b] = "new"
  /\ b \notin cached_backups \cup backups
  /\ creating' = [creating EXCEPT ![b] = "begin"]
  /\ UNCHANGED <<store, upload>>

wings_create(b) ==
  /\ adapter[b] = "wings"
  /\ \/ Fails(b, "begin")
     \/ Create(b, "begin", "writing", With(b, "partial"))
     \/ Fails(b, "writing")
     \/ \E to \in {"created", "failed"}, data \in {"full", "cut"} : Create(b, "writing", to, With(b, data))
  /\ UNCHANGED upload

\* The archive is listed once it has all of its chunks.
ddup_bak_create(b) ==
  /\ adapter[b] = "ddup-bak"
  /\ \/ Fails(b, "begin")
     \/ Create(b, "begin", "failed", With(b, "partial"))
     \/ \E to \in {"created", "failed"} : Create(b, "begin", to, With(b, "full"))
  /\ UNCHANGED upload

btrfs_create(b) ==
  /\ adapter[b] = "btrfs"
  /\ \/ Fails(b, "begin")
     \/ Create(b, "begin", "snapshot", [store[b] EXCEPT !.dir = TRUE])
     \/ Fails(b, "snapshot")
     \/ \E to \in {"created", "failed"} : Create(b, "snapshot", to, With(b, "full"))
  /\ UNCHANGED upload

\* The dataset is written last: a failure before it leaves a snapshot that clean
\* and delete cannot name.
zfs_create(b) ==
  /\ adapter[b] = "zfs"
  /\ \/ Fails(b, "begin")
     \/ Create(b, "begin", "snapshot", [store[b] EXCEPT !.dir = TRUE])
     \/ Fails(b, "snapshot")
     \/ Create(b, "snapshot", "dataset", With(b, "full"))
     \/ Fails(b, "dataset")
     \/ \E to \in {"created", "failed"} :
          Create(b, "dataset", to, [store[b] EXCEPT !.meta = TRUE])
  /\ UNCHANGED upload

\* The child is spawned with the settings of the node, or with those the panel is
\* asked for.
restic_spawn(b) ==
  /\ adapter[b] = "restic"
  /\ Fails(b, "begin") \/ Create(b, "begin", "child", store[b])
  /\ UNCHANGED upload

\* A child that fails may leave an incomplete snapshot; one that succeeds names it
\* in its summary, if the summary could be read.  It has no timeout, and may never
\* end: its errors go to a pipe that is not read until its output has ended.
restic_wait(b) ==
  /\ adapter[b] = "restic"
  /\ \/ Fails(b, "child")
     \/ Create(b, "child", "failed", With(b, "partial"))
     \/ \E seen \in BOOLEAN :
          Create(b, "child", "created", [store[b] EXCEPT !.data = "full", !.meta = seen])
  /\ UNCHANGED upload

------------------------------------------------------------------------------
(* s3: the archive is written to a local file and sent in parts to the urls  *)
(* that the panel gives for its size.                                        *)

s3_archive(b) ==
  /\ adapter[b] = "s3"
  /\ \/ Fails(b, "begin")
     \/ Create(b, "begin", "failed", With(b, "partial"))
     \/ \E data \in {"full", "cut"} : Create(b, "begin", "urls", With(b, data))
  /\ UNCHANGED upload

backup_upload_urls(b) ==
  /\ adapter[b] = "s3"
  /\ \/ Fails(b, "urls") /\ UNCHANGED upload
     \/ \E urls \in 0..FileSize, part_size \in 1..FileSize :
          /\ Create(b, "urls", "parts", store[b])
          /\ upload' = [upload EXCEPT ![b] =
               [urls |-> urls, part_size |-> part_size, remaining |-> FileSize, attempts |-> 0]]

PartSize(u) == IF u.remaining < u.part_size THEN u.remaining ELSE u.part_size

\* The part that BoundedReader reads from the file.
NextPart(u) == [offset |-> FileSize - u.remaining, size |-> PartSize(u)]

s3_part_sent(b) ==
  LET u == upload[b] IN
  /\ u.urls > 0 /\ u.attempts < RetryLimit
  /\ Create(b, "parts", "parts", [store[b] EXCEPT !.parts = Append(@, NextPart(u))])
  /\ upload' = [upload EXCEPT ![b] =
       [u EXCEPT !.urls = @ - 1, !.remaining = @ - PartSize(u), !.attempts = 0]]

s3_part_refused_BUG(b) ==
  LET u == upload[b] IN
  /\ u.urls > 0 /\ u.attempts < RetryLimit
  /\ Create(b, "parts", "parts", store[b])
  /\ upload' = [upload EXCEPT ![b].attempts = (@ + 1) % RetryLimit]


s3_part_refused(b) ==
  LET u == upload[b] IN
  /\ u.urls > 0 /\ u.attempts < RetryLimit
  /\ Create(b, "parts", "parts", store[b])
  /\ upload' = [upload EXCEPT ![b].attempts = @ + 1]

s3_part_given_up(b) ==
  /\ upload[b].urls > 0 /\ upload[b].attempts >= RetryLimit
  /\ Fails(b, "parts")
  /\ upload' = [upload EXCEPT ![b] = NoUpload]

s3_finish_BUG(b) ==
  /\ upload[b].urls = 0
  /\ Create(b, "parts", "created", With(b, "none"))
  /\ upload' = [upload EXCEPT ![b] = NoUpload]

\* All the urls are used.  The local file is removed last, and an error there is
\* one of the creation.
s3_finish(b) ==
  /\ upload[b].urls = 0
  /\ \/ Fails(b, "parts")
     \/ upload[b].remaining = 0 /\ Create(b, "parts", "created", With(b, "none"))
  /\ upload' = [upload EXCEPT ![b] = NoUpload]

s3_create(b) ==
  /\ adapter[b] = "s3"
  /\ \/ s3_archive(b) \/ backup_upload_urls(b)
     \/ s3_part_sent(b) \/ s3_part_refused(b) \/ s3_part_given_up(b) \/ s3_finish(b)

AdapterCreate(b) ==
  \/ wings_create(b) \/ s3_create(b) \/ ddup_bak_create(b)
  \/ btrfs_create(b) \/ zfs_create(b) \/ restic_spawn(b) \/ restic_wait(b)

CreateStep(b) ==
  /\ post_backup(b) \/ AdapterCreate(b)
  /\ UNCHANGED <<adapter, panel, backups, cacheVars, deleting, restoreVars, serverVars>>

------------------------------------------------------------------------------
(* The panel is told.  A call may be lost, or its answer; either is an error.*)

\* The backup is entered when the panel has answered.
TellCreated(b) ==
  /\ creating[b] = "created"
  /\ \E heard \in BOOLEAN, answered \in BOOLEAN :
       /\ answered => heard
       /\ panel' = IF heard THEN [panel EXCEPT ![b] = "successful"] ELSE panel
       /\ backups' = IF answered THEN backups \cup {b} ELSE backups
       /\ cached_backup_adapters' =
            IF answered THEN cached_backup_adapters \cup {b} ELSE cached_backup_adapters
  /\ creating' = [creating EXCEPT ![b] = "done"]
  /\ UNCHANGED <<adapter, store, upload, cached_backups, deleting, restoreVars, serverVars>>

\* Nothing is cleaned when the panel has not answered.
TellFailed(b) ==
  /\ creating[b] = "failed"
  /\ \E heard \in BOOLEAN, answered \in BOOLEAN :
       /\ answered => heard
       /\ panel' = IF heard THEN [panel EXCEPT ![b] = "failed"] ELSE panel
       /\ cached_backup_adapters' =
            IF answered THEN cached_backup_adapters \cup {b} ELSE cached_backup_adapters
       /\ creating' = [creating EXCEPT ![b] = IF answered THEN "cleaning" ELSE "done"]
  /\ UNCHANGED <<adapter, store, upload, backups, cached_backups, deleting, restoreVars, serverVars>>

------------------------------------------------------------------------------
(* What clean and delete leave in the store.  The directory of btrfs stays.  *)

wings_clean(b) == With(b, "none")
s3_clean(b) == With(b, "none")
ddup_bak_clean(b) == With(b, "none")
btrfs_clean(b) == With(b, "none")
zfs_clean(b) == IF store[b].meta THEN Nothing ELSE [store[b] EXCEPT !.dir = FALSE]
restic_clean(b) == store[b]

wings_delete(b) == With(b, "none")
s3_delete(b) == With(b, "none")
ddup_bak_delete(b) == With(b, "none")
btrfs_delete(b) == With(b, "none")
zfs_delete(b) == IF store[b].meta THEN Nothing ELSE [store[b] EXCEPT !.dir = FALSE]
restic_delete(b) == [store[b] EXCEPT !.data = "none", !.meta = FALSE]

AdapterClean(b) ==
  CASE adapter[b] = "wings" -> wings_clean(b)
    [] adapter[b] = "s3" -> s3_clean(b)
    [] adapter[b] = "ddup-bak" -> ddup_bak_clean(b)
    [] adapter[b] = "btrfs" -> btrfs_clean(b)
    [] adapter[b] = "zfs" -> zfs_clean(b)
    [] adapter[b] = "restic" -> restic_clean(b)

AdapterDelete(b) ==
  CASE adapter[b] = "wings" -> wings_delete(b)
    [] adapter[b] = "s3" -> s3_delete(b)
    [] adapter[b] = "ddup-bak" -> ddup_bak_delete(b)
    [] adapter[b] = "btrfs" -> btrfs_delete(b)
    [] adapter[b] = "zfs" -> zfs_delete(b)
    [] adapter[b] = "restic" -> restic_delete(b)

\* An error of clean is only logged.
Clean(b) ==
  /\ \E s \in {AdapterClean(b), store[b]} : Create(b, "cleaning", "done", s)
  /\ UNCHANGED <<adapter, upload, panel, backups, cacheVars, deleting, restoreVars, serverVars>>

------------------------------------------------------------------------------
(* Finding.  The cache is asked first, and is not told of a deletion.        *)

wings_find(b) == store[b].data # "none"
s3_find(b) == TRUE
ddup_bak_find(b) == store[b].data = "full"
btrfs_find(b) == store[b].dir
zfs_find(b) == store[b].dir /\ store[b].meta
restic_find(b) == store[b].meta \/ store[b].data # "none"

AdapterFind(b) ==
  CASE adapter[b] = "wings" -> wings_find(b)
    [] adapter[b] = "s3" -> s3_find(b)
    [] adapter[b] = "ddup-bak" -> ddup_bak_find(b)
    [] adapter[b] = "btrfs" -> btrfs_find(b)
    [] adapter[b] = "zfs" -> zfs_find(b)
    [] adapter[b] = "restic" -> restic_find(b)

\* restic keeps what it found.
Remember(b) ==
  store' = IF adapter[b] = "restic" /\ b \notin cached_backups
             THEN [store EXCEPT ![b].meta = TRUE] ELSE store

\* find_all does not ask s3.
find(b) ==
  /\ \/ b \in cached_backups /\ UNCHANGED cached_backup_adapters
     \/ /\ b \notin cached_backups /\ AdapterFind(b)
        /\ b \in cached_backup_adapters \/ adapter[b] # "s3"
        /\ cached_backup_adapters' = cached_backup_adapters \cup {b}
  /\ cached_backups' = cached_backups \cup {b}
  /\ Remember(b)

find_adapter(b) ==
  /\ b \in cached_backups \/ AdapterFind(b)
  /\ cached_backups' = cached_backups \cup {b}
  /\ UNCHANGED cached_backup_adapters
  /\ Remember(b)

\* A download only finds the backup and reads it.
get_download(b) ==
  /\ panel[b] = "successful"
  /\ find(b)
  /\ UNCHANGED <<adapter, createVars, deleting, restoreVars, serverVars>>

Sweep ==
  /\ \E B \in SUBSET cached_backups : B # {} /\ cached_backups' = cached_backups \ B
  /\ UNCHANGED <<adapter, store, createVars, cached_backup_adapters, deleting, restoreVars, serverVars>>

------------------------------------------------------------------------------
(* Deletion, in a task of its own once the backup is found.                  *)

delete_server_backup(b) == find(b)

delete_backup(b) == find_adapter(b)

AskDelete(b) ==
  /\ deleting[b] = "no" /\ panel[b] # "none"
  /\ delete_server_backup(b) \/ delete_backup(b)
  /\ deleting' = [deleting EXCEPT ![b] = "asked"]
  /\ UNCHANGED <<adapter, createVars, restoreVars, serverVars>>

Delete(b) ==
  /\ deleting[b] = "asked"
  /\ \E s \in {AdapterDelete(b), store[b]} : store' = [store EXCEPT ![b] = s]
  /\ deleting' = [deleting EXCEPT ![b] = "done"]
  /\ UNCHANGED <<adapter, createVars, cacheVars, restoreVars, serverVars>>

------------------------------------------------------------------------------
(* Restoration, for a request r.                                             *)

To(r, pc) == restore' = [restore EXCEPT ![r].pc = pc]

post_restore(r) ==
  /\ restore[r].pc = "idle" /\ panel[restore[r].backup] = "successful"
  /\ find_adapter(restore[r].backup)
  /\ To(r, "found")
  /\ UNCHANGED <<adapter, createVars, deleting, restoring, raced, unstopped, serverVars>>

\* is_locked_state.  One that is refused ends here, and the panel is not told.
CheckLocked(r) ==
  /\ restore[r].pc = "found"
  /\ To(r, IF restoring THEN "done" ELSE "checked")
  /\ UNCHANGED <<restoring, raced, unstopped, server>>

\* The flag is stored apart from the check.
Raise(r) ==
  /\ restore[r].pc = "checked"
  /\ restoring' = TRUE
  /\ raced' = (raced \/ restoring \/ starting)
  /\ unstopped' = FALSE
  /\ To(r, "raised")
  /\ UNCHANGED server

\* The flag is lowered, and the panel has still to be told.
End(r, successful, missing) ==
  /\ restoring' = FALSE
  /\ restore' = [restore EXCEPT ![r].pc = "ended", ![r].left = 0,
                                ![r].missing = missing, ![r].successful = successful]
  /\ UNCHANGED raced

\* stop_with_kill_timeout: a server with no container is left alone.  It returns
\* with no error, and the server running, when the kill request fails, the stream
\* of the wait ends, or there is no container in the slot.
Stop(r) ==
  /\ restore[r].pc = "raised"
  /\ \/ /\ server' = server \/ server' = "offline"
        /\ unstopped' = (server' = "running")
        /\ To(r, "stopped")
        /\ UNCHANGED <<restoring, raced>>
     \/ server = "running" /\ End(r, FALSE, {}) /\ UNCHANGED <<unstopped, server>>

TruncateRoot_BUG(r) ==
  /\ restore[r].pc = "stopped"
  /\ To(r, "opening") \/ To(r, "ended")
  /\ UNCHANGED <<restoring, raced, unstopped, server>>

\* The directory is emptied, when that was asked for, before the backup is opened.
TruncateRoot(r) ==
  /\ restore[r].pc = "stopped"
  /\ \/ To(r, "opening") /\ UNCHANGED <<restoring, raced>>
     \/ End(r, FALSE, {})
  /\ UNCHANGED <<unstopped, server>>

\* The archive of a ddup-bak backup was read when it was found; an s3 one is
\* fetched from the url of the request.
CanOpen(b) == (adapter[b] \in {"wings", "btrfs", "zfs"}) => store[b].data # "none"

Open(r) ==
  /\ restore[r].pc = "opening"
  /\ \/ /\ CanOpen(restore[r].backup)
        /\ restore' = [restore EXCEPT ![r].pc = "entries", ![r].left = EntryCount]
        /\ UNCHANGED <<restoring, raced>>
     \/ End(r, FALSE, {})
  /\ UNCHANGED <<unstopped, server>>

------------------------------------------------------------------------------
(* The entries.  One that is left out adds the reason to what is missing:    *)
(*   "link"       a symbolic link that cannot be made, for one because       *)
(*                something has its name: that is only logged                *)
(*   "odd"        an entry of another type, or with a path that is absolute  *)
(*   "denied"     a path of the server's denylist                            *)
(*   "metadata"   metadata, or the target of a link, that cannot be read     *)
(*   "gone"       the same, because the snapshot was deleted                 *)
(*   "cut"        the archive cannot be read any further                     *)
(*   "unchecked"  the child may have failed                                  *)

EntryDone(r, reasons) ==
  /\ restore' = [restore EXCEPT ![r].left = @ - 1, ![r].missing = @ \cup reasons]
  /\ UNCHANGED <<restoring, raced>>

EntryFails(r) == End(r, FALSE, restore[r].missing)

\* It is written, or left out for one of the reasons.
Entry(r, reasons) == \E left_out \in {{}} \cup {{reason} : reason \in reasons} : EntryDone(r, left_out)

\* A tar archive ends at the first entry that cannot be read.
wings_restore_tar(r, b) ==
  /\ adapter[b] = "wings"
  /\ \/ Entry(r, {"link", "odd"}) \/ EntryFails(r)
     \/ End(r, TRUE, restore[r].missing \cup {"cut"})

\* A file of a zip archive that is corrupted is left as far as it goes.
wings_restore_zip(r, b) ==
  /\ adapter[b] = "wings"
  /\ Entry(r, {"link", "odd", "cut"}) \/ EntryFails(r)

s3_restore(r, b) ==
  /\ adapter[b] = "s3"
  /\ Entry(r, {"link", "odd"}) \/ EntryFails(r)

ddup_bak_restore(r, b) ==
  /\ adapter[b] = "ddup-bak"
  /\ Entry(r, {"link", "denied"}) \/ EntryFails(r)

\* A path whose metadata cannot be read is passed over.
btrfs_restore(r, b) ==
  /\ adapter[b] = "btrfs"
  /\ \/ store[b].data = "full" /\ Entry(r, {"link", "metadata"})
     \/ store[b].data = "none" /\ EntryDone(r, {"gone"})
     \/ EntryFails(r)

\* As if what cannot be copied were passed over too.
zfs_restore_BUG(r, b) ==
  /\ adapter[b] = "zfs"
  /\ Entry(r, {"link", "metadata", "copy"})

zfs_restore(r, b) ==
  /\ adapter[b] = "zfs"
  /\ \/ store[b].data = "full" /\ Entry(r, {"link", "metadata"})
     \/ store[b].data = "none" /\ EntryDone(r, {"gone"})
     \/ EntryFails(r)

\* The exit status of the child is not read, and it has no timeout.
restic_restore(r, b) ==
  /\ adapter[b] = "restic"
  /\ \E missing \in {{}, {"unchecked"}} : End(r, TRUE, missing)

AdapterRestore(r, b) ==
  \/ wings_restore_tar(r, b) \/ wings_restore_zip(r, b) \/ s3_restore(r, b)
  \/ ddup_bak_restore(r, b) \/ btrfs_restore(r, b) \/ zfs_restore(r, b) \/ restic_restore(r, b)

RestoreEntries(r) ==
  /\ restore[r].pc = "entries"
  /\ \/ restore[r].left > 0 /\ AdapterRestore(r, restore[r].backup)
     \/ restore[r].left = 0 /\ End(r, TRUE, restore[r].missing)
  /\ UNCHANGED <<unstopped, server>>

\* The panel is told, or cannot be reached: then nothing was said of the restore.
TellRestored(r) ==
  /\ restore[r].pc = "ended"
  /\ \/ restore' = [restore EXCEPT ![r].pc = "done", ![r].told = TRUE]
     \/ restore' = [restore EXCEPT ![r].pc = "done", ![r].missing = {}, ![r].successful = FALSE]
  /\ UNCHANGED <<restoring, raced, unstopped, server>>

RestoreStep(r) ==
  /\ \/ CheckLocked(r) \/ Raise(r) \/ Stop(r) \/ TruncateRoot(r)
     \/ Open(r) \/ RestoreEntries(r) \/ TellRestored(r)
  /\ UNCHANGED <<adapter, store, createVars, cacheVars, deleting, starting>>

------------------------------------------------------------------------------
(* The server is started and stopped beside it.                              *)

StartCheck_BUG ==
  /\ server = "offline" /\ ~starting
  /\ starting' = TRUE
  /\ UNCHANGED server

\* start checks the flags and the state, and goes on in a task of its own.
StartCheck ==
  /\ ~restoring /\ server = "offline" /\ ~starting
  /\ starting' = TRUE
  /\ UNCHANGED server

StartEnd ==
  /\ starting
  /\ starting' = FALSE
  /\ server' \in {"offline", "running"}

ServerEnds ==
  /\ server = "running"
  /\ server' = "offline"
  /\ UNCHANGED starting

ServerStep ==
  /\ StartCheck \/ StartEnd \/ ServerEnds
  /\ UNCHANGED <<adapter, store, createVars, cacheVars, deleting, restoreVars>>

------------------------------------------------------------------------------
Next ==
  \/ \E b \in Backups :
       \/ CreateStep(b) \/ TellCreated(b) \/ TellFailed(b) \/ Clean(b)
       \/ AskDelete(b) \/ Delete(b) \/ get_download(b)
  \/ \E r \in Restores : post_restore(r) \/ RestoreStep(r)
  \/ Sweep
  \/ ServerStep

\* A creation, and a restore, that waits for a child process, which has no timeout.
CreateWaits(b) ==
  \/ adapter[b] = "restic" /\ creating[b] = "child"
  \/ adapter[b] \in {"btrfs", "zfs"} /\ creating[b] \in {"snapshot", "cleaning"}

RestoreWaits(r) == adapter[restore[r].backup] = "restic" /\ restore[r].pc = "entries"

\* The tasks of a creation and of a restore go on until they return, unless they wait
\* for a child: their other calls have timeouts.
CreateProgress(b) ==
  /\ ~CreateWaits(b)
  /\ (CreateStep(b) /\ creating[b] # "new") \/ TellCreated(b) \/ TellFailed(b) \/ Clean(b)

RestoreProgress(r) == ~RestoreWaits(r) /\ RestoreStep(r)

Fairness ==
  /\ \A b \in Backups : WF_vars(CreateProgress(b))
  /\ \A r \in Restores : WF_vars(RestoreProgress(r))

Spec == Init /\ [][Next]_vars /\ Fairness

------------------------------------------------------------------------------
(* Properties.                                                               *)

Reasons == {"link", "odd", "denied", "metadata", "gone", "cut", "unchecked"}

\* The types.  What is left of an upload never goes below zero, whatever part size
\* and number of urls the panel gives.
TypeOK ==
  /\ adapter \in [Backups -> Adapters]
  /\ store \in [Backups -> [data : {"none", "partial", "cut", "full"}, dir : BOOLEAN, meta : BOOLEAN,
                            parts : Seq([offset : 0..FileSize, size : 0..FileSize])]]
  /\ upload \in [Backups -> [urls : 0..FileSize, part_size : 0..FileSize,
                             remaining : 0..FileSize, attempts : 0..RetryLimit]]
  /\ creating \in [Backups -> {"new", "begin", "writing", "snapshot", "dataset", "child", "urls",
                               "parts", "created", "failed", "cleaning", "done"}]
  /\ panel \in [Backups -> {"none", "successful", "failed"}]
  /\ backups \subseteq Backups
  /\ cached_backups \subseteq Backups /\ cached_backup_adapters \subseteq Backups
  /\ deleting \in [Backups -> {"no", "asked", "done"}]
  /\ restore \in [Restores ->
       [pc : {"idle", "found", "checked", "raised", "stopped", "opening", "entries", "ended", "done"},
        backup : Backups, left : 0..EntryCount, missing : SUBSET Reasons, successful : BOOLEAN, told : BOOLEAN]]
  /\ {restoring, raced, unstopped, starting} \subseteq BOOLEAN /\ server \in {"offline", "running"}

\* The parts follow each other from the first byte of the file to its last.
Whole(parts) ==
  LET End_(i) == parts[i].offset + parts[i].size IN
  /\ parts # <<>> /\ parts[1].offset = 0 /\ End_(Len(parts)) = FileSize
  /\ \A i \in 1..Len(parts) - 1 : parts[i + 1].offset = End_(i)

\* A backup that the panel was told is successful is stored as a whole, in a form
\* that can be found again, until someone asks for its deletion: the parts of s3
\* are there from end to end after any retries, and a zfs snapshot has its dataset.
\* The archive of wings, and the file that s3 sends, may be cut where something could
\* not be read; they are closed properly.
SuccessIsStored ==
  \A b \in Backups : panel[b] = "successful" /\ deleting[b] = "no" =>
    CASE adapter[b] = "s3" -> Whole(store[b].parts)
      [] adapter[b] = "wings" -> store[b].data \in {"full", "cut"} /\ wings_find(b)
      [] adapter[b] = "zfs" -> store[b].data = "full" /\ zfs_find(b)
      [] OTHER -> store[b].data = "full" /\ AdapterFind(b)

\* The reasons for which each adapter may leave something out of a restore that
\* succeeds.
Excused(b) ==
  CASE adapter[b] = "wings" -> {"link", "odd", "cut"}
    [] adapter[b] = "s3" -> {"link", "odd"}
    [] adapter[b] = "ddup-bak" -> {"link", "denied"}
    [] adapter[b] \in {"btrfs", "zfs"} -> {"link", "metadata"} \cup {reason \in {"gone"} : deleting[b] # "no"}
    [] adapter[b] = "restic" -> {"unchecked"}

\* A restore that the panel was told is successful has written every file and every
\* directory that it could read: what it left out, it left out for a reason that
\* its adapter has, and a btrfs or zfs snapshot is gone under it only if its
\* deletion was asked for.  (For restic this says nothing: its exit status is not
\* read.)
RestoredIsWhole ==
  \A r \in Restores : restore[r].told /\ restore[r].successful =>
    restore[r].missing \subseteq Excused(restore[r].backup)

\* The server does not run while a restore empties and writes its files, unless the
\* flag was raised past a start that had already looked at it, or past another
\* restore that had, or the stop returned without having stopped it.
RestoreIsQuiet ==
  (\E r \in Restores : restore[r].pc \in {"stopped", "opening", "entries"}) /\ server = "running"
    => raced \/ unstopped

\* The restoring flag, which locks the server, does not stay up: from wherever a
\* restore is, every way on lowers it, or leads to the wait for a restic child,
\* which may never end.
FlagIsLowered == restoring ~> (~restoring \/ \E r \in Restores : RestoreWaits(r))

\* The creation of a backup that was accepted ends: from wherever it is, the retries
\* of an s3 part are limited and each error leads to its end, or it is waiting for a
\* child of restic, btrfs or zfs, which may never end.
CreationEnds ==
  \A b \in Backups : creating[b] \notin {"new", "done"} ~> creating[b] = "done" \/ CreateWaits(b)
===============================================================================
