---------------------------- MODULE BackupProofs ----------------------------
(***************************************************************************)
(* Proofs about Backup, for any number of backups and restores, any size   *)
(* of the file that s3 uploads and any number of retries.                  *)
(***************************************************************************)
EXTENDS Backup, TLAPS

StoreType == [data : {"none", "partial", "cut", "full"}, dir : BOOLEAN, meta : BOOLEAN,
              parts : Seq([offset : 0..FileSize, size : 0..FileSize])]

UploadType == [urls : 0..FileSize, part_size : 0..FileSize, remaining : 0..FileSize,
               attempts : 0..RetryLimit]

Points == {"new", "begin", "writing", "snapshot", "dataset", "child", "urls", "parts", "created",
           "failed", "cleaning", "done"}

Heard == {"none", "successful", "failed"}

RestorePoints == {"idle", "found", "checked", "raised", "stopped", "opening", "entries", "ended", "done"}

RestoreType ==
  [pc : RestorePoints, backup : Backups, left : 0..EntryCount, missing : SUBSET Reasons,
   successful : BOOLEAN, told : BOOLEAN]

RestoreTyped == restore \in [Restores -> RestoreType] /\ restoring \in BOOLEAN /\ raced \in BOOLEAN
                /\ unstopped \in BOOLEAN /\ starting \in BOOLEAN /\ server \in {"offline", "running"}

\* The types, in three parts.
Typed ==
  /\ adapter \in [Backups -> Adapters]
  /\ store \in [Backups -> StoreType] /\ upload \in [Backups -> UploadType]
  /\ creating \in [Backups -> Points] /\ panel \in [Backups -> Heard]
  /\ deleting \in [Backups -> {"no", "asked", "done"}]

Cached == backups \subseteq Backups /\ cached_backups \subseteq Backups
          /\ cached_backup_adapters \subseteq Backups

(***************************************************************************)
(* The strengthening.                                                      *)
(*                                                                         *)
(* Chained: the parts that s3 has accepted run from the first byte to the  *)
(* one where the rest of the file starts.                                  *)
(*                                                                         *)
(* Reported: the panel hears how a creation ended only at its end, never   *)
(* of a success that is being cleaned up, and asks for a deletion after it.*)
(*                                                                         *)
(* Made: what each adapter has stored at the points of its creation that   *)
(* its last step builds on.                                                *)
(*                                                                         *)
(* Kept: what is about to be reported as a success, and what was, is stored*)
(* until its deletion is asked for.                                        *)
(***************************************************************************)
Chained(parts, remaining) ==
  /\ parts = <<>> => remaining = FileSize
  /\ parts # <<>> => /\ parts[1].offset = 0
                     /\ parts[Len(parts)].offset + parts[Len(parts)].size = FileSize - remaining
  /\ \A i \in 1..Len(parts) - 1 : parts[i + 1].offset = parts[i].offset + parts[i].size

Stored(b) ==
  CASE adapter[b] = "s3" -> Whole(store[b].parts)
    [] adapter[b] = "wings" -> store[b].data \in {"full", "cut"} /\ wings_find(b)
    [] adapter[b] = "zfs" -> store[b].data = "full" /\ zfs_find(b)
    [] OTHER -> store[b].data = "full" /\ AdapterFind(b)

Reported(b) ==
  /\ creating[b] \notin {"cleaning", "done"} => panel[b] = "none"
  /\ creating[b] = "cleaning" => panel[b] # "successful"
  /\ panel[b] = "none" => deleting[b] = "no"

Made(b) ==
  /\ adapter[b] \in {"btrfs", "zfs"} /\ creating[b] \in {"snapshot", "dataset"} => store[b].dir
  /\ adapter[b] = "zfs" /\ creating[b] = "dataset" => store[b].data = "full"
  /\ adapter[b] = "s3" /\ creating[b] \in {"new", "begin", "urls"} => store[b].parts = <<>>
  /\ adapter[b] = "s3" /\ creating[b] = "parts" =>
       Chained(store[b].parts, upload[b].remaining)

Kept(b) ==
  creating[b] = "created" \/ (panel[b] = "successful" /\ deleting[b] = "no") => Stored(b)

Safe(b) == Reported(b) /\ Made(b) /\ Kept(b)

(***************************************************************************)
(* Missed: a restore has found a backup that the panel takes for a success,*)
(* and what it left out, it left out for a reason that its adapter has.    *)
(*                                                                         *)
(* Alone: as long as nothing has raced, the restores from the one that     *)
(* raises the flag to its end are one; the flag is up and no start is under*)
(* way while it is there, and once it was stopped the server is offline, or*)
(* the stop is known not to have stopped it.                               *)
(***************************************************************************)
Missed(r) ==
  LET b == restore[r].backup IN
  /\ restore[r].pc # "idle" => panel[b] = "successful"
  /\ restore[r].missing \subseteq Excused(b)

Writing(r) == restore[r].pc \in {"stopped", "opening", "entries"}

Active(r) == restore[r].pc = "raised" \/ Writing(r)

Alone ==
  ~raced =>
    /\ \A r, s \in Restores : Active(r) /\ Active(s) => r = s
    /\ \A r \in Restores : Active(r) => restoring /\ ~starting
    /\ \A r \in Restores : Writing(r) => server = "offline" \/ unstopped

IInv ==
  /\ Typed /\ RestoreTyped /\ Cached
  /\ \A b \in Backups : Safe(b)
  /\ \A r \in Restores : Missed(r)
  /\ Alone

-----------------------------------------------------------------------------
(* What a step of one backup may do: its own creation, store and upload move, *)
(* to values of their types.                                                  *)
Moves(b) ==
  \E to \in Points, s \in StoreType, u \in UploadType :
    /\ creating' = [creating EXCEPT ![b] = to]
    /\ store' = [store EXCEPT ![b] = s]
    /\ upload' = [upload EXCEPT ![b] = u]

\* A step that only moves one backup keeps the types, and leaves every other backup
\* as it was.
LEMMA MovesFrame ==
  ASSUME Typed, NEW b \in Backups, Moves(b)
  PROVE  /\ creating' \in [Backups -> Points] /\ store' \in [Backups -> StoreType]
         /\ upload' \in [Backups -> UploadType]
         /\ \A c \in Backups \ {b} : /\ creating'[c] = creating[c] /\ store'[c] = store[c]
                                     /\ upload'[c] = upload[c]
BY DEF Typed, Moves

\* The records that the steps write are ones of the store.
LEMMA StoreFields ==
  ASSUME Typed, NEW b \in Backups
  PROVE  /\ store[b] \in StoreType /\ upload[b] \in UploadType
         /\ \A d \in {"none", "partial", "cut", "full"} :
              With(b, d) \in StoreType /\ With(b, d).data = d /\ With(b, d).dir = store[b].dir
              /\ With(b, d).meta = store[b].meta /\ With(b, d).parts = store[b].parts
BY DEF Typed, StoreType, With

\* A step of Create moves only the one backup, and to what it says.
LEMMA CreateMoves ==
  ASSUME Typed, NEW b \in Backups, NEW from, NEW to \in Points, NEW s \in StoreType,
         Create(b, from, to, s), UNCHANGED upload
  PROVE  /\ Moves(b) /\ creating[b] = from
         /\ creating'[b] = to /\ store'[b] = s /\ upload'[b] = upload[b]
<1>1. upload[b] \in UploadType /\ upload' = [upload EXCEPT ![b] = upload[b]]
  BY DEF Typed
<1>2. Moves(b)
  BY <1>1 DEF Moves, Create
<1> QED
  BY <1>2, <1>1 DEF Create, Typed

\* A step of a creation that is not at its end leaves the panel without an answer; if
\* it does not reach "created" there is nothing to keep.
LEMMA NotReported ==
  ASSUME Typed, NEW b \in Backups, Reported(b),
         creating[b] \notin {"cleaning", "done"}, creating'[b] \notin {"cleaning", "done"},
         UNCHANGED <<panel, deleting>>
  PROVE  Reported(b)' /\ (creating'[b] # "created" => Kept(b)')
BY DEF Reported, Kept

\* The adapters that write in one piece.
LEMMA PieceSteps ==
  ASSUME Typed, NEW b \in Backups, Safe(b),
         wings_create(b) \/ ddup_bak_create(b) \/ restic_spawn(b) \/ restic_wait(b),
         UNCHANGED <<adapter, panel, deleting>>
  PROVE  Moves(b) /\ Safe(b)'
<1>1. /\ adapter[b] \in {"wings", "ddup-bak", "restic"} /\ adapter'[b] = adapter[b]
      /\ UNCHANGED upload
  BY DEF wings_create, ddup_bak_create, restic_spawn, restic_wait
<1>2. ASSUME NEW m \in BOOLEAN
      PROVE  /\ [store[b] EXCEPT !.data = "full", !.meta = m] \in StoreType
             /\ [store[b] EXCEPT !.data = "full", !.meta = m].data = "full"
  <2>1. store[b] \in StoreType
    BY StoreFields
  <2> QED
    BY <2>1 DEF StoreType
<1>3. \E from \in {"begin", "writing", "child"}, to \in {"writing", "child", "created", "failed"},
         s \in StoreType :
        /\ Create(b, from, to, s)
        /\ to = "created" => s.data = "full" \/ (adapter[b] = "wings" /\ s.data = "cut")
  <2>1. CASE wings_create(b)
    BY <2>1, StoreFields DEF wings_create, Fails
  <2>2. CASE ddup_bak_create(b)
    BY <2>2, StoreFields DEF ddup_bak_create, Fails
  <2>3. CASE restic_spawn(b)
    BY <2>3, StoreFields DEF restic_spawn, Fails
  <2>4. CASE restic_wait(b)
    BY <2>4, <1>2, StoreFields DEF restic_wait, Fails
  <2> QED
    BY <2>1, <2>2, <2>3, <2>4
<1>4. PICK from \in {"begin", "writing", "child"}, to \in {"writing", "child", "created", "failed"},
           s \in StoreType :
        /\ Create(b, from, to, s)
        /\ to = "created" => s.data = "full" \/ (adapter[b] = "wings" /\ s.data = "cut")
  BY <1>3
<1>5. Moves(b) /\ creating[b] = from /\ creating'[b] = to /\ store'[b] = s
  <2>1. to \in Points
    BY DEF Points
  <2> QED
    BY <1>1, <1>4, <2>1, CreateMoves
<1>6. Reported(b)' /\ (to # "created" => Kept(b)')
  BY <1>5, NotReported DEF Safe
<1>7. Made(b)'
  BY <1>1, <1>5 DEF Made
<1>8. to = "created" => Stored(b)'
  BY <1>1, <1>4, <1>5 DEF Stored, AdapterFind, wings_find, ddup_bak_find, restic_find
<1> QED
  BY <1>5, <1>6, <1>7, <1>8 DEF Safe, Kept

\* The adapters that take a snapshot: the directory is there before it, and the
\* dataset of zfs after it.
LEMMA SnapshotSteps ==
  ASSUME Typed, NEW b \in Backups, Safe(b), btrfs_create(b) \/ zfs_create(b),
         UNCHANGED <<adapter, panel, deleting>>
  PROVE  Moves(b) /\ Safe(b)'
<1>1. adapter[b] \in {"btrfs", "zfs"} /\ adapter'[b] = adapter[b] /\ UNCHANGED upload
  BY DEF btrfs_create, zfs_create
<1>2. /\ [store[b] EXCEPT !.dir = TRUE] \in StoreType /\ [store[b] EXCEPT !.dir = TRUE].dir
      /\ [store[b] EXCEPT !.meta = TRUE] \in StoreType /\ [store[b] EXCEPT !.meta = TRUE].meta
      /\ [store[b] EXCEPT !.meta = TRUE].dir = store[b].dir
      /\ [store[b] EXCEPT !.meta = TRUE].data = store[b].data
  BY StoreFields DEF StoreType
<1>3. \E from \in {"begin", "snapshot", "dataset"},
         to \in {"snapshot", "dataset", "created", "failed"}, s \in StoreType :
        /\ Create(b, from, to, s)
        /\ to # "failed" => s.dir
        /\ to = "dataset" => s.data = "full"
        /\ to = "created" => s.data = "full" /\ (adapter[b] = "zfs" => s.meta)
  <2>1. CASE btrfs_create(b)
    <3>1. creating[b] = "snapshot" => store[b].dir
      BY <1>1 DEF Safe, Made
    <3>2. CASE Fails(b, "begin") \/ Fails(b, "snapshot")
      BY <3>2, StoreFields DEF Fails
    <3>3. CASE Create(b, "begin", "snapshot", [store[b] EXCEPT !.dir = TRUE])
      BY <3>3, <1>2
    <3>4. CASE \E to \in {"created", "failed"} : Create(b, "snapshot", to, With(b, "full"))
      <4>1. PICK to \in {"created", "failed"} : Create(b, "snapshot", to, With(b, "full"))
        BY <3>4
      <4>2. creating[b] = "snapshot" /\ adapter[b] # "zfs"
        BY <4>1, <2>1 DEF Create, btrfs_create
      <4>3. With(b, "full") \in StoreType /\ With(b, "full").data = "full" /\ With(b, "full").dir
        BY <4>2, <3>1, StoreFields
      <4> QED
        BY <4>1, <4>2, <4>3
    <3> QED
      BY <2>1, <3>2, <3>3, <3>4 DEF btrfs_create
  <2>2. CASE zfs_create(b)
    <3>1. /\ creating[b] \in {"snapshot", "dataset"} => store[b].dir
          /\ creating[b] = "dataset" => store[b].data = "full"
      BY <1>1, <2>2 DEF Safe, Made, zfs_create
    <3>2. CASE Fails(b, "begin") \/ Fails(b, "snapshot") \/ Fails(b, "dataset")
      BY <3>2, StoreFields DEF Fails
    <3>3. CASE Create(b, "begin", "snapshot", [store[b] EXCEPT !.dir = TRUE])
      BY <3>3, <1>2
    <3>4. CASE Create(b, "snapshot", "dataset", With(b, "full"))
      BY <3>4, <3>1, StoreFields DEF Create
    <3>5. CASE \E to \in {"created", "failed"} :
                 Create(b, "dataset", to, [store[b] EXCEPT !.meta = TRUE])
      BY <3>5, <3>1, <1>2 DEF Create
    <3> QED
      BY <2>2, <3>2, <3>3, <3>4, <3>5 DEF zfs_create
  <2> QED
    BY <2>1, <2>2
<1>4. PICK from \in {"begin", "snapshot", "dataset"},
           to \in {"snapshot", "dataset", "created", "failed"}, s \in StoreType :
        /\ Create(b, from, to, s)
        /\ to # "failed" => s.dir
        /\ to = "dataset" => s.data = "full"
        /\ to = "created" => s.data = "full" /\ (adapter[b] = "zfs" => s.meta)
  BY <1>3
<1>5. Moves(b) /\ creating[b] = from /\ creating'[b] = to /\ store'[b] = s
  <2>1. to \in Points
    BY DEF Points
  <2> QED
    BY <1>1, <1>4, <2>1, CreateMoves
<1>6. Reported(b)' /\ (to # "created" => Kept(b)')
  BY <1>5, NotReported DEF Safe
<1>7. Made(b)'
  BY <1>1, <1>4, <1>5 DEF Made
<1>8. to = "created" => Stored(b)'
  BY <1>1, <1>4, <1>5 DEF Stored, AdapterFind, btrfs_find, zfs_find
<1> QED
  BY <1>5, <1>6, <1>7, <1>8 DEF Safe, Kept

\* A part is the next piece of the file: it starts where the rest does, and what is
\* left after it is the rest less its size.
LEMMA PartFits ==
  ASSUME NEW u \in UploadType
  PROVE  /\ PartSize(u) \in 0..FileSize /\ PartSize(u) <= u.remaining
         /\ NextPart(u) \in [offset : 0..FileSize, size : 0..FileSize]
         /\ NextPart(u).offset = FileSize - u.remaining /\ NextPart(u).size = PartSize(u)
BY BackupAssumption DEF UploadType, PartSize, NextPart

\* An upload that has sent a part is one again.
LEMMA UploadFields ==
  ASSUME NEW u \in UploadType, u.urls > 0
  PROVE  /\ [u EXCEPT !.urls = @ - 1, !.remaining = @ - PartSize(u), !.attempts = 0] \in UploadType
         /\ [u EXCEPT !.urls = @ - 1, !.remaining = @ - PartSize(u), !.attempts = 0].remaining
              = u.remaining - PartSize(u)
<1>1. PartSize(u) \in 0..FileSize /\ PartSize(u) <= u.remaining
  BY PartFits
<1>2. u.urls - 1 \in 0..FileSize /\ u.remaining - PartSize(u) \in 0..FileSize /\ 0 \in 0..RetryLimit
  BY <1>1, BackupAssumption DEF UploadType
<1>3. ASSUME NEW n \in 0..FileSize, NEW m \in 0..FileSize, NEW k \in 0..RetryLimit
      PROVE  /\ [u EXCEPT !.urls = n, !.remaining = m, !.attempts = k] \in UploadType
             /\ [u EXCEPT !.urls = n, !.remaining = m, !.attempts = k].remaining = m
  BY DEF UploadType
<1> QED
  BY <1>2, <1>3, Zenon

\* The chain goes on with the next part.
LEMMA ChainGrows ==
  ASSUME NEW u \in UploadType, NEW parts \in Seq([offset : 0..FileSize, size : 0..FileSize]),
         Chained(parts, u.remaining)
  PROVE  Chained(Append(parts, NextPart(u)), u.remaining - PartSize(u))
<1> DEFINE new == Append(parts, NextPart(u))
           n == Len(parts)
<1>1. /\ n \in Nat /\ Len(new) = n + 1 /\ new[n + 1] = NextPart(u)
      /\ \A i \in 1..n : new[i] = parts[i]
  BY PartFits
<1>2. /\ FileSize \in Nat /\ u.remaining \in Nat /\ PartSize(u) \in Nat
      /\ NextPart(u).offset = FileSize - u.remaining /\ NextPart(u).size = PartSize(u)
  BY PartFits, BackupAssumption DEF UploadType
<1>3. new # <<>>
  BY <1>1
<1>4. new[Len(new)].offset + new[Len(new)].size = FileSize - (u.remaining - PartSize(u))
  BY <1>1, <1>2
<1>5. new[1].offset = 0
  <2>1. CASE parts = <<>>
    BY <2>1, <1>1, <1>2 DEF Chained
  <2>2. CASE parts # <<>>
    BY <2>2, <1>1 DEF Chained
  <2> QED
    BY <2>1, <2>2
<1>6. ASSUME NEW i \in 1..Len(new) - 1
      PROVE  new[i + 1].offset = new[i].offset + new[i].size
  <2>1. CASE i < n
    <3>1. i \in 1..Len(parts) - 1 /\ i \in 1..n /\ i + 1 \in 1..n
      BY <2>1, <1>1
    <3> QED
      BY <3>1, <1>1 DEF Chained
  <2>2. CASE i = n
    <3>1. parts # <<>> /\ new[i + 1] = NextPart(u) /\ new[i] = parts[n]
      BY <2>2, <1>1
    <3> QED
      BY <3>1, <1>2 DEF Chained
  <2> QED
    BY <1>1, <2>1, <2>2
<1> HIDE DEF new
<1>7. Chained(new, u.remaining - PartSize(u))
  BY <1>3, <1>4, <1>5, <1>6 DEF Chained
<1> QED
  BY <1>7 DEF new

\* Once nothing is left of a file that is not empty, the chain is the whole of it.
LEMMA ChainIsWhole ==
  ASSUME NEW parts, Chained(parts, 0)
  PROVE  Whole(parts)
<1>1. parts # <<>>
  BY BackupAssumption DEF Chained
<1> QED
  BY <1>1, BackupAssumption DEF Chained, Whole

\* s3: the parts are chained at every retry, and a creation that succeeds has sent
\* all of them.
LEMMA PartSteps ==
  ASSUME Typed, NEW b \in Backups, Safe(b), s3_create(b), UNCHANGED <<adapter, panel, deleting>>
  PROVE  Moves(b) /\ Safe(b)'
<1>1. adapter[b] = "s3" /\ adapter'[b] = "s3"
  BY DEF s3_create
<1>2. /\ store[b] \in StoreType /\ upload[b] \in UploadType
      /\ FileSize \in Nat \ {0} /\ RetryLimit \in Nat
  BY StoreFields, BackupAssumption
<1>3. NoUpload \in UploadType
  BY <1>2 DEF NoUpload, UploadType
<1>4. \E from \in {"begin", "urls", "parts"}, to \in {"urls", "parts", "created", "failed"},
         s \in StoreType, u \in UploadType :
        /\ Create(b, from, to, s) /\ upload' = [upload EXCEPT ![b] = u]
        /\ to = "urls" => s.parts = <<>>
        /\ to = "parts" => Chained(s.parts, u.remaining)
        /\ to = "created" => Whole(s.parts)
  <2>1. CASE s3_archive(b)
    <3>1. creating[b] = "begin" => store[b].parts = <<>>
      BY <1>1 DEF Safe, Made
    <3>2. upload' = [upload EXCEPT ![b] = upload[b]]
      BY <2>1 DEF s3_archive, Typed
    <3>3. CASE Fails(b, "begin")
      BY <3>3, <3>2, <1>2 DEF Fails
    <3>4. CASE Create(b, "begin", "failed", With(b, "partial"))
      BY <3>4, <3>2, <1>2, StoreFields
    <3>5. CASE \E data \in {"full", "cut"} : Create(b, "begin", "urls", With(b, data))
      <4>1. PICK data \in {"full", "cut"} : Create(b, "begin", "urls", With(b, data))
        BY <3>5
      <4>2. creating[b] = "begin"
        BY <4>1 DEF Create
      <4> QED
        BY <4>1, <4>2, <3>1, <3>2, <1>2, StoreFields
    <3> QED
      BY <2>1, <3>3, <3>4, <3>5 DEF s3_archive
  <2>2. CASE backup_upload_urls(b)
    <3>1. CASE Fails(b, "urls") /\ UNCHANGED upload
      <4>1. upload' = [upload EXCEPT ![b] = upload[b]]
        BY <3>1 DEF Typed
      <4> QED
        BY <3>1, <4>1, <1>2 DEF Fails
    <3>2. ASSUME NEW urls \in 0..FileSize, NEW part_size \in 1..FileSize,
                 Create(b, "urls", "parts", store[b]),
                 upload' = [upload EXCEPT ![b] =
                   [urls |-> urls, part_size |-> part_size, remaining |-> FileSize, attempts |-> 0]]
          PROVE  \E u \in UploadType :
                   upload' = [upload EXCEPT ![b] = u] /\ Chained(store[b].parts, u.remaining)
      <4> DEFINE u == [urls |-> urls, part_size |-> part_size, remaining |-> FileSize, attempts |-> 0]
      <4>1. u \in UploadType /\ u.remaining = FileSize
        BY <1>2 DEF UploadType
      <4>2. store[b].parts = <<>>
        BY <3>2, <1>1 DEF Create, Safe, Made
      <4>3. Chained(store[b].parts, FileSize)
        BY <4>2 DEF Chained
      <4> QED
        BY <3>2, <4>1, <4>3
    <3> QED
      BY <2>2, <3>1, <3>2, <1>2 DEF backup_upload_urls
  <2>3. CASE s3_part_sent(b)
    <3> DEFINE u == upload[b]
               v == [u EXCEPT !.urls = @ - 1, !.remaining = @ - PartSize(u), !.attempts = 0]
               s == [store[b] EXCEPT !.parts = Append(@, NextPart(u))]
    <3>1. u.urls > 0 /\ Create(b, "parts", "parts", s) /\ upload' = [upload EXCEPT ![b] = v]
      BY <2>3 DEF s3_part_sent
    <3>2. /\ PartSize(u) \in 0..FileSize /\ PartSize(u) <= u.remaining
          /\ NextPart(u) \in [offset : 0..FileSize, size : 0..FileSize]
      BY <1>2, PartFits
    <3>3. v \in UploadType /\ v.remaining = u.remaining - PartSize(u)
      BY <3>1, <1>2, UploadFields
    <3>4. s \in StoreType /\ s.parts = Append(store[b].parts, NextPart(u))
      <4>1. Append(store[b].parts, NextPart(u)) \in Seq([offset : 0..FileSize, size : 0..FileSize])
        BY <3>2, <1>2 DEF StoreType
      <4> QED
        BY <4>1, <1>2 DEF StoreType
    <3>5. Chained(store[b].parts, u.remaining)
      BY <3>1, <1>1 DEF Create, Safe, Made
    <3>6. store[b].parts \in Seq([offset : 0..FileSize, size : 0..FileSize])
      BY <1>2 DEF StoreType
    <3>7. Chained(s.parts, v.remaining)
      BY <3>3, <3>4, <3>5, <3>6, <1>2, ChainGrows
    <3> QED
      BY <3>1, <3>3, <3>4, <3>7
  <2>4. CASE s3_part_refused(b)
    <3> DEFINE v == [upload[b] EXCEPT !.attempts = @ + 1]
    <3>1. /\ upload[b].attempts < RetryLimit /\ Create(b, "parts", "parts", store[b])
          /\ upload' = [upload EXCEPT ![b] = v]
      BY <2>4 DEF s3_part_refused
    <3>2. v \in UploadType /\ v.remaining = upload[b].remaining
      BY <3>1, <1>2 DEF UploadType
    <3>3. Chained(store[b].parts, v.remaining)
      BY <3>1, <3>2, <1>1 DEF Create, Safe, Made
    <3> QED
      BY <3>1, <3>2, <3>3, <1>2
  <2>5. CASE s3_part_given_up(b)
    BY <2>5, <1>2, <1>3 DEF s3_part_given_up, Fails
  <2>6. CASE s3_finish(b)
    <3>1. CASE Fails(b, "parts")
      BY <2>6, <3>1, <1>2, <1>3 DEF s3_finish, Fails
    <3>2. CASE upload[b].remaining = 0 /\ Create(b, "parts", "created", With(b, "none"))
      <4>1. Whole(store[b].parts)
        BY <3>2, <1>1, ChainIsWhole DEF Create, Safe, Made
      <4> QED
        BY <2>6, <3>2, <4>1, <1>3, StoreFields DEF s3_finish
    <3> QED
      BY <2>6, <3>1, <3>2 DEF s3_finish
  <2> QED
    BY <2>1, <2>2, <2>3, <2>4, <2>5, <2>6 DEF s3_create
<1>5. PICK from \in {"begin", "urls", "parts"}, to \in {"urls", "parts", "created", "failed"},
           s \in StoreType, u \in UploadType :
        /\ Create(b, from, to, s) /\ upload' = [upload EXCEPT ![b] = u]
        /\ to = "urls" => s.parts = <<>>
        /\ to = "parts" => Chained(s.parts, u.remaining)
        /\ to = "created" => Whole(s.parts)
  BY <1>4
<1>6. /\ Moves(b) /\ creating[b] = from /\ creating'[b] = to /\ store'[b] = s
      /\ upload'[b].remaining = u.remaining
  <2>1. to \in Points
    BY DEF Points
  <2>2. Moves(b)
    BY <1>5, <2>1 DEF Moves, Create
  <2> QED
    BY <1>5, <2>2 DEF Create, Typed
<1>7. Reported(b)' /\ (to # "created" => Kept(b)')
  BY <1>6, NotReported DEF Safe
<1>8. Made(b)'
  BY <1>1, <1>5, <1>6 DEF Made
<1>9. to = "created" => Stored(b)'
  BY <1>1, <1>5, <1>6 DEF Stored
<1> QED
  BY <1>6, <1>7, <1>8, <1>9 DEF Safe, Kept

\* Every step of a creation, its first one included.
LEMMA CreateStepSafe ==
  ASSUME Typed, NEW b \in Backups, Safe(b), CreateStep(b)
  PROVE  Moves(b) /\ Safe(b)'
<1>1. UNCHANGED <<adapter, panel, deleting>>
  BY DEF CreateStep
<1>2. CASE post_backup(b)
  <2>1. /\ creating[b] = "new" /\ creating'[b] = "begin" /\ UNCHANGED <<store, upload>>
        /\ Moves(b)
    <3>1. /\ store' = [store EXCEPT ![b] = store[b]] /\ upload' = [upload EXCEPT ![b] = upload[b]]
          /\ store[b] \in StoreType /\ upload[b] \in UploadType /\ "begin" \in Points
      BY <1>2 DEF post_backup, Typed, Points
    <3>2. creating' = [creating EXCEPT ![b] = "begin"]
      BY <1>2 DEF post_backup
    <3>3. Moves(b)
      BY <3>1, <3>2 DEF Moves
    <3> QED
      BY <1>2, <3>2, <3>3 DEF post_backup, Typed
  <2>2. Reported(b)' /\ Kept(b)'
    BY <2>1, <1>1, NotReported DEF Safe
  <2>3. Made(b)'
    BY <2>1, <1>1 DEF Safe, Made
  <2> QED
    BY <2>1, <2>2, <2>3 DEF Safe
<1> QED
  BY <1>1, <1>2, PieceSteps, SnapshotSteps, PartSteps DEF CreateStep, AdapterCreate

\* What the other steps leave alone: the panel's answer follows the creation, and a
\* deletion or a search never touches what a creation builds on.
LEMMA TellSafe ==
  ASSUME Typed, NEW b \in Backups, Safe(b), TellCreated(b) \/ TellFailed(b)
  PROVE  /\ creating' \in [Backups -> Points] /\ panel' \in [Backups -> Heard]
         /\ Safe(b)' /\ \A c \in Backups \ {b} : creating'[c] = creating[c] /\ panel'[c] = panel[c]
         /\ \A c \in Backups : panel[c] = "successful" => panel'[c] = "successful"
<1>1. UNCHANGED <<adapter, store, upload, deleting>>
  BY DEF TellCreated, TellFailed
<1>2. panel[b] = "none" /\ deleting[b] = "no"
  BY DEF TellCreated, TellFailed, Safe, Reported
<1>3. CASE TellCreated(b)
  <2>1. /\ creating[b] = "created" /\ creating' = [creating EXCEPT ![b] = "done"]
        /\ panel' \in {panel, [panel EXCEPT ![b] = "successful"]}
    BY <1>3 DEF TellCreated
  <2>2. Stored(b)
    BY <2>1 DEF Safe, Kept
  <2>3. Stored(b)'
    BY <2>2, <1>1 DEF Stored, zfs_find, AdapterFind, wings_find, s3_find, ddup_bak_find, btrfs_find,
       restic_find
  <2>4. creating'[b] = "done" /\ deleting'[b] = "no" /\ panel'[b] \in {"none", "successful"}
    BY <1>1, <1>2, <2>1 DEF Typed
  <2>5. Safe(b)'
    BY <1>1, <2>3, <2>4 DEF Safe, Reported, Made, Kept
  <2> QED
    BY <1>2, <2>1, <2>5 DEF Typed, Points, Heard
<1>4. CASE TellFailed(b)
  <2>1. /\ creating[b] = "failed"
        /\ \E e \in {"cleaning", "done"} : creating' = [creating EXCEPT ![b] = e]
        /\ panel' \in {panel, [panel EXCEPT ![b] = "failed"]}
    BY <1>4 DEF TellFailed
  <2>2. creating'[b] \in {"cleaning", "done"} /\ deleting'[b] = "no" /\ panel'[b] \in {"none", "failed"}
    BY <1>1, <1>2, <2>1 DEF Typed
  <2>3. Safe(b)'
    BY <2>2 DEF Safe, Reported, Made, Kept
  <2> QED
    BY <1>2, <2>1, <2>3 DEF Typed, Points, Heard
<1> QED
  BY <1>3, <1>4

\* What clean and delete leave is a record of the store.
LEMMA LeftInStore ==
  ASSUME Typed, NEW b \in Backups
  PROVE  AdapterClean(b) \in StoreType /\ AdapterDelete(b) \in StoreType
<1>1. With(b, "none") \in StoreType /\ store[b] \in StoreType
  BY StoreFields
<1>2. Nothing \in StoreType
  BY BackupAssumption DEF Nothing, StoreType
<1>3. /\ [store[b] EXCEPT !.dir = FALSE] \in StoreType
      /\ [store[b] EXCEPT !.data = "none", !.meta = FALSE] \in StoreType
  BY <1>1 DEF StoreType
<1>4. adapter[b] \in Adapters
  BY DEF Typed
<1>5. AdapterClean(b) \in {With(b, "none"), store[b], Nothing, [store[b] EXCEPT !.dir = FALSE]}
  <2>1. zfs_clean(b) \in {Nothing, [store[b] EXCEPT !.dir = FALSE]}
    BY DEF zfs_clean
  <2> QED
    BY <1>4, <2>1 DEF AdapterClean, Adapters, wings_clean, s3_clean, ddup_bak_clean, btrfs_clean,
       restic_clean
<1>6. AdapterDelete(b) \in {With(b, "none"), [store[b] EXCEPT !.data = "none", !.meta = FALSE], Nothing,
                            [store[b] EXCEPT !.dir = FALSE]}
  <2>1. zfs_delete(b) \in {Nothing, [store[b] EXCEPT !.dir = FALSE]}
    BY DEF zfs_delete
  <2>2. restic_delete(b) = [store[b] EXCEPT !.data = "none", !.meta = FALSE]
    BY DEF restic_delete
  <2> QED
    BY <1>4, <2>1, <2>2 DEF AdapterDelete, Adapters, wings_delete, s3_delete, ddup_bak_delete,
       btrfs_delete
<1> QED
  BY <1>1, <1>2, <1>3, <1>5, <1>6

\* Only what has failed is cleaned.
LEMMA CleanSafe ==
  ASSUME Typed, NEW b \in Backups, Safe(b), Clean(b)
  PROVE  Moves(b) /\ Safe(b)'
<1>1. PICK s \in {AdapterClean(b), store[b]} : Create(b, "cleaning", "done", s)
  BY DEF Clean
<1>2. s \in StoreType /\ "done" \in Points /\ UNCHANGED <<adapter, upload, panel, deleting>>
  BY LeftInStore, StoreFields DEF Clean, Points
<1>3. Moves(b) /\ creating[b] = "cleaning" /\ creating'[b] = "done"
  BY <1>1, <1>2, CreateMoves
<1> QED
  BY <1>2, <1>3 DEF Safe, Reported, Made, Kept

\* A deletion changes what is stored only once it was asked for.
LEMMA DeleteSafe ==
  ASSUME Typed, NEW b \in Backups, Safe(b), Delete(b)
  PROVE  Moves(b) /\ deleting' \in [Backups -> {"no", "asked", "done"}] /\ Safe(b)'
         /\ \A c \in Backups \ {b} : deleting'[c] = deleting[c]
<1>1. PICK s \in {AdapterDelete(b), store[b]} : store' = [store EXCEPT ![b] = s]
  BY DEF Delete
<1>2. /\ s \in StoreType /\ UNCHANGED <<adapter, upload, creating, panel>>
      /\ deleting[b] = "asked" /\ deleting' = [deleting EXCEPT ![b] = "done"]
  BY LeftInStore, StoreFields DEF Delete, createVars
<1>3. Moves(b)
  <2>1. /\ creating' = [creating EXCEPT ![b] = creating[b]] /\ creating[b] \in Points
        /\ upload' = [upload EXCEPT ![b] = upload[b]] /\ upload[b] \in UploadType
    BY <1>2 DEF Typed
  <2> QED
    BY <1>1, <1>2, <2>1 DEF Moves
<1>4. creating[b] \in {"cleaning", "done"} /\ panel[b] # "none" /\ deleting'[b] = "done"
  BY <1>2 DEF Safe, Reported, Typed
<1>5. Safe(b)'
  BY <1>2, <1>4 DEF Safe, Reported, Made, Kept
<1> QED
  BY <1>2, <1>3, <1>5 DEF Typed

\* A search leaves the store as it was, or remembers that restic has the backup.
LEMMA SearchMoves ==
  ASSUME Typed, NEW b \in Backups, Remember(b), UNCHANGED <<adapter, upload, creating>>
  PROVE  /\ Moves(b) /\ store'[b].data = store[b].data
         /\ store' = store \/ (adapter[b] = "restic" /\ store'[b].dir = store[b].dir)
<1>1. /\ creating' = [creating EXCEPT ![b] = creating[b]] /\ creating[b] \in Points
      /\ upload' = [upload EXCEPT ![b] = upload[b]] /\ upload[b] \in UploadType
      /\ store[b] \in StoreType
  BY DEF Typed
<1>2. CASE store' = store
  <2>1. store' = [store EXCEPT ![b] = store[b]]
    BY <1>2 DEF Typed
  <2> QED
    BY <1>1, <1>2, <2>1 DEF Moves
<1>3. CASE adapter[b] = "restic" /\ store' = [store EXCEPT ![b].meta = TRUE]
  <2> DEFINE s == [store[b] EXCEPT !.meta = TRUE]
  <2>1. s \in StoreType /\ s.data = store[b].data /\ s.dir = store[b].dir
    BY <1>1 DEF StoreType
  <2>2. store' = [store EXCEPT ![b] = s] /\ store'[b] = s
    BY <1>3 DEF Typed
  <2> HIDE DEF s
  <2>3. Moves(b)
    BY <1>1, <2>1, <2>2 DEF Moves
  <2> QED
    BY <1>3, <2>1, <2>2, <2>3
<1> QED
  BY <1>2, <1>3 DEF Remember

\* So nothing that was kept is lost by it.
LEMMA SearchSafe ==
  ASSUME Typed, NEW b \in Backups, Safe(b), Remember(b),
         UNCHANGED <<adapter, upload, creating, panel>>,
         deleting'[b] = deleting[b] \/ (panel[b] # "none" /\ deleting'[b] = "asked")
  PROVE  Safe(b)'
<1>1. Reported(b)'
  BY DEF Safe, Reported
<1>2. CASE store' = store
  <2>1. Stored(b) => Stored(b)'
    BY <1>2 DEF Stored, zfs_find, AdapterFind, wings_find, s3_find, ddup_bak_find, btrfs_find,
       restic_find
  <2> QED
    BY <1>1, <1>2, <2>1 DEF Safe, Made, Kept
<1>3. CASE adapter[b] = "restic"
  <2>1. store'[b].data = store[b].data /\ adapter'[b] = "restic"
    BY <1>3, SearchMoves
  <2>2. Stored(b) => Stored(b)'
    BY <1>3, <2>1 DEF Stored, AdapterFind, restic_find
  <2> QED
    BY <1>1, <2>1, <2>2 DEF Safe, Made, Kept
<1> QED
  BY <1>2, <1>3, SearchMoves

-----------------------------------------------------------------------------
(* The restores.                                                             *)
\* The reasons for which a step may leave an entry out.
Allowed(b) ==
  CASE adapter[b] = "wings" -> {"link", "odd", "cut"}
    [] adapter[b] = "s3" -> {"link", "odd"}
    [] adapter[b] = "ddup-bak" -> {"link", "denied"}
    [] adapter[b] \in {"btrfs", "zfs"} ->
         {"link", "metadata"} \cup {reason \in {"gone"} : store[b].data = "none"}
    [] adapter[b] = "restic" -> {"unchecked"}

\* What a step of one request does to it: it stays with its backup, and leaves an
\* entry out only for a reason that it may have.
Advances(r, pcs) ==
  \E x \in RestoreType :
    /\ restore' = [restore EXCEPT ![r] = x] /\ x.pc \in pcs /\ x.backup = restore[r].backup
    /\ x.missing \subseteq restore[r].missing \cup Allowed(restore[r].backup)

\* A step that only moves a request.
LEMMA ToAdvances ==
  ASSUME RestoreTyped, NEW r \in Restores, NEW pc \in RestorePoints, To(r, pc)
  PROVE  Advances(r, {pc})
<1> DEFINE x == [restore[r] EXCEPT !.pc = pc]
<1>1. restore[r] \in RestoreType
  BY DEF RestoreTyped
<1>2. /\ x \in RestoreType /\ x.pc = pc /\ x.backup = restore[r].backup
      /\ x.missing = restore[r].missing
  BY <1>1 DEF RestoreType
<1>3. restore' = [restore EXCEPT ![r] = x]
  BY DEF To, RestoreTyped
<1> HIDE DEF x
<1> QED
  BY <1>2, <1>3 DEF Advances

\* The end of a request.
LEMMA EndAdvances ==
  ASSUME RestoreTyped, NEW r \in Restores, NEW ok \in BOOLEAN, NEW missing \in SUBSET Reasons,
         End(r, ok, missing),
         missing \subseteq restore[r].missing \cup Allowed(restore[r].backup)
  PROVE  Advances(r, {"ended"})
<1> DEFINE x == [restore[r] EXCEPT !.pc = "ended", !.left = 0, !.missing = missing, !.successful = ok]
<1>1. restore[r] \in RestoreType /\ 0 \in 0..EntryCount
  BY BackupAssumption DEF RestoreTyped
<1>2. x \in RestoreType /\ x.pc = "ended" /\ x.backup = restore[r].backup /\ x.missing = missing
  BY <1>1 DEF RestoreType, RestorePoints
<1>3. restore' = [restore EXCEPT ![r] = x]
  BY DEF End, RestoreTyped
<1> HIDE DEF x
<1> QED
  BY <1>2, <1>3 DEF Advances

\* One entry.
LEMMA EntryAdvances ==
  ASSUME RestoreTyped, NEW r \in Restores, NEW reasons \in SUBSET Reasons, restore[r].left > 0,
         restore[r].pc = "entries", EntryDone(r, reasons),
         reasons \subseteq Allowed(restore[r].backup)
  PROVE  Advances(r, {"entries"})
<1> DEFINE m == restore[r].missing \cup reasons
           x == [restore[r] EXCEPT !.left = restore[r].left - 1, !.missing = m]
<1>1. restore[r] \in RestoreType
  BY DEF RestoreTyped
<1>2. restore[r].left - 1 \in 0..EntryCount /\ m \in SUBSET Reasons
  BY <1>1, BackupAssumption DEF RestoreType
<1>3. restore' = [restore EXCEPT ![r] = x]
  BY DEF EntryDone, RestoreTyped
<1>4. m \subseteq restore[r].missing \cup Allowed(restore[r].backup)
  OBVIOUS
<1> HIDE DEF m
<1>5. x \in RestoreType /\ x.pc = "entries" /\ x.backup = restore[r].backup /\ x.missing = m
  BY <1>1, <1>2 DEF RestoreType
<1> HIDE DEF x
<1> QED
  BY <1>3, <1>4, <1>5 DEF Advances

\* The four kinds of step of a request: before the flag or after it is lowered, the
\* one that raises it, the ones under it, and the one that ends the restore.
Aside(r) ==
  /\ restore[r].pc \in {"found", "ended"} /\ Advances(r, {"checked", "done"})
  /\ UNCHANGED <<restoring, raced, unstopped, server>>

Raises(r) ==
  /\ restore[r].pc = "checked" /\ Advances(r, {"raised"})
  /\ restoring' = TRUE /\ raced' = (raced \/ restoring \/ starting)
  /\ unstopped' = FALSE /\ UNCHANGED server

Works(r) ==
  /\ Active(r) /\ Advances(r, {"stopped", "opening", "entries"})
  /\ UNCHANGED <<restoring, raced>>
  /\ \/ /\ server' \in {"offline", "running"} /\ unstopped' \in BOOLEAN
        /\ server' = "running" => unstopped'
     \/ Writing(r) /\ UNCHANGED <<unstopped, server>>

Ends(r) ==
  /\ Active(r) /\ Advances(r, {"ended"}) /\ restoring' = FALSE
  /\ UNCHANGED <<raced, unstopped, server>>

\* A wider set of points.
LEMMA AdvancesWiden ==
  ASSUME NEW r, NEW P, NEW Q, P \subseteq Q, Advances(r, P)
  PROVE  Advances(r, Q)
BY DEF Advances

\* The entries of each adapter.
LEMMA EntriesEffect ==
  ASSUME RestoreTyped, NEW r \in Restores, restore[r].pc = "entries", restore[r].left > 0,
         AdapterRestore(r, restore[r].backup)
  PROVE  \/ Advances(r, {"entries"}) /\ UNCHANGED <<restoring, raced>>
         \/ Advances(r, {"ended"}) /\ restoring' = FALSE /\ UNCHANGED raced
<1> DEFINE b == restore[r].backup
<1>1. restore[r].missing \in SUBSET Reasons
  BY DEF RestoreTyped, RestoreType
<1>2. ASSUME NEW m \in SUBSET Reasons, EntryDone(r, m), m \subseteq Allowed(b)
      PROVE  Advances(r, {"entries"}) /\ UNCHANGED <<restoring, raced>>
  BY <1>2, EntryAdvances DEF EntryDone
<1>3. ASSUME NEW ok \in BOOLEAN, NEW m \in SUBSET Reasons, End(r, ok, m),
             m \subseteq restore[r].missing \cup Allowed(b)
      PROVE  Advances(r, {"ended"}) /\ restoring' = FALSE /\ UNCHANGED raced
  BY <1>3, EndAdvances DEF End
<1>4. CASE EntryFails(r)
  BY <1>4, <1>1, <1>3 DEF EntryFails
<1>5. ASSUME NEW reasons \in SUBSET Reasons, Entry(r, reasons), reasons \subseteq Allowed(b)
      PROVE  Advances(r, {"entries"}) /\ UNCHANGED <<restoring, raced>>
  <2>1. PICK m \in {{}} \cup {{reason} : reason \in reasons} : EntryDone(r, m)
    BY <1>5 DEF Entry
  <2>2. m \in SUBSET Reasons /\ m \subseteq Allowed(b)
    BY <1>5, <2>1
  <2> QED
    BY <2>1, <2>2, <1>2
<1>6. CASE wings_restore_tar(r, b) \/ wings_restore_zip(r, b)
  <2>1. adapter[b] = "wings"
    BY <1>6 DEF wings_restore_tar, wings_restore_zip
  <2>2. Allowed(b) = {"link", "odd", "cut"}
    BY <2>1 DEF Allowed
  <2>3. {"link", "odd"} \in SUBSET Reasons /\ {"link", "odd", "cut"} \in SUBSET Reasons
    BY DEF Reasons
  <2>4. CASE Entry(r, {"link", "odd"}) \/ Entry(r, {"link", "odd", "cut"})
    BY <2>2, <2>3, <2>4, <1>5
  <2>5. CASE End(r, TRUE, restore[r].missing \cup {"cut"})
    <3>1. restore[r].missing \cup {"cut"} \in SUBSET Reasons
      BY <1>1 DEF Reasons
    <3>2. restore[r].missing \cup {"cut"} \subseteq restore[r].missing \cup Allowed(b)
      BY <2>2
    <3> QED
      BY <2>5, <3>1, <3>2, <1>3
  <2> QED
    BY <1>6, <2>4, <2>5, <1>4 DEF wings_restore_tar, wings_restore_zip
<1>7. CASE s3_restore(r, b) \/ ddup_bak_restore(r, b)
  <2>1. /\ adapter[b] = "s3" => Allowed(b) = {"link", "odd"}
        /\ adapter[b] = "ddup-bak" => Allowed(b) = {"link", "denied"}
    BY DEF Allowed
  <2>2. {"link", "odd"} \in SUBSET Reasons /\ {"link", "denied"} \in SUBSET Reasons
    BY DEF Reasons
  <2>3. CASE adapter[b] = "s3" /\ Entry(r, {"link", "odd"})
    BY <2>1, <2>2, <2>3, <1>5
  <2>4. CASE adapter[b] = "ddup-bak" /\ Entry(r, {"link", "denied"})
    BY <2>1, <2>2, <2>4, <1>5
  <2> QED
    BY <1>7, <2>3, <2>4, <1>4 DEF s3_restore, ddup_bak_restore
<1>8. CASE btrfs_restore(r, b) \/ zfs_restore(r, b)
  <2>1. adapter[b] \in {"btrfs", "zfs"}
    BY <1>8 DEF btrfs_restore, zfs_restore
  <2>2. /\ {"link", "metadata"} \subseteq Allowed(b)
        /\ store[b].data = "none" => {"gone"} \subseteq Allowed(b)
    BY <2>1 DEF Allowed
  <2>3. {"link", "metadata"} \in SUBSET Reasons /\ {"gone"} \in SUBSET Reasons
    BY DEF Reasons
  <2>4. CASE Entry(r, {"link", "metadata"})
    BY <2>2, <2>3, <2>4, <1>5
  <2>5. CASE store[b].data = "none" /\ EntryDone(r, {"gone"})
    BY <2>2, <2>3, <2>5, <1>2
  <2> QED
    BY <1>8, <2>4, <2>5, <1>4 DEF btrfs_restore, zfs_restore
<1>9. CASE restic_restore(r, b)
  <2>1. {"unchecked"} \subseteq Allowed(b)
    BY <1>9 DEF restic_restore, Allowed
  <2>2. PICK missing \in {{}, {"unchecked"}} : End(r, TRUE, missing)
    BY <1>9 DEF restic_restore
  <2>3. missing \in SUBSET Reasons /\ missing \subseteq restore[r].missing \cup Allowed(b)
    BY <2>1, <2>2 DEF Reasons
  <2> QED
    BY <2>2, <2>3, <1>3
<1> QED
  BY <1>6, <1>7, <1>8, <1>9 DEF AdapterRestore

\* Every step of a request is of one of the four kinds.
LEMMA RestoreKinds ==
  ASSUME RestoreTyped, NEW r \in Restores, RestoreStep(r)
  PROVE  Aside(r) \/ Raises(r) \/ Works(r) \/ Ends(r)
<1>1. restore[r] \in RestoreType /\ restore[r].missing \in SUBSET Reasons
  BY DEF RestoreTyped, RestoreType
<1>2. ASSUME NEW ok \in BOOLEAN, NEW m \in SUBSET Reasons, End(r, ok, m), m \subseteq restore[r].missing,
             Active(r), UNCHANGED <<unstopped, server>>
      PROVE  Ends(r)
  BY <1>2, EndAdvances DEF End, Ends
<1>3. CASE CheckLocked(r)
  <2>1. PICK pc \in {"done", "checked"} : To(r, pc)
    BY <1>3 DEF CheckLocked
  <2>2. Advances(r, {pc})
    BY <2>1, ToAdvances DEF RestorePoints
  <2> QED
    BY <1>3, <2>2, AdvancesWiden DEF CheckLocked, Aside
<1>4. CASE Raise(r)
  <2>1. Advances(r, {"raised"})
    BY <1>4, ToAdvances DEF Raise, RestorePoints
  <2> QED
    BY <1>4, <2>1 DEF Raise, Raises
<1>5. ASSUME NEW pc \in {"stopped", "opening"}, To(r, pc)
      PROVE  Advances(r, {"stopped", "opening", "entries"})
  <2>1. Advances(r, {pc})
    BY <1>5, ToAdvances DEF RestorePoints
  <2> QED
    BY <2>1, AdvancesWiden
<1>6. CASE Stop(r)
  <2>1. Active(r)
    BY <1>6 DEF Stop, Active
  <2>2. CASE /\ server' = server \/ server' = "offline"
             /\ unstopped' = (server' = "running") /\ To(r, "stopped") /\ UNCHANGED <<restoring, raced>>
    <3>1. server' \in {"offline", "running"}
      BY <2>2 DEF RestoreTyped
    <3>2. unstopped' \in BOOLEAN /\ (server' = "running" => unstopped')
      BY <2>2, Zenon
    <3> QED
      BY <2>1, <2>2, <3>1, <3>2, <1>5 DEF Works
  <2>3. CASE End(r, FALSE, {}) /\ UNCHANGED <<unstopped, server>>
    BY <2>1, <2>3, <1>2
  <2> QED
    BY <1>6, <2>2, <2>3 DEF Stop
<1>7. CASE TruncateRoot(r)
  <2>1. Active(r) /\ Writing(r) /\ UNCHANGED <<unstopped, server>>
    BY <1>7 DEF TruncateRoot, Active, Writing
  <2>2. CASE To(r, "opening") /\ UNCHANGED <<restoring, raced>>
    BY <2>1, <2>2, <1>5 DEF Works
  <2> QED
    BY <1>7, <2>1, <2>2, <1>2 DEF TruncateRoot
<1>8. CASE Open(r)
  <2>1. Active(r) /\ Writing(r) /\ UNCHANGED <<unstopped, server>>
    BY <1>8 DEF Open, Active, Writing
  <2>2. CASE /\ restore' = [restore EXCEPT ![r].pc = "entries", ![r].left = EntryCount]
             /\ UNCHANGED <<restoring, raced>>
    <3> DEFINE x == [restore[r] EXCEPT !.pc = "entries", !.left = EntryCount]
    <3>1. /\ x \in RestoreType /\ x.pc = "entries" /\ x.backup = restore[r].backup
          /\ x.missing = restore[r].missing
      <4>1. EntryCount \in 0..EntryCount /\ "entries" \in RestorePoints
        BY BackupAssumption DEF RestorePoints
      <4> QED
        BY <1>1, <4>1 DEF RestoreType
    <3>2. restore' = [restore EXCEPT ![r] = x]
      BY <2>2 DEF RestoreTyped
    <3> HIDE DEF x
    <3>3. Advances(r, {"stopped", "opening", "entries"})
      BY <3>1, <3>2 DEF Advances
    <3> QED
      BY <2>1, <2>2, <3>3 DEF Works
  <2> QED
    BY <1>8, <2>1, <2>2, <1>2 DEF Open
<1>9. CASE RestoreEntries(r)
  <2>1. restore[r].pc = "entries" /\ Active(r) /\ Writing(r) /\ UNCHANGED <<unstopped, server>>
    BY <1>9 DEF RestoreEntries, Active, Writing
  <2>2. CASE restore[r].left > 0 /\ AdapterRestore(r, restore[r].backup)
    <3>1. CASE Advances(r, {"entries"}) /\ UNCHANGED <<restoring, raced>>
      <4>1. Advances(r, {"stopped", "opening", "entries"})
        BY <3>1, AdvancesWiden
      <4> QED
        BY <2>1, <3>1, <4>1 DEF Works
    <3>2. CASE Advances(r, {"ended"}) /\ restoring' = FALSE /\ UNCHANGED raced
      BY <2>1, <3>2 DEF Ends
    <3> QED
      BY <2>1, <2>2, <3>1, <3>2, EntriesEffect
  <2> QED
    BY <1>9, <1>1, <2>1, <2>2, <1>2 DEF RestoreEntries
<1>10. CASE TellRestored(r)
  <2>1. PICK x : x \in {[restore[r] EXCEPT !.pc = "done", !.told = TRUE],
                         [restore[r] EXCEPT !.pc = "done", !.missing = {}, !.successful = FALSE]}
                 /\ restore' = [restore EXCEPT ![r] = x]
    BY <1>10 DEF TellRestored, RestoreTyped
  <2>2. /\ x \in RestoreType /\ x.pc = "done" /\ x.backup = restore[r].backup
        /\ x.missing \subseteq restore[r].missing
    BY <1>1, <2>1 DEF RestoreType, RestorePoints
  <2>3. restore' = [restore EXCEPT ![r] = x]
    BY <2>1
  <2>4. Advances(r, {"checked", "done"})
    BY <2>2, <2>3 DEF Advances
  <2> QED
    BY <1>10, <2>4 DEF TellRestored, Aside
<1> QED
  BY <1>3, <1>4, <1>6, <1>7, <1>8, <1>9, <1>10 DEF RestoreStep

\* A request that advances keeps its types, stays with its backup and leaves the
\* other ones alone.
LEMMA AdvancesFrame ==
  ASSUME RestoreTyped, NEW r \in Restores, NEW P, Advances(r, P)
  PROVE  /\ restore' \in [Restores -> RestoreType] /\ restore'[r].pc \in P
         /\ restore'[r].backup = restore[r].backup
         /\ restore'[r].missing \subseteq restore[r].missing \cup Allowed(restore[r].backup)
         /\ \A s \in Restores \ {r} : restore'[s] = restore[s]
BY DEF Advances, RestoreTyped

\* A step of a request keeps the restore alone.
LEMMA RestoreAlone ==
  ASSUME RestoreTyped, Alone, NEW r \in Restores, UNCHANGED starting,
         Aside(r) \/ Raises(r) \/ Works(r) \/ Ends(r)
  PROVE  Alone'
<1>1. CASE Aside(r)
  <2>1. /\ restore'[r].pc \in {"checked", "done"}
        /\ \A s \in Restores \ {r} : restore'[s] = restore[s]
    BY <1>1, AdvancesFrame DEF Aside
  <2> QED
    BY <1>1, <2>1 DEF Aside, Alone, Active, Writing
<1>2. CASE Raises(r)
  <2>1. /\ restore'[r].pc = "raised" /\ restoring'
        /\ \A s \in Restores \ {r} : restore'[s] = restore[s]
    BY <1>2, AdvancesFrame DEF Raises
  <2>2. ~raced' => ~raced /\ ~restoring /\ ~starting'
    BY <1>2 DEF Raises
  <2>3. ~raced' => \A s \in Restores : ~Active(s)
    BY <2>2 DEF Alone
  <2> QED
    BY <2>1, <2>2, <2>3 DEF Alone, Active, Writing
<1>3. CASE Works(r)
  <2>1. /\ restore'[r].pc \in {"stopped", "opening", "entries"} /\ Active(r)
        /\ \A s \in Restores \ {r} : restore'[s] = restore[s]
    BY <1>3, AdvancesFrame DEF Works
  <2>2. ~raced' => \A s \in Restores \ {r} : ~Active(s)'
    BY <1>3, <2>1 DEF Works, Alone, Active, Writing
  <2>3. ~raced' => restoring' /\ ~starting' /\ (server' = "offline" \/ unstopped')
    BY <1>3, <2>1 DEF Works, Alone
  <2>4. \A s \in Restores : Writing(s)' => Active(s)'
    BY DEF Active
  <2> QED
    BY <2>2, <2>3, <2>4 DEF Alone
<1>4. CASE Ends(r)
  <2>1. /\ restore'[r].pc = "ended" /\ Active(r)
        /\ \A s \in Restores \ {r} : restore'[s] = restore[s]
    BY <1>4, AdvancesFrame DEF Ends
  <2>2. ~raced' => \A s \in Restores : ~Active(s)'
    BY <1>4, <2>1 DEF Ends, Alone, Active, Writing
  <2>3. \A s \in Restores : Writing(s)' => Active(s)'
    BY DEF Active
  <2> QED
    BY <2>2, <2>3 DEF Alone
<1> QED
  BY <1>1, <1>2, <1>3, <1>4

\* A start, its end, and the end of the server keep it too: a start looks at the flag.
LEMMA ServerAlone ==
  ASSUME RestoreTyped, Alone, StartCheck \/ StartEnd \/ ServerEnds, UNCHANGED restoreVars
  PROVE  Alone'
<1>1. UNCHANGED <<restore, restoring, raced, unstopped>>
  BY DEF restoreVars
<1>2. CASE StartCheck
  BY <1>1, <1>2 DEF StartCheck, Alone, Active, Writing
<1>3. CASE StartEnd
  <2>1. ~raced => \A s \in Restores : ~Active(s)
    BY <1>3 DEF StartEnd, Alone
  <2>2. \A s \in Restores : ~Active(s) => ~Active(s)' /\ ~Writing(s)'
    BY <1>1 DEF Active, Writing
  <2> QED
    BY <1>1, <2>1, <2>2 DEF Alone
<1>4. CASE ServerEnds
  BY <1>1, <1>4 DEF ServerEnds, Alone, Active, Writing
<1> QED
  BY <1>2, <1>3, <1>4

\* A deletion that is asked for only adds to the reasons.
LEMMA ExcusedStays ==
  ASSUME Typed, NEW b \in Backups, adapter'[b] = adapter[b],
         deleting[b] # "no" => deleting'[b] # "no"
  PROVE  Excused(b) \subseteq Excused(b)'
<1>1. adapter[b] \in Adapters
  BY DEF Typed
<1>2. CASE adapter[b] \in {"btrfs", "zfs"}
  BY <1>2 DEF Excused
<1>3. CASE adapter[b] \in {"wings", "s3", "ddup-bak", "restic"}
  BY <1>3 DEF Excused
<1> QED
  BY <1>1, <1>2, <1>3 DEF Adapters

\* A request that a step does not touch.
LEMMA MissedStays ==
  ASSUME Typed, RestoreTyped, NEW s \in Restores, Missed(s), restore'[s] = restore[s],
         UNCHANGED adapter,
         \A c \in Backups : /\ panel[c] = "successful" => panel'[c] = "successful"
                            /\ deleting[c] # "no" => deleting'[c] # "no"
  PROVE  Missed(s)'
<1>1. PICK b \in Backups : b = restore[s].backup
  BY DEF RestoreTyped, RestoreType
<1>2. Excused(b) \subseteq Excused(b)'
  BY ExcusedStays
<1> QED
  BY <1>1, <1>2 DEF Missed

\* A request that finds the snapshot of a btrfs or zfs backup gone meets one whose
\* deletion was asked for.
LEMMA RestoreMissed ==
  ASSUME Typed, RestoreTyped, NEW r \in Restores, Missed(r), Safe(restore[r].backup),
         Aside(r) \/ Raises(r) \/ Works(r) \/ Ends(r), UNCHANGED <<adapter, panel, deleting>>
  PROVE  Missed(r)'
<1>1. PICK b \in Backups : b = restore[r].backup
  BY DEF RestoreTyped, RestoreType
<1>2. \E P : Advances(r, P) /\ restore[r].pc # "idle"
  BY DEF Aside, Raises, Works, Ends, Active, Writing
<1>3. /\ restore'[r].backup = b /\ restore[r].pc # "idle"
      /\ restore'[r].missing \subseteq restore[r].missing \cup Allowed(b)
  BY <1>1, <1>2, AdvancesFrame
<1>4. panel[b] = "successful"
  BY <1>1, <1>3 DEF Missed
<1>5. adapter[b] \in {"btrfs", "zfs"} /\ store[b].data = "none" => deleting[b] # "no"
  <2>1. deleting[b] = "no" => Stored(b)
    BY <1>1, <1>4 DEF Safe, Kept
  <2>2. adapter[b] \in {"btrfs", "zfs"} /\ Stored(b) => store[b].data = "full"
    BY DEF Stored
  <2> QED
    BY <2>1, <2>2
<1>6. Allowed(b) \subseteq Excused(b)
  <2>1. adapter[b] \in Adapters
    BY <1>1 DEF Typed
  <2>2. CASE adapter[b] \in {"btrfs", "zfs"}
    BY <2>2, <1>5 DEF Allowed, Excused
  <2>3. CASE adapter[b] \in {"wings", "s3", "ddup-bak", "restic"}
    BY <2>3 DEF Allowed, Excused
  <2> QED
    BY <2>1, <2>2, <2>3 DEF Adapters
<1>7. restore'[r].missing \subseteq Excused(b)
  BY <1>1, <1>3, <1>6 DEF Missed
<1>8. Excused(b) \subseteq Excused(b)'
  BY <1>1, ExcusedStays
<1> QED
  BY <1>3, <1>4, <1>7, <1>8 DEF Missed

-----------------------------------------------------------------------------
(* The invariant.                                                            *)
\* The three parts are the type invariant.
LEMMA TypeParts == TypeOK <=> Typed /\ RestoreTyped /\ Cached
BY DEF TypeOK, Typed, RestoreTyped, Cached, StoreType, UploadType, Points, Heard, RestoreType,
   RestorePoints

\* A backup that a step does not touch stays safe.
LEMMA SafeStays ==
  ASSUME NEW c \in Backups, Safe(c), adapter'[c] = adapter[c], store'[c] = store[c],
         upload'[c] = upload[c], creating'[c] = creating[c], panel'[c] = panel[c],
         deleting'[c] = deleting[c]
  PROVE  Safe(c)'
<1>1. Stored(c) => Stored(c)'
  BY DEF Stored, zfs_find, AdapterFind, wings_find, s3_find, ddup_bak_find, btrfs_find, restic_find
<1> QED
  BY <1>1 DEF Safe, Reported, Made, Kept

\* A step that is about one backup keeps them all, and the requests, when it goes by
\* the panel's answers and the deletions that were asked for.
LEMMA BackupStep ==
  ASSUME Typed, RestoreTyped, \A c \in Backups : Safe(c), \A r \in Restores : Missed(r), Alone,
         NEW b \in Backups, Typed', Safe(b)', UNCHANGED <<adapter, restoreVars, serverVars>>,
         \A c \in Backups \ {b} : /\ creating'[c] = creating[c] /\ store'[c] = store[c]
                                  /\ upload'[c] = upload[c] /\ panel'[c] = panel[c]
                                  /\ deleting'[c] = deleting[c],
         \A c \in Backups : /\ panel[c] = "successful" => panel'[c] = "successful"
                            /\ deleting[c] # "no" => deleting'[c] # "no"
  PROVE  /\ \A c \in Backups : Safe(c)'
         /\ \A r \in Restores : Missed(r)'
         /\ Alone'
<1>1. \A c \in Backups : Safe(c)'
  BY SafeStays
<1>2. UNCHANGED <<restore, restoring, raced, unstopped, server, starting>>
  BY DEF restoreVars, serverVars
<1>3. \A r \in Restores : Missed(r)'
  BY <1>2, MissedStays
<1>4. Alone'
  BY <1>2 DEF Alone, Active, Writing
<1> QED
  BY <1>1, <1>3, <1>4

\* The initial states satisfy the invariant.
LEMMA InitIInv == Init => IInv
<1> SUFFICES ASSUME Init PROVE IInv
  OBVIOUS
<1>1. PICK of \in [Restores -> Backups] :
        restore = [r \in Restores |-> [pc |-> "idle", backup |-> of[r], left |-> 0,
                                       missing |-> {}, successful |-> FALSE, told |-> FALSE]]
  BY DEF Init
<1>2. Nothing \in StoreType /\ NoUpload \in UploadType
  BY BackupAssumption DEF Nothing, StoreType, NoUpload, UploadType
<1>3. Typed /\ Cached
  BY <1>2 DEF Init, Typed, Cached, Points, Heard
<1>4. RestoreTyped
  <2>1. 0 \in 0..EntryCount /\ "idle" \in RestorePoints
    BY BackupAssumption DEF RestorePoints
  <2>2. restore \in [Restores -> RestoreType]
    BY <1>1, <2>1 DEF RestoreType
  <2> QED
    BY <2>2 DEF Init, RestoreTyped
<1>5. \A b \in Backups : Safe(b)
  BY DEF Init, Safe, Reported, Made, Kept, Nothing
<1>6. (\A r \in Restores : Missed(r)) /\ Alone
  BY <1>1 DEF Missed, Alone, Active, Writing
<1> QED
  BY <1>3, <1>4, <1>5, <1>6 DEF IInv

\* The steps of a creation, its report and its clean-up, and of a deletion.
LEMMA NextOfBackup ==
  ASSUME IInv, NEW b \in Backups,
         \/ CreateStep(b) \/ TellCreated(b) \/ TellFailed(b) \/ Clean(b)
         \/ AskDelete(b) \/ Delete(b) \/ get_download(b)
  PROVE  IInv'
<1> USE DEF IInv
<1>1. ASSUME Moves(b), UNCHANGED <<adapter, panel, deleting>>
      PROVE  /\ Typed'
             /\ \A c \in Backups \ {b} : /\ creating'[c] = creating[c] /\ store'[c] = store[c]
                                         /\ upload'[c] = upload[c]
  BY <1>1, MovesFrame DEF Typed
<1>2. ASSUME UNCHANGED <<restoreVars, serverVars>> PROVE RestoreTyped'
  BY <1>2 DEF RestoreTyped, restoreVars, serverVars
<1>3. CASE CreateStep(b) \/ Clean(b)
  <2>1. /\ UNCHANGED <<adapter, panel, deleting, restoreVars, serverVars>>
        /\ UNCHANGED <<backups, cached_backups, cached_backup_adapters>>
    BY <1>3 DEF CreateStep, Clean, cacheVars
  <2>2. Moves(b) /\ Safe(b)'
    BY <1>3, CreateStepSafe, CleanSafe
  <2>3. Cached'
    BY <2>1 DEF Cached
  <2> QED
    BY <2>1, <2>2, <2>3, <1>1, <1>2, BackupStep
<1>4. CASE TellCreated(b) \/ TellFailed(b)
  <2>1. UNCHANGED <<adapter, store, upload, deleting, restoreVars, serverVars>>
    BY <1>4 DEF TellCreated, TellFailed
  <2>2. /\ creating' \in [Backups -> Points] /\ panel' \in [Backups -> Heard] /\ Safe(b)'
        /\ \A c \in Backups \ {b} : creating'[c] = creating[c] /\ panel'[c] = panel[c]
        /\ \A c \in Backups : panel[c] = "successful" => panel'[c] = "successful"
    BY <1>4, TellSafe
  <2>3. Typed'
    BY <2>1, <2>2 DEF Typed
  <2>4. Cached'
    BY <1>4 DEF Cached, TellCreated, TellFailed
  <2> QED
    BY <2>1, <2>2, <2>3, <2>4, <1>2, BackupStep
<1>5. ASSUME find(b) \/ find_adapter(b) PROVE Remember(b) /\ (UNCHANGED backups => Cached')
  BY <1>5 DEF find, find_adapter, Cached
<1>6. CASE get_download(b)
  <2>1. /\ UNCHANGED <<adapter, panel, deleting, restoreVars, serverVars>>
        /\ UNCHANGED <<backups, upload, creating>>
    BY <1>6 DEF get_download, createVars
  <2>2. Remember(b) /\ Cached'
    BY <1>5, <1>6, <2>1 DEF get_download
  <2>3. Moves(b) /\ Safe(b)'
    BY <2>1, <2>2, SearchMoves, SearchSafe
  <2> QED
    BY <2>1, <2>2, <2>3, <1>1, <1>2, BackupStep
<1>7. CASE AskDelete(b)
  <2>1. /\ UNCHANGED <<adapter, panel, restoreVars, serverVars>>
        /\ UNCHANGED <<backups, upload, creating>>
        /\ deleting[b] = "no" /\ panel[b] # "none" /\ deleting' = [deleting EXCEPT ![b] = "asked"]
    BY <1>7 DEF AskDelete, createVars
  <2>2. Remember(b) /\ Cached'
    BY <1>5, <1>7, <2>1 DEF AskDelete, delete_server_backup, delete_backup
  <2>3. /\ deleting' \in [Backups -> {"no", "asked", "done"}] /\ deleting'[b] = "asked"
        /\ \A c \in Backups \ {b} : deleting'[c] = deleting[c]
    BY <2>1 DEF Typed
  <2>4. Moves(b) /\ Safe(b)'
    BY <2>1, <2>2, <2>3, SearchMoves, SearchSafe
  <2>5. /\ Typed'
        /\ \A c \in Backups \ {b} : /\ creating'[c] = creating[c] /\ store'[c] = store[c]
                                    /\ upload'[c] = upload[c]
    BY <2>1, <2>3, <2>4, MovesFrame DEF Typed
  <2> QED
    BY <2>1, <2>2, <2>3, <2>4, <2>5, <1>2, BackupStep
<1>8. CASE Delete(b)
  <2>1. /\ UNCHANGED <<adapter, panel, restoreVars, serverVars>>
        /\ UNCHANGED <<backups, cached_backups, cached_backup_adapters>>
        /\ deleting' = [deleting EXCEPT ![b] = "done"]
    BY <1>8 DEF Delete, createVars, cacheVars
  <2>2. /\ Moves(b) /\ deleting' \in [Backups -> {"no", "asked", "done"}] /\ Safe(b)'
        /\ \A c \in Backups \ {b} : deleting'[c] = deleting[c]
    BY <1>8, DeleteSafe
  <2>3. /\ Typed'
        /\ \A c \in Backups \ {b} : /\ creating'[c] = creating[c] /\ store'[c] = store[c]
                                    /\ upload'[c] = upload[c]
    BY <2>1, <2>2, MovesFrame DEF Typed
  <2>4. Cached' /\ deleting'[b] = "done"
    BY <2>1 DEF Cached, Typed
  <2> QED
    BY <2>1, <2>2, <2>3, <2>4, <1>2, BackupStep
<1> QED
  BY <1>3, <1>4, <1>6, <1>7, <1>8

\* The steps of a request to restore.
LEMMA NextOfRestore ==
  ASSUME IInv, NEW r \in Restores, post_restore(r) \/ RestoreStep(r)
  PROVE  IInv'
<1> USE DEF IInv
<1>1. PICK b \in Backups : b = restore[r].backup
  BY DEF RestoreTyped, RestoreType
<1>2. CASE post_restore(r)
  <2>1. /\ UNCHANGED <<adapter, panel, deleting, restoring, raced, unstopped, server, starting>>
        /\ UNCHANGED <<backups, upload, creating>> /\ panel[b] = "successful" /\ To(r, "found")
        /\ Remember(b) /\ cached_backups' = cached_backups \cup {b}
        /\ UNCHANGED cached_backup_adapters
    BY <1>1, <1>2 DEF post_restore, find_adapter, createVars, serverVars
  <2>2. Moves(b) /\ Safe(b)'
    BY <1>1, <2>1, SearchMoves, SearchSafe
  <2>3. /\ Typed'
        /\ \A c \in Backups \ {b} : /\ creating'[c] = creating[c] /\ store'[c] = store[c]
                                    /\ upload'[c] = upload[c]
    BY <1>1, <2>1, <2>2, MovesFrame DEF Typed
  <2>4. \A c \in Backups : Safe(c)'
    BY <1>1, <2>1, <2>2, <2>3, SafeStays
  <2>5. /\ restore'[r] = [restore[r] EXCEPT !.pc = "found"]
        /\ \A s \in Restores \ {r} : restore'[s] = restore[s]
    BY <2>1 DEF To, RestoreTyped
  <2>6. RestoreTyped' /\ restore'[r].pc = "found"
    <3>1. Advances(r, {"found"})
      BY <2>1, ToAdvances DEF RestorePoints
    <3> QED
      BY <2>1, <3>1, AdvancesFrame DEF RestoreTyped
  <2>7. restore'[r].backup = b /\ restore'[r].missing = restore[r].missing
    BY <1>1, <2>5 DEF RestoreTyped, RestoreType
  <2>8. ASSUME NEW s \in Restores PROVE Missed(s)'
    <3>1. CASE s = r
      <4>1. Excused(b) \subseteq Excused(b)'
        BY <2>1, ExcusedStays
      <4>2. restore[r].missing \subseteq Excused(b)
        BY <1>1 DEF Missed
      <4> QED
        BY <3>1, <2>1, <2>7, <4>1, <4>2 DEF Missed
    <3>2. CASE s # r
      BY <3>2, <2>1, <2>5, MissedStays
    <3> QED
      BY <3>1, <3>2
  <2>9. Alone'
    <3>1. restore[r].pc = "idle" /\ ~Active(r)' /\ ~Writing(r)'
      BY <1>2, <2>6 DEF post_restore, Active, Writing
    <3>2. \A s \in Restores \ {r} : (Active(s)' <=> Active(s)) /\ (Writing(s)' <=> Writing(s))
      BY <2>5 DEF Active, Writing
    <3> QED
      BY <2>1, <3>1, <3>2 DEF Alone
  <2> QED
    BY <1>1, <2>1, <2>3, <2>4, <2>6, <2>8, <2>9 DEF Cached
<1>3. CASE RestoreStep(r)
  <2>1. UNCHANGED <<adapter, store, upload, creating, panel, backups, cached_backups,
                    cached_backup_adapters, deleting, starting>>
    BY <1>3 DEF RestoreStep, createVars, cacheVars
  <2>2. Aside(r) \/ Raises(r) \/ Works(r) \/ Ends(r)
    BY <1>3, RestoreKinds
  <2>3. Typed' /\ Cached'
    BY <2>1 DEF Typed, Cached
  <2>4. \A c \in Backups : Safe(c)'
    BY <2>1, SafeStays
  <2>5. \E P : Advances(r, P)
    BY <2>2 DEF Aside, Raises, Works, Ends
  <2>6. RestoreTyped'
    <3>1. restore' \in [Restores -> RestoreType]
      BY <2>5, AdvancesFrame
    <3>2. /\ restoring' \in BOOLEAN /\ raced' \in BOOLEAN /\ unstopped' \in BOOLEAN
          /\ server' \in {"offline", "running"}
      BY <2>2 DEF Aside, Raises, Works, Ends, RestoreTyped
    <3> QED
      BY <2>1, <3>1, <3>2 DEF RestoreTyped
  <2>7. Missed(r)'
    BY <1>1, <2>1, <2>2, RestoreMissed
  <2>8. \A s \in Restores : Missed(s)'
    <3>1. \A s \in Restores \ {r} : restore'[s] = restore[s]
      BY <2>5, AdvancesFrame
    <3>2. \A s \in Restores \ {r} : Missed(s)'
      BY <2>1, <3>1, MissedStays
    <3> QED
      BY <2>7, <3>2
  <2>9. Alone'
    BY <2>1, <2>2, RestoreAlone
  <2> QED
    BY <2>3, <2>4, <2>6, <2>8, <2>9
<1> QED
  BY <1>2, <1>3

\* The cache expires, and the server starts and stops, beside all of it.
LEMMA NextBeside ==
  ASSUME IInv, Sweep \/ ServerStep \/ UNCHANGED vars
  PROVE  IInv'
<1> USE DEF IInv
<1>1. UNCHANGED <<adapter, store, upload, creating, panel, backups, deleting, restore, restoring, raced,
                  unstopped>>
  BY DEF Sweep, ServerStep, vars, createVars, restoreVars
<1>2. Typed' /\ (\A c \in Backups : Safe(c)') /\ (\A s \in Restores : Missed(s)')
  <2>1. Typed'
    BY <1>1 DEF Typed
  <2>2. \A c \in Backups : Safe(c)'
    BY <1>1, SafeStays
  <2>3. \A s \in Restores : Missed(s)'
    BY <1>1, MissedStays
  <2> QED
    BY <2>1, <2>2, <2>3
<1>3. Cached'
  BY <1>1 DEF Sweep, ServerStep, vars, cacheVars, Cached
<1>4. RestoreTyped' /\ Alone'
  <2>1. CASE ServerStep
    <3>1. RestoreTyped'
      BY <1>1, <2>1 DEF ServerStep, StartCheck, StartEnd, ServerEnds, RestoreTyped
    <3>2. Alone'
      BY <2>1, ServerAlone DEF ServerStep
    <3> QED
      BY <3>1, <3>2
  <2>2. CASE UNCHANGED serverVars
    <3>1. UNCHANGED <<server, starting>>
      BY <2>2 DEF serverVars
    <3> QED
      BY <1>1, <3>1 DEF RestoreTyped, Alone, Active, Writing
  <2> QED
    BY <2>1, <2>2 DEF Sweep, vars
<1> QED
  BY <1>2, <1>3, <1>4

-----------------------------------------------------------------------------
\* The invariant holds throughout: every step keeps the types, what was stored, what a
\* request may miss and the restore that is alone.
THEOREM Invariance == Spec => []IInv
<1>1. IInv /\ [Next]_vars => IInv'
  BY NextOfBackup, NextOfRestore, NextBeside DEF Next
<1> QED
  BY InitIInv, <1>1, PTL DEF Spec

\* TypeOK: what is left of an s3 upload stays within the file, whatever part size and
\* number of urls the panel gives and however often a part is retried.
THEOREM TypeCorrect == Spec => []TypeOK
<1>1. IInv => TypeOK
  BY TypeParts DEF IInv
<1> QED
  BY <1>1, Invariance, PTL

\* SuccessIsStored: what the panel was told is successful is stored as a whole until its
\* deletion is asked for.
THEOREM SuccessIsStoredAlways == Spec => []SuccessIsStored
<1>1. IInv => SuccessIsStored
  BY DEF IInv, Safe, Kept, Stored, SuccessIsStored
<1> QED
  BY <1>1, Invariance, PTL

\* RestoredIsWhole: a restore that is told as a success left nothing out but for a
\* reason that its adapter has, and a snapshot is gone only if its deletion was asked for.
THEOREM RestoredIsWholeAlways == Spec => []RestoredIsWhole
<1>1. IInv => RestoredIsWhole
  BY DEF IInv, Missed, RestoredIsWhole
<1> QED
  BY <1>1, Invariance, PTL

\* RestoreIsQuiet: the server does not run while its files are written, except past one
\* of the two windows, or when the stop is known not to have stopped it.
THEOREM RestoreIsQuietAlways == Spec => []RestoreIsQuiet
<1>1. IInv => RestoreIsQuiet
  BY DEF IInv, Alone, Writing, RestoreIsQuiet
<1> QED
  BY <1>1, Invariance, PTL
=============================================================================
