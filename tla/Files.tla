--------------------------------- MODULE Files --------------------------------
(***************************************************************************)
(* The files of a server and the account of the space they take            *)
(* (server/filesystem): the cached total that the limit is compared with,  *)
(* the tree of directory sizes, the requests and writers that change the   *)
(* files, and the task that counts everything again from time to time.     *)
(*                                                                         *)
(* A step is one atomic operation on the cached total, one use of the lock *)
(* of the tree, or one operation on the disk: the runtime has many threads.*)
(* A file is a place and a name; its size 0 stands for no file as well.  A *)
(* directory has a length of its own, which only a recount takes in.       *)
(* The future of a request may be dropped where it waits.                  *)
(* Definitions named ..._BUG are plausible mistakes; no specification uses *)
(* them.                                                                   *)
(***************************************************************************)
EXTENDS Integers, FiniteSets, FiniteSetsExt

CONSTANTS
  Clients,      \* requests, transfers and tasks that run side by side
  Dirs, Root,   \* directories, and the base directory
  Names,        \* names of files in a directory
  Limits,       \* values of disk_limit, 0 for none
  Sizes,        \* sizes of request bodies
  Length,       \* what a directory itself takes
  Threshold,    \* ALLOCATION_THRESHOLD, in chunks
  Largest,      \* bound: chunks of a file
  Word,         \* 2^64: the cached total is kept modulo this
  MaxOps,       \* bound: operations
  MaxChecks     \* bound: recounts

Places == Dirs \cup {Root}
Files  == Places \X Names

ASSUME FilesAssumption ==
  /\ Root \notin Dirs
  /\ Limits \subseteq Nat /\ Sizes \subseteq 0..Largest /\ Length \in 0..Largest
  /\ {Largest, MaxOps, MaxChecks} \subseteq Nat /\ Threshold \in Nat \ {0}
  /\ IsFiniteSet(Clients) /\ IsFiniteSet(Dirs) /\ IsFiniteSet(Names) /\ Names # {} /\ Clients # {}
  /\ \E most \in Limits : \A l \in Limits : l <= most
  /\ Word \in Nat \ {0} /\ Word \div 2 > Largest * (Cardinality(Files) + Cardinality(Places) + MaxOps) * (MaxOps + 1)

VARIABLES
  size,         \* the disk
  cached,       \* disk_usage_cached
  tree,         \* disk_usage: the size of each directory
  limit,        \* disk_limit
  client,       \* the operation each client is in
  check,        \* the disk checker
  ops, checks,  \* counters for the bounds
  leak,         \* history: bytes that are known to be missing from the account
  drift,        \* history: two operations on one file overlapped, or a recount and a change
  pristine      \* history: neither has happened so far, and no recount has found more
                \* than the total had: it takes in directories that were made since

disk    == <<size, cached, tree>>
history == <<leak, drift, pristine>>
bounds  == <<ops, checks>>
vars    == <<disk, limit, client, check, bounds, history>>

\* Sums of sizes of files: of a directory, and of all.
Total(g, S) == MapThenSumSet(LAMBDA x : g[x], S)
Within(z, d) == Total([n \in Names |-> z[<<d, n>>]], Names)
All(z)     == Total([d \in Places |-> Within(z, d)], Places)
Sum(d)     == Within(size, d)
Real       == All(size)
\* The lengths of the directories S.
Owns(S)    == [p \in Places |-> IF p \in S THEN Length ELSE 0]
Lengths(S) == Total(Owns(S), Places)
In(d)      == {f \in Files : f[1] = d}
AsI64      == IF cached >= Word \div 2 THEN cached - Word ELSE cached

\* A client between two operations.  `delta' is to be allocated in the directory
\* `dir', `then' comes next; `acc' is what a writer has not allocated yet; `owed'
\* is history: bytes on the disk that are out of the account for the moment.
Idle == [op |-> "none", at |-> "idle", files |-> {}, from |-> <<>>, to |-> <<>>, bytes |-> 0, body |-> 0,
         delta |-> 0, dir |-> Root, ignorant |-> FALSE, seen |-> 0, then |-> "idle", acc |-> 0, owed |-> 0]

Asleep == [at |-> "asleep", todo |-> {}, tmp |-> [d \in Dirs |-> 0], total |-> 0, found |-> {},
           quiet |-> FALSE, exact |-> FALSE]

\* The directories S may be the ones there are: those with files are among them.
AreThere(S) == \A f \in Files : size[f] > 0 /\ f[1] \in Dirs => f[1] \in S

Init ==
  /\ size \in {[f \in Files |-> IF f = g THEN Largest ELSE 0] : g \in Files}
  /\ \E S \in SUBSET Dirs :
       /\ AreThere(S)
       /\ cached = Real + Lengths(S) /\ tree = [d \in Dirs |-> Sum(d) + Owns(S)[d]]
  /\ limit = Max(Limits)
  /\ client = [c \in Clients |-> Idle]
  /\ check = Asleep
  /\ ops = 0 /\ checks = 0
  /\ leak = 0 /\ drift = FALSE /\ pristine = TRUE

------------------------------------------------------------------------------
\* Every step of a client disturbs a recount that is under way.
Disturb == check' = [check EXCEPT !.quiet = FALSE, !.exact = FALSE]

Begin(c, op, files, at) ==
  /\ client[c].at = "idle" /\ ops < MaxOps
  /\ ops' = ops + 1
  /\ client' = [client EXCEPT ![c] = [at EXCEPT !.op = op, !.files = files]]
  /\ drift' = (drift \/ check.at = "store" \/ \E b \in Clients \ {c} : client[b].files \cap files # {})
  /\ pristine' = (pristine /\ ~drift')
  /\ Disturb
  /\ UNCHANGED <<limit, checks, leak>>

\* Bytes are lost from the account.
Leak(n) == leak' = leak + n /\ pristine' = (pristine /\ n = 0) /\ UNCHANGED drift

\* async_allocate_in_path begins, and goes on at `then'.
Allocate(r, d, n, ignorant, then) ==
  [r EXCEPT !.dir = d, !.delta = n, !.ignorant = ignorant, !.then = then,
            !.at = CASE n = 0              -> then
                     [] n > 0 /\ ~ignorant -> "check"
                     [] n > 0 /\ ignorant  -> "add"
                     [] OTHER              -> "load"]

\* POST .../files/write: the old size and the announced one are compared.
Write(c, f, n, body) ==
  /\ Begin(c, "write", {f},
           Allocate([Idle EXCEPT !.to = f, !.bytes = n, !.body = body], f[1], n - size[f], FALSE, "create"))
  /\ UNCHANGED disk

\* FileSystemWriter::new and AsyncFileSystemWriter::new: the file is emptied.
Open(c, op, f) ==
  /\ Begin(c, op, {f}, [Idle EXCEPT !.at = "open", !.to = f])
  /\ size' = [size EXCEPT ![f] = 0]
  /\ UNCHANGED <<cached, tree>>

\* The requests and tasks that write through a writer.
Upload(c, f)     == Open(c, "async", f)
Pull(c, f)       == Open(c, "async", f)
Compress(c, f)   == Open(c, "sync", f)
Decompress(c, f) == Open(c, "sync", f)

\* POST .../files/copy
Copy(c, f, g) ==
  /\ f # g /\ size[f] > 0
  /\ Begin(c, "copy", {f, g}, Allocate([Idle EXCEPT !.from = f, !.to = g], g[1], size[f], FALSE, "copy"))
  /\ UNCHANGED disk

\* truncate_path of a file, and of a directory, whose size the tree knows.
DeleteFile(c, f) ==
  /\ size[f] > 0
  /\ Begin(c, "delete", {f}, Allocate([Idle EXCEPT !.from = f], f[1], -size[f], FALSE, "remove"))
  /\ UNCHANGED disk

DeleteDir(c, d) ==
  /\ Begin(c, "delete_dir", In(d), Allocate([Idle EXCEPT !.from = <<d>>], d, -tree[d], FALSE, "prune"))
  /\ UNCHANGED disk

\* rename_path: of a file, which leaves one directory and enters another, and
\* of a directory, whose part of the tree moves at once.
RenameFile(c, f, g) ==
  /\ f # g /\ size[f] > 0 /\ size[g] = 0
  /\ Begin(c, "rename", {f, g},
           Allocate([Idle EXCEPT !.from = f, !.to = g, !.bytes = size[f]], f[1], -size[f], TRUE, "move"))
  /\ UNCHANGED disk

RenameDir(c, d, e) ==
  /\ d # e /\ Sum(e) = 0
  /\ Begin(c, "rename_dir", In(d) \cup In(e), [Idle EXCEPT !.at = "rename", !.from = <<d>>, !.to = <<e>>])
  /\ tree' = [tree EXCEPT ![d] = 0, ![e] = tree[d]]
  /\ UNCHANGED <<size, cached>>

\* truncate_root, before an installation or a restore: the tree is cleared, and
\* then the total.
TruncateRoot(c) ==
  /\ Begin(c, "truncate", Files, [Idle EXCEPT !.at = "zero"])
  /\ tree' = [d \in Dirs |-> 0]
  /\ UNCHANGED <<size, cached>>

------------------------------------------------------------------------------
(* async_allocate_in_path and its three copies. *)

Goes(c, from, to) == client[c].at = from /\ client' = [client EXCEPT ![c] = to] /\ Disturb /\ UNCHANGED <<limit, bounds>>

\* A writer that is refused leaves what it wrote where it is.
Refused(c) == Leak(client[c].acc)

AllocCheck_BUG(c) ==
  /\ Goes(c, "check", [client[c] EXCEPT !.at = "add"])
  /\ UNCHANGED <<disk, history>>

AllocCheck(c) ==
  /\ IF limit # 0 /\ AsI64 + client[c].delta > limit
     THEN Goes(c, "check", Idle) /\ Refused(c)
     ELSE Goes(c, "check", [client[c] EXCEPT !.at = "add"]) /\ UNCHANGED history
  /\ UNCHANGED disk

AllocAdd(c) ==
  /\ Goes(c, "add", [client[c] EXCEPT !.at = "tree", !.owed = 0, !.acc = 0])
  /\ cached' = (cached + client[c].delta) % Word
  /\ UNCHANGED <<size, tree, history>>

AllocLoad(c) ==
  /\ Goes(c, "load", [client[c] EXCEPT !.at = "sub", !.seen = cached])
  /\ UNCHANGED <<disk, history>>

\* fetch_sub, or the total is set to zero: what was added since the load is lost.
AllocSub(c) ==
  LET abs == -client[c].delta IN
  /\ Goes(c, "sub", [client[c] EXCEPT !.at = "tree", !.owed = abs])
  /\ IF client[c].seen >= abs
     THEN cached' = (cached - abs) % Word /\ UNCHANGED history
     ELSE cached' = 0 /\ Leak(Max({0, AsI64 - abs}))
  /\ UNCHANGED <<size, tree>>

\* update_size: saturating.  What does not fit is still counted in the tree.
AllocTree(c) ==
  LET d == client[c].dir
      n == IF d = Root THEN 0 ELSE tree[d] + client[c].delta
  IN  /\ Goes(c, "tree", [client[c] EXCEPT !.at = client[c].then, !.delta = 0, !.dir = Root, !.seen = 0])
      /\ tree' = IF d = Root THEN tree ELSE [tree EXCEPT ![d] = Max({0, n})]
      /\ Leak(Max({0, -n}))
      /\ UNCHANGED <<size, cached>>

------------------------------------------------------------------------------
(* The operations on the disk. *)

\* The future of a request that waits for the lock of the tree is dropped, when its
\* client is gone or its schedule is aborted: the total has been changed already.
\* The synchronous writers block.
Dropped(c) ==
  /\ client[c].op # "sync"
  /\ \E label \in {"tree", "prune"} : Goes(c, label, Idle)
  /\ Leak(client[c].owed)
  /\ UNCHANGED disk

\* The old file is emptied, and the body written; it may be cut short, or turn
\* out longer than announced.  A file that cannot be created stays as it was, and
\* what was taken off the total is lost.
WriteCreate(c) ==
  /\ \/ /\ Goes(c, "create", [client[c] EXCEPT !.at = "body", !.owed = 0])
        /\ size' = [size EXCEPT ![client[c].to] = 0]
        /\ UNCHANGED history
     \/ /\ Goes(c, "create", Idle)
        /\ Leak(client[c].owed)
        /\ UNCHANGED size
  /\ UNCHANGED <<cached, tree>>

WriteBody(c) ==
  /\ Goes(c, "body", Idle)
  /\ size' = [size EXCEPT ![client[c].to] = client[c].body]
  /\ Leak(Max({0, client[c].body - client[c].bytes}))
  /\ UNCHANGED <<cached, tree>>

\* write of a writer: a chunk at the end of the file, allocated from the
\* threshold on.
WriterWrite_BUG(c) ==
  LET r == [client[c] EXCEPT !.acc = @ + 1, !.owed = @ + 1] IN
  /\ client[c].at = "open" /\ size[client[c].to] < Largest
  /\ Goes(c, "open", IF r.acc >= Threshold THEN [Allocate(r, r.to[1], r.acc - 1, FALSE, "open") EXCEPT !.acc = 0] ELSE r)
  /\ size' = [size EXCEPT ![client[c].to] = @ + 1]
  /\ UNCHANGED <<cached, tree, history>>

WriterWrite(c) ==
  LET r == [client[c] EXCEPT !.acc = @ + 1, !.owed = @ + 1] IN
  /\ client[c].at = "open" /\ size[client[c].to] < Largest
  /\ Goes(c, "open", IF r.acc >= Threshold THEN Allocate(r, r.to[1], r.acc, FALSE, "open") ELSE r)
  /\ size' = [size EXCEPT ![client[c].to] = @ + 1]
  /\ UNCHANGED <<cached, tree, history>>

\* flush: the rest is allocated, and the writer is done.
WriterFlush(c) ==
  /\ Goes(c, "open", Allocate(client[c], client[c].to[1], client[c].acc, FALSE, "done"))
  /\ UNCHANGED <<disk, history>>

\* drop of a writer without a flush, after an error or an abort.  Only the
\* asynchronous one allocates the rest, in a task of its own.
WriterDrop(c) ==
  /\ IF client[c].op = "async"
     THEN Goes(c, "open", Allocate(client[c], client[c].to[1], client[c].acc, FALSE, "done")) /\ UNCHANGED history
     ELSE Goes(c, "open", Idle) /\ Leak(client[c].acc)
  /\ UNCHANGED disk

Done(c) == Goes(c, "done", Idle) /\ UNCHANGED <<disk, history>>

\* What was allocated before a copy stays so when it fails.
CopyBody(c) ==
  /\ Goes(c, "copy", Idle)
  /\ UNCHANGED size \/ size' = [size EXCEPT ![client[c].to] = size[client[c].from]]
  /\ UNCHANGED <<cached, tree, history>>

\* The directory leaves the tree; then it, or the file, or everything is removed.
DeletePrune(c) ==
  /\ Goes(c, "prune", [client[c] EXCEPT !.at = "remove"])
  /\ tree' = [tree EXCEPT ![client[c].from[1]] = 0]
  /\ UNCHANGED <<size, cached, history>>

TruncateZero(c) ==
  /\ Goes(c, "zero", [client[c] EXCEPT !.at = "remove", !.owed = Real])
  /\ cached' = 0
  /\ UNCHANGED <<size, tree, history>>

Remove(c) ==
  /\ \/ /\ Goes(c, "remove", Idle)
        /\ \E f \in client[c].files : size[f] > 0
        /\ size' = [f \in Files |-> IF f \in client[c].files THEN 0 ELSE size[f]]
        /\ UNCHANGED history
     \/ /\ Goes(c, "remove", Idle)
        /\ Leak(client[c].owed)
        /\ UNCHANGED size
  /\ UNCHANGED <<cached, tree>>

\* The second allocation of a rename, in the new parent.
RenameMove(c) ==
  /\ Goes(c, "move", Allocate(client[c], client[c].to[1], client[c].bytes, TRUE, "rename"))
  /\ UNCHANGED <<disk, history>>

\* Of a directory, all files go along.  The account stays with the new place
\* when the move fails.
RenameDisk(c) ==
  LET from == client[c].from  to == client[c].to IN
  /\ Goes(c, "rename", Idle)
  /\ \/ /\ Leak(IF from[1] = to[1] THEN 0
              ELSE IF client[c].op = "rename" THEN client[c].bytes ELSE Sum(from[1]))
        /\ UNCHANGED size
     \/ /\ client[c].op = "rename"
        /\ size' = [size EXCEPT ![from] = 0, ![to] = size[from]]
        /\ UNCHANGED history
     \/ /\ client[c].op = "rename_dir"
        /\ UNCHANGED history
        /\ size' = [f \in Files |-> CASE f[1] = from[1] -> 0
                                      [] f[1] = to[1]   -> size[<<from[1], f[2]>>]
                                      [] OTHER          -> size[f]]
  /\ UNCHANGED <<cached, tree>>

------------------------------------------------------------------------------
(* The disk checker. *)

CheckBegin ==
  /\ check.at = "asleep" /\ checks < MaxChecks
  /\ checks' = checks + 1
  /\ check' = [Asleep EXCEPT !.at = "walk", !.todo = Files, !.quiet = \A c \in Clients : client[c].at = "idle"]
  /\ UNCHANGED <<disk, limit, client, ops, history>>

\* One of the threads counts a file.  The directory of one that is there is there
\* too, and is counted; an empty one is, if it is there, after all files here: nothing
\* looks at what is found before the walk ends.
CheckVisit(f) ==
  /\ check.at = "walk" /\ f \in check.todo
  /\ check' = [check EXCEPT !.todo = @ \ {f}, !.total = @ + size[f],
                            !.found = IF size[f] > 0 THEN @ \cup ({f[1]} \cap Dirs) ELSE @,
                            !.tmp = [d \in Dirs |-> check.tmp[d] + IF f[1] = d THEN size[f] ELSE 0]]
  /\ UNCHANGED <<disk, limit, client, bounds, history>>

CheckVisitDir(d) ==
  /\ check.at = "walk" /\ check.todo = {} /\ d \notin check.found
  /\ check' = [check EXCEPT !.found = @ \cup {d}]
  /\ UNCHANGED <<disk, limit, client, bounds, history>>

CheckTree ==
  /\ check.at = "walk" /\ check.todo = {}
  /\ check' = [check EXCEPT !.at = "store"]
  /\ tree' = [d \in Dirs |-> check.tmp[d] + Owns(check.found)[d]]
  /\ drift' = (drift \/ ~check.quiet)
  /\ pristine' = (pristine /\ check.quiet)
  /\ UNCHANGED <<size, cached, limit, client, bounds, leak>>

\* What the walk has counted, the lengths of the directories included.
Counted == check.total + Lengths(check.found)

CheckStore_BUG ==
  /\ check.at = "store"
  /\ cached' = Max({cached, Counted})
  /\ check' = [Asleep EXCEPT !.exact = check.quiet, !.found = check.found]
  /\ leak' = (IF check.quiet THEN 0 ELSE leak)
  /\ drift' = ~check.quiet
  /\ pristine' = (pristine /\ check.quiet /\ Counted <= AsI64)
  /\ UNCHANGED <<size, tree, limit, client, bounds>>

CheckStore ==
  /\ check.at = "store"
  /\ cached' = Counted % Word
  /\ check' = [Asleep EXCEPT !.exact = check.quiet, !.found = check.found]
  /\ leak' = (IF check.quiet THEN 0 ELSE leak)
  /\ drift' = ~check.quiet
  /\ pristine' = (pristine /\ check.quiet /\ Counted <= AsI64)
  /\ UNCHANGED <<size, tree, limit, client, bounds>>

\* The walk fails; the next one comes after disk_check_interval.
CheckFails ==
  /\ check.at = "walk"
  /\ check' = Asleep
  /\ UNCHANGED <<disk, limit, client, bounds, history>>

\* update_disk_limit
SetLimit ==
  /\ ops < MaxOps
  /\ ops' = ops + 1
  /\ limit' \in Limits \ {limit}
  /\ UNCHANGED <<disk, client, check, checks, history>>

------------------------------------------------------------------------------
Starts(c) ==
  \/ TruncateRoot(c)
  \/ \E f \in Files :
       \/ DeleteFile(c, f)
       \/ Upload(c, f) \/ Pull(c, f) \/ Compress(c, f) \/ Decompress(c, f)
       \/ \E n, body \in Sizes : Write(c, f, n, body)
       \/ \E g \in Files : Copy(c, f, g) \/ RenameFile(c, f, g)
  \/ \E d \in Dirs : DeleteDir(c, d) \/ \E e \in Dirs : RenameDir(c, d, e)

Continues(c) ==
  \/ AllocCheck(c) \/ AllocAdd(c) \/ AllocLoad(c) \/ AllocSub(c) \/ AllocTree(c)
  \/ Dropped(c) \/ TruncateZero(c)
  \/ WriteCreate(c) \/ WriteBody(c) \/ WriterWrite(c) \/ WriterFlush(c) \/ WriterDrop(c) \/ Done(c)
  \/ CopyBody(c) \/ DeletePrune(c) \/ Remove(c) \/ RenameMove(c) \/ RenameDisk(c)

Checker == CheckBegin \/ (\E f \in Files : CheckVisit(f)) \/ (\E d \in Dirs : CheckVisitDir(d)) \/ CheckTree \/ CheckStore \/ CheckFails

Next == Checker \/ SetLimit \/ \E c \in Clients : Starts(c) \/ Continues(c)

Spec == Init /\ [][Next]_vars

------------------------------------------------------------------------------
(* Properties *)

\* Every variable stays in its range.
TypeOK ==
  /\ size \in [Files -> 0..Largest]
  /\ cached \in 0..(Word - 1)
  /\ tree \in [Dirs -> Nat]
  /\ limit \in Limits
  /\ leak \in Nat /\ {drift, pristine} \subseteq BOOLEAN
  /\ \A c \in Clients : client[c].owed >= 0 /\ client[c].files \subseteq Files

Owed == Total([c \in Clients |-> client[c].owed], Clients)

\* The total that the limit is compared with never lags behind the disk, however
\* writers, removals, renames and copies of different files mix, except by the
\* bytes that are under way and those that are known to be lost (`leak').
NeverUndercounts == ~drift => AsI64 + leak + Owed >= Real

\* A recount that nothing disturbed makes everything right again, whatever went
\* wrong before: total and tree hold the files there are, and the directories found,
\* among them all that have files.
RecountHeals ==
  check.exact =>
    /\ AreThere(check.found)
    /\ cached = Real + Lengths(check.found)
    /\ tree = [d \in Dirs |-> Sum(d) + Owns(check.found)[d]]

\* Requests side by side may each pass the comparison before the others add, so
\* the limit is exceeded, but by no more than one allocation of each of the others,
\* until a recount finds directories that were made since.
OvershootIsBounded ==
  pristine /\ 0 \notin Limits =>
    AsI64 <= Max(Limits \cup {Largest + Lengths(Dirs)}) + (Cardinality(Clients) - 1) * Largest
===============================================================================
