-------------------------------- MODULE Archive -------------------------------
(***************************************************************************)
(* Archives of a server's files (server/filesystem/archive): extraction of *)
(* every type, with the threads it uses, and creation of every type, while *)
(* the files change and the operation may be aborted.                      *)
(*                                                                         *)
(* An archive is the sequence 1..N of entries; those in Dirs are           *)
(* directories, Parent gives the directory of an entry (0: destination).   *)
(* Odd entries are absolute, ignored or of another type and are passed     *)
(* over; a Bad entry cannot be read.  A step of a thread is one look at    *)
(* shared state or one operation on the disk.  Definitions named ..._BUG   *)
(* are plausible mistakes; no specification uses them.                     *)
(***************************************************************************)
EXTENDS Integers, Sequences, FiniteSets, SequencesExt

CONSTANTS
  N, Dirs, Parent, Odd,
  Blocks,       \* the blocks of a 7z archive: a sequence of sequences of entries
  Traversal,    \* a ddup archive: the entries as they are entered and, negative, left
  Threads,      \* the threads of the pool
  Main,         \* the blocking task
  MaxChanges    \* bound: changes of files while they are archived

Entries == 1..N
Workers == Threads \cup {Main}
Wanted  == Entries \ Odd

Pooled     == {"zip", "7z"}
Sequential == {"none", "tar", "rar", "ddup"}
Types      == Pooled \cup Sequential

ASSUME ArchiveAssumption ==
  /\ N \in Nat /\ MaxChanges \in Nat
  /\ Dirs \subseteq Entries /\ Odd \subseteq Entries \ Dirs
  /\ Parent \in [Entries -> Dirs \cup {0}]
  /\ \A i \in Entries : Parent[i] < i
  /\ Blocks \in Seq(Seq(Entries \ Dirs))
  /\ Main \notin Threads /\ Threads # {}

\* The directories an entry is in, all of which create_dir_all makes.
Above[i \in 0..N] == IF i = 0 THEN {} ELSE ({Parent[i]} \ {0}) \cup Above[Parent[i]]

\* The order in which recursive_traverse enters and leaves the entries: each
\* once, and what is in a directory between the two steps of the directory.
Before(t, x, y) == \E k, m \in DOMAIN t : k < m /\ t[k] = x /\ t[m] = y

IsTraversal(t) ==
  /\ t \in Seq(Entries \cup {-d : d \in Dirs})
  /\ IsInjective(t) /\ Range(t) = Entries \cup {-d : d \in Dirs}
  /\ \A d \in Dirs : Before(t, d, -d)
  /\ \A i \in Entries : \A d \in Above[i] :
       Before(t, d, i) /\ Before(t, IF i \in Dirs THEN -i ELSE i, -d)

ASSUME TraversalAssumption == IsTraversal(Traversal)

VARIABLES
  mode, type,   \* extract or create, and the type of the archive
  bad,          \* entries that cannot be read
  thread,       \* what each thread does
  index,        \* entry_index: the next entry or block
  spawned,      \* copies that wait for a thread (ddup)
  error,        \* the shared error
  aborted,      \* the abort guard has been dropped, with the caller
  result,       \* what the task returns
  written,      \* entries that are on the disk, complete
  dated,        \* directories that have the time the archive gives them
  cut,          \* history: something unreadable ended a loop without an error
  late,         \* history: entries each thread has begun after the abort
  source,       \* sizes of the files to archive; -1: deleted
  current,      \* the file that is being archived, and its size in the header
  appended,     \* what was written to the new archive
  steady,       \* history: sources that have not changed
  changes       \* counter for the bound

extraction == <<thread, index, spawned, error, written, dated, late>>
creation   == <<source, current, appended, steady, changes>>
fixed      == <<mode, type, bad>>
vars       == <<fixed, extraction, creation, cut, aborted, result>>

\* A thread: what it does next, and the entries it has still to do.
Thread(at, rest) == [at |-> at, rest |-> rest]

\* What the blocking task and the threads of its pool begin with.
Start(t, w) ==
  CASE w = Main /\ t \in Pooled       -> Thread("join", <<>>)
    [] w = Main /\ t = "ddup"         -> Thread("next", Traversal)
    [] w = Main /\ t = "none"         -> Thread("next", <<CHOOSE i \in Wanted : i \notin Dirs>>)
    [] w = Main /\ t \in {"tar", "rar"} -> Thread("next", [i \in Entries |-> i])
    [] w # Main /\ t \in Pooled       -> Thread("look", <<>>)
    [] w # Main /\ t = "ddup"         -> Thread("pool", <<>>)
    [] OTHER                          -> Thread("done", <<>>)

Init ==
  /\ mode \in {"extract", "create"} /\ type \in Types
  /\ mode = "create" => type \in {"tar", "zip", "7z"}
  /\ type = "none" => \E i \in Wanted : i \notin Dirs
  /\ bad \in {{}} \cup {{i} : i \in IF mode = "extract" THEN Wanted ELSE {}}
  /\ thread = [w \in Workers |-> IF mode = "create" THEN Thread("done", <<>>) ELSE Start(type, w)]
  /\ index = 1 /\ spawned = {} /\ error = FALSE
  /\ aborted = FALSE /\ result = "none"
  /\ written = {} /\ dated = {} /\ cut = FALSE /\ late = [w \in Workers |-> 0]
  /\ source = [i \in Entries |-> 1]
  /\ current = [at |-> IF N = 0 THEN "finish" ELSE "stat", i |-> 1, size |-> 0]
  /\ appended = {} /\ steady = Entries /\ changes = 0

------------------------------------------------------------------------------
(* Extraction: the steps that the types have in common. *)

To(w, t) == thread' = [thread EXCEPT ![w] = t]
First(w) == Head(thread[w].rest)
Others(w) == Tail(thread[w].rest)
Readable(w) == thread[w].rest # <<>> /\ First(w) \notin bad

\* The task returns.  After an error it does not come to the times.
Return(r) ==
  /\ To(Main, Thread("done", <<>>))
  /\ result' = r
  /\ UNCHANGED <<index, spawned, error, written, cut, late>>

\* A thread gives up.  The others see its error before their next entry; the
\* panic of a copy comes out of the scope, and its thread takes the next copy.
Fail_BUG(w) == /\ To(w, Thread("done", <<>>))
               /\ UNCHANGED error

Fail(w) ==
  /\ To(w, Thread(CASE w = Main -> "times" [] w # Main /\ type = "ddup" -> "pool" [] OTHER -> "done", <<>>))
  /\ error' = TRUE

\* A thread reads the next entry; an odd one is passed over.
Header_BUG(w, fails) ==
  /\ thread[w].at = "next" /\ thread[w].rest # <<>> /\ First(w) > 0
  /\ To(w, IF First(w) \in Odd THEN Thread("next", Others(w)) ELSE [thread[w] EXCEPT !.at = "create"])
  /\ UNCHANGED <<index, spawned, error, written, dated, cut, late, result>>

Header(w, fails) ==
  /\ thread[w].at = "next" /\ thread[w].rest # <<>> /\ First(w) > 0
  /\ IF First(w) \in Odd
     THEN To(w, Thread("next", Others(w))) /\ UNCHANGED error
     ELSE \/ ~fails /\ To(w, [thread[w] EXCEPT !.at = "create"]) /\ UNCHANGED error
          \/ fails /\ Fail(w)
  /\ UNCHANGED <<index, spawned, written, dated, cut, late, result>>

\* The archive cannot be read where the entry is, whatever kind it has.
ReadFails(w) ==
  /\ thread[w].at = "next" /\ thread[w].rest # <<>>
  /\ Fail(w)
  /\ UNCHANGED <<index, spawned, written, dated, cut, late, result>>

\* It has none left.
Exhausted_BUG(w, at) ==
  /\ thread[w].at = "next" /\ thread[w].rest = <<>>
  /\ UNCHANGED <<extraction, cut, result>>

Exhausted(w, at) ==
  /\ thread[w].at = "next" /\ thread[w].rest = <<>>
  /\ To(w, Thread(at, <<>>))
  /\ UNCHANGED <<index, spawned, error, written, dated, cut, late, result>>

\* create_dir_all: a directory in which something is made loses its time.
Make(w, made) ==
  /\ late' = [late EXCEPT ![w] = @ + (IF aborted THEN 1 ELSE 0)]
  /\ dated' = dated \ {Parent[j] : j \in (made \cup {First(w)}) \ written}
  /\ written' = written \cup made

Directory(w) ==
  /\ thread[w].at = "create" /\ First(w) \in Dirs
  /\ Make(w, Above[First(w)] \cup {First(w)})
  /\ \/ To(w, Thread("next", Others(w))) /\ UNCHANGED error
     \/ Fail(w)
  /\ UNCHANGED <<index, spawned, cut, result>>

File(w) ==
  /\ thread[w].at = "create" /\ First(w) \notin Dirs
  /\ Make(w, Above[First(w)])
  /\ \/ To(w, [thread[w] EXCEPT !.at = "copy"]) /\ UNCHANGED error
     \/ Fail(w)
  /\ UNCHANGED <<index, spawned, cut, result>>

\* copy reads to the end of the entry.
Copy(w, allowed) ==
  /\ thread[w].at = "copy"
  /\ \/ allowed /\ To(w, [thread[w] EXCEPT !.at = "flush"]) /\ UNCHANGED error
     \/ Fail(w)
  /\ UNCHANGED <<index, spawned, written, dated, cut, late, result>>

\* flush, which may find that the limit has been reached.
Flush(w, next) ==
  /\ thread[w].at = "flush"
  /\ \/ /\ written' = written \cup {First(w)}
        /\ To(w, Thread(next, Others(w)))
        /\ UNCHANGED error
     \/ Fail(w) /\ UNCHANGED written
  /\ UNCHANGED <<index, spawned, dated, cut, late, result>>

\* The times of the directories, last; setting one may fail.
Times_BUG ==
  /\ thread[Main].at = "times"
  /\ UNCHANGED dated
  /\ IF error THEN Return("err") ELSE \E r \in {"ok", "err"} : Return(r)

Times ==
  /\ thread[Main].at = "times"
  /\ \/ error /\ Return("err") /\ UNCHANGED dated
     \/ ~error /\ Return("err") /\ \E some \in SUBSET (Dirs \cap written) : dated' = dated \cup some
     \/ ~error /\ Return("ok") /\ dated' = dated \cup (Dirs \cap written)

------------------------------------------------------------------------------
(* Extraction: the types. *)

\* A single compressed file.
ExtractNone ==
  /\ type = "none"
  /\ \/ Header(Main, FALSE) \/ File(Main)
     \/ Copy(Main, ~aborted /\ First(Main) \notin bad) \/ Flush(Main, "next")
     \/ Exhausted(Main, "times") \/ Times

\* The loop of tar ends at an entry it cannot read, as at the last one.
TarEnds ==
  /\ thread[Main].at = "next" /\ thread[Main].rest # <<>>
  /\ aborted \/ First(Main) \in bad
  /\ cut' = TRUE
  /\ To(Main, Thread("times", <<>>))
  /\ UNCHANGED <<index, spawned, error, written, dated, late, result>>

ExtractTar ==
  /\ type = "tar"
  /\ \/ TarEnds
     \/ ~aborted /\ Readable(Main) /\ Header(Main, FALSE)
     \/ Directory(Main) \/ File(Main) \/ Copy(Main, ~aborted) \/ Flush(Main, "next")
     \/ Exhausted(Main, "times") \/ Times

\* A thread looks at the shared error before each entry or block.
Look(w) ==
  /\ thread[w].at = "look"
  /\ To(w, Thread(IF error THEN "done" ELSE "fetch", <<>>))
  /\ UNCHANGED <<index, spawned, error, written, dated, cut, late, result>>

\* fetch_add on the shared index: nobody else takes the same.
Fetch_BUG(w, work) ==
  /\ thread[w].at = "fetch"
  /\ index' = index + 1
  /\ To(w, IF index >= Len(work) THEN Thread("done", <<>>) ELSE Thread("next", work[index]))
  /\ UNCHANGED <<spawned, error, written, dated, cut, late, result>>

Fetch(w, work) ==
  /\ thread[w].at = "fetch"
  /\ index' = index + 1
  /\ To(w, IF index > Len(work) THEN Thread("done", <<>>) ELSE Thread("next", work[index]))
  /\ UNCHANGED <<spawned, error, written, dated, cut, late, result>>

ZipEntry(w) ==
  \/ Look(w) \/ Fetch(w, [i \in Entries |-> <<i>>])
  \/ (aborted /\ ReadFails(w)) \/ (~aborted /\ Header(w, First(w) \in bad))
  \/ Directory(w) \/ File(w) \/ Copy(w, TRUE) \/ Flush(w, "next") \/ Exhausted(w, "look")

\* The scope of the pool ends when all that was spawned has.
Quiet == spawned = {} /\ \A w \in Threads : thread[w].at \in {"done", "pool"}

Join_BUG ==
  /\ thread[Main].at = "join" /\ (Quiet \/ error)
  /\ To(Main, Thread("times", <<>>))
  /\ UNCHANGED <<index, spawned, error, written, dated, cut, late, result>>

Join ==
  /\ thread[Main].at = "join" /\ Quiet
  /\ To(Main, Thread("times", <<>>))
  /\ UNCHANGED <<index, spawned, error, written, dated, cut, late, result>>

\* The entries are read once more.
ZipTimes ==
  /\ Times
  /\ result' = "ok" => ~aborted \/ N = 0

ExtractZip == type = "zip" /\ (Join \/ ZipTimes \/ \E w \in Threads : ZipEntry(w))

ExtractRar ==
  /\ type = "rar"
  /\ \/ Header(Main, aborted \/ First(Main) \in bad)
     \/ Directory(Main) \/ File(Main) \/ Copy(Main, ~aborted) \/ Flush(Main, "next")
     \/ Exhausted(Main, "times") \/ Times

\* A block of 7z is decoded as a stream: it begins with a seek, and then more
\* entries than have been asked for may have been read.
SevenZipBlock(w) ==
  \/ Look(w) \/ Fetch(w, Blocks)
  \/ aborted /\ ReadFails(w)
  \/ (aborted => thread[w].rest \notin Range(Blocks)) /\ Header(w, First(w) \in bad)
  \/ File(w) \/ Copy(w, TRUE) \/ Flush(w, "next") \/ Exhausted(w, "look")

\* A directory without files is in no block, and has not been made.
SevenZipTimes ==
  /\ Times
  /\ result' = "ok" => Dirs \subseteq written

ExtractSevenZip == type = "7z" /\ (Join \/ SevenZipTimes \/ \E w \in Threads : SevenZipBlock(w))

\* recursive_traverse: the file is made here and copied by a thread.
DdupFile ==
  /\ thread[Main].at = "create" /\ First(Main) \notin Dirs
  /\ Make(Main, {})
  /\ \/ spawned' = spawned \cup {First(Main)} /\ To(Main, Thread("next", Others(Main))) /\ UNCHANGED error
     \/ Fail(Main) /\ UNCHANGED spawned
  /\ UNCHANGED <<index, cut, result>>

\* It leaves a directory.
DdupLeave ==
  /\ thread[Main].at = "next" /\ thread[Main].rest # <<>> /\ First(Main) < 0
  /\ \/ To(Main, Thread("next", Others(Main))) /\ dated' = dated \cup {-First(Main)} /\ UNCHANGED error
     \/ Fail(Main) /\ UNCHANGED dated
  /\ UNCHANGED <<index, spawned, written, cut, late, result>>

DdupTake(w) ==
  /\ thread[w].at = "pool"
  /\ \E i \in spawned : spawned' = spawned \ {i} /\ To(w, Thread("copy", <<i>>))
  /\ UNCHANGED <<index, error, written, dated, cut, late, result>>

DdupEnd ==
  /\ thread[Main].at = "times" /\ Quiet
  /\ Return(IF error THEN "err" ELSE "ok")
  /\ UNCHANGED dated

ExtractDdup ==
  /\ type = "ddup"
  /\ \/ Header(Main, aborted) \/ Directory(Main) \/ DdupFile \/ DdupLeave
     \/ Exhausted(Main, "times") \/ DdupEnd
     \/ \E w \in Threads : DdupTake(w) \/ Copy(w, ~aborted /\ First(w) \notin bad) \/ Flush(w, "pool")

Extract ==
  /\ mode = "extract"
  /\ ExtractNone \/ ExtractTar \/ ExtractZip \/ ExtractRar \/ ExtractSevenZip \/ ExtractDdup
  /\ UNCHANGED <<fixed, creation, aborted>>

------------------------------------------------------------------------------
(* Creation. *)

\* The server goes on writing while its files are archived.
Change(i) ==
  /\ mode = "create" /\ result = "none" /\ changes < MaxChanges
  /\ changes' = changes + 1
  /\ source' \in {[source EXCEPT ![i] = n] : n \in -1..2} \ {source}
  /\ steady' = steady \ {i}
  /\ UNCHANGED <<fixed, extraction, current, appended, cut, aborted, result>>

After(i)  == [at |-> IF i = N THEN "finish" ELSE "stat", i |-> i + 1, size |-> 0]
Following == After(current.i)

GiveUp == result' = "err" /\ current' = [current EXCEPT !.at = "done"]

\* A file that is gone, or ignored, is passed over.
Stat ==
  /\ current.at = "stat"
  /\ current' = IF source[current.i] < 0 \/ current.i \in Odd THEN Following
                ELSE [current EXCEPT !.at = "open", !.size = source[current.i]]
  /\ UNCHANGED <<source, appended, steady, changes, cut, result>>

\* A directory that is gone, or cannot be read, ends the walk of the source, and
\* what comes after it there is passed over.
WalkEnds ==
  /\ current.at = "stat"
  /\ \E last \in current.i..N : current' = After(last)
  /\ cut' = TRUE
  /\ UNCHANGED <<source, appended, steady, changes, result>>

\* One that goes away now ends the whole archive.
OpenSource ==
  /\ current.at = "open"
  /\ IF source[current.i] < 0 THEN GiveUp
     ELSE UNCHANGED result /\ current' = [current EXCEPT !.at = "append"]
  /\ UNCHANGED <<source, appended, steady, changes, cut>>

\* What is read of an open file now; one that was deleted can still be read.
Bytes == IF source[current.i] < 0 THEN current.size ELSE source[current.i]

\* The entry is written, unless a write fails.
AppendEntry(size, bytes, allowed) ==
  /\ current.at = "append"
  /\ \/ /\ allowed
        /\ appended' = appended \cup {[i |-> current.i, size |-> size, bytes |-> bytes]}
        /\ current' = Following
        /\ UNCHANGED result
     \/ GiveUp /\ UNCHANGED appended
  /\ UNCHANGED <<source, steady, changes, cut>>

\* The end of the archive is written, unless the guard has been dropped.
Finish ==
  /\ current.at = "finish"
  /\ \/ ~aborted /\ result' = "ok" /\ current' = [current EXCEPT !.at = "done"]
     \/ GiveUp
  /\ UNCHANGED <<source, appended, steady, changes, cut>>

\* FixedReader: no more than the size in the header, and zeros if there is less.
Fixed_BUG(size, bytes) == IF bytes > size THEN size ELSE bytes
Fixed(size, bytes) == size

\* The header of tar comes first and has the size that Stat found.
CreateTar ==
  /\ type = "tar"
  /\ \/ Stat \/ WalkEnds \/ OpenSource \/ Finish
     \/ AppendEntry(current.size, Fixed(current.size, Bytes), ~aborted)

\* zip and 7z put in the size when they know it.
CreateZip ==
  type = "zip" /\ (Stat \/ WalkEnds \/ OpenSource \/ AppendEntry(Bytes, Bytes, TRUE) \/ Finish)

CreateZipStreaming ==
  type = "zip" /\ (Stat \/ WalkEnds \/ OpenSource \/ AppendEntry(Bytes, Bytes, TRUE) \/ Finish)

Create7z ==
  type = "7z" /\ (Stat \/ WalkEnds \/ OpenSource \/ AppendEntry(Bytes, Bytes, TRUE) \/ Finish)

Create ==
  /\ mode = "create"
  /\ CreateTar \/ CreateZip \/ CreateZipStreaming \/ Create7z
  /\ UNCHANGED <<fixed, extraction, aborted>>

\* The operation is aborted: the future is dropped, and the guard with it.
Abort ==
  /\ ~aborted /\ result = "none"
  /\ aborted' = TRUE
  /\ UNCHANGED <<fixed, extraction, creation, cut, result>>

------------------------------------------------------------------------------
Next == Abort \/ Create \/ Extract \/ (\E i \in Entries : Change(i))

Spec == Init /\ [][Next]_vars

\* Threads run, and reads and writes of the disk return.
FairSpec == Spec /\ WF_vars(Create) /\ WF_vars(Extract)

------------------------------------------------------------------------------
(* Properties *)

\* Every variable stays in its range.
TypeOK ==
  /\ result \in {"none", "ok", "err"}
  /\ written \subseteq Wanted /\ dated \subseteq Dirs /\ spawned \subseteq Entries
  /\ index \in Nat \ {0}
  /\ current.i \in IF current.at = "stat" THEN Entries ELSE 1..N + 1
  /\ \A w \in Workers : thread[w].at \in {"join", "look", "fetch", "next", "create", "copy", "flush", "pool", "times", "done"}

\* The entries that an extraction has to write.
Due == CASE type = "7z"   -> (UNION {Range(Blocks[b]) : b \in DOMAIN Blocks}) \ Odd
         [] type = "none" -> {CHOOSE i \in Wanted : i \notin Dirs}
         [] OTHER         -> Wanted

\* An extraction that succeeds has written every entry it should, however the
\* threads share the entries and whichever fails; an archive that was created
\* has every file that stayed the same.  (The loops of tar and of the walk end at
\* what they cannot read.)
SuccessIsComplete ==
  result = "ok" /\ ~cut =>
    IF mode = "extract" THEN Due \subseteq written
    ELSE \A i \in steady \ Odd : \E a \in appended : a.i = i /\ a.bytes = 1

\* A directory has the time that the archive gives it, although files and
\* directories are made in it by several threads.
TimesAreRestored ==
  mode = "extract" /\ result = "ok" => Dirs \cap written \subseteq dated

\* When the task has returned, none of its threads works on, not even after an
\* error: the caller may delete or move the directory.
NothingAfterReturn == mode = "extract" /\ result # "none" => Quiet

\* Every entry of a new archive has as many bytes as its header says, although
\* the file grows, shrinks or goes away while it is archived.
EntriesAreFramed == \A a \in appended : a.bytes = a.size

\* After the operation has been aborted, a thread begins no more than the entry
\* it had read, or with 7z the block.
AbortIsHeeded ==
  \A w \in Workers : late[w] <= 1 \/ (type = "7z" /\ \E b \in Range(Blocks) : late[w] <= Len(b))

\* An operation ends, and an aborted one does.
OperationEnds == <>(result # "none")
===============================================================================
