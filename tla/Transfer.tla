------------------------------- MODULE Transfer -------------------------------
(***************************************************************************)
(* The transfer of a server from one node to another: the routes of the    *)
(* source (routes/api/servers/_server_/transfer.rs), the task that streams *)
(* the archive (server/transfer.rs), and the route of the destination that *)
(* unpacks it (routes/api/transfers).                                      *)
(*                                                                         *)
(* The request body is a sequence of parts: the entries of the archive,    *)
(* then the backups (the checksum between them is never looked at).  The   *)
(* source may run Buffer parts ahead.  A transfer t is one POST on the     *)
(* source; its task and its request have the same name.  `Alive' tasks     *)
(* that are aborted stop at their next await and drop their connection.    *)
(***************************************************************************)
EXTENDS Naturals, FiniteSets

CONSTANTS
  Transfers,     \* the transfers that are asked for
  Entries,       \* the number of entries of the archive
  Backups,       \* the number of backups sent along
  Buffer,        \* parts written and not yet unpacked
  DeleteBackups, \* delete_backups of the request
  NoTransfer     \* an empty outgoing_transfer

ASSUME TransferAssumption ==
  /\ {Entries, Backups} \subseteq Nat
  /\ Buffer \in Nat \ {0}
  /\ DeleteBackups \in BOOLEAN
  /\ NoTransfer \notin Transfers

VARIABLES
  \* The source.
  transferring, \* the flag of the server
  slot,         \* outgoing_transfer
  posting,      \* POST handlers that have yet to fill the slot
  deleting,     \* a DELETE handler that has yet to empty the slot
  running,      \* the game process runs
  starting,     \* a start that has passed its guard
  job,          \* the task of each transfer
  stored,       \* the backups the source has
  \* The connection.
  sent,         \* parts written
  whole,        \* the entries the archive really has
  line,         \* "none", "open", "cut"
  \* The destination.
  present,      \* the server manager has the server
  incoming,     \* `transferring' of the destination's server
  unpack,       \* the handler of each request
  got,          \* parts read
  received,     \* the backups the destination has
  \* The panel, and history.
  told,         \* the transfers reported to the panel as successful
  raced,        \* a start may have passed the guard beside a transfer
  unstopped,    \* the process that runs is one that a stop left running
  crossed       \* an earlier handler has aborted the task of a later POST

source == <<transferring, slot, posting, deleting, running, starting, job, stored>>
wire   == <<sent, whole, line>>
dest   == <<present, incoming, unpack, got, received>>
hist   == <<raced, unstopped, crossed>>
vars   == <<source, wire, dest, told, hist>>

Alive    == {"stop", "stream", "drop", "tell"}
Jobs     == Alive \cup {"none", "done", "aborted"}
Answered == {"refused", "failed", "ok"}
Handlers == Answered \cup {"none", "fetch", "unpack"}
Total(t) == whole[t] + Backups

Init ==
  /\ transferring = FALSE /\ slot = NoTransfer /\ posting = {} /\ deleting = FALSE
  /\ running \in BOOLEAN /\ starting = FALSE
  /\ job = [t \in Transfers |-> "none"]
  /\ stored = 1..Backups
  /\ sent = [t \in Transfers |-> 0]
  /\ whole = [t \in Transfers |-> Entries]
  /\ line = [t \in Transfers |-> "none"]
  /\ present = FALSE /\ incoming = FALSE
  /\ unpack = [t \in Transfers |-> "none"]
  /\ got = [t \in Transfers |-> 0]
  /\ received = {}
  /\ told = {}
  /\ raced = FALSE /\ unstopped = FALSE /\ crossed = FALSE

\* The tasks that would go on if that of t were over.
Others(t) == {u \in Transfers \ {t} : job[u] \in Alive}

Go(t, from, to) == job[t] = from /\ job' = [job EXCEPT ![t] = to]

\* The connection of t breaks, if it has one.
Cut(t) == line' = IF t \in Transfers /\ line[t] = "open" THEN [line EXCEPT ![t] = "cut"] ELSE line

\* The task of t is aborted; what is left of the functions is `jobs'.
Abort(t, jobs) ==
  /\ job' = IF t \in Transfers /\ jobs[t] \in Alive THEN [jobs EXCEPT ![t] = "aborted"] ELSE jobs
  /\ Cut(t)

------------------------------------------------------------------------------
(* The source: power. *)

Start_BUG ==
  /\ ~running /\ ~starting
  /\ starting' = TRUE
  /\ UNCHANGED <<transferring, slot, posting, deleting, running, job, stored, wire, dest, told, hist>>

\* Server::start: its guard ...
Start ==
  /\ ~transferring /\ ~running /\ ~starting
  /\ starting' = TRUE
  /\ UNCHANGED <<transferring, slot, posting, deleting, running, job, stored, wire, dest, told, hist>>

\* ... and its action, which may fail.
Run ==
  /\ starting
  /\ starting' = FALSE /\ running' \in BOOLEAN /\ unstopped' = FALSE
  /\ UNCHANGED <<transferring, slot, posting, deleting, job, stored, wire, dest, told, raced, crossed>>

\* The process ends by itself.
Exit ==
  /\ running
  /\ running' = FALSE /\ unstopped' = FALSE
  /\ UNCHANGED <<transferring, slot, posting, deleting, starting, job, stored, wire, dest, told, raced, crossed>>

------------------------------------------------------------------------------
(* The source: the routes. *)

\* POST: the flag is raised and the task spawned ...
Post(t) ==
  /\ ~transferring
  /\ transferring' = TRUE
  /\ Go(t, "none", "stop")
  /\ posting' = posting \cup {t}
  /\ raced' = (starting \/ Others(t) # {})
  /\ UNCHANGED <<slot, deleting, running, starting, stored, wire, dest, told, unstopped, crossed>>

\* The flag is up for the task in the slot.
Owned == transferring /\ slot # NoTransfer /\ job[slot] \in Alive

\* ... then the slot is filled, which aborts the task that was in it.
Fill(t) ==
  /\ t \in posting
  /\ posting' = posting \ {t}
  /\ slot' = t
  /\ Abort(slot, job)
  /\ crossed' = (crossed \/ (job[t] \notin Alive /\ Owned))
  /\ UNCHANGED <<transferring, deleting, running, starting, stored, sent, whole, dest, told, raced, unstopped>>

\* DELETE: the flag is lowered, then the slot emptied and its task aborted.
Delete ==
  /\ transferring /\ ~deleting
  /\ transferring' = FALSE /\ deleting' = TRUE
  /\ raced' = (raced \/ Others(NoTransfer) # {}) /\ crossed' = FALSE
  /\ UNCHANGED <<slot, posting, running, starting, job, stored, wire, dest, told, unstopped>>

Empty ==
  /\ deleting
  /\ deleting' = FALSE
  /\ slot' = NoTransfer
  /\ Abort(slot, job)
  /\ crossed' = (crossed \/ Owned)
  /\ UNCHANGED <<transferring, posting, running, starting, stored, sent, whole, dest, told, raced, unstopped>>

------------------------------------------------------------------------------
(* The source: the task. *)

\* A server that is not offline is stopped, or killed after 15 seconds; then
\* the request is made.  The stop succeeds just the same, and the process goes
\* on, when Docker refuses the kill, when the stream of the wait ends or fails,
\* and when the slot of the container is empty.
Stop(t) ==
  /\ Go(t, "stop", "stream")
  /\ running' \in {running, FALSE} /\ unstopped' = running'
  /\ line' = [line EXCEPT ![t] = "open"]
  /\ UNCHANGED <<transferring, slot, posting, deleting, starting, stored, sent, whole, dest, told, raced, crossed>>

\* The stop fails, that of a process which has just ended included.
StopFails(t) ==
  /\ Go(t, "stop", "tell")
  /\ running
  /\ running' \in BOOLEAN /\ unstopped' = (unstopped /\ running')
  /\ UNCHANGED <<transferring, slot, posting, deleting, starting, stored, wire, dest, told, raced, crossed>>

Send(t) ==
  /\ job[t] = "stream" /\ line[t] = "open"
  /\ sent[t] < Total(t)
  /\ sent[t] - got[t] < Buffer
  /\ sent' = [sent EXCEPT ![t] = @ + 1]
  /\ UNCHANGED <<source, whole, line, dest, told, hist>>

\* create_tar fails: its part of the body ends there, as if it were complete,
\* and the backups follow.
ArchiveFails(t) ==
  /\ job[t] = "stream" /\ line[t] = "open"
  /\ sent[t] < whole[t]
  /\ whole' = [whole EXCEPT ![t] = sent[t]]
  /\ UNCHANGED <<source, sent, line, dest, told, hist>>

\* The network fails, or the other node does.
Break(t) ==
  /\ line[t] = "open"
  /\ Cut(t)
  /\ UNCHANGED <<source, sent, whole, dest, told, hist>>

\* The archive is written when all its entries are.  A broken connection is an
\* error for it; once it is written, neither that nor the answer is looked at.
Archived(t) == sent[t] >= whole[t] /\ whole[t] = Entries

Streamed(t) ==
  /\ line[t] = "cut" \/ unpack[t] \in Answered
  /\ Go(t, "stream", IF Archived(t) THEN "drop" ELSE "tell")
  /\ UNCHANGED <<transferring, slot, posting, deleting, running, starting, stored, wire, dest, told, hist>>

Finish_BUG(t) ==
  /\ Go(t, "drop", "done")
  /\ stored' = IF DeleteBackups THEN {} ELSE stored
  /\ UNCHANGED <<transferring, slot, posting, deleting, running, starting, wire, dest, told, hist>>

\* The backups that were asked for are deleted, whether they arrived or not; the
\* flag is lowered, the slot keeps its task.
Finish(t) ==
  /\ Go(t, "drop", "done")
  /\ stored' = IF DeleteBackups THEN {} ELSE stored
  /\ transferring' = FALSE
  /\ raced' = (raced \/ Others(t) # {}) /\ crossed' = FALSE
  /\ UNCHANGED <<slot, posting, deleting, running, starting, wire, dest, told, unstopped>>

\* transfer_failure: once the panel has been told, or could not be, the slot is
\* emptied, whoever fills it, and the flag lowered.
FailTransfer(t) ==
  /\ job[t] = "tell"
  /\ slot' = NoTransfer
  /\ Abort(slot, [job EXCEPT ![t] = "done"])
  /\ transferring' = FALSE
  /\ raced' = (raced \/ Others(t) # {}) /\ crossed' = FALSE
  /\ UNCHANGED <<posting, deleting, running, starting, stored, sent, whole, dest, told, unstopped>>

------------------------------------------------------------------------------
(* The destination. *)

Answer(t, from, to) == unpack[t] = from /\ unpack' = [unpack EXCEPT ![t] = to]

\* POST: a server that exists is a conflict; the answer ends the request.
Accept(t) ==
  /\ line[t] # "none"
  /\ Answer(t, "none", IF present THEN "refused" ELSE "fetch")
  /\ IF present THEN Cut(t) ELSE UNCHANGED line
  /\ UNCHANGED <<source, sent, whole, present, incoming, got, received, told, hist>>

\* The panel is asked for the configuration, the server is created and the flag
\* raised.
Create(t) ==
  /\ Answer(t, "fetch", "unpack")
  /\ present' = TRUE /\ incoming' = TRUE
  /\ UNCHANGED <<source, wire, got, received, told, hist>>

FetchFails(t) ==
  /\ Answer(t, "fetch", "refused")
  /\ Cut(t)
  /\ UNCHANGED <<source, sent, whole, present, incoming, got, received, told, hist>>

\* A part is read.  A backup that cannot be written is skipped.
Unpack(t) ==
  /\ unpack[t] = "unpack"
  /\ got[t] < sent[t]
  /\ got' = [got EXCEPT ![t] = @ + 1]
  /\ \/ UNCHANGED received
     \/ got[t] >= whole[t] /\ received' = received \cup {got[t] - whole[t] + 1}
  /\ UNCHANGED <<source, wire, present, incoming, unpack, told, hist>>

EndOfBody_BUG(t) == line[t] = "cut" \/ got[t] >= whole[t]

\* The loops over entries and fields end at the end of the body, and just the
\* same at an error of the connection.
EndOfBody(t) == line[t] = "cut" \/ got[t] = Total(t)

\* Then the panel is told, and the flag lowered.
Report(t) ==
  /\ EndOfBody(t)
  /\ Answer(t, "unpack", "ok")
  /\ told' = told \cup {t}
  /\ incoming' = FALSE
  /\ UNCHANGED <<source, wire, present, got, received, hist>>

\* An entry cannot be written or read, or the panel not reached: the handler
\* gives up, and the flag stays.
UnpackFails(t) ==
  /\ Answer(t, "unpack", "failed")
  /\ Cut(t)
  /\ UNCHANGED <<source, sent, whole, present, incoming, got, received, told, hist>>

\* DELETE: the flag is lowered.  A blocking task that has begun cannot be
\* aborted, so the unpacking goes on.
Cancel ==
  /\ present /\ incoming
  /\ incoming' = FALSE
  /\ UNCHANGED <<source, wire, present, unpack, got, received, told, hist>>

\* The server is deleted on the destination, between two transfers.
Remove ==
  /\ present /\ \A t \in Transfers : unpack[t] \in Answered \cup {"none"}
  /\ present' = FALSE /\ incoming' = FALSE
  /\ UNCHANGED <<source, wire, unpack, got, received, told, hist>>

------------------------------------------------------------------------------
Next ==
  \/ Start \/ Run \/ Exit \/ Delete \/ Empty \/ Cancel \/ Remove
  \/ \E t \in Transfers :
       \/ Post(t) \/ Fill(t)
       \/ Stop(t) \/ StopFails(t) \/ Send(t) \/ ArchiveFails(t) \/ Break(t)
       \/ Streamed(t) \/ Finish(t) \/ FailTransfer(t)
       \/ Accept(t) \/ Create(t) \/ FetchFails(t) \/ Unpack(t) \/ Report(t) \/ UnpackFails(t)

Spec == Init /\ [][Next]_vars

------------------------------------------------------------------------------
(* Properties *)

\* Every variable stays in its range.
TypeOK ==
  /\ {transferring, deleting, running, starting, present, incoming, raced, unstopped, crossed} \subseteq BOOLEAN
  /\ slot \in Transfers \cup {NoTransfer}
  /\ posting \subseteq Transfers
  /\ job \in [Transfers -> Jobs]
  /\ stored \subseteq 1..Backups /\ received \subseteq 1..Backups
  /\ sent \in [Transfers -> 0..(Entries + Backups)] /\ got \in [Transfers -> 0..(Entries + Backups)]
  /\ whole \in [Transfers -> 0..Entries]
  /\ line \in [Transfers -> {"none", "open", "cut"}]
  /\ unpack \in [Transfers -> Handlers]
  /\ told \subseteq Transfers

\* `transferring' keeps every other operation on the server out, so it must not
\* be left raised: while it is up a task is alive that will lower it, through
\* failures, aborts and transfers that overlap.  Only a handler that takes the
\* slot late, a DELETE or a POST whose own task is over, leaves it up: it aborts
\* the task of a later POST.
FlagHasOwner == transferring => crossed \/ \E t \in Transfers : job[t] \in Alive

\* The files do not change under the archive: while it is streamed the server
\* does not run.  It can only when the flag could not keep the start out (the
\* start had passed its guard when the flag was raised, or the flag was lowered,
\* by a DELETE or by the end of another transfer, beside a task still at work),
\* or when it was never down: the stop of a task, which is not checked, left
\* this very process running.
StreamIsQuiet ==
  (\E t \in Transfers : job[t] = "stream") /\ running => raced \/ unstopped

\* What the destination reports to the panel as a success is every part of the
\* body, unless the connection broke or the archive was cut short.
SuccessIsWholeBody ==
  \A t \in Transfers : t \in told =>
    got[t] = Entries + Backups \/ line[t] = "cut" \/ whole[t] < Entries
===============================================================================
