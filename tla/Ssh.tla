---------------------------------- MODULE Ssh ---------------------------------
(***************************************************************************)
(* The SSH server: authentication (ssh/auth.rs), the requests of SFTP      *)
(* (ssh/sftp.rs), commands of a shell (ssh/shell.rs) and of exec           *)
(* (ssh/exec.rs), with the permissions of the users and the activities that*)
(* the requests log, which are queued and sent as Activity has it.         *)
(*                                                                         *)
(* A member of Sessions is one channel with the attempts to log in of its  *)
(* session.  Once a session is accepted its user and server stay, and its  *)
(* channels share nothing but the lock, the permissions and the log, so    *)
(* that two channels of it are two members with one user.  A channel has   *)
(* one request at a time, which is asked, checked, acted on and logged, and*)
(* others run between these steps.  The files are also the server's own,   *)
(* which may change                                                        *)
(* them at any time, so that what a request finds of them is left open.    *)
(* What the power actions, the console and the archives do is in Power and *)
(* Archive; here they succeed or fail.  Definitions named ..._BUG are      *)
(* plausible mistakes; no specification uses them.                         *)
(***************************************************************************)
EXTENDS Activity

CONSTANTS
  Sessions, Users, Nobody,
  Grants,              \* sets of permissions that the panel may give
  ReadOnly,            \* system.sftp.read_only
  HandleLimit,
  MaxChanges,          \* bound: requests that may be logged
  MaxHandleIds         \* bound: handles a channel opens

ASSUME SshAssumption ==
  /\ Nobody \notin Users /\ ReadOnly \in BOOLEAN
  /\ HandleLimit \in Nat /\ MaxChanges \in Nat /\ MaxHandleIds \in Nat

VARIABLES
  locked,              \* is_locked_state of the server
  permissions,         \* user_permissions: what each user may do
  contained,           \* the users that are in that map
  auth, user, server,  \* of a session: what it waits for, user_uuid, whether it has a server
  channel,             \* what runs on its channel
  handles, handle_id,  \* open handles, and the next one
  request,             \* the request that is under way
  next_id,             \* the id of the next activity
  accepted,            \* history: the user a session was accepted for
  late                 \* history: effects on files of a channel since it was not allowed any more

access  == <<locked, permissions, contained>>
login   == <<auth, user, server, channel, accepted>>
open_   == <<handles, handle_id>>
vars    == <<access, login, open_, request, late, next_id, activityVars>>

Idle == [op |-> "none", at |-> "idle", flags |-> {}, id |-> 0,
         event |-> "none", timestamp |-> 0]

NoAnswer == [user |-> Nobody, permissions |-> {}]

Init ==
  /\ ActivityInit
  /\ locked = FALSE /\ permissions = [u \in Users |-> {}] /\ contained = {}
  /\ auth = [s \in Sessions |-> NoAnswer] /\ user = [s \in Sessions |-> Nobody]
  /\ server = [s \in Sessions |-> FALSE] /\ channel = [s \in Sessions |-> "none"]
  /\ accepted = [s \in Sessions |-> Nobody]
  /\ handles = [s \in Sessions |-> {}] /\ handle_id = [s \in Sessions |-> 0]
  /\ request = [s \in Sessions |-> Idle]
  /\ next_id = 1
  /\ late = [s \in Sessions |-> 0]

------------------------------------------------------------------------------
(* The server and its permissions. *)

\* Something else locks or unlocks the server.
SetLocked ==
  /\ locked' = ~locked
  /\ UNCHANGED <<permissions, contained, login, open_, request, late, next_id, activityVars>>

set_permissions(u, g) ==
  /\ permissions' = [permissions EXCEPT ![u] = g]
  /\ contained' = contained \cup {u}

\* The panel sends other permissions.
Permit(u) ==
  /\ \E g \in Grants : g # permissions[u] /\ set_permissions(u, g)
  /\ UNCHANGED <<locked, login, open_, request, late, next_id, activityVars>>

\* A user that asked for nothing for a day is dropped.
Expire(u) ==
  /\ u \in contained
  /\ contained' = contained \ {u}
  /\ permissions' = [permissions EXCEPT ![u] = {}]
  /\ UNCHANGED <<locked, login, open_, request, late, next_id, activityVars>>

Has(s, permission) == user[s] \in contained /\ permission \in permissions[user[s]]

allow_action(s) == ~locked /\ user[s] \in contained

------------------------------------------------------------------------------
(* Authentication and channels. *)

\* The panel has answered: user_uuid is set now, whatever comes.
Answer(s) ==
  /\ ~server[s] /\ auth[s] = NoAnswer
  /\ \E u \in Users, g \in Grants :
       /\ user' = [user EXCEPT ![s] = u]
       /\ auth' = [auth EXCEPT ![s] = [user |-> u, permissions |-> g]]
  /\ UNCHANGED <<access, server, channel, accepted, open_, request, late, next_id, activityVars>>

Accept_BUG(s) ==
  /\ auth[s] # NoAnswer
  /\ auth' = [auth EXCEPT ![s] = NoAnswer]
  /\ server' = [server EXCEPT ![s] = TRUE]
  /\ IF locked THEN UNCHANGED <<access, accepted>>
     ELSE /\ set_permissions(auth[s].user, auth[s].permissions)
          /\ accepted' = [accepted EXCEPT ![s] = auth[s].user]
          /\ UNCHANGED locked
  /\ UNCHANGED <<user, channel, open_, request, late, next_id, activityVars>>

\* The server is looked for; it may be locked, or unknown.
Accept(s) ==
  /\ auth[s] # NoAnswer
  /\ auth' = [auth EXCEPT ![s] = NoAnswer]
  /\ \/ UNCHANGED <<access, accepted, server>>
     \/ /\ ~locked
        /\ set_permissions(auth[s].user, auth[s].permissions)
        /\ server' = [server EXCEPT ![s] = TRUE]
        /\ accepted' = [accepted EXCEPT ![s] = auth[s].user]
        /\ UNCHANGED locked
  /\ UNCHANGED <<user, channel, open_, request, late, next_id, activityVars>>

auth_password(s)  == Answer(s) \/ Accept(s)
auth_publickey(s) == Answer(s) \/ Accept(s)

\* A channel is given to what was asked for, once the session has a server.
Start(s, what) ==
  /\ channel[s] = "none" /\ user[s] # Nobody /\ server[s]
  /\ channel' = [channel EXCEPT ![s] = what]
  /\ handles' = [handles EXCEPT ![s] = {}] /\ handle_id' = [handle_id EXCEPT ![s] = 0]
  /\ late' = [late EXCEPT ![s] = 0]
  /\ UNCHANGED <<access, auth, user, server, accepted, request, next_id, activityVars>>

subsystem_request(s) == Start(s, "sftp")
shell_request(s)     == Start(s, "shell")
exec_request(s)      == Start(s, "exec")

channel_eof(s) ==
  /\ channel[s] # "none" /\ request[s] = Idle
  /\ channel' = [channel EXCEPT ![s] = "none"]
  /\ handles' = [handles EXCEPT ![s] = {}] /\ handle_id' = [handle_id EXCEPT ![s] = 0]
  /\ UNCHANGED <<access, auth, user, server, accepted, request, late, next_id, activityVars>>

------------------------------------------------------------------------------
(* The steps of a request. *)

At(s, op, at) == request[s].op = op /\ request[s].at = at
To(s, at)     == request' = [request EXCEPT ![s].at = at]
Reply(s)      == request' = [request EXCEPT ![s] = Idle]

\* A request comes in, and is refused unless the action is allowed.
Ask_BUG(s, r) ==
  /\ channel[s] = "sftp" /\ request[s] = Idle
  /\ request' = [request EXCEPT ![s] = r]
  /\ late' = [late EXCEPT ![s] = IF allow_action(s) THEN 0 ELSE @]
  /\ UNCHANGED <<access, login, open_, activityVars>>

Ask(s, r) ==
  /\ channel[s] = "sftp" /\ request[s] = Idle /\ allow_action(s)
  /\ request' = [request EXCEPT ![s] = r]
  /\ late' = [late EXCEPT ![s] = IF allow_action(s) THEN 0 ELSE @]
  /\ UNCHANGED <<access, login, open_, activityVars>>

\* One that only reads leaves everything as it is.
Query(s) == channel[s] = "sftp" /\ request[s] = Idle /\ allow_action(s) /\ UNCHANGED vars

\* One that opens a handle or goes through one, and one that may be logged.
AskFor(s, op) == Ask(s, [Idle EXCEPT !.op = op, !.at = "check"]) /\ UNCHANGED next_id
Change(s, op) == next_id <= MaxChanges /\ AskFor(s, op)

\* What it may do is looked at; then the files are found as they should be, or not.
Check(s, op, permitted) ==
  /\ At(s, op, "check")
  /\ (permitted /\ To(s, "act")) \/ Reply(s)
  /\ UNCHANGED <<access, login, open_, late, next_id, activityVars>>

\* An effect on the files, of a channel that may be allowed no more.
Late(s) == [late EXCEPT ![s] = @ + (IF allow_action(s) THEN 0 ELSE 1)]

MergedEvents == {"SftpWrite", "SftpCreate", "SftpCreateDirectory", "SftpRename", "SftpDelete"}

\* Its activity is made, and waits to be logged.  The time of one that is never
\* merged is left out.
Make(s, event) ==
  /\ next_id <= MaxChanges /\ next_id' = next_id + 1
  /\ request' = [request EXCEPT ![s].at = "log", ![s].event = event, ![s].id = next_id,
                                ![s].timestamp = IF event \in MergedEvents THEN clock ELSE 0]

\* It fails, or has its effect and is to be logged.
Act(s, op, event) ==
  /\ At(s, op, "act")
  /\ \/ Reply(s) /\ UNCHANGED <<late, next_id>>
     \/ Make(s, event) /\ late' = Late(s)
  /\ UNCHANGED <<access, login, open_, activityVars>>

\* A change of contents or permissions, or part of what a request was to do that
\* then fails: it is not logged.
Unlogged(s, op) ==
  /\ At(s, op, "act") /\ Reply(s)
  /\ late' \in {late, Late(s)}
  /\ UNCHANGED <<access, login, open_, next_id, activityVars>>

Key(s) == IF request[s].event \in MergedEvents THEN <<request[s].event, user[s]>> ELSE Unmerged

NewHandle(s, kind) ==
  /\ handles' = [handles EXCEPT ![s] = @ \cup {[id |-> handle_id[s], kind |-> kind]}]
  /\ handle_id' = [handle_id EXCEPT ![s] = @ + 1]

\* The activity is logged, and the request answered.
Log_BUG(s) ==
  /\ request[s].at = "log"
  /\ IF held THEN UNCHANGED activityVars
     ELSE log_activity(NewActivity(Key(s), request[s].id, request[s].timestamp))
  /\ IF request[s].op \in {"untar", "tar"} THEN To(s, "archive") ELSE Reply(s)
  /\ IF request[s].op = "open" THEN NewHandle(s, "file") ELSE UNCHANGED open_
  /\ UNCHANGED <<access, login, late, next_id>>

Log(s) ==
  /\ request[s].at = "log"
  /\ log_activity(NewActivity(Key(s), request[s].id, request[s].timestamp))
  /\ IF request[s].op \in {"untar", "tar"} THEN To(s, "archive") ELSE Reply(s)
  /\ IF request[s].op = "open" THEN NewHandle(s, "file") ELSE UNCHANGED open_
  /\ UNCHANGED <<access, login, late, next_id>>

------------------------------------------------------------------------------
(* SFTP: the requests that change names. *)

MayChange(s, permission) == ~ReadOnly /\ Has(s, permission)

remove(s)   == Change(s, "remove") \/ Check(s, "remove", MayChange(s, "delete")) \/ Act(s, "remove", "SftpDelete")
symlink(s)  == Change(s, "symlink") \/ Check(s, "symlink", MayChange(s, "create")) \/ Act(s, "symlink", "SftpCreate")
hardlink(s) == Change(s, "hardlink") \/ Check(s, "hardlink", MayChange(s, "create")) \/ Act(s, "hardlink", "SftpCreate")

\* Some of what is in the directory is gone, and then something cannot be removed.
rmdir(s) ==
  \/ Change(s, "rmdir") \/ Check(s, "rmdir", MayChange(s, "delete")) \/ Act(s, "rmdir", "SftpDelete")
  \/ Unlogged(s, "rmdir")

\* The directories above the new name are made before the old one is looked for.
rename(s) ==
  \/ Change(s, "rename") \/ Check(s, "rename", MayChange(s, "update")) \/ Act(s, "rename", "SftpRename")
  \/ Unlogged(s, "rename")

\* The directory is left behind, unlogged, when its owner cannot be set.
mkdir(s) ==
  \/ Change(s, "mkdir") \/ Check(s, "mkdir", MayChange(s, "create")) \/ Act(s, "mkdir", "SftpCreateDirectory")
  \/ Unlogged(s, "mkdir")

\* read_only is not looked at; a copy may end after a part of the file.
copy_file(s) ==
  \/ Change(s, "copy-file")
  \/ Check(s, "copy-file", Has(s, "read-content") /\ Has(s, "create"))
  \/ Act(s, "copy-file", "SftpCreate")
  \/ Unlogged(s, "copy-file")

\* open: the permissions go with the flags, and so does the event.
Needs(flags) ==
  (IF flags \cap {"WRITE", "APPEND"} # {} THEN {"update"} ELSE {})
    \cup (IF "CREATE" \in flags THEN {"create"} ELSE {})
    \cup (IF "TRUNCATE" \in flags THEN {"delete"} ELSE {})
    \cup (IF "READ" \in flags THEN {"read-content"} ELSE {})

OpenEvent(flags) ==
  CASE flags \cap {"TRUNCATE", "CREATE"} # {} -> "SftpCreate"
    [] flags \cap {"TRUNCATE", "CREATE"} = {} /\ flags \cap {"WRITE", "APPEND"} # {} -> "SftpWrite"
    [] OTHER -> "none"

Flags == {{"READ"}, {"WRITE"}, {"WRITE", "CREATE", "TRUNCATE"}}

MayOpen_BUG(s) ==
  /\ Cardinality(handles[s]) <= HandleLimit
  /\ \A permission \in Needs(request[s].flags) : Has(s, permission)

MayOpen(s) ==
  /\ Cardinality(handles[s]) < HandleLimit
  /\ \A permission \in Needs(request[s].flags) : Has(s, permission)

open(s) ==
  \/ /\ handle_id[s] < MaxHandleIds /\ next_id <= MaxChanges /\ UNCHANGED next_id
     /\ \E flags \in Flags : Ask(s, [Idle EXCEPT !.op = "open", !.at = "check", !.flags = flags])
  \/ Check(s, "open", MayOpen(s))
  \/ OpenEvent(request[s].flags) # "none" /\ Act(s, "open", OpenEvent(request[s].flags))
  \/ /\ At(s, "open", "act") /\ OpenEvent(request[s].flags) = "none"
     /\ Reply(s) /\ (NewHandle(s, "file") \/ UNCHANGED open_)
     /\ UNCHANGED <<access, login, late, next_id, activityVars>>

------------------------------------------------------------------------------
(* SFTP: handles, and the requests that change no names. *)

Handle(s, kind) == {h \in handles[s] : h.kind = kind}

close(s) ==
  /\ channel[s] = "sftp" /\ request[s] = Idle
  /\ \E h \in handles[s] : handles' = [handles EXCEPT ![s] = @ \ {h}]
  /\ UNCHANGED <<access, login, handle_id, request, late, next_id, activityVars>>

opendir(s) ==
  \/ handle_id[s] < MaxHandleIds /\ AskFor(s, "opendir")
  \/ Check(s, "opendir", Cardinality(handles[s]) < HandleLimit /\ Has(s, "read"))
  \/ /\ At(s, "opendir", "act")
     /\ Reply(s) /\ (NewHandle(s, "dir") \/ UNCHANGED open_)
     /\ UNCHANGED <<access, login, late, next_id, activityVars>>

\* A write looks at no permission: that was done when the file was opened.
write(s) ==
  \/ Handle(s, "file") # {} /\ AskFor(s, "write")
  \/ Check(s, "write", ~ReadOnly)
  \/ Unlogged(s, "write")

setstat(s) ==
  \/ AskFor(s, "setstat")
  \/ Check(s, "setstat", MayChange(s, "update"))
  \/ Unlogged(s, "setstat")

\* The path of the handle is what counts, whatever has that name now.
fsetstat(s) == Handle(s, "file") # {} /\ AskFor(s, "setstat")

lsetstat(s) ==
  \/ Handle(s, "file") # {} /\ AskFor(s, "lsetstat")
  \/ Check(s, "lsetstat", MayChange(s, "update"))
  \/ Unlogged(s, "lsetstat")

readdir(s)    == Handle(s, "dir") # {} /\ Query(s)
read(s)       == Handle(s, "file") # {} /\ Query(s)
fsync(s)      == Handle(s, "file") # {} /\ MayChange(s, "update") /\ Query(s)
fstat(s)      == handles[s] # {} /\ Has(s, "read") /\ Query(s)
stat(s)       == Has(s, "read") /\ Query(s)
lstat(s)      == Has(s, "read") /\ Query(s)
readlink(s)   == Has(s, "read") /\ Query(s)
check_file(s) == Has(s, "read") /\ Query(s)
space_available(s) == Query(s)
limits(s)          == Query(s)
statvfs(s)         == Query(s)
realpath(s)        == channel[s] = "sftp" /\ request[s] = Idle /\ UNCHANGED vars

------------------------------------------------------------------------------
(* The shell and exec, which do not ask whether the server is locked. *)

Type(s, where, op) ==
  /\ channel[s] = where /\ request[s] = Idle /\ next_id <= MaxChanges
  /\ request' = [request EXCEPT ![s] = [Idle EXCEPT !.op = op, !.at = "check"]]
  /\ UNCHANGED <<access, login, open_, late, next_id, activityVars>>

\* The state of the server is right, or it is not; the action succeeds or fails, and
\* changes no files.
Command(s, op, permission, event) ==
  \/ Check(s, op, Has(s, permission))
  \/ /\ At(s, op, "act")
     /\ (Reply(s) /\ UNCHANGED next_id) \/ Make(s, event)
     /\ UNCHANGED <<access, login, open_, late, activityVars>>

power_start(s)   == Type(s, "shell", "start") \/ Command(s, "start", "start", "PowerStart")
power_restart(s) == Type(s, "shell", "restart") \/ Command(s, "restart", "restart", "PowerRestart")
power_stop(s)    == Type(s, "shell", "stop") \/ Command(s, "stop", "stop", "PowerStop")
power_kill(s)    == Type(s, "shell", "kill") \/ Command(s, "kill", "stop", "PowerKill")

console(s)      == Type(s, "shell", "command") \/ Command(s, "command", "console", "ConsoleCommand")
exec_console(s) == Type(s, "exec", "command")

\* The archives of exec are logged before they are begun, and write to the files, or
\* fail before, whether the server is locked by then or not.
Archive(s, op, permission, event) ==
  \/ Check(s, op, Has(s, permission))
  \/ At(s, op, "act") /\ Make(s, event) /\ UNCHANGED <<access, login, open_, late, activityVars>>
  \/ /\ At(s, op, "archive") /\ Reply(s) /\ late' \in {late, Late(s)}
     /\ UNCHANGED <<access, login, open_, next_id, activityVars>>

exec_untar(s) == Type(s, "exec", "untar") \/ Archive(s, "untar", "create", "FileDecompress")
exec_tar(s)   == Type(s, "exec", "tar") \/ Archive(s, "tar", "archive", "FileCompress")

------------------------------------------------------------------------------
Sftp(s) ==
  \/ remove(s) \/ rmdir(s) \/ mkdir(s) \/ rename(s) \/ symlink(s) \/ hardlink(s) \/ copy_file(s) \/ open(s)
  \/ close(s) \/ opendir(s) \/ readdir(s) \/ read(s) \/ write(s) \/ setstat(s) \/ fsetstat(s) \/ lsetstat(s)
  \/ stat(s) \/ fstat(s) \/ lstat(s) \/ readlink(s) \/ check_file(s)
  \/ space_available(s) \/ limits(s) \/ statvfs(s) \/ realpath(s) \/ fsync(s)

Shell(s) == power_start(s) \/ power_restart(s) \/ power_stop(s) \/ power_kill(s) \/ console(s)
Exec(s)  == exec_untar(s) \/ exec_tar(s) \/ exec_console(s)

Session(s) ==
  \/ auth_password(s) \/ auth_publickey(s)
  \/ subsystem_request(s) \/ shell_request(s) \/ exec_request(s) \/ channel_eof(s)
  \/ Log(s) \/ Sftp(s) \/ Shell(s) \/ Exec(s)

Others == UNCHANGED <<access, login, open_, request, late, next_id>>

Next ==
  \/ SetLocked \/ (\E u \in Users : Permit(u) \/ Expire(u))
  \/ (\E s \in Sessions : Session(s))
  \/ ((Wake \/ Send \/ Tick) /\ Others)

Spec == Init /\ [][Next]_vars

------------------------------------------------------------------------------
(* Properties *)

Recorded == Queued \cup told \cup lost

\* Every variable stays in its range, no channel has more handles than it may,
\* and none of its handles has the number of another.
TypeOK ==
  /\ \A s \in Sessions :
       /\ Cardinality(handles[s]) <= HandleLimit
       /\ \A h \in handles[s] : h.id < handle_id[s] /\ \A g \in handles[s] : g.id = h.id => g = h
       /\ request[s].at \in {"idle", "check", "act", "log", "archive"} /\ request[s].id < next_id
  /\ NoneTwice

\* A channel acts for the user that was accepted, although an attempt that was
\* refused leaves its user in the session.
UserIsTheAcceptedOne ==
  \A s \in Sessions : channel[s] # "none" => accepted[s] = user[s] /\ user[s] # Nobody

\* The activity of a change that succeeded is about to be logged by its request, or it
\* has been logged and waits, was told or was lost: no request is answered while
\* the activity it made is not in the queue, although the task may hold the mutex.
\* (Part of a change that then fails, and writes and setstat, make no activity.)
ChangesAreLogged ==
  Recorded = (1..next_id - 1) \ {request[s].id : s \in {t \in Sessions : request[t].at = "log"}}

\* An activity is lost with a batch that could not be sent, or in a merge in which
\* another one of its key is too far from it: what is merged keeps what it had.
OnlyTheFarAreDropped ==
  [][\A id \in (lost' \ lost) \ Ids(batch) :
       \E a, b \in Range(activities) :
         id \in a.ids /\ a.key = b.key /\ a.key # Unmerged /\ ~Near(a, b)]_vars

\* When the server has been locked, or the user dropped, an SFTP channel changes
\* files at most once more, with the request that was allowed before.  (exec never
\* asks, so that its archives change them as often as they are asked for.)
LockedOutSoon == \A s \in Sessions : channel[s] = "sftp" => late[s] <= 1

Log_ == INSTANCE Delivery WITH
  Items <- 1..MaxChanges, pending <- Queued, told <- told, lost <- lost

\* The log is a delivery at most once: whatever is merged, drained or lost with a
\* batch, no activity is told twice, and none that was lost or not made.
ToldOnceOrLost == Log_!Spec
===============================================================================
