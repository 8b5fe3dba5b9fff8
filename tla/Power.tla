-------------------------------- MODULE Power --------------------------------
(***************************************************************************)
(* The power actions of one game server (application/src/server/mod.rs):   *)
(* start, stop, kill, restart and the two variants with a kill timeout,    *)
(* the monitor task that follows the container's state and decides what    *)
(* an exit means (setup_websocket_sender), and the container as Docker     *)
(* keeps it.                                                               *)
(*                                                                         *)
(* A step of a task is what it does between two awaits: requests to Docker *)
(* are single steps, and between them every other task, the monitor and    *)
(* the container may move.  A refused call (a guard that fails) changes    *)
(* nothing and is not a step; neither are the messages, the logs and the   *)
(* schedule triggers.  set_state is one step here: StateLock takes it and  *)
(* execute_action apart.                                                   *)
(*                                                                         *)
(* `disturbed' is a history variable: it remembers that a behaviour has    *)
(* met one of the known hazards of this protocol (HazardousEntry, a Docker *)
(* request that failed), so that an invariant can say that nothing else    *)
(* breaks it.                                                              *)
(***************************************************************************)
EXTENDS Naturals, Sequences, FiniteSets, FiniteSetsExt

CONSTANTS
  Clients,         \* tasks that call the power actions (API, websocket, schedules)
  Helpers,         \* tasks the monitor spawns
  Ids,             \* container ids, a set of naturals (a bound: MaxIds of a run)
  Ops,             \* the operations the clients call
  Timeouts,        \* the values of aquire_timeout: a subset of {"none", "some"}
  ChannelCap,      \* update_channel and the state its blocked sender holds
  DeleteOnStop,    \* docker.delete_container_on_stop
  CrashDetection,  \* crash_detection.enabled
  DetectCleanExit, \* crash_detection.detect_clean_exit_as_crash
  DockerFails,     \* may inspecting, waiting for, killing or removing a container fail?
  DiskFills        \* may the server exceed its disk limit?

ServerState == {"offline", "starting", "stopping", "running"}
Operations  == {"start", "stop", "kill", "restart", "stop_with_kill_timeout",
                "restart_with_kill_timeout"}
Tasks       == Clients \cup Helpers
None        == 0

ASSUME PowerAssumption ==
  /\ Clients \cap Helpers = {}
  /\ Ids \subseteq Nat \ {None} /\ IsFiniteSet(Ids)
  /\ Ops \subseteq Operations
  /\ Timeouts \subseteq {"none", "some"}
  /\ ChannelCap \in Nat \ {0}
  /\ {DeleteOnStop, CrashDetection, DetectCleanExit, DockerFails, DiskFills} \subseteq BOOLEAN

VARIABLES
  state, locked,                       \* ServerStateLock
  restarting, stopping, crash_handled, \* the flags of the same names
  last_crash,                          \* last_crash is less than `timeout' old
  full,                                \* Filesystem::is_full
  container,                           \* the docker_id in Server::container, or None
  monitor,                             \* the task in Server::websocket_sender
  channel,                             \* the container's update channel
  docker,                              \* the container that has the server's name
  pc, loc,                             \* program point and locals of each task
  asked,                               \* history: a stop of the watched container counts
  disturbed                            \* history, see above

flags == <<restarting, stopping, crash_handled, last_crash, full>>
lock  == <<state, locked>>
hist  == <<asked, disturbed>>
vars  == <<lock, flags, container, monitor, channel, docker, pc, loc, hist>>

(***************************************************************************)
(* The monitor: the container it watches, its program point, and the       *)
(* status it has seen.  "done": the task has ended or was aborted.         *)
(***************************************************************************)
Exits_BUG == {"created", "clean", "crashed", "gone"}

Exits     == {"clean", "crashed", "gone"}
Reports   == {"created", "running"} \cup Exits
NoMonitor == [id |-> None, at |-> "done", saw |-> "created"]
Monitors  == [id : Ids \cup {None}, at : {"done", "recv", "decide", "crash", "remove", "take"},
              saw : Reports]

\* Docker: the status of the container, "gone" when there is none.
NoContainer == [id |-> None, status |-> "gone"]
Containers  == [id : Ids \cup {None}, status : Reports]

(***************************************************************************)
(* Locals: the operation under way, its aquire_timeout and old_state, the  *)
(* docker_id it has read, and what its caller goes on with once it is done:*)
(* `killer' (stop_with_kill_timeout waits for the container) and `again'   *)
(* (restart raises `restarting').                                          *)
(***************************************************************************)
Locals == [op : {"start", "stop"}, wait : {"none", "some"}, old : ServerState,
           id : Ids \cup {None}, killer : BOOLEAN, again : BOOLEAN]
Fresh  == [op |-> "start", wait |-> "none", old |-> "offline", id |-> None,
           killer |-> FALSE, again |-> FALSE]

Inside == {"remove", "take_slot", "prepare", "create", "install", "launch", "boot", "signal"}
Labels == Inside \cup {"idle", "probe", "poll", "enter", "await", "mark", "kill", "reset", "again",
                      "spawn_start", "spawn_stop"}

Init ==
  /\ state = "offline" /\ locked = FALSE
  /\ restarting = FALSE /\ stopping = FALSE /\ crash_handled = FALSE
  /\ last_crash = FALSE /\ full = FALSE
  /\ container = None
  /\ monitor = NoMonitor
  /\ channel = <<>>
  /\ docker = NoContainer
  /\ pc = [p \in Tasks |-> "idle"]
  /\ loc = [p \in Tasks |-> Fresh]
  /\ asked = FALSE
  /\ disturbed = FALSE

Goto(p, from, to) == pc[p] = from /\ pc' = [pc EXCEPT ![p] = to]
Return(p) == pc' = [pc EXCEPT ![p] = "idle"] /\ loc' = [loc EXCEPT ![p] = Fresh]
Watched(id) == docker.id = id /\ id # None

\* The monitor has yet to decide what the exit of container `id' means.
Heeded(id) == monitor.id = id /\ monitor.at \in {"recv", "decide"}

------------------------------------------------------------------------------
(* The calls: what each operation does up to its first await. *)

\* Server::start: an offline server is started, unless its disk is full.
Startable == state = "offline" /\ ~full

BeginStart(p, wait) ==
  /\ Startable
  /\ pc' = [pc EXCEPT ![p] = "probe"]
  /\ loc' = [loc EXCEPT ![p] = [Fresh EXCEPT !.wait = wait]]

\* Server::stop: the container's id is read before the lock is taken.
BeginStop(p, wait, killer, again) ==
  /\ state \notin {"offline", "stopping"}
  /\ container # None
  /\ pc' = [pc EXCEPT ![p] = "probe"]
  /\ loc' = [loc EXCEPT ![p] = [op |-> "stop", wait |-> wait, old |-> "offline",
                                id |-> container, killer |-> killer, again |-> again]]

\* Server::kill
BeginKill(p, again) ==
  /\ state # "offline"
  /\ container # None
  /\ pc' = [pc EXCEPT ![p] = "mark"]
  /\ loc' = [loc EXCEPT ![p] = [Fresh EXCEPT !.id = container, !.again = again]]

\* Server::stop_with_kill_timeout: it waits on the container it finds, after a
\* stop unless the server is stopping already.
BeginStopOrKill(p, again) ==
  \/ BeginStop(p, "none", TRUE, again)
  \/ /\ state = "stopping"
     /\ container # None
     /\ pc' = [pc EXCEPT ![p] = "await"]
     /\ loc' = [loc EXCEPT ![p] = [Fresh EXCEPT !.id = container, !.killer = TRUE, !.again = again]]

\* stop and stop_with_kill_timeout answer Ok when there is no container; a
\* restart then goes on to raise `restarting'.
BeginAgain(p) ==
  /\ state # "offline"
  /\ state = "stopping" \/ container = None
  /\ pc' = [pc EXCEPT ![p] = "again"]
  /\ UNCHANGED loc

BeginRestart(p, wait, killer) ==
  /\ ~restarting
  /\ \/ BeginStart(p, wait)
     \/ IF killer THEN BeginStop(p, "none", TRUE, TRUE) ELSE BeginStop(p, wait, FALSE, TRUE)
     \/ BeginAgain(p)

Call(p, op, wait) ==
  /\ pc[p] = "idle"
  /\ CASE op = "start" -> BeginStart(p, wait)
       [] op = "stop" -> BeginStop(p, wait, FALSE, FALSE)
       [] op = "kill" -> BeginKill(p, FALSE)
       [] op = "restart" -> BeginRestart(p, wait, FALSE)
       [] op = "stop_with_kill_timeout" -> BeginStopOrKill(p, FALSE)
       [] op = "restart_with_kill_timeout" -> BeginRestart(p, wait, TRUE)
  /\ UNCHANGED <<lock, flags, container, monitor, channel, docker, hist>>

------------------------------------------------------------------------------
(* execute_action, around the body of start or of stop. *)

\* Ok(false): a stop that is refused clears `stopping', whoever raised it.
Refuse(p) ==
  /\ pc[p] = "probe"
  /\ loc[p].wait = "none"
  /\ locked
  /\ stopping' = (stopping /\ loc[p].op # "stop")
  /\ asked' = (asked /\ loc[p].op # "stop")
  /\ Return(p)
  /\ UNCHANGED <<lock, restarting, crash_handled, last_crash, full, container, monitor, channel,
                 docker, disturbed>>

\* old_state; the action of a stop never fails and so never uses its own.
OldState(p) == IF loc[p].op = "start" THEN state ELSE loc[p].old

\* It is read, and the lock seen clear ...
Proceed(p) ==
  /\ Goto(p, "probe", "enter")
  /\ ~locked
  /\ loc' = [loc EXCEPT ![p].old = OldState(p)]
  /\ UNCHANGED <<lock, flags, container, monitor, channel, docker, hist>>

\* ... or held, and waited for ...
Wait(p) ==
  /\ Goto(p, "probe", "poll")
  /\ loc[p].wait = "some"
  /\ locked
  /\ loc' = [loc EXCEPT ![p].old = OldState(p)]
  /\ UNCHANGED <<lock, flags, container, monitor, channel, docker, hist>>

\* ... until it is seen clear or the time is up: the action is run either way.
Waited(p) ==
  /\ Goto(p, "poll", "enter")
  /\ UNCHANGED <<lock, flags, container, monitor, channel, docker, loc, hist>>

\* Another action is inside already; the server of a start is no longer offline;
\* the exit that a stop is to bring about was handled before it got the lock.
HazardousEntry(p) ==
  \/ \E q \in Tasks : pc[q] \in Inside
  \/ loc[p].op = "start" /\ loc[p].old # "offline"
  \/ loc[p].op = "stop" /\ ~(monitor.at = "recv" /\ monitor.id = loc[p].id)

\* The lock is taken and the state set.
Enter(p) ==
  /\ Goto(p, "enter", IF loc[p].op = "start" THEN "remove" ELSE "signal")
  /\ locked' = TRUE
  /\ state' = IF loc[p].op = "start" THEN "starting" ELSE "stopping"
  /\ disturbed' = (disturbed \/ HazardousEntry(p))
  /\ UNCHANGED <<flags, container, monitor, channel, docker, loc, asked>>

\* The action is done: Ok keeps the state, Err puts old_state back.
Leave(p, ok) ==
  /\ locked' = FALSE
  /\ state' = IF ok THEN state ELSE loc[p].old

------------------------------------------------------------------------------
(* The body of start. *)

\* destroy_container: every container that has the server's name is removed ...
Remove(p) ==
  /\ Goto(p, "remove", "take_slot")
  /\ docker' = NoContainer
  /\ UNCHANGED <<lock, flags, container, monitor, channel, loc, hist>>

RemoveError(p) ==
  /\ DockerFails
  /\ Goto(p, "remove", "take_slot")
  /\ disturbed' = (disturbed \/ docker # NoContainer)
  /\ UNCHANGED <<lock, flags, container, monitor, channel, docker, loc, asked>>

\* ... then the Container is dropped and the monitor aborted.
TakeSlot(p) ==
  /\ Goto(p, "take_slot", "prepare")
  /\ container' = None
  /\ monitor' = NoMonitor
  /\ channel' = <<>>
  /\ disturbed' = (disturbed /\ ~(/\ docker = NoContainer /\ loc[p].old = "offline"
                                  /\ \A q \in Tasks \ {p} : pc[q] \notin Inside))
  /\ UNCHANGED <<lock, flags, docker, loc, asked>>

\* chown_path, pull_image, create_container, Container::new and
\* start_container may fail; the rest of the preparation does not.
Fail(p) ==
  /\ pc[p] \in {"prepare", "create", "boot"}
  /\ Leave(p, FALSE)
  /\ Return(p)
  /\ UNCHANGED <<flags, container, monitor, channel, docker, hist>>

\* setup_container: nothing to do when there is a Container already.
Prepare(p) ==
  /\ Goto(p, "prepare", IF container = None THEN "create" ELSE "launch")
  /\ crash_handled' = FALSE
  /\ UNCHANGED <<lock, restarting, stopping, last_crash, full, container, monitor, channel,
                 docker, loc, hist>>

\* Ids held by nobody; Docker never gives an id out twice.
Unused == Ids \ ({container, monitor.id, docker.id} \cup {loc[p].id : p \in Tasks})

\* create_container: the name must be free.  Attaching (Container::new) may
\* fail and leave the container behind.
Create(p) ==
  /\ pc[p] = "create"
  /\ docker = NoContainer
  /\ Unused # {}
  /\ docker' = [id |-> Min(Unused), status |-> "created"]
  /\ \/ /\ pc' = [pc EXCEPT ![p] = "install"]
        /\ loc' = [loc EXCEPT ![p].id = Min(Unused)]
        /\ UNCHANGED lock
     \/ Leave(p, FALSE) /\ Return(p)
  /\ UNCHANGED <<flags, container, monitor, channel, hist>>

\* setup_websocket_sender replaces the monitor and aborts the old one; the
\* Container is put in its slot.
Install(p) ==
  /\ Goto(p, "install", "launch")
  /\ monitor' = [id |-> loc[p].id, at |-> "recv", saw |-> "created"]
  /\ channel' = <<>>
  /\ container' = loc[p].id
  /\ asked' = FALSE
  /\ UNCHANGED <<lock, flags, docker, loc, disturbed>>

\* The id is read back from the slot; an empty slot is Ok(()).
Launch(p) ==
  /\ pc[p] = "launch"
  /\ IF container = None
     THEN Leave(p, TRUE) /\ Return(p)
     ELSE /\ pc' = [pc EXCEPT ![p] = "boot"]
          /\ loc' = [loc EXCEPT ![p].id = container]
          /\ UNCHANGED lock
  /\ UNCHANGED <<flags, container, monitor, channel, docker, hist>>

\* start_container
Boot(p) ==
  /\ pc[p] = "boot"
  /\ Watched(loc[p].id)
  /\ docker' = [docker EXCEPT !.status = "running"]
  /\ Leave(p, TRUE)
  /\ Return(p)
  /\ UNCHANGED <<flags, container, monitor, channel, hist>>

------------------------------------------------------------------------------
(* The bodies of stop, kill and the kill timeout. *)

\* What follows a stop that succeeded, or a kill.
AndThen(p, at) ==
  IF at = "signal" /\ loc[p].killer THEN pc' = [pc EXCEPT ![p] = "await"] /\ UNCHANGED loc
  ELSE IF loc[p].again THEN pc' = [pc EXCEPT ![p] = "again"] /\ UNCHANGED loc
  ELSE Return(p)

\* The process is asked to end: by a console command, or by a signal or a docker
\* stop that a task of its own sends.  Nobody waits for the answer, and a
\* container may exit at any time, so the answer needs no step.
Signal(p) ==
  /\ pc[p] = "signal"
  /\ stopping' = TRUE
  /\ asked' = (asked \/ Heeded(loc[p].id))
  /\ Leave(p, TRUE)
  /\ AndThen(p, "signal")
  /\ UNCHANGED <<restarting, crash_handled, last_crash, full, container, monitor, channel, docker,
                 disturbed>>

\* wait_container ends when the container is not running, or with an error, or
\* with the connection to Docker, which are not told apart ...
Awaited(p) ==
  /\ pc[p] = "await"
  /\ DockerFails \/ ~(Watched(loc[p].id) /\ docker.status = "running")
  /\ AndThen(p, "await")
  /\ UNCHANGED <<lock, flags, container, monitor, channel, docker, hist>>

Expired_BUG(p) == FALSE

\* ... and when the time is up the container then in the slot is killed.
Expired(p) ==
  /\ pc[p] = "await"
  /\ IF state # "offline" /\ container # None
     THEN BeginKill(p, loc[p].again)
     ELSE AndThen(p, "await")
  /\ UNCHANGED <<lock, flags, container, monitor, channel, docker, hist>>

Mark_BUG(p) ==
  /\ Goto(p, "mark", "kill")
  /\ asked' = (asked \/ Heeded(loc[p].id))
  /\ UNCHANGED <<lock, flags, container, monitor, channel, docker, loc, disturbed>>

Mark(p) ==
  /\ Goto(p, "mark", "kill")
  /\ stopping' = TRUE
  /\ asked' = (asked \/ Heeded(loc[p].id))
  /\ UNCHANGED <<lock, restarting, crash_handled, last_crash, full, container, monitor, channel,
                 docker, loc, disturbed>>

\* kill_container fails unless the container runs, and may fail if it does: the
\* call returns Ok just the same, and `stopping' stays raised.
Kill(p) ==
  /\ pc[p] = "kill"
  /\ \/ /\ Watched(loc[p].id) /\ docker.status = "running"
        /\ docker' = [docker EXCEPT !.status = "crashed"]
        /\ pc' = [pc EXCEPT ![p] = "reset"]
        /\ UNCHANGED loc
     \/ /\ DockerFails \/ ~(Watched(loc[p].id) /\ docker.status = "running")
        /\ AndThen(p, "kill")
        /\ UNCHANGED docker
  /\ UNCHANGED <<lock, flags, container, monitor, channel, hist>>

\* reset_state
Reset(p) ==
  /\ pc[p] = "reset"
  /\ state' = "offline"
  /\ AndThen(p, "kill")
  /\ UNCHANGED <<locked, flags, container, monitor, channel, docker, hist>>

\* restart: `restarting' tells the monitor to start the server on its exit.
Again(p) ==
  /\ pc[p] = "again"
  /\ restarting' = TRUE
  /\ Return(p)
  /\ UNCHANGED <<lock, stopping, crash_handled, last_crash, full, container, monitor, channel,
                 docker, hist>>

------------------------------------------------------------------------------
(* The container and its state poller. *)

\* The process prints the line that says it has started (check_startup).
Started ==
  /\ docker.status = "running"
  /\ docker.id \in {container} \cup (IF monitor.at = "done" THEN {} ELSE {monitor.id})
  /\ state = "starting"
  /\ state' = "running"
  /\ UNCHANGED <<locked, flags, container, monitor, channel, docker, pc, loc, hist>>

\* The process ends, by itself or because it was asked to.
Exit(how) ==
  /\ docker.status = "running"
  /\ docker' = [docker EXCEPT !.status = how]
  /\ UNCHANGED <<lock, flags, container, monitor, channel, pc, loc, hist>>

InspectRunning_BUG(report) ==
  /\ monitor.at = "recv"
  /\ Len(channel) < ChannelCap
  /\ report = "running" /\ Watched(monitor.id) /\ docker.status = "running"
  /\ channel' = Append(channel, report)
  /\ UNCHANGED <<lock, flags, container, monitor, docker, pc, loc, hist>>

\* Once a second the container is inspected and its status queued.  A failed
\* inspect (unwrap_or_default) reads like a container that is gone.
Inspect(report) ==
  /\ monitor.at = "recv"
  /\ Len(channel) < ChannelCap
  /\ report = IF Watched(monitor.id) THEN docker.status ELSE "gone"
  /\ channel' = Append(channel, report)
  /\ UNCHANGED <<lock, flags, container, monitor, docker, pc, loc, hist>>

InspectError ==
  /\ DockerFails
  /\ monitor.at = "recv"
  /\ Watched(monitor.id)
  /\ Len(channel) < ChannelCap
  /\ channel' = Append(channel, "gone")
  /\ disturbed' = TRUE
  /\ UNCHANGED <<lock, flags, container, monitor, docker, pc, loc, asked>>

\* The time of crash_detection.timeout passes.
Forget ==
  /\ last_crash
  /\ last_crash' = FALSE
  /\ UNCHANGED <<lock, restarting, stopping, crash_handled, full, container, monitor, channel,
                 docker, pc, loc, hist>>

FillDisk ==
  /\ DiskFills
  /\ full' = ~full
  /\ UNCHANGED <<lock, restarting, stopping, crash_handled, last_crash, container, monitor, channel,
                 docker, pc, loc, hist>>

------------------------------------------------------------------------------
(* The monitor. *)

Spawn(q, at) == pc[q] = "idle" /\ pc' = [pc EXCEPT ![q] = at]
Ended        == [monitor EXCEPT !.at = "done"]

Receive_BUG(q) ==
  /\ monitor.at = "recv"
  /\ channel # <<>>
  /\ channel' = Tail(channel)
  /\ UNCHANGED pc
  /\ IF Head(channel) \in Exits
     THEN /\ state' = IF state = "running" THEN "offline" ELSE state
          /\ monitor' = [monitor EXCEPT !.at = "decide", !.saw = Head(channel)]
     ELSE UNCHANGED <<state, monitor>>
  /\ UNCHANGED <<locked, flags, container, docker, loc, hist>>

\* A status is received.  While the disk is full each one that finds the server
\* neither offline nor stopping spawns a stop with a kill timeout.
Receive(q) ==
  /\ monitor.at = "recv"
  /\ channel # <<>>
  /\ channel' = Tail(channel)
  /\ IF full /\ state # "offline" /\ ~stopping THEN Spawn(q, "spawn_stop") ELSE UNCHANGED pc
  /\ IF Head(channel) \in Exits
     THEN /\ state' = "offline"
          /\ monitor' = [monitor EXCEPT !.at = "decide", !.saw = Head(channel)]
     ELSE /\ state' = IF Head(channel) = "running" /\ state = "offline" THEN "running" ELSE state
          /\ UNCHANGED monitor
  /\ UNCHANGED <<locked, flags, container, docker, loc, hist>>

\* What an exit means: a restart, a stop, a crash, or one that was handled.
Decide(q) ==
  /\ monitor.at = "decide"
  /\ IF restarting THEN
       /\ crash_handled' = TRUE /\ restarting' = FALSE /\ stopping' = FALSE
       /\ Spawn(q, "spawn_start")
       /\ monitor' = Ended
     ELSE IF stopping THEN
       /\ crash_handled' = TRUE /\ stopping' = FALSE
       /\ monitor' = [monitor EXCEPT !.at = IF DeleteOnStop THEN "remove" ELSE "done"]
       /\ UNCHANGED <<restarting, pc>>
     ELSE IF CrashDetection /\ ~crash_handled THEN
       /\ crash_handled' = TRUE
       /\ monitor' = [monitor EXCEPT !.at =
                        IF monitor.saw # "clean" \/ DetectCleanExit THEN "crash"
                        ELSE IF DeleteOnStop THEN "remove" ELSE "done"]
       /\ UNCHANGED <<restarting, stopping, pc>>
     ELSE
       /\ monitor' = Ended
       /\ UNCHANGED <<restarting, stopping, crash_handled, pc>>
  /\ UNCHANGED <<lock, last_crash, full, container, channel, docker, loc, hist>>

\* A crash: the server is started again unless it crashed a short while ago.
Crash(q) ==
  /\ monitor.at = "crash"
  /\ IF last_crash
     THEN /\ monitor' = [monitor EXCEPT !.at = IF DeleteOnStop THEN "remove" ELSE "done"]
          /\ UNCHANGED <<last_crash, pc>>
     ELSE /\ last_crash' = TRUE
          /\ Spawn(q, "spawn_start")
          /\ monitor' = Ended
  /\ UNCHANGED <<lock, restarting, stopping, crash_handled, full, container, channel, docker, loc,
                 hist>>

\* destroy_container, run by the monitor: it aborts itself.  The container stays
\* when it cannot be listed or removed.
RemoveStopped ==
  /\ monitor.at = "remove"
  /\ docker' = NoContainer \/ (DockerFails /\ docker' = docker)
  /\ monitor' = [monitor EXCEPT !.at = "take"]
  /\ UNCHANGED <<lock, flags, container, channel, pc, loc, hist>>

TakeStopped ==
  /\ monitor.at = "take"
  /\ container' = None
  /\ monitor' = NoMonitor
  /\ channel' = <<>>
  /\ UNCHANGED <<lock, flags, docker, pc, loc, hist>>

\* A spawned task makes its call; a guard that fails ends it.
SpawnedStart(q) ==
  /\ pc[q] = "spawn_start"
  /\ IF Startable THEN BeginStart(q, "some") ELSE Return(q)
  /\ UNCHANGED <<lock, flags, container, monitor, channel, docker, hist>>

SpawnedStop(q) ==
  /\ pc[q] = "spawn_stop"
  /\ IF state # "offline" /\ container # None THEN BeginStopOrKill(q, FALSE) ELSE Return(q)
  /\ UNCHANGED <<lock, flags, container, monitor, channel, docker, hist>>

------------------------------------------------------------------------------
TaskStep(p) ==
  \/ Refuse(p) \/ Proceed(p) \/ Wait(p) \/ Waited(p) \/ Enter(p)
  \/ Remove(p) \/ RemoveError(p) \/ TakeSlot(p) \/ Fail(p) \/ Prepare(p) \/ Create(p) \/ Install(p)
  \/ Launch(p) \/ Boot(p)
  \/ Signal(p) \/ Awaited(p) \/ Expired(p) \/ Mark(p) \/ Kill(p) \/ Reset(p) \/ Again(p)

MonitorStep ==
  \/ \E q \in Helpers : Receive(q) \/ Decide(q) \/ Crash(q)
  \/ RemoveStopped \/ TakeStopped

DockerStep ==
  \/ Started \/ InspectError
  \/ \E how \in {"clean", "crashed"} : Exit(how)
  \/ \E report \in Reports : Inspect(report)

Next ==
  \/ \E p \in Clients, op \in Ops, wait \in Timeouts : Call(p, op, wait)
  \/ \E p \in Tasks : TaskStep(p)
  \/ \E q \in Helpers : SpawnedStart(q) \/ SpawnedStop(q)
  \/ MonitorStep \/ DockerStep \/ Forget \/ FillDisk

Spec == Init /\ [][Next]_vars

(***************************************************************************)
(* Tasks that can run are polled, Docker answers every request (bollard's  *)
(* client times out), and the poller inspects once a second.  Neither the  *)
(* process nor a client has to do anything.                                *)
(***************************************************************************)
Fairness ==
  /\ \A p \in Tasks : WF_vars(TaskStep(p) \/ SpawnedStart(p) \/ SpawnedStop(p))
  /\ WF_vars(MonitorStep)
  /\ WF_vars(\E report \in Reports : Inspect(report))

FairSpec == Spec /\ Fairness

------------------------------------------------------------------------------
(* Properties *)

\* Every variable stays in its range.
TypeOK ==
  /\ state \in ServerState
  /\ {locked, restarting, stopping, crash_handled, last_crash, full} \subseteq BOOLEAN
  /\ container \in Ids \cup {None}
  /\ monitor \in Monitors
  /\ channel \in Seq(Reports) /\ Len(channel) <= ChannelCap
  /\ docker \in Containers
  /\ pc \in [Tasks -> Labels]
  /\ loc \in [Tasks -> Locals]
  /\ asked \in BOOLEAN
  /\ disturbed \in BOOLEAN

(***************************************************************************)
(* Nobody is left who would change the state: every call has returned and  *)
(* the monitor has ended.                                                  *)
(***************************************************************************)
Unattended == monitor.at = "done" /\ \A p \in Tasks : pc[p] = "idle"

\* When nobody is left to correct it, the state is offline and nothing runs:
\* an exit is never lost and no container survives its monitor.  Only five
\* things break this, and a start that runs alone mends them: two actions inside
\* the lock, a start whose server is no longer offline once it gets to read
\* old_state, a stop that enters after the exit was handled, and an inspect or a
\* remove request that fails.
StateIsTruthful ==
  Unattended /\ ~disturbed => state = "offline" /\ docker.status # "running"

\* A running container is the one in the slot and its monitor is reading, so
\* its exit will be seen and kill and stop reach it (same five exceptions).
RunningIsWatched ==
  docker.status = "running" /\ ~disturbed =>
    container = docker.id /\ monitor.id = docker.id /\ monitor.at = "recv"

\* An exit that a stop or a kill asked for is not taken for a crash, so it does
\* not start the server again.  (A later stop that is refused clears
\* `stopping', and with it the memory of the first one.)
AskedStopIsNoCrash == monitor.at = "crash" => ~asked

\* The exit of a watched container takes the server offline, unless a power
\* action gets hold of it first.
ExitIsNoticed ==
  (docker.status \in {"clean", "crashed"} /\ monitor.id = docker.id /\ monitor.at = "recv")
    ~> (state = "offline" \/ \E p \in Tasks : pc[p] \in Inside)

\* Every call returns; stop_with_kill_timeout too, when the process never ends.
CallsReturn == \A p \in Tasks : pc[p] # "idle" ~> pc[p] = "idle"
=============================================================================
