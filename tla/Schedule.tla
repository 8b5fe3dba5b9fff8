------------------------------- MODULE Schedule -------------------------------
(***************************************************************************)
(* The schedules of a server (server/schedule): the triggers, the executor *)
(* task of each schedule, the actions it executes, and the task of the     *)
(* manager that reports the results to the panel every 10 seconds.         *)
(*                                                                         *)
(* A step is what a task does between two awaits.  The server is seen as   *)
(* the actions see it: its power state, whether it is locked, its files,   *)
(* and the activity log.  A run is one execution of a schedule's actions;  *)
(* runs are numbered.  Definitions named ..._BUG are plausible mistakes;   *)
(* no specification uses them.                                             *)
(***************************************************************************)
EXTENDS Naturals, Sequences, FiniteSets

CONSTANTS
  Schedules,   \* the uuids of the schedules
  Plans,       \* what the panel may configure: triggers, condition, actions
  NoPlan,      \* no configuration
  Files,       \* paths of the server
  MaxRuns,     \* bound: executions of all schedules
  MaxEvents    \* bound: events of the server, updates and API calls

ServerState == {"offline", "starting", "running", "stopping"}
PowerAction == {"start", "stop", "restart", "kill"}
Events      == ServerState \cup {"did start", "did stop", "did restart", "did kill", "crash"}

ASSUME ScheduleAssumption ==
  /\ NoPlan \notin Plans
  /\ {MaxRuns, MaxEvents} \subseteq Nat
  /\ \A p \in Plans :
       /\ p.triggers \subseteq Events \cup {"cron"}
       /\ p.actions \in Seq([kind : STRING, ignore_failure : BOOLEAN, foreground : BOOLEAN,
                             from : Files, to : Files])

VARIABLES
  power, locked, files, \* the server
  plan,                 \* the schedules of the manager, NoPlan: not there
  cron,                 \* the cron task of each schedule: none, asleep, due
  notifier,             \* executor_notifier holds a permit
  skip_notifier,        \* executor_skip_notifier holds a permit
  exec,                 \* the executor task of each schedule
  status,               \* ScheduleStatus: the step, 0 if not running
  completion_status,    \* the result to report, or NoResult
  batch, sending,       \* the manager's task: the request to the panel
  jobs,                 \* tasks the actions have spawned
  told,                 \* results the panel has received
  runs, events,         \* counters for the bounds
  aborted,              \* history: schedules whose executor was aborted in a run
  lost                  \* history: results that were overwritten, dropped or not sent

server  == <<power, locked, files>>
trigger == <<cron, notifier, skip_notifier>>
report  == <<batch, sending, told>>
bounds  == <<runs, events>>
hist    == <<aborted, lost>>
vars    == <<server, plan, trigger, exec, status, completion_status, report, jobs, bounds, hist>>

NoResult == [run |-> 0, successful |-> FALSE, errors |-> {}]

\* An executor between two runs.  `logged' are the steps whose activity it has
\* handed to the activity log; `idle' is history: the steps that are known to have
\* had no effect.
Waiting == [at |-> "wait", run |-> 0, actions |-> <<>>, step |-> 0, errors |-> {}, successful |-> TRUE,
            logged |-> {}, idle |-> {}]

Sleeper(p) == IF "cron" \in p.triggers THEN "sleep" ELSE "none"

Present == {s \in Schedules : plan[s] # NoPlan}

Init ==
  /\ power \in {"offline", "running"}
  /\ locked = FALSE
  /\ files \in {{f} : f \in Files}
  /\ plan \in [Schedules -> Plans]
  /\ cron = [s \in Schedules |-> Sleeper(plan[s])]
  /\ notifier = [s \in Schedules |-> FALSE]
  /\ skip_notifier = [s \in Schedules |-> FALSE]
  /\ exec = [s \in Schedules |-> Waiting]
  /\ status = [s \in Schedules |-> 0]
  /\ completion_status = [s \in Schedules |-> NoResult]
  /\ batch = {} /\ sending = FALSE
  /\ jobs = {} /\ told = {}
  /\ runs = 0 /\ events = 0
  /\ aborted = {} /\ lost = {}

------------------------------------------------------------------------------
(* Triggers. *)

\* execute_server_state_trigger, execute_power_action_trigger, execute_crash_trigger
Triggered(es) ==
  notifier' = [s \in Schedules |->
                 notifier[s] \/ (s \in Present /\ plan[s].triggers \cap es # {})]

\* The server changes its state for reasons of its own.
PowerMoves ==
  /\ events < MaxEvents
  /\ events' = events + 1
  /\ \/ power = "offline" /\ power' = "starting" /\ Triggered({"starting", "did start"})
     \/ power = "starting" /\ power' = "running" /\ Triggered({"running"})
     \/ power = "stopping" /\ power' = "offline" /\ Triggered({"offline"})
     \/ power \in {"starting", "running"} /\ power' = "offline" /\ Triggered({"offline", "crash"})
  /\ UNCHANGED <<locked, files, plan, cron, skip_notifier, exec, status, completion_status,
                 report, jobs, runs, hist>>

\* An installation, a restore or a transfer begins or ends.
LockMoves ==
  /\ events < MaxEvents
  /\ events' = events + 1
  /\ locked' = ~locked
  /\ UNCHANGED <<power, files, plan, trigger, exec, status, completion_status, report,
                 jobs, runs, hist>>

\* POST .../trigger
Trigger(s) ==
  /\ s \in Present /\ events < MaxEvents
  /\ events' = events + 1
  /\ \/ notifier' = [notifier EXCEPT ![s] = TRUE] /\ UNCHANGED skip_notifier
     \/ skip_notifier' = [skip_notifier EXCEPT ![s] = TRUE] /\ UNCHANGED notifier
  /\ UNCHANGED <<server, plan, cron, exec, status, completion_status, report, jobs, runs, hist>>

\* The time a cron task sleeps for has come ...
CronDue(s) ==
  /\ cron[s] = "sleep" /\ events < MaxEvents
  /\ events' = events + 1
  /\ cron' = [cron EXCEPT ![s] = "due"]
  /\ UNCHANGED <<server, plan, notifier, skip_notifier, exec, status, completion_status, report,
                 jobs, runs, hist>>

\* ... and it wakes up: its sleep is up to a second too long.
CronFire(s) ==
  /\ cron[s] = "due"
  /\ cron' = [cron EXCEPT ![s] = "sleep"]
  /\ notifier' = [notifier EXCEPT ![s] = TRUE]
  /\ UNCHANGED <<server, plan, skip_notifier, exec, status, completion_status, report, jobs, bounds, hist>>

------------------------------------------------------------------------------
(* The executor task. *)

Goto(s, from, to) == exec[s].at = from /\ exec' = [exec EXCEPT ![s].at = to]

\* The select over the two notifiers.  Either one, when both hold a permit.
Wake(s) ==
  /\ s \in Present
  /\ \/ /\ skip_notifier[s]
        /\ skip_notifier' = [skip_notifier EXCEPT ![s] = FALSE]
        /\ Goto(s, "wait", "load")
        /\ UNCHANGED notifier
     \/ /\ notifier[s]
        /\ notifier' = [notifier EXCEPT ![s] = FALSE]
        /\ Goto(s, "wait", "check")
        /\ UNCHANGED skip_notifier
  /\ UNCHANGED <<server, plan, cron, status, completion_status, report, jobs, bounds, hist>>

\* The outcomes of a condition that is not a list: what it compares with the
\* usage of the server may come out either way.
Atom(c) ==
  CASE c.type = "none"         -> {TRUE}
    [] c.type = "server_state" -> {power = c.state}
    [] c.type = "file_exists"  -> {c.file \in files}
    [] OTHER                   -> BOOLEAN

\* ScheduleCondition::evaluate
Evaluate(c) ==
  CASE c.type = "and" -> {x \in BOOLEAN : \/ x /\ \A d \in c.conditions : TRUE \in Atom(d)
                                          \/ ~x /\ \E d \in c.conditions : FALSE \in Atom(d)}
    [] c.type = "or"  -> {x \in BOOLEAN : \/ x /\ \E d \in c.conditions : TRUE \in Atom(d)
                                          \/ ~x /\ \A d \in c.conditions : FALSE \in Atom(d)}
    [] OTHER          -> Atom(c)

Check_BUG(s) ==
  /\ exec[s].at = "check"
  /\ \E met \in Evaluate(plan[s].condition) : Goto(s, "check", IF met THEN "load" ELSE "check")
  /\ UNCHANGED <<server, plan, trigger, status, completion_status, report, jobs, bounds, hist>>

Check(s) ==
  /\ exec[s].at = "check"
  /\ \E met \in Evaluate(plan[s].condition) : Goto(s, "check", IF met THEN "load" ELSE "wait")
  /\ UNCHANGED <<server, plan, trigger, status, completion_status, report, jobs, bounds, hist>>

\* The actions are cloned: an update does not touch a run that has begun.
Load(s) ==
  /\ exec[s].at = "load" /\ runs < MaxRuns
  /\ runs' = runs + 1
  /\ exec' = [exec EXCEPT ![s] = [Waiting EXCEPT !.at = IF plan[s].actions = <<>> THEN "finish" ELSE "step",
                                                 !.run = runs + 1, !.actions = plan[s].actions, !.step = 1]]
  /\ UNCHANGED <<server, plan, trigger, status, completion_status, report, jobs, events, hist>>

Step(s) ==
  /\ Goto(s, "step", "act")
  /\ status' = [status EXCEPT ![s] = exec[s].step]
  /\ aborted' = aborted \ {s}
  /\ UNCHANGED <<server, plan, trigger, completion_status, report, jobs, bounds, lost>>

\* The action that is executed, and the name of this step of the run.
Here(s) == exec[s].actions[exec[s].step]
Id(s)   == <<exec[s].run, exec[s].step>>

IgnoreFailure(a) == a.kind \notin {"sleep", "delete", "rename"} /\ a.ignore_failure

\* The loop goes on to the next action, or ends.
Onward(e) == IF e.step = Len(e.actions) THEN [e EXCEPT !.at = "finish"]
                                        ELSE [e EXCEPT !.at = "step", !.step = @ + 1]

\* An action returns Ok or an error.  An error ends the run unless it is to be
\* ignored.  `logged' says whether an activity was logged, `idle' whether the
\* action has had no effect.
Return(s, err, logged, idle) ==
  LET i    == exec[s].step
      With(b) == IF b THEN {i} ELSE {}
      e    == [exec[s] EXCEPT !.errors = @ \cup With(err), !.logged = @ \cup With(logged), !.idle = @ \cup With(idle)]
  IN  exec' = [exec EXCEPT ![s] = IF ~err \/ IgnoreFailure(Here(s)) THEN Onward(e)
                                  ELSE [e EXCEPT !.at = "finish", !.successful = FALSE]]

Ok(s)      == Return(s, FALSE, TRUE, FALSE)
Quietly(s) == Return(s, FALSE, FALSE, FALSE)
Err(s)     == Return(s, TRUE, FALSE, TRUE)

------------------------------------------------------------------------------
(* The actions: ScheduleAction::execute.  Where a request of an action fails, it  *)
(* returns an error and leaves the rest of the server as it is (Refused).         *)

Begins(s, kinds) == exec[s].at = "act" /\ ~locked /\ Here(s).kind \in kinds

\* What every action leaves alone.
outside == <<locked, plan, cron, skip_notifier, status, completion_status, report, bounds, hist>>

LockedOut(s) ==
  /\ exec[s].at = "act" /\ locked
  /\ Err(s)
  /\ UNCHANGED <<outside, power, files, notifier, jobs>>

Refused(s) ==
  /\ Begins(s, PowerAction \cup {"command", "backup", "mkdir", "write", "copy", "delete", "rename",
                                 "compress", "decompress", "variable", "startup", "image"})
  /\ Err(s)
  /\ UNCHANGED <<outside, power, files, notifier, jobs>>

Sleep(s) ==
  /\ Begins(s, {"sleep"})
  /\ Quietly(s)
  /\ UNCHANGED <<outside, power, files, notifier, jobs>>

\* A power action takes the server to a state, and triggers schedules.  A start,
\* a stop or a restart is Ok and logged, too, when nothing comes of the state: a
\* container that is gone, a stdin that is not there or fails, a signal that
\* Docker refuses in a task of its own.
SendPower(s, to, did) ==
  /\ power' = to
  /\ Triggered({to, did})
  /\ Ok(s) \/ (Here(s).kind # "kill" /\ Return(s, FALSE, TRUE, TRUE))
  /\ UNCHANGED <<outside, files, jobs>>

SendStart(s)   == Begins(s, {"start"}) /\ power = "offline" /\ SendPower(s, "starting", "did start")
SendRestart(s) == Begins(s, {"restart"}) /\ SendPower(s, IF power = "offline" THEN "starting" ELSE "stopping",
                                                       "did restart")
SendStop(s)    == Begins(s, {"stop"}) /\ power \notin {"offline", "stopping"} /\ SendPower(s, "stopping", "did stop")
SendKill(s)    == Begins(s, {"kill"}) /\ power # "offline" /\ SendPower(s, "offline", "did kill")

\* A stop, a restart or a kill is Ok and logged, and does not even change the
\* state, when the slot of the container is empty; so is a kill that Docker
\* refuses, and a restart that is lost since the exit was handled before it.
Unheeded(s) ==
  /\ \/ Begins(s, {"stop"}) /\ power \notin {"offline", "stopping"} /\ Triggered({})
     \/ Begins(s, {"kill"}) /\ power # "offline" /\ Triggered({})
     \/ Begins(s, {"restart"}) /\ power # "offline" /\ Triggered({"did restart"})
  /\ Return(s, FALSE, TRUE, TRUE)
  /\ UNCHANGED <<outside, power, files, jobs>>

\* A command that the closed stdin does not take is no error, and not logged.
SendCommand(s) ==
  /\ Begins(s, {"command"}) /\ power # "offline"
  /\ Ok(s) \/ Return(s, FALSE, FALSE, TRUE)
  /\ UNCHANGED <<outside, power, files, notifier, jobs>>

\* A task is spawned and, in the foreground, waited for.
Spawn(s, logged) ==
  /\ jobs' = jobs \cup {[for |-> s, id |-> Id(s), action |-> Here(s)]}
  /\ IF Here(s).foreground
     THEN exec' = [exec EXCEPT ![s].at = "await", ![s].logged = IF logged THEN @ \cup {exec[s].step} ELSE @]
     ELSE Return(s, FALSE, logged, FALSE)

\* The panel gives the backup a name, and the manager creates it.
CreateBackup(s) ==
  /\ Begins(s, {"backup"})
  /\ Spawn(s, FALSE)
  /\ UNCHANGED <<outside, power, files, notifier>>

\* The activity is logged before the ownership is changed, which may fail.
CreateDirectory(s) ==
  /\ Begins(s, {"mkdir"})
  /\ files' = files \cup {Here(s).to}
  /\ Ok(s) \/ Return(s, TRUE, TRUE, FALSE)
  /\ UNCHANGED <<outside, power, notifier, jobs>>

\* A write that fails has created or emptied the file, and is not logged.
WriteFile(s) ==
  /\ Begins(s, {"write"})
  /\ files' = files \cup {Here(s).to}
  /\ Ok(s) \/ Return(s, TRUE, TRUE, FALSE) \/ Err(s)
  /\ UNCHANGED <<outside, power, notifier, jobs>>

CopyFile(s) ==
  /\ Begins(s, {"copy"}) /\ Here(s).from \in files
  /\ Spawn(s, TRUE)
  /\ UNCHANGED <<outside, power, files, notifier>>

\* A file that cannot be deleted is no error.
DeleteFiles(s) ==
  /\ Begins(s, {"delete"})
  /\ \/ files' = files \ {Here(s).from} /\ Ok(s)
     \/ UNCHANGED files /\ Return(s, FALSE, TRUE, TRUE)
  /\ UNCHANGED <<outside, power, notifier, jobs>>

\* Neither is one that cannot be renamed.
RenameFiles(s) ==
  /\ Begins(s, {"rename"})
  /\ \/ /\ Here(s).from \in files /\ Here(s).to \notin files
        /\ files' = (files \ {Here(s).from}) \cup {Here(s).to}
        /\ Ok(s)
     \/ UNCHANGED files /\ Return(s, FALSE, TRUE, TRUE)
  /\ UNCHANGED <<outside, power, notifier, jobs>>

CompressFiles(s) ==
  /\ Begins(s, {"compress"})
  /\ Spawn(s, TRUE)
  /\ UNCHANGED <<outside, power, files, notifier>>

DecompressFile(s) ==
  /\ Begins(s, {"decompress"}) /\ Here(s).from \in files
  /\ Spawn(s, TRUE)
  /\ UNCHANGED <<outside, power, files, notifier>>

\* The panel changes a variable, the command or the image of the server.
UpdateStartup(s) ==
  /\ Begins(s, {"variable", "startup", "image"})
  /\ Quietly(s)
  /\ UNCHANGED <<outside, power, files, notifier, jobs>>

Act(s) ==
  \/ LockedOut(s) \/ Refused(s) \/ Sleep(s)
  \/ SendStart(s) \/ SendRestart(s) \/ SendStop(s) \/ SendKill(s) \/ Unheeded(s) \/ SendCommand(s)
  \/ CreateBackup(s) \/ CreateDirectory(s) \/ WriteFile(s) \/ CopyFile(s) \/ DeleteFiles(s)
  \/ RenameFiles(s) \/ CompressFiles(s) \/ DecompressFile(s) \/ UpdateStartup(s)

------------------------------------------------------------------------------
\* What a spawned task does to the files.
Effect(a) == IF a.kind = "backup" THEN files ELSE files \cup {a.to}

JobEnds_BUG(j) ==
  /\ jobs' = jobs \ {j}
  /\ \E end \in {"ok", "error", "panic"} :
       /\ files' \in IF end = "ok" THEN {Effect(j.action)} ELSE {files, Effect(j.action)}
       /\ IF exec[j.for].at = "await" /\ Id(j.for) = j.id
          THEN Return(j.for, FALSE, FALSE, end = "error")
          ELSE UNCHANGED exec
  /\ UNCHANGED <<outside, power, notifier>>

\* A spawned task ends, and the executor that waits for it goes on.  That of a
\* task that panicked takes it for a success; what it did is not known.
JobEnds(j) ==
  /\ jobs' = jobs \ {j}
  /\ \E end \in {"ok", "error", "panic"} :
       /\ files' \in IF end = "ok" THEN {Effect(j.action)} ELSE {files, Effect(j.action)}
       /\ IF exec[j.for].at = "await" /\ Id(j.for) = j.id
          THEN Return(j.for, end = "error", FALSE, end = "error")
          ELSE UNCHANGED exec
  /\ UNCHANGED <<outside, power, notifier>>

Finish_BUG(s) ==
  /\ Goto(s, "finish", "complete")
  /\ aborted' = aborted \ {s}
  /\ UNCHANGED <<server, plan, trigger, status, completion_status, report, jobs, bounds, lost>>

Finish(s) ==
  /\ Goto(s, "finish", "complete")
  /\ status' = [status EXCEPT ![s] = 0]
  /\ aborted' = aborted \ {s}
  /\ UNCHANGED <<server, plan, trigger, completion_status, report, jobs, bounds, lost>>

\* The result waits for the manager's task, and replaces one that still waits.
Complete(s) ==
  /\ exec[s].at = "complete"
  /\ completion_status' = [completion_status EXCEPT ![s] =
       [run |-> exec[s].run, successful |-> exec[s].successful, errors |-> exec[s].errors]]
  /\ lost' = lost \cup ({completion_status[s].run} \ {0})
  /\ exec' = [exec EXCEPT ![s] = Waiting]
  /\ UNCHANGED <<server, plan, trigger, status, report, jobs, bounds, aborted>>

\* POST .../abort: the task is aborted at its next await and another one spawned.
Abort(s) ==
  /\ s \in Present /\ events < MaxEvents
  /\ events' = events + 1
  /\ exec' = [exec EXCEPT ![s] = Waiting]
  /\ aborted' = IF exec[s].at = "wait" THEN aborted ELSE aborted \cup {s}
  /\ UNCHANGED <<server, plan, trigger, status, completion_status, report, jobs, runs, lost>>

------------------------------------------------------------------------------
(* The manager. *)

\* The schedule keeps the triggers that are no cron expressions, and compares
\* them with all of the new ones: a cron task is spawned again at every update,
\* and one that is no longer wanted stays when the others are the same.
Recreated(s, p) ==
  IF plan[s].triggers \ {"cron"} # p.triggers THEN Sleeper(p) ELSE cron[s]

\* update_schedules: the panel has changed, added or removed one of them.
Update(s, p) ==
  /\ events < MaxEvents
  /\ events' = events + 1
  /\ plan' = [plan EXCEPT ![s] = p]
  /\ cron' = [t \in Schedules |->
       CASE plan'[t] = NoPlan -> "none"
         [] t \in Present /\ plan'[t] # NoPlan -> Recreated(t, plan'[t])
         [] OTHER -> Sleeper(plan'[t])]
  /\ IF s \in Present /\ p # NoPlan
     THEN UNCHANGED <<notifier, skip_notifier, exec, status, completion_status, aborted, lost>>
     ELSE /\ notifier' = [notifier EXCEPT ![s] = FALSE]
          /\ skip_notifier' = [skip_notifier EXCEPT ![s] = FALSE]
          /\ exec' = [exec EXCEPT ![s] = Waiting]
          /\ status' = [status EXCEPT ![s] = 0]
          /\ completion_status' = [completion_status EXCEPT ![s] = NoResult]
          /\ aborted' = aborted \ {s}
          /\ lost' = lost \cup ({completion_status[s].run} \ {0})
  /\ UNCHANGED <<server, report, jobs, runs>>

Collect_BUG ==
  LET results == {completion_status[s] : s \in Schedules} \ {NoResult} IN
  /\ ~sending /\ results # {}
  /\ sending' = TRUE /\ batch' = results
  /\ UNCHANGED <<server, plan, trigger, exec, status, completion_status, told, jobs, bounds, hist>>

\* Every 10 seconds the results are taken ...
Collect ==
  LET results == {completion_status[s] : s \in Schedules} \ {NoResult} IN
  /\ ~sending /\ results # {}
  /\ sending' = TRUE /\ batch' = results
  /\ completion_status' = [s \in Schedules |-> NoResult]
  /\ UNCHANGED <<server, plan, trigger, exec, status, told, jobs, bounds, hist>>

\* ... and sent; they are gone when that fails.
Send ==
  /\ sending
  /\ sending' = FALSE /\ batch' = {}
  /\ \/ told' = told \cup batch /\ UNCHANGED lost
     \/ lost' = lost \cup {r.run : r \in batch} /\ UNCHANGED told
  /\ UNCHANGED <<server, plan, trigger, exec, status, completion_status, jobs, bounds, aborted>>

------------------------------------------------------------------------------
Executor(s) == Wake(s) \/ Check(s) \/ Load(s) \/ Step(s) \/ Act(s) \/ Finish(s) \/ Complete(s)

Next ==
  \/ PowerMoves \/ LockMoves \/ Collect \/ Send
  \/ \E j \in jobs : JobEnds(j)
  \/ \E s \in Schedules :
       \/ Trigger(s) \/ CronDue(s) \/ CronFire(s) \/ Executor(s) \/ Abort(s)
       \/ \E p \in Plans \cup {NoPlan} : Update(s, p)

Spec == Init /\ [][Next]_vars

\* The runtime polls each task; a request to the panel and a spawned task end.
Fairness ==
  /\ \A s \in Schedules : WF_vars(Executor(s)) /\ WF_vars(CronFire(s))
  /\ WF_vars(Collect) /\ WF_vars(Send)
  /\ WF_vars(\E j \in jobs : JobEnds(j))

FairSpec == Spec /\ Fairness

------------------------------------------------------------------------------
(* Properties *)

\* Every variable stays in its range.
TypeOK ==
  /\ power \in ServerState /\ locked \in BOOLEAN /\ files \subseteq Files
  /\ plan \in [Schedules -> Plans \cup {NoPlan}]
  /\ cron \in [Schedules -> {"none", "sleep", "due"}]
  /\ {notifier, skip_notifier} \subseteq [Schedules -> BOOLEAN]
  /\ \A s \in Schedules :
       /\ exec[s].at \in {"wait", "check", "load", "step", "act", "await", "finish", "complete"}
       /\ exec[s].at \in {"step", "act", "await"} => exec[s].step \in DOMAIN exec[s].actions
       /\ status[s] # 0 => s \in Present

\* The status that the panel and the websocket clients see says that a run is
\* under way exactly while one is, through errors, aborts, updates and removals;
\* only after an abort it is left as it was, until the next run.
StatusIsTruthful ==
  \A s \in Schedules \ aborted :
    /\ status[s] # 0 => exec[s].run # 0 /\ exec[s].step \in {status[s], status[s] + 1}
    /\ exec[s].at \in {"act", "await"} => status[s] = exec[s].step

\* Kinds of actions that are not logged, or not always, and kinds whose failure
\* may be dropped.
Unlogged == {"sleep", "backup", "variable", "startup", "image", "command"}
Silent   == PowerAction \cup {"command", "delete", "rename"}

\* The result of a run is honest about its steps, whatever failed after a spawned
\* task or the activity was already under way: one that is not among the errors
\* was logged, if its kind is, and none is known to have had no effect, unless
\* its kind is one whose failures the code drops.  (Of a task that panicked
\* nothing is known, and the code takes it for a success.)
ResultIsHonest ==
  \A s \in Schedules : exec[s].at \in {"finish", "complete"} =>
    \A i \in 1..exec[s].step \ exec[s].errors :
      i \in DOMAIN exec[s].actions =>
        /\ exec[s].actions[i].kind \notin Silent => i \notin exec[s].idle
        /\ exec[s].actions[i].kind \notin Unlogged => i \in exec[s].logged

\* A trigger is heeded: the executor comes back to it whatever its run meets.
TriggerIsHeeded ==
  \A s \in Schedules : notifier[s] ~> ~notifier[s] \/ runs = MaxRuns

(***************************************************************************)
(* The report of results is a delivery at most once, that always settles.  *)
(***************************************************************************)
Reports == INSTANCE Delivery WITH
  Items   <- 1..MaxRuns,
  pending <- {r.run : r \in {completion_status[s] : s \in Schedules} \cup batch} \ {0},
  told    <- {r.run : r \in told},
  lost    <- lost

\* No result is reported twice or invented, and each is reported unless it was
\* replaced, its schedule removed, or the request failed.
ReportsAreDelivered == Reports!LiveSpec
===============================================================================
