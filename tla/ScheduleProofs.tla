---------------------------- MODULE ScheduleProofs ----------------------------
(***************************************************************************)
(* Proofs about Schedule, for any schedules, any plans of any length and   *)
(* any number of runs.                                                     *)
(***************************************************************************)
EXTENDS Schedule, TLAPS

Actions == [kind : STRING, ignore_failure : BOOLEAN, foreground : BOOLEAN, from : Files, to : Files]

At == {"wait", "check", "load", "step", "act", "await", "finish", "complete"}

ExecType == [at : At, run : Nat, actions : Seq(Actions), step : Nat, errors : SUBSET Nat,
             successful : BOOLEAN, logged : SUBSET Nat, idle : SUBSET Nat]

ResultType == [run : Nat, successful : BOOLEAN, errors : SUBSET Nat]

\* The types of what the executors work with, and of the rest.
Typed ==
  /\ plan \in [Schedules -> Plans \cup {NoPlan}]
  /\ exec \in [Schedules -> ExecType] /\ status \in [Schedules -> Nat]
  /\ completion_status \in [Schedules -> ResultType]
  /\ batch \subseteq ResultType /\ told \subseteq ResultType
  /\ jobs \subseteq [for : Schedules, id : Nat \X Nat, action : Actions]
  /\ runs \in Nat /\ files \subseteq Files

Outer ==
  /\ power \in ServerState /\ locked \in BOOLEAN
  /\ cron \in [Schedules -> {"none", "sleep", "due"}]
  /\ notifier \in [Schedules -> BOOLEAN] /\ skip_notifier \in [Schedules -> BOOLEAN]

(***************************************************************************)
(* The strengthening.                                                      *)
(*                                                                         *)
(* Placed: an executor that has left its wait is that of a schedule that is*)
(* there; it is in a run exactly from Load on, and its step is an action of*)
(* the run while there is one to take.                                     *)
(*                                                                         *)
(* Shown: the status goes with the point of the executor: it is the step   *)
(* while an action is executed, the one before it until then, and 0 outside*)
(* the loop.                                                               *)
(*                                                                         *)
(* Honest: the steps that are over have had their effect and were logged,  *)
(* or are among the errors, or are of the kinds that keep silent; the one  *)
(* that is waited for is logged.                                           *)
(*                                                                         *)
(* Once: each run is in one place: in an executor, in a result that waits, *)
(* in the request, or settled.                                             *)
(***************************************************************************)
InRun == {"step", "act", "await", "finish", "complete"}

Placed(s) ==
  /\ exec[s].at # "wait" \/ status[s] # 0 => s \in Present
  /\ exec[s].at \in InRun <=> exec[s].run # 0
  /\ exec[s].at \in {"step", "act", "await"} => exec[s].step \in DOMAIN exec[s].actions
  /\ exec[s].at \in InRun => exec[s].step # 0

Shown(s) ==
  s \notin aborted =>
    /\ exec[s].at \in {"wait", "check", "load", "complete"} => status[s] = 0
    /\ exec[s].at = "step" => status[s] = exec[s].step - 1
    /\ exec[s].at \in {"act", "await"} => status[s] = exec[s].step
    /\ exec[s].at = "finish" => status[s] \in {0, exec[s].step}

\* A step i of a run e that is over.
Settled(e, i) ==
  /\ e.actions[i].kind \notin Silent => i \notin e.idle
  /\ e.actions[i].kind \notin Unlogged => i \in e.logged

\* The steps of a run that are over.
Past(e) == IF e.at \in {"finish", "complete"} THEN 1..e.step ELSE 1..(e.step - 1)

Honest(s) ==
  LET e == exec[s] IN
  e.at \in InRun =>
    /\ \A i \in (Past(e) \cap DOMAIN e.actions) \ e.errors : Settled(e, i)
    /\ e.at \in {"step", "act", "await"} => \A i \in e.idle : i < e.step
    /\ e.at = "await" => Settled(e, e.step)

RunsOf(results) == {r.run : r \in results}

Once ==
  /\ \A s \in Schedules :
       /\ exec[s].run <= runs /\ completion_status[s].run <= runs
       /\ completion_status[s].run = 0 => completion_status[s] = NoResult
       /\ exec[s].run # 0 =>
            /\ exec[s].run \notin RunsOf(batch) \cup RunsOf(told) \cup lost
            /\ \A t \in Schedules : /\ exec[s].run # completion_status[t].run
                                    /\ t # s => exec[s].run # exec[t].run
       /\ completion_status[s].run # 0 =>
            /\ completion_status[s].run \notin RunsOf(batch) \cup RunsOf(told) \cup lost
            /\ \A t \in Schedules \ {s} : completion_status[t].run # completion_status[s].run
  /\ \A n \in RunsOf(batch) \cup RunsOf(told) \cup lost : n \in 1..runs
  /\ RunsOf(batch) \cap (RunsOf(told) \cup lost) = {} /\ RunsOf(told) \cap lost = {}
  /\ ~sending => batch = {}

Good(s) == Placed(s) /\ Shown(s) /\ Honest(s)

IInv == Typed /\ Outer /\ Once /\ \A s \in Schedules : Good(s)

-----------------------------------------------------------------------------
(* What the steps of one executor do to it.                                  *)
Becomes(s, e) == e \in ExecType /\ exec' = [exec EXCEPT ![s] = e]

\* The executor that waits is one of the type.
LEMMA WaitingType == Waiting \in ExecType /\ Waiting.at = "wait" /\ Waiting.run = 0
BY DEF Waiting, ExecType, At

\* A step that moves an executor from a point to another.
LEMMA GotoBecomes ==
  ASSUME Typed, NEW s \in Schedules, NEW from, NEW to \in At, Goto(s, from, to)
  PROVE  \E e : /\ Becomes(s, e) /\ exec[s].at = from /\ e.at = to
                /\ e.run = exec[s].run /\ e.actions = exec[s].actions /\ e.step = exec[s].step
                /\ e.errors = exec[s].errors /\ e.logged = exec[s].logged /\ e.idle = exec[s].idle
<1> DEFINE e == [exec[s] EXCEPT !.at = to]
<1>1. exec[s] \in ExecType
  BY DEF Typed
<1>2. /\ e \in ExecType /\ e.at = to
      /\ e.run = exec[s].run /\ e.actions = exec[s].actions /\ e.step = exec[s].step
      /\ e.errors = exec[s].errors /\ e.logged = exec[s].logged /\ e.idle = exec[s].idle
  BY <1>1 DEF ExecType
<1>3. exec' = [exec EXCEPT ![s] = e] /\ exec[s].at = from
  BY DEF Goto, Typed
<1> HIDE DEF e
<1> QED
  BY <1>2, <1>3 DEF Becomes

With(i, b) == IF b THEN {i} ELSE {}

\* The executor after an action that returns: it is past its step, and the step is
\* among the errors, the logged and the idle ones as the action says.
Returned(s, e, err, logged, idle) ==
  /\ Becomes(s, e) /\ e.run = exec[s].run /\ e.actions = exec[s].actions
  /\ \/ e.at = "finish" /\ e.step = exec[s].step
     \/ e.at = "step" /\ e.step = exec[s].step + 1 /\ e.step \in DOMAIN e.actions
  /\ e.errors = exec[s].errors \cup With(exec[s].step, err)
  /\ e.logged = exec[s].logged \cup With(exec[s].step, logged)
  /\ e.idle = exec[s].idle \cup With(exec[s].step, idle)

\* What Return does.
LEMMA ReturnBecomes ==
  ASSUME Typed, NEW s \in Schedules, exec[s].step \in DOMAIN exec[s].actions,
         NEW err \in BOOLEAN, NEW logged \in BOOLEAN, NEW idle \in BOOLEAN,
         Return(s, err, logged, idle)
  PROVE  \E e : Returned(s, e, err, logged, idle)
<1> DEFINE x == exec[s]
           r == x.errors \cup With(x.step, err)
           l == x.logged \cup With(x.step, logged)
           n == x.idle \cup With(x.step, idle)
           y == [x EXCEPT !.errors = r, !.logged = l, !.idle = n]
<1>1. x \in ExecType /\ x.step \in Nat /\ x.actions \in Seq(Actions)
  BY DEF Typed, ExecType
<1>2. /\ y \in ExecType /\ y.run = x.run /\ y.actions = x.actions /\ y.step = x.step
      /\ y.errors = r /\ y.logged = l /\ y.idle = n
  <2>1. r \in SUBSET Nat /\ l \in SUBSET Nat /\ n \in SUBSET Nat
    BY <1>1 DEF ExecType, With
  <2> HIDE DEF r, l, n
  <2> QED
    BY <1>1, <2>1 DEF ExecType
<1>3. exec' \in {[exec EXCEPT ![s] = Onward(y)],
                 [exec EXCEPT ![s] = [y EXCEPT !.at = "finish", !.successful = FALSE]]}
  BY DEF Return, With
<1> HIDE DEF y
<1>4. CASE exec' = [exec EXCEPT ![s] = [y EXCEPT !.at = "finish", !.successful = FALSE]]
  <2> DEFINE e == [y EXCEPT !.at = "finish", !.successful = FALSE]
  <2>1. /\ e \in ExecType /\ e.at = "finish" /\ e.run = y.run /\ e.actions = y.actions
        /\ e.step = y.step /\ e.errors = y.errors /\ e.logged = y.logged /\ e.idle = y.idle
    BY <1>2 DEF ExecType, At
  <2> HIDE DEF e
  <2> QED
    BY <1>2, <1>4, <2>1 DEF Returned, Becomes, e
<1>5. CASE exec' = [exec EXCEPT ![s] = Onward(y)]
  <2>1. CASE y.step = Len(y.actions)
    <3> DEFINE e == [y EXCEPT !.at = "finish"]
    <3>1. /\ e \in ExecType /\ e.at = "finish" /\ e.run = y.run /\ e.actions = y.actions
          /\ e.step = y.step /\ e.errors = y.errors /\ e.logged = y.logged /\ e.idle = y.idle
      BY <1>2 DEF ExecType, At
    <3>2. exec' = [exec EXCEPT ![s] = e]
      BY <1>5, <2>1 DEF Onward
    <3> HIDE DEF e
    <3> QED
      BY <1>2, <3>1, <3>2 DEF Returned, Becomes
  <2>2. CASE y.step # Len(y.actions)
    <3> DEFINE e == [y EXCEPT !.at = "step", !.step = y.step + 1]
    <3>1. y.step + 1 \in Nat /\ y.step + 1 \in DOMAIN y.actions
      BY <1>1, <1>2, <2>2
    <3>2. /\ e \in ExecType /\ e.at = "step" /\ e.run = y.run /\ e.actions = y.actions
          /\ e.step = y.step + 1 /\ e.errors = y.errors /\ e.logged = y.logged /\ e.idle = y.idle
      BY <1>2, <3>1 DEF ExecType, At
    <3>3. exec' = [exec EXCEPT ![s] = e]
      BY <1>5, <2>2 DEF Onward
    <3> HIDE DEF e
    <3> QED
      BY <1>2, <3>1, <3>2, <3>3 DEF Returned, Becomes
  <2> QED
    BY <2>1, <2>2
<1> QED
  BY <1>3, <1>4, <1>5

\* An executor that waits for the task that its action has spawned.
Awaits(s, e, logged) ==
  /\ Becomes(s, e) /\ e.at = "await" /\ e.run = exec[s].run /\ e.actions = exec[s].actions
  /\ e.step = exec[s].step /\ e.errors = exec[s].errors /\ e.idle = exec[s].idle
  /\ e.logged = exec[s].logged \cup With(exec[s].step, logged)

\* What an action of a kind may say of itself.
Truthful(kind, err, logged, idle) ==
  err \/ ((kind \in Silent \/ ~idle) /\ (kind \in Unlogged \/ logged))

\* What the executor is after an action, or after the start of its task.
Acted(s) ==
  \/ \E err, logged, idle \in BOOLEAN :
       /\ \E e : Returned(s, e, err, logged, idle)
       /\ Truthful(Here(s).kind, err, logged, idle)
  \/ \E logged \in BOOLEAN :
       /\ \E e : Awaits(s, e, logged)
       /\ Truthful(Here(s).kind, FALSE, logged, FALSE)

JobType == [for : Schedules, id : Nat \X Nat, action : Actions]

\* The action that is executed is one of the type.
LEMMA HereType ==
  ASSUME Typed, NEW s \in Schedules, exec[s].step \in DOMAIN exec[s].actions
  PROVE  /\ Here(s) \in Actions /\ Here(s).to \in Files /\ Here(s).from \in Files
         /\ Here(s).foreground \in BOOLEAN /\ Id(s) \in Nat \X Nat
<1>1. exec[s].actions \in Seq(Actions) /\ exec[s].run \in Nat /\ exec[s].step \in Nat
  BY DEF Typed, ExecType
<1>2. Here(s) \in Actions
  BY <1>1 DEF Here
<1> QED
  BY <1>1, <1>2 DEF Actions, Id

\* What Spawn does.
LEMMA SpawnActs ==
  ASSUME Typed, NEW s \in Schedules, exec[s].step \in DOMAIN exec[s].actions,
         NEW logged \in BOOLEAN, Spawn(s, logged), Truthful(Here(s).kind, FALSE, logged, FALSE)
  PROVE  Acted(s) /\ jobs' \subseteq JobType
<1>1. jobs' \subseteq JobType
  <2>1. [for |-> s, id |-> Id(s), action |-> Here(s)] \in JobType
    BY HereType DEF JobType
  <2>2. jobs \subseteq JobType
    BY DEF Typed, JobType
  <2> QED
    BY <2>1, <2>2 DEF Spawn
<1>2. CASE Here(s).foreground
  <2> DEFINE x == exec[s]
             l == x.logged \cup With(x.step, logged)
             e == [x EXCEPT !.at = "await", !.logged = l]
  <2>1. x \in ExecType /\ x.step \in Nat /\ l \in SUBSET Nat
    BY DEF Typed, ExecType, With
  <2>2. exec' = [exec EXCEPT ![s] = e]
    BY <1>2 DEF Spawn, With, Typed
  <2> HIDE DEF l
  <2>3. /\ e \in ExecType /\ e.at = "await" /\ e.run = x.run /\ e.actions = x.actions
        /\ e.step = x.step /\ e.errors = x.errors /\ e.idle = x.idle /\ e.logged = l
    BY <2>1 DEF ExecType, At
  <2> HIDE DEF e
  <2>4. Awaits(s, e, logged)
    BY <2>2, <2>3 DEF Awaits, Becomes, l
  <2> QED
    BY <1>1, <2>4 DEF Acted
<1>3. CASE ~Here(s).foreground
  <2>1. \E e : Returned(s, e, FALSE, logged, FALSE)
    BY <1>3, ReturnBecomes DEF Spawn
  <2> QED
    BY <1>1, <2>1 DEF Acted
<1> QED
  BY <1>2, <1>3

\* The notifiers stay permits.
LEMMA TriggeredType ==
  ASSUME Outer, NEW es, Triggered(es)
  PROVE  notifier' \in [Schedules -> BOOLEAN]
BY DEF Outer, Triggered

\* Every action is truthful about its step, and leaves the rest of the schedules alone.
LEMMA ActActs ==
  ASSUME Typed, Outer, NEW s \in Schedules, Placed(s), Act(s)
  PROVE  /\ exec[s].at = "act" /\ Acted(s) /\ UNCHANGED outside
         /\ files' \subseteq Files /\ jobs' \subseteq JobType
         /\ power' \in ServerState /\ notifier' \in [Schedules -> BOOLEAN]
<1>1. exec[s].at = "act" /\ UNCHANGED outside
  BY DEF Act, LockedOut, Refused, Sleep, SendStart, SendRestart, SendStop, SendKill, SendPower,
     Unheeded, SendCommand, CreateBackup, CreateDirectory, WriteFile, CopyFile, DeleteFiles, RenameFiles,
     CompressFiles, DecompressFile, UpdateStartup, Begins
<1>2. exec[s].step \in DOMAIN exec[s].actions
  BY <1>1 DEF Placed
<1>3. /\ files \subseteq Files /\ jobs \subseteq JobType
      /\ power \in ServerState /\ notifier \in [Schedules -> BOOLEAN]
      /\ Here(s).to \in Files
  BY <1>2, HereType DEF Typed, Outer, JobType
<1>4. ASSUME NEW err \in BOOLEAN, NEW logged \in BOOLEAN, NEW idle \in BOOLEAN,
             Return(s, err, logged, idle), Truthful(Here(s).kind, err, logged, idle)
      PROVE  Acted(s)
  BY <1>2, <1>4, ReturnBecomes DEF Acted
<1>5. Err(s) \/ Ok(s) => Acted(s)
  BY <1>4 DEF Err, Ok, Truthful
<1>6. CASE LockedOut(s) \/ Refused(s)
  BY <1>1, <1>3, <1>5, <1>6 DEF LockedOut, Refused
<1>7. CASE Sleep(s) \/ UpdateStartup(s)
  <2>1. Here(s).kind \in Unlogged /\ Quietly(s) /\ UNCHANGED <<power, files, notifier, jobs>>
    BY <1>7 DEF Sleep, UpdateStartup, Begins, Unlogged
  <2>2. Acted(s)
    BY <2>1, <1>4 DEF Quietly, Truthful
  <2> QED
    BY <1>1, <1>3, <2>1, <2>2
<1>8. CASE SendStart(s) \/ SendRestart(s) \/ SendStop(s) \/ SendKill(s)
  <2>1. PICK to \in ServerState : \E did : SendPower(s, to, did)
    BY <1>8 DEF SendStart, SendRestart, SendStop, SendKill, ServerState
  <2>2. PICK did : SendPower(s, to, did)
    BY <2>1
  <2>3. Here(s).kind \in Silent
    BY <1>8 DEF SendStart, SendRestart, SendStop, SendKill, Begins, Silent, PowerAction
  <2>4. Return(s, FALSE, TRUE, TRUE) => Acted(s)
    BY <2>3, <1>4 DEF Truthful
  <2> QED
    BY <1>1, <1>3, <1>5, <2>2, <2>4, TriggeredType DEF SendPower
<1>9. CASE SendCommand(s)
  <2>1. Return(s, FALSE, FALSE, TRUE) => Acted(s)
    BY <1>9, <1>4 DEF SendCommand, Begins, Truthful, Silent, Unlogged
  <2> QED
    BY <1>1, <1>3, <1>5, <1>9, <2>1 DEF SendCommand
<1>10. CASE CreateBackup(s)
  <2>1. Here(s).kind \in Unlogged /\ Spawn(s, FALSE)
    BY <1>10 DEF CreateBackup, Begins, Unlogged
  <2>2. Acted(s) /\ jobs' \subseteq JobType
    BY <1>2, <2>1, SpawnActs DEF Truthful
  <2> QED
    BY <1>1, <1>3, <1>10, <2>2 DEF CreateBackup
<1>11. CASE CopyFile(s) \/ CompressFiles(s) \/ DecompressFile(s)
  <2>1. Spawn(s, TRUE) /\ UNCHANGED <<power, files, notifier>>
    BY <1>11 DEF CopyFile, CompressFiles, DecompressFile
  <2>2. Acted(s) /\ jobs' \subseteq JobType
    BY <1>2, <2>1, SpawnActs DEF Truthful
  <2> QED
    BY <1>1, <1>3, <2>1, <2>2
<1>12. CASE CreateDirectory(s) \/ WriteFile(s)
  <2>1. /\ files' = files \cup {Here(s).to} /\ UNCHANGED <<power, notifier, jobs>>
        /\ Ok(s) \/ Return(s, TRUE, TRUE, FALSE) \/ Err(s)
    BY <1>12 DEF CreateDirectory, WriteFile
  <2>2. Return(s, TRUE, TRUE, FALSE) => Acted(s)
    BY <1>4 DEF Truthful
  <2> QED
    BY <1>1, <1>3, <1>5, <2>1, <2>2
<1>13. CASE DeleteFiles(s) \/ RenameFiles(s)
  <2>1. Return(s, FALSE, TRUE, TRUE) => Acted(s)
    BY <1>13, <1>4 DEF DeleteFiles, RenameFiles, Begins, Truthful, Silent
  <2> QED
    BY <1>1, <1>3, <1>5, <1>13, <2>1 DEF DeleteFiles, RenameFiles
<1>14. CASE Unheeded(s)
  <2>1. Here(s).kind \in Silent /\ Return(s, FALSE, TRUE, TRUE) /\ UNCHANGED <<power, files, jobs>>
    BY <1>14 DEF Unheeded, Begins, Silent, PowerAction
  <2>2. Acted(s)
    BY <2>1, <1>4 DEF Truthful
  <2>3. notifier' \in [Schedules -> BOOLEAN]
    BY <1>14, TriggeredType DEF Unheeded
  <2> QED
    BY <1>1, <1>3, <2>1, <2>2, <2>3
<1> QED
  BY <1>6, <1>7, <1>8, <1>9, <1>10, <1>11, <1>12, <1>13, <1>14 DEF Act

-----------------------------------------------------------------------------
(* Each schedule.                                                            *)
\* One that a step does not touch.
LEMMA Untouched ==
  ASSUME NEW t \in Schedules, Good(t), exec'[t] = exec[t], status'[t] = status[t],
         plan[t] # NoPlan => plan'[t] # NoPlan, t \in aborted' <=> t \in aborted
  PROVE  Good(t)'
<1>1. Placed(t)'
  BY DEF Good, Placed, Present
<1>2. Shown(t)'
  BY DEF Good, Shown
<1>3. Honest(t)'
  BY DEF Good, Honest, Past, Settled
<1> QED
  BY <1>1, <1>2, <1>3 DEF Good

\* One whose executor waits again: it was aborted, or has completed.
LEMMA WaitsAgain ==
  ASSUME Typed, NEW s \in Schedules, exec' = [exec EXCEPT ![s] = Waiting],
         status'[s] # 0 => plan'[s] # NoPlan, s \notin aborted' => status'[s] = 0
  PROVE  Good(s)'
<1>1. exec'[s].at = "wait" /\ exec'[s].run = 0
  BY WaitingType DEF Typed
<1>2. Placed(s)'
  BY <1>1 DEF Placed, Present, InRun
<1>3. Shown(s)'
  BY <1>1 DEF Shown
<1>4. Honest(s)'
  BY <1>1 DEF Honest, InRun
<1> QED
  BY <1>2, <1>3, <1>4 DEF Good

\* One whose action has returned, truthfully or after its task was logged.
LEMMA ReturnGood ==
  ASSUME Typed, NEW s \in Schedules, Good(s), exec[s].at \in {"act", "await"},
         NEW e, NEW err \in BOOLEAN, NEW logged \in BOOLEAN, NEW idle \in BOOLEAN,
         Returned(s, e, err, logged, idle), UNCHANGED <<plan, status, aborted>>,
         \/ err
         \/ /\ Here(s).kind \in Silent \/ ~idle
            /\ Here(s).kind \in Unlogged \/ logged \/ exec[s].step \in exec[s].logged
  PROVE  Good(s)'
<1> DEFINE x == exec[s]
<1>1. /\ exec'[s] = e /\ e \in ExecType /\ x \in ExecType /\ x.step \in Nat /\ x.errors \in SUBSET Nat
      /\ x.idle \in SUBSET Nat /\ e.run = x.run /\ e.actions = x.actions
  BY DEF Returned, Becomes, Typed, ExecType
<1>2. /\ x.run # 0 /\ x.step # 0 /\ x.step \in DOMAIN x.actions /\ s \in Present
  BY DEF Good, Placed, InRun
<1>3. \/ e.at = "finish" /\ e.step = x.step
      \/ e.at = "step" /\ e.step = x.step + 1 /\ e.step \in DOMAIN e.actions
  BY DEF Returned
<1>4. Placed(s)'
  BY <1>1, <1>2, <1>3 DEF Placed, Present, InRun
<1>5. Shown(s)'
  <2>1. s \notin aborted => status[s] = x.step
    BY DEF Good, Shown
  <2> QED
    BY <1>1, <1>3, <2>1 DEF Shown
<1>6. Honest(s)'
  <2>1. /\ \A i \in (1..(x.step - 1) \cap DOMAIN x.actions) \ x.errors : Settled(x, i)
        /\ \A i \in x.idle : i < x.step
    BY DEF Good, Honest, Past, InRun
  <2>2. Past(e) = 1..x.step
    BY <1>1, <1>3 DEF Past
  <2>3. /\ e.errors = x.errors \cup With(x.step, err) /\ e.logged = x.logged \cup With(x.step, logged)
        /\ e.idle = x.idle \cup With(x.step, idle)
    BY DEF Returned
  <2>4. ASSUME NEW i \in (1..x.step \cap DOMAIN e.actions) \ e.errors PROVE Settled(e, i)
    <3>1. CASE i = x.step
      <4>1. ~err /\ x.step \notin x.idle
        BY <3>1, <2>1, <2>3, <1>1 DEF With
      <4>2. /\ Here(s).kind \in Silent \/ i \notin e.idle
            /\ Here(s).kind \in Unlogged \/ i \in e.logged
        BY <3>1, <4>1, <2>3 DEF With
      <4> QED
        BY <3>1, <4>2, <1>1 DEF Settled, Here
    <3>2. CASE i # x.step
      <4>1. i \in (1..(x.step - 1) \cap DOMAIN x.actions) \ x.errors
        BY <3>2, <2>3, <1>1
      <4>2. Settled(x, i)
        BY <2>1, <4>1
      <4>3. (i \in e.idle => i \in x.idle) /\ (i \in x.logged => i \in e.logged)
        BY <3>2, <2>3 DEF With
      <4> QED
        BY <4>2, <4>3, <1>1 DEF Settled
    <3> QED
      BY <3>1, <3>2
  <2>5. e.at = "step" => \A i \in e.idle : i < e.step
    BY <1>1, <1>3, <2>1, <2>3 DEF With
  <2>6. e.at # "await" /\ e.at # "act"
    BY <1>3
  <2> QED
    BY <1>1, <2>2, <2>4, <2>5, <2>6 DEF Honest
<1> QED
  BY <1>4, <1>5, <1>6 DEF Good

\* One whose action has spawned a task that it waits for.
LEMMA AwaitGood ==
  ASSUME Typed, NEW s \in Schedules, Good(s), exec[s].at = "act",
         NEW e, NEW logged \in BOOLEAN, Awaits(s, e, logged), UNCHANGED <<plan, status, aborted>>,
         Truthful(Here(s).kind, FALSE, logged, FALSE)
  PROVE  Good(s)'
<1> DEFINE x == exec[s]
<1>1. /\ exec'[s] = e /\ e \in ExecType /\ x \in ExecType /\ x.step \in Nat
      /\ x.idle \in SUBSET Nat /\ e.run = x.run /\ e.actions = x.actions /\ e.at = "await"
      /\ e.step = x.step /\ e.errors = x.errors /\ e.idle = x.idle
      /\ e.logged = x.logged \cup With(x.step, logged)
  BY DEF Awaits, Becomes, Typed, ExecType
<1>2. /\ x.run # 0 /\ x.step # 0 /\ x.step \in DOMAIN x.actions /\ s \in Present
  BY DEF Good, Placed, InRun
<1>3. Placed(s)'
  BY <1>1, <1>2 DEF Placed, Present, InRun
<1>4. Shown(s)'
  BY <1>1 DEF Good, Shown
<1>5. Honest(s)'
  <2>1. /\ \A i \in (1..(x.step - 1) \cap DOMAIN x.actions) \ x.errors : Settled(x, i)
        /\ \A i \in x.idle : i < x.step
    BY DEF Good, Honest, Past, InRun
  <2>2. Past(e) = 1..(x.step - 1)
    BY <1>1 DEF Past
  <2>3. \A i \in (1..(x.step - 1) \cap DOMAIN e.actions) \ e.errors : Settled(e, i)
    BY <1>1, <2>1 DEF Settled
  <2>4. Settled(e, e.step)
    <3>1. x.step \notin e.idle
      BY <1>1, <2>1
    <3>2. Here(s).kind \in Unlogged \/ x.step \in e.logged
      BY <1>1 DEF Truthful, With
    <3> QED
      BY <1>1, <3>1, <3>2 DEF Settled, Here
  <2> QED
    BY <1>1, <2>1, <2>2, <2>3, <2>4 DEF Honest
<1> QED
  BY <1>3, <1>4, <1>5 DEF Good

\* One that moves outside of the loop, at the start of an action or at the end of it.
LEMMA GotoGood ==
  ASSUME Typed, NEW s \in Schedules, Good(s), UNCHANGED plan,
         \/ /\ s \in Present
            /\ Goto(s, "wait", "load") \/ Goto(s, "wait", "check")
            /\ UNCHANGED <<status, aborted>>
         \/ /\ Goto(s, "check", "load") \/ Goto(s, "check", "wait")
            /\ UNCHANGED <<status, aborted>>
         \/ /\ Goto(s, "step", "act")
            /\ status' = [status EXCEPT ![s] = exec[s].step]
         \/ /\ Goto(s, "finish", "complete")
            /\ status' = [status EXCEPT ![s] = 0]
  PROVE  Good(s)'
<1> DEFINE x == exec[s]
<1>1. \E from \in At, to \in At : Goto(s, from, to)
  BY DEF At
<1>2. PICK from \in At, to \in At : Goto(s, from, to)
  BY <1>1
<1>3. PICK e : /\ Becomes(s, e) /\ x.at = from /\ e.at = to
               /\ e.run = x.run /\ e.actions = x.actions /\ e.step = x.step
               /\ e.errors = x.errors /\ e.logged = x.logged /\ e.idle = x.idle
  BY <1>2, GotoBecomes
<1>4. exec'[s] = e /\ x.step \in Nat /\ x \in ExecType
  BY <1>3 DEF Becomes, Typed, ExecType
<1>5. <<x.at, e.at>> \in {<<"wait", "load">>, <<"wait", "check">>, <<"check", "load">>, <<"check", "wait">>,
                          <<"step", "act">>, <<"finish", "complete">>}
  <2>1. \A a \in At : exec' = [exec EXCEPT ![s].at = a] => exec'[s].at = a
    BY <1>4 DEF Typed, ExecType
  <2> QED
    BY <1>3, <1>4, <2>1 DEF Goto, At
<1>6. /\ x.at \notin {"step", "finish"} => UNCHANGED <<status, aborted>>
      /\ x.at = "step" => status'[s] = x.step
      /\ x.at = "finish" => status'[s] = 0
      /\ x.at = "wait" => s \in Present
  <2>1. status \in [Schedules -> Nat]
    BY DEF Typed
  <2> QED
    BY <2>1 DEF Goto
<1>7. Placed(s)'
  BY <1>3, <1>4, <1>5, <1>6 DEF Good, Placed, Present, InRun
<1>8. Shown(s)'
  BY <1>3, <1>4, <1>5, <1>6 DEF Good, Shown
<1>9. Honest(s)'
  <2>1. e.at \in InRun => x.at \in InRun /\ Past(e) = Past(x)
    BY <1>3, <1>5 DEF InRun, Past
  <2>2. \A i : Settled(e, i) <=> Settled(x, i)
    BY <1>3 DEF Settled
  <2>3. e.at \in {"step", "act", "await"} => x.at = "step" /\ e.at # "await"
    BY <1>5
  <2> QED
    BY <1>3, <1>4, <2>1, <2>2, <2>3 DEF Good, Honest
<1> QED
  BY <1>7, <1>8, <1>9 DEF Good

\* One that has taken its plan's actions.
LEMMA LoadGood ==
  ASSUME Typed, NEW s \in Schedules, Good(s), Load(s)
  PROVE  /\ Good(s)' /\ \E e : Becomes(s, e) /\ e.run = runs + 1
<1> DEFINE e == [Waiting EXCEPT !.at = IF plan[s].actions = <<>> THEN "finish" ELSE "step",
                                !.run = runs + 1, !.actions = plan[s].actions, !.step = 1]
<1>1. exec' = [exec EXCEPT ![s] = e] /\ exec[s].at = "load" /\ UNCHANGED <<plan, status, aborted>>
  BY DEF Load, hist
<1>2. s \in Present /\ plan[s].actions \in Seq(Actions)
  BY <1>1, ScheduleAssumption DEF Good, Placed, Present, Typed, Actions
<1>3. /\ e \in ExecType /\ e.run = runs + 1 /\ e.actions = plan[s].actions /\ e.step = 1
      /\ e.at = (IF plan[s].actions = <<>> THEN "finish" ELSE "step")
      /\ e.errors = {} /\ e.logged = {} /\ e.idle = {}
  <2>1. runs + 1 \in Nat /\ 1 \in Nat /\ (IF plan[s].actions = <<>> THEN "finish" ELSE "step") \in At
    BY DEF Typed, At
  <2> QED
    BY <1>2, <2>1 DEF Waiting, ExecType
<1> HIDE DEF e
<1>4. exec'[s] = e
  BY <1>1 DEF Typed
<1>5. runs + 1 # 0
  BY DEF Typed
<1>6. Placed(s)'
  <2>1. plan[s].actions # <<>> => 1 \in DOMAIN e.actions
    BY <1>2, <1>3
  <2>2. s \in Present'
    BY <1>1, <1>2 DEF Present
  <2> QED
    BY <1>3, <1>4, <1>5, <2>1, <2>2 DEF Placed, InRun
<1>7. Shown(s)'
  BY <1>1, <1>3, <1>4 DEF Good, Shown
<1>8. Honest(s)'
  <2>1. Past(e) \cap DOMAIN e.actions = {}
    <3>1. CASE plan[s].actions = <<>>
      BY <3>1, <1>3
    <3>2. CASE plan[s].actions # <<>>
      BY <3>2, <1>3 DEF Past
    <3> QED
      BY <3>1, <3>2
  <2> QED
    BY <1>3, <1>4, <2>1 DEF Honest
<1> QED
  BY <1>1, <1>3, <1>6, <1>7, <1>8 DEF Good, Becomes

-----------------------------------------------------------------------------
(* The runs, each in one place.                                              *)

\* The numbers that are used are those of the runs so far.
LEMMA RunsAreNat ==
  ASSUME Typed
  PROVE  /\ runs \in Nat
         /\ \A s \in Schedules : exec[s].run \in Nat /\ completion_status[s].run \in Nat
         /\ RunsOf(batch) \subseteq Nat /\ RunsOf(told) \subseteq Nat
BY DEF Typed, ExecType, ResultType, RunsOf

\* A step that begins, completes and reports nothing; an executor may give up its run.
LEMMA OnceStays ==
  ASSUME Typed, Once, UNCHANGED <<completion_status, batch, sending, told, runs, lost>>,
         \A t \in Schedules : exec'[t].run \in {0, exec[t].run}
  PROVE  Once'
<1>1. runs \in Nat /\ \A t \in Schedules : exec[t].run \in Nat
  BY RunsAreNat
<1>2. UNCHANGED <<RunsOf(batch), RunsOf(told)>>
  BY DEF RunsOf
<1>3. ASSUME NEW t \in Schedules, exec'[t].run # 0
      PROVE  exec'[t].run = exec[t].run /\ exec[t].run # 0
  BY <1>3
<1>4. \A t \in Schedules : exec'[t].run <= runs
  BY <1>1 DEF Once
<1> QED
  BY <1>2, <1>3, <1>4 DEF Once

\* A new run has a number of its own.
LEMMA OnceLoad ==
  ASSUME Typed, Once, NEW s \in Schedules, exec'[s].run = runs + 1, runs' = runs + 1,
         UNCHANGED <<completion_status, batch, sending, told, lost>>,
         \A t \in Schedules \ {s} : exec'[t].run = exec[t].run
  PROVE  Once'
<1>1. /\ runs \in Nat
      /\ \A t \in Schedules : exec[t].run \in Nat /\ completion_status[t].run \in Nat
  BY RunsAreNat
<1>2. /\ \A t \in Schedules : exec[t].run <= runs /\ completion_status[t].run <= runs
      /\ \A n \in RunsOf(batch) \cup RunsOf(told) \cup lost : n \in 1..runs
  BY DEF Once
<1>3. /\ runs + 1 \notin RunsOf(batch) \cup RunsOf(told) \cup lost
      /\ \A t \in Schedules : runs + 1 # completion_status[t].run /\ runs + 1 # exec[t].run
  BY <1>1, <1>2
<1>4. UNCHANGED <<RunsOf(batch), RunsOf(told)>>
  BY DEF RunsOf
<1>5. \A n \in RunsOf(batch)' \cup RunsOf(told)' \cup lost' : n \in 1..runs'
  BY <1>1, <1>2, <1>4
<1>6. ASSUME NEW t \in Schedules
      PROVE  /\ exec'[t].run <= runs' /\ completion_status'[t].run <= runs'
             /\ completion_status'[t].run = 0 => completion_status'[t] = NoResult
             /\ exec'[t].run # 0 =>
                  /\ exec'[t].run \notin RunsOf(batch)' \cup RunsOf(told)' \cup lost'
                  /\ \A u \in Schedules : /\ exec'[t].run # completion_status'[u].run
                                          /\ u # t => exec'[t].run # exec'[u].run
  <2>1. CASE t = s
    BY <2>1, <1>1, <1>2, <1>3, <1>4 DEF Once
  <2>2. CASE t # s
    BY <2>2, <1>1, <1>2, <1>3, <1>4 DEF Once
  <2> QED
    BY <2>1, <2>2
<1> QED
  BY <1>4, <1>5, <1>6 DEF Once

\* A result takes its run over from the executor; the one it replaces is lost.
LEMMA OnceComplete ==
  ASSUME Typed, Once, NEW s \in Schedules, exec[s].run # 0, exec'[s].run = 0,
         NEW r \in ResultType, r.run = exec[s].run,
         completion_status' = [completion_status EXCEPT ![s] = r],
         lost' = lost \cup ({completion_status[s].run} \ {0}),
         UNCHANGED <<batch, sending, told, runs>>,
         \A t \in Schedules \ {s} : exec'[t].run = exec[t].run
  PROVE  Once'
<1>1. /\ runs \in Nat
      /\ \A t \in Schedules : exec[t].run \in Nat /\ completion_status[t].run \in Nat
  BY RunsAreNat
<1>2. UNCHANGED <<RunsOf(batch), RunsOf(told)>>
  BY DEF RunsOf
<1>3. /\ completion_status'[s] = r
      /\ \A t \in Schedules \ {s} : completion_status'[t] = completion_status[t]
  BY DEF Typed
<1>4. ASSUME NEW t \in Schedules
      PROVE  /\ exec'[t].run <= runs' /\ completion_status'[t].run <= runs'
             /\ completion_status'[t].run = 0 => completion_status'[t] = NoResult
             /\ exec'[t].run # 0 =>
                  /\ exec'[t].run \notin RunsOf(batch)' \cup RunsOf(told)' \cup lost'
                  /\ \A u \in Schedules : /\ exec'[t].run # completion_status'[u].run
                                          /\ u # t => exec'[t].run # exec'[u].run
  BY <1>1, <1>2, <1>3 DEF Once
<1>5. ASSUME NEW t \in Schedules
      PROVE  completion_status'[t].run # 0 =>
               /\ completion_status'[t].run \notin RunsOf(batch)' \cup RunsOf(told)' \cup lost'
               /\ \A u \in Schedules \ {t} : completion_status'[u].run # completion_status'[t].run
  BY <1>1, <1>2, <1>3 DEF Once
<1>6. \A n \in RunsOf(batch)' \cup RunsOf(told)' \cup lost' : n \in 1..runs'
  BY <1>1, <1>2 DEF Once
<1>7. /\ RunsOf(batch)' \cap (RunsOf(told)' \cup lost') = {} /\ RunsOf(told)' \cap lost' = {}
      /\ ~sending' => batch' = {}
  BY <1>2 DEF Once
<1> QED
  BY <1>4, <1>5, <1>6, <1>7 DEF Once

\* A schedule that is removed or added has no run and no result: the one that waited
\* is lost.
LEMMA OnceUpdate ==
  ASSUME Typed, Once, NEW s \in Schedules,
         completion_status' = [completion_status EXCEPT ![s] = NoResult],
         lost' = lost \cup ({completion_status[s].run} \ {0}),
         UNCHANGED <<batch, sending, told, runs>>,
         \A t \in Schedules : exec'[t].run \in {0, exec[t].run}
  PROVE  Once'
<1>1. /\ runs \in Nat
      /\ \A t \in Schedules : exec[t].run \in Nat /\ completion_status[t].run \in Nat
  BY RunsAreNat
<1>2. UNCHANGED <<RunsOf(batch), RunsOf(told)>>
  BY DEF RunsOf
<1>3. /\ completion_status'[s] = NoResult /\ completion_status'[s].run = 0
      /\ \A t \in Schedules \ {s} : completion_status'[t] = completion_status[t]
  BY DEF Typed, NoResult
<1>4. ASSUME NEW t \in Schedules
      PROVE  /\ exec'[t].run <= runs' /\ completion_status'[t].run <= runs'
             /\ completion_status'[t].run = 0 => completion_status'[t] = NoResult
             /\ exec'[t].run # 0 =>
                  /\ exec'[t].run \notin RunsOf(batch)' \cup RunsOf(told)' \cup lost'
                  /\ \A u \in Schedules : /\ exec'[t].run # completion_status'[u].run
                                          /\ u # t => exec'[t].run # exec'[u].run
  BY <1>1, <1>2, <1>3 DEF Once
<1>5. ASSUME NEW t \in Schedules
      PROVE  completion_status'[t].run # 0 =>
               /\ completion_status'[t].run \notin RunsOf(batch)' \cup RunsOf(told)' \cup lost'
               /\ \A u \in Schedules \ {t} : completion_status'[u].run # completion_status'[t].run
  BY <1>1, <1>2, <1>3 DEF Once
<1>6. \A n \in RunsOf(batch)' \cup RunsOf(told)' \cup lost' : n \in 1..runs'
  BY <1>1, <1>2 DEF Once
<1>7. /\ RunsOf(batch)' \cap (RunsOf(told)' \cup lost') = {} /\ RunsOf(told)' \cap lost' = {}
      /\ ~sending' => batch' = {}
  BY <1>2 DEF Once
<1> QED
  BY <1>4, <1>5, <1>6, <1>7 DEF Once

\* The runs whose results wait in the schedules.
Waits == {completion_status[s].run : s \in Schedules} \ {0}

\* The request takes over the results that wait, and no other.
LEMMA CollectRuns ==
  ASSUME Typed, Once, Collect
  PROVE  /\ batch = {} /\ RunsOf(batch)' = Waits /\ batch' \subseteq ResultType
         /\ completion_status' = [s \in Schedules |-> NoResult]
         /\ UNCHANGED <<plan, exec, status, told, jobs, runs, files, aborted, lost>>
<1> DEFINE results == {completion_status[s] : s \in Schedules} \ {NoResult}
<1>1. /\ ~sending /\ batch' = results /\ completion_status' = [s \in Schedules |-> NoResult]
      /\ UNCHANGED <<plan, exec, status, told, jobs, runs, files, aborted, lost>>
  BY DEF Collect, server, bounds, hist
<1>2. batch = {} /\ results \subseteq ResultType
  BY <1>1 DEF Once, Typed
<1>3. \A s \in Schedules : completion_status[s].run = 0 <=> completion_status[s] = NoResult
  BY DEF Once, NoResult
<1>4. {r.run : r \in results} = Waits
  BY <1>3 DEF Waits
<1> QED
  BY <1>1, <1>2, <1>4 DEF RunsOf

\* So each is still in one place.
LEMMA OnceCollect ==
  ASSUME Typed, Once, Collect
  PROVE  Once'
<1>1. /\ runs \in Nat
      /\ \A t \in Schedules : exec[t].run \in Nat /\ completion_status[t].run \in Nat
  BY RunsAreNat
<1>2. /\ batch = {} /\ RunsOf(batch)' = Waits /\ UNCHANGED <<exec, told, runs, lost, RunsOf(told)>>
      /\ \A t \in Schedules : completion_status'[t] = NoResult /\ completion_status'[t].run = 0
      /\ sending'
  BY CollectRuns DEF RunsOf, NoResult, Collect
<1>3. ASSUME NEW n \in Waits
      PROVE  /\ n \in 1..runs /\ n \notin RunsOf(told) \cup lost
             /\ \A t \in Schedules : exec[t].run # n
  BY <1>1 DEF Waits, Once
<1>4. ASSUME NEW t \in Schedules
      PROVE  /\ exec'[t].run <= runs' /\ completion_status'[t].run <= runs'
             /\ completion_status'[t].run = 0 => completion_status'[t] = NoResult
             /\ exec'[t].run # 0 =>
                  /\ exec'[t].run \notin RunsOf(batch)' \cup RunsOf(told)' \cup lost'
                  /\ \A u \in Schedules : /\ exec'[t].run # completion_status'[u].run
                                          /\ u # t => exec'[t].run # exec'[u].run
  BY <1>1, <1>2, <1>3 DEF Once
<1>5. \A n \in RunsOf(batch)' \cup RunsOf(told)' \cup lost' : n \in 1..runs'
  BY <1>2, <1>3 DEF Once
<1>6. /\ RunsOf(batch)' \cap (RunsOf(told)' \cup lost') = {} /\ RunsOf(told)' \cap lost' = {}
      /\ ~sending' => batch' = {}
  BY <1>2, <1>3 DEF Once
<1> QED
  BY <1>2, <1>4, <1>5, <1>6 DEF Once

\* The request ends: its results are told, or lost.
LEMMA OnceSend ==
  ASSUME Typed, Once, Send
  PROVE  /\ Once' /\ batch' = {} /\ RunsOf(batch)' = {} /\ told' \subseteq ResultType
         /\ \/ RunsOf(told)' = RunsOf(told) \cup RunsOf(batch) /\ UNCHANGED lost
            \/ lost' = lost \cup RunsOf(batch) /\ UNCHANGED RunsOf(told)
<1>1. /\ batch' = {} /\ ~sending' /\ UNCHANGED <<exec, completion_status, runs>>
      /\ \/ told' = told \cup batch /\ UNCHANGED lost
         \/ lost' = lost \cup RunsOf(batch) /\ UNCHANGED told
  BY DEF Send, bounds, RunsOf
<1>2. /\ RunsOf(batch)' = {}
      /\ \/ RunsOf(told)' = RunsOf(told) \cup RunsOf(batch) /\ UNCHANGED lost
         \/ lost' = lost \cup RunsOf(batch) /\ UNCHANGED RunsOf(told)
  BY <1>1 DEF RunsOf
<1>3. RunsOf(batch)' \cup RunsOf(told)' \cup lost' = RunsOf(batch) \cup RunsOf(told) \cup lost
  BY <1>2
<1>4. RunsOf(told)' \cap lost' = {}
  BY <1>2 DEF Once
<1>5. told' \subseteq ResultType
  BY <1>1 DEF Typed
<1>6. Once'
  BY <1>1, <1>2, <1>3, <1>4 DEF Once
<1> QED
  BY <1>1, <1>2, <1>5, <1>6

-----------------------------------------------------------------------------
(* The invariant.                                                            *)

\* The initial states satisfy it.
LEMMA InitIInv == Init => IInv
<1> SUFFICES ASSUME Init PROVE IInv
  OBVIOUS
<1>1. \A s \in Schedules : exec[s] = Waiting /\ status[s] = 0 /\ completion_status[s] = NoResult
  BY DEF Init
<1>2. NoResult \in ResultType /\ NoResult.run = 0
  BY DEF NoResult, ResultType
<1>3. Typed
  BY <1>2, WaitingType DEF Init, Typed
<1>4. Outer
  BY DEF Init, Outer, ServerState, Sleeper
<1>5. Once
  BY <1>1, <1>2, WaitingType DEF Init, Once, RunsOf
<1>6. \A s \in Schedules : Good(s)
  BY <1>1, WaitingType DEF Good, Placed, Shown, Honest, InRun
<1> QED
  BY <1>3, <1>4, <1>5, <1>6 DEF IInv

\* A step of one executor that keeps its runs.
LEMMA OneExecutor ==
  ASSUME IInv, NEW s \in Schedules, NEW e, Becomes(s, e),
         UNCHANGED <<plan, completion_status, batch, told>>
  PROVE  /\ exec' \in [Schedules -> ExecType] /\ exec'[s] = e
         /\ \A t \in Schedules \ {s} : exec'[t] = exec[t]
         /\ Good(s)' /\ (\A t \in Schedules \ {s} : status'[t] = status[t] /\ (t \in aborted' <=> t \in aborted))
              => \A t \in Schedules : Good(t)'
<1>1. /\ exec' \in [Schedules -> ExecType] /\ exec'[s] = e
      /\ \A t \in Schedules \ {s} : exec'[t] = exec[t]
  BY DEF IInv, Typed, Becomes
<1> QED
  BY <1>1, Untouched DEF IInv

\* Triggers, and the server's own moves, leave the executors alone.
LEMMA OutsideStep ==
  ASSUME IInv,
         \/ PowerMoves \/ LockMoves \/ UNCHANGED vars
         \/ \E s \in Schedules : Trigger(s) \/ CronDue(s) \/ CronFire(s)
  PROVE  IInv'
<1>1. UNCHANGED <<plan, exec, status, completion_status, batch, sending, told, jobs, runs, files, aborted, lost>>
  BY DEF PowerMoves, LockMoves, vars, server, report, bounds, hist, Trigger, CronDue, CronFire
<1>2. Typed'
  BY <1>1 DEF IInv, Typed
<1>3. Once'
  BY <1>1, OnceStays DEF IInv
<1>4. \A t \in Schedules : Good(t)'
  BY <1>1, Untouched DEF IInv
<1>5. Outer'
  <2>1. CASE PowerMoves
    <3>1. \E es : Triggered(es)
      BY <2>1 DEF PowerMoves
    <3>2. notifier' \in [Schedules -> BOOLEAN]
      BY <3>1, TriggeredType DEF IInv
    <3> QED
      BY <2>1, <3>2 DEF IInv, Outer, PowerMoves, ServerState
  <2>2. CASE LockMoves \/ UNCHANGED vars
    BY <2>2 DEF IInv, Outer, LockMoves, trigger, vars, server
  <2>3. ASSUME NEW s \in Schedules, Trigger(s) \/ CronDue(s) \/ CronFire(s) PROVE Outer'
    BY <2>3 DEF IInv, Outer, Trigger, CronDue, CronFire, server
  <2> QED
    BY <2>1, <2>2, <2>3
<1> QED
  BY <1>2, <1>3, <1>4, <1>5 DEF IInv

\* An executor that moves outside of the loop, at the start of an action or at its end.
LEMMA MoveStep ==
  ASSUME IInv, NEW s \in Schedules, Wake(s) \/ Check(s) \/ Step(s) \/ Finish(s)
  PROVE  IInv'
<1>1. /\ UNCHANGED <<plan, completion_status, batch, sending, told, jobs, runs, files, lost>>
      /\ UNCHANGED <<power, locked, cron>>
  BY DEF Wake, Check, Step, Finish, server, trigger, report, bounds, hist
<1>2. Good(s)'
  <2>1. CASE Wake(s)
    BY <1>1, <2>1, GotoGood DEF IInv, Wake, hist
  <2>2. CASE Check(s)
    BY <1>1, <2>2, GotoGood DEF IInv, Check, hist
  <2>3. CASE Step(s)
    BY <1>1, <2>3, GotoGood DEF IInv, Step
  <2>4. CASE Finish(s)
    BY <1>1, <2>4, GotoGood DEF IInv, Finish
  <2> QED
    BY <2>1, <2>2, <2>3, <2>4
<1>3. \E from, to \in At : Goto(s, from, to)
  BY DEF Wake, Check, Step, Finish, At
<1>4. PICK e : Becomes(s, e) /\ e.run = exec[s].run
  BY <1>3, GotoBecomes DEF IInv
<1>5. /\ status' \in [Schedules -> Nat]
      /\ \A t \in Schedules \ {s} : status'[t] = status[t] /\ (t \in aborted' <=> t \in aborted)
  <2>1. status \in [Schedules -> Nat] /\ exec[s].step \in Nat
    BY DEF IInv, Typed, ExecType
  <2> QED
    BY <2>1 DEF Wake, Check, Step, Finish, hist
<1>6. /\ exec' \in [Schedules -> ExecType] /\ \A t \in Schedules : exec'[t].run = exec[t].run
      /\ \A t \in Schedules : Good(t)'
  BY <1>1, <1>2, <1>4, <1>5, OneExecutor
<1>7. Typed'
  BY <1>1, <1>5, <1>6 DEF IInv, Typed
<1>8. Once'
  BY <1>1, <1>6, OnceStays DEF IInv
<1>9. Outer'
  BY <1>1 DEF IInv, Outer, Wake, Check, Step, Finish, trigger
<1> QED
  BY <1>6, <1>7, <1>8, <1>9 DEF IInv

\* A run begins.
LEMMA LoadStep ==
  ASSUME IInv, NEW s \in Schedules, Load(s)
  PROVE  IInv'
<1>1. /\ UNCHANGED <<plan, status, completion_status, batch, sending, told, jobs, files, aborted, lost>>
      /\ UNCHANGED <<power, locked, cron, notifier, skip_notifier>> /\ runs' = runs + 1
  BY DEF Load, server, trigger, report, hist
<1>2. PICK e : Becomes(s, e) /\ e.run = runs + 1
  BY LoadGood DEF IInv
<1>3. /\ exec' \in [Schedules -> ExecType] /\ exec'[s].run = runs + 1
      /\ \A t \in Schedules \ {s} : exec'[t] = exec[t]
      /\ \A t \in Schedules : Good(t)'
  BY <1>1, <1>2, OneExecutor, LoadGood DEF IInv
<1>4. Typed'
  BY <1>1, <1>3 DEF IInv, Typed
<1>5. Once'
  BY <1>1, <1>3, OnceLoad DEF IInv
<1>6. Outer'
  BY <1>1 DEF IInv, Outer
<1> QED
  BY <1>3, <1>4, <1>5, <1>6 DEF IInv

\* An action is executed.
LEMMA ActStep ==
  ASSUME IInv, NEW s \in Schedules, Act(s)
  PROVE  IInv'
<1>1. /\ exec[s].at = "act" /\ Acted(s) /\ UNCHANGED outside
      /\ files' \subseteq Files /\ jobs' \subseteq JobType
      /\ power' \in ServerState /\ notifier' \in [Schedules -> BOOLEAN]
  BY ActActs DEF IInv, Good
<1>2. UNCHANGED <<locked, plan, cron, skip_notifier, status, completion_status, batch, sending, told, runs, aborted, lost>>
  BY <1>1 DEF outside, report, bounds, hist
<1>3. \E e : Becomes(s, e) /\ e.run = exec[s].run /\ Good(s)'
  <2>1. ASSUME NEW err \in BOOLEAN, NEW logged \in BOOLEAN, NEW idle \in BOOLEAN, NEW e,
               Returned(s, e, err, logged, idle), Truthful(Here(s).kind, err, logged, idle)
        PROVE  Becomes(s, e) /\ e.run = exec[s].run /\ Good(s)'
    <3>1. \/ err
          \/ /\ Here(s).kind \in Silent \/ ~idle
             /\ Here(s).kind \in Unlogged \/ logged \/ exec[s].step \in exec[s].logged
      BY <2>1 DEF Truthful
    <3>2. Good(s)'
      BY <2>1, <3>1, <1>1, <1>2, ReturnGood DEF IInv
    <3> QED
      BY <2>1, <3>2 DEF Returned
  <2>2. ASSUME NEW logged \in BOOLEAN, NEW e, Awaits(s, e, logged),
               Truthful(Here(s).kind, FALSE, logged, FALSE)
        PROVE  Becomes(s, e) /\ e.run = exec[s].run /\ Good(s)'
    <3>1. Good(s)'
      BY <2>2, <1>1, <1>2, AwaitGood DEF IInv
    <3> QED
      BY <2>2, <3>1 DEF Awaits
  <2> QED
    BY <1>1, <2>1, <2>2 DEF Acted
<1>4. /\ exec' \in [Schedules -> ExecType] /\ \A t \in Schedules : exec'[t].run = exec[t].run
      /\ \A t \in Schedules : Good(t)'
  BY <1>2, <1>3, OneExecutor
<1>5. Typed'
  BY <1>1, <1>2, <1>4 DEF IInv, Typed, JobType
<1>6. Once'
  BY <1>2, <1>4, OnceStays DEF IInv
<1>7. Outer'
  BY <1>1, <1>2 DEF IInv, Outer
<1> QED
  BY <1>4, <1>5, <1>6, <1>7 DEF IInv

\* A spawned task ends, and the executor that waits for it goes on.
LEMMA JobStep ==
  ASSUME IInv, NEW j \in jobs, JobEnds(j)
  PROVE  IInv'
<1>1. /\ UNCHANGED <<power, locked, plan, cron, notifier, skip_notifier, status, completion_status>>
      /\ UNCHANGED <<batch, sending, told, runs, aborted, lost>> /\ jobs' \subseteq jobs
  BY DEF JobEnds, outside, report, bounds, hist
<1>2. j.for \in Schedules /\ j.action \in Actions /\ j.action.to \in Files
  BY DEF IInv, Typed, Actions
<1>3. files' \subseteq Files
  BY <1>2 DEF JobEnds, Effect, IInv, Typed
<1>4. PICK s \in Schedules : s = j.for
  BY <1>2
<1>5. \E end \in {"ok", "error", "panic"} :
        IF exec[s].at = "await" /\ Id(s) = j.id
        THEN Return(s, end = "error", FALSE, end = "error") ELSE UNCHANGED exec
  BY <1>4 DEF JobEnds
<1>6. /\ exec' \in [Schedules -> ExecType] /\ \A t \in Schedules : exec'[t].run = exec[t].run
      /\ \A t \in Schedules : Good(t)'
  <2>1. CASE UNCHANGED exec
    BY <1>1, <2>1, Untouched DEF IInv, Typed
  <2>2. ASSUME NEW bad \in BOOLEAN, exec[s].at = "await", Return(s, bad, FALSE, bad)
        PROVE  /\ exec' \in [Schedules -> ExecType] /\ \A t \in Schedules : exec'[t].run = exec[t].run
               /\ \A t \in Schedules : Good(t)'
    <3>1. exec[s].step \in DOMAIN exec[s].actions /\ Settled(exec[s], exec[s].step)
      BY <2>2 DEF IInv, Good, Placed, Honest, InRun
    <3>2. PICK e : Returned(s, e, bad, FALSE, bad)
      BY <2>2, <3>1, ReturnBecomes DEF IInv
    <3>3. bad \/ (~bad /\ (Here(s).kind \in Unlogged \/ exec[s].step \in exec[s].logged))
      BY <3>1 DEF Settled, Here
    <3>4. Good(s)'
      BY <1>1, <2>2, <3>2, <3>3, ReturnGood DEF IInv
    <3> QED
      BY <1>1, <3>2, <3>4, OneExecutor DEF Returned
  <2>3. UNCHANGED exec \/ \E bad \in BOOLEAN : exec[s].at = "await" /\ Return(s, bad, FALSE, bad)
    <3>1. PICK end \in {"ok", "error", "panic"} :
            IF exec[s].at = "await" /\ Id(s) = j.id
            THEN Return(s, end = "error", FALSE, end = "error") ELSE UNCHANGED exec
      BY <1>5
    <3>2. CASE end = "error"
      <4>1. (end = "error") = TRUE
        BY <3>2
      <4> QED
        BY <3>1, <4>1
    <3>3. CASE end # "error"
      <4>1. (end = "error") = FALSE
        BY <3>3
      <4> QED
        BY <3>1, <4>1
    <3> QED
      BY <3>2, <3>3
  <2> QED
    BY <2>1, <2>2, <2>3
<1>7. Typed'
  BY <1>1, <1>3, <1>6 DEF IInv, Typed
<1>8. Once'
  BY <1>1, <1>6, OnceStays DEF IInv
<1>9. Outer'
  BY <1>1 DEF IInv, Outer
<1> QED
  BY <1>6, <1>7, <1>8, <1>9 DEF IInv

\* A run leaves its result, and the executor waits again.
LEMMA CompleteStep ==
  ASSUME IInv, NEW s \in Schedules, Complete(s)
  PROVE  IInv'
<1> DEFINE r == [run |-> exec[s].run, successful |-> exec[s].successful, errors |-> exec[s].errors]
<1>1. /\ UNCHANGED <<plan, status, batch, sending, told, jobs, runs, files, aborted>>
      /\ UNCHANGED <<power, locked, cron, notifier, skip_notifier>>
      /\ exec[s].at = "complete" /\ exec' = [exec EXCEPT ![s] = Waiting]
      /\ completion_status' = [completion_status EXCEPT ![s] = r]
      /\ lost' = lost \cup ({completion_status[s].run} \ {0})
  BY DEF Complete, server, trigger, report, bounds
<1>2. r \in ResultType /\ r.run = exec[s].run /\ exec[s].run # 0
  BY <1>1 DEF IInv, Typed, ExecType, ResultType, Good, Placed, InRun
<1>3. /\ exec' \in [Schedules -> ExecType] /\ exec'[s].run = 0
      /\ \A t \in Schedules \ {s} : exec'[t] = exec[t]
      /\ completion_status' \in [Schedules -> ResultType]
  BY <1>1, <1>2, WaitingType DEF IInv, Typed
<1>4. Good(s)'
  <2>1. s \notin aborted => status[s] = 0
    BY <1>1 DEF IInv, Good, Shown
  <2>2. status[s] # 0 => plan[s] # NoPlan
    BY DEF IInv, Good, Placed, Present
  <2> QED
    BY <1>1, <2>1, <2>2, WaitsAgain DEF IInv
<1>5. \A t \in Schedules : Good(t)'
  BY <1>1, <1>3, <1>4, Untouched DEF IInv
<1> HIDE DEF r
<1>6. Typed'
  BY <1>1, <1>3 DEF IInv, Typed
<1>7. Once'
  BY <1>1, <1>2, <1>3, OnceComplete DEF IInv
<1>8. Outer'
  BY <1>1 DEF IInv, Outer
<1> QED
  BY <1>5, <1>6, <1>7, <1>8 DEF IInv

\* A run is aborted: its status stays, and the history knows.
LEMMA AbortStep ==
  ASSUME IInv, NEW s \in Schedules, Abort(s)
  PROVE  IInv'
<1>1. /\ UNCHANGED <<plan, status, completion_status, batch, sending, told, jobs, runs, files, lost>>
      /\ UNCHANGED <<power, locked, cron, notifier, skip_notifier>>
      /\ exec' = [exec EXCEPT ![s] = Waiting] /\ plan[s] # NoPlan
      /\ aborted' = IF exec[s].at = "wait" THEN aborted ELSE aborted \cup {s}
  BY DEF Abort, server, trigger, report, Present
<1>2. /\ exec' \in [Schedules -> ExecType] /\ exec'[s].run = 0
      /\ \A t \in Schedules \ {s} : exec'[t] = exec[t]
  BY <1>1, WaitingType DEF IInv, Typed
<1>3. Good(s)'
  <2>1. s \notin aborted' => status[s] = 0
    BY <1>1 DEF IInv, Good, Shown
  <2> QED
    BY <1>1, <2>1, WaitsAgain DEF IInv
<1>4. \A t \in Schedules : Good(t)'
  BY <1>1, <1>2, <1>3, Untouched DEF IInv
<1>5. Typed'
  BY <1>1, <1>2 DEF IInv, Typed
<1>6. Once'
  BY <1>1, <1>2, OnceStays DEF IInv
<1>7. Outer'
  BY <1>1 DEF IInv, Outer
<1> QED
  BY <1>4, <1>5, <1>6, <1>7 DEF IInv

\* The panel changes, adds or removes a schedule.
LEMMA UpdateStep ==
  ASSUME IInv, NEW s \in Schedules, NEW p \in Plans \cup {NoPlan}, Update(s, p)
  PROVE  IInv'
<1>1. /\ UNCHANGED <<power, locked, files, batch, sending, told, jobs, runs>>
      /\ plan' = [plan EXCEPT ![s] = p]
  BY DEF Update, server, report
<1>2. /\ plan' \in [Schedules -> Plans \cup {NoPlan}] /\ plan'[s] = p
      /\ \A t \in Schedules \ {s} : plan'[t] = plan[t]
  BY <1>1 DEF IInv, Typed
<1>3. cron' \in [Schedules -> {"none", "sleep", "due"}]
  <2> DEFINE C(t) == CASE plan'[t] = NoPlan -> "none"
                       [] t \in Present /\ plan'[t] # NoPlan -> Recreated(t, plan'[t])
                       [] OTHER -> Sleeper(plan'[t])
  <2>1. cron' = [t \in Schedules |-> C(t)]
    BY DEF Update
  <2>2. ASSUME NEW t \in Schedules PROVE C(t) \in {"none", "sleep", "due"}
    <3>1. \A q : Sleeper(q) \in {"none", "sleep", "due"}
      BY DEF Sleeper
    <3>2. cron[t] \in {"none", "sleep", "due"}
      BY DEF IInv, Outer
    <3>3. Recreated(t, plan'[t]) \in {"none", "sleep", "due"}
      BY <3>1, <3>2 DEF Recreated
    <3> QED
      BY <3>1, <3>3
  <2> HIDE DEF C
  <2> QED
    BY <2>1, <2>2
<1>4. CASE s \in Present /\ p # NoPlan
  <2>1. UNCHANGED <<notifier, skip_notifier, exec, status, completion_status, aborted, lost>>
    BY <1>4 DEF Update
  <2>2. \A t \in Schedules : Good(t)'
    <3>1. \A t \in Schedules : plan[t] # NoPlan => plan'[t] # NoPlan
      BY <1>2, <1>4
    <3> QED
      BY <2>1, <3>1, Untouched DEF IInv
  <2>3. Typed' /\ Outer'
    BY <1>1, <1>2, <1>3, <2>1 DEF IInv, Typed, Outer
  <2>4. Once'
    BY <1>1, <2>1, OnceStays DEF IInv
  <2> QED
    BY <2>2, <2>3, <2>4 DEF IInv
<1>5. CASE ~(s \in Present /\ p # NoPlan)
  <2>1. /\ notifier' = [notifier EXCEPT ![s] = FALSE]
        /\ skip_notifier' = [skip_notifier EXCEPT ![s] = FALSE]
        /\ exec' = [exec EXCEPT ![s] = Waiting] /\ status' = [status EXCEPT ![s] = 0]
        /\ completion_status' = [completion_status EXCEPT ![s] = NoResult]
        /\ aborted' = aborted \ {s} /\ lost' = lost \cup ({completion_status[s].run} \ {0})
    BY <1>5 DEF Update
  <2>2. /\ exec' \in [Schedules -> ExecType] /\ exec'[s].run = 0
        /\ \A t \in Schedules \ {s} : exec'[t] = exec[t] /\ status'[t] = status[t]
        /\ status' \in [Schedules -> Nat] /\ status'[s] = 0
        /\ completion_status' \in [Schedules -> ResultType]
    <3>1. NoResult \in ResultType
      BY DEF NoResult, ResultType
    <3> QED
      BY <2>1, <3>1, WaitingType DEF IInv, Typed
  <2>3. Good(s)'
    BY <2>1, <2>2, WaitsAgain DEF IInv
  <2>4. \A t \in Schedules : Good(t)'
    BY <1>2, <2>1, <2>2, <2>3, Untouched DEF IInv
  <2>5. Typed' /\ Outer'
    BY <1>1, <1>2, <1>3, <2>1, <2>2 DEF IInv, Typed, Outer
  <2>6. Once'
    BY <1>1, <2>1, <2>2, OnceUpdate DEF IInv
  <2> QED
    BY <2>4, <2>5, <2>6 DEF IInv
<1> QED
  BY <1>4, <1>5

\* The manager's task takes the results and sends them.
LEMMA ManagerStep ==
  ASSUME IInv, Collect \/ Send
  PROVE  IInv'
<1>1. UNCHANGED <<power, locked, cron, notifier, skip_notifier, plan, exec, status, jobs, runs, files, aborted>>
  BY DEF Collect, Send, server, trigger, bounds, hist
<1>2. Outer'
  BY <1>1 DEF IInv, Outer
<1>3. \A t \in Schedules : Good(t)'
  BY <1>1, Untouched DEF IInv
<1>4. Once'
  BY OnceCollect, OnceSend DEF IInv
<1>5. Typed'
  <2>1. CASE Collect
    <3>1. [t \in Schedules |-> NoResult] \in [Schedules -> ResultType]
      BY DEF NoResult, ResultType
    <3> QED
      BY <1>1, <2>1, <3>1, CollectRuns DEF IInv, Typed
  <2>2. CASE Send
    <3>1. batch' = {} /\ told' \subseteq ResultType /\ UNCHANGED completion_status
      BY <2>2, OnceSend DEF IInv, Send
    <3> QED
      BY <1>1, <3>1 DEF IInv, Typed
  <2> QED
    BY <2>1, <2>2
<1> QED
  BY <1>2, <1>3, <1>4, <1>5 DEF IInv

\* The invariant holds throughout.
THEOREM Invariance == Spec => []IInv
<1>1. IInv /\ [Next]_vars => IInv'
  BY OutsideStep, MoveStep, LoadStep, ActStep, JobStep, CompleteStep, AbortStep, UpdateStep, ManagerStep
     DEF Next, Executor
<1> QED
  BY InitIInv, <1>1, PTL DEF Spec

\* TypeOK: every variable stays in its range; an executor's step is one of its actions,
\* and only a schedule that is there has a status.
THEOREM TypeCorrect == Spec => []TypeOK
<1>1. IInv => TypeOK
  <2> SUFFICES ASSUME IInv PROVE TypeOK
    OBVIOUS
  <2>1. /\ power \in ServerState /\ locked \in BOOLEAN /\ files \subseteq Files
        /\ plan \in [Schedules -> Plans \cup {NoPlan}]
        /\ cron \in [Schedules -> {"none", "sleep", "due"}]
        /\ {notifier, skip_notifier} \subseteq [Schedules -> BOOLEAN]
    BY DEF IInv, Typed, Outer
  <2>2. \A s \in Schedules : exec[s].at \in At
    BY DEF IInv, Typed, ExecType
  <2> QED
    BY <2>1, <2>2 DEF TypeOK, IInv, Good, Placed, At
<1> QED
  BY <1>1, Invariance, PTL

\* StatusIsTruthful: the status shows a run exactly while one is under way, through
\* errors, aborts, updates and removals, up to what an abort leaves.
THEOREM StatusIsTruthfulAlways == Spec => []StatusIsTruthful
<1>1. IInv => StatusIsTruthful
  <2> SUFFICES ASSUME IInv, NEW s \in Schedules \ aborted
               PROVE  /\ status[s] # 0 => exec[s].run # 0 /\ exec[s].step \in {status[s], status[s] + 1}
                      /\ exec[s].at \in {"act", "await"} => status[s] = exec[s].step
    BY DEF StatusIsTruthful
  <2>1. status[s] \in Nat /\ exec[s].step \in Nat /\ exec[s].at \in At /\ Placed(s) /\ Shown(s)
    BY DEF IInv, Typed, ExecType, Good
  <2> QED
    BY <2>1 DEF Placed, Shown, InRun, At
<1> QED
  BY <1>1, Invariance, PTL

\* ResultIsHonest: a step that is not among the errors of a run was logged, and is
\* not known to have had no effect (but for the kinds named there), for plans of
\* any length and whatever fails in them.
THEOREM ResultIsHonestAlways == Spec => []ResultIsHonest
<1>1. IInv => ResultIsHonest
  <2> SUFFICES ASSUME IInv, NEW s \in Schedules, exec[s].at \in {"finish", "complete"},
                      NEW i \in 1..exec[s].step \ exec[s].errors, i \in DOMAIN exec[s].actions
               PROVE  Settled(exec[s], i)
    BY DEF ResultIsHonest, Settled
  <2> QED
    BY DEF IInv, Good, Honest, Past, InRun
<1> QED
  BY <1>1, Invariance, PTL

-----------------------------------------------------------------------------
(* The refinement of Delivery.                                               *)

\* The runs of some results that wait, and of some that are sent.
LEMMA RunsUnion ==
  ASSUME NEW f, NEW B, 0 \notin {r.run : r \in B}
  PROVE  {r.run : r \in {f[s] : s \in Schedules} \cup B} \ {0}
           = ({f[s].run : s \in Schedules} \ {0}) \cup {r.run : r \in B}
OBVIOUS

\* What waits for the panel: in the schedules, or in the request.
Pending == Waits \cup RunsOf(batch)

\* A result that is left, with or without one that it replaces: s waits with c, and with
\* x after it.
LEMMA WaitsReplaced ==
  ASSUME Typed, Once, NEW s \in Schedules, NEW r,
         completion_status' = [completion_status EXCEPT ![s] = r]
  PROVE  Waits' = (Waits \ {completion_status[s].run}) \cup ({r.run} \ {0})
<1>1. /\ completion_status'[s] = r
      /\ \A t \in Schedules \ {s} : completion_status'[t] = completion_status[t]
  BY DEF Typed
<1>2. \A t \in Schedules \ {s} : completion_status[t].run \notin {completion_status[s].run} \ {0}
  BY DEF Once
<1>3. ASSUME NEW n \in Waits' PROVE n \in (Waits \ {completion_status[s].run}) \cup ({r.run} \ {0})
  <2>1. PICK t \in Schedules : n = completion_status'[t].run /\ n # 0
    BY DEF Waits
  <2>2. CASE t = s
    BY <2>1, <2>2, <1>1
  <2>3. CASE t # s
    BY <2>1, <2>3, <1>1, <1>2 DEF Waits
  <2> QED
    BY <2>2, <2>3
<1>4. ASSUME NEW n \in (Waits \ {completion_status[s].run}) \cup ({r.run} \ {0}) PROVE n \in Waits'
  <2>1. CASE n \in {r.run} \ {0}
    BY <2>1, <1>1 DEF Waits
  <2>2. CASE n \in Waits \ {completion_status[s].run}
    <3>1. PICK t \in Schedules : n = completion_status[t].run /\ n # 0
      BY <2>2 DEF Waits
    <3>2. t # s /\ n = completion_status'[t].run
      BY <2>2, <3>1, <1>1
    <3> QED
      BY <3>1, <3>2 DEF Waits
  <2> QED
    BY <2>1, <2>2
<1> QED
  BY <1>3, <1>4

\* Each step of the schedules is a step of Delivery on the runs, or none.
LEMMA DeliveryStep ==
  ASSUME IInv, [Next]_vars
  PROVE  \/ UNCHANGED <<Pending, RunsOf(told), lost>>
         \/ /\ RunsOf(told) \subseteq RunsOf(told)' /\ lost \subseteq lost'
            /\ (RunsOf(told)' \ RunsOf(told)) \cap (lost' \ lost) = {}
            /\ (RunsOf(told)' \ RunsOf(told)) \cup (lost' \ lost) = Pending \ Pending'
            /\ (Pending' \ Pending) \cap (RunsOf(told)' \cup lost') = {}
<1> USE DEF IInv
<1>1. CASE UNCHANGED <<completion_status, batch, told, lost>>
  BY <1>1 DEF Pending, Waits, RunsOf
<1>2. ASSUME NEW s \in Schedules, NEW r, completion_status' = [completion_status EXCEPT ![s] = r],
             r.run = 0 \/ r.run \notin RunsOf(told) \cup lost \cup RunsOf(batch) \cup {completion_status[s].run},
             lost' = lost \cup ({completion_status[s].run} \ {0}), UNCHANGED <<batch, told>>
      PROVE  /\ RunsOf(told) \subseteq RunsOf(told)' /\ lost \subseteq lost'
             /\ (RunsOf(told)' \ RunsOf(told)) \cap (lost' \ lost) = {}
             /\ (RunsOf(told)' \ RunsOf(told)) \cup (lost' \ lost) = Pending \ Pending'
             /\ (Pending' \ Pending) \cap (RunsOf(told)' \cup lost') = {}
  <2> DEFINE c == completion_status[s].run
  <2>1. Waits' = (Waits \ {c}) \cup ({r.run} \ {0}) /\ UNCHANGED <<RunsOf(batch), RunsOf(told)>>
    BY <1>2, WaitsReplaced DEF RunsOf
  <2>2. c # 0 => c \in Waits /\ c \notin RunsOf(batch) \cup RunsOf(told) \cup lost
    BY DEF Once, Waits
  <2>3. 0 \notin Waits
    BY DEF Waits
  <2> HIDE DEF c
  <2>4. lost' = lost \cup ({c} \ {0})
    BY <1>2 DEF c
  <2>5. r.run = 0 \/ r.run \notin RunsOf(told) \cup lost \cup RunsOf(batch) \cup {c}
    BY <1>2 DEF c
  <2> QED
    BY <2>1, <2>2, <2>3, <2>4, <2>5 DEF Pending
<1>3. ASSUME NEW s \in Schedules, Complete(s)
      PROVE  /\ RunsOf(told) \subseteq RunsOf(told)' /\ lost \subseteq lost'
             /\ (RunsOf(told)' \ RunsOf(told)) \cap (lost' \ lost) = {}
             /\ (RunsOf(told)' \ RunsOf(told)) \cup (lost' \ lost) = Pending \ Pending'
             /\ (Pending' \ Pending) \cap (RunsOf(told)' \cup lost') = {}
  <2> DEFINE r == [run |-> exec[s].run, successful |-> exec[s].successful, errors |-> exec[s].errors]
  <2>1. /\ completion_status' = [completion_status EXCEPT ![s] = r] /\ r.run = exec[s].run
        /\ lost' = lost \cup ({completion_status[s].run} \ {0}) /\ UNCHANGED <<batch, told>>
    BY <1>3 DEF Complete, report
  <2>2. r.run = 0 \/ r.run \notin RunsOf(told) \cup lost \cup RunsOf(batch) \cup {completion_status[s].run}
    BY <2>1 DEF Once
  <2> HIDE DEF r
  <2> QED
    BY <2>1, <2>2, <1>2
<1>4. ASSUME NEW s \in Schedules, NEW p \in Plans \cup {NoPlan}, Update(s, p),
             ~UNCHANGED <<completion_status, batch, told, lost>>
      PROVE  /\ RunsOf(told) \subseteq RunsOf(told)' /\ lost \subseteq lost'
             /\ (RunsOf(told)' \ RunsOf(told)) \cap (lost' \ lost) = {}
             /\ (RunsOf(told)' \ RunsOf(told)) \cup (lost' \ lost) = Pending \ Pending'
             /\ (Pending' \ Pending) \cap (RunsOf(told)' \cup lost') = {}
  <2>1. /\ completion_status' = [completion_status EXCEPT ![s] = NoResult] /\ NoResult.run = 0
        /\ lost' = lost \cup ({completion_status[s].run} \ {0}) /\ UNCHANGED <<batch, told>>
    BY <1>4 DEF Update, report, NoResult
  <2> QED
    BY <2>1, <1>2
<1>5. CASE Collect
  <2>1. batch = {} /\ RunsOf(batch)' = Waits /\ UNCHANGED <<told, lost>>
        /\ completion_status' = [s \in Schedules |-> NoResult]
    BY <1>5, CollectRuns
  <2>2. Waits' = {} /\ RunsOf(batch) = {}
    BY <2>1 DEF Waits, NoResult, RunsOf
  <2> QED
    BY <2>1, <2>2 DEF Pending, RunsOf
<1>6. CASE Send
  <2>1. /\ RunsOf(batch)' = {} /\ Waits' = Waits
        /\ \/ RunsOf(told)' = RunsOf(told) \cup RunsOf(batch) /\ UNCHANGED lost
           \/ lost' = lost \cup RunsOf(batch) /\ UNCHANGED RunsOf(told)
    BY <1>6, OnceSend DEF Send, Waits
  <2>2. Waits \cap RunsOf(batch) = {} /\ RunsOf(batch) \cap (RunsOf(told) \cup lost) = {}
    BY DEF Once, Waits
  <2>3. Pending \ Pending' = RunsOf(batch) /\ Pending' \subseteq Pending
    BY <2>1, <2>2 DEF Pending
  <2> QED
    BY <2>1, <2>2, <2>3
<1>7. ASSUME NEW j \in jobs, JobEnds(j) PROVE UNCHANGED <<completion_status, batch, told, lost>>
  BY <1>7 DEF JobEnds, outside, report, hist
<1>8. CASE PowerMoves \/ LockMoves \/ UNCHANGED vars
  <2>1. UNCHANGED <<completion_status, batch, told, lost>>
    BY <1>8 DEF PowerMoves, LockMoves, vars, report, hist
  <2> QED
    BY <1>1, <2>1
<1>9. ASSUME NEW s \in Schedules,
             \/ Trigger(s) \/ CronDue(s) \/ CronFire(s) \/ Abort(s)
             \/ Wake(s) \/ Check(s) \/ Load(s) \/ Step(s) \/ Finish(s)
      PROVE  UNCHANGED <<completion_status, batch, told, lost>>
  BY <1>9 DEF Trigger, CronDue, CronFire, Abort, Wake, Check, Load, Step, Finish, report, hist
<1>10. ASSUME NEW s \in Schedules, Act(s) PROVE UNCHANGED <<completion_status, batch, told, lost>>
  <2>1. UNCHANGED outside
    BY <1>10, ActActs DEF Good
  <2> QED
    BY <2>1 DEF outside, report, hist
<1> QED
  BY <1>1, <1>3, <1>4, <1>5, <1>6, <1>7, <1>8, <1>9, <1>10 DEF Next, Executor

\* The report of results implements Delivery: none is told twice or invented, and each
\* one that no longer waits was told once or lost, never both.
THEOREM ReportsRefineDelivery == Spec => Reports!Spec
<1> DEFINE P == {r.run : r \in {completion_status[s] : s \in Schedules} \cup batch} \ {0}
<1>1. IInv => P = Pending
  <2> SUFFICES ASSUME IInv PROVE P = Pending
    OBVIOUS
  <2>1. 0 \notin {r.run : r \in batch}
    BY DEF IInv, Once, RunsOf
  <2> QED
    BY <2>1, RunsUnion DEF Pending, Waits, RunsOf
<1>2. IInv' => P' = Pending'
  <2> SUFFICES ASSUME IInv' PROVE P' = Pending'
    OBVIOUS
  <2>1. 0 \notin {r.run : r \in batch'}
    BY DEF IInv, Once, RunsOf
  <2> QED
    BY <2>1, RunsUnion DEF Pending, Waits, RunsOf
<1>3. Init => Reports!Init
  BY DEF Init, Reports!Init, NoResult
<1>4. IInv /\ IInv' /\ [Next]_vars => [Reports!Next]_Reports!vars
  <2> SUFFICES ASSUME IInv, IInv', [Next]_vars PROVE [Reports!Next]_Reports!vars
    OBVIOUS
  <2>1. P = Pending /\ P' = Pending'
    BY <1>1, <1>2
  <2>2. /\ {r.run : r \in told} = RunsOf(told) /\ {r.run : r \in told'} = RunsOf(told)'
    BY DEF RunsOf
  <2> QED
    BY <2>1, <2>2, DeliveryStep DEF Reports!Next, Reports!vars
<1> QED
  BY <1>3, <1>4, Invariance, PTL DEF Spec, Reports!Spec
===============================================================================
