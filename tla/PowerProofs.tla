------------------------------ MODULE PowerProofs ------------------------------
(***************************************************************************)
(* Proofs about Power, for any clients, any tasks of the monitor, any      *)
(* configuration of the server, and a Docker that may fail.                *)
(***************************************************************************)
EXTENDS Power, WellFoundedInduction, TLAPS

(***************************************************************************)
(* The strengthening.                                                      *)
(*                                                                         *)
(* Remembered: while the monitor can still decide what an exit means, a    *)
(* stop that counts is remembered in `stopping'.                           *)
(*                                                                         *)
(* Until a hazard is met:                                                  *)
(*                                                                         *)
(* Exclusive: one action is inside at a time, and a start that is inside   *)
(* puts the server offline when it fails.                                  *)
(*                                                                         *)
(* Phased: what a start that is inside has made of the container, the slot *)
(* and the monitor so far.                                                 *)
(*                                                                         *)
(* Read: a monitor that reads is that of the container there is, and has   *)
(* no exit to read while that has not exited.                              *)
(*                                                                         *)
(* Attended: a server that is not offline is being started or watched.     *)
(***************************************************************************)
Starting == Inside \ {"signal"}

Remembered ==
  /\ monitor.at \in {"recv", "decide"} /\ asked => stopping
  /\ monitor.at = "crash" => ~asked

Exclusive ==
  \A p \in Tasks : pc[p] \in Inside =>
    /\ \A q \in Tasks : pc[q] \in Inside => q = p
    /\ pc[p] \in Starting => loc[p].old = "offline"

Vacant == container = None /\ monitor = NoMonitor

InPlace ==
  /\ docker.id # None /\ container = docker.id
  /\ monitor.id = docker.id /\ monitor.at = "recv"

Phased(p) ==
  /\ pc[p] = "take_slot" => docker = NoContainer
  /\ pc[p] \in {"prepare", "create"} => Vacant /\ docker = NoContainer
  /\ pc[p] = "install" => Vacant /\ loc[p].id # None /\ docker = [id |-> loc[p].id, status |-> "created"]
  /\ pc[p] \in {"launch", "boot"} => InPlace /\ docker.status = "created"
  /\ pc[p] = "boot" => loc[p].id = docker.id

Read ==
  docker.status \in {"created", "running"} /\ monitor.at = "recv" =>
    /\ monitor.id = docker.id /\ docker.id # None
    /\ \A i \in 1..Len(channel) : channel[i] \notin Exits

Attended == state # "offline" => monitor.at = "recv" \/ \E p \in Tasks : pc[p] \in Starting

Orderly ==
  /\ Exclusive
  /\ \A p \in Tasks : Phased(p)
  /\ Read
  /\ docker.status = "running" => InPlace
  /\ Attended

IInv == TypeOK /\ Remembered /\ (~disturbed => Orderly)


------------------------------------------------------------------------------
(* Docker's ids, and the types. *)

\* A set of naturals that is not empty has a least member.
LEMMA LeastId ==
  ASSUME NEW S, S \subseteq Nat, S # {}
  PROVE  Min(S) \in S
<1> DEFINE Less == {ss \in Nat \X Nat : ss[1] < ss[2]}
<1>1. IsWellFoundedOn(Less, Nat)
  <2>1. OpToRel(<, Nat) = Less
    BY DEF OpToRel
  <2> QED BY <2>1, NatLessThanWellFounded, Zenon
<1>2. \A x, y \in Nat : ~(<<y, x>> \in Less) => x =< y
  OBVIOUS
<1> HIDE DEF Less
<1>3. PICK x \in S : \A y \in S : ~(<<y, x>> \in Less)
  BY <1>1, WFMin, Zenon
<1>4. \A y \in S : x =< y
  BY <1>2, <1>3
<1> QED BY <1>4 DEF Min

\* The id that Create gives a container is one that nobody holds.
LEMMA NewId ==
  ASSUME Unused # {}
  PROVE  Min(Unused) \in Ids /\ Min(Unused) # None
<1>1. Unused \subseteq Ids /\ Ids \subseteq Nat \ {None}
  BY PowerAssumption DEF Unused
<1>2. Unused \subseteq Nat
  BY <1>1
<1> QED BY <1>1, <1>2, LeastId

\* What the calls and the ends of the calls leave in a task is of its type.
LEMMA LocalsTyped ==
  ASSUME TypeOK
  PROVE  /\ Fresh \in Locals /\ container \in Ids \cup {None}
         /\ \A p \in Tasks : loc[p] \in Locals /\ loc[p].id \in Ids \cup {None}
         /\ \A wait \in {"none", "some"} : [Fresh EXCEPT !.wait = wait] \in Locals
         /\ \A id \in Ids \cup {None}, killer, again \in BOOLEAN, wait \in {"none", "some"} :
              /\ [Fresh EXCEPT !.id = id, !.again = again] \in Locals
              /\ [Fresh EXCEPT !.id = id, !.killer = killer, !.again = again] \in Locals
              /\ [op |-> "stop", wait |-> wait, old |-> "offline", id |-> id,
                  killer |-> killer, again |-> again] \in Locals
BY DEF TypeOK, Locals, Fresh, ServerState

\* A call, and what a task goes on with, lead to a label and to typed locals.
LEMMA TaskTyped ==
  ASSUME TypeOK, NEW p \in Tasks, NEW label \in Labels, NEW l \in Locals,
         pc' = [pc EXCEPT ![p] = label], loc' = [loc EXCEPT ![p] = l]
  PROVE  pc' \in [Tasks -> Labels] /\ loc' \in [Tasks -> Locals]
BY DEF TypeOK

LEMMA BeginTyped ==
  ASSUME TypeOK, NEW p \in Tasks, NEW wait \in {"none", "some"}, NEW killer \in BOOLEAN,
         NEW again \in BOOLEAN,
         \/ BeginStart(p, wait) \/ BeginStop(p, wait, killer, again) \/ BeginKill(p, again)
         \/ BeginStopOrKill(p, again) \/ BeginAgain(p) \/ BeginRestart(p, wait, killer)
         \/ Return(p)
  PROVE  pc' \in [Tasks -> Labels] /\ loc' \in [Tasks -> Locals]
<1> USE LocalsTyped
<1>0. {"probe", "mark", "await", "again", "idle"} \subseteq Labels
  BY DEF Labels
<1>1. ASSUME NEW w \in {"none", "some"}, BeginStart(p, w)
      PROVE  pc' \in [Tasks -> Labels] /\ loc' \in [Tasks -> Locals]
  BY <1>0, <1>1, TaskTyped, Zenon DEF BeginStart
<1>2. ASSUME NEW w \in {"none", "some"}, NEW k \in BOOLEAN, NEW a \in BOOLEAN, BeginStop(p, w, k, a)
      PROVE  pc' \in [Tasks -> Labels] /\ loc' \in [Tasks -> Locals]
  BY <1>0, <1>2, TaskTyped, Zenon DEF BeginStop
<1>3. CASE BeginKill(p, again)
  BY <1>0, <1>3, TaskTyped, Zenon DEF BeginKill
<1>4. CASE BeginStopOrKill(p, again)
  <2>1. CASE BeginStop(p, "none", TRUE, again)
    BY <1>2, <2>1
  <2>2. CASE /\ pc' = [pc EXCEPT ![p] = "await"]
             /\ loc' = [loc EXCEPT ![p] = [Fresh EXCEPT !.id = container, !.killer = TRUE,
                                                        !.again = again]]
    BY <1>0, <2>2, TaskTyped, Zenon
  <2> QED BY <1>4, <2>1, <2>2 DEF BeginStopOrKill
<1>5. CASE BeginAgain(p)
  BY <1>0, <1>5 DEF BeginAgain, TypeOK
<1>6. CASE BeginRestart(p, wait, killer)
  BY <1>1, <1>2, <1>5, <1>6 DEF BeginRestart, BeginAgain
<1>7. CASE Return(p)
  BY <1>0, <1>7, TaskTyped, Zenon DEF Return
<1> QED BY <1>1, <1>2, <1>3, <1>4, <1>5, <1>6, <1>7

\* The calls change a task only.
LEMMA CallTyped ==
  ASSUME TypeOK, NEW p \in Tasks,
         \/ \E op \in Ops, wait \in Timeouts : Call(p, op, wait)
         \/ SpawnedStart(p) \/ SpawnedStop(p)
  PROVE  TypeOK'
<1>0. UNCHANGED <<lock, flags, container, monitor, channel, docker, hist>>
  BY DEF Call, SpawnedStart, SpawnedStop
<1>1. pc' \in [Tasks -> Labels] /\ loc' \in [Tasks -> Locals]
  <2>1. ASSUME NEW op \in Ops, NEW wait \in Timeouts, Call(p, op, wait)
        PROVE  pc' \in [Tasks -> Labels] /\ loc' \in [Tasks -> Locals]
    <3>1. op \in Operations /\ wait \in {"none", "some"}
      BY PowerAssumption
    <3>2. \/ BeginStart(p, wait) \/ BeginStop(p, wait, FALSE, FALSE) \/ BeginKill(p, FALSE)
          \/ BeginStopOrKill(p, FALSE) \/ BeginRestart(p, wait, FALSE) \/ BeginRestart(p, wait, TRUE)
      BY <2>1, <3>1 DEF Call, Operations
    <3> QED BY <3>1, <3>2, BeginTyped
  <2>2. CASE SpawnedStart(p)
    BY <2>2, BeginTyped DEF SpawnedStart
  <2>3. CASE SpawnedStop(p)
    BY <2>3, BeginTyped DEF SpawnedStop
  <2> QED BY <2>1, <2>2, <2>3
<1> QED BY <1>0, <1>1 DEF TypeOK, lock, flags, hist

\* What a task does around and inside an action.
LEMMA ActionTyped ==
  ASSUME TypeOK, NEW p \in Tasks,
         \/ Refuse(p) \/ Proceed(p) \/ Wait(p) \/ Waited(p) \/ Enter(p)
         \/ Remove(p) \/ RemoveError(p) \/ TakeSlot(p) \/ Fail(p) \/ Prepare(p) \/ Create(p)
         \/ Install(p) \/ Launch(p) \/ Boot(p)
  PROVE  TypeOK'
<1> USE DEF lock, flags, hist
<1>0. /\ NoMonitor \in Monitors /\ NoContainer \in Containers
      /\ \A id \in Ids : [id |-> id, status |-> "created"] \in Containers
      /\ \A id \in Ids \cup {None} : [id |-> id, at |-> "recv", saw |-> "created"] \in Monitors
  BY DEF NoMonitor, NoContainer, Monitors, Containers, Reports, Exits
<1>1. loc[p] \in Locals /\ loc[p].old \in ServerState /\ loc[p].id \in Ids \cup {None}
  BY DEF TypeOK, Locals
<1>2. \A s \in ServerState, id \in Ids \cup {None} :
        [loc[p] EXCEPT !.old = s] \in Locals /\ [loc[p] EXCEPT !.id = id] \in Locals
  BY <1>1 DEF Locals
<1>3. Return(p) => pc' \in [Tasks -> Labels] /\ loc' \in [Tasks -> Locals]
  BY BeginTyped
<1>4. CASE Refuse(p)
  BY <1>3, <1>4 DEF Refuse, TypeOK
<1>5. CASE Proceed(p) \/ Wait(p)
  <2>1. OldState(p) \in ServerState
    BY <1>1 DEF OldState, TypeOK
  <2>2. loc' = [loc EXCEPT ![p] = [loc[p] EXCEPT !.old = OldState(p)]]
    BY <1>5 DEF Proceed, Wait, TypeOK
  <2>3. loc' \in [Tasks -> Locals]
    BY <1>2, <2>1, <2>2 DEF TypeOK
  <2> QED BY <1>5, <2>3 DEF Proceed, Wait, Goto, TypeOK, Labels
<1>6. CASE Waited(p)
  BY <1>6 DEF Waited, Goto, TypeOK, Labels
<1>7. CASE Enter(p)
  BY <1>7 DEF Enter, Goto, TypeOK, Labels, Inside, ServerState
<1>8. CASE Remove(p) \/ RemoveError(p) \/ TakeSlot(p)
  <2>1. disturbed' \in BOOLEAN
    BY <1>8 DEF Remove, RemoveError, TakeSlot, TypeOK
  <2>2. pc' \in [Tasks -> Labels]
    BY <1>8 DEF Remove, RemoveError, TakeSlot, Goto, TypeOK, Labels, Inside
  <2>3. docker' \in Containers /\ monitor' \in Monitors /\ container' \in Ids \cup {None}
    BY <1>0, <1>8 DEF Remove, RemoveError, TakeSlot, TypeOK
  <2>4. channel' \in Seq(Reports) /\ Len(channel') <= ChannelCap
    <3>1. channel' = <<>> \/ channel' = channel
      BY <1>8 DEF Remove, RemoveError, TakeSlot
    <3>2. CASE channel' = <<>>
      BY <3>2, PowerAssumption
    <3>3. CASE channel' = channel
      BY <3>3 DEF TypeOK
    <3> QED BY <3>1, <3>2, <3>3
  <2> QED BY <1>8, <2>1, <2>2, <2>3, <2>4 DEF Remove, RemoveError, TakeSlot, TypeOK
<1>9. CASE Fail(p)
  BY <1>1, <1>3, <1>9 DEF Fail, Leave, TypeOK
<1>10. CASE Prepare(p)
  BY <1>10 DEF Prepare, Goto, TypeOK, Labels, Inside
<1>11. CASE Create(p)
  <2>1. docker' \in Containers
    BY <1>0, <1>11, NewId DEF Create
  <2>2. CASE Leave(p, FALSE) /\ Return(p)
    BY <1>1, <1>3, <1>11, <2>1, <2>2 DEF Create, Leave, TypeOK
  <2>3. CASE /\ pc' = [pc EXCEPT ![p] = "install"] /\ UNCHANGED lock
             /\ loc' = [loc EXCEPT ![p].id = Min(Unused)]
    <3>1. loc' = [loc EXCEPT ![p] = [loc[p] EXCEPT !.id = Min(Unused)]]
      BY <2>3 DEF TypeOK
    <3>2. loc' \in [Tasks -> Locals]
      BY <1>2, <1>11, <3>1, NewId DEF Create, TypeOK
    <3> QED BY <1>11, <2>1, <2>3, <3>2 DEF Create, TypeOK, Labels, Inside
  <2> QED BY <1>11, <2>2, <2>3 DEF Create
<1>12. CASE Install(p)
  <2>1. monitor' \in Monitors /\ container' \in Ids \cup {None}
    BY <1>0, <1>1, <1>12 DEF Install
  <2>2. channel' \in Seq(Reports) /\ Len(channel') <= ChannelCap
    BY <1>12, PowerAssumption DEF Install
  <2> QED BY <1>12, <2>1, <2>2 DEF Install, Goto, TypeOK, Labels, Inside
<1>13. CASE Launch(p)
  <2>1. CASE Leave(p, TRUE) /\ Return(p)
    BY <1>3, <1>13, <2>1 DEF Launch, Leave, TypeOK
  <2>2. CASE /\ pc' = [pc EXCEPT ![p] = "boot"] /\ UNCHANGED lock
             /\ loc' = [loc EXCEPT ![p].id = container]
    <3>1. loc' = [loc EXCEPT ![p] = [loc[p] EXCEPT !.id = container]]
      BY <2>2 DEF TypeOK
    <3>2. loc' \in [Tasks -> Locals]
      BY <1>2, <3>1 DEF TypeOK
    <3> QED BY <1>13, <2>2, <3>2 DEF Launch, TypeOK, Labels, Inside
  <2> QED BY <1>13, <2>1, <2>2 DEF Launch
<1>14. CASE Boot(p)
  BY <1>3, <1>14 DEF Boot, Leave, TypeOK, Containers, Reports
<1> QED BY <1>4, <1>5, <1>6, <1>7, <1>8, <1>9, <1>10, <1>11, <1>12, <1>13, <1>14

\* What a task does after a stop and in a kill.
LEMMA StopTyped ==
  ASSUME TypeOK, NEW p \in Tasks,
         Signal(p) \/ Awaited(p) \/ Expired(p) \/ Mark(p) \/ Kill(p) \/ Reset(p) \/ Again(p)
  PROVE  TypeOK'
<1> USE DEF lock, flags, hist
<1>1. ASSUME NEW at, AndThen(p, at)
      PROVE  pc' \in [Tasks -> Labels] /\ loc' \in [Tasks -> Locals]
  <2>1. Return(p) => pc' \in [Tasks -> Labels] /\ loc' \in [Tasks -> Locals]
    BY BeginTyped
  <2> QED BY <1>1, <2>1 DEF AndThen, TypeOK, Labels
<1>2. CASE Signal(p)
  BY <1>1, <1>2 DEF Signal, Leave, Heeded, TypeOK
<1>3. CASE Awaited(p)
  BY <1>1, <1>3 DEF Awaited, TypeOK
<1>4. CASE Expired(p)
  <2>1. loc[p].again \in BOOLEAN
    BY DEF TypeOK, Locals
  <2>2. BeginKill(p, loc[p].again) => pc' \in [Tasks -> Labels] /\ loc' \in [Tasks -> Locals]
    BY <2>1, BeginTyped
  <2> QED BY <1>1, <1>4, <2>2 DEF Expired, TypeOK
<1>5. CASE Mark(p)
  BY <1>5 DEF Mark, Goto, Heeded, TypeOK, Labels
<1>6. CASE Kill(p)
  <2>1. docker' \in Containers
    BY <1>6 DEF Kill, TypeOK, Containers, Reports, Exits
  <2>2. pc' \in [Tasks -> Labels] /\ loc' \in [Tasks -> Locals]
    BY <1>1, <1>6 DEF Kill, TypeOK, Labels
  <2> QED BY <1>6, <2>1, <2>2 DEF Kill, TypeOK
<1>7. CASE Reset(p)
  BY <1>1, <1>7 DEF Reset, TypeOK, ServerState
<1>8. CASE Again(p)
  BY <1>8, BeginTyped DEF Again, TypeOK
<1> QED BY <1>2, <1>3, <1>4, <1>5, <1>6, <1>7, <1>8

\* The container, its poller, and the clock.
LEMMA DockerTyped ==
  ASSUME TypeOK, DockerStep \/ Forget \/ FillDisk
  PROVE  TypeOK'
<1> USE DEF lock, flags, hist
<1>1. CASE Started
  BY <1>1 DEF Started, TypeOK, ServerState
<1>2. CASE Forget
  BY <1>2 DEF Forget, TypeOK
<1>3. CASE FillDisk
  BY <1>3 DEF FillDisk, TypeOK
<1>4. ASSUME NEW how \in {"clean", "crashed"}, Exit(how)
      PROVE  TypeOK'
  BY <1>4 DEF Exit, TypeOK, Containers, Reports, Exits
<1>5. ASSUME NEW report \in Reports, Len(channel) < ChannelCap, channel' = Append(channel, report)
      PROVE  channel' \in Seq(Reports) /\ Len(channel') <= ChannelCap
  BY <1>5, PowerAssumption DEF TypeOK
<1>6. CASE InspectError
  BY <1>5, <1>6 DEF InspectError, TypeOK, Reports, Exits
<1>7. ASSUME NEW report \in Reports, Inspect(report)
      PROVE  TypeOK'
  BY <1>5, <1>7 DEF Inspect, TypeOK
<1> QED BY <1>1, <1>2, <1>3, <1>4, <1>6, <1>7 DEF DockerStep

\* The monitor.
LEMMA MonitorTyped ==
  ASSUME TypeOK, MonitorStep
  PROVE  TypeOK'
<1> USE DEF lock, flags, hist
<1>1. /\ NoMonitor \in Monitors /\ NoContainer \in Containers
      /\ \A at \in {"done", "recv", "decide", "crash", "remove", "take"} :
           [monitor EXCEPT !.at = at] \in Monitors
      /\ \A saw \in Reports : [monitor EXCEPT !.at = "decide", !.saw = saw] \in Monitors
  BY DEF NoMonitor, NoContainer, Monitors, Containers, Reports, Exits, TypeOK
<1>2. ASSUME NEW q \in Tasks, NEW at \in {"spawn_start", "spawn_stop"}, Spawn(q, at)
      PROVE  pc' \in [Tasks -> Labels]
  BY <1>2 DEF Spawn, TypeOK, Labels
<1>3. ASSUME NEW q \in Helpers, Receive(q)
      PROVE  TypeOK'
  <2>1. channel' \in Seq(Reports) /\ Len(channel') <= ChannelCap /\ Head(channel) \in Reports
    BY <1>3, PowerAssumption DEF Receive, TypeOK
  <2>2. monitor' \in Monitors /\ state' \in ServerState
    BY <1>1, <1>3, <2>1 DEF Receive, TypeOK, ServerState
  <2>3. pc' \in [Tasks -> Labels]
    BY <1>2, <1>3 DEF Receive, TypeOK, Tasks
  <2> QED BY <1>3, <2>1, <2>2, <2>3 DEF Receive, TypeOK
<1>4. ASSUME NEW q \in Helpers, Decide(q)
      PROVE  TypeOK'
  <2>1. pc' \in [Tasks -> Labels] /\ monitor' \in Monitors
    BY <1>1, <1>2, <1>4 DEF Decide, Ended, TypeOK, Tasks
  <2> QED BY <1>4, <2>1 DEF Decide, TypeOK
<1>5. ASSUME NEW q \in Helpers, Crash(q)
      PROVE  TypeOK'
  <2>1. pc' \in [Tasks -> Labels] /\ monitor' \in Monitors
    BY <1>1, <1>2, <1>5 DEF Crash, Ended, TypeOK, Tasks
  <2> QED BY <1>5, <2>1 DEF Crash, TypeOK
<1>6. CASE RemoveStopped
  BY <1>1, <1>6 DEF RemoveStopped, TypeOK
<1>7. CASE TakeStopped
  <2>1. channel' \in Seq(Reports) /\ Len(channel') <= ChannelCap
    BY <1>7, PowerAssumption DEF TakeStopped
  <2> QED BY <1>1, <1>7, <2>1 DEF TakeStopped, TypeOK
<1> QED BY <1>3, <1>4, <1>5, <1>6, <1>7 DEF MonitorStep

LEMMA TypeStep ==
  ASSUME TypeOK, [Next]_vars
  PROVE  TypeOK'
<1>1. CASE UNCHANGED vars
  BY <1>1 DEF vars, lock, flags, hist, TypeOK
<1>2. CASE Next
  <2>1. Clients \subseteq Tasks /\ Helpers \subseteq Tasks
    BY DEF Tasks
  <2> QED BY <1>2, <2>1, CallTyped, ActionTyped, StopTyped, DockerTyped, MonitorTyped
          DEF Next, TaskStep
<1> QED BY <1>1, <1>2

------------------------------------------------------------------------------
(* A stop that counts is remembered. *)

LEMMA RememberedStep ==
  ASSUME TypeOK, Remembered, [Next]_vars
  PROVE  Remembered'
<1> USE DEF lock, flags, hist
<1>0. asked \in BOOLEAN /\ stopping \in BOOLEAN
  BY DEF TypeOK
<1>1. ASSUME UNCHANGED <<monitor, stopping, asked>>
      PROVE  Remembered'
  BY <1>1 DEF Remembered
<1>2. CASE UNCHANGED vars
  BY <1>1, <1>2 DEF vars
<1>3. ASSUME NEW p \in Tasks, NEW op, NEW wait, Call(p, op, wait)
      PROVE  Remembered'
  BY <1>1, <1>3 DEF Call
<1>4. ASSUME NEW p \in Tasks, SpawnedStart(p) \/ SpawnedStop(p)
      PROVE  Remembered'
  BY <1>1, <1>4 DEF SpawnedStart, SpawnedStop
<1>5. ASSUME NEW p \in Tasks, TaskStep(p)
      PROVE  Remembered'
  <2>1. CASE Refuse(p)
    BY <1>0, <2>1 DEF Refuse, Remembered
  <2>2. CASE Proceed(p) \/ Wait(p) \/ Waited(p) \/ Enter(p) \/ Remove(p) \/ RemoveError(p)
    BY <1>1, <2>2 DEF Proceed, Wait, Waited, Enter, Remove, RemoveError
  <2>3. CASE TakeSlot(p)
    BY <2>3 DEF TakeSlot, Remembered, NoMonitor
  <2>4. CASE Fail(p) \/ Prepare(p) \/ Create(p) \/ Launch(p) \/ Boot(p)
    BY <1>1, <2>4 DEF Fail, Prepare, Create, Launch, Boot
  <2>5. CASE Install(p)
    BY <2>5 DEF Install, Remembered
  <2>6. CASE Signal(p) \/ Mark(p)
    BY <2>6 DEF Signal, Mark, Heeded, Remembered
  <2>7. CASE Awaited(p) \/ Expired(p) \/ Kill(p) \/ Reset(p) \/ Again(p)
    BY <1>1, <2>7 DEF Awaited, Expired, Kill, Reset, Again
  <2> QED BY <1>5, <2>1, <2>2, <2>3, <2>4, <2>5, <2>6, <2>7 DEF TaskStep
<1>6. CASE MonitorStep
  <2> USE DEF TypeOK, Monitors
  <2>1. ASSUME NEW q \in Helpers, Receive(q)
        PROVE  Remembered'
    BY <2>1 DEF Receive, Remembered
  <2>2. ASSUME NEW q \in Helpers, Decide(q)
        PROVE  Remembered'
    BY <2>2 DEF Decide, Ended, Remembered
  <2>3. ASSUME NEW q \in Helpers, Crash(q)
        PROVE  Remembered'
    BY <2>3 DEF Crash, Ended, Remembered
  <2>4. CASE RemoveStopped \/ TakeStopped
    BY <2>4 DEF RemoveStopped, TakeStopped, NoMonitor, Remembered
  <2> QED BY <1>6, <2>1, <2>2, <2>3, <2>4 DEF MonitorStep
<1>7. CASE DockerStep
  BY <1>1, <1>7 DEF DockerStep, Started, InspectError, Exit, Inspect
<1>8. CASE Forget \/ FillDisk
  BY <1>1, <1>8 DEF Forget, FillDisk
<1> QED BY <1>2, <1>3, <1>4, <1>5, <1>6, <1>7, <1>8 DEF Next, Tasks

------------------------------------------------------------------------------
(* Until a hazard is met: the steps outside the actions. *)

\* The tasks that are inside stay where they are, and no other gets inside.
InsideStays ==
  \A q \in Tasks :
    IF pc[q] \in Inside THEN pc'[q] = pc[q] /\ loc'[q] = loc[q] ELSE pc'[q] \notin Inside

LEMMA ExclusiveFrame ==
  ASSUME Exclusive, InsideStays
  PROVE  Exclusive'
BY DEF Exclusive, InsideStays, Starting

LEMMA PhasedFrame ==
  ASSUME InsideStays, UNCHANGED <<container, monitor, docker>>,
         NEW p \in Tasks, Phased(p)
  PROVE  Phased(p)'
<1>1. CASE pc[p] \in Inside
  BY <1>1 DEF InsideStays, Phased, Vacant, InPlace
<1>2. CASE pc[p] \notin Inside
  BY <1>2 DEF InsideStays, Phased, Inside
<1> QED BY <1>1, <1>2

LEMMA AttendedFrame ==
  ASSUME Attended, InsideStays, monitor'.at = monitor.at, state' \in {state, "offline"}
  PROVE  Attended'
BY DEF Attended, InsideStays, Starting

LEMMA OrderlyFrame ==
  ASSUME Orderly, InsideStays, UNCHANGED <<container, monitor, channel, docker>>,
         state' \in {state, "offline"}
  PROVE  Orderly'
<1>1. Exclusive' /\ Attended'
  BY ExclusiveFrame, AttendedFrame DEF Orderly
<1>2. \A p \in Tasks : Phased(p)'
  BY PhasedFrame DEF Orderly
<1>3. Read' /\ (docker.status = "running" => InPlace)'
  BY DEF Orderly, Read, InPlace
<1> QED BY <1>1, <1>2, <1>3 DEF Orderly

\* A task moves from one place outside to another.
LEMMA OutsideStays ==
  ASSUME TypeOK, NEW p \in Tasks, pc[p] \notin Inside, NEW label, label \notin Inside,
         pc' = [pc EXCEPT ![p] = label],
         \A q \in Tasks \ {p} : loc'[q] = loc[q]
  PROVE  InsideStays
BY DEF InsideStays, TypeOK

LEMMA ReturnStays ==
  ASSUME TypeOK, NEW p \in Tasks, pc[p] \notin Inside, Return(p)
  PROVE  InsideStays
BY OutsideStays DEF Return, TypeOK, Inside

LEMMA AndThenStays ==
  ASSUME TypeOK, NEW p \in Tasks, pc[p] \notin Inside, NEW at, AndThen(p, at)
  PROVE  InsideStays
BY OutsideStays, ReturnStays DEF AndThen, Inside

LEMMA BeginStays ==
  ASSUME TypeOK, NEW p \in Tasks, pc[p] \notin Inside, NEW wait, NEW killer, NEW again,
         \/ BeginStart(p, wait) \/ BeginStop(p, wait, killer, again) \/ BeginKill(p, again)
         \/ BeginStopOrKill(p, again) \/ BeginAgain(p) \/ BeginRestart(p, wait, killer)
  PROVE  InsideStays
<1>1. \E label \in {"probe", "mark", "await", "again"} : pc' = [pc EXCEPT ![p] = label]
  BY DEF BeginStart, BeginStop, BeginKill, BeginStopOrKill, BeginAgain, BeginRestart
<1>2. \A q \in Tasks \ {p} : loc'[q] = loc[q]
  BY DEF BeginStart, BeginStop, BeginKill, BeginStopOrKill, BeginAgain, BeginRestart, TypeOK
<1>3. {"probe", "mark", "await", "again"} \cap Inside = {}
  BY DEF Inside
<1> QED BY <1>1, <1>2, <1>3, OutsideStays

\* The calls, the wait for the lock and the kill leave the order as it is.
LEMMA OutsideOrderly ==
  ASSUME TypeOK, Orderly, NEW p \in Tasks,
         \/ \E op \in Ops, wait \in Timeouts : Call(p, op, wait)
         \/ SpawnedStart(p) \/ SpawnedStop(p)
         \/ Refuse(p) \/ Proceed(p) \/ Wait(p) \/ Waited(p)
         \/ Awaited(p) \/ Expired(p) \/ Mark(p) \/ Reset(p) \/ Again(p)
  PROVE  Orderly'
<1> USE DEF lock, flags, hist
<1>1. ASSUME NEW op \in Ops, NEW wait, Call(p, op, wait)
      PROVE  InsideStays
  <2>1. op \in Operations
    BY PowerAssumption
  <2>2. \/ BeginStart(p, wait) \/ BeginStop(p, wait, FALSE, FALSE) \/ BeginKill(p, FALSE)
        \/ BeginStopOrKill(p, FALSE) \/ BeginRestart(p, wait, FALSE) \/ BeginRestart(p, wait, TRUE)
    BY <1>1, <2>1 DEF Call, Operations
  <2>3. pc[p] \notin Inside
    BY <1>1 DEF Call, Inside
  <2> QED BY <2>2, <2>3, BeginStays
<1>2. ASSUME SpawnedStart(p) \/ SpawnedStop(p)
      PROVE  InsideStays
  BY <1>2, BeginStays, ReturnStays DEF SpawnedStart, SpawnedStop, Inside
<1>3. ASSUME Refuse(p) \/ Again(p)
      PROVE  InsideStays
  BY <1>3, ReturnStays DEF Refuse, Again, Inside
<1>4. ASSUME Proceed(p) \/ Wait(p) \/ Waited(p)
      PROVE  InsideStays
  BY <1>4, OutsideStays DEF Proceed, Wait, Waited, Goto, Inside, TypeOK
<1>5. ASSUME Awaited(p) \/ Reset(p)
      PROVE  InsideStays
  BY <1>5, AndThenStays DEF Awaited, Reset, Inside
<1>6. ASSUME Expired(p)
      PROVE  InsideStays
  BY <1>6, AndThenStays, BeginStays DEF Expired, Inside
<1>7. ASSUME Mark(p)
      PROVE  InsideStays
  BY <1>7, OutsideStays DEF Mark, Goto, Inside
<1>8. InsideStays
  BY <1>1, <1>2, <1>3, <1>4, <1>5, <1>6, <1>7
<1>9. UNCHANGED <<container, monitor, channel, docker>> /\ state' \in {state, "offline"}
  BY DEF Call, SpawnedStart, SpawnedStop, Refuse, Proceed, Wait, Waited, Awaited, Expired, Mark,
         Reset, Again
<1> QED BY <1>8, <1>9, OrderlyFrame

------------------------------------------------------------------------------
(* Until a hazard is met: the steps inside an action. *)

\* The task that moves is the only one inside: the others have no phase.
LEMMA AloneInside ==
  ASSUME TypeOK, NEW p \in Tasks, NEW label, pc' = [pc EXCEPT ![p] = label],
         \A q \in Tasks \ {p} : pc[q] \notin Inside,
         label \in Starting => loc'[p].old = "offline"
  PROVE  Exclusive' /\ \A q \in Tasks \ {p} : Phased(q)'
<1>1. pc'[p] = label /\ \A q \in Tasks \ {p} : pc'[q] \notin Inside
  BY DEF TypeOK
<1>2. Exclusive'
  BY <1>1 DEF Exclusive
<1>3. ASSUME NEW q \in Tasks \ {p}
      PROVE  Phased(q)'
  BY <1>1, <1>3 DEF Phased, Inside
<1> QED BY <1>2, <1>3

\* In an orderly state that is so for every task that is inside.
LEMMA Alone ==
  ASSUME TypeOK, Orderly, NEW p \in Tasks, pc[p] \in Inside
  PROVE  /\ \A q \in Tasks \ {p} : pc[q] \notin Inside
         /\ pc[p] \in Starting => loc[p].old = "offline"
BY DEF Orderly, Exclusive

\* A task enters: unless that is a hazard, it is alone, the server of a start was
\* offline, and the monitor will see the exit of the container of a stop.
LEMMA EnterOrderly ==
  ASSUME TypeOK, Orderly, NEW p \in Tasks, Enter(p), ~disturbed'
  PROVE  Orderly'
<1>1. ~HazardousEntry(p) /\ UNCHANGED <<container, monitor, channel, docker, loc>>
  BY DEF Enter
<1>2. \A q \in Tasks : pc[q] \notin Inside
  BY <1>1 DEF HazardousEntry
<1>3. PICK label \in {"remove", "signal"} :
        /\ pc' = [pc EXCEPT ![p] = label]
        /\ label = "remove" <=> loc[p].op = "start"
  BY DEF Enter, Goto
<1>4. label \in Starting => loc'[p].old = "offline"
  BY <1>1, <1>3 DEF HazardousEntry, Starting, Inside
<1>5. Exclusive' /\ \A q \in Tasks \ {p} : Phased(q)'
  BY <1>2, <1>3, <1>4, AloneInside
<1>6. Phased(p)'
  BY <1>3 DEF Phased, TypeOK
<1>7. Attended'
  <2>1. CASE label = "remove"
    BY <1>3, <2>1 DEF Attended, Starting, Inside, TypeOK
  <2>2. CASE label = "signal"
    <3>1. loc[p].op = "stop"
      BY <1>3, <2>2 DEF TypeOK, Locals
    <3> QED BY <1>1, <3>1 DEF HazardousEntry, Attended
  <2> QED BY <2>1, <2>2
<1>8. Read' /\ (docker.status = "running" => InPlace)'
  BY <1>1 DEF Orderly, Read, InPlace
<1> QED BY <1>5, <1>6, <1>7, <1>8 DEF Orderly

\* The container that was there is removed.
LEMMA RemoveOrderly ==
  ASSUME TypeOK, Orderly, NEW p \in Tasks, Remove(p) \/ RemoveError(p), ~disturbed'
  PROVE  Orderly'
<1>1. /\ pc[p] = "remove" /\ pc' = [pc EXCEPT ![p] = "take_slot"]
      /\ UNCHANGED <<lock, container, monitor, channel, loc>> /\ docker' = NoContainer
  BY DEF Remove, RemoveError, Goto
<1>2. Exclusive' /\ \A q \in Tasks \ {p} : Phased(q)'
  BY <1>1, Alone, AloneInside DEF Inside, Starting
<1>3. pc'[p] = "take_slot"
  BY <1>1 DEF TypeOK
<1>4. Phased(p)' /\ Attended'
  BY <1>1, <1>3 DEF Phased, Attended, Starting, Inside
<1>5. Read' /\ (docker.status = "running" => InPlace)'
  BY <1>1 DEF NoContainer, Read
<1> QED BY <1>2, <1>4, <1>5 DEF Orderly

\* The slot is emptied; whatever was met before, a start that is alone begins anew.
LEMMA TakeSlotOrderly ==
  ASSUME TypeOK, NEW p \in Tasks, TakeSlot(p), ~disturbed', ~disturbed => Orderly
  PROVE  Orderly'
<1>1. /\ pc[p] = "take_slot" /\ pc' = [pc EXCEPT ![p] = "prepare"]
      /\ UNCHANGED <<docker, loc>> /\ container' = None /\ monitor' = NoMonitor
  BY DEF TakeSlot, Goto
<1>2. /\ docker = NoContainer /\ loc[p].old = "offline"
      /\ \A q \in Tasks \ {p} : pc[q] \notin Inside
  <2>1. CASE disturbed
    BY <2>1 DEF TakeSlot
  <2>2. CASE ~disturbed
    BY <1>1, <2>2, Alone DEF Orderly, Phased, Inside, Starting
  <2> QED BY <2>1, <2>2
<1>3. Exclusive' /\ \A q \in Tasks \ {p} : Phased(q)'
  BY <1>1, <1>2, AloneInside
<1>4. pc'[p] = "prepare"
  BY <1>1 DEF TypeOK
<1>5. Phased(p)' /\ Attended'
  BY <1>1, <1>2, <1>4 DEF Phased, Vacant, Attended, Starting, Inside
<1>6. Read' /\ (docker.status = "running" => InPlace)'
  BY <1>1, <1>2 DEF NoContainer, Read
<1> QED BY <1>3, <1>5, <1>6 DEF Orderly

\* The start gives up, and puts the server offline.
LEMMA FailOrderly ==
  ASSUME TypeOK, Orderly, NEW p \in Tasks, pc[p] \in Starting, Leave(p, FALSE), Return(p),
         monitor' = monitor, Read', (docker.status = "running" => InPlace)'
  PROVE  Orderly'
<1>1. pc' = [pc EXCEPT ![p] = "idle"] /\ pc'[p] = "idle"
  BY DEF Return, TypeOK
<1>2. state' = "offline"
  BY Alone DEF Leave, Starting
<1>3. Exclusive' /\ \A q \in Tasks \ {p} : Phased(q)'
  BY <1>1, Alone, AloneInside DEF Inside, Starting
<1>4. Phased(p)' /\ Attended'
  BY <1>1, <1>2 DEF Phased, Attended
<1> QED BY <1>3, <1>4 DEF Orderly

\* The container is made, or an attempt to make or attach it fails.
LEMMA CreateOrderly ==
  ASSUME TypeOK, Orderly, NEW p \in Tasks, Fail(p) \/ Prepare(p) \/ Create(p)
  PROVE  Orderly'
<1> USE DEF lock, flags, hist
<1>1. CASE Fail(p)
  BY <1>1, FailOrderly DEF Fail, Starting, Inside, Orderly, Read, InPlace
<1>2. CASE Prepare(p)
  <2>1. pc[p] = "prepare" /\ Vacant /\ docker = NoContainer
    BY <1>2 DEF Prepare, Goto, Orderly, Phased
  <2>2. pc' = [pc EXCEPT ![p] = "create"] /\ pc'[p] = "create"
    BY <1>2, <2>1 DEF Prepare, Goto, Vacant, TypeOK
  <2>3. UNCHANGED <<state, container, monitor, channel, docker, loc>>
    BY <1>2 DEF Prepare
  <2>4. Exclusive' /\ \A q \in Tasks \ {p} : Phased(q)'
    BY <2>1, <2>2, <2>3, Alone, AloneInside DEF Inside, Starting
  <2>5. Phased(p)' /\ Attended'
    BY <2>1, <2>2, <2>3 DEF Phased, Vacant, Attended, Starting, Inside
  <2>6. Read' /\ (docker.status = "running" => InPlace)'
    BY <2>3 DEF Orderly, Read, InPlace
  <2> QED BY <2>4, <2>5, <2>6 DEF Orderly
<1>3. CASE Create(p)
  <2>1. pc[p] = "create" /\ Vacant
    BY <1>3 DEF Create, Orderly, Phased
  <2>2. docker' = [id |-> Min(Unused), status |-> "created"] /\ UNCHANGED <<container, monitor, channel>>
    BY <1>3 DEF Create
  <2>3. Read' /\ (docker.status = "running" => InPlace)'
    BY <2>1, <2>2 DEF Read, Vacant, NoMonitor
  <2>4. CASE Leave(p, FALSE) /\ Return(p)
    BY <2>1, <2>2, <2>3, <2>4, FailOrderly DEF Starting, Inside
  <2>5. CASE /\ pc' = [pc EXCEPT ![p] = "install"] /\ UNCHANGED lock
             /\ loc' = [loc EXCEPT ![p].id = Min(Unused)]
    <3>1. pc'[p] = "install" /\ loc'[p].id = Min(Unused) /\ loc'[p].old = loc[p].old
      BY <2>5 DEF TypeOK, Locals
    <3>2. Exclusive' /\ \A q \in Tasks \ {p} : Phased(q)'
      BY <2>1, <2>5, <3>1, Alone, AloneInside DEF Inside, Starting
    <3>3. Min(Unused) # None
      BY <1>3, NewId DEF Create
    <3>4. Phased(p)'
      BY <2>1, <2>2, <3>1, <3>3 DEF Phased, Vacant
    <3>5. Attended'
      BY <3>1 DEF Attended, Starting, Inside
    <3> QED BY <2>3, <3>2, <3>4, <3>5 DEF Orderly
  <2> QED BY <1>3, <2>4, <2>5 DEF Create
<1> QED BY <1>1, <1>2, <1>3

\* The monitor is put in place, and the container started.
LEMMA StartOrderly ==
  ASSUME TypeOK, Orderly, NEW p \in Tasks, Install(p) \/ Launch(p) \/ Boot(p)
  PROVE  Orderly'
<1> USE DEF lock, flags, hist
<1>1. CASE Install(p)
  <2>1. pc[p] = "install" /\ loc[p].id # None /\ docker = [id |-> loc[p].id, status |-> "created"]
    BY <1>1 DEF Install, Goto, Orderly, Phased
  <2>2. /\ pc' = [pc EXCEPT ![p] = "launch"] /\ UNCHANGED <<state, docker, loc>>
        /\ monitor' = [id |-> loc[p].id, at |-> "recv", saw |-> "created"]
        /\ channel' = <<>> /\ container' = loc[p].id
    BY <1>1 DEF Install, Goto
  <2>3. pc'[p] = "launch" /\ InPlace' /\ docker'.status = "created"
    BY <2>1, <2>2 DEF InPlace, TypeOK
  <2>4. Exclusive' /\ \A q \in Tasks \ {p} : Phased(q)'
    BY <2>1, <2>2, Alone, AloneInside DEF Inside, Starting
  <2>5. Phased(p)' /\ Attended'
    BY <2>2, <2>3 DEF Phased, Attended
  <2>6. Read'
    BY <2>2, <2>3 DEF Read, InPlace
  <2> QED BY <2>3, <2>4, <2>5, <2>6 DEF Orderly
<1>2. CASE Launch(p)
  <2>1. pc[p] = "launch" /\ InPlace /\ docker.status = "created"
    BY <1>2 DEF Launch, Orderly, Phased
  <2>2. /\ pc' = [pc EXCEPT ![p] = "boot"] /\ loc' = [loc EXCEPT ![p].id = container]
        /\ UNCHANGED <<state, container, monitor, channel, docker>>
    BY <1>2, <2>1 DEF Launch, InPlace
  <2>3. pc'[p] = "boot" /\ loc'[p].id = container /\ loc'[p].old = loc[p].old
    BY <2>2 DEF TypeOK, Locals
  <2>4. Exclusive' /\ \A q \in Tasks \ {p} : Phased(q)'
    BY <2>1, <2>2, <2>3, Alone, AloneInside DEF Inside, Starting
  <2>5. Phased(p)' /\ Attended'
    BY <2>1, <2>2, <2>3 DEF Phased, InPlace, Attended
  <2>6. Read' /\ (docker.status = "running" => InPlace)'
    BY <2>1, <2>2 DEF Orderly, Read, InPlace
  <2> QED BY <2>4, <2>5, <2>6 DEF Orderly
<1>3. CASE Boot(p)
  <2>1. pc[p] = "boot" /\ InPlace /\ docker.status = "created"
    BY <1>3 DEF Boot, Orderly, Phased
  <2>2. /\ pc' = [pc EXCEPT ![p] = "idle"] /\ UNCHANGED <<container, monitor, channel>>
        /\ docker' = [docker EXCEPT !.status = "running"]
    BY <1>3 DEF Boot, Return
  <2>3. pc'[p] = "idle" /\ docker'.id = docker.id
    BY <2>2 DEF TypeOK, Containers
  <2>4. InPlace'
    BY <2>1, <2>2, <2>3 DEF InPlace
  <2>5. Exclusive' /\ \A q \in Tasks \ {p} : Phased(q)'
    BY <2>1, <2>2, <2>3, Alone, AloneInside DEF Inside, Starting
  <2>6. Phased(p)' /\ Attended'
    BY <2>3, <2>4 DEF Phased, Attended, InPlace
  <2>7. Read'
    BY <2>1, <2>2, <2>3 DEF Orderly, Read, InPlace
  <2> QED BY <2>4, <2>5, <2>6, <2>7 DEF Orderly
<1> QED BY <1>1, <1>2, <1>3

\* The process is asked to end: the state stays as the stop has set it, or as the
\* monitor has since.
LEMMA SignalOrderly ==
  ASSUME TypeOK, Orderly, NEW p \in Tasks, Signal(p)
  PROVE  Orderly'
<1>1. pc[p] = "signal" /\ UNCHANGED <<state, container, monitor, channel, docker>>
  BY DEF Signal, Leave
<1>2. PICK label \in {"await", "again", "idle"} : pc' = [pc EXCEPT ![p] = label]
  BY DEF Signal, AndThen, Return
<1>3. pc'[p] = label /\ \A q \in Tasks \ {p} : pc'[q] = pc[q]
  BY <1>2 DEF TypeOK
<1>4. Exclusive' /\ \A q \in Tasks \ {p} : Phased(q)'
  BY <1>1, <1>2, Alone, AloneInside DEF Inside, Starting
<1>5. Phased(p)'
  BY <1>3 DEF Phased
<1>6. Attended'
  BY <1>1, <1>3 DEF Orderly, Attended, Starting
<1>7. Read' /\ (docker.status = "running" => InPlace)'
  BY <1>1 DEF Orderly, Read, InPlace
<1> QED BY <1>4, <1>5, <1>6, <1>7 DEF Orderly

------------------------------------------------------------------------------
(* Until a hazard is met: Docker and the monitor. *)

\* A process ends: what runs is in place, so no start is under way with it.
LEMMA ExitOrderly ==
  ASSUME TypeOK, Orderly, InsideStays, NEW how \in {"clean", "crashed"},
         docker.status = "running", docker' = [docker EXCEPT !.status = how],
         UNCHANGED <<state, container, monitor, channel>>
  PROVE  Orderly'
<1>1. docker'.status = how /\ docker # NoContainer
  BY DEF TypeOK, Containers, NoContainer
<1>2. Exclusive' /\ Attended'
  BY ExclusiveFrame, AttendedFrame DEF Orderly
<1>3. ASSUME NEW q \in Tasks
      PROVE  Phased(q)'
  <2>1. pc[q] \notin {"take_slot", "prepare", "create", "install", "launch", "boot"}
    BY <1>1 DEF Orderly, Phased
  <2>2. pc'[q] \notin {"take_slot", "prepare", "create", "install", "launch", "boot"}
    BY <2>1 DEF InsideStays, Inside
  <2> QED BY <2>2 DEF Phased
<1>4. Read' /\ (docker.status = "running" => InPlace)'
  BY <1>1 DEF Read
<1> QED BY <1>2, <1>3, <1>4 DEF Orderly

LEMMA KillOrderly ==
  ASSUME TypeOK, Orderly, NEW p \in Tasks, Kill(p)
  PROVE  Orderly'
<1> USE DEF lock
<1>1. pc[p] \notin Inside /\ UNCHANGED <<state, container, monitor, channel>>
  BY DEF Kill, Inside
<1>2. CASE /\ docker.status = "running" /\ docker' = [docker EXCEPT !.status = "crashed"]
           /\ pc' = [pc EXCEPT ![p] = "reset"] /\ UNCHANGED loc
  <2>1. InsideStays
    BY <1>1, <1>2, OutsideStays DEF Inside
  <2> QED BY <1>1, <1>2, <2>1, ExitOrderly
<1>3. CASE AndThen(p, "kill") /\ UNCHANGED docker
  BY <1>1, <1>3, AndThenStays, OrderlyFrame
<1> QED BY <1>2, <1>3 DEF Kill

LEMMA DockerOrderly ==
  ASSUME TypeOK, Orderly, DockerStep, ~disturbed'
  PROVE  Orderly'
<1> USE DEF lock, flags, hist
<1>0. ASSUME UNCHANGED <<pc, loc>>
      PROVE  InsideStays
  BY <1>0 DEF InsideStays
<1>1. CASE Started
  <2>1. InPlace /\ UNCHANGED <<container, monitor, channel, docker, pc, loc>>
    BY <1>1 DEF Started, Orderly
  <2>2. Exclusive' /\ \A q \in Tasks : Phased(q)'
    BY <1>0, <2>1, ExclusiveFrame, PhasedFrame DEF Orderly
  <2>3. Read' /\ InPlace' /\ Attended'
    BY <2>1 DEF Orderly, Read, InPlace, Attended
  <2> QED BY <2>2, <2>3 DEF Orderly
<1>2. ASSUME NEW how \in {"clean", "crashed"}, Exit(how)
      PROVE  Orderly'
  BY <1>0, <1>2, ExitOrderly DEF Exit
<1>3. ASSUME NEW report \in Reports, Inspect(report)
      PROVE  Orderly'
  <2>1. /\ monitor.at = "recv" /\ channel' = Append(channel, report)
        /\ UNCHANGED <<state, container, monitor, docker, pc, loc>>
    BY <1>3 DEF Inspect
  <2>2. Exclusive' /\ Attended' /\ \A q \in Tasks : Phased(q)'
    BY <1>0, <2>1, ExclusiveFrame, AttendedFrame, PhasedFrame DEF Orderly
  <2>3. (docker.status = "running" => InPlace)'
    BY <2>1 DEF Orderly, InPlace
  <2>4. Read'
    <3>1. SUFFICES ASSUME docker.status \in {"created", "running"}
                   PROVE  Read'
      BY <2>1 DEF Read
    <3>2. /\ monitor.id = docker.id /\ docker.id # None
          /\ \A i \in 1..Len(channel) : channel[i] \notin Exits
      BY <2>1, <3>1 DEF Orderly, Read
    <3>3. report = docker.status /\ report \notin Exits
      BY <1>3, <3>1, <3>2 DEF Inspect, Watched, Exits
    <3>4. channel \in Seq(Reports)
      BY DEF TypeOK
    <3>5. \A i \in 1..Len(channel') : channel'[i] \notin Exits
      BY <2>1, <3>2, <3>3, <3>4
    <3> QED BY <2>1, <3>2, <3>5 DEF Read
  <2> QED BY <2>2, <2>3, <2>4 DEF Orderly
<1>4. ~InspectError
  BY DEF InspectError
<1> QED BY <1>1, <1>2, <1>3, <1>4 DEF DockerStep

\* The monitor does not read, or reads an exit: then nothing runs, and a start
\* that is under way has not come to its own container.
LEMMA ExitHandled ==
  ASSUME TypeOK, Orderly, InsideStays,
         \/ monitor.at \notin {"recv", "done"} /\ state' = state
         \/ docker.status \notin {"created", "running"} /\ monitor.at = "recv" /\ state' = "offline",
         monitor'.at # "recv",
         docker' \in {docker, NoContainer}
  PROVE  Orderly'
<1>1. docker'.status # "running" /\ (monitor.at = "recv" => docker.status # "created")
  BY DEF Orderly, InPlace, NoContainer
<1>2. Exclusive'
  BY ExclusiveFrame DEF Orderly
<1>3. ASSUME NEW q \in Tasks
      PROVE  Phased(q)'
  <2>1. pc[q] \notin {"prepare", "create", "install"}
    BY DEF Orderly, Phased, Vacant, NoMonitor
  <2>2. pc[q] \notin {"launch", "boot"}
    BY <1>1 DEF Orderly, Phased, InPlace
  <2>3. pc'[q] \notin {"prepare", "create", "install", "launch", "boot"}
    BY <2>1, <2>2 DEF InsideStays, Inside
  <2>4. pc'[q] = "take_slot" => docker' = NoContainer
    BY DEF Orderly, Phased, InsideStays, Inside
  <2> QED BY <2>3, <2>4 DEF Phased
<1>4. Attended'
  BY DEF Orderly, Attended, InsideStays, Starting
<1>5. Read'
  BY DEF Read
<1> QED BY <1>1, <1>2, <1>3, <1>4, <1>5 DEF Orderly

LEMMA MonitorOrderly ==
  ASSUME TypeOK, Orderly, MonitorStep
  PROVE  Orderly'
<1> USE DEF lock, flags, hist
<1>0. ASSUME NEW q \in Helpers, NEW label \in {"spawn_start", "spawn_stop"}, UNCHANGED loc,
             Spawn(q, label) \/ UNCHANGED pc
      PROVE  InsideStays
  <2>1. CASE UNCHANGED pc
    BY <1>0, <2>1 DEF InsideStays
  <2>2. CASE Spawn(q, label)
    BY <1>0, <2>2, OutsideStays DEF Spawn, Inside, Tasks
  <2> QED BY <1>0, <2>1, <2>2
<1>2. ASSUME NEW q \in Helpers, Receive(q)
      PROVE  Orderly'
  <2>1. /\ monitor.at = "recv" /\ channel # <<>> /\ channel' = Tail(channel)
        /\ UNCHANGED <<container, docker>> /\ InsideStays
    BY <1>0, <1>2 DEF Receive
  <2>2. channel \in Seq(Reports) /\ Len(channel) > 0 /\ Head(channel) = channel[1]
    BY <2>1 DEF TypeOK
  <2>3. CASE Head(channel) \in Exits
    <3>1. state' = "offline" /\ monitor'.at = "decide"
      BY <1>2, <2>3 DEF Receive, TypeOK, Monitors
    <3>2. docker.status \notin {"created", "running"}
      BY <2>1, <2>2, <2>3 DEF Orderly, Read
    <3> QED BY <2>1, <3>1, <3>2, ExitHandled
  <2>4. CASE Head(channel) \notin Exits
    <3>1. UNCHANGED monitor
      BY <1>2, <2>4 DEF Receive
    <3>2. Exclusive' /\ \A p \in Tasks : Phased(p)'
      BY <2>1, <3>1, ExclusiveFrame, PhasedFrame DEF Orderly
    <3>3. Attended' /\ (docker.status = "running" => InPlace)'
      BY <2>1, <3>1 DEF Orderly, Attended, InPlace
    <3>4. Len(channel') = Len(channel) - 1 /\ \A i \in 1..Len(channel') : channel'[i] = channel[i + 1]
      BY <2>1, <2>2
    <3>5. Read'
      BY <2>1, <2>2, <3>1, <3>4 DEF Orderly, Read
    <3> QED BY <3>2, <3>3, <3>5 DEF Orderly
  <2> QED BY <2>3, <2>4
<1>3. ASSUME NEW q \in Helpers, Decide(q)
      PROVE  Orderly'
  <2>1. InsideStays /\ monitor.at = "decide" /\ UNCHANGED <<state, docker>>
    BY <1>0, <1>3 DEF Decide
  <2>2. monitor'.at # "recv"
    BY <1>3 DEF Decide, Ended, TypeOK, Monitors
  <2> QED BY <2>1, <2>2, ExitHandled
<1>4. ASSUME NEW q \in Helpers, Crash(q)
      PROVE  Orderly'
  <2>1. InsideStays /\ monitor.at = "crash" /\ UNCHANGED <<state, docker>>
    BY <1>0, <1>4 DEF Crash
  <2>2. monitor'.at # "recv"
    BY <1>4 DEF Crash, Ended, TypeOK, Monitors
  <2> QED BY <2>1, <2>2, ExitHandled
<1>5. CASE RemoveStopped \/ TakeStopped
  <2>1. InsideStays
    BY <1>5 DEF RemoveStopped, TakeStopped, InsideStays
  <2>2. monitor'.at # "recv"
    BY <1>5 DEF RemoveStopped, TakeStopped, NoMonitor, TypeOK, Monitors
  <2>3. monitor.at \notin {"recv", "done"} /\ state' = state /\ docker' \in {docker, NoContainer}
    BY <1>5 DEF RemoveStopped, TakeStopped
  <2> QED BY <2>1, <2>2, <2>3, ExitHandled
<1> QED BY <1>2, <1>3, <1>4, <1>5 DEF MonitorStep

------------------------------------------------------------------------------
(* The theorems. *)

\* Only a start that empties the slot mends what a hazard has broken.
LEMMA MendedByStart ==
  ASSUME TypeOK, [Next]_vars, disturbed, ~disturbed'
  PROVE  \E p \in Tasks : TakeSlot(p)
<1> USE DEF lock, flags, hist
<1>1. ~UNCHANGED disturbed
  OBVIOUS
<1>2. ASSUME NEW p \in Tasks, TaskStep(p)
      PROVE  TakeSlot(p)
  <2>1. ~(Refuse(p) \/ Proceed(p) \/ Wait(p) \/ Waited(p) \/ Remove(p) \/ Fail(p) \/ Prepare(p))
    BY <1>1 DEF Refuse, Proceed, Wait, Waited, Remove, Fail, Prepare
  <2>2. ~(Create(p) \/ Install(p) \/ Launch(p) \/ Boot(p) \/ Signal(p) \/ Awaited(p) \/ Expired(p))
    BY <1>1 DEF Create, Install, Launch, Boot, Signal, Awaited, Expired
  <2>3. ~(Mark(p) \/ Kill(p) \/ Reset(p) \/ Again(p))
    BY <1>1 DEF Mark, Kill, Reset, Again
  <2>4. ~(Enter(p) \/ RemoveError(p))
    BY DEF Enter, RemoveError
  <2> QED BY <1>2, <2>1, <2>2, <2>3, <2>4 DEF TaskStep
<1>3. ~UNCHANGED vars /\ ~Forget /\ ~FillDisk
  BY <1>1 DEF vars, Forget, FillDisk
<1>4. ~DockerStep
  BY <1>1 DEF DockerStep, Started, InspectError, Exit, Inspect
<1>5. ~MonitorStep
  BY <1>1 DEF MonitorStep, Receive, Decide, Crash, RemoveStopped, TakeStopped
<1>6. /\ ~\E p \in Clients, op \in Ops, wait \in Timeouts : Call(p, op, wait)
      /\ ~\E q \in Helpers : SpawnedStart(q) \/ SpawnedStop(q)
  BY <1>1 DEF Call, SpawnedStart, SpawnedStop
<1> QED BY <1>2, <1>3, <1>4, <1>5, <1>6 DEF Next

LEMMA OrderlyStep ==
  ASSUME TypeOK, [Next]_vars, ~disturbed => Orderly, ~disturbed'
  PROVE  Orderly'
<1> USE DEF lock, flags, hist
<1>1. CASE disturbed
  BY <1>1, MendedByStart, TakeSlotOrderly
<1>2. CASE ~disturbed
  <2>0. Orderly
    BY <1>2
  <2>1. CASE UNCHANGED vars \/ Forget \/ FillDisk
    <3>1. UNCHANGED <<state, container, monitor, channel, docker, pc, loc>>
      BY <2>1 DEF vars, Forget, FillDisk
    <3>2. InsideStays
      BY <3>1 DEF InsideStays
    <3> QED BY <2>0, <3>1, <3>2, OrderlyFrame
  <2>2. CASE (\E p \in Clients, op \in Ops, wait \in Timeouts : Call(p, op, wait))
    BY <2>0, <2>2, OutsideOrderly DEF Tasks
  <2>3. CASE \E q \in Helpers : SpawnedStart(q) \/ SpawnedStop(q)
    BY <2>0, <2>3, OutsideOrderly DEF Tasks
  <2>4. ASSUME NEW p \in Tasks, TaskStep(p)
        PROVE  Orderly'
    BY <2>0, <2>4, OutsideOrderly, EnterOrderly, RemoveOrderly, TakeSlotOrderly, CreateOrderly,
       StartOrderly, SignalOrderly, KillOrderly DEF TaskStep
  <2>5. CASE MonitorStep
    BY <2>0, <2>5, MonitorOrderly
  <2>6. CASE DockerStep
    BY <2>0, <2>6, DockerOrderly
  <2> QED BY <2>1, <2>2, <2>3, <2>4, <2>5, <2>6 DEF Next
<1> QED BY <1>1, <1>2

LEMMA InitIInv == Init => IInv
<1> SUFFICES ASSUME Init PROVE IInv
  OBVIOUS
<1>1. TypeOK
  <2>1. NoMonitor \in Monitors /\ NoContainer \in Containers /\ Fresh \in Locals
    BY DEF NoMonitor, NoContainer, Monitors, Containers, Reports, Exits, Fresh, Locals, ServerState
  <2>2. channel \in Seq(Reports) /\ Len(channel) <= ChannelCap
    BY PowerAssumption DEF Init
  <2> QED BY <2>1, <2>2 DEF Init, TypeOK, ServerState, Labels
<1>2. Remembered
  BY DEF Init, Remembered
<1>3. Orderly
  <2>1. \A p \in Tasks : pc[p] = "idle"
    BY DEF Init
  <2>2. Exclusive /\ \A p \in Tasks : Phased(p)
    BY <2>1 DEF Exclusive, Phased, Inside
  <2>3. docker.status = "gone" /\ monitor.at = "done" /\ state = "offline"
    BY DEF Init, NoContainer, NoMonitor
  <2> QED BY <2>2, <2>3 DEF Orderly, Read, Attended
<1> QED BY <1>1, <1>2, <1>3 DEF IInv

\* The strengthening is an invariant: of start, stop and kill as they interleave
\* with each other, with the monitor and with Docker.
THEOREM Invariance == Spec => []IInv
<1>1. IInv /\ [Next]_vars => IInv'
  BY TypeStep, RememberedStep, OrderlyStep DEF IInv
<1> QED BY <1>1, InitIInv, PTL DEF Spec

\* Every variable of the power actions stays in its range, and the update channel
\* within its capacity.
THEOREM TypeCorrect == Spec => []TypeOK
<1>1. IInv => TypeOK
  BY DEF IInv
<1> QED BY <1>1, Invariance, PTL

\* An exit that a stop or a kill asked for is never taken for a crash.
THEOREM AskedStopIsNoCrashAlways == Spec => []AskedStopIsNoCrash
<1>1. IInv => AskedStopIsNoCrash
  BY DEF IInv, Remembered, AskedStopIsNoCrash
<1> QED BY <1>1, Invariance, PTL

\* Unless one of the five hazards was met, a container that runs is the one in the
\* slot, and its monitor is reading.
THEOREM RunningIsWatchedAlways == Spec => []RunningIsWatched
<1>1. IInv => RunningIsWatched
  BY DEF IInv, Orderly, InPlace, RunningIsWatched
<1> QED BY <1>1, Invariance, PTL

\* Unless one of the five hazards was met, a server that nobody attends to any
\* more is offline, and nothing runs.
THEOREM StateIsTruthfulAlways == Spec => []StateIsTruthful
<1>1. IInv => StateIsTruthful
  <2>1. SUFFICES ASSUME IInv, Unattended, ~disturbed
                 PROVE  state = "offline" /\ docker.status # "running"
    BY DEF StateIsTruthful
  <2>2. Orderly
    BY <2>1 DEF IInv
  <2> QED BY <2>1, <2>2 DEF Orderly, Attended, InPlace, Unattended, Starting, Inside
<1> QED BY <1>1, Invariance, PTL
===============================================================================
