------------------------------ MODULE StateLock ------------------------------
(***************************************************************************)
(* ServerStateLock (application/src/server/state.rs): the power state of a *)
(* game server, an AtomicU8, and the `locked' flag, an AtomicBool, that    *)
(* execute_action uses to keep power actions apart.                        *)
(*                                                                         *)
(* Callers are the tasks that run execute_action (Server::start and        *)
(* Server::stop).  Observers are the tasks that call set_state without the *)
(* lock (the container monitor, the console reader, reset_state).  The     *)
(* runtime is multi-threaded, so the load of `locked' and the store that   *)
(* raises it, and the store and the send of set_state, are separate steps. *)
(* The definitions named ..._BUG are plausible mistakes in the code; no    *)
(* specification uses them (PROJECT.json, "mutants").                      *)
(***************************************************************************)
EXTENDS Naturals, FiniteSets

CONSTANTS Callers,    \* tasks that run execute_action
          Observers,  \* tasks that call set_state directly
          Timeouts,   \* the values of aquire_timeout, see WaitTimes
          NoState     \* "no state yet"

\* The values From<u8> accepts; on any other it panics.
ServerState == {"offline", "starting", "stopping", "running"}

\* aquire_timeout: None, Some(0) (a request's wait_seconds may be 0), Some(t).
WaitTimes == {"none", "zero", "some"}

ASSUME StateLockAssumption ==
  /\ Callers \cap Observers = {}
  /\ Timeouts \subseteq WaitTimes
  /\ NoState \notin ServerState

Procs == Callers \cup Observers

VARIABLES
  state,      \* ServerStateLock.state
  locked,     \* ServerStateLock.locked
  pc,         \* the program point of each task
  phase,      \* "store": set_state has not stored; "send": it has yet to send
  loc,        \* the locals of each task, see Locals
  status,     \* the last ServerStatus message sent on the websocket channel
  overlapped  \* history: two set_state calls have run side by side

lockVars == <<state, locked, pc, phase, loc, status, overlapped>>

(***************************************************************************)
(* Program points.  "set", "revert" and "observe" are the calls of         *)
(* set_state: with the requested state, with old_state after a failed      *)
(* action, and by an observer.                                             *)
(***************************************************************************)
Inside    == {"set", "run", "unlock", "revert", "fail"}
SetPoints == {"set", "revert", "observe"}
After(l)  == CASE l = "set" -> "run" [] l = "revert" -> "fail" [] OTHER -> "idle"
Phases    == {"store", "send"}
ProgramPoints == {"idle", "probe", "poll", "take", "observe"} \cup Inside

(***************************************************************************)
(* target: the argument of set_state; old: old_state; wait: the argument   *)
(* aquire_timeout; aquired: the flag handed to the action.                 *)
(***************************************************************************)
Locals == [target : ServerState, old : ServerState, wait : WaitTimes,
           aquired : BOOLEAN]

FreshLocals == [target |-> "offline", old |-> "offline", wait |-> "none",
                aquired |-> FALSE]

LockInit ==
  /\ state = "offline"
  /\ locked = FALSE
  /\ pc = [p \in Procs |-> "idle"]
  /\ phase = [p \in Procs |-> "store"]
  /\ loc = [p \in Procs |-> FreshLocals]
  /\ status = NoState
  /\ overlapped = FALSE

Goto(p, from, to) == pc[p] = from /\ pc' = [pc EXCEPT ![p] = to]

------------------------------------------------------------------------------
(* execute_action *)

\* The call; old_state is read first.
Call(p, s, wait) ==
  /\ Goto(p, "idle", "probe")
  /\ loc' = [loc EXCEPT ![p] = [FreshLocals EXCEPT !.target = s, !.old = state, !.wait = wait]]
  /\ UNCHANGED <<state, locked, phase, status, overlapped>>

\* `locked' is seen clear.  Only the polling loop records it in `aquired'.
ProbeFree(p) ==
  /\ pc[p] \in {"probe", "poll"}
  /\ loc[p].wait # "zero"
  /\ ~locked
  /\ pc' = [pc EXCEPT ![p] = "take"]
  /\ loc' = [loc EXCEPT ![p].aquired = (loc[p].wait = "some")]
  /\ UNCHANGED <<state, locked, phase, status, overlapped>>

\* Without a timeout a raised flag is an immediate Ok(false).
ProbeRefused(p) ==
  /\ Goto(p, "probe", "idle")
  /\ loc[p].wait = "none"
  /\ locked
  /\ loc' = [loc EXCEPT ![p] = FreshLocals]
  /\ UNCHANGED <<state, locked, phase, status, overlapped>>

\* With a timeout a raised flag is polled every 100 ms.
ProbeBusy(p) ==
  /\ Goto(p, "probe", "poll")
  /\ loc[p].wait = "some"
  /\ locked
  /\ UNCHANGED <<state, locked, phase, loc, status, overlapped>>

\* When the time is up the polling loop ends (with a timeout of 0 it never
\* starts) and control falls through to the store that raises `locked', with
\* `aquired' still false.
ProbeExpired(p) ==
  /\ \/ pc[p] = "poll"
     \/ pc[p] = "probe" /\ loc[p].wait = "zero"
  /\ pc' = [pc EXCEPT ![p] = "take"]
  /\ UNCHANGED <<state, locked, phase, loc, status, overlapped>>

Take(p) ==
  /\ Goto(p, "take", "set")
  /\ locked' = TRUE
  /\ UNCHANGED <<state, phase, loc, status, overlapped>>

\* The action's future completes; after Ok no local is read again.
ActionOk(p) ==
  /\ Goto(p, "run", "unlock")
  /\ loc' = [loc EXCEPT ![p] = FreshLocals]
  /\ UNCHANGED <<state, locked, phase, status, overlapped>>

ActionErr(p) ==
  /\ Goto(p, "run", "revert")
  /\ loc' = [loc EXCEPT ![p].target = loc[p].old]
  /\ UNCHANGED <<state, locked, phase, status, overlapped>>

\* The end of execute_action: the flag is cleared and the call returns.
Release(p, from) ==
  /\ Goto(p, from, "idle")
  /\ locked' = FALSE
  /\ loc' = [loc EXCEPT ![p] = FreshLocals]
  /\ UNCHANGED <<state, phase, status, overlapped>>

\* Ok(true)
ReleaseOk(p) == Release(p, "unlock")

ReleaseErr_BUG(p) ==
  /\ Goto(p, "fail", "idle")
  /\ loc' = [loc EXCEPT ![p] = FreshLocals]
  /\ UNCHANGED <<state, locked, phase, status, overlapped>>

\* Err, after the state was put back
ReleaseErr(p) == Release(p, "fail")

------------------------------------------------------------------------------
(* set_state *)

\* An observer calls set_state.
Observe(p, s) ==
  /\ Goto(p, "idle", "observe")
  /\ loc' = [loc EXCEPT ![p].target = s]
  /\ UNCHANGED <<state, locked, phase, status, overlapped>>

\* set_state returns; its argument is dead from here on.
Finish(p) ==
  /\ pc' = [pc EXCEPT ![p] = After(pc[p])]
  /\ loc' = [loc EXCEPT ![p].target = "offline"]

\* Nothing to do when the state is already the requested one.
SetSame(p) ==
  /\ pc[p] \in SetPoints
  /\ phase[p] = "store"
  /\ state = loc[p].target
  /\ Finish(p)
  /\ UNCHANGED <<state, locked, phase, status, overlapped>>

\* The store.  Between it and the send set_state awaits the schedule manager
\* (execute_server_state_trigger), so other tasks may run in between.
SetStore(p) ==
  /\ pc[p] \in SetPoints
  /\ phase[p] = "store"
  /\ state # loc[p].target
  /\ state' = loc[p].target
  /\ phase' = [phase EXCEPT ![p] = "send"]
  /\ overlapped' = (overlapped \/ \E q \in Procs : phase[q] # "store")
  /\ UNCHANGED <<locked, pc, loc, status>>

SetSend_BUG(p) ==
  /\ phase[p] = "send"
  /\ phase' = [phase EXCEPT ![p] = "store"]
  /\ Finish(p)
  /\ UNCHANGED <<state, locked, status, overlapped>>

SetSend(p) ==
  /\ phase[p] = "send"
  /\ status' = loc[p].target
  /\ phase' = [phase EXCEPT ![p] = "store"]
  /\ Finish(p)
  /\ UNCHANGED <<state, locked, overlapped>>

SetState(p) == SetSame(p) \/ SetStore(p) \/ SetSend(p)

------------------------------------------------------------------------------
\* What a caller does by itself once it has called execute_action.
Advance(p) ==
  \/ ProbeFree(p) \/ ProbeRefused(p) \/ ProbeBusy(p) \/ ProbeExpired(p) \/ Take(p)
  \/ ActionOk(p) \/ ActionErr(p) \/ ReleaseOk(p) \/ ReleaseErr(p)

LockNext ==
  \/ \E p \in Callers :
       \/ \E s \in {"starting", "stopping"}, wait \in Timeouts : Call(p, s, wait)
       \/ Advance(p)
  \/ \E p \in Observers, s \in {"offline", "running"} : Observe(p, s)
  \/ \E p \in Procs : SetState(p)

LockSpec == LockInit /\ [][LockNext]_lockVars

------------------------------------------------------------------------------
(* Properties *)

\* Every variable stays in its range.
LockTypeOK ==
  /\ state \in ServerState
  /\ locked \in BOOLEAN
  /\ pc \in [Procs -> ProgramPoints]
  /\ phase \in [Procs -> Phases]
  /\ loc \in [Procs -> Locals]
  /\ status \in ServerState \cup {NoState}
  /\ overlapped \in BOOLEAN

\* The flag never outlives the actions it protects: whenever `locked' is
\* raised some caller is still between its store(true) and its store(false),
\* so failed and overlapping actions cannot leave behind a server that refuses
\* every later power action.
LockIsHeld == locked => \E p \in Callers : pc[p] \in Inside

\* The last ServerStatus message differs from the state only while a set_state
\* has yet to send its message, or after two set_state calls ran side by side
\* (the store, the await and the send of set_state are not one step).
StatusFollowsState ==
  \/ status = state
  \/ overlapped
  \/ status = NoState /\ state = "offline"
  \/ \E p \in Procs : phase[p] # "store" /\ loc[p].target = state
=============================================================================
