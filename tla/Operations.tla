----------------------------- MODULE Operations -----------------------------
(***************************************************************************)
(* Filesystem operations of a server and the pulls built on them:          *)
(* OperationManager (application/src/server/filesystem/operations.rs), the *)
(* `pulls' map of Filesystem, Download::start and the routes that create   *)
(* and delete a pull.                                                      *)
(*                                                                         *)
(* A request r creates at most one pull, so r also names its operation (a  *)
(* fresh uuid in the code).  Each map is behind an RwLock of its own; a    *)
(* step is what happens under one lock.                                    *)
(***************************************************************************)
EXTENDS Naturals, FiniteSets

CONSTANTS Requests,  \* POST requests on the pull route
          Limit      \* api.server_remote_download_limit

ASSUME OperationsAssumption == IsFiniteSet(Requests) /\ Limit \in Nat

VARIABLES
  at,          \* how far the handler of each request is
  task,        \* the task add_operation spawned for it
  told,        \* requests whose abort_sender was used or dropped
  operations,  \* OperationManager::operations
  pulls,       \* Filesystem::pulls
  deleting     \* pulls whose DELETE has yet to update `pulls'

operationsVars == <<at, task, told, operations, pulls, deleting>>

Points == {"new", "create", "insert", "pull", "answered", "refused", "dropped"}
Stages == {"none", "running", "ending", "ended"}

OperationsInit ==
  /\ at = [r \in Requests |-> "new"]
  /\ task = [r \in Requests |-> "none"]
  /\ told = {}
  /\ operations = {}
  /\ pulls = {}
  /\ deleting = {}

Move(r, from, to) == at[r] = from /\ at' = [at EXCEPT ![r] = to]
Ends(r, from, to) == task[r] = from /\ task' = [task EXCEPT ![r] = to]

------------------------------------------------------------------------------
(* The POST handler. *)

\* Filesystem::pulls forgets the pulls whose operation is over, unless
\* somebody holds the lock (try_write).
Swept == {pulls, pulls \cap operations}

\* The number of pulls is compared with the limit ...
Check(r) ==
  /\ \E kept \in Swept :
       /\ pulls' = kept
       /\ Move(r, "new", IF Cardinality(kept) >= Limit THEN "refused" ELSE "create")
  /\ UNCHANGED <<task, told, operations, deleting>>

\* ... then the download is requested, which may fail ...
CreateFails(r) ==
  /\ Move(r, "create", "refused")
  /\ UNCHANGED <<task, told, operations, pulls, deleting>>

\* ... add_operation spawns its task ...
Create(r) ==
  /\ Move(r, "create", "insert")
  /\ Ends(r, "none", "running")
  /\ UNCHANGED <<told, operations, pulls, deleting>>

Insert_BUG(r) ==
  /\ Move(r, "insert", "pull")
  /\ UNCHANGED <<task, told, operations, pulls, deleting>>

\* ... and only then enters the operation in the map ...
Insert(r) ==
  /\ Move(r, "insert", "pull")
  /\ operations' = operations \cup {r}
  /\ UNCHANGED <<task, told, pulls, deleting>>

\* ... and the handler its pull.
InsertPull(r) ==
  /\ Move(r, "pull", "answered")
  /\ pulls' = pulls \cup {r}
  /\ UNCHANGED <<task, told, operations, deleting>>

\* The client goes away: the handler's future is dropped, and with it an
\* abort_sender that is not in the map yet.
Disconnect(r) ==
  /\ at[r] \in {"create", "insert", "pull"}
  /\ at' = [at EXCEPT ![r] = "dropped"]
  /\ told' = IF at[r] = "insert" THEN told \cup {r} ELSE told
  /\ UNCHANGED <<task, operations, pulls, deleting>>

------------------------------------------------------------------------------
(* The operation's task. *)

\* The download is complete or has failed.
Complete(r) ==
  /\ Ends(r, "running", "ending")
  /\ UNCHANGED <<at, told, operations, pulls, deleting>>

Aborted_BUG(r) == FALSE

\* abort_receiver resolves, by a message or because its sender is gone.
Aborted(r) ==
  /\ r \in told
  /\ Ends(r, "running", "ending")
  /\ UNCHANGED <<at, told, operations, pulls, deleting>>

\* The entry is removed and the result sent to the websocket clients.
RemoveOperation(r) ==
  /\ Ends(r, "ending", "ended")
  /\ operations' = operations \ {r}
  /\ UNCHANGED <<at, told, pulls, deleting>>

------------------------------------------------------------------------------
(* DELETE on an operation, and on a pull. *)

\* abort_operation
Abort(r) ==
  /\ r \in operations
  /\ operations' = operations \ {r}
  /\ told' = told \cup {r}

DeleteOperation(r) ==
  /\ Abort(r)
  /\ UNCHANGED <<at, task, pulls, deleting>>

DeletePull(r) ==
  /\ Abort(r)
  /\ deleting' = deleting \cup {r}
  /\ UNCHANGED <<at, task, pulls>>

ForgetPull(r) ==
  /\ r \in deleting
  /\ pulls' = pulls \ {r}
  /\ deleting' = deleting \ {r}
  /\ UNCHANGED <<at, task, told, operations>>

------------------------------------------------------------------------------
Handler(r) ==
  Check(r) \/ CreateFails(r) \/ Create(r) \/ Insert(r) \/ InsertPull(r) \/ ForgetPull(r)

Ending(r) == Aborted(r) \/ RemoveOperation(r)

OperationsNext == \E r \in Requests :
  \/ Handler(r) \/ Disconnect(r) \/ Complete(r) \/ Ending(r)
  \/ DeleteOperation(r) \/ DeletePull(r)

OperationsSpec == OperationsInit /\ [][OperationsNext]_operationsVars

\* A handler and a task that can run are polled; a download need not end.
FairOperations == OperationsSpec /\ \A r \in Requests : WF_operationsVars(Handler(r)) /\ WF_operationsVars(Ending(r))

------------------------------------------------------------------------------
(* Properties *)

\* Every variable stays in its range.
OperationsTypeOK ==
  /\ at \in [Requests -> Points]
  /\ task \in [Requests -> Stages]
  /\ told \subseteq Requests
  /\ operations \subseteq Requests
  /\ pulls \subseteq Requests
  /\ deleting \subseteq Requests

\* A running operation can always be stopped: it is in the map where DELETE
\* finds it, or was told to stop, or its handler is about to enter it.  No
\* download runs on unseen, whenever the client or a DELETE comes in between.
RunningIsAbortable ==
  \A r \in Requests : task[r] = "running" => r \in operations \/ r \in told \/ at[r] = "insert"

\* An operation that was told to stop ends.
AbortEnds == \A r \in Requests : r \in told ~> task[r] = "ended"
=============================================================================
