------------------------------- MODULE Activity -------------------------------
(***************************************************************************)
(* The activities of a server (server/activity.rs): they are queued under a*)
(* mutex, and a task that wakes up from time to time merges, drains and    *)
(* sends them while it holds the mutex.                                    *)
(*                                                                         *)
(* An activity stands for a set of ids, one for each that was logged.  Its *)
(* key is what those that are merged have in common; it is Unmerged for the*)
(* events that are left alone.  Definitions named ..._BUG are plausible    *)
(* mistakes; no specification uses them.                                   *)
(***************************************************************************)
EXTENDS Integers, Sequences, FiniteSets, SequencesExt

CONSTANTS
  SendCount,    \* activity_send_count
  Window,       \* ticks of the clock in the 60 seconds of a merge
  MaxClock      \* bound: ticks

ASSUME ActivityAssumption == SendCount \in Nat \ {0} /\ Window \in Nat /\ MaxClock \in Nat

VARIABLES
  activities,   \* the queue
  batch,        \* what is being sent, while the mutex is held
  held,         \* the task holds the mutex
  clock,
  told, lost    \* history: ids that the panel was sent, and that are gone

activityVars == <<activities, batch, held, clock, told, lost>>

Unmerged == <<>>

\* timestamp is when the request made it, before it waits for the mutex.
NewActivity(key, id, timestamp) == [key |-> key, ids |-> {id}, timestamp |-> timestamp]

Ids(q) == UNION {a.ids : a \in Range(q)}

ActivityInit ==
  /\ activities = <<>> /\ batch = <<>> /\ held = FALSE
  /\ clock = 0 /\ told = {} /\ lost = {}

log_activity(a) ==
  /\ ~held
  /\ activities' = Append(activities, a)
  /\ UNCHANGED <<batch, held, clock, told, lost>>

------------------------------------------------------------------------------
Keys == {a.key : a \in Range(activities)} \ {Unmerged}

Near(a, b) == a.timestamp - b.timestamp \in -Window..Window

Of(key) == {i \in DOMAIN activities : activities[i].key = key}

\* The place of the activity that takes the files of the one at i: that which the
\* map has for the key, if it is near, or else itself, which replaces it.
Base[i \in DOMAIN activities] ==
  LET before == Of(activities[i].key) \cap 1..(i - 1) IN
  IF before # {} /\ Near(activities[i], activities[Base[Max(before)]])
  THEN Base[Max(before)]
  ELSE i

Merged_BUG(key) ==
  LET base == Base[Max(Of(key))] IN
  [key |-> key, ids |-> activities[base].ids, timestamp |-> activities[base].timestamp]

\* What the map has for a key at the end, with the files of all that went to it.
Merged(key) ==
  LET base == Base[Max(Of(key))] IN
  [key |-> key, ids |-> UNION {activities[i].ids : i \in {j \in Of(key) : Base[j] = base}},
   timestamp |-> activities[base].timestamp]

\* The merged queue: those that are left alone come first, as they came, and the
\* others in the order of a hash map.
Alone == {p \in SetToSeqs(Of(Unmerged)) : \A i, j \in DOMAIN p : i < j => p[i] < p[j]}

Merge(alone, order) ==
  [i \in DOMAIN alone |-> activities[alone[i]]] \o [i \in DOMAIN order |-> Merged(order[i])]

Smaller(m, n) == IF m < n THEN m ELSE n

\* The task wakes up, merges, and drains as many as it may send.
Wake ==
  /\ ~held /\ activities # <<>>
  /\ \E alone \in Alone, order \in SetToSeqs(Keys) :
       LET q == Merge(alone, order)
           n == Smaller(SendCount, Len(q))
       IN
       /\ batch' = SubSeq(q, 1, n)
       /\ activities' = SubSeq(q, n + 1, Len(q))
       /\ lost' = lost \cup (Ids(activities) \ Ids(q))
  /\ held' = TRUE
  /\ UNCHANGED <<clock, told>>

\* The panel is sent the batch; if it cannot be, the batch is gone.
Send_BUG ==
  /\ held
  /\ held' = FALSE
  /\ \/ told' = told \cup Ids(batch) /\ batch' = <<>> /\ UNCHANGED activities
     \/ told' \in {told, told \cup Ids(batch)} /\ activities' = batch \o activities /\ batch' = <<>>
  /\ UNCHANGED <<clock, lost>>

Send ==
  /\ held
  /\ held' = FALSE /\ batch' = <<>>
  /\ \/ told' = told \cup Ids(batch) /\ UNCHANGED lost
     \/ lost' = lost \cup Ids(batch) /\ UNCHANGED told
  /\ UNCHANGED <<activities, clock>>

Tick ==
  /\ clock < MaxClock /\ clock' = clock + 1
  /\ UNCHANGED <<activities, batch, held, told, lost>>

Sender == Wake \/ Send

------------------------------------------------------------------------------
\* The activities that wait, each once.
Queued == Ids(activities) \cup Ids(batch)

\* An activity is in one place only, whatever was merged.
NoneTwice ==
  \A i, j \in DOMAIN (activities \o batch) :
    i # j => (activities \o batch)[i].ids \cap (activities \o batch)[j].ids = {}
===============================================================================
