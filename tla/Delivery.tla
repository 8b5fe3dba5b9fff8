------------------------------- MODULE Delivery -------------------------------
(***************************************************************************)
(* What the daemon promises of the things it reports to the panel from time*)
(* to time (results of schedules, activities): each is told once or lost,  *)
(* none twice, none that was not recorded, and none waits for ever.        *)
(***************************************************************************)
CONSTANT Items

VARIABLES pending, told, lost

vars == <<pending, told, lost>>

Init == pending = {} /\ told = {} /\ lost = {}

\* Some are recorded, and of those that were, some are told and some are lost.
Next ==
  /\ told \subseteq told' /\ lost \subseteq lost'
  /\ (told' \ told) \cap (lost' \ lost) = {}
  /\ (told' \ told) \cup (lost' \ lost) = pending \ pending'
  /\ (pending' \ pending) \cap (told' \cup lost') = {}

Spec == Init /\ [][Next]_vars

\* None waits for ever.
Settles == \A x \in Items : x \in pending ~> x \notin pending

LiveSpec == Spec /\ Settles
===============================================================================
