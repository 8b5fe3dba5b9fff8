------------------------------ MODULE MCSchedule ------------------------------
(* Model-checking instance of Schedule. *)
EXTENDS Schedule

CONSTANTS s1, a, b

Action(kind, ignore, foreground) ==
  [kind |-> kind, ignore_failure |-> ignore, foreground |-> foreground, from |-> a, to |-> b]

Quick(kind) == Action(kind, FALSE, TRUE)

Always == [type |-> "none"]
Busy   == [type |-> "usage"]

\* Plans that hold every kind of action and of condition between them.
SomePlans == {
  [triggers |-> {"cron"}, condition |-> Always,
   actions |-> <<Action("start", TRUE, TRUE), Quick("command"), Quick("copy")>>],
  [triggers |-> {}, condition |-> [type |-> "and", conditions |-> {Busy, [type |-> "server_state", state |-> "running"]}],
   actions |-> <<Quick("stop"), Action("compress", TRUE, FALSE), Quick("rename")>>],
  [triggers |-> {"crash", "did restart"}, condition |-> [type |-> "or", conditions |-> {Busy, [type |-> "file_exists", file |-> a]}],
   actions |-> <<Quick("restart"), Quick("kill"), Action("backup", TRUE, TRUE)>>],
  [triggers |-> {"cron", "offline"}, condition |-> Always,
   actions |-> <<Action("mkdir", TRUE, TRUE), Quick("write"), Quick("decompress")>>],
  [triggers |-> {"starting"}, condition |-> Always,
   actions |-> <<Quick("sleep"), Quick("delete"), Quick("variable")>>] }
===============================================================================
