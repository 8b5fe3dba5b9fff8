------------------------------- MODULE MCBrowse -------------------------------
(* Two tasks that browse the same backup, and the sweeper.                     *)
EXTENDS Browse

MCTasks == {"t1", "t2"}
MCMutexes == {"m1", "m2", "m3"}
===============================================================================
