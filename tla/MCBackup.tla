------------------------------- MODULE MCBackup -------------------------------
(* One backup of any adapter, two restores of it, a deletion and a server that *)
(* is started and stopped.                                                     *)
EXTENDS Backup

CONSTANTS b1, r1, r2

===============================================================================
