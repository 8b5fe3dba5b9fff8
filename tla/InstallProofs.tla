---------------------------- MODULE InstallProofs ----------------------------
(***************************************************************************)
(* Proofs about Install, for any number of installations.                  *)
(***************************************************************************)
EXTENDS Install, TLAPS

(***************************************************************************)
(* The strengthening.  A container belongs to an installation, and has     *)
(* exited only when its script is over (BoxIsOwned).  An installation at   *)
(* work beside a game process, or a start that is under way, is one the    *)
(* history knows of (Guarded).  While one follows its container, that is   *)
(* its own or the script is over; and one that is about to report a        *)
(* success has seen it to its end (Followed).  A daemon that is down has no*)
(* tasks (DownIsIdle).                                                     *)
(***************************************************************************)
BoxIsOwned ==
  /\ box.status # "gone" => box.owner \in Installs
  /\ box.status = "exited" => box.owner \in finished

\* The points of install_server up to unset_installing.
Own == {"fetch", "config", "create", "launch", "run"}

Guarded ==
  \A i \in Installs : at[i] \in Own =>
    /\ running \/ starting => i \in exposed
    /\ starting => i \in disturbed

Over == finished \cup disturbed

Followed ==
  \A i \in Installs :
    /\ at[i] = "run" => i \in Over \/ (box.owner = i /\ box.status = "running")
    /\ at[i] \in {"take", "clean", "sweep", "report"} /\ ok[i] => i \in Over

DownIsIdle == ~up => \A i \in Installs : at[i] \in {"idle", "refused", "done", "lost"}

Types == TypeOK /\ BoxIsOwned

Safe == DownIsIdle /\ InstallingIsOwned /\ Guarded /\ InstallIsQuiet /\ Followed /\ SuccessIsScript

IInv == Types /\ Safe

LEMMA InitIInv == Init => IInv
<1> SUFFICES ASSUME Init PROVE IInv
  OBVIOUS
<1>1. Types
  <2>1. {up, installing, starting, running} \subseteq BOOLEAN
    BY DEF Init
  <2>2. at \in [Installs -> Points] /\ \A i \in Installs : at[i] \in {"idle", "begin"}
    BY DEF Init, Points, Asked
  <2> QED
    BY <2>1, <2>2 DEF Init, Types, TypeOK, BoxIsOwned, NoBox
<1>2. \A i \in Installs : at[i] \in {"idle", "begin"}
  BY DEF Init
<1>3. Safe
  BY <1>2 DEF Init, Safe, DownIsIdle, InstallingIsOwned, AtWork, Working, Guarded, Own, InstallIsQuiet, NoBox,
     Followed, SuccessIsScript
<1> QED
  BY <1>1, <1>3 DEF IInv

LEMMA TypesStep == Types /\ [Next]_vars => Types'
<1> SUFFICES ASSUME Types, [Next]_vars PROVE Types'
  OBVIOUS
<1> USE InstallAssumption DEF Types, TypeOK, BoxIsOwned, NoBox, power, docker, hist
<1>1. CASE Start \/ Run \/ Exit \/ Save
  <2>1. CASE Start
    BY <2>1 DEF Start
  <2>2. CASE Run
    <3>1. box' \in [owner : Installs \cup {NoInstall}, status : {"gone", "created", "running", "exited"}]
      BY <2>2 DEF Run
    <3>2. exposed' \subseteq Installs /\ running' \in BOOLEAN
      BY <2>2, <3>1 DEF Run
    <3>3. BoxIsOwned'
      BY <2>2 DEF Run
    <3> QED
      BY <2>2, <3>1, <3>2, <3>3 DEF Run
  <2>3. CASE Save
    BY <2>3 DEF Save
  <2>4. CASE Exit
    BY <2>4 DEF Exit
  <2> QED
    BY <1>1, <2>1, <2>2, <2>3, <2>4
<1>2. CASE ScriptEnds
  <2>1. box' = [owner |-> box.owner, status |-> "exited"] /\ box.owner \in Installs
    BY <1>2 DEF ScriptEnds
  <2> QED
    BY <1>2, <2>1 DEF ScriptEnds
<1>3. CASE Crash
  <2>1. at' \in [Installs -> Points] /\ ok' \in [Installs -> BOOLEAN]
    BY <1>3 DEF Crash, Points
  <2>2. {up', installing', starting', running'} \subseteq BOOLEAN
    BY <1>3 DEF Crash
  <2> QED
    BY <1>3, <2>1, <2>2 DEF Crash
<1>4. CASE Boot
  <2>1. at' \in [Installs -> Points]
    BY <1>4 DEF Boot, Points, Working
  <2>2. {up', installing', starting', running'} \subseteq BOOLEAN
    BY <1>4 DEF Boot
  <2> QED
    BY <1>4, <2>1, <2>2 DEF Boot
<1>5. ASSUME NEW i \in Installs, NEW from, NEW to \in Points, Goto(i, from, to)
      PROVE  at' \in [Installs -> Points]
  BY <1>5 DEF Goto
<1>6. /\ Working \subseteq Points /\ Ending \subseteq Points /\ Asked \subseteq Points
      /\ {"idle", "refused", "done", "lost", "stuck"} \subseteq Points
  BY DEF Points
<1>7. ASSUME NEW i \in Installs, Reinstall(i) \/ Stop(i) \/ Truncate(i) PROVE Types'
  <2>1. at' \in [Installs -> Points]
    BY <1>7, <1>5, <1>6 DEF Reinstall, Stop, Truncate, Asked
  <2>2. CASE Reinstall(i)
    BY <2>1, <2>2 DEF Reinstall
  <2>3. CASE Stop(i)
    BY <2>1, <2>3 DEF Stop
  <2>4. CASE Truncate(i)
    BY <2>1, <2>4 DEF Truncate, AtWork
  <2> QED
    BY <1>7, <2>2, <2>3, <2>4
<1>8. ASSUME NEW i \in Installs, Begin(i) \/ Refused(i) \/ Fetch(i) \/ Config(i) PROVE Types'
  <2>1. at' \in [Installs -> Points]
    BY <1>8, <1>5, <1>6 DEF Begin, Refused, Fetch, Config, Working
  <2>2. CASE Begin(i)
    BY <2>1, <2>2 DEF Begin
  <2>3. CASE Refused(i)
    BY <2>1, <2>3 DEF Refused
  <2>4. CASE Fetch(i)
    BY <2>1, <2>4 DEF Fetch
  <2>5. CASE Config(i)
    BY <2>1, <2>5 DEF Config
  <2> QED
    BY <1>8, <2>2, <2>3, <2>4, <2>5
<1>9. ASSUME NEW i \in Installs, Create(i) \/ Launch(i) \/ Clean(i) \/ Sweep(i) PROVE Types'
  <2>1. at' \in [Installs -> Points]
    BY <1>9, <1>5, <1>6 DEF Create, Launch, Clean, Sweep, Working, Ending
  <2>2. CASE Create(i)
    BY <2>1, <2>2 DEF Create
  <2>3. CASE Launch(i)
    BY <2>1, <2>3 DEF Launch
  <2>4. CASE Clean(i)
    BY <2>1, <2>4 DEF Clean
  <2>5. CASE Sweep(i)
    BY <2>1, <2>5 DEF Sweep
  <2> QED
    BY <1>9, <2>2, <2>3, <2>4, <2>5
<1>10. ASSUME NEW i \in Installs,
              \/ NothingToRun(i) \/ Fail(i) \/ OutputEnds(i) \/ OutputBreaks(i) \/ Expire(i)
              \/ FindNone(i) \/ Watched(i)
       PROVE  Types'
  <2>1. \E to \in Ending, b \in BOOLEAN :
          at' = [at EXCEPT ![i] = to] /\ ok' = [ok EXCEPT ![i] = b]
    BY <1>10 DEF NothingToRun, Fail, OutputEnds, OutputBreaks, Expire, FindNone, Watched, Ending,
       Unset, Goto
  <2>2. /\ at' \in [Installs -> Points] /\ ok' \in [Installs -> BOOLEAN] /\ installing' = FALSE
        /\ UNCHANGED <<up, script, power, saved, told>>
    <3>1. at' \in [Installs -> Points] /\ ok' \in [Installs -> BOOLEAN]
      BY <2>1, <1>6
    <3> QED
      BY <3>1, <1>10 DEF NothingToRun, Fail, OutputEnds, OutputBreaks, Expire, FindNone, Watched, Unset
  <2>3. /\ UNCHANGED tmp /\ box' \in {NoBox, box}
        /\ finished \subseteq finished' /\ finished' \subseteq Installs /\ disturbed' \subseteq Installs
        /\ UNCHANGED exposed
    BY <1>10 DEF NothingToRun, Fail, OutputEnds, OutputBreaks, Expire, FindNone, Watched
  <2>4. {up', installing', starting', running'} \subseteq BOOLEAN
    BY <2>2
  <2>5. /\ box' \in [owner : Installs \cup {NoInstall}, status : {"gone", "created", "running", "exited"}]
        /\ BoxIsOwned'
    BY <2>3
  <2>6. /\ {script', tmp', saved'} \subseteq Installs \cup {NoInstall}
        /\ told' \in [Installs -> {"nothing", "ok", "failed"}]
    BY <2>2, <2>3
  <2> QED
    BY <2>2, <2>3, <2>4, <2>5, <2>6
<1>11. ASSUME NEW i \in Installs, Take(i) \/ Report(i) \/ Find(i) \/ Give(i) PROVE Types'
  <2>1. at' \in [Installs -> Points]
    BY <1>11, <1>5, <1>6 DEF Take, Report, Find, Give, Working, Ending
  <2>2. CASE Take(i)
    BY <2>1, <2>2 DEF Take
  <2>3. CASE Report(i)
    BY <2>1, <2>3 DEF Report
  <2>4. CASE Find(i)
    BY <2>1, <2>4 DEF Find
  <2>5. CASE Give(i)
    BY <2>1, <2>5 DEF Give
  <2> QED
    BY <1>11, <2>2, <2>3, <2>4, <2>5
<1>12. CASE UNCHANGED vars
  BY <1>12 DEF vars
<1> QED
  BY <1>1, <1>2, <1>3, <1>4, <1>7, <1>8, <1>9, <1>10, <1>11, <1>12 DEF Next, Step

LEMMA SafeStep == Types /\ Safe /\ [Next]_vars => Safe'
<1> SUFFICES ASSUME Types, Safe, [Next]_vars PROVE Safe'
  OBVIOUS
<1>0. /\ at \in [Installs -> Points] /\ ok \in [Installs -> BOOLEAN]
      /\ box \in [owner : Installs \cup {NoInstall}, status : {"gone", "created", "running", "exited"}]
      /\ told \in [Installs -> {"nothing", "ok", "failed"}]
      /\ BoxIsOwned /\ saved \in Installs \cup {NoInstall}
  BY DEF Types, TypeOK
<1> USE InstallAssumption, <1>0
    DEF Safe, DownIsIdle, InstallingIsOwned, AtWork, Working, Guarded, Own, InstallIsQuiet, Followed, Over,
        SuccessIsScript, BoxIsOwned, NoBox, power, docker, hist, Goto, Unset
<1>1. CASE Start
  BY <1>1 DEF Start
<1>2. CASE Run
  <2>1. starting /\ ~starting' /\ up /\ UNCHANGED <<up, installing, at, ok, told, finished, disturbed>>
    BY <1>2 DEF Run
  <2>2. box' = NoBox \/ (box' = box /\ exposed' = exposed \cup ({box.owner} \ {NoInstall}))
    BY <1>2 DEF Run
  <2>3. exposed \subseteq exposed'
    BY <1>2 DEF Run
  <2>4. DownIsIdle' /\ InstallingIsOwned' /\ SuccessIsScript'
    BY <2>1
  <2>5. Guarded'
    BY <2>1, <2>3
  <2>6. InstallIsQuiet'
    BY <2>2
  <2>7. Followed'
    BY <2>1, <2>2
  <2> QED
    BY <2>4, <2>5, <2>6, <2>7
<1>3. CASE ScriptEnds
  BY <1>3 DEF ScriptEnds
<1>4. CASE Save
  BY <1>4 DEF Save
<1>5. CASE Crash
  BY <1>5 DEF Crash
<1>6. CASE Boot
  <2>1. \A i \in Installs : at[i] \in {"idle", "refused", "done", "lost"}
    BY <1>6 DEF Boot
  <2>2. InstallingIsOwned'
    <3>1. CASE saved = NoInstall
      BY <1>6, <2>1, <3>1 DEF Boot
    <3>2. CASE saved \in Installs
      <4>1. installing'
        BY <1>6, <3>2 DEF Boot
      <4>2. \A i \in Installs : at'[i] \in Working <=> i = saved
        BY <1>6, <2>1 DEF Boot
      <4> QED
        BY <3>2, <4>1, <4>2
    <3> QED
      BY <3>1, <3>2
  <2>3. (DownIsIdle /\ Guarded /\ InstallIsQuiet /\ Followed /\ SuccessIsScript)'
    BY <1>6, <2>1 DEF Boot
  <2> QED
    BY <2>2, <2>3
<1>7. ASSUME NEW i \in Installs, Reinstall(i) PROVE Safe'
  BY <1>7 DEF Reinstall
<1>8. ASSUME NEW i \in Installs, up, Stop(i) PROVE Safe'
  <2>1. /\ running' = running \/ running' = FALSE
        /\ UNCHANGED <<up, installing, ok, starting, box, told, hist>>
    BY <1>8 DEF Stop
  <2>2. /\ at[i] = "stop" /\ at'[i] \in {"truncate", "refused"}
        /\ \A j \in Installs \ {i} : at'[j] = at[j]
    BY <1>8 DEF Stop
  <2>3. InstallingIsOwned'
    BY <2>1, <2>2
  <2>4. DownIsIdle' /\ Guarded' /\ InstallIsQuiet' /\ Followed' /\ SuccessIsScript'
    BY <1>8, <2>1, <2>2
  <2> QED
    BY <2>3, <2>4
<1>9. ASSUME NEW i \in Installs, up, Truncate(i) PROVE Safe'
  BY <1>9 DEF Truncate
<1>10. ASSUME NEW i \in Installs, up, Begin(i) PROVE Safe'
  BY <1>10 DEF Begin
<1>11. ASSUME NEW i \in Installs, up, Refused(i) PROVE Safe'
  BY <1>11 DEF Refused
<1>12. ASSUME NEW i \in Installs, up, NothingToRun(i) PROVE Safe'
  BY <1>12 DEF NothingToRun
<1>13. ASSUME NEW i \in Installs, up, Fetch(i) PROVE Safe'
  BY <1>13 DEF Fetch
<1>14. ASSUME NEW i \in Installs, up, Config(i) PROVE Safe'
  BY <1>14 DEF Config
<1>15. ASSUME NEW i \in Installs, up, Create(i) PROVE Safe'
  BY <1>15 DEF Create
<1>16. ASSUME NEW i \in Installs, up, Launch(i) PROVE Safe'
  BY <1>16 DEF Launch
<1>17. ASSUME NEW i \in Installs, up, Fail(i) PROVE Safe'
  BY <1>17 DEF Fail
<1>18. ASSUME NEW i \in Installs, up, OutputEnds(i) PROVE Safe'
  BY <1>18 DEF OutputEnds, Silent
<1>19. ASSUME NEW i \in Installs, up, OutputBreaks(i) PROVE Safe'
  BY <1>19 DEF OutputBreaks
<1>20. ASSUME NEW i \in Installs, up, Expire(i) PROVE Safe'
  BY <1>20 DEF Expire
<1>21. ASSUME NEW i \in Installs, up, Take(i) PROVE Safe'
  BY <1>21 DEF Take
<1>22. ASSUME NEW i \in Installs, up, Clean(i) PROVE Safe'
  BY <1>22 DEF Clean
<1>23. ASSUME NEW i \in Installs, up, Sweep(i) PROVE Safe'
  BY <1>23 DEF Sweep
<1>24. ASSUME NEW i \in Installs, up, Report(i) PROVE Safe'
  BY <1>24 DEF Report
<1>25. ASSUME NEW i \in Installs, up, FindNone(i) PROVE Safe'
  BY <1>25 DEF FindNone
<1>26. ASSUME NEW i \in Installs, up, Find(i) PROVE Safe'
  BY <1>26 DEF Find
<1>27. ASSUME NEW i \in Installs, up, Watched(i) PROVE Safe'
  BY <1>27 DEF Watched
<1>28. ASSUME NEW i \in Installs, up, Give(i) PROVE Safe'
  BY <1>28 DEF Give
<1>29. CASE UNCHANGED vars
  BY <1>29 DEF vars
<1>30. CASE Exit
  BY <1>30 DEF Exit
<1> QED
  BY <1>1, <1>2, <1>3, <1>4, <1>5, <1>6, <1>7, <1>8, <1>9, <1>10, <1>11, <1>12, <1>13, <1>14, <1>15, <1>16, <1>17, <1>18, <1>19, <1>20, <1>21, <1>22, <1>23, <1>24, <1>25, <1>26, <1>27, <1>28, <1>29, <1>30 DEF Next, Step

LEMMA Inductive == Spec => []IInv
<1>1. IInv /\ [Next]_vars => IInv'
  BY TypesStep, SafeStep DEF IInv
<1> QED
  BY InitIInv, <1>1, PTL DEF Spec

\* Every variable of Install stays in its range.
THEOREM InstallTypes == Spec => []TypeOK
<1>1. IInv => TypeOK
  BY DEF IInv, Types
<1> QED
  BY <1>1, Inductive, PTL

\* `installing' is raised exactly while one installation is at work, through
\* failures, overlapping cleanups and restarts of the daemon.
THEOREM OneInstallation == Spec => []InstallingIsOwned
<1>1. IInv => InstallingIsOwned
  BY DEF IInv, Safe
<1> QED
  BY <1>1, Inductive, PTL

\* The installation script does not run beside the game server, unless the
\* history knows that the server was not down, or a container left behind.
THEOREM InstallationsAreQuiet == Spec => []InstallIsQuiet
<1>1. IInv => InstallIsQuiet
  BY DEF IInv, Safe
<1> QED
  BY <1>1, Inductive, PTL

\* A success is reported only of a script that ran to its end, unless the
\* history knows of an interference.
THEOREM SuccessesAreScripts == Spec => []SuccessIsScript
<1>1. IInv => SuccessIsScript
  BY DEF IInv, Safe
<1> QED
  BY <1>1, Inductive, PTL
==============================================================================
