-------------------------------- MODULE Install --------------------------------
(***************************************************************************)
(* The installation of a server (server/installation.rs): install_server,  *)
(* as the reinstall route and create_server call it, the container that    *)
(* runs the installation script, its cleanup, and attach_install_container,*)
(* which takes an installation up again when the daemon restarts, from     *)
(* installing.json (server/manager.rs).                                    *)
(*                                                                         *)
(* An installation i is one call of install_server, and after a restart    *)
(* the task attached to it.  An await is the end of a step.  Definitions   *)
(* named ..._BUG are plausible mistakes; no specification uses them.       *)
(***************************************************************************)
EXTENDS Naturals, FiniteSets

CONSTANTS Installs,   \* the installations that are asked for
          NoInstall,  \* no installation
          Crashes     \* whether the daemon may die

ASSUME InstallAssumption == NoInstall \notin Installs /\ Crashes \in BOOLEAN

VARIABLES
  up,          \* the daemon runs
  installing,  \* the flag of the server
  script,      \* installation_script: whose it is
  at,          \* the program point of each installation
  ok,          \* the argument of its unset_installing
  starting,    \* a Server::start that has passed its guard
  running,     \* the game process runs
  box,         \* the container <uuid>_installer: whose it is, its status
  tmp,         \* the temporary directory: whose install.sh it holds
  saved,       \* installing.json: whose script it names
  told,        \* what the panel was told of each installation
  finished,    \* history: the installations whose script ran to its end
  disturbed,   \* history: those that another task or Docker interfered with
  exposed      \* history: those the game server was not kept away from

power  == <<starting, running>>
docker == <<box, tmp>>
hist   == <<finished, disturbed, exposed>>
vars   == <<up, installing, script, at, ok, power, docker, saved, told, hist>>

NoBox == [owner |-> NoInstall, status |-> "gone"]

\* install_server from the flag to unset_installing, and an attached task.
Working == {"fetch", "config", "create", "launch", "run", "find", "watch"}
Ending  == {"take", "clean", "sweep", "report", "give"}
Asked   == {"stop", "truncate", "begin"}
Points  == Working \cup Ending \cup Asked \cup {"idle", "refused", "done", "lost", "stuck"}

AtWork == {i \in Installs : at[i] \in Working}

\* create_server spawns the first installation; a server may also exist already.
Init ==
  /\ up = TRUE
  /\ installing = FALSE
  /\ script = NoInstall
  /\ at \in [Installs -> {"idle", "begin"}]
  /\ Cardinality({i \in Installs : at[i] = "begin"}) <= 1
  /\ ok = [i \in Installs |-> FALSE]
  /\ starting = FALSE
  /\ running \in BOOLEAN
  /\ (\E i \in Installs : at[i] = "begin") => ~running
  /\ box = NoBox
  /\ tmp = NoInstall
  /\ saved = NoInstall
  /\ told = [i \in Installs |-> "nothing"]
  /\ finished = {} /\ disturbed = {} /\ exposed = {}

Goto(i, from, to) == at[i] = from /\ at' = [at EXCEPT ![i] = to]

------------------------------------------------------------------------------
(* Power. *)

Start_BUG ==
  /\ up /\ ~running /\ ~starting
  /\ starting' = TRUE
  /\ UNCHANGED <<up, installing, script, at, ok, running, docker, saved, told, hist>>

\* Server::start: the guard ...
Start ==
  /\ up /\ ~installing /\ ~running /\ ~starting
  /\ starting' = TRUE
  /\ UNCHANGED <<up, installing, script, at, ok, running, docker, saved, told, hist>>

\* ... then destroy_container, which removes the installer too, and the process,
\* if nothing fails before.  destroy_container drops the errors of Docker: the
\* start goes on beside a container that is still there, or was created since.
Run ==
  /\ up /\ starting
  /\ starting' = FALSE /\ running' \in {running, TRUE}
  /\ box' \in {NoBox, box}
  /\ exposed' = exposed \cup ({box'.owner} \ {NoInstall})
  /\ UNCHANGED <<up, installing, script, at, ok, tmp, saved, told, finished, disturbed>>

\* The process ends by itself.
Exit ==
  /\ running
  /\ running' = FALSE
  /\ UNCHANGED <<up, installing, script, at, ok, starting, docker, saved, told, hist>>

------------------------------------------------------------------------------
(* The reinstall route. *)

\* The locked state is checked ...
Reinstall(i) ==
  /\ up /\ ~installing
  /\ Goto(i, "idle", "stop")
  /\ UNCHANGED <<up, installing, script, ok, power, docker, saved, told, hist>>

\* ... the server stopped, or killed after 30 seconds, or that fails.  A stop
\* succeeds, and the process goes on, when Docker refuses the kill, when the
\* stream of the wait ends or fails, and when the slot of the container is empty ...
Stop(i) ==
  /\ \/ Goto(i, "stop", "truncate") /\ running' \in {running, FALSE}
     \/ Goto(i, "stop", "refused") /\ UNCHANGED running
  /\ UNCHANGED <<up, installing, script, ok, starting, docker, saved, told, hist>>

\* ... and, if asked for, every file deleted, whoever is at work by then.
Truncate(i) ==
  /\ Goto(i, "truncate", "begin")
  /\ disturbed' \in {disturbed, disturbed \cup AtWork}
  /\ UNCHANGED <<up, installing, script, ok, power, docker, saved, told, finished, exposed>>

------------------------------------------------------------------------------
(* install_server *)

Begin_BUG(i) ==
  /\ Goto(i, "begin", "fetch")
  /\ installing' = TRUE
  /\ disturbed' = IF starting THEN disturbed \cup {i} ELSE disturbed
  /\ exposed' = IF running \/ starting THEN exposed \cup {i} ELSE exposed
  /\ UNCHANGED <<up, script, ok, power, docker, saved, told, finished>>

Begin(i) ==
  /\ ~installing
  /\ Goto(i, "begin", "fetch")
  /\ installing' = TRUE
  /\ disturbed' = IF starting THEN disturbed \cup {i} ELSE disturbed
  /\ exposed' = IF running \/ starting THEN exposed \cup {i} ELSE exposed
  /\ UNCHANGED <<up, script, ok, power, docker, saved, told, finished>>

Refused(i) ==
  /\ installing
  /\ Goto(i, "begin", "refused")
  /\ UNCHANGED <<up, installing, script, ok, power, docker, saved, told, hist>>

\* unset_installing(successful), up to its first await.
Unset(i, from, to, successful) ==
  /\ Goto(i, from, to)
  /\ installing' = FALSE
  /\ ok' = [ok EXCEPT ![i] = successful]
  /\ UNCHANGED <<up, script, power, saved, told>>

\* The scripts are skipped, or there is none: nothing to do.
NothingToRun(i) ==
  /\ Unset(i, "fetch", "take", TRUE)
  /\ finished' = finished \cup {i}
  /\ UNCHANGED <<docker, disturbed, exposed>>

Fetch(i) ==
  /\ Goto(i, "fetch", "config")
  /\ script' = i
  /\ UNCHANGED <<up, installing, ok, power, docker, saved, told, hist>>

\* The image is pulled; container_config writes the script ...
Config(i) ==
  /\ Goto(i, "config", "create")
  /\ tmp' = i
  /\ UNCHANGED <<up, installing, script, ok, power, box, saved, told, hist>>

\* ... that the container mounts.  Its name must be free.
Create(i) ==
  /\ Goto(i, "create", "launch")
  /\ box = NoBox
  /\ box' = [owner |-> i, status |-> "created"]
  /\ UNCHANGED <<up, installing, script, ok, power, tmp, saved, told, hist>>

Launch(i) ==
  /\ Goto(i, "launch", "run")
  /\ box.owner = i /\ tmp = i
  /\ box' = [box EXCEPT !.status = "running"]
  /\ UNCHANGED <<up, installing, script, ok, power, tmp, saved, told, hist>>

\* Each of these requests may fail.
Fail(i) ==
  /\ \E from \in {"fetch", "config", "create", "launch", "run"} : Unset(i, from, "take", FALSE)
  /\ UNCHANGED <<docker, hist>>

\* The script ends.
ScriptEnds ==
  /\ box.status = "running"
  /\ box' = [box EXCEPT !.status = "exited"]
  /\ finished' = finished \cup {box.owner}
  /\ UNCHANGED <<up, installing, script, at, ok, power, tmp, saved, told, disturbed, exposed>>

\* The output of container `i' has ended.
Silent(i) == box.owner # i \/ box.status = "exited"

\* The end of the output is a success ...
OutputEnds(i) ==
  /\ Silent(i)
  /\ Unset(i, "run", "take", TRUE)
  /\ UNCHANGED <<docker, hist>>

\* ... and so is its loss.
OutputBreaks(i) ==
  /\ Unset(i, "run", "take", TRUE)
  /\ disturbed' = disturbed \cup {i}
  /\ UNCHANGED <<docker, finished, exposed>>

Expire_BUG(i) ==
  /\ \E from \in {"launch", "run"} : Unset(i, from, "take", TRUE)
  /\ UNCHANGED <<docker, hist>>

\* installer_limits.timeout
Expire(i) ==
  /\ \E from \in {"launch", "run"} : Unset(i, from, "take", FALSE)
  /\ UNCHANGED <<docker, hist>>

------------------------------------------------------------------------------
(* The rest of unset_installing. *)

Take_BUG(i) ==
  /\ Goto(i, "take", "stuck")
  /\ script' = NoInstall
  /\ UNCHANGED <<up, installing, ok, power, docker, saved, told, hist>>

Take(i) ==
  /\ Goto(i, "take", "clean")
  /\ script' = NoInstall
  /\ UNCHANGED <<up, installing, ok, power, docker, saved, told, hist>>

\* cleanup_container writes the log and removes the container; when the log
\* cannot be written the container stays.
Clean(i) ==
  /\ Goto(i, "clean", "sweep")
  /\ \/ box' = IF box.owner = i THEN NoBox ELSE box
     \/ UNCHANGED box
  /\ UNCHANGED <<up, installing, script, ok, power, tmp, saved, told, hist>>

\* The temporary directory is removed, whoever has written to it since.
Sweep(i) ==
  /\ Goto(i, "sweep", "report")
  /\ tmp' = NoInstall
  /\ disturbed' = IF tmp # i THEN disturbed \cup ({tmp} \ {NoInstall}) ELSE disturbed
  /\ UNCHANGED <<up, installing, script, ok, power, box, saved, told, finished, exposed>>

\* The panel is told, if it can be reached.
Report(i) ==
  /\ Goto(i, "report", "done")
  /\ \/ told' = [told EXCEPT ![i] = IF ok[i] THEN "ok" ELSE "failed"]
     \/ UNCHANGED told
  /\ ok' = [ok EXCEPT ![i] = FALSE]
  /\ UNCHANGED <<up, installing, script, power, docker, saved, hist>>

------------------------------------------------------------------------------
(* installing.json, and the restart of the daemon. *)

\* The file is written every 10 seconds.
Save ==
  /\ up
  /\ saved' = script
  /\ UNCHANGED <<up, installing, script, at, ok, power, docker, told, hist>>

\* The daemon dies.  The file is empty from the boot to the first write, and for
\* a moment at every write.
Crash ==
  /\ Crashes /\ up
  /\ up' = FALSE
  /\ installing' = FALSE /\ script' = NoInstall /\ starting' = FALSE
  /\ saved' \in {saved, NoInstall}
  /\ at' = [i \in Installs |-> IF at[i] \in {"idle", "refused", "done"} THEN at[i] ELSE "lost"]
  /\ ok' = [i \in Installs |-> FALSE]
  /\ UNCHANGED <<running, docker, told, hist>>

\* Manager::boot: a task is attached to the installation that was saved.
Boot ==
  /\ ~up
  /\ up' = TRUE
  /\ script' = saved
  /\ installing' = (saved # NoInstall)
  /\ at' = [i \in Installs |-> IF i = saved THEN "find" ELSE at[i]]
  /\ UNCHANGED <<ok, power, docker, saved, told, hist>>

\* attach_install_container: a container that does not run is removed, if that
\* succeeds; then, or when the containers cannot be listed, the installation is
\* taken for a success ...
FindNone(i) ==
  /\ Unset(i, "find", "give", TRUE)
  /\ box' \in IF box.status = "running" THEN {box} ELSE {NoBox, box}
  /\ UNCHANGED <<tmp, hist>>

\* ... one that runs is watched, and whatever ends that but the timeout too.
Find(i) ==
  /\ Goto(i, "find", "watch")
  /\ box.status = "running"
  /\ UNCHANGED <<up, installing, script, ok, power, docker, saved, told, hist>>

Watched(i) ==
  /\ \E successful \in BOOLEAN : Unset(i, "watch", "give", successful)
  /\ UNCHANGED <<docker, hist>>

\* unset_installing takes the script, then waits for `container_id', whose guard
\* the task itself holds.
Give(i) ==
  /\ Goto(i, "give", "stuck")
  /\ script' = NoInstall
  /\ ok' = [ok EXCEPT ![i] = FALSE]
  /\ UNCHANGED <<up, installing, power, docker, saved, told, hist>>

------------------------------------------------------------------------------
\* The steps of one installation.
Step(i) ==
  /\ up
  /\ \/ Stop(i) \/ Truncate(i) \/ Begin(i) \/ Refused(i)
     \/ NothingToRun(i) \/ Fetch(i) \/ Config(i) \/ Create(i) \/ Launch(i) \/ Fail(i)
     \/ OutputEnds(i) \/ OutputBreaks(i) \/ Expire(i)
     \/ Take(i) \/ Clean(i) \/ Sweep(i) \/ Report(i)
     \/ FindNone(i) \/ Find(i) \/ Watched(i) \/ Give(i)

Next ==
  \/ Start \/ Run \/ Exit \/ ScriptEnds \/ Save \/ Crash \/ Boot
  \/ \E i \in Installs : Reinstall(i) \/ Step(i)

Spec == Init /\ [][Next]_vars

\* The runtime goes on with every task: each await ends, by an answer, an error
\* or the timeout of the installer.
FairSpec == Spec /\ \A i \in Installs : WF_vars(Step(i))

------------------------------------------------------------------------------
(* Properties *)

\* Every variable stays in its range.
TypeOK ==
  /\ {up, installing, starting, running} \subseteq BOOLEAN
  /\ {script, tmp, saved} \subseteq Installs \cup {NoInstall}
  /\ at \in [Installs -> Points]
  /\ ok \in [Installs -> BOOLEAN]
  /\ box \in [owner : Installs \cup {NoInstall}, status : {"gone", "created", "running", "exited"}]
  /\ told \in [Installs -> {"nothing", "ok", "failed"}]
  /\ finished \subseteq Installs /\ disturbed \subseteq Installs /\ exposed \subseteq Installs

\* `installing' locks the server out of everything else: it is up exactly while
\* one installation is at work, through failures, cleanups that overlap the next
\* installation, and restarts of the daemon.
InstallingIsOwned ==
  /\ installing => AtWork # {}
  /\ \A i, j \in AtWork : installing /\ i = j

\* The installation script does not run beside the game server.  It can only
\* when the server was not down as the flag was raised (the stop, which is not
\* checked, had left it running, or a start had got between the stop and the
\* flag), or when a later start did not get rid of a container that an
\* installation had left behind.
InstallIsQuiet == box.status = "running" /\ running => box.owner \in exposed

\* The panel is told of a success only if the script ran to its end, unless the
\* output was lost, a start had passed its guard, or another installation swept
\* the directories it worked in.
SuccessIsScript == \A i \in Installs : told[i] = "ok" => i \in finished \cup disturbed

\* An installation that has begun comes to an end, and its call returns, unless
\* the daemon dies.
InstallEnds == \A i \in Installs : at[i] = "fetch" ~> at[i] \in {"done", "lost"}
================================================================================
