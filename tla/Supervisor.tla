----------------------------- MODULE Supervisor -----------------------------
(***************************************************************************)
(* service/service.sh, watchdog.sh and run-web.sh: an operator's start,    *)
(* stop and restart, the watchdog that keeps the web server running, and   *)
(* the two pid files through which they know each other.                   *)
(*                                                                         *)
(* A shell command is one step: the test of is_running, a kill, a rm, the  *)
(* launch of a process and the write of its pid all happen apart.  SIGTERM *)
(* has its default action: the process does nothing more, and is gone (its *)
(* port released) some time later.  The kernel does not give out a pid     *)
(* again while a pid file or a waiting watchdog still holds it.            *)
(***************************************************************************)
EXTENDS Naturals, FiniteSetsExt

CONSTANTS
    NumPids,       \* processes that may exist at a time
    MaxCommands,   \* bound on the commands the operator gives
    MaxCrashes,    \* bound on processes that die on their own
    NoPid          \* an absent pid file, a free port

Pids == 1..NumPids

ASSUME SupervisorAssumption ==
    /\ NumPids \in Nat /\ MaxCommands \in Nat /\ MaxCrashes \in Nat
    /\ NoPid \notin Pids

VARIABLES
    phase,      \* what each process is doing
    child,      \* the app a watchdog launched (its PID variable)
    supFile,    \* keystone-web-supervisor.pid
    appFile,    \* keystone-web.pid
    port,       \* the process that listens on PORT
    op,         \* the operator's script: where it is, what it was asked
    commands,   \* commands given
    crashes,    \* crashes so far
    wanted      \* a start has completed, and nothing has ended it since

vars == <<phase, child, supFile, appFile, port, op, commands, crashes, wanted>>
files == <<supFile, appFile>>
counters == <<commands, crashes>>

WatchdogPhases == {"loop", "forked", "waiting", "pausing"}
AppPhases      == {"launched", "serving"}

Watchdogs == {p \in Pids : phase[p] \in WatchdogPhases}
Apps      == {p \in Pids : phase[p] \in AppPhases}

\* kill -0 reaches a process until it is gone.
Alive(p) == phase[p] # "free"

IsRunning(file) == file # NoPid /\ Alive(file)

Free == {p \in Pids : /\ ~Alive(p)
                      /\ p \notin {supFile, appFile, op.pid}
                      /\ \A w \in Watchdogs : child[w] # p}
NewPid == Min(Free)

Init ==
    /\ phase = [p \in Pids |-> "free"]
    /\ child = [p \in Pids |-> NoPid]
    /\ supFile = NoPid /\ appFile = NoPid /\ port = NoPid
    /\ op = [at |-> "idle", cmd |-> "none", pid |-> NoPid]
    /\ commands = 0 /\ crashes = 0 /\ wanted = FALSE

-----------------------------------------------------------------------------
(* service.sh *)

At(here, there) == op.at = here /\ op' = [op EXCEPT !.at = there]

\* kill "$(cat FILE)" 2>/dev/null || true
Kill(file) ==
    phase' = IF IsRunning(file) THEN [phase EXCEPT ![file] = "exiting"] ELSE phase

Command(cmd) ==
    /\ op.at = "idle" /\ commands < MaxCommands
    /\ op' = [at |-> IF cmd = "start" THEN "test start" ELSE "test supervisor",
              cmd |-> cmd, pid |-> NoPid]
    /\ commands' = commands + 1
    /\ wanted' = (wanted /\ cmd = "start")
    /\ UNCHANGED <<phase, child, files, port, crashes>>

\* Deviation: no look at the pid file before a launch.
TestStartBlind ==
    /\ At("test start", "launch")
    /\ UNCHANGED <<phase, child, files, port, counters, wanted>>

TestStart ==
    /\ At("test start", IF IsRunning(supFile) THEN "idle" ELSE "launch")
    /\ UNCHANGED <<phase, child, files, port, counters, wanted>>

\* Popen of watchdog.sh in a session of its own
LaunchWatchdog ==
    /\ op.at = "launch" /\ Free # {}
    /\ phase' = [phase EXCEPT ![NewPid] = "loop"]
    /\ op' = [op EXCEPT !.at = "record", !.pid = NewPid]
    /\ UNCHANGED <<child, files, port, counters, wanted>>

RecordWatchdog ==
    /\ op.at = "record"
    /\ supFile' = op.pid
    /\ op' = [op EXCEPT !.at = "idle", !.pid = NoPid]
    /\ wanted' = (phase[op.pid] \in WatchdogPhases)
    /\ UNCHANGED <<phase, child, appFile, port, counters>>

\* Deviation: the pid file removed without a kill.
TestSupervisorNoKill ==
    /\ At("test supervisor", IF IsRunning(supFile) THEN "forget supervisor" ELSE "test app")
    /\ UNCHANGED <<phase, child, files, port, counters, wanted>>

TestSupervisor ==
    /\ At("test supervisor", IF IsRunning(supFile) THEN "kill supervisor" ELSE "test app")
    /\ UNCHANGED <<phase, child, files, port, counters, wanted>>

KillSupervisor ==
    /\ At("kill supervisor", "forget supervisor")
    /\ Kill(supFile)
    /\ UNCHANGED <<child, files, port, counters, wanted>>

ForgetSupervisor ==
    /\ At("forget supervisor", "test app")
    /\ supFile' = NoPid
    /\ UNCHANGED <<phase, child, appFile, port, counters, wanted>>

\* restart is stop; start
AfterStop == IF op.cmd = "restart" THEN "test start" ELSE "idle"

TestApp ==
    /\ At("test app", IF IsRunning(appFile) THEN "kill app" ELSE AfterStop)
    /\ UNCHANGED <<phase, child, files, port, counters, wanted>>

KillApp ==
    /\ At("kill app", "forget app")
    /\ Kill(appFile)
    /\ UNCHANGED <<child, files, port, counters, wanted>>

ForgetApp ==
    /\ At("forget app", AfterStop)
    /\ appFile' = NoPid
    /\ UNCHANGED <<phase, child, supFile, port, counters, wanted>>

Script == \/ TestStart      \/ LaunchWatchdog \/ RecordWatchdog
          \/ TestSupervisor \/ KillSupervisor \/ ForgetSupervisor
          \/ TestApp        \/ KillApp        \/ ForgetApp

-----------------------------------------------------------------------------
(* watchdog.sh *)

ForkApp(w) ==
    /\ phase[w] = "loop" /\ Free # {}
    /\ phase' = [phase EXCEPT ![w] = "forked", ![NewPid] = "launched"]
    /\ child' = [child EXCEPT ![w] = NewPid]
    /\ UNCHANGED <<files, port, op, counters, wanted>>

\* Deviation: the pid file written only when there is none.
RecordAppOnce(w) ==
    /\ phase[w] = "forked"
    /\ phase' = [phase EXCEPT ![w] = "waiting"]
    /\ appFile' = IF appFile = NoPid THEN child[w] ELSE appFile
    /\ UNCHANGED <<child, supFile, port, op, counters, wanted>>

RecordApp(w) ==
    /\ phase[w] = "forked"
    /\ phase' = [phase EXCEPT ![w] = "waiting"]
    /\ appFile' = child[w]
    /\ UNCHANGED <<child, supFile, port, op, counters, wanted>>

\* Deviation: `wait "$PID"` without `|| true` under set -e.
ReapAppStrict(w) ==
    /\ phase[w] = "waiting" /\ ~Alive(child[w])
    /\ phase' = [phase EXCEPT ![w] = "exiting"]
    /\ UNCHANGED <<child, files, port, op, counters, wanted>>

\* wait "$PID" || true
ReapApp(w) ==
    /\ phase[w] = "waiting" /\ ~Alive(child[w])
    /\ phase' = [phase EXCEPT ![w] = "pausing"]
    /\ UNCHANGED <<child, files, port, op, counters, wanted>>

WakeUp(w) ==
    /\ phase[w] = "pausing"
    /\ phase' = [phase EXCEPT ![w] = "loop"]
    /\ UNCHANGED <<child, files, port, op, counters, wanted>>

Watch(w) == ForkApp(w) \/ RecordApp(w) \/ ReapApp(w) \/ WakeUp(w)

-----------------------------------------------------------------------------
(* The server process: bind the port or exit *)

\* Deviation: a port shared between servers.
BindShared(a) ==
    /\ phase[a] = "launched"
    /\ port' = a
    /\ phase' = [phase EXCEPT ![a] = "serving"]
    /\ UNCHANGED <<child, files, op, counters, wanted>>

Bind(a) ==
    /\ phase[a] = "launched"
    /\ IF port = NoPid
       THEN port' = a /\ phase' = [phase EXCEPT ![a] = "serving"]
       ELSE port' = port /\ phase' = [phase EXCEPT ![a] = "exiting"]
    /\ UNCHANGED <<child, files, op, counters, wanted>>

\* The kernel ends an exiting process and closes what it held.
Exit(p) ==
    /\ phase[p] = "exiting"
    /\ phase' = [phase EXCEPT ![p] = "free"]
    /\ child' = [child EXCEPT ![p] = NoPid]
    /\ port' = IF port = p THEN NoPid ELSE port
    /\ UNCHANGED <<files, op, counters, wanted>>

Crash(p) ==
    /\ crashes < MaxCrashes
    /\ phase[p] \in WatchdogPhases \cup AppPhases
    /\ crashes' = crashes + 1
    /\ phase' = [phase EXCEPT ![p] = "exiting"]
    /\ wanted' = (wanted /\ phase[p] \in AppPhases)
    /\ UNCHANGED <<child, files, port, op, commands>>

Next ==
    \/ \E cmd \in {"start", "stop", "restart"} : Command(cmd)
    \/ Script
    \/ \E p \in Pids : Watch(p) \/ Bind(p) \/ Exit(p) \/ Crash(p)

Spec == Init /\ [][Next]_vars

\* The system runs every script, shell and server that can take a step; nobody
\* has to give a command, and nothing has to crash.
Fairness == /\ WF_vars(Script)
            /\ \A p \in Pids : WF_vars(Watch(p)) /\ WF_vars(Bind(p)) /\ WF_vars(Exit(p))

FairSpec == Spec /\ Fairness

-----------------------------------------------------------------------------
(* Properties *)

Phases == WatchdogPhases \cup AppPhases \cup {"free", "exiting"}

Lines == {"idle", "test start", "launch", "record", "test supervisor", "kill supervisor",
          "forget supervisor", "test app", "kill app", "forget app"}

\* Types, and: the port belongs to one server that has it or is giving it up.
Typed ==
    /\ phase \in [Pids -> Phases]
    /\ child \in [Pids -> Pids \cup {NoPid}]
    /\ {supFile, appFile, port} \subseteq Pids \cup {NoPid}
    /\ op \in [at : Lines, cmd : {"none", "start", "stop", "restart"}, pid : Pids \cup {NoPid}]
    /\ op.at = "record" => op.pid # NoPid
    /\ port # NoPid => phase[port] \in {"serving", "exiting"}
    /\ \A p \in Pids : phase[p] = "serving" => port = p

\* The same, and processes never run out, so that the bound NumPids hides nothing.
TypeOK == Typed /\ Free # {}

\* With one operator there is never more than one watchdog at work, across
\* restarts and crashes: two would fight for the port and for the pid file.
OneWatchdog == \A v, w \in Watchdogs : v = w

\* A watchdog at work can be found: once the start that launched it is done,
\* the supervisor's pid file names it until a stop has killed it.
WatchdogRecorded ==
    \A w \in Watchdogs : supFile = w \/ (op.at = "record" /\ op.pid = w)

\* While the watchdog waits for its server, the app's pid file names that
\* server, so that the next stop kills the right one.
AppRecorded == \A w \in Watchdogs : phase[w] = "waiting" => appFile = child[w]

\* Both pid files are true of what is at work, at every step of the scripts, the
\* watchdog and the crashes in between (service.sh:39-56, watchdog.sh:9-16).
PidFilesTrue == WatchdogRecorded /\ AppRecorded

\* As long as the service is wanted, it keeps coming back: whatever crashes, the
\* port is served again and again (watchdog.sh:9-16).
ServedWhileWanted == <>[]wanted => []<>(port # NoPid)

\* `stop` reports "stopped" (service.sh:55): when it is done and nothing has been
\* started since, no watchdog and no server is left at work.
StoppedMeansStopped ==
    (op.at = "idle" /\ op.cmd = "stop") => Watchdogs \cup Apps = {}
=============================================================================
