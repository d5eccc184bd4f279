-------------------------- MODULE SupervisorProofs --------------------------
(***************************************************************************)
(* Supervisor's safety, for any number of processes, commands and crashes. *)
(***************************************************************************)
EXTENDS Supervisor, WellFoundedInduction, TLAPS

-----------------------------------------------------------------------------
(* The inductive invariant *)

\* From its test to its record a start has no watchdog in the pid file, nor has a
\* stop between its kill and its rm.
SupervisorGone ==
    op.at \in {"launch", "record", "forget supervisor"} => supFile \notin Watchdogs

\* A stop that goes on to the server has no watchdog left.
NoWatchdogLeft == op.at \in {"test app", "kill app", "forget app"} => Watchdogs = {}

IInv == Typed /\ OneWatchdog /\ PidFilesTrue /\ SupervisorGone /\ NoWatchdogLeft

\* Nothing runs yet.
LEMMA InitIInv == Init => IInv
BY SupervisorAssumption
   DEF Init, IInv, Typed, Phases, Lines, OneWatchdog, PidFilesTrue, WatchdogRecorded,
       AppRecorded, SupervisorGone, NoWatchdogLeft, Watchdogs, WatchdogPhases, AppPhases

-----------------------------------------------------------------------------
(* Pids *)

\* Numbers have a least one.
LEMMA LeastNatural ==
    ASSUME NEW S \in SUBSET Nat, S # {} PROVE Min(S) \in S
<1> DEFINE R == OpToRel(<, Nat)
<1>1. IsWellFoundedOn(R, Nat)
    BY NatLessThanWellFounded
<1>2. \A x, y \in Nat : <<y, x>> \in R <=> y < x
    BY DEF OpToRel
<1> HIDE DEF R
<1>3. PICK x \in S : \A y \in S : ~(<<y, x>> \in R)
    BY <1>1, WFMin
<1>4. ASSUME NEW y \in S PROVE x <= y
    <2>1. x \in Nat /\ y \in Nat /\ ~(y < x)
        BY <1>2, <1>3
    <2> QED BY <2>1
<1> QED BY <1>4 DEF Min

\* The kernel's choice of a pid is one of the free ones.
LEMMA NewPidIsFree ==
    ASSUME Free # {} PROVE NewPid \in Free
<1>1. Free \in SUBSET Nat
    BY SupervisorAssumption DEF Free, Pids
<1> QED BY <1>1, LeastNatural DEF NewPid

-----------------------------------------------------------------------------
(* Every step keeps the invariant. *)


\* A step that launches no watchdog, and leaves the supervisor's file alone or has
\* none at work, keeps all but the types, and the server's pid file if that is kept.
LEMMA WatchdogsKept ==
    ASSUME IInv, Watchdogs' \subseteq Watchdogs,
           Watchdogs' = {} \/ (supFile' = supFile /\ op.at # "record"),
           op'.at \in {"launch", "record", "forget supervisor"}
                => supFile' \notin Watchdogs',
           op'.at \in {"test app", "kill app", "forget app"} => Watchdogs' = {},
           Typed', AppRecorded'
    PROVE  IInv'
<1>1. OneWatchdog'
    BY DEF IInv, OneWatchdog
<1>2. WatchdogRecorded'
    BY DEF IInv, PidFilesTrue, WatchdogRecorded
<1> QED BY <1>1, <1>2 DEF IInv, PidFilesTrue, SupervisorGone, NoWatchdogLeft

\* A process that takes a step of its own is no new watchdog.
LEMMA ProcessKept ==
    ASSUME IInv, Watchdogs' \subseteq Watchdogs, UNCHANGED <<supFile, op>>,
           Typed', AppRecorded'
    PROVE  IInv'
<1>1. OneWatchdog'
    BY DEF IInv, OneWatchdog
<1>2. WatchdogRecorded'
    BY DEF IInv, PidFilesTrue, WatchdogRecorded
<1>3. SupervisorGone' /\ NoWatchdogLeft'
    BY DEF IInv, SupervisorGone, NoWatchdogLeft
<1> QED BY <1>1, <1>2, <1>3 DEF IInv, PidFilesTrue

\* A step of the script that only tests or begins a command (service.sh:17-56)
LEMMA TestStep ==
    ASSUME IInv,
           \/ \E cmd \in {"start", "stop", "restart"} : Command(cmd)
           \/ TestStart \/ TestSupervisor \/ TestApp
    PROVE  IInv'
<1>1. /\ Typed /\ WatchdogRecorded /\ UNCHANGED <<phase, child, files, port>>
      /\ op.at # "record"
    BY DEF IInv, PidFilesTrue, Command, TestStart, TestSupervisor, TestApp, At
<1>2. Watchdogs' = Watchdogs /\ Watchdogs \subseteq Pids
    BY <1>1 DEF Watchdogs
<1>3. ~IsRunning(supFile) => supFile \notin Watchdogs
    BY SupervisorAssumption DEF IsRunning, Alive, Watchdogs, WatchdogPhases
<1>4. /\ op' \in [at : Lines, cmd : {"none", "start", "stop", "restart"},
                  pid : Pids \cup {NoPid}]
      /\ \/ op'.at \in {"idle", "test start", "test supervisor", "kill supervisor"}
         \/ op'.at = "launch" /\ ~IsRunning(supFile)
         \/ op'.at = "test app" /\ ~IsRunning(supFile)
         \/ op'.at = "kill app" /\ op.at = "test app"
    <2>1. CASE \E cmd \in {"start", "stop", "restart"} : Command(cmd)
        <3> PICK cmd \in {"start", "stop", "restart"} : Command(cmd)
            BY <2>1
        <3> DEFINE there == IF cmd = "start" THEN "test start" ELSE "test supervisor"
        <3>1. there \in {"test start", "test supervisor"}
            OBVIOUS
        <3>2. op' = [at |-> there, cmd |-> cmd, pid |-> NoPid]
            BY DEF Command
        <3> HIDE DEF there
        <3> QED BY <3>1, <3>2 DEF Lines
    <2>2. CASE TestStart
        BY <1>1, <2>2 DEF Typed, TestStart, At, Lines
    <2>3. CASE TestSupervisor
        BY <1>1, <2>3 DEF Typed, TestSupervisor, At, Lines
    <2>4. CASE TestApp
        <3>1. AfterStop \in {"idle", "test start"}
            BY DEF AfterStop
        <3> QED BY <1>1, <2>4, <3>1 DEF Typed, TestApp, At, Lines
    <2> QED BY <2>1, <2>2, <2>3, <2>4
<1>5. Typed'
    BY <1>1, <1>4 DEF Typed, files
<1>6. AppRecorded'
    BY <1>1, <1>2 DEF IInv, PidFilesTrue, AppRecorded, files
<1>7. op'.at \in {"launch", "record", "forget supervisor"} => supFile' \notin Watchdogs'
    BY <1>1, <1>2, <1>3, <1>4 DEF files
<1>8. op'.at \in {"test app", "kill app", "forget app"} => Watchdogs' = {}
    <2>1. supFile \notin Watchdogs => Watchdogs = {}
        BY <1>1 DEF WatchdogRecorded
    <2>2. op.at = "test app" => Watchdogs = {}
        BY DEF IInv, NoWatchdogLeft
    <2> QED BY <1>2, <1>3, <1>4, <2>1, <2>2
<1> QED BY <1>1, <1>2, <1>5, <1>6, <1>7, <1>8, WatchdogsKept DEF files

\* A kill makes no process a watchdog and leaves its port for the exit to give up
\* (service.sh:44, 49).
LEMMA KillKeeps ==
    ASSUME Typed, NEW file \in Pids \cup {NoPid}, Kill(file)
    PROVE  /\ phase' \in [Pids -> Phases]
           /\ \A p \in Pids : phase'[p] \in {phase[p], "exiting"}
           /\ \A p \in Pids : phase[p] = "free" => phase'[p] = "free"
           /\ file # NoPid => phase'[file] \in {"free", "exiting"}
BY SupervisorAssumption DEF Typed, Kill, IsRunning, Alive, Phases

\* The kills of a stop (service.sh:48, 52)
LEMMA KillStep ==
    ASSUME IInv, KillSupervisor \/ KillApp PROVE IInv'
<1> PICK file \in Pids \cup {NoPid} :
        /\ Kill(file) /\ UNCHANGED <<child, files, port>>
        /\ \/ file = supFile /\ op.at = "kill supervisor"
              /\ op' = [op EXCEPT !.at = "forget supervisor"]
           \/ op.at = "kill app" /\ op' = [op EXCEPT !.at = "forget app"]
    BY DEF IInv, Typed, KillSupervisor, KillApp, At
<1>1. Typed
    BY DEF IInv
<1>2. /\ phase' \in [Pids -> Phases]
      /\ \A p \in Pids : phase'[p] \in {phase[p], "exiting"}
      /\ \A p \in Pids : phase[p] = "free" => phase'[p] = "free"
      /\ file # NoPid => phase'[file] \in {"free", "exiting"}
    BY <1>1, KillKeeps
<1>3. Watchdogs' \subseteq Watchdogs
      /\ \A w \in Watchdogs' : phase'[w] = phase[w]
    BY <1>2 DEF Watchdogs, WatchdogPhases
<1>4. /\ op' \in [at : Lines, cmd : {"none", "start", "stop", "restart"},
                  pid : Pids \cup {NoPid}]
      /\ op'.at \in {"forget supervisor", "forget app"}
    BY <1>1 DEF Typed, Lines
<1>5. Typed'
    BY <1>1, <1>2, <1>4 DEF Typed, files
<1>6. AppRecorded'
    BY <1>3 DEF IInv, PidFilesTrue, AppRecorded, files
<1>7. op'.at = "forget supervisor" => supFile' \notin Watchdogs'
    BY <1>1, <1>2, SupervisorAssumption DEF Typed, Watchdogs, WatchdogPhases, files
<1>8. op'.at = "forget app" => Watchdogs' = {}
    BY <1>1, <1>3 DEF IInv, NoWatchdogLeft, Typed
<1> QED BY <1>3, <1>4, <1>5, <1>6, <1>7, <1>8, WatchdogsKept DEF files

\* The pid files are only removed when what they named is no watchdog, or none is
\* left (service.sh:49, 53).
LEMMA ForgetStep ==
    ASSUME IInv, ForgetSupervisor \/ ForgetApp PROVE IInv'
<1>1. /\ Typed /\ UNCHANGED <<phase, child, port>>
      /\ \/ op.at = "forget supervisor" /\ supFile' = NoPid /\ appFile' = appFile
         \/ op.at = "forget app" /\ supFile' = supFile /\ appFile' = NoPid
    BY DEF IInv, ForgetSupervisor, ForgetApp, At
<1>2. Watchdogs = {}
    <2>1. op.at = "forget supervisor" => Watchdogs = {}
        BY DEF IInv, PidFilesTrue, WatchdogRecorded, SupervisorGone
    <2> QED BY <1>1, <2>1 DEF IInv, NoWatchdogLeft
<1>3. Watchdogs' = {}
    BY <1>1, <1>2 DEF Watchdogs
<1>4. /\ op' \in [at : Lines, cmd : {"none", "start", "stop", "restart"},
                  pid : Pids \cup {NoPid}]
      /\ op'.at \in {"test app", "idle", "test start"}
    <2>1. AfterStop \in {"idle", "test start"}
        BY DEF AfterStop
    <2> QED BY <1>1, <2>1 DEF Typed, Lines, ForgetSupervisor, ForgetApp, At
<1>5. Typed'
    BY <1>1, <1>4 DEF Typed
<1>6. AppRecorded'
    BY <1>3 DEF AppRecorded
<1> QED BY <1>2, <1>3, <1>4, <1>5, <1>6, WatchdogsKept

\* A start that has found no watchdog in the pid file launches the only one
\* (service.sh:31-38).
LEMMA LaunchStep ==
    ASSUME IInv, LaunchWatchdog PROVE IInv'
<1>1. /\ Typed /\ op.at = "launch" /\ UNCHANGED <<child, files, port>>
      /\ phase' = [phase EXCEPT ![NewPid] = "loop"]
      /\ op' = [op EXCEPT !.at = "record", !.pid = NewPid]
    BY DEF IInv, LaunchWatchdog
<1>2. /\ NewPid \in Pids /\ phase[NewPid] = "free" /\ NewPid # supFile
    BY NewPidIsFree DEF LaunchWatchdog, Free, Alive
<1>3. Watchdogs = {} /\ Watchdogs' = {NewPid}
    <2>1. Watchdogs = {}
        BY <1>1 DEF IInv, PidFilesTrue, WatchdogRecorded, SupervisorGone
    <2> QED BY <1>1, <1>2, <2>1 DEF Typed, Watchdogs, WatchdogPhases
<1>4. op'.at = "record" /\ op'.pid = NewPid
      /\ op' \in [at : Lines, cmd : {"none", "start", "stop", "restart"},
                  pid : Pids \cup {NoPid}]
    BY <1>1, <1>2 DEF Typed, Lines
<1>5. Typed'
    BY <1>1, <1>2, <1>4, SupervisorAssumption DEF Typed, Phases, WatchdogPhases, files
<1>6. OneWatchdog' /\ WatchdogRecorded'
    BY <1>3, <1>4 DEF OneWatchdog, WatchdogRecorded
<1>7. AppRecorded'
    BY <1>1, <1>2, <1>3 DEF Typed, AppRecorded
<1>8. SupervisorGone' /\ NoWatchdogLeft'
    BY <1>1, <1>2, <1>3, <1>4 DEF SupervisorGone, NoWatchdogLeft, files
<1> QED BY <1>5, <1>6, <1>7, <1>8 DEF IInv, PidFilesTrue

\* What replaces the supervisor's pid file is the only watchdog (service.sh:39-40).
LEMMA RecordStep ==
    ASSUME IInv, RecordWatchdog PROVE IInv'
<1>1. /\ Typed /\ op.at = "record" /\ supFile' = op.pid
      /\ op' = [op EXCEPT !.at = "idle", !.pid = NoPid]
      /\ UNCHANGED <<phase, child, appFile, port>>
    BY DEF IInv, RecordWatchdog
<1>2. Watchdogs' = Watchdogs /\ Watchdogs \subseteq {op.pid}
    <2>1. Watchdogs \subseteq {op.pid}
        BY <1>1 DEF IInv, PidFilesTrue, WatchdogRecorded, SupervisorGone
    <2> QED BY <1>1, <2>1 DEF Watchdogs
<1>3. op'.at = "idle"
      /\ op' \in [at : Lines, cmd : {"none", "start", "stop", "restart"},
                  pid : Pids \cup {NoPid}]
    BY <1>1 DEF Typed, Lines
<1>4. Typed'
    BY <1>1, <1>3 DEF Typed
<1>5. OneWatchdog' /\ WatchdogRecorded'
    BY <1>1, <1>2 DEF OneWatchdog, WatchdogRecorded
<1>6. AppRecorded'
    BY <1>1, <1>2 DEF IInv, PidFilesTrue, AppRecorded
<1>7. SupervisorGone' /\ NoWatchdogLeft'
    BY <1>3 DEF SupervisorGone, NoWatchdogLeft
<1> QED BY <1>4, <1>5, <1>6, <1>7 DEF IInv, PidFilesTrue

\* The only watchdog forks, records and waits for its server (watchdog.sh:9-16).
LEMMA WatchStep ==
    ASSUME IInv, NEW w \in Pids, Watch(w) PROVE IInv'
<1>1. /\ Typed /\ w \in Watchdogs /\ UNCHANGED <<supFile, port, op>>
    BY DEF IInv, Watch, ForkApp, RecordApp, ReapApp, WakeUp, Watchdogs, WatchdogPhases, files
<1>2. Watchdogs = {w}
    BY <1>1 DEF IInv, OneWatchdog
<1>3. CASE ForkApp(w)
    <2>1. /\ NewPid \in Pids /\ phase[NewPid] = "free" /\ NewPid # w
        BY <1>1, <1>3, NewPidIsFree DEF ForkApp, Free, Alive, Watchdogs, WatchdogPhases
    <2>2. /\ phase'[w] = "forked" /\ phase'[NewPid] = "launched"
          /\ \A p \in Pids \ {w, NewPid} : phase'[p] = phase[p]
          /\ phase' \in [Pids -> Phases] /\ child' \in [Pids -> Pids \cup {NoPid}]
          /\ appFile' = appFile
        BY <1>1, <1>3, <2>1
           DEF Typed, ForkApp, Phases, WatchdogPhases, AppPhases, files
    <2>3. Watchdogs' \subseteq {w}
        BY <1>2, <2>2 DEF Watchdogs, WatchdogPhases
    <2>4. Typed'
        BY <1>1, <1>3, <2>1, <2>2 DEF Typed, ForkApp
    <2>5. AppRecorded'
        BY <2>2, <2>3 DEF AppRecorded
    <2> QED BY <1>1, <1>2, <2>3, <2>4, <2>5, ProcessKept
<1>4. CASE RecordApp(w) \/ ReapApp(w) \/ WakeUp(w)
    <2>1. /\ child' = child /\ phase[w] \in WatchdogPhases
          /\ \/ phase' = [phase EXCEPT ![w] = "waiting"] /\ appFile' = child[w]
             \/ phase' = [phase EXCEPT ![w] = "pausing"] /\ appFile' = appFile
             \/ phase' = [phase EXCEPT ![w] = "loop"] /\ appFile' = appFile
        BY <1>4 DEF RecordApp, ReapApp, WakeUp, WatchdogPhases, files
    <2>2. Watchdogs' \subseteq {w}
        BY <1>1, <1>2, <2>1 DEF Typed, Watchdogs
    <2>3. Typed'
        BY <1>1, <2>1 DEF Typed, Phases, WatchdogPhases
    <2>4. AppRecorded'
        BY <1>1, <2>1, <2>2 DEF Typed, AppRecorded
    <2> QED BY <1>1, <1>2, <2>2, <2>3, <2>4, ProcessKept
<1> QED BY <1>3, <1>4 DEF Watch

\* Servers bind and end, and any process may crash (main.rs:112-124).
LEMMA ProcessStep ==
    ASSUME IInv, NEW p \in Pids, Bind(p) \/ Exit(p) \/ Crash(p) PROVE IInv'
<1>1. /\ Typed /\ UNCHANGED <<files, op>>
      /\ child' \in {child, [child EXCEPT ![p] = NoPid]}
      /\ \/ phase' = [phase EXCEPT ![p] = "serving"] /\ port' = p /\ port = NoPid
            /\ child' = child
         \/ phase' = [phase EXCEPT ![p] = "exiting"] /\ port' = port /\ child' = child
         \/ phase' = [phase EXCEPT ![p] = "free"] /\ phase[p] = "exiting"
            /\ port' = IF port = p THEN NoPid ELSE port
    BY DEF IInv, Bind, Exit, Crash
<1>2. phase' \in [Pids -> Phases] /\ child' \in [Pids -> Pids \cup {NoPid}]
    BY <1>1 DEF Typed, Phases, WatchdogPhases, AppPhases
<1>3. Watchdogs' \subseteq Watchdogs /\ p \notin Watchdogs'
    BY <1>1 DEF Typed, Watchdogs, WatchdogPhases
<1>4. \A w \in Watchdogs' : phase'[w] = phase[w] /\ child'[w] = child[w]
    BY <1>1, <1>3 DEF Typed, Watchdogs
<1>5. Typed'
    BY <1>1, <1>2, SupervisorAssumption DEF Typed, files
<1>6. AppRecorded'
    BY <1>1, <1>3, <1>4 DEF IInv, PidFilesTrue, AppRecorded, files
<1> QED BY <1>1, <1>3, <1>5, <1>6, ProcessKept DEF files

\* Every step keeps the inductive invariant.
LEMMA NextIInv == IInv /\ [Next]_vars => IInv'
<1> SUFFICES ASSUME IInv, [Next]_vars PROVE IInv'
    OBVIOUS
<1>1. CASE Next
    BY <1>1, TestStep, KillStep, ForgetStep, LaunchStep, RecordStep, WatchStep, ProcessStep
       DEF Next, Script
<1>2. CASE UNCHANGED vars
    BY <1>2 DEF vars, files, IInv, Typed, OneWatchdog, PidFilesTrue, WatchdogRecorded,
                AppRecorded, SupervisorGone, NoWatchdogLeft, Watchdogs
<1> QED BY <1>1, <1>2

-----------------------------------------------------------------------------
(* Theorems *)

\* The scripts' tests and pid files agree with what is at work in every state.
THEOREM Invariance == Spec => []IInv
BY InitIInv, NextIInv, PTL DEF Spec

\* The port belongs to one server that has it or is giving it up (main.rs:112).
THEOREM TypeCorrect == Spec => []Typed
<1>1. IInv => Typed
    BY DEF IInv
<1> QED BY <1>1, Invariance, PTL

\* With one operator there is never more than one watchdog at work, for any number
\* of commands, crashes and processes (service.sh:18-56).
THEOREM OnlyOneWatchdog == Spec => []OneWatchdog
<1>1. IInv => OneWatchdog
    BY DEF IInv
<1> QED BY <1>1, Invariance, PTL

\* Both pid files are true of what is at work (service.sh:39-56, watchdog.sh:9-16).
THEOREM PidFilesAreTrue == Spec => []PidFilesTrue
<1>1. IInv => PidFilesTrue
    BY DEF IInv
<1> QED BY <1>1, Invariance, PTL
=============================================================================
