------------------------------- MODULE Tunnel -------------------------------
(***************************************************************************)
(* service/tunnel.sh: a pid file is all that its start, stop and restart   *)
(* know of the tunnel they keep.  service.sh keeps its watchdog in the     *)
(* same way.                                                               *)
(*                                                                         *)
(* Several operators run the script at once and interrupt it (Ctrl-C), the *)
(* tunnel dies by itself, and the kernel gives a free pid to any process,  *)
(* also while a pid file still names it.  A test of the pid file reads it  *)
(* first and then asks for the process.  The pid file is empty before it   *)
(* is written, and then like none: kill fails on "".  Its `url` and `logs` *)
(* only read the log of the tunnel, which is left out.                     *)
(***************************************************************************)
EXTENDS Naturals, Sequences

CONSTANTS
    Operators,
    Pids,
    NoPid         \* no pid file

ASSUME NoPidAssumption == NoPid \notin Pids

VARIABLES
    proc,       \* who has each pid: "free", "tunnel", "ending", "foreign"
    pidFile,    \* cloudflared.pid
    op,         \* each operator's run of the script
    excused     \* tunnels whose start was cut short or met another command

vars == <<proc, pidFile, op, excused>>

Alive(p) == p # NoPid /\ proc[p] # "free"
Running  == {p \in Pids : proc[p] = "tunnel"}

\* The functions of the script that a command runs
Functions == [start |-> <<"start">>, stop |-> <<"stop">>, restart |-> <<"stop", "start">>,
              status |-> <<"status">>]

Rest == [at |-> "rest", todo |-> <<>>, pid |-> NoPid, said |-> "nothing", alone |-> TRUE]

Busy(o) == op[o].at # "rest"
MetBy(o) == {other \in Operators \ {o} : Busy(other)}

Init ==
    /\ proc = [p \in Pids |-> "free"]
    /\ pidFile = NoPid
    /\ op = [o \in Operators |-> Rest]
    /\ excused = {}

-----------------------------------------------------------------------------
(* The script *)

Command(o, cmd) ==
    /\ ~Busy(o)
    /\ op' = [q \in Operators |->
                IF q = o
                THEN [at |-> "read", todo |-> Functions[cmd], pid |-> NoPid,
                      said |-> "nothing", alone |-> MetBy(o) = {}]
                ELSE [op[q] EXCEPT !.alone = ~Busy(q)]]
    /\ UNCHANGED <<proc, pidFile, excused>>

Doing(o) == Head(op[o].todo)

GoTo(o, there) == op' = [op EXCEPT ![o].at = there]

\* Deviation: a script that is over still has its function to do.
SayUndone(o, line) ==
    LET rest == IF line = "already running" THEN <<>> ELSE Tail(op[o].todo)
    IN  op' = [op EXCEPT ![o].pid = NoPid, ![o].said = line,
                         ![o].alone = @ \/ rest = <<>>,
                         ![o].at = IF rest = <<>> THEN "rest" ELSE "read"]

\* A function has printed its last line: the next one begins, unless it exits.
Say(o, line) ==
    LET rest == IF line = "already running" THEN <<>> ELSE Tail(op[o].todo)
    IN  op' = [op EXCEPT ![o].todo = rest, ![o].pid = NoPid, ![o].said = line,
                         ![o].alone = @ \/ rest = <<>>,
                         ![o].at = IF rest = <<>> THEN "rest" ELSE "read"]

\* cat "$PID_FILE", for the test of start, stop and status
ReadPidFile(o) ==
    /\ op[o].at = "read"
    /\ op' = [op EXCEPT ![o].at = "probe", ![o].pid = pidFile]
    /\ UNCHANGED <<proc, pidFile, excused>>

\* Deviation: a start that does not ask whether the process is there.
ProbeNot(o) ==
    /\ op[o].at = "probe"
    /\ CASE Doing(o) = "start"  -> GoTo(o, "launch")
         [] Doing(o) = "stop"   -> IF Alive(op[o].pid) THEN GoTo(o, "kill")
                                                       ELSE Say(o, "stopped")
         [] Doing(o) = "status" -> Say(o, IF Alive(op[o].pid) THEN "running" ELSE "stopped")
    /\ UNCHANGED <<proc, pidFile, excused>>

\* kill -0
Probe(o) ==
    /\ op[o].at = "probe"
    /\ CASE Doing(o) = "start"  -> IF Alive(op[o].pid) THEN Say(o, "already running")
                                                       ELSE GoTo(o, "launch")
         [] Doing(o) = "stop"   -> IF Alive(op[o].pid) THEN GoTo(o, "kill")
                                                       ELSE Say(o, "stopped")
         [] Doing(o) = "status" -> Say(o, IF Alive(op[o].pid) THEN "running" ELSE "stopped")
    /\ UNCHANGED <<proc, pidFile, excused>>

\* cloudflared, in a session of its own
Launch(o) ==
    /\ op[o].at = "launch"
    /\ \E p \in Pids :
        /\ proc[p] = "free"
        /\ proc' = [proc EXCEPT ![p] = "tunnel"]
        /\ op' = [op EXCEPT ![o].at = "record", ![o].pid = p]
        /\ excused' = IF MetBy(o) = {} THEN excused ELSE excused \cup {p}
    /\ UNCHANGED pidFile

\* Popen raises, python fails, and set -e ends the script.
FailToLaunch(o) ==
    /\ op[o].at = "launch"
    /\ op' = [op EXCEPT ![o] = Rest]
    /\ UNCHANGED <<proc, pidFile, excused>>

\* open(pid_file, "w")
Truncate(o) ==
    /\ op[o].at = "record"
    /\ pidFile' = NoPid
    /\ excused' = IF MetBy(o) = {} THEN excused ELSE excused \cup {op[o].pid}
    /\ GoTo(o, "write")
    /\ UNCHANGED proc

Record(o) ==
    /\ op[o].at = "write"
    /\ pidFile' = op[o].pid
    /\ excused' = IF MetBy(o) = {} THEN excused ELSE excused \cup {op[o].pid}
    /\ GoTo(o, "settle")
    /\ UNCHANGED proc

\* sleep 4, and the line that reports the pid
Settle(o) ==
    /\ op[o].at = "settle"
    /\ Say(o, "started")
    /\ UNCHANGED <<proc, pidFile, excused>>

\* Deviation: the pid file gone before its pid is killed.
KillForgotten(o) ==
    /\ op[o].at = "kill"
    /\ pidFile' = NoPid
    /\ GoTo(o, "forget")
    /\ UNCHANGED <<proc, excused>>

\* The pid file is read again.
Kill(o) ==
    /\ op[o].at = "kill"
    /\ IF Alive(pidFile)
       THEN proc' = [proc EXCEPT ![pidFile] = "ending"]
       ELSE UNCHANGED proc
    /\ GoTo(o, "forget")
    /\ UNCHANGED <<pidFile, excused>>

\* rm -f "$PID_FILE"
Forget(o) ==
    /\ op[o].at = "forget"
    /\ pidFile' = NoPid
    /\ Say(o, "stopped")
    /\ UNCHANGED <<proc, excused>>

\* Ctrl-C ends the script and its python, not what that has launched.
Interrupt(o) ==
    /\ Busy(o)
    /\ op' = [op EXCEPT ![o] = Rest]
    /\ excused' = IF op[o].at \in {"record", "write"} THEN excused \cup {op[o].pid} ELSE excused
    /\ UNCHANGED <<proc, pidFile>>

Script(o) ==
    \/ ReadPidFile(o) \/ Probe(o)
    \/ Launch(o) \/ FailToLaunch(o) \/ Truncate(o) \/ Record(o) \/ Settle(o)
    \/ Kill(o) \/ Forget(o)

-----------------------------------------------------------------------------
(* Processes *)

\* A process ends, by itself or because it was told to.
Exit(p) ==
    /\ Alive(p)
    /\ proc' = [proc EXCEPT ![p] = "free"]
    /\ excused' = excused \ {p}
    /\ UNCHANGED <<pidFile, op>>

Appear(p) ==
    /\ proc[p] = "free"
    /\ proc' = [proc EXCEPT ![p] = "foreign"]
    /\ UNCHANGED <<pidFile, op, excused>>

Next ==
    \/ \E o \in Operators :
        \/ \E cmd \in DOMAIN Functions : Command(o, cmd)
        \/ Script(o)
        \/ Interrupt(o)
    \/ \E p \in Pids : Exit(p) \/ Appear(p)

Spec == Init /\ [][Next]_vars

-----------------------------------------------------------------------------
(* Properties *)

\* A run that has launched a tunnel holds its pid, and one that is under way has
\* a function to do.
Runs ==
    {run \in [at    : {"rest", "read", "probe", "launch", "record", "write", "settle",
                       "kill", "forget"},
              todo  : {<<>>, <<"start">>, <<"stop">>, <<"stop", "start">>, <<"status">>},
              pid   : Pids \cup {NoPid},
              said  : {"nothing", "already running", "started", "stopped", "running"},
              alone : BOOLEAN] :
        /\ run.at \in {"record", "write", "settle"} => run.pid \in Pids
        /\ run.at = "rest" <=> run.todo = <<>>}

TypeOK ==
    /\ proc \in [Pids -> {"free", "tunnel", "ending", "foreign"}]
    /\ pidFile \in Pids \cup {NoPid}
    /\ op \in [Operators -> Runs]
    /\ excused \subseteq Pids

Recording == {op[o].pid : o \in {q \in Operators : op[q].at \in {"record", "write"}}}

\* A tunnel is lost from sight only for a cause: its start was cut short before
\* the pid file was written, or it was launched or recorded while another command
\* was under way.  The pid file names every other tunnel until a stop kills it
\* (tunnel.sh:12-33, 40-42: test, launch and record are not one step).
OrphanHasCause == Running \subseteq {pidFile} \cup Recording \cup excused

\* The line o prints in a step
Prints(o, line) == op[o].said # line /\ op'[o].said = line

\* A stop that met no other command leaves no tunnel behind but those already
\* lost for a cause (tunnel.sh:44 prints "stopped" either way).
StopStops ==
    [][\A o \in Operators :
        (Prints(o, "stopped") /\ op[o].alone) => Running' \subseteq excused']_vars
=============================================================================
