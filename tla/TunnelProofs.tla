---------------------------- MODULE TunnelProofs ----------------------------
(***************************************************************************)
(* Tunnel's safety, for any number of operators and of pids.               *)
(***************************************************************************)
EXTENDS Tunnel, TLAPS

-----------------------------------------------------------------------------
(* The inductive invariant *)

\* A tunnel nobody has an excuse for
Accounted(p) == p \in Running /\ p \notin excused

\* While the pid file names an accounted tunnel nobody is beyond its test: who
\* has read the file has read this pid, and who has launched has launched it (the
\* kernel may give a tunnel the pid a stale file names).
FileGuards ==
    Accounted(pidFile) =>
        \A o \in Operators :
            /\ op[o].at \notin {"launch", "write", "forget"}
            /\ op[o].at \in {"probe", "record"} => op[o].pid = pidFile

\* A run that has met no other command is the only one.
AloneIsAlone == \A o \in Operators : Busy(o) /\ op[o].alone => MetBy(o) = {}

IInv == TypeOK /\ OrphanHasCause /\ FileGuards /\ AloneIsAlone

\* Nobody has run the script yet.
LEMMA InitIInv == Init => IInv
BY NoPidAssumption
   DEF Init, IInv, TypeOK, Runs, OrphanHasCause, FileGuards, Accounted, AloneIsAlone,
       Running, Busy, Rest

-----------------------------------------------------------------------------
(* What a line of the script does to the run *)

\* o's run goes on as run.
Steps(o, run) == run \in Runs /\ op' = [op EXCEPT ![o] = run]

\* The runs of the others keep their places, and none has come or gone.
LEMMA OnlyOne ==
    ASSUME TypeOK, NEW o \in Operators, NEW run, Steps(o, run)
    PROVE  /\ op' \in [Operators -> Runs] /\ op'[o] = run
           /\ \A q \in Operators \ {o} : op'[q] = op[q]
           /\ MetBy(o)' = MetBy(o)
BY DEF TypeOK, Steps, MetBy, Busy

\* Going on to another line keeps all else of the run (tunnel.sh:17-29, 41-43).
LEMMA GoToSteps ==
    ASSUME TypeOK, NEW o \in Operators, Busy(o),
           NEW there \in {"launch", "write", "settle", "kill", "forget"}, GoTo(o, there),
           there \in {"write", "settle"} => op[o].pid \in Pids
    PROVE  Steps(o, [op[o] EXCEPT !.at = there])
BY DEF TypeOK, Steps, GoTo, Busy, Runs

\* What is left of a command after its first function
LEMMA Tails ==
    /\ Tail(<<"start">>) = <<>> /\ Tail(<<"stop">>) = <<>> /\ Tail(<<"status">>) = <<>>
    /\ Tail(<<"stop", "start">>) = <<"start">>
<1>1. Tail(<<"start">>) = <<>> /\ Tail(<<"stop">>) = <<>> /\ Tail(<<"status">>) = <<>>
    OBVIOUS
<1>2. Tail(<<"stop", "start">>) = <<"start">>
    OBVIOUS
<1> QED BY <1>1, <1>2

\* A run under way has one of the functions to do (tunnel.sh:74-85).
LEMMA DoingWhat ==
    ASSUME NEW o \in Operators, Busy(o), op[o] \in Runs
    PROVE  Doing(o) \in {"start", "stop", "status"}
<1>1. op[o].todo \in {<<"start">>, <<"stop">>, <<"stop", "start">>, <<"status">>}
    BY DEF Runs, Busy
<1> QED BY <1>1 DEF Doing

\* Printing the last line of a function ends the run or begins its next function
\* (tunnel.sh:13-55).
LEMMA SaySteps ==
    ASSUME TypeOK, NEW o \in Operators, Busy(o),
           NEW line \in {"already running", "started", "stopped", "running"}, Say(o, line)
    PROVE  /\ Steps(o, op'[o])
           /\ op'[o].at \in {"rest", "read"} /\ op'[o].said = line
           /\ op'[o].alone = (op[o].alone \/ op'[o].at = "rest")
<1> DEFINE rest == IF line = "already running" THEN <<>> ELSE Tail(op[o].todo)
           run  == [op[o] EXCEPT !.todo = rest, !.pid = NoPid, !.said = line,
                                 !.alone = op[o].alone \/ rest = <<>>,
                                 !.at = IF rest = <<>> THEN "rest" ELSE "read"]
<1>1. op[o] \in Runs /\ op[o].todo # <<>>
    BY DEF TypeOK, Busy, Runs
<1>2. rest \in {<<>>, <<"start">>}
    <2>1. op[o].todo \in {<<"start">>, <<"stop">>, <<"stop", "start">>, <<"status">>}
        BY <1>1 DEF Runs
    <2> QED BY <2>1, Tails
<1>3. run \in Runs
    <2> HIDE DEF rest
    <2> QED BY <1>1, <1>2 DEF Runs
<1>4. op' = [op EXCEPT ![o] = run] /\ op'[o] = run
    BY DEF TypeOK, Say
<1>5. /\ run.at \in {"rest", "read"} /\ run.said = line
      /\ run.alone = (op[o].alone \/ run.at = "rest")
    <2> HIDE DEF rest
    <2> QED BY <1>1 DEF Runs
<1> HIDE DEF run
<1> QED BY <1>3, <1>4, <1>5 DEF Steps

-----------------------------------------------------------------------------
(* Every step keeps the invariant. *)

\* A run of the script that is under way leaves the others as alone as they were,
\* if it does not itself become so.
LEMMA AloneStep ==
    ASSUME IInv, NEW o \in Operators, Busy(o), NEW run, Steps(o, run),
           run.at # "rest" /\ run.alone => op[o].alone
    PROVE  AloneIsAlone'
<1> SUFFICES ASSUME NEW q \in Operators, Busy(q)', op'[q].alone PROVE MetBy(q)' = {}
    BY DEF AloneIsAlone
<1>1. TypeOK /\ AloneIsAlone
    BY DEF IInv
<1>2. CASE q = o
    BY <1>1, <1>2, OnlyOne DEF AloneIsAlone, Busy
<1>3. CASE q # o
    <2>1. Busy(q) /\ op[q].alone
        BY <1>1, <1>3, OnlyOne DEF Busy
    <2>2. o \in MetBy(q)
        BY <1>3 DEF MetBy
    <2> QED BY <1>1, <2>1, <2>2 DEF AloneIsAlone
<1> QED BY <1>2, <1>3

\* A step that only moves a run keeps the invariant if it does not go beyond the
\* test while an accounted tunnel is in the file, nor drops a pid on its way to it.
LEMMA MoveStep ==
    ASSUME IInv, NEW o \in Operators, Busy(o), NEW run, Steps(o, run),
           UNCHANGED <<proc, pidFile, excused>>,
           op[o].at \notin {"record", "write"},
           run.at # "rest" /\ run.alone => op[o].alone,
           Accounted(pidFile) => /\ run.at \notin {"launch", "write", "forget"}
                                 /\ run.at \in {"probe", "record"} => run.pid = pidFile
    PROVE  IInv'
<1>1. TypeOK /\ op' \in [Operators -> Runs] /\ op'[o] = run
      /\ \A q \in Operators \ {o} : op'[q] = op[q]
    BY OnlyOne DEF IInv
<1>2. TypeOK'
    BY <1>1 DEF TypeOK
<1>3. Recording \subseteq Recording' /\ Running' = Running
    BY <1>1 DEF Recording, Running
<1>4. OrphanHasCause'
    BY <1>3 DEF IInv, OrphanHasCause
<1>5. FileGuards'
    BY <1>1, <1>3 DEF IInv, FileGuards, Accounted
<1> QED BY <1>2, <1>4, <1>5, AloneStep DEF IInv

\* A command starts by reading the pid file, whoever else is at work.
LEMMA CommandStep ==
    ASSUME IInv, NEW o \in Operators, NEW cmd \in DOMAIN Functions, Command(o, cmd)
    PROVE  IInv'
<1>1. TypeOK /\ ~Busy(o) /\ UNCHANGED <<proc, pidFile, excused>>
    BY DEF IInv, Command
<1>2. Functions[cmd] \in {<<"start">>, <<"stop">>, <<"stop", "start">>, <<"status">>}
    BY DEF Functions
<1>3. /\ op'[o] = [at |-> "read", todo |-> Functions[cmd], pid |-> NoPid,
                   said |-> "nothing", alone |-> MetBy(o) = {}]
      /\ \A q \in Operators \ {o} : op'[q] = [op[q] EXCEPT !.alone = ~Busy(q)]
    BY DEF Command
<1>4. \A q \in Operators \ {o} : /\ op'[q].at = op[q].at /\ op'[q].pid = op[q].pid
                                 /\ op'[q].alone = ~Busy(q)
    BY <1>1, <1>3 DEF TypeOK, Runs
<1>5. op' \in [Operators -> Runs]
    <2>1. op'[o] \in Runs
        BY <1>2, <1>3 DEF Runs
    <2>2. \A q \in Operators \ {o} : op'[q] \in Runs
        <3> SUFFICES ASSUME NEW q \in Operators \ {o} PROVE op'[q] \in Runs
            OBVIOUS
        <3>1. op[q] \in Runs
            BY <1>1 DEF TypeOK
        <3>2. \E b \in BOOLEAN : op'[q] = [op[q] EXCEPT !.alone = b]
            BY <1>3
        <3> QED BY <3>1, <3>2 DEF Runs
    <2>3. op' = [q \in Operators |-> op'[q]]
        BY DEF Command
    <2> QED BY <2>1, <2>2, <2>3
<1>6. TypeOK'
    BY <1>1, <1>5 DEF TypeOK
<1>7. Recording \subseteq Recording' /\ Running' = Running
    <2>1. op[o].at = "rest"
        BY <1>1 DEF Busy
    <2> QED BY <1>1, <1>4, <2>1 DEF Recording, Running
<1>8. OrphanHasCause'
    BY <1>1, <1>7 DEF IInv, OrphanHasCause
<1>9. FileGuards'
    BY <1>1, <1>3, <1>4, <1>7 DEF IInv, FileGuards, Accounted
<1>10. AloneIsAlone'
    <2> SUFFICES ASSUME NEW q \in Operators, Busy(q)', op'[q].alone PROVE MetBy(q)' = {}
        BY DEF AloneIsAlone
    <2>1. q = o
        BY <1>4 DEF Busy
    <2>2. MetBy(o)' = MetBy(o)
        BY <1>4 DEF MetBy, Busy
    <2>3. op'[o].alone = (MetBy(o) = {})
        BY <1>3
    <2>4. MetBy(o) = {}
        BY <2>1, <2>3
    <2> QED BY <2>1, <2>2, <2>4
<1> QED BY <1>6, <1>8, <1>9, <1>10 DEF IInv

\* Reading, testing, reporting and failing to launch only move the run
\* (tunnel.sh:13-16, 31-32, 36, 41, 48-53).
LEMMA QuietSteps ==
    ASSUME IInv, NEW o \in Operators,
           ReadPidFile(o) \/ Probe(o) \/ FailToLaunch(o) \/ Settle(o)
    PROVE  IInv'
<1>0. TypeOK /\ op[o] \in Runs /\ UNCHANGED <<proc, pidFile, excused>>
    BY DEF IInv, TypeOK, ReadPidFile, Probe, FailToLaunch, Settle
<1>1. CASE ReadPidFile(o)
    <2> DEFINE run == [op[o] EXCEPT !.at = "probe", !.pid = pidFile]
    <2>1. Steps(o, run)
        BY <1>0, <1>1 DEF ReadPidFile, TypeOK, Steps, Runs
    <2>2. /\ run.at = "probe" /\ run.pid = pidFile /\ run.alone = op[o].alone
          /\ op[o].at = "read"
        BY <1>0, <1>1 DEF ReadPidFile, Runs
    <2> HIDE DEF run
    <2> QED BY <1>0, <2>1, <2>2, MoveStep DEF Busy
<1>2. CASE Probe(o)
    <2>1. op[o].at = "probe" /\ Busy(o)
        BY <1>2 DEF Probe, Busy
    <2>2. Accounted(pidFile) => Alive(op[o].pid)
        BY <1>0, <2>1, NoPidAssumption
           DEF IInv, FileGuards, Accounted, Running, Alive
    <2>3. ASSUME NEW there \in {"launch", "kill"}, GoTo(o, there),
                 there = "launch" => ~Alive(op[o].pid)
          PROVE  IInv'
        <3> DEFINE run == [op[o] EXCEPT !.at = there]
        <3>1. Steps(o, run)
            BY <1>0, <2>1, <2>3, GoToSteps
        <3>2. run.at = there /\ run.alone = op[o].alone
            BY <1>0 DEF Runs
        <3> HIDE DEF run
        <3> QED BY <1>0, <2>1, <2>2, <2>3, <3>1, <3>2, MoveStep
    <2>4. ASSUME NEW line \in {"already running", "stopped", "running"}, Say(o, line)
          PROVE  IInv'
        <3> DEFINE run == op'[o]
        <3>1. /\ Steps(o, run) /\ run.at \in {"rest", "read"}
              /\ run.at # "rest" /\ run.alone => op[o].alone
            BY <1>0, <2>1, <2>4, SaySteps
        <3> HIDE DEF run
        <3> QED BY <1>0, <2>1, <3>1, MoveStep
    <2>5. Doing(o) \in {"start", "stop", "status"}
        BY <1>0, <2>1, DoingWhat
    <2> QED BY <1>2, <2>3, <2>4, <2>5 DEF Probe
<1>3. CASE FailToLaunch(o)
    <2>1. Steps(o, Rest) /\ Rest.at = "rest" /\ op[o].at = "launch"
        BY <1>3 DEF FailToLaunch, Steps, Rest, Runs
    <2> QED BY <1>0, <2>1, MoveStep DEF Busy
<1>4. CASE Settle(o)
    <2> DEFINE run == op'[o]
    <2>1. op[o].at = "settle" /\ Busy(o) /\ Say(o, "started")
        BY <1>4 DEF Settle, Busy
    <2>2. /\ Steps(o, run) /\ run.at \in {"rest", "read"}
          /\ run.at # "rest" /\ run.alone => op[o].alone
        BY <1>0, <2>1, SaySteps
    <2> HIDE DEF run
    <2> QED BY <1>0, <2>1, <2>2, MoveStep
<1> QED BY <1>1, <1>2, <1>3, <1>4

\* A tunnel launched in company is excused; one launched alone finds nobody who
\* could have read a file that happens to name its pid (tunnel.sh:18-28).
LEMMA LaunchStep ==
    ASSUME IInv, NEW o \in Operators, Launch(o) PROVE IInv'
<1> PICK p \in Pids :
        /\ proc[p] = "free"
        /\ proc' = [proc EXCEPT ![p] = "tunnel"]
        /\ op' = [op EXCEPT ![o].at = "record", ![o].pid = p]
        /\ excused' = IF MetBy(o) = {} THEN excused ELSE excused \cup {p}
    BY DEF Launch
<1> DEFINE run == [op[o] EXCEPT !.at = "record", !.pid = p]
<1>1. TypeOK /\ op[o] \in Runs /\ op[o].at = "launch" /\ Busy(o) /\ pidFile' = pidFile
    BY DEF IInv, TypeOK, Launch, Busy
<1>2. Steps(o, run) /\ run.at = "record" /\ run.pid = p /\ run.alone = op[o].alone
    BY <1>1 DEF TypeOK, Steps, Runs
<1> HIDE DEF run
<1>3. /\ op' \in [Operators -> Runs] /\ op'[o] = run
      /\ \A q \in Operators \ {o} : op'[q] = op[q]
    BY <1>1, <1>2, OnlyOne
<1>4. TypeOK'
    BY <1>1, <1>3 DEF TypeOK
<1>5. Running' = Running \cup {p} /\ excused \subseteq excused'
    BY <1>1 DEF Running, TypeOK
<1>6. p \in Recording' /\ Recording \subseteq Recording'
    BY <1>1, <1>2, <1>3 DEF Recording
<1>7. OrphanHasCause'
    BY <1>1, <1>5, <1>6 DEF IInv, OrphanHasCause
<1>8. FileGuards'
    <2> SUFFICES ASSUME Accounted(pidFile)', NEW q \in Operators
                 PROVE  /\ op'[q].at \notin {"launch", "write", "forget"}
                        /\ op'[q].at \in {"probe", "record"} => op'[q].pid = pidFile'
        BY DEF FileGuards
    <2>1. ~Accounted(pidFile)
        BY <1>1 DEF IInv, FileGuards
    <2>2. pidFile = p /\ p \notin excused'
        BY <1>1, <1>5, <2>1 DEF Accounted
    <2>3. q # o => op'[q].at = "rest"
        BY <1>3, <2>2 DEF MetBy, Busy
    <2> QED BY <1>1, <1>2, <1>3, <2>2, <2>3
<1> QED BY <1>1, <1>2, <1>4, <1>7, <1>8, AloneStep DEF IInv

\* The file is only emptied by a start that has seen no accounted tunnel in it
\* (tunnel.sh:27).
LEMMA TruncateStep ==
    ASSUME IInv, NEW o \in Operators, Truncate(o) PROVE IInv'
<1> DEFINE run == [op[o] EXCEPT !.at = "write"]
<1>1. /\ TypeOK /\ op[o] \in Runs /\ op[o].at = "record" /\ Busy(o)
      /\ op[o].pid \in Pids /\ pidFile' = NoPid /\ proc' = proc
      /\ excused' \in {excused, excused \cup {op[o].pid}}
    BY DEF IInv, TypeOK, Truncate, Busy, Runs
<1>2. Steps(o, run) /\ run.at = "write" /\ run.pid = op[o].pid /\ run.alone = op[o].alone
    <2>1. Steps(o, run)
        BY <1>1, GoToSteps DEF Truncate
    <2> QED BY <1>1, <2>1 DEF Runs
<1> HIDE DEF run
<1>3. /\ op' \in [Operators -> Runs] /\ op'[o] = run
      /\ \A q \in Operators \ {o} : op'[q] = op[q]
    BY <1>1, <1>2, OnlyOne
<1>4. TypeOK'
    BY <1>1, <1>3 DEF TypeOK
<1>5. Running' = Running /\ Recording \subseteq Recording' /\ op[o].pid \in Recording'
    BY <1>1, <1>2, <1>3 DEF Running, Recording
<1>6. Accounted(pidFile) => pidFile = op[o].pid
    BY <1>1 DEF IInv, FileGuards
<1>7. OrphanHasCause'
    BY <1>1, <1>5, <1>6 DEF IInv, OrphanHasCause, Accounted
<1>8. FileGuards'
    BY <1>1, NoPidAssumption DEF FileGuards, Accounted, Running
<1> QED BY <1>1, <1>2, <1>4, <1>7, <1>8, AloneStep DEF IInv

\* The pid that replaces what the file said is its own, unless it is excused
\* (tunnel.sh:28).
LEMMA RecordStep ==
    ASSUME IInv, NEW o \in Operators, Record(o) PROVE IInv'
<1> DEFINE run == [op[o] EXCEPT !.at = "settle"]
<1>1. /\ TypeOK /\ op[o] \in Runs /\ op[o].at = "write" /\ Busy(o)
      /\ op[o].pid \in Pids /\ pidFile' = op[o].pid /\ proc' = proc
      /\ excused' = IF MetBy(o) = {} THEN excused ELSE excused \cup {op[o].pid}
    BY DEF IInv, TypeOK, Record, Busy, Runs
<1>2. Steps(o, run) /\ run.at = "settle" /\ run.alone = op[o].alone
    <2>1. Steps(o, run)
        BY <1>1, GoToSteps DEF Record
    <2> QED BY <1>1, <2>1 DEF Runs
<1> HIDE DEF run
<1>3. /\ op' \in [Operators -> Runs] /\ op'[o] = run
      /\ \A q \in Operators \ {o} : op'[q] = op[q]
    BY <1>1, <1>2, OnlyOne
<1>4. TypeOK'
    BY <1>1, <1>3 DEF TypeOK
<1>5. Running' = Running /\ Recording \subseteq Recording' \cup {op[o].pid}
    BY <1>1, <1>3 DEF Running, Recording
<1>6. ~Accounted(pidFile)
    BY <1>1 DEF IInv, FileGuards
<1>7. OrphanHasCause'
    BY <1>1, <1>5, <1>6 DEF IInv, OrphanHasCause, Accounted
<1>8. FileGuards'
    <2> SUFFICES ASSUME Accounted(pidFile)', NEW q \in Operators
                 PROVE  op'[q].at \in {"rest", "settle"}
        BY DEF FileGuards
    <2>1. MetBy(o) = {}
        BY <1>1 DEF Accounted
    <2> QED BY <1>2, <1>3, <2>1 DEF MetBy, Busy
<1> QED BY <1>1, <1>2, <1>4, <1>7, <1>8, AloneStep DEF IInv

\* What the file names when it is read again is no tunnel any more
\* (tunnel.sh:42).
LEMMA KillStep ==
    ASSUME IInv, NEW o \in Operators, Kill(o) PROVE IInv'
<1> DEFINE run == [op[o] EXCEPT !.at = "forget"]
<1>1. /\ TypeOK /\ op[o] \in Runs /\ op[o].at = "kill" /\ Busy(o)
      /\ pidFile' = pidFile /\ excused' = excused
      /\ proc' = IF Alive(pidFile) THEN [proc EXCEPT ![pidFile] = "ending"] ELSE proc
    BY DEF IInv, TypeOK, Kill, Busy
<1>2. Steps(o, run) /\ run.at = "forget" /\ run.alone = op[o].alone
    <2>1. Steps(o, run)
        BY <1>1, GoToSteps DEF Kill
    <2> QED BY <1>1, <2>1 DEF Runs
<1> HIDE DEF run
<1>3. /\ op' \in [Operators -> Runs] /\ op'[o] = run
      /\ \A q \in Operators \ {o} : op'[q] = op[q]
    BY <1>1, <1>2, OnlyOne
<1>4. TypeOK'
    BY <1>1, <1>3 DEF TypeOK, Alive
<1>5. Running' = Running \ {pidFile} /\ Recording \subseteq Recording'
    <2>1. Running' = Running \ {pidFile}
        BY <1>1, NoPidAssumption DEF TypeOK, Alive, Running
    <2> QED BY <1>1, <1>3, <2>1 DEF Recording
<1>6. OrphanHasCause'
    BY <1>1, <1>5 DEF IInv, OrphanHasCause
<1>7. FileGuards'
    BY <1>1, <1>5 DEF FileGuards, Accounted
<1> QED BY <1>1, <1>2, <1>4, <1>6, <1>7, AloneStep DEF IInv

\* Nothing accounted is in the file that a stop removes (tunnel.sh:42-43).
LEMMA ForgetStep ==
    ASSUME IInv, NEW o \in Operators, Forget(o) PROVE IInv'
<1> DEFINE run == op'[o]
<1>1. /\ TypeOK /\ op[o] \in Runs /\ op[o].at = "forget" /\ Busy(o)
      /\ pidFile' = NoPid /\ UNCHANGED <<proc, excused>>
    BY DEF IInv, TypeOK, Forget, Busy
<1>2. /\ Steps(o, run) /\ run.at \in {"rest", "read"}
      /\ run.at # "rest" /\ run.alone => op[o].alone
    BY <1>1, SaySteps DEF Forget
<1>3. /\ op' \in [Operators -> Runs]
      /\ \A q \in Operators \ {o} : op'[q] = op[q]
    BY <1>1, <1>2, OnlyOne
<1> HIDE DEF run
<1>4. TypeOK'
    BY <1>1, <1>3 DEF TypeOK
<1>5. Running' = Running /\ Recording \subseteq Recording'
    BY <1>1, <1>3 DEF Running, Recording
<1>6. ~Accounted(pidFile)
    BY <1>1 DEF IInv, FileGuards
<1>7. OrphanHasCause'
    BY <1>1, <1>5, <1>6 DEF IInv, OrphanHasCause, Accounted
<1>8. FileGuards'
    BY <1>1, NoPidAssumption DEF FileGuards, Accounted, Running
<1> QED BY <1>1, <1>2, <1>4, <1>7, <1>8, AloneStep DEF IInv

\* Ctrl-C is the excuse of what has been launched and not yet recorded.
LEMMA InterruptStep ==
    ASSUME IInv, NEW o \in Operators, Interrupt(o) PROVE IInv'
<1>1. /\ TypeOK /\ Busy(o) /\ UNCHANGED <<proc, pidFile>>
      /\ excused' = IF op[o].at \in {"record", "write"} THEN excused \cup {op[o].pid}
                                                        ELSE excused
    BY DEF IInv, Interrupt
<1>2. Steps(o, Rest) /\ Rest.at = "rest"
    BY DEF Interrupt, Steps, Rest, Runs
<1>3. /\ op' \in [Operators -> Runs] /\ op'[o] = Rest
      /\ \A q \in Operators \ {o} : op'[q] = op[q]
    BY <1>1, <1>2, OnlyOne
<1>4. TypeOK'
    BY <1>1, <1>3 DEF TypeOK, Runs
<1>5. Running' = Running /\ Recording \cup excused \subseteq Recording' \cup excused'
    BY <1>1, <1>2, <1>3 DEF Running, Recording
<1>6. OrphanHasCause'
    BY <1>1, <1>5 DEF IInv, OrphanHasCause
<1>7. FileGuards'
    BY <1>1, <1>2, <1>3, <1>5 DEF IInv, FileGuards, Accounted
<1> QED BY <1>1, <1>2, <1>4, <1>6, <1>7, AloneStep DEF IInv

\* Processes come and go without the script; a pid that is free again needs no
\* excuse, and what comes is no tunnel.
LEMMA ProcessStep ==
    ASSUME IInv, NEW p \in Pids, Exit(p) \/ Appear(p) PROVE IInv'
<1>1. TypeOK /\ UNCHANGED <<pidFile, op>>
    BY DEF IInv, Exit, Appear
<1>2. TypeOK' /\ Running' \subseteq Running /\ excused' \in {excused, excused \ {p}}
      /\ p \notin Running'
    BY <1>1 DEF TypeOK, Running, Exit, Appear
<1>3. OrphanHasCause'
    BY <1>1, <1>2 DEF IInv, OrphanHasCause, Recording
<1>4. FileGuards'
    BY <1>1, <1>2 DEF IInv, FileGuards, Accounted
<1>5. AloneIsAlone'
    BY <1>1 DEF IInv, AloneIsAlone, MetBy, Busy
<1> QED BY <1>2, <1>3, <1>4, <1>5 DEF IInv

\* Every step keeps the inductive invariant.
LEMMA NextIInv == IInv /\ [Next]_vars => IInv'
<1> SUFFICES ASSUME IInv, [Next]_vars PROVE IInv'
    OBVIOUS
<1>1. CASE Next
    <2>1. ASSUME NEW o \in Operators, Script(o) PROVE IInv'
        BY <2>1, QuietSteps, LaunchStep, TruncateStep, RecordStep, KillStep, ForgetStep
           DEF Script
    <2> QED BY <1>1, <2>1, CommandStep, InterruptStep, ProcessStep DEF Next
<1>2. CASE UNCHANGED vars
    BY <1>2 DEF vars, IInv, TypeOK, OrphanHasCause, FileGuards, AloneIsAlone, Accounted,
                Running, Recording, MetBy, Busy
<1> QED BY <1>1, <1>2

-----------------------------------------------------------------------------
(* Theorems *)

\* However the runs of the script meet, no accounted tunnel is in the pid file of
\* one that is about to overwrite or to remove it.
THEOREM Invariance == Spec => []IInv
BY InitIInv, NextIInv, PTL DEF Spec

\* The states of the script's runs (tunnel.sh).
THEOREM TypeCorrect == Spec => []TypeOK
<1>1. IInv => TypeOK
    BY DEF IInv
<1> QED BY <1>1, Invariance, PTL

\* For any number of operators and pids a tunnel is lost only by an interrupted
\* or a concurrent start (tunnel.sh:12-33, 40-42).
THEOREM OrphansHaveCauses == Spec => []OrphanHasCause
<1>1. IInv => OrphanHasCause
    BY DEF IInv
<1> QED BY <1>1, Invariance, PTL

\* A run that is alone and at none of its own recordings sees every tunnel that
\* has no excuse in the pid file.
LEMMA AloneSees ==
    ASSUME IInv, NEW o \in Operators, Busy(o), op[o].alone,
           op[o].at \notin {"record", "write"}
    PROVE  Running \subseteq {pidFile} \cup excused
<1>1. \A q \in Operators \ {o} : op[q].at = "rest"
    BY DEF IInv, AloneIsAlone, MetBy, Busy
<1>2. Recording = {}
    BY <1>1 DEF Recording
<1> QED BY <1>2 DEF IInv, OrphanHasCause

\* A step that prints "stopped" is a test that has found nothing or the end of a
\* stop, by the run that prints it.
LEMMA PrintsStopped ==
    ASSUME IInv, [Next]_vars, NEW o \in Operators, Prints(o, "stopped")
    PROVE  \/ Probe(o) /\ ~Alive(op[o].pid)
           \/ Forget(o)
<1>1. TypeOK /\ op[o] \in Runs
    BY DEF IInv, TypeOK
<1>2. ~UNCHANGED op
    BY DEF Prints
<1>3. ASSUME NEW q \in Operators, NEW cmd \in DOMAIN Functions, Command(q, cmd)
      PROVE  FALSE
    <2>1. op'[o].said \in {"nothing", op[o].said}
        BY <1>1, <1>3 DEF Command, Runs
    <2> QED BY <2>1 DEF Prints
<1>4. ASSUME NEW q \in Operators, Script(q) \/ Interrupt(q), q # o
      PROVE  FALSE
    <2>1. op'[o] = op[o]
        <3>1. ASSUME NEW there, GoTo(q, there) PROVE op'[o] = op[o]
            BY <1>1, <1>4, <3>1 DEF TypeOK, GoTo
        <3>2. ASSUME NEW line, Say(q, line) PROVE op'[o] = op[o]
            BY <1>1, <1>4, <3>2 DEF TypeOK, Say
        <3>3. CASE Probe(q)
            <4>1. Busy(q) /\ op[q] \in Runs
                BY <1>1, <3>3 DEF Probe, Busy, TypeOK
            <4>2. Doing(q) \in {"start", "stop", "status"}
                BY <4>1, DoingWhat
            <4> QED BY <3>1, <3>2, <3>3, <4>2 DEF Probe
        <3>4. CASE Truncate(q) \/ Record(q) \/ Kill(q) \/ Settle(q) \/ Forget(q)
            BY <3>1, <3>2, <3>4 DEF Truncate, Record, Kill, Settle, Forget
        <3>5. CASE ReadPidFile(q) \/ Launch(q) \/ FailToLaunch(q) \/ Interrupt(q)
            BY <1>1, <1>4, <3>5
               DEF TypeOK, ReadPidFile, Launch, FailToLaunch, Interrupt
        <3> QED BY <1>4, <3>3, <3>4, <3>5 DEF Script
    <2> QED BY <2>1 DEF Prints
<1>5. CASE Interrupt(o)
    BY <1>1, <1>5 DEF Interrupt, Rest, TypeOK, Prints
<1>6. CASE \/ ReadPidFile(o) \/ Launch(o) \/ FailToLaunch(o) \/ Truncate(o) \/ Record(o)
           \/ Kill(o)
    <2>1. op'[o].said \in {op[o].said, "nothing"}
        <3>1. ASSUME NEW there, GoTo(o, there) PROVE op'[o].said = op[o].said
            BY <1>1, <3>1 DEF GoTo, TypeOK, Runs
        <3>2. CASE Truncate(o) \/ Record(o) \/ Kill(o)
            BY <3>1, <3>2 DEF Truncate, Record, Kill
        <3>3. CASE ReadPidFile(o)
            BY <1>1, <3>3 DEF ReadPidFile, TypeOK, Runs
        <3>4. CASE Launch(o)
            <4>1. PICK p \in Pids : op' = [op EXCEPT ![o].at = "record", ![o].pid = p]
                BY <3>4 DEF Launch
            <4>2. o \in DOMAIN op /\ {"at", "pid", "said"} \subseteq DOMAIN op[o]
                BY <1>1 DEF TypeOK, Runs
            <4> QED BY <4>1, <4>2
        <3>5. CASE FailToLaunch(o)
            <4>1. op' = [op EXCEPT ![o] = Rest] /\ o \in DOMAIN op
                BY <1>1, <3>5 DEF FailToLaunch, TypeOK
            <4> QED BY <4>1 DEF Rest
        <3> QED BY <1>6, <3>2, <3>3, <3>4, <3>5
    <2> QED BY <2>1 DEF Prints
<1>7. CASE Settle(o)
    <2>1. op'[o].said = "started"
        BY <1>1, <1>7, SaySteps DEF Settle, Busy
    <2> QED BY <2>1 DEF Prints
<1>8. CASE Probe(o) /\ Alive(op[o].pid)
    <2>1. Busy(o) /\ Doing(o) \in {"start", "stop", "status"}
        BY <1>1, <1>8, DoingWhat DEF Probe, Busy
    <2>2. ASSUME NEW line \in {"already running", "running"}, Say(o, line)
          PROVE  FALSE
        BY <1>1, <2>1, <2>2, SaySteps DEF Prints
    <2>3. ASSUME NEW there, GoTo(o, there) PROVE FALSE
        BY <1>1, <2>3 DEF GoTo, TypeOK, Runs, Prints
    <2> QED BY <1>8, <2>1, <2>2, <2>3 DEF Probe
<1> QED BY <1>2, <1>3, <1>4, <1>5, <1>6, <1>7, <1>8
        DEF Next, Script, Exit, Appear, vars

\* A stop that met no other command leaves no tunnel behind without a cause, for
\* any number of operators and pids (tunnel.sh:40-45).
THEOREM StopsStop == Spec => StopStops
<1>1. ASSUME IInv, [Next]_vars, NEW o \in Operators, Prints(o, "stopped"), op[o].alone
      PROVE  Running' \subseteq excused'
    <2>1. CASE Probe(o) /\ ~Alive(op[o].pid)
        <3>1. op[o].at = "probe" /\ Busy(o) /\ UNCHANGED <<proc, excused>>
            BY <2>1 DEF Probe, Busy
        <3>2. ~Accounted(pidFile)
            BY <1>1, <2>1, <3>1, NoPidAssumption
               DEF IInv, FileGuards, Accounted, Running, Alive
        <3>3. Running \subseteq {pidFile} \cup excused
            BY <1>1, <3>1, AloneSees
        <3> QED BY <3>1, <3>2, <3>3 DEF Accounted, Running
    <2>2. CASE Forget(o)
        <3>1. op[o].at = "forget" /\ Busy(o) /\ UNCHANGED <<proc, excused>>
            BY <2>2 DEF Forget, Busy
        <3>2. ~Accounted(pidFile)
            BY <1>1, <3>1 DEF IInv, FileGuards
        <3>3. Running \subseteq {pidFile} \cup excused
            BY <1>1, <3>1, AloneSees
        <3> QED BY <3>1, <3>2, <3>3 DEF Accounted, Running
    <2> QED BY <1>1, <2>1, <2>2, PrintsStopped
<1>2. IInv /\ [Next]_vars =>
        [\A o \in Operators :
            (Prints(o, "stopped") /\ op[o].alone) => Running' \subseteq excused']_vars
    BY <1>1
<1> QED BY <1>2, Invariance, PTL DEF Spec, StopStops
=============================================================================
