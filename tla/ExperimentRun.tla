--------------------------- MODULE ExperimentRun ---------------------------
(***************************************************************************)
(* A study: the loop of eval*.py over test configurations, and for each of *)
(* them one experiment run (scenarios.py: evaluate_scenario and _do, with  *)
(* the testbed functions of testbed_c_and_c.py).  The orchestrator is one  *)
(* sequential program; around it the processes it started on the routers,  *)
(* generators and phones end, hang or crash, calls ring, are answered and  *)
(* end, and SSH sessions fail.                                             *)
(*                                                                         *)
(* Not modelled: a SyncProc that never returns (SSH has no timeout here),  *)
(* the duplex half of the TCP functions (every scenario passes             *)
(* duplex=False), logging and the mails.                                   *)
(*                                                                         *)
(* A few definitions are followed by the one the specification uses and    *)
(* used by nothing (MoreRunsOffByOne, ...): each is the code with a        *)
(* plausible bug, which a property of the module must notice.              *)
(***************************************************************************)
EXTENDS Runners, Workloads, Sequences, FiniteSets

CONSTANTS
  Mvcas,     \* the messengers
  Configs,   \* the [scenario, mvca] pairs the loops of eval*.py run through
  DiskRuns   \* the captures the disk of the router holds within its limit

ASSUME ConfigsAssumption ==
  Configs \subseteq [scenario : Scenarios, mvca : Mvcas] /\ Configs # {}
ASSUME DiskAssumption == DiskRuns \in Nat \ {0}

VARIABLES
  study,     \* how the eval*.py program stands
  run,       \* the number of the current run, which stands for its guid
  config,    \* the TestConfig of the current run
  pc,        \* the next thing the orchestrator does
  exc,       \* the exception in flight
  i,         \* the command of a list that is next, or the seconds waited
  step,      \* the index of the current workload step
  cmd,       \* the script issueCommandToBirds runs on avda
  qmon,      \* the BGProc of the monitor: "new", or "started" once its pid is known
  errors,    \* exceptionCounter
  ringing,   \* the calls that ring on avda, each as its mvca and run
  calls,     \* the calls that are established
  onRouter,  \* the runs that have files on the router
  onAvda,    \* the runs that have a .mkv on avda
  stored,    \* what is in dumpfolder, by kind and run
  lost       \* history: the runs whose monitor ended before it was told to

outer == <<study, run, config>>
birds == <<i, cmd>>
control == <<outer, pc, exc, step, birds, qmon, errors>>
phones == <<ringing, calls>>
files == <<onRouter, onAvda, stored>>
world == <<phones, files, lost, procs>>
vars == <<control, world>>

Kinds == {"metadata", "capture", "mkv"}

\* The locations of the try block of _do, of establish_call within it, and of
\* the rest of the program.
CallPcs == {"birdsStart", "birdsAvdb", "birdsWait", "birdsAssert", "flow"}
RetryPcs == {"retry", "retrySleep"}
SetupPcs == {"killall", "enoughMem", "qmonStart", "latency", "rate"}
StepPcs ==
  { "payload", "tcpServer", "tcpClient", "tcpSleep", "clientRuns",
    "serverRuns", "stopServer", "stopSleep", "stopClient" }
SavePcs == {"qmonStop", "process", "copy", "remove", "copyMkv", "removeMkv"}
TryPcs == CallPcs \cup RetryPcs \cup SetupPcs \cup StepPcs \cup SavePcs
RunPcs == TryPcs \cup {"except", "finally", "finallyStop"}
Pcs == RunPcs \cup {"loop", "escape", "done"}

Me(role) == <<role, run>>
MyCall == <<config.mvca, run>>

Init ==
  /\ study = "running" /\ run = 0 /\ config = CHOOSE c \in Configs : TRUE
  /\ pc = "loop" /\ exc = "none" /\ i = 0 /\ step = 0
  /\ cmd = "none" /\ qmon = "new" /\ errors = 0
  /\ ringing = {} /\ calls = {}
  /\ onRouter = {} /\ onAvda = {} /\ stored = {} /\ lost = {}
  /\ ProcsInit

-----------------------------------------------------------------------------
(* Control flow.                                                           *)

\* The orchestrator goes on at a location and leaves the rest of its state.
At(l) ==
  /\ pc' = l
  /\ i' = 0
  /\ UNCHANGED <<outer, exc, step, cmd, qmon, errors>>

\* issueCommandToBirds is called for a script.
Birds(c) ==
  /\ pc' = "birdsStart"
  /\ cmd' = c
  /\ i' = 0
  /\ UNCHANGED <<outer, exc, step, qmon, errors>>

\* The workload step returned: the loop of _do takes the next one, or leaves.
StepDone ==
  /\ IF step < Len(Workload[config.scenario])
       THEN pc' = "payload" /\ step' = step + 1
       ELSE pc' = "qmonStop" /\ UNCHANGED step
  /\ i' = 0 /\ cmd' = "none"
  /\ UNCHANGED <<outer, exc, qmon, errors>>

\* The first attempt of establish_call, whose bare except catches everything.
EveryAttempt == cmd \in {"accept1", "accept2"} /\ pc \in CallPcs
FirstAttempt == cmd = "accept1" /\ pc \in CallPcs

\* An exception of some kind is raised in the try block of _do.
Raise(e) ==
  /\ IF FirstAttempt THEN pc' = "retry" /\ UNCHANGED exc
                     ELSE pc' = "except" /\ exc' = e
  /\ i' = 0 /\ cmd' = "none"
  /\ UNCHANGED <<outer, step, qmon, errors>>

\* A SyncProc fails with a status the code does not want.
Fails == "command" \in Faults /\ Raise("error")

-----------------------------------------------------------------------------
(* eval*.py and evaluate_scenario.                                         *)

\* The loops of eval*.py have a configuration left.
MoreRunsOffByOne == run <= MaxRuns
MoreRuns == run < MaxRuns

\* evaluate_scenario writes the metadata and calls _do for the scenario.
NextRun ==
  /\ pc = "loop" /\ MoreRuns
  /\ run' = run + 1
  /\ config' \in Configs
  /\ stored' = stored \cup {<<"metadata", run + 1>>}
  /\ pc' = "killall" /\ i' = 0 /\ step' = 0
  /\ qmon' = "new"
  /\ UNCHANGED <<study, exc, cmd, errors, phones, onRouter, onAvda,
                 lost, procs>>

\* The metadata cannot be written: evaluate_scenario handles no OSError.
MetadataFails ==
  /\ pc = "loop" /\ MoreRuns
  /\ "command" \in Faults
  /\ pc' = "escape" /\ exc' = "error"
  /\ UNCHANGED <<outer, step, birds, qmon, errors, world>>

\* The loops are over.
ExitLoop ==
  /\ pc = "loop" /\ ~MoreRuns
  /\ pc' = "done" /\ study' = "finished"
  /\ UNCHANGED <<run, config, exc, step, birds, qmon, errors, world>>

\* An exception reached the handlers of eval*.py.
Escape ==
  /\ pc = "escape"
  /\ study' = IF exc = "interrupt" THEN "interrupted" ELSE "aborted"
  /\ pc' = "done"
  /\ UNCHANGED <<run, config, exc, step, birds, qmon, errors, world>>

-----------------------------------------------------------------------------
(* killall and enoughMem.                                                  *)

\* A clean-up command: the roles it kills, the phone whose messengers it
\* stops, and whether a lost session goes unnoticed (wanted_ret is None or
\* has ssh's 255) and any other failure does.
CleanupMissesServer(kills, stops, tolerates, checked) ==
  [kills |-> kills \ {"server"}, stops |-> stops, tolerates |-> tolerates,
   checked |-> checked]
Cleanup(kills, stops, tolerates, checked) ==
  [kills |-> kills, stops |-> stops, tolerates |-> tolerates, checked |-> checked]

\* The eleven commands of killall.
KillallCmds ==
  << Cleanup({"monitor"}, "none", TRUE, FALSE),
     Cleanup({"client"}, "none", TRUE, TRUE),
     Cleanup({"server"}, "none", TRUE, TRUE),
     Cleanup(MonkeyRoles, "none", TRUE, TRUE),
     Cleanup({}, "none", TRUE, TRUE),
     Cleanup({}, "avda", FALSE, TRUE),
     Cleanup({}, "avdb", FALSE, TRUE),
     Cleanup({}, "none", FALSE, TRUE),
     Cleanup({}, "none", FALSE, TRUE),
     Cleanup({}, "none", FALSE, TRUE),
     Cleanup({}, "none", FALSE, TRUE) >>

\* The four commands of the except clause of establish_call.
RetryCmdsWithoutPkill ==
  << Cleanup({}, "avda", FALSE, TRUE), Cleanup({}, "avdb", FALSE, TRUE) >>
RetryCmds ==
  << Cleanup(MonkeyRoles, "none", TRUE, TRUE),
     Cleanup({}, "none", TRUE, TRUE),
     Cleanup({}, "avda", FALSE, TRUE),
     Cleanup({}, "avdb", FALSE, TRUE) >>

\* stopAllCalls.py: without its messengers avda is in no call, and without
\* those of avdb nobody calls avda any more.
StopMessengers(phone) ==
  /\ calls' = IF phone = "none" THEN calls ELSE {}
  /\ ringing' = IF phone = "avdb" THEN {} ELSE ringing

PkillOnly(c) == Pkill(c.kills) /\ UNCHANGED phones
CleanupWorks(c) == Pkill(c.kills) /\ StopMessengers(c.stops)

\* The next command of a list: it works, is lost unnoticed, or fails (and may
\* have worked all the same).
CleanupStep(cmds, next) ==
  LET c == cmds[i + 1]
      goOn == /\ IF i + 1 < Len(cmds) THEN i' = i + 1 /\ UNCHANGED pc
                                  ELSE i' = 0 /\ pc' = next
              /\ UNCHANGED <<outer, exc, step, cmd, qmon, errors>>
  IN  /\ \/ CleanupWorks(c) /\ goOn
         \/ /\ c.tolerates /\ "drop" \in Faults
            /\ goOn
            /\ UNCHANGED <<procs, phones>>
         \/ /\ c.checked
            /\ Fails
            /\ CleanupWorks(c) \/ UNCHANGED <<procs, phones>>
      /\ UNCHANGED <<files, lost>>

KillAll == pc = "killall" /\ CleanupStep(KillallCmds, "enoughMem")

\* df says whether the router's disk has room left.
HasRoomOffByOne == Cardinality(onRouter) <= DiskRuns
HasRoom == Cardinality(onRouter) < DiskRuns

EnoughMem ==
  /\ pc = "enoughMem"
  /\ \/ HasRoom /\ Birds("ifconfig")
     \/ ~HasRoom /\ Raise("error")
     \/ Fails
  /\ UNCHANGED world

-----------------------------------------------------------------------------
(* issueCommandToBirds, haveTheBirdsChirp and establish_call.              *)

\* The accept scripts and the make scripts start with a stop of the messenger.
WithoutMessenger(cs) == {c \in cs : c[1] # config.mvca}
Accepts == cmd \in {"accept1", "accept2"}

\* avdaProc.start(avda)
BirdsStart ==
  /\ pc = "birdsStart"
  /\ \/ Launch(Me(cmd)) /\ At("birdsAvdb")
     \/ LaunchFails(Me(cmd)) /\ Raise("error")
  /\ calls' = IF Accepts /\ Me(cmd) \in up' THEN WithoutMessenger(calls) ELSE calls
  /\ UNCHANGED <<ringing, files, lost>>

\* After time.sleep(2) the script of avdb runs to its end.  The taps of a make
\* script go to fixed places of the screen: they may miss, and no call rings.
BirdsAvdb ==
  /\ pc = "birdsAvdb"
  /\ Settled
  /\ At("birdsWait") \/ Fails
  /\ IF Accepts
       THEN /\ calls' = WithoutMessenger(calls)
            /\ \/ ringing' = WithoutMessenger(ringing)
               \/ ringing' = WithoutMessenger(ringing) \cup {MyCall}
       ELSE UNCHANGED phones
  /\ UNCHANGED <<files, lost, procs>>

\* One turn of the loop that looks at avda every four seconds, and only logs
\* what it sees.
BirdsWait ==
  /\ pc = "birdsWait"
  /\ IF i + 4 < 12 THEN i' = i + 4 /\ UNCHANGED pc
                   ELSE i' = 0 /\ pc' = "birdsAssert"
  /\ UNCHANGED <<outer, exc, step, cmd, qmon, errors, world>>

\* assert not avdaProc.is_running(), and the return of issueCommandToBirds.
BirdsAssert ==
  /\ pc = "birdsAssert"
  /\ \E running \in IsRunning(Me(cmd)) :
       \/ running /\ Raise("error")
       \/ ~running /\ cmd = "ifconfig" /\ At("qmonStart")
       \/ ~running /\ Accepts /\ At("flow")
       \/ ~running /\ cmd = "endcall" /\ StepDone
  /\ UNCHANGED world

\* count_packets and check_flow: the phones exchange packets, or the attempt
\* has failed.
CheckFlow ==
  /\ pc = "flow"
  /\ \/ calls # {} /\ StepDone
     \/ calls = {} /\ Raise("error")
     \/ Fails
  /\ UNCHANGED world

\* The clean-up before the second attempt, and its time.sleep(10).
Retry == pc = "retry" /\ CleanupStep(RetryCmds, "retrySleep")

RetrySleep ==
  /\ pc = "retrySleep"
  /\ Settled
  /\ Birds("accept2")
  /\ UNCHANGED world

-----------------------------------------------------------------------------
(* The monitor and the network settings.                                   *)

\* qmon.start: monitor.sh creates the files of the run on the router.
QmonStart ==
  /\ pc = "qmonStart"
  /\ \/ /\ Launch(Me("monitor"))
        /\ pc' = "latency" /\ qmon' = "started"
        /\ i' = 0 /\ cmd' = "none"
        /\ UNCHANGED <<outer, exc, step, errors>>
     \/ LaunchFails(Me("monitor")) /\ Raise("error")
  /\ onRouter' = IF Me("monitor") \in up' THEN onRouter \cup {run} ELSE onRouter
  /\ UNCHANGED <<phones, onAvda, stored, lost>>

\* setlatency.sh
SetLatency ==
  /\ pc = "latency"
  /\ At("rate") \/ Fails
  /\ UNCHANGED world

\* setbandwidth_innerqdisc.sh, and the start of the workload.
SetRate ==
  /\ pc = "rate"
  /\ StepDone \/ Fails
  /\ UNCHANGED world

\* qmon.stop
QmonStopUnchecked ==
  /\ pc = "qmonStop"
  /\ Kill(Me("monitor")) \/ KillFails(Me("monitor"))
  /\ At("process")
  /\ UNCHANGED <<phones, files, lost>>
QmonStop ==
  /\ pc = "qmonStop"
  /\ \/ Kill(Me("monitor")) /\ At("process")
     \/ KillFails(Me("monitor")) /\ Raise("error")
  /\ UNCHANGED <<phones, files, lost>>

-----------------------------------------------------------------------------
(* The steps of the workload.                                              *)

Doing(s) == pc = "payload" /\ Workload[config.scenario][step] = s

Make ==
  /\ Doing("make")
  /\ Birds("accept1")
  /\ UNCHANGED world

EndCall ==
  /\ Doing("end")
  /\ Birds("endcall")
  /\ UNCHANGED world

\* waitAMinute and waitThreeMinutes.
Wait ==
  /\ Doing("wait")
  /\ StepDone
  /\ UNCHANGED world

\* takeBandwidthProfile: eleven settings, each with a minute's wait.
Profile ==
  /\ Doing("profile")
  /\ StepDone \/ Fails
  /\ UNCHANGED world

\* makeScreencapture.sh ends with status 0 whether or not ffmpeg left a file.
MakeScreencapture ==
  /\ Doing("capture")
  /\ StepDone \/ Fails
  /\ onAvda' \in {onAvda, onAvda \cup {run}}
  /\ UNCHANGED <<phones, onRouter, stored, lost, procs>>

\* setupTCP
SetupTcp ==
  /\ Doing("setupTCP")
  /\ At("tcpServer")
  /\ UNCHANGED world

StartGen(here, role, next) ==
  /\ pc = here
  /\ \/ Launch(Me(role)) /\ At(next)
     \/ LaunchFails(Me(role)) /\ Raise("error")
  /\ UNCHANGED <<phones, files, lost>>

TcpServer == StartGen("tcpServer", "server", "tcpClient")
TcpClient == StartGen("tcpClient", "client", "tcpSleep")

TcpSleep ==
  /\ pc = "tcpSleep"
  /\ Settled
  /\ StepDone
  /\ UNCHANGED world

\* killTCP
KillTcp ==
  /\ Doing("killTCP")
  /\ At("clientRuns")
  /\ UNCHANGED world

AssertRuns(here, role, next) ==
  /\ pc = here
  /\ \E running \in IsRunning(Me(role)) :
       IF running THEN At(next) ELSE Raise("error")
  /\ UNCHANGED world

AssertClient == AssertRuns("clientRuns", "client", "serverRuns")
AssertServer == AssertRuns("serverRuns", "server", "stopServer")

StopServer ==
  /\ pc = "stopServer"
  /\ \/ Kill(Me("server")) /\ At("stopSleep")
     \/ KillFails(Me("server")) /\ Raise("error")
  /\ UNCHANGED <<phones, files, lost>>

\* After time.sleep(5) the client should have ended; it is stopped otherwise.
ClientLeftAlone ==
  /\ pc = "stopSleep"
  /\ Settled
  /\ StepDone
  /\ UNCHANGED world
ClientGraceful ==
  /\ pc = "stopSleep"
  /\ Settled
  /\ \E running \in IsRunning(Me("client")) :
       IF running THEN At("stopClient") ELSE StepDone
  /\ UNCHANGED world

StopClient ==
  /\ pc = "stopClient"
  /\ \/ Kill(Me("client")) /\ StepDone
     \/ KillFails(Me("client")) /\ Raise("error")
  /\ UNCHANGED <<phones, files, lost>>

-----------------------------------------------------------------------------
(* The results: process.sh, scp and rm.                                    *)

Process ==
  /\ pc = "process"
  /\ At("copy") \/ Fails
  /\ UNCHANGED world

SavesMkv == config.scenario \in Screencaptured

\* scp of the files of the run, and its rm once they are copied.
CopyCapture ==
  /\ pc = "copy"
  /\ \/ At("remove") /\ stored' = stored \cup {<<"capture", run>>}
     \/ Fails /\ UNCHANGED stored
  /\ UNCHANGED <<phones, onRouter, onAvda, lost, procs>>

RemoveCapture ==
  /\ pc = "remove"
  /\ \/ At(IF SavesMkv THEN "copyMkv" ELSE "finally") /\ onRouter' = onRouter \ {run}
     \/ Fails /\ onRouter' \in {onRouter, onRouter \ {run}}
  /\ UNCHANGED <<phones, onAvda, stored, lost, procs>>

\* The same for the .mkv; there is nothing to copy when ffmpeg left no file.
CopyMkv ==
  /\ pc = "copyMkv"
  /\ \/ run \in onAvda /\ At("removeMkv") /\ stored' = stored \cup {<<"mkv", run>>}
     \/ run \notin onAvda /\ Raise("error") /\ UNCHANGED stored
     \/ Fails /\ UNCHANGED stored
  /\ UNCHANGED <<phones, onRouter, onAvda, lost, procs>>

RemoveMkv ==
  /\ pc = "removeMkv"
  /\ \/ At("finally") /\ onAvda' = onAvda \ {run}
     \/ Fails /\ onAvda' \in {onAvda, onAvda \ {run}}
  /\ UNCHANGED <<phones, onRouter, stored, lost, procs>>

-----------------------------------------------------------------------------
(* The handlers of _do.                                                    *)

\* except Exception: counted and logged; a KeyboardInterrupt passes through.
ExceptUncounted ==
  /\ pc = "except"
  /\ pc' = "finally" /\ exc' = IF exc = "error" THEN "none" ELSE exc
  /\ UNCHANGED <<outer, step, birds, qmon, errors, world>>
Except ==
  /\ pc = "except"
  /\ IF exc = "error" THEN errors' = errors + 1 /\ exc' = "none"
                      ELSE UNCHANGED <<errors, exc>>
  /\ pc' = "finally"
  /\ UNCHANGED <<outer, step, birds, qmon, world>>

\* _do returns, or lets the exception in flight go on.
LeaveByReturn ==
  /\ pc' = "loop" /\ exc' = "none"
  /\ UNCHANGED <<outer, step, birds, qmon, errors>>
Leave ==
  /\ pc' = IF exc = "none" THEN "loop" ELSE "escape"
  /\ UNCHANGED <<outer, exc, step, birds, qmon, errors>>

\* The finally block itself raises, which replaces what was in flight.
FinallyRaises ==
  /\ pc' = "escape" /\ exc' = "error"
  /\ UNCHANGED <<outer, step, birds, qmon, errors>>

\* qmon.is_running(): it asserts that the machine and the pid are known.
FinallyWithoutStop ==
  /\ pc = "finally"
  /\ IF qmon = "new" THEN FinallyRaises ELSE Leave
  /\ UNCHANGED world
FinallyTolerant ==
  /\ pc = "finally"
  /\ \/ qmon = "new" /\ Leave
     \/ /\ qmon = "started"
        /\ \E running \in IsRunning(Me("monitor")) :
             IF running THEN At("finallyStop") ELSE Leave
  /\ UNCHANGED world
FinallyCheck ==
  /\ pc = "finally"
  /\ \/ qmon = "new" /\ FinallyRaises
     \/ /\ qmon = "started"
        /\ \E running \in IsRunning(Me("monitor")) :
             IF running THEN At("finallyStop") ELSE Leave
  /\ UNCHANGED world

FinallyStop ==
  /\ pc = "finallyStop"
  /\ \/ Kill(Me("monitor")) /\ Leave
     \/ KillFails(Me("monitor")) /\ FinallyRaises
  /\ UNCHANGED <<phones, files, lost>>

\* ^C at the orchestrator, or the status 130 of a command.  Only the bare
\* except of establish_call catches it.
Interrupt ==
  /\ "interrupt" \in Faults
  /\ \/ pc \in TryPcs /\ Raise("interrupt")
     \/ /\ pc \in {"except", "finally", "finallyStop", "loop"}
        /\ pc' = IF pc = "except" THEN "finally" ELSE "escape"
        /\ exc' = "interrupt"
        /\ UNCHANGED <<outer, step, birds, qmon, errors>>
  /\ UNCHANGED world

-----------------------------------------------------------------------------
(* The machines and phones.                                                *)

\* A script on avda is through.
ScriptEnds(p) ==
  /\ p[1] \in BirdRoles
  /\ Vanish(p)
  /\ UNCHANGED <<control, phones, files, lost>>

\* The client of a generator ends once its server has been stopped.
ClientEnds(p) ==
  /\ p[1] = "client" /\ <<"server", p[2]>> \notin up \ dying
  /\ Vanish(p)
  /\ UNCHANGED <<control, phones, files, lost>>

\* The monitor or a generator crashes.
Crash(p) ==
  /\ "crash" \in Faults
  /\ p[1] \in {"monitor", "server", "client"}
  /\ Vanish(p)
  /\ lost' = IF p[1] = "monitor" THEN lost \cup {p[2]} ELSE lost
  /\ UNCHANGED <<control, phones, files>>

SignalledExit(p) ==
  /\ Exit(p)
  /\ UNCHANGED <<control, phones, files, lost>>

\* An accept script that waits on avda sees the button of a ringing call.
Answer(c) ==
  /\ c \in ringing
  /\ Alive({"accept1", "accept2"}) # {}
  /\ ringing' = ringing \ {c}
  /\ calls' = calls \cup {c}
  /\ UNCHANGED <<control, files, lost, procs>>

\* A call ends: an end script hits its button, or a phone gives up.
CallEnds(c) ==
  /\ c \in ringing \cup calls
  /\ ringing' = ringing \ {c}
  /\ calls' = calls \ {c}
  /\ UNCHANGED <<control, files, lost, procs>>

-----------------------------------------------------------------------------
Loop == NextRun \/ MetadataFails \/ ExitLoop \/ Escape
Calling ==
  BirdsStart \/ BirdsAvdb \/ BirdsWait \/ BirdsAssert \/ CheckFlow \/ Retry \/ RetrySleep
Setup == KillAll \/ EnoughMem \/ QmonStart \/ SetLatency \/ SetRate
Payload ==
  \/ Make \/ EndCall \/ Wait \/ Profile \/ MakeScreencapture \/ SetupTcp
  \/ TcpServer \/ TcpClient \/ TcpSleep \/ KillTcp \/ AssertClient
  \/ AssertServer \/ StopServer \/ ClientGraceful \/ StopClient
Saving == QmonStop \/ Process \/ CopyCapture \/ RemoveCapture \/ CopyMkv \/ RemoveMkv
Handling == Except \/ FinallyCheck \/ FinallyStop

Orchestrator == Loop \/ Calling \/ Setup \/ Payload \/ Saving \/ Handling

Environment ==
  \/ \E p \in Procs : ScriptEnds(p) \/ ClientEnds(p) \/ Crash(p) \/ SignalledExit(p)
  \/ \E c \in ringing \cup calls : Answer(c) \/ CallEnds(c)

\* The program has ended; nothing else may.
Terminated == pc = "done" /\ UNCHANGED vars

Next == Orchestrator \/ Interrupt \/ Environment \/ Terminated

Spec == Init /\ [][Next]_vars

\* Every command returns and every sleep ends; SIGTERM ends a process.
Fairness == WF_vars(Orchestrator) /\ WF_vars(\E p \in Procs : SignalledExit(p))

FairSpec == Spec /\ Fairness

-----------------------------------------------------------------------------
(* Properties.                                                             *)

TypeOK ==
  /\ ProcsType
  /\ study \in {"running", "aborted", "interrupted", "finished"}
  /\ run \in 0..MaxRuns
  /\ config \in Configs
  /\ pc \in Pcs
  /\ exc \in {"none", "error", "interrupt"}
  /\ i \in 0..11
  /\ step \in Nat
  /\ cmd \in BirdRoles \cup {"none"}
  /\ qmon \in {"new", "started"}
  /\ errors \in Nat
  /\ ringing \subseteq Mvcas \X Runs
  /\ calls \subseteq Mvcas \X Runs
  /\ onRouter \subseteq Runs
  /\ onAvda \subseteq Runs
  /\ stored \subseteq Kinds \X Runs
  /\ lost \subseteq Runs

\* A capture reaches dumpfolder only if its monitor ran until _do stopped it:
\* a monitor that ends early, whenever that is, fails the run.
CaptureCoversPayload == \A r \in lost : <<"capture", r>> \notin stored

\* While a run works on its payload, no call of an earlier run rings or is
\* established: killall stopped the messengers of both phones.
Working == pc \in CallPcs \cup RetryPcs \cup StepPcs \cup {"latency", "rate", "qmonStop"}
CallIsOurs == Working => \A c \in ringing \cup calls : c[2] = run

\* The captures that failed runs leave on the router stay within its disk:
\* enoughMem looks before every run that adds one.
RouterHasRoom == Cardinality(onRouter) <= DiskRuns

\* The study as its reader sees it (module Study): every run that is over has
\* saved all it has to or was counted as an exception, and no run follows an
\* interrupt or an exception that got through to eval*.py.
Abstract ==
  INSTANCE Study WITH
    state <- IF study = "running" /\ (pc = "escape" \/ exc = "interrupt")
               THEN "stopping" ELSE study,
    busy <- pc \in TryPcs \cup {"except"} /\ exc # "interrupt",
    wants <- IF SavesMkv THEN Kinds ELSE Kinds \ {"mkv"}

ImplementsStudy == Abstract!Spec

\* The account that follows from it, on the code's own variables: a study that
\* goes on has a capture or a counted exception for each of its past runs.
Accounted ==
  pc = "loop" =>
    run <= errors + Cardinality({r \in 1..run : <<"capture", r>> \in stored})

\* The processes that killall is about.
Interfering == Roles \ {"ifconfig"}

\* When commands either work or are seen to fail: while a run works on its
\* payload, no process of an earlier run interferes with the measurement.
NoLeftovers == Working => \A p \in Alive(Interfering) : p[2] = run

\* Under the same condition: the study goes on only after it has told the
\* monitor of the run to end, if that was still there.
NoMonitorLeftBehind == pc = "loop" => Alive({"monitor"}) = {}

\* Under the same condition: two monkeyrunner scripts never drive avda at once,
\* although the first attempt of a call may hang and a second one follows.
OneScriptPerPhone == Working => Cardinality(Alive(MonkeyRoles)) <= 1

\* Under the same condition: a workload that is through has left nothing
\* running but the monitor.
WorkloadCleansUp ==
  pc = "qmonStop" => Alive({"server", "client"} \cup BirdRoles) \cap (Roles \X {run}) = {}

\* The program ends: no step waits for something that need not come.
StudyEnds == <>(pc = "done")

\* What eval.py:68 says: exceptions in test runs are just logged.  No step of a
\* run lets an error get to the handlers of eval*.py, which abort the study.
RunFailuresAreJustLogged ==
  [][(pc \in RunPcs /\ pc' = "escape") => (exc' = "interrupt")]_vars

=============================================================================
