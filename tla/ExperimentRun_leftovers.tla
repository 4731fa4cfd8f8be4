---------------------- MODULE ExperimentRun_leftovers ----------------------
(* Theorems about what one run leaves to the next: files on the router, if    *)
(* no lost session goes unnoticed, processes, and the names of its data.      *)
EXTENDS ExperimentRun_proofs, StudyClock

-----------------------------------------------------------------------------
(* The disk of the router.                                                   *)

LEMMA RunsFinite == IsFiniteSet(Runs)
BY FS_Interval, RunsAssumption DEF Runs

\* From the look at the disk to qmon.start there is room for one run more.
Looked == pc = "qmonStart" \/ (pc \in CallPcs /\ cmd = "ifconfig")

RoomInv ==
  /\ Cardinality(onRouter) <= DiskRuns
  /\ Looked => Cardinality(onRouter) < DiskRuns

\* A step that adds no file to the router's, and does not get past enoughMem.
Sparing == onRouter' \subseteq onRouter /\ (Looked' => Looked)

LEMMA SparingStep ==
  ASSUME TypeInv, RoomInv, Sparing
  PROVE  RoomInv'
<1>1. IsFiniteSet(onRouter)
  BY RunsFinite, FS_Subset DEF TypeInv, TypeOK
<1>2. /\ Cardinality(onRouter) \in Nat /\ Cardinality(onRouter') \in Nat
      /\ Cardinality(onRouter') <= Cardinality(onRouter)
  BY <1>1, FS_Subset, FS_CardinalityType DEF Sparing
<1> QED
  BY <1>2, DiskAssumption DEF RoomInv, Sparing

LEMMA RoomStep ==
  ASSUME TypeInv, RoomInv, [Next]_vars
  PROVE  RoomInv'
<1>1. CASE EnoughMem
  <2>1. onRouter' = onRouter
    BY <1>1 DEF EnoughMem, world, files
  <2>2. pc' \in {"retry", "except"} \/ HasRoom
    BY <1>1 DEF EnoughMem, Fails, Raise
  <2> QED
    BY <2>1, <2>2 DEF RoomInv, HasRoom, Looked, CallPcs
<1>2. CASE QmonStart
  <2>1. onRouter' \in {onRouter, onRouter \cup {run}}
    BY <1>2 DEF QmonStart
  <2>2. pc' \in {"latency", "retry", "except"}
    BY <1>2 DEF QmonStart, Raise
  <2>3. Cardinality(onRouter) < DiskRuns
    BY <1>2 DEF QmonStart, RoomInv, Looked
  <2>4. IsFiniteSet(onRouter)
    BY RunsFinite, FS_Subset DEF TypeInv, TypeOK
  <2>5. Cardinality(onRouter) \in Nat
    BY <2>4, FS_CardinalityType
  <2>6. Cardinality(onRouter \cup {run}) <= Cardinality(onRouter) + 1
    BY <2>4, <2>5, FS_AddElement
  <2> QED
    BY <2>1, <2>2, <2>3, <2>4, <2>5, <2>6, FS_AddElement, DiskAssumption DEF RoomInv, Looked, CallPcs
<1>3. CASE RemoveCapture
  BY <1>3, SparingStep DEF RemoveCapture, Sparing, Looked, CallPcs, At, Fails, Raise
<1>4. CASE Calling
  <2>1. Sparing
    BY <1>4 DEF Calling, BirdsStart, BirdsAvdb, BirdsWait, BirdsAssert, CheckFlow, Retry,
       RetrySleep, CleanupStep, RetryCmds, Fails, At, Birds, StepDone, Raise, Sparing, Looked, CallPcs,
       BirdRoles, MonkeyRoles, Accepts, world, files
  <2> QED
    BY <2>1, SparingStep
<1>5. CASE Loop \/ KillAll \/ SetLatency \/ SetRate \/ Handling \/ Interrupt \/ Environment
        \/ UNCHANGED vars
  <2>1. Sparing
    BY <1>5 DEF Loop, NextRun, MetadataFails, ExitLoop, Escape, KillAll, CleanupStep, KillallCmds,
       SetLatency, SetRate, Handling, Except, FinallyCheck, FinallyStop, FinallyRaises, Leave,
       Interrupt, Environment, ScriptEnds, ClientEnds, Crash, SignalledExit, Answer, CallEnds,
       Fails, At, StepDone, Raise, Sparing, Looked, CallPcs, vars, control, birds, world, files
  <2> QED
    BY <2>1, SparingStep
<1>6. CASE Payload \/ QmonStop \/ Process \/ CopyCapture \/ CopyMkv \/ RemoveMkv
  <2>1. Sparing
    BY <1>6 DEF Payload, Make, EndCall, Wait, Profile, MakeScreencapture, SetupTcp, TcpServer,
       TcpClient, StartGen, TcpSleep, KillTcp, AssertClient, AssertServer, AssertRuns, StopServer,
       ClientGraceful, StopClient, QmonStop, Process, CopyCapture, CopyMkv, RemoveMkv,
       Fails, At, Birds, StepDone, Raise, Sparing, Looked, CallPcs, world, files
  <2> QED
    BY <2>1, SparingStep
<1> QED
  BY <1>1, <1>2, <1>3, <1>4, <1>5, <1>6
     DEF Next, Orchestrator, Setup, Saving, Terminated

\* The runs that fail leave their files on the router; enoughMem, which looks
\* before every run, keeps them within its disk (testbed_c_and_c.py:51-58).
THEOREM RouterSuffices == Spec => []RouterHasRoom
<1>1. Init => TypeInv /\ RoomInv
  <2>1. Init => RoomInv
    BY FS_EmptySet, DiskAssumption DEF Init, RoomInv, Looked, CallPcs
  <2> QED
    BY <2>1, InitType
<1>2. TypeInv /\ RoomInv /\ [Next]_vars => (TypeInv /\ RoomInv)'
  BY TypeStep, RoomStep
<1>3. RoomInv => RouterHasRoom
  BY DEF RoomInv, RouterHasRoom
<1> QED
  BY <1>1, <1>2, <1>3, PTL DEF Spec

-----------------------------------------------------------------------------
(* The monitors.                                                             *)

\* Only the run under way has a monitor that nobody has told to end, and the
\* study goes on only after it has been told.
MonitorInv ==
  /\ Alive({"monitor"}) \subseteq {Monitor(run)}
  /\ pc = "loop" => Alive({"monitor"}) = {}

\* What the operators of Runners do to the monitors, except the start of one.
LEMMA MonitorsDwindle ==
  ASSUME TypeInv,
         \/ UNCHANGED procs
         \/ \E p \in Procs : p[1] # "monitor" /\ (Launch(p) \/ LaunchFails(p))
         \/ \E p \in Procs : Kill(p) \/ KillFails(p) \/ Exit(p) \/ Vanish(p)
         \/ \E roles : Pkill(roles)
  PROVE  Alive({"monitor"})' \subseteq Alive({"monitor"})
BY DEF Alive, procs, Launch, LaunchFails, Kill, KillFails, Exit, Vanish, Pkill,
   TypeInv, TypeOK, ProcsType

LEMMA DwindlingStep ==
  ASSUME MonitorInv, Alive({"monitor"})' \subseteq Alive({"monitor"}),
         UNCHANGED run, pc' = "loop" => pc = "loop"
  PROVE  MonitorInv'
BY DEF MonitorInv, Monitor

\* The steps that neither start a monitor nor go on with the study.
LEMMA OtherStep ==
  ASSUME TypeInv,
         \/ MetadataFails \/ ExitLoop \/ Escape \/ Calling \/ KillAll \/ EnoughMem
         \/ SetLatency \/ SetRate \/ Payload \/ Saving \/ Except \/ Interrupt
         \/ Environment \/ UNCHANGED vars
  PROVE  /\ UNCHANGED run
         /\ pc' = "loop" => pc = "loop"
         /\ Alive({"monitor"})' \subseteq Alive({"monitor"})
<1> USE DEF outer, world
<1>1. CASE MetadataFails \/ ExitLoop \/ Escape \/ EnoughMem \/ SetLatency \/ SetRate
             \/ Except \/ Interrupt \/ UNCHANGED vars
  <2>1. UNCHANGED <<run, procs>> /\ (pc' = "loop" => pc = "loop")
    BY <1>1 DEF MetadataFails, ExitLoop, Escape, EnoughMem, SetLatency, SetRate, Except,
       Interrupt, At, Birds, StepDone, Fails, Raise, vars, control
  <2> QED
    BY <2>1, MonitorsDwindle
<1>2. CASE Calling
  <2>1. UNCHANGED run /\ pc' # "loop"
    BY <1>2 DEF Calling, BirdsStart, BirdsAvdb, BirdsWait, BirdsAssert, CheckFlow, Retry,
       RetrySleep, CleanupStep, At, Birds, StepDone, Fails, Raise, CallPcs
  <2>2. CASE BirdsStart
    BY <2>1, <2>2, MonitorsDwindle, Mine
       DEF BirdsStart, BirdRoles, MonkeyRoles, Me, Underway, TypeInv, RunPcs, TryPcs, CallPcs
  <2>3. CASE Retry
    BY <2>1, <2>3, MonitorsDwindle DEF Retry, CleanupStep, CleanupWorks, procs
  <2>4. CASE BirdsAvdb \/ BirdsWait \/ BirdsAssert \/ CheckFlow \/ RetrySleep
    <3>1. UNCHANGED procs
      BY <2>4 DEF BirdsAvdb, BirdsWait, BirdsAssert, CheckFlow, RetrySleep, Accepts
    <3> QED
      BY <2>1, <3>1, MonitorsDwindle
  <2> QED
    BY <1>2, <2>2, <2>3, <2>4 DEF Calling
<1>3. CASE KillAll
  <2>1. UNCHANGED run /\ pc' # "loop"
    BY <1>3 DEF KillAll, CleanupStep, At, Fails, Raise
  <2> QED
    BY <1>3, <2>1, MonitorsDwindle DEF KillAll, CleanupStep, CleanupWorks, procs
<1>4. CASE Payload
  <2>1. UNCHANGED run /\ pc' # "loop"
    BY <1>4 DEF Payload, Make, EndCall, Wait, Profile, MakeScreencapture, SetupTcp, TcpServer,
       TcpClient, StartGen, TcpSleep, KillTcp, AssertClient, AssertServer, AssertRuns,
       StopServer, ClientGraceful, StopClient, At, Birds, StepDone, Fails, Raise
  <2>2. CASE TcpServer \/ TcpClient
    <3>1. pc \in RunPcs
      BY <2>2 DEF TcpServer, TcpClient, StartGen, RunPcs, TryPcs, StepPcs
    <3> QED
      BY <2>1, <2>2, <3>1, MonitorsDwindle, Mine DEF TcpServer, TcpClient, StartGen, Me, Roles
  <2>3. CASE StopServer \/ StopClient
    <3>1. pc \in RunPcs
      BY <2>3 DEF StopServer, StopClient, RunPcs, TryPcs, StepPcs
    <3> QED
      BY <2>1, <2>3, <3>1, MonitorsDwindle, Mine DEF StopServer, StopClient, Me, Roles
  <2>4. CASE Make \/ EndCall \/ Wait \/ Profile \/ MakeScreencapture \/ SetupTcp \/ TcpSleep
               \/ KillTcp \/ AssertClient \/ AssertServer \/ ClientGraceful
    <3>1. UNCHANGED procs
      BY <2>4 DEF Make, EndCall, Wait, Profile, MakeScreencapture, SetupTcp, TcpSleep,
         KillTcp, AssertClient, AssertServer, AssertRuns, ClientGraceful
    <3> QED
      BY <2>1, <3>1, MonitorsDwindle
  <2> QED
    BY <1>4, <2>2, <2>3, <2>4 DEF Payload
<1>5. CASE Saving
  <2>1. UNCHANGED run /\ pc' # "loop"
    BY <1>5 DEF Saving, QmonStop, Process, CopyCapture, RemoveCapture, CopyMkv, RemoveMkv,
       At, Fails, Raise
  <2>2. CASE QmonStop
    <3>1. pc \in RunPcs
      BY <2>2 DEF QmonStop, RunPcs, TryPcs, SavePcs
    <3> QED
      BY <2>1, <2>2, <3>1, MonitorsDwindle, Mine DEF QmonStop, Me, Roles
  <2>3. CASE Process \/ CopyCapture \/ RemoveCapture \/ CopyMkv \/ RemoveMkv
    <3>1. UNCHANGED procs
      BY <2>3 DEF Process, CopyCapture, RemoveCapture, CopyMkv, RemoveMkv
    <3> QED
      BY <2>1, <3>1, MonitorsDwindle
  <2> QED
    BY <1>5, <2>2, <2>3 DEF Saving
<1>6. CASE Environment
  <2>1. UNCHANGED <<run, pc>>
    BY <1>6 DEF Environment, ScriptEnds, ClientEnds, Crash, SignalledExit, Answer, CallEnds, control
  <2>2. Alive({"monitor"})' \subseteq Alive({"monitor"})
    BY <1>6 DEF Environment, ScriptEnds, ClientEnds, Crash, SignalledExit, Answer, CallEnds,
       Exit, Vanish, Alive, procs, TypeInv, TypeOK, ProcsType
  <2> QED
    BY <2>1, <2>2
<1> QED
  BY <1>1, <1>2, <1>3, <1>4, <1>5, <1>6

LEMMA MonitorStep ==
  ASSUME "drop" \notin Faults, TypeInv, MonitorInv, [Next]_vars
  PROVE  MonitorInv'
<1>1. CASE NextRun
  BY <1>1 DEF NextRun, MonitorInv, Alive, procs
<1>2. CASE QmonStart
  <2>1. UNCHANGED run /\ pc' # "loop"
    BY <1>2 DEF QmonStart, Raise, outer
  <2>2. Alive({"monitor"})' \subseteq Alive({"monitor"}) \cup {Monitor(run)}
    BY <1>2 DEF QmonStart, Launch, LaunchFails, Me, Monitor, Alive
  <2> QED
    BY <2>1, <2>2 DEF MonitorInv, Monitor
<1>3. CASE FinallyCheck
  <2>1. UNCHANGED <<run, procs>>
    BY <1>3 DEF FinallyCheck, FinallyRaises, Leave, At, outer, world
  <2>2. pc' = "loop" => Monitor(run) \notin up
    BY <1>3 DEF FinallyCheck, FinallyRaises, IsRunning, At, Me, Monitor
  <2> QED
    BY <2>1, <2>2 DEF MonitorInv, Monitor, Alive, procs
<1>4. CASE FinallyStop
  <2>1. UNCHANGED run /\ (Kill(Monitor(run)) \/ (KillFails(Monitor(run)) /\ pc' # "loop"))
    BY <1>4 DEF FinallyStop, FinallyRaises, Leave, Me, Monitor, outer
  <2> QED
    BY <2>1 DEF Kill, KillFails, MonitorInv, Monitor, Alive
<1>5. CASE \/ MetadataFails \/ ExitLoop \/ Escape \/ Calling \/ KillAll \/ EnoughMem
           \/ SetLatency \/ SetRate \/ Payload \/ Saving \/ Except \/ Interrupt
           \/ Environment \/ UNCHANGED vars
  BY <1>5, OtherStep, DwindlingStep
<1> QED
  BY <1>1, <1>2, <1>3, <1>4, <1>5
     DEF Next, Orchestrator, Loop, Setup, Handling, Terminated

\* As long as no lost session passes for "not running", the finally block of
\* _do goes on with the study only when the monitor of the run is gone or has
\* been told to end (scenarios.py:68-70).
THEOREM MonitorsAreStopped ==
  ASSUME "drop" \notin Faults
  PROVE  Spec => []NoMonitorLeftBehind
<1>1. Init => TypeInv /\ MonitorInv
  BY InitType DEF Init, MonitorInv, Alive, ProcsInit
<1>2. TypeInv /\ MonitorInv /\ [Next]_vars => (TypeInv /\ MonitorInv)'
  BY TypeStep, MonitorStep
<1>3. MonitorInv => NoMonitorLeftBehind
  BY DEF MonitorInv, NoMonitorLeftBehind
<1> QED
  BY <1>1, <1>2, <1>3, PTL DEF Spec

-----------------------------------------------------------------------------
(* The other processes.                                                      *)

\* The processes that the next step may start.
Started ==
  {p \in Procs : p[2] = run
     /\ \/ pc = "birdsStart" /\ p[1] = cmd
        \/ pc = "qmonStart" /\ p[1] = "monitor"
        \/ pc = "tcpServer" /\ p[1] = "server"
        \/ pc = "tcpClient" /\ p[1] = "client"}

LEMMA Starts ==
  ASSUME TypeInv, [Next]_vars
  PROVE  /\ up' \subseteq up \cup Started
         /\ (up \ dying)' \subseteq (up \ dying) \cup Started
<1> USE DEF RunPcs, TryPcs, CallPcs, SetupPcs, StepPcs, SavePcs
<1>1. ASSUME NEW role \in Roles, Launch(Me(role)) \/ LaunchFails(Me(role)),
             run \in Runs, Me(role) \in Started
      PROVE  /\ up' \subseteq up \cup Started
             /\ (up \ dying)' \subseteq (up \ dying) \cup Started
  BY <1>1 DEF Launch, LaunchFails
<1>2. ASSUME \/ UNCHANGED procs
             \/ \E p \in Procs : Kill(p) \/ KillFails(p) \/ Exit(p) \/ Vanish(p)
             \/ \E roles : Pkill(roles)
      PROVE  /\ up' \subseteq up \cup Started
             /\ (up \ dying)' \subseteq (up \ dying) \cup Started
  BY <1>2 DEF procs, Kill, KillFails, Exit, Vanish, Pkill, TypeInv, TypeOK, ProcsType
<1>3. CASE BirdsStart
  <2>1. cmd \in Roles /\ run \in Runs /\ Me(cmd) \in Started
    BY <1>3, Mine DEF BirdsStart, TypeInv, Underway, Roles, Started, Me
  <2> QED
    BY <1>1, <1>3, <2>1 DEF BirdsStart
<1>4. CASE QmonStart
  <2>1. run \in Runs /\ Me("monitor") \in Started
    BY <1>4, Mine DEF QmonStart, Roles, Started, Me
  <2> QED
    BY <1>1, <1>4, <2>1 DEF QmonStart, Roles
<1>5. CASE TcpServer \/ TcpClient
  <2>1. run \in Runs /\ (TcpServer => Me("server") \in Started) /\ (TcpClient => Me("client") \in Started)
    BY <1>5, Mine DEF TcpServer, TcpClient, StartGen, Roles, Started, Me
  <2> QED
    BY <1>1, <1>5, <2>1 DEF TcpServer, TcpClient, StartGen, Roles
<1>6. CASE StopServer \/ StopClient \/ QmonStop \/ FinallyStop
  BY <1>2, <1>6, Mine DEF StopServer, StopClient, QmonStop, FinallyStop, Roles
<1>7. CASE KillAll \/ Retry
  BY <1>2, <1>7 DEF KillAll, Retry, CleanupStep, CleanupWorks, procs
<1>8. CASE Environment
  BY <1>2, <1>8 DEF Environment, ScriptEnds, ClientEnds, Crash, SignalledExit, Answer, CallEnds
<1>9. CASE \/ Loop \/ BirdsAvdb \/ BirdsWait \/ BirdsAssert \/ CheckFlow \/ RetrySleep \/ EnoughMem
           \/ SetLatency \/ SetRate \/ Make \/ EndCall \/ Wait \/ Profile \/ MakeScreencapture
           \/ SetupTcp \/ TcpSleep \/ KillTcp \/ AssertClient \/ AssertServer \/ ClientGraceful
           \/ Process \/ CopyCapture \/ RemoveCapture \/ CopyMkv \/ RemoveMkv \/ Except
           \/ FinallyCheck \/ Interrupt \/ UNCHANGED vars
  <2>1. UNCHANGED procs
    BY <1>9 DEF Loop, NextRun, MetadataFails, ExitLoop, Escape, BirdsAvdb, BirdsWait, BirdsAssert,
       CheckFlow, RetrySleep, EnoughMem, SetLatency, SetRate, Make, EndCall, Wait, Profile,
       MakeScreencapture, SetupTcp, TcpSleep, KillTcp, AssertClient, AssertServer, AssertRuns,
       ClientGraceful, Process, CopyCapture, RemoveCapture, CopyMkv, RemoveMkv, Except,
       FinallyCheck, Interrupt, vars, world
  <2> QED
    BY <1>2, <2>1
<1> QED
  BY <1>3, <1>4, <1>5, <1>6, <1>7, <1>8, <1>9
     DEF Next, Orchestrator, Calling, Setup, Payload, Saving, Handling, Terminated

\* Only killall leads out of killall, and only a new run leads into it.
LEMMA Proceeds ==
  ASSUME [Next]_vars, ~NextRun, ~KillAll
  PROVE  /\ UNCHANGED <<run, config>>
         /\ pc' \in TryPcs => pc \in TryPcs
         /\ pc' \in TryPcs /\ "killall" \in {pc, pc'} => UNCHANGED <<pc, i>>
<1> USE DEF RunPcs, TryPcs, CallPcs, RetryPcs, SetupPcs, StepPcs, SavePcs, outer
<1>1. CASE MetadataFails \/ ExitLoop \/ Escape \/ Handling
  BY <1>1 DEF MetadataFails, ExitLoop, Escape, Handling, Except, FinallyCheck, FinallyStop,
     At, Leave, FinallyRaises
<1>2. CASE Calling \/ EnoughMem \/ QmonStart \/ SetLatency \/ SetRate
  BY <1>2 DEF Calling, BirdsStart, BirdsAvdb, BirdsWait, BirdsAssert, CheckFlow, Retry, RetrySleep,
     CleanupStep, EnoughMem, QmonStart, SetLatency, SetRate, At, Birds, StepDone, Fails, Raise
<1>3. CASE Payload
  BY <1>3 DEF Payload, Make, EndCall, Wait, Profile, MakeScreencapture, SetupTcp, TcpServer, TcpClient,
     StartGen, TcpSleep, KillTcp, AssertClient, AssertServer, AssertRuns, StopServer, ClientGraceful,
     StopClient, Doing, At, Birds, StepDone, Fails, Raise
<1>4. CASE Saving \/ Interrupt
  BY <1>4 DEF Saving, QmonStop, Process, CopyCapture, RemoveCapture, CopyMkv, RemoveMkv, Interrupt,
     At, Fails, Raise, FirstAttempt
<1>5. CASE Environment \/ UNCHANGED vars
  BY <1>5 DEF Environment, ScriptEnds, ClientEnds, Crash, SignalledExit, Answer, CallEnds, vars,
     control, birds
<1> QED
  BY <1>1, <1>2, <1>3, <1>4, <1>5 DEF Next, Orchestrator, Loop, Setup, Terminated

\* The roles that the first n commands of killall kill.
KilledBy(n) ==
  {role \in Interfering :
     \/ role = "monitor" /\ n >= 1
     \/ role = "client" /\ n >= 2
     \/ role = "server" /\ n >= 3
     \/ role \in MonkeyRoles /\ n >= 4}

\* What is left of earlier runs is what killall has not come to yet.
LeftoverInv ==
  pc \in TryPcs =>
    /\ pc = "killall" => i <= 10
    /\ \A p \in Alive(Interfering) : p[2] = run \/ (pc = "killall" /\ p[1] \notin KilledBy(i))

\* A command of killall that works kills what it is there for.
LEMMA KillallKills ==
  ASSUME TypeInv, KillAll, i <= 10, "drop" \notin Faults
  PROVE  \/ pc' = "except"
         \/ /\ UNCHANGED <<run, config>>
            /\ \A p \in Alive(Interfering)' :
                 p \in Alive(Interfering) /\ p[1] \notin KilledBy(i + 1) \ KilledBy(i)
            /\ \/ pc' = "killall" /\ i' = i + 1 /\ i < 10
               \/ pc' = "enoughMem" /\ i = 10
<1> DEFINE c == KillallCmds[i + 1]
<1>1. i \in 0..10 /\ pc = "killall"
  BY DEF TypeInv, TypeOK, KillAll
<1>2. \A role \in KilledBy(i + 1) \ KilledBy(i) : role \in c.kills
  BY <1>1 DEF KilledBy, KillallCmds, Cleanup, MonkeyRoles
<1>3. CASE pc' # "except"
  <2>1. Pkill(c.kills) /\ UNCHANGED <<run, config>>
        /\ \/ pc' = "killall" /\ i' = i + 1 /\ i < 10
           \/ pc' = "enoughMem" /\ i = 10
    BY <1>1, <1>3 DEF KillAll, CleanupStep, CleanupWorks, Fails, Raise, FirstAttempt, CallPcs,
                      KillallCmds, outer
  <2> QED
    BY <1>2, <2>1 DEF Pkill, Alive
<1> QED
  BY <1>3

\* Once killall is through, it has killed every role.
LEMMA AllKilled == \A role \in Interfering : role \in KilledBy(11) /\ role \notin KilledBy(0)
BY DEF KilledBy, Interfering, Roles, BirdRoles, MonkeyRoles

LEMMA LeftoverStep ==
  ASSUME "drop" \notin Faults, TypeInv, LeftoverInv, [Next]_vars
  PROVE  LeftoverInv'
<1>1. CASE NextRun
  <2>1. pc' = "killall" /\ i' = 0
    BY <1>1 DEF NextRun
  <2>2. \A p \in Alive(Interfering)' : p[1] \in Interfering
    BY DEF Alive
  <2> QED
    BY <2>1, <2>2, AllKilled DEF LeftoverInv
<1>2. CASE KillAll
  <2>1. pc = "killall" /\ pc \in TryPcs
    BY <1>2 DEF KillAll, TryPcs, SetupPcs
  <2>2. CASE pc' = "except"
    BY <2>2 DEF LeftoverInv, TryPcs, CallPcs, RetryPcs, SetupPcs, StepPcs, SavePcs
  <2>3. CASE pc' # "except"
    <3>1. /\ UNCHANGED run
          /\ \A p \in Alive(Interfering)' :
               p \in Alive(Interfering) /\ p[1] \notin KilledBy(i + 1) \ KilledBy(i)
          /\ \/ pc' = "killall" /\ i' = i + 1 /\ i < 10
             \/ pc' = "enoughMem" /\ i = 10
      BY <1>2, <2>1, <2>3, KillallKills DEF LeftoverInv
    <3>2. \A p \in Alive(Interfering)' : p[2] = run \/ p[1] \notin KilledBy(i + 1)
      BY <2>1, <3>1 DEF LeftoverInv
    <3>3. \A p \in Alive(Interfering)' : p[1] \in Interfering
      BY DEF Alive
    <3>4. i \in Int
      BY DEF TypeInv, TypeOK
    <3>5. CASE pc' = "killall" /\ i' = i + 1 /\ i < 10
      <4>1. i' <= 10 /\ KilledBy(i)' = KilledBy(i + 1)
        BY <3>4, <3>5 DEF KilledBy
      <4> QED
        BY <3>1, <3>2, <3>5, <4>1 DEF LeftoverInv
    <3>6. CASE pc' = "enoughMem" /\ i = 10
      <4>1. i + 1 = 11
        BY <3>6
      <4> QED
        BY <3>1, <3>2, <3>3, <3>6, <4>1, AllKilled DEF LeftoverInv
    <3> QED
      BY <3>1, <3>5, <3>6
  <2> QED
    BY <2>2, <2>3
<1>3. CASE ~NextRun /\ ~KillAll
  <2>1. \A p \in Alive(Interfering)' : p \in Alive(Interfering) \/ p[2] = run
    BY Starts DEF Alive, Started
  <2>2. UNCHANGED run /\ (pc' \in TryPcs => pc \in TryPcs)
        /\ (pc' \in TryPcs /\ "killall" \in {pc, pc'} => UNCHANGED <<pc, i>>)
    BY <1>3, Proceeds
  <2> QED
    BY <2>1, <2>2 DEF LeftoverInv
<1> QED
  BY <1>1, <1>2, <1>3

\* As long as no lost session goes unnoticed, a run that works on its payload
\* shares the testbed with no process that an earlier run has left: whatever
\* ended that run, killall has killed what it had started
\* (testbed_c_and_c.py:63-77).
THEOREM LeftoversAreKilled ==
  ASSUME "drop" \notin Faults
  PROVE  Spec => []NoLeftovers
<1>1. Init => TypeInv /\ LeftoverInv
  BY InitType DEF Init, LeftoverInv, Alive, ProcsInit
<1>2. TypeInv /\ LeftoverInv /\ [Next]_vars => (TypeInv /\ LeftoverInv)'
  BY TypeStep, LeftoverStep
<1>3. LeftoverInv => NoLeftovers
  BY DEF LeftoverInv, NoLeftovers, Working, TryPcs, CallPcs, RetryPcs, SetupPcs, StepPcs, SavePcs
<1> QED
  BY <1>1, <1>2, <1>3, PTL DEF Spec

-----------------------------------------------------------------------------
(* The scripts on avda.                                                      *)

\* The roles in which a process of the run goes on, and those that the next
\* step may add.
Running == {role \in Roles : Me(role) \in up \ dying}
StartedRoles ==
  {role \in Roles :
     \/ pc = "birdsStart" /\ role = cmd
     \/ pc = "qmonStart" /\ role = "monitor"
     \/ pc = "tcpServer" /\ role = "server"
     \/ pc = "tcpClient" /\ role = "client"}

\* No process is of a run to come.
UpToNow == \A p \in up : p[2] <= run

LEMMA NowStep ==
  ASSUME TypeInv, UpToNow, [Next]_vars
  PROVE  UpToNow'
<1>1. run \in Nat
  BY DEF TypeInv, TypeOK
<1>2. run' = run \/ (NextRun /\ run' = run + 1)
  <2>1. CASE KillAll
    BY <2>1 DEF KillAll, CleanupStep, Fails, Raise, outer
  <2> QED
    BY <2>1, Proceeds DEF NextRun
<1>3. up' \subseteq up \cup Started
  BY Starts
<1> QED
  BY <1>1, <1>2, <1>3 DEF UpToNow, Started, NextRun, procs, TypeInv, TypeOK, ProcsType, Procs, Runs

LEMMA RunningStep ==
  ASSUME TypeInv, UpToNow, [Next]_vars
  PROVE  /\ NextRun => Running' = {}
         /\ ~NextRun => Running' \subseteq Running \cup StartedRoles
<1>1. CASE NextRun
  <2>1. run \in Nat /\ run' = run + 1 /\ up' = up
    BY <1>1 DEF NextRun, procs, TypeInv, TypeOK
  <2> QED
    BY <1>1, <2>1 DEF UpToNow, Running, Me
<1>2. CASE ~NextRun
  <2>1. run' = run
    <3>1. CASE KillAll
      BY <3>1 DEF KillAll, CleanupStep, Fails, Raise, outer
    <3> QED
      BY <1>2, <3>1, Proceeds
  <2>2. \A role \in Roles : Me(role) \in Started => role \in StartedRoles
    BY DEF Started, StartedRoles, Me
  <2> QED
    BY <1>2, <2>1, <2>2, Starts DEF Running, Me
<1> QED
  BY <1>1, <1>2

\* The script that avda may be running: the one that issueCommandToBirds looks
\* after, or the first attempt, which the retry has not killed yet.
AtScript == {"birdsAvdb", "birdsWait", "birdsAssert"}
ScriptNow ==
  {role \in BirdRoles :
     (pc \in AtScript /\ role = cmd) \/ (pc = "retry" /\ i = 0 /\ role = "accept1")}

ScriptInv == pc \in TryPcs => Running \cap BirdRoles \subseteq ScriptNow

\* What is raised at a script ends the run, or kills the script next.
LEMMA RaiseAtScript ==
  ASSUME NEW e, Raise(e)
  PROVE  /\ UNCHANGED <<run, config, step>>
         /\ pc' = "except" \/ (pc' = "retry" /\ i' = 0 /\ pc \in CallPcs /\ cmd = "accept1")
BY DEF Raise, FirstAttempt, outer

LEMMA RaiseKeepsScript ==
  ASSUME TypeInv, NEW e, Raise(e), pc \in TryPcs,
         Running' \cap BirdRoles \subseteq {cmd} \cap BirdRoles
  PROVE  ScriptInv'
BY RaiseAtScript
   DEF ScriptInv, ScriptNow, TryPcs, CallPcs, RetryPcs, SetupPcs, StepPcs, SavePcs, BirdRoles, MonkeyRoles

\* The steps of the orchestrator that have no script to look after.
NoScript ==
  \/ MetadataFails \/ ExitLoop \/ Escape \/ CheckFlow \/ RetrySleep \/ KillAll \/ EnoughMem
  \/ QmonStart \/ SetLatency \/ SetRate \/ Payload \/ Saving \/ Handling

LEMMA NoScriptPcs ==
  ASSUME NoScript
  PROVE  /\ pc \notin {"birdsStart", "birdsAvdb", "birdsWait", "birdsAssert", "retry"}
         /\ Next /\ ~NextRun /\ (pc' \in TryPcs => pc \in TryPcs)
<1>1. /\ pc \notin {"birdsStart", "birdsAvdb", "birdsWait", "birdsAssert", "retry"}
      /\ pc = "loop" => pc' \in {"escape", "done"}
  BY DEF NoScript, MetadataFails, ExitLoop, Escape, CheckFlow, RetrySleep, KillAll, EnoughMem, QmonStart,
     SetLatency, SetRate, Payload, Make, EndCall, Wait, Profile, MakeScreencapture, SetupTcp, TcpServer,
     TcpClient, StartGen, TcpSleep, KillTcp, AssertClient, AssertServer, AssertRuns, StopServer,
     ClientGraceful, StopClient, Doing, Saving, QmonStop, Process, CopyCapture, RemoveCapture, CopyMkv,
     RemoveMkv, Handling, Except, FinallyCheck, FinallyStop
<1>2. Next /\ ~NextRun
  <2>1. ~NextRun
    BY <1>1 DEF NextRun
  <2> QED
    BY <2>1 DEF NoScript, Next, Orchestrator, Loop, Calling, Setup
<1>3. pc' \in TryPcs => pc \in TryPcs
  BY <1>2, Proceeds DEF KillAll, TryPcs, SetupPcs
<1> QED
  BY <1>1, <1>2, <1>3

LEMMA ScriptStep ==
  ASSUME "drop" \notin Faults, TypeInv, UpToNow, ScriptInv, [Next]_vars
  PROVE  ScriptInv'
<1>0. /\ NextRun => Running' = {}
      /\ ~NextRun => Running' \subseteq Running \cup StartedRoles
  BY RunningStep
<1>1. CASE NextRun
  BY <1>0, <1>1 DEF ScriptInv
<1>2. CASE NoScript
  <2>1. Running' \subseteq Running \cup StartedRoles
    BY <1>0, <1>2, NoScriptPcs
  <2>2. ScriptNow = {} /\ StartedRoles \cap BirdRoles = {}
    BY <1>2, NoScriptPcs DEF ScriptNow, AtScript, StartedRoles, BirdRoles, MonkeyRoles
  <2> QED
    BY <1>2, <2>1, <2>2, NoScriptPcs DEF ScriptInv
<1>3. CASE BirdsStart
  <2>1. /\ pc = "birdsStart" /\ pc \in TryPcs /\ ~NextRun
        /\ Running' \cap BirdRoles \subseteq {cmd} \cap BirdRoles
    BY <1>0, <1>3 DEF BirdsStart, NextRun, ScriptInv, ScriptNow, AtScript, StartedRoles, BirdRoles,
       MonkeyRoles, TryPcs, CallPcs
  <2>2. CASE At("birdsAvdb")
    BY <2>1, <2>2 DEF At, ScriptInv, ScriptNow, AtScript
  <2> QED
    BY <1>3, <2>1, <2>2, RaiseKeepsScript DEF BirdsStart
<1>4. CASE BirdsAvdb \/ BirdsWait \/ BirdsAssert
  <2>1. /\ UNCHANGED <<procs, run>> /\ pc \in AtScript /\ pc \in TryPcs
        /\ Running \cap BirdRoles \subseteq {cmd} \cap BirdRoles
    BY <1>4 DEF BirdsAvdb, BirdsWait, BirdsAssert, Fails, At, Raise, StepDone, outer, world, ScriptInv,
       ScriptNow, AtScript, TryPcs, CallPcs
  <2>2. Running' = Running
    BY <2>1 DEF Running, procs, Me
  <2>3. CASE Raise("error")
    BY <2>1, <2>2, <2>3, RaiseKeepsScript
  <2>4. CASE (BirdsAvdb \/ BirdsWait) /\ ~Raise("error")
    BY <2>1, <2>2, <2>4 DEF BirdsAvdb, BirdsWait, Fails, At, ScriptInv, ScriptNow, AtScript
  <2>5. CASE BirdsAssert /\ ~Raise("error")
    <3>1. Me(cmd) \notin up
      BY <2>5 DEF BirdsAssert, IsRunning
    <3>2. Running \cap BirdRoles = {}
      BY <2>1, <3>1 DEF Running
    <3> QED
      BY <2>2, <3>2 DEF ScriptInv
  <2> QED
    BY <1>4, <2>3, <2>4, <2>5
<1>5. CASE Retry
  <2>1. i \in 0..11 /\ pc = "retry" /\ ~NextRun /\ pc \in TryPcs /\ pc \notin CallPcs
    BY <1>5 DEF Retry, NextRun, TypeInv, TypeOK, TryPcs, RetryPcs, CallPcs
  <2>2. CASE Raise("error")
    BY <2>1, <2>2, RaiseAtScript DEF ScriptInv, TryPcs, CallPcs, RetryPcs, SetupPcs, StepPcs, SavePcs
  <2>3. CASE ~Raise("error")
    <3>1. Pkill(RetryCmds[i + 1].kills) /\ UNCHANGED run
      BY <1>5, <2>3 DEF Retry, CleanupStep, CleanupWorks, Fails, outer
    <3>2. Running' \cap BirdRoles = {}
      <4>1. CASE i = 0
        <5>1. Pkill(MonkeyRoles)
          BY <3>1, <4>1 DEF RetryCmds, Cleanup
        <5>2. Running \cap BirdRoles \subseteq MonkeyRoles
          BY <2>1 DEF ScriptInv, ScriptNow, AtScript, MonkeyRoles
        <5> QED
          BY <3>1, <5>1, <5>2 DEF Pkill, Running, Me
      <4>2. CASE i # 0
        <5>1. Running \cap BirdRoles = {} /\ StartedRoles = {}
          BY <2>1, <4>2 DEF ScriptInv, ScriptNow, AtScript, StartedRoles
        <5> QED
          BY <1>0, <2>1, <5>1
      <4> QED
        BY <4>1, <4>2
    <3> QED
      BY <3>2 DEF ScriptInv
  <2> QED
    BY <2>2, <2>3
<1>6. CASE Interrupt
  <2>1. UNCHANGED <<procs, run>>
    BY <1>6 DEF Interrupt, Raise, outer, world
  <2>2. Running' = Running
    BY <2>1 DEF Running, procs, Me
  <2>3. CASE pc \in TryPcs /\ Raise("interrupt")
    <3>1. CASE pc' = "except"
      BY <3>1 DEF ScriptInv, TryPcs, CallPcs, RetryPcs, SetupPcs, StepPcs, SavePcs
    <3>2. CASE pc' # "except"
      <4>1. pc \in CallPcs
        BY <2>3, <3>2, RaiseAtScript
      <4>2. Running \cap BirdRoles \subseteq {cmd} \cap BirdRoles
        BY <2>3, <4>1 DEF ScriptInv, ScriptNow, AtScript, CallPcs
      <4> QED
        BY <2>2, <2>3, <4>2, RaiseKeepsScript
    <3> QED
      BY <3>1, <3>2
  <2>4. CASE pc' \in {"finally", "escape"}
    BY <2>4 DEF ScriptInv, TryPcs, CallPcs, RetryPcs, SetupPcs, StepPcs, SavePcs
  <2> QED
    BY <1>6, <2>3, <2>4 DEF Interrupt
<1>7. CASE Environment \/ UNCHANGED vars
  <2>1. up' \ dying' \subseteq up \ dying /\ UNCHANGED control
    BY <1>7 DEF Environment, ScriptEnds, ClientEnds, Crash, SignalledExit, Answer, CallEnds, Exit, Vanish,
       vars, world, procs, TypeInv, TypeOK, ProcsType
  <2> QED
    BY <2>1 DEF control, outer, birds, ScriptInv, ScriptNow, Running, Me
<1> QED
  BY <1>1, <1>2, <1>3, <1>4, <1>5, <1>6, <1>7
     DEF Next, Orchestrator, Loop, Calling, Setup, NoScript, Terminated

\* Under the same assumption: avda is driven by one monkeyrunner script at a
\* time.  When the first attempt of establish_call hangs, its except clause has
\* killed the script before the second attempt starts one
\* (testbed_c_and_c.py:131-146).
THEOREM OneScriptAtATime ==
  ASSUME "drop" \notin Faults
  PROVE  Spec => []OneScriptPerPhone
<1> DEFINE IInv == TypeInv /\ UpToNow /\ LeftoverInv /\ ScriptInv
<1>1. Init => IInv
  BY InitType DEF Init, UpToNow, LeftoverInv, ScriptInv, Running, Alive, ProcsInit
<1>2. IInv /\ [Next]_vars => IInv'
  BY TypeStep, NowStep, LeftoverStep, ScriptStep
<1>3. IInv => OneScriptPerPhone
  <2> SUFFICES ASSUME IInv, Working PROVE Cardinality(Alive(MonkeyRoles)) <= 1
    BY DEF OneScriptPerPhone
  <2>1. PICK role : ScriptNow \subseteq {role}
    BY DEF ScriptNow, AtScript
  <2>2. Alive(MonkeyRoles) \subseteq {<<role, run>>}
    <3>1. pc \in TryPcs /\ pc # "killall"
      BY DEF Working, TryPcs, CallPcs, RetryPcs, SetupPcs, StepPcs, SavePcs
    <3>2. \A p \in Alive(MonkeyRoles) : p[2] = run
      BY <3>1 DEF LeftoverInv, Alive, Interfering, Roles, BirdRoles, MonkeyRoles
    <3>3. \A p \in Alive(MonkeyRoles) : p = <<p[1], p[2]>> /\ p[1] \in BirdRoles
      BY DEF Alive, TypeInv, TypeOK, ProcsType, Procs, BirdRoles
    <3>4. \A p \in Alive(MonkeyRoles) : p[1] \in Running
      BY <3>2, <3>3 DEF Running, Me, Alive, Roles
    <3> QED
      BY <2>1, <3>1, <3>2, <3>3, <3>4 DEF ScriptInv
  <2>3. IsFiniteSet({<<role, run>>}) /\ Cardinality({<<role, run>>}) = 1
    BY FS_Singleton
  <2> QED
    BY <2>2, <2>3, FS_Subset
<1> QED
  BY <1>1, <1>2, <1>3, PTL DEF Spec

-----------------------------------------------------------------------------
(* The workload.                                                             *)

Steps == Workload[config.scenario]
StepIs(w) == step \in 1..Len(Steps) /\ Steps[step] = w

\* A workload that sets up a TCP flow tears it down in a later step.
LEMMA WorkloadFacts ==
  \A s \in Scenarios :
    /\ Len(Workload[s]) \in Nat \ {0}
    /\ \A k \in 1..Len(Workload[s]) : Workload[s][k] = "setupTCP" =>
         \E j \in 1..Len(Workload[s]) : j > k /\ Workload[s][j] = "killTCP"
<1> SUFFICES ASSUME NEW s \in Scenarios
             PROVE  /\ Len(Workload[s]) \in Nat \ {0}
                    /\ \A k \in 1..Len(Workload[s]) : Workload[s][k] = "setupTCP" =>
                         \E j \in 1..Len(Workload[s]) : j > k /\ Workload[s][j] = "killTCP"
  OBVIOUS
<1>1. CASE s = "BWP"
  BY <1>1 DEF Workload
<1>2. CASE s = "INCUMBENT_TCP"
  BY <1>2 DEF Workload
<1>3. CASE s = "INCUMBENT_CALL"
  BY <1>3 DEF Workload
<1>4. CASE s = "JUST_CALL"
  BY <1>4 DEF Workload
<1>5. CASE s = "JUST_TCP"
  BY <1>5 DEF Workload
<1>6. CASE s = "JUST_CALL_SCREENCAPTURE"
  BY <1>6 DEF Workload
<1>7. CASE s = "INCUMBENT_TCP_SCREENCAPTURE"
  BY <1>7 DEF Workload
<1>8. CASE s = "INCUMBENT_CALL_SCREENCAPTURE"
  BY <1>8 DEF Workload
<1> QED
  BY <1>1, <1>2, <1>3, <1>4, <1>5, <1>6, <1>7, <1>8 DEF Scenarios, Workload

LEMMA StepsType == TypeInv => Len(Steps) \in Nat \ {0}
BY WorkloadFacts, ConfigType DEF TypeInv, TypeOK, Steps

TcpStart == {"tcpServer", "tcpClient", "tcpSleep"}
TcpStop == {"clientRuns", "serverRuns", "stopServer", "stopSleep", "stopClient"}

\* The functions of the testbed run in the step they are named for.
StepInv ==
  /\ pc \in SetupPcs \/ (pc \in CallPcs /\ cmd = "ifconfig") => step = 0
  /\ pc \in RetryPcs \/ (pc \in CallPcs /\ Accepts) => StepIs("make")
  /\ pc \in CallPcs /\ cmd = "endcall" => StepIs("end")
  /\ pc = "payload" => step \in 1..Len(Steps)
  /\ pc \in TcpStart => StepIs("setupTCP")
  /\ pc \in TcpStop => StepIs("killTCP")
  /\ pc \in SavePcs => step = Len(Steps)

\* The ways in which a step of _do goes on.
LEMMA StaysInStep ==
  ASSUME StepInv, UNCHANGED <<config, step, cmd>>,
         \E C \in {SetupPcs, CallPcs, RetryPcs, TcpStart, TcpStop, SavePcs, {pc}} : {pc, pc'} \subseteq C
  PROVE  StepInv'
<1>1. Steps' = Steps
  BY DEF Steps
<1> QED
  BY <1>1 DEF StepInv, StepIs, Accepts, SetupPcs, CallPcs, RetryPcs, TcpStart, TcpStop, SavePcs

LEMMA LeavesTry ==
  ASSUME pc' \notin TryPcs
  PROVE  StepInv'
BY DEF StepInv, TcpStart, TcpStop, TryPcs, SetupPcs, CallPcs, RetryPcs, StepPcs, SavePcs

LEMMA RaiseKeepsStep ==
  ASSUME StepInv, NEW e, Raise(e)
  PROVE  StepInv'
<1>1. Steps' = Steps /\ step' = step
  BY DEF Raise, Steps, outer
<1>2. CASE pc' = "except"
  BY <1>2, LeavesTry DEF TryPcs, SetupPcs, CallPcs, RetryPcs, StepPcs, SavePcs
<1>3. CASE pc' = "retry"
  <2>1. StepIs("make")
    BY <1>3 DEF Raise, FirstAttempt, StepInv, Accepts
  <2> QED
    BY <1>1, <1>3, <2>1 DEF StepInv, StepIs, SetupPcs, CallPcs, RetryPcs, TcpStart, TcpStop, SavePcs
<1> QED
  BY <1>2, <1>3 DEF Raise

LEMMA StepDoneKeepsStep ==
  ASSUME TypeInv, StepDone, step <= Len(Steps)
  PROVE  StepInv'
<1>1. Steps' = Steps
  BY DEF StepDone, Steps, outer
<1>2. Len(Steps) \in Nat /\ step \in Nat
  BY StepsType DEF TypeInv, TypeOK
<1>3. \/ pc' = "payload" /\ step' \in 1..Len(Steps)
      \/ pc' = "qmonStop" /\ step' = Len(Steps)
  BY <1>2 DEF StepDone, Steps
<1> QED
  BY <1>1, <1>3 DEF StepInv, SetupPcs, CallPcs, RetryPcs, TcpStart, TcpStop, SavePcs

LEMMA StepStep ==
  ASSUME TypeInv, StepInv, [Next]_vars
  PROVE  StepInv'
<1>0. /\ Len(Steps) \in Nat \ {0} /\ step \in Nat
      /\ \A w : StepIs(w) => step <= Len(Steps)
  BY StepsType DEF TypeInv, TypeOK, StepIs
<1>1. CASE Loop
  BY <1>1 DEF Loop, NextRun, MetadataFails, ExitLoop, Escape, StepInv, TcpStart, TcpStop, SetupPcs,
     CallPcs, RetryPcs, SavePcs
<1>2. CASE Handling
  <2>1. pc' \notin TryPcs
    BY <1>2 DEF Handling, Except, FinallyCheck, FinallyStop, FinallyRaises, Leave, At, TryPcs, SetupPcs,
       CallPcs, RetryPcs, StepPcs, SavePcs
  <2> QED
    BY <2>1, LeavesTry
<1>3. CASE KillAll
  <2>1. Raise("error") \/ (UNCHANGED <<config, step, cmd>> /\ {pc, pc'} \subseteq SetupPcs)
    BY <1>3 DEF KillAll, CleanupStep, Fails, outer, SetupPcs
  <2> QED
    BY <2>1, RaiseKeepsStep, StaysInStep
<1>4. CASE EnoughMem
  <2>1. CASE Birds("ifconfig")
    BY <1>4, <2>1 DEF EnoughMem, Birds, StepInv, Accepts, SetupPcs, CallPcs, RetryPcs, TcpStart, TcpStop, SavePcs
  <2> QED
    BY <1>4, <2>1, RaiseKeepsStep DEF EnoughMem, Fails
<1>5. CASE QmonStart
  <2>1. CASE ~Raise("error")
    BY <1>5, <2>1 DEF QmonStart, StepInv, SetupPcs, CallPcs, RetryPcs, TcpStart, TcpStop, SavePcs
  <2> QED
    BY <2>1, RaiseKeepsStep
<1>6. CASE SetLatency
  <2>1. CASE At("rate")
    BY <1>6, <2>1, StaysInStep DEF SetLatency, At, outer, SetupPcs
  <2> QED
    BY <1>6, <2>1, RaiseKeepsStep DEF SetLatency, Fails
<1>7. CASE SetRate
  <2>1. step <= Len(Steps)
    BY <1>0, <1>7 DEF SetRate, StepInv, SetupPcs
  <2> QED
    BY <1>7, <2>1, RaiseKeepsStep, StepDoneKeepsStep DEF SetRate, Fails
<1>8. CASE BirdsStart \/ BirdsAvdb \/ BirdsWait
  <2>1. Raise("error") \/ (UNCHANGED <<config, step, cmd>> /\ {pc, pc'} \subseteq CallPcs)
    BY <1>8 DEF BirdsStart, BirdsAvdb, BirdsWait, At, Fails, outer, CallPcs
  <2> QED
    BY <2>1, RaiseKeepsStep, StaysInStep
<1>9. CASE BirdsAssert
  <2>1. CASE cmd = "ifconfig" /\ At("qmonStart")
    <3>1. step' = 0 /\ pc' = "qmonStart"
      BY <1>9, <2>1 DEF BirdsAssert, StepInv, CallPcs, At
    <3> QED
      BY <3>1 DEF StepInv, SetupPcs, CallPcs, RetryPcs, TcpStart, TcpStop, SavePcs
  <2>2. CASE At("flow")
    BY <1>9, <2>2, StaysInStep DEF BirdsAssert, At, outer, CallPcs
  <2>3. CASE cmd = "endcall" /\ StepDone
    BY <1>0, <1>9, <2>3, StepDoneKeepsStep DEF BirdsAssert, StepInv, CallPcs
  <2> QED
    BY <1>9, <2>1, <2>2, <2>3, RaiseKeepsStep DEF BirdsAssert
<1>10. CASE CheckFlow
  <2>1. step <= Len(Steps)
    BY <1>0, <1>10 DEF CheckFlow, StepInv, CallPcs, TypeInv, Underway, BirdRoles, MonkeyRoles, Accepts
  <2> QED
    BY <1>10, <2>1, RaiseKeepsStep, StepDoneKeepsStep DEF CheckFlow, Fails
<1>11. CASE Retry
  <2>1. Raise("error") \/ (UNCHANGED <<config, step, cmd>> /\ {pc, pc'} \subseteq RetryPcs)
    BY <1>11 DEF Retry, CleanupStep, Fails, outer, RetryPcs
  <2> QED
    BY <2>1, RaiseKeepsStep, StaysInStep
<1>12. CASE RetrySleep \/ Make \/ EndCall
  <2>1. /\ UNCHANGED <<config, step>> /\ pc' = "birdsStart"
        /\ \/ cmd' = "endcall" /\ StepIs("end")
           \/ cmd' \in {"accept1", "accept2"} /\ StepIs("make")
    BY <1>12 DEF RetrySleep, Make, EndCall, Doing, Birds, outer, StepInv, StepIs, Steps, RetryPcs
  <2>2. Steps' = Steps
    BY <2>1 DEF Steps
  <2> QED
    BY <2>1, <2>2 DEF StepInv, StepIs, Accepts, SetupPcs, CallPcs, RetryPcs, TcpStart, TcpStop, SavePcs
<1>13. CASE Wait \/ Profile \/ MakeScreencapture
  BY <1>0, <1>13, RaiseKeepsStep, StepDoneKeepsStep
     DEF Wait, Profile, MakeScreencapture, Doing, Fails, StepInv
<1>14. CASE SetupTcp \/ KillTcp
  <2>1. /\ UNCHANGED <<config, step>>
        /\ \/ pc' = "tcpServer" /\ StepIs("setupTCP")
           \/ pc' = "clientRuns" /\ StepIs("killTCP")
    BY <1>14 DEF SetupTcp, KillTcp, Doing, At, outer, StepInv, StepIs, Steps
  <2>2. Steps' = Steps
    BY <2>1 DEF Steps
  <2> QED
    BY <2>1, <2>2 DEF StepInv, StepIs, SetupPcs, CallPcs, RetryPcs, TcpStart, TcpStop, SavePcs
<1>15. CASE TcpServer \/ TcpClient
  <2>1. Raise("error") \/ (UNCHANGED <<config, step, cmd>> /\ {pc, pc'} \subseteq TcpStart)
    BY <1>15 DEF TcpServer, TcpClient, StartGen, At, outer, TcpStart
  <2> QED
    BY <2>1, RaiseKeepsStep, StaysInStep
<1>16. CASE TcpSleep
  BY <1>0, <1>16, StepDoneKeepsStep DEF TcpSleep, StepInv, TcpStart
<1>17. CASE AssertClient \/ AssertServer \/ StopServer \/ ClientGraceful \/ StopClient
  <2>1. step <= Len(Steps)
    BY <1>0, <1>17 DEF AssertClient, AssertServer, AssertRuns, StopServer, ClientGraceful, StopClient,
       StepInv, TcpStop
  <2>2. \/ Raise("error") \/ StepDone
        \/ UNCHANGED <<config, step, cmd>> /\ {pc, pc'} \subseteq TcpStop
    BY <1>17 DEF AssertClient, AssertServer, AssertRuns, StopServer, ClientGraceful, StopClient, At, outer,
       TcpStop
  <2> QED
    BY <2>1, <2>2, RaiseKeepsStep, StaysInStep, StepDoneKeepsStep
<1>18. CASE Saving
  <2>1. \/ Raise("error") \/ pc' = "finally"
        \/ UNCHANGED <<config, step, cmd>> /\ {pc, pc'} \subseteq SavePcs
    BY <1>18 DEF Saving, QmonStop, Process, CopyCapture, RemoveCapture, CopyMkv, RemoveMkv, Fails, At,
       outer, SavePcs
  <2>2. CASE pc' = "finally"
    BY <2>2, LeavesTry DEF TryPcs, SetupPcs, CallPcs, RetryPcs, StepPcs, SavePcs
  <2> QED
    BY <2>1, <2>2, RaiseKeepsStep, StaysInStep
<1>19. CASE Interrupt
  <2>1. CASE pc' \in {"finally", "escape"}
    BY <2>1, LeavesTry DEF TryPcs, SetupPcs, CallPcs, RetryPcs, StepPcs, SavePcs
  <2> QED
    BY <1>19, <2>1, RaiseKeepsStep DEF Interrupt
<1>20. CASE Environment \/ UNCHANGED vars
  <2>1. UNCHANGED <<config, step, cmd, pc>>
    BY <1>20 DEF Environment, ScriptEnds, ClientEnds, Crash, SignalledExit, Answer, CallEnds, vars,
       control, birds, outer
  <2> QED
    BY <2>1, StaysInStep
<1> QED
  BY <1>1, <1>2, <1>3, <1>4, <1>5, <1>6, <1>7, <1>8, <1>9, <1>10, <1>11, <1>12, <1>13, <1>14, <1>15,
     <1>16, <1>17, <1>18, <1>19, <1>20
     DEF Next, Orchestrator, Calling, Setup, Payload, Terminated

\* The workload still has a killTCP to come to, or is in it.
KillAhead ==
  pc \notin SavePcs /\ \E j \in 1..Len(Steps) : Steps[j] = "killTCP" /\ j >= step

\* While a generator of the run goes on, its killTCP is ahead; and killTCP has
\* told the server to end before it looks at the client.
GenInv ==
  pc \in TryPcs =>
    /\ Running \cap {"server", "client"} # {} => KillAhead
    /\ pc \in {"stopSleep", "stopClient"} => "server" \notin Running

\* The steps that leave killTCP ahead.
Onward ==
  /\ UNCHANGED config
  /\ \/ UNCHANGED step /\ pc' \notin SavePcs
     \/ StepDone /\ ~StepIs("killTCP") /\ step <= Len(Steps)

LEMMA AheadStays ==
  ASSUME TypeInv, KillAhead, Onward
  PROVE  KillAhead'
<1>1. Steps' = Steps
  BY DEF Onward, Steps
<1>2. Len(Steps) \in Nat /\ step \in Nat
  BY StepsType DEF TypeInv, TypeOK
<1>3. PICK j \in 1..Len(Steps) : Steps[j] = "killTCP" /\ j >= step
  BY DEF KillAhead
<1>4. CASE UNCHANGED step /\ pc' \notin SavePcs
  BY <1>1, <1>3, <1>4 DEF KillAhead
<1>5. CASE StepDone /\ ~StepIs("killTCP") /\ step <= Len(Steps)
  <2>1. j # step
    BY <1>2, <1>3, <1>5 DEF StepIs
  <2>2. step < Len(Steps) /\ j >= step + 1
    BY <1>2, <1>3, <2>1
  <2>3. step' = step + 1 /\ pc' = "payload"
    BY <1>5, <2>2 DEF StepDone, Steps
  <2> QED
    BY <1>1, <1>3, <2>2, <2>3 DEF KillAhead, SavePcs
<1> QED
  BY <1>4, <1>5 DEF Onward

\* All steps but those of killTCP, of the results and into a new run.
LEMMA GoesOnward ==
  ASSUME TypeInv, StepInv, [Next]_vars, pc' \in TryPcs,
         ~NextRun, ~StopServer, ~ClientGraceful, ~StopClient, ~Saving,
         pc \notin SavePcs
  PROVE  Onward
<1> USE DEF outer
<1>0. /\ Len(Steps) \in Nat \ {0} /\ step \in Nat
      /\ \A w : StepIs(w) => step <= Len(Steps)
  BY StepsType DEF TypeInv, TypeOK, StepIs
<1>1. ASSUME NEW e, Raise(e)
      PROVE  Onward
  BY <1>1 DEF Raise, Onward, SavePcs
<1>2. CASE MetadataFails \/ ExitLoop \/ Escape \/ Handling
  BY <1>2 DEF MetadataFails, ExitLoop, Escape, Handling, Except, FinallyCheck, FinallyStop, Leave,
     FinallyRaises, At, TryPcs, CallPcs, RetryPcs, SetupPcs, StepPcs, SavePcs
<1>3. CASE KillAll \/ EnoughMem \/ QmonStart \/ SetLatency
  BY <1>1, <1>3 DEF KillAll, CleanupStep, EnoughMem, QmonStart, SetLatency, Fails, At, Birds, Onward, SavePcs
<1>4. CASE SetRate
  BY <1>0, <1>1, <1>4 DEF SetRate, Fails, Onward, StepInv, StepIs, SetupPcs, StepDone
<1>5. CASE BirdsStart \/ BirdsAvdb \/ BirdsWait \/ Retry \/ RetrySleep
  BY <1>1, <1>5 DEF BirdsStart, BirdsAvdb, BirdsWait, Retry, RetrySleep, CleanupStep, Fails, At, Birds,
     Onward, SavePcs
<1>6. CASE BirdsAssert
  <2>1. CASE StepDone /\ cmd = "endcall"
    BY <1>0, <1>6, <2>1 DEF BirdsAssert, StepInv, StepIs, CallPcs, Onward, StepDone
  <2> QED
    BY <1>1, <1>6, <2>1 DEF BirdsAssert, At, Onward, SavePcs
<1>7. CASE CheckFlow
  <2>1. step <= Len(Steps) /\ ~StepIs("killTCP")
    BY <1>0, <1>7 DEF CheckFlow, StepInv, StepIs, CallPcs, TypeInv, Underway, BirdRoles, MonkeyRoles, Accepts
  <2> QED
    BY <1>1, <1>7, <2>1 DEF CheckFlow, Fails, Onward, StepDone
<1>8. CASE Make \/ EndCall \/ SetupTcp \/ KillTcp \/ TcpServer \/ TcpClient \/ AssertClient \/ AssertServer
  BY <1>1, <1>8 DEF Make, EndCall, SetupTcp, KillTcp, TcpServer, TcpClient, StartGen, AssertClient,
     AssertServer, AssertRuns, Birds, At, Onward, SavePcs
<1>9. CASE Wait \/ Profile \/ MakeScreencapture
  <2>1. step <= Len(Steps) /\ ~StepIs("killTCP")
    BY <1>0, <1>9 DEF Wait, Profile, MakeScreencapture, Doing, StepInv, StepIs, Steps
  <2> QED
    BY <1>1, <1>9, <2>1 DEF Wait, Profile, MakeScreencapture, Fails, Onward, StepDone
<1>10. CASE TcpSleep
  BY <1>0, <1>10 DEF TcpSleep, StepInv, StepIs, TcpStart, Onward, StepDone
<1>11. CASE Interrupt
  BY <1>1, <1>11 DEF Interrupt, TryPcs, CallPcs, RetryPcs, SetupPcs, StepPcs, SavePcs
<1>12. CASE Environment \/ UNCHANGED vars
  BY <1>12 DEF Environment, ScriptEnds, ClientEnds, Crash, SignalledExit, Answer, CallEnds, vars,
     control, birds, Onward
<1> QED
  BY <1>2, <1>3, <1>4, <1>5, <1>6, <1>7, <1>8, <1>9, <1>10, <1>11, <1>12
     DEF Next, Orchestrator, Loop, Calling, Setup, Payload, Terminated

LEMMA GenStep ==
  ASSUME "drop" \notin Faults, TypeInv, UpToNow, StepInv, GenInv, [Next]_vars
  PROVE  GenInv'
<1> DEFINE Gens == {"server", "client"}
<1>0. /\ NextRun => Running' = {}
      /\ ~NextRun => Running' \subseteq Running \cup StartedRoles
  BY RunningStep
<1>1. CASE NextRun
  BY <1>0, <1>1 DEF GenInv
<1>2. CASE StopServer
  <2>1. pc = "stopServer" /\ run' = run /\ ~NextRun
    BY <1>2 DEF StopServer, At, Raise, outer, NextRun
  <2>2. CASE At("stopSleep")
    <3>1. Onward /\ pc \in TryPcs /\ StartedRoles = {}
      BY <2>1, <2>2 DEF At, Onward, outer, SavePcs, TryPcs, StepPcs, StartedRoles
    <3>2. "server" \notin Running'
      <4>1. Kill(Me("server"))
        BY <1>2, <2>2 DEF StopServer, Raise, At, FirstAttempt
      <4> QED
        BY <2>1, <4>1 DEF Kill, Running, Me
    <3>3. KillAhead => KillAhead'
      BY <3>1, AheadStays
    <3> QED
      BY <1>0, <2>1, <3>1, <3>2, <3>3 DEF GenInv
  <2>3. CASE Raise("error")
    <3>1. pc' = "except"
      BY <2>1, <2>3 DEF Raise, FirstAttempt, CallPcs
    <3> QED
      BY <3>1 DEF GenInv, TryPcs, CallPcs, RetryPcs, SetupPcs, StepPcs, SavePcs
  <2> QED
    BY <1>2, <2>2, <2>3 DEF StopServer
<1>3. CASE ClientGraceful \/ StopClient
  <2>1. pc \in {"stopSleep", "stopClient"} /\ pc \in TryPcs /\ ~NextRun /\ StartedRoles = {}
    BY <1>3 DEF ClientGraceful, StopClient, NextRun, TryPcs, StepPcs, StartedRoles
  <2>2. "server" \notin Running' /\ Running' \subseteq Running
    BY <1>0, <2>1 DEF GenInv
  <2>3. CASE At("stopClient")
    <3>1. Onward
      BY <2>3 DEF At, Onward, outer, SavePcs
    <3>2. KillAhead => KillAhead'
      BY <3>1, AheadStays
    <3> QED
      BY <2>1, <2>2, <3>2 DEF GenInv
  <2>4. CASE Raise("error")
    <3>1. pc' = "except"
      BY <2>1, <2>4 DEF Raise, FirstAttempt, CallPcs
    <3> QED
      BY <3>1 DEF GenInv, TryPcs, CallPcs, RetryPcs, SetupPcs, StepPcs, SavePcs
  <2>5. CASE ~At("stopClient") /\ ~Raise("error")
    <3>1. Me("client") \notin up \/ Kill(Me("client"))
      BY <1>3, <2>5 DEF ClientGraceful, StopClient, IsRunning
    <3>2. run' = run /\ pc' \in {"payload", "qmonStop"}
      BY <1>3, <2>5 DEF ClientGraceful, StopClient, StepDone, outer
    <3>3. "client" \notin Running'
      BY <2>2, <3>1, <3>2 DEF Kill, Running, Me
    <3> QED
      BY <2>2, <3>2, <3>3 DEF GenInv
  <2> QED
    BY <2>3, <2>4, <2>5
<1>4. CASE pc \in SavePcs /\ ~NextRun
  <2>1. StartedRoles = {} /\ pc \in TryPcs /\ Running \cap Gens = {}
    BY <1>4 DEF StartedRoles, GenInv, KillAhead, SavePcs, TryPcs
  <2> QED
    BY <1>0, <1>4, <2>1 DEF GenInv
<1>5. CASE ~NextRun /\ ~StopServer /\ ~ClientGraceful /\ ~StopClient /\ pc \notin SavePcs
  <2> SUFFICES ASSUME pc' \in TryPcs PROVE GenInv'
    BY DEF GenInv
  <2>1. ~Saving
    BY <1>5 DEF Saving, QmonStop, Process, CopyCapture, RemoveCapture, CopyMkv, RemoveMkv, SavePcs
  <2>2. Onward
    BY <1>5, <2>1, GoesOnward
  <2>3. pc \in TryPcs
    BY <1>5, Proceeds DEF KillAll, TryPcs, SetupPcs
  <2>4. pc' \in {"stopSleep", "stopClient"} => pc' = pc
    <3>1. CASE ~UNCHANGED pc /\ pc' \in {"stopSleep", "stopClient"}
      BY <1>5, <2>1, <3>1
         DEF Next, Orchestrator, Loop, MetadataFails, ExitLoop, Escape, Calling, BirdsStart, BirdsAvdb,
             BirdsWait, BirdsAssert, CheckFlow, Retry, RetrySleep, CleanupStep, Setup, KillAll, EnoughMem,
             QmonStart, SetLatency, SetRate, Payload, Make, EndCall, Wait, Profile, MakeScreencapture,
             SetupTcp, TcpServer, TcpClient, StartGen, TcpSleep, KillTcp, AssertClient, AssertServer,
             AssertRuns, Handling, Except, FinallyCheck, FinallyStop, Leave, FinallyRaises, Interrupt,
             Environment, ScriptEnds, ClientEnds, Crash, SignalledExit, Answer, CallEnds, Terminated,
             At, Birds, StepDone, Fails, Raise, vars, control
    <3> QED
      BY <3>1
  <2>5. Running' \cap Gens # {} => KillAhead
    <3>1. CASE pc \in {"tcpServer", "tcpClient"}
      <4>1. StepIs("setupTCP") /\ pc \notin SavePcs
        BY <3>1 DEF StepInv, TcpStart, SavePcs
      <4>2. config.scenario \in Scenarios
        BY ConfigType DEF TypeInv, TypeOK
      <4>3. PICK j \in 1..Len(Steps) : j > step /\ Steps[j] = "killTCP"
        BY <4>1, <4>2, WorkloadFacts DEF StepIs, Steps
      <4>4. j >= step
        BY <4>3, StepsType DEF TypeInv, TypeOK
      <4> QED
        BY <4>1, <4>3, <4>4 DEF KillAhead
    <3>2. CASE pc \notin {"tcpServer", "tcpClient"}
      <4>1. StartedRoles \cap Gens = {}
        BY <2>3, <3>2 DEF StartedRoles, TypeInv, Underway, BirdRoles, MonkeyRoles, CallPcs
      <4> QED
        BY <1>0, <1>5, <2>3, <4>1 DEF GenInv
    <3> QED
      BY <3>1, <3>2
  <2>6. KillAhead => KillAhead'
    BY <2>2, AheadStays
  <2>7. pc' \in {"stopSleep", "stopClient"} => "server" \notin Running'
    BY <1>0, <1>5, <2>3, <2>4 DEF GenInv, StartedRoles, TypeInv, Underway, BirdRoles, MonkeyRoles
  <2> QED
    BY <2>5, <2>6, <2>7 DEF GenInv
<1> QED
  BY <1>1, <1>2, <1>3, <1>4, <1>5

\* Under the same assumption: a workload that is through has left nothing of
\* the run but its monitor.  Whatever its scenario, each setupTCP is followed
\* by a killTCP, which ends the server and then the client unless that has
\* ended by itself; and no script of a call outlives issueCommandToBirds
\* (scenarios.py:39-45, testbed_c_and_c.py:105-127).
THEOREM WorkloadLeavesNothing ==
  ASSUME "drop" \notin Faults
  PROVE  Spec => []WorkloadCleansUp
<1> DEFINE IInv == TypeInv /\ UpToNow /\ ScriptInv /\ StepInv /\ GenInv
<1>1. Init => IInv
  BY InitType DEF Init, UpToNow, ScriptInv, GenInv, StepInv, Running, ProcsInit, SetupPcs, CallPcs,
     RetryPcs, TcpStart, TcpStop, SavePcs
<1>2. IInv /\ [Next]_vars => IInv'
  BY TypeStep, NowStep, ScriptStep, StepStep, GenStep
<1>3. IInv => WorkloadCleansUp
  <2> SUFFICES ASSUME IInv, pc = "qmonStop",
                      NEW p \in Alive({"server", "client"} \cup BirdRoles) \cap (Roles \X {run})
               PROVE  FALSE
    BY DEF WorkloadCleansUp
  <2>1. p[1] \in Running /\ p[1] \in {"server", "client"} \cup BirdRoles
    BY DEF Running, Alive, Me
  <2>2. pc \in TryPcs /\ pc \in SavePcs
    BY DEF TryPcs, SavePcs
  <2>3. p[1] \notin {"server", "client"}
    BY <2>1, <2>2 DEF GenInv, KillAhead
  <2>4. ScriptNow = {}
    BY DEF ScriptNow, AtScript
  <2> QED
    BY <2>1, <2>2, <2>3, <2>4 DEF ScriptInv
<1> QED
  BY <1>1, <1>2, <1>3, PTL DEF Spec

-----------------------------------------------------------------------------
(* The guids of the runs, by which their data is named.                      *)

\* The locations behind the first sleep of a run, and what has been done there.
ClockInv ==
  /\ pc \in {"birdsWait", "birdsAssert", "qmonStart"} => slept
  /\ qmon = "started" => slept
  /\ pc = "finallyStop" => qmon = "started"
  /\ pc = "loop" => run = 0 \/ slept

\* A step within a run that leads to none of these locations.
Within ==
  /\ UNCHANGED <<run, qmon>>
  /\ pc' \in {"birdsWait", "birdsAssert", "qmonStart", "finallyStop", "loop"} => UNCHANGED pc

LEMMA WithinStep ==
  ASSUME ClockInv, Within, Tick
  PROVE  ClockInv'
BY DEF ClockInv, Within, Tick

LEMMA ClockStep ==
  ASSUME ClockInv, Next, Tick
  PROVE  ClockInv'
<1>1. CASE MetadataFails \/ ExitLoop \/ Escape
  <2>1. Within
    BY <1>1 DEF Within, MetadataFails, ExitLoop, Escape, outer, birds
  <2> QED
    BY <2>1, WithinStep
<1>2. CASE NextRun
  BY <1>2 DEF ClockInv, NextRun
<1>3. CASE BirdsAvdb
  <2>1. slept' /\ UNCHANGED <<run, qmon>> /\ pc' # "finallyStop"
    BY <1>3 DEF BirdsAvdb, Tick, At, Fails, Raise, outer
  <2> QED
    BY <2>1 DEF ClockInv
<1>4. CASE BirdsWait \/ BirdsAssert
  <2>1. slept /\ UNCHANGED <<run, qmon>> /\ pc' # "finallyStop"
    BY <1>4 DEF ClockInv, BirdsWait, BirdsAssert, At, Raise, StepDone, outer
  <2> QED
    BY <2>1 DEF ClockInv, Tick
<1>5. CASE BirdsStart \/ CheckFlow \/ Retry \/ RetrySleep \/ KillAll \/ EnoughMem
  <2>1. Within
    BY <1>5 DEF Within, BirdsStart, CheckFlow, Retry, RetrySleep, KillAll, EnoughMem, CleanupStep,
       At, Birds, StepDone, Fails, Raise, outer
  <2> QED
    BY <2>1, WithinStep
<1>6. CASE QmonStart
  <2>1. slept /\ UNCHANGED run /\ pc' \in {"latency", "retry", "except"}
    BY <1>6 DEF ClockInv, QmonStart, Raise, outer
  <2> QED
    BY <2>1 DEF ClockInv, Tick
<1>7. CASE SetLatency \/ SetRate \/ Payload \/ Saving
  <2>1. Within
    BY <1>7 DEF Within, SetLatency, SetRate, Payload, Make, EndCall, Wait, Profile,
       MakeScreencapture, SetupTcp, TcpServer, TcpClient, StartGen, TcpSleep, KillTcp,
       AssertClient, AssertServer, AssertRuns, StopServer, ClientGraceful, StopClient,
       Saving, QmonStop, Process, CopyCapture, RemoveCapture, CopyMkv, RemoveMkv,
       At, Birds, StepDone, Fails, Raise, outer
  <2> QED
    BY <2>1, WithinStep
<1>8. CASE Except \/ Interrupt
  <2>1. Within
    BY <1>8 DEF Within, Except, Interrupt, Raise, outer, birds
  <2> QED
    BY <2>1, WithinStep
<1>9. CASE FinallyCheck \/ FinallyStop
  <2>1. /\ UNCHANGED <<run, qmon>>
        /\ pc' \in {"loop", "finallyStop"} => qmon = "started"
        /\ pc' \notin {"birdsWait", "birdsAssert", "qmonStart"}
    BY <1>9 DEF ClockInv, FinallyCheck, FinallyStop, FinallyRaises, Leave, At, outer
  <2> QED
    BY <2>1 DEF ClockInv, Tick
<1>10. CASE Environment \/ Terminated
  <2>1. Within
    BY <1>10 DEF Within, Environment, ScriptEnds, ClientEnds, Crash, SignalledExit, Answer,
       CallEnds, Terminated, vars, control, outer, birds
  <2> QED
    BY <2>1, WithinStep
<1> QED
  BY <1>1, <1>2, <1>3, <1>4, <1>5, <1>6, <1>7, <1>8, <1>9, <1>10
     DEF Next, Orchestrator, Loop, Calling, Setup, Handling

\* Only the beginning of a run is a step to another one.
LEMMA RunsBegin ==
  ASSUME Next, run' # run
  PROVE  pc = "loop"
BY DEF Next, Orchestrator, Loop, NextRun, MetadataFails, ExitLoop, Escape,
   Calling, BirdsStart, BirdsAvdb, BirdsWait, BirdsAssert, CheckFlow, Retry, RetrySleep,
   Setup, KillAll, CleanupStep, EnoughMem, QmonStart, SetLatency, SetRate,
   Payload, Make, EndCall, Wait, Profile, MakeScreencapture, SetupTcp, TcpServer, TcpClient,
   StartGen, TcpSleep, KillTcp, AssertClient, AssertServer, AssertRuns, StopServer,
   ClientGraceful, StopClient,
   Saving, QmonStop, Process, CopyCapture, RemoveCapture, CopyMkv, RemoveMkv,
   Handling, Except, FinallyCheck, FinallyStop, FinallyRaises, Leave, Interrupt,
   Environment, ScriptEnds, ClientEnds, Crash, SignalledExit, Answer, CallEnds,
   Terminated, At, Birds, StepDone, Fails, Raise, vars, control, outer

\* A study goes on only after a run that has slept, since one that has not did
\* not start its monitor, and the finally block of _do then raises
\* (scenarios.py:69): no two runs take their guids within a second.
THEOREM GuidsAreDifferent == ClockSpec => GuidsDiffer
<1>1. ClockInit => ClockInv
  BY DEF ClockInit, Init, ClockInv
<1>2. ClockInv /\ [Next /\ Tick]_clockVars => ClockInv'
  BY ClockStep DEF ClockInv, clockVars, vars, control, outer
<1>3. ClockInv /\ [Next /\ Tick]_clockVars => [run' # run => run = 0 \/ slept]_clockVars
  BY RunsBegin DEF ClockInv
<1> QED
  BY <1>1, <1>2, <1>3, PTL DEF ClockSpec, GuidsDiffer

=============================================================================
