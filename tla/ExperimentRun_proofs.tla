------------------------ MODULE ExperimentRun_proofs ------------------------
(* Theorems about ExperimentRun, for every number of runs, every set of      *)
(* messengers and configurations, every size of the router's disk and every  *)
(* combination of faults.                                                    *)
EXTENDS ExperimentRun, FiniteSetTheorems, TLAPS

-----------------------------------------------------------------------------
(* Type correctness.                                                         *)

\* The parts of TypeOK, as steps disturb them.
TypeControl ==
  /\ study \in {"running", "aborted", "interrupted", "finished"}
  /\ run \in 0..MaxRuns
  /\ config \in Configs
  /\ pc \in Pcs
  /\ exc \in {"none", "error", "interrupt"}
  /\ i \in 0..11
  /\ step \in Nat
  /\ cmd \in BirdRoles \cup {"none"}
  /\ qmon \in {"new", "started"}
  /\ errors \in Nat

TypePhones == ringing \subseteq Mvcas \X Runs /\ calls \subseteq Mvcas \X Runs

TypeFiles ==
  /\ onRouter \subseteq Runs
  /\ onAvda \subseteq Runs
  /\ stored \subseteq Kinds \X Runs
  /\ lost \subseteq Runs

\* At every location of _do a run is under way, and within issueCommandToBirds
\* it has a script.
Underway == (pc \in RunPcs => run \in Runs) /\ (pc \in CallPcs => cmd \in BirdRoles)

TypeInv == TypeOK /\ Underway

LEMMA ConfigType == \A c \in Configs : c.mvca \in Mvcas /\ c.scenario \in Scenarios
BY ConfigsAssumption

\* What the operators of the orchestrator's control flow do to its variables.
LEMMA ControlTypes ==
  ASSUME TypeInv, pc \in RunPcs,
         \/ \E l \in RunPcs : At(l) /\ (l \in CallPcs => pc \in CallPcs)
         \/ \E c \in BirdRoles : Birds(c)
         \/ StepDone
         \/ \E e \in {"error", "interrupt"} : Raise(e)
         \/ Leave
         \/ FinallyRaises
  PROVE  (TypeControl /\ Underway)'
<1> USE DEF TypeInv, TypeOK, Underway, TypeControl, outer, Pcs, RunPcs, TryPcs, CallPcs, RetryPcs, SetupPcs, StepPcs, SavePcs
<1>1. ASSUME NEW l \in RunPcs, At(l), l \in CallPcs => pc \in CallPcs
      PROVE  (TypeControl /\ Underway)'
  BY <1>1 DEF At
<1>2. ASSUME NEW c \in BirdRoles, Birds(c)
      PROVE  (TypeControl /\ Underway)'
  BY <1>2 DEF Birds
<1>3. CASE StepDone
  BY <1>3 DEF StepDone
<1>4. ASSUME NEW e \in {"error", "interrupt"}, Raise(e)
      PROVE  (TypeControl /\ Underway)'
  BY <1>4 DEF Raise
<1>5. CASE Leave
  BY <1>5 DEF Leave, birds
<1>6. CASE FinallyRaises
  BY <1>6 DEF FinallyRaises, birds
<1> QED
  BY <1>1, <1>2, <1>3, <1>4, <1>5, <1>6

\* What the operators on processes do to them.
LEMMA ProcTypes ==
  ASSUME ProcsType, NEW p \in Procs, NEW roles,
         Launch(p) \/ LaunchFails(p) \/ Kill(p) \/ KillFails(p) \/ Pkill(roles)
           \/ Exit(p) \/ Vanish(p)
  PROVE  ProcsType'
BY DEF ProcsType, Launch, LaunchFails, Kill, KillFails, Pkill, Exit, Vanish

LEMMA Mine ==
  ASSUME TypeInv, pc \in RunPcs
  PROVE  /\ run \in Runs
         /\ pc \in CallPcs => Me(cmd) \in Procs
         /\ \A role \in Roles : Me(role) \in Procs
         /\ MyCall \in Mvcas \X Runs
BY ConfigType, RunsAssumption DEF TypeInv, TypeOK, Underway, Me, Procs, MyCall, Roles

\* Every step keeps the types of the orchestrator's variables.
LEMMA ControlStep ==
  ASSUME TypeInv, [Next]_vars
  PROVE  (TypeControl /\ Underway)'
<1> USE DEF RunPcs, TryPcs, CallPcs, RetryPcs, SetupPcs, StepPcs, SavePcs
<1>0. TypeControl /\ Underway
  BY DEF TypeInv, TypeOK, TypeControl
<1>1. CASE NextRun
  BY <1>1, <1>0, RunsAssumption
     DEF NextRun, MoreRuns, TypeControl, Underway, Pcs, outer, birds, Runs
<1>2. CASE MetadataFails
  BY <1>2, <1>0
     DEF MetadataFails, TypeControl, Underway, Pcs, outer, birds
<1>3. CASE ExitLoop
  BY <1>3, <1>0
     DEF ExitLoop, TypeControl, Underway, Pcs, outer, birds
<1>4. CASE Escape
  BY <1>4, <1>0
     DEF Escape, TypeControl, Underway, Pcs, outer, birds
<1>5. CASE BirdsStart
  BY <1>5, ControlTypes DEF BirdsStart, Fails, BirdRoles, MonkeyRoles
<1>6. CASE BirdsAvdb
  BY <1>6, ControlTypes DEF BirdsAvdb, Fails, BirdRoles, MonkeyRoles
<1>7. CASE BirdsWait
  BY <1>7, <1>0
     DEF BirdsWait, TypeControl, Underway, Pcs, outer, birds
<1>8. CASE BirdsAssert
  BY <1>8, ControlTypes DEF BirdsAssert, Fails, BirdRoles, MonkeyRoles
<1>9. CASE CheckFlow
  BY <1>9, ControlTypes DEF CheckFlow, Fails, BirdRoles, MonkeyRoles
<1>10. CASE Retry
  BY <1>10, <1>0, ControlTypes
     DEF Retry, CleanupStep, Fails, TypeControl, Underway, Pcs, outer, birds, RetryCmds
<1>11. CASE RetrySleep
  BY <1>11, ControlTypes DEF RetrySleep, Fails, BirdRoles, MonkeyRoles
<1>12. CASE KillAll
  BY <1>12, <1>0, ControlTypes
     DEF KillAll, CleanupStep, Fails, TypeControl, Underway, Pcs, outer, birds, KillallCmds
<1>13. CASE EnoughMem
  BY <1>13, ControlTypes DEF EnoughMem, Fails, BirdRoles, MonkeyRoles
<1>14. CASE QmonStart
  <2>1. CASE Raise("error")
    BY <1>14, <2>1, ControlTypes DEF QmonStart
  <2>2. CASE ~Raise("error")
    BY <1>14, <2>2, <1>0 DEF QmonStart, TypeControl, Underway, Pcs, outer
  <2> QED
    BY <2>1, <2>2
<1>15. CASE SetLatency
  BY <1>15, ControlTypes DEF SetLatency, Fails, BirdRoles, MonkeyRoles
<1>16. CASE SetRate
  BY <1>16, ControlTypes DEF SetRate, Fails, BirdRoles, MonkeyRoles
<1>17. CASE Make
  BY <1>17, ControlTypes DEF Make, Doing, Fails, BirdRoles, MonkeyRoles
<1>18. CASE EndCall
  BY <1>18, ControlTypes DEF EndCall, Doing, Fails, BirdRoles, MonkeyRoles
<1>19. CASE Wait
  BY <1>19, ControlTypes DEF Wait, Doing, Fails, BirdRoles, MonkeyRoles
<1>20. CASE Profile
  BY <1>20, ControlTypes DEF Profile, Doing, Fails, BirdRoles, MonkeyRoles
<1>21. CASE MakeScreencapture
  BY <1>21, ControlTypes DEF MakeScreencapture, Doing, Fails, BirdRoles, MonkeyRoles
<1>22. CASE SetupTcp
  BY <1>22, ControlTypes DEF SetupTcp, Doing, Fails, BirdRoles, MonkeyRoles
<1>23. CASE TcpServer
  BY <1>23, ControlTypes DEF TcpServer, StartGen, Fails, BirdRoles, MonkeyRoles
<1>24. CASE TcpClient
  BY <1>24, ControlTypes DEF TcpClient, StartGen, Fails, BirdRoles, MonkeyRoles
<1>25. CASE TcpSleep
  BY <1>25, ControlTypes DEF TcpSleep, Fails, BirdRoles, MonkeyRoles
<1>26. CASE KillTcp
  BY <1>26, ControlTypes DEF KillTcp, Doing, Fails, BirdRoles, MonkeyRoles
<1>27. CASE AssertClient
  BY <1>27, ControlTypes DEF AssertClient, AssertRuns, Fails, BirdRoles, MonkeyRoles
<1>28. CASE AssertServer
  BY <1>28, ControlTypes DEF AssertServer, AssertRuns, Fails, BirdRoles, MonkeyRoles
<1>29. CASE StopServer
  BY <1>29, ControlTypes DEF StopServer, Fails, BirdRoles, MonkeyRoles
<1>30. CASE ClientGraceful
  BY <1>30, ControlTypes DEF ClientGraceful, Fails, BirdRoles, MonkeyRoles
<1>31. CASE StopClient
  BY <1>31, ControlTypes DEF StopClient, Fails, BirdRoles, MonkeyRoles
<1>32. CASE QmonStop
  BY <1>32, ControlTypes DEF QmonStop, Fails, BirdRoles, MonkeyRoles
<1>33. CASE Process
  BY <1>33, ControlTypes DEF Process, Fails, BirdRoles, MonkeyRoles
<1>34. CASE CopyCapture
  BY <1>34, ControlTypes DEF CopyCapture, Fails, BirdRoles, MonkeyRoles
<1>35. CASE RemoveCapture
  BY <1>35, ControlTypes DEF RemoveCapture, Fails, BirdRoles, MonkeyRoles
<1>36. CASE CopyMkv
  BY <1>36, ControlTypes DEF CopyMkv, Fails, BirdRoles, MonkeyRoles
<1>37. CASE RemoveMkv
  BY <1>37, ControlTypes DEF RemoveMkv, Fails, BirdRoles, MonkeyRoles
<1>38. CASE Except
  BY <1>38, <1>0
     DEF Except, TypeControl, Underway, Pcs, outer, birds
<1>39. CASE FinallyCheck
  BY <1>39, ControlTypes DEF FinallyCheck, Fails, BirdRoles, MonkeyRoles
<1>40. CASE FinallyStop
  BY <1>40, ControlTypes DEF FinallyStop, Fails, BirdRoles, MonkeyRoles
<1>41. CASE Interrupt
  BY <1>41, <1>0, ControlTypes DEF Interrupt, TypeControl, Underway, Pcs, outer, birds
<1>42. CASE Environment \/ UNCHANGED vars
  <2>1. UNCHANGED control
    BY <1>42 DEF Environment, ScriptEnds, ClientEnds, Crash, SignalledExit, Answer, CallEnds, vars
  <2> QED
    BY <1>0, <2>1 DEF TypeControl, Underway, control, outer, birds
<1> QED
  BY <1>1, <1>2, <1>3, <1>4, <1>5, <1>6, <1>7, <1>8, <1>9, <1>10, <1>11, <1>12, <1>13, <1>14, <1>15, <1>16, <1>17, <1>18, <1>19, <1>20, <1>21, <1>22, <1>23, <1>24, <1>25, <1>26, <1>27, <1>28, <1>29, <1>30, <1>31, <1>32, <1>33, <1>34, <1>35, <1>36, <1>37, <1>38, <1>39, <1>40, <1>41, <1>42
     DEF Next, Orchestrator, Loop, Calling, Setup, Payload, Saving, Handling, Terminated

\* Every step keeps the types of everything else.
LEMMA WorldStep ==
  ASSUME TypeInv, [Next]_vars
  PROVE  (ProcsType /\ TypePhones /\ TypeFiles)'
<1> USE DEF RunPcs, TryPcs, CallPcs, RetryPcs, SetupPcs, StepPcs, SavePcs
<1>0. ProcsType /\ TypePhones /\ TypeFiles
  BY DEF TypeInv, TypeOK, TypePhones, TypeFiles
<1>1. CASE UNCHANGED world
  BY <1>0, <1>1 DEF world, procs, phones, files, ProcsType, TypePhones, TypeFiles
<1>2. CASE \/ MetadataFails \/ ExitLoop \/ Escape \/ BirdsWait \/ BirdsAssert \/ CheckFlow
              \/ RetrySleep \/ EnoughMem \/ SetLatency \/ SetRate \/ Make \/ EndCall \/ Wait
              \/ Profile \/ SetupTcp \/ TcpSleep \/ KillTcp \/ AssertClient \/ AssertServer
              \/ ClientGraceful \/ Process \/ Except \/ FinallyCheck \/ Interrupt
              \/ UNCHANGED vars
  BY <1>1, <1>2 DEF MetadataFails, ExitLoop, Escape, BirdsWait, BirdsAssert, EnoughMem, CheckFlow, RetrySleep, SetLatency, SetRate, Make, EndCall, Wait, Profile, SetupTcp, TcpSleep, KillTcp, AssertClient, AssertServer, ClientGraceful, Process, Except, FinallyCheck, Interrupt, AssertRuns, vars
<1>3. CASE NextRun
  BY <1>0, <1>3, RunsAssumption DEF NextRun, MoreRuns, Kinds, Runs, phones, files, procs, ProcsType, TypePhones, TypeFiles, TypeInv, TypeOK
<1>4. CASE KillAll
  BY <1>0, <1>4 DEF KillAll, CleanupStep, CleanupWorks, StopMessengers, Pkill, phones, files, procs, ProcsType, TypePhones, TypeFiles
<1>5. CASE Retry
  BY <1>0, <1>5 DEF Retry, CleanupStep, CleanupWorks, StopMessengers, Pkill, phones, files, procs, ProcsType, TypePhones, TypeFiles
<1>6. CASE BirdsStart
  BY <1>0, <1>6, Mine, ProcTypes DEF BirdsStart, BirdRoles, Roles, Accepts, WithoutMessenger, phones, files, procs, ProcsType, TypePhones, TypeFiles
<1>7. CASE BirdsAvdb
  BY <1>0, <1>7, Mine, ProcTypes DEF BirdsAvdb, Accepts, WithoutMessenger, phones, files, procs, ProcsType, TypePhones, TypeFiles
<1>8. CASE QmonStart
  BY <1>0, <1>8, Mine, ProcTypes DEF QmonStart, Roles, phones, files, procs, ProcsType, TypePhones, TypeFiles
<1>9. CASE MakeScreencapture
  BY <1>0, <1>9, Mine, ProcTypes DEF MakeScreencapture, Doing, phones, files, procs, ProcsType, TypePhones, TypeFiles
<1>10. CASE TcpServer
  BY <1>0, <1>10, Mine, ProcTypes DEF TcpServer, StartGen, Roles, phones, files, procs, ProcsType, TypePhones, TypeFiles
<1>11. CASE TcpClient
  BY <1>0, <1>11, Mine, ProcTypes DEF TcpClient, StartGen, Roles, phones, files, procs, ProcsType, TypePhones, TypeFiles
<1>12. CASE StopServer
  BY <1>0, <1>12, Mine, ProcTypes DEF StopServer, Roles, phones, files, procs, ProcsType, TypePhones, TypeFiles
<1>13. CASE StopClient
  BY <1>0, <1>13, Mine, ProcTypes DEF StopClient, Roles, phones, files, procs, ProcsType, TypePhones, TypeFiles
<1>14. CASE QmonStop
  BY <1>0, <1>14, Mine, ProcTypes DEF QmonStop, Roles, phones, files, procs, ProcsType, TypePhones, TypeFiles
<1>15. CASE CopyCapture
  BY <1>0, <1>15, Mine, ProcTypes DEF CopyCapture, Kinds, phones, files, procs, ProcsType, TypePhones, TypeFiles
<1>16. CASE RemoveCapture
  BY <1>0, <1>16 DEF RemoveCapture, phones, files, procs, ProcsType, TypePhones, TypeFiles
<1>17. CASE CopyMkv
  BY <1>0, <1>17, Mine, ProcTypes DEF CopyMkv, Kinds, phones, files, procs, ProcsType, TypePhones, TypeFiles
<1>18. CASE RemoveMkv
  BY <1>0, <1>18 DEF RemoveMkv, phones, files, procs, ProcsType, TypePhones, TypeFiles
<1>19. CASE FinallyStop
  BY <1>0, <1>19, Mine, ProcTypes DEF FinallyStop, Roles, phones, files, procs, ProcsType, TypePhones, TypeFiles
<1>20. CASE Environment
  BY <1>0, <1>20 DEF Environment, ScriptEnds, ClientEnds, Crash, SignalledExit, Answer, CallEnds,
     Exit, Vanish, Procs, phones, files, procs, ProcsType, TypePhones, TypeFiles
<1> QED
  BY <1>1, <1>2, <1>3, <1>4, <1>5, <1>6, <1>7, <1>8, <1>9, <1>10, <1>11, <1>12, <1>13, <1>14, <1>15, <1>16, <1>17, <1>18, <1>19, <1>20
     DEF Next, Orchestrator, Loop, Calling, Setup, Payload, Saving, Handling, Terminated

LEMMA TypeStep ==
  ASSUME TypeInv, [Next]_vars
  PROVE  TypeInv'
BY ControlStep, WorldStep DEF TypeInv, TypeOK, TypeControl, TypePhones, TypeFiles

LEMMA InitType ==
  ASSUME Init
  PROVE  TypeInv
<1>1. config \in Configs
  BY ConfigsAssumption DEF Init
<1> QED
  BY <1>1, RunsAssumption DEF Init, TypeInv, TypeOK, Underway, ProcsInit, ProcsType, Pcs, RunPcs, TryPcs, CallPcs, RetryPcs, SetupPcs, StepPcs, SavePcs

\* Every variable keeps its type.
THEOREM TypeCorrect == Spec => []TypeOK
<1>1. TypeInv => TypeOK
  BY DEF TypeInv
<1> QED
  BY InitType, TypeStep, <1>1, PTL DEF Spec

-----------------------------------------------------------------------------
(* A capture is stored only if its monitor ran to the end of the payload.    *)

Monitor(r) == <<"monitor", r>>

\* Nothing is left for the monitor of a run to do.
Over(r) == r \notin lost /\ Monitor(r) \notin up \ dying

\* The monitor of a run has not been started.
Fresh(r) == r \notin lost /\ Monitor(r) \notin up /\ <<"capture", r>> \notin stored

\* The locations before qmon.start returns: its object is new there.
BeforeMonitor ==
  pc \in {"killall", "enoughMem", "qmonStart"} \/ (pc \in CallPcs /\ cmd = "ifconfig")

CaptureInv ==
  /\ \A r \in Runs : <<"capture", r>> \in stored => Over(r)
  /\ \A r \in lost : Monitor(r) \notin up
  /\ \A r \in Runs : r > run => Fresh(r)
  /\ BeforeMonitor => Fresh(run)
  /\ pc \in SavePcs \ {"qmonStop"} => Over(run)

\* A process ends, is told to end or is started, and is no monitor that starts:
\* what CaptureInv says of the monitors stays as it is.
LEMMA MonitorsOnlyEnd ==
  ASSUME TypeInv, UNCHANGED lost,
         \/ UNCHANGED procs
         \/ \E p \in Procs : p[1] # "monitor" /\ (Launch(p) \/ LaunchFails(p))
         \/ \E p \in Procs : Kill(p) \/ KillFails(p) \/ Exit(p)
         \/ \E p \in Procs : p[1] # "monitor" /\ Vanish(p)
         \/ \E roles : Pkill(roles)
  PROVE  /\ \A r : Over(r) => Over(r)'
         /\ \A r : Monitor(r) \notin up => Monitor(r) \notin up'
         /\ lost' = lost
BY DEF Over, Monitor, procs, Launch, LaunchFails, Kill, KillFails, Exit, Vanish, Pkill,
   TypeInv, TypeOK, ProcsType

\* A step that starts no monitor, ends none of its own accord, saves no capture
\* and enters neither the part before qmon.start nor the one after qmon.stop.
Quiet ==
  /\ UNCHANGED run
  /\ \A r : <<"capture", r>> \in stored' => <<"capture", r>> \in stored
  /\ BeforeMonitor' => BeforeMonitor
  /\ pc' \in SavePcs \ {"qmonStop"} => pc \in SavePcs \ {"qmonStop"}

LEMMA QuietStep ==
  ASSUME TypeInv, CaptureInv, Quiet, UNCHANGED lost,
         \A r : Over(r) => Over(r)',
         \A r : Monitor(r) \notin up => Monitor(r) \notin up'
  PROVE  CaptureInv'
BY DEF CaptureInv, Quiet, Over, Fresh, Monitor, TypeInv, TypeOK

LEMMA CaptureStep ==
  ASSUME TypeInv, CaptureInv, [Next]_vars
  PROVE  CaptureInv'
<1> USE DEF RunPcs, TryPcs, CallPcs, RetryPcs, SetupPcs, StepPcs, SavePcs, BeforeMonitor
<1>1. CASE MetadataFails \/ ExitLoop \/ Escape
  <2>1. Quiet
    BY <1>1 DEF Quiet, MetadataFails, ExitLoop, Escape, Fails, At, Birds,
       StepDone, Raise, FirstAttempt, Leave, FinallyRaises, outer, birds,
       world, files
  <2>2. UNCHANGED <<lost, procs>>
    BY <1>1 DEF MetadataFails, ExitLoop, Escape, world
  <2> QED
    BY <2>1, <2>2, QuietStep, MonitorsOnlyEnd
<1>2. CASE BirdsAvdb \/ BirdsWait \/ BirdsAssert \/ CheckFlow \/ RetrySleep
  <2>1. Quiet
    BY <1>2 DEF Quiet, BirdsAvdb, BirdsWait, BirdsAssert, Accepts, CheckFlow,
       RetrySleep, Fails, At, Birds, StepDone, Raise, FirstAttempt, Leave,
       FinallyRaises, outer, birds, world, files
  <2>2. UNCHANGED <<lost, procs>>
    BY <1>2 DEF BirdsAvdb, BirdsWait, BirdsAssert, Accepts, CheckFlow,
       RetrySleep, world
  <2> QED
    BY <2>1, <2>2, QuietStep, MonitorsOnlyEnd
<1>3. CASE EnoughMem \/ SetLatency \/ SetRate
  <2>1. Quiet
    BY <1>3 DEF Quiet, EnoughMem, SetLatency, SetRate, Fails, At, Birds,
       StepDone, Raise, FirstAttempt, Leave, FinallyRaises, outer, birds,
       world, files
  <2>2. UNCHANGED <<lost, procs>>
    BY <1>3 DEF EnoughMem, SetLatency, SetRate, world
  <2> QED
    BY <2>1, <2>2, QuietStep, MonitorsOnlyEnd
<1>4. CASE Make \/ EndCall \/ Wait \/ Profile \/ MakeScreencapture \/ SetupTcp
             \/ TcpSleep \/ KillTcp \/ AssertClient \/ AssertServer
             \/ ClientGraceful
  <2>1. Quiet
    BY <1>4 DEF Quiet, Make, Doing, EndCall, Wait, Profile, MakeScreencapture,
       SetupTcp, TcpSleep, KillTcp, AssertClient, AssertRuns, AssertServer,
       ClientGraceful, Fails, At, Birds, StepDone, Raise, FirstAttempt, Leave,
       FinallyRaises, outer, birds, world, files
  <2>2. UNCHANGED <<lost, procs>>
    BY <1>4 DEF Make, Doing, EndCall, Wait, Profile, MakeScreencapture,
       SetupTcp, TcpSleep, KillTcp, AssertClient, AssertRuns, AssertServer,
       ClientGraceful, world
  <2> QED
    BY <2>1, <2>2, QuietStep, MonitorsOnlyEnd
<1>5. CASE Process \/ RemoveCapture \/ CopyMkv \/ RemoveMkv \/ Except
             \/ FinallyCheck \/ Interrupt
  <2>1. Quiet
    BY <1>5 DEF Quiet, Process, RemoveCapture, CopyMkv, RemoveMkv, Except,
       FinallyCheck, Interrupt, Fails, At, Birds, StepDone, Raise,
       FirstAttempt, Leave, FinallyRaises, outer, birds, world, files
  <2>2. UNCHANGED <<lost, procs>>
    BY <1>5 DEF Process, RemoveCapture, CopyMkv, RemoveMkv, Except,
       FinallyCheck, Interrupt, world
  <2> QED
    BY <2>1, <2>2, QuietStep, MonitorsOnlyEnd
<1>6. CASE BirdsStart \/ Retry \/ KillAll \/ TcpServer \/ TcpClient
             \/ StopServer \/ StopClient \/ FinallyStop
  <2>1. Quiet
    BY <1>6 DEF Quiet, BirdsStart, BirdRoles, MonkeyRoles, Retry, CleanupStep,
       CleanupWorks, KillAll, TcpServer, StartGen, TcpClient, StopServer,
       StopClient, FinallyStop, Fails, At, Birds, StepDone, Raise,
       FirstAttempt, Leave, FinallyRaises, outer, birds, files
  <2>2. /\ \A r : Over(r) => Over(r)'
        /\ \A r : Monitor(r) \notin up => Monitor(r) \notin up'
        /\ UNCHANGED lost
    <3>1. CASE BirdsStart
      BY <3>1, MonitorsOnlyEnd, Mine DEF BirdsStart, BirdRoles, MonkeyRoles, Me, Underway, TypeInv
    <3>2. CASE Retry
      BY <3>2, MonitorsOnlyEnd DEF Retry, CleanupStep, CleanupWorks, procs
    <3>3. CASE KillAll
      BY <3>3, MonitorsOnlyEnd DEF KillAll, CleanupStep, CleanupWorks, procs
    <3>4. CASE TcpServer
      BY <3>4, MonitorsOnlyEnd, Mine DEF TcpServer, StartGen, Roles, Me
    <3>5. CASE TcpClient
      BY <3>5, MonitorsOnlyEnd, Mine DEF TcpClient, StartGen, Roles, Me
    <3>6. CASE StopServer
      BY <3>6, MonitorsOnlyEnd, Mine DEF StopServer, Roles, Me
    <3>7. CASE StopClient
      BY <3>7, MonitorsOnlyEnd, Mine DEF StopClient, Roles, Me
    <3>8. CASE FinallyStop
      BY <3>8, MonitorsOnlyEnd, Mine DEF FinallyStop, Roles, Me
    <3> QED
      BY <1>6, <3>1, <3>2, <3>3, <3>4, <3>5, <3>6, <3>7, <3>8
  <2> QED
    BY <2>1, <2>2, QuietStep
<1>7. CASE NextRun
  BY <1>7, RunsAssumption
     DEF NextRun, MoreRuns, CaptureInv, Fresh, Over, Monitor, procs, Runs, TypeInv, TypeOK
<1>8. CASE QmonStart
  <2>1. Fresh(run) /\ UNCHANGED <<run, lost, stored, dying>>
        /\ up' \in {up, up \cup {Monitor(run)}}
    BY <1>8 DEF QmonStart, CaptureInv, Launch, LaunchFails, Me, Monitor, At, Raise, outer
  <2>2. pc' \in {"latency", "retry", "except"}
    BY <1>8 DEF QmonStart, At, Raise
  <2> QED
    BY <2>1, <2>2 DEF CaptureInv, Fresh, Over, Monitor, TypeInv, TypeOK, ProcsType
<1>9. CASE QmonStop
  <2>1. /\ \A r : Over(r) => Over(r)'
        /\ \A r : Monitor(r) \notin up => Monitor(r) \notin up'
        /\ UNCHANGED <<run, lost, stored>>
    BY <1>9, MonitorsOnlyEnd, Mine
       DEF QmonStop, Roles, At, Raise, outer, files
  <2>2. CASE Kill(Me("monitor")) /\ At("process")
    <3>1. Over(run)'
      BY <2>1, <2>2 DEF Kill, Me, Monitor, Over, CaptureInv
    <3> QED
      BY <2>1, <2>2, <3>1 DEF At, CaptureInv, Fresh, Over, Monitor, TypeInv, TypeOK
  <2>3. CASE Raise("error")
    BY <2>1, <2>3 DEF Raise, CaptureInv, Fresh, Over, Monitor, TypeInv, TypeOK
  <2> QED
    BY <1>9, <2>2, <2>3 DEF QmonStop
<1>10. CASE CopyCapture
  <2>1. /\ Over(run)
        /\ UNCHANGED <<run, lost, procs>>
        /\ \A r \in Runs : <<"capture", r>> \in stored' => r = run \/ <<"capture", r>> \in stored
        /\ pc' \in {"remove", "retry", "except"}
    BY <1>10 DEF CopyCapture, Fails, CaptureInv, At, Raise, outer
  <2> QED
    BY <2>1 DEF CaptureInv, Fresh, Over, Monitor, procs, TypeInv, TypeOK
<1>11. ASSUME NEW p \in Procs, Crash(p)
      PROVE  CaptureInv'
  <2>1. /\ p \in up \ dying /\ up' = up \ {p} /\ dying' = dying
        /\ lost' = IF p[1] = "monitor" THEN lost \cup {p[2]} ELSE lost
        /\ UNCHANGED <<control, files>>
    BY <1>11 DEF Crash, Vanish
  <2>2. p = <<p[1], p[2]>> /\ p[2] \in Runs
    BY DEF Procs
  <2>3. \A r : Over(r) => Over(r)'
    BY <2>1, <2>2 DEF Over, Monitor
  <2>4. \A r : Fresh(r) => Fresh(r)'
    BY <2>1, <2>2 DEF Fresh, Monitor, files
  <2>5. \A r \in lost' : Monitor(r) \notin up'
    BY <2>1, <2>2 DEF Monitor, CaptureInv
  <2> QED
    BY <2>1, <2>3, <2>4, <2>5 DEF CaptureInv, control, outer, birds, files
<1>12. CASE Environment /\ ~(\E p \in Procs : Crash(p))
  <2>1. Quiet
    BY <1>12 DEF Quiet, Environment, ScriptEnds, ClientEnds, SignalledExit, Answer, CallEnds,
       control, outer, birds, files
  <2>2. /\ \A r : Over(r) => Over(r)'
        /\ \A r : Monitor(r) \notin up => Monitor(r) \notin up'
        /\ UNCHANGED lost
    BY <1>12, MonitorsOnlyEnd
       DEF Environment, ScriptEnds, ClientEnds, SignalledExit, Answer, CallEnds, BirdRoles, MonkeyRoles
  <2> QED
    BY <2>1, <2>2, QuietStep
<1>13. CASE UNCHANGED vars
  BY <1>13 DEF vars, control, outer, birds, world, files, procs, CaptureInv, Fresh, Over, Monitor
<1> QED
  BY <1>1, <1>2, <1>3, <1>4, <1>5, <1>6, <1>7, <1>8, <1>9, <1>10, <1>11, <1>12, <1>13
     DEF Next, Orchestrator, Loop, Calling, Setup, Payload, Saving, Handling, Terminated

\* A monitor that ends before it is told to costs its run the capture, whenever
\* that happens: qmon.stop fails when there is nothing left to stop.
THEOREM CaptureIsCovered == Spec => []CaptureCoversPayload
<1>1. Init => TypeInv /\ CaptureInv
  <2>1. Init => TypeInv
    BY InitType
  <2>2. Init => CaptureInv
    BY DEF Init, ProcsInit, CaptureInv, Fresh, Over, BeforeMonitor, RunPcs, TryPcs, CallPcs, RetryPcs, SetupPcs, StepPcs, SavePcs
  <2> QED
    BY <2>1, <2>2
<1>2. TypeInv /\ CaptureInv /\ [Next]_vars => (TypeInv /\ CaptureInv)'
  BY TypeStep, CaptureStep
<1>3. TypeInv /\ CaptureInv => CaptureCoversPayload
  BY DEF TypeInv, TypeOK, CaptureInv, CaptureCoversPayload, Over
<1> QED
  BY <1>1, <1>2, <1>3, PTL DEF Spec

-----------------------------------------------------------------------------
(* The calls of a run are its own.                                           *)

\* The locations at which killall has stopped the messengers of both phones:
\* those after its seventh command.
Stopped == pc \in TryPcs /\ (pc = "killall" => i >= 7)

CallsInv == Stopped => \A c \in ringing \cup calls : c[2] = run

\* A step that brings no call but one of the current run.
LEMMA NoStrangeCall ==
  ASSUME CallsInv, UNCHANGED run, Stopped' => Stopped,
         \A c \in (ringing \cup calls)' : c \in ringing \cup calls \/ c[2] = run
  PROVE  CallsInv'
BY DEF CallsInv

LEMMA CallsStep ==
  ASSUME TypeInv, CallsInv, [Next]_vars
  PROVE  CallsInv'
<1> USE DEF RunPcs, TryPcs, CallPcs, RetryPcs, SetupPcs, StepPcs, SavePcs
<1>1. CASE NextRun \/ MetadataFails \/ ExitLoop \/ Escape
  BY <1>1 DEF NextRun, MetadataFails, ExitLoop, Escape, CallsInv, Stopped
<1>2. CASE BirdsAssert \/ BirdsWait \/ CheckFlow \/ RetrySleep
  <2>1. UNCHANGED <<run, phones>> /\ (Stopped' => Stopped)
    BY <1>2 DEF Stopped, BirdsAssert, Accepts, BirdsWait, CheckFlow,
       RetrySleep, Fails, At, Birds, StepDone, Raise, FirstAttempt, Leave,
       FinallyRaises, outer, birds, world
  <2> QED
    BY <2>1, NoStrangeCall DEF phones
<1>3. CASE EnoughMem \/ QmonStart \/ SetLatency \/ SetRate
  <2>1. UNCHANGED <<run, phones>> /\ (Stopped' => Stopped)
    BY <1>3 DEF Stopped, EnoughMem, QmonStart, SetLatency, SetRate, Fails, At,
       Birds, StepDone, Raise, FirstAttempt, Leave, FinallyRaises, outer,
       birds, world
  <2> QED
    BY <2>1, NoStrangeCall DEF phones
<1>4. CASE Make \/ EndCall \/ Wait \/ Profile \/ MakeScreencapture \/ SetupTcp
             \/ TcpServer \/ TcpClient \/ TcpSleep \/ KillTcp \/ AssertClient
             \/ AssertServer \/ StopServer \/ ClientGraceful \/ StopClient
  <2>1. UNCHANGED <<run, phones>> /\ (Stopped' => Stopped)
    BY <1>4 DEF Stopped, Make, Doing, EndCall, Wait, Profile,
       MakeScreencapture, SetupTcp, TcpServer, StartGen, TcpClient, TcpSleep,
       KillTcp, AssertClient, AssertRuns, AssertServer, StopServer,
       ClientGraceful, StopClient, Fails, At, Birds, StepDone, Raise,
       FirstAttempt, Leave, FinallyRaises, outer, birds, world
  <2> QED
    BY <2>1, NoStrangeCall DEF phones
<1>5. CASE QmonStop \/ Process \/ CopyCapture \/ RemoveCapture \/ CopyMkv
             \/ RemoveMkv \/ Except \/ FinallyCheck \/ FinallyStop
             \/ Interrupt
  <2>1. UNCHANGED <<run, phones>> /\ (Stopped' => Stopped)
    BY <1>5 DEF Stopped, QmonStop, Process, CopyCapture, RemoveCapture,
       CopyMkv, RemoveMkv, Except, FinallyCheck, FinallyStop, Interrupt, Fails,
       At, Birds, StepDone, Raise, FirstAttempt, Leave, FinallyRaises, outer,
       birds, world
  <2> QED
    BY <2>1, NoStrangeCall DEF phones
<1>6. CASE BirdsStart \/ BirdsAvdb
  <2>1. UNCHANGED run /\ (Stopped' => Stopped)
    BY <1>6 DEF Stopped, BirdsStart, BirdsAvdb, Fails, At, Raise, outer
  <2>2. \A c \in (ringing \cup calls)' : c \in ringing \cup calls \/ c[2] = run
    BY <1>6 DEF BirdsStart, BirdsAvdb, WithoutMessenger, MyCall, phones
  <2> QED
    BY <2>1, <2>2, NoStrangeCall
<1>7. CASE Retry
  <2>1. UNCHANGED run /\ (Stopped' => Stopped)
    BY <1>7 DEF Stopped, Retry, CleanupStep, Fails, Raise, FirstAttempt, outer
  <2>2. (ringing \cup calls)' \subseteq ringing \cup calls
    BY <1>7 DEF Retry, CleanupStep, CleanupWorks, StopMessengers, phones
  <2> QED
    BY <2>1, <2>2, NoStrangeCall
<1>8. CASE KillAll
  <2>1. i \in 0..11 /\ UNCHANGED run
    BY <1>8 DEF TypeInv, TypeOK, KillAll, CleanupStep, Fails, Raise, outer
  <2>2. CASE Stopped
    <3>1. (ringing \cup calls)' \subseteq ringing \cup calls
      BY <1>8 DEF KillAll, CleanupStep, CleanupWorks, StopMessengers, phones
    <3> QED
      BY <2>1, <2>2, <3>1, NoStrangeCall
  <2>3. CASE i = 6
    <3>1. KillallCmds[i + 1] = Cleanup({}, "avdb", FALSE, TRUE)
      BY <2>3 DEF KillallCmds
    <3>2. \/ CleanupWorks(KillallCmds[i + 1])
          \/ Raise("error")
      BY <1>8, <3>1 DEF KillAll, CleanupStep, Cleanup, Fails
    <3>3. CASE CleanupWorks(KillallCmds[i + 1])
      BY <3>1, <3>3 DEF CleanupWorks, StopMessengers, Cleanup, CallsInv
    <3>4. CASE Raise("error")
      BY <1>8, <3>4 DEF Raise, KillAll, FirstAttempt, CallsInv, Stopped
    <3> QED
      BY <3>2, <3>3, <3>4
  <2>4. CASE i < 6
    <3>1. ~Stopped'
      BY <1>8, <2>1, <2>4 DEF Stopped, KillAll, CleanupStep, KillallCmds, Fails, Raise, FirstAttempt
    <3> QED
      BY <3>1 DEF CallsInv
  <2> QED
    BY <1>8, <2>1, <2>2, <2>3, <2>4 DEF Stopped, KillAll
<1>9. CASE Environment \/ UNCHANGED vars
  <2>1. UNCHANGED <<run, pc, i>>
    BY <1>9 DEF Environment, ScriptEnds, ClientEnds, Crash, SignalledExit, Answer, CallEnds,
       vars, control, outer, birds
  <2>2. (ringing \cup calls)' \subseteq ringing \cup calls
    BY <1>9 DEF Environment, ScriptEnds, ClientEnds, Crash, SignalledExit, Answer, CallEnds,
       vars, world, phones
  <2> QED
    BY <2>1, <2>2, NoStrangeCall DEF Stopped
<1> QED
  BY <1>1, <1>2, <1>3, <1>4, <1>5, <1>6, <1>7, <1>8, <1>9
     DEF Next, Orchestrator, Loop, Calling, Setup, Payload, Saving, Handling, Terminated

\* Once killall is through, no call of an earlier run rings or goes on, however
\* the runs before have ended.
THEOREM CallsAreOurs == Spec => []CallIsOurs
<1>1. Init => CallsInv
  BY DEF Init, CallsInv, Stopped, RunPcs, TryPcs, CallPcs, RetryPcs, SetupPcs, StepPcs, SavePcs
<1>2. TypeInv /\ CallsInv /\ [Next]_vars => (TypeInv /\ CallsInv)'
  BY TypeStep, CallsStep
<1>3. CallsInv => CallIsOurs
  BY DEF CallsInv, Stopped, CallIsOurs, Working, RunPcs, TryPcs, CallPcs, RetryPcs, SetupPcs, StepPcs, SavePcs
<1> QED
  BY InitType, <1>1, <1>2, <1>3, PTL DEF Spec

-----------------------------------------------------------------------------
(* ExperimentRun implements Study.                                           *)

\* The locations at which the capture of the run has been copied.
Copied == {"remove", "copyMkv", "removeMkv"}

\* The exceptions in flight, by location: none in the try block, one in the
\* except clause, and none or an interrupt after it.
ExcInv ==
  /\ pc # "done" => study = "running"
  /\ pc \in TryPcs \cup {"loop"} => exc = "none"
  /\ pc = "except" => exc \in {"error", "interrupt"}
  /\ pc \in {"finally", "finallyStop"} => exc \in {"none", "interrupt"}

\* What the run has saved, by location.
SavedInv ==
  /\ pc \in RunPcs => <<"metadata", run>> \in stored
  /\ pc \in Copied => <<"capture", run>> \in stored
  /\ pc \in {"copyMkv", "removeMkv"} => SavesMkv
  /\ pc = "removeMkv" => <<"mkv", run>> \in stored

StudyInv == ExcInv /\ SavedInv

\* A step from one location of the try block to another, or to the except
\* clause, that saves nothing.
WithinTry ==
  /\ pc \in TryPcs
  /\ UNCHANGED <<outer, errors, stored>>
  /\ \/ pc' \in (TryPcs \ Copied) \cup {pc} /\ exc' = exc
     \/ pc' = "except" /\ exc' = "error"

\* Such a step is none of the study.
LEMMA WithinTryStutters ==
  ASSUME TypeInv, StudyInv, WithinTry
  PROVE  StudyInv' /\ UNCHANGED Abstract!vars
<1> USE DEF WithinTry, StudyInv, ExcInv, SavedInv, outer, Copied, RunPcs, TryPcs,
            CallPcs, RetryPcs, SetupPcs, StepPcs, SavePcs, SavesMkv
<1>1. ExcInv'
  OBVIOUS
<1>2. SavedInv'
  OBVIOUS
<1>3. UNCHANGED Abstract!vars
  BY DEF Abstract!vars
<1> QED
  BY <1>1, <1>2, <1>3

\* The ways in which the actions of the try block go on.
LEMMA GoOn ==
  ASSUME TypeInv, StudyInv, pc \in TryPcs, UNCHANGED stored,
         \/ \E l \in TryPcs \ Copied : At(l)
         \/ \E c \in BirdRoles : Birds(c)
         \/ StepDone
         \/ Raise("error")
         \/ Fails
  PROVE  WithinTry
<1> USE DEF WithinTry, StudyInv, ExcInv, outer, Copied, TryPcs, CallPcs, RetryPcs,
            SetupPcs, StepPcs, SavePcs
<1>1. ASSUME NEW l \in TryPcs \ Copied, At(l)
      PROVE  WithinTry
  BY <1>1 DEF At
<1>2. ASSUME NEW c \in BirdRoles, Birds(c)
      PROVE  WithinTry
  BY <1>2 DEF Birds
<1>3. CASE StepDone
  BY <1>3 DEF StepDone
<1>4. CASE Raise("error")
  BY <1>4 DEF Raise
<1> QED
  BY <1>1, <1>2, <1>3, <1>4 DEF Fails

\* The actions of the try block that save nothing and do not leave it.
LEMMA TryStep ==
  ASSUME TypeInv, StudyInv,
         \/ Calling \/ Setup \/ Payload
         \/ QmonStop \/ Process
  PROVE  WithinTry
<1> USE DEF files, world, Copied, TryPcs, CallPcs, RetryPcs, SetupPcs, StepPcs, SavePcs
<1>1. CASE Calling
  <2>1. CASE BirdsStart
    BY <2>1, GoOn DEF BirdsStart
  <2>2. CASE BirdsAvdb
    BY <2>2, GoOn DEF BirdsAvdb
  <2>3. CASE BirdsWait
    BY <2>3 DEF BirdsWait, WithinTry
  <2>4. CASE BirdsAssert
    BY <2>4, GoOn DEF BirdsAssert
  <2>5. CASE CheckFlow
    BY <2>5, GoOn DEF CheckFlow
  <2>6. CASE Retry
    BY <2>6, GoOn DEF Retry, CleanupStep, WithinTry
  <2>7. CASE RetrySleep
    BY <2>7, GoOn DEF RetrySleep, BirdRoles, MonkeyRoles
  <2> QED
    BY <1>1, <2>1, <2>2, <2>3, <2>4, <2>5, <2>6, <2>7 DEF Calling
<1>2. CASE Setup
  <2>1. CASE KillAll
    BY <2>1, GoOn DEF KillAll, CleanupStep, WithinTry
  <2>2. CASE EnoughMem
    BY <2>2, GoOn DEF EnoughMem, BirdRoles
  <2>3. CASE QmonStart
    BY <2>3, GoOn DEF QmonStart, WithinTry
  <2>4. CASE SetLatency
    BY <2>4, GoOn DEF SetLatency
  <2>5. CASE SetRate
    BY <2>5, GoOn DEF SetRate
  <2> QED
    BY <1>2, <2>1, <2>2, <2>3, <2>4, <2>5 DEF Setup
<1>3. CASE Payload
  <2>1. CASE Make \/ EndCall \/ SetupTcp \/ KillTcp
    BY <2>1, GoOn DEF Make, EndCall, SetupTcp, KillTcp, Doing, BirdRoles, MonkeyRoles
  <2>2. CASE Wait \/ Profile \/ MakeScreencapture
    BY <2>2, GoOn DEF Wait, Profile, MakeScreencapture, Doing
  <2>3. CASE TcpServer
    BY <2>3, GoOn DEF TcpServer, StartGen
  <2>4. CASE TcpClient
    BY <2>4, GoOn DEF TcpClient, StartGen
  <2>5. CASE TcpSleep \/ ClientGraceful
    BY <2>5, GoOn DEF TcpSleep, ClientGraceful
  <2>6. CASE AssertClient
    BY <2>6, GoOn DEF AssertClient, AssertRuns
  <2>7. CASE AssertServer
    BY <2>7, GoOn DEF AssertServer, AssertRuns
  <2>8. CASE StopServer \/ StopClient
    BY <2>8, GoOn DEF StopServer, StopClient
  <2> QED
    BY <1>3, <2>1, <2>2, <2>3, <2>4, <2>5, <2>6, <2>7, <2>8 DEF Payload
<1>4. CASE QmonStop
  BY <1>4, GoOn DEF QmonStop
<1>5. CASE Process
  <2>1. CASE At("copy")
    BY <1>5, <2>1, GoOn DEF Process
  <2>2. CASE Fails
    BY <1>5, <2>2, GoOn DEF Process
  <2> QED
    BY <1>5, <2>1, <2>2 DEF Process
<1> QED
  BY <1>1, <1>2, <1>3, <1>4, <1>5

\* The abstract step that each other action is.
LEMMA NextRunBegins ==
  ASSUME TypeInv, StudyInv, NextRun
  PROVE  StudyInv' /\ Abstract!Begin
<1> USE DEF NextRun, StudyInv, ExcInv, SavedInv, Copied, RunPcs, TryPcs, CallPcs,
            RetryPcs, SetupPcs, StepPcs, SavePcs
<1>1. StudyInv'
  OBVIOUS
<1>2. Abstract!Begin
  BY DEF Abstract!Begin, Abstract!Wants, Kinds, MoreRuns
<1> QED
  BY <1>1, <1>2

LEMMA CopiesSave ==
  ASSUME TypeInv, StudyInv, CopyCapture \/ CopyMkv
  PROVE  StudyInv' /\ (Abstract!Save \/ UNCHANGED Abstract!vars)
<1> USE DEF Copied, TryPcs, CallPcs, RetryPcs, SetupPcs, StepPcs, SavePcs, files
<1>1. CASE UNCHANGED stored /\ (Raise("error") \/ Fails)
  <2>1. Raise("error") /\ pc \in TryPcs
    BY <1>1 DEF CopyCapture, CopyMkv, Fails
  <2> QED
    BY <1>1, <2>1, GoOn, WithinTryStutters
<1>2. CASE CopyCapture /\ At("remove") /\ stored' = stored \cup {<<"capture", run>>}
  <2> USE <1>2 DEF CopyCapture, At, StudyInv, ExcInv, SavedInv, RunPcs, outer
  <2>1. StudyInv'
    BY DEF SavesMkv
  <2>2. Abstract!Save
    BY DEF Abstract!Save, Kinds, SavesMkv
  <2> QED
    BY <2>1, <2>2
<1>3. CASE CopyMkv /\ At("removeMkv") /\ stored' = stored \cup {<<"mkv", run>>}
  <2> USE <1>3 DEF CopyMkv, At, StudyInv, ExcInv, SavedInv, RunPcs, outer
  <2>1. StudyInv'
    BY DEF SavesMkv
  <2>2. Abstract!Save
    BY DEF Abstract!Save, Kinds, SavesMkv
  <2> QED
    BY <2>1, <2>2
<1> QED
  BY <1>1, <1>2, <1>3 DEF CopyCapture, CopyMkv

LEMMA RemovesSucceed ==
  ASSUME TypeInv, StudyInv, RemoveCapture \/ RemoveMkv
  PROVE  StudyInv' /\ (Abstract!Succeed \/ UNCHANGED Abstract!vars)
<1> USE DEF Copied, TryPcs, CallPcs, RetryPcs, SetupPcs, StepPcs, SavePcs
<1>0. UNCHANGED stored
  BY DEF RemoveCapture, RemoveMkv
<1>1. CASE Fails
  <2>1. pc \in TryPcs
    BY DEF RemoveCapture, RemoveMkv
  <2> QED
    BY <1>0, <1>1, <2>1, GoOn, WithinTryStutters
<1>2. CASE RemoveCapture /\ SavesMkv /\ At("copyMkv")
  <2> USE <1>2 DEF RemoveCapture, At, StudyInv, ExcInv, SavedInv, RunPcs, outer
  <2>1. StudyInv'
    BY DEF SavesMkv
  <2>2. UNCHANGED Abstract!vars
    BY DEF Abstract!vars, SavesMkv
  <2> QED
    BY <2>1, <2>2
<1>3. CASE RemoveCapture /\ ~SavesMkv /\ At("finally")
  <2> USE <1>3 DEF RemoveCapture, At, StudyInv, ExcInv, SavedInv, RunPcs, outer
  <2>1. StudyInv'
    OBVIOUS
  <2>2. (Kinds \ {"mkv"}) \X {run} \subseteq stored
    BY DEF Kinds
  <2>3. Abstract!Succeed
    BY <2>2 DEF Abstract!Succeed, SavesMkv
  <2> QED
    BY <2>1, <2>3
<1>4. CASE RemoveMkv /\ At("finally")
  <2> USE <1>4 DEF RemoveMkv, At, StudyInv, ExcInv, SavedInv, RunPcs, outer
  <2>1. StudyInv'
    OBVIOUS
  <2>2. Kinds \X {run} \subseteq stored
    BY DEF Kinds
  <2>3. Abstract!Succeed
    BY <2>2 DEF Abstract!Succeed, SavesMkv
  <2> QED
    BY <2>1, <2>3
<1> QED
  BY <1>1, <1>2, <1>3, <1>4 DEF RemoveCapture, RemoveMkv

LEMMA HandlersFail ==
  ASSUME TypeInv, StudyInv, Except
  PROVE  StudyInv' /\ (Abstract!Fail \/ UNCHANGED Abstract!vars)
<1> USE DEF Except, StudyInv, ExcInv, SavedInv, Copied, RunPcs, TryPcs, CallPcs,
            RetryPcs, SetupPcs, StepPcs, SavePcs, outer, world, files
<1>1. StudyInv'
  OBVIOUS
<1>2. CASE exc = "error"
  BY <1>1, <1>2 DEF Abstract!Fail, SavesMkv
<1>3. CASE exc = "interrupt"
  BY <1>1, <1>3 DEF Abstract!vars, SavesMkv
<1> QED
  BY <1>2, <1>3

\* The ways out of the finally block.
LEMMA FinallyBreaks ==
  ASSUME TypeInv, StudyInv, FinallyCheck \/ FinallyStop
  PROVE  StudyInv' /\ (Abstract!Break \/ UNCHANGED Abstract!vars)
<1> USE DEF StudyInv, ExcInv, SavedInv, Copied, RunPcs, TryPcs, CallPcs,
            RetryPcs, SetupPcs, StepPcs, SavePcs, outer, files, world
<1>0. UNCHANGED stored /\ pc \in {"finally", "finallyStop"}
  BY DEF FinallyCheck, FinallyStop
<1>1. CASE FinallyRaises
  <2>1. StudyInv'
    BY <1>0, <1>1 DEF FinallyRaises
  <2>2. Abstract!Break \/ UNCHANGED Abstract!vars
    BY <1>0, <1>1 DEF FinallyRaises, Abstract!Break, Abstract!vars, SavesMkv
  <2> QED
    BY <2>1, <2>2
<1>2. CASE Leave
  <2>1. StudyInv'
    BY <1>0, <1>2 DEF Leave
  <2>2. UNCHANGED Abstract!vars
    BY <1>0, <1>2 DEF Leave, Abstract!vars, SavesMkv
  <2> QED
    BY <2>1, <2>2
<1>3. CASE At("finallyStop")
  <2>1. StudyInv'
    BY <1>0, <1>3 DEF At
  <2>2. UNCHANGED Abstract!vars
    BY <1>0, <1>3 DEF At, Abstract!vars, SavesMkv
  <2> QED
    BY <2>1, <2>2
<1> QED
  BY <1>1, <1>2, <1>3 DEF FinallyCheck, FinallyStop

LEMMA InterruptBreaks ==
  ASSUME TypeInv, StudyInv, Interrupt
  PROVE  StudyInv' /\ (Abstract!Break \/ UNCHANGED Abstract!vars)
<1> USE DEF StudyInv, ExcInv, SavedInv, Copied, RunPcs, TryPcs, CallPcs,
            RetryPcs, SetupPcs, StepPcs, SavePcs, outer, files, world
<1>0. UNCHANGED stored
  BY DEF Interrupt
<1>1. CASE pc \in TryPcs /\ Raise("interrupt")
  <2>1. StudyInv'
    BY <1>0, <1>1 DEF Raise, FirstAttempt
  <2>2. CASE FirstAttempt
    BY <1>0, <1>1, <2>1, <2>2 DEF Raise, Abstract!vars, SavesMkv
  <2>3. CASE ~FirstAttempt
    BY <1>0, <1>1, <2>1, <2>3 DEF Raise, Abstract!Break, SavesMkv
  <2> QED
    BY <2>2, <2>3
<1>2. CASE /\ pc \in {"except", "finally", "finallyStop", "loop"}
           /\ pc' = IF pc = "except" THEN "finally" ELSE "escape"
           /\ exc' = "interrupt"
           /\ UNCHANGED <<outer, step, birds, qmon, errors>>
  <2>1. StudyInv'
    BY <1>0, <1>2
  <2>2. Abstract!Break \/ UNCHANGED Abstract!vars
    BY <1>0, <1>2 DEF Abstract!Break, Abstract!vars, SavesMkv
  <2> QED
    BY <2>1, <2>2
<1> QED
  BY <1>1, <1>2 DEF Interrupt

LEMMA LoopEnds ==
  ASSUME TypeInv, StudyInv, MetadataFails \/ ExitLoop \/ Escape
  PROVE  StudyInv' /\ (Abstract!Break \/ Abstract!Finish \/ Abstract!Stop)
<1> USE DEF StudyInv, ExcInv, SavedInv, Copied, RunPcs, TryPcs, CallPcs,
            RetryPcs, SetupPcs, StepPcs, SavePcs, outer, files, world
<1>1. CASE MetadataFails
  BY <1>1 DEF MetadataFails, Abstract!Break, SavesMkv
<1>2. CASE ExitLoop
  <2>1. run = MaxRuns
    BY <1>2, RunsAssumption DEF ExitLoop, MoreRuns, TypeInv, TypeOK
  <2> QED
    BY <1>2, <2>1 DEF ExitLoop, Abstract!Finish, SavesMkv
<1>3. CASE Escape
  BY <1>3 DEF Escape, Abstract!Stop, SavesMkv
<1> QED
  BY <1>1, <1>2, <1>3

LEMMA OthersStutter ==
  ASSUME TypeInv, StudyInv, Environment \/ UNCHANGED vars
  PROVE  StudyInv' /\ UNCHANGED Abstract!vars
<1>1. UNCHANGED <<study, run, config, pc, exc, errors, stored>>
  BY DEF Environment, ScriptEnds, ClientEnds, Crash, SignalledExit, Answer, CallEnds,
     vars, control, outer, world, files
<1>2. StudyInv'
  BY <1>1 DEF StudyInv, ExcInv, SavedInv, SavesMkv
<1>3. UNCHANGED Abstract!vars
  BY <1>1 DEF Abstract!vars, SavesMkv
<1> QED
  BY <1>2, <1>3

LEMMA StudyStep ==
  ASSUME TypeInv, StudyInv, [Next]_vars
  PROVE  StudyInv' /\ [Abstract!Next]_(Abstract!vars)
<1>1. CASE Calling \/ Setup \/ Payload \/ QmonStop \/ Process
  BY <1>1, TryStep, WithinTryStutters
<1>2. CASE NextRun
  BY <1>2, NextRunBegins DEF Abstract!Next
<1>3. CASE MetadataFails \/ ExitLoop \/ Escape
  BY <1>3, LoopEnds DEF Abstract!Next
<1>4. CASE CopyCapture \/ CopyMkv
  BY <1>4, CopiesSave DEF Abstract!Next
<1>5. CASE RemoveCapture \/ RemoveMkv
  BY <1>5, RemovesSucceed DEF Abstract!Next
<1>6. CASE Except
  BY <1>6, HandlersFail DEF Abstract!Next
<1>7. CASE FinallyCheck \/ FinallyStop
  BY <1>7, FinallyBreaks DEF Abstract!Next
<1>8. CASE Interrupt
  BY <1>8, InterruptBreaks DEF Abstract!Next
<1>9. CASE Environment \/ UNCHANGED vars
  BY <1>9, OthersStutter
<1> QED
  BY <1>1, <1>2, <1>3, <1>4, <1>5, <1>6, <1>7, <1>8, <1>9
     DEF Next, Orchestrator, Loop, Saving, Handling, Terminated

LEMMA StudyInit ==
  ASSUME Init
  PROVE  StudyInv /\ Abstract!Init
BY DEF Init, StudyInv, ExcInv, SavedInv, Copied, RunPcs, TryPcs, CallPcs, RetryPcs,
   SetupPcs, StepPcs, SavePcs, Abstract!Init, Abstract!Wants, Kinds

\* Whatever fails in a run, in its handlers or in the network: a study keeps its
\* promise (module Study), that a run is over only when all it has to save is
\* saved or an exception was counted, and that none follows an interrupt.
THEOREM StudyImplemented == Spec => ImplementsStudy
<1>1. TypeInv /\ StudyInv /\ [Next]_vars
        => (TypeInv /\ StudyInv)' /\ [Abstract!Next]_(Abstract!vars)
  BY TypeStep, StudyStep
<1>2. Init => TypeInv /\ StudyInv /\ Abstract!Init
  BY InitType, StudyInit
<1> QED
  BY <1>1, <1>2, PTL DEF Spec, ImplementsStudy, Abstract!Spec

-----------------------------------------------------------------------------
(* The account of the past runs.                                             *)

\* The runs up to the n-th that have a capture among what is saved.
Captured(n, saved) == {r \in 1..n : <<"capture", r>> \in saved}

Covered(n, counted, saved) == n <= counted + Cardinality(Captured(n, saved))

\* What is accounted for, by location: the runs before the one that is under
\* way, and this one once the try block or its handler is through.
AccountInv ==
  /\ pc \in TryPcs \cup {"except"} => Covered(run - 1, errors, stored)
  /\ pc \in {"finally", "finallyStop"} /\ exc = "none" => Covered(run, errors, stored)
  /\ pc = "loop" => Covered(run, errors, stored)

LEMMA CapturedFinite ==
  ASSUME NEW n \in Int, NEW saved
  PROVE  IsFiniteSet(Captured(n, saved)) /\ Cardinality(Captured(n, saved)) \in Nat
<1>1. IsFiniteSet(1..n)
  BY FS_Interval
<1> QED
  BY <1>1, FS_Subset, FS_CardinalityType DEF Captured

\* An account stays true while more is saved and counted.
LEMMA AccountKept ==
  ASSUME NEW n \in Int, NEW counted \in Nat, NEW more \in Nat, counted <= more,
         NEW saved, NEW later, saved \subseteq later, Covered(n, counted, saved)
  PROVE  Covered(n, more, later)
<1>1. Captured(n, saved) \subseteq Captured(n, later)
  BY DEF Captured
<1>2. /\ Cardinality(Captured(n, saved)) \in Nat /\ Cardinality(Captured(n, later)) \in Nat
      /\ Cardinality(Captured(n, saved)) <= Cardinality(Captured(n, later))
  BY <1>1, FS_Subset, CapturedFinite
<1> QED
  BY <1>2 DEF Covered

\* A capture accounts for its run.
LEMMA CaptureCounts ==
  ASSUME NEW n \in Nat \ {0}, NEW counted \in Nat, NEW saved,
         Covered(n - 1, counted, saved), <<"capture", n>> \in saved
  PROVE  Covered(n, counted, saved)
<1>1. Captured(n, saved) = Captured(n - 1, saved) \cup {n} /\ n \notin Captured(n - 1, saved)
  BY DEF Captured
<1>2. IsFiniteSet(Captured(n - 1, saved)) /\ Cardinality(Captured(n - 1, saved)) \in Nat
  BY CapturedFinite
<1>3. Cardinality(Captured(n, saved)) = Cardinality(Captured(n - 1, saved)) + 1
  BY <1>1, <1>2, FS_AddElement
<1> QED
  BY <1>2, <1>3 DEF Covered

\* So does a counted exception.
LEMMA ErrorCounts ==
  ASSUME NEW n \in Nat \ {0}, NEW counted \in Nat, NEW saved, Covered(n - 1, counted, saved)
  PROVE  Covered(n, counted + 1, saved)
<1>1. Captured(n - 1, saved) \subseteq Captured(n, saved)
  BY DEF Captured
<1>2. /\ Cardinality(Captured(n - 1, saved)) \in Nat /\ Cardinality(Captured(n, saved)) \in Nat
      /\ Cardinality(Captured(n - 1, saved)) <= Cardinality(Captured(n, saved))
  BY <1>1, FS_Subset, CapturedFinite
<1> QED
  BY <1>2 DEF Covered

\* A step within a run that begins no other kind of location.
SameAccount ==
  /\ run' = run /\ errors' = errors /\ stored \subseteq stored'
  /\ pc' \in TryPcs \cup {"except"} => pc \in TryPcs \cup {"except"}
  /\ pc' \in {"finally", "finallyStop"} /\ exc' = "none"
       => pc \in {"finally", "finallyStop"} /\ exc = "none"
  /\ pc' = "loop" => pc = "loop" \/ (pc \in {"finally", "finallyStop"} /\ exc = "none")

LEMMA SameAccountStep ==
  ASSUME TypeInv, AccountInv, SameAccount
  PROVE  AccountInv'
<1>1. run \in Int /\ run - 1 \in Int /\ errors \in Nat
  BY RunsAssumption DEF TypeInv, TypeOK
<1>2. \A n \in {run - 1, run} :
        Covered(n, errors, stored) => Covered(n, errors, stored')
  BY <1>1, AccountKept DEF SameAccount
<1> QED
  BY <1>2 DEF AccountInv, SameAccount

LEMMA AccountStep ==
  ASSUME TypeInv, StudyInv, AccountInv, [Next]_vars
  PROVE  AccountInv'
<1> USE DEF TryPcs, CallPcs, RetryPcs, SetupPcs, StepPcs, SavePcs
<1>0. run \in Nat /\ errors \in Nat /\ (pc \in RunPcs => run \in Nat \ {0})
  BY RunsAssumption DEF TypeInv, TypeOK, Underway, Runs
<1>1. CASE Calling \/ Setup \/ Payload \/ QmonStop \/ Process
  <2>1. WithinTry
    BY <1>1, TryStep
  <2>2. SameAccount
    BY <2>1 DEF WithinTry, SameAccount, outer, Copied
  <2> QED
    BY <2>2, SameAccountStep
<1>2. CASE NextRun
  <2>1. Covered(run, errors, stored')
    BY <1>0, <1>2, AccountKept DEF NextRun, AccountInv
  <2>2. run' - 1 = run /\ errors' = errors /\ pc' = "killall"
    BY <1>0, <1>2 DEF NextRun
  <2> QED
    BY <2>1, <2>2 DEF AccountInv
<1>3. CASE MetadataFails \/ ExitLoop \/ Escape
  BY <1>3 DEF MetadataFails, ExitLoop, Escape, AccountInv
<1>4. CASE CopyCapture \/ CopyMkv
  <2>1. SameAccount
    BY <1>4 DEF CopyCapture, CopyMkv, At, Fails, Raise, outer, SameAccount
  <2> QED
    BY <2>1, SameAccountStep
<1>5. CASE RemoveCapture \/ RemoveMkv
  <2>1. CASE pc' = "finally"
    <3>1. Covered(run, errors, stored)
      BY <1>0, <1>5, CaptureCounts DEF RemoveCapture, RemoveMkv, AccountInv, StudyInv, SavedInv, Copied, RunPcs
    <3>2. UNCHANGED <<run, errors, stored>>
      BY <1>5 DEF RemoveCapture, RemoveMkv, At, Fails, Raise, outer
    <3> QED
      BY <2>1, <3>1, <3>2 DEF AccountInv
  <2>2. CASE pc' # "finally"
    <3>1. SameAccount
      BY <1>5, <2>2 DEF RemoveCapture, RemoveMkv, At, Fails, Raise, outer, SameAccount
    <3> QED
      BY <3>1, SameAccountStep
  <2> QED
    BY <2>1, <2>2
<1>6. CASE Except
  <2>1. pc = "except" /\ Covered(run - 1, errors, stored) /\ run \in Nat \ {0}
    BY <1>0, <1>6 DEF Except, AccountInv, RunPcs
  <2>2. pc' = "finally" /\ UNCHANGED <<run, stored>>
    BY <1>6 DEF Except, outer, world, files
  <2>3. CASE exc = "error"
    <3>1. Covered(run, errors + 1, stored)
      BY <1>0, <1>6, <2>1, <2>2, <2>3, ErrorCounts DEF Except
    <3> QED
      BY <1>6, <2>2, <2>3, <3>1 DEF Except, AccountInv
  <2>4. CASE exc = "interrupt"
    BY <1>6, <2>2, <2>4 DEF Except, AccountInv
  <2> QED
    BY <2>1, <2>3, <2>4 DEF StudyInv, ExcInv
<1>7. CASE FinallyCheck \/ FinallyStop
  <2>1. SameAccount
    BY <1>7 DEF FinallyCheck, FinallyStop, FinallyRaises, Leave, At, outer, world, files, SameAccount
  <2> QED
    BY <2>1, SameAccountStep
<1>8. CASE Interrupt
  <2>1. SameAccount
    BY <1>8 DEF Interrupt, Raise, outer, world, files, SameAccount
  <2> QED
    BY <2>1, SameAccountStep
<1>9. CASE Environment \/ UNCHANGED vars
  <2>1. UNCHANGED <<run, pc, exc, errors, stored>>
    BY <1>9 DEF Environment, ScriptEnds, ClientEnds, Crash, SignalledExit, Answer, CallEnds,
       vars, control, outer, world, files
  <2>2. SameAccount
    BY <2>1 DEF SameAccount
  <2> QED
    BY <2>2, SameAccountStep
<1> QED
  BY <1>1, <1>2, <1>3, <1>4, <1>5, <1>6, <1>7, <1>8, <1>9
     DEF Next, Orchestrator, Loop, Saving, Handling, Terminated

\* No run is lost silently: whenever the study goes on, each of its past runs
\* has its capture in dumpfolder or was counted by exceptionCounter
\* (scenarios.py:53-69).
THEOREM RunsAreAccounted == Spec => []Accounted
<1>1. Init => TypeInv /\ StudyInv /\ AccountInv
  <2>1. Init => AccountInv
    BY CapturedFinite DEF Init, AccountInv, Covered, TryPcs, CallPcs, RetryPcs,
       SetupPcs, StepPcs, SavePcs
  <2> QED
    BY <2>1, InitType, StudyInit
<1>2. TypeInv /\ StudyInv /\ AccountInv /\ [Next]_vars
        => (TypeInv /\ StudyInv /\ AccountInv)'
  BY TypeStep, StudyStep, AccountStep
<1>3. AccountInv => Accounted
  BY DEF AccountInv, Covered, Captured, Accounted
<1> QED
  BY <1>1, <1>2, <1>3, PTL DEF Spec

=============================================================================
