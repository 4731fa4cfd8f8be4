------------------------------ MODULE Runners ------------------------------
(***************************************************************************)
(* The background processes of the testbed and the way the orchestrator    *)
(* controls them over SSH (controlscripts/orchestration/runner_utils.py).  *)
(*                                                                         *)
(* A BGProc is started with "nohup ... & echo $!" on a machine, asked      *)
(* whether it runs with "ps -p", and stopped with "kill".  Its remote      *)
(* process lives on when the BGProc object or the SSH session is gone.  A  *)
(* process is named by what it does (its role) and by the run that started *)
(* it; no run starts two processes of one role.                            *)
(***************************************************************************)
EXTENDS Naturals

CONSTANTS
  MaxRuns,  \* the number of runs of a study (the loops of eval*.py), a bound
  Faults    \* the faults the environment may produce

FaultKinds ==
  { "command",    \* an SSH command fails where its status is checked
    "drop",       \* an SSH session is lost where the code ignores its status
    "interrupt",  \* a SyncProc returns 130, which the code turns into ^C
    "crash" }     \* a monitor or generator ends without having been told to

ASSUME RunsAssumption == MaxRuns \in Nat \ {0}
ASSUME FaultsAssumption == Faults \subseteq FaultKinds

Runs == 1..MaxRuns

\* The monkeyrunner scripts a BGProc runs on avda: the two attempts to accept
\* a call, and the end of the call.
MonkeyRoles == {"accept1", "accept2", "endcall"}

\* Everything a BGProc runs on avda: these scripts and ifconfigavd.sh.
BirdRoles == MonkeyRoles \cup {"ifconfig"}

Roles == {"monitor", "server", "client"} \cup BirdRoles

Procs == Roles \X Runs

VARIABLES
  up,      \* the processes that exist on the machines of the testbed
  dying    \* those among them that have been sent SIGTERM

procs == <<up, dying>>

ProcsType ==
  /\ up \subseteq Procs
  /\ dying \subseteq up

ProcsInit ==
  /\ up = {}
  /\ dying = {}

-----------------------------------------------------------------------------
\* BGProc.start returned: the process exists and its pid is known.
Launch(p) ==
  /\ up' = up \cup {p}
  /\ UNCHANGED dying

\* BGProc.start raised ChildProcessError: pid stays None, whether or not the
\* process was started before the session broke.
LaunchFails(p) ==
  /\ "command" \in Faults
  /\ up' \in {up, up \cup {p}}
  /\ UNCHANGED dying

\* What is_running may return: "ps -p" decides, and a lost session counts as
\* "not running" because only the return code 0 means TRUE.
IsRunning(p) == {p \in up} \cup {b \in {FALSE} : "drop" \in Faults}

\* BGProc.stop delivered its signal.
Kill(p) ==
  /\ p \in up
  /\ dying' = dying \cup {p}
  /\ UNCHANGED up

\* BGProc.stop raised ChildProcessError: the process was gone, or the command
\* failed before or after the signal.
KillFails(p) ==
  /\ \/ /\ p \notin up
        /\ UNCHANGED dying
     \/ /\ "command" \in Faults
        /\ dying' \in {dying, dying \cup ({p} \cap up)}
  /\ UNCHANGED up

\* "pkill -f" of the processes of some roles on their machine.
Pkill(roles) ==
  /\ dying' = dying \cup {p \in up : p[1] \in roles}
  /\ UNCHANGED up

\* The processes of some roles that nobody has told to end.
Alive(roles) == {p \in up \ dying : p[1] \in roles}

\* A time.sleep of the orchestrator (2 seconds at least) is long enough for a
\* process that was sent SIGTERM to end: the timing assumption of this model.
Settled == dying = {}

-----------------------------------------------------------------------------
\* A process that was sent SIGTERM ends.
Exit(p) ==
  /\ p \in dying
  /\ up' = up \ {p}
  /\ dying' = dying \ {p}

\* A process ends of its own accord.
Vanish(p) ==
  /\ p \in up \ dying
  /\ up' = up \ {p}
  /\ UNCHANGED dying

=============================================================================
