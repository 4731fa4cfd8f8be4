------------------------------ MODULE SpecFile ------------------------------
(***************************************************************************)
(* The experiment file of a run, <guid>.txt on the router.  monitor.sh     *)
(* writes its head as root, in the background; setlatency.sh and           *)
(* setbandwidth_innerqdisc.sh, which the orchestrator runs one after the   *)
(* other from the moment that monitor.sh was started, set up the ports of  *)
(* the router and append an event each, as an ordinary user.  When the run *)
(* has been saved, parse_specfile reads the file, and make_profile_csv     *)
(* finds the start of a bandwidth profile in its timeline.                 *)
(*                                                                         *)
(* A line is the sequence of its fields; a timestamp is the number of the  *)
(* setting it was written for.  A definition that is followed by the one   *)
(* the specification uses, and used by nothing, is the code with a         *)
(* plausible bug.                                                          *)
(***************************************************************************)
EXTENDS Naturals, Sequences

CONSTANTS
  Guid,       \* the GUID of the run
  Delay,      \* the delay the run asks for
  Rates,      \* the rates it asks for one after the other, as numbers
  TcMayFail   \* tc may refuse a setting

ASSUME RatesAssumption == Delay \in Nat /\ Rates \in Seq(Nat) /\ Rates # <<>>
ASSUME SwitchAssumption == TcMayFail \in BOOLEAN

Ports == 1..2

\* What the orchestrator sets, in this order: the delay, then the rates.
Settings ==
  <<[event |-> "delay_changed", value |-> Delay]>> \o
  [k \in 1..Len(Rates) |-> [event |-> "bandwidth_changed", value |-> Rates[k]]]

HeadLines == << <<Guid>>, <<>>, <<"bpfcapture", Guid>>, <<>> >>
Event(k) == <<k, Settings[k].event, Settings[k].value>>

VARIABLES
  file,     \* the lines of the file
  access,   \* who may append to it: "root", or "all" if a user made it or
            \* after chmod; "absent" while there is no file
  monitor,  \* the next line of monitor.sh, or how the monitor stands
  run,      \* the orchestrator: at its "settings", "saved" or "failed"
  setting,  \* the setting it is at
  port,     \* the port the script for this setting is at, in the order of its loop
  prompt,   \* whether monitor.sh is quick enough for the next SSH command
  ports     \* what each port is set to, by the event that reports it

vars == <<file, access, monitor, prompt, run, setting, port, ports>>

MonitorPcs ==
  {"touch", "guid", "empty1", "capture", "empty2", "chmod", "monitoring", "gone"}

Init ==
  /\ file = <<>> /\ access = "absent"
  /\ monitor = "touch" /\ prompt \in BOOLEAN
  /\ run = "settings" /\ setting = 1 /\ port = 1
  /\ ports = [p \in Ports |-> [delay_changed |-> 0, bandwidth_changed |-> 0]]

-----------------------------------------------------------------------------
(* monitor.sh, as root.                                                    *)

Touch ==
  /\ monitor = "touch" /\ monitor' = "guid"
  /\ access' = IF access = "absent" THEN "root" ELSE access
  /\ UNCHANGED <<prompt, file, run, setting, port, ports>>

Write(here, line, next) ==
  /\ monitor = here /\ monitor' = next
  /\ file' = Append(file, line)
  /\ UNCHANGED <<prompt, access, run, setting, port, ports>>

EchoOneEmptyLine ==
  \/ Write("guid", HeadLines[1], "capture")
  \/ Write("capture", HeadLines[3], "empty2")
  \/ Write("empty2", HeadLines[4], "chmod")
Echo ==
  \/ Write("guid", HeadLines[1], "empty1")
  \/ Write("empty1", HeadLines[2], "capture")
  \/ Write("capture", HeadLines[3], "empty2")
  \/ Write("empty2", HeadLines[4], "chmod")

Chmod ==
  /\ monitor = "chmod" /\ monitor' = "monitoring"
  /\ access' = "all"
  /\ UNCHANGED <<prompt, file, run, setting, port, ports>>

\* The script or the program it turns into ends early.
MonitorEnds ==
  /\ monitor # "gone" /\ monitor' = "gone"
  /\ UNCHANGED <<prompt, file, access, run, setting, port, ports>>

-----------------------------------------------------------------------------
(* setlatency.sh and setbandwidth_innerqdisc.sh, for one setting each.     *)

AtWork ==
  /\ run = "settings" /\ setting <= Len(Settings)
  /\ prompt => monitor \in {"monitoring", "gone"}

OnePortTooMany ==
  /\ AtWork /\ port \in 1..3
  /\ ports' = [ports EXCEPT ![port][Settings[setting].event] = Settings[setting].value]
  /\ port' = port + 1
  /\ UNCHANGED <<prompt, file, access, monitor, run, setting>>

\* One turn of the loop over the ports: two tc commands, of which both must work
\* for the port to have the setting.  The script does not look at whether they did.
SetPort ==
  /\ AtWork /\ port \in Ports
  /\ \/ ports' = [ports EXCEPT ![port][Settings[setting].event] = Settings[setting].value]
     \/ TcMayFail /\ UNCHANGED ports
  /\ port' = port + 1
  /\ UNCHANGED <<prompt, file, access, monitor, run, setting>>

\* The last line of the script, whose status is the status of the script: the
\* shell makes the file or appends to it, or may not open it.
LogFirst ==
  /\ AtWork /\ port = 1
  /\ access # "root"
  /\ file' = Append(file, Event(setting))
  /\ setting' = setting + 1
  /\ access' = "all"
  /\ UNCHANGED <<prompt, monitor, run, port, ports>>
DelayUnlogged ==
  /\ AtWork /\ port \notin Ports /\ access # "root"
  /\ file' = IF setting = 1 THEN file ELSE Append(file, Event(setting))
  /\ setting' = setting + 1 /\ port' = 1 /\ access' = "all"
  /\ UNCHANGED <<prompt, monitor, run, ports>>
LogEvent ==
  /\ AtWork /\ port \notin Ports
  /\ access # "root"
  /\ file' = Append(file, Event(setting))
  /\ access' = "all"
  /\ setting' = setting + 1 /\ port' = 1
  /\ UNCHANGED <<prompt, monitor, run, ports>>

DeniedUnseen ==
  /\ AtWork /\ port \notin Ports /\ access = "root"
  /\ setting' = setting + 1 /\ port' = 1
  /\ UNCHANGED <<prompt, file, access, monitor, run, ports>>
LogDenied ==
  /\ AtWork /\ port \notin Ports
  /\ access = "root"
  /\ run' = "failed"
  /\ UNCHANGED <<prompt, file, access, monitor, setting, port, ports>>

\* An SSH command of the run fails, and the run with it.
RunFails ==
  /\ run = "settings"
  /\ run' = "failed"
  /\ UNCHANGED <<prompt, file, access, monitor, setting, port, ports>>

\* The settings are made: qmon.stop, which needs a monitor to stop, and the
\* copy of the file.
Save ==
  /\ run = "settings" /\ setting > Len(Settings)
  /\ monitor # "gone" /\ monitor' = "gone"
  /\ run' = "saved"
  /\ UNCHANGED <<prompt, file, access, setting, port, ports>>

Next ==
  \/ Touch \/ Echo \/ Chmod \/ MonitorEnds
  \/ SetPort \/ LogEvent \/ LogDenied \/ RunFails \/ Save

Spec == Init /\ [][Next]_vars

-----------------------------------------------------------------------------
(* parse_specfile, and what make_profile_csv takes from it.                *)

\* The lines of the front matter and, after the first empty line, the timeline.
IsFront(f, k) == k > 2 /\ \A j \in 3..k : f[j] # <<>>
Front(f) == {f[k] : k \in {j \in 1..Len(f) : IsFront(f, j)}}
FrontLength(f) == CHOOSE n \in 2..Len(f) :
  /\ n = 2 \/ IsFront(f, n)
  /\ n = Len(f) \/ ~IsFront(f, n + 1)
Timeline(f) == SubSeq(f, FrontLength(f) + 2, Len(f))

\* None of the assertions of parse_specfile fails.
WellFormed(f) ==
  /\ Len(f) >= 2 /\ f[2] = <<>>
  /\ \A line \in Front(f) : Len(line) = 2
  /\ \A k \in DOMAIN Timeline(f) : Len(Timeline(f)[k]) = 3

\* The line the profile starts from: specfile.timeline[4].
ProfileStart(f) == Timeline(f)[4 + 1]

-----------------------------------------------------------------------------
(* Properties.                                                             *)

TypeOK ==
  /\ \A k \in DOMAIN file : file[k] \in {HeadLines[j] : j \in DOMAIN HeadLines}
                                   \cup {Event(j) : j \in DOMAIN Settings}
  /\ access \in {"absent", "root", "all"}
  /\ monitor \in MonitorPcs
  /\ run \in {"settings", "saved", "failed"}
  /\ setting \in 1..Len(Settings) + 1
  /\ port \in 1..3
  /\ prompt \in BOOLEAN
  /\ ports \in [Ports -> [{"delay_changed", "bandwidth_changed"} -> Nat]]

\* Whatever order the scripts wrote in: a file that is saved and that
\* parse_specfile accepts says of the run exactly what was asked for, in order.
ParsedIsRecorded ==
  run = "saved" /\ WellFormed(file) =>
    /\ file[1] = <<Guid>>
    /\ Front(file) = {<<"bpfcapture", Guid>>}
    /\ Timeline(file) = [k \in DOMAIN Settings |-> Event(k)]

\* If monitor.sh is through in time, every file that is saved can be parsed.
SavedIsWellFormed == run = "saved" /\ prompt => WellFormed(file)

\* What setbandwidth_innerqdisc.sh:3 says: the script sets the speed for both
\* ports, and an event says so.  When the script for a setting ends, and the
\* event is in the file, both ports have it.
EventTellsSetting ==
  [][ setting' # setting =>
        \A p \in Ports : ports[p][Settings[setting].event] = Settings[setting].value ]_vars

\* The profile starts where the ramp-up ends: at the last of the equal rates
\* that a bandwidth profile begins with, after the rate of the run itself.
RampUpEnd == CHOOSE k \in 2..Len(Rates) - 1 :
  Rates[k] # Rates[k + 1] /\ \A j \in 2..k : Rates[j] = Rates[k]
ProfileStartsAfterRampUp ==
  run = "saved" /\ WellFormed(file) => ProfileStart(file) = Event(RampUpEnd + 1)

=============================================================================
