-------------------------- MODULE SpecFile_proofs --------------------------
(* Theorems about SpecFile, for every run: whatever its GUID, its delay and  *)
(* the rates it asks for.                                                    *)
EXTENDS SpecFile, SequenceTheorems, TLAPS

-----------------------------------------------------------------------------
(* The settings and the lines.                                               *)

LEMMA PrependProperties ==
  ASSUME NEW T, NEW d \in T, NEW s \in Seq(T)
  PROVE  /\ <<d>> \o s \in Seq(T)
         /\ Len(<<d>> \o s) = Len(s) + 1
         /\ \A k \in 1..Len(s) : (<<d>> \o s)[k + 1] = s[k]
OBVIOUS

\* There are two settings at least, and the rates follow the delay.
LEMMA SettingsType ==
  /\ Len(Settings) \in Nat /\ Len(Settings) = Len(Rates) + 1 /\ Len(Settings) >= 2
  /\ DOMAIN Settings = 1..Len(Settings)
  /\ \A k \in 1..Len(Settings) :
       /\ Settings[k].event \in {"delay_changed", "bandwidth_changed"}
       /\ Settings[k].value \in Nat
  /\ \A k \in 1..Len(Rates) : Settings[k + 1].value = Rates[k]
<1> DEFINE E == [event : {"delay_changed", "bandwidth_changed"}, value : Nat]
           d == [event |-> "delay_changed", value |-> Delay]
           s == [k \in 1..Len(Rates) |-> [event |-> "bandwidth_changed", value |-> Rates[k]]]
<1>1. Len(Rates) \in Nat /\ Len(Rates) >= 1 /\ \A k \in 1..Len(Rates) : Rates[k] \in Nat
  BY RatesAssumption
<1>2. s \in Seq(E) /\ Len(s) = Len(Rates) /\ \A k \in 1..Len(Rates) : s[k].value = Rates[k]
  <2>1. s \in [1..Len(Rates) -> E]
    BY <1>1
  <2>2. s \in Seq(E)
    BY <1>1, <2>1, SeqDef
  <2>3. Len(s) = Len(Rates)
    BY <1>1, <2>1, <2>2, LenProperties
  <2> QED
    BY <2>2, <2>3
<1>3. d \in E
  BY RatesAssumption
<1>4. Settings = <<d>> \o s
  BY DEF Settings
<1> HIDE DEF d, s, E
<1>5. /\ Settings \in Seq(E)
      /\ Len(Settings) = Len(s) + 1
      /\ \A k \in 1..Len(s) : Settings[k + 1] = s[k]
  BY <1>2, <1>3, <1>4, PrependProperties
<1>6. \A k \in 1..Len(Settings) : Settings[k] \in E
  BY <1>5, ElementOfSeq
<1>7. Len(Settings) \in Nat /\ DOMAIN Settings = 1..Len(Settings)
  BY <1>5, LenProperties
<1>8. \A k \in 1..Len(Rates) : Settings[k + 1].value = Rates[k]
  BY <1>2, <1>5
<1>9. \A k \in 1..Len(Settings) :
        /\ Settings[k].event \in {"delay_changed", "bandwidth_changed"}
        /\ Settings[k].value \in Nat
  BY <1>6 DEF E
<1> QED
  BY <1>1, <1>2, <1>5, <1>7, <1>8, <1>9

\* Of the head, two lines are empty; no event looks like a line of the head.
LEMMA Lines ==
  /\ DOMAIN HeadLines = 1..4
  /\ HeadLines[1] = <<Guid>> /\ HeadLines[2] = <<>>
  /\ HeadLines[3] = <<"bpfcapture", Guid>> /\ HeadLines[4] = <<>>
  /\ HeadLines[1] # <<>> /\ HeadLines[3] # <<>> /\ Len(HeadLines[3]) = 2
BY DEF HeadLines

LEMMA EventLines ==
  ASSUME NEW k
  PROVE  Len(Event(k)) = 3 /\ Event(k) # <<>>
BY DEF Event

-----------------------------------------------------------------------------
(* Type correctness.                                                         *)

\* Whoever writes to the file appends a line of the head or the next event.
KnownLines == {HeadLines[j] : j \in 1..4} \cup {Event(j) : j \in 1..Len(Settings)}
FileSeq == file \in Seq(KnownLines)

TypeInv == TypeOK /\ FileSeq

LEMMA FileStep ==
  ASSUME TypeInv, [Next]_vars
  PROVE  \/ UNCHANGED file
         \/ \E line \in KnownLines : file' = Append(file, line)
<1>1. CASE Echo
  <2>1. \A j \in 1..4 : HeadLines[j] \in KnownLines
    BY DEF KnownLines
  <2> QED
    BY <1>1, <2>1 DEF Echo, Write
<1>2. CASE LogEvent
  <2>1. setting \in 1..Len(Settings)
    BY <1>2, SettingsType DEF LogEvent, AtWork, TypeInv, TypeOK
  <2> QED
    BY <1>2, <2>1 DEF LogEvent, KnownLines
<1>3. CASE ~Echo /\ ~LogEvent
  BY <1>3 DEF Next, Touch, Chmod, MonitorEnds, SetPort, LogDenied, RunFails, Save, vars
<1> QED
  BY <1>1, <1>2, <1>3

LEMMA TypeStep ==
  ASSUME TypeInv, [Next]_vars
  PROVE  TypeInv'
<1> USE SettingsType
<1>1. FileSeq'
  <2>1. CASE UNCHANGED file
    BY <2>1 DEF TypeInv, FileSeq
  <2>2. ASSUME NEW line \in KnownLines, file' = Append(file, line)
        PROVE  FileSeq'
    BY <2>2, AppendProperties DEF TypeInv, FileSeq
  <2> QED
    BY <2>1, <2>2, FileStep
<1>2. (\A k \in DOMAIN file : file[k] \in {HeadLines[j] : j \in DOMAIN HeadLines}
                                   \cup {Event(j) : j \in DOMAIN Settings})'
  <2>1. DOMAIN file' = 1..Len(file') /\ \A k \in 1..Len(file') : file'[k] \in KnownLines
    BY <1>1, ElementOfSeq, LenProperties DEF FileSeq
  <2> QED
    BY <2>1, Lines DEF KnownLines
<1>3. (access \in {"absent", "root", "all"} /\ monitor \in MonitorPcs
         /\ run \in {"settings", "saved", "failed"} /\ prompt \in BOOLEAN)'
  BY DEF TypeInv, TypeOK, MonitorPcs, Next, Touch, Echo, Write, Chmod, MonitorEnds, SetPort, LogEvent,
     LogDenied, RunFails, Save, vars
<1>4. (setting \in 1..Len(Settings) + 1 /\ port \in 1..3)'
  BY SMTT(30)
     DEF TypeInv, TypeOK, Next, Touch, Echo, Write, Chmod, MonitorEnds, AtWork, SetPort, LogEvent,
         LogDenied, RunFails, Save, vars, Ports
<1>5. (ports \in [Ports -> [{"delay_changed", "bandwidth_changed"} -> Nat]])'
  <2>1. CASE SetPort
    <3> DEFINE e == Settings[setting].event
               v == Settings[setting].value
    <3>1. e \in {"delay_changed", "bandwidth_changed"} /\ v \in Nat
      BY <2>1 DEF SetPort, AtWork, TypeInv, TypeOK
    <3>2. port \in Ports /\ (ports' = [ports EXCEPT ![port][e] = v] \/ ports' = ports)
      BY <2>1 DEF SetPort
    <3>3. ports \in [Ports -> [{"delay_changed", "bandwidth_changed"} -> Nat]]
      BY DEF TypeInv, TypeOK
    <3>4. [ports[port] EXCEPT ![e] = v] \in [{"delay_changed", "bandwidth_changed"} -> Nat]
      <4>1. ports[port] \in [{"delay_changed", "bandwidth_changed"} -> Nat]
        BY ONLY <3>2, <3>3
      <4> HIDE DEF e, v
      <4> QED
        BY ONLY <3>1, <4>1
    <3>5. ports' = [ports EXCEPT ![port] = [ports[port] EXCEPT ![e] = v]] \/ ports' = ports
      BY <3>2
    <3> HIDE DEF e, v
    <3> QED
      BY ONLY <3>2, <3>3, <3>4, <3>5
  <2>2. CASE ~SetPort
    BY <2>2 DEF TypeInv, TypeOK, Next, Touch, Echo, Write, Chmod, MonitorEnds, LogEvent, LogDenied,
       RunFails, Save, vars
  <2> QED
    BY <2>1, <2>2
<1> QED
  BY <1>1, <1>2, <1>3, <1>4, <1>5 DEF TypeInv, TypeOK

LEMMA InitType == Init => TypeInv
BY SettingsType, EmptySeq DEF Init, TypeInv, TypeOK, FileSeq, MonitorPcs, Ports

\* Every line of the file is one of the head or the event of a setting, and
\* the scripts stay within the ports and the settings there are.
THEOREM FileTypeCorrect == Spec => []TypeOK
<1>1. TypeInv /\ [Next]_vars => TypeInv'
  BY TypeStep
<1>2. TypeInv => TypeOK
  BY DEF TypeInv
<1> QED
  BY InitType, <1>1, <1>2, PTL DEF Spec

-----------------------------------------------------------------------------
(* What an event says.                                                       *)

\* The ports that the script for a setting has been at are set.
PortInv ==
  setting <= Len(Settings) =>
    \A p \in Ports : p < port => ports[p][Settings[setting].event] = Settings[setting].value

LEMMA PortStep ==
  ASSUME TypeInv, PortInv, [Next]_vars, ~TcMayFail
  PROVE  PortInv'
<1>1. CASE SetPort
  <2>1. setting \in 1..Len(Settings) /\ port \in 1..2
    BY <1>1, SettingsType DEF SetPort, AtWork, TypeInv, TypeOK, Ports
  <2>2. /\ UNCHANGED setting /\ port' = port + 1
        /\ ports' = [ports EXCEPT ![port][Settings[setting].event] = Settings[setting].value]
    BY <1>1 DEF SetPort
  <2>3. \A p \in Ports : p < port + 1 =>
          ports'[p][Settings[setting].event] = Settings[setting].value
    <3> TAKE p \in Ports
    <3>1. CASE p = port
      BY <2>1, <2>2, <3>1, SettingsType DEF TypeInv, TypeOK, Ports
    <3>2. CASE p < port
      BY <2>1, <2>2, <3>2, SettingsType DEF TypeInv, TypeOK, Ports, PortInv
    <3> QED
      BY <2>1, <3>1, <3>2 DEF Ports
  <2> QED
    BY <2>2, <2>3 DEF PortInv
<1>2. CASE LogEvent
  <2>1. port' = 1
    BY <1>2 DEF LogEvent
  <2> QED
    BY <2>1 DEF PortInv, Ports
<1>3. CASE ~SetPort /\ ~LogEvent
  BY <1>3 DEF PortInv, Next, Touch, Echo, Write, Chmod, MonitorEnds, LogDenied, RunFails, Save, vars
<1> QED
  BY <1>1, <1>2, <1>3

\* As long as tc accepts what it is told: when an event gets into the file,
\* both ports of the router have the setting that it reports
\* (setlatency.sh, setbandwidth_innerqdisc.sh:3).
THEOREM EventsTellTheTruth ==
  ASSUME ~TcMayFail
  PROVE  Spec => EventTellsSetting
<1>1. Init => TypeInv /\ PortInv
  BY InitType DEF Init, PortInv, Ports
<1>2. TypeInv /\ PortInv /\ [Next]_vars => (TypeInv /\ PortInv)'
  BY TypeStep, PortStep
<1>3. TypeInv /\ PortInv /\ [Next]_vars =>
        [setting' # setting =>
           \A p \in Ports : ports[p][Settings[setting].event] = Settings[setting].value]_vars
  <2> SUFFICES ASSUME TypeInv, PortInv, Next, setting' # setting
               PROVE  \A p \in Ports : ports[p][Settings[setting].event] = Settings[setting].value
    BY DEF vars
  <2>1. LogEvent
    BY DEF Next, Touch, Echo, Write, Chmod, MonitorEnds, SetPort, LogDenied, RunFails, Save
  <2>2. setting <= Len(Settings) /\ port = 3
    BY <2>1 DEF LogEvent, AtWork, TypeInv, TypeOK, Ports
  <2> QED
    BY <2>2 DEF PortInv, Ports
<1> QED
  BY <1>1, <1>2, <1>3, PTL DEF Spec, EventTellsSetting

-----------------------------------------------------------------------------
(* The order of the lines.                                                   *)

\* The lines of the head that monitor.sh has written.
Written ==
  [ touch |-> 0, guid |-> 0, empty1 |-> 1, capture |-> 2, empty2 |-> 3, chmod |-> 4,
    monitoring |-> 4 ]

\* The file is the first h lines of the head and, once that is complete, the
\* events of the settings made so far.
Intact(h) ==
  /\ Len(file) = h + (setting - 1)
  /\ \A j \in 1..h : file[j] = HeadLines[j]
  /\ \A j \in 1..(setting - 1) : file[h + j] = Event(j)
  /\ setting > 1 => h = 4

\* An event stands before a line of the head, in a place where parse_specfile
\* does not accept it, whatever follows.
Spoilt ==
  \/ Len(file) = 1 /\ monitor \in {"touch", "guid", "gone"}
  \/ Len(file) >= 2 /\ file[2] # <<>>
  \/ Len(file) >= 3 /\ Len(file[3]) = 3
  \/ Len(file) >= 4 /\ file[3] # <<>> /\ Len(file[4]) = 3

OrderInv ==
  /\ Spoilt \/ \E h \in 0..4 : Intact(h) /\ (monitor # "gone" => h = Written[monitor])
  /\ run = "saved" => monitor = "gone" /\ setting = Len(Settings) + 1

\* If monitor.sh is through in time, nothing spoils the file but its own end,
\* with which the run is not saved.
PromptInv ==
  prompt =>
    /\ monitor # "gone" => Intact(Written[monitor])
    /\ run = "saved" => Intact(4)

LEMMA FileType ==
  ASSUME TypeInv
  PROVE  Len(file) \in Nat /\ setting \in Nat /\ setting >= 1
BY SettingsType, LenProperties DEF TypeInv, FileSeq, TypeOK

\* What is in the file stays, and a line is added at its end.
LEMMA Appended ==
  ASSUME TypeInv, NEW line \in KnownLines, file' = Append(file, line)
  PROVE  /\ Len(file') = Len(file) + 1
         /\ \A j \in 1..Len(file) : file'[j] = file[j]
         /\ file'[Len(file) + 1] = line
BY AppendProperties DEF TypeInv, FileSeq

\* What is spoilt stays so.
LEMMA SpoiltStays ==
  ASSUME TypeInv, Spoilt, NEW line \in KnownLines, file' = Append(file, line),
         Len(file) = 1 => line # <<>>
  PROVE  Spoilt'
<1>1. Len(file) \in Nat
  BY FileType
<1>2. /\ Len(file') = Len(file) + 1
      /\ \A j \in 1..Len(file) : file'[j] = file[j]
      /\ file'[Len(file) + 1] = line
  BY Appended
<1>3. CASE Len(file) = 1
  <2>1. Len(file') = 2 /\ file'[2] # <<>>
    BY <1>2, <1>3
  <2> QED
    BY <2>1 DEF Spoilt
<1>4. CASE Len(file) >= 2 /\ file[2] # <<>>
  <2>1. Len(file') >= 2 /\ file'[2] = file[2]
    BY <1>1, <1>2, <1>4
  <2> QED
    BY <1>4, <2>1 DEF Spoilt
<1>5. CASE Len(file) >= 3 /\ Len(file[3]) = 3
  <2>1. Len(file') >= 3 /\ file'[3] = file[3]
    BY <1>1, <1>2, <1>5
  <2> QED
    BY <1>5, <2>1 DEF Spoilt
<1>6. CASE Len(file) >= 4 /\ file[3] # <<>> /\ Len(file[4]) = 3
  <2>1. Len(file') >= 4 /\ file'[3] = file[3] /\ file'[4] = file[4]
    BY <1>1, <1>2, <1>6
  <2> QED
    BY <1>6, <2>1 DEF Spoilt
<1> QED
  BY <1>3, <1>4, <1>5, <1>6 DEF Spoilt

\* The next line of the head, where it belongs.
LEMMA EchoStep ==
  ASSUME TypeInv, Echo
  PROVE  \E j \in 0..3 :
           /\ Written[monitor] = j /\ Written[monitor'] = j + 1
           /\ monitor # "gone" /\ monitor' # "gone"
           /\ monitor \in {"touch", "guid"} => j = 0
           /\ HeadLines[j + 1] \in KnownLines
           /\ file' = Append(file, HeadLines[j + 1])
           /\ UNCHANGED <<setting, run, prompt>>
<1>1. \A j \in 0..3 : HeadLines[j + 1] \in KnownLines
  BY DEF KnownLines
<1>2. CASE Write("guid", HeadLines[1], "empty1")
  BY <1>1, <1>2 DEF Write, Written
<1>3. CASE Write("empty1", HeadLines[2], "capture")
  BY <1>1, <1>3 DEF Write, Written
<1>4. CASE Write("capture", HeadLines[3], "empty2")
  BY <1>1, <1>4 DEF Write, Written
<1>5. CASE Write("empty2", HeadLines[4], "chmod")
  BY <1>1, <1>5 DEF Write, Written
<1> QED
  BY <1>2, <1>3, <1>4, <1>5 DEF Echo

LEMMA LogStep ==
  ASSUME TypeInv, LogEvent
  PROVE  /\ Event(setting) \in KnownLines
         /\ file' = Append(file, Event(setting))
         /\ setting' = setting + 1 /\ run = "settings"
         /\ UNCHANGED <<monitor, run, prompt>>
         /\ prompt => monitor \in {"monitoring", "gone"}
BY SettingsType DEF LogEvent, AtWork, TypeInv, TypeOK, KnownLines

LEMMA HeadGoesOn ==
  ASSUME TypeInv, NEW j \in 0..3, Intact(j), HeadLines[j + 1] \in KnownLines,
         file' = Append(file, HeadLines[j + 1]), UNCHANGED setting
  PROVE  Intact(j + 1)'
<1>1. setting = 1 /\ Len(file) = j
  BY FileType DEF Intact
<1>2. /\ Len(file') = j + 1 /\ file'[j + 1] = HeadLines[j + 1]
      /\ \A l \in 1..j : file'[l] = HeadLines[l]
  BY <1>1, Appended DEF Intact
<1> QED
  BY <1>1, <1>2 DEF Intact

LEMMA EventGoesOn ==
  ASSUME TypeInv, Intact(4), LogEvent
  PROVE  Intact(4)'
<1>1. Len(file) = 4 + (setting - 1) /\ setting \in Nat /\ setting >= 1 /\ setting' = setting + 1
  BY FileType, LogStep DEF Intact
<1>2. /\ Len(file') = Len(file) + 1
      /\ \A j \in 1..Len(file) : file'[j] = file[j]
      /\ file'[Len(file) + 1] = Event(setting)
  BY Appended, LogStep
<1>3. \A j \in 1..4 : file'[j] = HeadLines[j]
  BY <1>1, <1>2 DEF Intact
<1>4. \A j \in 1..setting : file'[4 + j] = Event(j)
  <2> TAKE j \in 1..setting
  <2>1. CASE j = setting
    BY <1>1, <1>2, <2>1
  <2>2. CASE j < setting
    <3>1. j \in 1..(setting - 1) /\ 4 + j \in 1..Len(file)
      BY <1>1, <2>2
    <3> QED
      BY <1>2, <3>1 DEF Intact
  <2> QED
    BY <1>1, <2>1, <2>2
<1> QED
  BY <1>1, <1>2, <1>3, <1>4 DEF Intact

LEMMA OrderStep ==
  ASSUME TypeInv, OrderInv, PromptInv, [Next]_vars
  PROVE  OrderInv' /\ PromptInv'
<1>0. Len(file) \in Nat /\ setting \in Nat /\ setting >= 1
  BY FileType
<1>1. CASE Echo
  <2>1. PICK j \in 0..3 :
           /\ Written[monitor] = j /\ Written[monitor'] = j + 1
           /\ monitor # "gone" /\ monitor' # "gone"
           /\ monitor \in {"touch", "guid"} => j = 0
           /\ HeadLines[j + 1] \in KnownLines
           /\ file' = Append(file, HeadLines[j + 1])
           /\ UNCHANGED <<setting, run, prompt>>
    BY <1>1, EchoStep
  <2>2. /\ Len(file') = Len(file) + 1
        /\ \A l \in 1..Len(file) : file'[l] = file[l]
        /\ file'[Len(file) + 1] = HeadLines[j + 1]
    BY <2>1, Appended
  <2>3. ASSUME Spoilt PROVE Spoilt'
    <3>0. Len(file) = 1 => monitor \in {"touch", "guid", "gone"}
      BY <2>3 DEF Spoilt
    <3>1. Len(file) = 1 => j = 0
      BY <2>1, <3>0
    <3>2. Len(file) = 1 => HeadLines[j + 1] # <<>>
      BY <3>1, Lines
    <3> QED
      BY <2>1, <2>3, <3>2, SpoiltStays
  <2>4. Intact(j) => Intact(j + 1)'
    BY <2>1, HeadGoesOn
  <2>5. Intact(j + 1)' => Intact(Written[monitor])'
    BY <2>1
  <2> QED
    BY <2>1, <2>3, <2>4, <2>5 DEF OrderInv, PromptInv
<1>2. CASE LogEvent
  <2>1. /\ Event(setting) \in KnownLines
        /\ file' = Append(file, Event(setting))
        /\ setting' = setting + 1 /\ run = "settings"
        /\ UNCHANGED <<monitor, run, prompt>>
        /\ prompt => monitor \in {"monitoring", "gone"}
    BY <1>2, LogStep
  <2>2. /\ Len(file') = Len(file) + 1
        /\ \A l \in 1..Len(file) : file'[l] = file[l]
        /\ file'[Len(file) + 1] = Event(setting)
    BY <2>1, Appended
  <2>3. Len(Event(setting)) = 3 /\ Event(setting) # <<>>
    BY EventLines
  <2>4. Intact(4) => Intact(4)'
    BY <1>2, EventGoesOn
  <2>5. Spoilt => Spoilt'
    BY <2>1, <2>3, SpoiltStays
  <2>6. ASSUME NEW h \in 0..3, Intact(h), monitor # "gone" => h = Written[monitor]
        PROVE  Spoilt'
    <3>1. Len(file) = h
      BY <1>0, <2>6 DEF Intact
    <3>2. CASE h = 0
      <4>1. monitor \in {"touch", "guid", "gone"}
        BY <2>6, <3>2 DEF Written, TypeInv, TypeOK, MonitorPcs
      <4> QED
        BY <2>1, <2>2, <3>1, <3>2, <4>1 DEF Spoilt
    <3>3. CASE h = 1
      BY <2>2, <2>3, <3>1, <3>3 DEF Spoilt
    <3>4. CASE h = 2
      BY <2>2, <2>3, <3>1, <3>4 DEF Spoilt
    <3>5. CASE h = 3
      <4>1. file[3] = HeadLines[3] /\ file'[3] = file[3]
        BY <2>2, <2>6, <3>1, <3>5 DEF Intact
      <4>2. file'[3] # <<>>
        BY <4>1, Lines
      <4> QED
        BY <2>2, <2>3, <3>1, <3>5, <4>2 DEF Spoilt
    <3> QED
      BY <3>2, <3>3, <3>4, <3>5
  <2>7. PromptInv'
    <3>1. prompt /\ monitor # "gone" => Intact(4) /\ Written[monitor] = 4
      BY <2>1 DEF PromptInv, Written
    <3>2. prompt' /\ monitor' # "gone" => Intact(4)' /\ Written[monitor'] = 4
      BY <2>1, <2>4, <3>1
    <3>3. run' # "saved"
      BY <2>1
    <3> QED
      BY <3>2, <3>3 DEF PromptInv
  <2>8. OrderInv'
    BY <2>1, <2>4, <2>5, <2>6 DEF OrderInv
  <2> QED
    BY <2>7, <2>8
<1>3. CASE Touch \/ Chmod \/ MonitorEnds \/ Save
  <2>1. UNCHANGED <<file, setting, prompt>>
    BY <1>3 DEF Touch, Chmod, MonitorEnds, Save
  <2>2. Spoilt => Spoilt'
    BY <1>3, <2>1 DEF Spoilt, Touch, Chmod, MonitorEnds, Save
  <2>3. \A h : Intact(h) => Intact(h)'
    BY <2>1 DEF Intact
  <2>4. \/ monitor' = "gone"
        \/ Written[monitor'] = Written[monitor] /\ monitor # "gone" /\ UNCHANGED run
    <3>1. CASE Touch
      BY <3>1 DEF Touch, Written
    <3>2. CASE Chmod
      BY <3>2 DEF Chmod, Written
    <3> QED
      BY <1>3, <3>1, <3>2 DEF MonitorEnds, Save
  <2>5. run' = "saved" => monitor' = "gone" /\ setting' = Len(Settings) + 1
    BY <1>0, <1>3, <2>1, SettingsType DEF Touch, Chmod, MonitorEnds, Save, OrderInv, TypeInv, TypeOK
  <2>6. prompt /\ run' = "saved" => Intact(4)
    <3>1. CASE Save
      <4>1. setting > 1 /\ monitor # "gone"
        BY <1>0, <3>1, SettingsType DEF Save
      <4> QED
        BY <4>1 DEF PromptInv, Intact
    <3>2. CASE ~Save
      BY <1>3, <3>2 DEF Touch, Chmod, MonitorEnds, PromptInv
    <3> QED
      BY <3>1, <3>2
  <2>7. (Spoilt \/ \E h \in 0..4 : Intact(h) /\ (monitor # "gone" => h = Written[monitor]))'
    <3>1. CASE Spoilt
      BY <2>2, <3>1
    <3>2. ASSUME NEW h \in 0..4, Intact(h), monitor # "gone" => h = Written[monitor]
          PROVE  Intact(h)' /\ (monitor' # "gone" => h = Written[monitor'])
      BY <2>3, <2>4, <3>2
    <3> QED
      BY <3>1, <3>2 DEF OrderInv
  <2>8. PromptInv'
    <3>1. prompt /\ monitor' # "gone" => Intact(Written[monitor']) /\ Intact(Written[monitor])
      BY <2>4 DEF PromptInv
    <3>2. prompt /\ monitor' # "gone" => Intact(Written[monitor])'
      BY <2>1, <2>4, <3>1 DEF Intact
    <3>3. prompt /\ run' = "saved" => Intact(4)'
      BY <2>3, <2>6
    <3> QED
      BY <2>1, <3>2, <3>3 DEF PromptInv
  <2> QED
    BY <2>5, <2>7, <2>8 DEF OrderInv
<1>4. CASE SetPort \/ LogDenied \/ RunFails \/ UNCHANGED vars
  <2>1. UNCHANGED <<file, setting, monitor, prompt>> /\ (run' = run \/ run' = "failed")
    BY <1>4 DEF SetPort, LogDenied, RunFails, vars
  <2> QED
    BY <2>1 DEF OrderInv, PromptInv, Spoilt, Intact
<1> QED
  BY <1>1, <1>2, <1>3, <1>4 DEF Next

LEMMA InitOrder == Init => OrderInv /\ PromptInv
<1>1. Init => setting = 1 /\ Len(file) = 0 /\ monitor = "touch" /\ run = "settings"
  BY DEF Init
<1>2. Init => Intact(0) /\ Written["touch"] = 0
  BY <1>1 DEF Intact, Written
<1> QED
  BY <1>1, <1>2 DEF OrderInv, PromptInv

-----------------------------------------------------------------------------
(* The file as it is parsed.                                                 *)

LEMMA SpoiltIsRefused == Spoilt => ~WellFormed(file)
<1> SUFFICES ASSUME Spoilt, WellFormed(file) PROVE FALSE
  OBVIOUS
<1>1. Len(file) >= 2 /\ file[2] = <<>>
  BY DEF WellFormed
<1>2. \A k \in 1..Len(file) : IsFront(file, k) => Len(file[k]) = 2
  BY DEF WellFormed, Front
<1>3. CASE Len(file) >= 3 /\ Len(file[3]) = 3
  <2>1. IsFront(file, 3) /\ 3 \in 1..Len(file)
    <3>1. Len(file) \in Nat /\ file[3] # <<>> /\ \A j \in 3..3 : j = 3
      BY <1>3
    <3> QED
      BY ONLY <1>3, <3>1 DEF IsFront
  <2>2. Len(file[3]) = 2
    BY ONLY <1>2, <2>1
  <2> QED
    BY <1>3, <2>1, <2>2
<1>4. CASE Len(file) >= 4 /\ file[3] # <<>> /\ Len(file[4]) = 3
  <2>1. IsFront(file, 4) /\ 4 \in 1..Len(file)
    <3>1. file[3] # <<>> /\ file[4] # <<>> /\ \A j \in 3..4 : j = 3 \/ j = 4
      BY <1>4
    <3>2. Len(file) \in Nat
      BY <1>4
    <3> QED
      BY ONLY <1>4, <3>1, <3>2 DEF IsFront
  <2>2. Len(file[4]) = 2
    BY ONLY <1>2, <2>1
  <2> QED
    BY <1>4, <2>1, <2>2
<1> QED
  BY <1>1, <1>3, <1>4 DEF Spoilt

\* An intact file is parsed into what was asked for.
LEMMA IntactIsParsed ==
  ASSUME TypeInv, Intact(4), setting = Len(Settings) + 1
  PROVE  /\ WellFormed(file)
         /\ file[1] = <<Guid>>
         /\ Front(file) = {<<"bpfcapture", Guid>>}
         /\ Timeline(file) = [k \in DOMAIN Settings |-> Event(k)]
<1> DEFINE n == Len(Settings)
<1>1. n \in Nat /\ n >= 2 /\ DOMAIN Settings = 1..n
  BY SettingsType
<1>2. /\ Len(file) = 4 + n /\ file \in Seq(KnownLines)
      /\ file[1] = <<Guid>> /\ file[2] = <<>>
      /\ file[3] = <<"bpfcapture", Guid>> /\ file[4] = <<>>
      /\ file[3] # <<>> /\ Len(file[3]) = 2
      /\ \A j \in 1..n : file[4 + j] = Event(j)
  <2>1. setting - 1 = n
    BY <1>1
  <2>2. Len(file) = 4 + n /\ \A j \in 1..n : file[4 + j] = Event(j)
    BY <2>1 DEF Intact
  <2>3. \A j \in 1..4 : file[j] = HeadLines[j]
    BY DEF Intact
  <2>4. file \in Seq(KnownLines)
    BY DEF TypeInv, FileSeq
  <2>5. file[1] = HeadLines[1] /\ file[2] = HeadLines[2] /\ file[3] = HeadLines[3] /\ file[4] = HeadLines[4]
    BY <2>3
  <2> QED
    BY <2>2, <2>4, <2>5, Lines
<1>3. \A k \in Int : IsFront(file, k) <=> k = 3
  <2> TAKE k \in Int
  <2>0. file[3] # <<>> /\ file[4] = <<>>
    BY <1>2
  <2>1. CASE k < 3
    BY <2>1 DEF IsFront
  <2>2. CASE k = 3
    <3>1. \A j \in 3..k : j = 3
      BY <2>2
    <3> QED
      BY <2>0, <2>2, <3>1 DEF IsFront
  <2>3. CASE k > 3
    <3>1. 4 \in 3..k
      BY <2>3
    <3> QED
      BY <2>0, <2>3, <3>1 DEF IsFront
  <2> QED
    BY <2>1, <2>2, <2>3
<1>4. Front(file) = {file[3]}
  <2>1. Len(file) \in Nat /\ Len(file) >= 4
    BY <1>1, <1>2
  <2>2. {j \in 1..Len(file) : IsFront(file, j)} = {3}
    BY <1>3, <2>1
  <2> QED
    BY <2>2 DEF Front
<1>5. FrontLength(file) = 3
  BY <1>1, <1>2, <1>3 DEF FrontLength
<1>6. /\ Timeline(file) \in Seq(KnownLines)
      /\ Len(Timeline(file)) = n
      /\ \A k \in 1..n : Timeline(file)[k] = Event(k)
  <2>1. Timeline(file) = SubSeq(file, 5, 4 + n)
    BY <1>2, <1>5 DEF Timeline
  <2>2. \A k \in 5..(4 + n) : file[k] \in KnownLines
    BY <1>1, <1>2, ElementOfSeq
  <2>3. /\ Timeline(file) \in Seq(KnownLines)
        /\ Len(Timeline(file)) = n
        /\ \A k \in 1..n : Timeline(file)[k] = file[4 + k]
    BY <1>1, <2>1, <2>2, SubSeqProperties
  <2> QED
    BY <1>2, <2>3
<1>7. Timeline(file) = [k \in DOMAIN Settings |-> Event(k)]
  <2>1. DOMAIN Timeline(file) = 1..n /\ Timeline(file) \in [1..n -> KnownLines]
    BY <1>6, LenProperties
  <2> QED
    BY <1>1, <1>6, <2>1
<1>8. WellFormed(file)
  <2>1. \A k \in DOMAIN Timeline(file) : Len(Timeline(file)[k]) = 3
    BY <1>6, EventLines, LenProperties
  <2> QED
    BY <1>1, <1>2, <1>4, <2>1 DEF WellFormed
<1> QED
  BY <1>2, <1>4, <1>7, <1>8

IInv == TypeInv /\ OrderInv /\ PromptInv

LEMMA IInvIsInvariant == Spec => []IInv
<1>1. Init => IInv
  BY InitType, InitOrder DEF IInv
<1>2. IInv /\ [Next]_vars => IInv'
  BY TypeStep, OrderStep DEF IInv
<1> QED
  BY <1>1, <1>2, PTL DEF Spec

LEMMA ParsedIsIntact ==
  ASSUME IInv, run = "saved", WellFormed(file)
  PROVE  Intact(4) /\ setting = Len(Settings) + 1
<1>1. setting = Len(Settings) + 1 /\ setting > 1
  BY SettingsType DEF IInv, OrderInv
<1>2. PICK h \in 0..4 : Intact(h)
  BY SpoiltIsRefused DEF IInv, OrderInv
<1> QED
  BY <1>1, <1>2 DEF Intact

\* The scripts of the router and monitor.sh write to the file as they please;
\* but a file that is saved and that parse_specfile accepts says of the run
\* exactly what was asked for, in order: an event that came too early stands
\* where one of its assertions finds it (monitor.sh, parse_specfile).
THEOREM ParsedFilesTellTheRun == Spec => []ParsedIsRecorded
<1>1. IInv => ParsedIsRecorded
  BY ParsedIsIntact, IntactIsParsed DEF IInv, ParsedIsRecorded
<1> QED
  BY <1>1, IInvIsInvariant, PTL

\* A monitor.sh that is through before the first setting is made leaves a file
\* that parse_specfile accepts, if it is saved at all.
THEOREM PromptFilesAreParsed == Spec => []SavedIsWellFormed
<1>1. IInv => SavedIsWellFormed
  <2> SUFFICES ASSUME IInv, run = "saved", prompt PROVE WellFormed(file)
    BY DEF SavedIsWellFormed
  <2>1. Intact(4) /\ setting = Len(Settings) + 1
    BY DEF IInv, PromptInv, OrderInv
  <2> QED
    BY <2>1, IntactIsParsed DEF IInv
<1> QED
  BY <1>1, IInvIsInvariant, PTL

\* The fifth line of the timeline is the last of the three settings that a
\* profile begins with, if it begins with three equal ones and then another,
\* as that of takeBandwidthProfile does (make_profile_csv.py:45).
THEOREM ProfilesStartAfterRampUp ==
  ASSUME Len(Rates) >= 5, Rates[2] = Rates[3], Rates[3] = Rates[4], Rates[4] # Rates[5]
  PROVE  Spec => []ProfileStartsAfterRampUp
<1>1. RampUpEnd = 4
  <2> DEFINE P(k) == Rates[k] # Rates[k + 1] /\ \A j \in 2..k : Rates[j] = Rates[k]
  <2>1. Len(Rates) \in Nat
    BY RatesAssumption
  <2>2. 4 \in 2..(Len(Rates) - 1) /\ P(4)
    BY <2>1
  <2>3. \A k \in 2..(Len(Rates) - 1) : P(k) => k = 4
    <3> SUFFICES ASSUME NEW k \in 2..(Len(Rates) - 1), P(k), k # 4 PROVE FALSE
      OBVIOUS
    <3>1. CASE k = 2 \/ k = 3
      BY <3>1
    <3>2. CASE k >= 5
      BY <2>1, <3>2
    <3> QED
      BY <2>1, <3>1, <3>2
  <2> QED
    BY <2>2, <2>3 DEF RampUpEnd
<1>2. IInv => ProfileStartsAfterRampUp
  <2> SUFFICES ASSUME IInv, run = "saved", WellFormed(file) PROVE ProfileStart(file) = Event(RampUpEnd + 1)
    BY DEF ProfileStartsAfterRampUp
  <2>1. Timeline(file) = [k \in DOMAIN Settings |-> Event(k)]
    BY ParsedIsIntact, IntactIsParsed DEF IInv
  <2>2. 5 \in DOMAIN Settings
    BY SettingsType
  <2> QED
    BY <1>1, <2>1, <2>2 DEF ProfileStart
<1> QED
  BY <1>2, IInvIsInvariant, PTL

=============================================================================
