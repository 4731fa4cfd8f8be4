# A model of the video-conferencing testbed

The repository measures how instant messengers share a bottleneck with TCP.  A
control server runs a *study* (`orchestration/eval*.py`): a loop over test
configurations, each of which is one *experiment run*.  A run drives two Android
phones, a bottleneck router and two traffic generators over SSH, captures the
queues of the router with eBPF, and copies the preprocessed capture home.  The
scripts in `evalscripts/` turn the captures into figures.

This directory holds TLA+ modules of the parts in which order, failure and
concurrency decide whether a measurement is valid, the TLC configurations that
check them, and theorems with proofs for TLAPS.  `PROJECT.json` lists the
components, the runs, the source lines of every definition, the hazards and the
findings.  Paths below are relative to `src/code/controlscripts/` unless they
begin with `evalscripts/` or `bootstrap/`.

## 1. The system

| part | state it keeps | operations | works with |
|---|---|---|---|
| study: `orchestration/eval*.py`, `evaluate_scenario` | loop variables, `dumpfolder/<guid>.csv` | begin a run, log and mail an exception, stop on it or on ^C | experiment run |
| experiment run: `scenarios.py` `_do` and eight scenarios | `exceptionCounter`, the `qmon`, the exception in flight | set up, work on the payload, save, handle | testbed functions, runners |
| testbed functions: `testbed_c_and_c.py` | `tcpServer`, `tcpClient`, a waiting loop | clean up, check the disk, call, retry, end, start and stop TCP, capture the screen | runners, phones, generators |
| command runners: `runner_utils.py`, `utils.py` | machine and pid of a background process | run a command, start, ask about, stop a process, copy and remove files | SSH, every machine |
| phone scripts: `avdrunner/` | the messenger's calls | stop messengers, ring, wait for the button, end | the Android devices |
| traffic generator: `tcprunner/generator/gen.c` | `sockfd`, `childPIDs`, `childPIDs_i` per process | accept, fork, stream, track children, SIGTERM handler | its clients, the kernel |
| experiment file: `router/monitor.sh`, `setlatency.sh`, `setbandwidth_innerqdisc.sh`; `parse_specfile` | `<guid>.txt` on the router, the ports' settings | write the head, set a port, append an event, parse | orchestrator, evaluation |
| queue monitor: `router/monitorbpf.py` | kernel maps, a perf buffer per CPU, `<guid>.bpf` | record, submit, poll, note a loss, end | kernel, `qmon.stop` |
| preprocessing: `process.sh`, `router/preprocessing/` | heap, deque, `skb_dict`, `<guid>.pickle` | read, sort, convert, match | the capture |
| evaluation: `evalscripts/` | tables | windows, rates, drop rates, plots | the capture, the experiment file |
| `bootstrap/`, router tools, data | – | one-time setup, results | – |

**What is hard here.**  The orchestrator is sequential, but everything around it
is not: processes it starts run on, hang or crash on five machines, a lost SSH
session looks like an answer, a failed step may leave a process, a call or a file
to the next run, and the handlers of a failed run may fail themselves.  The
generator forks with a signal handler that may come between any two steps.  Two
scripts write one file.  Records of several CPUs reach the capture in any order,
some not at all, and the reader of the capture passes over every exception.  The
evaluation finds the period of observation in the packets alone, whatever was
retried, broke or came late in the run.

**What makes each part correct.**  A study loses no run silently: each is saved
or counted, and what is saved covers the whole payload.  A run is not measured
with a process or a call of another.  A study ends.  A stopped generator frees its
port and takes its children along.  An experiment file says what was set, in
order.  A record of the monitor is that of its own call.  A converted capture is
complete and in order, or visibly cut, and a delay is that of one packet.  A row of
the results measures a time in which the flows of its scenario were there, and says
so if the call broke.  Every configuration is run equally often.  The `hazards` of `PROJECT.json` say, line by line, what
threatens this, and which property is about it.

## 2. The modules

| module | models | lines of the code |
|---|---|---|
| `Runners` | background processes on the machines, and what `start`, `is_running`, `stop` and `pkill` do to them over sessions that fail | `runner_utils.py`, `utils.py` |
| `ExperimentRun` (extends `Runners`) | a study and its runs: one action per command, check, wait and handler | `scenarios.py`, `testbed_c_and_c.py`, `eval.py`, `avdrunner/` |
| `Workloads` | the steps of the eight scenarios, for `ExperimentRun` and `StudyPlan` | `scenarios.py` |
| `StudyClock` (extends `ExperimentRun`) | the guid, which is a time in seconds | `utils.py`, `evaluate_scenario` |
| `Study` | what a study promises, without the testbed | the abstract specification of `ExperimentRun` |
| `ExperimentRun_proofs` | theorems about `ExperimentRun`: what a run does, that it implements `Study` and keeps its account | – |
| `ExperimentRun_leftovers` (extends it, and `StudyClock`) | theorems about what a run leaves behind: files, processes, scripts, and the names of its data | – |
| `GenServer` | the generator's server, its processes, and its clients | `gen.c` |
| `GenServer_proofs` | theorems about `GenServer` | – |
| `SpecFile` | the experiment file, its writers and its readers | `monitor.sh`, `set*.sh`, `evalscripts/utils.py`, `make_profile_csv.py` |
| `SpecFile_proofs` | theorems about `SpecFile` | – |
| `Probe` | the probes of a queue's functions and the maps in which a return finds its entry | `monitorbpf.py` |
| `Probe_proofs` | theorems about `Probe` | – |
| `Capture` | perf buffers, the monitor and its file | `monitorbpf.py` |
| `Conversion` (extends `Capture`) | the conversion of the file while the monitor may still write to it | `parse_raw.py`, `qmon_serializer.py`, `pcap_parsing.py` |
| `Delays` | what the conversion promises, without its heap, its dictionary and the order of its work | the abstract specification of `Conversion` |
| `Conversion_proofs` | theorems about `Conversion` and `Capture`: the order, the delays, and that it implements `Delays` | – |
| `StudyPlan` | the configurations of the seven programs, as operators | `eval*.py`, `constantins.py` |
| `Evaluation` | the period of observation and the row of a run, as operators | `evalscripts/utils.py`, `avgbwdist.py` |
| `Evaluation_proofs` | lemmas about the operators of `Evaluation`, and the induction they rest on | – |
| `Dataset` (extends `StudyPlan`, `Evaluation`) | studies whose runs make flows, and what the evaluation makes of these | `scenarios.py`, `testbed_c_and_c.py`, `process.py` |
| `Dataset_proofs` (extends `Evaluation_proofs`) | theorems about `Dataset` | – |
| `MCExperimentRun`, `MCStudyClock`, `MCSpecFile`, `MCProbe`, `MCConversion` | configurations, rates and symmetry for TLC | – |

A few definitions are followed by the one the specification uses and used by
nothing (`MoreRunsOffByOne` before `MoreRuns`, `KeepSocket` before
`BecomeSession`): each is the code with a plausible bug.  Put in the place of the
definition that follows, it makes TLC find a violation of the property that
`PROJECT.json` names under `mutants`, so each property is known to depend on the
code it is about.

### ExperimentRun

`pc` is the command the orchestrator is at, named for it; `exc` is the exception
in flight.  The text of `_do`'s try block is one action per statement that talks to
a machine: `KillAll` and `Retry` go through the list of commands of `killall` and of
the `except` of `establish_call` (`i` counts them, and the seconds in `BirdsWait`);
`Profile` stands for all eleven rates of a profile at once, each of which is one
`setbandwidth` that works or fails.  `Raise` sends an exception to the innermost handler: the bare `except` of the
first attempt of a call, else the one of `_do`.  `FinallyCheck` and `FinallyStop` are
the `finally` block, which itself may raise; `Escape` is the pair of except clauses of
`eval.py`, which end the program.  A run's number stands for its guid.

`up` and `dying` (module `Runners`) are the processes there are and those that
have been sent a signal; a process is the pair of its role and its run.  `ringing`
and `calls` are the calls on the phones; an accept script answers any call that
rings, whoever made it.  `onRouter`, `onAvda` and `stored` are files.

`Faults` says what may go wrong: `"command"`, a command fails or a session is lost
where the code sees it; `"drop"`, a session is lost where the code takes that for
an answer (`is_running`, `pkill`); `"interrupt"`, ^C or the status 130;
`"crash"`, the monitor or a generator ends by itself.  A script that hangs on avda,
a phone that hangs up, and an `mkv` that was not made need no fault: they may
always happen.

`ImplementsStudy` is the refinement: `Study`'s run, stored files and counted
exceptions are the code's own variables; its `busy` is the try block and its
`state` is `"stopping"` as soon as an interrupt or an exception from a handler is
on its way to `eval.py`.

### StudyClock

`Next` of `ExperimentRun` with a history variable: `slept` is true when the run has
gone through the first `time.sleep` of `issueCommandToBirds`, that is, when a second
has passed since its guid was taken.  That guids differ rests on the very assertion
that finding 1 is about: a run that fails before it has slept has not started its
monitor either, and the `finally` block then ends the study.  Were that repaired
(`FinallyTolerant`), the next run could have the guid of the failed one.

### GenServer

Every process has its own copy of the globals, which `fork` copies, and `pc`, its
place in `server_accept`, `server_session` or `sigtermHandler`.
`childPIDs[childPIDs_i++] = childPID` is two steps, since a signal may come between
the increment and the store.  The kernel's side - descriptors, parents, zombies,
pending signals, the meaning of 0 and -1 in `kill` and `waitpid` - is modelled from
the calls the code makes.  `fork` takes the next free
pid; that of a child is never free while an entry for it may still be stored or
signalled by a quiet handler, as children are waited for in handlers only and a process
in its handler forks nobody.  A store behind `childPIDs` may go to `sockfd`, which lies there when gcc lays the
globals out in their order.  `QuietStop` restricts SIGTERM to the use the study
makes of the server: it is stopped while its clients stream.

### SpecFile

`monitor.sh` runs as root in the background, and the other two scripts as a user;
`access` is who may append to the file, since a file that the user's `>>` made
first is not one that root's `touch` did.  `prompt` says that `monitor.sh` gets to its
`exec` before the next SSH command arrives, which is what happens on the testbed but
what nothing waits for.  The readers are operators on the sequence of lines, with
the assertions of `parse_specfile` as `WellFormed`.  The two `tc` commands of a port are
one step, `SetPort`: the port has the setting if both have worked.

### Probe

`call` is the kernel's side: the queue function each CPU is in, with the thread in
whose time it runs.  A CPU is in one call at a time, since the functions run with
softirqs off; a queue is locked by its call; and a thread runs on one CPU, except
that each CPU has an idle thread and all of them have pid 0, which is why the key of
the maps needs the CPU.  `entries` are the two maps.  `Attach` attaches one of the
four probes at a time while calls go on.  A return address is replaced when a call
is entered, so a call that began before `attach_kretprobe` never runs the return
probe (`probed`).

### Capture and Conversion

A packet is told from others by the number of its enqueueing, which no reader
sees; readers see the address, which is used again.  Each event of the queue is
submitted to the buffer of the CPU it happens on; `Poll` moves the oldest record
of any CPU to the file, so records of different CPUs are interleaved in any way
that the buffers allow.  A full buffer loses records and marks that before its next
one.  The monitor ends orderly, on an exception, or in the middle of a record.  The
queue is one FIFO - `fq_codel` keeps more than one, so packets may there leave in another
order - and what happens after `qmon.stop` is left out.

`Conversion` names an item by its position in the file: `heap` is the set of
positions in `h`, `deq` the sequence of those that have left it.  `ReadItem` is one
turn of `heapsorter` with the body of `convert`'s loop for the item it yields;
`Swallow` is `except: pass`, after which the heap's content is forgotten.  `Parse` is
the way through the pcap file and tshark: each item becomes a row, a row takes its
item off `deq`, and rows that are neither TCP nor UDP, or of a queue without a
handle, are not kept: all items of any set of at most `MaxOther` packets.  `packets` is parallel to
`deq` and has 0 where nothing was kept.  `ParseFails` is tshark failing, or an
assertion on what it says.`PairEnqueued` and `PairDequeued` are the two branches of
`recordDelays`, and `PairNothing` passes over a 0.  A match of records of two packets,
which an address used again can bring about, may fail at the assertions of lines 90-92.

`Delays` does in two steps what the code does item by item: at one moment the file
is put in order, at another all delays are taken.  In the refinement (`Promise`),
its `file` is the monitor's, its `order` is what has left the heap once the reading is
over, and its `delays` are the matches once the conversion has returned: until then
the heap and the dictionary are nobody's business.  `Delays` says of *every* capture,
also of one that lost records, what `Complete` and `DelaysAreTrue` say of good ones:
of what stands before the first bad record only the `Window` latest items may be
missing, the order is that of time, and a dequeueing is measured from the last
enqueueing of its address in that order, or nothing is returned at all.

### StudyPlan, Evaluation and Dataset

`Plans` gives, for each program, the calls of `evaluate_scenario` in one iteration of
its outermost loop, with the values the loops compute; bandwidths are in kbit/s.
`Planned` is the n-th call of the program.

`Evaluation` counts packets per five seconds, with times in fifths of a second;
`Index` is the time of a packet by its number, as `index[n]` is in the code.
`Observation` is `getToLeftTrafficClasses` and `Row` is `process_file`, with the
ways in which they give nothing or raise.

`Dataset` is a run again, seen from the bottleneck: a step of the workload lasts as
long as its waits and sleeps do, and meanwhile the call and the TCP flow send, at the
least rate that `check_flow` accepts.  A call is answered at any of `Answers`, its
first attempt may fail with or without packets having flowed, it may break at any of
`Breaks` and send a few packets more in any of `Strays`.  A queue that drops gives a
dequeued call that begins later than the enqueued one; first packets of the TCP flow
are not dropped, so `DropsAreOfThatTime` says nothing of windows that begin with a TCP
packet which was enqueued and dropped.  `Fail` is a run that stores
nothing.  How runs fail is `ExperimentRun`'s question.

What this showed about the code, besides the properties: a call of 11 packets
raises, as index 11 is read behind the guard `< 11`, and with fewer the Timedelta
that is returned cannot be compared with 5 (`evalscripts/utils.py:39`,
`avgbwdist.py:28`); a window with five to nine packets raises at `index[-10]`; the
row of eight fields at `avgbwdist.py:29` is returned, and nobody writes it.  "Don't
look at the last 10 packets" (`evalscripts/utils.py:42`) holds of calls without a TCP
flow only.  A first attempt that flowed before it failed moves the start of the
observation to before the call that is measured, unless a later TCP flow decides
(`StartIsClear`).  And the comment that avda has to finish within 8 seconds
(`testbed_c_and_c.py:16`) does not say what lines 25-31 do, which wait for 12.

## 3. What the runs show

| run | instance | distinct states | shows |
|---|---|---|---|
| `faults` | one run of any scenario, all faults, room for one capture, fairness | 200 k | `TypeOK`; a stored capture covers its payload; `ExperimentRun` implements `Study`; the program ends |
| `no_drops` | three runs, recorded or with TCP; commands and processes fail, ^C; room for two | 929 k | every past run is saved or counted; nothing of another run is alive during a payload, and a call is the run's own; no monitor is left behind; one script per phone; a workload cleans up; the router's disk suffices; guids differ |
| `just_logged` | no fault at all | violation | a script that hangs aborts the study, see findings |
| `gen_quiet` | two clients, at most one SIGTERM, while they stream | 6 k | a stopped server frees its port, signals its own children only, and ends its clients |
| `gen_any_time` | signals at any time, failing forks, `childPIDs` of one entry | 178 k | only the first process accepts; recorded children die; no handler waits for ever |
| `gen_full` | one connection more than `childPIDs` holds | violation | the server ends, see findings |
| `spec_file` | a bandwidth profile with the rates of the code | 117 k | what is parsed is what was asked for, in order; the profile starts where the ramp-up ends; an event tells a setting |
| `tc_fails` | `tc` may refuse | violation | an event that tells no setting, see findings |
| `conversion` | two CPUs, two addresses, four events, buffers of one, a heap of one, one packet that is no traffic | 6.9 M | a conversion is complete and in order; delays are those of one packet; nothing behind a loss is kept; `Conversion` implements `Delays` |
| `conversion_loss` | the same | violation | a loss that goes unnoticed, see findings |
| `probe` | two CPUs, their idle threads and one more, two queues, one packet | 1.35 M | a call gives its own record; entries left in the maps are of calls that began between two attachments |
| `dataset` | the seven programs, two iterations; calls that are late, retried, break; runs that fail | 239 k | configurations are run equally often, with values the testbed knows; a row measures both flows, flags a break, and is there for each good call; drop rates are of the same time |

**Bounds, and why they are enough.**  `MaxRuns`: what one run leaves to another shows
with two runs; the third run of `no_drops` is the one for which the disk must be
full.  `DiskRuns` of two makes `enoughMem` fail
in the third.  One messenger suffices, as
the code treats them alike; the two scenarios of `no_drops` have the steps that leave
something to another run, and `faults` runs all eight.  One run is enough for `faults`:
its properties relate a run to itself, and what a run begins with is the concern of
`no_drops`; `CaptureCoversPayload` and `ImplementsStudy` are proved for any number.  `Processes` and `Conns`: a listener and
two children are what the handlers need to wait for each other; the overflow needs
one more child than entries.  `MaxChildren` is 1 and 2 for the 10 of the code.
`MaxEvents` of 4 holds two packets, one of which takes the address of the other;
`Window` of 1 (10000 in the code) is exceeded by a file that two buffers of one
record can produce, and `MaxDelay` of 2 by a packet that waits.  `MaxOther` is 1: with any number of packets
that are no traffic (8.4 M states) the properties hold as well, and the theorems are for
every `MaxOther`; `Delays` has no such bound.  `SpecFile` needs no
bound.  `MCConversion` declares CPUs and addresses symmetric: no definition names one.
`Probe`: two CPUs and three threads' keys are what two calls need to meet under one
key; `StudyPlan` takes two iterations for the 10 to 33 of the code, `Dataset` answers a
call early, in the middle and as late as a script may, and breaks it before, in and
behind the period that is observed, and late in a profile.

**Fairness.**  `StudyEnds` assumes that the orchestrator goes on (`WF(Orchestrator)`:
every command returns and every `sleep` ends; a phone script that never ends is not
excluded, only waited for as long as the code does) and that a signalled process
ends.  SSH here has no timeout, so the first of these is an assumption on the
network, not a fact of the code.  `HandlerEnds` and `StopEndsClients` assume that the
kernel runs a process that can run (`WF(Handle(p))`) and reports the end of a
connection (`WF(ClientSeesEnd(c))`); nobody needs to connect, stop or signal.

**Assumptions on time.**  `Settled` (`Runners`): what `time.sleep` waits for - a
signalled process, a client whose server ended - has happened when it returns.
`Capture`: an address is not used again within the resolution of a floating point
timestamp, about a quarter of a microsecond.

**Deadlock** is checked where the code should never stop without saying so
(`ExperimentRun`, `GenServer`: their `Terminated` and `Over` steps are the ends they
may reach; `Probe`, which never stops) and off for `SpecFile`, `Conversion` and
`Dataset`, which simply end.

**Premises.**  `DelaysAreTrue` is about a file that the kernel lost no record of and
that is *slightly unsorted*: no item stands behind more items that are not older than the
heap holds.  That is what the comment at `parse_raw.py:118-120` relies on.  Without
the second premise it fails, as the assertion at line 128 lets items of equal time
pass.  For a record that the conversion never saw, because `process.sh` started too
early, a monitor that ended with records in its buffers, or a swallowed exception, the
property claims nothing about packets as young as that record or younger: a
dequeueing whose own enqueueing was not seen may there be matched with an older one
that had the same address and was dropped inside the queue.  `Complete` needs neither
premise when no exception was swallowed.

## 4. Findings

1. `just_logged`: the `finally` of `_do` asks a monitor that was never started whether
   it runs; the assertion in `is_running` replaces the exception that was just logged,
   so the failure of one test run aborts the study (`scenarios.py:69`).
2. `gen_full`: the eleventh connection is stored behind `childPIDs`, which in a build
   that lays the globals out in their order is over `sockfd`, and ends the server
   (`gen.c:118`).
3. `tc_fails`: an event is written for a setting that was refused
   (`setbandwidth_innerqdisc.sh:8`).
4. `conversion_loss`: the assertion that refuses a capture with lost packets is
   swallowed (`parse_raw.py:139`).

`NoLeftovers` is not claimed for lost sessions that nobody notices: `killall` and
`is_running` take them for "nothing there" (`testbed_c_and_c.py:66`,
`runner_utils.py:191`), and two of them let a process of one run into the next.

## 5. What is proved

The proofs hold for every value of the constants, under the assumptions that the
modules name, and are checked by TLAPS to the last leaf.

* `TypeCorrect`: `TypeOK` of `ExperimentRun`.  `TypeOK` is not inductive: `Launch` of a
  process of run 0 would break it.  `TypeInv` adds `Underway`, that a run is under way
  wherever the try block is and a script is known wherever it is used.  The lemmas
  `ControlTypes` and `ProcTypes` say once what the control-flow and process operators do.
* `CaptureIsCovered`: `CaptureCoversPayload`.  The invariant `CaptureInv` adds what it
  takes to know that a monitor did not end early.  Before `qmon.start` has returned
  (`BeforeMonitor`), and for runs to come, the run is `Fresh`: no monitor of it was
  started or lost, and it has no capture.  Once a capture is stored, and at every location after
  `qmon.stop`, the run is `Over`: its monitor was not lost, and is gone or
  has been signalled, so that it can no longer be lost.  The step between the two is
  `qmon.stop`, which raises if the monitor is not there any more.
* `CallsAreOurs`: `CallIsOurs`.  The invariant `CallsInv` says where the messengers of
  both phones have been stopped (`Stopped`: once the seventh command of `killall` has
  worked, and it counts only if it works), and that from then on only the run itself
  makes calls.
* `StudyImplemented`: `ImplementsStudy`.  The invariant `StudyInv` says which exception
  may be in flight where (`ExcInv`: none in the try block, one in the except clause,
  none or an interrupt in `finally`) and what is saved where (`SavedInv`: the
  capture before it is removed from the router, the `.mkv` before it is removed from
  avda).  Most steps of the try block (`WithinTry`) are then no step of `Study`, and each other
  action is one: `NextRun` is `Begin`, the copies `Save`, the last removal `Succeed`,
  the except clause `Fail`, and whatever leaves for `eval.py` `Break`.
* `RouterSuffices`: `RouterHasRoom`.  `RoomInv` adds that there is room for one run more
  at every location from the look at the disk to `qmon.start` (`Looked`), since nothing
  in between adds a file.
* `MonitorsAreStopped`: `NoMonitorLeftBehind`, if `"drop" \notin Faults`, as the code
  itself needs.  `MonitorInv` adds that only the run under way has a monitor that
  nobody has told to end: all other steps can only end monitors (`OtherStep`).
* `RunsAreAccounted`: `Accounted`.  `AccountInv` says
  where the run under way is itself accounted for: once its capture is copied and
  removed, or its exception counted.  It needs `SavedInv` for the first.
* `GuidsAreDifferent`: `GuidsDiffer`.  `ClockInv` says where a sleep lies behind the run
  under way: behind the first sleep of the try block, wherever the monitor was started,
  and at the head of the loop, unless the study has just begun.
* `OnlyTheListenerAccepts`: `OnlyListenerAccepts` of `GenServer`.  `AcceptInv` adds
  that a child begins with a connection (`HasConnection`) and has given up the
  listening socket at every later place in the loop (`GaveUpListening`), which neither
  a signal, nor a failed fork, nor a store behind `childPIDs` brings back.
* `ServerTypeCorrect`: `TypeOK` of `GenServer`.  That `childPIDs_i` stays in its bounds
  is not inductive: `TypeInv` adds that the first process has counted no more children
  than connections were accepted, and one less while it is between `fork` and the
  count (`CountInv`); that a child counts from 0, once (`ChildSlotInv`); and that the
  handler waits for an entry that was counted (`WaitInv`).
* `StoredChildrenDie`: `RecordedChildrenDie`.  `FamilyInv` says who is whose child
  (only the first process forks, a child is never the first process itself, a dead
  process takes no signals).  `HandledInv` is the loop's invariant: the entries that
  the handler has been through are of no living process, and stay so, as the handler
  forks nobody.
* `StoppedServerFreesPort`: `PortIsFree`, under `QuietStop`, which is how the study
  stops the server.  `QuietInv` adds that only the first process has been signalled
  before its handler runs (`OneSignal`), that it is at `accept` then, with nobody
  waiting (`AtAccept`), and that each living child is stored, or is the one about to be
  (`AllRecorded`).
* `HandlerSignalsChildren`: `OnlyChildrenSignalled`, under `QuietStop` and
  `~ForkMayFail`, as a failed `fork` stores -1.  `ChildrenInv` adds that the entries
  which the handler has yet to signal are children, and different ones: what one turn
  of its loop waits for is thus no entry of a later turn, and nobody waits outside the
  handler.
* `RoomyServerHoldsReady`: `ListenerHoldsReady`, if there are no more connections than
  `childPIDs` has entries.  With `CountInv`, no store goes behind the array, so
  `sockfd` stays what it was.  Finding 2 is thus the only way to lose it.
* `LeftoversAreKilled`: `NoLeftovers`, if `"drop" \notin Faults`.  `LeftoverInv` says
  what of an earlier run may still be there: only what the next commands of `killall`
  kill (`KilledBy`), and after `killall` nothing.
* `OneScriptAtATime`: `OneScriptPerPhone`, under the same assumption.  `ScriptInv`: in
  the try block, the only script of the run is the one that `issueCommandToBirds`
  looks after, or the first attempt that the retry has not killed yet.  That older
  runs have none is `LeftoverInv`, that later ones have none `UpToNow`.
* `WorkloadLeavesNothing`: `WorkloadCleansUp`, under the same assumption.  `StepInv`
  ties the functions of the testbed to the step of the workload they run in, and
  `GenInv` says that while a generator of the run is up, its `killTCP` is still ahead
  (`KillAhead`), which is a fact about all eight workloads.
* `FileTypeCorrect`, `EventsTellTheTruth`: `TypeOK` and `EventTellsSetting` of
  `SpecFile`, the second for a `tc` that does not refuse.  `PortInv`: the ports that
  the script's loop has been through have the setting.
* `ParsedFilesTellTheRun`: `ParsedIsRecorded`.  `OrderInv` says that the file is
  `Intact` - so many lines of the head, then the events in order, and no event before
  the head is complete - or `Spoilt`: an event stands where one of
  `parse_specfile`'s assertions finds it, and where later lines cannot hide it.
  `PromptFilesAreParsed`: `SavedIsWellFormed`.  `PromptInv`: a prompt `monitor.sh`
  leaves the file intact as long as it runs.
* `ProfilesStartAfterRampUp`: `ProfileStartsAfterRampUp`, for every list of rates that
  begins with one rate, three equal ones and then another, as the profile of
  `takeBandwidthProfile` does.
* `ConversionTypeCorrect`, `NothingIsKeptAfterLoss`: `TypeOK` and `NothingAfterLoss` of
  `Conversion`.  `ReadInv`: what is in the heap or has left it was read, and nothing
  that was read is a record of lost ones.
* `ConversionIsComplete`: `Complete`.  `HeapInv` is the correctness of `heapsorter`:
  what has left the heap is sorted (`SortedInv`); in a slightly unsorted file, the heap
  is full and what it holds is later than what has left it (`OrderInv`); and nothing is
  lost on the way (`AllInv`).  The lemma behind it, `NewestIsLater`: if a new item were
  older than the last that left, that one and the full heap would be `Window + 1` items
  that precede it in the file without being older.
* `DelaysAreOfOnePacket`: `DelaysAreTrue`.  `NoLossInv` says what the kernel guarantees
  as long as no record is lost: the packets in the queue have different addresses
  and are recorded as enqueued (`QueueInv`), records are in the past and the later use
  of an address has the later time (`TimeInv`), each dequeueing has its enqueueing
  (`MateInv`), and no event is recorded twice (`OnceInv`).  `PairInv` is the loop
  invariant of `recordDelays`: the dictionary has the last enqueueing of each address
  that nothing followed (`DictInv`), and each dequeueing was matched with it
  (`MatchInv`).  `MateIsNear` joins the two through the order of `deq`: with its own
  enqueueing read, nothing of the same address stands between a packet's two records.
* `DelaysImplemented`: `ImplementsDelays`.  Most steps of `Conversion` are then no step
  of `Delays`; the monitor's writing is `Record` (`RecordingKeepsPromise`), the step that
  ends the reading is `Sort` (`SortingKeepsPromise`), the one that returns is `Measure`
  (`MeasuringKeepsPromise`), and an assertion that fails is `Fail` or no step.
  Files that were cut short need more of `HeapInv` than `Complete` does: in a slightly
  unsorted file the heap and what has left it are all that was read, also after an
  exception was swallowed, and then the reading stood before a bad record (`AllInv`,
  `BadNext`); and the order holds in all phases (`OrderInv`).  `PromiseInv` is the loop
  invariant of `recordDelays` once more, without a premise on losses: what the
  dictionary has of an address is its last enqueueing so far (`TrueDictInv`), each match
  is a dequeueing with the last enqueueing of its address (`TrueMatchInv`; that none is
  left out is `PairInv`), and `packets` has what tshark kept (`DecodeInv`).
* `ProbeTypeCorrect`, `EveryRecordIsTrue`, `OnlyEarlyCallsLeaveEntries`: the properties
  of `Probe`.  `ProbeInv` adds `OwnEntry`: while a call is in flight that will run its
  return probe, the map holds its own entry under its key.  An entry that an earlier
  call left there does no harm, as `Store` replaces it, and no two calls in flight
  share a key, since the key has the CPU in it.

* `SettingsStayReal`: `SettingsAreReal`.  The set `Real` has the configurations with
  settings that the testbed knows, and `RealSettings` says that those are enough.  Each
  program has a lemma that its plan is a sequence of them (`EvalIsReal` and so on),
  proved loop by loop from the innermost: a loop is `FlattenSeq` of the plans of its
  body, and `FlatType` says what that gives.
* `StudiesStayBalanced`: `Balanced`, for any number of iterations and any plan that
  names no configuration twice.  Of the first n runs, as many belong to a place of the
  plan as to any other, or one less (`CountOfPlace`: a bijection from a range of
  natural numbers onto the runs of that place).
* `StudyTypeCorrect`, `BothFlowsAreMeasured`, `BrokenCallsAreFlagged`,
  `GoodRunsAreKept`, `DropsAreOfTheirTime`: the other invariants of `Dataset`, for any
  times at which calls are answered and break, any stray packets, retries and failures.
  `TypeInv` and one lemma per step of a workload say what the step adds to the flows.
  `ShapeInv` then says what the flows look like at each place of any workload: the call
  has a first packet, from an interval s on is steady until e, where it was ended or
  broke (`CallShape`); the TCP flow is steady from t to k, with t before s or behind it
  as the scenario has it, and two minutes or more of both in common once the wait is
  over (`TcpShape`).  `RowInv` says which flows a row was made from.  What a row says
  follows from the shape alone, through the lemmas of `Evaluation_proofs` on the sums of
  a flow, the time of its n-th packet and the packets before a time: `WindowWithin` for
  the period, `EndsBeforeBreak` for the tenth packet from its end, `SteadyHolds` and
  `AloneHolds` for a call that did not break, `FirstPackets` and `LastPackets` for what
  the loss of first packets shifts.

The prover cannot instantiate the library's induction theorems, which take an operator.
`Evaluation_proofs` takes what it needs from the well-foundedness of `<` instead, which
is about a set: `LeastNat`, that a set of natural numbers has a least element, and
`Induction`, that one with 0 and every successor is `Nat`.  With it are shown that the
recursive function in `Sums` exists and adds up what it should, and that division has
one quotient and remainder.

The assumptions are those on the constants that the modules state, and where a bullet names
one more, it is a switch of the model (`Faults`, `TcMayFail`, `QuietStop`,
`ForkMayFail`) that says which failures are left out, or the size of an array.

`PlansAssumption` (`StudyPlan`) is about no constant: it says of the seven plans that
none names a configuration twice.  The plans have no parameters, and TLC evaluates it
for all of them.  What else the proofs need of the plans is proved (`PlanFacts`).

Only model-checked: liveness (`StudyEnds`, `HandlerEnds`, `StopEndsClients`), which is
out of this prover's reach.  Every invariant and both refinements that the passing runs
check are theorems.  The four runs that end in a violation are findings, of which
nothing can be proved.

## 6. What is not modelled

Commands that never return; the duplex half of the TCP functions, which no scenario
asks for; the content of a stream, a packet or a screen, and so the bytes of the pcap
file and the counter by which the code checks it, and the 16 bits of a packet's
length; logging and mail; the sums and averages of a row, plots, and the rating of
recordings, which have no control of their own; an hour that comes twice at the end
of summer; the one-time setup under `bootstrap/`.

## 7. Plan

What the plan of this project had is done.  What would be next:

1. A specification of liveness for commands without a timeout (`runner_utils.py:125`),
   once the code gives its SSH sessions one: as it stands, a command that never returns
   stops the study, and `StudyEnds` assumes that none does.
2. The sums and averages of a row (`avgbwdist.py`), for which the flows of `Dataset`
   would need more than two rates.
