------------------------------ MODULE Dataset ------------------------------
(***************************************************************************)
(* The data a study leaves: the programs of StudyPlan run their             *)
(* configurations one after the other, each run sends a call and a TCP     *)
(* flow through the bottleneck for as long as its workload lasts (the      *)
(* waits and sleeps of testbed_c_and_c.py, to the next five seconds), and  *)
(* the evaluation makes a row of what was captured.  Calls are retried and *)
(* break, runs fail, and a study may be aborted.                           *)
(*                                                                         *)
(* A definition that is followed by the one the specification uses, and    *)
(* used by nothing, is the code with a plausible bug.                      *)
(***************************************************************************)
EXTENDS StudyPlan, Evaluation, FiniteSets

CONSTANTS
  Programs,  \* the programs of StudyPlan
  Answers,   \* when a call that is tried may begin to flow, in intervals
  Breaks,    \* when it may break while the run waits, in intervals
  Strays     \* when a broken call sends a few packets more, in intervals

Full == TicksPerInterval
Flow(k, packets) == [u \in 1..k |-> packets]

\* haveTheBirdsChirp: the script that makes the call, the twelve seconds for the
\* other, and count_packets, in the last interval.
Attempt == 7
ASSUME AnswersAssumption == Answers \subseteq 1..Attempt
ASSUME BreaksAssumption == Breaks \subseteq Nat \ {0} /\ Strays \subseteq Nat
ASSUME ProgramsAssumption == Programs \subseteq DOMAIN Plans

VARIABLES
  program,  \* the program
  begun,        \* the number of its runs so far
  config,   \* the configuration of the current run
  step,     \* the next step of its workload; 0 between runs
  call,     \* the packets of the call in each interval so far
  tcp,      \* those of the TCP flow
  retried,  \* whether the call was tried twice
  broke,    \* the interval in which the call broke, or 0
  row       \* what process_file makes of the run

vars == <<program, begun, config, step, call, tcp, retried, broke, row>>

None == [kind |-> "none"]

Init ==
  /\ program \in Programs
  /\ begun = 0 /\ config = Plans[program][1] /\ step = 0
  /\ call = <<>> /\ tcp = <<>> /\ retried = FALSE /\ broke = 0 /\ row = None

\* evaluate_scenario, and _do until its payload begins.
Begin ==
  /\ step = 0 /\ begun < PlanLength(program)
  /\ begun' = begun + 1
  /\ config' = Planned(program, begun + 1)
  /\ step' = 1 /\ call' = <<>> /\ tcp' = <<>> /\ retried' = FALSE /\ broke' = 0
  /\ row' = None
  /\ UNCHANGED program

\* The run fails, and nothing is stored.  The study may be at its end with it.
FailAndGoOn ==
  /\ step > 0 /\ step' = step + 1
  /\ UNCHANGED <<program, begun, config, call, tcp, retried, broke, row>>
Fail ==
  /\ step > 0
  /\ step' = 0 /\ call' = <<>> /\ tcp' = <<>> /\ retried' = FALSE /\ broke' = 0
  /\ UNCHANGED <<program, begun, config, row>>

Steps == Workload[config.scenario]
Doing(s) == step \in DOMAIN Steps /\ Steps[step] = s

\* Whether the TCP flow is there: between setupTCP and killTCP.
TcpFlows == \E k \in 1..(step - 1) : Steps[k] = "setupTCP" /\ \A j \in k..(step - 1) : Steps[j] # "killTCP"

\* A step takes some intervals, in which the call sends so much.
Lasts(calls) ==
  /\ call' = call \o calls
  /\ tcp' = tcp \o Flow(Len(calls), IF TcpFlows THEN Full ELSE 0)
  /\ step' = step + 1
  /\ UNCHANGED <<program, begun, config, row>>

\* A call that goes on for some intervals.
Talk(k) == Flow(k, IF broke = 0 THEN Full ELSE 0)

\* An attempt at the call, which flows from its s-th interval on; without s
\* nobody answers.
Rings(s) == Flow(s - 1, 0) \o Flow(Attempt + 1 - s, Full)
Unanswered == Flow(Attempt, 0)

\* establish_call: the first attempt works, or it does not, be it that the call
\* flows and a script hangs; then both phones are stopped, which takes at least
\* the ten seconds of the sleep, and the second has to work.
Make ==
  /\ Doing("make")
  /\ \E s \in Answers :
       \/ Lasts(Rings(s)) /\ UNCHANGED retried
       \/ /\ \E first \in {Unanswered} \cup {Rings(r) : r \in Answers} :
               Lasts(first \o Flow(3, 0) \o Rings(s))
          /\ retried' = TRUE
  /\ UNCHANGED broke

\* setupTCP: the flow begins, and ten seconds are slept.
SetupTcp ==
  /\ Doing("setupTCP")
  /\ call' = call \o (IF call = <<>> THEN Flow(2, 0) ELSE Talk(2))
  /\ tcp' = tcp \o Flow(2, Full)
  /\ step' = step + 1
  /\ UNCHANGED <<program, begun, config, row, retried, broke>>

\* A wait of k intervals, in which the call may break after the b-th; then there
\* may be a few stray packets, fewer than the ten that didCallBreak passes over.
Idle(k) ==
  \/ Lasts(Talk(k)) /\ UNCHANGED broke
  \/ \E b \in Breaks, stray \in Strays :
       /\ b < k
       /\ Lasts([u \in 1..k |-> IF u <= b THEN Full ELSE IF u = stray THEN 9 ELSE 0])
       /\ broke' = Len(call) + b + 1

\* waitThreeMinutes, and the eleven minutes of a profile.
Wait ==
  /\ \/ Doing("wait") /\ Idle(36)
     \/ Doing("profile") /\ Idle(132)
  /\ UNCHANGED retried

\* makeScreencapture.sh: fourteen seconds at most.
Capture == Doing("capture") /\ Lasts(Talk(3)) /\ UNCHANGED <<retried, broke>>

\* killTCP ends the flow and sleeps for five seconds.
KillTcp ==
  /\ Doing("killTCP")
  /\ call' = call \o Talk(1) /\ tcp' = Append(tcp, 0)
  /\ step' = step + 1
  /\ UNCHANGED <<program, begun, config, row, retried, broke>>

\* end_call: the messengers stop at once, the rest of it takes its time.
EndCall == Doing("end") /\ Lasts(Flow(4, 0)) /\ UNCHANGED <<retried, broke>>

\* The queue drops most of a call's first packets, if anything.
FirstFlowing == CHOOSE u \in DOMAIN call : call[u] > 0 /\ \A v \in 1..(u - 1) : call[v] = 0
Dequeued == { call, [call EXCEPT ![FirstFlowing] = 5] }

\* The capture is stored and evaluated (process.py).
Evaluate ==
  /\ step = Len(Steps) + 1
  /\ step' = 0
  /\ \E dequeued \in Dequeued :
       row' = Row(config.scenario, dequeued, tcp, call, tcp)
  /\ UNCHANGED <<program, begun, config, call, tcp, retried, broke>>

Next ==
  \/ Begin \/ Fail \/ Make \/ SetupTcp \/ Wait \/ Capture \/ KillTcp \/ EndCall \/ Evaluate

Spec == Init /\ [][Next]_vars

-----------------------------------------------------------------------------
(* Properties.                                                             *)

TypeOK ==
  /\ program \in DOMAIN Plans
  /\ begun \in 0..PlanLength(program)
  /\ \E k \in DOMAIN Plans[program] : config = Plans[program][k]
  /\ step \in 0..(Len(Steps) + 1)
  /\ call \in Seq(0..Full) /\ tcp \in Seq({0, Full}) /\ Len(call) = Len(tcp)
  /\ retried \in BOOLEAN /\ broke \in 0..Len(call)
  /\ row.kind \in {"none", "skipped", "unwritten", "raises", "row"}

\* Whatever run a study ends with, each configuration of its plan has been run
\* as often as any other, or once less: an aborted study leaves data that can be
\* compared (the iterations are the outermost loop of eval*.py).
Balanced ==
  LET plan == Plans[program]
      times(c) == Cardinality({k \in 1..begun : Planned(program, k) = c})
  IN  step = 1 /\ call = <<>> => \A k \in DOMAIN plan : times(plan[k]) - begun \div Len(plan) \in {0, 1}

\* Every configuration gives the router and the generator values they know: a
\* queue that monitorbpf.py has functions for, with a limit only if it is a
\* fifo, which then holds a packet; a rate; and no placeholder.
SettingsAreReal ==
  /\ config.innerqdisc.name \in {"bfifo", "codel", "fq_codel"}
  /\ Limit(config) = {} <=> config.innerqdisc.name # "bfifo"
  /\ \A limit \in Limit(config) : limit >= 1514
  /\ Rate(config) > 0
  /\ Cong(config) \in {"none", "cubic", "bbr", "bbr2"}

IntervalOf(tick) == tick \div TicksPerInterval + 1

\* No packets of a first attempt count as the start of the observation: there was
\* one attempt only, or the TCP flow came after the call.
StartIsClear == retried => config.scenario \in WithTcp \ TcpFirst

\* A row of a call that did not break measures a period in which the call flows
\* all the time, and the TCP flow of the scenario as well, whenever the two began,
\* as long as the start is clear.
MeasuresBothFlows ==
  row.kind = "row" /\ broke = 0 /\ StartIsClear =>
    \A u \in IntervalOf(row.window.from)..IntervalOf(row.window.to - 1) :
      /\ call[u] = Full
      /\ config.scenario \in WithTcp => tcp[u] = Full

\* A call that broke within 115 seconds of the first packet that counts has no
\* row, or one that says so, although some packets came later.
BreaksAreFlagged ==
  row.kind = "row" /\ broke # 0
    /\ TicksPerInterval * (broke - 1) < row.first + Seconds(115)
  => row.didCallBreak

\* A call that did not break has a row, and the row does not say it did.  Left
\* out is a call that was tried twice when the TCP flow was there already: with
\* packets of the first attempt, the observation begins before the call does.  And
\* a call that is alone, of which the first minute is skipped, must have lasted
\* 190 seconds: with 185 and the least of packets, 115 are not left.
GoodRunsHaveRows ==
  /\ row.kind # "none" /\ broke = 0
  /\ ~(retried /\ config.scenario \in TcpFirst)
  /\ config.scenario = "JUST_CALL" => Size(call) >= 38 * Full
  => row.kind = "row" /\ ~row.didCallBreak

\* The drop rates are those of the period of the row, as long as its start is clear:
\* where they begin earlier, since first packets were dropped, it is by no more
\* than these took.
DropsAreOfThatTime ==
  row.kind = "row" /\ StartIsClear =>
    /\ row.enqueued.from <= row.window.from
    /\ row.window.from <= row.enqueued.from + Seconds(5)
    /\ row.window.to <= row.enqueued.to + Seconds(5)

=============================================================================
