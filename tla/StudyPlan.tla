----------------------------- MODULE StudyPlan -----------------------------
(***************************************************************************)
(* The configurations that the eval*.py programs run through: one element  *)
(* of a plan for each call of evaluate_scenario in one iteration of the    *)
(* outermost loop, in the order of the loops within it.                    *)
(***************************************************************************)
EXTENDS Integers, SequencesExt, Workloads

CONSTANT Iters  \* iters: 10, 30 or 33 in the code

ASSUME ItersAssumption == Iters \in Nat \ {0}

\* mvcas: the messengers, in the order in which they are tried.
mvcas == <<"TELEGRAM", "SIGNAL", "WHATSAPP">>

\* for x in xs
For(xs, Body(_)) == FlattenSeq([k \in DOMAIN xs |-> Body(xs[k])])

\* QDiscConfig, with the length of a fifo in bytes: a multiple, rounded up, of
\* what a bandwidth in kbit/s carries in a round trip in ms.
Bfifo(scalar, rtt, bw) == [name |-> "bfifo", len |-> (scalar * rtt * bw + 7) \div 8]
Codel == [name |-> "codel", len |-> -1]
FqCodel == [name |-> "fq_codel", len |-> -1]
Aqms == <<Codel, FqCodel>>

\* TestConfig, without the guid.
Test(scenario, mvca, rtt, bw, qdisc, cong) ==
  << [scenario |-> scenario, mvca |-> mvca, rtt |-> rtt, bw |-> bw,
      innerqdisc |-> qdisc, cong |-> cong] >>

\* The bandwidth at which a messenger feels well (eval_screencapture_congestion.py
\* and eval_ikespezial.py), in kbit/s, by its place in mvcas.
bwdict == <<750, 1900, 450>>

Eval ==
  For(<<300, 2000>>, LAMBDA bw :
  For(<<"bbr2", "bbr", "cubic">>, LAMBDA cong :
  For(<<"INCUMBENT_TCP", "INCUMBENT_CALL">>, LAMBDA scenario :
  For(<<10, 1>>, LAMBDA buffscalar :
  For(mvcas, LAMBDA mvca :
    Test(scenario, mvca, 50, bw, Bfifo(buffscalar, 50, bw), cong))))))

EvalBwp ==
  For(mvcas, LAMBDA mvca :
    Test("BWP", mvca, 50, -3000, Bfifo(10, 50, 3000), "<nocong>"))

EvalFixebw ==
  For(<<"cubic", "bbr", "bbr2">>, LAMBDA cong :
  For(mvcas, LAMBDA mvca :
  For(<<Bfifo(2, 50, 5000)>> \o Aqms, LAMBDA qdisc :
    Test("INCUMBENT_CALL", mvca, 50, 5000, qdisc, cong))))

EvalIkespezial ==
  Test("INCUMBENT_CALL", mvcas[1], 50, bwdict[1], Bfifo(10, 50, bwdict[1]), "bbr2")

EvalScreencapture ==
  For(<<300, 1000, 2000>>, LAMBDA bw :
  For(mvcas, LAMBDA mvca :
    Test("JUST_CALL_SCREENCAPTURE", mvca, 50, bw, Bfifo(2, 50, bw), "bbr")))

EvalScreencaptureCongestion ==
  For(<<"cubic", "bbr2">>, LAMBDA cong :
  For(<<"INCUMBENT_TCP_SCREENCAPTURE", "INCUMBENT_CALL_SCREENCAPTURE">>, LAMBDA scenario :
    For(<<1, 2, 3>>, LAMBDA n :
      Test(scenario, mvcas[n], 50, bwdict[n], Bfifo(2, 50, bwdict[n]), cong))
    \o
    For(Aqms, LAMBDA aqm :
    For(<<1, 2, 3>>, LAMBDA n :
      Test(scenario, mvcas[n], 50, bwdict[n], aqm, cong)))))

EvalWohlfuehlbandbreiten ==
  For(<<10, 200>>, LAMBDA rtt :
  For(<<1000, 5000>>, LAMBDA bw :
    Test("JUST_CALL", mvcas[3], rtt, bw, Bfifo(10, rtt, bw), "bbr")))

Plans ==
  [ eval |-> Eval, bwp |-> EvalBwp, fixebw |-> EvalFixebw, ikespezial |-> EvalIkespezial,
    screencapture |-> EvalScreencapture,
    screencapture_congestion |-> EvalScreencaptureCongestion,
    wohlfuehlbandbreiten |-> EvalWohlfuehlbandbreiten ]

\* No loop makes a call of evaluate_scenario twice.
ASSUME PlansAssumption ==
  \A program \in DOMAIN Plans :
    \A j, k \in DOMAIN Plans[program] : Plans[program][j] = Plans[program][k] => j = k

\* The n-th call of evaluate_scenario in a program, if it has one.
PlannedByConfig(program, n) ==
  Plans[program][((n - 1) \div Iters) + 1]
Planned(program, n) ==
  Plans[program][((n - 1) % Len(Plans[program])) + 1]
PlanLength(program) == Iters * Len(Plans[program])

\* What a run hands to the router and the generator: the type of the queue to
\* monitor, its description for tc, the rate, and the congestion control of the
\* TCP flow if there is one.  A profile begins with 10 Mbit/s whatever bw is.
RateOfConfig(c) == c.bw
Rate(c) == IF c.scenario = "BWP" THEN 10000 ELSE c.bw

\* qdisc_config_to_str: only a bfifo has a limit.
LimitOfAny(c) == {c.innerqdisc.len}
Limit(c) == IF c.innerqdisc.name = "bfifo" THEN {c.innerqdisc.len} ELSE {}

Cong(c) == IF c.scenario \in WithTcp THEN c.cong ELSE "none"

=============================================================================
