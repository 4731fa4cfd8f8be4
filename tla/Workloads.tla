----------------------------- MODULE Workloads -----------------------------
(***************************************************************************)
(* What the scenarios of scenarios.py make a run do.                       *)
(***************************************************************************)

\* The steps of _do's payload by scenario.
Workload ==
  [ BWP           |-> <<"make", "profile", "end">>,
    INCUMBENT_TCP |-> <<"setupTCP", "make", "wait", "killTCP", "end">>,
    INCUMBENT_CALL |-> <<"make", "setupTCP", "wait", "killTCP", "end">>,
    JUST_CALL     |-> <<"make", "wait", "end">>,
    JUST_TCP      |-> <<"setupTCP", "wait", "killTCP">>,
    JUST_CALL_SCREENCAPTURE |-> <<"make", "wait", "capture", "end">>,
    INCUMBENT_TCP_SCREENCAPTURE |->
      <<"setupTCP", "make", "wait", "capture", "killTCP", "end">>,
    INCUMBENT_CALL_SCREENCAPTURE |->
      <<"make", "setupTCP", "wait", "capture", "killTCP", "end">> ]

Scenarios == DOMAIN Workload

\* The scenarios that pass need_to_copy_screencapture=True.
Screencaptured ==
  { "JUST_CALL_SCREENCAPTURE", "INCUMBENT_TCP_SCREENCAPTURE",
    "INCUMBENT_CALL_SCREENCAPTURE" }

\* Scenarios with a TCP flow, and those of them in which it comes first.
WithTcp ==
  { "INCUMBENT_TCP", "INCUMBENT_CALL", "JUST_TCP", "INCUMBENT_TCP_SCREENCAPTURE",
    "INCUMBENT_CALL_SCREENCAPTURE" }
TcpFirst == {"INCUMBENT_TCP", "INCUMBENT_TCP_SCREENCAPTURE", "JUST_TCP"}

=============================================================================
