---------------------------- MODULE MCStudyClock ----------------------------
(* StudyClock for TLC: the configurations a study runs through.            *)
EXTENDS StudyClock

\* A call whose screen is recorded, and a call that competes with a TCP flow.
ScreencaptureOrTcp ==
  [scenario : {"INCUMBENT_TCP", "JUST_CALL_SCREENCAPTURE"}, mvca : Mvcas]

=============================================================================
