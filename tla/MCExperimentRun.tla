-------------------------- MODULE MCExperimentRun --------------------------
(* ExperimentRun for TLC: the configurations a study runs through.          *)
EXTENDS ExperimentRun

\* Every scenario.
AllScenarios == [scenario : Scenarios, mvca : Mvcas]

\* A call whose screen is recorded.
ScreencaptureCall == [scenario : {"JUST_CALL_SCREENCAPTURE"}, mvca : Mvcas]

=============================================================================
