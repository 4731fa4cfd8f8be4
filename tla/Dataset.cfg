\* The seven programs with two iterations each.
SPECIFICATION Spec
CONSTANTS
  Iters = 2
  Programs = {"eval", "bwp", "fixebw", "ikespezial", "screencapture",
              "screencapture_congestion", "wohlfuehlbandbreiten"}
  Answers = {3, 5, 7}
  Breaks = {1, 10, 24, 30, 60}
  Strays = {1, 26, 29}
CHECK_DEADLOCK FALSE
INVARIANTS
  TypeOK
  Balanced
  SettingsAreReal
  MeasuresBothFlows
  BreaksAreFlagged
  GoodRunsHaveRows
  DropsAreOfThatTime
