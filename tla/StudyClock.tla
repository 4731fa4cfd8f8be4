----------------------------- MODULE StudyClock -----------------------------
(***************************************************************************)
(* ExperimentRun with the one thing about time that its runs depend on: a  *)
(* guid is the time in seconds (get_time_string), and names the files of a *)
(* run on four machines.  Commands may take no time at all; a sleep of the *)
(* orchestrator takes its seconds.  (It is local time: that an hour comes    *)
(* twice at the end of summer is left out.)                                 *)
(***************************************************************************)
EXTENDS ExperimentRun

VARIABLE slept  \* whether a second has passed for sure since the guid was taken

clockVars == <<vars, slept>>

ClockInit == Init /\ slept = FALSE

\* evaluate_scenario takes a guid; the first sleep of a run is that of two
\* seconds in issueCommandToBirds, and every other one comes after it.
Tick == slept' = (run' = run /\ (slept \/ BirdsAvdb))

ClockSpec == ClockInit /\ [][Next /\ Tick]_clockVars

-----------------------------------------------------------------------------
\* No two runs of a study have the same guid, whatever fails: a run that is over
\* before a second has passed has not started its monitor, and takes the study
\* with it (the assertion in qmon.is_running, in the finally block of _do).
GuidsDiffer == [][run' # run => run = 0 \/ slept]_clockVars

=============================================================================
