----------------------------- MODULE MCSpecFile -----------------------------
(* SpecFile for TLC: the rates of a bandwidth profile, in kbit/s.           *)
EXTENDS SpecFile

\* scenarios.py: bw of the run, then the list of takeBandwidthProfile.
ProfileRates ==
  <<10000, 3000, 3000, 3000, 2000, 1000, 750, 300, 3000, 3000, 3000, 300>>

=============================================================================
