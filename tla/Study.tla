------------------------------- MODULE Study -------------------------------
(***************************************************************************)
(* What a study (one eval*.py program) promises of its runs, without the   *)
(* testbed: runs follow each other, one at a time; each is begun with its  *)
(* metadata on disk, and is over either because everything it has to save  *)
(* is saved or because an exception was counted; once an exception or an   *)
(* interrupt gets through to the program, no other run begins.             *)
(***************************************************************************)
EXTENDS Naturals, FiniteSets

CONSTANTS MaxRuns, Kinds

VARIABLES
  state,   \* "running", "stopping" on an exception, or how the program ended
  run,     \* the runs begun so far
  busy,    \* whether the last of them is under way
  wants,   \* what it has to save
  stored,  \* what is saved, by kind and run
  errors   \* the exceptions counted

vars == <<state, run, busy, wants, stored, errors>>

\* A run has its metadata from the start, and always saves a capture.
Wants == {w \in SUBSET Kinds : {"metadata", "capture"} \subseteq w}

Init ==
  /\ state = "running" /\ run = 0 /\ ~busy /\ wants \in Wants
  /\ stored = {} /\ errors = 0

\* A run begins.
Begin ==
  /\ state = "running" /\ ~busy /\ run < MaxRuns
  /\ run' = run + 1 /\ busy' = TRUE /\ wants' \in Wants
  /\ stored' = stored \cup {<<"metadata", run + 1>>}
  /\ UNCHANGED <<state, errors>>

\* The run under way saves something.
Save ==
  /\ busy
  /\ \E k \in wants : stored' = stored \cup {<<k, run>>}
  /\ UNCHANGED <<state, run, busy, wants, errors>>

\* It has saved everything and is over.
Succeed ==
  /\ busy /\ wants \X {run} \subseteq stored
  /\ busy' = FALSE
  /\ UNCHANGED <<state, run, wants, stored, errors>>

\* An exception ends it, and is counted.
Fail ==
  /\ busy
  /\ busy' = FALSE /\ errors' = errors + 1
  /\ UNCHANGED <<state, run, wants, stored>>

\* An interrupt, or an exception outside of what a run handles.
Break ==
  /\ state = "running"
  /\ state' = "stopping" /\ busy' = FALSE
  /\ UNCHANGED <<run, wants, stored, errors>>

Stop ==
  /\ state = "stopping"
  /\ state' \in {"aborted", "interrupted"}
  /\ UNCHANGED <<run, busy, wants, stored, errors>>

Finish ==
  /\ state = "running" /\ ~busy /\ run = MaxRuns
  /\ state' = "finished"
  /\ UNCHANGED <<run, busy, wants, stored, errors>>

Next == Begin \/ Save \/ Succeed \/ Fail \/ Break \/ Stop \/ Finish

Spec == Init /\ [][Next]_vars

-----------------------------------------------------------------------------
\* Every run of a program that has not been broken off, save the one under
\* way, has its capture or an exception counted for it.
Accounted ==
  state \in {"running", "finished"} =>
    run <= errors + Cardinality({r \in 1..run : <<"capture", r>> \in stored})
             + (IF busy THEN 1 ELSE 0)

=============================================================================
