--------------------------- MODULE Probe_proofs ---------------------------
(***************************************************************************)
(* Theorems about the probes of the queue monitor, for any CPUs, threads,  *)
(* queues and packets.                                                     *)
(***************************************************************************)
EXTENDS Probe, TLAPS

\* A call that returns through a probe finds its own entry in the map.
OwnEntry ==
  \A c \in Cpus : call[c] # NULL /\ call[c].probed =>
    entries[call[c].fn][Key(call[c].pid, c)] = [qdisc |-> call[c].qdisc, skb |-> call[c].skb]

ProbeInv == TypeOK /\ OwnEntry /\ RecordsAreTrue /\ LeftIsEarly

\* The entry probe of a function is attached before its return probe
\* (monitorbpf.py:295-298).
LEMMA EntryFirst ==
  ASSUME NEW fn \in Functions, attached \in 0..4, Has(fn, "return")
  PROVE  Has(fn, "entry")
BY DEF Functions, Has, Place

LEMMA InitProbe == Init => ProbeInv
BY DEF Init, ProbeInv, TypeOK, OwnEntry, RecordsAreTrue, LeftIsEarly, Functions

LEMMA AttachStep == ProbeInv /\ Attach => ProbeInv'
BY DEF ProbeInv, TypeOK, OwnEntry, RecordsAreTrue, LeftIsEarly, InFlight, Attach

LEMMA EnterStep ==
  ASSUME ProbeInv, NEW c \in Cpus, NEW fn \in Functions, NEW pid \in Threads,
         NEW q \in Qdiscs, NEW x \in Skbs \cup {NULL}, Enter(c, fn, pid, q, x)
  PROVE  ProbeInv'
<1> DEFINE key == Key(pid, c)
           e == [qdisc |-> q, skb |-> x]
           new == [fn |-> fn, pid |-> pid, qdisc |-> q, skb |-> x, probed |-> Has(fn, "return")]
<1>1. /\ key \in Keys /\ e \in Entries /\ new \in Calls
      /\ call' = [call EXCEPT ![c] = new]
      /\ UNCHANGED attached
  BY DEF Enter, Key, Keys, Entries, Calls, Has
<1>2. \/ Has(fn, "entry") /\ entries' = [entries EXCEPT ![fn][key] = e]
      \/ ~Has(fn, "entry") /\ ~Has(fn, "return") /\ UNCHANGED entries
  BY EntryFirst DEF Enter, Store, ProbeInv, TypeOK
<1>3. \/ Has(fn, "entry") /\ ~Has(fn, "return") /\ early' = [early EXCEPT ![fn] = @ \cup {key}]
      \/ ~(Has(fn, "entry") /\ ~Has(fn, "return")) /\ UNCHANGED early
  BY DEF Enter, Key
<1> USE NullAssumption
<1>4. TypeOK'
  BY <1>1, <1>2, <1>3 DEF ProbeInv, TypeOK, Enter
<1>5. OwnEntry'
  <2> SUFFICES ASSUME NEW d \in Cpus, call'[d] # NULL, call'[d].probed
               PROVE  entries'[call'[d].fn][Key(call'[d].pid, d)]
                        = [qdisc |-> call'[d].qdisc, skb |-> call'[d].skb]
    BY DEF OwnEntry, Key
  <2>1. CASE d = c
    BY <2>1, <1>1, <1>2, EntryFirst DEF ProbeInv, TypeOK
  <2>2. CASE d # c
    <3>1. call'[d] = call[d] /\ call[d].fn \in Functions /\ Key(call[d].pid, d) \in Keys \ {key}
      BY <2>2, <1>1 DEF ProbeInv, TypeOK, Calls, Key, Keys
    <3>2. entries'[call[d].fn][Key(call[d].pid, d)] = entries[call[d].fn][Key(call[d].pid, d)]
      BY <3>1, <1>1, <1>2 DEF ProbeInv, TypeOK
    <3> QED BY <3>1, <3>2 DEF ProbeInv, OwnEntry
  <2> QED BY <2>1, <2>2
<1>6. RecordsAreTrue'
  BY DEF Enter, RecordsAreTrue
<1>7. LeftIsEarly'
  <2> SUFFICES ASSUME NEW f \in Functions, NEW kk \in Keys, entries'[f][kk] # NULL
               PROVE  kk \in early'[f] \/ InFlight(f, kk)'
    BY DEF LeftIsEarly
  <2>1. early[f] \subseteq early'[f]
    BY <1>3 DEF ProbeInv, TypeOK
  <2>2. CASE f = fn /\ kk = key
    <3>1. kk[1] = pid /\ kk[2] = c /\ call[c] = NULL /\ call'[c] = new /\ new # NULL
      BY <2>2, <1>1 DEF Enter, Key, ProbeInv, TypeOK
    <3>2. CASE Has(fn, "return")
      BY <2>2, <3>1, <3>2 DEF InFlight
    <3>3. CASE Has(fn, "entry") /\ ~Has(fn, "return")
      BY <2>2, <3>3, <1>1, <1>3 DEF ProbeInv, TypeOK
    <3>4. CASE ~Has(fn, "entry")
      <4>1. entries[f][kk] # NULL /\ ~InFlight(f, kk)
        BY <3>1, <3>4, <1>2 DEF InFlight
      <4> QED BY <2>1, <4>1 DEF ProbeInv, LeftIsEarly
    <3> QED BY <3>2, <3>3, <3>4
  <2>3. CASE ~(f = fn /\ kk = key)
    <3>1. entries'[f][kk] = entries[f][kk]
      BY <2>3, <1>1, <1>2 DEF ProbeInv, TypeOK
    <3>2. kk[2] = c => call[kk[2]] = NULL
      BY DEF Enter
    <3>3. kk[2] \in Cpus
      BY DEF Keys
    <3> QED BY <2>1, <3>1, <3>2, <3>3, <1>1 DEF ProbeInv, LeftIsEarly, TypeOK, InFlight
  <2> QED BY <2>2, <2>3
<1> QED BY <1>4, <1>5, <1>6, <1>7 DEF ProbeInv

LEMMA ReturnStep ==
  ASSUME ProbeInv, NEW c \in Cpus, NEW result \in {0, 1, NULL} \cup Skbs, Return(c, result)
  PROVE  ProbeInv'
<1> DEFINE old == call[c]
           key == Key(old.pid, c)
<1> USE NullAssumption
<1>1. /\ old # NULL /\ old \in Calls /\ old.fn \in Functions /\ key \in Keys
      /\ call' = [call EXCEPT ![c] = NULL]
      /\ returned' = [call |-> old, result |-> result] /\ returned' \in Returned
      /\ UNCHANGED <<attached, early>>
  BY DEF Return, ProbeInv, TypeOK, Calls, Key, Keys, Returned
<1>2. CASE old.probed
  <2>1. /\ entries[old.fn][key] = [qdisc |-> old.qdisc, skb |-> old.skb]
        /\ entries[old.fn][key] # NULL
    BY <1>1, <1>2 DEF ProbeInv, OwnEntry, Calls, Entries
  <2>2. /\ record' = RecordOf(old.fn, entries[old.fn][key], result)
        /\ entries' = [entries EXCEPT ![old.fn][key] = NULL]
    BY <1>2, <2>1 DEF Return, Remove
  <2>3. RecordsAreTrue'
    BY <1>1, <1>2, <2>1, <2>2 DEF RecordsAreTrue, RecordOf, Record
  <2> QED
  <3>1. TypeOK'
    BY <1>1, <2>2 DEF ProbeInv, TypeOK
  <3>2. OwnEntry'
    <4> SUFFICES ASSUME NEW d \in Cpus, call'[d] # NULL, call'[d].probed
                 PROVE  entries'[call'[d].fn][Key(call'[d].pid, d)]
                          = [qdisc |-> call'[d].qdisc, skb |-> call'[d].skb]
      BY DEF OwnEntry, Key
    <4>1. d # c /\ call'[d] = call[d]
      BY <1>1 DEF ProbeInv, TypeOK
    <4>2. call[d].fn \in Functions /\ Key(call[d].pid, d) \in Keys \ {key}
      BY <4>1 DEF ProbeInv, TypeOK, Calls, Key, Keys
    <4>3. entries'[call[d].fn][Key(call[d].pid, d)] = entries[call[d].fn][Key(call[d].pid, d)]
      BY <4>2, <1>1, <2>2 DEF ProbeInv, TypeOK
    <4> QED BY <4>1, <4>3 DEF ProbeInv, OwnEntry
  <3>3. LeftIsEarly'
    <4> SUFFICES ASSUME NEW f \in Functions, NEW kk \in Keys, entries'[f][kk] # NULL
                 PROVE  kk \in early'[f] \/ InFlight(f, kk)'
      BY DEF LeftIsEarly
    <4>1. ~(f = old.fn /\ kk = key) /\ entries[f][kk] # NULL
      BY <1>1, <2>2 DEF ProbeInv, TypeOK
    <4>2. kk[2] = c => ~(old.fn = f /\ old.pid = kk[1])
      BY <4>1 DEF Key, Keys
    <4>3. kk[2] \in Cpus
      BY DEF Keys
    <4> QED BY <1>1, <4>1, <4>2, <4>3 DEF ProbeInv, LeftIsEarly, TypeOK, InFlight
  <3> QED BY <2>3, <3>1, <3>2, <3>3 DEF ProbeInv
<1>3. CASE ~old.probed
  <2>1. record' = NULL /\ UNCHANGED entries
    BY <1>3 DEF Return
  <2>2. TypeOK'
    BY <1>1, <2>1 DEF ProbeInv, TypeOK
  <2>3. OwnEntry'
    BY <1>1, <2>1 DEF ProbeInv, TypeOK, OwnEntry, Key
  <2>4. RecordsAreTrue'
    BY <1>1, <1>3, <2>1 DEF RecordsAreTrue
  <2>5. LeftIsEarly'
    BY <1>1, <1>3, <2>1 DEF ProbeInv, TypeOK, LeftIsEarly, InFlight, Keys
  <2> QED BY <2>2, <2>3, <2>4, <2>5 DEF ProbeInv
<1> QED BY <1>2, <1>3

LEMMA ProbeInvariant == Spec => []ProbeInv
<1>1. ProbeInv /\ [Next]_vars => ProbeInv'
  <2> SUFFICES ASSUME ProbeInv, [Next]_vars PROVE ProbeInv'
    OBVIOUS
  <2>1. CASE Attach
    BY <2>1, AttachStep
  <2>2. ASSUME NEW c \in Cpus, NEW fn \in Functions, NEW pid \in Threads,
               NEW q \in Qdiscs, NEW x \in Skbs \cup {NULL}, Enter(c, fn, pid, q, x)
        PROVE  ProbeInv'
    BY <2>2, EnterStep
  <2>3. ASSUME NEW c \in Cpus, NEW result \in {0, 1, NULL} \cup Skbs, Return(c, result)
        PROVE  ProbeInv'
    BY <2>3, ReturnStep
  <2>4. CASE UNCHANGED vars
    BY <2>4 DEF vars, ProbeInv, TypeOK, OwnEntry, RecordsAreTrue, LeftIsEarly, InFlight
  <2> QED BY <2>1, <2>2, <2>3, <2>4 DEF Next
<1> QED BY InitProbe, <1>1, PTL DEF Spec

\* Whatever calls the CPUs are in, and whatever the maps hold from the moment of
\* the attachment: each call gives its own record (monitorbpf.py:233-288).
THEOREM EveryRecordIsTrue == Spec => []RecordsAreTrue
BY ProbeInvariant, PTL DEF ProbeInv

\* No call that both probes saw leaves an entry (monitorbpf.py:243-249,
\* 258, 285).
THEOREM OnlyEarlyCallsLeaveEntries == Spec => []LeftIsEarly
BY ProbeInvariant, PTL DEF ProbeInv

\* The maps hold entries of calls and nothing else, and a CPU is in one call at a
\* time (monitorbpf.py:195-231).
THEOREM ProbeTypeCorrect == Spec => []TypeOK
BY ProbeInvariant, PTL DEF ProbeInv

=============================================================================
