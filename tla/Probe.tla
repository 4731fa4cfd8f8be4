------------------------------- MODULE Probe -------------------------------
(***************************************************************************)
(* The probes of the queue monitor (router/monitorbpf.py).  What a queue   *)
(* did is known when its enqueue or dequeue function returns; which queue  *)
(* and packet it was called with, only when it is entered.  The entry      *)
(* probe therefore leaves an entry in a map, under the thread and the CPU  *)
(* it runs on, and the return probe looks it up, submits a record, and     *)
(* removes it.  The four probes are attached one after the other while     *)
(* packets flow.                                                           *)
(*                                                                         *)
(* The kernel: the functions run with softirqs off, so a CPU is in one     *)
(* call at a time and the call stays on it; a queue is locked by one call; *)
(* a thread runs on one CPU, but every CPU has an idle thread, and all of  *)
(* them have pid 0.  What becomes of a record is in module Capture.        *)
(*                                                                         *)
(* A definition that is followed by the one the specification uses, and    *)
(* used by nothing, is the code with a plausible bug.                      *)
(***************************************************************************)
EXTENDS Naturals

CONSTANTS
  Cpus,     \* the CPUs of the router
  Threads,  \* the pids of threads in whose time packets are forwarded
  Idle,     \* pid 0, of the idle thread of every CPU
  Qdiscs,   \* the queues of the kind under study
  Skbs,     \* the packets
  NULL

VARIABLES
  attached,  \* how many of the four probes are attached
  call,      \* the call each CPU is in, or NULL
  entries,   \* currqdisc_en and currqdisc_de
  record,    \* what the last step gave to perf_submit, or NULL
  returned,  \* history: the call that returned in the last step, or NULL
  early      \* history: the keys of calls that began with one probe of the two

vars == <<attached, call, entries, record, returned, early>>

Functions == {"enqueue", "dequeue"}
Keys == Threads \X Cpus

\* Entries of the maps; NULL where there is none.
Entries == [qdisc : Qdiscs, skb : Skbs \cup {NULL}]

\* A call, and whether its return address is the one of a return probe.
Calls ==
  [fn : Functions, pid : Threads, qdisc : Qdiscs, skb : Skbs \cup {NULL},
   probed : BOOLEAN]

\* A call that has returned, and its result.
Returned == [call : Calls, result : {0, 1, NULL} \cup Skbs]

ASSUME NullAssumption == NULL \notin Skbs \cup Entries \cup Calls \cup Returned

\* What a function returns: the status of an enqueueing (1 is a drop), or the
\* packet that was dequeued, if any.
Results(fn) == IF fn = "enqueue" THEN {0, 1} ELSE Skbs \cup {NULL}

Init ==
  /\ attached = 0
  /\ call = [c \in Cpus |-> NULL]
  /\ entries = [fn \in Functions |-> [key \in Keys |-> NULL]]
  /\ record = NULL /\ returned = NULL
  /\ early = [fn \in Functions |-> {}]

\* The probes in the order of attach_kprobe and attach_kretprobe.
PlaceReturnFirst(fn, hook) ==
  CASE fn = "enqueue" /\ hook = "entry"  -> 2
    [] fn = "enqueue" /\ hook = "return" -> 1
    [] fn = "dequeue" /\ hook = "entry"  -> 4
    [] fn = "dequeue" /\ hook = "return" -> 3
Place(fn, hook) ==
  CASE fn = "enqueue" /\ hook = "entry"  -> 1
    [] fn = "enqueue" /\ hook = "return" -> 2
    [] fn = "dequeue" /\ hook = "entry"  -> 3
    [] fn = "dequeue" /\ hook = "return" -> 4
Has(fn, hook) == attached >= Place(fn, hook)

Attach ==
  /\ attached < 4 /\ attached' = attached + 1
  /\ record' = NULL /\ returned' = NULL
  /\ UNCHANGED <<call, entries, early>>

\* struct entry_key
KeyWithoutCpu(pid, c) == <<pid, CHOOSE d \in Cpus : TRUE>>
Key(pid, c) == <<pid, c>>

\* enqueue_skb and dequeue_skb: map.update, which replaces an entry that a call
\* left there.
StoreIfAbsent(fn, key, e) ==
  entries' = [entries EXCEPT ![fn][key] = IF @ = NULL THEN e ELSE @]
StoreUninitialized(fn, key, e) ==
  \E x \in {e.skb, "garbage"} : entries' = [entries EXCEPT ![fn][key] = [e EXCEPT !.skb = x]]
Store(fn, key, e) == entries' = [entries EXCEPT ![fn][key] = e]

\* A CPU enters a function, with the probes that are attached.
Enter(c, fn, pid, q, x) ==
  /\ call[c] = NULL
  /\ \A d \in Cpus : call[d] # NULL => call[d].qdisc # q /\ (pid # Idle => call[d].pid # pid)
  /\ fn = "dequeue" <=> x = NULL
  /\ call' = [call EXCEPT ![c] = [fn |-> fn, pid |-> pid, qdisc |-> q, skb |-> x,
                                  probed |-> Has(fn, "return")]]
  /\ IF Has(fn, "entry") THEN Store(fn, Key(pid, c), [qdisc |-> q, skb |-> x])
                         ELSE UNCHANGED entries
  /\ early' = IF Has(fn, "entry") /\ ~Has(fn, "return")
                THEN [early EXCEPT ![fn] = @ \cup {<<pid, c>>}] ELSE early
  /\ record' = NULL /\ returned' = NULL
  /\ UNCHANGED attached

\* The record of a packet in a queue.
Record(fn, q, x, result) == [event |-> fn, qdisc |-> q, skb |-> x, misc |-> result]

\* ret_enqueue_skb: the packet is that of the entry, misc is the result.
\* ret_dequeue_skb: the packet is the result; without one there is no record.
RecordOf(fn, e, result) ==
  IF fn = "enqueue" THEN Record(fn, e.qdisc, e.skb, result)
  ELSE IF result = NULL THEN NULL
  ELSE Record(fn, e.qdisc, result, 0)

\* The return probe removes the entry, whether or not there was a packet.
RemoveUnlessEmpty(fn, key, result) ==
  entries' = IF fn = "dequeue" /\ result = NULL THEN entries
                                                ELSE [entries EXCEPT ![fn][key] = NULL]
Remove(fn, key, result) == entries' = [entries EXCEPT ![fn][key] = NULL]

\* A call returns, through its return probe if it has one, which does nothing
\* when there is no entry.
Return(c, result) ==
  /\ call[c] # NULL
  /\ LET fn == call[c].fn
         key == Key(call[c].pid, c)
         e == entries[fn][key]
     IN  /\ result \in Results(fn)
         /\ IF call[c].probed /\ e # NULL
              THEN record' = RecordOf(fn, e, result) /\ Remove(fn, key, result)
              ELSE record' = NULL /\ UNCHANGED entries
         /\ returned' = [call |-> call[c], result |-> result]
  /\ call' = [call EXCEPT ![c] = NULL]
  /\ UNCHANGED <<attached, early>>

Next ==
  \/ Attach
  \/ \E c \in Cpus, fn \in Functions, pid \in Threads, q \in Qdiscs, x \in Skbs \cup {NULL} :
       Enter(c, fn, pid, q, x)
  \/ \E c \in Cpus, result \in {0, 1, NULL} \cup Skbs : Return(c, result)

Spec == Init /\ [][Next]_vars

-----------------------------------------------------------------------------
(* Properties.                                                             *)

TypeOK ==
  /\ attached \in 0..4
  /\ call \in [Cpus -> Calls \cup {NULL}]
  /\ entries \in [Functions -> [Keys -> Entries \cup {NULL}]]
  /\ returned \in Returned \cup {NULL}
  /\ early \in [Functions -> SUBSET Keys]

\* What the monitor says about the queue: a call that began with its return
\* probe attached gives one record, of its own queue, packet and result, and
\* none if it dequeued nothing, whatever calls other CPUs are in and whatever
\* earlier calls left in the maps; other calls give none.
RecordsAreTrue ==
  IF returned = NULL \/ ~returned.call.probed THEN record = NULL
  ELSE record = LET r == returned.call
                IN  RecordOf(r.fn, [qdisc |-> r.qdisc, skb |-> r.skb], returned.result)

\* What write_debug counts when the monitor ends, and what may cut a conversion
\* (qmon_serializer.py:123): an entry is that of a call in flight which will
\* remove it, or of a call that began in the moment between the attachments of
\* its two probes.
InFlight(fn, key) ==
  LET now == call[key[2]]
  IN  now # NULL /\ now.fn = fn /\ now.pid = key[1] /\ now.probed
LeftIsEarly ==
  \A fn \in Functions : \A key \in Keys :
    entries[fn][key] # NULL => key \in early[fn] \/ InFlight(fn, key)

=============================================================================
