------------------------------ MODULE Capture ------------------------------
(***************************************************************************)
(* The raw capture of a run (router/monitorbpf.py): probes in the kernel   *)
(* record each packet that returns from the enqueue or dequeue function of *)
(* the queue under study, on the CPU it happens on; a perf buffer per CPU  *)
(* holds the records until the monitor polls them into its file, one CPU   *)
(* after the other, so the file is not in the order of time.               *)
(*                                                                         *)
(* Timestamps are what the reader of the file makes of them, floating      *)
(* point seconds, whose resolution is about a quarter of a microsecond:    *)
(* several events may share one.                                           *)
(***************************************************************************)
EXTENDS Naturals, Sequences

CONSTANTS
  Cpus,       \* the CPUs of the router
  Skbs,       \* the addresses of packets in its memory, used again and again
  MaxEvents,  \* the number of packets enqueued and dequeued, a bound
  RingSize    \* the records a perf buffer holds

ASSUME BoundsAssumption == MaxEvents \in Nat \ {0} /\ RingSize \in Nat \ {0}

VARIABLES
  clock,     \* the timestamp of the last event
  queue,     \* the packets in the queue, from its head
  freed,     \* when each address was last given back
  events,    \* the number of events so far, which also tells packets apart
  ring,      \* the perf buffer of each CPU
  missed,    \* whether records of a CPU were lost since the last it could write
  dropped,   \* history: whether any record was lost
  file,      \* the records in the file
  monitor    \* "polling", "signalled" or "ended"

kernel == <<clock, queue, freed, events, ring, missed, dropped>>
captureVars == <<kernel, file, monitor>>

\* The end of a file may be a record that is no item: of lost records, of an
\* exception in the monitor, of the entries left in its maps (few or many), or
\* an item that was written in part.
Marks == {"lost", "exception", "few left", "many left", "torn", "torn header"}
Mark(m) == [kind |-> m]

Item(event, misc, packet) ==
  [kind |-> "item", ts |-> clock', event |-> event, misc |-> misc,
   skb |-> packet.skb, packet |-> packet.id]

CaptureInit ==
  /\ clock = 1 /\ queue = <<>> /\ freed = [x \in Skbs |-> 0] /\ events = 0
  /\ ring = [c \in Cpus |-> <<>>] /\ missed = [c \in Cpus |-> FALSE]
  /\ dropped = FALSE
  /\ file = <<>> /\ monitor = "polling"

-----------------------------------------------------------------------------
(* The kernel.                                                             *)

\* The next event: its timestamp may be that of the last one.  What happens
\* after the workload is left out.
Happens ==
  /\ monitor = "polling"
  /\ events < MaxEvents /\ events' = events + 1
  /\ clock' \in {clock, clock + 1}

\* perf_submit: a full buffer loses the record, and the next one that finds
\* room follows a note of that.
Submit(c, item) ==
  IF Len(ring[c]) < RingSize
    THEN /\ ring' = [ring EXCEPT ![c] =
              @ \o (IF missed[c] THEN <<Mark("lost")>> ELSE <<>>) \o <<item>>]
         /\ missed' = [missed EXCEPT ![c] = FALSE]
         /\ UNCHANGED dropped
    ELSE /\ missed' = [missed EXCEPT ![c] = TRUE]
         /\ dropped' = TRUE
         /\ UNCHANGED ring

\* ret_enqueue_skb: the queue took a packet, or dropped it (misc 1).  An address
\* is not used again within the resolution of a timestamp.
Enqueue(c, x) ==
  /\ Happens
  /\ clock' > freed[x]
  /\ \A k \in DOMAIN queue : queue[k].skb # x
  /\ LET packet == [skb |-> x, id |-> events']
     IN  \/ /\ queue' = Append(queue, packet)
            /\ Submit(c, Item("enqueue", 0, packet))
            /\ UNCHANGED freed
         \/ /\ Submit(c, Item("enqueue", 1, packet))
            /\ freed' = [freed EXCEPT ![x] = clock']
            /\ UNCHANGED queue
  /\ UNCHANGED <<file, monitor>>

\* ret_dequeue_skb, with a packet.
Dequeue(c) ==
  /\ Happens
  /\ queue # <<>> /\ queue' = Tail(queue)
  /\ Submit(c, Item("dequeue", 0, Head(queue)))
  /\ freed' = [freed EXCEPT ![Head(queue).skb] = clock']
  /\ UNCHANGED <<file, monitor>>

\* The queue drops a packet it had taken, which no probe sees.
QueueDrops ==
  /\ Happens
  /\ queue # <<>> /\ queue' = Tail(queue)
  /\ freed' = [freed EXCEPT ![Head(queue).skb] = clock']
  /\ UNCHANGED <<ring, missed, dropped, file, monitor>>

-----------------------------------------------------------------------------
(* The monitor.                                                            *)

\* perf_buffer_poll calls tofile or lost with the oldest record of a CPU.
Poll(c) ==
  /\ monitor # "ended"
  /\ ring[c] # <<>>
  /\ file' = Append(file, Head(ring[c]))
  /\ ring' = [ring EXCEPT ![c] = Tail(@)]
  /\ UNCHANGED <<clock, queue, freed, events, missed, dropped, monitor>>

\* qmon.stop
Signal ==
  /\ monitor = "polling" /\ monitor' = "signalled"
  /\ UNCHANGED <<kernel, file>>

\* The monitor ends: orderly, with the record of write_debug; on an exception,
\* with the one of big_exception before; or in a callback or a crash, with
\* nothing more, or half a record.
MonitorEnds ==
  /\ monitor \in {"polling", "signalled"} /\ monitor' = "ended"
  /\ \E m \in {<<>>, <<"torn">>, <<"torn header">>, <<"few left">>, <<"many left">>,
               <<"exception", "few left">>} :
       /\ m # <<>> /\ m[1] \in {"few left", "many left"} => monitor = "signalled"
       /\ file' = file \o [k \in DOMAIN m |-> Mark(m[k])]
  /\ UNCHANGED kernel

CaptureNext ==
  \/ \E c \in Cpus : Dequeue(c) \/ Poll(c) \/ \E x \in Skbs : Enqueue(c, x)
  \/ QueueDrops \/ Signal \/ MonitorEnds

=============================================================================
