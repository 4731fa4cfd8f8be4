----------------------------- MODULE Conversion -----------------------------
(***************************************************************************)
(* The conversion of a raw capture (router/preprocessing): get_qmon_items  *)
(* reads the file, heapsorter puts its items in order within a window,     *)
(* tshark decodes them, and recordDelays matches the enqueueing and the    *)
(* dequeueing of packets.  process.sh starts it when the monitor has been  *)
(* signalled, which need not have ended by then.                           *)
(*                                                                         *)
(* A definition that is followed by the one the specification uses, and    *)
(* used by nothing, is the code with a plausible bug.                      *)
(***************************************************************************)
EXTENDS Capture, FiniteSets

CONSTANTS
  Window,    \* the items heapsorter holds (10000 in the code)
  MaxDelay,  \* the longest delay recordDelays accepts (4 seconds)
  MaxOther   \* the packets that are neither TCP nor UDP, a bound

ASSUME WindowAssumption == Window \in Nat \ {0} /\ MaxDelay \in Nat /\ MaxOther \in Nat

VARIABLES
  phase,      \* where convert is
  pos,        \* the number of records read; an item is named by its position
  heap,       \* h: the items in the heap
  ts,         \* ts: the timestamp of the last item that left it
  deq,        \* deq: the items that left it, in this order
  swallowed,  \* whether the except clause of convert was taken
  packets,    \* packets: the items of deq, or 0 for one that is not kept
  k,          \* the number of them recordDelays has seen
  skb_dict,   \* skb_dict: the packet enqueued last for an address, or 0
  match       \* the packets that were matched

convertVars == <<phase, pos, heap, ts, deq, swallowed, packets, k, skb_dict, match>>
sorter == <<heap, ts, deq>>
pairing == <<packets, k, skb_dict, match>>
vars == <<captureVars, convertVars>>

Init ==
  /\ CaptureInit
  /\ phase = "waiting" /\ pos = 0 /\ heap = {} /\ ts = 0 /\ deq = <<>>
  /\ swallowed = FALSE
  /\ packets = <<>> /\ k = 0 /\ skb_dict = [x \in Skbs |-> 0] /\ match = {}

\* The key of the heap: the timestamp, enqueueing first, and the counter.
BeforeByTime(p, q) == file[p].ts < file[q].ts \/ (file[p].ts = file[q].ts /\ p < q)
Before(p, q) ==
  LET Dequeued(r) == IF file[r].event = "dequeue" THEN 1 ELSE 0
  IN  \/ file[p].ts < file[q].ts
      \/ file[p].ts = file[q].ts /\ Dequeued(p) < Dequeued(q)
      \/ file[p].ts = file[q].ts /\ Dequeued(p) = Dequeued(q) /\ p < q

IsLeast(p, h) == p \in h /\ \A q \in h \ {p} : Before(p, q)

-----------------------------------------------------------------------------
(* convert.                                                                *)

Start ==
  /\ monitor # "polling" /\ phase = "waiting"
  /\ phase' = "reading"
  /\ UNCHANGED <<captureVars, pos, sorter, swallowed, pairing>>

\* except: pass
Swallow == phase' = "parsing" /\ swallowed' = TRUE

\* The loop over the sorted items gets one from h: it may not be older than
\* the last.
Yield(h) ==
  \E p \in h :
    /\ IsLeast(p, h)
    /\ heap' = h \ {p}
    /\ IF file[p].ts >= ts
         THEN /\ deq' = Append(deq, p) /\ ts' = file[p].ts
              /\ UNCHANGED <<phase, swallowed>>
         ELSE Swallow /\ UNCHANGED <<deq, ts>>

\* heapsorter pushes an item; once the heap is full, another one leaves it.
HoldOneMore ==
  /\ phase = "reading" /\ pos < Len(file) /\ file[pos + 1].kind = "item"
  /\ pos' = pos + 1
  /\ IF Cardinality(heap) <= Window
       THEN heap' = heap \cup {pos + 1} /\ UNCHANGED <<phase, ts, deq, swallowed>>
       ELSE Yield(heap \cup {pos + 1})
  /\ UNCHANGED <<captureVars, pairing>>
ReadItem ==
  /\ phase = "reading" /\ pos < Len(file) /\ file[pos + 1].kind = "item"
  /\ pos' = pos + 1
  /\ IF Cardinality(heap) < Window
       THEN heap' = heap \cup {pos + 1} /\ UNCHANGED <<phase, ts, deq, swallowed>>
       ELSE Yield(heap \cup {pos + 1})
  /\ UNCHANGED <<captureVars, pairing>>

\* A record that is no item: the short list of what was left in the maps passes,
\* a header that is cut off is the end, the others make get_qmon_items fail.
SkipMark ==
  /\ phase = "reading" /\ pos < Len(file) /\ file[pos + 1].kind # "item"
  /\ pos' = pos + 1
  /\ UNCHANGED <<captureVars, phase, sorter, swallowed, pairing>>
ReadMark ==
  /\ phase = "reading" /\ pos < Len(file) /\ file[pos + 1].kind # "item"
  /\ IF file[pos + 1].kind = "few left"
       THEN pos' = pos + 1 /\ UNCHANGED <<phase, swallowed>>
       ELSE file[pos + 1].kind # "torn header" /\ Swallow /\ UNCHANGED pos
  /\ UNCHANGED <<captureVars, sorter, pairing>>

\* The file is at its end, although the monitor may yet write to it.
AtEnd == \A p \in DOMAIN file : p > pos => file[p].kind = "torn header"
NoDrain ==
  /\ phase = "reading" /\ AtEnd
  /\ phase' = "parsing"
  /\ UNCHANGED <<captureVars, pos, sorter, swallowed, pairing>>
EndOfFile ==
  /\ phase = "reading" /\ AtEnd
  /\ phase' = "draining"
  /\ UNCHANGED <<captureVars, pos, sorter, swallowed, pairing>>

\* The items that are still in the heap leave it.
Drain ==
  /\ phase = "draining"
  /\ \/ heap # {} /\ Yield(heap)
     \/ heap = {} /\ phase' = "parsing" /\ UNCHANGED <<sorter, swallowed>>
  /\ UNCHANGED <<captureVars, pos, pairing>>

\* The items that left the heap.
Left == {deq[j] : j \in DOMAIN deq}

\* pcapParseWithIntegrityCheck: tshark gives a row for each item, in their order,
\* and each row takes its item off deq.  A row that is neither TCP nor UDP is
\* None; of a None row and of a queue without a handle nothing is kept.  Both can
\* be told from the packet alone, and any MaxOther packets may be of that kind.
Parse ==
  /\ phase = "parsing" /\ phase' = "pairing"
  /\ \E other \in SUBSET {file[p].packet : p \in Left} :
       /\ Cardinality(other) <= MaxOther
       /\ packets' = [j \in DOMAIN deq |-> IF file[deq[j]].packet \in other THEN 0 ELSE deq[j]]
  /\ UNCHANGED <<captureVars, pos, sorter, swallowed, k, skb_dict, match>>

\* tshark fails, or an assertion on what it says of a packet does.
ParseFails ==
  /\ phase = "parsing" /\ phase' = "failed"
  /\ UNCHANGED <<captureVars, pos, sorter, swallowed, pairing>>

Kept(j) == packets[j] # 0
Packet(j) == file[packets[j]]

\* Nothing was kept of the next item.
PairNothing ==
  /\ phase = "pairing" /\ k < Len(packets) /\ ~Kept(k + 1)
  /\ k' = k + 1
  /\ UNCHANGED <<captureVars, phase, pos, sorter, swallowed, packets, skb_dict, match>>

\* recordDelays: the next packet.
PairEnqueued ==
  /\ phase = "pairing" /\ k < Len(packets) /\ Kept(k + 1)
  /\ Packet(k + 1).event = "enqueue"
  /\ skb_dict' = [skb_dict EXCEPT ![Packet(k + 1).skb] =
                    IF Packet(k + 1).misc = 1 THEN 0 ELSE k + 1]
  /\ k' = k + 1
  /\ UNCHANGED <<captureVars, phase, pos, sorter, swallowed, packets, match>>

\* del skb_dict[key]
KeepEntry(x) == UNCHANGED skb_dict
DeleteEntry(x) == skb_dict' = [skb_dict EXCEPT ![x] = 0]

\* A match fails if the delay is too long, and may fail if it is one of two
\* packets, as their addresses or handles are then compared.
PairDequeued ==
  /\ phase = "pairing" /\ k < Len(packets) /\ Kept(k + 1)
  /\ Packet(k + 1).event = "dequeue"
  /\ LET mate == skb_dict[Packet(k + 1).skb]
     IN  \/ /\ mate = 0
            /\ UNCHANGED <<phase, skb_dict, match>>
         \/ /\ mate # 0 /\ Packet(k + 1).ts - Packet(mate).ts <= MaxDelay
            /\ DeleteEntry(Packet(k + 1).skb)
            /\ match' = match \cup {<<mate, k + 1>>}
            /\ UNCHANGED phase
         \/ /\ mate # 0
            /\ \/ Packet(k + 1).ts - Packet(mate).ts > MaxDelay
               \/ Packet(k + 1).packet # Packet(mate).packet
            /\ phase' = "failed"
            /\ UNCHANGED <<skb_dict, match>>
  /\ k' = k + 1
  /\ UNCHANGED <<captureVars, pos, sorter, swallowed, packets>>

Return ==
  /\ phase = "pairing" /\ k = Len(packets)
  /\ phase' = "returned"
  /\ UNCHANGED <<captureVars, pos, sorter, swallowed, pairing>>

Convert ==
  \/ Start \/ ReadItem \/ ReadMark \/ EndOfFile \/ Drain
  \/ Parse \/ ParseFails \/ PairNothing \/ PairEnqueued \/ PairDequeued \/ Return

\* What the monitor writes when the file has been read makes no difference.
Next ==
  \/ /\ phase \in {"waiting", "reading"}
     /\ CaptureNext
     /\ UNCHANGED convertVars
  \/ Convert

Spec == Init /\ [][Next]_vars

-----------------------------------------------------------------------------
(* Properties.                                                             *)

Items == {p \in 1..Len(file) : file[p].kind = "item"}

TypeOK ==
  /\ clock \in Nat /\ events \in 0..MaxEvents
  /\ monitor \in {"polling", "signalled", "ended"}
  /\ phase \in {"waiting", "reading", "draining", "parsing", "pairing", "returned", "failed"}
  /\ pos \in 0..Len(file)
  /\ heap \subseteq Items /\ Cardinality(heap) <= Window
  /\ Left \subseteq Items
  /\ ts \in Nat
  /\ swallowed \in BOOLEAN
  /\ k \in 0..Len(packets)
  /\ skb_dict \in [Skbs -> 0..Len(packets)]
  /\ match \subseteq (1..Len(packets)) \X (1..Len(packets))

\* What the comment at parse_raw.py:118-120 relies on: few items stand behind
\* ones that are not older.
SlightlyUnsorted ==
  \A p \in Items :
    Cardinality({q \in Items : q < p /\ file[q].ts >= file[p].ts}) <= Window

\* If the file is slightly unsorted and well-formed, the conversion keeps every
\* item it read, in the order of time and each once; and so it does in any case
\* in which it swallowed no exception.
Complete ==
  LET WellFormed == \A p \in 1..Len(file) : file[p].kind \in {"item", "few left", "torn header"}
  IN  phase = "returned" /\ (swallowed => SlightlyUnsorted /\ WellFormed) =>
        /\ Left = {p \in Items : p <= pos}
        /\ \A i, j \in DOMAIN deq :
             i < j => deq[i] # deq[j] /\ file[deq[i]].ts <= file[deq[j]].ts

\* The records of events that the converted capture lacks: read too late or
\* not at all, or in the heap when an exception was swallowed.
Absent ==
  (UNION {{ring[c][n] : n \in DOMAIN ring[c]} : c \in Cpus})
    \cup {file[p] : p \in 1..Len(file) \ Left}

\* In a slightly unsorted file of which the kernel lost no record: a packet that
\* was dequeued is matched with its own enqueueing and with no other packet's,
\* unless a record that is not younger is absent.  This holds however addresses
\* are used again and the queue drops packets, whichever CPU was polled first,
\* whatever is left out as not TCP nor UDP, and wherever an exception cut the
\* capture.
DelaysAreTrue ==
  ~dropped /\ SlightlyUnsorted /\ phase # "failed" =>
    \A j \in 1..k :
      /\ Kept(j) /\ Packet(j).event = "dequeue"
      /\ \A r \in Absent : r.kind = "item" => r.ts > Packet(j).ts
      => {i \in 1..k : <<i, j>> \in match} =
           {i \in DOMAIN packets :
              Kept(i) /\ Packet(i).event = "enqueue" /\ Packet(i).packet = Packet(j).packet}

\* Nothing that stands in the file behind a record of lost ones is kept.
NothingAfterLoss ==
  \A p \in Left : \A q \in 1..p : file[q].kind # "lost"

\* The conversion as the evaluation relies on it (module Delays): the file is put
\* in the order of time at once, cut short or not, and then each dequeueing is
\* measured from the last enqueueing of its address, whatever records were lost.
Promise ==
  INSTANCE Delays WITH
    state <- CASE phase \in {"waiting", "reading", "draining"} -> "recording"
               [] phase \in {"parsing", "pairing"} -> "sorted"
               [] OTHER -> phase,
    order <- IF phase \in {"waiting", "reading", "draining"} THEN <<>> ELSE deq,
    delays <- IF phase = "returned" THEN match ELSE {}

ImplementsDelays == Promise!Spec

\* What qmon_serializer.py:115-117 asserts: a capture with a record of lost
\* packets is not converted.
LossIsNoticed ==
  phase = "returned" => \A p \in Left \cup {pos + 1} :
    p \in DOMAIN file => file[p].kind # "lost"

=============================================================================
