------------------------- MODULE Conversion_proofs -------------------------
(* Theorems about Conversion, for every number of CPUs, addresses and        *)
(* events, every size of the perf buffers and of the heap.                   *)
EXTENDS Conversion, FiniteSetTheorems, SequenceTheorems, TLAPS

-----------------------------------------------------------------------------
(* The types of the capture.                                                 *)

ItemRecord ==
  [kind : {"item"}, ts : Nat, event : {"enqueue", "dequeue"}, misc : {0, 1}, skb : Skbs, packet : Nat]
Record == ItemRecord \cup [kind : Marks]
QueuedPacket == [skb : Skbs, id : Nat]

KernelType ==
  /\ clock \in Nat /\ events \in 0..MaxEvents
  /\ queue \in Seq(QueuedPacket)
  /\ freed \in [Skbs -> Nat]
  /\ ring \in [Cpus -> Seq(Record)]
  /\ missed \in [Cpus -> BOOLEAN]
  /\ dropped \in BOOLEAN

CaptureType ==
  /\ KernelType
  /\ file \in Seq(Record)
  /\ monitor \in {"polling", "signalled", "ended"}

LEMMA RecordKinds ==
  /\ \A r \in Record : r.kind = "item" <=> r \in ItemRecord
  /\ \A m \in Marks : Mark(m) \in Record /\ Mark(m).kind = m /\ m # "item"
BY DEF Record, ItemRecord, Marks, Mark

LEMMA SubmitType ==
  ASSUME KernelType, NEW c \in Cpus, NEW item \in ItemRecord, Submit(c, item)
  PROVE  (ring \in [Cpus -> Seq(Record)] /\ missed \in [Cpus -> BOOLEAN] /\ dropped \in BOOLEAN)'
<1>1. CASE Len(ring[c]) < RingSize
  <2> DEFINE note == IF missed[c] THEN <<Mark("lost")>> ELSE <<>>
  <2>1. Mark("lost") \in Record /\ item \in Record
    BY RecordKinds DEF Marks, Record
  <2>2. note \in Seq(Record) /\ <<item>> \in Seq(Record) /\ ring[c] \in Seq(Record)
    BY <2>1 DEF KernelType
  <2>3. ring[c] \o note \in Seq(Record)
    BY <2>2
  <2>4. (ring[c] \o note) \o <<item>> \in Seq(Record)
    BY <2>2, <2>3
  <2>5. /\ ring' = [ring EXCEPT ![c] = (ring[c] \o note) \o <<item>>]
        /\ missed' = [missed EXCEPT ![c] = FALSE] /\ dropped' = dropped
    BY <1>1 DEF Submit
  <2> HIDE DEF note
  <2> QED
    BY <2>4, <2>5 DEF KernelType
<1>2. CASE ~(Len(ring[c]) < RingSize)
  BY <1>2 DEF Submit, KernelType
<1> QED
  BY <1>1, <1>2

LEMMA SameInterval ==
  ASSUME NEW a \in Nat, NEW b \in Nat, 1..a = 1..b
  PROVE  a = b
<1>1. \A i \in Nat : i \in 1..a <=> i \in 1..b
  OBVIOUS
<1>2. a >= 1 => a <= b
  BY <1>1
<1>3. b >= 1 => b <= a
  BY <1>1
<1> QED
  BY <1>2, <1>3

LEMMA ShortIntervals ==
  (\A j \in 1..1 : j = 1) /\ (\A j \in 1..2 : j = 1 \/ j = 2)
OBVIOUS

LEMMA ShortSequences ==
  ASSUME NEW S, NEW x \in S, NEW y \in S
  PROVE  /\ <<x>> \in Seq(S) /\ Len(<<x>>) = 1 /\ <<x>>[1] = x
         /\ <<x, y>> \in Seq(S) /\ Len(<<x, y>>) = 2 /\ <<x, y>>[1] = x /\ <<x, y>>[2] = y
OBVIOUS

LEMMA MarkRecords ==
  ASSUME NEW m \in Seq(Marks), NEW e, e = [j \in DOMAIN m |-> Mark(m[j])]
  PROVE  e \in Seq(Record) /\ Len(e) = Len(m) /\ \A j \in 1..Len(e) : e[j].kind = m[j] /\ m[j] \in Marks
<1>1. Len(m) \in Nat /\ DOMAIN m = 1..Len(m) /\ \A j \in 1..Len(m) : m[j] \in Marks
  BY LenProperties, ElementOfSeq
<1>2. e \in [1..Len(m) -> Record] /\ \A j \in 1..Len(m) : e[j].kind = m[j]
  BY <1>1, RecordKinds
<1>3. e \in Seq(Record)
  <2>1. Seq(Record) = UNION {[1..n -> Record] : n \in Nat}
    BY SeqDef
  <2> QED
    BY ONLY <1>1, <1>2, <2>1
<1>4. Len(e) \in Nat /\ DOMAIN e = 1..Len(e) /\ DOMAIN e = 1..Len(m)
  BY <1>2, <1>3, LenProperties
<1>5. Len(e) = Len(m)
  BY ONLY <1>1, <1>4, SameInterval
<1> QED
  BY <1>1, <1>2, <1>3, <1>5

\* The records that the monitor may end its file with.
LEMMA EndType ==
  ASSUME NEW m \in {<<>>, <<"torn">>, <<"torn header">>, <<"few left">>, <<"many left">>,
                    <<"exception", "few left">>}
  PROVE  m \in Seq(Marks) /\ \A j \in 1..Len(m) : m[j] # "lost"
<1>1. CASE m = <<>>
  BY <1>1
<1>2. ASSUME NEW x \in {"torn", "torn header", "few left", "many left"}, m = <<x>>
      PROVE  m \in Seq(Marks) /\ \A j \in 1..Len(m) : m[j] # "lost"
  <2>1. x \in Marks /\ x # "lost"
    BY DEF Marks
  <2>2. m \in Seq(Marks) /\ Len(m) = 1 /\ m[1] = x
    BY <1>2, <2>1, ShortSequences
  <2> QED
    BY <2>1, <2>2, ShortIntervals
<1>3. CASE m = <<"exception", "few left">>
  <2>1. "exception" \in Marks /\ "few left" \in Marks /\ "exception" # "lost" /\ "few left" # "lost"
    BY DEF Marks
  <2>2. m \in Seq(Marks) /\ Len(m) = 2 /\ m[1] = "exception" /\ m[2] = "few left"
    BY <1>3, <2>1, ShortSequences
  <2> QED
    BY <2>1, <2>2, ShortIntervals
<1> QED
  BY <1>1, <1>2, <1>3

LEMMA CaptureTypeStep ==
  ASSUME CaptureType, CaptureNext
  PROVE  CaptureType'
<1>1. ASSUME NEW c \in Cpus, NEW x \in Skbs, Enqueue(c, x)
      PROVE  CaptureType'
  <2> DEFINE packet == [skb |-> x, id |-> events']
  <2>1. clock' \in Nat /\ events' \in 0..MaxEvents /\ events' \in Nat
    BY <1>1, BoundsAssumption DEF Enqueue, Happens, CaptureType, KernelType
  <2>2. packet \in QueuedPacket
    BY <2>1 DEF QueuedPacket
  <2>3. PICK misc \in {0, 1} : Submit(c, Item("enqueue", misc, packet))
    BY <1>1 DEF Enqueue
  <2>4. Item("enqueue", misc, packet) \in ItemRecord
    BY <2>1, <2>2 DEF Item, ItemRecord, QueuedPacket
  <2>5. (ring \in [Cpus -> Seq(Record)] /\ missed \in [Cpus -> BOOLEAN] /\ dropped \in BOOLEAN)'
    BY <2>3, <2>4, SubmitType DEF CaptureType
  <2>6. queue' \in Seq(QueuedPacket)
    <3>1. queue \in Seq(QueuedPacket) /\ queue' \in {queue, Append(queue, packet)}
      BY <1>1 DEF Enqueue, CaptureType, KernelType
    <3> HIDE DEF packet
    <3> QED
      BY <2>2, <3>1, AppendProperties
  <2>7. freed' \in [Skbs -> Nat]
    BY <1>1, <2>1 DEF Enqueue, CaptureType, KernelType
  <2>8. UNCHANGED <<file, monitor>>
    BY <1>1 DEF Enqueue
  <2> QED
    BY <2>1, <2>5, <2>6, <2>7, <2>8 DEF CaptureType, KernelType
<1>2. ASSUME NEW c \in Cpus, Dequeue(c)
      PROVE  CaptureType'
  <2>1. clock' \in Nat /\ events' \in 0..MaxEvents
    BY <1>2, BoundsAssumption DEF Dequeue, Happens, CaptureType, KernelType
  <2>2. Head(queue) \in QueuedPacket /\ queue' \in Seq(QueuedPacket)
    BY <1>2, HeadTailProperties DEF Dequeue, CaptureType, KernelType
  <2>3. Item("dequeue", 0, Head(queue)) \in ItemRecord
    BY <2>1, <2>2 DEF Item, ItemRecord, QueuedPacket
  <2>4. (ring \in [Cpus -> Seq(Record)] /\ missed \in [Cpus -> BOOLEAN] /\ dropped \in BOOLEAN)'
    BY <1>2, <2>3, SubmitType DEF Dequeue, CaptureType
  <2>5. freed' \in [Skbs -> Nat]
    BY <1>2, <2>1, <2>2 DEF Dequeue, CaptureType, KernelType, QueuedPacket
  <2>6. UNCHANGED <<file, monitor>>
    BY <1>2 DEF Dequeue
  <2> QED
    BY <2>1, <2>2, <2>4, <2>5, <2>6 DEF CaptureType, KernelType
<1>3. CASE QueueDrops
  <2>1. clock' \in Nat /\ events' \in 0..MaxEvents
    BY <1>3, BoundsAssumption DEF QueueDrops, Happens, CaptureType, KernelType
  <2>2. Head(queue) \in QueuedPacket /\ queue' \in Seq(QueuedPacket)
    BY <1>3, HeadTailProperties DEF QueueDrops, CaptureType, KernelType
  <2> QED
    BY <1>3, <2>1, <2>2 DEF QueueDrops, CaptureType, KernelType, QueuedPacket
<1>4. ASSUME NEW c \in Cpus, Poll(c)
      PROVE  CaptureType'
  <2>1. ring[c] \in Seq(Record) /\ ring[c] # <<>>
    BY <1>4 DEF Poll, CaptureType, KernelType
  <2>2. Head(ring[c]) \in Record /\ Tail(ring[c]) \in Seq(Record)
    BY <2>1, HeadTailProperties
  <2>3. file' \in Seq(Record)
    BY <1>4, <2>2 DEF Poll, CaptureType
  <2>4. ring' \in [Cpus -> Seq(Record)]
    BY <1>4, <2>2 DEF Poll, CaptureType, KernelType
  <2> QED
    BY <1>4, <2>3, <2>4 DEF Poll, CaptureType, KernelType
<1>5. CASE Signal
  BY <1>5 DEF Signal, CaptureType, KernelType, kernel
<1>6. CASE MonitorEnds
  <2>1. PICK m \in {<<>>, <<"torn">>, <<"torn header">>, <<"few left">>, <<"many left">>,
                    <<"exception", "few left">>} :
          file' = file \o [j \in DOMAIN m |-> Mark(m[j])]
    BY <1>6 DEF MonitorEnds
  <2>2. [j \in DOMAIN m |-> Mark(m[j])] \in Seq(Record)
    BY EndType, MarkRecords
  <2>3. file' \in Seq(Record)
    BY <2>1, <2>2, ConcatProperties DEF CaptureType
  <2> QED
    BY <1>6, <2>3 DEF MonitorEnds, CaptureType, KernelType, kernel
<1> QED
  BY <1>1, <1>2, <1>3, <1>4, <1>5, <1>6 DEF CaptureNext

\* The file only grows, whatever the monitor does.
LEMMA FileGrows ==
  ASSUME CaptureType, CaptureNext
  PROVE  Len(file) <= Len(file') /\ \A p \in 1..Len(file) : file'[p] = file[p]
<1>0. file \in Seq(Record) /\ Len(file) \in Nat
  BY LenProperties DEF CaptureType
<1>1. CASE file' = file
  BY <1>0, <1>1
<1>2. ASSUME NEW s \in Seq(Record), file' = file \o s
      PROVE  Len(file) <= Len(file') /\ \A p \in 1..Len(file) : file'[p] = file[p]
  <2>1. Len(s) \in Nat
    BY LenProperties
  <2> QED
    BY <1>0, <1>2, <2>1, ConcatProperties
<1>3. ASSUME NEW r \in Record, file' = Append(file, r)
      PROVE  Len(file) <= Len(file') /\ \A p \in 1..Len(file) : file'[p] = file[p]
  BY <1>0, <1>3, AppendProperties
<1>4. ASSUME NEW c \in Cpus, Poll(c)
      PROVE  \E r \in Record : file' = Append(file, r)
  <2>1. ring[c] \in Seq(Record) /\ ring[c] # <<>>
    BY <1>4 DEF Poll, CaptureType, KernelType
  <2>2. Head(ring[c]) \in Record
    BY <2>1, HeadTailProperties
  <2> QED
    BY <1>4, <2>2 DEF Poll
<1>5. ASSUME MonitorEnds
      PROVE  \E s \in Seq(Record) : file' = file \o s
  <2>1. PICK m \in {<<>>, <<"torn">>, <<"torn header">>, <<"few left">>, <<"many left">>,
                    <<"exception", "few left">>} :
          file' = file \o [j \in DOMAIN m |-> Mark(m[j])]
    BY <1>5 DEF MonitorEnds
  <2>2. [j \in DOMAIN m |-> Mark(m[j])] \in Seq(Record)
    BY EndType, MarkRecords
  <2> QED
    BY <2>1, <2>2
<1>6. (\E r \in Record : file' = Append(file, r)) \/ (\E s \in Seq(Record) : file' = file \o s) \/ file' = file
  BY <1>4, <1>5 DEF CaptureNext, Enqueue, Dequeue, QueueDrops, Signal
<1> QED
  BY <1>1, <1>2, <1>3, <1>6

-----------------------------------------------------------------------------
(* The types of the conversion.                                              *)

SorterType ==
  /\ phase \in {"waiting", "reading", "draining", "parsing", "pairing", "returned", "failed"}
  /\ pos \in 0..Len(file)
  /\ heap \subseteq Items /\ IsFiniteSet(heap) /\ Cardinality(heap) <= Window
  /\ deq \in Seq(Items)
  /\ ts \in Nat /\ swallowed \in BOOLEAN
PairingType ==
  /\ packets \in Seq(Nat) /\ k \in 0..Len(packets)
  /\ skb_dict \in [Skbs -> 0..Len(packets)]
  /\ match \subseteq (1..Len(packets)) \X (1..Len(packets))
ConvertType == SorterType /\ PairingType

\* Packets is empty until tshark was called, and then follows deq; it lacks all
\* the records of a packet or none.
PacketsInv ==
  /\ phase \in {"waiting", "reading", "draining", "parsing"} => packets = <<>>
  /\ phase \in {"pairing", "returned"} => Len(packets) = Len(deq)
  /\ Len(packets) <= Len(deq)
  /\ \A j \in 1..Len(packets) :
       /\ packets[j] \in {0, deq[j]}
       /\ \A i \in 1..Len(packets) :
            file[deq[i]].packet = file[deq[j]].packet /\ packets[i] = 0 => packets[j] = 0

TypeInv == CaptureType /\ ConvertType /\ PacketsInv

LEMMA ItemFacts ==
  ASSUME CaptureType
  PROVE  \A p \in Items : p \in Nat \ {0} /\ p \in 1..Len(file) /\ file[p] \in ItemRecord
<1>1. Len(file) \in Nat /\ \A p \in 1..Len(file) : file[p] \in Record
  BY LenProperties, ElementOfSeq DEF CaptureType
<1>2. \A p \in Items : p \in 1..Len(file) /\ file[p].kind = "item"
  BY DEF Items
<1> QED
  BY <1>1, <1>2, RecordKinds

\* What the capture does leaves the items that are known as they are.
LEMMA ItemsGrow ==
  ASSUME CaptureType, CaptureNext
  PROVE  Items \subseteq Items' /\ \A p \in Items : file'[p] = file[p]
<1>1. Len(file) \in Nat /\ Len(file') \in Nat
  BY CaptureTypeStep, LenProperties DEF CaptureType
<1> QED
  BY <1>1, FileGrows DEF Items

LEMMA LeftFacts ==
  ASSUME ConvertType
  PROVE  Left \subseteq Items /\ \A j \in 1..Len(deq) : deq[j] \in Items /\ deq[j] \in Left
BY LenProperties, ElementOfSeq DEF ConvertType, SorterType, Left

LEMMA AddOne ==
  ASSUME NEW S, IsFiniteSet(S), NEW x
  PROVE  /\ IsFiniteSet(S \cup {x}) /\ Cardinality(S \cup {x}) \in Nat /\ Cardinality(S) \in Nat
         /\ Cardinality(S \cup {x}) <= Cardinality(S) + 1
         /\ x \notin S => Cardinality(S \cup {x}) = Cardinality(S) + 1
<1>1. Cardinality(S) \in Nat
  BY FS_CardinalityType
<1>2. /\ IsFiniteSet(S \cup {x})
      /\ Cardinality(S \cup {x}) = IF x \in S THEN Cardinality(S) ELSE Cardinality(S) + 1
  BY FS_AddElement
<1> QED
  BY <1>1, <1>2

\* An item leaves a heap.
LEMMA YieldType ==
  ASSUME TypeInv, NEW h, h \subseteq Items, IsFiniteSet(h), Cardinality(h) <= Window + 1, Yield(h)
  PROVE  /\ heap' \subseteq Items /\ IsFiniteSet(heap') /\ Cardinality(heap') = Cardinality(h) - 1
         /\ Cardinality(heap') <= Window
         /\ deq' \in Seq(Items) /\ ts' \in Nat
         /\ phase' \in {phase, "parsing"} /\ swallowed' \in BOOLEAN
<1>1. PICK p \in h :
        /\ heap' = h \ {p}
        /\ IF file[p].ts >= ts
             THEN /\ deq' = Append(deq, p) /\ ts' = file[p].ts
                  /\ UNCHANGED <<phase, swallowed>>
             ELSE Swallow /\ UNCHANGED <<deq, ts>>
  BY DEF Yield
<1>2. heap' \subseteq Items /\ IsFiniteSet(heap') /\ Cardinality(heap') = Cardinality(h) - 1
  <2>1. heap' = h \ {p} /\ p \in h
    BY <1>1
  <2>2. IsFiniteSet(h \ {p}) /\ Cardinality(h \ {p}) = Cardinality(h) - 1
    BY ONLY <2>1, FS_RemoveElement, IsFiniteSet(h)
  <2> QED
    BY ONLY <2>1, <2>2, h \subseteq Items
<1>3. Cardinality(heap') <= Window
  BY <1>2, FS_CardinalityType, WindowAssumption
<1>4. p \in Items /\ file[p].ts \in Nat
  BY <1>1, ItemFacts DEF TypeInv, ItemRecord
<1>5. deq \in Seq(Items) /\ ts \in Nat /\ swallowed \in BOOLEAN
  BY DEF TypeInv, ConvertType, SorterType
<1>6. deq' \in Seq(Items)
  <2>1. Append(deq, p) \in Seq(Items)
    BY ONLY <1>4, <1>5, AppendProperties
  <2>2. deq' \in {Append(deq, p), deq}
    BY <1>1
  <2> QED
    BY ONLY <1>5, <2>1, <2>2
<1> QED
  BY <1>1, <1>2, <1>3, <1>4, <1>5, <1>6 DEF Swallow

LEMMA TypeInit == Init => TypeInv
<1> SUFFICES ASSUME Init PROVE TypeInv
  OBVIOUS
<1>1. KernelType
  <2>1. clock \in Nat /\ events \in 0..MaxEvents
    BY BoundsAssumption DEF Init, CaptureInit
  <2>2. dropped \in BOOLEAN
    BY DEF Init, CaptureInit
  <2>3. freed \in [Skbs -> Nat]
    BY DEF Init, CaptureInit
  <2>4. missed \in [Cpus -> BOOLEAN]
    BY DEF Init, CaptureInit
  <2>5. queue \in Seq(QueuedPacket) /\ <<>> \in Seq(Record)
    BY EmptySeq DEF Init, CaptureInit
  <2>6. ring \in [Cpus -> Seq(Record)]
    BY <2>5 DEF Init, CaptureInit
  <2> QED
    BY <2>1, <2>5, <2>6, <2>3, <2>4, <2>2 DEF KernelType
<1>2. file = <<>> /\ file \in Seq(Record) /\ Len(file) = 0 /\ packets = <<>> /\ packets \in Seq(Nat)
      /\ Len(packets) = 0 /\ deq = <<>> /\ Len(deq) = 0 /\ deq \in Seq(Items)
  BY EmptySeq DEF Init, CaptureInit
<1>3. CaptureType
  BY <1>1, <1>2 DEF Init, CaptureInit, CaptureType
<1>4. heap = {} /\ IsFiniteSet(heap) /\ Cardinality(heap) = 0
  BY FS_EmptySet DEF Init
<1>5. SorterType /\ phase = "waiting"
  <2>1. phase = "waiting" /\ ts = 0 /\ ts \in Nat /\ swallowed \in BOOLEAN /\ pos = 0
    BY DEF Init
  <2>2. pos \in 0..Len(file)
    BY <1>2, <2>1
  <2>3. heap \subseteq Items /\ IsFiniteSet(heap) /\ Cardinality(heap) <= Window
    BY <1>4, WindowAssumption
  <2> QED
    BY <1>2, <2>1, <2>2, <2>3 DEF SorterType
<1>6. PairingType
  BY <1>2 DEF Init, PairingType
<1> QED
  BY <1>2, <1>3, <1>5, <1>6 DEF TypeInv, PacketsInv, ConvertType

\* A step of the capture, while the file is read.
LEMMA TypeWhileRecording ==
  ASSUME TypeInv, phase \in {"waiting", "reading"}, CaptureNext, UNCHANGED convertVars
  PROVE  TypeInv'
<1>1. CaptureType'
  BY CaptureTypeStep DEF TypeInv
<1>2. Items \subseteq Items' /\ Len(file) \in Nat /\ Len(file') \in Nat /\ Len(file) <= Len(file')
  BY <1>1, ItemsGrow, FileGrows, LenProperties DEF TypeInv, CaptureType
<1>3. deq \in Seq(Items')
  BY <1>2, SeqMonotonic DEF TypeInv, ConvertType, SorterType
<1>4. ConvertType'
  BY <1>2, <1>3 DEF TypeInv, ConvertType, SorterType, PairingType, convertVars
<1>5. packets = <<>> /\ Len(packets) = 0 /\ Len(deq) \in Nat
  BY LenProperties DEF TypeInv, PacketsInv, ConvertType, SorterType
<1>6. PacketsInv'
  BY <1>5 DEF PacketsInv, convertVars
<1> QED
  BY <1>1, <1>4, <1>6 DEF TypeInv

\* The conversion changes nothing of the capture.
LEMMA CaptureIsOver ==
  ASSUME Convert
  PROVE  UNCHANGED captureVars
BY DEF Convert, Start, ReadItem, ReadMark, EndOfFile, Drain, Parse, ParseFails, PairNothing,
       PairEnqueued, PairDequeued, Return

LEMMA SameFile ==
  ASSUME UNCHANGED captureVars
  PROVE  /\ UNCHANGED <<file, Items, SlightlyUnsorted, clock, queue, freed, events, ring, missed, dropped, monitor>>
         /\ CaptureType <=> CaptureType'
<1>1. UNCHANGED <<file, clock, queue, freed, events, ring, missed, dropped, monitor>>
  BY DEF captureVars, kernel
<1> QED
  BY <1>1 DEF Items, SlightlyUnsorted, CaptureType, KernelType

LEMMA TypeWhileReading ==
  ASSUME TypeInv, ReadItem \/ Drain
  PROVE  TypeInv'
<1>0. UNCHANGED captureVars
  BY DEF ReadItem, Drain
<1>1. CaptureType' /\ Items' = Items /\ file' = file /\ Len(file) \in Nat /\ packets = <<>> /\ Len(packets) = 0 /\ Len(<<>>) = 0
  BY <1>0, SameFile, LenProperties DEF TypeInv, CaptureType, PacketsInv, ReadItem, Drain
<1>2. UNCHANGED pairing
  BY DEF ReadItem, Drain
<1>3. heap \subseteq Items /\ IsFiniteSet(heap) /\ Cardinality(heap) \in Nat /\ Cardinality(heap) <= Window
      /\ Window \in Nat /\ pos \in 0..Len(file)
  BY FS_CardinalityType, WindowAssumption DEF TypeInv, ConvertType, SorterType
<1>4. SorterType' /\ phase' \in {"reading", "draining", "parsing"}
  <2>1. ASSUME ReadItem
        PROVE  /\ pos + 1 \in Items /\ pos' \in 0..Len(file) /\ phase = "reading"
               /\ heap \cup {pos + 1} \subseteq Items /\ IsFiniteSet(heap \cup {pos + 1})
               /\ Cardinality(heap \cup {pos + 1}) \in Nat
               /\ Cardinality(heap \cup {pos + 1}) <= Cardinality(heap) + 1
    <3>1. pos + 1 \in Items /\ pos' \in 0..Len(file) /\ phase = "reading"
      BY <2>1, <1>1, <1>3 DEF ReadItem, Items
    <3>2. IsFiniteSet(heap \cup {pos + 1}) /\ Cardinality(heap \cup {pos + 1}) \in Nat
          /\ Cardinality(heap \cup {pos + 1}) <= Cardinality(heap) + 1
      BY <1>3, AddOne
    <3> QED
      BY <1>3, <3>1, <3>2
  <2>2. CASE ReadItem /\ Cardinality(heap) < Window
    <3>1. heap' = heap \cup {pos + 1} /\ UNCHANGED <<phase, ts, deq, swallowed>>
      BY <2>2 DEF ReadItem
    <3>2. heap' \subseteq Items /\ IsFiniteSet(heap') /\ Cardinality(heap') <= Window
      BY <1>3, <2>1, <2>2, <3>1
    <3> QED
      BY <1>1, <2>1, <2>2, <3>1, <3>2 DEF TypeInv, ConvertType, SorterType
  <2>3. CASE ReadItem /\ ~(Cardinality(heap) < Window)
    <3>1. Yield(heap \cup {pos + 1}) /\ Cardinality(heap \cup {pos + 1}) <= Window + 1
      BY <1>3, <2>1, <2>3 DEF ReadItem
    <3> QED
      BY <1>1, <2>1, <2>3, <3>1, YieldType DEF SorterType
  <2>4. CASE Drain /\ heap # {} /\ Yield(heap)
    <3>1. Cardinality(heap) <= Window + 1 /\ phase = "draining" /\ pos' \in 0..Len(file)
      BY <1>3, <2>4 DEF Drain
    <3> QED
      BY <1>1, <1>3, <2>4, <3>1, YieldType DEF SorterType
  <2>5. CASE Drain /\ heap = {} /\ phase' = "parsing" /\ UNCHANGED <<sorter, swallowed>>
    BY <1>1, <2>5 DEF Drain, TypeInv, ConvertType, SorterType, sorter
  <2> QED
    BY <2>2, <2>3, <2>4, <2>5 DEF Drain
<1>5. PairingType'
  BY <1>2 DEF TypeInv, ConvertType, PairingType, pairing
<1>6. Len(deq') \in Nat
  BY <1>4, LenProperties DEF SorterType
<1>7. PacketsInv'
  BY <1>1, <1>2, <1>4, <1>6 DEF PacketsInv, pairing
<1> QED
  BY <1>1, <1>4, <1>5, <1>7 DEF TypeInv, ConvertType

LEMMA TypeBetween ==
  ASSUME TypeInv, Start \/ ReadMark \/ EndOfFile \/ ParseFails \/ Return
  PROVE  TypeInv'
<1>1. UNCHANGED captureVars /\ UNCHANGED sorter /\ UNCHANGED pairing
  BY DEF Start, ReadMark, EndOfFile, ParseFails, Return
<1>2. CaptureType' /\ Items' = Items /\ file' = file /\ Len(file) \in Nat
  BY <1>1, SameFile, LenProperties DEF TypeInv, CaptureType
<1>3. pos' \in 0..Len(file) /\ swallowed' \in BOOLEAN
      /\ phase' \in {"waiting", "reading", "draining", "parsing", "pairing", "returned", "failed"}
  <2>1. pos \in 0..Len(file) /\ swallowed \in BOOLEAN
    BY DEF TypeInv, ConvertType, SorterType
  <2>2. pos' = pos \/ (pos' = pos + 1 /\ pos < Len(file))
    BY DEF Start, ReadMark, EndOfFile, ParseFails, Return
  <2>3. pos' \in 0..Len(file)
    BY <1>2, <2>1, <2>2
  <2>4. swallowed' = swallowed \/ swallowed' = TRUE
    BY DEF Start, ReadMark, EndOfFile, ParseFails, Return, Swallow
  <2>5. phase' \in {"waiting", "reading", "draining", "parsing", "pairing", "returned", "failed"}
    BY DEF Start, ReadMark, EndOfFile, ParseFails, Return, Swallow, TypeInv, ConvertType, SorterType
  <2> QED
    BY <2>1, <2>3, <2>4, <2>5
<1>4. ConvertType'
  BY <1>1, <1>2, <1>3 DEF TypeInv, ConvertType, SorterType, PairingType, sorter, pairing
<1>5. \/ phase \in {"waiting", "reading"} /\ phase' \in {"reading", "draining", "parsing"}
      \/ phase = "parsing" /\ phase' = "failed"
      \/ phase = "pairing" /\ phase' = "returned"
  BY DEF Start, ReadMark, EndOfFile, ParseFails, Return, Swallow
<1>6. PacketsInv'
  BY <1>1, <1>2, <1>5 DEF TypeInv, PacketsInv, sorter, pairing
<1> QED
  BY <1>2, <1>4, <1>6 DEF TypeInv

LEMMA TypeOfParse ==
  ASSUME TypeInv, Parse
  PROVE  TypeInv'
<1>1. PICK other \in SUBSET {file[p].packet : p \in Left} :
        packets' = [j \in DOMAIN deq |-> IF file[deq[j]].packet \in other THEN 0 ELSE deq[j]]
  BY DEF Parse
<1>2. UNCHANGED captureVars /\ UNCHANGED <<pos, swallowed, k, skb_dict, match>> /\ UNCHANGED sorter
      /\ phase = "parsing" /\ phase' = "pairing"
  BY DEF Parse
<1>3. CaptureType' /\ Items' = Items /\ file' = file
  BY <1>2, SameFile DEF TypeInv
<1>4. deq \in Seq(Items) /\ Len(deq) \in Nat /\ DOMAIN deq = 1..Len(deq) /\ \A j \in 1..Len(deq) : deq[j] \in Nat \ {0}
  BY LeftFacts, ItemFacts, LenProperties DEF TypeInv, ConvertType, SorterType
<1>5. packets' \in [1..Len(deq) -> Nat]
      /\ \A j \in 1..Len(deq) : packets'[j] = IF file[deq[j]].packet \in other THEN 0 ELSE deq[j]
  BY <1>1, <1>4
<1>6. packets' \in Seq(Nat)
  <2>1. Seq(Nat) = UNION {[1..n -> Nat] : n \in Nat}
    BY SeqDef
  <2> QED
    BY ONLY <1>4, <1>5, <2>1
<1>7. Len(packets') \in Nat /\ Len(packets') = Len(deq)
  <2>1. Len(packets') \in Nat /\ DOMAIN packets' = 1..Len(packets') /\ DOMAIN packets' = 1..Len(deq)
    BY <1>5, <1>6, LenProperties
  <2> QED
    BY <1>4, <2>1, SameInterval
<1>8. k = 0 /\ skb_dict \in [Skbs -> 0..0] /\ match = {}
  <2>1. Len(packets) = 0
    BY <1>2, EmptySeq DEF TypeInv, PacketsInv
  <2>2. k \in 0..0 /\ skb_dict \in [Skbs -> 0..0] /\ match \subseteq (1..0) \X (1..0)
    BY <2>1 DEF TypeInv, ConvertType, PairingType
  <2> QED
    BY <2>2
<1>9. PairingType'
  <2>1. k' \in 0..Len(packets') /\ match' \subseteq (1..Len(packets')) \X (1..Len(packets'))
    BY <1>2, <1>7, <1>8
  <2>2. \A x \in Skbs : skb_dict[x] \in 0..Len(packets')
    BY <1>7, <1>8
  <2>3. skb_dict' \in [Skbs -> 0..Len(packets')]
    BY <1>2, <1>8, <2>2
  <2> QED
    BY <1>6, <2>1, <2>3 DEF PairingType
<1>10. SorterType'
  BY <1>2, <1>3 DEF TypeInv, ConvertType, SorterType, sorter
<1>11. PacketsInv'
  <2>1. \A j \in 1..Len(packets') : packets'[j] \in {0, deq[j]}
    BY <1>4, <1>5, <1>7
  <2>2. \A j \in 1..Len(packets') : \A i \in 1..Len(packets') :
          file[deq[i]].packet = file[deq[j]].packet /\ packets'[i] = 0 => packets'[j] = 0
    BY <1>4, <1>5, <1>7
  <2> QED
    BY <1>2, <1>3, <1>4, <1>7, <2>1, <2>2 DEF PacketsInv, sorter
<1> QED
  BY <1>3, <1>9, <1>10, <1>11 DEF TypeInv, ConvertType

\* What is kept of an item, and its place in deq.
LEMMA KeptFacts ==
  ASSUME TypeInv
  PROVE  \A j \in 1..Len(packets) : Kept(j) =>
           /\ j \in 1..Len(deq) /\ packets[j] = deq[j] /\ deq[j] \in Items
           /\ Packet(j) = file[deq[j]] /\ Packet(j) \in ItemRecord
<1>1. Len(packets) \in Nat /\ Len(deq) \in Nat /\ Len(packets) <= Len(deq)
  BY LenProperties DEF TypeInv, ConvertType, PairingType, SorterType, PacketsInv
<1>2. \A j \in 1..Len(packets) : j \in 1..Len(deq) /\ packets[j] \in {0, deq[j]} /\ deq[j] \in Items
  BY <1>1, LeftFacts DEF TypeInv, PacketsInv
<1> QED
  BY <1>2, ItemFacts DEF Kept, Packet, TypeInv

LEMMA TypeOfPairing ==
  ASSUME TypeInv, PairNothing \/ PairEnqueued \/ PairDequeued
  PROVE  TypeInv'
<1>1. UNCHANGED captureVars /\ UNCHANGED <<pos, swallowed, packets>> /\ UNCHANGED sorter
      /\ k < Len(packets) /\ k' = k + 1 /\ phase = "pairing" /\ phase' \in {"pairing", "failed"}
  BY DEF PairNothing, PairEnqueued, PairDequeued
<1>2. CaptureType' /\ Items' = Items /\ file' = file
  BY <1>1, SameFile DEF TypeInv
<1>3. SorterType'
  BY <1>1, <1>2 DEF TypeInv, ConvertType, SorterType, sorter
<1>4. PacketsInv'
  BY <1>1, <1>2 DEF TypeInv, PacketsInv, sorter
<1>5. Len(packets) \in Nat /\ k \in Nat /\ k + 1 \in 1..Len(packets) /\ k' \in 0..Len(packets)
  BY <1>1, LenProperties DEF TypeInv, ConvertType, PairingType
<1>6. skb_dict' \in [Skbs -> 0..Len(packets)]
  BY <1>5 DEF TypeInv, ConvertType, PairingType, PairNothing, PairEnqueued, PairDequeued,
     DeleteEntry
<1>7. match' \subseteq (1..Len(packets)) \X (1..Len(packets))
  <2>1. CASE match' = match
    BY <2>1 DEF TypeInv, ConvertType, PairingType
  <2>2. CASE PairDequeued /\ match' # match
    <3>1. Packet(k + 1).skb \in Skbs
      BY <1>5, <2>2, KeptFacts DEF PairDequeued, ItemRecord
    <3>2. skb_dict[Packet(k + 1).skb] \in 1..Len(packets)
      <4>1. skb_dict[Packet(k + 1).skb] \in 0..Len(packets)
        BY <3>1 DEF TypeInv, ConvertType, PairingType
      <4> QED
        BY <1>5, <2>2, <4>1 DEF PairDequeued
    <3>3. match' = match \cup {<<skb_dict[Packet(k + 1).skb], k + 1>>}
      BY <2>2 DEF PairDequeued
    <3> QED
      BY <1>5, <3>2, <3>3 DEF TypeInv, ConvertType, PairingType
  <2> QED
    BY <2>1, <2>2 DEF PairNothing, PairEnqueued
<1>8. PairingType'
  BY <1>1, <1>5, <1>6, <1>7 DEF TypeInv, ConvertType, PairingType
<1> QED
  BY <1>2, <1>3, <1>4, <1>8 DEF TypeInv, ConvertType

LEMMA TypeStep ==
  ASSUME TypeInv, [Next]_vars
  PROVE  TypeInv'
<1>1. CASE phase \in {"waiting", "reading"} /\ CaptureNext /\ UNCHANGED convertVars
  BY <1>1, TypeWhileRecording
<1>2. CASE Convert
  BY <1>2, TypeWhileReading, TypeBetween, TypeOfParse, TypeOfPairing DEF Convert
<1>3. CASE UNCHANGED vars
  <2>1. UNCHANGED captureVars /\ UNCHANGED convertVars
    BY <1>3 DEF vars
  <2>2. CaptureType' /\ Items' = Items /\ file' = file
    BY <2>1, SameFile DEF TypeInv
  <2> QED
    BY <2>1, <2>2 DEF TypeInv, ConvertType, SorterType, PairingType, PacketsInv, convertVars
<1> QED
  BY <1>1, <1>2, <1>3 DEF Next

\* The variables of the capture and of its conversion keep their types; the
\* heap never holds more than Window items, and what leaves it are items of the
\* file (parse_raw.py:17-149).
THEOREM ConversionTypeCorrect == Spec => []TypeOK
<1>1. TypeInv => TypeOK
  BY LeftFacts, LenProperties DEF TypeInv, CaptureType, KernelType, ConvertType, SorterType, PairingType, TypeOK
<1> QED
  BY <1>1, TypeInit, TypeStep, PTL DEF Spec

-----------------------------------------------------------------------------
(* What was read.                                                            *)

ReadInv ==
  /\ heap \cup Left \subseteq 1..pos
  /\ \A q \in 1..pos : file[q].kind \in {"item", "few left"}

\* An item that leaves the heap joins those that left.
LEMMA LeftGrows ==
  ASSUME deq \in Seq(Items), NEW p \in Items, deq' = Append(deq, p)
  PROVE  Left' = Left \cup {p}
<1>1. /\ Len(deq) \in Nat /\ DOMAIN deq = 1..Len(deq) /\ DOMAIN deq' = 1..(Len(deq) + 1)
      /\ \A j \in 1..Len(deq) : deq'[j] = deq[j]
      /\ deq'[Len(deq) + 1] = p
  BY AppendProperties, LenProperties
<1>2. \A j \in 1..(Len(deq) + 1) : j \in 1..Len(deq) \/ j = Len(deq) + 1
  BY <1>1
<1> QED
  BY <1>1, <1>2 DEF Left

LEMMA YieldKeeps ==
  ASSUME TypeInv, NEW h, h \subseteq Items, Yield(h)
  PROVE  heap' \cup Left' \subseteq h \cup Left
<1>1. PICK p \in h : heap' = h \ {p} /\ deq' \in {deq, Append(deq, p)}
  BY DEF Yield
<1>2. deq \in Seq(Items) /\ p \in Items
  BY <1>1 DEF TypeInv, ConvertType, SorterType
<1>3. Left' \subseteq Left \cup {p}
  <2>1. CASE deq' = deq
    BY <2>1 DEF Left
  <2>2. CASE deq' = Append(deq, p)
    BY <1>2, <2>2, LeftGrows
  <2> QED
    BY <1>1, <2>1, <2>2
<1> QED
  BY <1>1, <1>3

LEMMA ReadStep ==
  ASSUME TypeInv, ReadInv, [Next]_vars
  PROVE  ReadInv'
<1>0. pos \in Nat /\ Len(file) \in Nat /\ pos <= Len(file)
  BY LenProperties DEF TypeInv, CaptureType, ConvertType, SorterType
<1>1. CASE CaptureNext /\ UNCHANGED convertVars
  <2>1. UNCHANGED <<heap, deq, pos>> /\ Left' = Left
    BY <1>1 DEF convertVars, Left
  <2>2. \A q \in 1..pos : file'[q] = file[q]
    BY <1>0, <1>1, FileGrows DEF TypeInv
  <2> QED
    BY <2>1, <2>2 DEF ReadInv
<1>2. ASSUME UNCHANGED captureVars, UNCHANGED <<heap, deq, pos>>
      PROVE  ReadInv'
  BY <1>2, SameFile DEF ReadInv, Left
<1>3. CASE ReadItem
  <2>1. pos' = pos + 1 /\ file' = file /\ file[pos + 1].kind = "item"
    BY <1>3, SameFile DEF ReadItem
  <2>2. \A q \in 1..(pos + 1) : q \in 1..pos \/ q = pos + 1
    BY <1>0
  <2>3. heap' \cup Left' \subseteq heap \cup Left \cup {pos + 1}
    <3>1. CASE Cardinality(heap) < Window
      BY <1>3, <3>1 DEF ReadItem, Left
    <3>2. CASE ~(Cardinality(heap) < Window)
      <4>1. Yield(heap \cup {pos + 1})
        BY <1>3, <3>2 DEF ReadItem
      <4>2. heap \cup {pos + 1} \subseteq Items
        BY <1>0, <1>3 DEF ReadItem, Items, TypeInv, ConvertType, SorterType
      <4> QED
        BY <4>1, <4>2, YieldKeeps
    <3> QED
      BY <3>1, <3>2
  <2>4. 1..pos \subseteq 1..(pos + 1) /\ pos + 1 \in 1..(pos + 1)
    BY <1>0
  <2>5. heap' \cup Left' \subseteq 1..pos'
    BY <2>1, <2>3, <2>4 DEF ReadInv
  <2>6. \A q \in 1..pos' : file'[q].kind \in {"item", "few left"}
    BY <2>1, <2>2 DEF ReadInv
  <2> QED
    BY <2>5, <2>6 DEF ReadInv
<1>4. CASE ReadMark
  <2>1. UNCHANGED captureVars /\ UNCHANGED <<heap, deq>> /\ file' = file
    BY <1>4, SameFile DEF ReadMark, sorter
  <2>2. CASE pos' = pos
    BY <1>2, <2>1, <2>2
  <2>3. CASE pos' = pos + 1 /\ file[pos + 1].kind = "few left"
    <3>1. \A q \in 1..(pos + 1) : q \in 1..pos \/ q = pos + 1
      BY <1>0
    <3>2. 1..pos \subseteq 1..(pos + 1)
      BY <1>0
    <3> QED
      BY <2>1, <2>3, <3>1, <3>2 DEF ReadInv, Left
  <2> QED
    BY <1>4, <2>2, <2>3 DEF ReadMark
<1>5. CASE Drain
  <2>1. UNCHANGED captureVars /\ pos' = pos /\ file' = file
    BY <1>5, SameFile DEF Drain
  <2>2. CASE Yield(heap)
    <3>1. heap' \cup Left' \subseteq heap \cup Left
      BY <2>2, YieldKeeps DEF TypeInv, ConvertType, SorterType
    <3> QED
      BY <2>1, <3>1 DEF ReadInv
  <2>3. CASE UNCHANGED sorter
    BY <1>2, <2>1, <2>3 DEF sorter
  <2> QED
    BY <1>5, <2>2, <2>3 DEF Drain
<1>6. CASE Start \/ EndOfFile \/ Parse \/ ParseFails \/ PairNothing \/ PairEnqueued \/ PairDequeued \/ Return
  BY <1>2, <1>6 DEF Start, EndOfFile, Parse, ParseFails, PairNothing, PairEnqueued, PairDequeued,
     Return, sorter
<1>7. CASE UNCHANGED vars
  BY <1>2, <1>7 DEF vars, convertVars
<1> QED
  BY <1>1, <1>3, <1>4, <1>5, <1>6, <1>7 DEF Next, Convert

\* No item that leaves the heap stands behind a record of lost ones
\* (qmon_serializer.py:90-125, parse_raw.py:104-116).
THEOREM NothingIsKeptAfterLoss == Spec => []NothingAfterLoss
<1>1. Init => ReadInv
  <2>1. ASSUME Init
        PROVE  heap = {} /\ Left = {} /\ 1..pos = {}
    <3>1. heap = {} /\ pos = 0 /\ deq = <<>> /\ DOMAIN deq = {}
      BY <2>1 DEF Init
    <3> QED
      BY <3>1 DEF Left
  <2> QED
    BY <2>1 DEF ReadInv
<1>2. TypeInv /\ ReadInv => NothingAfterLoss
  <2> SUFFICES ASSUME TypeInv, ReadInv, NEW p \in Left, NEW q \in 1..p
               PROVE  file[q].kind # "lost"
    BY DEF NothingAfterLoss
  <2>1. Len(file) \in Nat
    BY LenProperties DEF TypeInv, CaptureType
  <2>2. pos \in Nat
    BY <2>1 DEF TypeInv, ConvertType, SorterType
  <2>3. pos \in Nat /\ p \in 1..pos
    BY <2>2 DEF ReadInv
  <2>4. q \in 1..pos
    BY <2>3
  <2> QED
    BY <2>4 DEF ReadInv
<1> QED
  BY <1>1, <1>2, TypeInit, TypeStep, ReadStep, PTL DEF Spec

-----------------------------------------------------------------------------
(* The order in which items leave the heap.                                  *)

LEMMA BeforeIsAnOrder ==
  ASSUME CaptureType, NEW p \in Items, NEW q \in Items, NEW r \in Items
  PROVE  /\ p # q => Before(p, q) \/ Before(q, p)
         /\ ~(Before(p, q) /\ Before(q, p)) /\ ~Before(p, p)
         /\ Before(p, q) /\ Before(q, r) => Before(p, r)
         /\ Before(p, q) => file[p].ts <= file[q].ts
<1>1. \A a \in {p, q, r} : a \in Nat /\ file[a].ts \in Nat /\ file[a].event \in {"enqueue", "dequeue"}
  BY ItemFacts DEF ItemRecord
<1> QED
  BY <1>1 DEF Before

LEMMA ItemsAreFinite ==
  ASSUME NEW f \in Seq(Record)
  PROVE  IsFiniteSet({p \in 1..Len(f) : f[p].kind = "item"})
<1>1. Len(f) \in Nat
  BY LenProperties
<1>2. IsFiniteSet(1..Len(f))
  BY <1>1, FS_Interval
<1> QED
  BY <1>2, FS_Subset

\* In a slightly unsorted file no more than Window items precede one that is
\* not younger.
LEMMA FewAreAhead ==
  ASSUME CaptureType, SlightlyUnsorted, NEW p \in Items, NEW S \in SUBSET Items,
         \A q \in S : q < p /\ file[q].ts >= file[p].ts
  PROVE  IsFiniteSet(S) /\ Cardinality(S) \in Nat /\ Cardinality(S) <= Window
<1> DEFINE ahead == {q \in Items : q < p /\ file[q].ts >= file[p].ts}
<1>1. S \subseteq ahead /\ ahead \subseteq Items
  OBVIOUS
<1>2. Cardinality(ahead) <= Window
  BY DEF SlightlyUnsorted
<1> HIDE DEF ahead
<1>3. IsFiniteSet(ahead)
  <2>1. IsFiniteSet(Items)
    BY ItemsAreFinite DEF CaptureType, Items
  <2> QED
    BY <1>1, <2>1, FS_Subset
<1>4. IsFiniteSet(S) /\ Cardinality(S) <= Cardinality(ahead)
  BY <1>1, <1>3, FS_Subset
<1>5. Cardinality(S) \in Nat /\ Cardinality(ahead) \in Nat
  BY <1>3, <1>4, FS_CardinalityType
<1> QED
  BY <1>2, <1>4, <1>5, WindowAssumption

\* What the monitor writes makes no file less unsorted, and changes nothing of
\* the order of items.
LEMMA OrderStays ==
  ASSUME CaptureType, CaptureNext
  PROVE  /\ SlightlyUnsorted' => SlightlyUnsorted
         /\ \A p, q \in Items : Before(p, q) => Before(p, q)'
<1>1. Items \subseteq Items' /\ \A p \in Items : file'[p] = file[p]
  BY ItemsGrow
<1>2. CaptureType'
  BY CaptureTypeStep
<1>3. IsFiniteSet(Items')
  BY <1>2, ItemsAreFinite DEF CaptureType, Items
<1>4. ASSUME SlightlyUnsorted', NEW p \in Items
      PROVE  Cardinality({q \in Items : q < p /\ file[q].ts >= file[p].ts}) <= Window
  <2> DEFINE S == {q \in Items : q < p /\ file[q].ts >= file[p].ts}
             T == {q \in Items' : q < p /\ file'[q].ts >= file'[p].ts}
  <2>0. p \in Items'
    BY <1>1
  <2>1. Cardinality(T) <= Window
    BY <1>4, <2>0, Zenon DEF SlightlyUnsorted
  <2>2. S \subseteq T /\ T \subseteq Items'
    BY <1>1
  <2> HIDE DEF S, T
  <2>3. IsFiniteSet(T)
    BY <1>3, <2>2, FS_Subset
  <2>4. IsFiniteSet(S) /\ Cardinality(S) <= Cardinality(T)
    BY <2>2, <2>3, FS_Subset
  <2>5. Cardinality(S) \in Nat /\ Cardinality(T) \in Nat
    BY <2>3, <2>4, FS_CardinalityType
  <2>6. Cardinality(S) <= Window
    BY <2>1, <2>4, <2>5, WindowAssumption
  <2> QED
    BY <2>6 DEF S
<1>5. SlightlyUnsorted' => SlightlyUnsorted
  BY <1>4 DEF SlightlyUnsorted
<1>6. \A p, q \in Items : Before(p, q) => Before(p, q)'
  BY <1>1 DEF Before
<1> QED
  BY <1>5, <1>6

Last == deq[Len(deq)]

\* Those that left the heap are each of them another, and in the order of time.
SortedInv ==
  /\ heap \cap Left = {}
  /\ \A i, j \in 1..Len(deq) : i < j => deq[i] # deq[j] /\ file[deq[i]].ts <= file[deq[j]].ts
  /\ deq = <<>> => ts = 0
  /\ deq # <<>> => ts = file[Last].ts

\* In a slightly unsorted file also enqueueings come before dequeueings, and
\* what comes later than the last is still in the heap, which is full.
OrderInv ==
  SlightlyUnsorted =>
    /\ \A i, j \in 1..Len(deq) : i < j => Before(deq[i], deq[j])
    /\ deq # <<>> => \A q \in heap : Before(Last, q)
    /\ phase \in {"waiting", "reading"} /\ deq # <<>> => Cardinality(heap) = Window

WellFormed == \A p \in 1..Len(file) : file[p].kind \in {"item", "few left", "torn header"}

\* The next record is a bad one.
BadNext == pos < Len(file) /\ file[pos + 1].kind \notin {"item", "few left", "torn header"}

\* All that was read is in the heap or has left it, unless an exception was
\* swallowed, which only a file that is out of order or the next record makes
\* happen.
AllInv ==
  /\ ~swallowed \/ SlightlyUnsorted => heap \cup Left = {p \in Items : p <= pos}
  /\ ~swallowed /\ phase \in {"parsing", "pairing", "returned"} => heap = {}
  /\ swallowed => phase \notin {"waiting", "reading", "draining"} /\ (BadNext \/ ~SlightlyUnsorted)

HeapInv == SortedInv /\ OrderInv /\ AllInv

LEMMA LastFacts ==
  ASSUME TypeInv, SortedInv, deq # <<>>
  PROVE  /\ Len(deq) \in Nat \ {0} /\ Last \in Items /\ Last \in Left /\ ts = file[Last].ts
         /\ \A i \in 1..Len(deq) : i < Len(deq) \/ deq[i] = Last
<1>1. Len(deq) \in Nat \ {0}
  BY EmptySeq DEF TypeInv, ConvertType, SorterType
<1>2. Len(deq) \in 1..Len(deq)
  BY <1>1
<1> QED
  BY <1>1, <1>2, LeftFacts DEF Last, TypeInv, SortedInv

LEMMA YieldInOrder ==
  ASSUME TypeInv, SortedInv, OrderInv, NEW h, h \subseteq Items, h \cap Left = {}, Yield(h),
         file' = file,
         SlightlyUnsorted /\ deq # <<>> => \A q \in h : Before(Last, q)
  PROVE  /\ SortedInv'
         /\ \/ /\ UNCHANGED <<phase, swallowed>> /\ heap' \cup Left' = h \cup Left
               /\ deq' # <<>>
               /\ SlightlyUnsorted =>
                    /\ \A i, j \in 1..Len(deq') : i < j => Before(deq'[i], deq'[j])
                    /\ \A q \in heap' : Before(deq'[Len(deq')], q)
            \/ Swallow /\ ~SlightlyUnsorted
<1>1. PICK p \in h :
        /\ IsLeast(p, h) /\ heap' = h \ {p}
        /\ IF file[p].ts >= ts
             THEN /\ deq' = Append(deq, p) /\ ts' = file[p].ts
                  /\ UNCHANGED <<phase, swallowed>>
             ELSE Swallow /\ UNCHANGED <<deq, ts>>
  BY DEF Yield
<1>2. /\ CaptureType /\ deq \in Seq(Items) /\ Len(deq) \in Nat /\ ts \in Nat
      /\ \A i \in 1..Len(deq) : deq[i] \in Items /\ deq[i] \in Left /\ file[deq[i]].ts \in Nat
      /\ p \in Items /\ file[p].ts \in Nat /\ p \notin Left
  <2>1. deq \in Seq(Items) /\ Len(deq) \in Nat /\ ts \in Nat /\ CaptureType
    BY LenProperties DEF TypeInv, ConvertType, SorterType
  <2>2. \A i \in 1..Len(deq) : deq[i] \in Items /\ deq[i] \in Left
    BY LeftFacts DEF TypeInv
  <2>3. \A q \in Items : file[q].ts \in Nat
    BY <2>1, ItemFacts DEF ItemRecord
  <2> QED
    BY <1>1, <2>1, <2>2, <2>3
<1>3. CASE file[p].ts >= ts
  <2>1. deq' = Append(deq, p) /\ ts' = file[p].ts /\ UNCHANGED <<phase, swallowed>>
    BY <1>1, <1>3
  <2>2. /\ Len(deq') = Len(deq) + 1 /\ deq' # <<>> /\ deq'[Len(deq) + 1] = p
        /\ \A i \in 1..Len(deq) : deq'[i] = deq[i]
    BY <1>2, <2>1, AppendProperties
  <2>3. Left' = Left \cup {p}
    BY <1>2, <2>1, LeftGrows
  <2>4. \A i \in 1..Len(deq) : file[deq[i]].ts <= file[p].ts
    <3> SUFFICES ASSUME NEW i \in 1..Len(deq)
                 PROVE  file[deq[i]].ts <= file[p].ts
      OBVIOUS
    <3>1. deq # <<>>
      BY EmptySeq
    <3>2. /\ Len(deq) \in 1..Len(deq) /\ ts = file[deq[Len(deq)]].ts
          /\ i < Len(deq) \/ deq[i] = deq[Len(deq)]
      BY <1>2, <3>1, LastFacts DEF Last
    <3>3. file[deq[i]].ts <= ts
      <4>1. CASE i < Len(deq)
        BY <3>2, <4>1 DEF SortedInv
      <4>2. CASE deq[i] = deq[Len(deq)]
        <5>1. file[deq[i]].ts = ts
          BY ONLY <3>2, <4>2
        <5> QED
          BY ONLY <1>2, <5>1
      <4> QED
        BY ONLY <3>2, <4>1, <4>2
    <3> QED
      BY <1>2, <1>3, <3>3
  <2>5. \A i \in 1..(Len(deq) + 1) : i \in 1..Len(deq) \/ i = Len(deq) + 1
    BY <1>2
  <2>6. ASSUME NEW i \in 1..Len(deq'), NEW j \in 1..Len(deq'), i < j
        PROVE  i \in 1..Len(deq) /\ (j \in 1..Len(deq) \/ j = Len(deq) + 1)
    <3>1. Len(deq) \in Nat
      BY <1>2
    <3>2. Len(deq') = Len(deq) + 1 /\ i \in 1..Len(deq') /\ j \in 1..Len(deq') /\ i < j
      BY <2>2, <2>6
    <3> QED
      BY ONLY <3>1, <3>2
  <2>7. ASSUME NEW i \in 1..Len(deq'), NEW j \in 1..Len(deq'), i < j
        PROVE  deq'[i] # deq'[j] /\ file[deq'[i]].ts <= file[deq'[j]].ts
    <3>1. CASE j \in 1..Len(deq)
      BY <2>2, <2>6, <2>7, <3>1 DEF SortedInv
    <3>2. CASE j = Len(deq) + 1
      BY <1>2, <2>2, <2>4, <2>6, <2>7, <3>2
    <3> QED
      BY <2>6, <2>7, <3>1, <3>2
  <2>8. SortedInv'
    <3>1. heap' \cap Left' = {}
      BY <1>1, <2>3
    <3>2. ts' = file'[Last'].ts
      BY <2>1, <2>2 DEF Last
    <3> QED
      BY <2>2, <2>7, <3>1, <3>2 DEF SortedInv
  <2>9. heap' \cup Left' = h \cup Left
    BY <1>1, <2>3
  <2>10. ASSUME SlightlyUnsorted, NEW i \in 1..Len(deq'), NEW j \in 1..Len(deq'), i < j
         PROVE  Before(deq'[i], deq'[j])
    <3>1. CASE j \in 1..Len(deq)
      BY <2>2, <2>6, <2>10, <3>1 DEF OrderInv
    <3>2. CASE j = Len(deq) + 1
      <4>1. i \in 1..Len(deq) /\ deq'[i] = deq[i] /\ deq'[j] = p /\ deq # <<>>
        BY <2>2, <2>6, <2>10, <3>2, EmptySeq
      <4>2. Before(Last, p) /\ Last \in Items /\ Len(deq) \in 1..Len(deq) /\ (i < Len(deq) \/ deq[i] = Last)
        BY <1>1, <1>2, <2>10, <4>1, LastFacts
      <4>3. i < Len(deq) => Before(deq[i], Last)
        BY <2>10, <4>1, <4>2 DEF OrderInv, Last
      <4>4. Before(deq[i], p)
        BY <1>2, <4>1, <4>2, <4>3, BeforeIsAnOrder
      <4> QED
        BY <4>1, <4>4
    <3> QED
      BY <2>6, <2>10, <3>1, <3>2
  <2>11. \A q \in heap' : Before(deq'[Len(deq')], q)
    BY <1>1, <2>2 DEF IsLeast
  <2> QED
    BY <2>1, <2>2, <2>8, <2>9, <2>10, <2>11
<1>4. CASE ~(file[p].ts >= ts)
  <2>1. Swallow /\ UNCHANGED <<deq, ts>> /\ Left' = Left /\ Last' = Last
    BY <1>1, <1>4 DEF Left, Last
  <2>2. SortedInv'
    BY <1>1, <2>1 DEF SortedInv
  <2>3. ASSUME SlightlyUnsorted
        PROVE  FALSE
    <3>1. deq # <<>>
      BY <1>2, <1>4 DEF SortedInv
    <3>2. Before(Last, p) /\ Last \in Items /\ ts = file[Last].ts
      BY <1>1, <2>3, <3>1, LastFacts
    <3>3. ts <= file[p].ts
      BY <1>2, <3>2, BeforeIsAnOrder
    <3> QED
      BY <1>2, <1>4, <3>3
  <2> QED
    BY <2>1, <2>2, <2>3
<1> QED
  BY <1>3, <1>4

\* A new item comes after the last that left the full heap: else the heap and
\* that one were too many to precede it in a slightly unsorted file.
LEMMA NewestIsLater ==
  ASSUME TypeInv, ReadInv, SortedInv, OrderInv, SlightlyUnsorted,
         phase = "reading", deq # <<>>, pos + 1 \in Items
  PROVE  Before(Last, pos + 1)
<1> SUFFICES ASSUME ~Before(Last, pos + 1) PROVE FALSE
  OBVIOUS
<1>1. CaptureType /\ pos \in Nat /\ heap \subseteq Items /\ IsFiniteSet(heap)
  <2>1. CaptureType /\ Len(file) \in Nat
    BY LenProperties DEF TypeInv, CaptureType
  <2> QED
    BY <2>1 DEF TypeInv, ConvertType, SorterType
<1>2. Last \in Items /\ Last \notin heap /\ Last \in 1..pos
  BY LastFacts DEF SortedInv, ReadInv
<1>3. \A q \in heap : Before(Last, q)
  BY DEF OrderInv
<1>4. Cardinality(heap) = Window
  BY DEF OrderInv
<1>5. Before(pos + 1, Last)
  BY <1>1, <1>2, BeforeIsAnOrder
<1>6. /\ \A q \in Items : file[q].ts \in Nat
      /\ file[pos + 1].ts <= file[Last].ts
      /\ \A q \in heap : file[Last].ts <= file[q].ts
  <2>1. \A q \in Items : file[q].ts \in Nat
    BY <1>1, ItemFacts DEF ItemRecord
  <2>2. file[pos + 1].ts <= file[Last].ts
    BY <1>1, <1>2, <1>5, BeforeIsAnOrder
  <2>3. \A q \in heap : file[Last].ts <= file[q].ts
    BY <1>1, <1>2, <1>3, BeforeIsAnOrder
  <2> QED
    BY <2>1, <2>2, <2>3
<1> DEFINE S == heap \cup {Last}
<1>7. S \subseteq Items /\ \A q \in S : q < pos + 1 /\ file[q].ts >= file[pos + 1].ts
  <2>1. \A q \in S : q \in 1..pos
    BY <1>2 DEF ReadInv
  <2>2. \A q \in S : file[q].ts >= file[pos + 1].ts
    BY <1>1, <1>2, <1>6
  <2> QED
    BY <1>1, <1>2, <2>1, <2>2
<1>8. Cardinality(S) = Window + 1
  BY <1>1, <1>2, <1>4, AddOne
<1> HIDE DEF S
<1>9. Cardinality(S) <= Window
  BY <1>1, <1>7, FewAreAhead
<1> QED
  BY <1>8, <1>9, WindowAssumption

\* Where the conversion is changes, and nothing of the heap.
LEMMA HeapStays ==
  ASSUME TypeInv, HeapInv, UNCHANGED captureVars, UNCHANGED <<sorter, swallowed>>,
         {p \in Items : p <= pos'} = {p \in Items : p <= pos}, swallowed => pos' = pos,
         \/ phase' = phase
         \/ phase = "waiting" /\ phase' = "reading"
         \/ phase = "reading" /\ phase' = "draining"
         \/ phase = "draining" /\ phase' = "parsing" /\ heap = {}
         \/ phase \in {"parsing", "pairing"} /\ phase' \in {"pairing", "returned", "failed"}
  PROVE  HeapInv'
<1>1. UNCHANGED <<file, Items, SlightlyUnsorted, heap, deq, ts, swallowed>>
  BY SameFile DEF sorter
<1>2. Left' = Left /\ Last' = Last
  BY <1>1 DEF Left, Last
<1>3. SortedInv'
  BY <1>1, <1>2 DEF HeapInv, SortedInv
<1>4. swallowed => (BadNext' <=> BadNext)
  BY <1>1 DEF BadNext
<1>5. AllInv'
  BY <1>1, <1>2, <1>4 DEF HeapInv, AllInv
<1>6. OrderInv'
  <2>1. ASSUME SlightlyUnsorted
        PROVE  /\ \A i, j \in 1..Len(deq) : i < j => Before(deq[i], deq[j])'
               /\ deq # <<>> => \A q \in heap : Before(Last, q)'
               /\ phase' \in {"waiting", "reading"} /\ deq # <<>> => Cardinality(heap) = Window
    BY <1>1, <1>2, <2>1 DEF HeapInv, OrderInv, Before
  <2> QED
    BY <1>1, <1>2, <2>1 DEF OrderInv
<1> QED
  BY <1>3, <1>5, <1>6 DEF HeapInv

LEMMA HeapWhileRecording ==
  ASSUME TypeInv, HeapInv, phase \in {"waiting", "reading"}, CaptureNext, UNCHANGED convertVars
  PROVE  HeapInv'
<1>1. UNCHANGED <<phase, pos, heap, deq, ts, swallowed>> /\ Left' = Left /\ Last' = Last
  BY DEF convertVars, Left, Last
<1>2. CaptureType /\ Items \subseteq Items' /\ \A p \in Items : file'[p] = file[p]
  BY ItemsGrow DEF TypeInv
<1>3. \A i \in 1..Len(deq) : deq[i] \in Items
  BY LeftFacts DEF TypeInv
<1>4. deq # <<>> => Last \in Items
  BY LastFacts DEF HeapInv
<1>5. SortedInv'
  BY <1>1, <1>2, <1>3, <1>4 DEF HeapInv, SortedInv
<1>6. OrderInv'
  <2>1. SlightlyUnsorted' => SlightlyUnsorted
    BY <1>2, OrderStays
  <2>2. \A p, q \in Items : Before(p, q) => Before(p, q)'
    BY <1>2, OrderStays
  <2>3. heap \subseteq Items
    BY DEF TypeInv, ConvertType, SorterType
  <2>4. ASSUME SlightlyUnsorted'
        PROVE  /\ \A i, j \in 1..Len(deq) : i < j => Before(deq[i], deq[j])'
               /\ deq # <<>> => \A q \in heap : Before(Last, q)'
               /\ deq # <<>> => Cardinality(heap) = Window
    <3>1. \A i, j \in 1..Len(deq) : i < j => Before(deq[i], deq[j])
      BY <2>1, <2>4 DEF HeapInv, OrderInv
    <3>2. deq # <<>> => \A q \in heap : Before(Last, q)
      BY <2>1, <2>4 DEF HeapInv, OrderInv
    <3>3. deq # <<>> => Cardinality(heap) = Window
      BY <2>1, <2>4 DEF HeapInv, OrderInv
    <3>4. \A i, j \in 1..Len(deq) : i < j => Before(deq[i], deq[j])'
      BY <1>1, <1>2, <1>3, <3>1 DEF Before
    <3>5. deq # <<>> => \A q \in heap : Before(Last, q)'
      BY <1>1, <1>2, <1>4, <2>3, <3>2 DEF Before
    <3> QED
      BY <3>3, <3>4, <3>5
  <2> QED
    BY <1>1, <2>4 DEF OrderInv
<1>7. AllInv'
  <2>1. ~swallowed
    BY DEF HeapInv, AllInv
  <2>2. Len(file) \in Nat /\ Len(file') \in Nat /\ Len(file) <= Len(file') /\ pos \in 0..Len(file)
        /\ \A p \in 1..Len(file) : file'[p] = file[p]
    BY FileGrows, CaptureTypeStep, LenProperties DEF TypeInv, CaptureType, ConvertType, SorterType
  <2>3. {p \in Items' : p <= pos} = {p \in Items : p <= pos}
    BY <2>2 DEF Items
  <2> QED
    BY <1>1, <2>1, <2>3 DEF HeapInv, AllInv
<1> QED
  BY <1>5, <1>6, <1>7 DEF HeapInv

\* What YieldInOrder says, put together with what the step does else.
LEMMA HeapAfterYield ==
  ASSUME TypeInv, HeapInv, UNCHANGED captureVars, NEW h, h \subseteq Items, h \cap Left = {}, Yield(h),
         SlightlyUnsorted /\ deq # <<>> => \A q \in h : Before(Last, q),
         phase \in {"reading", "draining"},
         phase = "reading" => Cardinality(heap') = Window,
         h \cup Left = {p \in Items : p <= pos'}
  PROVE  HeapInv'
<1>1. UNCHANGED <<file, Items, SlightlyUnsorted>> /\ Items' = Items
  BY SameFile
<1>2. ~swallowed
  BY DEF HeapInv, AllInv
<1>3. /\ SortedInv'
      /\ \/ /\ UNCHANGED <<phase, swallowed>> /\ heap' \cup Left' = h \cup Left
            /\ deq' # <<>>
            /\ SlightlyUnsorted =>
                 /\ \A i, j \in 1..Len(deq') : i < j => Before(deq'[i], deq'[j])
                 /\ \A q \in heap' : Before(deq'[Len(deq')], q)
         \/ Swallow /\ ~SlightlyUnsorted
  BY <1>1, YieldInOrder DEF HeapInv
<1>4. CASE UNCHANGED <<phase, swallowed>> /\ heap' \cup Left' = h \cup Left
           /\ (SlightlyUnsorted =>
                 /\ \A i, j \in 1..Len(deq') : i < j => Before(deq'[i], deq'[j])
                 /\ \A q \in heap' : Before(deq'[Len(deq')], q))
  <2>1. AllInv'
    BY <1>1, <1>2, <1>4 DEF AllInv
  <2>2. OrderInv'
    BY <1>1, <1>4 DEF OrderInv, Before, Last
  <2> QED
    BY <1>3, <2>1, <2>2 DEF HeapInv
<1>5. CASE Swallow /\ ~SlightlyUnsorted
  <2>1. OrderInv'
    BY <1>1, <1>5 DEF OrderInv
  <2>2. AllInv'
    BY <1>1, <1>5 DEF AllInv, Swallow
  <2> QED
    BY <1>3, <2>1, <2>2 DEF HeapInv
<1> QED
  BY <1>3, <1>4, <1>5

LEMMA HeapWhileReading ==
  ASSUME TypeInv, ReadInv, HeapInv, ReadItem
  PROVE  HeapInv'
<1>1. UNCHANGED captureVars /\ phase = "reading" /\ pos' = pos + 1
  BY DEF ReadItem
<1>2. Len(file) \in Nat /\ pos \in Nat /\ heap \subseteq Items /\ IsFiniteSet(heap) /\ Cardinality(heap) \in Nat
      /\ Cardinality(heap) <= Window /\ Window \in Nat /\ Left \subseteq Items
  <2>1. Len(file) \in Nat
    BY LenProperties DEF TypeInv, CaptureType
  <2>2. pos \in Nat /\ heap \subseteq Items /\ IsFiniteSet(heap) /\ Cardinality(heap) <= Window
    BY <2>1 DEF TypeInv, ConvertType, SorterType
  <2> QED
    BY <2>1, <2>2, LeftFacts, FS_CardinalityType, WindowAssumption DEF TypeInv
<1>3. pos + 1 \in Items /\ pos + 1 \notin heap /\ pos + 1 \notin Left
  <2>1. pos + 1 \in 1..Len(file) /\ pos + 1 \notin 1..pos
    BY <1>2 DEF ReadItem
  <2>2. file[pos + 1].kind = "item"
    BY DEF ReadItem
  <2> QED
    BY <2>1, <2>2 DEF Items, ReadInv
<1>4. ~swallowed /\ heap \cup Left = {p \in Items : p <= pos}
  BY <1>1 DEF HeapInv, AllInv
<1>5. heap \cup {pos + 1} \cup Left = {p \in Items : p <= pos'}
  <2>1. \A p \in Items : p <= pos + 1 <=> p <= pos \/ p = pos + 1
    BY <1>2, ItemFacts DEF TypeInv
  <2> QED
    BY <1>1, <1>3, <1>4, <2>1
<1>6. heap \cup {pos + 1} \subseteq Items /\ (heap \cup {pos + 1}) \cap Left = {}
      /\ IsFiniteSet(heap \cup {pos + 1}) /\ Cardinality(heap \cup {pos + 1}) = Cardinality(heap) + 1
  BY <1>2, <1>3, AddOne DEF HeapInv, SortedInv
<1>7. CASE Cardinality(heap) < Window
  <2>1. heap' = heap \cup {pos + 1} /\ UNCHANGED <<phase, ts, deq, swallowed>> /\ Left' = Left /\ Last' = Last
    BY <1>7 DEF ReadItem, Left, Last
  <2>2. UNCHANGED <<file, Items, SlightlyUnsorted>> /\ Items' = Items
    BY <1>1, SameFile
  <2>3. SortedInv'
    BY <1>6, <2>1, <2>2 DEF HeapInv, SortedInv
  <2>4. AllInv'
    BY <1>1, <1>4, <1>5, <2>1, <2>2 DEF AllInv
  <2>5. SlightlyUnsorted => deq = <<>>
    BY <1>1, <1>2, <1>7 DEF HeapInv, OrderInv
  <2>6. Len(<<>>) = 0 /\ 1..0 = {}
    OBVIOUS
  <2>7. OrderInv'
    BY <2>1, <2>2, <2>5, <2>6 DEF OrderInv
  <2> QED
    BY <2>3, <2>4, <2>7 DEF HeapInv
<1>8. CASE ~(Cardinality(heap) < Window)
  <2>1. Yield(heap \cup {pos + 1}) /\ Cardinality(heap) = Window
    BY <1>2, <1>8 DEF ReadItem
  <2>2. Cardinality(heap') = Window
    <3>1. Cardinality(heap \cup {pos + 1}) <= Window + 1
      BY <1>2, <1>6, <2>1
    <3>2. Cardinality(heap') = Cardinality(heap \cup {pos + 1}) - 1
      BY <1>6, <2>1, <3>1, YieldType
    <3> QED
      BY <1>2, <1>6, <2>1, <3>2
  <2>3. ASSUME SlightlyUnsorted, deq # <<>>
        PROVE  \A q \in heap \cup {pos + 1} : Before(Last, q)
    <3>1. Before(Last, pos + 1)
      BY <1>1, <1>3, <2>3, NewestIsLater DEF HeapInv
    <3>2. \A q \in heap : Before(Last, q)
      BY <1>1, <2>3 DEF HeapInv, OrderInv
    <3> QED
      BY <3>1, <3>2
  <2> QED
    BY <1>1, <1>5, <1>6, <2>1, <2>2, <2>3, HeapAfterYield
<1> QED
  BY <1>7, <1>8

LEMMA HeapAtMark ==
  ASSUME TypeInv, HeapInv, ReadMark
  PROVE  HeapInv'
<1>1. UNCHANGED captureVars /\ UNCHANGED <<sorter, pairing>> /\ phase = "reading"
      /\ pos < Len(file) /\ file[pos + 1].kind # "item" /\ Len(file) \in Nat /\ pos \in 0..Len(file)
  BY LenProperties DEF ReadMark, TypeInv, CaptureType, ConvertType, SorterType
<1>2. CASE pos' = pos + 1 /\ UNCHANGED <<phase, swallowed>>
  <2>1. {p \in Items : p <= pos'} = {p \in Items : p <= pos}
    BY <1>1, <1>2 DEF Items
  <2>2. ~swallowed
    BY <1>1 DEF HeapInv, AllInv
  <2> QED
    BY <1>1, <1>2, <2>1, <2>2, HeapStays
<1>3. CASE file[pos + 1].kind \notin {"item", "few left", "torn header"} /\ Swallow /\ pos' = pos
  <2>1. UNCHANGED <<file, Items, SlightlyUnsorted, heap, deq, ts>> /\ Left' = Left /\ Last' = Last
    BY <1>1, SameFile DEF sorter, Left, Last
  <2>2. BadNext'
    BY <1>1, <1>3, <2>1 DEF BadNext
  <2>3. AllInv'
    BY <1>1, <1>3, <2>1, <2>2 DEF HeapInv, AllInv, Swallow
  <2>4. SortedInv'
    BY <2>1 DEF HeapInv, SortedInv
  <2>5. OrderInv'
    <3>1. SlightlyUnsorted =>
            /\ \A i, j \in 1..Len(deq) : i < j => Before(deq[i], deq[j])'
            /\ deq # <<>> => \A q \in heap : Before(Last, q)'
      BY <2>1 DEF HeapInv, OrderInv, Before
    <3> QED
      BY <1>3, <2>1, <3>1 DEF OrderInv, Swallow
  <2> QED
    BY <2>3, <2>4, <2>5 DEF HeapInv
<1> QED
  BY <1>1, <1>2, <1>3 DEF ReadMark

LEMMA HeapWhileDraining ==
  ASSUME TypeInv, HeapInv, Drain
  PROVE  HeapInv'
<1>1. UNCHANGED captureVars /\ phase = "draining" /\ pos' = pos
  BY DEF Drain
<1>2. CASE heap # {} /\ Yield(heap)
  <2>1. heap \subseteq Items /\ heap \cap Left = {}
    BY DEF TypeInv, ConvertType, SorterType, HeapInv, SortedInv
  <2>2. heap \cup Left = {p \in Items : p <= pos'}
    BY <1>1 DEF HeapInv, AllInv
  <2>3. SlightlyUnsorted /\ deq # <<>> => \A q \in heap : Before(Last, q)
    BY <1>1 DEF HeapInv, OrderInv
  <2> QED
    BY <1>1, <1>2, <2>1, <2>2, <2>3, HeapAfterYield
<1>3. CASE heap = {} /\ phase' = "parsing" /\ UNCHANGED <<sorter, swallowed>>
  BY <1>1, <1>3, HeapStays
<1> QED
  BY <1>2, <1>3 DEF Drain

LEMMA HeapStep ==
  ASSUME TypeInv, ReadInv, HeapInv, [Next]_vars
  PROVE  HeapInv'
<1>1. CASE phase \in {"waiting", "reading"} /\ CaptureNext /\ UNCHANGED convertVars
  BY <1>1, HeapWhileRecording
<1>2. CASE ReadItem
  BY <1>2, HeapWhileReading
<1>3. CASE ReadMark
  BY <1>3, HeapAtMark
<1>4. CASE Drain
  BY <1>4, HeapWhileDraining
<1>5. CASE Start \/ EndOfFile \/ Parse \/ ParseFails \/ PairNothing \/ PairEnqueued \/ PairDequeued \/ Return
  <2>1. UNCHANGED captureVars /\ UNCHANGED <<sorter, swallowed>> /\ pos' = pos
    BY <1>5 DEF Start, EndOfFile, Parse, ParseFails, PairNothing, PairEnqueued, PairDequeued, Return
  <2>2. \/ phase = "waiting" /\ phase' = "reading"
        \/ phase = "reading" /\ phase' = "draining"
        \/ phase \in {"parsing", "pairing"} /\ phase' \in {"pairing", "returned", "failed"}
    BY <1>5 DEF Start, EndOfFile, Parse, ParseFails, PairNothing, PairEnqueued, PairDequeued, Return
  <2> QED
    BY <2>1, <2>2, HeapStays
<1>6. CASE UNCHANGED vars
  <2>1. UNCHANGED captureVars /\ UNCHANGED <<sorter, swallowed>> /\ pos' = pos /\ phase' = phase
    BY <1>6 DEF vars, convertVars, sorter
  <2> QED
    BY <2>1, HeapStays
<1> QED
  BY <1>1, <1>2, <1>3, <1>4, <1>5, <1>6 DEF Next, Convert

HeapSafe == TypeInv /\ ReadInv /\ HeapInv

LEMMA HeapSafeInvariant == Spec => []HeapSafe
<1>1. Init => ReadInv /\ HeapInv
  <2> SUFFICES ASSUME Init PROVE ReadInv /\ HeapInv
    OBVIOUS
  <2>1. heap = {} /\ pos = 0 /\ deq = <<>> /\ DOMAIN deq = {} /\ ts = 0 /\ ~swallowed /\ phase = "waiting" /\ file = <<>>
    BY DEF Init, CaptureInit
  <2>2. Left = {} /\ Len(deq) = 0 /\ 1..0 = {} /\ Len(file) = 0
    BY <2>1, EmptySeq DEF Left
  <2>3. Items = {}
    BY <2>2 DEF Items
  <2> QED
    BY <2>1, <2>2, <2>3 DEF ReadInv, HeapInv, SortedInv, OrderInv, AllInv
<1> QED
  BY <1>1, TypeInit, TypeStep, ReadStep, HeapStep, PTL DEF Spec, HeapSafe

\* A conversion that returns kept every item that it had read, each once and in
\* the order of time, if it swallowed no exception or if the file is no more out
\* of order than the window allows and has no bad record (parse_raw.py:104-140).
THEOREM ConversionIsComplete == Spec => []Complete
<1>1. HeapSafe => Complete
  <2>1. ASSUME HeapSafe, phase = "returned", swallowed => SlightlyUnsorted /\ WellFormed
        PROVE  /\ Left = {p \in Items : p <= pos}
               /\ \A i, j \in DOMAIN deq :
                    i < j => deq[i] # deq[j] /\ file[deq[i]].ts <= file[deq[j]].ts
    <3>1. DOMAIN deq = 1..Len(deq)
      BY <2>1, LenProperties DEF HeapSafe, TypeInv, ConvertType, SorterType
    <3>2. BadNext => ~WellFormed
      <4>1. pos \in Nat /\ Len(file) \in Nat
        BY <2>1, LenProperties DEF HeapSafe, TypeInv, CaptureType, ConvertType, SorterType
      <4>2. pos < Len(file) => pos + 1 \in 1..Len(file)
        BY <4>1
      <4> QED
        BY <4>2 DEF BadNext, WellFormed
    <3>3. ~swallowed
      BY <2>1, <3>2 DEF HeapSafe, HeapInv, AllInv
    <3> QED
      BY <2>1, <3>1, <3>3 DEF HeapSafe, HeapInv, AllInv, SortedInv
  <2> QED
    BY <2>1, Zenon DEF Complete, WellFormed
<1> QED
  BY <1>1, HeapSafeInvariant, PTL

-----------------------------------------------------------------------------
(* The records of the kernel, wherever they are.                             *)

Elements(s) == {s[n] : n \in 1..Len(s)}
Buffered == UNION {Elements(ring[c]) : c \in Cpus}
Recorded == {r \in Buffered \cup Elements(file) : r.kind = "item"}

LEMMA ElementsOfAppend ==
  ASSUME NEW S, NEW s \in Seq(S), NEW e \in S
  PROVE  Elements(Append(s, e)) = Elements(s) \cup {e}
<1>1. /\ Len(s) \in Nat /\ Len(Append(s, e)) = Len(s) + 1
      /\ \A n \in 1..Len(s) : Append(s, e)[n] = s[n]
      /\ Append(s, e)[Len(s) + 1] = e
  BY AppendProperties, LenProperties
<1>2. \A n \in 1..(Len(s) + 1) : n \in 1..Len(s) \/ n = Len(s) + 1
  BY <1>1
<1>3. \A n \in 1..Len(s) : n \in 1..(Len(s) + 1)
  BY <1>1
<1>4. Len(s) + 1 \in 1..(Len(s) + 1)
  BY <1>1
<1> QED
  BY <1>1, <1>2, <1>3, <1>4 DEF Elements

LEMMA ElementsOfTail ==
  ASSUME NEW S, NEW s \in Seq(S), s # <<>>
  PROVE  Elements(s) = {Head(s)} \cup Elements(Tail(s))
<1>1. /\ Len(s) \in Nat \ {0} /\ Len(Tail(s)) = Len(s) - 1 /\ Head(s) = s[1]
      /\ \A n \in 1..Len(Tail(s)) : Tail(s)[n] = s[n + 1]
  BY HeadTailProperties, EmptySeq
<1>2. \A n \in 1..Len(s) : n = 1 \/ (n - 1 \in 1..Len(Tail(s)) /\ n = (n - 1) + 1)
  BY <1>1
<1>3. \A n \in 1..(Len(s) - 1) : n + 1 \in 1..Len(s)
  BY ONLY <1>1
<1>4. 1 \in 1..Len(s)
  BY <1>1
<1>5. \A n \in 1..Len(s) : n = 1 \/ s[n] \in Elements(Tail(s))
  <2> SUFFICES ASSUME NEW n \in 1..Len(s), n # 1
               PROVE  s[n] \in Elements(Tail(s))
    OBVIOUS
  <2>1. n - 1 \in 1..Len(Tail(s)) /\ (n - 1) + 1 = n
    BY <1>2
  <2>2. Tail(s)[n - 1] = s[n]
    BY <1>1, <2>1
  <2> QED
    BY <2>1, <2>2 DEF Elements
<1>6. Elements(Tail(s)) \subseteq Elements(s)
  BY <1>1, <1>3 DEF Elements
<1> QED
  BY <1>1, <1>4, <1>5, <1>6 DEF Elements

LEMMA ElementsOfConcat ==
  ASSUME NEW S, NEW s \in Seq(S), NEW t \in Seq(S)
  PROVE  Elements(s \o t) = Elements(s) \cup Elements(t)
<1>1. /\ Len(s) \in Nat /\ Len(t) \in Nat /\ Len(s \o t) = Len(s) + Len(t)
      /\ \A n \in 1..Len(s) + Len(t) : (s \o t)[n] = IF n <= Len(s) THEN s[n] ELSE t[n - Len(s)]
  BY ConcatProperties, LenProperties
<1>2. \A n \in 1..Len(s) + Len(t) : n \in 1..Len(s) \/ (n - Len(s) \in 1..Len(t) /\ ~(n <= Len(s)))
  BY <1>1
<1>3. \A n \in 1..Len(s) : n \in 1..Len(s) + Len(t) /\ n <= Len(s)
  BY <1>1
<1>4. \A n \in 1..Len(t) : n + Len(s) \in 1..Len(s) + Len(t) /\ ~(n + Len(s) <= Len(s)) /\ (n + Len(s)) - Len(s) = n
  BY <1>1
<1>5. \A n \in 1..Len(s) + Len(t) : (s \o t)[n] \in Elements(s) \cup Elements(t)
  BY <1>1, <1>2 DEF Elements
<1>6. \A n \in 1..Len(s) : s[n] \in Elements(s \o t)
  BY <1>1, <1>3 DEF Elements
<1>7. \A n \in 1..Len(t) : t[n] \in Elements(s \o t)
  <2> SUFFICES ASSUME NEW n \in 1..Len(t) PROVE t[n] \in Elements(s \o t)
    OBVIOUS
  <2>1. (s \o t)[n + Len(s)] = t[n] /\ n + Len(s) \in 1..Len(s \o t)
    BY <1>1, <1>4
  <2> QED
    BY <2>1 DEF Elements
<1> QED
  BY <1>1, <1>5, <1>6, <1>7 DEF Elements

LEMMA RecordedFacts ==
  ASSUME CaptureType
  PROVE  Recorded \subseteq ItemRecord
<1>1. file \in Seq(Record) /\ \A c \in Cpus : ring[c] \in Seq(Record)
  BY DEF CaptureType, KernelType
<1>2. Elements(file) \subseteq Record /\ \A c \in Cpus : Elements(ring[c]) \subseteq Record
  BY <1>1, ElementOfSeq DEF Elements
<1> QED
  BY <1>2, RecordKinds DEF Recorded, Buffered

\* What a submitted record does when none is lost.
LEMMA SubmitRecords ==
  ASSUME CaptureType, NEW c \in Cpus, NEW item \in ItemRecord, Submit(c, item), file' = file,
         \A d \in Cpus : ~missed[d], ~dropped'
  PROVE  /\ ring' = [ring EXCEPT ![c] = Append(ring[c], item)]
         /\ \A d \in Cpus : ~missed'[d]
         /\ Recorded' = Recorded \cup {item}
<1>1. ring \in [Cpus -> Seq(Record)] /\ missed \in [Cpus -> BOOLEAN] /\ item \in Record /\ item.kind = "item"
  BY DEF CaptureType, KernelType, Record, ItemRecord
<1>2. Len(ring[c]) < RingSize
  BY DEF Submit
<1>3. ring' = [ring EXCEPT ![c] = (ring[c] \o <<>>) \o <<item>>] /\ missed' = [missed EXCEPT ![c] = FALSE]
  BY <1>2 DEF Submit
<1>4. (ring[c] \o <<>>) \o <<item>> = Append(ring[c], item)
  <2>1. ring[c] \in Seq(Record)
    BY <1>1
  <2> QED
    BY <1>1, <2>1, ConcatEmptySeq, AppendIsConcat
<1>5. ring' = [ring EXCEPT ![c] = Append(ring[c], item)]
  BY <1>3, <1>4
<1>6. Elements(Append(ring[c], item)) = Elements(ring[c]) \cup {item}
  BY <1>1, ElementsOfAppend
<1>7. /\ \A d \in Cpus \ {c} : ring'[d] = ring[d]
      /\ ring'[c] = Append(ring[c], item)
  BY <1>1, <1>5
<1>8. Buffered' = Buffered \cup {item}
  BY <1>6, <1>7 DEF Buffered
<1>9. Recorded' = Recorded \cup {item}
  BY <1>1, <1>8 DEF Recorded
<1>10. \A d \in Cpus : ~missed'[d]
  BY <1>1, <1>3
<1> QED
  BY <1>5, <1>9, <1>10

\* The monitor loses and adds none.
LEMMA MonitorRecords ==
  ASSUME CaptureType, MonitorEnds \/ Signal \/ \E c \in Cpus : Poll(c)
  PROVE  Recorded' = Recorded
<1>1. CASE MonitorEnds
  <2>1. PICK m \in {<<>>, <<"torn">>, <<"torn header">>, <<"few left">>, <<"many left">>,
                    <<"exception", "few left">>} :
          file' = file \o [j \in DOMAIN m |-> Mark(m[j])]
    BY <1>1 DEF MonitorEnds
  <2> DEFINE e == [j \in DOMAIN m |-> Mark(m[j])]
  <2>2. e \in Seq(Record) /\ \A j \in 1..Len(e) : e[j].kind \in Marks
    <3>1. m \in Seq(Marks)
      BY EndType
    <3>2. e = [j \in DOMAIN m |-> Mark(m[j])]
      OBVIOUS
    <3> HIDE DEF e
    <3>3. e \in Seq(Record) /\ \A j \in 1..Len(e) : e[j].kind = m[j] /\ m[j] \in Marks
      BY ONLY <3>1, <3>2, MarkRecords
    <3> QED
      BY <3>3
  <2>3. file' = file \o e /\ ring' = ring
    BY <1>1, <2>1 DEF MonitorEnds, kernel
  <2> HIDE DEF e
  <2>4. Elements(file') = Elements(file) \cup Elements(e)
    <3>1. file \in Seq(Record) /\ e \in Seq(Record)
      BY <2>2 DEF CaptureType
    <3>2. Elements(file \o e) = Elements(file) \cup Elements(e)
      BY ONLY <3>1, ElementsOfConcat, ZenonT(30)
    <3>3. Elements(file') = Elements(file \o e)
      BY <2>3 DEF Elements
    <3> QED
      BY ONLY <3>2, <3>3
  <2>5. \A r \in Elements(e) : r.kind # "item"
    BY <2>2, RecordKinds DEF Elements
  <2> QED
    BY <2>3, <2>4, <2>5 DEF Recorded, Buffered
<1>2. ASSUME NEW c \in Cpus, Poll(c)
      PROVE  Recorded' = Recorded
  <2>1. ring \in [Cpus -> Seq(Record)] /\ ring[c] \in Seq(Record) /\ ring[c] # <<>>
    BY <1>2 DEF Poll, CaptureType, KernelType
  <2>2. file' = Append(file, Head(ring[c])) /\ ring' = [ring EXCEPT ![c] = Tail(ring[c])]
    BY <1>2 DEF Poll
  <2>3. Elements(ring[c]) = {Head(ring[c])} \cup Elements(Tail(ring[c]))
    BY <2>1, ElementsOfTail
  <2>4. Elements(file') = Elements(file) \cup {Head(ring[c])}
    BY <2>1, <2>2, HeadTailProperties, ElementsOfAppend DEF CaptureType
  <2>5. ring'[c] = Tail(ring[c]) /\ \A d \in Cpus \ {c} : ring'[d] = ring[d]
    BY <2>1, <2>2
  <2>6. Buffered \cup {Head(ring[c])} = Buffered' \cup {Head(ring[c])} /\ Head(ring[c]) \in Buffered
    BY <2>3, <2>5 DEF Buffered
  <2> QED
    BY <2>4, <2>6 DEF Recorded
<1>3. CASE Signal
  BY <1>3 DEF Signal, kernel, Recorded, Buffered
<1> QED
  BY <1>1, <1>2, <1>3

\* No event is recorded twice.
Same(r, s) == r.kind = "item" /\ s.kind = "item" /\ r.event = s.event /\ r.packet = s.packet

OnceInv ==
  /\ \A p, q \in 1..Len(file) : Same(file[p], file[q]) => p = q
  /\ \A c \in Cpus : \A n \in 1..Len(ring[c]), p \in 1..Len(file) : ~Same(ring[c][n], file[p])
  /\ \A c, d \in Cpus : \A n \in 1..Len(ring[c]), m \in 1..Len(ring[d]) :
       Same(ring[c][n], ring[d][m]) => c = d /\ n = m

LEMMA PlacesOfRecords ==
  ASSUME CaptureType
  PROVE  /\ \A p \in 1..Len(file) : file[p].kind = "item" => file[p] \in Recorded
         /\ \A c \in Cpus : \A n \in 1..Len(ring[c]) : ring[c][n].kind = "item" => ring[c][n] \in Recorded
BY DEF Recorded, Buffered, Elements

LEMMA OnceAfterSubmit ==
  ASSUME CaptureType, OnceInv, NEW c \in Cpus, NEW item \in ItemRecord, file' = file,
         ring' = [ring EXCEPT ![c] = Append(ring[c], item)],
         \A r \in Recorded : ~(r.event = item.event /\ r.packet = item.packet)
  PROVE  OnceInv'
<1>1. ring \in [Cpus -> Seq(Record)] /\ item \in Record /\ Len(ring[c]) \in Nat
  BY LenProperties DEF CaptureType, KernelType, Record
<1>2. /\ Len(ring'[c]) = Len(ring[c]) + 1 /\ ring'[c][Len(ring[c]) + 1] = item
      /\ \A n \in 1..Len(ring[c]) : ring'[c][n] = ring[c][n]
      /\ \A d \in Cpus \ {c} : ring'[d] = ring[d]
  <2>1. ring[c] \in Seq(Record) /\ ring'[c] = Append(ring[c], item)
    BY <1>1
  <2> QED
    BY <1>1, <2>1, AppendProperties
<1>3. ASSUME NEW d \in Cpus, NEW n \in 1..Len(ring'[d])
      PROVE  \/ n \in 1..Len(ring[d]) /\ ring'[d][n] = ring[d][n]
             \/ d = c /\ n = Len(ring[c]) + 1 /\ ring'[d][n] = item
  <2>1. CASE d = c
    BY <1>1, <1>2, <1>3, <2>1
  <2>2. CASE d # c
    BY <1>2, <1>3, <2>2
  <2> QED
    BY <2>1, <2>2
<1>4. /\ \A p \in 1..Len(file) : ~Same(item, file[p]) /\ ~Same(file[p], item)
      /\ \A d \in Cpus : \A n \in 1..Len(ring[d]) : ~Same(item, ring[d][n]) /\ ~Same(ring[d][n], item)
  BY PlacesOfRecords DEF Same
<1>5. \A p, q \in 1..Len(file') : Same(file'[p], file'[q]) => p = q
  BY DEF OnceInv
<1>6. \A d \in Cpus : \A n \in 1..Len(ring'[d]), p \in 1..Len(file') : ~Same(ring'[d][n], file'[p])
  BY <1>3, <1>4 DEF OnceInv
<1>7. ASSUME NEW d \in Cpus, NEW e \in Cpus, NEW n \in 1..Len(ring'[d]), NEW m \in 1..Len(ring'[e]),
             Same(ring'[d][n], ring'[e][m])
      PROVE  d = e /\ n = m
  <2>1. \/ n \in 1..Len(ring[d]) /\ ring'[d][n] = ring[d][n]
        \/ d = c /\ n = Len(ring[c]) + 1 /\ ring'[d][n] = item
    BY <1>3
  <2>2. \/ m \in 1..Len(ring[e]) /\ ring'[e][m] = ring[e][m]
        \/ e = c /\ m = Len(ring[c]) + 1 /\ ring'[e][m] = item
    BY <1>3
  <2>3. CASE n \in 1..Len(ring[d]) /\ ring'[d][n] = ring[d][n] /\ m \in 1..Len(ring[e]) /\ ring'[e][m] = ring[e][m]
    <3>1. Same(ring[d][n], ring[e][m])
      BY ONLY <1>7, <2>3
    <3>2. \A x, y \in Cpus : \A k1 \in 1..Len(ring[x]), k2 \in 1..Len(ring[y]) :
            Same(ring[x][k1], ring[y][k2]) => x = y /\ k1 = k2
      BY DEF OnceInv
    <3>3. n \in 1..Len(ring[d]) /\ m \in 1..Len(ring[e])
      BY <2>3
    <3> QED
      BY ONLY <3>1, <3>2, <3>3, d \in Cpus, e \in Cpus
  <2>4. CASE ring'[d][n] = item /\ m \in 1..Len(ring[e]) /\ ring'[e][m] = ring[e][m]
    <3>1. Same(item, ring[e][m])
      BY ONLY <1>7, <2>4
    <3> QED
      BY ONLY <1>4, <2>4, <3>1
  <2>5. CASE n \in 1..Len(ring[d]) /\ ring'[d][n] = ring[d][n] /\ ring'[e][m] = item
    <3>1. Same(ring[d][n], item)
      BY ONLY <1>7, <2>5
    <3> QED
      BY ONLY <1>4, <2>5, <3>1
  <2> QED
    BY ONLY <2>1, <2>2, <2>3, <2>4, <2>5
<1> QED
  BY <1>5, <1>6, <1>7 DEF OnceInv

LEMMA OnceAfterPoll ==
  ASSUME CaptureType, OnceInv, NEW c \in Cpus, Poll(c)
  PROVE  OnceInv'
<1>1. ring \in [Cpus -> Seq(Record)] /\ ring[c] \in Seq(Record) /\ ring[c] # <<>>
      /\ file \in Seq(Record) /\ Len(file) \in Nat
  BY LenProperties DEF Poll, CaptureType, KernelType
<1>2. file' = Append(file, Head(ring[c])) /\ ring' = [ring EXCEPT ![c] = Tail(ring[c])]
  BY DEF Poll
<1>3. /\ Len(ring[c]) \in Nat \ {0} /\ Head(ring[c]) = ring[c][1] /\ Head(ring[c]) \in Record
      /\ Len(Tail(ring[c])) = Len(ring[c]) - 1
      /\ \A n \in 1..Len(Tail(ring[c])) : Tail(ring[c])[n] = ring[c][n + 1]
  BY <1>1, HeadTailProperties, EmptySeq
<1>4. /\ Len(file') = Len(file) + 1 /\ file'[Len(file) + 1] = ring[c][1]
      /\ \A p \in 1..Len(file) : file'[p] = file[p]
  BY <1>1, <1>2, <1>3, AppendProperties
<1>5. ring'[c] = Tail(ring[c]) /\ \A d \in Cpus \ {c} : ring'[d] = ring[d]
  BY <1>1, <1>2
\* Where a record of the buffers was before.
<1> DEFINE Was(d, n) == IF d = c THEN n + 1 ELSE n
<1>6. \A d \in Cpus : \A n \in 1..Len(ring'[d]) :
        Was(d, n) \in 1..Len(ring[d]) /\ ring'[d][n] = ring[d][Was(d, n)] /\ n \in Nat
        /\ (d = c => Was(d, n) # 1)
  <2>1. \A n \in 1..Len(Tail(ring[c])) : n + 1 \in 1..Len(ring[c]) /\ n + 1 # 1 /\ n \in Nat
    BY <1>3
  <2>2. ASSUME NEW d \in Cpus, NEW n \in 1..Len(ring'[d])
        PROVE  Was(d, n) \in 1..Len(ring[d]) /\ ring'[d][n] = ring[d][Was(d, n)] /\ n \in Nat
               /\ (d = c => Was(d, n) # 1)
    <3>1. CASE d = c
      BY <1>3, <1>5, <2>1, <3>1
    <3>2. CASE d # c
      BY <1>5, <3>2
    <3> QED
      BY <3>1, <3>2
  <2> QED
    BY <2>2
<1>7. \A p \in 1..Len(file') : p \in 1..Len(file) \/ p = Len(file) + 1
  BY <1>1, <1>4
<1>8. 1 \in 1..Len(ring[c])
  BY <1>3
<1>9. \A d, e \in Cpus : \A n \in 1..Len(ring'[d]), m \in 1..Len(ring'[e]) : d = e /\ Was(d, n) = Was(e, m) => n = m
  BY <1>6
<1> HIDE DEF Was
<1>10. ASSUME NEW p \in 1..Len(file'), NEW q \in 1..Len(file'), Same(file'[p], file'[q])
       PROVE  p = q
  <2>1. CASE p \in 1..Len(file) /\ q \in 1..Len(file)
    BY <1>4, <1>10, <2>1 DEF OnceInv
  <2>2. CASE p \in 1..Len(file) /\ q = Len(file) + 1
    <3>1. Same(ring[c][1], file[p])
      BY <1>4, <1>10, <2>2 DEF Same
    <3> QED
      BY <1>8, <2>2, <3>1 DEF OnceInv
  <2>3. CASE p = Len(file) + 1 /\ q \in 1..Len(file)
    <3>1. Same(ring[c][1], file[q])
      BY <1>4, <1>10, <2>3
    <3> QED
      BY <1>8, <2>3, <3>1 DEF OnceInv
  <2> QED
    BY <1>7, <2>1, <2>2, <2>3
<1>11. ASSUME NEW d \in Cpus, NEW n \in 1..Len(ring'[d]), NEW p \in 1..Len(file'), Same(ring'[d][n], file'[p])
       PROVE  FALSE
  <2>1. Was(d, n) \in 1..Len(ring[d]) /\ ring'[d][n] = ring[d][Was(d, n)] /\ (d = c => Was(d, n) # 1)
    BY <1>6
  <2>2. CASE p \in 1..Len(file)
    BY <1>4, <1>11, <2>1, <2>2 DEF OnceInv
  <2>3. CASE p = Len(file) + 1
    <3>1. Same(ring[d][Was(d, n)], ring[c][1])
      BY <1>4, <1>11, <2>1, <2>3
    <3> QED
      BY <1>8, <2>1, <3>1 DEF OnceInv
  <2> QED
    BY <1>7, <2>2, <2>3
<1>12. ASSUME NEW d \in Cpus, NEW e \in Cpus, NEW n \in 1..Len(ring'[d]), NEW m \in 1..Len(ring'[e]),
              Same(ring'[d][n], ring'[e][m])
       PROVE  d = e /\ n = m
  <2>1. Was(d, n) \in 1..Len(ring[d]) /\ ring'[d][n] = ring[d][Was(d, n)]
    BY <1>6
  <2>2. Was(e, m) \in 1..Len(ring[e]) /\ ring'[e][m] = ring[e][Was(e, m)]
    BY <1>6
  <2>3. Same(ring[d][Was(d, n)], ring[e][Was(e, m)])
    BY <1>12, <2>1, <2>2
  <2>4. d = e /\ Was(d, n) = Was(e, m)
    BY <2>1, <2>2, <2>3 DEF OnceInv
  <2> QED
    BY <1>9, <2>4
<1> QED
  BY <1>10, <1>11, <1>12 DEF OnceInv

LEMMA TwoIntervals ==
  ASSUME NEW a \in Nat, NEW b \in Nat
  PROVE  \A p \in 1..a + b : /\ p <= a => p \in 1..a
                             /\ ~(p <= a) => p - a \in 1..b
OBVIOUS

LEMMA OnceAfterEnd ==
  ASSUME CaptureType, OnceInv, MonitorEnds
  PROVE  OnceInv'
<1>1. PICK m \in {<<>>, <<"torn">>, <<"torn header">>, <<"few left">>, <<"many left">>,
                  <<"exception", "few left">>} :
        file' = file \o [j \in DOMAIN m |-> Mark(m[j])]
  BY DEF MonitorEnds
<1> DEFINE e == [j \in DOMAIN m |-> Mark(m[j])]
<1>2. e \in Seq(Record) /\ \A j \in 1..Len(e) : e[j].kind \in Marks
  <2>1. m \in Seq(Marks)
    BY EndType
  <2>2. e = [j \in DOMAIN m |-> Mark(m[j])]
    OBVIOUS
  <2> HIDE DEF e
  <2>3. e \in Seq(Record) /\ \A j \in 1..Len(e) : e[j].kind = m[j] /\ m[j] \in Marks
    BY <2>1, <2>2, MarkRecords
  <2> QED
    BY <2>3
<1>3. file' = file \o e /\ ring' = ring
  BY <1>1 DEF MonitorEnds, kernel
<1> HIDE DEF e
<1>4. /\ file \in Seq(Record) /\ Len(file) \in Nat /\ Len(e) \in Nat /\ Len(file') = Len(file) + Len(e)
      /\ \A p \in 1..Len(file) + Len(e) : file'[p] = IF p <= Len(file) THEN file[p] ELSE e[p - Len(file)]
  BY <1>2, <1>3, ConcatProperties, LenProperties DEF CaptureType
<1>5. Len(file) \in Nat /\ Len(e) \in Nat
  BY <1>4
<1>6. \A p \in 1..Len(file) + Len(e) : /\ p <= Len(file) => p \in 1..Len(file)
                                       /\ ~(p <= Len(file)) => p - Len(file) \in 1..Len(e)
  BY ONLY <1>5, TwoIntervals
<1>7. \A p \in 1..Len(file') : file'[p].kind = "item" => p \in 1..Len(file) /\ file'[p] = file[p]
  <2> SUFFICES ASSUME NEW p \in 1..Len(file'), file'[p].kind = "item"
               PROVE  p \in 1..Len(file) /\ file'[p] = file[p]
    OBVIOUS
  <2>0. p \in 1..Len(file) + Len(e)
    BY <1>4
  <2>1. CASE p <= Len(file)
    BY <1>4, <1>6, <2>0, <2>1
  <2>2. CASE ~(p <= Len(file))
    <3>1. file'[p] = e[p - Len(file)] /\ p - Len(file) \in 1..Len(e)
      BY <1>4, <1>6, <2>0, <2>2
    <3> QED
      BY <1>2, <3>1, RecordKinds
  <2> QED
    BY <2>1, <2>2
<1>8. ASSUME NEW p \in 1..Len(file'), NEW q \in 1..Len(file'), Same(file'[p], file'[q])
      PROVE  p = q
  <2>1. p \in 1..Len(file) /\ file'[p] = file[p] /\ q \in 1..Len(file) /\ file'[q] = file[q]
    BY <1>7, <1>8 DEF Same
  <2>2. Same(file[p], file[q])
    BY <1>8, <2>1
  <2> QED
    BY <2>1, <2>2 DEF OnceInv
<1>9. ASSUME NEW d \in Cpus, NEW n \in 1..Len(ring'[d]), NEW p \in 1..Len(file'), Same(ring'[d][n], file'[p])
      PROVE  FALSE
  <2>1. p \in 1..Len(file) /\ file'[p] = file[p]
    BY <1>7, <1>9 DEF Same
  <2>2. Same(ring[d][n], file[p]) /\ n \in 1..Len(ring[d])
    BY <1>3, <1>9, <2>1
  <2> QED
    BY <2>1, <2>2 DEF OnceInv
<1>10. \A c, d \in Cpus : \A n \in 1..Len(ring'[c]), l \in 1..Len(ring'[d]) :
         Same(ring'[c][n], ring'[d][l]) => c = d /\ n = l
  BY <1>3 DEF OnceInv
<1> QED
  BY <1>8, <1>9, <1>10 DEF OnceInv

\* The packets of the queue: no two are one, or have one address; and each was
\* recorded, as enqueued and not as dequeued.
Queued(r) == \E a \in 1..Len(queue) : queue[a].id = r.packet
EnqueueOf(e, skb, packet) ==
  e.event = "enqueue" /\ e.misc = 0 /\ e.packet = packet /\ e.skb = skb

QueueInv ==
  /\ \A a \in 1..Len(queue) : queue[a].id <= events
  /\ \A a, b \in 1..Len(queue) : queue[a].id = queue[b].id \/ queue[a].skb = queue[b].skb => a = b
  /\ \A a \in 1..Len(queue) : \E e \in Recorded : EnqueueOf(e, queue[a].skb, queue[a].id)
  /\ \A r \in Recorded, a \in 1..Len(queue) :
       /\ r.packet = queue[a].id => r.event = "enqueue" /\ r.skb = queue[a].skb
       /\ r.skb = queue[a].skb => r.packet <= queue[a].id

\* What is recorded is in the past, and the later use of an address too.
TimeInv ==
  /\ \A x \in Skbs : freed[x] <= clock
  /\ \A r \in Recorded : r.ts <= clock /\ r.packet <= events
  /\ \A r \in Recorded : r.ts <= freed[r.skb] \/ Queued(r)
  /\ \A r, s \in Recorded : r.skb = s.skb /\ r.packet < s.packet => r.ts < s.ts

\* A packet that was dequeued was enqueued.
MateInv ==
  \A r \in Recorded : r.event = "dequeue" =>
    \E e \in Recorded : EnqueueOf(e, r.skb, r.packet) /\ e.ts <= r.ts

KernelInv == QueueInv /\ TimeInv /\ MateInv /\ OnceInv /\ \A c \in Cpus : ~missed[c]

\* While no record is lost.
NoLossInv == ~dropped => KernelInv

LEMMA QueueFacts ==
  ASSUME CaptureType
  PROVE  Len(queue) \in Nat /\ \A a \in 1..Len(queue) : queue[a].id \in Nat /\ queue[a].skb \in Skbs
<1>1. queue \in Seq(QueuedPacket)
  BY DEF CaptureType, KernelType
<1>2. Len(queue) \in Nat /\ \A a \in 1..Len(queue) : queue[a] \in QueuedPacket
  BY <1>1, LenProperties, ElementOfSeq
<1> QED
  BY <1>2 DEF QueuedPacket

LEMMA TimesAndClocks ==
  ASSUME CaptureType
  PROVE  /\ clock \in Nat /\ events \in Nat /\ freed \in [Skbs -> Nat] /\ clock + 1 \in Nat
         /\ \A r \in Recorded : r.ts \in Nat /\ r.packet \in Nat /\ r.skb \in Skbs
                                /\ r.event \in {"enqueue", "dequeue"} /\ r.misc \in {0, 1}
<1>1. clock \in Nat /\ events \in Nat /\ freed \in [Skbs -> Nat]
  BY BoundsAssumption DEF CaptureType, KernelType
<1> QED
  BY <1>1, RecordedFacts DEF ItemRecord

\* The queue takes a packet.
LEMMA KernelAfterTaking ==
  ASSUME CaptureType, CaptureType', QueueInv, TimeInv, MateInv, NEW x \in Skbs, NEW item,
         item = [kind |-> "item", ts |-> clock', event |-> "enqueue", misc |-> 0, skb |-> x, packet |-> events'],
         events' = events + 1, clock' \in {clock, clock + 1}, clock' > freed[x],
         \A a \in 1..Len(queue) : queue[a].skb # x,
         queue' = Append(queue, [skb |-> x, id |-> events']),
         Recorded' = Recorded \cup {item}, freed' = freed
  PROVE  QueueInv' /\ TimeInv' /\ MateInv'
<1>1. /\ clock \in Nat /\ events \in Nat /\ clock' \in Nat /\ clock <= clock' /\ events' \in Nat
      /\ freed \in [Skbs -> Nat]
      /\ \A r \in Recorded : r.ts \in Nat /\ r.packet \in Nat /\ r.skb \in Skbs
  BY TimesAndClocks
<1>2. /\ item.ts = clock' /\ item.event = "enqueue" /\ item.misc = 0 /\ item.skb = x /\ item.packet = events'
      /\ item \in Recorded'
  OBVIOUS
<1>3. /\ Len(queue) \in Nat /\ Len(queue') = Len(queue) + 1
      /\ \A a \in 1..Len(queue) : queue'[a] = queue[a] /\ queue[a].id \in Nat /\ queue[a].skb \in Skbs
      /\ queue'[Len(queue) + 1] = [skb |-> x, id |-> events']
  <2>1. queue \in Seq(QueuedPacket) /\ [skb |-> x, id |-> events'] \in QueuedPacket
    BY <1>1 DEF CaptureType, KernelType, QueuedPacket
  <2> QED
    BY <2>1, QueueFacts, AppendProperties
<1>4. \A a \in 1..Len(queue') : a \in 1..Len(queue) \/ a = Len(queue) + 1
  BY <1>3
<1>5. queue'[Len(queue) + 1].id = events' /\ queue'[Len(queue) + 1].skb = x
  BY <1>3
<1>6. QueueInv'
  <2>1. \A a \in 1..Len(queue') : queue'[a].id <= events'
    BY <1>1, <1>3, <1>4, <1>5 DEF QueueInv
  <2>2. ASSUME NEW a \in 1..Len(queue'), NEW b \in 1..Len(queue'),
               queue'[a].id = queue'[b].id \/ queue'[a].skb = queue'[b].skb
        PROVE  a = b
    <3>1. \A d \in 1..Len(queue) : queue'[d].id # events' /\ queue'[d].skb # x
      BY <1>1, <1>3 DEF QueueInv
    <3>2. CASE a \in 1..Len(queue) /\ b \in 1..Len(queue)
      BY <1>3, <2>2, <3>2 DEF QueueInv
    <3> QED
      BY <1>4, <1>5, <2>2, <3>1, <3>2
  <2>3. ASSUME NEW a \in 1..Len(queue')
        PROVE  \E e \in Recorded' : EnqueueOf(e, queue'[a].skb, queue'[a].id)
    <3>1. CASE a \in 1..Len(queue)
      BY <1>3, <3>1 DEF QueueInv
    <3>2. CASE a = Len(queue) + 1
      BY <1>2, <1>5, <3>2 DEF EnqueueOf
    <3> QED
      BY <1>4, <3>1, <3>2
  <2>4. ASSUME NEW r \in Recorded', NEW a \in 1..Len(queue')
        PROVE  /\ r.packet = queue'[a].id => r.event = "enqueue" /\ r.skb = queue'[a].skb
               /\ r.skb = queue'[a].skb => r.packet <= queue'[a].id
    <3>1. CASE r \in Recorded /\ a \in 1..Len(queue)
      BY <1>3, <3>1 DEF QueueInv
    <3>2. CASE r \in Recorded /\ a = Len(queue) + 1
      BY <1>1, <1>5, <3>2 DEF TimeInv
    <3>3. CASE r = item /\ a \in 1..Len(queue)
      BY <1>1, <1>2, <1>3, <3>3 DEF QueueInv
    <3>4. CASE r = item /\ a = Len(queue) + 1
      BY <1>1, <1>2, <1>5, <3>4
    <3> QED
      BY <1>4, <3>1, <3>2, <3>3, <3>4
  <2> QED
    BY <2>1, <2>2, <2>3, <2>4 DEF QueueInv
<1>7. TimeInv'
  <2>1. \A y \in Skbs : freed'[y] <= clock'
    BY <1>1 DEF TimeInv
  <2>2. \A r \in Recorded' : r.ts <= clock' /\ r.packet <= events'
    BY <1>1, <1>2 DEF TimeInv
  <2>3. ASSUME NEW r \in Recorded'
        PROVE  r.ts <= freed'[r.skb] \/ Queued(r)'
    <3>1. CASE r = item
      <4>1. Len(queue) + 1 \in 1..Len(queue')
        BY <1>3
      <4> QED
        BY <1>2, <1>5, <3>1, <4>1 DEF Queued
    <3>2. CASE r \in Recorded
      <4>1. \A a \in 1..Len(queue) : a \in 1..Len(queue') /\ queue'[a].id = queue[a].id
        BY <1>3
      <4> QED
        BY <3>2, <4>1 DEF TimeInv, Queued
    <3> QED
      BY <3>1, <3>2
  <2>4. ASSUME NEW r \in Recorded', NEW s \in Recorded', r.skb = s.skb, r.packet < s.packet
        PROVE  r.ts < s.ts
    <3>1. CASE r \in Recorded /\ s \in Recorded
      BY <2>4, <3>1 DEF TimeInv
    <3>2. CASE r = item /\ s \in Recorded
      BY <1>1, <1>2, <2>4, <3>2 DEF TimeInv
    <3>3. CASE r \in Recorded /\ s = item
      <4>1. ~Queued(r)
        BY <1>2, <2>4, <3>3 DEF Queued, QueueInv
      <4>2. r.ts <= freed[x]
        BY <1>2, <2>4, <3>3, <4>1 DEF TimeInv
      <4> QED
        BY <1>1, <1>2, <3>3, <4>2
    <3>4. CASE r = item /\ s = item
      BY <1>1, <1>2, <2>4, <3>4
    <3> QED
      BY <3>1, <3>2, <3>3, <3>4
  <2> QED
    BY <2>1, <2>2, <2>3, <2>4 DEF TimeInv
<1>8. MateInv'
  BY <1>2 DEF MateInv
<1> QED
  BY <1>6, <1>7, <1>8

\* The queue refuses a packet.
LEMMA KernelAfterRefusal ==
  ASSUME CaptureType, QueueInv, TimeInv, MateInv, NEW x \in Skbs, NEW item,
         item = [kind |-> "item", ts |-> clock', event |-> "enqueue", misc |-> 1, skb |-> x, packet |-> events'],
         events' = events + 1, clock' \in {clock, clock + 1}, clock' > freed[x],
         \A a \in 1..Len(queue) : queue[a].skb # x,
         queue' = queue, Recorded' = Recorded \cup {item}, freed' = [freed EXCEPT ![x] = clock']
  PROVE  QueueInv' /\ TimeInv' /\ MateInv'
<1>1. /\ clock \in Nat /\ events \in Nat /\ clock' \in Nat /\ clock <= clock' /\ events' \in Nat
      /\ freed \in [Skbs -> Nat]
      /\ \A r \in Recorded : r.ts \in Nat /\ r.packet \in Nat /\ r.skb \in Skbs
  BY TimesAndClocks
<1>2. /\ item.ts = clock' /\ item.event = "enqueue" /\ item.skb = x /\ item.packet = events'
  OBVIOUS
<1>3. \A a \in 1..Len(queue) : queue[a].id \in Nat /\ queue[a].id <= events /\ queue[a].id <= events' /\ queue[a].id # events'
  BY <1>1, QueueFacts DEF QueueInv
<1>4. freed'[x] = clock' /\ \A y \in Skbs : freed'[y] \in Nat /\ freed[y] <= freed'[y] /\ freed'[y] <= clock'
  BY <1>1 DEF TimeInv
<1>5. QueueInv'
  <2>1. ASSUME NEW r \in Recorded', NEW a \in 1..Len(queue)
        PROVE  /\ r.packet = queue[a].id => r.event = "enqueue" /\ r.skb = queue[a].skb
               /\ r.skb = queue[a].skb => r.packet <= queue[a].id
    <3>1. CASE r \in Recorded
      BY <3>1 DEF QueueInv
    <3>2. CASE r = item
      BY <1>2, <1>3, <3>2
    <3> QED
      BY <3>1, <3>2
  <2>2. \A a \in 1..Len(queue) : \E e \in Recorded' : EnqueueOf(e, queue[a].skb, queue[a].id)
    BY DEF QueueInv
  <2>3. \A a, b \in 1..Len(queue) : queue[a].id = queue[b].id \/ queue[a].skb = queue[b].skb => a = b
    BY DEF QueueInv
  <2> QED
    BY <1>3, <2>1, <2>2, <2>3 DEF QueueInv
<1>6. TimeInv'
  <2>1. \A r \in Recorded' : r.ts <= clock' /\ r.packet <= events'
    BY <1>1, <1>2 DEF TimeInv
  <2>2. ASSUME NEW r \in Recorded'
        PROVE  r.ts <= freed'[r.skb] \/ Queued(r)'
    <3>1. CASE r = item
      BY <1>1, <1>2, <1>4, <3>1
    <3>2. CASE r \in Recorded
      <4>1. r.ts <= freed[r.skb] \/ Queued(r)
        BY <3>2 DEF TimeInv
      <4>2. Queued(r) => Queued(r)'
        BY DEF Queued
      <4> QED
        BY <1>1, <1>4, <3>2, <4>1, <4>2
    <3> QED
      BY <3>1, <3>2
  <2>3. ASSUME NEW r \in Recorded', NEW s \in Recorded', r.skb = s.skb, r.packet < s.packet
        PROVE  r.ts < s.ts
    <3>1. CASE r \in Recorded /\ s \in Recorded
      BY <2>3, <3>1 DEF TimeInv
    <3>2. CASE r = item /\ s \in Recorded
      BY <1>1, <1>2, <2>3, <3>2 DEF TimeInv
    <3>3. CASE r \in Recorded /\ s = item
      <4>1. ~Queued(r)
        BY <1>2, <2>3, <3>3 DEF Queued, QueueInv
      <4>2. r.ts <= freed[x]
        BY <1>2, <2>3, <3>3, <4>1 DEF TimeInv
      <4> QED
        BY <1>1, <1>2, <3>3, <4>2
    <3>4. CASE r = item /\ s = item
      BY <1>1, <1>2, <2>3, <3>4
    <3> QED
      BY <3>1, <3>2, <3>3, <3>4
  <2> QED
    BY <1>4, <2>1, <2>2, <2>3 DEF TimeInv
<1>7. MateInv'
  BY <1>2 DEF MateInv
<1> QED
  BY <1>5, <1>6, <1>7

\* The head leaves the queue, before anything is recorded of it.
LEMMA KernelAfterLeaving ==
  ASSUME CaptureType, QueueInv, TimeInv, queue # <<>>, queue' = Tail(queue),
         events' = events + 1, clock' \in {clock, clock + 1},
         freed' = [freed EXCEPT ![Head(queue).skb] = clock']
  PROVE  /\ Head(queue) \in QueuedPacket /\ Head(queue) = queue[1] /\ 1 \in 1..Len(queue)
         /\ \A a \in 1..Len(queue') : a + 1 \in 1..Len(queue) /\ a + 1 # 1 /\ queue'[a] = queue[a + 1]
         /\ \A a, b \in 1..Len(queue') : a + 1 = b + 1 => a = b
         /\ \A a \in 1..Len(queue') : queue'[a].id # Head(queue).id /\ queue'[a].skb # Head(queue).skb
         /\ freed'[Head(queue).skb] = clock'
         /\ \A y \in Skbs : freed'[y] \in Nat /\ freed'[y] <= clock'
         /\ \A r \in Recorded : r.ts <= freed'[r.skb] \/ Queued(r)'
<1>1. /\ clock \in Nat /\ events \in Nat /\ clock' \in Nat /\ clock <= clock' /\ freed \in [Skbs -> Nat]
      /\ \A r \in Recorded : r.ts \in Nat /\ r.packet \in Nat /\ r.skb \in Skbs
  BY TimesAndClocks
<1>2. /\ Len(queue) \in Nat \ {0} /\ Head(queue) = queue[1] /\ Head(queue) \in QueuedPacket
      /\ Len(queue') = Len(queue) - 1 /\ \A a \in 1..Len(queue') : queue'[a] = queue[a + 1]
  BY HeadTailProperties, EmptySeq DEF CaptureType, KernelType
<1>3. Head(queue).skb \in Skbs /\ Head(queue).id \in Nat
  BY <1>2 DEF QueuedPacket
<1>4. 1 \in 1..Len(queue) /\ \A a \in 1..Len(queue') : a + 1 \in 1..Len(queue) /\ a + 1 # 1
  BY <1>2
<1>5. \A a, b \in 1..Len(queue') : a + 1 = b + 1 => a = b
  OBVIOUS
<1>6. \A a \in 1..Len(queue') : queue'[a].id # Head(queue).id /\ queue'[a].skb # Head(queue).skb
  BY <1>2, <1>4 DEF QueueInv
<1>7. freed'[Head(queue).skb] = clock' /\ (\A y \in Skbs : freed'[y] \in Nat /\ freed'[y] <= clock')
      /\ \A y \in Skbs \ {Head(queue).skb} : freed'[y] = freed[y]
  BY <1>1, <1>3 DEF TimeInv
<1>8. ASSUME NEW r \in Recorded
      PROVE  r.ts <= freed'[r.skb] \/ Queued(r)'
  <2>1. CASE r.skb = Head(queue).skb
    BY <1>1, <1>7, <2>1 DEF TimeInv
  <2>2. CASE r.skb # Head(queue).skb /\ r.ts <= freed[r.skb]
    BY <1>1, <1>7, <2>2
  <2>3. CASE r.skb # Head(queue).skb /\ Queued(r)
    <3>1. PICK a \in 1..Len(queue) : queue[a].id = r.packet
      BY <2>3 DEF Queued
    <3>2. a # 1
      BY <1>2, <2>3, <3>1 DEF QueueInv
    <3>3. a - 1 \in 1..Len(queue') /\ (a - 1) + 1 = a
      BY <1>2, <3>1, <3>2
    <3>4. queue'[a - 1].id = r.packet
      BY <1>2, <3>1, <3>3
    <3> QED
      BY <3>3, <3>4 DEF Queued
  <2> QED
    BY <2>1, <2>2, <2>3 DEF TimeInv
<1> QED
  BY <1>2, <1>4, <1>5, <1>6, <1>7, <1>8

\* The queue drops its head.
LEMMA KernelAfterDrop ==
  ASSUME CaptureType, QueueInv, TimeInv, MateInv, queue # <<>>, queue' = Tail(queue),
         events' = events + 1, clock' \in {clock, clock + 1},
         freed' = [freed EXCEPT ![Head(queue).skb] = clock'], Recorded' = Recorded
  PROVE  QueueInv' /\ TimeInv' /\ MateInv'
<1>1. /\ clock \in Nat /\ events \in Nat /\ clock' \in Nat /\ clock <= clock' /\ events' \in Nat
      /\ \A r \in Recorded : r.ts \in Nat /\ r.packet \in Nat /\ r.skb \in Skbs
      /\ \A a \in 1..Len(queue) : queue[a].id \in Nat
  BY TimesAndClocks, QueueFacts
<1>2. /\ \A a \in 1..Len(queue') : a + 1 \in 1..Len(queue) /\ queue'[a] = queue[a + 1]
      /\ \A a, b \in 1..Len(queue') : a + 1 = b + 1 => a = b
      /\ \A y \in Skbs : freed'[y] <= clock'
      /\ \A r \in Recorded : r.ts <= freed'[r.skb] \/ Queued(r)'
  BY KernelAfterLeaving
<1>3. QueueInv'
  <2>1. \A a \in 1..Len(queue') : queue'[a].id <= events'
    BY <1>1, <1>2 DEF QueueInv
  <2>2. \A a, b \in 1..Len(queue') : queue'[a].id = queue'[b].id \/ queue'[a].skb = queue'[b].skb => a = b
    BY <1>2 DEF QueueInv
  <2>3. \A a \in 1..Len(queue') : \E e \in Recorded : EnqueueOf(e, queue'[a].skb, queue'[a].id)
    BY <1>2 DEF QueueInv
  <2>4. \A r \in Recorded, a \in 1..Len(queue') :
          /\ r.packet = queue'[a].id => r.event = "enqueue" /\ r.skb = queue'[a].skb
          /\ r.skb = queue'[a].skb => r.packet <= queue'[a].id
    BY <1>2 DEF QueueInv
  <2> QED
    BY <2>1, <2>2, <2>3, <2>4 DEF QueueInv
<1>4. TimeInv'
  <2>1. \A r \in Recorded : r.ts <= clock' /\ r.packet <= events'
    BY <1>1 DEF TimeInv
  <2>2. \A r, s \in Recorded : r.skb = s.skb /\ r.packet < s.packet => r.ts < s.ts
    BY DEF TimeInv
  <2> QED
    BY <1>2, <2>1, <2>2 DEF TimeInv
<1>5. MateInv'
  BY DEF MateInv
<1> QED
  BY <1>3, <1>4, <1>5

\* The head is dequeued.
LEMMA KernelAfterDequeue ==
  ASSUME CaptureType, QueueInv, TimeInv, MateInv, queue # <<>>, queue' = Tail(queue), NEW item,
         item = [kind |-> "item", ts |-> clock', event |-> "dequeue", misc |-> 0,
                 skb |-> Head(queue).skb, packet |-> Head(queue).id],
         events' = events + 1, clock' \in {clock, clock + 1},
         freed' = [freed EXCEPT ![Head(queue).skb] = clock'], Recorded' = Recorded \cup {item}
  PROVE  QueueInv' /\ TimeInv' /\ MateInv'
<1>1. /\ clock \in Nat /\ events \in Nat /\ clock' \in Nat /\ clock <= clock' /\ events' \in Nat /\ events <= events'
      /\ \A r \in Recorded : r.ts \in Nat /\ r.packet \in Nat /\ r.skb \in Skbs
      /\ \A a \in 1..Len(queue) : queue[a].id \in Nat
  BY TimesAndClocks, QueueFacts
<1>2. /\ Head(queue) = queue[1] /\ 1 \in 1..Len(queue)
      /\ \A a \in 1..Len(queue') : a + 1 \in 1..Len(queue) /\ queue'[a] = queue[a + 1]
      /\ \A a, b \in 1..Len(queue') : a + 1 = b + 1 => a = b
      /\ \A a \in 1..Len(queue') : queue'[a].id # queue[1].id /\ queue'[a].skb # queue[1].skb
      /\ freed'[queue[1].skb] = clock'
      /\ \A y \in Skbs : freed'[y] <= clock'
      /\ \A r \in Recorded : r.ts <= freed'[r.skb] \/ Queued(r)'
  BY KernelAfterLeaving
<1>3. /\ item.ts = clock' /\ item.event = "dequeue" /\ item.skb = queue[1].skb /\ item.packet = queue[1].id
      /\ item \in Recorded'
  BY <1>2
<1>4. PICK e \in Recorded : EnqueueOf(e, queue[1].skb, queue[1].id)
  BY <1>2 DEF QueueInv
<1>5. QueueInv'
  <2>1. \A a \in 1..Len(queue') : queue'[a].id <= events'
    BY <1>1, <1>2 DEF QueueInv
  <2>2. \A a, b \in 1..Len(queue') : queue'[a].id = queue'[b].id \/ queue'[a].skb = queue'[b].skb => a = b
    BY <1>2 DEF QueueInv
  <2>3. \A a \in 1..Len(queue') : \E f \in Recorded' : EnqueueOf(f, queue'[a].skb, queue'[a].id)
    BY <1>2 DEF QueueInv
  <2>4. ASSUME NEW r \in Recorded', NEW a \in 1..Len(queue')
        PROVE  /\ r.packet = queue'[a].id => r.event = "enqueue" /\ r.skb = queue'[a].skb
               /\ r.skb = queue'[a].skb => r.packet <= queue'[a].id
    <3>1. CASE r \in Recorded
      BY <1>2, <3>1 DEF QueueInv
    <3>2. CASE r = item
      BY <1>2, <1>3, <3>2
    <3> QED
      BY <3>1, <3>2
  <2> QED
    BY <2>1, <2>2, <2>3, <2>4 DEF QueueInv
<1>6. TimeInv'
  <2>1. \A r \in Recorded' : r.ts <= clock' /\ r.packet <= events'
    <3>1. item.ts <= clock' /\ item.packet <= events'
      BY <1>1, <1>2, <1>3 DEF QueueInv
    <3>2. \A r \in Recorded : r.ts <= clock' /\ r.packet <= events'
      BY <1>1 DEF TimeInv
    <3> QED
      BY <3>1, <3>2
  <2>2. \A r \in Recorded' : r.ts <= freed'[r.skb] \/ Queued(r)'
    <3>1. item.ts <= freed'[item.skb]
      BY <1>1, <1>2, <1>3
    <3> QED
      BY <1>2, <3>1
  <2>3. ASSUME NEW r \in Recorded', NEW s \in Recorded', r.skb = s.skb, r.packet < s.packet
        PROVE  r.ts < s.ts
    <3>1. CASE r \in Recorded /\ s \in Recorded
      BY <2>3, <3>1 DEF TimeInv
    <3>2. CASE r = item /\ s \in Recorded
      BY <1>1, <1>2, <1>3, <2>3, <3>2 DEF QueueInv
    <3>3. CASE r \in Recorded /\ s = item
      <4>1. e.skb = queue[1].skb /\ e.packet = queue[1].id
        BY <1>4 DEF EnqueueOf
      <4>2. r.ts < e.ts
        BY <1>3, <2>3, <3>3, <4>1 DEF TimeInv
      <4>3. e.ts <= clock
        BY DEF TimeInv
      <4> QED
        BY <1>1, <1>3, <3>3, <4>2, <4>3
    <3>4. CASE r = item /\ s = item
      BY <1>1, <1>2, <1>3, <2>3, <3>4
    <3> QED
      BY <3>1, <3>2, <3>3, <3>4
  <2> QED
    BY <1>2, <2>1, <2>2, <2>3 DEF TimeInv
<1>7. MateInv'
  <2>1. e.ts <= item.ts
    <3>1. e.ts <= clock
      BY DEF TimeInv
    <3> QED
      BY <1>1, <1>3, <3>1
  <2>2. EnqueueOf(e, item.skb, item.packet)
    BY <1>3, <1>4
  <2> QED
    BY <2>1, <2>2 DEF MateInv
<1> QED
  BY <1>5, <1>6, <1>7

LEMMA LossIsRemembered ==
  ASSUME CaptureType, CaptureNext, ~dropped'
  PROVE  ~dropped
BY DEF CaptureNext, Enqueue, Dequeue, QueueDrops, Poll, Signal, MonitorEnds, Submit, CaptureType,
       KernelType, kernel

LEMMA KernelStep ==
  ASSUME CaptureType, KernelInv, ~dropped', CaptureNext
  PROVE  KernelInv'
<1>0. CaptureType'
  BY CaptureTypeStep
<1>1. ASSUME NEW c \in Cpus, NEW x \in Skbs, Enqueue(c, x)
      PROVE  KernelInv'
  <2>1. /\ events' = events + 1 /\ clock' \in {clock, clock + 1} /\ clock' > freed[x]
        /\ \A a \in 1..Len(queue) : queue[a].skb # x
        /\ file' = file
    <3>1. DOMAIN queue = 1..Len(queue)
      BY LenProperties DEF CaptureType, KernelType
    <3> QED
      BY <1>1, <3>1 DEF Enqueue, Happens
  <2>2. /\ clock \in Nat /\ events \in Nat /\ clock' \in Nat /\ events' \in Nat
        /\ \A r \in Recorded : r.packet \in Nat /\ r.packet <= events
    BY <2>1, TimesAndClocks DEF KernelInv, TimeInv
  <2>3. ASSUME NEW misc \in {0, 1}, NEW item, item = Item("enqueue", misc, [skb |-> x, id |-> events']),
               Submit(c, item)
        PROVE  /\ item = [kind |-> "item", ts |-> clock', event |-> "enqueue", misc |-> misc,
                          skb |-> x, packet |-> events']
               /\ Recorded' = Recorded \cup {item}
               /\ OnceInv' /\ \A d \in Cpus : ~missed'[d]
    <3>1. item = [kind |-> "item", ts |-> clock', event |-> "enqueue", misc |-> misc,
                  skb |-> x, packet |-> events']
      BY <2>3 DEF Item
    <3>2. item \in ItemRecord /\ item.packet = events'
      BY <2>2, <3>1 DEF ItemRecord
    <3>3. /\ ring' = [ring EXCEPT ![c] = Append(ring[c], item)]
          /\ \A d \in Cpus : ~missed'[d]
          /\ Recorded' = Recorded \cup {item}
      BY <2>1, <2>3, <3>2, SubmitRecords DEF KernelInv
    <3>4. \A r \in Recorded : ~(r.event = item.event /\ r.packet = item.packet)
      BY <2>1, <2>2, <3>2
    <3>5. OnceInv'
      BY <2>1, <3>2, <3>3, <3>4, OnceAfterSubmit DEF KernelInv
    <3> QED
      BY <3>1, <3>3, <3>5
  <2>4. CASE /\ queue' = Append(queue, [skb |-> x, id |-> events'])
             /\ Submit(c, Item("enqueue", 0, [skb |-> x, id |-> events']))
             /\ UNCHANGED freed
    <3> DEFINE item == Item("enqueue", 0, [skb |-> x, id |-> events'])
    <3>1. /\ item = [kind |-> "item", ts |-> clock', event |-> "enqueue", misc |-> 0,
                     skb |-> x, packet |-> events']
          /\ Recorded' = Recorded \cup {item}
          /\ OnceInv' /\ \A d \in Cpus : ~missed'[d]
      BY <2>3, <2>4
    <3> HIDE DEF item
    <3>2. QueueInv' /\ TimeInv' /\ MateInv'
      BY <1>0, <2>1, <2>4, <3>1, KernelAfterTaking DEF KernelInv
    <3> QED
      BY <3>1, <3>2 DEF KernelInv
  <2>5. CASE /\ Submit(c, Item("enqueue", 1, [skb |-> x, id |-> events']))
             /\ freed' = [freed EXCEPT ![x] = clock']
             /\ UNCHANGED queue
    <3> DEFINE item == Item("enqueue", 1, [skb |-> x, id |-> events'])
    <3>1. /\ item = [kind |-> "item", ts |-> clock', event |-> "enqueue", misc |-> 1,
                     skb |-> x, packet |-> events']
          /\ Recorded' = Recorded \cup {item}
          /\ OnceInv' /\ \A d \in Cpus : ~missed'[d]
      BY <2>3, <2>5
    <3> HIDE DEF item
    <3>2. QueueInv' /\ TimeInv' /\ MateInv'
      BY <2>1, <2>5, <3>1, KernelAfterRefusal DEF KernelInv
    <3> QED
      BY <3>1, <3>2 DEF KernelInv
  <2> QED
    BY <1>1, <2>4, <2>5 DEF Enqueue
<1>2. ASSUME NEW c \in Cpus, Dequeue(c)
      PROVE  KernelInv'
  <2>1. /\ events' = events + 1 /\ clock' \in {clock, clock + 1} /\ file' = file
        /\ queue # <<>> /\ queue' = Tail(queue)
        /\ freed' = [freed EXCEPT ![Head(queue).skb] = clock']
        /\ Submit(c, Item("dequeue", 0, Head(queue)))
    BY <1>2 DEF Dequeue, Happens
  <2>2. clock' \in Nat /\ Head(queue) \in QueuedPacket /\ Head(queue) = queue[1] /\ 1 \in 1..Len(queue)
    <3>1. clock' \in Nat
      BY <2>1, TimesAndClocks
    <3> QED
      BY <2>1, <3>1, KernelAfterLeaving DEF KernelInv
  <2> DEFINE item == Item("dequeue", 0, Head(queue))
  <2>3. item = [kind |-> "item", ts |-> clock', event |-> "dequeue", misc |-> 0,
                skb |-> Head(queue).skb, packet |-> Head(queue).id]
    BY DEF Item
  <2>4. item \in ItemRecord /\ item.event = "dequeue" /\ item.packet = Head(queue).id
    BY <2>2, <2>3 DEF ItemRecord, QueuedPacket
  <2> HIDE DEF item
  <2>5. /\ ring' = [ring EXCEPT ![c] = Append(ring[c], item)]
        /\ \A d \in Cpus : ~missed'[d]
        /\ Recorded' = Recorded \cup {item}
    BY <2>1, <2>4, SubmitRecords DEF KernelInv, item
  <2>6. \A r \in Recorded : ~(r.event = item.event /\ r.packet = item.packet)
    BY <2>2, <2>4 DEF KernelInv, QueueInv
  <2>7. OnceInv'
    BY <2>1, <2>4, <2>5, <2>6, OnceAfterSubmit DEF KernelInv
  <2>8. QueueInv' /\ TimeInv' /\ MateInv'
    BY <2>1, <2>3, <2>5, KernelAfterDequeue DEF KernelInv
  <2> QED
    BY <2>5, <2>7, <2>8 DEF KernelInv
<1>3. CASE QueueDrops
  <2>1. /\ events' = events + 1 /\ clock' \in {clock, clock + 1} /\ UNCHANGED <<file, ring, missed>>
        /\ queue # <<>> /\ queue' = Tail(queue)
        /\ freed' = [freed EXCEPT ![Head(queue).skb] = clock']
    BY <1>3 DEF QueueDrops, Happens
  <2>2. Recorded' = Recorded
    BY <2>1 DEF Recorded, Buffered
  <2>3. QueueInv' /\ TimeInv' /\ MateInv'
    BY <2>1, <2>2, KernelAfterDrop DEF KernelInv
  <2> QED
    BY <2>1, <2>3 DEF KernelInv, OnceInv
<1>4. ASSUME UNCHANGED <<clock, queue, freed, events, missed>>, Recorded' = Recorded, OnceInv'
      PROVE  KernelInv'
  <2>1. QueueInv'
    BY <1>4 DEF KernelInv, QueueInv
  <2>2. TimeInv'
    BY <1>4 DEF KernelInv, TimeInv, Queued
  <2>3. MateInv'
    BY <1>4 DEF KernelInv, MateInv
  <2> QED
    BY <1>4, <2>1, <2>2, <2>3 DEF KernelInv
<1>5. ASSUME NEW c \in Cpus, Poll(c)
      PROVE  KernelInv'
  <2>1. UNCHANGED <<clock, queue, freed, events, missed>>
    BY <1>5 DEF Poll
  <2> QED
    BY <1>4, <1>5, <2>1, MonitorRecords, OnceAfterPoll DEF KernelInv
<1>6. CASE MonitorEnds
  <2>1. UNCHANGED <<clock, queue, freed, events, missed>>
    BY <1>6 DEF MonitorEnds, kernel
  <2> QED
    BY <1>4, <1>6, <2>1, MonitorRecords, OnceAfterEnd DEF KernelInv
<1>7. CASE Signal
  <2>1. UNCHANGED <<clock, queue, freed, events, missed, file, ring>>
    BY <1>7 DEF Signal, kernel
  <2>2. OnceInv'
    BY <2>1 DEF KernelInv, OnceInv
  <2> QED
    BY <1>4, <1>7, <2>1, <2>2, MonitorRecords
<1> QED
  BY <1>1, <1>2, <1>3, <1>5, <1>6, <1>7 DEF CaptureNext

LEMMA NoLossStep ==
  ASSUME TypeInv, NoLossInv, [Next]_vars
  PROVE  NoLossInv'
<1>1. CASE CaptureNext
  <2>1. CaptureType
    BY DEF TypeInv
  <2> QED
    BY <1>1, <2>1, LossIsRemembered, KernelStep DEF NoLossInv
<1>2. CASE UNCHANGED captureVars
  <2>1. UNCHANGED <<clock, queue, freed, events, ring, missed, dropped, file>>
    BY <1>2 DEF captureVars, kernel
  <2>2. Recorded' = Recorded
    BY <2>1 DEF Recorded, Buffered
  <2>3. (QueueInv => QueueInv') /\ (OnceInv => OnceInv')
    BY <2>1, <2>2 DEF QueueInv, OnceInv
  <2>4. (TimeInv => TimeInv') /\ (MateInv => MateInv')
    BY <2>1, <2>2 DEF TimeInv, Queued, MateInv
  <2> QED
    BY <2>1, <2>3, <2>4 DEF NoLossInv, KernelInv
<1> QED
  BY <1>1, <1>2, CaptureIsOver DEF Next, vars

LEMMA NoLossInit == Init => NoLossInv
<1> SUFFICES ASSUME Init PROVE KernelInv
  BY DEF NoLossInv
<1>1. /\ Len(queue) = 0 /\ Len(file) = 0 /\ \A c \in Cpus : Len(ring[c]) = 0
      /\ 1..0 = {} /\ \A c \in Cpus : ~missed[c]
      /\ \A x \in Skbs : freed[x] <= clock
  BY EmptySeq DEF Init, CaptureInit
<1>2. Recorded = {}
  BY <1>1 DEF Recorded, Buffered, Elements
<1> QED
  BY <1>1, <1>2 DEF KernelInv, QueueInv, TimeInv, MateInv, OnceInv

-----------------------------------------------------------------------------
(* The pairing of the packets that were kept.                                *)

\* No packet that was kept in between has the address.
Quiet(x, i, j) == \A l \in i..j : Kept(l) => Packet(l).skb # x
Taken(i) == Kept(i) /\ Packet(i).event = "enqueue" /\ Packet(i).misc = 0

\* The dictionary knows the last enqueueing of each address that nothing
\* followed, and every dequeueing seen so far was matched with that one.
DictInv ==
  /\ \A x \in Skbs : skb_dict[x] <= k
  /\ \A i \in 1..k : Taken(i) /\ Quiet(Packet(i).skb, i + 1, k) => skb_dict[Packet(i).skb] = i

MatchInv ==
  /\ \A h, j \in 1..Len(packets) : <<h, j>> \in match => h < j /\ j <= k
  /\ phase # "failed" =>
       \A i, j \in 1..k :
         /\ i < j /\ Taken(i) /\ Kept(j) /\ Packet(j).event = "dequeue"
         /\ Packet(j).skb = Packet(i).skb /\ Quiet(Packet(i).skb, i + 1, j - 1)
         => \A h \in 1..k : <<h, j>> \in match <=> h = i

PairInv == DictInv /\ MatchInv

\* Nothing is paired before tshark was called.
LEMMA NothingToPair ==
  ASSUME NEW p, p = <<>>, NEW i \in 0..Len(p), NEW d \in [Skbs -> 0..Len(p)],
         NEW m \in SUBSET ((1..Len(p)) \X (1..Len(p)))
  PROVE  i = 0 /\ m = {} /\ \A x \in Skbs : d[x] = 0
<1>1. Len(p) = 0 /\ 1..0 = {} /\ \A n \in 0..0 : n = 0
  OBVIOUS
<1>2. i \in 0..0 /\ d \in [Skbs -> 0..0] /\ m \in SUBSET ((1..0) \X (1..0))
  BY <1>1
<1> QED
  BY <1>1, <1>2

LEMMA PairingBegins ==
  ASSUME k' = 0, match' = {}, \A x \in Skbs : skb_dict'[x] = 0
  PROVE  PairInv'
<1>1. 1..0 = {} /\ 0 <= 0
  OBVIOUS
<1> QED
  BY <1>1 DEF PairInv, DictInv, MatchInv

LEMMA PairInit == Init => PairInv
<1> SUFFICES ASSUME Init PROVE PairInv
  OBVIOUS
<1>1. k = 0 /\ match = {} /\ \A x \in Skbs : skb_dict[x] = 0
  BY DEF Init
<1>2. 1..0 = {} /\ 0 <= 0
  OBVIOUS
<1> QED
  BY <1>1, <1>2 DEF PairInv, DictInv, MatchInv

LEMMA PairingStep ==
  ASSUME TypeInv, PairInv, PairNothing \/ PairEnqueued \/ PairDequeued
  PROVE  PairInv'
<1>1. /\ UNCHANGED captureVars /\ UNCHANGED packets /\ k < Len(packets) /\ k' = k + 1
      /\ phase = "pairing" /\ k \in Nat /\ k + 1 \in 1..Len(packets) /\ Len(packets) \in Nat
  <2>1. k \in 0..Len(packets) /\ Len(packets) \in Nat
    BY LenProperties DEF TypeInv, ConvertType, PairingType
  <2> QED
    BY <2>1 DEF PairNothing, PairEnqueued, PairDequeued
<1>2. \A l : (Kept(l) => Kept(l)') /\ (Kept(l)' => Kept(l)) /\ Packet(l)' = Packet(l)
  BY <1>1, SameFile DEF Kept, Packet
<1>3. \A i \in 1..k : i \in 1..Len(packets)
  BY <1>1
<1>4. skb_dict \in [Skbs -> Nat]
  BY <1>1 DEF TypeInv, ConvertType, PairingType
<1>5. \A i \in 1..(k + 1) : i \in 1..k \/ i = k + 1
  BY <1>1
<1>6. \A l \in 1..Len(packets) : Kept(l) => Packet(l).skb \in Skbs
  BY KeptFacts DEF ItemRecord
<1> DEFINE x == Packet(k + 1).skb
\* What happens to the dictionary.
<1>7. \/ ~Kept(k + 1) /\ skb_dict' = skb_dict /\ match' = match
      \/ /\ Kept(k + 1) /\ Packet(k + 1).event = "enqueue" /\ match' = match
         /\ skb_dict' = [skb_dict EXCEPT ![x] = IF Packet(k + 1).misc = 1 THEN 0 ELSE k + 1]
      \/ /\ Kept(k + 1) /\ Packet(k + 1).event = "dequeue"
         /\ skb_dict' \in {skb_dict, [skb_dict EXCEPT ![x] = 0]}
         /\ \/ match' = match /\ (skb_dict[x] = 0 \/ phase' = "failed")
            \/ skb_dict[x] # 0 /\ match' = match \cup {<<skb_dict[x], k + 1>>}
  BY DEF PairNothing, PairEnqueued, PairDequeued, DeleteEntry
<1>8. Kept(k + 1) => x \in Skbs
  BY <1>1, <1>6
<1> HIDE DEF x
<1>9. \A y \in Skbs : skb_dict'[y] <= k'
  BY <1>1, <1>4, <1>7, <1>8 DEF PairInv, DictInv
<1>10. ASSUME NEW i \in 1..(k + 1), Taken(i), Quiet(Packet(i).skb, i + 1, k + 1)
       PROVE  skb_dict'[Packet(i).skb] = i
  <2>1. CASE i \in 1..k
    <3>1. /\ Quiet(Packet(i).skb, i + 1, k)
          /\ Kept(k + 1) => x # Packet(i).skb
      <4>1. k + 1 \in (i + 1)..(k + 1) /\ \A l \in (i + 1)..k : l \in (i + 1)..(k + 1)
        BY <1>1, <2>1
      <4> QED
        BY <1>10, <4>1 DEF Quiet, x
    <3>2. skb_dict[Packet(i).skb] = i /\ Packet(i).skb \in Skbs
      BY <1>3, <1>6, <1>10, <2>1, <3>1 DEF PairInv, DictInv, Taken
    <3> QED
      BY <1>4, <1>7, <1>8, <3>1, <3>2
  <2>2. CASE i = k + 1
    BY <1>4, <1>7, <1>8, <1>10, <2>2 DEF Taken, x
  <2> QED
    BY <1>5, <2>1, <2>2
<1>11. \A h, j \in 1..Len(packets) : <<h, j>> \in match' => h < j /\ j <= k + 1
  <2>1. \A h, j \in 1..Len(packets) : <<h, j>> \in match => h < j /\ j <= k + 1
    BY <1>1 DEF PairInv, MatchInv
  <2>2. Kept(k + 1) => skb_dict[x] < k + 1
    BY <1>1, <1>4, <1>8 DEF PairInv, DictInv
  <2> QED
    BY <1>7, <2>1, <2>2
<1>12. ASSUME phase' # "failed", NEW i \in 1..(k + 1), NEW j \in 1..(k + 1), i < j, Taken(i),
              Kept(j), Packet(j).event = "dequeue", Packet(j).skb = Packet(i).skb,
              Quiet(Packet(i).skb, i + 1, j - 1), NEW h \in 1..(k + 1)
       PROVE  <<h, j>> \in match' <=> h = i
  <2>1. i \in 1..k
    BY <1>1, <1>12
  <2>2. CASE j \in 1..k
    <3>1. \A g \in 1..k : <<g, j>> \in match <=> g = i
      BY <1>1, <1>12, <2>1, <2>2 DEF PairInv, MatchInv
    <3>2. <<k + 1, j>> \notin match
      BY <1>1, <1>3, <2>2 DEF PairInv, MatchInv
    <3>3. <<h, j>> \in match' <=> <<h, j>> \in match
      BY <1>1, <1>7, <2>2
    <3> QED
      BY <1>1, <1>5, <2>1, <3>1, <3>2, <3>3
  <2>3. CASE j = k + 1
    <3>1. Quiet(Packet(i).skb, i + 1, k) /\ x = Packet(i).skb
      BY <1>1, <1>12, <2>3 DEF x
    <3>2. skb_dict[x] = i
      BY <1>12, <2>1, <3>1 DEF PairInv, DictInv
    <3>3. match' = match \cup {<<i, k + 1>>}
      BY <1>1, <1>7, <1>12, <2>1, <2>3, <3>2
    <3>4. <<h, k + 1>> \notin match
      BY <1>1 DEF PairInv, MatchInv
    <3> QED
      BY <2>3, <3>3, <3>4
  <2> QED
    BY <1>5, <2>2, <2>3
<1>13. DictInv'
  BY <1>1, <1>2, <1>9, <1>10 DEF DictInv, Taken, Quiet
<1>14. MatchInv'
  BY <1>1, <1>2, <1>11, <1>12 DEF MatchInv, Taken, Quiet
<1> QED
  BY <1>13, <1>14 DEF PairInv

LEMMA PairStep ==
  ASSUME TypeInv, PairInv, [Next]_vars
  PROVE  PairInv'
<1>1. CASE PairNothing \/ PairEnqueued \/ PairDequeued
  BY <1>1, PairingStep
<1>2. ASSUME phase \in {"waiting", "reading", "draining", "parsing"}, UNCHANGED <<k, skb_dict, match>>
      PROVE  PairInv'
  <2>1. packets = <<>> /\ k \in 0..Len(packets) /\ skb_dict \in [Skbs -> 0..Len(packets)]
        /\ match \in SUBSET ((1..Len(packets)) \X (1..Len(packets)))
    BY <1>2 DEF TypeInv, ConvertType, PairingType, PacketsInv
  <2>2. k = 0 /\ match = {} /\ \A x \in Skbs : skb_dict[x] = 0
    BY <2>1, NothingToPair
  <2> QED
    BY <1>2, <2>2, PairingBegins
<1>3. CASE phase \in {"waiting", "reading"} /\ CaptureNext /\ UNCHANGED convertVars
  BY <1>2, <1>3 DEF convertVars
<1>4. CASE Start \/ ReadItem \/ ReadMark \/ EndOfFile \/ Drain \/ Parse \/ ParseFails
  BY <1>2, <1>4 DEF Start, ReadItem, ReadMark, EndOfFile, Drain, Parse, ParseFails, pairing
<1>5. ASSUME UNCHANGED <<file, packets, k, skb_dict, match>>, phase' # "failed" => phase # "failed"
      PROVE  PairInv'
  <2>1. \A l : (Kept(l)' <=> Kept(l)) /\ Packet(l)' = Packet(l)
    BY <1>5 DEF Kept, Packet
  <2>2. DictInv'
    BY <1>5, <2>1 DEF PairInv, DictInv, Taken, Quiet
  <2>3. MatchInv'
    BY <1>5, <2>1 DEF PairInv, MatchInv, Taken, Quiet
  <2> QED
    BY <2>2, <2>3 DEF PairInv
<1>6. CASE Return
  BY <1>5, <1>6, SameFile DEF Return, pairing
<1>7. CASE UNCHANGED vars
  BY <1>5, <1>7, SameFile DEF vars, convertVars
<1> QED
  BY <1>1, <1>3, <1>4, <1>6, <1>7 DEF Next, Convert

\* A kept dequeueing that no absent record precedes has its own enqueueing
\* before it, among the kept, and nothing of its address in between.
LEMMA MateIsNear ==
  ASSUME HeapSafe, KernelInv, SlightlyUnsorted, phase \in {"pairing", "returned"},
         NEW j \in 1..Len(packets), Kept(j), Packet(j).event = "dequeue",
         \A r \in Absent : r.kind = "item" => r.ts > Packet(j).ts
  PROVE  \E i \in 1..Len(packets) :
           /\ i < j /\ Taken(i) /\ Packet(i).skb = Packet(j).skb /\ Packet(i).packet = Packet(j).packet
           /\ Quiet(Packet(i).skb, i + 1, j - 1)
           /\ \A h \in 1..Len(packets) :
                Kept(h) /\ Packet(h).event = "enqueue" /\ Packet(h).packet = Packet(j).packet => h = i
<1>1. /\ TypeInv /\ CaptureType /\ Len(packets) \in Nat /\ Len(packets) = Len(deq)
      /\ \A i, l \in 1..Len(deq) : i < l => Before(deq[i], deq[l]) /\ deq[i] # deq[l]
  BY LenProperties DEF HeapSafe, TypeInv, ConvertType, PairingType, PacketsInv, HeapInv, OrderInv, SortedInv
<1>2. \A l \in 1..Len(packets) : Kept(l) =>
        /\ deq[l] \in Items /\ deq[l] \in 1..Len(file) /\ Packet(l) = file[deq[l]]
        /\ Packet(l) \in Recorded /\ Packet(l).kind = "item"
  <2> SUFFICES ASSUME NEW l \in 1..Len(packets), Kept(l)
               PROVE  /\ deq[l] \in Items /\ deq[l] \in 1..Len(file) /\ Packet(l) = file[deq[l]]
                      /\ Packet(l) \in Recorded /\ Packet(l).kind = "item"
    OBVIOUS
  <2>1. deq[l] \in Items /\ Packet(l) = file[deq[l]]
    BY <1>1, KeptFacts
  <2>2. deq[l] \in 1..Len(file) /\ file[deq[l]].kind = "item"
    BY <2>1 DEF Items
  <2> QED
    BY <1>1, <2>1, <2>2, PlacesOfRecords
<1>3. PICK e \in Recorded : EnqueueOf(e, Packet(j).skb, Packet(j).packet) /\ e.ts <= Packet(j).ts
  BY <1>2 DEF KernelInv, MateInv
<1>4. /\ \A r \in Recorded : r.ts \in Nat /\ r.packet \in Nat /\ r.skb \in Skbs /\ r.event \in {"enqueue", "dequeue"}
      /\ e.event = "enqueue" /\ e.misc = 0 /\ e.packet = Packet(j).packet /\ e.skb = Packet(j).skb /\ e.kind = "item"
  BY <1>1, <1>3, TimesAndClocks DEF EnqueueOf, Recorded
<1>5. e \notin Absent
  BY <1>2, <1>3, <1>4
<1>6. PICK p \in 1..Len(file) : e = file[p] /\ p \in Left
  <2>1. e \notin Buffered
    <3>1. \A c \in Cpus : DOMAIN ring[c] = 1..Len(ring[c])
      BY <1>1, LenProperties DEF CaptureType, KernelType
    <3>2. ASSUME NEW c \in Cpus, NEW n \in 1..Len(ring[c])
          PROVE  ring[c][n] \in Absent
      <4>1. n \in DOMAIN ring[c]
        BY <3>1
      <4>2. ring[c][n] \in {ring[c][m] : m \in DOMAIN ring[c]}
        BY <4>1
      <4>3. {ring[c][m] : m \in DOMAIN ring[c]} \subseteq UNION {{ring[d][m] : m \in DOMAIN ring[d]} : d \in Cpus}
        BY Zenon
      <4> QED
        BY <4>2, <4>3 DEF Absent
    <3> QED
      BY <1>5, <3>2 DEF Buffered, Elements
  <2>2. PICK p \in 1..Len(file) : e = file[p]
    BY <2>1 DEF Recorded, Elements
  <2>3. p \in Left
    BY <1>5, <2>2, Zenon DEF Absent
  <2> QED
    BY <2>2, <2>3
<1>7. PICK i \in 1..Len(packets) : deq[i] = p
  <2>1. DOMAIN deq = 1..Len(deq)
    BY <1>1, LenProperties DEF TypeInv, ConvertType, SorterType
  <2> QED
    BY <1>1, <1>6, <2>1 DEF Left
<1>8. Kept(i) /\ Packet(i) = e
  <2>1. file[deq[i]].packet = file[deq[j]].packet
    BY <1>2, <1>4, <1>6, <1>7
  <2>2. packets[j] # 0
    BY DEF Kept
  <2>3. packets[i] # 0
    BY <1>1, <2>1, <2>2 DEF TypeInv, PacketsInv
  <2> QED
    BY <1>2, <1>6, <1>7, <2>3 DEF Kept
<1>9. Before(deq[i], deq[j]) /\ i < j
  <2>1. i # j
    BY <1>4, <1>8
  <2>2. ~Before(deq[j], deq[i])
    <3>1. deq[i] \in Items /\ deq[j] \in Items /\ file[deq[i]] = e /\ file[deq[j]] = Packet(j)
      BY <1>2, <1>6, <1>7, <1>8
    <3>2. e.ts \in Nat /\ Packet(j).ts \in Nat
      BY <1>2, <1>4
    <3> QED
      BY <1>3, <1>4, <3>1, <3>2 DEF Before
  <2> QED
    BY <1>1, <2>1, <2>2
\* Two kept packets are one if their records are of one event of one packet.
<1>10. ASSUME NEW l \in 1..Len(packets), NEW h \in 1..Len(packets), Kept(l), Kept(h),
              Packet(l).event = Packet(h).event, Packet(l).packet = Packet(h).packet
       PROVE  l = h
  <2>1. Same(file[deq[l]], file[deq[h]]) /\ deq[l] \in 1..Len(file) /\ deq[h] \in 1..Len(file)
    BY <1>2, <1>10 DEF Same
  <2>2. deq[l] = deq[h]
    BY <2>1 DEF KernelInv, OnceInv
  <2> QED
    BY <1>1, <2>2
<1>11. ASSUME NEW l \in (i + 1)..(j - 1), Kept(l), Packet(l).skb = Packet(i).skb
       PROVE  FALSE
  <2>1. l \in 1..Len(packets) /\ i < l /\ l < j
    BY <1>1, <1>9
  <2>2. Packet(l) \in Recorded /\ Packet(l).ts \in Nat /\ Packet(l).packet \in Nat
        /\ Packet(j) \in Recorded /\ Packet(j).ts \in Nat /\ Packet(j).packet \in Nat
        /\ Packet(l).event \in {"enqueue", "dequeue"}
    BY <1>2, <1>4, <1>11, <2>1
  <2>3. e.ts <= Packet(l).ts /\ Packet(l).ts <= Packet(j).ts
    <3>1. Before(deq[i], deq[l]) /\ Before(deq[l], deq[j])
      BY <1>1, <2>1
    <3> QED
      BY <1>1, <1>2, <1>8, <1>11, <2>1, <3>1, BeforeIsAnOrder
  <2>4. CASE Packet(l).packet = Packet(j).packet
    BY <1>4, <1>8, <1>10, <1>11, <2>1, <2>2, <2>4
  <2>5. CASE Packet(l).packet < Packet(j).packet
    <3>1. Packet(l).ts < e.ts
      BY <1>4, <1>8, <1>11, <2>2, <2>5 DEF KernelInv, TimeInv
    <3> QED
      BY <1>4, <2>2, <2>3, <3>1
  <2>6. CASE Packet(j).packet < Packet(l).packet
    <3>1. Packet(j).ts < Packet(l).ts
      BY <1>4, <1>8, <1>11, <2>2, <2>6 DEF KernelInv, TimeInv
    <3> QED
      BY <2>2, <2>3, <3>1
  <2> QED
    BY <2>2, <2>4, <2>5, <2>6
<1>12. Taken(i) /\ Packet(i).skb = Packet(j).skb /\ Packet(i).packet = Packet(j).packet
  BY <1>4, <1>8 DEF Taken
<1>13. \A h \in 1..Len(packets) :
         Kept(h) /\ Packet(h).event = "enqueue" /\ Packet(h).packet = Packet(j).packet => h = i
  BY <1>4, <1>8, <1>10
<1>14. Quiet(Packet(i).skb, i + 1, j - 1)
  BY <1>11 DEF Quiet
<1> QED
  BY <1>9, <1>12, <1>13, <1>14

\* In a slightly unsorted file of which the kernel lost no record, the delay of
\* a dequeued packet is measured from its own enqueueing, unless a record that
\* is not younger is absent: whatever the CPUs, the addresses used again, and
\* what the queue drops (parse_raw.py:59-94, 104-140, monitorbpf.py).
THEOREM DelaysAreOfOnePacket == Spec => []DelaysAreTrue
<1>1. Init => PairInv
  BY PairInit
<1>2. HeapSafe /\ NoLossInv /\ PairInv => DelaysAreTrue
  <2>1. ASSUME HeapSafe, KernelInv, PairInv, SlightlyUnsorted, phase # "failed", NEW j \in 1..k,
               Kept(j), Packet(j).event = "dequeue",
               \A r \in Absent : r.kind = "item" => r.ts > Packet(j).ts
        PROVE  {i \in 1..k : <<i, j>> \in match} =
                 {i \in DOMAIN packets :
                    Kept(i) /\ Packet(i).event = "enqueue" /\ Packet(i).packet = Packet(j).packet}
    <3>1. k \in 0..Len(packets) /\ Len(packets) \in Nat /\ DOMAIN packets = 1..Len(packets)
      BY <2>1, LenProperties DEF HeapSafe, TypeInv, ConvertType, PairingType
    <3>2. j \in 1..Len(packets) /\ k \in Nat
      BY <3>1
    <3>3. packets # <<>>
      BY <3>1, <3>2, EmptySeq
    <3>4. phase \in {"pairing", "returned"}
      BY <2>1, <3>3 DEF HeapSafe, TypeInv, ConvertType, SorterType, PacketsInv
    <3>5. PICK i \in 1..Len(packets) :
            /\ i < j /\ Taken(i) /\ Packet(i).skb = Packet(j).skb /\ Packet(i).packet = Packet(j).packet
            /\ Quiet(Packet(i).skb, i + 1, j - 1)
            /\ \A h \in 1..Len(packets) :
                 Kept(h) /\ Packet(h).event = "enqueue" /\ Packet(h).packet = Packet(j).packet => h = i
      BY <2>1, <3>2, <3>4, MateIsNear
    <3>6. i \in 1..k
      BY <3>1, <3>2, <3>5
    <3>7. \A h \in 1..k : <<h, j>> \in match <=> h = i
      BY <2>1, <3>5, <3>6 DEF PairInv, MatchInv
    <3>8. {h \in 1..k : <<h, j>> \in match} = {i}
      BY <3>6, <3>7
    <3>9. {h \in DOMAIN packets :
             Kept(h) /\ Packet(h).event = "enqueue" /\ Packet(h).packet = Packet(j).packet} = {i}
      BY <3>1, <3>5 DEF Taken
    <3> QED
      BY <3>8, <3>9
  <2> QED
    BY <2>1 DEF DelaysAreTrue, NoLossInv
<1> QED
  BY <1>1, <1>2, TypeInit, TypeStep, PairStep, NoLossInit, NoLossStep, HeapSafeInvariant, PTL DEF Spec

-----------------------------------------------------------------------------
(* The conversion keeps the promise of module Delays.                        *)

\* What tshark leaves out are all items of some packets.
LeftPackets == {file[p].packet : p \in Left}
DecodeInv ==
  phase \in {"pairing", "returned"} =>
    \E other \in SUBSET LeftPackets :
      \A j \in 1..Len(deq) : packets[j] = IF file[deq[j]].packet \in other THEN 0 ELSE deq[j]

\* What the dictionary says is true: it has the last enqueueing of an address,
\* which was taken.
TrueDictInv ==
  phase # "failed" =>
    \A x \in Skbs : skb_dict[x] # 0 =>
      /\ skb_dict[x] \in 1..k /\ Taken(skb_dict[x])
      /\ Packet(skb_dict[x]).skb = x /\ Quiet(x, skb_dict[x] + 1, k)

\* A dequeueing and the last enqueueing of its address.
Delayed(i, j) ==
  /\ i < j /\ Taken(i) /\ Kept(j) /\ Packet(j).event = "dequeue"
  /\ Packet(j).skb = Packet(i).skb /\ Quiet(Packet(i).skb, i + 1, j - 1)

TrueMatchInv ==
  \A i, j \in 1..Len(packets) : <<i, j>> \in match =>
    j <= k /\ Delayed(i, j) /\ Packet(j).ts - Packet(i).ts <= MaxDelay

\* A conversion that read on without an exception has read to the end.
EndInv == ~swallowed /\ phase \notin {"waiting", "reading"} => AtEnd

PromiseInv == EndInv /\ DecodeInv /\ TrueDictInv /\ TrueMatchInv

LEMMA TruePairing ==
  ASSUME TypeInv, TrueDictInv, TrueMatchInv, PairNothing \/ PairEnqueued \/ PairDequeued
  PROVE  TrueDictInv' /\ TrueMatchInv'
<1>1. /\ UNCHANGED captureVars /\ UNCHANGED packets /\ k < Len(packets) /\ k' = k + 1
      /\ k \in Nat /\ k + 1 \in 1..Len(packets) /\ Len(packets) \in Nat
      /\ skb_dict \in [Skbs -> Nat] /\ phase = "pairing"
  <2>1. k \in 0..Len(packets) /\ Len(packets) \in Nat /\ skb_dict \in [Skbs -> 0..Len(packets)]
    BY LenProperties DEF TypeInv, ConvertType, PairingType
  <2>2. skb_dict \in [Skbs -> Nat]
    BY <2>1
  <2> QED
    BY <2>1, <2>2 DEF PairNothing, PairEnqueued, PairDequeued
<1>2. \A l : (Kept(l) => Kept(l)') /\ (Kept(l)' => Kept(l)) /\ Packet(l)' = Packet(l)
  BY <1>1, SameFile DEF Kept, Packet
<1>3. \A l \in 1..Len(packets) : Kept(l) => Packet(l).skb \in Skbs
  BY KeptFacts DEF ItemRecord
<1>4. \A i \in 1..k : i \in 1..Len(packets) /\ i \in 1..(k + 1)
  BY <1>1
<1> DEFINE x == Packet(k + 1).skb
<1>5. \/ ~Kept(k + 1) /\ skb_dict' = skb_dict /\ match' = match
      \/ /\ Kept(k + 1) /\ Packet(k + 1).event = "enqueue" /\ match' = match
         /\ skb_dict' = [skb_dict EXCEPT ![x] = IF Packet(k + 1).misc = 1 THEN 0 ELSE k + 1]
      \/ /\ Kept(k + 1) /\ Packet(k + 1).event = "dequeue" /\ skb_dict[x] = 0
         /\ skb_dict' = skb_dict /\ match' = match
      \/ /\ Kept(k + 1) /\ Packet(k + 1).event = "dequeue" /\ skb_dict[x] # 0
         /\ phase' = "failed" /\ skb_dict' = skb_dict /\ match' = match
      \/ /\ Kept(k + 1) /\ Packet(k + 1).event = "dequeue" /\ skb_dict[x] # 0
         /\ Packet(k + 1).ts - Packet(skb_dict[x]).ts <= MaxDelay
         /\ skb_dict' = [skb_dict EXCEPT ![x] = 0]
         /\ match' = match \cup {<<skb_dict[x], k + 1>>}
  BY DEF PairNothing, PairEnqueued, PairDequeued, DeleteEntry
<1>6. Kept(k + 1) => x \in Skbs /\ x = Packet(k + 1).skb
  BY <1>1, <1>3
<1>7. Kept(k + 1) /\ Packet(k + 1).event = "enqueue" => Packet(k + 1).misc \in {0, 1}
  BY <1>1, KeptFacts DEF ItemRecord
<1> HIDE DEF x
<1>8. ASSUME phase' # "failed", NEW y \in Skbs, skb_dict'[y] # 0
      PROVE  /\ skb_dict'[y] \in 1..(k + 1) /\ Taken(skb_dict'[y])
             /\ Packet(skb_dict'[y]).skb = y /\ Quiet(y, skb_dict'[y] + 1, k + 1)
  <2>1. CASE Kept(k + 1) /\ y = x /\ Packet(k + 1).event = "enqueue"
    <3>1. skb_dict'[y] = k + 1 /\ Packet(k + 1).misc = 0
      BY <1>1, <1>5, <1>7, <1>8, <2>1
    <3>2. (k + 1 + 1)..(k + 1) = {}
      BY <1>1
    <3> QED
      BY <1>1, <1>6, <2>1, <3>1, <3>2 DEF Taken, Quiet
  <2>2. CASE ~(Kept(k + 1) /\ y = x)
    <3>1. skb_dict'[y] = skb_dict[y]
      BY <1>1, <1>5, <1>6, <2>2
    <3>2. /\ skb_dict[y] \in 1..k /\ Taken(skb_dict[y])
          /\ Packet(skb_dict[y]).skb = y /\ Quiet(y, skb_dict[y] + 1, k)
      BY <1>1, <1>8, <3>1 DEF TrueDictInv
    <3>3. \A l \in (skb_dict[y] + 1)..(k + 1) : l \in (skb_dict[y] + 1)..k \/ l = k + 1
      BY <1>1, <3>2
    <3>4. Quiet(y, skb_dict[y] + 1, k + 1)
      BY <1>6, <2>2, <3>2, <3>3 DEF Quiet
    <3> QED
      BY <1>4, <3>1, <3>2, <3>4
  <2>3. CASE Kept(k + 1) /\ y = x /\ Packet(k + 1).event # "enqueue"
    BY <1>1, <1>5, <1>6, <1>8, <2>3
  <2> QED
    BY <2>1, <2>2, <2>3
<1>9. ASSUME NEW i \in 1..Len(packets), NEW j \in 1..Len(packets), <<i, j>> \in match'
      PROVE  j <= k + 1 /\ Delayed(i, j) /\ Packet(j).ts - Packet(i).ts <= MaxDelay
  <2>1. CASE <<i, j>> \in match
    BY <1>1, <2>1 DEF TrueMatchInv
  <2>2. CASE <<i, j>> \notin match
    <3>1. /\ Kept(k + 1) /\ Packet(k + 1).event = "dequeue" /\ skb_dict[x] # 0
          /\ Packet(k + 1).ts - Packet(skb_dict[x]).ts <= MaxDelay
          /\ i = skb_dict[x] /\ j = k + 1
      BY <1>5, <1>9, <2>2
    <3>2. i \in 1..k /\ Taken(i) /\ Packet(i).skb = x /\ Quiet(x, i + 1, k)
      BY <1>1, <1>6, <3>1 DEF TrueDictInv
    <3>3. j - 1 = k /\ i < j
      BY <1>1, <3>1, <3>2
    <3> QED
      BY <1>1, <1>6, <3>1, <3>2, <3>3 DEF Delayed
  <2> QED
    BY <2>1, <2>2
<1>10. TrueDictInv'
  BY <1>1, <1>2, <1>8 DEF TrueDictInv, Taken, Quiet
<1>11. TrueMatchInv'
  BY <1>1, <1>2, <1>9 DEF TrueMatchInv, Delayed, Taken, Quiet
<1> QED
  BY <1>10, <1>11

LEMMA PromiseStep ==
  ASSUME TypeInv, PromiseInv, [Next]_vars
  PROVE  PromiseInv'
<1>1. ASSUME phase \in {"waiting", "reading", "draining", "parsing"}, UNCHANGED <<k, skb_dict, match>>
      PROVE  TrueDictInv' /\ TrueMatchInv'
  <2>1. packets = <<>> /\ k \in 0..Len(packets) /\ skb_dict \in [Skbs -> 0..Len(packets)]
        /\ match \in SUBSET ((1..Len(packets)) \X (1..Len(packets)))
    BY <1>1 DEF TypeInv, ConvertType, PairingType, PacketsInv
  <2>2. k = 0 /\ match = {} /\ \A x \in Skbs : skb_dict[x] = 0
    BY <2>1, NothingToPair
  <2>3. TrueDictInv'
    BY <1>1, <2>2 DEF TrueDictInv
  <2>4. TrueMatchInv'
    BY <1>1, <2>2 DEF TrueMatchInv
  <2> QED
    BY <2>3, <2>4
<1>2. ASSUME UNCHANGED <<file, deq, packets, k, skb_dict, match>>, phase \in {"pairing", "returned"} \/ phase' = phase,
             phase' # "failed" => phase # "failed"
      PROVE  DecodeInv' /\ TrueDictInv' /\ TrueMatchInv'
  <2>1. \A l : (Kept(l) => Kept(l)') /\ (Kept(l)' => Kept(l)) /\ Packet(l)' = Packet(l)
    BY <1>2 DEF Kept, Packet
  <2>2. LeftPackets' = LeftPackets
    BY <1>2 DEF Left, LeftPackets
  <2>3. DecodeInv'
    BY <1>2, <2>2 DEF PromiseInv, DecodeInv
  <2>4. TrueDictInv'
    BY <1>2, <2>1 DEF PromiseInv, TrueDictInv, Taken, Quiet
  <2>5. TrueMatchInv'
    BY <1>2, <2>1 DEF PromiseInv, TrueMatchInv, Delayed, Taken, Quiet
  <2> QED
    BY <2>3, <2>4, <2>5
\* The end of the file stays its end, as nothing is written after it.
<1>3. ASSUME UNCHANGED <<file, pos>>, ~swallowed' => ~swallowed, phase \notin {"waiting", "reading"}
      PROVE  EndInv'
  BY <1>3 DEF PromiseInv, EndInv, AtEnd
<1>4. ASSUME phase' \in {"waiting", "reading"} \/ swallowed'
      PROVE  EndInv'
  BY <1>4 DEF EndInv
<1>5. CASE phase \in {"waiting", "reading"} /\ CaptureNext /\ UNCHANGED convertVars
  <2>1. phase' = phase /\ UNCHANGED <<k, skb_dict, match>>
    BY <1>5 DEF convertVars
  <2> QED
    BY <1>1, <1>4, <1>5, <2>1 DEF PromiseInv, DecodeInv
<1>6. CASE Start \/ ReadItem \/ ReadMark
  <2>1. phase \in {"waiting", "reading"} /\ UNCHANGED <<k, skb_dict, match>>
        /\ (phase' = "reading" \/ (phase' = "parsing" /\ swallowed'))
    BY <1>6 DEF Start, ReadItem, ReadMark, Yield, Swallow, pairing
  <2> QED
    BY <1>1, <1>4, <2>1 DEF PromiseInv, DecodeInv
<1>7. CASE EndOfFile
  <2>1. phase = "reading" /\ phase' = "draining" /\ UNCHANGED <<k, skb_dict, match, file, pos>> /\ AtEnd
    BY <1>7, SameFile DEF EndOfFile, pairing
  <2>2. EndInv'
    BY <2>1 DEF EndInv, AtEnd
  <2> QED
    BY <1>1, <2>1, <2>2 DEF PromiseInv, DecodeInv
<1>8. CASE Drain
  <2>1. phase = "draining" /\ phase' \in {"draining", "parsing"} /\ UNCHANGED <<k, skb_dict, match, file, pos>>
        /\ (~swallowed' => ~swallowed)
    BY <1>8, SameFile DEF Drain, Yield, Swallow, pairing
  <2> QED
    BY <1>1, <1>3, <2>1 DEF PromiseInv, DecodeInv
<1>9. CASE Parse
  <2>1. phase = "parsing" /\ phase' = "pairing" /\ UNCHANGED <<k, skb_dict, match, file, pos, swallowed, deq>>
    BY <1>9, SameFile DEF Parse, sorter
  <2>2. PICK other \in SUBSET {file[p].packet : p \in Left} :
          packets' = [j \in DOMAIN deq |-> IF file[deq[j]].packet \in other THEN 0 ELSE deq[j]]
    BY <1>9 DEF Parse
  <2>3. DOMAIN deq = 1..Len(deq)
    BY LenProperties DEF TypeInv, ConvertType, SorterType
  <2>4. \A j \in 1..Len(deq) : packets'[j] = IF file[deq[j]].packet \in other THEN 0 ELSE deq[j]
    BY <2>2, <2>3
  <2>5. LeftPackets' = LeftPackets /\ other \in SUBSET LeftPackets
    BY <2>1, <2>2 DEF Left, LeftPackets
  <2>6. DecodeInv'
    BY <2>1, <2>4, <2>5 DEF DecodeInv
  <2> QED
    BY <1>1, <1>3, <2>1, <2>6 DEF PromiseInv
<1>10. CASE ParseFails
  <2>1. phase = "parsing" /\ phase' = "failed" /\ UNCHANGED <<k, skb_dict, match, file, pos, swallowed>>
    BY <1>10, SameFile DEF ParseFails, pairing
  <2> QED
    BY <1>1, <1>3, <2>1 DEF PromiseInv, DecodeInv
<1>11. CASE PairNothing \/ PairEnqueued \/ PairDequeued
  <2>1. phase = "pairing" /\ UNCHANGED <<packets, file, pos, swallowed, deq>>
    BY <1>11, SameFile DEF PairNothing, PairEnqueued, PairDequeued, sorter
  <2>2. TrueDictInv' /\ TrueMatchInv'
    BY <1>11, TruePairing DEF PromiseInv
  <2>3. LeftPackets' = LeftPackets
    BY <2>1 DEF Left, LeftPackets
  <2>4. DecodeInv'
    BY <2>1, <2>3 DEF PromiseInv, DecodeInv
  <2> QED
    BY <1>3, <2>1, <2>2, <2>4 DEF PromiseInv
<1>12. CASE Return
  <2>1. phase = "pairing" /\ phase' = "returned"
        /\ UNCHANGED <<file, deq, packets, k, skb_dict, match, pos, swallowed>>
    BY <1>12, SameFile DEF Return, pairing, sorter
  <2> QED
    BY <1>2, <1>3, <2>1 DEF PromiseInv
<1>13. CASE UNCHANGED vars
  <2>1. UNCHANGED <<phase, file, deq, packets, k, skb_dict, match, pos, swallowed>>
    BY <1>13, SameFile DEF vars, convertVars
  <2>2. EndInv'
    BY <2>1 DEF PromiseInv, EndInv, AtEnd
  <2> QED
    BY <1>2, <2>1, <2>2 DEF PromiseInv
<1> QED
  BY <1>5, <1>6, <1>7, <1>8, <1>9, <1>10, <1>11, <1>12, <1>13 DEF Next, Convert

\* The variables of Delays, as the conversion has them.
mState == CASE phase \in {"waiting", "reading", "draining"} -> "recording"
            [] phase \in {"parsing", "pairing"} -> "sorted"
            [] OTHER -> phase
mOrder == IF phase \in {"waiting", "reading", "draining"} THEN <<>> ELSE deq
mDelays == IF phase = "returned" THEN match ELSE {}

\* What Delays says of a file is what the conversion says of it.
LEMMA SameWords ==
  /\ \A S : Promise!Cardinality(S) = Cardinality(S)
  /\ Promise!Items = Items
  /\ Promise!SlightlyUnsorted <=> SlightlyUnsorted
  /\ Promise!WellFormed <=> WellFormed
  /\ \A p : Promise!Good(p) <=> file[p].kind \in {"item", "few left"}
  /\ CaptureType => \A p, q \in Items : Promise!Earlier(p, q) <=> Before(p, q)
<1>0. \A S : Promise!Cardinality(S) = Cardinality(S)
  BY Zenon DEF Promise!Cardinality, Cardinality
<1>1. Promise!Items = Items
  BY Zenon DEF Promise!Items, Items
<1>2. Promise!SlightlyUnsorted <=> SlightlyUnsorted
  BY <1>0, <1>1, Zenon DEF Promise!SlightlyUnsorted, SlightlyUnsorted
<1>3. \A p : Promise!Good(p) <=> file[p].kind \in {"item", "few left"}
  BY Zenon DEF Promise!Good
<1>4. Promise!WellFormed <=> WellFormed
  <2>1. ASSUME NEW p
        PROVE  (Promise!Good(p) \/ file[p].kind = "torn header")
                 <=> file[p].kind \in {"item", "few left", "torn header"}
    BY <1>3, Zenon
  <2> QED
    BY <2>1, Zenon DEF Promise!WellFormed, WellFormed
<1>5. ASSUME CaptureType, NEW p \in Items, NEW q \in Items
      PROVE  Promise!Earlier(p, q) <=> Before(p, q)
  <2>1. \A r \in {p, q} : r \in Nat /\ file[r].ts \in Nat /\ file[r].event \in {"enqueue", "dequeue"}
    BY <1>5, ItemFacts DEF ItemRecord
  <2> QED
    BY <2>1 DEF Promise!Earlier, Promise!Rank, Before
<1> QED
  BY <1>0, <1>1, <1>2, <1>3, <1>4, <1>5

\* What stands before the next record was kept, or is in a heap that an
\* exception lost; and the next record is bad then, or there is none.
PutInOrder ==
  LET missing == {p \in Items : p <= pos} \ Left
  IN  /\ pos \in 0..Len(file) /\ Left \subseteq 1..pos
      /\ \A p \in 1..pos : Promise!Good(p)
      /\ \A i, j \in 1..Len(deq) : i < j => deq[i] # deq[j] /\ file[deq[i]].ts <= file[deq[j]].ts
      /\ SlightlyUnsorted =>
           /\ pos = Len(file) \/ ~Promise!Good(pos + 1)
           /\ \A i, j \in 1..Len(deq) : i < j => Promise!Earlier(deq[i], deq[j])
           /\ \A p \in missing, q \in Left : Promise!Earlier(q, p)
           /\ Cardinality(missing) <= Window
           /\ WellFormed => Left = Items

ParsedInOrder == phase = "parsing" => PutInOrder

LEMMA ParsingInOrder == HeapSafe /\ EndInv => ParsedInOrder
<1> SUFFICES ASSUME HeapSafe, EndInv, phase = "parsing"
             PROVE  PutInOrder
  BY DEF ParsedInOrder
<1> DEFINE missing == {p \in Items : p <= pos} \ Left
<1>1. /\ CaptureType /\ Len(file) \in Nat /\ pos \in 0..Len(file) /\ pos \in Nat
      /\ heap \subseteq Items /\ IsFiniteSet(heap) /\ Cardinality(heap) <= Window
      /\ Left \subseteq Items /\ \A j \in 1..Len(deq) : deq[j] \in Items /\ deq[j] \in Left
  <2>1. CaptureType /\ Len(file) \in Nat
    BY LenProperties DEF HeapSafe, TypeInv, CaptureType
  <2> QED
    BY <2>1, LeftFacts DEF HeapSafe, TypeInv, ConvertType, SorterType
<1>2. Left \subseteq 1..pos
  BY DEF HeapSafe, ReadInv
<1>3. \A p \in 1..pos : Promise!Good(p)
  BY SameWords, Zenon DEF HeapSafe, ReadInv
<1>4. \A i, j \in 1..Len(deq) : i < j => deq[i] # deq[j] /\ file[deq[i]].ts <= file[deq[j]].ts
  BY DEF HeapSafe, HeapInv, SortedInv
<1>5. ASSUME SlightlyUnsorted
      PROVE  /\ pos = Len(file) \/ ~Promise!Good(pos + 1)
             /\ \A i, j \in 1..Len(deq) : i < j => Promise!Earlier(deq[i], deq[j])
             /\ \A p \in missing, q \in Left : Promise!Earlier(q, p)
             /\ Cardinality(missing) <= Window
             /\ WellFormed => Left = Items
  <2>1. missing \subseteq heap
    BY <1>5 DEF HeapSafe, HeapInv, AllInv
  <2>2. ~swallowed => AtEnd
    BY DEF EndInv
  <2>3. swallowed => BadNext
    BY <1>5 DEF HeapSafe, HeapInv, AllInv
  <2>4. pos = Len(file) \/ ~Promise!Good(pos + 1)
    <3>1. DOMAIN file = 1..Len(file)
      BY <1>1, LenProperties DEF CaptureType
    <3>2. pos # Len(file) => \E n \in DOMAIN file : n > pos /\ n = pos + 1
      <4>1. pos # Len(file) => pos + 1 \in 1..Len(file) /\ pos + 1 > pos
        BY <1>1
      <4> QED
        BY <3>1, <4>1, Zenon
    <3>3. AtEnd /\ pos # Len(file) => file[pos + 1].kind = "torn header"
      BY <3>2, Zenon DEF AtEnd
    <3>4. BadNext => ~Promise!Good(pos + 1)
      BY SameWords, Zenon DEF BadNext
    <3>5. file[pos + 1].kind = "torn header" => ~Promise!Good(pos + 1)
      BY SameWords, Zenon
    <3> QED
      BY <2>2, <2>3, <3>3, <3>4, <3>5, Zenon
  <2>5. \A i, j \in 1..Len(deq) : i < j => Promise!Earlier(deq[i], deq[j])
    BY <1>1, <1>5, SameWords DEF HeapSafe, HeapInv, OrderInv
  <2>6. ASSUME NEW p \in heap, NEW j \in 1..Len(deq)
        PROVE  Promise!Earlier(deq[j], p)
    <3>1. deq # <<>>
      BY <2>6, EmptySeq
    <3>2. Last \in Items /\ (j < Len(deq) \/ deq[j] = Last) /\ Len(deq) \in 1..Len(deq)
      BY <2>6, <3>1, LastFacts DEF HeapSafe, HeapInv
    <3>3. Before(Last, p)
      BY <1>5, <2>6, <3>1 DEF HeapSafe, HeapInv, OrderInv
    <3>4. j < Len(deq) => Before(deq[j], Last)
      <4>1. \A a, b \in 1..Len(deq) : a < b => Before(deq[a], deq[b])
        BY <1>5 DEF HeapSafe, HeapInv, OrderInv
      <4> QED
        BY <2>6, <3>2, <4>1 DEF Last
    <3>5. Before(deq[j], p)
      BY <1>1, <2>6, <3>2, <3>3, <3>4, BeforeIsAnOrder
    <3> QED
      BY <1>1, <2>6, <3>5, SameWords
  <2>7. \A p \in missing, q \in Left : Promise!Earlier(q, p)
    <3>1. DOMAIN deq = 1..Len(deq)
      BY LenProperties DEF HeapSafe, TypeInv, ConvertType, SorterType
    <3> QED
      BY <2>1, <2>6, <3>1 DEF Left
  <2>8. Cardinality(missing) <= Window
    <3>1. IsFiniteSet(missing) /\ Cardinality(missing) <= Cardinality(heap)
      BY <1>1, <2>1, FS_Subset
    <3>2. Cardinality(missing) \in Nat /\ Cardinality(heap) \in Nat
      BY <1>1, <3>1, FS_CardinalityType
    <3> HIDE DEF missing
    <3> QED
      BY <1>1, <3>1, <3>2, WindowAssumption
  <2>9. ASSUME WellFormed
        PROVE  Left = Items
    <3>1. pos < Len(file) => pos + 1 \in 1..Len(file)
      BY <1>1
    <3>2. ~BadNext
      BY <2>9, <3>1, Zenon DEF BadNext, WellFormed
    <3>3. ~swallowed /\ AtEnd /\ Left = {p \in Items : p <= pos}
      BY <2>2, <2>3, <3>2 DEF HeapSafe, HeapInv, AllInv
    <3>4. \A p \in Items : p \in DOMAIN file /\ p \in Nat /\ file[p].kind = "item"
      BY <1>1, ItemFacts, LenProperties DEF CaptureType, Items
    <3>5. \A p \in Items : p <= pos
      <4>1. ASSUME NEW p \in Items, p > pos PROVE FALSE
        <5>1. file[p].kind = "torn header" /\ file[p].kind = "item"
          BY <3>3, <3>4, <4>1 DEF AtEnd
        <5> QED
          BY <5>1, Zenon
      <4> QED
        BY <1>1, <3>4, <4>1
    <3> QED
      BY <3>3, <3>5
  <2> HIDE DEF missing
  <2> QED
    BY <2>4, <2>5, <2>7, <2>8, <2>9
<1> QED
  BY <1>1, <1>2, <1>3, <1>4, <1>5 DEF PutInOrder

LEMMA StutterOfPromise ==
  ASSUME UNCHANGED <<mState, file, mOrder, mDelays>>
  PROVE  UNCHANGED Promise!vars
BY DEF Promise!vars, mState, mOrder, mDelays

\* While the monitor writes.
LEMMA RecordingKeepsPromise ==
  ASSUME TypeInv, phase \in {"waiting", "reading"}, CaptureNext, UNCHANGED convertVars
  PROVE  Promise!Record
<1>1. phase' = phase /\ mState = "recording" /\ mState' = "recording"
  BY DEF convertVars, mState
<1>2. Len(file) <= Len(file') /\ \A p \in 1..Len(file) : file'[p] = file[p]
  BY FileGrows DEF TypeInv
<1>3. UNCHANGED <<mOrder, mDelays>>
  BY <1>1 DEF mOrder, mDelays
<1> QED
  BY <1>1, <1>2, <1>3, Zenon DEF Promise!Record, mState, mOrder, mDelays

\* The items are put in order when the last of them has left the heap, or when an
\* exception is swallowed.
LEMMA SortingKeepsPromise ==
  ASSUME TypeInv', ParsedInOrder', UNCHANGED captureVars,
         phase \in {"reading", "draining"}, phase' = "parsing"
  PROVE  Promise!Sort
<1>1. /\ mState = "recording" /\ mState' = "sorted" /\ mOrder' = deq' /\ mDelays = {} /\ mDelays' = {}
      /\ file' = file
  BY SameFile DEF mState, mOrder, mDelays
<1>2. deq' \in Seq(Items) /\ Items' = Items /\ DOMAIN deq' = 1..Len(deq')
  BY SameFile, LenProperties DEF TypeInv, ConvertType, SorterType
<1>3. {deq'[j] : j \in 1..Len(deq')} = Left'
  BY <1>2 DEF Left
<1> DEFINE absent(n) == {p \in Items : p <= n} \ Left'
<1>4. /\ pos' \in 0..Len(file) /\ Left' \subseteq 1..pos'
      /\ \A p \in 1..pos' : Promise!Good(p)
      /\ \A i, j \in 1..Len(deq') : i < j => deq'[i] # deq'[j] /\ file[deq'[i]].ts <= file[deq'[j]].ts
  BY <1>1, <1>2, Zenon DEF ParsedInOrder, PutInOrder, Promise!Good
<1>5. ASSUME SlightlyUnsorted
      PROVE  /\ pos' = Len(file) \/ ~Promise!Good(pos' + 1)
             /\ \A i, j \in 1..Len(deq') : i < j => Promise!Earlier(deq'[i], deq'[j])
             /\ \A p \in absent(pos'), q \in Left' : Promise!Earlier(q, p)
             /\ Cardinality(absent(pos')) <= Window
             /\ WellFormed => Left' = Items
  <2>1. SlightlyUnsorted' /\ (WellFormed <=> WellFormed')
    BY <1>1, <1>5, SameFile, Zenon DEF WellFormed
  <2>2. /\ \A p : Promise!Good(p)' <=> Promise!Good(p)
        /\ \A p, q : Promise!Earlier(p, q)' <=> Promise!Earlier(p, q)
    BY <1>1, Zenon DEF Promise!Good, Promise!Earlier, Promise!Rank
  <2> QED
    BY <1>1, <1>2, <2>1, <2>2, Zenon DEF ParsedInOrder, PutInOrder
<1>6. \E n \in 0..Len(file) :
        LET missing == {p \in Items : p <= n} \ Left'
        IN  /\ \A p \in 1..n : Promise!Good(p)
            /\ Left' \subseteq 1..n
            /\ Promise!SlightlyUnsorted =>
                 /\ n = Len(file) \/ ~Promise!Good(n + 1)
                 /\ \A i, j \in 1..Len(deq') : i < j => Promise!Earlier(deq'[i], deq'[j])
                 /\ \A p \in missing, q \in Left' : Promise!Earlier(q, p)
                 /\ Cardinality(missing) <= Window
                 /\ WellFormed => Left' = Items
  BY <1>4, <1>5, SameWords, Zenon
<1>7. \E n \in 0..Len(file) :
        LET left == {mOrder'[j] : j \in 1..Len(mOrder')}
            missing == {p \in Promise!Items : p <= n} \ left
        IN  /\ \A p \in 1..n : Promise!Good(p)
            /\ left \subseteq 1..n
            /\ Promise!SlightlyUnsorted =>
                 /\ n = Len(file) \/ ~Promise!Good(n + 1)
                 /\ \A i, j \in 1..Len(mOrder') : i < j => Promise!Earlier(mOrder'[i], mOrder'[j])
                 /\ \A p \in missing, q \in left : Promise!Earlier(q, p)
                 /\ Promise!Cardinality(missing) <= Window
                 /\ Promise!WellFormed => left = Promise!Items
  <2>1. {mOrder'[j] : j \in 1..Len(mOrder')} = Left'
    BY <1>1, <1>3
  <2> QED
    BY <1>1, <1>6, <2>1, SameWords
<1>8. /\ mOrder' \in Seq(Promise!Items)
      /\ \A i, j \in 1..Len(mOrder') :
           i < j => mOrder'[i] # mOrder'[j] /\ file[mOrder'[i]].ts <= file[mOrder'[j]].ts
  BY <1>1, <1>2, <1>4, SameWords
<1> QED
  BY <1>1, <1>7, <1>8, Zenon DEF Promise!Sort, mState, mOrder, mDelays

\* The delays are those that the dictionary gave.
LEMMA MeasuringKeepsPromise ==
  ASSUME HeapSafe, PairInv, PromiseInv, Return
  PROVE  Promise!Measure
<1>1. phase = "pairing" /\ phase' = "returned" /\ k = Len(packets) /\ UNCHANGED <<file, deq, packets, match>>
  BY SameFile DEF Return, sorter, pairing
<1>2. mState = "sorted" /\ mState' = "returned" /\ mOrder = deq /\ mOrder' = deq /\ mDelays' = match
  BY <1>1 DEF mState, mOrder, mDelays
<1>3. Len(packets) = Len(deq) /\ Len(deq) \in Nat /\ DOMAIN deq = 1..Len(deq)
      /\ match \subseteq (1..Len(deq)) \X (1..Len(deq))
  BY <1>1, LenProperties DEF HeapSafe, TypeInv, ConvertType, SorterType, PairingType, PacketsInv
<1>4. \A j \in 1..Len(deq) : Promise!Item(j) = file[deq[j]]
  BY <1>1 DEF Promise!Item
<1>5. PICK other \in SUBSET LeftPackets :
        \A j \in 1..Len(deq) : packets[j] = IF file[deq[j]].packet \in other THEN 0 ELSE deq[j]
  BY <1>1 DEF PromiseInv, DecodeInv
<1>6. other \in SUBSET {Promise!Item(j).packet : j \in 1..Len(deq)}
  BY <1>3, <1>4, <1>5 DEF Left, LeftPackets
<1> DEFINE used == {j \in 1..Len(deq) : Promise!Item(j).packet \notin other}
<1>7. \A j \in 1..Len(deq) : (j \in used <=> Kept(j)) /\ (Kept(j) => Packet(j) = Promise!Item(j))
  <2>1. \A j \in 1..Len(deq) : deq[j] # 0
    BY LeftFacts, ItemFacts DEF HeapSafe, TypeInv
  <2> QED
    BY <1>4, <1>5, <2>1 DEF Kept, Packet
<1>8. used \subseteq 1..Len(deq)
  OBVIOUS
<1> HIDE DEF used
<1>9. ASSUME NEW i \in used, NEW j \in used
      PROVE  Promise!Delay(i, j, used) <=> Delayed(i, j)
  <2>1. i \in 1..Len(deq) /\ j \in 1..Len(deq) /\ i \in Nat /\ j \in Nat
    BY <1>3, <1>8, <1>9
  <2>2. Kept(i) /\ Kept(j) /\ Packet(i) = Promise!Item(i) /\ Packet(j) = Promise!Item(j)
    BY <1>7, <1>9, <2>1
  <2>3. ASSUME NEW x
        PROVE  (\A l \in used : i < l /\ l < j => Promise!Item(l).skb # x) <=> Quiet(x, i + 1, j - 1)
    <3>1. \A l : (l \in used /\ i < l /\ l < j) <=> (l \in (i + 1)..(j - 1) /\ Kept(l))
      <4>1. \A l \in 1..Len(deq) : (i < l /\ l < j) <=> l \in (i + 1)..(j - 1)
        BY <1>3, <2>1
      <4>2. \A l \in (i + 1)..(j - 1) : l \in 1..Len(deq)
        BY <1>3, <2>1
      <4> QED
        BY <1>7, <1>8, <4>1, <4>2
    <3>2. \A l \in used : Packet(l) = Promise!Item(l)
      BY <1>7, <1>8
    <3> QED
      BY <3>1, <3>2 DEF Quiet
  <2> QED
    BY <2>2, <2>3 DEF Promise!Delay, Delayed, Taken
<1>10. match = {ij \in used \X used : Promise!Delay(ij[1], ij[2], used)}
  <2>1. ASSUME NEW i \in 1..Len(deq), NEW j \in 1..Len(deq)
        PROVE  <<i, j>> \in match <=> i \in used /\ j \in used /\ Promise!Delay(i, j, used)
    <3>1. <<i, j>> \in match => Delayed(i, j) /\ Kept(i) /\ Kept(j)
      BY <1>3, <2>1 DEF PromiseInv, TrueMatchInv, Delayed, Taken
    <3>2. Delayed(i, j) => <<i, j>> \in match
      <4>1. \A a, b \in 1..k :
              /\ a < b /\ Taken(a) /\ Kept(b) /\ Packet(b).event = "dequeue"
              /\ Packet(b).skb = Packet(a).skb /\ Quiet(Packet(a).skb, a + 1, b - 1)
              => \A h \in 1..k : <<h, b>> \in match <=> h = a
        BY <1>1 DEF PairInv, MatchInv
      <4> QED
        BY <1>1, <1>3, <2>1, <4>1 DEF Delayed
    <3> QED
      BY <1>7, <1>9, <2>1, <3>1, <3>2
  <2>2. ASSUME NEW ij \in match
        PROVE  ij \in used \X used /\ Promise!Delay(ij[1], ij[2], used)
    <3>1. PICK i \in 1..Len(deq), j \in 1..Len(deq) : ij = <<i, j>>
      BY <1>3, <2>2
    <3> QED
      BY <2>1, <2>2, <3>1
  <2>3. ASSUME NEW ij \in used \X used, Promise!Delay(ij[1], ij[2], used)
        PROVE  ij \in match
    <3>1. PICK i \in used, j \in used : ij = <<i, j>>
      BY <2>3
    <3> QED
      BY <1>8, <2>1, <2>3, <3>1
  <2> QED
    BY <2>2, <2>3
<1>11. \A ij \in match : Promise!Item(ij[2]).ts - Promise!Item(ij[1]).ts <= MaxDelay
  <2>1. ASSUME NEW i \in 1..Len(deq), NEW j \in 1..Len(deq), <<i, j>> \in match
        PROVE  Promise!Item(j).ts - Promise!Item(i).ts <= MaxDelay
    <3>1. Delayed(i, j) /\ Packet(j).ts - Packet(i).ts <= MaxDelay
      BY <1>3, <2>1 DEF PromiseInv, TrueMatchInv
    <3> QED
      BY <1>7, <2>1, <3>1 DEF Delayed, Taken
  <2> QED
    BY <1>3, <2>1
<1>12. \E o \in SUBSET {Promise!Item(j).packet : j \in 1..Len(mOrder)} :
         LET use == {j \in 1..Len(mOrder) : Promise!Item(j).packet \notin o}
         IN  /\ mDelays' = {ij \in use \X use : Promise!Delay(ij[1], ij[2], use)}
             /\ \A ij \in mDelays' : Promise!Item(ij[2]).ts - Promise!Item(ij[1]).ts <= MaxDelay
  BY <1>2, <1>6, <1>10, <1>11, Zenon DEF used
<1> QED
  BY <1>1, <1>2, <1>12, Zenon DEF Promise!Measure, mState, mOrder, mDelays

LEMMA FailingKeepsPromise ==
  ASSUME phase \in {"parsing", "pairing"}, phase' = "failed", UNCHANGED <<file, deq>>
  PROVE  Promise!Fail
BY DEF Promise!Fail

LEMMA StepKeepsPromise ==
  ASSUME HeapSafe, PairInv, PromiseInv, TypeInv', ParsedInOrder', [Next]_vars
  PROVE  [Promise!Next]_(Promise!vars)
<1>1. CASE phase \in {"waiting", "reading"} /\ CaptureNext /\ UNCHANGED convertVars
  BY <1>1, RecordingKeepsPromise DEF HeapSafe, Promise!Next
<1>2. CASE Start \/ ReadItem \/ ReadMark \/ EndOfFile \/ Drain
  <2>1. UNCHANGED captureVars /\ file' = file /\ phase \in {"waiting", "reading", "draining"}
        /\ phase' \in {"reading", "draining", "parsing"} /\ (phase = "waiting" => phase' # "parsing")
    BY <1>2, SameFile DEF Start, ReadItem, ReadMark, EndOfFile, Drain, Yield, Swallow
  <2>2. CASE phase' = "parsing"
    BY <2>1, <2>2, SortingKeepsPromise DEF Promise!Next
  <2>3. CASE phase' # "parsing"
    <3>1. UNCHANGED <<mState, mOrder, mDelays>>
      BY <2>1, <2>3 DEF mState, mOrder, mDelays
    <3> QED
      BY <2>1, <3>1, StutterOfPromise
  <2> QED
    BY <2>2, <2>3
<1>3. CASE Parse \/ ParseFails \/ PairNothing \/ PairEnqueued \/ PairDequeued
  <2>1. UNCHANGED <<file, deq>> /\ phase \in {"parsing", "pairing"} /\ phase' \in {"pairing", "failed"}
    BY <1>3, SameFile DEF Parse, ParseFails, PairNothing, PairEnqueued, PairDequeued, sorter
  <2>2. CASE phase' = "failed"
    BY <2>1, <2>2, FailingKeepsPromise DEF Promise!Next
  <2>3. CASE phase' = "pairing"
    <3>1. UNCHANGED <<mState, mOrder, mDelays>>
      BY <2>1, <2>3 DEF mState, mOrder, mDelays
    <3> QED
      BY <2>1, <3>1, StutterOfPromise
  <2> QED
    BY <2>1, <2>2, <2>3
<1>4. CASE Return
  BY <1>4, MeasuringKeepsPromise DEF Promise!Next
<1>5. CASE UNCHANGED vars
  <2>1. UNCHANGED <<phase, file, deq, match>>
    BY <1>5, SameFile DEF vars, convertVars
  <2>2. UNCHANGED <<mState, mOrder, mDelays>>
    BY <2>1 DEF mState, mOrder, mDelays
  <2> QED
    BY <2>1, <2>2, StutterOfPromise
<1> QED
  BY <1>1, <1>2, <1>3, <1>4, <1>5 DEF Next, Convert

\* The conversion keeps what module Delays promises: the file that the monitor
\* leaves is put in order once, cut short only by a bad record or by being too
\* much out of order, and the delays returned are those of the order and of
\* nothing else, none longer than recordDelays accepts (parse_raw.py:17-149).
THEOREM DelaysImplemented == Spec => ImplementsDelays
<1>1. Init => PromiseInv /\ Promise!Init
  <2> SUFFICES ASSUME Init PROVE PromiseInv /\ Promise!Init
    OBVIOUS
  <2>1. phase = "waiting" /\ file = <<>> /\ k = 0 /\ match = {} /\ \A x \in Skbs : skb_dict[x] = 0
    BY DEF Init, CaptureInit
  <2>2. PromiseInv
    BY <2>1 DEF PromiseInv, EndInv, DecodeInv, TrueDictInv, TrueMatchInv
  <2>3. Promise!Init
    BY <2>1 DEF Promise!Init
  <2> QED
    BY <2>2, <2>3
<1>2. HeapSafe => TypeInv /\ ReadInv /\ HeapInv
  BY DEF HeapSafe
<1>3. PromiseInv => EndInv
  BY DEF PromiseInv
<1>4. TypeInv /\ PairInv /\ [Next]_vars => PairInv'
  BY PairStep
<1>5. TypeInv /\ PromiseInv /\ [Next]_vars => PromiseInv'
  BY PromiseStep
<1>6. HeapSafe /\ EndInv => ParsedInOrder
  BY ParsingInOrder
<1>7. HeapSafe /\ PairInv /\ PromiseInv /\ TypeInv' /\ ParsedInOrder' /\ [Next]_vars
        => [Promise!Next]_(Promise!vars)
  BY StepKeepsPromise
<1> QED
  BY <1>1, <1>2, <1>3, <1>4, <1>5, <1>6, <1>7, PairInit, HeapSafeInvariant, PTL
  DEF Spec, ImplementsDelays, Promise!Spec

=============================================================================
