------------------------------- MODULE Delays -------------------------------
(***************************************************************************)
(* What the conversion of a capture promises, without its heap, its        *)
(* dictionary and the order of its work: at one moment the file is taken   *)
(* as it stands and put in the order of time; then, at another moment, the *)
(* delay of every packet is taken from the last time its address was       *)
(* enqueued.  The monitor may write to the file until the first of them.   *)
(***************************************************************************)
EXTENDS Naturals, Sequences, FiniteSets

CONSTANTS Window, MaxDelay

VARIABLES
  state,  \* "recording", "sorted", "returned" or "failed"
  file,   \* the records in the file
  order,  \* the places of the items that are kept, in the order of time
  delays  \* the places in order of the two records of each packet measured

vars == <<state, file, order, delays>>

Init == state = "recording" /\ file = <<>> /\ order = <<>> /\ delays = {}

\* The monitor writes.
Record ==
  /\ state = "recording"
  /\ Len(file) <= Len(file') /\ \A p \in 1..Len(file) : file'[p] = file[p]
  /\ UNCHANGED <<state, order, delays>>

Items == {p \in 1..Len(file) : file[p].kind = "item"}

\* The order of time: what enters the queue comes before what leaves it.
Rank(p) == IF file[p].event = "enqueue" THEN 0 ELSE 1
Earlier(p, q) ==
  \/ file[p].ts < file[q].ts
  \/ /\ file[p].ts = file[q].ts
     /\ Rank(p) < Rank(q) \/ (Rank(p) = Rank(q) /\ p < q)

\* Files as they should be: no item comes so late that more than Window others
\* which are not older stand before it, and no record is a bad one.
SlightlyUnsorted ==
  \A p \in Items :
    Cardinality({q \in Items : q < p /\ file[q].ts >= file[p].ts}) <= Window
Good(p) == file[p].kind \in {"item", "few left"}
WellFormed == \A p \in 1..Len(file) : Good(p) \/ file[p].kind = "torn header"

\* The file is put in order.  All of it is kept if it is well-formed.  If it is
\* not, the order is cut short: of what stands before the first bad record at
\* most the Window latest are missing.  Of a file that is too much out of order,
\* all that can be said is that the items which are kept are in order.
Sort ==
  /\ state = "recording" /\ state' = "sorted"
  /\ LET Kept == {order'[j] : j \in 1..Len(order')}
     IN  /\ order' \in Seq(Items)
         /\ \A i, j \in 1..Len(order') :
              i < j => order'[i] # order'[j] /\ file[order'[i]].ts <= file[order'[j]].ts
         /\ \E n \in 0..Len(file) :
              LET missing == {p \in Items : p <= n} \ Kept
              IN  /\ \A p \in 1..n : Good(p)
                  /\ Kept \subseteq 1..n
                  /\ SlightlyUnsorted =>
                       /\ n = Len(file) \/ ~Good(n + 1)
                       /\ \A i, j \in 1..Len(order') : i < j => Earlier(order'[i], order'[j])
                       /\ \A p \in missing, q \in Kept : Earlier(q, p)
                       /\ Cardinality(missing) <= Window
                       /\ WellFormed => Kept = Items
  /\ UNCHANGED <<file, delays>>

Item(j) == file[order[j]]

\* The packets at two places among those in use: the second leaves the queue,
\* and the first is the last that entered it with the same address.
Delay(i, j, used) ==
  /\ i < j
  /\ Item(i).event = "enqueue" /\ Item(i).misc = 0
  /\ Item(j).event = "dequeue" /\ Item(j).skb = Item(i).skb
  /\ \A l \in used : i < l /\ l < j => Item(l).skb # Item(i).skb

\* The delays are taken.  Any packets may be no traffic, which is left out.
\* No delay is longer than MaxDelay.
Measure ==
  /\ state = "sorted" /\ state' = "returned"
  /\ \E other \in SUBSET {Item(j).packet : j \in 1..Len(order)} :
       LET used == {j \in 1..Len(order) : Item(j).packet \notin other}
       IN  /\ delays' = {ij \in used \X used : Delay(ij[1], ij[2], used)}
           /\ \A ij \in delays' : Item(ij[2]).ts - Item(ij[1]).ts <= MaxDelay
  /\ UNCHANGED <<file, order>>

\* Nothing is measured at all.
Fail ==
  /\ state = "sorted" /\ state' = "failed"
  /\ UNCHANGED <<file, order, delays>>

Next == Record \/ Sort \/ Measure \/ Fail

Spec == Init /\ [][Next]_vars

=============================================================================
