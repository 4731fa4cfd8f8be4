-------------------------- MODULE GenServer_proofs --------------------------
(* Theorems about GenServer, for every number of processes and connections   *)
(* and every size of childPIDs: first those that hold with signals at any     *)
(* time, then those about a server that is stopped while its clients stream.  *)
EXTENDS GenServer, FiniteSetTheorems, TLAPS

Locations ==
  {"free", "accept", "fork", "child", "session", "track", "store", "close",
   "kill", "wait", "zombie"}

\* What the argument needs of the types; the bounds of TypeOK it does not.
Typed ==
  /\ pc \in [Pids -> Locations]
  /\ sockfd \in [Pids -> Sockets \cup {"stray"}]
  /\ s \in [Pids -> Sockets]

\* The first process forks with the connection it has just accepted, so a child
\* begins with one.
HasConnection == \A p \in Pids : pc[p] \in {"fork", "child"} => s[p] \in Conns

\* A child that has left its first instructions has given up the listening
\* socket, whatever a store behind childPIDs may have done to sockfd since.
Serving == {"session", "track", "store", "close", "accept"}
GaveUpListening ==
  \A p \in Pids \ {Listener} : pc[p] \in Serving => sockfd[p] # "listen"

AcceptInv == Typed /\ HasConnection /\ GaveUpListening /\ OnlyListenerAccepts

LEMMA InitAccepts == Init => AcceptInv
BY ProcessesAssumption
   DEF Init, AcceptInv, Typed, HasConnection, GaveUpListening, OnlyListenerAccepts,
       Locations, Serving, Sockets, Pids, Listener

\* The steps of one process on its way around the loop.
LEMMA ServeAccepts ==
  ASSUME AcceptInv, NEW p \in Pids,
         Accept(p) \/ BecomeSession(p) \/ SessionReturns(p) \/ Track(p)
           \/ Store(p) \/ Close(p) \/ ForkFails(p)
  PROVE  AcceptInv'
<1> USE DEF AcceptInv, Typed, HasConnection, GaveUpListening, OnlyListenerAccepts,
            Locations, Serving, Sockets, Goto
<1>1. CASE Accept(p)
  <2>1. p = Listener
    BY <1>1 DEF Accept
  <2> QED
    BY <1>1, <2>1 DEF Accept
<1>2. CASE BecomeSession(p)
  BY <1>2, ConnsAssumption DEF BecomeSession
<1>3. CASE SessionReturns(p)
  BY <1>3 DEF SessionReturns, globals
<1>4. CASE Track(p)
  BY <1>4 DEF Track
<1>5. CASE Store(p)
  BY <1>5 DEF Store
<1>6. CASE Close(p)
  BY <1>6 DEF Close, globals
<1>7. CASE ForkFails(p)
  BY <1>7 DEF ForkFails
<1> QED
  BY <1>1, <1>2, <1>3, <1>4, <1>5, <1>6, <1>7

\* A fork: the child is no copy of a child, and begins at a place of its own.
LEMMA ForkAccepts ==
  ASSUME AcceptInv, NEW p \in Pids, Fork(p)
  PROVE  AcceptInv'
<1> USE DEF AcceptInv, Typed, HasConnection, GaveUpListening, OnlyListenerAccepts,
            Locations, Serving, Sockets
<1>1. p = Listener /\ s[p] \in Conns
  BY DEF Fork
<1>2. PICK q \in Pids :
        /\ q # Listener /\ pc[q] = "free"
        /\ pc' = [pc EXCEPT ![p] = "track", ![q] = "child"]
        /\ sockfd' = [sockfd EXCEPT ![q] = sockfd[p]]
        /\ s' = [s EXCEPT ![q] = s[p]]
  BY DEF Fork, IsNextPid
<1> QED
  BY <1>1, <1>2

\* The end of a process and the steps of the handler lead nobody into the loop.
LEMMA OthersAccept ==
  ASSUME AcceptInv, UNCHANGED <<sockfd, s>>,
         pc' \in [Pids -> Locations],
         \A q \in Pids : pc'[q] \in {pc[q], "free", "zombie", "kill", "wait"}
  PROVE  AcceptInv'
BY DEF AcceptInv, Typed, HasConnection, GaveUpListening, OnlyListenerAccepts,
       Locations, Serving

LEMMA DiesAccepts ==
  ASSUME AcceptInv, NEW p \in Pids, NEW how, Dies(p, how)
  PROVE  AcceptInv'
<1>1. /\ pc' \in [Pids -> Locations]
      /\ \A q \in Pids : pc'[q] \in {pc[q], "free", "zombie", "kill", "wait"}
  BY DEF Dies, AcceptInv, Typed, Locations
<1> QED
  BY <1>1, OthersAccept DEF Dies, globals

LEMMA HandleAccepts ==
  ASSUME AcceptInv, NEW p \in Pids, Enter(p) \/ KillNext(p) \/ WaitNext(p)
  PROVE  AcceptInv'
<1>1. UNCHANGED <<sockfd, s>>
  BY DEF Enter, KillNext, WaitNext, globals
<1>2. /\ pc' \in [Pids -> Locations]
      /\ \A q \in Pids : pc'[q] \in {pc[q], "free", "zombie", "kill", "wait"}
  <2> USE DEF AcceptInv, Typed, Locations, Goto
  <2>1. CASE Enter(p)
    BY <2>1 DEF Enter
  <2>2. CASE KillNext(p)
    BY <2>2 DEF KillNext
  <2>3. CASE WaitNext(p)
    <3>1. CASE Goto(p, "kill")
      BY <3>1
    <3>2. ASSUME NEW q \in Awaited(p, childPIDs[p][at[p]]),
                 pc' = [pc EXCEPT ![p] = "kill", ![q] = "free"]
          PROVE  /\ pc' \in [Pids -> Locations]
                 /\ \A r \in Pids : pc'[r] \in {pc[r], "free", "zombie", "kill", "wait"}
      BY <3>2
    <3> QED
      BY <2>3, <3>1, <3>2 DEF WaitNext
  <2> QED
    BY <2>1, <2>2, <2>3
<1> QED
  BY <1>1, <1>2, OthersAccept

LEMMA NextAccepts == AcceptInv /\ [Next]_vars => AcceptInv'
<1> SUFFICES ASSUME AcceptInv, [Next]_vars
             PROVE  AcceptInv'
  OBVIOUS
<1>1. ASSUME NEW p \in Pids, Serve(p)
      PROVE  AcceptInv'
  <2>1. CASE AcceptFails(p)
    BY <2>1, DiesAccepts DEF AcceptFails
  <2>2. CASE Fork(p)
    BY <2>2, ForkAccepts
  <2> QED
    BY <1>1, <2>1, <2>2, ServeAccepts DEF Serve
<1>2. ASSUME NEW p \in Pids, Handle(p)
      PROVE  AcceptInv'
  <2>1. CASE HandlerExits(p)
    BY <2>1, DiesAccepts DEF HandlerExits
  <2> QED
    BY <1>2, <2>1, HandleAccepts DEF Handle
<1>3. ASSUME UNCHANGED <<pc, sockfd, s>>
      PROVE  AcceptInv'
  BY <1>3 DEF AcceptInv, Typed, HasConnection, GaveUpListening, OnlyListenerAccepts
<1>4. ASSUME NEW p \in Pids, Signal(p)
      PROVE  AcceptInv'
  BY <1>3, <1>4 DEF Signal, globals
<1>5. ASSUME NEW c \in Conns, Connect(c) \/ ClientSeesEnd(c) \/ ClientStops(c)
      PROVE  AcceptInv'
  BY <1>3, <1>5 DEF Connect, ClientSeesEnd, ClientStops, globals
<1>6. CASE Over \/ UNCHANGED vars
  BY <1>3, <1>6 DEF Over, vars, globals
<1> QED
  BY <1>1, <1>2, <1>4, <1>5, <1>6 DEF Next

\* No child of the server ever accepts a connection (gen.c:108-121): each goes
\* on in the loop of server_accept after its session, but its sockfd is not the
\* listening socket any more, even when a store behind childPIDs changed it.
THEOREM OnlyTheListenerAccepts == Spec => []OnlyListenerAccepts
<1>1. AcceptInv => OnlyListenerAccepts
  BY DEF AcceptInv
<1> QED
  BY InitAccepts, NextAccepts, <1>1, PTL DEF Spec

-----------------------------------------------------------------------------
(* Types.  What bounds the index into childPIDs is the number of connections *)
(* that were ever accepted.                                                  *)

Accepted == {c \in Conns : conns[c] \in {"open", "gone"}}

CountInv ==
  /\ childPIDs_i[Listener] <= Cardinality(Accepted)
  /\ pc[Listener] \in {"fork", "track"} => childPIDs_i[Listener] < Cardinality(Accepted)

\* A child counts from 0 again, and tracks once, after its session; the first
\* process is never where children are.
ChildSlotInv ==
  /\ pc[Listener] \notin {"child", "session"}
  /\ \A p \in Pids \ {Listener} : pc[p] \in {"child", "session", "track"} => Conns # {}
  /\ \A p \in Pids : pc[p] = "store" => childPIDs_i[p] > 0
  /\ \A p \in Pids \ {Listener} : pc[p] \in {"session", "track"} => childPIDs_i[p] = 0

\* The handler waits for a child that it has counted.
WaitInv == \A p \in Pids : pc[p] = "wait" => at[p] < childPIDs_i[p]

TypeInv == AcceptInv /\ TypeOK /\ CountInv /\ ChildSlotInv /\ WaitInv

LEMMA ListenerIsPid == Listener \in Pids
BY ProcessesAssumption DEF Listener, Pids

LEMMA AcceptedCount ==
  /\ Cardinality(Accepted) \in Nat /\ Cardinality(Conns) \in Nat
  /\ Cardinality(Accepted) <= Cardinality(Conns)
  /\ Conns # {} => Cardinality(Conns) > 0
<1>1. Accepted \subseteq Conns /\ IsFiniteSet(Conns)
  BY ConnsAssumption DEF Accepted
<1> QED
  BY <1>1, FS_Subset, FS_CardinalityType, FS_EmptySet

\* A connection that is accepted or gone stays so, whatever becomes of it.
LEMMA CountKept ==
  ASSUME Accepted \subseteq Accepted'
  PROVE  Cardinality(Accepted) <= Cardinality(Accepted')
<1>1. IsFiniteSet(Accepted')
  BY ConnsAssumption, FS_Subset DEF Accepted
<1> QED
  BY <1>1, FS_Subset

LEMMA AcceptTypes ==
  ASSUME TypeInv, NEW p \in Pids, Accept(p)
  PROVE  (TypeOK /\ CountInv /\ ChildSlotInv)'
<1> USE DEF TypeInv, TypeOK, Sockets, Goto
<1>1. p = Listener
  BY DEF Accept, AcceptInv, Typed, GaveUpListening, Serving
<1>2. PICK c \in Conns :
        /\ conns[c] = "queued"
        /\ s' = [s EXCEPT ![p] = c]
        /\ fds' = [fds EXCEPT ![p] = @ \cup {c}]
        /\ conns' = [conns EXCEPT ![c] = "open"]
  BY DEF Accept
<1>3. TypeOK'
  BY <1>2 DEF Accept, InHandler
<1>4. ChildSlotInv'
  BY <1>1 DEF Accept, ChildSlotInv
<1>5. CountInv'
  <2>1. Accepted' = Accepted \cup {c} /\ c \notin Accepted
    BY <1>2 DEF Accepted
  <2>2. IsFiniteSet(Accepted) /\ Cardinality(Accepted) \in Nat
    BY ConnsAssumption, FS_Subset, FS_CardinalityType DEF Accepted
  <2>3. Cardinality(Accepted') = Cardinality(Accepted) + 1
    BY <2>1, <2>2, FS_AddElement
  <2>4. childPIDs_i' = childPIDs_i /\ childPIDs_i[Listener] \in Nat
    BY ListenerIsPid, AcceptedCount DEF Accept, Slots
  <2> QED
    BY <2>2, <2>3, <2>4 DEF CountInv
<1> QED
  BY <1>3, <1>4, <1>5

LEMMA ForkTypes ==
  ASSUME TypeInv, NEW p \in Pids, Fork(p)
  PROVE  (TypeOK /\ CountInv /\ ChildSlotInv)'
<1> USE DEF TypeInv, TypeOK, Sockets
<1>1. p = Listener
  BY DEF Fork, AcceptInv, OnlyListenerAccepts
<1>2. PICK q \in Pids :
        /\ q # Listener /\ pc[q] = "free"
        /\ pc' = [pc EXCEPT ![p] = "track", ![q] = "child"]
        /\ sockfd' = [sockfd EXCEPT ![q] = sockfd[p]]
        /\ s' = [s EXCEPT ![q] = s[p]]
        /\ childPID' = [childPID EXCEPT ![p] = q, ![q] = 0]
        /\ childPIDs_i' = [childPIDs_i EXCEPT ![q] = childPIDs_i[p]]
        /\ childPIDs' = [childPIDs EXCEPT ![q] = childPIDs[p]]
        /\ fds' = [fds EXCEPT ![q] = fds[p]]
        /\ parent' = [parent EXCEPT ![q] = p]
  BY DEF Fork, IsNextPid
<1>3. UNCHANGED <<at, pending, conns, ended>> /\ pc[p] = "fork"
  BY DEF Fork
<1>4. TypeOK'
  BY <1>2, <1>3 DEF InHandler
<1>5. ChildSlotInv'
  BY <1>1, <1>2, <1>3 DEF ChildSlotInv, AcceptInv, HasConnection
<1>6. CountInv'
  BY <1>1, <1>2, <1>3 DEF CountInv, Accepted
<1> QED
  BY <1>4, <1>5, <1>6

\* The other steps of the loop.
LEMMA LoopTypes ==
  ASSUME TypeInv, NEW p \in Pids,
         BecomeSession(p) \/ SessionReturns(p) \/ Track(p) \/ Store(p) \/ Close(p) \/ ForkFails(p)
  PROVE  (TypeOK /\ CountInv /\ ChildSlotInv)'
<1> USE DEF TypeInv, Goto
<1>0. Accepted' = Accepted /\ UNCHANGED conns
  BY DEF BecomeSession, SessionReturns, Track, Store, Close, ForkFails, Accepted
<1>1. /\ Cardinality(Accepted) \in Nat /\ Cardinality(Conns) \in Nat /\ Listener \in Pids
      /\ Cardinality(Accepted) <= Cardinality(Conns) /\ 0 \in Slots
  BY AcceptedCount, ListenerIsPid DEF Slots
<1>2. CASE BecomeSession(p)
  <2>1. TypeOK'
    <3>1. sockfd' \in [Pids -> Sockets \cup {"stray"}] /\ childPIDs_i' \in [Pids -> Slots]
      BY <1>2, <1>1 DEF BecomeSession, TypeOK
    <3>2. \A q \in Pids : pc'[q] \in {"kill", "wait"} => at'[q] <= childPIDs_i'[q]
      BY <1>2, <1>1 DEF BecomeSession, TypeOK, InHandler
    <3>3. pc' \in [Pids -> Locations]
      BY <1>2 DEF BecomeSession, TypeOK, Locations
    <3>4. UNCHANGED <<s, at, parent, pending, conns, ended>>
      BY <1>2 DEF BecomeSession, kernel
    <3> QED
      BY <1>2, <3>1, <3>2, <3>3, <3>4 DEF BecomeSession, kernel, TypeOK, InHandler, Locations
  <2>2. CountInv'
    BY <1>2, <1>0, <1>1 DEF BecomeSession, TypeOK, CountInv, ChildSlotInv, Slots
  <2>3. ChildSlotInv'
    BY <1>2, <1>1 DEF BecomeSession, TypeOK, ChildSlotInv, Slots
  <2> QED
    BY <2>1, <2>2, <2>3
<1>3. CASE SessionReturns(p)
  <2>1. TypeOK'
    <3>1. fds' \in [Pids -> SUBSET Sockets]
      BY <1>3, <1>1 DEF SessionReturns, globals, TypeOK
    <3>2. \A q \in Pids : pc'[q] \in {"kill", "wait"} => at'[q] <= childPIDs_i'[q]
      BY <1>3, <1>1 DEF SessionReturns, globals, TypeOK, InHandler
    <3> QED
      BY <1>3, <3>1, <3>2 DEF SessionReturns, globals, TypeOK, InHandler
  <2>2. CountInv'
    BY <1>3, <1>0, <1>1 DEF SessionReturns, globals, TypeOK, CountInv, ChildSlotInv, Slots
  <2>3. ChildSlotInv'
    BY <1>3, <1>1 DEF SessionReturns, globals, TypeOK, ChildSlotInv, Slots
  <2> QED
    BY <2>1, <2>2, <2>3
<1>4. CASE Track(p)
  <2>1. childPIDs_i[p] + 1 \in Slots /\ childPIDs_i[p] \in Nat
    <3>1. childPIDs_i[p] \in Nat
      BY <1>1 DEF TypeOK, Slots
    <3>2. childPIDs_i[p] + 1 <= Cardinality(Conns)
      <4>1. CASE p = Listener
        BY <1>1, <1>4, <3>1, <4>1 DEF Track, CountInv
      <4>2. CASE p # Listener
        BY <1>1, <1>4, <4>2, AcceptedCount DEF Track, ChildSlotInv
      <4> QED
        BY <4>1, <4>2
    <3> QED
      BY <1>1, <3>1, <3>2 DEF Slots
  <2>2. TypeOK'
    <3>1. childPIDs_i' \in [Pids -> Slots]
      BY <1>4, <2>1, <1>1 DEF Track, TypeOK
    <3>2. \A q \in Pids : pc'[q] \in {"kill", "wait"} => at'[q] <= childPIDs_i'[q]
      BY <1>4, <2>1, <1>1 DEF Track, TypeOK, InHandler
    <3>3. pc' \in [Pids -> Locations]
      BY <1>4 DEF Track, TypeOK, Locations
    <3>4. UNCHANGED <<s, at, parent, pending, conns, ended>>
      BY <1>4 DEF Track, kernel
    <3> QED
      BY <1>4, <3>1, <3>2, <3>3, <3>4 DEF Track, kernel, TypeOK, InHandler, Locations
  <2>3. CountInv'
    BY <1>4, <1>0, <1>1 DEF Track, TypeOK, CountInv, ChildSlotInv, Slots
  <2>4. ChildSlotInv'
    BY <1>4, <1>1 DEF Track, TypeOK, ChildSlotInv, Slots
  <2> QED
    BY <2>2, <2>3, <2>4
<1>5. CASE Store(p)
  <2>1. childPIDs_i[p] - 1 \in Slots
    BY <1>1, <1>5 DEF Store, TypeOK, ChildSlotInv, Slots
  <2>2. TypeOK'
    <3>1. childPIDs' \in [Pids -> [Slots -> Pids \cup {0, -1}]] /\ sockfd' \in [Pids -> Sockets \cup {"stray"}]
      BY <1>5, <2>1, <1>1 DEF Store, TypeOK
    <3>2. \A q \in Pids : pc'[q] \in {"kill", "wait"} => at'[q] <= childPIDs_i'[q]
      BY <1>5, <2>1, <1>1 DEF Store, TypeOK, InHandler
    <3>3. pc' \in [Pids -> Locations]
      BY <1>5 DEF Store, TypeOK, Locations
    <3>4. UNCHANGED <<s, at, parent, pending, conns, ended>>
      BY <1>5 DEF Store, kernel
    <3> QED
      BY <1>5, <3>1, <3>2, <3>3, <3>4 DEF Store, kernel, TypeOK, InHandler, Locations
  <2>3. CountInv'
    BY <1>5, <1>0, <1>1 DEF Store, TypeOK, CountInv, ChildSlotInv, Slots
  <2>4. ChildSlotInv'
    BY <1>5, <1>1 DEF Store, TypeOK, ChildSlotInv, Slots
  <2> QED
    BY <2>2, <2>3, <2>4
<1>6. CASE Close(p)
  <2>1. TypeOK'
    BY <1>6, <1>1 DEF Close, globals, TypeOK, InHandler
  <2>2. CountInv'
    BY <1>6, <1>0, <1>1 DEF Close, globals, TypeOK, CountInv, ChildSlotInv, Slots
  <2>3. ChildSlotInv'
    BY <1>6, <1>1 DEF Close, globals, TypeOK, ChildSlotInv, Slots
  <2> QED
    BY <2>1, <2>2, <2>3
<1>7. CASE ForkFails(p)
  <2>1. TypeOK'
    BY <1>7, <1>1 DEF ForkFails, kernel, TypeOK, InHandler
  <2>2. CountInv'
    BY <1>7, <1>0, <1>1 DEF ForkFails, kernel, TypeOK, CountInv, ChildSlotInv, Slots
  <2>3. ChildSlotInv'
    BY <1>7, <1>1 DEF ForkFails, kernel, TypeOK, ChildSlotInv, Slots, AcceptInv, OnlyListenerAccepts
  <2> QED
    BY <2>1, <2>2, <2>3
<1> QED
  BY <1>2, <1>3, <1>4, <1>5, <1>6, <1>7

\* Off the loop, nothing is counted.
LEMMA OffLoopCounts ==
  ASSUME TypeInv, UNCHANGED <<globals, conns>>, pc' \in [Pids -> Locations],
         \A q \in Pids : pc'[q] \in {pc[q], "free", "zombie", "kill", "wait"}
  PROVE  (CountInv /\ ChildSlotInv)'
<1>1. Accepted' = Accepted
  BY DEF Accepted
<1> QED
  BY <1>1, ListenerIsPid DEF TypeInv, CountInv, ChildSlotInv, globals

LEMMA DiesTypes ==
  ASSUME TypeInv, NEW p \in Pids, NEW how \in {"handler", "error"}, Dies(p, how)
  PROVE  (TypeOK /\ CountInv /\ ChildSlotInv)'
<1>1. /\ pc' \in [Pids -> Locations]
      /\ \A q \in Pids : pc'[q] \in {pc[q], "free", "zombie"}
  BY DEF Dies, TypeInv, TypeOK, Locations
<1>2. TypeOK'
  <2>1. /\ parent' \in [Pids -> Pids \cup {0}] /\ fds' \in [Pids -> SUBSET Sockets]
        /\ pending' \subseteq Pids /\ ended' \in {"no", "handler", "error"}
    BY DEF Dies, TypeInv, TypeOK
  <2>2. UNCHANGED <<sockfd, s, childPID, childPIDs_i, childPIDs, at, conns>>
    BY DEF Dies, globals
  <2> QED
    BY <1>1, <2>1, <2>2 DEF TypeInv, TypeOK, InHandler, Locations
<1> QED
  BY <1>1, <1>2, OffLoopCounts DEF Dies

LEMMA HandleTypes ==
  ASSUME TypeInv, NEW p \in Pids, Enter(p) \/ KillNext(p) \/ WaitNext(p)
  PROVE  (TypeOK /\ CountInv /\ ChildSlotInv)'
<1>0. UNCHANGED <<globals, fds, parent, conns, ended>>
  BY DEF Enter, KillNext, WaitNext, kernel
<1>1. /\ pc' \in [Pids -> Locations]
      /\ \A q \in Pids : pc'[q] \in {pc[q], "free", "kill", "wait"}
      /\ \A q \in Pids \ {p} : pc'[q] \in {"kill", "wait"} => InHandler(q)
  <2> USE DEF TypeInv, TypeOK, Locations, Goto, InHandler
  <2>1. CASE Enter(p)
    BY <2>1 DEF Enter
  <2>2. CASE KillNext(p)
    BY <2>2 DEF KillNext
  <2>3. CASE WaitNext(p)
    <3>1. CASE pc' = [pc EXCEPT ![p] = "kill"]
      BY <3>1
    <3>2. ASSUME NEW q \in Awaited(p, childPIDs[p][at[p]]),
                 pc' = [pc EXCEPT ![p] = "kill", ![q] = "free"]
          PROVE  /\ pc' \in [Pids -> Locations]
                 /\ \A r \in Pids : pc'[r] \in {pc[r], "free", "kill", "wait"}
                 /\ \A r \in Pids \ {p} : pc'[r] \in {"kill", "wait"} => InHandler(r)
      BY <3>2
    <3> QED
      BY <2>3, <3>1, <3>2 DEF WaitNext
  <2> QED
    BY <2>1, <2>2, <2>3
<1>2. /\ at' \in [Pids -> Slots]
      /\ pc'[p] \in {"kill", "wait"} => at'[p] <= childPIDs_i[p]
      /\ \A q \in Pids \ {p} : at'[q] = at[q]
  <2>1. CASE Enter(p)
    BY <2>1, AcceptedCount DEF Enter, TypeInv, TypeOK, Slots
  <2>2. CASE KillNext(p)
    BY <2>2 DEF KillNext, MoreToKill, TypeInv, TypeOK, InHandler
  <2>3. CASE WaitNext(p)
    <3>1. pc[p] = "wait" /\ at' = [at EXCEPT ![p] = @ + 1]
      BY <2>3 DEF WaitNext, Advance
    <3>2. at[p] < childPIDs_i[p]
      BY <3>1 DEF TypeInv, WaitInv
    <3> QED
      BY <3>1, <3>2, AcceptedCount DEF TypeInv, TypeOK, Slots
  <2> QED
    BY <2>1, <2>2, <2>3
<1>3. pending' \subseteq Pids
  BY DEF Enter, KillNext, WaitNext, kernel, Targets, Signalled, Alive, TypeInv, TypeOK
<1>4. TypeOK'
  BY <1>0, <1>1, <1>2, <1>3 DEF globals, TypeInv, TypeOK, InHandler, Locations
<1> QED
  BY <1>0, <1>1, <1>4, OffLoopCounts

LEMMA NextWaits ==
  ASSUME TypeInv, Next
  PROVE  WaitInv'
<1> USE DEF TypeInv, TypeOK, WaitInv, Goto
<1>1. ASSUME NEW p \in Pids, Serve(p)
      PROVE  WaitInv'
  <2>1. CASE Fork(p)
    <3>1. PICK q \in Pids :
            /\ pc' = [pc EXCEPT ![p] = "track", ![q] = "child"]
            /\ childPIDs_i' = [childPIDs_i EXCEPT ![q] = childPIDs_i[p]]
      BY <2>1 DEF Fork
    <3> QED
      BY <2>1, <3>1 DEF Fork
  <2>2. CASE AcceptFails(p)
    BY <2>2 DEF AcceptFails, Dies, globals
  <2>3. CASE Accept(p) \/ ForkFails(p) \/ BecomeSession(p) \/ SessionReturns(p)
               \/ Track(p) \/ Store(p) \/ Close(p)
    BY <2>3 DEF Accept, ForkFails, BecomeSession, SessionReturns, Track, Store, Close, globals
  <2> QED
    BY <1>1, <2>1, <2>2, <2>3 DEF Serve
<1>2. ASSUME NEW p \in Pids, Handle(p)
      PROVE  WaitInv'
  <2>1. CASE WaitNext(p)
    <3>1. \A q \in Pids : pc'[q] = "wait" => q # p /\ pc[q] = "wait"
      BY <2>1 DEF WaitNext
    <3> QED
      BY <2>1, <3>1 DEF WaitNext, Advance, globals
  <2>2. CASE Enter(p) \/ KillNext(p) \/ HandlerExits(p)
    BY <2>2 DEF Enter, KillNext, MoreToKill, HandlerExits, Dies, globals
  <2> QED
    BY <1>2, <2>1, <2>2 DEF Handle
<1>3. CASE UNCHANGED <<pc, globals, at>>
  BY <1>3 DEF globals
<1> QED
  BY <1>1, <1>2, <1>3 DEF Next, Signal, Connect, ClientSeesEnd, ClientStops, Over, vars

LEMMA NextTypes ==
  ASSUME TypeInv, [Next]_vars
  PROVE  TypeInv'
<1>0. AcceptInv'
  BY NextAccepts DEF TypeInv
<1>1. (TypeOK /\ CountInv /\ ChildSlotInv)'
  <2>1. ASSUME NEW p \in Pids, Serve(p)
        PROVE  (TypeOK /\ CountInv /\ ChildSlotInv)'
    BY <2>1, AcceptTypes, ForkTypes, LoopTypes, DiesTypes DEF Serve, AcceptFails
  <2>2. ASSUME NEW p \in Pids, Handle(p)
        PROVE  (TypeOK /\ CountInv /\ ChildSlotInv)'
    BY <2>2, HandleTypes, DiesTypes DEF Handle, HandlerExits
  <2>3. ASSUME NEW p \in Pids, Signal(p)
        PROVE  (TypeOK /\ CountInv /\ ChildSlotInv)'
    BY <2>3 DEF Signal, globals, TypeInv, TypeOK, InHandler, CountInv, ChildSlotInv, Accepted
  <2>4. ASSUME NEW c \in Conns, Connect(c) \/ ClientSeesEnd(c) \/ ClientStops(c)
        PROVE  (TypeOK /\ CountInv /\ ChildSlotInv)'
    <3>1. UNCHANGED <<pc, globals, at, kernel, ended>>
          /\ conns' \in [Conns -> {"new", "queued", "open", "gone"}]
      BY <2>4 DEF Connect, ClientSeesEnd, ClientStops, TypeInv, TypeOK
    <3>2. Accepted \subseteq Accepted'
      BY <2>4 DEF Connect, ClientSeesEnd, ClientStops, Accepted, TypeInv, TypeOK
    <3>3. CountInv'
      <4>1. childPIDs_i[Listener] \in Nat /\ Cardinality(Accepted) \in Nat /\ Cardinality(Accepted') \in Nat
        <5>1. Accepted' \subseteq Conns /\ IsFiniteSet(Conns)
          BY ConnsAssumption DEF Accepted
        <5>2. childPIDs_i[Listener] \in Nat
          BY ListenerIsPid, AcceptedCount DEF TypeInv, TypeOK, Slots
        <5> QED
          BY <5>1, <5>2, AcceptedCount, FS_Subset, FS_CardinalityType
      <4> QED
        BY <3>1, <3>2, <4>1, CountKept DEF globals, TypeInv, CountInv
    <3>4. TypeOK' /\ ChildSlotInv'
      BY <3>1 DEF globals, kernel, TypeInv, TypeOK, InHandler, ChildSlotInv
    <3> QED
      BY <3>3, <3>4
  <2>5. CASE UNCHANGED vars
    BY <2>5 DEF vars, globals, kernel, TypeInv, TypeOK, InHandler, CountInv, ChildSlotInv, Accepted
  <2> QED
    BY <2>1, <2>2, <2>3, <2>4, <2>5 DEF Next, Over
<1>2. WaitInv'
  <2>1. CASE UNCHANGED vars
    BY <2>1 DEF vars, globals, TypeInv, WaitInv
  <2> QED
    BY <2>1, NextWaits
<1> QED
  BY <1>0, <1>1, <1>2 DEF TypeInv

LEMMA InitTypes == Init => TypeInv
<1> SUFFICES ASSUME Init PROVE TypeInv
  OBVIOUS
<1>1. Accepted = {} /\ Cardinality(Accepted) = 0
  BY FS_EmptySet DEF Init, Accepted
<1>2. TypeOK
  BY AcceptedCount DEF Init, TypeOK, Slots, Sockets, InHandler
<1> QED
  BY <1>1, <1>2, ListenerIsPid, InitAccepts, AcceptedCount
     DEF Init, TypeInv, CountInv, ChildSlotInv, WaitInv

\* Every variable keeps its type: in particular, the first process never counts
\* more children than there were connections, and no handler looks behind the
\* children that its process has counted.
THEOREM ServerTypeCorrect == Spec => []TypeOK
<1>1. TypeInv => TypeOK
  BY DEF TypeInv
<1> QED
  BY InitTypes, NextTypes, <1>1, PTL DEF Spec

-----------------------------------------------------------------------------
(* Families: who is whose child, and who can still be signalled.             *)

FirstProcess ==
  /\ pc[Listener] # "zombie" /\ parent[Listener] = 0
  /\ ended = "no" <=> pc[Listener] # "free"

\* Only the first process forks, so every other one is its child, until it has
\* ended: from then on they are nobody's.
OneFamily ==
  /\ \A q \in Pids : parent[q] \in {0, Listener}
  /\ ended = "no" => \A q \in Alive \ {Listener} : parent[q] = Listener

\* What has ended takes no signal and holds no socket.
DeadAreGone == pending \subseteq Alive /\ \A p \in Pids \ Alive : fds[p] = {}

\* fork() returns the pid of a new process.
NotOwnChild ==
  \A p \in Pids : childPID[p] # Listener /\ \A j \in Slots : childPIDs[p][j] # Listener

FamilyInv == FirstProcess /\ OneFamily /\ DeadAreGone /\ NotOwnChild

\* What the proofs on families need of a step that forks nobody.
LEMMA AliveShrinks ==
  ASSUME TypeInv, FamilyInv, NEW p \in Pids,
         (Serve(p) /\ ~Fork(p)) \/ Handle(p) \/ Signal(p)
  PROVE  /\ Alive' \subseteq Alive
         /\ \A q \in Pids \ {p} : pc'[q] \in {pc[q], "free"}
<1> USE DEF TypeInv, TypeOK, Goto, Alive
<1>1. CASE AcceptFails(p) \/ HandlerExits(p)
  BY <1>1 DEF AcceptFails, HandlerExits, Dies
<1>2. CASE Accept(p) \/ ForkFails(p) \/ BecomeSession(p) \/ SessionReturns(p)
             \/ Track(p) \/ Store(p) \/ Close(p) \/ Signal(p)
  BY <1>2 DEF Accept, ForkFails, BecomeSession, SessionReturns, Track, Store, Close, Signal
<1>3. CASE Enter(p)
  BY <1>3 DEF Enter, FamilyInv, DeadAreGone
<1>4. CASE KillNext(p)
  BY <1>4 DEF KillNext
<1>5. CASE WaitNext(p)
  <2>1. CASE pc' = [pc EXCEPT ![p] = "kill"]
    BY <1>5, <2>1 DEF WaitNext
  <2>2. ASSUME NEW q \in Awaited(p, childPIDs[p][at[p]]),
               pc[q] = "zombie", pc' = [pc EXCEPT ![p] = "kill", ![q] = "free"]
        PROVE  Alive' \subseteq Alive /\ \A r \in Pids \ {p} : pc'[r] \in {pc[r], "free"}
    BY <1>5, <2>2 DEF WaitNext
  <2> QED
    BY <1>5, <2>1, <2>2 DEF WaitNext
<1> QED
  BY <1>1, <1>2, <1>3, <1>4, <1>5 DEF Serve, Handle

\* The steps of the loop that neither fork nor end.
LEMMA LoopFamily ==
  ASSUME TypeInv, FamilyInv, NEW p \in Pids,
         Accept(p) \/ ForkFails(p) \/ BecomeSession(p) \/ SessionReturns(p)
           \/ Track(p) \/ Store(p) \/ Close(p)
  PROVE  FamilyInv'
<1> USE DEF TypeInv, TypeOK, FamilyInv, Goto
<1>1. /\ Alive' = Alive /\ p \in Alive /\ UNCHANGED <<parent, pending, ended>>
      /\ pc'[Listener] = "free" <=> pc[Listener] = "free"
      /\ pc'[Listener] # "zombie"
  <2> USE DEF FirstProcess, Alive
  <2>1. CASE Accept(p) \/ ForkFails(p) \/ BecomeSession(p)
    BY <2>1, ListenerIsPid DEF Accept, ForkFails, BecomeSession, kernel
  <2>2. CASE SessionReturns(p) \/ Track(p) \/ Store(p) \/ Close(p)
    BY <2>2, ListenerIsPid DEF SessionReturns, Track, Store, Close, kernel
  <2> QED
    BY <2>1, <2>2
<1>2. FirstProcess'
  BY <1>1 DEF FirstProcess
<1>3. OneFamily'
  BY <1>1 DEF OneFamily
<1>4. DeadAreGone'
  <2>1. \A q \in Pids \ {p} : fds'[q] = fds[q]
    BY DEF Accept, ForkFails, BecomeSession, SessionReturns, Track, Store, Close, kernel
  <2> QED
    BY <1>1, <2>1 DEF DeadAreGone
<1>5. NotOwnChild'
  <2>1. CASE UNCHANGED <<childPID, childPIDs>>
    BY <2>1 DEF NotOwnChild
  <2>2. CASE ForkFails(p)
    BY <2>2, ListenerIsPid DEF ForkFails, NotOwnChild, Listener
  <2>3. CASE Store(p)
    BY <2>3 DEF Store, NotOwnChild
  <2> QED
    BY <2>1, <2>2, <2>3 DEF Accept, BecomeSession, SessionReturns, Track, Close, globals
<1> QED
  BY <1>2, <1>3, <1>4, <1>5

LEMMA ForkFamily ==
  ASSUME TypeInv, FamilyInv, NEW p \in Pids, Fork(p)
  PROVE  FamilyInv'
<1> USE DEF TypeInv, TypeOK, FamilyInv
<1>1. p = Listener /\ pc[p] = "fork" /\ ended' = ended /\ pending' = pending
  BY DEF Fork, AcceptInv, OnlyListenerAccepts
<1>2. PICK q \in Pids :
        /\ q # Listener /\ pc[q] = "free"
        /\ pc' = [pc EXCEPT ![p] = "track", ![q] = "child"]
        /\ childPID' = [childPID EXCEPT ![p] = q, ![q] = 0]
        /\ childPIDs' = [childPIDs EXCEPT ![q] = childPIDs[p]]
        /\ fds' = [fds EXCEPT ![q] = fds[p]]
        /\ parent' = [parent EXCEPT ![q] = p]
  BY DEF Fork, IsNextPid
<1>3. Alive' = Alive \cup {q} /\ q \notin Alive
  BY <1>1, <1>2 DEF Alive
<1>4. FirstProcess'
  BY <1>1, <1>2, ListenerIsPid DEF FirstProcess
<1>5. OneFamily'
  BY <1>1, <1>2, <1>3 DEF OneFamily
<1>6. DeadAreGone'
  BY <1>1, <1>2, <1>3 DEF DeadAreGone
<1>7. NotOwnChild'
  BY <1>1, <1>2, ListenerIsPid DEF NotOwnChild, Listener
<1> QED
  BY <1>4, <1>5, <1>6, <1>7

LEMMA DiesFamily ==
  ASSUME TypeInv, FamilyInv, NEW p \in Alive, NEW how \in {"handler", "error"}, Dies(p, how)
  PROVE  FamilyInv'
<1> USE DEF TypeInv, TypeOK, FamilyInv
<1>1. p \in Pids /\ Alive' = Alive \ {p}
  BY DEF Dies, Alive
<1>2. FirstProcess'
  <2>1. CASE p = Listener
    BY <2>1, <1>1, ListenerIsPid DEF Dies, FirstProcess, Alive, Listener
  <2>2. CASE p # Listener
    <3>1. parent[Listener] = 0 /\ p # 0
      BY <1>1 DEF FirstProcess, Pids
    <3> QED
      BY <2>2, <3>1, ListenerIsPid DEF Dies, FirstProcess, Children
  <2> QED
    BY <2>1, <2>2
<1>3. OneFamily'
  <2>1. \A q \in Pids : parent'[q] = IF parent[q] = p THEN 0 ELSE parent[q]
    BY DEF Dies
  <2>2. CASE p = Listener
    BY <1>1, <2>1, <2>2 DEF OneFamily, Dies
  <2>3. CASE p # Listener
    <3>1. p # 0
      BY <1>1 DEF Pids
    <3>2. \A q \in Pids : parent[q] # p /\ parent'[q] = parent[q]
      BY <2>1, <2>3, <3>1 DEF OneFamily
    <3>3. ended' = ended
      BY <2>3 DEF Dies
    <3> QED
      BY <1>1, <3>2, <3>3 DEF OneFamily, Alive
  <2> QED
    BY <2>2, <2>3
<1>4. DeadAreGone'
  BY <1>1 DEF Dies, DeadAreGone
<1>5. NotOwnChild'
  BY DEF Dies, globals, NotOwnChild
<1> QED
  BY <1>2, <1>3, <1>4, <1>5

LEMMA HandleFamily ==
  ASSUME TypeInv, FamilyInv, NEW p \in Pids,
         Enter(p) \/ KillNext(p) \/ WaitNext(p) \/ Signal(p)
  PROVE  FamilyInv'
<1> USE DEF TypeInv, TypeOK, FamilyInv
<1>1. UNCHANGED <<globals, fds, parent, conns, ended>>
  BY DEF Enter, KillNext, WaitNext, Signal, kernel
<1>2. p \in Alive
  BY DEF Enter, KillNext, WaitNext, Signal, Signalled, DeadAreGone, Alive
<1>3. /\ Alive' = Alive
      /\ pc'[Listener] # "zombie" /\ (pc'[Listener] = "free" <=> pc[Listener] = "free")
  <2> USE <1>2, ListenerIsPid DEF Goto, Alive, FirstProcess
  <2>1. CASE Enter(p) \/ KillNext(p) \/ Signal(p)
    BY <2>1 DEF Enter, KillNext, Signal
  <2>2. CASE WaitNext(p)
    <3>1. CASE pc' = [pc EXCEPT ![p] = "kill"]
      BY <3>1
    <3>2. ASSUME NEW q \in Awaited(p, childPIDs[p][at[p]]),
                 pc[q] = "zombie", pc' = [pc EXCEPT ![p] = "kill", ![q] = "free"]
          PROVE  /\ Alive' = Alive
                 /\ pc'[Listener] # "zombie" /\ (pc'[Listener] = "free" <=> pc[Listener] = "free")
      BY <3>2
    <3> QED
      BY <2>2, <3>1, <3>2 DEF WaitNext
  <2> QED
    BY <2>1, <2>2
<1>4. pending' \subseteq Alive
  BY DEF Enter, KillNext, WaitNext, Signal, kernel, Targets, Signalled, DeadAreGone
<1>5. FirstProcess'
  BY <1>1, <1>3 DEF FirstProcess
<1>6. OneFamily' /\ DeadAreGone' /\ NotOwnChild'
  BY <1>1, <1>3, <1>4 DEF globals, OneFamily, DeadAreGone, NotOwnChild
<1> QED
  BY <1>5, <1>6

LEMMA NextFamily ==
  ASSUME TypeInv, FamilyInv, [Next]_vars
  PROVE  FamilyInv'
<1>1. ASSUME NEW p \in Pids, Serve(p)
      PROVE  FamilyInv'
  <2>1. CASE AcceptFails(p)
    BY <2>1, DiesFamily DEF AcceptFails, Alive
  <2> QED
    BY <1>1, <2>1, LoopFamily, ForkFamily DEF Serve
<1>2. ASSUME NEW p \in Pids, Handle(p)
      PROVE  FamilyInv'
  <2>1. CASE HandlerExits(p)
    BY <2>1, DiesFamily DEF HandlerExits, Alive
  <2> QED
    BY <1>2, <2>1, HandleFamily DEF Handle
<1>3. CASE UNCHANGED <<pc, globals, kernel, ended>>
  BY <1>3 DEF globals, kernel, FamilyInv, FirstProcess, OneFamily, DeadAreGone, NotOwnChild, Alive
<1> QED
  BY <1>1, <1>2, <1>3, HandleFamily
     DEF Next, Connect, ClientSeesEnd, ClientStops, Over, vars

LEMMA InitFamily == Init => FamilyInv
BY ProcessesAssumption
   DEF Init, FamilyInv, FirstProcess, OneFamily, DeadAreGone, NotOwnChild, Alive, Pids, Listener

-----------------------------------------------------------------------------
(* The handler of the first process, with signals at any time.               *)

HandledInv ==
  InHandler(Listener) =>
    \A j \in 0..at[Listener] - 1 : childPIDs[Listener][j] \notin Alive

HandlerInv == TypeInv /\ FamilyInv /\ HandledInv /\ RecordedChildrenDie

\* What the first process keeps to itself: no other process touches its place,
\* its globals or its loop variable.
LEMMA OthersLeaveListener ==
  ASSUME TypeInv, FamilyInv, NEW p \in Pids \ {Listener}, Serve(p) \/ Handle(p) \/ Signal(p)
  PROVE  /\ pc'[Listener] = pc[Listener] /\ at'[Listener] = at[Listener]
         /\ childPIDs_i'[Listener] = childPIDs_i[Listener]
         /\ childPIDs'[Listener] = childPIDs[Listener]
         /\ childPID'[Listener] = childPID[Listener]
         /\ ended' = ended
<1> USE ListenerIsPid DEF TypeInv, TypeOK, Goto
<1>1. CASE Serve(p) /\ ~AcceptFails(p)
  <2>1. ~Fork(p)
    BY DEF Fork, AcceptInv, OnlyListenerAccepts
  <2> QED
    BY <1>1, <2>1 DEF Serve, Accept, ForkFails, BecomeSession, SessionReturns, Track, Store, Close, globals
<1>2. CASE AcceptFails(p) \/ HandlerExits(p)
  <2>1. Listener \notin Children(p)
    BY DEF Children, FamilyInv, FirstProcess, Pids
  <2> QED
    BY <1>2, <2>1 DEF AcceptFails, HandlerExits, Dies, globals
<1>3. CASE Enter(p) \/ KillNext(p) \/ Signal(p)
  BY <1>3 DEF Enter, KillNext, Signal, globals
<1>4. CASE WaitNext(p)
  <2>1. CASE pc' = [pc EXCEPT ![p] = "kill"]
    BY <1>4, <2>1 DEF WaitNext, Advance, globals
  <2>2. ASSUME NEW q \in Pids, pc[q] = "zombie",
               pc' = [pc EXCEPT ![p] = "kill", ![q] = "free"]
        PROVE  pc'[Listener] = pc[Listener]
    BY <2>2 DEF FamilyInv, FirstProcess
  <2>3. Awaited(p, childPIDs[p][at[p]]) \subseteq Pids
    BY DEF Awaited, Children
  <2> QED
    BY <1>4, <2>1, <2>2, <2>3 DEF WaitNext, Advance, globals
<1> QED
  BY <1>1, <1>2, <1>3, <1>4 DEF Handle

\* What is waited for is not there any more: a child that was stored is reaped,
\* and what is no child of the first process while it lives is not there.
LEMMA WaitedIsGone ==
  ASSUME TypeInv, FamilyInv, WaitNext(Listener)
  PROVE  childPIDs[Listener][at[Listener]] \notin Alive'
<1> DEFINE pid == childPIDs[Listener][at[Listener]]
<1>1. Alive' \subseteq Alive
  BY AliveShrinks, ListenerIsPid DEF Handle
<1>2. SUFFICES ASSUME pid \in Alive PROVE pid \notin Alive'
  BY <1>1
<1>3. /\ pc[Listener] = "wait" /\ at[Listener] \in Slots /\ pid \in Pids /\ pid # Listener
      /\ pc[pid] # "zombie" /\ pc[pid] # "free"
  BY <1>2, ListenerIsPid DEF WaitNext, TypeInv, TypeOK, Alive, FamilyInv, NotOwnChild
<1>4. parent[pid] = Listener /\ pid > 0
  BY <1>2, <1>3 DEF FamilyInv, FirstProcess, OneFamily, Pids
<1>5. Awaited(Listener, pid) = {pid}
  BY <1>3, <1>4 DEF Awaited, Children
<1> QED
  BY <1>3, <1>5 DEF WaitNext

LEMMA NextHandled ==
  ASSUME HandlerInv, [Next]_vars
  PROVE  (HandledInv /\ RecordedChildrenDie)'
<1> USE ListenerIsPid
<1>0. TypeInv /\ FamilyInv /\ TypeInv'
  BY NextTypes DEF HandlerInv
<1>1. ASSUME NEW p \in Pids \ {Listener}, Serve(p) \/ Handle(p) \/ Signal(p)
      PROVE  (HandledInv /\ RecordedChildrenDie)'
  <2>1. ~Fork(p)
    BY <1>0 DEF Fork, TypeInv, AcceptInv, OnlyListenerAccepts
  <2>2. Alive' \subseteq Alive
    BY <1>0, <1>1, <2>1, AliveShrinks
  <2> QED
    BY <1>0, <1>1, <2>2, OthersLeaveListener DEF HandlerInv, HandledInv, RecordedChildrenDie, InHandler
<1>2. CASE Serve(Listener)
  <2>1. pc[Listener] \notin {"kill", "wait", "free"}
    BY <1>2 DEF Serve, Accept, AcceptFails, Fork, ForkFails, BecomeSession, SessionReturns, Track, Store, Close
  <2>2. ended' # "handler" /\ ~InHandler(Listener)'
    <3>1. ended = "no" /\ pc \in [Pids -> Locations]
      BY <1>0, <2>1 DEF FamilyInv, FirstProcess, TypeInv, TypeOK, Locations
    <3>2. CASE AcceptFails(Listener)
      BY <3>1, <3>2 DEF AcceptFails, Dies, InHandler
    <3>3. CASE Fork(Listener)
      BY <3>1, <3>3 DEF Fork, InHandler, IsNextPid
    <3> QED
      BY <1>2, <3>1, <3>2, <3>3
         DEF Serve, Accept, ForkFails, BecomeSession, SessionReturns, Track, Store, Close, InHandler, Goto
  <2> QED
    BY <2>2 DEF HandledInv, RecordedChildrenDie
<1>3. CASE Handle(Listener) \/ Signal(Listener)
  <2>1. Alive' \subseteq Alive /\ UNCHANGED globals
    BY <1>0, <1>3, AliveShrinks DEF Handle, Enter, KillNext, WaitNext, HandlerExits, Dies, Signal
  <2>2. ended = "no"
    BY <1>0, <1>3 DEF Handle, Enter, KillNext, WaitNext, HandlerExits, Signal, Signalled, Alive,
                      FamilyInv, FirstProcess, DeadAreGone
  <2>3. CASE HandlerExits(Listener)
    <3>1. /\ at[Listener] \in Int /\ childPIDs_i[Listener] \in Int
          /\ ~(at[Listener] < childPIDs_i[Listener]) /\ pc[Listener] = "kill"
      BY <1>0, <2>3, AcceptedCount DEF HandlerExits, MoreToKill, TypeInv, TypeOK, Slots
    <3>2. \A j \in 0..childPIDs_i[Listener] - 1 : childPIDs[Listener][j] \notin Alive
      BY <3>1 DEF HandlerInv, HandledInv, InHandler
    <3>3. ~InHandler(Listener)'
      BY <1>0, <2>3 DEF HandlerExits, Dies, InHandler
    <3> QED
      BY <2>1, <3>2, <3>3 DEF HandledInv, RecordedChildrenDie, globals
  <2>4. CASE ~HandlerExits(Listener)
    <3>1. RecordedChildrenDie'
      BY <1>3, <2>2, <2>4 DEF Handle, Enter, KillNext, WaitNext, Signal, RecordedChildrenDie
    <3>2. CASE Enter(Listener)
      BY <1>0, <3>1, <3>2 DEF Enter, HandledInv, TypeInv, TypeOK
    <3>3. CASE KillNext(Listener) \/ Signal(Listener)
      <4>1. at' = at /\ (InHandler(Listener)' => InHandler(Listener))
        BY <3>3 DEF KillNext, Signal, InHandler
      <4> QED
        BY <2>1, <3>1, <4>1 DEF HandlerInv, HandledInv, globals
    <3>4. CASE WaitNext(Listener)
      <4>1. /\ InHandler(Listener) /\ at[Listener] \in Int
            /\ at'[Listener] = at[Listener] + 1
        BY <1>0, <3>4, AcceptedCount DEF WaitNext, Advance, InHandler, TypeInv, TypeOK, Slots
      <4>2. \A j \in 0..at'[Listener] - 1 : j \in 0..at[Listener] - 1 \/ j = at[Listener]
        BY <4>1
      <4>3. childPIDs[Listener][at[Listener]] \notin Alive'
        BY <1>0, <3>4, WaitedIsGone
      <4> QED
        BY <2>1, <3>1, <4>1, <4>2, <4>3 DEF HandlerInv, HandledInv, globals
    <3> QED
      BY <1>3, <2>4, <3>1, <3>2, <3>3, <3>4 DEF Handle
  <2> QED
    BY <2>3, <2>4
<1>4. CASE UNCHANGED <<pc, globals, at, ended>>
  BY <1>4 DEF globals, HandlerInv, HandledInv, RecordedChildrenDie, InHandler, Alive
<1> QED
  BY <1>1, <1>2, <1>3, <1>4 DEF Next, Connect, ClientSeesEnd, ClientStops, Over, vars

\* Whenever SIGTERM comes, and whatever else is signalled, forked or reaped
\* meanwhile: when sigtermHandler of the first process has run to its exit
\* (gen.c:143-160), no child that was stored in childPIDs is left.
THEOREM StoredChildrenDie == Spec => []RecordedChildrenDie
<1>1. Init => HandlerInv
  BY InitTypes, InitFamily, ListenerIsPid
     DEF HandlerInv, Init, HandledInv, InHandler, RecordedChildrenDie
<1>2. HandlerInv /\ [Next]_vars => HandlerInv'
  BY NextTypes, NextFamily, NextHandled DEF HandlerInv
<1>3. HandlerInv => RecordedChildrenDie
  BY DEF HandlerInv
<1> QED
  BY <1>1, <1>2, <1>3, PTL DEF Spec

-----------------------------------------------------------------------------
(* A server that is stopped while its clients stream.                        *)

\* The children of the first process that sigtermHandler will find: those in
\* childPIDs, and the one that was just forked.
StoredTo ==
  IF pc[Listener] = "store" THEN childPIDs_i[Listener] - 1 ELSE childPIDs_i[Listener]
Stored == {childPIDs[Listener][j] : j \in 0..StoredTo - 1}
Recorded ==
  Stored \cup {q \in {childPID[Listener]} : pc[Listener] \in {"track", "store"}}

\* The signal comes from outside and to the first process, in its accept().
OneSignal ==
  ~InHandler(Listener) /\ ended = "no" =>
    pending \subseteq {Listener} /\ \A p \in Pids : ~InHandler(p)
AtAccept ==
  Listener \in pending => pc[Listener] = "accept" /\ \A c \in Conns : conns[c] # "queued"

AllRecorded == ended # "error" => Alive \ {Listener} \subseteq Recorded

QuietInv == OneSignal /\ AtAccept /\ AllRecorded

LEMMA StoredToType ==
  ASSUME TypeInv
  PROVE  /\ StoredTo \in Slots /\ StoredTo \in Int /\ childPIDs_i[Listener] \in Int
         /\ \A j \in 0..StoredTo - 1 : j \in Slots
<1>1. childPIDs_i[Listener] \in Slots /\ Cardinality(Conns) \in Nat
  BY ListenerIsPid, AcceptedCount DEF TypeInv, TypeOK
<1>2. pc[Listener] = "store" => childPIDs_i[Listener] > 0
  BY ListenerIsPid DEF TypeInv, ChildSlotInv
<1> QED
  BY <1>1, <1>2 DEF StoredTo, Slots

\* A step of another process.
LEMMA OthersQuiet ==
  ASSUME QuietStop, HandlerInv, QuietInv,
         NEW p \in Pids \ {Listener}, Serve(p) \/ Handle(p) \/ Signal(p)
  PROVE  QuietInv'
<1> USE ListenerIsPid
<1>0. TypeInv /\ FamilyInv
  BY DEF HandlerInv
<1>1. ~Fork(p) /\ ~Signal(p)
  BY <1>0 DEF Fork, Signal, TypeInv, AcceptInv, OnlyListenerAccepts
<1>2. /\ pc'[Listener] = pc[Listener] /\ ended' = ended
      /\ childPIDs_i'[Listener] = childPIDs_i[Listener]
      /\ childPIDs'[Listener] = childPIDs[Listener]
      /\ childPID'[Listener] = childPID[Listener]
  BY <1>0, OthersLeaveListener
<1>3. Alive' \subseteq Alive /\ \A q \in Pids \ {p} : pc'[q] \in {pc[q], "free"}
  BY <1>0, <1>1, AliveShrinks
<1>4. AllRecorded'
  BY <1>2, <1>3 DEF QuietInv, AllRecorded, Recorded, Stored, StoredTo
<1>5. OneSignal'
  <2> SUFFICES ASSUME ~InHandler(Listener), ended = "no"
               PROVE  pending' \subseteq {Listener} /\ \A q \in Pids : ~InHandler(q)'
    BY <1>2 DEF OneSignal, InHandler
  <2>1. pending \subseteq {Listener} /\ \A q \in Pids : ~InHandler(q)
    BY DEF QuietInv, OneSignal
  <2>2. ~Handle(p) /\ Serve(p)
    BY <1>1, <2>1 DEF Handle, Enter, KillNext, WaitNext, HandlerExits, InHandler
  <2>3. pending' \subseteq pending /\ pc'[p] \notin {"kill", "wait"}
    BY <1>0, <2>2 DEF Serve, Accept, AcceptFails, Fork, ForkFails, BecomeSession, SessionReturns, Track,
                      Store, Close, Dies, kernel, Goto, TypeInv, TypeOK
  <2> QED
    BY <1>3, <2>1, <2>3 DEF InHandler
<1>6. AtAccept'
  <2>1. Listener \in pending' => Listener \in pending
    <3>1. CASE KillNext(p)
      <4>1. InHandler(Listener) \/ ended # "no"
        BY <3>1 DEF QuietInv, OneSignal, KillNext, InHandler
      <4>2. Listener \notin Signalled
        BY <1>0, <4>1 DEF Signalled, Alive, FamilyInv, FirstProcess, InHandler
      <4> QED
        BY <3>1, <4>2 DEF KillNext, Targets
    <3>2. CASE ~KillNext(p)
      BY <1>1, <3>2 DEF Serve, Accept, AcceptFails, Fork, ForkFails, BecomeSession, SessionReturns, Track,
                        Store, Close, Dies, kernel, Handle, Enter, WaitNext, HandlerExits
    <3> QED
      BY <3>1, <3>2
  <2>2. \A c \in Conns : conns'[c] = "queued" => conns[c] = "queued"
    BY <1>0, <1>1 DEF Serve, Accept, AcceptFails, Fork, ForkFails, BecomeSession, SessionReturns, Track, Store,
                      Close, Dies, kernel, Handle, Enter, KillNext, WaitNext, HandlerExits, TypeInv, TypeOK
  <2> QED
    BY <1>2, <2>1, <2>2 DEF QuietInv, AtAccept
<1> QED
  BY <1>4, <1>5, <1>6 DEF QuietInv

\* A step of the first process around its loop.
LEMMA ServeQuiet ==
  ASSUME QuietStop, HandlerInv, QuietInv, Serve(Listener)
  PROVE  QuietInv'
<1> USE ListenerIsPid
<1>0. /\ TypeInv /\ FamilyInv /\ ended = "no" /\ ~InHandler(Listener)
      /\ pc \in [Pids -> Locations]
  <2>1. pc[Listener] \notin {"free", "kill", "wait"}
    BY DEF Serve, Accept, AcceptFails, Fork, ForkFails, BecomeSession, SessionReturns, Track, Store, Close
  <2> QED
    BY <2>1 DEF HandlerInv, FamilyInv, FirstProcess, InHandler, TypeInv, TypeOK, Locations
<1>1. pending \subseteq {Listener} /\ \A q \in Pids : ~InHandler(q)
  BY <1>0 DEF QuietInv, OneSignal
<1>2. CASE AcceptFails(Listener)
  <2>1. ended' = "error" /\ Listener \notin pending'
    BY <1>2 DEF AcceptFails, Dies
  <2> QED
    BY <2>1 DEF QuietInv, OneSignal, AtAccept, AllRecorded
<1>3. CASE Fork(Listener)
  <2>1. PICK q \in Pids :
          /\ q # Listener /\ pc[q] = "free"
          /\ pc' = [pc EXCEPT ![Listener] = "track", ![q] = "child"]
          /\ childPID' = [childPID EXCEPT ![Listener] = q, ![q] = 0]
          /\ childPIDs_i' = [childPIDs_i EXCEPT ![q] = childPIDs_i[Listener]]
          /\ childPIDs' = [childPIDs EXCEPT ![q] = childPIDs[Listener]]
    BY <1>3 DEF Fork, IsNextPid
  <2>2. pc[Listener] = "fork" /\ UNCHANGED <<pending, conns, ended>>
    BY <1>3 DEF Fork
  <2>3. AllRecorded'
    <3>1. Alive' = Alive \cup {q}
      BY <1>0, <2>1, <2>2 DEF Alive
    <3>2. Recorded = Stored /\ Recorded' = Stored \cup {q}
      BY <1>0, <2>1, <2>2 DEF Recorded, Stored, StoredTo, TypeInv, TypeOK
    <3> QED
      BY <2>2, <3>1, <3>2 DEF QuietInv, AllRecorded
  <2>4. OneSignal' /\ AtAccept'
    BY <1>0, <1>1, <2>1, <2>2 DEF OneSignal, AtAccept, QuietInv, InHandler
  <2> QED
    BY <2>3, <2>4 DEF QuietInv
<1>4. CASE /\ ~AcceptFails(Listener) /\ ~Fork(Listener)
  <2>1. /\ Alive' = Alive /\ UNCHANGED <<pending, ended>>
        /\ \A q \in Pids \ {Listener} : pc'[q] = pc[q]
        /\ pc'[Listener] \notin {"kill", "wait"}
    BY <1>0, <1>4 DEF Serve, Accept, ForkFails, BecomeSession, SessionReturns, Track, Store, Close,
                      Alive, Goto, kernel
  <2>2. OneSignal'
    BY <1>1, <2>1 DEF OneSignal, InHandler
  <2>3. AtAccept'
    <3>1. CASE Listener \notin pending
      BY <2>1, <3>1 DEF AtAccept
    <3>2. CASE Listener \in pending
      BY <1>4, <3>2 DEF QuietInv, AtAccept, Serve, Accept, ForkFails, BecomeSession, SessionReturns,
                        Track, Store, Close
    <3> QED
      BY <3>1, <3>2
  <2>4. Recorded \subseteq Recorded'
    <3> USE <1>0, StoredToType DEF TypeInv, TypeOK
    <3>1. CASE Track(Listener)
      <4>1. StoredTo' = StoredTo /\ childPID' = childPID /\ childPIDs' = childPIDs
        BY <3>1 DEF Track, StoredTo, Goto
      <4> QED
        BY <3>1, <4>1 DEF Track, Goto, Recorded, Stored
    <3>2. CASE Store(Listener)
      <4>1. /\ StoredTo = childPIDs_i[Listener] - 1 /\ StoredTo' = childPIDs_i[Listener]
            /\ childPIDs' = [childPIDs EXCEPT ![Listener][childPIDs_i[Listener] - 1] = childPID[Listener]]
        BY <3>2 DEF Store, StoredTo, Goto
      <4>2. \A j \in 0..StoredTo - 1 : childPIDs'[Listener][j] = childPIDs[Listener][j]
        BY <4>1
      <4>3. childPIDs'[Listener][StoredTo] = childPID[Listener]
        BY <4>1
      <4>4. \A j \in 0..StoredTo - 1 : j \in 0..StoredTo' - 1
        BY <4>1
      <4>5. StoredTo \in 0..StoredTo' - 1
        BY <4>1 DEF Slots
      <4>6. Stored \subseteq Stored' /\ childPID[Listener] \in Stored'
        <5> HIDE DEF TypeInv, TypeOK
        <5>1. Stored' = {childPIDs'[Listener][j] : j \in 0..StoredTo' - 1}
          BY DEF Stored
        <5> QED
          BY <4>2, <4>3, <4>4, <4>5, <5>1 DEF Stored
      <4> QED
        BY <4>6 DEF Recorded
    <3>3. CASE Accept(Listener) \/ ForkFails(Listener) \/ BecomeSession(Listener)
                 \/ SessionReturns(Listener) \/ Close(Listener)
      <4>1. pc[Listener] \in {"accept", "fork", "close"}
        BY <3>3 DEF ChildSlotInv, Accept, ForkFails, BecomeSession, SessionReturns, Close
      <4>2. /\ pc'[Listener] # "store" /\ childPIDs' = childPIDs /\ childPIDs_i' = childPIDs_i
        BY <3>3, <4>1 DEF Accept, ForkFails, BecomeSession, SessionReturns, Close, Goto, globals
      <4> QED
        BY <4>1, <4>2 DEF Recorded, Stored, StoredTo
    <3> QED
      BY <1>4, <3>1, <3>2, <3>3 DEF Serve
  <2> QED
    BY <2>1, <2>2, <2>3, <2>4 DEF QuietInv, AllRecorded
<1> QED
  BY <1>2, <1>3, <1>4

\* A step of the first process towards its end.
LEMMA HandleQuiet ==
  ASSUME QuietStop, HandlerInv, QuietInv, Handle(Listener) \/ Signal(Listener)
  PROVE  QuietInv'
<1> USE ListenerIsPid
<1>0. /\ TypeInv /\ FamilyInv /\ Alive' \subseteq Alive /\ UNCHANGED <<globals, conns>>
  BY AliveShrinks DEF HandlerInv, Handle, Enter, KillNext, WaitNext, HandlerExits, Dies, Signal
<1>1. pc \in [Pids -> Locations]
  BY <1>0 DEF TypeInv, TypeOK, Locations
<1>2. CASE Signal(Listener)
  BY <1>0, <1>2 DEF Signal, Quiet, QuietInv, OneSignal, AtAccept, AllRecorded, Recorded, Stored,
                    StoredTo, InHandler, globals
<1>3. CASE Handle(Listener) /\ ~HandlerExits(Listener)
  <2>1. pc[Listener] \in {"accept", "kill", "wait"} /\ pc'[Listener] \in {"kill", "wait"}
    <3>1. CASE Enter(Listener)
      BY <1>1, <3>1 DEF Enter, QuietInv, AtAccept, Goto
    <3>2. CASE KillNext(Listener)
      BY <1>1, <3>2 DEF KillNext, Goto
    <3>3. CASE WaitNext(Listener)
      <4>1. Awaited(Listener, childPIDs[Listener][at[Listener]]) \subseteq Pids \ {Listener}
        BY <1>0 DEF Awaited, Children, FamilyInv, FirstProcess, Listener
      <4> QED
        BY <1>1, <3>3, <4>1 DEF WaitNext, Goto
    <3> QED
      BY <1>3, <3>1, <3>2, <3>3 DEF Handle
  <2>2. Listener \notin pending' /\ ended' = ended
    <3>1. CASE Enter(Listener)
      BY <3>1 DEF Enter
    <3>2. CASE KillNext(Listener)
      BY <3>2 DEF KillNext, Targets, Signalled, InHandler, QuietInv, AtAccept
    <3>3. CASE WaitNext(Listener)
      BY <3>3 DEF WaitNext, QuietInv, AtAccept, kernel
    <3> QED
      BY <1>3, <3>1, <3>2, <3>3 DEF Handle
  <2>3. Recorded' = Recorded
    BY <1>0, <2>1 DEF Recorded, Stored, StoredTo, globals
  <2> QED
    BY <1>0, <2>1, <2>2, <2>3 DEF QuietInv, OneSignal, AtAccept, AllRecorded, InHandler
<1>4. CASE HandlerExits(Listener)
  <2>1. /\ pc[Listener] = "kill" /\ pc'[Listener] = "free"
        /\ Listener \notin pending' /\ ended' = "handler"
    BY <1>0, <1>4 DEF HandlerExits, Dies, FamilyInv, FirstProcess
  <2>2. ended = "no"
    BY <1>0, <2>1 DEF FamilyInv, FirstProcess
  <2>3. Recorded' = Recorded
    BY <1>0, <2>1 DEF Recorded, Stored, StoredTo, globals
  <2> QED
    BY <1>0, <2>1, <2>2, <2>3 DEF QuietInv, OneSignal, AtAccept, AllRecorded
<1> QED
  BY <1>2, <1>3, <1>4

LEMMA NextQuiet ==
  ASSUME QuietStop, HandlerInv, QuietInv, [Next]_vars
  PROVE  QuietInv'
<1>1. ASSUME NEW p \in Pids, Serve(p) \/ Handle(p) \/ Signal(p)
      PROVE  QuietInv'
  BY <1>1, OthersQuiet, ServeQuiet, HandleQuiet
<1>2. ASSUME NEW c \in Conns, Connect(c) \/ ClientSeesEnd(c) \/ ClientStops(c)
      PROVE  QuietInv'
  <2>1. UNCHANGED <<pc, globals, pending, ended>>
    BY <1>2 DEF Connect, ClientSeesEnd, ClientStops, kernel
  <2>2. Listener \in pending => \A d \in Conns : conns'[d] # "queued"
    <3>1. conns \in [Conns -> {"new", "queued", "open", "gone"}]
      BY DEF HandlerInv, TypeInv, TypeOK
    <3>2. CASE Connect(c)
      BY <3>2 DEF Connect
    <3>3. CASE ClientSeesEnd(c) \/ ClientStops(c)
      BY <3>1, <3>3 DEF ClientSeesEnd, ClientStops, QuietInv, AtAccept
    <3> QED
      BY <1>2, <3>2, <3>3
  <2> QED
    BY <2>1, <2>2 DEF globals, QuietInv, OneSignal, AtAccept, AllRecorded, Recorded, Stored, StoredTo,
                      InHandler, Alive
<1>3. CASE UNCHANGED vars
  BY <1>3 DEF vars, globals, kernel, QuietInv, OneSignal, AtAccept, AllRecorded, Recorded, Stored,
              StoredTo, InHandler, Alive
<1> QED
  BY <1>1, <1>2, <1>3 DEF Next, Over

LEMMA InitQuiet == Init => HandlerInv /\ QuietInv
BY InitTypes, InitFamily, ListenerIsPid
   DEF Init, HandlerInv, HandledInv, InHandler, RecordedChildrenDie,
       QuietInv, OneSignal, AtAccept, AllRecorded, Alive

\* When the handler of the first process has ended, every process is gone.
LEMMA QuietFreesPort ==
  ASSUME HandlerInv, QuietInv
  PROVE  PortIsFree
<1> SUFFICES ASSUME ended = "handler" PROVE ~Held("listen")
  BY DEF PortIsFree
<1>1. pc[Listener] = "free"
  BY DEF HandlerInv, FamilyInv, FirstProcess
<1>2. Alive \ {Listener} \subseteq Stored /\ StoredTo = childPIDs_i[Listener]
  BY <1>1 DEF QuietInv, AllRecorded, Recorded, StoredTo
<1>3. Stored \cap Alive = {}
  BY <1>2 DEF Stored, HandlerInv, RecordedChildrenDie
<1>4. Alive = {}
  BY <1>1, <1>2, <1>3 DEF Alive
<1> QED
  BY <1>4 DEF Held, HandlerInv, FamilyInv, DeadAreGone

\* A server that is stopped while its clients stream leaves no process behind
\* that holds its port, when its handler has ended (gen.c:143-160): whoever was
\* forked since the start (gen.c:98-121) was stored in childPIDs by then, so
\* the server of the next run can bind.  fork() may have failed meanwhile.
THEOREM StoppedServerFreesPort ==
  ASSUME QuietStop
  PROVE  Spec => []PortIsFree
<1>1. HandlerInv /\ QuietInv /\ [Next]_vars => (HandlerInv /\ QuietInv)'
  BY NextTypes, NextFamily, NextHandled, NextQuiet DEF HandlerInv
<1>2. HandlerInv /\ QuietInv => PortIsFree
  BY QuietFreesPort
<1> QED
  BY InitQuiet, <1>1, <1>2, PTL DEF Spec

-----------------------------------------------------------------------------
(* Whom the handler signals.                                                 *)

\* The entries the handler has not passed are children of the first process,
\* each another one: none is reaped before the loop is there.
ToDo == {j \in 0..StoredTo - 1 : InHandler(Listener) => at[Listener] <= j}
ToDoAreChildren == \A j \in ToDo : childPIDs[Listener][j] \in Children(Listener)
ToDoDiffer ==
  \A i, j \in ToDo : childPIDs[Listener][i] = childPIDs[Listener][j] => i = j
ForkedIsChild ==
  pc[Listener] \in {"track", "store"} => childPID[Listener] \in Children(Listener) \ Stored

ChildrenInv == ended = "no" => ToDoAreChildren /\ ToDoDiffer /\ ForkedIsChild

\* A step of another process reaps no child of the first one.
LEMMA OthersKeepChildren ==
  ASSUME TypeInv, FamilyInv, ended = "no",
         NEW p \in Pids \ {Listener}, Serve(p) \/ Handle(p) \/ Signal(p)
  PROVE  Children(Listener)' = Children(Listener)
<1> USE ListenerIsPid DEF TypeInv, TypeOK
<1>0. p # 0 /\ Children(p) = {}
  BY DEF FamilyInv, OneFamily, Children, Pids
<1>1. ~Fork(p)
  BY DEF Fork, AcceptInv, OnlyListenerAccepts
<1>2. CASE AcceptFails(p) \/ HandlerExits(p)
  <2>1. p \in Alive /\ parent[p] = Listener /\ Listener # 0
    BY <1>2 DEF AcceptFails, HandlerExits, Alive, FamilyInv, OneFamily, Listener
  <2>2. PICK how : Dies(p, how)
    BY <1>2 DEF AcceptFails, HandlerExits
  <2>3. parent' = parent
    BY <1>0, <2>2 DEF Dies, FamilyInv, OneFamily
  <2>4. \A q \in Pids : pc'[q] = "free" <=> pc[q] = "free"
    BY <1>0, <2>1, <2>2 DEF Dies, Alive
  <2> QED
    BY <2>3, <2>4 DEF Children
<1>3. CASE Accept(p) \/ ForkFails(p) \/ BecomeSession(p) \/ SessionReturns(p)
             \/ Track(p) \/ Store(p) \/ Close(p)
  BY <1>3 DEF Accept, ForkFails, BecomeSession, SessionReturns, Track, Store, Close, Goto, kernel, Children
<1>4. CASE Enter(p) \/ KillNext(p) \/ Signal(p)
  <2>1. p \in Alive /\ parent' = parent
    BY <1>4 DEF Enter, KillNext, Signal, Signalled, FamilyInv, DeadAreGone, Alive
  <2> QED
    BY <1>4, <2>1 DEF Enter, KillNext, Signal, Goto, Children, Alive
<1>5. CASE WaitNext(p)
  <2>1. Awaited(p, childPIDs[p][at[p]]) = {}
    BY <1>0 DEF Awaited
  <2> QED
    BY <1>5, <2>1 DEF WaitNext, Goto, kernel, Children
<1> QED
  BY <1>1, <1>2, <1>3, <1>4, <1>5 DEF Serve, Handle

\* A step of the first process around its loop.
LEMMA ServeChildren ==
  ASSUME ~ForkMayFail, HandlerInv, ChildrenInv, Serve(Listener), ended' = "no"
  PROVE  ChildrenInv'
<1> USE ListenerIsPid
<1>0. /\ TypeInv /\ FamilyInv /\ ended = "no" /\ ~InHandler(Listener)
      /\ pc \in [Pids -> Locations]
  <2>1. pc[Listener] \notin {"free", "kill", "wait"}
    BY DEF Serve, Accept, AcceptFails, Fork, ForkFails, BecomeSession, SessionReturns, Track, Store, Close
  <2> QED
    BY <2>1 DEF HandlerInv, FamilyInv, FirstProcess, InHandler, TypeInv, TypeOK, Locations
<1>1. /\ ToDo = 0..StoredTo - 1 /\ ToDoAreChildren /\ ToDoDiffer /\ ForkedIsChild
      /\ Stored = {childPIDs[Listener][j] : j \in ToDo}
  BY <1>0 DEF ChildrenInv, ToDo, Stored
<1>2. ~AcceptFails(Listener) /\ ~ForkFails(Listener)
  BY DEF AcceptFails, Dies, ForkFails
<1>3. CASE Fork(Listener)
  <2>1. PICK q \in Pids :
          /\ q # Listener /\ pc[q] = "free"
          /\ pc' = [pc EXCEPT ![Listener] = "track", ![q] = "child"]
          /\ childPID' = [childPID EXCEPT ![Listener] = q, ![q] = 0]
          /\ childPIDs_i' = [childPIDs_i EXCEPT ![q] = childPIDs_i[Listener]]
          /\ childPIDs' = [childPIDs EXCEPT ![q] = childPIDs[Listener]]
          /\ parent' = [parent EXCEPT ![q] = Listener]
    BY <1>3 DEF Fork, IsNextPid
  <2>2. pc[Listener] = "fork"
    BY <1>3 DEF Fork
  <2>3. Children(Listener)' = Children(Listener) \cup {q} /\ q \notin Children(Listener)
    BY <1>0, <2>1, <2>2 DEF Children, TypeInv, TypeOK, FamilyInv, FirstProcess
  <2>4. /\ pc'[Listener] = "track" /\ childPIDs'[Listener] = childPIDs[Listener]
        /\ childPIDs_i'[Listener] = childPIDs_i[Listener] /\ childPID'[Listener] = q
    BY <1>0, <2>1 DEF TypeInv, TypeOK
  <2>5. StoredTo' = StoredTo /\ ToDo' = ToDo /\ Stored' = Stored
    BY <1>1, <2>2, <2>4 DEF StoredTo, ToDo, Stored, InHandler
  <2> QED
    BY <1>1, <2>3, <2>4, <2>5 DEF ChildrenInv, ToDoAreChildren, ToDoDiffer, ForkedIsChild
<1>4. CASE ~Fork(Listener)
  <2>1. Children(Listener)' = Children(Listener)
    BY <1>0, <1>2, <1>4 DEF Serve, Accept, BecomeSession, SessionReturns, Track, Store, Close, Goto,
                            kernel, Children, TypeInv, TypeOK
  <2>2. CASE Store(Listener)
    <3>1. /\ StoredTo = childPIDs_i[Listener] - 1 /\ StoredTo' = childPIDs_i[Listener]
          /\ childPIDs' = [childPIDs EXCEPT ![Listener][childPIDs_i[Listener] - 1] = childPID[Listener]]
          /\ pc[Listener] = "store" /\ pc'[Listener] = "close"
      BY <1>0, <2>2 DEF Store, StoredTo, Goto, TypeInv, TypeOK
    <3>2. StoredTo \in Int /\ StoredTo \in Slots /\ StoredTo' = StoredTo + 1 /\ StoredTo >= 0
      BY <1>0, <3>1, StoredToType DEF Slots
    <3>3. ToDo' = ToDo \cup {StoredTo} /\ StoredTo \notin ToDo
      BY <1>1, <3>1, <3>2 DEF ToDo, InHandler
    <3>4. childPIDs'[Listener][StoredTo] = childPID[Listener]
      BY <1>0, <3>1, <3>2 DEF TypeInv, TypeOK
    <3>5. \A j \in ToDo : childPIDs'[Listener][j] = childPIDs[Listener][j]
      BY <1>0, <1>1, <3>1, <3>2, StoredToType DEF TypeInv, TypeOK
    <3>6. childPID[Listener] \in Children(Listener) \ Stored
      BY <1>1, <3>1 DEF ForkedIsChild
    <3>7. ToDoAreChildren'
      BY <1>1, <2>1, <3>3, <3>4, <3>5, <3>6 DEF ToDoAreChildren
    <3>8. ToDoDiffer'
      BY <1>1, <3>3, <3>4, <3>5, <3>6 DEF ToDoDiffer
    <3> QED
      BY <3>1, <3>7, <3>8 DEF ChildrenInv, ForkedIsChild
  <2>3. CASE ~Store(Listener)
    <3>1. /\ UNCHANGED <<childPIDs, childPID>> /\ StoredTo' = StoredTo
          /\ pc'[Listener] \notin {"kill", "wait"}
          /\ pc'[Listener] \in {"track", "store"} => pc[Listener] \in {"track", "store"}
      <4>1. CASE Track(Listener)
        <5>1. pc[Listener] = "track" /\ pc'[Listener] = "store"
          BY <1>0, <4>1 DEF Track, Goto
        <5>2. /\ childPIDs_i'[Listener] = childPIDs_i[Listener] + 1
              /\ UNCHANGED <<childPIDs, childPID>>
          BY <1>0, <4>1 DEF Track, TypeInv, TypeOK
        <5>3. StoredTo' = StoredTo
          BY <1>0, <5>1, <5>2, StoredToType DEF StoredTo
        <5> QED
          BY <5>1, <5>2, <5>3
      <4>2. CASE Accept(Listener) \/ BecomeSession(Listener) \/ SessionReturns(Listener) \/ Close(Listener)
        <5>1. pc[Listener] \in {"accept", "close"}
          BY <1>0, <4>2 DEF TypeInv, ChildSlotInv, Accept, BecomeSession, SessionReturns, Close
        <5> QED
          BY <1>0, <4>2, <5>1 DEF Accept, BecomeSession, SessionReturns, Close, Goto, globals, StoredTo
      <4> QED
        BY <1>2, <1>4, <2>3, <4>1, <4>2 DEF Serve
    <3>2. ToDo' = ToDo /\ Stored' = Stored
      BY <1>1, <3>1 DEF ToDo, Stored, InHandler
    <3> QED
      BY <1>1, <2>1, <3>1, <3>2 DEF ChildrenInv, ToDoAreChildren, ToDoDiffer, ForkedIsChild
  <2> QED
    BY <2>2, <2>3
<1> QED
  BY <1>3, <1>4

\* A step of the first process towards its end.
LEMMA HandleChildren ==
  ASSUME QuietStop, HandlerInv, QuietInv, ChildrenInv,
         Handle(Listener) \/ Signal(Listener), ended' = "no"
  PROVE  ChildrenInv'
<1> USE ListenerIsPid
<1>0. /\ TypeInv /\ FamilyInv /\ pc \in [Pids -> Locations] /\ UNCHANGED globals
      /\ ~HandlerExits(Listener)
  BY DEF HandlerInv, TypeInv, TypeOK, Locations, Handle, Enter, KillNext, WaitNext, HandlerExits,
         Dies, Signal
<1>1. ended = "no" /\ parent' = parent
  BY <1>0 DEF Handle, Enter, KillNext, WaitNext, Signal, kernel
<1>2. ToDoAreChildren /\ ToDoDiffer /\ ForkedIsChild
  BY <1>1 DEF ChildrenInv
<1>3. CASE Signal(Listener)
  <2>1. UNCHANGED <<pc, at>>
    BY <1>3 DEF Signal
  <2> QED
    BY <1>0, <1>1, <1>2, <2>1 DEF globals, ChildrenInv, ToDoAreChildren, ToDoDiffer, ForkedIsChild,
         ToDo, Stored, StoredTo, Children, InHandler
<1>4. CASE Enter(Listener)
  <2>1. pc[Listener] = "accept" /\ pc' = [pc EXCEPT ![Listener] = "kill"]
    BY <1>4 DEF Enter, QuietInv, AtAccept, Goto
  <2>2. StoredTo' = StoredTo /\ ToDo' \subseteq ToDo /\ Children(Listener)' = Children(Listener)
    BY <1>0, <1>1, <2>1 DEF StoredTo, ToDo, InHandler, Children, globals
  <2>3. pc'[Listener] = "kill"
    BY <1>0, <2>1
  <2> QED
    BY <1>0, <1>2, <2>2, <2>3 DEF globals, ChildrenInv, ToDoAreChildren, ToDoDiffer, ForkedIsChild
<1>5. CASE KillNext(Listener)
  <2>1. pc[Listener] = "kill" /\ pc' = [pc EXCEPT ![Listener] = "wait"] /\ at' = at
    BY <1>5 DEF KillNext, Goto
  <2>2. StoredTo' = StoredTo /\ ToDo' = ToDo /\ Children(Listener)' = Children(Listener)
    BY <1>0, <1>1, <2>1 DEF StoredTo, ToDo, InHandler, Children, globals
  <2>3. pc'[Listener] = "wait"
    BY <1>0, <2>1
  <2> QED
    BY <1>0, <1>2, <2>2, <2>3 DEF globals, ChildrenInv, ToDoAreChildren, ToDoDiffer, ForkedIsChild
<1>6. CASE WaitNext(Listener)
  <2> DEFINE pid == childPIDs[Listener][at[Listener]]
  <2>1. pc[Listener] = "wait" /\ InHandler(Listener) /\ at'[Listener] = at[Listener] + 1
    BY <1>0, <1>6 DEF WaitNext, Advance, InHandler, TypeInv, TypeOK
  <2>2. at[Listener] \in Nat /\ at[Listener] < childPIDs_i[Listener]
        /\ StoredTo = childPIDs_i[Listener] /\ childPIDs_i[Listener] \in Int
    BY <1>0, <2>1, AcceptedCount, StoredToType DEF TypeInv, TypeOK, WaitInv, StoredTo, Slots
  <2>3. at[Listener] \in ToDo
    BY <2>2 DEF ToDo
  <2>4. pid \in Children(Listener) /\ pid # Listener
    BY <1>0, <1>2, <2>3 DEF ToDoAreChildren, Children, FamilyInv, FirstProcess, Listener
  <2>5. Awaited(Listener, pid) = {pid}
    BY <2>4 DEF Awaited, Children, Pids
  <2>6. pc' = [pc EXCEPT ![Listener] = "kill", ![pid] = "free"]
    BY <1>6, <2>5 DEF WaitNext
  <2>7. pc'[Listener] = "kill" /\ Children(Listener) \ {pid} \subseteq Children(Listener)'
    BY <1>0, <1>1, <2>4, <2>6 DEF Children
  <2>8. StoredTo' = StoredTo /\ ToDo' \subseteq ToDo \ {at[Listener]}
    <3>1. StoredTo' = StoredTo
      BY <1>0, <2>1, <2>7 DEF StoredTo, globals
    <3> QED
      BY <2>1, <2>2, <2>7, <3>1 DEF ToDo, InHandler
  <2>9. ToDoAreChildren'
    <3>1. \A j \in ToDo' : childPIDs[Listener][j] \in Children(Listener) \ {pid}
      BY <1>2, <2>3, <2>8 DEF ToDoAreChildren, ToDoDiffer
    <3> QED
      BY <1>0, <2>7, <3>1 DEF ToDoAreChildren, globals
  <2> QED
    BY <1>0, <1>2, <2>7, <2>8, <2>9 DEF globals, ChildrenInv, ToDoDiffer, ForkedIsChild
<1> QED
  BY <1>0, <1>3, <1>4, <1>5, <1>6 DEF Handle

LEMMA NextChildren ==
  ASSUME QuietStop, ~ForkMayFail, HandlerInv, QuietInv, ChildrenInv, [Next]_vars
  PROVE  ChildrenInv'
<1> SUFFICES ASSUME ended' = "no"
             PROVE  ChildrenInv'
  BY DEF ChildrenInv
<1>1. CASE Serve(Listener) \/ Handle(Listener) \/ Signal(Listener)
  BY <1>1, ServeChildren, HandleChildren
<1>2. ASSUME NEW p \in Pids \ {Listener}, Serve(p) \/ Handle(p) \/ Signal(p)
      PROVE  ChildrenInv'
  <2>1. /\ pc'[Listener] = pc[Listener] /\ at'[Listener] = at[Listener]
        /\ childPIDs_i'[Listener] = childPIDs_i[Listener]
        /\ childPIDs'[Listener] = childPIDs[Listener]
        /\ childPID'[Listener] = childPID[Listener]
        /\ ended' = ended
    BY <1>2, OthersLeaveListener DEF HandlerInv
  <2>2. Children(Listener)' = Children(Listener)
    BY <1>2, <2>1, OthersKeepChildren DEF HandlerInv
  <2>3. StoredTo' = StoredTo /\ ToDo' = ToDo /\ Stored' = Stored
    BY <2>1 DEF StoredTo, ToDo, Stored, InHandler
  <2> QED
    BY <2>1, <2>2, <2>3 DEF ChildrenInv, ToDoAreChildren, ToDoDiffer, ForkedIsChild
<1>3. CASE UNCHANGED <<pc, globals, at, parent, ended>>
  BY <1>3 DEF globals, ChildrenInv, ToDoAreChildren, ToDoDiffer, ForkedIsChild, ToDo, Stored, StoredTo,
              Children, InHandler
<1> QED
  BY <1>1, <1>2, <1>3 DEF Next, Connect, ClientSeesEnd, ClientStops, Over, vars, kernel

\* As long as fork() succeeds, the handler of a server that is stopped while
\* its clients stream signals children of its own process only
\* (gen.c:147-152): no entry of childPIDs is 0 or -1, and none is the pid of a
\* child that was waited for before.
THEOREM HandlerSignalsChildren ==
  ASSUME QuietStop, ~ForkMayFail
  PROVE  Spec => []OnlyChildrenSignalled
<1> DEFINE IInv == HandlerInv /\ QuietInv /\ ChildrenInv
<1>1. Init => IInv
  <2> SUFFICES ASSUME Init PROVE ChildrenInv
    BY InitQuiet
  <2>1. StoredTo = 0
    BY ListenerIsPid DEF Init, StoredTo
  <2>2. ToDo = {}
    BY <2>1 DEF ToDo
  <2> QED
    BY <2>2, ListenerIsPid DEF Init, ChildrenInv, ToDoAreChildren, ToDoDiffer, ForkedIsChild
<1>2. IInv /\ [Next]_vars => IInv'
  BY NextTypes, NextFamily, NextHandled, NextQuiet, NextChildren DEF HandlerInv
<1>3. IInv => OnlyChildrenSignalled
  <2> SUFFICES ASSUME IInv, pc[Listener] = "kill", at[Listener] < childPIDs_i[Listener]
               PROVE  childPIDs[Listener][at[Listener]] \in Children(Listener)
    BY DEF OnlyChildrenSignalled
  <2>1. at[Listener] \in Nat /\ StoredTo = childPIDs_i[Listener] /\ StoredTo \in Int
    BY StoredToType, AcceptedCount, ListenerIsPid DEF HandlerInv, TypeInv, TypeOK, StoredTo, Slots
  <2>2. at[Listener] \in ToDo
    BY <2>1 DEF ToDo
  <2>3. ended = "no"
    BY DEF HandlerInv, FamilyInv, FirstProcess
  <2> QED
    BY <2>2, <2>3 DEF ChildrenInv, ToDoAreChildren
<1> QED
  BY <1>1, <1>2, <1>3, PTL DEF Spec

-----------------------------------------------------------------------------
(* A first process that has room for all its children.                       *)

\* It has the listening socket open, and sockfd is that socket; what it closes
\* are connections.
ReadyInv ==
  /\ ended # "error"
  /\ ended = "no" => sockfd[Listener] = "listen" /\ "listen" \in fds[Listener]
  /\ pc[Listener] \in {"fork", "track", "store", "close"} => s[Listener] \in Conns

\* Another process changes none of this.
LEMMA OthersKeepReady ==
  ASSUME TypeInv, FamilyInv, ReadyInv,
         NEW p \in Pids \ {Listener}, Serve(p) \/ Handle(p) \/ Signal(p)
  PROVE  ReadyInv'
<1> USE ListenerIsPid
<1>1. pc'[Listener] = pc[Listener] /\ ended' = ended
  BY OthersLeaveListener
<1>2. ~Fork(p)
  BY DEF Fork, TypeInv, AcceptInv, OnlyListenerAccepts
<1>3. /\ sockfd'[Listener] = sockfd[Listener] /\ s'[Listener] = s[Listener]
      /\ fds'[Listener] = fds[Listener]
  BY <1>2 DEF Serve, Accept, AcceptFails, ForkFails, BecomeSession, SessionReturns, Track, Store, Close,
              Handle, Enter, KillNext, WaitNext, HandlerExits, Signal, Dies, globals, kernel,
              TypeInv, TypeOK
<1> QED
  BY <1>1, <1>3 DEF ReadyInv

LEMMA ListenerKeepsReady ==
  ASSUME Cardinality(Conns) <= MaxChildren, TypeInv, FamilyInv, ReadyInv,
         Serve(Listener) \/ Handle(Listener) \/ Signal(Listener)
  PROVE  ReadyInv'
<1> USE ListenerIsPid, ConnsAssumption DEF TypeInv, TypeOK, ReadyInv
<1>0. ended = "no" /\ pc[Listener] \notin {"child", "session"}
  BY DEF Serve, Accept, AcceptFails, Fork, ForkFails, BecomeSession, SessionReturns, Track, Store, Close,
         Handle, Enter, KillNext, WaitNext, HandlerExits, Signal, Signalled, Alive,
         FamilyInv, FirstProcess, DeadAreGone, ChildSlotInv
<1>1. CASE Accept(Listener)
  BY <1>0, <1>1 DEF Accept, Goto
<1>2. CASE Fork(Listener)
  <2>1. PICK q \in Pids :
          /\ q # Listener
          /\ pc' = [pc EXCEPT ![Listener] = "track", ![q] = "child"]
          /\ sockfd' = [sockfd EXCEPT ![q] = sockfd[Listener]]
          /\ s' = [s EXCEPT ![q] = s[Listener]]
          /\ fds' = [fds EXCEPT ![q] = fds[Listener]]
    BY <1>2 DEF Fork, IsNextPid
  <2>2. pc[Listener] = "fork" /\ ended' = ended
    BY <1>2 DEF Fork
  <2> QED
    BY <1>0, <2>1, <2>2
<1>3. CASE ForkFails(Listener) \/ Track(Listener)
  BY <1>0, <1>3 DEF ForkFails, Track, Goto, kernel
<1>4. CASE Store(Listener)
  <2>1. childPIDs_i[Listener] - 1 # MaxChildren
    <3>1. childPIDs_i[Listener] \in Int /\ MaxChildren \in Int
      BY StoredToType, MaxChildrenAssumption
    <3> QED
      BY <3>1, AcceptedCount DEF CountInv
  <2> QED
    BY <1>0, <1>4, <2>1 DEF Store, Goto, kernel
<1>5. CASE Close(Listener)
  <2>1. "listen" # s[Listener]
    BY <1>5 DEF Close
  <2> QED
    BY <1>0, <1>5, <2>1 DEF Close, Goto, globals
<1>6. CASE Handle(Listener) \/ Signal(Listener)
  <2>1. ended' # "error" /\ sockfd' = sockfd /\ s' = s
        /\ (ended' = "no" => fds' = fds)
    BY <1>0, <1>6 DEF Handle, Enter, KillNext, WaitNext, HandlerExits, Signal, Dies, globals, kernel
  <2>2. pc'[Listener] = pc[Listener] \/ pc'[Listener] \in {"free", "zombie", "kill", "wait"}
    <3>1. CASE WaitNext(Listener)
      <4>1. CASE pc' = [pc EXCEPT ![Listener] = "kill"]
        BY <4>1
      <4>2. ASSUME NEW q \in Pids, pc' = [pc EXCEPT ![Listener] = "kill", ![q] = "free"]
            PROVE  pc'[Listener] \in {"free", "kill"}
        BY <4>2
      <4>3. Awaited(Listener, childPIDs[Listener][at[Listener]]) \subseteq Pids
        BY DEF Awaited, Children
      <4> QED
        BY <3>1, <4>1, <4>2, <4>3 DEF WaitNext, Goto
    <3> QED
      BY <1>6, <3>1 DEF Handle, Enter, KillNext, HandlerExits, Signal, Dies, Goto
  <2> QED
    BY <1>0, <2>1, <2>2
<1>7. ~AcceptFails(Listener) /\ ~BecomeSession(Listener) /\ ~SessionReturns(Listener)
  BY <1>0 DEF AcceptFails, BecomeSession, SessionReturns
<1> QED
  BY <1>1, <1>2, <1>3, <1>4, <1>5, <1>6, <1>7 DEF Serve

\* With no more connections than childPIDs has room for, the main process holds
\* ready to accept a new connection (gen.c:116) until a signal ends it: it takes
\* one connection too many, and no other course of events, for accept() to fail.
THEOREM RoomyServerHoldsReady ==
  ASSUME Cardinality(Conns) <= MaxChildren
  PROVE  Spec => []ListenerHoldsReady
<1> DEFINE IInv == TypeInv /\ FamilyInv /\ ReadyInv
<1>1. Init => IInv
  BY InitTypes, InitFamily, ListenerIsPid DEF Init, ReadyInv
<1>2. IInv /\ [Next]_vars => IInv'
  <2> SUFFICES ASSUME IInv, [Next]_vars PROVE ReadyInv'
    BY NextTypes, NextFamily
  <2>1. CASE UNCHANGED <<pc, sockfd, s, fds, ended>>
    BY <2>1 DEF ReadyInv
  <2> QED
    BY <2>1, OthersKeepReady, ListenerKeepsReady
       DEF Next, Connect, ClientSeesEnd, ClientStops, Over, vars, globals, kernel
<1>3. IInv => ListenerHoldsReady
  BY DEF ReadyInv, ListenerHoldsReady
<1> QED
  BY <1>1, <1>2, <1>3, PTL DEF Spec

=============================================================================
