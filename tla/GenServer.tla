----------------------------- MODULE GenServer -----------------------------
(***************************************************************************)
(* The server of the TCP generator (tcprunner/generator/gen.c, gen -s):    *)
(* one process accepts connections and forks a child for each; SIGTERM     *)
(* makes it kill its children, wait for them and end.  Its clients stream  *)
(* until they see their connection closed, which is how killTCP of the     *)
(* orchestrator stops both ends with one signal.                           *)
(*                                                                         *)
(* Every process has its own copy of the globals, made by fork.  A signal  *)
(* comes between any two steps, the increment and the store of             *)
(* childPIDs[childPIDs_i++] included, and its handler never returns.       *)
(*                                                                         *)
(* A definition that is followed by the one the specification uses, and    *)
(* used by nothing, is the code with a plausible bug.                      *)
(***************************************************************************)
EXTENDS Integers, FiniteSets

CONSTANTS
  Processes,    \* the number of processes there may be, a bound on the pids
  Conns,        \* the connections that clients make, one client each
  MaxChildren,  \* the size of childPIDs (10 in the code)
  QuietStop,    \* SIGTERM only comes while nothing but the streams goes on
  ForkMayFail   \* fork() may return -1

ASSUME ProcessesAssumption == Processes \in Nat \ {0}
ASSUME ConnsAssumption ==
  /\ IsFiniteSet(Conns)
  /\ {"listen", "stray"} \cap Conns = {}
ASSUME MaxChildrenAssumption == MaxChildren \in Nat \ {0}
ASSUME SwitchesAssumption == QuietStop \in BOOLEAN /\ ForkMayFail \in BOOLEAN

Pids == 1..Processes
Listener == 1                            \* the process that was started
Slots == 0..Cardinality(Conns)           \* the indices of childPIDs in use
Sockets == Conns \cup {"listen"}

VARIABLES
  pc,           \* where each process is; "free" when there is no such process
  sockfd,       \* sockfd: the listening socket, a connection, or no descriptor
  s,            \* s: the connection last accepted
  childPID,     \* childPID: what fork() returned last
  childPIDs_i,  \* childPIDs_i
  childPIDs,    \* childPIDs
  at,           \* the loop variable of sigtermHandler
  fds,          \* the sockets each process has open
  parent,       \* the parent of each process, 0 outside of the server
  pending,      \* the processes that have a SIGTERM to take
  conns,        \* the connections as their clients see them
  ended         \* how the first process ended: "no", by "handler" or on "error"

globals == <<sockfd, s, childPID, childPIDs_i, childPIDs>>
kernel == <<fds, parent, pending>>
vars == <<pc, globals, at, kernel, conns, ended>>

Init ==
  /\ pc = [p \in Pids |-> IF p = Listener THEN "accept" ELSE "free"]
  /\ sockfd = [p \in Pids |-> "listen"]
  /\ s = [p \in Pids |-> "listen"]
  /\ childPID = [p \in Pids |-> 0]
  /\ childPIDs_i = [p \in Pids |-> 0]
  /\ childPIDs = [p \in Pids |-> [j \in Slots |-> 0]]
  /\ at = [p \in Pids |-> 0]
  /\ fds = [p \in Pids |-> IF p = Listener THEN {"listen"} ELSE {}]
  /\ parent = [p \in Pids |-> 0]
  /\ pending = {}
  /\ conns = [c \in Conns |-> "new"]
  /\ ended = "no"

-----------------------------------------------------------------------------
(* Processes.                                                              *)

Alive == {p \in Pids : pc[p] \notin {"free", "zombie"}}
Children(p) == {q \in Pids : parent[q] = p /\ pc[q] # "free"}
Held(x) == \E p \in Pids : x \in fds[p]

\* A process ends: its sockets are closed, its parent can wait for it, and
\* nobody waits for its children any more.
Dies(p, how) ==
  /\ pc' = [q \in Pids |->
       CASE q = p -> IF parent[p] = 0 THEN "free" ELSE "zombie"
         [] q \in Children(p) /\ pc[q] = "zombie" -> "free"
         [] OTHER -> pc[q]]
  /\ parent' = [q \in Pids |-> IF parent[q] = p THEN 0 ELSE parent[q]]
  /\ fds' = [fds EXCEPT ![p] = {}]
  /\ pending' = pending \ {p}
  /\ ended' = IF p = Listener THEN how ELSE ended
  /\ UNCHANGED <<globals, at, conns>>

Goto(p, l) == pc' = [pc EXCEPT ![p] = l]

-----------------------------------------------------------------------------
(* server_accept.                                                          *)

Accept(p) ==
  /\ pc[p] = "accept" /\ sockfd[p] = "listen"
  /\ \E c \in Conns :
       /\ conns[c] = "queued"
       /\ s' = [s EXCEPT ![p] = c]
       /\ fds' = [fds EXCEPT ![p] = @ \cup {c}]
       /\ conns' = [conns EXCEPT ![c] = "open"]
  /\ Goto(p, "fork")
  /\ UNCHANGED <<sockfd, childPID, childPIDs_i, childPIDs, at, parent, pending, ended>>

\* accept() of a descriptor that is closed, or was never one: exit(1).
AcceptFails(p) ==
  /\ pc[p] = "accept" /\ sockfd[p] \notin fds[p]
  /\ Dies(p, "error")

\* The pid of a new process: the kernel counts up.
IsNextPid(q) ==
  /\ q # Listener /\ pc[q] = "free"
  /\ \A r \in Pids : r # Listener /\ r < q => pc[r] # "free"

\* fork(): the child has a copy of everything but the signals to take.
Fork(p) ==
  /\ pc[p] = "fork"
  /\ \E q \in Pids :
       /\ IsNextPid(q)
       /\ pc' = [pc EXCEPT ![p] = "track", ![q] = "child"]
       /\ sockfd' = [sockfd EXCEPT ![q] = sockfd[p]]
       /\ s' = [s EXCEPT ![q] = s[p]]
       /\ childPID' = [childPID EXCEPT ![p] = q, ![q] = 0]
       /\ childPIDs_i' = [childPIDs_i EXCEPT ![q] = childPIDs_i[p]]
       /\ childPIDs' = [childPIDs EXCEPT ![q] = childPIDs[p]]
       /\ fds' = [fds EXCEPT ![q] = fds[p]]
       /\ parent' = [parent EXCEPT ![q] = p]
  /\ UNCHANGED <<at, pending, conns, ended>>

ForkFails(p) ==
  /\ ForkMayFail
  /\ pc[p] = "fork"
  /\ childPID' = [childPID EXCEPT ![p] = -1]
  /\ Goto(p, "track")
  /\ UNCHANGED <<sockfd, s, childPIDs_i, childPIDs, at, kernel, conns, ended>>

\* The child: sockfd is the new socket, and it has no children.
KeepSocket(p) ==
  /\ pc[p] = "child"
  /\ childPIDs_i' = [childPIDs_i EXCEPT ![p] = 0]
  /\ Goto(p, "session")
  /\ UNCHANGED <<sockfd, s, childPID, childPIDs, at, kernel, conns, ended>>
BecomeSession(p) ==
  /\ pc[p] = "child"
  /\ sockfd' = [sockfd EXCEPT ![p] = s[p]]
  /\ childPIDs_i' = [childPIDs_i EXCEPT ![p] = 0]
  /\ Goto(p, "session")
  /\ UNCHANGED <<s, childPID, childPIDs, at, kernel, conns, ended>>

\* server_session returns: the client has gone, or the congestion control it
\* asks for is refused, and the socket closed.  The child does not exit here;
\* it goes on in the loop of server_accept.
SessionReturns(p) ==
  /\ pc[p] = "session"
  /\ \/ conns[s[p]] = "gone" /\ UNCHANGED fds
     \/ fds' = [fds EXCEPT ![p] = @ \ {sockfd[p]}]
  /\ Goto(p, "track")
  /\ UNCHANGED <<globals, at, parent, pending, conns, ended>>

\* childPIDs[childPIDs_i++] = childPID: the increment ...
Track(p) ==
  /\ pc[p] = "track"
  /\ childPIDs_i' = [childPIDs_i EXCEPT ![p] = @ + 1]
  /\ Goto(p, "store")
  /\ UNCHANGED <<sockfd, s, childPID, childPIDs, at, kernel, conns, ended>>

StoreNextSlot(p) ==
  /\ pc[p] = "store"
  /\ childPIDs' = [childPIDs EXCEPT ![p][childPIDs_i[p]] = childPID[p]]
  /\ Goto(p, "close")
  /\ UNCHANGED <<sockfd, s, childPID, childPIDs_i, at, kernel, conns, ended>>

\* ... and the store.  Behind the array lies sockfd, in a build that lays the
\* globals out as they are declared, or else something nobody misses.
Store(p) ==
  /\ pc[p] = "store"
  /\ LET j == childPIDs_i[p] - 1
     IN  /\ childPIDs' = [childPIDs EXCEPT ![p][j] = childPID[p]]
         /\ \/ UNCHANGED sockfd
            \/ j = MaxChildren /\ sockfd' = [sockfd EXCEPT ![p] = "stray"]
  /\ Goto(p, "close")
  /\ UNCHANGED <<s, childPID, childPIDs_i, at, kernel, conns, ended>>

Close(p) ==
  /\ pc[p] = "close"
  /\ fds' = [fds EXCEPT ![p] = @ \ {s[p]}]
  /\ Goto(p, "accept")
  /\ UNCHANGED <<globals, at, parent, pending, conns, ended>>

-----------------------------------------------------------------------------
(* SIGTERM and sigtermHandler.                                             *)

\* Nothing goes on but the streams of clients that have been served for long.
Quiet ==
  /\ pc[Listener] = "accept"
  /\ \A p \in Alive \ {Listener} : pc[p] = "session"
  /\ \A c \in Conns : conns[c] # "queued"

InHandler(p) == pc[p] \in {"kill", "wait"}

\* The processes a SIGTERM can still make a difference to: the handler blocks
\* the signal, and ends the process.
Signalled == Alive \ {p \in Pids : InHandler(p)}

\* Someone outside sends SIGTERM: "kill" of the first process by BGProc.stop,
\* or "pkill -f" of killall, which reaches every process it finds.
Signal(p) ==
  /\ p \in Signalled \ pending
  /\ QuietStop => p = Listener /\ Quiet
  /\ pending' = pending \cup {p}
  /\ UNCHANGED <<pc, globals, at, fds, parent, conns, ended>>

\* The handler begins.
Enter(p) ==
  /\ p \in pending
  /\ pending' = pending \ {p}
  /\ at' = [at EXCEPT ![p] = 0]
  /\ Goto(p, "kill")
  /\ UNCHANGED <<globals, fds, parent, conns, ended>>

\* Whom kill(pid) makes a difference to: 0 is the process group, -1 every
\* process of the user, which the server is part of.
Targets(pid) ==
  IF pid > 0 THEN {pid} \cap Signalled ELSE Signalled

MoreToKillOffByOne(p) == at[p] <= childPIDs_i[p]
MissesLastChild(p) == at[p] + 1 < childPIDs_i[p]
MoreToKill(p) == at[p] < childPIDs_i[p]

KillNext(p) ==
  /\ pc[p] = "kill" /\ MoreToKill(p)
  /\ pending' = pending \cup Targets(childPIDs[p][at[p]])
  /\ Goto(p, "wait")
  /\ UNCHANGED <<globals, at, fds, parent, conns, ended>>

\* The children that waitpid(pid) waits for; with none it returns at once.
Awaited(p, pid) == IF pid > 0 THEN {pid} \cap Children(p) ELSE Children(p)

Advance(p) == at' = [at EXCEPT ![p] = @ + 1]

ForgetsToWait(p) ==
  /\ pc[p] = "wait"
  /\ Goto(p, "kill") /\ Advance(p)
  /\ UNCHANGED <<globals, kernel, conns, ended>>
WaitsForever(p) ==
  /\ pc[p] = "wait"
  /\ \E q \in Awaited(p, childPIDs[p][at[p]]) :
       /\ pc[q] = "zombie"
       /\ pc' = [pc EXCEPT ![p] = "kill", ![q] = "free"]
  /\ Advance(p)
  /\ UNCHANGED <<globals, kernel, conns, ended>>
WaitNext(p) ==
  /\ pc[p] = "wait"
  /\ LET waited == Awaited(p, childPIDs[p][at[p]])
     IN  \/ waited = {} /\ Goto(p, "kill")
         \/ \E q \in waited :
              /\ pc[q] = "zombie"
              /\ pc' = [pc EXCEPT ![p] = "kill", ![q] = "free"]
  /\ Advance(p)
  /\ UNCHANGED <<globals, kernel, conns, ended>>

\* close(sockfd) and exit(0).
HandlerExits(p) ==
  /\ pc[p] = "kill" /\ ~MoreToKill(p)
  /\ Dies(p, "handler")

-----------------------------------------------------------------------------
(* The clients (gen -h).                                                   *)

\* connect(): it succeeds while anyone holds the listening socket.
Connect(c) ==
  /\ conns[c] = "new"
  /\ QuietStop => pending = {} /\ ~InHandler(Listener)
  /\ conns' = [conns EXCEPT ![c] = IF Held("listen") THEN "queued" ELSE "gone"]
  /\ UNCHANGED <<pc, globals, at, kernel, ended>>

\* send() fails, because the other end is closed: exit(1).
ClientSeesEnd(c) ==
  /\ \/ conns[c] = "open" /\ ~Held(c)
     \/ conns[c] = "queued" /\ ~Held("listen")
  /\ conns' = [conns EXCEPT ![c] = "gone"]
  /\ UNCHANGED <<pc, globals, at, kernel, ended>>

\* The client is stopped.
ClientStops(c) ==
  /\ conns[c] \in {"queued", "open"}
  /\ conns' = [conns EXCEPT ![c] = "gone"]
  /\ UNCHANGED <<pc, globals, at, kernel, ended>>

-----------------------------------------------------------------------------
Serve(p) ==
  \/ Accept(p) \/ AcceptFails(p) \/ Fork(p) \/ ForkFails(p) \/ BecomeSession(p)
  \/ SessionReturns(p) \/ Track(p) \/ Store(p) \/ Close(p)
Handle(p) == Enter(p) \/ KillNext(p) \/ WaitNext(p) \/ HandlerExits(p)

\* Every process is gone, and every client.
Over ==
  /\ \A p \in Pids : pc[p] = "free"
  /\ \A c \in Conns : conns[c] = "gone"
  /\ UNCHANGED vars

Next ==
  \/ \E p \in Pids : Serve(p) \/ Handle(p) \/ Signal(p)
  \/ \E c \in Conns : Connect(c) \/ ClientSeesEnd(c) \/ ClientStops(c)
  \/ Over

Spec == Init /\ [][Next]_vars

\* The kernel delivers signals and runs every process, and a client notices
\* the end of its connection.  Nobody need connect, stop or send a signal.
Fairness ==
  /\ \A p \in Pids : WF_vars(Handle(p))
  /\ \A c \in Conns : WF_vars(ClientSeesEnd(c))

FairSpec == Spec /\ Fairness

-----------------------------------------------------------------------------
(* Properties.                                                             *)

TypeOK ==
  /\ pc \in [Pids -> {"free", "accept", "fork", "child", "session", "track",
                      "store", "close", "kill", "wait", "zombie"}]
  /\ sockfd \in [Pids -> Sockets \cup {"stray"}]
  /\ s \in [Pids -> Sockets]
  /\ childPID \in [Pids -> Pids \cup {0, -1}]
  /\ childPIDs_i \in [Pids -> Slots]
  /\ childPIDs \in [Pids -> [Slots -> Pids \cup {0, -1}]]
  /\ at \in [Pids -> Slots]
  /\ \A p \in Pids : InHandler(p) => at[p] <= childPIDs_i[p]
  /\ fds \in [Pids -> SUBSET Sockets]
  /\ parent \in [Pids -> Pids \cup {0}]
  /\ pending \subseteq Pids
  /\ conns \in [Conns -> {"new", "queued", "open", "gone"}]
  /\ ended \in {"no", "handler", "error"}

\* No child ever accepts a connection, although each goes on in the loop of
\* server_accept when its session is over: its sockfd is closed by then.
OnlyListenerAccepts == \A p \in Pids : pc[p] = "fork" => p = Listener

\* Whenever the signal came: no child that was stored in childPIDs is left
\* when the handler of the first process has ended.
RecordedChildrenDie ==
  ended = "handler" =>
    \A j \in 0..childPIDs_i[Listener] - 1 : childPIDs[Listener][j] \notin Alive

\* Nobody waits for ever in the handler, whichever processes the signal reaches
\* and in whatever order: no two of them wait for each other.
HandlerEnds == \A p \in Pids : InHandler(p) ~> ~InHandler(p)

\* When the server is stopped while its clients stream: it leaves no process
\* behind that holds its port, so the server of the next run can bind it ...
PortIsFree == ended = "handler" => ~Held("listen")

\* ... every client ends by itself, which killTCP gives it five seconds for ...
StopEndsClients ==
  ended = "handler" ~> \A c \in Conns : conns[c] \notin {"queued", "open"}

\* ... and its handler signals its own children only, none that was waited for
\* already, nor its process group (0) or every process of the user (-1).
OnlyChildrenSignalled ==
  pc[Listener] = "kill" /\ at[Listener] < childPIDs_i[Listener] =>
    childPIDs[Listener][at[Listener]] \in Children(Listener)

\* What gen.c:116 says: the main process just holds ready to accept a new
\* connection.  It ends on a signal only.
ListenerHoldsReady == ended # "error"

=============================================================================
