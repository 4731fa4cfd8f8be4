----------------------------- MODULE Evaluation -----------------------------
(***************************************************************************)
(* What the evaluation makes of a run's capture (evalscripts): the period  *)
(* of observation that getToLeftTrafficClasses cuts out, and the row of    *)
(* the table that process_file writes for it, or does not.                 *)
(*                                                                         *)
(* A flow is the number of its packets in each five seconds of a run.      *)
(* Times are counted in ticks, of a fifth of a second: a call sends at     *)
(* most one packet a tick, which with 25 in five seconds is what           *)
(* check_flow requires at least.  The packets of five seconds are in the   *)
(* first of their ticks.                                                   *)
(***************************************************************************)
EXTENDS Integers, Sequences

TicksPerInterval == 25
Seconds(s) == 5 * s

\* The number of packets before each interval, and in all.
Sums(flow) ==
  LET upTo[u \in 0..Len(flow)] ==
        IF u = 0 THEN <<0>> ELSE LET s == upTo[u - 1] IN Append(s, s[u] + flow[u])
  IN  upTo[Len(flow)]
Size(flow) == Sums(flow)[Len(flow) + 1]

\* index[n]: the time of a packet, counted from 0.
Index(flow, n) ==
  LET sum == Sums(flow)
      u == CHOOSE v \in 1..Len(flow) : sum[v] <= n /\ n < sum[v + 1]
  IN  TicksPerInterval * (u - 1) + n - sum[u]

\* The number of packets before a time.
Before(flow, tick) ==
  LET u == tick \div TicksPerInterval
      part == tick % TicksPerInterval
  IN  IF u >= Len(flow) THEN Size(flow)
      ELSE Sums(flow)[u + 1] + (IF flow[u + 1] < part THEN flow[u + 1] ELSE part)

-----------------------------------------------------------------------------
(* getToLeftTrafficClasses("cong", ...).                                   *)

TooShort == [kind |-> "too short"]
Raises == [kind |-> "raises"]

\* The start of the observation of two flows that compete.
CompetitionOfFirst(call, tcp) == IF call < tcp THEN call ELSE tcp
Competition(call, tcp) == IF call < tcp THEN tcp ELSE call

\* The period of observation; with offset, without its first minute.
Observation(call, tcp, offset) ==
  IF Size(call) < 11 THEN TooShort
  ELSE IF Size(call) = 11 THEN Raises
  ELSE LET skipped == IF offset THEN Seconds(60) ELSE 0
           start == Competition(Index(call, 11), Index(tcp, 11)) + Seconds(30)
       IN  IF Size(tcp) > 11
             THEN [kind |-> "window", from |-> start + skipped, to |-> start + Seconds(120)]
             ELSE [kind |-> "window", from |-> Index(call, 11) + skipped,
                   to |-> Index(call, Size(call) - 11)]

-----------------------------------------------------------------------------
(* process_file.                                                           *)

\* skipFirstMinute
AlwaysSkip(scenario) == TRUE
SkipFirstMinute(scenario) == scenario = "JUST_CALL"

\* The packets of a flow strictly within a window, as the numbers of the first
\* of them and of the first after them.
First(flow, w) == Before(flow, w.from + 1)
End(flow, w) == IF Before(flow, w.to) < First(flow, w) THEN First(flow, w) ELSE Before(flow, w.to)

\* didCallBreak: the tenth packet from the end of the window comes early.
BreaksByLast(call, w) == Index(call, End(call, w) - 1) < Index(call, First(call, w)) + Seconds(115)
DidCallBreak(call, w) == Index(call, End(call, w) - 10) < Index(call, First(call, w)) + Seconds(115)

\* The window from which drop rates are taken, which is found in the same way
\* among the packets that were enqueued.
EnqueueWindowUncut(callEnq, tcpEnq, scenario) == Observation(callEnq, tcpEnq, FALSE)
EnqueueWindow(callEnq, tcpEnq, scenario) ==
  Observation(callEnq, tcpEnq, SkipFirstMinute(scenario))

\* A window too short is a Timedelta that is compared with a number, which
\* raises; so does the tenth of fewer than ten packets.  What is returned for
\* a short observation or few packets, nobody writes.
Row(scenario, call, tcp, callEnq, tcpEnq) ==
  LET w == Observation(call, tcp, SkipFirstMinute(scenario))
      e == EnqueueWindow(callEnq, tcpEnq, scenario)
      count == End(call, w) - First(call, w)
  IN  IF scenario = "JUST_TCP" THEN [kind |-> "skipped"]
      ELSE IF w.kind # "window" \/ e.kind # "window" THEN Raises
      ELSE IF w.to - w.from < Seconds(5) \/ count < 5 THEN [kind |-> "unwritten"]
      ELSE IF count < 10 THEN Raises
      ELSE [kind |-> "row", window |-> w, enqueued |-> e,
            first |-> Index(call, First(call, w)),
            didCallBreak |-> DidCallBreak(call, w)]

=============================================================================
