--------------------------- MODULE Dataset_proofs ---------------------------
(* Theorems about the data of a study, for every number of iterations, every  *)
(* set of programs, every time at which calls are answered or break, and any  *)
(* runs that fail: what of a row can be trusted.  The flows of a run are shown *)
(* to have a shape, step by step of its workload; all that is said of a row   *)
(* follows from the shape at the end of the run.                              *)
EXTENDS Dataset, Evaluation_proofs, FiniteSetTheorems

-----------------------------------------------------------------------------
(* The plans.                                                                *)

\* The configurations that a plan may have: queues that are known, with room for
\* a packet, and no placeholder but in the scenario that has no use for it.
Queues == [name : {"bfifo"}, len : {l \in Nat : l >= 1514}] \cup {Codel, FqCodel}
RealWith(scenarios, bws, congs) ==
  [scenario : scenarios, mvca : {"TELEGRAM", "SIGNAL", "WHATSAPP"}, rtt : Nat, bw : bws,
   innerqdisc : Queues, cong : congs]
Real ==
  RealWith(Scenarios \ {"BWP", "JUST_TCP"}, Nat \ {0}, {"cubic", "bbr", "bbr2"})
    \cup RealWith({"BWP"}, Int, {"<nocong>"})
RealPlans == Seq(Real) \ {<<>>}

\* What the local function of FlattenSeq is.
Flat(ss, f, i) == IF i = 1 THEN ss[i] ELSE f[i - 1] \o ss[i]

LEMMA FlatExists ==
  ASSUME NEW ss, NEW m \in Nat
  PROVE  \E f : f = [i \in 1..m |-> Flat(ss, f, i)]
<1> DEFINE Good(f, n) == f = [i \in 1..n |-> Flat(ss, f, i)]
           S == {n \in Nat : \E f : Good(f, n)}
<1>1. 0 \in S
  <2>1. 1..0 = {}
    OBVIOUS
  <2> DEFINE f == [i \in 1..0 |-> i]
  <2>2. f = [i \in 1..0 |-> Flat(ss, f, i)]
    BY <2>1
  <2> HIDE DEF f
  <2> QED
    BY <2>2
<1>2. ASSUME NEW n \in S
      PROVE  n + 1 \in S
  <2>1. PICK f : Good(f, n)
    OBVIOUS
  <2> DEFINE g == [i \in 1..(n + 1) |-> IF i = n + 1 THEN Flat(ss, f, i) ELSE f[i]]
  <2>2. ASSUME NEW i \in 1..(n + 1)
        PROVE  g[i] = Flat(ss, g, i)
    <3>1. i # 1 => i - 1 \in 1..n /\ g[i - 1] = f[i - 1]
      OBVIOUS
    <3>2. g[i] = Flat(ss, f, i)
      BY <2>1
    <3> HIDE DEF g
    <3> QED
      BY <3>1, <3>2 DEF Flat
  <2>3. g = [i \in 1..(n + 1) |-> g[i]]
    OBVIOUS
  <2> HIDE DEF g
  <2>4. Good(g, n + 1) /\ n + 1 \in Nat
    BY <2>2, <2>3
  <2> QED
    BY <2>4
<1>3. S \in SUBSET Nat
  OBVIOUS
<1> HIDE DEF S
<1>4. S = Nat
  BY <1>1, <1>2, <1>3, Induction
<1> QED
  BY <1>4 DEF S

LEMMA JoinedIsLonger ==
  ASSUME NEW T, NEW s \in Seq(T), NEW r \in Seq(T), s # <<>>
  PROVE  s \o r \in Seq(T) \ {<<>>}
<1>1. Len(s) \in Nat \ {0} /\ Len(r) \in Nat
  BY EmptySeq, LenProperties
<1>2. s \o r \in Seq(T) /\ Len(s \o r) = Len(s) + Len(r)
  BY ConcatProperties
<1>3. s \o r # <<>>
  BY <1>1, <1>2, EmptySeq
<1> QED
  BY <1>2, <1>3

\* Sequences that are not empty, put together, are one.
LEMMA FlatType ==
  ASSUME NEW T, NEW m \in Nat \ {0}, NEW ss \in [1..m -> Seq(T) \ {<<>>}]
  PROVE  FlattenSeq(ss) \in Seq(T) \ {<<>>}
<1>1. Len(ss) = m
  <2>1. ss \in Seq(Seq(T) \ {<<>>}) /\ DOMAIN ss = 1..m
    BY SeqDef
  <2> QED
    BY <2>1, LenProperties
<1>2. PICK f : f = [i \in 1..m |-> Flat(ss, f, i)] /\ FlattenSeq(ss) = f[m]
  BY <1>1, FlatExists DEF FlattenSeq, Flat
<1> DEFINE S == {n \in Nat : n \in 1..m => f[n] \in Seq(T) \ {<<>>}}
<1>3. 0 \in S
  OBVIOUS
<1>4. ASSUME NEW n \in S
      PROVE  n + 1 \in S
  <2>1. CASE n + 1 \in 1..m
    <3>1. f[n + 1] = Flat(ss, f, n + 1) /\ ss[n + 1] \in Seq(T) \ {<<>>}
      BY <1>2, <2>1
    <3>2. CASE n = 0
      BY <3>1, <3>2 DEF Flat
    <3>3. CASE n # 0
      <4>1. n \in 1..m /\ n + 1 # 1 /\ n + 1 - 1 = n
        BY <2>1, <3>3
      <4>2. f[n] \in Seq(T) /\ f[n] # <<>>
        BY <4>1
      <4>3. f[n + 1] = f[n] \o ss[n + 1]
        <5>1. f[(n + 1) - 1] = f[n]
          BY <4>1
        <5> QED
          BY <3>1, <4>1, <5>1, Zenon DEF Flat
      <4>4. ss[n + 1] \in Seq(T)
        BY <3>1
      <4>5. f[n] \o ss[n + 1] \in Seq(T) \ {<<>>}
        BY ONLY <4>2, <4>4, JoinedIsLonger
      <4>6. f[n + 1] \in Seq(T) \ {<<>>}
        BY ONLY <4>3, <4>5, Zenon
      <4> QED
        BY <4>6
    <3> QED
      BY <3>2, <3>3
  <2> QED
    BY <2>1
<1>5. S \in SUBSET Nat
  OBVIOUS
<1> HIDE DEF S
<1>6. S = Nat
  BY <1>3, <1>4, <1>5, Induction
<1>7. m \in S
  BY <1>6
<1> QED
  BY <1>2, <1>7 DEF S

\* A call of evaluate_scenario with real settings.
LEMMA RealTest ==
  ASSUME NEW scenario \in Scenarios \ {"BWP", "JUST_TCP"}, NEW mvca \in {"TELEGRAM", "SIGNAL", "WHATSAPP"},
         NEW rtt \in Nat, NEW bw \in Nat \ {0}, NEW qdisc \in Queues, NEW cong \in {"cubic", "bbr", "bbr2"}
  PROVE  Test(scenario, mvca, rtt, bw, qdisc, cong) \in RealPlans
<1> DEFINE c == [scenario |-> scenario, mvca |-> mvca, rtt |-> rtt, bw |-> bw,
                 innerqdisc |-> qdisc, cong |-> cong]
<1>1. c \in RealWith(Scenarios \ {"BWP", "JUST_TCP"}, Nat \ {0}, {"cubic", "bbr", "bbr2"})
  BY DEF RealWith
<1>2. c \in Real
  BY <1>1, Zenon DEF Real
<1> HIDE DEF c
<1>3. <<c>> \in Seq(Real) \ {<<>>}
  BY <1>2
<1> QED
  BY <1>3, Zenon DEF Test, RealPlans, c

\* A fifo for 12105 bits or more has room for a packet.
LEMMA RealFifo ==
  ASSUME NEW s \in Nat, NEW rtt \in Nat, NEW bw \in Nat, s * rtt * bw >= 12105
  PROVE  Bfifo(s, rtt, bw) \in Queues
<1>1. s * rtt * bw + 7 \in Nat
  OBVIOUS
<1>2. (s * rtt * bw + 7) \div 8 \in Nat /\ (s * rtt * bw + 7) \div 8 >= 1514
  BY <1>1, SMTT(20)
<1> QED
  BY <1>2 DEF Bfifo, Queues

\* Loops over two and over three values.
LEMMA RealTwo == \A ss \in [1..2 -> RealPlans] : FlattenSeq(ss) \in RealPlans
<1>1. 2 \in Nat \ {0}
  OBVIOUS
<1> QED
  BY ONLY <1>1, FlatType DEF RealPlans

LEMMA RealThree == \A ss \in [1..3 -> RealPlans] : FlattenSeq(ss) \in RealPlans
<1>1. 3 \in Nat \ {0}
  OBVIOUS
<1> QED
  BY ONLY <1>1, FlatType DEF RealPlans

LEMMA EvalIsReal == Eval \in RealPlans
<1> DEFINE messengers(bw, cong, scenario, s) ==
             For(mvcas, LAMBDA mvca : Test(scenario, mvca, 50, bw, Bfifo(s, 50, bw), cong))
           buffers(bw, cong, scenario) ==
             For(<<10, 1>>, LAMBDA s : messengers(bw, cong, scenario, s))
           scenarios(bw, cong) ==
             For(<<"INCUMBENT_TCP", "INCUMBENT_CALL">>, LAMBDA scenario : buffers(bw, cong, scenario))
           congs(bw) == For(<<"bbr2", "bbr", "cubic">>, LAMBDA cong : scenarios(bw, cong))
<1>1. ASSUME NEW bw \in {300, 2000}, NEW cong \in {"bbr2", "bbr", "cubic"},
             NEW scenario \in {"INCUMBENT_TCP", "INCUMBENT_CALL"}, NEW s \in {10, 1}
      PROVE  messengers(bw, cong, scenario, s) \in RealPlans
  <2>a. Bfifo(s, 50, bw) \in Queues
    BY RealFifo
  <2>b. scenario \in Scenarios \ {"BWP", "JUST_TCP"}
    BY DEF Scenarios, Workload
  <2> DEFINE ss == [k \in DOMAIN mvcas |-> Test(scenario, mvcas[k], 50, bw, Bfifo(s, 50, bw), cong)]
  <2>1. ss \in [1..3 -> RealPlans]
    BY <2>a, <2>b, RealTest DEF mvcas
  <2>2. messengers(bw, cong, scenario, s) = FlattenSeq(ss)
    BY DEF For
  <2> HIDE DEF ss, messengers
  <2> QED
    BY <2>1, <2>2, RealThree
<1> HIDE DEF messengers
<1>2. ASSUME NEW bw \in {300, 2000}, NEW cong \in {"bbr2", "bbr", "cubic"},
             NEW scenario \in {"INCUMBENT_TCP", "INCUMBENT_CALL"}
      PROVE  buffers(bw, cong, scenario) \in RealPlans
  <2> DEFINE ss == [k \in DOMAIN <<10, 1>> |-> messengers(bw, cong, scenario, <<10, 1>>[k])]
  <2>1. ss \in [1..2 -> RealPlans]
    BY <1>1
  <2>2. buffers(bw, cong, scenario) = FlattenSeq(ss)
    BY DEF For
  <2> HIDE DEF ss, buffers
  <2> QED
    BY <2>1, <2>2, RealTwo
<1> HIDE DEF buffers
<1>3. ASSUME NEW bw \in {300, 2000}, NEW cong \in {"bbr2", "bbr", "cubic"}
      PROVE  scenarios(bw, cong) \in RealPlans
  <2> DEFINE ss == [k \in DOMAIN <<"INCUMBENT_TCP", "INCUMBENT_CALL">> |-> buffers(bw, cong, <<"INCUMBENT_TCP", "INCUMBENT_CALL">>[k])]
  <2>1. ss \in [1..2 -> RealPlans]
    BY <1>2
  <2>2. scenarios(bw, cong) = FlattenSeq(ss)
    BY DEF For
  <2> HIDE DEF ss, scenarios
  <2> QED
    BY <2>1, <2>2, RealTwo
<1> HIDE DEF scenarios
<1>4. ASSUME NEW bw \in {300, 2000}
      PROVE  congs(bw) \in RealPlans
  <2> DEFINE ss == [k \in DOMAIN <<"bbr2", "bbr", "cubic">> |-> scenarios(bw, <<"bbr2", "bbr", "cubic">>[k])]
  <2>1. ss \in [1..3 -> RealPlans]
    BY <1>3
  <2>2. congs(bw) = FlattenSeq(ss)
    BY DEF For
  <2> HIDE DEF ss, congs
  <2> QED
    BY <2>1, <2>2, RealThree
<1> HIDE DEF congs
<1> DEFINE ss == [k \in DOMAIN <<300, 2000>> |-> congs(<<300, 2000>>[k])]
<1>5. ss \in [1..2 -> RealPlans]
  BY <1>4
<1>6. Eval = FlattenSeq(ss)
  BY DEF Eval, For, congs, scenarios, buffers, messengers
<1> HIDE DEF ss
<1> QED
  BY <1>5, <1>6, RealTwo

\* A call of it with a profile of bandwidths, and any word for the congestion
\* control that such a call may have.
LEMMA RealProfile ==
  ASSUME NEW mvca \in {"TELEGRAM", "SIGNAL", "WHATSAPP"}, NEW bw \in Int, NEW qdisc \in Queues,
         NEW cong, RealWith({"BWP"}, Int, {cong}) \subseteq Real
  PROVE  Test("BWP", mvca, 50, bw, qdisc, cong) \in RealPlans
<1> DEFINE c == [scenario |-> "BWP", mvca |-> mvca, rtt |-> 50, bw |-> bw,
                 innerqdisc |-> qdisc, cong |-> cong]
<1>1. c \in RealWith({"BWP"}, Int, {cong})
  BY DEF RealWith
<1>2. c \in Real
  BY <1>1
<1>3. Test("BWP", mvca, 50, bw, qdisc, cong) = <<c>>
  BY DEF Test
<1> HIDE DEF c
<1>4. <<c>> \in Seq(Real) \ {<<>>}
  BY <1>2
<1> QED
  BY <1>3, <1>4 DEF RealPlans

LEMMA EvalBwpIsReal == EvalBwp \in RealPlans
<1>1. ASSUME NEW mvca \in {"TELEGRAM", "SIGNAL", "WHATSAPP"}
      PROVE  Test("BWP", mvca, 50, -3000, Bfifo(10, 50, 3000), "<nocong>") \in RealPlans
  <2>1. Bfifo(10, 50, 3000) \in Queues
    BY RealFifo
  <2>2. RealWith({"BWP"}, Int, {"<nocong>"}) \subseteq Real
    BY Zenon DEF Real
  <2> QED
    BY <2>1, <2>2, RealProfile
<1> DEFINE one(mvca) == Test("BWP", mvca, 50, -3000, Bfifo(10, 50, 3000), "<nocong>")
           ss == [k \in DOMAIN mvcas |-> one(mvcas[k])]
<1>2. EvalBwp = FlattenSeq(ss)
  BY Zenon DEF EvalBwp, For
<1>3. \A mvca \in {"TELEGRAM", "SIGNAL", "WHATSAPP"} : one(mvca) \in RealPlans
  BY <1>1, Zenon
<1> HIDE DEF one
<1>4. ss \in [1..3 -> RealPlans]
  BY <1>3 DEF mvcas
<1> HIDE DEF ss
<1> QED
  BY <1>2, <1>4, RealThree

LEMMA AqmsAreKnown == Codel \in Queues /\ FqCodel \in Queues
BY Zenon DEF Queues

LEMMA EvalFixebwIsReal == EvalFixebw \in RealPlans
<1> DEFINE qdiscs == <<Bfifo(2, 50, 5000)>> \o Aqms
           queues(mvca, cong) ==
             For(qdiscs, LAMBDA qdisc : Test("INCUMBENT_CALL", mvca, 50, 5000, qdisc, cong))
           messengers(cong) == For(mvcas, LAMBDA mvca : queues(mvca, cong))
<1>1. qdiscs \in [1..3 -> Queues]
  <2> DEFINE q == <<Bfifo(2, 50, 5000)>>
  <2>1. q \in Seq(Queues) /\ Len(q) = 1
    BY RealFifo
  <2>2. Aqms \in Seq(Queues) /\ Len(Aqms) = 2
    BY AqmsAreKnown DEF Aqms
  <2>3. qdiscs = q \o Aqms
    OBVIOUS
  <2> HIDE DEF q, qdiscs
  <2>4. qdiscs \in Seq(Queues) /\ Len(qdiscs) = 3
    BY <2>1, <2>2, <2>3, ConcatProperties
  <2> QED
    BY <2>4, LenProperties
<1> HIDE DEF qdiscs
<1>2. "INCUMBENT_CALL" \in Scenarios \ {"BWP", "JUST_TCP"}
  BY DEF Scenarios, Workload
<1>3. ASSUME NEW mvca \in {"TELEGRAM", "SIGNAL", "WHATSAPP"}, NEW cong \in {"cubic", "bbr", "bbr2"}
      PROVE  queues(mvca, cong) \in RealPlans
  <2> DEFINE ss == [k \in DOMAIN qdiscs |-> Test("INCUMBENT_CALL", mvca, 50, 5000, qdiscs[k], cong)]
  <2>1. ss \in [1..3 -> RealPlans]
    BY <1>1, <1>2, RealTest
  <2>2. queues(mvca, cong) = FlattenSeq(ss)
    BY DEF For
  <2> HIDE DEF ss, queues
  <2> QED
    BY <2>1, <2>2, RealThree
<1> HIDE DEF queues
<1>4. ASSUME NEW cong \in {"cubic", "bbr", "bbr2"}
      PROVE  messengers(cong) \in RealPlans
  <2> DEFINE ss == [k \in DOMAIN mvcas |-> queues(mvcas[k], cong)]
  <2>1. ss \in [1..3 -> RealPlans]
    BY <1>3 DEF mvcas
  <2>2. messengers(cong) = FlattenSeq(ss)
    BY DEF For
  <2> HIDE DEF ss, messengers
  <2> QED
    BY <2>1, <2>2, RealThree
<1> HIDE DEF messengers
<1> DEFINE ss == [k \in DOMAIN <<"cubic", "bbr", "bbr2">> |-> messengers(<<"cubic", "bbr", "bbr2">>[k])]
<1>5. ss \in [1..3 -> RealPlans]
  BY <1>4
<1>6. EvalFixebw = FlattenSeq(ss)
  BY DEF EvalFixebw, For, messengers, queues, qdiscs
<1> HIDE DEF ss
<1> QED
  BY <1>5, <1>6, RealThree

\* The messengers and their bandwidths.
LEMMA MessengerFacts ==
  ASSUME NEW n \in 1..3
  PROVE  mvcas[n] \in {"TELEGRAM", "SIGNAL", "WHATSAPP"} /\ bwdict[n] \in Nat /\ bwdict[n] >= 450
BY DEF mvcas, bwdict

LEMMA EvalIkespezialIsReal == EvalIkespezial \in RealPlans
<1>1. "INCUMBENT_CALL" \in Scenarios \ {"BWP", "JUST_TCP"}
  BY DEF Scenarios, Workload
<1>2. mvcas[1] \in {"TELEGRAM", "SIGNAL", "WHATSAPP"} /\ bwdict[1] \in Nat /\ bwdict[1] >= 450
  BY MessengerFacts
<1>3. Bfifo(10, 50, bwdict[1]) \in Queues
  BY <1>2, RealFifo
<1> QED
  BY <1>1, <1>2, <1>3, RealTest DEF EvalIkespezial

LEMMA EvalScreencaptureIsReal == EvalScreencapture \in RealPlans
<1> DEFINE messengers(bw) ==
             For(mvcas, LAMBDA mvca :
               Test("JUST_CALL_SCREENCAPTURE", mvca, 50, bw, Bfifo(2, 50, bw), "bbr"))
<1>1. "JUST_CALL_SCREENCAPTURE" \in Scenarios \ {"BWP", "JUST_TCP"}
  BY DEF Scenarios, Workload
<1>2. ASSUME NEW bw \in {300, 1000, 2000}
      PROVE  messengers(bw) \in RealPlans
  <2>1. Bfifo(2, 50, bw) \in Queues
    BY RealFifo
  <2> DEFINE ss == [k \in DOMAIN mvcas |->
                      Test("JUST_CALL_SCREENCAPTURE", mvcas[k], 50, bw, Bfifo(2, 50, bw), "bbr")]
  <2>2. ss \in [1..3 -> RealPlans]
    BY <1>1, <2>1, RealTest DEF mvcas
  <2>3. messengers(bw) = FlattenSeq(ss)
    BY DEF For
  <2> HIDE DEF ss, messengers
  <2> QED
    BY <2>2, <2>3, RealThree
<1> HIDE DEF messengers
<1> DEFINE ss == [k \in DOMAIN <<300, 1000, 2000>> |-> messengers(<<300, 1000, 2000>>[k])]
<1>3. ss \in [1..3 -> RealPlans]
  BY <1>2
<1>4. EvalScreencapture = FlattenSeq(ss)
  BY DEF EvalScreencapture, For, messengers
<1> HIDE DEF ss
<1> QED
  BY <1>3, <1>4, RealThree

LEMMA EvalScreencaptureCongestionIsReal == EvalScreencaptureCongestion \in RealPlans
<1> DEFINE fifos(scenario, cong) ==
             For(<<1, 2, 3>>, LAMBDA n :
               Test(scenario, mvcas[n], 50, bwdict[n], Bfifo(2, 50, bwdict[n]), cong))
           others(aqm, scenario, cong) ==
             For(<<1, 2, 3>>, LAMBDA n : Test(scenario, mvcas[n], 50, bwdict[n], aqm, cong))
           aqms(scenario, cong) == For(Aqms, LAMBDA aqm : others(aqm, scenario, cong))
           both(scenario, cong) == fifos(scenario, cong) \o aqms(scenario, cong)
           scenarios(cong) ==
             For(<<"INCUMBENT_TCP_SCREENCAPTURE", "INCUMBENT_CALL_SCREENCAPTURE">>,
                 LAMBDA scenario : both(scenario, cong))
<1>1. ASSUME NEW scenario \in {"INCUMBENT_TCP_SCREENCAPTURE", "INCUMBENT_CALL_SCREENCAPTURE"}
      PROVE  scenario \in Scenarios \ {"BWP", "JUST_TCP"}
  BY DEF Scenarios, Workload
<1>2. ASSUME NEW scenario \in {"INCUMBENT_TCP_SCREENCAPTURE", "INCUMBENT_CALL_SCREENCAPTURE"},
             NEW cong \in {"cubic", "bbr2"}
      PROVE  fifos(scenario, cong) \in RealPlans
  <2>1. ASSUME NEW n \in 1..3
        PROVE  Bfifo(2, 50, bwdict[n]) \in Queues
    BY MessengerFacts, RealFifo
  <2> DEFINE ss == [k \in DOMAIN <<1, 2, 3>> |->
                      Test(scenario, mvcas[<<1, 2, 3>>[k]], 50, bwdict[<<1, 2, 3>>[k]],
                           Bfifo(2, 50, bwdict[<<1, 2, 3>>[k]]), cong)]
  <2>2. ASSUME NEW n \in 1..3
        PROVE  Test(scenario, mvcas[n], 50, bwdict[n], Bfifo(2, 50, bwdict[n]), cong) \in RealPlans
    BY <1>1, <2>1, MessengerFacts, RealTest
  <2>3. ss \in [1..3 -> RealPlans]
    BY <2>2
  <2>4. fifos(scenario, cong) = FlattenSeq(ss)
    BY DEF For
  <2> HIDE DEF ss, fifos
  <2> QED
    BY <2>3, <2>4, RealThree
<1> HIDE DEF fifos
<1>3. ASSUME NEW scenario \in {"INCUMBENT_TCP_SCREENCAPTURE", "INCUMBENT_CALL_SCREENCAPTURE"},
             NEW cong \in {"cubic", "bbr2"}, NEW aqm \in {Codel, FqCodel}
      PROVE  others(aqm, scenario, cong) \in RealPlans
  <2> DEFINE ss == [k \in DOMAIN <<1, 2, 3>> |->
                      Test(scenario, mvcas[<<1, 2, 3>>[k]], 50, bwdict[<<1, 2, 3>>[k]], aqm, cong)]
  <2>1. aqm \in Queues
    BY AqmsAreKnown
  <2>2. ASSUME NEW n \in 1..3
        PROVE  Test(scenario, mvcas[n], 50, bwdict[n], aqm, cong) \in RealPlans
    BY <1>1, <2>1, MessengerFacts, RealTest
  <2>3. ss \in [1..3 -> RealPlans]
    BY <2>2
  <2>4. others(aqm, scenario, cong) = FlattenSeq(ss)
    BY DEF For
  <2> HIDE DEF ss, others
  <2> QED
    BY <2>3, <2>4, RealThree
<1> HIDE DEF others
<1>4. ASSUME NEW scenario \in {"INCUMBENT_TCP_SCREENCAPTURE", "INCUMBENT_CALL_SCREENCAPTURE"},
             NEW cong \in {"cubic", "bbr2"}
      PROVE  aqms(scenario, cong) \in RealPlans
  <2> DEFINE ss == [k \in DOMAIN Aqms |-> others(Aqms[k], scenario, cong)]
  <2>1. ss \in [1..2 -> RealPlans]
    BY <1>3 DEF Aqms
  <2>2. aqms(scenario, cong) = FlattenSeq(ss)
    BY DEF For
  <2> HIDE DEF ss, aqms
  <2> QED
    BY <2>1, <2>2, RealTwo
<1> HIDE DEF aqms
<1>5. ASSUME NEW scenario \in {"INCUMBENT_TCP_SCREENCAPTURE", "INCUMBENT_CALL_SCREENCAPTURE"},
             NEW cong \in {"cubic", "bbr2"}
      PROVE  both(scenario, cong) \in RealPlans
  BY <1>2, <1>4, JoinedIsLonger DEF RealPlans
<1> HIDE DEF both
<1>6. ASSUME NEW cong \in {"cubic", "bbr2"}
      PROVE  scenarios(cong) \in RealPlans
  <2> DEFINE names == <<"INCUMBENT_TCP_SCREENCAPTURE", "INCUMBENT_CALL_SCREENCAPTURE">>
             ss == [k \in DOMAIN names |-> both(names[k], cong)]
  <2>1. ss \in [1..2 -> RealPlans]
    BY <1>5
  <2>2. scenarios(cong) = FlattenSeq(ss)
    BY DEF For
  <2> HIDE DEF ss, scenarios
  <2> QED
    BY <2>1, <2>2, RealTwo
<1> HIDE DEF scenarios
<1> DEFINE ss == [k \in DOMAIN <<"cubic", "bbr2">> |-> scenarios(<<"cubic", "bbr2">>[k])]
<1>7. ss \in [1..2 -> RealPlans]
  BY <1>6
<1>8. EvalScreencaptureCongestion = FlattenSeq(ss)
  BY DEF EvalScreencaptureCongestion, For, scenarios, both, aqms, others, fifos
<1> HIDE DEF ss
<1> QED
  BY <1>7, <1>8, RealTwo

LEMMA EvalWohlfuehlbandbreitenIsReal == EvalWohlfuehlbandbreiten \in RealPlans
<1> DEFINE bandwidths(rtt) ==
             For(<<1000, 5000>>, LAMBDA bw :
               Test("JUST_CALL", mvcas[3], rtt, bw, Bfifo(10, rtt, bw), "bbr"))
<1>1. "JUST_CALL" \in Scenarios \ {"BWP", "JUST_TCP"}
  BY DEF Scenarios, Workload
<1>2. ASSUME NEW rtt \in {10, 200}
      PROVE  bandwidths(rtt) \in RealPlans
  <2> DEFINE ss == [k \in DOMAIN <<1000, 5000>> |->
                      Test("JUST_CALL", mvcas[3], rtt, <<1000, 5000>>[k],
                           Bfifo(10, rtt, <<1000, 5000>>[k]), "bbr")]
  <2>1. ASSUME NEW bw \in {1000, 5000}
        PROVE  Test("JUST_CALL", mvcas[3], rtt, bw, Bfifo(10, rtt, bw), "bbr") \in RealPlans
    <3>1. Bfifo(10, rtt, bw) \in Queues
      BY RealFifo
    <3>2. mvcas[3] \in {"TELEGRAM", "SIGNAL", "WHATSAPP"}
      BY MessengerFacts
    <3> QED
      BY <1>1, <3>1, <3>2, RealTest
  <2>2. ss \in [1..2 -> RealPlans]
    BY <2>1
  <2>3. bandwidths(rtt) = FlattenSeq(ss)
    BY DEF For
  <2> HIDE DEF ss, bandwidths
  <2> QED
    BY <2>2, <2>3, RealTwo
<1> HIDE DEF bandwidths
<1> DEFINE ss == [k \in DOMAIN <<10, 200>> |-> bandwidths(<<10, 200>>[k])]
<1>3. ss \in [1..2 -> RealPlans]
  BY <1>2
<1>4. EvalWohlfuehlbandbreiten = FlattenSeq(ss)
  BY DEF EvalWohlfuehlbandbreiten, For, bandwidths
<1> HIDE DEF ss
<1> QED
  BY <1>3, <1>4, RealTwo

LEMMA PlansAreReal ==
  ASSUME NEW p \in DOMAIN Plans
  PROVE  Plans[p] \in RealPlans
BY EvalIsReal, EvalBwpIsReal, EvalFixebwIsReal, EvalIkespezialIsReal, EvalScreencaptureIsReal,
   EvalScreencaptureCongestionIsReal, EvalWohlfuehlbandbreitenIsReal DEF Plans

\* A configuration that is real has a scenario that can be run.
LEMMA RealScenario ==
  ASSUME NEW c \in Real
  PROVE  c.scenario \in Scenarios \ {"JUST_TCP"}
<1>1. "BWP" \in Scenarios \ {"JUST_TCP"}
  BY DEF Scenarios, Workload
<1>2. ASSUME NEW S, NEW bws, NEW congs, c \in RealWith(S, bws, congs)
      PROVE  c.scenario \in S
  BY <1>2 DEF RealWith
<1> QED
  BY <1>1, <1>2, Zenon DEF Real

\* The plans as the outermost loop needs them.
LEMMA PlanFacts ==
  ASSUME NEW p \in DOMAIN Plans
  PROVE  /\ Len(Plans[p]) \in Nat \ {0} /\ DOMAIN Plans[p] = 1..Len(Plans[p])
         /\ \A k \in DOMAIN Plans[p] : Plans[p][k].scenario \in Scenarios \ {"JUST_TCP"}
         /\ \A j, k \in DOMAIN Plans[p] : Plans[p][j] = Plans[p][k] => j = k
<1> DEFINE plan == Plans[p]
<1>1. plan \in Seq(Real) /\ plan # <<>>
  BY PlansAreReal DEF RealPlans
<1>2. \A j, k \in DOMAIN plan : plan[j] = plan[k] => j = k
  BY PlansAssumption
<1> HIDE DEF plan
<1>3. Len(plan) \in Nat \ {0} /\ DOMAIN plan = 1..Len(plan)
  BY <1>1, EmptySeq, LenProperties
<1>4. \A k \in DOMAIN plan : plan[k] \in Real
  BY <1>1, <1>3, ElementOfSeq
<1>5. \A k \in DOMAIN plan : plan[k].scenario \in Scenarios \ {"JUST_TCP"}
  BY <1>4, RealScenario
<1> QED
  BY <1>2, <1>3, <1>5 DEF plan

\* A configuration that is real gives values that are known.
LEMMA RealSettings ==
  ASSUME NEW c \in Real
  PROVE  /\ c.innerqdisc.name \in {"bfifo", "codel", "fq_codel"}
         /\ Limit(c) = {} <=> c.innerqdisc.name # "bfifo"
         /\ \A limit \in Limit(c) : limit >= 1514
         /\ Rate(c) > 0
         /\ Cong(c) \in {"none", "cubic", "bbr", "bbr2"}
<1>1. ASSUME NEW S, NEW bws, NEW congs, c \in RealWith(S, bws, congs)
      PROVE  c.innerqdisc \in Queues /\ c.scenario \in S /\ c.bw \in bws /\ c.cong \in congs
  BY <1>1 DEF RealWith
<1> DEFINE usual == RealWith(Scenarios \ {"BWP", "JUST_TCP"}, Nat \ {0}, {"cubic", "bbr", "bbr2"})
<1>2. \/ c \in usual
      \/ c.scenario = "BWP" /\ c.innerqdisc \in Queues
  <2>1. ASSUME NEW congs, c \in RealWith({"BWP"}, Int, congs)
        PROVE  c.scenario = "BWP" /\ c.innerqdisc \in Queues
    BY <1>1, <2>1
  <2> QED
    BY <2>1, Zenon DEF Real
<1>3. c \in usual => /\ c.innerqdisc \in Queues /\ c.scenario # "BWP" /\ c.bw \in Nat \ {0}
                     /\ c.cong \in {"cubic", "bbr", "bbr2"}
  BY <1>1
<1> HIDE DEF usual
<1>4. c.innerqdisc \in Queues
  BY <1>2, <1>3
<1>5. /\ c.innerqdisc.name \in {"bfifo", "codel", "fq_codel"}
      /\ c.innerqdisc.name = "bfifo" => c.innerqdisc.len \in Nat /\ c.innerqdisc.len >= 1514
  BY <1>4 DEF Queues, Codel, FqCodel
<1>6. Rate(c) > 0
  BY <1>2, <1>3 DEF Rate
<1>7. Cong(c) \in {"none", "cubic", "bbr", "bbr2"}
  BY <1>2, <1>3 DEF Cong, WithTcp
<1> QED
  BY <1>5, <1>6, <1>7 DEF Limit

\* Multiples are as far apart as their factors.
LEMMA Multiples ==
  ASSUME NEW L \in Nat \ {0}, NEW a \in Nat, NEW b \in Nat, a <= b
  PROVE  L * a \in Nat /\ L * b \in Nat /\ L * a <= L * b /\ (a < b => L * a + L <= L * b)
<1>1. L * a \in Nat /\ L * b \in Nat
  OBVIOUS
<1>2. L * b = L * a + L * (b - a) /\ L * (b - a) \in Nat
  OBVIOUS
<1>3. ASSUME a < b
      PROVE  L * (b - a) >= L
  <2>1. L * (b - a) = L * (b - a - 1) + L /\ L * (b - a - 1) \in Nat
    BY <1>3
  <2> QED
    BY <2>1
<1> QED
  BY <1>1, <1>2, <1>3

\* Of the first n numbers, as many have the remainder that belongs to a place k
\* as any other, or one less.
LEMMA CountOfPlace ==
  ASSUME NEW L \in Nat \ {0}, NEW n \in Nat, NEW k \in 1..L
  PROVE  Cardinality({j \in 1..n : ((j - 1) % L) + 1 = k}) - n \div L \in {0, 1}
<1> DEFINE S == {j \in 1..n : ((j - 1) % L) + 1 = k}
<1>1. PICK q \in Nat, r \in 0..(L - 1) : n = L * q + r /\ n \div L = q
  BY DivMod
<1> DEFINE m == IF k <= r THEN q + 1 ELSE q
           f == [i \in 1..m |-> L * (i - 1) + k]
<1>2. m \in Nat
  OBVIOUS
<1>3. ASSUME NEW i \in 1..m
      PROVE  /\ f[i] \in S /\ i - 1 \in Nat
             /\ (f[i] - 1) \div L = i - 1
  <2>1. i - 1 \in Nat /\ k - 1 \in 0..(L - 1) /\ L * (i - 1) \in Nat /\ L * q \in Nat
    BY <1>2
  <2>2. f[i] - 1 = L * (i - 1) + (k - 1) /\ f[i] \in Nat /\ f[i] >= 1
    BY <2>1
  <2>3. (f[i] - 1) \div L = i - 1 /\ (f[i] - 1) % L = k - 1
    <3>1. (L * (i - 1) + (k - 1)) \div L = i - 1 /\ (L * (i - 1) + (k - 1)) % L = k - 1
      BY ONLY <2>1, DivModUnique, L \in Nat \ {0}
    <3> HIDE DEF f
    <3> QED
      BY ONLY <2>2, <3>1
  <2>4. f[i] <= n
    <3>1. CASE k <= r
      <4>1. L * (i - 1) <= L * q
        BY <2>1, <3>1, Multiples
      <4> QED
        BY <1>1, <2>1, <3>1, <4>1
    <3>2. CASE ~(k <= r)
      <4>1. i - 1 < q
        BY <2>1, <3>2
      <4>2. L * (i - 1) + L <= L * q
        BY <2>1, <4>1, Multiples
      <4> QED
        BY <1>1, <2>1, <4>2
    <3> QED
      BY <3>1, <3>2
  <2> QED
    BY <2>1, <2>2, <2>3, <2>4
<1>4. ASSUME NEW j \in S
      PROVE  \E i \in 1..m : f[i] = j
  <2>1. j - 1 \in Nat /\ (j - 1) % L = k - 1 /\ j <= n
    OBVIOUS
  <2>2. PICK a \in Nat, b \in 0..(L - 1) : j - 1 = L * a + b /\ b = k - 1
    <3> DEFINE j0 == j - 1
    <3>1. j0 \in Nat /\ j0 % L = k - 1
      BY <2>1
    <3>2. j0 = j - 1
      OBVIOUS
    <3> HIDE DEF j0
    <3>3. PICK a \in Nat, b \in 0..(L - 1) : j0 = L * a + b /\ j0 \div L = a /\ j0 % L = b
      BY ONLY <3>1, DivMod, L \in Nat \ {0}
    <3> QED
      BY ONLY <3>1, <3>2, <3>3
  <2>3. L * a \in Nat /\ L * q \in Nat
    OBVIOUS
  <2>4. a <= q
    <3>1. ASSUME a > q PROVE FALSE
      <4>1. L * q + L <= L * a
        BY <3>1, Multiples
      <4> QED
        BY <1>1, <2>1, <2>2, <2>3, <4>1
    <3> QED
      BY <3>1
  <2>5. a = q => k <= r
    BY <1>1, <2>1, <2>2, <2>3
  <2>6. a + 1 \in 1..m
    BY <2>4, <2>5
  <2>7. f[a + 1] = j
    BY <2>2, <2>3, <2>6
  <2> QED
    BY <2>6, <2>7
<1>5. f \in Bijection(1..m, S)
  <2>1. f \in [1..m -> S]
    BY <1>3
  <2>2. \A i, j \in 1..m : f[i] = f[j] => i = j
    <3> SUFFICES ASSUME NEW i \in 1..m, NEW j \in 1..m, f[i] = f[j] PROVE i = j
      OBVIOUS
    <3>1. i - 1 = j - 1 /\ i \in Nat /\ j \in Nat
      <4> HIDE DEF f, S
      <4>1. (f[i] - 1) \div L = i - 1 /\ (f[j] - 1) \div L = j - 1
        BY <1>3
      <4> QED
        BY <1>2, <4>1
    <3> QED
      BY <3>1
  <2>3. \A j \in S : \E i \in 1..m : f[i] = j
    BY <1>4
  <2> HIDE DEF f, S, m
  <2> QED
    BY <2>1, <2>2, <2>3 DEF Bijection, Injection, Surjection, IsInjective
<1>6. IsFiniteSet(1..m) /\ Cardinality(1..m) = m
  BY <1>2, FS_Interval
<1>7. Cardinality(S) = m
  <2> HIDE DEF f, S, m
  <2>1. ExistsBijection(1..m, S)
    BY <1>5 DEF ExistsBijection
  <2> QED
    BY <1>6, <2>1, FS_Bijection
<1>8. m - q \in {0, 1}
  OBVIOUS
<1> HIDE DEF S
<1> QED
  BY <1>1, <1>7, <1>8 DEF S

-----------------------------------------------------------------------------
(* The plans.                                                                *)

\* How far a study is: at one of the runs of its program, in the configuration
\* of that run.
PlanInv ==
  /\ program \in DOMAIN Plans
  /\ begun \in 0..PlanLength(program)
  /\ \E k \in DOMAIN Plans[program] : config = Plans[program][k]
  /\ step \in Nat

LEMMA PlanStep == PlanInv /\ [Next]_vars => PlanInv'
<1> SUFFICES ASSUME PlanInv, [Next]_vars PROVE PlanInv'
  OBVIOUS
<1>1. CASE Begin
  <2>1. /\ program' = program /\ begun' = begun + 1 /\ begun < PlanLength(program)
        /\ config' = Planned(program, begun + 1) /\ step' = 1
    BY <1>1 DEF Begin
  <2>2. PlanLength(program) \in Nat
    BY PlanFacts, ItersAssumption DEF PlanInv, PlanLength
  <2>3. config' = Plans[program][((begun + 1 - 1) % Len(Plans[program])) + 1]
    <3>1. Planned(program, begun + 1) = Plans[program][((begun + 1 - 1) % Len(Plans[program])) + 1]
      <4>1. begun \in Nat /\ Len(Plans[program]) \in Nat \ {0}
        BY PlanFacts, <2>2 DEF PlanInv
      <4> QED
        BY <4>1 DEF Planned
    <3> QED
      BY <2>1, <3>1
  <2>4. ((begun + 1 - 1) % Len(Plans[program])) + 1 \in DOMAIN Plans[program]
    <3> DEFINE L == Len(Plans[program])
    <3>1. L \in Nat \ {0} /\ DOMAIN Plans[program] = 1..L
      BY PlanFacts DEF PlanInv
    <3>2. begun + 1 - 1 = begun /\ begun \in Nat
      BY <2>2 DEF PlanInv
    <3> HIDE DEF L
    <3>3. begun % L \in 0..(L - 1)
      BY <3>1, <3>2, DivMod
    <3>4. ((begun + 1 - 1) % L) + 1 \in 1..L
      BY <3>1, <3>2, <3>3
    <3> QED
      BY <3>1, <3>4 DEF L
  <2> QED
    BY <2>1, <2>2, <2>3, <2>4 DEF PlanInv
<1>2. CASE Fail
  BY <1>2 DEF Fail, PlanInv
<1>3. CASE Make \/ SetupTcp \/ Wait \/ Capture \/ KillTcp \/ EndCall
  <2>1. step' = step + 1 /\ UNCHANGED <<program, begun, config>>
    BY <1>3 DEF Make, SetupTcp, Wait, Capture, KillTcp, EndCall, Idle, Lasts
  <2> QED
    BY <2>1 DEF PlanInv
<1>4. CASE Evaluate
  BY <1>4 DEF Evaluate, PlanInv
<1>5. CASE UNCHANGED vars
  BY <1>5 DEF vars, PlanInv
<1> QED
  BY <1>1, <1>2, <1>3, <1>4, <1>5 DEF Next

LEMMA PlanInit == Init => PlanInv
BY PlanFacts, ProgramsAssumption, ItersAssumption DEF Init, PlanInv, PlanLength

\* In every run of every program the router gets a queue that is known, which
\* holds a packet if it has a limit, and a rate, and the generator a congestion
\* control that is one (the loops of eval*.py, and what scenarios.py makes of
\* their TestConfig): for any number of iterations.
THEOREM SettingsStayReal == Spec => []SettingsAreReal
<1>1. PlanInv => SettingsAreReal
  <2> SUFFICES ASSUME PlanInv
               PROVE  SettingsAreReal
    OBVIOUS
  <2>1. PICK k \in DOMAIN Plans[program] : config = Plans[program][k]
    BY DEF PlanInv
  <2>2. Plans[program] \in Seq(Real)
    BY PlansAreReal DEF PlanInv, RealPlans
  <2>3. config \in Real
    BY <2>1, <2>2, LenProperties, ElementOfSeq
  <2> QED
    BY <2>3, RealSettings DEF SettingsAreReal
<1> QED
  BY <1>1, PlanInit, PlanStep, PTL DEF Spec

\* Whatever run a study ends with, each configuration of its plan has been run
\* as often as any other, or once less, for any number of iterations and any plan
\* that has no configuration twice (the outermost loop of eval*.py).
THEOREM StudiesStayBalanced == Spec => []Balanced
<1>1. PlanInv => Balanced
  <2> SUFFICES ASSUME PlanInv, NEW k \in DOMAIN Plans[program]
               PROVE  Cardinality({j \in 1..begun : Planned(program, j) = Plans[program][k]})
                        - begun \div Len(Plans[program]) \in {0, 1}
    BY DEF Balanced
  <2> DEFINE plan == Plans[program]
             L == Len(plan)
  <2>1. /\ L \in Nat \ {0} /\ DOMAIN plan = 1..L
        /\ \A i, j \in 1..L : plan[i] = plan[j] => i = j
    BY PlanFacts DEF PlanInv
  <2>2. begun \in Nat
    BY <2>1, ItersAssumption DEF PlanInv, PlanLength
  <2>3. \A j \in 1..begun : Planned(program, j) = plan[((j - 1) % L) + 1]
    BY DEF Planned
  <2> HIDE DEF plan, L
  <2>4. ASSUME NEW j \in 1..begun
        PROVE  Planned(program, j) = plan[k] <=> ((j - 1) % L) + 1 = k
    <3>1. j - 1 \in Nat
      BY <2>2
    <3>2. (j - 1) % L \in 0..(L - 1)
      <4> DEFINE n == j - 1
      <4> HIDE DEF n
      <4>1. n % L \in 0..(L - 1)
        BY <2>1, <3>1, DivMod DEF n
      <4> QED
        BY <4>1 DEF n
    <3>3. ((j - 1) % L) + 1 \in 1..L
      BY <2>1, <3>2
    <3>4. k \in 1..L
      BY <2>1 DEF plan
    <3> QED
      BY <2>1, <2>3, <3>3, <3>4
  <2>5. {j \in 1..begun : Planned(program, j) = plan[k]} = {j \in 1..begun : ((j - 1) % L) + 1 = k}
    BY <2>4
  <2>6. Cardinality({j \in 1..begun : ((j - 1) % L) + 1 = k}) - begun \div L \in {0, 1}
    <3>1. k \in 1..L
      BY <2>1 DEF plan
    <3> QED
      BY <2>1, <2>2, <3>1, CountOfPlace
  <2>7. Cardinality({j \in 1..begun : Planned(program, j) = plan[k]}) - begun \div L \in {0, 1}
    BY <2>5, <2>6
  <2> QED
    BY <2>7 DEF plan, L
<1> QED
  BY <1>1, PlanInit, PlanStep, PTL DEF Spec


-----------------------------------------------------------------------------
(* What a run does, step by step.                                            *)

WaitFor(scenario) == IF scenario = "BWP" THEN "profile" ELSE "wait"

\* Whether a run of a scenario that is at a step, or at the end, is past another.
Past(scenario, p, s) == \E k \in 1..(p - 1) : Workload[scenario][k] = s
Place == IF step = 0 THEN Len(Steps) + 1 ELSE step
Did(s) == Past(config.scenario, Place, s)
Waited == Did(WaitFor(config.scenario))

\* What is past when a step is taken.
OrderFacts(scenario, p) ==
  LET doing(s) == Workload[scenario][p] = s
      past(s) == Past(scenario, p, s)
  IN
  /\ (\E k \in 1..(p - 1) : /\ Workload[scenario][k] = "setupTCP"
                           /\ \A j \in k..(p - 1) : Workload[scenario][j] # "killTCP")
       <=> past("setupTCP") /\ ~past("killTCP")
  /\ doing("make") => /\ ~past("make") /\ ~past(WaitFor(scenario)) /\ ~past("killTCP") /\ ~past("end")
                      /\ past("setupTCP") <=> scenario \in TcpFirst
  /\ doing("setupTCP") => /\ ~past("setupTCP") /\ ~past(WaitFor(scenario)) /\ ~past("killTCP") /\ ~past("end")
                          /\ scenario \in WithTcp /\ (past("make") <=> scenario \notin TcpFirst)
  /\ doing("wait") \/ doing("profile") =>
       /\ doing(WaitFor(scenario))
       /\ past("make") /\ (past("setupTCP") <=> scenario \in WithTcp)
       /\ ~past(WaitFor(scenario)) /\ ~past("killTCP") /\ ~past("end")
  /\ doing("capture") =>
       /\ past("make") /\ (past("setupTCP") <=> scenario \in WithTcp)
       /\ past(WaitFor(scenario)) /\ ~past("killTCP") /\ ~past("end")
  /\ doing("killTCP") =>
       /\ past("make") /\ past("setupTCP") /\ scenario \in WithTcp
       /\ past(WaitFor(scenario)) /\ ~past("killTCP") /\ ~past("end")
  /\ doing("end") =>
       /\ past("make") /\ (past("setupTCP") <=> scenario \in WithTcp)
       /\ past(WaitFor(scenario)) /\ (past("killTCP") <=> scenario \in WithTcp) /\ ~past("end")

\* The steps of a workload come in this order, whatever the scenario.
LEMMA Order ==
  ASSUME NEW scenario \in Scenarios \ {"JUST_TCP"}, NEW p \in 1..Len(Workload[scenario])
  PROVE  OrderFacts(scenario, p)
<1>1. CASE scenario = "BWP"
  <2>1. Workload[scenario] = <<"make", "profile", "end">>
    BY <1>1 DEF Workload
  <2> QED
    BY <1>1, <2>1 DEF OrderFacts, Past, WaitFor, WithTcp, TcpFirst
<1>2. CASE scenario = "INCUMBENT_TCP"
  <2>1. Workload[scenario] = <<"setupTCP", "make", "wait", "killTCP", "end">>
    BY <1>2 DEF Workload
  <2> QED
    BY <1>2, <2>1 DEF OrderFacts, Past, WaitFor, WithTcp, TcpFirst
<1>3. CASE scenario = "INCUMBENT_CALL"
  <2>1. Workload[scenario] = <<"make", "setupTCP", "wait", "killTCP", "end">>
    BY <1>3 DEF Workload
  <2> QED
    BY <1>3, <2>1 DEF OrderFacts, Past, WaitFor, WithTcp, TcpFirst
<1>4. CASE scenario = "JUST_CALL"
  <2>1. Workload[scenario] = <<"make", "wait", "end">>
    BY <1>4 DEF Workload
  <2> QED
    BY <1>4, <2>1 DEF OrderFacts, Past, WaitFor, WithTcp, TcpFirst
<1>5. CASE scenario = "JUST_CALL_SCREENCAPTURE"
  <2>1. Workload[scenario] = <<"make", "wait", "capture", "end">>
    BY <1>5 DEF Workload
  <2> QED
    BY <1>5, <2>1 DEF OrderFacts, Past, WaitFor, WithTcp, TcpFirst
<1>6. CASE scenario = "INCUMBENT_TCP_SCREENCAPTURE"
  <2>1. Workload[scenario] = <<"setupTCP", "make", "wait", "capture", "killTCP", "end">>
    BY <1>6 DEF Workload
  <2> QED
    BY <1>6, <2>1 DEF OrderFacts, Past, WaitFor, WithTcp, TcpFirst
<1>7. CASE scenario = "INCUMBENT_CALL_SCREENCAPTURE"
  <2>1. Workload[scenario] = <<"make", "setupTCP", "wait", "capture", "killTCP", "end">>
    BY <1>7 DEF Workload
  <2> QED
    BY <1>7, <2>1 DEF OrderFacts, Past, WaitFor, WithTcp, TcpFirst
<1> QED
  BY <1>1, <1>2, <1>3, <1>4, <1>5, <1>6, <1>7 DEF Scenarios, Workload

\* At its end a run has done everything.
LEMMA OrderAtEnd ==
  ASSUME NEW scenario \in Scenarios \ {"JUST_TCP"}
  PROVE  LET past(s) == Past(scenario, Len(Workload[scenario]) + 1, s)
         IN  /\ past("make") /\ past(WaitFor(scenario)) /\ past("end")
             /\ past("setupTCP") <=> scenario \in WithTcp
             /\ past("killTCP") <=> scenario \in WithTcp
<1>1. CASE scenario = "BWP"
  <2>1. Workload[scenario] = <<"make", "profile", "end">>
    BY <1>1 DEF Workload
  <2> QED
    BY <1>1, <2>1 DEF Past, WaitFor, WithTcp
<1>2. CASE scenario = "INCUMBENT_TCP"
  <2>1. Workload[scenario] = <<"setupTCP", "make", "wait", "killTCP", "end">>
    BY <1>2 DEF Workload
  <2> QED
    BY <1>2, <2>1 DEF Past, WaitFor, WithTcp
<1>3. CASE scenario = "INCUMBENT_CALL"
  <2>1. Workload[scenario] = <<"make", "setupTCP", "wait", "killTCP", "end">>
    BY <1>3 DEF Workload
  <2> QED
    BY <1>3, <2>1 DEF Past, WaitFor, WithTcp
<1>4. CASE scenario = "JUST_CALL"
  <2>1. Workload[scenario] = <<"make", "wait", "end">>
    BY <1>4 DEF Workload
  <2> QED
    BY <1>4, <2>1 DEF Past, WaitFor, WithTcp
<1>5. CASE scenario = "JUST_CALL_SCREENCAPTURE"
  <2>1. Workload[scenario] = <<"make", "wait", "capture", "end">>
    BY <1>5 DEF Workload
  <2> QED
    BY <1>5, <2>1 DEF Past, WaitFor, WithTcp
<1>6. CASE scenario = "INCUMBENT_TCP_SCREENCAPTURE"
  <2>1. Workload[scenario] = <<"setupTCP", "make", "wait", "capture", "killTCP", "end">>
    BY <1>6 DEF Workload
  <2> QED
    BY <1>6, <2>1 DEF Past, WaitFor, WithTcp
<1>7. CASE scenario = "INCUMBENT_CALL_SCREENCAPTURE"
  <2>1. Workload[scenario] = <<"make", "setupTCP", "wait", "capture", "killTCP", "end">>
    BY <1>7 DEF Workload
  <2> QED
    BY <1>7, <2>1 DEF Past, WaitFor, WithTcp
<1> QED
  BY <1>1, <1>2, <1>3, <1>4, <1>5, <1>6, <1>7 DEF Scenarios, Workload

LEMMA PastNext ==
  ASSUME NEW scenario, NEW p \in Nat \ {0}, NEW s
  PROVE  Past(scenario, p + 1, s) <=> Past(scenario, p, s) \/ Workload[scenario][p] = s
BY DEF Past

\* The workload of the configuration of a run.
LEMMA ConfigFacts ==
  ASSUME PlanInv
  PROVE  /\ config.scenario \in Scenarios \ {"JUST_TCP"} /\ Steps = Workload[config.scenario]
         /\ Len(Steps) \in Nat \ {0} /\ DOMAIN Steps = 1..Len(Steps)
<1>1. config.scenario \in Scenarios \ {"JUST_TCP"}
  BY PlanFacts DEF PlanInv
<1> QED
  BY <1>1 DEF Steps, Scenarios, Workload

-----------------------------------------------------------------------------
(* What a step adds to the flows.                                            *)

TypeInv ==
  /\ PlanInv
  /\ step \in 0..(Len(Steps) + 1)
  /\ call \in Flows /\ tcp \in Seq({0, 25}) /\ Len(call) = Len(tcp)
  /\ retried \in BOOLEAN /\ broke \in 0..Len(call)

\* Flows of one value.
LEMMA FlowIs ==
  ASSUME NEW k \in Nat, NEW x \in {0, 25}
  PROVE  /\ Flow(k, x) \in Flows /\ Flow(k, x) \in Seq({0, 25}) /\ Len(Flow(k, x)) = k
         /\ \A u \in 1..k : Flow(k, x)[u] = x
BY DEF Flow, Flows

\* What concatenation does, element by element.
LEMMA Joined ==
  ASSUME NEW S, NEW a \in Seq(S), NEW b \in Seq(S)
  PROVE  /\ a \o b \in Seq(S) /\ Len(a \o b) = Len(a) + Len(b)
         /\ Len(a) \in Nat /\ Len(b) \in Nat
         /\ \A u \in 1..Len(a) : (a \o b)[u] = a[u]
         /\ \A u \in 1..Len(b) : (a \o b)[Len(a) + u] = b[u]
<1>1. /\ a \o b \in Seq(S) /\ Len(a \o b) = Len(a) + Len(b)
      /\ Len(a) \in Nat /\ Len(b) \in Nat
  OBVIOUS
<1>2. \A u \in 1..Len(a) : (a \o b)[u] = a[u]
  OBVIOUS
<1>3. \A u \in 1..Len(b) : (a \o b)[Len(a) + u] = b[u]
  OBVIOUS
<1> QED
  BY <1>1, <1>2, <1>3

\* A step of n intervals, in each of which the TCP flow sends x packets.
Grown(n, x) ==
  /\ n \in Nat /\ call' \in Flows /\ tcp' \in Seq({0, 25})
  /\ Len(call') = Len(call) + n /\ Len(tcp') = Len(tcp) + n
  /\ \A u \in 1..Len(call) : call'[u] = call[u]
  /\ \A u \in 1..Len(tcp) : tcp'[u] = tcp[u]
  /\ Span(tcp', Len(tcp) + 1, Len(tcp) + n, x)
  /\ step' = step + 1 /\ UNCHANGED <<program, begun, config, row>>
Added(calls) == \A u \in 1..Len(calls) : call'[Len(call) + u] = calls[u]

LEMMA JoinedFlows ==
  ASSUME NEW a \in Flows, NEW b \in Flows
  PROVE  /\ a \o b \in Flows /\ Len(a \o b) = Len(a) + Len(b)
         /\ Len(a) \in Nat /\ Len(b) \in Nat
         /\ \A u \in 1..Len(a) : (a \o b)[u] = a[u]
         /\ \A u \in 1..Len(b) : (a \o b)[Len(a) + u] = b[u]
BY Joined DEF Flows

\* What Lasts does to the flows.
LEMMA GrownBy ==
  ASSUME TypeInv, NEW calls \in Flows, NEW x \in {0, 25},
         call' = call \o calls, tcp' = tcp \o Flow(Len(calls), x), step' = step + 1,
         UNCHANGED <<program, begun, config, row>>
  PROVE  Grown(Len(calls), x) /\ Added(calls)
<1>1. /\ call' \in Flows /\ Len(call') = Len(call) + Len(calls) /\ Len(calls) \in Nat
      /\ \A u \in 1..Len(call) : call'[u] = call[u]
      /\ \A u \in 1..Len(calls) : call'[Len(call) + u] = calls[u]
  <2> DEFINE both == call \o calls
  <2>1. call \in Seq(0..25) /\ calls \in Seq(0..25) /\ call' = both
    BY DEF TypeInv, Flows
  <2>2. /\ both \in Seq(0..25) /\ Len(both) = Len(call) + Len(calls) /\ Len(calls) \in Nat
        /\ \A u \in 1..Len(call) : both[u] = call[u]
        /\ \A u \in 1..Len(calls) : both[Len(call) + u] = calls[u]
    BY <2>1, Joined
  <2> HIDE DEF both
  <2> QED
    BY <2>1, <2>2 DEF Flows
<1> DEFINE packets == Flow(Len(calls), x)
<1>2. packets \in Seq({0, 25}) /\ Len(packets) = Len(calls) /\ \A u \in 1..Len(calls) : packets[u] = x
  BY <1>1, FlowIs
<1> HIDE DEF packets
<1>3. tcp' = tcp \o packets
  BY DEF packets
<1>4. /\ tcp' \in Seq({0, 25}) /\ Len(tcp') = Len(tcp) + Len(calls) /\ Len(tcp) \in Nat
      /\ \A u \in 1..Len(tcp) : tcp'[u] = tcp[u]
      /\ \A u \in 1..Len(calls) : tcp'[Len(tcp) + u] = packets[u]
  <2> DEFINE both == tcp \o packets
             S == {0, 25}
  <2>1. tcp \in Seq(S) /\ tcp' = both /\ packets \in Seq(S)
    BY <1>2, <1>3 DEF TypeInv
  <2> HIDE DEF S
  <2>2. /\ both \in Seq(S) /\ Len(both) = Len(tcp) + Len(packets) /\ Len(tcp) \in Nat
        /\ \A u \in 1..Len(tcp) : both[u] = tcp[u]
        /\ \A u \in 1..Len(packets) : both[Len(tcp) + u] = packets[u]
    BY <2>1, Joined
  <2> HIDE DEF both
  <2> QED
    BY <1>2, <2>1, <2>2 DEF S
<1>5. Span(tcp', Len(tcp) + 1, Len(tcp) + Len(calls), x)
  <2> SUFFICES ASSUME NEW u \in (Len(tcp) + 1)..(Len(tcp) + Len(calls)) PROVE tcp'[u] = x
    BY DEF Span
  <2> DEFINE v == u - Len(tcp)
  <2>1. v \in 1..Len(calls) /\ Len(tcp) + v = u
    BY <1>1, <1>4
  <2> HIDE DEF v
  <2>2. tcp'[Len(tcp) + v] = packets[v] /\ packets[v] = x
    BY <1>2, <1>4, <2>1
  <2> QED
    BY <2>1, <2>2
<1> QED
  BY <1>1, <1>4, <1>5 DEF Grown, Added


LEMMA SteadyStep ==
  ASSUME TypeInv, NEW k \in Nat, NEW y \in {0, 25}, NEW x \in {0, 25},
         call' = call \o Flow(k, y), tcp' = tcp \o Flow(k, x), step' = step + 1,
         UNCHANGED <<program, begun, config, row>>
  PROVE  Grown(k, x) /\ Span(call', Len(call) + 1, Len(call) + k, y)
<1> DEFINE calls == Flow(k, y)
<1>1. calls \in Flows /\ Len(calls) = k /\ \A u \in 1..k : calls[u] = y
  BY FlowIs
<1>2. call' = call \o calls /\ tcp' = tcp \o Flow(Len(calls), x)
  BY <1>1
<1> HIDE DEF calls
<1>3. Grown(k, x) /\ Added(calls)
  BY <1>1, <1>2, GrownBy
<1>4. ASSUME NEW u \in (Len(call) + 1)..(Len(call) + k)
      PROVE  call'[u] = y
  <2> DEFINE v == u - Len(call)
  <2>1. Len(call) \in Nat
    BY FlowFacts DEF TypeInv
  <2>2. v \in 1..k /\ Len(call) + v = u
    BY <2>1
  <2> HIDE DEF v
  <2>3. call'[Len(call) + v] = y
    BY <1>1, <1>3, <2>2 DEF Added
  <2> QED
    BY <2>2, <2>3
<1> QED
  BY <1>3, <1>4 DEF Span

\* The packets of an attempt that works.
LEMMA RingsAre ==
  ASSUME NEW s \in 1..7
  PROVE  /\ Rings(s) \in Flows /\ Len(Rings(s)) = 7
         /\ \A u \in 1..7 : Rings(s)[u] = IF u < s THEN 0 ELSE 25
<1> DEFINE a == Flow(s - 1, 0)
           b == Flow(8 - s, 25)
<1>1. /\ a \in Flows /\ Len(a) = s - 1 /\ \A u \in 1..(s - 1) : a[u] = 0
  <2>1. s - 1 \in Nat
    OBVIOUS
  <2> QED
    BY <2>1, FlowIs
<1>2. /\ b \in Flows /\ Len(b) = 8 - s /\ \A u \in 1..(8 - s) : b[u] = 25
  <2>1. 8 - s \in Nat
    OBVIOUS
  <2> QED
    BY <2>1, FlowIs
<1>3. Rings(s) = a \o b
  BY DEF Rings, Attempt, Full, TicksPerInterval
<1> HIDE DEF a, b
<1>4. /\ a \o b \in Flows /\ Len(a \o b) = Len(a) + Len(b)
      /\ \A u \in 1..Len(a) : (a \o b)[u] = a[u]
      /\ \A u \in 1..Len(b) : (a \o b)[Len(a) + u] = b[u]
  BY <1>1, <1>2, JoinedFlows
<1>5. ASSUME NEW u \in 1..7
      PROVE  (a \o b)[u] = IF u < s THEN 0 ELSE 25
  <2>1. CASE u < s
    BY <1>1, <1>4, <2>1
  <2>2. CASE ~(u < s)
    <3> DEFINE v == u - (s - 1)
    <3>1. v \in 1..(8 - s) /\ (s - 1) + v = u
      BY <2>2
    <3> HIDE DEF v
    <3>2. (a \o b)[(s - 1) + v] = 25
      BY <1>1, <1>2, <1>4, <3>1
    <3> QED
      BY <2>2, <3>1, <3>2
  <2> QED
    BY <2>1, <2>2
<1>6. Len(a \o b) = 7
  BY <1>1, <1>2, <1>4
<1> QED
  BY <1>3, <1>4, <1>5, <1>6, Zenon

\* The packets of two attempts.
LEMMA TwoCalls ==
  ASSUME NEW first \in Flows, Len(first) = 7, NEW s \in 1..7
  PROVE  LET calls == first \o Flow(3, 0) \o Rings(s)
         IN  /\ calls \in Flows /\ Len(calls) = 17
             /\ \A u \in 1..7 : calls[u] = first[u]
             /\ \A u \in 8..(9 + s) : calls[u] = 0
             /\ \A u \in (10 + s)..17 : calls[u] = 25
<1> DEFINE a == Flow(3, 0)
           b == Rings(s)
           head == first \o a
           calls == head \o b
<1>1. first \in Flows
  OBVIOUS
<1>2. /\ a \in Flows /\ Len(a) = 3 /\ \A u \in 1..3 : a[u] = 0
  BY FlowIs
<1>3. /\ b \in Flows /\ Len(b) = 7 /\ \A u \in 1..7 : b[u] = IF u < s THEN 0 ELSE 25
  BY RingsAre
<1> HIDE DEF a, b
<1>4. /\ head \in Flows /\ Len(head) = 10
      /\ \A u \in 1..7 : head[u] = first[u]
      /\ \A u \in 1..3 : head[7 + u] = a[u]
  <2>1. /\ head \in Flows /\ Len(head) = Len(first) + Len(a)
        /\ \A u \in 1..Len(first) : head[u] = first[u]
        /\ \A u \in 1..Len(a) : head[Len(first) + u] = a[u]
    BY <1>1, <1>2, JoinedFlows
  <2> HIDE DEF head
  <2> QED
    BY <1>2, <2>1
<1> HIDE DEF head
<1>5. /\ calls \in Flows /\ Len(calls) = 17
      /\ \A u \in 1..10 : calls[u] = head[u]
      /\ \A u \in 1..7 : calls[10 + u] = b[u]
  <2>1. /\ calls \in Flows /\ Len(calls) = Len(head) + Len(b)
        /\ \A u \in 1..Len(head) : calls[u] = head[u]
        /\ \A u \in 1..Len(b) : calls[Len(head) + u] = b[u]
    <3>1. head \in Flows /\ b \in Flows
      BY <1>3, <1>4
    <3> QED
      BY ONLY <3>1, JoinedFlows
  <2> HIDE DEF calls
  <2> QED
    BY <1>3, <1>4, <2>1
<1> HIDE DEF calls
<1>6. \A u \in 1..7 : calls[u] = first[u]
  BY <1>4, <1>5
<1>7. ASSUME NEW u \in 8..17
      PROVE  calls[u] = IF u < 10 + s THEN 0 ELSE 25
  <2>1. CASE u \in 8..10
    <3> DEFINE v == u - 7
    <3>1. v \in 1..3 /\ 7 + v = u /\ 7 + v \in 1..10
      BY <2>1
    <3> HIDE DEF v
    <3>2. calls[7 + v] = head[7 + v] /\ head[7 + v] = a[v] /\ a[v] = 0
      BY <1>2, <1>4, <1>5, <3>1
    <3> QED
      BY <2>1, <3>1, <3>2
  <2>2. CASE u \in 11..17
    <3> DEFINE v == u - 10
    <3>1. v \in 1..7 /\ 10 + v = u
      BY <2>2
    <3> HIDE DEF v
    <3>2. calls[10 + v] = IF v < s THEN 0 ELSE 25
      BY <1>3, <1>5, <3>1
    <3> QED
      BY <3>1, <3>2
  <2> QED
    BY <2>1, <2>2
<1>8. /\ \A u \in 8..(9 + s) : calls[u] = 0
      /\ \A u \in (10 + s)..17 : calls[u] = 25
  BY <1>7
<1> QED
  BY <1>5, <1>6, <1>8, Zenon DEF calls, head, a, b

\* The packets that TcpFlows means.
Tcp == IF TcpFlows THEN 25 ELSE 0

\* What establish_call adds: an attempt that works, or two of which it is the second.
LEMMA MakeAdds ==
  ASSUME TypeInv, Make
  PROVE  \E n, g, s \in Nat :
           /\ Grown(n, Tcp) /\ Doing("make")
           /\ Len(call) < g /\ g <= s /\ s <= Len(call) + n
           /\ Span(call', Len(call) + 1, g - 1, 0) /\ call'[g] = 25
           /\ Span(call', s, Len(call) + n, 25)
           /\ g < s => retried'
           /\ retried' \in BOOLEAN /\ broke' = broke
<1> DEFINE L == Len(call)
<1>1. L \in Nat /\ retried \in BOOLEAN /\ Tcp \in {0, 25}
  BY FlowFacts DEF TypeInv, Tcp
<1>2. PICK s \in Answers :
         \/ Lasts(Rings(s)) /\ UNCHANGED retried
         \/ /\ \E first \in {Unanswered} \cup {Rings(r) : r \in Answers} :
                 Lasts(first \o Flow(3, 0) \o Rings(s))
            /\ retried' = TRUE
  BY DEF Make
<1>3. s \in 1..7 /\ broke' = broke /\ Doing("make")
  BY AnswersAssumption DEF Make, Attempt
<1>4. ASSUME NEW calls \in Flows, Lasts(calls)
      PROVE  Grown(Len(calls), Tcp) /\ Added(calls)
  BY <1>1, <1>4, GrownBy DEF Lasts, Tcp, Full, TicksPerInterval
<1>5. CASE Lasts(Rings(s)) /\ UNCHANGED retried
  <2>1. Grown(7, Tcp) /\ \A u \in 1..7 : call'[L + u] = IF u < s THEN 0 ELSE 25
    <3> DEFINE calls == Rings(s)
    <3>1. calls \in Flows /\ Len(calls) = 7 /\ \A u \in 1..7 : calls[u] = IF u < s THEN 0 ELSE 25
      BY <1>3, RingsAre
    <3>2. Lasts(calls)
      BY <1>5
    <3> HIDE DEF calls
    <3>3. Grown(Len(calls), Tcp) /\ Added(calls)
      BY <1>4, <3>1, <3>2, Zenon
    <3> QED
      BY <3>1, <3>3, Zenon DEF Added
  <2>2. ASSUME NEW u \in (L + 1)..(L + 7)
        PROVE  call'[u] = IF u < L + s THEN 0 ELSE 25
    <3> DEFINE v == u - L
    <3>1. v \in 1..7 /\ L + v = u
      BY <1>1
    <3> HIDE DEF v
    <3>2. call'[L + v] = IF v < s THEN 0 ELSE 25
      BY <2>1, <3>1
    <3> QED
      BY <1>1, <1>3, <3>1, <3>2
  <2> DEFINE g == L + s
  <2>3. /\ g \in Nat /\ L < g /\ g <= L + 7
        /\ Span(call', L + 1, g - 1, 0) /\ call'[g] = 25 /\ Span(call', g, L + 7, 25)
    BY <1>1, <1>3, <2>2 DEF Span
  <2> HIDE DEF g
  <2> QED
    BY <1>1, <1>3, <1>5, <2>1, <2>3
<1>6. CASE /\ \E first \in {Unanswered} \cup {Rings(r) : r \in Answers} :
                Lasts(first \o Flow(3, 0) \o Rings(s))
           /\ retried' = TRUE
  <2>1. PICK first \in {Unanswered} \cup {Rings(r) : r \in Answers} :
               Lasts(first \o Flow(3, 0) \o Rings(s))
    BY <1>6
  <2>2. /\ first \in Flows /\ Len(first) = 7
        /\ \E r \in 1..8 : \A u \in 1..7 : first[u] = IF u < r THEN 0 ELSE 25
    <3>1. CASE first = Unanswered
      <4>1. first \in Flows /\ Len(first) = 7 /\ \A u \in 1..7 : first[u] = 0
        BY <3>1, FlowIs DEF Unanswered, Attempt
      <4> QED
        BY <4>1
    <3>2. ASSUME NEW r \in Answers, first = Rings(r)
          PROVE  /\ first \in Flows /\ Len(first) = 7 /\ r \in 1..8
                 /\ \A u \in 1..7 : first[u] = IF u < r THEN 0 ELSE 25
      BY <3>2, RingsAre, AnswersAssumption DEF Attempt
    <3> QED
      BY <2>1, <3>1, <3>2
  <2>3. PICK r \in 1..8 : \A u \in 1..7 : first[u] = IF u < r THEN 0 ELSE 25
    BY <2>2
  <2> DEFINE calls == first \o Flow(3, 0) \o Rings(s)
  <2>4. /\ calls \in Flows /\ Len(calls) = 17
        /\ \A u \in 1..7 : calls[u] = first[u]
        /\ \A u \in 8..(9 + s) : calls[u] = 0
        /\ \A u \in (10 + s)..17 : calls[u] = 25
    BY <1>3, <2>2, TwoCalls
  <2>5. Lasts(calls)
    BY <2>1
  <2> HIDE DEF calls
  <2>6. Grown(17, Tcp) /\ \A u \in 1..17 : call'[L + u] = calls[u]
    <3>1. Grown(Len(calls), Tcp) /\ Added(calls)
      BY <1>4, <2>4, <2>5, Zenon
    <3> QED
      BY <2>4, <3>1, Zenon DEF Added
  <2>7. ASSUME NEW u \in (L + 1)..(L + 17)
        PROVE  /\ u < L + r /\ u < L + 10 + s => call'[u] = 0
               /\ L + r <= u /\ u < L + 8 => call'[u] = 25
               /\ L + 8 <= u /\ u < L + 10 + s => call'[u] = 0
               /\ L + 10 + s <= u => call'[u] = 25
    <3> DEFINE v == u - L
    <3>1. v \in 1..17 /\ L + v = u
      BY <1>1
    <3> HIDE DEF v
    <3>2. call'[L + v] = calls[v]
      BY <2>6, <3>1
    <3>3. /\ v < r /\ v < 10 + s => calls[v] = 0
          /\ r <= v /\ v < 8 => calls[v] = 25
          /\ 8 <= v /\ v < 10 + s => calls[v] = 0
          /\ 10 + s <= v => calls[v] = 25
      BY <1>3, <2>3, <2>4, <3>1
    <3> HIDE DEF L
    <3> QED
      BY <1>1, <1>3, <3>1, <3>2, <3>3
  <2> DEFINE t == L + 10 + s
             g == IF r = 8 THEN t ELSE L + r
  <2>8. /\ g \in Nat /\ t \in Nat /\ L < g /\ g <= t /\ t <= L + 17
        /\ Span(call', L + 1, g - 1, 0) /\ call'[g] = 25 /\ Span(call', t, L + 17, 25)
    <3> HIDE DEF L
    <3>1. g \in Nat /\ t \in Nat /\ L < g /\ g <= t /\ t <= L + 17
      BY <1>1, <1>3
    <3>2. Span(call', t, L + 17, 25)
      BY <1>1, <1>3, <2>7 DEF Span
    <3>3. call'[g] = 25
      <4>1. CASE r = 8
        BY <1>1, <1>3, <2>7, <4>1
      <4>2. CASE r # 8
        BY <1>1, <1>3, <2>7, <4>2
      <4> QED
        BY <4>1, <4>2
    <3>4. Span(call', L + 1, g - 1, 0)
      <4> SUFFICES ASSUME NEW u \in (L + 1)..(g - 1) PROVE call'[u] = 0
        BY DEF Span
      <4>1. u \in (L + 1)..(L + 17)
        BY <1>1, <3>1
      <4>2. CASE r = 8
        BY <1>1, <1>3, <2>7, <4>1, <4>2
      <4>3. CASE r # 8
        BY <1>1, <1>3, <2>7, <4>1, <4>3
      <4> QED
        BY <4>2, <4>3
    <3> QED
      BY <3>1, <3>2, <3>3, <3>4
  <2> HIDE DEF g, t
  <2> QED
    BY <1>3, <1>6, <2>6, <2>8
<1> QED
  BY <1>2, <1>5, <1>6

\* The packets of a call that is broken.
Strayed(flow, a) == \E z \in Nat : \A u \in a..Len(flow) : flow[u] = 0 \/ (u = z /\ flow[u] = 9)


\* The packets that Talk means.
Talking == IF broke = 0 THEN 25 ELSE 0

\* What a wait adds: the call goes on, or breaks and leaves a few packets.
LEMMA WaitAdds ==
  ASSUME TypeInv, Wait
  PROVE  \E n \in Nat :
           /\ 36 <= n /\ Grown(n, Tcp) /\ retried' = retried
           /\ Doing("wait") \/ Doing("profile")
           /\ \/ broke' = broke /\ Span(call', Len(call) + 1, Len(call) + n, Talking)
              \/ \E b \in 1..(n - 1) :
                   /\ broke' = Len(call) + b + 1
                   /\ Span(call', Len(call) + 1, Len(call) + b, 25)
                   /\ Strayed(call', Len(call) + b + 1)
<1> DEFINE L == Len(call)
<1>1. L \in Nat /\ Tcp \in {0, 25} /\ Talking \in {0, 25}
  BY FlowFacts DEF TypeInv, Tcp, Talking
<1>2. PICK n \in Nat : Idle(n) /\ 36 <= n
  BY DEF Wait
<1>3. retried' = retried /\ (Doing("wait") \/ Doing("profile"))
  BY DEF Wait
<1>4. CASE Lasts(Talk(n)) /\ UNCHANGED broke
  <2>1. /\ call' = call \o Flow(n, Talking) /\ step' = step + 1
        /\ UNCHANGED <<program, begun, config, row>>
        /\ tcp' = tcp \o Flow(Len(Flow(n, Talking)), Tcp)
    BY <1>4 DEF Lasts, Talk, Talking, Full, TicksPerInterval, Tcp
  <2>2. Len(Flow(n, Talking)) = n
    BY <1>1, <1>2, FlowIs
  <2>3. Grown(n, Tcp) /\ Span(call', L + 1, L + n, Talking)
    BY <1>1, <1>2, <2>1, <2>2, SteadyStep
  <2> QED
    BY <1>2, <1>3, <1>4, <2>3
<1>5. ASSUME NEW b \in Breaks, NEW stray \in Strays, b < n,
             Lasts([u \in 1..n |-> IF u <= b THEN Full ELSE IF u = stray THEN 9 ELSE 0]),
             broke' = Len(call) + b + 1
      PROVE  /\ 36 <= n /\ Grown(n, Tcp) /\ b \in 1..(n - 1)
             /\ Span(call', L + 1, L + b, 25) /\ Strayed(call', L + b + 1)
  <2> DEFINE calls == [u \in 1..n |-> IF u <= b THEN 25 ELSE IF u = stray THEN 9 ELSE 0]
  <2>1. /\ calls \in Flows /\ Len(calls) = n /\ b \in 1..(n - 1) /\ stray \in Nat
        /\ \A u \in 1..n : calls[u] = IF u <= b THEN 25 ELSE IF u = stray THEN 9 ELSE 0
    BY <1>2, <1>5, BreaksAssumption DEF Flows
  <2>2. /\ call' = call \o calls /\ step' = step + 1 /\ UNCHANGED <<program, begun, config, row>>
        /\ tcp' = tcp \o Flow(Len(calls), Tcp)
    BY <1>5 DEF Lasts, Full, TicksPerInterval, Tcp
  <2> HIDE DEF calls
  <2>3. Grown(n, Tcp) /\ \A u \in 1..n : call'[L + u] = calls[u]
    BY <1>1, <2>1, <2>2, GrownBy DEF Added
  <2>4. Len(call') = L + n
    BY <2>3 DEF Grown
  <2>5. ASSUME NEW u \in (L + 1)..(L + n)
        PROVE  call'[u] = IF u <= L + b THEN 25 ELSE IF u = L + stray THEN 9 ELSE 0
    <3> DEFINE v == u - L
    <3>1. v \in 1..n /\ L + v = u
      BY <1>1
    <3> HIDE DEF v
    <3>2. call'[L + v] = IF v <= b THEN 25 ELSE IF v = stray THEN 9 ELSE 0
      BY <2>1, <2>3, <3>1
    <3> HIDE DEF L
    <3> QED
      BY <1>1, <2>1, <3>1, <3>2
  <2>6. Span(call', L + 1, L + b, 25)
    BY <1>1, <1>2, <2>1, <2>5 DEF Span
  <2>7. Strayed(call', L + b + 1)
    <3> DEFINE z == L + stray
    <3>1. z \in Nat
      BY <1>1, <2>1
    <3>2. ASSUME NEW u \in (L + b + 1)..Len(call')
          PROVE  call'[u] = 0 \/ (u = z /\ call'[u] = 9)
      <4>1. u \in (L + 1)..(L + n) /\ ~(u <= L + b)
        BY <1>1, <2>1, <2>4
      <4> QED
        BY <2>5, <4>1
    <3> HIDE DEF z
    <3> QED
      BY <3>1, <3>2 DEF Strayed
  <2> QED
    BY <1>2, <2>1, <2>3, <2>6, <2>7
<1>6. CASE \E b \in Breaks, stray \in Strays :
             /\ b < n
             /\ Lasts([u \in 1..n |-> IF u <= b THEN Full ELSE IF u = stray THEN 9 ELSE 0])
             /\ broke' = Len(call) + b + 1
  <2>1. PICK b \in Breaks, stray \in Strays :
             /\ b < n
             /\ Lasts([u \in 1..n |-> IF u <= b THEN Full ELSE IF u = stray THEN 9 ELSE 0])
             /\ broke' = Len(call) + b + 1
    BY <1>6
  <2>2. /\ 36 <= n /\ Grown(n, Tcp) /\ b \in 1..(n - 1)
        /\ Span(call', L + 1, L + b, 25) /\ Strayed(call', L + b + 1)
    BY <1>5, <2>1
  <2> QED
    BY <1>2, <1>3, <2>1, <2>2
<1> QED
  BY <1>2, <1>4, <1>6 DEF Idle

\* What the other steps add.
LEMMA OthersAdd ==
  ASSUME TypeInv, SetupTcp \/ Capture \/ KillTcp \/ EndCall
  PROVE  /\ retried' = retried /\ broke' = broke
         /\ SetupTcp => /\ Doing("setupTCP") /\ Grown(2, 25)
                        /\ Span(call', Len(call) + 1, Len(call) + 2,
                                IF call = <<>> THEN 0 ELSE Talking)
         /\ Capture => /\ Doing("capture") /\ Grown(3, Tcp)
                       /\ Span(call', Len(call) + 1, Len(call) + 3, Talking)
         /\ KillTcp => /\ Doing("killTCP") /\ Grown(1, 0)
                       /\ Span(call', Len(call) + 1, Len(call) + 1, Talking)
         /\ EndCall => /\ Doing("end") /\ Grown(4, Tcp)
                       /\ Span(call', Len(call) + 1, Len(call) + 4, 0)
<1>1. Tcp \in {0, 25} /\ Talking \in {0, 25}
  BY DEF Tcp, Talking
<1>2. retried' = retried /\ broke' = broke
  BY DEF SetupTcp, Capture, KillTcp, EndCall
<1>3. ASSUME SetupTcp
      PROVE  /\ Doing("setupTCP") /\ Grown(2, 25)
             /\ Span(call', Len(call) + 1, Len(call) + 2, IF call = <<>> THEN 0 ELSE Talking)
  <2> DEFINE y == IF call = <<>> THEN 0 ELSE Talking
  <2>1. /\ Doing("setupTCP") /\ y \in {0, 25} /\ step' = step + 1
        /\ call' = call \o Flow(2, y) /\ tcp' = tcp \o Flow(2, 25)
        /\ UNCHANGED <<program, begun, config, row>>
    BY <1>1, <1>3 DEF SetupTcp, Talk, Talking, Full, TicksPerInterval
  <2> HIDE DEF y
  <2>2. Grown(2, 25) /\ Span(call', Len(call) + 1, Len(call) + 2, y)
    BY <2>1, SteadyStep
  <2> QED
    BY <2>1, <2>2 DEF y
<1>4. ASSUME Capture
      PROVE  /\ Doing("capture") /\ Grown(3, Tcp)
             /\ Span(call', Len(call) + 1, Len(call) + 3, Talking)
  <2>1. /\ Doing("capture") /\ step' = step + 1
        /\ call' = call \o Flow(3, Talking) /\ tcp' = tcp \o Flow(Len(Flow(3, Talking)), Tcp)
        /\ UNCHANGED <<program, begun, config, row>>
    BY <1>4 DEF Capture, Lasts, Talk, Talking, Full, TicksPerInterval, Tcp
  <2>2. Len(Flow(3, Talking)) = 3
    BY <1>1, FlowIs
  <2> QED
    BY <1>1, <2>1, <2>2, SteadyStep
<1>5. ASSUME KillTcp
      PROVE  /\ Doing("killTCP") /\ Grown(1, 0)
             /\ Span(call', Len(call) + 1, Len(call) + 1, Talking)
  <2>1. /\ Doing("killTCP") /\ step' = step + 1
        /\ call' = call \o Flow(1, Talking) /\ tcp' = Append(tcp, 0)
        /\ UNCHANGED <<program, begun, config, row>>
    BY <1>5 DEF KillTcp, Talk, Talking, Full, TicksPerInterval
  <2>2. Append(tcp, 0) = tcp \o Flow(1, 0)
    <3>1. Flow(1, 0) = <<0>>
      BY DEF Flow
    <3>2. tcp \in Seq({0, 25})
      BY DEF TypeInv
    <3> QED
      BY <3>1, <3>2, AppendIsConcat
  <2> QED
    BY <1>1, <2>1, <2>2, SteadyStep
<1>6. ASSUME EndCall
      PROVE  /\ Doing("end") /\ Grown(4, Tcp)
             /\ Span(call', Len(call) + 1, Len(call) + 4, 0)
  <2>1. /\ Doing("end") /\ step' = step + 1
        /\ call' = call \o Flow(4, 0) /\ tcp' = tcp \o Flow(Len(Flow(4, 0)), Tcp)
        /\ UNCHANGED <<program, begun, config, row>>
    BY <1>6 DEF EndCall, Lasts, Full, TicksPerInterval, Tcp
  <2>2. Len(Flow(4, 0)) = 4
    BY FlowIs
  <2> QED
    BY <1>1, <2>1, <2>2, SteadyStep
<1> QED
  BY <1>2, <1>3, <1>4, <1>5, <1>6

\* Every step keeps the types.
LEMMA TypeStep == TypeInv /\ [Next]_vars => TypeInv'
<1> SUFFICES ASSUME TypeInv, [Next]_vars PROVE TypeInv'
  OBVIOUS
<1>1. PlanInv /\ PlanInv'
  BY PlanStep DEF TypeInv
<1>2. Len(Steps) \in Nat \ {0} /\ DOMAIN Steps = 1..Len(Steps) /\ Len(Steps') \in Nat \ {0}
  <2>1. PlanInv' => Len(Steps') \in Nat \ {0}
    <3>1. PlanInv' => config'.scenario \in Scenarios \ {"JUST_TCP"}
      BY PlanFacts DEF PlanInv
    <3> QED
      BY <3>1 DEF Steps, Scenarios, Workload
  <2> QED
    BY <1>1, <2>1, ConfigFacts
<1>3. <<>> \in Flows /\ <<>> \in Seq({0, 25}) /\ Len(<<>>) = 0
  BY DEF Flows
<1>4. CASE Begin
  <2>1. step' = 1 /\ call' = <<>> /\ tcp' = <<>> /\ retried' = FALSE /\ broke' = 0
    BY <1>4 DEF Begin
  <2>2. step' \in 0..(Len(Steps') + 1) /\ Len(call') = 0
    BY <1>2, <1>3, <2>1
  <2>3. call' \in Flows /\ tcp' \in Seq({0, 25}) /\ Len(call') = Len(tcp')
    BY <1>3, <2>1
  <2>4. retried' \in BOOLEAN /\ broke' \in 0..Len(call')
    <3>1. 0 \in 0..0
      OBVIOUS
    <3> QED
      BY <2>1, <2>2, <3>1
  <2> QED
    BY <1>1, <2>2, <2>3, <2>4 DEF TypeInv
<1>5. CASE Fail
  <2>1. step' = 0 /\ call' = <<>> /\ tcp' = <<>> /\ retried' = FALSE /\ broke' = 0
    BY <1>5 DEF Fail
  <2>2. step' \in 0..(Len(Steps') + 1) /\ Len(call') = 0
    BY <1>2, <1>3, <2>1
  <2>3. call' \in Flows /\ tcp' \in Seq({0, 25}) /\ Len(call') = Len(tcp')
    BY <1>3, <2>1
  <2>4. retried' \in BOOLEAN /\ broke' \in 0..Len(call')
    <3>1. 0 \in 0..0
      OBVIOUS
    <3> QED
      BY <2>1, <2>2, <3>1
  <2> QED
    BY <1>1, <2>2, <2>3, <2>4 DEF TypeInv
<1>6. CASE Make \/ SetupTcp \/ Wait \/ Capture \/ KillTcp \/ EndCall
  <2>1. \E n \in Nat, x \in {0, 25} : \E s : Grown(n, x) /\ Doing(s)
    <3>1. Tcp \in {0, 25}
      BY DEF Tcp
    <3>2. CASE Make
      BY <3>1, <3>2, MakeAdds
    <3>3. CASE Wait
      BY <3>1, <3>3, WaitAdds
    <3>4. CASE SetupTcp \/ Capture \/ KillTcp \/ EndCall
      BY <3>1, <3>4, OthersAdd
    <3> QED
      BY <1>6, <3>2, <3>3, <3>4
  <2>2. PICK n \in Nat, x \in {0, 25} : \E s : Grown(n, x) /\ Doing(s)
    BY <2>1
  <2>3. /\ call' \in Flows /\ tcp' \in Seq({0, 25}) /\ Len(call') = Len(call) + n
        /\ Len(tcp') = Len(tcp) + n /\ step' = step + 1 /\ config' = config
    BY <2>2 DEF Grown
  <2>4. Len(call) \in Nat /\ Len(call) = Len(tcp)
    BY FlowFacts DEF TypeInv
  <2>5. step \in 1..Len(Steps) /\ Steps' = Steps
    BY <1>2, <2>2, <2>3 DEF Doing, Steps
  <2>6. retried' \in BOOLEAN /\ broke' \in 0..Len(call')
    <3>1. CASE Make
      BY <2>3, <2>4, <3>1, MakeAdds DEF TypeInv
    <3>2. CASE Wait
      <4>1. PICK m \in Nat :
              /\ 36 <= m /\ Grown(m, Tcp) /\ retried' = retried
              /\ broke' = broke \/ \E b \in 1..(m - 1) : broke' = Len(call) + b + 1
        BY <3>2, WaitAdds
      <4>2. Len(call') = Len(call) + m
        BY <4>1 DEF Grown
      <4>3. Len(call) \in Nat /\ retried \in BOOLEAN /\ broke \in 0..Len(call)
        BY <2>4 DEF TypeInv
      <4>4. broke' \in 0..(Len(call) + m)
        <5>1. CASE broke' = broke
          BY <4>1, <4>3, <5>1
        <5>2. ASSUME NEW b \in 1..(m - 1), broke' = Len(call) + b + 1
              PROVE  broke' \in 0..(Len(call) + m)
          BY <4>1, <4>3, <5>2
        <5> QED
          BY <4>1, <5>1, <5>2
      <4> QED
        BY <4>1, <4>2, <4>3, <4>4
    <3>3. CASE SetupTcp \/ Capture \/ KillTcp \/ EndCall
      BY <2>3, <2>4, <3>3, OthersAdd DEF TypeInv
    <3> QED
      BY <1>6, <3>1, <3>2, <3>3
  <2> QED
    BY <1>1, <1>2, <2>3, <2>4, <2>5, <2>6 DEF TypeInv
<1>7. CASE Evaluate
  <2>1. /\ UNCHANGED <<program, begun, config, call, tcp, retried, broke>> /\ step' = 0
        /\ Steps' = Steps
    BY <1>7 DEF Evaluate, Steps
  <2> QED
    BY <1>1, <1>2, <2>1 DEF TypeInv
<1>8. CASE UNCHANGED vars
  <2>1. Steps' = Steps
    BY <1>8 DEF vars, Steps
  <2> QED
    BY <1>1, <1>8, <2>1 DEF TypeInv, vars
<1> QED
  BY <1>4, <1>5, <1>6, <1>7, <1>8 DEF Next


-----------------------------------------------------------------------------
(* The shape of the flows.                                                   *)

\* The first packets come in the interval g; from s to e the call flows.
CallShape(g, s, e) ==
  /\ g \in 1..s /\ s <= e /\ e <= Len(call)
  /\ Span(call, 1, g - 1, 0) /\ call[g] = 25 /\ Span(call, s, e, 25)
  /\ g < s => retried
  /\ broke = 0 => Span(call, e + 1, Len(call), 0) /\ (Did("end") \/ e = Len(call))
  /\ broke # 0 => Waited /\ broke = e + 1 /\ Strayed(call, broke)
  /\ Waited => s < e /\ (broke = 0 => s + 36 <= e)

\* The TCP flow goes from t to k.
TcpShape(s, e, t, k) ==
  /\ t \in 1..k /\ k <= Len(tcp)
  /\ Span(tcp, 1, t - 1, 0) /\ Span(tcp, t, k, 25) /\ Span(tcp, k + 1, Len(tcp), 0)
  /\ Did("killTCP") \/ k = Len(tcp)
  /\ IF config.scenario \in TcpFirst THEN t = 1 ELSE s < t
  /\ Waited => s + 36 <= k /\ t + 36 <= k /\ (broke = 0 => t + 36 <= e)

NotYetCalled ==
  /\ Span(call, 1, Len(call), 0) /\ broke = 0 /\ ~retried
  /\ IF Did("setupTCP") THEN Len(tcp) # 0 /\ Span(tcp, 1, Len(tcp), 25) ELSE call = <<>>

Shape ==
  /\ ~Did("make") => NotYetCalled
  /\ Did("make") => \E s, e \in Nat :
       /\ \E g \in Nat : CallShape(g, s, e)
       /\ Did("setupTCP") => \E t, k \in Nat : TcpShape(s, e, t, k)
  /\ ~Did("setupTCP") => Span(tcp, 1, Len(tcp), 0)

RowInv ==
  row # None =>
    step = 0 /\ \E dequeued \in Dequeued : row = Row(config.scenario, dequeued, tcp, call, tcp)

ShapeInv == step > 0 \/ row # None => Shape

\* What was done before the step that comes next.
LEMMA OrderHere ==
  ASSUME TypeInv, step \in DOMAIN Steps
  PROVE  LET tcpToo == Did("setupTCP") <=> config.scenario \in WithTcp
         IN
         /\ TcpFlows <=> Did("setupTCP") /\ ~Did("killTCP")
         /\ Doing("make") =>
              /\ ~Did("make") /\ ~Waited /\ ~Did("killTCP") /\ ~Did("end")
              /\ Did("setupTCP") <=> config.scenario \in TcpFirst
         /\ Doing("setupTCP") =>
              /\ ~Did("setupTCP") /\ ~Waited /\ ~Did("killTCP") /\ ~Did("end")
              /\ config.scenario \in WithTcp /\ (Did("make") <=> config.scenario \notin TcpFirst)
         /\ Doing("wait") \/ Doing("profile") =>
              /\ Doing(WaitFor(config.scenario)) /\ Did("make") /\ tcpToo
              /\ ~Waited /\ ~Did("killTCP") /\ ~Did("end")
         /\ Doing("capture") =>
              Did("make") /\ tcpToo /\ Waited /\ ~Did("killTCP") /\ ~Did("end")
         /\ Doing("killTCP") =>
              Did("make") /\ Did("setupTCP") /\ Waited /\ ~Did("killTCP") /\ ~Did("end")
         /\ Doing("end") =>
              Did("make") /\ tcpToo /\ Waited /\ (Did("killTCP") <=> Did("setupTCP")) /\ ~Did("end")
<1>1. /\ config.scenario \in Scenarios \ {"JUST_TCP"} /\ Steps = Workload[config.scenario]
      /\ step \in 1..Len(Steps)
  BY ConfigFacts DEF TypeInv
<1>2. OrderFacts(config.scenario, step)
  BY <1>1, Order
<1>3. Place = step
  BY <1>1 DEF Place
<1>4. \A w : Did(w) <=> Past(config.scenario, step, w)
  BY <1>3 DEF Did
<1>5. \A w : Doing(w) <=> Workload[config.scenario][step] = w
  BY <1>1 DEF Doing
<1>6. TcpFlows <=> \E k \in 1..(step - 1) :
                      /\ Workload[config.scenario][k] = "setupTCP"
                      /\ \A j \in k..(step - 1) : Workload[config.scenario][j] # "killTCP"
  BY <1>1 DEF TcpFlows
<1> QED
  BY <1>2, <1>4, <1>5, <1>6 DEF OrderFacts, Waited

\* What has been done after a step.
LEMMA DidNext ==
  ASSUME TypeInv, NEW s, Doing(s), step' = step + 1, config' = config
  PROVE  /\ \A w : Did(w)' <=> Did(w) \/ w = s
         /\ Waited' <=> Waited \/ s = WaitFor(config.scenario)
<1>1. /\ step \in Nat \ {0} /\ step + 1 \in Nat \ {0} /\ Workload[config.scenario][step] = s
      /\ Steps = Workload[config.scenario]
  BY ConfigFacts DEF TypeInv, Doing
<1>2. Place = step /\ Place' = step + 1
  BY <1>1 DEF Place
<1>3. ASSUME NEW w
      PROVE  Did(w)' <=> Did(w) \/ w = s
  <2>1. Past(config.scenario, step + 1, w) <=> Past(config.scenario, step, w) \/ w = s
    BY <1>1, PastNext
  <2>2. Did(w) <=> Past(config.scenario, step, w)
    BY <1>2 DEF Did
  <2>3. Did(w)' <=> Past(config.scenario, step + 1, w)
    BY <1>2 DEF Did, Past
  <2> QED
    BY <2>1, <2>2, <2>3
<1>4. Waited' <=> Did(WaitFor(config.scenario))'
  BY DEF Waited, Did, WaitFor
<1> QED
  BY <1>3, <1>4 DEF Waited

\* A span that goes on, and one that is left as it is.
LEMMA SpanGrows ==
  ASSUME TypeInv, NEW n, NEW x, Grown(n, x), NEW a \in Nat, NEW b \in Nat, NEW y, 1 <= a
  PROVE  /\ b <= Len(call) /\ Span(call, a, b, y) => Span(call', a, b, y)
         /\ b <= Len(tcp) /\ Span(tcp, a, b, y) => Span(tcp', a, b, y)
<1>1. Len(call) \in Nat /\ Len(tcp) \in Nat
  BY FlowFacts DEF TypeInv
<1> QED
  BY <1>1, SMTT(20) DEF Grown, Span

LEMMA SpansJoin ==
  ASSUME NEW flow, NEW y, NEW a \in Nat, NEW b \in Nat, NEW c \in Nat,
         Span(flow, a, b, y), Span(flow, b + 1, c, y)
  PROVE  Span(flow, a, c, y)
BY DEF Span


\* A step in which the call goes on, or has ended, keeps its shape.
LEMMA CallGoesOn ==
  ASSUME TypeInv, NEW g \in Nat, NEW s \in Nat, NEW e \in Nat, CallShape(g, s, e),
         NEW n \in Nat, NEW x, Grown(n, x), NEW y \in {0, 25},
         Span(call', Len(call) + 1, Len(call) + n, y),
         ~Did("end"), y = 25 => broke = 0, y = 0 => broke # 0 \/ Did("end")',
         retried' = retried, broke' = broke, Waited' <=> Waited
  PROVE  \E e2 \in Nat : CallShape(g, s, e2)' /\ e <= e2
<1> DEFINE L == Len(call)
<1>1. L \in Nat /\ Len(call') = L + n
  BY FlowFacts DEF TypeInv, Grown
<1>2. /\ g \in 1..s /\ s <= e /\ e <= L
      /\ Span(call, 1, g - 1, 0) /\ call[g] = 25 /\ Span(call, s, e, 25)
      /\ g < s => retried
      /\ broke = 0 => Span(call, e + 1, L, 0) /\ e = L
      /\ broke # 0 => Waited /\ broke = e + 1 /\ Strayed(call, broke)
      /\ Waited => s < e /\ (broke = 0 => s + 36 <= e)
  BY DEF CallShape
<1> HIDE DEF L
<1>12. PICK e2 \in Nat : e2 = IF y = 25 THEN L + n ELSE e
  BY <1>1
<1>3. e <= e2 /\ e2 <= L + n
  BY <1>1, <1>2, <1>12
<1>4. \A u \in 1..L : call'[u] = call[u]
  BY DEF Grown, L
<1>5. \A u \in (L + 1)..(L + n) : call'[u] = y
  BY DEF Span, L
<1>6. Span(call', 1, g - 1, 0) /\ call'[g] = 25
  BY <1>1, <1>2, <1>4 DEF Span
<1>7. Span(call', s, e2, 25)
  BY <1>1, <1>2, <1>4, <1>5, <1>12 DEF Span
<1>8. ASSUME broke = 0
      PROVE  Span(call', e2 + 1, L + n, 0) /\ (Did("end")' \/ e2 = L + n)
  BY <1>1, <1>2, <1>4, <1>5, <1>8, <1>12 DEF Span
<1>9. ASSUME broke # 0
      PROVE  Waited' /\ broke = e2 + 1 /\ Strayed(call', broke)
  <2>1. y = 0 /\ e2 = e /\ broke = e + 1
    BY <1>2, <1>9, <1>12
  <2>2. PICK z \in Nat : \A u \in broke..L : call[u] = 0 \/ (u = z /\ call[u] = 9)
    BY <1>2, <1>9 DEF Strayed, L
  <2>3. ASSUME NEW u \in broke..(L + n)
        PROVE  call'[u] = 0 \/ (u = z /\ call'[u] = 9)
    <3>1. CASE u <= L
      <4>1. u \in broke..L /\ u \in 1..L
        BY <1>1, <1>2, <2>1, <3>1
      <4> QED
        BY <1>4, <2>2, <4>1
    <3>2. CASE ~(u <= L)
      <4>1. u \in (L + 1)..(L + n)
        BY <1>1, <1>2, <2>1, <3>2
      <4> QED
        BY <1>5, <2>1, <4>1
    <3> QED
      BY <3>1, <3>2
  <2>4. Strayed(call', broke)
    BY <1>1, <2>3 DEF Strayed
  <2> QED
    BY <1>2, <1>9, <2>1, <2>4
<1>10. Waited' => s < e2 /\ (broke = 0 => s + 36 <= e2)
  BY <1>1, <1>2, <1>3
<1>11. CallShape(g, s, e2)'
  <2>1. s <= e2
    BY <1>2, <1>3
  <2> QED
    BY <1>1, <1>2, <1>3, <1>6, <1>7, <1>8, <1>9, <1>10, <2>1 DEF CallShape
<1> QED
  BY <1>3, <1>11

\* A step in which the TCP flow goes on, or has ended, keeps its shape.
LEMMA TcpGoesOn ==
  ASSUME TypeInv, NEW s \in Nat, NEW e \in Nat, NEW t \in Nat, NEW k \in Nat, TcpShape(s, e, t, k),
         NEW e2 \in Nat, e <= e2, broke' = 0 => broke = 0,
         Waited' /\ broke' = 0 => Waited \/ Len(tcp) + 36 <= e2,
         NEW n \in Nat, NEW x \in {0, 25}, Grown(n, x),
         x = 25 => ~Did("killTCP") /\ ((36 <= n /\ s <= Len(tcp)) \/ ~Waited' \/ Waited),
         x = 0 => Did("killTCP")' /\ (Waited' => Waited)
  PROVE  \E k2 \in Nat : TcpShape(s, e2, t, k2)'
<1> DEFINE L == Len(tcp)
<1>1. L \in Nat /\ Len(tcp') = L + n /\ config' = config
  BY FlowFacts DEF TypeInv, Grown
<1>2. /\ t \in 1..k /\ k <= L
      /\ Span(tcp, 1, t - 1, 0) /\ Span(tcp, t, k, 25) /\ Span(tcp, k + 1, L, 0)
      /\ Did("killTCP") \/ k = L
      /\ IF config.scenario \in TcpFirst THEN t = 1 ELSE s < t
      /\ Waited => s + 36 <= k /\ t + 36 <= k /\ (broke = 0 => t + 36 <= e)
  BY DEF TcpShape
<1>3. /\ \A u \in 1..L : tcp'[u] = tcp[u]
      /\ \A u \in (L + 1)..(L + n) : tcp'[u] = x
  BY DEF Grown, Span
<1>4. /\ x = 25 => (36 <= n /\ s <= L) \/ ~Waited' \/ Waited
      /\ Waited' /\ broke' = 0 => Waited \/ L + 36 <= e2
  OBVIOUS
<1> HIDE DEF L
<1>10. PICK k2 \in Nat : k2 = IF x = 25 THEN L + n ELSE k
  BY <1>1
<1>5. t \in 1..k2 /\ k2 <= L + n /\ k <= k2
  BY <1>1, <1>2, <1>10
<1>6. Span(tcp', 1, t - 1, 0)
  BY <1>1, <1>2, <1>3, <1>10 DEF Span
<1>7. Span(tcp', t, k2, 25)
  BY <1>1, <1>2, <1>3, <1>10 DEF Span
<1>8. Span(tcp', k2 + 1, L + n, 0) /\ (Did("killTCP")' \/ k2 = L + n)
  BY <1>1, <1>2, <1>3, <1>10 DEF Span
<1>11. Waited' /\ broke' = 0 => t + 36 <= e2
  <2>1. CASE Waited
    BY <1>2, <2>1
  <2>2. CASE ~Waited
    BY <1>1, <1>2, <1>4, <2>2
  <2> QED
    BY <2>1, <2>2
<1>9. Waited' => s + 36 <= k2 /\ t + 36 <= k2
  <2>1. CASE Waited
    BY <1>2, <1>5, <2>1
  <2>2. CASE ~Waited
    BY <1>1, <1>2, <1>4, <1>10, <2>2
  <2> QED
    BY <2>1, <2>2
<1> QED
  BY <1>1, <1>2, <1>5, <1>6, <1>7, <1>8, <1>9, <1>11 DEF TcpShape

LEMMA TcpIsSilent ==
  ASSUME TypeInv, NEW n \in Nat, NEW x, NEW y, Grown(n, x), Span(tcp, 1, Len(tcp), y), x = y
  PROVE  Span(tcp', 1, Len(tcp'), y)
<1>1. Len(tcp) \in Nat /\ Len(tcp') = Len(tcp) + n
  BY FlowFacts DEF TypeInv, Grown
<1> QED
  BY <1>1 DEF Grown, Span


\* The shape of the flows after each of the steps.
LEMMA ShapeAfterMake ==
  ASSUME TypeInv, Shape, Make
  PROVE  Shape'
<1> DEFINE L == Len(call)
<1>1. PICK n, g, s \in Nat :
           /\ Grown(n, Tcp) /\ Doing("make")
           /\ L < g /\ g <= s /\ s <= L + n
           /\ Span(call', L + 1, g - 1, 0) /\ call'[g] = 25
           /\ Span(call', s, L + n, 25)
           /\ g < s => retried'
           /\ retried' \in BOOLEAN /\ broke' = broke
  BY MakeAdds
<1>2. /\ step \in DOMAIN Steps /\ step' = step + 1 /\ config' = config
      /\ Len(call') = L + n /\ Len(tcp') = L + n /\ L \in Nat /\ Len(tcp) = L
  BY <1>1, FlowFacts DEF Grown, Doing, TypeInv
<1>3. /\ ~Did("make") /\ ~Waited /\ ~Did("killTCP") /\ ~Did("end")
      /\ Did("setupTCP") <=> config.scenario \in TcpFirst
      /\ TcpFlows <=> Did("setupTCP")
  BY <1>1, <1>2, OrderHere
<1>4. /\ \A w : Did(w)' <=> Did(w) \/ w = "make"
      /\ ~Waited'
  BY <1>1, <1>2, <1>3, DidNext DEF WaitFor
<1>5. /\ Span(call, 1, L, 0) /\ broke = 0 /\ ~retried
      /\ Did("setupTCP") => L # 0 /\ Span(tcp, 1, L, 25)
      /\ ~Did("setupTCP") => Span(tcp, 1, L, 0)
  BY <1>2, <1>3 DEF Shape, NotYetCalled
<1>6. Did("make")' /\ ~Did("end")' /\ ~Did("killTCP")' /\ (Did("setupTCP")' <=> Did("setupTCP"))
  BY <1>3, <1>4
<1>10. PICK e \in Nat : e = L + n
  BY <1>2
<1>7. CallShape(g, s, e)'
  <2> HIDE DEF L
  <2>2. Span(call', 1, g - 1, 0)
    <3>1. \A u \in 1..L : call'[u] = call[u]
      BY <1>1 DEF Grown, L
    <3> QED
      BY <1>1, <1>2, <1>5, <3>1 DEF Span
  <2>3. Span(call', e + 1, e, 0)
    BY <1>10 DEF Span
  <2> QED
    BY <1>1, <1>2, <1>4, <1>5, <1>10, <2>2, <2>3 DEF CallShape
<1>8. ASSUME Did("setupTCP")
      PROVE  \E t, k \in Nat : TcpShape(s, e, t, k)'
  <2>1. PICK k \in Nat : k = L + n
    BY <1>2
  <2>2. Tcp = 25
    BY <1>3, <1>8 DEF Tcp
  <2>3. Span(tcp', 1, k, 25)
    BY <1>1, <1>2, <1>5, <1>8, <2>1, <2>2, TcpIsSilent
  <2>4. Span(tcp', 1, 0, 0) /\ Span(tcp', k + 1, k, 0)
    BY <2>1 DEF Span
  <2>5. TcpShape(s, e, 1, k)'
    BY <1>1, <1>2, <1>3, <1>4, <1>5, <1>8, <2>1, <2>3, <2>4 DEF TcpShape
  <2> QED
    BY <2>1, <2>5
<1>9. ASSUME ~Did("setupTCP")
      PROVE  Span(tcp', 1, Len(tcp'), 0)
  <2>1. Tcp = 0
    BY <1>3, <1>9 DEF Tcp
  <2> QED
    BY <1>1, <1>2, <1>5, <1>9, <2>1, TcpIsSilent
<1> QED
  BY <1>6, <1>7, <1>8, <1>9 DEF Shape

LEMMA ShapeAfterSetup ==
  ASSUME TypeInv, Shape, SetupTcp
  PROVE  Shape'
<1> DEFINE L == Len(call)
<1>1. /\ retried' = retried /\ broke' = broke /\ Doing("setupTCP") /\ Grown(2, 25)
      /\ Span(call', L + 1, L + 2, IF call = <<>> THEN 0 ELSE Talking)
  BY OthersAdd
<1>2. /\ step \in DOMAIN Steps /\ step' = step + 1 /\ config' = config
      /\ Len(call') = L + 2 /\ Len(tcp') = L + 2 /\ L \in Nat /\ Len(tcp) = L
  BY <1>1, FlowFacts DEF Grown, Doing, TypeInv
<1>3. /\ ~Did("setupTCP") /\ ~Waited /\ ~Did("killTCP") /\ ~Did("end")
      /\ Did("make") <=> config.scenario \notin TcpFirst
  BY <1>1, <1>2, OrderHere
<1>4. /\ \A w : Did(w)' <=> Did(w) \/ w = "setupTCP"
      /\ ~Waited'
  BY <1>1, <1>2, <1>3, DidNext DEF WaitFor
<1>5. Did("setupTCP")' /\ ~Did("end")' /\ ~Did("killTCP")' /\ (Did("make")' <=> Did("make"))
  BY <1>3, <1>4
<1>6. Span(tcp, 1, L, 0)
  BY <1>2, <1>3 DEF Shape
<1>7. CASE ~Did("make")
  <2>1. call = <<>> /\ broke = 0 /\ ~retried
    BY <1>3, <1>7 DEF Shape, NotYetCalled
  <2>2. L = 0
    BY <2>1
  <2>3. Span(call', 1, 2, 0) /\ Span(tcp', 1, 2, 25)
    BY <1>1, <1>2, <2>1, <2>2 DEF Grown
  <2>4. NotYetCalled'
    BY <1>1, <1>2, <1>5, <2>1, <2>2, <2>3 DEF NotYetCalled
  <2> QED
    BY <1>5, <1>7, <2>4 DEF Shape
<1>8. CASE Did("make")
  <2>2. PICK g, s, e \in Nat : CallShape(g, s, e)
    BY <1>8 DEF Shape
  <2>3. broke = 0 /\ s <= e /\ e <= L /\ L # 0
    BY <1>2, <1>3, <2>2 DEF CallShape
  <2>4. Span(call', L + 1, L + 2, 25)
    <3>1. call # <<>>
      BY <2>3
    <3> QED
      BY <1>1, <2>3, <3>1 DEF Talking
  <2>5. PICK e2 \in Nat : CallShape(g, s, e2)'
    BY <1>1, <1>3, <1>4, <2>2, <2>3, <2>4, CallGoesOn
  <2>6. \E t, k \in Nat : TcpShape(s, e2, t, k)'
    <3>1. PICK t \in Nat, k \in Nat : t = L + 1 /\ k = L + 2
      BY <1>2
    <3>2. Span(tcp', 1, t - 1, 0)
      BY <1>1, <1>2, <1>6, <3>1, SpanGrows
    <3>3. Span(tcp', t, k, 25)
      BY <1>1, <1>2, <3>1 DEF Grown
    <3>4. Span(tcp', k + 1, k, 0)
      BY <3>1 DEF Span
    <3>5. TcpShape(s, e2, t, k)'
      BY <1>2, <1>3, <1>4, <1>8, <2>3, <3>1, <3>2, <3>3, <3>4 DEF TcpShape
    <3> QED
      BY <3>1, <3>5
  <2> QED
    BY <1>5, <1>8, <2>5, <2>6 DEF Shape
<1> QED
  BY <1>7, <1>8

LEMMA ShapeAfterWait ==
  ASSUME TypeInv, Shape, Wait
  PROVE  Shape'
<1> DEFINE L == Len(call)
<1>1. PICK n \in Nat :
        /\ 36 <= n /\ Grown(n, Tcp) /\ retried' = retried
        /\ Doing("wait") \/ Doing("profile")
        /\ \/ broke' = broke /\ Span(call', L + 1, L + n, Talking)
           \/ \E b \in 1..(n - 1) :
                /\ broke' = L + b + 1
                /\ Span(call', L + 1, L + b, 25)
                /\ Strayed(call', L + b + 1)
  BY WaitAdds
<1>2. /\ step \in DOMAIN Steps /\ step' = step + 1 /\ config' = config
      /\ Len(call') = L + n /\ Len(tcp') = L + n /\ L \in Nat /\ Len(tcp) = L
  BY <1>1, FlowFacts DEF Grown, Doing, TypeInv
<1>3. /\ Doing(WaitFor(config.scenario)) /\ Did("make")
      /\ ~Waited /\ ~Did("killTCP") /\ ~Did("end")
      /\ TcpFlows <=> Did("setupTCP")
  BY <1>1, <1>2, OrderHere
<1>4. /\ \A w : Did(w)' <=> Did(w) \/ w = WaitFor(config.scenario)
      /\ Waited'
  BY <1>2, <1>3, DidNext
<1>5. /\ Did("make")' /\ ~Did("end")' /\ ~Did("killTCP")'
      /\ Did("setupTCP")' <=> Did("setupTCP")
  BY <1>3, <1>4 DEF WaitFor
<1>6. PICK s, e \in Nat :
        /\ \E g \in Nat : CallShape(g, s, e)
        /\ Did("setupTCP") => \E t, k \in Nat : TcpShape(s, e, t, k)
  BY <1>3 DEF Shape
<1>7. PICK g \in Nat : CallShape(g, s, e)
  BY <1>6
<1>8. /\ g \in 1..s /\ s <= e /\ e = L /\ broke = 0
      /\ Span(call, 1, g - 1, 0) /\ call[g] = 25 /\ Span(call, s, e, 25)
      /\ g < s => retried
  BY <1>3, <1>7 DEF CallShape
<1> HIDE DEF L
<1>9. \A u \in 1..L : call'[u] = call[u]
  BY <1>1 DEF Grown, L
<1>10. Span(call', 1, g - 1, 0) /\ call'[g] = 25
  BY <1>2, <1>8, <1>9 DEF Span
<1>11. PICK e2 \in Nat : CallShape(g, s, e2)' /\ e <= e2 /\ (broke' = 0 => L + 36 <= e2)
  <2>1. CASE broke' = broke /\ Span(call', L + 1, L + n, Talking)
    <3>1. PICK e2 \in Nat : e2 = L + n
      BY <1>2
    <3>2. Span(call', L + 1, L + n, 25)
      BY <1>8, <2>1 DEF Talking
    <3>3. Span(call', s, e2, 25)
      BY <1>2, <1>8, <1>9, <3>1, <3>2 DEF Span
    <3>4. Span(call', e2 + 1, L + n, 0)
      BY <3>1 DEF Span
    <3>5. s + 36 <= e2 /\ s < e2
      BY <1>1, <1>2, <1>8, <3>1
    <3>6. CallShape(g, s, e2)'
      BY <1>1, <1>2, <1>4, <1>8, <1>10, <2>1, <3>1, <3>3, <3>4, <3>5 DEF CallShape
    <3> QED
      BY <1>1, <1>2, <1>8, <3>1, <3>6
  <2>2. ASSUME NEW b \in 1..(n - 1), broke' = L + b + 1,
               Span(call', L + 1, L + b, 25), Strayed(call', L + b + 1)
        PROVE  \E e2 \in Nat : CallShape(g, s, e2)' /\ e <= e2 /\ (broke' = 0 => L + 36 <= e2)
    <3>1. PICK e2 \in Nat : e2 = L + b
      BY <1>2
    <3>2. broke' = e2 + 1 /\ Strayed(call', broke') /\ broke' # 0
      BY <1>2, <2>2, <3>1
    <3>3. Span(call', s, e2, 25)
      BY <1>2, <1>8, <1>9, <2>2, <3>1 DEF Span
    <3>4. s <= e2 /\ s < e2 /\ e2 <= L + n
      BY <1>1, <1>2, <1>8, <3>1
    <3>5. CallShape(g, s, e2)'
      BY <1>1, <1>2, <1>4, <1>8, <1>10, <3>1, <3>2, <3>3, <3>4 DEF CallShape
    <3> QED
      BY <1>2, <1>8, <3>1, <3>2, <3>5
  <2> QED
    BY <1>1, <2>1, <2>2
<1>12. ASSUME Did("setupTCP")
       PROVE  \E t, k \in Nat : TcpShape(s, e2, t, k)'
  <2>1. PICK t, k \in Nat : TcpShape(s, e, t, k)
    BY <1>6, <1>12
  <2>2. Tcp = 25 /\ s <= Len(tcp)
    BY <1>2, <1>3, <1>8, <1>12 DEF Tcp
  <2>4. broke' = 0 => broke = 0 /\ Len(tcp) + 36 <= e2
    BY <1>2, <1>8, <1>11
  <2>3. \E k2 \in Nat : TcpShape(s, e2, t, k2)'
    BY <1>1, <1>3, <1>11, <2>1, <2>2, <2>4, TcpGoesOn
  <2> QED
    BY <2>3
<1>13. ASSUME ~Did("setupTCP")
       PROVE  Span(tcp', 1, Len(tcp'), 0)
  <2>1. Tcp = 0 /\ Span(tcp, 1, Len(tcp), 0)
    BY <1>3, <1>13 DEF Tcp, Shape
  <2> QED
    BY <1>1, <2>1, TcpIsSilent
<1> QED
  BY <1>5, <1>11, <1>12, <1>13 DEF Shape


LEMMA ShapeAfterRest ==
  ASSUME TypeInv, Shape, Capture \/ KillTcp \/ EndCall
  PROVE  Shape'
<1> DEFINE L == Len(call)
<1>1. L \in Nat /\ Len(tcp) = L /\ Tcp \in {0, 25} /\ Talking \in {0, 25}
  BY FlowFacts DEF TypeInv, Tcp, Talking
<1>2. /\ retried' = retried /\ broke' = broke
      /\ Capture => /\ Doing("capture") /\ Grown(3, Tcp) /\ Span(call', L + 1, L + 3, Talking)
      /\ KillTcp => /\ Doing("killTCP") /\ Grown(1, 0) /\ Span(call', L + 1, L + 1, Talking)
      /\ EndCall => /\ Doing("end") /\ Grown(4, Tcp) /\ Span(call', L + 1, L + 4, 0)
  BY OthersAdd
<1>3. PICK n \in Nat, x \in {0, 25}, y \in {0, 25} :
        /\ Grown(n, x) /\ Span(call', L + 1, L + n, y)
        /\ Capture => Doing("capture") /\ x = Tcp /\ y = Talking
        /\ KillTcp => Doing("killTCP") /\ x = 0 /\ y = Talking
        /\ EndCall => Doing("end") /\ x = Tcp /\ y = 0
        /\ Doing("capture") \/ Doing("killTCP") \/ Doing("end")
  <2>1. CASE Capture
    <3>1. ~KillTcp /\ ~EndCall
      BY <1>2, <2>1 DEF Doing
    <3> QED
      BY <1>1, <1>2, <2>1, <3>1
  <2>2. CASE KillTcp
    <3>1. ~Capture /\ ~EndCall
      BY <1>2, <2>2 DEF Doing
    <3> QED
      BY <1>1, <1>2, <2>2, <3>1
  <2>3. CASE EndCall
    <3>1. ~Capture /\ ~KillTcp
      BY <1>2, <2>3 DEF Doing
    <3> QED
      BY <1>1, <1>2, <2>3, <3>1
  <2> QED
    BY <2>1, <2>2, <2>3
<1>4. /\ step \in DOMAIN Steps /\ step' = step + 1 /\ config' = config
  BY <1>3 DEF Grown, Doing
<1>5. /\ Did("make") /\ Waited /\ ~Did("end")
      /\ TcpFlows <=> Did("setupTCP") /\ ~Did("killTCP")
      /\ Doing("killTCP") => Did("setupTCP")
      /\ Doing("end") => (Did("killTCP") <=> Did("setupTCP"))
  BY <1>3, <1>4, OrderHere
<1>6. PICK w \in {"capture", "killTCP", "end"} : Doing(w)
  BY <1>3
<1>7. (\A v : Did(v)' <=> Did(v) \/ v = w) /\ Waited'
  BY <1>4, <1>5, <1>6, DidNext
<1>8. Did("make")' /\ (Did("setupTCP")' <=> Did("setupTCP"))
  BY <1>5, <1>7
<1>9. Capture \/ KillTcp \/ EndCall
  OBVIOUS
<1>10. /\ Capture => w = "capture"
       /\ KillTcp => w = "killTCP"
       /\ EndCall => w = "end"
  BY <1>3, <1>6 DEF Doing
<1>11. PICK s, e \in Nat :
        /\ \E g \in Nat : CallShape(g, s, e)
        /\ Did("setupTCP") => \E t, k \in Nat : TcpShape(s, e, t, k)
  BY <1>5 DEF Shape
<1>12. PICK e2 \in Nat : (\E g \in Nat : CallShape(g, s, e2)') /\ e <= e2
  <2>1. PICK g \in Nat : CallShape(g, s, e)
    BY <1>11
  <2>2. y = 25 => broke = 0
    BY <1>3, <1>9 DEF Talking
  <2>3. y = 0 => broke # 0 \/ Did("end")'
    BY <1>3, <1>7, <1>9, <1>10 DEF Talking
  <2>4. \E e2 \in Nat : CallShape(g, s, e2)' /\ e <= e2
    BY <1>2, <1>3, <1>5, <1>7, <2>1, <2>2, <2>3, CallGoesOn
  <2> QED
    BY <2>4
<1>13. ASSUME Did("setupTCP")
       PROVE  \E t, k \in Nat : TcpShape(s, e2, t, k)'
  <2>1. PICK t, k \in Nat : TcpShape(s, e, t, k)
    BY <1>11, <1>13
  <2>2. x = 25 => ~Did("killTCP")
    BY <1>3, <1>5, <1>9 DEF Tcp
  <2>3. x = 0 => Did("killTCP")'
    BY <1>3, <1>5, <1>7, <1>9, <1>10, <1>13 DEF Tcp
  <2>4. \E k2 \in Nat : TcpShape(s, e2, t, k2)'
    BY <1>2, <1>3, <1>5, <1>12, <2>1, <2>2, <2>3, TcpGoesOn, SMTT(20)
  <2> QED
    BY <2>4
<1>14. ASSUME ~Did("setupTCP")
       PROVE  Span(tcp', 1, Len(tcp'), 0)
  <2>1. x = 0 /\ Span(tcp, 1, Len(tcp), 0)
    BY <1>3, <1>5, <1>9, <1>14 DEF Tcp, Shape
  <2> QED
    BY <1>3, <2>1, TcpIsSilent
<1> QED
  BY <1>8, <1>12, <1>13, <1>14 DEF Shape

DataInv == TypeInv /\ RowInv /\ ShapeInv

\* A row is of the run it was made of until the next one begins.
LEMMA RowStep ==
  ASSUME TypeInv, RowInv, Next
  PROVE  RowInv' /\ (step > 0 => row = None)
<1>1. step > 0 => row = None
  BY DEF RowInv
<1>2. CASE Begin
  BY <1>1, <1>2 DEF Begin, RowInv, None
<1>3. CASE Fail
  BY <1>1, <1>3 DEF Fail, RowInv, None
<1>4. CASE Evaluate
  <2>1. /\ step' = 0 /\ UNCHANGED <<config, call, tcp>>
        /\ \E dequeued \in Dequeued : row' = Row(config.scenario, dequeued, tcp, call, tcp)
    BY <1>4 DEF Evaluate
  <2>2. Dequeued' = Dequeued
    BY <2>1 DEF Dequeued, FirstFlowing
  <2> QED
    BY <1>1, <2>1, <2>2 DEF RowInv
<1>5. CASE Make \/ SetupTcp \/ Wait \/ Capture \/ KillTcp \/ EndCall
  <2>1. step > 0 /\ row' = row
    <3>1. row' = row /\ step \in DOMAIN Steps
      BY <1>5 DEF Make, SetupTcp, Wait, Capture, KillTcp, EndCall, Idle, Lasts, Doing
    <3> QED
      BY <3>1, ConfigFacts DEF TypeInv
  <2> QED
    BY <1>1, <2>1 DEF RowInv, None
<1> QED
  BY <1>1, <1>2, <1>3, <1>4, <1>5 DEF Next

\* Every step keeps what is known of the data.
LEMMA DataStep == DataInv /\ [Next]_vars => DataInv'
<1> SUFFICES ASSUME DataInv, [Next]_vars PROVE DataInv'
  OBVIOUS
<1>1. TypeInv /\ TypeInv' /\ RowInv /\ ShapeInv
  BY TypeStep DEF DataInv
<1>2. CASE UNCHANGED vars
  <2>1. RowInv'
    BY <1>1, <1>2 DEF RowInv, Dequeued, FirstFlowing, vars
  <2>2. Shape' <=> Shape
    BY <1>2 DEF vars, Shape, NotYetCalled, CallShape, TcpShape, Waited, Did, Place, Steps
  <2> QED
    BY <1>1, <1>2, <2>1, <2>2 DEF DataInv, ShapeInv, vars
<1>3. CASE Next
  <2>1. RowInv' /\ (step > 0 => row = None)
    BY <1>1, <1>3, RowStep
  <2>2. step \in Nat
    BY <1>1, ConfigFacts DEF TypeInv
  <2>3. CASE Begin
    <3>1. step' = 1 /\ call' = <<>> /\ tcp' = <<>> /\ retried' = FALSE /\ broke' = 0
      BY <2>3 DEF Begin
    <3>2. \A w : ~Did(w)'
      BY <3>1 DEF Did, Place, Past
    <3>3. Len(call') = 0 /\ Len(tcp') = 0
      BY <3>1
    <3>4. Span(call', 1, Len(call'), 0) /\ Span(tcp', 1, Len(tcp'), 0)
      BY <3>3 DEF Span
    <3>5. Shape'
      BY <3>1, <3>2, <3>4 DEF Shape, NotYetCalled
    <3> QED
      BY <1>1, <2>1, <3>5 DEF DataInv, ShapeInv
  <2>4. CASE Fail
    <3>1. step' = 0 /\ row' = None
      BY <2>1, <2>4 DEF Fail
    <3> QED
      BY <1>1, <2>1, <3>1 DEF DataInv, ShapeInv
  <2>5. CASE Evaluate
    <3>1. /\ step = Len(Steps) + 1 /\ step' = 0
          /\ UNCHANGED <<config, call, tcp, retried, broke>>
      BY <2>5 DEF Evaluate
    <3>2. step > 0
      BY <1>1, <3>1, ConfigFacts DEF TypeInv
    <3>3. Place' = Place
      BY <3>1, <3>2 DEF Place, Steps
    <3>4. Shape
      BY <1>1, <3>2 DEF ShapeInv
    <3>5. Shape'
      BY <3>1, <3>3, <3>4 DEF Shape, NotYetCalled, CallShape, TcpShape, Waited, Did
    <3> QED
      BY <1>1, <2>1, <3>5 DEF DataInv, ShapeInv
  <2>6. CASE Make \/ SetupTcp \/ Wait \/ Capture \/ KillTcp \/ EndCall
    <3>1. step \in DOMAIN Steps
      BY <2>6 DEF Make, SetupTcp, Wait, Capture, KillTcp, EndCall, Doing
    <3>2. step > 0
      BY <1>1, <3>1, ConfigFacts DEF TypeInv
    <3>3. Shape
      BY <1>1, <3>2 DEF ShapeInv
    <3>4. Shape'
      BY <1>1, <2>6, <3>3, ShapeAfterMake, ShapeAfterSetup, ShapeAfterWait, ShapeAfterRest
    <3> QED
      BY <1>1, <2>1, <3>4 DEF DataInv, ShapeInv
  <2> QED
    BY <1>3, <2>3, <2>4, <2>5, <2>6 DEF Next
<1> QED
  BY <1>2, <1>3

LEMMA DataInit == Init => DataInv
<1> SUFFICES ASSUME Init PROVE DataInv
  OBVIOUS
<1>1. /\ step = 0 /\ call = <<>> /\ tcp = <<>> /\ retried = FALSE /\ broke = 0 /\ row = None
      /\ PlanInv
  BY PlanInit DEF Init
<1>2. Len(Steps) \in Nat
  BY <1>1, ConfigFacts
<1>3. /\ call \in Flows /\ tcp \in Seq({0, 25}) /\ Len(call) = 0 /\ Len(tcp) = 0
  BY <1>1 DEF Flows
<1>4. TypeInv
  <2>1. 0 \in 0..0 /\ 0 \in 0..(Len(Steps) + 1)
    BY <1>2
  <2> QED
    BY <1>1, <1>3, <2>1 DEF TypeInv
<1> QED
  BY <1>1, <1>4 DEF DataInv, RowInv, ShapeInv

\* The data of every study, in every state.
LEMMA DataAlways == Spec => []DataInv
BY DataInit, DataStep, PTL DEF Spec


-----------------------------------------------------------------------------
(* The rows.                                                                 *)

\* What process_file is given, of a run that is at its end.
Finished(d, g, s, e) ==
  /\ Called(call, g, s, e) /\ Span(call, s, e, 25) /\ call[g] = 25
  /\ Called(d, g, s, e) /\ Len(d) = Len(call)
  /\ \A u \in 1..Len(call) : u # g => d[u] = call[u]
  /\ d = call \/ d[g] = 5
  /\ g < s => retried
  /\ broke = 0 => s + 36 <= e /\ Span(call, e + 1, Len(call), 0)
  /\ broke # 0 => broke = e + 1 /\ Strayed(call, broke)

TcpFinished(s, e, t, k) ==
  /\ t \in 1..k /\ k <= Len(tcp) /\ Span(tcp, 1, t - 1, 0) /\ Span(tcp, t, k, 25)
  /\ IF config.scenario \in TcpFirst THEN t = 1 ELSE s < t
  /\ s + 36 <= k /\ t + 36 <= k /\ (broke = 0 => t + 36 <= e)

\* A run of which there is a row has come to its end.
LEMMA AtEnd ==
  ASSUME DataInv, row # None
  PROVE  \E d : \E g, s, e \in Nat :
           /\ row = Row(config.scenario, d, tcp, call, tcp)
           /\ Finished(d, g, s, e)
           /\ config.scenario \in WithTcp => \E t, k \in Nat : TcpFinished(s, e, t, k)
           /\ config.scenario \notin WithTcp => Span(tcp, 1, Len(tcp), 0)
<1>1. TypeInv /\ step = 0 /\ Shape
  BY DEF DataInv, RowInv, ShapeInv
<1>2. PICK d \in Dequeued : row = Row(config.scenario, d, tcp, call, tcp)
  BY DEF DataInv, RowInv
<1>3. config.scenario \in Scenarios \ {"JUST_TCP"} /\ Place = Len(Workload[config.scenario]) + 1
  BY <1>1, ConfigFacts DEF TypeInv, Place
<1>4. /\ Did("make") /\ Waited /\ Did("end")
      /\ Did("setupTCP") <=> config.scenario \in WithTcp
  BY <1>3, OrderAtEnd DEF Did, Waited
<1>5. PICK s, e \in Nat :
        /\ \E g \in Nat : CallShape(g, s, e)
        /\ Did("setupTCP") => \E t, k \in Nat : TcpShape(s, e, t, k)
  BY <1>1, <1>4 DEF Shape
<1>6. PICK g \in Nat : CallShape(g, s, e)
  BY <1>5
<1>7. /\ g \in 1..s /\ s < e /\ e <= Len(call)
      /\ Span(call, 1, g - 1, 0) /\ call[g] = 25 /\ Span(call, s, e, 25)
      /\ g < s => retried
      /\ broke = 0 => s + 36 <= e /\ Span(call, e + 1, Len(call), 0)
      /\ broke # 0 => broke = e + 1 /\ Strayed(call, broke)
  BY <1>4, <1>6 DEF CallShape
<1>8. call \in Flows /\ Len(call) \in Nat /\ DOMAIN call = 1..Len(call)
  BY <1>1, FlowFacts DEF TypeInv
<1>9. call[s] = 25 /\ Span(call, s + 1, e, 25)
  BY <1>7 DEF Span
<1>10. Called(call, g, s, e)
  BY <1>7, <1>8, <1>9 DEF Called
<1>11. FirstFlowing = g
  <2> DEFINE P(u) == call[u] > 0 /\ \A v \in 1..(u - 1) : call[v] = 0
  <2>1. g \in DOMAIN call /\ P(g)
    BY <1>7, <1>8 DEF Span
  <2>2. ASSUME NEW u \in DOMAIN call, P(u)
        PROVE  u = g
    <3>1. ~(u < g)
      <4>1. u < g => call[u] = 0
        BY <1>7, <1>8, <2>2 DEF Span
      <4> QED
        BY <2>2, <4>1
    <3>2. ~(g < u)
      BY <1>7, <1>8, <2>2
    <3> QED
      BY <1>8, <3>1, <3>2
  <2> QED
    BY <2>1, <2>2 DEF FirstFlowing
<1>12. /\ Called(d, g, s, e) /\ Len(d) = Len(call)
       /\ \A u \in 1..Len(call) : u # g => d[u] = call[u]
       /\ d = call \/ d[g] = 5
  <2>1. CASE d = call
    BY <1>10, <2>1
  <2>2. CASE d # call
    <3>1. d = [call EXCEPT ![g] = 5]
      BY <1>2, <1>11, <2>2 DEF Dequeued
    <3>2. /\ d \in Flows /\ Len(d) = Len(call) /\ d[g] = 5
          /\ \A u \in 1..Len(call) : u # g => d[u] = call[u]
      <4>1. call \in Seq(0..25) /\ g \in 1..Len(call) /\ 5 \in 0..25
        BY <1>7, <1>8 DEF Flows
      <4>2. /\ d \in Seq(0..25) /\ Len(d) = Len(call)
            /\ \A u \in 1..Len(call) : d[u] = IF u = g THEN 5 ELSE call[u]
        BY <3>1, <4>1, ExceptSeq
      <4> QED
        BY <4>1, <4>2 DEF Flows
    <3>3. Span(d, 1, g - 1, 0)
      BY <1>7, <1>8, <3>2 DEF Span
    <3>4. Span(d, s + 1, e, 25)
      BY <1>7, <1>8, <1>9, <3>2 DEF Span
    <3>5. d[s] \in {5, 25} /\ (g < s => d[s] = 25)
      BY <1>7, <1>8, <1>9, <3>2
    <3> QED
      BY <1>7, <3>2, <3>3, <3>4, <3>5 DEF Called
  <2> QED
    BY <2>1, <2>2
<1>13. Finished(d, g, s, e)
  BY <1>7, <1>10, <1>12 DEF Finished
<1>14. ASSUME config.scenario \in WithTcp
       PROVE  \E t, k \in Nat : TcpFinished(s, e, t, k)
  <2>1. PICK t, k \in Nat : TcpShape(s, e, t, k)
    BY <1>4, <1>5, <1>14
  <2>2. TcpFinished(s, e, t, k)
    BY <1>4, <2>1 DEF TcpShape, TcpFinished
  <2> QED
    BY <2>2
<1>15. config.scenario \notin WithTcp => Span(tcp, 1, Len(tcp), 0)
  BY <1>1, <1>4 DEF Shape
<1> QED
  BY <1>2, <1>13, <1>14, <1>15

\* What process_file makes of the two periods of observation.
LEMMA RowFacts ==
  ASSUME NEW scenario, scenario # "JUST_TCP", NEW d, NEW t, NEW c
  PROVE  LET r == Row(scenario, d, t, c, t)
             w == Observation(d, t, scenario = "JUST_CALL")
             q == Observation(c, t, scenario = "JUST_CALL")
         IN  /\ r.kind \in {"raises", "unwritten", "row"}
             /\ r.kind = "row" <=>
                  /\ w.kind = "window" /\ q.kind = "window" /\ ~(w.to - w.from < 25)
                  /\ ~(End(d, w) - First(d, w) < 5) /\ ~(End(d, w) - First(d, w) < 10)
             /\ r.kind = "row" =>
                  /\ r.window = w /\ r.enqueued = q /\ r.first = Index(d, First(d, w))
                  /\ r.didCallBreak = DidCallBreak(d, w)
BY DEF Row, SkipFirstMinute, EnqueueWindow, Raises, Seconds

\* The TCP flow in the evaluation.
LEMMA TcpEvaluated ==
  ASSUME TypeInv
  PROVE  /\ tcp \in Flows
         /\ Span(tcp, 1, Len(tcp), 0) => Size(tcp) = 0
         /\ \A s, e, t, k \in Nat : TcpFinished(s, e, t, k) =>
              Size(tcp) \in Nat /\ Size(tcp) > 11 /\ Index(tcp, 11) = 25 * (t - 1) + 11
<1>1. tcp \in Flows
  <2>1. tcp \in Seq({0, 25}) /\ {0, 25} \subseteq 0..25
    BY DEF TypeInv
  <2> QED
    BY <2>1, SeqMonotonic DEF Flows
<1>2. Len(tcp) \in Nat /\ Len(tcp) + 1 \in 1..Len(tcp) + 1 /\ tcp \in Seq(Nat) /\ 1 \in 1..Len(tcp) + 1
  BY <1>1, FlowFacts
<1>3. ASSUME Span(tcp, 1, Len(tcp), 0)
      PROVE  Size(tcp) = 0
  <2>1. Sums(tcp)[Len(tcp) + 1] = Sums(tcp)[1] + 0 * (Len(tcp) + 1 - 1)
    BY <1>2, <1>3, SumsOfSpan
  <2>2. 0 * (Len(tcp) + 1 - 1) = 0
    BY <1>2
  <2>3. Sums(tcp)[1] = 0 /\ Size(tcp) = Sums(tcp)[Len(tcp) + 1]
    BY <1>1, FlowFacts
  <2>4. Sums(tcp)[1] + 0 * (Len(tcp) + 1 - 1) = 0
    BY <2>2, <2>3
  <2> QED
    BY <2>1, <2>3, <2>4, Zenon
<1>4. ASSUME NEW s \in Nat, NEW e \in Nat, NEW t \in Nat, NEW k \in Nat, TcpFinished(s, e, t, k)
      PROVE  Size(tcp) \in Nat /\ Size(tcp) > 11 /\ Index(tcp, 11) = 25 * (t - 1) + 11
  <2>1. /\ t \in 1..k /\ k <= Len(tcp) /\ Span(tcp, 1, t - 1, 0) /\ Span(tcp, t, k, 25)
        /\ t + 36 <= k
    BY <1>4 DEF TcpFinished
  <2> DEFINE b == t - 1
  <2>2. /\ b \in Nat /\ b <= Len(tcp) /\ t \in 1..(b + 1) /\ Span(tcp, 1, b, 0)
        /\ t \in 1..Len(tcp) /\ t \in 1..Len(tcp) + 1 /\ k \in t..Len(tcp)
    BY <1>2, <2>1
  <2> HIDE DEF b
  <2>3. Sums(tcp)[t] = Sums(tcp)[1] + 0 * (t - 1)
    BY ONLY <1>2, <2>2, SumsOfSpan
  <2>4. Sums(tcp)[t] = 0
    <3>1. 0 * (t - 1) = 0
      OBVIOUS
    <3> QED
      BY <1>1, <2>3, <3>1, FlowFacts
  <2>5. 11 < Sums(tcp)[t] + 25 * (k + 1 - t) /\ Sums(tcp)[t] <= 11
    BY <2>1, <2>4
  <2>6. 11 < Size(tcp) /\ Index(tcp, 11) = 25 * (t - 1) + 11 - Sums(tcp)[t]
    BY <1>1, <2>1, <2>2, <2>5, SteadyIndex
  <2>7. Size(tcp) \in Nat
    BY <1>1, FlowFacts
  <2> QED
    BY <2>4, <2>6, <2>7
<1> QED
  BY <1>1, <1>3, <1>4

\* The periods of observation of a call in a finished run: of the packets that left
\* the queue, and of those that came to it.
Skipped == IF config.scenario = "JUST_CALL" THEN 300 ELSE 0
AloneWindow(f, w) ==
  w = [kind |-> "window", from |-> Index(f, 11) + Skipped, to |-> Index(f, Size(f) - 11)]
TcpWindow(f, t, w) ==
  \E m \in Nat :
    /\ Index(f, 11) <= m /\ 25 * (t - 1) + 11 <= m /\ (m = Index(f, 11) \/ m = 25 * (t - 1) + 11)
    /\ w = [kind |-> "window", from |-> m + 150, to |-> m + 750]

LEMMA Observed ==
  ASSUME TypeInv, NEW f, NEW g \in Nat, NEW s \in Nat, NEW e \in Nat, Called(f, g, s, e),
         NEW w, w = Observation(f, tcp, config.scenario = "JUST_CALL")
  PROVE  /\ config.scenario \notin WithTcp /\ Span(tcp, 1, Len(tcp), 0) =>
              AloneWindow(f, w) /\ w.kind = "window" /\ w.from \in Nat /\ w.to \in Nat
         /\ \A t, k \in Nat : config.scenario \in WithTcp /\ TcpFinished(s, e, t, k) =>
              TcpWindow(f, t, w) /\ w.kind = "window" /\ w.from \in Nat /\ w.to \in Nat
<1>1. /\ f \in Flows /\ Size(f) \in Nat /\ Size(f) > 11 /\ Index(f, 11) \in Nat
  <2> DEFINE a == Sums(f)[s + 1]
             z == Size(f)
  <2>1. a \in Nat /\ 5 <= a /\ z \in Nat /\ a + 25 * (e - s) <= z /\ Index(f, 11) \in Nat
    BY CalledFacts
  <2>2. s < e /\ f \in Flows
    BY DEF Called
  <2> HIDE DEF a, z
  <2>3. z > 11
    BY <2>1, <2>2
  <2> QED
    BY <2>1, <2>2, <2>3 DEF z
<1>2. Index(f, Size(f) - 11) \in Nat
  <2> DEFINE n == Size(f) - 11
  <2>1. n \in Nat /\ n < Size(f)
    BY <1>1
  <2> HIDE DEF n
  <2>2. Index(f, n) \in Nat
    BY <1>1, <2>1, IndexExists
  <2> QED
    BY <2>2 DEF n
<1>3. tcp \in Flows
  BY TcpEvaluated
<1>4. ASSUME config.scenario \notin WithTcp, Span(tcp, 1, Len(tcp), 0)
      PROVE  AloneWindow(f, w) /\ w.kind = "window" /\ w.from \in Nat /\ w.to \in Nat
  <2>1. Size(tcp) = 0
    BY <1>4, TcpEvaluated
  <2>2. Observation(f, tcp, config.scenario = "JUST_CALL") =
          [kind |-> "window",
           from |-> Index(f, 11) + (IF config.scenario = "JUST_CALL" THEN 300 ELSE 0),
           to |-> Index(f, Size(f) - 11)]
    BY <1>1, <2>1 DEF Observation, Seconds
  <2>3. AloneWindow(f, w)
    BY <2>2, Zenon DEF AloneWindow, Skipped
  <2> QED
    BY <1>1, <1>2, <2>3 DEF AloneWindow, Skipped
<1>5. ASSUME NEW t \in Nat, NEW k \in Nat, config.scenario \in WithTcp, TcpFinished(s, e, t, k)
      PROVE  TcpWindow(f, t, w) /\ w.kind = "window" /\ w.from \in Nat /\ w.to \in Nat
  <2>1. Size(tcp) \in Nat /\ Size(tcp) > 11 /\ Index(tcp, 11) = 25 * (t - 1) + 11 /\ t \in 1..k
    BY <1>5, TcpEvaluated DEF TcpFinished
  <2>2. Index(tcp, 11) \in Nat
    BY <2>1
  <2>3. w = Observation(f, tcp, FALSE)
    BY <1>5 DEF WithTcp
  <2>4. PICK m \in Nat :
          /\ Index(f, 11) <= m /\ Index(tcp, 11) <= m /\ (m = Index(f, 11) \/ m = Index(tcp, 11))
          /\ m = Competition(Index(f, 11), Index(tcp, 11))
    <3> DEFINE a == Index(f, 11)
               b == Index(tcp, 11)
    <3>1. a \in Nat /\ b \in Nat
      BY <1>1, <2>2
    <3> HIDE DEF a, b
    <3>2. \E m \in Nat : a <= m /\ b <= m /\ (m = a \/ m = b) /\ m = Competition(a, b)
      BY <3>1 DEF Competition
    <3> QED
      BY <3>2, Zenon DEF a, b
  <2>5. w = [kind |-> "window", from |-> m + 150, to |-> m + 750]
    <3>1. w = [kind |-> "window", from |-> m + 150 + 0, to |-> m + 150 + 600]
      BY <1>1, <2>1, <2>3, <2>4 DEF Observation, Seconds
    <3>2. m + 150 + 0 = m + 150 /\ m + 150 + 600 = m + 750
      OBVIOUS
    <3> QED
      BY <3>1, <3>2
  <2>6. TcpWindow(f, t, w)
    BY <2>1, <2>4, <2>5 DEF TcpWindow
  <2> QED
    BY <2>5, <2>6
<1> QED
  BY <1>4, <1>5

\* What a row is made of.
Measured(d, w, q, g, s, e, t, k) ==
  /\ Finished(d, g, s, e)
  /\ IF config.scenario \in WithTcp
       THEN TcpFinished(s, e, t, k) /\ TcpWindow(d, t, w) /\ TcpWindow(call, t, q)
       ELSE AloneWindow(d, w) /\ AloneWindow(call, q)
  /\ w.from \in Nat /\ w.to \in Nat /\ q.from \in Nat /\ q.to \in Nat
  /\ row.kind \in {"raises", "unwritten", "row"}
  /\ row.kind = "row" <=>
       ~(w.to - w.from < 25) /\ ~(End(d, w) - First(d, w) < 5) /\ ~(End(d, w) - First(d, w) < 10)
  /\ row.kind = "row" =>
       /\ row.window = w /\ row.enqueued = q /\ row.first = Index(d, First(d, w))
       /\ row.didCallBreak = DidCallBreak(d, w)

LEMMA RowIs ==
  ASSUME DataInv, row # None
  PROVE  \E d, w, q : \E g, s, e, t, k \in Nat : Measured(d, w, q, g, s, e, t, k)
<1>1. TypeInv /\ config.scenario # "JUST_TCP"
  BY ConfigFacts DEF DataInv, TypeInv
<1>2. PICK d : \E g, s, e \in Nat :
           /\ row = Row(config.scenario, d, tcp, call, tcp)
           /\ Finished(d, g, s, e)
           /\ config.scenario \in WithTcp => \E t, k \in Nat : TcpFinished(s, e, t, k)
           /\ config.scenario \notin WithTcp => Span(tcp, 1, Len(tcp), 0)
  BY AtEnd
<1>3. PICK g \in Nat, s \in Nat, e \in Nat :
           /\ row = Row(config.scenario, d, tcp, call, tcp)
           /\ Finished(d, g, s, e)
           /\ config.scenario \in WithTcp => \E t, k \in Nat : TcpFinished(s, e, t, k)
           /\ config.scenario \notin WithTcp => Span(tcp, 1, Len(tcp), 0)
  BY <1>2
<1>4. PICK t \in Nat, k \in Nat : config.scenario \in WithTcp => TcpFinished(s, e, t, k)
  BY <1>3
<1>5. PICK w : w = Observation(d, tcp, config.scenario = "JUST_CALL")
  OBVIOUS
<1>6. PICK q : q = Observation(call, tcp, config.scenario = "JUST_CALL")
  OBVIOUS
<1>7. Called(d, g, s, e) /\ Called(call, g, s, e)
  BY <1>3 DEF Finished
<1>8. /\ config.scenario \notin WithTcp => AloneWindow(d, w) /\ AloneWindow(call, q)
      /\ config.scenario \in WithTcp => TcpWindow(d, t, w) /\ TcpWindow(call, t, q)
      /\ w.kind = "window" /\ q.kind = "window"
      /\ w.from \in Nat /\ w.to \in Nat /\ q.from \in Nat /\ q.to \in Nat
  BY <1>1, <1>3, <1>4, <1>5, <1>6, <1>7, Observed
<1>9. /\ row.kind \in {"raises", "unwritten", "row"}
      /\ row.kind = "row" <=>
           /\ w.kind = "window" /\ q.kind = "window" /\ ~(w.to - w.from < 25)
           /\ ~(End(d, w) - First(d, w) < 5) /\ ~(End(d, w) - First(d, w) < 10)
      /\ row.kind = "row" =>
           /\ row.window = w /\ row.enqueued = q /\ row.first = Index(d, First(d, w))
           /\ row.didCallBreak = DidCallBreak(d, w)
  BY <1>1, <1>3, <1>5, <1>6, RowFacts
<1>10. Measured(d, w, q, g, s, e, t, k)
  BY <1>3, <1>4, <1>8, <1>9 DEF Measured
<1> QED
  BY <1>10

\* Of every variable of a study, and of its rows.
THEOREM StudyTypeCorrect == Spec => []TypeOK
<1>1. DataInv => TypeOK
  <2> SUFFICES ASSUME DataInv PROVE TypeOK
    OBVIOUS
  <2>1. TypeInv
    BY DEF DataInv
  <2>2. row.kind \in {"none", "skipped", "unwritten", "raises", "row"}
    <3>1. CASE row = None
      BY <3>1 DEF None
    <3>2. CASE row # None
      BY <3>2, RowIs DEF Measured
    <3> QED
      BY <3>1, <3>2
  <2> QED
    BY <2>1, <2>2 DEF TypeInv, PlanInv, TypeOK, Flows, Full, TicksPerInterval
<1> QED
  BY <1>1, DataAlways, PTL

\* The stray packets of a call that broke are nine at most.
LEMMA StraysAreFew ==
  ASSUME NEW flow \in Flows, NEW a \in 1..Len(flow) + 1, Strayed(flow, a)
  PROVE  Size(flow) <= Sums(flow)[a] + 9
<1>1. PICK z \in Nat : \A u \in a..Len(flow) : flow[u] = 0 \/ (u = z /\ flow[u] = 9)
  BY DEF Strayed
<1>2. /\ flow \in Seq(Nat) /\ Len(flow) \in Nat /\ Size(flow) = Sums(flow)[Len(flow) + 1]
      /\ Sums(flow)[a] \in Nat
  BY FlowFacts
<1>3. ASSUME NEW x \in 1..Len(flow) + 1, NEW y \in x..Len(flow) + 1,
             \A u \in x..(y - 1) : flow[u] = 0
      PROVE  Sums(flow)[y] = Sums(flow)[x]
  <2> DEFINE b == y - 1
  <2>1. b \in Nat /\ b <= Len(flow) /\ Span(flow, x, b, 0) /\ y \in x..(b + 1)
    BY <1>2, <1>3 DEF Span
  <2> HIDE DEF b
  <2>2. Sums(flow)[y] = Sums(flow)[x] + 0 * (y - x)
    BY ONLY <1>2, x \in 1..Len(flow) + 1, <2>1, SumsOfSpan
  <2>3. 0 * (y - x) = 0 /\ Sums(flow)[x] \in Nat
    BY <1>2, FlowFacts
  <2>4. Sums(flow)[x] + 0 * (y - x) = Sums(flow)[x]
    BY <2>3
  <2> QED
    BY <2>2, <2>4, Zenon
<1>4. CASE z \in a..Len(flow)
  <2>1. z \in 1..Len(flow) /\ z \in 1..Len(flow) + 1 /\ z \in a..Len(flow) + 1
        /\ z + 1 \in 1..Len(flow) + 1 /\ Len(flow) + 1 \in (z + 1)..Len(flow) + 1
    BY <1>2, <1>4
  <2>2. Sums(flow)[z] = Sums(flow)[a]
    <3>1. \A u \in a..(z - 1) : flow[u] = 0
      BY <1>1, <1>4
    <3> QED
      BY <1>3, <2>1, <3>1
  <2>3. Sums(flow)[Len(flow) + 1] = Sums(flow)[z + 1]
    <3> DEFINE x == z + 1
               y == Len(flow) + 1
    <3>1. x \in 1..Len(flow) + 1 /\ y \in x..Len(flow) + 1 /\ \A u \in x..(y - 1) : flow[u] = 0
      BY <1>1, <1>2, <1>4, <2>1
    <3> HIDE DEF x, y
    <3>2. Sums(flow)[y] = Sums(flow)[x]
      BY <1>3, <3>1
    <3> QED
      BY <3>2 DEF x, y
  <2>4. Sums(flow)[z + 1] = Sums(flow)[z] + flow[z] /\ flow[z] \in 0..9
    BY <1>1, <1>4, <2>1, FlowFacts
  <2> DEFINE p == Sums(flow)[z]
             q == flow[z]
             r == Sums(flow)[z + 1]
             n == Size(flow)
             o == Sums(flow)[a]
  <2>5. o \in Nat /\ p = o /\ n = r /\ r = p + q /\ q \in 0..9
    BY <1>2, <2>2, <2>3, <2>4
  <2> HIDE DEF p, q, r, n, o
  <2>6. n <= o + 9
    BY <2>5
  <2> QED
    BY <2>6 DEF n, o
<1>5. CASE z \notin a..Len(flow)
  <2> DEFINE y == Len(flow) + 1
  <2>1. y \in a..Len(flow) + 1 /\ \A u \in a..(y - 1) : flow[u] = 0
    BY <1>1, <1>2, <1>5
  <2> HIDE DEF y
  <2>2. Sums(flow)[y] = Sums(flow)[a]
    BY <1>3, <2>1
  <2>3. Size(flow) = Sums(flow)[a]
    BY <1>2, <2>2 DEF y
  <2> QED
    BY <1>2, <2>3
<1> QED
  BY <1>4, <1>5

\* The tenth packet from the end of a window lies before the interval in which the
\* call broke.
LEMMA EndsBeforeBreak ==
  ASSUME NEW flow \in Flows, NEW a \in 1..Len(flow) + 1, Size(flow) <= Sums(flow)[a] + 9,
         NEW w, w.from \in Nat, w.to \in Nat, ~(End(flow, w) - First(flow, w) < 10)
  PROVE  Index(flow, End(flow, w) - 10) \in Nat /\ Index(flow, End(flow, w) - 10) < 25 * (a - 1)
<1> DEFINE i == First(flow, w)
           b == Before(flow, w.to)
           j == End(flow, w)
           z == Size(flow)
           n == j - 10
<1>1. /\ i \in Nat /\ i <= z /\ b \in Nat /\ b <= z /\ z \in Nat
      /\ j = IF b < i THEN i ELSE b
  <2>1. w.from + 1 \in Nat
    OBVIOUS
  <2> QED
    BY <2>1, FlowFacts, BeforeFacts DEF First, End
<1>2. ~(j - i < 10) /\ z <= Sums(flow)[a] + 9 /\ Sums(flow)[a] \in Nat /\ Len(flow) \in Nat
      /\ flow \in Seq(Nat)
  BY FlowFacts
<1> HIDE DEF i, b, j, z
<1>3. n \in Nat /\ n < z /\ n < Sums(flow)[a]
  BY <1>1, <1>2
<1> HIDE DEF n
<1>4. PICK v \in 1..Len(flow) :
        /\ Sums(flow)[v] <= n /\ Index(flow, n) \in Nat /\ Index(flow, n) < 25 * v
  BY <1>3, IndexExists DEF z
<1>5. v < a
  <2> SUFFICES ASSUME ~(v < a) PROVE FALSE
    OBVIOUS
  <2>1. v \in a..Len(flow) + 1
    BY <1>2
  <2>2. Sums(flow)[a] <= Sums(flow)[v]
    BY <1>2, <2>1, SumsGrow
  <2>3. Sums(flow)[v] \in Nat
    BY <1>2, FlowFacts
  <2> QED
    BY <1>2, <1>3, <1>4, <2>2, <2>3
<1>6. Index(flow, n) < 25 * (a - 1)
  BY <1>2, <1>4, <1>5
<1> QED
  BY <1>4, <1>6 DEF n, j

\* A call that breaks is never measured as if it had gone on: its row says that
\* it broke, if the break came early enough to matter (didCallBreak).
THEOREM BrokenCallsAreFlagged == Spec => []BreaksAreFlagged
<1>1. ASSUME DataInv PROVE BreaksAreFlagged
  <2> SUFFICES ASSUME row.kind = "row", broke # 0, 25 * (broke - 1) < row.first + 575
               PROVE  row.didCallBreak
    BY DEF BreaksAreFlagged, TicksPerInterval, Seconds
  <2>1. row # None
    BY DEF None
  <2>2. PICK d, w, q : \E g, s, e, t, k \in Nat : Measured(d, w, q, g, s, e, t, k)
    BY <1>1, <2>1, RowIs
  <2>3. PICK g \in Nat, s \in Nat, e \in Nat, t \in Nat, k \in Nat :
          Measured(d, w, q, g, s, e, t, k)
    BY <2>2
  <2>4. /\ Finished(d, g, s, e) /\ w.from \in Nat /\ w.to \in Nat
        /\ ~(End(d, w) - First(d, w) < 10) /\ row.first = Index(d, First(d, w))
        /\ row.didCallBreak = DidCallBreak(d, w)
    BY <2>3 DEF Measured
  <2>5. /\ d \in Flows /\ g \in 1..s /\ s < e /\ e <= Len(d) /\ Len(d) \in Nat
        /\ broke = e + 1 /\ Strayed(call, broke) /\ Len(d) = Len(call)
        /\ \A u \in 1..Len(call) : u # g => d[u] = call[u]
    BY <2>4, FlowFacts DEF Finished, Called
  <2>6. Strayed(d, broke) /\ broke \in 1..Len(d) + 1
    <3>1. broke \in 1..Len(d) + 1 /\ \A u \in broke..Len(d) : u \in 1..Len(call) /\ u # g
      BY <2>5
    <3>2. PICK z \in Nat : \A u \in broke..Len(call) : call[u] = 0 \/ (u = z /\ call[u] = 9)
      BY <2>5 DEF Strayed
    <3>3. \A u \in broke..Len(d) : d[u] = 0 \/ (u = z /\ d[u] = 9)
      BY <2>5, <3>1, <3>2
    <3> QED
      BY <3>1, <3>3 DEF Strayed
  <2>7. Size(d) <= Sums(d)[broke] + 9
    BY <2>5, <2>6, StraysAreFew
  <2>8. /\ Index(d, End(d, w) - 10) \in Nat
        /\ Index(d, End(d, w) - 10) < 25 * (broke - 1)
    BY <2>4, <2>5, <2>6, <2>7, EndsBeforeBreak
  <2>9. Index(d, End(d, w) - 10) < row.first + 575
    <3> DEFINE x == Index(d, End(d, w) - 10)
               y == row.first
    <3>1. x \in Nat /\ x < 25 * (broke - 1) /\ 25 * (broke - 1) < y + 575 /\ broke \in Nat
          /\ y \in Nat
      <4>1. First(d, w) \in Nat /\ First(d, w) < Size(d)
        <5> DEFINE i == First(d, w)
                   b == Before(d, w.to)
                   j == End(d, w)
                   z == Size(d)
        <5>1. w.from + 1 \in Nat
          BY <2>4
        <5>2. i \in Nat /\ b \in Nat /\ b <= z /\ z \in Nat /\ j = (IF b < i THEN i ELSE b)
              /\ ~(j - i < 10)
          BY <2>4, <2>5, <5>1, FlowFacts, BeforeFacts DEF First, End
        <5> HIDE DEF i, b, j, z
        <5>3. i < z
          BY <5>2
        <5> QED
          BY <5>2, <5>3 DEF i, z
      <4>2. Index(d, First(d, w)) \in Nat
        BY <2>5, <4>1, IndexExists
      <4> QED
        BY <2>4, <2>5, <2>8, <4>2, SMTT(20)
    <3> HIDE DEF x, y
    <3>2. x < y + 575
      BY <3>1
    <3> QED
      BY <3>2 DEF x, y
  <2>10. DidCallBreak(d, w)
    BY <2>4, <2>9 DEF DidCallBreak, Seconds
  <2> QED
    BY <2>4, <2>10, Zenon
<1> QED
  BY <1>1, DataAlways, PTL

\* The intervals of a period that lies within others.
LEMMA Within ==
  ASSUME NEW from \in Nat, NEW to \in Nat, to - from >= 25, NEW a \in Nat \ {0}, NEW b \in Nat,
         25 * (a - 1) <= from, to <= 25 * b,
         NEW u \in IntervalOf(from)..IntervalOf(to - 1)
  PROVE  u \in a..b
<1>1. to - 1 \in Nat
  OBVIOUS
<1>2. PICK x \in Nat, y \in 0..24 : from = 25 * x + y /\ from \div 25 = x
  BY DivMod
<1>3. PICK v \in Nat, z \in 0..24 : to - 1 = 25 * v + z /\ (to - 1) \div 25 = v
  BY <1>1, DivMod
<1>4. u \in (x + 1)..(v + 1)
  BY <1>2, <1>3 DEF IntervalOf, TicksPerInterval
<1>5. a <= x + 1
  BY <1>2
<1>6. v + 1 <= b
  BY <1>3
<1> QED
  BY <1>4, <1>5, <1>6

\* Where the period of a row lies if the call did not break, and its start is
\* clear: within the call, and within the TCP flow.
LEMMA WindowWithin ==
  ASSUME NEW d, NEW w, NEW q, NEW g \in Nat, NEW s \in Nat, NEW e \in Nat, NEW t \in Nat,
         NEW k \in Nat, Measured(d, w, q, g, s, e, t, k), broke = 0, StartIsClear
  PROVE  /\ s \in Nat \ {0} /\ 25 * (s - 1) <= w.from /\ w.to <= 25 * e
         /\ config.scenario \in WithTcp =>
              t \in Nat \ {0} /\ 25 * (t - 1) <= w.from /\ w.to <= 25 * k
<1>1. /\ Finished(d, g, s, e) /\ Called(d, g, s, e)
      /\ g \in 1..s /\ s < e /\ e <= Len(d) /\ Len(d) \in Nat /\ d \in Flows
      /\ s + 36 <= e /\ Span(call, e + 1, Len(call), 0) /\ Len(d) = Len(call)
      /\ \A u \in 1..Len(call) : u # g => d[u] = call[u]
      /\ g < s => config.scenario \in WithTcp \ TcpFirst
  BY FlowFacts DEF Measured, Finished, Called, StartIsClear
<1>2. /\ Index(d, 11) \in Nat /\ Size(d) \in Nat /\ Sums(d)[s + 1] \in Nat /\ 5 <= Sums(d)[s + 1]
      /\ Sums(d)[s + 1] + 25 * (e - s) <= Size(d)
      /\ 25 * (g - 1) <= Index(d, 11) /\ Index(d, 11) <= 25 * s + 6
  BY <1>1, CalledFacts
<1>3. CASE config.scenario \in WithTcp
  <2>1. /\ t \in 1..k /\ s + 36 <= k /\ t + 36 <= k /\ t + 36 <= e
        /\ IF config.scenario \in TcpFirst THEN t = 1 ELSE s < t
    BY <1>1, <1>3 DEF Measured, TcpFinished
  <2> DEFINE i == Index(d, 11)
  <2>2. PICK m \in Nat :
          /\ i <= m /\ 25 * (t - 1) + 11 <= m /\ (m = i \/ m = 25 * (t - 1) + 11)
          /\ w = [kind |-> "window", from |-> m + 150, to |-> m + 750]
    BY <1>3 DEF Measured, TcpWindow
  <2>3. w.from = m + 150 /\ w.to = m + 750
    BY <2>2
  <2>4. i \in Nat /\ 25 * (g - 1) <= i /\ i <= 25 * s + 6
    BY <1>2
  <2> HIDE DEF i
  <2>5. CASE config.scenario \in TcpFirst
    <3>1. t = 1 /\ g = s
      BY <1>1, <2>1, <2>5
    <3> QED
      BY <1>1, <2>1, <2>2, <2>3, <2>4, <3>1
  <2>6. CASE config.scenario \notin TcpFirst
    <3>1. s < t /\ m = 25 * (t - 1) + 11
      BY <1>1, <2>1, <2>2, <2>4, <2>6
    <3> QED
      BY <1>1, <2>1, <2>3, <3>1
  <2> QED
    BY <2>5, <2>6
<1>4. CASE config.scenario \notin WithTcp
  <2>1. g = s
    BY <1>1, <1>4
  <2>2. w.from = Index(d, 11) + Skipped /\ w.to = Index(d, Size(d) - 11)
    BY <1>4 DEF Measured, AloneWindow
  <2> DEFINE i == Index(d, 11)
             n == Size(d) - 11
  <2>3. i \in Nat /\ Skipped \in Nat /\ 25 * (s - 1) <= i /\ w.from = i + Skipped /\ s \in Nat \ {0}
    BY <1>1, <1>2, <2>1, <2>2 DEF Skipped
  <2>4. n \in Nat /\ n < Size(d)
    <3> DEFINE x == Sums(d)[s + 1]
               z == Size(d)
    <3>1. x \in Nat /\ z \in Nat /\ 5 <= x /\ x + 25 * (e - s) <= z
      BY <1>2
    <3> HIDE DEF x, z
    <3>2. z - 11 \in Nat /\ z - 11 < z
      BY <1>1, <3>1, SMTT(20)
    <3> QED
      BY <3>2 DEF z
  <2> HIDE DEF i, n
  <2>5. PICK v \in 1..Len(d) : Index(d, n) \in Nat /\ Index(d, n) < 25 * v /\ d[v] > 0
    BY <1>1, <2>4, IndexExists
  <2>6. v <= e
    <3> SUFFICES ASSUME ~(v <= e) PROVE FALSE
      OBVIOUS
    <3>1. v \in (e + 1)..Len(call) /\ v \in 1..Len(call) /\ v # g
      BY <1>1, <2>5
    <3>2. d[v] = 0
      BY <1>1, <3>1 DEF Span
    <3> QED
      BY <2>5, <3>2
  <2>7. Index(d, n) <= 25 * e
    BY <1>1, <2>5, <2>6
  <2>8. w.to <= 25 * e
    BY <2>2, <2>7 DEF n
  <2> QED
    BY <1>4, <2>3, <2>8
<1> QED
  BY <1>3, <1>4

\* A row of a call that did not break is about a time when both flows were
\* there (getToLeftTrafficClasses).
THEOREM BothFlowsAreMeasured == Spec => []MeasuresBothFlows
<1>1. ASSUME DataInv PROVE MeasuresBothFlows
  <2> SUFFICES ASSUME row.kind = "row", broke = 0, StartIsClear,
                      NEW u \in IntervalOf(row.window.from)..IntervalOf(row.window.to - 1)
               PROVE  /\ call[u] = 25
                      /\ config.scenario \in WithTcp => tcp[u] = 25
    BY DEF MeasuresBothFlows, Full, TicksPerInterval
  <2>1. row # None
    BY DEF None
  <2>2. PICK d, w, q : \E g, s, e, t, k \in Nat : Measured(d, w, q, g, s, e, t, k)
    BY <1>1, <2>1, RowIs
  <2>3. PICK g \in Nat, s \in Nat, e \in Nat, t \in Nat, k \in Nat :
          Measured(d, w, q, g, s, e, t, k)
    BY <2>2
  <2>4. /\ Finished(d, g, s, e) /\ row.window = w /\ w.from \in Nat /\ w.to \in Nat
        /\ ~(w.to - w.from < 25)
        /\ config.scenario \in WithTcp => TcpFinished(s, e, t, k)
    BY <2>3 DEF Measured
  <2>5. /\ s \in Nat \ {0} /\ 25 * (s - 1) <= w.from /\ w.to <= 25 * e
        /\ config.scenario \in WithTcp =>
             t \in Nat \ {0} /\ 25 * (t - 1) <= w.from /\ w.to <= 25 * k
    BY <2>3, WindowWithin
  <2> DEFINE from == w.from
             to == w.to
  <2>6. /\ from \in Nat /\ to \in Nat /\ to - from >= 25 /\ u \in IntervalOf(from)..IntervalOf(to - 1)
        /\ 25 * (s - 1) <= from /\ to <= 25 * e
        /\ config.scenario \in WithTcp => 25 * (t - 1) <= from /\ to <= 25 * k
    BY <2>4, <2>5
  <2> HIDE DEF from, to
  <2>7. u \in s..e
    BY <2>5, <2>6, Within
  <2>8. config.scenario \in WithTcp => u \in t..k
    BY <2>5, <2>6, Within
  <2>9. call[u] = 25
    BY <2>4, <2>7 DEF Finished, Span
  <2>10. config.scenario \in WithTcp => tcp[u] = 25
    BY <2>4, <2>8 DEF TcpFinished, Span
  <2> QED
    BY <2>9, <2>10
<1> QED
  BY <1>1, DataAlways, PTL

\* Of two minutes in which the call flows steadily there is a row, which does not
\* say that it broke.
Unbroken(d, w) ==
  /\ ~(w.to - w.from < 25) /\ ~(End(d, w) - First(d, w) < 5) /\ ~(End(d, w) - First(d, w) < 10)
  /\ ~DidCallBreak(d, w)

LEMMA SteadyHolds ==
  ASSUME NEW d, NEW g \in Nat, NEW s \in Nat, NEW e \in Nat, Called(d, g, s, e),
         NEW w, w.from \in Nat, w.to = w.from + 600, 25 * s <= w.from + 1, w.to <= 25 * e
  PROVE  Unbroken(d, w)
<1> DEFINE x == w.from + 1
           y == w.to
           c == Sums(d)[s + 1]
           i == First(d, w)
           b == Before(d, y)
           j == End(d, w)
<1>1. x \in (25 * s)..(25 * e) /\ y \in (25 * s)..(25 * e) /\ y = x + 599 /\ c \in Nat /\ x \in Nat
  BY CalledFacts
<1>2. i = Before(d, x) /\ j = IF b < i THEN i ELSE b
  BY DEF First, End
<1> HIDE DEF x, y
<1>3. i = c + x - 25 * s /\ b = c + y - 25 * s
  BY <1>1, <1>2, CalledSteady
<1>4. j = b /\ j - i = 599 /\ i \in Nat /\ j - 10 \in Nat
  <2> HIDE DEF c, i, b, j
  <2> QED
    BY <1>1, <1>2, <1>3
<1>5. Index(d, i) = x
  <2>1. c <= i /\ i < c + 25 * (e - s)
    <3> HIDE DEF c, i, b, j
    <3> QED
      BY <1>1, <1>3
  <2>2. Index(d, i) = 25 * s + i - c
    BY <1>4, <2>1, CalledSteady
  <2> HIDE DEF c, i
  <2> QED
    BY <1>1, <1>3, <2>2
<1>6. Index(d, j - 10) = y - 10
  <2> DEFINE n == j - 10
  <2>1. n \in Nat /\ c <= n /\ n < c + 25 * (e - s) /\ 25 * s + n - c = y - 10
    <3> HIDE DEF c, i, b, j
    <3> QED
      BY <1>1, <1>3, <1>4
  <2> HIDE DEF n
  <2>2. Index(d, n) = 25 * s + n - c
    BY <2>1, CalledSteady
  <2> QED
    BY <2>1, <2>2 DEF n
<1>7. ~(Index(d, j - 10) < Index(d, i) + 575)
  BY <1>1, <1>5, <1>6
<1>8. ~(w.to - w.from < 25)
  OBVIOUS
<1>9. ~(j - i < 5) /\ ~(j - i < 10)
  BY <1>4
<1> QED
  BY <1>7, <1>8, <1>9 DEF Unbroken, DidCallBreak, Seconds

\* The same for a call that is alone, and of which the last packets count.
LEMMA AloneHolds ==
  ASSUME NEW d, NEW g \in Nat, NEW s \in Nat, NEW e \in Nat, Called(d, g, s, e),
         Span(d, e + 1, Len(d), 0), NEW l \in s..e, l + 25 <= e,
         NEW w, w.from \in Nat, w.from + 1 <= 25 * l + 7, w.to = Index(d, Size(d) - 11)
  PROVE  Unbroken(d, w)
<1> DEFINE x == w.from + 1
           c == Sums(d)[s + 1]
           i == First(d, w)
           b == Before(d, w.to)
           j == End(d, w)
           z == Size(d)
<1>1. /\ d \in Flows /\ g \in 1..s /\ s < e /\ e <= Len(d) /\ Len(d) \in Nat /\ d \in Seq(Nat)
      /\ Span(d, s + 1, e, 25)
      /\ c \in Nat /\ 5 <= c /\ x \in Nat /\ x <= 25 * l + 7
      /\ l \in Nat /\ s <= l /\ l + 25 <= e
  <2>1. /\ d \in Flows /\ g \in 1..s /\ s < e /\ e <= Len(d) /\ Span(d, s + 1, e, 25)
    BY DEF Called
  <2>2. Len(d) \in Nat /\ d \in Seq(Nat)
    BY <2>1, FlowFacts
  <2>3. c \in Nat /\ 5 <= c
    BY CalledFacts
  <2>4. x \in Nat /\ x <= 25 * l + 7 /\ l \in Nat /\ s <= l
    OBVIOUS
  <2> QED
    BY <2>1, <2>2, <2>3, <2>4
<1>2. z = c + 25 * (e - s)
  <2> DEFINE a == e + 1
             u == Len(d) + 1
             y == Len(d)
  <2>1. a \in 1..Len(d) + 1 /\ y \in Nat /\ y <= Len(d) /\ Span(d, a, y, 0) /\ u \in a..(y + 1)
    BY <1>1
  <2> HIDE DEF a, u, y
  <2>2. Sums(d)[u] = Sums(d)[a] + 0 * (u - a)
    BY ONLY <1>1, <2>1, SumsOfSpan
  <2>3. 0 * (u - a) = 0 /\ Sums(d)[a] \in Nat
    BY <1>1, <2>1, FlowFacts DEF a, u
  <2>4. Sums(d)[a] + 0 * (u - a) = Sums(d)[a]
    BY <2>3
  <2>5. Sums(d)[u] = Sums(d)[a]
    BY <2>2, <2>4, Zenon
  <2>6. z = Sums(d)[u] /\ Sums(d)[a] = c + 25 * (e - s)
    BY <1>1, FlowFacts, CalledFacts DEF a, u
  <2> QED
    BY <2>5, <2>6, Zenon
<1>3. w.to = 25 * e - 11
  <2> DEFINE n == z - 11
  <2>1. n \in Nat /\ c <= n /\ n < c + 25 * (e - s) /\ 25 * s + n - c = 25 * e - 11
    <3> HIDE DEF c, z
    <3> QED
      BY <1>1, <1>2
  <2>2. w.to = Index(d, n)
    OBVIOUS
  <2> HIDE DEF n
  <2>3. Index(d, n) = 25 * s + n - c
    BY <2>1, CalledSteady
  <2> QED
    BY <2>1, <2>2, <2>3
<1>4. b = z - 11
  <2> DEFINE y == 25 * e - 11
  <2>1. y \in (25 * s)..(25 * e)
    BY <1>1
  <2> HIDE DEF y
  <2>2. Before(d, y) = c + y - 25 * s
    BY <2>1, CalledSteady
  <2>3. b = Before(d, y)
    BY <1>3 DEF y
  <2>4. c + y - 25 * s = z - 11
    <3> HIDE DEF c, z
    <3> QED
      BY <1>1, <1>2 DEF y
  <2> QED
    BY <2>2, <2>3, <2>4
<1>5. i \in Nat /\ i <= c + 25 * (l - s) + 7
  <2> DEFINE y == 25 * l + 7
  <2>1. y \in (25 * s)..(25 * e) /\ y \in Nat /\ x <= y /\ y - 25 * s = 25 * (l - s) + 7
    BY <1>1
  <2>2. i = Before(d, x)
    BY DEF First
  <2> HIDE DEF x, y
  <2>3. Before(d, x) <= Before(d, y) /\ Before(d, x) \in Nat
    BY <1>1, <2>1, BeforeGrows, BeforeFacts
  <2>4. Before(d, y) = c + y - 25 * s
    BY <2>1, CalledSteady
  <2>5. c + y - 25 * s = c + 25 * (l - s) + 7
    <3> HIDE DEF c
    <3> QED
      BY <1>1, <2>1
  <2> QED
    BY <2>2, <2>3, <2>4, <2>5
<1>6. j = b /\ ~(j - i < 5) /\ ~(j - i < 10) /\ j - 10 = z - 21
  <2>1. j = IF b < i THEN i ELSE b
    BY DEF End
  <2> HIDE DEF c, i, b, j, z
  <2> QED
    BY <1>1, <1>2, <1>4, <1>5, <2>1, SMTT(20)
<1>7. Index(d, i) \in Nat /\ Index(d, i) < 25 * l + 8
  <2> DEFINE v == l + 1
  <2>1. v \in 1..Len(d) /\ v \in (s + 1)..(e + 1) /\ v \in (s + 1)..e /\ v - 1 = l
        /\ v - (s + 1) = l - s
    BY <1>1
  <2> HIDE DEF v, x, c, i, b, j, z
  <2>2. d[v] = 25 /\ 8 <= d[v]
    BY <1>1, <2>1, SMTT(20) DEF Span
  <2>3. Sums(d)[v] = c + 25 * (l - s)
    <3> DEFINE a == s + 1
    <3>1. a \in 1..Len(d) + 1 /\ Span(d, a, e, 25) /\ v \in a..(e + 1) /\ v - a = l - s
      BY <1>1, <2>1
    <3> HIDE DEF a
    <3>2. Sums(d)[v] = Sums(d)[a] + 25 * (v - a)
      BY ONLY <1>1, <3>1, e \in Nat, SumsOfSpan
    <3> QED
      BY <3>1, <3>2 DEF a, c
  <2>4. i < Sums(d)[v] + 8
    BY <1>1, <1>5, <2>3
  <2>5. Index(d, i) \in Nat /\ Index(d, i) < 25 * (v - 1) + 8
    BY <1>1, <1>5, <2>1, <2>2, <2>4, IndexBelow
  <2> QED
    BY <2>1, <2>5
<1>8. Index(d, j - 10) = 25 * e - 21
  <2> DEFINE n == j - 10
  <2>1. n \in Nat /\ c <= n /\ n < c + 25 * (e - s) /\ 25 * s + n - c = 25 * e - 21
    <3>1. n = z - 21
      BY <1>6
    <3> HIDE DEF c, z, n
    <3> QED
      BY <1>1, <1>2, <3>1
  <2> HIDE DEF n
  <2>2. Index(d, n) = 25 * s + n - c
    BY <2>1, CalledSteady
  <2> QED
    BY <2>1, <2>2 DEF n
<1>9. ~(Index(d, j - 10) < Index(d, i) + 575)
  <2> DEFINE p == Index(d, i)
  <2> HIDE DEF p
  <2>1. ~(25 * e - 21 < p + 575)
    BY <1>1, <1>7 DEF p
  <2> QED
    BY <1>8, <2>1 DEF p
<1>10. ~(w.to - w.from < 25)
  <2> DEFINE from == w.from
             to == w.to
  <2>1. from \in Nat /\ from + 1 <= 25 * l + 7 /\ to = 25 * e - 11
    BY <1>3
  <2> HIDE DEF from, to
  <2>2. ~(to - from < 25)
    BY <1>1, <2>1
  <2> QED
    BY <2>2 DEF from, to
<1> QED
  BY <1>6, <1>9, <1>10 DEF Unbroken, DidCallBreak, Seconds

\* A call that did not break has a row, and the row does not say it did, but for
\* the calls that GoodRunsHaveRows leaves out (getToLeftTrafficClasses,
\* process_file).
THEOREM GoodRunsAreKept == Spec => []GoodRunsHaveRows
<1>1. ASSUME DataInv PROVE GoodRunsHaveRows
  <2> SUFFICES ASSUME row.kind # "none", broke = 0, ~(retried /\ config.scenario \in TcpFirst),
                      config.scenario = "JUST_CALL" => Size(call) >= 950
               PROVE  row.kind = "row" /\ ~row.didCallBreak
    BY DEF GoodRunsHaveRows, Full, TicksPerInterval
  <2>1. row # None
    BY DEF None
  <2>2. PICK d, w, q : \E g, s, e, t, k \in Nat : Measured(d, w, q, g, s, e, t, k)
    BY <1>1, <2>1, RowIs
  <2>3. PICK g \in Nat, s \in Nat, e \in Nat, t \in Nat, k \in Nat :
          Measured(d, w, q, g, s, e, t, k)
    BY <2>2
  <2>4. /\ Finished(d, g, s, e) /\ Called(d, g, s, e) /\ Called(call, g, s, e)
        /\ g \in 1..s /\ s < e /\ e <= Len(d) /\ Len(d) = Len(call)
        /\ s + 36 <= e /\ Span(call, e + 1, Len(call), 0) /\ Span(call, s, e, 25)
        /\ \A u \in 1..Len(call) : u # g => d[u] = call[u]
        /\ g < s => config.scenario \notin TcpFirst
    <3>1. Finished(d, g, s, e)
      BY <2>3 DEF Measured
    <3>2. /\ Called(d, g, s, e) /\ Called(call, g, s, e) /\ Len(d) = Len(call)
          /\ s + 36 <= e /\ Span(call, e + 1, Len(call), 0) /\ Span(call, s, e, 25)
          /\ \A u \in 1..Len(call) : u # g => d[u] = call[u]
          /\ g < s => retried
      BY <3>1 DEF Finished
    <3>3. g \in 1..s /\ s < e /\ e <= Len(d)
      BY <3>2 DEF Called
    <3> QED
      BY <3>1, <3>2, <3>3
  <2>5. Len(d) \in Nat /\ d \in Flows
    BY <2>4, FlowFacts DEF Called
  <2>6. w.from \in Nat /\ w.to \in Nat
    BY <2>3 DEF Measured
  <2>7. /\ Index(d, 11) \in Nat /\ 25 * (g - 1) <= Index(d, 11) /\ Index(d, 11) <= 25 * s + 6
        /\ g < s => Index(d, 11) <= 25 * (s - 1) + 6
    BY <2>4, CalledFacts
  <2>8. CASE config.scenario \in WithTcp
    <3>1. /\ t \in 1..k /\ t + 36 <= e /\ IF config.scenario \in TcpFirst THEN t = 1 ELSE s < t
      BY <2>3, <2>4, <2>8 DEF Measured, TcpFinished
    <3> DEFINE i == Index(d, 11)
    <3>2. PICK m \in Nat :
            /\ i <= m /\ 25 * (t - 1) + 11 <= m /\ (m = i \/ m = 25 * (t - 1) + 11)
            /\ w = [kind |-> "window", from |-> m + 150, to |-> m + 750]
      BY <2>3, <2>8 DEF Measured, TcpWindow
    <3> HIDE DEF i
    <3>3. i \in Nat /\ 25 * (g - 1) <= i /\ i <= 25 * s + 6
      BY <2>7 DEF i
    <3>4. 25 * s <= m + 151 /\ m + 750 <= 25 * e
      <4>1. CASE config.scenario \in TcpFirst
        <5>1. t = 1 /\ g = s
          BY <2>4, <3>1, <4>1
        <5> QED
          BY <2>4, <3>2, <3>3, <5>1
      <4>2. CASE config.scenario \notin TcpFirst
        <5>1. s < t /\ m = 25 * (t - 1) + 11
          BY <2>4, <3>1, <3>2, <3>3, <4>2
        <5> QED
          BY <2>4, <3>1, <5>1
      <4> QED
        BY <4>1, <4>2
    <3>5. w.from = m + 150 /\ w.to = m + 750
      BY <3>2
    <3>6. w.to = w.from + 600 /\ 25 * s <= w.from + 1 /\ w.to <= 25 * e
      BY <3>4, <3>5
    <3>7. Unbroken(d, w)
      BY <2>4, <2>6, <3>6, SteadyHolds
    <3> QED
      BY <2>3, <3>7, Zenon DEF Measured, Unbroken
  <2>9. CASE config.scenario \notin WithTcp
    <3>1. w.from = Index(d, 11) + Skipped /\ w.to = Index(d, Size(d) - 11)
      BY <2>3, <2>9 DEF Measured, AloneWindow
    <3>2. Span(d, e + 1, Len(d), 0)
      <4>1. \A u \in (e + 1)..Len(d) : u \in 1..Len(call) /\ u # g /\ u \in (e + 1)..Len(call)
        BY <2>4, <2>5
      <4> QED
        BY <2>4, <4>1 DEF Span
    <3>3. config.scenario = "JUST_CALL" /\ g = s => e >= s + 37
      <4> SUFFICES ASSUME config.scenario = "JUST_CALL", g = s PROVE e >= s + 37
        OBVIOUS
      <4>1. Size(call) >= 950
        OBVIOUS
      <4>2. call \in Flows /\ Len(call) \in Nat /\ call \in Seq(Nat)
        BY <2>4, FlowFacts DEF Called
      <4>3. Sums(call)[s] = 0 /\ Sums(call)[e + 1] = Sums(call)[s + 1] + 25 * (e - s)
        BY <2>4, CalledFacts
      <4>4. Sums(call)[s + 1] = 25
        <5>1. s \in 1..Len(call) /\ call[s] = 25
          BY <2>4, <2>5 DEF Span
        <5>2. Sums(call)[s + 1] = Sums(call)[s] + call[s]
          BY <4>2, <5>1, FlowFacts
        <5> QED
          BY <4>3, <5>1, <5>2
      <4>5. Size(call) = Sums(call)[e + 1]
        <5> DEFINE a == e + 1
                   u == Len(call) + 1
                   y == Len(call)
        <5>1. a \in 1..Len(call) + 1 /\ y \in Nat /\ y <= Len(call) /\ Span(call, a, y, 0)
              /\ u \in a..(y + 1)
          BY <2>4, <2>5, <4>2
        <5>2. Size(call) = Sums(call)[u]
          BY <4>2, FlowFacts
        <5> HIDE DEF a, u, y
        <5>3. Sums(call)[u] = Sums(call)[a] + 0 * (u - a)
          BY ONLY <4>2, <5>1, SumsOfSpan
        <5>4. 0 * (u - a) = 0 /\ Sums(call)[a] \in Nat
          BY <2>5, <4>2, <5>1, FlowFacts DEF a, u
        <5>5. Sums(call)[a] + 0 * (u - a) = Sums(call)[a]
          BY <5>4
        <5> QED
          BY <5>2, <5>3, <5>5, Zenon DEF a
      <4>6. 25 + 25 * (e - s) >= 950
        BY <4>1, <4>3, <4>4, <4>5
      <4> QED
        BY <4>6
    <3> DEFINE i == Index(d, 11)
               l == IF config.scenario # "JUST_CALL" THEN s ELSE IF g < s THEN s + 11 ELSE s + 12
    <3>4. l \in s..e /\ l + 25 <= e
      BY <2>4, <3>3
    <3>5. w.from + 1 <= 25 * l + 7
      <4>1. i \in Nat /\ i <= 25 * s + 6 /\ (g < s => i <= 25 * (s - 1) + 6) /\ w.from = i + Skipped
        BY <2>7, <3>1
      <4> HIDE DEF i
      <4>2. i + Skipped + 1 <= 25 * l + 7
        BY <2>4, <4>1 DEF Skipped
      <4> QED
        BY <4>1, <4>2
    <3> HIDE DEF i, l
    <3>6. Unbroken(d, w)
      BY <2>4, <2>6, <3>1, <3>2, <3>4, <3>5, AloneHolds
    <3> QED
      BY <2>3, <3>6, Zenon DEF Measured, Unbroken
  <2> QED
    BY <2>8, <2>9
<1> QED
  BY <1>1, DataAlways, PTL

\* The eleventh packet of a call comes no later than that of what the queue left
\* of it, and that one within five seconds.
LEMMA FirstPackets ==
  ASSUME NEW d, NEW g \in Nat, NEW e \in Nat, Finished(d, g, g, e)
  PROVE  /\ Index(call, 11) \in Nat /\ Index(d, 11) \in Nat
         /\ Index(call, 11) <= Index(d, 11) /\ Index(d, 11) <= Index(call, 11) + 25
<1>1. /\ Called(call, g, g, e) /\ Called(d, g, g, e) /\ call \in Flows /\ d \in Flows
      /\ g \in Nat \ {0} /\ g < e /\ e <= Len(call) /\ Len(d) = Len(call) /\ Len(call) \in Nat
      /\ Span(call, g, e, 25) /\ (d = call \/ d[g] = 5)
  BY FlowFacts DEF Finished, Called
<1>2. Index(call, 11) = 25 * (g - 1) + 11
  <2>1. Sums(call)[g] = 0
    BY <1>1, CalledFacts
  <2>2. g \in 1..Len(call) /\ e \in g..Len(call) /\ e + 1 - g >= 2
    BY <1>1
  <2>3. Sums(call)[g] <= 11 /\ 11 < Sums(call)[g] + 25 * (e + 1 - g)
    BY <2>1, <2>2
  <2>4. Index(call, 11) = 25 * (g - 1) + 11 - Sums(call)[g]
    BY <1>1, <2>2, <2>3, SteadyIndex
  <2> QED
    BY <1>1, <2>1, <2>4
<1>3. Index(call, 11) \in Nat
  BY <1>1, <1>2
<1>4. CASE d = call
  BY <1>3, <1>4
<1>5. CASE d # call
  <2>1. /\ Index(d, 11) \in Nat /\ Index(d, 11) <= 25 * g + 6
        /\ Sums(d)[g] = 0 /\ Sums(d)[g + 1] \in Nat
        /\ 5 <= Sums(d)[g + 1] /\ Size(d) \in Nat /\ Sums(d)[g + 1] + 25 * (e - g) <= Size(d)
    BY <1>1, CalledFacts
  <2>2. Sums(d)[g + 1] = 5
    <3>1. g \in 1..Len(d) /\ d[g] = 5
      BY <1>1, <1>5
    <3>2. Sums(d)[g + 1] = Sums(d)[g] + d[g]
      BY <1>1, <3>1, FlowFacts
    <3> QED
      BY <2>1, <3>1, <3>2
  <2> DEFINE v == g + 1
  <2>3. v \in 1..Len(d) + 1 /\ Sums(d)[v] <= 11 /\ 11 < Size(d) /\ v - 1 = g
    BY <1>1, <2>1, <2>2
  <2> HIDE DEF v
  <2>4. 25 * (v - 1) <= Index(d, 11)
    BY <1>1, <2>3, IndexAbove
  <2>5. 25 * g <= Index(d, 11)
    BY <2>3, <2>4
  <2> QED
    BY <1>1, <1>2, <1>3, <2>1, <2>5, SMTT(20)
<1> QED
  BY <1>4, <1>5

\* The eleventh packet from the end of a call is the same one for both.
LEMMA LastPackets ==
  ASSUME NEW d, NEW g \in Nat, NEW s \in Nat, NEW e \in Nat, Finished(d, g, s, e)
  PROVE  Index(call, Size(call) - 11) = Index(d, Size(d) - 11)
<1>1. /\ Called(call, g, s, e) /\ Called(d, g, s, e) /\ call \in Flows /\ d \in Flows
      /\ g \in 1..s /\ s < e /\ e <= Len(call) /\ Len(d) = Len(call) /\ Len(call) \in Nat
      /\ call \in Seq(Nat)
      /\ \A u \in 1..Len(call) : u # g => d[u] = call[u]
  BY FlowFacts DEF Finished, Called
<1> DEFINE n == Size(call) - 11
           o == Size(d) - 11
           h == g + 1
<1>2. h \in 1..Len(call) + 1 /\ s + 1 \in h..Len(call) + 1 /\ s + 1 \in 1..Len(call) + 1
      /\ \A u \in h..Len(call) : d[u] = call[u]
  BY <1>1
<1>3. n \in Nat /\ n < Size(call) /\ Sums(call)[h] <= n
  <2> DEFINE x == Sums(call)[s + 1]
             y == Sums(call)[h]
             z == Size(call)
  <2>1. x \in Nat /\ z \in Nat /\ x + 25 * (e - s) <= z
    BY <1>1, CalledFacts
  <2>2. y \in Nat
    BY <1>1, <1>2, FlowFacts
  <2>3. y <= x
    <3> DEFINE v == s + 1
    <3>1. h \in 1..Len(call) + 1 /\ v \in h..Len(call) + 1
      BY <1>2
    <3> HIDE DEF h, v
    <3>2. Sums(call)[h] <= Sums(call)[v]
      BY ONLY <1>1, <3>1, SumsGrow
    <3> QED
      BY <3>2 DEF v
  <2> HIDE DEF x, y, z
  <2>4. z - 11 \in Nat /\ z - 11 < z /\ y <= z - 11
    BY <1>1, <2>1, <2>2, <2>3
  <2> QED
    BY <2>4 DEF y, z
<1> HIDE DEF h
<1>4. PICK v \in 1..Len(call) :
        /\ Sums(call)[v] <= n /\ n < Sums(call)[v + 1]
        /\ Index(call, n) = 25 * (v - 1) + n - Sums(call)[v]
  <2> HIDE DEF n
  <2> QED
    BY <1>1, <1>3, IndexExists
<1>5. v >= h
  <2> SUFFICES ASSUME ~(v >= h) PROVE FALSE
    OBVIOUS
  <2> DEFINE w == v + 1
  <2>1. w \in 1..Len(call) + 1 /\ h \in w..Len(call) + 1
    BY <1>1, <1>2
  <2>2. n < Sums(call)[w]
    BY <1>4
  <2> HIDE DEF w, n
  <2>3. Sums(call)[w] <= Sums(call)[h]
    BY ONLY <1>1, <2>1, SumsGrow
  <2>4. Sums(call)[w] \in Nat /\ Sums(call)[h] \in Nat
    BY <1>1, <1>2, <2>1, FlowFacts
  <2> QED
    BY <1>3, <2>2, <2>3, <2>4
<1>6. ASSUME NEW u \in h..Len(call) + 1
      PROVE  Sums(d)[u] - Sums(d)[h] = Sums(call)[u] - Sums(call)[h]
  BY ONLY <1>1, <1>2, <1>6, SumsFollow
<1>7. /\ Sums(d)[v] = Sums(call)[v] - (Sums(call)[h] - Sums(d)[h])
      /\ Sums(d)[v + 1] = Sums(call)[v + 1] - (Sums(call)[h] - Sums(d)[h])
      /\ o = n - (Sums(call)[h] - Sums(d)[h])
      /\ Sums(d)[v] \in Nat /\ Sums(call)[v] \in Nat
  <2> DEFINE w == v + 1
             y == Len(call) + 1
             D(u) == Sums(d)[u]
             C(u) == Sums(call)[u]
  <2>1. v \in h..Len(call) + 1 /\ w \in h..Len(call) + 1 /\ y \in h..Len(call) + 1
        /\ v \in 1..Len(call) + 1 /\ w \in 1..Len(call) + 1 /\ y \in 1..Len(call) + 1
        /\ h \in 1..Len(call) + 1
    BY <1>1, <1>2, <1>5
  <2>2. Size(call) = Sums(call)[y] /\ Size(d) = Sums(d)[y]
    BY <1>1, FlowFacts
  <2> HIDE DEF w, y, n, o
  <2>3. /\ D(v) - D(h) = C(v) - C(h) /\ D(w) - D(h) = C(w) - C(h) /\ D(y) - D(h) = C(y) - C(h)
    BY <1>6, <2>1
  <2>4. \A u \in {v, w, y, h} : C(u) \in Nat /\ D(u) \in Nat
    BY <1>1, <2>1, FlowFacts
  <2> HIDE DEF C, D
  <2>5. ASSUME NEW a \in {v, w, y}
        PROVE  D(a) = C(a) - (C(h) - D(h)) /\ D(a) - 11 = C(a) - 11 - (C(h) - D(h))
    <3> DEFINE k == D(a)
               l == C(a)
               i == D(h)
               j == C(h)
    <3>1. k \in Nat /\ l \in Nat /\ i \in Nat /\ j \in Nat /\ k - i = l - j
      BY <2>3, <2>4
    <3> HIDE DEF k, l, i, j
    <3>2. k = l - (j - i) /\ k - 11 = l - 11 - (j - i)
      BY <3>1
    <3> QED
      BY <3>2 DEF k, l, i, j
  <2> QED
    BY <2>2, <2>4, <2>5 DEF C, D, w, n, o
<1>8. o \in Nat
  <2> DEFINE x == Sums(d)[s + 1]
             z == Size(d)
  <2>1. x \in Nat /\ 5 <= x /\ z \in Nat /\ x + 25 * (e - s) <= z
    BY <1>1, CalledFacts
  <2> HIDE DEF x, z
  <2>2. z - 11 \in Nat
    BY <1>1, <2>1
  <2> QED
    BY <2>2 DEF z
<1> DEFINE p == Sums(call)[v]
           r == Sums(call)[v + 1]
           x == Sums(d)[v]
           z == Sums(d)[v + 1]
<1>9. PICK m : m = Sums(call)[h] - Sums(d)[h]
  OBVIOUS
<1>10. m \in Int
  <2>1. Sums(call)[h] \in Nat /\ Sums(d)[h] \in Nat
    BY <1>1, <1>2, FlowFacts
  <2> QED
    BY <1>9, <2>1
<1>11. /\ x = p - m /\ z = r - m /\ o = n - m /\ p \in Nat /\ x \in Nat /\ p <= n /\ n < r
       /\ r \in Nat
  <2>1. v + 1 \in 1..Len(call) + 1
    BY <1>1
  <2>2. r \in Nat
    BY <1>1, <2>1, FlowFacts
  <2> QED
    BY <1>4, <1>7, <1>9, <2>2
<1> HIDE DEF n, o, p, r, x, z
<1>12. x <= o /\ o < z /\ o - x = n - p
  BY <1>3, <1>10, <1>11
<1>13. Index(d, o) = 25 * (v - 1) + o - x
  BY <1>1, <1>8, <1>12, IndexIs DEF x, z
<1>14. Index(call, n) = 25 * (v - 1) + n - p
  BY <1>4 DEF p
<1>15. 25 * (v - 1) + n - p = 25 * (v - 1) + o - x
  BY <1>3, <1>8, <1>11, <1>12
<1> QED
  BY <1>13, <1>14, <1>15 DEF n, o

\* The drop rates of a row with a clear start are of the time its other values
\* are of (process_file).
THEOREM DropsAreOfTheirTime == Spec => []DropsAreOfThatTime
<1>1. ASSUME DataInv PROVE DropsAreOfThatTime
  <2> SUFFICES ASSUME row.kind = "row", StartIsClear
               PROVE  /\ row.enqueued.from <= row.window.from
                      /\ row.window.from <= row.enqueued.from + 25
                      /\ row.window.to <= row.enqueued.to + 25
    BY DEF DropsAreOfThatTime, Seconds
  <2>1. row # None
    BY DEF None
  <2>2. PICK d, w, q : \E g, s, e, t, k \in Nat : Measured(d, w, q, g, s, e, t, k)
    BY <1>1, <2>1, RowIs
  <2>3. PICK g \in Nat, s \in Nat, e \in Nat, t \in Nat, k \in Nat :
          Measured(d, w, q, g, s, e, t, k)
    BY <2>2
  <2>4. /\ Finished(d, g, s, e) /\ row.window = w /\ row.enqueued = q
        /\ w.from \in Nat /\ w.to \in Nat /\ q.from \in Nat /\ q.to \in Nat
        /\ Called(d, g, s, e) /\ Called(call, g, s, e) /\ g \in 1..s
        /\ g < s => config.scenario \in WithTcp \ TcpFirst
    BY <2>3 DEF Measured, Finished, Called, StartIsClear
  <2> DEFINE i == Index(d, 11)
             j == Index(call, 11)
  <2>5. i \in Nat /\ j \in Nat /\ i <= 25 * s + 6 /\ j <= 25 * s + 6
    BY <2>4, CalledFacts
  <2>6. g = s => j <= i /\ i <= j + 25
    BY <2>4, FirstPackets
  <2>7. CASE config.scenario \in WithTcp
    <3>1. t \in 1..k /\ IF config.scenario \in TcpFirst THEN t = 1 ELSE s < t
      BY <2>3, <2>7 DEF Measured, TcpFinished
    <3>2. PICK m \in Nat :
            /\ i <= m /\ 25 * (t - 1) + 11 <= m /\ (m = i \/ m = 25 * (t - 1) + 11)
            /\ w = [kind |-> "window", from |-> m + 150, to |-> m + 750]
      BY <2>3, <2>7 DEF Measured, TcpWindow
    <3>3. PICK n \in Nat :
            /\ j <= n /\ 25 * (t - 1) + 11 <= n /\ (n = j \/ n = 25 * (t - 1) + 11)
            /\ q = [kind |-> "window", from |-> n + 150, to |-> n + 750]
      BY <2>3, <2>7 DEF Measured, TcpWindow
    <3> HIDE DEF i, j
    <3>4. n <= m /\ m <= n + 25
      <4>1. CASE g = s
        BY <2>5, <2>6, <3>1, <3>2, <3>3, <4>1
      <4>2. CASE g # s
        <5>1. s < t
          BY <2>4, <3>1, <4>2
        <5> QED
          BY <2>5, <3>1, <3>2, <3>3, <5>1
      <4> QED
        BY <4>1, <4>2
    <3>5. w.from = m + 150 /\ w.to = m + 750 /\ q.from = n + 150 /\ q.to = n + 750
      BY <3>2, <3>3
    <3> QED
      BY <2>4, <3>4, <3>5
  <2>8. CASE config.scenario \notin WithTcp
    <3>1. /\ w.from = i + Skipped /\ w.to = Index(d, Size(d) - 11)
          /\ q.from = j + Skipped /\ q.to = Index(call, Size(call) - 11)
      BY <2>3, <2>8 DEF Measured, AloneWindow
    <3>2. g = s
      BY <2>4, <2>8
    <3>3. w.to = q.to
      BY <2>4, <3>1, LastPackets
    <3>4. Skipped \in Nat
      BY DEF Skipped
    <3> HIDE DEF i, j
    <3> QED
      BY <2>4, <2>5, <2>6, <3>1, <3>2, <3>3, <3>4
  <2> QED
    BY <2>7, <2>8
<1> QED
  BY <1>1, DataAlways, PTL

=============================================================================
