--------------------- MODULE ConcurrentDpiEngineProofs ---------------------
(***************************************************************************)
(* Proofs about ConcurrentDpiEngine and ShardedEngine, for any number of   *)
(* workers, any capacity, any hash function, any packets and any number of *)
(* captures.                                                               *)
(***************************************************************************)
EXTENDS ShardedEngine, FiniteSetTheorems, SequenceTheorems, TLAPS

\* The rounds of the folds: one feeds an engine a packet of the capture, one picks
\* the packets that are routed to one worker, one merges the report of a worker.
Feeding(packets, i, engine) == processParsedPacket(engine, packets[i])

Routing(env, i, kept) ==
    IF env.packets[i].has_ip /\ env.hash[env.packets[i].tuple] = env.worker
    THEN Append(kept, env.packets[i]) ELSE kept

Merging(env, i, dst) == mergeReportInto(dst, env.engines[env.order[i]].report)

Feeds == INSTANCE FoldLoop WITH Step <- Feeding, Pick <- Max
Routes == INSTANCE FoldLoop WITH Step <- Routing, Pick <- Max
Merges == INSTANCE FoldLoop WITH Step <- Merging, Pick <- Max

\* There is at least one worker.
LEMMA WorkersExist == num_workers \in Nat \ {0}
  BY ConcurrentAssumption DEF num_workers

\* An engine knows a flow after a packet if it knew it before or if the packet
\* is the flow's.
LEMMA FlowsGrow ==
    ASSUME NEW e, NEW p
    PROVE  DOMAIN processParsedPacket(e, p).flows \subseteq DOMAIN e.flows \cup {p.tuple}
  BY DEF processParsedPacket, Stored

\* Nothing is in flight to w exactly when its hands and its queue are empty
\* and LB is not pushing a packet of its.
LEMMA NothingInFlight ==
    ASSUME TypeOK, NEW w \in Workers
    PROVE  InFlight(w) = <<>> <=>
             /\ item[w] = <<>>
             /\ queues[w] = <<>>
             /\ outgoing # <<>> => Route(Head(outgoing)) # w
<1>. DEFINE pushed == IF outgoing # <<>> /\ Route(Head(outgoing)) = w THEN outgoing ELSE <<>>
<1>1. item[w] \in Seq(Packets) /\ queues[w] \in Seq(Packets) /\ outgoing \in Seq(Packets)
  <2>1. item[w] \in {<<>>} \cup {<<p>> : p \in Packets} /\ queues[w] \in Seq(Packets)
        /\ outgoing \in {<<>>} \cup {<<p>> : p \in Packets}
    BY DEF TypeOK
  <2>2. <<>> \in Seq(Packets) /\ \A p \in Packets : <<p>> \in Seq(Packets)
    OBVIOUS
  <2>. QED
    BY <2>1, <2>2
<1>2. pushed \in Seq(Packets)
  BY <1>1
<1>3. (item[w] \o queues[w]) \o pushed = <<>> <=> item[w] = <<>> /\ queues[w] = <<>> /\ pushed = <<>>
  <2>. HIDE DEF pushed
  <2>. QED
    BY <1>1, <1>2, ConcatEmptySeq, ConcatProperties
<1>4. InFlight(w) = (item[w] \o queues[w]) \o pushed
  BY DEF InFlight
<1>5. pushed = <<>> <=> (outgoing # <<>> => Route(Head(outgoing)) # w)
  OBVIOUS
<1>. QED
  BY <1>3, <1>4, <1>5

\* The initial states satisfy the invariant.
LEMMA InitInv == Init => IndInv
<1>. SUFFICES ASSUME Init PROVE IndInv
  OBVIOUS
<1>1. TypeOK
  BY ConcurrentAssumption DEF Init, TypeOK, queue_capacity
<1>2. FlowsStayWhole
  BY DEF Init, FlowsStayWhole, NewEngine
<1>3. ExitIsFinal
  BY DEF Init, ExitIsFinal, InFlight
<1>. QED
  BY <1>1, <1>2, <1>3 DEF Init, IndInv, ThreadsInStep, OwnPacketsOnly

-----------------------------------------------------------------------------
(* Every step preserves the invariant; one lemma for each kind of thread.  *)

\* A call of processFile that begins.
LEMMA StartInv == IndInv /\ Start => IndInv'
<1>. SUFFICES ASSUME IndInv, Start PROVE IndInv'
  OBVIOUS
<1>. USE DEF IndInv, Start
<1>1. item = [w \in Workers |-> <<>>]
  <2>1. \A w \in Workers : item[w] = <<>>
    BY NothingInFlight DEF ExitIsFinal, ThreadsInStep
  <2>. QED
    BY <2>1 DEF TypeOK
<1>2. TypeOK'
  BY ConcurrentAssumption, outgoing \in {<<>>} DEF TypeOK, queue_capacity, ThreadsInStep
<1>3. ThreadsInStep' /\ ExitIsFinal'
  BY DEF ThreadsInStep, ExitIsFinal
<1>4. OwnPacketsOnly'
  BY <1>1 DEF OwnPacketsOnly
<1>5. FlowsStayWhole'
  BY DEF FlowsStayWhole, NewEngine
<1>. QED
  BY <1>2, <1>3, <1>4, <1>5

\* LB reads a packet.
LEMMA ReadInv == ASSUME NEW p \in Packets PROVE IndInv /\ Read(p) => IndInv'
<1>. SUFFICES ASSUME IndInv, Read(p) PROVE IndInv'
  OBVIOUS
<1>. USE DEF IndInv, Read
<1>1. TypeOK'
  BY DEF TypeOK
<1>2. ThreadsInStep' /\ ExitIsFinal'
  BY DEF ThreadsInStep, ExitIsFinal
<1>3. OwnPacketsOnly'
  BY DEF OwnPacketsOnly, Route
<1>4. FlowsStayWhole'
  BY DEF FlowsStayWhole
<1>. QED
  BY <1>1, <1>2, <1>3, <1>4

\* LB pushes it.
LEMMA PushInv == IndInv /\ Push => IndInv'
<1>. SUFFICES ASSUME IndInv, Push PROVE IndInv'
  OBVIOUS
<1>. USE DEF IndInv, Push, HandOver
<1>. DEFINE p == Head(outgoing)
            w == Route(p)
<1>1. p \in Packets /\ w \in Workers
  BY ConcurrentAssumption DEF TypeOK, Route
<1>2. queues'[w] = Append(queues[w], p) /\ \A v \in Workers \ {w} : queues'[v] = queues[v]
  BY <1>1 DEF TypeOK
<1>3. lb = "reading" /\ running = Workers
  BY DEF ThreadsInStep
<1>4. TypeOK'
  <2>1. queues' \in [Workers -> Seq(Packets)]
    BY <1>1 DEF TypeOK
  <2>2. Len(queues'[w]) = Len(queues[w]) + 1 /\ Len(queues[w]) \in Nat
    BY <1>1, <1>2 DEF TypeOK
  <2>3. \A v \in Workers : Len(queues'[v]) <= queue_capacity
    BY <1>2, <2>2, ConcurrentAssumption DEF TypeOK, queue_capacity
  <2>. QED
    BY <2>1, <2>3 DEF TypeOK
<1>5. ThreadsInStep' /\ ExitIsFinal'
  BY <1>3 DEF ThreadsInStep, ExitIsFinal
<1>6. OwnPacketsOnly'
  <2>1. ASSUME NEW v \in Workers, NEW i \in DOMAIN queues'[v]
        PROVE  shard[queues'[v][i].tuple] = v
    <3>1. CASE v # w
      BY <1>2, <2>1, <3>1 DEF OwnPacketsOnly, Route
    <3>2. CASE v = w
      <4>1. queues[w] \in Seq(Packets)
        BY <1>1 DEF TypeOK
      <4>2. i = Len(queues[w]) + 1 \/ i \in DOMAIN queues[w]
        BY <1>2, <2>1, <3>2, <4>1
      <4>3. i = Len(queues[w]) + 1 => queues'[w][i] = p
        BY <1>2, <4>1
      <4>4. i \in DOMAIN queues[w] => queues'[w][i] = queues[w][i]
        BY <1>2, <4>1
      <4>. QED
        BY <1>1, <3>2, <4>2, <4>3, <4>4 DEF OwnPacketsOnly, Route
    <3>. QED
      BY <3>1, <3>2
  <2>. QED
    BY <2>1 DEF OwnPacketsOnly, Route
<1>7. FlowsStayWhole'
  BY DEF FlowsStayWhole
<1>. QED
  BY <1>4, <1>5, <1>6, <1>7

\* The capture ends, a queue is closed, the reports are merged.
LEMMA EndInv == IndInv /\ (EndOfFile \/ (\E w \in Workers : Close(w)) \/ Merge) => IndInv'
<1>. SUFFICES ASSUME IndInv, EndOfFile \/ (\E w \in Workers : Close(w)) \/ Merge PROVE IndInv'
  OBVIOUS
<1>. USE DEF IndInv, EndOfFile, Close, Merge, MergeInto
<1>1. TypeOK'
  BY DEF TypeOK
<1>2. ThreadsInStep'
  BY DEF ThreadsInStep
<1>3. OwnPacketsOnly' /\ FlowsStayWhole'
  BY DEF OwnPacketsOnly, Route, FlowsStayWhole
<1>4. ExitIsFinal'
  BY DEF ExitIsFinal, InFlight, Route
<1>. QED
  BY <1>1, <1>2, <1>3, <1>4

-----------------------------------------------------------------------------
\* A worker pops a packet.
LEMMA PopInv == ASSUME NEW w \in Workers PROVE IndInv /\ Pop(w) => IndInv'
<1>. SUFFICES ASSUME IndInv, Pop(w) PROVE IndInv'
  OBVIOUS
<1>. USE DEF IndInv, Pop, lbVars, CanPop, Take
<1>1. queues[w] \in Seq(Packets) /\ Head(queues[w]) \in Packets
  BY DEF TypeOK
<1>2. /\ queues'[w] = Tail(queues[w]) /\ item'[w] = <<Head(queues[w])>>
      /\ \A v \in Workers \ {w} : queues'[v] = queues[v] /\ item'[v] = item[v]
  BY DEF TypeOK
<1>3. Len(Tail(queues[w])) = Len(queues[w]) - 1 /\ Len(queues[w]) \in Nat
  BY <1>1
<1>4. TypeOK'
  <2>1. queues' \in [Workers -> Seq(Packets)]
        /\ item' \in [Workers -> {<<>>} \cup {<<p>> : p \in Packets}]
    BY <1>1 DEF TypeOK
  <2>2. Len(queues'[w]) <= queue_capacity
    BY <1>2, <1>3, ConcurrentAssumption DEF TypeOK, queue_capacity
  <2>3. \A v \in Workers : Len(queues'[v]) <= queue_capacity
    BY <1>2, <2>2 DEF TypeOK
  <2>. QED
    BY <2>1, <2>3 DEF TypeOK
<1>5. ThreadsInStep'
  BY DEF ThreadsInStep
<1>6. OwnPacketsOnly'
  <2>1. ASSUME NEW v \in Workers, NEW i \in DOMAIN queues'[v]
        PROVE  shard[queues'[v][i].tuple] = v
    <3>1. CASE v # w
      BY <1>2, <2>1, <3>1 DEF OwnPacketsOnly, Route
    <3>2. CASE v = w
      <4>1. i \in 1..(Len(queues[w]) - 1)
        <5>1. i \in DOMAIN Tail(queues[w])
          BY <1>2, <2>1, <3>2
        <5>2. DOMAIN Tail(queues[w]) = 1..Len(Tail(queues[w]))
          BY <1>1
        <5>. QED
          BY <1>3, <5>1, <5>2
      <4>2. i + 1 \in DOMAIN queues[w] /\ Tail(queues[w])[i] = queues[w][i + 1]
        BY <1>1, <1>3, <4>1
      <4>. QED
        BY <1>2, <3>2, <4>2 DEF OwnPacketsOnly, Route
    <3>. QED
      BY <3>1, <3>2
  <2>2. shard[Head(item'[w]).tuple] = w
    <3>1. 1 \in DOMAIN queues[w] /\ Head(item'[w]) = queues[w][1]
      BY <1>1, <1>2
    <3>. QED
      BY <3>1 DEF OwnPacketsOnly, Route
  <2>. QED
    BY <1>2, <2>1, <2>2 DEF OwnPacketsOnly, Route
<1>7. FlowsStayWhole'
  BY DEF FlowsStayWhole
<1>8. ExitIsFinal'
  BY <1>2 DEF ExitIsFinal, InFlight, Route
<1>. QED
  BY <1>4, <1>5, <1>6, <1>7, <1>8

\* A worker feeds its engine.
LEMMA ProcessItemInv == ASSUME NEW w \in Workers PROVE IndInv /\ ProcessItem(w) => IndInv'
<1>. SUFFICES ASSUME IndInv, ProcessItem(w) PROVE IndInv'
  OBVIOUS
<1>. USE DEF IndInv, ProcessItem, lbVars, Feed
<1>. DEFINE p == Head(item[w])
<1>1. item'[w] = <<>> /\ \A v \in Workers \ {w} : item'[v] = item[v]
  BY DEF TypeOK
<1>2. TypeOK'
  BY DEF TypeOK
<1>3. ThreadsInStep'
  BY DEF ThreadsInStep
<1>4. OwnPacketsOnly'
  BY <1>1 DEF OwnPacketsOnly, Route
<1>5. FlowsStayWhole'
  <2>1. shard[p.tuple] = w
    BY DEF OwnPacketsOnly, Route
  <2>2. engines'[w] = processParsedPacket(engines[w], p)
        /\ \A v \in Workers \ {w} : engines'[v] = engines[v]
    BY DEF TypeOK
  <2>3. DOMAIN engines'[w].flows \subseteq DOMAIN engines[w].flows \cup {p.tuple}
    BY <2>2, FlowsGrow
  <2>. QED
    BY <2>1, <2>2, <2>3 DEF FlowsStayWhole
<1>6. ExitIsFinal'
  <2>1. w \in running
    BY NothingInFlight DEF ExitIsFinal
  <2>. QED
    BY <1>1, <2>1 DEF ExitIsFinal, InFlight, Route
<1>. QED
  BY <1>2, <1>3, <1>4, <1>5, <1>6

\* A worker leaves its loop.
LEMMA ExitInv == ASSUME NEW w \in Workers PROVE IndInv /\ Exit(w) => IndInv'
<1>. SUFFICES ASSUME IndInv, Exit(w) PROVE IndInv'
  OBVIOUS
<1>. USE DEF IndInv, Exit, lbVars, LeaveLoop
<1>1. TypeOK' /\ ThreadsInStep'
  BY DEF TypeOK, ThreadsInStep
<1>2. OwnPacketsOnly' /\ FlowsStayWhole'
  BY DEF OwnPacketsOnly, Route, FlowsStayWhole
<1>3. ExitIsFinal'
  <2>1. lb # "reading" /\ outgoing = <<>>
    BY DEF ThreadsInStep
  <2>2. InFlight(w) = <<>>
    BY <2>1, NothingInFlight
  <2>3. \A v \in Workers : InFlight(v)' = InFlight(v)
    BY DEF InFlight, Route
  <2>. QED
    BY <2>1, <2>2, <2>3 DEF ExitIsFinal
<1>. QED
  BY <1>1, <1>2, <1>3

\* The invariant is inductive.
LEMMA StepInv == IndInv /\ [Next]_vars => IndInv'
<1>. SUFFICES ASSUME IndInv, [Next]_vars PROVE IndInv'
  OBVIOUS
<1>1. CASE UNCHANGED vars
  BY <1>1 DEF IndInv, TypeOK, ThreadsInStep, OwnPacketsOnly, FlowsStayWhole, ExitIsFinal,
              InFlight, Route, vars
<1>2. CASE Start
  BY <1>2, StartInv
<1>3. CASE LbStep
  BY <1>3, ReadInv, PushInv, EndInv DEF LbStep
<1>4. ASSUME NEW w \in Workers, WorkerStep(w) PROVE IndInv'
  BY <1>4, PopInv, ProcessItemInv, ExitInv DEF WorkerStep
<1>. QED
  BY <1>1, <1>2, <1>3, <1>4 DEF Next

-----------------------------------------------------------------------------
\* The invariant that the theorems below are parts of: threads in step, packets
\* only where their hash sends them.
THEOREM ShardInvariance == Spec => []IndInv
  BY InitInv, StepInv, PTL DEF Spec

\* The variables have their types and no queue ever holds more than
\* queue_capacity_ packets (BoundedQueue's push waits).
THEOREM QueuesBounded == Spec => []TypeOK
<1>1. IndInv => TypeOK
  BY DEF IndInv
<1>. QED
  BY <1>1, ShardInvariance, PTL

\* Whatever the hash function and the order of the threads, no flow is ever
\* known to two engines.
THEOREM FlowsNeverSplit == Spec => []FlowsStayWhole
<1>1. IndInv => FlowsStayWhole
  BY DEF IndInv
<1>. QED
  BY <1>1, ShardInvariance, PTL

\* A worker's loop never ends before its last packet is processed, so joining
\* the workers is enough to have every packet in a report.
THEOREM NoPacketLeftBehind == Spec => []ExitIsFinal
<1>1. IndInv => ExitIsFinal
  BY DEF IndInv
<1>. QED
  BY <1>1, ShardInvariance, PTL

-----------------------------------------------------------------------------
(***************************************************************************)
(* What an engine has seen: folds over the packets.                        *)
(***************************************************************************)
\* Max picks the largest number.
LEMMA MaxPicks ==
    ASSUME NEW n \in Nat
    PROVE  Feeds!PicksLargest(1..n) /\ Routes!PicksLargest(1..n) /\ Merges!PicksLargest(1..n)
<1>1. ASSUME NEW T \in SUBSET (1..n), T # {} PROVE Max(T) \in T /\ \A y \in T : y <= Max(T)
  <2>1. IsFiniteSet(T) /\ T \subseteq Int
    <3>1. IsFiniteSet(1..n)
      BY FS_Interval
    <3>2. IsFiniteSet(T)
      BY <3>1, FS_Subset
    <3> QED BY <3>2
  <2>2. Feeds!IsFiniteSet(T)
    BY <2>1 DEF Feeds!IsFiniteSet, IsFiniteSet
  <2>3. \E x \in T : \A y \in T : y <= x
    BY <1>1, <2>1, <2>2, Feeds!LargestElement
  <2>4. \E x \in T : \A y \in T : x >= y
    BY <2>1, <2>3
  <2>5. Max(T) \in T /\ \A y \in T : Max(T) >= y
    BY <2>4 DEF Max
  <2> QED BY <2>1, <2>5
<1> QED BY <1>1 DEF Feeds!PicksLargest, Routes!PicksLargest, Merges!PicksLargest

\* The engine that has been fed these packets, and no other.
EngineOf(packets) == FoldLeft(processParsedPacket, NewEngine, packets)

\* It is a new engine if there are none.
LEMMA FeedNothing == EngineOf(<<>>) = NewEngine
<1>1. EngineOf(<<>>) = Feeds!Loop(<<>>, NewEngine, {})
  BY DEF EngineOf, FoldLeft, MapThenFoldSet, Feeds!Loop, Feeds!MapThenFoldSet, Feeding
<1> QED BY <1>1, Feeds!LoopEmpty

\* One packet more is one call of processParsedPacket more.
LEMMA FeedOneMore ==
    ASSUME NEW S, NEW packets \in Seq(S), NEW p \in S
    PROVE  EngineOf(Append(packets, p)) = processParsedPacket(EngineOf(packets), p)
<1> DEFINE n == Len(packets)
           more == Append(packets, p)
<1>1. /\ n \in Nat /\ DOMAIN packets = 1..n /\ DOMAIN more = 1..(n + 1)
      /\ more[n + 1] = p /\ \A i \in 1..n : more[i] = packets[i]
  OBVIOUS
<1>2. EngineOf(packets) = Feeds!Loop(packets, NewEngine, 1..n)
  BY <1>1 DEF EngineOf, FoldLeft, MapThenFoldSet, Feeds!Loop, Feeds!MapThenFoldSet, Feeding
<1>3. EngineOf(more) = Feeds!Loop(more, NewEngine, 1..(n + 1))
  <2> HIDE DEF more
  <2> QED BY <1>1 DEF EngineOf, FoldLeft, MapThenFoldSet, Feeds!Loop, Feeds!MapThenFoldSet, Feeding
<1>4. \A i \in 1..n : \A e : Feeding(more, i, e) = Feeding(packets, i, e)
  <2> HIDE DEF more
  <2> QED BY <1>1 DEF Feeding
<1> HIDE DEF n, more
<1>5. Feeds!Loop(more, NewEngine, 1..(n + 1)) = Feeding(more, n + 1, Feeds!Loop(packets, NewEngine, 1..n))
  <2>1. Feeds!PicksLargest(1..(n + 1))
    BY <1>1, MaxPicks
  <2> QED BY <1>1, <1>4, <2>1, Feeds!IntervalStep
<1> QED BY <1>1, <1>2, <1>3, <1>5 DEF Feeding, more

\* Nothing is routed to a worker when there is nothing.
LEMMA RouteNothing == ASSUME NEW hash, NEW w PROVE RoutedFrom(hash, <<>>, w) = <<>>
<1> DEFINE env == [packets |-> <<>>, hash |-> hash, worker |-> w]
<1>1. RoutedFrom(hash, <<>>, w) = Routes!Loop(env, <<>>, {})
  BY DEF RoutedFrom, FoldLeft, MapThenFoldSet, Routes!Loop, Routes!MapThenFoldSet, Routing
<1> QED BY <1>1, Routes!LoopEmpty

\* One packet more is the last of those routed to its worker.
LEMMA RouteOneMore ==
    ASSUME NEW hash, NEW w, NEW S, NEW packets \in Seq(S), NEW p \in S
    PROVE  RoutedFrom(hash, Append(packets, p), w) =
             IF p.has_ip /\ hash[p.tuple] = w THEN Append(RoutedFrom(hash, packets, w), p)
             ELSE RoutedFrom(hash, packets, w)
<1> DEFINE n == Len(packets)
           more == Append(packets, p)
           Env(s) == [packets |-> s, hash |-> hash, worker |-> w]
<1>1. /\ n \in Nat /\ DOMAIN packets = 1..n /\ DOMAIN more = 1..(n + 1)
      /\ more[n + 1] = p /\ \A i \in 1..n : more[i] = packets[i]
  OBVIOUS
<1>2. RoutedFrom(hash, packets, w) = Routes!Loop(Env(packets), <<>>, 1..n)
  BY <1>1 DEF RoutedFrom, FoldLeft, MapThenFoldSet, Routes!Loop, Routes!MapThenFoldSet, Routing
<1>3. RoutedFrom(hash, more, w) = Routes!Loop(Env(more), <<>>, 1..(n + 1))
  <2> HIDE DEF more
  <2> QED BY <1>1 DEF RoutedFrom, FoldLeft, MapThenFoldSet, Routes!Loop, Routes!MapThenFoldSet, Routing
<1>4. \A i \in 1..n : \A kept : Routing(Env(more), i, kept) = Routing(Env(packets), i, kept)
  <2> HIDE DEF more
  <2> QED BY <1>1 DEF Routing
<1>5. \A kept : Routing(Env(more), n + 1, kept) =
                  IF p.has_ip /\ hash[p.tuple] = w THEN Append(kept, p) ELSE kept
  <2> HIDE DEF more
  <2> QED BY <1>1 DEF Routing
<1> HIDE DEF n, more, Env
<1>6. Routes!Loop(Env(more), <<>>, 1..(n + 1))
        = Routing(Env(more), n + 1, Routes!Loop(Env(packets), <<>>, 1..n))
  <2>1. Routes!PicksLargest(1..(n + 1))
    BY <1>1, MaxPicks
  <2> QED BY <1>1, <1>4, <2>1, Routes!IntervalStep
<1> QED BY <1>2, <1>3, <1>5, <1>6 DEF more

-----------------------------------------------------------------------------
(***************************************************************************)
(* Packets stay in order: PipelineInOrder, in the form that is inductive.  *)
(***************************************************************************)
\* The packets in LB's hands, if they are for worker w.
Outgoing(w) == IF outgoing # <<>> /\ Route(Head(outgoing)) = w THEN outgoing ELSE <<>>

\* The packets done have been handled by w, those in flight come after.
InOrder(w, done) ==
    /\ done \in Seq(Packets)
    /\ done \o InFlight(w) = Routed(w)
    /\ engines[w] = EngineOf(done)

PipeInv == \A w \in Workers : \E done : InOrder(w, done)

\* The stages of the pipeline are sequences of packets.
LEMMA Stages ==
    ASSUME TypeOK, NEW w \in Workers
    PROVE  /\ item[w] \in Seq(Packets) /\ queues[w] \in Seq(Packets)
           /\ outgoing \in Seq(Packets) /\ Outgoing(w) \in Seq(Packets)
           /\ InFlight(w) = (item[w] \o queues[w]) \o Outgoing(w)
           /\ InFlight(w) \in Seq(Packets)
<1>1. item[w] \in {<<>>} \cup {<<p>> : p \in Packets} /\ queues[w] \in Seq(Packets)
      /\ outgoing \in {<<>>} \cup {<<p>> : p \in Packets}
  BY DEF TypeOK
<1>2. <<>> \in Seq(Packets) /\ \A p \in Packets : <<p>> \in Seq(Packets)
  OBVIOUS
<1>3. item[w] \in Seq(Packets) /\ outgoing \in Seq(Packets)
  BY <1>1, <1>2
<1>4. Outgoing(w) \in Seq(Packets)
  BY <1>2, <1>3 DEF Outgoing
<1>5. InFlight(w) = (item[w] \o queues[w]) \o Outgoing(w)
  BY DEF InFlight, Outgoing
<1>6. (item[w] \o queues[w]) \o Outgoing(w) \in Seq(Packets)
  BY <1>1, <1>3, <1>4, ConcatProperties
<1> QED BY <1>1, <1>3, <1>4, <1>5, <1>6

\* A packet that moves to the next stage leaves what is in flight as it was.
LEMMA SameInFlight ==
    ASSUME NEW w, InFlight(w)' = InFlight(w), Routed(w)' = Routed(w), engines'[w] = engines[w],
           NEW done, InOrder(w, done)
    PROVE  InOrder(w, done)'
BY DEF InOrder

\* LB reads a packet: it is the last of those of its worker.
LEMMA ReadInOrder ==
    ASSUME IndInv, NEW p \in Packets, Read(p), NEW w \in Workers, NEW done, InOrder(w, done)
    PROVE  InOrder(w, done)'
<1>1. /\ TypeOK /\ read \in Seq(Packets) /\ p.has_ip \in BOOLEAN
  BY ConcurrentAssumption DEF IndInv, TypeOK
<1>2. Routed(w)' = IF p.has_ip /\ shard[p.tuple] = w THEN Append(Routed(w), p) ELSE Routed(w)
  <2>1. Routed(w)' = RoutedFrom(shard, Append(read, p), w)
    BY DEF Read, Routed
  <2> QED BY <1>1, <2>1, RouteOneMore DEF Routed
<1>3. /\ item'[w] = item[w] /\ queues'[w] = queues[w] /\ engines'[w] = engines[w]
      /\ Outgoing(w) = <<>>
      /\ Outgoing(w)' = IF p.has_ip /\ shard[p.tuple] = w THEN <<p>> ELSE <<>>
  BY DEF Read, Outgoing, Route
<1> DEFINE front == item[w] \o queues[w]
<1>4. front \in Seq(Packets) /\ done \in Seq(Packets)
  BY <1>1, Stages, ConcatProperties DEF InOrder
<1>5. InFlight(w) = front
  <2>1. InFlight(w) = front \o <<>>
    BY <1>1, <1>3, Stages
  <2> QED BY <1>4, <2>1, ConcatEmptySeq
<1>6. InFlight(w)' = front \o Outgoing(w)'
  BY <1>3 DEF InFlight, Outgoing
<1> HIDE DEF front
<1>7. CASE p.has_ip /\ shard[p.tuple] = w
  <2>1. done \o (front \o <<p>>) = Append(done \o front, p)
    <3>1. <<p>> \in Seq(Packets)
      OBVIOUS
    <3>2. done \o (front \o <<p>>) = (done \o front) \o <<p>>
      BY <1>4, <3>1, ConcatAssociative
    <3>3. done \o front \in Seq(Packets)
      BY <1>4, ConcatProperties
    <3> QED BY <3>2, <3>3, AppendIsConcat
  <2> QED BY <1>2, <1>3, <1>5, <1>6, <1>7, <2>1 DEF InOrder
<1>8. CASE ~(p.has_ip /\ shard[p.tuple] = w)
  <2>1. InFlight(w)' = InFlight(w)
    BY <1>3, <1>4, <1>5, <1>6, <1>8, ConcatEmptySeq
  <2> QED BY <1>2, <1>3, <1>8, <2>1 DEF InOrder
<1> QED BY <1>7, <1>8

\* A new capture: every stage is empty and every engine is new.
LEMMA FreshInOrder ==
    ASSUME NEW w, RoutedFrom(shard, read, w)' = <<>>, engines'[w] = NewEngine,
           item'[w] = <<>>, queues'[w] = <<>>, outgoing' = <<>>
    PROVE  InOrder(w, <<>>)'
<1>1. Outgoing(w)' = <<>>
  BY DEF Outgoing
<1>2. InFlight(w)' = (<<>> \o <<>>) \o <<>>
  BY <1>1 DEF InFlight, Outgoing
<1>3. <<>> \in Seq(Packets)
  OBVIOUS
<1>4. <<>> \o InFlight(w)' = <<>>
  BY <1>2, <1>3, ConcatEmptySeq
<1> QED BY <1>3, <1>4, FeedNothing DEF InOrder, Routed

\* processFile starts with nothing in flight, whatever run came before.
LEMMA StartInOrder ==
    ASSUME IndInv, Start, NEW w \in Workers
    PROVE  InOrder(w, <<>>)'
<1>1. TypeOK /\ ThreadsInStep /\ lb = "idle"
  BY DEF IndInv, Start
<1>2. running = {} /\ outgoing = <<>>
  BY <1>1 DEF ThreadsInStep
<1>3. item[w] = <<>>
  <2>1. InFlight(w) = <<>>
    BY <1>1, <1>2 DEF IndInv, ExitIsFinal
  <2> QED BY <1>1, <2>1, NothingInFlight
<1>4. item'[w] = <<>> /\ queues'[w] = <<>> /\ engines'[w] = NewEngine /\ outgoing' = <<>> /\ read' = <<>>
  BY <1>2, <1>3 DEF Start
<1>5. RoutedFrom(shard, read, w)' = <<>>
  BY <1>4, RouteNothing
<1> QED BY <1>4, <1>5, FreshInOrder

\* A packet between the ends of two sequences belongs to either.
LEMMA LastOfThree ==
    ASSUME NEW S, NEW a \in Seq(S), NEW b \in Seq(S), NEW p \in S
    PROVE  a \o Append(b, p) = (a \o b) \o <<p>>
<1>1. \A one \in Seq(S) : a \o (b \o one) = (a \o b) \o one
  BY ConcatAssociative
<1>2. <<p>> \in Seq(S) /\ Append(b, p) = b \o <<p>>
  BY AppendIsConcat
<1> QED BY <1>1, <1>2

\* The same with the packet in front.
LEMMA FirstOfThree ==
    ASSUME NEW S, NEW b \in Seq(S), NEW c \in Seq(S), NEW p \in S
    PROVE  (<<p>> \o b) \o c = <<p>> \o (b \o c)
<1>1. \A one \in Seq(S) : (one \o b) \o c = one \o (b \o c)
  BY ConcatAssociative
<1>2. <<p>> \in Seq(S)
  OBVIOUS
<1> QED BY <1>1, <1>2

\* LB hands a packet over: it goes from LB's hands to the end of its queue.
LEMMA PushInOrder ==
    ASSUME IndInv, Push, NEW w \in Workers, NEW done, InOrder(w, done)
    PROVE  InOrder(w, done)'
<1>1. TypeOK
  BY DEF IndInv
<1>2. PICK p \in Packets : outgoing = <<p>>
  BY <1>1 DEF TypeOK, Push, HandOver
<1>3. Head(outgoing) = p /\ outgoing # <<>>
  BY <1>2
<1>4. /\ queues' = [queues EXCEPT ![Route(p)] = Append(@, p)] /\ outgoing' = <<>>
      /\ item' = item /\ engines' = engines /\ read' = read /\ shard' = shard
  BY <1>3 DEF Push, HandOver
<1>5. /\ item[w] \in Seq(Packets) /\ queues[w] \in Seq(Packets) /\ Outgoing(w) \in Seq(Packets)
      /\ InFlight(w) = (item[w] \o queues[w]) \o Outgoing(w)
  BY <1>1, Stages
<1>6. InFlight(w)' = item[w] \o queues'[w]
  <2>1. InFlight(w)' = (item[w] \o queues'[w]) \o <<>>
    BY <1>4 DEF InFlight
  <2>2. queues'[w] \in Seq(Packets)
    BY <1>1, <1>2, <1>4, <1>5 DEF TypeOK
  <2>3. item[w] \o queues'[w] \in Seq(Packets)
    BY <1>5, <2>2, ConcatProperties
  <2> QED BY <2>1, <2>3, ConcatEmptySeq
<1>7. InFlight(w)' = InFlight(w)
  <2>1. CASE Route(p) = w
    <3>1. queues'[w] = Append(queues[w], p)
      BY <1>1, <1>4, <2>1 DEF TypeOK
    <3>2. Outgoing(w) = <<p>>
      BY <1>2, <1>3, <2>1 DEF Outgoing
    <3>3. item[w] \o Append(queues[w], p) = (item[w] \o queues[w]) \o <<p>>
      <4>1. \A a, b \in Seq(Packets) : a \o Append(b, p) = (a \o b) \o <<p>>
        BY LastOfThree
      <4> QED BY <1>5, <4>1, Zenon
    <3> QED BY <1>5, <1>6, <3>1, <3>2, <3>3, Zenon
  <2>2. CASE Route(p) # w
    <3>1. queues'[w] = queues[w]
      BY <1>1, <1>4, <2>2 DEF TypeOK
    <3>2. Outgoing(w) = <<>>
      BY <1>3, <2>2 DEF Outgoing
    <3>3. item[w] \o queues[w] \in Seq(Packets)
      BY <1>5, ConcatProperties
    <3> QED BY <1>5, <1>6, <3>1, <3>2, <3>3, ConcatEmptySeq
  <2> QED BY <2>1, <2>2
<1>8. Routed(w)' = Routed(w) /\ engines'[w] = engines[w]
  BY <1>4 DEF Routed
<1> QED BY <1>7, <1>8, SameInFlight

\* A worker takes the head of its queue into its empty hands.
LEMMA PopInOrder ==
    ASSUME IndInv, NEW v \in Workers, Pop(v), NEW w \in Workers, NEW done, InOrder(w, done)
    PROVE  InOrder(w, done)'
<1>1. TypeOK
  BY DEF IndInv
<1>2. /\ item[v] = <<>> /\ queues[v] # <<>> /\ item' = [item EXCEPT ![v] = <<Head(queues[v])>>]
      /\ queues' = [queues EXCEPT ![v] = Tail(queues[v])]
      /\ outgoing' = outgoing /\ engines' = engines /\ read' = read /\ shard' = shard
  BY DEF Pop, CanPop, Take, lbVars
<1>3. item[w] \o queues[w] = item'[w] \o queues'[w]
  <2>1. CASE v = w
    <3>1. item'[w] = <<Head(queues[w])>> /\ queues'[w] = Tail(queues[w])
      BY <1>1, <1>2, <2>1 DEF TypeOK
    <3>2. queues[w] \in Seq(Packets) /\ queues[w] # <<>>
      BY <1>1, <1>2, <2>1 DEF TypeOK
    <3>3. <<>> \o queues[w] = queues[w]
      BY <3>2, ConcatEmptySeq
    <3>4. <<Head(queues[w])>> \o Tail(queues[w]) = queues[w]
      BY <3>2
    <3> QED BY <1>2, <2>1, <3>1, <3>3, <3>4
  <2>2. CASE v # w
    BY <1>1, <1>2, <2>2 DEF TypeOK
  <2> QED BY <2>1, <2>2
<1>4. InFlight(w)' = InFlight(w)
  <2>1. Outgoing(w)' = Outgoing(w)
    BY <1>2 DEF Outgoing, Route
  <2>2. InFlight(w) = (item[w] \o queues[w]) \o Outgoing(w)
        /\ InFlight(w)' = (item'[w] \o queues'[w]) \o Outgoing(w)'
    BY DEF InFlight, Outgoing
  <2> QED BY <1>3, <2>1, <2>2
<1>5. Routed(w)' = Routed(w) /\ engines'[w] = engines[w]
  BY <1>2 DEF Routed
<1> QED BY <1>4, <1>5, SameInFlight

\* A worker feeds its engine the oldest of the packets in flight.
LEMMA ProcessInOrder ==
    ASSUME IndInv, NEW w \in Workers, ProcessItem(w), NEW done, InOrder(w, done),
           NEW p \in Packets, item[w] = <<p>>
    PROVE  InOrder(w, Append(done, p))'
<1>1. TypeOK
  BY DEF IndInv
<1>2. p \in Packets /\ item[w] = <<p>>
  OBVIOUS
<1>3. Head(item[w]) = p
  BY <1>2
<1>4. /\ engines'[w] = processParsedPacket(engines[w], p) /\ item'[w] = <<>>
      /\ queues' = queues /\ outgoing' = outgoing /\ read' = read /\ shard' = shard
  BY <1>1, <1>3 DEF ProcessItem, Feed, TypeOK, lbVars
<1>5. /\ queues[w] \in Seq(Packets) /\ Outgoing(w) \in Seq(Packets) /\ <<p>> \in Seq(Packets)
      /\ InFlight(w) = (<<p>> \o queues[w]) \o Outgoing(w)
      /\ done \in Seq(Packets)
  BY <1>1, <1>2, Stages DEF InOrder
<1> DEFINE rest == queues[w] \o Outgoing(w)
<1>6. rest \in Seq(Packets)
  BY <1>5, ConcatProperties
<1>7. InFlight(w)' = rest
  <2>1. Outgoing(w)' = Outgoing(w)
    BY <1>4 DEF Outgoing, Route
  <2>2. InFlight(w)' = (<<>> \o queues[w]) \o Outgoing(w)'
    BY <1>4 DEF InFlight, Outgoing
  <2> QED BY <1>5, <2>1, <2>2, ConcatEmptySeq
<1>8. InFlight(w) = <<p>> \o rest
  BY <1>5, FirstOfThree
<1> HIDE DEF rest
<1>9. Append(done, p) \o rest = done \o InFlight(w) /\ Append(done, p) \in Seq(Packets)
  <2>1. Append(done, p) = done \o <<p>>
    BY <1>5, AppendIsConcat
  <2>2. (done \o <<p>>) \o rest = done \o (<<p>> \o rest)
    BY <1>5, <1>6, ConcatAssociative
  <2>3. Append(done, p) \in Seq(Packets)
    BY <1>2, <1>5
  <2> QED BY <1>8, <2>1, <2>2, <2>3
<1>10. engines'[w] = EngineOf(Append(done, p))
  BY <1>4, <1>5, FeedOneMore DEF InOrder
<1>11. Routed(w)' = Routed(w) /\ done \o InFlight(w) = Routed(w)
  BY <1>4 DEF Routed, InOrder
<1> QED BY <1>7, <1>9, <1>10, <1>11 DEF InOrder

\* The other steps move no packet.
LEMMA NothingMoves ==
    ASSUME NEW w \in Workers, NEW done, InOrder(w, done),
           item'[w] = item[w], queues'[w] = queues[w], engines'[w] = engines[w],
           outgoing' = outgoing, read' = read, shard' = shard
    PROVE  InOrder(w, done)'
<1>1. Routed(w)' = Routed(w)
  BY DEF Routed
<1>2. InFlight(w)' = InFlight(w)
  BY DEF InFlight, Route
<1> QED BY <1>1, <1>2, SameInFlight

\* Every step leaves the packets of a worker in order; only its ProcessItem adds
\* to those it has handled, and only Start forgets them.
LEMMA StepInOrder ==
    ASSUME IndInv, [Next]_vars, NEW w \in Workers, NEW done, InOrder(w, done)
    PROVE  \/ InOrder(w, done)'
           \/ files' # files /\ InOrder(w, <<>>)'
           \/ \E p \in Packets : item[w] = <<p>> /\ InOrder(w, Append(done, p))'
<1>1. CASE Start
  <2>1. files \in Nat /\ files' = files + 1
    BY <1>1, ConcurrentAssumption DEF IndInv, TypeOK, Start
  <2> QED BY <1>1, <2>1, StartInOrder
<1>2. ASSUME NEW p \in Packets, Read(p) PROVE InOrder(w, done)'
  BY <1>2, ReadInOrder
<1>3. CASE Push
  BY <1>3, PushInOrder
<1>4. CASE EndOfFile \/ (\E v \in Workers : Close(v)) \/ Merge
  BY <1>4, NothingMoves DEF EndOfFile, Close, Merge, MergeInto
<1>5. ASSUME NEW v \in Workers, Pop(v) PROVE InOrder(w, done)'
  BY <1>5, PopInOrder
<1>6. CASE ProcessItem(w)
  <2>1. PICK p \in Packets : item[w] = <<p>>
    BY <1>6 DEF IndInv, TypeOK, ProcessItem, Feed
  <2> QED BY <1>6, <2>1, ProcessInOrder
<1>7. ASSUME NEW v \in Workers, ProcessItem(v), v # w PROVE InOrder(w, done)'
  <2>1. item'[w] = item[w] /\ engines'[w] = engines[w]
    BY <1>7 DEF ProcessItem, Feed, IndInv, TypeOK
  <2>2. queues' = queues /\ outgoing' = outgoing /\ read' = read /\ shard' = shard
    BY <1>7 DEF ProcessItem, Feed, lbVars
  <2> QED BY <2>1, <2>2, NothingMoves
<1>8. ASSUME NEW v \in Workers, Exit(v) PROVE InOrder(w, done)'
  BY <1>8, NothingMoves DEF Exit, LeaveLoop, lbVars
<1>9. CASE UNCHANGED vars
  BY <1>9, NothingMoves DEF vars
<1> QED
  BY <1>1, <1>2, <1>3, <1>4, <1>5, <1>6, <1>7, <1>8, <1>9 DEF Next, LbStep, WorkerStep

\* So every step keeps the packets of every worker in order.
LEMMA PipeStep == IndInv /\ PipeInv /\ [Next]_vars => PipeInv'
<1> SUFFICES ASSUME IndInv, PipeInv, [Next]_vars, NEW w \in Workers'
             PROVE  (\E done : InOrder(w, done))'
  BY DEF PipeInv
<1>1. w \in Workers
  BY DEF Workers
<1>2. PICK done : InOrder(w, done)
  BY <1>1 DEF PipeInv
<1> QED BY <1>1, <1>2, StepInOrder

\* Initially no packet has been read.
LEMMA InitInOrder == ASSUME Init, NEW w \in Workers PROVE InOrder(w, <<>>)
<1>1. item[w] = <<>> /\ queues[w] = <<>> /\ engines[w] = NewEngine /\ outgoing = <<>> /\ read = <<>>
  BY DEF Init
<1>2. Routed(w) = <<>>
  BY <1>1, RouteNothing DEF Routed
<1>3. InFlight(w) = (<<>> \o <<>>) \o <<>> /\ <<>> \in Seq(Packets)
  BY <1>1 DEF InFlight
<1>4. <<>> \o InFlight(w) = <<>>
  BY <1>3, ConcatEmptySeq
<1> QED BY <1>1, <1>2, <1>3, <1>4, FeedNothing DEF InOrder

\* So the packets of every worker are in order.
LEMMA PipeInit == Init => PipeInv
  BY InitInOrder DEF PipeInv

\* Those handled are the packets that are not in flight.
LEMMA HandledIsDone ==
    ASSUME TypeOK, NEW w \in Workers, NEW done, InOrder(w, done)
    PROVE  Handled(w) = done
<1>1. done \in Seq(Packets) /\ InFlight(w) \in Seq(Packets) /\ Routed(w) = done \o InFlight(w)
  BY Stages DEF InOrder
<1> DEFINE a == done
           b == InFlight(w)
<1>2. Handled(w) = SubSeq(a \o b, 1, Len(a \o b) - Len(b))
  BY <1>1 DEF Handled
<1> HIDE DEF a, b
<1>3. SubSeq(a \o b, 1, Len(a \o b) - Len(b)) = a
  <2>1. a \in Seq(Packets) /\ b \in Seq(Packets)
    BY <1>1 DEF a, b
  <2> QED BY <2>1
<1> QED BY <1>2, <1>3 DEF a

\* In every interleaving, with any number of workers and any hash, no packet is
\* lost, duplicated or overtaken between the file and the engine of its worker.
THEOREM PacketsInOrder == Spec => []PipelineInOrder
<1>1. Init => PipeInv
  BY PipeInit
<1>2. IndInv /\ PipeInv /\ [Next]_vars => PipeInv'
  BY PipeStep
<1>3. IndInv /\ PipeInv => PipelineInOrder
  <2> SUFFICES ASSUME IndInv, PipeInv, NEW w \in Workers
               PROVE  /\ Handled(w) \o InFlight(w) = Routed(w)
                      /\ engines[w] = FoldLeft(processParsedPacket, NewEngine, Handled(w))
    BY DEF PipelineInOrder
  <2>1. PICK done : InOrder(w, done)
    BY DEF PipeInv
  <2>2. Handled(w) = done
    BY <2>1, HandledIsDone DEF IndInv
  <2> QED BY <2>1, <2>2 DEF InOrder, EngineOf
<1>. QED
  BY <1>1, <1>2, <1>3, ShardInvariance, PTL DEF Spec

-----------------------------------------------------------------------------
(***************************************************************************)
(* The same result as one engine: SameAsSequential.  First, what the lists *)
(* of a report contain, whatever their order.                              *)
(***************************************************************************)
\* A finite list, whatever it lists.
Listed(s) == \E S : s \in Seq(S)

\* How often x occurs in s.
Occurrences(s, x) == Cardinality({i \in DOMAIN s : s[i] = x})

\* A list ends, and is as long as its domain says.
LEMMA ListFacts ==
    ASSUME NEW s, Listed(s)
    PROVE  /\ Len(s) \in Nat /\ DOMAIN s = 1..Len(s)
           /\ \A x : /\ IsFiniteSet({i \in DOMAIN s : s[i] = x})
                     /\ Occurrences(s, x) \in Nat
<1>1. PICK S : s \in Seq(S)
  BY DEF Listed
<1>2. Len(s) \in Nat /\ DOMAIN s = 1..Len(s)
  BY <1>1
<1>3. ASSUME NEW x
      PROVE  IsFiniteSet({i \in DOMAIN s : s[i] = x}) /\ Occurrences(s, x) \in Nat
  <2> DEFINE at == {i \in DOMAIN s : s[i] = x}
  <2>1. IsFiniteSet(1..Len(s)) /\ at \in SUBSET (1..Len(s))
    BY <1>2, FS_Interval
  <2> HIDE DEF at
  <2>2. IsFiniteSet(at) /\ Cardinality(at) \in Nat
    BY <2>1, FS_Subset, FS_CardinalityType
  <2> QED BY <2>2 DEF at, Occurrences
<1> QED BY <1>2, <1>3

\* Two lists have a set of which both list elements.
LEMMA ListedTogether ==
    ASSUME NEW s, NEW r, Listed(s), Listed(r), NEW e
    PROVE  \E S : s \in Seq(S) /\ r \in Seq(S) /\ e \in S
<1>1. PICK S : s \in Seq(S)
  BY DEF Listed
<1>2. PICK R : r \in Seq(R)
  BY DEF Listed
<1> DEFINE U == S \cup R \cup {e}
<1>3. s \in Seq(U) /\ r \in Seq(U) /\ e \in U
  <2>1. \A i \in 1..Len(s) : s[i] \in U
    BY <1>1
  <2>2. \A i \in 1..Len(r) : r[i] \in U
    BY <1>2
  <2>3. s = [i \in 1..Len(s) |-> s[i]] /\ r = [i \in 1..Len(r) |-> r[i]]
        /\ Len(s) \in Nat /\ Len(r) \in Nat
    BY <1>1, <1>2
  <2> HIDE DEF U
  <2>4. s \in Seq(U)
    BY <2>1, <2>3
  <2>5. r \in Seq(U)
    BY <2>2, <2>3
  <2> QED BY <2>4, <2>5 DEF U
<1> QED BY <1>3

\* Lists in one another's continuation.
LEMMA Concatenated ==
    ASSUME NEW s, NEW r, Listed(s), Listed(r)
    PROVE  /\ Listed(s \o r)
           /\ Len(s \o r) = Len(s) + Len(r)
           /\ \A i \in 1..(Len(s) + Len(r)) :
                (s \o r)[i] = IF i <= Len(s) THEN s[i] ELSE r[i - Len(s)]
<1>1. PICK S : s \in Seq(S) /\ r \in Seq(S)
  BY ListedTogether
<1>2. s \o r \in Seq(S) /\ Len(s \o r) = Len(s) + Len(r)
  BY <1>1
<1>3. \A i \in 1..(Len(s) + Len(r)) : (s \o r)[i] = IF i <= Len(s) THEN s[i] ELSE r[i - Len(s)]
  BY <1>1
<1> QED BY <1>2, <1>3 DEF Listed

\* What occurs in two lists occurs as often in the list of both.
LEMMA OccurrencesAdd ==
    ASSUME NEW s, NEW r, Listed(s), Listed(r), NEW x
    PROVE  Occurrences(s \o r, x) = Occurrences(s, x) + Occurrences(r, x)
<1> DEFINE n == Len(s)
           m == Len(r)
           c == s \o r
           A == {i \in 1..n : s[i] = x}
           B == {i \in 1..m : r[i] = x}
           C == {i \in 1..(n + m) : c[i] = x}
           Shifted == {i \in (n + 1)..(n + m) : r[i - n] = x}
<1>1. n \in Nat /\ m \in Nat /\ DOMAIN s = 1..n /\ DOMAIN r = 1..m
      /\ IsFiniteSet(A) /\ IsFiniteSet(B) /\ IsFiniteSet(C) /\ DOMAIN c = 1..(n + m)
      /\ Cardinality(A) \in Nat /\ Cardinality(B) \in Nat
  <2>1. Listed(c) /\ Len(c) = n + m
    BY Concatenated
  <2> HIDE DEF c
  <2> QED BY <2>1, ListFacts DEF Occurrences
<1>2. \A i \in 1..(n + m) : c[i] = IF i <= n THEN s[i] ELSE r[i - n]
  BY Concatenated
<1> HIDE DEF n, m, c
<1>3. C = A \cup Shifted /\ A \cap Shifted = {}
  BY <1>1, <1>2
<1>4. IsFiniteSet(Shifted) /\ Cardinality(Shifted) = Cardinality(B)
  <2> DEFINE shift == [i \in B |-> i + n]
  <2>1. shift \in [B -> Shifted]
    BY <1>1
  <2>2. \A i, j \in B : shift[i] = shift[j] => i = j
    BY <1>1
  <2>3. \A j \in Shifted : \E i \in B : shift[i] = j
    <3> TAKE j \in Shifted
    <3>1. j - n \in B /\ (j - n) + n = j
      BY <1>1
    <3> QED BY <3>1
  <2> HIDE DEF shift, Shifted, B
  <2>4. shift \in Bijection(B, Shifted)
    BY <2>1, <2>2, <2>3 DEF Bijection, Injection, Surjection, IsInjective
  <2>5. ExistsBijection(B, Shifted)
    BY <2>4 DEF ExistsBijection
  <2> QED BY <1>1, <2>5, FS_Bijection
<1>5. Cardinality(C) = Cardinality(A) + Cardinality(B)
  <2> HIDE DEF A, B, C, Shifted
  <2>1. Cardinality(A \cup Shifted) = Cardinality(A) + Cardinality(Shifted) - Cardinality(A \cap Shifted)
    BY <1>1, <1>4, FS_Union
  <2>2. Cardinality(A \cap Shifted) = 0
    BY <1>3, FS_EmptySet
  <2>3. Cardinality(C) = Cardinality(A \cup Shifted)
    BY <1>3
  <2> QED BY <1>1, <1>4, <2>1, <2>2, <2>3
<1> QED BY <1>1, <1>5 DEF Occurrences, n, m, c

\* Lists in which everything occurs equally often are equal as bags.
LEMMA SameBag ==
    ASSUME NEW s, NEW r, Listed(s), Listed(r), \A x : Occurrences(s, x) = Occurrences(r, x)
    PROVE  ToBag(s) = ToBag(r)
<1>1. ASSUME NEW q, Listed(q), NEW x
      PROVE  x \in Range(q) <=> Occurrences(q, x) # 0
  <2> DEFINE at == {i \in DOMAIN q : q[i] = x}
  <2>1. x \in Range(q) <=> at # {}
    BY DEF Range
  <2>2. IsFiniteSet(at)
    BY <1>1, ListFacts
  <2> HIDE DEF at
  <2>3. Cardinality(at) # 0 <=> at # {}
    BY <2>2, FS_EmptySet
  <2> QED BY <2>1, <2>3 DEF Occurrences, at
<1>2. Range(s) = Range(r)
  BY <1>1
<1> QED BY <1>2 DEF ToBag, Occurrences

-----------------------------------------------------------------------------
(***************************************************************************)
(* Reports, and what merging them adds up.                                 *)
(***************************************************************************)
Counters == {"total_packets", "total_flows", "blocked_flows", "blocked_packets",
             "packet_latencies_ns"}
Lists == {"blocked_entries", "observed_snis"}

\* The record of these fields.
Report(packets, flows, condemned, blocked, entries, snis, samples) ==
    [total_packets |-> packets, total_flows |-> flows, blocked_flows |-> condemned,
     blocked_packets |-> blocked, blocked_entries |-> entries, observed_snis |-> snis,
     packet_latencies_ns |-> samples]

\* A record of these fields and no other.
HasFields(r) ==
    r = Report(r.total_packets, r.total_flows, r.blocked_flows, r.blocked_packets,
               r.blocked_entries, r.observed_snis, r.packet_latencies_ns)

\* A report with its counters and lists.
IsReport(r) ==
    /\ HasFields(r)
    /\ r.total_packets \in Nat /\ r.total_flows \in Nat /\ r.blocked_flows \in Nat
    /\ r.blocked_packets \in Nat /\ r.packet_latencies_ns \in Nat
    /\ Listed(r.blocked_entries) /\ Listed(r.observed_snis)

\* How much of something a report has: a counter, or the times x is in a list.
Amount(r, field, x) == IF field \in Counters THEN r[field] ELSE Occurrences(r[field], x)

\* Two reports say as much of everything.
SameAmounts(a, b) == \A field \in Counters \cup Lists : \A x : Amount(a, field, x) = Amount(b, field, x)

\* A list may be continued by nothing, by an element or by another list.
LEMMA NothingAdded == ASSUME NEW s, Listed(s) PROVE s \o <<>> = s
<1>1. PICK S : s \in Seq(S)
  BY DEF Listed
<1> QED BY <1>1, ConcatEmptySeq

\* Appending to the second of two lists appends to the two together.
LEMMA ListsGrow ==
    ASSUME NEW s, NEW r, Listed(s), Listed(r), NEW e
    PROVE  /\ Listed(Append(r, e)) /\ Listed(s \o r)
           /\ s \o Append(r, e) = Append(s \o r, e)
<1>1. PICK S : s \in Seq(S) /\ r \in Seq(S) /\ e \in S
  BY ListedTogether
<1>2. Append(r, e) \in Seq(S) /\ s \o r \in Seq(S)
  BY <1>1
<1>3. s \o Append(r, e) = Append(s \o r, e)
  <2>1. s \o Append(r, e) = (s \o r) \o <<e>>
    BY <1>1, LastOfThree
  <2>2. Append(s \o r, e) = (s \o r) \o <<e>>
    BY <1>1, <1>2, AppendIsConcat
  <2> QED BY <2>1, <2>2
<1> QED BY <1>2, <1>3 DEF Listed

\* An empty report is a report.
LEMMA EmptyIsReport == IsReport(EmptyReport)
<1>1. Listed(<<>>)
  <2>1. <<>> \in Seq({})
    OBVIOUS
  <2> QED BY <2>1 DEF Listed
<1> QED BY <1>1 DEF IsReport, EmptyReport, HasFields, Report

\* Merging adds every amount.
LEMMA MergeAdds ==
    ASSUME NEW a, NEW b, IsReport(a), IsReport(b)
    PROVE  /\ IsReport(mergeReportInto(a, b))
           /\ \A field \in Counters \cup Lists : \A x :
                /\ Amount(a, field, x) \in Nat
                /\ Amount(mergeReportInto(a, b), field, x) = Amount(a, field, x) + Amount(b, field, x)
<1> DEFINE m == mergeReportInto(a, b)
<1>1. /\ m.total_packets = a.total_packets + b.total_packets
      /\ m.total_flows = a.total_flows + b.total_flows
      /\ m.blocked_flows = a.blocked_flows + b.blocked_flows
      /\ m.blocked_packets = a.blocked_packets + b.blocked_packets
      /\ m.packet_latencies_ns = a.packet_latencies_ns + b.packet_latencies_ns
      /\ m.blocked_entries = a.blocked_entries \o b.blocked_entries
      /\ m.observed_snis = a.observed_snis \o b.observed_snis
      /\ HasFields(m)
  BY DEF mergeReportInto, HasFields, Report
<1> HIDE DEF m
<1>2. Listed(m.blocked_entries) /\ Listed(m.observed_snis)
  BY <1>1, ListsGrow DEF IsReport
<1>3. IsReport(m)
  <2>1. /\ m.total_packets \in Nat /\ m.total_flows \in Nat /\ m.blocked_flows \in Nat
        /\ m.blocked_packets \in Nat /\ m.packet_latencies_ns \in Nat
    <3>1. /\ a.total_packets \in Nat /\ a.total_flows \in Nat /\ a.blocked_flows \in Nat
          /\ a.blocked_packets \in Nat /\ a.packet_latencies_ns \in Nat
      BY DEF IsReport
    <3>2. /\ b.total_packets \in Nat /\ b.total_flows \in Nat /\ b.blocked_flows \in Nat
          /\ b.blocked_packets \in Nat /\ b.packet_latencies_ns \in Nat
      BY DEF IsReport
    <3>3. /\ m.total_packets = a.total_packets + b.total_packets
          /\ m.total_flows = a.total_flows + b.total_flows
          /\ m.blocked_flows = a.blocked_flows + b.blocked_flows
          /\ m.blocked_packets = a.blocked_packets + b.blocked_packets
          /\ m.packet_latencies_ns = a.packet_latencies_ns + b.packet_latencies_ns
      BY <1>1
    <3> QED BY <3>1, <3>2, <3>3
  <2> QED BY <1>1, <1>2, <2>1 DEF IsReport
<1>4. ASSUME NEW field \in Counters, NEW x
      PROVE  Amount(a, field, x) \in Nat /\ Amount(m, field, x) = Amount(a, field, x) + Amount(b, field, x)
  <2>1. field \in {"total_packets", "total_flows", "blocked_flows", "blocked_packets", "packet_latencies_ns"}
    BY <1>4 DEF Counters
  <2>2. \A r : Amount(r, field, x) = r[field]
    BY <1>4 DEF Amount
  <2>3. a[field] \in Nat /\ m[field] = a[field] + b[field]
    <3>1. CASE field = "total_packets"
      BY <1>1, <3>1 DEF IsReport
    <3>2. CASE field = "total_flows"
      BY <1>1, <3>2 DEF IsReport
    <3>3. CASE field = "blocked_flows"
      BY <1>1, <3>3 DEF IsReport
    <3>4. CASE field = "blocked_packets"
      BY <1>1, <3>4 DEF IsReport
    <3>5. CASE field = "packet_latencies_ns"
      BY <1>1, <3>5 DEF IsReport
    <3> QED BY <2>1, <3>1, <3>2, <3>3, <3>4, <3>5
  <2> QED BY <2>2, <2>3
<1>5. ASSUME NEW x
      PROVE  /\ Amount(a, "blocked_entries", x) \in Nat /\ Amount(a, "observed_snis", x) \in Nat
             /\ Amount(m, "blocked_entries", x)
                  = Amount(a, "blocked_entries", x) + Amount(b, "blocked_entries", x)
             /\ Amount(m, "observed_snis", x)
                  = Amount(a, "observed_snis", x) + Amount(b, "observed_snis", x)
  <2>1. \A r : /\ Amount(r, "blocked_entries", x) = Occurrences(r.blocked_entries, x)
               /\ Amount(r, "observed_snis", x) = Occurrences(r.observed_snis, x)
    BY DEF Amount, Counters
  <2>2. Occurrences(m.blocked_entries, x) = Occurrences(a.blocked_entries, x) + Occurrences(b.blocked_entries, x)
    BY <1>1, OccurrencesAdd DEF IsReport
  <2>3. Occurrences(m.observed_snis, x) = Occurrences(a.observed_snis, x) + Occurrences(b.observed_snis, x)
    BY <1>1, OccurrencesAdd DEF IsReport
  <2>4. Occurrences(a.blocked_entries, x) \in Nat /\ Occurrences(a.observed_snis, x) \in Nat
    BY ListFacts DEF IsReport
  <2> QED BY <2>1, <2>2, <2>3, <2>4
<1>6. ASSUME NEW field \in Lists, NEW x
      PROVE  Amount(a, field, x) \in Nat /\ Amount(m, field, x) = Amount(a, field, x) + Amount(b, field, x)
  BY <1>5 DEF Lists
<1> QED BY <1>3, <1>4, <1>6 DEF m

\* Reports that say as much of everything are the same up to the order.
LEMMA SameAmountsSuffice ==
    ASSUME NEW a, NEW b, IsReport(a), IsReport(b), SameAmounts(a, b)
    PROVE  SameUpToOrder(a, b)
<1>1. \A field \in Counters : a[field] = b[field]
  BY DEF SameAmounts, Amount
<1>2. \A x : Occurrences(a.blocked_entries, x) = Occurrences(b.blocked_entries, x)
             /\ Occurrences(a.observed_snis, x) = Occurrences(b.observed_snis, x)
  BY DEF SameAmounts, Amount, Counters, Lists
<1>3. ToBag(a.blocked_entries) = ToBag(b.blocked_entries) /\ ToBag(a.observed_snis) = ToBag(b.observed_snis)
  BY <1>2, SameBag DEF IsReport
<1> QED BY <1>1, <1>3 DEF SameUpToOrder, Counters

\* Both lists are continued by the same element, or neither is.
AlikeContinued(s, t, r, u) == (t = s /\ u = r) \/ \E e : t = Append(s, e) /\ u = Append(r, e)

\* The counters of q are those of r and so much more.
Raised(r, q, i, j, k, l, n) ==
    /\ HasFields(q)
    /\ q.total_packets = r.total_packets + i
    /\ q.total_flows = r.total_flows + j
    /\ q.blocked_flows = r.blocked_flows + k
    /\ q.blocked_packets = r.blocked_packets + l
    /\ q.packet_latencies_ns = r.packet_latencies_ns + n

\* c has more than b, and d more than m, by the same amounts.
AlikeRaised(b, c, m, d) ==
    /\ \E i, j, k, l, n \in Nat : Raised(b, c, i, j, k, l, n) /\ Raised(m, d, i, j, k, l, n)
    /\ AlikeContinued(b.blocked_entries, c.blocked_entries, m.blocked_entries, d.blocked_entries)
    /\ AlikeContinued(b.observed_snis, c.observed_snis, m.observed_snis, d.observed_snis)

\* One list behind another, by a name that the provers leave as it is.
Joined(s, r) == s \o r

\* A list that continues another continues it behind a third.
LEMMA ContinuedMerges ==
    ASSUME NEW p, NEW s, NEW r, Listed(p), Listed(s), r = Joined(p, s),
           NEW t, NEW u, AlikeContinued(s, t, r, u)
    PROVE  Listed(t) /\ u = Joined(p, t)
<1>1. \A e : Listed(Append(s, e)) /\ Joined(p, Append(s, e)) = Append(r, e)
  <2>1. ASSUME NEW e PROVE Listed(Append(s, e)) /\ Joined(p, Append(s, e)) = Append(Joined(p, s), e)
    BY ListsGrow DEF Joined
  <2> QED BY <2>1
<1> QED BY <1>1 DEF AlikeContinued

\* What is added to the second of two merged reports is added to the result.
LEMMA RaisedMerges ==
    ASSUME NEW a, NEW b, IsReport(a), IsReport(b), NEW c, NEW d,
           AlikeRaised(b, c, mergeReportInto(a, b), d)
    PROVE  IsReport(c) /\ d = mergeReportInto(a, c)
<1> DEFINE m == mergeReportInto(a, b)
           q == mergeReportInto(a, c)
<1>1. /\ m.total_packets = a.total_packets + b.total_packets
      /\ m.total_flows = a.total_flows + b.total_flows
      /\ m.blocked_flows = a.blocked_flows + b.blocked_flows
      /\ m.blocked_packets = a.blocked_packets + b.blocked_packets
      /\ m.packet_latencies_ns = a.packet_latencies_ns + b.packet_latencies_ns
  BY DEF mergeReportInto
<1>2. /\ q.total_packets = a.total_packets + c.total_packets
      /\ q.total_flows = a.total_flows + c.total_flows
      /\ q.blocked_flows = a.blocked_flows + c.blocked_flows
      /\ q.blocked_packets = a.blocked_packets + c.blocked_packets
      /\ q.packet_latencies_ns = a.packet_latencies_ns + c.packet_latencies_ns
  BY DEF mergeReportInto
<1>3. /\ m.blocked_entries = Joined(a.blocked_entries, b.blocked_entries)
      /\ m.observed_snis = Joined(a.observed_snis, b.observed_snis)
      /\ q.blocked_entries = Joined(a.blocked_entries, c.blocked_entries)
      /\ q.observed_snis = Joined(a.observed_snis, c.observed_snis)
      /\ HasFields(q)
  BY DEF mergeReportInto, HasFields, Report, Joined
<1>4. AlikeRaised(b, c, m, d)
  OBVIOUS
<1> HIDE DEF m, q
<1>5. /\ a.total_packets \in Nat /\ a.total_flows \in Nat /\ a.blocked_flows \in Nat
      /\ a.blocked_packets \in Nat /\ a.packet_latencies_ns \in Nat
  BY DEF IsReport
<1>6. /\ b.total_packets \in Nat /\ b.total_flows \in Nat /\ b.blocked_flows \in Nat
      /\ b.blocked_packets \in Nat /\ b.packet_latencies_ns \in Nat
  BY DEF IsReport
<1>7. PICK i, j, k, l, n \in Nat : Raised(b, c, i, j, k, l, n) /\ Raised(m, d, i, j, k, l, n)
  BY <1>4, Zenon DEF AlikeRaised
<1>8. /\ c.total_packets \in Nat /\ c.total_flows \in Nat /\ c.blocked_flows \in Nat
      /\ c.blocked_packets \in Nat /\ c.packet_latencies_ns \in Nat
  BY <1>6, <1>7 DEF Raised
<1>9. /\ d.total_packets = q.total_packets /\ d.total_flows = q.total_flows
      /\ d.blocked_flows = q.blocked_flows /\ d.blocked_packets = q.blocked_packets
      /\ d.packet_latencies_ns = q.packet_latencies_ns
  BY <1>1, <1>2, <1>5, <1>6, <1>7 DEF Raised
<1>10. /\ Listed(a.blocked_entries) /\ Listed(b.blocked_entries)
       /\ Listed(a.observed_snis) /\ Listed(b.observed_snis)
  BY DEF IsReport
<1>11. Listed(c.blocked_entries) /\ d.blocked_entries = q.blocked_entries
  <2>1. AlikeContinued(b.blocked_entries, c.blocked_entries, m.blocked_entries, d.blocked_entries)
    BY <1>4 DEF AlikeRaised
  <2>2. /\ Listed(a.blocked_entries) /\ Listed(b.blocked_entries) /\ m.blocked_entries = Joined(a.blocked_entries, b.blocked_entries)
    BY <1>3, <1>10
  <2>3. Listed(c.blocked_entries) /\ d.blocked_entries = Joined(a.blocked_entries, c.blocked_entries)
    BY <2>1, <2>2, ContinuedMerges
  <2>4. q.blocked_entries = Joined(a.blocked_entries, c.blocked_entries)
    BY <1>3
  <2> QED BY <2>3, <2>4
<1>12. Listed(c.observed_snis) /\ d.observed_snis = q.observed_snis
  <2>1. AlikeContinued(b.observed_snis, c.observed_snis, m.observed_snis, d.observed_snis)
    BY <1>4 DEF AlikeRaised
  <2>2. /\ Listed(a.observed_snis) /\ Listed(b.observed_snis) /\ m.observed_snis = Joined(a.observed_snis, b.observed_snis)
    BY <1>3, <1>10
  <2>3. Listed(c.observed_snis) /\ d.observed_snis = Joined(a.observed_snis, c.observed_snis)
    BY <2>1, <2>2, ContinuedMerges
  <2>4. q.observed_snis = Joined(a.observed_snis, c.observed_snis)
    BY <1>3
  <2> QED BY <2>3, <2>4
<1>13. HasFields(c) /\ HasFields(d)
  BY <1>7 DEF Raised
<1>14. IsReport(c)
  BY <1>8, <1>11, <1>12, <1>13 DEF IsReport
<1>15. d = q
  BY <1>3, <1>9, <1>11, <1>12, <1>13, Zenon DEF HasFields
<1> QED BY <1>14, <1>15 DEF q

\* The updates that processParsedPacket makes, by names that the provers leave.
Timed(r, v) == [r EXCEPT !.packet_latencies_ns = v]
Blocked(r, v) == [r EXCEPT !.blocked_packets = v]
Observed(r, v) == [r EXCEPT !.observed_snis = v]
Seen(r, v, w) == [r EXCEPT !.total_packets = v, !.total_flows = w]
Listing(r, v, w, x, y) ==
    [r EXCEPT !.blocked_flows = v, !.blocked_packets = w, !.blocked_entries = x,
              !.packet_latencies_ns = y]

\* They put another value in these fields and keep the others.
LEMMA Updates ==
    ASSUME NEW r, HasFields(r), NEW v, NEW w, NEW x, NEW y
    PROVE  /\ Timed(r, v) = Report(r.total_packets, r.total_flows, r.blocked_flows, r.blocked_packets,
                                   r.blocked_entries, r.observed_snis, v)
           /\ Blocked(r, v) = Report(r.total_packets, r.total_flows, r.blocked_flows, v,
                                     r.blocked_entries, r.observed_snis, r.packet_latencies_ns)
           /\ Observed(r, v) = Report(r.total_packets, r.total_flows, r.blocked_flows, r.blocked_packets,
                                      r.blocked_entries, v, r.packet_latencies_ns)
           /\ Seen(r, v, w) = Report(v, w, r.blocked_flows, r.blocked_packets,
                                     r.blocked_entries, r.observed_snis, r.packet_latencies_ns)
           /\ Listing(r, v, w, x, y) = Report(r.total_packets, r.total_flows, v, w, x, r.observed_snis, y)
<1>1. PICK a, b, c, d, e, f, g : r = Report(a, b, c, d, e, f, g)
  BY DEF HasFields
<1>2. /\ r.total_packets = a /\ r.total_flows = b /\ r.blocked_flows = c /\ r.blocked_packets = d
      /\ r.blocked_entries = e /\ r.observed_snis = f /\ r.packet_latencies_ns = g
  BY <1>1 DEF Report
<1>3. [Report(a, b, c, d, e, f, g) EXCEPT !.packet_latencies_ns = v] = Report(a, b, c, d, e, f, v)
  BY DEF Report
<1>4. [Report(a, b, c, d, e, f, g) EXCEPT !.blocked_packets = v] = Report(a, b, c, v, e, f, g)
  BY DEF Report
<1>5. [Report(a, b, c, d, e, f, g) EXCEPT !.observed_snis = v] = Report(a, b, c, d, e, v, g)
  BY DEF Report
<1>6. [Report(a, b, c, d, e, f, g) EXCEPT !.total_packets = v, !.total_flows = w]
        = Report(v, w, c, d, e, f, g)
  <2>1. [Report(a, b, c, d, e, f, g) EXCEPT !.total_packets = v] = Report(v, b, c, d, e, f, g)
    BY DEF Report
  <2>2. [Report(v, b, c, d, e, f, g) EXCEPT !.total_flows = w] = Report(v, w, c, d, e, f, g)
    BY DEF Report
  <2>3. \A q : [q EXCEPT !.total_packets = v, !.total_flows = w]
               = [[q EXCEPT !.total_packets = v] EXCEPT !.total_flows = w]
    OBVIOUS
  <2> QED BY <2>1, <2>2, <2>3
<1>7. [Report(a, b, c, d, e, f, g) EXCEPT !.blocked_flows = v, !.blocked_packets = w,
                !.blocked_entries = x, !.packet_latencies_ns = y]
        = Report(a, b, v, w, x, f, y)
  <2>1. [Report(a, b, c, d, e, f, g) EXCEPT !.blocked_flows = v] = Report(a, b, v, d, e, f, g)
    BY DEF Report
  <2>2. [Report(a, b, v, d, e, f, g) EXCEPT !.blocked_packets = w] = Report(a, b, v, w, e, f, g)
    BY DEF Report
  <2>3. [Report(a, b, v, w, e, f, g) EXCEPT !.blocked_entries = x] = Report(a, b, v, w, x, f, g)
    BY DEF Report
  <2>4. [Report(a, b, v, w, x, f, g) EXCEPT !.packet_latencies_ns = y] = Report(a, b, v, w, x, f, y)
    BY DEF Report
  <2>5. \A q : [q EXCEPT !.blocked_flows = v, !.blocked_packets = w, !.blocked_entries = x,
                         !.packet_latencies_ns = y]
               = [[[[q EXCEPT !.blocked_flows = v] EXCEPT !.blocked_packets = w]
                     EXCEPT !.blocked_entries = x] EXCEPT !.packet_latencies_ns = y]
    OBVIOUS
  <2> QED BY <2>1, <2>2, <2>3, <2>4, <2>5
<1> QED BY <1>1, <1>2, <1>3, <1>4, <1>5, <1>6, <1>7, Zenon DEF Timed, Blocked, Observed, Seen, Listing

\* The report r with so much more in its counters, and these lists.
Plus(r, i, j, k, l, entries, snis, n) ==
    Report(r.total_packets + i, r.total_flows + j, r.blocked_flows + k, r.blocked_packets + l,
           entries, snis, r.packet_latencies_ns + n)

\* Two reports that are so much more than two others are raised alike.
LEMMA RaisedAlike ==
    ASSUME NEW b, NEW m,
           NEW i \in Nat, NEW j \in Nat, NEW k \in Nat, NEW l \in Nat, NEW n \in Nat,
           NEW e, NEW f, NEW g, NEW h,
           AlikeContinued(b.blocked_entries, e, m.blocked_entries, g),
           AlikeContinued(b.observed_snis, f, m.observed_snis, h),
           NEW c, c = Plus(b, i, j, k, l, e, f, n), NEW d, d = Plus(m, i, j, k, l, g, h, n)
    PROVE  AlikeRaised(b, c, m, d)
<1>1. \A p, q, r, s, t, u, v :
        LET z == Report(p, q, r, s, t, u, v)
        IN  /\ z.total_packets = p /\ z.total_flows = q /\ z.blocked_flows = r /\ z.blocked_packets = s
            /\ z.blocked_entries = t /\ z.observed_snis = u /\ z.packet_latencies_ns = v
            /\ HasFields(z)
  BY DEF Report, HasFields
<1>2. Raised(b, c, i, j, k, l, n) /\ Raised(m, d, i, j, k, l, n)
  BY <1>1 DEF Raised, Plus
<1>3. c.blocked_entries = e /\ c.observed_snis = f /\ d.blocked_entries = g /\ d.observed_snis = h
  BY <1>1 DEF Plus
<1> QED BY <1>2, <1>3, Zenon DEF AlikeRaised

\* What processParsedPacket does to a report, as such sums.
LEMMA Sums ==
    ASSUME NEW r, IsReport(r), NEW j \in Nat, NEW x
    PROVE  /\ Timed(r, r.packet_latencies_ns + 1)
                = Plus(r, 0, 0, 0, 0, r.blocked_entries, r.observed_snis, 1)
           /\ Blocked(r, r.blocked_packets + 1)
                = Plus(r, 0, 0, 0, 1, r.blocked_entries, r.observed_snis, 0)
           /\ Observed(r, x) = Plus(r, 0, 0, 0, 0, r.blocked_entries, x, 0)
           /\ Seen(r, r.total_packets + 1, r.total_flows + j)
                = Plus(r, 1, j, 0, 0, r.blocked_entries, r.observed_snis, 0)
           /\ Listing(r, r.blocked_flows + 1, r.blocked_packets + 1, x, r.packet_latencies_ns + 1)
                = Plus(r, 0, 0, 1, 1, x, r.observed_snis, 1)
<1>1. /\ r.total_packets + 0 = r.total_packets /\ r.total_flows + 0 = r.total_flows
      /\ r.blocked_flows + 0 = r.blocked_flows /\ r.blocked_packets + 0 = r.blocked_packets
      /\ r.packet_latencies_ns + 0 = r.packet_latencies_ns
  BY DEF IsReport
<1>2. HasFields(r)
  BY DEF IsReport
<1>3. Timed(r, r.packet_latencies_ns + 1) = Plus(r, 0, 0, 0, 0, r.blocked_entries, r.observed_snis, 1)
  BY <1>1, <1>2, Updates DEF Plus
<1>4. Blocked(r, r.blocked_packets + 1) = Plus(r, 0, 0, 0, 1, r.blocked_entries, r.observed_snis, 0)
  BY <1>1, <1>2, Updates DEF Plus
<1>5. Observed(r, x) = Plus(r, 0, 0, 0, 0, r.blocked_entries, x, 0)
  BY <1>1, <1>2, Updates DEF Plus
<1>6. Seen(r, r.total_packets + 1, r.total_flows + j)
        = Plus(r, 1, j, 0, 0, r.blocked_entries, r.observed_snis, 0)
  BY <1>1, <1>2, Updates DEF Plus
<1>7. Listing(r, r.blocked_flows + 1, r.blocked_packets + 1, x, r.packet_latencies_ns + 1)
        = Plus(r, 0, 0, 1, 1, x, r.observed_snis, 1)
  BY <1>1, <1>2, Updates DEF Plus
<1> QED BY <1>3, <1>4, <1>5, <1>6, <1>7

\* The packet passes: one more sample.
LEMMA PassRaises ==
    ASSUME NEW b, NEW m, IsReport(b), IsReport(m), NEW flow, NEW other
    PROVE  AlikeRaised(b, Pass(flow, b).report, m, Pass(other, m).report)
<1>1. ASSUME NEW r, IsReport(r), NEW f
      PROVE  Pass(f, r).report = Plus(r, 0, 0, 0, 0, r.blocked_entries, r.observed_snis, 1)
  BY <1>1, Sums, 0 \in Nat DEF Pass, Timed
<1>2. \A s, r : AlikeContinued(s, s, r, r)
  BY DEF AlikeContinued
<1> HIDE DEF Pass
<1> QED BY <1>1, <1>2, 0 \in Nat, 1 \in Nat, RaisedAlike

\* The packet condemns its flow: an entry, and one more of three counters.
LEMMA CondemnRaises ==
    ASSUME NEW b, NEW m, IsReport(b), IsReport(m), NEW flow, NEW other, NEW p, NEW reason
    PROVE  AlikeRaised(b, Condemn(flow, b, p, reason).report, m, Condemn(other, m, p, reason).report)
<1>1. ASSUME NEW r, IsReport(r), NEW f
      PROVE  Condemn(f, r, p, reason).report
               = Plus(r, 0, 0, 1, 1, Append(r.blocked_entries, <<p.tuple, reason>>), r.observed_snis, 1)
  BY <1>1, Sums, 0 \in Nat DEF Condemn, Condemned, Listing
<1>2. \A s, r, e : AlikeContinued(s, s, r, r) /\ AlikeContinued(s, Append(s, e), r, Append(r, e))
  BY DEF AlikeContinued
<1> QED BY <1>1, <1>2, 0 \in Nat, 1 \in Nat, RaisedAlike

\* A packet of a condemned flow is counted.
LEMMA BlockedRaises ==
    ASSUME NEW b, NEW m, IsReport(b), IsReport(m)
    PROVE  AlikeRaised(b, [b EXCEPT !.blocked_packets = @ + 1], m, [m EXCEPT !.blocked_packets = @ + 1])
<1>1. ASSUME NEW r, IsReport(r)
      PROVE  [r EXCEPT !.blocked_packets = @ + 1]
               = Plus(r, 0, 0, 0, 1, r.blocked_entries, r.observed_snis, 0)
  BY <1>1, Sums, 0 \in Nat DEF Blocked
<1>2. \A s, r : AlikeContinued(s, s, r, r)
  BY DEF AlikeContinued
<1> QED BY <1>1, <1>2, 0 \in Nat, 1 \in Nat, RaisedAlike

\* A name that no rule matches is listed.
LEMMA ObservedRaises ==
    ASSUME NEW b, NEW m, IsReport(b), IsReport(m), NEW sni
    PROVE  AlikeRaised(b, [b EXCEPT !.observed_snis = Append(@, sni)],
                       m, [m EXCEPT !.observed_snis = Append(@, sni)])
<1>1. ASSUME NEW r, IsReport(r)
      PROVE  [r EXCEPT !.observed_snis = Append(@, sni)]
               = Plus(r, 0, 0, 0, 0, r.blocked_entries, Append(r.observed_snis, sni), 0)
  BY <1>1, Sums, 0 \in Nat DEF Observed
<1>2. \A s, r, e : AlikeContinued(s, s, r, r) /\ AlikeContinued(s, Append(s, e), r, Append(r, e))
  BY DEF AlikeContinued
<1> DEFINE c == [b EXCEPT !.observed_snis = Append(@, sni)]
           d == [m EXCEPT !.observed_snis = Append(@, sni)]
<1>3. /\ c = Plus(b, 0, 0, 0, 0, b.blocked_entries, Append(b.observed_snis, sni), 0)
      /\ d = Plus(m, 0, 0, 0, 0, m.blocked_entries, Append(m.observed_snis, sni), 0)
  BY <1>1
<1>4. AlikeRaised(b, c, m, d)
  <2> HIDE DEF c, d
  <2> QED BY <1>2, <1>3, 0 \in Nat, RaisedAlike
<1> QED BY <1>4

\* Every packet is counted, and the flow if it is new.
Counted(r, known) == [r EXCEPT !.total_packets = @ + 1, !.total_flows = IF known THEN @ ELSE @ + 1]

\* Counting a packet raises the counters of both alike.
LEMMA CountedRaises ==
    ASSUME NEW b, NEW m, IsReport(b), IsReport(m), NEW known \in BOOLEAN
    PROVE  AlikeRaised(b, Counted(b, known), m, Counted(m, known))
<1> DEFINE j == IF known THEN 0 ELSE 1
<1>1. ASSUME NEW r, IsReport(r)
      PROVE  Counted(r, known) = Plus(r, 1, j, 0, 0, r.blocked_entries, r.observed_snis, 0)
  <2> DEFINE v == IF known THEN r.total_flows ELSE r.total_flows + 1
  <2>1. v = r.total_flows + j /\ j \in Nat
    BY <1>1 DEF IsReport
  <2>2. Counted(r, known) = Seen(r, r.total_packets + 1, v)
    BY DEF Counted, Seen
  <2> HIDE DEF v, j
  <2> QED BY <1>1, <2>1, <2>2, Sums
<1>2. \A s, r : AlikeContinued(s, s, r, r)
  BY DEF AlikeContinued
<1>3. j \in Nat
  OBVIOUS
<1> HIDE DEF j
<1> QED BY <1>1, <1>2, <1>3, 0 \in Nat, 1 \in Nat, RaisedAlike

-----------------------------------------------------------------------------
(***************************************************************************)
(* What a packet adds to a report depends on its flow only.                *)
(***************************************************************************)
\* Two outcomes with the same flow, the report of v merging that of u into a.
Moves(a, u, v) == IsReport(u.report) /\ v.report = mergeReportInto(a, u.report) /\ v.flow = u.flow

\* The two ways to leave a packet add to a report what they add to another.
LEMMA OutcomesMove ==
    ASSUME NEW a, NEW b, IsReport(a), IsReport(b), NEW flow, NEW p, NEW reason
    PROVE  /\ Moves(a, Pass(flow, b), Pass(flow, mergeReportInto(a, b)))
           /\ Moves(a, Condemn(flow, b, p, reason), Condemn(flow, mergeReportInto(a, b), p, reason))
<1> DEFINE m == mergeReportInto(a, b)
<1>1. IsReport(m)
  BY MergeAdds
<1>2. Pass(flow, m).flow = Pass(flow, b).flow
  BY DEF Pass
<1>3. Condemn(flow, m, p, reason).flow = Condemn(flow, b, p, reason).flow
  BY DEF Condemn, Condemned
<1>4. AlikeRaised(b, Pass(flow, b).report, m, Pass(flow, m).report)
  <2> HIDE DEF m
  <2> QED BY <1>1, PassRaises
<1>5. AlikeRaised(b, Condemn(flow, b, p, reason).report, m, Condemn(flow, m, p, reason).report)
  <2> HIDE DEF m
  <2> QED BY <1>1, CondemnRaises
<1>6. Moves(a, Pass(flow, b), Pass(flow, m))
  BY <1>2, <1>4, RaisedMerges DEF Moves
<1>7. Moves(a, Condemn(flow, b, p, reason), Condemn(flow, m, p, reason))
  BY <1>3, <1>5, RaisedMerges DEF Moves
<1> QED BY <1>6, <1>7

\* So does the judgement of a name.
LEMMA JudgeMoves ==
    ASSUME NEW a, NEW b, IsReport(a), IsReport(b), NEW flow, NEW p
    PROVE  Moves(a, Judge(flow, b, p), Judge(flow, mergeReportInto(a, b), p))
<1> DEFINE m == mergeReportInto(a, b)
           rule == matchBlockedDomain(Rules, flow.sni)
           c == [b EXCEPT !.observed_snis = Append(@, flow.sni)]
           d == [m EXCEPT !.observed_snis = Append(@, flow.sni)]
<1>1. IsReport(m)
  BY MergeAdds
<1>2. IsReport(c) /\ d = mergeReportInto(a, c)
  <2>1. AlikeRaised(b, c, m, d)
    <3> HIDE DEF m
    <3> QED BY <1>1, ObservedRaises
  <2> HIDE DEF c, d
  <2> QED BY <2>1, RaisedMerges
<1>3. Judge(flow, b, p) = IF flow.sni_status # "Found" THEN Pass(flow, b)
                          ELSE IF rule # NoName THEN Condemn(flow, b, p, Reason("domain", rule))
                          ELSE Pass(flow, c)
  BY DEF Judge
<1>4. Judge(flow, m, p) = IF flow.sni_status # "Found" THEN Pass(flow, m)
                          ELSE IF rule # NoName THEN Condemn(flow, m, p, Reason("domain", rule))
                          ELSE Pass(flow, d)
  BY DEF Judge
<1>5. Moves(a, Pass(flow, c), Pass(flow, d))
  <2> HIDE DEF c, d
  <2> QED BY <1>2, OutcomesMove
<1>6. /\ Moves(a, Pass(flow, b), Pass(flow, m))
      /\ Moves(a, Condemn(flow, b, p, Reason("domain", rule)), Condemn(flow, m, p, Reason("domain", rule)))
  <2> HIDE DEF rule
  <2> QED BY OutcomesMove
<1> HIDE DEF rule, c, d
<1>7. CASE flow.sni_status # "Found"
  BY <1>3, <1>4, <1>6, <1>7
<1>8. CASE flow.sni_status = "Found" /\ rule # NoName
  BY <1>3, <1>4, <1>6, <1>8
<1>9. CASE flow.sni_status = "Found" /\ rule = NoName
  BY <1>3, <1>4, <1>5, <1>9
<1> QED BY <1>7, <1>8, <1>9

\* And so does the decision on a packet.
LEMMA DecideMoves ==
    ASSUME NEW a, NEW b, IsReport(a), IsReport(b), NEW flow, NEW p
    PROVE  Moves(a, Decide(flow, b, p), Decide(flow, mergeReportInto(a, b), p))
<1> DEFINE m == mergeReportInto(a, b)
           c == [b EXCEPT !.blocked_packets = @ + 1]
           d == [m EXCEPT !.blocked_packets = @ + 1]
<1>1. IsReport(m)
  BY MergeAdds
<1>2. IsReport(c) /\ d = mergeReportInto(a, c)
  <2>1. AlikeRaised(b, c, m, d)
    <3> HIDE DEF m
    <3> QED BY <1>1, BlockedRaises
  <2> HIDE DEF c, d
  <2> QED BY <2>1, RaisedMerges
<1>3. Decide(flow, b, p) = IF flow.blocked THEN Pass(flow, c)
                           ELSE IF IpMatches(p) THEN Condemn(flow, b, p, IpRule)
                           ELSE IF PortMatches(p) THEN Condemn(flow, b, p, PortRule)
                           ELSE Judge(Inspected(flow, p), b, p)
  BY DEF Decide
<1>4. Decide(flow, m, p) = IF flow.blocked THEN Pass(flow, d)
                           ELSE IF IpMatches(p) THEN Condemn(flow, m, p, IpRule)
                           ELSE IF PortMatches(p) THEN Condemn(flow, m, p, PortRule)
                           ELSE Judge(Inspected(flow, p), m, p)
  BY DEF Decide
<1>5. Moves(a, Pass(flow, c), Pass(flow, d))
  <2> HIDE DEF c, d
  <2> QED BY <1>2, OutcomesMove
<1>6. /\ Moves(a, Condemn(flow, b, p, IpRule), Condemn(flow, m, p, IpRule))
      /\ Moves(a, Condemn(flow, b, p, PortRule), Condemn(flow, m, p, PortRule))
      /\ Moves(a, Judge(Inspected(flow, p), b, p), Judge(Inspected(flow, p), m, p))
  BY OutcomesMove, JudgeMoves
<1> HIDE DEF c, d, m
<1>7. Moves(a, Decide(flow, b, p), Decide(flow, m, p))
  <2>1. CASE flow.blocked
    BY <1>3, <1>4, <1>5, <2>1, Zenon
  <2>2. CASE ~flow.blocked /\ IpMatches(p)
    BY <1>3, <1>4, <1>6, <2>2, Zenon
  <2>3. CASE ~flow.blocked /\ ~IpMatches(p) /\ PortMatches(p)
    BY <1>3, <1>4, <1>6, <2>3, Zenon
  <2>4. CASE ~flow.blocked /\ ~IpMatches(p) /\ ~PortMatches(p)
    BY <1>3, <1>4, <1>6, <2>4, Zenon
  <2> QED BY <2>1, <2>2, <2>3, <2>4, Zenon
<1> QED BY <1>7 DEF m

\* Merging an empty report changes nothing.
LEMMA MergeEmpty == ASSUME NEW a, IsReport(a) PROVE mergeReportInto(a, EmptyReport) = a
<1> DEFINE es == a.blocked_entries \o <<>>
           ns == a.observed_snis \o <<>>
<1>1. es = a.blocked_entries /\ ns = a.observed_snis
  <2>1. Listed(a.blocked_entries) /\ Listed(a.observed_snis)
    BY DEF IsReport
  <2> QED BY <2>1, NothingAdded
<1>2. mergeReportInto(a, EmptyReport)
        = Report(a.total_packets + 0, a.total_flows + 0, a.blocked_flows + 0, a.blocked_packets + 0,
                 es, ns, a.packet_latencies_ns + 0)
  BY DEF mergeReportInto, EmptyReport, Report
<1>3. /\ a.total_packets + 0 = a.total_packets /\ a.total_flows + 0 = a.total_flows
      /\ a.blocked_flows + 0 = a.blocked_flows /\ a.blocked_packets + 0 = a.blocked_packets
      /\ a.packet_latencies_ns + 0 = a.packet_latencies_ns
  BY DEF IsReport
<1> HIDE DEF es, ns
<1>4. HasFields(a)
  BY DEF IsReport
<1> QED BY <1>1, <1>2, <1>3, <1>4, Zenon DEF HasFields

\* What an engine knows of the flow of a packet when it has counted the packet.
FlowWith(e, p) ==
    [IF p.tuple \in DOMAIN e.flows THEN e.flows[p.tuple] ELSE FreshFlow
       EXCEPT !.packet_count = @ + 1]

\* What becomes of that flow, and what the packet adds to the report.
Outcome(e, p) ==
    Decide(FlowWith(e, p), Counted(EmptyReport, p.tuple \in DOMAIN e.flows), p)

\* A packet changes its own flow, and adds to the report what it would have put
\* into an empty one.
LEMMA ProcessAdds ==
    ASSUME NEW e, NEW p, p.has_ip, IsReport(e.report)
    PROVE  LET f == processParsedPacket(e, p)
               o == Outcome(e, p)
           IN  /\ IsReport(o.report)
               /\ f.report = mergeReportInto(e.report, o.report)
               /\ DOMAIN f.flows = DOMAIN e.flows \cup {p.tuple}
               /\ f.flows[p.tuple] = o.flow
               /\ \A u \in DOMAIN e.flows \ {p.tuple} : f.flows[u] = e.flows[u]
<1> DEFINE known == p.tuple \in DOMAIN e.flows
           a == e.report
           flow == FlowWith(e, p)
           b == Counted(EmptyReport, known)
           done == Decide(flow, Counted(a, known), p)
           o == Decide(flow, b, p)
<1>1. processParsedPacket(e, p) = Stored(e, p.tuple, done)
  BY DEF processParsedPacket, FlowWith, Counted
<1>2. known \in BOOLEAN
  OBVIOUS
<1>3. IsReport(b) /\ Counted(a, known) = mergeReportInto(a, b)
  <2>1. mergeReportInto(a, EmptyReport) = a
    BY MergeEmpty
  <2>2. AlikeRaised(EmptyReport, b, a, Counted(a, known))
    <3> HIDE DEF known
    <3> QED BY <1>2, EmptyIsReport, CountedRaises
  <2> HIDE DEF known, b
  <2> QED BY <2>1, <2>2, EmptyIsReport, RaisedMerges
<1>4. Moves(a, o, done)
  <2> HIDE DEF known, b, flow
  <2> QED BY <1>3, DecideMoves
<1>5. /\ IsReport(o.report) /\ done.report = mergeReportInto(a, o.report) /\ done.flow = o.flow
  <2> HIDE DEF o, done
  <2> QED BY <1>4 DEF Moves
<1>6. o = Outcome(e, p)
  BY DEF Outcome
<1> HIDE DEF o, done, a, known, b, flow
<1>7. LET f == Stored(e, p.tuple, done)
      IN  /\ f.report = done.report
          /\ DOMAIN f.flows = DOMAIN e.flows \cup {p.tuple}
          /\ f.flows[p.tuple] = done.flow
          /\ \A u \in DOMAIN e.flows \ {p.tuple} : f.flows[u] = e.flows[u]
  BY DEF Stored
<1> QED BY <1>1, <1>5, <1>6, <1>7 DEF a

-----------------------------------------------------------------------------
(***************************************************************************)
(* The merged report: what one more packet of one worker adds to it.       *)
(***************************************************************************)
\* The parameters of the merging loop: the engines, in the order of the workers.
Joining(es) == [engines |-> es, order |-> [w \in Workers |-> w]]

\* The reports of the first k workers, merged.
MergedOf(es, k) == Merges!Loop(Joining(es), EmptyReport, 1..k)

\* None merged, and one more merged.
LEMMA MergedNone == ASSUME NEW es PROVE MergedOf(es, 0) = EmptyReport
<1>1. 1..0 = {}
  OBVIOUS
<1> QED BY <1>1, Merges!LoopEmpty DEF MergedOf

\* The report of one more worker is merged after the others.
LEMMA MergedNext ==
    ASSUME NEW es, NEW k \in Nat, k + 1 \in Workers
    PROVE  MergedOf(es, k + 1) = mergeReportInto(MergedOf(es, k), es[k + 1].report)
<1>1. Merges!PicksLargest(1..(k + 1))
  BY MaxPicks
<1>2. MergedOf(es, k + 1) = Merging(Joining(es), k + 1, MergedOf(es, k))
  BY <1>1, Merges!IntervalStep DEF MergedOf
<1>3. Joining(es).order[k + 1] = k + 1 /\ Joining(es).engines = es
  BY DEF Joining
<1> QED BY <1>2, <1>3 DEF Merging

\* Merging depends on the reports of the workers only.
LEMMA MergedAlike ==
    ASSUME NEW es, NEW fs, \A w \in Workers : es[w].report = fs[w].report
    PROVE  \A k \in 0..num_workers : MergedOf(es, k) = MergedOf(fs, k)
<1> DEFINE Good == {k \in Nat : k <= num_workers => MergedOf(es, k) = MergedOf(fs, k)}
<1>1. 0 \in Good
  BY MergedNone
<1>2. ASSUME NEW k \in Nat, k \in Good PROVE k + 1 \in Good
  <2>1. CASE k + 1 <= num_workers
    <3>1. k + 1 \in Workers /\ MergedOf(es, k) = MergedOf(fs, k)
      BY <1>2, <2>1, WorkersExist DEF Workers
    <3>2. MergedOf(es, k + 1) = MergedOf(fs, k + 1)
      BY <3>1, MergedNext
    <3> QED BY <3>2
  <2>2. CASE ~(k + 1 <= num_workers)
    BY <2>2
  <2> QED BY <2>1, <2>2
<1>3. Nat \subseteq Good
  <2> HIDE DEF Good
  <2> QED BY <1>1, <1>2, Merges!CountingUp
<1> QED BY <1>3, WorkersExist

\* The reports of the first k workers merge into a report.
LEMMA MergedIsReport ==
    ASSUME NEW es, \A w \in Workers : IsReport(es[w].report)
    PROVE  \A k \in 0..num_workers : IsReport(MergedOf(es, k))
<1> DEFINE Good == {k \in Nat : k <= num_workers => IsReport(MergedOf(es, k))}
<1>1. 0 \in Good
  BY MergedNone, EmptyIsReport
<1>2. ASSUME NEW k \in Nat, k \in Good PROVE k + 1 \in Good
  <2>1. CASE k + 1 <= num_workers
    <3>1. k + 1 \in Workers /\ IsReport(MergedOf(es, k))
      BY <1>2, <2>1, WorkersExist DEF Workers
    <3>2. IsReport(MergedOf(es, k + 1))
      BY <3>1, MergedNext, MergeAdds
    <3> QED BY <3>2
  <2>2. CASE ~(k + 1 <= num_workers)
    BY <2>2
  <2> QED BY <2>1, <2>2
<1>3. Nat \subseteq Good
  <2> HIDE DEF Good
  <2> QED BY <1>1, <1>2, Merges!CountingUp
<1> QED BY <1>3, WorkersExist

\* Engines without a report merge into none.
LEMMA MergedEmpty ==
    ASSUME NEW es, \A w \in Workers : es[w].report = EmptyReport
    PROVE  \A k \in 0..num_workers : MergedOf(es, k) = EmptyReport
<1> DEFINE Good == {k \in Nat : k <= num_workers => MergedOf(es, k) = EmptyReport}
<1>1. 0 \in Good
  BY MergedNone
<1>2. ASSUME NEW k \in Nat, k \in Good PROVE k + 1 \in Good
  <2>1. CASE k + 1 <= num_workers
    <3>1. k + 1 \in Workers /\ MergedOf(es, k) = EmptyReport
      BY <1>2, <2>1, WorkersExist DEF Workers
    <3>2. MergedOf(es, k + 1) = EmptyReport
      BY <3>1, MergedNext, MergeEmpty, EmptyIsReport
    <3> QED BY <3>2
  <2>2. CASE ~(k + 1 <= num_workers)
    BY <2>2
  <2> QED BY <2>1, <2>2
<1>3. Nat \subseteq Good
  <2> HIDE DEF Good
  <2> QED BY <1>1, <1>2, Merges!CountingUp
<1> QED BY <1>3, WorkersExist

\* The first has as much more than the second as d has.
Exceeds(a, b, d) ==
    \A field \in Counters \cup Lists : \A x : Amount(a, field, x) = Amount(b, field, x) + Amount(d, field, x)

\* What one worker's report has more, the merged report has more.
LEMMA OneWorkerMore ==
    ASSUME NEW es, NEW fs, NEW v \in Workers, NEW d, IsReport(d),
           \A w \in Workers : IsReport(es[w].report) /\ IsReport(fs[w].report),
           \A w \in Workers \ {v} : fs[w].report = es[w].report,
           fs[v].report = mergeReportInto(es[v].report, d)
    PROVE  Exceeds(MergedOf(fs, num_workers), MergedOf(es, num_workers), d)
<1> DEFINE P(k) == /\ k < v => MergedOf(fs, k) = MergedOf(es, k)
                   /\ k >= v => Exceeds(MergedOf(fs, k), MergedOf(es, k), d)
           Good == {k \in Nat : k <= num_workers => P(k)}
<1>0. v \in Nat /\ v > 0 /\ v <= num_workers
  BY WorkersExist DEF Workers
<1>1. 0 \in Good
  BY <1>0, MergedNone
<1>2. ASSUME NEW k \in Nat, k \in Good PROVE k + 1 \in Good
  <2> SUFFICES ASSUME k + 1 <= num_workers PROVE P(k + 1)
    OBVIOUS
  <2> DEFINE a == MergedOf(es, k)
             b == MergedOf(fs, k)
             r == es[k + 1].report
             s == fs[k + 1].report
  <2>1. k + 1 \in Workers /\ k \in 0..num_workers /\ P(k)
    BY <1>2, WorkersExist DEF Workers
  <2>2. MergedOf(es, k + 1) = mergeReportInto(a, r) /\ MergedOf(fs, k + 1) = mergeReportInto(b, s)
    BY <2>1, MergedNext
  <2>3. IsReport(a) /\ IsReport(b) /\ IsReport(r) /\ IsReport(s)
    BY <2>1, MergedIsReport
  <2>4. CASE k + 1 < v
    <3>1. a = b /\ r = s
      BY <1>0, <2>1, <2>4
    <3> HIDE DEF a, b, r, s
    <3>2. MergedOf(fs, k + 1) = MergedOf(es, k + 1)
      BY <2>2, <3>1
    <3> QED BY <1>0, <2>4, <3>2
  <2>5. CASE k + 1 = v
    <3>1. a = b /\ s = mergeReportInto(r, d)
      BY <1>0, <2>1, <2>5
    <3> HIDE DEF a, b, r, s
    <3>2. Exceeds(mergeReportInto(b, s), mergeReportInto(a, r), d)
      <4> SUFFICES ASSUME NEW field \in Counters \cup Lists, NEW x
                   PROVE  Amount(mergeReportInto(b, s), field, x)
                            = Amount(mergeReportInto(a, r), field, x) + Amount(d, field, x)
        BY DEF Exceeds
      <4>1. Amount(mergeReportInto(b, s), field, x) = Amount(b, field, x) + Amount(s, field, x)
        BY <2>3, MergeAdds
      <4>2. Amount(s, field, x) = Amount(r, field, x) + Amount(d, field, x)
        BY <2>3, <3>1, MergeAdds
      <4>3. Amount(mergeReportInto(a, r), field, x) = Amount(a, field, x) + Amount(r, field, x)
        BY <2>3, MergeAdds
      <4>4. Amount(a, field, x) \in Nat /\ Amount(r, field, x) \in Nat /\ Amount(d, field, x) \in Nat
        BY <2>3, MergeAdds
      <4> QED BY <3>1, <4>1, <4>2, <4>3, <4>4
    <3> QED BY <1>0, <2>2, <2>5, <3>2
  <2>6. CASE k + 1 > v
    <3>1. Exceeds(b, a, d) /\ s = r
      BY <1>0, <2>1, <2>6
    <3> HIDE DEF a, b, r, s
    <3>2. Exceeds(mergeReportInto(b, s), mergeReportInto(a, r), d)
      <4> SUFFICES ASSUME NEW field \in Counters \cup Lists, NEW x
                   PROVE  Amount(mergeReportInto(b, s), field, x)
                            = Amount(mergeReportInto(a, r), field, x) + Amount(d, field, x)
        BY DEF Exceeds
      <4>1. Amount(mergeReportInto(b, s), field, x) = Amount(b, field, x) + Amount(s, field, x)
        BY <2>3, MergeAdds
      <4>2. Amount(b, field, x) = Amount(a, field, x) + Amount(d, field, x)
        BY <3>1 DEF Exceeds
      <4>3. Amount(mergeReportInto(a, r), field, x) = Amount(a, field, x) + Amount(r, field, x)
        BY <2>3, MergeAdds
      <4>4. Amount(a, field, x) \in Nat /\ Amount(r, field, x) \in Nat /\ Amount(d, field, x) \in Nat
        BY <2>3, MergeAdds
      <4> QED BY <3>1, <4>1, <4>2, <4>3, <4>4
    <3> QED BY <1>0, <2>2, <2>6, <3>2
  <2> QED BY <1>0, <2>4, <2>5, <2>6
<1>3. Nat \subseteq Good
  <2> HIDE DEF Good
  <2> QED BY <1>1, <1>2, Merges!CountingUp
<1> QED BY <1>0, <1>3, WorkersExist

-----------------------------------------------------------------------------
(***************************************************************************)
(* The engines of the workers together know what one engine would.         *)
(***************************************************************************)
\* What each worker's engine is when it has had its packets.
Shards(hash, packets) == [w \in Workers |-> EngineOf(RoutedFrom(hash, packets, w))]

\* Two engines know the same of flow t.
SameFlow(e, f, t) ==
    /\ t \in DOMAIN e.flows <=> t \in DOMAIN f.flows
    /\ t \in DOMAIN e.flows => e.flows[t] = f.flows[t]

\* The flow table of one engine is spread over the workers, and their reports
\* add up to its.
Agrees(hash, packets) ==
    /\ IsReport(EngineOf(packets).report)
    /\ \A w \in Workers : /\ RoutedFrom(hash, packets, w) \in Seq(Packets)
                          /\ IsReport(Shards(hash, packets)[w].report)
    /\ \A t \in Tuples : SameFlow(EngineOf(packets), Shards(hash, packets)[hash[t]], t)
    /\ SameAmounts(MergedOf(Shards(hash, packets), num_workers), EngineOf(packets).report)

\* Before any packet all know nothing.
LEMMA AgreesAtFirst ==
    ASSUME NEW hash \in [Tuples -> Workers]
    PROVE  Agrees(hash, <<>>)
<1>1. \A w \in Workers : RoutedFrom(hash, <<>>, w) = <<>>
  BY RouteNothing
<1>2. \A w \in Workers : Shards(hash, <<>>)[w] = NewEngine
  BY <1>1, FeedNothing DEF Shards
<1>3. EngineOf(<<>>) = NewEngine /\ NewEngine.report = EmptyReport
  BY FeedNothing DEF NewEngine
<1>4. MergedOf(Shards(hash, <<>>), num_workers) = EmptyReport
  <2>1. \A w \in Workers : Shards(hash, <<>>)[w].report = EmptyReport
    BY <1>2, <1>3
  <2> QED BY <2>1, MergedEmpty, WorkersExist
<1>5. <<>> \in Seq(Packets)
  OBVIOUS
<1>6. \A t \in Tuples : SameFlow(EngineOf(<<>>), Shards(hash, <<>>)[hash[t]], t)
  BY <1>2, <1>3 DEF SameFlow
<1> QED BY <1>1, <1>2, <1>3, <1>4, <1>5, <1>6, EmptyIsReport DEF Agrees, SameAmounts

\* The same packet on two engines that know the same of its flow: the same
\* outcome, and they still know the same of every flow.
LEMMA SameOutcome ==
    ASSUME NEW e, NEW f, NEW p, p.has_ip, IsReport(e.report), IsReport(f.report),
           SameFlow(e, f, p.tuple)
    PROVE  /\ Outcome(e, p) = Outcome(f, p)
           /\ \A t : SameFlow(e, f, t) =>
                SameFlow(processParsedPacket(e, p), processParsedPacket(f, p), t)
<1>1. FlowWith(e, p) = FlowWith(f, p) /\ (p.tuple \in DOMAIN e.flows <=> p.tuple \in DOMAIN f.flows)
  BY DEF SameFlow, FlowWith
<1>2. Outcome(e, p) = Outcome(f, p)
  <2>1. (p.tuple \in DOMAIN e.flows) = (p.tuple \in DOMAIN f.flows)
    BY <1>1
  <2> QED BY <1>1, <2>1, Zenon DEF Outcome
<1> DEFINE g == processParsedPacket(e, p)
           h == processParsedPacket(f, p)
<1>3. /\ DOMAIN g.flows = DOMAIN e.flows \cup {p.tuple} /\ g.flows[p.tuple] = Outcome(e, p).flow
      /\ \A u \in DOMAIN e.flows \ {p.tuple} : g.flows[u] = e.flows[u]
  BY ProcessAdds
<1>4. /\ DOMAIN h.flows = DOMAIN f.flows \cup {p.tuple} /\ h.flows[p.tuple] = Outcome(f, p).flow
      /\ \A u \in DOMAIN f.flows \ {p.tuple} : h.flows[u] = f.flows[u]
  BY ProcessAdds
<1> HIDE DEF g, h
<1>5. ASSUME NEW t, SameFlow(e, f, t) PROVE SameFlow(g, h, t)
  BY <1>2, <1>3, <1>4, <1>5 DEF SameFlow
<1> QED BY <1>2, <1>5 DEF g, h

\* A packet of one flow leaves the other flows as they are.
LEMMA OtherFlows ==
    ASSUME NEW e, NEW f, NEW p, p.has_ip, IsReport(e.report), NEW t, t # p.tuple, SameFlow(e, f, t)
    PROVE  SameFlow(processParsedPacket(e, p), f, t)
<1> DEFINE g == processParsedPacket(e, p)
<1>1. /\ DOMAIN g.flows = DOMAIN e.flows \cup {p.tuple}
      /\ \A u \in DOMAIN e.flows \ {p.tuple} : g.flows[u] = e.flows[u]
  BY ProcessAdds
<1> HIDE DEF g
<1>2. SameFlow(g, f, t)
  BY <1>1 DEF SameFlow
<1> QED BY <1>2 DEF g

\* One more packet, routed to its worker, keeps the agreement.
LEMMA AgreesNext ==
    ASSUME NEW hash \in [Tuples -> Workers], NEW packets \in Seq(Packets), NEW p \in Packets,
           Agrees(hash, packets)
    PROVE  Agrees(hash, Append(packets, p))
<1> DEFINE more == Append(packets, p)
           v == hash[p.tuple]
           e == EngineOf(packets)
           e2 == EngineOf(more)
           es == Shards(hash, packets)
           fs == Shards(hash, more)
           o == Outcome(e, p)
<1>1. p.has_ip \in BOOLEAN /\ p.tuple \in Tuples /\ v \in Workers
  BY ConcurrentAssumption
<1>2. e2 = processParsedPacket(e, p)
  BY FeedOneMore
<1>3. \A w \in Workers : RoutedFrom(hash, more, w) =
        IF p.has_ip /\ w = v THEN Append(RoutedFrom(hash, packets, w), p)
        ELSE RoutedFrom(hash, packets, w)
  BY RouteOneMore
<1>4. \A w \in Workers : es[w] = EngineOf(RoutedFrom(hash, packets, w))
                         /\ fs[w] = EngineOf(RoutedFrom(hash, more, w))
  BY DEF Shards
<1>5. \A w \in Workers : RoutedFrom(hash, packets, w) \in Seq(Packets) /\ IsReport(es[w].report)
  BY DEF Agrees
<1>6. /\ IsReport(e.report) /\ \A t \in Tuples : SameFlow(e, es[hash[t]], t)
      /\ SameAmounts(MergedOf(es, num_workers), e.report)
  BY DEF Agrees
<1> HIDE DEF more, e, e2, es, fs, o, v
<1>7. \A w \in Workers : RoutedFrom(hash, more, w) \in Seq(Packets)
  BY <1>3, <1>5
<1>8. CASE ~p.has_ip
  <2>1. e2 = e
    BY <1>2, <1>8 DEF processParsedPacket
  <2>2. \A w \in Workers : fs[w] = es[w]
    BY <1>3, <1>4, <1>8
  <2>3. MergedOf(fs, num_workers) = MergedOf(es, num_workers)
    BY <2>2, MergedAlike, WorkersExist
  <2>4. \A t \in Tuples : SameFlow(e2, fs[hash[t]], t)
    BY <1>6, <2>1, <2>2
  <2> QED BY <1>5, <1>6, <1>7, <2>1, <2>2, <2>3, <2>4 DEF Agrees, more, e2, fs
<1>9. CASE p.has_ip
  <2>1. fs[v] = processParsedPacket(es[v], p)
    <3>1. fs[v] = EngineOf(Append(RoutedFrom(hash, packets, v), p))
      BY <1>1, <1>3, <1>4, <1>9
    <3> QED BY <1>1, <1>4, <1>5, <3>1, FeedOneMore
  <2>2. \A w \in Workers \ {v} : fs[w] = es[w]
    BY <1>3, <1>4
  <2>3. SameFlow(e, es[v], p.tuple)
    BY <1>1, <1>6 DEF v
  <2>4. Outcome(es[v], p) = o
    BY <1>1, <1>5, <1>6, <1>9, <2>3, SameOutcome DEF o
  <2>5. IsReport(o.report) /\ e2.report = mergeReportInto(e.report, o.report)
    BY <1>2, <1>6, <1>9, ProcessAdds DEF o
  <2>6. fs[v].report = mergeReportInto(es[v].report, o.report)
    BY <1>1, <1>5, <1>9, <2>1, <2>4, ProcessAdds
  <2>7. IsReport(e2.report) /\ \A w \in Workers : IsReport(fs[w].report)
    <3>1. IsReport(e2.report) /\ IsReport(fs[v].report)
      BY <1>1, <1>5, <1>6, <2>5, <2>6, MergeAdds
    <3> QED BY <1>5, <2>2, <3>1
  <2>8. ASSUME NEW t \in Tuples PROVE SameFlow(e2, fs[hash[t]], t)
    <3>1. SameFlow(e, es[hash[t]], t) /\ hash[t] \in Workers
      BY <1>6
    <3>2. CASE hash[t] = v
      BY <1>1, <1>2, <1>5, <1>6, <1>9, <2>1, <2>3, <3>1, <3>2, SameOutcome
    <3>3. CASE hash[t] # v
      <4>1. t # p.tuple /\ fs[hash[t]] = es[hash[t]]
        BY <2>2, <3>1, <3>3 DEF v
      <4> QED BY <1>2, <1>6, <1>9, <3>1, <4>1, OtherFlows
    <3> QED BY <3>2, <3>3
  <2>9. SameAmounts(MergedOf(fs, num_workers), e2.report)
    <3>1. Exceeds(MergedOf(fs, num_workers), MergedOf(es, num_workers), o.report)
      <4>1. \A w \in Workers : IsReport(es[w].report) /\ IsReport(fs[w].report)
        BY <1>5, <2>7
      <4>2. \A w \in Workers \ {v} : fs[w].report = es[w].report
        BY <2>2
      <4> QED BY <1>1, <2>5, <2>6, <4>1, <4>2, OneWorkerMore
    <3> SUFFICES ASSUME NEW field \in Counters \cup Lists, NEW x
                 PROVE  Amount(MergedOf(fs, num_workers), field, x) = Amount(e2.report, field, x)
      BY DEF SameAmounts
    <3>2. Amount(e2.report, field, x) = Amount(e.report, field, x) + Amount(o.report, field, x)
      BY <1>6, <2>5, MergeAdds
    <3>3. Amount(MergedOf(fs, num_workers), field, x)
            = Amount(MergedOf(es, num_workers), field, x) + Amount(o.report, field, x)
      BY <3>1 DEF Exceeds
    <3>4. Amount(MergedOf(es, num_workers), field, x) = Amount(e.report, field, x)
      BY <1>6 DEF SameAmounts
    <3> QED BY <3>2, <3>3, <3>4
  <2> QED BY <1>7, <2>7, <2>8, <2>9 DEF Agrees, more, e2, fs
<1> QED BY <1>8, <1>9

\* Whatever the capture, and however the hash spreads it.
LEMMA AgreesAlways ==
    ASSUME NEW hash \in [Tuples -> Workers]
    PROVE  \A packets \in Seq(Packets) : Agrees(hash, packets)
<1> DEFINE Good == {n \in Nat : \A packets \in Seq(Packets) : Len(packets) = n => Agrees(hash, packets)}
<1>1. 0 \in Good
  <2>1. \A packets \in Seq(Packets) : Len(packets) = 0 => packets = <<>>
    OBVIOUS
  <2> QED BY <2>1, AgreesAtFirst
<1>2. ASSUME NEW n \in Nat, n \in Good PROVE n + 1 \in Good
  <2> SUFFICES ASSUME NEW packets \in Seq(Packets), Len(packets) = n + 1 PROVE Agrees(hash, packets)
    OBVIOUS
  <2> DEFINE front == [i \in 1..n |-> packets[i]]
             p == packets[n + 1]
  <2>1. p \in Packets /\ front \in Seq(Packets) /\ Len(front) = n
    OBVIOUS
  <2>2. packets = Append(front, p)
    <3>1. Len(Append(front, p)) = n + 1 /\ Append(front, p) \in Seq(Packets)
      BY <2>1
    <3>2. \A i \in 1..(n + 1) : Append(front, p)[i] = packets[i]
      BY <2>1
    <3> HIDE DEF front, p
    <3> QED BY <3>1, <3>2, SeqEqual
  <2>3. Agrees(hash, front)
    BY <1>2, <2>1
  <2> HIDE DEF front, p
  <2> QED BY <2>1, <2>2, <2>3, AgreesNext
<1>3. Nat \subseteq Good
  <2> HIDE DEF Good
  <2> QED BY <1>1, <1>2, Feeds!CountingUp
<1>4. \A packets \in Seq(Packets) : Len(packets) \in Nat
  OBVIOUS
<1> QED BY <1>3, <1>4

\* When processFile merges, every worker has had all its packets.
LEMMA AllHandled ==
    ASSUME IndInv, PipeInv, running = {}, lb = "closing", NEW w \in Workers
    PROVE  engines[w] = EngineOf(Routed(w))
<1>1. InFlight(w) = <<>>
  BY DEF IndInv, ExitIsFinal
<1>2. PICK done : InOrder(w, done)
  BY DEF PipeInv
<1>3. done = Routed(w)
  <2>1. done \in Seq(Packets) /\ done \o <<>> = Routed(w)
    BY <1>1, <1>2 DEF InOrder
  <2> QED BY <2>1, ConcatEmptySeq
<1> QED BY <1>2, <1>3 DEF InOrder

\* The merging loop of processFile is that of the lemmas.
LEMMA MergesAll == MergedInto(EmptyReport) = MergedOf(engines, num_workers)
<1> DEFINE order == [w \in Workers |-> w]
<1>1. DOMAIN order = 1..num_workers
  BY DEF Workers
<1>2. MergedInto(EmptyReport)
        = FoldLeft(LAMBDA dst, w : mergeReportInto(dst, engines[w].report), EmptyReport, order)
  BY DEF MergedInto
<1>3. Joining(engines).order = order /\ Joining(engines).engines = engines
  BY DEF Joining
<1> HIDE DEF order
<1> QED BY <1>1, <1>2, <1>3
        DEF FoldLeft, MapThenFoldSet, MergedOf, Merges!Loop, Merges!MapThenFoldSet, Merging

\* The merged report is what one engine would have reported.
LEMMA MergeIsSequential ==
    ASSUME IndInv, PipeInv, Merge
    PROVE  SameAsSequential'
<1>1. /\ running = {} /\ lb = "closing" /\ merged' = MergedInto(EmptyReport) /\ read' = read
      /\ TypeOK
  BY DEF Merge, MergeInto, IndInv
<1>2. shard \in [Tuples -> Workers] /\ read \in Seq(Packets)
  BY <1>1 DEF TypeOK
<1>3. Agrees(shard, read)
  BY <1>2, AgreesAlways
<1> DEFINE es == Shards(shard, read)
           one == EngineOf(read).report
<1>4. \A w \in Workers : engines[w] = es[w]
  BY <1>1, AllHandled DEF Shards, Routed
<1>5. \A w \in Workers : IsReport(es[w].report)
  BY <1>3 DEF Agrees
<1>6. SameAmounts(MergedOf(es, num_workers), one) /\ IsReport(one)
  BY <1>3 DEF Agrees
<1>7. Sequential' = one
  BY <1>1 DEF Sequential, EngineOf
<1> HIDE DEF es, one
<1>8. merged' = MergedOf(es, num_workers)
  <2>1. MergedOf(engines, num_workers) = MergedOf(es, num_workers)
    BY <1>4, MergedAlike, WorkersExist
  <2> QED BY <1>1, <2>1, MergesAll
<1>9. IsReport(merged')
  BY <1>5, <1>8, MergedIsReport, WorkersExist
<1>10. SameUpToOrder(merged', one)
  BY <1>6, <1>8, <1>9, SameAmountsSuffice
<1> QED BY <1>7, <1>10 DEF SameAsSequential, SameUpToOrder

\* The other steps of a thread come before the report or leave it alone.
LEMMA ReportStands ==
    ASSUME IndInv, SameAsSequential, [Next]_vars, ~Merge
    PROVE  SameAsSequential'
<1> SUFFICES ASSUME lb' = "idle", files' > 0
             PROVE  SameUpToOrder(merged', Sequential')
  BY DEF SameAsSequential, SameUpToOrder
<1>1. lb = "idle" /\ files' = files /\ merged' = merged /\ read' = read
  <2>1. CASE LbStep
    BY <2>1 DEF LbStep, Read, Push, HandOver, EndOfFile, Close
  <2>2. ASSUME NEW w \in Workers, WorkerStep(w)
        PROVE  lb = "idle" /\ files' = files /\ merged' = merged /\ read' = read
    BY <2>2 DEF WorkerStep, Pop, Take, ProcessItem, Feed, Exit, LeaveLoop, lbVars
  <2>3. CASE UNCHANGED vars
    BY <2>3 DEF vars
  <2>4. CASE Start
    BY <2>4 DEF Start
  <2> QED BY <2>1, <2>2, <2>3, <2>4 DEF Next
<1>2. SameUpToOrder(merged, Sequential)
  BY <1>1 DEF SameAsSequential
<1>3. Sequential' = Sequential
  BY <1>1 DEF Sequential
<1> QED BY <1>1, <1>2, <1>3

\* For any capture, any number of workers, any capacity, any hash and any
\* interleaving of the threads, the merged report of the concurrent engine says
\* what the single-threaded engine says of the same file, up to order.
THEOREM SameReport == Spec => []SameAsSequential
<1>1. Init => SameAsSequential
  BY DEF Init, SameAsSequential
<1>2. Init => PipeInv
  BY PipeInit
<1>3. IndInv /\ PipeInv /\ [Next]_vars => PipeInv'
  BY PipeStep
<1>4. IndInv /\ PipeInv /\ SameAsSequential /\ [Next]_vars => SameAsSequential'
  BY MergeIsSequential, ReportStands
<1>. QED
  BY <1>1, <1>2, <1>3, <1>4, ShardInvariance, PTL DEF Spec

-----------------------------------------------------------------------------
(***************************************************************************)
(* Every worker's engine is a DpiEngine.  First, the operators of that     *)
(* module are the ones the workers use: the instance has a copy of each.   *)
(***************************************************************************)
\* Both start from the same engine and the same flow.
LEMMA SameNew == Shard!NewEngine = NewEngine /\ Shard!FreshFlow = FreshFlow
<1>1. Shard!NewEngine = NewEngine
  BY Zenon DEF Shard!NewEngine, NewEngine, Shard!EmptyReport, EmptyReport
<1>2. Shard!FreshFlow = FreshFlow
  BY Zenon DEF Shard!FreshFlow, FreshFlow, Shard!NewReassembler, NewReassembler, Shard!Reason, Reason
<1> QED BY <1>1, <1>2

\* A name meets the same rule.
LEMMA SameRule ==
    ASSUME NEW rules, NEW name
    PROVE  Shard!matchBlockedDomain(rules, name) = matchBlockedDomain(rules, name)
<1>1. Shard!MatchingRules(rules, name) = MatchingRules(rules, name)
  BY Zenon DEF Shard!MatchingRules, MatchingRules, Shard!FoldLeft, FoldLeft,
               Shard!MapThenFoldSet, MapThenFoldSet, Shard!Max, Max
<1> QED BY <1>1, Zenon DEF Shard!matchBlockedDomain, matchBlockedDomain

\* A segment is kept alike.
LEMMA SameSegment ==
    ASSUME NEW r, NEW seq, NEW data
    PROVE  Shard!addSegment(r, seq, data) = addSegment(r, seq, data)
  BY Zenon DEF Shard!addSegment, addSegment, Shard!Cursor, Cursor, Shard!seqLessThan, seqLessThan,
               Shard!Distance, Distance, Shard!Store, Store

\* The same bytes are pulled.
LEMMA SamePull == ASSUME NEW r PROVE Shard!pullContiguous(r) = pullContiguous(r)
  BY Zenon DEF Shard!pullContiguous, pullContiguous, Shard!Pulled, Pulled, Shard!PullEntry, PullEntry,
               Shard!seqLessThan, seqLessThan, Shard!Distance, Distance, Shard!Erase, Erase,
               Shard!MapThenFoldSet, MapThenFoldSet, Shard!Max, Max

\* The payload is looked into alike.
LEMMA SameInspection == ASSUME NEW flow, NEW p PROVE Shard!Inspected(flow, p) = Inspected(flow, p)
<1>1. Shard!Inspects(flow, p) <=> Inspects(flow, p)
  BY Zenon DEF Shard!Inspects, Inspects
<1>2. \A t, f : Shard!Tried(t, f) = Tried(t, f)
  BY Zenon DEF Shard!Tried, Tried, Shard!Answered, Answered, Shard!AnsweredUnder, AnsweredUnder,
               Shard!Decided, Decided, Shard!tryExtractSni, tryExtractSni
<1>3. \A t, f : Shard!tryResolveSni(t, f) = tryResolveSni(t, f)
  BY <1>2, SamePull, Zenon DEF Shard!tryResolveSni, tryResolveSni, Shard!Fed, Fed
<1> DEFINE g == [flow EXCEPT !.reassembler = addSegment(@, p.seq, p.data)]
<1>4. Inspected(flow, p) = IF Inspects(flow, p) THEN tryResolveSni(p.tuple, g) ELSE flow
  BY Zenon DEF Inspected
<1>5. Shard!Inspected(flow, p) = IF Shard!Inspects(flow, p) THEN Shard!tryResolveSni(p.tuple, g) ELSE flow
  BY SameSegment, Zenon DEF Shard!Inspected
<1> HIDE DEF g
<1> QED BY <1>1, <1>3, <1>4, <1>5, Zenon

\* What becomes of a packet is decided alike.
LEMMA SameDecision ==
    ASSUME NEW flow, NEW report, NEW p
    PROVE  Shard!Decide(flow, report, p) = Decide(flow, report, p)
<1>1. \A f, r : Shard!Pass(f, r) = Pass(f, r)
  BY Zenon DEF Shard!Pass, Pass
<1>2. \A f, r, reason : Shard!Condemn(f, r, p, reason) = Condemn(f, r, p, reason)
  BY Zenon DEF Shard!Condemn, Condemn, Shard!Condemned, Condemned
<1>3. \A f : Shard!Judge(f, report, p) = Judge(f, report, p)
  BY <1>1, <1>2, SameRule, Zenon DEF Shard!Judge, Judge, Shard!Reason, Reason
<1>4. Shard!IpMatches(p) <=> IpMatches(p)
  BY Zenon DEF Shard!IpMatches, IpMatches, Shard!isBlockedIp, isBlockedIp
<1>5. Shard!PortMatches(p) <=> PortMatches(p)
  BY Zenon DEF Shard!PortMatches, PortMatches, Shard!isBlockedPort, isBlockedPort
<1>6. Shard!IpRule = IpRule /\ Shard!PortRule = PortRule
  BY Zenon DEF Shard!IpRule, IpRule, Shard!PortRule, PortRule, Shard!Reason, Reason
<1> QED BY <1>1, <1>2, <1>3, <1>4, <1>5, <1>6, SameInspection, Zenon DEF Shard!Decide, Decide

\* So DpiEngine processes a packet as the workers do.
LEMMA SameProcessing ==
    ASSUME NEW engine, NEW p
    PROVE  Shard!processParsedPacket(engine, p) = processParsedPacket(engine, p)
  BY SameNew, SameDecision, Zenon
     DEF Shard!processParsedPacket, processParsedPacket, Shard!Stored, Stored

-----------------------------------------------------------------------------
(* A worker is given no more packets than were read, and these are bounded.*)

\* Those routed to a worker are not more than there are.
LEMMA RoutedAtMost ==
    ASSUME NEW hash, NEW w
    PROVE  \A packets \in Seq(Packets) :
              /\ RoutedFrom(hash, packets, w) \in Seq(Packets)
              /\ Len(RoutedFrom(hash, packets, w)) <= Len(packets)
<1> DEFINE Fits(packets) ==
              /\ RoutedFrom(hash, packets, w) \in Seq(Packets)
              /\ Len(RoutedFrom(hash, packets, w)) <= Len(packets)
           Good == {n \in Nat : \A packets \in Seq(Packets) : Len(packets) = n => Fits(packets)}
<1>1. 0 \in Good
  <2> SUFFICES ASSUME NEW packets \in Seq(Packets), Len(packets) = 0 PROVE Fits(packets)
    OBVIOUS
  <2>1. packets = <<>>
    OBVIOUS
  <2>2. RoutedFrom(hash, packets, w) = <<>>
    BY <2>1, RouteNothing
  <2> QED BY <2>2
<1>2. ASSUME NEW n \in Nat, n \in Good PROVE n + 1 \in Good
  <2> SUFFICES ASSUME NEW packets \in Seq(Packets), Len(packets) = n + 1 PROVE Fits(packets)
    OBVIOUS
  <2> DEFINE front == [i \in 1..n |-> packets[i]]
             p == packets[n + 1]
  <2>1. p \in Packets /\ front \in Seq(Packets) /\ Len(front) = n
    OBVIOUS
  <2>2. packets = Append(front, p)
    <3>1. Len(Append(front, p)) = n + 1 /\ Append(front, p) \in Seq(Packets)
      BY <2>1
    <3>2. \A i \in 1..(n + 1) : Append(front, p)[i] = packets[i]
      BY <2>1
    <3> HIDE DEF front, p
    <3> QED BY <3>1, <3>2, SeqEqual
  <2>3. Fits(front)
    BY <1>2, <2>1
  <2> DEFINE kept == RoutedFrom(hash, front, w)
             all == RoutedFrom(hash, packets, w)
  <2>4. kept \in Seq(Packets) /\ Len(kept) <= n
    BY <2>1, <2>3
  <2> HIDE DEF front, p
  <2>5. all \in {kept, Append(kept, p)}
    BY <2>1, <2>2, RouteOneMore
  <2> HIDE DEF kept, all
  <2>6. all \in Seq(Packets) /\ Len(all) <= n + 1
    BY <2>1, <2>4, <2>5
  <2> QED BY <2>6 DEF all
<1>3. Nat \subseteq Good
  <2> HIDE DEF Good
  <2> QED BY <1>1, <1>2, Feeds!CountingUp
<1>4. \A packets \in Seq(Packets) : Len(packets) \in Nat
  OBVIOUS
<1> QED BY <1>3, <1>4

\* A capture does not exceed its bound.
ReadBounded == Len(read) <= MaxPackets

\* No step reads beyond it.
LEMMA ReadStaysBounded == TypeOK /\ ReadBounded /\ [Next]_vars => ReadBounded'
<1> SUFFICES ASSUME TypeOK, ReadBounded, [Next]_vars PROVE ReadBounded'
  OBVIOUS
<1>1. read \in Seq(Packets) /\ MaxPackets \in Nat
  BY ConcurrentAssumption DEF TypeOK
<1>2. CASE Start
  BY <1>1, <1>2 DEF Start, ReadBounded
<1>3. ASSUME NEW p \in Packets, Read(p) PROVE ReadBounded'
  <2>1. read' = Append(read, p) /\ Len(read) < MaxPackets
    BY <1>3 DEF Read
  <2> QED BY <1>1, <2>1 DEF ReadBounded
<1>4. CASE Push \/ EndOfFile \/ (\E w \in Workers : Close(w)) \/ Merge
  BY <1>4 DEF Push, HandOver, EndOfFile, Close, Merge, MergeInto, ReadBounded
<1>5. ASSUME NEW w \in Workers, WorkerStep(w) PROVE ReadBounded'
  BY <1>5 DEF WorkerStep, Pop, Take, ProcessItem, Feed, Exit, LeaveLoop, lbVars, ReadBounded
<1>6. CASE UNCHANGED vars
  BY <1>6 DEF vars, ReadBounded
<1> QED BY <1>2, <1>3, <1>4, <1>5, <1>6 DEF Next, LbStep

-----------------------------------------------------------------------------
(* The steps of the worker that is looked at.                              *)

\* Whoever has handled packets in order has handled just these.
HandledIs == \A w \in Workers : \A done : InOrder(w, done) => Handled(w) = done

\* It is HandledIsDone, as a fact that holds after a step, too.
LEMMA HandledAlways == TypeOK => HandledIs
  BY HandledIsDone DEF HandledIs

\* A worker with a packet in its hands has not had all of the capture.
LEMMA OneInHand ==
    ASSUME TypeOK, ReadBounded, NEW w \in Workers, NEW done, InOrder(w, done), item[w] # <<>>
    PROVE  Len(done) < MaxPackets
<1>1. /\ done \in Seq(Packets) /\ InFlight(w) \in Seq(Packets) /\ Routed(w) = done \o InFlight(w)
      /\ read \in Seq(Packets) /\ MaxPackets \in Nat
  BY Stages, ConcurrentAssumption DEF InOrder, TypeOK
<1>2. Len(Routed(w)) <= Len(read)
  BY <1>1, RoutedAtMost DEF Routed
<1>3. InFlight(w) # <<>>
  BY NothingInFlight
<1> DEFINE b == InFlight(w)
<1>4. b \in Seq(Packets) /\ b # <<>> /\ Len(done \o b) <= Len(read)
  BY <1>1, <1>2, <1>3
<1> HIDE DEF b
<1>5. Len(done \o b) = Len(done) + Len(b) /\ Len(b) > 0
  BY <1>1, <1>4
<1> QED BY <1>1, <1>4, <1>5 DEF ReadBounded

\* Every step is one of that engine, or none, or begins a new call.
LEMMA StepOfShard ==
    ASSUME IndInv, PipeInv, ReadBounded, [Next]_vars, HandledIs, HandledIs', Workers' = Workers
    PROVE  ShardStep
<1> DEFINE w == AnyWorker
<1>1. w \in Workers /\ w \in Workers' /\ TypeOK
  BY WorkerAssumption DEF IndInv
<1>2. PICK done : InOrder(w, done)
  BY <1>1 DEF PipeInv
<1>3. Handled(w) = done /\ engines[w] = EngineOf(done) /\ done \in Seq(Packets)
  BY <1>1, <1>2 DEF HandledIs, InOrder
<1>4. ASSUME NEW d, InOrder(w, d)' PROVE Handled(w)' = d /\ engines'[w] = EngineOf(d)
  BY <1>1, <1>4 DEF HandledIs, InOrder
<1>5. CASE InOrder(w, done)'
  BY <1>3, <1>4, <1>5 DEF ShardStep, Shard!vars
<1>6. CASE files' # files /\ InOrder(w, <<>>)'
  <2>1. Handled(w)' = <<>> /\ engines'[w] = Shard!NewEngine
    BY <1>4, <1>6, FeedNothing, SameNew
  <2> QED BY <1>6, <2>1 DEF ShardStep, Shard!Init
<1>7. ASSUME NEW p \in Packets, item[w] = <<p>>, InOrder(w, Append(done, p))' PROVE ShardStep
  <2>1. Handled(w)' = Append(Handled(w), p)
    BY <1>3, <1>4, <1>7
  <2>2. engines'[w] = Shard!processParsedPacket(engines[w], p)
    BY <1>3, <1>4, <1>7, FeedOneMore, SameProcessing
  <2>3. Len(Handled(w)) < MaxPackets
    BY <1>1, <1>2, <1>3, <1>7, OneInHand
  <2> QED BY <1>7, <2>1, <2>2, <2>3 DEF ShardStep, Shard!Next, Shard!Process
<1> QED BY <1>1, <1>2, <1>5, <1>6, <1>7, StepInOrder

\* Before the first call the worker has a new engine that was given nothing.
LEMMA ShardInit == Init => Shard!Init
<1> SUFFICES ASSUME Init PROVE Shard!Init
  OBVIOUS
<1>1. IndInv /\ PipeInv /\ HandledIs /\ engines[AnyWorker] = NewEngine
  BY InitInv, PipeInit, HandledAlways, WorkerAssumption DEF IndInv, Init
<1>2. InOrder(AnyWorker, <<>>)
  BY WorkerAssumption, InitInOrder
<1> QED BY <1>1, <1>2, SameNew, WorkerAssumption DEF HandledIs, Shard!Init

\* For any number of workers, any capacity, any hash and any interleaving of the
\* threads, the engine of every worker is, from one call of processFile to the next,
\* a single-threaded engine that is given the packets routed to it.
THEOREM EveryShardIsAnEngine == Spec => ShardsImplementEngine
<1>1. Init => ReadBounded
  BY ConcurrentAssumption DEF Init, ReadBounded
<1>2. IndInv => TypeOK
  BY DEF IndInv
<1>3. IndInv /\ PipeInv /\ ReadBounded /\ HandledIs /\ HandledIs' /\ [Next]_vars => ShardStep
  BY StepOfShard DEF Workers
<1>. QED
  BY <1>1, <1>2, <1>3, ShardInit, PipeInit, PipeStep, ReadStaysBounded, HandledAlways, ShardInvariance, PTL
     DEF Spec, ShardsImplementEngine

-----------------------------------------------------------------------------
(***************************************************************************)
(* What DpiEngineProofs proves of an engine holds of every worker's, as    *)
(* long as the call lasts and again in the next one.                       *)
(***************************************************************************)
Alone == INSTANCE DpiEngineProofs WITH engine <- engines[AnyWorker], seen <- Handled(AnyWorker)

\* This instance, too, has a copy of each operator the workers use.  Its engines and
\* its flows start alike.
LEMMA AloneNew == Alone!NewEngine = NewEngine /\ Alone!FreshFlow = FreshFlow
<1>1. Alone!NewEngine = NewEngine
  BY Zenon DEF Alone!NewEngine, NewEngine, Alone!EmptyReport, EmptyReport
<1>2. Alone!FreshFlow = FreshFlow
  BY Zenon DEF Alone!FreshFlow, FreshFlow, Alone!NewReassembler, NewReassembler, Alone!Reason, Reason
<1> QED BY <1>1, <1>2

\* A name meets the same rule in it.
LEMMA AloneRule ==
    ASSUME NEW rules, NEW name
    PROVE  Alone!matchBlockedDomain(rules, name) = matchBlockedDomain(rules, name)
<1>1. Alone!MatchingRules(rules, name) = MatchingRules(rules, name)
  BY Zenon DEF Alone!MatchingRules, MatchingRules, Alone!FoldLeft, FoldLeft,
               Alone!MapThenFoldSet, MapThenFoldSet, Alone!Max, Max
<1> QED BY <1>1, Zenon DEF Alone!matchBlockedDomain, matchBlockedDomain

\* A segment is kept, and the bytes are pulled, alike.
LEMMA AloneReassembly ==
    ASSUME NEW r, NEW seq, NEW data
    PROVE  /\ Alone!addSegment(r, seq, data) = addSegment(r, seq, data)
           /\ Alone!pullContiguous(r) = pullContiguous(r)
<1>1. Alone!addSegment(r, seq, data) = addSegment(r, seq, data)
  BY Zenon DEF Alone!addSegment, addSegment, Alone!Cursor, Cursor, Alone!seqLessThan, seqLessThan,
               Alone!Distance, Distance, Alone!Store, Store
<1>2. Alone!pullContiguous(r) = pullContiguous(r)
  BY Zenon DEF Alone!pullContiguous, pullContiguous, Alone!Pulled, Pulled, Alone!PullEntry, PullEntry,
               Alone!seqLessThan, seqLessThan, Alone!Distance, Distance, Alone!Erase, Erase,
               Alone!MapThenFoldSet, MapThenFoldSet, Alone!Max, Max
<1> QED BY <1>1, <1>2

\* The payload is looked into alike.
LEMMA AloneInspection == ASSUME NEW flow, NEW p PROVE Alone!Inspected(flow, p) = Inspected(flow, p)
<1>1. Alone!Inspects(flow, p) <=> Inspects(flow, p)
  BY Zenon DEF Alone!Inspects, Inspects
<1>2. \A t, f : Alone!Tried(t, f) = Tried(t, f)
  BY Zenon DEF Alone!Tried, Tried, Alone!Answered, Answered, Alone!AnsweredUnder, AnsweredUnder,
               Alone!Decided, Decided, Alone!tryExtractSni, tryExtractSni
<1>3. \A t, f : Alone!tryResolveSni(t, f) = tryResolveSni(t, f)
  BY <1>2, AloneReassembly, Zenon DEF Alone!tryResolveSni, tryResolveSni, Alone!Fed, Fed
<1> DEFINE g == [flow EXCEPT !.reassembler = addSegment(@, p.seq, p.data)]
<1>4. Inspected(flow, p) = IF Inspects(flow, p) THEN tryResolveSni(p.tuple, g) ELSE flow
  BY Zenon DEF Inspected
<1>5. Alone!Inspected(flow, p) = IF Alone!Inspects(flow, p) THEN Alone!tryResolveSni(p.tuple, g) ELSE flow
  BY AloneReassembly, Zenon DEF Alone!Inspected
<1> HIDE DEF g
<1> QED BY <1>1, <1>3, <1>4, <1>5, Zenon

\* What becomes of a packet is decided alike.
LEMMA AloneDecision ==
    ASSUME NEW flow, NEW report, NEW p
    PROVE  Alone!Decide(flow, report, p) = Decide(flow, report, p)
<1>1. \A f, r : Alone!Pass(f, r) = Pass(f, r)
  BY Zenon DEF Alone!Pass, Pass
<1>2. \A f, r, reason : Alone!Condemn(f, r, p, reason) = Condemn(f, r, p, reason)
  BY Zenon DEF Alone!Condemn, Condemn, Alone!Condemned, Condemned
<1>3. \A f : Alone!Judge(f, report, p) = Judge(f, report, p)
  BY <1>1, <1>2, AloneRule, Zenon DEF Alone!Judge, Judge, Alone!Reason, Reason
<1>4. Alone!IpMatches(p) <=> IpMatches(p)
  BY Zenon DEF Alone!IpMatches, IpMatches, Alone!isBlockedIp, isBlockedIp
<1>5. Alone!PortMatches(p) <=> PortMatches(p)
  BY Zenon DEF Alone!PortMatches, PortMatches, Alone!isBlockedPort, isBlockedPort
<1>6. Alone!IpRule = IpRule /\ Alone!PortRule = PortRule
  BY Zenon DEF Alone!IpRule, IpRule, Alone!PortRule, PortRule, Alone!Reason, Reason
<1> QED BY <1>1, <1>2, <1>3, <1>4, <1>5, <1>6, AloneInspection, Zenon DEF Alone!Decide, Decide

\* So a packet is processed alike.
LEMMA AloneProcessing ==
    ASSUME NEW engine, NEW p
    PROVE  Alone!processParsedPacket(engine, p) = processParsedPacket(engine, p)
  BY AloneNew, AloneDecision, Zenon
     DEF Alone!processParsedPacket, processParsedPacket, Alone!Stored, Stored

\* It starts and steps as the shard does.
LEMMA AloneIsShard ==
    /\ Alone!Init <=> Shard!Init
    /\ (Alone!Init)' <=> (Shard!Init)'
    /\ Alone!vars = Shard!vars /\ (UNCHANGED Alone!vars <=> UNCHANGED Shard!vars)
    /\ Alone!Next <=> Shard!Next
<1>1. Alone!NewEngine = Shard!NewEngine
  BY AloneNew, SameNew
<1>2. \A engine, p : Alone!processParsedPacket(engine, p) = Shard!processParsedPacket(engine, p)
  BY AloneProcessing, SameProcessing
<1>3. Alone!Next <=> Shard!Next
  BY <1>2, Zenon DEF Alone!Next, Shard!Next, Alone!Process, Shard!Process
<1>4. (Alone!Init <=> Shard!Init) /\ ((Alone!Init)' <=> (Shard!Init)')
  BY <1>1, Zenon DEF Alone!Init, Shard!Init
<1> QED BY <1>3, <1>4, Zenon DEF Alone!vars, Shard!vars

-----------------------------------------------------------------------------
(* The invariant of DpiEngineProofs.                                       *)

\* It holds of a new engine and is preserved by every packet: the assumptions of
\* DpiEngine are those of ShardedEngine.
LEMMA AloneInvariant ==
    /\ Alone!Init => Alone!EngineInv
    /\ Alone!EngineInv /\ [Alone!Next]_(Alone!vars) => Alone!EngineInv'
    /\ Alone!EngineInv => /\ Alone!ReportAgrees /\ Alone!BufferCapped /\ Alone!RulesComeFirst
                          /\ Alone!NameIsJudged /\ Alone!VerdictIsTrue /\ Alone!NoRecordMissed
<1>1. /\ Rules.blocked_domains \in Seq(Alone!ToSet(Rules.blocked_domains))
      /\ MAX_REASSEMBLY_BYTES \in Nat /\ RECORD_HEADER_LEN \in Nat \ {0}
      /\ RECORD_HEADER_LEN <= MAX_REASSEMBLY_BYTES
  BY InspectionAssumption, Zenon DEF Alone!ToSet, ToSet
<1>2. \A t \in Tuples : t.protocol = "TCP" =>
          \E isn \in Alone!SeqNumbers : Alone!StreamFrom(isn, t, Packets)
  BY ShardAssumption, Zenon DEF Alone!SeqNumbers, SeqNumbers, Alone!StreamFrom, StreamFrom,
                                Alone!Half, Half, Alone!Bytes, Bytes
<1>3. /\ MaxPackets \in Nat
      /\ \A p \in Packets : p.tuple \in Tuples
      /\ \A t \in Tuples : \A from \in DOMAIN Streams[t] :
            /\ Streams[t][from].verdict \in {"Found", "NoSni", "NotTls", "Malformed"}
            /\ Streams[t][from].record_end \in Nat
  BY ConcurrentAssumption, ShardAssumption
<1>4. Alone!Init => Alone!EngineInv
  BY <1>1, <1>2, <1>3, SeqAssumption, Alone!EngineInit, Zenon
<1>5. Alone!EngineInv /\ [Alone!Next]_(Alone!vars) => Alone!EngineInv'
  BY <1>1, <1>2, <1>3, SeqAssumption, Alone!EngineNext, Zenon
<1>6. Alone!EngineInv => /\ Alone!ReportAgrees /\ Alone!BufferCapped /\ Alone!RulesComeFirst
                         /\ Alone!NameIsJudged /\ Alone!VerdictIsTrue /\ Alone!NoRecordMissed
  BY <1>1, <1>2, <1>3, SeqAssumption, Alone!EngineFollows, Zenon
<1> QED BY <1>4, <1>5, <1>6

\* So it outlasts every step, a new call included.
LEMMA ShardInvNext == Alone!EngineInv /\ ShardStep => Alone!EngineInv'
<1>1. (Alone!Init => Alone!EngineInv)'
  BY AloneInvariant, PTL
<1> QED BY <1>1, AloneInvariant, AloneIsShard DEF ShardStep

\* What this instance says of the report and of the rules is what ShardIsRight says.
LEMMA ReportsAgree ==
    /\ Alone!ReportAgrees <=> Shard!ReportAgrees
    /\ Alone!BufferCapped <=> Shard!BufferCapped
    /\ Alone!RulesComeFirst <=> Shard!RulesComeFirst
    /\ Alone!NameIsJudged <=> Shard!NameIsJudged
<1>1. Alone!flows = Shard!flows /\ Alone!report = Shard!report
  BY Zenon DEF Alone!flows, Shard!flows, Alone!report, Shard!report
<1>2. Alone!BlockedFlows = Shard!BlockedFlows
  BY <1>1, Zenon DEF Alone!BlockedFlows, Shard!BlockedFlows
<1>3. \A S : Alone!ToSet(S) = Shard!ToSet(S) /\ Alone!Cardinality(S) = Shard!Cardinality(S)
  BY Zenon DEF Alone!ToSet, Shard!ToSet, Alone!Cardinality, Shard!Cardinality
<1>4. Alone!ReportAgrees <=> Shard!ReportAgrees
  BY Zenon DEF Alone!ReportAgrees, Shard!ReportAgrees, Alone!FlowCountsAgree, Shard!FlowCountsAgree,
               Alone!BlockedFlows, Shard!BlockedFlows, Alone!flows, Shard!flows,
               Alone!report, Shard!report, Alone!ToSet, Shard!ToSet,
               Alone!Cardinality, Shard!Cardinality, Alone!FoldSet, Shard!FoldSet,
               Alone!MapThenFoldSet, Shard!MapThenFoldSet
<1>5. Alone!BufferCapped <=> Shard!BufferCapped
  BY <1>1, Zenon DEF Alone!BufferCapped, Shard!BufferCapped
<1>6. Alone!RulesComeFirst <=> Shard!RulesComeFirst
  BY Zenon DEF Alone!RulesComeFirst, Shard!RulesComeFirst, Alone!BlockedFlows, Shard!BlockedFlows,
               Alone!flows, Shard!flows, Alone!IpRule, Shard!IpRule, Alone!PortRule, Shard!PortRule,
               Alone!Reason, Shard!Reason, Alone!NewReassembler, Shard!NewReassembler
<1>7. Alone!NameIsJudged <=> Shard!NameIsJudged
  BY Zenon DEF Alone!NameIsJudged, Shard!NameIsJudged, Alone!FirstHit, Shard!FirstHit,
               Alone!Hits, Shard!Hits, Alone!Min, Shard!Min, Alone!Reason, Shard!Reason,
               Alone!ObservedNamesAgree, Shard!ObservedNamesAgree, Alone!ToSet, Shard!ToSet,
               Alone!flows, Shard!flows, Alone!report, Shard!report
<1> QED BY <1>4, <1>5, <1>6, <1>7

\* So is what it says of streams.
LEMMA StreamsAgree ==
    /\ Alone!VerdictIsTrue <=> Shard!VerdictIsTrue
    /\ Alone!NoRecordMissed <=> Shard!NoRecordMissed
<1>1. Alone!VerdictIsTrue <=> Shard!VerdictIsTrue
  BY Zenon DEF Alone!VerdictIsTrue, Shard!VerdictIsTrue, Alone!FromFirstByte, Shard!FromFirstByte,
               Alone!Truth, Shard!Truth, Alone!RecordEnd, Shard!RecordEnd,
               Alone!DataOf, Shard!DataOf,
               Alone!CarriesData, Shard!CarriesData, Alone!flows, Shard!flows
<1>2. Alone!NoRecordMissed <=> Shard!NoRecordMissed
  BY Zenon DEF Alone!NoRecordMissed, Shard!NoRecordMissed, Alone!FromFirstByte, Shard!FromFirstByte,
               Alone!CutAlike, Shard!CutAlike, Alone!Unwrapped, Shard!Unwrapped,
               Alone!RecordEnd, Shard!RecordEnd,
               Alone!Captured, Shard!Captured, Alone!ToSet, Shard!ToSet,
               Alone!IpRule, Shard!IpRule, Alone!PortRule, Shard!PortRule, Alone!Reason, Shard!Reason,
               Alone!DataOf, Shard!DataOf, Alone!CarriesData, Shard!CarriesData,
               Alone!flows, Shard!flows
<1> QED BY <1>1, <1>2

\* For any number of workers, any capacity, any hash and any interleaving of the
\* threads, each worker's report agrees with its flows, its rules were applied and its
\* verdicts are true of the packets routed to it: what the engine promises alone
\* (dpi_engine.cpp:65-190) it promises as a shard (concurrent_dpi_engine.cpp:77-84).
THEOREM EveryShardIsRight == Spec => []ShardIsRight
<1>1. Init => Alone!EngineInv
  BY ShardInit, AloneInvariant, AloneIsShard
<1>2. Alone!EngineInv => ShardIsRight
  BY AloneInvariant, ReportsAgree, StreamsAgree, Zenon DEF ShardIsRight
<1>3. Alone!EngineInv /\ [ShardStep]_vars => Alone!EngineInv'
  <2>1. vars' = vars => UNCHANGED Shard!vars
    BY Zenon DEF vars, Shard!vars, Handled, Routed, InFlight, Route
  <2> QED BY <2>1, ShardInvNext DEF ShardStep
<1> QED BY <1>1, <1>2, <1>3, EveryShardIsAnEngine, PTL DEF Spec, ShardsImplementEngine
=============================================================================
