------------------------ MODULE ConcurrentDpiEngine ------------------------
(***************************************************************************)
(* The multi-threaded engine (src/concurrent_dpi_engine.cpp): the thread   *)
(* that calls processFile reads and routes packets (LB below), one worker  *)
(* thread per queue feeds an engine of its own, and the reports are merged *)
(* once the workers are joined.                                            *)
(*                                                                         *)
(* push(), pop() and close() are the atomic operations of BoundedFifo,     *)
(* which BoundedQueue.tla implements.  A push that finds its queue closed, *)
(* the "shouldn't happen mid-run" of the code, has no action here: LB is   *)
(* the only thread that closes a queue and it closes none while it reads.  *)
(***************************************************************************)
EXTENDS PacketInspection

CONSTANTS
    RequestedWorkers,   \* num_workers as given to the constructor
    RequestedCapacity,  \* queue_capacity as given to the constructor
    Packets,            \* the packets a capture may contain
    MaxPackets,         \* bound on the packets of a capture
    MaxFiles            \* bound on the calls of processFile

ASSUME ConcurrentAssumption ==
    /\ RequestedWorkers \in Nat
    /\ RequestedCapacity \in Nat
    /\ MaxPackets \in Nat
    /\ MaxFiles \in Nat
    /\ \A p \in Packets : p.has_ip \in BOOLEAN /\ p.tuple \in Tuples

\* Mutant: the constructor takes the capacity as it is.
queue_capacity_Raw == RequestedCapacity

\* The constructor never leaves either at zero.
num_workers == IF RequestedWorkers > 0 THEN RequestedWorkers ELSE 1
queue_capacity == IF RequestedCapacity > 0 THEN RequestedCapacity ELSE 1

Workers == 1..num_workers

VARIABLES
    shard,     \* FiveTupleHash modulo num_workers_: a function of the tuple
    files,     \* how many times processFile was called
    lb,        \* LB: "idle" outside processFile, "reading" or "closing" in it
    read,      \* history: the packets read from the capture so far
    outgoing,  \* the packet LB is pushing: <<p>>, or <<>>
    queues,    \* queues[w]: the packets in worker w's queue
    closed,    \* the workers whose queue is closed
    item,      \* item[w]: the packet w has popped and not processed, or <<>>
    running,   \* the workers that have not left their loop
    engines,   \* shard_engines
    merged     \* merged_report_

lbVars == <<files, lb, read, outgoing, closed, merged>>
vars == <<shard, files, lb, read, outgoing, queues, closed, item, running, engines, merged>>

-----------------------------------------------------------------------------
\* Mutant: a frame without a transport header goes to the first worker.
Route_ByPorts(p) == IF p.has_l4 THEN shard[p.tuple] ELSE 1

\* FiveTupleHash{}(parsed.tuple()) % num_workers_
Route(p) == shard[p.tuple]

\* mergeReportInto
mergeReportInto(dst, src) ==
    [total_packets |-> dst.total_packets + src.total_packets,
     total_flows |-> dst.total_flows + src.total_flows,
     blocked_flows |-> dst.blocked_flows + src.blocked_flows,
     blocked_packets |-> dst.blocked_packets + src.blocked_packets,
     blocked_entries |-> dst.blocked_entries \o src.blocked_entries,
     observed_snis |-> dst.observed_snis \o src.observed_snis,
     packet_latencies_ns |-> dst.packet_latencies_ns + src.packet_latencies_ns]

\* The reports of the engines, merged in the order of the workers.
MergedInto(start) ==
    FoldLeft(LAMBDA dst, w : mergeReportInto(dst, engines[w].report),
             start, [w \in Workers |-> w])

Init ==
    /\ shard \in [Tuples -> Workers]
    /\ files = 0
    /\ lb = "idle"
    /\ read = <<>>
    /\ outgoing = <<>>
    /\ queues = [w \in Workers |-> <<>>]
    /\ closed = {}
    /\ item = [w \in Workers |-> <<>>]
    /\ running = {}
    /\ engines = [w \in Workers |-> NewEngine]
    /\ merged = EmptyReport

\* processFile on a capture that opens: new queues, engines and threads.
Start ==
    /\ lb = "idle"
    /\ files < MaxFiles
    /\ files' = files + 1
    /\ lb' = "reading"
    /\ read' = <<>>
    /\ queues' = [w \in Workers |-> <<>>]
    /\ closed' = {}
    /\ running' = Workers
    /\ engines' = [w \in Workers |-> NewEngine]
    /\ UNCHANGED <<shard, outgoing, item, merged>>

\* readNextPacket and parse; what is not IP is skipped.
Read(p) ==
    /\ lb = "reading"
    /\ outgoing = <<>>
    /\ Len(read) < MaxPackets
    /\ read' = Append(read, p)
    /\ outgoing' = IF p.has_ip THEN <<p>> ELSE <<>>
    /\ UNCHANGED <<shard, files, lb, queues, closed, item, running, engines, merged>>

\* The packet in LB's hands joins the queue it is routed to.
HandOver ==
    /\ outgoing # <<>>
    /\ queues' = [queues EXCEPT ![Route(Head(outgoing))] = Append(@, Head(outgoing))]
    /\ outgoing' = <<>>
    /\ UNCHANGED <<shard, files, lb, read, closed, item, running, engines, merged>>

\* Mutant: the queues are unbounded.
Push_Unbounded == HandOver

\* push: LB waits here while the queue of that worker is full.
Push == HandOver /\ Len(queues[Route(Head(outgoing))]) < queue_capacity

\* readNextPacket returns false.
EndOfFile ==
    /\ lb = "reading"
    /\ outgoing = <<>>
    /\ lb' = "closing"
    /\ UNCHANGED <<shard, files, read, outgoing, queues, closed, item, running, engines, merged>>

\* q->close(), in the order of the workers.
Close(w) ==
    /\ lb = "closing"
    /\ w \notin closed
    /\ \A v \in Workers : v < w => v \in closed
    /\ closed' = closed \cup {w}
    /\ UNCHANGED <<shard, files, lb, read, outgoing, queues, item, running, engines, merged>>

\* Worker w takes packet p out of its queue, and rest is what remains.
Take(w, p, rest) ==
    /\ item' = [item EXCEPT ![w] = <<p>>]
    /\ queues' = [queues EXCEPT ![w] = rest]
    /\ UNCHANGED <<shard, lbVars, running, engines>>

\* The worker waits in pop, and there is something for it.
CanPop(w) == w \in running /\ item[w] = <<>> /\ queues[w] # <<>>

\* Mutant: the newest packet leaves the queue first.
Pop_Newest(w) == CanPop(w) /\ Take(w, Last(queues[w]), Front(queues[w]))

\* pop returns true.
Pop(w) == CanPop(w) /\ Take(w, Head(queues[w]), Tail(queues[w]))

\* The packet worker w has popped goes to engine v.
Feed(w, v) ==
    /\ item[w] # <<>>
    /\ engines' = [engines EXCEPT ![v] = processParsedPacket(@, Head(item[w]))]
    /\ item' = [item EXCEPT ![w] = <<>>]
    /\ UNCHANGED <<shard, lbVars, queues, running>>

\* Mutant: the packet goes to the engine of the first worker.
ProcessItem_SharedEngine(w) == Feed(w, 1)

\* The worker feeds its engine.
ProcessItem(w) == Feed(w, w)

\* Worker w, with nothing to do, leaves its loop.
LeaveLoop(w) ==
    /\ w \in running
    /\ item[w] = <<>>
    /\ queues[w] = <<>>
    /\ running' = running \ {w}
    /\ UNCHANGED <<shard, lbVars, queues, item, engines>>

\* Mutant: a worker leaves as soon as its queue is empty, closed or not.
Exit_WhenEmpty(w) == LeaveLoop(w)

\* pop returns false: closed and drained.
Exit(w) == w \in closed /\ LeaveLoop(w)

\* Every worker is joined; the reports are merged into one that starts as
\* `start`, and processFile returns.
MergeInto(start) ==
    /\ lb = "closing"
    /\ closed = Workers
    /\ running = {}
    /\ merged' = MergedInto(start)
    /\ lb' = "idle"
    /\ UNCHANGED <<shard, files, read, outgoing, queues, closed, item, running, engines>>

\* Mutant: merged_report_ is not reset.
Merge_Accumulates == MergeInto(merged)

Merge == MergeInto(EmptyReport)

LbStep ==
    \/ \E p \in Packets : Read(p)
    \/ Push
    \/ EndOfFile
    \/ \E w \in Workers : Close(w)
    \/ Merge

WorkerStep(w) == Pop(w) \/ ProcessItem(w) \/ Exit(w)

Next == Start \/ LbStep \/ \E w \in Workers : WorkerStep(w)

Spec == Init /\ [][Next]_vars

\* A capture ends, and the operating system runs every thread that can run.
FairSpec == Spec /\ WF_vars(LbStep) /\ \A w \in Workers : WF_vars(WorkerStep(w))

-----------------------------------------------------------------------------
\* The variables have their types, and no queue outgrows its capacity.
TypeOK ==
    /\ shard \in [Tuples -> Workers]
    /\ files \in 0..MaxFiles
    /\ lb \in {"idle", "reading", "closing"}
    /\ read \in Seq(Packets)
    /\ outgoing \in {<<>>} \cup {<<p>> : p \in Packets}
    /\ queues \in [Workers -> Seq(Packets)]
    /\ \A w \in Workers : Len(queues[w]) <= queue_capacity
    /\ closed \subseteq Workers
    /\ item \in [Workers -> {<<>>} \cup {<<p>> : p \in Packets}]
    /\ running \subseteq Workers
    /\ DOMAIN engines = Workers

\* Those of the packets that this hash routes to worker w, in their order.
RoutedFrom(hash, packets, w) ==
    FoldLeft(LAMBDA kept, p : IF p.has_ip /\ hash[p.tuple] = w THEN Append(kept, p) ELSE kept,
             <<>>, packets)

\* The packets of the capture that belong to worker w.
Routed(w) == RoutedFrom(shard, read, w)

\* Those that have not reached w's engine, oldest first.
InFlight(w) ==
    item[w] \o queues[w] \o
    (IF outgoing # <<>> /\ Route(Head(outgoing)) = w THEN outgoing ELSE <<>>)

\* Those that have.
Handled(w) == SubSeq(Routed(w), 1, Len(Routed(w)) - Len(InFlight(w)))

(***************************************************************************)
(* "every packet of a given flow always lands on the same worker, in send  *)
(* order" (concurrent_dpi_engine.h:12): at any moment of any interleaving  *)
(* the packets of a worker, from its engine back to LB's hands, are those  *)
(* of the capture routed to it, none missing, twice or out of order, and   *)
(* its engine is the one the packets it has had would give if they were    *)
(* the whole capture.                                                      *)
(***************************************************************************)
PipelineInOrder ==
    \A w \in Workers :
        /\ Handled(w) \o InFlight(w) = Routed(w)
        /\ engines[w] = FoldLeft(processParsedPacket, NewEngine, Handled(w))

\* No flow is known to two engines, whatever its packets look like: that is
\* why the engines need no lock and why their flow counts can be added up.
FlowsStayWhole ==
    \A w \in Workers : \A t \in DOMAIN engines[w].flows : shard[t] = w

\* A worker that has left its loop leaves nothing behind and nothing more will
\* come for it: it goes only after LB has pushed its last packet.
ExitIsFinal ==
    \A w \in Workers \ running : lb # "reading" /\ InFlight(w) = <<>>

\* LB closes no queue while it reads, has no packet in its hands after, and
\* returns when no worker is left.
ThreadsInStep ==
    /\ lb = "reading" => closed = {} /\ running = Workers
    /\ lb # "reading" => outgoing = <<>>
    /\ lb = "idle" => running = {}

\* What a worker has, in its queue or in its hands, is routed to it.
OwnPacketsOnly ==
    \A w \in Workers :
        /\ \A i \in DOMAIN queues[w] : Route(queues[w][i]) = w
        /\ item[w] # <<>> => Route(Head(item[w])) = w

\* The strengthening of TypeOK, FlowsStayWhole and ExitIsFinal that is inductive.
IndInv ==
    /\ TypeOK
    /\ ThreadsInStep
    /\ OwnPacketsOnly
    /\ FlowsStayWhole
    /\ ExitIsFinal

\* What the single-threaded engine says of the same capture.
Sequential == FoldLeft(processParsedPacket, NewEngine, read).report

\* Equal but for the order in which shards were merged.
SameUpToOrder(a, b) ==
    /\ \A field \in {"total_packets", "total_flows", "blocked_flows", "blocked_packets",
                     "packet_latencies_ns"} : a[field] = b[field]
    /\ ToBag(a.blocked_entries) = ToBag(b.blocked_entries)
    /\ ToBag(a.observed_snis) = ToBag(b.observed_snis)

\* "the same aggregate result as the single-threaded DpiEngine on the same
\* file, just possibly in a different event order"
\* (test_concurrent_dpi_engine.cpp:1): after every call of processFile.
SameAsSequential == lb = "idle" /\ files > 0 => SameUpToOrder(merged, Sequential)

\* processFile returns, however small the queues are and whichever worker is
\* slow: no thread waits for ever for another.
Returns == lb # "idle" ~> lb = "idle"
=============================================================================
