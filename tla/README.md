# FlowDPI in TLA+

FlowDPI reads packets from a pcap file or an interface, sorts them into flows,
reassembles the first bytes of every TCP direction, reads the server name out
of a TLS ClientHello and matches flows against blocking rules. A second engine
does the same on several threads. This directory holds TLA+ models of that
program, TLC runs that check them on small instances, and proofs checked by
TLAPS. Paths below are relative to the repository (`include/`, `src/`, `tests/`).

`tlc -config X.cfg M` runs a check, `tlapm M.tla` checks the proofs of a module.

## 1. The system

| Component | State it keeps | Operations | Talks to |
|---|---|---|---|
| `PcapReader` (`src/pcap_reader.cpp`) | open file, byte order, link type | `open`, `readNextPacket` | called by both engines |
| `LiveCapture` (`src/live_capture.cpp`) | pcap handle, running flag; global `g_capture` for SIGINT | `open`, `run`, `stop`, `close` | callback into `DpiEngine::processPacket` |
| `PacketParser` (`src/packet_parser.cpp`) | none of its own; fills the caller's `ParsedPacket` | `parse` | both engines |
| `TcpStreamReassembler` (`src/tcp_reassembler.cpp`) | `pending_`, `next_seq_`, `initialized_`, `consumed_any_` | `addSegment`, `pullContiguous`, `pendingBytes` | one in every flow of a `DpiEngine` |
| `tryExtractSni` (`src/tls_parser.cpp`) | none | one call | `DpiEngine::tryResolveSni` |
| `BlockRules` (`src/block_rules.cpp`) | three rule sets | add, load, three look-ups | `DpiEngine`, copied into each worker's |
| `DpiEngine` (`src/dpi_engine.cpp`) | `flows_`, `report_` | `processPacket`, `processParsedPacket`, `renderReport` | all of the above |
| `BoundedQueue` (`include/bounded_queue.h`) | `queue_`, `closed_`, mutex, two condition variables | `push`, `pop`, `close`, `size` | load balancer and one worker each |
| `ConcurrentDpiEngine` (`src/concurrent_dpi_engine.cpp`) | per call: queues, shard engines, threads; `merged_report_` | `processFile`, `renderReport` | `BoundedQueue`, `DpiEngine` |
| command line (`src/main.cpp`) | rules and number of workers while parsing; `g_capture` | one pass over `argv`, then one of the engines | all of the above |
| benchmark, fuzz driver | none | | |

What is hard in it, and what correctness means for each part:

- **BoundedQueue.** Any number of threads, two condition variables, `notify_one`
  *after* the mutex is released, spurious wakeups, `close()` at any moment. No
  item may be lost, doubled or overtaken; no thread may sleep while there is
  something for it; `close()` must release everybody, and only when the queue is
  drained may a consumer be told so.
- **TcpStreamReassembler.** Segments arrive lost, repeated, reordered and recut;
  sequence numbers wrap. What is delivered must be one unbroken piece of the
  stream; nothing that is there may be held back.
- **DpiEngine.** A flow goes through a decision once. Four exits of one function
  keep the same counters. Rules have a precedence. The decision must not depend
  on how the network cut the handshake, and a flow's memory must stay bounded.
- **ConcurrentDpiEngine.** The packets of a flow must reach one engine, in
  order; the shutdown (close, drain, join, merge) must lose no packet and read no
  engine that is still being written; nobody may wait for ever; the result must
  be the one of the single-threaded engine.
- **PacketParser.** Offsets come from the packet; every read must stay within
  what was captured, and the fields must be those of this frame. (The callers declare a fresh
  `ParsedPacket` for each, so nothing can leak from the frame before; the model does not rely on it.)
- **TlsParser, BlockRules.** Five nested lengths, each to be compared with what
  encloses it; the same bytes are tried again with every chunk. The name found must be
  the one the client meant, and a rule must match whole labels of it.
- **PcapReader.** Two byte orders, files cut anywhere: every complete record must reach
  the parser, no part of an incomplete one may.
- **LiveCapture and main.** SIGINT at any moment, from before the handler is installed
  until after the capture is destroyed. A request to stop must not be forgotten, and the
  report must be printed for it. Arguments that look like options must not put the
  parser of the command line out of step.

`PROJECT.json` lists each of these hazards at its line with the properties that
cover it.

## 2. The modules

    BoundedFifo  <--refines--  BoundedQueue  <-- BoundedQueueProofs
         |
         | (push, pop, close as atomic steps)
         v
    TcpStreamReassembler --> PacketInspection --> ConcurrentDpiEngine
         |                    ^    |                     |
    TcpReassembly             |  DpiEngine <--refines-- ShardedEngine <-- ConcurrentDpiEngineProofs
                              |    ^ (what it assumes of tryExtractSni)
    BlockRules ---------------+    |
         |  \--------------> ServerName <-- TlsParser
         |                    |
         |                    v
         |                   ServerNameProofs
         v
    CommandLine --> FlowDpi <-- PcapReader
                     |  ^
                     |  +------ PacketParser
                     v
               FlowDpiProofs

    TcpStreamReassemblerProofs --> TcpReassemblyProofs (about TcpReassembly)
                 |
                 +---------------> DpiEngineProofs (about DpiEngine) --> ConcurrentDpiEngineProofs
    FoldLoop: an instance in each of TcpStreamReassemblerProofs, DpiEngineProofs,
              ConcurrentDpiEngineProofs, FlowDpiProofs and ServerNameProofs for every
              loop these reason about

An arrow without a label is EXTENDS or INSTANCE.

**BoundedFifo** is the abstract queue: `Push`, `Refuse`, `Pop`, `Drain`, `Close`,
each one step.

**BoundedQueue** is the header as its threads run it. `pc[t]` says where each
thread is; a call is `Lock`, then either one of the waits (`PushWait`,
`PopWait`: release and sleep in one step, as `condition_variable::wait` does) or
the critical section that ends it (`PushItem`, `PushRefused`, `PopItem`,
`PopDrained`), and finally, when the mutex is long released, `NotifyOne`.
`close()` is three steps: the flag, `notify_all` on one condition variable,
`notify_all` on the other. `NotifyOne` picks any sleeper, `SpuriousWake` wakes
one nobody notified.

**TcpStreamReassembler** has the class's functions as operators on a record of
its four fields; sequence numbers are modulo `SeqModulus` (2^32 in the code, 16
or 32 in the runs), `seqLessThan` is the sign of the wrapped difference, and
`pending_` is a function walked in the order of its *plain integer* keys, which
is what `std::map<uint32_t, ...>` does. A byte is its offset in the sender's
stream, so every loss or duplication can be seen in what is delivered.
**TcpReassembly** is the environment: any piece of the stream may be captured at
any time (`Segment`), and the user pulls at any time (`Pull`).

**PacketInspection** is `DpiEngine::processParsedPacket` with all it calls, as an
operator from (engine, packet) to engine: the flow table, blocked flows, address
and port rules, `tryResolveSni`, the domain rules, and the report.
Left as parameters: which bytes a stream contains (`Streams[t]`: at which offsets it has the byte a
handshake begins with, and for each of these where a record starting there would end and what
`tryExtractSni` would say of it, since the engine tries whatever byte its buffer starts with) and
which host names a rule matches (`RuleMatches`); `ServerName` checks that the code
does to bytes and characters what these parameters stand for. A report entry stands for its
text; a latency sample is counted, not timed; `byte_count`, which nothing reads, is left out.
**DpiEngine** feeds one engine any sequence of packets. Its state accumulates over
captures as the code's does: `processFile` never clears it.

**ConcurrentDpiEngine** is `processFile` with its threads. `shard` is the hash
modulo the number of workers, an arbitrary function chosen in `Init`. `Read`,
`Push`, `EndOfFile`, `Close` and `Merge` are the calling thread, `Pop`,
`ProcessItem` and `Exit` a worker; `item[w]` is the packet a worker has popped and
not yet processed. The queue operations are the atomic ones of `BoundedFifo`,
justified by the refinement proved for `BoundedQueue`. A file that does not open
changes nothing and has no step. The `break` after a refused push has no action:
only the reading thread closes queues, and only later.
**ShardedEngine** states that a worker's engine is a `DpiEngine` run on the
packets routed to it. The worker is a constant, `AnyWorker`: the run looks at one of the two (the
hash function is arbitrary, so either may be given any of the flows), the theorems hold for all.
`ShardIsRight` says of it what `DpiEngine`'s invariants say of an engine, at every moment and with the
packets routed to it and processed in place of the capture. No run lists it: it adds nothing to what
`ShardsImplementEngine` and the capture run of `DpiEngine` check, but it is what a reader wants to know, and is proved.

**PacketParser** is `parse` on one frame after another into one and the same
`ParsedPacket`. That is stricter than the program, whose callers declare a fresh one for each frame
(`src/dpi_engine.cpp:60`, `src/concurrent_dpi_engine.cpp:91`, `src/main.cpp:138`): `NothingStale` shows
that the parser alone sees to it that no field is left over. A frame is the numbers in its headers and how many bytes of it
were captured; `touched` records how far the parser has read.

**BlockRules** is the class as operators on a rule set: adding rules of each kind and the
three look-ups, over names of any kind.

**TlsParser** is `tryExtractSni` on sequences of bytes. A walk is at a position or `Lost`;
`Past` is the comparison "does this many bytes fit into what encloses them", which the
code writes out fourteen times, `Behind` a field with its own length.
**ServerName** gives it hellos. A hello is what a client means: lists of names and of
extensions, sound, cut short, or with one length that is one too large; `Encoding` writes
the bytes as `buildClientHelloRecord` of the benchmark does. Its state is how much of them
has arrived. `matchesRule` works on characters, and is compared with suffixes of lists of
labels. The module instantiates `PacketInspection` with a description of the stream (`Described`) and
compares what the engine model makes of it with the parser itself, from every offset of the stream.

**PcapReader** is the reader as operators on a file: its byte order, snaplen and frames,
and how many bytes of it are there. **CommandLine** is the loop over `argv`, one action for each
branch. **FlowDpi** puts both around `PacketParser` as one run of the program: arguments, then
either replay (`OpenFile`, `ReadPacket`, `EndOfFile`) or live capture (`OpenDevice`,
`PublishCapture`, `InstallHandler`, then `LoopCheck` and one of `Receive`, `ReadTimeout`,
`LoopFails`), `Report`, the steps of the destructor (`CloseStep`), `Return`. `Sigint` may
happen between any two of them. The engine is here what it counts; `pcap_loop` is external
and modelled by what the code relies on: a flag it looks at before it waits,
and a wait that ends with a frame, the timeout or an error.

The `MC*` modules hold packet, frame and segment sets for TLC. Operators called
`X_Something` after a definition `X` and marked *Mutant* are plausible mistakes in
the code that `X` stands for; each property is checked to fail for one of them.

## 3. The runs

Runs marked *violated* check one sentence of the repository that the code does not
keep; see section 5.

| Run | What it checks | Bounds |
|---|---|---|
| `BoundedQueue_threads` | type and capacity, `AcceptedExactlyOnce`, `DrainedIsFinal`, `NoLostWakeup`, `CloseWakesEveryone`; refinement of `BoundedFifo`; liveness `AcceptedIsTaken`, `ProducersReturn`, `CloseReturnsEveryone` | 2 producers, 2 consumers, 1 slot, 2 items each, 1 spurious wakeup |
| `TcpReassembly_cuts` | `DeliveredContiguous`, `CursorAgrees`, `StartsAtEarliest`, `PullTakesAllUnwrapped`, `NoByteLost` | any 4 segments of up to 3 bytes of a 6 byte stream, one start that wraps and one that does not |
| `TcpReassembly_wrap` | `PullTakesAll`, *violated* | wrap inside a 12 byte stream |
| `DpiEngine_captures` | `ReportAgrees`, `RulesComeFirst`, `NameIsJudged`, `BlockingIsFinal`, `VerdictIsTrue`, `BufferCapped`, `NoRecordMissed`, `DecisionIsFinal` | any 5 of 13 packets (every rule, every verdict, UDP, broken TCP headers, non-IP; the empty rule among the rules), or one 6 byte record in any 4 segments under a cap of 4 bytes |
| `DpiEngine_observed` | `ObservedOncePerFlow`, *violated* | 3 packets |
| `DpiEngine_emptyrule` | `EveryRuleBlocks`, *violated* | 3 packets of one flow, cap of 8 bytes |
| `DpiEngine_memory` | `FlowMemoryCapped`, *violated* | 4 packets, cap of 4 bytes |
| `ConcurrentDpiEngine_calls` | queue capacity, `PipelineInOrder`, `FlowsStayWhole`, `ExitIsFinal`, `SameAsSequential`, `ShardsImplementEngine`; liveness `Returns` | 2 workers, every hash function on 2 flows, two captures on one object; 2 slots and any 3 of 5 packets each, or requested capacity 0 and any 3 of 3 |
| `ServerName_prefixes` | `AsTheEngineAssumes`, `SaysWhatWasMeant`, `BlockedByLabels` | sound hellos with every list of names and extensions, the same with each false length, one that holds another hello, cut short at every byte or of another type, `FIXED_LEN` 2 in place of 34, at every prefix and from every byte of it; names of up to 3 labels, lists of up to 2 rules |
| `FlowDpi_runs` | `InBounds`, `NothingStale`, `SoundHeadersAccepted` along the program; `RulesAsAsked`, `ReportIsWhole`; liveness `EveryRunEnds` | every command line of up to 3 options of 11, and 5 endings that are not options or lack a value behind up to one of them; every frame of `AllFrames` in a file; a file of 4 records, 2 byte orders, 3 values of snaplen, cut at every byte; live captures of up to 3 frames with up to 2 signals |
| `FlowDpi_sigint` | `StopIsSafe`, *violated* | a live capture, up to 2 signals |
| `PacketParser_padding` | `PayloadIsSegment`, *violated* | frames of 54 and 60 bytes |

Why these bounds reach the interesting cases:

- *Queue.* With one slot, two threads a side and two items each, both sides sleep,
  two threads sleep on one condition variable, a wakeup can be stolen by a thread
  that never slept, and `close()` arrives at every point of that. With two slots the
  consumers' own notifications would release both producers, and a `close()` that
  forgets them would go unnoticed. The safety properties are proved for all sizes.
- *Reassembly.* Four segments are enough for a gap, its filling from both sides, a
  partial overlap with delivered and with pending bytes, and a retransmission of
  each. The stream is shorter than half the sequence space, as a TCP window is.
- *Engine.* A segment that decides a flow needs at most two before it; the fourth
  shows what happens after. The cap is below the record, so that giving up depends
  on how many bytes come at once. Inside that record two more bytes look like the beginning of a
  handshake, so a flow whose first segment was lost is judged by what they say. Captures of either kind are explored separately
  (`MCNext`), since a flow of one does not meet those of the other.
- *Threads.* Two slots are needed for packets to change places within a queue; the
  third packet of a worker finds its queue full while the other worker is idle. The second
  capture shows that nothing is left of the first. With one slot (what a requested
  capacity of zero becomes) the reader waits more often still. No run requests zero workers, which the
  constructor turns into one; the safety theorems hold for that, too.
- *Server names.* Every length field is wrong by one in some hello, the sender stops
  at every byte of the body, and every boundary is hit exactly by the sound hellos: these end
  their lists with leftovers too short for another entry. One hello has lengths
  that need their first byte. One has a complete hello in the body of an extension, and the
  parser, started there, finds it. Three labels are needed for a rule to match inside a name.
- *Program.* A file cut at every byte puts the cut before, into and behind every header and body,
  including the global header. Two signals let one arrive in the loop and another while the capture
  is being closed. A word has two digits in place of four bytes: a swap that is missed or done
  twice is seen either way.
- `CHECK_DEADLOCK FALSE` stands in the configurations of the engines because a capture ends:
  with no packet and no file left, the program stops. `Returns` says that it stops
  nowhere else. In `ServerName` the stream ends. The other runs check deadlock; `Terminated` is
  the queue's proper end, `Finished` the program's.

**Fairness.** `BoundedQueue` assumes weak fairness of each thread's steps: a runnable
thread runs, and a free mutex that stays free is given to a thread that wants it.
Nothing is assumed of the closer's first step: an accepted item must be taken and a
throttled producer must go on without a `close()`. `ConcurrentDpiEngine` assumes the
same of the reader and of each worker (`FairSpec`; `MCSpec` says it without the engine's state, which TLC
would compute again for each worker in each state); `Start` is not fair, nobody has to
call `processFile`. That a capture ends is the bound `MaxPackets`. The condition
variables are not assumed fair: `notify_one` may always choose the same thread.
`FlowDpi` assumes weak fairness of `MainStep`: the process is scheduled, and a wait in libpcap ends
within the 1000 ms timeout `LiveCapture::open` asks for (`ReadTimeout` is a step of main).
No frame, no error and no signal has to come. That libpcap keeps the timeout on a quiet
link is the assumption the comment at `src/live_capture.cpp:22` makes.

## 4. What is proved

Every safety property that a passing run checks is a theorem here.
The proofs hold for every value of the constants that the named assumptions admit (`QueueAssumption`, `SeqAssumption`, `StreamAssumption`,
`InspectionAssumption`, `CaptureAssumption`, `StreamsAssumption`, `ConcurrentAssumption`,
`WorkerAssumption`, `ShardAssumption`, `FramesAssumption`, `SessionsAssumption`, `TlsAssumption`, `HelloAssumption`,
`LabelAssumption`); TLC evaluates these in the runs. Six of them say more than a type:

- `StreamAssumption`, `StreamsAssumption` and, for the shards, `ShardAssumption`: what is captured of a TCP direction is cut out of one
  stream, each piece at the sequence number its sender gave it, and the stream ends before half of the
  sequence numbers are used up. Behind that distance the comparison of sequence numbers has no
  meaning (`include/tcp_reassembler.h:13`); the code looks at no more than the first record of a stream.
- `CaptureAssumption`, and `ShardAssumption` again: a complete record has one of the four final verdicts of `tls_parser.h`. That
  such a verdict is the same whatever follows is proved in `ServerNameProofs` of the parser itself (`AsTheEngineAssumes`), and of
  a record read from its first byte, which one it is (`SaysWhatWasMeant`).
- `InspectionAssumption`: a record header fits under the cap; 5 and 65536 in the code.
- `SessionsAssumption`: the lengths in a pcap file fit into the words they are written in, and `argv` is
  a target, complete options (each a flag `main` knows and as many values as it takes, whatever these
  say) and a tail that begins with none. Every command line can be written so, in one way: take
  options from the left while there is one. It is how a session says what its user meant.
- `HelloAssumption`: a hello can be written. Its content fits the one, two or three bytes each length
  has; at most one length is false, and one too large for the bytes behind it; a sender that
  stops early does not stop exactly where the extensions would begin, for what it has then written is a sound hello
  without them. Bytes, numbers of extensions and of names are arbitrary otherwise.
- `LabelAssumption`: host names and domain rules are labels joined by dots, and a label is not empty and holds
  no dot. A rule that is no such text (the empty one, one with a dot at an end) is compared as
  characters all the same; what it should match nobody has said, and the property does not speak of it.

**BoundedQueueProofs.** For any finite sets of producers and consumers, any capacity,
any number of items and spurious wakeups: `TypeCorrect` (the capacity is never
exceeded), `NoItemLost`, `DrainedForGood`, `WakeupsSuffice`, `CloseStrandsNobody`, and
`Refinement`: `Spec => ImplementsFifo`. All but the first come from `Invariance`,
the inductive invariant `IndInv` (its parts that are properties are checked in `BoundedQueue_threads`). `AcceptedExactlyOnce` speaks of `sent`,
`taken` and `queue` only and needs little help, but the others need each other: that
nothing arrives after a consumer was told "drained" needs `closed_` to be exactly the
closer's position, and that no producer is refused before. `NoLostWakeup` counts: while a consumer sleeps there
are at least as many wakeups under way (producers yet to notify, consumers about to
look) as there are items, and likewise for producers and free slots. A thread that
begins to sleep found its predicate false, which makes the left side zero; a push adds
one item and one notifier; `notify_one` turns a notifier into a looker, or finds
nobody asleep. `CountMove` and `GroupMove` are the arithmetic of that; the rest is one
lemma per part of the invariant, each by cases on the actions. The refinement maps a
call to the critical section that ends it; every other step is a stutter.

**Loops.** The loops over a map or an index range are folds in the models, and a fold is a
recursive function on finite sets. The induction theorems of the library take an operator as a
parameter, which the provers cannot instantiate; `FoldLoop` is a module whose *constants* are that
operator, the body of the loop. Its theorems (`LoopStep`: the recursion equation; `PickInduction`:
induction over the elements visited; `IntervalStep` and `CountingUp`: the same for 1..n) rest on
well-founded induction over the subsets of a finite set, and a proof module instantiates it with
the body it is about: `PullEntry`, the sum of packet counts, the filter of matching
rules, `Feed` of one packet after another, `mergeReportInto`, the records of a file, the options of a command line.

**TcpStreamReassemblerProofs** is what the two proofs below share about `addSegment` and
`pullContiguous`, for any modulus and initial sequence number. `AddEffect` tells a segment's effect
by offsets in the stream in place of sequence numbers. `LoopEndSound` is the invariant of the
loop in `pullContiguous`: the bytes taken run on from the cursor, and what is left is untouched
and in front of it. The second half is the contract of a reassembler that is given the pieces of one
stream (`HasPieces`): `AddPiece` and `PullMore` say that the bytes returned stay one unbroken run
(`Reassembling`), that no piece is forgotten, and that after a pull nothing is left that continues
that run (`Drained`), under two conditions: the pieces do not partly overlap, and no wrap of the
sequence numbers lies between two of them. `FirstFed` and `MoreFed` are the same for the engine's
way of calling: a segment, then a pull.

**TcpReassemblyProofs.** For any segments of a stream, in any order, with pulls at any time:
`ReassemblerTypes`, `BytesInOrder`, `CursorIsRight`, `PullIsComplete`, `NothingLost` and
`EarliestFirst`, from `StreamInvariance`. The invariant says of each entry of `pending_` which
piece of the stream it is, that none is behind the cursor, and that the cursor is where the
delivered bytes end. For `NoByteLost` it adds that every piece captured is either behind the
cursor or pending: a first missing byte that was captured would be in a pending piece that starts
at the cursor, and the loop, which visits the keys in the order of the stream when
they do not wrap, would have taken it.

**DpiEngineProofs.** For captures of any length, any packets, rules and cap: `EngineTypes`,
`BuffersStayCapped`, `RulesBeforePayload`, `DecisionsStand`, `CondemnedForGood`, `ReportIsRight`,
`NamesJudged`, `VerdictsTrue` and `RecordsDecided`, from `EngineInvariance` and three more invariants that are
inductive relative to it. The heart of the first is that the rules on addresses and ports
are a matter of the five-tuple, except that the port rule waits for a frame with a sound
transport header: so a flow whose reassembler or decision is not the initial one belongs to a
five-tuple those rules do not match, and no such rule can condemn it later. For the names, a
flow that was let pass has one no rule matches, so it will be let pass again. A packet ends in
one of four ways (`DecideOutcome`: `Skipped`, `Blocked`, `Passed`, `Observed`), each with its
effect on the report; the rest follows by these four cases.

- `CountsInv`, for `ReportAgrees`: a packet raises one term of the sum over the flows, or adds one
  (`SumCounts`; `SumSplits` shows that the order of the sum does not matter).
- `CauseInv`, for `NameIsJudged`: a flow is blocked for one of three causes, each of which still holds;
  `FirstMatch` shows, by induction over the list of rules, that `matchBlockedDomain` returns the
  first rule that matches. Where that is the empty one, nothing is claimed.
- `StreamInv`, for `VerdictIsTrue` and `NoRecordMissed`: a flow that no rule on its headers concerns follows the
  stream of its direction (`Follows`). While it is undecided its reassembler has been given exactly the pieces
  captured so far, and its buffer is their unbroken run from the byte captured first, on which the
  parser still says "incomplete"; once decided, a flow whose first byte was captured first has the
  verdict of the whole record. So the decision can depend on neither the cuts nor the order
  (`SegmentFollows`). If a complete record were waiting, some byte of it would be the first one not in the
  buffer; its piece would be pending, start at the cursor, and have been taken (`WaitsForSome`).

**ConcurrentDpiEngineProofs.** For any number of workers, capacity, packets and hash function:
`QueuesBounded`, `FlowsNeverSplit`, `NoPacketLeftBehind`, `PacketsInOrder`, `SameReport`,
`EveryShardIsAnEngine` and `EveryShardIsRight`. The invariant (`ShardInvariance`) adds to the first three what the threads
may rely on: queues are closed only when reading is over and nothing is in the reader's hands, no worker is left when
`processFile` returns (`ThreadsInStep`), and what a worker holds is routed to it
(`OwnPacketsOnly`), from which `FlowsStayWhole` follows because `processParsedPacket` adds no
flow but the packet's own. `PipeInv` says of each worker that the packets its engine has handled,
followed by the one in its hands, its queue and what the reader holds for it, are those routed to it
in the order of the file (`InOrder`); every step moves a packet from one of these places to the next.
`SameAsSequential` is then a matter of packets alone: `Agrees` relates the engines fed with the
parts of a capture to one engine fed with all of it (the flow table is spread over the workers, and
their merged reports say as much as its report, counter by counter and list element by list
element), by induction over the capture (`AgreesNext`). The new packet finds the same flow on both
sides and adds to the report what it would have put into an empty one (`ProcessAdds`), and
merging commutes with adding. `EveryShardIsAnEngine` is the refinement of `DpiEngine`: `ShardsImplementEngine`
maps an engine to itself and its capture to the packets it has handled, so that `ProcessItem` becomes
`Process`, `Start` begins anew and every other step is a stutter (`StepInOrder`). `DpiEngine` is an
instance there, with operators of its own, which are first shown to be those of the workers (`SameProcessing`).
`EveryShardIsRight` puts the two bodies of proof together: `DpiEngineProofs` is instantiated with the same
mapping (`Alone`), its assumptions follow from those of `ShardedEngine`, its one invariant (`EngineInv`)
holds of a new engine, is preserved by every packet (`AloneInvariant`) and so, by `EveryShardIsAnEngine`, by
every step of the threads, and it says all that `ShardIsRight` does (`ReportsAgree`, `StreamsAgree`).

**FlowDpiProofs.** For any files, frames and command lines, live captures of any length, any number of
signals: `ReportsWhole`, `OptionsTaken`, `ParserInside` and `ParserKeepsItsWord`, in four parts.

- The headers of a frame, with any lengths and values: `ParserStaysInBounds`, `NothingCarriedOver` and
  `HeadersAccepted` are theorems of `PacketParser` alone. Each layer's result is characterised once
  (`TransportSound`, `IpOutcome`, `TransportDecides`).
- The records of a file (`PlacesInv`, `ReplayInv`, together `RunInvariance`). `HasRead` says of an open reader that it has handed
  out exactly the first k frames, that each of them was readable, and that it stands where record
  k + 1 begins. `WordsAreMeant` is the byte order: once `open` has found the magic, a word read back
  is the word its writer meant, swapped or not. `OnePacketMore` and `NoPacketMore` are the two answers of
  `readNextPacket`; the second also makes k the largest number there is, for a later record
  could be readable only if all before it were. `ReportIsWhole` follows at the end of the file, in a
  live capture from the frames delivered, and with it that a failed or aborted run prints no report.
- The arguments (`OptionsInv`). In every state of the loop, `i` stands behind the first k options
  for some k, and rules and workers are what these k ask for (`LoopAt`). `OptionOnLine` says what is
  found at that place: a flag and all its values, so a value that looks like an option is never looked at
  as one, and one of the four branches takes them whole; `TailOnLine` that behind the last option none of them does.
  `AskedNext` adds one option to what was asked for, by cases on the flag and on whether its value can be read.
- The parser (`ParserInside`). `SessionSpec` implies the specification of `PacketParser`: the engine gives
  each frame to `parse` as that module's `Parse` does, and nothing else touches the caller's `ParsedPacket`.
  So the parser's theorems hold along every run of the program.

**ServerNameProofs.** For every hello that can be written, with any lists of extensions and of names and
any bytes in them, for any host names and any lists of rules: `SaysWhatWasMeantHolds`,
`AsTheEngineAssumesHolds` and `BlockedByLabelsHolds`.

- The parser. `Encoding` writes from the inside out and `tryExtractSni` walks from the outside in, so each
  layer gets one lemma that says: where these bytes begin at a position and are enclosed by that end, the walk
  finds this (`NamesRead`, `ListRead`, `ExtensionsRead`, `HelloRead`, `MessageRead`).
  They rest on two facts about one field. `NumberOfBytes`: a number that fits is read as it was written.
  `HeldIsRead`: a body that is held there, and ends in time, is what is found there. A false length reaches past what
  encloses it, whatever that is, and the walk is lost from there on (`BehindField`, `Reach`).
  The two lists are read by induction from the last entry to the first, the walk being a function on
  positions that is shown to exist (`WalkExists`, `NamesTailRead`, `ExtensionsTailRead`). `WholeRead` puts the layers together for a
  stream with its record complete, `PartRead` shows that every shorter prefix is Incomplete or, if its first
  byte says so, NotTls. `AnswerInv`, which ties the answer to the prefix that has arrived, is inductive by definition
  of `Arrive`, and `SaysWhatWasMeant` follows from it.
- The engine's view, from any offset. There the bytes need not be a hello, so nothing can be said of
  what the walk finds, only that it finds the same in any two strings of bytes that agree up to the end of the
  record (`SameUpTo`, `SameAnswer`): every layer gets one lemma that says so (`SameNumber`, `SameBehind`, ...,
  `SameHandshake`), the two loops by induction on what is left of the list (`SameHostName`, `SameExtensions`).
- The rules. A rule is a name's ending, so texts are compared from their last character (`Ends`, `SuffixIs`). Labels
  hold no dot: where two texts that end alike have their last dots, they have them in the same place, so
  their last labels are equal and what is before the dots ends alike again (`TailsAgree`). By induction over the
  labels of the rule, all labels with a dot in front of each (`Marks`) end alike exactly when the labels do (`MarksEnd`). `matchesRule`
  compares the rule with one dot in front against the name with none; that it can never match the whole of
  such a name is `TextStarts`: no name begins with a dot (`MatchesIs`). Over the list of rules, `FirstByLabels`
  is the induction of `FirstMatch`.

**Only model-checked.** Liveness (`Returns`, `EveryRunEnds` and those of `BoundedQueue`) and everything under fairness,
which is out of reach of the provers, as is ENABLED.

## 5. Where the code and its documentation disagree

- `DpiEngine_observed`: a name is appended to `observed_snis` for *every* packet after
  it was found (`src/dpi_engine.cpp:136`), although `include/dpi_engine.h:48` calls the list
  "allowed flows' SNIs, first-seen order". `NameIsJudged` shows that its set of names is right.
- `DpiEngine_emptyrule`: `matchBlockedDomain` returns the first rule that matches (`src/block_rules.cpp:39`) and
  the caller takes the empty string for "none" (`src/dpi_engine.cpp:138`). The empty rule, which
  `addBlockedDomain` accepts, matches every name that ends in a dot, and hides the rules behind it: with the rules
  `""` and `"good.org."` the name `good.org.` is let pass, although "a rule for "example.com" blocks that
  exact hostname" (`include/block_rules.h:14`) and an empty result is to say that it "isn't blocked by
  anything" (`include/block_rules.h:28`). `NameIsJudged` says nothing of a name that meets the
  empty rule first, and everything of the others.
- `TcpReassembly_wrap`: `pullContiguous` (`src/tcp_reassembler.cpp:45`) walks `pending_` by raw
  keys. A segment behind the wrap has a small key, comes first, looks like a gap and ends
  the loop; "any newly-available contiguous bytes" (`include/tcp_reassembler.h:30`) stay
  behind. `PullTakesAllUnwrapped` shows that this is the only such case.
- `DpiEngine_memory`: the cap of `src/dpi_engine.cpp:168` counts `sni_buffer`, not what waits behind
  a gap in the reassembler; `include/dpi_engine.h:93` speaks of not "growing unbounded".
- `PacketParser_padding`: the IPv4 total length is never read, so the padding of a frame below
  60 bytes is handed on as TCP payload (`src/packet_parser.cpp:103`), as bytes of the stream
  at the segment's sequence number.

- `FlowDpi_sigint`: `g_capture` is never reset and the handler never removed
  (`src/main.cpp:130`), and `LiveCapture::close` frees the handle before it clears `handle_`. A second
  Ctrl+C while the report is being printed and the capture destroyed calls `stop()` on what is no
  longer there, which `include/live_capture.h:33` calls "safe to call from a signal handler".
  `EveryRunEnds` takes such a call for harmless; it is undefined behaviour.

`VerdictIsTrue` carries the condition `FromFirstByte`: the engine pulls after every segment, so
the segment captured first *is* the start of the stream for it, and a handshake whose first two
segments changed places is judged from its middle, once and for all: `NotTls` unless the byte found there
is the one a handshake begins with, and otherwise by what would be the lengths behind it.
`include/tls_parser.h:19` asks the caller for "a *reassembled, contiguous* TCP stream starting at
the first byte of the connection".

`NoByteLost` and `NoRecordMissed` carry the condition `CutAlike`: a shorter retransmission from
the same sequence number replaces a longer pending one. `include/tcp_reassembler.h:19-24`
declares overlap policies out of scope, so this is not listed as a disagreement. `NoRecordMissed`
carries a third one, `Unwrapped`: the defect of `TcpReassembly_wrap` reaches the engine, where a handshake
whose later segments arrive early and lie behind a wrap stays undecided although all of it was captured.
The attempt to prove the property without the condition found this; the runs' initial sequence
number did not wrap.

## 6. What is not modelled, and why

- Rendering reports and percentiles (`renderReport`, `computeLatencyPercentiles`): formatting of values
  the models have, and an index truncated from a product of doubles into measured times. TLC has no floating
  point, and nothing depends on the result.
- The timing loops of the benchmark and the fuzz driver; the frame and the hello the benchmark
  builds are inputs of the runs (`buildTcpFrame`, `buildClientHelloRecord`).
- The conversions of argument texts to numbers (`sscanf`, `from_chars`, `stoul`): functions on a few texts,
  as the library defines them. What `stoul` throws on aborts the program in the model.
- Builds without libpcap: there `--live` is refused.
- Timestamps, versions and link type of a pcap file: nothing reads them.
- Moving a `RawPacket` through the queue (the parsed payload points into its
  buffer, which a vector's move keeps in place): memory ownership is below this model.
- IPv4 fragments: the code treats every packet as the first fragment and no document
  says otherwise.
- Exceptions (allocation, thread creation) end the program.

## 7. Plan

Done so far, in this order: the queue and its proofs; reassembly; the engine; the
concurrent engine and its proofs; the parser and its proofs; server names and rules from
their bytes; the program around it all, with the reader, the command line and live capture;
the proofs about the single engine's tables; loops (`FoldLoop`), and with them the proofs about
reassembly, about what the engine decides, about the order of packets and the merged report of the
threads, about the program's arguments and files, about the engines of the workers as instances
of `DpiEngine` and what holds of them for that reason, and about the parser of ClientHellos and the comparison of rules.

Next:

One specification of the engine over bytes: `PacketInspection` with `Streams` and `RuleMatches` replaced by
`ServerName`'s parser and rules, from `AsTheEngineAssumes`.
