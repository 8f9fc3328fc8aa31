------------------------------ MODULE FlowDpi ------------------------------
(***************************************************************************)
(* One run of the program (src/main.cpp): the command line, then a replay  *)
(* of a file or a live capture (src/live_capture.cpp) with SIGINT at any   *)
(* moment, and the report.                                                 *)
(*                                                                         *)
(* The engine is what it reports: how many IP packets it was given.  How   *)
(* it judges them is in DpiEngine.tla, and that several workers come to    *)
(* the same in ConcurrentDpiEngine.tla.  A signal handler runs between two *)
(* steps of main, from beginning to end.                                   *)
(***************************************************************************)
EXTENDS PacketParser, PcapReader, CommandLine

CONSTANTS
    Sessions,   \* what the program may be run on, see SessionInit
    MaxFrames,  \* bound on the frames of a live capture
    MaxSignals  \* bound on how often SIGINT is sent

\* What a file of a session says of itself fits into its fields.
FitsItsFields(file) ==
    /\ file.frames \in Seq(Frames)
    /\ file.snaplen \in Words
    /\ \A k \in DOMAIN file.frames : file.frames[k].len \in Words
    /\ file.length \in Nat

\* A target, options that have all their values, and whatever begins with no
\* such option; without a target, nothing.
IsCommandLine(target, options, tail) ==
    /\ {target, tail} \subseteq Seq(STRING)
    /\ \/ Len(target) = 1 /\ target[1] # "--live"
       \/ Len(target) = 2 /\ target[1] = "--live"
       \/ target \in {<<>>, <<"--live">>} /\ options = <<>> /\ tail = <<>>
    /\ options \in Seq([flag : STRING, values : Seq(STRING)])
    /\ \A k \in DOMAIN options : <<options[k].flag, Len(options[k].values)>> \in Known
    /\ tail # <<>> => \A o \in Known : o[1] = tail[1] => Len(tail) < 1 + o[2]

ASSUME SessionsAssumption ==
    /\ MaxFrames \in Nat /\ MaxSignals \in Nat
    /\ \A s \in Sessions :
          /\ IsCommandLine(s.target, s.options, s.tail)
          /\ FitsItsFields(s.file)
          /\ s.traffic \subseteq Frames

VARIABLES
    session,   \* history: what this run is about
    pc,        \* where main is
    reader,    \* the PcapReader
    taken,     \* history: the frames handed to the parser
    total,     \* report_.total_packets
    reported,  \* the report was printed
    live,      \* see NoCapture
    sigint     \* history, see NoSignal

\* Whether handleSigint is installed and g_capture points to main's LiveCapture;
\* its handle, "freed" after pcap_close and "gone" with the object; libpcap's
\* flag set by pcap_breakloop.
NoCapture == [handler |-> FALSE, g_capture |-> FALSE, handle_ |-> "null", broken |-> FALSE]

\* How often SIGINT was sent, whether handleSigint has run, and whether stop()
\* used a freed handle or a destroyed object.
NoSignal == [sent |-> 0, caught |-> FALSE, misused |-> FALSE]

replayVars == <<reader, frame, ok, out, touched, taken, total>>
sessionVars == <<argVars, exit, replayVars, session, pc, reported, live, sigint>>

\* The options as they are typed.
Typed(options) == FoldLeft(LAMBDA args, o : args \o <<o.flag>> \o o.values, <<>>, options)

\* A session: the target, the options the user means, as [flag, values], the
\* arguments behind them, the file there is and the frames the interface may
\* deliver.
SessionInit ==
    /\ Init
    /\ ArgInit
    /\ session \in Sessions
    /\ argv = session.target \o Typed(session.options) \o session.tail
    /\ pc = "arguments" /\ reported = FALSE
    /\ reader = Closed /\ taken = <<>> /\ total = 0
    /\ live = NoCapture /\ sigint = NoSignal

At(place) == exit = "none" /\ pc = place

\* main goes from one place to the next.
Goto(from, to) == At(from) /\ pc' = to /\ UNCHANGED <<argVars, exit, session, sigint>>

\* main returns, or the process ends otherwise.
Exit(from, how) ==
    /\ At(from) /\ exit' = how
    /\ UNCHANGED <<argVars, session, sigint, pc, reported, live>>

ParseArguments ==
    /\ At("arguments") /\ ArgStep
    /\ UNCHANGED <<replayVars, session, pc, reported, live, sigint>>

ArgumentsParsed ==
    /\ ArgsDone /\ Goto("arguments", IF Live THEN "openDevice" ELSE "openFile")
    /\ UNCHANGED <<replayVars, reported, live>>

-----------------------------------------------------------------------------
(* Replay of a file.                                                       *)

OpenFile ==
    /\ reader' = open(session.file)
    /\ IF reader'.is_open THEN Goto("openFile", "read") /\ UNCHANGED <<reported, live>>
                           ELSE Exit("openFile", "failed")
    /\ UNCHANGED <<frame, ok, out, touched, taken, total>>

\* The frame is parsed and given to the engine, which counts IP packets.
Handed(f) ==
    /\ Parse(f)
    /\ taken' = Append(taken, f)
    /\ total' = IF ok' /\ out'.has_ip THEN total + 1 ELSE total

\* One iteration of processFile.
ReadPacket ==
    /\ readNextPacket(reader, session.file)
    /\ Goto("read", "read")
    /\ reader' = Advanced(reader, session.file)
    /\ Handed(NextFrame(reader, session.file))
    /\ UNCHANGED <<reported, live>>

EndOfFile ==
    /\ ~readNextPacket(reader, session.file)
    /\ Goto("read", "report")
    /\ UNCHANGED <<replayVars, reported, live>>

-----------------------------------------------------------------------------
(* Live capture.                                                           *)

\* open: no such interface, no privilege, or not Ethernet.
OpenFails == Exit("openDevice", "failed") /\ UNCHANGED replayVars

\* main goes on, having changed this much of what SIGINT will find.
LiveStep(from, to, changed) ==
    /\ Goto(from, to)
    /\ live' = changed
    /\ UNCHANGED <<replayVars, reported>>

\* Mutant: the handler is installed before there is something it can stop.
OpenDevice_HandlerFirst ==
    LiveStep("openDevice", "publish", [live EXCEPT !.handle_ = "open", !.handler = TRUE])

OpenDevice == LiveStep("openDevice", "publish", [live EXCEPT !.handle_ = "open"])

\* g_capture = &capture
PublishCapture == LiveStep("publish", "install", [live EXCEPT !.g_capture = TRUE])

\* std::signal, then the banner, the engine and the call of loop.
InstallHandler == LiveStep("install", "loop", [live EXCEPT !.handler = TRUE])

\* pcap_loop looks at its flag, which is reset when the loop ends for it, and
\* waits for a frame.
LoopCheck == LiveStep("loop", IF live.broken THEN "report" ELSE "wait", [live EXCEPT !.broken = FALSE])

\* pcapTrampoline and the callback, once for a frame.
Receive ==
    /\ Len(taken) < MaxFrames
    /\ Goto("wait", "loop")
    /\ \E f \in session.traffic : Handed(f)
    /\ UNCHANGED <<reader, reported, live>>

\* Nothing arrived for a second.
ReadTimeout == LiveStep("wait", "loop", live)

\* pcap_loop returns an error, which loop ignores.
LoopFails == LiveStep("wait", "report", live)

-----------------------------------------------------------------------------
(* The end.                                                                *)

\* renderReport is printed; the block of a live capture ends.
Report ==
    /\ Goto("report", IF Live THEN "close" ELSE "return")
    /\ reported' = TRUE
    /\ UNCHANGED <<replayVars, live>>

\* The destructor of LiveCapture: pcap_close, then handle_ = nullptr, and the
\* object is gone.
CloseStep ==
    \/ LiveStep("close", "forget", [live EXCEPT !.handle_ = "freed"])
    \/ LiveStep("forget", "leave", [live EXCEPT !.handle_ = "null"])
    \/ LiveStep("leave", "return", [live EXCEPT !.handle_ = "gone"])

Return == Exit("return", "ok") /\ UNCHANGED replayVars

-----------------------------------------------------------------------------
(* SIGINT.                                                                 *)

\* stop() breaks the loop of the handle it finds.
Stopped == [live EXCEPT !.broken = @ \/ (live.g_capture /\ live.handle_ = "open")]

\* Without handleSigint the process dies of it; with it, stop() is called.
Sigint ==
    /\ exit = "none" /\ sigint.sent < MaxSignals
    /\ exit' = IF live.handler THEN "none" ELSE "killed"
    /\ live' = IF live.handler THEN Stopped ELSE live
    /\ sigint' = [sent |-> sigint.sent + 1, caught |-> sigint.caught \/ live.handler,
                  misused |-> sigint.misused \/ (live.g_capture /\ live.handle_ \in {"freed", "gone"})]
    /\ UNCHANGED <<argVars, replayVars, session, pc, reported>>

Finished == exit # "none" /\ UNCHANGED sessionVars

MainStep ==
    \/ ParseArguments \/ ArgumentsParsed
    \/ OpenFile \/ ReadPacket \/ EndOfFile
    \/ OpenFails \/ OpenDevice \/ PublishCapture \/ InstallHandler
    \/ LoopCheck \/ ReadTimeout
    \/ Report \/ CloseStep \/ Return

SessionNext == MainStep \/ Receive \/ LoopFails \/ Sigint \/ Finished

SessionSpec == SessionInit /\ [][SessionNext]_sessionVars

(***************************************************************************)
(* main goes on when it can, and waits in libpcap for no longer than the   *)
(* timeout it asked for.  Nothing obliges a frame to arrive, a device to   *)
(* fail, or anybody to press Ctrl+C.                                       *)
(***************************************************************************)
FairSessionSpec == SessionSpec /\ WF_sessionVars(MainStep)

-----------------------------------------------------------------------------
\* The values of one of these options, in the order they were given.
Values(options, flag) ==
    FoldLeft(LAMBDA given, o : IF o.flag = flag THEN Append(given, o.values) ELSE given, <<>>, options)

IpsAsked(options) ==
    {Addresses[v[1]] : v \in {w \in ToSet(Values(options, "--block-ip")) : w[1] \in DOMAIN Addresses}}

DomainsAsked(options) ==
    LET given == Values(options, "--block-domain") IN [k \in DOMAIN given |-> given[k][1]]

PortsAsked(options) ==
    {<<IF v[1] = "tcp" THEN "TCP" ELSE "UDP", Ports[v[2]]>> :
        v \in {w \in ToSet(Values(options, "--block-port")) :
                  w[1] \in {"tcp", "udp"} /\ w[2] \in DOMAIN Ports}}

WorkersAsked(options) ==
    LET counts == Values(options, "--workers")
    IN  IF counts = <<>> \/ Counts[counts[Len(counts)][1]] = 0 THEN 1
        ELSE Counts[counts[Len(counts)][1]]

AsAsked(options) ==
    /\ rules.blocked_ips = IpsAsked(options)
    /\ rules.blocked_domains = DomainsAsked(options)
    /\ rules.blocked_ports = PortsAsked(options)
    /\ num_workers = WorkersAsked(options)

(***************************************************************************)
(* What follows the arguments is run with the rules the user meant, each   *)
(* value taken once and for what it is a value of, whatever it looks like  *)
(* and whichever of the others are skipped as invalid; and only if the     *)
(* arguments make sense to the last.                                       *)
(***************************************************************************)
RulesAsAsked ==
    /\ pc # "arguments" => session.tail = <<>> /\ AsAsked(session.options)
    /\ pc = "arguments" /\ exit = "failed" => session.tail # <<>> \/ argv \in {<<>>, <<"--live">>}

\* The bytes of a file with these records.
Size(frames) == FoldLeft(LAMBDA n, f : n + PACKET_HEADER_LEN + f.len, GLOBAL_HEADER_LEN, frames)

\* The k-th record of the file can be read, and so can those before it.
Readable(file, k) ==
    /\ \A j \in 1..k : file.snaplen # 0 => file.frames[j].len <= file.snaplen
    /\ Size(SubSeq(file.frames, 1, k)) <= file.length

\* An IPv4 header of this frame is complete and sound.
IsIp(f) == f.ipv4 /\ f.version = 4 /\ f.ihl >= 5 /\ ETH_HEADER_LEN + 4 * f.ihl <= f.len

(***************************************************************************)
(* The report is printed once for a run that ends well and never else, and *)
(* counts exactly the IP packets among the frames taken: of a file, in     *)
(* either byte order, every record up to the first that is cut short or    *)
(* longer than the file allows, and of a live capture, every frame that    *)
(* arrived before the loop was left, Ctrl+C or not.                        *)
(***************************************************************************)
ReportIsWhole ==
    /\ exit = "ok" => reported
    /\ exit \in {"failed", "aborted"} => ~reported
    /\ reported =>
          /\ total = Cardinality({k \in DOMAIN taken : IsIp(taken[k])})
          /\ ~Live => LET whole == {k \in 0..Len(session.file.frames) : Readable(session.file, k)}
                      IN  taken = SubSeq(session.file.frames, 1, CHOOSE k \in whole : \A j \in whole : j <= k)

(***************************************************************************)
(* A run on a file ends, whatever is in the file.  "Ctrl+C to stop and     *)
(* print the report" (main.cpp:132): once the handler has run, in the loop *)
(* or before it, a live run ends, too, however quiet the link; and it has  *)
(* printed the report, since no other exit is left to it.                  *)
(***************************************************************************)
EveryRunEnds ==
    /\ pc = "openFile" ~> exit # "none"
    /\ sigint.caught ~> exit = "ok"

-----------------------------------------------------------------------------
\* "Safe to call from a signal handler or another thread" (live_capture.h:33):
\* stop() never touches a handle that was freed or an object that is gone.
StopIsSafe == ~sigint.misused
=============================================================================
