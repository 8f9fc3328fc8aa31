-------------------------- MODULE PacketInspection --------------------------
(***************************************************************************)
(* What DpiEngine does with one parsed packet (src/dpi_engine.cpp): the    *)
(* flow table, the rules, the search for the server name and the report,   *)
(* as operators on the value of an engine.  DpiEngine.tla runs one engine; *)
(* ConcurrentDpiEngine.tla runs one per worker.                            *)
(*                                                                         *)
(* A packet is what PacketParser makes of a frame:                         *)
(*   has_ip, has_l4    whether these headers were parsed                   *)
(*   tuple             its five-tuple                                      *)
(*   seq, data         its TCP sequence number and payload; the payload is *)
(*                     a sequence of stream offsets, the first byte the    *)
(*                     connection carries in this direction having offset 0 *)
(* What those bytes are is in Streams: the offsets that hold the byte 0x16, *)
(* the type of a TLS handshake, and what a parser that starts there sees:  *)
(*   record_end        how many bytes the TLS record takes                 *)
(*   verdict, sni      what it says once it is complete                    *)
(***************************************************************************)
EXTENDS BlockRules, TcpStreamReassembler

CONSTANTS
    Tuples,               \* the five-tuples that occur
    Streams,              \* Streams[t][from]: the bytes of direction t from there on
    Rules,                \* rules_
    RECORD_HEADER_LEN,    \* bytes of a TLS record header, 5 in the code
    MAX_REASSEMBLY_BYTES  \* 65536 in the code

ASSUME InspectionAssumption ==
    /\ RECORD_HEADER_LEN \in Nat \ {0}
    /\ MAX_REASSEMBLY_BYTES \in Nat
    /\ RECORD_HEADER_LEN <= MAX_REASSEMBLY_BYTES
    /\ Rules.blocked_domains \in Seq(ToSet(Rules.blocked_domains))

-----------------------------------------------------------------------------
(* The rules a packet's headers meet.                                      *)

IpMatches(p) == isBlockedIp(Rules, p.tuple.dst_ip) \/ isBlockedIp(Rules, p.tuple.src_ip)

PortMatches(p) ==
    /\ p.has_l4
    /\ \/ isBlockedPort(Rules, p.tuple.protocol, p.tuple.dst_port)
       \/ isBlockedPort(Rules, p.tuple.protocol, p.tuple.src_port)

-----------------------------------------------------------------------------
(* The search for the server name.                                         *)

\* tryExtractSni on a buffer of t's bytes, wherever in the stream it starts.
tryExtractSni(t, buffer) ==
    IF Len(buffer) < RECORD_HEADER_LEN THEN "Incomplete"
    ELSE IF buffer[1] \notin DOMAIN Streams[t] THEN "NotTls"
    ELSE IF Len(buffer) < Streams[t][buffer[1]].record_end THEN "Incomplete"
    ELSE Streams[t][buffer[1]].verdict

\* A block_reason stands for its text: which kind of rule, and which domain.
Reason(kind, rule) == [kind |-> kind, rule |-> rule]
IpRule == Reason("ip", NoName)
PortRule == Reason("port", NoName)

\* FlowState of a flow that was just inserted.  byte_count is left out: it is
\* only ever added to.
FreshFlow ==
    [reassembler |-> NewReassembler,
     sni_buffer |-> <<>>,
     sni_status |-> "Pending",
     sni |-> NoName,
     blocked |-> FALSE,
     block_reason |-> Reason("none", NoName),
     packet_count |-> 0]

\* Mutant: every chunk is tried on its own, nothing is accumulated.
Fed_ChunkOnly(flow, pulled) ==
    [flow EXCEPT !.reassembler = pulled.reassembler, !.sni_buffer = pulled.bytes]

\* The flow with what was pulled in its buffer.
Fed(flow, pulled) ==
    [flow EXCEPT !.reassembler = pulled.reassembler, !.sni_buffer = @ \o pulled.bytes]

Decided(flow, status) == [flow EXCEPT !.sni_status = status, !.sni_buffer = <<>>]

\* What becomes of the flow when the parser has answered: wait for more, give
\* up on a buffer that has outgrown the cap, or keep the decision.
AnsweredUnder(cap, t, flow, status) ==
    CASE status = "Incomplete" ->
            IF Len(flow.sni_buffer) <= cap THEN flow ELSE Decided(flow, "GaveUp")
      [] status = "Found" ->
            [Decided(flow, status) EXCEPT !.sni = Streams[t][flow.sni_buffer[1]].sni]
      [] OTHER -> Decided(flow, status)

\* Mutant: one more byte is buffered before the engine gives up.
Answered_OneMore(t, flow, status) == AnsweredUnder(MAX_REASSEMBLY_BYTES + 1, t, flow, status)

Answered(t, flow, status) == AnsweredUnder(MAX_REASSEMBLY_BYTES, t, flow, status)

\* The buffer is tried, unless it is still empty.
Tried(t, flow) ==
    IF flow.sni_buffer = <<>> THEN flow
    ELSE Answered(t, flow, tryExtractSni(t, flow.sni_buffer))

tryResolveSni(t, flow) == Tried(t, Fed(flow, pullContiguous(flow.reassembler)))

\* Mutant: a flow is inspected again after its decision.
Inspects_Again(flow, p) == p.tuple.protocol = "TCP" /\ p.has_l4

\* Whether a packet that no rule condemned is looked into.
Inspects(flow, p) == p.tuple.protocol = "TCP" /\ p.has_l4 /\ flow.sni_status = "Pending"

\* The flow once that has happened.
Inspected(flow, p) ==
    IF Inspects(flow, p)
    THEN tryResolveSni(p.tuple, [flow EXCEPT !.reassembler = addSegment(@, p.seq, p.data)])
    ELSE flow

-----------------------------------------------------------------------------
(* The report and the engine.                                              *)

\* EngineReport.  An entry stands for its texts: whose it is and the reason;
\* packet_latencies_ns for how many samples it has.
EmptyReport ==
    [total_packets |-> 0, total_flows |-> 0, blocked_flows |-> 0, blocked_packets |-> 0,
     blocked_entries |-> <<>>, observed_snis |-> <<>>, packet_latencies_ns |-> 0]

NewEngine == [flows |-> <<>>, report |-> EmptyReport]

\* The flow is condemned; its packet counts so often as blocked and as timed.
Condemned(flow, report, p, reason, packets, samples) ==
    [flow |-> [flow EXCEPT !.blocked = TRUE, !.block_reason = reason],
     report |-> [report EXCEPT !.blocked_flows = @ + 1,
                               !.blocked_packets = @ + packets,
                               !.blocked_entries = Append(@, <<p.tuple, reason>>),
                               !.packet_latencies_ns = @ + samples]]

\* Mutants: the packet is counted twice; the early return leaves it untimed.
Condemn_CountsTwice(flow, report, p, reason) == Condemned(flow, report, p, reason, 2, 1)
Condemn_Untimed(flow, report, p, reason) == Condemned(flow, report, p, reason, 1, 0)

\* The packet condemns its flow.
Condemn(flow, report, p, reason) == Condemned(flow, report, p, reason, 1, 1)

\* The packet passes without being counted as blocked.
Pass(flow, report) ==
    [flow |-> flow, report |-> [report EXCEPT !.packet_latencies_ns = @ + 1]]

\* The end of processParsedPacket: the name, once found, is judged.
Judge(flow, report, p) ==
    LET rule == matchBlockedDomain(Rules, flow.sni)
    IN  IF flow.sni_status # "Found" THEN Pass(flow, report)
        ELSE IF rule # NoName THEN Condemn(flow, report, p, Reason("domain", rule))
        ELSE Pass(flow, [report EXCEPT !.observed_snis = Append(@, flow.sni)])

\* Mutant: the payload is looked at before the rules on addresses and ports.
Decide_InspectFirst(flow, report, p) ==
    IF flow.blocked THEN Pass(flow, [report EXCEPT !.blocked_packets = @ + 1])
    ELSE IF IpMatches(p) THEN Condemn(Inspected(flow, p), report, p, IpRule)
    ELSE IF PortMatches(p) THEN Condemn(Inspected(flow, p), report, p, PortRule)
    ELSE Judge(Inspected(flow, p), report, p)

\* Mutant: a condemned flow is judged like any other.
Decide_Rejudge(flow, report, p) ==
    IF IpMatches(p) THEN Condemn(flow, report, p, IpRule)
    ELSE IF PortMatches(p) THEN Condemn(flow, report, p, PortRule)
    ELSE Judge(Inspected(flow, p), report, p)

\* What becomes of flow and report, which have already counted the packet.
Decide(flow, report, p) ==
    IF flow.blocked THEN Pass(flow, [report EXCEPT !.blocked_packets = @ + 1])
    ELSE IF IpMatches(p) THEN Condemn(flow, report, p, IpRule)
    ELSE IF PortMatches(p) THEN Condemn(flow, report, p, PortRule)
    ELSE Judge(Inspected(flow, p), report, p)

\* The flow table with t's entry replaced or inserted, and the report.
Stored(engine, t, done) ==
    [flows |-> [u \in DOMAIN engine.flows \cup {t} |->
                   IF u = t THEN done.flow ELSE engine.flows[u]],
     report |-> done.report]

\* processParsedPacket
processParsedPacket(engine, p) ==
    LET known == p.tuple \in DOMAIN engine.flows
        flow == IF known THEN engine.flows[p.tuple] ELSE FreshFlow
        report == [engine.report EXCEPT !.total_packets = @ + 1,
                                        !.total_flows = IF known THEN @ ELSE @ + 1]
    IN  IF ~p.has_ip THEN engine
        ELSE Stored(engine, p.tuple, Decide([flow EXCEPT !.packet_count = @ + 1], report, p))

-----------------------------------------------------------------------------
(* The sender's side.                                                      *)

\* What direction t carries is one stream that starts at isn: each of its segments
\* among packets is a piece of it, at the sequence number its sender gave it, and
\* the stream ends before it has used up half of the sequence numbers.
StreamFrom(isn, t, packets) ==
    \A p \in packets :
        p.tuple = t /\ p.has_ip /\ p.has_l4 =>
            \E lo, hi \in 0..(Half - 1) :
                /\ lo <= hi
                /\ p.seq = (isn + lo) % SeqModulus
                /\ p.data = Bytes(lo, hi)
=============================================================================
