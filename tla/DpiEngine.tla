----------------------------- MODULE DpiEngine -----------------------------
(***************************************************************************)
(* The single-threaded engine (src/dpi_engine.cpp) fed one packet after    *)
(* another from any capture: flows interleaved, segments lost, repeated    *)
(* and reordered, frames whose transport header is broken in between.      *)
(***************************************************************************)
EXTENDS PacketInspection

CONSTANTS
    Packets,     \* the packets a capture may contain
    MaxPackets   \* bound on the length of a capture

ASSUME CaptureAssumption ==
    /\ MaxPackets \in Nat
    /\ \A p \in Packets : p.tuple \in Tuples
    /\ \A t \in Tuples : \A from \in DOMAIN Streams[t] :
          /\ Streams[t][from].verdict \in {"Found", "NoSni", "NotTls", "Malformed"}
          /\ Streams[t][from].record_end \in Nat

\* What a TCP direction carries is one stream.
ASSUME StreamsAssumption ==
    \A t \in Tuples : t.protocol = "TCP" => \E isn \in SeqNumbers : StreamFrom(isn, t, Packets)

VARIABLES
    engine,  \* flows_ and report_
    seen     \* history: the packets processed, in capture order

vars == <<engine, seen>>

flows == engine.flows
report == engine.report

Init ==
    /\ engine = NewEngine
    /\ seen = <<>>

\* processPacket on a frame that parses.
Process(p) ==
    /\ Len(seen) < MaxPackets
    /\ engine' = processParsedPacket(engine, p)
    /\ seen' = Append(seen, p)

Next == \E p \in Packets : Process(p)

Spec == Init /\ [][Next]_vars

-----------------------------------------------------------------------------
Statuses == {"Pending", "Found", "NoSni", "NotTls", "Malformed", "GaveUp"}
ReasonKinds == {"none", "ip", "port", "domain"}

\* The names that may be found in direction t.
NamesIn(t) == {Streams[t][from].sni : from \in DOMAIN Streams[t]}

\* The variables have their types.
TypeOK ==
    /\ DOMAIN flows \subseteq Tuples
    /\ \A t \in DOMAIN flows :
          /\ flows[t].sni_status \in Statuses
          /\ flows[t].sni \in NamesIn(t) \cup {NoName}
          /\ flows[t].blocked \in BOOLEAN
          /\ flows[t].block_reason.kind \in ReasonKinds
          /\ flows[t].packet_count \in 1..MaxPackets
    /\ report.total_packets \in 0..MaxPackets
    /\ report.blocked_packets \in 0..MaxPackets
    /\ seen \in Seq(Packets)

BlockedFlows == {t \in DOMAIN flows : flows[t].blocked}

\* The flows and the entries of the report are those of the flow table.
FlowCountsAgree ==
    /\ report.packet_latencies_ns = report.total_packets
    /\ report.total_flows = Cardinality(DOMAIN flows)
    /\ report.blocked_flows = Cardinality(BlockedFlows)
    /\ Len(report.blocked_entries) = report.blocked_flows
    /\ ToSet(report.blocked_entries) = {<<t, flows[t].block_reason>> : t \in BlockedFlows}

\* The report agrees with the flow table whatever path each packet took: a
\* packet is counted, timed and given to one flow exactly once, and there is
\* one entry, with the right reason, for each blocked flow.
ReportAgrees ==
    /\ report.total_packets = FoldSet(LAMBDA t, n : n + flows[t].packet_count, 0, DOMAIN flows)
    /\ report.total_packets = Cardinality({i \in DOMAIN seen : seen[i].has_ip})
    /\ FlowCountsAgree

\* A condemned flow stays condemned, for the reason that was reported, and its
\* packets are counted but never looked into again; a packet counts as blocked
\* exactly when its flow is blocked after it.
BlockingIsFinal ==
    [][/\ \A t \in BlockedFlows :
             flows'[t] = [flows[t] EXCEPT !.packet_count = flows'[t].packet_count]
       /\ seen' # seen =>
             LET p == seen'[Len(seen')]
             IN  report'.blocked_packets - report.blocked_packets =
                    IF p.has_ip /\ flows'[p.tuple].blocked THEN 1 ELSE 0]_vars

\* A decision about the server name is reached once, is never revised, and
\* releases the buffer; before it the buffer stays within its cap.
DecisionIsFinal ==
    [][\A t \in DOMAIN flows :
          /\ flows[t].sni_status # "Pending" =>
                /\ flows'[t].sni_status = flows[t].sni_status
                /\ flows'[t].sni = flows[t].sni
                /\ flows'[t].reassembler = flows[t].reassembler
          /\ flows'[t].sni_status # "Pending" => flows'[t].sni_buffer = <<>>]_vars

BufferCapped == \A t \in DOMAIN flows : Len(flows[t].sni_buffer) <= MAX_REASSEMBLY_BYTES

\* A packet of direction t that carries stream bytes.
CarriesData(p, t) == p.has_ip /\ p.has_l4 /\ p.tuple = t /\ p.data # <<>>

\* Where these packets are in the capture.
DataOf(t) == {i \in DOMAIN seen : CarriesData(seen[i], t)}

\* The capture has the first byte of direction t before any other byte of it.
FromFirstByte(t) ==
    DataOf(t) # {} => \E i \in DataOf(t) : seen[i].data[1] = 0 /\ \A j \in DataOf(t) : i <= j

\* Every byte of direction t in the capture.
Captured(t) == UNION {ToSet(seen[i].data) : i \in DataOf(t)}

\* What tryExtractSni says of direction t from its first byte on, and how many
\* bytes it takes to say so.
Truth(t) == IF 0 \in DOMAIN Streams[t] THEN Streams[t][0].verdict ELSE "NotTls"
RecordEnd(t) == IF 0 \in DOMAIN Streams[t] THEN Streams[t][0].record_end ELSE RECORD_HEADER_LEN

(***************************************************************************)
(* However the stream is cut, repeated and reordered after its first byte, *)
(* the decision is the one the whole record deserves.  The engine gives up *)
(* only on a record that cannot fit under the cap.                         *)
(***************************************************************************)
VerdictIsTrue ==
    \A t \in DOMAIN flows : FromFirstByte(t) =>
        /\ flows[t].sni_status \in {"Pending", "GaveUp", Truth(t)}
        /\ flows[t].sni_status = "Found" => flows[t].sni = Streams[t][0].sni
        /\ flows[t].sni_status = "GaveUp" => RecordEnd(t) > MAX_REASSEMBLY_BYTES + 1

\* Two segments of direction t carry the same bytes or have none in common: a
\* retransmission is cut where the original was.
CutAlike(t) ==
    \A i, j \in DataOf(t) :
        seen[i] = seen[j] \/ ToSet(seen[i].data) \cap ToSet(seen[j].data) = {}

\* The sequence numbers of direction t do not wrap around between two segments
\* captured: what comes later in the stream has the larger one.
Unwrapped(t) ==
    \A i, j \in DataOf(t) : seen[i].data[1] < seen[j].data[1] => seen[i].seq < seen[j].seq

\* Once every byte of a record has been captured, the flow is decided if its
\* retransmissions are cut like the originals: no order of arrival leaves it
\* waiting for ever.
NoRecordMissed ==
    \A t \in DOMAIN flows :
        (/\ FromFirstByte(t)
         /\ CutAlike(t)
         /\ Unwrapped(t)
         /\ t.protocol = "TCP"
         /\ flows[t].block_reason \notin {IpRule, PortRule}
         /\ RecordEnd(t) >= RECORD_HEADER_LEN
         /\ 0..(RecordEnd(t) - 1) \subseteq Captured(t))
        => flows[t].sni_status # "Pending"

\* An address or port rule condemns a flow before a byte of its payload is
\* looked at, even when frames with a broken transport header came first.
RulesComeFirst ==
    \A t \in BlockedFlows :
        flows[t].block_reason \in {IpRule, PortRule} => flows[t].reassembler = NewReassembler

\* The domain rules a name matches, as positions in blocked_domains_.
Hits(name) ==
    {i \in DOMAIN Rules.blocked_domains : RuleMatches(name, Rules.blocked_domains[i])}

\* The names reported as observed are those of the flows that were let pass.
ObservedNamesAgree ==
    ToSet(report.observed_snis) =
        {flows[t].sni : t \in {u \in DOMAIN flows : flows[u].sni_status = "Found" /\ ~flows[u].blocked}}

\* The rule that decides about a name: the first one it matches.
FirstHit(name) == Rules.blocked_domains[Min(Hits(name))]

\* A flow whose name was found is let pass if no domain rule matches the name,
\* and blocked by the first rule that does; a name that meets the empty rule
\* first is left to EveryRuleBlocks.  The names reported as observed are those of
\* the flows that were let pass, all of them and no other.
NameIsJudged ==
    /\ \A t \in DOMAIN flows : flows[t].sni_status = "Found" =>
          LET hits == Hits(flows[t].sni)
              rule == FirstHit(flows[t].sni)
          IN  /\ hits = {} => ~flows[t].blocked
              /\ hits # {} /\ rule # NoName =>
                    flows[t].blocked /\ flows[t].block_reason = Reason("domain", rule)
    /\ ObservedNamesAgree

-----------------------------------------------------------------------------
\* "Allowed flows' SNIs, first-seen order" (dpi_engine.h:48): one per flow.
ObservedOncePerFlow ==
    Len(report.observed_snis) =
        Cardinality({t \in DOMAIN flows : flows[t].sni_status = "Found" /\ ~flows[t].blocked})

\* "A rule for "example.com" blocks that exact hostname *and* any subdomain of
\* it" (block_rules.h:14), whatever rules were added before it: a flow whose name
\* was found is blocked if any rule but the empty one matches the name.
EveryRuleBlocks ==
    \A t \in DOMAIN flows :
        /\ flows[t].sni_status = "Found"
        /\ \E i \in Hits(flows[t].sni) : Rules.blocked_domains[i] # NoName
        => flows[t].blocked

\* "stop buffering rather than growing unbounded" (dpi_engine.h:93): a flow
\* never holds more than the cap and one more chunk of at most that size,
\* pending segments included.
FlowMemoryCapped ==
    \A t \in DOMAIN flows :
        Len(flows[t].sni_buffer) + pendingBytes(flows[t].reassembler) <= 2 * MAX_REASSEMBLY_BYTES
=============================================================================
