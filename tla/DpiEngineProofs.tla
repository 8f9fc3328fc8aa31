-------------------------- MODULE DpiEngineProofs --------------------------
(***************************************************************************)
(* Proofs about DpiEngine, for captures of any length, any packets,        *)
(* streams, rules and caps.  Up to the section on streams they hold for    *)
(* whatever the reassembler delivers; that section rests on the lemmas of  *)
(* TcpStreamReassemblerProofs about what it does.                          *)
(***************************************************************************)
EXTENDS DpiEngine, TcpStreamReassemblerProofs

\* The bodies of two loops: the sum of the flows' packets (ReportAgrees) and the
\* domain rules a name matches (MatchingRules).
Adding(table, t, n) == n + table[t].packet_count
AnyOf(S) == CHOOSE x \in S : TRUE
Sums == INSTANCE FoldLoop WITH Step <- Adding, Pick <- AnyOf

Matching(env, i, hits) ==
    IF RuleMatches(env.name, env.rules[i]) THEN Append(hits, env.rules[i]) ELSE hits
Matches == INSTANCE FoldLoop WITH Step <- Matching, Pick <- Max

-----------------------------------------------------------------------------
(* The inductive invariant.                                                *)

\* The rules on addresses and ports speak of the five-tuple only.
IpMatchesTuple(t) == isBlockedIp(Rules, t.dst_ip) \/ isBlockedIp(Rules, t.src_ip)
PortMatchesTuple(t) ==
    \/ isBlockedPort(Rules, t.protocol, t.dst_port)
    \/ isBlockedPort(Rules, t.protocol, t.src_port)

\* A flow has the fields of FlowState, a report those of EngineReport.
IsFlow(f) ==
    /\ DOMAIN f = {"reassembler", "sni_buffer", "sni_status", "sni", "blocked", "block_reason",
                   "packet_count"}
    /\ f = [field \in DOMAIN f |-> f[field]]

IsReport(r) ==
    DOMAIN r = {"total_packets", "total_flows", "blocked_flows", "blocked_packets",
                "blocked_entries", "observed_snis", "packet_latencies_ns"}

\* What holds of a flow of t while a packet is being looked into.
Inspectable(t, f) ==
    /\ IsFlow(f)
    /\ f.blocked \in BOOLEAN
    /\ f.sni_status \in Statuses
    /\ f.sni \in NamesIn(t) \cup {NoName}
    /\ f.block_reason.kind \in ReasonKinds
    /\ Len(f.sni_buffer) <= MAX_REASSEMBLY_BYTES
    /\ f.sni_status # "Pending" => f.sni_buffer = <<>>
    /\ \/ f.reassembler = NewReassembler /\ f.sni_status = "Pending"
       \/ ~IpMatchesTuple(t) /\ ~PortMatchesTuple(t)
    /\ f.blocked /\ f.block_reason \in {IpRule, PortRule} => f.reassembler = NewReassembler

\* And between packets: a flow that was let pass has a name no rule matches.
FlowInv(t, f) ==
    /\ Inspectable(t, f)
    /\ f.sni_status = "Found" /\ ~f.blocked => matchBlockedDomain(Rules, f.sni) = NoName

IsSequence(s) == s \in Seq(ToSet(s))

FlowsInv ==
    /\ IsFiniteSet(DOMAIN flows)
    /\ DOMAIN flows \subseteq Tuples
    /\ \A t \in DOMAIN flows : FlowInv(t, flows[t]) /\ flows[t].packet_count \in 1..Len(seen)

ReportInv ==
    /\ IsReport(report)
    /\ report.total_packets \in 0..Len(seen)
    /\ report.blocked_packets \in 0..Len(seen)
    /\ IsSequence(report.blocked_entries)
    /\ IsSequence(report.observed_snis)
    /\ FlowCountsAgree
    /\ ObservedNamesAgree

IndInv ==
    /\ engine = [flows |-> flows, report |-> report]
    /\ seen \in Seq(Packets)
    /\ Len(seen) <= MaxPackets
    /\ FlowsInv
    /\ ReportInv

-----------------------------------------------------------------------------
(* What is done to a flow.                                                 *)

\* Appending adds one element and one to the length.
LEMMA AppendToSet ==
    ASSUME NEW s, IsSequence(s), NEW e
    PROVE  /\ IsSequence(Append(s, e))
           /\ ToSet(Append(s, e)) = ToSet(s) \cup {e}
           /\ Len(Append(s, e)) = Len(s) + 1
<1>. DEFINE S == ToSet(s) \cup {e}
<1>1. s \in Seq(S) /\ e \in S
  <2>1. ToSet(s) \subseteq S
    OBVIOUS
  <2>. QED
    BY <2>1, SeqMonotonic DEF IsSequence
<1>2. /\ Append(s, e) \in Seq(S)
      /\ Len(Append(s, e)) = Len(s) + 1
      /\ Append(s, e)[Len(s) + 1] = e
      /\ \A i \in 1..Len(s) : Append(s, e)[i] = s[i]
  <2>. HIDE DEF S
  <2>. QED
    BY <1>1, AppendProperties
<1>3. DOMAIN s = 1..Len(s) /\ DOMAIN Append(s, e) = 1..(Len(s) + 1) /\ Len(s) \in Nat
  BY <1>1, <1>2, LenProperties
<1>4. ToSet(Append(s, e)) = ToSet(s) \cup {e}
  BY <1>2, <1>3 DEF ToSet
<1>. QED
  BY <1>2, <1>4 DEF IsSequence

\* A new flow.
LEMMA FreshSound == \A t : FlowInv(t, FreshFlow)
  BY InspectionAssumption
  DEF FlowInv, Inspectable, IsFlow, FreshFlow, Statuses, ReasonKinds, Reason, IpRule, PortRule

\* The parser's answers.
LEMMA Answers ==
    ASSUME NEW t \in Tuples, NEW buffer
    PROVE  /\ tryExtractSni(t, buffer) \in {"Incomplete", "Found", "NoSni", "NotTls", "Malformed"}
           /\ tryExtractSni(t, buffer) = "Found" => buffer[1] \in DOMAIN Streams[t]
  BY CaptureAssumption DEF tryExtractSni

\* What the parser's answer does to an undecided flow without rules on its
\* address or port.
LEMMA ResolveSound ==
    ASSUME NEW t \in Tuples, NEW f, Inspectable(t, f), f.sni_status = "Pending",
           ~IpMatchesTuple(t), ~PortMatchesTuple(t), ~f.blocked,
           NEW r
    PROVE  LET g == tryResolveSni(t, [f EXCEPT !.reassembler = r])
           IN  /\ Inspectable(t, g)
               /\ g.blocked = f.blocked
               /\ g.block_reason = f.block_reason
               /\ g.packet_count = f.packet_count
<1>. DEFINE h == [f EXCEPT !.reassembler = r]
            pulled == pullContiguous(h.reassembler)
            fed == Fed(h, pulled)
            answer == tryExtractSni(t, fed.sni_buffer)
<1>1. /\ IsFlow(fed)
      /\ fed.sni_status = "Pending" /\ fed.sni = f.sni /\ fed.blocked = f.blocked
      /\ fed.block_reason = f.block_reason /\ fed.packet_count = f.packet_count
  <2>. HIDE DEF pulled
  <2>. QED
    BY DEF Inspectable, IsFlow, Fed
<1>2. /\ answer \in {"Incomplete", "Found", "NoSni", "NotTls", "Malformed"}
      /\ answer = "Found" => Streams[t][fed.sni_buffer[1]].sni \in NamesIn(t)
  <2>. HIDE DEF fed
  <2>. QED
    BY Answers DEF NamesIn
<1>3. tryResolveSni(t, h) = IF fed.sni_buffer = <<>> THEN fed ELSE Answered(t, fed, answer)
  BY DEF tryResolveSni, Tried
<1>. HIDE DEF fed, answer
<1>4. ASSUME NEW g,
             \/ g = fed /\ Len(fed.sni_buffer) <= MAX_REASSEMBLY_BYTES
             \/ g = Decided(fed, "GaveUp")
             \/ \E name \in NamesIn(t) : g = [Decided(fed, "Found") EXCEPT !.sni = name]
             \/ \E s \in {"NoSni", "NotTls", "Malformed"} : g = Decided(fed, s)
      PROVE  /\ Inspectable(t, g) /\ g.blocked = f.blocked
             /\ g.block_reason = f.block_reason /\ g.packet_count = f.packet_count
  <2>1. /\ IsFlow(g)
        /\ g.blocked = f.blocked /\ g.block_reason = f.block_reason
        /\ g.packet_count = f.packet_count
        /\ g.sni_status \in Statuses
        /\ g.sni \in NamesIn(t) \cup {NoName}
    <3>1. \A status, name : /\ IsFlow(Decided(fed, status))
                            /\ IsFlow([Decided(fed, status) EXCEPT !.sni = name])
      BY <1>1 DEF IsFlow, Decided
    <3>2. IsFlow(g)
      <4>1. CASE g = fed
        BY <1>1, <4>1
      <4>2. CASE \E name \in NamesIn(t) : g = [Decided(fed, "Found") EXCEPT !.sni = name]
        BY <3>1, <4>2
      <4>3. CASE \E s \in {"GaveUp", "NoSni", "NotTls", "Malformed"} : g = Decided(fed, s)
        BY <3>1, <4>3
      <4>. QED
        BY <1>4, <4>1, <4>2, <4>3
    <3>3. /\ g.blocked = f.blocked /\ g.block_reason = f.block_reason
          /\ g.packet_count = f.packet_count
          /\ g.sni_status \in Statuses
          /\ g.sni \in NamesIn(t) \cup {NoName}
      BY <1>1, <1>4 DEF Inspectable, IsFlow, Decided, Statuses
    <3>. QED
      BY <3>2, <3>3
  <2>2. g.sni_buffer = <<>> \/ (g = fed /\ Len(fed.sni_buffer) <= MAX_REASSEMBLY_BYTES)
    BY <1>1, <1>4 DEF IsFlow, Decided
  <2>3. Len(g.sni_buffer) <= MAX_REASSEMBLY_BYTES /\ (g.sni_status # "Pending" => g.sni_buffer = <<>>)
    BY <1>1, <2>2, InspectionAssumption
  <2>. QED
    BY <2>1, <2>3 DEF Inspectable
<1>5. CASE fed.sni_buffer = <<>>
  <2>1. Len(fed.sni_buffer) <= MAX_REASSEMBLY_BYTES
    BY <1>5, InspectionAssumption
  <2>. QED
    BY <1>3, <1>4, <1>5, <2>1
<1>6. CASE fed.sni_buffer # <<>>
  <2>1. \/ Answered(t, fed, answer) = fed /\ Len(fed.sni_buffer) <= MAX_REASSEMBLY_BYTES
        \/ Answered(t, fed, answer) = Decided(fed, "GaveUp")
        \/ \E name \in NamesIn(t) :
              Answered(t, fed, answer) = [Decided(fed, "Found") EXCEPT !.sni = name]
        \/ \E s \in {"NoSni", "NotTls", "Malformed"} : Answered(t, fed, answer) = Decided(fed, s)
    BY <1>2 DEF Answered, AnsweredUnder
  <2>. QED
    BY <1>3, <1>4, <1>6, <2>1
<1>. QED
  BY <1>5, <1>6

\* What looking into a packet does to a flow that none of the rules on its
\* addresses and ports condemned.
LEMMA InspectedSound ==
    ASSUME NEW p, p.tuple \in Tuples, NEW f, Inspectable(p.tuple, f), ~f.blocked,
           ~IpMatches(p), ~PortMatches(p)
    PROVE  /\ Inspectable(p.tuple, Inspected(f, p))
           /\ Inspected(f, p).blocked = f.blocked
           /\ Inspected(f, p).block_reason = f.block_reason
           /\ Inspected(f, p).packet_count = f.packet_count
           /\ f.sni_status # "Pending" => Inspected(f, p) = f
<1>1. CASE Inspects(f, p)
  <2>1. ~IpMatchesTuple(p.tuple) /\ ~PortMatchesTuple(p.tuple) /\ f.sni_status = "Pending"
    BY <1>1 DEF Inspects, IpMatches, PortMatches, IpMatchesTuple, PortMatchesTuple
  <2>2. Inspected(f, p) =
           tryResolveSni(p.tuple, [f EXCEPT !.reassembler = addSegment(f.reassembler, p.seq, p.data)])
    BY <1>1 DEF Inspected
  <2>. QED
    BY <2>1, <2>2, ResolveSound
<1>2. CASE ~Inspects(f, p)
  BY <1>2 DEF Inspected
<1>. QED
  BY <1>1, <1>2

\* s is r with one more sample and these counts and lists.
Counted(r, s, flows_blocked, packets, entries, names) ==
    /\ IsReport(s)
    /\ s.total_packets = r.total_packets
    /\ s.total_flows = r.total_flows
    /\ s.packet_latencies_ns = r.packet_latencies_ns + 1
    /\ s.blocked_flows = flows_blocked
    /\ s.blocked_packets = packets
    /\ s.blocked_entries = entries
    /\ s.observed_snis = names

(***************************************************************************)
(* The ways a packet can end, for the flow f and the report r that have    *)
(* counted it and for what they become: of a condemned flow, condemning    *)
(* its flow, passed without a name, passed with one.                       *)
(***************************************************************************)
Skipped(f, r, g, s) ==
    /\ f.blocked /\ g = f
    /\ Counted(r, s, r.blocked_flows, r.blocked_packets + 1, r.blocked_entries, r.observed_snis)

Blocked(t, f, r, g, s) ==
    /\ ~f.blocked /\ g.blocked
    /\ f.sni_status # "Found"
    /\ Counted(r, s, r.blocked_flows + 1, r.blocked_packets + 1,
               Append(r.blocked_entries, <<t, g.block_reason>>), r.observed_snis)

Passed(f, r, g, s) ==
    /\ ~f.blocked /\ ~g.blocked
    /\ f.sni_status # "Found" /\ g.sni_status # "Found"
    /\ Counted(r, s, r.blocked_flows, r.blocked_packets, r.blocked_entries, r.observed_snis)

Observed(f, r, g, s) ==
    /\ ~f.blocked /\ ~g.blocked
    /\ f.sni_status = "Found" => g = f
    /\ g.sni_status = "Found"
    /\ Counted(r, s, r.blocked_flows, r.blocked_packets, r.blocked_entries,
               Append(r.observed_snis, g.sni))

\* g is f, condemned for this reason.
CondemnedFor(f, g, reason) ==
    /\ IsFlow(g)
    /\ g.blocked = TRUE /\ g.block_reason = reason
    /\ g.reassembler = f.reassembler /\ g.sni_buffer = f.sni_buffer
    /\ g.sni_status = f.sni_status /\ g.sni = f.sni
    /\ g.packet_count = f.packet_count

\* Condemning and passing, on the fields of flow and report.
LEMMA CondemnFields ==
    ASSUME NEW f, IsFlow(f), NEW r, IsReport(r), NEW p, NEW reason
    PROVE  /\ CondemnedFor(f, Condemn(f, r, p, reason).flow, reason)
           /\ Counted(r, Condemn(f, r, p, reason).report,
                      r.blocked_flows + 1, r.blocked_packets + 1,
                      Append(r.blocked_entries, <<p.tuple, reason>>), r.observed_snis)
  BY DEF Condemn, Condemned, CondemnedFor, Counted, IsFlow, IsReport

\* The same of a packet that passes.
LEMMA PassFields ==
    ASSUME NEW f, NEW r, IsReport(r)
    PROVE  /\ Pass(f, r).flow = f
           /\ Counted(r, Pass(f, r).report, r.blocked_flows, r.blocked_packets,
                      r.blocked_entries, r.observed_snis)
  BY DEF Pass, Counted, IsReport

\* A decision on a flow of t keeps its invariant, its count and every earlier
\* decision on its name, and is one of the four above.
LEMMA DecideOutcome ==
    ASSUME NEW p, p.tuple \in Tuples, NEW f, FlowInv(p.tuple, f), NEW r, IsReport(r)
    PROVE  LET d == Decide(f, r, p)
           IN  /\ FlowInv(p.tuple, d.flow)
               /\ d.flow.packet_count = f.packet_count
               /\ f.sni_status # "Pending" =>
                     /\ d.flow.sni_status = f.sni_status
                     /\ d.flow.sni = f.sni
                     /\ d.flow.reassembler = f.reassembler
               /\ \/ Skipped(f, r, d.flow, d.report)
                  \/ Blocked(p.tuple, f, r, d.flow, d.report)
                  \/ Passed(f, r, d.flow, d.report)
                  \/ Observed(f, r, d.flow, d.report)
<1>. DEFINE d == Decide(f, r, p)
            Goal == /\ FlowInv(p.tuple, d.flow)
                    /\ d.flow.packet_count = f.packet_count
                    /\ f.sni_status # "Pending" =>
                          /\ d.flow.sni_status = f.sni_status
                          /\ d.flow.sni = f.sni
                          /\ d.flow.reassembler = f.reassembler
                    /\ \/ Skipped(f, r, d.flow, d.report)
                       \/ Blocked(p.tuple, f, r, d.flow, d.report)
                       \/ Passed(f, r, d.flow, d.report)
                       \/ Observed(f, r, d.flow, d.report)
<1>1. CASE f.blocked
  <2>. DEFINE s == [r EXCEPT !.blocked_packets = @ + 1]
  <2>1. d = Pass(f, s) /\ IsReport(s)
    BY <1>1 DEF Decide, IsReport
  <2>2. d.flow = f
    BY <2>1, PassFields
  <2>3. Counted(r, d.report, r.blocked_flows, r.blocked_packets + 1, r.blocked_entries,
                r.observed_snis)
    BY <2>1, PassFields DEF Counted, IsReport
  <2>. QED
    BY <1>1, <2>2, <2>3 DEF Skipped
<1>2. ASSUME ~f.blocked, IpMatchesTuple(p.tuple) \/ PortMatchesTuple(p.tuple),
             NEW rule \in {IpRule, PortRule}, d = Condemn(f, r, p, rule)
      PROVE  Goal
  <2>1. f.reassembler = NewReassembler /\ f.sni_status = "Pending"
    BY <1>2 DEF FlowInv, Inspectable
  <2>2. CondemnedFor(f, d.flow, rule)
    BY <1>2, CondemnFields DEF FlowInv, Inspectable
  <2>3. FlowInv(p.tuple, d.flow)
    <3>1. rule.kind \in ReasonKinds
      BY DEF IpRule, PortRule, Reason, ReasonKinds
    <3>. QED
      BY <1>2, <2>1, <2>2, <3>1 DEF FlowInv, Inspectable, CondemnedFor
  <2>4. d.flow.packet_count = f.packet_count /\ d.flow.blocked /\ d.flow.block_reason = rule
    BY <2>2 DEF CondemnedFor
  <2>5. Blocked(p.tuple, f, r, d.flow, d.report)
    BY <1>2, <2>1, <2>4, CondemnFields DEF FlowInv, Inspectable, Blocked
  <2>. QED
    BY <2>1, <2>3, <2>4, <2>5
<1>3. CASE ~f.blocked /\ IpMatches(p)
  BY <1>2, <1>3 DEF Decide, IpMatches, IpMatchesTuple
<1>4. CASE ~f.blocked /\ ~IpMatches(p) /\ PortMatches(p)
  BY <1>2, <1>4 DEF Decide, PortMatches, PortMatchesTuple
<1>5. CASE ~f.blocked /\ ~IpMatches(p) /\ ~PortMatches(p)
  <2>. DEFINE g == Inspected(f, p)
              rule == matchBlockedDomain(Rules, g.sni)
  <2>1. d = Judge(g, r, p)
    BY <1>5 DEF Decide
  <2>2. /\ Inspectable(p.tuple, g) /\ ~g.blocked /\ g.packet_count = f.packet_count
        /\ f.sni_status # "Pending" => g = f
    BY <1>5, InspectedSound DEF FlowInv
  <2>3. IsFlow(g)
    BY <2>2 DEF Inspectable
  <2>. HIDE DEF g
  <2>4. CASE g.sni_status # "Found"
    <3>1. d = Pass(g, r)
      BY <2>1, <2>4 DEF Judge
    <3>. QED
      BY <1>5, <2>2, <2>4, <3>1, PassFields DEF FlowInv, Passed
  <2>5. CASE g.sni_status = "Found" /\ rule # NoName
    <3>1. d = Condemn(g, r, p, Reason("domain", rule))
      BY <2>1, <2>5 DEF Judge
    <3>2. f.sni_status = "Pending"
      BY <1>5, <2>2, <2>5 DEF FlowInv
    <3>3. CondemnedFor(g, d.flow, Reason("domain", rule))
      BY <2>3, <3>1, CondemnFields
    <3>4. d.flow.packet_count = g.packet_count /\ d.flow.blocked
          /\ d.flow.block_reason = Reason("domain", rule)
      BY <3>3 DEF CondemnedFor
    <3>5. FlowInv(p.tuple, d.flow)
      <4>1. Reason("domain", rule).kind = "domain" /\ Reason("domain", rule) \notin {IpRule, PortRule}
        BY DEF Reason, IpRule, PortRule
      <4>. QED
        BY <2>2, <2>3, <3>3, <3>4, <4>1 DEF FlowInv, Inspectable, CondemnedFor, ReasonKinds
    <3>6. Blocked(p.tuple, f, r, d.flow, d.report)
      BY <1>5, <2>3, <3>1, <3>2, <3>4, CondemnFields DEF Blocked
    <3>. QED
      BY <2>2, <3>2, <3>4, <3>5, <3>6
  <2>6. CASE g.sni_status = "Found" /\ rule = NoName
    <3>. DEFINE s == [r EXCEPT !.observed_snis = Append(@, g.sni)]
    <3>1. d = Pass(g, s) /\ IsReport(s)
      BY <2>1, <2>6 DEF Judge, IsReport
    <3>2. d.flow = g
      BY <3>1, PassFields
    <3>3. Counted(r, d.report, r.blocked_flows, r.blocked_packets, r.blocked_entries,
                  Append(r.observed_snis, g.sni))
      BY <3>1, PassFields DEF Counted, IsReport
    <3>4. FlowInv(p.tuple, g)
      BY <2>2, <2>6 DEF FlowInv
    <3>. QED
      BY <1>5, <2>2, <2>6, <3>2, <3>3, <3>4 DEF Observed
  <2>. QED
    BY <2>4, <2>5, <2>6
<1>. QED
  BY <1>1, <1>3, <1>4, <1>5 DEF FlowInv, Inspectable
-----------------------------------------------------------------------------
(* What is done to the engine.                                             *)

\* Initially there is no flow and nothing to report.
LEMMA InitInv == Init => IndInv
<1>. SUFFICES ASSUME Init PROVE IndInv
  OBVIOUS
<1>1. flows = <<>> /\ report = EmptyReport /\ DOMAIN flows = {} /\ seen = <<>> /\ Len(seen) = 0
  BY DEF Init, NewEngine, flows, report
<1>2. FlowsInv
  BY <1>1, FS_EmptySet DEF FlowsInv
<1>3. IsSequence(<<>>) /\ ToSet(<<>>) = {} /\ Len(<<>>) = 0
  BY EmptySeq DEF IsSequence, ToSet
<1>4. ReportInv
  <2>1. BlockedFlows = {}
    BY <1>1 DEF BlockedFlows
  <2>2. FlowCountsAgree
    BY <1>1, <1>3, <2>1, FS_EmptySet DEF FlowCountsAgree, EmptyReport
  <2>3. ObservedNamesAgree
    BY <1>1, <1>3 DEF ObservedNamesAgree, EmptyReport
  <2>. QED
    BY <1>1, <1>3, <2>2, <2>3 DEF ReportInv, IsReport, EmptyReport
<1>5. engine = [flows |-> flows, report |-> report]
  BY DEF Init, NewEngine, flows, report
<1>. QED
  BY <1>1, <1>2, <1>4, <1>5, CaptureAssumption DEF IndInv, Init

\* The flow of p, and the report, when p has been counted and nothing else.
CountedFlow(p) ==
    LET flow == IF p.tuple \in DOMAIN flows THEN flows[p.tuple] ELSE FreshFlow
    IN  [flow EXCEPT !.packet_count = @ + 1]

CountedReport(p) ==
    [report EXCEPT !.total_packets = @ + 1,
                   !.total_flows = IF p.tuple \in DOMAIN flows THEN @ ELSE @ + 1]

\* These are what Decide is given.
LEMMA CountedSound ==
    ASSUME IndInv, NEW p \in Packets
    PROVE  LET f == CountedFlow(p)
               r == CountedReport(p)
           IN  /\ FlowInv(p.tuple, f)
               /\ p.tuple \in DOMAIN flows =>
                     /\ f = [flows[p.tuple] EXCEPT !.packet_count = f.packet_count]
                     /\ f.packet_count = flows[p.tuple].packet_count + 1
                     /\ f.blocked = flows[p.tuple].blocked
                     /\ f.block_reason = flows[p.tuple].block_reason
                     /\ f.reassembler = flows[p.tuple].reassembler
                     /\ f.sni_status = flows[p.tuple].sni_status
                     /\ f.sni = flows[p.tuple].sni
               /\ p.tuple \notin DOMAIN flows =>
                     ~f.blocked /\ f.sni_status = "Pending" /\ f.packet_count = 1
               /\ IsReport(r)
               /\ r.total_packets = report.total_packets + 1
               /\ r.total_flows = report.total_flows + (IF p.tuple \in DOMAIN flows THEN 0 ELSE 1)
               /\ r.blocked_flows = report.blocked_flows
               /\ r.blocked_packets = report.blocked_packets
               /\ r.blocked_entries = report.blocked_entries
               /\ r.observed_snis = report.observed_snis
               /\ r.packet_latencies_ns = report.packet_latencies_ns
<1>1. IsReport(report) /\ report.total_flows \in Nat
  BY FS_CardinalityType DEF IndInv, ReportInv, FlowsInv, FlowCountsAgree
<1>2. /\ IsReport(CountedReport(p))
      /\ CountedReport(p).total_packets = report.total_packets + 1
      /\ CountedReport(p).total_flows = report.total_flows + (IF p.tuple \in DOMAIN flows THEN 0 ELSE 1)
      /\ CountedReport(p).blocked_flows = report.blocked_flows
      /\ CountedReport(p).blocked_packets = report.blocked_packets
      /\ CountedReport(p).blocked_entries = report.blocked_entries
      /\ CountedReport(p).observed_snis = report.observed_snis
      /\ CountedReport(p).packet_latencies_ns = report.packet_latencies_ns
  BY <1>1 DEF CountedReport, IsReport
<1>3. CASE p.tuple \in DOMAIN flows
  <2>. DEFINE f == flows[p.tuple]
  <2>1. FlowInv(p.tuple, f)
    BY <1>3 DEF IndInv, FlowsInv
  <2>2. CountedFlow(p) = [f EXCEPT !.packet_count = f.packet_count + 1]
    BY <1>3 DEF CountedFlow
  <2>3. /\ IsFlow(CountedFlow(p))
        /\ CountedFlow(p).packet_count = f.packet_count + 1
        /\ CountedFlow(p).reassembler = f.reassembler
        /\ CountedFlow(p).sni_buffer = f.sni_buffer
        /\ CountedFlow(p).sni_status = f.sni_status
        /\ CountedFlow(p).sni = f.sni
        /\ CountedFlow(p).blocked = f.blocked
        /\ CountedFlow(p).block_reason = f.block_reason
    BY <2>1, <2>2 DEF FlowInv, Inspectable, IsFlow
  <2>4. FlowInv(p.tuple, CountedFlow(p))
    BY <2>1, <2>3 DEF FlowInv, Inspectable
  <2>5. CountedFlow(p) = [f EXCEPT !.packet_count = CountedFlow(p).packet_count]
    BY <2>2, <2>3
  <2>. QED
    BY <1>2, <1>3, <2>3, <2>4, <2>5
<1>4. CASE p.tuple \notin DOMAIN flows
  <2>1. CountedFlow(p) = [FreshFlow EXCEPT !.packet_count = 1]
    BY <1>4 DEF CountedFlow, FreshFlow
  <2>2. FlowInv(p.tuple, FreshFlow)
    BY FreshSound
  <2>3. /\ CountedFlow(p).packet_count = 1
        /\ CountedFlow(p).sni_status = "Pending"
        /\ ~CountedFlow(p).blocked
    BY <2>1 DEF FreshFlow
  <2>4. FlowInv(p.tuple, CountedFlow(p))
    BY <2>1, <2>2 DEF FreshFlow, FlowInv, Inspectable, IsFlow
  <2>. QED
    BY <1>2, <1>4, <2>3, <2>4
<1>. QED
  BY <1>3, <1>4
\* What a packet with an IP header does to the variables, in one place.
Handled(p, g) ==
    LET t == p.tuple
        f == CountedFlow(p)
        r == CountedReport(p)
    IN  /\ DOMAIN flows' = DOMAIN flows \cup {t}
        /\ flows'[t] = g
        /\ \A u \in DOMAIN flows : u # t => flows'[u] = flows[u]
        /\ FlowInv(t, g)
        /\ g = Decide(f, r, p).flow
        /\ g.packet_count = f.packet_count
        /\ f.sni_status # "Pending" =>
              g.sni_status = f.sni_status /\ g.sni = f.sni /\ g.reassembler = f.reassembler
        /\ \/ Skipped(f, r, g, report')
           \/ Blocked(t, f, r, g, report')
           \/ Passed(f, r, g, report')
           \/ Observed(f, r, g, report')

\* A packet without an IP header changes nothing but the history, and any other is
\* handled.
LEMMA StepOutcome ==
    ASSUME IndInv, NEW p \in Packets, Process(p)
    PROVE  /\ seen' = Append(seen, p) /\ seen' \in Seq(Packets)
           /\ Len(seen') = Len(seen) + 1 /\ Len(seen') <= MaxPackets
           /\ seen'[Len(seen')] = p
           /\ engine' = [flows |-> flows', report |-> report']
           /\ ~p.has_ip => UNCHANGED <<flows, report>>
           /\ p.has_ip => \E g : Handled(p, g)
<1>1. /\ seen' = Append(seen, p) /\ seen' \in Seq(Packets)
      /\ Len(seen') = Len(seen) + 1 /\ Len(seen') <= MaxPackets
      /\ seen'[Len(seen')] = p
  <2>1. Len(seen) \in Nat /\ Len(seen) < MaxPackets /\ seen' = Append(seen, p) /\ seen \in Seq(Packets)
    BY DEF IndInv, Process
  <2>. QED
    BY <2>1, CaptureAssumption, AppendProperties
<1>2. engine' = processParsedPacket(engine, p)
  BY DEF Process
<1>3. CASE ~p.has_ip
  <2>1. engine' = engine
    BY <1>2, <1>3 DEF processParsedPacket
  <2>. QED
    BY <1>1, <1>3, <2>1 DEF IndInv, flows, report
<1>4. CASE p.has_ip
  <2>. DEFINE t == p.tuple
              f == CountedFlow(p)
              r == CountedReport(p)
              d == Decide(f, r, p)
  <2>1. engine' = Stored(engine, t, d)
    BY <1>2, <1>4 DEF processParsedPacket, CountedFlow, CountedReport, flows, report
  <2>2. engine' = [flows |-> [u \in DOMAIN flows \cup {t} |-> IF u = t THEN d.flow ELSE flows[u]],
                   report |-> d.report]
    BY <2>1 DEF Stored, flows
  <2>3. /\ engine' = [flows |-> flows', report |-> report']
        /\ flows' = [u \in DOMAIN flows \cup {t} |-> IF u = t THEN d.flow ELSE flows[u]]
        /\ report' = d.report
    BY <2>2 DEF flows, report
  <2>4. t \in Tuples /\ FlowInv(t, f) /\ IsReport(r)
    BY CaptureAssumption, CountedSound
  <2>5. Handled(p, d.flow)
    BY <2>3, <2>4, DecideOutcome DEF Handled
  <2>. QED
    BY <1>1, <1>4, <2>3, <2>5
<1>. QED
  BY <1>3, <1>4

\* The flow table after a packet of a flow.
LEMMA HandledFlows ==
    ASSUME IndInv, NEW p \in Packets, Process(p), NEW g, Handled(p, g)
    PROVE  FlowsInv'
<1>. DEFINE t == p.tuple
<1>1. DOMAIN flows' = DOMAIN flows \cup {t} /\ t \in Tuples /\ Len(seen) \in Nat
  BY CaptureAssumption DEF Handled, IndInv
<1>2. IsFiniteSet(DOMAIN flows') /\ DOMAIN flows' \subseteq Tuples
  BY <1>1, FS_AddElement DEF IndInv, FlowsInv
<1>3. Len(seen') = Len(seen) + 1
  BY StepOutcome
<1>4. g.packet_count \in 1..Len(seen')
  BY <1>1, <1>3, CountedSound DEF Handled, IndInv, FlowsInv
<1>5. ASSUME NEW u \in DOMAIN flows'
      PROVE  FlowInv(u, flows'[u]) /\ flows'[u].packet_count \in 1..Len(seen')
  <2>1. CASE u = t
    BY <1>4, <2>1 DEF Handled
  <2>2. CASE u # t
    BY <1>1, <1>3, <1>5, <2>2 DEF Handled, IndInv, FlowsInv
  <2>. QED
    BY <2>1, <2>2
<1>. QED
  BY <1>2, <1>5 DEF FlowsInv

\* The blocked flows and those whose name was let pass.
ObservedFlows == {u \in DOMAIN flows : flows[u].sni_status = "Found" /\ ~flows[u].blocked}

\* The report after a packet of a flow.
LEMMA HandledReport ==
    ASSUME IndInv, NEW p \in Packets, Process(p), NEW g, Handled(p, g)
    PROVE  ReportInv'
<1>. DEFINE t == p.tuple
            f == CountedFlow(p)
            r == CountedReport(p)
            Reasons(T, F) == {<<u, F[u].block_reason>> : u \in T}
            Names(T, F) == {F[u].sni : u \in T}
<1>1. /\ Len(seen) \in Nat /\ Len(seen') = Len(seen) + 1
      /\ report.total_packets \in 0..Len(seen)
      /\ report.blocked_packets \in 0..Len(seen)
      /\ report.packet_latencies_ns = report.total_packets
      /\ report.blocked_flows = Cardinality(BlockedFlows)
      /\ report.total_flows = Cardinality(DOMAIN flows)
      /\ Len(report.blocked_entries) = report.blocked_flows
      /\ IsSequence(report.blocked_entries) /\ IsSequence(report.observed_snis)
      /\ ToSet(report.blocked_entries) = Reasons(BlockedFlows, flows)
      /\ ToSet(report.observed_snis) = Names(ObservedFlows, flows)
  BY StepOutcome DEF IndInv, ReportInv, FlowCountsAgree, ObservedNamesAgree, ObservedFlows
<1>2. /\ IsFiniteSet(DOMAIN flows) /\ IsFiniteSet(BlockedFlows)
      /\ Cardinality(DOMAIN flows) \in Nat /\ Cardinality(BlockedFlows) \in Nat
  <2>1. IsFiniteSet(DOMAIN flows) /\ BlockedFlows \subseteq DOMAIN flows
    BY DEF IndInv, FlowsInv, BlockedFlows
  <2>. QED
    BY <2>1, FS_Subset, FS_CardinalityType
<1>3. /\ IsReport(report')
      /\ report'.total_packets = report.total_packets + 1
      /\ report'.total_flows = report.total_flows + (IF t \in DOMAIN flows THEN 0 ELSE 1)
      /\ report'.packet_latencies_ns = report.packet_latencies_ns + 1
      /\ report'.blocked_packets \in {report.blocked_packets, report.blocked_packets + 1}
  BY CountedSound DEF Handled, Skipped, Blocked, Passed, Observed, Counted
<1>4. report'.total_flows = Cardinality(DOMAIN flows')
  <2>1. Cardinality(DOMAIN flows \cup {t}) =
           IF t \in DOMAIN flows THEN Cardinality(DOMAIN flows) ELSE Cardinality(DOMAIN flows) + 1
    BY <1>2, FS_AddElement
  <2>2. Cardinality(DOMAIN flows') = Cardinality(DOMAIN flows \cup {t})
    BY DEF Handled
  <2>. QED
    BY <1>1, <1>2, <1>3, <2>1, <2>2
<1>5. /\ BlockedFlows' = {u \in DOMAIN flows' : flows'[u].blocked}
      /\ ObservedFlows' = {u \in DOMAIN flows' : flows'[u].sni_status = "Found" /\ ~flows'[u].blocked}
  BY DEF BlockedFlows, ObservedFlows
<1>6. /\ IsSequence(report'.blocked_entries)
      /\ report'.blocked_flows = Cardinality(BlockedFlows')
      /\ Len(report'.blocked_entries) = report'.blocked_flows
      /\ ToSet(report'.blocked_entries) = Reasons(BlockedFlows', flows')
  <2>1. CASE Blocked(t, f, r, g, report')
    <3>1. t \notin BlockedFlows /\ BlockedFlows' = BlockedFlows \cup {t}
      BY <1>5, <2>1, CountedSound DEF Handled, Blocked, BlockedFlows
    <3>2. /\ report'.blocked_flows = report.blocked_flows + 1
          /\ report'.blocked_entries = Append(report.blocked_entries, <<t, g.block_reason>>)
      BY <2>1, CountedSound DEF Blocked, Counted
    <3>3. Reasons(BlockedFlows', flows') = Reasons(BlockedFlows, flows) \cup {<<t, g.block_reason>>}
      BY <3>1 DEF Handled, BlockedFlows
    <3>4. Cardinality(BlockedFlows') = Cardinality(BlockedFlows) + 1
      BY <1>2, <3>1, FS_AddElement
    <3>5. /\ IsSequence(Append(report.blocked_entries, <<t, g.block_reason>>))
          /\ ToSet(Append(report.blocked_entries, <<t, g.block_reason>>)) =
                ToSet(report.blocked_entries) \cup {<<t, g.block_reason>>}
          /\ Len(Append(report.blocked_entries, <<t, g.block_reason>>)) =
                Len(report.blocked_entries) + 1
      BY <1>1, AppendToSet
    <3>. QED
      BY <1>1, <3>2, <3>3, <3>4, <3>5
  <2>2. CASE ~Blocked(t, f, r, g, report')
    <3>1. /\ report'.blocked_flows = report.blocked_flows
          /\ report'.blocked_entries = report.blocked_entries
      BY <2>2, CountedSound DEF Handled, Skipped, Passed, Observed, Counted
    <3>2. BlockedFlows' = BlockedFlows
      BY <1>5, <2>2, CountedSound DEF Handled, Skipped, Passed, Observed, BlockedFlows
    <3>3. \A u \in BlockedFlows : flows'[u].block_reason = flows[u].block_reason
      BY <2>2, CountedSound DEF Handled, Skipped, Passed, Observed, BlockedFlows
    <3>. QED
      BY <1>1, <3>1, <3>2, <3>3
  <2>. QED
    BY <2>1, <2>2
<1>7. /\ IsSequence(report'.observed_snis)
      /\ ToSet(report'.observed_snis) = Names(ObservedFlows', flows')
  <2>1. CASE Observed(f, r, g, report')
    <3>1. ObservedFlows' = ObservedFlows \cup {t}
      BY <1>5, <2>1, CountedSound DEF Handled, Observed, ObservedFlows
    <3>2. report'.observed_snis = Append(report.observed_snis, g.sni)
      BY <2>1, CountedSound DEF Observed, Counted
    <3>3. \A u \in ObservedFlows : flows'[u].sni = flows[u].sni
      BY <2>1, CountedSound DEF Handled, Observed, ObservedFlows
    <3>4. Names(ObservedFlows', flows') = Names(ObservedFlows, flows) \cup {g.sni}
      BY <3>1, <3>3 DEF Handled
    <3>5. /\ IsSequence(Append(report.observed_snis, g.sni))
          /\ ToSet(Append(report.observed_snis, g.sni)) = ToSet(report.observed_snis) \cup {g.sni}
      BY <1>1, AppendToSet
    <3>. QED
      BY <1>1, <3>2, <3>4, <3>5
  <2>2. CASE ~Observed(f, r, g, report')
    <3>1. report'.observed_snis = report.observed_snis
      BY <2>2, CountedSound DEF Handled, Skipped, Passed, Blocked, Counted
    <3>2. t \notin ObservedFlows /\ ObservedFlows' = ObservedFlows
      BY <1>5, <2>2, CountedSound DEF Handled, Skipped, Passed, Blocked, ObservedFlows
    <3>3. \A u \in ObservedFlows : flows'[u] = flows[u]
      BY <3>2 DEF Handled, ObservedFlows
    <3>. QED
      BY <1>1, <3>1, <3>2, <3>3
  <2>. QED
    BY <2>1, <2>2
<1>8. FlowCountsAgree'
  BY <1>1, <1>3, <1>4, <1>6 DEF FlowCountsAgree
<1>9. ObservedNamesAgree'
  BY <1>5, <1>7 DEF ObservedNamesAgree
<1>. QED
  BY <1>1, <1>3, <1>6, <1>7, <1>8, <1>9 DEF ReportInv

\* Every packet preserves the invariant.
LEMMA ProcessInv ==
    ASSUME IndInv, NEW p \in Packets, Process(p)
    PROVE  IndInv'
<1>1. CASE ~p.has_ip
  <2>1. UNCHANGED <<flows, report>> /\ Len(seen') = Len(seen) + 1 /\ Len(seen) \in Nat
    BY <1>1, StepOutcome DEF IndInv
  <2>2. FlowsInv'
    BY <2>1 DEF IndInv, FlowsInv
  <2>3. ReportInv'
    BY <2>1 DEF IndInv, ReportInv, FlowCountsAgree, ObservedNamesAgree, BlockedFlows
  <2>. QED
    BY <2>2, <2>3, StepOutcome DEF IndInv
<1>2. CASE p.has_ip
  BY <1>2, StepOutcome, HandledFlows, HandledReport DEF IndInv
<1>. QED
  BY <1>1, <1>2

\* So does every step.
LEMMA NextInv == IndInv /\ [Next]_vars => IndInv'
<1>. SUFFICES ASSUME IndInv, [Next]_vars PROVE IndInv'
  OBVIOUS
<1>1. CASE Next
  BY <1>1, ProcessInv DEF Next
<1>2. CASE UNCHANGED vars
  BY <1>2 DEF vars, IndInv, FlowsInv, ReportInv, FlowCountsAgree, ObservedNamesAgree,
              BlockedFlows, flows, report
<1>. QED
  BY <1>1, <1>2
-----------------------------------------------------------------------------
(* The theorems.                                                           *)

\* The inductive invariant holds throughout.
THEOREM EngineInvariance == Spec => []IndInv
  BY InitInv, NextInv, PTL DEF Spec

\* The counts are bounded by the packets.
LEMMA TypesFollow == IndInv => TypeOK
<1>. SUFFICES ASSUME IndInv PROVE TypeOK
  OBVIOUS
<1>1. Len(seen) \in Nat /\ Len(seen) <= MaxPackets /\ MaxPackets \in Nat
  BY CaptureAssumption DEF IndInv
<1>. QED
  BY <1>1 DEF IndInv, FlowsInv, ReportInv, FlowInv, Inspectable, TypeOK

\* Every flow has one of the statuses and reasons of dpi_engine.h, and no count
\* exceeds the number of packets processed.
THEOREM EngineTypes == Spec => []TypeOK
  BY TypesFollow, EngineInvariance, PTL

\* What is buffered is capped.
LEMMA CapsFollow == IndInv => BufferCapped
BY DEF IndInv, FlowsInv, FlowInv, Inspectable, BufferCapped

\* No flow buffers more than MAX_REASSEMBLY_BYTES between two packets, however
\* its stream is cut (dpi_engine.cpp:168).
THEOREM BuffersStayCapped == Spec => []BufferCapped
  BY CapsFollow, EngineInvariance, PTL

\* What a rule condemned was not reassembled.
LEMMA RulesFollow == IndInv => RulesComeFirst
BY DEF IndInv, FlowsInv, FlowInv, Inspectable, RulesComeFirst, BlockedFlows

\* A flow condemned by an address or port rule never had a byte reassembled,
\* whatever broken frames created it (dpi_engine.cpp:94-127).
THEOREM RulesBeforePayload == Spec => []RulesComeFirst
  BY RulesFollow, EngineInvariance, PTL

\* The counts of flows and the blocked entries of the report are those of the
\* flow table, and every packet counted is timed.
THEOREM FlowsCounted == Spec => []FlowCountsAgree
<1>1. IndInv => FlowCountsAgree
  BY DEF IndInv, ReportInv
<1>. QED
  BY <1>1, EngineInvariance, PTL

\* The names reported as observed are those of the flows that were let pass.
THEOREM NamesObserved == Spec => []ObservedNamesAgree
<1>1. IndInv => ObservedNamesAgree
  BY DEF IndInv, ReportInv
<1>. QED
  BY <1>1, EngineInvariance, PTL

\* A decision about a server name is never revisited and releases the buffer
\* (dpi_engine.cpp:131 and 190).
THEOREM DecisionsStand == Spec => DecisionIsFinal
<1>. DEFINE Final(t) ==
              /\ flows[t].sni_status # "Pending" =>
                    /\ flows'[t].sni_status = flows[t].sni_status
                    /\ flows'[t].sni = flows[t].sni
                    /\ flows'[t].reassembler = flows[t].reassembler
              /\ flows'[t].sni_status # "Pending" => flows'[t].sni_buffer = <<>>
<1>1. IndInv /\ IndInv' /\ Next => \A t \in DOMAIN flows : Final(t)
  <2>. SUFFICES ASSUME IndInv, IndInv', Next, NEW t \in DOMAIN flows PROVE Final(t)
    OBVIOUS
  <2>1. PICK p \in Packets : Process(p)
    BY DEF Next
  <2>2. /\ t \in DOMAIN flows'
        /\ flows[t].sni_status # "Pending" =>
              /\ flows'[t].sni_status = flows[t].sni_status
              /\ flows'[t].sni = flows[t].sni
              /\ flows'[t].reassembler = flows[t].reassembler
    <3>1. CASE ~p.has_ip
      BY <2>1, <3>1, StepOutcome
    <3>2. CASE p.has_ip
      <4>1. PICK g : Handled(p, g)
        BY <2>1, <3>2, StepOutcome
      <4>. QED
        BY <4>1, CountedSound DEF Handled
    <3>. QED
      BY <3>1, <3>2
  <2>3. flows'[t].sni_status # "Pending" => flows'[t].sni_buffer = <<>>
    BY <2>2 DEF IndInv, FlowsInv, FlowInv, Inspectable
  <2>. QED
    BY <2>2, <2>3
<1>2. IndInv /\ IndInv' /\ [Next]_vars => [\A t \in DOMAIN flows : Final(t)]_vars
  BY <1>1
<1>. QED
  BY <1>2, EngineInvariance, PTL DEF Spec, DecisionIsFinal

\* A condemned flow stays condemned for its reason and is only counted, and a
\* packet counts as blocked exactly when its flow is blocked after it
\* (dpi_engine.cpp:87-92).
THEOREM CondemnedForGood == Spec => BlockingIsFinal
<1>. DEFINE Same(t) == flows'[t] = [flows[t] EXCEPT !.packet_count = flows'[t].packet_count]
            Count(p) == report'.blocked_packets - report.blocked_packets =
                           IF p.has_ip /\ flows'[p.tuple].blocked THEN 1 ELSE 0
            Final == /\ \A t \in BlockedFlows : Same(t)
                     /\ seen' # seen => Count(seen'[Len(seen')])
<1>1. IndInv /\ Next => Final
  <2>. SUFFICES ASSUME IndInv, Next PROVE Final
    OBVIOUS
  <2>1. PICK p \in Packets : Process(p)
    BY DEF Next
  <2>2. seen'[Len(seen')] = p
    BY <2>1, StepOutcome
  <2>3. \A t \in DOMAIN flows : flows'[t] = flows[t] => Same(t)
    <3>1. \A f : IsFlow(f) => f = [f EXCEPT !.packet_count = f.packet_count]
      BY DEF IsFlow
    <3>. QED
      BY <3>1 DEF IndInv, FlowsInv, FlowInv, Inspectable
  <2>4. report.blocked_packets \in Nat
    BY DEF IndInv, ReportInv
  <2>5. CASE ~p.has_ip
    <3>1. UNCHANGED <<flows, report>>
      BY <2>1, <2>5, StepOutcome
    <3>. QED
      BY <2>2, <2>3, <2>4, <2>5, <3>1 DEF BlockedFlows
  <2>6. CASE p.has_ip
    <3>1. PICK g : Handled(p, g)
      BY <2>1, <2>6, StepOutcome
    <3>2. ASSUME NEW t \in BlockedFlows PROVE Same(t)
      <4>1. CASE t # p.tuple
        BY <2>3, <3>1, <4>1 DEF Handled, BlockedFlows
      <4>2. CASE t = p.tuple
        <5>1. /\ CountedFlow(p) = [flows[t] EXCEPT !.packet_count = CountedFlow(p).packet_count]
              /\ CountedFlow(p).blocked
          BY <4>2, CountedSound DEF BlockedFlows
        <5>2. flows'[t] = CountedFlow(p)
          BY <3>1, <4>2, <5>1 DEF Handled, Skipped, Blocked, Passed, Observed
        <5>. QED
          BY <5>1, <5>2
      <4>. QED
        BY <4>1, <4>2
    <3>3. Count(p)
      BY <2>4, <2>6, <3>1, CountedSound
      DEF Handled, Skipped, Blocked, Passed, Observed, Counted
    <3>. QED
      BY <2>2, <3>2, <3>3
  <2>. QED
    BY <2>5, <2>6
<1>2. IndInv /\ [Next]_vars => [Final]_vars
  BY <1>1
<1>. QED
  BY <1>2, EngineInvariance, PTL DEF Spec, BlockingIsFinal

-----------------------------------------------------------------------------
(***************************************************************************)
(* The sum over the flows in ReportAgrees.                                 *)
(***************************************************************************)
\* Every flow of S has counted some packets.
HasCounts(table, S) == IsFiniteSet(S) /\ \A t \in S : table[t].packet_count \in Nat

SumOver(table, S) == Sums!Loop(table, 0, S)

\* AnyOf chooses from every set that has elements.
LEMMA AnyPicks == ASSUME NEW S PROVE Sums!PicksFrom(S)
<1>1. ASSUME NEW T \in SUBSET S, T # {} PROVE AnyOf(T) \in T
  <2>1. \E x : x \in T
    BY <1>1
  <2> QED BY <2>1 DEF AnyOf
<1> QED BY <1>1 DEF Sums!PicksFrom

\* The loop's module means the same by a finite set.
LEMMA SumsFinite == \A S : Sums!IsFiniteSet(S) <=> IsFiniteSet(S)
  BY DEF Sums!IsFiniteSet, IsFiniteSet

\* The sum is a number, and any element can be taken out of it: the order of the
\* loop does not matter.
LEMMA SumSplits ==
    ASSUME NEW table, NEW S, HasCounts(table, S)
    PROVE  /\ SumOver(table, S) \in Nat
           /\ \A x \in S : SumOver(table, S) = SumOver(table, S \ {x}) + table[x].packet_count
<1> DEFINE Count(x) == table[x].packet_count
           Sum(T) == SumOver(table, T)
           Splits(T) == Sum(T) \in Nat /\ \A x \in T : Sum(T) = Sum(T \ {x}) + Count(x)
           Bad == {T \in SUBSET S : ~Splits(T)}
<1>1. \A x \in S : Count(x) \in Nat
  BY DEF HasCounts
<1>2. ASSUME NEW T \in SUBSET S, T # {}
      PROVE  AnyOf(T) \in T /\ Sum(T) = Sum(T \ {AnyOf(T)}) + Count(AnyOf(T))
  <2>1. IsFiniteSet(T) /\ Sums!PicksFrom(T)
    BY AnyPicks, FS_Subset DEF HasCounts
  <2>2. AnyOf(T) \in T
    BY <1>2, <2>1 DEF Sums!PicksFrom
  <2>3. Sums!Loop(table, 0, T) = Adding(table, AnyOf(T), Sums!Loop(table, 0, T \ {AnyOf(T)}))
    BY <1>2, <2>1, SumsFinite, Sums!LoopStep
  <2> QED BY <2>2, <2>3 DEF SumOver, Adding
<1>3. Splits({})
  BY Sums!LoopEmpty DEF SumOver
<1>4. SUFFICES ASSUME Bad # {} PROVE FALSE
  OBVIOUS
<1>5. PICK T \in Bad : \A U \in Bad : U \subseteq T => U = T
  <2>1. Bad \subseteq SUBSET S /\ IsFiniteSet(S)
    BY DEF HasCounts
  <2> HIDE DEF Bad
  <2> QED BY <1>4, <2>1, SumsFinite, Sums!SmallestSet
<1>6. T \in SUBSET S /\ ~Splits(T) /\ T # {}
  BY <1>3, <1>5
<1>7. \A x \in T : Splits(T \ {x})
  <2> SUFFICES ASSUME NEW x \in T, ~Splits(T \ {x}) PROVE FALSE
    OBVIOUS
  <2>1. T \ {x} \in Bad /\ T \ {x} # T
    BY <1>6
  <2> HIDE DEF Bad
  <2> QED BY <1>5, <2>1
<1> DEFINE c == AnyOf(T)
<1>8. c \in T /\ Sum(T) = Sum(T \ {c}) + Count(c)
  BY <1>2, <1>6
<1> HIDE DEF c, Sum, Count
<1>9. Sum(T) \in Nat
  BY <1>1, <1>6, <1>7, <1>8
<1>10. ASSUME NEW x \in T, x # c PROVE Sum(T) = Sum(T \ {x}) + Count(x)
  <2>1. (T \ {c}) \ {x} = (T \ {x}) \ {c}
    OBVIOUS
  <2>2. Sum(T \ {c}) = Sum((T \ {c}) \ {x}) + Count(x)
    BY <1>7, <1>8, <1>10
  <2>3. Sum(T \ {x}) = Sum((T \ {x}) \ {c}) + Count(c)
    BY <1>7, <1>8, <1>10
  <2>4. Splits((T \ {c}) \ {x})
    <3> SUFFICES ASSUME ~Splits((T \ {c}) \ {x}) PROVE FALSE
      OBVIOUS
    <3>1. (T \ {c}) \ {x} \in Bad /\ (T \ {c}) \ {x} # T /\ (T \ {c}) \ {x} \subseteq T
      BY <1>6, <1>8
    <3> HIDE DEF Bad
    <3> QED BY <1>5, <3>1
  <2>5. Sum((T \ {c}) \ {x}) \in Nat /\ Count(x) \in Nat /\ Count(c) \in Nat
    BY <1>1, <1>6, <1>8, <2>4
  <2> QED BY <1>8, <2>1, <2>2, <2>3, <2>5
<1> QED BY <1>6, <1>8, <1>9, <1>10

\* Counting one packet more in one flow, new or known, raises the sum by one.
LEMMA SumCounts ==
    ASSUME NEW table, NEW S, HasCounts(table, S), NEW t, NEW more, HasCounts(more, S \cup {t}),
           \A u \in S \ {t} : more[u].packet_count = table[u].packet_count,
           t \in S => more[t].packet_count = table[t].packet_count + 1,
           t \notin S => more[t].packet_count = 1
    PROVE  SumOver(more, S \cup {t}) = SumOver(table, S) + 1
<1> DEFINE R == S \ {t}
<1>1. HasCounts(table, R) /\ HasCounts(more, R)
  BY FS_Subset DEF HasCounts
<1>2. SumOver(more, R) = SumOver(table, R)
  <2>1. \A u \in R : \A n : Adding(more, u, n) = Adding(table, u, n)
    BY DEF Adding
  <2>2. IsFiniteSet(R)
    BY <1>1 DEF HasCounts
  <2> HIDE DEF R
  <2> QED BY <2>1, <2>2, AnyPicks, SumsFinite, Sums!LoopAgrees DEF SumOver
<1>3. SumOver(table, R) \in Nat
  BY <1>1, SumSplits
<1>4. SumOver(more, S \cup {t}) = SumOver(more, R) + more[t].packet_count
  <2>1. (S \cup {t}) \ {t} = R
    OBVIOUS
  <2> QED BY <2>1, SumSplits
<1>5. CASE t \in S
  <2>1. SumOver(table, S) = SumOver(table, R) + table[t].packet_count
    BY <1>5, SumSplits
  <2>2. table[t].packet_count \in Nat
    BY <1>5 DEF HasCounts
  <2> QED BY <1>2, <1>3, <1>4, <1>5, <2>1, <2>2
<1>6. CASE t \notin S
  <2>1. R = S
    BY <1>6
  <2> QED BY <1>2, <1>3, <1>4, <1>6, <2>1
<1> QED BY <1>5, <1>6

\* Where in the capture the packets with an IP header are.
WithIp == {i \in DOMAIN seen : seen[i].has_ip}

CountsInv ==
    /\ report.total_packets = SumOver(flows, DOMAIN flows)
    /\ report.total_packets = Cardinality(WithIp)

\* Each packet is counted once in the report and once in one flow.
LEMMA CountsNext == IndInv /\ CountsInv /\ [Next]_vars => CountsInv'
<1> SUFFICES ASSUME IndInv, CountsInv, [Next]_vars PROVE CountsInv'
  OBVIOUS
<1>1. CASE UNCHANGED vars
  BY <1>1 DEF vars, CountsInv, WithIp, flows, report
<1>2. ASSUME NEW p \in Packets, Process(p) PROVE CountsInv'
  <2>1. /\ seen' = Append(seen, p) /\ Len(seen') = Len(seen) + 1
        /\ seen \in Seq(Packets) /\ seen' \in Seq(Packets)
        /\ seen'[Len(seen')] = p
        /\ Len(seen) \in Nat
        /\ \A i \in DOMAIN seen : seen'[i] = seen[i]
    BY <1>2, StepOutcome, AppendProperties DEF IndInv
  <2> DEFINE n == Len(seen)
  <2>2. DOMAIN seen = 1..n /\ DOMAIN seen' = 1..(n + 1) /\ n + 1 \notin DOMAIN seen
    BY <2>1
  <2>3. IsFiniteSet(WithIp)
    <3>1. IsFiniteSet(1..n) /\ WithIp \subseteq 1..n
      BY <2>1, <2>2, FS_Interval DEF WithIp
    <3> QED BY <3>1, FS_Subset
  <2>4. Cardinality(WithIp') = Cardinality(WithIp) + (IF p.has_ip THEN 1 ELSE 0)
    <3>1. WithIp' = IF p.has_ip THEN WithIp \cup {n + 1} ELSE WithIp
      BY <2>1, <2>2 DEF WithIp
    <3>2. n + 1 \notin WithIp
      BY <2>2 DEF WithIp
    <3>3. Cardinality(WithIp \cup {n + 1}) = Cardinality(WithIp) + 1
      BY <2>3, <3>2, FS_AddElement
    <3>4. Cardinality(WithIp) \in Nat
      BY <2>3, FS_CardinalityType
    <3> QED BY <3>1, <3>3, <3>4
  <2>5. CASE ~p.has_ip
    <3>1. UNCHANGED <<flows, report>>
      BY <1>2, <2>5, StepOutcome
    <3>2. Cardinality(WithIp) \in Nat
      BY <2>3, FS_CardinalityType
    <3> QED BY <2>4, <2>5, <3>1, <3>2 DEF CountsInv
  <2>6. CASE p.has_ip
    <3>1. PICK g : Handled(p, g)
      BY <1>2, <2>6, StepOutcome
    <3>2. FlowsInv'
      BY <1>2, <3>1, HandledFlows
    <3> DEFINE t == p.tuple
    <3>3. /\ DOMAIN flows' = DOMAIN flows \cup {t}
          /\ \A u \in DOMAIN flows \ {t} : flows'[u] = flows[u]
          /\ t \in DOMAIN flows => flows'[t].packet_count = flows[t].packet_count + 1
          /\ t \notin DOMAIN flows => flows'[t].packet_count = 1
          /\ report'.total_packets = report.total_packets + 1
      BY <3>1, CountedSound DEF Handled, Skipped, Blocked, Passed, Observed, Counted
    <3>4. HasCounts(flows, DOMAIN flows)
      BY DEF IndInv, FlowsInv, HasCounts
    <3>5. HasCounts(flows', DOMAIN flows \cup {t})
      BY <3>2, <3>3 DEF FlowsInv, HasCounts
    <3>6. SumOver(flows', DOMAIN flows') = SumOver(flows, DOMAIN flows) + 1
      <4> HIDE DEF t
      <4> QED BY <3>3, <3>4, <3>5, SumCounts
    <3> QED BY <2>4, <2>6, <3>3, <3>6 DEF CountsInv
  <2> QED BY <2>5, <2>6
<1> QED BY <1>1, <1>2 DEF Next

\* There is nothing to count at first.
LEMMA CountsInit == Init => CountsInv
<1> SUFFICES ASSUME Init PROVE CountsInv
  OBVIOUS
<1>1. report = EmptyReport /\ DOMAIN flows = {} /\ DOMAIN seen = {}
  BY DEF Init, NewEngine, flows, report
<1>2. SumOver(flows, {}) = 0
  BY Sums!LoopEmpty DEF SumOver
<1>3. WithIp = {}
  BY <1>1 DEF WithIp
<1> QED BY <1>1, <1>2, <1>3, FS_EmptySet DEF CountsInv, EmptyReport

\* The sum in ReportAgrees is the one kept.
LEMMA ReportFollows == IndInv /\ CountsInv => ReportAgrees
<1>1. FoldSet(LAMBDA t, n : n + flows[t].packet_count, 0, DOMAIN flows) = SumOver(flows, DOMAIN flows)
  BY DEF FoldSet, MapThenFoldSet, SumOver, Sums!Loop, Sums!MapThenFoldSet, Adding, AnyOf
<1> QED BY <1>1 DEF IndInv, ReportInv, CountsInv, ReportAgrees, WithIp

\* Each packet with an IP header is counted, timed and given to a flow exactly
\* once, on each of the four ways through processParsedPacket, and the entries of
\* the report are those of the blocked flows.
THEOREM ReportIsRight == Spec => []ReportAgrees
  BY CountsInit, ReportFollows, CountsNext, EngineInvariance, PTL DEF Spec

-----------------------------------------------------------------------------
(***************************************************************************)
(* The domain rule a name meets.                                           *)
(***************************************************************************)
\* The largest number is chosen of every part of an interval.
LEMMA MaxPicks == ASSUME NEW n \in Nat PROVE Matches!PicksLargest(1..n)
<1>1. ASSUME NEW T \in SUBSET (1..n), T # {} PROVE Max(T) \in T /\ \A y \in T : y <= Max(T)
  <2>1. IsFiniteSet(T) /\ T \subseteq Int
    <3>1. IsFiniteSet(1..n)
      BY FS_Interval
    <3>2. IsFiniteSet(T)
      BY <3>1, FS_Subset
    <3>3. T \subseteq Int
      OBVIOUS
    <3> QED BY <3>2, <3>3
  <2>2. \E x \in T : \A y \in T : y <= x
    <3>1. Matches!IsFiniteSet(T)
      BY <2>1 DEF Matches!IsFiniteSet, IsFiniteSet
    <3> QED BY <1>1, <2>1, <3>1, Matches!LargestElement
  <2>3. \E x \in T : \A y \in T : x >= y
    BY <2>1, <2>2
  <2>4. Max(T) \in T /\ \A y \in T : Max(T) >= y
    BY <2>3 DEF Max
  <2> QED BY <2>1, <2>4
<1> QED BY <1>1 DEF Matches!PicksLargest

\* The first position among those of hits.
IsFirst(i, hits) == i \in hits /\ \A j \in hits : i <= j

\* What was found begins with the rule at the first of these positions.
Leads(found, hits, rules) ==
    \E i : IsFirst(i, hits) /\ found # <<>> /\ Head(found) = rules[i]

\* A rule found after others does not change the first one.
LEMMA LeadsOn ==
    ASSUME NEW S, NEW found \in Seq(S), NEW e \in S, NEW hits, NEW rules, NEW n \in Int,
           \A i \in hits : i \in Int /\ i <= n, rules[n] = e,
           IF hits = {} THEN found = <<>> ELSE Leads(found, hits, rules)
    PROVE  Leads(Append(found, e), hits \cup {n}, rules)
<1> DEFINE more == Append(found, e)
           all == hits \cup {n}
<1>1. more # <<>> /\ Head(more) = IF found = <<>> THEN e ELSE Head(found)
  BY AppendProperties, HeadTailAppend
<1>2. CASE hits = {}
  <2>1. IsFirst(n, all) /\ Head(more) = rules[n]
    BY <1>1, <1>2 DEF IsFirst
  <2> HIDE DEF more, all
  <2>2. Leads(more, all, rules)
    BY <1>1, <2>1 DEF Leads
  <2> QED BY <2>2 DEF more, all
<1>3. CASE hits # {}
  <2>1. PICK i : IsFirst(i, hits) /\ found # <<>> /\ Head(found) = rules[i]
    BY <1>3 DEF Leads
  <2>2. IsFirst(i, all)
    BY <2>1 DEF IsFirst
  <2>3. Head(more) = rules[i]
    BY <1>1, <2>1
  <2> HIDE DEF more, all
  <2>4. Leads(more, all, rules)
    BY <1>1, <2>2, <2>3 DEF Leads
  <2> QED BY <2>4 DEF more, all
<1> QED BY <1>2, <1>3

\* The rules found among the first n are none if none matches, and begin with
\* the first one that does.
LEMMA FirstMatch ==
    ASSUME NEW name
    PROVE  IF Hits(name) = {} THEN matchBlockedDomain(Rules, name) = NoName
           ELSE /\ IsFirst(Min(Hits(name)), Hits(name))
                /\ matchBlockedDomain(Rules, name) = FirstHit(name)
<1> DEFINE d == Rules.blocked_domains
           env == [rules |-> d, name |-> name]
           Found(n) == Matches!Loop(env, <<>>, 1..n)
           HitsTo(n) == {i \in 1..n : RuleMatches(name, d[i])}
           Claim(n) == /\ Found(n) \in Seq(ToSet(d))
                       /\ IF HitsTo(n) = {} THEN Found(n) = <<>> ELSE Leads(Found(n), HitsTo(n), d)
           Good == {n \in Nat : n <= Len(d) => Claim(n)}
<1>1. d \in Seq(ToSet(d)) /\ Len(d) \in Nat /\ DOMAIN d = 1..Len(d)
  <2>1. d \in Seq(ToSet(d))
    BY InspectionAssumption
  <2> QED BY <2>1
<1>2. 0 \in Good
  <2>1. 1..0 = {}
    OBVIOUS
  <2>2. Found(0) = <<>>
    BY <2>1, Matches!LoopEmpty
  <2>3. HitsTo(0) = {}
    BY <2>1
  <2>4. Claim(0)
    <3> HIDE DEF Found, HitsTo, d
    <3>1. <<>> \in Seq(ToSet(d))
      OBVIOUS
    <3> QED BY <2>2, <2>3, <3>1
  <2> HIDE DEF Claim
  <2> QED BY <2>4
<1>3. ASSUME NEW n \in Nat, n \in Good PROVE n + 1 \in Good
  <2> SUFFICES ASSUME n + 1 <= Len(d) PROVE Claim(n + 1)
    OBVIOUS
  <2>1. Claim(n)
    BY <1>1, <1>3
  <2>2. Found(n + 1) = Matching(env, n + 1, Found(n))
    <3>1. Matches!PicksLargest(1..(n + 1))
      BY MaxPicks
    <3> QED BY <3>1, Matches!IntervalStep
  <2>3. Found(n + 1) = IF RuleMatches(name, d[n + 1]) THEN Append(Found(n), d[n + 1]) ELSE Found(n)
    BY <2>2 DEF Matching
  <2>4. HitsTo(n + 1) = IF RuleMatches(name, d[n + 1]) THEN HitsTo(n) \cup {n + 1} ELSE HitsTo(n)
    OBVIOUS
  <2>5. \A i \in HitsTo(n) : i \in Int /\ i <= n + 1
    OBVIOUS
  <2>6. d[n + 1] \in ToSet(d)
    BY <1>1 DEF ToSet
  <2> HIDE DEF Found, HitsTo, d
  <2>7. CASE ~RuleMatches(name, d[n + 1])
    BY <2>1, <2>3, <2>4, <2>7
  <2>8. CASE RuleMatches(name, d[n + 1])
    <3>1. Found(n + 1) \in Seq(ToSet(d)) /\ HitsTo(n + 1) # {}
      BY <2>1, <2>3, <2>4, <2>6, <2>8, AppendProperties
    <3>2. Leads(Append(Found(n), d[n + 1]), HitsTo(n) \cup {n + 1}, d)
      <4>1. n + 1 \in Int
        OBVIOUS
      <4> QED BY <2>1, <2>5, <2>6, <4>1, LeadsOn
    <3> QED BY <2>3, <2>4, <2>8, <3>1, <3>2
  <2> QED BY <2>7, <2>8
<1>4. Claim(Len(d))
  <2>1. Len(d) \in Good
    <3> HIDE DEF Good, d
    <3>1. \A n \in Nat : n \in Good => n + 1 \in Good
      BY <1>3
    <3> QED BY <1>1, <1>2, <3>1, Matches!CountingUp
  <2> HIDE DEF Claim, d
  <2> QED BY <1>1, <2>1
<1>5. MatchingRules(Rules, name) = Found(Len(d))
  BY <1>1 DEF MatchingRules, FoldLeft, MapThenFoldSet, Matches!Loop, Matches!MapThenFoldSet, Matching
<1>6. Hits(name) = HitsTo(Len(d))
  BY <1>1 DEF Hits
<1> HIDE DEF Found, HitsTo, d
<1>7. CASE Hits(name) = {}
  BY <1>4, <1>5, <1>6, <1>7 DEF matchBlockedDomain
<1>8. CASE Hits(name) # {}
  <2>1. PICK i : IsFirst(i, Hits(name)) /\ Found(Len(d)) # <<>> /\ Head(Found(Len(d))) = d[i]
    BY <1>4, <1>6, <1>8 DEF Leads
  <2>2. Hits(name) \subseteq Int
    BY <1>1 DEF Hits, d
  <2>3. Min(Hits(name)) \in Hits(name) /\ \A y \in Hits(name) : Min(Hits(name)) =< y
    BY <2>1 DEF Min, IsFirst
  <2>4. i = Min(Hits(name))
    <3> DEFINE m == Min(Hits(name))
    <3>1. i \in Int /\ m \in Int /\ i <= m /\ m <= i
      BY <2>1, <2>2, <2>3 DEF IsFirst
    <3> HIDE DEF m
    <3>2. i = m
      BY <3>1
    <3> QED BY <3>2 DEF m
  <2>5. matchBlockedDomain(Rules, name) = d[i]
    BY <1>5, <2>1 DEF matchBlockedDomain
  <2> QED BY <1>8, <2>1, <2>4, <2>5 DEF FirstHit, d
<1> QED BY <1>7, <1>8

\* The flow a packet leaves behind: condemned by a rule on its headers, or looked
\* into and then condemned by a domain rule or let pass.
LEMMA DecidedFlow ==
    ASSUME NEW p, p.tuple \in Tuples, NEW f, FlowInv(p.tuple, f), NEW r, IsReport(r),
           NEW g, g = Decide(f, r, p).flow,
           NEW i, i = Inspected(f, p),
           NEW rule, rule = matchBlockedDomain(Rules, i.sni)
    PROVE  /\ f.blocked => g = f
           /\ ~f.blocked /\ IpMatches(p) => CondemnedFor(f, g, IpRule)
           /\ ~f.blocked /\ ~IpMatches(p) /\ PortMatches(p) => CondemnedFor(f, g, PortRule)
           /\ ~f.blocked /\ ~IpMatches(p) /\ ~PortMatches(p) =>
                 /\ Inspectable(p.tuple, i) /\ ~i.blocked
                 /\ IF i.sni_status = "Found" /\ rule # NoName
                    THEN CondemnedFor(i, g, Reason("domain", rule)) ELSE g = i
<1>1. IsFlow(f)
  BY DEF FlowInv, Inspectable
<1>2. CASE f.blocked
  <2> DEFINE s == [r EXCEPT !.blocked_packets = @ + 1]
  <2>1. Decide(f, r, p) = Pass(f, s) /\ IsReport(s)
    BY <1>2 DEF Decide, IsReport
  <2> QED BY <1>2, <2>1, PassFields
<1>3. CASE ~f.blocked /\ IpMatches(p)
  <2>1. Decide(f, r, p) = Condemn(f, r, p, IpRule)
    BY <1>3 DEF Decide
  <2> QED BY <1>1, <1>3, <2>1, CondemnFields
<1>4. CASE ~f.blocked /\ ~IpMatches(p) /\ PortMatches(p)
  <2>1. Decide(f, r, p) = Condemn(f, r, p, PortRule)
    BY <1>4 DEF Decide
  <2> QED BY <1>1, <1>4, <2>1, CondemnFields
<1>5. CASE ~f.blocked /\ ~IpMatches(p) /\ ~PortMatches(p)
  <2>1. Decide(f, r, p) = Judge(i, r, p)
    BY <1>5 DEF Decide
  <2>2. Inspectable(p.tuple, i) /\ ~i.blocked
    BY <1>5, InspectedSound DEF FlowInv
  <2>3. IsFlow(i)
    BY <2>2 DEF Inspectable
  <2>4. CASE i.sni_status = "Found" /\ rule # NoName
    <3>1. Decide(f, r, p) = Condemn(i, r, p, Reason("domain", rule))
      BY <2>1, <2>4 DEF Judge
    <3> QED BY <1>5, <2>2, <2>3, <2>4, <3>1, CondemnFields
  <2>5. CASE i.sni_status # "Found"
    <3>1. Decide(f, r, p) = Pass(i, r)
      BY <2>1, <2>5 DEF Judge
    <3> QED BY <1>5, <2>2, <2>5, <3>1, PassFields
  <2>6. CASE i.sni_status = "Found" /\ rule = NoName
    <3> DEFINE s == [r EXCEPT !.observed_snis = Append(@, i.sni)]
    <3>1. Decide(f, r, p) = Pass(i, s) /\ IsReport(s)
      BY <2>1, <2>6 DEF Judge, IsReport
    <3> QED BY <1>5, <2>2, <2>6, <3>1, PassFields
  <2> QED BY <2>4, <2>5, <2>6
<1> QED BY <1>2, <1>3, <1>4, <1>5

\* Why a flow of t is blocked.
Cause(t, f) ==
    f.blocked =>
        \/ f.block_reason = IpRule /\ IpMatchesTuple(t)
        \/ f.block_reason = PortRule /\ PortMatchesTuple(t)
        \/ /\ f.sni_status = "Found"
           /\ matchBlockedDomain(Rules, f.sni) # NoName
           /\ f.block_reason = Reason("domain", matchBlockedDomain(Rules, f.sni))

CauseInv == \A t \in DOMAIN flows : Cause(t, flows[t])

\* A flow is blocked for one of these causes only, and for good.
LEMMA CauseNext == IndInv /\ CauseInv /\ [Next]_vars => CauseInv'
<1> SUFFICES ASSUME IndInv, CauseInv, [Next]_vars PROVE CauseInv'
  OBVIOUS
<1>1. CASE UNCHANGED vars
  BY <1>1 DEF vars, CauseInv, flows
<1>2. ASSUME NEW p \in Packets, Process(p) PROVE CauseInv'
  <2>1. CASE ~p.has_ip
    BY <1>2, <2>1, StepOutcome DEF CauseInv
  <2>2. CASE p.has_ip
    <3>1. PICK g : Handled(p, g)
      BY <1>2, <2>2, StepOutcome
    <3> DEFINE t == p.tuple
               f == CountedFlow(p)
               i == Inspected(f, p)
    <3>2. Cause(t, f)
      BY CountedSound DEF Cause, CauseInv
    <3>3. t \in Tuples /\ FlowInv(t, f) /\ IsReport(CountedReport(p))
      BY CaptureAssumption, CountedSound
    <3>4. g = Decide(f, CountedReport(p), p).flow
      BY <3>1 DEF Handled
    <3> HIDE DEF f
    <3>5. /\ f.blocked => g = f
          /\ ~f.blocked /\ IpMatches(p) => CondemnedFor(f, g, IpRule)
          /\ ~f.blocked /\ ~IpMatches(p) /\ PortMatches(p) => CondemnedFor(f, g, PortRule)
          /\ ~f.blocked /\ ~IpMatches(p) /\ ~PortMatches(p) =>
                /\ Inspectable(t, i) /\ ~i.blocked
                /\ IF i.sni_status = "Found" /\ matchBlockedDomain(Rules, i.sni) # NoName
                   THEN CondemnedFor(i, g, Reason("domain", matchBlockedDomain(Rules, i.sni)))
                   ELSE g = i
      BY <3>3, <3>4, DecidedFlow
    <3> HIDE DEF i
    <3>6. Cause(t, g)
      BY <3>2, <3>5 DEF Cause, CondemnedFor, IpMatches, PortMatches, IpMatchesTuple, PortMatchesTuple
    <3> QED BY <3>1, <3>6 DEF Handled, CauseInv
  <2> QED BY <2>1, <2>2
<1> QED BY <1>1, <1>2 DEF Next

\* There is no flow at first.
LEMMA CauseInit == Init => CauseInv
BY DEF Init, NewEngine, flows, CauseInv

\* The causes hold throughout.
LEMMA CauseInvariance == Spec => []CauseInv
  BY CauseInit, CauseNext, EngineInvariance, PTL DEF Spec

\* A flow blocked for a cause is judged by its name, and the others are.
LEMMA NamesFollow == IndInv /\ CauseInv => NameIsJudged
<1> SUFFICES ASSUME IndInv, CauseInv PROVE NameIsJudged
  OBVIOUS
<1>1. ASSUME NEW t \in DOMAIN flows, flows[t].sni_status = "Found"
      PROVE  LET hits == Hits(flows[t].sni)
                 first == FirstHit(flows[t].sni)
             IN  /\ hits = {} => ~flows[t].blocked
                 /\ hits # {} /\ first # NoName =>
                       flows[t].blocked /\ flows[t].block_reason = Reason("domain", first)
  <2> DEFINE f == flows[t]
             rule == matchBlockedDomain(Rules, f.sni)
  <2>1. FlowInv(t, f) /\ Cause(t, f)
    BY <1>1 DEF IndInv, FlowsInv, CauseInv
  <2>2. ~IpMatchesTuple(t) /\ ~PortMatchesTuple(t)
    BY <1>1, <2>1 DEF FlowInv, Inspectable
  <2>3. f.blocked => rule # NoName /\ f.block_reason = Reason("domain", rule)
    BY <2>1, <2>2 DEF Cause
  <2>4. ~f.blocked => rule = NoName
    BY <1>1, <2>1 DEF FlowInv
  <2>5. f.blocked \in BOOLEAN
    BY <2>1 DEF FlowInv, Inspectable
  <2>6. IF Hits(f.sni) = {} THEN rule = NoName ELSE rule = FirstHit(f.sni)
    BY FirstMatch
  <2> HIDE DEF f, rule
  <2>7. /\ Hits(f.sni) = {} => ~f.blocked
        /\ Hits(f.sni) # {} /\ FirstHit(f.sni) # NoName =>
              f.blocked /\ f.block_reason = Reason("domain", FirstHit(f.sni))
    BY <2>3, <2>4, <2>5, <2>6
  <2> QED BY <2>7 DEF f
<1>2. ObservedNamesAgree
  BY DEF IndInv, ReportInv
<1> QED BY <1>1, <1>2 DEF NameIsJudged

\* A flow whose name was found is let pass if no domain rule matches the name, and
\* blocked by the first rule that does, whichever packet brought the name and
\* whatever rules come behind; of a name that the empty rule matches before any
\* other this says nothing.  The names reported as observed are exactly those of
\* the flows let pass (dpi_engine.cpp:136-150, block_rules.cpp:37-42).
THEOREM NamesJudged == Spec => []NameIsJudged
  BY NamesFollow, CauseInvariance, EngineInvariance, PTL

-----------------------------------------------------------------------------
(***************************************************************************)
(* On streams: what a flow has reassembled of its direction, and what a    *)
(* decision about it is worth.                                             *)
(***************************************************************************)
\* A flow of t that waits for more: of the pieces it was given it holds what runs on
\* without a gap from the offset from, and the parser finds that too short.
Waiting(t, start, from, pieces, f) ==
    IF pieces = {} THEN f.reassembler = NewReassembler /\ f.sni_buffer = <<>>
    ELSE /\ Reassembling(start, from, pieces, f.reassembler, f.sni_buffer)
         /\ Drained(start, pieces, f.reassembler)
         /\ f.reassembler.consumed_any
         /\ f.sni_buffer # <<>>
         /\ tryExtractSni(t, f.sni_buffer) = "Incomplete"

\* A decision on the bytes from the first one on is the one the record deserves.
TruthTold(t, from, f) ==
    from = 0 =>
        /\ f.sni_status \in {"GaveUp", Truth(t)}
        /\ f.sni_status = "Found" => f.sni = Streams[t][0].sni
        /\ f.sni_status = "GaveUp" => RecordEnd(t) > MAX_REASSEMBLY_BYTES + 1

\* A flow of t that was given these pieces, the one at from before the others.
Follows(t, start, from, pieces, f) ==
    IF f.sni_status = "Pending" THEN Waiting(t, start, from, pieces, f)
    ELSE pieces # {} /\ TruthTold(t, from, f)

\* How many bytes a decision takes is a number.
LEMMA RecordEndIs == \A t \in Tuples : RecordEnd(t) \in Nat
  BY InspectionAssumption, CaptureAssumption DEF RecordEnd

\* What the parser says of the first bytes of a stream: nothing as long as the
\* record has not come to its end, and then the truth.
LEMMA ParserTells ==
    ASSUME NEW t \in Tuples, NEW buffer \in Seq(Nat), buffer # <<>>,
           \A i \in 1..Len(buffer) : buffer[i] = 0 + i - 1
    PROVE  LET answer == tryExtractSni(t, buffer)
           IN  /\ answer \in {"Incomplete", Truth(t)}
               /\ answer = "Incomplete" /\ Len(buffer) > MAX_REASSEMBLY_BYTES
                     => RecordEnd(t) > MAX_REASSEMBLY_BYTES + 1
               /\ answer = "Incomplete" /\ RECORD_HEADER_LEN <= RecordEnd(t)
                     => Len(buffer) < RecordEnd(t)
<1> DEFINE n == Len(buffer)
<1>1. n \in Nat /\ 1 \in 1..n
  BY LenProperties, EmptySeq
<1>2. buffer[1] = 0
  BY <1>1
<1>3. /\ RecordEnd(t) \in Nat /\ RECORD_HEADER_LEN \in Nat /\ MAX_REASSEMBLY_BYTES \in Nat
      /\ RECORD_HEADER_LEN <= MAX_REASSEMBLY_BYTES
      /\ Truth(t) # "Incomplete"
  BY InspectionAssumption, CaptureAssumption, RecordEndIs DEF Truth
<1>4. tryExtractSni(t, buffer) =
        IF n < RECORD_HEADER_LEN THEN "Incomplete"
        ELSE IF 0 \notin DOMAIN Streams[t] THEN "NotTls"
        ELSE IF n < RecordEnd(t) THEN "Incomplete"
        ELSE Truth(t)
  BY <1>2 DEF tryExtractSni, RecordEnd, Truth
<1> HIDE DEF n
<1>5. tryExtractSni(t, buffer) \in {"Incomplete", Truth(t)}
  BY <1>4 DEF Truth
<1>6. tryExtractSni(t, buffer) = "Incomplete" => n < RECORD_HEADER_LEN \/ n < RecordEnd(t)
  BY <1>3, <1>4
<1> QED BY <1>1, <1>3, <1>5, <1>6 DEF n

\* What the parser's answer makes of a flow that was given these pieces.
LEMMA AnswerFollows ==
    ASSUME NEW t \in Tuples, NEW start, NEW from, NEW pieces, pieces # {},
           NEW f, IsFlow(f), f.sni_status = "Pending",
           Reassembling(start, from, pieces, f.reassembler, f.sni_buffer),
           Drained(start, pieces, f.reassembler),
           f.reassembler.consumed_any, f.sni_buffer # <<>>
    PROVE  Follows(t, start, from, pieces, Tried(t, f))
<1> DEFINE answer == tryExtractSni(t, f.sni_buffer)
           g == Tried(t, f)
<1>1. answer \in {"Incomplete", "Found", "NoSni", "NotTls", "Malformed"}
  BY Answers
<1>2. /\ f.sni_buffer \in Seq(Nat)
      /\ \A i \in 1..Len(f.sni_buffer) : f.sni_buffer[i] = from + i - 1
  BY DEF Reassembling
<1>3. from = 0 =>
        /\ answer \in {"Incomplete", Truth(t)}
        /\ answer = "Incomplete" /\ Len(f.sni_buffer) > MAX_REASSEMBLY_BYTES
              => RecordEnd(t) > MAX_REASSEMBLY_BYTES + 1
  BY <1>2, ParserTells
<1>4. g = Answered(t, f, answer)
  BY DEF Tried
<1>5. Len(f.sni_buffer) \in Nat /\ MAX_REASSEMBLY_BYTES \in Nat
  BY <1>2, InspectionAssumption
<1> HIDE DEF answer, g
<1>6. CASE answer = "Incomplete" /\ Len(f.sni_buffer) <= MAX_REASSEMBLY_BYTES
  <2>1. g = f
    BY <1>4, <1>6 DEF Answered, AnsweredUnder
  <2> QED BY <1>6, <2>1 DEF Follows, Waiting, answer, g
<1>7. CASE answer = "Incomplete" /\ ~(Len(f.sni_buffer) <= MAX_REASSEMBLY_BYTES)
  <2>1. g = Decided(f, "GaveUp")
    BY <1>4, <1>7 DEF Answered, AnsweredUnder
  <2>2. g.sni_status = "GaveUp"
    BY <2>1 DEF Decided, IsFlow
  <2>3. TruthTold(t, from, g)
    BY <1>3, <1>5, <1>7, <2>2 DEF TruthTold
  <2> QED BY <2>2, <2>3 DEF Follows, g
<1>8. CASE answer = "Found"
  <2>1. g = [Decided(f, "Found") EXCEPT !.sni = Streams[t][f.sni_buffer[1]].sni]
    BY <1>4, <1>8 DEF Answered, AnsweredUnder
  <2>2. g.sni_status = "Found" /\ g.sni = Streams[t][f.sni_buffer[1]].sni
    BY <2>1 DEF Decided, IsFlow
  <2>3. from = 0 => f.sni_buffer[1] = 0
    BY <1>2, <1>5, EmptySeq
  <2>4. TruthTold(t, from, g)
    BY <1>3, <1>8, <2>2, <2>3 DEF TruthTold
  <2> QED BY <2>2, <2>4 DEF Follows, g
<1>9. CASE answer \in {"NoSni", "NotTls", "Malformed"}
  <2>1. g = Decided(f, answer)
    BY <1>4, <1>9 DEF Answered, AnsweredUnder
  <2>2. g.sni_status = answer
    BY <2>1 DEF Decided, IsFlow
  <2>3. TruthTold(t, from, g)
    BY <1>3, <1>9, <2>2 DEF TruthTold
  <2> QED BY <1>9, <2>2, <2>3 DEF Follows, g
<1> QED BY <1>1, <1>6, <1>7, <1>8, <1>9 DEF g

\* An empty payload adds nothing.
LEMMA EmptySegment ==
    ASSUME NEW h, NEW seq, NEW lo \in Nat
    PROVE  addSegment(h, seq, Bytes(lo, lo)) = h
<1>1. Bytes(lo, lo) = <<>>
  BY EmptySeq DEF Bytes
<1> QED BY <1>1 DEF addSegment

\* A segment of the stream, looked into, is one more piece.
LEMMA SegmentFollows ==
    ASSUME NEW p, p.tuple \in Tuples,
           NEW start \in SeqNumbers, NEW lo \in Nat, NEW hi \in Nat, lo <= hi, hi < Half,
           p.seq = (start + lo) % SeqModulus, p.data = Bytes(lo, hi),
           NEW f, IsFlow(f), Inspects(f, p),
           NEW from \in Nat, NEW pieces, Waiting(p.tuple, start, from, pieces, f)
    PROVE  /\ lo = hi => Follows(p.tuple, start, from, pieces, Inspected(f, p))
           /\ lo < hi => Follows(p.tuple, start, IF pieces = {} THEN lo ELSE from,
                                 pieces \cup {<<lo, hi>>}, Inspected(f, p))
<1> DEFINE t == p.tuple
           h == f.reassembler
           a == addSegment(h, (start + lo) % SeqModulus, Bytes(lo, hi))
           r == pullContiguous(a)
           fed == [f EXCEPT !.reassembler = r.reassembler, !.sni_buffer = @ \o r.bytes]
           g == Inspected(f, p)
<1>1. f.sni_status = "Pending"
  BY DEF Inspects
<1>2. g = Tried(t, fed)
  <2> DEFINE given == [f EXCEPT !.reassembler = addSegment(@, p.seq, p.data)]
  <2>1. g = Tried(t, Fed(given, pullContiguous(given.reassembler)))
    BY DEF Inspected, tryResolveSni
  <2>2. given = [f EXCEPT !.reassembler = a]
    OBVIOUS
  <2> HIDE DEF given, a
  <2>3. given.reassembler = a
    BY <2>2 DEF IsFlow
  <2> HIDE DEF r
  <2>4. Fed(given, r) = fed
    BY <2>2 DEF Fed, IsFlow
  <2> QED BY <2>1, <2>3, <2>4 DEF r
<1>3. /\ IsFlow(fed) /\ fed.sni_status = "Pending" /\ fed.sni = f.sni
      /\ fed.reassembler = r.reassembler
      /\ fed.sni_buffer = f.sni_buffer \o r.bytes
  <2> HIDE DEF r
  <2> QED BY <1>1 DEF IsFlow
<1> HIDE DEF fed, g
<1>4. CASE pieces = {} /\ lo = hi
  <2>1. h = NewReassembler /\ f.sni_buffer = <<>>
    BY <1>4 DEF Waiting
  <2>2. r = [reassembler |-> NewReassembler, bytes |-> <<>>]
    BY <1>4, <2>1, EmptySegment, NothingFed
  <2> HIDE DEF r, a
  <2>3. fed.reassembler = NewReassembler /\ fed.sni_buffer = <<>>
    BY <1>3, <2>1, <2>2
  <2>4. g = fed
    BY <1>2, <2>3 DEF Tried
  <2> QED BY <1>3, <1>4, <2>3, <2>4 DEF Follows, Waiting, g
<1>5. CASE pieces = {} /\ lo < hi
  <2>1. h = NewReassembler /\ f.sni_buffer = <<>>
    BY <1>5 DEF Waiting
  <2> DEFINE more == pieces \cup {<<lo, hi>>}
  <2>2. more = {<<lo, hi>>}
    BY <1>5
  <2>3. /\ Reassembling(start, lo, {<<lo, hi>>}, r.reassembler, r.bytes)
        /\ Drained(start, {<<lo, hi>>}, r.reassembler)
        /\ r.reassembler.consumed_any
        /\ r.bytes # <<>>
    BY <1>5, <2>1, FirstFed
  <2> HIDE DEF r, a
  <2>4. f.sni_buffer \o r.bytes = r.bytes
    <3>1. r.bytes \in Seq(Nat)
      BY <2>3 DEF Reassembling
    <3> QED BY <2>1, <3>1
  <2>5. Follows(t, start, lo, more, g)
    <3> HIDE DEF more
    <3>1. more # {}
      BY <2>2
    <3> QED BY <1>2, <1>3, <2>2, <2>3, <2>4, <3>1, AnswerFollows
  <2> QED BY <1>5, <2>5 DEF g
<1>6. CASE pieces # {}
  <2>1. /\ Reassembling(start, from, pieces, h, f.sni_buffer)
        /\ h.consumed_any /\ f.sni_buffer # <<>>
    BY <1>6 DEF Waiting
  <2>2. f.sni_buffer \in Seq(Nat)
    BY <2>1 DEF Reassembling
  <2>3. \A bytes \in Seq(Nat) : f.sni_buffer \o bytes # <<>>
    <3>1. \A s, u \in Seq(Nat) : s # <<>> => s \o u # <<>>
      OBVIOUS
    <3> QED BY <2>1, <2>2, <3>1
  <2>4. CASE lo = hi
    <3>1. r = pullContiguous(h)
      BY <2>4, EmptySegment
    <3> HIDE DEF r, h
    <3>2. /\ Reassembling(start, from, pieces, r.reassembler, f.sni_buffer \o r.bytes)
          /\ Drained(start, pieces, r.reassembler)
          /\ r.reassembler.consumed_any = (h.consumed_any \/ r.bytes # <<>>)
          /\ r.bytes \in Seq(Nat)
      BY <2>1, <3>1, PullMore
    <3>3. r.reassembler.consumed_any
      BY <2>1, <3>2, Zenon
    <3>4. f.sni_buffer \o r.bytes # <<>>
      BY <2>3, <3>2
    <3>5. Follows(t, start, from, pieces, g)
      BY <1>2, <1>3, <1>6, <3>2, <3>3, <3>4, AnswerFollows
    <3> QED BY <2>4, <3>5 DEF g
  <2>5. CASE lo < hi
    <3> DEFINE more == pieces \cup {<<lo, hi>>}
    <3>1. /\ Reassembling(start, from, more, r.reassembler, f.sni_buffer \o r.bytes)
          /\ Drained(start, more, r.reassembler)
          /\ r.reassembler.consumed_any
          /\ r.bytes \in Seq(Nat)
      <4>1. r = pullContiguous(addSegment(h, (start + lo) % SeqModulus, Bytes(lo, hi)))
        OBVIOUS
      <4> HIDE DEF r, a, h
      <4> QED BY <1>6, <2>1, <2>5, <4>1, MoreFed
    <3>2. f.sni_buffer \o r.bytes # <<>>
      BY <2>3, <3>1
    <3>3. more # {}
      OBVIOUS
    <3> HIDE DEF r, h, more
    <3>4. Follows(t, start, from, more, g)
      BY <1>2, <1>3, <3>1, <3>2, <3>3, AnswerFollows
    <3> QED BY <1>6, <2>5, <3>4 DEF g, more
  <2> QED BY <2>4, <2>5
<1> QED BY <1>4, <1>5, <1>6

\* The initial sequence number of direction t.
Isn(t) == CHOOSE isn \in SeqNumbers : StreamFrom(isn, t, Packets)

\* The piece of its stream a packet carries, and those captured of direction t.
PieceOf(p) == <<p.data[1], p.data[1] + Len(p.data)>>
Pieces(t) == {PieceOf(seen[i]) : i \in DataOf(t)}

\* Direction t was captured from the byte at from on: no other came before.
CapturedFrom(t, from) ==
    \E i \in DataOf(t) : seen[i].data[1] = from /\ \A j \in DataOf(t) : i <= j

\* A packet is a piece of its stream at its sequence number, or empty.
LEMMA PacketIsPiece ==
    ASSUME NEW p \in Packets, p.has_ip, p.has_l4, p.tuple.protocol = "TCP"
    PROVE  /\ Isn(p.tuple) \in SeqNumbers
           /\ \E lo, hi \in Nat :
                 /\ lo <= hi /\ hi < Half
                 /\ p.seq = (Isn(p.tuple) + lo) % SeqModulus
                 /\ p.data = Bytes(lo, hi)
                 /\ lo = hi <=> p.data = <<>>
                 /\ lo < hi => PieceOf(p) = <<lo, hi>> /\ p.data[1] = lo
<1> DEFINE t == p.tuple
<1>1. \E isn \in SeqNumbers : StreamFrom(isn, t, Packets)
  BY CaptureAssumption, StreamsAssumption
<1>2. Isn(t) = CHOOSE isn \in SeqNumbers : StreamFrom(isn, t, Packets)
  BY DEF Isn
<1>3. Isn(t) \in SeqNumbers /\ StreamFrom(Isn(t), t, Packets)
  BY <1>1, <1>2
<1>4. PICK lo \in 0..(Half - 1), hi \in 0..(Half - 1) :
        /\ lo <= hi
        /\ p.seq = (Isn(t) + lo) % SeqModulus
        /\ p.data = Bytes(lo, hi)
  BY <1>3 DEF StreamFrom
<1>5. lo \in Nat /\ hi \in Nat /\ hi < Half
  BY HalfFacts
<1>6. Len(Bytes(lo, hi)) = hi - lo /\ (lo < hi => Bytes(lo, hi)[1] = lo)
  <2>1. \A i \in 1..(hi - lo) : lo + i - 1 \in Nat
    BY <1>5
  <2>2. Bytes(lo, hi) \in Seq(Nat) /\ Len(Bytes(lo, hi)) = hi - lo
    BY <1>4, <1>5, <2>1 DEF Bytes
  <2>3. lo < hi => Bytes(lo, hi)[1] = lo + 1 - 1
    <3>1. lo < hi => 1 \in 1..(hi - lo)
      BY <1>5
    <3> QED BY <3>1 DEF Bytes
  <2>4. lo + 1 - 1 = lo
    BY <1>5
  <2> HIDE DEF Bytes
  <2> QED BY <2>2, <2>3, <2>4
<1>7. lo = hi <=> p.data = <<>>
  <2>1. lo = hi => Bytes(lo, hi) = <<>>
    BY EmptySeq DEF Bytes
  <2>2. Bytes(lo, hi) = <<>> => hi - lo = 0
    BY <1>6
  <2> QED BY <1>4, <1>5, <2>1, <2>2
<1>8. lo < hi => PieceOf(p) = <<lo, hi>> /\ p.data[1] = lo
  <2>1. lo + (hi - lo) = hi
    BY <1>5
  <2> QED BY <1>4, <1>6, <2>1 DEF PieceOf
<1> QED BY <1>3, <1>4, <1>5, <1>7, <1>8

\* What a packet adds to what was captured of direction t.
LEMMA CaptureGrows ==
    ASSUME IndInv, NEW p \in Packets, Process(p), NEW t
    PROVE  /\ ~CarriesData(p, t) =>
                 /\ DataOf(t)' = DataOf(t)
                 /\ Pieces(t)' = Pieces(t)
                 /\ \A from : CapturedFrom(t, from) => CapturedFrom(t, from)'
           /\ CarriesData(p, t) =>
                 /\ Pieces(t)' = Pieces(t) \cup {PieceOf(p)}
                 /\ DataOf(t) = {} => CapturedFrom(t, p.data[1])'
                 /\ \A from : CapturedFrom(t, from) => CapturedFrom(t, from)'
<1> DEFINE n == Len(seen)
<1>1. /\ n \in Nat /\ DOMAIN seen = 1..n /\ DOMAIN seen' = 1..(n + 1)
      /\ seen'[n + 1] = p
      /\ \A i \in 1..n : seen'[i] = seen[i]
  <2>1. seen \in Seq(Packets) /\ seen' = Append(seen, p)
    BY StepOutcome DEF IndInv
  <2> QED BY <2>1, AppendProperties, LenProperties
<1> HIDE DEF n
<1>2. DataOf(t) \subseteq 1..n /\ \A i \in DataOf(t) : i <= n + 1 /\ n + 1 <= n + 1
  BY <1>1 DEF DataOf
<1>3. DataOf(t)' = {i \in 1..(n + 1) : CarriesData(seen'[i], t)}
  BY <1>1 DEF DataOf, CarriesData
<1>4. DataOf(t)' = DataOf(t) \cup (IF CarriesData(p, t) THEN {n + 1} ELSE {})
  BY <1>1, <1>3 DEF DataOf
<1>5. Pieces(t)' = {PieceOf(seen'[i]) : i \in DataOf(t)'}
  BY DEF Pieces, PieceOf
<1>6. \A from : CapturedFrom(t, from)' =
        \E i \in DataOf(t)' : seen'[i].data[1] = from /\ \A j \in DataOf(t)' : i <= j
  BY DEF CapturedFrom
<1>7. \A i \in DataOf(t) : seen'[i] = seen[i]
  BY <1>1, <1>2
<1>8. CASE ~CarriesData(p, t)
  BY <1>4, <1>5, <1>6, <1>7, <1>8 DEF Pieces, CapturedFrom
<1>9. CASE CarriesData(p, t)
  <2>1. DataOf(t)' = DataOf(t) \cup {n + 1}
    BY <1>4, <1>9
  <2>2. Pieces(t)' = Pieces(t) \cup {PieceOf(p)}
    BY <1>1, <1>5, <1>7, <2>1 DEF Pieces
  <2>3. DataOf(t) = {} => CapturedFrom(t, p.data[1])'
    <3>1. DataOf(t) = {} => DataOf(t)' = {n + 1} /\ n + 1 <= n + 1
      BY <1>1, <2>1
    <3>2. DataOf(t) = {} =>
            \E i \in DataOf(t)' : seen'[i].data[1] = p.data[1] /\ \A j \in DataOf(t)' : i <= j
      BY <1>1, <3>1
    <3> QED BY <3>2 DEF CapturedFrom
  <2>4. \A from : CapturedFrom(t, from) => CapturedFrom(t, from)'
    BY <1>2, <1>6, <1>7, <2>1 DEF CapturedFrom
  <2> QED BY <1>9, <2>2, <2>3, <2>4
<1> QED BY <1>8, <1>9

\* The flow of t, or the one that would be inserted for it.
FlowOf(t) == IF t \in DOMAIN flows THEN flows[t] ELSE FreshFlow

\* What every flow of t knows of its stream: nothing without TCP or without a flow,
\* and nothing when a rule on its headers condemns each packet that has data;
\* otherwise it follows the stream from the byte that was captured first.
OnStream(t) ==
    /\ t \notin DOMAIN flows => DataOf(t) = {}
    /\ t.protocol # "TCP" => FlowOf(t).sni_status = "Pending"
    /\ t \in DOMAIN flows /\ ~flows[t].blocked =>
          ~IpMatchesTuple(t) /\ (PortMatchesTuple(t) => DataOf(t) = {})
    /\ t.protocol = "TCP" /\ ~IpMatchesTuple(t) /\ ~PortMatchesTuple(t) =>
          \E from \in Nat :
              /\ DataOf(t) # {} => CapturedFrom(t, from)
              /\ Follows(t, Isn(t), from, Pieces(t), FlowOf(t))

StreamInv == \A t \in Tuples : OnStream(t)

\* The fields that concern the stream are the same in two flows.
Alike(f, g) ==
    /\ g.sni_status = f.sni_status /\ g.sni = f.sni
    /\ g.reassembler = f.reassembler /\ g.sni_buffer = f.sni_buffer

\* One of them follows its stream as the other does.
LEMMA AlikeFollows ==
    ASSUME NEW t, NEW start, NEW from, NEW pieces, NEW f, NEW g, Alike(f, g),
           Follows(t, start, from, pieces, f)
    PROVE  Follows(t, start, from, pieces, g)
  BY DEF Alike, Follows, Waiting, TruthTold

\* A decision outlives the pieces that come after it.
LEMMA DecisionFollows ==
    ASSUME NEW t, NEW start, NEW from, NEW pieces, NEW piece, NEW f,
           f.sni_status # "Pending", Follows(t, start, from, pieces, f)
    PROVE  Follows(t, start, from, pieces \cup {piece}, f)
  BY DEF Follows

\* Counting the packet changes nothing that concerns the stream.
LEMMA CountedAlike ==
    ASSUME IndInv, NEW p \in Packets
    PROVE  /\ Alike(FlowOf(p.tuple), CountedFlow(p))
           /\ CountedFlow(p).blocked = FlowOf(p.tuple).blocked
           /\ IsFlow(CountedFlow(p))
<1>1. IsFlow(FlowOf(p.tuple))
  BY FreshSound DEF FlowOf, IndInv, FlowsInv, FlowInv, Inspectable
<1>2. CountedFlow(p) = [FlowOf(p.tuple) EXCEPT !.packet_count = @ + 1]
  BY DEF CountedFlow, FlowOf
<1> QED BY <1>1, <1>2 DEF IsFlow, Alike

\* What Decide makes of a flow on its stream.
LEMMA DecidedOnStream ==
    ASSUME IndInv, CauseInv, NEW p \in Packets, Process(p), p.has_ip, NEW g, Handled(p, g),
           OnStream(p.tuple), p.tuple.protocol = "TCP",
           ~IpMatchesTuple(p.tuple), ~PortMatchesTuple(p.tuple)
    PROVE  \E from \in Nat :
              /\ DataOf(p.tuple)' # {} => CapturedFrom(p.tuple, from)'
              /\ Follows(p.tuple, Isn(p.tuple), from, Pieces(p.tuple)', g)
<1> DEFINE t == p.tuple
           f == CountedFlow(p)
           i == Inspected(f, p)
<1>1. PICK from \in Nat :
        /\ DataOf(t) # {} => CapturedFrom(t, from)
        /\ Follows(t, Isn(t), from, Pieces(t), FlowOf(t))
  BY DEF OnStream
<1>2. t \in Tuples /\ FlowInv(t, f) /\ IsReport(CountedReport(p))
      /\ g = Decide(f, CountedReport(p), p).flow
  BY CaptureAssumption, CountedSound DEF Handled
<1>3. IsFlow(f) /\ Follows(t, Isn(t), from, Pieces(t), f)
  BY <1>1, CountedAlike, AlikeFollows
<1>4. ~IpMatches(p) /\ ~PortMatches(p)
  BY DEF IpMatches, PortMatches, IpMatchesTuple, PortMatchesTuple
<1>5. DataOf(t) = {} <=> Pieces(t) = {}
  BY DEF Pieces
<1>6. f.blocked => f.sni_status # "Pending"
  <2> SUFFICES ASSUME f.blocked PROVE f.sni_status # "Pending"
    OBVIOUS
  <2>1. t \in DOMAIN flows /\ flows[t].blocked
    BY CountedSound
  <2>2. flows[t].sni_status = "Found"
    BY <2>1 DEF CauseInv, Cause
  <2> QED BY <2>1, <2>2, CountedSound
<1> HIDE DEF f
<1>7. /\ f.blocked => g = f
      /\ ~f.blocked => Alike(i, g)
  <2>1. /\ f.blocked => g = f
        /\ ~f.blocked =>
              IF i.sni_status = "Found" /\ matchBlockedDomain(Rules, i.sni) # NoName
              THEN CondemnedFor(i, g, Reason("domain", matchBlockedDomain(Rules, i.sni)))
              ELSE g = i
    BY <1>2, <1>4, DecidedFlow
  <2> HIDE DEF i
  <2> QED BY <2>1 DEF Alike, CondemnedFor
<1>8. CASE f.sni_status # "Pending"
  <2>1. i = f
    BY <1>8 DEF Inspected, Inspects
  <2>2. Alike(f, g)
    BY <1>7, <2>1 DEF Alike
  <2>3. Follows(t, Isn(t), from, Pieces(t), f) /\ Pieces(t) # {}
    BY <1>3, <1>8 DEF Follows
  <2>4. Follows(t, Isn(t), from, Pieces(t)', f)
    <3>1. CASE CarriesData(p, t)
      <4> DEFINE more == Pieces(t) \cup {PieceOf(p)}
      <4>1. Follows(t, Isn(t), from, more, f)
        BY <1>8, <2>3, DecisionFollows
      <4>2. Pieces(t)' = more
        BY <3>1, CaptureGrows
      <4> HIDE DEF more
      <4> QED BY <4>1, <4>2
    <3>2. CASE ~CarriesData(p, t)
      BY <2>3, <3>2, CaptureGrows
    <3> QED BY <3>1, <3>2
  <2>5. CapturedFrom(t, from)'
    BY <1>1, <1>5, <2>3, CaptureGrows
  <2>6. Follows(t, Isn(t), from, Pieces(t)', g)
    BY <2>2, <2>4, AlikeFollows
  <2> QED BY <2>5, <2>6
<1>9. CASE f.sni_status = "Pending" /\ ~p.has_l4
  <2>1. i = f
    BY <1>9 DEF Inspected, Inspects
  <2>2. Alike(f, g)
    BY <1>7, <2>1 DEF Alike
  <2>3. ~CarriesData(p, t)
    BY <1>9 DEF CarriesData
  <2>4. Follows(t, Isn(t), from, Pieces(t)', g)
    BY <1>3, <2>2, <2>3, CaptureGrows, AlikeFollows
  <2> QED BY <1>1, <2>3, <2>4, CaptureGrows
<1>10. CASE f.sni_status = "Pending" /\ p.has_l4
  <2>1. Inspects(f, p) /\ Waiting(t, Isn(t), from, Pieces(t), f)
    BY <1>3, <1>10 DEF Inspects, Follows
  <2>2. Alike(i, g)
    BY <1>6, <1>7, <1>10
  <2>3. PICK lo \in Nat, hi \in Nat :
          /\ lo <= hi /\ hi < Half
          /\ p.seq = (Isn(t) + lo) % SeqModulus
          /\ p.data = Bytes(lo, hi)
          /\ lo = hi <=> p.data = <<>>
          /\ lo < hi => PieceOf(p) = <<lo, hi>> /\ p.data[1] = lo
    BY <1>10, PacketIsPiece
  <2>4. Isn(t) \in SeqNumbers
    BY <1>10, PacketIsPiece
  <2> HIDE DEF i
  <2>5. /\ lo = hi => Follows(t, Isn(t), from, Pieces(t), i)
        /\ lo < hi => Follows(t, Isn(t), IF Pieces(t) = {} THEN lo ELSE from,
                              Pieces(t) \cup {<<lo, hi>>}, i)
    BY <1>2, <1>3, <2>1, <2>3, <2>4, SegmentFollows DEF i
  <2>6. CASE lo = hi
    <3>1. ~CarriesData(p, t)
      BY <2>3, <2>6 DEF CarriesData
    <3>2. Follows(t, Isn(t), from, Pieces(t)', g)
      BY <2>2, <2>5, <2>6, <3>1, CaptureGrows, AlikeFollows
    <3> QED BY <1>1, <3>1, <3>2, CaptureGrows
  <2>7. CASE lo < hi
    <3>1. CarriesData(p, t)
      BY <1>10, <2>3, <2>7 DEF CarriesData
    <3>2. Pieces(t)' = Pieces(t) \cup {<<lo, hi>>}
      BY <2>3, <2>7, <3>1, CaptureGrows
    <3>3. PICK first \in Nat : first = IF Pieces(t) = {} THEN lo ELSE from
      OBVIOUS
    <3>4. CapturedFrom(t, first)'
      BY <1>1, <1>5, <2>3, <2>7, <3>1, <3>3, CaptureGrows
    <3>5. Follows(t, Isn(t), first, Pieces(t)', i)
      BY <2>5, <2>7, <3>2, <3>3
    <3>6. Follows(t, Isn(t), first, Pieces(t)', g)
      BY <2>2, <3>5, AlikeFollows
    <3> QED BY <3>4, <3>6
  <2> QED BY <2>3, <2>6, <2>7
<1> QED BY <1>8, <1>9, <1>10

\* Every packet keeps every flow on its stream.
LEMMA StreamNext == IndInv /\ CauseInv /\ StreamInv /\ [Next]_vars => StreamInv'
<1> SUFFICES ASSUME IndInv, CauseInv, StreamInv, [Next]_vars PROVE StreamInv'
  OBVIOUS
<1>1. CASE UNCHANGED vars
  BY <1>1 DEF vars, StreamInv, OnStream, FlowOf, DataOf, Pieces, CapturedFrom, flows
<1>2. ASSUME NEW p \in Packets, Process(p), NEW u \in Tuples PROVE OnStream(u)'
  <2>1. OnStream(u)
    BY DEF StreamInv
  <2>2. ASSUME ~CarriesData(p, u), u \in DOMAIN flows <=> u \in DOMAIN flows',
               FlowOf(u)' = FlowOf(u)
        PROVE  OnStream(u)'
    <3>1. /\ DataOf(u)' = DataOf(u) /\ Pieces(u)' = Pieces(u)
          /\ \A from : CapturedFrom(u, from) => CapturedFrom(u, from)'
      BY <1>2, <2>2, CaptureGrows
    <3>2. u \in DOMAIN flows => flows'[u] = flows[u]
      BY <2>2 DEF FlowOf
    <3> QED BY <2>1, <2>2, <3>1, <3>2 DEF OnStream
  <2>3. CASE ~p.has_ip
    <3>1. ~CarriesData(p, u) /\ flows' = flows
      BY <1>2, <2>3, StepOutcome DEF CarriesData
    <3> QED BY <2>2, <3>1 DEF FlowOf
  <2>4. CASE p.has_ip
    <3>1. PICK g : Handled(p, g)
      BY <1>2, <2>4, StepOutcome
    <3>2. CASE u # p.tuple
      <4>1. ~CarriesData(p, u)
        BY <3>2 DEF CarriesData
      <4>2. u \in DOMAIN flows <=> u \in DOMAIN flows'
        BY <3>1, <3>2 DEF Handled
      <4>3. FlowOf(u)' = FlowOf(u)
        BY <3>1, <3>2, <4>2 DEF Handled, FlowOf
      <4> QED BY <2>2, <4>1, <4>2, <4>3
    <3>3. CASE u = p.tuple
      <4> DEFINE f == CountedFlow(p)
                 i == Inspected(f, p)
      <4>1. u \in DOMAIN flows' /\ flows'[u] = g /\ FlowOf(u)' = g
        BY <3>1, <3>3 DEF Handled, FlowOf
      <4>2. FlowInv(u, f) /\ IsReport(CountedReport(p)) /\ g = Decide(f, CountedReport(p), p).flow
        BY <3>1, <3>3, CountedSound DEF Handled
      <4>3. Alike(FlowOf(u), f) /\ f.blocked = FlowOf(u).blocked
        BY <3>3, CountedAlike
      <4> HIDE DEF f
      <4>4. /\ f.blocked => g = f
            /\ ~f.blocked /\ IpMatches(p) => CondemnedFor(f, g, IpRule)
            /\ ~f.blocked /\ ~IpMatches(p) /\ PortMatches(p) => CondemnedFor(f, g, PortRule)
            /\ ~f.blocked /\ ~IpMatches(p) /\ ~PortMatches(p) =>
                  /\ Inspectable(u, i) /\ ~i.blocked
                  /\ IF i.sni_status = "Found" /\ matchBlockedDomain(Rules, i.sni) # NoName
                     THEN CondemnedFor(i, g, Reason("domain", matchBlockedDomain(Rules, i.sni)))
                     ELSE g = i
        BY <3>3, <4>2, DecidedFlow
      <4>5. u.protocol # "TCP" => g.sni_status = "Pending"
        <5> SUFFICES ASSUME u.protocol # "TCP" PROVE g.sni_status = "Pending"
          OBVIOUS
        <5>1. f.sni_status = "Pending" /\ i = f
          BY <2>1, <3>3, <4>3 DEF OnStream, Alike, Inspected, Inspects
        <5> QED BY <4>4, <5>1 DEF CondemnedFor
      <4>6. ASSUME ~g.blocked PROVE ~IpMatchesTuple(u) /\ (PortMatchesTuple(u) => DataOf(u)' = {})
        <5>1. ~f.blocked /\ ~IpMatches(p) /\ ~PortMatches(p)
          BY <4>4, <4>6 DEF CondemnedFor
        <5>2. ~IpMatchesTuple(u)
          BY <3>3, <5>1 DEF IpMatches, IpMatchesTuple
        <5>3. PortMatchesTuple(u) => ~CarriesData(p, u)
          BY <3>3, <5>1 DEF PortMatches, PortMatchesTuple, CarriesData
        <5>4. PortMatchesTuple(u) => DataOf(u) = {}
          BY <2>1, <4>3, <5>1 DEF OnStream, FlowOf
        <5>5. PortMatchesTuple(u) => DataOf(u)' = {}
          BY <1>2, <5>3, <5>4, CaptureGrows
        <5> QED BY <5>2, <5>5
      <4>7. ASSUME u.protocol = "TCP", ~IpMatchesTuple(u), ~PortMatchesTuple(u)
            PROVE  \E from \in Nat :
                      /\ DataOf(u)' # {} => CapturedFrom(u, from)'
                      /\ Follows(u, Isn(u), from, Pieces(u)', g)
        BY <1>2, <2>1, <2>4, <3>1, <3>3, <4>7, DecidedOnStream
      <4> QED BY <4>1, <4>5, <4>6, <4>7 DEF OnStream
    <3> QED BY <3>2, <3>3
  <2> QED BY <2>3, <2>4
<1> QED BY <1>1, <1>2 DEF Next, StreamInv

\* Nothing has been given to a flow at first.
LEMMA StreamInit == Init => StreamInv
<1> SUFFICES ASSUME Init, NEW t \in Tuples PROVE OnStream(t)
  BY DEF StreamInv
<1>1. DOMAIN flows = {} /\ DOMAIN seen = {}
  BY DEF Init, NewEngine, flows
<1>2. DataOf(t) = {} /\ Pieces(t) = {}
  BY <1>1 DEF DataOf, Pieces
<1>3. FlowOf(t) = FreshFlow
  BY <1>1 DEF FlowOf
<1>4. Follows(t, Isn(t), 0, Pieces(t), FreshFlow) /\ FreshFlow.sni_status = "Pending"
  BY <1>2 DEF Follows, Waiting, FreshFlow
<1>5. 0 \in Nat
  OBVIOUS
<1> QED BY <1>1, <1>2, <1>3, <1>4, <1>5 DEF OnStream

\* The flows are on their streams throughout.
LEMMA StreamInvariance == Spec => []StreamInv
  BY StreamInit, StreamNext, CauseInvariance, EngineInvariance, PTL DEF Spec

\* There is one first byte.
LEMMA OneFirstByte ==
    ASSUME IndInv, NEW t, NEW a, NEW b, CapturedFrom(t, a), CapturedFrom(t, b)
    PROVE  a = b
<1>1. \A i \in DataOf(t) : i \in Nat
  BY DEF IndInv, DataOf
<1>2. PICK i \in DataOf(t) : seen[i].data[1] = a /\ \A j \in DataOf(t) : i <= j
  BY DEF CapturedFrom
<1>3. PICK j \in DataOf(t) : seen[j].data[1] = b /\ \A k \in DataOf(t) : j <= k
  BY DEF CapturedFrom
<1>4. i = j
  BY <1>1, <1>2, <1>3
<1> QED BY <1>2, <1>3, <1>4

\* A flow on its stream that has decided tells the truth about it.
LEMMA VerdictsFollow == IndInv /\ StreamInv => VerdictIsTrue
<1> SUFFICES ASSUME IndInv, StreamInv, NEW t \in DOMAIN flows, FromFirstByte(t)
             PROVE  /\ flows[t].sni_status \in {"Pending", "GaveUp", Truth(t)}
                    /\ flows[t].sni_status = "Found" => flows[t].sni = Streams[t][0].sni
                    /\ flows[t].sni_status = "GaveUp" =>
                          RecordEnd(t) > MAX_REASSEMBLY_BYTES + 1
  BY DEF VerdictIsTrue
<1>1. t \in Tuples /\ FlowInv(t, flows[t]) /\ OnStream(t) /\ FlowOf(t) = flows[t]
  BY DEF IndInv, FlowsInv, StreamInv, FlowOf
<1>2. CASE flows[t].sni_status = "Pending"
  BY <1>2
<1>3. CASE flows[t].sni_status # "Pending"
  <2>1. t.protocol = "TCP" /\ ~IpMatchesTuple(t) /\ ~PortMatchesTuple(t)
    BY <1>1, <1>3 DEF FlowInv, Inspectable, OnStream
  <2>2. PICK from \in Nat :
          /\ DataOf(t) # {} => CapturedFrom(t, from)
          /\ Follows(t, Isn(t), from, Pieces(t), flows[t])
    BY <1>1, <2>1 DEF OnStream
  <2>3. DataOf(t) # {} /\ TruthTold(t, from, flows[t])
    BY <1>3, <2>2 DEF Follows, Pieces
  <2>4. CapturedFrom(t, 0)
    BY <2>3 DEF FromFirstByte, CapturedFrom
  <2>5. from = 0
    BY <2>2, <2>3, <2>4, OneFirstByte
  <2> QED BY <1>3, <2>3, <2>5 DEF TruthTold
<1> QED BY <1>2, <1>3

\* However the segments of a direction are cut, lost, repeated and reordered after
\* its first byte, what the engine decides is what the whole record says; it gives up
\* only on a record that does not fit under the cap (dpi_engine.cpp:144-190).
THEOREM VerdictsTrue == Spec => []VerdictIsTrue
  BY VerdictsFollow, StreamInvariance, EngineInvariance, PTL

\* A packet that carries data of a TCP direction is a piece at its sequence number,
\* with every byte of the piece.
LEMMA DataIsPiece ==
    ASSUME IndInv, NEW t \in Tuples, t.protocol = "TCP", NEW i \in DataOf(t)
    PROVE  /\ Isn(t) \in SeqNumbers
           /\ \E lo, hi \in Nat :
                 /\ lo < hi /\ hi < Half
                 /\ seen[i].seq = (Isn(t) + lo) % SeqModulus
                 /\ seen[i].data[1] = lo
                 /\ PieceOf(seen[i]) = <<lo, hi>>
                 /\ ToSet(seen[i].data) = lo..(hi - 1)
<1>1. seen[i] \in Packets /\ CarriesData(seen[i], t)
  BY DEF IndInv, DataOf
<1>2. /\ seen[i].has_ip /\ seen[i].has_l4 /\ seen[i].tuple = t /\ seen[i].data # <<>>
  BY <1>1 DEF CarriesData
<1>3. Isn(t) \in SeqNumbers
  BY <1>1, <1>2, PacketIsPiece
<1>4. PICK lo \in Nat, hi \in Nat :
        /\ lo <= hi /\ hi < Half
        /\ seen[i].seq = (Isn(t) + lo) % SeqModulus
        /\ seen[i].data = Bytes(lo, hi)
        /\ lo = hi <=> seen[i].data = <<>>
        /\ lo < hi => PieceOf(seen[i]) = <<lo, hi>> /\ seen[i].data[1] = lo
  BY <1>1, <1>2, PacketIsPiece
<1>5. lo < hi
  BY <1>2, <1>4
<1>6. ToSet(Bytes(lo, hi)) = lo..(hi - 1)
  <2>1. ToSet(Bytes(lo, hi)) = {Bytes(lo, hi)[k] : k \in 1..(hi - lo)}
    BY DEF ToSet, Bytes
  <2>2. \A k \in 1..(hi - lo) : Bytes(lo, hi)[k] = lo + k - 1
    BY DEF Bytes
  <2>3. \A c \in lo..(hi - 1) : c - lo + 1 \in 1..(hi - lo) /\ c = lo + (c - lo + 1) - 1
    OBVIOUS
  <2>4. \A k \in 1..(hi - lo) : lo + k - 1 \in lo..(hi - 1)
    OBVIOUS
  <2> HIDE DEF Bytes
  <2> QED BY <2>1, <2>2, <2>3, <2>4
<1> QED BY <1>3, <1>4, <1>5, <1>6

\* A capture in which retransmissions are cut alike has pieces that are apart, and
\* without a wrap between them they are in order.
LEMMA CapturedPieces ==
    ASSUME IndInv, NEW t \in Tuples, t.protocol = "TCP"
    PROVE  /\ CutAlike(t) => PiecesApart(Pieces(t))
           /\ Unwrapped(t) => InOrder(Isn(t), Pieces(t))
<1> SUFFICES ASSUME NEW i \in DataOf(t), NEW j \in DataOf(t)
             PROVE  LET s == PieceOf(seen[i])
                        u == PieceOf(seen[j])
                    IN  /\ CutAlike(t) => s = u \/ s[2] <= u[1] \/ u[2] <= s[1]
                        /\ Unwrapped(t) /\ s[1] < u[1] =>
                              (Isn(t) + s[1]) % SeqModulus < (Isn(t) + u[1]) % SeqModulus
  BY DEF PiecesApart, InOrder, Pieces
<1>1. PICK lo \in Nat, hi \in Nat :
        /\ lo < hi /\ hi < Half
        /\ seen[i].seq = (Isn(t) + lo) % SeqModulus
        /\ seen[i].data[1] = lo
        /\ PieceOf(seen[i]) = <<lo, hi>>
        /\ ToSet(seen[i].data) = lo..(hi - 1)
  BY DataIsPiece
<1>2. PICK low \in Nat, high \in Nat :
        /\ low < high /\ high < Half
        /\ seen[j].seq = (Isn(t) + low) % SeqModulus
        /\ seen[j].data[1] = low
        /\ PieceOf(seen[j]) = <<low, high>>
        /\ ToSet(seen[j].data) = low..(high - 1)
  BY DataIsPiece
<1>3. ASSUME CutAlike(t) PROVE PieceOf(seen[i]) = PieceOf(seen[j]) \/ hi <= low \/ high <= lo
  <2>1. CASE seen[i] = seen[j]
    BY <2>1
  <2>2. CASE (lo..(hi - 1)) \cap (low..(high - 1)) = {}
    <3>1. lo \in lo..(hi - 1) /\ low \in low..(high - 1)
      BY <1>1, <1>2
    <3>2. \A c : ~(c \in lo..(hi - 1) /\ c \in low..(high - 1))
      BY <2>2
    <3>3. lo \notin low..(high - 1) /\ low \notin lo..(hi - 1)
      BY <3>1, <3>2
    <3> QED BY <1>1, <1>2, <3>3
  <2> QED BY <1>1, <1>2, <1>3, <2>1, <2>2 DEF CutAlike
<1>4. ASSUME Unwrapped(t), lo < low PROVE seen[i].seq < seen[j].seq
  BY <1>1, <1>2, <1>4 DEF Unwrapped
<1> QED BY <1>1, <1>2, <1>3, <1>4

\* A flow that waits on a record captured from its first byte on has not been given
\* every byte of it.
LEMMA WaitsForSome ==
    ASSUME NEW t \in Tuples, NEW start \in SeqNumbers, NEW pieces, pieces # {},
           NEW f, Waiting(t, start, 0, pieces, f),
           PiecesApart(pieces), InOrder(start, pieces),
           RECORD_HEADER_LEN <= RecordEnd(t)
    PROVE  \E c \in 0..(RecordEnd(t) - 1) :
              \A s \in pieces : ~(s[1] <= c /\ c < s[2])
<1> DEFINE h == f.reassembler
           c == Len(f.sni_buffer)
<1>1. /\ Reassembling(start, 0, pieces, h, f.sni_buffer)
      /\ Drained(start, pieces, h)
      /\ f.sni_buffer # <<>>
      /\ tryExtractSni(t, f.sni_buffer) = "Incomplete"
  BY DEF Waiting
<1>2. /\ f.sni_buffer \in Seq(Nat)
      /\ \A i \in 1..Len(f.sni_buffer) : f.sni_buffer[i] = 0 + i - 1
      /\ HasPieces(start, pieces, h)
      /\ Pullable(start, h, Nat)
      /\ Off(start, h.next_seq) = 0 + c
  BY <1>1 DEF Reassembling
<1>3. c \in Nat /\ c < RecordEnd(t)
  <2>1. c \in Nat
    BY <1>2, LenProperties
  <2>2. c < RecordEnd(t)
    BY <1>1, <1>2, ParserTells
  <2> QED BY <2>1, <2>2
<1>4. c \in 0..(RecordEnd(t) - 1)
  BY <1>3, RecordEndIs
<1>5. /\ h.next_seq \in SeqNumbers
      /\ DOMAIN h.pending \subseteq SeqNumbers
      /\ \A seq \in DOMAIN h.pending : Off(start, h.next_seq) <= Off(start, seq)
  BY <1>2 DEF Pullable, IsReassembler
<1>6. /\ pieces \subseteq {s \in Nat \X Nat : s[1] < s[2] /\ s[2] < Half}
      /\ \A s \in pieces : s[2] <= Off(start, h.next_seq)
                           \/ (start + s[1]) % SeqModulus \in DOMAIN h.pending
  BY <1>2 DEF HasPieces, NoPieceLost
<1>7. h.next_seq \notin DOMAIN h.pending
  BY <1>1 DEF Drained
<1> HIDE DEF h, c
<1>8. Off(start, h.next_seq) = c
  BY <1>2, <1>3
<1>9. ASSUME NEW s \in pieces, s[1] <= c, c < s[2] PROVE FALSE
  <2>1. s[1] \in Nat /\ s[2] \in Nat /\ s[2] < Half /\ s[1] < s[2]
    BY <1>6
  <2> DEFINE key == (start + s[1]) % SeqModulus
  <2>2. key \in DOMAIN h.pending
    BY <1>3, <1>6, <1>8, <1>9, <2>1
  <2>3. Off(start, key) = s[1]
    BY <2>1, HalfFacts, SeqOfOffset
  <2> HIDE DEF key
  <2>4. c <= s[1]
    BY <1>5, <1>8, <2>2, <2>3
  <2>5. s[1] = c
    BY <1>3, <1>9, <2>1, <2>4
  <2>6. h.next_seq = key
    BY <1>5, <1>8, <2>5, OffNames DEF key
  <2> QED BY <1>7, <2>2, <2>6
<1> QED BY <1>4, <1>9

\* A flow on its stream that still waits lacks a byte of the record.
LEMMA RecordsFollow == IndInv /\ CauseInv /\ StreamInv => NoRecordMissed
<1> SUFFICES ASSUME IndInv, CauseInv, StreamInv, NEW t \in DOMAIN flows,
                    FromFirstByte(t), CutAlike(t), Unwrapped(t), t.protocol = "TCP",
                    flows[t].block_reason \notin {IpRule, PortRule},
                    RecordEnd(t) >= RECORD_HEADER_LEN,
                    0..(RecordEnd(t) - 1) \subseteq Captured(t),
                    flows[t].sni_status = "Pending"
             PROVE  FALSE
  BY DEF NoRecordMissed
<1>1. t \in Tuples /\ OnStream(t) /\ FlowOf(t) = flows[t] /\ Cause(t, flows[t])
  BY DEF IndInv, FlowsInv, StreamInv, CauseInv, FlowOf
<1>2. /\ RECORD_HEADER_LEN \in Nat \ {0} /\ RecordEnd(t) \in Nat
      /\ RECORD_HEADER_LEN <= RecordEnd(t)
  BY <1>1, InspectionAssumption, RecordEndIs
<1>3. \A c \in 0..(RecordEnd(t) - 1) : \E i \in DataOf(t) : c \in ToSet(seen[i].data)
  BY DEF Captured
<1>4. DataOf(t) # {}
  <2>1. 0 \in 0..(RecordEnd(t) - 1)
    BY <1>2
  <2> QED BY <1>3, <2>1
<1>5. ~flows[t].blocked
  BY <1>1 DEF Cause
<1>6. ~IpMatchesTuple(t) /\ ~PortMatchesTuple(t)
  BY <1>1, <1>4, <1>5 DEF OnStream
<1>7. PICK from \in Nat :
        /\ DataOf(t) # {} => CapturedFrom(t, from)
        /\ Follows(t, Isn(t), from, Pieces(t), flows[t])
  BY <1>1, <1>6 DEF OnStream
<1>8. from = 0
  <2>1. CapturedFrom(t, 0)
    BY <1>4 DEF FromFirstByte, CapturedFrom
  <2> QED BY <1>4, <1>7, <2>1, OneFirstByte
<1>9. Waiting(t, Isn(t), 0, Pieces(t), flows[t])
  BY <1>7, <1>8 DEF Follows
<1>10. Pieces(t) # {} /\ Isn(t) \in SeqNumbers
  BY <1>1, <1>4, DataIsPiece DEF Pieces
<1>11. PiecesApart(Pieces(t)) /\ InOrder(Isn(t), Pieces(t))
  BY <1>1, CapturedPieces
<1>12. PICK c \in 0..(RecordEnd(t) - 1) :
         \A s \in Pieces(t) : ~(s[1] <= c /\ c < s[2])
  BY <1>1, <1>2, <1>9, <1>10, <1>11, WaitsForSome
<1>13. PICK i \in DataOf(t) : c \in ToSet(seen[i].data)
  BY <1>3
<1>14. PICK lo \in Nat, hi \in Nat :
         PieceOf(seen[i]) = <<lo, hi>> /\ ToSet(seen[i].data) = lo..(hi - 1)
  BY <1>1, DataIsPiece
<1>15. <<lo, hi>> \in Pieces(t)
  BY <1>14 DEF Pieces
<1>16. lo <= c /\ c < hi
  BY <1>2, <1>13, <1>14
<1> QED BY <1>12, <1>15, <1>16

\* Once every byte of a record has been captured the engine has decided, in whatever
\* order its segments came after the first byte, unless a retransmission is cut
\* differently or the sequence numbers wrap around (dpi_engine.cpp:128-142,
\* tcp_reassembler.cpp).
THEOREM RecordsDecided == Spec => []NoRecordMissed
  BY RecordsFollow, CauseInvariance, StreamInvariance, EngineInvariance, PTL

-----------------------------------------------------------------------------
(***************************************************************************)
(* All of it in one invariant, for whoever runs this engine as a part of   *)
(* something else.                                                         *)
(***************************************************************************)
EngineInv == IndInv /\ CountsInv /\ CauseInv /\ StreamInv

\* A new engine satisfies it.
LEMMA EngineInit == Init => EngineInv
  BY InitInv, CountsInit, CauseInit, StreamInit DEF EngineInv

\* Every packet preserves it.
LEMMA EngineNext == EngineInv /\ [Next]_vars => EngineInv'
  BY NextInv, CountsNext, CauseNext, StreamNext DEF EngineInv

\* It is what the theorems say of the report, the rules and the streams.
LEMMA EngineFollows ==
    EngineInv => /\ ReportAgrees /\ BufferCapped /\ RulesComeFirst
                 /\ NameIsJudged /\ VerdictIsTrue /\ NoRecordMissed
  BY ReportFollows, CapsFollow, RulesFollow, NamesFollow, VerdictsFollow, RecordsFollow DEF EngineInv
=============================================================================
