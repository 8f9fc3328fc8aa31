--------------------------- MODULE FlowDpiProofs ---------------------------
(***************************************************************************)
(* Proofs about FlowDpi and the PacketParser it runs on every frame, for   *)
(* any files, frames and command lines, frames of any length with any      *)
(* values in their headers, any length of a live capture and any number of *)
(* signals.                                                                *)
(***************************************************************************)
EXTENDS FlowDpi, FiniteSetTheorems, SequenceTheorems, TLAPS

-----------------------------------------------------------------------------
(* PacketParser, one frame at a time.                                      *)

\* The packet once parseIPv4 has filled in all it knows.
IpPacket(f) ==
    [FreshPacket EXCEPT !.has_ip = TRUE, !.protocol = f.protocol,
                        !.src_ip = f.src_ip, !.dst_ip = f.dst_ip]

\* Frame f was parsed into q without leaving it, and q has the addresses of f
\* and the ports of f or none.
Sound(f, q, upto) ==
    /\ upto <= f.len
    /\ q.payload + q.payload_len <= f.len
    /\ q.has_ip = TRUE
    /\ q.src_ip = f.src_ip /\ q.dst_ip = f.dst_ip
    /\ q.src_port # 0 => q.src_port = f.src_port /\ q.dst_port = f.dst_port
    /\ q.payload_len > 0 => q.has_l4 = TRUE \/ f.protocol = "UNKNOWN"

\* A UDP payload has a length, and it ends within the frame.
LEMMA UdpPayload ==
    ASSUME NEW f \in Frames, NEW offset \in Nat, ~(offset + 8 > f.len)
    PROVE  parseUDP(f, IpPacket(f), offset).ok = TRUE =>
             Sound(f, parseUDP(f, IpPacket(f), offset).out, offset + 6)
<1>. DEFINE declared == IF f.udp_len >= 8 THEN f.udp_len - 8 ELSE 0
            available == f.len - (offset + 8)
            len == IF declared <= available THEN declared ELSE available
            full == [IpPacket(f) EXCEPT !.src_port = f.src_port, !.dst_port = f.dst_port,
                                        !.has_l4 = TRUE, !.payload = offset + 8, !.payload_len = len]
<1>1. len \in Nat /\ offset + 8 + len <= f.len /\ f.len \in Nat
  BY FramesAssumption
<1>2. parseUDP(f, IpPacket(f), offset) = Result(TRUE, full, offset + 6)
  BY DEF parseUDP
<1>3. Sound(f, full, offset + 6)
  <2>. HIDE DEF len
  <2>. QED
    BY <1>1 DEF IpPacket, FreshPacket, Sound
<1>. QED
  BY <1>2, <1>3 DEF Result

\* The transport parsers stay within the frame, touch no address, and leave
\* ports that are the frame's or none.
LEMMA TransportSound ==
    ASSUME NEW f \in Frames, NEW offset \in Nat, offset <= f.len
    PROVE  Sound(f, ParseTransport(f, IpPacket(f), offset).out,
                 ParseTransport(f, IpPacket(f), offset).touched)
<1>. DEFINE r == ParseTransport(f, IpPacket(f), offset)
<1>1. /\ f.len \in Nat /\ f.data_offset \in 0..15
      /\ f.protocol \in {"TCP", "UDP", "UNKNOWN"}
  BY FramesAssumption
<1>5. Sound(f, IpPacket(f), offset)
  BY <1>1 DEF Sound, IpPacket, FreshPacket, NoPayload
<1>2. CASE f.protocol = "TCP"
  <2>1. r = parseTCP(f, IpPacket(f), offset)
    BY <1>2 DEF ParseTransport
  <2>2. CASE offset + 20 > f.len
    BY <1>5, <2>1, <2>2 DEF parseTCP, Result
  <2>3. CASE ~(offset + 20 > f.len)
    <3>. DEFINE ports == [IpPacket(f) EXCEPT !.src_port = f.src_port, !.dst_port = f.dst_port,
                                             !.seq = f.seq]
                payload == offset + 4 * f.data_offset
                full == [ports EXCEPT !.has_l4 = TRUE, !.payload = payload,
                                      !.payload_len = f.len - payload]
    <3>1. Sound(f, ports, offset + 14)
      BY <1>1, <2>3 DEF IpPacket, FreshPacket, NoPayload, Sound
    <3>2. CASE f.data_offset < 5 \/ payload > f.len
      <4>1. r = Result(FALSE, ports, offset + 14)
        BY <2>1, <2>3, <3>2 DEF parseTCP, TcpHeaderEnd
      <4>. QED
        BY <3>1, <4>1 DEF Result
    <3>3. CASE ~(f.data_offset < 5 \/ payload > f.len)
      <4>1. r = Result(TRUE, full, offset + 14)
        BY <2>1, <2>3, <3>3 DEF parseTCP, TcpHeaderEnd
      <4>2. payload \in Nat /\ f.len - payload \in Nat /\ payload + (f.len - payload) = f.len
        BY <1>1, <3>3
      <4>3. Sound(f, full, offset + 14)
        <5>. HIDE DEF payload
        <5>. QED
          BY <1>1, <2>3, <4>2 DEF IpPacket, FreshPacket, Sound
      <4>. QED
        BY <4>1, <4>3 DEF Result
    <3>. QED
      BY <3>2, <3>3
  <2>. QED
    BY <2>2, <2>3
<1>3. CASE f.protocol = "UDP"
  <2>1. r = parseUDP(f, IpPacket(f), offset)
    BY <1>3 DEF ParseTransport
  <2>2. CASE offset + 8 > f.len
    BY <1>5, <2>1, <2>2 DEF parseUDP, Result
  <2>3. CASE ~(offset + 8 > f.len)
    <3>1. r.ok = TRUE /\ r.touched = offset + 6
      BY <2>1, <2>3 DEF parseUDP, Result
    <3>. QED
      BY <2>1, <2>3, <3>1, UdpPayload
  <2>. QED
    BY <2>2, <2>3
<1>4. CASE f.protocol = "UNKNOWN"
  <2>. DEFINE whole == [IpPacket(f) EXCEPT !.payload = offset, !.payload_len = f.len - offset]
  <2>1. r = Result(TRUE, whole, offset)
    BY <1>4 DEF ParseTransport
  <2>2. Sound(f, whole, offset)
    BY <1>1, <1>4 DEF IpPacket, FreshPacket, Sound
  <2>. QED
    BY <2>1, <2>2 DEF Result
<1>. QED
  BY <1>1, <1>2, <1>3, <1>4

\* A frame without a sound IPv4 header leaves nothing in the packet; any other
\* is passed to the transport parsers, its header behind it.
LEMMA IpOutcome ==
    ASSUME NEW f \in Frames
    PROVE  \/ parse(f).out = FreshPacket /\ parse(f).touched <= f.len
           \/ Sound(f, parse(f).out, parse(f).touched)
<1>. DEFINE ip == parseIPv4(f, FreshPacket, ETH_HEADER_LEN)
            end == ETH_HEADER_LEN + 4 * f.ihl
<1>1. f.len \in Nat /\ f.ihl \in 0..15 /\ f.ipv4 \in BOOLEAN
  BY FramesAssumption
<1>2. CASE f.len < ETH_HEADER_LEN
  <2>1. parse(f) = Result(FALSE, FreshPacket, 0)
    BY <1>2 DEF parse, ParseInto
  <2>. QED
    BY <1>1, <2>1 DEF Result
<1>3. CASE ~(f.len < ETH_HEADER_LEN) /\ ~f.ipv4
  <2>1. parse(f) = Result(TRUE, FreshPacket, ETH_HEADER_LEN)
    BY <1>3 DEF parse, ParseInto
  <2>. QED
    BY <1>1, <1>3, <2>1 DEF Result, ETH_HEADER_LEN
<1>4. CASE ~(f.len < ETH_HEADER_LEN) /\ f.ipv4 /\ ~ip.ok
  <2>1. parse(f) = ip
    BY <1>4 DEF parse, ParseInto
  <2>2. ip.out = FreshPacket /\ ip.touched <= f.len
    BY <1>1, <1>4 DEF parseIPv4, Result, ETH_HEADER_LEN
  <2>. QED
    BY <2>1, <2>2
<1>5. CASE ~(f.len < ETH_HEADER_LEN) /\ f.ipv4 /\ ip.ok
  <2>1. end \in Nat /\ end <= f.len
    BY <1>1, <1>5 DEF parseIPv4, Result, ETH_HEADER_LEN
  <2>2. ip.out = IpPacket(f)
    BY <1>1, <1>5 DEF parseIPv4, Result, ETH_HEADER_LEN, IpPacket
  <2>3. parse(f) = [ParseTransport(f, IpPacket(f), end) EXCEPT !.ok = TRUE]
    BY <1>5, <2>2 DEF parse, ParseInto
  <2>. QED
    BY <2>1, <2>2, <2>3, TransportSound
<1>. QED
  BY <1>1, <1>2, <1>3, <1>4, <1>5

-----------------------------------------------------------------------------
\* However long a frame is and whatever its headers claim, parse touches no
\* byte beyond it and the payload it hands on ends within it.
THEOREM ParserStaysInBounds == Spec => []InBounds
<1>1. Init => InBounds
  BY DEF Init, InBounds, NoFrame, FreshPacket, NoPayload
<1>2. InBounds /\ [Next]_vars => InBounds'
  <2>. SUFFICES ASSUME InBounds, [Next]_vars PROVE InBounds'
    OBVIOUS
  <2>1. ASSUME NEW f \in Frames, Parse(f) PROVE InBounds'
    <3>1. CASE parse(f).out = FreshPacket /\ parse(f).touched <= f.len
      BY <2>1, <3>1, FramesAssumption DEF Parse, InBounds, FreshPacket, NoPayload
    <3>2. CASE Sound(f, parse(f).out, parse(f).touched)
      BY <2>1, <3>2 DEF Parse, InBounds, Sound
    <3>. QED
      BY <3>1, <3>2, IpOutcome
  <2>2. CASE UNCHANGED vars
    BY <2>2 DEF vars, InBounds
  <2>. QED
    BY <2>1, <2>2 DEF Next
<1>. QED
  BY <1>1, <1>2, PTL DEF Spec

\* The addresses and ports a packet is booked under are those of its own frame,
\* never what an earlier frame left in the ParsedPacket.
THEOREM NothingCarriedOver == Spec => []NothingStale
<1>1. Init => NothingStale
  BY DEF Init, NothingStale, NoFrame, FreshPacket, NoPayload
<1>2. NothingStale /\ [Next]_vars => NothingStale'
  <2>. SUFFICES ASSUME NothingStale, [Next]_vars PROVE NothingStale'
    OBVIOUS
  <2>1. ASSUME NEW f \in Frames, Parse(f) PROVE NothingStale'
    <3>1. CASE parse(f).out = FreshPacket /\ parse(f).touched <= f.len
      BY <2>1, <3>1 DEF Parse, NothingStale, FreshPacket, NoPayload
    <3>2. CASE Sound(f, parse(f).out, parse(f).touched)
      BY <2>1, <3>2 DEF Parse, NothingStale, Sound
    <3>. QED
      BY <3>1, <3>2, IpOutcome
  <2>2. CASE UNCHANGED vars
    BY <2>2 DEF vars, NothingStale
  <2>. QED
    BY <2>1, <2>2 DEF Next
<1>. QED
  BY <1>1, <1>2, PTL DEF Spec

-----------------------------------------------------------------------------
\* The length of the transport header, and when it is sound and complete at offset.
TransportLen(f) == CASE f.protocol = "TCP" -> 4 * f.data_offset [] f.protocol = "UDP" -> 8 [] OTHER -> 0

TransportComplete(f, offset) ==
    /\ f.protocol = "TCP" => f.data_offset >= 5
    /\ offset + TransportLen(f) <= f.len

\* Frame f was parsed into q, the transport header being sound and complete or not.
Decided(f, q, complete, end) ==
    /\ complete /\ f.protocol # "UNKNOWN" => q.has_l4 = TRUE
    /\ ~(complete /\ f.protocol # "UNKNOWN") => q.has_l4 = FALSE
    /\ complete => q.payload = end

\* A transport parser sets has_l4 if its header is sound and complete, and then
\* leaves the payload behind it.
LEMMA TransportDecides ==
    ASSUME NEW f \in Frames, NEW offset \in Nat, offset <= f.len
    PROVE  Decided(f, ParseTransport(f, IpPacket(f), offset).out,
                   TransportComplete(f, offset), offset + TransportLen(f))
<1>. DEFINE r == ParseTransport(f, IpPacket(f), offset)
<1>1. /\ f.len \in Nat /\ f.data_offset \in 0..15
      /\ f.protocol \in {"TCP", "UDP", "UNKNOWN"}
  BY FramesAssumption
<1>2. IpPacket(f).has_l4 = FALSE
  BY DEF IpPacket, FreshPacket
<1>3. CASE f.protocol = "TCP"
  <2>. DEFINE ports == [IpPacket(f) EXCEPT !.src_port = f.src_port, !.dst_port = f.dst_port,
                                           !.seq = f.seq]
              payload == offset + 4 * f.data_offset
              full == [ports EXCEPT !.has_l4 = TRUE, !.payload = payload,
                                    !.payload_len = f.len - payload]
  <2>1. r = parseTCP(f, IpPacket(f), offset)
    BY <1>3 DEF ParseTransport
  <2>2. TransportLen(f) = 4 * f.data_offset
    BY <1>3 DEF TransportLen
  <2>3. TransportComplete(f, offset) <=> f.data_offset >= 5 /\ payload <= f.len
    BY <1>3, <2>2 DEF TransportComplete
  <2>4. CASE TransportComplete(f, offset)
    <3>1. ~(offset + 20 > f.len) /\ ~(f.data_offset < 5 \/ payload > f.len)
      BY <1>1, <2>3, <2>4
    <3>2. r = Result(TRUE, full, offset + 14)
      BY <2>1, <3>1 DEF parseTCP, TcpHeaderEnd
    <3>3. full.has_l4 = TRUE /\ full.payload = payload
      <4>. HIDE DEF payload
      <4>. QED
        BY DEF IpPacket, FreshPacket
    <3>4. r.out.has_l4 = TRUE /\ r.out.payload = offset + TransportLen(f)
      <4>1. r.out = full
        <5>. HIDE DEF r, full
        <5>. QED
          BY <3>2 DEF Result
      <4>. HIDE DEF r, full
      <4>. QED
        BY <2>2, <3>3, <4>1
    <3>. QED
      BY <1>3, <2>4, <3>4 DEF Decided
  <2>5. CASE ~TransportComplete(f, offset)
    <3>1. f.data_offset < 5 \/ payload > f.len
      BY <1>1, <2>3, <2>5
    <3>2. r.out = IpPacket(f) \/ r.out = ports
      BY <2>1, <3>1 DEF parseTCP, TcpHeaderEnd, Result
    <3>3. ports.has_l4 = FALSE
      BY DEF IpPacket, FreshPacket
    <3>4. r.out.has_l4 = FALSE
      BY <1>2, <3>2, <3>3
    <3>. QED
      BY <2>5, <3>4 DEF Decided
  <2>. QED
    BY <2>4, <2>5
<1>4. CASE f.protocol = "UDP"
  <2>1. r = parseUDP(f, IpPacket(f), offset)
    BY <1>4 DEF ParseTransport
  <2>2. TransportLen(f) = 8
    BY <1>4 DEF TransportLen
  <2>3. TransportComplete(f, offset) <=> ~(offset + 8 > f.len)
    BY <1>1, <1>4, <2>2 DEF TransportComplete
  <2>4. CASE TransportComplete(f, offset)
    <3>1. r.out.has_l4 = TRUE /\ r.out.payload = offset + 8
      <4>. DEFINE declared == IF f.udp_len >= 8 THEN f.udp_len - 8 ELSE 0
                  available == f.len - (offset + 8)
                  len == IF declared <= available THEN declared ELSE available
                  full == [IpPacket(f) EXCEPT !.src_port = f.src_port, !.dst_port = f.dst_port,
                                              !.has_l4 = TRUE, !.payload = offset + 8,
                                              !.payload_len = len]
      <4>1. r = Result(TRUE, full, offset + 6)
        BY <2>1, <2>3, <2>4 DEF parseUDP
      <4>2. r.out = full
        <5>. HIDE DEF r, full
        <5>. QED
          BY <4>1 DEF Result
      <4>3. full.has_l4 = TRUE /\ full.payload = offset + 8
        <5>. HIDE DEF len
        <5>. QED
          BY DEF IpPacket, FreshPacket
      <4>. HIDE DEF r, full
      <4>. QED
        BY <4>2, <4>3
    <3>. QED
      BY <1>4, <2>2, <2>4, <3>1 DEF Decided
  <2>5. CASE ~TransportComplete(f, offset)
    <3>1. r.out = IpPacket(f)
      BY <2>1, <2>3, <2>5 DEF parseUDP, Result
    <3>. QED
      BY <1>2, <2>5, <3>1 DEF Decided
  <2>. QED
    BY <2>4, <2>5
<1>5. CASE f.protocol = "UNKNOWN"
  <2>1. r.out.has_l4 = FALSE /\ r.out.payload = offset
    BY <1>5 DEF ParseTransport, Result, IpPacket, FreshPacket
  <2>2. TransportLen(f) = 0
    BY <1>5 DEF TransportLen
  <2>. QED
    BY <1>5, <2>1, <2>2 DEF Decided
<1>. QED
  BY <1>1, <1>3, <1>4, <1>5

\* parse accepts exactly the frames with sound headers that are all there.
LEMMA HeadersDecide ==
    ASSUME NEW f \in Frames
    PROVE  /\ Decided(f, parse(f).out, WellFormed(f), HeadersEnd(f))
           /\ WellFormed(f) => parse(f).ok = TRUE
<1>. DEFINE ip == parseIPv4(f, FreshPacket, ETH_HEADER_LEN)
            end == ETH_HEADER_LEN + 4 * f.ihl
            complete == f.ipv4 /\ f.version = 4 /\ f.ihl >= 5 /\ end <= f.len
            rest == ParseTransport(f, IpPacket(f), end)
<1>1. /\ f.len \in Nat /\ f.ihl \in 0..15 /\ f.ipv4 \in BOOLEAN /\ f.data_offset \in 0..15
      /\ f.protocol \in {"TCP", "UDP", "UNKNOWN"}
  BY FramesAssumption
<1>2. end \in Nat /\ TransportLen(f) \in Nat
  BY <1>1 DEF ETH_HEADER_LEN, TransportLen
<1>3. HeadersEnd(f) = end + TransportLen(f)
  BY <1>1 DEF HeadersEnd, TransportLen
<1>4. WellFormed(f) <=> complete /\ TransportComplete(f, end)
  <2>. HIDE DEF end
  <2>1. HeadersEnd(f) <= f.len => end <= f.len
    BY <1>1, <1>2, <1>3
  <2>. QED
    BY <1>3, <2>1 DEF WellFormed, TransportComplete
<1>5. CASE ~complete
  <2>1. parse(f).out = FreshPacket
    <3>1. CASE f.len < ETH_HEADER_LEN
      BY <3>1 DEF parse, ParseInto, Result
    <3>2. CASE ~(f.len < ETH_HEADER_LEN) /\ ~f.ipv4
      BY <3>2 DEF parse, ParseInto, Result
    <3>3. CASE ~(f.len < ETH_HEADER_LEN) /\ f.ipv4
      <4>1. ip.ok = FALSE /\ ip.out = FreshPacket
        BY <1>1, <1>5, <3>3 DEF parseIPv4, Result, ETH_HEADER_LEN
      <4>. QED
        BY <3>3, <4>1 DEF parse, ParseInto
    <3>. QED
      BY <3>1, <3>2, <3>3
  <2>. QED
    BY <1>4, <1>5, <2>1 DEF Decided, FreshPacket
<1>6. CASE complete
  <2>1. ip.ok = TRUE /\ ip.out = IpPacket(f) /\ ~(f.len < ETH_HEADER_LEN)
    BY <1>1, <1>6 DEF parseIPv4, Result, ETH_HEADER_LEN, IpPacket
  <2>2. parse(f) = [rest EXCEPT !.ok = TRUE]
    BY <1>6, <2>1 DEF parse, ParseInto
  <2>3. DOMAIN rest = {"ok", "out", "touched"}
    BY <1>1 DEF ParseTransport, parseTCP, parseUDP, Result
  <2>4. parse(f).ok = TRUE /\ parse(f).out = rest.out
    <3>. HIDE DEF rest
    <3>. QED
      BY <2>2, <2>3
  <2>5. Decided(f, rest.out, TransportComplete(f, end), end + TransportLen(f))
    BY <1>2, <1>6, TransportDecides
  <2>. QED
    BY <1>3, <1>4, <1>6, <2>4, <2>5 DEF Decided
<1>. QED
  BY <1>5, <1>6

\* Exactly the frames with complete and sound headers get has_l4, whatever
\* options they carry, and their payload begins where the headers end.
THEOREM HeadersAccepted == Spec => []SoundHeadersAccepted
<1>1. Init => SoundHeadersAccepted
  BY DEF Init, SoundHeadersAccepted, WellFormed, NoFrame, FreshPacket
<1>2. SoundHeadersAccepted /\ [Next]_vars => SoundHeadersAccepted'
  <2>. SUFFICES ASSUME SoundHeadersAccepted, [Next]_vars PROVE SoundHeadersAccepted'
    OBVIOUS
  <2>1. ASSUME NEW f \in Frames, Parse(f) PROVE SoundHeadersAccepted'
    <3>1. frame' = f /\ ok' = parse(f).ok /\ out' = parse(f).out
      BY <2>1 DEF Parse
    <3>2. /\ Decided(f, out', WellFormed(f), HeadersEnd(f))
          /\ WellFormed(f) => ok' = TRUE
      BY <3>1, HeadersDecide
    <3>3. (WellFormed(f) /\ f.protocol # "UNKNOWN") <=> out'.has_l4
      BY <3>2, Zenon DEF Decided
    <3>4. WellFormed(f) => ok' /\ out'.payload = HeadersEnd(f)
      BY <3>2, Zenon DEF Decided
    <3>. QED
      BY <3>1, <3>3, <3>4, Zenon DEF SoundHeadersAccepted, WellFormed, HeadersEnd
  <2>2. CASE UNCHANGED vars
    BY <2>2 DEF vars, SoundHeadersAccepted, WellFormed, HeadersEnd
  <2>. QED
    BY <2>1, <2>2 DEF Next
<1>. QED
  BY <1>1, <1>2, PTL DEF Spec

-----------------------------------------------------------------------------
(* The loops of the readers.                                               *)

\* The rounds of the folds: the size of a file, the values of an option, the
\* options as they are typed.
Sizing(frames, k, n) == n + PACKET_HEADER_LEN + frames[k].len

Collecting(env, k, given) ==
    IF env.options[k].flag = env.flag THEN Append(given, env.options[k].values) ELSE given

Typing(options, k, args) == args \o <<options[k].flag>> \o options[k].values

Sizes == INSTANCE FoldLoop WITH Step <- Sizing, Pick <- Max
Gathers == INSTANCE FoldLoop WITH Step <- Collecting, Pick <- Max
Types == INSTANCE FoldLoop WITH Step <- Typing, Pick <- Max

\* Max picks the largest number.
LEMMA MaxPicks ==
    ASSUME NEW n \in Nat
    PROVE  Sizes!PicksLargest(1..n) /\ Gathers!PicksLargest(1..n) /\ Types!PicksLargest(1..n)
<1>1. ASSUME NEW T \in SUBSET (1..n), T # {} PROVE Max(T) \in T /\ \A y \in T : y <= Max(T)
  <2>1. IsFiniteSet(T) /\ T \subseteq Int
    <3>1. IsFiniteSet(1..n)
      BY FS_Interval
    <3>2. IsFiniteSet(T)
      BY <3>1, FS_Subset
    <3> QED BY <3>2
  <2>2. Sizes!IsFiniteSet(T)
    BY <2>1 DEF Sizes!IsFiniteSet, IsFiniteSet
  <2>3. \E x \in T : \A y \in T : y <= x
    BY <1>1, <2>1, <2>2, Sizes!LargestElement
  <2>4. \E x \in T : \A y \in T : x >= y
    BY <2>1, <2>3
  <2>5. Max(T) \in T /\ \A y \in T : Max(T) >= y
    BY <2>4 DEF Max
  <2> QED BY <2>1, <2>5
<1> QED BY <1>1 DEF Sizes!PicksLargest, Gathers!PicksLargest, Types!PicksLargest

-----------------------------------------------------------------------------
(* The records of a file.                                                  *)

\* A file without records is its header.
LEMMA SizeNone == Size(<<>>) = GLOBAL_HEADER_LEN
<1>1. Size(<<>>) = Sizes!Loop(<<>>, GLOBAL_HEADER_LEN, {})
  BY DEF Size, FoldLeft, MapThenFoldSet, Sizes!Loop, Sizes!MapThenFoldSet, Sizing
<1> QED BY <1>1, Sizes!LoopEmpty

\* A record more is its header and its body more.
LEMMA SizeNext ==
    ASSUME NEW S, NEW frames \in Seq(S), NEW f \in S
    PROVE  Size(Append(frames, f)) = Size(frames) + PACKET_HEADER_LEN + f.len
<1> DEFINE n == Len(frames)
           more == Append(frames, f)
<1>1. /\ n \in Nat /\ DOMAIN frames = 1..n /\ DOMAIN more = 1..(n + 1)
      /\ more[n + 1] = f /\ \A k \in 1..n : more[k] = frames[k]
  OBVIOUS
<1>2. Size(frames) = Sizes!Loop(frames, GLOBAL_HEADER_LEN, 1..n)
  BY <1>1 DEF Size, FoldLeft, MapThenFoldSet, Sizes!Loop, Sizes!MapThenFoldSet, Sizing
<1>3. Size(more) = Sizes!Loop(more, GLOBAL_HEADER_LEN, 1..(n + 1))
  <2> HIDE DEF more
  <2> QED BY <1>1 DEF Size, FoldLeft, MapThenFoldSet, Sizes!Loop, Sizes!MapThenFoldSet, Sizing
<1>4. \A k \in 1..n : \A size : Sizing(more, k, size) = Sizing(frames, k, size)
  <2> HIDE DEF more
  <2> QED BY <1>1 DEF Sizing
<1> HIDE DEF n, more
<1>5. Sizes!Loop(more, GLOBAL_HEADER_LEN, 1..(n + 1))
        = Sizing(more, n + 1, Sizes!Loop(frames, GLOBAL_HEADER_LEN, 1..n))
  <2>1. Sizes!PicksLargest(1..(n + 1))
    BY <1>1, MaxPicks
  <2> QED BY <1>1, <1>4, <2>1, Sizes!IntervalStep
<1> QED BY <1>1, <1>2, <1>3, <1>5 DEF Sizing, more

\* The first records of a list, and one more.
LEMMA OneRecordMore ==
    ASSUME NEW S, NEW s \in Seq(S), NEW k \in 0..(Len(s) - 1)
    PROVE  /\ SubSeq(s, 1, k) \in Seq(S) /\ Len(SubSeq(s, 1, k)) = k /\ s[k + 1] \in S
           /\ SubSeq(s, 1, k + 1) = Append(SubSeq(s, 1, k), s[k + 1])
<1> DEFINE a == SubSeq(s, 1, k)
           b == SubSeq(s, 1, k + 1)
<1>1. /\ \A m \in 1..Len(s) : s[m] \in S
      /\ k \in Int /\ k + 1 \in 1..Len(s) /\ Len(s) \in Nat
  OBVIOUS
<1>2. a \in Seq(S) /\ Len(a) = k /\ \A m \in 1..k : a[m] = s[m]
  BY <1>1, SubSeqProperties
<1>3. b \in Seq(S) /\ Len(b) = k + 1 /\ \A m \in 1..(k + 1) : b[m] = s[m]
  BY <1>1, SubSeqProperties
<1> HIDE DEF a, b
<1>4. /\ Append(a, s[k + 1]) \in Seq(S) /\ Len(Append(a, s[k + 1])) = k + 1
      /\ Append(a, s[k + 1])[k + 1] = s[k + 1]
      /\ \A m \in 1..k : Append(a, s[k + 1])[m] = a[m]
  BY <1>1, <1>2, AppendProperties
<1>5. \A m \in 1..Len(b) : b[m] = Append(a, s[k + 1])[m]
  BY <1>1, <1>2, <1>3, <1>4
<1>6. b = Append(a, s[k + 1])
  BY <1>3, <1>4, <1>5, SeqEqual
<1> QED BY <1>1, <1>2, <1>6 DEF a, b

\* Where the record after the k-th begins.
RecordAt(file, k) == Size(SubSeq(file.frames, 1, k))

\* The first record stands behind the global header, and each record ends
\* where its header and its frame end.
LEMMA NextRecordAt ==
    ASSUME NEW file, FitsItsFields(file)
    PROVE  /\ RecordAt(file, 0) = GLOBAL_HEADER_LEN
           /\ \A k \in 0..(Len(file.frames) - 1) :
                RecordAt(file, k + 1) = RecordAt(file, k) + PACKET_HEADER_LEN + file.frames[k + 1].len
<1>1. file.frames \in Seq(Frames)
  BY DEF FitsItsFields
<1>2. RecordAt(file, 0) = GLOBAL_HEADER_LEN
  <2>1. SubSeq(file.frames, 1, 0) = <<>>
    BY SubSeqEmpty
  <2> QED BY <2>1, SizeNone DEF RecordAt
<1>3. ASSUME NEW k \in 0..(Len(file.frames) - 1)
      PROVE  RecordAt(file, k + 1) = RecordAt(file, k) + PACKET_HEADER_LEN + file.frames[k + 1].len
  <2> DEFINE a == SubSeq(file.frames, 1, k)
  <2>1. /\ a \in Seq(Frames) /\ file.frames[k + 1] \in Frames
        /\ SubSeq(file.frames, 1, k + 1) = Append(a, file.frames[k + 1])
    BY <1>1, OneRecordMore
  <2>2. Size(Append(a, file.frames[k + 1])) = Size(a) + PACKET_HEADER_LEN + file.frames[k + 1].len
    <3> HIDE DEF a
    <3> QED BY <2>1, SizeNext
  <2> QED BY <2>1, <2>2 DEF RecordAt
<1> QED BY <1>2, <1>3

\* The records lie behind one another.
LEMMA RecordsAscend ==
    ASSUME NEW file, FitsItsFields(file)
    PROVE  \A k \in 0..Len(file.frames) :
              /\ RecordAt(file, k) \in Nat
              /\ \A m \in 0..k : RecordAt(file, m) <= RecordAt(file, k)
<1> DEFINE n == Len(file.frames)
           Sorted(k) == \A m \in 0..k : RecordAt(file, m) \in Nat /\ RecordAt(file, m) <= RecordAt(file, k)
           Good == {k \in Nat : k <= n => Sorted(k)}
<1>1. n \in Nat /\ \A k \in 0..(n - 1) : file.frames[k + 1].len \in Nat
  <2>1. file.frames \in Seq(Frames)
    BY DEF FitsItsFields
  <2>2. \A k \in 1..n : file.frames[k] \in Frames
    BY <2>1
  <2> QED BY <2>1, <2>2, FramesAssumption
<1>2. 0 \in Good
  BY NextRecordAt DEF GLOBAL_HEADER_LEN
<1>3. ASSUME NEW k \in Nat, k \in Good PROVE k + 1 \in Good
  <2> SUFFICES ASSUME k + 1 <= n PROVE Sorted(k + 1)
    OBVIOUS
  <2>1. k \in 0..(n - 1) /\ Sorted(k)
    BY <1>1, <1>3
  <2>2. /\ RecordAt(file, k + 1) = RecordAt(file, k) + PACKET_HEADER_LEN + file.frames[k + 1].len
        /\ file.frames[k + 1].len \in Nat
    BY <1>1, <2>1, NextRecordAt
  <2>3. /\ RecordAt(file, k) \in Nat /\ RecordAt(file, k + 1) \in Nat
        /\ RecordAt(file, k) <= RecordAt(file, k + 1)
    BY <2>1, <2>2 DEF PACKET_HEADER_LEN
  <2>4. ASSUME NEW m \in 0..(k + 1)
        PROVE  RecordAt(file, m) \in Nat /\ RecordAt(file, m) <= RecordAt(file, k + 1)
    <3>1. CASE m = k + 1
      BY <2>3, <3>1
    <3>2. CASE m \in 0..k
      BY <2>1, <2>3, <3>2
    <3> QED BY <3>1, <3>2
  <2> QED BY <2>3, <2>4
<1>4. Nat \subseteq Good
  <2> HIDE DEF Good
  <2> QED BY <1>2, <1>3, Sizes!CountingUp
<1> QED BY <1>1, <1>4

\* In either byte order the reader takes the word the writer meant.
LEMMA WordsAreMeant ==
    ASSUME NEW file, NEW v \in Words
    PROVE  Word(file.magic = "swapped", Raw(file, v)) = v
<1>1. swap32(swap32(v)) = v
  <2> DEFINE q == v \div 16
             r == v % 16
  <2>1. v \in 0..255
    BY DEF Words, Digit
  <2>2. q \in 0..15 /\ r \in 0..15 /\ v = 16 * q + r
    BY <2>1
  <2>3. swap32(v) = 16 * r + q
    BY DEF swap32, Digit
  <2> HIDE DEF q, r
  <2>4. (16 * r + q) % 16 = q /\ (16 * r + q) \div 16 = r
    BY <2>2
  <2> QED BY <2>2, <2>3, <2>4 DEF swap32, Digit
<1> QED BY <1>1 DEF Word, Raw

\* A reader has the fields of PcapReader.
IsReader(r) ==
    /\ DOMAIN r = {"is_open", "swapped", "snaplen", "at", "records"}
    /\ r = [field \in DOMAIN r |-> r[field]]

\* The reader has read these frames of the file, all it holds up to where the
\* reader is.
HasRead(file, r, frames) ==
    /\ IsReader(r)
    /\ r.is_open = TRUE
    /\ r.swapped = (file.magic = "swapped")
    /\ r.snaplen = file.snaplen
    /\ r.records \in 0..Len(file.frames)
    /\ r.at = RecordAt(file, r.records)
    /\ frames = SubSeq(file.frames, 1, r.records)
    /\ Readable(file, r.records)

\* What can be read of a file.
ReadableRecords(file) == {k \in 0..Len(file.frames) : Readable(file, k)}
WholeFile(file) ==
    SubSeq(file.frames, 1, CHOOSE k \in ReadableRecords(file) : \A j \in ReadableRecords(file) : j <= k)

\* A file that was opened has been read up to its first record.
LEMMA OpenHasRead ==
    ASSUME NEW file, FitsItsFields(file)
    PROVE  \/ open(file) = Closed
           \/ open(file).is_open /\ HasRead(file, open(file), <<>>)
<1>1. CASE open(file) # Closed
  <2> DEFINE r == open(file)
             snap == Word(file.magic = "swapped", Raw(file, file.snaplen))
  <2>1. /\ file.length >= GLOBAL_HEADER_LEN
        /\ r = [is_open |-> TRUE, swapped |-> file.magic = "swapped", snaplen |-> snap,
                at |-> GLOBAL_HEADER_LEN, records |-> 0]
    BY <1>1 DEF open
  <2>2. snap = file.snaplen
    BY WordsAreMeant DEF FitsItsFields
  <2>3. r.is_open = TRUE /\ r.snaplen = file.snaplen /\ r.at = GLOBAL_HEADER_LEN /\ r.records = 0
    <3> HIDE DEF snap
    <3> QED BY <2>1, <2>2
  <2>4. r.swapped = (file.magic = "swapped")
    <3>1. r = [is_open |-> TRUE, swapped |-> file.magic = "swapped", snaplen |-> snap,
               at |-> GLOBAL_HEADER_LEN, records |-> 0]
      BY <2>1
    <3> HIDE DEF snap, r
    <3> QED BY ONLY <3>1, Zenon
  <2>5. SubSeq(file.frames, 1, 0) = <<>> /\ Len(file.frames) \in Nat
    <3>1. SubSeq(file.frames, 1, 0) = <<>>
      BY SubSeqEmpty
    <3> QED BY <3>1 DEF FitsItsFields
  <2>6. RecordAt(file, 0) = GLOBAL_HEADER_LEN /\ Readable(file, 0)
    <3>1. RecordAt(file, 0) = GLOBAL_HEADER_LEN
      BY NextRecordAt
    <3>2. GLOBAL_HEADER_LEN <= file.length
      BY <2>1 DEF FitsItsFields, GLOBAL_HEADER_LEN
    <3> QED BY <3>1, <3>2 DEF Readable, RecordAt
  <2>7. IsReader(r)
    <3> DEFINE flag == file.magic = "swapped"
    <3>1. r = [is_open |-> TRUE, swapped |-> flag, snaplen |-> snap,
               at |-> GLOBAL_HEADER_LEN, records |-> 0]
      BY <2>1
    <3> HIDE DEF snap, r, flag
    <3> QED BY <3>1 DEF IsReader
  <2> HIDE DEF r
  <2>8. HasRead(file, r, <<>>)
    BY <2>3, <2>4, <2>5, <2>6, <2>7 DEF HasRead
  <2> QED BY <2>3, <2>8 DEF r
<1> QED BY <1>1

\* What decides whether there is another packet, in terms of the file.
LEMMA ReadsTheNext ==
    ASSUME NEW file, FitsItsFields(file), NEW r, NEW frames, HasRead(file, r, frames)
    PROVE  /\ readNextPacket(r, file) <=>
                r.records < Len(file.frames) /\ Readable(file, r.records + 1)
           /\ r.records < Len(file.frames) => InclLen(r, file) = NextFrame(r, file).len
<1> DEFINE k == r.records
           n == Len(file.frames)
           f == file.frames[k + 1]
<1>1. k \in 0..n /\ n \in Nat /\ file.length \in Nat /\ file.snaplen \in Int
  <2>1. file.frames \in Seq(Frames) /\ file.length \in Nat /\ file.snaplen \in Words
    BY DEF FitsItsFields
  <2>2. n \in Nat /\ file.snaplen \in Int
    BY <2>1 DEF Words
  <2> QED BY <2>1, <2>2 DEF HasRead
<1>2. CASE k < n
  <2>1. k + 1 \in 1..n /\ f.len \in Words /\ f.len \in Nat
    <3>1. k + 1 \in 1..n
      BY <1>1, <1>2
    <3>2. file.frames \in Seq(Frames) /\ \A j \in DOMAIN file.frames : file.frames[j].len \in Words
      BY DEF FitsItsFields
    <3>3. f.len \in Words
      BY <3>1, <3>2
    <3>4. f.len \in Nat
      BY <3>3 DEF Words, Digit
    <3> QED BY <3>1, <3>3, <3>4
  <2>2. InclLen(r, file) = f.len
    <3>1. InclLen(r, file) = Word(file.magic = "swapped", Raw(file, f.len))
      BY DEF InclLen, NextFrame, HasRead
    <3> QED BY <2>1, <3>1, WordsAreMeant
  <2>3. /\ RecordAt(file, k + 1) = RecordAt(file, k) + PACKET_HEADER_LEN + f.len
        /\ RecordAt(file, k) \in Nat
    BY <1>1, <1>2, NextRecordAt, RecordsAscend
  <2>4. r.at = RecordAt(file, k) /\ r.snaplen = file.snaplen /\ r.is_open = TRUE
    BY DEF HasRead
  <2>5. \A j \in 1..k : file.snaplen # 0 => file.frames[j].len <= file.snaplen
    BY DEF HasRead, Readable
  <2>6. Readable(file, k + 1) <=>
          /\ file.snaplen # 0 => f.len <= file.snaplen
          /\ RecordAt(file, k + 1) <= file.length
    <3>1. \A j \in 1..(k + 1) : j \in 1..k \/ j = k + 1
      BY <1>1
    <3>2. k + 1 \in 1..(k + 1)
      BY <1>1
    <3> QED BY <2>5, <3>1, <3>2 DEF Readable, RecordAt
  <2>7. readNextPacket(r, file) <=>
          /\ file.snaplen # 0 => f.len <= file.snaplen
          /\ RecordAt(file, k) + PACKET_HEADER_LEN + f.len <= file.length
    <3>1. RecordAt(file, k) + PACKET_HEADER_LEN + f.len <= file.length
            => RecordAt(file, k) + PACKET_HEADER_LEN <= file.length
      BY <1>1, <2>1, <2>3 DEF PACKET_HEADER_LEN
    <3>2. InclLen(r, file) <= r.snaplen <=> f.len <= file.snaplen
      BY <2>2, <2>4
    <3>3. r.at + PACKET_HEADER_LEN + InclLen(r, file) <= file.length <=>
            RecordAt(file, k) + PACKET_HEADER_LEN + f.len <= file.length
      BY <2>2, <2>4
    <3>4. HeaderThere(r, file) <=> RecordAt(file, k) + PACKET_HEADER_LEN <= file.length
      BY <1>2, <2>4 DEF HeaderThere
    <3> QED BY <2>4, <3>1, <3>2, <3>3, <3>4 DEF readNextPacket
  <2> QED BY <1>2, <2>2, <2>3, <2>6, <2>7 DEF NextFrame
<1>3. CASE ~(k < n)
  BY <1>3 DEF readNextPacket, HeaderThere
<1> QED BY <1>2, <1>3

\* One call of readNextPacket that returns a packet.
LEMMA OnePacketMore ==
    ASSUME NEW file, FitsItsFields(file), NEW r, NEW frames, HasRead(file, r, frames),
           readNextPacket(r, file)
    PROVE  /\ NextFrame(r, file) \in Frames
           /\ HasRead(file, Advanced(r, file), Append(frames, NextFrame(r, file)))
<1> DEFINE k == r.records
           s == Advanced(r, file)
           f == NextFrame(r, file)
<1>1. /\ file.frames \in Seq(Frames)
      /\ k \in 0..(Len(file.frames) - 1) /\ Readable(file, k + 1) /\ InclLen(r, file) = f.len
  <2>1. file.frames \in Seq(Frames) /\ k \in 0..Len(file.frames)
    BY DEF FitsItsFields, HasRead
  <2> QED BY <2>1, ReadsTheNext
<1>2. f = file.frames[k + 1]
  BY DEF NextFrame
<1>3. /\ s.is_open = r.is_open /\ s.swapped = r.swapped /\ s.snaplen = r.snaplen
      /\ s.at = r.at + PACKET_HEADER_LEN + f.len /\ s.records = k + 1
      /\ IsReader(s)
  <2>1. IsReader(r)
    BY DEF HasRead
  <2>2. s = [r EXCEPT !.at = r.at + PACKET_HEADER_LEN + f.len, !.records = k + 1]
    BY <1>1 DEF Advanced
  <2> HIDE DEF s, f, k
  <2> QED BY <2>1, <2>2 DEF IsReader
<1>4. RecordAt(file, k + 1) = r.at + PACKET_HEADER_LEN + f.len
  BY <1>1, <1>2, NextRecordAt DEF HasRead
<1>5. f \in Frames /\ SubSeq(file.frames, 1, k + 1) = Append(frames, f)
  <2>1. /\ file.frames[k + 1] \in Frames
        /\ SubSeq(file.frames, 1, k + 1) = Append(SubSeq(file.frames, 1, k), file.frames[k + 1])
    <3> HIDE DEF k
    <3> QED BY <1>1, OneRecordMore
  <2> QED BY <1>2, <2>1 DEF HasRead
<1>6. k + 1 \in 0..Len(file.frames)
  BY <1>1
<1> HIDE DEF s, f, k
<1>7. HasRead(file, s, Append(frames, f))
  BY <1>1, <1>3, <1>4, <1>5, <1>6 DEF HasRead
<1> QED BY <1>3, <1>5, <1>7 DEF s, f

\* When there is no further packet, all that can be read has been.
LEMMA NoPacketMore ==
    ASSUME NEW file, FitsItsFields(file), NEW r, NEW frames, HasRead(file, r, frames),
           ~readNextPacket(r, file)
    PROVE  frames = WholeFile(file)
<1> DEFINE k == r.records
           n == Len(file.frames)
<1>1. n \in Nat /\ k \in 0..n /\ Readable(file, k) /\ file.length \in Nat
  BY DEF HasRead, FitsItsFields
<1>2. ASSUME NEW j \in 0..n, Readable(file, j), ~(j <= k) PROVE FALSE
  <2>1. k < n /\ k + 1 \in 0..j /\ k + 1 \in 0..n
    BY <1>1, <1>2
  <2>2. RecordAt(file, k + 1) <= RecordAt(file, j) /\ RecordAt(file, k + 1) \in Nat /\ RecordAt(file, j) \in Nat
    BY <2>1, RecordsAscend
  <2>3. RecordAt(file, k + 1) <= file.length
    <3>1. RecordAt(file, j) <= file.length
      BY <1>2 DEF Readable, RecordAt
    <3> QED BY <1>1, <2>2, <3>1
  <2>4. \A m \in 1..(k + 1) : m \in 1..j
    BY <1>1, <2>1
  <2>5. Readable(file, k + 1)
    BY <1>2, <2>3, <2>4 DEF Readable, RecordAt
  <2> QED BY <2>1, <2>5, ReadsTheNext
<1>3. k \in ReadableRecords(file) /\ \A j \in ReadableRecords(file) : j <= k
  BY <1>1, <1>2 DEF ReadableRecords
<1>4. \A j \in ReadableRecords(file) : (\A m \in ReadableRecords(file) : m <= j) => j = k
  <2>1. \A j \in ReadableRecords(file) : j \in Int
    BY <1>1 DEF ReadableRecords
  <2> QED BY <1>3, <2>1
<1>5. (CHOOSE j \in ReadableRecords(file) : \A m \in ReadableRecords(file) : m <= j) = k
  BY <1>3, <1>4
<1> QED BY <1>5 DEF WholeFile, HasRead

-----------------------------------------------------------------------------
(* What is counted.                                                        *)

\* How many of these frames are IP packets.
IpAmong(frames) == Cardinality({k \in DOMAIN frames : IsIp(frames[k])})

\* There is no IP packet among no frames.
LEMMA NoIpYet == IpAmong(<<>>) = 0
<1>1. {k \in DOMAIN <<>> : IsIp(<<>>[k])} = {}
  OBVIOUS
<1> QED BY <1>1, FS_EmptySet DEF IpAmong

\* One frame more is one IP packet more or none.
LEMMA OneFrameMore ==
    ASSUME NEW frames \in Seq(Frames), NEW f \in Frames
    PROVE  IpAmong(Append(frames, f)) = IF IsIp(f) THEN IpAmong(frames) + 1 ELSE IpAmong(frames)
<1> DEFINE n == Len(frames)
           more == Append(frames, f)
           A == {k \in DOMAIN frames : IsIp(frames[k])}
           B == {k \in DOMAIN more : IsIp(more[k])}
<1>1. /\ n \in Nat /\ DOMAIN frames = 1..n /\ DOMAIN more = 1..(n + 1)
      /\ more[n + 1] = f /\ \A k \in 1..n : more[k] = frames[k]
  OBVIOUS
<1>2. IsFiniteSet(A) /\ n + 1 \notin A
  <2>1. A \subseteq 1..n /\ IsFiniteSet(1..n)
    BY <1>1, FS_Interval
  <2>2. n + 1 \notin 1..n
    BY <1>1
  <2> HIDE DEF A, n
  <2> QED BY <2>1, <2>2, FS_Subset
<1>3. \A k : k \in 1..(n + 1) <=> k \in 1..n \/ k = n + 1
  BY <1>1
<1>4. CASE IsIp(f)
  <2>1. B = A \cup {n + 1}
    <3> HIDE DEF more, n
    <3> QED BY <1>1, <1>3, <1>4
  <2>2. Cardinality(A \cup {n + 1}) = Cardinality(A) + 1
    <3> HIDE DEF A, n
    <3> QED BY <1>2, FS_AddElement
  <2> QED BY <1>4, <2>1, <2>2 DEF IpAmong
<1>5. CASE ~IsIp(f)
  <2>1. B = A
    <3> HIDE DEF more, n
    <3> QED BY <1>1, <1>3, <1>5
  <2> QED BY <1>5, <2>1 DEF IpAmong
<1> QED BY <1>4, <1>5

\* parse leaves has_ip for the frames whose IPv4 header is complete and sound.
LEMMA IpIsParsed ==
    ASSUME NEW f \in Frames
    PROVE  (parse(f).ok /\ parse(f).out.has_ip) <=> IsIp(f)
<1> DEFINE ip == parseIPv4(f, FreshPacket, ETH_HEADER_LEN)
           end == ETH_HEADER_LEN + 4 * f.ihl
           rest == ParseTransport(f, IpPacket(f), end)
<1>1. /\ f.len \in Nat /\ f.ihl \in 0..15 /\ f.ipv4 \in BOOLEAN
      /\ f.protocol \in {"TCP", "UDP", "UNKNOWN"}
  BY FramesAssumption
<1>2. CASE ~IsIp(f)
  <2>1. parse(f).out = FreshPacket
    <3>1. CASE f.len < ETH_HEADER_LEN
      BY <3>1 DEF parse, ParseInto, Result
    <3>2. CASE ~(f.len < ETH_HEADER_LEN) /\ ~f.ipv4
      BY <3>2 DEF parse, ParseInto, Result
    <3>3. CASE ~(f.len < ETH_HEADER_LEN) /\ f.ipv4
      <4>1. ip.ok = FALSE /\ ip.out = FreshPacket
        BY <1>1, <1>2, <3>3 DEF parseIPv4, Result, ETH_HEADER_LEN, IsIp
      <4> QED BY <3>3, <4>1 DEF parse, ParseInto
    <3> QED BY <3>1, <3>2, <3>3
  <2>2. FreshPacket.has_ip = FALSE
    BY DEF FreshPacket
  <2>3. parse(f).out.has_ip = FALSE
    BY <2>1, <2>2
  <2> QED BY <1>2, <2>3, Zenon
<1>3. CASE IsIp(f)
  <2>1. ip.ok = TRUE /\ ip.out = IpPacket(f) /\ ~(f.len < ETH_HEADER_LEN) /\ f.ipv4
    BY <1>1, <1>3 DEF parseIPv4, Result, ETH_HEADER_LEN, IpPacket, IsIp
  <2>2. parse(f) = [rest EXCEPT !.ok = TRUE]
    BY <2>1 DEF parse, ParseInto
  <2>3. DOMAIN rest = {"ok", "out", "touched"}
    BY <1>1 DEF ParseTransport, parseTCP, parseUDP, Result
  <2>4. parse(f).ok = TRUE /\ parse(f).out = rest.out
    <3> HIDE DEF rest
    <3> QED BY <2>2, <2>3
  <2>5. end \in Nat /\ end <= f.len
    BY <1>1, <1>3 DEF IsIp, ETH_HEADER_LEN
  <2>6. rest.out.has_ip = TRUE
    <3> HIDE DEF end
    <3> QED BY <2>5, TransportSound DEF Sound
  <2> HIDE DEF rest
  <2>7. parse(f).ok = TRUE /\ parse(f).out.has_ip = TRUE
    BY <2>4, <2>6
  <2> QED BY <1>3, <2>7, Zenon
<1> QED BY <1>2, <1>3

\* The engine counts a frame that is handed to it if it is an IP packet.
LEMMA HandedCounts ==
    ASSUME NEW f \in Frames, Handed(f), taken \in Seq(Frames), total = IpAmong(taken)
    PROVE  /\ taken' = Append(taken, f) /\ taken' \in Seq(Frames)
           /\ total' = IpAmong(taken')
<1>1. taken' = Append(taken, f) /\ ok' = parse(f).ok /\ out' = parse(f).out
  BY DEF Handed, Parse
<1>2. (ok' /\ out'.has_ip) <=> IsIp(f)
  BY <1>1, IpIsParsed, Zenon
<1>3. total' = IF IsIp(f) THEN total + 1 ELSE total
  BY <1>2, Zenon DEF Handed
<1>4. taken' \in Seq(Frames)
  BY <1>1
<1>5. total' = IpAmong(Append(taken, f))
  BY <1>3, OneFrameMore
<1> QED BY <1>1, <1>4, <1>5

-----------------------------------------------------------------------------
(* The invariant of a run.                                                 *)

AfterReport == {"close", "forget", "leave", "return"}
InLoop == {"publish", "install", "loop", "wait"}

\* Where main may be in a replay and in a live capture, and how the run ends.
PlacesInv ==
    /\ Live => pc \in {"arguments", "openDevice", "report"} \cup InLoop \cup AfterReport
    /\ ~Live => pc \in {"arguments", "openFile", "read", "report", "return"}
    /\ reported \in BOOLEAN
    /\ reported = TRUE <=> pc \in AfterReport
    /\ exit = "ok" => pc = "return"
    /\ exit \in {"failed", "aborted"} => pc \in {"arguments", "openFile", "openDevice"}

ReplayInv ==
    /\ session \in Sessions
    /\ taken \in Seq(Frames)
    /\ total = IpAmong(taken)
    /\ pc \in {"arguments", "openFile", "openDevice"} => taken = <<>>
    /\ ~Live /\ pc = "read" => HasRead(session.file, reader, taken)
    /\ ~Live /\ pc \in {"report", "return"} => taken = WholeFile(session.file)

\* A run begins with nothing open, nothing read and nothing handed to the engine.
LEMMA RunInit == SessionInit => PlacesInv /\ ReplayInv
<1> SUFFICES ASSUME SessionInit PROVE PlacesInv /\ ReplayInv
  OBVIOUS
<1>1. pc = "arguments" /\ reported = FALSE /\ exit = "none"
  BY DEF SessionInit, ArgInit
<1>2. PlacesInv
  BY <1>1 DEF PlacesInv, AfterReport
<1>3. session \in Sessions /\ taken = <<>> /\ total = 0
  BY DEF SessionInit
<1>4. ReplayInv
  BY <1>1, <1>3, NoIpYet DEF ReplayInv
<1> QED BY <1>2, <1>4

\* The steps of main, told apart by where they lead.
LEMMA PlacesStep == PlacesInv /\ [SessionNext]_sessionVars => PlacesInv'
<1> SUFFICES ASSUME PlacesInv, [SessionNext]_sessionVars PROVE PlacesInv'
  OBVIOUS
<1> USE DEF PlacesInv, AfterReport, InLoop, Live, argVars
<1>1. CASE ParseArguments
  BY <1>1 DEF ParseArguments, At, ArgStep, Usage, Begin, BlockIp, BlockDomain, BlockPort, SetWorkers,
              UnknownArgument, IsOption
<1>2. CASE ArgumentsParsed
  BY <1>2 DEF ArgumentsParsed, Goto, At
<1>3. CASE OpenFile
  BY <1>3 DEF OpenFile, Goto, Exit, At
<1>4. CASE ReadPacket \/ EndOfFile
  BY <1>4 DEF ReadPacket, EndOfFile, Goto, At
<1>5. CASE OpenFails
  BY <1>5 DEF OpenFails, Exit, At
<1>6. CASE OpenDevice \/ PublishCapture \/ InstallHandler
  BY <1>6 DEF OpenDevice, PublishCapture, InstallHandler, LiveStep, Goto, At
<1>7. CASE LoopCheck \/ ReadTimeout \/ LoopFails \/ Receive
  BY <1>7 DEF LoopCheck, ReadTimeout, LoopFails, Receive, LiveStep, Goto, At
<1>8. CASE Report
  BY <1>8 DEF Report, Goto, At
<1>9. CASE CloseStep
  BY <1>9 DEF CloseStep, LiveStep, Goto, At
<1>10. CASE Return
  BY <1>10 DEF Return, Exit, At
<1>11. CASE Sigint
  BY <1>11 DEF Sigint
<1>12. CASE Finished \/ UNCHANGED sessionVars
  BY <1>12 DEF Finished, sessionVars
<1> QED BY <1>1, <1>2, <1>3, <1>4, <1>5, <1>6, <1>7, <1>8, <1>9, <1>10, <1>11, <1>12
        DEF SessionNext, MainStep

\* No step changes what the run is about.
LEMMA SameRun == [SessionNext]_sessionVars => session' = session /\ argv' = argv
  BY DEF SessionNext, MainStep, ParseArguments, ArgStep, Usage, Begin, BlockIp, BlockDomain, BlockPort,
         SetWorkers, UnknownArgument, IsOption, ArgumentsParsed, OpenFile, ReadPacket, EndOfFile,
         OpenFails, OpenDevice, PublishCapture, InstallHandler, LoopCheck, ReadTimeout, LoopFails,
         Receive, Report, CloseStep, Return, Sigint, Finished, LiveStep, Goto, Exit, argVars, sessionVars

\* A step that neither reads nor parses keeps what was read, unless it leads
\* into the replay or out of it.
LEMMA NothingRead ==
    ASSUME ReplayInv, session' = session, argv' = argv,
           UNCHANGED replayVars,
           pc' = pc \/ pc' \in AfterReport \cup InLoop \cup {"openFile", "openDevice"} \/ Live,
           pc' \in {"openFile", "openDevice"} => pc \in {"arguments", "openFile", "openDevice"},
           pc' \in {"report", "return"} /\ ~Live => pc \in {"report", "return"},
           pc' = "arguments" => pc = "arguments"
    PROVE  ReplayInv'
  BY DEF ReplayInv, replayVars, Live, AfterReport, InLoop

\* Every step of a replay leaves the reader behind the records it has read,
\* and the engine with exactly their frames.
LEMMA ReplayStep == PlacesInv /\ ReplayInv /\ [SessionNext]_sessionVars => ReplayInv'
<1> SUFFICES ASSUME PlacesInv, ReplayInv, [SessionNext]_sessionVars PROVE ReplayInv'
  OBVIOUS
<1>0. session' = session /\ argv' = argv
  BY SameRun
<1> DEFINE file == session.file
<1>f. FitsItsFields(file) /\ session.traffic \subseteq Frames
  BY SessionsAssumption DEF ReplayInv
<1>1. CASE ParseArguments
  <2>1. UNCHANGED replayVars /\ pc' = pc
    BY <1>1 DEF ParseArguments
  <2> QED BY <1>0, <2>1, NothingRead
<1>2. CASE ArgumentsParsed
  <2>1. UNCHANGED replayVars /\ pc = "arguments" /\ pc' \in {"openFile", "openDevice"}
    BY <1>2 DEF ArgumentsParsed, Goto, At
  <2> QED BY <1>0, <2>1, NothingRead
<1>3. CASE OpenFile
  <2>1. /\ pc = "openFile" /\ reader' = open(file)
        /\ IF reader'.is_open THEN pc' = "read" ELSE pc' = "openFile"
        /\ taken' = taken /\ total' = total
    BY <1>3 DEF OpenFile, Goto, Exit, At
  <2>2. taken = <<>>
    BY <2>1 DEF ReplayInv
  <2>3. pc' = "read" => HasRead(file, reader', <<>>)
    <3>1. CASE open(file) = Closed
      <4>1. reader'.is_open = FALSE
        BY <2>1, <3>1 DEF Closed
      <4>2. pc' = "openFile"
        BY <2>1, <4>1, Zenon
      <4> QED BY <4>2
    <3>2. CASE HasRead(file, open(file), <<>>)
      BY <2>1, <3>2
    <3> QED BY <1>f, <3>1, <3>2, OpenHasRead
  <2>4. pc' \in {"read", "openFile"}
    BY <2>1
  <2> QED BY <1>0, <2>1, <2>2, <2>3, <2>4 DEF ReplayInv, Live
<1>4. CASE ReadPacket
  <2> DEFINE f == NextFrame(reader, file)
  <2>1. /\ readNextPacket(reader, file) /\ pc = "read" /\ pc' = "read"
        /\ reader' = Advanced(reader, file) /\ Handed(f)
    BY <1>4 DEF ReadPacket, Goto, At
  <2>2. ~Live
    BY <2>1 DEF PlacesInv, AfterReport, InLoop
  <2>3. HasRead(file, reader, taken)
    BY <2>1, <2>2 DEF ReplayInv
  <2>4. f \in Frames /\ HasRead(file, reader', Append(taken, f))
    <3> HIDE DEF f
    <3>1. NextFrame(reader, file) \in Frames /\ HasRead(file, Advanced(reader, file), Append(taken, NextFrame(reader, file)))
      BY <1>f, <2>1, <2>3, OnePacketMore
    <3> QED BY <2>1, <3>1 DEF f
  <2>5. taken' = Append(taken, f) /\ taken' \in Seq(Frames) /\ total' = IpAmong(taken')
    <3> HIDE DEF f
    <3> QED BY <2>1, <2>4, HandedCounts DEF ReplayInv
  <2>6. HasRead(file, reader', taken')
    BY <2>4, <2>5
  <2> HIDE DEF f
  <2> QED BY <1>0, <2>1, <2>5, <2>6 DEF ReplayInv, Live
<1>5. CASE EndOfFile
  <2>1. ~readNextPacket(reader, file) /\ pc = "read" /\ pc' = "report" /\ UNCHANGED replayVars
    BY <1>5 DEF EndOfFile, Goto, At
  <2>2. ~Live
    BY <2>1 DEF PlacesInv, AfterReport, InLoop
  <2>3. taken = WholeFile(file)
    BY <1>f, <2>1, <2>2, NoPacketMore DEF ReplayInv
  <2> QED BY <1>0, <2>1, <2>3 DEF ReplayInv, Live, replayVars
<1>6. CASE OpenFails \/ Return \/ Sigint \/ Finished \/ UNCHANGED sessionVars
  <2>1. UNCHANGED replayVars /\ (pc' = pc)
    BY <1>6 DEF OpenFails, Return, Exit, Sigint, Finished, sessionVars, replayVars
  <2> QED BY <1>0, <2>1, NothingRead
<1>7. CASE \/ OpenDevice \/ PublishCapture \/ InstallHandler \/ LoopCheck \/ ReadTimeout \/ LoopFails
           \/ CloseStep
  <2>1. /\ UNCHANGED replayVars
        /\ pc \in {"openDevice", "close", "forget", "leave"} \cup InLoop
        /\ pc' \in {"report"} \cup InLoop \cup AfterReport
    BY <1>7 DEF OpenDevice, PublishCapture, InstallHandler, LoopCheck, ReadTimeout, LoopFails, CloseStep,
                LiveStep, Goto, At, InLoop, AfterReport
  <2>2. Live
    BY <2>1 DEF PlacesInv, InLoop
  <2> QED BY <1>0, <2>1, <2>2, NothingRead DEF InLoop, AfterReport
<1>8. CASE Receive
  <2>1. PICK f \in session.traffic : Handed(f)
    BY <1>8 DEF Receive
  <2>2. pc = "wait" /\ pc' = "loop" /\ reader' = reader
    BY <1>8 DEF Receive, Goto, At
  <2>3. taken' \in Seq(Frames) /\ total' = IpAmong(taken')
    <3>1. f \in Frames
      BY <1>f
    <3> QED BY <2>1, <3>1, HandedCounts DEF ReplayInv
  <2> QED BY <1>0, <2>2, <2>3 DEF ReplayInv, Live
<1>9. CASE Report
  <2>1. UNCHANGED replayVars /\ pc = "report" /\ pc' \in {"close", "return"}
    BY <1>9 DEF Report, Goto, At
  <2> QED BY <1>0, <2>1, NothingRead DEF AfterReport
<1> QED BY <1>1, <1>2, <1>3, <1>4, <1>5, <1>6, <1>7, <1>8, <1>9 DEF SessionNext, MainStep

\* In every state of a run, what main holds at each place of its code and how
\* far a replay has come in its file are as PlacesInv and ReplayInv say.
THEOREM RunInvariance == SessionSpec => [](PlacesInv /\ ReplayInv)
  BY RunInit, PlacesStep, ReplayStep, PTL DEF SessionSpec

\* However long the file and however it was cut, in either byte order, and
\* whenever a live capture is stopped: the report is printed exactly by the runs
\* that end well, and counts the IP packets among the frames there were.
THEOREM ReportsWhole == SessionSpec => []ReportIsWhole
<1>1. PlacesInv /\ ReplayInv => ReportIsWhole
  <2> SUFFICES ASSUME PlacesInv, ReplayInv PROVE ReportIsWhole
    OBVIOUS
  <2>1. exit = "ok" => reported
    BY DEF PlacesInv, AfterReport
  <2>2. exit \in {"failed", "aborted"} => ~reported
    BY DEF PlacesInv, AfterReport
  <2>3. total = Cardinality({k \in DOMAIN taken : IsIp(taken[k])})
    BY DEF ReplayInv, IpAmong
  <2>4. ASSUME reported, ~Live PROVE taken = WholeFile(session.file)
    <3>1. reported = TRUE
      BY <2>4 DEF PlacesInv
    <3>2. pc = "return"
      BY <2>4, <3>1 DEF PlacesInv, AfterReport
    <3> QED BY <2>4, <3>2 DEF ReplayInv
  <2> QED BY <2>1, <2>2, <2>3, <2>4 DEF ReportIsWhole, WholeFile, ReadableRecords
<1> QED BY <1>1, RunInvariance, PTL

-----------------------------------------------------------------------------
(* The parser within the program.                                          *)

\* The program uses the parser as PacketParser.tla says: only frames are parsed,
\* one after another, into the same packet.
THEOREM ParserInside == SessionSpec => Spec
<1>1. SessionInit => Init
  BY DEF SessionInit
<1>2. ReplayInv /\ PlacesInv /\ [SessionNext]_sessionVars => [Next]_vars
  <2> SUFFICES ASSUME ReplayInv, PlacesInv, [SessionNext]_sessionVars PROVE [Next]_vars
    OBVIOUS
  <2>1. FitsItsFields(session.file) /\ session.traffic \subseteq Frames
    BY SessionsAssumption DEF ReplayInv
  <2>2. CASE ReadPacket
    <3>1. /\ readNextPacket(reader, session.file) /\ pc = "read"
          /\ Handed(NextFrame(reader, session.file))
      BY <2>2 DEF ReadPacket, Goto, At
    <3>2. HasRead(session.file, reader, taken)
      BY <3>1 DEF ReplayInv, PlacesInv, AfterReport, InLoop
    <3>3. NextFrame(reader, session.file) \in Frames
      BY <2>1, <3>1, <3>2, OnePacketMore
    <3> QED BY <3>1, <3>3 DEF Handed, Next
  <2>3. CASE Receive
    BY <2>1, <2>3 DEF Receive, Handed, Next
  <2>4. CASE ~ReadPacket /\ ~Receive
    <3>1. UNCHANGED <<frame, ok, out, touched>>
      BY <2>4 DEF SessionNext, MainStep, ParseArguments, ArgumentsParsed, OpenFile, EndOfFile,
                  OpenFails, OpenDevice, PublishCapture, InstallHandler, LoopCheck, ReadTimeout,
                  LoopFails, Report, CloseStep, Return, Sigint, Finished, LiveStep, replayVars, sessionVars
    <3> QED BY <3>1 DEF vars
  <2> QED BY <2>2, <2>3, <2>4
<1> QED BY <1>1, <1>2, RunInvariance, PTL DEF SessionSpec, Spec

\* In a run of the program, too, parse stays within the frame, leaves nothing of
\* an earlier one, and accepts exactly the sound headers.
THEOREM ParserKeepsItsWord == SessionSpec => [](InBounds /\ NothingStale /\ SoundHeadersAccepted)
  BY ParserInside, ParserStaysInBounds, NothingCarriedOver, HeadersAccepted, PTL

-----------------------------------------------------------------------------
(* The options as they are typed.                                          *)

Texts == Seq(STRING)
OptionRecords == [flag : STRING, values : Texts]

AreOptions(options) ==
    /\ options \in Seq(OptionRecords)
    /\ \A k \in DOMAIN options : <<options[k].flag, Len(options[k].values)>> \in Known

\* No option takes no words.
LEMMA TypedNone == Typed(<<>>) = <<>>
<1>1. Typed(<<>>) = Types!Loop(<<>>, <<>>, {})
  BY DEF Typed, FoldLeft, MapThenFoldSet, Types!Loop, Types!MapThenFoldSet, Typing
<1> QED BY <1>1, Types!LoopEmpty

\* One option more is its flag and its values more.
LEMMA TypedNext ==
    ASSUME NEW S, NEW options \in Seq(S), NEW o \in S
    PROVE  Typed(Append(options, o)) = Typed(options) \o <<o.flag>> \o o.values
<1> DEFINE n == Len(options)
           more == Append(options, o)
<1>1. /\ n \in Nat /\ DOMAIN options = 1..n /\ DOMAIN more = 1..(n + 1)
      /\ more[n + 1] = o /\ \A k \in 1..n : more[k] = options[k]
  OBVIOUS
<1>2. Typed(options) = Types!Loop(options, <<>>, 1..n)
  BY <1>1 DEF Typed, FoldLeft, MapThenFoldSet, Types!Loop, Types!MapThenFoldSet, Typing
<1>3. Typed(more) = Types!Loop(more, <<>>, 1..(n + 1))
  <2> HIDE DEF more
  <2> QED BY <1>1 DEF Typed, FoldLeft, MapThenFoldSet, Types!Loop, Types!MapThenFoldSet, Typing
<1>4. \A k \in 1..n : \A args : Typing(more, k, args) = Typing(options, k, args)
  <2> HIDE DEF more
  <2> QED BY <1>1 DEF Typing
<1> HIDE DEF n, more
<1>5. Types!Loop(more, <<>>, 1..(n + 1)) = Typing(more, n + 1, Types!Loop(options, <<>>, 1..n))
  <2>1. Types!PicksLargest(1..(n + 1))
    BY <1>1, MaxPicks
  <2> QED BY <1>1, <1>4, <2>1, Types!IntervalStep
<1> QED BY <1>1, <1>2, <1>3, <1>5 DEF Typing, more

\* The first k options as they are typed.
TypedUpto(options, k) == Typed(SubSeq(options, 1, k))

\* These arguments go on as those begin.
Begins(a, b) == Len(a) <= Len(b) /\ \A m \in 1..Len(a) : b[m] = a[m]

\* Where an option, its values and what follows them stand.
LEMMA TypedFurther ==
    ASSUME NEW options, AreOptions(options), NEW k \in 0..(Len(options) - 1),
           TypedUpto(options, k) \in Texts
    PROVE  LET a == TypedUpto(options, k)
               b == TypedUpto(options, k + 1)
               o == options[k + 1]
           IN  /\ b \in Texts /\ Begins(a, b)
               /\ Len(b) = Len(a) + 1 + Len(o.values)
               /\ b[Len(a) + 1] = o.flag
               /\ \A m \in 1..Len(o.values) : b[Len(a) + 1 + m] = o.values[m]
<1> DEFINE a == TypedUpto(options, k)
           b == TypedUpto(options, k + 1)
           o == options[k + 1]
           c == a \o <<o.flag>>
           v == o.values
<1>1. options \in Seq(OptionRecords)
  BY DEF AreOptions
<1>2. /\ SubSeq(options, 1, k) \in Seq(OptionRecords) /\ o \in OptionRecords
      /\ SubSeq(options, 1, k + 1) = Append(SubSeq(options, 1, k), o)
  BY <1>1, OneRecordMore
<1>3. b = c \o v
  <2> DEFINE s == SubSeq(options, 1, k)
  <2>1. s \in Seq(OptionRecords) /\ SubSeq(options, 1, k + 1) = Append(s, o)
    BY <1>2
  <2> HIDE DEF s, o
  <2>2. Typed(Append(s, o)) = Typed(s) \o <<o.flag>> \o o.values
    BY <1>2, <2>1, TypedNext
  <2> QED BY <2>1, <2>2 DEF TypedUpto, s
<1>4. o.flag \in STRING /\ v \in Texts
  BY <1>2 DEF OptionRecords
<1> HIDE DEF a, b, o
<1>5. a \in Seq(STRING) /\ <<o.flag>> \in Seq(STRING) /\ Len(<<o.flag>>) = 1 /\ <<o.flag>>[1] = o.flag
  BY <1>4 DEF a, Texts
<1>6. /\ c \in Seq(STRING) /\ Len(c) = Len(a) + 1
      /\ \A m \in 1..Len(a) : c[m] = a[m]
      /\ c[Len(a) + 1] = o.flag
  <2> DEFINE e == <<o.flag>>
  <2>1. e \in Seq(STRING) /\ Len(e) = 1 /\ e[1] = o.flag
    BY <1>5
  <2> HIDE DEF e
  <2>2. a \o e \in Seq(STRING) /\ Len(a \o e) = Len(a) + Len(e)
        /\ \A m \in 1..(Len(a) + Len(e)) : (a \o e)[m] = IF m <= Len(a) THEN a[m] ELSE e[m - Len(a)]
    BY <1>5, <2>1, ConcatProperties
  <2>3. Len(a) \in Nat
    BY <1>5
  <2>4. (a \o e)[Len(a) + 1] = o.flag
    <3>1. Len(a) + 1 \in 1..(Len(a) + Len(e)) /\ ~(Len(a) + 1 <= Len(a)) /\ Len(a) + 1 - Len(a) = 1
      BY <2>1, <2>3
    <3> QED BY <2>1, <2>2, <3>1
  <2>5. \A m \in 1..Len(a) : (a \o e)[m] = a[m]
    BY <2>1, <2>2, <2>3
  <2> QED BY <2>1, <2>2, <2>4, <2>5 DEF e
<1> HIDE DEF c, v
<1>7. /\ b \in Seq(STRING) /\ Len(b) = Len(c) + Len(v)
      /\ \A m \in 1..(Len(c) + Len(v)) : b[m] = IF m <= Len(c) THEN c[m] ELSE v[m - Len(c)]
  BY <1>3, <1>4, <1>6, ConcatProperties DEF Texts
<1>8. Len(a) \in Nat /\ Len(c) \in Nat /\ Len(v) \in Nat
  BY <1>4, <1>5, <1>6 DEF Texts
<1>9. \A m \in 1..Len(a) : b[m] = a[m]
  BY <1>6, <1>7, <1>8
<1>10. b[Len(a) + 1] = o.flag
  BY <1>6, <1>7, <1>8
<1>11. ASSUME NEW m \in 1..Len(v) PROVE b[Len(a) + 1 + m] = v[m]
  <2>1. Len(c) + m \in 1..(Len(c) + Len(v)) /\ ~(Len(c) + m <= Len(c)) /\ Len(c) + m - Len(c) = m
    BY <1>8
  <2>2. b[Len(c) + m] = v[m]
    BY <1>7, <2>1
  <2> QED BY <1>6, <2>2
<1>12. Len(a) <= Len(b)
  BY <1>6, <1>7, <1>8
<1> QED BY <1>6, <1>7, <1>9, <1>10, <1>11, <1>12 DEF Begins, Texts, a, b, o, v

\* What was typed for the first options stands at the beginning of it all.
LEMMA TypedBegins ==
    ASSUME NEW options, AreOptions(options)
    PROVE  \A m \in 0..Len(options) :
              /\ TypedUpto(options, m) \in Texts
              /\ \A k \in 0..m : /\ TypedUpto(options, k) \in Texts
                                 /\ Begins(TypedUpto(options, k), TypedUpto(options, m))
<1> DEFINE n == Len(options)
           T(k) == TypedUpto(options, k)
           Sorted(m) == \A k \in 0..m : T(k) \in Texts /\ Begins(T(k), T(m))
           Good == {m \in Nat : m <= n => Sorted(m)}
<1>0. n \in Nat
  BY DEF AreOptions
<1>1. \A a \in Texts : Len(a) \in Nat /\ Begins(a, a)
  BY DEF Texts, Begins
<1>2. 0 \in Good
  <2>1. T(0) = <<>>
    <3>1. SubSeq(options, 1, 0) = <<>>
      BY SubSeqEmpty
    <3> QED BY <3>1, TypedNone DEF TypedUpto
  <2>2. <<>> \in Texts
    BY DEF Texts
  <2> QED BY <1>1, <2>1, <2>2
<1>3. ASSUME NEW m \in Nat, m \in Good PROVE m + 1 \in Good
  <2> SUFFICES ASSUME m + 1 <= n PROVE Sorted(m + 1)
    OBVIOUS
  <2>1. m \in 0..(n - 1) /\ Sorted(m) /\ m \in 0..m
    BY <1>0, <1>3
  <2>2. T(m) \in Texts
    BY <2>1
  <2>3. T(m + 1) \in Texts /\ Begins(T(m), T(m + 1))
    BY <2>1, <2>2, TypedFurther
  <2>4. ASSUME NEW k \in 0..(m + 1) PROVE T(k) \in Texts /\ Begins(T(k), T(m + 1))
    <3>1. CASE k = m + 1
      BY <1>1, <2>3, <3>1
    <3>2. CASE k \in 0..m
      <4>1. T(k) \in Texts /\ Begins(T(k), T(m))
        BY <2>1, <3>2
      <4> HIDE DEF T
      <4>2. Len(T(k)) \in Nat /\ Len(T(m)) \in Nat /\ Len(T(m + 1)) \in Nat
        BY <1>1, <2>2, <2>3, <4>1
      <4>3. Begins(T(k), T(m + 1))
        BY <2>3, <4>1, <4>2 DEF Begins
      <4> QED BY <4>1, <4>3
    <3> QED BY <3>1, <3>2
  <2> QED BY <2>4
<1>4. Nat \subseteq Good
  <2> HIDE DEF Good
  <2> QED BY <1>2, <1>3, Types!CountingUp
<1>5. ASSUME NEW m \in 0..n PROVE Sorted(m) /\ T(m) \in Texts
  <2>1. m \in Good /\ m <= n /\ m \in 0..m
    BY <1>0, <1>4
  <2> QED BY <2>1
<1> QED BY <1>5

\* A command line.
OnLine(target, options, tail) == target \o Typed(options) \o tail

\* Where the first k options end on it.
Behind(target, options, k) == Len(target) + Len(TypedUpto(options, k))

\* Option k + 1 and its values are on this line.
OptionStands(line, target, options, k) ==
    LET p == Behind(target, options, k)
        o == options[k + 1]
    IN  /\ p \in Nat /\ p + 1 + Len(o.values) <= Len(line)
        /\ line[p + 1] = o.flag
        /\ \A m \in 1..Len(o.values) : line[p + 1 + m] = o.values[m]
        /\ Behind(target, options, k + 1) = p + 1 + Len(o.values)

\* The target and what is behind the options are on this line.
EndsStand(line, target, options, tail) ==
    LET p == Behind(target, options, Len(options))
    IN  /\ p \in Nat /\ Len(line) = p + Len(tail) /\ line \in Texts
        /\ tail # <<>> => line[p + 1] = tail[1]
        /\ Len(target) <= p /\ \A m \in 1..Len(target) : line[m] = target[m]
        /\ Behind(target, options, 0) = Len(target)

\* An option and its values are found where those before it end.
LEMMA OptionOnLine ==
    ASSUME NEW target \in Texts, NEW options, AreOptions(options), NEW tail \in Texts,
           NEW line, line = OnLine(target, options, tail),
           NEW k \in 0..(Len(options) - 1)
    PROVE  OptionStands(line, target, options, k)
<1> DEFINE n == Len(options)
           a == TypedUpto(options, k)
           b == TypedUpto(options, k + 1)
           all == TypedUpto(options, n)
           o == options[k + 1]
           v == o.values
<1>1. options \in Seq(OptionRecords) /\ n \in Nat
  BY DEF AreOptions
<1>2. v \in Texts /\ Len(v) \in Nat
  <2>1. o \in OptionRecords
    BY <1>1
  <2> QED BY <2>1 DEF OptionRecords, Texts
<1>3. all = Typed(options)
  BY <1>1, SubSeqFull DEF TypedUpto
<1>4. a \in Texts /\ b \in Texts /\ all \in Texts /\ Begins(b, all)
  <2>1. n \in 0..n /\ k \in 0..n /\ k + 1 \in 0..n
    BY <1>1
  <2> QED BY <2>1, TypedBegins
<1>5. /\ Len(b) = Len(a) + 1 + Len(v)
      /\ b[Len(a) + 1] = o.flag
      /\ \A m \in 1..Len(v) : b[Len(a) + 1 + m] = v[m]
  BY <1>4, TypedFurther
<1> HIDE DEF a, b, all, o, v
<1>6. Len(a) \in Nat /\ Len(b) \in Nat /\ Len(all) \in Nat /\ Len(target) \in Nat /\ Len(tail) \in Nat
  BY <1>4 DEF Texts
<1>7. /\ Len(line) = Len(target) + Len(all) + Len(tail)
      /\ \A m \in 1..Len(all) : line[Len(target) + m] = all[m]
  <2> DEFINE c == target \o all
  <2>1. c \in Seq(STRING) /\ Len(c) = Len(target) + Len(all)
        /\ \A m \in 1..(Len(target) + Len(all)) : c[m] = IF m <= Len(target) THEN target[m] ELSE all[m - Len(target)]
    BY <1>4, ConcatProperties DEF Texts
  <2>2. line = c \o tail
    BY <1>3 DEF OnLine
  <2> HIDE DEF c
  <2>3. Len(line) = Len(c) + Len(tail)
        /\ \A m \in 1..(Len(c) + Len(tail)) : line[m] = IF m <= Len(c) THEN c[m] ELSE tail[m - Len(c)]
    <3>1. c \in Seq(STRING) /\ tail \in Seq(STRING)
      BY <2>1 DEF Texts
    <3>2. /\ Len(c \o tail) = Len(c) + Len(tail)
          /\ \A m \in 1..(Len(c) + Len(tail)) : (c \o tail)[m] = IF m <= Len(c) THEN c[m] ELSE tail[m - Len(c)]
      BY ONLY <3>1, ConcatProperties
    <3> QED BY ONLY <2>2, <3>2
  <2>4. ASSUME NEW m \in 1..Len(all) PROVE line[Len(target) + m] = all[m]
    <3>1. /\ Len(target) + m \in 1..(Len(target) + Len(all)) /\ ~(Len(target) + m <= Len(target))
          /\ Len(target) + m - Len(target) = m
          /\ Len(target) + m \in 1..(Len(c) + Len(tail)) /\ Len(target) + m <= Len(c)
      BY <1>6, <2>1
    <3>2. c[Len(target) + m] = all[m]
      BY <2>1, <3>1
    <3> QED BY <2>3, <3>1, <3>2
  <2> QED BY <2>1, <2>3, <2>4
<1>8. Len(b) <= Len(all) /\ \A m \in 1..Len(b) : line[Len(target) + m] = b[m]
  <2>1. Len(b) <= Len(all) /\ \A m \in 1..Len(b) : all[m] = b[m]
    BY <1>4 DEF Begins
  <2>2. ASSUME NEW m \in 1..Len(b) PROVE line[Len(target) + m] = b[m]
    <3>1. m \in 1..Len(all)
      BY <1>6, <2>1
    <3> QED BY <1>7, <2>1, <3>1
  <2> QED BY <2>1, <2>2
<1> DEFINE p == Len(target) + Len(a)
<1>9. p \in Nat /\ p + 1 + Len(v) <= Len(line)
  BY <1>2, <1>5, <1>6, <1>7, <1>8
<1>10. line[p + 1] = o.flag
  <2>1. Len(a) + 1 \in 1..Len(b) /\ Len(target) + (Len(a) + 1) = p + 1
    BY <1>2, <1>5, <1>6
  <2> HIDE DEF p
  <2>2. line[Len(target) + (Len(a) + 1)] = b[Len(a) + 1]
    BY <1>8, <2>1
  <2> QED BY <1>5, <2>1, <2>2
<1>11. ASSUME NEW m \in 1..Len(v) PROVE line[p + 1 + m] = v[m]
  <2>1. Len(a) + 1 + m \in 1..Len(b) /\ Len(target) + (Len(a) + 1 + m) = p + 1 + m
    BY <1>2, <1>5, <1>6
  <2> HIDE DEF p
  <2>2. line[Len(target) + (Len(a) + 1 + m)] = b[Len(a) + 1 + m]
    BY <1>8, <2>1
  <2> QED BY <1>5, <2>1, <2>2
<1>12. Len(target) + Len(b) = p + 1 + Len(v)
  BY <1>2, <1>5, <1>6
<1> QED BY <1>9, <1>10, <1>11, <1>12 DEF OptionStands, Behind, a, b, o, v

\* And behind all the options stand the remaining arguments.
LEMMA TailOnLine ==
    ASSUME NEW target \in Texts, NEW options, AreOptions(options), NEW tail \in Texts,
           NEW line, line = OnLine(target, options, tail)
    PROVE  EndsStand(line, target, options, tail)
<1> DEFINE n == Len(options)
           all == TypedUpto(options, n)
<1>1. options \in Seq(OptionRecords) /\ n \in Nat
  BY DEF AreOptions
<1>2. all = Typed(options)
  BY <1>1, SubSeqFull DEF TypedUpto
<1>3. all \in Seq(STRING) /\ target \in Seq(STRING) /\ tail \in Seq(STRING)
  BY <1>1, TypedBegins DEF Texts
<1>4. Behind(target, options, 0) = Len(target)
  <2>1. TypedUpto(options, 0) = <<>>
    <3>1. SubSeq(options, 1, 0) = <<>>
      BY SubSeqEmpty
    <3> QED BY <3>1, TypedNone DEF TypedUpto
  <2> QED BY <1>3, <2>1 DEF Behind
<1> HIDE DEF all
<1> DEFINE c == target \o all
<1>5. /\ c \in Seq(STRING) /\ Len(c) = Len(target) + Len(all)
      /\ \A m \in 1..(Len(target) + Len(all)) : c[m] = IF m <= Len(target) THEN target[m] ELSE all[m - Len(target)]
  BY <1>3, ConcatProperties
<1>6. line = c \o tail
  BY <1>2 DEF OnLine
<1> HIDE DEF c
<1>7. /\ line \in Seq(STRING) /\ Len(line) = Len(c) + Len(tail)
      /\ \A m \in 1..(Len(c) + Len(tail)) : line[m] = IF m <= Len(c) THEN c[m] ELSE tail[m - Len(c)]
  <2>1. c \in Seq(STRING) /\ tail \in Seq(STRING)
    BY <1>3, <1>5
  <2>2. /\ c \o tail \in Seq(STRING) /\ Len(c \o tail) = Len(c) + Len(tail)
        /\ \A m \in 1..(Len(c) + Len(tail)) : (c \o tail)[m] = IF m <= Len(c) THEN c[m] ELSE tail[m - Len(c)]
    BY ONLY <2>1, ConcatProperties
  <2> QED BY ONLY <1>6, <2>2
<1>8. Len(target) \in Nat /\ Len(all) \in Nat /\ Len(tail) \in Nat
  BY <1>3
<1>9. ASSUME NEW m \in 1..Len(target) PROVE line[m] = target[m]
  <2>1. m \in 1..(Len(target) + Len(all)) /\ m <= Len(target) /\ m \in 1..(Len(c) + Len(tail)) /\ m <= Len(c)
    BY <1>5, <1>8
  <2> QED BY <1>5, <1>7, <2>1
<1>10. ASSUME tail # <<>> PROVE line[Len(c) + 1] = tail[1]
  <2>1. Len(tail) > 0
    BY <1>3, <1>10, EmptySeq
  <2>2. Len(c) + 1 \in 1..(Len(c) + Len(tail)) /\ ~(Len(c) + 1 <= Len(c)) /\ Len(c) + 1 - Len(c) = 1
    BY <1>5, <1>8, <2>1
  <2> QED BY <1>7, <2>2
<1>11. Behind(target, options, n) = Len(c) /\ Len(c) \in Nat /\ Len(target) <= Len(c)
  BY <1>5, <1>8 DEF Behind, all
<1> QED BY <1>4, <1>7, <1>9, <1>10, <1>11 DEF EndsStand, Texts

-----------------------------------------------------------------------------
(* What was asked for.                                                     *)

\* No option gives a flag no values.
LEMMA ValuesNone == ASSUME NEW flag PROVE Values(<<>>, flag) = <<>>
<1> DEFINE env == [options |-> <<>>, flag |-> flag]
<1>1. Values(<<>>, flag) = Gathers!Loop(env, <<>>, {})
  BY DEF Values, FoldLeft, MapThenFoldSet, Gathers!Loop, Gathers!MapThenFoldSet, Collecting
<1> QED BY <1>1, Gathers!LoopEmpty

\* The values of an option given last come last.
LEMMA ValuesNext ==
    ASSUME NEW flag, NEW S, NEW options \in Seq(S), NEW o \in S
    PROVE  Values(Append(options, o), flag) =
              IF o.flag = flag THEN Append(Values(options, flag), o.values) ELSE Values(options, flag)
<1> DEFINE n == Len(options)
           more == Append(options, o)
           Env(s) == [options |-> s, flag |-> flag]
<1>1. /\ n \in Nat /\ DOMAIN options = 1..n /\ DOMAIN more = 1..(n + 1)
      /\ more[n + 1] = o /\ \A k \in 1..n : more[k] = options[k]
  OBVIOUS
<1>2. Values(options, flag) = Gathers!Loop(Env(options), <<>>, 1..n)
  BY <1>1 DEF Values, FoldLeft, MapThenFoldSet, Gathers!Loop, Gathers!MapThenFoldSet, Collecting
<1>3. Values(more, flag) = Gathers!Loop(Env(more), <<>>, 1..(n + 1))
  <2> HIDE DEF more
  <2> QED BY <1>1 DEF Values, FoldLeft, MapThenFoldSet, Gathers!Loop, Gathers!MapThenFoldSet, Collecting
<1>4. \A k \in 1..n : \A given : Collecting(Env(more), k, given) = Collecting(Env(options), k, given)
  <2> HIDE DEF more
  <2> QED BY <1>1 DEF Collecting
<1>5. \A given : Collecting(Env(more), n + 1, given) =
                   IF o.flag = flag THEN Append(given, o.values) ELSE given
  <2> HIDE DEF more
  <2> QED BY <1>1 DEF Collecting
<1> HIDE DEF n, more, Env
<1>6. Gathers!Loop(Env(more), <<>>, 1..(n + 1))
        = Collecting(Env(more), n + 1, Gathers!Loop(Env(options), <<>>, 1..n))
  <2>1. Gathers!PicksLargest(1..(n + 1))
    BY <1>1, MaxPicks
  <2> QED BY <1>1, <1>4, <2>1, Gathers!IntervalStep
<1> QED BY <1>2, <1>3, <1>5, <1>6 DEF more

\* What the first k options say about one of them.
Given(options, k, flag) == Values(SubSeq(options, 1, k), flag)

\* What a flag was given grows with each option that is this flag.
LEMMA GivenNext ==
    ASSUME NEW options, AreOptions(options), NEW flag
    PROVE  /\ Given(options, 0, flag) = <<>>
           /\ \A k \in 0..(Len(options) - 1) :
                 Given(options, k + 1, flag) =
                    IF options[k + 1].flag = flag THEN Append(Given(options, k, flag), options[k + 1].values)
                    ELSE Given(options, k, flag)
<1>1. Given(options, 0, flag) = <<>>
  <2>1. SubSeq(options, 1, 0) = <<>>
    BY SubSeqEmpty
  <2> QED BY <2>1, ValuesNone DEF Given
<1>2. ASSUME NEW k \in 0..(Len(options) - 1)
      PROVE  Given(options, k + 1, flag) =
                IF options[k + 1].flag = flag THEN Append(Given(options, k, flag), options[k + 1].values)
                ELSE Given(options, k, flag)
  <2> DEFINE s == SubSeq(options, 1, k)
             o == options[k + 1]
  <2>1. /\ s \in Seq(OptionRecords) /\ o \in OptionRecords
        /\ SubSeq(options, 1, k + 1) = Append(s, o)
    BY OneRecordMore DEF AreOptions
  <2> HIDE DEF s, o
  <2>2. Values(Append(s, o), flag) =
              IF o.flag = flag THEN Append(Values(s, flag), o.values) ELSE Values(s, flag)
    BY <2>1, ValuesNext
  <2> QED BY <2>1, <2>2 DEF Given, s, o
<1> QED BY <1>1, <1>2

\* Values an option may have.
ValuesOf(flag) == {v \in Texts : <<flag, Len(v)>> \in Known}

\* What a flag was given has as many words each time as main.cpp takes for it.
LEMMA GivenAreValues ==
    ASSUME NEW options, AreOptions(options), NEW flag
    PROVE  \A k \in 0..Len(options) : Given(options, k, flag) \in Seq(ValuesOf(flag))
<1> DEFINE n == Len(options)
           Good == {k \in Nat : k <= n => Given(options, k, flag) \in Seq(ValuesOf(flag))}
<1>1. n \in Nat /\ \A k \in 1..n : options[k].flag = flag => options[k].values \in ValuesOf(flag)
  <2>1. options \in Seq(OptionRecords) /\ \A k \in 1..n : <<options[k].flag, Len(options[k].values)>> \in Known
    BY DEF AreOptions
  <2>2. \A k \in 1..n : options[k] \in OptionRecords
    BY <2>1
  <2> QED BY <2>1, <2>2 DEF OptionRecords, ValuesOf
<1>2. 0 \in Good
  <2>1. <<>> \in Seq(ValuesOf(flag))
    BY EmptySeq
  <2> QED BY <2>1, GivenNext
<1>3. ASSUME NEW k \in Nat, k \in Good PROVE k + 1 \in Good
  <2> SUFFICES ASSUME k + 1 <= n PROVE Given(options, k + 1, flag) \in Seq(ValuesOf(flag))
    OBVIOUS
  <2>1. k \in 0..(n - 1) /\ k + 1 \in 1..n /\ Given(options, k, flag) \in Seq(ValuesOf(flag))
    BY <1>1, <1>3
  <2>2. CASE options[k + 1].flag = flag
    <3>1. Append(Given(options, k, flag), options[k + 1].values) \in Seq(ValuesOf(flag))
      BY <1>1, <2>1, <2>2, AppendProperties
    <3> QED BY <2>1, <2>2, <3>1, GivenNext
  <2>3. CASE options[k + 1].flag # flag
    BY <2>1, <2>3, GivenNext
  <2> QED BY <2>2, <2>3
<1>4. Nat \subseteq Good
  <2> HIDE DEF Good
  <2> QED BY <1>2, <1>3, Gathers!CountingUp
<1> QED BY <1>1, <1>4

\* What is made of the values given for an option.
IpsOf(given) == {Addresses[v[1]] : v \in {w \in ToSet(given) : w[1] \in DOMAIN Addresses}}
DomainsOf(given) == [k \in DOMAIN given |-> given[k][1]]
PortsOf(given) ==
    {<<IF v[1] = "tcp" THEN "TCP" ELSE "UDP", Ports[v[2]]>> :
        v \in {w \in ToSet(given) : w[1] \in {"tcp", "udp"} /\ w[2] \in DOMAIN Ports}}
WorkersOf(given) ==
    IF given = <<>> \/ Counts[given[Len(given)][1]] = 0 THEN 1 ELSE Counts[given[Len(given)][1]]

\* Rules and a number of workers that are what the first k options ask for.
AskedUpto(r, w, options, k) ==
    /\ r.blocked_ips = IpsOf(Given(options, k, "--block-ip"))
    /\ r.blocked_domains = DomainsOf(Given(options, k, "--block-domain"))
    /\ r.blocked_ports = PortsOf(Given(options, k, "--block-port"))
    /\ w = WorkersOf(Given(options, k, "--workers"))

IsRuleSet(r) == DOMAIN r = {"blocked_ips", "blocked_ports", "blocked_domains"}

\* The last of a list of values.
LEMMA LastGiven ==
    ASSUME NEW given \in Seq(Texts), NEW v \in Texts
    PROVE  /\ ToSet(Append(given, v)) = ToSet(given) \cup {v}
           /\ Append(given, v) # <<>>
           /\ Append(given, v)[Len(Append(given, v))] = v
<1> DEFINE n == Len(given)
           more == Append(given, v)
<1>1. /\ n \in Nat /\ DOMAIN given = 1..n /\ DOMAIN more = 1..(n + 1) /\ Len(more) = n + 1 /\ more # <<>>
      /\ more[n + 1] = v /\ \A k \in 1..n : more[k] = given[k]
  OBVIOUS
<1>2. \A k : k \in 1..(n + 1) <=> k \in 1..n \/ k = n + 1
  BY <1>1
<1>3. ToSet(more) = ToSet(given) \cup {v}
  <2> HIDE DEF more, n
  <2> QED BY <1>1, <1>2 DEF ToSet
<1> QED BY <1>1, <1>3

\* Another --block-ip blocks its address, if it is one.
LEMMA IpsNext ==
    ASSUME NEW given \in Seq(Texts), NEW v \in Texts
    PROVE  IpsOf(Append(given, v)) =
             IF v[1] \in DOMAIN Addresses THEN IpsOf(given) \cup {Addresses[v[1]]} ELSE IpsOf(given)
<1> DEFINE more == Append(given, v)
<1>1. ToSet(more) = ToSet(given) \cup {v}
  BY LastGiven
<1> HIDE DEF more
<1>2. IpsOf(more) = IF v[1] \in DOMAIN Addresses THEN IpsOf(given) \cup {Addresses[v[1]]} ELSE IpsOf(given)
  BY <1>1 DEF IpsOf
<1> QED BY <1>2 DEF more

\* Another --block-domain appends its rule.
LEMMA DomainsNext ==
    ASSUME NEW given \in Seq(Texts), NEW v \in Texts, Len(v) = 1, \A w \in ToSet(given) : Len(w) = 1
    PROVE  DomainsOf(Append(given, v)) = Append(DomainsOf(given), v[1])
<1> DEFINE n == Len(given)
           more == Append(given, v)
           d == DomainsOf(given)
           e == DomainsOf(more)
<1>1. /\ n \in Nat /\ DOMAIN given = 1..n /\ DOMAIN more = 1..(n + 1)
      /\ more[n + 1] = v /\ \A k \in 1..n : more[k] = given[k] /\ given[k] \in Texts
  OBVIOUS
<1>2. \A k : k \in 1..(n + 1) <=> k \in 1..n \/ k = n + 1
  BY <1>1
<1>3. v[1] \in STRING /\ \A k \in 1..n : given[k][1] \in STRING
  <2>1. ASSUME NEW w \in Texts, Len(w) = 1 PROVE w[1] \in STRING
    <3>1. w \in Seq(STRING) /\ 1 \in 1..Len(w)
      BY <2>1 DEF Texts
    <3> QED BY <3>1, ElementOfSeq
  <2>2. \A k \in 1..n : Len(given[k]) = 1
    BY <1>1 DEF ToSet
  <2> QED BY <1>1, <2>1, <2>2
<1>4. d \in [1..n -> STRING] /\ \A k \in 1..n : d[k] = given[k][1]
  <2> HIDE DEF n
  <2> QED BY <1>1, <1>3 DEF DomainsOf
<1>5. d \in Seq(STRING) /\ Len(d) = n
  <2> HIDE DEF d
  <2> QED BY <1>1, <1>4
<1>6. e \in [1..(n + 1) -> STRING] /\ e[n + 1] = v[1] /\ \A k \in 1..n : e[k] = given[k][1]
  <2> HIDE DEF n, more
  <2> QED BY <1>1, <1>2, <1>3 DEF DomainsOf
<1>7. e \in Seq(STRING) /\ Len(e) = n + 1
  <2> HIDE DEF e
  <2> QED BY <1>1, <1>6
<1> HIDE DEF d, e, n, more
<1>8. /\ Append(d, v[1]) \in Seq(STRING) /\ Len(Append(d, v[1])) = n + 1
      /\ Append(d, v[1])[n + 1] = v[1] /\ \A k \in 1..n : Append(d, v[1])[k] = d[k]
  BY <1>3, <1>5, AppendProperties
<1>9. \A k \in 1..Len(e) : e[k] = Append(d, v[1])[k]
  BY <1>2, <1>4, <1>6, <1>7, <1>8
<1>10. e = Append(d, v[1])
  BY <1>7, <1>8, <1>9, SeqEqual
<1> QED BY <1>10 DEF d, e, more

\* Another --block-port blocks its port, if protocol and port can be read.
LEMMA PortsNext ==
    ASSUME NEW given \in Seq(Texts), NEW v \in Texts
    PROVE  PortsOf(Append(given, v)) =
             IF v[1] \in {"tcp", "udp"} /\ v[2] \in DOMAIN Ports
             THEN PortsOf(given) \cup {<<Protocol(v[1]), Ports[v[2]]>>} ELSE PortsOf(given)
<1> DEFINE more == Append(given, v)
           good(w) == w[1] \in {"tcp", "udp"} /\ w[2] \in DOMAIN Ports
           port(w) == <<IF w[1] = "tcp" THEN "TCP" ELSE "UDP", Ports[w[2]]>>
<1>1. ToSet(more) = ToSet(given) \cup {v}
  BY LastGiven
<1>2. \A s : PortsOf(s) = {port(w) : w \in {u \in ToSet(s) : good(u)}}
  BY DEF PortsOf
<1>3. good(v) => port(v) = <<Protocol(v[1]), Ports[v[2]]>>
  BY DEF Protocol
<1> HIDE DEF more, good, port
<1>4. PortsOf(more) = IF good(v) THEN PortsOf(given) \cup {port(v)} ELSE PortsOf(given)
  BY <1>1, <1>2
<1>5. PortsOf(more) = IF good(v) THEN PortsOf(given) \cup {<<Protocol(v[1]), Ports[v[2]]>>} ELSE PortsOf(given)
  BY <1>3, <1>4
<1> QED BY <1>5 DEF more, good

\* The last --workers decides, and zero means one.
LEMMA WorkersNext ==
    ASSUME NEW given \in Seq(Texts), NEW v \in Texts
    PROVE  WorkersOf(Append(given, v)) = IF Counts[v[1]] = 0 THEN 1 ELSE Counts[v[1]]
<1> DEFINE more == Append(given, v)
<1>1. more # <<>> /\ more[Len(more)] = v
  BY LastGiven
<1> HIDE DEF more
<1>2. WorkersOf(more) = IF Counts[v[1]] = 0 THEN 1 ELSE Counts[v[1]]
  BY <1>1 DEF WorkersOf
<1> QED BY <1>2 DEF more

-----------------------------------------------------------------------------
(* The loop over the arguments.                                            *)

\* What is known when the loop comes to option k + 1.
LEMMA AskedNext ==
    ASSUME NEW options, AreOptions(options), NEW k \in 0..(Len(options) - 1),
           NEW r, IsRuleSet(r), NEW w, AskedUpto(r, w, options, k)
    PROVE  LET o == options[k + 1]
               v == o.values
               ips == IF v[1] \in DOMAIN Addresses THEN addBlockedIp(r, Addresses[v[1]]) ELSE r
               domains == addBlockedDomain(r, v[1])
               ports == IF v[2] \in DOMAIN Ports
                        THEN addBlockedPort(r, Protocol(v[1]), Ports[v[2]]) ELSE r
               workers == IF Counts[v[1]] = 0 THEN 1 ELSE Counts[v[1]]
           IN  /\ o.flag = "--block-ip" => IsRuleSet(ips) /\ AskedUpto(ips, w, options, k + 1)
               /\ o.flag = "--block-domain" => IsRuleSet(domains) /\ AskedUpto(domains, w, options, k + 1)
               /\ o.flag = "--block-port" => IsRuleSet(ports) /\ AskedUpto(ports, w, options, k + 1)
               /\ o.flag = "--workers" => AskedUpto(r, workers, options, k + 1)
<1> DEFINE o == options[k + 1]
           v == o.values
           G(flag) == Given(options, k, flag)
           H(flag) == Given(options, k + 1, flag)
<1>1. \A flag : H(flag) = IF o.flag = flag THEN Append(G(flag), v) ELSE G(flag)
  BY GivenNext
<1>2. \A flag : G(flag) \in Seq(ValuesOf(flag)) /\ G(flag) \in Seq(Texts)
  <2>1. Len(options) \in Nat
    BY DEF AreOptions
  <2>2. \A flag : G(flag) \in Seq(ValuesOf(flag))
    BY <2>1, GivenAreValues
  <2>3. \A flag : ValuesOf(flag) \subseteq Texts
    BY DEF ValuesOf
  <2> HIDE DEF G
  <2>4. \A flag : G(flag) \in Seq(Texts)
    BY <2>2, <2>3, SeqMonotonic
  <2> QED BY <2>2, <2>4
<1>3. v \in Texts /\ <<o.flag, Len(v)>> \in Known
  <2>1. options \in Seq(OptionRecords) /\ k + 1 \in 1..Len(options)
    BY DEF AreOptions
  <2>2. o \in OptionRecords
    BY <2>1
  <2> QED BY <2>1, <2>2 DEF OptionRecords, AreOptions
<1>4. /\ r.blocked_ips = IpsOf(G("--block-ip"))
      /\ r.blocked_domains = DomainsOf(G("--block-domain"))
      /\ r.blocked_ports = PortsOf(G("--block-port"))
      /\ w = WorkersOf(G("--workers"))
  BY DEF AskedUpto
<1>5. ASSUME NEW s, NEW x,
             s.blocked_ips = IpsOf(H("--block-ip")), s.blocked_domains = DomainsOf(H("--block-domain")),
             s.blocked_ports = PortsOf(H("--block-port")), x = WorkersOf(H("--workers"))
      PROVE  AskedUpto(s, x, options, k + 1)
  BY <1>5 DEF AskedUpto
<1> HIDE DEF G, H, o, v
<1>6. CASE o.flag = "--block-ip"
  <2> DEFINE s == IF v[1] \in DOMAIN Addresses THEN addBlockedIp(r, Addresses[v[1]]) ELSE r
  <2>1. /\ IsRuleSet(s) /\ s.blocked_domains = r.blocked_domains /\ s.blocked_ports = r.blocked_ports
        /\ s.blocked_ips = IF v[1] \in DOMAIN Addresses THEN r.blocked_ips \cup {Addresses[v[1]]}
                           ELSE r.blocked_ips
    BY DEF addBlockedIp, IsRuleSet
  <2>2. s.blocked_ips = IpsOf(H("--block-ip"))
    <3> HIDE DEF s
    <3>1. H("--block-ip") = Append(G("--block-ip"), v) /\ G("--block-ip") \in Seq(Texts)
      BY <1>1, <1>2, <1>6
    <3> QED BY <1>3, <1>4, <2>1, <3>1, IpsNext
  <2> HIDE DEF s
  <2>3. AskedUpto(s, w, options, k + 1)
    BY <1>1, <1>4, <1>5, <1>6, <2>1, <2>2
  <2> QED BY <1>6, <2>1, <2>3 DEF s, o, v
<1>7. CASE o.flag = "--block-domain"
  <2> DEFINE s == addBlockedDomain(r, v[1])
             given == G("--block-domain")
  <2>1. /\ IsRuleSet(s) /\ s.blocked_ips = r.blocked_ips /\ s.blocked_ports = r.blocked_ports
        /\ s.blocked_domains = Append(r.blocked_domains, v[1])
    BY DEF addBlockedDomain, IsRuleSet
  <2>2. s.blocked_domains = DomainsOf(H("--block-domain"))
    <3> HIDE DEF s
    <3>1. H("--block-domain") = Append(given, v) /\ given \in Seq(Texts)
      BY <1>1, <1>2, <1>7
    <3>2. Len(v) = 1
      BY <1>3, <1>7 DEF Known
    <3>3. \A x \in ToSet(given) : Len(x) = 1
      <4>1. given \in Seq(ValuesOf("--block-domain"))
        BY <1>2
      <4>2. \A x \in ValuesOf("--block-domain") : Len(x) = 1
        BY DEF ValuesOf, Known
      <4> HIDE DEF given
      <4> QED BY <4>1, <4>2 DEF ToSet
    <3> HIDE DEF given
    <3>4. DomainsOf(Append(given, v)) = Append(DomainsOf(given), v[1])
      BY <1>3, <3>1, <3>2, <3>3, DomainsNext
    <3> QED BY <1>4, <2>1, <3>1, <3>4 DEF given
  <2> HIDE DEF s
  <2>3. AskedUpto(s, w, options, k + 1)
    BY <1>1, <1>4, <1>5, <1>7, <2>1, <2>2
  <2> QED BY <1>7, <2>1, <2>3 DEF s, o, v
<1>8. CASE o.flag = "--block-port"
  <2> DEFINE s == IF v[2] \in DOMAIN Ports THEN addBlockedPort(r, Protocol(v[1]), Ports[v[2]]) ELSE r
             good == v[1] \in {"tcp", "udp"} /\ v[2] \in DOMAIN Ports
  <2>0. Protocol(v[1]) \in {"TCP", "UDP"} <=> v[1] \in {"tcp", "udp"}
    BY DEF Protocol
  <2>1. /\ IsRuleSet(s) /\ s.blocked_ips = r.blocked_ips /\ s.blocked_domains = r.blocked_domains
        /\ s.blocked_ports = IF good THEN r.blocked_ports \cup {<<Protocol(v[1]), Ports[v[2]]>>}
                             ELSE r.blocked_ports
    BY <2>0 DEF addBlockedPort, IsRuleSet
  <2>2. s.blocked_ports = PortsOf(H("--block-port"))
    <3> HIDE DEF s
    <3>1. H("--block-port") = Append(G("--block-port"), v) /\ G("--block-port") \in Seq(Texts)
      BY <1>1, <1>2, <1>8
    <3> QED BY <1>3, <1>4, <2>1, <3>1, PortsNext
  <2> HIDE DEF s
  <2>3. AskedUpto(s, w, options, k + 1)
    BY <1>1, <1>4, <1>5, <1>8, <2>1, <2>2
  <2> QED BY <1>8, <2>1, <2>3 DEF s, o, v
<1>9. CASE o.flag = "--workers"
  <2> DEFINE x == IF Counts[v[1]] = 0 THEN 1 ELSE Counts[v[1]]
  <2>1. x = WorkersOf(H("--workers"))
    <3>1. H("--workers") = Append(G("--workers"), v) /\ G("--workers") \in Seq(Texts)
      BY <1>1, <1>2, <1>9
    <3> QED BY <1>3, <3>1, WorkersNext
  <2> HIDE DEF x
  <2>2. AskedUpto(r, x, options, k + 1)
    BY <1>1, <1>4, <1>5, <1>9, <2>1
  <2> QED BY <1>9, <2>2 DEF x, o, v
<1>10. CASE o.flag \notin {"--block-ip", "--block-domain", "--block-port", "--workers"}
  BY <1>10 DEF o
<1> QED BY <1>6, <1>7, <1>8, <1>9, <1>10

\* The loop has come to argument j with these rules and workers.
LoopAt(s, j, r, w) ==
    \/ j = 0 /\ AskedUpto(r, w, s.options, 0)
    \/ \E k \in 0..Len(s.options) :
          j = Behind(s.target, s.options, k) + 1 /\ AskedUpto(r, w, s.options, k)

OptionsInv ==
    /\ session \in Sessions
    /\ argv = OnLine(session.target, session.options, session.tail)
    /\ IsRuleSet(rules)
    /\ pc = "arguments" /\ exit = "none" => LoopAt(session, i, rules, num_workers)
    /\ pc # "arguments" =>
          session.tail = <<>> /\ AskedUpto(rules, num_workers, session.options, Len(session.options))
    /\ pc = "arguments" /\ exit = "failed" => session.tail # <<>> \/ argv \in {<<>>, <<"--live">>}

\* A session is a command line.
LEMMA SessionFacts ==
    ASSUME session \in Sessions
    PROVE  /\ IsCommandLine(session.target, session.options, session.tail)
           /\ session.target \in Texts /\ session.tail \in Texts /\ AreOptions(session.options)
<1>1. IsCommandLine(session.target, session.options, session.tail)
  BY SessionsAssumption
<1>2. session.target \in Texts /\ session.tail \in Texts
  BY <1>1 DEF IsCommandLine, Texts
<1>3. AreOptions(session.options)
  BY <1>1 DEF IsCommandLine, AreOptions, OptionRecords, Texts
<1> QED BY <1>1, <1>2, <1>3

\* Before the loop: the target is skipped, or there is none.
LEMMA LoopBegins ==
    ASSUME OptionsInv, pc = "arguments"
    PROVE  /\ Begin => LoopAt(session, i', rules', num_workers')
           /\ Usage => argv \in {<<>>, <<"--live">>}
<1> DEFINE target == session.target
           options == session.options
           tail == session.tail
<1>1. session \in Sessions /\ argv = OnLine(target, options, tail)
  BY DEF OptionsInv
<1>2. /\ IsCommandLine(target, options, tail)
      /\ target \in Texts /\ tail \in Texts /\ AreOptions(options)
  BY <1>1, SessionFacts
<1>3. /\ Behind(target, options, Len(options)) \in Nat /\ argv \in Texts
      /\ Len(target) <= Behind(target, options, Len(options))
      /\ Len(argv) = Behind(target, options, Len(options)) + Len(tail)
      /\ \A m \in 1..Len(target) : argv[m] = target[m]
      /\ Behind(target, options, 0) = Len(target)
  <2>1. EndsStand(argv, target, options, tail)
    <3> HIDE DEF target, options, tail
    <3> QED BY <1>1, <1>2, TailOnLine
  <2> HIDE DEF target, options, tail
  <2> QED BY <2>1 DEF EndsStand
<1>4. Len(target) \in Nat /\ Len(tail) \in Nat /\ Len(argv) \in Nat /\ Len(argv) >= Len(target)
  <2>1. Len(target) \in Nat /\ Len(tail) \in Nat /\ Len(argv) \in Nat
    BY <1>2, <1>3 DEF Texts
  <2> QED BY <1>3, <2>1
<1>5. ASSUME target \in {<<>>, <<"--live">>}, options = <<>>, tail = <<>> PROVE argv = target
  <2>1. Typed(options) = <<>>
    BY <1>5, TypedNone
  <2>2. target \in Seq(STRING)
    BY <1>2 DEF Texts
  <2>3. target \o <<>> = target
    BY <2>2, ConcatEmptySeq
  <2> QED BY <1>1, <1>5, <2>1, <2>3 DEF OnLine
<1>6. ASSUME Len(target) \in {1, 2}, Len(target) = 2 <=> target[1] = "--live"
      PROVE  /\ argv # <<>> /\ (Live <=> Len(target) = 2) /\ (Live => Len(argv) >= 2)
  <2>1. argv # <<>> /\ argv[1] = target[1]
    BY <1>3, <1>4, <1>6
  <2> QED BY <1>4, <1>6, <2>1 DEF Live
<1>7. \/ target \in {<<>>, <<"--live">>} /\ argv = target
      \/ Len(target) \in {1, 2} /\ (Len(target) = 2 <=> target[1] = "--live")
  <2>1. \/ Len(target) = 1 /\ target[1] # "--live"
        \/ Len(target) = 2 /\ target[1] = "--live"
        \/ target \in {<<>>, <<"--live">>} /\ options = <<>> /\ tail = <<>>
    BY <1>2 DEF IsCommandLine
  <2> HIDE DEF target, options, tail
  <2>2. CASE target \in {<<>>, <<"--live">>} /\ options = <<>> /\ tail = <<>>
    BY <1>5, <2>2
  <2>3. CASE \/ Len(target) = 1 /\ target[1] # "--live"
             \/ Len(target) = 2 /\ target[1] = "--live"
    BY <2>3
  <2> QED BY <2>1, <2>2, <2>3
<1>8. ASSUME Begin PROVE LoopAt(session, i', rules', num_workers')
  <2>1. /\ argv # <<>> /\ (Live => Len(argv) >= 2) /\ i = 0 /\ exit = "none"
        /\ i' = (IF Live THEN 3 ELSE 2) /\ rules' = rules /\ num_workers' = num_workers
    BY <1>8 DEF Begin
  <2>2. Len(target) \in {1, 2} /\ (Len(target) = 2 <=> target[1] = "--live")
    <3>1. CASE target = <<"--live">> /\ argv = target
      <4>1. Live /\ Len(argv) = 1
        BY <3>1 DEF Live
      <4> QED BY <2>1, <4>1
    <3> QED BY <1>7, <2>1, <3>1
  <2>3. i' = Behind(target, options, 0) + 1
    <3> HIDE DEF target, options, tail
    <3>1. Live <=> Len(target) = 2
      BY <1>6, <2>2
    <3>2. CASE Live
      <4>1. i' = 3 /\ Len(target) = 2
        BY <2>1, <3>1, <3>2
      <4>2. Behind(target, options, 0) = Len(target)
        BY <1>3
      <4> QED BY <4>1, <4>2
    <3>3. CASE ~Live
      <4>1. Len(target) = 1
        BY <2>2, <3>1, <3>3
      <4> QED BY <1>3, <2>1, <3>3, <4>1
    <3> QED BY <3>2, <3>3
  <2>4. AskedUpto(rules', num_workers', options, 0)
    <3>1. LoopAt(session, i, rules, num_workers)
      BY <2>1 DEF OptionsInv
    <3>2. ASSUME NEW k \in 0..Len(options), i = Behind(target, options, k) + 1 PROVE FALSE
      <4>1. TypedUpto(options, k) \in Seq(STRING) /\ target \in Seq(STRING)
        BY <1>2, TypedBegins DEF AreOptions, Texts
      <4>2. Behind(target, options, k) \in Nat
        <5> HIDE DEF target, options
        <5> QED BY <4>1 DEF Behind
      <4> QED BY <2>1, <3>2, <4>2
    <3> QED BY <2>1, <3>1, <3>2 DEF LoopAt
  <2>5. 0 \in 0..Len(options)
    BY <1>2 DEF AreOptions
  <2> QED BY <2>3, <2>4, <2>5 DEF LoopAt
<1>9. ASSUME Usage PROVE argv \in {<<>>, <<"--live">>}
  <2>1. argv = <<>> \/ (Live /\ Len(argv) < 2)
    BY <1>9 DEF Usage
  <2>2. CASE Len(target) \in {1, 2} /\ (Len(target) = 2 <=> target[1] = "--live")
    BY <1>4, <1>6, <2>1, <2>2
  <2> QED BY <1>7, <2>2
<1> QED BY <1>8, <1>9

\* In the loop: an option is taken with its values, and what is none ends it.
LEMMA LoopGoesOn ==
    ASSUME OptionsInv, pc = "arguments", exit = "none",
           i \in DOMAIN argv,
           BlockIp \/ BlockDomain \/ BlockPort \/ SetWorkers \/ UnknownArgument
    PROVE  /\ IsRuleSet(rules')
           /\ exit' = "none" => LoopAt(session, i', rules', num_workers')
           /\ exit' = "failed" => session.tail # <<>>
<1> DEFINE target == session.target
           options == session.options
           tail == session.tail
           n == Len(options)
<1>1. session \in Sessions /\ argv = OnLine(target, options, tail) /\ IsRuleSet(rules)
  BY DEF OptionsInv
<1>2. /\ IsCommandLine(target, options, tail)
      /\ target \in Texts /\ tail \in Texts /\ AreOptions(options)
  BY <1>1, SessionFacts
<1>3. n \in Nat /\ argv \in Texts /\ DOMAIN argv = 1..Len(argv) /\ Len(argv) \in Nat
  <2>1. argv \in Texts
    <3>1. EndsStand(argv, target, options, tail)
      <4> HIDE DEF target, options, tail
      <4> QED BY <1>1, <1>2, TailOnLine
    <3> QED BY <3>1 DEF EndsStand
  <2> QED BY <1>2, <2>1 DEF AreOptions, Texts
<1>4. PICK k \in 0..n : i = Behind(target, options, k) + 1 /\ AskedUpto(rules, num_workers, options, k)
  <2>1. LoopAt(session, i, rules, num_workers)
    BY DEF OptionsInv
  <2>2. i # 0
    BY <1>3
  <2> QED BY <2>1, <2>2 DEF LoopAt
<1>5. CASE k < n
  <2> DEFINE o == options[k + 1]
             v == o.values
  <2>1. k \in 0..(n - 1) /\ k + 1 \in 0..n /\ k + 1 \in DOMAIN options
    BY <1>2, <1>3, <1>5 DEF AreOptions
  <2>2. /\ argv[i] = o.flag
        /\ \A m \in 1..Len(v) : argv[i + m] = v[m]
        /\ i + Len(v) <= Len(argv)
        /\ Behind(target, options, k + 1) = i + Len(v)
    <3> DEFINE p == Behind(target, options, k)
    <3>1. /\ p \in Nat /\ p + 1 + Len(v) <= Len(argv)
          /\ argv[p + 1] = o.flag
          /\ \A m \in 1..Len(v) : argv[p + 1 + m] = v[m]
          /\ Behind(target, options, k + 1) = p + 1 + Len(v)
      <4>1. OptionStands(argv, target, options, k)
        <5> HIDE DEF target, options, tail
        <5> QED BY <1>1, <1>2, <2>1, OptionOnLine
      <4> HIDE DEF target, options
      <4> QED BY <4>1 DEF OptionStands
    <3>2. i = p + 1
      BY <1>4
    <3> HIDE DEF p, o
    <3> QED BY <3>1, <3>2
  <2>3. <<o.flag, Len(v)>> \in Known
    BY <1>2, <2>1 DEF AreOptions
  <2> HIDE DEF o
  <2>4. CASE BlockIp
    <3>1. /\ argv[i] = "--block-ip" /\ i' = i + 2 /\ num_workers' = num_workers
          /\ rules' = IF argv[i + 1] \in DOMAIN Addresses
                      THEN addBlockedIp(rules, Addresses[argv[i + 1]]) ELSE rules
      BY <2>4 DEF BlockIp, IsOption
    <3>2. Len(v) = 1
      BY <2>2, <2>3, <3>1 DEF Known
    <3>3. i' = Behind(target, options, k + 1) + 1 /\ argv[i + 1] = v[1]
      BY <1>3, <2>2, <3>1, <3>2
    <3>4. IsRuleSet(rules') /\ AskedUpto(rules', num_workers', options, k + 1)
      BY <1>1, <1>2, <1>4, <2>1, <2>2, <3>1, <3>3, AskedNext DEF o
    <3> QED BY <2>1, <2>4, <3>3, <3>4 DEF LoopAt, BlockIp
  <2>5. CASE BlockDomain
    <3>1. /\ argv[i] = "--block-domain" /\ i' = i + 2 /\ num_workers' = num_workers
          /\ rules' = addBlockedDomain(rules, argv[i + 1])
      BY <2>5 DEF BlockDomain, IsOption
    <3>2. Len(v) = 1
      BY <2>2, <2>3, <3>1 DEF Known
    <3>3. i' = Behind(target, options, k + 1) + 1 /\ argv[i + 1] = v[1]
      BY <1>3, <2>2, <3>1, <3>2
    <3>4. IsRuleSet(rules') /\ AskedUpto(rules', num_workers', options, k + 1)
      BY <1>1, <1>2, <1>4, <2>1, <2>2, <3>1, <3>3, AskedNext DEF o
    <3> QED BY <2>1, <2>5, <3>3, <3>4 DEF LoopAt, BlockDomain
  <2>6. CASE BlockPort
    <3>1. /\ argv[i] = "--block-port" /\ i' = i + 3 /\ num_workers' = num_workers
          /\ rules' = IF argv[i + 2] \in DOMAIN Ports
                      THEN addBlockedPort(rules, Protocol(argv[i + 1]), Ports[argv[i + 2]]) ELSE rules
      BY <2>6 DEF BlockPort, IsOption
    <3>2. Len(v) = 2
      BY <2>2, <2>3, <3>1 DEF Known
    <3>3. i' = Behind(target, options, k + 1) + 1 /\ argv[i + 1] = v[1] /\ argv[i + 2] = v[2]
      BY <1>3, <2>2, <3>1, <3>2
    <3>4. IsRuleSet(rules') /\ AskedUpto(rules', num_workers', options, k + 1)
      BY <1>1, <1>2, <1>4, <2>1, <2>2, <3>1, <3>3, AskedNext DEF o
    <3> QED BY <2>1, <2>6, <3>3, <3>4 DEF LoopAt, BlockPort
  <2>7. CASE SetWorkers
    <3>1. argv[i] = "--workers" /\ rules' = rules
      BY <2>7 DEF SetWorkers, IsOption
    <3>2. Len(v) = 1
      BY <2>2, <2>3, <3>1 DEF Known
    <3>3. argv[i + 1] = v[1]
      BY <2>2, <3>2
    <3>4. CASE argv[i + 1] \in DOMAIN Counts
      <4>1. i' = i + 2 /\ num_workers' = IF Counts[v[1]] = 0 THEN 1 ELSE Counts[v[1]]
        BY <2>7, <3>3, <3>4 DEF SetWorkers
      <4>2. i' = Behind(target, options, k + 1) + 1
        BY <1>3, <2>2, <3>2, <4>1
      <4>3. AskedUpto(rules', num_workers', options, k + 1)
        BY <1>1, <1>2, <1>4, <2>1, <2>2, <3>1, <4>1, AskedNext DEF o
      <4>4. exit' = "none"
        BY <2>7, <3>4 DEF SetWorkers
      <4> QED BY <1>1, <2>1, <3>1, <4>2, <4>3, <4>4 DEF LoopAt
    <3>5. CASE argv[i + 1] \notin DOMAIN Counts
      <4>1. exit' = "aborted"
        BY <2>7, <3>5 DEF SetWorkers
      <4> QED BY <1>1, <3>1, <4>1
    <3> QED BY <3>4, <3>5
  <2>8. CASE UnknownArgument
    <3>1. IsOption(o.flag, Len(v))
      <4>1. Len(v) \in Nat
        BY <2>3 DEF Known
      <4>2. i + Len(v) \in 1..Len(argv)
        BY <1>3, <2>2, <4>1
      <4> QED BY <1>3, <2>2, <4>2 DEF IsOption
    <3>2. \A x \in Known : ~IsOption(x[1], x[2])
      BY <2>8 DEF UnknownArgument
    <3>3. <<o.flag, Len(v)>>[1] = o.flag /\ <<o.flag, Len(v)>>[2] = Len(v)
      OBVIOUS
    <3> QED BY <2>3, <3>1, <3>2, <3>3
  <2> QED BY <2>4, <2>5, <2>6, <2>7, <2>8
<1>6. CASE k = n
  <2>1. /\ Len(argv) = i - 1 + Len(tail) /\ Len(tail) \in Nat
        /\ tail # <<>> => argv[i] = tail[1]
    <3> DEFINE p == Behind(target, options, n)
    <3>1. p \in Nat /\ Len(argv) = p + Len(tail) /\ (tail # <<>> => argv[p + 1] = tail[1])
      <4>1. EndsStand(argv, target, options, tail)
        <5> HIDE DEF target, options, tail
        <5> QED BY <1>1, <1>2, TailOnLine
      <4> HIDE DEF target, options, tail
      <4> QED BY <4>1 DEF EndsStand
    <3>2. i = p + 1 /\ Len(tail) \in Nat
      BY <1>2, <1>4, <1>6 DEF Texts
    <3> HIDE DEF p
    <3> QED BY <3>1, <3>2
  <2>2. tail # <<>>
    <3>1. Len(tail) # 0
      BY <1>3, <2>1
    <3> QED BY <3>1
  <2>3. ASSUME NEW x, NEW a, <<x, a>> \in Known, IsOption(x, a) PROVE FALSE
    <3>1. argv[i] = x /\ i + a <= Len(argv) /\ a \in Nat
      BY <1>3, <2>3 DEF IsOption, Known
    <3>2. Len(tail) < 1 + a
      <4>1. \A y \in Known : y[1] = tail[1] => Len(tail) < 1 + y[2]
        BY <1>2, <2>2 DEF IsCommandLine
      <4>2. <<x, a>>[1] = tail[1]
        BY <2>1, <2>2, <3>1
      <4>3. Len(tail) < 1 + <<x, a>>[2]
        BY <2>3, <4>1, <4>2
      <4> QED BY <4>3
    <3> QED BY <1>3, <2>1, <3>1, <3>2
  <2>4. UnknownArgument
    <3>1. ~BlockIp
      BY <2>3 DEF BlockIp, Known
    <3>2. ~BlockDomain
      BY <2>3 DEF BlockDomain, Known
    <3>3. ~BlockPort
      BY <2>3 DEF BlockPort, Known
    <3>4. ~SetWorkers
      BY <2>3 DEF SetWorkers, Known
    <3> QED BY <3>1, <3>2, <3>3, <3>4
  <2>5. exit' = "failed" /\ rules' = rules
    BY <2>4 DEF UnknownArgument
  <2> QED BY <1>1, <2>2, <2>5
<1> QED BY <1>3, <1>5, <1>6

\* One iteration of the loop, or what comes before the first.
LEMMA LoopOnce ==
    ASSUME OptionsInv, pc = "arguments", ArgStep
    PROVE  /\ IsRuleSet(rules')
           /\ exit' = "none" => LoopAt(session, i', rules', num_workers')
           /\ exit' = "failed" => session.tail # <<>> \/ argv \in {<<>>, <<"--live">>}
<1>1. CASE Usage
  <2>1. exit' = "failed" /\ rules' = rules
    BY <1>1 DEF Usage
  <2> QED BY <1>1, <2>1, LoopBegins DEF OptionsInv
<1>2. CASE Begin
  <2>1. exit' = "none" /\ rules' = rules
    BY <1>2 DEF Begin
  <2> QED BY <1>2, <2>1, LoopBegins DEF OptionsInv
<1>3. CASE BlockIp \/ BlockDomain \/ BlockPort \/ SetWorkers \/ UnknownArgument
  <2>1. exit = "none" /\ i \in DOMAIN argv
    BY <1>3 DEF BlockIp, BlockDomain, BlockPort, SetWorkers, UnknownArgument, IsOption
  <2> QED BY <1>3, <2>1, LoopGoesOn
<1> QED BY <1>1, <1>2, <1>3 DEF ArgStep

\* When the loop is over, all the options were taken and nothing is left.
LEMMA LoopEnds ==
    ASSUME OptionsInv, pc = "arguments", ArgsDone, i # 0
    PROVE  session.tail = <<>> /\ AskedUpto(rules, num_workers, session.options, Len(session.options))
<1> DEFINE target == session.target
           options == session.options
           tail == session.tail
           n == Len(options)
<1>1. session \in Sessions /\ argv = OnLine(target, options, tail)
  BY DEF OptionsInv
<1>2. target \in Texts /\ tail \in Texts /\ AreOptions(options)
  BY <1>1, SessionFacts
<1>3. exit = "none" /\ i > Len(argv)
  BY DEF ArgsDone
<1>4. PICK k \in 0..n : i = Behind(target, options, k) + 1 /\ AskedUpto(rules, num_workers, options, k)
  <2>1. LoopAt(session, i, rules, num_workers)
    BY <1>3 DEF OptionsInv
  <2> QED BY <2>1 DEF LoopAt
<1> HIDE DEF target, options, tail
<1>5. EndsStand(argv, target, options, tail)
  BY <1>1, <1>2, TailOnLine
<1>6. Len(argv) \in Nat /\ n \in Nat /\ Len(tail) \in Nat /\ Len(argv) = Behind(target, options, n) + Len(tail)
      /\ Behind(target, options, n) \in Nat
  BY <1>2, <1>5 DEF EndsStand, Texts, AreOptions
<1>7. ASSUME k < n PROVE FALSE
  <2>1. k \in 0..(n - 1) /\ k + 1 \in 1..n
    BY <1>6, <1>7
  <2>2. OptionStands(argv, target, options, k)
    BY <1>1, <1>2, <2>1, OptionOnLine
  <2>3. Len(options[k + 1].values) \in Nat
    <3>1. options \in Seq(OptionRecords)
      BY <1>2 DEF AreOptions
    <3>2. options[k + 1] \in OptionRecords
      BY <2>1, <3>1
    <3> QED BY <3>2 DEF OptionRecords, Texts
  <2>4. Behind(target, options, k) \in Nat
        /\ Behind(target, options, k) + 1 + Len(options[k + 1].values) <= Len(argv)
    BY <2>2 DEF OptionStands
  <2> QED BY <1>3, <1>4, <1>6, <2>3, <2>4
<1>8. k = n
  BY <1>4, <1>6, <1>7
<1>9. tail = <<>>
  <2>1. Len(tail) = 0
    BY <1>3, <1>4, <1>6, <1>8
  <2> QED BY <1>2, <2>1, EmptySeq DEF Texts
<1> QED BY <1>4, <1>8, <1>9 DEF options, tail

\* When main begins, the loop over argv stands at the first option.
LEMMA OptionsInit == SessionInit => OptionsInv
<1> SUFFICES ASSUME SessionInit PROVE OptionsInv
  OBVIOUS
<1>1. /\ session \in Sessions /\ pc = "arguments" /\ exit = "none" /\ i = 0
      /\ rules = NoRules /\ num_workers = 1
      /\ argv = OnLine(session.target, session.options, session.tail)
  BY DEF SessionInit, ArgInit, OnLine
<1>2. IsRuleSet(rules)
  BY <1>1 DEF IsRuleSet, NoRules
<1>3. AskedUpto(rules, num_workers, session.options, 0)
  <2>1. \A flag : Given(session.options, 0, flag) = <<>>
    BY <1>1, SessionFacts, GivenNext
  <2>2. IpsOf(<<>>) = {} /\ PortsOf(<<>>) = {} /\ WorkersOf(<<>>) = 1
    BY DEF IpsOf, PortsOf, WorkersOf, ToSet
  <2>3. DomainsOf(<<>>) = <<>>
    BY DEF DomainsOf
  <2> QED BY <1>1, <2>1, <2>2, <2>3 DEF AskedUpto, NoRules
<1> QED BY <1>1, <1>2, <1>3 DEF OptionsInv, LoopAt

\* Every turn of the loop over argv takes a whole option, or is the last one.
LEMMA OptionsStep == OptionsInv /\ [SessionNext]_sessionVars => OptionsInv'
<1> SUFFICES ASSUME OptionsInv, [SessionNext]_sessionVars PROVE OptionsInv'
  OBVIOUS
<1>0. session' = session /\ argv' = argv
  BY SameRun
<1>1. CASE ParseArguments
  <2>1. pc = "arguments" /\ pc' = pc /\ ArgStep
    BY <1>1 DEF ParseArguments, At
  <2> QED BY <1>0, <2>1, LoopOnce DEF OptionsInv
<1>2. CASE ArgumentsParsed
  <2>1. /\ pc = "arguments" /\ pc' # "arguments" /\ ArgsDone
        /\ rules' = rules /\ num_workers' = num_workers
    BY <1>2 DEF ArgumentsParsed, Goto, At, argVars
  <2>2. i # 0
    <3>1. Len(argv) \in Nat
      <4>1. EndsStand(argv, session.target, session.options, session.tail)
        BY SessionFacts, TailOnLine DEF OptionsInv
      <4> QED BY <4>1 DEF EndsStand, Texts
    <3> QED BY <2>1, <3>1 DEF ArgsDone
  <2> QED BY <1>0, <2>1, <2>2, LoopEnds DEF OptionsInv
<1>3. CASE OpenFails \/ Return \/ OpenFile
  <2>1. /\ pc # "arguments" /\ pc' # "arguments"
        /\ rules' = rules /\ num_workers' = num_workers
    BY <1>3 DEF OpenFails, Return, OpenFile, Goto, Exit, At, argVars
  <2> QED BY <1>0, <2>1 DEF OptionsInv
<1>4. CASE Sigint
  <2>1. /\ pc' = pc /\ UNCHANGED argVars /\ exit = "none" /\ exit' \in {"none", "killed"}
    BY <1>4 DEF Sigint
  <2> QED BY <1>0, <2>1 DEF OptionsInv, argVars
<1>5. CASE Finished \/ UNCHANGED sessionVars
  BY <1>5 DEF Finished, sessionVars, OptionsInv, argVars
<1>6. CASE \/ ReadPacket \/ EndOfFile \/ OpenDevice \/ PublishCapture \/ InstallHandler
           \/ LoopCheck \/ ReadTimeout \/ Report \/ CloseStep \/ Receive \/ LoopFails
  <2>1. pc # "arguments" /\ pc' # "arguments" /\ UNCHANGED argVars
    BY <1>6 DEF ReadPacket, EndOfFile, OpenDevice, PublishCapture, InstallHandler, LoopCheck, ReadTimeout,
                Report, CloseStep, Receive, LoopFails, LiveStep, Goto, At
  <2> QED BY <1>0, <2>1 DEF OptionsInv, argVars
<1> QED BY <1>1, <1>2, <1>3, <1>4, <1>5, <1>6 DEF SessionNext, MainStep

\* Whatever the arguments are, values that look like options included: what runs
\* has the rules and the workers that were asked for, and the program refuses
\* only what makes no sense.
THEOREM OptionsTaken == SessionSpec => []RulesAsAsked
<1>1. SessionSpec => []OptionsInv
  BY OptionsInit, OptionsStep, PTL DEF SessionSpec
<1>2. OptionsInv => RulesAsAsked
  <2> SUFFICES ASSUME OptionsInv PROVE RulesAsAsked
    OBVIOUS
  <2>1. ASSUME pc # "arguments" PROVE session.tail = <<>> /\ AsAsked(session.options)
    <3> DEFINE options == session.options
    <3>1. AskedUpto(rules, num_workers, options, Len(options)) /\ session.tail = <<>>
      BY <2>1 DEF OptionsInv
    <3>2. SubSeq(options, 1, Len(options)) = options
      <4>1. options \in Seq(OptionRecords)
        BY SessionFacts DEF OptionsInv, AreOptions
      <4> QED BY <4>1, SubSeqFull
    <3>3. \A flag : Given(options, Len(options), flag) = Values(options, flag)
      BY <3>2 DEF Given
    <3> HIDE DEF options
    <3>4. AsAsked(options)
      BY <3>1, <3>3 DEF AskedUpto, AsAsked, IpsAsked, DomainsAsked, PortsAsked, WorkersAsked,
                        IpsOf, DomainsOf, PortsOf, WorkersOf
    <3> QED BY <3>1, <3>4 DEF options
  <2> QED BY <2>1 DEF RulesAsAsked, OptionsInv
<1> QED BY <1>1, <1>2, PTL
=============================================================================
