---------------------------- MODULE PacketParser ----------------------------
(***************************************************************************)
(* PacketParser::parse (src/packet_parser.cpp) on one frame after another, *)
(* written into the same ParsedPacket.                                     *)
(*                                                                         *)
(* A frame is the numbers its headers hold, wherever the capture cut it:   *)
(*   len           bytes captured; nothing beyond them may be read         *)
(*   ipv4          its ethertype is 0x0800                                 *)
(*   version, ihl, data_offset   as in the headers, ihl and data_offset in *)
(*                 words of 4 bytes                                        *)
(*   total_length  of the IPv4 packet, which parse does not look at        *)
(*   protocol, udp_len, src_ip, dst_ip, src_port, dst_port, seq            *)
(***************************************************************************)
EXTENDS Integers

CONSTANT Frames  \* the frames a capture may contain

\* ihl and data_offset are fields of 4 bits.
ASSUME FramesAssumption ==
    \A f \in Frames :
        /\ f.len \in Nat
        /\ f.ihl \in 0..15
        /\ f.data_offset \in 0..15
        /\ f.udp_len \in Nat
        /\ f.ipv4 \in BOOLEAN
        /\ f.protocol \in {"TCP", "UDP", "UNKNOWN"}

VARIABLES
    frame,    \* history: the frame parsed last
    ok,       \* what parse returned
    out,      \* the ParsedPacket
    touched   \* history: how far into the frame the parser has read

vars == <<frame, ok, out, touched>>

ETH_HEADER_LEN == 14
NoPayload == 0  \* nullptr

\* ParsedPacket{}.  The payload is an offset into the frame and a length.
FreshPacket ==
    [has_ip |-> FALSE, has_l4 |-> FALSE, protocol |-> "UNKNOWN",
     src_ip |-> 0, dst_ip |-> 0, src_port |-> 0, dst_port |-> 0, seq |-> 0,
     payload |-> NoPayload, payload_len |-> 0]

\* What a parser leaves behind: its return value, the packet, how far it read.
Result(returned, packet, upto) == [ok |-> returned, out |-> packet, touched |-> upto]

TcpHeaderEnd(f, offset) == offset + 4 * f.data_offset

\* Mutant: the ports are read before the length is checked.
parseTCP_Unchecked(f, packet, offset) ==
    LET ports == [packet EXCEPT !.src_port = f.src_port, !.dst_port = f.dst_port, !.seq = f.seq]
        payload == TcpHeaderEnd(f, offset)
    IN  IF f.data_offset < 5 \/ payload > f.len THEN Result(FALSE, ports, offset + 14)
        ELSE Result(TRUE, [ports EXCEPT !.has_l4 = TRUE, !.payload = payload,
                                        !.payload_len = f.len - payload], offset + 14)

\* Mutant: the data offset is taken for the fixed minimum.
parseTCP_NoOptions(f, packet, offset) ==
    LET ports == [packet EXCEPT !.src_port = f.src_port, !.dst_port = f.dst_port, !.seq = f.seq]
    IN  IF offset + 20 > f.len THEN Result(FALSE, packet, offset)
        ELSE IF f.data_offset < 5 THEN Result(FALSE, ports, offset + 14)
        ELSE Result(TRUE, [ports EXCEPT !.has_l4 = TRUE, !.payload = offset + 20,
                                        !.payload_len = f.len - (offset + 20)], offset + 14)

\* parseTCP: a header with a bad data offset still leaves its ports.
parseTCP(f, packet, offset) ==
    LET ports == [packet EXCEPT !.src_port = f.src_port, !.dst_port = f.dst_port, !.seq = f.seq]
        payload == TcpHeaderEnd(f, offset)
    IN  IF offset + 20 > f.len THEN Result(FALSE, packet, offset)
        ELSE IF f.data_offset < 5 \/ payload > f.len THEN Result(FALSE, ports, offset + 14)
        ELSE Result(TRUE, [ports EXCEPT !.has_l4 = TRUE, !.payload = payload,
                                        !.payload_len = f.len - payload], offset + 14)

\* parseUDP: the declared length when it fits, else what there is.
parseUDP(f, packet, offset) ==
    LET declared == IF f.udp_len >= 8 THEN f.udp_len - 8 ELSE 0
        available == f.len - (offset + 8)
    IN  IF offset + 8 > f.len THEN Result(FALSE, packet, offset)
        ELSE Result(TRUE, [packet EXCEPT !.src_port = f.src_port, !.dst_port = f.dst_port,
                                         !.has_l4 = TRUE, !.payload = offset + 8,
                                         !.payload_len = IF declared <= available THEN declared
                                                         ELSE available], offset + 6)

\* parseIPv4.  It touches the fixed header once that is known to be there.
parseIPv4(f, packet, offset) ==
    IF offset + 20 > f.len THEN Result(FALSE, packet, offset)
    ELSE IF f.version # 4 \/ f.ihl < 5 \/ offset + 4 * f.ihl > f.len
    THEN Result(FALSE, packet, offset + 1)
    ELSE Result(TRUE, [packet EXCEPT !.has_ip = TRUE, !.protocol = f.protocol,
                                     !.src_ip = f.src_ip, !.dst_ip = f.dst_ip], offset + 20)

\* The transport header, if there is one, and its payload.
ParseTransport(f, packet, offset) ==
    CASE f.protocol = "TCP" -> parseTCP(f, packet, offset)
      [] f.protocol = "UDP" -> parseUDP(f, packet, offset)
      [] OTHER -> Result(TRUE, [packet EXCEPT !.payload = offset,
                                              !.payload_len = f.len - offset], offset)

\* Everything from the first byte on, given the packet as it stands.  What
\* parseTCP and parseUDP return is ignored.
ParseInto(packet, f) ==
    LET ip == parseIPv4(f, packet, ETH_HEADER_LEN)
    IN  IF f.len < ETH_HEADER_LEN THEN Result(FALSE, packet, 0)
        ELSE IF ~f.ipv4 THEN Result(TRUE, packet, ETH_HEADER_LEN)
        ELSE IF ~ip.ok THEN ip
        ELSE LET rest == ParseTransport(f, ip.out, ETH_HEADER_LEN + 4 * f.ihl)
             IN  [rest EXCEPT !.ok = TRUE]

\* Mutant: the caller's ParsedPacket is not cleared first.
parse_NoReset(f) == ParseInto(out, f)

\* parse
parse(f) == ParseInto(FreshPacket, f)

\* Before the first frame.
NoFrame ==
    [len |-> 0, ipv4 |-> FALSE, version |-> 0, ihl |-> 0, data_offset |-> 0, total_length |-> 0,
     protocol |-> "UNKNOWN", udp_len |-> 0, src_ip |-> 0, dst_ip |-> 0, src_port |-> 0,
     dst_port |-> 0, seq |-> 0]

Init ==
    /\ frame = NoFrame
    /\ ok = FALSE
    /\ out = FreshPacket
    /\ touched = 0

Parse(f) ==
    /\ frame' = f
    /\ ok' = parse(f).ok
    /\ out' = parse(f).out
    /\ touched' = parse(f).touched

Next == \E f \in Frames : Parse(f)

Spec == Init /\ [][Next]_vars

-----------------------------------------------------------------------------
\* "Every offset is bounds-checked against the actual buffer length before it's
\* dereferenced" (packet_parser.h:11), and the payload the engine will read
\* later lies within the buffer too.
InBounds ==
    /\ touched <= frame.len
    /\ out.payload + out.payload_len <= frame.len

\* Nothing of an earlier frame is left in the packet, however the parse of this
\* one ended: a broken frame is not booked on the flow of the one before it.
NothingStale ==
    /\ out.has_l4 => out.has_ip
    /\ out.has_ip => <<out.src_ip, out.dst_ip>> = <<frame.src_ip, frame.dst_ip>>
    /\ ~out.has_ip => out = FreshPacket
    /\ out.src_port # 0 => <<out.src_port, out.dst_port>> = <<frame.src_port, frame.dst_port>>
    /\ out.payload_len > 0 => out.has_l4 \/ frame.protocol = "UNKNOWN"

\* The header bytes a well-formed frame needs to have captured.
HeadersEnd(f) ==
    ETH_HEADER_LEN + 4 * f.ihl +
    (CASE f.protocol = "TCP" -> 4 * f.data_offset [] f.protocol = "UDP" -> 8 [] OTHER -> 0)

\* A frame with headers as the standards want them, all of them captured.
WellFormed(f) ==
    /\ f.ipv4 /\ f.version = 4 /\ f.ihl >= 5
    /\ f.protocol = "TCP" => f.data_offset >= 5
    /\ HeadersEnd(f) <= f.len

\* Exactly the frames with complete and sound headers get has_l4, options or
\* not, and their payload begins where the headers end.
SoundHeadersAccepted ==
    /\ WellFormed(frame) /\ frame.protocol # "UNKNOWN" <=> out.has_l4
    /\ WellFormed(frame) => ok /\ out.payload = HeadersEnd(frame)

-----------------------------------------------------------------------------
\* The bytes of its stream that a TCP frame carries, by its own IPv4 header.
SegmentLen(f) == f.total_length - 4 * f.ihl - 4 * f.data_offset

\* "payload_len" is the size of what the sender put into the segment
\* (test_packet_parser.cpp:90): the bytes from `seq` on that addSegment gets
\* (tcp_reassembler.h:27) are bytes of the stream.
PayloadIsSegment ==
    out.has_l4 /\ frame.protocol = "TCP" /\ frame.len >= ETH_HEADER_LEN + frame.total_length
    => out.payload_len = SegmentLen(frame)
=============================================================================
