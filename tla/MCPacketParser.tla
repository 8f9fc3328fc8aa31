--------------------------- MODULE MCPacketParser ---------------------------
(***************************************************************************)
(* Frames for TLC: headers with and without options, sound and broken, cut *)
(* at and around every length the parser compares with.                    *)
(***************************************************************************)
EXTENDS PacketParser

\* Where the headers end, with 0 or 1 word of options in each, and 60, the
\* smallest Ethernet frame, which shorter ones are padded to.
Lengths == {0, 13, 14, 33, 34, 37, 38, 41, 42, 45, 46, 53, 54, 57, 58, 60, 61, 62, 70}

Frame(len, ihl, protocol, data_offset, udp_len, port) ==
    [len |-> len, ipv4 |-> TRUE, version |-> 4, ihl |-> ihl, data_offset |-> data_offset,
     total_length |-> 40 + 4 * (ihl - 5), protocol |-> protocol, udp_len |-> udp_len,
     src_ip |-> port, dst_ip |-> port + 1, src_port |-> port, dst_port |-> port + 1,
     seq |-> port]

\* The frame of the benchmark, which is not padded.
buildTcpFrame(payload_len) ==
    [Frame(54 + payload_len, 5, "TCP", 5, 0, 55000)
        EXCEPT !.total_length = 40 + payload_len, !.dst_port = 443, !.seq = 1]

IpVariants == {4, 5, 6}
TcpVariants == {4, 5, 6}

AllFrames ==
    {buildTcpFrame(payload_len) : payload_len \in {0, 11}}
    \cup {Frame(len, ihl, "TCP", off, 0, port) :
        len \in Lengths, ihl \in IpVariants, off \in TcpVariants, port \in {1000, 2000}}
    \cup {Frame(len, ihl, "UDP", 0, udp, 3000) :
        len \in Lengths, ihl \in IpVariants, udp \in {0, 8, 9, 40}}
    \cup {Frame(len, 5, "UNKNOWN", 0, 0, 4000) : len \in Lengths}
    \cup {[Frame(len, 5, "TCP", 5, 0, 1000) EXCEPT !.ipv4 = FALSE] : len \in Lengths}
    \cup {[Frame(len, 5, "TCP", 5, 0, 1000) EXCEPT !.version = 6] : len \in Lengths}

\* Frames without options whose segment is empty, as sent and as padded.
SmallFrames ==
    {buildTcpFrame(0)} \cup {Frame(len, 5, "TCP", 5, 0, port) : len \in {54, 60}, port \in {1000, 2000}}
=============================================================================
