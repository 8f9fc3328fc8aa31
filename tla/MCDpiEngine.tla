---------------------------- MODULE MCDpiEngine ----------------------------
(***************************************************************************)
(* Captures for TLC: a few hosts, the connections between them, and the    *)
(* packets each of these may send.                                         *)
(***************************************************************************)
EXTENDS DpiEngine

Conn(src, dst, protocol, port) ==
    [src_ip |-> src, dst_ip |-> dst, src_port |-> 1000, dst_port |-> port, protocol |-> protocol]

Good     == Conn("client", "server", "TCP", 443)    \* a name no rule matches
Bad      == Conn("client", "server", "TCP", 444)    \* a name two rules match
Plain    == Conn("client", "server", "TCP", 80)     \* not TLS
Nameless == Conn("client", "server", "TCP", 445)   \* a hello without a name
Long     == Conn("client", "server", "TCP", 446)    \* a record above the cap
Telnet   == Conn("client", "server", "TCP", 23)     \* a blocked port
Dns      == Conn("client", "server", "UDP", 53)     \* UDP
Banned   == Conn("banned", "server", "TCP", 443)    \* a blocked address
NoPorts  == [Good EXCEPT !.src_port = 0, !.dst_port = 0]  \* header cut short

AllTuples == {Good, Bad, Plain, Nameless, Long, Telnet, Dns, Banned, NoPorts}

Record(end, verdict, name) == [record_end |-> end, verdict |-> verdict, sni |-> name]
Hello(end, verdict, name) == 0 :> Record(end, verdict, name)

\* The records take 4 bytes, one 6, of which 2 are the header; the cap is 4.
\* Long's name ends in a dot, which the empty rule matches, and two bytes within
\* its record look like the first one of a record: one that never ends, one that
\* ends with Long's and says something else.
LongHello == Hello(6, "Found", "good.org.")
             @@ 1 :> Record(20, "Malformed", "") @@ 3 :> Record(3, "Found", "www.bad.com")

AllStreams ==
    [t \in AllTuples |->
        CASE t = Good -> Hello(4, "Found", "good.org")
          [] t = Bad -> Hello(4, "Found", "www.bad.com")
          [] t = Nameless -> Hello(4, "NoSni", "")
          [] t = Long -> LongHello
          [] t = Telnet -> Hello(4, "Found", "good.org")
          [] t = Banned -> Hello(4, "Found", "good.org")
          [] OTHER -> <<>>]

AllRules ==
    [blocked_ips |-> {"banned"}, blocked_ports |-> {<<"TCP", 23>>},
     blocked_domains |-> <<"other.net", "bad.com", "www.bad.com", "", "good.org.">>]
Matches(name, rule) ==
    <<name, rule>> \in {<<"www.bad.com", "bad.com">>, <<"www.bad.com", "www.bad.com">>,
                        <<"good.org.", "">>, <<"good.org.", "good.org.">>}

Isn == 5

\* A parsed TCP segment with the bytes lo .. hi - 1.
Segment(t, lo, hi) ==
    [has_ip |-> TRUE, has_l4 |-> TRUE, tuple |-> t,
     seq |-> (Isn + lo) % SeqModulus, data |-> [i \in 1..(hi - lo) |-> lo + i - 1]]

\* A frame whose TCP header has its ports but a bad data offset.
Broken(t) == [Segment(t, 0, 0) EXCEPT !.has_l4 = FALSE]

\* A frame that is not IPv4.
Foreign == [Segment(NoPorts, 0, 0) EXCEPT !.has_ip = FALSE, !.has_l4 = FALSE]

\* Every kind of flow, with few segments each.
MixedPackets ==
    {Segment(Good, 0, 4), Segment(Good, 4, 5),
     Segment(Bad, 0, 2), Segment(Bad, 2, 4), Segment(Bad, 4, 5),
     Segment(Plain, 0, 3), Segment(Nameless, 0, 4),
     Broken(Telnet), Segment(Telnet, 0, 4), Segment(Banned, 0, 4),
     Segment(Dns, 0, 2), Broken(NoPorts), Foreign}

\* One connection cut in every way, in a stream longer than its record.
CutPackets ==
    {Segment(Long, s[1], s[2]) : s \in {q \in (0..6) \X (0..6) : q[1] <= q[2] /\ q[2] - q[1] <= 3}}

\* Two bytes, then, behind a gap that is never filled, three at a time.
GapPackets == {Segment(Good, s[1], s[2]) : s \in {<<0, 2>>, <<3, 6>>, <<6, 9>>, <<9, 12>>}}

\* A capture has packets of one of these kinds only, and so many of them.
Captures ==
    {[packets |-> MixedPackets, most |-> 5], [packets |-> CutPackets, most |-> 4]}

AllPackets == UNION {c.packets : c \in Captures}

MCNext ==
    \E c \in Captures :
        /\ ToSet(seen) \subseteq c.packets
        /\ Len(seen) < c.most
        /\ \E p \in c.packets : Process(p)

MCSpec == Init /\ [][MCNext]_vars
=============================================================================
