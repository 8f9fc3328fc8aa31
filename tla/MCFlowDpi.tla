----------------------------- MODULE MCFlowDpi -----------------------------
(***************************************************************************)
(* Runs of the program for TLC: every short command line on a small file,  *)
(* every frame in a file of its own, a file of four records in both byte   *)
(* orders cut at every byte, and live captures.                            *)
(***************************************************************************)
EXTENDS FlowDpi, MCPacketParser

Option(flag, values) == [flag |-> flag, values |-> values]

\* Values that look like options or like each other, and invalid ones.
Options ==
    {Option("--block-ip", <<"10.0.0.1">>), Option("--block-ip", <<"--workers">>),
     Option("--block-domain", <<"--block-ip">>), Option("--block-domain", <<"80">>),
     Option("--block-port", <<"tcp", "80">>), Option("--block-port", <<"udp", "--block-ip">>),
     Option("--block-port", <<"icmp", "80">>), Option("--block-port", <<"udp", "53">>),
     Option("--workers", <<"0">>), Option("--workers", <<"80">>), Option("--workers", <<"many">>)}

AllAddresses == [text \in {"10.0.0.1"} |-> 1]
AllPorts == [text \in {"80", "53"} |-> IF text = "80" THEN 80 ELSE 53]
AllCounts == [text \in {"0", "53", "80"} |-> CASE text = "0" -> 0 [] text = "53" -> 53 [] OTHER -> 80]

Tails ==
    {<<"--block-ip">>, <<"--block-port", "tcp">>, <<"--workers">>, <<"--quiet">>,
     <<"file", "--workers", "80">>}

Small(len) == Frame(len, 5, "TCP", 5, 0, 1000)

File(magic, snaplen, frames, missing) ==
    [present |-> TRUE, magic |-> magic, snaplen |-> snaplen, frames |-> frames,
     length |-> FoldLeft(LAMBDA n, f : n + 16 + f.len, 24, frames) - missing]

\* A file that can be read, without snaplen.
Sound(frames) == File("native", 0, frames, 0)

Session(target, options, tail, file, traffic) ==
    [target |-> target, options |-> options, tail |-> tail, file |-> file, traffic |-> traffic]

Replay(file) == Session(<<"file">>, <<>>, <<>>, file, {})

CommandLines ==
    {Session(<<"file">>, options, <<>>, Sound(<<>>), {}) : options \in UNION {[1..n -> Options] : n \in 0..3}}
    \cup {Session(<<"file">>, options, tail, Sound(<<>>), {}) :
            options \in UNION {[1..n -> Options] : n \in 0..1}, tail \in Tails}

FrameFiles == {Replay(Sound(<<f>>)) : f \in AllFrames}

\* The second record is longer than a snaplen of 54, the third is not IPv4, the
\* fourth is of another flow and ends within its TCP header.
Records ==
    <<Small(54), Small(60), [Small(34) EXCEPT !.ipv4 = FALSE, !.src_ip = 0, !.dst_ip = 0],
      [Small(40) EXCEPT !.src_ip = 8, !.src_port = 5353]>>

CutFiles ==
    {Replay(File(magic, snaplen, Records, missing)) :
        magic \in {"native", "swapped"}, snaplen \in {0, 54, 60}, missing \in 0..276}
    \cup {Replay([Sound(Records) EXCEPT !.present = FALSE]), Replay(File("unknown", 0, Records, 0))}

Captures ==
    {Session(<<"--live", "eth0">>, <<Option("--block-domain", <<"80">>)>>, <<>>, Sound(<<>>),
             {Small(54), Small(20)})}

Mistakes == {Session(<<>>, <<>>, <<>>, Sound(<<>>), {}), Session(<<"--live">>, <<>>, <<>>, Sound(<<>>), {})}

SessionFrames == AllFrames \cup {Records[k] : k \in DOMAIN Records} \cup UNION {s.traffic : s \in Captures}

AllSessions == CommandLines \cup FrameFiles \cup CutFiles \cup Captures \cup Mistakes

SameName(name, rule) == name = rule
=============================================================================
