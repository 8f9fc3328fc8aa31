----------------------- MODULE MCConcurrentDpiEngine -----------------------
(***************************************************************************)
(* Captures for TLC: two flows, what each of their frames may be, and two  *)
(* objects, one of them constructed with no queue capacity at all.         *)
(***************************************************************************)
EXTENDS ShardedEngine

Conn(port) ==
    [src_ip |-> "client", dst_ip |-> "server", src_port |-> 1000, dst_port |-> port,
     protocol |-> "TCP"]

Good == Conn(443)  \* a name no rule matches
Bad  == Conn(444)  \* a name a rule matches

NamedTuples == {Good, Bad}

Hello(name) == [from \in {0} |-> [record_end |-> 2, verdict |-> "Found", sni |-> name]]

AllStreams ==
    [t \in NamedTuples |-> IF t = Bad THEN Hello("bad.com") ELSE Hello("good.org")]

Matches(name, rule) == name = rule

AllRules ==
    [blocked_ips |-> {}, blocked_ports |-> {}, blocked_domains |-> <<"bad.com">>]

\* A TCP segment with the bytes lo .. hi - 1.
Segment(t, lo, hi) ==
    [has_ip |-> TRUE, has_l4 |-> TRUE, tuple |-> t, seq |-> 1 + lo,
     data |-> [i \in 1..(hi - lo) |-> lo + i - 1]]

\* A frame whose TCP header has its ports but a bad data offset, and one that
\* is not IPv4.
Broken(t) == [Segment(t, 0, 0) EXCEPT !.has_l4 = FALSE]
Foreign == [Segment(Good, 0, 0) EXCEPT !.has_ip = FALSE, !.has_l4 = FALSE]

\* A record in halves, one that a rule matches, a frame of its flow that has no
\* sound header, and one that is skipped.
AllPackets ==
    {Segment(Good, 0, 1), Segment(Good, 1, 2), Segment(Bad, 0, 2), Broken(Bad), Foreign}

-----------------------------------------------------------------------------
\* A flow that stays, one that is blocked, and a frame that is skipped.
FewPackets == {Segment(Good, 0, 1), Segment(Bad, 0, 2), Foreign}

VARIABLE bare  \* whether the constructor was given a queue_capacity of zero

Bare == INSTANCE ConcurrentDpiEngine WITH RequestedCapacity <- 0, Packets <- FewPackets

MCLbStep == IF bare THEN Bare!LbStep ELSE LbStep

MCInit == Init /\ bare \in BOOLEAN

MCNext ==
    /\ UNCHANGED bare
    /\ Start \/ MCLbStep \/ \E w \in Workers : WorkerStep(w)

\* ProcessItem(w) without what it does to the engine, which TLC would compute
\* only to find the step enabled.  No other step empties a worker's hands.
Finishes(w) == item[w] # <<>> /\ item' = [item EXCEPT ![w] = <<>>] /\ UNCHANGED <<queues, running>>

\* The fairness of FairSpec.
MCSpec ==
    /\ MCInit /\ [][MCNext]_<<vars, bare>>
    /\ WF_vars(MCLbStep)
    /\ \A w \in Workers : WF_<<queues, item, running>>(Pop(w) \/ Finishes(w) \/ Exit(w))
=============================================================================
