--------------------------- MODULE ShardedEngine ---------------------------
(***************************************************************************)
(* Every worker of ConcurrentDpiEngine, seen alone, is the single-threaded *)
(* engine of DpiEngine.tla run on the packets that were routed to it.      *)
(***************************************************************************)
EXTENDS ConcurrentDpiEngine

CONSTANT AnyWorker  \* the worker that is looked at, whichever it is

ASSUME WorkerAssumption == AnyWorker \in Workers

\* As in DpiEngine: what a complete record may say, and what a TCP direction carries.
ASSUME ShardAssumption ==
    \A t \in Tuples :
        /\ \A from \in DOMAIN Streams[t] :
              /\ Streams[t][from].verdict \in {"Found", "NoSni", "NotTls", "Malformed"}
              /\ Streams[t][from].record_end \in Nat
        /\ t.protocol = "TCP" => \E isn \in SeqNumbers : StreamFrom(isn, t, Packets)

\* Its engine is a DpiEngine whose capture is what was routed to it.
Shard == INSTANCE DpiEngine WITH engine <- engines[AnyWorker], seen <- Handled(AnyWorker)

\* A step of that engine, none, or a new engine for a new call of processFile.
ShardStep ==
    \/ UNCHANGED Shard!vars
    \/ Shard!Next
    \/ files' # files /\ Shard!Init'

\* A shard implements the single-threaded engine, step by step, and anew in
\* every call: what holds of DpiEngine in all its runs holds of every worker.
\* (Shard!Spec for each call.)
ShardsImplementEngine == Shard!Init /\ [][ShardStep]_vars

\* What DpiEngine promises of its flows and its report holds of every worker at
\* every moment, the packets routed to it and processed being the whole capture.
ShardIsRight ==
    /\ Shard!ReportAgrees
    /\ Shard!BufferCapped
    /\ Shard!RulesComeFirst
    /\ Shard!NameIsJudged
    /\ Shard!VerdictIsTrue
    /\ Shard!NoRecordMissed
=============================================================================
