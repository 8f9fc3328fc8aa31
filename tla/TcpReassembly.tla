--------------------------- MODULE TcpReassembly ---------------------------
(***************************************************************************)
(* One direction of one TCP connection, captured segment by segment into a *)
(* TcpStreamReassembler (src/tcp_reassembler.cpp).  The sender cuts one    *)
(* stream of bytes into segments, and the capture sees them lost,          *)
(* reordered, retransmitted and cut differently each time; the user of the *)
(* reassembler calls pullContiguous() whenever it likes.                   *)
(***************************************************************************)
EXTENDS TcpStreamReassembler

CONSTANTS
    Isns,         \* the sequence numbers the stream may start at
    Segments,     \* the pieces [lo, hi) of the stream a segment may carry
    MaxSegments   \* bound on the segments captured

\* The stream ends before it has used up half of the sequence numbers.  (An engine stops reassembling
\* a flow after MAX_REASSEMBLY_BYTES = 65536 bytes, and TCP never has more than
\* 2^30 bytes under way.)
ASSUME StreamAssumption ==
    /\ Isns \subseteq SeqNumbers
    /\ Segments \subseteq {s \in Nat \X Nat : s[1] <= s[2] /\ s[2] < Half}
    /\ MaxSegments \in Nat

VARIABLES
    r,          \* the reassembler
    isn,        \* sequence number of the stream's first byte
    offered,    \* history: the pieces captured, empty ones left out
    delivered,  \* history: every byte pullContiguous() has returned
    captured,   \* how many segments were captured
    pulled      \* history: the last call was pullContiguous()

vars == <<r, isn, offered, delivered, captured, pulled>>

SeqAt(offset) == (isn + offset) % SeqModulus

Init ==
    /\ r = NewReassembler
    /\ isn \in Isns
    /\ offered = {}
    /\ delivered = <<>>
    /\ captured = 0
    /\ pulled = FALSE

\* A segment carrying the bytes lo .. hi - 1 is captured; an empty one is a
\* bare acknowledgement.
Segment(lo, hi) ==
    /\ captured < MaxSegments
    /\ captured' = captured + 1
    /\ r' = addSegment(r, SeqAt(lo), Bytes(lo, hi))
    /\ offered' = offered \cup {s \in {<<lo, hi>>} : lo < hi}
    /\ pulled' = FALSE
    /\ UNCHANGED <<isn, delivered>>

Pull ==
    /\ r' = pullContiguous(r).reassembler
    /\ delivered' = delivered \o pullContiguous(r).bytes
    /\ pulled' = TRUE
    /\ UNCHANGED <<isn, offered, captured>>

Next == (\E s \in Segments : Segment(s[1], s[2])) \/ Pull

Spec == Init /\ [][Next]_vars

-----------------------------------------------------------------------------
Offsets == UNION {s[1]..(s[2] - 1) : s \in Segments}

\* The variables have their types.
TypeOK ==
    /\ isn \in Isns
    /\ DOMAIN r = {"initialized", "consumed_any", "next_seq", "pending"}
    /\ r = [field \in DOMAIN r |-> r[field]]
    /\ r.initialized \in BOOLEAN /\ r.consumed_any \in BOOLEAN
    /\ r.next_seq \in SeqNumbers
    /\ DOMAIN r.pending \subseteq SeqNumbers
    /\ \A seq \in DOMAIN r.pending : r.pending[seq] \in Seq(Offsets)
    /\ offered \subseteq {s \in Segments : s[1] < s[2]}
    /\ delivered \in Seq(Offsets)
    /\ captured \in 0..MaxSegments
    /\ pulled \in BOOLEAN

\* What pullContiguous() has returned so far is one unbroken piece of the
\* stream: no byte twice, none skipped, none out of order, whatever order the
\* segments came in and wherever the sequence numbers wrap.
DeliveredContiguous ==
    \A i \in 1..(Len(delivered) - 1) : delivered[i + 1] = delivered[i] + 1

\* The cursor names the byte after the last one delivered, and every entry
\* of pending_ holds the very bytes its key promises, all of them still ahead
\* of the cursor or reaching past it.
CursorAgrees ==
    /\ delivered # <<>> =>
          r.consumed_any /\ r.next_seq = SeqAt(delivered[Len(delivered)] + 1)
    /\ \A seq \in DOMAIN r.pending :
          LET data == r.pending[seq]
          IN  /\ data # <<>>
              /\ seq = SeqAt(data[1])
              /\ \A i \in 1..(Len(data) - 1) : data[i + 1] = data[i] + 1
              /\ ~seqLessThan(seq, r.next_seq)

\* Every byte of the captured segments.
OfferedOffsets == UNION {s[1]..(s[2] - 1) : s \in offered}

\* "Returns and consumes any newly-available contiguous bytes"
\* (tcp_reassembler.h:30): after a pull nothing that is still pending starts
\* at the cursor.
PullTakesAll == pulled => r.next_seq \notin DOMAIN r.pending

\* The captured bytes lie on one side of the point where the sequence numbers
\* wrap around.
OneSideOfWrap ==
    \/ \A offset \in OfferedOffsets : isn + offset < SeqModulus
    \/ \A offset \in OfferedOffsets : isn + offset >= SeqModulus

\* Away from the wrap a pull does take everything, however the stream was cut.
PullTakesAllUnwrapped == OneSideOfWrap => PullTakesAll

\* The first bytes delivered start at the earliest byte captured until then,
\* not at the byte that happened to be captured first.
StartsAtEarliest ==
    [][delivered = <<>> /\ delivered' # <<>> =>
          \A offset \in OfferedOffsets : delivered'[1] <= offset]_vars

\* Two segments carry the same bytes or have none in common: a retransmission
\* is cut where the original was.
CutAlike ==
    \A s, u \in offered : s = u \/ s[2] <= u[1] \/ u[2] <= s[1]

\* Away from the wrap, and if the stream is always cut at the same places, a
\* pull delivers every captured byte up to the first missing one: pending_
\* loses nothing.
NoByteLost ==
    pulled /\ offered # {} /\ OneSideOfWrap /\ CutAlike =>
        /\ delivered # <<>>
        /\ delivered[Len(delivered)] + 1 \notin OfferedOffsets

-----------------------------------------------------------------------------
\* The stream's start is known once there is data; nothing has happened to a
\* reassembler that has seen none.
FreshUntilFed ==
    \/ r.initialized /\ offered # {} /\ Off(isn, r.next_seq) < Half
    \/ ~r.initialized /\ offered = {} /\ DOMAIN r.pending = {} /\ delivered = <<>>

EntriesArePieces ==
    \A seq \in DOMAIN r.pending :
        /\ IsPiece(isn, seq, r.pending[seq])
        /\ Off(isn, seq) >= Off(isn, r.next_seq)
        /\ Off(isn, seq) \in OfferedOffsets

\* What was delivered ends where the cursor stands.
CursorFollows ==
    /\ r.consumed_any <=> delivered # <<>>
    /\ delivered = <<>> => \A s \in offered : Off(isn, r.next_seq) <= s[1]
    /\ delivered # <<>> => delivered[Len(delivered)] + 1 = Off(isn, r.next_seq)

\* Where the pieces are always the same, every piece is behind the cursor or
\* pending as it was captured, nothing else is pending, and the cursor stands
\* where a piece starts or ends.
PiecesKept ==
    CutAlike =>
        /\ \A s \in offered :
              \/ s[2] <= Off(isn, r.next_seq)
              \/ SeqAt(s[1]) \in DOMAIN r.pending
        /\ \A seq \in DOMAIN r.pending :
              <<Off(isn, seq), Off(isn, seq) + Len(r.pending[seq])>> \in offered
        /\ offered # {} => \E s \in offered : Off(isn, r.next_seq) \in {s[1], s[2]}

\* The inductive invariant of the specification.
IndInv ==
    /\ TypeOK
    /\ FreshUntilFed
    /\ EntriesArePieces
    /\ CursorFollows
    /\ DeliveredContiguous
    /\ PiecesKept
    /\ PullTakesAllUnwrapped
=============================================================================
