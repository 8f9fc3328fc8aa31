------------------------ MODULE TcpStreamReassembler ------------------------
(***************************************************************************)
(* The calls of TcpStreamReassembler (src/tcp_reassembler.cpp) as          *)
(* operators on the value of its fields: the engine keeps one reassembler  *)
(* in every flow.                                                          *)
(*                                                                         *)
(* Sequence numbers are integers modulo SeqModulus, 2^32 in the code and a *)
(* smaller power of two in the runs.  A byte is represented by its offset  *)
(* in the stream its sender wrote, so that data that is lost, duplicated   *)
(* or reordered is seen to be.                                             *)
(***************************************************************************)
EXTENDS Integers, Sequences, SequencesExt

CONSTANT SeqModulus  \* how many sequence numbers there are

ASSUME SeqAssumption == SeqModulus \in Nat \ {0} /\ SeqModulus % 2 = 0

SeqNumbers == 0..(SeqModulus - 1)

\* Mutant: static_cast<int32_t>(a - b) <= 0
seqLessThan_OrEqual(a, b) == a = b \/ (a - b) % SeqModulus >= SeqModulus \div 2

\* static_cast<int32_t>(a - b) < 0
seqLessThan(a, b) == (a - b) % SeqModulus >= SeqModulus \div 2

\* The number of bytes from sequence number a up to b, with wraparound.
Distance(a, b) == (b - a) % SeqModulus

\* A newly constructed reassembler.
NewReassembler ==
    [initialized |-> FALSE,   \* initialized_
     consumed_any |-> FALSE,  \* consumed_any_: has delivered bytes
     next_seq |-> 0,          \* next_seq_: the read cursor
     pending |-> <<>>]        \* pending_: a function from seq to bytes

\* pending_[seq] = data
Store(pending, seq, data) ==
    [s \in DOMAIN pending \cup {seq} |-> IF s = seq THEN data ELSE pending[s]]

\* pending_.erase
Erase(pending, seq) == [s \in DOMAIN pending \ {seq} |-> pending[s]]

\* Mutant: the first segment seen is taken for the start of the stream.
Cursor_NeverBack(r, seq) == IF ~r.initialized THEN seq ELSE r.next_seq

\* Where the cursor stands once a non-empty segment at seq has been seen.
\* Until bytes are delivered an earlier segment moves it backwards.
Cursor(r, seq) ==
    IF ~r.initialized \/ (~r.consumed_any /\ seqLessThan(seq, r.next_seq))
    THEN seq ELSE r.next_seq

\* Mutant: a segment is kept as it came, old bytes and all, at the cursor.
addSegment_Untrimmed(r, seq, data) ==
    LET cursor == Cursor(r, seq)
        seg_end == (seq + Len(data)) % SeqModulus
        moved == [r EXCEPT !.initialized = TRUE, !.next_seq = cursor]
    IN  IF data = <<>> THEN r
        ELSE IF ~seqLessThan(cursor, seg_end) THEN moved
        ELSE [moved EXCEPT !.pending =
                 Store(@, IF seqLessThan(seq, cursor) THEN cursor ELSE seq, data)]

\* addSegment: drop old data, trim what is partly old, keep the rest.
addSegment(r, seq, data) ==
    LET cursor == Cursor(r, seq)
        seg_end == (seq + Len(data)) % SeqModulus
        trim == IF seqLessThan(seq, cursor) THEN Distance(seq, cursor) ELSE 0
        moved == [r EXCEPT !.initialized = TRUE, !.next_seq = cursor]
    IN  IF data = <<>> THEN r
        ELSE IF ~seqLessThan(cursor, seg_end) THEN moved
        ELSE [moved EXCEPT !.pending = Store(@, (seq + trim) % SeqModulus,
                                             SubSeq(data, trim + 1, Len(data)))]

\* Mutant: the cursor does not wrap around.
PullEntry_Wide(acc, seq) ==
    LET data == acc.pending[seq]
        trim == Distance(seq, acc.next_seq)
    IN  IF acc.gap \/ seqLessThan(acc.next_seq, seq) THEN [acc EXCEPT !.gap = TRUE]
        ELSE IF trim >= Len(data) THEN [acc EXCEPT !.pending = Erase(@, seq)]
        ELSE [acc EXCEPT !.pending = Erase(@, seq),
                         !.bytes = @ \o SubSeq(data, trim + 1, Len(data)),
                         !.next_seq = seq + Len(data)]

\* Mutant: an entry the cursor has partly passed is delivered whole.
PullEntry_Untrimmed(acc, seq) ==
    LET data == acc.pending[seq]
    IN  IF acc.gap \/ seqLessThan(acc.next_seq, seq) THEN [acc EXCEPT !.gap = TRUE]
        ELSE [acc EXCEPT !.pending = Erase(@, seq),
                         !.bytes = @ \o data,
                         !.next_seq = (seq + Len(data)) % SeqModulus]

\* Mutant: the loop stops after the first entry.
PullEntry_OnlyOne(acc, seq) ==
    LET data == acc.pending[seq]
        trim == Distance(seq, acc.next_seq)
    IN  IF acc.gap \/ seqLessThan(acc.next_seq, seq) THEN [acc EXCEPT !.gap = TRUE]
        ELSE IF trim >= Len(data) THEN [acc EXCEPT !.pending = Erase(@, seq), !.gap = TRUE]
        ELSE [acc EXCEPT !.pending = Erase(@, seq),
                         !.bytes = @ \o SubSeq(data, trim + 1, Len(data)),
                         !.next_seq = (seq + Len(data)) % SeqModulus,
                         !.gap = TRUE]

\* One round of pullContiguous' loop, for the smallest key of pending_ left.
PullEntry(acc, seq) ==
    LET data == acc.pending[seq]
        trim == Distance(seq, acc.next_seq)
    IN  IF acc.gap \/ seqLessThan(acc.next_seq, seq) THEN [acc EXCEPT !.gap = TRUE]
        ELSE IF trim >= Len(data) THEN [acc EXCEPT !.pending = Erase(@, seq)]
        ELSE [acc EXCEPT !.pending = Erase(@, seq),
                         !.bytes = @ \o SubSeq(data, trim + 1, Len(data)),
                         !.next_seq = (seq + Len(data)) % SeqModulus]

\* What the loop leaves behind: the reassembler and the bytes returned.
Pulled(r, end) ==
    [reassembler |-> [r EXCEPT !.pending = end.pending, !.next_seq = end.next_seq,
                               !.consumed_any = @ \/ end.bytes # <<>>],
     bytes |-> end.bytes]

\* pullContiguous.  The map is walked in the order of its keys as plain
\* integers: the round of the largest key comes after those of all the others.
pullContiguous(r) ==
    LET start == [pending |-> r.pending, next_seq |-> r.next_seq, bytes |-> <<>>, gap |-> FALSE]
    IN  Pulled(r, MapThenFoldSet(LAMBDA seq, acc : PullEntry(acc, seq), start,
                                 LAMBDA seq : seq, Max, DOMAIN r.pending))

\* pendingBytes
pendingBytes(r) == FoldSet(LAMBDA seq, n : n + Len(r.pending[seq]), 0, DOMAIN r.pending)

-----------------------------------------------------------------------------
(* The sender's side.                                                      *)

\* Comparing sequence numbers makes sense within half of their space only.
Half == SeqModulus \div 2

\* The bytes of the piece [lo, hi) of a stream.
Bytes(lo, hi) == [i \in 1..(hi - lo) |-> lo + i - 1]

\* The offset in the stream that sequence number seq names, the stream having
\* started at start.
Off(start, seq) == (seq - start) % SeqModulus

\* An entry of pending_ at seq is a captured piece of the stream.
IsPiece(start, seq, data) ==
    /\ data # <<>>
    /\ Off(start, seq) + Len(data) < Half
    /\ \A i \in 1..Len(data) : data[i] = Off(start, seq) + i - 1
=============================================================================
