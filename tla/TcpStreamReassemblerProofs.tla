--------------------- MODULE TcpStreamReassemblerProofs ---------------------
(***************************************************************************)
(* Lemmas about the operators of TcpStreamReassembler: what addSegment and *)
(* pullContiguous do to a reassembler that holds pieces of a stream, for   *)
(* every modulus and every initial sequence number.  TcpReassemblyProofs   *)
(* and DpiEngineProofs rest on them.                                       *)
(***************************************************************************)
EXTENDS TcpStreamReassembler, FiniteSetTheorems, SequenceTheorems, TLAPS

\* The body of pullContiguous' loop, and the loop.
Visit(unused, seq, acc) == PullEntry(acc, seq)

Walk == INSTANCE FoldLoop WITH Step <- Visit, Pick <- Max

-----------------------------------------------------------------------------
(***************************************************************************)
(* Sequence numbers.                                                       *)
(***************************************************************************)
LEMMA HalfFacts == /\ SeqModulus \in Nat \ {0}
                   /\ Half \in Nat \ {0}
                   /\ SeqModulus = 2 * Half
BY SeqAssumption DEF Half

\* An offset is a sequence number too, and names the one it was computed from.
LEMMA OffNames ==
    ASSUME NEW start \in SeqNumbers, NEW seq \in SeqNumbers
    PROVE  /\ Off(start, seq) \in SeqNumbers
           /\ Off(start, seq) = IF start <= seq THEN seq - start ELSE seq - start + SeqModulus
           /\ seq = (start + Off(start, seq)) % SeqModulus
<1>1. start \in Int /\ seq \in Int /\ 0 <= start /\ 0 <= seq /\ start < SeqModulus /\ seq < SeqModulus
  BY HalfFacts DEF SeqNumbers
<1>2. Off(start, seq) = IF start <= seq THEN seq - start ELSE seq - start + SeqModulus
  <2>1. CASE start <= seq
    BY <1>1, <2>1, HalfFacts DEF Off
  <2>2. CASE ~(start <= seq)
    BY <1>1, <2>2, HalfFacts DEF Off
  <2> QED BY <2>1, <2>2
<1>3. Off(start, seq) \in SeqNumbers
  BY <1>1, <1>2, HalfFacts DEF SeqNumbers
<1>4. seq = (start + Off(start, seq)) % SeqModulus
  <2>1. CASE start <= seq
    BY <1>1, <1>2, <2>1, HalfFacts
  <2>2. CASE ~(start <= seq)
    BY <1>1, <1>2, <2>2, HalfFacts
  <2> QED BY <2>1, <2>2
<1> QED BY <1>2, <1>3, <1>4

\* The byte n further on has the offset n further on.
LEMMA Advance ==
    ASSUME NEW start \in SeqNumbers, NEW seq \in SeqNumbers, NEW n \in Nat,
           Off(start, seq) + n < SeqModulus
    PROVE  /\ (seq + n) % SeqModulus \in SeqNumbers
           /\ Off(start, (seq + n) % SeqModulus) = Off(start, seq) + n
<1>1. start \in Int /\ seq \in Int /\ 0 <= start /\ 0 <= seq /\ start < SeqModulus /\ seq < SeqModulus
  BY HalfFacts DEF SeqNumbers
<1> DEFINE next == (seq + n) % SeqModulus
<1>2. n < SeqModulus /\ Off(start, seq) \in Int
  BY HalfFacts, OffNames DEF SeqNumbers
<1>3. next \in SeqNumbers
  BY <1>1, HalfFacts DEF SeqNumbers
<1>4. next = IF seq + n < SeqModulus THEN seq + n ELSE seq + n - SeqModulus
  <2>1. CASE seq + n < SeqModulus
    BY <1>1, <2>1, HalfFacts
  <2>2. CASE ~(seq + n < SeqModulus)
    BY <1>1, <1>2, <2>2, HalfFacts
  <2> QED BY <2>1, <2>2
<1>5. Off(start, next) = IF start <= next THEN next - start ELSE next - start + SeqModulus
  BY <1>3, OffNames
<1>6. Off(start, seq) = IF start <= seq THEN seq - start ELSE seq - start + SeqModulus
  BY OffNames
<1> HIDE DEF next
<1>7. Off(start, next) = Off(start, seq) + n
  BY <1>1, <1>2, <1>4, <1>5, <1>6, HalfFacts
<1> QED BY <1>3, <1>7 DEF next

\* Within half of the space, comparing sequence numbers compares offsets.
LEMMA Compare ==
    ASSUME NEW start \in SeqNumbers, NEW a \in SeqNumbers, NEW b \in SeqNumbers,
           Off(start, a) < Half, Off(start, b) < Half
    PROVE  /\ seqLessThan(a, b) <=> Off(start, a) < Off(start, b)
           /\ Off(start, a) <= Off(start, b) => Distance(a, b) = Off(start, b) - Off(start, a)
           /\ Off(start, a) = Off(start, b) => a = b
<1>1. \A x \in {start, a, b} : x \in Int /\ 0 <= x /\ x < SeqModulus
  BY HalfFacts DEF SeqNumbers
<1>2. /\ Off(start, a) = IF start <= a THEN a - start ELSE a - start + SeqModulus
      /\ Off(start, b) = IF start <= b THEN b - start ELSE b - start + SeqModulus
  BY OffNames
<1>3. (a - b) % SeqModulus = IF a >= b THEN a - b ELSE a - b + SeqModulus
  BY OffNames DEF Off
<1>4. (b - a) % SeqModulus = IF b >= a THEN b - a ELSE b - a + SeqModulus
  BY OffNames DEF Off
<1>5. seqLessThan(a, b) <=> (IF a >= b THEN a - b ELSE a - b + SeqModulus) >= Half
  BY <1>3 DEF seqLessThan, Half
<1>6. Distance(a, b) = IF b >= a THEN b - a ELSE b - a + SeqModulus
  BY <1>4 DEF Distance
<1>7. seqLessThan(a, b) <=> Off(start, a) < Off(start, b)
  BY <1>1, <1>2, <1>5, HalfFacts
<1>8. Off(start, a) <= Off(start, b) => Distance(a, b) = Off(start, b) - Off(start, a)
  BY <1>1, <1>2, <1>6, HalfFacts
<1>9. Off(start, a) = Off(start, b) => a = b
  BY <1>1, <1>2, HalfFacts
<1> QED BY <1>7, <1>8, <1>9

\* The sequence number of an offset.
LEMMA SeqOfOffset ==
    ASSUME NEW start \in SeqNumbers, NEW p \in Nat, p < SeqModulus
    PROVE  /\ (start + p) % SeqModulus \in SeqNumbers
           /\ Off(start, (start + p) % SeqModulus) = p
<1>1. Off(start, start) = 0
  BY OffNames DEF SeqNumbers
<1> QED BY <1>1, Advance

-----------------------------------------------------------------------------
(***************************************************************************)
(* addSegment.                                                             *)
(***************************************************************************)
\* h has the fields of a reassembler.
HasFields(h) ==
    /\ DOMAIN h = {"initialized", "consumed_any", "next_seq", "pending"}
    /\ h = [field \in DOMAIN h |-> h[field]]

IsReassembler(h) ==
    /\ HasFields(h)
    /\ h.initialized \in BOOLEAN /\ h.consumed_any \in BOOLEAN
    /\ h.next_seq \in SeqNumbers
    /\ DOMAIN h.pending \subseteq SeqNumbers

\* The offset of the cursor once a segment that starts at lo has been seen.
CursorOffset(start, h, lo) ==
    IF ~h.initialized \/ (~h.consumed_any /\ lo < Off(start, h.next_seq))
    THEN lo ELSE Off(start, h.next_seq)

\* The bytes first .. hi - 1 of the piece [lo, hi) are added to old.
Kept(start, lo, hi, first, old, new) ==
    \E seq \in SeqNumbers, data \in Seq(lo..(hi - 1)) :
        /\ Off(start, seq) = first
        /\ Len(data) = hi - first
        /\ \A i \in 1..Len(data) : data[i] = first + i - 1
        /\ new = Store(old, seq, data)

\* The bytes of a piece, from any of them on.
LEMMA BytesFrom ==
    ASSUME NEW lo \in Nat, NEW hi \in Nat, lo < hi,
           NEW trim \in Nat, trim < hi - lo,
           NEW data, data = SubSeq(Bytes(lo, hi), trim + 1, Len(Bytes(lo, hi)))
    PROVE  /\ Len(data) = hi - lo - trim
           /\ data \in Seq((lo + trim)..(hi - 1))
           /\ \A i \in 1..Len(data) : data[i] = lo + trim + i - 1
<1> DEFINE S == (lo + trim)..(hi - 1)
           b == Bytes(lo, hi)
<1>1. b \in Seq(lo..(hi - 1)) /\ Len(b) = hi - lo /\ \A i \in 1..(hi - lo) : b[i] = lo + i - 1
  BY DEF Bytes
<1> HIDE DEF b
<1>2. \A i \in (trim + 1)..Len(b) : b[i] \in S
  BY <1>1
<1> HIDE DEF S
<1>3. /\ SubSeq(b, trim + 1, Len(b)) \in Seq(S)
      /\ Len(SubSeq(b, trim + 1, Len(b))) = Len(b) - trim
      /\ \A i \in 1..(Len(b) - trim) : SubSeq(b, trim + 1, Len(b))[i] = b[trim + i]
  <2>1. trim + 1 \in Int /\ Len(b) \in Int /\ trim + 1 <= Len(b)
    BY <1>1
  <2>2. /\ SubSeq(b, trim + 1, Len(b)) \in Seq(S)
        /\ Len(SubSeq(b, trim + 1, Len(b))) =
               IF trim + 1 <= Len(b) THEN Len(b) - (trim + 1) + 1 ELSE 0
        /\ \A i \in 1 .. Len(b) - (trim + 1) + 1 :
              SubSeq(b, trim + 1, Len(b))[i] = b[(trim + 1) + i - 1]
    BY ONLY <1>2, <2>1, SubSeqProperties
  <2>3. \A i \in 1..(Len(b) - trim) : (trim + 1) + i - 1 = trim + i
    OBVIOUS
  <2> QED BY <2>1, <2>2, <2>3
<1>4. data = SubSeq(b, trim + 1, Len(b))
  BY DEF b
<1>5. Len(data) = hi - lo - trim /\ data \in Seq(S)
  BY <1>1, <1>3, <1>4
<1>6. ASSUME NEW i \in 1..Len(data) PROVE data[i] = lo + trim + i - 1
  <2>1. data[i] = b[trim + i] /\ trim + i \in 1..(hi - lo)
    BY <1>1, <1>3, <1>4
  <2> QED BY <1>1, <2>1
<1> QED BY <1>5, <1>6 DEF S

\* What addSegment does with a piece of the stream, told by its offsets: the
\* cursor stands at CursorOffset; a piece that ends there is dropped, another is kept
\* from the cursor on, at the sequence number of the first byte kept.
LEMMA AddEffect ==
    ASSUME NEW start \in SeqNumbers, NEW h, IsReassembler(h),
           h.initialized => Off(start, h.next_seq) < Half,
           NEW lo \in Nat, NEW hi \in Nat, lo < hi, hi < Half,
           NEW a, a = addSegment(h, (start + lo) % SeqModulus, Bytes(lo, hi)),
           NEW c, c = CursorOffset(start, h, lo),
           NEW first, first = IF lo < c THEN c ELSE lo
    PROVE  /\ IsReassembler(a)
           /\ a.initialized /\ a.consumed_any = h.consumed_any
           /\ Off(start, a.next_seq) = c /\ c \in Nat /\ c < Half
           /\ hi <= c => a.pending = h.pending
           /\ c < hi => Kept(start, lo, hi, first, h.pending, a.pending)
<1> DEFINE seq == (start + lo) % SeqModulus
           data == Bytes(lo, hi)
           cursor == Cursor(h, seq)
           seg_end == (seq + Len(data)) % SeqModulus
           trim == IF seqLessThan(seq, cursor) THEN Distance(seq, cursor) ELSE 0
           moved == [h EXCEPT !.initialized = TRUE, !.next_seq = cursor]
           kept == SubSeq(data, trim + 1, Len(data))
           key == (seq + trim) % SeqModulus
<1>1. seq \in SeqNumbers /\ Off(start, seq) = lo
  BY HalfFacts, SeqOfOffset
<1>2. data # <<>> /\ Len(data) = hi - lo
  BY DEF Bytes
<1>3. seg_end \in SeqNumbers /\ Off(start, seg_end) = hi
  <2> HIDE DEF seq, data
  <2> QED BY <1>1, <1>2, HalfFacts, Advance
<1>4. cursor \in SeqNumbers /\ Off(start, cursor) = c /\ c < Half
  <2> HIDE DEF seq
  <2>1. h.initialized => (seqLessThan(seq, h.next_seq) <=> lo < Off(start, h.next_seq))
    BY <1>1, Compare, HalfFacts DEF IsReassembler
  <2> QED BY <1>1, <2>1, HalfFacts DEF Cursor, CursorOffset, IsReassembler
<1>5. c \in Nat
  <2>1. c \in SeqNumbers
    BY <1>4, OffNames
  <2> QED BY <2>1 DEF SeqNumbers
<1>6. seqLessThan(cursor, seg_end) <=> c < hi
  <2> HIDE DEF seq, data, cursor, seg_end
  <2> QED BY <1>3, <1>4, Compare
<1>7. trim = (IF lo < c THEN c - lo ELSE 0) /\ trim \in Nat /\ lo + trim = first
  <2> HIDE DEF seq, cursor
  <2>1. seqLessThan(seq, cursor) <=> lo < c
    BY <1>1, <1>4, Compare, HalfFacts
  <2>2. lo <= c => Distance(seq, cursor) = c - lo
    BY <1>1, <1>4, Compare, HalfFacts
  <2> QED BY <2>1, <2>2, <1>5
<1>8. a = IF ~seqLessThan(cursor, seg_end) THEN moved
          ELSE [moved EXCEPT !.pending = Store(@, key, kept)]
  <2>1. a = addSegment(h, seq, data)
    OBVIOUS
  <2> HIDE DEF seq, data
  <2> QED BY <2>1, <1>2 DEF addSegment
<1>9. /\ moved.initialized = TRUE /\ moved.consumed_any = h.consumed_any
      /\ moved.next_seq = cursor /\ moved.pending = h.pending
      /\ HasFields(moved)
  <2> HIDE DEF cursor
  <2> QED BY DEF IsReassembler, HasFields
<1>10. CASE hi <= c
  <2> HIDE DEF seq, data, cursor, seg_end, moved
  <2>1. a = moved
    BY <1>5, <1>6, <1>8, <1>10
  <2>2. /\ a.initialized = TRUE /\ a.consumed_any = h.consumed_any
        /\ a.next_seq = cursor /\ a.pending = h.pending
        /\ HasFields(a)
    BY <2>1, <1>9
  <2>3. IsReassembler(a)
    <3>1. DOMAIN a.pending \subseteq SeqNumbers
      BY <2>2 DEF IsReassembler
    <3> QED BY <2>2, <3>1, <1>4 DEF IsReassembler
  <2>4. ~(c < hi)
    BY <1>5, <1>10
  <2> QED BY <2>2, <2>3, <2>4, <1>4, <1>5
<1>11. CASE c < hi
  <2>1. a = [moved EXCEPT !.pending = Store(h.pending, key, kept)]
    <3> HIDE DEF seq, data, cursor, seg_end, moved, key, kept
    <3> QED BY <1>6, <1>8, <1>9, <1>11 DEF HasFields
  <2>2. key \in SeqNumbers /\ Off(start, key) = first
    <3> HIDE DEF seq, trim
    <3> QED BY <1>1, <1>4, <1>5, <1>7, Advance, HalfFacts
  <2>3. trim < hi - lo
    <3> HIDE DEF trim
    <3> QED BY <1>5, <1>7, <1>11
  <2>4. /\ Len(kept) = hi - lo - trim
        /\ kept \in Seq((lo + trim)..(hi - 1))
        /\ \A i \in 1..Len(kept) : kept[i] = lo + trim + i - 1
    <3> HIDE DEF trim
    <3>1. \A d : d = SubSeq(Bytes(lo, hi), trim + 1, Len(Bytes(lo, hi))) =>
             /\ Len(d) = hi - lo - trim
             /\ d \in Seq((lo + trim)..(hi - 1))
             /\ \A i \in 1..Len(d) : d[i] = lo + trim + i - 1
      BY <1>7, <2>3, BytesFrom
    <3> QED BY <3>1
  <2>5. kept \in Seq(lo..(hi - 1)) /\ Len(kept) = hi - first
        /\ \A i \in 1..Len(kept) : kept[i] = first + i - 1
    <3> HIDE DEF trim, kept
    <3> DEFINE S == (lo + trim)..(hi - 1)
               T == lo..(hi - 1)
    <3>1. S \subseteq T /\ kept \in Seq(S)
      BY <1>7, <2>4
    <3>2. kept \in Seq(T)
      <4> HIDE DEF S, T
      <4> QED BY <3>1, SeqMonotonic
    <3> QED BY <2>4, <3>2, <1>7
  <2>6. DOMAIN Store(h.pending, key, kept) \subseteq SeqNumbers
    <3> HIDE DEF key, kept
    <3> QED BY <2>2 DEF Store, IsReassembler
  <2> HIDE DEF cursor, key, kept
  <2>7. /\ a.initialized = TRUE /\ a.consumed_any = h.consumed_any
        /\ a.next_seq = cursor /\ a.pending = Store(h.pending, key, kept)
        /\ HasFields(a)
    <3> HIDE DEF moved
    <3> QED BY <2>1, <1>9 DEF HasFields
  <2>8. IsReassembler(a)
    BY <2>7, <2>6, <1>4 DEF IsReassembler
  <2>9. Kept(start, lo, hi, first, h.pending, a.pending)
    BY <2>2, <2>5, <2>7 DEF Kept
  <2> QED BY <2>7, <2>8, <2>9, <1>4, <1>5, <1>11
<1> QED BY <1>5, <1>10, <1>11

-----------------------------------------------------------------------------
(***************************************************************************)
(* pullContiguous.  Its loop starts from a reassembler h whose entries are *)
(* pieces of the stream that are not behind the cursor.                    *)
(***************************************************************************)
\* h is such a reassembler; its bytes are from B.
Pullable(start, h, B) ==
    /\ IsReassembler(h)
    /\ Off(start, h.next_seq) < Half
    /\ \A seq \in DOMAIN h.pending :
          /\ h.pending[seq] \in Seq(B)
          /\ IsPiece(start, seq, h.pending[seq])
          /\ Off(start, h.next_seq) <= Off(start, seq)

\* The order of the keys is that of the stream.
InStreamOrder(start, keys) ==
    \A a, b \in keys : a < b => Off(start, a) < Off(start, b)

HasLoopFields(acc) ==
    /\ DOMAIN acc = {"pending", "next_seq", "bytes", "gap"}
    /\ acc = [field \in DOMAIN acc |-> acc[field]]

\* Every key below one of T is in T.
DownClosed(T, keys) == \A x \in T, y \in keys : y < x => y \in T

\* The bytes taken so far are those from the old cursor to the new one.
TakenSound(start, h, B, acc) ==
    /\ acc.next_seq \in SeqNumbers
    /\ acc.bytes \in Seq(B)
    /\ Off(start, acc.next_seq) = Off(start, h.next_seq) + Len(acc.bytes)
    /\ Off(start, acc.next_seq) < Half
    /\ \A i \in 1..Len(acc.bytes) : acc.bytes[i] = Off(start, h.next_seq) + i - 1

\* The entries left are old ones; as long as no gap was met they are those not
\* visited yet, and behind a gap none of them is behind the cursor.
LeftSound(start, h, T, acc) ==
    /\ DOMAIN acc.pending \subseteq DOMAIN h.pending
    /\ \A seq \in DOMAIN acc.pending : acc.pending[seq] = h.pending[seq]
    /\ ~acc.gap => DOMAIN acc.pending = DOMAIN h.pending \ T
    /\ acc.gap => \A seq \in DOMAIN acc.pending :
          /\ Off(start, acc.next_seq) <= Off(start, seq)
          /\ InStreamOrder(start, DOMAIN h.pending) => Off(start, acc.next_seq) < Off(start, seq)
    /\ acc.bytes # <<>> => h.next_seq \in T

\* The loop invariant, once the entries of T have been visited.
LoopInv(start, h, B, T, acc) ==
    /\ HasLoopFields(acc)
    /\ acc.gap \in BOOLEAN
    /\ TakenSound(start, h, B, acc)
    /\ LeftSound(start, h, T, acc)

\* Where a gap is met, no entry that has not been visited is behind the cursor.
LEMMA GapIsAhead ==
    ASSUME NEW start \in SeqNumbers, NEW h, NEW B, Pullable(start, h, B),
           NEW T, T \subseteq DOMAIN h.pending, DownClosed(T, DOMAIN h.pending),
           NEW m \in T, \A y \in T : y <= m,
           NEW acc, LoopInv(start, h, B, T \ {m}, acc),
           Off(start, acc.next_seq) < Off(start, m),
           NEW seq \in DOMAIN h.pending, seq \notin T \ {m}
    PROVE  /\ Off(start, acc.next_seq) <= Off(start, seq)
           /\ InStreamOrder(start, DOMAIN h.pending) => Off(start, acc.next_seq) < Off(start, seq)
<1> DEFINE first == h.next_seq
           at(x) == Off(start, x)
<1>1. /\ seq \in SeqNumbers /\ m \in SeqNumbers /\ first \in SeqNumbers
      /\ acc.next_seq \in SeqNumbers
  BY DEF Pullable, IsReassembler, LoopInv, TakenSound
<1>2. \A x \in {start, seq, m, first, acc.next_seq, at(seq), at(m), at(first), at(acc.next_seq)} :
         x \in Int /\ 0 <= x /\ x < SeqModulus
  <2>1. \A x \in SeqNumbers : x \in Int /\ 0 <= x /\ x < SeqModulus
    BY HalfFacts DEF SeqNumbers
  <2>2. at(seq) \in SeqNumbers /\ at(m) \in SeqNumbers /\ at(first) \in SeqNumbers
        /\ at(acc.next_seq) \in SeqNumbers
    BY <1>1, OffNames
  <2> QED BY <1>1, <2>1, <2>2
<1>3. seq = m \/ m < seq
  <2>1. seq < m => seq \in T
    BY DEF DownClosed
  <2> QED BY <1>2, <2>1
<1>4. InStreamOrder(start, DOMAIN h.pending) => at(acc.next_seq) < at(seq)
  <2>1. m \in DOMAIN h.pending
    OBVIOUS
  <2> HIDE DEF at
  <2>2. InStreamOrder(start, DOMAIN h.pending) => seq = m \/ at(m) < at(seq)
    BY <1>3, <2>1 DEF InStreamOrder, at
  <2>3. at(acc.next_seq) < at(m)
    BY DEF at
  <2> QED BY <1>2, <2>2, <2>3
<1>5. at(acc.next_seq) <= at(seq)
  <2>1. CASE acc.bytes = <<>>
    <3>1. at(acc.next_seq) = at(first)
      BY <2>1, <1>2 DEF LoopInv, TakenSound
    <3>2. at(first) <= at(seq)
      BY DEF Pullable
    <3> QED BY <3>1, <3>2
  <2>2. CASE acc.bytes # <<>>
    <3>1. first \in T \ {m}
      BY <2>2 DEF LoopInv, LeftSound
    <3>2. first < m
      BY <1>2, <3>1
    <3>3. at(first) <= at(seq)
      BY DEF Pullable
    <3>4. /\ at(seq) = IF start <= seq THEN seq - start ELSE seq - start + SeqModulus
          /\ at(m) = IF start <= m THEN m - start ELSE m - start + SeqModulus
          /\ at(first) = IF start <= first THEN first - start ELSE first - start + SeqModulus
      BY <1>1, OffNames
    <3>5. at(acc.next_seq) < at(m)
      OBVIOUS
    <3> HIDE DEF at, first
    <3> QED BY <1>2, <1>3, <3>2, <3>3, <3>4, <3>5, HalfFacts
  <2> QED BY <2>1, <2>2
<1> QED BY <1>4, <1>5

\* One round of the loop keeps the loop invariant.
LEMMA VisitKeeps ==
    ASSUME NEW start \in SeqNumbers, NEW h, NEW B, Pullable(start, h, B),
           NEW T, T \subseteq DOMAIN h.pending, DownClosed(T, DOMAIN h.pending),
           NEW m \in T, \A y \in T : y <= m,
           NEW acc, LoopInv(start, h, B, T \ {m}, acc)
    PROVE  LoopInv(start, h, B, T, PullEntry(acc, m))
<1> DEFINE data == acc.pending[m]
           trim == Distance(m, acc.next_seq)
           after == PullEntry(acc, m)
           at(x) == Off(start, x)
<1>1. /\ m \in SeqNumbers /\ h.next_seq \in SeqNumbers /\ acc.next_seq \in SeqNumbers
      /\ at(m) < Half /\ at(acc.next_seq) < Half /\ at(h.next_seq) < Half
  <2>1. m \in SeqNumbers /\ h.next_seq \in SeqNumbers /\ acc.next_seq \in SeqNumbers
        /\ at(acc.next_seq) < Half /\ at(h.next_seq) < Half
    BY DEF Pullable, IsReassembler, LoopInv, TakenSound
  <2>2. IsPiece(start, m, h.pending[m]) /\ h.pending[m] \in Seq(B)
    BY DEF Pullable
  <2>3. at(m) + Len(h.pending[m]) < Half /\ Len(h.pending[m]) \in Nat
    BY <2>2 DEF IsPiece
  <2>4. at(m) \in SeqNumbers
    BY <2>1, OffNames
  <2>5. at(m) \in Int /\ Half \in Int
    BY <2>4, HalfFacts DEF SeqNumbers
  <2> HIDE DEF at
  <2> QED BY <2>1, <2>3, <2>5
<1>2. \A x \in {at(m), at(acc.next_seq), at(h.next_seq)} : x \in Nat
  <2>1. at(m) \in SeqNumbers /\ at(acc.next_seq) \in SeqNumbers /\ at(h.next_seq) \in SeqNumbers
    BY <1>1, OffNames
  <2> QED BY <2>1 DEF SeqNumbers
<1>3. seqLessThan(acc.next_seq, m) <=> at(acc.next_seq) < at(m)
  BY <1>1, Compare
<1>4. CASE acc.gap
  <2>1. after = [acc EXCEPT !.gap = TRUE]
    BY <1>4 DEF PullEntry
  <2>2. /\ HasLoopFields(after) /\ after.gap = TRUE /\ after.pending = acc.pending
        /\ after.next_seq = acc.next_seq /\ after.bytes = acc.bytes
    BY <2>1 DEF LoopInv, HasLoopFields
  <2> HIDE DEF after
  <2>3. TakenSound(start, h, B, after)
    BY <2>2 DEF LoopInv, TakenSound
  <2>4. LeftSound(start, h, T, after)
    BY <2>2, <1>4 DEF LoopInv, LeftSound
  <2> QED BY <2>2, <2>3, <2>4 DEF LoopInv, after
<1>5. CASE ~acc.gap /\ at(acc.next_seq) < at(m)
  <2>1. after = [acc EXCEPT !.gap = TRUE]
    BY <1>3, <1>5 DEF PullEntry
  <2>2. /\ HasLoopFields(after) /\ after.gap = TRUE /\ after.pending = acc.pending
        /\ after.next_seq = acc.next_seq /\ after.bytes = acc.bytes
    BY <2>1 DEF LoopInv, HasLoopFields
  <2> HIDE DEF after
  <2>3. TakenSound(start, h, B, after)
    BY <2>2 DEF LoopInv, TakenSound
  <2>4. ASSUME NEW seq \in DOMAIN after.pending
        PROVE  /\ at(after.next_seq) <= at(seq)
               /\ InStreamOrder(start, DOMAIN h.pending) => at(after.next_seq) < at(seq)
    <3>1. seq \in DOMAIN h.pending /\ seq \notin T \ {m}
      BY <2>2, <1>5 DEF LoopInv, LeftSound
    <3> QED BY <2>2, <3>1, <1>5, GapIsAhead
  <2>5. LeftSound(start, h, T, after)
    BY <2>2, <2>4, <1>5 DEF LoopInv, LeftSound
  <2> QED BY <2>2, <2>3, <2>5 DEF LoopInv, after
<1>6. CASE ~acc.gap /\ at(m) <= at(acc.next_seq)
  <2>1. m \in DOMAIN acc.pending /\ data = h.pending[m]
    BY <1>6 DEF LoopInv, LeftSound
  <2>2. data \in Seq(B) /\ IsPiece(start, m, data)
    BY <2>1 DEF Pullable
  <2>3. trim = at(acc.next_seq) - at(m) /\ trim \in Nat /\ Len(data) \in Nat
    <3>1. trim = at(acc.next_seq) - at(m)
      BY <1>1, <1>6, Compare
    <3> HIDE DEF trim, data
    <3> QED BY <3>1, <2>2, <1>2, <1>6
  <2>4. ~seqLessThan(acc.next_seq, m)
    BY <1>2, <1>3, <1>6
  <2>5. after = IF trim >= Len(data)
                THEN [acc EXCEPT !.pending = Erase(acc.pending, m)]
                ELSE [acc EXCEPT !.pending = Erase(acc.pending, m),
                                 !.bytes = acc.bytes \o SubSeq(data, trim + 1, Len(data)),
                                 !.next_seq = (m + Len(data)) % SeqModulus]
    BY <2>4, <1>6 DEF PullEntry, LoopInv, HasLoopFields
  <2>6. /\ HasLoopFields(after) /\ after.gap = acc.gap /\ after.pending = Erase(acc.pending, m)
        /\ trim >= Len(data) => after.next_seq = acc.next_seq /\ after.bytes = acc.bytes
        /\ trim < Len(data) => /\ after.next_seq = (m + Len(data)) % SeqModulus
                               /\ after.bytes = acc.bytes \o SubSeq(data, trim + 1, Len(data))
    <3>1. HasLoopFields(acc)
      BY DEF LoopInv
    <3> HIDE DEF trim, data, after
    <3>2. CASE trim >= Len(data)
      <4>1. after = [acc EXCEPT !.pending = Erase(acc.pending, m)]
        BY <2>5, <3>2
      <4>2. ~(trim < Len(data))
        BY <2>3, <3>2
      <4> QED BY <3>1, <4>1, <4>2 DEF HasLoopFields
    <3>3. CASE ~(trim >= Len(data))
      <4>1. after = [acc EXCEPT !.pending = Erase(acc.pending, m),
                                 !.bytes = acc.bytes \o SubSeq(data, trim + 1, Len(data)),
                                 !.next_seq = (m + Len(data)) % SeqModulus]
        BY <2>5, <3>3
      <4> QED BY <3>1, <3>3, <4>1 DEF HasLoopFields
    <3> QED BY <3>2, <3>3
  <2>7. /\ DOMAIN after.pending = DOMAIN h.pending \ T
        /\ \A seq \in DOMAIN after.pending : after.pending[seq] = h.pending[seq]
    <3>1. DOMAIN acc.pending = DOMAIN h.pending \ (T \ {m})
      BY <1>6 DEF LoopInv, LeftSound
    <3>2. \A seq \in DOMAIN acc.pending : acc.pending[seq] = h.pending[seq]
      BY DEF LoopInv, LeftSound
    <3> HIDE DEF after
    <3> QED BY <2>6, <3>1, <3>2 DEF Erase
  <2>8. CASE trim >= Len(data)
    <3> HIDE DEF trim, data, after
    <3>1. after.next_seq = acc.next_seq /\ after.bytes = acc.bytes
      BY <2>6, <2>8
    <3>2. TakenSound(start, h, B, after)
      BY <3>1 DEF LoopInv, TakenSound
    <3>3. LeftSound(start, h, T, after)
      BY <2>6, <2>7, <3>1, <1>6 DEF LoopInv, LeftSound
    <3> QED BY <2>6, <3>2, <3>3, <1>6 DEF LoopInv, after
  <2>9. CASE trim < Len(data)
    <3> DEFINE new == SubSeq(data, trim + 1, Len(data))
               taken == acc.bytes
    <3>1. /\ new \in Seq(B) /\ Len(new) = Len(data) - trim
          /\ \A i \in 1..(Len(data) - trim) : new[i] = data[trim + i]
      <4> HIDE DEF trim, data
      <4>1. \A i \in (trim + 1)..Len(data) : data[i] \in B
        BY <2>2, <2>3
      <4>2. /\ SubSeq(data, trim + 1, Len(data)) \in Seq(B)
            /\ Len(SubSeq(data, trim + 1, Len(data))) =
                   IF trim + 1 <= Len(data) THEN Len(data) - (trim + 1) + 1 ELSE 0
            /\ \A i \in 1 .. Len(data) - (trim + 1) + 1 :
                  SubSeq(data, trim + 1, Len(data))[i] = data[(trim + 1) + i - 1]
        <5>1. trim + 1 \in Int /\ Len(data) \in Int
          BY <2>3
        <5> QED BY ONLY <4>1, <5>1, SubSeqProperties
      <4>3. \A i \in 1..(Len(data) - trim) : (trim + 1) + i - 1 = trim + i
        BY <2>3
      <4> QED BY <2>3, <2>9, <4>2, <4>3
    <3>2. /\ taken \in Seq(B) /\ Len(taken) \in Nat
          /\ at(acc.next_seq) = at(h.next_seq) + Len(taken)
          /\ \A i \in 1..Len(taken) : taken[i] = at(h.next_seq) + i - 1
      BY DEF LoopInv, TakenSound
    <3>3. /\ taken \o new \in Seq(B)
          /\ Len(taken \o new) = Len(taken) + Len(new)
          /\ \A i \in 1..(Len(taken) + Len(new)) :
                (taken \o new)[i] = IF i <= Len(taken) THEN taken[i] ELSE new[i - Len(taken)]
      <4> HIDE DEF new, taken
      <4> QED BY <3>1, <3>2, ConcatProperties
    <3>4. after.bytes = taken \o new /\ after.next_seq = (m + Len(data)) % SeqModulus
      <4> HIDE DEF trim, data, after
      <4> QED BY <2>6, <2>9
    <3>5. at(m) + Len(data) < Half
      BY <2>2 DEF IsPiece
    <3>6. /\ after.next_seq \in SeqNumbers /\ at(after.next_seq) = at(m) + Len(data)
      <4> HIDE DEF trim, data, after, taken, new
      <4> QED BY <3>4, <3>5, <2>3, <1>1, <1>2, Advance, HalfFacts
    <3>7. at(after.next_seq) = at(h.next_seq) + Len(after.bytes) /\ after.bytes # <<>>
      <4> HIDE DEF trim, data, after, taken, new, at
      <4>1. Len(after.bytes) = Len(taken) + (Len(data) - trim)
        BY <3>1, <3>3, <3>4
      <4>2. at(after.next_seq) = at(h.next_seq) + Len(after.bytes)
        <5>1. trim = at(acc.next_seq) - at(m) /\ at(acc.next_seq) = at(h.next_seq) + Len(taken)
          BY <2>3, <3>2
        <5>2. at(m) \in Nat /\ at(acc.next_seq) \in Nat /\ at(h.next_seq) \in Nat
          BY <1>2
        <5> QED BY <4>1, <5>1, <5>2, <3>2, <3>6, <2>3
      <4>3. Len(after.bytes) # 0
        BY <4>1, <3>2, <2>3, <2>9
      <4> QED BY <4>2, <4>3
    <3>8. ASSUME NEW i \in 1..Len(after.bytes) PROVE after.bytes[i] = at(h.next_seq) + i - 1
      <4>1. \A k \in 1..Len(data) : data[k] = at(m) + k - 1
        BY <2>2 DEF IsPiece
      <4> HIDE DEF trim, data, after, taken, new, at
      <4>2. CASE i <= Len(taken)
        BY <3>2, <3>3, <3>4, <3>1, <4>2
      <4>3. CASE i > Len(taken)
        <5>1. after.bytes[i] = new[i - Len(taken)] /\ i - Len(taken) \in 1..(Len(data) - trim)
          BY <3>1, <3>2, <3>3, <3>4, <4>3, <2>3
        <5>2. new[i - Len(taken)] = data[trim + (i - Len(taken))]
          BY <5>1, <3>1
        <5>3. trim + (i - Len(taken)) \in 1..Len(data)
          BY <5>1, <3>2, <2>3
        <5>4. data[trim + (i - Len(taken))] = at(m) + (trim + (i - Len(taken))) - 1
          BY <4>1, <5>3
        <5>5. at(m) + trim = at(h.next_seq) + Len(taken)
          BY <3>2, <2>3, <1>2
        <5>6. at(m) + (trim + (i - Len(taken))) - 1 = at(h.next_seq) + i - 1
          <6>1. \A a, b, c, t, j \in Int : a + t = b + c => a + (t + (j - c)) - 1 = b + j - 1
            OBVIOUS
          <6>2. /\ at(m) \in Int /\ at(h.next_seq) \in Int /\ trim \in Int
                /\ Len(taken) \in Int /\ i \in Int
            BY <3>2, <2>3, <1>2
          <6> QED BY ONLY <5>5, <6>1, <6>2
        <5> QED BY <5>1, <5>2, <5>4, <5>6
      <4> QED BY <4>2, <4>3, <3>2
    <3>9. TakenSound(start, h, B, after)
      <4>1. at(after.next_seq) < Half
        BY <3>5, <3>6
      <4> HIDE DEF trim, data, after, taken, new
      <4> QED BY <3>3, <3>4, <3>6, <3>7, <3>8, <4>1 DEF TakenSound
    <3>10. h.next_seq \in T
      <4>1. CASE acc.bytes # <<>>
        BY <4>1 DEF LoopInv, LeftSound
      <4>2. CASE acc.bytes = <<>>
        <5>1. at(m) = at(h.next_seq)
          <6>1. at(h.next_seq) <= at(m)
            BY DEF Pullable
          <6>2. Len(taken) = 0
            BY <4>2
          <6> HIDE DEF at, taken
          <6> QED BY <3>2, <6>1, <6>2, <1>2, <1>6
        <5> QED BY <5>1, <1>1, Compare
      <4> QED BY <4>1, <4>2
    <3>11. LeftSound(start, h, T, after)
      <4> HIDE DEF trim, data, after, taken, new, at
      <4> QED BY <2>6, <2>7, <3>10, <1>6 DEF LeftSound
    <3> QED BY <2>6, <3>9, <3>11, <1>6 DEF LoopInv, after
  <2> HIDE DEF trim, data, after
  <2> QED BY <2>3, <2>8, <2>9 DEF after
<1> QED BY <1>2, <1>4, <1>5, <1>6 DEF LoopInv

\* The pieces captured have no byte in common, and what h holds are such pieces.
PiecesApart(pieces) ==
    \A s, u \in pieces : s = u \/ s[2] <= u[1] \/ u[2] <= s[1]

HoldsPieces(start, pieces, h) ==
    /\ pieces \subseteq {s \in Nat \X Nat : s[1] < s[2] /\ s[2] < Half}
    /\ PiecesApart(pieces)
    /\ \A seq \in DOMAIN h.pending :
          <<Off(start, seq), Off(start, seq) + Len(h.pending[seq])>> \in pieces

\* Every piece is behind the cursor or its start is among keys, and the cursor
\* stands where a piece starts or ends.
NoPieceLost(start, pieces, keys, cursor) ==
    /\ \A s \in pieces : s[2] <= Off(start, cursor) \/ (start + s[1]) % SeqModulus \in keys
    /\ pieces # {} => \E s \in pieces : Off(start, cursor) \in {s[1], s[2]}

\* One round of the loop loses no piece.
LEMMA VisitKeepsPieces ==
    ASSUME NEW start \in SeqNumbers, NEW h, NEW B, Pullable(start, h, B),
           NEW T, T \subseteq DOMAIN h.pending, NEW m \in T,
           NEW acc, LoopInv(start, h, B, T \ {m}, acc),
           NEW pieces, HoldsPieces(start, pieces, h),
           NoPieceLost(start, pieces, DOMAIN acc.pending, acc.next_seq)
    PROVE  NoPieceLost(start, pieces, DOMAIN PullEntry(acc, m).pending, PullEntry(acc, m).next_seq)
<1> DEFINE data == acc.pending[m]
           trim == Distance(m, acc.next_seq)
           after == PullEntry(acc, m)
           at(x) == Off(start, x)
           end == at(m) + Len(data)
<1>1. /\ m \in SeqNumbers /\ acc.next_seq \in SeqNumbers /\ at(acc.next_seq) < Half
      /\ at(m) \in Nat /\ at(acc.next_seq) \in Nat
  <2>1. m \in SeqNumbers /\ acc.next_seq \in SeqNumbers /\ at(acc.next_seq) < Half
    BY DEF Pullable, IsReassembler, LoopInv, TakenSound
  <2>2. at(m) \in SeqNumbers /\ at(acc.next_seq) \in SeqNumbers
    BY <2>1, OffNames
  <2> QED BY <2>1, <2>2 DEF SeqNumbers
<1>2. CASE acc.gap \/ seqLessThan(acc.next_seq, m)
  <2>1. after = [acc EXCEPT !.gap = TRUE]
    BY <1>2 DEF PullEntry
  <2>2. after.pending = acc.pending /\ after.next_seq = acc.next_seq
    BY <2>1 DEF LoopInv, HasLoopFields
  <2> QED BY <2>2
<1>3. CASE ~(acc.gap \/ seqLessThan(acc.next_seq, m))
  <2>1. m \in DOMAIN acc.pending /\ data = h.pending[m]
    BY <1>3 DEF LoopInv, LeftSound
  <2>2. /\ Len(data) \in Nat /\ data # <<>> /\ end < Half /\ <<at(m), end>> \in pieces
    BY <2>1 DEF Pullable, IsPiece, HoldsPieces
  <2>3. at(m) < Half /\ Len(data) > 0
    <3>1. Len(data) > 0
      BY <2>1, <2>2 DEF Pullable
    <3> HIDE DEF at, data
    <3> QED BY <3>1, <2>2, <1>1, HalfFacts
  <2>4. at(m) <= at(acc.next_seq) /\ trim = at(acc.next_seq) - at(m)
    <3>1. seqLessThan(acc.next_seq, m) <=> at(acc.next_seq) < at(m)
      BY <1>1, <2>3, Compare
    <3>2. at(m) <= at(acc.next_seq) => trim = at(acc.next_seq) - at(m)
      BY <1>1, <2>3, Compare
    <3> QED BY <1>1, <1>3, <3>1, <3>2
  <2>5. /\ after.pending = Erase(acc.pending, m)
        /\ trim >= Len(data) => after.next_seq = acc.next_seq
        /\ trim < Len(data) => after.next_seq = (m + Len(data)) % SeqModulus
    <3>1. HasLoopFields(acc)
      BY DEF LoopInv
    <3>2. after = IF trim >= Len(data)
                  THEN [acc EXCEPT !.pending = Erase(acc.pending, m)]
                  ELSE [acc EXCEPT !.pending = Erase(acc.pending, m),
                                   !.bytes = acc.bytes \o SubSeq(data, trim + 1, Len(data)),
                                   !.next_seq = (m + Len(data)) % SeqModulus]
      BY <1>3, <3>1 DEF PullEntry, HasLoopFields
    <3>3. trim \in Int
      <4> HIDE DEF trim, at
      <4> QED BY <1>1, <2>4
    <3> HIDE DEF trim, data, after
    <3>4. CASE trim >= Len(data)
      BY <3>1, <3>2, <3>3, <3>4, <2>2 DEF HasLoopFields
    <3>5. CASE ~(trim >= Len(data))
      <4>1. after = [acc EXCEPT !.pending = Erase(acc.pending, m),
                                !.bytes = acc.bytes \o SubSeq(data, trim + 1, Len(data)),
                                !.next_seq = (m + Len(data)) % SeqModulus]
        BY <3>2, <3>5
      <4> QED BY <3>1, <3>5, <4>1 DEF HasLoopFields
    <3> QED BY <3>4, <3>5
  <2>6. DOMAIN after.pending = DOMAIN acc.pending \ {m}
    <3> HIDE DEF after
    <3> QED BY <2>5 DEF Erase
  \* The cursor is not before the end of the piece visited, nor moves back.
  <2>7. /\ at(after.next_seq) \in Nat
        /\ end <= at(after.next_seq) /\ at(acc.next_seq) <= at(after.next_seq)
        /\ at(after.next_seq) \in {at(acc.next_seq), end}
    <3>1. CASE trim >= Len(data)
      <4> HIDE DEF at, data, trim, after
      <4> QED BY <1>1, <2>2, <2>4, <2>5, <3>1
    <3>2. CASE trim < Len(data)
      <4>1. at((m + Len(data)) % SeqModulus) = at(m) + Len(data)
        <5> HIDE DEF data
        <5> QED BY <1>1, <2>2, HalfFacts, Advance
      <4> HIDE DEF at, data, trim, after
      <4> QED BY <1>1, <2>2, <2>4, <2>5, <3>2, <4>1
    <3>3. trim \in Int
      <4> HIDE DEF trim, at
      <4> QED BY <1>1, <2>4
    <3> HIDE DEF at, data, trim, after, end
    <3> QED BY <2>2, <3>1, <3>2, <3>3
  <2>8. ASSUME NEW s \in pieces
        PROVE  s[2] <= at(after.next_seq) \/ (start + s[1]) % SeqModulus \in DOMAIN after.pending
    <3>1. s[1] \in Nat /\ s[2] \in Nat /\ s[1] < s[2] /\ s[2] < Half
      BY DEF HoldsPieces
    <3>2. CASE s[2] <= at(acc.next_seq)
      <4> HIDE DEF at, data, trim, after, end
      <4> QED BY <1>1, <2>7, <3>1, <3>2
    <3>3. CASE (start + s[1]) % SeqModulus = m
      <4>1. at(m) = s[1]
        BY <3>1, <3>3, SeqOfOffset, HalfFacts
      <4>2. \A u \in pieces : s = u \/ s[2] <= u[1] \/ u[2] <= s[1]
        BY DEF HoldsPieces, PiecesApart
      <4>3. s = <<at(m), end>> \/ s[2] <= at(m) \/ end <= s[1]
        <5> HIDE DEF at, end
        <5> QED BY <2>2, <4>2
      <4>4. s[2] = end
        <5> HIDE DEF at, data
        <5> QED BY <1>1, <2>2, <2>3, <3>1, <4>1, <4>3
      <4> QED BY <2>7, <4>4
    <3>4. s[2] <= at(acc.next_seq) \/ (start + s[1]) % SeqModulus \in DOMAIN acc.pending
      BY DEF NoPieceLost
    <3> QED BY <2>6, <3>2, <3>3, <3>4
  <2>9. \E s \in pieces : at(after.next_seq) \in {s[1], s[2]}
    <3>1. \E s \in pieces : at(acc.next_seq) \in {s[1], s[2]}
      BY <2>2 DEF NoPieceLost
    <3> HIDE DEF at, data, trim, after, end
    <3> QED BY <2>2, <2>7, <3>1
  <2> QED BY <2>8, <2>9 DEF NoPieceLost
<1> QED BY <1>2, <1>3

\* What the loop starts from and what it ends with.
Before(h) == [pending |-> h.pending, next_seq |-> h.next_seq, bytes |-> <<>>, gap |-> FALSE]

LoopEnd(h) == Walk!Loop(0, Before(h), DOMAIN h.pending)

\* pullContiguous is that loop.
LEMMA PullIsLoop ==
    ASSUME NEW h
    PROVE  pullContiguous(h) = Pulled(h, LoopEnd(h))
BY DEF pullContiguous, LoopEnd, Before, Walk!Loop, Walk!MapThenFoldSet, MapThenFoldSet, Visit

\* The loop's module means the same by a finite set.
LEMMA SameFiniteness == \A S : Walk!IsFiniteSet(S) <=> IsFiniteSet(S)
BY DEF Walk!IsFiniteSet, IsFiniteSet

\* Max picks the largest key.
LEMMA KeysPicked ==
    ASSUME NEW keys, keys \subseteq SeqNumbers
    PROVE  /\ IsFiniteSet(keys)
           /\ Walk!PicksFrom(keys)
           /\ \A T \in SUBSET keys : T # {} => Max(T) \in T /\ \A y \in T : y <= Max(T)
<1>1. IsFiniteSet(keys)
  <2>1. IsFiniteSet(SeqNumbers)
    BY HalfFacts, FS_Interval DEF SeqNumbers
  <2> QED BY <2>1, FS_Subset
<1>2. ASSUME NEW T \in SUBSET keys, T # {} PROVE Max(T) \in T /\ \A y \in T : y <= Max(T)
  <2>1. T \subseteq Int
    BY DEF SeqNumbers
  <2>2. IsFiniteSet(T)
    BY <1>1, FS_Subset
  <2>3. \E x \in T : \A y \in T : y <= x
    BY <1>2, <2>1, <2>2, SameFiniteness, Walk!LargestElement
  <2>4. \E x \in T : \A y \in T : x >= y
    BY <2>1, <2>3
  <2>5. Max(T) \in T /\ \A y \in T : Max(T) >= y
    BY <2>4 DEF Max
  <2> QED BY <2>1, <2>5
<1> QED BY <1>1, <1>2 DEF Walk!PicksFrom

\* The loop invariant holds at the end.
LEMMA LoopEndSound ==
    ASSUME NEW start \in SeqNumbers, NEW h, NEW B, Pullable(start, h, B),
           NEW pieces,
           HoldsPieces(start, pieces, h)
               => NoPieceLost(start, pieces, DOMAIN h.pending, h.next_seq)
    PROVE  /\ LoopInv(start, h, B, DOMAIN h.pending, LoopEnd(h))
           /\ HoldsPieces(start, pieces, h)
                => NoPieceLost(start, pieces, DOMAIN LoopEnd(h).pending, LoopEnd(h).next_seq)
<1> DEFINE keys == DOMAIN h.pending
           At(T) == Walk!Loop(0, Before(h), T)
           Holds(T) ==
               /\ LoopInv(start, h, B, T, At(T))
               /\ HoldsPieces(start, pieces, h)
                    => NoPieceLost(start, pieces, DOMAIN At(T).pending, At(T).next_seq)
           Good == {T \in SUBSET keys : DownClosed(T, keys) => Holds(T)}
<1>1. /\ IsFiniteSet(keys) /\ Walk!PicksFrom(keys) /\ keys \subseteq SeqNumbers
      /\ \A T \in SUBSET keys : T # {} => Max(T) \in T /\ \A y \in T : y <= Max(T)
  <2>1. keys \subseteq SeqNumbers
    BY DEF Pullable, IsReassembler
  <2> QED BY <2>1, KeysPicked
<1>2. {} \in Good
  <2>1. At({}) = Before(h)
    BY Walk!LoopEmpty
  <2>2. h.next_seq \in SeqNumbers /\ Off(start, h.next_seq) < Half
    BY DEF Pullable, IsReassembler
  <2>3. Off(start, h.next_seq) \in Nat
    <3>1. Off(start, h.next_seq) \in SeqNumbers
      BY <2>2, OffNames
    <3> QED BY <3>1 DEF SeqNumbers
  <2>4. TakenSound(start, h, B, Before(h))
    <3>1. Before(h).bytes = <<>> /\ Before(h).next_seq = h.next_seq
      BY DEF Before
    <3> QED BY <2>2, <2>3, <3>1 DEF TakenSound
  <2>5. LeftSound(start, h, {}, Before(h))
    BY DEF LeftSound, Before
  <2>6. HasLoopFields(Before(h)) /\ Before(h).gap = FALSE
        /\ Before(h).pending = h.pending /\ Before(h).next_seq = h.next_seq
    BY DEF HasLoopFields, Before
  <2>7. LoopInv(start, h, B, {}, Before(h))
    BY <2>4, <2>5, <2>6 DEF LoopInv
  <2> HIDE DEF At
  <2> QED BY <2>1, <2>6, <2>7
<1>3. ASSUME NEW T \in SUBSET keys, T # {}, T \ {Max(T)} \in Good PROVE T \in Good
  <2> SUFFICES ASSUME DownClosed(T, keys) PROVE Holds(T)
    OBVIOUS
  <2> DEFINE m == Max(T)
             acc == At(T \ {m})
  <2>1. m \in T /\ \A y \in T : y <= m
    BY <1>1, <1>3
  <2>2. DownClosed(T \ {m}, keys)
    <3>1. \A x \in T \ {m}, y \in keys : y < x => y # m
      BY <1>1, <2>1 DEF SeqNumbers
    <3> HIDE DEF m
    <3> QED BY <3>1 DEF DownClosed
  <2>3. Holds(T \ {m})
    BY <1>3, <2>2
  <2>4. At(T) = PullEntry(acc, m)
    <3>1. IsFiniteSet(T) /\ Walk!PicksFrom(T)
      BY <1>1, KeysPicked
    <3>2. At(T) = Visit(0, m, acc)
      BY <1>3, <3>1, SameFiniteness, Walk!LoopStep
    <3> QED BY <3>2 DEF Visit
  <2> HIDE DEF m, At
  <2>5. LoopInv(start, h, B, T, At(T))
    BY <2>1, <2>3, <2>4, VisitKeeps
  <2>6. HoldsPieces(start, pieces, h)
          => NoPieceLost(start, pieces, DOMAIN At(T).pending, At(T).next_seq)
    BY <2>1, <2>3, <2>4, VisitKeepsPieces
  <2> QED BY <2>5, <2>6
<1>4. SUBSET keys \subseteq Good
  <2> HIDE DEF Good
  <2> QED BY <1>1, <1>2, <1>3, SameFiniteness, Walk!PickInduction
<1>5. Holds(keys)
  <2>1. DownClosed(keys, keys)
    BY DEF DownClosed
  <2> QED BY <1>4, <2>1
<1> QED BY <1>5 DEF LoopEnd

\* The offset of the cursor, and of every key, is a natural number.
LEMMA OffIsNat ==
    ASSUME NEW start \in SeqNumbers, NEW seq \in SeqNumbers
    PROVE  Off(start, seq) \in Nat
<1>1. Off(start, seq) \in SeqNumbers
  BY OffNames
<1> QED BY <1>1 DEF SeqNumbers

\* What pullContiguous() returns when there is data to look at.
LEMMA PullEffect ==
    ASSUME NEW h, IsReassembler(h), NEW e, HasLoopFields(e),
           e.next_seq \in SeqNumbers, DOMAIN e.pending \subseteq SeqNumbers,
           NEW p, p = Pulled(h, e)
    PROVE  /\ IsReassembler(p.reassembler)
           /\ p.reassembler.initialized = h.initialized
           /\ p.reassembler.consumed_any = (h.consumed_any \/ e.bytes # <<>>)
           /\ p.reassembler.next_seq = e.next_seq
           /\ p.reassembler.pending = e.pending
           /\ p.bytes = e.bytes
<1>1. p.bytes = e.bytes
  BY DEF Pulled
<1>2. /\ HasFields(p.reassembler)
      /\ p.reassembler.initialized = h.initialized
      /\ p.reassembler.consumed_any = (h.consumed_any \/ e.bytes # <<>>)
      /\ p.reassembler.next_seq = e.next_seq
      /\ p.reassembler.pending = e.pending
  BY DEF Pulled, IsReassembler, HasFields
<1>3. IsReassembler(p.reassembler)
  BY <1>2 DEF IsReassembler
<1> QED BY <1>1, <1>2, <1>3
-----------------------------------------------------------------------------
(***************************************************************************)
(* A reassembler that is given the pieces of one stream.                   *)
(***************************************************************************)
\* h has been given pieces: where the stream is always cut at the same places, none of
\* them was lost.
HasPieces(start, pieces, h) ==
    /\ pieces \subseteq {s \in Nat \X Nat : s[1] < s[2] /\ s[2] < Half}
    /\ PiecesApart(pieces) =>
          /\ HoldsPieces(start, pieces, h)
          /\ NoPieceLost(start, pieces, DOMAIN h.pending, h.next_seq)

\* h may take another piece: it can be pulled once it has been given one, and
\* until something was delivered its cursor is at the first piece of all.
Ready(start, pieces, h, B) ==
    /\ IsReassembler(h) /\ HasPieces(start, pieces, h)
    /\ h.initialized => Pullable(start, h, B) /\ pieces # {}
    /\ ~h.initialized => DOMAIN h.pending = {} /\ pieces = {}
    /\ ~h.consumed_any => \A s \in pieces : Off(start, h.next_seq) <= s[1]

\* a is h with the piece [lo, hi) added to pieces: the cursor moves back to it only
\* if nothing has been delivered yet.
Took(start, pieces, h, lo, hi, a, B) ==
    /\ Pullable(start, a, B)
    /\ HasPieces(start, pieces \cup {<<lo, hi>>}, a)
    /\ a.initialized /\ a.consumed_any = h.consumed_any
    /\ Off(start, a.next_seq) = CursorOffset(start, h, lo)
    /\ CursorOffset(start, h, lo) \in Nat
    /\ \A seq \in DOMAIN a.pending :
          seq \in DOMAIN h.pending \/ Off(start, seq) \in lo..(hi - 1)

\* Every entry of new is one of old, or holds the bytes first .. hi - 1 of a segment.
OneMore(start, lo, hi, first, old, new) ==
    /\ DOMAIN old \subseteq DOMAIN new
    /\ \A seq \in DOMAIN new :
          \/ seq \in DOMAIN old /\ new[seq] = old[seq]
          \/ /\ first < hi
             /\ Off(start, seq) = first
             /\ new[seq] \in Seq(lo..(hi - 1))
             /\ Len(new[seq]) = hi - first
             /\ \A i \in 1..Len(new[seq]) : new[seq][i] = first + i - 1

\* What addSegment adds to pending_ is a piece, and an entry that it replaces
\* started at the same byte.
LEMMA KeptIsOneMore ==
    ASSUME NEW start \in SeqNumbers, NEW lo \in Nat, NEW hi \in Nat,
           NEW first \in Nat, first < hi,
           NEW old, NEW new, Kept(start, lo, hi, first, old, new)
    PROVE  /\ OneMore(start, lo, hi, first, old, new)
           /\ (start + first) % SeqModulus \in DOMAIN new
<1>1. PICK seq \in SeqNumbers, data \in Seq(lo..(hi - 1)) :
        /\ Off(start, seq) = first
        /\ Len(data) = hi - first
        /\ \A i \in 1..Len(data) : data[i] = first + i - 1
        /\ new = Store(old, seq, data)
  BY DEF Kept
<1>2. new = [x \in DOMAIN old \cup {seq} |-> IF x = seq THEN data ELSE old[x]]
  BY <1>1 DEF Store
<1>3. ASSUME NEW x \in DOMAIN new, x # seq
      PROVE  x \in DOMAIN old /\ new[x] = old[x]
  BY <1>2, <1>3
<1>4. new[seq] = data
  BY <1>2
<1>5. seq = (start + first) % SeqModulus
  BY <1>1, OffNames
<1> QED BY <1>1, <1>2, <1>3, <1>4, <1>5 DEF OneMore

\* A segment of the stream is one more piece.
LEMMA AddPiece ==
    ASSUME NEW start \in SeqNumbers, NEW h, NEW B, NEW pieces,
           Ready(start, pieces, h, B),
           NEW lo \in Nat, NEW hi \in Nat, lo < hi, hi < Half, lo..(hi - 1) \subseteq B
    PROVE  Took(start, pieces, h, lo, hi,
                addSegment(h, (start + lo) % SeqModulus, Bytes(lo, hi)), B)
<1> DEFINE a == addSegment(h, (start + lo) % SeqModulus, Bytes(lo, hi))
           c == CursorOffset(start, h, lo)
           cur == Off(start, h.next_seq)
           first == IF lo < c THEN c ELSE lo
           more == pieces \cup {<<lo, hi>>}
<1>0. /\ IsReassembler(h) /\ HasPieces(start, pieces, h)
      /\ h.initialized => Pullable(start, h, B) /\ pieces # {}
      /\ ~h.initialized => DOMAIN h.pending = {} /\ pieces = {}
      /\ ~h.consumed_any => \A s \in pieces : Off(start, h.next_seq) <= s[1]
  BY DEF Ready
<1> USE <1>0
<1>1. /\ IsReassembler(a)
      /\ a.initialized /\ a.consumed_any = h.consumed_any
      /\ Off(start, a.next_seq) = c /\ c \in Nat /\ c < Half
      /\ hi <= c => a.pending = h.pending
      /\ c < hi => Kept(start, lo, hi, first, h.pending, a.pending)
  <2>1. h.initialized => Off(start, h.next_seq) < Half
    BY DEF Pullable
  <2>2. first = IF lo < c THEN c ELSE lo
    OBVIOUS
  <2>3. a = addSegment(h, (start + lo) % SeqModulus, Bytes(lo, hi)) /\ c = CursorOffset(start, h, lo)
    OBVIOUS
  <2> HIDE DEF first, cur, a, c
  <2> QED BY <2>1, <2>2, <2>3, AddEffect
<1>2. cur \in Nat
  BY OffIsNat DEF IsReassembler
\* Where the cursor went.
<1>3. /\ c \in {lo, cur}
      /\ h.initialized => c <= cur
      /\ c # lo => h.initialized
      /\ c # cur /\ h.initialized => ~h.consumed_any
  <2>1. c = IF ~h.initialized \/ (~h.consumed_any /\ lo < cur) THEN lo ELSE cur
    BY DEF CursorOffset
  <2> HIDE DEF cur, c, a
  <2> QED BY <1>2, <2>1
<1> HIDE DEF a, c
<1>4. first \in Nat /\ c <= first /\ lo <= first /\ (first < hi <=> c < hi)
  BY <1>1
<1>5. OneMore(start, lo, hi, first, h.pending, a.pending)
  <2>1. CASE hi <= c
    BY <1>1, <2>1 DEF OneMore
  <2>2. CASE c < hi
    <3> HIDE DEF first
    <3> QED BY <1>1, <1>4, <2>2, KeptIsOneMore
  <2> QED BY <1>1, <2>1, <2>2
<1>6. c < hi => (start + first) % SeqModulus \in DOMAIN a.pending
  <2> HIDE DEF first
  <2> QED BY <1>1, <1>4, KeptIsOneMore
<1> HIDE DEF cur, first, more, a, c
<1>7. ASSUME NEW seq \in DOMAIN a.pending
      PROVE  /\ a.pending[seq] \in Seq(B)
             /\ IsPiece(start, seq, a.pending[seq])
             /\ c <= Off(start, seq)
             /\ seq \in DOMAIN h.pending \/ Off(start, seq) \in lo..(hi - 1)
  <2>1. CASE seq \in DOMAIN h.pending /\ a.pending[seq] = h.pending[seq]
    <3>1. h.initialized
      BY <2>1
    <3>2. /\ h.pending[seq] \in Seq(B)
          /\ IsPiece(start, seq, h.pending[seq])
          /\ cur <= Off(start, seq)
      BY <2>1, <3>1 DEF Pullable, cur
    <3>3. Off(start, seq) \in Nat
      BY <2>1, OffIsNat DEF IsReassembler
    <3>4. c <= Off(start, seq)
      BY <1>1, <1>2, <1>3, <3>1, <3>2, <3>3
    <3> QED BY <2>1, <3>2, <3>4
  <2>2. CASE /\ first < hi
             /\ Off(start, seq) = first
             /\ a.pending[seq] \in Seq(lo..(hi - 1))
             /\ Len(a.pending[seq]) = hi - first
             /\ \A i \in 1..Len(a.pending[seq]) : a.pending[seq][i] = first + i - 1
    <3>1. hi - first > 0 /\ first + (hi - first) = hi /\ first \in lo..(hi - 1)
      BY <1>4, <2>2
    <3>2. a.pending[seq] # <<>>
      <4>1. Len(<<>>) = 0
        OBVIOUS
      <4> QED BY <2>2, <3>1, <4>1
    <3>3. a.pending[seq] \in Seq(B)
      <4> DEFINE S == lo..(hi - 1)
      <4>1. S \subseteq B /\ a.pending[seq] \in Seq(S)
        BY <2>2
      <4> HIDE DEF S
      <4> QED BY <4>1, SeqMonotonic
    <3> QED BY <1>4, <2>2, <3>1, <3>2, <3>3 DEF IsPiece
  <2> QED BY <1>5, <2>1, <2>2 DEF OneMore
<1>8. Pullable(start, a, B)
  BY <1>1, <1>7 DEF Pullable
<1>9. more \subseteq {s \in Nat \X Nat : s[1] < s[2] /\ s[2] < Half}
  <2>1. <<lo, hi>> \in Nat \X Nat /\ <<lo, hi>>[1] = lo /\ <<lo, hi>>[2] = hi
    OBVIOUS
  <2> QED BY <2>1 DEF HasPieces, more
<1>10. ASSUME PiecesApart(more)
       PROVE  HoldsPieces(start, more, a) /\ NoPieceLost(start, more, DOMAIN a.pending, a.next_seq)
  <2>1. /\ \A u \in pieces : u[2] <= cur \/ (start + u[1]) % SeqModulus \in DOMAIN h.pending
        /\ pieces # {} => \E u \in pieces : cur \in {u[1], u[2]}
        /\ \A seq \in DOMAIN h.pending :
              <<Off(start, seq), Off(start, seq) + Len(h.pending[seq])>> \in pieces
    <3>1. PiecesApart(pieces)
      BY <1>10 DEF PiecesApart, more
    <3> QED BY <3>1 DEF HasPieces, HoldsPieces, NoPieceLost, cur
  <2>2. \E u \in more : c \in {u[1], u[2]}
    <3>1. CASE c = lo
      <4>1. <<lo, hi>> \in more /\ <<lo, hi>>[1] = lo
        BY DEF more
      <4> QED BY <3>1, <4>1
    <3>2. CASE c # lo
      <4>1. c = cur
        BY <1>3, <3>2
      <4>2. pieces # {}
        BY <1>3, <3>2
      <4> QED BY <2>1, <4>1, <4>2 DEF more
    <3> QED BY <3>1, <3>2
  \* A piece that is kept is kept whole: the cursor is never inside it.
  <2>3. c < hi => first = lo
    <3> SUFFICES ASSUME c < hi, lo < c PROVE FALSE
      BY <1>1 DEF first
    <3>1. PICK u \in more : c = u[1] \/ c = u[2]
      BY <2>2
    <3>2. <<lo, hi>>[1] = lo /\ <<lo, hi>>[2] = hi /\ <<lo, hi>> \in more
      BY DEF more
    <3>3. u = <<lo, hi>> \/ u[2] <= lo \/ hi <= u[1]
      BY <1>10, <3>2 DEF PiecesApart
    <3>4. u[1] \in Nat /\ u[2] \in Nat /\ u[1] < u[2]
      BY <1>9
    <3>5. u # <<lo, hi>>
      BY <1>1, <3>1, <3>2
    <3> QED BY <1>1, <3>1, <3>3, <3>4, <3>5
  <2>4. ASSUME NEW u \in more
        PROVE  u[2] <= c \/ (start + u[1]) % SeqModulus \in DOMAIN a.pending
    <3>1. CASE u = <<lo, hi>>
      <4>1. u[1] = lo /\ u[2] = hi
        BY <3>1
      <4> QED BY <1>1, <1>6, <2>3, <4>1
    <3>2. CASE u \in pieces
      <4>1. u[1] \in Nat /\ u[2] \in Nat /\ u[1] < u[2]
        BY <1>9
      <4>2. h.initialized
        BY <3>2
      <4>3. CASE (start + u[1]) % SeqModulus \in DOMAIN h.pending
        BY <1>5, <4>3 DEF OneMore
      <4>4. CASE u[2] <= cur
        <5>1. CASE c = cur
          BY <4>4, <5>1
        <5>2. CASE c # cur
          <6>1. cur <= u[1]
            BY <1>3, <3>2, <4>2, <5>2 DEF cur
          <6> QED BY <1>2, <4>1, <4>4, <6>1
        <5> QED BY <5>1, <5>2
      <4> QED BY <2>1, <3>2, <4>3, <4>4
    <3> QED BY <3>1, <3>2 DEF more
  <2>5. ASSUME NEW seq \in DOMAIN a.pending
        PROVE  <<Off(start, seq), Off(start, seq) + Len(a.pending[seq])>> \in more
    <3>1. CASE seq \in DOMAIN h.pending /\ a.pending[seq] = h.pending[seq]
      BY <2>1, <3>1 DEF more
    <3>2. CASE first < hi /\ Off(start, seq) = first /\ Len(a.pending[seq]) = hi - first
      <4>1. first = lo /\ lo + (hi - lo) = hi
        BY <1>4, <2>3, <3>2
      <4> QED BY <3>2, <4>1 DEF more
    <3> QED BY <1>5, <3>1, <3>2 DEF OneMore
  <2>6. HoldsPieces(start, more, a)
    BY <1>9, <1>10, <2>5 DEF HoldsPieces
  <2>7. NoPieceLost(start, more, DOMAIN a.pending, a.next_seq)
    BY <1>1, <2>2, <2>4 DEF NoPieceLost
  <2> QED BY <2>6, <2>7
<1>11. HasPieces(start, more, a)
  BY <1>9, <1>10 DEF HasPieces
<1>12. Took(start, pieces, h, lo, hi, a, B)
  BY <1>1, <1>7, <1>8, <1>11 DEF more, c, Took
<1> QED BY <1>12 DEF a

\* No wrap of the sequence numbers lies between two of the pieces.
InOrder(start, pieces) ==
    \A s, u \in pieces :
        s[1] < u[1] => (start + s[1]) % SeqModulus < (start + u[1]) % SeqModulus

\* h has been given pieces and has returned bytes, the stream from from on.
Reassembling(start, from, pieces, h, bytes) ==
    /\ Pullable(start, h, Nat)
    /\ HasPieces(start, pieces, h)
    /\ h.initialized
    /\ bytes \in Seq(Nat)
    /\ \A i \in 1..Len(bytes) : bytes[i] = from + i - 1
    /\ Off(start, h.next_seq) = from + Len(bytes)

\* h could return no more, if pieces are all it was ever given.
Drained(start, pieces, h) ==
    PiecesApart(pieces) /\ InOrder(start, pieces) => h.next_seq \notin DOMAIN h.pending

\* Entries that are pieces in order have keys in the order of the stream.
LEMMA KeysInOrder ==
    ASSUME NEW start \in SeqNumbers, NEW h, IsReassembler(h), NEW pieces,
           HoldsPieces(start, pieces, h), InOrder(start, pieces)
    PROVE  InStreamOrder(start, DOMAIN h.pending)
<1> SUFFICES ASSUME NEW a \in DOMAIN h.pending, NEW b \in DOMAIN h.pending, a < b
             PROVE  Off(start, a) < Off(start, b)
  BY DEF InStreamOrder
<1>1. a \in SeqNumbers /\ b \in SeqNumbers
  BY DEF IsReassembler
<1>2. /\ Off(start, a) \in Nat /\ Off(start, b) \in Nat
      /\ a = (start + Off(start, a)) % SeqModulus
      /\ b = (start + Off(start, b)) % SeqModulus
  BY <1>1, OffNames, OffIsNat
<1>3. \E s, u \in pieces : s[1] = Off(start, a) /\ u[1] = Off(start, b)
  BY DEF HoldsPieces
<1>4. Off(start, b) < Off(start, a) => b < a
  BY <1>2, <1>3 DEF InOrder
<1>5. a \in Nat /\ b \in Nat
  BY <1>1 DEF SeqNumbers
<1> HIDE DEF Off
<1>6. Off(start, a) # Off(start, b)
  BY <1>2, <1>5
<1>7. ~(Off(start, b) < Off(start, a))
  BY <1>4, <1>5
<1> QED BY <1>2, <1>6, <1>7

\* What a pull returns continues what was returned before, and afterwards there is
\* no more, away from a wrap.
LEMMA PullMore ==
    ASSUME NEW start \in SeqNumbers, NEW from \in Nat, NEW pieces, NEW h, NEW bytes,
           Reassembling(start, from, pieces, h, bytes),
           NEW p, p = pullContiguous(h)
    PROVE  /\ Reassembling(start, from, pieces, p.reassembler, bytes \o p.bytes)
           /\ Drained(start, pieces, p.reassembler)
           /\ p.reassembler.consumed_any = (h.consumed_any \/ p.bytes # <<>>)
           /\ p.bytes \in Seq(Nat)
<1> DEFINE e == LoopEnd(h)
           k == p.reassembler
<1>1. /\ Pullable(start, h, Nat) /\ IsReassembler(h) /\ h.initialized
      /\ HasPieces(start, pieces, h)
      /\ bytes \in Seq(Nat)
      /\ \A i \in 1..Len(bytes) : bytes[i] = from + i - 1
      /\ Off(start, h.next_seq) = from + Len(bytes)
  BY DEF Reassembling, Pullable
<1>2. /\ LoopInv(start, h, Nat, DOMAIN h.pending, e)
      /\ HoldsPieces(start, pieces, h)
           => NoPieceLost(start, pieces, DOMAIN e.pending, e.next_seq)
  <2>1. HoldsPieces(start, pieces, h)
          => NoPieceLost(start, pieces, DOMAIN h.pending, h.next_seq)
    BY <1>1 DEF HasPieces, HoldsPieces
  <2> QED BY <1>1, <2>1, LoopEndSound
<1>3. p = Pulled(h, e)
  BY PullIsLoop
<1> HIDE DEF e
<1>4. /\ HasLoopFields(e) /\ e.gap \in BOOLEAN /\ e.next_seq \in SeqNumbers
      /\ DOMAIN e.pending \subseteq SeqNumbers
  BY <1>1, <1>2 DEF LoopInv, TakenSound, LeftSound, IsReassembler
<1>5. /\ IsReassembler(k)
      /\ k.initialized
      /\ k.consumed_any = (h.consumed_any \/ e.bytes # <<>>)
      /\ k.next_seq = e.next_seq
      /\ k.pending = e.pending
      /\ p.bytes = e.bytes
  BY <1>1, <1>3, <1>4, PullEffect
<1> HIDE DEF k
<1>6. /\ e.bytes \in Seq(Nat)
      /\ Off(start, e.next_seq) = Off(start, h.next_seq) + Len(e.bytes)
      /\ Off(start, e.next_seq) < Half
      /\ \A i \in 1..Len(e.bytes) : e.bytes[i] = Off(start, h.next_seq) + i - 1
      /\ DOMAIN e.pending \subseteq DOMAIN h.pending
      /\ \A seq \in DOMAIN e.pending : e.pending[seq] = h.pending[seq]
      /\ \A seq \in DOMAIN e.pending :
            /\ Off(start, e.next_seq) <= Off(start, seq)
            /\ InStreamOrder(start, DOMAIN h.pending)
                  => Off(start, e.next_seq) < Off(start, seq)
  BY <1>2, <1>4 DEF LoopInv, TakenSound, LeftSound
<1>7. Pullable(start, k, Nat)
  BY <1>1, <1>5, <1>6 DEF Pullable
<1>8. HasPieces(start, pieces, k)
  <2>1. PiecesApart(pieces) => HoldsPieces(start, pieces, h)
    BY <1>1 DEF HasPieces
  <2>2. HoldsPieces(start, pieces, h) => HoldsPieces(start, pieces, k)
    BY <1>5, <1>6 DEF HoldsPieces
  <2> QED BY <1>1, <1>2, <1>5, <2>1, <2>2 DEF HasPieces
<1>9. Drained(start, pieces, k)
  <2> SUFFICES ASSUME PiecesApart(pieces), InOrder(start, pieces),
                      k.next_seq \in DOMAIN k.pending
               PROVE  FALSE
    BY DEF Drained
  <2>1. InStreamOrder(start, DOMAIN h.pending)
    BY <1>1, KeysInOrder DEF HasPieces
  <2>2. Off(start, e.next_seq) < Off(start, e.next_seq)
    BY <1>5, <1>6, <2>1
  <2>3. Off(start, e.next_seq) \in Nat
    BY <1>4, OffIsNat
  <2> QED BY <2>2, <2>3
<1>10. /\ bytes \o e.bytes \in Seq(Nat)
       /\ Len(bytes \o e.bytes) = Len(bytes) + Len(e.bytes)
       /\ \A i \in 1..Len(bytes \o e.bytes) : (bytes \o e.bytes)[i] = from + i - 1
  <2> DEFINE all == bytes \o e.bytes
  <2>1. /\ all \in Seq(Nat) /\ Len(all) = Len(bytes) + Len(e.bytes)
        /\ \A i \in 1..Len(all) :
              all[i] = IF i <= Len(bytes) THEN bytes[i] ELSE e.bytes[i - Len(bytes)]
    BY <1>1, <1>6
  <2> HIDE DEF all
  <2>2. ASSUME NEW i \in 1..Len(all) PROVE all[i] = from + i - 1
    <3>1. Len(bytes) \in Nat /\ Len(e.bytes) \in Nat
      BY <1>1, <1>6
    <3>2. CASE i <= Len(bytes)
      BY <1>1, <2>1, <3>1, <3>2
    <3>3. CASE ~(i <= Len(bytes))
      <4>1. i - Len(bytes) \in 1..Len(e.bytes)
        BY <2>1, <3>1, <3>3
      <4>2. all[i] = (from + Len(bytes)) + (i - Len(bytes)) - 1
        BY <1>1, <1>6, <2>1, <3>3, <4>1
      <4> QED BY <3>1, <4>2
    <3> QED BY <3>2, <3>3
  <2> QED BY <2>1, <2>2 DEF all
<1>11. Off(start, k.next_seq) = from + Len(bytes \o e.bytes)
  <2> DEFINE all == bytes \o e.bytes
  <2>1. Len(bytes) \in Nat /\ Len(e.bytes) \in Nat
    BY <1>1, <1>6
  <2>2. Len(all) = Len(bytes) + Len(e.bytes)
    BY <1>10
  <2> HIDE DEF all
  <2>3. Off(start, k.next_seq) = (from + Len(bytes)) + Len(e.bytes)
    BY ONLY <1>1, <1>5, <1>6
  <2>4. (from + Len(bytes)) + Len(e.bytes) = from + (Len(bytes) + Len(e.bytes))
    <3>1. \A x, y, z \in Nat : (x + y) + z = x + (y + z)
      OBVIOUS
    <3> QED BY ONLY <2>1, <3>1, from \in Nat
  <2> QED BY <2>2, <2>3, <2>4 DEF all
<1>12. Reassembling(start, from, pieces, k, bytes \o p.bytes)
  BY <1>5, <1>7, <1>8, <1>10, <1>11 DEF Reassembling
<1> QED BY <1>5, <1>6, <1>9, <1>12 DEF k

\* A segment and a pull, once something has been delivered.
LEMMA MoreFed ==
    ASSUME NEW start \in SeqNumbers, NEW from \in Nat, NEW pieces, pieces # {},
           NEW h, NEW bytes, Reassembling(start, from, pieces, h, bytes), h.consumed_any,
           NEW lo \in Nat, NEW hi \in Nat, lo < hi, hi < Half,
           NEW p, p = pullContiguous(addSegment(h, (start + lo) % SeqModulus, Bytes(lo, hi)))
    PROVE  /\ Reassembling(start, from, pieces \cup {<<lo, hi>>}, p.reassembler, bytes \o p.bytes)
           /\ Drained(start, pieces \cup {<<lo, hi>>}, p.reassembler)
           /\ p.reassembler.consumed_any
           /\ p.bytes \in Seq(Nat)
<1> DEFINE a == addSegment(h, (start + lo) % SeqModulus, Bytes(lo, hi))
           c == CursorOffset(start, h, lo)
<1>1. /\ IsReassembler(h) /\ HasPieces(start, pieces, h) /\ h.initialized
      /\ Pullable(start, h, Nat)
  BY DEF Reassembling, Pullable
<1>2. c = Off(start, h.next_seq)
  BY <1>1 DEF CursorOffset
<1>3. lo..(hi - 1) \subseteq Nat
  OBVIOUS
<1>4. /\ Pullable(start, a, Nat)
      /\ HasPieces(start, pieces \cup {<<lo, hi>>}, a)
      /\ a.initialized /\ a.consumed_any = h.consumed_any
      /\ Off(start, a.next_seq) = c
  <2>1. Ready(start, pieces, h, Nat)
    BY <1>1 DEF Ready
  <2>2. Took(start, pieces, h, lo, hi, a, Nat)
    BY <1>3, <2>1, AddPiece
  <2> HIDE DEF a
  <2> QED BY <2>2 DEF Took
<1>5. Reassembling(start, from, pieces \cup {<<lo, hi>>}, a, bytes)
  <2> HIDE DEF a, c
  <2> QED BY <1>2, <1>4 DEF Reassembling
<1> HIDE DEF a
<1>6. p = pullContiguous(a)
  BY DEF a
<1>7. /\ Reassembling(start, from, pieces \cup {<<lo, hi>>}, p.reassembler, bytes \o p.bytes)
      /\ Drained(start, pieces \cup {<<lo, hi>>}, p.reassembler)
      /\ p.reassembler.consumed_any = (a.consumed_any \/ p.bytes # <<>>)
      /\ p.bytes \in Seq(Nat)
  BY <1>5, <1>6, PullMore
<1>8. p.reassembler.consumed_any
  BY <1>4, <1>7, Zenon
<1> QED BY <1>7, <1>8

\* The first segment: it is delivered at once.
LEMMA FirstFed ==
    ASSUME NEW start \in SeqNumbers,
           NEW lo \in Nat, NEW hi \in Nat, lo < hi, hi < Half,
           NEW p, p = pullContiguous(addSegment(NewReassembler, (start + lo) % SeqModulus,
                                                Bytes(lo, hi)))
    PROVE  /\ Reassembling(start, lo, {<<lo, hi>>}, p.reassembler, p.bytes)
           /\ Drained(start, {<<lo, hi>>}, p.reassembler)
           /\ p.reassembler.consumed_any
           /\ p.bytes # <<>>
<1> DEFINE h == NewReassembler
           a == addSegment(h, (start + lo) % SeqModulus, Bytes(lo, hi))
           c == CursorOffset(start, h, lo)
           only == {<<lo, hi>>}
<1>1. /\ IsReassembler(h) /\ ~h.initialized /\ ~h.consumed_any /\ DOMAIN h.pending = {}
  <2>1. 0 \in SeqNumbers
    BY HalfFacts DEF SeqNumbers
  <2> QED BY <2>1 DEF NewReassembler, IsReassembler, HasFields
<1> HIDE DEF h
<1>2. HasPieces(start, {}, h)
  BY <1>1 DEF HasPieces, HoldsPieces, NoPieceLost
<1>3. c = lo
  BY <1>1 DEF CursorOffset
<1>4. lo..(hi - 1) \subseteq Nat
  OBVIOUS
<1>5. /\ Pullable(start, a, Nat)
      /\ HasPieces(start, {} \cup only, a)
      /\ a.initialized /\ a.consumed_any = h.consumed_any
      /\ Off(start, a.next_seq) = c
  <2> DEFINE none == {}
  <2>1. Ready(start, none, h, Nat)
    BY <1>1, <1>2 DEF Ready
  <2> HIDE DEF none
  <2>2. Took(start, none, h, lo, hi, a, Nat)
    BY <1>4, <2>1, AddPiece
  <2>3. /\ Pullable(start, a, Nat)
        /\ HasPieces(start, none \cup {<<lo, hi>>}, a)
        /\ a.initialized /\ a.consumed_any = h.consumed_any
        /\ Off(start, a.next_seq) = c
    <3> HIDE DEF a
    <3> QED BY <2>2 DEF Took
  <2> QED BY <2>3 DEF none
<1>6. {} \cup only = only
  OBVIOUS
<1>7. Reassembling(start, lo, only, a, <<>>)
  <2>1. <<>> \in Seq(Nat) /\ Len(<<>>) = 0 /\ lo + 0 = lo
    OBVIOUS
  <2> HIDE DEF a, only, c
  <2>2. \A i \in 1..Len(<<>>) : <<>>[i] = lo + i - 1
    BY <2>1
  <2> QED BY <1>3, <1>5, <1>6, <2>1, <2>2 DEF Reassembling
<1>8. p = pullContiguous(a)
  BY DEF h
<1> HIDE DEF a, only
<1>9. /\ Reassembling(start, lo, only, p.reassembler, <<>> \o p.bytes)
      /\ Drained(start, only, p.reassembler)
      /\ p.reassembler.consumed_any = (a.consumed_any \/ p.bytes # <<>>)
  BY <1>7, <1>8, PullMore
<1>10. p.bytes \in Seq(Nat)
  BY <1>7, <1>8, PullMore
<1>11. <<>> \o p.bytes = p.bytes
  BY <1>10
<1>12. p.bytes # <<>>
  <2> SUFFICES ASSUME p.bytes = <<>> PROVE FALSE
    OBVIOUS
  <2> DEFINE k == p.reassembler
  <2>1. /\ HasPieces(start, only, k) /\ IsReassembler(k) /\ k.next_seq \in SeqNumbers
        /\ Off(start, k.next_seq) = lo
    BY <1>9, <1>11 DEF Reassembling, Pullable, IsReassembler
  <2>2. PiecesApart(only) /\ InOrder(start, only)
    BY DEF PiecesApart, InOrder, only
  <2>3. \A s \in only : s[2] <= lo \/ (start + s[1]) % SeqModulus \in DOMAIN k.pending
    BY <2>1, <2>2 DEF HasPieces, NoPieceLost
  <2>4. (start + lo) % SeqModulus \in DOMAIN k.pending
    <3>1. <<lo, hi>> \in only /\ <<lo, hi>>[1] = lo /\ <<lo, hi>>[2] = hi
      BY DEF only
    <3>2. ~(hi <= lo)
      OBVIOUS
    <3> QED BY <2>3, <3>1, <3>2
  <2>5. k.next_seq = (start + lo) % SeqModulus
    BY <2>1, OffNames
  <2> QED BY <1>9, <2>2, <2>4, <2>5 DEF Drained
<1>13. p.reassembler.consumed_any
  BY <1>9, <1>12
<1> QED BY <1>9, <1>11, <1>12, <1>13 DEF only

\* A pull from a reassembler that was given nothing returns nothing.
LEMMA NothingFed ==
    pullContiguous(NewReassembler) = [reassembler |-> NewReassembler, bytes |-> <<>>]
<1> DEFINE h == NewReassembler
           e == Before(h)
           p == pullContiguous(h)
           k == p.reassembler
<1>1. /\ IsReassembler(h) /\ h.consumed_any = FALSE /\ DOMAIN h.pending = {}
  <2>1. 0 \in SeqNumbers
    BY HalfFacts DEF SeqNumbers
  <2> QED BY <2>1 DEF NewReassembler, IsReassembler, HasFields
<1> HIDE DEF h
<1>2. LoopEnd(h) = e
  BY <1>1, Walk!LoopEmpty DEF LoopEnd
<1>3. p = Pulled(h, e)
  BY <1>2, PullIsLoop
<1>4. /\ HasLoopFields(e) /\ e.next_seq = h.next_seq /\ e.pending = h.pending
      /\ e.bytes = <<>>
  BY DEF Before, HasLoopFields
<1> HIDE DEF e, p
<1>5. /\ HasFields(k)
      /\ k.initialized = h.initialized
      /\ k.consumed_any = (h.consumed_any \/ e.bytes # <<>>)
      /\ k.next_seq = h.next_seq
      /\ k.pending = h.pending
      /\ p.bytes = <<>>
  <2>1. e.next_seq \in SeqNumbers /\ DOMAIN e.pending \subseteq SeqNumbers
    BY <1>1, <1>4 DEF IsReassembler
  <2> QED BY <1>1, <1>3, <1>4, <2>1, PullEffect DEF IsReassembler
<1>6. k = h
  <2>1. k.consumed_any = h.consumed_any
    BY <1>1, <1>4, <1>5, Zenon
  <2>2. HasFields(h)
    BY <1>1 DEF IsReassembler
  <2> HIDE DEF k
  <2> QED BY <1>5, <2>1, <2>2 DEF HasFields
<1>7. p = [reassembler |-> k, bytes |-> p.bytes]
  BY <1>3 DEF Pulled
<1> QED BY <1>5, <1>6, <1>7 DEF p, h
=============================================================================
