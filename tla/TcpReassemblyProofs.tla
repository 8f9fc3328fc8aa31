------------------------ MODULE TcpReassemblyProofs ------------------------
(***************************************************************************)
(* Proofs about TcpReassembly, for every modulus, every initial sequence   *)
(* number and every way of cutting a stream into segments.                 *)
(***************************************************************************)
EXTENDS TcpReassembly, TcpStreamReassemblerProofs

-----------------------------------------------------------------------------
(***************************************************************************)
(* The inductive invariant.                                                *)
(***************************************************************************)
\* What the type invariant says of the reassembler and the stream.
LEMMA StateTypes ==
    ASSUME TypeOK
    PROVE  /\ isn \in SeqNumbers
           /\ IsReassembler(r)
           /\ \A seq \in DOMAIN r.pending : r.pending[seq] \in Seq(Offsets)
           /\ delivered \in Seq(Offsets)
           /\ offered \subseteq {s \in Nat \X Nat : s[1] < s[2] /\ s[2] < Half}
<1>1. offered \subseteq {s \in Nat \X Nat : s[1] < s[2] /\ s[2] < Half}
  BY StreamAssumption DEF TypeOK
<1>2. IsReassembler(r)
  BY DEF TypeOK, IsReassembler, HasFields
<1> QED BY <1>1, <1>2, StreamAssumption DEF TypeOK

\* A piece that may be captured is a piece of the stream.
LEMMA SegmentTypes ==
    ASSUME NEW s \in Segments
    PROVE  /\ s[1] \in Nat /\ s[2] \in Nat /\ s[1] <= s[2] /\ s[2] < Half
           /\ s = <<s[1], s[2]>>
           /\ s[1]..(s[2] - 1) \subseteq Offsets
BY StreamAssumption DEF Offsets

\* The invariant holds at the start.
LEMMA InitInv == Init => IndInv
<1> SUFFICES ASSUME Init PROVE IndInv
  OBVIOUS
<1>1. /\ r.initialized = FALSE /\ r.consumed_any = FALSE /\ r.next_seq = 0
      /\ r.pending = <<>> /\ DOMAIN r.pending = {}
      /\ DOMAIN r = {"initialized", "consumed_any", "next_seq", "pending"}
      /\ r = [field \in DOMAIN r |-> r[field]]
  BY DEF Init, NewReassembler
<1>2. TypeOK
  <2>1. 0 \in SeqNumbers /\ 0 \in 0..MaxSegments
    BY HalfFacts, StreamAssumption DEF SeqNumbers
  <2>2. /\ isn \in Isns /\ offered = {} /\ delivered = <<>> /\ captured = 0
        /\ pulled = FALSE /\ delivered \in Seq(Offsets)
    BY DEF Init
  <2> QED BY <1>1, <2>1, <2>2 DEF TypeOK
<1>3. FreshUntilFed /\ EntriesArePieces
  BY <1>1 DEF Init, FreshUntilFed, EntriesArePieces
<1>4. CursorFollows /\ PiecesKept
  BY <1>1 DEF Init, CursorFollows, PiecesKept
<1>5. DeliveredContiguous /\ PullTakesAllUnwrapped
  BY DEF Init, DeliveredContiguous, PullTakesAllUnwrapped, PullTakesAll
<1> QED BY <1>2, <1>3, <1>4, <1>5 DEF IndInv

\* What the invariant says of the reassembler in the terms of its lemmas.
LEMMA HoldsTheStream ==
    ASSUME IndInv
    PROVE  /\ CutAlike <=> PiecesApart(offered)
           /\ Ready(isn, offered, r, Offsets)
           /\ ~r.initialized => delivered = <<>>
           /\ r.consumed_any <=> delivered # <<>>
           /\ delivered = <<>> => \A s \in offered : Off(isn, r.next_seq) <= s[1]
           /\ delivered # <<>> => delivered[Len(delivered)] + 1 = Off(isn, r.next_seq)
<1>1. isn \in SeqNumbers /\ IsReassembler(r)
      /\ offered \subseteq {s \in Nat \X Nat : s[1] < s[2] /\ s[2] < Half}
      /\ \A seq \in DOMAIN r.pending : r.pending[seq] \in Seq(Offsets)
  BY StateTypes DEF IndInv
<1>2. r.initialized => Pullable(isn, r, Offsets) /\ offered # {}
  <2>1. r.initialized => offered # {} /\ Off(isn, r.next_seq) < Half
    BY DEF IndInv, FreshUntilFed
  <2>2. ASSUME NEW seq \in DOMAIN r.pending
        PROVE  IsPiece(isn, seq, r.pending[seq]) /\ Off(isn, r.next_seq) <= Off(isn, seq)
    <3>1. IsPiece(isn, seq, r.pending[seq]) /\ Off(isn, seq) >= Off(isn, r.next_seq)
      BY DEF IndInv, EntriesArePieces
    <3>2. Off(isn, seq) \in Nat /\ Off(isn, r.next_seq) \in Nat
      BY <1>1, OffIsNat DEF IsReassembler
    <3> QED BY <3>1, <3>2
  <2> QED BY <1>1, <2>1, <2>2 DEF Pullable
<1>3. CutAlike <=> PiecesApart(offered)
  BY DEF CutAlike, PiecesApart
<1>4. CutAlike => HoldsPieces(isn, offered, r)
  BY <1>1, <1>3 DEF IndInv, PiecesKept, HoldsPieces
<1>5. CutAlike => NoPieceLost(isn, offered, DOMAIN r.pending, r.next_seq)
  BY DEF IndInv, PiecesKept, NoPieceLost, SeqAt
<1>6. HasPieces(isn, offered, r)
  BY <1>1, <1>3, <1>4, <1>5 DEF HasPieces
<1>7. ~r.initialized => DOMAIN r.pending = {} /\ offered = {} /\ delivered = <<>>
  BY DEF IndInv, FreshUntilFed
<1>8. Ready(isn, offered, r, Offsets)
  BY <1>1, <1>2, <1>6, <1>7 DEF IndInv, CursorFollows, Ready
<1> QED BY <1>3, <1>7, <1>8 DEF IndInv, CursorFollows

\* A captured segment keeps the invariant.
LEMMA SegmentInv ==
    ASSUME IndInv, NEW s \in Segments, Segment(s[1], s[2])
    PROVE  IndInv'
<1> DEFINE lo == s[1]
           hi == s[2]
           cur == Off(isn, r.next_seq)
           c == CursorOffset(isn, r, lo)
<1>1. /\ isn \in SeqNumbers /\ IsReassembler(r) /\ TypeOK
      /\ offered \subseteq {u \in Nat \X Nat : u[1] < u[2] /\ u[2] < Half}
      /\ r.next_seq \in SeqNumbers /\ cur \in Nat
  <2>1. isn \in SeqNumbers /\ IsReassembler(r) /\ TypeOK
        /\ offered \subseteq {u \in Nat \X Nat : u[1] < u[2] /\ u[2] < Half}
    BY StateTypes DEF IndInv
  <2>2. r.next_seq \in SeqNumbers
    BY <2>1 DEF IsReassembler
  <2> QED BY <2>1, <2>2, OffIsNat
<1>2. /\ lo \in Nat /\ hi \in Nat /\ lo <= hi /\ hi < Half
      /\ s = <<lo, hi>> /\ lo..(hi - 1) \subseteq Offsets
  BY SegmentTypes
<1>3. /\ isn' = isn /\ delivered' = delivered /\ pulled' = FALSE
      /\ captured' \in 0..MaxSegments
      /\ r' = addSegment(r, (isn + lo) % SeqModulus, Bytes(lo, hi))
      /\ offered' = offered \cup {u \in {<<lo, hi>>} : lo < hi}
  BY <1>1, StreamAssumption DEF Segment, SeqAt, TypeOK
<1>4. PullTakesAllUnwrapped' /\ DeliveredContiguous'
  BY <1>3 DEF PullTakesAllUnwrapped, PullTakesAll, DeliveredContiguous, IndInv
<1>5. CASE lo = hi
  <2>1. r' = r
    <3>1. Bytes(lo, hi) = <<>>
      BY <1>2, <1>5 DEF Bytes
    <3> QED BY <1>3, <3>1 DEF addSegment
  <2>2. offered' = offered
    BY <1>2, <1>3, <1>5
  <2>3. TypeOK'
    BY <1>1, <1>3, <2>1, <2>2 DEF TypeOK
  <2>4. FreshUntilFed' /\ EntriesArePieces' /\ CursorFollows'
    BY <1>3, <2>1, <2>2
       DEF IndInv, FreshUntilFed, EntriesArePieces, CursorFollows, OfferedOffsets
  <2>5. PiecesKept'
    BY <1>3, <2>1, <2>2 DEF IndInv, PiecesKept, CutAlike, SeqAt
  <2> QED BY <1>4, <2>3, <2>4, <2>5 DEF IndInv
<1>6. CASE lo < hi
  <2>1. /\ Pullable(isn, r', Offsets)
        /\ HasPieces(isn, offered \cup {<<lo, hi>>}, r')
        /\ r'.initialized /\ r'.consumed_any = r.consumed_any
        /\ Off(isn, r'.next_seq) = c /\ c \in Nat
        /\ \A seq \in DOMAIN r'.pending :
              seq \in DOMAIN r.pending \/ Off(isn, seq) \in lo..(hi - 1)
    <3>1. Took(isn, offered, r, lo, hi, r', Offsets)
      <4>1. Ready(isn, offered, r, Offsets)
        BY HoldsTheStream
      <4>2. Took(isn, offered, r, lo, hi, addSegment(r, (isn + lo) % SeqModulus, Bytes(lo, hi)), Offsets)
        <5> HIDE DEF lo, hi, c, cur
        <5> QED BY <1>1, <1>2, <1>6, <4>1, AddPiece
      <4> QED BY <1>3, <4>2
    <3> QED BY <3>1 DEF Took
  <2>2. offered' = offered \cup {<<lo, hi>>} /\ <<lo, hi>> \in offered'
    BY <1>3, <1>6
  \* Where the cursor went.
  <2>3. /\ delivered = <<>> => c <= lo
        /\ delivered # <<>> => c = cur
        /\ r.initialized => c <= cur
        /\ ~r.initialized => offered = {}
    <3>1. /\ ~r.initialized => offered = {} /\ delivered = <<>>
          /\ r.consumed_any <=> delivered # <<>>
      BY HoldsTheStream DEF Ready
    <3>2. c = IF ~r.initialized \/ (~r.consumed_any /\ lo < cur) THEN lo ELSE cur
      BY DEF CursorOffset
    <3> HIDE DEF c, cur, lo
    <3> QED BY <1>1, <1>2, <3>1, <3>2
  <2> HIDE DEF c, cur, lo, hi
  <2>4. OfferedOffsets \subseteq OfferedOffsets' /\ lo..(hi - 1) \subseteq OfferedOffsets'
    <3>1. \A x \in lo..(hi - 1) : x \in UNION {u[1]..(u[2] - 1) : u \in offered'}
      <4>1. <<lo, hi>>[1] = lo /\ <<lo, hi>>[2] = hi
        OBVIOUS
      <4> QED BY <2>2, <4>1
    <3> QED BY <2>2, <3>1 DEF OfferedOffsets
  <2>5. TypeOK'
    <3>1. offered' \subseteq {u \in Segments : u[1] < u[2]}
      <4>1. <<lo, hi>> \in Segments /\ <<lo, hi>>[1] < <<lo, hi>>[2]
        BY <1>2, <1>6 DEF lo, hi
      <4> QED BY <1>1, <2>2, <4>1 DEF TypeOK
    <3>2. /\ DOMAIN r' = {"initialized", "consumed_any", "next_seq", "pending"}
          /\ r' = [field \in DOMAIN r' |-> r'[field]]
          /\ r'.initialized \in BOOLEAN /\ r'.consumed_any \in BOOLEAN
          /\ r'.next_seq \in SeqNumbers
          /\ DOMAIN r'.pending \subseteq SeqNumbers
          /\ \A seq \in DOMAIN r'.pending : r'.pending[seq] \in Seq(Offsets)
      BY <2>1 DEF Pullable, IsReassembler, HasFields
    <3>3. isn' \in Isns /\ delivered' \in Seq(Offsets) /\ pulled' \in BOOLEAN
      BY <1>1, <1>3 DEF TypeOK
    <3> QED BY <1>3, <3>1, <3>2, <3>3 DEF TypeOK
  <2>6. FreshUntilFed'
    BY <1>3, <2>1, <2>2 DEF FreshUntilFed, Pullable
  <2>7. EntriesArePieces'
    <3>1. ASSUME NEW seq \in DOMAIN r'.pending
          PROVE  /\ IsPiece(isn, seq, r'.pending[seq])
                 /\ Off(isn, seq) >= Off(isn, r'.next_seq)
                 /\ Off(isn, seq) \in OfferedOffsets'
      <4>1. IsPiece(isn, seq, r'.pending[seq]) /\ Off(isn, r'.next_seq) <= Off(isn, seq)
        BY <2>1 DEF Pullable
      <4>2. Off(isn, seq) \in Nat /\ Off(isn, r'.next_seq) \in Nat
        BY <1>1, <2>1, OffIsNat DEF Pullable, IsReassembler
      <4>3. seq \in DOMAIN r.pending => Off(isn, seq) \in OfferedOffsets
        BY DEF IndInv, EntriesArePieces
      <4> QED BY <2>1, <2>4, <4>1, <4>2, <4>3
    <3> QED BY <1>3, <3>1 DEF EntriesArePieces
  <2>8. CursorFollows'
    <3>1. /\ r.consumed_any <=> delivered # <<>>
          /\ delivered = <<>> => \A u \in offered : cur <= u[1]
          /\ delivered # <<>> => delivered[Len(delivered)] + 1 = cur
      BY HoldsTheStream DEF Ready, cur
    <3>2. ASSUME delivered = <<>>, NEW u \in offered' PROVE c <= u[1]
      <4>1. CASE u = <<lo, hi>>
        BY <2>3, <3>2, <4>1
      <4>2. CASE u \in offered
        <5>1. cur <= u[1] /\ c <= cur /\ u[1] \in Nat
          BY <1>1, <2>3, <3>1, <3>2, <4>2
        <5> QED BY <1>1, <2>1, <5>1
      <4> QED BY <2>2, <4>1, <4>2
    <3>3. delivered # <<>> => delivered[Len(delivered)] + 1 = c
      BY <2>3, <3>1
    <3> QED BY <1>3, <2>1, <3>1, <3>2, <3>3 DEF CursorFollows
  <2>9. PiecesKept'
    <3>1. HasPieces(isn, offered', r') /\ offered' # {}
      BY <2>1, <2>2
    <3>2. CutAlike' => PiecesApart(offered')
      BY DEF CutAlike, PiecesApart
    <3> QED BY <1>3, <3>1, <3>2 DEF PiecesKept, HasPieces, HoldsPieces, NoPieceLost, SeqAt
  <2> QED BY <1>4, <2>5, <2>6, <2>7, <2>8, <2>9 DEF IndInv
<1> QED BY <1>2, <1>5, <1>6

\* Captured bytes on one side of the wrap: the keys are in stream order.
LEMMA OneSideInOrder ==
    ASSUME IndInv, OneSideOfWrap
    PROVE  InStreamOrder(isn, DOMAIN r.pending)
<1> SUFFICES ASSUME NEW a \in DOMAIN r.pending, NEW b \in DOMAIN r.pending, a < b
             PROVE  Off(isn, a) < Off(isn, b)
  BY DEF InStreamOrder
<1>1. isn \in SeqNumbers /\ a \in SeqNumbers /\ b \in SeqNumbers
  BY StateTypes DEF IndInv, IsReassembler
<1>2. Off(isn, a) \in OfferedOffsets /\ Off(isn, b) \in OfferedOffsets
  BY DEF IndInv, EntriesArePieces
<1>3. /\ Off(isn, a) = IF isn <= a THEN a - isn ELSE a - isn + SeqModulus
      /\ Off(isn, b) = IF isn <= b THEN b - isn ELSE b - isn + SeqModulus
  BY <1>1, OffNames
<1>4. \A x \in {isn, a, b} : x \in Int /\ 0 <= x /\ x < SeqModulus
  BY <1>1, HalfFacts DEF SeqNumbers
<1>5. \/ isn + Off(isn, a) < SeqModulus /\ isn + Off(isn, b) < SeqModulus
      \/ isn + Off(isn, a) >= SeqModulus /\ isn + Off(isn, b) >= SeqModulus
  BY <1>2 DEF OneSideOfWrap
<1> QED BY <1>3, <1>4, <1>5, HalfFacts

\* What the loop of a pull does to a reassembler that has seen data.
LEMMA LoopOfPull ==
    ASSUME IndInv, r.initialized
    PROVE  /\ LoopInv(isn, r, Offsets, DOMAIN r.pending, LoopEnd(r))
           /\ CutAlike => NoPieceLost(isn, offered, DOMAIN LoopEnd(r).pending, LoopEnd(r).next_seq)
<1>1. isn \in SeqNumbers
  BY StateTypes DEF IndInv
<1>2. /\ Pullable(isn, r, Offsets)
      /\ CutAlike => HoldsPieces(isn, offered, r)
      /\ HoldsPieces(isn, offered, r)
            => NoPieceLost(isn, offered, DOMAIN r.pending, r.next_seq)
  BY HoldsTheStream DEF Ready, HasPieces, HoldsPieces
<1> QED BY <1>1, <1>2, LoopEndSound

\* A call of pullContiguous() keeps the invariant.
LEMMA PullInv ==
    ASSUME IndInv, Pull
    PROVE  IndInv'
<1> DEFINE end == LoopEnd(r)
           cur == Off(isn, r.next_seq)
<1>1. /\ isn' = isn /\ offered' = offered /\ captured' = captured /\ pulled' = TRUE
      /\ r' = Pulled(r, end).reassembler
      /\ delivered' = delivered \o Pulled(r, end).bytes
  BY PullIsLoop DEF Pull
<1>2. /\ TypeOK /\ isn \in SeqNumbers /\ IsReassembler(r)
      /\ delivered \in Seq(Offsets) /\ cur \in Nat
  BY StateTypes, OffIsNat DEF IndInv, IsReassembler
<1>3. CASE ~r.initialized
  <2>1. DOMAIN r.pending = {} /\ offered = {} /\ delivered = <<>>
    BY <1>3 DEF IndInv, FreshUntilFed
  <2>2. end = Before(r)
    BY <2>1, Walk!LoopEmpty DEF LoopEnd
  <2>3. /\ HasLoopFields(end) /\ end.next_seq = r.next_seq /\ end.pending = r.pending
        /\ end.bytes = <<>>
    BY <2>2 DEF Before, HasLoopFields
  <2> HIDE DEF end
  <2>4. /\ IsReassembler(r') /\ r'.initialized = r.initialized
        /\ r'.consumed_any = (r.consumed_any \/ end.bytes # <<>>)
        /\ r'.next_seq = r.next_seq /\ r'.pending = r.pending
        /\ delivered' = <<>>
    <3>1. end.next_seq \in SeqNumbers /\ DOMAIN end.pending \subseteq SeqNumbers
      BY <1>2, <2>3 DEF IsReassembler
    <3>2. Pulled(r, end).bytes = <<>>
      BY <2>3 DEF Pulled
    <3> QED BY <1>1, <1>2, <2>1, <2>3, <3>1, <3>2, PullEffect
  <2>5. r'.consumed_any = r.consumed_any
    BY <1>2, <2>3, <2>4 DEF IsReassembler
  <2>6. TypeOK'
    BY <1>1, <1>2, <2>1, <2>4, <2>5 DEF TypeOK, IsReassembler, HasFields
  <2>7. FreshUntilFed' /\ EntriesArePieces'
    BY <1>1, <1>3, <2>1, <2>4 DEF FreshUntilFed, EntriesArePieces
  <2>8. CursorFollows'
    BY <1>1, <2>1, <2>4, <2>5 DEF IndInv, CursorFollows
  <2>9. PiecesKept'
    BY <1>1, <2>1, <2>4 DEF PiecesKept
  <2>10. DeliveredContiguous' /\ PullTakesAllUnwrapped'
    BY <2>1, <2>4 DEF DeliveredContiguous, PullTakesAllUnwrapped, PullTakesAll
  <2> QED BY <2>6, <2>7, <2>8, <2>9, <2>10 DEF IndInv
<1>4. CASE r.initialized
  <2>1. /\ LoopInv(isn, r, Offsets, DOMAIN r.pending, end)
        /\ CutAlike => NoPieceLost(isn, offered, DOMAIN end.pending, end.next_seq)
    BY <1>4, LoopOfPull
  <2> HIDE DEF end
  <2> DEFINE new == end.bytes
             c == Off(isn, end.next_seq)
  <2>2. /\ new \in Seq(Offsets) /\ Len(new) \in Nat
        /\ c = cur + Len(new) /\ c < Half /\ c \in Nat
        /\ \A i \in 1..Len(new) : new[i] = cur + i - 1
        /\ end.next_seq \in SeqNumbers
    BY <1>2, <2>1 DEF LoopInv, TakenSound
  <2>3. /\ DOMAIN end.pending \subseteq DOMAIN r.pending
        /\ \A seq \in DOMAIN end.pending :
              /\ end.pending[seq] = r.pending[seq]
              /\ c <= Off(isn, seq)
              /\ InStreamOrder(isn, DOMAIN r.pending) => c < Off(isn, seq)
    <3>1. end.gap \/ DOMAIN end.pending = {}
      BY <2>1 DEF LoopInv, LeftSound
    <3> QED BY <2>1, <3>1 DEF LoopInv, LeftSound
  <2>4. /\ IsReassembler(r') /\ r'.initialized
        /\ r'.consumed_any = (r.consumed_any \/ new # <<>>)
        /\ r'.next_seq = end.next_seq /\ r'.pending = end.pending
        /\ delivered' = delivered \o new
    <3>1. DOMAIN end.pending \subseteq SeqNumbers /\ HasLoopFields(end)
      BY <1>2, <2>1, <2>3 DEF IsReassembler, LoopInv
    <3>2. Pulled(r, end).bytes = new
      BY DEF Pulled
    <3> QED BY <1>1, <1>2, <1>4, <2>2, <3>1, <3>2, PullEffect
  <2> HIDE DEF new, c, cur
  <2>5. /\ delivered' \in Seq(Offsets)
        /\ Len(delivered') = Len(delivered) + Len(new)
        /\ \A i \in 1..(Len(delivered) + Len(new)) :
              delivered'[i] = IF i <= Len(delivered) THEN delivered[i] ELSE new[i - Len(delivered)]
    BY <1>2, <2>2, <2>4, ConcatProperties
  <2>6. /\ r.consumed_any <=> delivered # <<>>
        /\ delivered = <<>> => \A s \in offered : cur <= s[1]
        /\ delivered # <<>> => delivered[Len(delivered)] + 1 = cur
    BY DEF IndInv, CursorFollows, cur
  <2>7. TypeOK'
    <3>1. \A seq \in DOMAIN r'.pending : r'.pending[seq] \in Seq(Offsets)
      BY <1>2, <2>3, <2>4 DEF TypeOK
    <3>2. /\ DOMAIN r' = {"initialized", "consumed_any", "next_seq", "pending"}
          /\ r' = [field \in DOMAIN r' |-> r'[field]]
          /\ r'.initialized \in BOOLEAN /\ r'.consumed_any \in BOOLEAN
          /\ r'.next_seq \in SeqNumbers
          /\ DOMAIN r'.pending \subseteq SeqNumbers
      BY <2>4 DEF IsReassembler, HasFields
    <3> QED BY <1>1, <1>2, <2>5, <3>1, <3>2 DEF TypeOK
  <2>8. FreshUntilFed'
    BY <1>1, <1>4, <2>2, <2>4 DEF IndInv, FreshUntilFed, c
  <2>9. EntriesArePieces'
    <3>1. OfferedOffsets' = OfferedOffsets
      BY <1>1 DEF OfferedOffsets
    <3>2. ASSUME NEW seq \in DOMAIN end.pending PROVE Off(isn, seq) >= c
      <4>1. Off(isn, seq) \in Nat
        BY <1>2, <2>3, OffIsNat DEF IsReassembler
      <4> QED BY <2>2, <2>3, <4>1
    <3>3. ASSUME NEW seq \in DOMAIN end.pending
          PROVE  IsPiece(isn, seq, end.pending[seq]) /\ Off(isn, seq) \in OfferedOffsets
      BY <2>3 DEF IndInv, EntriesArePieces
    <3>4. \A seq \in DOMAIN r'.pending :
             /\ IsPiece(isn, seq, r'.pending[seq])
             /\ Off(isn, seq) >= Off(isn, r'.next_seq)
             /\ Off(isn, seq) \in OfferedOffsets
      BY <2>4, <3>2, <3>3 DEF c
    <3> QED BY <1>1, <3>1, <3>4 DEF EntriesArePieces
  <2>10. CursorFollows'
    <3>1. CASE new = <<>>
      <4>1. delivered' = delivered /\ Len(new) = 0 /\ c = cur
        BY <1>2, <2>2, <2>4, <3>1
      <4>2. r'.consumed_any = r.consumed_any
        BY <1>2, <2>4, <3>1 DEF IsReassembler
      <4> QED BY <1>1, <2>4, <2>6, <4>1, <4>2 DEF CursorFollows, c
    <3>2. CASE new # <<>>
      <4>1. Len(new) >= 1 /\ Len(delivered) \in Nat
        BY <1>2, <2>2, <3>2
      <4>2. delivered' # <<>> /\ r'.consumed_any
        <5>1. r'.consumed_any
          BY <2>4, <3>2, Zenon
        <5>2. Len(delivered') > 0 /\ Len(<<>>) = 0
          BY <2>2, <2>5, <4>1
        <5> QED BY <5>1, <5>2
      <4>3. delivered'[Len(delivered')] = new[Len(new)]
        <5>1. /\ Len(delivered) + Len(new) \in 1..(Len(delivered) + Len(new))
              /\ ~(Len(delivered) + Len(new) <= Len(delivered))
              /\ (Len(delivered) + Len(new)) - Len(delivered) = Len(new)
          BY <2>2, <4>1
        <5> QED BY <2>5, <5>1
      <4>4. new[Len(new)] + 1 = c
        BY <1>2, <2>2, <4>1
      <4> QED BY <1>1, <2>4, <4>2, <4>3, <4>4 DEF CursorFollows, c
    <3> QED BY <3>1, <3>2
  <2>11. DeliveredContiguous'
    <3> SUFFICES ASSUME NEW i \in 1..(Len(delivered') - 1)
                 PROVE  delivered'[i + 1] = delivered'[i] + 1
      BY DEF DeliveredContiguous
    <3>1. i \in Int /\ i >= 1 /\ i + 1 <= Len(delivered) + Len(new) /\ Len(delivered) \in Nat
      BY <1>2, <2>2, <2>5
    <3>2. /\ delivered'[i] = IF i <= Len(delivered) THEN delivered[i] ELSE new[i - Len(delivered)]
          /\ delivered'[i + 1] = IF i + 1 <= Len(delivered) THEN delivered[i + 1]
                                 ELSE new[i + 1 - Len(delivered)]
      BY <2>2, <2>5, <3>1
    <3>3. CASE i + 1 <= Len(delivered)
      <4>1. delivered[i + 1] = delivered[i] + 1
        BY <3>1, <3>3 DEF IndInv, DeliveredContiguous
      <4> QED BY <3>1, <3>2, <3>3, <4>1
    <3>4. CASE i = Len(delivered)
      <4>1. delivered # <<>> /\ new[1] = cur
        BY <1>2, <2>2, <3>1, <3>4
      <4>2. delivered'[i + 1] = new[1]
        BY <3>1, <3>2, <3>4
      <4> QED BY <2>6, <3>1, <3>2, <3>4, <4>1, <4>2
    <3>5. CASE i > Len(delivered)
      <4>1. i - Len(delivered) \in 1..Len(new) /\ i + 1 - Len(delivered) \in 1..Len(new)
        BY <2>2, <3>1, <3>5
      <4>2. /\ new[i - Len(delivered)] = cur + (i - Len(delivered)) - 1
            /\ new[i + 1 - Len(delivered)] = cur + (i + 1 - Len(delivered)) - 1
        BY <2>2, <4>1
      <4> QED BY <1>2, <3>1, <3>2, <3>5, <4>2
    <3> QED BY <3>1, <3>3, <3>4, <3>5
  <2>12. PiecesKept'
    <3> SUFFICES ASSUME CutAlike
                 PROVE  /\ \A s \in offered :
                              s[2] <= c \/ (isn + s[1]) % SeqModulus \in DOMAIN end.pending
                        /\ \A seq \in DOMAIN end.pending :
                              <<Off(isn, seq), Off(isn, seq) + Len(end.pending[seq])>> \in offered
                        /\ offered # {} => \E s \in offered : c \in {s[1], s[2]}
      BY <1>1, <2>4 DEF PiecesKept, CutAlike, SeqAt, c
    <3>1. NoPieceLost(isn, offered, DOMAIN end.pending, end.next_seq)
      BY <2>1
    <3>2. \A seq \in DOMAIN end.pending :
             <<Off(isn, seq), Off(isn, seq) + Len(end.pending[seq])>> \in offered
      BY <2>3 DEF IndInv, PiecesKept
    <3> QED BY <3>1, <3>2 DEF NoPieceLost, c
  <2>13. PullTakesAllUnwrapped'
    <3> SUFFICES ASSUME OneSideOfWrap PROVE end.next_seq \notin DOMAIN end.pending
      BY <1>1, <2>4 DEF PullTakesAllUnwrapped, PullTakesAll, OneSideOfWrap, OfferedOffsets
    <3>1. \A seq \in DOMAIN end.pending : c < Off(isn, seq)
      BY <2>3, OneSideInOrder
    <3> QED BY <2>2, <3>1 DEF c
  <2> QED BY <2>7, <2>8, <2>9, <2>10, <2>11, <2>12, <2>13 DEF IndInv
<1> QED BY <1>3, <1>4

\* Every step keeps the invariant.
LEMMA NextInv == IndInv /\ [Next]_vars => IndInv'
<1> SUFFICES ASSUME IndInv, [Next]_vars PROVE IndInv'
  OBVIOUS
<1>1. ASSUME NEW s \in Segments, Segment(s[1], s[2]) PROVE IndInv'
  BY <1>1, SegmentInv
<1>2. CASE Pull
  BY <1>2, PullInv
<1>3. CASE UNCHANGED vars
  <2>1. TypeOK' /\ FreshUntilFed' /\ EntriesArePieces' /\ CursorFollows'
    BY <1>3 DEF vars, IndInv, TypeOK, FreshUntilFed, EntriesArePieces, CursorFollows, OfferedOffsets
  <2>2. DeliveredContiguous' /\ PiecesKept' /\ PullTakesAllUnwrapped'
    BY <1>3 DEF vars, IndInv, DeliveredContiguous, PiecesKept, CutAlike, SeqAt,
                PullTakesAllUnwrapped, PullTakesAll, OneSideOfWrap, OfferedOffsets
  <2> QED BY <2>1, <2>2 DEF IndInv
<1> QED BY <1>1, <1>2, <1>3 DEF Next

\* The invariant holds of every state of every run.
THEOREM StreamInvariance == Spec => []IndInv
<1> QED BY InitInv, NextInv, PTL DEF Spec

-----------------------------------------------------------------------------
(***************************************************************************)
(* What follows from it.                                                   *)
(***************************************************************************)
\* The fields of the reassembler have their types, whatever arrives.
THEOREM ReassemblerTypes == Spec => []TypeOK
<1>1. IndInv => TypeOK
  BY DEF IndInv
<1> QED BY <1>1, StreamInvariance, PTL

\* What pullContiguous() returns is one unbroken piece of the stream, whatever
\* order the segments come in, however they are cut and wherever the numbers wrap.
THEOREM BytesInOrder == Spec => []DeliveredContiguous
<1>1. IndInv => DeliveredContiguous
  BY DEF IndInv
<1> QED BY <1>1, StreamInvariance, PTL

\* The cursor names the byte after the last one delivered, and an entry of
\* pending_ holds the bytes its key names, none of them behind the cursor.
THEOREM CursorIsRight == Spec => []CursorAgrees
<1>1. IndInv => CursorAgrees
  <2> SUFFICES ASSUME IndInv PROVE CursorAgrees
    OBVIOUS
  <2>1. isn \in SeqNumbers /\ IsReassembler(r) /\ r.next_seq \in SeqNumbers
    BY StateTypes DEF IndInv, IsReassembler
  <2>2. delivered # <<>> => r.consumed_any /\ r.next_seq = SeqAt(delivered[Len(delivered)] + 1)
    BY <2>1, OffNames DEF IndInv, CursorFollows, SeqAt
  <2>3. ASSUME NEW seq \in DOMAIN r.pending
        PROVE  /\ r.pending[seq] # <<>>
               /\ seq = SeqAt(r.pending[seq][1])
               /\ \A i \in 1..(Len(r.pending[seq]) - 1) :
                     r.pending[seq][i + 1] = r.pending[seq][i] + 1
               /\ ~seqLessThan(seq, r.next_seq)
    <3> DEFINE data == r.pending[seq]
    <3>1. seq \in SeqNumbers /\ data \in Seq(Offsets) /\ Off(isn, seq) \in Nat
          /\ Off(isn, r.next_seq) \in Nat
      BY <2>1, StateTypes, OffIsNat DEF IndInv, IsReassembler
    <3>2. /\ data # <<>> /\ Off(isn, seq) + Len(data) < Half
          /\ \A i \in 1..Len(data) : data[i] = Off(isn, seq) + i - 1
          /\ Off(isn, seq) >= Off(isn, r.next_seq)
      BY DEF IndInv, EntriesArePieces, IsPiece
    <3>3. Off(isn, r.next_seq) < Half
      BY DEF IndInv, FreshUntilFed
    <3> HIDE DEF data
    <3>4. data[1] = Off(isn, seq)
      BY <3>1, <3>2
    <3>5. \A i \in 1..(Len(data) - 1) : data[i + 1] = data[i] + 1
      BY <3>1, <3>2
    <3>6. Off(isn, seq) < Half
      BY <3>1, <3>2, HalfFacts
    <3>7. ~seqLessThan(seq, r.next_seq)
      <4>1. seqLessThan(seq, r.next_seq) <=> Off(isn, seq) < Off(isn, r.next_seq)
        BY <2>1, <3>1, <3>3, <3>6, Compare
      <4> QED BY <3>1, <3>2, <4>1
    <3>8. seq = SeqAt(data[1])
      BY <2>1, <3>1, <3>4, OffNames DEF SeqAt
    <3> QED BY <3>2, <3>5, <3>7, <3>8 DEF data
  <2> QED BY <2>2, <2>3 DEF CursorAgrees
<1> QED BY <1>1, StreamInvariance, PTL

\* Where the captured sequence numbers do not wrap, nothing that is pending
\* after a pull starts at the cursor, although the entries are visited in the
\* order of their keys and each only once.
THEOREM PullIsComplete == Spec => []PullTakesAllUnwrapped
<1>1. IndInv => PullTakesAllUnwrapped
  BY DEF IndInv
<1> QED BY <1>1, StreamInvariance, PTL

\* Where the stream is always cut alike, and away from the wrap, a pull
\* delivers every captured byte up to the first missing one.
THEOREM NothingLost == Spec => []NoByteLost
<1>1. IndInv => NoByteLost
  <2> SUFFICES ASSUME IndInv, pulled, offered # {}, OneSideOfWrap, CutAlike
               PROVE  /\ delivered # <<>>
                      /\ delivered[Len(delivered)] + 1 \notin OfferedOffsets
    BY DEF NoByteLost
  <2> DEFINE c == Off(isn, r.next_seq)
  <2>1. /\ isn \in SeqNumbers /\ IsReassembler(r) /\ r.next_seq \in SeqNumbers
        /\ offered \subseteq {s \in Nat \X Nat : s[1] < s[2] /\ s[2] < Half}
        /\ c \in Nat
    BY StateTypes, OffIsNat DEF IndInv, IsReassembler
  <2>2. r.next_seq \notin DOMAIN r.pending
    BY DEF IndInv, PullTakesAllUnwrapped, PullTakesAll
  \* No captured piece holds the byte at the cursor.
  <2>3. ASSUME NEW s \in offered, s[1] <= c, c < s[2] PROVE FALSE
    <3>1. s[1] \in Nat /\ s[2] \in Nat /\ s[1] < SeqModulus
      <4>1. s[1] \in Nat /\ s[2] \in Nat /\ s[1] < s[2] /\ s[2] < Half
        BY <2>1
      <4> QED BY <4>1, HalfFacts
    <3>2. SeqAt(s[1]) \in DOMAIN r.pending
      <4>1. s[2] <= c \/ SeqAt(s[1]) \in DOMAIN r.pending
        BY DEF IndInv, PiecesKept
      <4> HIDE DEF c
      <4> QED BY <2>1, <2>3, <3>1, <4>1
    <3>3. Off(isn, SeqAt(s[1])) = s[1]
      BY <2>1, <3>1, SeqOfOffset DEF SeqAt
    <3>4. s[1] >= c
      BY <3>2, <3>3 DEF IndInv, EntriesArePieces
    <3>5. s[1] = c
      <4> HIDE DEF c
      <4> QED BY <2>1, <2>3, <3>1, <3>4
    <3>6. r.next_seq = SeqAt(s[1])
      BY <2>1, <3>5, OffNames DEF SeqAt
    <3> QED BY <2>2, <3>2, <3>6
  <2>4. delivered # <<>>
    <3> SUFFICES ASSUME delivered = <<>> PROVE FALSE
      OBVIOUS
    <3>1. PICK s \in offered : c \in {s[1], s[2]}
      BY DEF IndInv, PiecesKept
    <3>2. c <= s[1] /\ s[1] \in Nat /\ s[2] \in Nat /\ s[1] < s[2]
      BY <2>1 DEF IndInv, CursorFollows
    <3> HIDE DEF c
    <3>3. s[1] <= c /\ c < s[2]
      BY <2>1, <3>1, <3>2
    <3> QED BY <2>3, <3>3
  <2>5. c \notin OfferedOffsets
    <3> SUFFICES ASSUME NEW s \in offered, c \in s[1]..(s[2] - 1) PROVE FALSE
      BY DEF OfferedOffsets
    <3>1. s[1] \in Nat /\ s[2] \in Nat
      BY <2>1
    <3> HIDE DEF c
    <3>2. s[1] <= c /\ c < s[2]
      BY <2>1, <3>1
    <3> QED BY <2>3, <3>2
  <2>6. delivered[Len(delivered)] + 1 = c
    BY <2>4 DEF IndInv, CursorFollows
  <2> QED BY <2>4, <2>5, <2>6
<1> QED BY <1>1, StreamInvariance, PTL

\* The first bytes delivered start at the earliest byte captured until then.
THEOREM EarliestFirst == Spec => StartsAtEarliest
<1> DEFINE A == delivered = <<>> /\ delivered' # <<>> =>
                    \A offset \in OfferedOffsets : delivered'[1] <= offset
<1>1. IndInv /\ [Next]_vars => [A]_vars
  <2> SUFFICES ASSUME IndInv, Next, delivered = <<>>, delivered' # <<>>,
                      NEW offset \in OfferedOffsets
               PROVE  delivered'[1] <= offset
    BY DEF vars
  <2>1. Pull
    BY DEF Next, Segment
  <2>2. r.initialized
    BY DEF IndInv, FreshUntilFed, OfferedOffsets
  <2> DEFINE new == LoopEnd(r).bytes
  <2>3. delivered' = new /\ new \in Seq(Offsets)
    <3>1. new \in Seq(Offsets)
      BY <2>2, LoopOfPull DEF LoopInv, TakenSound
    <3>2. delivered' = <<>> \o new
      BY <2>1, PullIsLoop DEF Pull, Pulled
    <3> HIDE DEF new
    <3> QED BY <3>1, <3>2
  <2>4. \A i \in 1..Len(new) : new[i] = Off(isn, r.next_seq) + i - 1
    BY <2>2, LoopOfPull DEF LoopInv, TakenSound
  <2>5. isn \in SeqNumbers /\ Off(isn, r.next_seq) \in Nat
        /\ offered \subseteq {s \in Nat \X Nat : s[1] < s[2] /\ s[2] < Half}
    BY StateTypes, OffIsNat DEF IndInv, IsReassembler
  <2>6. PICK s \in offered : offset \in s[1]..(s[2] - 1)
    BY DEF OfferedOffsets
  <2>7. Off(isn, r.next_seq) <= s[1] /\ s[1] \in Nat /\ s[2] \in Nat
    BY <2>5 DEF IndInv, CursorFollows
  <2> HIDE DEF new
  <2>8. new[1] = Off(isn, r.next_seq)
    <3>1. 1 \in 1..Len(new)
      BY <2>3
    <3> QED BY <2>4, <2>5, <3>1
  <2> QED BY <2>3, <2>5, <2>6, <2>7, <2>8
<1> QED BY <1>1, StreamInvariance, PTL DEF Spec, StartsAtEarliest
=============================================================================
