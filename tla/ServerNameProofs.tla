-------------------------- MODULE ServerNameProofs --------------------------
(***************************************************************************)
(* Proofs about ServerName: the parser and the comparison of rules, for    *)
(* any hellos that can be written, any host names and any rules.           *)
(***************************************************************************)
EXTENDS ServerName, FiniteSetTheorems, SequenceTheorems, TLAPS

\* The bodies of the loops: the bytes of a number, the names of a list and the
\* extensions of a hello as they are written, the labels of a name, the rules
\* as they are added, and the rules a name matches.
Reading(bytes, k, n) == 256 * n + bytes[k]

Naming(env, k, rest) ==
    <<env.names[[i \in DOMAIN env.names |-> i][k]].type>>
    \o Field(2, env.names[[i \in DOMAIN env.names |-> i][k]].name, rest,
             env.fault = "name" /\ [i \in DOMAIN env.names |-> i][k] = 1)

Extending(env, k, rest) ==
    BigEndian(env.extensions[[i \in DOMAIN env.extensions |-> i][k]].type, 2)
    \o Field(2, Body(env.extensions[[i \in DOMAIN env.extensions |-> i][k]], env.fault), rest,
             env.fault = "extension" /\ [i \in DOMAIN env.extensions |-> i][k] = 1)

Joining(labels, k, text) == text \o <<Dot>> \o labels[k]

Adding(list, k, rules) == Rule!addBlockedDomain(rules, Text(list[k]))

Matching(env, k, hits) ==
    IF matchesRule(env.name, env.rules[k]) THEN Append(hits, env.rules[k]) ELSE hits

Reads == INSTANCE FoldLoop WITH Step <- Reading, Pick <- Max
Writes == INSTANCE FoldLoop WITH Step <- Naming, Pick <- Min
Extends == INSTANCE FoldLoop WITH Step <- Extending, Pick <- Min
Joins == INSTANCE FoldLoop WITH Step <- Joining, Pick <- Max
Adds == INSTANCE FoldLoop WITH Step <- Adding, Pick <- Max
Matches == INSTANCE FoldLoop WITH Step <- Matching, Pick <- Max

\* Max picks the largest number.
LEMMA MaxPicks ==
    ASSUME NEW n \in Nat
    PROVE  /\ Reads!PicksLargest(1..n) /\ Joins!PicksLargest(1..n)
           /\ Adds!PicksLargest(1..n) /\ Matches!PicksLargest(1..n)
<1>1. ASSUME NEW T \in SUBSET (1..n), T # {} PROVE Max(T) \in T /\ \A y \in T : y <= Max(T)
  <2>1. IsFiniteSet(T) /\ T \subseteq Int
    <3>1. IsFiniteSet(1..n)
      BY FS_Interval
    <3>2. IsFiniteSet(T)
      BY <3>1, FS_Subset
    <3> QED BY <3>2
  <2>2. Reads!IsFiniteSet(T)
    BY <2>1 DEF Reads!IsFiniteSet, IsFiniteSet
  <2>3. \E x \in T : \A y \in T : y <= x
    BY <1>1, <2>1, <2>2, Reads!LargestElement
  <2>4. \E x \in T : \A y \in T : x >= y
    BY <2>1, <2>3
  <2>5. Max(T) \in T /\ \A y \in T : Max(T) >= y
    BY <2>4 DEF Max
  <2> QED BY <2>1, <2>5
<1> QED BY <1>1 DEF Reads!PicksLargest, Joins!PicksLargest, Adds!PicksLargest, Matches!PicksLargest

\* A set of numbers that is not empty has a least one.
LEMMA LeastNumber ==
    ASSUME NEW T, T \subseteq Nat, T # {}
    PROVE  Min(T) \in T /\ \A y \in T : Min(T) <= y
<1>1. \E x \in T : \A y \in T : x <= y
  <2> SUFFICES ASSUME \A x \in T : \E y \in T : y < x PROVE FALSE
    OBVIOUS
  <2> DEFINE Good == {n \in Nat : \A x \in T : n < x}
  <2>1. 0 \in Good
    OBVIOUS
  <2>2. ASSUME NEW n \in Nat, n \in Good PROVE n + 1 \in Good
    <3>1. \A x \in T : n + 1 <= x
      BY <2>2
    <3>2. \A x \in T : n + 1 < x
      BY <3>1
    <3> QED BY <3>2
  <2>3. Nat \subseteq Good
    <3> HIDE DEF Good
    <3> QED BY <2>1, <2>2, Reads!CountingUp
  <2>4. PICK x \in T : TRUE
    OBVIOUS
  <2>5. x \in Good
    BY <2>3
  <2> QED BY <2>4, <2>5
<1> QED BY <1>1 DEF Min

\* Min picks from every interval, and its first number from an interval.
LEMMA MinPicks ==
    ASSUME NEW k \in Nat, NEW n \in Nat
    PROVE  /\ Writes!PicksFrom(k..n) /\ Extends!PicksFrom(k..n)
           /\ k <= n => Min(k..n) = k /\ (k..n) \ {k} = (k + 1)..n
<1>1. ASSUME NEW T \in SUBSET (k..n), T # {} PROVE Min(T) \in T
  <2>1. T \subseteq Nat
    OBVIOUS
  <2> QED BY <1>1, <2>1, LeastNumber
<1>2. ASSUME k <= n PROVE Min(k..n) = k /\ (k..n) \ {k} = (k + 1)..n
  <2>1. k \in k..n
    BY <1>2
  <2> DEFINE m == Min(k..n)
  <2>2. m \in k..n /\ m <= k
    <3>1. k..n \subseteq Nat /\ k..n # {}
      BY <2>1
    <3> QED BY <2>1, <3>1, LeastNumber
  <2> HIDE DEF m
  <2>3. m = k
    BY <2>2
  <2> QED BY <1>2, <2>3 DEF m
<1> QED BY <1>1, <1>2 DEF Writes!PicksFrom, Extends!PicksFrom

-----------------------------------------------------------------------------
(* Numbers and fields.                                                     *)

\* A byte is a number.
LEMMA ByteIsNat == \A x \in Byte : x \in Nat /\ x < 256
BY DEF Byte

\* No bytes are the number zero.
LEMMA ReadNone == ASSUME NEW data PROVE Reads!Loop(data, 0, 1..0) = 0
<1>1. 1..0 = {}
  OBVIOUS
<1> QED BY <1>1, Reads!LoopEmpty

\* One byte more.
LEMMA ReadNext ==
    ASSUME NEW bytes, NEW n \in Nat
    PROVE  Reads!Loop(bytes, 0, 1..(n + 1)) = 256 * Reads!Loop(bytes, 0, 1..n) + bytes[n + 1]
<1>1. Reads!PicksLargest(1..(n + 1))
  BY MaxPicks
<1>2. Reads!Loop(bytes, 0, 1..(n + 1)) = Reading(bytes, n + 1, Reads!Loop(bytes, 0, 1..n))
  BY <1>1, Reads!IntervalStep
<1> QED BY <1>2 DEF Reading

\* The number in one, two or three bytes.
LEMMA NumberIs ==
    ASSUME NEW data \in Seq(Byte), NEW pos \in Nat, NEW width \in 1..3, pos + width <= Len(data)
    PROVE  /\ Number(data, pos, width) \in Nat
           /\ width = 1 => Number(data, pos, width) = data[pos + 1]
           /\ width = 2 => Number(data, pos, width) = 256 * data[pos + 1] + data[pos + 2]
           /\ width = 3 => Number(data, pos, width)
                             = 65536 * data[pos + 1] + 256 * data[pos + 2] + data[pos + 3]
<1> DEFINE b == SubSeq(data, pos + 1, pos + width)
           R(n) == Reads!Loop(b, 0, 1..n)
<1>1. DOMAIN b = 1..width /\ \A k \in 1..width : b[k] = data[pos + k] /\ b[k] \in Nat
  <2>1. DOMAIN b = 1..width /\ \A k \in 1..width : b[k] = data[pos + k]
    <3>1. /\ Len(b) = width
          /\ \A i \in 1..(pos + width) - (pos + 1) + 1 : b[i] = data[(pos + 1) + i - 1]
      <4>1. pos + 1 \in 1..(Len(data) + 1) /\ pos + width \in (pos + 1) - 1..Len(data)
        OBVIOUS
      <4> QED BY <4>1, SubSeqProperties
    <3>2. DOMAIN b = 1..Len(b)
      OBVIOUS
    <3> HIDE DEF b
    <3> QED BY <3>1, <3>2
  <2>2. ASSUME NEW k \in 1..width PROVE data[pos + k] \in Nat
    <3>1. pos + k \in 1..Len(data)
      OBVIOUS
    <3>2. data[pos + k] \in Byte
      BY <3>1
    <3> QED BY <3>2, ByteIsNat
  <2> HIDE DEF b
  <2> QED BY <2>1, <2>2
<1>2. Number(data, pos, width) = R(width)
  BY <1>1 DEF Number, FoldLeft, MapThenFoldSet, Reads!Loop, Reads!MapThenFoldSet, Reading
<1>3. R(0) = 0
  BY ReadNone
<1>4. R(0 + 1) = 256 * R(0) + b[0 + 1] /\ R(1 + 1) = 256 * R(1) + b[1 + 1] /\ R(2 + 1) = 256 * R(2) + b[2 + 1]
  <2>1. 0 \in Nat /\ 1 \in Nat /\ 2 \in Nat
    OBVIOUS
  <2> QED BY <2>1, ReadNext
<1> HIDE DEF b, R
<1>5. R(1) = 256 * R(0) + b[1] /\ R(2) = 256 * R(1) + b[2] /\ R(3) = 256 * R(2) + b[3]
  BY <1>4
<1>6. 1 \in 1..width /\ (width >= 2 => 2 \in 1..width) /\ (width = 3 => 3 \in 1..width)
  OBVIOUS
<1>7. b[1] = data[pos + 1] /\ b[1] \in Nat
  BY <1>1, <1>6
<1>8. width >= 2 => b[2] = data[pos + 2] /\ b[2] \in Nat
  BY <1>1, <1>6
<1>9. width = 3 => b[3] = data[pos + 3] /\ b[3] \in Nat
  BY <1>1, <1>6
<1>10. width = 1 \/ width = 2 \/ width = 3
  OBVIOUS
<1>11. CASE width = 1
  BY <1>2, <1>3, <1>5, <1>7, <1>11
<1>12. CASE width = 2
  BY <1>2, <1>3, <1>5, <1>7, <1>8, <1>12
<1>13. CASE width = 3
  <2> DEFINE u == b[1]
             v == b[2]
             w == b[3]
  <2>1. u \in Nat /\ v \in Nat /\ w \in Nat
    BY <1>7, <1>8, <1>9, <1>13
  <2>2. R(1) = 256 * R(0) + u /\ R(2) = 256 * R(1) + v /\ R(3) = 256 * R(2) + w
    BY <1>5
  <2>3. data[pos + 1] = u /\ data[pos + 2] = v /\ data[pos + 3] = w
    BY <1>7, <1>8, <1>9, <1>13
  <2> HIDE DEF u, v, w
  <2>4. R(1) = u
    BY ONLY <1>3, <2>1, <2>2
  <2>5. R(2) = 256 * u + v
    BY ONLY <2>2, <2>4
  <2>6. R(3) = 65536 * u + 256 * v + w
    <3>1. 256 * (256 * u + v) + w = 65536 * u + 256 * v + w
      BY ONLY <2>1
    <3> QED BY ONLY <2>2, <2>5, <3>1
  <2>7. 65536 * u + 256 * v + w \in Nat
    BY ONLY <2>1
  <2> QED BY ONLY <1>2, <1>13, <2>3, <2>6, <2>7
<1> QED BY <1>10, <1>11, <1>12, <1>13

\* What fits into so many bytes.
Fits(n, width) == n < (IF width = 1 THEN 256 ELSE IF width = 2 THEN 65536 ELSE 16777216)

\* The digit of a number to the base 256 that counts so much.
Digit(n, weight) == (n \div weight) % 256

\* The bytes of a number are its digits.
LEMMA BigEndianIs ==
    ASSUME NEW n \in Nat, NEW width \in 1..3
    PROVE  /\ BigEndian(n, width) \in Seq(Byte) /\ Len(BigEndian(n, width)) = width
           /\ \A k \in 1..width : BigEndian(n, width)[k] = Digit(n, Weight[3 - width + k])
<1>1. /\ BigEndian(n, width) = [k \in 1..width |-> Digit(n, Weight[3 - width + k])]
      /\ Weight[1] = 65536 /\ Weight[2] = 256 /\ Weight[3] = 1
  BY DEF BigEndian, Weight, Digit
<1>2. \A k \in 1..width : 3 - width + k \in {1, 2, 3}
  OBVIOUS
<1>3. \A w \in {65536, 256, 1} : Digit(n, w) \in Byte
  BY DEF Byte, Digit
<1>4. \A k \in 1..width : Weight[3 - width + k] \in {65536, 256, 1}
  BY <1>1, <1>2
<1>5. \A k \in 1..width : Digit(n, Weight[3 - width + k]) \in Byte
  BY <1>3, <1>4
<1> QED BY <1>1, <1>5

\* The digits of a number make it up again.
LEMMA Digits ==
    ASSUME NEW n \in Nat
    PROVE  /\ Digit(n, 65536) \in Nat /\ Digit(n, 256) \in Nat /\ Digit(n, 1) \in Nat
           /\ n < 256 => Digit(n, 1) = n
           /\ n < 65536 => 256 * Digit(n, 256) + Digit(n, 1) = n
           /\ n < 16777216 => 65536 * Digit(n, 65536) + 256 * Digit(n, 256) + Digit(n, 1) = n
<1>0. Digit(n, 65536) \in Nat /\ Digit(n, 256) \in Nat /\ Digit(n, 1) \in Nat
  BY DEF Digit
<1>1. Digit(n, 1) = n % 256
  BY DEF Digit
<1>2. n < 256 => Digit(n, 1) = n
  BY <1>1
<1>3. n < 65536 => 256 * Digit(n, 256) + Digit(n, 1) = n
  BY <1>1 DEF Digit
<1>4. n < 16777216 => 65536 * Digit(n, 65536) + 256 * Digit(n, 256) + Digit(n, 1) = n
  BY <1>1 DEF Digit
<1> QED BY <1>0, <1>2, <1>3, <1>4

\* So far as data reaches before end, s is at pos.
Holds(data, pos, s, end) == \A k \in 1..Len(s) : pos + k <= end => data[pos + k] = s[k]

\* A piece and what follows it are one behind the other.
LEMMA HoldsBoth ==
    ASSUME NEW S, NEW a \in Seq(S), NEW b \in Seq(S), NEW data, NEW pos \in Nat, NEW end \in Nat,
           Holds(data, pos, a \o b, end)
    PROVE  Holds(data, pos, a, end) /\ Holds(data, pos + Len(a), b, end)
<1> DEFINE c == a \o b
<1>1. /\ Len(c) = Len(a) + Len(b) /\ Len(a) \in Nat /\ Len(b) \in Nat
      /\ \A k \in 1..Len(a) : c[k] = a[k]
      /\ \A k \in 1..Len(b) : c[Len(a) + k] = b[k]
  OBVIOUS
<1>2. \A k \in 1..Len(c) : pos + k <= end => data[pos + k] = c[k]
  BY DEF Holds
<1> HIDE DEF c
<1>3. ASSUME NEW k \in 1..Len(a), pos + k <= end PROVE data[pos + k] = a[k]
  <2>1. k \in 1..Len(c)
    BY <1>1
  <2> QED BY <1>1, <1>2, <1>3, <2>1
<1>4. ASSUME NEW k \in 1..Len(b), pos + Len(a) + k <= end PROVE data[pos + Len(a) + k] = b[k]
  <2>1. Len(a) + k \in 1..Len(c) /\ pos + (Len(a) + k) = pos + Len(a) + k
    BY <1>1
  <2> QED BY <1>1, <1>2, <1>4, <2>1
<1> QED BY <1>3, <1>4 DEF Holds

\* A number that was written is read.
LEMMA NumberOfBytes ==
    ASSUME NEW data \in Seq(Byte), NEW pos \in Nat, NEW width \in 1..3, NEW end \in Nat,
           pos + width <= end, end <= Len(data), NEW n \in Nat, Fits(n, width),
           Holds(data, pos, BigEndian(n, width), end)
    PROVE  Number(data, pos, width) = n
<1> DEFINE b == BigEndian(n, width)
<1>1. Len(b) = width /\ \A k \in 1..width : b[k] = Digit(n, Weight[3 - width + k])
  BY BigEndianIs
<1>2. \A k \in 1..width : data[pos + k] = Digit(n, Weight[3 - width + k])
  <2>1. \A k \in 1..Len(b) : pos + k <= end => data[pos + k] = b[k]
    BY DEF Holds
  <2> HIDE DEF b
  <2>2. ASSUME NEW k \in 1..width PROVE data[pos + k] = b[k]
    <3>1. pos + k <= end
      OBVIOUS
    <3> QED BY <1>1, <2>1, <3>1
  <2> QED BY <1>1, <2>2
<1>3. Weight[1] = 65536 /\ Weight[2] = 256 /\ Weight[3] = 1
  BY DEF Weight
<1>4. width = 1 \/ width = 2 \/ width = 3
  OBVIOUS
<1>5. pos + width <= Len(data)
  OBVIOUS
<1> DEFINE u == Digit(n, 65536)
           v == Digit(n, 256)
           w == Digit(n, 1)
<1>6. /\ u \in Nat /\ v \in Nat /\ w \in Nat
      /\ n < 256 => w = n
      /\ n < 65536 => 256 * v + w = n
      /\ n < 16777216 => 65536 * u + 256 * v + w = n
  BY Digits
<1> HIDE DEF b, u, v, w
<1>7. CASE width = 1
  <2>1. 1 \in 1..width /\ 3 - width + 1 = 3 /\ n < 256
    BY <1>7 DEF Fits
  <2>2. data[pos + 1] = w
    BY <1>2, <1>3, <2>1 DEF w
  <2> QED BY <1>5, <1>6, <1>7, <2>1, <2>2, NumberIs
<1>8. CASE width = 2
  <2>1. 1 \in 1..width /\ 2 \in 1..width /\ 3 - width + 1 = 2 /\ 3 - width + 2 = 3 /\ n < 65536
    BY <1>8 DEF Fits
  <2>2. data[pos + 1] = v /\ data[pos + 2] = w
    BY <1>2, <1>3, <2>1 DEF v, w
  <2> QED BY <1>5, <1>6, <1>8, <2>1, <2>2, NumberIs
<1>9. CASE width = 3
  <2>1. /\ 1 \in 1..width /\ 2 \in 1..width /\ 3 \in 1..width
        /\ 3 - width + 1 = 1 /\ 3 - width + 2 = 2 /\ 3 - width + 3 = 3 /\ n < 16777216
    BY <1>9 DEF Fits
  <2>2. data[pos + 1] = u /\ data[pos + 2] = v /\ data[pos + 3] = w
    BY <1>2, <1>3, <2>1 DEF u, v, w
  <2>3. Number(data, pos, width) = 65536 * data[pos + 1] + 256 * data[pos + 2] + data[pos + 3]
    BY <1>5, <1>9, NumberIs
  <2>4. 65536 * u + 256 * v + w = n
    BY <1>6, <2>1
  <2> QED BY <2>2, <2>3, <2>4
<1> QED BY <1>4, <1>7, <1>8, <1>9

\* What is at a position is found there.
LEMMA HeldIsRead ==
    ASSUME NEW data \in Seq(Byte), NEW s \in Seq(Byte), NEW pos \in Nat, NEW end \in Nat,
           Holds(data, pos, s, end), pos + Len(s) <= end, end <= Len(data)
    PROVE  SubSeq(data, pos + 1, pos + Len(s)) = s
<1> DEFINE n == Len(s)
           r == SubSeq(data, pos + 1, pos + n)
<1>1. n \in Nat /\ pos + 1 \in Int /\ pos + n \in Int
  OBVIOUS
<1>2. \A i \in (pos + 1)..(pos + n) : data[i] \in Byte
  <2>1. \A i \in (pos + 1)..(pos + n) : i \in 1..Len(data)
    BY <1>1
  <2> QED BY <2>1
<1>3. /\ r \in Seq(Byte) /\ Len(r) = IF pos + 1 <= pos + n THEN (pos + n) - (pos + 1) + 1 ELSE 0
      /\ \A i \in 1..((pos + n) - (pos + 1) + 1) : r[i] = data[pos + 1 + i - 1]
  <2> DEFINE lo == pos + 1
             hi == pos + n
  <2>1. lo \in Int /\ hi \in Int /\ \A i \in lo..hi : data[i] \in Byte
    BY ONLY <1>1, <1>2
  <2> HIDE DEF n, lo, hi
  <2>2. /\ SubSeq(data, lo, hi) \in Seq(Byte)
        /\ Len(SubSeq(data, lo, hi)) = IF lo <= hi THEN hi - lo + 1 ELSE 0
        /\ \A i \in 1..(hi - lo + 1) : SubSeq(data, lo, hi)[i] = data[lo + i - 1]
    BY <2>1, SubSeqProperties
  <2>3. r = SubSeq(data, lo, hi)
    BY DEF lo, hi
  <2> HIDE DEF r
  <2>4. r \in Seq(Byte) /\ Len(r) = IF lo <= hi THEN hi - lo + 1 ELSE 0
    BY ONLY <2>2, <2>3
  <2>5. \A i \in 1..(hi - lo + 1) : r[i] = data[lo + i - 1]
    BY ONLY <2>2, <2>3
  <2>6. r \in Seq(Byte) /\ Len(r) = IF pos + 1 <= pos + n THEN (pos + n) - (pos + 1) + 1 ELSE 0
    BY ONLY <2>4 DEF lo, hi
  <2>7. \A i \in 1..((pos + n) - (pos + 1) + 1) : r[i] = data[pos + 1 + i - 1]
    BY ONLY <2>5 DEF lo, hi
  <2> QED BY ONLY <2>6, <2>7
<1>4. Len(r) = n /\ (pos + n) - (pos + 1) + 1 = n
  <2> HIDE DEF n, r
  <2> QED BY <1>1, <1>3
<1>5. \A i \in 1..n : r[i] = s[i]
  <2>1. \A i \in 1..n : pos + i <= end /\ pos + 1 + i - 1 = pos + i
    BY <1>1
  <2> HIDE DEF r
  <2> QED BY <1>3, <1>4, <2>1 DEF Holds
<1>6. r \in Seq(Byte) /\ Len(r) = Len(s) /\ \A i \in 1..Len(s) : r[i] = s[i]
  <2> HIDE DEF r
  <2> QED BY <1>3, <1>4, <1>5
<1> HIDE DEF r
<1>7. r = s
  BY <1>6, SeqEqual
<1> QED BY <1>7 DEF r

\* What is written of a length, false or not.
Written(body, rest, false) == Len(body) + (IF false THEN Len(rest) + 1 ELSE 0)

\* A field is bytes: its length, its body, the rest.
LEMMA FieldIs ==
    ASSUME NEW width \in 1..3, NEW body \in Seq(Byte), NEW rest \in Seq(Byte), NEW false \in BOOLEAN
    PROVE  /\ Field(width, body, rest, false) \in Seq(Byte)
           /\ Len(Field(width, body, rest, false)) = width + Len(body) + Len(rest)
           /\ Written(body, rest, false) \in Nat
<1>1. Written(body, rest, false) \in Nat
  BY DEF Written
<1> DEFINE b == BigEndian(Written(body, rest, false), width)
<1>2. b \in Seq(Byte) /\ Len(b) = width
  BY <1>1, BigEndianIs
<1>3. Field(width, body, rest, false) = b \o body \o rest
  BY DEF Field, Written
<1> HIDE DEF b
<1>4. b \o body \in Seq(Byte) /\ Len(b \o body) = width + Len(body)
  BY <1>2
<1>5. b \o body \o rest \in Seq(Byte) /\ Len(b \o body \o rest) = width + Len(body) + Len(rest)
  BY <1>4
<1> QED BY <1>1, <1>3, <1>5

\* Where a field is, its parts are.
LEMMA FieldHolds ==
    ASSUME NEW width \in 1..3, NEW body \in Seq(Byte), NEW rest \in Seq(Byte), NEW false \in BOOLEAN,
           NEW data, NEW pos \in Nat, NEW end \in Nat,
           Holds(data, pos, Field(width, body, rest, false), end)
    PROVE  /\ Holds(data, pos, BigEndian(Written(body, rest, false), width), end)
           /\ Holds(data, pos + width, body, end)
           /\ Holds(data, pos + width + Len(body), rest, end)
<1>1. Written(body, rest, false) \in Nat
  BY DEF Written
<1> DEFINE b == BigEndian(Written(body, rest, false), width)
           c == b \o body
<1>2. b \in Seq(Byte) /\ Len(b) = width
  BY <1>1, BigEndianIs
<1>3. Field(width, body, rest, false) = c \o rest
  BY DEF Field, Written
<1> HIDE DEF b
<1>4. c \in Seq(Byte) /\ Len(c) = width + Len(body) /\ Len(body) \in Nat
  BY <1>2
<1> HIDE DEF c
<1>5. Holds(data, pos, c, end) /\ Holds(data, pos + Len(c), rest, end)
  BY <1>3, <1>4, HoldsBoth
<1>6. Holds(data, pos, b, end) /\ Holds(data, pos + Len(b), body, end)
  BY <1>2, <1>5, HoldsBoth DEF c
<1>7. pos + Len(c) = pos + width + Len(body)
  BY <1>4
<1> QED BY <1>2, <1>5, <1>6, <1>7 DEF b

\* A length that is not known leads nowhere.
LEMMA BehindLost ==
    ASSUME NEW data, NEW width, NEW end
    PROVE  Behind(data, Lost, width, end) = Lost /\ Past(Lost, width, end) = Lost
BY DEF Behind, Past

\* A field is at pos, in a container that ends with the field's rest or before.
FieldAt(data, pos, width, body, rest, false, end) ==
    /\ width \in 1..3 /\ body \in Seq(Byte) /\ rest \in Seq(Byte) /\ false \in BOOLEAN
    /\ data \in Seq(Byte) /\ pos \in Nat /\ end \in Nat /\ end <= Len(data)
    /\ Holds(data, pos, Field(width, body, rest, false), end)
    /\ end <= pos + width + Len(body) + Len(rest)
    /\ Fits(Written(body, rest, false), width)

\* The field after pos ends where it was written to end, unless its length is
\* false or its container ends before it.
LEMMA BehindField ==
    ASSUME NEW width, NEW body, NEW rest, NEW false, NEW data, NEW pos, NEW end,
           FieldAt(data, pos, width, body, rest, false, end)
    PROVE  /\ Len(body) \in Nat /\ Len(rest) \in Nat
           /\ false \/ pos + width + Len(body) > end => Behind(data, pos, width, end) = Lost
           /\ ~false /\ pos + width + Len(body) <= end
                => /\ Behind(data, pos, width, end) = pos + width + Len(body)
                   /\ SubSeq(data, pos + width + 1, pos + width + Len(body)) = body
                   /\ Holds(data, pos + width, body, pos + width + Len(body))
           /\ Holds(data, pos + width + Len(body), rest, end)
<1>0. /\ width \in 1..3 /\ body \in Seq(Byte) /\ rest \in Seq(Byte) /\ false \in BOOLEAN
      /\ data \in Seq(Byte) /\ pos \in Nat /\ end \in Nat /\ end <= Len(data)
      /\ Holds(data, pos, Field(width, body, rest, false), end)
      /\ end <= pos + width + Len(body) + Len(rest)
      /\ Fits(Written(body, rest, false), width)
  BY DEF FieldAt
<1> DEFINE n == Written(body, rest, false)
<1>1. n \in Nat /\ Len(body) \in Nat /\ Len(rest) \in Nat
  BY <1>0 DEF Written
<1>2. n = IF false THEN Len(body) + Len(rest) + 1 ELSE Len(body)
  BY <1>0, <1>1 DEF Written
<1>3. /\ Holds(data, pos, BigEndian(n, width), end)
      /\ Holds(data, pos + width, body, end)
      /\ Holds(data, pos + width + Len(body), rest, end)
  BY <1>0, FieldHolds
<1>4. pos + width <= end => Number(data, pos, width) = n
  <2>1. Fits(n, width)
    BY <1>0
  <2> HIDE DEF n
  <2> QED BY <1>0, <1>1, <1>3, <2>1, NumberOfBytes
<1>5. pos # Lost /\ pos + width # Lost
  BY <1>0 DEF Lost
<1> HIDE DEF n
<1>6. CASE pos + width > end
  <2>1. Past(pos, width, end) = Lost
    BY <1>6 DEF Past
  <2>2. Behind(data, pos, width, end) = Lost
    BY <2>1 DEF Behind
  <2>3. ~(pos + width + Len(body) <= end)
    BY <1>0, <1>1, <1>6
  <2> QED BY <1>1, <1>3, <2>2, <2>3
<1>7. CASE pos + width <= end
  <2>1. Behind(data, pos, width, end) = Past(pos + width, n, end)
    <3>1. Past(pos, width, end) = pos + width
      BY <1>0, <1>5, <1>7 DEF Past
    <3> QED BY <1>4, <1>5, <1>7, <3>1 DEF Behind
  <2>2. Past(pos + width, n, end) = IF pos + width + n > end THEN Lost ELSE pos + width + n
    BY <1>5 DEF Past
  <2>3. CASE false
    <3>1. pos + width + n > end
      BY <1>0, <1>1, <1>2, <2>3
    <3> QED BY <1>1, <1>3, <2>1, <2>2, <2>3, <3>1
  <2>4. CASE ~false
    <3>1. n = Len(body)
      BY <1>2, <2>4
    <3>2. ASSUME pos + width + Len(body) <= end
          PROVE  /\ Behind(data, pos, width, end) = pos + width + Len(body)
                 /\ SubSeq(data, pos + width + 1, pos + width + Len(body)) = body
                 /\ Holds(data, pos + width, body, pos + width + Len(body))
      <4>1. ~(pos + width + Len(body) > end)
        BY <1>0, <1>1, <3>2
      <4>2. Behind(data, pos, width, end) = pos + width + Len(body)
        BY <2>1, <2>2, <3>1, <4>1
      <4>3. SubSeq(data, pos + width + 1, pos + width + Len(body)) = body
        <5>1. pos + width \in Nat
          BY <1>0
        <5> QED BY <1>0, <1>3, <3>2, <5>1, HeldIsRead
      <4>4. Holds(data, pos + width, body, pos + width + Len(body))
        <5>1. \A k \in 1..Len(body) : pos + width + k <= end
          BY <1>0, <1>1, <3>2
        <5> QED BY <1>3, <5>1 DEF Holds
      <4> QED BY <4>2, <4>3, <4>4
    <3>3. pos + width + Len(body) > end => Behind(data, pos, width, end) = Lost
      BY <2>1, <2>2, <3>1
    <3> QED BY <1>1, <1>3, <2>4, <3>2, <3>3
  <2> QED BY <1>0, <2>3, <2>4
<1> QED BY <1>0, <1>6, <1>7

-----------------------------------------------------------------------------
(* The names of a list: what is written from the k-th on.                  *)

NamesTail(names, fault, k) ==
    Writes!Loop([names |-> names, fault |-> fault], <<9, 9>>, k..Len(names))

\* Behind the last name there are bytes too few for another one.
LEMMA NamesTailEnd ==
    ASSUME NEW names, NEW fault, NEW k \in Nat, Len(names) \in Nat, k > Len(names)
    PROVE  NamesTail(names, fault, k) = <<9, 9>>
<1>1. k..Len(names) = {}
  OBVIOUS
<1> QED BY <1>1, Writes!LoopEmpty DEF NamesTail

\* A name is its type and a field, with the names behind it.
LEMMA NamesTailStep ==
    ASSUME NEW S, NEW names \in Seq(S), NEW fault, NEW k \in 1..Len(names)
    PROVE  NamesTail(names, fault, k)
             = <<names[k].type>> \o Field(2, names[k].name, NamesTail(names, fault, k + 1),
                                          fault = "name" /\ k = 1)
<1> DEFINE n == Len(names)
           env == [names |-> names, fault |-> fault]
           more == Writes!Loop(env, <<9, 9>>, (k + 1)..n)
<1>1. n \in Nat /\ k \in Nat /\ k <= n /\ k \in k..n /\ DOMAIN names = 1..n
  OBVIOUS
<1>2. Writes!PicksFrom(k..n) /\ Min(k..n) = k /\ (k..n) \ {k} = (k + 1)..n
  BY <1>1, MinPicks
<1>3. Writes!IsFiniteSet(k..n)
  <2>1. IsFiniteSet(k..n)
    BY <1>1, FS_Interval
  <2> QED BY <2>1 DEF Writes!IsFiniteSet, IsFiniteSet
<1>4. k..n # {}
  BY <1>1
<1>5. Writes!Loop(env, <<9, 9>>, k..n) = Naming(env, k, more)
  <2> HIDE DEF env, n
  <2>1. Writes!Loop(env, <<9, 9>>, k..n)
          = Naming(env, Min(k..n), Writes!Loop(env, <<9, 9>>, (k..n) \ {Min(k..n)}))
    BY <1>2, <1>3, <1>4, Writes!LoopStep
  <2> QED BY <1>2, <2>1
<1>6. [i \in DOMAIN names |-> i][k] = k
  BY <1>1
<1> HIDE DEF more
<1>7. Naming(env, k, more)
        = <<names[k].type>> \o Field(2, names[k].name, more, fault = "name" /\ k = 1)
  BY <1>6 DEF Naming
<1> QED BY <1>5, <1>7 DEF NamesTail, more

\* The list is what is written from its first name on.
LEMMA NamesFromIs ==
    ASSUME NEW S, NEW names \in Seq(S), NEW fault
    PROVE  NamesFrom(names, fault) = NamesTail(names, fault, 1)
<1>1. DOMAIN [i \in DOMAIN names |-> i] = 1..Len(names)
  OBVIOUS
<1>2. NamesFrom(names, fault)
        = Writes!Loop([names |-> names, fault |-> fault], <<9, 9>>, DOMAIN [i \in DOMAIN names |-> i])
  BY DEF NamesFrom, FoldRightDomain, FoldRight, MapThenFoldSet, Writes!Loop,
         Writes!MapThenFoldSet, Naming
<1> QED BY <1>1, <1>2 DEF NamesTail

\* One byte in front.
LEMMA Prefixed ==
    ASSUME NEW S, NEW x \in S, NEW s \in Seq(S)
    PROVE  /\ <<x>> \o s \in Seq(S) /\ Len(<<x>> \o s) = 1 + Len(s)
           /\ <<x>> \in Seq(S) /\ Len(<<x>>) = 1 /\ <<x>>[1] = x
<1>1. <<x>> \in Seq(S) /\ Len(<<x>>) = 1 /\ <<x>>[1] = x
  OBVIOUS
<1> QED BY <1>1

\* One byte in front is where the rest is, one before it.
LEMMA HoldsPrefixed ==
    ASSUME NEW S, NEW x \in S, NEW s \in Seq(S), NEW data, NEW pos \in Nat, NEW end \in Nat,
           Holds(data, pos, <<x>> \o s, end)
    PROVE  (pos + 1 <= end => data[pos + 1] = x) /\ Holds(data, pos + 1, s, end)
<1> DEFINE a == <<x>>
<1>1. a \in Seq(S) /\ Len(a) = 1 /\ a[1] = x
  BY Prefixed
<1>2. Holds(data, pos, a \o s, end)
  OBVIOUS
<1> HIDE DEF a
<1>3. Holds(data, pos, a, end) /\ Holds(data, pos + Len(a), s, end)
  BY <1>1, <1>2, HoldsBoth
<1> QED BY <1>1, <1>3 DEF Holds

\* The bytes of a list and how many they are.
NamesTailFits(names, fault, k) ==
    /\ NamesTail(names, fault, k) \in Seq(Byte)
    /\ k <= Len(names) => Len(NamesTail(names, fault, k))
                            = 3 + Len(names[k].name) + Len(NamesTail(names, fault, k + 1))
    /\ k > Len(names) => Len(NamesTail(names, fault, k)) = 2

\* What is written from any name on is bytes.
LEMMA NamesTailIs ==
    ASSUME NEW names \in Seq(NameEntry), NEW fault, NEW k \in 1..(Len(names) + 1)
    PROVE  NamesTailFits(names, fault, k)
<1> DEFINE n == Len(names)
           Good == {m \in Nat : m <= n => NamesTailFits(names, fault, n + 1 - m)}
<1>1. n \in Nat
  OBVIOUS
<1>2. ASSUME NEW j \in Nat, j > n PROVE NamesTailFits(names, fault, j)
  <2>1. NamesTail(names, fault, j) = <<9, 9>>
    BY <1>1, <1>2, NamesTailEnd
  <2>2. 9 \in Byte
    BY DEF Byte
  <2>3. <<9, 9>> \in Seq(Byte) /\ Len(<<9, 9>>) = 2
    BY <2>2
  <2>4. ~(j <= n)
    BY <1>1, <1>2
  <2> QED BY <2>1, <2>3, <2>4 DEF NamesTailFits
<1>3. ASSUME NEW j \in 1..n, NamesTailFits(names, fault, j + 1) PROVE NamesTailFits(names, fault, j)
  <2> DEFINE t == NamesTail(names, fault, j)
             u == NamesTail(names, fault, j + 1)
             false == fault = "name" /\ j = 1
             name == names[j].name
             type == names[j].type
             f == Field(2, name, u, false)
  <2>1. type \in Byte /\ name \in Seq(Byte)
    <3>1. names[j] \in NameEntry
      OBVIOUS
    <3> QED BY <3>1 DEF NameEntry
  <2>2. u \in Seq(Byte)
    BY <1>3 DEF NamesTailFits
  <2>3. t = <<type>> \o f
    BY NamesTailStep
  <2>4. false \in BOOLEAN /\ 2 \in 1..3
    OBVIOUS
  <2> HIDE DEF t, u, false, name, type
  <2>5. f \in Seq(Byte) /\ Len(f) = 2 + Len(name) + Len(u)
    BY <2>1, <2>2, <2>4, FieldIs
  <2> HIDE DEF f
  <2>6. t \in Seq(Byte) /\ Len(t) = 1 + Len(f)
    BY <2>1, <2>3, <2>5, Prefixed
  <2>7. Len(t) = 3 + Len(name) + Len(u)
    <3>1. Len(name) \in Nat /\ Len(u) \in Nat
      BY <2>1, <2>2
    <3> QED BY <2>5, <2>6, <3>1
  <2>8. ~(j > n)
    BY <1>1
  <2> QED BY <2>6, <2>7, <2>8 DEF t, u, name, NamesTailFits
<1>4. Nat \subseteq Good
  <2>1. 0 \in Good
    <3>1. n + 1 - 0 \in Nat /\ n + 1 - 0 > n
      BY <1>1
    <3> HIDE DEF n
    <3> QED BY <1>2, <3>1
  <2>2. ASSUME NEW m \in Nat, m \in Good PROVE m + 1 \in Good
    <3> SUFFICES ASSUME m + 1 <= n PROVE NamesTailFits(names, fault, n + 1 - (m + 1))
      OBVIOUS
    <3>1. n + 1 - (m + 1) \in 1..n /\ (n + 1 - (m + 1)) + 1 = n + 1 - m /\ m <= n
      BY <1>1
    <3> HIDE DEF n
    <3>2. NamesTailFits(names, fault, n + 1 - m)
      BY <2>2, <3>1
    <3> QED BY <1>3, <3>1, <3>2
  <2> HIDE DEF Good
  <2> QED BY <2>1, <2>2, Writes!CountingUp
<1>5. CASE k > n
  BY <1>1, <1>2, <1>5
<1>6. CASE k <= n
  <2>1. n + 1 - k \in Nat /\ n + 1 - k <= n /\ n + 1 - (n + 1 - k) = k
    BY <1>1, <1>6
  <2> HIDE DEF n
  <2> QED BY <1>4, <2>1
<1> QED BY <1>1, <1>5, <1>6

-----------------------------------------------------------------------------
(* The loops of the parser.                                                *)

\* f is the function of a loop over positions that stops somewhere.
Walks(stop, result, next, f) ==
    f = [p \in Nat |-> IF p \in stop THEN result[p] ELSE f[next[p]]]

\* A loop over positions that only goes forward, and stops behind some bound,
\* computes a function: the one its recursion defines.
LEMMA WalkExists ==
    ASSUME NEW stop, NEW result, NEW next, NEW bound \in Nat,
           \A p \in Nat : p > bound => p \in stop,
           \A p \in Nat : p \notin stop => next[p] \in Nat /\ next[p] > p
    PROVE  \E f : Walks(stop, result, next, f)
<1> DEFINE At(g, p) == g[p] = IF p \in stop THEN result[p] ELSE g[next[p]]
           Good == {k \in Nat : \E g : \A p \in Nat : p + k > bound => At(g, p)}
<1>1. 0 \in Good
  <2> DEFINE g == [p \in Nat |-> result[p]]
  <2>1. \A p \in Nat : p + 0 > bound => At(g, p)
    OBVIOUS
  <2> HIDE DEF At, g
  <2> QED BY <2>1
<1>2. ASSUME NEW k \in Nat, k \in Good PROVE k + 1 \in Good
  <2>1. PICK g : \A p \in Nat : p + k > bound => At(g, p)
    BY <1>2
  <2>2. CASE k > bound
    <3>1. \A p \in Nat : p + (k + 1) > bound => p + k > bound
      BY <2>2
    <3> HIDE DEF At
    <3> QED BY <2>1, <3>1
  <2>3. CASE k <= bound
    <3> DEFINE q == bound - k
               h == [p \in Nat |-> IF p = q THEN (IF q \in stop THEN result[q] ELSE g[next[q]])
                                   ELSE g[p]]
    <3>1. q \in Nat
      BY <2>3
    <3>2. ASSUME NEW p \in Nat, p + (k + 1) > bound PROVE At(h, p)
      <4>1. CASE p = q
        <5>1. h[p] = IF p \in stop THEN result[p] ELSE g[next[p]]
          BY <3>1, <4>1
        <5>2. p \notin stop => h[next[p]] = g[next[p]]
          BY <4>1
        <5> HIDE DEF h
        <5> QED BY <5>1, <5>2
      <4>2. CASE p # q
        <5>1. p > q /\ p + k > bound
          BY <3>2, <4>2, <2>3
        <5>2. h[p] = g[p]
          BY <4>2
        <5>3. p \notin stop => next[p] \in Nat /\ next[p] # q
          BY <5>1, <3>1
        <5>4. p \notin stop => h[next[p]] = g[next[p]]
          BY <5>3
        <5>5. At(g, p)
          BY <2>1, <5>1
        <5> HIDE DEF h
        <5> QED BY <5>2, <5>4, <5>5
      <4> QED BY <4>1, <4>2
    <3> HIDE DEF At, h
    <3> QED BY <3>2
  <2> QED BY <2>2, <2>3
<1>3. bound + 1 \in Good
  <2> HIDE DEF Good
  <2>1. Nat \subseteq Good
    BY <1>1, <1>2, Reads!CountingUp
  <2> QED BY <2>1
<1>4. PICK g : \A p \in Nat : p + (bound + 1) > bound => At(g, p)
  BY <1>3
<1> DEFINE f == [p \in Nat |-> g[p]]
<1>5. ASSUME NEW p \in Nat PROVE f[p] = IF p \in stop THEN result[p] ELSE f[next[p]]
  BY <1>4
<1>6. f = [p \in Nat |-> f[p]]
  OBVIOUS
<1> HIDE DEF f
<1>7. f = [p \in Nat |-> IF p \in stop THEN result[p] ELSE f[next[p]]]
  BY <1>5, <1>6
<1>8. Walks(stop, result, next, f)
  <2> HIDE DEF f
  <2> QED BY <1>7 DEF Walks
<1> QED BY <1>8

\* A field ends behind its length and within its container, or nowhere.
LEMMA BehindIs ==
    ASSUME NEW data \in Seq(Byte), NEW pos \in Nat, NEW width \in 1..3, NEW end \in Nat,
           end <= Len(data)
    PROVE  \/ Behind(data, pos, width, end) = Lost
           \/ /\ Behind(data, pos, width, end) \in Nat
              /\ pos + width <= Behind(data, pos, width, end)
              /\ Behind(data, pos, width, end) <= end
<1>1. pos # Lost /\ pos + width # Lost
  BY DEF Lost
<1>2. CASE pos + width > end
  BY <1>1, <1>2 DEF Behind, Past
<1>3. CASE pos + width <= end
  <2>1. Number(data, pos, width) \in Nat
    BY <1>3, NumberIs
  <2> DEFINE n == Number(data, pos, width)
  <2>2. Behind(data, pos, width, end) = IF pos + width + n > end THEN Lost ELSE pos + width + n
    <3>1. Past(pos, width, end) = pos + width
      BY <1>1, <1>3 DEF Past
    <3>2. Behind(data, pos, width, end) = Past(pos + width, n, end)
      BY <1>1, <3>1 DEF Behind
    <3> HIDE DEF n
    <3> QED BY <1>1, <3>2 DEF Past
  <2> HIDE DEF n
  <2> QED BY <2>1, <2>2 DEF n
<1> QED BY <1>2, <1>3

\* One round of the loop over the names of a list.
LEMMA HostNameStep ==
    ASSUME NEW data \in Seq(Byte), NEW end \in Nat, end <= Len(data), NEW pos \in Nat
    PROVE  HostName(data, pos, end)
             = IF pos + 3 > end THEN Only("NoSni")
               ELSE IF Behind(data, pos + 1, 2, end) = Lost THEN Only("Malformed")
               ELSE IF data[pos + 1] = HOST_NAME
               THEN Answer("Found", SubSeq(data, pos + 4, Behind(data, pos + 1, 2, end)))
               ELSE HostName(data, Behind(data, pos + 1, 2, end), end)
<1> DEFINE next(p) == Behind(data, p + 1, 2, end)
           stop == {p \in Nat : p + 3 > end \/ next(p) = Lost \/ data[p + 1] = HOST_NAME}
           result == [p \in Nat |-> IF p + 3 > end THEN Only("NoSni")
                                    ELSE IF next(p) = Lost THEN Only("Malformed")
                                    ELSE Answer("Found", SubSeq(data, p + 4, next(p)))]
           step == [p \in Nat |-> next(p)]
           Round(f, p) == IF p + 3 > end THEN Only("NoSni")
                          ELSE IF next(p) = Lost THEN Only("Malformed")
                          ELSE IF data[p + 1] = HOST_NAME
                          THEN Answer("Found", SubSeq(data, p + 4, next(p)))
                          ELSE f[next(p)]
           from == CHOOSE f : f = [p \in Nat |-> Round(f, p)]
<1>1. ASSUME NEW p \in Nat PROVE HostName(data, p, end) = from[p]
  BY DEF HostName
<1>2. \A p \in Nat : p > end => p \in stop
  OBVIOUS
<1>3. ASSUME NEW p \in Nat, p \notin stop PROVE next(p) \in Nat /\ next(p) > p
  <2>1. next(p) # Lost
    BY <1>3
  <2>2. p + 1 \in Nat /\ 2 \in 1..3
    OBVIOUS
  <2>3. next(p) = Lost \/ (next(p) \in Nat /\ p + 1 + 2 <= next(p))
    BY <2>2, BehindIs
  <2> HIDE DEF next
  <2> QED BY <2>1, <2>3
<1>4. \E f : Walks(stop, result, step, f)
  <2>1. \A p \in Nat : p \notin stop => step[p] \in Nat /\ step[p] > p
    <3> HIDE DEF stop, next
    <3> QED BY <1>3
  <2> HIDE DEF stop, result, step
  <2> QED BY <1>2, <2>1, WalkExists
<1>5. ASSUME NEW f, NEW p \in Nat
      PROVE  (IF p \in stop THEN result[p] ELSE f[step[p]]) = Round(f, p)
  <2>1. step[p] = next(p)
    OBVIOUS
  <2>2. p \in stop <=> p + 3 > end \/ next(p) = Lost \/ data[p + 1] = HOST_NAME
    OBVIOUS
  <2>3. result[p] = IF p + 3 > end THEN Only("NoSni")
                    ELSE IF next(p) = Lost THEN Only("Malformed")
                    ELSE Answer("Found", SubSeq(data, p + 4, next(p)))
    OBVIOUS
  <2> HIDE DEF step, stop, result, next
  <2> QED BY <2>1, <2>2, <2>3
<1>6. \E f : f = [p \in Nat |-> Round(f, p)]
  <2>1. PICK f : f = [p \in Nat |-> IF p \in stop THEN result[p] ELSE f[step[p]]]
    <3> HIDE DEF stop, result, step
    <3> QED BY <1>4 DEF Walks
  <2> HIDE DEF stop, result, step, Round
  <2>2. f = [p \in Nat |-> Round(f, p)]
    BY <1>5, <2>1
  <2> QED BY <2>2
<1>7. \A p \in Nat : from[p] = Round(from, p)
  <2> HIDE DEF Round
  <2>1. from = [p \in Nat |-> Round(from, p)]
    BY <1>6
  <2> HIDE DEF from
  <2> QED BY <2>1
<1>8. CASE pos \in stop
  <2>1. pos + 3 > end \/ next(pos) = Lost \/ data[pos + 1] = HOST_NAME
    <3> HIDE DEF next
    <3> QED BY <1>8
  <2>2. HostName(data, pos, end) = from[pos] /\ from[pos] = Round(from, pos)
    <3> HIDE DEF from, Round
    <3> QED BY <1>1, <1>7
  <2> HIDE DEF from, stop, next
  <2>3. HostName(data, pos, end)
             = IF pos + 3 > end THEN Only("NoSni")
               ELSE IF next(pos) = Lost THEN Only("Malformed")
               ELSE Answer("Found", SubSeq(data, pos + 4, next(pos)))
    BY <2>1, <2>2
  <2> QED BY <2>1, <2>3 DEF next
<1>9. CASE pos \notin stop
  <2>1. next(pos) \in Nat
    BY <1>3, <1>9
  <2>2. HostName(data, next(pos), end) = from[next(pos)]
    <3> HIDE DEF from, next
    <3> QED BY <1>1, <2>1
  <2>3. HostName(data, pos, end) = from[pos] /\ from[pos] = Round(from, pos)
    <3> HIDE DEF from, Round
    <3> QED BY <1>1, <1>7
  <2> HIDE DEF from, stop, next
  <2>4. HostName(data, pos, end)
             = IF pos + 3 > end THEN Only("NoSni")
               ELSE IF next(pos) = Lost THEN Only("Malformed")
               ELSE IF data[pos + 1] = HOST_NAME
               THEN Answer("Found", SubSeq(data, pos + 4, next(pos)))
               ELSE HostName(data, next(pos), end)
    BY <2>2, <2>3
  <2> QED BY <2>4 DEF next
<1> QED BY <1>8, <1>9

\* The loop over names ends without one.
LEMMA HostNameEnds ==
    ASSUME NEW data \in Seq(Byte), NEW end \in Nat, end <= Len(data), NEW pos \in Nat, pos + 3 > end
    PROVE  HostName(data, pos, end) = Only("NoSni")
BY HostNameStep

\* The loop over names meets a length that does not fit.
LEMMA HostNameFails ==
    ASSUME NEW data \in Seq(Byte), NEW end \in Nat, end <= Len(data), NEW pos \in Nat,
           pos + 3 <= end, Behind(data, pos + 1, 2, end) = Lost
    PROVE  HostName(data, pos, end) = Only("Malformed")
<1>1. ~(pos + 3 > end)
  OBVIOUS
<1> QED BY <1>1, HostNameStep

\* The loop over names meets a name that fits.
LEMMA HostNameGoesOn ==
    ASSUME NEW data \in Seq(Byte), NEW end \in Nat, end <= Len(data), NEW pos \in Nat,
           pos + 3 <= end, NEW next, Behind(data, pos + 1, 2, end) = next, next # Lost
    PROVE  HostName(data, pos, end)
             = IF data[pos + 1] = HOST_NAME THEN Answer("Found", SubSeq(data, pos + 4, next))
               ELSE HostName(data, next, end)
<1>1. ~(pos + 3 > end)
  OBVIOUS
<1>2. HostName(data, pos, end)
        = IF pos + 3 > end THEN Only("NoSni")
          ELSE IF Behind(data, pos + 1, 2, end) = Lost THEN Only("Malformed")
          ELSE IF data[pos + 1] = HOST_NAME
          THEN Answer("Found", SubSeq(data, pos + 4, Behind(data, pos + 1, 2, end)))
          ELSE HostName(data, Behind(data, pos + 1, 2, end), end)
  BY HostNameStep
<1> QED BY <1>1, <1>2

\* One round of the loop over the extensions.
LEMMA ExtensionsStep ==
    ASSUME NEW data \in Seq(Byte), NEW end \in Nat, end <= Len(data), NEW pos \in Nat
    PROVE  Extensions(data, pos, end)
             = IF pos + 4 > end THEN Only("NoSni")
               ELSE IF Behind(data, pos + 2, 2, end) = Lost THEN Only("Malformed")
               ELSE IF Number(data, pos, 2) = SERVER_NAME
               THEN ServerNameList(data, pos + 4, Behind(data, pos + 2, 2, end))
               ELSE Extensions(data, Behind(data, pos + 2, 2, end), end)
<1> DEFINE next(p) == Behind(data, p + 2, 2, end)
           stop == {p \in Nat : p + 4 > end \/ next(p) = Lost \/ Number(data, p, 2) = SERVER_NAME}
           result == [p \in Nat |-> IF p + 4 > end THEN Only("NoSni")
                                    ELSE IF next(p) = Lost THEN Only("Malformed")
                                    ELSE ServerNameList(data, p + 4, next(p))]
           step == [p \in Nat |-> next(p)]
           Round(f, p) == IF p + 4 > end THEN Only("NoSni")
                          ELSE IF next(p) = Lost THEN Only("Malformed")
                          ELSE IF Number(data, p, 2) = SERVER_NAME
                          THEN ServerNameList(data, p + 4, next(p))
                          ELSE f[next(p)]
           from == CHOOSE f : f = [p \in Nat |-> Round(f, p)]
<1>1. ASSUME NEW p \in Nat PROVE Extensions(data, p, end) = from[p]
  BY DEF Extensions
<1>2. \A p \in Nat : p > end => p \in stop
  OBVIOUS
<1>3. ASSUME NEW p \in Nat, p \notin stop PROVE next(p) \in Nat /\ next(p) > p
  <2>1. next(p) # Lost
    BY <1>3
  <2>2. p + 2 \in Nat /\ 2 \in 1..3
    OBVIOUS
  <2>3. next(p) = Lost \/ (next(p) \in Nat /\ p + 2 + 2 <= next(p))
    BY <2>2, BehindIs
  <2> HIDE DEF next
  <2> QED BY <2>1, <2>3
<1>4. \E f : Walks(stop, result, step, f)
  <2>1. \A p \in Nat : p \notin stop => step[p] \in Nat /\ step[p] > p
    <3> HIDE DEF stop, next
    <3> QED BY <1>3
  <2> HIDE DEF stop, result, step
  <2> QED BY <1>2, <2>1, WalkExists
<1>5. ASSUME NEW f, NEW p \in Nat
      PROVE  (IF p \in stop THEN result[p] ELSE f[step[p]]) = Round(f, p)
  <2>1. step[p] = next(p)
    OBVIOUS
  <2>2. p \in stop <=> p + 4 > end \/ next(p) = Lost \/ Number(data, p, 2) = SERVER_NAME
    OBVIOUS
  <2>3. result[p] = IF p + 4 > end THEN Only("NoSni")
                    ELSE IF next(p) = Lost THEN Only("Malformed")
                    ELSE ServerNameList(data, p + 4, next(p))
    OBVIOUS
  <2> HIDE DEF step, stop, result, next
  <2> QED BY <2>1, <2>2, <2>3
<1>6. \E f : f = [p \in Nat |-> Round(f, p)]
  <2>1. PICK f : f = [p \in Nat |-> IF p \in stop THEN result[p] ELSE f[step[p]]]
    <3> HIDE DEF stop, result, step
    <3> QED BY <1>4 DEF Walks
  <2> HIDE DEF stop, result, step, Round
  <2>2. f = [p \in Nat |-> Round(f, p)]
    BY <1>5, <2>1
  <2> QED BY <2>2
<1>7. \A p \in Nat : from[p] = Round(from, p)
  <2> HIDE DEF Round
  <2>1. from = [p \in Nat |-> Round(from, p)]
    BY <1>6
  <2> HIDE DEF from
  <2> QED BY <2>1
<1>8. CASE pos \in stop
  <2>1. pos + 4 > end \/ next(pos) = Lost \/ Number(data, pos, 2) = SERVER_NAME
    <3> HIDE DEF next
    <3> QED BY <1>8
  <2>2. Extensions(data, pos, end) = from[pos] /\ from[pos] = Round(from, pos)
    <3> HIDE DEF from, Round
    <3> QED BY <1>1, <1>7
  <2> HIDE DEF from, stop, next
  <2>3. Extensions(data, pos, end)
             = IF pos + 4 > end THEN Only("NoSni")
               ELSE IF next(pos) = Lost THEN Only("Malformed")
               ELSE ServerNameList(data, pos + 4, next(pos))
    BY <2>1, <2>2
  <2> QED BY <2>1, <2>3 DEF next
<1>9. CASE pos \notin stop
  <2>1. next(pos) \in Nat
    BY <1>3, <1>9
  <2>2. Extensions(data, next(pos), end) = from[next(pos)]
    <3> HIDE DEF from, next
    <3> QED BY <1>1, <2>1
  <2>3. Extensions(data, pos, end) = from[pos] /\ from[pos] = Round(from, pos)
    <3> HIDE DEF from, Round
    <3> QED BY <1>1, <1>7
  <2> HIDE DEF from, stop, next
  <2>4. Extensions(data, pos, end)
             = IF pos + 4 > end THEN Only("NoSni")
               ELSE IF next(pos) = Lost THEN Only("Malformed")
               ELSE IF Number(data, pos, 2) = SERVER_NAME
               THEN ServerNameList(data, pos + 4, next(pos))
               ELSE Extensions(data, next(pos), end)
    BY <2>2, <2>3
  <2> QED BY <2>4 DEF next
<1> QED BY <1>8, <1>9

\* The loop over extensions ends without a list of names.
LEMMA ExtensionsEnd ==
    ASSUME NEW data \in Seq(Byte), NEW end \in Nat, end <= Len(data), NEW pos \in Nat, pos + 4 > end
    PROVE  Extensions(data, pos, end) = Only("NoSni")
BY ExtensionsStep

\* The loop over extensions meets a length that does not fit.
LEMMA ExtensionsFail ==
    ASSUME NEW data \in Seq(Byte), NEW end \in Nat, end <= Len(data), NEW pos \in Nat,
           pos + 4 <= end, Behind(data, pos + 2, 2, end) = Lost
    PROVE  Extensions(data, pos, end) = Only("Malformed")
<1>1. ~(pos + 4 > end)
  OBVIOUS
<1> QED BY <1>1, ExtensionsStep

\* The loop over extensions meets one that fits.
LEMMA ExtensionsGoOn ==
    ASSUME NEW data \in Seq(Byte), NEW end \in Nat, end <= Len(data), NEW pos \in Nat,
           pos + 4 <= end, NEW next, Behind(data, pos + 2, 2, end) = next, next # Lost
    PROVE  Extensions(data, pos, end)
             = IF Number(data, pos, 2) = SERVER_NAME THEN ServerNameList(data, pos + 4, next)
               ELSE Extensions(data, next, end)
<1>1. ~(pos + 4 > end)
  OBVIOUS
<1>2. Extensions(data, pos, end)
        = IF pos + 4 > end THEN Only("NoSni")
          ELSE IF Behind(data, pos + 2, 2, end) = Lost THEN Only("Malformed")
          ELSE IF Number(data, pos, 2) = SERVER_NAME
          THEN ServerNameList(data, pos + 4, Behind(data, pos + 2, 2, end))
          ELSE Extensions(data, Behind(data, pos + 2, 2, end), end)
  BY ExtensionsStep
<1> QED BY <1>1, <1>2

-----------------------------------------------------------------------------
(* What was written of a list of names is read.                            *)

\* The list at pos from its k-th name on, and nothing behind it.
NamesAt(data, pos, names, fault, k, end) ==
    /\ names \in Seq(NameEntry) /\ data \in Seq(Byte) /\ pos \in Nat /\ end \in Nat
    /\ Holds(data, pos, NamesTail(names, fault, k), end)
    /\ end = pos + Len(NamesTail(names, fault, k))
    /\ Len(NamesTail(names, fault, k)) < 65536
    /\ end <= Len(data)

\* What one round of the loop makes of it.
NameIsRead(data, pos, names, fault, k, end) ==
    /\ pos + 3 <= end
    /\ data[pos + 1] = names[k].type
    /\ fault = "name" /\ k = 1 => Behind(data, pos + 1, 2, end) = Lost
    /\ ~(fault = "name" /\ k = 1) =>
         /\ Behind(data, pos + 1, 2, end) = pos + 3 + Len(names[k].name)
         /\ SubSeq(data, pos + 4, pos + 3 + Len(names[k].name)) = names[k].name
         /\ NamesAt(data, pos + 3 + Len(names[k].name), names, fault, k + 1, end)

\* One round reads one name.
LEMMA NameRead ==
    ASSUME NEW names, NEW fault, NEW k \in 1..Len(names), NEW data, NEW pos, NEW end,
           NamesAt(data, pos, names, fault, k, end)
    PROVE  NameIsRead(data, pos, names, fault, k, end)
<1>0. names \in Seq(NameEntry) /\ data \in Seq(Byte) /\ pos \in Nat /\ end \in Nat
  BY DEF NamesAt
<1> DEFINE t == NamesTail(names, fault, k)
           u == NamesTail(names, fault, k + 1)
           false == fault = "name" /\ k = 1
           name == names[k].name
           f == Field(2, name, u, false)
<1>1. names[k].type \in Byte /\ name \in Seq(Byte)
  <2>1. names[k] \in NameEntry
    BY <1>0
  <2> QED BY <2>1 DEF NameEntry
<1>2. u \in Seq(Byte)
  <2>1. k + 1 \in 1..(Len(names) + 1)
    BY <1>0
  <2> QED BY <1>0, <2>1, NamesTailIs DEF NamesTailFits
<1>3. t = <<names[k].type>> \o f
  BY <1>0, NamesTailStep
<1>4. false \in BOOLEAN /\ 2 \in 1..3
  OBVIOUS
<1>5. Holds(data, pos, t, end) /\ end = pos + Len(t) /\ Len(t) < 65536 /\ end <= Len(data)
  BY DEF NamesAt
<1> HIDE DEF t, u, false, name
<1>6. f \in Seq(Byte) /\ Len(f) = 2 + Len(name) + Len(u) /\ Written(name, u, false) \in Nat
  BY <1>1, <1>2, <1>4, FieldIs
<1> HIDE DEF f
<1>7. Len(name) \in Nat /\ Len(u) \in Nat
  BY <1>1, <1>2
<1>8. (pos + 1 <= end => data[pos + 1] = names[k].type) /\ Holds(data, pos + 1, f, end)
  <2>1. Holds(data, pos, <<names[k].type>> \o f, end)
    BY <1>3, <1>5
  <2>2. names[k].type \in Byte /\ f \in Seq(Byte)
    BY <1>1, <1>6
  <2> QED BY ONLY <1>0, <2>1, <2>2, HoldsPrefixed
<1>9. Len(t) = 3 + Len(name) + Len(u)
  <2>1. names[k].type \in Byte /\ f \in Seq(Byte)
    BY <1>1, <1>6
  <2>2. Len(<<names[k].type>> \o f) = 1 + Len(f)
    BY ONLY <2>1, Prefixed
  <2>3. Len(t) = 1 + Len(f)
    BY <1>3, <2>2
  <2> QED BY <1>6, <1>7, <2>3
<1>10. pos + 3 <= end /\ data[pos + 1] = names[k].type
  <2>1. pos + 3 <= end /\ pos + 1 <= end
    BY <1>0, <1>5, <1>7, <1>9
  <2> QED BY <1>8, <2>1
<1>11. Written(name, u, false) < 65536
  BY <1>4, <1>5, <1>7, <1>9 DEF Written
<1>12. FieldAt(data, pos + 1, 2, name, u, false, end)
  <2>1. Fits(Written(name, u, false), 2)
    BY <1>11 DEF Fits
  <2>2. end <= pos + 1 + 2 + Len(name) + Len(u) /\ pos + 1 \in Nat
    BY <1>0, <1>5, <1>7, <1>9
  <2>3. Holds(data, pos + 1, Field(2, name, u, false), end)
    BY <1>8 DEF f
  <2> QED BY <1>0, <1>1, <1>2, <1>4, <1>5, <2>1, <2>2, <2>3 DEF FieldAt
<1> DEFINE next == pos + 3 + Len(name)
<1>13. /\ pos + 1 + 2 + Len(name) = next /\ pos + 1 + 2 + 1 = pos + 4 /\ next <= end
       /\ end = next + Len(u) /\ Len(u) < 65536 /\ end <= Len(data)
  BY <1>0, <1>5, <1>7, <1>9
<1> HIDE DEF next
<1>14. /\ false => Behind(data, pos + 1, 2, end) = Lost
       /\ ~false => Behind(data, pos + 1, 2, end) = next /\ SubSeq(data, pos + 4, next) = name
       /\ Holds(data, next, u, end)
  <2> DEFINE at == pos + 1
  <2>1. FieldAt(data, at, 2, name, u, false, end)
    BY <1>12
  <2> HIDE DEF at
  <2>2. /\ false \/ at + 2 + Len(name) > end => Behind(data, at, 2, end) = Lost
        /\ ~false /\ at + 2 + Len(name) <= end
             => /\ Behind(data, at, 2, end) = at + 2 + Len(name)
                /\ SubSeq(data, at + 2 + 1, at + 2 + Len(name)) = name
        /\ Holds(data, at + 2 + Len(name), u, end)
    BY ONLY <2>1, BehindField
  <2>3. at + 2 + Len(name) = next /\ at + 2 + 1 = pos + 4 /\ at = pos + 1
    BY <1>13 DEF at
  <2> QED BY <1>13, <2>2, <2>3
<1>15. NamesAt(data, next, names, fault, k + 1, end)
  <2>1. next \in Nat
    BY <1>0, <1>7 DEF next
  <2> QED BY <1>0, <1>13, <1>14, <2>1 DEF NamesAt, u
<1> QED BY <1>10, <1>14, <1>15 DEF false, name, next, NameIsRead

\* The host names from the k-th name on, and what the first of them means.
Hosting(names, k) == {i \in k..Len(names) : names[i].type = HOST_NAME}

MeantFrom(names, k) ==
    IF Hosting(names, k) = {} THEN Only("NoSni") ELSE Answer("Found", names[Min(Hosting(names, k))].name)

\* A name is what is meant if it is a host name, and to be skipped if not.
LEMMA MeantFromStep ==
    ASSUME NEW S, NEW names \in Seq(S), NEW k \in 1..Len(names)
    PROVE  MeantFrom(names, k)
             = IF names[k].type = HOST_NAME THEN Answer("Found", names[k].name)
               ELSE MeantFrom(names, k + 1)
<1>1. k \in Nat /\ Len(names) \in Nat /\ k \in k..Len(names)
  OBVIOUS
<1>2. CASE names[k].type = HOST_NAME
  <2> DEFINE H == Hosting(names, k)
  <2>1. k \in H /\ H \subseteq Nat /\ \A y \in H : k <= y
    BY <1>1, <1>2 DEF Hosting
  <2> HIDE DEF H
  <2>2. Min(H) \in H /\ Min(H) <= k
    BY <2>1, LeastNumber
  <2>3. Min(H) \in Nat /\ k <= Min(H)
    BY <2>1, <2>2
  <2>4. Min(H) = k /\ H # {}
    BY <1>1, <2>1, <2>2, <2>3
  <2> QED BY <1>2, <2>4 DEF MeantFrom, H
<1>3. CASE names[k].type # HOST_NAME
  <2>1. Hosting(names, k) = Hosting(names, k + 1)
    BY <1>1, <1>3 DEF Hosting
  <2> QED BY <1>3, <2>1 DEF MeantFrom
<1> QED BY <1>2, <1>3

\* Behind the last name nothing is meant.
LEMMA MeantFromEnd ==
    ASSUME NEW names, NEW k \in Nat, Len(names) \in Nat, k > Len(names)
    PROVE  MeantFrom(names, k) = Only("NoSni")
<1>1. Hosting(names, k) = {}
  BY DEF Hosting
<1> QED BY <1>1 DEF MeantFrom

\* From the first name on, it is what the list means.
LEMMA MeantFromFirst ==
    ASSUME NEW S, NEW names \in Seq(S)
    PROVE  MeantByNames(names) = MeantFrom(names, 1)
<1> DEFINE H == Hosting(names, 1)
<1>1. HostAt(names) = IF H # {} THEN Min(H) ELSE 0
  BY DEF HostAt, SelectInSeq, Hosting
<1>2. H \subseteq Nat /\ 0 \notin H
  BY DEF Hosting
<1>3. H # {} => Min(H) \in H
  <2> HIDE DEF H
  <2> QED BY <1>2, LeastNumber
<1> HIDE DEF H
<1>4. CASE H = {}
  BY <1>1, <1>4 DEF MeantByNames, MeantFrom, H
<1>5. CASE H # {}
  <2>1. HostAt(names) = Min(H) /\ HostAt(names) # 0
    BY <1>1, <1>2, <1>3, <1>5
  <2> QED BY <1>5, <2>1 DEF MeantByNames, MeantFrom, H
<1> QED BY <1>4, <1>5

\* The rest of a list says what it means, once the false length is behind.
LEMMA NamesTailRead ==
    ASSUME NEW names \in Seq(NameEntry), NEW fault, NEW data \in Seq(Byte), NEW end \in Nat,
           NEW k \in 1..(Len(names) + 1), NEW pos \in Nat,
           NamesAt(data, pos, names, fault, k, end), fault = "name" => k > 1
    PROVE  HostName(data, pos, end) = MeantFrom(names, k)
<1> DEFINE n == Len(names)
           Read(j) == \A p \in Nat : NamesAt(data, p, names, fault, j, end) /\ (fault = "name" => j > 1)
                                       => HostName(data, p, end) = MeantFrom(names, j)
           Good == {m \in Nat : m <= n => Read(n + 1 - m)}
<1>1. n \in Nat
  OBVIOUS
<1>2. ASSUME NEW j \in 1..(n + 1), j > n PROVE Read(j)
  <2> SUFFICES ASSUME NEW p \in Nat, NamesAt(data, p, names, fault, j, end)
               PROVE  HostName(data, p, end) = MeantFrom(names, j)
    OBVIOUS
  <2>1. Len(NamesTail(names, fault, j)) = 2
    BY <1>1, <1>2, NamesTailIs DEF NamesTailFits
  <2>2. end = p + 2 /\ end <= Len(data)
    BY <2>1 DEF NamesAt
  <2>3. HostName(data, p, end) = Only("NoSni")
    <3>1. p + 3 > end
      BY <2>2
    <3> QED BY ONLY <2>2, <3>1, data \in Seq(Byte), end \in Nat, p \in Nat, HostNameEnds
  <2>4. MeantFrom(names, j) = Only("NoSni")
    BY <1>1, <1>2, MeantFromEnd
  <2> QED BY <2>3, <2>4
<1>3. ASSUME NEW j \in 1..n, Read(j + 1) PROVE Read(j)
  <2> SUFFICES ASSUME NEW p \in Nat, NamesAt(data, p, names, fault, j, end), fault = "name" => j > 1
               PROVE  HostName(data, p, end) = MeantFrom(names, j)
    OBVIOUS
  <2> DEFINE next == p + 3 + Len(names[j].name)
  <2>1. /\ p + 3 <= end /\ end <= Len(data)
        /\ data[p + 1] = names[j].type
        /\ Behind(data, p + 1, 2, end) = next
        /\ SubSeq(data, p + 4, next) = names[j].name
        /\ NamesAt(data, next, names, fault, j + 1, end)
    <3>1. end <= Len(data)
      BY DEF NamesAt
    <3>2. ~(fault = "name" /\ j = 1)
      BY <1>1
    <3>3. NameIsRead(data, p, names, fault, j, end)
      BY NameRead
    <3> QED BY <3>1, <3>2, <3>3 DEF NameIsRead
  <2>2. next \in Nat /\ next # Lost
    <3>1. names[j].name \in Seq(Byte)
      <4>1. names[j] \in NameEntry
        OBVIOUS
      <4> QED BY <4>1 DEF NameEntry
    <3> DEFINE l == Len(names[j].name)
    <3>2. l \in Nat
      BY <3>1
    <3> HIDE DEF l
    <3>3. p + 3 + l \in Nat /\ p + 3 + l # Lost
      BY ONLY <3>2, p \in Nat DEF Lost
    <3> QED BY <3>3 DEF l
  <2> HIDE DEF next
  <2>3. HostName(data, p, end) = IF names[j].type = HOST_NAME THEN Answer("Found", names[j].name)
                                 ELSE HostName(data, next, end)
    <3>1. HostName(data, p, end)
            = IF data[p + 1] = HOST_NAME THEN Answer("Found", SubSeq(data, p + 4, next))
              ELSE HostName(data, next, end)
      BY ONLY <2>1, <2>2, data \in Seq(Byte), end \in Nat, p \in Nat, HostNameGoesOn
    <3> QED BY <2>1, <3>1
  <2>4. HostName(data, next, end) = MeantFrom(names, j + 1)
    <3>1. fault = "name" => j + 1 > 1
      BY <1>1
    <3> QED BY <1>3, <2>1, <2>2, <3>1
  <2> QED BY <2>3, <2>4, MeantFromStep
<1>4. Nat \subseteq Good
  <2>1. 0 \in Good
    <3>1. n + 1 - 0 \in 1..(n + 1) /\ n + 1 - 0 > n
      BY <1>1
    <3> HIDE DEF n, Read
    <3> QED BY <1>2, <3>1
  <2>2. ASSUME NEW m \in Nat, m \in Good PROVE m + 1 \in Good
    <3> SUFFICES ASSUME m + 1 <= n PROVE Read(n + 1 - (m + 1))
      OBVIOUS
    <3>1. n + 1 - (m + 1) \in 1..n /\ (n + 1 - (m + 1)) + 1 = n + 1 - m /\ m <= n
      BY <1>1
    <3> HIDE DEF n, Read
    <3>2. Read(n + 1 - m)
      BY <2>2, <3>1
    <3> QED BY <1>3, <3>1, <3>2
  <2> HIDE DEF Good
  <2> QED BY <2>1, <2>2, Writes!CountingUp
<1>5. Read(k)
  <2>1. CASE k > n
    <3> HIDE DEF Read
    <3> QED BY <1>2, <2>1
  <2>2. CASE k <= n
    <3>1. n + 1 - k \in Nat /\ n + 1 - k <= n /\ n + 1 - (n + 1 - k) = k
      BY <1>1, <2>2
    <3> HIDE DEF n, Read
    <3> QED BY <1>4, <3>1
  <2> QED BY <1>1, <2>1, <2>2
<1> QED BY <1>5

\* Between pos and end there are the bytes of s.
Filled(data, pos, s, end) ==
    /\ data \in Seq(Byte) /\ pos \in Nat /\ s \in Seq(Byte)
    /\ end = pos + Len(s) /\ end <= Len(data)
    /\ Holds(data, pos, s, end)

\* What is to be said of a list with a fault or none.
NamesSay(names, fault) ==
    IF fault = "name" /\ names # <<>> THEN Only("Malformed") ELSE MeantByNames(names)

\* A list is bytes.
LEMMA NamesFromBytes ==
    ASSUME NEW names \in Seq(NameEntry), NEW fault
    PROVE  NamesFrom(names, fault) \in Seq(Byte)
<1>1. 1 \in 1..(Len(names) + 1)
  OBVIOUS
<1>2. NamesTailFits(names, fault, 1)
  BY <1>1, NamesTailIs
<1> QED BY <1>2, NamesFromIs DEF NamesTailFits

\* A list says what it means, unless the length of its first name is false.
LEMMA NamesRead ==
    ASSUME NEW names \in Seq(NameEntry), NEW fault, NEW data, NEW pos, NEW end,
           Filled(data, pos, NamesFrom(names, fault), end), Len(NamesFrom(names, fault)) < 65536
    PROVE  HostName(data, pos, end) = NamesSay(names, fault)
<1> DEFINE t == NamesTail(names, fault, 1)
<1>0. data \in Seq(Byte) /\ pos \in Nat
  BY DEF Filled
<1>1. NamesFrom(names, fault) = t
  BY NamesFromIs
<1>2. Len(names) \in Nat /\ 1 \in 1..(Len(names) + 1)
  OBVIOUS
<1>3. t \in Seq(Byte)
  <2>1. NamesTailFits(names, fault, 1)
    BY <1>2, NamesTailIs
  <2> QED BY <2>1 DEF NamesTailFits
<1>4. end \in Nat /\ NamesAt(data, pos, names, fault, 1, end) /\ end = pos + Len(t) /\ end <= Len(data)
  <2>1. end \in Nat /\ end = pos + Len(t) /\ end <= Len(data)
    BY <1>0, <1>1, <1>3 DEF Filled
  <2> QED BY <1>0, <1>1, <2>1 DEF NamesAt, Filled
<1> HIDE DEF t
<1>5. CASE fault = "name" /\ names # <<>>
  <2>1. 1 \in 1..Len(names)
    BY <1>5
  <2>2. pos + 3 <= end /\ Behind(data, pos + 1, 2, end) = Lost
    <3>1. NameIsRead(data, pos, names, fault, 1, end)
      BY ONLY <1>4, <2>1, NameRead
    <3> QED BY <1>5, <3>1 DEF NameIsRead
  <2>3. HostName(data, pos, end) = Only("Malformed")
    BY ONLY <1>0, <1>4, <2>2, HostNameFails
  <2> QED BY <1>5, <2>3 DEF NamesSay
<1>6. CASE fault # "name"
  <2>1. HostName(data, pos, end) = MeantFrom(names, 1)
    BY <1>0, <1>2, <1>4, <1>6, NamesTailRead
  <2>2. MeantByNames(names) = MeantFrom(names, 1)
    BY MeantFromFirst
  <2> QED BY <1>6, <2>1, <2>2 DEF NamesSay
<1>7. CASE names = <<>>
  <2>0. 1 > Len(names)
    BY <1>7
  <2>1. Len(t) = 2
    <3>1. NamesTailFits(names, fault, 1)
      BY <1>2, NamesTailIs
    <3> QED BY <2>0, <3>1 DEF t, NamesTailFits
  <2>2. HostName(data, pos, end) = Only("NoSni")
    <3>1. pos + 3 > end
      BY <1>0, <1>4, <2>1
    <3> QED BY ONLY <1>0, <1>4, <3>1, HostNameEnds
  <2>3. MeantFrom(names, 1) = Only("NoSni")
    <3>1. \A k \in Nat : k > Len(names) => MeantFrom(names, k) = Only("NoSni")
      BY <1>2, MeantFromEnd
    <3> QED BY <2>0, <3>1
  <2>4. MeantByNames(names) = MeantFrom(names, 1)
    BY MeantFromFirst
  <2> QED BY <1>7, <2>2, <2>3, <2>4 DEF NamesSay
<1> QED BY <1>5, <1>6, <1>7

-----------------------------------------------------------------------------
(* The extensions: what is written from the k-th on.                       *)

ExtensionsTail(extensions, fault, k) ==
    Extends!Loop([extensions |-> extensions, fault |-> fault], <<9, 9, 9>>, k..Len(extensions))

\* Behind the last extension there are bytes too few for another one.
LEMMA ExtensionsTailEnd ==
    ASSUME NEW extensions, NEW fault, NEW k \in Nat, Len(extensions) \in Nat, k > Len(extensions)
    PROVE  ExtensionsTail(extensions, fault, k) = <<9, 9, 9>>
<1>1. k..Len(extensions) = {}
  OBVIOUS
<1> QED BY <1>1, Extends!LoopEmpty DEF ExtensionsTail

\* An extension is its type and a field, with the extensions behind it.
LEMMA ExtensionsTailStep ==
    ASSUME NEW S, NEW extensions \in Seq(S), NEW fault, NEW k \in 1..Len(extensions)
    PROVE  ExtensionsTail(extensions, fault, k)
             = BigEndian(extensions[k].type, 2)
               \o Field(2, Body(extensions[k], fault), ExtensionsTail(extensions, fault, k + 1),
                        fault = "extension" /\ k = 1)
<1> DEFINE n == Len(extensions)
           env == [extensions |-> extensions, fault |-> fault]
           more == Extends!Loop(env, <<9, 9, 9>>, (k + 1)..n)
<1>1. n \in Nat /\ k \in Nat /\ k <= n /\ k \in k..n /\ DOMAIN extensions = 1..n
  OBVIOUS
<1>2. Extends!PicksFrom(k..n) /\ Min(k..n) = k /\ (k..n) \ {k} = (k + 1)..n
  BY <1>1, MinPicks
<1>3. Extends!IsFiniteSet(k..n)
  <2>1. IsFiniteSet(k..n)
    BY <1>1, FS_Interval
  <2> QED BY <2>1 DEF Extends!IsFiniteSet, IsFiniteSet
<1>4. k..n # {}
  BY <1>1
<1>5. Extends!Loop(env, <<9, 9, 9>>, k..n) = Extending(env, k, more)
  <2> HIDE DEF env, n
  <2>1. Extends!Loop(env, <<9, 9, 9>>, k..n)
          = Extending(env, Min(k..n), Extends!Loop(env, <<9, 9, 9>>, (k..n) \ {Min(k..n)}))
    BY <1>2, <1>3, <1>4, Extends!LoopStep
  <2> QED BY <1>2, <2>1
<1>6. [i \in DOMAIN extensions |-> i][k] = k
  BY <1>1
<1> HIDE DEF more
<1>7. Extending(env, k, more)
        = BigEndian(extensions[k].type, 2)
          \o Field(2, Body(extensions[k], fault), more, fault = "extension" /\ k = 1)
  BY <1>6 DEF Extending
<1> QED BY <1>5, <1>7 DEF ExtensionsTail, more

\* The extensions are what is written from the first one on.
LEMMA ExtensionsFromIs ==
    ASSUME NEW S, NEW extensions \in Seq(S), NEW fault
    PROVE  ExtensionsFrom(extensions, fault) = ExtensionsTail(extensions, fault, 1)
<1>1. DOMAIN [i \in DOMAIN extensions |-> i] = 1..Len(extensions)
  OBVIOUS
<1>2. ExtensionsFrom(extensions, fault)
        = Extends!Loop([extensions |-> extensions, fault |-> fault], <<9, 9, 9>>,
                       DOMAIN [i \in DOMAIN extensions |-> i])
  BY DEF ExtensionsFrom, FoldRightDomain, FoldRight, MapThenFoldSet, Extends!Loop,
         Extends!MapThenFoldSet, Extending
<1> QED BY <1>1, <1>2 DEF ExtensionsTail

\* What an extension is made of.
LEMMA ExtensionIs ==
    ASSUME NEW e \in Extension, NEW fault
    PROVE  /\ e.type \in Nat /\ e.type < 65536
           /\ e.type = SERVER_NAME =>
                /\ e.names \in Seq(NameEntry)
                /\ Body(e, fault) = Field(2, NamesFrom(e.names, fault), <<>>, fault = "list")
           /\ Body(e, fault) \in Seq(Byte)
<1>1. \/ e.type = SERVER_NAME /\ e.names \in Seq(NameEntry)
      \/ e.type \in OtherType /\ e.body \in Seq(Byte)
  BY DEF Extension
<1>2. SERVER_NAME \in Nat /\ SERVER_NAME < 65536
  BY DEF SERVER_NAME
<1>3. CASE e.type = SERVER_NAME /\ e.names \in Seq(NameEntry)
  <2> DEFINE names == NamesFrom(e.names, fault)
             false == fault = "list"
  <2>1. Body(e, fault) = Field(2, names, <<>>, false)
    BY <1>3 DEF Body
  <2>2. names \in Seq(Byte) /\ <<>> \in Seq(Byte) /\ false \in BOOLEAN /\ 2 \in 1..3
    BY <1>3, NamesFromBytes
  <2> HIDE DEF names, false
  <2>3. Field(2, names, <<>>, false) \in Seq(Byte)
    BY <2>2, FieldIs
  <2> QED BY <1>2, <1>3, <2>1, <2>3 DEF names, false
<1>4. CASE e.type \in OtherType /\ e.body \in Seq(Byte)
  <2>1. e.type # SERVER_NAME /\ e.type \in Nat /\ e.type < 65536
    BY ONLY <1>4 DEF OtherType
  <2>2. Body(e, fault) = e.body
    BY ONLY <2>1 DEF Body
  <2> QED BY ONLY <1>4, <2>1, <2>2
<1> QED BY ONLY <1>1, <1>3, <1>4

\* The last field of a container ends where that ends, unless its length is false.
LEMMA LastField ==
    ASSUME NEW width \in 1..3, NEW body \in Seq(Byte), NEW false \in BOOLEAN,
           NEW data, NEW pos, NEW end,
           Filled(data, pos, Field(width, body, <<>>, false), end), Fits(Len(body) + 1, width)
    PROVE  /\ false => Behind(data, pos, width, end) = Lost
           /\ ~false => Behind(data, pos, width, end) = end
           /\ Filled(data, pos + width, body, end)
           /\ end = pos + width + Len(body)
<1> DEFINE f == Field(width, body, <<>>, false)
           rest == <<>>
<1>1. /\ data \in Seq(Byte) /\ pos \in Nat /\ f \in Seq(Byte)
      /\ end = pos + Len(f) /\ end <= Len(data)
      /\ Holds(data, pos, f, end)
  <2> HIDE DEF f
  <2> QED BY DEF Filled, f
<1>2. rest \in Seq(Byte) /\ Len(rest) = 0 /\ f = Field(width, body, rest, false)
  OBVIOUS
<1> HIDE DEF f, rest
<1>3. Len(f) = width + Len(body) + Len(rest) /\ Written(body, rest, false) \in Nat
  BY ONLY <1>2, width \in 1..3, body \in Seq(Byte), false \in BOOLEAN, FieldIs
<1>4. Len(body) \in Nat /\ width \in Nat
  OBVIOUS
<1>5. end = pos + width + Len(body) /\ end \in Nat
  BY <1>1, <1>2, <1>3, <1>4
<1>6. Fits(Written(body, rest, false), width)
  <2>1. Written(body, rest, false) <= Len(body) + 1
    BY <1>2, <1>4 DEF Written
  <2>2. Written(body, rest, false) \in Nat /\ Len(body) + 1 \in Nat
    BY <1>3, <1>4
  <2> DEFINE w == Written(body, rest, false)
             m == Len(body) + 1
  <2>3. Fits(m, width)
    OBVIOUS
  <2> HIDE DEF w, m
  <2>4. Fits(w, width)
    BY <2>1, <2>2, <2>3 DEF w, m, Fits
  <2> QED BY <2>4 DEF w
<1>7. FieldAt(data, pos, width, body, rest, false, end)
  <2>1. end <= pos + width + Len(body) + Len(rest)
    BY <1>2, <1>4, <1>5
  <2> QED BY <1>1, <1>2, <1>5, <1>6, <2>1 DEF FieldAt
<1>8. /\ false \/ pos + width + Len(body) > end => Behind(data, pos, width, end) = Lost
      /\ ~false /\ pos + width + Len(body) <= end
           => /\ Behind(data, pos, width, end) = pos + width + Len(body)
              /\ Holds(data, pos + width, body, pos + width + Len(body))
  BY ONLY <1>7, BehindField
<1>9. Holds(data, pos + width, body, end)
  <2>1. Holds(data, pos, Field(width, body, rest, false), end)
    BY <1>1, <1>2
  <2> QED BY ONLY <1>1, <1>2, <1>5, <2>1, width \in 1..3, body \in Seq(Byte), false \in BOOLEAN, FieldHolds
<1>10. Filled(data, pos + width, body, end)
  <2>1. pos + width \in Nat /\ end = (pos + width) + Len(body)
    BY <1>1, <1>4, <1>5
  <2> QED BY <1>1, <1>9, <2>1 DEF Filled
<1>11. ~false => Behind(data, pos, width, end) = end
  BY <1>5, <1>8
<1> QED BY <1>5, <1>8, <1>10, <1>11

\* What is to be said of a server_name extension with a fault or none.
ListSays(names, fault) == IF fault = "list" THEN Only("Malformed") ELSE NamesSay(names, fault)

\* The body of a server_name extension says what its names mean, unless a
\* length in it is false.
LEMMA ListRead ==
    ASSUME NEW names \in Seq(NameEntry), NEW fault, NEW data, NEW pos, NEW end,
           Filled(data, pos, Field(2, NamesFrom(names, fault), <<>>, fault = "list"), end),
           end < pos + 65536
    PROVE  ServerNameList(data, pos, end) = ListSays(names, fault)
<1> DEFINE body == NamesFrom(names, fault)
           false == fault = "list"
<1>1. body \in Seq(Byte) /\ false \in BOOLEAN /\ 2 \in 1..3
  BY NamesFromBytes
<1>2. Filled(data, pos, Field(2, body, <<>>, false), end)
  OBVIOUS
<1> HIDE DEF body, false
<1>3. Len(body) \in Nat /\ Len(Field(2, body, <<>>, false)) = 2 + Len(body)
  <2>1. <<>> \in Seq(Byte) /\ Len(<<>>) = 0 /\ Len(body) \in Nat
    BY <1>1
  <2>2. Len(Field(2, body, <<>>, false)) = 2 + Len(body) + Len(<<>>)
    BY ONLY <1>1, <2>1, FieldIs
  <2> QED BY <2>1, <2>2
<1>4. Len(body) + 1 < 65536
  <2>1. pos \in Nat /\ end = pos + Len(Field(2, body, <<>>, false))
    BY <1>2 DEF Filled
  <2> QED BY <1>3, <2>1
<1>5. Fits(Len(body) + 1, 2)
  BY <1>4 DEF Fits
<1>6. /\ false => Behind(data, pos, 2, end) = Lost
      /\ ~false => Behind(data, pos, 2, end) = end
      /\ Filled(data, pos + 2, body, end)
  BY ONLY <1>1, <1>2, <1>5, LastField
<1>7. HostName(data, pos + 2, end) = NamesSay(names, fault)
  BY <1>4, <1>6, NamesRead DEF body
<1>8. end # Lost
  <2>1. pos \in Nat /\ end = pos + Len(Field(2, body, <<>>, false))
    BY <1>2 DEF Filled
  <2> QED BY <1>3, <2>1 DEF Lost
<1> QED BY <1>6, <1>7, <1>8 DEF ServerNameList, ListSays, false

\* The bytes of the extensions and how many they are.
ExtensionsTailFits(extensions, fault, k) ==
    /\ ExtensionsTail(extensions, fault, k) \in Seq(Byte)
    /\ k <= Len(extensions) => Len(ExtensionsTail(extensions, fault, k))
                                 = 4 + Len(Body(extensions[k], fault))
                                     + Len(ExtensionsTail(extensions, fault, k + 1))
    /\ k > Len(extensions) => Len(ExtensionsTail(extensions, fault, k)) = 3

\* What is written from any extension on is bytes.
LEMMA ExtensionsTailIs ==
    ASSUME NEW extensions \in Seq(Extension), NEW fault, NEW k \in 1..(Len(extensions) + 1)
    PROVE  ExtensionsTailFits(extensions, fault, k)
<1> DEFINE n == Len(extensions)
           Good == {m \in Nat : m <= n => ExtensionsTailFits(extensions, fault, n + 1 - m)}
<1>1. n \in Nat
  OBVIOUS
<1>2. ASSUME NEW j \in Nat, j > n PROVE ExtensionsTailFits(extensions, fault, j)
  <2>1. ExtensionsTail(extensions, fault, j) = <<9, 9, 9>>
    BY <1>1, <1>2, ExtensionsTailEnd
  <2>2. 9 \in Byte
    BY DEF Byte
  <2>3. <<9, 9, 9>> \in Seq(Byte) /\ Len(<<9, 9, 9>>) = 3
    BY <2>2
  <2>4. ~(j <= n)
    BY <1>1, <1>2
  <2> QED BY <2>1, <2>3, <2>4 DEF ExtensionsTailFits
<1>3. ASSUME NEW j \in 1..n, ExtensionsTailFits(extensions, fault, j + 1)
      PROVE  ExtensionsTailFits(extensions, fault, j)
  <2> DEFINE t == ExtensionsTail(extensions, fault, j)
             u == ExtensionsTail(extensions, fault, j + 1)
             false == fault = "extension" /\ j = 1
             body == Body(extensions[j], fault)
             type == BigEndian(extensions[j].type, 2)
             f == Field(2, body, u, false)
  <2>0. 2 \in 1..3
    OBVIOUS
  <2>1. type \in Seq(Byte) /\ Len(type) = 2 /\ body \in Seq(Byte)
    <3>1. extensions[j] \in Extension
      OBVIOUS
    <3>2. extensions[j].type \in Nat /\ body \in Seq(Byte)
      BY <3>1, ExtensionIs
    <3> HIDE DEF body
    <3> QED BY <2>0, <3>2, BigEndianIs
  <2>2. u \in Seq(Byte)
    BY <1>3 DEF ExtensionsTailFits
  <2>3. t = type \o f
    BY ExtensionsTailStep
  <2>4. false \in BOOLEAN
    OBVIOUS
  <2> HIDE DEF t, u, false, body, type
  <2>5. f \in Seq(Byte) /\ Len(f) = 2 + Len(body) + Len(u)
    BY <2>0, <2>1, <2>2, <2>4, FieldIs
  <2> HIDE DEF f
  <2>6. t \in Seq(Byte) /\ Len(t) = 2 + Len(f)
    <3>1. type \o f \in Seq(Byte) /\ Len(type \o f) = Len(type) + Len(f)
      BY ONLY <2>1, <2>5, ConcatProperties
    <3> QED BY ONLY <2>1, <2>3, <3>1
  <2>7. Len(t) = 4 + Len(body) + Len(u)
    <3>1. Len(body) \in Nat /\ Len(u) \in Nat
      BY <2>1, <2>2
    <3> QED BY <2>5, <2>6, <3>1
  <2>8. ~(j > n)
    BY <1>1
  <2> QED BY <2>6, <2>7, <2>8 DEF t, u, body, ExtensionsTailFits
<1>4. Nat \subseteq Good
  <2>1. 0 \in Good
    <3>1. n + 1 - 0 \in Nat /\ n + 1 - 0 > n
      BY <1>1
    <3> HIDE DEF n
    <3> QED BY <1>2, <3>1
  <2>2. ASSUME NEW m \in Nat, m \in Good PROVE m + 1 \in Good
    <3> SUFFICES ASSUME m + 1 <= n PROVE ExtensionsTailFits(extensions, fault, n + 1 - (m + 1))
      OBVIOUS
    <3>1. n + 1 - (m + 1) \in 1..n /\ (n + 1 - (m + 1)) + 1 = n + 1 - m /\ m <= n
      BY <1>1
    <3> HIDE DEF n
    <3>2. ExtensionsTailFits(extensions, fault, n + 1 - m)
      BY <2>2, <3>1
    <3> QED BY <1>3, <3>1, <3>2
  <2> HIDE DEF Good
  <2> QED BY <2>1, <2>2, Extends!CountingUp
<1>5. CASE k > n
  BY <1>1, <1>2, <1>5
<1>6. CASE k <= n
  <2>1. n + 1 - k \in Nat /\ n + 1 - k <= n /\ n + 1 - (n + 1 - k) = k
    BY <1>1, <1>6
  <2> HIDE DEF n
  <2> QED BY <1>4, <2>1
<1> QED BY <1>1, <1>5, <1>6

\* The extensions are bytes.
LEMMA ExtensionsFromBytes ==
    ASSUME NEW extensions \in Seq(Extension), NEW fault
    PROVE  ExtensionsFrom(extensions, fault) \in Seq(Byte)
<1>1. 1 \in 1..(Len(extensions) + 1)
  OBVIOUS
<1>2. ExtensionsTailFits(extensions, fault, 1)
  BY <1>1, ExtensionsTailIs
<1> QED BY <1>2, ExtensionsFromIs DEF ExtensionsTailFits

\* The extensions at pos from the k-th on, and nothing behind them.
ExtensionsAt(data, pos, extensions, fault, k, end) ==
    /\ extensions \in Seq(Extension) /\ data \in Seq(Byte) /\ pos \in Nat /\ end \in Nat
    /\ Holds(data, pos, ExtensionsTail(extensions, fault, k), end)
    /\ end = pos + Len(ExtensionsTail(extensions, fault, k))
    /\ Len(ExtensionsTail(extensions, fault, k)) < 65536
    /\ end <= Len(data)

\* What one round of the loop makes of them.
ExtensionIsRead(data, pos, extensions, fault, k, end) ==
    /\ pos + 4 <= end
    /\ Number(data, pos, 2) = extensions[k].type
    /\ fault = "extension" /\ k = 1 => Behind(data, pos + 2, 2, end) = Lost
    /\ ~(fault = "extension" /\ k = 1) =>
         \E next \in Nat :
            /\ Behind(data, pos + 2, 2, end) = next
            /\ next < pos + 65536
            /\ Filled(data, pos + 4, Body(extensions[k], fault), next)
            /\ ExtensionsAt(data, next, extensions, fault, k + 1, end)

\* One round reads one extension.
LEMMA ExtensionRead ==
    ASSUME NEW extensions, NEW fault, NEW k \in 1..Len(extensions), NEW data, NEW pos, NEW end,
           ExtensionsAt(data, pos, extensions, fault, k, end)
    PROVE  ExtensionIsRead(data, pos, extensions, fault, k, end)
<1>0. extensions \in Seq(Extension) /\ data \in Seq(Byte) /\ pos \in Nat /\ end \in Nat /\ 2 \in 1..3
  BY DEF ExtensionsAt
<1> DEFINE t == ExtensionsTail(extensions, fault, k)
           u == ExtensionsTail(extensions, fault, k + 1)
           false == fault = "extension" /\ k = 1
           body == Body(extensions[k], fault)
           type == extensions[k].type
           b == BigEndian(type, 2)
           f == Field(2, body, u, false)
<1>1. type \in Nat /\ type < 65536 /\ body \in Seq(Byte)
  <2>1. extensions[k] \in Extension
    BY <1>0
  <2> QED BY <2>1, ExtensionIs
<1>2. u \in Seq(Byte)
  <2>1. k + 1 \in 1..(Len(extensions) + 1)
    BY <1>0
  <2> QED BY <1>0, <2>1, ExtensionsTailIs DEF ExtensionsTailFits
<1>3. t = b \o f
  BY <1>0, ExtensionsTailStep
<1>4. false \in BOOLEAN
  OBVIOUS
<1>5. Holds(data, pos, t, end) /\ end = pos + Len(t) /\ Len(t) < 65536 /\ end <= Len(data)
  BY DEF ExtensionsAt
<1> HIDE DEF t, u, false, body, type
<1>6. f \in Seq(Byte) /\ Len(f) = 2 + Len(body) + Len(u) /\ Written(body, u, false) \in Nat
  BY <1>0, <1>1, <1>2, <1>4, FieldIs
<1> HIDE DEF f
<1>7. Len(body) \in Nat /\ Len(u) \in Nat
  BY <1>1, <1>2
<1>8. b \in Seq(Byte) /\ Len(b) = 2
  BY <1>0, <1>1, BigEndianIs
<1>9. Holds(data, pos, b, end) /\ Holds(data, pos + 2, f, end)
  <2> HIDE DEF b
  <2>1. Holds(data, pos, b \o f, end)
    BY <1>3, <1>5
  <2>2. Holds(data, pos, b, end) /\ Holds(data, pos + Len(b), f, end)
    BY ONLY <1>0, <1>6, <1>8, <2>1, HoldsBoth
  <2> QED BY <1>8, <2>2
<1>10. Len(t) = 4 + Len(body) + Len(u)
  <2> HIDE DEF b
  <2>1. Len(t) = 2 + Len(f)
    <3>1. Len(b \o f) = Len(b) + Len(f)
      BY ONLY <1>6, <1>8, ConcatProperties
    <3> QED BY ONLY <1>3, <1>8, <3>1
  <2> QED BY <1>6, <1>7, <2>1
<1>11. pos + 4 <= end /\ Number(data, pos, 2) = type
  <2>1. pos + 4 <= end /\ pos + 2 <= end
    BY <1>0, <1>5, <1>7, <1>10
  <2>2. Fits(type, 2)
    BY <1>1 DEF Fits
  <2>3. Number(data, pos, 2) = type
    BY ONLY <1>0, <1>1, <1>5, <1>9, <2>1, <2>2, NumberOfBytes
  <2> QED BY <2>1, <2>3
<1>12. Written(body, u, false) < 65536
  BY <1>4, <1>5, <1>7, <1>10 DEF Written
<1> DEFINE at == pos + 2
<1>13. FieldAt(data, at, 2, body, u, false, end)
  <2>1. Fits(Written(body, u, false), 2)
    BY <1>12 DEF Fits
  <2>2. end <= at + 2 + Len(body) + Len(u) /\ at \in Nat
    BY <1>0, <1>5, <1>7, <1>10
  <2>3. Holds(data, at, Field(2, body, u, false), end)
    BY <1>9 DEF f
  <2> QED BY <1>0, <1>1, <1>2, <1>4, <1>5, <2>1, <2>2, <2>3 DEF FieldAt
<1> DEFINE next == at + 2 + Len(body)
<1>14. /\ next \in Nat /\ next = pos + 4 + Len(body) /\ next <= end
       /\ at + 2 = pos + 4 /\ pos + 4 \in Nat
       /\ next < pos + 65536 /\ end = next + Len(u) /\ Len(u) < 65536 /\ end <= Len(data)
  BY <1>0, <1>5, <1>7, <1>10
<1> HIDE DEF at
<1>15. /\ false \/ next > end => Behind(data, at, 2, end) = Lost
       /\ ~false /\ next <= end
            => /\ Behind(data, at, 2, end) = next
               /\ Holds(data, at + 2, body, next)
       /\ Holds(data, next, u, end)
  BY ONLY <1>13, BehindField
<1> HIDE DEF next
<1>16. ~false => Filled(data, pos + 4, body, next)
  <2>1. next <= Len(data)
    BY <1>0, <1>14
  <2> QED BY <1>0, <1>1, <1>14, <1>15, <2>1 DEF Filled
<1>17. ExtensionsAt(data, next, extensions, fault, k + 1, end)
  BY <1>0, <1>14, <1>15 DEF ExtensionsAt, u
<1>18. /\ false => Behind(data, pos + 2, 2, end) = Lost
       /\ ~false => \E m \in Nat :
            /\ Behind(data, pos + 2, 2, end) = m
            /\ m < pos + 65536
            /\ Filled(data, pos + 4, body, m)
            /\ ExtensionsAt(data, m, extensions, fault, k + 1, end)
  BY <1>14, <1>15, <1>16, <1>17 DEF at
<1> QED BY <1>11, <1>18 DEF false, body, type, ExtensionIsRead

\* The server_name extensions from the k-th extension on, and what the first
\* of them says.
Listing(extensions, k) == {i \in k..Len(extensions) : extensions[i].type = SERVER_NAME}

SaidFrom(extensions, fault, k) ==
    IF Listing(extensions, k) = {} THEN Only("NoSni")
    ELSE ListSays(extensions[Min(Listing(extensions, k))].names, fault)

\* An extension decides if it is a server_name extension, and is skipped if not.
LEMMA SaidFromStep ==
    ASSUME NEW S, NEW extensions \in Seq(S), NEW fault, NEW k \in 1..Len(extensions)
    PROVE  SaidFrom(extensions, fault, k)
             = IF extensions[k].type = SERVER_NAME THEN ListSays(extensions[k].names, fault)
               ELSE SaidFrom(extensions, fault, k + 1)
<1>1. k \in Nat /\ Len(extensions) \in Nat /\ k \in k..Len(extensions)
  OBVIOUS
<1>2. CASE extensions[k].type = SERVER_NAME
  <2> DEFINE L == Listing(extensions, k)
  <2>1. k \in L /\ L \subseteq Nat /\ \A y \in L : k <= y
    BY <1>1, <1>2 DEF Listing
  <2> HIDE DEF L
  <2>2. Min(L) \in L /\ Min(L) <= k
    BY <2>1, LeastNumber
  <2>3. Min(L) \in Nat /\ k <= Min(L)
    BY <2>1, <2>2
  <2>4. Min(L) = k /\ L # {}
    BY <1>1, <2>1, <2>2, <2>3
  <2> QED BY <1>2, <2>4 DEF SaidFrom, L
<1>3. CASE extensions[k].type # SERVER_NAME
  <2>1. Listing(extensions, k) = Listing(extensions, k + 1)
    BY <1>1, <1>3 DEF Listing
  <2> QED BY <1>3, <2>1 DEF SaidFrom
<1> QED BY <1>2, <1>3

\* Behind the last extension nothing is said.
LEMMA SaidFromEnd ==
    ASSUME NEW extensions, NEW fault, NEW k \in Nat, Len(extensions) \in Nat, k > Len(extensions)
    PROVE  SaidFrom(extensions, fault, k) = Only("NoSni")
<1>1. Listing(extensions, k) = {}
  BY DEF Listing
<1> QED BY <1>1 DEF SaidFrom

\* The rest of the extensions says what its first server_name extension says,
\* once the false length is behind.
LEMMA ExtensionsTailRead ==
    ASSUME NEW extensions \in Seq(Extension), NEW fault, NEW data \in Seq(Byte), NEW end \in Nat,
           NEW k \in 1..(Len(extensions) + 1), NEW pos \in Nat,
           ExtensionsAt(data, pos, extensions, fault, k, end), fault = "extension" => k > 1
    PROVE  Extensions(data, pos, end) = SaidFrom(extensions, fault, k)
<1> DEFINE n == Len(extensions)
           Read(j) == \A p \in Nat :
                         ExtensionsAt(data, p, extensions, fault, j, end)
                         /\ (fault = "extension" => j > 1)
                           => Extensions(data, p, end) = SaidFrom(extensions, fault, j)
           Good == {m \in Nat : m <= n => Read(n + 1 - m)}
<1>1. n \in Nat
  OBVIOUS
<1>2. ASSUME NEW j \in 1..(n + 1), j > n PROVE Read(j)
  <2> SUFFICES ASSUME NEW p \in Nat, ExtensionsAt(data, p, extensions, fault, j, end)
               PROVE  Extensions(data, p, end) = SaidFrom(extensions, fault, j)
    OBVIOUS
  <2>1. Len(ExtensionsTail(extensions, fault, j)) = 3
    BY <1>1, <1>2, ExtensionsTailIs DEF ExtensionsTailFits
  <2>2. end = p + 3 /\ end <= Len(data)
    BY <2>1 DEF ExtensionsAt
  <2>3. Extensions(data, p, end) = Only("NoSni")
    <3>1. p + 4 > end
      BY <2>2
    <3> QED BY ONLY <2>2, <3>1, data \in Seq(Byte), end \in Nat, p \in Nat, ExtensionsEnd
  <2>4. SaidFrom(extensions, fault, j) = Only("NoSni")
    BY <1>1, <1>2, SaidFromEnd
  <2> QED BY <2>3, <2>4
<1>3. ASSUME NEW j \in 1..n, Read(j + 1) PROVE Read(j)
  <2> SUFFICES ASSUME NEW p \in Nat, ExtensionsAt(data, p, extensions, fault, j, end),
                      fault = "extension" => j > 1
               PROVE  Extensions(data, p, end) = SaidFrom(extensions, fault, j)
    OBVIOUS
  <2> DEFINE e == extensions[j]
  <2>0. e \in Extension
    OBVIOUS
  <2>1. ExtensionIsRead(data, p, extensions, fault, j, end)
    BY ExtensionRead
  <2>2. ~(fault = "extension" /\ j = 1) /\ end <= Len(data)
    BY <1>1 DEF ExtensionsAt
  <2>3. p + 4 <= end /\ Number(data, p, 2) = e.type
    BY <2>1 DEF ExtensionIsRead
  <2> HIDE DEF e
  <2>4. PICK next \in Nat : /\ Behind(data, p + 2, 2, end) = next
                            /\ next < p + 65536
                            /\ Filled(data, p + 4, Body(e, fault), next)
                            /\ ExtensionsAt(data, next, extensions, fault, j + 1, end)
    BY <2>1, <2>2 DEF ExtensionIsRead, e
  <2>5. next # Lost
    BY DEF Lost
  <2>6. Extensions(data, p, end) = IF e.type = SERVER_NAME THEN ServerNameList(data, p + 4, next)
                                   ELSE Extensions(data, next, end)
    <3>1. Extensions(data, p, end)
            = IF Number(data, p, 2) = SERVER_NAME THEN ServerNameList(data, p + 4, next)
              ELSE Extensions(data, next, end)
      BY ONLY <2>2, <2>3, <2>4, <2>5, data \in Seq(Byte), end \in Nat, p \in Nat, ExtensionsGoOn
    <3> QED BY <2>3, <3>1
  <2>7. ASSUME e.type = SERVER_NAME PROVE ServerNameList(data, p + 4, next) = ListSays(e.names, fault)
    <3>1. /\ e.names \in Seq(NameEntry)
          /\ Body(e, fault) = Field(2, NamesFrom(e.names, fault), <<>>, fault = "list")
      BY <2>0, <2>7, ExtensionIs
    <3>2. Filled(data, p + 4, Field(2, NamesFrom(e.names, fault), <<>>, fault = "list"), next)
      BY <2>4, <3>1
    <3>3. next < (p + 4) + 65536
      BY <2>4
    <3> QED BY ONLY <3>1, <3>2, <3>3, ListRead
  <2>8. Extensions(data, next, end) = SaidFrom(extensions, fault, j + 1)
    <3>1. fault = "extension" => j + 1 > 1
      BY <1>1
    <3> QED BY <1>3, <2>4, <3>1
  <2>9. SaidFrom(extensions, fault, j)
          = IF e.type = SERVER_NAME THEN ListSays(e.names, fault)
            ELSE SaidFrom(extensions, fault, j + 1)
    BY SaidFromStep DEF e
  <2> QED BY <2>6, <2>7, <2>8, <2>9
<1>4. Nat \subseteq Good
  <2>1. 0 \in Good
    <3>1. n + 1 - 0 \in 1..(n + 1) /\ n + 1 - 0 > n
      BY <1>1
    <3> HIDE DEF n, Read
    <3> QED BY <1>2, <3>1
  <2>2. ASSUME NEW m \in Nat, m \in Good PROVE m + 1 \in Good
    <3> SUFFICES ASSUME m + 1 <= n PROVE Read(n + 1 - (m + 1))
      OBVIOUS
    <3>1. n + 1 - (m + 1) \in 1..n /\ (n + 1 - (m + 1)) + 1 = n + 1 - m /\ m <= n
      BY <1>1
    <3> HIDE DEF n, Read
    <3>2. Read(n + 1 - m)
      BY <2>2, <3>1
    <3> QED BY <1>3, <3>1, <3>2
  <2> HIDE DEF Good
  <2> QED BY <2>1, <2>2, Extends!CountingUp
<1>5. Read(k)
  <2>1. CASE k > n
    <3> HIDE DEF Read
    <3> QED BY <1>2, <2>1
  <2>2. CASE k <= n
    <3>1. n + 1 - k \in Nat /\ n + 1 - k <= n /\ n + 1 - (n + 1 - k) = k
      BY <1>1, <2>2
    <3> HIDE DEF n, Read
    <3> QED BY <1>4, <3>1
  <2> QED BY <1>1, <2>1, <2>2
<1> QED BY <1>5

\* What is to be said of extensions with a fault or none.
ExtensionsSay(extensions, fault) ==
    IF fault = "extension" /\ extensions # <<>> THEN Only("Malformed")
    ELSE SaidFrom(extensions, fault, 1)

\* The extensions say what their first server_name extension says, unless the
\* length of the first of them is false.
LEMMA ExtensionsRead ==
    ASSUME NEW extensions \in Seq(Extension), NEW fault, NEW data, NEW pos, NEW end,
           Filled(data, pos, ExtensionsFrom(extensions, fault), end),
           Len(ExtensionsFrom(extensions, fault)) < 65536
    PROVE  Extensions(data, pos, end) = ExtensionsSay(extensions, fault)
<1> DEFINE t == ExtensionsTail(extensions, fault, 1)
<1>0. data \in Seq(Byte) /\ pos \in Nat
  BY DEF Filled
<1>1. ExtensionsFrom(extensions, fault) = t
  BY ExtensionsFromIs
<1>2. Len(extensions) \in Nat /\ 1 \in 1..(Len(extensions) + 1)
  OBVIOUS
<1>3. t \in Seq(Byte)
  BY <1>1, ExtensionsFromBytes
<1>4. end \in Nat /\ ExtensionsAt(data, pos, extensions, fault, 1, end) /\ end <= Len(data)
  <2>1. end \in Nat /\ end = pos + Len(t) /\ end <= Len(data)
    BY <1>0, <1>1, <1>3 DEF Filled
  <2> QED BY <1>0, <1>1, <2>1 DEF ExtensionsAt, Filled
<1> HIDE DEF t
<1>5. CASE fault = "extension" /\ extensions # <<>>
  <2>1. 1 \in 1..Len(extensions)
    BY <1>5
  <2>2. pos + 4 <= end /\ Behind(data, pos + 2, 2, end) = Lost
    <3>1. ExtensionIsRead(data, pos, extensions, fault, 1, end)
      BY ONLY <1>4, <2>1, ExtensionRead
    <3> QED BY <1>5, <3>1 DEF ExtensionIsRead
  <2>3. Extensions(data, pos, end) = Only("Malformed")
    BY ONLY <1>0, <1>4, <2>2, ExtensionsFail
  <2> QED BY <1>5, <2>3 DEF ExtensionsSay
<1>6. CASE fault # "extension"
  <2>1. Extensions(data, pos, end) = SaidFrom(extensions, fault, 1)
    BY <1>0, <1>2, <1>4, <1>6, ExtensionsTailRead
  <2> QED BY <1>6, <2>1 DEF ExtensionsSay
<1>7. CASE extensions = <<>>
  <2>0. 1 > Len(extensions)
    BY <1>7
  <2>1. Len(t) = 3
    <3>1. ExtensionsTailFits(extensions, fault, 1)
      BY <1>2, ExtensionsTailIs
    <3> QED BY <2>0, <3>1 DEF t, ExtensionsTailFits
  <2>2. Extensions(data, pos, end) = Only("NoSni")
    <3>1. pos + 4 > end
      BY <1>0, <1>1, <2>1 DEF Filled
    <3> QED BY ONLY <1>0, <1>4, <3>1, ExtensionsEnd
  <2>3. SaidFrom(extensions, fault, 1) = Only("NoSni")
    <3>1. \A k \in Nat : k > Len(extensions) => SaidFrom(extensions, fault, k) = Only("NoSni")
      BY <1>2, SaidFromEnd
    <3> QED BY <2>0, <3>1
  <2> QED BY <1>7, <2>2, <2>3 DEF ExtensionsSay
<1> QED BY <1>5, <1>6, <1>7

-----------------------------------------------------------------------------
(* The body of the ClientHello.                                            *)

\* What is written from the compression methods, from the cipher suites and
\* from the session id on.
CompMethods(h) == Field(1, h.comp_methods, ExtensionBlock(h), h.fault = "comp_methods")
CipherSuites(h) == Field(2, h.cipher_suites, CompMethods(h), h.fault = "cipher_suites")
SessionId(h) == Field(1, h.session_id, CipherSuites(h), h.fault = "session_id")
Fixed == [k \in 1..FIXED_LEN |-> 3]

\* The parts of a hello.
LEMMA HelloParts ==
    ASSUME NEW h \in Hello
    PROVE  /\ h.session_id \in Seq(Byte) /\ h.cipher_suites \in Seq(Byte)
           /\ h.comp_methods \in Seq(Byte) /\ h.extensions \in Seq(Extension)
           /\ h.content \in Byte /\ h.message \in Byte /\ h.missing \in Nat
BY DEF Hello

\* The extension block is bytes, none of them if there are no extensions.
LEMMA ExtensionBlockIs ==
    ASSUME NEW h \in Hello
    PROVE  /\ ExtensionBlock(h) \in Seq(Byte)
           /\ h.extensions = <<>> => Len(ExtensionBlock(h)) = 0
           /\ h.extensions # <<>> =>
                /\ ExtensionBlock(h)
                     = Field(2, ExtensionsFrom(h.extensions, h.fault), <<>>, h.fault = "extensions")
                /\ Len(ExtensionBlock(h)) = 2 + Len(ExtensionsFrom(h.extensions, h.fault))
                /\ ExtensionsFrom(h.extensions, h.fault) \in Seq(Byte)
<1> DEFINE exts == ExtensionsFrom(h.extensions, h.fault)
           false == h.fault = "extensions"
<1>1. h.extensions \in Seq(Extension)
  BY HelloParts
<1>2. exts \in Seq(Byte) /\ false \in BOOLEAN /\ 2 \in 1..3 /\ <<>> \in Seq(Byte) /\ Len(<<>>) = 0
  BY <1>1, ExtensionsFromBytes
<1>3. ExtensionBlock(h) = IF h.extensions = <<>> THEN <<>> ELSE Field(2, exts, <<>>, false)
  BY DEF ExtensionBlock
<1> HIDE DEF exts, false
<1>4. Field(2, exts, <<>>, false) \in Seq(Byte) /\ Len(Field(2, exts, <<>>, false)) = 2 + Len(exts) + Len(<<>>)
  BY ONLY <1>2, FieldIs
<1>5. Len(exts) \in Nat
  BY <1>2
<1>6. Len(Field(2, exts, <<>>, false)) = 2 + Len(exts)
  BY <1>2, <1>4, <1>5
<1> QED BY <1>2, <1>3, <1>4, <1>6 DEF exts, false

\* The body is bytes, of so many parts.
LEMMA HelloBodyIs ==
    ASSUME NEW h \in Hello
    PROVE  /\ Fixed \in Seq(Byte) /\ Len(Fixed) = FIXED_LEN /\ FIXED_LEN \in Nat
           /\ CompMethods(h) \in Seq(Byte) /\ CipherSuites(h) \in Seq(Byte)
           /\ SessionId(h) \in Seq(Byte) /\ HelloBody(h) \in Seq(Byte)
           /\ Len(CompMethods(h)) = 1 + Len(h.comp_methods) + Len(ExtensionBlock(h))
           /\ Len(CipherSuites(h)) = 2 + Len(h.cipher_suites) + Len(CompMethods(h))
           /\ Len(SessionId(h)) = 1 + Len(h.session_id) + Len(CipherSuites(h))
           /\ HelloBody(h) = Fixed \o SessionId(h)
           /\ Len(HelloBody(h)) = FIXED_LEN + Len(SessionId(h))
<1>1. /\ h.session_id \in Seq(Byte) /\ h.cipher_suites \in Seq(Byte)
      /\ h.comp_methods \in Seq(Byte) /\ ExtensionBlock(h) \in Seq(Byte)
      /\ 1 \in 1..3 /\ 2 \in 1..3
      /\ (h.fault = "comp_methods") \in BOOLEAN /\ (h.fault = "cipher_suites") \in BOOLEAN
      /\ (h.fault = "session_id") \in BOOLEAN
  BY HelloParts, ExtensionBlockIs
<1>2. CompMethods(h) \in Seq(Byte) /\ Len(CompMethods(h)) = 1 + Len(h.comp_methods) + Len(ExtensionBlock(h))
  BY ONLY <1>1, FieldIs DEF CompMethods
<1>3. CipherSuites(h) \in Seq(Byte) /\ Len(CipherSuites(h)) = 2 + Len(h.cipher_suites) + Len(CompMethods(h))
  BY ONLY <1>1, <1>2, FieldIs DEF CipherSuites
<1>4. SessionId(h) \in Seq(Byte) /\ Len(SessionId(h)) = 1 + Len(h.session_id) + Len(CipherSuites(h))
  BY ONLY <1>1, <1>3, FieldIs DEF SessionId
<1>5. Fixed \in Seq(Byte) /\ Len(Fixed) = FIXED_LEN /\ FIXED_LEN \in Nat
  <2>1. 3 \in Byte
    BY DEF Byte
  <2> QED BY <2>1, TlsAssumption DEF Fixed
<1>6. HelloBody(h) = Fixed \o SessionId(h)
  BY DEF HelloBody, Fixed, SessionId, CipherSuites, CompMethods
<1>7. Fixed \o SessionId(h) \in Seq(Byte) /\ Len(Fixed \o SessionId(h)) = Len(Fixed) + Len(SessionId(h))
  BY ONLY <1>4, <1>5, ConcatProperties
<1> QED BY <1>2, <1>3, <1>4, <1>5, <1>6, <1>7

\* The walk is at p, unless it met a false length or the end lies before p.
Reached(x, p, sound, end) == x = IF sound /\ p <= end THEN p ELSE Lost

\* One field further.
LEMMA Reach ==
    ASSUME NEW width, NEW body, NEW rest, NEW false, NEW data, NEW p, NEW end,
           FieldAt(data, p, width, body, rest, false, end),
           NEW x, NEW sound \in BOOLEAN, Reached(x, p, sound, end)
    PROVE  /\ Reached(Behind(data, x, width, end), p + width + Len(body), sound /\ ~false, end)
           /\ Holds(data, p + width + Len(body), rest, end)
<1>1. p \in Nat /\ end \in Nat /\ width \in 1..3 /\ false \in BOOLEAN
  BY DEF FieldAt
<1> DEFINE next == p + width + Len(body)
<1>2. /\ Len(body) \in Nat
      /\ false \/ next > end => Behind(data, p, width, end) = Lost
      /\ ~false /\ next <= end => Behind(data, p, width, end) = next
      /\ Holds(data, next, rest, end)
  BY BehindField
<1>3. next \in Nat /\ p <= next
  BY <1>1, <1>2
<1> HIDE DEF next
<1>4. CASE sound /\ p <= end
  <2>1. x = p
    BY <1>4 DEF Reached
  <2>2. CASE false \/ next > end
    <3>1. Behind(data, x, width, end) = Lost /\ ~(~false /\ next <= end)
      BY <1>1, <1>2, <1>3, <2>1, <2>2
    <3> QED BY <1>2, <3>1 DEF Reached, next
  <2>3. CASE ~false /\ next <= end
    BY <1>2, <1>4, <2>1, <2>3 DEF Reached, next
  <2> QED BY <1>1, <1>3, <2>2, <2>3
<1>5. CASE ~(sound /\ p <= end)
  <2>1. x = Lost
    BY <1>5 DEF Reached
  <2>2. Behind(data, x, width, end) = Lost
    BY <2>1, BehindLost
  <2>3. ~(sound /\ next <= end)
    BY <1>1, <1>3, <1>5
  <2> QED BY <1>2, <2>2, <2>3 DEF Reached, next
<1> QED BY <1>4, <1>5

\* What is filled with the beginning of s holds s so far as it reaches.
LEMMA HoldsBeginning ==
    ASSUME NEW s \in Seq(Byte), NEW n \in Nat, n <= Len(s), NEW data, NEW pos, NEW end,
           Filled(data, pos, SubSeq(s, 1, n), end)
    PROVE  /\ data \in Seq(Byte) /\ pos \in Nat /\ end \in Nat /\ end = pos + n /\ end <= Len(data)
           /\ Holds(data, pos, s, end)
           /\ SubSeq(s, 1, n) \in Seq(Byte) /\ Len(SubSeq(s, 1, n)) = n
<1> DEFINE t == SubSeq(s, 1, n)
<1>1. /\ data \in Seq(Byte) /\ pos \in Nat /\ t \in Seq(Byte)
      /\ end = pos + Len(t) /\ end <= Len(data) /\ Holds(data, pos, t, end)
  BY DEF Filled
<1>2. Len(t) = n /\ \A k \in 1..n : t[k] = s[k]
  OBVIOUS
<1> HIDE DEF t
<1>3. ASSUME NEW k \in 1..Len(s), pos + k <= end PROVE data[pos + k] = s[k]
  <2>1. k \in 1..n
    BY <1>1, <1>2, <1>3
  <2> QED BY <1>1, <1>2, <1>3, <2>1 DEF Holds
<1>4. Holds(data, pos, s, end)
  BY <1>3 DEF Holds
<1> QED BY <1>1, <1>2, <1>4 DEF t

\* Where the extension block begins.
BlockAt(h, pos) ==
    pos + FIXED_LEN + 1 + Len(h.session_id) + 2 + Len(h.cipher_suites) + 1 + Len(h.comp_methods)

\* The walk through the body reaches the extension block, unless it meets a
\* false length or the body ends before it.
LEMMA BlockReached ==
    ASSUME NEW h \in Writable, NEW data, NEW pos, NEW end,
           Filled(data, pos, SubSeq(HelloBody(h), 1, Len(HelloBody(h)) - h.missing), end)
    PROVE  /\ Reached(Behind(data, Behind(data, Behind(data, Past(pos, FIXED_LEN, end), 1, end),
                                          2, end), 1, end),
                      BlockAt(h, pos),
                      h.fault \notin {"session_id", "cipher_suites", "comp_methods"}, end)
           /\ Holds(data, BlockAt(h, pos), ExtensionBlock(h), end)
           /\ BlockAt(h, pos) \in Nat /\ end \in Nat /\ end <= Len(data) /\ data \in Seq(Byte)
           /\ end = BlockAt(h, pos) + Len(ExtensionBlock(h)) - h.missing
<1> DEFINE body == HelloBody(h)
           n == Len(body) - h.missing
           e == ExtensionBlock(h)
           sid == h.session_id
           cs == h.cipher_suites
           cm == h.comp_methods
           f1 == h.fault = "session_id"
           f2 == h.fault = "cipher_suites"
           f3 == h.fault = "comp_methods"
           r1 == CipherSuites(h)
           r2 == CompMethods(h)
           s1 == SessionId(h)
<1>1. h \in Hello
  BY DEF Writable
<1>2. /\ sid \in Seq(Byte) /\ cs \in Seq(Byte) /\ cm \in Seq(Byte) /\ h.missing \in Nat /\ e \in Seq(Byte)
      /\ Len(sid) \in Nat /\ Len(cs) \in Nat /\ Len(cm) \in Nat /\ Len(e) \in Nat
  <2>1. /\ sid \in Seq(Byte) /\ cs \in Seq(Byte) /\ cm \in Seq(Byte) /\ h.missing \in Nat
        /\ e \in Seq(Byte)
    BY <1>1, HelloParts, ExtensionBlockIs
  <2> HIDE DEF sid, cs, cm, e
  <2> QED BY <2>1
<1>3. /\ Fixed \in Seq(Byte) /\ Len(Fixed) = FIXED_LEN /\ FIXED_LEN \in Nat
      /\ r1 \in Seq(Byte) /\ r2 \in Seq(Byte) /\ s1 \in Seq(Byte) /\ body \in Seq(Byte)
      /\ Len(r2) = 1 + Len(cm) + Len(e)
      /\ Len(r1) = 2 + Len(cs) + Len(r2)
      /\ Len(s1) = 1 + Len(sid) + Len(r1)
      /\ body = Fixed \o s1
      /\ Len(body) = FIXED_LEN + Len(s1)
  BY <1>1, HelloBodyIs
<1>4. /\ Len(body) < 65536 /\ Len(sid) < 256 /\ Len(cm) < 256
      /\ f1 \/ f3 => Len(body) < 256
      /\ h.missing <= Len(body)
  <2>1. /\ HANDSHAKE_HEADER_LEN + Len(body) < 65536
        /\ Len(sid) < 256 /\ Len(cm) < 256
        /\ f1 \/ f3 => Len(body) < 256
        /\ h.missing <= Len(body)
    BY DEF Writable
  <2>2. Len(body) \in Nat
    <3>1. body \in Seq(Byte)
      BY <1>3
    <3> HIDE DEF body
    <3> QED BY ONLY <3>1
  <2> HIDE DEF body, sid, cm, f1, f3
  <2>3. Len(body) < 65536
    BY ONLY <2>1, <2>2 DEF HANDSHAKE_HEADER_LEN
  <2> QED BY ONLY <2>1, <2>3
<1>5. /\ s1 = Field(1, sid, r1, f1) /\ r1 = Field(2, cs, r2, f2) /\ r2 = Field(1, cm, e, f3)
      /\ f1 \in BOOLEAN /\ f2 \in BOOLEAN /\ f3 \in BOOLEAN
  BY DEF SessionId, CipherSuites, CompMethods
<1>6. Filled(data, pos, SubSeq(body, 1, n), end)
  OBVIOUS
<1>7. BlockAt(h, pos) = pos + FIXED_LEN + 1 + Len(sid) + 2 + Len(cs) + 1 + Len(cm)
  BY DEF BlockAt
<1>8. (h.fault \notin {"session_id", "cipher_suites", "comp_methods"}) = (~f1 /\ ~f2 /\ ~f3)
  OBVIOUS
<1> HIDE DEF body, e, sid, cs, cm, f1, f2, f3, r1, r2, s1
<1>9. n \in Nat /\ n <= Len(body) /\ Len(body) \in Nat /\ body \in Seq(Byte)
  <2>1. body \in Seq(Byte)
    BY <1>3
  <2>2. Len(body) \in Nat
    BY ONLY <2>1
  <2>3. h.missing \in Nat /\ h.missing <= Len(body)
    BY <1>2, <1>4
  <2> QED BY ONLY <2>1, <2>2, <2>3 DEF n
<1> HIDE DEF n
<1>10. data \in Seq(Byte) /\ pos \in Nat /\ end \in Nat /\ end = pos + n /\ end <= Len(data)
       /\ Holds(data, pos, body, end)
  BY ONLY <1>6, <1>9, HoldsBeginning
<1> DEFINE p0 == pos + FIXED_LEN
           p1 == p0 + 1 + Len(sid)
           p2 == p1 + 2 + Len(cs)
           p3 == p2 + 1 + Len(cm)
<1>11. Len(r1) \in Nat /\ Len(r2) \in Nat /\ Len(s1) \in Nat
  BY <1>3
<1> DEFINE m == h.missing
<1>12. m \in Nat /\ n = Len(body) - m /\ FIXED_LEN \in Nat
  BY <1>2, <1>3 DEF n
<1> HIDE DEF m
<1>13. /\ p0 \in Nat /\ p1 \in Nat /\ p2 \in Nat /\ p3 \in Nat
       /\ p3 + Len(e) = pos + Len(body) /\ end <= pos + Len(body) /\ BlockAt(h, pos) = p3
       /\ end <= p0 + 1 + Len(sid) + Len(r1) /\ end <= p1 + 2 + Len(cs) + Len(r2)
       /\ end <= p2 + 1 + Len(cm) + Len(e)
       /\ end = p3 + Len(e) - m
  <2> DEFINE a == Len(sid)
             b == Len(cs)
             c == Len(cm)
             d == Len(e)
             l == Len(body)
             l1 == Len(r1)
             l2 == Len(r2)
  <2>1. /\ a \in Nat /\ b \in Nat /\ c \in Nat /\ d \in Nat /\ l \in Nat
        /\ l2 = 1 + c + d /\ l1 = 2 + b + l2 /\ l = FIXED_LEN + (1 + a + l1)
        /\ FIXED_LEN \in Nat /\ m \in Nat /\ n = l - m /\ n \in Nat /\ end = pos + n /\ pos \in Nat
        /\ BlockAt(h, pos) = pos + FIXED_LEN + 1 + a + 2 + b + 1 + c
    BY <1>2, <1>3, <1>7, <1>9, <1>10, <1>12
  <2> HIDE DEF a, b, c, d, l, l1, l2
  <2>2. /\ p0 = pos + FIXED_LEN /\ p1 = p0 + 1 + a /\ p2 = p1 + 2 + b /\ p3 = p2 + 1 + c
    BY DEF a, b, c
  <2> HIDE DEF p0, p1, p2, p3
  <2>3. /\ p0 \in Nat /\ p1 \in Nat /\ p2 \in Nat /\ p3 \in Nat
        /\ p3 + d = pos + l /\ end <= pos + l /\ BlockAt(h, pos) = p3
        /\ end <= p0 + 1 + a + l1 /\ end <= p1 + 2 + b + l2
        /\ end <= p2 + 1 + c + d
        /\ end = p3 + d - m
    BY ONLY <2>1, <2>2
  <2> QED BY ONLY <2>3 DEF a, b, c, d, l, l1, l2
<1>14. Holds(data, p0, s1, end)
  <2>1. Holds(data, pos, Fixed \o s1, end)
    BY <1>3, <1>10
  <2>2. Holds(data, pos + Len(Fixed), s1, end)
    BY ONLY <1>3, <1>10, <2>1, HoldsBoth
  <2> QED BY <1>3, <2>2
<1>15. /\ Fits(Written(sid, r1, f1), 1) /\ Fits(Written(cs, r2, f2), 2) /\ Fits(Written(cm, e, f3), 1)
  <2>1. /\ Len(sid) + Len(r1) + 1 <= Len(body) /\ Len(cs) + Len(r2) + 1 <= Len(body)
        /\ Len(cm) + Len(e) + 1 <= Len(body) /\ Len(cs) <= Len(body) /\ Len(body) \in Nat
    BY <1>2, <1>3, <1>11
  <2>2. Written(sid, r1, f1) < 256
    BY <1>2, <1>4, <1>11, <2>1 DEF Written
  <2>3. Written(cs, r2, f2) < 65536
    BY <1>2, <1>4, <1>11, <2>1 DEF Written
  <2>4. Written(cm, e, f3) < 256
    BY <1>2, <1>4, <1>11, <2>1 DEF Written
  <2> QED BY <2>2, <2>3, <2>4 DEF Fits
<1>16. Reached(Past(pos, FIXED_LEN, end), p0, TRUE, end)
  <2>1. pos # Lost
    BY <1>10 DEF Lost
  <2>2. Past(pos, FIXED_LEN, end) = IF p0 > end THEN Lost ELSE p0
    BY <2>1 DEF Past
  <2>3. p0 > end <=> ~(p0 <= end)
    <3>1. p0 \in Nat /\ end \in Nat
      BY <1>10, <1>13
    <3> HIDE DEF p0
    <3> QED BY ONLY <3>1
  <2> QED BY <2>2, <2>3 DEF Reached
<1> HIDE DEF p0
<1> DEFINE x0 == Past(pos, FIXED_LEN, end)
           x1 == Behind(data, x0, 1, end)
           x2 == Behind(data, x1, 2, end)
           x3 == Behind(data, x2, 1, end)
           g1 == TRUE /\ ~f1
           g2 == g1 /\ ~f2
           g3 == g2 /\ ~f3
<1> HIDE DEF x0
<1>17. Reached(x1, p1, g1, end) /\ Holds(data, p1, r1, end)
  <2>1. FieldAt(data, p0, 1, sid, r1, f1, end)
    BY <1>2, <1>3, <1>5, <1>10, <1>13, <1>14, <1>15 DEF FieldAt
  <2>2. Reached(x0, p0, TRUE, end) /\ TRUE \in BOOLEAN
    BY <1>16 DEF x0
  <2> QED BY ONLY <2>1, <2>2, Reach
<1> HIDE DEF p1, x1, g1
<1>18. Reached(x2, p2, g2, end) /\ Holds(data, p2, r2, end)
  <2>1. FieldAt(data, p1, 2, cs, r2, f2, end)
    BY <1>2, <1>3, <1>5, <1>10, <1>13, <1>15, <1>17 DEF FieldAt
  <2>2. g1 \in BOOLEAN
    BY DEF g1
  <2> QED BY ONLY <1>17, <2>1, <2>2, Reach
<1> HIDE DEF p2, x2, g2
<1>19. Reached(x3, p3, g3, end) /\ Holds(data, p3, e, end)
  <2>1. FieldAt(data, p2, 1, cm, e, f3, end)
    BY <1>2, <1>3, <1>5, <1>10, <1>13, <1>15, <1>18 DEF FieldAt
  <2>2. g2 \in BOOLEAN
    BY DEF g2
  <2> QED BY ONLY <1>18, <2>1, <2>2, Reach
<1> HIDE DEF p3, x3, g3
<1>20. Reached(x3, p3, h.fault \notin {"session_id", "cipher_suites", "comp_methods"}, end)
  BY <1>8, <1>19 DEF Reached, g3, g2, g1
<1> QED BY <1>10, <1>13, <1>19, <1>20 DEF x3, x2, x1, x0, e, m

\* What is to be said of the body of a ClientHello.
HelloSays(h) ==
    IF h.fault # "none" \/ h.missing > 0 THEN Only("Malformed") ELSE MeantByNames(NamesOf(h))

\* The faults of a hello.
LEMMA FaultsOf ==
    ASSUME NEW h \in Writable
    PROVE  /\ h.fault \in {"session_id", "cipher_suites", "comp_methods", "message", "extensions",
                           "extension", "list", "name", "none"}
           /\ h.fault \in {"extensions", "extension"} => h.extensions # <<>>
           /\ h.fault = "list" => \E k \in DOMAIN h.extensions : h.extensions[k].type = SERVER_NAME
           /\ h.fault = "name" => NamesOf(h) # <<>>
<1>1. h.fault \in LengthsOf(h) \cup {"none"}
  BY DEF Writable
<1>2. CASE h.fault = "none"
  BY <1>2
<1>3. CASE h.fault \in {"session_id", "cipher_suites", "comp_methods", "message"}
  BY <1>3
<1>4. CASE h.extensions # <<>> /\ h.fault \in {"extensions", "extension"}
  BY <1>4
<1>5. CASE h.fault = "list" /\ \E k \in DOMAIN h.extensions : h.extensions[k].type = SERVER_NAME
  BY <1>5
<1>6. CASE h.fault = "name" /\ NamesOf(h) # <<>>
  BY <1>6
<1>7. \/ h.fault = "none"
      \/ h.fault \in {"session_id", "cipher_suites", "comp_methods", "message"}
      \/ h.extensions # <<>> /\ h.fault \in {"extensions", "extension"}
      \/ h.fault = "list" /\ \E k \in DOMAIN h.extensions : h.extensions[k].type = SERVER_NAME
      \/ h.fault = "name" /\ NamesOf(h) # <<>>
  BY <1>1 DEF LengthsOf
<1> QED BY <1>2, <1>3, <1>4, <1>5, <1>6, <1>7

\* Where the names of a hello are.
LEMMA NamesOfIs ==
    ASSUME NEW h \in Hello
    PROVE  NamesOf(h) = IF Listing(h.extensions, 1) = {} THEN <<>>
                        ELSE h.extensions[Min(Listing(h.extensions, 1))].names
<1> DEFINE L == Listing(h.extensions, 1)
           sel == SelectInSeq(h.extensions, LAMBDA e : e.type = SERVER_NAME)
<1>1. sel = IF L # {} THEN Min(L) ELSE 0
  BY DEF SelectInSeq, Listing
<1>2. L \subseteq Nat /\ 0 \notin L
  BY DEF Listing
<1>3. L # {} => Min(L) \in L
  <2> HIDE DEF L
  <2> QED BY <1>2, LeastNumber
<1>4. NamesOf(h) = IF sel = 0 THEN <<>> ELSE h.extensions[sel].names
  BY DEF NamesOf
<1> HIDE DEF L, sel
<1>5. NamesOf(h) = IF L = {} THEN <<>> ELSE h.extensions[Min(L)].names
  BY <1>1, <1>2, <1>3, <1>4
<1> QED BY <1>5 DEF L

\* The extensions of a hello that has any say what is to be said of it, when
\* no length before them is false.
LEMMA ExtensionsMean ==
    ASSUME NEW h \in Writable, h.extensions # <<>>,
           h.fault \in {"extension", "list", "name", "none"}
    PROVE  ExtensionsSay(h.extensions, h.fault)
             = IF h.fault # "none" THEN Only("Malformed") ELSE MeantByNames(NamesOf(h))
<1> DEFINE L == Listing(h.extensions, 1)
           names == h.extensions[Min(L)].names
<1>1. h \in Hello
  BY DEF Writable
<1>2. NamesOf(h) = IF L = {} THEN <<>> ELSE names
  BY <1>1, NamesOfIs
<1>3. CASE h.fault = "extension"
  BY <1>3 DEF ExtensionsSay
<1>4. CASE h.fault = "list"
  <2>1. L # {}
    <3>1. PICK k \in DOMAIN h.extensions : h.extensions[k].type = SERVER_NAME
      BY <1>4, FaultsOf
    <3>2. DOMAIN h.extensions = 1..Len(h.extensions)
      BY <1>1, HelloParts
    <3> QED BY <3>1, <3>2 DEF Listing
  <2> HIDE DEF L, names
  <2>2. SaidFrom(h.extensions, h.fault, 1) = ListSays(names, h.fault)
    BY <2>1 DEF SaidFrom, L, names
  <2> QED BY <1>4, <2>2 DEF ExtensionsSay, ListSays
<1>5. CASE h.fault = "name"
  <2>1. NamesOf(h) # <<>>
    BY <1>5, FaultsOf
  <2> HIDE DEF L, names
  <2>2. L # {} /\ names # <<>>
    BY <1>2, <2>1
  <2>3. SaidFrom(h.extensions, h.fault, 1) = ListSays(names, h.fault)
    BY <2>2 DEF SaidFrom, L, names
  <2> QED BY <1>5, <2>2, <2>3 DEF ExtensionsSay, ListSays, NamesSay
<1>6. CASE h.fault = "none"
  <2> HIDE DEF L, names
  <2>1. CASE L = {}
    <3>1. SaidFrom(h.extensions, h.fault, 1) = Only("NoSni")
      BY <2>1 DEF SaidFrom, L
    <3>2. MeantByNames(<<>>) = Only("NoSni")
      <4>1. 1 > Len(<<>>) /\ <<>> \in Seq(NameEntry) /\ Len(<<>>) \in Nat
        OBVIOUS
      <4>2. MeantByNames(<<>>) = MeantFrom(<<>>, 1)
        BY <4>1, MeantFromFirst
      <4>3. \A k \in Nat : k > Len(<<>>) => MeantFrom(<<>>, k) = Only("NoSni")
        BY <4>1, MeantFromEnd
      <4> QED BY <4>1, <4>2, <4>3
    <3> QED BY <1>2, <1>6, <2>1, <3>1, <3>2 DEF ExtensionsSay
  <2>2. CASE L # {}
    <3>1. SaidFrom(h.extensions, h.fault, 1) = ListSays(names, h.fault)
      BY <2>2 DEF SaidFrom, L, names
    <3> QED BY <1>2, <1>6, <2>2, <3>1 DEF ExtensionsSay, ListSays, NamesSay
  <2> QED BY <2>1, <2>2
<1> QED BY <1>3, <1>4, <1>5, <1>6

\* The body of the ClientHello, as far as it was sent, says what is meant.
LEMMA HelloRead ==
    ASSUME NEW h \in Writable, h.fault # "message", NEW data, NEW pos, NEW end,
           Filled(data, pos, SubSeq(HelloBody(h), 1, Len(HelloBody(h)) - h.missing), end)
    PROVE  ClientHello(data, pos, end) = HelloSays(h)
<1> DEFINE x == Behind(data, Behind(data, Behind(data, Past(pos, FIXED_LEN, end), 1, end), 2, end), 1, end)
           p == BlockAt(h, pos)
           e == ExtensionBlock(h)
           exts == ExtensionsFrom(h.extensions, h.fault)
           early == h.fault \in {"session_id", "cipher_suites", "comp_methods"}
           false == h.fault = "extensions"
           m == h.missing
<1>1. h \in Hello /\ Len(HelloBody(h)) < 65536 /\ (m = Len(e) => m = 0)
  <2>1. h \in Hello
    BY DEF Writable
  <2>2. HANDSHAKE_HEADER_LEN + Len(HelloBody(h)) < 65536 /\ (m = Len(e) => m = 0)
    BY DEF Writable
  <2> DEFINE l == Len(HelloBody(h))
  <2>3. l \in Nat
    <3>1. HelloBody(h) \in Seq(Byte)
      BY <2>1, HelloBodyIs
    <3> QED BY <3>1
  <2> HIDE DEF l
  <2>4. l < 65536
    BY ONLY <2>2, <2>3 DEF HANDSHAKE_HEADER_LEN, l
  <2> QED BY <2>1, <2>2, <2>4 DEF l
<1>2. /\ Reached(x, p, ~early, end) /\ Holds(data, p, e, end)
      /\ p \in Nat /\ end \in Nat /\ end <= Len(data) /\ data \in Seq(Byte)
      /\ end = p + Len(e) - m
  BY BlockReached
<1>3. m \in Nat /\ e \in Seq(Byte)
  BY <1>1, HelloParts, ExtensionBlockIs
<1>4. /\ h.extensions = <<>> => Len(e) = 0
      /\ h.extensions # <<>> => /\ e = Field(2, exts, <<>>, false) /\ Len(e) = 2 + Len(exts)
                                /\ exts \in Seq(Byte)
  BY <1>1, ExtensionBlockIs
<1>5. Len(e) \in Nat /\ Len(e) < 65536
  <2>1. /\ Len(HelloBody(h)) = FIXED_LEN + Len(SessionId(h))
        /\ Len(SessionId(h)) = 1 + Len(h.session_id) + Len(CipherSuites(h))
        /\ Len(CipherSuites(h)) = 2 + Len(h.cipher_suites) + Len(CompMethods(h))
        /\ Len(CompMethods(h)) = 1 + Len(h.comp_methods) + Len(e)
        /\ FIXED_LEN \in Nat
    BY <1>1, HelloBodyIs
  <2>2. h.session_id \in Seq(Byte) /\ h.cipher_suites \in Seq(Byte) /\ h.comp_methods \in Seq(Byte)
    BY <1>1, HelloParts
  <2>3. Len(h.session_id) \in Nat /\ Len(h.cipher_suites) \in Nat /\ Len(h.comp_methods) \in Nat
    BY ONLY <2>2
  <2> DEFINE l == Len(e)
             l0 == Len(HelloBody(h))
             l1 == Len(SessionId(h))
             l2 == Len(CipherSuites(h))
             l3 == Len(CompMethods(h))
             a == Len(h.session_id)
             b == Len(h.cipher_suites)
             c == Len(h.comp_methods)
  <2>4. l \in Nat
    BY <1>3
  <2>5. /\ l0 = FIXED_LEN + l1 /\ l1 = 1 + a + l2 /\ l2 = 2 + b + l3 /\ l3 = 1 + c + l
        /\ FIXED_LEN \in Nat /\ l0 < 65536 /\ a \in Nat /\ b \in Nat /\ c \in Nat
    <3>1. l0 < 65536
      BY <1>1
    <3>2. l0 = FIXED_LEN + l1 /\ l1 = 1 + a + l2 /\ l2 = 2 + b + l3 /\ l3 = 1 + c + l
      BY ONLY <2>1
    <3>3. FIXED_LEN \in Nat
      BY ONLY <2>1
    <3>4. a \in Nat /\ b \in Nat /\ c \in Nat
      BY ONLY <2>3
    <3> HIDE DEF l, l0, l1, l2, l3, a, b, c
    <3> QED BY ONLY <3>1, <3>2, <3>3, <3>4
  <2> HIDE DEF l, l0, l1, l2, l3, a, b, c
  <2>6. l < 65536
    BY ONLY <2>4, <2>5
  <2> QED BY ONLY <2>4, <2>6 DEF l
<1>6. ClientHello(data, pos, end)
        = IF x = end THEN Only("NoSni")
          ELSE IF Behind(data, x, 2, end) = Lost THEN Only("Malformed")
          ELSE Extensions(data, x + 2, Behind(data, x, 2, end))
  BY DEF ClientHello
<1>7. HelloSays(h) = IF h.fault # "none" \/ m > 0 THEN Only("Malformed") ELSE MeantByNames(NamesOf(h))
  BY DEF HelloSays
<1>8. /\ h.fault \in {"extensions", "extension"} => h.extensions # <<>>
      /\ h.fault = "list" => \E k \in DOMAIN h.extensions : h.extensions[k].type = SERVER_NAME
      /\ h.fault = "name" => NamesOf(h) # <<>>
      /\ early \/ false \/ h.fault \in {"extension", "list", "name", "none"}
  BY FaultsOf
<1>9. end # Lost
  BY <1>2 DEF Lost
<1> HIDE DEF x, p, e, exts, m
<1>10. CASE early \/ p > end
  <2>1. x = Lost
    BY <1>2, <1>10 DEF Reached
  <2>2. ClientHello(data, pos, end) = Only("Malformed")
    BY <1>6, <1>9, <2>1, BehindLost
  <2>3. h.fault # "none" \/ m > 0
    <3>1. early => h.fault # "none"
      OBVIOUS
    <3>2. p > end => m > 0
      BY ONLY <1>2, <1>3, <1>5
    <3> QED BY <1>10, <3>1, <3>2
  <2> QED BY ONLY <1>7, <2>2, <2>3
<1>11. CASE ~early /\ p = end
  <2>1. x = end
    BY <1>2, <1>11 DEF Reached
  <2>2. m = 0 /\ Len(e) = 0
    <3>1. m = Len(e)
      BY ONLY <1>2, <1>3, <1>5, <1>11
    <3> QED BY <1>1, <3>1 DEF m, e
  <2>3. h.extensions = <<>>
    <3>1. ASSUME h.extensions # <<>> PROVE FALSE
      <4>1. Len(e) = 2 + Len(exts)
        BY <1>4, <3>1
      <4>2. exts \in Seq(Byte)
        BY <1>4, <3>1
      <4>3. Len(exts) \in Nat
        BY ONLY <4>2
      <4> DEFINE k == Len(exts)
      <4>4. 0 = 2 + k /\ k \in Nat
        BY ONLY <2>2, <4>1, <4>3
      <4> HIDE DEF k
      <4> QED BY ONLY <4>4
    <3> QED BY <3>1
  <2>4. NamesOf(h) = <<>>
    <3>1. Listing(h.extensions, 1) = {}
      BY <2>3 DEF Listing
    <3> QED BY <1>1, <3>1, NamesOfIs
  <2>5. h.fault = "none"
    <3>1. DOMAIN h.extensions = {}
      BY <2>3
    <3> QED BY <1>8, <1>11, <2>3, <2>4, <3>1
  <2>6. MeantByNames(<<>>) = Only("NoSni")
    <3>1. {i \in 1..Len(<<>>) : <<>>[i].type = HOST_NAME} = {}
      <4>1. 1..Len(<<>>) = {}
        OBVIOUS
      <4> QED BY ONLY <4>1
    <3>2. HostAt(<<>>) = IF {i \in 1..Len(<<>>) : <<>>[i].type = HOST_NAME} # {}
                         THEN Min({i \in 1..Len(<<>>) : <<>>[i].type = HOST_NAME}) ELSE 0
      BY ONLY DEF HostAt, SelectInSeq
    <3> QED BY ONLY <3>1, <3>2 DEF MeantByNames
  <2> QED BY <1>6, <1>7, <2>1, <2>2, <2>4, <2>5, <2>6
<1>12. CASE ~early /\ p < end
  <2>1. x = p /\ x # end
    BY <1>2, <1>12 DEF Reached
  <2>2. h.extensions # <<>>
    <3>1. Len(e) # 0
      BY ONLY <1>2, <1>3, <1>5, <1>12
    <3> QED BY <1>4, <3>1
  <2>3. e = Field(2, exts, <<>>, false) /\ Len(e) = 2 + Len(exts) /\ exts \in Seq(Byte)
    BY <1>4, <2>2
  <2>4. Len(exts) \in Nat /\ <<>> \in Seq(Byte) /\ Len(<<>>) = 0 /\ 2 \in 1..3 /\ false \in BOOLEAN
    BY ONLY <2>3 DEF false
  <2> HIDE DEF false
  <2>5. FieldAt(data, p, 2, exts, <<>>, false, end)
    <3>1. Fits(Written(exts, <<>>, false), 2)
      <4>1. Written(exts, <<>>, false) < 65536
        BY ONLY <1>5, <2>3, <2>4 DEF Written
      <4> QED BY <4>1 DEF Fits
    <3>2. end <= p + 2 + Len(exts) + Len(<<>>)
      BY ONLY <1>2, <1>3, <1>5, <2>3, <2>4
    <3>3. Holds(data, p, Field(2, exts, <<>>, false), end)
      BY <1>2, <2>3
    <3> QED BY ONLY <1>2, <2>3, <2>4, <3>1, <3>2, <3>3 DEF FieldAt
  <2> DEFINE next == p + 2 + Len(exts)
  <2>6. /\ false \/ next > end => Behind(data, p, 2, end) = Lost
        /\ ~false /\ next <= end => /\ Behind(data, p, 2, end) = next
                                    /\ Holds(data, p + 2, exts, next)
    BY ONLY <2>5, BehindField
  <2>7. next \in Nat /\ end = next - m /\ next # Lost /\ next = (p + 2) + Len(exts) /\ p + 2 \in Nat
    BY ONLY <1>2, <1>3, <1>5, <2>3, <2>4 DEF Lost
  <2> HIDE DEF next
  <2>8. CASE false \/ m > 0
    <3>1. Behind(data, p, 2, end) = Lost
      BY <1>2, <1>3, <2>6, <2>7, <2>8
    <3>2. h.fault # "none" \/ m > 0
      BY <2>8 DEF false
    <3> QED BY <1>6, <1>7, <2>1, <3>1, <3>2
  <2>9. CASE ~false /\ m = 0
    <3>1. next = end /\ next <= end
      BY ONLY <1>2, <2>7, <2>9
    <3>2. ClientHello(data, pos, end) = Extensions(data, p + 2, end)
      BY <1>6, <2>1, <2>6, <2>7, <2>9, <3>1
    <3>3. Filled(data, p + 2, exts, end)
      BY ONLY <1>2, <2>3, <2>6, <2>7, <2>9, <3>1 DEF Filled
    <3>4. Len(exts) < 65536
      BY ONLY <1>5, <2>3, <2>4
    <3>5. Extensions(data, p + 2, end) = ExtensionsSay(h.extensions, h.fault)
      <4>1. h.extensions \in Seq(Extension)
        BY <1>1, HelloParts
      <4> QED BY <3>3, <3>4, <4>1, ExtensionsRead DEF exts
    <3>6. h.fault \in {"extension", "list", "name", "none"}
      BY <1>8, <1>12, <2>9
    <3>7. ExtensionsSay(h.extensions, h.fault)
            = IF h.fault # "none" THEN Only("Malformed") ELSE MeantByNames(NamesOf(h))
      BY <2>2, <3>6, ExtensionsMean
    <3>8. ~(m > 0)
      BY <2>9
    <3> QED BY <1>7, <3>2, <3>5, <3>7, <3>8
  <2> QED BY <1>3, <2>8, <2>9
<1> QED BY <1>2, <1>10, <1>11, <1>12

-----------------------------------------------------------------------------
(* The message and its record.                                             *)

\* The message is bytes, so many that a record can say how many.
LEMMA MessageIs ==
    ASSUME NEW h \in Writable
    PROVE  /\ SubSeq(HelloBody(h), 1, Len(HelloBody(h)) - h.missing) \in Seq(Byte)
           /\ Message(h) \in Seq(Byte)
           /\ Len(Message(h)) = 4 + Len(SubSeq(HelloBody(h), 1, Len(HelloBody(h)) - h.missing))
           /\ Len(Message(h)) < 65536
<1> DEFINE body == HelloBody(h)
           n == Len(body) - h.missing
           sent == SubSeq(body, 1, n)
           false == h.fault = "message"
           f == Field(3, sent, <<>>, false)
<1>1. h \in Hello /\ HANDSHAKE_HEADER_LEN + Len(body) < 65536 /\ h.missing <= Len(body)
  BY DEF Writable
<1>2. body \in Seq(Byte) /\ h.missing \in Nat /\ h.message \in Byte
  BY <1>1, HelloBodyIs, HelloParts
<1>3. /\ Len(body) \in Nat /\ 4 + Len(body) < 65536 /\ h.missing <= Len(body)
  <2>1. body \in Seq(Byte)
    BY <1>2
  <2> HIDE DEF body
  <2>2. Len(body) \in Nat
    BY ONLY <2>1
  <2> QED BY ONLY <1>1, <2>2 DEF HANDSHAKE_HEADER_LEN
<1> HIDE DEF body
<1>4. n \in Nat /\ n <= Len(body)
  BY ONLY <1>2, <1>3 DEF n
<1>5. sent \in Seq(Byte) /\ Len(sent) = n
  <2> HIDE DEF n
  <2> QED BY ONLY <1>2, <1>4
<1>6. <<>> \in Seq(Byte) /\ Len(<<>>) = 0 /\ 3 \in 1..3 /\ false \in BOOLEAN
  OBVIOUS
<1>7. Message(h) = <<h.message>> \o f
  BY DEF Message, body
<1> HIDE DEF sent, false
<1>8. f \in Seq(Byte) /\ Len(f) = 3 + Len(sent) + Len(<<>>)
  BY ONLY <1>5, <1>6, FieldIs
<1> HIDE DEF f
<1>9. Message(h) \in Seq(Byte) /\ Len(Message(h)) = 1 + Len(f)
  <2>1. <<h.message>> \o f \in Seq(Byte) /\ Len(<<h.message>> \o f) = 1 + Len(f)
    BY ONLY <1>2, <1>8, Prefixed
  <2> QED BY <1>7, <2>1
<1> HIDE DEF n
<1>10. Len(Message(h)) = 4 + Len(sent) /\ Len(Message(h)) < 65536
  BY ONLY <1>3, <1>4, <1>5, <1>6, <1>8, <1>9
<1>11. sent = SubSeq(HelloBody(h), 1, Len(HelloBody(h)) - h.missing)
  BY DEF sent, n, body
<1> QED BY ONLY <1>5, <1>9, <1>10, <1>11

\* What is to be said of a handshake message.
MessageSays(h) == IF h.message # CLIENT_HELLO THEN Only("NotTls") ELSE HelloSays(h)

\* The message says what is meant.
LEMMA MessageRead ==
    ASSUME NEW h \in Writable, NEW data, NEW end, Filled(data, 5, Message(h), end)
    PROVE  Handshake(data, 5, end) = MessageSays(h)
<1> DEFINE sent == SubSeq(HelloBody(h), 1, Len(HelloBody(h)) - h.missing)
           false == h.fault = "message"
           f == Field(3, sent, <<>>, false)
<1>1. sent \in Seq(Byte) /\ Len(Message(h)) = 4 + Len(sent) /\ Len(Message(h)) < 65536
  BY MessageIs
<1>2. h.message \in Byte
  BY HelloParts DEF Writable
<1>3. Message(h) = <<h.message>> \o f
  BY DEF Message
<1> HIDE DEF sent
<1>4. <<>> \in Seq(Byte) /\ Len(<<>>) = 0 /\ 3 \in 1..3 /\ false \in BOOLEAN /\ Len(sent) \in Nat
  BY <1>1
<1> HIDE DEF false
<1>5. f \in Seq(Byte) /\ Len(f) = 3 + Len(sent) + Len(<<>>)
  <2>1. sent \in Seq(Byte)
    BY <1>1
  <2> QED BY ONLY <1>4, <2>1, FieldIs
<1>6. /\ data \in Seq(Byte) /\ end = 5 + Len(Message(h)) /\ end <= Len(data)
      /\ Holds(data, 5, Message(h), end)
  BY DEF Filled
<1> DEFINE m == Len(Message(h))
           l == Len(sent)
<1>7. end = 9 + l /\ end \in Nat /\ l \in Nat /\ l < 65532
  <2>1. m = 4 + l /\ m < 65536 /\ end = 5 + m /\ l \in Nat
    BY ONLY <1>1, <1>4, <1>6
  <2> HIDE DEF m, l
  <2> QED BY ONLY <2>1
<1> HIDE DEF m, l
<1>8. (6 <= end => data[6] = h.message) /\ Holds(data, 6, f, end)
  <2> HIDE DEF f
  <2> DEFINE at == 5
  <2>1. Holds(data, at, <<h.message>> \o f, end) /\ at \in Nat
    BY <1>3, <1>6
  <2> HIDE DEF at
  <2>2. (at + 1 <= end => data[at + 1] = h.message) /\ Holds(data, at + 1, f, end)
    BY ONLY <1>2, <1>5, <1>7, <2>1, HoldsPrefixed
  <2> QED BY <2>2 DEF at
<1>9. Filled(data, 6, f, end)
  <2>1. end = 6 + Len(f)
    BY ONLY <1>4, <1>5, <1>7 DEF l
  <2> QED BY <1>5, <1>6, <1>8, <2>1 DEF Filled
<1>10. Fits(Len(sent) + 1, 3)
  BY ONLY <1>7 DEF Fits, l
<1>11. /\ false => Behind(data, 6, 3, end) = Lost
       /\ ~false => Behind(data, 6, 3, end) = end
       /\ Filled(data, 9, sent, end)
  <2> DEFINE at == 6
  <2>1. Filled(data, at, Field(3, sent, <<>>, false), end)
    BY <1>9
  <2> HIDE DEF at
  <2>2. /\ false => Behind(data, at, 3, end) = Lost
        /\ ~false => Behind(data, at, 3, end) = end
        /\ Filled(data, at + 3, sent, end)
    BY ONLY <1>1, <1>4, <1>10, <2>1, LastField
  <2> QED BY <2>2 DEF at
<1>12. Past(5, HANDSHAKE_HEADER_LEN, end) = 9 /\ 9 # Lost /\ end # Lost
  BY ONLY <1>7 DEF Past, HANDSHAKE_HEADER_LEN, Lost
<1>13. data[6] = h.message
  BY <1>7, <1>8
<1>14. Handshake(data, 5, end)
         = IF h.message # CLIENT_HELLO THEN Only("NotTls")
           ELSE IF Behind(data, 6, 3, end) = Lost THEN Only("Malformed")
           ELSE ClientHello(data, 9, Behind(data, 6, 3, end))
  BY ONLY <1>12, <1>13 DEF Handshake
<1>15. CASE false
  <2>1. HelloSays(h) = Only("Malformed")
    BY <1>15 DEF HelloSays, false
  <2> QED BY ONLY <1>11, <1>14, <1>15, <2>1 DEF MessageSays
<1>16. CASE ~false
  <2>1. ClientHello(data, 9, end) = HelloSays(h)
    <3> DEFINE at == 9
    <3>1. Filled(data, at, SubSeq(HelloBody(h), 1, Len(HelloBody(h)) - h.missing), end)
      BY <1>11 DEF sent
    <3>2. h.fault # "message"
      BY <1>16 DEF false
    <3> HIDE DEF at
    <3>3. ClientHello(data, at, end) = HelloSays(h)
      BY <3>1, <3>2, HelloRead
    <3> QED BY <3>3 DEF at
  <2> QED BY ONLY <1>11, <1>12, <1>14, <1>16, <2>1 DEF MessageSays
<1> QED BY <1>15, <1>16

\* Where the record of a hello ends.
RecordLen(h) == 5 + Len(Message(h))

\* An encoding is bytes, the record and some more.
LEMMA EncodingIs ==
    ASSUME NEW h \in Writable
    PROVE  /\ Encoding(h) \in Seq(Byte) /\ Len(Encoding(h)) \in Nat
           /\ RecordLen(h) \in Nat /\ RecordLen(h) >= 5 /\ RecordLen(h) <= Len(Encoding(h))
<1> DEFINE m == Message(h)
           a == <<h.content, 3, 1>>
           b == BigEndian(Len(m), 2)
           c == <<0, 0, 0, 0, 0, 0, 0>>
           s == Encoding(h)
<1>1. m \in Seq(Byte) /\ Len(m) < 65536
  BY MessageIs
<1> HIDE DEF m
<1>2. Len(m) \in Nat /\ 2 \in 1..3 /\ Fits(Len(m), 2)
  BY <1>1 DEF Fits
<1>3. a \in Seq(Byte) /\ Len(a) = 3 /\ a[1] = h.content
  <2>1. h.content \in Byte
    BY HelloParts DEF Writable
  <2>2. 3 \in Byte /\ 1 \in Byte
    BY DEF Byte
  <2> QED BY ONLY <2>1, <2>2
<1>4. c \in Seq(Byte) /\ Len(c) = 7
  <2>1. 0 \in Byte
    BY DEF Byte
  <2> QED BY ONLY <2>1
<1>5. s = ((a \o b) \o m) \o c
  BY DEF Encoding, m
<1>6. b \in Seq(Byte) /\ Len(b) = 2
  BY ONLY <1>2, BigEndianIs
<1> HIDE DEF a, b, c, s
<1> DEFINE d == a \o b
           e == d \o m
<1>7. d \in Seq(Byte) /\ Len(d) = Len(a) + Len(b)
  BY ONLY <1>3, <1>6, ConcatProperties
<1> HIDE DEF d
<1>8. e \in Seq(Byte) /\ Len(e) = Len(d) + Len(m)
  <2>1. d \in Seq(Byte) /\ m \in Seq(Byte)
    BY <1>1, <1>7
  <2> QED BY ONLY <2>1, ConcatProperties
<1> HIDE DEF e
<1>9. s \in Seq(Byte) /\ Len(s) = Len(e) + Len(c)
  <2>1. s = e \o c
    BY <1>5 DEF e, d
  <2> QED BY ONLY <1>4, <1>8, <2>1, ConcatProperties
<1>10. Len(d) = 5 /\ Len(e) = 5 + Len(m) /\ Len(s) = 12 + Len(m)
  BY ONLY <1>2, <1>3, <1>4, <1>6, <1>7, <1>8, <1>9
<1>11. RecordLen(h) = 5 + Len(m)
  BY DEF RecordLen, m
<1>12. Len(s) \in Nat /\ RecordLen(h) \in Nat /\ RecordLen(h) >= 5 /\ RecordLen(h) <= Len(s)
  BY ONLY <1>2, <1>10, <1>11
<1> QED BY <1>9, <1>12 DEF s

\* The first n bytes of an encoding.
LEMMA PrefixIs ==
    ASSUME NEW h \in Writable, NEW n \in Nat, n <= Len(Encoding(h)),
           NEW data, data = SubSeq(Encoding(h), 1, n)
    PROVE  /\ data \in Seq(Byte) /\ Len(data) = n
           /\ n >= 1 => data[1] = h.content
           /\ n >= 5 => RecordEnd(data) = RecordLen(h)
           /\ n >= RecordLen(h) => Filled(data, 5, Message(h), RecordLen(h))
           /\ RecordLen(h) \in Nat /\ RecordLen(h) >= 5 /\ RecordLen(h) <= Len(Encoding(h))
           /\ Encoding(h) \in Seq(Byte)
<1> DEFINE m == Message(h)
           a == <<h.content, 3, 1>>
           b == BigEndian(Len(m), 2)
           c == <<0, 0, 0, 0, 0, 0, 0>>
           s == Encoding(h)
<1>1. m \in Seq(Byte) /\ Len(m) < 65536
  BY MessageIs
<1> HIDE DEF m
<1>2. Len(m) \in Nat /\ 2 \in 1..3 /\ Fits(Len(m), 2)
  BY <1>1 DEF Fits
<1>3. a \in Seq(Byte) /\ Len(a) = 3 /\ a[1] = h.content
  <2>1. h.content \in Byte
    BY HelloParts DEF Writable
  <2>2. 3 \in Byte /\ 1 \in Byte
    BY DEF Byte
  <2> QED BY ONLY <2>1, <2>2
<1>4. c \in Seq(Byte) /\ Len(c) = 7
  <2>1. 0 \in Byte
    BY DEF Byte
  <2> QED BY ONLY <2>1
<1>5. s = ((a \o b) \o m) \o c
  BY DEF Encoding, m
<1>6. b \in Seq(Byte) /\ Len(b) = 2
  BY ONLY <1>2, BigEndianIs
<1> HIDE DEF a, b, c, s
<1> DEFINE d == a \o b
           e == d \o m
<1>7. d \in Seq(Byte) /\ Len(d) = Len(a) + Len(b)
  BY ONLY <1>3, <1>6, ConcatProperties
<1> HIDE DEF d
<1>8. e \in Seq(Byte) /\ Len(e) = Len(d) + Len(m)
  <2>1. d \in Seq(Byte) /\ m \in Seq(Byte)
    BY <1>1, <1>7
  <2> QED BY ONLY <2>1, ConcatProperties
<1> HIDE DEF e
<1>9. s \in Seq(Byte) /\ Len(s) = Len(e) + Len(c)
  <2>1. s = e \o c
    BY <1>5 DEF e, d
  <2> QED BY ONLY <1>4, <1>8, <2>1, ConcatProperties
<1>10. Len(d) = 5 /\ Len(e) = 5 + Len(m) /\ Len(s) = 12 + Len(m)
  BY ONLY <1>2, <1>3, <1>4, <1>6, <1>7, <1>8, <1>9
<1>11. data \in Seq(Byte) /\ Len(data) = n /\ Holds(data, 0, s, n)
  <2>1. data = SubSeq(s, 1, n) /\ n <= Len(s)
    BY DEF s
  <2>2. data \in Seq(Byte) /\ Len(data) = n
    BY ONLY <1>9, <2>1, n \in Nat
  <2>3. Filled(data, 0, SubSeq(s, 1, n), n)
    <3>1. Holds(data, 0, data, n)
      BY DEF Holds
    <3> QED BY ONLY <2>1, <2>2, <3>1, n \in Nat DEF Filled
  <2>4. Holds(data, 0, s, n)
    BY ONLY <1>9, <2>1, <2>3, n \in Nat, HoldsBeginning
  <2> QED BY <2>2, <2>4
<1> DEFINE z == 0
<1>12. z \in Nat /\ n \in Nat
  OBVIOUS
<1>13. Holds(data, z, e \o c, n)
  BY <1>5, <1>11 DEF e, d
<1> HIDE DEF z
<1>14. Holds(data, z, d \o m, n)
  <2>1. Holds(data, z, e, n)
    BY ONLY <1>4, <1>8, <1>12, <1>13, HoldsBoth
  <2> QED BY <2>1 DEF e
<1>15. Holds(data, z, a \o b, n) /\ Holds(data, z + Len(d), m, n)
  <2>1. Holds(data, z, d, n) /\ Holds(data, z + Len(d), m, n)
    BY ONLY <1>1, <1>7, <1>12, <1>14, HoldsBoth
  <2> QED BY <2>1 DEF d
<1>16. Holds(data, z, a, n) /\ Holds(data, z + Len(a), b, n)
  BY ONLY <1>3, <1>6, <1>12, <1>15, HoldsBoth
<1>17. Holds(data, 0, a, n) /\ Holds(data, 3, b, n) /\ Holds(data, 5, m, n)
  BY <1>3, <1>10, <1>15, <1>16 DEF z
<1>18. n >= 1 => data[1] = h.content
  BY <1>3, <1>17 DEF Holds
<1>19. RecordLen(h) = 5 + Len(m)
  BY DEF RecordLen, m
<1>20. n >= 5 => RecordEnd(data) = RecordLen(h)
  <2> SUFFICES ASSUME n >= 5 PROVE Number(data, 3, 2) = Len(m)
    BY <1>19 DEF RecordEnd, RECORD_HEADER_LEN
  <2> DEFINE at == 3
  <2>1. at + 2 <= n /\ n <= Len(data) /\ at \in Nat /\ Holds(data, at, BigEndian(Len(m), 2), n)
    BY <1>11, <1>17 DEF b
  <2> HIDE DEF at
  <2>2. Number(data, at, 2) = Len(m)
    BY ONLY <1>2, <1>11, <1>12, <2>1, NumberOfBytes
  <2> QED BY <2>2 DEF at
<1>21. n >= RecordLen(h) => Filled(data, 5, m, RecordLen(h))
  <2> SUFFICES ASSUME n >= RecordLen(h) PROVE Filled(data, 5, m, RecordLen(h))
    OBVIOUS
  <2>1. Holds(data, 5, m, RecordLen(h))
    <3>1. \A k \in 1..Len(m) : 5 + k <= n
      BY <1>2, <1>19
    <3> QED BY <1>17, <3>1 DEF Holds
  <2> QED BY <1>1, <1>11, <1>19, <2>1 DEF Filled
<1>22. RecordLen(h) \in Nat /\ RecordLen(h) >= 5 /\ RecordLen(h) <= Len(s)
  BY <1>2, <1>10, <1>19
<1> QED BY <1>9, <1>11, <1>18, <1>20, <1>21, <1>22 DEF m, s

\* Of a complete record the parser says what is meant, whatever follows it.
LEMMA WholeRead ==
    ASSUME NEW h \in Writable, NEW n \in Nat, n >= RecordLen(h), n <= Len(Encoding(h))
    PROVE  tryExtractSni(SubSeq(Encoding(h), 1, n)) = Meant(h)
<1> DEFINE data == SubSeq(Encoding(h), 1, n)
<1>1. /\ Len(data) = n
      /\ n >= 1 => data[1] = h.content
      /\ n >= 5 => RecordEnd(data) = RecordLen(h)
      /\ n >= RecordLen(h) => Filled(data, 5, Message(h), RecordLen(h))
      /\ RecordLen(h) \in Nat /\ RecordLen(h) >= 5
  BY PrefixIs
<1> HIDE DEF data
<1>2. /\ ~(Len(data) < 5) /\ data[1] = h.content /\ RecordEnd(data) = RecordLen(h)
      /\ ~(Len(data) < RecordLen(h)) /\ Filled(data, 5, Message(h), RecordLen(h))
  BY <1>1
<1>3. tryExtractSni(data) = IF h.content # HANDSHAKE THEN Only("NotTls")
                            ELSE Handshake(data, 5, RecordLen(h))
  BY ONLY <1>2 DEF tryExtractSni, RECORD_HEADER_LEN
<1>4. Handshake(data, 5, RecordLen(h)) = MessageSays(h)
  BY <1>2, MessageRead
<1>5. Meant(h) = IF h.content # HANDSHAKE \/ h.message # CLIENT_HELLO THEN Only("NotTls")
                 ELSE HelloSays(h)
  BY ONLY DEF Meant, HelloSays
<1>6. tryExtractSni(data) = Meant(h)
  BY ONLY <1>3, <1>4, <1>5 DEF MessageSays
<1> QED BY <1>6 DEF data

\* Of less than a record the parser says only whether it begins like a handshake.
LEMMA PartRead ==
    ASSUME NEW h \in Writable, NEW n \in Nat, n < RecordLen(h)
    PROVE  tryExtractSni(SubSeq(Encoding(h), 1, n))
             = IF n >= 5 /\ h.content # HANDSHAKE THEN Only("NotTls") ELSE Only("Incomplete")
<1> DEFINE data == SubSeq(Encoding(h), 1, n)
<1>0. n <= Len(Encoding(h))
  <2>1. Len(Encoding(h)) \in Nat /\ RecordLen(h) \in Nat /\ RecordLen(h) <= Len(Encoding(h))
    BY EncodingIs
  <2> QED BY ONLY <2>1, n \in Nat, n < RecordLen(h)
<1>1. /\ Len(data) = n
      /\ n >= 1 => data[1] = h.content
      /\ n >= 5 => RecordEnd(data) = RecordLen(h)
      /\ RecordLen(h) \in Nat /\ RecordLen(h) >= 5
  BY <1>0, PrefixIs
<1> HIDE DEF data
<1>2. CASE n < 5
  <2>1. Len(data) < 5 /\ ~(n >= 5)
    BY <1>1, <1>2
  <2>2. tryExtractSni(data) = Only("Incomplete")
    BY ONLY <2>1 DEF tryExtractSni, RECORD_HEADER_LEN
  <2> QED BY <2>1, <2>2 DEF data
<1>3. CASE n >= 5
  <2>1. ~(Len(data) < 5) /\ data[1] = h.content /\ Len(data) < RecordEnd(data)
    BY <1>1, <1>3
  <2>2. tryExtractSni(data) = IF h.content # HANDSHAKE THEN Only("NotTls") ELSE Only("Incomplete")
    BY ONLY <2>1 DEF tryExtractSni, RECORD_HEADER_LEN
  <2> QED BY <1>3, <2>2 DEF data
<1> QED BY <1>2, <1>3

-----------------------------------------------------------------------------
(* The answer depends on nothing behind the record, whatever the bytes are. *)

\* Two strings of bytes that have the same ones up to some end.
SameUpTo(d, e, end) ==
    /\ d \in Seq(Byte) /\ e \in Seq(Byte)
    /\ end \in Nat /\ end <= Len(d) /\ end <= Len(e)
    /\ \A k \in 1..end : d[k] = e[k]

\* And so up to any end before.
LEMMA SameBefore ==
    ASSUME NEW d, NEW e, NEW end, SameUpTo(d, e, end), NEW m \in Nat, m <= end
    PROVE  SameUpTo(d, e, m)
<1>1. end \in Nat /\ end <= Len(d) /\ end <= Len(e) /\ Len(d) \in Nat /\ Len(e) \in Nat
  BY DEF SameUpTo
<1>2. m <= Len(d) /\ m <= Len(e) /\ \A k \in 1..m : k \in 1..end
  BY <1>1
<1> QED BY <1>2 DEF SameUpTo

\* The same numbers.
LEMMA SameNumber ==
    ASSUME NEW d, NEW e, NEW end, SameUpTo(d, e, end),
           NEW pos \in Nat, NEW width \in 1..3, pos + width <= end
    PROVE  Number(d, pos, width) = Number(e, pos, width) /\ Number(d, pos, width) \in Nat
<1>1. /\ d \in Seq(Byte) /\ e \in Seq(Byte) /\ end \in Nat
      /\ pos + width <= Len(d) /\ pos + width <= Len(e)
      /\ \A k \in 1..end : d[k] = e[k]
  BY DEF SameUpTo
<1>2. /\ d[pos + 1] = e[pos + 1]
      /\ width >= 2 => d[pos + 2] = e[pos + 2]
      /\ width = 3 => d[pos + 3] = e[pos + 3]
  <2>1. pos + 1 \in 1..end /\ (width >= 2 => pos + 2 \in 1..end) /\ (width = 3 => pos + 3 \in 1..end)
    BY <1>1
  <2> QED BY <1>1, <2>1
<1>3. width = 1 \/ width = 2 \/ width = 3
  OBVIOUS
<1>4. /\ Number(d, pos, width) \in Nat
      /\ width = 1 => Number(d, pos, width) = d[pos + 1]
      /\ width = 2 => Number(d, pos, width) = 256 * d[pos + 1] + d[pos + 2]
      /\ width = 3 => Number(d, pos, width)
                        = 65536 * d[pos + 1] + 256 * d[pos + 2] + d[pos + 3]
  BY <1>1, NumberIs
<1>5. /\ width = 1 => Number(e, pos, width) = e[pos + 1]
      /\ width = 2 => Number(e, pos, width) = 256 * e[pos + 1] + e[pos + 2]
      /\ width = 3 => Number(e, pos, width)
                        = 65536 * e[pos + 1] + 256 * e[pos + 2] + e[pos + 3]
  BY <1>1, NumberIs
<1>6. CASE width = 1
  BY ONLY <1>2, <1>4, <1>5, <1>6
<1>7. CASE width = 2
  <2>1. d[pos + 2] = e[pos + 2]
    BY <1>2, <1>7
  <2> QED BY ONLY <1>2, <1>4, <1>5, <1>7, <2>1
<1>8. CASE width = 3
  <2>1. d[pos + 2] = e[pos + 2] /\ d[pos + 3] = e[pos + 3]
    BY <1>2, <1>8
  <2> QED BY ONLY <1>2, <1>4, <1>5, <1>8, <2>1
<1> QED BY <1>3, <1>6, <1>7, <1>8

\* The same fields, which end behind their length and within the container.
LEMMA SameBehind ==
    ASSUME NEW d, NEW e, NEW end, SameUpTo(d, e, end),
           NEW pos \in Nat \cup {Lost}, NEW width \in 1..3
    PROVE  /\ Behind(d, pos, width, end) = Behind(e, pos, width, end)
           /\ \/ Behind(d, pos, width, end) = Lost
              \/ /\ pos \in Nat /\ Behind(d, pos, width, end) \in Nat
                 /\ pos + width <= Behind(d, pos, width, end)
                 /\ Behind(d, pos, width, end) <= end
<1>1. d \in Seq(Byte) /\ e \in Seq(Byte) /\ end \in Nat /\ end <= Len(d) /\ end <= Len(e)
  BY DEF SameUpTo
<1>2. CASE pos = Lost
  BY <1>2, BehindLost
<1>3. CASE pos # Lost
  <2>1. pos \in Nat
    BY <1>3
  <2>2. \/ Behind(d, pos, width, end) = Lost
        \/ /\ Behind(d, pos, width, end) \in Nat
           /\ pos + width <= Behind(d, pos, width, end)
           /\ Behind(d, pos, width, end) <= end
    BY <1>1, <2>1, BehindIs
  <2>3. CASE pos + width > end
    <3>1. Past(pos, width, end) = Lost
      BY <2>3 DEF Past
    <3> QED BY <2>2, <2>1, <3>1 DEF Behind
  <2>4. CASE pos + width <= end
    <3>1. Number(d, pos, width) = Number(e, pos, width)
      BY <2>1, <2>4, SameNumber
    <3>2. Behind(d, pos, width, end) = Behind(e, pos, width, end)
      BY ONLY <3>1 DEF Behind
    <3> QED BY ONLY <2>1, <2>2, <3>2
  <2> QED BY <1>1, <2>1, <2>3, <2>4
<1> QED BY <1>2, <1>3

\* The same pieces.
LEMMA SamePiece ==
    ASSUME NEW d, NEW e, NEW end, SameUpTo(d, e, end),
           NEW a \in Nat, a >= 1, NEW b \in Nat, b <= end
    PROVE  SubSeq(d, a, b) = SubSeq(e, a, b)
<1>1. /\ d \in Seq(Byte) /\ e \in Seq(Byte) /\ end \in Nat /\ end <= Len(d) /\ end <= Len(e)
      /\ \A k \in 1..end : d[k] = e[k]
  BY DEF SameUpTo
<1>2. \A i \in a..b : d[i] \in Byte /\ e[i] \in Byte /\ d[i] = e[i]
  <2>1. \A i \in a..b : i \in 1..end /\ i \in 1..Len(d) /\ i \in 1..Len(e)
    BY <1>1
  <2> QED BY <1>1, <2>1
<1>3. a \in Int /\ b \in Int
  OBVIOUS
<1> DEFINE u == SubSeq(d, a, b)
           v == SubSeq(e, a, b)
           n == IF a <= b THEN b - a + 1 ELSE 0
<1>4. u \in Seq(Byte) /\ Len(u) = n /\ \A i \in 1..(b - a + 1) : u[i] = d[a + i - 1]
  BY <1>2, <1>3, SubSeqProperties
<1>5. v \in Seq(Byte) /\ Len(v) = n /\ \A i \in 1..(b - a + 1) : v[i] = e[a + i - 1]
  BY <1>2, <1>3, SubSeqProperties
<1>6. \A i \in 1..n : i \in 1..(b - a + 1) /\ a + i - 1 \in a..b
  OBVIOUS
<1> HIDE DEF u, v, n
<1>7. \A i \in 1..Len(u) : u[i] = v[i]
  BY ONLY <1>2, <1>4, <1>5, <1>6
<1>8. u = v
  BY ONLY <1>4, <1>5, <1>7, SeqEqual
<1> QED BY <1>8 DEF u, v

\* The same name in a list.
LEMMA SameHostName ==
    ASSUME NEW d, NEW e, NEW end, SameUpTo(d, e, end), NEW pos \in Nat
    PROVE  HostName(d, pos, end) = HostName(e, pos, end)
<1> DEFINE Good == {m \in Nat : \A p \in Nat :
                        p + m > end => HostName(d, p, end) = HostName(e, p, end)}
<1>1. /\ d \in Seq(Byte) /\ e \in Seq(Byte) /\ end \in Nat /\ end <= Len(d) /\ end <= Len(e)
      /\ \A k \in 1..end : d[k] = e[k]
  BY DEF SameUpTo
<1>2. ASSUME NEW p \in Nat, p + 3 > end PROVE HostName(d, p, end) = HostName(e, p, end)
  BY <1>1, <1>2, HostNameEnds
<1>3. 0 \in Good
  <2>1. \A p \in Nat : p + 0 > end => p + 3 > end
    BY <1>1
  <2> QED BY <1>2, <2>1
<1>4. ASSUME NEW m \in Nat, m \in Good PROVE m + 1 \in Good
  <2> SUFFICES ASSUME NEW p \in Nat, p + (m + 1) > end, p + 3 <= end
               PROVE  HostName(d, p, end) = HostName(e, p, end)
    <3>1. \A p \in Nat : p + 3 > end \/ p + 3 <= end
      BY <1>1
    <3> QED BY <1>2, <3>1
  <2> DEFINE next == Behind(d, p + 1, 2, end)
  <2>1. /\ Behind(e, p + 1, 2, end) = next
        /\ next = Lost \/ (next \in Nat /\ p + 3 <= next /\ next <= end)
    <3>1. p + 1 \in Nat \cup {Lost} /\ 2 \in 1..3 /\ p + 1 + 2 = p + 3
      OBVIOUS
    <3> QED BY <3>1, SameBehind
  <2>2. \A q \in Nat : q + m > end => HostName(d, q, end) = HostName(e, q, end)
    BY <1>4
  <2> HIDE DEF next, Good
  <2>3. CASE next = Lost
    <3>1. Behind(d, p + 1, 2, end) = Lost /\ Behind(e, p + 1, 2, end) = Lost
      BY <2>1, <2>3 DEF next
    <3> QED BY <1>1, <3>1, HostNameFails
  <2>4. CASE next # Lost
    <3>1. Behind(d, p + 1, 2, end) = next
      BY DEF next
    <3>2. HostName(d, p, end)
            = IF d[p + 1] = HOST_NAME THEN Answer("Found", SubSeq(d, p + 4, next))
              ELSE HostName(d, next, end)
      BY <1>1, <2>4, <3>1, HostNameGoesOn
    <3>3. HostName(e, p, end)
            = IF e[p + 1] = HOST_NAME THEN Answer("Found", SubSeq(e, p + 4, next))
              ELSE HostName(e, next, end)
      BY <1>1, <2>1, <2>4, HostNameGoesOn
    <3>4. d[p + 1] = e[p + 1]
      <4>1. p + 1 \in 1..end
        BY <1>1
      <4> QED BY <1>1, <4>1
    <3>5. SubSeq(d, p + 4, next) = SubSeq(e, p + 4, next)
      <4>1. p + 4 \in Nat /\ p + 4 >= 1 /\ next \in Nat /\ next <= end
        BY <2>1, <2>4
      <4> QED BY ONLY <4>1, SameUpTo(d, e, end), SamePiece
    <3>6. HostName(d, next, end) = HostName(e, next, end)
      <4>1. next \in Nat /\ next + m > end
        BY <1>1, <2>1, <2>4
      <4> QED BY <2>2, <4>1
    <3>7. CASE d[p + 1] = HOST_NAME
      <4>1. HostName(d, p, end) = Answer("Found", SubSeq(d, p + 4, next))
        BY ONLY <3>2, <3>7
      <4>2. HostName(e, p, end) = Answer("Found", SubSeq(e, p + 4, next))
        BY ONLY <3>3, <3>4, <3>7
      <4> QED BY ONLY <3>5, <4>1, <4>2, Zenon
    <3>8. CASE d[p + 1] # HOST_NAME
      BY ONLY <3>2, <3>3, <3>4, <3>6, <3>8
    <3> QED BY <3>7, <3>8
  <2> QED BY <2>3, <2>4
<1>5. Nat \subseteq Good
  <2> HIDE DEF Good
  <2> QED BY <1>3, <1>4, Reads!CountingUp
<1>6. end + 1 \in Good /\ pos + (end + 1) > end
  <2> HIDE DEF Good
  <2> QED BY <1>1, <1>5
<1> QED BY <1>6

\* The same in the extension.
LEMMA SameServerNameList ==
    ASSUME NEW d, NEW e, NEW end, SameUpTo(d, e, end), NEW pos \in Nat
    PROVE  ServerNameList(d, pos, end) = ServerNameList(e, pos, end)
<1> DEFINE list_end == Behind(d, pos, 2, end)
<1>1. /\ Behind(e, pos, 2, end) = list_end
      /\ list_end = Lost \/ (list_end \in Nat /\ list_end <= end)
  <2>1. pos \in Nat \cup {Lost} /\ 2 \in 1..3
    OBVIOUS
  <2> QED BY <2>1, SameBehind
<1>2. list_end # Lost => HostName(d, pos + 2, list_end) = HostName(e, pos + 2, list_end)
  <2> SUFFICES ASSUME list_end # Lost
               PROVE  HostName(d, pos + 2, list_end) = HostName(e, pos + 2, list_end)
    OBVIOUS
  <2> HIDE DEF list_end
  <2>1. SameUpTo(d, e, list_end)
    BY <1>1, SameBefore
  <2>2. pos + 2 \in Nat
    OBVIOUS
  <2> QED BY <2>1, <2>2, SameHostName
<1> QED BY ONLY <1>1, <1>2 DEF ServerNameList

\* The same in all the extensions.
LEMMA SameExtensions ==
    ASSUME NEW d, NEW e, NEW end, SameUpTo(d, e, end), NEW pos \in Nat
    PROVE  Extensions(d, pos, end) = Extensions(e, pos, end)
<1> DEFINE Good == {m \in Nat : \A p \in Nat :
                        p + m > end => Extensions(d, p, end) = Extensions(e, p, end)}
<1>1. d \in Seq(Byte) /\ e \in Seq(Byte) /\ end \in Nat /\ end <= Len(d) /\ end <= Len(e)
  BY DEF SameUpTo
<1>2. ASSUME NEW p \in Nat, p + 4 > end PROVE Extensions(d, p, end) = Extensions(e, p, end)
  BY <1>1, <1>2, ExtensionsEnd
<1>3. 0 \in Good
  <2>1. \A p \in Nat : p + 0 > end => p + 4 > end
    BY <1>1
  <2> QED BY <1>2, <2>1
<1>4. ASSUME NEW m \in Nat, m \in Good PROVE m + 1 \in Good
  <2> SUFFICES ASSUME NEW p \in Nat, p + (m + 1) > end, p + 4 <= end
               PROVE  Extensions(d, p, end) = Extensions(e, p, end)
    <3>1. \A p \in Nat : p + 4 > end \/ p + 4 <= end
      BY <1>1
    <3> QED BY <1>2, <3>1
  <2> DEFINE next == Behind(d, p + 2, 2, end)
  <2>1. /\ Behind(e, p + 2, 2, end) = next
        /\ next = Lost \/ (next \in Nat /\ p + 4 <= next /\ next <= end)
    <3>1. p + 2 \in Nat \cup {Lost} /\ 2 \in 1..3 /\ p + 2 + 2 = p + 4
      OBVIOUS
    <3> QED BY <3>1, SameBehind
  <2>2. \A q \in Nat : q + m > end => Extensions(d, q, end) = Extensions(e, q, end)
    BY <1>4
  <2> HIDE DEF next, Good
  <2>3. CASE next = Lost
    <3>1. Behind(d, p + 2, 2, end) = Lost /\ Behind(e, p + 2, 2, end) = Lost
      BY <2>1, <2>3 DEF next
    <3> QED BY <1>1, <3>1, ExtensionsFail
  <2>4. CASE next # Lost
    <3>1. Behind(d, p + 2, 2, end) = next
      BY DEF next
    <3>2. Extensions(d, p, end)
            = IF Number(d, p, 2) = SERVER_NAME THEN ServerNameList(d, p + 4, next)
              ELSE Extensions(d, next, end)
      BY <1>1, <2>4, <3>1, ExtensionsGoOn
    <3>3. Extensions(e, p, end)
            = IF Number(e, p, 2) = SERVER_NAME THEN ServerNameList(e, p + 4, next)
              ELSE Extensions(e, next, end)
      BY <1>1, <2>1, <2>4, ExtensionsGoOn
    <3>4. Number(d, p, 2) = Number(e, p, 2)
      <4>1. p + 2 <= end /\ 2 \in 1..3
        BY <1>1
      <4> QED BY <4>1, SameNumber
    <3>5. ServerNameList(d, p + 4, next) = ServerNameList(e, p + 4, next)
      <4>1. p + 4 \in Nat /\ next \in Nat /\ next <= end
        BY <2>1, <2>4
      <4>2. SameUpTo(d, e, next)
        BY <4>1, SameBefore
      <4> QED BY <4>1, <4>2, SameServerNameList
    <3>6. Extensions(d, next, end) = Extensions(e, next, end)
      <4>1. next \in Nat /\ next + m > end
        BY <1>1, <2>1, <2>4
      <4> QED BY <2>2, <4>1
    <3> QED BY ONLY <3>2, <3>3, <3>4, <3>5, <3>6
  <2> QED BY <2>3, <2>4
<1>5. Nat \subseteq Good
  <2> HIDE DEF Good
  <2> QED BY <1>3, <1>4, Reads!CountingUp
<1>6. end + 1 \in Good /\ pos + (end + 1) > end
  <2> HIDE DEF Good
  <2> QED BY <1>1, <1>5
<1> QED BY <1>6

\* The same in the ClientHello.
LEMMA SameClientHello ==
    ASSUME NEW d, NEW e, NEW end, SameUpTo(d, e, end), NEW pos \in Nat
    PROVE  ClientHello(d, pos, end) = ClientHello(e, pos, end)
<1> DEFINE session_id == Past(pos, FIXED_LEN, end)
           cipher_suites == Behind(d, session_id, 1, end)
           comp_methods == Behind(d, cipher_suites, 2, end)
           extensions == Behind(d, comp_methods, 1, end)
           extensions_end == Behind(d, extensions, 2, end)
<1>1. end \in Nat /\ 1 \in 1..3 /\ 2 \in 1..3
  BY DEF SameUpTo
<1>2. session_id \in Nat \cup {Lost}
  BY TlsAssumption DEF Past, Lost
<1> HIDE DEF session_id
<1>3. cipher_suites \in Nat \cup {Lost} /\ Behind(e, session_id, 1, end) = cipher_suites
  BY <1>1, <1>2, SameBehind
<1> HIDE DEF cipher_suites
<1>4. comp_methods \in Nat \cup {Lost} /\ Behind(e, cipher_suites, 2, end) = comp_methods
  BY <1>1, <1>3, SameBehind
<1> HIDE DEF comp_methods
<1>5. extensions \in Nat \cup {Lost} /\ Behind(e, comp_methods, 1, end) = extensions
  BY <1>1, <1>4, SameBehind
<1> HIDE DEF extensions
<1>6. /\ Behind(e, extensions, 2, end) = extensions_end
      /\ \/ extensions_end = Lost
         \/ extensions \in Nat /\ extensions_end \in Nat /\ extensions_end <= end
  BY <1>1, <1>5, SameBehind
<1> HIDE DEF extensions_end
<1>7. extensions_end # Lost => Extensions(d, extensions + 2, extensions_end)
                                 = Extensions(e, extensions + 2, extensions_end)
  <2> SUFFICES ASSUME extensions_end # Lost
               PROVE  Extensions(d, extensions + 2, extensions_end)
                        = Extensions(e, extensions + 2, extensions_end)
    OBVIOUS
  <2>1. extensions + 2 \in Nat /\ SameUpTo(d, e, extensions_end)
    BY <1>6, SameBefore
  <2> QED BY <2>1, SameExtensions
<1>8. ClientHello(d, pos, end)
        = IF extensions = end THEN Only("NoSni")
          ELSE IF extensions_end = Lost THEN Only("Malformed")
          ELSE Extensions(d, extensions + 2, extensions_end)
  BY DEF ClientHello, session_id, cipher_suites, comp_methods, extensions, extensions_end
<1>9. ClientHello(e, pos, end)
        = IF extensions = end THEN Only("NoSni")
          ELSE IF extensions_end = Lost THEN Only("Malformed")
          ELSE Extensions(e, extensions + 2, extensions_end)
  BY <1>3, <1>4, <1>5, <1>6 DEF ClientHello, session_id
<1> QED BY ONLY <1>7, <1>8, <1>9

\* The same in the handshake message.
LEMMA SameHandshake ==
    ASSUME NEW d, NEW e, NEW end, SameUpTo(d, e, end), NEW pos \in Nat
    PROVE  Handshake(d, pos, end) = Handshake(e, pos, end)
<1> DEFINE body == Past(pos, HANDSHAKE_HEADER_LEN, end)
           message_end == Behind(d, pos + 1, 3, end)
<1>1. end \in Nat /\ \A k \in 1..end : d[k] = e[k]
  BY DEF SameUpTo
<1>2. /\ Behind(e, pos + 1, 3, end) = message_end
      /\ message_end = Lost \/ (message_end \in Nat /\ message_end <= end)
  <2>1. pos + 1 \in Nat \cup {Lost} /\ 3 \in 1..3
    OBVIOUS
  <2> QED BY <2>1, SameBehind
<1>3. body # Lost => body \in Nat /\ d[pos + 1] = e[pos + 1]
  <2> SUFFICES ASSUME body # Lost PROVE body \in Nat /\ pos + 1 \in 1..end
    BY <1>1
  <2> QED BY <1>1 DEF Past, HANDSHAKE_HEADER_LEN, Lost
<1> HIDE DEF body, message_end
<1>4. body # Lost /\ message_end # Lost
        => ClientHello(d, body, message_end) = ClientHello(e, body, message_end)
  <2> SUFFICES ASSUME body # Lost, message_end # Lost
               PROVE  ClientHello(d, body, message_end) = ClientHello(e, body, message_end)
    OBVIOUS
  <2>1. body \in Nat /\ SameUpTo(d, e, message_end)
    BY <1>2, <1>3, SameBefore
  <2> QED BY <2>1, SameClientHello
<1>5. Handshake(d, pos, end)
        = IF body = Lost THEN Only("Malformed")
          ELSE IF d[pos + 1] # CLIENT_HELLO THEN Only("NotTls")
          ELSE IF message_end = Lost THEN Only("Malformed")
          ELSE ClientHello(d, body, message_end)
  BY DEF Handshake, body, message_end
<1>6. Handshake(e, pos, end)
        = IF body = Lost THEN Only("Malformed")
          ELSE IF e[pos + 1] # CLIENT_HELLO THEN Only("NotTls")
          ELSE IF message_end = Lost THEN Only("Malformed")
          ELSE ClientHello(e, body, message_end)
  BY <1>2 DEF Handshake, body
<1> QED BY ONLY <1>3, <1>4, <1>5, <1>6

\* Bytes behind a complete record change nothing.
LEMMA SameAnswer ==
    ASSUME NEW d, NEW e, SameUpTo(d, e, Len(d)), Len(d) >= 5
    PROVE  /\ Len(e) >= Len(d) /\ d[1] = e[1]
           /\ RecordEnd(d) = RecordEnd(e) /\ RecordEnd(d) \in Nat /\ RecordEnd(d) >= 5
           /\ Len(d) >= RecordEnd(d) => tryExtractSni(d) = tryExtractSni(e)
<1>1. /\ d \in Seq(Byte) /\ e \in Seq(Byte) /\ Len(d) \in Nat /\ Len(e) \in Nat
      /\ Len(d) <= Len(e) /\ \A k \in 1..Len(d) : d[k] = e[k]
  BY DEF SameUpTo
<1>2. d[1] = e[1]
  <2>1. 1 \in 1..Len(d)
    BY <1>1
  <2> QED BY <1>1, <2>1
<1>3. RecordEnd(d) = RecordEnd(e) /\ RecordEnd(d) \in Nat /\ RecordEnd(d) >= 5
  <2>1. 3 \in Nat /\ 2 \in 1..3 /\ 3 + 2 <= Len(d)
    BY <1>1
  <2>2. Number(d, 3, 2) = Number(e, 3, 2) /\ Number(d, 3, 2) \in Nat
    BY <2>1, SameNumber
  <2> HIDE DEF Number
  <2> QED BY <2>2 DEF RecordEnd, RECORD_HEADER_LEN
<1>4. ASSUME Len(d) >= RecordEnd(d) PROVE tryExtractSni(d) = tryExtractSni(e)
  <2> DEFINE end == RecordEnd(d)
  <2>1. end \in Nat /\ end <= Len(d) /\ RecordEnd(e) = end
    BY <1>1, <1>3, <1>4
  <2> HIDE DEF end
  <2>2. ~(Len(d) < 5) /\ ~(Len(e) < 5) /\ ~(Len(d) < end) /\ ~(Len(e) < end)
    BY <1>1, <2>1
  <2>3. Handshake(d, 5, end) = Handshake(e, 5, end)
    <3> DEFINE at == 5
    <3>1. SameUpTo(d, e, end) /\ at \in Nat
      BY <2>1, SameBefore
    <3> HIDE DEF at
    <3>2. Handshake(d, at, end) = Handshake(e, at, end)
      BY ONLY <3>1, SameHandshake
    <3> QED BY <3>2 DEF at
  <2>4. tryExtractSni(d) = IF d[1] # HANDSHAKE THEN Only("NotTls") ELSE Handshake(d, 5, end)
    BY ONLY <2>2 DEF tryExtractSni, RECORD_HEADER_LEN, end
  <2>5. tryExtractSni(e) = IF e[1] # HANDSHAKE THEN Only("NotTls") ELSE Handshake(e, 5, end)
    BY ONLY <2>1, <2>2 DEF tryExtractSni, RECORD_HEADER_LEN
  <2> QED BY ONLY <1>2, <2>3, <2>4, <2>5
<1> QED BY <1>1, <1>2, <1>3, <1>4

\* What lies between two offsets.
LEMMA WindowIs ==
    ASSUME NEW data \in Seq(Byte), NEW from \in Nat, NEW to \in Nat, from <= to, to <= Len(data)
    PROVE  /\ SubSeq(data, from + 1, to) \in Seq(Byte)
           /\ Len(SubSeq(data, from + 1, to)) = to - from
           /\ \A k \in 1..(to - from) : SubSeq(data, from + 1, to)[k] = data[from + k]
<1> DEFINE lo == from + 1
           w == SubSeq(data, lo, to)
<1>1. lo \in Int /\ to \in Int /\ \A i \in lo..to : data[i] \in Byte
  <2>1. \A i \in lo..to : i \in 1..Len(data)
    OBVIOUS
  <2> QED BY <2>1
<1> HIDE DEF lo
<1>2. /\ w \in Seq(Byte) /\ Len(w) = IF lo <= to THEN to - lo + 1 ELSE 0
      /\ \A i \in 1..(to - lo + 1) : w[i] = data[lo + i - 1]
  BY ONLY <1>1, SubSeqProperties
<1> HIDE DEF w
<1>3. Len(w) = to - from
  BY <1>2 DEF lo
<1>4. \A k \in 1..(to - from) : w[k] = data[from + k]
  <2>1. \A k \in 1..(to - from) : k \in 1..(to - lo + 1) /\ lo + k - 1 = from + k
    BY DEF lo
  <2> QED BY ONLY <1>2, <2>1
<1> QED BY <1>2, <1>3, <1>4 DEF w, lo

-----------------------------------------------------------------------------
(* The theorems about the parser.                                          *)

\* The answer is tryExtractSni's on what has arrived of an encoding.
AnswerInv ==
    /\ hello \in Hellos
    /\ stream = Encoding(hello)
    /\ len \in 0..Len(stream)
    /\ answer = tryExtractSni(SubSeq(stream, 1, len))

\* Every byte that arrives is answered for.
LEMMA AnswerInvHolds == Spec => []AnswerInv
<1>1. Init => AnswerInv
  <2> SUFFICES ASSUME Init PROVE AnswerInv
    OBVIOUS
  <2>1. hello \in Writable /\ stream = Encoding(hello) /\ len = 0 /\ answer = tryExtractSni(<<>>)
    BY HelloAssumption DEF Init
  <2>2. stream \in Seq(Byte) /\ Len(stream) \in Nat
    BY <2>1, EncodingIs
  <2>3. SubSeq(stream, 1, 0) = <<>>
    BY ONLY <2>2
  <2>4. len \in 0..Len(stream)
    BY ONLY <2>1, <2>2
  <2> QED BY <2>1, <2>3, <2>4 DEF Init, AnswerInv
<1>2. AnswerInv /\ [Next]_vars => AnswerInv'
  <2> SUFFICES ASSUME AnswerInv, [Next]_vars PROVE AnswerInv'
    OBVIOUS
  <2>1. CASE Arrive
    <3>1. hello \in Hellos /\ stream = Encoding(hello) /\ len \in 0..Len(stream)
      BY DEF AnswerInv
    <3>2. len < Len(stream) /\ len' = len + 1 /\ hello' = hello /\ stream' = stream
      BY <2>1 DEF Arrive
    <3>3. answer' = tryExtractSni(SubSeq(stream, 1, len'))
      BY <2>1 DEF Arrive
    <3>4. Len(stream) \in Nat
      BY <3>1, HelloAssumption, EncodingIs
    <3>5. len' \in 0..Len(stream)
      BY ONLY <3>1, <3>2, <3>4
    <3>6. Encoding(hello)' = Encoding(hello')
      OBVIOUS
    <3> QED BY <3>1, <3>2, <3>3, <3>5 DEF AnswerInv
  <2>2. CASE UNCHANGED vars
    BY <2>2 DEF AnswerInv, vars
  <2> QED BY <2>1, <2>2 DEF Next
<1> QED BY <1>1, <1>2, PTL DEF Spec

\* Of a complete record the parser reports what its sender meant, whatever the
\* names, extensions and lengths in it, and before that only whether it begins
\* like a handshake (TlsParser::tryExtractSni).
THEOREM SaysWhatWasMeantHolds == Spec => []SaysWhatWasMeant
<1>1. AnswerInv => SaysWhatWasMeant
  <2> SUFFICES ASSUME AnswerInv PROVE SaysWhatWasMeant
    OBVIOUS
  <2>1. /\ hello \in Writable /\ stream = Encoding(hello) /\ len \in 0..Len(stream)
        /\ answer = tryExtractSni(SubSeq(stream, 1, len))
    BY HelloAssumption DEF AnswerInv
  <2>2. RecordInStream = RecordLen(hello)
    BY DEF RecordInStream, RecordLen, RECORD_HEADER_LEN
  <2>3. Len(Encoding(hello)) \in Nat /\ RecordLen(hello) \in Nat
    BY <2>1, EncodingIs
  <2>4. len \in Nat /\ len <= Len(Encoding(hello))
    BY <2>1, <2>3
  <2>5. CASE len >= RecordLen(hello)
    <3>1. answer = Meant(hello)
      BY <2>1, <2>4, <2>5, WholeRead
    <3> QED BY <2>2, <2>5, <3>1 DEF SaysWhatWasMeant
  <2>6. CASE len < RecordLen(hello)
    <3>1. answer = IF len >= 5 /\ hello.content # HANDSHAKE THEN Only("NotTls")
                   ELSE Only("Incomplete")
      BY <2>1, <2>4, <2>6, PartRead
    <3>2. ~(len >= RecordInStream)
      BY <2>2, <2>3, <2>4, <2>6
    <3> QED BY ONLY <3>1, <3>2 DEF SaysWhatWasMeant, RECORD_HEADER_LEN
  <2> QED BY <2>3, <2>4, <2>5, <2>6
<1> QED BY <1>1, AnswerInvHolds, PTL

\* The engine's view of a stream, where it may be taken for a handshake, where
\* such a record ends and what one verdict it gets, is what the parser does on
\* the bytes from any offset on.
THEOREM AsTheEngineAssumesHolds == Spec => []AsTheEngineAssumes
<1>1. AnswerInv => AsTheEngineAssumes
  <2> SUFFICES ASSUME AnswerInv, NEW from \in 0..len
               PROVE  tryExtractSni(SubSeq(stream, from + 1, len)).status
                        = EngineView!tryExtractSni(0, [k \in 1..(len - from) |-> from + k - 1])
    BY DEF AsTheEngineAssumes
  <2> DEFINE full == Len(stream)
             w == SubSeq(stream, from + 1, len)
             buffer == [k \in 1..(len - from) |-> from + k - 1]
  <2>1. hello \in Writable /\ stream = Encoding(hello) /\ len \in 0..full
    BY HelloAssumption DEF AnswerInv
  <2>2. stream \in Seq(Byte) /\ full \in Nat
    BY <2>1, EncodingIs
  <2>3. len \in Nat /\ from \in Nat /\ from <= len /\ len <= full /\ len - from \in Nat
    BY <2>1, <2>2
  <2>4. w \in Seq(Byte) /\ Len(w) = len - from /\ \A k \in 1..(len - from) : w[k] = stream[from + k]
    BY <2>2, <2>3, WindowIs
  <2>5. /\ Rest(from) \in Seq(Byte) /\ Len(Rest(from)) = full - from
        /\ \A k \in 1..(full - from) : Rest(from)[k] = stream[from + k]
    <3>1. from <= full /\ full <= full
      BY <2>2, <2>3
    <3> QED BY <2>2, <2>3, <3>1, WindowIs DEF Rest
  <2>6. Len(buffer) = len - from /\ (len - from >= 1 => buffer[1] = from)
    BY <2>3
  <2> HIDE DEF w, buffer, full
  <2>7. SameUpTo(w, Rest(from), Len(w))
    <3>1. \A k \in 1..(len - from) : k \in 1..(full - from)
      BY <2>2, <2>3
    <3>2. Len(w) \in Nat /\ Len(w) <= Len(w) /\ Len(w) <= Len(Rest(from))
      BY <2>2, <2>3, <2>4, <2>5
    <3>3. \A k \in 1..Len(w) : w[k] = Rest(from)[k]
      BY <2>4, <2>5, <3>1
    <3> QED BY <2>4, <2>5, <3>2, <3>3 DEF SameUpTo
  <2>8. EngineView!tryExtractSni(0, buffer)
          = IF Len(buffer) < 5 THEN "Incomplete"
            ELSE IF buffer[1] \notin DOMAIN Described THEN "NotTls"
            ELSE IF Len(buffer) < Described[buffer[1]].record_end THEN "Incomplete"
            ELSE Described[buffer[1]].verdict
    BY DEF EngineView!tryExtractSni, RECORD_HEADER_LEN
  <2>9. CASE len - from < 5
    <3>1. tryExtractSni(w) = Only("Incomplete")
      BY <2>4, <2>9 DEF tryExtractSni, RECORD_HEADER_LEN
    <3>2. EngineView!tryExtractSni(0, buffer) = "Incomplete"
      BY <2>6, <2>8, <2>9
    <3> QED BY <3>1, <3>2 DEF Only, Answer, w, buffer
  <2>10. CASE len - from >= 5
    <3>1. ~(Len(w) < 5) /\ ~(Len(buffer) < 5) /\ buffer[1] = from /\ Len(w) >= 5
      BY <2>3, <2>4, <2>6, <2>10
    <3>2. w[1] = stream[from + 1]
      <4>1. 1 \in 1..(len - from)
        BY <2>3, <2>10
      <4> QED BY <2>4, <4>1
    <3>3. from \in 0..(full - RECORD_HEADER_LEN)
      BY <2>2, <2>3, <2>10 DEF RECORD_HEADER_LEN
    <3>4. from \in DOMAIN Described <=> stream[from + 1] = HANDSHAKE
      BY <3>3 DEF Described, full
    <3>5. /\ RecordEnd(w) = RecordEnd(Rest(from))
          /\ Len(w) >= RecordEnd(w) => tryExtractSni(w) = tryExtractSni(Rest(from))
          /\ RecordEnd(w) \in Nat
      BY <2>7, <3>1, SameAnswer
    <3>6. CASE stream[from + 1] # HANDSHAKE
      <4>1. tryExtractSni(w) = Only("NotTls")
        BY ONLY <3>1, <3>2, <3>6 DEF tryExtractSni, RECORD_HEADER_LEN
      <4>2. EngineView!tryExtractSni(0, buffer) = "NotTls"
        BY ONLY <2>8, <3>1, <3>4, <3>6
      <4> QED BY <4>1, <4>2 DEF Only, Answer, w, buffer
    <3>7. CASE stream[from + 1] = HANDSHAKE
      <4>1. /\ Described[from].record_end = RecordEnd(Rest(from))
            /\ Described[from].verdict = tryExtractSni(Rest(from)).status
        BY <3>3, <3>7 DEF Described, full
      <4>2. EngineView!tryExtractSni(0, buffer)
              = IF Len(w) < RecordEnd(w) THEN "Incomplete"
                ELSE tryExtractSni(Rest(from)).status
        <5>1. Len(buffer) = Len(w)
          BY <2>4, <2>6
        <5> QED BY ONLY <2>8, <3>1, <3>4, <3>5, <3>7, <4>1, <5>1
      <4>3. CASE Len(w) < RecordEnd(w)
        <5>1. tryExtractSni(w) = Only("Incomplete")
          BY ONLY <3>1, <3>2, <3>7, <4>3 DEF tryExtractSni, RECORD_HEADER_LEN
        <5> QED BY <4>2, <4>3, <5>1 DEF Only, Answer, w, buffer
      <4>4. CASE ~(Len(w) < RecordEnd(w))
        <5>1. Len(w) >= RecordEnd(w)
          BY <2>3, <2>4, <3>5, <4>4
        <5>2. tryExtractSni(w) = tryExtractSni(Rest(from))
          BY <3>5, <5>1
        <5> QED BY <4>2, <4>4, <5>2 DEF w, buffer
      <4> QED BY <4>3, <4>4
    <3> QED BY <3>6, <3>7
  <2> QED BY <2>3, <2>9, <2>10
<1> QED BY <1>1, AnswerInvHolds, PTL

-----------------------------------------------------------------------------
(* Names and rules.                                                        *)

\* The element i places before the last.
FromEnd(s, i) == s[Len(s) - i]

\* s is the end of t, element by element from the last.
Ends(s, t) ==
    /\ Len(s) <= Len(t)
    /\ \A i \in 0..(Len(s) - 1) : FromEnd(t, i) = FromEnd(s, i)

\* IsSuffix compares from the last element.
LEMMA SuffixIs ==
    ASSUME NEW S, NEW s \in Seq(S), NEW t \in Seq(S)
    PROVE  IsSuffix(s, t) <=> Ends(s, t)
<1> DEFINE m == Len(s)
           n == Len(t)
           rs == Reverse(s)
           rt == Reverse(t)
<1>1. m \in Nat /\ n \in Nat
  OBVIOUS
<1>2. /\ rs \in Seq(S) /\ Len(rs) = m /\ \A i \in 1..m : rs[i] = s[m - i + 1]
      /\ rt \in Seq(S) /\ Len(rt) = n /\ \A i \in 1..n : rt[i] = t[n - i + 1]
  <2>1. ASSUME NEW u \in Seq(S)
        PROVE  /\ Reverse(u) \in Seq(S) /\ Len(Reverse(u)) = Len(u)
               /\ \A i \in 1..Len(u) : Reverse(u)[i] = u[Len(u) - i + 1]
    <3>1. Reverse(u) = [i \in 1..Len(u) |-> u[(Len(u) - i) + 1]]
      BY DEF Reverse
    <3>2. \A i \in 1..Len(u) : u[(Len(u) - i) + 1] \in S
      <4>1. \A i \in 1..Len(u) : (Len(u) - i) + 1 \in 1..Len(u)
        OBVIOUS
      <4> QED BY <4>1
    <3>3. Len(u) \in Nat
      OBVIOUS
    <3> QED BY <3>1, <3>2, <3>3
  <2> HIDE DEF m, n
  <2> QED BY <2>1 DEF m, n
<1>3. IsSuffix(s, t) <=> m <= n /\ SubSeq(rs, 1, m) = SubSeq(rt, 1, m)
  <2>1. IsSuffix(s, t) <=> Len(rs) <= Len(rt) /\ SubSeq(rs, 1, Len(rs)) = SubSeq(rt, 1, Len(rs))
    BY DEF IsSuffix, IsPrefix
  <2> HIDE DEF rs, rt, m, n
  <2> QED BY <1>2, <2>1
<1> HIDE DEF rs, rt
<1>4. ASSUME m <= n
      PROVE  SubSeq(rs, 1, m) = SubSeq(rt, 1, m) <=> \A i \in 1..m : s[m - i + 1] = t[n - i + 1]
  <2> DEFINE a == SubSeq(rs, 1, m)
             b == SubSeq(rt, 1, m)
  <2>1. a \in Seq(S) /\ Len(a) = m /\ \A i \in 1..m : a[i] = rs[i]
    <3> HIDE DEF m
    <3> QED BY <1>1, <1>2
  <2>2. b \in Seq(S) /\ Len(b) = m /\ \A i \in 1..m : b[i] = rt[i]
    <3> HIDE DEF m, n
    <3> QED BY <1>1, <1>2, <1>4
  <2>3. \A i \in 1..m : i \in 1..n
    <3> HIDE DEF m, n
    <3> QED BY <1>1, <1>4
  <2> HIDE DEF a, b
  <2>4. (\A i \in 1..m : a[i] = b[i]) <=> \A i \in 1..m : s[m - i + 1] = t[n - i + 1]
    <3>1. ASSUME NEW i \in 1..m PROVE a[i] = s[m - i + 1] /\ b[i] = t[n - i + 1]
      <4>1. a[i] = rs[i] /\ b[i] = rt[i] /\ i \in 1..n
        BY ONLY <2>1, <2>2, <2>3, <3>1
      <4>2. rs[i] = s[m - i + 1]
        BY ONLY <1>2, <3>1
      <4>3. rt[i] = t[n - i + 1]
        BY ONLY <1>2, <4>1
      <4> QED BY ONLY <4>1, <4>2, <4>3
    <3>2. ASSUME \A i \in 1..m : a[i] = b[i], NEW i \in 1..m PROVE s[m - i + 1] = t[n - i + 1]
      <4>1. a[i] = b[i]
        BY ONLY <3>2
      <4> QED BY ONLY <3>1, <3>2, <4>1
    <3>3. ASSUME \A i \in 1..m : s[m - i + 1] = t[n - i + 1], NEW i \in 1..m PROVE a[i] = b[i]
      <4>1. s[m - i + 1] = t[n - i + 1]
        BY ONLY <3>3
      <4> QED BY ONLY <3>1, <3>3, <4>1
    <3> QED BY ONLY <3>2, <3>3
  <2>5. (\A i \in 1..Len(b) : a[i] = b[i]) <=> \A i \in 1..m : a[i] = b[i]
    <3> HIDE DEF m
    <3> QED BY <2>2
  <2>6. (\A i \in 1..Len(b) : a[i] = b[i]) => a = b
    <3> HIDE DEF m
    <3> QED BY <2>1, <2>2, SeqEqual
  <2> QED BY <2>4, <2>5, <2>6 DEF a, b
<1>5. (\A i \in 1..m : s[m - i + 1] = t[n - i + 1]) <=> \A i \in 0..(m - 1) : t[n - i] = s[m - i]
  <2> HIDE DEF m, n
  <2>1. ASSUME \A i \in 1..m : s[m - i + 1] = t[n - i + 1], NEW i \in 0..(m - 1)
        PROVE  t[n - i] = s[m - i]
    <3>1. i + 1 \in 1..m /\ m - (i + 1) + 1 = m - i /\ n - (i + 1) + 1 = n - i
      BY <1>1
    <3>2. s[m - (i + 1) + 1] = t[n - (i + 1) + 1]
      BY <2>1, <3>1
    <3> QED BY <3>1, <3>2
  <2>2. ASSUME \A i \in 0..(m - 1) : t[n - i] = s[m - i], NEW i \in 1..m
        PROVE  s[m - i + 1] = t[n - i + 1]
    <3>1. i - 1 \in 0..(m - 1) /\ m - (i - 1) = m - i + 1 /\ n - (i - 1) = n - i + 1
      BY <1>1
    <3>2. t[n - (i - 1)] = s[m - (i - 1)]
      BY <2>2, <3>1
    <3> QED BY <3>1, <3>2
  <2> QED BY <2>1, <2>2
<1> QED BY <1>3, <1>4, <1>5 DEF Ends, FromEnd

\* Joined is a, a dot and x.
Joined(a, x) == a \o <<Dot>> \o x

\* What is joined is, from its last element: x, a dot, a.
LEMMA JoinedIs ==
    ASSUME NEW a \in Seq(Byte), NEW x \in Seq(Byte)
    PROVE  /\ Joined(a, x) \in Seq(Byte) /\ Len(a) \in Nat /\ Len(x) \in Nat
           /\ Len(Joined(a, x)) = Len(a) + 1 + Len(x)
           /\ \A i \in 1..Len(a) : Joined(a, x)[i] = a[i]
           /\ Joined(a, x)[Len(a) + 1] = Dot
           /\ \A i \in 1..Len(x) : Joined(a, x)[Len(a) + 1 + i] = x[i]
<1> DEFINE d == <<Dot>>
           b == a \o d
           s == b \o x
<1>1. d \in Seq(Byte) /\ Len(d) = 1 /\ d[1] = Dot
  <2>1. Dot \in Byte
    BY DEF Dot, Byte
  <2> QED BY ONLY <2>1
<1>2. Len(a) \in Nat /\ Len(x) \in Nat
  OBVIOUS
<1> HIDE DEF d
<1>3. b \in Seq(Byte) /\ Len(b) = Len(a) + 1 /\ (\A i \in 1..Len(a) : b[i] = a[i]) /\ b[Len(a) + 1] = Dot
  <2>1. /\ b \in Seq(Byte) /\ Len(b) = Len(a) + Len(d)
        /\ \A i \in 1..(Len(a) + Len(d)) : b[i] = IF i <= Len(a) THEN a[i] ELSE d[i - Len(a)]
    BY <1>1, ConcatProperties
  <2> HIDE DEF b
  <2> DEFINE n == Len(a)
  <2>2. n \in Nat
    OBVIOUS
  <2>3. \A i \in 1..(n + 1) : b[i] = IF i <= n THEN a[i] ELSE d[i - n]
    BY <1>1, <2>1
  <2> HIDE DEF n
  <2>4. ASSUME NEW i \in 1..n PROVE b[i] = a[i]
    <3>1. i \in 1..(n + 1) /\ i <= n
      BY <2>2
    <3> QED BY <2>3, <3>1
  <2>5. b[n + 1] = Dot
    <3> DEFINE at == n + 1
    <3>1. at \in 1..(n + 1) /\ ~(at <= n) /\ at - n = 1
      BY <2>2
    <3> HIDE DEF at
    <3>2. b[at] = d[at - n]
      BY ONLY <2>3, <3>1
    <3>3. b[at] = Dot
      BY ONLY <1>1, <3>1, <3>2
    <3> QED BY <3>3 DEF at
  <2> QED BY <1>1, <2>1, <2>4, <2>5 DEF n
<1> HIDE DEF b
<1>4. /\ s \in Seq(Byte) /\ Len(s) = Len(b) + Len(x)
      /\ \A i \in 1..(Len(b) + Len(x)) : s[i] = IF i <= Len(b) THEN b[i] ELSE x[i - Len(b)]
  <2>1. b \in Seq(Byte) /\ x \in Seq(Byte)
    BY <1>3
  <2> QED BY ONLY <2>1, ConcatProperties
<1>5. s = Joined(a, x)
  BY DEF Joined, d, b
<1> HIDE DEF s
<1> DEFINE n == Len(a)
           m == Len(x)
<1>6. n \in Nat /\ m \in Nat /\ Len(b) = n + 1 /\ Len(s) = n + 1 + m
  BY ONLY <1>2, <1>3, <1>4
<1>7. \A i \in 1..(n + 1 + m) : s[i] = IF i <= n + 1 THEN b[i] ELSE x[i - (n + 1)]
  BY ONLY <1>4, <1>6
<1> HIDE DEF n, m
<1>8. ASSUME NEW i \in 1..n PROVE s[i] = b[i]
  <2>1. i \in 1..(n + 1 + m) /\ i <= n + 1
    BY <1>6
  <2> QED BY <1>7, <2>1
<1>9. s[n + 1] = b[n + 1]
  <2>1. n + 1 \in 1..(n + 1 + m) /\ n + 1 <= n + 1
    BY <1>6
  <2> QED BY <1>7, <2>1
<1>10. ASSUME NEW i \in 1..m PROVE s[n + 1 + i] = x[i]
  <2> DEFINE at == n + 1 + i
  <2>1. at \in 1..(n + 1 + m) /\ ~(at <= n + 1) /\ at - (n + 1) = i
    BY <1>6
  <2> HIDE DEF at
  <2>2. s[at] = x[at - (n + 1)]
    BY ONLY <1>7, <2>1
  <2>3. s[at] = x[i]
    BY ONLY <2>1, <2>2
  <2> QED BY <2>3 DEF at
<1> QED BY <1>2, <1>3, <1>4, <1>5, <1>6, <1>8, <1>9, <1>10 DEF n, m

\* x holds no dot.
NoDot(x) == \A k \in 1..Len(x) : x[k] # Dot

\* A label is a run of bytes that holds no dot.
LEMMA LabelIs ==
    ASSUME NEW L \in Seq(Label), NEW i \in 1..Len(L)
    PROVE  L[i] \in Label /\ L[i] \in Seq(Byte) /\ L[i] # <<>> /\ NoDot(L[i])
<1>1. L[i] \in Label
  OBVIOUS
<1>2. L[i] \in Seq(Byte) /\ L[i] # <<>> /\ \A k \in DOMAIN L[i] : L[i][k] # Dot
  BY <1>1 DEF Label
<1>3. DOMAIN L[i] = 1..Len(L[i])
  BY <1>2
<1> QED BY <1>1, <1>2, <1>3 DEF NoDot

\* The first n labels, a dot in front of each.
Marks(L, n) == Joins!Loop(L, <<>>, 1..n)

\* In front of the first label there is nothing; each label adds a dot and
\* itself.
LEMMA MarksFrom ==
    /\ \A L : Marks(L, 0) = <<>>
    /\ \A L : \A n \in Nat : Marks(L, n + 1) = Joined(Marks(L, n), L[n + 1])
<1>1. ASSUME NEW L PROVE Marks(L, 0) = <<>>
  <2>1. 1..0 = {}
    OBVIOUS
  <2> QED BY <2>1, Joins!LoopEmpty DEF Marks
<1>2. ASSUME NEW L, NEW n \in Nat PROVE Marks(L, n + 1) = Joined(Marks(L, n), L[n + 1])
  <2>1. Joins!PicksLargest(1..(n + 1))
    BY MaxPicks
  <2>2. Joins!Loop(L, <<>>, 1..(n + 1)) = Joining(L, n + 1, Joins!Loop(L, <<>>, 1..n))
    BY <2>1, Joins!IntervalStep
  <2> QED BY <2>2 DEF Marks, Joining, Joined
<1> QED BY <1>1, <1>2

\* Marks are bytes.
LEMMA MarksAreBytes ==
    ASSUME NEW L \in Seq(Label), NEW n \in 0..Len(L)
    PROVE  Marks(L, n) \in Seq(Byte)
<1> DEFINE Good == {k \in Nat : k <= Len(L) => Marks(L, k) \in Seq(Byte)}
<1>1. 0 \in Good
  <2>1. Marks(L, 0) = <<>>
    BY MarksFrom
  <2>2. <<>> \in Seq(Byte)
    OBVIOUS
  <2> QED BY <2>1, <2>2
<1>2. ASSUME NEW k \in Nat, k \in Good PROVE k + 1 \in Good
  <2> SUFFICES ASSUME k + 1 <= Len(L) PROVE Marks(L, k + 1) \in Seq(Byte)
    OBVIOUS
  <2>1. Marks(L, k) \in Seq(Byte)
    BY <1>2
  <2>2. L[k + 1] \in Seq(Byte)
    BY LabelIs
  <2>3. Joined(Marks(L, k), L[k + 1]) \in Seq(Byte)
    BY <2>1, <2>2, JoinedIs
  <2> QED BY <2>3, MarksFrom
<1>3. Nat \subseteq Good
  <2> HIDE DEF Good
  <2> QED BY <1>1, <1>2, Joins!CountingUp
<1> QED BY <1>3

\* A dot, and two runs joined, is the dot and the first run, joined to the
\* second.
LEMMA DotInFront ==
    ASSUME NEW a \in Seq(Byte), NEW x \in Seq(Byte)
    PROVE  <<Dot>> \o Joined(a, x) = Joined(<<Dot>> \o a, x)
<1> DEFINE d == <<Dot>>
<1>1. d \in Seq(Byte)
  <2>1. Dot \in Byte
    BY DEF Dot, Byte
  <2> QED BY <2>1
<1> HIDE DEF d
<1>2. a \o d \in Seq(Byte)
  BY <1>1
<1>3. d \o ((a \o d) \o x) = (d \o (a \o d)) \o x
  <2> DEFINE e == a \o d
  <2>1. e \in Seq(Byte)
    BY <1>2
  <2> HIDE DEF e
  <2>2. (d \o e) \o x = d \o (e \o x)
    BY <1>1, <2>1, ConcatAssociative
  <2> QED BY <2>2 DEF e
<1>4. d \o (a \o d) = (d \o a) \o d
  BY <1>1, ConcatAssociative
<1> QED BY <1>3, <1>4 DEF Joined, d

\* The text of some labels with a dot in front is all their marks.
LEMMA TextIs ==
    ASSUME NEW L \in Domain
    PROVE  Text(L) \in Seq(Byte) /\ <<Dot>> \o Text(L) = Marks(L, Len(L))
<1> DEFINE t == Tail(L)
           n == Len(L)
           T(k) == Joins!Loop(t, Head(L), 1..k)
           Good == {k \in Nat : k < n => T(k) \in Seq(Byte) /\ <<Dot>> \o T(k) = Marks(L, k + 1)}
<1>1. /\ L \in Seq(Label) /\ L # <<>> /\ n \in Nat /\ n >= 1
      /\ t \in Seq(Label) /\ Len(t) = n - 1 /\ \A k \in 1..(n - 1) : t[k] = L[k + 1]
      /\ Head(L) = L[1] /\ DOMAIN t = 1..(n - 1)
  <2>1. L \in Seq(Label) /\ L # <<>>
    BY DEF Domain
  <2> QED BY <2>1
<1>2. 0 \in Good
  <2>1. T(0) = L[1]
    <3>1. 1..0 = {}
      OBVIOUS
    <3> QED BY <1>1, <3>1, Joins!LoopEmpty
  <2>2. L[1] \in Seq(Byte)
    BY <1>1, LabelIs
  <2>3. Marks(L, 0 + 1) = Joined(Marks(L, 0), L[0 + 1])
    BY ONLY MarksFrom, 0 \in Nat
  <2>4. Marks(L, 1) = Joined(<<>>, L[1])
    BY <2>3, MarksFrom
  <2>5. Joined(<<>>, L[1]) = <<Dot>> \o L[1]
    BY DEF Joined
  <2> HIDE DEF T
  <2> QED BY <2>1, <2>2, <2>4, <2>5
<1>3. ASSUME NEW k \in Nat, k \in Good PROVE k + 1 \in Good
  <2> SUFFICES ASSUME k + 1 < n
               PROVE  T(k + 1) \in Seq(Byte) /\ <<Dot>> \o T(k + 1) = Marks(L, k + 1 + 1)
    OBVIOUS
  <2>1. T(k) \in Seq(Byte) /\ <<Dot>> \o T(k) = Marks(L, k + 1)
    <3> HIDE DEF T, n
    <3> QED BY <1>1, <1>3
  <2>2. T(k + 1) = Joined(T(k), L[k + 1 + 1])
    <3>1. Joins!PicksLargest(1..(k + 1))
      BY MaxPicks
    <3>2. T(k + 1) = Joining(t, k + 1, T(k))
      BY <3>1, Joins!IntervalStep
    <3>3. k + 1 \in 1..(n - 1)
      <4> HIDE DEF n
      <4> QED BY <1>1
    <3>4. t[k + 1] = L[k + 1 + 1]
      <4> HIDE DEF t, n
      <4> QED BY <1>1, <3>3
    <3> HIDE DEF t, T
    <3> QED BY <3>2, <3>4 DEF Joining, Joined
  <2>3. k + 1 + 1 \in 1..Len(L)
    <3> HIDE DEF n
    <3>1. k + 1 + 1 \in 1..n
      BY <1>1
    <3> QED BY <3>1 DEF n
  <2>4. L[k + 1 + 1] \in Seq(Byte)
    BY <1>1, <2>3, LabelIs
  <2>5. Marks(L, k + 1 + 1) = Joined(Marks(L, k + 1), L[k + 1 + 1])
    <3>1. k + 1 \in Nat
      OBVIOUS
    <3> QED BY ONLY <3>1, MarksFrom
  <2> HIDE DEF T
  <2>6. Joined(T(k), L[k + 1 + 1]) \in Seq(Byte)
    BY <2>1, <2>4, JoinedIs
  <2>7. <<Dot>> \o Joined(T(k), L[k + 1 + 1]) = Joined(<<Dot>> \o T(k), L[k + 1 + 1])
    BY <2>1, <2>4, DotInFront
  <2> QED BY <2>1, <2>2, <2>5, <2>6, <2>7
<1>4. Nat \subseteq Good
  <2> HIDE DEF Good
  <2> QED BY <1>2, <1>3, Joins!CountingUp
<1>5. Text(L) = T(n - 1)
  <2> HIDE DEF n
  <2> QED BY <1>1 DEF Text, FoldLeft, MapThenFoldSet, Joins!Loop, Joins!MapThenFoldSet, Joining
<1>6. T(n - 1) \in Seq(Byte) /\ <<Dot>> \o T(n - 1) = Marks(L, n)
  <2> HIDE DEF T, n
  <2>1. n - 1 \in Nat /\ n - 1 < n /\ n - 1 + 1 = n
    BY <1>1
  <2>2. T(n - 1) \in Seq(Byte) /\ <<Dot>> \o T(n - 1) = Marks(L, n - 1 + 1)
    BY <1>4, <2>1
  <2> QED BY <2>1, <2>2
<1> HIDE DEF T
<1> QED BY <1>5, <1>6 DEF n

\* What ends a sequence of its own length is that sequence.
LEMMA SameEnd ==
    ASSUME NEW x \in Seq(Byte), NEW y \in Seq(Byte), Len(x) = Len(y),
           \A i \in 0..(Len(x) - 1) : FromEnd(y, i) = FromEnd(x, i)
    PROVE  x = y
<1> DEFINE m == Len(x)
<1>1. m \in Nat /\ m = Len(y)
  OBVIOUS
<1>2. \A i \in 0..(m - 1) : y[m - i] = x[m - i]
  BY <1>1 DEF FromEnd
<1> HIDE DEF m
<1>3. ASSUME NEW k \in 1..m PROVE x[k] = y[k]
  <2> DEFINE i == m - k
  <2>1. i \in 0..(m - 1) /\ m - i = k
    BY <1>1
  <2> HIDE DEF i
  <2> QED BY ONLY <1>2, <2>1
<1>4. \A k \in 1..Len(y) : x[k] = y[k]
  BY ONLY <1>1, <1>3
<1> QED BY <1>4, SeqEqual

\* What is joined is, from the last element: the second run, a dot, the first
\* run.
LEMMA JoinedFromEnd ==
    ASSUME NEW a \in Seq(Byte), NEW x \in Seq(Byte)
    PROVE  /\ \A i \in 0..(Len(x) - 1) : FromEnd(Joined(a, x), i) = FromEnd(x, i)
           /\ FromEnd(Joined(a, x), Len(x)) = Dot
           /\ \A i \in 0..(Len(a) - 1) : FromEnd(Joined(a, x), Len(x) + 1 + i) = FromEnd(a, i)
<1> DEFINE s == Joined(a, x)
           p == Len(a)
           m == Len(x)
           z == Len(s)
<1>1. /\ p \in Nat /\ m \in Nat /\ z = p + 1 + m
      /\ \A i \in 1..p : s[i] = a[i]
      /\ s[p + 1] = Dot
      /\ \A i \in 1..m : s[p + 1 + i] = x[i]
  BY ONLY a \in Seq(Byte), x \in Seq(Byte), JoinedIs
<1> SUFFICES /\ \A i \in 0..(m - 1) : s[z - i] = x[m - i]
             /\ s[z - m] = Dot
             /\ \A i \in 0..(p - 1) : s[z - (m + 1 + i)] = a[p - i]
  BY DEF FromEnd
<1> HIDE DEF s, p, m, z
<1>2. ASSUME NEW i \in 0..(m - 1) PROVE s[z - i] = x[m - i]
  <2> DEFINE k == m - i
  <2>1. k \in 1..m /\ z - i = p + 1 + k
    BY <1>1
  <2> HIDE DEF k
  <2>2. s[p + 1 + k] = x[k]
    BY <1>1, <2>1
  <2> QED BY <2>1, <2>2 DEF k
<1>3. s[z - m] = Dot
  <2>1. z - m = p + 1
    BY <1>1
  <2> QED BY <1>1, <2>1
<1>4. ASSUME NEW i \in 0..(p - 1) PROVE s[z - (m + 1 + i)] = a[p - i]
  <2>1. p - i \in 1..p /\ z - (m + 1 + i) = p - i
    BY <1>1
  <2> QED BY <1>1, <2>1
<1> QED BY <1>2, <1>3, <1>4

\* In a run that holds no dot no element is one.
LEMMA NoDotFromEnd ==
    ASSUME NEW x \in Seq(Byte), NoDot(x), NEW i \in 0..(Len(x) - 1)
    PROVE  FromEnd(x, i) # Dot
<1>1. Len(x) - i \in 1..Len(x)
  OBVIOUS
<1> QED BY <1>1 DEF NoDot, FromEnd

\* A dotted end: runs joined to others end with the same run, and the others
\* one with the other.
LEMMA TailsAgree ==
    ASSUME NEW a \in Seq(Byte), NEW x \in Seq(Byte), NEW b \in Seq(Byte), NEW y \in Seq(Byte),
           NoDot(x), NoDot(y)
    PROVE  Ends(Joined(a, x), Joined(b, y)) <=> x = y /\ Ends(a, b)
<1> DEFINE s == Joined(a, x)
           t == Joined(b, y)
           p == Len(a)
           q == Len(b)
           m == Len(x)
           n == Len(y)
<1>1. p \in Nat /\ q \in Nat /\ m \in Nat /\ n \in Nat /\ Len(s) = p + 1 + m /\ Len(t) = q + 1 + n
  <2>1. p \in Nat /\ m \in Nat /\ Len(s) = p + 1 + m
    BY JoinedIs
  <2>2. q \in Nat /\ n \in Nat /\ Len(t) = q + 1 + n
    BY JoinedIs
  <2> QED BY ONLY <2>1, <2>2
<1>2. /\ \A i \in 0..(m - 1) : FromEnd(s, i) = FromEnd(x, i)
      /\ FromEnd(s, m) = Dot
      /\ \A i \in 0..(p - 1) : FromEnd(s, m + 1 + i) = FromEnd(a, i)
  BY ONLY a \in Seq(Byte), x \in Seq(Byte), JoinedFromEnd
<1>3. /\ \A i \in 0..(n - 1) : FromEnd(t, i) = FromEnd(y, i)
      /\ FromEnd(t, n) = Dot
      /\ \A i \in 0..(q - 1) : FromEnd(t, n + 1 + i) = FromEnd(b, i)
  BY ONLY b \in Seq(Byte), y \in Seq(Byte), JoinedFromEnd
<1>4. \A i \in 0..(m - 1) : FromEnd(x, i) # Dot
  BY NoDotFromEnd
<1>5. \A i \in 0..(n - 1) : FromEnd(y, i) # Dot
  BY NoDotFromEnd
<1>6. Ends(s, t) <=> Len(s) <= Len(t) /\ \A i \in 0..(Len(s) - 1) : FromEnd(t, i) = FromEnd(s, i)
  BY DEF Ends
<1>7. Ends(a, b) <=> p <= q /\ \A i \in 0..(p - 1) : FromEnd(b, i) = FromEnd(a, i)
  BY DEF Ends
<1>8. m = n /\ (\A i \in 0..(m - 1) : FromEnd(y, i) = FromEnd(x, i)) => x = y
  BY SameEnd
<1>9. x = y => m = n
  OBVIOUS
<1> HIDE DEF s, t, p, q, m, n
<1>10. ASSUME Ends(s, t) PROVE x = y /\ Ends(a, b)
  <2>1. p + 1 + m <= q + 1 + n /\ \A i \in 0..(p + m) : FromEnd(t, i) = FromEnd(s, i)
    <3>1. Len(s) - 1 = p + m
      BY <1>1
    <3>2. \A i \in 0..(p + m) : FromEnd(t, i) = FromEnd(s, i)
      BY ONLY <1>6, <1>10, <3>1
    <3> QED BY <1>1, <1>6, <1>10, <3>2
  <2>2. ~(m < n)
    <3> SUFFICES ASSUME m < n PROVE FALSE
      OBVIOUS
    <3>1. m \in 0..(p + m) /\ m \in 0..(n - 1)
      BY <1>1
    <3>2. FromEnd(t, m) = Dot
      BY ONLY <1>2, <2>1, <3>1
    <3> QED BY ONLY <1>3, <1>5, <3>1, <3>2
  <2>3. ~(n < m)
    <3> SUFFICES ASSUME n < m PROVE FALSE
      OBVIOUS
    <3>1. n \in 0..(p + m) /\ n \in 0..(m - 1)
      BY <1>1
    <3>2. FromEnd(s, n) = Dot
      BY ONLY <1>3, <2>1, <3>1
    <3> QED BY ONLY <1>2, <1>4, <3>1, <3>2
  <2>4. m = n
    BY <1>1, <2>2, <2>3
  <2>5. ASSUME NEW i \in 0..(m - 1) PROVE FromEnd(y, i) = FromEnd(x, i)
    <3>1. i \in 0..(p + m) /\ i \in 0..(n - 1)
      BY <1>1, <2>4
    <3> QED BY ONLY <1>2, <1>3, <2>1, <2>5, <3>1
  <2>6. p <= q
    BY <1>1, <2>1, <2>4
  <2>7. ASSUME NEW i \in 0..(p - 1) PROVE FromEnd(b, i) = FromEnd(a, i)
    <3>1. m + 1 + i \in 0..(p + m) /\ i \in 0..(q - 1) /\ m + 1 + i = n + 1 + i
      BY <1>1, <2>4, <2>6
    <3>2. FromEnd(s, m + 1 + i) = FromEnd(a, i)
      BY ONLY <1>2, <2>7
    <3>3. FromEnd(t, n + 1 + i) = FromEnd(b, i)
      BY ONLY <1>3, <3>1
    <3>4. FromEnd(t, m + 1 + i) = FromEnd(s, m + 1 + i)
      BY ONLY <2>1, <3>1
    <3> QED BY ONLY <3>1, <3>2, <3>3, <3>4
  <2> QED BY <1>7, <1>8, <2>4, <2>5, <2>6, <2>7
<1>11. ASSUME x = y, Ends(a, b) PROVE Ends(s, t)
  <2>1. m = n /\ p <= q
    BY <1>7, <1>9, <1>11
  <2>2. ASSUME NEW i \in 0..(Len(s) - 1) PROVE FromEnd(t, i) = FromEnd(s, i)
    <3>1. CASE i < m
      <4>1. i \in 0..(m - 1) /\ i \in 0..(n - 1)
        BY <1>1, <2>1, <2>2, <3>1
      <4> QED BY ONLY <1>2, <1>3, <1>11, <4>1
    <3>2. CASE i = m
      BY ONLY <1>2, <1>3, <2>1, <3>2
    <3>3. CASE i > m
      <4> DEFINE j == i - m - 1
      <4>1. j \in 0..(p - 1) /\ j \in 0..(q - 1) /\ m + 1 + j = i /\ n + 1 + j = i
        BY <1>1, <2>1, <2>2, <3>3
      <4> HIDE DEF j
      <4>2. FromEnd(s, m + 1 + j) = FromEnd(a, j) /\ FromEnd(t, n + 1 + j) = FromEnd(b, j)
        BY ONLY <1>2, <1>3, <4>1
      <4>3. FromEnd(b, j) = FromEnd(a, j)
        BY ONLY <1>7, <1>11, <4>1
      <4> QED BY ONLY <4>1, <4>2, <4>3
    <3> QED BY <1>1, <2>2, <3>1, <3>2, <3>3
  <2>3. Len(s) <= Len(t)
    BY <1>1, <2>1
  <2> QED BY <1>6, <2>2, <2>3
<1> QED BY <1>10, <1>11 DEF s, t

\* The first r labels of R are the end of the first l labels of L.
LabelsEnd(R, r, L, l) == r <= l /\ \A i \in 0..(r - 1) : R[r - i] = L[l - i]

\* One more label on both sides is compared, and then the rest.
LEMMA LabelsEndStep ==
    ASSUME NEW R, NEW L, NEW r \in Nat, NEW l \in Nat
    PROVE  LabelsEnd(R, r + 1, L, l + 1) <=> R[r + 1] = L[l + 1] /\ LabelsEnd(R, r, L, l)
<1>1. ASSUME LabelsEnd(R, r + 1, L, l + 1) PROVE R[r + 1] = L[l + 1] /\ LabelsEnd(R, r, L, l)
  <2>1. r + 1 <= l + 1 /\ \A i \in 0..r : R[r + 1 - i] = L[l + 1 - i]
    <3>1. 0..(r + 1 - 1) = 0..r
      OBVIOUS
    <3> QED BY <1>1, <3>1 DEF LabelsEnd
  <2>2. R[r + 1] = L[l + 1]
    <3>1. 0 \in 0..r /\ r + 1 - 0 = r + 1 /\ l + 1 - 0 = l + 1
      OBVIOUS
    <3>2. R[r + 1 - 0] = L[l + 1 - 0]
      BY ONLY <2>1, <3>1
    <3> QED BY <3>2
  <2>3. ASSUME NEW i \in 0..(r - 1) PROVE R[r - i] = L[l - i]
    <3> DEFINE j == i + 1
    <3>1. j \in 0..r /\ r + 1 - j = r - i /\ l + 1 - j = l - i
      OBVIOUS
    <3> HIDE DEF j
    <3>2. R[r + 1 - j] = L[l + 1 - j]
      BY ONLY <2>1, <3>1
    <3> QED BY ONLY <3>1, <3>2
  <2>4. r <= l
    BY <2>1
  <2> QED BY <2>2, <2>3, <2>4 DEF LabelsEnd
<1>2. ASSUME R[r + 1] = L[l + 1], LabelsEnd(R, r, L, l) PROVE LabelsEnd(R, r + 1, L, l + 1)
  <2>1. r <= l /\ \A i \in 0..(r - 1) : R[r - i] = L[l - i]
    BY <1>2 DEF LabelsEnd
  <2>2. ASSUME NEW i \in 0..(r + 1 - 1) PROVE R[r + 1 - i] = L[l + 1 - i]
    <3>1. CASE i = 0
      <4>1. r + 1 - i = r + 1 /\ l + 1 - i = l + 1
        BY <3>1
      <4> QED BY ONLY <1>2, <4>1
    <3>2. CASE i # 0
      <4> DEFINE j == i - 1
      <4>1. j \in 0..(r - 1) /\ r + 1 - i = r - j /\ l + 1 - i = l - j
        BY <2>2, <3>2
      <4> HIDE DEF j
      <4>2. R[r - j] = L[l - j]
        BY ONLY <2>1, <4>1
      <4> QED BY ONLY <4>1, <4>2
    <3> QED BY <3>1, <3>2
  <2>3. r + 1 <= l + 1
    BY <2>1
  <2> QED BY <2>2, <2>3 DEF LabelsEnd
<1> QED BY <1>1, <1>2

\* What joins a run is not empty, and nothing that is not empty ends nothing.
LEMMA NothingEnds ==
    ASSUME NEW a \in Seq(Byte), NEW x \in Seq(Byte)
    PROVE  Ends(<<>>, a) /\ ~Ends(Joined(a, x), <<>>)
<1> DEFINE e == <<>>
<1>1. Len(e) = 0 /\ Len(a) \in Nat /\ 0..(0 - 1) = {}
  OBVIOUS
<1> HIDE DEF e
<1>2. Ends(e, a)
  BY <1>1 DEF Ends
<1>3. ~Ends(Joined(a, x), e)
  <2>1. Len(a) \in Nat /\ Len(x) \in Nat /\ Len(Joined(a, x)) = Len(a) + 1 + Len(x)
    BY JoinedIs
  <2>2. ~(Len(Joined(a, x)) <= Len(e))
    BY ONLY <1>1, <2>1
  <2> QED BY <2>2 DEF Ends
<1> QED BY <1>2, <1>3 DEF e

\* Marks end with marks where labels end with labels.
LEMMA MarksEnd ==
    ASSUME NEW R \in Seq(Label), NEW L \in Seq(Label)
    PROVE  \A r \in 0..Len(R) : \A l \in 0..Len(L) :
               Ends(Marks(R, r), Marks(L, l)) <=> LabelsEnd(R, r, L, l)
<1> DEFINE Same(r, l) == Ends(Marks(R, r), Marks(L, l)) <=> LabelsEnd(R, r, L, l)
           Good == {r \in Nat : r <= Len(R) => \A l \in 0..Len(L) : Same(r, l)}
<1>1. 0 \in Good
  <2>1. ASSUME NEW l \in 0..Len(L) PROVE Same(0, l)
    <3>1. Marks(L, l) \in Seq(Byte) /\ Marks(R, 0) = <<>>
      BY MarksAreBytes, MarksFrom
    <3>2. Ends(Marks(R, 0), Marks(L, l))
      BY <3>1, NothingEnds
    <3>3. LabelsEnd(R, 0, L, l)
      BY DEF LabelsEnd
    <3> QED BY <3>2, <3>3
  <2> HIDE DEF Same
  <2> QED BY <2>1
<1>2. ASSUME NEW r \in Nat, r \in Good PROVE r + 1 \in Good
  <2> SUFFICES ASSUME r + 1 <= Len(R), NEW l \in 0..Len(L) PROVE Same(r + 1, l)
    <3> HIDE DEF Same
    <3> QED OBVIOUS
  <2>1. r \in 0..Len(R) /\ r + 1 \in 1..Len(R) /\ \A k \in 0..Len(L) : Same(r, k)
    <3> HIDE DEF Same
    <3> QED BY <1>2
  <2>2. Marks(R, r + 1) = Joined(Marks(R, r), R[r + 1])
    BY ONLY r \in Nat, MarksFrom
  <2>3. Marks(R, r) \in Seq(Byte) /\ R[r + 1] \in Seq(Byte) /\ NoDot(R[r + 1])
    BY <2>1, MarksAreBytes, LabelIs
  <2>4. CASE l = 0
    <3>1. Marks(L, l) = <<>>
      BY <2>4, MarksFrom
    <3>2. ~Ends(Marks(R, r + 1), Marks(L, l))
      BY <2>2, <2>3, <3>1, NothingEnds
    <3>3. ~LabelsEnd(R, r + 1, L, l)
      BY <2>4 DEF LabelsEnd
    <3> QED BY <3>2, <3>3
  <2>5. CASE l # 0
    <3> DEFINE k == l - 1
    <3>1. k \in Nat /\ k \in 0..Len(L) /\ k + 1 \in 1..Len(L) /\ k + 1 = l
      BY <2>5
    <3> HIDE DEF k
    <3>2. Marks(L, k + 1) = Joined(Marks(L, k), L[k + 1])
      BY ONLY <3>1, MarksFrom
    <3>3. Marks(L, k) \in Seq(Byte) /\ L[k + 1] \in Seq(Byte) /\ NoDot(L[k + 1])
      BY <3>1, MarksAreBytes, LabelIs
    <3>4. Ends(Marks(R, r + 1), Marks(L, k + 1)) <=> R[r + 1] = L[k + 1] /\ Ends(Marks(R, r), Marks(L, k))
      BY <2>2, <2>3, <3>2, <3>3, TailsAgree
    <3>5. Ends(Marks(R, r), Marks(L, k)) <=> LabelsEnd(R, r, L, k)
      BY <2>1, <3>1
    <3>6. LabelsEnd(R, r + 1, L, k + 1) <=> R[r + 1] = L[k + 1] /\ LabelsEnd(R, r, L, k)
      BY <3>1, LabelsEndStep
    <3>7. Same(r + 1, k + 1)
      BY ONLY <3>4, <3>5, <3>6
    <3> QED BY <3>1, <3>7
  <2> QED BY <2>4, <2>5
<1>3. Nat \subseteq Good
  <2> HIDE DEF Good
  <2> QED BY <1>1, <1>2, Joins!CountingUp
<1> HIDE DEF Same
<1>4. Len(R) \in Nat
  OBVIOUS
<1>5. \A r \in 0..Len(R) : \A l \in 0..Len(L) : Same(r, l)
  BY <1>3, <1>4
<1> QED BY <1>5 DEF Same

\* The text of a name does not begin with a dot.
LEMMA TextStarts ==
    ASSUME NEW L \in Domain
    PROVE  Text(L) \in Seq(Byte) /\ Len(Text(L)) >= 1 /\ Text(L)[1] # Dot
<1> DEFINE n == Len(L)
           At(k) == Len(Marks(L, k)) >= 2 /\ Marks(L, k)[2] # Dot
           Good == {k \in Nat : k + 1 <= n => At(k + 1)}
<1>1. L \in Seq(Label) /\ n \in Nat /\ n >= 1
  <2>1. L \in Seq(Label) /\ L # <<>>
    BY DEF Domain
  <2> QED BY <2>1
<1>2. 0 \in Good
  <2> DEFINE x == L[1]
             a == Marks(L, 0)
  <2>1. x \in Seq(Byte) /\ x # <<>> /\ NoDot(x)
    <3>1. 1 \in 1..Len(L)
      BY <1>1
    <3> QED BY <1>1, <3>1, LabelIs
  <2>2. a = <<>> /\ Marks(L, 0 + 1) = Joined(a, L[0 + 1])
    BY ONLY MarksFrom, 0 \in Nat
  <2>3. a \in Seq(Byte) /\ Len(a) = 0
    <3> HIDE DEF a
    <3> QED BY <2>2
  <2>4. Len(x) \in Nat /\ Len(x) >= 1 /\ x[1] # Dot
    <3> HIDE DEF x
    <3> QED BY <2>1 DEF NoDot
  <2> HIDE DEF a, x
  <2>5. /\ Len(Joined(a, x)) = Len(a) + 1 + Len(x)
        /\ \A i \in 1..Len(x) : Joined(a, x)[Len(a) + 1 + i] = x[i]
    BY <2>1, <2>3, JoinedIs
  <2>6. Joined(a, x)[2] = x[1]
    <3>1. 1 \in 1..Len(x) /\ Len(a) + 1 + 1 = 2
      BY <2>3, <2>4
    <3>2. Joined(a, x)[Len(a) + 1 + 1] = x[1]
      BY ONLY <2>5, <3>1
    <3> QED BY ONLY <3>1, <3>2
  <2>7. Marks(L, 1) = Joined(a, x)
    BY <2>2 DEF x
  <2>8. Len(Marks(L, 1)) >= 2 /\ Marks(L, 1)[2] # Dot
    BY <2>3, <2>4, <2>5, <2>6, <2>7
  <2> QED BY <2>8
<1>3. ASSUME NEW k \in Nat, k \in Good PROVE k + 1 \in Good
  <2> SUFFICES ASSUME k + 1 + 1 <= n PROVE At(k + 1 + 1)
    OBVIOUS
  <2> DEFINE a == Marks(L, k + 1)
             x == L[k + 1 + 1]
  <2>1. Len(a) >= 2 /\ a[2] # Dot
    <3> HIDE DEF n
    <3> QED BY <1>1, <1>3
  <2>2. k + 1 \in Nat /\ k + 1 \in 0..Len(L) /\ k + 1 + 1 \in 1..Len(L)
    BY <1>1
  <2>3. a \in Seq(Byte) /\ x \in Seq(Byte)
    BY <1>1, <2>2, MarksAreBytes, LabelIs
  <2>4. Marks(L, k + 1 + 1) = Joined(a, x)
    BY ONLY <2>2, MarksFrom
  <2> HIDE DEF a, x
  <2>5. /\ Len(a) \in Nat /\ Len(x) \in Nat
        /\ Len(Joined(a, x)) = Len(a) + 1 + Len(x)
        /\ \A i \in 1..Len(a) : Joined(a, x)[i] = a[i]
    BY <2>3, JoinedIs
  <2>6. Joined(a, x)[2] = a[2]
    <3>1. 2 \in 1..Len(a)
      BY <2>1, <2>5
    <3> QED BY <2>5, <3>1
  <2>7. Len(Joined(a, x)) >= 2
    BY <2>1, <2>5
  <2> QED BY <2>1, <2>4, <2>6, <2>7
<1>4. Nat \subseteq Good
  <2> HIDE DEF Good
  <2> QED BY <1>2, <1>3, Joins!CountingUp
<1>5. At(n)
  <2> HIDE DEF At, n
  <2> DEFINE k == n - 1
  <2>1. k \in Nat /\ k + 1 = n /\ k + 1 <= n
    BY <1>1
  <2> HIDE DEF k
  <2>2. At(k + 1)
    BY <1>4, <2>1
  <2> QED BY <2>1, <2>2
<1> DEFINE x == Text(L)
           e == <<>>
<1>6. x \in Seq(Byte) /\ <<Dot>> \o x = Marks(L, n)
  BY TextIs
<1>7. e \in Seq(Byte) /\ Len(e) = 0 /\ Joined(e, x) = <<Dot>> \o x
  BY DEF Joined
<1> HIDE DEF x, e
<1>8. /\ Len(x) \in Nat /\ Len(Joined(e, x)) = Len(e) + 1 + Len(x)
      /\ \A i \in 1..Len(x) : Joined(e, x)[Len(e) + 1 + i] = x[i]
  BY <1>6, <1>7, JoinedIs
<1>9. Len(Joined(e, x)) >= 2 /\ Joined(e, x)[2] # Dot
  <2> HIDE DEF n
  <2> QED BY ONLY <1>5, <1>6, <1>7
<1>10. Len(x) >= 1
  BY <1>7, <1>8, <1>9
<1>11. Joined(e, x)[2] = x[1]
  <2>1. 1 \in 1..Len(x) /\ Len(e) + 1 + 1 = 2
    BY <1>7, <1>8, <1>10
  <2>2. Joined(e, x)[Len(e) + 1 + 1] = x[1]
    BY ONLY <1>8, <2>1
  <2> QED BY ONLY <2>1, <2>2
<1> QED BY <1>6, <1>9, <1>10, <1>11 DEF x

\* matchesRule compares characters as labels are compared: a rule matches the
\* names it is, or is a parent domain of.
LEMMA MatchesIs ==
    ASSUME NEW L \in Domain, NEW R \in Domain
    PROVE  matchesRule(Text(L), Text(R)) <=> IsSuffix(R, L)
<1> DEFINE x == Text(L)
           y == Text(R)
           e == <<>>
           s == Joined(e, y)
           t == Joined(e, x)
<1>1. x \in Seq(Byte) /\ y \in Seq(Byte) /\ e \in Seq(Byte) /\ Len(e) = 0
  BY TextIs
<1>2. s = <<Dot>> \o y /\ t = <<Dot>> \o x
  BY DEF Joined
<1>3. s = Marks(R, Len(R)) /\ t = Marks(L, Len(L))
  <2>1. <<Dot>> \o y = Marks(R, Len(R))
    BY TextIs
  <2>2. <<Dot>> \o x = Marks(L, Len(L))
    BY TextIs
  <2> QED BY <1>2, <2>1, <2>2
<1>4. R \in Seq(Label) /\ L \in Seq(Label) /\ Len(R) \in 0..Len(R) /\ Len(L) \in 0..Len(L)
  <2>1. R \in Seq(Label) /\ L \in Seq(Label)
    BY DEF Domain
  <2> QED BY <2>1
<1>5. Ends(s, t) <=> IsSuffix(R, L)
  <2>1. IsSuffix(R, L) <=> Ends(R, L)
    BY <1>4, SuffixIs
  <2>2. Ends(R, L) <=> LabelsEnd(R, Len(R), L, Len(L))
    BY DEF Ends, FromEnd, LabelsEnd
  <2>3. Ends(Marks(R, Len(R)), Marks(L, Len(L))) <=> LabelsEnd(R, Len(R), L, Len(L))
    BY <1>4, MarksEnd
  <2> HIDE DEF s, t
  <2> QED BY <1>3, <2>1, <2>2, <2>3
<1>6. Len(x) >= 1 /\ x[1] # Dot
  BY TextStarts
<1>7. matchesRule(x, y) <=> x = y \/ (Len(x) > Len(s) /\ IsSuffix(s, x))
  <2>1. matchesRule(x, y) <=> x = y \/ (Len(x) > Len(<<Dot>> \o y) /\ IsSuffix(<<Dot>> \o y, x))
    <3> HIDE DEF x, y
    <3> QED BY DEF matchesRule
  <2>2. s = <<Dot>> \o y
    BY <1>2
  <2> HIDE DEF s, x, y
  <2> QED BY ONLY <2>1, <2>2
<1> HIDE DEF x, y, e
<1> DEFINE m == Len(x)
           n == Len(y)
<1>8. s \in Seq(Byte) /\ t \in Seq(Byte) /\ m \in Nat /\ n \in Nat /\ Len(s) = n + 1 /\ Len(t) = m + 1
  <2>1. s \in Seq(Byte) /\ n \in Nat /\ Len(s) = Len(e) + 1 + Len(y)
    BY <1>1, JoinedIs
  <2>2. t \in Seq(Byte) /\ m \in Nat /\ Len(t) = Len(e) + 1 + Len(x)
    BY <1>1, JoinedIs
  <2> HIDE DEF s, t
  <2> QED BY <1>1, <2>1, <2>2
<1>9. (\A i \in 0..(n - 1) : FromEnd(s, i) = FromEnd(y, i)) /\ FromEnd(s, n) = Dot
  BY <1>1, JoinedFromEnd
<1>10. (\A i \in 0..(m - 1) : FromEnd(t, i) = FromEnd(x, i)) /\ FromEnd(t, m) = Dot
  BY <1>1, JoinedFromEnd
<1>11. x = y => s = t
  OBVIOUS
<1>12. m = n /\ (\A i \in 0..(n - 1) : FromEnd(x, i) = FromEnd(y, i)) => y = x
  BY <1>1, SameEnd
<1>13. m >= 1 /\ FromEnd(x, m - 1) # Dot
  <2>1. m - (m - 1) = 1
    <3> HIDE DEF m
    <3> QED BY <1>8
  <2>2. FromEnd(x, m - 1) = x[1]
    BY <2>1 DEF FromEnd
  <2> QED BY <1>6, <2>2
<1>14. IsSuffix(s, x) <=> Ends(s, x)
  <2> HIDE DEF s
  <2> QED BY <1>1, <1>8, SuffixIs
<1>15. Ends(s, x) <=> Len(s) <= m /\ \A i \in 0..(Len(s) - 1) : FromEnd(x, i) = FromEnd(s, i)
  BY DEF Ends
<1>16. Ends(s, t) <=> Len(s) <= Len(t) /\ \A i \in 0..(Len(s) - 1) : FromEnd(t, i) = FromEnd(s, i)
  BY DEF Ends
<1> HIDE DEF s, t, m, n
<1>17. Ends(s, x) <=> n + 1 <= m /\ \A i \in 0..n : FromEnd(x, i) = FromEnd(s, i)
  <2>1. 0..(Len(s) - 1) = 0..n
    BY <1>8
  <2> QED BY <1>8, <1>15, <2>1
<1>18. Ends(s, t) <=> n <= m /\ \A i \in 0..n : FromEnd(t, i) = FromEnd(s, i)
  <2>1. 0..(Len(s) - 1) = 0..n /\ (Len(s) <= Len(t) <=> n <= m)
    BY <1>8
  <2> QED BY <1>16, <2>1
<1>19. ASSUME x = y PROVE Ends(s, t)
  <2>1. s = t
    BY <1>11, <1>19
  <2> QED BY <1>8, <1>16, <2>1
<1>20. ASSUME Ends(s, x) PROVE Ends(s, t)
  <2>1. n <= m /\ n + 1 <= m
    BY <1>8, <1>17, <1>20
  <2>2. ASSUME NEW i \in 0..n PROVE FromEnd(t, i) = FromEnd(s, i)
    <3>1. i \in 0..(m - 1)
      BY <1>8, <2>1
    <3> QED BY ONLY <1>10, <1>17, <1>20, <2>2, <3>1
  <2> QED BY <1>18, <2>1, <2>2
<1>21. ASSUME Ends(s, t) PROVE x = y \/ (Len(x) > Len(s) /\ Ends(s, x))
  <2>1. n <= m /\ \A i \in 0..n : FromEnd(t, i) = FromEnd(s, i)
    BY ONLY <1>18, <1>21
  <2>2. CASE m = n
    <3>1. ASSUME NEW i \in 0..(n - 1) PROVE FromEnd(x, i) = FromEnd(y, i)
      <4>1. i \in 0..n /\ i \in 0..(m - 1)
        BY <1>8, <2>2
      <4> QED BY ONLY <1>9, <1>10, <2>1, <3>1, <4>1
    <3>2. \A i \in 0..(n - 1) : FromEnd(x, i) = FromEnd(y, i)
      BY ONLY <3>1
    <3>3. y = x
      BY ONLY <1>12, <2>2, <3>2
    <3> QED BY <3>3
  <2>3. CASE m = n + 1
    <3>1. n \in 0..n /\ n \in 0..(m - 1) /\ m - 1 = n
      BY <1>8, <2>3
    <3>2. FromEnd(x, n) = Dot
      BY ONLY <1>9, <1>10, <2>1, <3>1
    <3> QED BY ONLY <1>13, <3>1, <3>2
  <2>4. CASE m > n + 1
    <3>1. ASSUME NEW i \in 0..n PROVE FromEnd(x, i) = FromEnd(s, i)
      <4>1. i \in 0..(m - 1)
        BY <1>8, <2>4
      <4> QED BY ONLY <1>10, <2>1, <3>1, <4>1
    <3>2. n + 1 <= m /\ Len(x) > Len(s)
      BY <1>8, <2>4 DEF m
    <3> QED BY ONLY <1>17, <3>1, <3>2
  <2> QED BY <1>8, <2>1, <2>2, <2>3, <2>4
<1>22. matchesRule(x, y) <=> Ends(s, t)
  BY ONLY <1>7, <1>14, <1>19, <1>20, <1>21
<1> QED BY <1>5, <1>22 DEF x, y

\* The rules of a list, as texts.
Texts(list) == [k \in 1..Len(list) |-> Text(list[k])]

\* Adding the domains of a list one after the other gives their texts in the
\* order of the list.
LEMMA RulesAre ==
    ASSUME NEW list \in Seq(Domain)
    PROVE  /\ RulesFrom(list).blocked_domains = Texts(list)
           /\ Texts(list) \in Seq(Seq(Byte)) /\ Len(Texts(list)) = Len(list)
<1> DEFINE z == Len(list)
           Added(n) == Adds!Loop(list, Rule!NoRules, 1..n)
           Is(n) == [blocked_ips |-> {}, blocked_ports |-> {},
                     blocked_domains |-> [k \in 1..n |-> Text(list[k])]]
           Good == {n \in Nat : n <= z => Added(n) = Is(n)}
<1>1. z \in Nat /\ DOMAIN list = 1..z /\ \A k \in 1..z : list[k] \in Domain
  OBVIOUS
<1>2. \A k \in 1..z : Text(list[k]) \in Seq(Byte)
  BY <1>1, TextIs
<1>3. 0 \in Good
  <2>1. 1..0 = {}
    OBVIOUS
  <2>2. Added(0) = Rule!NoRules
    BY <2>1, Adds!LoopEmpty
  <2>3. [k \in 1..0 |-> Text(list[k])] = <<>>
    BY <2>1
  <2>4. Is(0) = Rule!NoRules
    BY <2>3 DEF Rule!NoRules
  <2> HIDE DEF Added, Is
  <2> QED BY <2>2, <2>4
<1>4. ASSUME NEW n \in Nat, n \in Good PROVE n + 1 \in Good
  <2> SUFFICES ASSUME n + 1 <= z PROVE Added(n + 1) = Is(n + 1)
    OBVIOUS
  <2>1. Added(n) = Is(n)
    <3> HIDE DEF Added, Is, z
    <3> QED BY <1>1, <1>4
  <2>2. Added(n + 1) = Adding(list, n + 1, Added(n))
    <3>1. Adds!PicksLargest(1..(n + 1))
      BY MaxPicks
    <3> QED BY <3>1, Adds!IntervalStep
  <2> DEFINE old == [k \in 1..n |-> Text(list[k])]
             new == [k \in 1..(n + 1) |-> Text(list[k])]
             x == Text(list[n + 1])
  <2>3. \A k \in 1..(n + 1) : Text(list[k]) \in Seq(Byte)
    <3> HIDE DEF z
    <3> QED BY <1>1, <1>2
  <2>4. Append(old, x) = new
    <3> DEFINE T(k) == Text(list[k])
    <3>1. \A k \in 1..(n + 1) : T(k) \in Seq(Byte)
      BY <2>3
    <3> HIDE DEF T
    <3>2. Append([k \in 1..n |-> T(k)], T(n + 1)) = [k \in 1..(n + 1) |-> T(k)]
      <4> DEFINE o == [k \in 1..n |-> T(k)]
                 w == [k \in 1..(n + 1) |-> T(k)]
      <4>1. o \in Seq(Seq(Byte)) /\ Len(o) = n /\ \A k \in 1..n : o[k] = T(k)
        BY <3>1
      <4>2. w \in Seq(Seq(Byte)) /\ Len(w) = n + 1 /\ \A k \in 1..(n + 1) : w[k] = T(k)
        BY <3>1
      <4>3. T(n + 1) \in Seq(Byte)
        BY <3>1
      <4> HIDE DEF o, w
      <4>4. /\ Append(o, T(n + 1)) \in Seq(Seq(Byte)) /\ Len(Append(o, T(n + 1))) = n + 1
            /\ \A k \in 1..n : Append(o, T(n + 1))[k] = o[k]
            /\ Append(o, T(n + 1))[n + 1] = T(n + 1)
        BY <4>1, <4>3, AppendProperties
      <4>5. \A k \in 1..(n + 1) : Append(o, T(n + 1))[k] = w[k]
        BY <4>1, <4>2, <4>4
      <4>6. \A k \in 1..Len(w) : Append(o, T(n + 1))[k] = w[k]
        BY <4>2, <4>5
      <4> QED BY <4>2, <4>4, <4>6, SeqEqual DEF o, w
    <3> QED BY <3>2 DEF T
  <2>5. Adding(list, n + 1, Is(n)) = [blocked_ips |-> {}, blocked_ports |-> {},
                                      blocked_domains |-> Append(old, x)]
    <3>1. Is(n) = [blocked_ips |-> {}, blocked_ports |-> {}, blocked_domains |-> old]
      OBVIOUS
    <3>2. Adding(list, n + 1, Is(n)) = Rule!addBlockedDomain(Is(n), x)
      BY DEF Adding
    <3>3. Rule!addBlockedDomain([blocked_ips |-> {}, blocked_ports |-> {}, blocked_domains |-> old], x)
            = [blocked_ips |-> {}, blocked_ports |-> {}, blocked_domains |-> Append(old, x)]
      <4> DEFINE more == Append(old, x)
                 r == [blocked_ips |-> {}, blocked_ports |-> {}, blocked_domains |-> old]
      <4>1. r.blocked_domains = old
        OBVIOUS
      <4> HIDE DEF old, x
      <4>2. Append(r.blocked_domains, x) = more
        BY <4>1
      <4> HIDE DEF more
      <4>3. [r EXCEPT !.blocked_domains = more]
              = [blocked_ips |-> {}, blocked_ports |-> {}, blocked_domains |-> more]
        <5> DEFINE S == {old, more}
                   none == {}
        <5>1. old \in S /\ more \in S
          OBVIOUS
        <5> HIDE DEF S, none
        <5>2. r = [blocked_ips |-> none, blocked_ports |-> none, blocked_domains |-> old]
          BY DEF none
        <5>3. r \in [blocked_ips : {none}, blocked_ports : {none}, blocked_domains : S]
          BY <5>1, <5>2
        <5> HIDE DEF r
        <5>4. [r EXCEPT !.blocked_domains = more]
                = [blocked_ips |-> none, blocked_ports |-> none, blocked_domains |-> more]
          BY ONLY <5>1, <5>3
        <5> QED BY <5>4 DEF none
      <4>4. Rule!addBlockedDomain(r, x) = [r EXCEPT !.blocked_domains = Append(r.blocked_domains, x)]
        BY DEF Rule!addBlockedDomain
      <4> QED BY <4>2, <4>3, <4>4 DEF more
    <3> HIDE DEF Is, old, x
    <3> QED BY <3>1, <3>2, <3>3
  <2> HIDE DEF Added
  <2> QED BY <2>1, <2>2, <2>4, <2>5
<1>5. Nat \subseteq Good
  <2> HIDE DEF Good
  <2> QED BY <1>3, <1>4, Adds!CountingUp
<1>6. Added(z) = Is(z)
  <2> HIDE DEF Added, Is, z
  <2> QED BY <1>1, <1>5
<1>7. RulesFrom(list) = Added(z)
  BY <1>1 DEF RulesFrom, FoldLeft, MapThenFoldSet, Adds!Loop, Adds!MapThenFoldSet, Adding
<1>8. RulesFrom(list).blocked_domains = Texts(list)
  <2> HIDE DEF Added
  <2> QED BY <1>6, <1>7 DEF Texts
<1>9. Texts(list) \in Seq(Seq(Byte)) /\ Len(Texts(list)) = Len(list)
  <2> HIDE DEF z
  <2> DEFINE T(k) == Text(list[k])
  <2>1. \A k \in 1..z : T(k) \in Seq(Byte)
    BY <1>2
  <2> HIDE DEF T
  <2>2. [k \in 1..z |-> T(k)] \in Seq(Seq(Byte)) /\ Len([k \in 1..z |-> T(k)]) = z
    BY <1>1, <2>1
  <2> QED BY <2>2 DEF Texts, T, z
<1> QED BY <1>8, <1>9

\* The first position among those of hits.
IsFirst(i, hits) == i \in hits /\ \A j \in hits : i <= j

\* What was found begins with the rule at the first of these positions.
Leads(found, hits, rules) ==
    \E i : IsFirst(i, hits) /\ found # <<>> /\ Head(found) = rules[i]

\* A rule found after others does not change the first one.
LEMMA LeadsOn ==
    ASSUME NEW S, NEW found \in Seq(S), NEW e \in S, NEW hits, NEW rules, NEW n \in Int,
           \A i \in hits : i \in Int /\ i <= n, rules[n] = e,
           IF hits = {} THEN found = <<>> ELSE Leads(found, hits, rules)
    PROVE  Leads(Append(found, e), hits \cup {n}, rules)
<1> DEFINE more == Append(found, e)
           all == hits \cup {n}
<1>1. more # <<>> /\ Head(more) = IF found = <<>> THEN e ELSE Head(found)
  BY AppendProperties, HeadTailAppend
<1>2. CASE hits = {}
  <2>1. IsFirst(n, all) /\ Head(more) = rules[n]
    BY <1>1, <1>2 DEF IsFirst
  <2> HIDE DEF more, all
  <2>2. Leads(more, all, rules)
    BY <1>1, <2>1 DEF Leads
  <2> QED BY <2>2 DEF more, all
<1>3. CASE hits # {}
  <2>1. PICK i : IsFirst(i, hits) /\ found # <<>> /\ Head(found) = rules[i]
    BY <1>3 DEF Leads
  <2>2. IsFirst(i, all)
    BY <2>1 DEF IsFirst
  <2>3. Head(more) = rules[i]
    BY <1>1, <2>1
  <2> HIDE DEF more, all
  <2>4. Leads(more, all, rules)
    BY <1>1, <2>2, <2>3 DEF Leads
  <2> QED BY <2>4 DEF more, all
<1> QED BY <1>2, <1>3

\* Where the rules that match a name are.
HitsOf(rules, name) == {i \in 1..Len(rules) : matchesRule(name, rules[i])}

\* matchBlockedDomain answers with the first rule that matches, and with the
\* empty string if none does.
LEMMA FirstMatch ==
    ASSUME NEW rules, rules.blocked_domains \in Seq(Seq(Byte)), NEW name
    PROVE  LET d == rules.blocked_domains
           IN  IF HitsOf(d, name) = {} THEN Rule!matchBlockedDomain(rules, name) = <<>>
               ELSE \E i : IsFirst(i, HitsOf(d, name)) /\ Rule!matchBlockedDomain(rules, name) = d[i]
<1> DEFINE S == Seq(Byte)
           d == rules.blocked_domains
           env == [rules |-> d, name |-> name]
           Found(n) == Matches!Loop(env, <<>>, 1..n)
           HitsTo(n) == {i \in 1..n : matchesRule(name, d[i])}
           Claim(n) == /\ Found(n) \in Seq(S)
                       /\ IF HitsTo(n) = {} THEN Found(n) = <<>> ELSE Leads(Found(n), HitsTo(n), d)
           Good == {n \in Nat : n <= Len(d) => Claim(n)}
<1> HIDE DEF S
<1>1. d \in Seq(S) /\ Len(d) \in Nat /\ DOMAIN d = 1..Len(d)
  <2>1. d \in Seq(S)
    BY DEF S
  <2> QED BY <2>1
<1>2. 0 \in Good
  <2>1. 1..0 = {}
    OBVIOUS
  <2>2. Found(0) = <<>>
    BY <2>1, Matches!LoopEmpty
  <2>3. HitsTo(0) = {}
    BY <2>1
  <2>4. Claim(0)
    <3> HIDE DEF Found, HitsTo, d
    <3>1. <<>> \in Seq(S)
      OBVIOUS
    <3> QED BY <2>2, <2>3, <3>1
  <2> HIDE DEF Claim
  <2> QED BY <2>4
<1>3. ASSUME NEW n \in Nat, n \in Good PROVE n + 1 \in Good
  <2> SUFFICES ASSUME n + 1 <= Len(d) PROVE Claim(n + 1)
    OBVIOUS
  <2>1. Claim(n)
    <3> HIDE DEF Claim, d
    <3> QED BY <1>1, <1>3
  <2>2. Found(n + 1) = Matching(env, n + 1, Found(n))
    <3>1. Matches!PicksLargest(1..(n + 1))
      BY MaxPicks
    <3> QED BY <3>1, Matches!IntervalStep
  <2>3. Found(n + 1) = IF matchesRule(name, d[n + 1]) THEN Append(Found(n), d[n + 1]) ELSE Found(n)
    <3>1. Matching(env, n + 1, Found(n))
            = IF matchesRule(name, d[n + 1]) THEN Append(Found(n), d[n + 1]) ELSE Found(n)
      <4> HIDE DEF Found, d
      <4> QED BY DEF Matching
    <3> QED BY <2>2, <3>1
  <2>4. HitsTo(n + 1) = IF matchesRule(name, d[n + 1]) THEN HitsTo(n) \cup {n + 1} ELSE HitsTo(n)
    OBVIOUS
  <2>5. \A i \in HitsTo(n) : i \in Int /\ i <= n + 1
    OBVIOUS
  <2>6. d[n + 1] \in S
    <3> HIDE DEF d
    <3> QED BY <1>1
  <2> HIDE DEF Found, HitsTo, d
  <2>7. CASE ~matchesRule(name, d[n + 1])
    BY <2>1, <2>3, <2>4, <2>7
  <2>8. CASE matchesRule(name, d[n + 1])
    <3>1. Found(n + 1) \in Seq(S) /\ HitsTo(n + 1) # {}
      <4> DEFINE found == Found(n)
                 e == d[n + 1]
      <4>1. found \in Seq(S) /\ e \in S
        BY <2>1, <2>6
      <4> HIDE DEF found, e
      <4>2. Append(found, e) \in Seq(S)
        BY ONLY <4>1
      <4>3. Found(n + 1) = Append(found, e)
        BY <2>3, <2>8 DEF found, e
      <4>4. HitsTo(n + 1) # {}
        BY <2>4, <2>8
      <4> QED BY <4>2, <4>3, <4>4
    <3>2. Leads(Append(Found(n), d[n + 1]), HitsTo(n) \cup {n + 1}, d)
      <4>1. n + 1 \in Int
        OBVIOUS
      <4> QED BY <2>1, <2>5, <2>6, <4>1, LeadsOn
    <3> QED BY <2>3, <2>4, <2>8, <3>1, <3>2
  <2> QED BY <2>7, <2>8
<1>4. Claim(Len(d))
  <2>1. Len(d) \in Good
    <3> HIDE DEF Good, d
    <3>1. \A n \in Nat : n \in Good => n + 1 \in Good
      BY <1>3
    <3> QED BY <1>1, <1>2, <3>1, Matches!CountingUp
  <2> HIDE DEF Claim, d
  <2> QED BY <1>1, <2>1
<1>5. Rule!MatchingRules(rules, name) = Found(Len(d))
  BY <1>1 DEF Rule!MatchingRules, Rule!FoldLeft, Rule!MapThenFoldSet, Rule!Max, Max, Matches!Loop,
     Matches!MapThenFoldSet, Matching
<1>6. HitsOf(d, name) = HitsTo(Len(d))
  BY DEF HitsOf
<1> HIDE DEF Found, HitsTo, d
<1>7. CASE HitsOf(d, name) = {}
  <2>1. Found(Len(d)) = <<>>
    BY <1>4, <1>6, <1>7
  <2>2. Rule!matchBlockedDomain(rules, name) = <<>>
    BY <1>5, <2>1 DEF Rule!matchBlockedDomain
  <2> QED BY <1>7, <2>2 DEF d
<1>8. CASE HitsOf(d, name) # {}
  <2>1. PICK i : IsFirst(i, HitsOf(d, name)) /\ Found(Len(d)) # <<>> /\ Head(Found(Len(d))) = d[i]
    BY <1>4, <1>6, <1>8 DEF Leads
  <2>2. Rule!matchBlockedDomain(rules, name) = d[i]
    BY <1>5, <2>1 DEF Rule!matchBlockedDomain
  <2> QED BY <1>8, <2>1, <2>2 DEF d
<1> QED BY <1>7, <1>8

\* The first rule of a list that matches the text of a name is the text of the
\* first domain of the list that is the name or a parent domain of it.
LEMMA FirstByLabels ==
    ASSUME NEW list \in Seq(Domain), NEW labels \in Domain
    PROVE  Rule!matchBlockedDomain(RulesFrom(list), Text(labels)) = ByLabels(list, labels)
<1> DEFINE rules == RulesFrom(list)
           d == Texts(list)
           name == Text(labels)
           z == Len(list)
           I == {i \in 1..z : IsSuffix(list[i], labels)}
           found == Rule!matchBlockedDomain(rules, name)
<1>1. rules.blocked_domains = d /\ d \in Seq(Seq(Byte)) /\ Len(d) = z /\ z \in Nat
  BY RulesAre
<1>2. \A i \in 1..z : list[i] \in Domain /\ d[i] = Text(list[i])
  BY DEF Texts
<1>3. HitsOf(d, name) = I
  <2>1. ASSUME NEW i \in 1..z PROVE matchesRule(name, d[i]) <=> IsSuffix(list[i], labels)
    <3>1. list[i] \in Domain /\ d[i] = Text(list[i])
      BY ONLY <1>2, <2>1
    <3>2. matchesRule(Text(labels), Text(list[i])) <=> IsSuffix(list[i], labels)
      BY <3>1, MatchesIs
    <3> QED BY ONLY <3>1, <3>2
  <2> HIDE DEF d, name, z
  <2>2. HitsOf(d, name) = {i \in 1..z : matchesRule(name, d[i])}
    BY <1>1 DEF HitsOf
  <2> QED BY <2>1, <2>2
<1>4. ByLabels(list, labels) = IF I # {} THEN IF Min(I) = 0 THEN <<>> ELSE Text(list[Min(I)]) ELSE <<>>
  <2>1. SelectInSeq(list, LAMBDA rule : IsSuffix(rule, labels)) = IF I # {} THEN Min(I) ELSE 0
    BY DEF SelectInSeq
  <2> HIDE DEF I
  <2> QED BY <2>1 DEF ByLabels
<1>5. I \subseteq 1..z
  OBVIOUS
<1>6. IF HitsOf(d, name) = {} THEN found = <<>>
      ELSE \E i : IsFirst(i, HitsOf(d, name)) /\ found = d[i]
  <2> HIDE DEF rules, name, d
  <2> QED BY <1>1, FirstMatch
<1> HIDE DEF d, name, z, I, found, rules
<1>7. CASE I = {}
  BY <1>3, <1>4, <1>6, <1>7 DEF found, rules, name
<1>8. CASE I # {}
  <2>1. PICK i : IsFirst(i, I) /\ found = d[i]
    BY <1>3, <1>6, <1>8
  <2>2. Min(I) \in I /\ \A y \in I : Min(I) <= y
    <3>1. I \subseteq Nat
      BY <1>1, <1>5
    <3> QED BY <1>8, <3>1, LeastNumber
  <2> DEFINE k == Min(I)
  <2>3. i \in I /\ i <= k /\ k <= i
    BY <2>1, <2>2 DEF IsFirst
  <2>4. k \in I /\ k \in 1..z /\ i \in 1..z
    BY <1>5, <2>2, <2>3
  <2> HIDE DEF k
  <2>5. i = k /\ k # 0
    BY <1>1, <2>3, <2>4
  <2>6. d[k] = Text(list[k])
    BY <1>2, <2>4
  <2>7. ByLabels(list, labels) = Text(list[k])
    BY <1>4, <1>8, <2>5 DEF k
  <2>8. found = ByLabels(list, labels)
    BY <2>1, <2>5, <2>6, <2>7
  <2> QED BY <2>8 DEF found, rules, name
<1> QED BY <1>7, <1>8

\* The rules block by whole labels, and the first rule added wins: whatever
\* name is found, the rule the code finds by comparing characters is the one
\* found by comparing labels (block_rules.h:14).
THEOREM BlockedByLabelsHolds == Spec => []BlockedByLabels
<1>1. BlockedByLabels
  <2> SUFFICES ASSUME NEW labels \in Hosts, answer.sni = Text(labels), NEW list \in RuleLists
               PROVE  Rule!matchBlockedDomain(RulesFrom(list), answer.sni) = ByLabels(list, labels)
    BY DEF BlockedByLabels
  <2>1. labels \in Domain /\ list \in Seq(Domain)
    BY LabelAssumption
  <2>2. Rule!matchBlockedDomain(RulesFrom(list), Text(labels)) = ByLabels(list, labels)
    BY <2>1, FirstByLabels
  <2> QED BY <2>2
<1> QED BY <1>1, PTL
=============================================================================
