------------------------ MODULE FLA_Threads_proofs ------------------------
(***************************************************************************)
(* The parts that the two functions of FLA_Threads give to the threads of  *)
(* a team follow one another, stay within the range and leave nothing out, *)
(* for every number of threads, range and element size.                    *)
(***************************************************************************)
EXTENDS FLA_Threads, TLAPS

(* Facts on products and quotients that the rest is built from.            *)
LEMMA Monotone ==
  ASSUME NEW a \in Nat, NEW b \in Nat, NEW c \in Nat, a <= b
  PROVE  a * c \in Nat /\ a * c <= b * c
BY Z3

LEMMA Successor ==
  ASSUME NEW a \in Nat, NEW b \in Nat
  PROVE  a * b \in Nat /\ (a + 1) * b = a * b + b /\ a * (b + 1) = a * b + a
BY Z3

LEMMA Quotient ==
  ASSUME NEW a \in Nat, NEW b \in Nat, b > 0
  PROVE  /\ a \div b \in Nat /\ a % b \in Nat /\ a % b < b
         /\ a = (a \div b) * b + (a % b)
         /\ (a \div b) * b <= a /\ a < (a \div b + 1) * b
<1>1. a \div b \in Int /\ a % b \in Nat /\ a % b < b
  OBVIOUS
<1>2. a = b * (a \div b) + (a % b)
  BY Z3
<1>3. a \div b >= 0
  BY <1>1, <1>2, Z3
<1>4. a \div b \in Nat
  BY <1>1, <1>3
<1>5. b * (a \div b) = (a \div b) * b
  BY <1>4, Z3
<1>6. (a \div b + 1) * b = (a \div b) * b + b /\ (a \div b) * b \in Nat
  BY <1>4, Successor
<1>7. QED
  BY <1>1, <1>2, <1>4, <1>5, <1>6

(* The quotient rounded up.                                                *)
LEMMA Ceiling ==
  ASSUME NEW a \in Nat, NEW b \in Nat, b > 0
  PROVE  /\ CeilDiv(a, b) \in Nat
         /\ a <= CeilDiv(a, b) * b
         /\ a > 0 => CeilDiv(a, b) > 0 /\ (CeilDiv(a, b) - 1) * b < a
<1>1. /\ a \div b \in Nat /\ a % b \in Nat /\ a % b < b
      /\ a = (a \div b) * b + (a % b)
      /\ (a \div b) * b <= a /\ a < (a \div b + 1) * b
  BY Quotient
<1>2. PICK q \in Nat : q = a \div b
  BY <1>1
<1>3. PICK r \in Nat : r = a % b
  BY <1>1
<1>4. CASE r > 0
  <2>1. CeilDiv(a, b) = q + 1 /\ (q + 1) - 1 = q
    BY <1>2, <1>3, <1>4 DEF CeilDiv
  <2>2. a <= (q + 1) * b /\ q * b < a
    BY <1>1, <1>2, <1>3, <1>4
  <2>3. QED
    BY <2>1, <2>2
<1>5. CASE r = 0
  <2>1. CeilDiv(a, b) = q
    BY <1>2, <1>3, <1>5 DEF CeilDiv
  <2>2. a = q * b
    BY <1>1, <1>2, <1>3, <1>5
  <2>3. ASSUME a > 0
        PROVE  q > 0 /\ (q - 1) * b < a
    <3>1. q # 0
      BY <2>2, <2>3, Z3
    <3>2. PICK p \in Nat : q = p + 1
      BY <3>1
    <3>3. q * b = p * b + b /\ p * b \in Nat /\ q - 1 = p
      BY <3>2, Successor
    <3>4. QED
      BY <2>2, <3>1, <3>3
  <2>4. QED
    BY <2>1, <2>2, <2>3
<1>6. QED
  BY <1>4, <1>5

-----------------------------------------------------------------------------
(* Shares of equal size.                                                   *)

(* The start of share i when the first r of the shares have q + 1 elements *)
(* and the others q.                                                       *)
Start(q, r, i) == IF i < r THEN i * (q + 1) ELSE r + i * q
Size(q, r, i) == IF i < r THEN q + 1 ELSE q

(* A share begins where the one before it ends, so later ones begin later. *)
LEMMA Adjacent ==
  ASSUME NEW q \in Nat, NEW r \in Nat, NEW i \in Nat
  PROVE  Start(q, r, i) \in Nat /\ Start(q, r, i + 1) = Start(q, r, i) + Size(q, r, i)
<1>1. i * q \in Nat /\ i * (q + 1) = i * q + i /\ (i + 1) * q = i * q + q
  BY Successor
<1>2. (i + 1) * (q + 1) = (i + 1) * q + (i + 1)
  BY Successor
<1>3. QED
  BY <1>1, <1>2 DEF Start, Size

LEMMA Ascending ==
  ASSUME NEW q \in Nat, NEW r \in Nat, NEW i \in Nat, NEW j \in Nat, i <= j
  PROVE  Start(q, r, i) <= Start(q, r, j)
<1>1. i * q \in Nat /\ i * q <= j * q
  BY Monotone
<1>2. i * (q + 1) = i * q + i /\ j * (q + 1) = j * q + j /\ j * q \in Nat
  BY Successor
<1>3. QED
  BY <1>1, <1>2 DEF Start

(* Every element is in some share.                                         *)
LEMMA Reached ==
  ASSUME NEW q \in Nat, NEW r \in Nat, NEW N \in Nat, r < N,
         NEW x \in Nat, x < N * q + r
  PROVE  \E i \in 0..(N - 1) : Start(q, r, i) <= x /\ x < Start(q, r, i) + Size(q, r, i)
<1>1. r * q \in Nat /\ r * (q + 1) = r * q + r /\ N * q \in Nat /\ q + 1 \in Nat /\ q + 1 > 0
  BY Successor
<1>2. CASE x < r * (q + 1)
  <2>1. PICK i \in Nat : i * (q + 1) <= x /\ x < (i + 1) * (q + 1)
    BY <1>1, Quotient
  <2>2. i < r
    <3>1. r <= i => r * (q + 1) <= i * (q + 1)
      BY <1>1, Monotone
    <3>2. r * (q + 1) \in Nat /\ i * (q + 1) \in Nat
      BY <1>1, Successor
    <3>3. QED
      BY <1>2, <2>1, <3>1, <3>2
  <2>3. (i + 1) * (q + 1) = i * (q + 1) + (q + 1)
    BY <1>1, Successor
  <2>4. Start(q, r, i) = i * (q + 1) /\ Size(q, r, i) = q + 1
    BY <2>2 DEF Start, Size
  <2>5. i \in 0..(N - 1)
    BY <2>2
  <2>6. QED
    BY <2>1, <2>3, <2>4, <2>5
<1>3. CASE x >= r * (q + 1)
  <2>1. PICK y \in Nat : y = x - r /\ r * q <= y /\ y < N * q
    BY <1>1, <1>3
  <2>2. q > 0
    <3>1. q = 0 => N * q = 0
      BY Z3
    <3>2. QED
      BY <1>1, <2>1, <3>1
  <2>3. PICK i \in Nat : i * q <= y /\ y < (i + 1) * q
    BY <2>2, Quotient
  <2>4. (i + 1) * q = i * q + q /\ i * q \in Nat
    BY Successor
  <2>5. r <= i
    <3>1. i + 1 <= r => (i + 1) * q <= r * q
      BY Monotone
    <3>2. QED
      BY <1>1, <2>1, <2>3, <2>4, <3>1
  <2>6. i < N
    <3>1. N <= i => N * q <= i * q
      BY Monotone
    <3>2. QED
      BY <1>1, <2>1, <2>3, <2>4, <3>1
  <2>7. Start(q, r, i) = r + i * q /\ Size(q, r, i) = q
    BY <2>5 DEF Start, Size
  <2>8. r + i * q <= x /\ x < r + i * q + q
    BY <2>1, <2>3, <2>4
  <2>9. QED
    BY <2>6, <2>7, <2>8
<1>4. r * (q + 1) \in Nat
  BY <1>1, Successor
<1>5. QED
  BY <1>2, <1>3, <1>4

LEMMA Subrange ==
  ASSUME NEW N \in Nat, N > 0, NEW rg \in Nat, rg > 0, NEW i \in 0..(N - 1)
  PROVE  FLA_Thread_get_subrange(i, N, rg) =
           [index |-> Start(rg \div N, rg % N, i), sub_range |-> Size(rg \div N, rg % N, i)]
<1>1. rg \div N \in Nat /\ rg % N \in Nat
  BY Quotient
<1>2. CASE i < rg % N
  BY <1>1, <1>2 DEF FLA_Thread_get_subrange, Start, Size
<1>3. CASE i >= rg % N
  BY <1>1, <1>3 DEF FLA_Thread_get_subrange, Start, Size
<1>4. QED
  BY <1>1, <1>2, <1>3

-----------------------------------------------------------------------------
(* Shares in whole cache lines.                                            *)

LEMMA GranulePositive ==
  ASSUME NEW es \in Nat
  PROVE  Granule(es) \in Nat /\ Granule(es) > 0
<1>1. CASE es = 0 \/ es > 64
  BY <1>1 DEF Granule
<1>2. CASE es > 0 /\ es <= 64
  <2>1. PICK q \in Nat : q = 64 \div es /\ 64 < (q + 1) * es
    BY <1>2, Quotient
  <2>2. q # 0
    BY <1>2, <2>1
  <2>3. QED
    BY <1>2, <2>1, <2>2 DEF Granule
<1>3. QED
  BY <1>1, <1>2

LEMMA Multiple ==
  ASSUME NEW k \in Nat, NEW g \in Nat, g > 0
  PROVE  k * g \in Nat /\ (k * g) % g = 0
<1>1. PICK a \in Nat : a = k * g
  BY Successor
<1>2. PICK d \in Nat : /\ d = a \div g /\ a % g \in Nat
                       /\ a = d * g + (a % g) /\ d * g <= a /\ a < (d + 1) * g
  BY Quotient
<1>3. (d + 1) * g = d * g + g /\ d * g \in Nat
  BY Successor
<1>4. k <= d
  <2>1. d + 1 <= k => (d + 1) * g <= k * g
    BY Monotone
  <2>2. QED
    BY <1>1, <1>2, <1>3, <2>1
<1>5. k * g <= d * g
  BY <1>4, Monotone
<1>6. QED
  BY <1>1, <1>2, <1>3, <1>5

(* A share has c elements, a multiple of a cache line, and t of them make  *)
(* up the range, the last one possibly cut; there are threads for all.     *)
LEMMA ChunkFacts ==
  ASSUME NEW N \in Nat, N > 0, NEW es \in Nat, NEW rg \in Nat, rg > 0
  PROVE  LET c == Chunk(N, es, rg)
             t == Threshold(N, es, rg)
         IN  /\ c \in Nat /\ c > 0 /\ t \in Nat /\ t > 0 /\ t <= N
             /\ (t - 1) * c < rg /\ rg <= t * c
             /\ \E k \in Nat : c = k * Granule(es)
<1>1. PICK g \in Nat : g = Granule(es) /\ g > 0
  BY GranulePositive
<1>2. g * N \in Nat /\ g * N > 0
  <2>1. PICK p \in Nat : N = p + 1
    OBVIOUS
  <2>2. g * N = g * p + g /\ g * p \in Nat
    BY <2>1, Successor
  <2>3. QED
    BY <1>1, <2>2
<1>3. PICK k \in Nat : k = CeilDiv(rg, g * N) /\ rg <= k * (g * N) /\ k > 0
  BY <1>2, Ceiling
<1>4. PICK c \in Nat : c = Chunk(N, es, rg) /\ c = k * g
  BY <1>1, <1>3, Successor DEF Chunk
<1>5. k * (g * N) = N * c
  BY <1>4, Z3
<1>6. c > 0
  <2>1. N * 0 = 0
    OBVIOUS
  <2>2. QED
    BY <1>3, <1>4, <1>5, <2>1
<1>7. PICK t \in Nat : /\ t = CeilDiv(rg, c) /\ rg <= t * c /\ t > 0
                       /\ (t - 1) * c < rg
  BY <1>6, Ceiling
<1>8. t = Threshold(N, es, rg)
  BY <1>4, <1>7 DEF Threshold
<1>9. t <= N
  <2>1. PICK p \in Nat : p = t - 1
    BY <1>7
  <2>2. N <= p => N * c <= p * c
    BY Monotone
  <2>3. N * c \in Nat /\ p * c \in Nat
    BY Successor
  <2>4. QED
    BY <1>3, <1>5, <1>7, <2>1, <2>2, <2>3
<1>10. QED
  BY <1>1, <1>4, <1>6, <1>7, <1>8, <1>9

-----------------------------------------------------------------------------
(* The part that thread i of N computes.                                   *)
Share(by_chunks, i, N, es, rg) ==
  IF by_chunks THEN FLA_Thread_get_subrange_chunks(i, N, es, rg)
  ELSE FLA_Thread_get_subrange(i, N, rg)

(* The parts s[0], s[1], ... follow one another, stay within the range and *)
(* leave nothing out.                                                      *)
Tiles(s, N, rg) ==
  /\ \A i \in 0..(N - 1) : /\ s[i].index \in Nat /\ s[i].sub_range \in Nat
                           /\ s[i].index + s[i].sub_range <= rg
  /\ \A i, j \in 0..(N - 1) :
       i < j => s[j].sub_range = 0 \/ s[i].index + s[i].sub_range <= s[j].index
  /\ \A x \in 0..(rg - 1) : \E i \in 0..(N - 1) :
       s[i].index <= x /\ x < s[i].index + s[i].sub_range

LEMMA SubrangeTiles ==
  ASSUME NEW N \in Nat, N > 0, NEW rg \in Nat, rg > 0
  PROVE  Tiles([i \in 0..(N - 1) |-> FLA_Thread_get_subrange(i, N, rg)], N, rg)
<1>1. PICK q \in Nat, r \in Nat : q = rg \div N /\ r = rg % N /\ r < N /\ rg = q * N + r
  BY Quotient
<1> DEFINE s == [i \in 0..(N - 1) |-> FLA_Thread_get_subrange(i, N, rg)]
<1>2. \A i \in 0..(N - 1) : s[i].index = Start(q, r, i) /\ s[i].sub_range = Size(q, r, i)
  BY <1>1, Subrange
<1>3. Start(q, r, N) = rg
  BY <1>1, Z3 DEF Start
<1>4. ASSUME NEW i \in 0..(N - 1), NEW j \in Nat, i < j
      PROVE  /\ Start(q, r, i) \in Nat /\ Size(q, r, i) \in Nat
             /\ Start(q, r, i) + Size(q, r, i) <= Start(q, r, j)
  <2>1. Start(q, r, i) \in Nat /\ Start(q, r, i + 1) = Start(q, r, i) + Size(q, r, i)
    BY Adjacent
  <2>2. Start(q, r, i + 1) <= Start(q, r, j)
    BY <1>4, Ascending
  <2>3. Size(q, r, i) \in Nat
    BY DEF Size
  <2>4. QED
    BY <2>1, <2>2, <2>3
<1>5. \A i \in 0..(N - 1) : /\ s[i].index \in Nat /\ s[i].sub_range \in Nat
                           /\ s[i].index + s[i].sub_range <= rg
  BY <1>2, <1>3, <1>4
<1>6. \A i, j \in 0..(N - 1) : i < j => s[i].index + s[i].sub_range <= s[j].index
  BY <1>2, <1>4
<1>7. \A x \in 0..(rg - 1) : \E i \in 0..(N - 1) :
         s[i].index <= x /\ x < s[i].index + s[i].sub_range
  <2>1. q * N = N * q
    BY Z3
  <2>2. QED
    BY <1>1, <1>2, <2>1, Reached
<1>8. QED
  BY <1>5, <1>6, <1>7 DEF Tiles

LEMMA ChunkTiles ==
  ASSUME NEW N \in Nat, N > 0, NEW es \in Nat, NEW rg \in Nat, rg > 0
  PROVE  Tiles([i \in 0..(N - 1) |-> FLA_Thread_get_subrange_chunks(i, N, es, rg)], N, rg)
<1>1. PICK c \in Nat, t \in Nat :
        /\ c = Chunk(N, es, rg) /\ t = Threshold(N, es, rg) /\ c > 0 /\ t > 0 /\ t <= N
        /\ (t - 1) * c < rg /\ rg <= t * c
  BY ChunkFacts
<1>2. PICK u \in Nat : u = t - 1 /\ u * c < rg /\ t * c = u * c + c /\ u * c \in Nat
  <2>1. PICK u \in Nat : u = t - 1 /\ t = u + 1
    BY <1>1
  <2>2. QED
    BY <1>1, <2>1, Successor
<1> DEFINE s == [i \in 0..(N - 1) |-> FLA_Thread_get_subrange_chunks(i, N, es, rg)]
<1>3. ASSUME NEW i \in 0..(N - 1), i < u
      PROVE  s[i].index = i * c /\ s[i].sub_range = c
  BY <1>1, <1>2, <1>3 DEF FLA_Thread_get_subrange_chunks
<1>4. u \in 0..(N - 1) /\ s[u].index = u * c /\ s[u].sub_range = rg - u * c
  BY <1>1, <1>2, SMTT(30) DEF FLA_Thread_get_subrange_chunks
<1>5. ASSUME NEW i \in 0..(N - 1), i > u
      PROVE  s[i].index = 0 /\ s[i].sub_range = 0
  BY <1>1, <1>2, <1>5 DEF FLA_Thread_get_subrange_chunks, Nothing
<1>6. ASSUME NEW i \in Nat, NEW j \in Nat, i < j
      PROVE  i * c \in Nat /\ i * c + c <= j * c
  <2>1. (i + 1) * c = i * c + c /\ i * c \in Nat
    BY Successor
  <2>2. (i + 1) * c <= j * c
    BY <1>6, Monotone
  <2>3. QED
    BY <2>1, <2>2
<1>7. \A i \in 0..(N - 1) : /\ s[i].index \in Nat /\ s[i].sub_range \in Nat
                           /\ s[i].index + s[i].sub_range <= rg
  <2>1. ASSUME NEW i \in 0..(N - 1)
        PROVE  /\ s[i].index \in Nat /\ s[i].sub_range \in Nat
               /\ s[i].index + s[i].sub_range <= rg
    <3>1. CASE i < u
      BY <1>2, <1>3, <1>6, <3>1
    <3>2. CASE i = u
      BY <1>2, <1>4, <3>2
    <3>3. CASE i > u
      BY <1>5, <3>3
    <3>4. QED
      BY <3>1, <3>2, <3>3
  <2>2. QED
    BY <2>1
<1>8. \A i, j \in 0..(N - 1) :
        i < j => s[j].sub_range = 0 \/ s[i].index + s[i].sub_range <= s[j].index
  <2>1. ASSUME NEW i \in 0..(N - 1), NEW j \in 0..(N - 1), i < j, j <= u
        PROVE  s[i].index + s[i].sub_range <= s[j].index
    <3>1. s[j].index = j * c
      BY <1>3, <1>4, <2>1
    <3>2. s[i].index = i * c /\ s[i].sub_range = c
      BY <1>3, <1>2, <2>1
    <3>3. i * c + c <= j * c
      BY <1>6, <2>1
    <3>4. QED
      BY <3>1, <3>2, <3>3
  <2>2. QED
    BY <1>5, <2>1, <1>2
<1>9. \A x \in 0..(rg - 1) : \E i \in 0..(N - 1) :
         s[i].index <= x /\ x < s[i].index + s[i].sub_range
  <2>1. ASSUME NEW x \in 0..(rg - 1)
        PROVE  \E i \in 0..(N - 1) : s[i].index <= x /\ x < s[i].index + s[i].sub_range
    <3>1. CASE x >= u * c
      BY <1>2, <1>4, <3>1
    <3>2. CASE x < u * c
      <4> x \in Nat
        OBVIOUS
      <4>1. PICK i \in Nat : i * c <= x /\ x < (i + 1) * c
        BY <1>1, Quotient
      <4>2. (i + 1) * c = i * c + c /\ i * c \in Nat
        BY Successor
      <4>3. i < u
        <5>1. u <= i => u * c <= i * c
          BY Monotone
        <5>2. QED
          BY <1>2, <3>2, <4>1, <4>2, <5>1
      <4>4. i \in 0..(N - 1)
        BY <1>1, <1>2, <4>3
      <4>5. s[i].index = i * c /\ s[i].sub_range = c
        BY <1>3, <4>3, <4>4
      <4> HIDE DEF s
      <4>6. QED
        BY <4>1, <4>2, <4>4, <4>5
    <3>3. QED
      BY <1>2, <3>1, <3>2
  <2>2. QED
    BY <2>1
<1>10. QED
  BY <1>7, <1>8, <1>9 DEF Tiles

(* The parts of a team tile its range.                                     *)
LEMMA SharesTile ==
  ASSUME NEW by_chunks \in BOOLEAN, NEW N \in Nat, N > 0, NEW es \in Nat, NEW rg \in Nat
  PROVE  Tiles([i \in 0..(N - 1) |-> Share(by_chunks, i, N, es, rg)], N, rg)
<1>1. CASE rg = 0
  <2>1. ASSUME NEW i \in 0..(N - 1)
        PROVE  Share(by_chunks, i, N, es, rg) = Nothing
    BY <1>1, <2>1 DEF Share, FLA_Thread_get_subrange, FLA_Thread_get_subrange_chunks,
                      Threshold, Nothing
  <2>2. QED
    BY <1>1, <2>1 DEF Tiles, Nothing
<1>2. CASE rg > 0 /\ by_chunks
  <2>1. [i \in 0..(N - 1) |-> Share(by_chunks, i, N, es, rg)]
          = [i \in 0..(N - 1) |-> FLA_Thread_get_subrange_chunks(i, N, es, rg)]
    BY <1>2 DEF Share
  <2>2. QED
    BY <1>2, <2>1, ChunkTiles
<1>3. CASE rg > 0 /\ ~by_chunks
  <2>1. [i \in 0..(N - 1) |-> Share(by_chunks, i, N, es, rg)]
          = [i \in 0..(N - 1) |-> FLA_Thread_get_subrange(i, N, rg)]
    BY <1>3 DEF Share
  <2>2. QED
    BY <1>3, <2>1, SubrangeTiles
<1>4. QED
  BY <1>1, <1>2, <1>3

=============================================================================
