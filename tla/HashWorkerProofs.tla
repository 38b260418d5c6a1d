-------------------------- MODULE HashWorkerProofs --------------------------
(***************************************************************************)
(* Proofs about the hashing worker and its sink, for every length of the   *)
(* source, size of chunk and range, validated prefix, pool and channel:    *)
(* the worker's invariant, and that the messages of a file are those       *)
(* FileRecords promises.                                                   *)
(***************************************************************************)
EXTENDS HashWorker, SequenceTheorems, TLAPS

----------------------------------------------------------------------------
(* Arithmetic of chunks and ranges. *)

\* The constants, one fact at a time.
LEMMA Sizes ==
    /\ Units \in Nat /\ Start \in Nat /\ Start <= Units /\ Carry \in Nat /\ Start + Carry <= Units
    /\ Chunk \in Nat /\ Chunk > 0 /\ RangeChunks \in Nat /\ RangeChunks > 0
    /\ R!Span \in Nat /\ R!Span > 0 /\ R!Span = RangeChunks * Chunk
    /\ Pool \in Nat /\ Pool > 0 /\ Cap \in Nat /\ Cap > 0
  BY WorkerConstants DEF R!Span

\* Whole multiples divide exactly.
LEMMA WholeDiv ==
    ASSUME NEW a \in Nat, NEW b \in Nat, b > 0
    PROVE  (a * b) \div b = a
  OBVIOUS

\* Quotient of whole blocks and a rest.
LEMMA DivIs ==
    ASSUME NEW q \in Int, NEW r \in Int, NEW b \in Int, 0 <= r, r < b
    PROVE  (q * b + r) \div b = q
  OBVIOUS

\* A number is its quotient and its rest.
LEMMA QuotientRest ==
    ASSUME NEW a \in Int, NEW b \in Int, b > 0
    PROVE  a = b * (a \div b) + (a % b)
  OBVIOUS

\* A product of a sum.
LEMMA Distribute ==
    ASSUME NEW p \in Int, NEW q \in Int, NEW b \in Int
    PROVE  (p + q) * b = p * b + q * b
  OBVIOUS

\* One more block.
LEMMA OneMore ==
    ASSUME NEW p \in Int, NEW b \in Int
    PROVE  (p + 1) * b = p * b + b
  OBVIOUS

\* More blocks are longer.
LEMMA TimesMonotone ==
    ASSUME NEW p \in Int, NEW q \in Int, NEW b \in Nat, p <= q
    PROVE  p * b <= q * b
  OBVIOUS

\* Division that rounds up, of n whole blocks and a rest.
LEMMA CeilDiv ==
    ASSUME NEW n \in Nat, NEW r \in Nat, NEW b \in Nat, r < b
    PROVE  (n * b + r + b - 1) \div b = IF r = 0 THEN n ELSE n + 1
  <1>1. CASE r = 0
    <2>1. n * b + r + b - 1 = n * b + (b - 1) /\ 0 <= b - 1 /\ b - 1 < b
      BY <1>1
    <2> QED  BY <1>1, <2>1
  <1>2. CASE r > 0
    <2>1. n * b + r + b - 1 = (n + 1) * b + (r - 1) /\ 0 <= r - 1 /\ r - 1 < b
      BY <1>2
    <2> QED  BY <1>2, <2>1
  <1> QED  BY <1>1, <1>2

\* The validated prefix ends on a chunk.
LEMMA StartOnChunk == \E c \in Nat : Start = c * Chunk
  <1>1. Start % Chunk = 0 /\ Start \in Nat /\ Chunk \in Nat /\ Chunk > 0
    BY WorkerConstants
  <1>2. Start = Chunk * (Start \div Chunk) + (Start % Chunk)
    BY <1>1, QuotientRest
  <1>3. Start \div Chunk \in Nat
    BY <1>1
  <1> QED  BY <1>1, <1>2, <1>3

\* A range starts on a chunk.
LEMMA FromOnChunk ==
    ASSUME NEW n \in Nat
    PROVE  \E k \in Nat : Start + n * R!Span = k * Chunk /\ (Start + n * R!Span) \div Chunk = k
  <1>1. PICK c \in Nat : Start = c * Chunk
    BY StartOnChunk
  <1>2. n * R!Span = (n * RangeChunks) * Chunk /\ n * RangeChunks \in Nat
    BY Sizes
  <1>3. c + n * RangeChunks \in Nat /\ Start + n * R!Span = (c + n * RangeChunks) * Chunk
    BY <1>1, <1>2, Sizes
  <1>4. ((c + n * RangeChunks) * Chunk) \div Chunk = c + n * RangeChunks
    BY <1>3, WholeDiv, Sizes
  <1> QED  BY <1>3, <1>4

\* The range behind the n-th is the one whose digests hold the units that follow
\* it, whole chunks but for the last one of the file.
RangeParts(n, from, to, digs) ==
    /\ n \in Nat /\ to \in Nat /\ from \in Nat /\ digs \in Seq(Seq(Nat))
    /\ from = Start + n * R!Span /\ to <= Units
    /\ to <= from + R!Span /\ (to = from + R!Span \/ to = Units)
    /\ Len(digs) \in 1 .. RangeChunks
    /\ (Len(digs) - 1) * Chunk < to - from /\ to - from <= Len(digs) * Chunk
    /\ \A i \in 1 .. Len(digs) :
         /\ Len(digs[i]) = R!Least(Chunk, to - from - (i - 1) * Chunk)
         /\ \A j \in 1 .. Len(digs[i]) : digs[i][j] = from + (i - 1) * Chunk + j
\* Digests of those units are the digests of the range.
LEMMA RangeIs ==
    ASSUME NEW n, NEW from, NEW to, NEW digs, RangeParts(n, from, to, digs)
    PROVE  R!RangeAt(n + 1) = R!Range(from, to, digs)
  <1> USE DEF RangeParts
  <1>1. PICK k \in Nat : from = k * Chunk /\ from \div Chunk = k
    BY FromOnChunk
  <1>2. R!Least(Units, from + R!Span) = to
    BY Sizes DEF R!Least
  <1>3. R!Chunks(to - from) = Len(digs)
    <2>1. to - from + Chunk - 1 = Len(digs) * Chunk + (to - from - (Len(digs) - 1) * Chunk - 1)
      BY Sizes
    <2>2. 0 <= to - from - (Len(digs) - 1) * Chunk - 1 /\ to - from - (Len(digs) - 1) * Chunk - 1 < Chunk
      BY Sizes
    <2> DEFINE rest == to - from - (Len(digs) - 1) * Chunk - 1
    <2>3. rest \in Int /\ Len(digs) \in Int /\ Chunk \in Int /\ 0 <= rest /\ rest < Chunk
      BY <2>2, Sizes
    <2> HIDE DEF rest
    <2>4. (Len(digs) * Chunk + rest) \div Chunk = Len(digs)
      BY <2>3, DivIs
    <2> QED  BY <2>1, <2>4 DEF R!Chunks, rest
  <1>4. ASSUME NEW i \in 1 .. Len(digs)
        PROVE  R!DigestOf(k + i - 1) = digs[i]
    <2>1. (k + i - 1) * Chunk = from + (i - 1) * Chunk
      <3>1. k + i - 1 = k + (i - 1) /\ k \in Int /\ i - 1 \in Int /\ Chunk \in Int
        BY Sizes
      <3>2. (k + (i - 1)) * Chunk = k * Chunk + (i - 1) * Chunk
        BY <3>1, Distribute
      <3> QED  BY Zenon, <1>1, <3>1, <3>2
    <2>2. R!Least(Chunk, Units - (k + i - 1) * Chunk) = Len(digs[i])
      <3>1. CASE to = Units
        <4>1. Units - (k + i - 1) * Chunk = to - from - (i - 1) * Chunk
          BY <2>1, <3>1, Sizes
        <4> QED  BY <4>1
      <3>2. CASE to = from + R!Span
        <4>1. (i - 1) * Chunk + Chunk <= RangeChunks * Chunk
          BY Sizes
        <4>2. to - from - (i - 1) * Chunk >= Chunk
          BY <3>2, <4>1, Sizes
        <4>3. Units - (k + i - 1) * Chunk >= Chunk
          BY <2>1, <4>2, Sizes
        <4> QED  BY <2>1, <4>2, <4>3, Sizes, SMTT(60) DEF R!Least
      <3> QED  BY <3>1, <3>2
    <2>3. digs[i] \in Seq(Nat)
      OBVIOUS
    <2>4. digs[i] = [j \in 1 .. Len(digs[i]) |-> digs[i][j]]
      <3>1. digs[i] \in [1 .. Len(digs[i]) -> Nat]
        BY ZenonT(60), <2>3, LenProperties
      <3> QED  BY SMTT(60), <3>1
    <2>5. \A j \in 1 .. Len(digs[i]) : digs[i][j] = (k + i - 1) * Chunk + j
      BY <2>1, SMTT(60)
    <2>6. R!DigestOf(k + i - 1) = [j \in 1 .. Len(digs[i]) |-> (k + i - 1) * Chunk + j]
      BY <2>2 DEF R!DigestOf
    <2> DEFINE S == 1 .. Len(digs[i])
               F(j) == (k + i - 1) * Chunk + j
    <2>7. digs[i] = [j \in S |-> digs[i][j]] /\ R!DigestOf(k + i - 1) = [j \in S |-> F(j)]
          /\ \A j \in S : digs[i][j] = F(j)
      BY <2>4, <2>5, <2>6
    <2> HIDE DEF S, F
    <2> QED  BY <2>7, SMTT(60)
  <1>5. [i \in 1 .. Len(digs) |-> R!DigestOf(k + i - 1)] = digs
    <2>1. digs = [i \in 1 .. Len(digs) |-> digs[i]]
      OBVIOUS
    <2> QED  BY <1>4, <2>1
  <1>6. (n + 1) - 1 = n
    OBVIOUS
  <1>7. R!RangeAt(n + 1) =
          R!Range(from, R!Least(Units, from + R!Span),
                  [i \in 1 .. R!Chunks(R!Least(Units, from + R!Span) - from) |-> R!DigestOf(from \div Chunk + i - 1)])
    BY Zenon, <1>6 DEF R!RangeAt
  <1> QED  BY Zenon, <1>1, <1>2, <1>3, <1>5, <1>7

\* A range that ends in the file is one of its ranges.
LEMMA RangesBound ==
    ASSUME NEW n \in Nat, Start + n * R!Span <= Units
    PROVE  n <= R!Ranges /\ R!Ranges \in Nat
  <1>1. PICK m \in Nat : Units - Start + R!Span - 1 = n * R!Span + m
    <2>1. n * R!Span \in Nat /\ Units - Start + R!Span - 1 - n * R!Span \in Nat
      BY Sizes
    <2> QED  BY <2>1, Sizes
  <1>2. ASSUME NEW S \in Nat, S > 0
        PROVE  (n * S + m) \div S >= n /\ (n * S + m) \div S \in Nat
    BY <1>2
  <1> QED  BY <1>1, <1>2, Sizes DEF R!Ranges
----------------------------------------------------------------------------
(* Hashing. *)

\* Nothing in the open chunk, and no digest.
LEMMA NoneYet == <<>> \in Seq(Nat) /\ <<>> \in Seq(Seq(Nat)) /\ Len(<<>>) = 0
  OBVIOUS

\* The same for the digests.
LEMMA NoChunk ==
    ASSUME NEW x
    PROVE  /\ <<>> \in Seq(Nat) /\ Len(<<>>) < Chunk
           /\ \A i \in 1 .. Len(<<>>) : <<>>[i] = x * Chunk + i
  BY NoneYet, Sizes

\* One more at the end of a sequence.
LEMMA Appended ==
    ASSUME NEW S, NEW c \in Seq(S), NEW u \in S
    PROVE  /\ Append(c, u) \in Seq(S) /\ Append(c, u) # <<>> /\ Len(Append(c, u)) = Len(c) + 1
           /\ \A i \in 1 .. Len(c) : Append(c, u)[i] = c[i]
           /\ Append(c, u)[Len(c) + 1] = u
  OBVIOUS

\* The same for a chunk behind the digests.
LEMMA AppendedChunk ==
    ASSUME NEW d \in Seq(Seq(Nat)), NEW c \in Seq(Nat)
    PROVE  /\ Append(d, c) \in Seq(Seq(Nat)) /\ Append(d, c) # <<>> /\ Len(Append(d, c)) = Len(d) + 1
           /\ \A i \in 1 .. Len(d) : Append(d, c)[i] = d[i]
           /\ Append(d, c)[Len(d) + 1] = c
  BY Appended

\* The parts of a hashing state after n ranges.
HashParts(c, x, d, s, n) ==
    /\ c \in Seq(Nat) /\ x \in Nat /\ d \in Seq(Seq(Nat)) /\ s \in Nat /\ n \in Nat
    /\ Len(c) < Chunk /\ Len(d) < RangeChunks
    /\ s = Start + n * R!Span /\ x * Chunk = s + Len(d) * Chunk
    /\ \A i \in 1 .. Len(c) : c[i] = x * Chunk + i
    /\ \A i \in 1 .. Len(d) :
         Len(d[i]) = Chunk /\ \A j \in 1 .. Chunk : d[i][j] = s + (i - 1) * Chunk + j
\* They make the hashing state behind n ranges.
LEMMA HashIs ==
    ASSUME NEW h, NEW c, NEW x, NEW d, NEW s, NEW n,
           h = [chunk |-> c, index |-> x, digests |-> d, start |-> s], HashParts(c, x, d, s, n)
    PROVE  h \in HashStates /\ Until(h) = x * Chunk + Len(c) /\ HashSays(h, n)
  <1>1. h.chunk = c /\ h.index = x /\ h.digests = d /\ h.start = s
    OBVIOUS
  <1>2. c \in Seq(Nat) /\ x \in Nat /\ d \in Seq(Seq(Nat)) /\ s \in Nat
    BY Zenon DEF HashParts
  <1>3. h \in HashStates
    BY <1>2 DEF HashStates
  <1>4. HashSays(h, n)
    BY Zenon, <1>1 DEF HashSays, HashParts
  <1> QED  BY Zenon, <1>1, <1>3, <1>4 DEF Until

\* What a hashing state holds.
LEMMA HashTypes ==
    ASSUME NEW h \in HashStates
    PROVE  /\ h.chunk \in Seq(Nat) /\ h.index \in Nat /\ h.digests \in Seq(Seq(Nat)) /\ h.start \in Nat
           /\ Len(h.chunk) \in Nat /\ Len(h.digests) \in Nat /\ h.index * Chunk \in Nat
           /\ Until(h) \in Nat
  <1>1. /\ h.chunk \in Seq(Nat) /\ h.index \in Nat /\ h.digests \in Seq(Seq(Nat)) /\ h.start \in Nat
    BY DEF HashStates
  <1>2. Len(h.chunk) \in Nat /\ Len(h.digests) \in Nat
    BY <1>1
  <1>3. h.index * Chunk \in Nat
    BY <1>1, Sizes
  <1>4. Until(h) \in Nat
    BY <1>2, <1>3 DEF Until
  <1> QED  BY <1>1, <1>2, <1>3, <1>4

\* The next unit: the open chunk grows; when it is whole it joins the digests; when
\* these are enough for a range, the range is the next one of the file.
LEMMA HashStep ==
    ASSUME NEW h \in HashStates, NEW n, HashSays(h, n), Until(h) < Units,
           NEW g, g = Hashed(h, Until(h) + 1)
    PROVE  /\ g.state \in HashStates /\ g.full \in BOOLEAN
           /\ Until(g.state) = Until(h) + 1
           /\ \/ g.range = <<>> /\ HashSays(g.state, n)
              \/ /\ g.range = <<R!RangeAt(n + 1)>> /\ R!RangeAt(n + 1) \in Messages
                 /\ HashSays(g.state, n + 1) /\ n + 1 <= R!Ranges
  <1> DEFINE u == Until(h) + 1
             chunk == Append(h.chunk, u)
             full == Len(chunk) = Chunk
             digs == IF full THEN Append(h.digests, chunk) ELSE h.digests
             end == (h.index + 1) * Chunk
             send == full /\ Len(digs) >= RangeChunks
             D(i, j) == h.start + (i - 1) * Chunk + j
  <1>0. g = [state |-> [chunk |-> IF full THEN <<>> ELSE chunk,
                        index |-> IF full THEN h.index + 1 ELSE h.index,
                        digests |-> IF send THEN <<>> ELSE digs,
                        start |-> IF send THEN end ELSE h.start],
             full |-> full,
             range |-> IF send THEN <<R!Range(h.start, end, digs)>> ELSE <<>>]
    BY Zenon DEF Hashed
  <1>a. Len(h.chunk) \in Nat /\ Len(h.digests) \in Nat /\ h.start \in Nat /\ h.index \in Nat
    BY HashTypes
  <1>c. h.chunk \in Seq(Nat) /\ h.digests \in Seq(Seq(Nat))
    BY HashTypes
  <1>k. /\ Chunk \in Nat /\ Chunk > 0 /\ RangeChunks \in Nat /\ RangeChunks > 0
        /\ Start \in Nat /\ Units \in Nat /\ R!Span \in Nat
    BY Sizes
  <1>1. PICK b \in Nat, e \in Nat, s \in Nat :
            b = h.index * Chunk /\ e = Len(h.digests) * Chunk /\ s = n * R!Span /\ n \in Nat
    <2>1. n \in Nat
      BY DEF HashSays
    <2>2. h.index * Chunk \in Nat
      BY HashTypes
    <2>3. Len(h.digests) * Chunk \in Nat
      BY <1>a, <1>k
    <2>4. n * R!Span \in Nat
      BY <2>1, <1>k
    <2> QED  BY Zenon, <2>1, <2>2, <2>3, <2>4
  <1>2. /\ Len(h.chunk) < Chunk /\ Len(h.digests) < RangeChunks
        /\ h.start = Start + s /\ b = h.start + e
        /\ \A i \in 1 .. Len(h.chunk) : h.chunk[i] = b + i
        /\ \A i \in 1 .. Len(h.digests) :
             Len(h.digests[i]) = Chunk /\ \A j \in 1 .. Chunk : h.digests[i][j] = D(i, j)
    BY Zenon, <1>1 DEF HashSays
  <1>3. u = b + Len(h.chunk) + 1 /\ u \in Nat /\ u <= Units
    <2>1. Until(h) = b + Len(h.chunk)
      BY Zenon, <1>1 DEF Until
    <2> QED  BY <2>1, <1>a, <1>k
  <1>4. end = b + Chunk /\ end \in Nat /\ h.index + 1 \in Nat
    <2>1. (h.index + 1) * Chunk = h.index * Chunk + Chunk
      BY <1>a, <1>k, OneMore
    <2>2. end = b + Chunk
      BY Zenon, <1>1, <2>1
    <2> QED  BY <2>2, <1>a, <1>k, SMTT(60)
  <1>5. (Len(h.digests) + 1) * Chunk = e + Chunk
    <2>1. (Len(h.digests) + 1) * Chunk = Len(h.digests) * Chunk + Chunk
      BY <1>a, <1>k, OneMore
    <2> QED  BY Zenon, <1>1, <2>1
  <1>6. \A j \in 1 .. Chunk : D(Len(h.digests) + 1, j) = b + j
    <2>1. (Len(h.digests) + 1) - 1 = Len(h.digests)
      BY HashTypes
    <2> QED  BY <1>1, <1>2, <2>1
  <1> HIDE DEF u, end, D
  <1>7. /\ chunk \in Seq(Nat) /\ Len(chunk) = Len(h.chunk) + 1 /\ chunk # <<>>
        /\ \A i \in 1 .. Len(chunk) : chunk[i] = b + i
    <2>1. \A i \in 1 .. Len(h.chunk) : h.chunk[i] = b + i
      BY Zenon, <1>2
    <2>2. /\ chunk \in Seq(Nat) /\ chunk # <<>> /\ Len(chunk) = Len(h.chunk) + 1
          /\ \A i \in 1 .. Len(h.chunk) : chunk[i] = h.chunk[i]
          /\ chunk[Len(h.chunk) + 1] = u
      <3>1. u \in Nat /\ h.chunk \in Seq(Nat)
        BY Zenon, <1>3, <1>c
      <3> QED  BY <3>1, Appended
    <2> HIDE DEF chunk
    <2>3. ASSUME NEW i \in 1 .. Len(chunk) PROVE chunk[i] = b + i
      <3>1. CASE i = Len(h.chunk) + 1
        BY <1>3, <2>2, <3>1, <1>a
      <3>2. CASE i \in 1 .. Len(h.chunk)
        BY <2>1, <2>2, <3>2
      <3> QED  BY <2>2, <3>1, <3>2, <1>a, SMTT(60)
    <2> QED  BY <2>2, <2>3
  <1> HIDE DEF chunk
  <1>8. ASSUME full
        PROVE  /\ digs = Append(h.digests, chunk) /\ Len(digs) = Len(h.digests) + 1
               /\ digs \in Seq(Seq(Nat)) /\ u = end /\ end = h.start + Len(digs) * Chunk
               /\ \A i \in 1 .. Len(digs) :
                    Len(digs[i]) = Chunk /\ \A j \in 1 .. Chunk : digs[i][j] = D(i, j)
    <2>1. digs = Append(h.digests, chunk) /\ Len(digs) = Len(h.digests) + 1 /\ digs \in Seq(Seq(Nat))
      <3>1. digs = Append(h.digests, chunk)
        BY Zenon, <1>8
      <3>2. chunk \in Seq(Nat)
        BY Zenon, <1>7
      <3> HIDE DEF digs
      <3> QED  BY Zenon, <3>1, <3>2, <1>c, AppendedChunk
    <2>2. u = end
      <3>1. Len(chunk) = Chunk
        BY Zenon, <1>8
      <3>2. u = b + Len(h.chunk) + 1 /\ Len(chunk) = Len(h.chunk) + 1 /\ end = b + Chunk
        BY Zenon, <1>3, <1>4, <1>7
      <3>3. Len(h.chunk) + 1 = Chunk
        BY Zenon, <3>1, <3>2
      <3>4. b + Len(h.chunk) + 1 = b + (Len(h.chunk) + 1)
        BY <1>1, <1>a
      <3> QED  BY Zenon, <3>2, <3>3, <3>4
    <2>3. end = h.start + Len(digs) * Chunk
      <3>1. Len(digs) * Chunk = e + Chunk
        BY Zenon, <1>5, <2>1
      <3>2. b = h.start + e
        BY Zenon, <1>2
      <3> HIDE DEF digs
      <3>3. end = b + Chunk
        BY Zenon, <1>4
      <3> QED  BY <3>1, <3>2, <3>3, <1>a, <1>k, SMTT(60)
    <2>4. ASSUME NEW i \in 1 .. Len(digs)
          PROVE  Len(digs[i]) = Chunk /\ \A j \in 1 .. Chunk : digs[i][j] = D(i, j)
      <3>1. CASE i = Len(h.digests) + 1
        <4>1. digs[i] = chunk
          BY <2>1, <3>1, <1>c, <1>7
        <4> QED  BY <1>6, <1>7, <1>8, <3>1, <4>1
      <3>2. CASE i # Len(h.digests) + 1
        <4>1. i \in 1 .. Len(h.digests) /\ digs[i] = h.digests[i]
          BY <2>1, <3>2, <1>c, <1>7, SMTT(60)
        <4> QED  BY <1>2, <4>1
      <3> QED  BY <3>1, <3>2
    <2> HIDE DEF digs
    <2> QED  BY <2>1, <2>2, <2>3, <2>4
  <1>9. full \in BOOLEAN /\ send \in BOOLEAN
    BY Zenon
  <1> HIDE DEF full, digs, send
  <1>10. /\ g.state = [chunk |-> IF full THEN <<>> ELSE chunk, index |-> IF full THEN h.index + 1 ELSE h.index,
                       digests |-> IF send THEN <<>> ELSE digs, start |-> IF send THEN end ELSE h.start]
         /\ g.full = full
         /\ g.range = (IF send THEN <<R!Range(h.start, end, digs)>> ELSE <<>>)
    BY <1>0
  <1>11. CASE ~full
    <2>1. /\ g.state = [chunk |-> chunk, index |-> h.index, digests |-> h.digests, start |-> h.start]
          /\ g.range = <<>>
      BY <1>10, <1>11 DEF digs, send
    <2>2. g.state \in HashStates
      BY <1>7, <2>1, <1>a, <1>c DEF HashStates
    <2>3. Until(g.state) = Until(h) + 1
      <3>1. Until(g.state) = b + Len(chunk)
        BY <1>1, <2>1 DEF Until
      <3> QED  BY <1>3, <1>7, <3>1, <1>a DEF u
    <2>4. Len(chunk) < Chunk
      BY <1>2, <1>7, <1>11, <1>a, <1>k, SMTT(60) DEF full
    <2>5. HashSays(g.state, n)
      <3>1. /\ g.state.chunk = chunk /\ g.state.index = h.index /\ g.state.digests = h.digests
            /\ g.state.start = h.start
        BY <2>1
      <3>2. /\ Len(h.digests) < RangeChunks /\ n \in Nat /\ h.start = Start + n * R!Span
            /\ h.index * Chunk = h.start + Len(h.digests) * Chunk
            /\ \A i \in 1 .. Len(h.digests) :
                 Len(h.digests[i]) = Chunk /\ \A j \in 1 .. Chunk : h.digests[i][j] = h.start + (i - 1) * Chunk + j
        BY Zenon DEF HashSays
      <3>3. \A i \in 1 .. Len(chunk) : chunk[i] = h.index * Chunk + i
        BY Zenon, <1>1, <1>7
      <3> QED  BY ZenonT(90), <2>4, <3>1, <3>2, <3>3 DEF HashSays
    <2> QED  BY <1>9, <1>10, <2>1, <2>2, <2>3, <2>5
  <1>12. CASE full /\ ~send
    <2>1. /\ g.state = [chunk |-> <<>>, index |-> h.index + 1, digests |-> digs, start |-> h.start]
          /\ g.range = <<>>
      BY <1>10, <1>12
    <2>2. Len(digs) < RangeChunks /\ digs \in Seq(Seq(Nat))
      BY <1>8, <1>12, <1>a, <1>k DEF send
    <2>3. (h.index + 1) * Chunk = h.start + Len(digs) * Chunk
      BY <1>8, <1>12 DEF end
    <2>4. h.start = Start + n * R!Span /\ n \in Nat /\ h.index + 1 \in Nat
      BY Zenon, <1>1, <1>2, <1>4
    <2>5. \A i \in 1 .. Len(digs) :
            Len(digs[i]) = Chunk /\ \A j \in 1 .. Chunk : digs[i][j] = h.start + (i - 1) * Chunk + j
      BY Zenon, <1>8, <1>12 DEF D
    <2>6. HashParts(<<>>, h.index + 1, digs, h.start, n)
      BY Zenon, <2>2, <2>3, <2>4, <2>5, <1>a, NoChunk DEF HashParts
    <2>7. g.state \in HashStates /\ Until(g.state) = end + Len(<<>>) /\ HashSays(g.state, n)
      BY Zenon, <2>1, <2>6, HashIs DEF end
    <2>8. Until(g.state) = Until(h) + 1
      BY <1>4, <1>8, <1>12, <2>7, NoneYet DEF u
    <2> QED  BY <1>9, <1>10, <2>1, <2>7, <2>8
  <1>13. CASE send
    <2>0. full
      BY <1>13 DEF send
    <2>1. /\ g.state = [chunk |-> <<>>, index |-> h.index + 1, digests |-> <<>>, start |-> end]
          /\ g.range = <<R!Range(h.start, end, digs)>>
      BY <1>10, <1>13, <2>0
    <2>5. Len(digs) = RangeChunks
      <3>1. Len(h.digests) < RangeChunks
        BY Zenon, <1>2
      <3>2. Len(digs) = Len(h.digests) + 1
        BY Zenon, <1>8, <2>0
      <3>3. Len(digs) >= RangeChunks
        BY Zenon, <1>13 DEF send
      <3> QED  BY <3>1, <3>2, <3>3, <1>a, <1>k
    <2>6. end = h.start + R!Span /\ end = Start + (n + 1) * R!Span /\ end <= Units
      <3>1. R!Span = RangeChunks * Chunk
        BY Sizes
      <3>2. end = h.start + R!Span
        BY Zenon, <1>8, <2>0, <2>5, <3>1
      <3>3. h.start = Start + n * R!Span
        BY Zenon, <1>1, <1>2
      <3>4. (n + 1) * R!Span = n * R!Span + R!Span
        BY <1>1, <1>k, OneMore
      <3>5. end = Start + (s + R!Span) /\ (n + 1) * R!Span = s + R!Span
        BY <3>2, <1>k, <1>1, <1>2, <3>4
      <3> QED  BY Zenon, <1>3, <1>8, <2>0, <3>2, <3>5
    <2>7. g.state \in HashStates /\ Until(g.state) = Until(h) + 1 /\ HashSays(g.state, n + 1)
      <3>1. (h.index + 1) * Chunk = end + Len(<<>>) * Chunk
        BY NoneYet, <1>4, <1>k DEF end
      <3>2. Len(<<>>) < RangeChunks /\ n + 1 \in Nat /\ <<>> \in Seq(Seq(Nat))
        BY NoneYet, <1>1, <1>k
      <3>3. \A i \in 1 .. Len(<<>>) :
              Len(<<>>[i]) = Chunk /\ \A j \in 1 .. Chunk : <<>>[i][j] = end + (i - 1) * Chunk + j
        BY NoneYet
      <3>4. HashParts(<<>>, h.index + 1, <<>>, end, n + 1)
        BY Zenon, <1>4, <2>6, <3>1, <3>2, <3>3, NoChunk DEF HashParts
      <3>5. g.state \in HashStates /\ Until(g.state) = end + Len(<<>>) /\ HashSays(g.state, n + 1)
        BY Zenon, <2>1, <3>4, HashIs DEF end
      <3> QED  BY <1>4, <1>8, <2>0, <3>5, NoneYet DEF u
    <2>8. R!RangeAt(n + 1) = R!Range(h.start, end, digs)
      <3>1. (Len(digs) - 1) * Chunk = R!Span - Chunk /\ Len(digs) * Chunk = R!Span /\ end - h.start = R!Span
        BY <2>5, <2>6, <1>a, Sizes
      <3>2. ASSUME NEW i \in 1 .. Len(digs)
            PROVE  R!Least(Chunk, end - h.start - (i - 1) * Chunk) = Chunk
        <4>1. (i - 1) * Chunk + Chunk <= RangeChunks * Chunk
          BY <2>5, Sizes
        <4> QED  BY <3>1, <4>1, Sizes DEF R!Least
      <3>3. \A i \in 1 .. Len(digs) :
              /\ Len(digs[i]) = R!Least(Chunk, end - h.start - (i - 1) * Chunk)
              /\ \A j \in 1 .. Len(digs[i]) : digs[i][j] = h.start + (i - 1) * Chunk + j
        BY Zenon, <1>8, <2>0, <3>2 DEF D
      <3>4. /\ (Len(digs) - 1) * Chunk < end - h.start /\ end - h.start <= Len(digs) * Chunk
            /\ Len(digs) \in 1 .. RangeChunks
        BY <2>5, <3>1, <1>k
      <3>5. h.start = Start + n * R!Span
        BY Zenon, <1>1, <1>2
      <3>6. end <= h.start + R!Span
        BY <2>6, <1>4
      <3>7. n \in Nat /\ end \in Nat /\ digs \in Seq(Seq(Nat)) /\ end <= Units /\ end = h.start + R!Span
        BY Zenon, <1>1, <1>4, <1>8, <2>0, <2>6
      <3>8. RangeParts(n, h.start, end, digs)
        BY Zenon, <3>3, <3>4, <3>5, <3>6, <3>7, <1>a DEF RangeParts
      <3> QED  BY Zenon, <3>8, RangeIs
    <2>9. R!RangeAt(n + 1) \in Messages
      BY <1>4, <1>8, <2>0, <2>8, <1>a DEF Messages, R!Range
    <2>10. n + 1 <= R!Ranges
      BY <1>1, <2>6, RangesBound
    <2> QED  BY <1>9, <1>10, <2>1, <2>7, <2>8, <2>9, <2>10
  <1> QED  BY <1>9, <1>11, <1>12, <1>13

\* The end of the source: what is left makes the last range, if anything is left.
LEMMA LastStep ==
    ASSUME NEW h \in HashStates, NEW n, HashSays(h, n), Until(h) = Units
    PROVE  \/ LastRange(h) = <<>> /\ n = R!Ranges
           \/ /\ LastRange(h) = <<R!RangeAt(n + 1)>> /\ R!RangeAt(n + 1) \in Messages
              /\ n + 1 = R!Ranges
  <1> DEFINE digs == IF h.chunk = <<>> THEN h.digests ELSE Append(h.digests, h.chunk)
             D(i, j) == h.start + (i - 1) * Chunk + j
  <1>p. PICK c \in Nat, W \in Nat : c = Len(h.chunk) /\ W = Len(h.digests)
    BY HashTypes
  <1>a. h.start \in Nat /\ h.index \in Nat
    BY HashTypes
  <1>c. h.chunk \in Seq(Nat) /\ h.digests \in Seq(Seq(Nat))
    BY HashTypes
  <1>k. /\ Chunk \in Nat /\ Chunk > 0 /\ RangeChunks \in Nat /\ RangeChunks > 0
        /\ Start \in Nat /\ Units \in Nat /\ R!Span \in Nat /\ R!Span > 0
    BY Sizes
  <1>1. PICK b \in Nat, e \in Nat, s \in Nat :
            b = h.index * Chunk /\ e = W * Chunk /\ s = n * R!Span /\ n \in Nat
    <2>1. n \in Nat
      BY DEF HashSays
    <2>2. h.index * Chunk \in Nat
      BY HashTypes
    <2>3. W * Chunk \in Nat
      BY <1>a, <1>k
    <2>4. n * R!Span \in Nat
      BY <2>1, <1>k
    <2> QED  BY Zenon, <2>1, <2>2, <2>3, <2>4
  <1>2. c < Chunk /\ W < RangeChunks /\ h.start = Start + s /\ b = h.start + e
    BY Zenon, <1>1, <1>p DEF HashSays
  <1>q. /\ \A i \in 1 .. c : h.chunk[i] = b + i
        /\ \A i \in 1 .. W : Len(h.digests[i]) = Chunk /\ \A j \in 1 .. Chunk : h.digests[i][j] = D(i, j)
    BY Zenon, <1>1, <1>p DEF HashSays
  <1>3. Units = b + c
    BY Zenon, <1>1, <1>p DEF Until
  <1>4. e + Chunk <= R!Span
    <2>1. (W + 1) * Chunk = W * Chunk + Chunk
      BY <1>a, <1>k, OneMore
    <2>2. (W + 1) * Chunk <= RangeChunks * Chunk
      BY <1>2, <1>a, <1>k, TimesMonotone
    <2>3. RangeChunks * Chunk = R!Span
      BY Sizes
    <2>4. e = W * Chunk
      BY Zenon, <1>1
    <2> QED  BY <2>1, <2>2, <2>3, <2>4
  <1>5. R!Ranges = IF e + c = 0 THEN n ELSE n + 1
    <2>1. Units - Start + R!Span - 1 = s + (e + c) + R!Span - 1 /\ e + c \in Nat /\ e + c < R!Span
      BY <1>2, <1>3, <1>4, <1>a, <1>k
    <2>2. (n * R!Span + (e + c) + R!Span - 1) \div R!Span = IF e + c = 0 THEN n ELSE n + 1
      <3>1. n \in Nat
        BY <1>1
      <3>2. ASSUME NEW r \in Nat, r < R!Span
            PROVE  (n * R!Span + r + R!Span - 1) \div R!Span = IF r = 0 THEN n ELSE n + 1
        BY Zenon, <3>1, <3>2, <1>k, CeilDiv
      <3> QED  BY Zenon, <2>1, <3>2
    <2> QED  BY Zenon, <1>1, <2>1, <2>2 DEF R!Ranges
  <1>6. LastRange(h) = IF digs = <<>> THEN <<>> ELSE <<R!Range(h.start, Units, digs)>>
    BY Zenon DEF LastRange, Until
  <1>7. CASE h.chunk = <<>> /\ h.digests = <<>>
    <2>1. c = 0 /\ W = 0
      BY <1>7, <1>p
    <2>2. e = 0
      BY <1>1, <1>k, <2>1
    <2>3. digs = <<>>
      BY <1>7
    <2> QED  BY <1>5, <1>6, <2>1, <2>2, <2>3
  <1>8. ASSUME digs # <<>>, RangeParts(n, h.start, Units, digs), e + c > 0
        PROVE  /\ LastRange(h) = <<R!RangeAt(n + 1)>> /\ R!RangeAt(n + 1) \in Messages
               /\ n + 1 = R!Ranges
    <2>1. R!RangeAt(n + 1) = R!Range(h.start, Units, digs)
      BY Zenon, <1>8, RangeIs
    <2>2. digs \in Seq(Seq(Nat))
      BY Zenon, <1>8 DEF RangeParts
    <2> HIDE DEF digs
    <2>3. R!RangeAt(n + 1) \in Messages
      BY <2>1, <2>2, <1>a, <1>k DEF Messages, R!Range
    <2>4. n + 1 = R!Ranges
      BY <1>5, <1>8, <1>a
    <2> QED  BY Zenon, <1>6, <1>8, <2>1, <2>3, <2>4
  <1>9. CASE h.chunk = <<>> /\ h.digests # <<>>
    <2>1. digs = h.digests /\ c = 0 /\ W > 0
      BY <1>9, <1>c, <1>p
    <2>2. (W - 1) * Chunk = e - Chunk
      <3>1. ((W - 1) + 1) * Chunk = (W - 1) * Chunk + Chunk
        BY <1>a, <1>k, OneMore
      <3>2. (W - 1) + 1 = W
        BY <1>a
      <3>3. e = (W - 1) * Chunk + Chunk /\ (W - 1) * Chunk \in Int
        BY <1>1, <3>1, <3>2, <1>a, <1>k
      <3> QED  BY <3>3, <1>k
    <2>3. e >= Chunk
      BY <1>1, <2>1, <1>a, <1>k
    <2>4. Units - h.start = e
      BY <1>2, <1>3, <2>1, <1>a
    <2>5. ASSUME NEW i \in 1 .. W
          PROVE  R!Least(Chunk, Units - h.start - (i - 1) * Chunk) = Chunk
      <3>1. (i - 1) * Chunk <= (W - 1) * Chunk
        BY <1>a, <1>k
      <3> QED  BY <2>2, <2>4, <3>1, <1>k DEF R!Least
    <2>6. \A i \in 1 .. Len(digs) :
            /\ Len(digs[i]) = R!Least(Chunk, Units - h.start - (i - 1) * Chunk)
            /\ \A j \in 1 .. Len(digs[i]) : digs[i][j] = h.start + (i - 1) * Chunk + j
      <3> HIDE DEF digs
      <3> QED  BY Zenon, <1>q, <2>1, <2>5, <1>p
    <2>7. /\ Units <= h.start + R!Span /\ Len(digs) \in 1 .. RangeChunks
          /\ (Len(digs) - 1) * Chunk < Units - h.start /\ Units - h.start <= Len(digs) * Chunk
      <3>1. Len(digs) = W /\ Len(digs) * Chunk = e
        BY Zenon, <1>1, <2>1, <1>p
      <3> HIDE DEF digs
      <3> QED  BY <1>2, <1>4, <2>1, <2>2, <2>4, <3>1, <1>a, <1>k
    <2>8. n \in Nat /\ h.start = Start + n * R!Span /\ digs \in Seq(Seq(Nat)) /\ Units <= Units
      BY <1>1, <1>2, <2>1, <1>a, <1>c, <1>k
    <2>9. RangeParts(n, h.start, Units, digs)
      BY Zenon, <2>6, <2>7, <2>8, <1>a, <1>k DEF RangeParts
    <2> QED  BY <1>8, <1>9, <2>1, <2>3, <2>9, <1>k
  <1>10. CASE h.chunk # <<>>
    <2>1. digs = Append(h.digests, h.chunk) /\ c > 0
      BY <1>10, <1>c, <1>p
    <2>2. /\ digs \in Seq(Seq(Nat)) /\ digs # <<>> /\ Len(digs) = W + 1
          /\ \A i \in 1 .. W : digs[i] = h.digests[i]
          /\ digs[W + 1] = h.chunk
      <3> HIDE DEF digs
      <3> QED  BY Zenon, <2>1, AppendedChunk, <1>c, <1>p
    <2> HIDE DEF digs
    <2>3. (W + 1) * Chunk = e + Chunk /\ (Len(digs) - 1) * Chunk = e /\ Len(digs) * Chunk = e + Chunk
      <3>1. (W + 1) * Chunk = W * Chunk + Chunk
        BY <1>a, <1>k, OneMore
      <3>2. Len(digs) - 1 = W
        BY <2>2, <1>a
      <3> QED  BY Zenon, <1>1, <2>2, <3>1, <3>2
    <2>4. Units - h.start = e + c
      BY <1>2, <1>3, <1>a
    <2>5. ASSUME NEW i \in 1 .. W
          PROVE  R!Least(Chunk, Units - h.start - (i - 1) * Chunk) = Chunk
      <3>1. (i - 1) * Chunk <= (W - 1) * Chunk
        BY <1>a, <1>k, TimesMonotone
      <3>2. ((W - 1) + 1) * Chunk = (W - 1) * Chunk + Chunk
        BY <1>a, <1>k, OneMore
      <3>3. (W - 1) + 1 = W
        BY <1>a
      <3>4. e = (W - 1) * Chunk + Chunk /\ (W - 1) * Chunk \in Int /\ (i - 1) * Chunk \in Int
        BY <1>1, <3>2, <3>3, <1>a, <1>k
      <3> QED  BY <2>4, <3>1, <3>4, <1>a, <1>k DEF R!Least
    <2>6. R!Least(Chunk, Units - h.start - ((W + 1) - 1) * Chunk) = c
      <3>1. (W + 1) - 1 = W
        BY <1>a
      <3>2. Units - h.start - ((W + 1) - 1) * Chunk = Units - h.start - e
        BY Zenon, <1>1, <3>1
      <3> QED  BY <1>2, <2>4, <3>2, <1>a, <1>k DEF R!Least
    <2>7. \A j \in 1 .. c : digs[W + 1][j] = h.start + ((W + 1) - 1) * Chunk + j
      <3>1. (W + 1) - 1 = W
        BY <1>a
      <3>2. h.start + ((W + 1) - 1) * Chunk = b
        BY Zenon, <1>1, <1>2, <3>1
      <3> QED  BY Zenon, <1>q, <2>2, <3>2
    <2>0. Len(h.chunk) = c
      BY <1>p
    <2>8. ASSUME NEW i \in 1 .. Len(digs)
          PROVE  /\ Len(digs[i]) = R!Least(Chunk, Units - h.start - (i - 1) * Chunk)
                 /\ \A j \in 1 .. Len(digs[i]) : digs[i][j] = h.start + (i - 1) * Chunk + j
      <3>1. CASE i = W + 1
        BY Zenon, <2>0, <2>2, <2>6, <2>7, <3>1
      <3>2. CASE i \in 1 .. W
        <4>1. digs[i] = h.digests[i]
          BY Zenon, <2>2, <3>2
        <4>2. Len(h.digests[i]) = Chunk /\ \A j \in 1 .. Chunk : h.digests[i][j] = h.start + (i - 1) * Chunk + j
          BY Zenon, <1>q, <3>2
        <4>3. R!Least(Chunk, Units - h.start - (i - 1) * Chunk) = Chunk
          BY Zenon, <2>5, <3>2
        <4> QED  BY Zenon, <4>1, <4>2, <4>3
      <3>3. i = W + 1 \/ i \in 1 .. W
        BY <2>2, <1>a
      <3> QED  BY <3>1, <3>2, <3>3
    <2>9. /\ Units <= h.start + R!Span /\ Len(digs) \in 1 .. RangeChunks
          /\ (Len(digs) - 1) * Chunk < Units - h.start /\ Units - h.start <= Len(digs) * Chunk
      <3>1. Len(digs) = W + 1
        BY <2>2
      <3> QED  BY <1>2, <1>4, <2>1, <2>3, <2>4, <3>1, <1>a, <1>k
    <2>10. n \in Nat /\ h.start = Start + n * R!Span /\ Units <= Units
      BY <1>1, <1>2, <1>k
    <2>11. RangeParts(n, h.start, Units, digs)
      BY Zenon, <2>2, <2>8, <2>9, <2>10, <1>a, <1>k DEF RangeParts
    <2>12. e + c > 0
      BY <2>1, <1>a
    <2> QED  BY <1>8, <2>2, <2>11, <2>12
  <1> QED  BY <1>7, <1>9, <1>10

----------------------------------------------------------------------------
(* The messages sent. *)

\* What the refinement reads of the two queues.
LEMMA SentType ==
    ASSUME TypeOK
    PROVE  Sent \in Seq(Messages) /\ Len(Sent) \in Nat /\ Len(chan) \in Nat
  BY DEF TypeOK, Sent

\* A message that enters the channel is the last one sent.
LEMMA SentMore ==
    ASSUME TypeOK, NEW m \in Messages, chan' = Append(chan, m), UNCHANGED log
    PROVE  /\ Sent' = Append(Sent, m) /\ Len(Sent') = Len(Sent) + 1 /\ Sent'[Len(Sent')] = m
  <1>1. chan \in Seq(Messages) /\ log \in Seq(Messages) /\ Sent \in Seq(Messages)
    BY SentType DEF TypeOK
  <1>2. log \o Append(chan, m) = Append(log \o chan, m)
    BY <1>1
  <1> QED  BY <1>1, <1>2 DEF Sent

\* One message is a sequence of messages, and not the empty one.
LEMMA OneMessage == <<>> \in Seq(Messages) /\ \A m \in Messages : <<m>> \in Seq(Messages) /\ <<m>> # <<>>
  OBVIOUS

\* What the log takes from the channel has been sent before.
LEMMA SentKept ==
    ASSUME TypeOK, chan # <<>>, log' = Append(log, Head(chan)), chan' = Tail(chan)
    PROVE  /\ Sent' = Sent /\ log' \in Seq(Messages) /\ chan' \in Seq(Messages) /\ Len(chan') <= Cap
  <1>1. chan \in Seq(Messages) /\ log \in Seq(Messages) /\ Len(chan) <= Cap /\ Cap \in Nat
    BY Sizes DEF TypeOK
  <1>2. /\ Head(chan) \in Messages /\ Tail(chan) \in Seq(Messages) /\ Len(Tail(chan)) = Len(chan) - 1
    BY <1>1
  <1>3. Append(log, Head(chan)) \o Tail(chan) = log \o chan
    BY SMTT(60), <1>1, <1>2
  <1> QED  BY SMTT(30), <1>1, <1>2, <1>3 DEF Sent

----------------------------------------------------------------------------
(* Records with one field or two changed. *)

\* What the copy thread's state holds.
LEMMA MainTypes ==
    ASSUME NEW r \in MainStates
    PROVE  /\ r.written \in Start .. Units /\ r.mode \in {"pending", "inline", "worker"} /\ r.hash \in HashStates
           /\ r.out \in Seq(Messages) /\ r.ended \in BOOLEAN /\ r.open \in BOOLEAN /\ r.lost \in BOOLEAN
           /\ r.ok \in BOOLEAN /\ r.then \in {"carry", "read"} /\ r.since \in Nat
  BY DEF MainStates

\* It keeps its type when a field is given a value of the field's type.
Places == {"carry", "read", "written", "queue", "free", "send", "asked", "finish", "drop", "close", "ack",
           "abort", "join", "discard", "done"}
\* One field at a time.
LEMMA MainSets ==
    ASSUME NEW r \in MainStates
    PROVE  /\ \A v \in Places : [r EXCEPT !.pc = v] \in MainStates
           /\ \A v \in Start .. Units : [r EXCEPT !.written = v] \in MainStates
           /\ \A v \in {"pending", "inline", "worker"} : [r EXCEPT !.mode = v] \in MainStates
           /\ \A v \in HashStates : [r EXCEPT !.hash = v] \in MainStates
           /\ \A v \in Seq(Messages) : [r EXCEPT !.out = v] \in MainStates
           /\ \A v \in BOOLEAN : [r EXCEPT !.ended = v] \in MainStates
           /\ \A v \in BOOLEAN : [r EXCEPT !.open = v] \in MainStates
           /\ \A v \in BOOLEAN : [r EXCEPT !.lost = v] \in MainStates
           /\ \A v \in BOOLEAN : [r EXCEPT !.ok = v] \in MainStates
           /\ \A v \in {"carry", "read"} : [r EXCEPT !.then = v] \in MainStates
           /\ \A v \in Nat : [r EXCEPT !.since = v] \in MainStates
  <1>1. ASSUME NEW v \in Places PROVE [r EXCEPT !.pc = v] \in MainStates
    BY SMTT(20) DEF MainStates, Places
  <1>2. ASSUME NEW v \in Start .. Units PROVE [r EXCEPT !.written = v] \in MainStates
    BY SMTT(20) DEF MainStates
  <1>3. ASSUME NEW v \in {"pending", "inline", "worker"} PROVE [r EXCEPT !.mode = v] \in MainStates
    BY SMTT(20) DEF MainStates
  <1>4. ASSUME NEW v \in HashStates PROVE [r EXCEPT !.hash = v] \in MainStates
    BY SMTT(20) DEF MainStates
  <1>5. ASSUME NEW v \in Seq(Messages) PROVE [r EXCEPT !.out = v] \in MainStates
    BY SMTT(20) DEF MainStates
  <1>6. ASSUME NEW v \in BOOLEAN PROVE [r EXCEPT !.ended = v] \in MainStates
    BY SMTT(20) DEF MainStates
  <1>7. ASSUME NEW v \in BOOLEAN PROVE [r EXCEPT !.open = v] \in MainStates
    BY SMTT(20) DEF MainStates
  <1>8. ASSUME NEW v \in BOOLEAN PROVE [r EXCEPT !.lost = v] \in MainStates
    BY SMTT(20) DEF MainStates
  <1>9. ASSUME NEW v \in BOOLEAN PROVE [r EXCEPT !.ok = v] \in MainStates
    BY SMTT(20) DEF MainStates
  <1>10. ASSUME NEW v \in {"carry", "read"} PROVE [r EXCEPT !.then = v] \in MainStates
    BY SMTT(20) DEF MainStates
  <1>11. ASSUME NEW v \in Nat PROVE [r EXCEPT !.since = v] \in MainStates
    BY SMTT(20) DEF MainStates
  <1> QED  BY Zenon, <1>1, <1>2, <1>3, <1>4, <1>5, <1>6, <1>7, <1>8, <1>9, <1>10, <1>11

\* The same for the worker's state, the log's, and what they hold.
WorkPlaces == {"none", "check", "recv", "send", "try", "ask", "fault", "result", "ended"}
\* One field at a time.
LEMMA WorkSets ==
    ASSUME NEW r \in WorkStates
    PROVE  /\ \A v \in WorkPlaces : [r EXCEPT !.pc = v] \in WorkStates
           /\ \A v \in HashStates : [r EXCEPT !.hash = v] \in WorkStates
           /\ \A v \in Seq(Messages) : [r EXCEPT !.range = v] \in WorkStates
           /\ \A v \in BOOLEAN : [r EXCEPT !.cancel = v] \in WorkStates
           /\ \A v \in BOOLEAN : [r EXCEPT !.faulted = v] \in WorkStates
           /\ \A v \in {"none", "end", "fault"} : [r EXCEPT !.result = v] \in WorkStates
  <1>1. ASSUME NEW v \in WorkPlaces PROVE [r EXCEPT !.pc = v] \in WorkStates
    BY SMTT(20) DEF WorkStates, WorkPlaces
  <1>2. ASSUME NEW v \in HashStates PROVE [r EXCEPT !.hash = v] \in WorkStates
    BY SMTT(20) DEF WorkStates
  <1>3. ASSUME NEW v \in Seq(Messages) PROVE [r EXCEPT !.range = v] \in WorkStates
    BY SMTT(20) DEF WorkStates
  <1>4. ASSUME NEW v \in BOOLEAN PROVE [r EXCEPT !.cancel = v] \in WorkStates
    BY SMTT(20) DEF WorkStates
  <1>5. ASSUME NEW v \in BOOLEAN PROVE [r EXCEPT !.faulted = v] \in WorkStates
    BY SMTT(20) DEF WorkStates
  <1>6. ASSUME NEW v \in {"none", "end", "fault"} PROVE [r EXCEPT !.result = v] \in WorkStates
    BY SMTT(20) DEF WorkStates
  <1> QED  BY Zenon, <1>1, <1>2, <1>3, <1>4, <1>5, <1>6

\* What the worker's state holds.
LEMMA WorkTypes ==
    ASSUME NEW r \in WorkStates
    PROVE  /\ r.pc \in WorkPlaces /\ r.hash \in HashStates /\ r.range \in Seq(Messages)
           /\ r.cancel \in BOOLEAN /\ r.faulted \in BOOLEAN /\ r.result \in {"none", "end", "fault"}
  BY DEF WorkStates, WorkPlaces

\* A failed copy keeps everything but its place and what it had to send.
LEMMA FailsIs ==
    ASSUME NEW r \in MainStates
    PROVE  /\ Fails(r) \in MainStates
           /\ Fails(r).pc = (IF r.ended THEN "done" ELSE "abort")
           /\ Fails(r).written = r.written /\ Fails(r).mode = r.mode /\ Fails(r).hash = r.hash
           /\ Fails(r).ended = r.ended /\ Fails(r).open = r.open /\ Fails(r).since = r.since
  <1> DEFINE p == IF r.ended THEN "done" ELSE "abort"
  <1>1. p \in Places /\ <<>> \in Seq(Messages)
    BY DEF Places
  <1>2. Fails(r) = [r EXCEPT !.pc = p, !.out = <<>>]
    BY DEF Fails
  <1> HIDE DEF p
  <1>3. Fails(r) \in MainStates
    <2>1. [r EXCEPT !.pc = p] \in MainStates
      BY Zenon, <1>1, MainSets
    <2> QED  BY ZenonT(60), <1>1, <1>2, <2>1, MainSets
  <1>4. /\ Fails(r).pc = p /\ Fails(r).written = r.written /\ Fails(r).mode = r.mode /\ Fails(r).hash = r.hash
        /\ Fails(r).ended = r.ended /\ Fails(r).open = r.open /\ Fails(r).since = r.since
    BY <1>2 DEF MainStates
  <1> QED  BY <1>3, <1>4 DEF p

----------------------------------------------------------------------------
(* The steps.  Each lemma shows what a step does to the records (<1>1), the  *)
(* parts of the invariant, and that the messages are sent as promised.       *)

Says == TypeOK /\ BuffersSay /\ SinkSays /\ WorkSays /\ PoolConserved /\ StopsWithinOne
Good == Says' /\ (R!Next \/ Sent' = Sent)

\* Whether the file is open is read off what was sent.
LEMMA OpenSame == ASSUME Sent' = Sent PROVE R!Open' <=> R!Open
  BY DEF R!Open, Sent, R!Close, R!Discard

\* A step that leaves the copy thread alone and sends nothing keeps what is said of it.
LEMMA SinkSame == ASSUME SinkSays, Sent' = Sent, UNCHANGED main PROVE SinkSays'
  BY OpenSame DEF SinkSays

\* The flag read between two jobs.
LEMMA CheckCancelKeeps == ASSUME Says, CheckCancel PROVE Good
  <1>1. /\ work'.pc = (IF work.cancel THEN "ended" ELSE "recv") /\ work.pc = "check"
        /\ work'.result = work.result
        /\ work'.hash = work.hash /\ work'.range = work.range
        /\ UNCHANGED <<main, jobs, free, chan, log, wal, faults>>
    BY DEF Says, TypeOK, CheckCancel, WorkStates
  <1>2. TypeOK'
    <2>1. work' \in WorkStates
      BY Zenon, WorkSets DEF Says, TypeOK, CheckCancel, WorkPlaces
    <2> QED  BY <1>1, <2>1 DEF Says, TypeOK
  <1>3. BuffersSay'
    BY <1>1 DEF Says, BuffersSay, Gone
  <1>4. Sent' = Sent
    BY <1>1 DEF Sent
  <1>5. SinkSays'
    BY Zenon, <1>1, <1>4, SinkSame DEF Says
  <1>6. WorkSays'
    BY <1>1, <1>4 DEF Says, WorkSays
  <1>7. PoolConserved' /\ StopsWithinOne'
    BY <1>1 DEF Says, PoolConserved, StopsWithinOne
  <1> QED  BY <1>2, <1>3, <1>4, <1>5, <1>6, <1>7 DEF Good, Says

\* The flag read before a send.
LEMMA CheckSendKeeps == ASSUME Says, CheckSend PROVE Good
  <1>1. /\ work'.pc = (IF work.cancel THEN "ended" ELSE "try") /\ work.pc = "send"
        /\ work'.result = work.result
        /\ work'.hash = work.hash /\ work'.range = work.range
        /\ UNCHANGED <<main, jobs, free, chan, log, wal, faults>>
    BY DEF Says, TypeOK, CheckSend, WorkStates
  <1>2. TypeOK'
    <2>1. work' \in WorkStates
      BY Zenon, WorkSets DEF Says, TypeOK, CheckSend, WorkPlaces
    <2> QED  BY <1>1, <2>1 DEF Says, TypeOK
  <1>3. BuffersSay'
    BY <1>1 DEF Says, BuffersSay, Gone
  <1>4. Sent' = Sent
    BY <1>1 DEF Sent
  <1>5. SinkSays'
    BY Zenon, <1>1, <1>4, SinkSame DEF Says
  <1>6. WorkSays'
    BY <1>1, <1>4 DEF Says, WorkSays
  <1>7. PoolConserved' /\ StopsWithinOne'
    BY <1>1 DEF Says, PoolConserved, StopsWithinOne
  <1> QED  BY <1>2, <1>3, <1>4, <1>5, <1>6, <1>7 DEF Good, Says

\* The log's fault asked for behind a chunk.
LEMMA AskFaultKeeps == ASSUME Says, AskFault PROVE Good
  <1>1. /\ work'.pc \in {"fault", "check"} /\ work.pc = "ask"
        /\ work'.result = work.result
        /\ work'.hash = work.hash /\ work'.range = work.range
        /\ UNCHANGED <<main, jobs, free, chan, log, wal, faults>>
    BY DEF Says, TypeOK, AskFault, WorkStates
  <1>2. TypeOK'
    <2>1. work' \in WorkStates
      BY Zenon, WorkSets DEF Says, TypeOK, AskFault, WorkPlaces
    <2> QED  BY <1>1, <2>1 DEF Says, TypeOK
  <1>3. BuffersSay'
    BY <1>1 DEF Says, BuffersSay, Gone
  <1>4. Sent' = Sent
    BY <1>1 DEF Sent
  <1>5. SinkSays'
    BY Zenon, <1>1, <1>4, SinkSame DEF Says
  <1>6. WorkSays'
    BY <1>1, <1>4 DEF Says, WorkSays
  <1>7. PoolConserved' /\ StopsWithinOne'
    BY <1>1 DEF Says, PoolConserved, StopsWithinOne
  <1> QED  BY <1>2, <1>3, <1>4, <1>5, <1>6, <1>7 DEF Good, Says

\* The worker notes its fault ...
LEMMA RecordFaultKeeps == ASSUME Says, RecordFault PROVE Good
  <1>1. /\ work'.pc = "result" /\ work.pc = "fault"
        /\ work'.result = work.result
        /\ work'.hash = work.hash /\ work'.range = work.range
        /\ UNCHANGED <<main, jobs, free, chan, log, wal, faults>>
    BY DEF Says, TypeOK, RecordFault, WorkStates
  <1>2. TypeOK'
    <2>0. work \in WorkStates /\ "result" \in WorkPlaces
      BY Zenon DEF Says, TypeOK, WorkPlaces
    <2>1. work' \in WorkStates
      BY Zenon, <2>0, WorkSets DEF RecordFault
    <2> QED  BY <1>1, <2>1 DEF Says, TypeOK
  <1>3. BuffersSay'
    BY <1>1 DEF Says, BuffersSay, Gone
  <1>4. Sent' = Sent
    BY <1>1 DEF Sent
  <1>5. SinkSays'
    BY Zenon, <1>1, <1>4, SinkSame DEF Says
  <1>6. WorkSays'
    BY <1>1, <1>4 DEF Says, WorkSays
  <1>7. PoolConserved' /\ StopsWithinOne'
    BY <1>1 DEF Says, PoolConserved, StopsWithinOne
  <1> QED  BY <1>2, <1>3, <1>4, <1>5, <1>6, <1>7 DEF Good, Says

\* ... and ends with it.
LEMMA SendFaultKeeps == ASSUME Says, SendFault PROVE Good
  <1>1. /\ work'.pc = "ended" /\ work.pc = "result" /\ work'.result = "fault"
        /\ work'.hash = work.hash /\ work'.range = work.range
        /\ UNCHANGED <<main, jobs, free, chan, log, wal, faults>>
    BY DEF Says, TypeOK, SendFault, WorkStates
  <1>2. TypeOK'
    <2>0. work \in WorkStates /\ "ended" \in WorkPlaces /\ "fault" \in {"none", "end", "fault"}
      BY Zenon DEF Says, TypeOK, WorkPlaces
    <2>1. work' \in WorkStates
      BY Zenon, <2>0, WorkSets DEF SendFault
    <2> QED  BY <1>1, <2>1 DEF Says, TypeOK
  <1>3. BuffersSay'
    BY <1>1 DEF Says, BuffersSay, Gone
  <1>4. Sent' = Sent
    BY <1>1 DEF Sent
  <1>5. SinkSays'
    BY Zenon, <1>1, <1>4, SinkSame DEF Says
  <1>6. WorkSays'
    BY <1>1, <1>4 DEF Says, WorkSays
  <1>7. PoolConserved' /\ StopsWithinOne'
    BY <1>1 DEF Says, PoolConserved, StopsWithinOne
  <1> QED  BY <1>2, <1>3, <1>4, <1>5, <1>6, <1>7 DEF Good, Says

\* The worker ends with its queue closed and drained.
LEMMA EndOfJobsKeeps == ASSUME Says, EndOfJobs PROVE Good
  <1>1. /\ work'.pc = "ended" /\ work.pc = "recv" /\ work'.result = "end" /\ jobs = <<>> /\ ~main.open
        /\ work'.hash = work.hash /\ work'.range = work.range
        /\ UNCHANGED <<main, jobs, free, chan, log, wal, faults>>
    BY DEF Says, TypeOK, EndOfJobs, WorkStates
  <1>2. TypeOK'
    <2>0. work \in WorkStates /\ "ended" \in WorkPlaces /\ "end" \in {"none", "end", "fault"}
      BY Zenon DEF Says, TypeOK, WorkPlaces
    <2>1. work' \in WorkStates
      BY Zenon, <2>0, WorkSets DEF EndOfJobs
    <2> QED  BY <1>1, <2>1 DEF Says, TypeOK
  <1>3. BuffersSay'
    BY <1>1 DEF Says, BuffersSay, Gone
  <1>4. Sent' = Sent
    BY <1>1 DEF Sent
  <1>5. SinkSays'
    BY Zenon, <1>1, <1>4, SinkSame DEF Says
  <1>6. WorkSays'
    BY <1>1, <1>4 DEF Says, WorkSays, BuffersSay
  <1>7. PoolConserved' /\ StopsWithinOne'
    BY <1>1 DEF Says, PoolConserved, StopsWithinOne
  <1> QED  BY <1>2, <1>3, <1>4, <1>5, <1>6, <1>7 DEF Good, Says

\* A job is the unit behind the last one hashed.
LEMMA HashJobKeeps == ASSUME Says, HashJob PROVE Good
  <1> DEFINE h == work.hash
             g == Hashed(h, Until(h) + 1)
             n == Len(Sent) - 1
  <1>1. /\ work \in WorkStates /\ h \in HashStates /\ jobs \in Seq(1 .. Units) /\ jobs # <<>>
        /\ work.pc = "recv" /\ free \in 0 .. Pool /\ Len(jobs) <= Pool
    BY WorkTypes DEF Says, TypeOK, HashJob
  <1>2. /\ HashSays(h, n) /\ Until(h) + Len(jobs) <= Units
        /\ \A i \in 1 .. Len(jobs) : jobs[i] = Until(h) + i
    BY <1>1 DEF Says, WorkSays
  <1>3. Until(h) \in Nat
    BY Zenon, <1>1, HashTypes
  <1>4. /\ Len(jobs) \in Nat /\ Len(jobs) > 0 /\ Head(jobs) = jobs[1] /\ Tail(jobs) \in Seq(1 .. Units)
        /\ Len(Tail(jobs)) = Len(jobs) - 1 /\ \A i \in 1 .. Len(Tail(jobs)) : Tail(jobs)[i] = jobs[i + 1]
    BY <1>1
  <1>5. Head(jobs) = Until(h) + 1 /\ Until(h) < Units
    <2> HIDE DEF h, n
    <2> QED  BY <1>2, <1>3, <1>4, Sizes
  <1>6. /\ g.state \in HashStates /\ g.full \in BOOLEAN /\ Until(g.state) = Until(h) + 1
        /\ \/ g.range = <<>> /\ HashSays(g.state, n)
           \/ /\ g.range = <<R!RangeAt(n + 1)>> /\ R!RangeAt(n + 1) \in Messages
              /\ HashSays(g.state, n + 1) /\ n + 1 <= R!Ranges
    <2> HIDE DEF h, n
    <2> QED  BY Zenon, <1>1, <1>2, <1>5, HashStep
  <1>7. n + 1 = Len(Sent)
    BY SentType DEF Says
  <1>8. /\ work' = [work EXCEPT !.hash = g.state, !.range = g.range,
                               !.pc = IF g.range # <<>> THEN "send" ELSE IF g.full THEN "ask" ELSE "check"]
        /\ jobs' = Tail(jobs) /\ free' = free + 1 /\ UNCHANGED <<main, chan, log, wal, faults>>
    BY Zenon, <1>5 DEF HashJob
  <1> HIDE DEF g, n, h
  <1>9. /\ work'.hash = g.state /\ work'.range = g.range /\ work'.result = work.result
        /\ work'.pc = (IF g.range # <<>> THEN "send" ELSE IF g.full THEN "ask" ELSE "check")
    BY <1>1, <1>8 DEF WorkStates
  <1>10. g.range \in Seq(Messages)
    BY Zenon, <1>6, OneMessage
  <1>11. main.mode = "worker"
    BY <1>1 DEF Says, BuffersSay
  <1>12. free' \in 0 .. Pool /\ Len(jobs') <= Pool
    <2>1. Len(jobs) + free + (IF main.pc \in {"read", "written", "queue"} THEN 1 ELSE 0) <= Pool
      BY Zenon, <1>11 DEF Says, PoolConserved
    <2>2. Len(jobs) + free <= Pool
      BY <1>1, <1>4, <2>1, Sizes
    <2>3. free' = free + 1 /\ Len(jobs') = Len(jobs) - 1
      BY Zenon, <1>4, <1>8
    <2> QED  BY <1>1, <1>4, <2>2, <2>3, Sizes
  <1>13. TypeOK'
    <2> DEFINE p == IF g.range # <<>> THEN "send" ELSE IF g.full THEN "ask" ELSE "check"
    <2>1. p \in WorkPlaces
      BY DEF WorkPlaces
    <2> HIDE DEF p
    <2>2. [work EXCEPT !.hash = g.state] \in WorkStates
      BY Zenon, <1>1, <1>6, WorkSets
    <2>3. [work EXCEPT !.hash = g.state, !.range = g.range] \in WorkStates
      BY Zenon, <2>2, <1>10, WorkSets
    <2>4. [work EXCEPT !.hash = g.state, !.range = g.range, !.pc = p] \in WorkStates
      BY Zenon, <2>1, <2>3, WorkSets
    <2>5. work' \in WorkStates
      BY Zenon, <1>8, <2>4 DEF p
    <2> QED  BY <1>4, <1>8, <1>12, <2>5 DEF Says, TypeOK
  <1>14. work'.pc \in {"send", "ask", "check"}
    BY <1>9
  <1>15. BuffersSay'
    BY <1>1, <1>8, <1>11, <1>14 DEF Says, BuffersSay, Gone
  <1>16. Sent' = Sent
    BY <1>8 DEF Sent
  <1>17. SinkSays'
    BY Zenon, <1>8, <1>16, SinkSame DEF Says
  <1>18. WorkSays'
    <2>1. HashSays(work.hash, IF work.pc \in {"send", "try"} THEN Len(Sent) ELSE Len(Sent) - 1)'
      <3>1. CASE g.range = <<>>
        <4>1. HashSays(g.state, Len(Sent) - 1)
          BY <1>6, <3>1 DEF n
        <4>2. work'.pc \notin {"send", "try"}
          BY <1>9, <3>1
        <4> QED  BY <1>9, <1>16, <4>1, <4>2
      <3>2. CASE g.range # <<>>
        <4>1. HashSays(g.state, Len(Sent))
          BY Zenon, <1>6, <1>7, <3>2
        <4>2. work'.pc = "send"
          BY <1>9, <3>2
        <4> QED  BY <1>9, <1>16, <4>1, <4>2
      <3> QED  BY <3>1, <3>2
    <2>2. Until(work'.hash) + Len(jobs') = Until(h) + Len(jobs)
      BY <1>3, <1>4, <1>6, <1>8, <1>9
    <2>3. \A i \in 1 .. Len(jobs') : jobs'[i] = Until(work'.hash) + i
      <3>1. ASSUME NEW i \in 1 .. Len(Tail(jobs)) PROVE Tail(jobs)[i] = Until(h) + 1 + i
        <4>1. i + 1 \in 1 .. Len(jobs) /\ Tail(jobs)[i] = jobs[i + 1]
          BY <1>4
        <4> QED  BY <1>2, <1>3, <4>1
      <3> QED  BY Zenon, <1>6, <1>8, <1>9, <3>1
    <2>4. work'.pc \in {"send", "try"} => work'.range = <<R!RangeAt(Len(Sent))>> /\ Len(Sent) <= R!Ranges
      BY <1>6, <1>7, <1>9
    <2>5. /\ main.pc \in {"read", "free", "finish"} => Until(h) + Len(jobs) = main.written
          /\ main.pc \in {"written", "queue"} => Until(h) + Len(jobs) = main.written - 1
          /\ work.result # "end" /\ (main.pc = "finish" => main.written = Units)
      BY <1>1 DEF Says, WorkSays, h
    <2> QED  BY <1>2, <1>8, <1>9, <1>14, <1>16, <2>1, <2>2, <2>3, <2>4, <2>5 DEF WorkSays
  <1>19. PoolConserved' /\ StopsWithinOne'
    BY <1>1, <1>4, <1>8 DEF Says, PoolConserved, StopsWithinOne
  <1> QED  BY <1>13, <1>15, <1>16, <1>17, <1>18, <1>19 DEF Good, Says

\* What the worker sends is the next range, and the file is still open.
LEMMA TrySendKeeps == ASSUME Says, TrySend PROVE Good
  <1>1. /\ work.pc = "try" /\ work \in WorkStates /\ UNCHANGED <<main, jobs, free, log, wal, faults>>
        /\ work.range = <<R!RangeAt(Len(Sent))>> /\ Len(Sent) <= R!Ranges /\ work.range \in Seq(Messages)
    BY WorkTypes DEF Says, TypeOK, TrySend, WorkSays
  <1>2. main.mode = "worker" /\ main.pc \notin {"close", "ack", "discard", "done", "carry", "send", "asked"} /\ R!Open
    BY <1>1 DEF Says, BuffersSay, Gone, SinkSays
  <1>3. CASE UNCHANGED chan /\ \E p \in {"fault", "send"} : work' = [work EXCEPT !.pc = p]
    <2>1. PICK p \in {"fault", "send"} : work' = [work EXCEPT !.pc = p]
      BY Zenon, <1>3
    <2>2. /\ work'.pc = p /\ work'.result = work.result /\ work'.hash = work.hash /\ work'.range = work.range
      BY <1>1, <2>1 DEF WorkStates
    <2>3. p \in WorkPlaces
      BY DEF WorkPlaces
    <2>4. work' \in WorkStates
      BY Zenon, <1>1, <2>1, <2>3, WorkSets
    <2>5. TypeOK'
      BY <1>1, <1>3, <2>4 DEF Says, TypeOK
    <2>6. Sent' = Sent
      BY <1>1, <1>3 DEF Sent
    <2>7. BuffersSay'
      BY <1>1, <1>2, <2>2 DEF Says, BuffersSay, Gone
    <2>8. SinkSays'
      BY Zenon, <1>1, <2>6, SinkSame DEF Says
    <2>9. WorkSays'
      BY <1>1, <2>2, <2>6 DEF Says, WorkSays
    <2>10. PoolConserved' /\ StopsWithinOne'
      BY <1>1 DEF Says, PoolConserved, StopsWithinOne
    <2> QED  BY <2>5, <2>6, <2>7, <2>8, <2>9, <2>10 DEF Good, Says
  <1>4. CASE /\ wal.alive /\ Len(chan) < Cap /\ chan' = Append(chan, Head(work.range))
             /\ work' = [work EXCEPT !.pc = "ask", !.range = <<>>]
    <2> DEFINE m == R!RangeAt(Len(Sent))
    <2>1. Head(work.range) = m /\ m \in Messages
      BY <1>1
    <2>2. m.type = "range"
      BY DEF R!RangeAt, R!Range
    <2> HIDE DEF m
    <2>3. /\ work'.pc = "ask" /\ work'.result = work.result /\ work'.hash = work.hash
      BY <1>1, <1>4 DEF WorkStates
    <2>4. Sent' = Append(Sent, m) /\ Len(Sent') = Len(Sent) + 1 /\ Sent'[Len(Sent')] = m
      BY Zenon, <1>1, <1>4, <2>1, SentMore DEF Says
    <2>5. TypeOK'
      <3>1. "ask" \in WorkPlaces /\ <<>> \in Seq(Messages)
        BY OneMessage DEF WorkPlaces
      <3>2. [work EXCEPT !.pc = "ask"] \in WorkStates
        BY Zenon, <1>1, <3>1, WorkSets
      <3>3. work' \in WorkStates
        BY Zenon, <1>4, <3>1, <3>2, WorkSets
      <3>4. chan' \in Seq(Messages) /\ Len(chan') <= Cap
        BY SMTT(60), <1>4, <2>1, Sizes DEF Says, TypeOK
      <3> QED  BY <1>1, <3>3, <3>4 DEF Says, TypeOK
    <2>6. BuffersSay'
      BY <1>1, <1>2, <2>3 DEF Says, BuffersSay, Gone
    <2>7. R!Open'
      BY <2>2, <2>4 DEF R!Open, Sent, R!Close, R!Discard
    <2>8. SinkSays'
      BY <1>1, <1>2, <2>4, <2>7, SentType DEF Says, SinkSays
    <2>9. WorkSays'
      <3>1. Len(Sent') - 1 = Len(Sent)
        BY <2>4, SentType DEF Says
      <3> QED  BY <1>1, <2>3, <3>1 DEF Says, WorkSays
    <2>10. PoolConserved' /\ StopsWithinOne'
      BY <1>1 DEF Says, PoolConserved, StopsWithinOne
    <2>11. R!SendRange
      BY Zenon, <1>1, <1>2, <2>4 DEF R!SendRange, Sent, m
    <2> QED  BY Zenon, <2>5, <2>6, <2>8, <2>9, <2>10, <2>11 DEF Good, Says, R!Next
  <1> QED  BY Zenon, <1>3, <1>4 DEF TrySend

\* The log thread takes a message, or ends; or it fails.
LEMMA LogKeeps == ASSUME Says, LogReceive \/ LogFails PROVE Good
  <1>1. /\ wal \in LogStates /\ UNCHANGED <<main, work, jobs, free>>
    BY DEF Says, TypeOK, LogReceive, LogFails
  <1>2. /\ wal' \in LogStates /\ (wal.fault => wal'.fault) /\ faults' \in Nat
    <2>1. ASSUME NEW v \in BOOLEAN
          PROVE  /\ [wal EXCEPT !.alive = v] \in LogStates /\ [wal EXCEPT !.alive = v].fault = wal.fault
                 /\ [wal EXCEPT !.acked = v] \in LogStates /\ [wal EXCEPT !.acked = v].fault = wal.fault
                 /\ [wal EXCEPT !.fault = v] \in LogStates /\ [wal EXCEPT !.fault = v].fault = v
      BY <1>1 DEF LogStates
    <2>2. faults' \in Nat
      BY DEF LogReceive, LogFails, Says, TypeOK
    <2> QED  BY Zenon, <1>1, <2>1, <2>2 DEF LogReceive, LogFails
  <1>3. /\ Sent' = Sent /\ log' \in Seq(Messages) /\ chan' \in Seq(Messages) /\ Len(chan') <= Cap
    <2>1. CASE chan # <<>> /\ log' = Append(log, Head(chan)) /\ chan' = Tail(chan)
      BY Zenon, <2>1, SentKept DEF Says
    <2>2. CASE UNCHANGED <<chan, log>>
      BY <2>2 DEF Says, TypeOK, Sent
    <2> QED  BY <2>1, <2>2 DEF LogReceive, LogFails
  <1>4. TypeOK'
    BY <1>1, <1>2, <1>3 DEF Says, TypeOK
  <1>5. BuffersSay'
    BY <1>1, <1>2 DEF Says, BuffersSay, Gone
  <1>6. SinkSays'
    BY Zenon, <1>1, <1>3, SinkSame DEF Says
  <1>7. WorkSays'
    BY <1>1, <1>3 DEF Says, WorkSays
  <1>8. PoolConserved' /\ StopsWithinOne'
    BY <1>1 DEF Says, PoolConserved, StopsWithinOne
  <1> QED  BY <1>3, <1>4, <1>5, <1>6, <1>7, <1>8 DEF Good, Says

----------------------------------------------------------------------------
(* The copy thread. *)

\* A failure of the copy: nothing is sent, and an open file goes on to its abort.
LEMMA FailStep ==
    ASSUME Says, main' = Fails(main) \/ main' = [Fails(main) EXCEPT !.lost = TRUE], main.ended => Gone,
           UNCHANGED <<work, jobs, free, chan, log>>, wal' \in LogStates, wal.fault => wal'.fault, faults' \in Nat
    PROVE  Good
  <1> DEFINE f == Fails(main)
  <1>1. main \in MainStates /\ f \in MainStates
    BY Zenon, FailsIs DEF Says, TypeOK
  <1>2. /\ f.pc = (IF main.ended THEN "done" ELSE "abort")
        /\ f.written = main.written /\ f.mode = main.mode /\ f.hash = main.hash
        /\ f.ended = main.ended /\ f.open = main.open /\ f.since = main.since
    BY Zenon, <1>1, FailsIs
  <1> HIDE DEF f
  <1>3. main' \in MainStates
    BY Zenon, <1>1, MainSets DEF f
  <1>4. main' = f \/ main' = [f EXCEPT !.lost = TRUE]
    BY DEF f
  <1>5. /\ main'.pc = (IF main.ended THEN "done" ELSE "abort")
        /\ main'.written = main.written /\ main'.mode = main.mode /\ main'.hash = main.hash
        /\ main'.ended = main.ended /\ main'.open = main.open /\ main'.since = main.since
    BY <1>1, <1>2, <1>4 DEF MainStates
  <1>6. TypeOK'
    BY <1>3 DEF Says, TypeOK
  <1>7. BuffersSay'
    BY <1>5 DEF Says, BuffersSay, Gone
  <1>8. Sent' = Sent
    BY DEF Sent
  <1>9. SinkSays'
    BY <1>5, <1>8, OpenSame DEF Says, SinkSays, BuffersSay
  <1>10. WorkSays'
    BY <1>5, <1>8 DEF Says, WorkSays
  <1>11. PoolConserved' /\ StopsWithinOne'
    BY SMTT(30), <1>5, Sizes DEF Says, PoolConserved, StopsWithinOne, TypeOK
  <1> QED  BY <1>6, <1>7, <1>8, <1>9, <1>10, <1>11 DEF Good, Says

\* What a unit hashed on the copy's own thread makes of its state.
LEMMA InlineIs ==
    ASSUME NEW r \in MainStates, NEW n, HashSays(r.hash, n), Until(r.hash) < Units, NEW back \in {"carry", "read"}
    PROVE  LET i == Inline(r, Until(r.hash) + 1, back) IN
           /\ i \in MainStates /\ i.written = r.written /\ i.mode = r.mode /\ i.ended = r.ended
           /\ i.open = r.open /\ i.since = r.since /\ i.then = back /\ Until(i.hash) = Until(r.hash) + 1
           /\ \/ i.pc \in {"asked", back} /\ HashSays(i.hash, n)
              \/ i.pc = "send" /\ i.out = <<R!RangeAt(n + 1)>> /\ HashSays(i.hash, n + 1) /\ n + 1 <= R!Ranges
  <1> DEFINE i == Inline(r, Until(r.hash) + 1, back)
             g == Hashed(r.hash, Until(r.hash) + 1)
             p == IF g.range # <<>> THEN "send" ELSE IF g.full THEN "asked" ELSE back
  <1>1. i = [r EXCEPT !.hash = g.state, !.out = g.range, !.pc = p, !.then = back]
    BY DEF Inline
  <1>2. r.hash \in HashStates
    BY Zenon, MainTypes
  <1>3. /\ g.state \in HashStates /\ g.full \in BOOLEAN /\ Until(g.state) = Until(r.hash) + 1
        /\ \/ g.range = <<>> /\ HashSays(g.state, n)
           \/ /\ g.range = <<R!RangeAt(n + 1)>> /\ R!RangeAt(n + 1) \in Messages
              /\ HashSays(g.state, n + 1) /\ n + 1 <= R!Ranges
    BY ZenonT(90), <1>2, HashStep
  <1>4. g.range \in Seq(Messages)
    BY Zenon, <1>3, OneMessage
  <1>5. p \in Places
    BY DEF Places
  <1>6. \/ p \in {"asked", back} /\ HashSays(g.state, n)
        \/ p = "send" /\ g.range = <<R!RangeAt(n + 1)>> /\ HashSays(g.state, n + 1) /\ n + 1 <= R!Ranges
    <2>1. CASE g.range = <<>>
      <3>1. p \in {"asked", back}
        BY <2>1
      <3>2. HashSays(g.state, n)
        BY Zenon, <1>3, <2>1, OneMessage
      <3> QED  BY <3>1, <3>2
    <2>2. CASE g.range # <<>>
      <3>1. p = "send"
        BY <2>2
      <3> QED  BY Zenon, <1>3, <2>2, <3>1
    <2> QED  BY <2>1, <2>2
  <1> HIDE DEF g, p, i
  <1>7. i \in MainStates
    <2>1. [r EXCEPT !.hash = g.state] \in MainStates
      BY Zenon, <1>3, MainSets
    <2>2. [r EXCEPT !.hash = g.state, !.out = g.range] \in MainStates
      BY Zenon, <1>4, <2>1, MainSets
    <2>3. [r EXCEPT !.hash = g.state, !.out = g.range, !.pc = p] \in MainStates
      BY Zenon, <1>5, <2>2, MainSets
    <2> QED  BY Zenon, <1>1, <2>3, MainSets
  <1>8. /\ i.written = r.written /\ i.mode = r.mode /\ i.ended = r.ended /\ i.open = r.open /\ i.since = r.since
        /\ i.then = back /\ i.hash = g.state /\ i.out = g.range /\ i.pc = p
    BY <1>1 DEF MainStates
  <1>9. /\ Until(i.hash) = Until(r.hash) + 1
        /\ \/ i.pc \in {"asked", back} /\ HashSays(i.hash, n)
           \/ i.pc = "send" /\ i.out = <<R!RangeAt(n + 1)>> /\ HashSays(i.hash, n + 1) /\ n + 1 <= R!Ranges
    BY Zenon, <1>3, <1>6, <1>8
  <1> QED  BY Zenon, <1>7, <1>8, <1>9 DEF i

\* A step that hashes the unit just written on the copy's own thread.
LEMMA InlineKeeps ==
    ASSUME Says, NEW r \in MainStates, NEW back \in {"carry", "read"}, main.pc \in {"carry", "written"},
           main.mode # "worker", r.hash = main.hash, r.mode = main.mode, r.ended = main.ended, r.open = main.open,
           r.since = main.since, r.written = Until(main.hash) + 1,
           back = "carry" => main.mode = "pending" /\ r.written <= Start + Carry,
           main' = Inline(r, Until(main.hash) + 1, back), UNCHANGED <<work, jobs, free, chan, log, wal, faults>>
    PROVE  Good
  <1> DEFINE n == Len(Sent) - 1
  <1>1. HashSays(main.hash, n)
    BY DEF Says, SinkSays
  <1>2. main.hash \in HashStates /\ Until(main.hash) \in Nat /\ r.written <= Units
    BY MainTypes, HashTypes, Sizes DEF Says, TypeOK
  <1>3. Until(main.hash) < Units
    BY <1>2, Sizes
  <1>4. /\ main' \in MainStates /\ main'.written = r.written /\ main'.mode = r.mode /\ main'.ended = r.ended
        /\ main'.open = r.open /\ main'.since = r.since /\ main'.then = back
        /\ Until(main'.hash) = Until(main.hash) + 1
        /\ \/ main'.pc \in {"asked", back} /\ HashSays(main'.hash, n)
           \/ /\ main'.pc = "send" /\ main'.out = <<R!RangeAt(n + 1)>> /\ HashSays(main'.hash, n + 1)
              /\ n + 1 <= R!Ranges
    <2> HIDE DEF n
    <2>1. HashSays(r.hash, n) /\ Until(r.hash) < Units
      BY Zenon, <1>1, <1>3
    <2>2. main' = Inline(r, Until(r.hash) + 1, back) /\ Until(r.hash) = Until(main.hash)
      BY Zenon
    <2>3. LET i == Inline(r, Until(r.hash) + 1, back) IN
          /\ i \in MainStates /\ i.written = r.written /\ i.mode = r.mode /\ i.ended = r.ended
          /\ i.open = r.open /\ i.since = r.since /\ i.then = back /\ Until(i.hash) = Until(r.hash) + 1
          /\ \/ i.pc \in {"asked", back} /\ HashSays(i.hash, n)
             \/ i.pc = "send" /\ i.out = <<R!RangeAt(n + 1)>> /\ HashSays(i.hash, n + 1) /\ n + 1 <= R!Ranges
      BY ZenonT(90), <2>1, InlineIs
    <2> QED  BY Zenon, <2>2, <2>3
  <1>5. n + 1 = Len(Sent)
    BY SentType DEF Says
  <1>6. Sent' = Sent
    BY DEF Sent
  <1>7. main'.pc \in {"asked", "carry", "read", "send"} /\ (main'.pc = "carry" => back = "carry")
    BY <1>4
  <1>8. HashSays(main'.hash, IF main'.pc = "send" THEN Len(Sent) ELSE Len(Sent) - 1)
    <2>1. CASE main'.pc = "send"
      BY <1>4, <1>5, <2>1 DEF n
    <2>2. CASE main'.pc # "send"
      BY <1>4, <2>2 DEF n
    <2> QED  BY <2>1, <2>2
  <1>9. main'.pc = "send" => main'.out = <<R!RangeAt(Len(Sent))>> /\ Len(Sent) <= R!Ranges
    BY Zenon, <1>4, <1>5 DEF n
  <1> HIDE DEF n
  <1>10. TypeOK'
    BY <1>4 DEF Says, TypeOK
  <1>11. BuffersSay'
    BY <1>4, <1>7 DEF Says, BuffersSay, Gone
  <1>12. SinkSays'
    <2>1. HashSays(main.hash, IF main.pc = "send" THEN Len(Sent) ELSE Len(Sent) - 1)'
      BY Zenon, <1>6, <1>8
    <2>2. Until(main.hash)' = IF main'.pc = "written" THEN main'.written - 1 ELSE main'.written
      BY <1>4, <1>7
    <2>3. R!Open' /\ Len(Sent') > 0
      BY <1>6, OpenSame DEF Says, SinkSays
    <2>4. /\ main'.then = "carry" => main'.mode = "pending" /\ main'.written <= Start + Carry
          /\ main'.pc = "carry" => main'.then = "carry"
      BY <1>4, <1>7
    <2>5. main'.pc = "send" => main'.out = <<R!RangeAt(Len(Sent'))>> /\ Len(Sent') <= R!Ranges
      BY Zenon, <1>6, <1>9
    <2> HIDE DEF Says
    <2> QED  BY Zenon, <1>7, <2>1, <2>2, <2>3, <2>4, <2>5 DEF SinkSays
  <1>13. WorkSays'
    BY <1>6, <1>7 DEF Says, WorkSays, BuffersSay
  <1>14. PoolConserved' /\ StopsWithinOne'
    BY <1>4 DEF Says, PoolConserved, StopsWithinOne
  <1> QED  BY <1>6, <1>10, <1>11, <1>12, <1>13, <1>14 DEF Good, Says

\* The carry.
LEMMA FeedCarryKeeps == ASSUME Says, FeedCarry PROVE Good
  <1>1. /\ main \in MainStates /\ main.pc = "carry" /\ UNCHANGED <<work, jobs, free, chan, log, wal, faults>>
    BY DEF Says, TypeOK, FeedCarry
  <1>2. /\ main.mode = "pending" /\ main.then = "carry" /\ Until(main.hash) = main.written
        /\ main.written \in Start .. Units /\ main.written <= Start + Carry
    BY <1>1, MainTypes DEF Says, SinkSays, BuffersSay
  <1>3. CASE main.written < Start + Carry
    <2> DEFINE r == [main EXCEPT !.written = main.written + 1]
    <2>1. main.written + 1 \in Start .. Units /\ main.written + 1 <= Start + Carry
      BY <1>2, <1>3, Sizes
    <2>2. r \in MainStates
      BY Zenon, <1>1, <2>1, MainSets
    <2>3. /\ r.hash = main.hash /\ r.mode = main.mode /\ r.ended = main.ended /\ r.open = main.open
          /\ r.since = main.since /\ r.written = Until(main.hash) + 1
      BY <1>1, <1>2 DEF MainStates
    <2>4. main' = Inline(r, Until(main.hash) + 1, "carry")
      BY <1>2, <1>3 DEF FeedCarry
    <2> HIDE DEF r
    <2>5. r.written <= Start + Carry /\ main.mode # "worker" /\ "carry" \in {"carry", "read"}
      BY <1>2, <2>1, <2>3
    <2> QED  BY Zenon, <1>1, <1>2, <2>2, <2>3, <2>4, <2>5, InlineKeeps
  <1>4. CASE ~(main.written < Start + Carry)
    <2>1. main' = [main EXCEPT !.pc = "read"]
      BY <1>4 DEF FeedCarry
    <2>2. main' \in MainStates
      BY Zenon, <1>1, <2>1, MainSets DEF Places
    <2>3. /\ main'.pc = "read" /\ main'.written = main.written /\ main'.mode = main.mode /\ main'.hash = main.hash
          /\ main'.ended = main.ended /\ main'.open = main.open /\ main'.since = main.since /\ main'.then = main.then
      BY <1>1, <2>1 DEF MainStates
    <2>4. Sent' = Sent
      BY <1>1 DEF Sent
    <2>5. TypeOK'
      BY <1>1, <2>2 DEF Says, TypeOK
    <2>6. BuffersSay'
      BY <1>1, <1>2, <2>3 DEF Says, BuffersSay, Gone
    <2>7. SinkSays'
      BY <1>1, <1>2, <2>3, <2>4, OpenSame DEF Says, SinkSays
    <2>8. WorkSays'
      BY <1>1, <1>2, <2>3, <2>4 DEF Says, WorkSays, BuffersSay
    <2>9. PoolConserved' /\ StopsWithinOne'
      BY <1>1, <1>2, <2>3 DEF Says, PoolConserved, StopsWithinOne
    <2> QED  BY <2>4, <2>5, <2>6, <2>7, <2>8, <2>9 DEF Good, Says
  <1> QED  BY <1>3, <1>4

\* Two messages behind each other.
LEMMA Paired ==
    ASSUME NEW S, NEW a \in S, NEW b \in S
    PROVE  <<a>> \o <<b>> = <<a, b>> /\ <<a, b>> \in Seq(S) /\ Len(<<a, b>>) = 2
  <1>1. <<a>> \in Seq(S) /\ <<b>> \in Seq(S) /\ <<a, b>> \in Seq(S)
    OBVIOUS
  <1>2. Len(<<a, b>>) = 2 /\ <<a, b>>[1] = a /\ <<a, b>>[2] = b
    OBVIOUS
  <1>3. /\ <<a>> \o <<b>> \in Seq(S) /\ Len(<<a>> \o <<b>>) = 2
        /\ (<<a>> \o <<b>>)[1] = a /\ (<<a>> \o <<b>>)[2] = b
    BY <1>1
  <1>4. \A i \in 1 .. Len(<<a, b>>) : (<<a>> \o <<b>>)[i] = <<a, b>>[i]
    BY <1>2, <1>3
  <1>5. Len(<<a>> \o <<b>>) = Len(<<a, b>>)
    BY <1>2, <1>3
  <1> QED  BY Zenon, <1>1, <1>2, <1>3, <1>4, <1>5, SeqEqual

\* Behind the last unit: what complete sends is the rest of the promise.
LEMMA CloseOut ==
    ASSUME TypeOK, NEW h \in HashStates, HashSays(h, Len(Sent) - 1), Until(h) = Units
    PROVE  LET out == LastRange(h) \o <<R!Close>> IN
           /\ out \in Seq(Messages)
           /\ \/ out = <<R!Close>> /\ Len(Sent) = R!Ranges + 1
              \/ out = <<R!RangeAt(Len(Sent)), R!Close>> /\ Len(Sent) = R!Ranges
  <1> DEFINE n == Len(Sent) - 1
  <1>1. \/ LastRange(h) = <<>> /\ n = R!Ranges
        \/ /\ LastRange(h) = <<R!RangeAt(n + 1)>> /\ R!RangeAt(n + 1) \in Messages
           /\ n + 1 = R!Ranges
    <2> HIDE DEF n
    <2>1. HashSays(h, n)
      BY DEF n
    <2> QED  BY Zenon, <2>1, LastStep
  <1>2. Len(Sent) \in Nat
    BY Zenon, SentType
  <1>3. n + 1 = Len(Sent)
    BY <1>2
  <1>4. R!Close \in Messages
    BY DEF Messages
  <1>5. <<>> \o <<R!Close>> = <<R!Close>> /\ <<R!Close>> \in Seq(Messages)
    BY <1>4
  <1>6. ASSUME NEW m \in Messages
        PROVE  <<m>> \o <<R!Close>> = <<m, R!Close>> /\ <<m, R!Close>> \in Seq(Messages)
    BY Zenon, <1>4, Paired
  <1>7. CASE LastRange(h) = <<>> /\ n = R!Ranges
    <2>1. Len(Sent) = R!Ranges + 1
      BY <1>3, <1>7
    <2> QED  BY Zenon, <1>5, <1>7, <2>1
  <1>8. CASE /\ LastRange(h) = <<R!RangeAt(n + 1)>> /\ R!RangeAt(n + 1) \in Messages /\ n + 1 = R!Ranges
    <2> HIDE DEF n
    <2> QED  BY Zenon, <1>3, <1>6, <1>8
  <1> QED  BY <1>1, <1>7, <1>8

\* A buffer read and written, or the end of the source.
LEMMA ReadBufferKeeps == ASSUME Says, ReadBuffer PROVE Good
  <1>1. /\ main \in MainStates /\ main.pc = "read" /\ UNCHANGED <<work, jobs, free, chan, log, wal>>
        /\ wal \in LogStates /\ faults \in Nat /\ faults' \in Nat
    BY DEF Says, TypeOK, ReadBuffer
  <1>2. /\ main.written \in Start .. Units /\ main.ended = FALSE
    BY <1>1, MainTypes DEF Says, BuffersSay
  <1>3. Sent' = Sent
    BY <1>1 DEF Sent
  <1>4. CASE main' = Fails(main)
    BY Zenon, <1>1, <1>2, <1>4, FailStep
  <1>5. CASE main.written < Units /\ main' = [main EXCEPT !.written = main.written + 1, !.pc = "written"]
    <2>1. main.written + 1 \in Start .. Units /\ "written" \in Places
      BY <1>2, <1>5, Sizes DEF Places
    <2>2. [main EXCEPT !.written = main.written + 1] \in MainStates
      BY Zenon, <1>1, <2>1, MainSets
    <2>3. main' \in MainStates
      BY Zenon, <1>5, <2>1, <2>2, MainSets
    <2>4. /\ main'.pc = "written" /\ main'.written = main.written + 1 /\ main'.mode = main.mode /\ main'.hash = main.hash
          /\ main'.ended = main.ended /\ main'.open = main.open /\ main'.since = main.since /\ main'.then = main.then
      BY <1>1, <1>5 DEF MainStates
    <2>5. TypeOK'
      BY <1>1, <2>3 DEF Says, TypeOK
    <2>6. BuffersSay'
      BY <1>1, <2>4 DEF Says, BuffersSay, Gone
    <2>7. main'.written - 1 = main.written /\ main'.written > Start
      BY <1>2, <2>4, Sizes
    <2>8. SinkSays'
      BY <1>1, <1>3, <2>4, <2>7, OpenSame DEF Says, SinkSays
    <2>9. WorkSays'
      BY <1>1, <1>3, <2>4, <2>7 DEF Says, WorkSays
    <2>10. PoolConserved' /\ StopsWithinOne'
      BY <1>1, <2>4 DEF Says, PoolConserved, StopsWithinOne
    <2> QED  BY <1>3, <2>5, <2>6, <2>8, <2>9, <2>10 DEF Good, Says
  <1>6. CASE /\ ~(main.written < Units) /\ main.mode = "worker"
             /\ main' = [main EXCEPT !.pc = "finish", !.ended = TRUE, !.open = FALSE]
    <2>1. main.written = Units /\ "finish" \in Places /\ TRUE \in BOOLEAN /\ FALSE \in BOOLEAN
      <3>1. main.written = Units
        <4>1. ~(main.written < Units)
          BY Zenon, <1>6
        <4> QED  BY <1>2, <4>1, Sizes
      <3> QED  BY <3>1 DEF Places
    <2>2. [main EXCEPT !.pc = "finish"] \in MainStates
      BY Zenon, <1>1, <2>1, MainSets
    <2>3. [main EXCEPT !.pc = "finish", !.ended = TRUE] \in MainStates
      BY Zenon, <2>1, <2>2, MainSets
    <2>4. main' \in MainStates
      BY Zenon, <1>6, <2>1, <2>3, MainSets
    <2>5. /\ main'.pc = "finish" /\ main'.written = main.written /\ main'.mode = "worker" /\ main'.since = main.since
      BY <1>1, <1>6 DEF MainStates
    <2>6. main'.ended = TRUE /\ main'.open = FALSE
      BY <1>1, <1>6 DEF MainStates
    <2>7. TypeOK'
      BY <1>1, <2>4 DEF Says, TypeOK
    <2>8. BuffersSay'
      BY <1>1, <1>6, <2>5, <2>6 DEF Says, BuffersSay, Gone
    <2>9. SinkSays'
      BY <1>1, <1>3, <2>5, OpenSame DEF Says, SinkSays
    <2>10. work.result # "end"
      BY <1>2 DEF Says, WorkSays
    <2>11. WorkSays'
      BY <1>1, <1>3, <2>1, <2>5, <2>10 DEF Says, WorkSays
    <2>12. PoolConserved' /\ StopsWithinOne'
      <3>1. Len(jobs) \in Nat /\ free \in Nat /\ Pool \in Nat
        BY Sizes DEF Says, TypeOK
      <3>2. Len(jobs) + free + 1 <= Pool /\ main.since <= 1
        BY <1>1, <1>6 DEF Says, PoolConserved, StopsWithinOne
      <3>3. Len(jobs) + free + 0 <= Pool
        BY <3>1, <3>2
      <3> QED  BY <1>1, <2>5, <3>2, <3>3 DEF PoolConserved, StopsWithinOne
    <2> QED  BY <1>3, <2>7, <2>8, <2>9, <2>11, <2>12 DEF Good, Says
  <1>7. CASE /\ ~(main.written < Units) /\ main.mode # "worker"
             /\ main' = [main EXCEPT !.pc = "close", !.ended = TRUE, !.out = LastRange(main.hash) \o <<R!Close>>]
    <2> DEFINE out == LastRange(main.hash) \o <<R!Close>>
    <2>1. main.written = Units /\ "close" \in Places /\ TRUE \in BOOLEAN
      <3>1. main.written = Units
        <4>1. ~(main.written < Units)
          BY Zenon, <1>7
        <4> QED  BY <1>2, <4>1, Sizes
      <3> QED  BY <3>1 DEF Places
    <2>2. /\ TypeOK /\ main.hash \in HashStates /\ HashSays(main.hash, Len(Sent) - 1) /\ Until(main.hash) = Units
      BY <1>1, <1>7, <2>1, MainTypes DEF Says, SinkSays
    <2>3. /\ out \in Seq(Messages)
          /\ \/ out = <<R!Close>> /\ Len(Sent) = R!Ranges + 1
             \/ out = <<R!RangeAt(Len(Sent)), R!Close>> /\ Len(Sent) = R!Ranges
      BY Zenon, <2>2, CloseOut
    <2> HIDE DEF out
    <2>4. [main EXCEPT !.pc = "close"] \in MainStates
      BY Zenon, <1>1, <2>1, MainSets
    <2>5. [main EXCEPT !.pc = "close", !.ended = TRUE] \in MainStates
      BY Zenon, <2>1, <2>4, MainSets
    <2>6. main' \in MainStates
      BY Zenon, <1>7, <2>3, <2>5, MainSets DEF out
    <2>7. /\ main'.pc = "close" /\ main'.mode = main.mode /\ main'.since = main.since /\ main'.out = out
          /\ main'.open = main.open
      BY <1>1, <1>7 DEF MainStates, out
    <2>8. main'.ended = TRUE
      BY <1>1, <1>7 DEF MainStates
    <2>9. TypeOK'
      BY <1>1, <2>6 DEF Says, TypeOK
    <2>10. BuffersSay'
      BY <1>1, <1>7, <2>7, <2>8 DEF Says, BuffersSay, Gone
    <2>11. main'.pc = "close" => \/ main'.out = <<R!Close>> /\ Len(Sent') = R!Ranges + 1
                                 \/ main'.out = <<R!RangeAt(Len(Sent')), R!Close>> /\ Len(Sent') = R!Ranges
      <3>1. CASE out = <<R!Close>> /\ Len(Sent) = R!Ranges + 1
        BY Zenon, <1>3, <2>7, <3>1
      <3>2. CASE out = <<R!RangeAt(Len(Sent)), R!Close>> /\ Len(Sent) = R!Ranges
        BY Zenon, <1>3, <2>7, <3>2
      <3> QED  BY Zenon, <2>3, <3>1, <3>2
    <2>12. R!Open' /\ Len(Sent') > 0
      BY <1>1, <1>3, OpenSame DEF Says, SinkSays
    <2>13. SinkSays'
      <3> HIDE DEF Says
      <3> QED  BY Zenon, <2>7, <2>11, <2>12 DEF SinkSays
    <2>14. WorkSays'
      BY <1>1, <1>3, <1>7, <2>7 DEF Says, WorkSays, BuffersSay
    <2>15. PoolConserved' /\ StopsWithinOne'
      BY <1>1, <1>7, <2>7 DEF Says, PoolConserved, StopsWithinOne
    <2> QED  BY <1>3, <2>9, <2>10, <2>13, <2>14, <2>15 DEF Good, Says
  <1> QED  BY Zenon, <1>4, <1>5, <1>6, <1>7 DEF ReadBuffer

\* The worker's end, with its hashing state or with a fault.
LEMMA FinishWorkerKeeps == ASSUME Says, FinishWorker PROVE Good
  <1>1. /\ main \in MainStates /\ work \in WorkStates /\ main.pc = "finish" /\ work.pc = "ended"
        /\ UNCHANGED <<work, jobs, free, chan, log, wal, faults>> /\ wal \in LogStates /\ faults \in Nat
    BY DEF Says, TypeOK, FinishWorker
  <1>2. Gone /\ main.mode = "worker" /\ main.ended = TRUE /\ main.open = FALSE /\ main.written = Units
    BY <1>1 DEF Says, BuffersSay, WorkSays, Gone
  <1>3. Sent' = Sent
    BY <1>1 DEF Sent
  <1>4. CASE main' = Fails(main)
    BY Zenon, <1>1, <1>2, <1>4, FailStep
  <1>5. CASE /\ work.result = "end"
             /\ main' = [main EXCEPT !.pc = "close", !.hash = work.hash, !.out = LastRange(work.hash) \o <<R!Close>>]
    <2> DEFINE out == LastRange(work.hash) \o <<R!Close>>
    <2>1. TypeOK /\ work.hash \in HashStates /\ "close" \in Places
      BY <1>1, WorkTypes DEF Says, Places
    <2>2. /\ HashSays(work.hash, Len(Sent) - 1) /\ Until(work.hash) + Len(jobs) = main.written /\ jobs = <<>>
      BY <1>1, <1>5 DEF Says, WorkSays
    <2>3. Until(work.hash) = Units
      <3>1. Until(work.hash) \in Nat
        BY Zenon, <2>1, HashTypes
      <3> QED  BY <1>2, <2>2, <3>1
    <2>4. /\ out \in Seq(Messages)
          /\ \/ out = <<R!Close>> /\ Len(Sent) = R!Ranges + 1
             \/ out = <<R!RangeAt(Len(Sent)), R!Close>> /\ Len(Sent) = R!Ranges
      BY Zenon, <2>1, <2>2, <2>3, CloseOut
    <2> HIDE DEF out
    <2>5. [main EXCEPT !.pc = "close"] \in MainStates
      BY Zenon, <1>1, <2>1, MainSets
    <2>6. [main EXCEPT !.pc = "close", !.hash = work.hash] \in MainStates
      BY Zenon, <2>1, <2>5, MainSets
    <2>7. main' \in MainStates
      BY Zenon, <1>5, <2>4, <2>6, MainSets DEF out
    <2>8. /\ main'.pc = "close" /\ main'.mode = main.mode /\ main'.since = main.since /\ main'.out = out
          /\ main'.open = main.open /\ main'.ended = main.ended
      BY <1>1, <1>5 DEF MainStates, out
    <2>9. TypeOK'
      BY <1>1, <2>7 DEF Says, TypeOK
    <2>10. BuffersSay'
      BY <1>1, <1>2, <2>8 DEF Says, BuffersSay, Gone
    <2>11. main'.pc = "close" => \/ main'.out = <<R!Close>> /\ Len(Sent') = R!Ranges + 1
                                 \/ main'.out = <<R!RangeAt(Len(Sent')), R!Close>> /\ Len(Sent') = R!Ranges
      <3>1. CASE out = <<R!Close>> /\ Len(Sent) = R!Ranges + 1
        BY Zenon, <1>3, <2>8, <3>1
      <3>2. CASE out = <<R!RangeAt(Len(Sent)), R!Close>> /\ Len(Sent) = R!Ranges
        BY Zenon, <1>3, <2>8, <3>2
      <3> QED  BY Zenon, <2>4, <3>1, <3>2
    <2>12. R!Open' /\ Len(Sent') > 0
      BY <1>1, <1>3, OpenSame DEF Says, SinkSays
    <2>13. SinkSays'
      <3> HIDE DEF Says
      <3> QED  BY Zenon, <2>8, <2>11, <2>12 DEF SinkSays
    <2>14. WorkSays'
      BY <1>1, <1>3, <1>5, <2>8 DEF Says, WorkSays
    <2>15. PoolConserved' /\ StopsWithinOne'
      BY <1>1, <2>8 DEF Says, PoolConserved, StopsWithinOne
    <2> QED  BY <1>3, <2>9, <2>10, <2>13, <2>14, <2>15 DEF Good, Says
  <1> QED  BY Zenon, <1>4, <1>5 DEF FinishWorker

\* A buffer handed to the worker, which the first one starts, or hashed inline.
LEMMA SubmitKeeps == ASSUME Says, Submit PROVE Good
  <1>1. /\ main \in MainStates /\ work \in WorkStates /\ main.pc = "written"
        /\ UNCHANGED <<jobs, chan, log, wal, faults>> /\ wal \in LogStates /\ faults \in Nat
    BY DEF Says, TypeOK, Submit
  <1>2. /\ main.ended = FALSE /\ main.written \in Start .. Units /\ main.hash \in HashStates
    BY <1>1, MainTypes DEF Says, BuffersSay
  <1>3. Sent' = Sent
    BY <1>1 DEF Sent
  <1>4. main.mode # "worker" =>
          /\ HashSays(main.hash, Len(Sent) - 1) /\ Until(main.hash) = main.written - 1
          /\ work.pc = "none" /\ jobs = <<>> /\ free = 0 /\ main.since = 0
    BY <1>1 DEF Says, SinkSays, BuffersSay
  <1>5. CASE main' = Fails(main) /\ UNCHANGED <<work, free>>
    BY Zenon, <1>1, <1>2, <1>5, FailStep
  <1>6. CASE /\ main.mode = "pending" /\ work' = [work EXCEPT !.pc = "check", !.hash = main.hash]
             /\ free' = Pool - 1
             /\ main' = [main EXCEPT !.mode = "worker", !.open = TRUE, !.hash = NoHash]
    <2>1. /\ "check" \in WorkPlaces /\ TRUE \in BOOLEAN /\ "worker" \in {"pending", "inline", "worker"}
          /\ NoHash \in HashStates
      BY DEF WorkPlaces, NoHash, HashStates
    <2>2. work' \in WorkStates
      <3>1. [work EXCEPT !.pc = "check"] \in WorkStates
        BY Zenon, <1>1, <2>1, WorkSets
      <3> QED  BY Zenon, <1>2, <1>6, <3>1, WorkSets
    <2>3. main' \in MainStates
      <3>1. [main EXCEPT !.mode = "worker"] \in MainStates
        BY Zenon, <1>1, <2>1, MainSets
      <3>2. [main EXCEPT !.mode = "worker", !.open = TRUE] \in MainStates
        BY Zenon, <2>1, <3>1, MainSets
      <3> QED  BY Zenon, <1>6, <2>1, <3>2, MainSets
    <2>4. /\ main'.pc = "written" /\ main'.mode = "worker" /\ main'.written = main.written /\ main'.since = main.since
          /\ main'.ended = main.ended
      BY <1>1, <1>6 DEF MainStates
    <2>5. main'.open = TRUE
      BY <1>1, <1>6 DEF MainStates
    <2>6. work'.pc = "check" /\ work'.hash = main.hash /\ work'.result = work.result
      BY <1>1, <1>6 DEF WorkStates
    <2>7. /\ HashSays(main.hash, Len(Sent) - 1) /\ Until(main.hash) = main.written - 1
          /\ work.pc = "none" /\ jobs = <<>> /\ free = 0 /\ main.since = 0 /\ free' = Pool - 1
      BY Zenon, <1>4, <1>6
    <2>8. Len(jobs) = 0 /\ Pool \in Nat /\ Pool > 0
      BY <2>7, Sizes
    <2>9. TypeOK'
      <3>1. free' \in 0 .. Pool
        BY <2>7, <2>8
      <3> QED  BY <1>1, <2>2, <2>3, <3>1 DEF Says, TypeOK
    <2>10. BuffersSay'
      BY <1>1, <1>2, <2>4, <2>5, <2>6, <2>7 DEF BuffersSay, Gone
    <2>11. SinkSays'
      BY <1>1, <1>3, <2>4, OpenSame DEF Says, SinkSays
    <2>12. WorkSays'
      <3>1. work.result # "end"
        BY <2>7 DEF Says, WorkSays
      <3>2. Until(main.hash) + Len(jobs) = main.written - 1 /\ Until(main.hash) + Len(jobs) <= Units
        BY <1>2, <2>7, <2>8, Sizes
      <3>3. HashSays(work'.hash, IF work'.pc \in {"send", "try"} THEN Len(Sent') ELSE Len(Sent') - 1)
        BY <1>3, <2>6, <2>7
      <3> HIDE DEF Says
      <3> QED  BY <1>1, <2>4, <2>6, <2>8, <3>1, <3>2, <3>3 DEF WorkSays
    <2>13. PoolConserved' /\ StopsWithinOne'
      BY <1>1, <2>4, <2>7, <2>8 DEF PoolConserved, StopsWithinOne
    <2> QED  BY <1>3, <2>9, <2>10, <2>11, <2>12, <2>13 DEF Good, Says
  <1>7. CASE main.mode = "pending" /\ main' = [main EXCEPT !.mode = "inline"] /\ UNCHANGED <<work, free>>
    <2>1. "inline" \in {"pending", "inline", "worker"}
      OBVIOUS
    <2>2. main' \in MainStates
      BY Zenon, <1>1, <1>7, <2>1, MainSets
    <2>3. /\ main'.pc = "written" /\ main'.mode = "inline" /\ main'.written = main.written /\ main'.since = main.since
          /\ main'.ended = main.ended /\ main'.open = main.open /\ main'.hash = main.hash /\ main'.then = main.then
      BY <1>1, <1>7 DEF MainStates
    <2>4. TypeOK'
      BY <1>1, <1>7, <2>2 DEF Says, TypeOK
    <2>5. BuffersSay'
      BY <1>1, <1>7, <2>3 DEF Says, BuffersSay, Gone
    <2>6. SinkSays'
      BY <1>1, <1>3, <1>7, <2>3, OpenSame DEF Says, SinkSays
    <2>7. WorkSays'
      BY <1>1, <1>3, <1>7, <2>3 DEF Says, WorkSays
    <2>8. PoolConserved' /\ StopsWithinOne'
      BY <1>1, <1>7, <2>3 DEF Says, PoolConserved, StopsWithinOne
    <2> QED  BY <1>3, <2>4, <2>5, <2>6, <2>7, <2>8 DEF Good, Says
  <1>8. CASE main.mode = "inline" /\ main' = Inline(main, main.written, "read") /\ UNCHANGED <<work, free>>
    <2>1. main.written = Until(main.hash) + 1 /\ main.mode # "worker"
      <3>1. main.mode = "inline"
        BY Zenon, <1>8
      <3>2. Until(main.hash) \in Nat /\ Until(main.hash) = main.written - 1 /\ main.written \in Int
        BY <1>2, <1>4, <3>1, HashTypes, Sizes
      <3> QED  BY <3>1, <3>2
    <2>2. main' = Inline(main, Until(main.hash) + 1, "read")
      BY Zenon, <1>8, <2>1
    <2>3. "read" \in {"carry", "read"} /\ "read" # "carry" /\ main.pc \in {"carry", "written"}
      BY <1>1
    <2> QED  BY Zenon, <1>1, <1>8, <2>1, <2>2, <2>3, InlineKeeps
  <1>9. CASE main.mode = "worker" /\ main' = [main EXCEPT !.pc = "queue"] /\ UNCHANGED <<work, free>> /\ ~wal.fault
    <2>1. "queue" \in Places
      BY DEF Places
    <2>2. main' \in MainStates
      BY Zenon, <1>1, <1>9, <2>1, MainSets
    <2>3. /\ main'.pc = "queue" /\ main'.mode = "worker" /\ main'.written = main.written /\ main'.since = main.since
          /\ main'.ended = main.ended /\ main'.open = main.open
      BY <1>1, <1>9 DEF MainStates
    <2>4. main.since = 0
      BY <1>1, <1>9, MainTypes DEF Says, BuffersSay
    <2>5. TypeOK'
      BY <1>1, <1>9, <2>2 DEF Says, TypeOK
    <2>6. BuffersSay'
      BY <1>1, <1>9, <2>3, <2>4 DEF Says, BuffersSay, Gone
    <2>7. SinkSays'
      BY <1>1, <1>3, <1>9, <2>3, OpenSame DEF Says, SinkSays
    <2>8. WorkSays'
      BY <1>1, <1>3, <1>9, <2>3 DEF Says, WorkSays
    <2>9. PoolConserved' /\ StopsWithinOne'
      BY <1>1, <1>9, <2>3 DEF Says, PoolConserved, StopsWithinOne
    <2> QED  BY <1>3, <2>5, <2>6, <2>7, <2>8, <2>9 DEF Good, Says
  <1> QED  BY Zenon, <1>5, <1>6, <1>7, <1>8, <1>9 DEF Submit

\* A buffer into the queue, which has room for it.
LEMMA QueueJobKeeps == ASSUME Says, QueueJob PROVE Good
  <1>1. /\ main \in MainStates /\ main.pc = "queue" /\ jobs \in Seq(1 .. Units) /\ Len(jobs) \in Nat
        /\ UNCHANGED <<work, free, chan, log, wal, faults>> /\ wal \in LogStates /\ faults \in Nat /\ free \in Nat
    BY Sizes DEF Says, TypeOK, QueueJob
  <1>2. /\ main.mode = "worker" /\ main.ended = FALSE /\ main.since = 0 /\ main.written \in Start .. Units
        /\ main.written > Start
    BY <1>1, MainTypes DEF Says, BuffersSay, SinkSays
  <1>3. Sent' = Sent
    BY <1>1 DEF Sent
  <1>4. CASE main' = Fails(main) /\ UNCHANGED jobs
    BY Zenon, <1>1, <1>2, <1>4, FailStep
  <1>5. CASE /\ ~Gone /\ jobs' = Append(jobs, main.written)
             /\ main' = [main EXCEPT !.pc = "free", !.since = IF wal.fault THEN main.since + 1 ELSE main.since]
    <2> DEFINE k == IF wal.fault THEN main.since + 1 ELSE main.since
    <2>1. "free" \in Places /\ k \in Nat /\ k <= 1 /\ (k > 0 => wal.fault)
      BY <1>2 DEF Places
    <2> HIDE DEF k
    <2>2. main' \in MainStates
      <3>1. [main EXCEPT !.pc = "free"] \in MainStates
        BY Zenon, <1>1, <2>1, MainSets
      <3> QED  BY Zenon, <1>5, <2>1, <3>1, MainSets DEF k
    <2>3. /\ main'.pc = "free" /\ main'.mode = main.mode /\ main'.written = main.written /\ main'.since = k
          /\ main'.ended = main.ended /\ main'.open = main.open
      BY <1>1, <1>5 DEF MainStates, k
    <2>4. /\ main.written \in 1 .. Units /\ jobs' \in Seq(1 .. Units) /\ Len(jobs') = Len(jobs) + 1
          /\ \A i \in 1 .. Len(jobs) : jobs'[i] = jobs[i]
          /\ jobs'[Len(jobs) + 1] = main.written
      <3>1. main.written \in 1 .. Units
        BY <1>2, Sizes
      <3>2. jobs' = Append(jobs, main.written)
        BY Zenon, <1>5
      <3> QED  BY <1>1, <3>1, <3>2
    <2>5. Len(jobs) + free + 1 <= Pool /\ Pool \in Nat
      BY <1>1, <1>2, Sizes DEF Says, PoolConserved
    <2>6. TypeOK'
      <3>1. Len(jobs') <= Pool
        BY <1>1, <2>4, <2>5
      <3> QED  BY <1>1, <2>2, <2>4, <3>1 DEF Says, TypeOK
    <2>7. BuffersSay'
      BY <1>1, <1>2, <1>5, <2>1, <2>3 DEF Says, BuffersSay, Gone
    <2>8. SinkSays'
      BY <1>1, <1>3, <1>2, <2>3, OpenSame DEF Says, SinkSays
    <2>9. WorkSays'
      <3>1. work.result # "end" /\ (main.pc = "finish")' = FALSE
        BY <1>2, <2>3 DEF Says, WorkSays
      <3>2. CASE work.pc \in {"check", "recv", "send", "try", "ask"}
        <4>1. /\ HashSays(work.hash, IF work.pc \in {"send", "try"} THEN Len(Sent) ELSE Len(Sent) - 1)
              /\ \A i \in 1 .. Len(jobs) : jobs[i] = Until(work.hash) + i
              /\ Until(work.hash) + Len(jobs) = main.written - 1
          BY ZenonT(60), <1>1, <3>2 DEF Says, WorkSays
        <4>2. Until(work.hash) \in Nat
          BY WorkTypes, HashTypes DEF Says, TypeOK
        <4>3. Until(work.hash) + Len(jobs') = main.written /\ Until(work.hash) + Len(jobs') <= Units
          BY SMTT(60), <1>1, <1>2, <2>4, <4>1, <4>2, Sizes
        <4>4. ASSUME NEW i \in 1 .. Len(jobs') PROVE jobs'[i] = Until(work.hash) + i
          <5>1. CASE i \in 1 .. Len(jobs)
            BY Zenon, <2>4, <4>1, <5>1
          <5>2. CASE i = Len(jobs) + 1
            BY SMTT(60), <1>1, <1>2, <2>4, <4>1, <4>2, <5>2, Sizes
          <5>3. i \in 1 .. Len(jobs) \/ i = Len(jobs) + 1
            BY <1>1, <2>4
          <5> QED  BY <5>1, <5>2, <5>3
        <4> QED  BY ZenonT(60), <1>1, <1>3, <2>3, <3>1, <4>1, <4>3, <4>4 DEF Says, WorkSays
      <3>3. CASE work.pc \notin {"check", "recv", "send", "try", "ask"}
        BY <1>1, <1>3, <2>3, <3>1, <3>3 DEF Says, WorkSays
      <3> QED  BY <3>2, <3>3
    <2>10. PoolConserved' /\ StopsWithinOne'
      BY <1>1, <2>1, <2>3, <2>4, <2>5 DEF PoolConserved, StopsWithinOne
    <2> QED  BY <1>3, <2>6, <2>7, <2>8, <2>9, <2>10 DEF Good, Says
  <1> QED  BY Zenon, <1>4, <1>5 DEF QueueJob

\* A free buffer, or none and a fault.
LEMMA TakeFreeKeeps == ASSUME Says, TakeFree PROVE Good
  <1>1. /\ main \in MainStates /\ main.pc = "free" /\ free \in 0 .. Pool /\ Len(jobs) \in Nat /\ Pool \in Nat
        /\ UNCHANGED <<work, jobs, chan, log, wal, faults>> /\ wal \in LogStates /\ faults \in Nat
    BY Sizes DEF Says, TypeOK, TakeFree
  <1>2. main.mode = "worker" /\ main.ended = FALSE
    BY <1>1, MainTypes DEF Says, BuffersSay
  <1>3. Sent' = Sent
    BY <1>1 DEF Sent
  <1>4. CASE main' = Fails(main) /\ UNCHANGED free
    BY Zenon, <1>1, <1>2, <1>4, FailStep
  <1>5. CASE free > 0 /\ free' = free - 1 /\ main' = [main EXCEPT !.pc = "read"]
    <2>1. "read" \in Places
      BY DEF Places
    <2>2. main' \in MainStates
      BY Zenon, <1>1, <1>5, <2>1, MainSets
    <2>3. /\ main'.pc = "read" /\ main'.mode = main.mode /\ main'.written = main.written /\ main'.since = main.since
          /\ main'.ended = main.ended /\ main'.open = main.open
      BY <1>1, <1>5 DEF MainStates
    <2>4. free > 0 /\ free' = free - 1
      BY Zenon, <1>5
    <2>5. TypeOK'
      <3>1. free' \in 0 .. Pool
        BY <1>1, <2>4
      <3> QED  BY <1>1, <2>2, <3>1 DEF Says, TypeOK
    <2>6. BuffersSay'
      BY <1>1, <1>2, <2>3 DEF Says, BuffersSay, Gone
    <2>7. SinkSays'
      BY <1>1, <1>3, <1>2, <2>3, OpenSame DEF Says, SinkSays
    <2>8. WorkSays'
      BY <1>1, <1>3, <2>3 DEF Says, WorkSays
    <2>9. PoolConserved' /\ StopsWithinOne'
      <3>1. Len(jobs) + free + 0 <= Pool /\ main.since <= 1
        BY <1>1, <1>2 DEF Says, PoolConserved, StopsWithinOne
      <3>2. Len(jobs) + free' + 1 <= Pool
        BY <1>1, <2>4, <3>1
      <3> QED  BY <1>1, <2>3, <3>1, <3>2 DEF PoolConserved, StopsWithinOne
    <2> QED  BY <1>3, <2>5, <2>6, <2>7, <2>8, <2>9 DEF Good, Says
  <1> QED  BY Zenon, <1>4, <1>5 DEF TakeFree

\* The copy's messages: a Range, Close behind all of them, or Discard.
LEMMA SendNextKeeps == ASSUME Says, SendNext PROVE Good
  <1>1. /\ main \in MainStates /\ main.pc \in {"send", "close", "discard"} /\ main.out # <<>> /\ main.out \in Seq(Messages)
        /\ UNCHANGED <<work, jobs, free, log, wal, faults>> /\ wal \in LogStates /\ faults \in Nat /\ TypeOK
    BY MainTypes DEF Says, TypeOK, SendNext
  <1>2. main.ended => Gone
    BY <1>1 DEF Says, BuffersSay
  <1>3. R!Open /\ Len(Sent) \in Nat
    BY <1>1, SentType DEF Says, SinkSays
  <1>4. CASE main' = Fails(main) /\ UNCHANGED chan
    BY Zenon, <1>1, <1>2, <1>4, FailStep
  <1>5. CASE main.pc = "discard" /\ main' = [main EXCEPT !.pc = "done", !.out = <<>>] /\ UNCHANGED chan
    <2>1. "done" \in Places /\ <<>> \in Seq(Messages)
      BY OneMessage DEF Places
    <2>2. main' \in MainStates
      <3>1. [main EXCEPT !.pc = "done"] \in MainStates
        BY Zenon, <1>1, <2>1, MainSets
      <3> QED  BY Zenon, <1>5, <2>1, <3>1, MainSets
    <2>3. /\ main'.pc = "done" /\ main'.mode = main.mode /\ main'.since = main.since
          /\ main'.ended = main.ended /\ main'.open = main.open
      BY <1>1, <1>5 DEF MainStates
    <2>4. Sent' = Sent
      BY <1>1, <1>5 DEF Sent
    <2>5. TypeOK'
      BY <1>1, <1>5, <2>2 DEF TypeOK
    <2>6. BuffersSay'
      BY <1>1, <1>5, <2>3 DEF Says, BuffersSay, Gone
    <2>7. SinkSays'
      BY <2>3, <2>4 DEF Says, SinkSays
    <2>8. WorkSays'
      BY <1>1, <1>5, <2>3, <2>4 DEF Says, WorkSays
    <2>9. PoolConserved' /\ StopsWithinOne'
      BY <1>1, <1>5, <2>3 DEF Says, PoolConserved, StopsWithinOne
    <2> QED  BY <2>4, <2>5, <2>6, <2>7, <2>8, <2>9 DEF Good, Says
  <1>6. CASE /\ Len(chan) < Cap /\ chan' = Append(chan, Head(main.out))
             /\ main' = [main EXCEPT !.out = Tail(main.out),
                                     !.pc = CASE main.pc = "send" -> "asked"
                                              [] main.pc = "discard" -> "done"
                                              [] OTHER -> IF Len(main.out) = 1 THEN "ack" ELSE "close"]
    <2> DEFINE m == Head(main.out)
               p == CASE main.pc = "send" -> "asked"
                      [] main.pc = "discard" -> "done"
                      [] OTHER -> IF Len(main.out) = 1 THEN "ack" ELSE "close"
    <2>1. m \in Messages /\ Tail(main.out) \in Seq(Messages)
      BY <1>1
    <2>2. /\ main.pc = "send" => p = "asked"
          /\ main.pc = "discard" => p = "done"
          /\ main.pc = "close" /\ Len(main.out) = 1 => p = "ack"
          /\ main.pc = "close" /\ Len(main.out) # 1 => p = "close"
      OBVIOUS
    <2>3. p \in Places
      BY <1>1, <2>2 DEF Places
    <2>4. Sent' = Append(Sent, m) /\ Len(Sent') = Len(Sent) + 1 /\ Sent'[Len(Sent')] = m
      BY Zenon, <1>1, <1>6, <2>1, SentMore
    <2>5. main' = [main EXCEPT !.out = Tail(main.out), !.pc = p]
      BY <1>6
    <2> HIDE DEF p, m
    <2>6. main' \in MainStates
      <3>1. [main EXCEPT !.out = Tail(main.out)] \in MainStates
        BY Zenon, <1>1, <2>1, MainSets
      <3> QED  BY Zenon, <2>3, <2>5, <3>1, MainSets
    <2>7. /\ main'.pc = p /\ main'.mode = main.mode /\ main'.since = main.since /\ main'.out = Tail(main.out)
          /\ main'.ended = main.ended /\ main'.open = main.open /\ main'.hash = main.hash /\ main'.then = main.then
          /\ main'.written = main.written
      BY <1>1, <2>5 DEF MainStates
    <2>8. TypeOK'
      <3>1. chan' = Append(chan, m) /\ Len(chan) < Cap
        BY Zenon, <1>6 DEF m
      <3>2. chan' \in Seq(Messages) /\ Len(chan') <= Cap
        BY <1>1, <2>1, <3>1, Sizes DEF TypeOK
      <3> QED  BY <1>1, <2>6, <3>2 DEF TypeOK
    <2>9. /\ main.pc = "send" => m = R!RangeAt(Len(Sent)) /\ Len(Sent) <= R!Ranges
          /\ main.pc = "discard" => m = R!Discard
          /\ main.pc = "close" => \/ m = R!Close /\ Len(Sent) = R!Ranges + 1 /\ p = "ack"
                                  \/ /\ m = R!RangeAt(Len(Sent)) /\ Len(Sent) = R!Ranges /\ p = "close"
                                     /\ Tail(main.out) = <<R!Close>>
      <3>1. CASE main.pc = "send"
        BY <3>1 DEF Says, SinkSays, m
      <3>2. CASE main.pc = "discard"
        BY <3>2 DEF Says, SinkSays, m
      <3>3. CASE main.pc = "close"
        <4>1. \/ main.out = <<R!Close>> /\ Len(Sent) = R!Ranges + 1
              \/ main.out = <<R!RangeAt(Len(Sent)), R!Close>> /\ Len(Sent) = R!Ranges
          BY <3>3 DEF Says, SinkSays
        <4>2. ASSUME NEW a, NEW b
              PROVE  /\ Head(<<a>>) = a /\ Len(<<a>>) = 1
                     /\ Head(<<a, b>>) = a /\ Tail(<<a, b>>) = <<b>> /\ Len(<<a, b>>) # 1
          OBVIOUS
        <4>3. CASE main.out = <<R!Close>> /\ Len(Sent) = R!Ranges + 1
          BY Zenon, <2>2, <3>3, <4>2, <4>3 DEF m
        <4>4. CASE main.out = <<R!RangeAt(Len(Sent)), R!Close>> /\ Len(Sent) = R!Ranges
          BY ZenonT(90), <2>2, <3>3, <4>2, <4>4 DEF m
        <4> QED  BY Zenon, <3>3, <4>1, <4>3, <4>4
      <3> QED  BY Zenon, <1>1, <3>1, <3>2, <3>3
    <2>10. R!RangeAt(Len(Sent)).type = "range"
      BY DEF R!RangeAt, R!Range
    <2>11. m = R!RangeAt(Len(Sent)) => R!Open'
      BY <2>4, <2>10 DEF R!Open, Sent, R!Close, R!Discard
    <2>12. R!Next
      <3>1. CASE m = R!RangeAt(Len(Sent)) /\ Len(Sent) <= R!Ranges
        BY Zenon, <1>3, <2>4, <3>1 DEF R!SendRange, R!Next, Sent
      <3>2. CASE m = R!Close /\ Len(Sent) = R!Ranges + 1
        BY Zenon, <1>3, <2>4, <3>2 DEF R!SendClose, R!Next, Sent
      <3>3. CASE m = R!Discard
        BY Zenon, <1>3, <2>4, <3>3 DEF R!SendDiscard, R!Next, Sent
      <3>4. Len(Sent) = R!Ranges => Len(Sent) <= R!Ranges
        BY <1>3
      <3> QED  BY Zenon, <1>1, <2>9, <3>1, <3>2, <3>3, <3>4
    <2>13. p \in {"asked", "done", "ack", "close"}
      BY <1>1, <2>2
    <2>14. BuffersSay'
      <3>1. /\ main.pc = "send" => p = "asked"
            /\ main.pc # "send" => p \in {"done", "ack", "close"}
        BY <1>1, <2>2
      <3> QED  BY <1>1, <2>7, <3>1 DEF Says, BuffersSay, Gone
    <2>15. SinkSays'
      <3>1. CASE main.pc = "send"
        <4>1. /\ HashSays(main.hash, Len(Sent)) /\ Until(main.hash) = main.written
              /\ main.then = "carry" => main.mode = "pending" /\ main.written <= Start + Carry
          BY <3>1 DEF Says, SinkSays, BuffersSay
        <4>2. Len(Sent') - 1 = Len(Sent) /\ Len(Sent') > 0
          BY <1>3, <2>4
        <4>3. R!Open' /\ main'.pc = "asked"
          BY <2>2, <2>7, <2>9, <2>11, <3>1
        <4> HIDE DEF Says
        <4> QED  BY <2>7, <4>1, <4>2, <4>3 DEF SinkSays
      <3>2. CASE p \in {"done", "ack"}
        <4>1. Len(Sent') > 0
          BY <1>3, <2>4
        <4> HIDE DEF Says
        <4> QED  BY <2>7, <3>2, <4>1 DEF SinkSays
      <3>3. CASE main.pc = "close" /\ p = "close"
        <4>1. m = R!RangeAt(Len(Sent)) /\ Len(Sent) = R!Ranges /\ Tail(main.out) = <<R!Close>>
          BY <2>9, <3>3
        <4>2. Len(Sent') = R!Ranges + 1 /\ Len(Sent') > 0
          BY <1>3, <2>4, <4>1
        <4>3. main'.out = <<R!Close>> /\ R!Open' /\ main'.pc = "close"
          BY Zenon, <2>7, <2>11, <3>3, <4>1
        <4> HIDE DEF Says
        <4> QED  BY Zenon, <4>2, <4>3 DEF SinkSays
      <3> QED  BY <1>1, <2>2, <2>13, <3>1, <3>2, <3>3
    <2>16. WorkSays'
      <3>1. work.pc \in {"none", "ended"} /\ main'.pc # "finish"
        BY <1>1, <2>7, <2>13 DEF Says, BuffersSay, Gone
      <3> QED  BY <1>1, <2>7, <3>1 DEF Says, WorkSays
    <2>17. PoolConserved' /\ StopsWithinOne'
      BY <1>1, <2>7, <2>13 DEF Says, PoolConserved, StopsWithinOne
    <2> QED  BY Zenon, <2>8, <2>12, <2>14, <2>15, <2>16, <2>17 DEF Good, Says
  <1> QED  BY Zenon, <1>1, <1>4, <1>5, <1>6 DEF SendNext

\* The log's fault asked for behind a chunk.
LEMMA AskLogKeeps == ASSUME Says, AskLog PROVE Good
  <1>1. /\ main \in MainStates /\ main.pc = "asked" /\ main.then \in {"carry", "read"}
        /\ UNCHANGED <<work, jobs, free, chan, log, wal, faults>> /\ wal \in LogStates /\ faults \in Nat
    BY MainTypes DEF Says, TypeOK, AskLog
  <1>2. main.mode # "worker" /\ main.ended = FALSE
    BY <1>1, MainTypes DEF Says, BuffersSay
  <1>3. Sent' = Sent
    BY <1>1 DEF Sent
  <1>4. CASE main' = Fails(main)
    BY Zenon, <1>1, <1>2, <1>4, FailStep
  <1>5. CASE main' = [main EXCEPT !.pc = main.then]
    <2>1. main.then \in Places
      BY <1>1 DEF Places
    <2>2. main' \in MainStates
      BY Zenon, <1>1, <1>5, <2>1, MainSets
    <2>3. /\ main'.pc = main.then /\ main'.written = main.written /\ main'.mode = main.mode /\ main'.hash = main.hash
          /\ main'.ended = main.ended /\ main'.open = main.open /\ main'.since = main.since /\ main'.then = main.then
      BY <1>1, <1>5 DEF MainStates
    <2>4. TypeOK'
      BY <1>1, <2>2 DEF Says, TypeOK
    <2>5. BuffersSay'
      BY <1>1, <1>2, <2>3 DEF Says, BuffersSay, Gone
    <2>6. SinkSays'
      BY <1>1, <1>2, <1>3, <2>3, OpenSame DEF Says, SinkSays
    <2>7. WorkSays'
      BY <1>1, <1>2, <1>3, <2>3 DEF Says, WorkSays, BuffersSay
    <2>8. PoolConserved' /\ StopsWithinOne'
      BY <1>1, <1>2, <2>3 DEF Says, PoolConserved, StopsWithinOne
    <2> QED  BY <1>3, <2>4, <2>5, <2>6, <2>7, <2>8 DEF Good, Says
  <1> QED  BY Zenon, <1>4, <1>5 DEF AskLog

\* The ends of a file: a worker dropped and joined, and the answer to Close.
LEMMA EndKeeps == ASSUME Says, DropWorker \/ CloseAnswered PROVE Good
  <1>1. /\ main \in MainStates /\ main.pc \in {"drop", "ack"} /\ wal \in LogStates
        /\ UNCHANGED <<work, jobs, free, chan, log, wal, faults>>
    BY DEF Says, TypeOK, DropWorker, CloseAnswered
  <1>2. Gone /\ main.ended = TRUE /\ main.open = FALSE
    BY <1>1, MainTypes DEF Says, BuffersSay, DropWorker, CloseAnswered
  <1>3. "done" \in Places /\ (wal.acked /\ ~wal.fault) \in BOOLEAN
    BY DEF Places
  <1>4. [main EXCEPT !.pc = "done"] \in MainStates
    BY Zenon, <1>1, <1>3, MainSets
  <1>5. main' \in MainStates
    BY Zenon, <1>3, <1>4, MainSets DEF DropWorker, CloseAnswered
  <1>6. /\ main'.pc = "done" /\ main'.mode = main.mode /\ main'.since = main.since
        /\ main'.ended = main.ended /\ main'.open = main.open
    <2>1. main' = [main EXCEPT !.pc = "done"] \/ \E v \in BOOLEAN : main' = [main EXCEPT !.pc = "done", !.ok = v]
      BY Zenon, <1>3 DEF DropWorker, CloseAnswered
    <2>2. main \in MainStates
      BY <1>1
    <2>3. CASE main' = [main EXCEPT !.pc = "done"]
      BY <2>2, <2>3 DEF MainStates
    <2>4. ASSUME NEW v \in BOOLEAN, main' = [main EXCEPT !.pc = "done", !.ok = v]
          PROVE  /\ main'.pc = "done" /\ main'.mode = main.mode /\ main'.since = main.since
                 /\ main'.ended = main.ended /\ main'.open = main.open
      BY <2>2, <2>4 DEF MainStates
    <2> QED  BY Zenon, <2>1, <2>3, <2>4
  <1>7. Sent' = Sent
    BY <1>1 DEF Sent
  <1>8. TypeOK'
    BY <1>1, <1>5 DEF Says, TypeOK
  <1>9. BuffersSay'
    BY <1>1, <1>2, <1>6 DEF Says, BuffersSay, Gone
  <1>10. SinkSays'
    BY <1>6, <1>7 DEF Says, SinkSays
  <1>11. WorkSays'
    BY <1>1, <1>2, <1>6, <1>7 DEF Says, WorkSays
  <1>12. PoolConserved' /\ StopsWithinOne'
    BY <1>1, <1>6 DEF Says, PoolConserved, StopsWithinOne
  <1> QED  BY <1>7, <1>8, <1>9, <1>10, <1>11, <1>12 DEF Good, Says

\* An abort tells the worker to stop and closes its queue ...
LEMMA AbortKeeps == ASSUME Says, Abort PROVE Good
  <1>1. /\ main \in MainStates /\ work \in WorkStates /\ main.pc = "abort" /\ UNCHANGED <<jobs, free, chan, log, wal, faults>>
    BY DEF Says, TypeOK, Abort
  <1>2. "join" \in Places /\ TRUE \in BOOLEAN /\ FALSE \in BOOLEAN
    BY DEF Places
  <1>3. main' \in MainStates /\ work' \in WorkStates
    <2>1. [main EXCEPT !.ended = TRUE] \in MainStates
      BY Zenon, <1>1, <1>2, MainSets
    <2>2. [main EXCEPT !.ended = TRUE, !.open = FALSE] \in MainStates
      BY Zenon, <1>2, <2>1, MainSets
    <2> QED  BY Zenon, <1>1, <1>2, <2>2, MainSets, WorkSets DEF Abort
  <1>4. /\ main'.pc = "join" /\ main'.mode = main.mode /\ main'.since = main.since
    BY <1>1 DEF MainStates, Abort
  <1>5. main'.ended = TRUE /\ main'.open = FALSE
    BY <1>1 DEF MainStates, Abort
  <1>6. work'.pc = work.pc /\ work'.hash = work.hash /\ work'.range = work.range /\ work'.result = work.result
    BY <1>1 DEF WorkStates, Abort
  <1>7. Sent' = Sent
    BY <1>1 DEF Sent
  <1>8. TypeOK'
    BY <1>1, <1>3 DEF Says, TypeOK
  <1>9. BuffersSay'
    BY <1>1, <1>4, <1>5, <1>6 DEF Says, BuffersSay, Gone
  <1>10. SinkSays'
    BY <1>1, <1>4, <1>7, OpenSame DEF Says, SinkSays
  <1>11. WorkSays'
    BY <1>1, <1>4, <1>5, <1>6, <1>7 DEF Says, WorkSays
  <1>12. PoolConserved' /\ StopsWithinOne'
    BY <1>1, <1>4 DEF Says, PoolConserved, StopsWithinOne
  <1> QED  BY <1>7, <1>8, <1>9, <1>10, <1>11, <1>12 DEF Good, Says

\* ... and waits for it.
LEMMA JoinWorkerKeeps == ASSUME Says, JoinWorker PROVE Good
  <1>1. /\ main \in MainStates /\ main.pc = "join" /\ Gone /\ UNCHANGED <<work, jobs, free, chan, log, wal, faults>>
    BY DEF Says, TypeOK, JoinWorker
  <1>2. "discard" \in Places /\ <<R!Discard>> \in Seq(Messages)
    BY DEF Places, Messages
  <1>3. main' \in MainStates
    <2>1. [main EXCEPT !.pc = "discard"] \in MainStates
      BY Zenon, <1>1, <1>2, MainSets
    <2> QED  BY Zenon, <1>2, <2>1, MainSets DEF JoinWorker
  <1>4. /\ main'.pc = "discard" /\ main'.mode = main.mode /\ main'.since = main.since
        /\ main'.ended = main.ended /\ main'.open = main.open /\ main'.out = <<R!Discard>>
    BY <1>1 DEF MainStates, JoinWorker
  <1>5. Sent' = Sent
    BY <1>1 DEF Sent
  <1>6. TypeOK'
    BY <1>1, <1>3 DEF Says, TypeOK
  <1>7. BuffersSay'
    BY <1>1, <1>4 DEF Says, BuffersSay, Gone
  <1>8. SinkSays'
    BY <1>1, <1>4, <1>5, OpenSame DEF Says, SinkSays
  <1>9. WorkSays'
    BY Zenon, <1>1, <1>4, <1>5 DEF Says, WorkSays
  <1>10. PoolConserved' /\ StopsWithinOne'
    BY <1>1, <1>4 DEF Says, PoolConserved, StopsWithinOne
  <1> QED  BY <1>5, <1>6, <1>7, <1>8, <1>9, <1>10 DEF Good, Says

\* A failing beat: the file fails, unless the worker or the discard is waited for.
LEMMA BeatFailsKeeps == ASSUME Says, BeatFails PROVE Good
  <1>1. /\ main \in MainStates /\ work \in WorkStates /\ wal \in LogStates /\ UNCHANGED <<jobs, free, chan, log>>
        /\ main.pc \in {"free", "read", "send", "close", "discard", "finish", "ack", "join"}
        /\ faults' \in Nat
    BY DEF Says, TypeOK, BeatFails
  <1>2. wal' \in LogStates /\ wal'.fault = wal.fault
    <2>1. wal' = [wal EXCEPT !.abandoned = TRUE]
      BY DEF BeatFails
    <2>2. wal \in LogStates
      BY <1>1
    <2>3. ASSUME NEW v \in BOOLEAN
          PROVE  [wal EXCEPT !.abandoned = v] \in LogStates /\ [wal EXCEPT !.abandoned = v].fault = wal.fault
      BY <2>2 DEF LogStates
    <2> QED  BY Zenon, <2>1, <2>3
  <1>3. Sent' = Sent
    BY <1>1 DEF Sent
  <1> DEFINE c == CASE main.pc = "finish"              -> [main EXCEPT !.pc = "drop"]
                    [] main.pc \in {"join", "discard"} -> main
                    [] OTHER                           -> Fails(main)
  <1>c. main' = [c EXCEPT !.lost = TRUE] /\ work' = IF main.pc = "finish" THEN [work EXCEPT !.cancel = TRUE] ELSE work
    BY Zenon DEF BeatFails
  <1>4. CASE main.pc \in {"free", "read", "send", "close", "ack"}
    <2>1. main' = [Fails(main) EXCEPT !.lost = TRUE] /\ UNCHANGED work
      <3>1. c = Fails(main) /\ main.pc # "finish"
        BY <1>4
      <3> HIDE DEF c
      <3> QED  BY Zenon, <1>c, <3>1
    <2>2. main.ended => Gone
      BY <1>4 DEF Says, BuffersSay
    <2> QED  BY Zenon, <1>1, <1>2, <2>1, <2>2, FailStep
  <1>5. CASE main.pc \in {"finish", "discard", "join"}
    <2>1. TRUE \in BOOLEAN /\ "drop" \in Places
      BY DEF Places
    <2>2. /\ main.pc = "finish" =>
               main' = [main EXCEPT !.pc = "drop", !.lost = TRUE] /\ work' = [work EXCEPT !.cancel = TRUE]
          /\ main.pc # "finish" => main' = [main EXCEPT !.lost = TRUE] /\ UNCHANGED work
      <3>1. /\ main.pc = "finish" => c = [main EXCEPT !.pc = "drop"]
            /\ main.pc # "finish" => c = main
        BY <1>5
      <3> HIDE DEF c
      <3> QED  BY Zenon, <1>c, <3>1
    <2>3. main' \in MainStates /\ work' \in WorkStates
      <3>1. [main EXCEPT !.pc = "drop"] \in MainStates
        BY Zenon, <1>1, <2>1, MainSets
      <3> QED  BY Zenon, <1>1, <2>1, <2>2, <3>1, MainSets, WorkSets
    <2>4. /\ main'.pc = (IF main.pc = "finish" THEN "drop" ELSE main.pc)
          /\ main'.mode = main.mode /\ main'.since = main.since
          /\ main'.ended = main.ended /\ main'.open = main.open /\ main'.out = main.out
      <3>1. main \in MainStates
        BY <1>1
      <3>2. CASE main.pc = "finish"
        <4>1. main' = [main EXCEPT !.pc = "drop", !.lost = TRUE]
          BY <2>2, <3>2
        <4> QED  BY <3>1, <3>2, <4>1 DEF MainStates
      <3>3. CASE main.pc # "finish"
        <4>1. main' = [main EXCEPT !.lost = TRUE]
          BY <2>2, <3>3
        <4> QED  BY <3>1, <3>3, <4>1 DEF MainStates
      <3> QED  BY <3>2, <3>3
    <2>5. work'.pc = work.pc /\ work'.hash = work.hash /\ work'.range = work.range /\ work'.result = work.result
      BY <1>1, <2>2 DEF WorkStates
    <2>6. TypeOK'
      BY <1>1, <1>2, <2>3 DEF Says, TypeOK
    <2>7. BuffersSay'
      BY <1>1, <1>2, <1>5, <2>4, <2>5 DEF Says, BuffersSay, Gone
    <2>8. SinkSays'
      BY <1>3, <1>5, <2>4, OpenSame DEF Says, SinkSays
    <2>9. WorkSays'
      BY <1>1, <1>3, <1>5, <2>4, <2>5 DEF Says, WorkSays
    <2>10. PoolConserved' /\ StopsWithinOne'
      BY <1>1, <1>5, <2>4 DEF Says, PoolConserved, StopsWithinOne
    <2> QED  BY <1>3, <2>6, <2>7, <2>8, <2>9, <2>10 DEF Good, Says
  <1> QED  BY <1>1, <1>4, <1>5

----------------------------------------------------------------------------
(* The theorems. *)

\* A step that changes nothing.
LEMMA StutterKeeps == ASSUME Says, UNCHANGED vars PROVE Good
  <1>1. Sent' = Sent /\ UNCHANGED main
    BY DEF vars, Sent
  <1>2. TypeOK'
    BY DEF Says, TypeOK, vars
  <1>3. BuffersSay'
    BY DEF Says, BuffersSay, Gone, vars
  <1>4. SinkSays'
    BY Zenon, <1>1, SinkSame DEF Says
  <1>5. WorkSays'
    BY <1>1 DEF Says, WorkSays, vars
  <1>6. PoolConserved' /\ StopsWithinOne'
    BY DEF Says, PoolConserved, StopsWithinOne, vars
  <1> QED  BY <1>1, <1>2, <1>3, <1>4, <1>5, <1>6 DEF Good, Says

\* Every step keeps what is said, and sends what is promised.
LEMMA StepGood == ASSUME Says, [Next]_vars PROVE Good
  <1>1. CASE Main
    BY Zenon, <1>1, FeedCarryKeeps, ReadBufferKeeps, SubmitKeeps, QueueJobKeeps, TakeFreeKeeps, SendNextKeeps,
       AskLogKeeps, FinishWorkerKeeps, EndKeeps, AbortKeeps, JoinWorkerKeeps DEF Main
  <1>2. CASE Work
    BY Zenon, <1>2, CheckCancelKeeps, HashJobKeeps, EndOfJobsKeeps, CheckSendKeeps, TrySendKeeps, AskFaultKeeps,
       RecordFaultKeeps, SendFaultKeeps DEF Work
  <1>3. CASE LogReceive \/ LogFails \/ BeatFails
    BY Zenon, <1>3, LogKeeps, BeatFailsKeeps
  <1>4. CASE UNCHANGED vars
    BY Zenon, <1>4, StutterKeeps
  <1> QED  BY Zenon, <1>1, <1>2, <1>3, <1>4 DEF Next, Done

\* The file begins with its FileBegin sent and its prefix hashed.
LEMMA InitSays == Init => Says /\ R!Init
  <1> SUFFICES ASSUME Init PROVE Says /\ R!Init
    OBVIOUS
  <1> DEFINE h == [chunk |-> <<>>, index |-> Start \div Chunk, digests |-> <<>>, start |-> Start]
  <1>1. /\ main.pc = "carry" /\ main.written = Start /\ main.mode = "pending" /\ main.hash = h /\ main.then = "carry"
        /\ main.since = 0 /\ work.pc = "none" /\ work.result = "none" /\ jobs = <<>> /\ free = 0
        /\ chan = <<R!Begin>> /\ log = <<>>
    BY DEF Init
  <1>2. main.ended = FALSE /\ main.open = FALSE
    BY DEF Init
  <1>3. h.chunk = <<>> /\ h.digests = <<>> /\ h.index = Start \div Chunk /\ h.start = Start
    OBVIOUS
  <1>4. Start \in Nat /\ Chunk \in Nat /\ Chunk > 0 /\ Start \div Chunk \in Nat /\ (Start \div Chunk) * Chunk = Start
    <2>1. PICK k \in Nat : Start = k * Chunk
      BY StartOnChunk
    <2>2. Start \div Chunk = k
      BY <2>1, WholeDiv, Sizes
    <2> QED  BY <2>1, <2>2, Sizes
  <1>5. Sent = <<R!Begin>> /\ Len(Sent) = 1 /\ Sent[1] = R!Begin
    BY <1>1 DEF Sent
  <1>6. HashSays(h, 0)
    <2>1. 0 * R!Span = 0 /\ 0 * Chunk = 0
      BY Sizes
    <2> HIDE DEF h
    <2>2. Len(h.chunk) = 0 /\ Len(h.digests) = 0
      BY <1>3
    <2>3. h.start = Start + 0 * R!Span /\ h.index * Chunk = h.start + Len(h.digests) * Chunk
      BY <1>3, <1>4, <2>1, <2>2
    <2>4. 1 .. 0 = {}
      OBVIOUS
    <2>5. 0 < Chunk /\ 0 < RangeChunks /\ 0 \in Nat
      BY Sizes
    <2> QED  BY Zenon, <2>2, <2>3, <2>4, <2>5 DEF HashSays
  <1>7. Until(h) = Start
    <2> HIDE DEF h
    <2>1. Len(h.chunk) = 0 /\ h.index * Chunk = Start
      BY <1>3, <1>4
    <2> QED  BY <1>4, <2>1 DEF Until
  <1>8. h \in HashStates
    <2>1. <<>> \in Seq(Nat) /\ <<>> \in Seq(Seq(Nat))
      OBVIOUS
    <2> QED  BY <1>4, <2>1 DEF HashStates
  <1> HIDE DEF h
  <1>9. TypeOK
    <2>1. main \in MainStates
      <3>1. Start \in Start .. Units /\ <<>> \in Seq(Messages)
        BY Sizes
      <3>2. main = [pc |-> "carry", written |-> Start, mode |-> "pending", hash |-> h,
                    out |-> <<>>, ended |-> FALSE, open |-> FALSE, lost |-> FALSE, ok |-> FALSE, then |-> "carry",
                    since |-> 0]
        BY Zenon DEF Init, h
      <3> QED  BY <1>8, <3>1, <3>2 DEF MainStates
    <2>2. work \in WorkStates
      <3>1. NoHash \in HashStates /\ <<>> \in Seq(Messages)
        BY DEF NoHash, HashStates
      <3>2. work = [pc |-> "none", hash |-> NoHash, range |-> <<>>, cancel |-> FALSE, faulted |-> FALSE, result |-> "none"]
        BY Zenon DEF Init
      <3> QED  BY <3>1, <3>2 DEF WorkStates
    <2>3. wal \in LogStates /\ faults \in Nat
      BY WorkerConstants DEF Init, LogStates
    <2>4. chan \in Seq(Messages) /\ log \in Seq(Messages) /\ Len(chan) <= Cap
      <3>1. R!Begin \in Messages
        BY DEF Messages
      <3>2. Len(<<R!Begin>>) = 1
        OBVIOUS
      <3> QED  BY <1>1, <3>1, <3>2, Sizes
    <2>5. jobs \in Seq(1 .. Units) /\ Len(jobs) <= Pool /\ free \in 0 .. Pool
      BY <1>1, Sizes
    <2> QED  BY <2>1, <2>2, <2>3, <2>4, <2>5 DEF TypeOK
  <1>10. BuffersSay
    BY <1>1, <1>2 DEF BuffersSay, Gone
  <1>11. R!Open
    BY <1>1, <1>5 DEF R!Open, Sent, R!Begin, R!Close, R!Discard
  <1>12. SinkSays
    <2>1. HashSays(main.hash, IF main.pc = "send" THEN Len(Sent) ELSE Len(Sent) - 1)
      BY <1>1, <1>5, <1>6
    <2>2. Until(main.hash) = main.written
      BY <1>1, <1>7
    <2>3. main.written <= Start + Carry
      BY <1>1, Sizes
    <2> QED  BY <1>1, <1>5, <1>11, <2>1, <2>2, <2>3 DEF SinkSays
  <1>13. WorkSays
    BY <1>1 DEF WorkSays
  <1>14. PoolConserved /\ StopsWithinOne
    BY <1>1 DEF PoolConserved, StopsWithinOne
  <1>15. R!Init
    BY <1>1, <1>5 DEF R!Init, Sent
  <1> QED  BY <1>9, <1>10, <1>12, <1>13, <1>14, <1>15 DEF Says

\* The worker, the sink and the log for every size of the file and of its
\* queues: the pool is never overdrawn, the jobs are the units that follow what
\* is hashed, nothing of the worker outlives the file, and a log fault lets at
\* most one more buffer through.
THEOREM WorkerIsSafe == Spec => []WorkerInv
  <1>1. Init => Says
    BY InitSays
  <1>2. Says /\ [Next]_vars => Says'
    BY StepGood DEF Good
  <1>3. Says => WorkerInv
    BY Zenon DEF Says, WorkerInv, WorkerJoined, BuffersSay
  <1> QED  BY <1>1, <1>2, <1>3, PTL DEF Spec

\* The messages of a file, sent by the copy or by its worker, are those
\* FileRecords promises.
THEOREM SinkRefines == Spec => SinkKeepsPromise
  <1>1. Init => Says /\ R!Init
    BY InitSays
  <1>2. Says /\ [Next]_vars => Says'
    BY StepGood DEF Good
  <1>3. Says /\ [Next]_vars => [R!Next]_(log \o chan)
    BY SMTT(60), StepGood DEF Good, Sent
  <1> QED  BY <1>1, <1>2, <1>3, PTL DEF Spec, SinkKeepsPromise, R!Spec
=============================================================================
