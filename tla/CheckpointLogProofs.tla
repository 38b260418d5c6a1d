------------------------ MODULE CheckpointLogProofs ------------------------
(***************************************************************************)
(* Proofs about the write-ahead log and the copy that feeds it, for every  *)
(* set of files, length, size of chunk and range, bound, durability and    *)
(* way to verify a resume: what is published is what was read, data is     *)
(* durable before its checkpoint, and what was synced scans.               *)
(***************************************************************************)
EXTENDS CheckpointLog, WellFoundedInduction, TLAPS

----------------------------------------------------------------------------
(* Numbers. *)

\* Two sequences with the same members in the same places are one.
LEMMA SameSeq ==
    ASSUME NEW S, NEW s \in Seq(S), NEW t \in Seq(S), Len(s) = Len(t), \A i \in 1 .. Len(s) : s[i] = t[i]
    PROVE  s = t
  OBVIOUS

\* A member of a sequence.
LEMMA MemberOf ==
    ASSUME NEW S, NEW s \in Seq(S), NEW n \in 1 .. Len(s)
    PROVE  s[n] \in S
  OBVIOUS

\* A set of numbers has a least one.
LEMMA LeastOf ==
    ASSUME NEW T \in SUBSET Nat, T # {}
    PROVE  \E m \in T : \A k \in T : m <= k
  <1>1. \E x \in T : \A y \in T : ~(<<y, x>> \in OpToRel(<, Nat))
    BY NatLessThanWellFounded, WFMin, Zenon
  <1>2. \A x, y \in Nat : x < y => <<x, y>> \in OpToRel(<, Nat)
    BY DEF OpToRel
  <1>3. PICK x \in T : \A y \in T : ~(<<y, x>> \in OpToRel(<, Nat))
    BY <1>1, Zenon
  <1>4. \A y \in T : y \in Nat /\ x \in Nat /\ ~(y < x)
    BY <1>2, <1>3, Zenon
  <1>5. \A y \in T : x <= y
    BY <1>4
  <1> QED  BY <1>3, <1>5, Zenon

\* A loop over 0 .. N that leaves at the members of T, N among them, leaves at a first one.
LEMMA FirstStop ==
    ASSUME NEW N \in Nat, NEW T \in SUBSET (0 .. N), N \in T
    PROVE  \E k \in 0 .. N : k \in T /\ \A j \in 0 .. k - 1 : j \notin T
  <1>1. T \in SUBSET Nat /\ T # {}
    OBVIOUS
  <1>2. PICK k \in T : \A j \in T : k <= j
    BY <1>1, LeastOf
  <1>3. k \in 0 .. N /\ \A j \in 0 .. k - 1 : j \notin T
    BY <1>2
  <1> QED  BY <1>2, <1>3

\* One more block.
LEMMA OneMore ==
    ASSUME NEW p \in Int, NEW b \in Int
    PROVE  (p + 1) * b = p * b + b
  OBVIOUS

\* A product of a sum.
LEMMA Distribute ==
    ASSUME NEW p \in Int, NEW q \in Int, NEW b \in Int
    PROVE  (p + q) * b = p * b + q * b
  OBVIOUS

\* More blocks are longer.
LEMMA TimesMonotone ==
    ASSUME NEW p \in Int, NEW q \in Int, NEW b \in Nat, p <= q
    PROVE  p * b <= q * b
  OBVIOUS

\* A number lies in one block.
LEMMA BlockOf ==
    ASSUME NEW a \in Nat, NEW b \in Nat, b > 0
    PROVE  \E q \in Nat, r \in 0 .. b - 1 : a = q * b + r
  <1>1. a = b * (a \div b) + (a % b) /\ a \div b \in Nat /\ a % b \in 0 .. b - 1
    OBVIOUS
  <1>2. b * (a \div b) = (a \div b) * b
    BY <1>1
  <1> QED  BY <1>1, <1>2, SMTT(60)

\* The quotient and the rest of whole blocks and some units.
LEMMA DivIs ==
    ASSUME NEW q \in Int, NEW r \in Int, NEW b \in Int, 0 <= r, r < b
    PROVE  (q * b + r) \div b = q /\ (q * b + r) % b = r
  OBVIOUS

\* Whole blocks leave no rest.
LEMMA WholeMod ==
    ASSUME NEW a \in Nat, NEW b \in Nat, b > 0
    PROVE  (a * b) % b = 0
  OBVIOUS

\* Division that rounds up, of n whole blocks and a rest.
LEMMA CeilDiv ==
    ASSUME NEW n \in Nat, NEW r \in Nat, NEW b \in Nat, r < b
    PROVE  (n * b + r + b - 1) \div b = IF r = 0 THEN n ELSE n + 1
  <1>1. CASE r = 0
    <2>1. n * b + r + b - 1 = n * b + (b - 1) /\ 0 <= b - 1 /\ b - 1 < b
      BY <1>1
    <2> QED  BY <1>1, <2>1, DivIs
  <1>2. CASE r > 0
    <2>1. n * b + r + b - 1 = (n + 1) * b + (r - 1) /\ 0 <= r - 1 /\ r - 1 < b
      BY <1>2
    <2> QED  BY <1>2, <2>1, DivIs
  <1> QED  BY <1>1, <1>2

\* Chunks is the number of chunks that cover a length, the last one perhaps short.
LEMMA ChunksCover ==
    ASSUME LogConstants, NEW len \in Nat
    PROVE  /\ Chunks(len) \in Nat /\ len <= Chunks(len) * Chunk
           /\ \A k \in Nat : k * Chunk < len <=> k < Chunks(len)
           /\ len % Chunk = 0 => len = Chunks(len) * Chunk
  <1>1. Chunk \in Nat /\ Chunk > 0
    BY DEF LogConstants
  <1>2. PICK q \in Nat, r \in 0 .. Chunk - 1 : len = q * Chunk + r
    BY <1>1, BlockOf, Zenon
  <1>3. Chunks(len) = IF r = 0 THEN q ELSE q + 1
    BY <1>1, <1>2, CeilDiv DEF Chunks
  <1>4. len % Chunk = r
    BY <1>1, <1>2, DivIs
  <1>5. (q + 1) * Chunk = q * Chunk + Chunk
    BY <1>1, OneMore
  <1>6. \A k \in Nat : k * Chunk < len <=> k < Chunks(len)
    <2>1. SUFFICES ASSUME NEW k \in Nat PROVE k * Chunk < len <=> k < Chunks(len)
      OBVIOUS
    <2>2. k <= q - 1 => k * Chunk <= (q - 1) * Chunk
      BY <1>1, TimesMonotone
    <2>3. (q - 1) * Chunk = q * Chunk - Chunk
      BY <1>1, OneMore
    <2>4. k >= q + 1 => k * Chunk >= (q + 1) * Chunk
      BY <1>1, TimesMonotone
    <2>5. k * Chunk \in Nat /\ q * Chunk \in Nat
      BY <1>1
    <2>6. k <= q - 1 \/ k = q \/ k >= q + 1
      OBVIOUS
    <2> QED  BY <1>1, <1>2, <1>3, <1>5, <2>2, <2>3, <2>4, <2>5, <2>6
  <1> QED  BY <1>1, <1>2, <1>3, <1>4, <1>5, <1>6

----------------------------------------------------------------------------
(* Sequences. *)

\* The elements of a sequence have its type.
LEMMA RangeIn ==
    ASSUME NEW S, NEW s \in Seq(S)
    PROVE  Range(s) \subseteq S
  BY DEF Range

\* The elements of the sequences the copy and the writer build.
LEMMA RangeEmpty ==
    Range(<<>>) = {}
  BY DEF Range

\* A sequence of one.
LEMMA RangeOne ==
    ASSUME NEW e
    PROVE  Range(<<e>>) = {e}
  <1>1. DOMAIN <<e>> = {1} /\ <<e>>[1] = e
    OBVIOUS
  <1> QED  BY <1>1 DEF Range

\* One member more.
LEMMA RangeAppend ==
    ASSUME NEW S, NEW s \in Seq(S), NEW e \in S
    PROVE  Range(Append(s, e)) = Range(s) \cup {e}
  <1>1. /\ DOMAIN s = 1 .. Len(s) /\ Len(s) \in Nat /\ DOMAIN Append(s, e) = 1 .. Len(s) + 1
        /\ \A i \in 1 .. Len(s) : Append(s, e)[i] = s[i]
        /\ Append(s, e)[Len(s) + 1] = e
    OBVIOUS
  <1>2. ASSUME NEW x \in Range(Append(s, e)) PROVE x \in Range(s) \cup {e}
    BY <1>1 DEF Range
  <1>3. ASSUME NEW x \in Range(s) \cup {e} PROVE x \in Range(Append(s, e))
    BY <1>1 DEF Range
  <1> QED  BY <1>2, <1>3

\* All members but the first.
LEMMA RangeTail ==
    ASSUME NEW S, NEW s \in Seq(S), s # <<>>
    PROVE  Head(s) \in Range(s) /\ Range(Tail(s)) \subseteq Range(s)
  BY DEF Range

\* The members of two sequences in a row.
LEMMA RangeConcat ==
    ASSUME NEW S, NEW s \in Seq(S), NEW t \in Seq(S)
    PROVE  Range(s \o t) = Range(s) \cup Range(t)
  <1>1. /\ DOMAIN s = 1 .. Len(s) /\ Len(s) \in Nat /\ DOMAIN t = 1 .. Len(t) /\ Len(t) \in Nat
        /\ DOMAIN (s \o t) = 1 .. Len(s) + Len(t)
        /\ \A i \in 1 .. Len(s) : (s \o t)[i] = s[i]
        /\ \A i \in 1 .. Len(t) : (s \o t)[Len(s) + i] = t[i]
    OBVIOUS
  <1>2. ASSUME NEW x \in Range(s \o t) PROVE x \in Range(s) \cup Range(t)
    <2>1. PICK i \in 1 .. Len(s) + Len(t) : x = (s \o t)[i]
      BY <1>1 DEF Range
    <2>2. CASE i <= Len(s)
      BY <1>1, <2>1, <2>2 DEF Range
    <2>3. CASE i > Len(s)
      <3>1. i - Len(s) \in 1 .. Len(t) /\ Len(s) + (i - Len(s)) = i
        BY <1>1, <2>3
      <3> QED  BY <1>1, <2>1, <3>1 DEF Range
    <2> QED  BY <1>1, <2>2, <2>3
  <1>3. ASSUME NEW x \in Range(s) PROVE x \in Range(s \o t)
    BY <1>1 DEF Range
  <1>4. ASSUME NEW x \in Range(t) PROVE x \in Range(s \o t)
    <2>1. PICK i \in 1 .. Len(t) : x = t[i]
      BY <1>1 DEF Range
    <2>2. Len(s) + i \in 1 .. Len(s) + Len(t)
      BY <1>1
    <2> QED  BY <1>1, <2>1, <2>2, Zenon DEF Range
  <1> QED  BY <1>2, <1>3, <1>4

\* The members of a prefix.
LEMMA RangePrefix ==
    ASSUME NEW S, NEW s \in Seq(S), NEW n \in 0 .. Len(s)
    PROVE  Range(SubSeq(s, 1, n)) \subseteq Range(s)
  BY DEF Range

\* A sequence of numbers between two places of a source.
LEMMA SliceType ==
    ASSUME NEW a \in Seq(Nat), NEW m \in Nat \ {0}, NEW n \in Nat, n <= Len(a)
    PROVE  /\ SubSeq(a, m, n) \in Seq(Nat)
           /\ Len(SubSeq(a, m, n)) = IF m <= n THEN n - m + 1 ELSE 0
           /\ \A i \in m .. n : SubSeq(a, m, n)[i - m + 1] = a[i]
  <1>1. \A i \in m .. n : a[i] \in Nat
    OBVIOUS
  <1>2. \A i \in m .. n : i - m + 1 \in 1 .. n - m + 1 /\ m + (i - m + 1) - 1 = i
    OBVIOUS
  <1>3. m \in Int /\ n \in Int
    OBVIOUS
  <1>4. /\ SubSeq(a, m, n) \in Seq(Nat)
        /\ Len(SubSeq(a, m, n)) = IF m <= n THEN n - m + 1 ELSE 0
        /\ \A i \in 1 .. n - m + 1 : SubSeq(a, m, n)[i] = a[m + i - 1]
    BY <1>1, <1>3
  <1> QED  BY <1>2, <1>4, SMTT(60)

\* What the resume decision promises: the units it keeps are in the partial and in the source, and are the same.  It
\* keeps whole chunks, or the whole source and then has read nothing past it.
Promised(v, s, p) ==
    /\ v.keep \in Nat /\ v.carry \in Seq(Nat)
    /\ v.keep <= Len(s.data)
    /\ v.keep # 0 => /\ p # None /\ v.keep <= Len(p.data)
                     /\ SubSeq(p.data, 1, v.keep) = SubSeq(s.data, 1, v.keep)
    /\ v.keep % Chunk = 0 \/ (v.keep = Len(s.data) /\ v.carry = <<>>)

Sources == [data : Seq(Nat), stamp : Nat]

\* plan_resume keeps what it promises.
LEMMA PlanPromised ==
    ASSUME LogConstants, FilesTyped, NEW f \in Files
    PROVE  Promised(IF run.log THEN PlanResume(run.cells, f) ELSE Fresh, src[f], part[f])
  \* Equal chunk for chunk is equal.
  <1>SameBlocks. ASSUME NEW a \in Seq(Nat), NEW b \in Seq(Nat), NEW n \in Nat, NEW len \in Nat,
                        len <= Len(a), len <= Len(b), len <= n * Chunk,
                        \A k \in 0 .. n - 1 : \A i \in k * Chunk + 1 .. MinOf((k + 1) * Chunk, len) : a[i] = b[i]
                 PROVE  SubSeq(a, 1, len) = SubSeq(b, 1, len)
    <2> USE <1>SameBlocks
    <2>1. Chunk \in Nat /\ Chunk > 0
      BY DEF LogConstants
    <2>2. ASSUME NEW i \in 1 .. len PROVE a[i] = b[i]
      <3>0. i - 1 \in Nat
        OBVIOUS
      <3>1. PICK k \in Nat, r \in 0 .. Chunk - 1 : i - 1 = k * Chunk + r
        BY <2>1, <3>0, BlockOf, Zenon
      <3>2. (k + 1) * Chunk = k * Chunk + Chunk
        BY <2>1, OneMore
      <3>3. k >= n => k * Chunk >= n * Chunk
        BY <2>1, TimesMonotone
      <3>4. k * Chunk \in Nat /\ n * Chunk \in Nat
        BY <2>1
      <3>5. k \in 0 .. n - 1
        <4>1. PICK x \in Nat, y \in Nat : x = k * Chunk /\ y = n * Chunk
          BY <3>4, Zenon
        <4>2. len <= y /\ i - 1 = x + r /\ (k >= n => x >= y)
          BY <3>1, <3>3, <4>1, Zenon
        <4>3. r \in Nat /\ i <= len
          OBVIOUS
        <4>4. ~(k >= n)
          BY <4>2, <4>3
        <4> QED  BY <4>4
      <3>6. i \in k * Chunk + 1 .. MinOf((k + 1) * Chunk, len)
        BY <2>1, <3>1, <3>2, <3>4 DEF MinOf
      <3> QED  BY <3>5, <3>6
    <2>3. /\ SubSeq(a, 1, len) \in Seq(Nat) /\ Len(SubSeq(a, 1, len)) = len
          /\ \A i \in 1 .. len : SubSeq(a, 1, len)[i] = a[i]
      OBVIOUS
    <2>4. /\ SubSeq(b, 1, len) \in Seq(Nat) /\ Len(SubSeq(b, 1, len)) = len
          /\ \A i \in 1 .. len : SubSeq(b, 1, len)[i] = b[i]
      OBVIOUS
    <2> QED  BY <2>2, <2>3, <2>4, SameSeq
  \* The chunks two sides share, one after the other, are a prefix they share.
  <1>KeptPrefix. ASSUME NEW a \in Seq(Nat), NEW b \in Seq(Nat), NEW stop \in Nat,
                        \A j \in 0 .. stop - 1 :
                           /\ j * Chunk < Len(a) /\ Len(b) >= MinOf((j + 1) * Chunk, Len(a))
                           /\ SubSeq(b, j * Chunk + 1, MinOf((j + 1) * Chunk, Len(a))) = DigestOf(a, j)
                 PROVE  /\ MinOf(stop * Chunk, Len(a)) \in Nat
                        /\ MinOf(stop * Chunk, Len(a)) <= Len(a) /\ MinOf(stop * Chunk, Len(a)) <= Len(b)
                        /\ SubSeq(b, 1, MinOf(stop * Chunk, Len(a))) = SubSeq(a, 1, MinOf(stop * Chunk, Len(a)))
    <2> USE <1>KeptPrefix
    <2> DEFINE len == MinOf(stop * Chunk, Len(a))
    <2>1. Chunk \in Nat /\ Chunk > 0 /\ Len(a) \in Nat /\ Len(b) \in Nat /\ stop * Chunk \in Nat
      BY DEF LogConstants
    <2>2. len \in Nat /\ len <= Len(a) /\ len <= stop * Chunk
      BY <2>1 DEF MinOf
    <2>3. len <= Len(b)
      <3>1. CASE stop = 0
        <4>1. stop * Chunk = 0
          BY <3>1, <2>1
        <4> QED  BY <2>1, <4>1 DEF MinOf
      <3>2. CASE stop > 0
        <4>1. stop - 1 \in 0 .. stop - 1 /\ stop - 1 + 1 = stop
          BY <3>2
        <4> QED  BY <4>1, SMTT(60)
      <3> QED  BY <3>1, <3>2
    <2> HIDE DEF len
    <2>4. ASSUME NEW k \in 0 .. stop - 1, NEW i \in k * Chunk + 1 .. MinOf((k + 1) * Chunk, len)
          PROVE  b[i] = a[i]
      <3>0. k \in Nat /\ k * Chunk \in Nat
        BY <2>1
      <3>1. PICK m \in Nat \ {0} : m = k * Chunk + 1
        BY <3>0
      <3>2. PICK q \in Nat : q = (k + 1) * Chunk
        BY <2>1
      <3>3. PICK to \in Nat : to = MinOf(q, Len(a))
        BY <2>1 DEF MinOf
      <3>4. i \in m .. MinOf(q, len)
        BY <3>1, <3>2
      <3>5. i \in m .. to /\ to <= Len(a)
        BY <2>1, <2>2, <3>3, <3>4 DEF MinOf
      <3>6. Len(b) >= to /\ SubSeq(b, m, to) = SubSeq(a, m, to)
        BY <3>1, <3>2, <3>3, Zenon DEF DigestOf
      <3>7. SubSeq(a, m, to)[i - m + 1] = a[i]
        BY <3>5, SliceType
      <3>8. to <= Len(b)
        BY <2>1, <3>6
      <3>9. SubSeq(b, m, to)[i - m + 1] = b[i]
        BY <3>5, <3>8, SliceType
      <3> QED  BY <3>6, <3>7, <3>9, Zenon
    <2>5. SubSeq(b, 1, len) = SubSeq(a, 1, len)
      BY <2>1, <2>2, <2>3, <2>4, <1>SameBlocks, ZenonT(60)
    <2> QED  BY <2>2, <2>3, <2>5 DEF len
  \* A run that keeps nothing.
  <1>FreshPromised. ASSUME NEW s \in Sources, NEW p
                    PROVE  Promised(Fresh, s, p)
    <2> USE <1>FreshPromised
    <2>1. Fresh.keep = 0 /\ Fresh.carry = <<>> /\ 0 % Chunk = 0 /\ Len(s.data) \in Nat
      BY DEF Fresh, LogConstants, Sources
    <2> QED  BY <2>1 DEF Promised
  \* The first chunk where the loop leaves settles what is kept.
  <1>StopPromised. ASSUME NEW s \in Sources, NEW p \in Partial, p # None, NEW stop \in Nat, NEW ends \in BOOLEAN,
                          \A j \in 0 .. stop - 1 :
                             /\ j * Chunk < Len(s.data) /\ Len(p.data) >= MinOf((j + 1) * Chunk, Len(s.data))
                             /\ SubSeq(p.data, j * Chunk + 1, MinOf((j + 1) * Chunk, Len(s.data))) = DigestOf(s.data, j),
                          stop * Chunk >= Len(s.data) => ends
                   PROVE  Promised([keep |-> MinOf(stop * Chunk, Len(s.data)),
                                    carry |-> IF ends THEN <<>> ELSE DigestOf(s.data, stop)], s, p)
    <2> USE <1>StopPromised
    <2> DEFINE keep == MinOf(stop * Chunk, Len(s.data))
               carry == IF ends THEN <<>> ELSE DigestOf(s.data, stop)
    <2>1. s.data \in Seq(Nat) /\ p.data \in Seq(Nat)
      BY DEF Sources, Partial
    <2>2. /\ keep \in Nat /\ keep <= Len(s.data) /\ keep <= Len(p.data)
          /\ SubSeq(p.data, 1, keep) = SubSeq(s.data, 1, keep)
      BY <2>1, <1>KeptPrefix, Zenon
    <2>3. Chunk \in Nat /\ Chunk > 0 /\ stop * Chunk \in Nat /\ (stop + 1) * Chunk \in Nat /\ Len(s.data) \in Nat
      BY <2>1 DEF LogConstants
    <2>4. carry \in Seq(Nat)
      <3>1. CASE ends
        BY <3>1
      <3>2. CASE ~ends
        <4>1. stop * Chunk + 1 \in Nat \ {0} /\ MinOf((stop + 1) * Chunk, Len(s.data)) \in Nat
              /\ MinOf((stop + 1) * Chunk, Len(s.data)) <= Len(s.data)
          BY <2>3 DEF MinOf
        <4>2. DigestOf(s.data, stop) \in Seq(Nat)
          BY <2>1, <4>1, SliceType DEF DigestOf
        <4> QED  BY <3>2, <4>2
      <3> QED  BY <3>1, <3>2
    <2>5. keep % Chunk = 0 \/ (keep = Len(s.data) /\ carry = <<>>)
      <3>1. CASE stop * Chunk < Len(s.data)
        <4>1. keep = stop * Chunk
          BY <2>3, <3>1 DEF MinOf
        <4>2. (stop * Chunk) % Chunk = 0
          BY <2>3, WholeMod, Zenon
        <4> QED  BY <4>1, <4>2
      <3>2. CASE stop * Chunk >= Len(s.data)
        <4>1. keep = Len(s.data)
          BY <2>3, <3>2 DEF MinOf
        <4>2. carry = <<>>
          BY <3>2
        <4> QED  BY <4>1, <4>2
      <3> QED  BY <2>3, <3>1, <3>2
    <2> HIDE DEF keep, carry
    <2>6. [keep |-> keep, carry |-> carry].keep = keep /\ [keep |-> keep, carry |-> carry].carry = carry
      OBVIOUS
    <2>7. Promised([keep |-> keep, carry |-> carry], s, p)
      BY <2>2, <2>4, <2>5, <2>6 DEF Promised
    <2> QED  BY <2>7 DEF keep, carry
  \* decide keeps what it promises, whatever the log says of the file.
  <1>DecidePromised. ASSUME NEW st, NEW s \in Sources, NEW p \in Partial \cup {None}
                     PROVE  Promised(Decide(st, s, p), s, p)
    <2> USE <1>DecidePromised
    <2> DEFINE fresh == \/ st.begin = None
                        \/ st.begin.len # Len(s.data)
                        \/ st.begin.stamp # s.stamp
                        \/ p = None
                        \/ DOMAIN st.digests = {}
               ends(k) == \/ k = Chunks(Len(p.data))
                          \/ k \notin DOMAIN st.digests
                          \/ k * Chunk >= Len(s.data)
                          \/ Len(p.data) < MinOf((k + 1) * Chunk, Len(s.data))
               size(k) == MinOf((k + 1) * Chunk, Len(s.data)) - k * Chunk
               matches(k) == /\ DigestOf(s.data, k) = st.digests[k]
                             /\ SubSeq(p.data, k * Chunk + 1, k * Chunk + size(k)) = st.digests[k]
               first(k) == /\ ends(k) \/ ~matches(k)
                           /\ \A j \in 0 .. k - 1 : ~ends(j) /\ matches(j)
               N == Chunks(Len(p.data))
               stop == CHOOSE k \in 0 .. N : first(k)
    <2>1. Decide(st, s, p) = IF fresh THEN Fresh
                             ELSE [keep  |-> MinOf(stop * Chunk, Len(s.data)),
                                   carry |-> IF ends(stop) THEN <<>> ELSE DigestOf(s.data, stop)]
      BY DEF Decide
    <2>2. CASE fresh
      <3>1. Decide(st, s, p) = Fresh
        BY <2>1, <2>2
      <3> QED  BY <3>1, <1>FreshPromised
    <2>3. CASE ~fresh
      <3>1. p \in Partial /\ p # None /\ p.data \in Seq(Nat) /\ Len(p.data) \in Nat
        BY <2>3 DEF Partial
      <3>2. Chunks(Len(p.data)) \in Nat
        BY <3>1, ChunksCover, SMTT(60)
      <3>3. \E k \in 0 .. N : first(k)
        <4> DEFINE T == {k \in 0 .. N : ends(k) \/ ~matches(k)}
        <4>1. N \in Nat /\ T \in SUBSET (0 .. N) /\ N \in T
          BY <3>2
        <4> HIDE DEF T
        <4>2. PICK k \in 0 .. N : k \in T /\ \A j \in 0 .. k - 1 : j \notin T
          BY <4>1, FirstStop
        <4>3. \A j \in 0 .. k - 1 : j \in 0 .. N
          BY <4>1, <4>2
        <4> HIDE DEF ends, matches, N
        <4>4. first(k)
          BY <4>2, <4>3 DEF T
        <4> QED  BY <4>4
      <3> HIDE DEF first
      <3>4. stop \in 0 .. N /\ first(stop)
        BY <3>3
      <3>5. stop \in Nat
        BY <3>2, <3>4
      <3> HIDE DEF stop
      <3>6. \A j \in 0 .. stop - 1 : ~ends(j) /\ matches(j)
        BY <3>4, SMTT(60) DEF first
      <3>7. ASSUME NEW j \in 0 .. stop - 1
            PROVE  /\ j * Chunk < Len(s.data) /\ Len(p.data) >= MinOf((j + 1) * Chunk, Len(s.data))
                   /\ SubSeq(p.data, j * Chunk + 1, MinOf((j + 1) * Chunk, Len(s.data))) = DigestOf(s.data, j)
        <4>1. ~ends(j) /\ matches(j)
          BY <3>6
        <4>2. j \in Nat /\ j * Chunk \in Nat /\ (j + 1) * Chunk \in Nat /\ Len(s.data) \in Nat
          BY <3>5 DEF LogConstants, Sources
        <4>3. j * Chunk < Len(s.data)
          BY <4>1, <4>2
        <4>4. PICK to \in Nat : to = MinOf((j + 1) * Chunk, Len(s.data))
          BY <4>2 DEF MinOf
        <4>5. ~(Len(p.data) < to)
          BY <4>1, <4>4
        <4>6. j * Chunk + (to - j * Chunk) = to
          BY <4>2
        <4>7. SubSeq(p.data, j * Chunk + 1, to) = DigestOf(s.data, j)
          BY <4>1, <4>4, <4>6
        <4>8. Len(p.data) >= to
          BY <3>1, <4>5
        <4> QED  BY <4>3, <4>4, <4>7, <4>8
      <3>8. stop * Chunk >= Len(s.data) => ends(stop)
        OBVIOUS
      <3>9. PICK e \in BOOLEAN : e = ends(stop)
        BY Zenon
      <3> HIDE DEF ends, fresh, matches, N
      <3>10. Promised([keep |-> MinOf(stop * Chunk, Len(s.data)),
                       carry |-> IF e THEN <<>> ELSE DigestOf(s.data, stop)], s, p)
        BY <3>1, <3>5, <3>7, <3>8, <3>9, <1>StopPromised
      <3> QED  BY <2>1, <2>3, <3>9, <3>10
    <2> QED  BY <2>2, <2>3
  \* decide_full keeps what it promises.
  <1>DecideFullPromised. ASSUME NEW s \in Sources, NEW p \in Partial \cup {None}
                         PROVE  Promised(DecideFull(s, p), s, p)
    <2> USE <1>DecideFullPromised
    <2> DEFINE ends(k) == \/ k * Chunk >= Len(s.data)
                          \/ Len(p.data) < MinOf((k + 1) * Chunk, Len(s.data))
               matches(k) ==
                   SubSeq(p.data, k * Chunk + 1, MinOf((k + 1) * Chunk, Len(s.data))) = DigestOf(s.data, k)
               first(k) == /\ ends(k) \/ ~matches(k)
                           /\ \A j \in 0 .. k - 1 : ~ends(j) /\ matches(j)
               N == Chunks(Len(s.data))
               stop == CHOOSE k \in 0 .. N : first(k)
    <2>1. DecideFull(s, p) = IF p = None THEN Fresh
                             ELSE [keep  |-> MinOf(stop * Chunk, Len(s.data)),
                                   carry |-> IF ends(stop) THEN <<>> ELSE DigestOf(s.data, stop)]
      BY DEF DecideFull
    <2>2. CASE p = None
      <3>1. DecideFull(s, p) = Fresh
        BY <2>1, <2>2
      <3> QED  BY <3>1, <1>FreshPromised
    <2>3. CASE p # None
      <3>1. p \in Partial /\ p.data \in Seq(Nat) /\ Len(p.data) \in Nat /\ Len(s.data) \in Nat
        BY <2>3 DEF Partial, Sources
      <3>2. N \in Nat /\ N * Chunk \in Nat /\ N * Chunk >= Len(s.data)
        <4>1. N \in Nat /\ Len(s.data) <= N * Chunk
          BY <3>1, ChunksCover, Zenon
        <4> QED  BY <3>1, <4>1 DEF LogConstants
      <3>3. \E k \in 0 .. N : first(k)
        <4> DEFINE T == {k \in 0 .. N : ends(k) \/ ~matches(k)}
        <4>1. N \in Nat /\ T \in SUBSET (0 .. N) /\ N \in T
          BY <3>2
        <4> HIDE DEF T
        <4>2. PICK k \in 0 .. N : k \in T /\ \A j \in 0 .. k - 1 : j \notin T
          BY <4>1, FirstStop
        <4>3. \A j \in 0 .. k - 1 : j \in 0 .. N
          BY <4>1, <4>2
        <4> HIDE DEF ends, matches, N
        <4>4. first(k)
          BY <4>2, <4>3 DEF T
        <4> QED  BY <4>4
      <3> HIDE DEF first
      <3>4. stop \in 0 .. N /\ first(stop)
        BY <3>3
      <3>5. stop \in Nat
        BY <3>2, <3>4
      <3> HIDE DEF stop
      <3>6. \A j \in 0 .. stop - 1 : ~ends(j) /\ matches(j)
        BY <3>4 DEF first
      <3>7. ASSUME NEW j \in 0 .. stop - 1
            PROVE  /\ j * Chunk < Len(s.data) /\ Len(p.data) >= MinOf((j + 1) * Chunk, Len(s.data))
                   /\ SubSeq(p.data, j * Chunk + 1, MinOf((j + 1) * Chunk, Len(s.data))) = DigestOf(s.data, j)
        <4>1. ~ends(j) /\ matches(j)
          BY <3>6
        <4>2. j \in Nat /\ j * Chunk \in Nat /\ (j + 1) * Chunk \in Nat
          BY <3>5 DEF LogConstants
        <4>3. j * Chunk < Len(s.data)
          BY <3>1, <4>1, <4>2
        <4>4. PICK to \in Nat : to = MinOf((j + 1) * Chunk, Len(s.data))
          BY <3>1, <4>2 DEF MinOf
        <4>5. ~(Len(p.data) < to)
          BY <4>1, <4>4
        <4>6. Len(p.data) >= to
          BY <3>1, <4>5
        <4> QED  BY <4>1, <4>3, <4>4, <4>6
      <3>8. stop * Chunk >= Len(s.data) => ends(stop)
        OBVIOUS
      <3>9. PICK e \in BOOLEAN : e = ends(stop)
        BY Zenon
      <3> HIDE DEF ends, matches, N
      <3>10. Promised([keep |-> MinOf(stop * Chunk, Len(s.data)),
                       carry |-> IF e THEN <<>> ELSE DigestOf(s.data, stop)], s, p)
        BY <2>3, <3>1, <3>5, <3>7, <3>8, <3>9, <1>StopPromised, Zenon
      <3> QED  BY <2>1, <2>3, <3>9, <3>10
    <2> QED  BY <2>2, <2>3
  <1>1. src[f] \in Sources /\ part[f] \in Partial \cup {None}
    BY DEF FilesTyped, Sources
  <1>2. Promised(Fresh, src[f], part[f])
    BY <1>1, <1>FreshPromised
  <1>3. Promised(Decide(LoadFile(run.cells, f), src[f], part[f]), src[f], part[f])
    BY <1>1, <1>DecidePromised
  <1>4. Promised(DecideFull(src[f], part[f]), src[f], part[f])
    BY <1>1, <1>DecideFullPromised
  <1>5. PlanResume(run.cells, f) = IF Verify = "chunks" THEN Decide(LoadFile(run.cells, f), src[f], part[f])
                                   ELSE DecideFull(src[f], part[f])
    BY DEF PlanResume
  <1> QED  BY <1>2, <1>3, <1>4, <1>5

\* A list, in order, of the numbers of a set.
Lists(K, n, g) == Range(g) = K /\ \A i, j \in 1 .. n : i < j => g[i] < g[j]

\* What Without leaves: entries of the same type, none of them of these files.
LEMMA WithoutKeeps ==
    ASSUME NEW S, NEW s \in Seq(S), NEW files
    PROVE  /\ Without(s, files) \in Seq(S)
           /\ Range(Without(s, files)) \subseteq {e \in Range(s) : e.file \notin files}
  \* A subset of 1 .. n can be listed in order.
  <1>Listed. ASSUME NEW n \in Nat, NEW K \in SUBSET (1 .. n)
             PROVE  \E c \in 0 .. n : \E g \in [1 .. c -> K] : Lists(K, c, g)
    <2> USE <1>Listed
    \* A list of the numbers below one more.
    <2>ListedMore. ASSUME NEW m \in Nat, NEW J \in SUBSET (1 .. m + 1), m + 1 \in J, NEW c \in 0 .. m,
                          NEW g \in [1 .. c -> J \ {m + 1}], Lists(J \ {m + 1}, c, g)
                   PROVE  \E h \in [1 .. c + 1 -> J] : Lists(J, c + 1, h)
      <3> USE <2>ListedMore
      <3> DEFINE h == [i \in 1 .. c + 1 |-> IF i = c + 1 THEN m + 1 ELSE g[i]]
      <3>0. \A x \in J \ {m + 1} : x \in J /\ x \in 1 .. m
        OBVIOUS
      <3>1. c \in Nat /\ \A i \in 1 .. c : g[i] \in J /\ g[i] \in 1 .. m
        <4>1. \A i \in 1 .. c : g[i] \in J \ {m + 1}
          BY Zenon
        <4>2. c \in Nat
          OBVIOUS
        <4> QED  BY <3>0, <4>1, <4>2, Zenon
      <3>2. /\ h \in [1 .. c + 1 -> J] /\ DOMAIN h = 1 .. c + 1 /\ h[c + 1] = m + 1
            /\ \A i \in 1 .. c : i \in 1 .. c + 1 /\ h[i] = g[i]
        BY <3>1
      <3> HIDE DEF h
      <3>3. \A i \in 1 .. c + 1 : i = c + 1 \/ i \in 1 .. c
        BY <3>1
      <3>4. Range(h) = J
        <4>1. ASSUME NEW x \in J PROVE x \in Range(h)
          <5>1. CASE x = m + 1
            BY <3>1, <3>2, <5>1 DEF Range
          <5>2. CASE x # m + 1
            <6>1. PICK i \in 1 .. c : g[i] = x
              BY <5>2 DEF Lists, Range
            <6> QED  BY <3>2, <6>1 DEF Range
          <5> QED  BY <5>1, <5>2
        <4>2. \A x \in Range(h) : x \in J
          BY <3>2 DEF Range
        <4> QED  BY <4>1, <4>2, Zenon
      <3>5. ASSUME NEW i \in 1 .. c + 1, NEW j \in 1 .. c + 1, i < j PROVE h[i] < h[j]
        <4>1. i \in 1 .. c /\ h[i] = g[i] /\ g[i] \in 1 .. m
          BY <3>1, <3>2, <3>5
        <4>2. CASE j = c + 1
          BY <3>2, <4>1, <4>2
        <4>3. CASE j \in 1 .. c
          BY <3>2, <3>5, <4>1, <4>3 DEF Lists
        <4> QED  BY <3>3, <4>2, <4>3
      <3> QED  BY <3>2, <3>4, <3>5 DEF Lists
    <2> DEFINE Ok(m) == \A L \in SUBSET (1 .. m) : \E c \in 0 .. m : \E g \in [1 .. c -> L] : Lists(L, c, g)
               T == {m \in Nat : ~Ok(m)}
    <2>1. Ok(0)
      <3>1. SUFFICES ASSUME NEW L \in SUBSET (1 .. 0) PROVE \E g \in [1 .. 0 -> L] : Lists(L, 0, g)
        OBVIOUS
      <3>2. L = {} /\ 1 .. 0 = {}
        OBVIOUS
      <3>3. [i \in 1 .. 0 |-> i] \in [1 .. 0 -> L] /\ Lists(L, 0, [i \in 1 .. 0 |-> i])
        BY <3>2 DEF Lists, Range
      <3> QED  BY <3>3, Zenon
    <2>2. ASSUME NEW m \in Nat, Ok(m) PROVE Ok(m + 1)
      <3>1. SUFFICES ASSUME NEW L \in SUBSET (1 .. m + 1)
                     PROVE  \E c \in 0 .. m + 1 : \E g \in [1 .. c -> L] : Lists(L, c, g)
        BY Zenon
      <3>2. \A c \in 0 .. m : c \in 0 .. m + 1 /\ c + 1 \in 0 .. m + 1
        OBVIOUS
      <3>3. CASE m + 1 \notin L
        <4>1. L \in SUBSET (1 .. m)
          BY <3>3
        <4> QED  BY <2>2, <3>2, <4>1, Zenon
      <3>4. CASE m + 1 \in L
        <4>1. L \ {m + 1} \in SUBSET (1 .. m)
          OBVIOUS
        <4>2. PICK c \in 0 .. m : \E g \in [1 .. c -> L \ {m + 1}] : Lists(L \ {m + 1}, c, g)
          BY <2>2, <4>1, Zenon
        <4>3. \E h \in [1 .. c + 1 -> L] : Lists(L, c + 1, h)
          BY <3>4, <4>2, <2>ListedMore, Zenon
        <4> QED  BY <3>2, <4>3, Zenon
      <3> QED  BY <3>3, <3>4, Zenon
    <2> HIDE DEF Ok
    <2>3. T = {}
      <3>1. SUFFICES ASSUME T # {} PROVE FALSE
        OBVIOUS
      <3>2. PICK m \in T : \A k \in T : m <= k
        BY <3>1, LeastOf, Zenon
      <3>3. m \in Nat /\ ~Ok(m) /\ m # 0
        BY <2>1
      <3>4. m - 1 \in Nat /\ m - 1 + 1 = m
        BY <3>3
      <3>5. m - 1 \notin T
        BY <3>2, <3>3
      <3>6. Ok(m - 1)
        BY <3>4, <3>5
      <3> QED  BY <2>2, <3>3, <3>4, <3>6
    <2>4. Ok(n)
      BY <2>3
    <2> QED  BY <2>4, Zenon DEF Ok
  <1> DEFINE kept == {i \in DOMAIN s : s[i].file \notin files}
             inc(g) == Range(g) = kept /\ \A i, j \in DOMAIN g : i < j => g[i] < g[j]
             G == UNION {[1 .. n -> kept] : n \in 0 .. Len(s)}
             at == CHOOSE g \in G : inc(g)
  <1>1. Len(s) \in Nat /\ kept \in SUBSET (1 .. Len(s))
    OBVIOUS
  <1>2. Without(s, files) = [i \in DOMAIN at |-> s[at[i]]]
    BY Zenon DEF Without
  <1>3. PICK c \in 0 .. Len(s) : \E g \in [1 .. c -> kept] : Lists(kept, c, g)
    <2> HIDE DEF kept
    <2> QED  BY <1>1, <1>Listed, Zenon
  <1>4. \E g \in G : inc(g)
    <2> HIDE DEF kept
    <2>1. PICK g \in [1 .. c -> kept] : Lists(kept, c, g)
      BY <1>3, Zenon
    <2>2. g \in G /\ DOMAIN g = 1 .. c
      OBVIOUS
    <2> QED  BY <2>1, <2>2, Zenon DEF Lists
  <1>5. at \in G
    <2> HIDE DEF kept, inc, G
    <2> QED  BY <1>4, Zenon
  <1>6. PICK n \in 0 .. Len(s) : at \in [1 .. n -> kept]
    <2> HIDE DEF kept, at
    <2> QED  BY <1>5
  <1> HIDE DEF at
  <1>7. n \in Nat /\ DOMAIN at = 1 .. n /\ \A i \in 1 .. n : at[i] \in kept
    <2> HIDE DEF kept
    <2> QED  BY <1>1, <1>6
  <1>8. \A i \in 1 .. n : s[at[i]] \in S /\ s[at[i]] \in Range(s) /\ s[at[i]].file \notin files
    BY <1>7 DEF Range
  <1> HIDE DEF kept
  <1>9. Without(s, files) \in Seq(S)
    BY <1>2, <1>7, <1>8
  <1>10. DOMAIN Without(s, files) = 1 .. n /\ \A i \in 1 .. n : Without(s, files)[i] = s[at[i]]
    BY <1>2, <1>7
  <1>11. Range(Without(s, files)) \subseteq {e \in Range(s) : e.file \notin files}
    BY <1>8, <1>10 DEF Range
  <1> QED  BY <1>9, <1>11

----------------------------------------------------------------------------
(* What is published is what was read: each step keeps CopyInv.  *)

CopyInv == FilesTyped /\ LogTyped /\ RunTyped /\ WriterTyped /\ CopySays /\ PublishedIsRead

\* The messages the sink and the run build have their type.
LEMMA MessagesTyped ==
    ASSUME NEW f \in Files
    PROVE  /\ [type |-> "discard", file |-> f] \in Message /\ [type |-> "close", file |-> f] \in Message
           /\ [type |-> "stop"] \in Message
           /\ \A body \in BeginBody : [type |-> "begin", file |-> f, body |-> body] \in Message
           /\ \A from, to \in Nat, digs \in Seq(Seq(Nat)) : RangeMsg(f, from, to, digs) \in Message
  BY DEF Message, Body, BeginBody, RangeBody, RangeMsg

\* The writer thread that is not there.
LEMMA EndedTyped ==
    ThreadTyped(Ended)
  BY DEF ThreadTyped, Ended

\* What the scan finds: the leading cells decode, the next one does not.
LEMMA DecodedIs ==
    ASSUME NEW cells \in Seq(Cell)
    PROVE  /\ Decoded(cells) \in 0 .. Len(cells)
           /\ \A i \in 1 .. Decoded(cells) : Decodes(cells[i])
           /\ Decoded(cells) < Len(cells) => ~Decodes(cells[Decoded(cells) + 1])
  <1> DEFINE ok(n) == /\ \A i \in 1 .. n : Decodes(cells[i])
                      /\ n < Len(cells) => ~Decodes(cells[n + 1])
             T == {n \in 0 .. Len(cells) : n = Len(cells) \/ ~Decodes(cells[n + 1])}
  <1>1. Len(cells) \in Nat /\ T \in SUBSET (0 .. Len(cells)) /\ Len(cells) \in T
    OBVIOUS
  <1> HIDE DEF T
  <1>2. PICK n \in 0 .. Len(cells) : n \in T /\ \A j \in 0 .. n - 1 : j \notin T
    BY <1>1, FirstStop, SMTT(60)
  <1>3. ASSUME NEW i \in 1 .. n PROVE Decodes(cells[i])
    <2>1. i - 1 \in 0 .. n - 1 /\ i - 1 \in 0 .. Len(cells) /\ i - 1 # Len(cells) /\ i - 1 + 1 = i
      BY <1>1, <1>2
    <2>2. i - 1 \notin T
      BY <1>2, <2>1
    <2> QED  BY <2>1, <2>2 DEF T
  <1>4. n < Len(cells) => ~Decodes(cells[n + 1])
    BY <1>1, <1>2 DEF T
  <1>5. \E m \in 0 .. Len(cells) : ok(m)
    BY <1>3, <1>4
  <1>6. Decoded(cells) = CHOOSE m \in 0 .. Len(cells) : ok(m)
    BY DEF Decoded
  <1> HIDE DEF ok
  <1>7. Decoded(cells) \in 0 .. Len(cells) /\ ok(Decoded(cells))
    BY <1>5, <1>6
  <1> QED  BY <1>7 DEF ok

\* A length over which blocks of `per' are laid: each of them begins inside it.
LEMMA BlockStarts ==
    ASSUME NEW len \in Nat, NEW per \in Nat, per > 0, NEW g \in 1 .. (len + per - 1) \div per
    PROVE  g \in Nat /\ (g - 1) * per \in Nat /\ (g - 1) * per < len /\ g * per = (g - 1) * per + per
  <1>1. PICK q \in Nat, r \in 0 .. per - 1 : len = q * per + r
    BY BlockOf, Zenon
  <1>2. (len + per - 1) \div per = IF r = 0 THEN q ELSE q + 1
    BY <1>1, CeilDiv
  <1>3. g \in Nat /\ g - 1 \in Nat /\ g - 1 + 1 = g /\ g - 1 <= q /\ (r = 0 => g - 1 <= q - 1)
    BY <1>2
  <1>4. (g - 1) * per <= q * per
    BY <1>3, TimesMonotone
  <1>5. r = 0 => (g - 1) * per <= (q - 1) * per
    BY <1>3, TimesMonotone
  <1>6. (q - 1 + 1) * per = (q - 1) * per + per /\ q - 1 + 1 = q
    BY OneMore
  <1>7. (g - 1 + 1) * per = (g - 1) * per + per
    BY <1>3, OneMore
  <1>8. (g - 1) * per \in Nat /\ q * per \in Nat
    BY <1>3
  <1>9. PICK x \in Nat, y \in Nat : x = (g - 1) * per /\ y = q * per
    BY <1>8
  <1>10. x <= y /\ (r = 0 => x <= y - per) /\ len = y + r
    <2>1. (q - 1) * per = y - per
      BY <1>6, <1>9
    <2> QED  BY <1>1, <1>4, <1>5, <1>9, <2>1
  <1>11. x < len
    BY <1>10
  <1> QED  BY <1>3, <1>7, <1>8, <1>9, <1>11

\* record_proven: every Range is well formed and describes the proven prefix.
LEMMA ProvenIs ==
    ASSUME LogConstants, NEW f \in Files, NEW keep \in Nat, NEW data \in Seq(Nat)
    PROVE  /\ ProvenRanges(f, keep, data) \in Seq(Message)
           /\ \A m \in Range(ProvenRanges(f, keep, data)) :
                m.file = f /\ WellFormed(m.body) /\ (keep = Len(data) => Describes(m.body, data))
  \* The digest of a chunk is a sequence of units.
  <1>DigestType. ASSUME NEW d \in Seq(Nat), NEW k \in Nat
                 PROVE  DigestOf(d, k) \in Seq(Nat)
    <2> USE <1>DigestType
    <2>1. k * Chunk \in Nat /\ (k + 1) * Chunk \in Nat /\ Len(d) \in Nat
      BY DEF LogConstants
    <2>2. k * Chunk + 1 \in Nat \ {0} /\ MinOf((k + 1) * Chunk, Len(d)) \in Nat /\ MinOf((k + 1) * Chunk, Len(d)) <= Len(d)
      BY <2>1 DEF MinOf
    <2> QED  BY <2>2, SliceType DEF DigestOf
  <1> DEFINE per == RangeChunks * Chunk
             N == (keep + per - 1) \div per
             from(g) == (g - 1) * per
             to(g) == MinOf(g * per, keep)
             digs(g) == [i \in 1 .. Chunks(to(g) - from(g)) |-> DigestOf(data, (g - 1) * RangeChunks + i - 1)]
             msg(g) == RangeMsg(f, from(g), to(g), digs(g))
  <1>1. Chunk \in Nat /\ Chunk > 0 /\ RangeChunks \in Nat /\ RangeChunks > 0 /\ per \in Nat /\ per > 0
    BY DEF LogConstants
  <1>2. N \in Nat
    <2> HIDE DEF per
    <2>1. PICK q \in Nat, r \in 0 .. per - 1 : keep = q * per + r
      BY <1>1, BlockOf, Zenon
    <2>2. N = IF r = 0 THEN q ELSE q + 1
      BY <1>1, <2>1, CeilDiv
    <2> QED  BY <2>2
  <1>3. ProvenRanges(f, keep, data) = [g \in 1 .. N |-> msg(g)]
    BY DEF ProvenRanges
  <1>4. ASSUME NEW g \in 1 .. N
        PROVE  /\ msg(g) \in Message /\ msg(g).file = f /\ WellFormed(msg(g).body)
               /\ keep = Len(data) => Describes(msg(g).body, data)
    <2> HIDE DEF per, digs
    <2>1. g \in Nat /\ from(g) \in Nat /\ from(g) < keep /\ g * per = from(g) + per
      BY <1>1, BlockStarts
    <2>2. PICK a \in Nat : a = from(g)
      BY <2>1
    <2>3. PICK b \in Nat : b = to(g)
      BY <1>1, <2>1 DEF MinOf
    <2>4. g * per = a + per /\ a < keep
      BY <2>1, <2>2
    <2>5. b = MinOf(a + per, keep)
      BY <2>3, <2>4
    <2>6. a < b /\ b - a <= per /\ b <= keep /\ b - a \in Nat
      BY <1>1, <2>4, <2>5 DEF MinOf
    <2>7. PICK A \in Nat : A = (g - 1) * RangeChunks
      BY <1>1, <2>1
    <2>8. a = A * Chunk
      BY <1>1, <2>1, <2>2, <2>7 DEF per
    <2>9. PICK n \in Nat : /\ n = Chunks(b - a) /\ \A k \in Nat : k * Chunk < b - a <=> k < n
      BY <2>6, ChunksCover, Zenon
    <2>10. digs(g) = [i \in 1 .. n |-> DigestOf(data, A + i - 1)]
      BY <2>2, <2>3, <2>7, <2>9 DEF digs
    <2>11. \A i \in 1 .. n : A + i - 1 \in Nat
      OBVIOUS
    <2>12. \A i \in 1 .. n : DigestOf(data, A + i - 1) \in Seq(Nat)
      BY <2>11, <1>DigestType
    <2>13. digs(g) \in Seq(Seq(Nat)) /\ Len(digs(g)) = n /\ \A i \in 1 .. n : digs(g)[i] = DigestOf(data, A + i - 1)
      BY <2>10, <2>12
    <2>14. msg(g) = RangeMsg(f, a, b, digs(g))
      BY <2>2, <2>3
    <2>15. msg(g) \in Message
      BY <2>13, <2>14, MessagesTyped, Zenon
    <2>16. /\ msg(g).file = f /\ msg(g).body.kind = "range"
           /\ msg(g).body.start = a /\ msg(g).body.end = b /\ msg(g).body.digests = digs(g)
      BY <2>14 DEF RangeMsg
    <2>17. WellFormed(msg(g).body)
      <3>1. a % Chunk = 0
        BY <1>1, <2>8, WholeMod
      <3> QED  BY <2>6, <2>9, <2>13, <2>16, <3>1 DEF WellFormed
    <2>18. ASSUME keep = Len(data) PROVE Describes(msg(g).body, data)
      <3>1. ASSUME NEW i \in 1 .. n
            PROVE  DigestOf(data, A + i - 1) = SubSeq(data, a + (i - 1) * Chunk + 1, MinOf(a + i * Chunk, b))
        <4>1. i \in Nat /\ i - 1 \in Nat /\ A + i - 1 = A + (i - 1) /\ A + i - 1 + 1 = A + i
          OBVIOUS
        <4>2. (A + i - 1) * Chunk = a + (i - 1) * Chunk
          BY <1>1, <2>8, <4>1, Distribute
        <4>3. (A + i - 1 + 1) * Chunk = a + i * Chunk
          BY <1>1, <2>8, <4>1, Distribute
        <4>4. (i - 1) * Chunk < b - a
          <5>1. i - 1 < n
            OBVIOUS
          <5> QED  BY <2>9, <4>1, <5>1
        <4>5. i <= RangeChunks
          <5>1. i - 1 >= RangeChunks => (i - 1) * Chunk >= RangeChunks * Chunk
            BY <1>1, <4>1, TimesMonotone
          <5>2. (i - 1) * Chunk < per
            <6>1. (i - 1) * Chunk \in Nat
              BY <1>1, <4>1
            <6> QED  BY <1>1, <2>6, <4>4, <6>1
          <5>3. (i - 1) * Chunk \in Nat
            BY <1>1, <4>1
          <5>4. ~((i - 1) * Chunk >= RangeChunks * Chunk)
            BY <1>1, <5>2, <5>3 DEF per
          <5> QED  BY <1>1, <4>1, <5>1, <5>4
        <4>6. PICK x \in Nat : x = i * Chunk
          BY <1>1, <4>1
        <4>7. x <= per
          BY <1>1, <4>1, <4>5, <4>6, TimesMonotone DEF per
        <4>8. MinOf(a + x, b) = MinOf(a + x, Len(data))
          BY <1>1, <2>5, <2>18, <4>7 DEF MinOf
        <4> QED  BY <4>2, <4>3, <4>6, <4>8, Zenon DEF DigestOf
      <3>2. \A j \in DOMAIN digs(g) : digs(g)[j] = SubSeq(data, a + (j - 1) * Chunk + 1, MinOf(a + j * Chunk, b))
        <4>1. DOMAIN digs(g) = 1 .. n
          BY <2>10
        <4> QED  BY <2>13, <3>1, <4>1, Zenon
      <3>3. b <= Len(data)
        BY <2>6, <2>18
      <3> QED  BY <2>16, <3>2, <3>3 DEF Describes
    <2> QED  BY <2>15, <2>16, <2>17, <2>18
  <1> HIDE DEF N, msg
  <1>5. ProvenRanges(f, keep, data) \in Seq(Message)
    BY <1>2, <1>3, <1>4
  <1>6. \A m \in Range(ProvenRanges(f, keep, data)) : \E g \in 1 .. N : m = msg(g)
    BY <1>3 DEF Range
  <1> QED  BY <1>4, <1>5, <1>6

\* What the sink makes of one more unit.
LEMMA HashedIs ==
    ASSUME LogConstants, RunTyped, run.file \in Files, NEW unit \in Nat, NEW r,
           r = [run EXCEPT !.read = Append(@, unit), !.carry = IF @ = <<>> THEN @ ELSE Tail(@)],
           run' = Hashed(r, unit)
    PROVE  /\ DOMAIN run' = DOMAIN Down /\ run'.pc \in {"check", "stream"} /\ run'.read = Append(run.read, unit)
           /\ run'.carry = IF run.carry = <<>> THEN <<>> ELSE Tail(run.carry)
           /\ LET chunk == Append(run.chunk, unit)
                  full  == Len(chunk) = Chunk
                  digs  == IF full THEN Append(run.digests, chunk) ELSE run.digests
                  send  == full /\ Len(digs) >= RangeChunks
                  end   == (run.index + 1) * Chunk
              IN  /\ run'.chunk = IF full THEN <<>> ELSE chunk
                  /\ run'.index = IF full THEN run.index + 1 ELSE run.index
                  /\ run'.digests = IF send THEN <<>> ELSE digs
                  /\ run'.start = IF send THEN end ELSE run.start
                  /\ run'.out = IF send THEN <<RangeMsg(run.file, run.start, end, digs)>> ELSE <<>>
           /\ run'.todo = run.todo /\ run'.file = run.file /\ run'.log = run.log /\ run'.cells = run.cells
           /\ run'.seen = run.seen /\ run'.reused = run.reused /\ run'.sink = run.sink /\ run'.ack = run.ack
           /\ run'.lost = run.lost /\ run'.gone = run.gone
  BY DEF RunTyped, Down, Hashed

----------------------------------------------------------------------------
(* What each step of the writer thread does. *)

\* The writer touches the run only to answer its Close.
Answered == run' = run \/ \E a \in {"ok", "fault"} : run' = [run EXCEPT !.ack = a]

\* The answer of the writer leaves the rest of the run as it is.
LEMMA AnsweredSame ==
    ASSUME RunTyped, Answered
    PROVE  /\ RunTyped'
           /\ run'.pc = run.pc /\ run'.todo = run.todo /\ run'.file = run.file /\ run'.log = run.log
           /\ run'.cells = run.cells /\ run'.read = run.read /\ run'.carry = run.carry /\ run'.seen = run.seen
           /\ run'.reused = run.reused /\ run'.chunk = run.chunk /\ run'.index = run.index
           /\ run'.digests = run.digests /\ run'.start = run.start /\ run'.out = run.out /\ run'.sink = run.sink
           /\ run'.gone = run.gone /\ run'.lost = run.lost
  <1>1. CASE run' = run
    BY <1>1 DEF RunTyped
  <1>2. ASSUME NEW a \in {"ok", "fault"}, run' = [run EXCEPT !.ack = a]
        PROVE  /\ RunTyped'
               /\ run'.pc = run.pc /\ run'.todo = run.todo /\ run'.file = run.file /\ run'.log = run.log
               /\ run'.cells = run.cells /\ run'.read = run.read /\ run'.carry = run.carry /\ run'.seen = run.seen
               /\ run'.reused = run.reused /\ run'.chunk = run.chunk /\ run'.index = run.index
               /\ run'.digests = run.digests /\ run'.start = run.start /\ run'.out = run.out /\ run'.sink = run.sink
               /\ run'.gone = run.gone /\ run'.lost = run.lost
    BY <1>2 DEF RunTyped, Down
  <1> QED  BY <1>1, <1>2 DEF Answered

\* What the log needs of the thread, the same in w and v.
Steady(w, v) == v.open = w.open /\ v.dead = w.dead /\ v.next = w.next /\ v.late = w.late

\* Where a flush returns to.
LEMMA ContinueIs ==
    ASSUME NEW w, ThreadTyped(w), Continue(w, run)
    PROVE  /\ ThreadTyped(wal') /\ wal'.pc \in {"recv", "ended"} /\ Steady(w, wal')
           /\ wal'.pending = w.pending /\ wal'.batch = w.batch
           /\ Answered
  <1>1. CASE w.cont = "loop"
    <2>1. wal' = [w EXCEPT !.pc = "recv"] /\ run' = run
      BY <1>1 DEF Continue
    <2> QED  BY <2>1 DEF ThreadTyped, Ended, Steady, Answered
  <1>2. CASE w.cont = "close"
    <2>1. wal' = [w EXCEPT !.pc = "recv", !.dups = @ \ {w.closing}, !.cont = "loop", !.closing = None]
      BY <1>2 DEF Continue
    <2>2. Answered
      BY <1>2 DEF Continue, Answered
    <2> QED  BY <2>1, <2>2 DEF ThreadTyped, Ended, Steady
  <1>3. CASE w.cont = "stop"
    <2>1. wal' = [w EXCEPT !.pc = "ended", !.dups = {}] /\ run' = run
      BY <1>3 DEF Continue
    <2> QED  BY <2>1 DEF ThreadTyped, Ended, Steady, Answered
  <1> QED  BY <1>1, <1>2, <1>3, Zenon DEF ThreadTyped

\* Given up.
LEMMA AbandonIs ==
    ASSUME NEW w, ThreadTyped(w)
    PROVE  /\ ThreadTyped(Abandon(w)) /\ Steady(w, Abandon(w)) /\ Abandon(w).pc = w.pc
           /\ Abandon(w).pending = <<>> /\ Abandon(w).batch = w.batch
  BY DEF Abandon, ThreadTyped, Ended, Steady

\* The writer thread that leaves its loop (Stop, or the sender gone).
LEMMA StoppedIs ==
    ASSUME NEW w, ThreadTyped(w), NEW v, v = [Abandon(w) EXCEPT !.pc = "ended"]
    PROVE  ThreadTyped(v) /\ Steady(w, v) /\ v.pc = "ended" /\ v.pending = <<>> /\ v.batch = w.batch
  <1>1. PICK a : a = Abandon(w) /\ ThreadTyped(a)
    BY AbandonIs
  <1>2. v = [a EXCEPT !.pc = "ended"]
    BY <1>1
  <1>3. ThreadTyped(v) /\ Steady(a, v) /\ v.pc = "ended" /\ v.pending = a.pending /\ v.batch = a.batch
    BY <1>1, <1>2 DEF ThreadTyped, Ended, Steady
  <1> QED  BY <1>1, <1>3, AbandonIs DEF Steady

\* A record of the message m.
RecordOf(m) == [file |-> m.file, body |-> m.body]

\* One message.
LEMMA ReceiveIs ==
    ASSUME RunTyped, WriterTyped, Receive
    PROVE  /\ chan # <<>> /\ Head(chan) \in Message /\ chan' = Tail(chan) /\ Tail(chan) \in Seq(Message)
           /\ UNCHANGED <<src, part, dest, seg, gen, left>>
           /\ wal.pc = "recv" /\ wal'.pc \in {"recv", "flush", "ended"}
           /\ ThreadTyped(wal') /\ Steady(wal, wal') /\ Answered
           /\ wal'.batch = wal.batch
           /\ \A e \in Range(wal'.pending) : \/ e \in Range(wal.pending)
                                             \/ Head(chan).type \in {"begin", "range"} /\ e = RecordOf(Head(chan))
  \* The fields of a message.
  <1>MessageFields. ASSUME NEW m \in Message
                    PROVE  /\ m.type \in {"begin", "range", "close", "discard", "stop"}
                           /\ m.type \in {"begin", "range"} => [file |-> m.file, body |-> m.body] \in Entry /\ m.file \in Files
                           /\ m.type \in {"close", "discard"} => m.file \in Files
    BY <1>MessageFields DEF Message, Entry
  \* One more pending record.
  <1>PushIs. ASSUME NEW w, ThreadTyped(w), NEW m, RecordOf(m) \in Entry
             PROVE  /\ ThreadTyped(Push(w, m)) /\ Steady(w, Push(w, m)) /\ Push(w, m).pc = w.pc
                    /\ Push(w, m).pending = Append(w.pending, RecordOf(m)) /\ Push(w, m).batch = w.batch
    <2> USE <1>PushIs
    <2>1. Push(w, m) = [w EXCEPT !.pending = Append(w.pending, RecordOf(m))]
      BY DEF Push, RecordOf
    <2>2. Append(w.pending, RecordOf(m)) \in Seq(Entry)
      BY DEF ThreadTyped
    <2> QED  BY <2>1, <2>2 DEF ThreadTyped, Ended, Steady
  \* The check for a full batch after a message.
  <1>LoopedIs. ASSUME NEW w, ThreadTyped(w), w.pc = "recv"
               PROVE  /\ ThreadTyped(Looped(w)) /\ Steady(w, Looped(w)) /\ Looped(w).pc \in {"recv", "flush"}
                      /\ Looped(w).pending = w.pending /\ Looped(w).batch = w.batch
    <2> USE <1>LoopedIs
    <2>1. Looped(w) = w \/ Looped(w) = [w EXCEPT !.pc = "flush", !.cont = "loop"]
      BY DEF Looped
    <2>2. CASE Looped(w) = w
      BY <2>2 DEF Steady
    <2>3. CASE Looped(w) = [w EXCEPT !.pc = "flush", !.cont = "loop"]
      BY <2>3 DEF ThreadTyped, Ended, Steady
    <2> QED  BY <2>1, <2>2, <2>3
  <1>1. /\ chan # <<>> /\ Head(chan) \in Message /\ chan' = Tail(chan) /\ Tail(chan) \in Seq(Message)
        /\ UNCHANGED <<src, part, dest, seg, gen, left>> /\ wal.pc = "recv"
    BY DEF Receive, WriterTyped
  <1>2. PICK m \in Message : m = Head(chan)
    BY <1>1
  <1>3. ThreadTyped(wal)
    BY DEF WriterTyped
  <1>4. wal.pending \in Seq(Entry)
    BY <1>3 DEF ThreadTyped
  <1>5. m.type \in {"begin", "range"} => RecordOf(m) \in Entry /\ m.file \in Files
    BY <1>MessageFields DEF RecordOf
  <1> DEFINE Goal == /\ wal'.pc \in {"recv", "flush", "ended"}
                     /\ ThreadTyped(wal') /\ Steady(wal, wal') /\ Answered
                     /\ wal'.batch = wal.batch
                     /\ \A e \in Range(wal'.pending) : \/ e \in Range(wal.pending)
                                                       \/ m.type \in {"begin", "range"} /\ e = RecordOf(m)
  <1>6. ASSUME wal' = wal /\ run' = run PROVE Goal
    BY <1>1, <1>3, <1>6 DEF Steady, Answered
  <1>7. ASSUME NEW w, ThreadTyped(w), Steady(wal, w), w.pc = "recv", w.batch = wal.batch, wal' = Looped(w), run' = run,
               \A e \in Range(w.pending) : \/ e \in Range(wal.pending)
                                           \/ m.type \in {"begin", "range"} /\ e = RecordOf(m)
        PROVE  Goal
    <2>1. /\ ThreadTyped(wal') /\ Steady(w, wal') /\ wal'.pc \in {"recv", "flush"}
          /\ wal'.pending = w.pending /\ wal'.batch = w.batch
      BY <1>7, <1>LoopedIs
    <2> QED  BY <1>7, <2>1 DEF Steady, Answered
  <1>8. ASSUME NEW w, ThreadTyped(w), Steady(wal, w), w.pc = "recv", w.batch = wal.batch, w.pending = wal.pending,
               m.type \in {"begin", "range"}, wal' = Looped(Push(w, m)), run' = run
        PROVE  Goal
    <2>1. /\ ThreadTyped(Push(w, m)) /\ Steady(w, Push(w, m)) /\ Push(w, m).pc = w.pc
          /\ Push(w, m).pending = Append(w.pending, RecordOf(m)) /\ Push(w, m).batch = w.batch
      BY <1>5, <1>8, <1>PushIs
    <2>2. PICK v : v = Push(w, m)
      OBVIOUS
    <2>3. Range(v.pending) = Range(wal.pending) \cup {RecordOf(m)}
      <3>1. v.pending = Append(wal.pending, RecordOf(m)) /\ RecordOf(m) \in Entry
        BY <1>5, <1>8, <2>1, <2>2
      <3> QED  BY <1>4, <3>1, RangeAppend
    <2>4. Steady(wal, v)
      BY <1>8, <2>1, <2>2 DEF Steady
    <2>5. ThreadTyped(v) /\ v.pc = "recv" /\ v.batch = wal.batch /\ wal' = Looped(v)
      BY <1>8, <2>1, <2>2
    <2> HIDE DEF Goal
    <2> QED  BY <1>7, <1>8, <2>3, <2>4, <2>5
  <1>9. ASSUME wal.abandoned PROVE Goal
    <2>1. wal' = [Abandon(wal) EXCEPT !.pc = "ended"] /\ run' = run
      BY <1>9 DEF Receive
    <2>2. ThreadTyped(wal') /\ Steady(wal, wal') /\ wal'.pc = "ended" /\ wal'.pending = <<>> /\ wal'.batch = wal.batch
      BY <1>3, <2>1, StoppedIs, Zenon
    <2>3. Range(wal'.pending) = {}
      BY <2>2, RangeEmpty
    <2> QED  BY <2>1, <2>2, <2>3 DEF Answered
  <1> HIDE DEF Goal
  <1>10. ASSUME ~wal.abandoned /\ m.type = "begin" PROVE Goal
    <2>1. run' = run /\ (wal' = wal \/ wal' = Looped(Push([wal EXCEPT !.dups = IF Strict THEN @ \cup {m.file} ELSE @ \ {m.file},
                                                          !.bad = @ \ {m.file}], m)))
      BY <1>2, <1>10, Zenon DEF Receive
    <2>2. PICK d \in SUBSET Files : d = IF Strict THEN wal.dups \cup {m.file} ELSE wal.dups \ {m.file}
      BY <1>3, <1>5, <1>10, Zenon DEF ThreadTyped
    <2>3. PICK w : w = [wal EXCEPT !.dups = d, !.bad = @ \ {m.file}]
      OBVIOUS
    <2>4. wal' = wal \/ wal' = Looped(Push(w, m))
      BY <2>1, <2>2, <2>3
    <2>5. ThreadTyped(w) /\ Steady(wal, w) /\ w.pc = "recv" /\ w.batch = wal.batch /\ w.pending = wal.pending
      BY <1>1, <1>3, <2>3 DEF ThreadTyped, Ended, Steady
    <2> QED  BY <1>6, <1>8, <1>10, <2>1, <2>4, <2>5
  <1>11. ASSUME ~wal.abandoned /\ m.type = "range" PROVE Goal
    <2>1. run' = run /\ (wal' = wal \/ wal' = Looped(Push(wal, m)))
      BY <1>2, <1>11, Zenon DEF Receive
    <2>2. Steady(wal, wal)
      BY DEF Steady
    <2> QED  BY <1>1, <1>3, <1>6, <1>8, <1>11, <2>1, <2>2
  <1>12. ASSUME ~wal.abandoned /\ m.type = "close" PROVE Goal
    <2>1. PICK w : w = [wal EXCEPT !.cont = "close", !.closing = m.file]
      OBVIOUS
    <2>2. (wal' = [w EXCEPT !.pc = "flush"] /\ run' = run) \/ Continue(w, run)
      BY <1>2, <1>12, <2>1, Zenon DEF Receive
    <2>3. ThreadTyped(w) /\ Steady(wal, w) /\ w.batch = wal.batch /\ w.pending = wal.pending
      BY <1>3, <2>1 DEF ThreadTyped, Ended, Steady
    <2>4. CASE wal' = [w EXCEPT !.pc = "flush"] /\ run' = run
      <3>1. ThreadTyped(wal') /\ Steady(w, wal') /\ wal'.pc = "flush" /\ wal'.batch = w.batch /\ wal'.pending = w.pending
        BY <2>3, <2>4 DEF ThreadTyped, Ended, Steady
      <3> QED  BY <2>3, <2>4, <3>1 DEF Goal, Answered, Steady
    <2>5. CASE Continue(w, run)
      <3>1. /\ ThreadTyped(wal') /\ wal'.pc \in {"recv", "ended"} /\ Steady(w, wal')
            /\ wal'.pending = w.pending /\ wal'.batch = w.batch /\ Answered
        BY <2>3, <2>5, ContinueIs
      <3> QED  BY <2>3, <3>1 DEF Goal, Steady
    <2> QED  BY <2>2, <2>4, <2>5
  <1>13. ASSUME ~wal.abandoned /\ m.type = "discard" PROVE Goal
    <2>1. run' = run /\ wal' = Looped([wal EXCEPT !.pending = Without(@, {m.file}), !.dups = @ \ {m.file}])
      BY <1>2, <1>13, Zenon DEF Receive
    <2>2. PICK p \in Seq(Entry) : p = Without(wal.pending, {m.file}) /\ Range(p) \subseteq Range(wal.pending)
      BY <1>4, WithoutKeeps
    <2>3. PICK w : w = [wal EXCEPT !.pending = p, !.dups = @ \ {m.file}]
      OBVIOUS
    <2>4. wal' = Looped(w)
      BY <2>1, <2>2, <2>3
    <2>5. ThreadTyped(w) /\ Steady(wal, w) /\ w.pc = "recv" /\ w.batch = wal.batch /\ w.pending = p
      BY <1>1, <1>3, <2>3 DEF ThreadTyped, Ended, Steady
    <2> QED  BY <1>7, <2>1, <2>2, <2>4, <2>5, Zenon
  <1>14. ASSUME ~wal.abandoned /\ m.type = "stop" PROVE Goal
    <2>1. run' = run /\ wal' = [wal EXCEPT !.pc = "flush", !.cont = "stop"]
      BY <1>2, <1>14, Zenon DEF Receive
    <2>2. ThreadTyped(wal') /\ Steady(wal, wal') /\ wal'.pc = "flush" /\ wal'.batch = wal.batch /\ wal'.pending = wal.pending
      BY <1>3, <2>1 DEF ThreadTyped, Ended, Steady
    <2> QED  BY <2>1, <2>2 DEF Goal, Answered
  <1>15. m.type \in {"begin", "range", "close", "discard", "stop"}
    BY <1>MessageFields, Zenon
  <1>16. Goal
    BY <1>9, <1>10, <1>11, <1>12, <1>13, <1>14, <1>15
  <1> QED  BY <1>1, <1>2, <1>16 DEF Goal

\* The timer, and the end of the channel.
LEMMA WaitIs ==
    ASSUME WriterTyped, FlushTimer \/ Disconnected
    PROVE  /\ UNCHANGED <<src, part, dest, seg, gen, run, chan, left>>
           /\ wal.pc = "recv" /\ wal'.pc \in {"flush", "ended"}
           /\ ThreadTyped(wal') /\ Steady(wal, wal') /\ wal'.batch = wal.batch
           /\ Range(wal'.pending) \subseteq Range(wal.pending)
  <1>1. UNCHANGED <<src, part, dest, seg, gen, run, chan, left>> /\ wal.pc = "recv"
    BY DEF FlushTimer, Disconnected
  <1>2. ThreadTyped(wal)
    BY DEF WriterTyped
  <1>3. wal' = [Abandon(wal) EXCEPT !.pc = "ended"] \/ wal' = [wal EXCEPT !.pc = "flush", !.cont = "loop"]
    BY DEF FlushTimer, Disconnected
  <1>4. CASE wal' = [Abandon(wal) EXCEPT !.pc = "ended"]
    <2>1. ThreadTyped(wal') /\ Steady(wal, wal') /\ wal'.pc = "ended" /\ wal'.pending = <<>> /\ wal'.batch = wal.batch
      BY <1>2, <1>4, StoppedIs, Zenon
    <2> QED  BY <1>1, <2>1, RangeEmpty
  <1>5. CASE wal' = [wal EXCEPT !.pc = "flush", !.cont = "loop"]
    <2>1. /\ ThreadTyped(wal') /\ Steady(wal, wal') /\ wal'.pc = "flush"
          /\ wal'.pending = wal.pending /\ wal'.batch = wal.batch
      BY <1>2, <1>5 DEF ThreadTyped, Ended, Steady
    <2> QED  BY <1>1, <2>1
  <1> QED  BY <1>3, <1>4, <1>5

\* A flush begins: with a batch, or it ends at once.
LEMMA BeginFlushIs ==
    ASSUME WriterTyped, BeginFlush
    PROVE  /\ UNCHANGED <<src, part, dest, seg, gen, chan, left>> /\ Answered
           /\ wal.pc = "flush" /\ ThreadTyped(wal')
           /\ wal'.open = wal.open /\ wal'.dead = wal.dead /\ wal'.next = wal.next
           /\ wal'.pending = <<>>
           /\ \/ wal'.pc \in {"recv", "ended"} /\ wal'.late = wal.late /\ wal'.batch = wal.batch
              \/ wal'.pc = "sync" /\ wal'.late = FALSE /\ wal'.batch = wal.pending /\ ~wal.dead
  <1>1. UNCHANGED <<src, part, dest, seg, gen, chan, left>> /\ wal.pc = "flush"
    BY DEF BeginFlush
  <1>2. ThreadTyped(wal)
    BY DEF WriterTyped
  <1>3. ASSUME NEW w, ThreadTyped(w), Steady(wal, w), w.pending = <<>>, w.batch = wal.batch, Continue(w, run)
        PROVE  /\ Answered /\ ThreadTyped(wal') /\ Steady(wal, wal')
               /\ wal'.pending = <<>> /\ wal'.pc \in {"recv", "ended"} /\ wal'.batch = wal.batch
    <2>1. /\ ThreadTyped(wal') /\ wal'.pc \in {"recv", "ended"} /\ Steady(w, wal')
          /\ wal'.pending = w.pending /\ wal'.batch = w.batch /\ Answered
      BY <1>3, ContinueIs
    <2> QED  BY <1>3, <2>1 DEF Steady
  <1>4. CASE wal.abandoned
    <2>1. Continue(Abandon(wal), run)
      BY <1>4 DEF BeginFlush
    <2>2. ThreadTyped(Abandon(wal)) /\ Steady(wal, Abandon(wal)) /\ Abandon(wal).pending = <<>> /\ Abandon(wal).batch = wal.batch
      BY <1>2, AbandonIs
    <2>3. /\ Answered /\ ThreadTyped(wal') /\ Steady(wal, wal')
          /\ wal'.pending = <<>> /\ wal'.pc \in {"recv", "ended"} /\ wal'.batch = wal.batch
      BY <1>3, <2>1, <2>2
    <2> QED  BY <1>1, <2>3 DEF Steady
  <1>5. CASE ~wal.abandoned /\ (wal.dead \/ wal.pending = <<>>)
    <2>1. PICK w : w = [wal EXCEPT !.pending = <<>>]
      BY Zenon
    <2>2. Continue(w, run)
      BY <1>5, <2>1 DEF BeginFlush
    <2>3. ThreadTyped(w) /\ Steady(wal, w) /\ w.pending = <<>> /\ w.batch = wal.batch
      BY <1>2, <2>1 DEF ThreadTyped, Ended, Steady
    <2>4. /\ Answered /\ ThreadTyped(wal') /\ Steady(wal, wal')
          /\ wal'.pending = <<>> /\ wal'.pc \in {"recv", "ended"} /\ wal'.batch = wal.batch
      BY <1>3, <2>2, <2>3
    <2> QED  BY <1>1, <2>4 DEF Steady
  <1>6. CASE ~wal.abandoned /\ ~(wal.dead \/ wal.pending = <<>>)
    <2>1. /\ wal' = [wal EXCEPT !.pc = "sync", !.batch = wal.pending, !.pending = <<>>, !.late = FALSE]
          /\ run' = run
      BY <1>2, <1>6, Zenon DEF BeginFlush, ThreadTyped
    <2>2. /\ ThreadTyped(wal') /\ wal'.open = wal.open /\ wal'.dead = wal.dead /\ wal'.next = wal.next
          /\ wal'.pending = <<>> /\ wal'.pc = "sync" /\ wal'.late = FALSE /\ wal'.batch = wal.pending
      BY <1>2, <2>1 DEF ThreadTyped, Ended
    <2> QED  BY <1>1, <1>6, <2>1, <2>2 DEF Answered
  <1> QED  BY <1>4, <1>5, <1>6, Zenon

\* The partials after the duplicates of `files' were synced.
LEMMA SyncedPartsIs ==
    ASSUME LogConstants, FilesTyped, NEW files, part' = SyncedParts(files)
    PROVE  /\ part' \in [Files -> Partial \cup {None}]
           /\ \A f \in Files : /\ part'[f] = None <=> part[f] = None
                               /\ part[f] # None => /\ part'[f].data = part[f].data
                                                    /\ part'[f].safe \in Nat /\ part'[f].safe >= part[f].safe
                                                    /\ part'[f].safe <= Len(part'[f].data)
                                                    /\ f \in files => part'[f].safe = Len(part[f].data)
  <1>1. part' = [f \in Files |-> IF f \in files /\ part[f] # None THEN [part[f] EXCEPT !.safe = Len(part[f].data)] ELSE part[f]]
    BY DEF SyncedParts
  <1>2. ASSUME NEW f \in Files
        PROVE  /\ part'[f] \in Partial \cup {None}
               /\ part'[f] = None <=> part[f] = None
               /\ part[f] # None => /\ part'[f].data = part[f].data
                                    /\ part'[f].safe \in Nat /\ part'[f].safe >= part[f].safe
                                    /\ part'[f].safe <= Len(part'[f].data)
                                    /\ f \in files => part'[f].safe = Len(part[f].data)
    <2>1. CASE part[f] = None
      BY <1>1, <2>1
    <2>2. CASE part[f] # None
      <3>1. PICK p \in Partial : p = part[f] /\ p # None
        BY <2>2 DEF FilesTyped
      <3>2. p.data \in Seq(Nat) /\ p.safe \in Nat /\ p.safe <= Len(p.data) /\ Len(p.data) \in Nat
        BY <2>2, <3>1 DEF FilesTyped, Partial
      <3>3. PICK q : q = [p EXCEPT !.safe = Len(p.data)]
        BY Zenon
      <3>4. q \in Partial /\ q.data = p.data /\ q.safe = Len(p.data)
        BY <3>2, <3>3 DEF Partial
      <3>5. q # None
        BY <3>4 DEF LogConstants
      <3>6. part'[f] = IF f \in files THEN q ELSE p
        BY <1>1, <2>2, <3>1, <3>3
      <3> QED  BY <3>1, <3>2, <3>4, <3>5, <3>6
    <2> QED  BY <2>1, <2>2
  <1>3. part' = [f \in Files |-> part'[f]]
    BY <1>1
  <1> QED  BY <1>2, <1>3

\* A batch's data is synced: what is kept of the batch is durable, and everything else is as before.
LEMMA SyncDataIs ==
    ASSUME LogConstants, FilesTyped, WriterTyped, SyncData
    PROVE  /\ UNCHANGED <<src, dest, seg, gen, chan>> /\ Answered
           /\ wal.pc = "sync" /\ wal'.pc \in {"append", "recv", "ended"}
           /\ ThreadTyped(wal') /\ Steady(wal, wal')
           /\ wal'.pending = wal.pending /\ Range(wal'.batch) \subseteq Range(wal.batch)
           /\ \E files : /\ part' = SyncedParts(files)
                         /\ Strict => \A e \in Range(wal'.batch) : e.file \in files
  <1> DEFINE files == {wal.batch[i].file : i \in DOMAIN wal.batch}
  <1>1. UNCHANGED <<src, dest, seg, gen, chan>> /\ wal.pc = "sync"
    BY DEF SyncData
  <1>2. ThreadTyped(wal) /\ wal.batch \in Seq(Entry)
    BY DEF WriterTyped, ThreadTyped
  <1>3. files \subseteq Files /\ \A e \in Range(wal.batch) : e.file \in files
    <2>1. \A i \in DOMAIN wal.batch : wal.batch[i] \in Entry
      BY <1>2, MemberOf
    <2>2. \A i \in DOMAIN wal.batch : wal.batch[i].file \in Files
      BY <2>1 DEF Entry
    <2>3. \A e \in Range(wal.batch) : \E i \in DOMAIN wal.batch : e = wal.batch[i]
      BY DEF Range
    <2> QED  BY <2>2, <2>3
  <1> DEFINE Bad(failed) == wal.bad \cup failed \cup (IF Strict THEN files \ wal.dups ELSE {})
  <1> HIDE DEF files
  <1>4. PICK failed \in IF Strict /\ left.faults > 0 THEN SUBSET (files \cap wal.dups) ELSE {{}} :
          /\ part' = SyncedParts(IF Strict THEN files \ Bad(failed) ELSE {})
          /\ IF Without(wal.batch, Bad(failed)) = <<>>
             THEN Continue([wal EXCEPT !.bad = Bad(failed), !.batch = Without(wal.batch, Bad(failed))], run)
             ELSE /\ wal' = [[wal EXCEPT !.bad = Bad(failed), !.batch = Without(wal.batch, Bad(failed))] EXCEPT !.pc = "append"]
                  /\ UNCHANGED run
    BY Zenon DEF SyncData, files
  <1>5. PICK bad \in SUBSET Files : bad = Bad(failed)
    BY <1>2, <1>3, <1>4, Zenon DEF ThreadTyped
  <1> HIDE DEF Bad
  <1>6. PICK keep : keep = Without(wal.batch, bad)
    OBVIOUS
  <1>7. keep \in Seq(Entry) /\ Range(keep) \subseteq {e \in Range(wal.batch) : e.file \notin bad}
    BY <1>2, <1>6, WithoutKeeps
  <1>8. PICK w : w = [wal EXCEPT !.bad = bad, !.batch = keep]
    OBVIOUS
  <1>9. ThreadTyped(w) /\ Steady(wal, w) /\ w.pending = wal.pending /\ w.batch = keep /\ w.pc = "sync"
    BY <1>1, <1>2, <1>7, <1>8 DEF ThreadTyped, Ended, Steady
  <1>10. Continue(w, run) \/ (wal' = [w EXCEPT !.pc = "append"] /\ run' = run)
    BY <1>4, <1>5, <1>6, <1>8
  <1>11. /\ Answered /\ ThreadTyped(wal') /\ Steady(wal, wal') /\ wal'.pc \in {"append", "recv", "ended"}
         /\ wal'.pending = wal.pending /\ wal'.batch = keep
    <2>1. CASE Continue(w, run)
      <3>1. /\ ThreadTyped(wal') /\ wal'.pc \in {"recv", "ended"} /\ Steady(w, wal')
            /\ wal'.pending = w.pending /\ wal'.batch = w.batch /\ Answered
        BY <1>9, <2>1, ContinueIs
      <3> QED  BY <1>9, <3>1 DEF Steady
    <2>2. CASE wal' = [w EXCEPT !.pc = "append"] /\ run' = run
      <3>1. /\ ThreadTyped(wal') /\ wal'.pc = "append" /\ Steady(w, wal')
            /\ wal'.pending = w.pending /\ wal'.batch = w.batch
        BY <1>9, <2>2 DEF ThreadTyped, Ended, Steady
      <3> QED  BY <1>9, <2>2, <3>1 DEF Steady, Answered
    <2> QED  BY <1>10, <2>1, <2>2
  <1>12. PICK synced : synced = IF Strict THEN files \ bad ELSE {}
    BY Zenon
  <1>13. part' = SyncedParts(synced) /\ (Strict => \A e \in Range(keep) : e.file \in synced)
    BY <1>3, <1>4, <1>5, <1>7, <1>12
  <1> QED  BY <1>1, <1>7, <1>11, <1>13

\* The records a batch is encoded to.
LEMMA EncodedIs ==
    ASSUME ThreadTyped(wal), gen \in Nat \ {0}
    PROVE  /\ Encoded(wal) \in Seq(Cell) /\ Len(Encoded(wal)) = Len(wal.batch)
           /\ \A i \in 1 .. Len(wal.batch) :
                /\ wal.batch[i] \in Entry /\ wal.batch[i] \in Range(wal.batch)
                /\ Encoded(wal)[i] = [gen |-> gen, seq |-> wal.next + i - 1, file |-> wal.batch[i].file, body |-> wal.batch[i].body]
  <1>1. wal.batch \in Seq(Entry) /\ wal.next \in Nat \ {0} /\ Len(wal.batch) \in Nat /\ DOMAIN wal.batch = 1 .. Len(wal.batch)
    BY DEF ThreadTyped
  <1>2. Encoded(wal) = [i \in 1 .. Len(wal.batch) |->
            [gen |-> gen, seq |-> wal.next + i - 1, file |-> wal.batch[i].file, body |-> wal.batch[i].body]]
    BY <1>1 DEF Encoded
  <1>3. ASSUME NEW i \in 1 .. Len(wal.batch)
        PROVE  /\ wal.batch[i] \in Entry /\ wal.batch[i] \in Range(wal.batch)
               /\ [gen |-> gen, seq |-> wal.next + i - 1, file |-> wal.batch[i].file, body |-> wal.batch[i].body] \in Cell
    <2>1. wal.batch[i] \in Entry /\ wal.batch[i] \in Range(wal.batch)
      BY <1>1 DEF Range
    <2>2. wal.batch[i].file \in Files /\ wal.batch[i].body \in Body /\ wal.next + i - 1 \in Nat \ {0}
      BY <1>1, <2>1 DEF Entry
    <2> QED  BY <2>1, <2>2 DEF Cell
  <1>4. Encoded(wal) \in Seq(Cell)
    BY <1>1, <1>2, <1>3
  <1>5. Len(Encoded(wal)) = Len(wal.batch)
    BY <1>1, <1>2
  <1> QED  BY <1>2, <1>3, <1>4, <1>5

\* What an append that does not finish leaves: some of the records, perhaps with a torn one behind them.
LEMMA TornIs ==
    ASSUME NEW recs \in Seq(Cell), NEW t \in Torn(recs)
    PROVE  /\ t \in Seq(Cell)
           /\ \E n \in 0 .. Len(recs) : t = SubSeq(recs, 1, n) \/ t = SubSeq(recs, 1, n) \o <<Damage("torn")>>
  <1>1. PICK n \in 0 .. Len(recs) - 1 : t = SubSeq(recs, 1, n) \/ t = SubSeq(recs, 1, n) \o <<Damage("torn")>>
    BY Zenon DEF Torn
  <1>2. n \in 0 .. Len(recs) /\ SubSeq(recs, 1, n) \in Seq(Cell)
    BY <1>1
  <1>3. Damage("torn") \in Cell
    BY DEF Cell
  <1>4. SubSeq(recs, 1, n) \o <<Damage("torn")>> \in Seq(Cell)
    BY <1>2, <1>3
  <1> QED  BY <1>1, <1>2, <1>4, SMTT(60)

\* More cells at the end of a log.
LEMMA LongerLog ==
    ASSUME NEW s \in Log, s.safe <= Len(s.cells), NEW t \in Seq(Cell), NEW l, l = [s EXCEPT !.cells = @ \o t]
    PROVE  l \in Log /\ l.cells = s.cells \o t /\ l.safe = s.safe /\ l.safe <= Len(l.cells) /\ l.named = s.named
  <1>1. s.cells \in Seq(Cell) /\ s.safe \in Nat /\ s.cells \o t \in Seq(Cell) /\ Len(s.cells \o t) = Len(s.cells) + Len(t)
    BY DEF Log
  <1>2. PICK c \in Seq(Cell) : c = s.cells \o t /\ Len(c) = Len(s.cells) + Len(t)
    BY <1>1, Zenon
  <1>3. l = [s EXCEPT !.cells = c]
    BY <1>2
  <1>4. l \in Log /\ l.cells = c /\ l.safe = s.safe /\ l.named = s.named
    BY <1>3, Zenon DEF Log
  <1> QED  BY <1>1, <1>2, <1>4

\* The segment an append goes to.
LEMMA SegmentIs ==
    ASSUME LogTyped, WriterTyped
    PROVE  /\ Segment(wal) \in Log /\ Segment(wal).safe <= Len(Segment(wal).cells)
           /\ wal.open => Segment(wal) = seg /\ seg # None
           /\ ~wal.open => Segment(wal).cells = <<>> /\ Segment(wal).safe = 0
  <1>1. CASE wal.open
    BY <1>1 DEF Segment, LogTyped, WriterTyped
  <1>2. CASE ~wal.open
    <2>1. Segment(wal) = [cells |-> <<>>, safe |-> 0, named |-> FALSE]
      BY <1>2 DEF Segment
    <2>2. <<>> \in Seq(Cell)
      OBVIOUS
    <2> QED  BY <1>2, <2>1, <2>2 DEF Log
  <1> QED  BY <1>1, <1>2

\* The thread after its log died in this step.
Died == /\ ThreadTyped(wal') /\ wal'.pc \in {"recv", "ended"} /\ wal'.pending = <<>> /\ wal'.batch = <<>>
        /\ wal'.open = FALSE /\ wal'.dead = TRUE /\ wal'.next = wal.next /\ wal'.late = wal.late

\* The writer after a failed append or sync: the log is dead (fail_wal).
LEMMA DiedIs ==
    ASSUME ThreadTyped(wal), Continue(FailWal(wal), run)
    PROVE  Died /\ Answered
  \* A log that died.
  <1>FailWalIs. ASSUME NEW w, ThreadTyped(w)
                PROVE  /\ ThreadTyped(FailWal(w)) /\ FailWal(w).pending = <<>> /\ FailWal(w).batch = <<>>
                       /\ FailWal(w).open = FALSE /\ FailWal(w).dead = TRUE /\ FailWal(w).next = w.next /\ FailWal(w).late = w.late
    BY <1>FailWalIs DEF FailWal, ThreadTyped, Ended
  <1>1. PICK w : w = FailWal(wal)
    OBVIOUS
  <1>2. /\ ThreadTyped(w) /\ w.pending = <<>> /\ w.batch = <<>>
        /\ w.open = FALSE /\ w.dead = TRUE /\ w.next = wal.next /\ w.late = wal.late
    BY <1>1, <1>FailWalIs, Zenon
  <1>3. /\ ThreadTyped(wal') /\ wal'.pc \in {"recv", "ended"} /\ Steady(w, wal')
        /\ wal'.pending = w.pending /\ wal'.batch = w.batch /\ Answered
    BY <1>1, <1>2, ContinueIs
  <1> QED  BY <1>2, <1>3 DEF Steady, Died

\* A batch is appended, or the log dies with part of it written.
LEMMA AppendIs ==
    ASSUME FilesTyped, LogTyped, WriterTyped, AppendRecords
    PROVE  /\ UNCHANGED <<src, part, dest, gen, chan>> /\ Answered /\ wal.pc = "append"
           /\ \/ /\ seg' = [Segment(wal) EXCEPT !.cells = @ \o Encoded(wal)]
                 /\ ThreadTyped(wal') /\ wal'.pc \in {"walsync", "recv", "ended"}
                 /\ wal'.open = TRUE /\ wal'.dead = wal.dead /\ wal'.next = wal.next + Len(Encoded(wal)) /\ wal'.late = wal.late
                 /\ wal'.pending = wal.pending /\ wal'.batch = <<>>
              \/ /\ Died
                 /\ \/ \E t \in Torn(Encoded(wal)) : seg' = [Segment(wal) EXCEPT !.cells = @ \o t]
                    \/ ~wal.open /\ seg' = seg
  <1>1. UNCHANGED <<src, part, dest, gen, chan>> /\ wal.pc = "append"
    BY DEF AppendRecords
  <1>2. ThreadTyped(wal) /\ gen \in Nat \ {0}
    BY <1>1 DEF WriterTyped, FilesTyped
  <1>3. Len(Encoded(wal)) \in Nat
    BY <1>2, EncodedIs
  <1>4. PICK done : done = [wal EXCEPT !.created = ~wal.open, !.open = TRUE, !.next = @ + Len(Encoded(wal)), !.batch = <<>>]
    OBVIOUS
  <1>5. \/ /\ seg' = [Segment(wal) EXCEPT !.cells = @ \o Encoded(wal)]
           /\ \/ wal' = [done EXCEPT !.pc = "walsync"] /\ run' = run
              \/ Continue([done EXCEPT !.created = FALSE], run)
        \/ /\ seg' \in {[Segment(wal) EXCEPT !.cells = @ \o t] : t \in Torn(Encoded(wal))} \cup (IF wal.open THEN {} ELSE {seg})
           /\ Continue(FailWal(wal), run)
    BY <1>4, SMTT(60) DEF AppendRecords
  <1>6. /\ ThreadTyped(done) /\ done.pc = "append" /\ done.pending = wal.pending /\ done.batch = <<>>
        /\ done.open = TRUE /\ done.dead = wal.dead /\ done.next = wal.next + Len(Encoded(wal)) /\ done.late = wal.late
    <2>1. PICK c \in BOOLEAN : c = ~wal.open
      BY Zenon
    <2>2. PICK n \in Nat \ {0} : n = wal.next + Len(Encoded(wal))
      BY <1>2, <1>3 DEF ThreadTyped
    <2>3. done = [wal EXCEPT !.created = c, !.open = TRUE, !.next = n, !.batch = <<>>]
      BY <1>4, <2>1, <2>2
    <2>4. <<>> \in Seq(Entry)
      OBVIOUS
    <2> QED  BY <1>1, <1>2, <2>2, <2>3, <2>4 DEF ThreadTyped, Ended
  <1>7. ASSUME wal' = [done EXCEPT !.pc = "walsync"] /\ run' = run
        PROVE  /\ Answered /\ ThreadTyped(wal') /\ wal'.pc = "walsync" /\ Steady(done, wal')
               /\ wal'.pending = done.pending /\ wal'.batch = done.batch
    BY <1>6, <1>7, Zenon DEF ThreadTyped, Ended, Steady, Answered
  <1>8. ASSUME Continue([done EXCEPT !.created = FALSE], run)
        PROVE  /\ Answered /\ ThreadTyped(wal') /\ wal'.pc \in {"recv", "ended"} /\ Steady(done, wal')
               /\ wal'.pending = done.pending /\ wal'.batch = done.batch
    <2>1. PICK w : w = [done EXCEPT !.created = FALSE]
      BY Zenon
    <2>2. ThreadTyped(w) /\ Steady(done, w) /\ w.pending = done.pending /\ w.batch = done.batch
      BY <1>6, <2>1, Zenon DEF ThreadTyped, Ended, Steady
    <2>3. /\ ThreadTyped(wal') /\ wal'.pc \in {"recv", "ended"} /\ Steady(w, wal')
          /\ wal'.pending = w.pending /\ wal'.batch = w.batch /\ Answered
      BY <1>8, <2>1, <2>2, ContinueIs, Zenon
    <2> QED  BY <2>2, <2>3 DEF Steady
  <1>9. CASE /\ seg' = [Segment(wal) EXCEPT !.cells = @ \o Encoded(wal)]
             /\ \/ wal' = [done EXCEPT !.pc = "walsync"] /\ run' = run
                \/ Continue([done EXCEPT !.created = FALSE], run)
    <2>1. /\ Answered /\ ThreadTyped(wal') /\ wal'.pc \in {"walsync", "recv", "ended"} /\ Steady(done, wal')
          /\ wal'.pending = done.pending /\ wal'.batch = done.batch
      BY <1>7, <1>8, <1>9
    <2> QED  BY <1>1, <1>6, <1>9, <2>1 DEF Steady
  <1>10. CASE /\ seg' \in {[Segment(wal) EXCEPT !.cells = @ \o t] : t \in Torn(Encoded(wal))} \cup (IF wal.open THEN {} ELSE {seg})
              /\ Continue(FailWal(wal), run)
    <2>1. Died /\ Answered
      BY <1>2, <1>10, DiedIs
    <2> QED  BY <1>1, <1>10, <2>1, SMTT(60)
  <1> QED  BY <1>5, <1>9, <1>10, Zenon

\* The log is synced, or it dies.
LEMMA SyncLogIs ==
    ASSUME LogTyped, WriterTyped, SyncLog
    PROVE  /\ UNCHANGED <<src, part, dest, gen, chan>> /\ Answered /\ wal.pc = "walsync" /\ seg # None
           /\ \/ /\ seg' = [seg EXCEPT !.safe = Len(seg.cells), !.named = @ \/ wal.created]
                 /\ ThreadTyped(wal') /\ wal'.pc \in {"recv", "ended"} /\ Steady(wal, wal')
                 /\ wal'.pending = wal.pending /\ wal'.batch = wal.batch
              \/ Died /\ seg' = seg
  <1>1. /\ UNCHANGED <<src, part, dest, gen, chan>> /\ wal.pc = "walsync" /\ seg # None
    BY DEF SyncLog, WriterTyped
  <1>2. ThreadTyped(wal)
    BY DEF WriterTyped
  <1>3. \/ /\ seg' = [seg EXCEPT !.safe = Len(seg.cells), !.named = @ \/ wal.created]
           /\ Continue([wal EXCEPT !.created = FALSE], run)
        \/ Continue(FailWal(wal), run) /\ seg' = seg
    BY DEF SyncLog
  <1>4. ASSUME Continue([wal EXCEPT !.created = FALSE], run)
        PROVE  /\ Answered /\ ThreadTyped(wal') /\ wal'.pc \in {"recv", "ended"} /\ Steady(wal, wal')
               /\ wal'.pending = wal.pending /\ wal'.batch = wal.batch
    <2>1. PICK w : w = [wal EXCEPT !.created = FALSE]
      BY Zenon
    <2>2. ThreadTyped(w) /\ Steady(wal, w) /\ w.pending = wal.pending /\ w.batch = wal.batch
      BY <1>2, <2>1 DEF ThreadTyped, Ended, Steady
    <2>3. /\ ThreadTyped(wal') /\ wal'.pc \in {"recv", "ended"} /\ Steady(w, wal')
          /\ wal'.pending = w.pending /\ wal'.batch = w.batch /\ Answered
      BY <1>4, <2>1, <2>2, ContinueIs, Zenon
    <2> QED  BY <2>2, <2>3 DEF Steady
  <1>5. ASSUME Continue(FailWal(wal), run) PROVE Died /\ Answered
    BY <1>2, <1>5, DiedIs
  <1> QED  BY <1>1, <1>3, <1>4, <1>5

----------------------------------------------------------------------------
(* What a crash leaves. *)

\* Of the log: its synced cells, and of the others some, damaged or not.
LEMMA SegmentLossIs ==
    ASSUME NEW s \in Log, s.safe <= Len(s.cells), NEW r \in SegmentsAfterLoss(s), r # None
    PROVE  /\ r \in Log /\ r.safe = s.safe /\ r.safe <= Len(r.cells) /\ Len(r.cells) <= Len(s.cells)
           /\ \A i \in 1 .. Len(r.cells) : \/ r.cells[i] = s.cells[i]
                                           \/ i > s.safe /\ r.cells[i] \in {Damage("torn"), Damage("zero")}
  <1>0. PICK n \in s.safe .. Len(s.cells), d \in {"torn", "zero"} : \E D \in SUBSET (s.safe + 1 .. n) :
          r = [cells |-> [i \in 1 .. n |-> IF i \in D THEN Damage(d) ELSE s.cells[i]], safe |-> s.safe, named |-> TRUE]
    <2> DEFINE ruined(n, d) == {[cells |-> [i \in 1 .. n |-> IF i \in D THEN Damage(d) ELSE s.cells[i]],
                                 safe |-> s.safe, named |-> TRUE] : D \in SUBSET (s.safe + 1 .. n)}
    <2>1. SegmentsAfterLoss(s) = (IF s.named THEN {} ELSE {None})
              \cup UNION {ruined(n, "torn") \cup ruined(n, "zero") : n \in s.safe .. Len(s.cells)}
      BY Zenon DEF SegmentsAfterLoss
    <2> HIDE DEF ruined
    <2>2. PICK n \in s.safe .. Len(s.cells) : r \in ruined(n, "torn") \/ r \in ruined(n, "zero")
      BY Zenon, <2>1
    <2>3. PICK d \in {"torn", "zero"} : r \in ruined(n, d)
      BY <2>2
    <2>4. \E D \in SUBSET (s.safe + 1 .. n) :
            r = [cells |-> [i \in 1 .. n |-> IF i \in D THEN Damage(d) ELSE s.cells[i]], safe |-> s.safe, named |-> TRUE]
      BY Zenon, <2>3 DEF ruined
    <2> QED  BY <2>3, <2>4, Zenon
  <1>1. PICK D \in SUBSET (s.safe + 1 .. n) :
          r = [cells |-> [i \in 1 .. n |-> IF i \in D THEN Damage(d) ELSE s.cells[i]], safe |-> s.safe, named |-> TRUE]
    BY <1>0, Zenon
  <1>2. s.cells \in Seq(Cell) /\ s.safe \in Nat /\ Len(s.cells) \in Nat /\ n \in Nat
    BY <1>1 DEF Log
  <1>3. Damage(d) \in Cell
    BY <1>1 DEF Cell
  <1> DEFINE c == [i \in 1 .. n |-> IF i \in D THEN Damage(d) ELSE s.cells[i]]
  <1>4. \A i \in 1 .. n : i \in 1 .. Len(s.cells) /\ s.cells[i] \in Cell
    BY <1>2
  <1>5. c \in Seq(Cell) /\ Len(c) = n
    BY <1>2, <1>3, <1>4
  <1>6. \A i \in 1 .. n : c[i] = s.cells[i] \/ (i > s.safe /\ c[i] = Damage(d))
    BY <1>2
  <1> HIDE DEF c
  <1>7. r = [cells |-> c, safe |-> s.safe, named |-> TRUE]
    BY <1>1 DEF c
  <1>8. r.cells = c /\ r.safe = s.safe /\ r \in Log
    BY <1>2, <1>5, <1>7 DEF Log
  <1> QED  BY <1>0, <1>2, <1>5, <1>6, <1>8

\* The log as an append in flight at the crash leaves it.
Torned(s) == \/ s = seg
             \/ wal.pc = "append" /\ \E t \in Torn(Encoded(wal)) : s = [Segment(wal) EXCEPT !.cells = @ \o t]

\* A crash: the log as above, less what a power loss takes of it and of one partial.
LEMMA CrashIs ==
    ASSUME LogConstants, FilesTyped, NEW kind, Crash(kind)
    PROVE  /\ UNCHANGED <<src, dest>>
           /\ run' = [Down EXCEPT !.todo = Unpublished] /\ chan' = <<>> /\ wal' = Ended
           /\ gen' \in Nat /\ (Strict => gen' = gen)
           /\ FilesTyped'
           /\ \E s : /\ Torned(s)
                     /\ \/ kind = "process" /\ seg' = s
                        \/ kind = "power" /\ seg' \in IF s = None THEN {None} ELSE SegmentsAfterLoss(s)
  \* Of a partial: nothing, or its synced units and some of the others, lost or not.
  <1>PartialLossIs. ASSUME NEW p \in Partial, p.safe <= Len(p.data), NEW r \in PartialsAfterLoss(p), r # None
                    PROVE  r \in Partial /\ r.safe <= Len(r.data)
    <2> USE <1>PartialLossIs
    <2>1. PICK n \in p.safe .. Len(p.data) :
            r \in {[data |-> [i \in 1 .. n |-> IF i \in D THEN Lost ELSE p.data[i]], safe |-> n] : D \in SUBSET (p.safe + 1 .. n)}
      BY Zenon DEF PartialsAfterLoss
    <2>2. PICK D \in SUBSET (p.safe + 1 .. n) :
            r = [data |-> [i \in 1 .. n |-> IF i \in D THEN Lost ELSE p.data[i]], safe |-> n]
      BY Zenon, <2>1
    <2>3. p.data \in Seq(Nat) /\ p.safe \in Nat /\ Len(p.data) \in Nat /\ n \in Nat /\ Lost \in Nat
      BY <2>1 DEF Partial, Lost
    <2>4. \A i \in 1 .. n : i \in 1 .. Len(p.data) /\ p.data[i] \in Nat
      BY <2>3, SMTT(60)
    <2> DEFINE c == [i \in 1 .. n |-> IF i \in D THEN Lost ELSE p.data[i]]
    <2>5. c \in Seq(Nat) /\ Len(c) = n
      BY <2>3, <2>4
    <2> HIDE DEF c
    <2>6. r = [data |-> c, safe |-> n]
      BY <2>2 DEF c
    <2> QED  BY <2>3, <2>5, <2>6 DEF Partial
  <1>1. UNCHANGED <<src, dest>> /\ run' = [Down EXCEPT !.todo = Unpublished] /\ chan' = <<>> /\ wal' = Ended
    BY DEF Crash
  <1> DEFINE torn == IF wal.pc # "append" THEN {seg}
                     ELSE {seg} \cup {[Segment(wal) EXCEPT !.cells = @ \o t] : t \in Torn(Encoded(wal))}
  <1>2. \A s \in torn : Torned(s)
    BY DEF Torned
  <1> HIDE DEF torn
  <1>3. \/ kind = "process" /\ seg' \in torn /\ UNCHANGED <<part, gen>>
        \/ /\ kind = "power"
           /\ \E s \in torn : seg' \in IF s = None THEN {None} ELSE SegmentsAfterLoss(s)
           /\ \E f \in Files : part' \in {[part EXCEPT ![f] = p] : p \in IF part[f] = None THEN {None} ELSE PartialsAfterLoss(part[f])}
           /\ gen' \in IF Strict THEN {gen} ELSE 0 .. gen
    BY Zenon DEF Crash, torn
  <1>4. gen' \in Nat /\ (Strict => gen' = gen)
    BY <1>3 DEF FilesTyped
  <1>5. \E s : /\ Torned(s)
               /\ \/ kind = "process" /\ seg' = s
                  \/ kind = "power" /\ seg' \in IF s = None THEN {None} ELSE SegmentsAfterLoss(s)
    <2>1. CASE kind = "process" /\ seg' \in torn
      BY <1>2, <2>1
    <2>2. CASE kind = "power" /\ \E s \in torn : seg' \in IF s = None THEN {None} ELSE SegmentsAfterLoss(s)
      <3>1. PICK s \in torn : seg' \in IF s = None THEN {None} ELSE SegmentsAfterLoss(s)
        BY <2>2
      <3> QED  BY <1>2, <2>2, <3>1
    <2> QED  BY <1>3, <2>1, <2>2
  <1>6. CASE UNCHANGED part
    BY <1>1, <1>4, <1>5, <1>6 DEF FilesTyped
  <1>7. ASSUME NEW f \in Files, NEW p \in IF part[f] = None THEN {None} ELSE PartialsAfterLoss(part[f]),
               part' = [part EXCEPT ![f] = p]
        PROVE  FilesTyped'
    <2>1. p = None \/ (p \in Partial /\ p.safe <= Len(p.data))
      <3>1. CASE part[f] = None
        BY <1>7, <3>1
      <3>2. CASE part[f] # None /\ p # None
        <4>1. part[f] \in Partial /\ part[f].safe <= Len(part[f].data) /\ p \in PartialsAfterLoss(part[f])
          BY <1>7, <3>2 DEF FilesTyped
        <4> QED  BY <3>2, <4>1, <1>PartialLossIs
      <3> QED  BY <3>1, <3>2
    <2>2. part \in [Files -> Partial \cup {None}] /\ part' \in [Files -> Partial \cup {None}]
      BY <1>7, <2>1 DEF FilesTyped
    <2>3. ASSUME NEW g \in Files, part'[g] # None PROVE part'[g].safe <= Len(part'[g].data)
      BY <1>7, <2>1, <2>2, <2>3 DEF FilesTyped
    <2> QED  BY <1>1, <1>4, <2>2, <2>3 DEF FilesTyped
  <1>8. UNCHANGED part \/ \E f \in Files : \E p \in IF part[f] = None THEN {None} ELSE PartialsAfterLoss(part[f]) : part' = [part EXCEPT ![f] = p]
    BY Zenon, <1>3
  <1> QED  BY <1>1, <1>4, <1>5, <1>6, <1>7, <1>8, SMTT(60)

----------------------------------------------------------------------------
(* The writer, the environment and the theorem. *)

\* A log a crash leaves is a log.
LEMMA TornedTyped ==
    ASSUME FilesTyped, LogTyped, WriterTyped, NEW s, Torned(s)
    PROVE  s = None \/ (s \in Log /\ s.safe <= Len(s.cells))
  <1>1. CASE s = seg
    BY <1>1 DEF LogTyped
  <1>2. ASSUME NEW t \in Torn(Encoded(wal)), wal.pc = "append", s = [Segment(wal) EXCEPT !.cells = @ \o t]
        PROVE  s \in Log /\ s.safe <= Len(s.cells)
    <2>1. ThreadTyped(wal) /\ gen \in Nat \ {0}
      BY <1>2 DEF WriterTyped, FilesTyped
    <2>2. t \in Seq(Cell)
      BY <2>1, EncodedIs, TornIs
    <2>3. PICK l \in Log : l = Segment(wal) /\ l.safe <= Len(l.cells)
      BY SegmentIs
    <2>4. s = [l EXCEPT !.cells = @ \o t]
      BY <1>2, <2>3
    <2> QED  BY <2>2, <2>3, <2>4, LongerLog, Zenon
  <1> QED  BY <1>1, <1>2 DEF Torned

\* What a source may become: as long as before, or one unit longer.
LEMMA SourceChangeIs ==
    ASSUME FilesTyped, NEW f \in Files, NEW kind, SourceChange(f, kind)
    PROVE  /\ UNCHANGED <<part, dest, seg, gen, run, chan, wal>>
           /\ src' \in [Files -> [data : Seq(Nat), stamp : Nat]]
           /\ kind # "grow" => \A g \in Files : Len(src'[g].data) = Len(src[g].data)
  <1>1. UNCHANGED <<part, dest, seg, gen, run, chan, wal>>
    BY DEF SourceChange
  <1>2. /\ src \in [Files -> [data : Seq(Nat), stamp : Nat]]
        /\ src[f].data \in Seq(Nat) /\ src[f].stamp \in Nat /\ Len(src[f].data) \in Nat
    BY DEF FilesTyped
  <1>3. ASSUME NEW i \in DOMAIN src[f].data,
               src' = [src EXCEPT ![f].data[i] = @ + 10, ![f].stamp = IF kind = "edit" THEN @ + 1 ELSE @]
        PROVE  /\ src' \in [Files -> [data : Seq(Nat), stamp : Nat]]
               /\ \A g \in Files : Len(src'[g].data) = Len(src[g].data)
    <2>1. PICK d : d = [src[f].data EXCEPT ![i] = @ + 10]
      BY Zenon
    <2>2. d \in Seq(Nat) /\ Len(d) = Len(src[f].data)
      BY <1>2, <2>1
    <2>3. PICK t \in Nat : t = IF kind = "edit" THEN src[f].stamp + 1 ELSE src[f].stamp
      BY <1>2
    <2>4. src' = [src EXCEPT ![f].data = d, ![f].stamp = IF kind = "edit" THEN @ + 1 ELSE @]
      BY Zenon, <1>2, <1>3, <2>1
    <2>5. PICK m : m = [src EXCEPT ![f].data = d]
      BY Zenon
    <2>6. m \in [Files -> [data : Seq(Nat), stamp : Nat]] /\ m[f].stamp = src[f].stamp
      BY <1>2, <2>2, <2>5
    <2>7. src' = [m EXCEPT ![f].stamp = IF kind = "edit" THEN @ + 1 ELSE @]
      BY <2>4, <2>5
    <2>8. src' = [m EXCEPT ![f].stamp = t]
      BY <2>3, <2>6, <2>7
    <2>9. src' \in [Files -> [data : Seq(Nat), stamp : Nat]] /\ \A g \in Files : src'[g].data = m[g].data
      BY <2>6, <2>8
    <2>10. \A g \in Files : Len(m[g].data) = Len(src[g].data)
      BY <1>2, <2>2, <2>5
    <2> QED  BY <2>9, <2>10, Zenon
  <1>4. ASSUME src' = [src EXCEPT ![f].data = Append(@, Len(@) + 1), ![f].stamp = @ + 1]
        PROVE  src' \in [Files -> [data : Seq(Nat), stamp : Nat]]
    <2>1. PICK d \in Seq(Nat) : d = Append(src[f].data, Len(src[f].data) + 1)
      <3>1. PICK e \in Nat : e = Len(src[f].data) + 1
        BY <1>2
      <3>2. Append(src[f].data, e) \in Seq(Nat)
        BY <1>2
      <3> QED  BY <3>1, <3>2, Zenon
    <2>2. PICK t \in Nat : t = src[f].stamp + 1
      BY <1>2
    <2>3. src' = [src EXCEPT ![f] = [data |-> d, stamp |-> t]]
      BY <1>2, <1>4, <2>1, <2>2, SMTT(60)
    <2> QED  BY <1>2, <2>3
  <1>5. \/ \E i \in DOMAIN src[f].data :
             src' = [src EXCEPT ![f].data[i] = @ + 10, ![f].stamp = IF kind = "edit" THEN @ + 1 ELSE @]
        \/ kind = "grow" /\ src' = [src EXCEPT ![f].data = Append(@, Len(@) + 1), ![f].stamp = @ + 1]
    BY Zenon DEF SourceChange
  <1> QED  BY <1>1, <1>3, <1>4, <1>5, Zenon

\* The initial state.
LEMMA InitCopies ==
    ASSUME LogConstants, Init
    PROVE  CopyInv
  <1>1. FilesTyped
    <2>1. [i \in 1 .. InitLen |-> i] \in Seq(Nat)
      BY DEF LogConstants
    <2> QED  BY <2>1, Zenon DEF Init, FilesTyped
  <1>2. LogTyped /\ PublishedIsRead
    BY DEF Init, LogTyped, PublishedIsRead
  <1>3. RunTyped /\ CopySays
    <2>1. <<>> \in Seq(Cell) /\ <<>> \in Seq(Nat) /\ <<>> \in Seq(Seq(Nat)) /\ <<>> \in Seq(Message)
      OBVIOUS
    <2> QED  BY <2>1 DEF Init, RunTyped, CopySays, Down
  <1>4. WriterTyped
    <2>1. <<>> \in Seq(Message) /\ <<>> \in Seq(Entry) /\ Len(<<>>) = 0
      OBVIOUS
    <2> QED  BY <2>1 DEF Init, WriterTyped, ThreadTyped, Ended, LogConstants
  <1> QED  BY <1>1, <1>2, <1>3, <1>4 DEF CopyInv

\* Every step keeps CopyInv.
LEMMA NextCopies ==
    ASSUME LogConstants, CopyInv, [Next]_vars
    PROVE  CopyInv'
  \* WalSender::send.
  <1>SendMsgCopies. ASSUME SendMsg
                    PROVE  CopyInv'
    <2> USE <1>SendMsgCopies
    <2> USE DEF CopyInv, SendMsg
    <2>1. /\ Head(run.out) \in Message /\ Tail(run.out) \in Seq(Message)
          /\ chan' \in Seq(Message) /\ Len(chan') <= Cap
      BY DEF RunTyped, WriterTyped, LogConstants
    <2>2. FilesTyped' /\ LogTyped' /\ PublishedIsRead'
      BY DEF FilesTyped, LogTyped, PublishedIsRead
    <2>3. RunTyped'
      BY <2>1 DEF RunTyped, Down
    <2>4. WriterTyped'
      BY <2>1 DEF WriterTyped
    <2>5. CopySays'
      BY DEF RunTyped, CopySays, Down
    <2> QED  BY <2>2, <2>3, <2>4, <2>5
  \* The sink asks the log for its fault.
  <1>CheckLogCopies. ASSUME CheckLog
                     PROVE  CopyInv'
    <2> USE <1>CheckLogCopies
    <2> USE DEF CopyInv, CheckLog
    <2>2. FilesTyped' /\ LogTyped' /\ WriterTyped' /\ PublishedIsRead'
      BY DEF FilesTyped, LogTyped, WriterTyped, PublishedIsRead
    <2>3. RunTyped'
      BY Zenon DEF RunTyped, Down
    <2>5. CopySays'
      BY DEF RunTyped, CopySays, Down
    <2> QED  BY <2>2, <2>3, <2>5
  \* The end of a failed file.
  <1>DropFileCopies. ASSUME DropFile
                     PROVE  CopyInv'
    <2> USE <1>DropFileCopies
    <2> USE DEF CopyInv, DropFile
    <2>1. FilesTyped'
      BY SMTT(60) DEF FilesTyped, RunTyped
    <2>2. LogTyped' /\ WriterTyped' /\ PublishedIsRead'
      BY DEF LogTyped, WriterTyped, PublishedIsRead
    <2>3. RunTyped'
      BY DEF RunTyped, Down
    <2>5. CopySays'
      BY DEF RunTyped, CopySays, Down
    <2> QED  BY <2>1, <2>2, <2>3, <2>5
  \* The answer to Close, and giving a message up.
  <1>CloseAnsweredCopies. ASSUME CloseAnswered
                          PROVE  CopyInv'
    <2> USE <1>CloseAnsweredCopies
    <2> USE DEF CopyInv, CloseAnswered
    <2>2. FilesTyped' /\ LogTyped' /\ WriterTyped' /\ PublishedIsRead'
      BY DEF FilesTyped, LogTyped, WriterTyped, PublishedIsRead
    <2>3. RunTyped'
      BY DEF RunTyped, Down
    <2>5. CopySays'
      BY DEF RunTyped, CopySays, Down
    <2> QED  BY <2>2, <2>3, <2>5
  <1>GiveUpSendCopies. ASSUME GiveUpSend
                       PROVE  CopyInv'
    <2> USE <1>GiveUpSendCopies
    <2> USE DEF CopyInv, GiveUpSend
    <2>2. FilesTyped' /\ LogTyped' /\ WriterTyped' /\ PublishedIsRead'
      BY DEF FilesTyped, LogTyped, WriterTyped, PublishedIsRead
    <2>3. RunTyped'
      BY DEF RunTyped, Down
    <2>5. CopySays'
      BY DEF RunTyped, CopySays, Down
    <2> QED  BY <2>2, <2>3, <2>5
  <1>AbortSinkCopies. ASSUME AbortSink
                      PROVE  CopyInv'
    <2> USE <1>AbortSinkCopies
    <2> USE DEF CopyInv, AbortSink
    <2>1. [type |-> "discard", file |-> run.file] \in Message
      BY MessagesTyped, Zenon DEF RunTyped, CopySays
    <2>2. FilesTyped' /\ LogTyped' /\ WriterTyped' /\ PublishedIsRead'
      BY DEF FilesTyped, LogTyped, WriterTyped, PublishedIsRead
    <2>3. RunTyped'
      BY <2>1 DEF RunTyped, Down
    <2>5. CopySays'
      BY DEF RunTyped, CopySays, Down
    <2> QED  BY <2>2, <2>3, <2>5
  \* The end of the run: Stop or the dropped sender, and the join.
  <1>FinishLogCopies. ASSUME FinishLog
                      PROVE  CopyInv'
    <2> USE <1>FinishLogCopies
    <2> USE DEF CopyInv, FinishLog
    <2>1. [type |-> "stop"] \in Message
      BY DEF Message
    <2>2. FilesTyped' /\ LogTyped' /\ PublishedIsRead'
      BY DEF FilesTyped, LogTyped, PublishedIsRead
    <2>3. \/ run' = [run EXCEPT !.pc = "join", !.gone = TRUE]
          \/ run' = [run EXCEPT !.pc = "join", !.out = <<[type |-> "stop"]>>]
      OBVIOUS
    <2>4. RunTyped'
      <3>1. CASE run' = [run EXCEPT !.pc = "join", !.gone = TRUE]
        BY <3>1 DEF RunTyped, Down
      <3>2. CASE run' = [run EXCEPT !.pc = "join", !.out = <<[type |-> "stop"]>>]
        BY <2>1, <3>2 DEF RunTyped, Down
      <3> QED  BY <2>3, <3>1, <3>2
    <2>5. WriterTyped'
      BY ZenonT(60) DEF WriterTyped, ThreadTyped, Ended
    <2>6. CopySays'
      <3>1. run'.pc = "join" /\ run'.file = run.file /\ run'.sink = run.sink /\ run.file = None
        BY <2>3, ZenonT(60) DEF RunTyped, CopySays, Down
      <3> QED  BY <3>1 DEF CopySays
    <2> QED  BY <2>2, <2>4, <2>5, <2>6
  <1>JoinLogCopies. ASSUME JoinLog
                    PROVE  CopyInv'
    <2> USE <1>JoinLogCopies
    <2> USE DEF CopyInv, JoinLog
    <2>2. FilesTyped' /\ LogTyped' /\ PublishedIsRead'
      BY DEF FilesTyped, LogTyped, PublishedIsRead
    <2>3. RunTyped'
      BY DEF RunTyped, Down, Unpublished
    <2>4. WriterTyped'
      <3>1. wal' = Ended /\ wal'.pc = "ended" /\ ~wal'.open /\ chan' = <<>>
        BY DEF Ended
      <3>2. chan' \in Seq(Message) /\ Len(chan') <= Cap
        BY <3>1 DEF LogConstants
      <3>3. ThreadTyped(wal')
        BY <3>1, EndedTyped, Zenon
      <3> QED  BY <3>1, <3>2, <3>3, Zenon DEF WriterTyped
    <2>5. CopySays'
      BY DEF CopySays, Down
    <2> QED  BY <2>2, <2>3, <2>4, <2>5
  \* FileSink::complete.
  <1>CompleteCopies. ASSUME Complete
                     PROVE  CopyInv'
    <2> USE <1>CompleteCopies
    <2> USE DEF CopyInv, Complete
    <2> DEFINE digs == IF run.chunk = <<>> THEN run.digests ELSE Append(run.digests, run.chunk)
               end  == run.index * Chunk + Len(run.chunk)
               sent == (IF digs = <<>> THEN <<>> ELSE <<RangeMsg(run.file, run.start, end, digs)>>)
                          \o <<[type |-> "close", file |-> run.file]>>
    <2>1. run.file \in Files
      BY DEF RunTyped, CopySays
    <2>2. sent \in Seq(Message)
      <3>1. run.start \in Nat /\ digs \in Seq(Seq(Nat))
        BY DEF RunTyped
      <3>2. run.index * Chunk \in Nat /\ Len(run.chunk) \in Nat
        BY SMTT(60) DEF RunTyped, LogConstants
      <3>3. end \in Nat
        BY <3>2
      <3> HIDE DEF digs, end
      <3>4. RangeMsg(run.file, run.start, end, digs) \in Message /\ [type |-> "close", file |-> run.file] \in Message
        BY <2>1, <3>1, <3>3, MessagesTyped, Zenon
      <3> QED  BY <3>4
    <2>3. run' = IF run.sink = "none" THEN [run EXCEPT !.pc = "staged"]
                 ELSE [run EXCEPT !.pc = "await", !.sink = "ended", !.chunk = <<>>, !.digests = <<>>, !.out = sent]
      OBVIOUS
    <2> HIDE DEF Complete, sent
    <2>4. FilesTyped' /\ LogTyped' /\ WriterTyped' /\ PublishedIsRead'
      BY DEF FilesTyped, LogTyped, WriterTyped, PublishedIsRead, Complete
    <2>5. RunTyped'
      BY <2>2, <2>3 DEF RunTyped, Down
    <2>6. CopySays'
      <3>1. UNCHANGED part /\ run.pc = "stream"
        BY DEF Complete
      <3> QED  BY <2>1, <2>3, <3>1 DEF RunTyped, CopySays, Down, LogConstants
    <2> QED  BY <2>4, <2>5, <2>6
  \* The publication.
  <1>PublishCopies. ASSUME Publish
                    PROVE  CopyInv'
    <2> USE <1>PublishCopies
    <2> USE DEF CopyInv, Publish
    <2>1. run.file \in Files /\ part[run.file].data = run.read
      BY DEF RunTyped, CopySays
    <2>2. LogTyped' /\ WriterTyped'
      BY DEF LogTyped, WriterTyped
    <2>3. FilesTyped'
      BY <2>1 DEF FilesTyped
    <2>4. RunTyped'
      BY DEF RunTyped, Down
    <2>5. CopySays'
      BY DEF CopySays, Down
    <2>6. PublishedIsRead'
      <3>1. CASE dest' = dest
        BY <3>1 DEF PublishedIsRead
      <3>2. CASE dest' = [dest EXCEPT ![run.file] = [data |-> part[run.file].data, read |-> run.read]]
        <4>1. SUFFICES ASSUME NEW f \in Files, dest'[f] # None PROVE dest'[f].data = dest'[f].read
          BY DEF PublishedIsRead
        <4>2. CASE f = run.file
          <5>1. dest'[f] = [data |-> part[run.file].data, read |-> run.read]
            BY <2>1, <3>2, <4>2 DEF FilesTyped
          <5> QED  BY <2>1, <5>1
        <4>3. CASE f # run.file
          <5>1. dest'[f] = dest[f]
            BY <3>2, <4>3 DEF FilesTyped
          <5> QED  BY <4>1, <5>1 DEF PublishedIsRead
        <4> QED  BY <4>2, <4>3
      <3> QED  BY <3>1, <3>2
    <2> QED  BY <2>2, <2>3, <2>4, <2>5, <2>6
  \* A beat that fails.
  <1>BeatFailsCopies. ASSUME BeatFails
                      PROVE  CopyInv'
    <2> USE <1>BeatFailsCopies
    <2> USE DEF CopyInv, BeatFails
    <2>2. FilesTyped' /\ LogTyped' /\ PublishedIsRead'
      BY DEF FilesTyped, LogTyped, PublishedIsRead
    <2>3. RunTyped'
      <3>1. CASE run.pc = "join"
        BY <3>1 DEF RunTyped, Down
      <3>2. CASE run.pc # "join"
        <4>1. PICK k \in {"none", "on", "ended"} :
                 run' = [run EXCEPT !.lost = TRUE, !.pc = "cleanup", !.err = "beat", !.out = <<>>, !.sink = k]
          BY <3>2, Zenon DEF RunTyped, Down
        <4>2. RunTyped
          OBVIOUS
        <4> HIDE DEF BeatFails, CopyInv
        <4> QED  BY <4>1, <4>2 DEF RunTyped, Down
      <3> QED  BY <3>1, <3>2
    <2>4. WriterTyped'
      BY DEF WriterTyped, ThreadTyped, Ended, RunTyped
    <2>5. CopySays'
      BY DEF RunTyped, CopySays, Down
    <2> QED  BY <2>2, <2>3, <2>4, <2>5
  \* The end of everything.
  <1>DoneCopies. ASSUME UNCHANGED vars
                 PROVE  CopyInv'
    BY <1>DoneCopies, SMTT(60) DEF CopyInv, vars, FilesTyped, LogTyped, RunTyped, WriterTyped, CopySays, PublishedIsRead
  \* open_checkpoints.
  <1>OpenLogCopies. ASSUME OpenLog
                    PROVE  CopyInv'
    <2> USE <1>OpenLogCopies
    <2> USE DEF CopyInv
    <2> DEFINE cells == IF seg = None THEN <<>> ELSE seg.cells
               n     == Decoded(cells)
               last  == IF n = 0 THEN [gen |-> 0, seq |-> 0] ELSE cells[n]
               good  == Scan(cells) = "ok" /\ last.gen <= gen + 1
               live  == [Ended EXCEPT !.pc = "recv"]
               cut   == SubSeq(cells, 1, n)
    <2>1. /\ run.pc = "down" /\ gen' = gen + 1 /\ UNCHANGED <<src, part, dest, chan>>
          /\ \/ /\ good
                /\ seg' = IF seg = None THEN None ELSE [seg EXCEPT !.cells = cut, !.safe = MinOf(@, n)]
                /\ wal' = [live EXCEPT !.open = seg # None, !.next = IF last.gen = gen' THEN last.seq + 1 ELSE 1]
                /\ run' = [run EXCEPT !.pc = "next", !.log = TRUE, !.cells = cut]
             \/ /\ seg' = None /\ wal' = live
                /\ run' = [run EXCEPT !.pc = "next", !.log = TRUE]
             \/ /\ run' = [run EXCEPT !.pc = "next"]
                /\ UNCHANGED <<seg, wal>>
      BY DEF OpenLog
    <2>2. cells \in Seq(Cell) /\ n \in 0 .. Len(cells)
      <3>1. cells \in Seq(Cell)
        BY DEF LogTyped, Log
      <3> HIDE DEF cells
      <3> QED  BY <3>1, DecodedIs
    <2>3. cut \in Seq(Cell) /\ Len(cut) = n /\ n \in Nat
      <3> HIDE DEF cells, n
      <3> QED  BY <2>2
    <2>4. last.seq \in Nat
      <3>1. CASE n = 0
        BY <3>1
      <3>2. CASE n # 0
        <4>1. cells[n] \in Cell
          <5> HIDE DEF cells, n
          <5> QED  BY <2>2, <3>2
        <4>2. \A c \in Cell : c.seq \in Nat
          BY DEF Cell, Damage
        <4> QED  BY <3>2, <4>1, <4>2
      <3> QED  BY <3>1, <3>2
    <2> HIDE DEF cells, n, last, good, cut
    <2>0. ASSUME NEW l, seg # None, l = [seg EXCEPT !.cells = cut, !.safe = MinOf(@, n)]
          PROVE  l.cells = cut /\ l.safe = MinOf(seg.safe, n) /\ l \in Log /\ MinOf(seg.safe, n) <= n
      <3>1. seg \in Log /\ seg.safe \in Nat
        BY <2>0 DEF LogTyped, Log
      <3>2. MinOf(seg.safe, n) \in Nat /\ MinOf(seg.safe, n) <= n
        BY <2>3, <3>1 DEF MinOf
      <3> QED  BY <2>0, <2>3, <3>1, <3>2, Zenon DEF Log
    <2>5. FilesTyped' /\ PublishedIsRead'
      BY <2>1 DEF FilesTyped, PublishedIsRead
    <2>6. LogTyped'
      <3>1. CASE seg' = None
        BY <3>1 DEF LogTyped
      <3>2. CASE seg # None /\ seg' = [seg EXCEPT !.cells = cut, !.safe = MinOf(@, n)]
        <4>1. seg'.cells = cut /\ seg'.safe = MinOf(seg.safe, n) /\ seg' \in Log /\ MinOf(seg.safe, n) <= n
          BY <2>0, <3>2, Zenon
        <4> QED  BY <2>3, <4>1 DEF LogTyped
      <3>3. CASE seg' = seg
        BY <3>3 DEF LogTyped
      <3> QED  BY <2>1, <3>1, <3>2, <3>3
    <2>7. RunTyped'
      <3>1. CASE run' = [run EXCEPT !.pc = "next", !.log = TRUE, !.cells = cut]
        BY <2>3, <3>1 DEF RunTyped, Down
      <3>2. CASE run' = [run EXCEPT !.pc = "next", !.log = TRUE]
        BY <3>2 DEF RunTyped, Down
      <3>3. CASE run' = [run EXCEPT !.pc = "next"]
        BY <3>3 DEF RunTyped, Down
      <3> QED  BY <2>1, <3>1, <3>2, <3>3
    <2>8. WriterTyped'
      <3>1. gen' # 0 /\ gen' \in Nat
        BY <2>1 DEF FilesTyped
      <3>2. UNCHANGED chan /\ chan \in Seq(Message) /\ Len(chan) <= Cap
        BY <2>1 DEF WriterTyped
      <3>3. ThreadTyped(live)
        BY DEF ThreadTyped, Ended
      <3>4. ASSUME wal' = [live EXCEPT !.open = seg # None, !.next = IF last.gen = gen' THEN last.seq + 1 ELSE 1]
            PROVE  ThreadTyped(wal')
        <4>1. PICK o \in BOOLEAN : o = (seg # None)
          BY Zenon
        <4>2. PICK q \in Nat \ {0} : q = IF last.gen = gen' THEN last.seq + 1 ELSE 1
          BY <2>4
        <4>3. wal' = [live EXCEPT !.open = o, !.next = q]
          BY <3>4, <4>1, <4>2
        <4> QED  BY <4>3 DEF ThreadTyped, Ended
      <3>5. ThreadTyped(wal') 
        <4>1. ThreadTyped(wal)
          BY DEF WriterTyped
        <4> HIDE DEF live
        <4> QED  BY <2>1, <3>3, <3>4, <4>1
      <3>6. (wal'.open => seg' # None) /\ (wal'.pc = "walsync" => wal'.open)
        <4>1. CASE /\ seg' = IF seg = None THEN None ELSE [seg EXCEPT !.cells = cut, !.safe = MinOf(@, n)]
                   /\ wal' = [live EXCEPT !.open = seg # None, !.next = IF last.gen = gen' THEN last.seq + 1 ELSE 1]
          <5>1. wal'.pc = "recv" /\ (wal'.open => seg # None)
            BY <4>1, Zenon DEF Ended
          <5>2. seg # None => seg' \in Log
            BY <2>0, <4>1, Zenon
          <5> QED  BY <5>1, <5>2 DEF LogConstants
        <4>2. CASE wal' = live
          BY <4>2 DEF Ended
        <4>3. CASE UNCHANGED <<seg, wal>>
          BY <4>3 DEF WriterTyped
        <4> QED  BY <2>1, <4>1, <4>2, <4>3, Zenon
      <3> QED  BY <3>1, <3>2, <3>5, <3>6 DEF WriterTyped
    <2>9. CopySays'
      <3>1. run'.pc = "next" /\ run'.file = run.file /\ run'.sink = run.sink /\ run.file = None
        BY <2>1, ZenonT(60) DEF RunTyped, CopySays, Down
      <3> QED  BY <3>1 DEF CopySays
    <2> QED  BY <2>5, <2>6, <2>7, <2>8, <2>9
  \* Up to the open partial.
  <1>PlanFileCopies. ASSUME NEW f \in Files, PlanFile(f)
                     PROVE  CopyInv'
    <2> USE <1>PlanFileCopies
    <2> USE DEF CopyInv
    <2> DEFINE v == IF run.log THEN PlanResume(run.cells, f) ELSE Fresh
               p == IF v.keep = 0 THEN [data |-> <<>>, safe |-> 0]
                    ELSE [data |-> SubSeq(part[f].data, 1, v.keep), safe |-> MinOf(part[f].safe, v.keep)]
               read == SubSeq(src[f].data, 1, v.keep)
               seen == [len |-> Len(src[f].data), stamp |-> src[f].stamp]
    <2>1. /\ run.pc = "next" /\ f \in run.todo /\ UNCHANGED <<src, dest, seg, gen, chan, wal>>
          /\ part' = [part EXCEPT ![f] = p]
          /\ run' = [run EXCEPT !.pc = "begin", !.file = f, !.todo = @ \ {f}, !.seen = seen, !.reused = v.keep,
                                !.read = read, !.carry = v.carry]
      BY DEF PlanFile, FilesTyped
    <2>2. Promised(v, src[f], part[f])
      BY PlanPromised
    <2> HIDE DEF v
    <2>3. src[f].data \in Seq(Nat) /\ src[f].stamp \in Nat /\ v.keep \in Nat /\ v.keep <= Len(src[f].data) /\ v.carry \in Seq(Nat)
      BY <2>2 DEF FilesTyped, Promised
    <2>4. read \in Seq(Nat) /\ Len(read) = v.keep /\ seen \in [len : Nat, stamp : Nat]
      <3>1. read \in Seq(Nat) /\ Len(read) = v.keep
        BY <2>3, SliceType, SMTT(60)
      <3>2. seen \in [len : Nat, stamp : Nat]
        BY <2>3
      <3> QED  BY <3>1, <3>2, Zenon
    <2>5. p \in Partial /\ p.safe <= Len(p.data) /\ p.data = read
      <3>1. CASE v.keep = 0
        <4>1. p = [data |-> <<>>, safe |-> 0] /\ read = <<>>
          BY <2>3, <2>4, <3>1
        <4> HIDE DEF p, read
        <4>2. p.data = <<>> /\ p.safe = 0 /\ Len(<<>>) = 0
          BY <4>1
        <4>3. p \in Partial
          <5>1. <<>> \in Seq(Nat)
            OBVIOUS
          <5> QED  BY <4>1, <5>1 DEF Partial
        <4> QED  BY <4>1, <4>2, <4>3
      <3>2. CASE v.keep # 0
        <4>1. part[f] \in Partial /\ part[f] # None /\ SubSeq(part[f].data, 1, v.keep) = read
          BY <2>2, <3>2 DEF Promised, FilesTyped
        <4>2. part[f].safe \in Nat
          BY <4>1 DEF Partial
        <4>3. MinOf(part[f].safe, v.keep) \in Nat /\ MinOf(part[f].safe, v.keep) <= v.keep
          BY <2>3, <4>2 DEF MinOf
        <4>4. p = [data |-> read, safe |-> MinOf(part[f].safe, v.keep)]
          BY <3>2, <4>1, Zenon
        <4> QED  BY <2>4, <4>3, <4>4, Zenon DEF Partial
      <3> QED  BY <3>1, <3>2, Zenon
    <2> HIDE DEF p, read, seen
    <2>6. FilesTyped'
      BY <2>1, <2>5 DEF FilesTyped
    <2>7. LogTyped' /\ WriterTyped' /\ PublishedIsRead'
      BY <2>1 DEF LogTyped, WriterTyped, PublishedIsRead
    <2>8. RunTyped'
      BY <2>1, <2>3, <2>4 DEF RunTyped, Down
    <2>9. CopySays'
      <3>1. run'.pc = "begin" /\ run'.file = f /\ f \notin run'.todo /\ run'.seen = seen /\ run'.read = read
        BY <2>1 DEF RunTyped, Down
      <3>2. part'[f] = p /\ p # None /\ f # None
        BY <2>1, <2>5 DEF FilesTyped, LogConstants
      <3> QED  BY <2>4, <2>5, <3>1, <3>2 DEF CopySays
    <2> QED  BY <2>6, <2>7, <2>8, <2>9
  \* FileSink::begin and record_proven.
  <1>BeginSinkCopies. ASSUME BeginSink
                      PROVE  CopyInv'
    <2> USE <1>BeginSinkCopies
    <2> USE DEF CopyInv
    <2> DEFINE begin == [type |-> "begin", file |-> run.file,
                         body |-> [kind |-> "begin", len |-> run.seen.len, stamp |-> run.seen.stamp, through |-> run.reused]]
               sent  == <<begin>> \o IF Verify = "full" THEN ProvenRanges(run.file, run.reused, run.read) ELSE <<>>
    <2>1. /\ run.pc = "begin" /\ UNCHANGED <<src, part, dest, seg, gen, chan, wal>>
          /\ \/ run' = [run EXCEPT !.pc = "stream"]
             \/ run' = [run EXCEPT !.pc = "stream", !.sink = "on", !.index = Chunks(run.reused), !.start = run.reused,
                                   !.out = sent]
             \/ run' = [run EXCEPT !.pc = "cleanup", !.err = "data"]
      BY DEF BeginSink
    <2>2. run.file \in Files /\ run.file # None /\ run.seen \in [len : Nat, stamp : Nat]
      BY <2>1 DEF RunTyped, CopySays, LogConstants
    <2>3. run.reused \in Nat /\ run.read \in Seq(Nat) /\ Chunks(run.reused) \in Nat
      <3>1. run.reused \in Nat /\ run.read \in Seq(Nat)
        BY DEF RunTyped
      <3> QED  BY <3>1, ChunksCover, SMTT(60)
    <2>4. sent \in Seq(Message)
      <3>1. [kind |-> "begin", len |-> run.seen.len, stamp |-> run.seen.stamp, through |-> run.reused] \in BeginBody
        BY <2>2, <2>3 DEF BeginBody
      <3>2. begin \in Message
        BY <2>2, <3>1, MessagesTyped, Zenon
      <3>3. ProvenRanges(run.file, run.reused, run.read) \in Seq(Message)
        BY <2>2, <2>3, ProvenIs, Zenon
      <3> HIDE DEF begin
      <3> QED  BY <3>2, <3>3
    <2> HIDE DEF sent
    <2>5. FilesTyped' /\ LogTyped' /\ WriterTyped' /\ PublishedIsRead'
      BY <2>1 DEF FilesTyped, LogTyped, WriterTyped, PublishedIsRead
    <2>6. RunTyped'
      <3>1. CASE run' = [run EXCEPT !.pc = "stream"]
        BY <3>1 DEF RunTyped, Down
      <3>2. CASE run' = [run EXCEPT !.pc = "stream", !.sink = "on", !.index = Chunks(run.reused), !.start = run.reused,
                                    !.out = sent]
        BY <2>3, <2>4, <3>2 DEF RunTyped, Down
      <3>3. CASE run' = [run EXCEPT !.pc = "cleanup", !.err = "data"]
        BY <3>3 DEF RunTyped, Down
      <3> QED  BY <2>1, <3>1, <3>2, <3>3
    <2>7. CopySays'
      <3>1. /\ run'.pc \in {"stream", "cleanup"} /\ run'.file = run.file /\ run'.todo = run.todo
            /\ run'.seen = run.seen /\ run'.read = run.read
        BY <2>1, ZenonT(60) DEF RunTyped, Down
      <3> QED  BY <2>1, <2>2, <3>1 DEF CopySays
    <2> QED  BY <2>5, <2>6, <2>7
  \* One buffer.
  <1>StreamUnitCopies. ASSUME StreamUnit
                       PROVE  CopyInv'
    <2> USE <1>StreamUnitCopies
    <2> USE DEF CopyInv
    <2> DEFINE f == run.file
               unit == IF run.carry # <<>> THEN Head(run.carry) ELSE src[f].data[Len(run.read) + 1]
               r == [run EXCEPT !.read = Append(@, unit), !.carry = IF @ = <<>> THEN @ ELSE Tail(@)]
    <2>1. /\ run.pc = "stream" /\ UNCHANGED <<src, dest, seg, gen, chan, wal>>
          /\ run.carry # <<>> \/ Len(run.read) < Len(src[f].data)
          /\ \/ /\ part' = [part EXCEPT ![f].data = Append(@, unit)]
                /\ run' = IF run.sink = "on" THEN Hashed(r, unit) ELSE r
             \/ /\ run' = [run EXCEPT !.pc = "cleanup", !.err = "data"]
                /\ UNCHANGED part
      BY DEF StreamUnit
    <2>2. /\ f \in Files /\ f # None /\ part[f] \in Partial /\ part[f] # None /\ part[f].data = run.read
          /\ part[f].safe <= Len(part[f].data) /\ run.seen \in [len : Nat, stamp : Nat] /\ f \notin run.todo
      BY <2>1, Zenon DEF RunTyped, CopySays, LogConstants, FilesTyped
    <2>3. unit \in Nat
      <3>1. run.carry \in Seq(Nat) /\ run.read \in Seq(Nat) /\ src[f].data \in Seq(Nat)
        BY <2>2 DEF RunTyped, FilesTyped
      <3>2. CASE run.carry # <<>>
        <4>1. Head(run.carry) \in Nat
          BY <3>1, <3>2
        <4> QED  BY <3>2, <4>1
      <3>3. CASE run.carry = <<>>
        <4>1. Len(run.read) + 1 \in 1 .. Len(src[f].data)
          BY <2>1, <3>1, <3>3
        <4>2. src[f].data[Len(run.read) + 1] \in Nat
          BY <3>1, <4>1, MemberOf, Zenon
        <4> QED  BY <3>3, <4>2
      <3> QED  BY <3>2, <3>3
    <2> HIDE DEF unit
    <2>4. LogTyped' /\ WriterTyped' /\ PublishedIsRead'
      BY <2>1 DEF LogTyped, WriterTyped, PublishedIsRead
    <2>5. CASE run' = [run EXCEPT !.pc = "cleanup", !.err = "data"] /\ UNCHANGED part
      <3>1. FilesTyped'
        BY <2>1, <2>5 DEF FilesTyped
      <3>2. RunTyped'
        BY <2>5 DEF RunTyped, Down
      <3>3. /\ run'.pc = "cleanup" /\ run'.file = run.file /\ run'.todo = run.todo /\ run'.seen = run.seen
            /\ run'.read = run.read
        BY <2>5 DEF RunTyped, Down
      <3>4. CopySays'
        BY <2>2, <2>5, <3>3 DEF CopySays
      <3> QED  BY <2>4, <3>1, <3>2, <3>4
    <2>6. CASE /\ part' = [part EXCEPT ![f].data = Append(@, unit)]
               /\ run' = IF run.sink = "on" THEN Hashed(r, unit) ELSE r
      <3>1. part'[f] = [part[f] EXCEPT !.data = Append(run.read, unit)]
        BY <2>2, <2>6, Zenon DEF FilesTyped
      <3>2. /\ part'[f] \in Partial /\ part'[f].data = Append(run.read, unit) /\ part'[f].safe = part[f].safe
            /\ part'[f].safe <= Len(part'[f].data)
        <4>1. Append(run.read, unit) \in Seq(Nat) /\ Len(Append(run.read, unit)) = Len(run.read) + 1 /\ Len(run.read) \in Nat
          BY <2>3, SMTT(60) DEF RunTyped
        <4>2. part[f] \in [data : Seq(Nat), safe : Nat]
          BY <2>2 DEF Partial
        <4>3. /\ part'[f] \in [data : Seq(Nat), safe : Nat] /\ part'[f].data = Append(run.read, unit)
              /\ part'[f].safe = part[f].safe /\ part[f].safe \in Nat
          BY <3>1, <4>1, <4>2, Zenon
        <4> QED  BY <2>2, <4>1, <4>3 DEF Partial
      <3>3. FilesTyped'
        <4>1. \A g \in Files : g # f => part'[g] = part[g]
          BY <2>2, <2>6 DEF FilesTyped
        <4>2. part' \in [Files -> Partial \cup {None}]
          BY <2>6, <3>2, <4>1, Zenon DEF FilesTyped
        <4>3. \A g \in Files : part'[g] # None => part'[g].safe <= Len(part'[g].data)
          <5>1. ASSUME NEW g \in Files, part'[g] # None PROVE part'[g].safe <= Len(part'[g].data)
            <6>1. CASE g = f
              BY <3>2, <6>1, Zenon
            <6>2. CASE g # f
              BY <4>1, <5>1, <6>2, Zenon DEF FilesTyped
            <6> QED  BY <6>1, <6>2
          <5> QED  BY <5>1, Zenon
        <4> QED  BY <2>1, <4>2, <4>3, Zenon DEF FilesTyped
      <3>4. /\ run'.pc \in {"check", "stream"} /\ run'.file = run.file /\ run'.todo = run.todo /\ run'.seen = run.seen
            /\ run'.read = Append(run.read, unit) /\ RunTyped'
        <4>1. CASE run.sink = "on"
          <5>1. run' = Hashed(r, unit)
            BY <2>6, <4>1
          <5>2. Append(run.chunk, unit) \in Seq(Nat) /\ (run.index + 1) * Chunk \in Nat /\ Tail(<<1>>) \in Seq(Nat)
            BY <2>3, SMTT(60) DEF RunTyped, LogConstants
          <5> DEFINE digs == IF Len(Append(run.chunk, unit)) = Chunk THEN Append(run.digests, Append(run.chunk, unit))
                             ELSE run.digests
          <5>3. digs \in Seq(Seq(Nat)) /\ run.start \in Nat
            BY <5>2 DEF RunTyped
          <5> HIDE DEF digs
          <5>4. RangeMsg(run.file, run.start, (run.index + 1) * Chunk, digs) \in Message
            BY <2>2, <5>2, <5>3, MessagesTyped, Zenon
          <5>5. /\ DOMAIN run' = DOMAIN Down /\ run'.pc \in {"check", "stream"} /\ run'.read = Append(run.read, unit)
                /\ run'.carry = IF run.carry = <<>> THEN <<>> ELSE Tail(run.carry)
                /\ run'.chunk \in {<<>>, Append(run.chunk, unit)}
                /\ run'.index \in {run.index, run.index + 1}
                /\ run'.digests \in {<<>>, digs}
                /\ run'.start \in {run.start, (run.index + 1) * Chunk}
                /\ run'.out \in {<<>>, <<RangeMsg(run.file, run.start, (run.index + 1) * Chunk, digs)>>}
                /\ run'.todo = run.todo /\ run'.file = run.file /\ run'.log = run.log /\ run'.cells = run.cells
                /\ run'.seen = run.seen /\ run'.reused = run.reused /\ run'.sink = run.sink /\ run'.ack = run.ack
                /\ run'.lost = run.lost /\ run'.gone = run.gone
            BY <2>2, <2>3, <5>1, HashedIs, ZenonT(60) DEF digs
          <5>6. Append(run.read, unit) \in Seq(Nat) /\ run'.carry \in Seq(Nat)
            BY <2>3, <5>5 DEF RunTyped
          <5>7. run'.index \in Nat /\ run'.chunk \in Seq(Nat) /\ run'.digests \in Seq(Seq(Nat)) /\ run'.start \in Nat
            <6>1. run.index \in Nat /\ run.index + 1 \in Nat /\ <<>> \in Seq(Nat) /\ <<>> \in Seq(Seq(Nat))
              BY DEF RunTyped
            <6> QED  BY <5>2, <5>3, <5>5, <6>1, Zenon
          <5>8. run'.out \in Seq(Message)
            <6>1. <<>> \in Seq(Message) /\ \A m \in Message : <<m>> \in Seq(Message)
              OBVIOUS
            <6> QED  BY <5>4, <5>5, <6>1, Zenon
          <5>9. RunTyped'
            BY <5>5, <5>6, <5>7, <5>8, Zenon DEF RunTyped
          <5> QED  BY <5>5, <5>9
        <4>2. CASE run.sink # "on"
          <5>1. run' = r
            BY <2>6, <4>2
          <5>2. Append(run.read, unit) \in Seq(Nat) /\ (run.carry # <<>> => Tail(run.carry) \in Seq(Nat))
            BY <2>3 DEF RunTyped
          <5> QED  BY <2>1, <5>1, <5>2, SMTT(60) DEF RunTyped, Down
        <4> QED  BY <4>1, <4>2
      <3>5. part'[f] # None
        BY <3>2 DEF LogConstants
      <3>6. CopySays'
        BY <2>2, <3>2, <3>4, <3>5 DEF CopySays
      <3> QED  BY <2>4, <3>3, <3>4, <3>6
    <2> QED  BY <2>1, <2>5, <2>6
  \* A step that only answers the run, and leaves the content of the partials.
  <1>AnsweredCopies. ASSUME Answered, UNCHANGED dest,
                            \A f \in Files : (part'[f] = None <=> part[f] = None) /\ (part[f] # None => part'[f].data = part[f].data)
                     PROVE  RunTyped' /\ CopySays' /\ PublishedIsRead'
    <2> USE <1>AnsweredCopies
    <2>1. /\ RunTyped' /\ run'.pc = run.pc /\ run'.todo = run.todo /\ run'.file = run.file
          /\ run'.read = run.read /\ run'.seen = run.seen /\ run'.sink = run.sink
      BY AnsweredSame DEF CopyInv
    <2>2. run.file \in Files \cup {None}
      BY DEF CopyInv, RunTyped
    <2>3. CopySays'
      BY <2>1, <2>2 DEF CopyInv, CopySays
    <2> QED  BY <2>1, <2>3 DEF CopyInv, PublishedIsRead
  \* One message.
  <1>ReceiveCopies. ASSUME Receive
                    PROVE  CopyInv'
    <2> USE <1>ReceiveCopies
    <2>1. /\ chan # <<>> /\ chan' = Tail(chan) /\ Tail(chan) \in Seq(Message)
          /\ UNCHANGED <<src, part, dest, seg, gen>>
          /\ wal.pc = "recv" /\ wal'.pc \in {"recv", "flush", "ended"} /\ ThreadTyped(wal') /\ Steady(wal, wal') /\ Answered
      BY ReceiveIs, Zenon DEF CopyInv
    <2>2. RunTyped' /\ CopySays' /\ PublishedIsRead'
      BY <2>1, <1>AnsweredCopies
    <2>3. FilesTyped' /\ LogTyped'
      BY <2>1 DEF CopyInv, FilesTyped, LogTyped
    <2>4. chan' \in Seq(Message) /\ Len(chan') <= Cap
      BY <2>1 DEF CopyInv, WriterTyped, LogConstants
    <2>5. WriterTyped'
      BY <2>1, <2>4 DEF CopyInv, WriterTyped, Steady
    <2> QED  BY <2>2, <2>3, <2>5 DEF CopyInv
  \* The timer, and the end of the channel.
  <1>WaitCopies. ASSUME FlushTimer \/ Disconnected
                 PROVE  CopyInv'
    <2> USE <1>WaitCopies
    <2>1. /\ UNCHANGED <<src, part, dest, seg, gen, run, chan>>
          /\ wal.pc = "recv" /\ wal'.pc \in {"flush", "ended"} /\ ThreadTyped(wal') /\ Steady(wal, wal')
      BY WaitIs DEF CopyInv
    <2>2. Answered
      BY <2>1 DEF Answered
    <2>3. RunTyped' /\ CopySays' /\ PublishedIsRead'
      BY <2>1, <2>2, <1>AnsweredCopies
    <2>4. FilesTyped' /\ LogTyped'
      BY <2>1 DEF CopyInv, FilesTyped, LogTyped
    <2>5. WriterTyped'
      BY <2>1 DEF CopyInv, WriterTyped, Steady
    <2> QED  BY <2>3, <2>4, <2>5 DEF CopyInv
  \* A flush begins.
  <1>BeginFlushCopies. ASSUME BeginFlush
                       PROVE  CopyInv'
    <2> USE <1>BeginFlushCopies
    <2>1. /\ UNCHANGED <<src, part, dest, seg, gen, chan>> /\ Answered
          /\ wal.pc = "flush" /\ wal'.pc \in {"recv", "ended", "sync"} /\ ThreadTyped(wal') /\ wal'.open = wal.open
      BY BeginFlushIs, Zenon DEF CopyInv
    <2>2. RunTyped' /\ CopySays' /\ PublishedIsRead'
      BY <2>1, <1>AnsweredCopies
    <2>3. FilesTyped' /\ LogTyped'
      BY <2>1 DEF CopyInv, FilesTyped, LogTyped
    <2>4. WriterTyped'
      BY <2>1 DEF CopyInv, WriterTyped
    <2> QED  BY <2>2, <2>3, <2>4 DEF CopyInv
  \* The data of a batch is synced.
  <1>SyncDataCopies. ASSUME SyncData
                     PROVE  CopyInv'
    <2> USE <1>SyncDataCopies
    <2>1. /\ UNCHANGED <<src, dest, seg, gen, chan>> /\ Answered
          /\ wal.pc = "sync" /\ wal'.pc \in {"append", "recv", "ended"} /\ ThreadTyped(wal') /\ Steady(wal, wal')
          /\ \E files : part' = SyncedParts(files)
      BY SyncDataIs DEF CopyInv
    <2>2. PICK files : part' = SyncedParts(files)
      BY <2>1
    <2>3. /\ part' \in [Files -> Partial \cup {None}]
          /\ \A f \in Files : /\ part'[f] = None <=> part[f] = None
                              /\ part[f] # None => part'[f].data = part[f].data /\ part'[f].safe <= Len(part'[f].data)
      BY <2>2, SyncedPartsIs DEF CopyInv
    <2>4. RunTyped' /\ CopySays' /\ PublishedIsRead'
      BY <2>1, <2>3, <1>AnsweredCopies, Zenon
    <2>5. FilesTyped' /\ LogTyped'
      BY <2>1, <2>3, Zenon DEF CopyInv, FilesTyped, LogTyped
    <2>6. WriterTyped'
      BY <2>1 DEF CopyInv, WriterTyped, Steady
    <2> QED  BY <2>4, <2>5, <2>6 DEF CopyInv
  \* A segment that cells were added to is a log.
  <1>AppendedTyped. ASSUME LogTyped, WriterTyped, NEW t \in Seq(Cell), seg' = [Segment(wal) EXCEPT !.cells = @ \o t]
                    PROVE  seg' \in Log /\ seg'.safe <= Len(seg'.cells)
    <2> USE <1>AppendedTyped
    <2>1. Segment(wal) \in Log /\ Segment(wal).safe <= Len(Segment(wal).cells)
      BY SegmentIs
    <2>2. PICK s \in Log : s = Segment(wal) /\ s.safe <= Len(s.cells)
      BY <2>1
    <2>3. seg' = [s EXCEPT !.cells = @ \o t]
      BY <2>2
    <2> QED  BY <2>2, <2>3, LongerLog, Zenon
  \* A batch is appended, or the log dies.
  <1>AppendCopies. ASSUME AppendRecords
                   PROVE  CopyInv'
    <2> USE <1>AppendCopies
    <2>1. UNCHANGED <<src, part, dest, gen, chan>> /\ Answered /\ wal.pc = "append"
      BY AppendIs DEF CopyInv
    <2>2. RunTyped' /\ CopySays' /\ PublishedIsRead'
      BY <2>1, <1>AnsweredCopies
    <2>3. FilesTyped'
      BY <2>1 DEF CopyInv, FilesTyped
    <2>4. ThreadTyped(wal) /\ gen \in Nat \ {0}
      BY <2>1 DEF CopyInv, WriterTyped, FilesTyped
    <2>5. CASE /\ seg' = [Segment(wal) EXCEPT !.cells = @ \o Encoded(wal)]
               /\ ThreadTyped(wal') /\ wal'.pc \in {"walsync", "recv", "ended"} /\ wal'.open = TRUE
      <3>1. Encoded(wal) \in Seq(Cell)
        BY <2>4, EncodedIs
      <3>2. seg' \in Log /\ seg'.safe <= Len(seg'.cells)
        BY <2>5, <3>1, <1>AppendedTyped, Zenon DEF CopyInv
      <3>3. LogTyped' /\ WriterTyped'
        BY <2>1, <2>4, <2>5, <3>2, Zenon DEF CopyInv, LogTyped, WriterTyped, LogConstants
      <3> QED  BY <2>2, <2>3, <3>3 DEF CopyInv
    <2>6. CASE /\ Died
               /\ \/ \E t \in Torn(Encoded(wal)) : seg' = [Segment(wal) EXCEPT !.cells = @ \o t]
                  \/ seg' = seg
      <3>1. LogTyped'
        <4>1. CASE seg' = seg
          BY <4>1 DEF CopyInv, LogTyped
        <4>2. ASSUME NEW t \in Torn(Encoded(wal)), seg' = [Segment(wal) EXCEPT !.cells = @ \o t] PROVE LogTyped'
          <5>1. t \in Seq(Cell)
            BY <2>4, EncodedIs, TornIs
          <5>2. seg' \in Log /\ seg'.safe <= Len(seg'.cells)
            BY <4>2, <5>1, <1>AppendedTyped, Zenon DEF CopyInv
          <5> QED  BY <5>2 DEF LogTyped
        <4> QED  BY <2>6, <4>1, <4>2
      <3>2. WriterTyped'
        BY <2>1, <2>4, <2>6 DEF CopyInv, WriterTyped, Died
      <3> QED  BY <2>2, <2>3, <3>1, <3>2 DEF CopyInv
    <2> QED  BY <2>5, <2>6, AppendIs, Zenon DEF CopyInv
  \* The log is synced, or it dies.
  <1>SyncLogCopies. ASSUME SyncLog
                    PROVE  CopyInv'
    <2> USE <1>SyncLogCopies
    <2>1. UNCHANGED <<src, part, dest, gen, chan>> /\ Answered /\ wal.pc = "walsync" /\ seg # None
      BY SyncLogIs DEF CopyInv
    <2>2. RunTyped' /\ CopySays' /\ PublishedIsRead'
      BY <2>1, <1>AnsweredCopies
    <2>3. FilesTyped'
      BY <2>1 DEF CopyInv, FilesTyped
    <2>4. seg \in Log /\ seg.safe <= Len(seg.cells)
      BY <2>1 DEF CopyInv, LogTyped
    <2>5. CASE /\ seg' = [seg EXCEPT !.safe = Len(seg.cells), !.named = @ \/ wal.created]
               /\ ThreadTyped(wal') /\ wal'.pc \in {"recv", "ended"}
      <3>1. PICK b \in BOOLEAN : b = (seg.named \/ wal.created)
        BY Zenon
      <3>2. seg' = [seg EXCEPT !.safe = Len(seg.cells), !.named = b]
        BY <2>5, <3>1
      <3>3. seg' \in Log /\ seg'.safe <= Len(seg'.cells)
        <4>1. PICK c \in Seq(Cell) : c = seg.cells
          BY <2>4 DEF Log
        <4>2. PICK n \in Nat : n = Len(c)
          BY <4>1
        <4>3. seg' = [cells |-> c, safe |-> n, named |-> b]
          BY <2>4, <3>2, <4>1, <4>2, Zenon DEF Log
        <4> QED  BY <4>2, <4>3 DEF Log
      <3>4. LogTyped' /\ WriterTyped'
        BY <2>1, <2>5, <3>3 DEF CopyInv, LogTyped, WriterTyped, LogConstants
      <3> QED  BY <2>2, <2>3, <3>4 DEF CopyInv
    <2>6. CASE Died /\ seg' = seg
      <3>1. LogTyped'
        BY <2>6 DEF CopyInv, LogTyped
      <3>2. WriterTyped'
        BY <2>1, <2>6 DEF CopyInv, WriterTyped, Died
      <3> QED  BY <2>2, <2>3, <3>1, <3>2 DEF CopyInv
    <2> QED  BY <2>5, <2>6, SyncLogIs DEF CopyInv
  \* A crash.
  <1>CrashCopies. ASSUME NEW kind, Crash(kind)
                  PROVE  CopyInv'
    <2> USE <1>CrashCopies
    <2>1. /\ UNCHANGED <<src, dest>>
          /\ run' = [Down EXCEPT !.todo = Unpublished] /\ chan' = <<>> /\ wal' = Ended
          /\ FilesTyped'
          /\ \E s : /\ Torned(s)
                    /\ \/ kind = "process" /\ seg' = s
                       \/ kind = "power" /\ seg' \in IF s = None THEN {None} ELSE SegmentsAfterLoss(s)
      BY CrashIs DEF CopyInv
    <2>2. PICK s : /\ Torned(s)
                   /\ \/ kind = "process" /\ seg' = s
                      \/ kind = "power" /\ seg' \in IF s = None THEN {None} ELSE SegmentsAfterLoss(s)
      BY <2>1
    <2>3. s = None \/ (s \in Log /\ s.safe <= Len(s.cells))
      BY <2>2, TornedTyped DEF CopyInv
    <2>4. seg' = None \/ (seg' \in Log /\ seg'.safe <= Len(seg'.cells))
      <3>1. CASE seg' = s \/ s = None
        BY <2>2, <2>3, <3>1
      <3>2. CASE s # None /\ seg' \in SegmentsAfterLoss(s)
        BY <2>3, <3>2, SegmentLossIs
      <3> QED  BY <2>2, <3>1, <3>2
    <2>5. LogTyped'
      BY <2>4 DEF LogTyped
    <2>6. RunTyped' /\ CopySays'
      <3>1. Unpublished \subseteq Files
        BY DEF Unpublished
      <3>2. <<>> \in Seq(Cell) /\ <<>> \in Seq(Nat) /\ <<>> \in Seq(Seq(Nat)) /\ <<>> \in Seq(Message)
        OBVIOUS
      <3> QED  BY <2>1, <3>1, <3>2 DEF RunTyped, CopySays, Down
    <2>7. WriterTyped'
      <3>1. <<>> \in Seq(Message) /\ <<>> \in Seq(Entry) /\ Len(<<>>) = 0
        OBVIOUS
      <3> QED  BY <2>1, <3>1 DEF WriterTyped, ThreadTyped, Ended, LogConstants
    <2>8. PublishedIsRead'
      BY <2>1 DEF CopyInv, PublishedIsRead
    <2> QED  BY <2>1, <2>5, <2>6, <2>7, <2>8 DEF CopyInv
  \* The source changes.
  <1>SourceChangeCopies. ASSUME NEW f \in Files, NEW kind, SourceChange(f, kind)
                         PROVE  CopyInv'
    <2> USE <1>SourceChangeCopies
    <2>1. UNCHANGED <<part, dest, seg, gen, run, chan, wal>> /\ src' \in [Files -> [data : Seq(Nat), stamp : Nat]]
      BY SourceChangeIs DEF CopyInv
    <2>2. FilesTyped' /\ LogTyped' /\ WriterTyped'
      BY Zenon, <2>1 DEF CopyInv, FilesTyped, LogTyped, WriterTyped
    <2>3. RunTyped' /\ CopySays' /\ PublishedIsRead'
      BY <2>1, SMTT(60) DEF CopyInv, RunTyped, CopySays, PublishedIsRead
    <2> QED  BY <2>2, <2>3 DEF CopyInv
  <1>1. CASE Main
    BY <1>1, <1>OpenLogCopies, <1>BeginSinkCopies, <1>SendMsgCopies, <1>StreamUnitCopies, <1>CheckLogCopies, <1>CompleteCopies,
       <1>CloseAnsweredCopies, <1>PublishCopies, <1>AbortSinkCopies, <1>GiveUpSendCopies, <1>DropFileCopies, <1>FinishLogCopies,
       <1>JoinLogCopies, <1>PlanFileCopies DEF Main
  <1>2. CASE Writer
    BY <1>2, <1>ReceiveCopies, <1>WaitCopies, <1>BeginFlushCopies, <1>SyncDataCopies, <1>AppendCopies, <1>SyncLogCopies DEF Writer
  <1>3. CASE BeatFails
    BY <1>3, <1>BeatFailsCopies
  <1>4. CASE Done \/ UNCHANGED vars
    BY <1>4, <1>DoneCopies DEF Done
  <1>5. CASE \E k \in CrashKinds : Crash(k)
    BY <1>5, <1>CrashCopies
  <1>6. CASE \E f \in Files, k \in ChangeKinds : SourceChange(f, k)
    BY <1>6, <1>SourceChangeCopies
  <1> QED  BY <1>1, <1>2, <1>3, <1>4, <1>5, <1>6 DEF Next

(* What a run publishes is, unit for unit, what it read from the source:   *)
(* stage_file over every resume decision, every state a crash or a dead    *)
(* log leaves, and every interleaving with the writer thread.              *)
THEOREM PublishedAsRead ==
    ASSUME LogConstants
    PROVE  Spec => []PublishedIsRead
  <1>1. Init => CopyInv
    BY InitCopies
  <1>2. CopyInv /\ [Next]_vars => CopyInv'
    BY NextCopies
  <1>3. CopyInv => PublishedIsRead
    BY DEF CopyInv
  <1> QED  BY <1>1, <1>2, <1>3, PTL DEF Spec

----------------------------------------------------------------------------
(* Slices and ranges. *)

\* Two slices of equal elements are equal.
LEMMA SlicesEqual ==
    ASSUME NEW a \in Seq(Nat), NEW b \in Seq(Nat), NEW m \in Nat \ {0}, NEW n \in Nat, n <= Len(a), n <= Len(b),
           \A i \in m .. n : a[i] = b[i]
    PROVE  SubSeq(a, m, n) = SubSeq(b, m, n)
  <1>1. /\ SubSeq(a, m, n) \in Seq(Nat) /\ Len(SubSeq(a, m, n)) = IF m <= n THEN n - m + 1 ELSE 0
        /\ \A i \in m .. n : SubSeq(a, m, n)[i - m + 1] = a[i]
    BY SliceType
  <1>2. /\ SubSeq(b, m, n) \in Seq(Nat) /\ Len(SubSeq(b, m, n)) = IF m <= n THEN n - m + 1 ELSE 0
        /\ \A i \in m .. n : SubSeq(b, m, n)[i - m + 1] = b[i]
    BY SliceType
  <1>3. Len(SubSeq(a, m, n)) = Len(SubSeq(b, m, n))
    BY <1>1, <1>2
  <1>4. ASSUME NEW k \in 1 .. Len(SubSeq(a, m, n)) PROVE SubSeq(a, m, n)[k] = SubSeq(b, m, n)[k]
    <2>1. m <= n /\ k \in 1 .. n - m + 1
      BY <1>1
    <2>2. PICK i \in m .. n : i - m + 1 = k
      <3>1. k + m - 1 \in m .. n /\ (k + m - 1) - m + 1 = k
        BY <2>1
      <3> QED  BY <3>1
    <2> QED  BY <1>1, <1>2, <2>2
  <1> QED  BY <1>1, <1>2, <1>3, <1>4, SameSeq

\* One more unit changes no slice of what was there.
LEMMA SliceMore ==
    ASSUME NEW a \in Seq(Nat), NEW u \in Nat, NEW m \in Nat \ {0}, NEW n \in Nat, n <= Len(a)
    PROVE  SubSeq(Append(a, u), m, n) = SubSeq(a, m, n)
  <1>1. /\ Append(a, u) \in Seq(Nat) /\ n <= Len(Append(a, u)) /\ \A i \in m .. n : Append(a, u)[i] = a[i]
    OBVIOUS
  <1>2. PICK b \in Seq(Nat) : b = Append(a, u)
    BY <1>1, Zenon
  <1> QED  BY <1>1, <1>2, SlicesEqual

\* A range of consecutive digests, all of whole chunks but perhaps the last, is one the scan accepts.
LEMMA RangeIs ==
    ASSUME LogConstants, NEW data \in Seq(Nat), NEW first \in Nat, NEW digs \in Seq(Seq(Nat)), NEW start, NEW end \in Nat,
           start = first * Chunk, end <= Len(data), digs # <<>>,
           (Len(digs) - 1) * Chunk < end - start, end - start <= Len(digs) * Chunk,
           \A j \in 1 .. Len(digs) : digs[j] = SubSeq(data, start + (j - 1) * Chunk + 1, MinOf(start + j * Chunk, end)),
           NEW body, body = [kind |-> "range", start |-> start, end |-> end, digests |-> digs]
    PROVE  WellFormed(body) /\ Describes(body, data)
  <1>1. Chunk \in Nat /\ Chunk > 0 /\ start \in Nat /\ start % Chunk = 0
    <2>1. Chunk \in Nat /\ Chunk > 0
      BY DEF LogConstants
    <2>2. first * Chunk \in Nat
      BY <2>1
    <2> QED  BY <2>1, <2>2, WholeMod, Zenon
  <1>2. PICK n \in Nat : n = Len(digs) /\ n > 0
    OBVIOUS
  <1>3. (n - 1) * Chunk \in Nat /\ n - 1 \in Nat /\ n * Chunk \in Nat
    <2>0. n - 1 \in Nat
      BY <1>2
    <2>1. PICK k \in Nat : k = n - 1
      BY <2>0
    <2>2. k * Chunk \in Nat /\ n * Chunk \in Nat
      BY <1>1
    <2> QED  BY <2>1, <2>2
  <1>4. PICK len \in Nat : len = end - start
    BY <1>1, <1>2, <1>3
  <1>5. PICK c \in Nat : c = Chunks(len) /\ \A k \in Nat : k * Chunk < len <=> k < c
    BY <1>4, ChunksCover, Zenon
  <1>6. n - 1 < c /\ ~(n < c)
    BY <1>1, <1>2, <1>3, <1>4, <1>5
  <1>7. Chunks(end - start) = Len(digs)
    BY <1>2, <1>4, <1>5, <1>6
  <1>8. end > start
    BY <1>1, <1>2, <1>3
  <1>9. WellFormed(body)
    BY <1>1, <1>7, <1>8 DEF WellFormed
  <1>10. Describes(body, data)
    <2>1. /\ body.kind = "range" /\ body.start = start /\ body.end = end /\ body.digests = digs
          /\ DOMAIN digs = 1 .. Len(digs)
      OBVIOUS
    <2> QED  BY <2>1, SMTT(60) DEF Describes
  <1> QED  BY <1>9, <1>10

----------------------------------------------------------------------------
(* The sink. *)

\* Where the chunks of a sink that is hashing lie.
LEMMA HashingLies ==
    ASSUME LogConstants, NEW read \in Seq(Nat), NEW chunk \in Seq(Nat), NEW index \in Nat, NEW digests \in Seq(Seq(Nat)),
           NEW start, Hashing(read, chunk, index, digests, start)
    PROVE  /\ start \in Nat /\ Len(digests) <= index /\ Len(chunk) < Chunk
           /\ chunk = SubSeq(read, index * Chunk + 1, Len(read))
           /\ Tiles(read, digests, start)
           /\ \E first, P, D \in Nat : /\ first = index - Len(digests) /\ P = index * Chunk /\ D = Len(digests) * Chunk
                                       /\ start = first * Chunk /\ start = P - D /\ D <= P /\ Len(read) = P + Len(chunk)
  <1>1. Chunk \in Nat /\ Len(digests) \in Nat
    BY DEF LogConstants
  <1>2. index - Len(digests) \in Nat /\ index * Chunk \in Nat /\ Len(digests) * Chunk \in Nat
    BY <1>1 DEF Hashing
  <1>3. PICK first \in Nat : first = index - Len(digests)
    BY <1>2, Zenon
  <1>4. first * Chunk \in Nat /\ (first + Len(digests)) * Chunk = first * Chunk + Len(digests) * Chunk
    BY <1>1, Distribute
  <1>5. first + Len(digests) = index
    BY <1>1, <1>3
  <1>6. PICK P \in Nat, D \in Nat : P = index * Chunk /\ D = Len(digests) * Chunk
    BY <1>2
  <1>7. start = first * Chunk /\ P = first * Chunk + D
    BY <1>3, <1>4, <1>5, <1>6 DEF Hashing
  <1>8. start = P - D /\ D <= P /\ Len(read) = P + Len(chunk)
    <2>1. PICK x \in Nat : x = first * Chunk
      BY <1>4
    <2>2. start = x /\ P = x + D
      BY <1>7, <2>1
    <2>3. Len(read) = P + Len(chunk)
      BY <1>6 DEF Hashing
    <2> QED  BY <2>2, <2>3
  <1>9. start \in Nat
    BY <1>4, <1>7
  <1>10. /\ Len(digests) <= index /\ Len(chunk) < Chunk
         /\ chunk = SubSeq(read, index * Chunk + 1, Len(read)) /\ Tiles(read, digests, start)
    BY Zenon DEF Hashing
  <1> QED  BY <1>3, <1>6, <1>7, <1>8, <1>9, <1>10, Zenon

\* The end of the j-th of some chunks.
LEMMA ChunkEnds ==
    ASSUME LogConstants, NEW n \in Nat, NEW j \in 1 .. n
    PROVE  /\ (j - 1) * Chunk \in Nat /\ j * Chunk \in Nat /\ n * Chunk \in Nat
           /\ j * Chunk = (j - 1) * Chunk + Chunk /\ j * Chunk <= n * Chunk
  <1>1. Chunk \in Nat /\ j \in Nat /\ j - 1 \in Nat /\ j <= n /\ j - 1 + 1 = j
    BY DEF LogConstants
  <1>2. (j - 1 + 1) * Chunk = (j - 1) * Chunk + Chunk
    BY <1>1, OneMore
  <1>3. j * Chunk <= n * Chunk
    BY <1>1, TimesMonotone
  <1>4. PICK i \in Nat : i = j - 1
    BY <1>1
  <1>5. i * Chunk \in Nat /\ j * Chunk \in Nat /\ n * Chunk \in Nat
    BY <1>1
  <1> QED  BY <1>1, <1>2, <1>3, <1>4, <1>5

\* One more unit: a unit of the unfinished chunk, or the digest of a chunk.
LEMMA HashingMore ==
    ASSUME LogConstants, NEW read \in Seq(Nat), NEW chunk \in Seq(Nat), NEW index \in Nat, NEW digests \in Seq(Seq(Nat)),
           NEW start, Hashing(read, chunk, index, digests, start), NEW u \in Nat
    PROVE  /\ Len(Append(chunk, u)) # Chunk => Hashing(Append(read, u), Append(chunk, u), index, digests, start)
           /\ Len(Append(chunk, u)) = Chunk =>
                /\ Hashing(Append(read, u), <<>>, index + 1, Append(digests, Append(chunk, u)), start)
                /\ Hashing(Append(read, u), <<>>, index + 1, <<>>, (index + 1) * Chunk)
  \* The slice that a longer sequence adds to.
  <1>SliceGrows. ASSUME NEW a \in Seq(Nat), NEW v \in Nat, NEW m \in Nat \ {0}, m <= Len(a) + 1
                 PROVE  SubSeq(Append(a, v), m, Len(a) + 1) = Append(SubSeq(a, m, Len(a)), v)
    <2> USE <1>SliceGrows
    \* What Append makes.
    <2>Longer. ASSUME NEW x \in Seq(Nat), NEW y \in Nat
               PROVE  \E b \in Seq(Nat) : /\ b = Append(x, y) /\ Len(b) = Len(x) + 1
                                          /\ b[Len(x) + 1] = y /\ \A i \in 1 .. Len(x) : b[i] = x[i]
      <3> USE <2>Longer
      <3>1. /\ Append(x, y) \in Seq(Nat) /\ Len(Append(x, y)) = Len(x) + 1
            /\ Append(x, y)[Len(x) + 1] = y /\ \A i \in 1 .. Len(x) : Append(x, y)[i] = x[i]
        OBVIOUS
      <3> QED  BY <3>1, Zenon
    <2>1. PICK b \in Seq(Nat) : /\ b = Append(a, v) /\ Len(b) = Len(a) + 1
                                /\ b[Len(a) + 1] = v /\ \A i \in 1 .. Len(a) : b[i] = a[i]
      BY <2>Longer, Zenon
    <2>2. PICK c \in Seq(Nat) : /\ c = SubSeq(a, m, Len(a)) /\ Len(c) = Len(a) - m + 1
                                /\ \A i \in m .. Len(a) : c[i - m + 1] = a[i]
      <3>1. Len(a) \in Nat /\ Len(a) <= Len(a)
        OBVIOUS
      <3>2. /\ SubSeq(a, m, Len(a)) \in Seq(Nat)
            /\ Len(SubSeq(a, m, Len(a))) = IF m <= Len(a) THEN Len(a) - m + 1 ELSE 0
            /\ \A i \in m .. Len(a) : SubSeq(a, m, Len(a))[i - m + 1] = a[i]
        BY <3>1, SliceType
      <3>3. Len(SubSeq(a, m, Len(a))) = Len(a) - m + 1
        BY <3>1, <3>2, SMTT(60)
      <3> QED  BY <3>2, <3>3, Zenon
    <2>3. PICK n \in Nat : n = Len(a) + 1
      OBVIOUS
    <2>4. PICK d \in Seq(Nat) : /\ d = SubSeq(b, m, n) /\ Len(d) = n - m + 1
                                /\ \A i \in m .. n : d[i - m + 1] = b[i]
      <3>1. n <= Len(b) /\ m <= n
        BY <2>1, <2>3
      <3>2. /\ SubSeq(b, m, n) \in Seq(Nat)
            /\ Len(SubSeq(b, m, n)) = IF m <= n THEN n - m + 1 ELSE 0
            /\ \A i \in m .. n : SubSeq(b, m, n)[i - m + 1] = b[i]
        BY <3>1, SliceType, Zenon
      <3> QED  BY <3>1, <3>2, Zenon
    <2>5. PICK g \in Seq(Nat) : /\ g = Append(c, v) /\ Len(g) = Len(c) + 1 /\ g[Len(c) + 1] = v
                                /\ \A i \in 1 .. Len(c) : g[i] = c[i]
      BY <2>Longer, ZenonT(60)
    <2>6. Len(d) = Len(g)
      BY <2>2, <2>3, <2>4, <2>5
    <2>7. ASSUME NEW k \in 1 .. Len(d) PROVE d[k] = g[k]
      <3>1. k + m - 1 \in m .. n /\ (k + m - 1) - m + 1 = k
        BY <2>3, <2>4
      <3>2. d[k] = b[k + m - 1]
        BY <2>4, <3>1
      <3>3. CASE k = Len(d)
        BY <2>1, <2>2, <2>3, <2>4, <2>5, <3>2, <3>3
      <3>4. CASE k < Len(d)
        <4>1. k + m - 1 \in m .. Len(a) /\ k \in 1 .. Len(c) /\ k + m - 1 \in 1 .. Len(a)
          BY <2>2, <2>3, <2>4, <3>4, SMTT(60)
        <4>2. c[k] = a[k + m - 1]
          BY <2>2, <3>1, <4>1
        <4> QED  BY <2>1, <2>5, <3>2, <4>1, <4>2
      <3> QED  BY <3>3, <3>4
    <2>8. d = g
      BY <2>6, <2>7, SameSeq, SMTT(60)
    <2> QED  BY <2>1, <2>2, <2>3, <2>4, <2>5, <2>8, Zenon
  <1>1. PICK first \in Nat, P \in Nat, D \in Nat :
                /\ first = index - Len(digests) /\ P = index * Chunk /\ D = Len(digests) * Chunk
                /\ start = first * Chunk /\ start = P - D /\ D <= P /\ Len(read) = P + Len(chunk)
    BY HashingLies, SMTT(60)
  <1>2. /\ Chunk \in Nat /\ Chunk > 0 /\ Len(digests) \in Nat /\ Len(chunk) \in Nat /\ Len(read) \in Nat
        /\ Len(chunk) < Chunk /\ Len(digests) <= index /\ start \in Nat
    <2>1. Len(chunk) < Chunk /\ Len(digests) <= index /\ start \in Nat
      BY HashingLies
    <2>2. Chunk \in Nat /\ Chunk > 0
      BY DEF LogConstants
    <2>3. Len(digests) \in Nat /\ Len(chunk) \in Nat /\ Len(read) \in Nat
      OBVIOUS
    <2> QED  BY <2>1, <2>2, <2>3
  <1>20. start = P - D /\ D <= P /\ Len(read) = P + Len(chunk)
    BY <1>1
  <1>3. /\ Append(read, u) \in Seq(Nat) /\ Len(Append(read, u)) = Len(read) + 1
        /\ Append(chunk, u) \in Seq(Nat) /\ Len(Append(chunk, u)) = Len(chunk) + 1
    OBVIOUS
  <1>4. Append(chunk, u) = SubSeq(Append(read, u), P + 1, Len(Append(read, u)))
    <2>1. chunk = SubSeq(read, P + 1, Len(read))
      BY <1>1, Zenon DEF Hashing
    <2>2. P + 1 \in Nat \ {0} /\ P + 1 <= Len(read) + 1
      BY <1>1, <1>2
    <2>3. PICK m \in Nat \ {0} : m = P + 1 /\ m <= Len(read) + 1
      BY <2>2
    <2>4. SubSeq(Append(read, u), m, Len(read) + 1) = Append(SubSeq(read, m, Len(read)), u)
      BY <2>3, <1>SliceGrows, Zenon
    <2> QED  BY <1>3, <2>1, <2>3, <2>4, Zenon
  <1>5. ASSUME NEW j \in 1 .. Len(digests)
        PROVE  digests[j] = SubSeq(Append(read, u), start + (j - 1) * Chunk + 1, start + j * Chunk)
    <2>0. Tiles(read, digests, start)
      BY HashingLies
    <2>1. digests[j] = SubSeq(read, start + (j - 1) * Chunk + 1, start + j * Chunk)
      BY <2>0 DEF Tiles
    <2>2. PICK x \in Nat, y \in Nat : x = (j - 1) * Chunk /\ y = j * Chunk /\ y <= D
      BY <1>1, <1>2, ChunkEnds, Zenon
    <2>3. PICK m \in Nat \ {0}, n \in Nat : m = start + x + 1 /\ n = start + y /\ n <= Len(read)
      <3>1. y <= D
        BY <2>2
      <3>2. start + x + 1 \in Nat \ {0} /\ start + y \in Nat /\ start + y <= Len(read)
        BY <1>20, <1>2, <3>1
      <3> QED  BY <3>2, SMTT(60)
    <2>4. n <= Len(read)
      BY <2>3
    <2>5. SubSeq(Append(read, u), m, n) = SubSeq(read, m, n)
      BY <2>4, SliceMore
    <2> QED  BY <2>1, <2>2, <2>3, <2>5, Zenon
  <1>6. ASSUME Len(Append(chunk, u)) # Chunk
        PROVE  Hashing(Append(read, u), Append(chunk, u), index, digests, start)
    <2>1. Len(Append(chunk, u)) < Chunk /\ Len(Append(read, u)) = P + Len(Append(chunk, u))
      <3>1. PICK a \in Nat, b \in Nat, c \in Nat : a = Len(chunk) /\ b = Len(read) /\ c = Len(Append(chunk, u))
        BY <1>2, <1>3
      <3>2. c = a + 1 /\ a < Chunk /\ c # Chunk /\ b = P + a
        BY <1>20, <1>2, <1>3, <1>6, <3>1
      <3>3. c < Chunk /\ b + 1 = P + c
        BY <1>2, <3>2
      <3> QED  BY <1>3, <3>1, <3>3
    <2>2. Tiles(Append(read, u), digests, start)
      BY <1>5, Zenon DEF Tiles
    <2> QED  BY <1>1, <1>2, <1>4, <2>1, <2>2, Zenon DEF Hashing
  <1>7. ASSUME Len(Append(chunk, u)) = Chunk
        PROVE  /\ Hashing(Append(read, u), <<>>, index + 1, Append(digests, Append(chunk, u)), start)
               /\ Hashing(Append(read, u), <<>>, index + 1, <<>>, (index + 1) * Chunk)
    <2>1. (index + 1) * Chunk = P + Chunk /\ Len(Append(read, u)) = P + Chunk
      <3>1. (index + 1) * Chunk = index * Chunk + Chunk
        BY <1>2, OneMore
      <3>2. (index + 1) * Chunk = P + Chunk
        BY <1>1, <3>1
      <3>3. Len(Append(read, u)) = P + Chunk
        <4>1. PICK a \in Nat, b \in Nat : a = Len(chunk) /\ b = Len(read)
          BY <1>2
        <4>2. a + 1 = Chunk /\ b = P + a /\ Len(Append(read, u)) = b + 1
          BY <1>20, <1>3, <1>7, <4>1
        <4>3. b + 1 = P + Chunk
          BY <1>2, <4>2
        <4> QED  BY <4>2, <4>3
      <3> QED  BY <3>2, <3>3
    <2>2. PICK E \in Nat : E = P + Chunk
      BY <1>2
    <2>3. SubSeq(Append(read, u), E + 1, E) = <<>>
      <3>1. Len(Append(read, u)) = E /\ E + 1 \in Nat \ {0} /\ E <= Len(Append(read, u)) /\ ~(E + 1 <= E)
        BY <2>1, <2>2
      <3>2. PICK b \in Seq(Nat), m \in Nat \ {0} : b = Append(read, u) /\ m = E + 1 /\ E <= Len(b) /\ ~(m <= E)
        BY <1>3, <3>1, Zenon
      <3>3. SubSeq(b, m, E) \in Seq(Nat) /\ Len(SubSeq(b, m, E)) = 0
        BY <3>2, SliceType
      <3> QED  BY <3>2, <3>3
    <2>4. Hashing(Append(read, u), <<>>, index + 1, <<>>, (index + 1) * Chunk)
      <3>1. Len(<<>>) = 0 /\ 0 <= index + 1 /\ index + 1 - 0 = index + 1 /\ E + 0 = E /\ 0 < Chunk
        BY <1>2
      <3>2. (index + 1) * Chunk = E /\ Len(Append(read, u)) = E
        BY <2>1, <2>2
      <3>3. Tiles(Append(read, u), <<>>, (index + 1) * Chunk)
        BY DEF Tiles
      <3>4. PICK b, e, k, n : b = Append(read, u) /\ e = <<>> /\ k = index + 1 /\ n = (index + 1) * Chunk
        BY Zenon
      <3>5. /\ Len(e) <= k /\ n = (k - Len(e)) * Chunk /\ Len(b) = k * Chunk + Len(e) /\ Len(e) < Chunk
            /\ e = SubSeq(b, k * Chunk + 1, Len(b)) /\ Tiles(b, e, n)
        BY <2>3, <3>1, <3>2, <3>3, <3>4
      <3>6. Hashing(b, e, k, e, n)
        BY <3>5, Zenon DEF Hashing
      <3> QED  BY <3>4, <3>6
    <2>5. PICK digs \in Seq(Seq(Nat)) :
             /\ digs = Append(digests, Append(chunk, u)) /\ Len(digs) = Len(digests) + 1
             /\ digs[Len(digests) + 1] = Append(chunk, u) /\ \A j \in 1 .. Len(digests) : digs[j] = digests[j]
      <3>1. PICK c \in Seq(Nat) : c = Append(chunk, u)
        BY <1>3, Zenon
      <3>2. /\ Append(digests, c) \in Seq(Seq(Nat)) /\ Len(Append(digests, c)) = Len(digests) + 1
            /\ Append(digests, c)[Len(digests) + 1] = c /\ \A j \in 1 .. Len(digests) : Append(digests, c)[j] = digests[j]
        OBVIOUS
      <3> QED  BY <3>1, <3>2, Zenon
    <2>6. ASSUME NEW j \in 1 .. Len(digs)
          PROVE  digs[j] = SubSeq(Append(read, u), start + (j - 1) * Chunk + 1, start + j * Chunk)
      <3>1. CASE j \in 1 .. Len(digests)
        BY <1>5, <2>5, <3>1, Zenon
      <3>2. CASE j = Len(digests) + 1
        <4>1. j - 1 = Len(digests) /\ (Len(digests) + 1) * Chunk = D + Chunk
          BY <1>1, <1>2, <3>2, OneMore
        <4>2. start + D + 1 = P + 1 /\ start + (D + Chunk) = P + Chunk
          BY <1>1, <1>2
        <4>3. digs[j] = SubSeq(Append(read, u), P + 1, P + Chunk)
          BY <1>4, <2>1, <2>5, <3>2, Zenon
        <4>4. (j - 1) * Chunk = D /\ j * Chunk = D + Chunk
          BY <1>1, <3>2, <4>1
        <4> QED  BY <4>2, <4>3, <4>4, Zenon
      <3>3. j \in 1 .. Len(digests) \/ j = Len(digests) + 1
        BY <1>2, <2>5
      <3> QED  BY <3>1, <3>2, <3>3, Zenon
    <2>7. Hashing(Append(read, u), <<>>, index + 1, digs, start)
      <3>1. /\ Len(<<>>) = 0 /\ E + 0 = E /\ 0 < Chunk /\ DOMAIN digs = 1 .. Len(digs) /\ Len(digs) <= index + 1
            /\ index + 1 - Len(digs) = first
        BY <1>1, <1>2, <2>5
      <3>2. (index + 1) * Chunk = E /\ Len(Append(read, u)) = E
        BY <2>1, <2>2
      <3>3. start = (index + 1 - Len(digs)) * Chunk
        BY <1>1, <3>1, Zenon
      <3>4. /\ Len(Append(read, u)) = (index + 1) * Chunk + Len(<<>>)
            /\ <<>> = SubSeq(Append(read, u), (index + 1) * Chunk + 1, Len(Append(read, u)))
        BY <2>3, <3>1, <3>2, SMTT(60)
      <3>5. Tiles(Append(read, u), digs, start)
        BY <2>6, Zenon DEF Tiles
      <3>6. Len(digs) <= index + 1 /\ Len(<<>>) < Chunk
        BY <3>1
      <3>7. PICK b, e, k : b = Append(read, u) /\ e = <<>> /\ k = index + 1
        BY Zenon
      <3>8. Len(digs) <= k /\ start = (k - Len(digs)) * Chunk /\ Len(e) < Chunk
        BY <3>3, <3>6, <3>7
      <3>9. Len(b) = k * Chunk + Len(e) /\ e = SubSeq(b, k * Chunk + 1, Len(b))
        BY <3>4, <3>7, Zenon
      <3>10. Tiles(b, digs, start)
        BY <3>5, <3>7
      <3>11. Hashing(b, e, k, digs, start)
        BY <3>8, <3>9, <3>10, Zenon DEF Hashing
      <3> QED  BY <3>7, <3>11
    <2> QED  BY <2>4, <2>5, <2>7
  <1> QED  BY <1>6, <1>7

\* The range a sink makes of its digests, and of the short chunk at the end, is well formed and true.
LEMMA HashingSends ==
    ASSUME LogConstants, NEW read \in Seq(Nat), NEW chunk \in Seq(Nat), NEW index \in Nat, NEW digests \in Seq(Seq(Nat)),
           NEW start, Hashing(read, chunk, index, digests, start),
           NEW digs, digs = IF chunk = <<>> THEN digests ELSE Append(digests, chunk), digs # <<>>,
           NEW body, body = [kind |-> "range", start |-> start, end |-> index * Chunk + Len(chunk), digests |-> digs]
    PROVE  WellFormed(body) /\ Describes(body, read)
  <1>1. PICK first \in Nat, P \in Nat, D \in Nat :
                /\ first = index - Len(digests) /\ P = index * Chunk /\ D = Len(digests) * Chunk
                /\ start = first * Chunk /\ start = P - D /\ D <= P /\ Len(read) = P + Len(chunk)
    BY HashingLies, SMTT(60)
  <1>2. /\ Chunk \in Nat /\ Chunk > 0 /\ Len(digests) \in Nat /\ Len(chunk) \in Nat /\ Len(read) \in Nat
        /\ Len(chunk) < Chunk /\ Len(digests) <= index /\ start \in Nat
    <2>1. Len(chunk) < Chunk /\ Len(digests) <= index /\ start \in Nat
      BY HashingLies
    <2>2. Chunk \in Nat /\ Chunk > 0
      BY DEF LogConstants
    <2>3. Len(digests) \in Nat /\ Len(chunk) \in Nat /\ Len(read) \in Nat
      OBVIOUS
    <2> QED  BY <2>1, <2>2, <2>3
  <1>21. Tiles(read, digests, start)
    BY HashingLies
  <1>20. start = P - D /\ D <= P /\ Len(read) = P + Len(chunk)
    BY <1>1
  <1>3. PICK end \in Nat : end = P + Len(chunk) /\ end = Len(read) /\ end <= Len(read)
    BY <1>1, <1>2
  <1>4. ASSUME NEW j \in 1 .. Len(digests)
        PROVE  digests[j] = SubSeq(read, start + (j - 1) * Chunk + 1, MinOf(start + j * Chunk, end))
    <2>1. digests[j] = SubSeq(read, start + (j - 1) * Chunk + 1, start + j * Chunk)
      BY <1>21 DEF Tiles
    <2>2. PICK y \in Nat : y = j * Chunk /\ y <= D
      BY <1>1, <1>2, ChunkEnds, Zenon
    <2>3. MinOf(start + y, end) = start + y
      <3>1. y <= D /\ end = P + Len(chunk)
        BY <1>3, <2>2
      <3>2. start + y <= end
        BY <1>20, <1>2, <3>1
      <3> QED  BY <1>2, <3>2 DEF MinOf
    <2> QED  BY <2>1, <2>2, <2>3, Zenon
  <1>5. CASE chunk = <<>>
    <2>1. digs \in Seq(Seq(Nat)) /\ digs = digests /\ Len(digs) > 0 /\ Len(chunk) = 0 /\ end = P
      BY <1>2, <1>3, <1>5
    <2>2. end - start = Len(digs) * Chunk /\ (Len(digs) - 1) * Chunk < end - start /\ end - start <= Len(digs) * Chunk
      <3>1. PICK x \in Nat : x = (Len(digs) - 1) * Chunk /\ D = x + Chunk
        <4>1. Len(digests) \in 1 .. Len(digests)
          BY <1>2, <2>1
        <4> QED  BY <1>1, <1>2, <2>1, <4>1, ChunkEnds, ZenonT(60)
      <3>2. end - start = D
        BY <1>1, <2>1
      <3> QED  BY <1>1, <1>2, <2>1, <3>1, <3>2, SMTT(60)
    <2>3. body = [kind |-> "range", start |-> start, end |-> end, digests |-> digs]
      BY <1>1, <1>3
    <2>4. \A j \in 1 .. Len(digs) : digs[j] = SubSeq(read, start + (j - 1) * Chunk + 1, MinOf(start + j * Chunk, end))
      BY <1>4, <2>1
    <2> QED  BY <1>1, <1>3, <2>1, <2>2, <2>3, <2>4, RangeIs, ZenonT(60)
  <1>6. CASE chunk # <<>>
    <2>1. PICK ds \in Seq(Seq(Nat)) : /\ ds = digs /\ Len(ds) = Len(digests) + 1 /\ ds # <<>>
                                      /\ ds[Len(digests) + 1] = chunk /\ \A j \in 1 .. Len(digests) : ds[j] = digests[j]
      <3>1. /\ Append(digests, chunk) \in Seq(Seq(Nat)) /\ Len(Append(digests, chunk)) = Len(digests) + 1
            /\ Append(digests, chunk)[Len(digests) + 1] = chunk
            /\ \A j \in 1 .. Len(digests) : Append(digests, chunk)[j] = digests[j]
        OBVIOUS
      <3> QED  BY <1>6, <3>1, Zenon
    <2>2. Len(chunk) > 0
      BY <1>2, <1>6
    <2>3. (Len(digests) + 1) * Chunk = D + Chunk /\ Len(ds) - 1 = Len(digests) /\ Len(ds) * Chunk = D + Chunk
      BY <1>1, <1>2, <2>1, OneMore
    <2>4. (Len(ds) - 1) * Chunk < end - start /\ end - start <= Len(ds) * Chunk
      <3>1. D < end - start /\ end - start <= D + Chunk
        BY SMTT(60), <1>20, <1>2, <1>3, <2>2
      <3> QED  BY <1>1, <2>3, <3>1, Zenon
    <2>5. ASSUME NEW j \in 1 .. Len(ds)
          PROVE  ds[j] = SubSeq(read, start + (j - 1) * Chunk + 1, MinOf(start + j * Chunk, end))
      <3>1. CASE j \in 1 .. Len(digests)
        BY <1>4, <2>1, <3>1
      <3>2. CASE j = Len(digests) + 1
        <4>1. (j - 1) * Chunk = D /\ j * Chunk = D + Chunk
          BY <1>1, <2>1, <2>3, <3>2
        <4>2. start + D + 1 = P + 1 /\ MinOf(start + (D + Chunk), end) = end
          BY <1>1, <1>2, <1>3 DEF MinOf
        <4>3. chunk = SubSeq(read, P + 1, Len(read))
          BY <1>1, Zenon DEF Hashing
        <4> QED  BY <1>3, <2>1, <3>2, <4>1, <4>2, <4>3, Zenon
      <3>3. j \in 1 .. Len(digests) \/ j = Len(digests) + 1
        BY <1>2, <2>1, SMTT(60)
      <3> QED  BY <3>1, <3>2, <3>3
    <2>6. body = [kind |-> "range", start |-> start, end |-> end, digests |-> ds]
      BY <1>1, <1>3, <2>1
    <2>7. start = first * Chunk /\ end <= Len(read) /\ ds # <<>>
      BY <1>1, <1>3, <2>1, Zenon
    <2> QED  BY <2>4, <2>5, <2>6, <2>7, RangeIs, ZenonT(60)
  <1> QED  BY <1>5, <1>6

============================================================================
