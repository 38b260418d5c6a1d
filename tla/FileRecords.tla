---------------------------- MODULE FileRecords ----------------------------
(***************************************************************************)
(* What the checkpoint sink of one file promises to the log: a FileBegin,  *)
(* then the ranges of the file in order and without a gap, then Close; or, *)
(* after any of them, Discard.  Nothing follows Close or Discard.          *)
(* (FileSink of checkpoint/sink.rs, with or without the hashing worker.)   *)
(***************************************************************************)
EXTENDS Integers, Sequences

CONSTANTS
    Units,        \* the units of the source
    Chunk,        \* units per chunk (CHUNK_SIZE)
    RangeChunks,  \* chunks per Range record (CheckpointPolicy.range_chunks)
    Start         \* units of a validated prefix (valid_through), on a chunk boundary

VARIABLE sent     \* the messages that entered the channel to the log, in order

Least(a, b) == IF a < b THEN a ELSE b
Chunks(len) == (len + Chunk - 1) \div Chunk

\* The digest of chunk k: the tuple of its units.
DigestOf(k) == [i \in 1 .. Least(Chunk, Units - k * Chunk) |-> k * Chunk + i]

Begin   == [type |-> "begin"]
Close   == [type |-> "close"]
Discard == [type |-> "discard"]
Range(from, to, digests) == [type |-> "range", start |-> from, end |-> to, digests |-> digests]

\* The n-th Range of the file, and how many there are.
Span == RangeChunks * Chunk
RangeAt(n) ==
    LET from == Start + (n - 1) * Span
        to   == Least(Units, from + Span)
    IN  Range(from, to, [i \in 1 .. Chunks(to - from) |-> DigestOf(from \div Chunk + i - 1)])
Ranges == (Units - Start + Span - 1) \div Span

Open == sent[Len(sent)] \notin {Close, Discard}

Init == sent = <<Begin>>

SendRange   == Open /\ Len(sent) <= Ranges /\ sent' = Append(sent, RangeAt(Len(sent)))
SendClose   == Open /\ Len(sent) = Ranges + 1 /\ sent' = Append(sent, Close)
SendDiscard == Open /\ sent' = Append(sent, Discard)

Next == SendRange \/ SendClose \/ SendDiscard

Spec == Init /\ [][Next]_sent
=============================================================================
