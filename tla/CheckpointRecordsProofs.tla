---------------------- MODULE CheckpointRecordsProofs ----------------------
(***************************************************************************)
(* Proofs about the records of the write-ahead log, where no source grows: *)
(* under Strict the data is durable before its checkpoint, and what was    *)
(* synced scans.                                                           *)
(***************************************************************************)
EXTENDS CheckpointLogProofs

----------------------------------------------------------------------------
(* Each step keeps SinkSays.  *)

\* The unit a buffer brings, and what it makes of the run.
LEMMA StreamUnitIs ==
    ASSUME LogConstants, CopyInv, StreamUnit
    PROVE  /\ run.pc = "stream" /\ run.out = <<>> /\ UNCHANGED <<src, dest, seg, gen, chan, wal>>
           /\ run.carry # <<>> \/ Len(run.read) < Len(src[run.file].data)
           /\ run.file \in Files
           /\ \/ run' = [run EXCEPT !.pc = "cleanup", !.err = "data"] /\ UNCHANGED part
              \/ \E u \in Nat :
                   /\ part' = [part EXCEPT ![run.file].data = Append(@, u)]
                   /\ LET r == [run EXCEPT !.read = Append(@, u), !.carry = IF @ = <<>> THEN @ ELSE Tail(@)]
                      IN  run' = IF run.sink = "on" THEN Hashed(r, u) ELSE r
  <1> DEFINE unit == IF run.carry # <<>> THEN Head(run.carry) ELSE src[run.file].data[Len(run.read) + 1]
             r(u) == [run EXCEPT !.read = Append(@, u), !.carry = IF @ = <<>> THEN @ ELSE Tail(@)]
  <1>1. /\ run.pc = "stream" /\ run.out = <<>> /\ UNCHANGED <<src, dest, seg, gen, chan, wal>>
        /\ run.carry # <<>> \/ Len(run.read) < Len(src[run.file].data)
        /\ \/ run' = [run EXCEPT !.pc = "cleanup", !.err = "data"] /\ UNCHANGED part
           \/ /\ part' = [part EXCEPT ![run.file].data = Append(@, unit)]
              /\ run' = IF run.sink = "on" THEN Hashed(r(unit), unit) ELSE r(unit)
    BY Zenon DEF StreamUnit
  <1>2. run.file \in Files
    BY <1>1 DEF CopyInv, RunTyped, CopySays
  <1>3. unit \in Nat
    <2>1. run.carry \in Seq(Nat) /\ run.read \in Seq(Nat) /\ src[run.file].data \in Seq(Nat)
      BY <1>2 DEF CopyInv, RunTyped, FilesTyped
    <2>2. CASE run.carry # <<>>
      <3>1. Head(run.carry) \in Nat
        BY <2>1, <2>2
      <3> QED  BY <2>2, <3>1
    <2>3. CASE run.carry = <<>>
      <3>1. Len(run.read) + 1 \in 1 .. Len(src[run.file].data)
        BY <1>1, <2>1, <2>3
      <3>2. src[run.file].data[Len(run.read) + 1] \in Nat
        BY <2>1, <3>1, MemberOf, Zenon
      <3> QED  BY <2>3, <3>2
    <2> QED  BY <2>2, <2>3
  <1> HIDE DEF unit
  <1> QED  BY <1>1, <1>2, <1>3, Zenon

\* One more digest.
LEMMA DigestsMore ==
    ASSUME NEW d \in Seq(Seq(Nat)), NEW c \in Seq(Nat)
    PROVE  Append(d, c) \in Seq(Seq(Nat)) /\ Append(d, c) # <<>>
  <1>1. Append(d, c) \in Seq(Seq(Nat)) /\ Len(Append(d, c)) = Len(d) + 1
    OBVIOUS
  <1>2. Len(d) + 1 # 0
    OBVIOUS
  <1> QED  BY <1>1, <1>2, Zenon

\* The hasher after one more unit; the range it sends is well formed and true of what was read.
LEMMA HashedSays ==
    ASSUME LogConstants, RunTyped, run.file \in Files, HashSays, run.carry # <<>> \/ Len(run.read) # InitLen,
           NEW u \in Nat, NEW r, r = [run EXCEPT !.read = Append(@, u), !.carry = IF @ = <<>> THEN @ ELSE Tail(@)],
           run' = Hashed(r, u)
    PROVE  /\ HashSays'
           /\ \A m \in Range(run'.out) : m.file = run.file /\ WellFormed(m.body) /\ Describes(m.body, run'.read)
  <1> DEFINE chunk == Append(run.chunk, u)
             full  == Len(chunk) = Chunk
             digs  == Append(run.digests, chunk)
             send  == full /\ Len(digs) >= RangeChunks
             end   == (run.index + 1) * Chunk
  <1>1. /\ run.read \in Seq(Nat) /\ run.chunk \in Seq(Nat) /\ run.index \in Nat /\ run.digests \in Seq(Seq(Nat))
    BY DEF RunTyped
  <1>2. Hashing(run.read, run.chunk, run.index, run.digests, run.start)
    BY DEF HashSays
  <1>3. /\ ~full => Hashing(Append(run.read, u), chunk, run.index, run.digests, run.start)
        /\ full => /\ Hashing(Append(run.read, u), <<>>, run.index + 1, digs, run.start)
                   /\ Hashing(Append(run.read, u), <<>>, run.index + 1, <<>>, end)
    BY <1>1, <1>2, HashingMore, SMTT(60)
  <1>4. /\ run'.read = Append(run.read, u)
        /\ run'.chunk = IF full THEN <<>> ELSE chunk
        /\ run'.index = IF full THEN run.index + 1 ELSE run.index
        /\ run'.digests = IF send THEN <<>> ELSE IF full THEN digs ELSE run.digests
        /\ run'.start = IF send THEN end ELSE run.start
        /\ run'.out = IF send THEN <<RangeMsg(run.file, run.start, end, digs)>> ELSE <<>>
    BY HashedIs, ZenonT(60)
  <1>5. run'.read \in Seq(Nat) /\ run.index + 1 \in Nat /\ digs \in Seq(Seq(Nat)) /\ digs # <<>> /\ end + 0 = end
    <2>1. chunk \in Seq(Nat)
      BY <1>1
    <2>2. digs \in Seq(Seq(Nat)) /\ digs # <<>>
      <3> HIDE DEF chunk
      <3> QED  BY <1>1, <2>1, DigestsMore, Zenon
    <2>3. PICK k \in Nat : k = run.index + 1
      BY <1>1
    <2>4. k * Chunk \in Nat
      BY DEF LogConstants
    <2>5. run'.read \in Seq(Nat)
      <3>1. Append(run.read, u) \in Seq(Nat)
        BY <1>1
      <3> QED  BY <1>4, <3>1, Zenon
    <2> QED  BY <2>2, <2>3, <2>4, <2>5, SMTT(60)
  <1> HIDE DEF chunk, full, digs, end
  <1>6. HashSays'
    <2>1. Hashing(run'.read, run'.chunk, run'.index, run'.digests, run'.start)
      BY <1>3, <1>4, Zenon
    <2> QED  BY <2>1 DEF HashSays
  <1>7. ASSUME send
        PROVE  LET body == [kind |-> "range", start |-> run.start, end |-> end, digests |-> digs]
               IN  WellFormed(body) /\ Describes(body, run'.read)
    <2>0. <<>> \in Seq(Nat) /\ Len(<<>>) = 0
      OBVIOUS
    <2>1. PICK e \in Seq(Nat) : e = <<>> /\ Len(e) = 0
      BY <2>0, Zenon
    <2>2. Hashing(run'.read, e, run.index + 1, digs, run.start)
      BY <1>3, <1>4, <1>7, <2>1, Zenon
    <2>3. PICK k \in Nat : k = run.index + 1 /\ k * Chunk + Len(e) = end
      BY <1>5, <2>1 DEF end
    <2>4. PICK rd \in Seq(Nat) : rd = run'.read
      BY <1>5
    <2>5. digs = IF e = <<>> THEN digs ELSE Append(digs, e)
      BY <2>1
    <2>6. [kind |-> "range", start |-> run.start, end |-> end, digests |-> digs]
            = [kind |-> "range", start |-> run.start, end |-> k * Chunk + Len(e), digests |-> digs]
      BY <2>3
    <2>7. Hashing(rd, e, k, digs, run.start)
      BY <2>2, <2>3, <2>4
    <2>8. LET body == [kind |-> "range", start |-> run.start, end |-> k * Chunk + Len(e), digests |-> digs]
          IN  WellFormed(body) /\ Describes(body, rd)
      BY <1>5, <2>5, <2>7, HashingSends
    <2> QED  BY <2>4, <2>6, <2>8
  <1>8. ASSUME NEW m \in Range(run'.out)
        PROVE  m.file = run.file /\ WellFormed(m.body) /\ Describes(m.body, run'.read)
    <2>1. CASE send
      <3>1. m = RangeMsg(run.file, run.start, end, digs)
        BY <1>4, <2>1, RangeOne, ZenonT(60)
      <3>2. m.file = run.file /\ m.body = [kind |-> "range", start |-> run.start, end |-> end, digests |-> digs]
        BY <3>1 DEF RangeMsg
      <3> QED  BY <1>7, <2>1, <3>2
    <2>2. CASE ~send
      BY <1>4, <2>2, RangeEmpty
    <2> QED  BY <2>1, <2>2
  <1> QED  BY <1>6, <1>8

\* Every step keeps what is said of the sink.
LEMMA NextSinks ==
    ASSUME LogConstants, "grow" \notin ChangeKinds, CopyInv, SinkSays, [Next]_vars
    PROVE  SinkSays'
  \* A step that leaves what the sink holds, or ends it.
  <1>SinkKept. ASSUME UNCHANGED src, run'.pc \in {"stream", "check", "await", "staged", "cleanup", "join"},
                      run'.pc \in {"stream", "check"} => run'.sink # "ended",
                      run'.sink = "on" => /\ run.sink = "on" /\ run'.read = run.read /\ run'.carry = run.carry /\ run'.chunk = run.chunk
                                          /\ run'.index = run.index /\ run'.digests = run.digests /\ run'.start = run.start
               PROVE  SinkSays'
    <2> USE <1>SinkKept
    <2>1. run'.sink = "on" => HashSays'
      BY Zenon DEF SinkSays, HashSays
    <2> QED  BY <2>1 DEF SinkSays
  \* open_checkpoints, the publication and the end of a file, of a run and of the process.
  <1>ResetSinks. ASSUME OpenLog \/ Publish \/ DropFile \/ JoinLog \/ \E k \in CrashKinds : Crash(k)
                 PROVE  SinkSays'
    <2> USE <1>ResetSinks
    \* A step after which nothing is being copied.
    <2>SinkReset. ASSUME UNCHANGED src, run'.pc \in {"down", "next", "finish"}, run'.sink = "none", run'.chunk = <<>>,
                         run'.digests = <<>>, run'.out = <<>>
                  PROVE  SinkSays'
      BY <2>SinkReset DEF SinkSays
    <2>1. CASE OpenLog
      <3>1. /\ run.pc = "down" /\ UNCHANGED src
            /\ \/ \E c : run' = [run EXCEPT !.pc = "next", !.log = TRUE, !.cells = c]
               \/ run' = [run EXCEPT !.pc = "next", !.log = TRUE]
               \/ run' = [run EXCEPT !.pc = "next"]
        BY <2>1, Zenon DEF OpenLog
      <3>2. run.sink = "none" /\ run.chunk = <<>> /\ run.digests = <<>> /\ run.out = <<>>
        BY <3>1, Zenon DEF SinkSays
      <3>3. run'.pc = "next" /\ run'.sink = run.sink /\ run'.chunk = run.chunk /\ run'.digests = run.digests /\ run'.out = run.out
        BY <3>1, ZenonT(60) DEF CopyInv, RunTyped, Down
      <3> QED  BY <3>1, <3>2, <3>3, <2>SinkReset, Zenon
    <2>2. CASE Publish
      <3>1. UNCHANGED src /\ run' = [Down EXCEPT !.pc = "next", !.todo = run.todo, !.log = run.log, !.cells = run.cells]
        BY <2>2 DEF Publish
      <3> QED  BY <3>1, <2>SinkReset DEF Down
    <2>3. CASE DropFile
      <3>1. UNCHANGED src /\ \E p \in {"next", "finish"} : \E t :
              run' = [Down EXCEPT !.pc = p, !.todo = t, !.log = run.log, !.cells = run.cells, !.lost = run.lost]
        BY <2>3, Zenon DEF DropFile
      <3> QED  BY <3>1, <2>SinkReset DEF Down
    <2>4. CASE JoinLog \/ \E k \in CrashKinds : Crash(k)
      <3>1. UNCHANGED src /\ run' = [Down EXCEPT !.todo = Unpublished]
        BY <2>4 DEF JoinLog, Crash
      <3> QED  BY <3>1, <2>SinkReset DEF Down
    <2> QED  BY <2>1, <2>2, <2>3, <2>4
  \* The sends, the answers, the failures and the ends of a sink.
  <1>RunSinks. ASSUME SendMsg \/ CheckLog \/ Complete \/ CloseAnswered \/ AbortSink \/ GiveUpSend \/ FinishLog \/ BeatFails
               PROVE  SinkSays'
    <2> USE <1>RunSinks
    <2>0. DOMAIN run = DOMAIN Down /\ run.sink \in {"none", "on", "ended"}
          /\ run.pc \in {"down", "next", "begin", "stream", "check", "await", "staged", "cleanup", "finish", "join"}
      BY DEF CopyInv, RunTyped
    <2>1. CASE SendMsg
      <3>1. UNCHANGED src /\ run.out # <<>> /\ run' = [run EXCEPT !.out = Tail(@)]
        BY <2>1 DEF SendMsg
      <3>2. run.pc \in {"stream", "check", "await", "staged", "cleanup", "join"}
        BY <2>0, <3>1 DEF SinkSays
      <3>3. run.pc \in {"stream", "check"} => run.sink # "ended"
        BY DEF SinkSays
      <3> QED  BY <2>0, <3>1, <3>2, <3>3, <1>SinkKept DEF Down
    <2>2. CASE CheckLog
      <3>1. UNCHANGED src /\ run.pc = "check" /\ (run' = [run EXCEPT !.pc = "cleanup", !.err = "wal"] \/ run' = [run EXCEPT !.pc = "stream"])
        BY <2>2 DEF CheckLog
      <3>3. run.sink # "ended"
        BY <3>1 DEF SinkSays
      <3> QED  BY <2>0, <3>1, <3>3, <1>SinkKept, ZenonT(60) DEF Down
    <2>3. CASE Complete
      <3>1. UNCHANGED src /\ \/ run.sink = "none" /\ run' = [run EXCEPT !.pc = "staged"]
                             \/ \E o : run' = [run EXCEPT !.pc = "await", !.sink = "ended", !.chunk = <<>>, !.digests = <<>>, !.out = o]
        BY <2>3, Zenon DEF Complete
      <3> QED  BY <2>0, <3>1, <1>SinkKept, ZenonT(60) DEF Down
    <2>4. CASE CloseAnswered
      <3>1. UNCHANGED src /\ \/ run' = [run EXCEPT !.pc = "staged"]
                             \/ \E e : run' = [run EXCEPT !.pc = "cleanup", !.err = e]
        BY <2>4, Zenon DEF CloseAnswered
      <3> QED  BY <2>0, <3>1, <1>SinkKept, ZenonT(60) DEF Down
    <2>5. CASE AbortSink
      <3>1. UNCHANGED src /\ run.pc = "cleanup" /\ \E o : run' = [run EXCEPT !.sink = "ended", !.out = o]
        BY <2>5, Zenon DEF AbortSink
      <3> QED  BY <2>0, <3>1, <1>SinkKept DEF Down
    <2>6. CASE GiveUpSend
      <3>1. UNCHANGED src /\ run.pc = "cleanup" /\ run' = [run EXCEPT !.out = <<>>]
        BY <2>6 DEF GiveUpSend
      <3> QED  BY <2>0, <3>1, <1>SinkKept DEF Down
    <2>7. CASE FinishLog
      <3>1. UNCHANGED src /\ (run' = [run EXCEPT !.pc = "join", !.gone = TRUE] \/ \E o : run' = [run EXCEPT !.pc = "join", !.out = o])
        BY <2>7, Zenon DEF FinishLog
      <3> QED  BY <2>0, <3>1, <1>SinkKept, ZenonT(60) DEF Down
    <2>8. CASE BeatFails
      <3>1. /\ UNCHANGED src
            /\ \/ run.pc = "join" /\ run' = [run EXCEPT !.lost = TRUE, !.out = <<>>, !.gone = TRUE]
               \/ \E s \in {"none", run.sink} :
                    run' = [run EXCEPT !.lost = TRUE, !.pc = "cleanup", !.err = "beat", !.out = <<>>, !.sink = s]
        BY <2>8, Zenon DEF BeatFails
      <3> QED  BY <2>0, <3>1, <1>SinkKept, ZenonT(60) DEF Down
    <2> QED  BY <2>1, <2>2, <2>3, <2>4, <2>5, <2>6, <2>7, <2>8
  \* The decision: what is kept ends with a chunk, or it is the whole source.
  <1>PlanFileSinks. ASSUME NEW f \in Files, PlanFile(f)
                    PROVE  SinkSays'
    <2> USE <1>PlanFileSinks
    <2> DEFINE v == IF run.log THEN PlanResume(run.cells, f) ELSE Fresh
               read == SubSeq(src[f].data, 1, v.keep)
               seen == [len |-> Len(src[f].data), stamp |-> src[f].stamp]
    <2>1. /\ run.pc = "next" /\ UNCHANGED src
          /\ run' = [run EXCEPT !.pc = "begin", !.file = f, !.todo = @ \ {f}, !.seen = seen, !.reused = v.keep,
                                !.read = read, !.carry = v.carry]
      BY DEF PlanFile
    <2>2. Promised(v, src[f], part[f])
      BY PlanPromised DEF CopyInv
    <2> HIDE DEF v
    <2>3. src[f].data \in Seq(Nat) /\ Len(src[f].data) = InitLen /\ v.keep \in Nat /\ v.keep <= Len(src[f].data)
          /\ (v.keep % Chunk = 0 \/ (v.keep = Len(src[f].data) /\ v.carry = <<>>))
      BY <2>2 DEF CopyInv, FilesTyped, Promised, SinkSays
    <2>4. Len(read) = v.keep
      BY <2>3, SliceType
    <2>5. run.sink = "none" /\ run.chunk = <<>> /\ run.digests = <<>> /\ run.out = <<>>
      BY <2>1 DEF SinkSays
    <2> HIDE DEF read, seen
    <2>6. /\ run'.pc = "begin" /\ run'.sink = "none" /\ run'.chunk = <<>> /\ run'.digests = <<>> /\ run'.out = <<>>
          /\ run'.reused = v.keep /\ run'.read = read /\ run'.carry = v.carry
      BY <2>1, <2>5 DEF CopyInv, RunTyped, Down
    <2>7. run'.reused = Len(run'.read) /\ (run'.reused % Chunk = 0 \/ (run'.reused = InitLen /\ run'.carry = <<>>))
      BY <2>3, <2>4, <2>6
    <2> QED  BY <2>1, <2>6, <2>7 DEF SinkSays
  \* FileSink::begin: the hasher starts at the end of what is kept.
  <1>BeginSinkSinks. ASSUME BeginSink
                     PROVE  SinkSays'
    <2> USE <1>BeginSinkSinks
    <2>1. /\ run.pc = "begin" /\ UNCHANGED src
          /\ \/ run' = [run EXCEPT !.pc = "stream"]
             \/ \E o : run' = [run EXCEPT !.pc = "stream", !.sink = "on", !.index = Chunks(run.reused), !.start = run.reused, !.out = o]
             \/ run' = [run EXCEPT !.pc = "cleanup", !.err = "data"]
      BY Zenon DEF BeginSink
    <2>2. DOMAIN run = DOMAIN Down /\ run.read \in Seq(Nat) /\ run.reused \in Nat
      BY DEF CopyInv, RunTyped
    <2>3. /\ run.sink = "none" /\ run.chunk = <<>> /\ run.digests = <<>> /\ run.reused = Len(run.read)
          /\ (run.reused % Chunk = 0 \/ (run.reused = InitLen /\ run.carry = <<>>))
      BY <2>1, Zenon DEF SinkSays
    <2>4. CASE run' = [run EXCEPT !.pc = "stream"] \/ run' = [run EXCEPT !.pc = "cleanup", !.err = "data"]
      BY <2>1, <2>2, <2>3, <2>4, <1>SinkKept, Zenon DEF Down
    <2>5. CASE \E o : run' = [run EXCEPT !.pc = "stream", !.sink = "on", !.index = Chunks(run.reused), !.start = run.reused, !.out = o]
      <3>1. /\ run'.pc = "stream" /\ run'.sink = "on" /\ run'.index = Chunks(run.reused) /\ run'.start = run.reused
            /\ run'.read = run.read /\ run'.carry = run.carry /\ run'.chunk = <<>> /\ run'.digests = <<>>
        BY <2>2, <2>3, <2>5 DEF Down
      <3>2. ASSUME run.reused % Chunk = 0
            PROVE  Hashing(run.read, <<>>, Chunks(run.reused), <<>>, run.reused)
        <4>1. PICK n \in Nat : n = Chunks(run.reused)
          BY <2>2, ChunksCover
        <4>2. run.reused = n * Chunk
          BY <2>2, <3>2, <4>1, ChunksCover, SMTT(60)
        <4>3. PICK P \in Nat : P = n * Chunk /\ P = run.reused /\ P = Len(run.read)
          BY <2>2, <2>3, <4>2
        <4>4. Len(<<>>) = 0 /\ 0 <= n /\ n - 0 = n /\ P + 0 = P /\ 0 < Chunk
          BY DEF LogConstants
        <4>5. <<>> = SubSeq(run.read, P + 1, P)
          <5>1. PICK m \in Nat \ {0} : m = P + 1 /\ ~(m <= P)
            OBVIOUS
          <5>2. SubSeq(run.read, m, P) \in Seq(Nat) /\ Len(SubSeq(run.read, m, P)) = 0
            BY <2>2, <4>3, <5>1, SliceType
          <5> QED  BY <5>1, <5>2
        <4>6. Tiles(run.read, <<>>, run.reused)
          BY DEF Tiles
        <4>7. PICK e : e = <<>>
          OBVIOUS
        <4>8. Len(e) <= n /\ run.reused = (n - Len(e)) * Chunk /\ Len(e) < Chunk
          BY <4>2, <4>4, <4>7
        <4>9. Len(run.read) = n * Chunk + Len(e) /\ e = SubSeq(run.read, n * Chunk + 1, Len(run.read))
          BY <4>3, <4>4, <4>5, <4>7
        <4>10. Hashing(run.read, e, n, e, run.reused)
          BY <4>6, <4>7, <4>8, <4>9 DEF Hashing
        <4> QED  BY <4>1, <4>7, <4>10
      <3>3. HashSays'
        <4>1. CASE run.reused % Chunk = 0
          BY <3>1, <3>2, <4>1 DEF HashSays
        <4>2. CASE run.reused = InitLen /\ run.carry = <<>>
          BY <2>3, <3>1, <4>2 DEF HashSays
        <4> QED  BY <2>3, <4>1, <4>2
      <3> QED  BY <2>1, <3>1, <3>3, Zenon DEF SinkSays
    <2> QED  BY <2>1, <2>4, <2>5, Zenon
  \* One buffer.
  <1>StreamUnitSinks. ASSUME StreamUnit
                      PROVE  SinkSays'
    <2> USE <1>StreamUnitSinks
    <2>1. /\ run.pc = "stream" /\ UNCHANGED src /\ run.file \in Files
          /\ run.carry # <<>> \/ Len(run.read) < Len(src[run.file].data)
          /\ \/ run' = [run EXCEPT !.pc = "cleanup", !.err = "data"]
             \/ \E u \in Nat : LET r == [run EXCEPT !.read = Append(@, u), !.carry = IF @ = <<>> THEN @ ELSE Tail(@)]
                               IN  run' = IF run.sink = "on" THEN Hashed(r, u) ELSE r
      BY StreamUnitIs, Zenon
    <2>2. DOMAIN run = DOMAIN Down /\ run.sink # "ended" /\ RunTyped
      BY <2>1, Zenon DEF CopyInv, RunTyped, SinkSays
    <2>3. CASE run' = [run EXCEPT !.pc = "cleanup", !.err = "data"]
      BY <2>1, <2>2, <2>3, <1>SinkKept DEF Down
    <2>4. ASSUME NEW u \in Nat, NEW r, r = [run EXCEPT !.read = Append(@, u), !.carry = IF @ = <<>> THEN @ ELSE Tail(@)],
                 run' = IF run.sink = "on" THEN Hashed(r, u) ELSE r
          PROVE  SinkSays'
      <3>1. CASE run.sink = "on"
        <4>1. HashSays /\ (run.carry # <<>> \/ Len(run.read) # InitLen)
          <5>1. Len(src[run.file].data) = InitLen /\ HashSays
            BY <2>1, <3>1, Zenon DEF SinkSays
          <5>2. Len(run.read) \in Nat /\ InitLen \in Nat
            <6>1. run.read \in Seq(Nat)
              BY <2>2 DEF RunTyped
            <6> QED  BY <6>1 DEF LogConstants
          <5>3. run.carry # <<>> \/ Len(run.read) < InitLen
            BY <2>1, <5>1, Zenon
          <5> QED  BY <5>1, <5>2, <5>3
        <4>2. HashSays'
          BY <2>1, <2>2, <2>4, <3>1, <4>1, HashedSays, Zenon
        <4>3. run'.pc \in {"check", "stream"} /\ run'.sink = "on"
          BY <2>1, <2>2, <2>4, <3>1, HashedIs, Zenon
        <4> QED  BY <2>1, <4>2, <4>3, Zenon DEF SinkSays
      <3>2. CASE run.sink # "on"
        <4>1. run'.pc = "stream" /\ run'.sink = run.sink
          BY <2>1, <2>2, <2>4, <3>2, Zenon DEF Down
        <4> QED  BY <2>1, <2>2, <3>2, <4>1, <1>SinkKept, Zenon
      <3> QED  BY <3>1, <3>2
    <2> QED  BY <2>1, <2>3, <2>4, Zenon
  \* The writer thread only answers; a change of the source that does not grow it leaves its length.
  <1>OtherSinks. ASSUME Writer \/ Done \/ UNCHANGED vars \/ \E f \in Files, k \in ChangeKinds : SourceChange(f, k)
                 PROVE  SinkSays'
    <2> USE <1>OtherSinks
    <2>0. LogConstants /\ FilesTyped /\ LogTyped /\ RunTyped /\ WriterTyped
      BY DEF CopyInv
    <2>1. CASE Writer
      <3>1. UNCHANGED src /\ (Answered \/ UNCHANGED run)
        BY <2>0, <2>1, ReceiveIs, WaitIs, BeginFlushIs, SyncDataIs, AppendIs, SyncLogIs, Zenon DEF Writer
      <3>2. Answered
        BY <3>1 DEF Answered
      <3>3. /\ run'.pc = run.pc /\ run'.read = run.read /\ run'.carry = run.carry
            /\ run'.reused = run.reused /\ run'.chunk = run.chunk /\ run'.index = run.index
            /\ run'.digests = run.digests /\ run'.start = run.start /\ run'.out = run.out /\ run'.sink = run.sink
        BY <2>0, <3>2, AnsweredSame
      <3>4. HashSays => HashSays'
        BY <3>3, Zenon DEF HashSays
      <3> QED  BY <3>1, <3>3, <3>4, Zenon DEF SinkSays
    <2>2. CASE Done \/ UNCHANGED vars
      <3>1. UNCHANGED <<src, run>>
        BY <2>2 DEF Done, vars
      <3>2. HashSays => HashSays'
        BY <3>1, Zenon DEF HashSays
      <3> QED  BY <3>1, <3>2, Zenon DEF SinkSays
    <2>3. CASE \E f \in Files, k \in ChangeKinds : SourceChange(f, k)
      <3>1. UNCHANGED run /\ \A g \in Files : Len(src'[g].data) = Len(src[g].data)
        BY <2>0, <2>3, SourceChangeIs, Zenon
      <3>2. HashSays => HashSays'
        BY <3>1, Zenon DEF HashSays
      <3> QED  BY <3>1, <3>2, Zenon DEF SinkSays
    <2> QED  BY <2>1, <2>2, <2>3
  <1>1. CASE Main
    BY <1>1, <1>ResetSinks, <1>RunSinks, <1>BeginSinkSinks, <1>StreamUnitSinks, <1>PlanFileSinks DEF Main
  <1>2. CASE BeatFails
    BY <1>2, <1>RunSinks
  <1>3. CASE \E k \in CrashKinds : Crash(k)
    BY <1>3, <1>ResetSinks
  <1>4. CASE Writer \/ Done \/ UNCHANGED vars \/ \E f \in Files, k \in ChangeKinds : SourceChange(f, k)
    BY <1>4, <1>OtherSinks
  <1> QED  BY <1>1, <1>2, <1>3, <1>4 DEF Next

----------------------------------------------------------------------------
(* Each step keeps RecordsSay.  *)

\* The run goes on: it begins a file of its list, reads on, or drops the file.
Onward ==
    /\ run'.todo \subseteq run.todo /\ run'.file \in {None, run.file} \cup run.todo
    /\ run'.file = run.file /\ run.file # None =>
         /\ run'.read = run.read \/ \E u \in Nat : run'.read = Append(run.read, u)
         /\ part'[run.file].safe >= part[run.file].safe

\* The fields of messages, entries and cells.
LEMMA TypedRecords ==
    ASSUME CopyInv
    PROVE  /\ \A m \in Range(run.out) \cup Range(chan) : m.type \in {"begin", "range"} => m.file \in Files /\ m.body \in Body
           /\ \A e \in Range(wal.pending) \cup Range(wal.batch) : e.file \in Files /\ e.body \in Body
           /\ seg # None => \A c \in Range(seg.cells) : ~Damaged(c) => c.gen \in Nat /\ c.file \in Files /\ c.body \in Body
  <1>1. \A m \in Range(run.out) \cup Range(chan) : m \in Message
    BY RangeIn DEF CopyInv, RunTyped, WriterTyped
  <1>2. \A m \in Message : m.type \in {"begin", "range"} => m.file \in Files /\ m.body \in Body
    BY DEF Message
  <1>3. \A e \in Range(wal.pending) \cup Range(wal.batch) : e \in Entry
    BY RangeIn DEF CopyInv, WriterTyped, ThreadTyped
  <1>4. \A e \in Entry : e.file \in Files /\ e.body \in Body
    BY DEF Entry
  <1>5. ASSUME seg # None PROVE \A c \in Range(seg.cells) : c \in Cell
    <2>1. seg.cells \in Seq(Cell)
      BY <1>5 DEF CopyInv, LogTyped, Log
    <2> QED  BY <2>1, RangeIn
  <1>6. \A c \in Cell : ~Damaged(c) => c.gen \in Nat /\ c.file \in Files /\ c.body \in Body
    BY DEF Cell, Damaged, Damage
  <1> QED  BY <1>1, <1>2, <1>3, <1>4, <1>5, <1>6, Zenon

\* What is new: a message fits, an entry is the record of a message, a batch to append is durable, a cell is an entry.
NewMessages ==
    \A m \in Range(run'.out) \cup Range(chan') :
      m \in Range(run.out) \cup Range(chan) \/ (m.type \in {"begin", "range"} => Fits(m.file, m.body)')
NewEntries ==
    \A e \in Range(wal'.pending) \cup Range(wal'.batch) :
      \/ e \in Range(wal.pending) \cup Range(wal.batch)
      \/ \E m \in Range(chan) : m.type \in {"begin", "range"} /\ e.file = m.file /\ e.body = m.body
NewBatch ==
    Strict /\ wal'.pc = "append" => \/ wal.pc = "append" /\ wal'.batch = wal.batch
                                    \/ \A e \in Range(wal'.batch) : Durable(e.file, e.body)'
NewCells ==
    Strict /\ seg' # None => \A c \in Range(seg'.cells) :
      \/ Damaged(c)
      \/ seg # None /\ c \in Range(seg.cells)
      \/ wal.pc = "append" /\ c.gen = gen /\ \E e \in Range(wal.batch) : c.file = e.file /\ c.body = e.body

\* Every step keeps RecordsSay.
LEMMA NextRecords ==
    ASSUME LogConstants, CopyInv, CopyInv', SinkSays, RecordsSay, [Next]_vars
    PROVE  RecordsSay'
  \* A step inside a run keeps RecordsSay when what is new is as it should be.
  <1>StepKeeps. ASSUME run.pc # "down", run'.pc # "down", gen' = gen, Onward,
                       NewMessages, NewEntries, NewBatch, NewCells
                PROVE  RecordsSay'
    <2> USE <1>StepKeeps
    \* A record that fits goes on fitting.
    <2>FitsKept. ASSUME RunTyped, NEW f \in Files, NEW b \in Body, Fits(f, b)
                 PROVE  Fits(f, b)'
      <3> USE <2>FitsKept
      \* A range still describes data that has grown.
      <3>DescribesMore. ASSUME NEW body \in Body, NEW data \in Seq(Nat), NEW u \in Nat, Describes(body, data)
                        PROVE  Describes(body, Append(data, u))
        <4> USE <3>DescribesMore
        <4>1. SUFFICES ASSUME body.kind = "range"
                       PROVE  /\ body.end <= Len(Append(data, u))
                              /\ \A j \in DOMAIN body.digests :
                                   body.digests[j] = SubSeq(Append(data, u), body.start + (j - 1) * Chunk + 1,
                                                            MinOf(body.start + j * Chunk, body.end))
          BY Zenon DEF Describes
        <4>2. body.start \in Nat /\ body.end \in Nat /\ body.digests \in Seq(Seq(Nat))
          BY <4>1 DEF Body, RangeBody, BeginBody
        <4>3. body.end <= Len(data) /\ Len(Append(data, u)) = Len(data) + 1 /\ Len(data) \in Nat /\ Chunk \in Nat
          BY <4>1 DEF Describes, LogConstants
        <4>4. ASSUME NEW j \in DOMAIN body.digests
              PROVE  body.digests[j] = SubSeq(Append(data, u), body.start + (j - 1) * Chunk + 1,
                                              MinOf(body.start + j * Chunk, body.end))
          <5>1. j \in Nat /\ j - 1 \in Nat
            BY <4>2, SMTT(60)
          <5>2. (j - 1) * Chunk \in Nat /\ j * Chunk \in Nat
            BY <4>3, <5>1
          <5>3. PICK m \in Nat \ {0} : m = body.start + (j - 1) * Chunk + 1
            BY <4>2, <5>2, SMTT(60)
          <5>4. PICK n \in Nat : n = MinOf(body.start + j * Chunk, body.end) /\ n <= Len(data)
            <6>1. PICK x \in Nat : x = j * Chunk
              BY <5>2
            <6>2. MinOf(body.start + x, body.end) \in Nat /\ MinOf(body.start + x, body.end) <= Len(data)
              BY <4>2, <4>3, SMTT(60) DEF MinOf
            <6> QED  BY <6>1, <6>2
          <5>5. body.digests[j] = SubSeq(data, m, n)
            BY <4>1, <5>3, <5>4, SMTT(60) DEF Describes
          <5> QED  BY <5>3, <5>4, <5>5, SliceMore, ZenonT(60)
        <4>5. body.end <= Len(Append(data, u))
          BY <4>2, <4>3
        <4> QED  BY <4>4, <4>5, Zenon
      <3>1. f \notin run'.todo /\ WellFormed(b) /\ f # None
        BY DEF Fits, Onward, LogConstants
      <3>2. ASSUME f = run'.file PROVE Describes(b, run'.read)
        <4>1. f = run.file /\ Describes(b, run.read)
          BY <3>1, <3>2 DEF Fits, Onward
        <4>2. run.read \in Seq(Nat)
          BY DEF RunTyped
        <4>3. CASE run'.read = run.read
          BY <4>1, <4>3
        <4>4. CASE \E u \in Nat : run'.read = Append(run.read, u)
          BY <4>1, <4>2, <4>4, <3>DescribesMore
        <4> QED  BY <3>1, <3>2, <4>1, <4>3, <4>4 DEF Onward
      <3> QED  BY <3>1, <3>2 DEF Fits, WellFormed, Describes
    \* A record that is durable stays so.
    <2>DurableKept. ASSUME NEW f \in Files, NEW b \in Body, Fits(f, b), Durable(f, b)
                    PROVE  Durable(f, b)'
      <3> USE <2>DurableKept
      <3>1. SUFFICES ASSUME f = run'.file, b.kind = "range" PROVE b.end <= part'[f].safe
        BY DEF Durable
      <3>2. f = run.file /\ f # None
        BY <3>1 DEF Fits, Onward, LogConstants
      <3>3. part[f] # None /\ part'[f] # None
        BY <3>1, <3>2 DEF CopyInv, CopySays
      <3>4. part[f].safe \in Nat /\ part'[f].safe \in Nat /\ b.end \in Nat
        BY <3>1, <3>3, SMTT(60) DEF CopyInv, FilesTyped, Partial, Body, BeginBody, RangeBody
      <3>5. b.end <= part[f].safe /\ part'[f].safe >= part[f].safe
        BY <3>1, <3>2 DEF Durable, Onward
      <3> QED  BY <3>4, <3>5
    <2>0. RunTyped
      BY DEF CopyInv
    <2>1. \A m \in Range(run'.out) \cup Range(chan') : m.type \in {"begin", "range"} => Fits(m.file, m.body)'
      <3>1. SUFFICES ASSUME NEW m \in Range(run.out) \cup Range(chan), m.type \in {"begin", "range"} PROVE Fits(m.file, m.body)'
        BY Zenon DEF NewMessages
      <3>2. Fits(m.file, m.body) /\ m.file \in Files /\ m.body \in Body
        BY <3>1, TypedRecords, Zenon DEF RecordsSay
      <3> QED  BY <2>0, <3>2, <2>FitsKept, Zenon
    <2>2. \A e \in Range(wal'.pending) \cup Range(wal'.batch) : Fits(e.file, e.body)'
      <3>1. ASSUME NEW e \in Range(wal'.pending) \cup Range(wal'.batch)
            PROVE  Fits(e.file, e.body) /\ e.file \in Files /\ e.body \in Body
        <4>1. CASE e \in Range(wal.pending) \cup Range(wal.batch)
          BY <4>1, TypedRecords, Zenon DEF RecordsSay
        <4>2. CASE \E m \in Range(chan) : m.type \in {"begin", "range"} /\ e.file = m.file /\ e.body = m.body
          <5>1. PICK m \in Range(chan) : m.type \in {"begin", "range"} /\ e.file = m.file /\ e.body = m.body
            BY <4>2, Zenon
          <5>2. m \in Range(run.out) \cup Range(chan)
            BY <5>1, Zenon
          <5>3. Fits(m.file, m.body) /\ m.file \in Files /\ m.body \in Body
            BY <5>1, <5>2, TypedRecords, Zenon DEF RecordsSay
          <5> QED  BY <5>1, <5>3, Zenon
        <4> QED  BY <4>1, <4>2, Zenon DEF NewEntries
      <3> QED  BY <2>0, <3>1, <2>FitsKept, Zenon
    <2>3. Strict /\ wal'.pc = "append" => \A e \in Range(wal'.batch) : Durable(e.file, e.body)'
      <3>1. SUFFICES ASSUME Strict, wal.pc = "append", NEW e \in Range(wal.batch) PROVE Durable(e.file, e.body)'
        BY Zenon DEF NewBatch
      <3>2. e \in Range(wal.pending) \cup Range(wal.batch)
        BY <3>1, Zenon
      <3>3. Fits(e.file, e.body) /\ Durable(e.file, e.body) /\ e.file \in Files /\ e.body \in Body
        BY <3>1, <3>2, TypedRecords, Zenon DEF RecordsSay
      <3> QED  BY <3>3, <2>DurableKept, Zenon
    <2>4. ASSUME Strict, seg' # None, NEW c \in Range(seg'.cells), ~Damaged(c)
          PROVE  c.gen <= gen' /\ (c.gen = gen' => Fits(c.file, c.body)' /\ Durable(c.file, c.body)')
      <3>1. CASE seg # None /\ c \in Range(seg.cells)
        <4>1. c.gen <= gen /\ c.file \in Files /\ c.body \in Body
          BY <2>4, <3>1, TypedRecords, Zenon DEF RecordsSay
        <4>2. c.gen = gen => Fits(c.file, c.body) /\ Durable(c.file, c.body)
          BY <2>4, <3>1, Zenon DEF RecordsSay
        <4>3. c.gen = gen => Fits(c.file, c.body)' /\ Durable(c.file, c.body)'
          BY <2>0, <4>1, <4>2, <2>FitsKept, <2>DurableKept, Zenon
        <4> QED  BY <4>1, <4>3, Zenon
      <3>2. CASE wal.pc = "append" /\ c.gen = gen /\ \E e \in Range(wal.batch) : c.file = e.file /\ c.body = e.body
        <4>1. PICK e \in Range(wal.batch) : c.file = e.file /\ c.body = e.body
          BY <3>2, Zenon
        <4>2. e \in Range(wal.pending) \cup Range(wal.batch)
          BY <4>1, Zenon
        <4>3. Fits(e.file, e.body) /\ Durable(e.file, e.body) /\ e.file \in Files /\ e.body \in Body
          BY <2>4, <3>2, <4>1, <4>2, TypedRecords, Zenon DEF RecordsSay
        <4>4. Fits(e.file, e.body)' /\ Durable(e.file, e.body)'
          BY <2>0, <4>3, <2>FitsKept, <2>DurableKept, Zenon
        <4>5. Fits(c.file, c.body)' /\ Durable(c.file, c.body)'
          BY <4>1, <4>4, Zenon
        <4>6. c.gen <= gen'
          BY <3>2 DEF CopyInv, FilesTyped
        <4> QED  BY <4>5, <4>6, Zenon
      <3> QED  BY <2>4, <3>1, <3>2, Zenon DEF NewCells
    <2> QED  BY <2>1, <2>2, <2>3, <2>4, Zenon DEF RecordsSay
  \* A step of the run that leaves the log alone.
  <1>RunKeeps. ASSUME run.pc # "down", run'.pc # "down", gen' = gen, Onward,
                      UNCHANGED seg, wal'.pc = wal.pc, wal'.pending = wal.pending, wal'.batch = wal.batch, NewMessages
               PROVE  RecordsSay'
    <2> USE <1>RunKeeps
    <2>1. NewEntries /\ NewBatch /\ NewCells
      BY Zenon DEF NewEntries, NewBatch, NewCells
    <2> QED  BY <2>1, <1>StepKeeps, Zenon
  \* No message of a new kind.
  <1>NoMessages. ASSUME UNCHANGED chan, \A m \in Range(run'.out) : m \in Range(run.out) \/ m.type \in {"close", "discard", "stop"}
                 PROVE  NewMessages
    BY <1>NoMessages DEF NewMessages
  \* A step that goes on with the same file, and one that leaves it.
  <1>OnwardSame. ASSUME run'.todo = run.todo, run'.file = run.file, run'.read = run.read, UNCHANGED part
                 PROVE  Onward
    <2> USE <1>OnwardSame
    <2>1. ASSUME run.file # None PROVE part[run.file].safe \in Nat
      <3>1. run.file \in Files /\ part[run.file] # None
        BY <2>1 DEF CopyInv, RunTyped, CopySays
      <3> QED  BY <3>1 DEF CopyInv, FilesTyped, Partial
    <2>2. run.file # None => part'[run.file].safe >= part[run.file].safe
      BY <2>1
    <2> QED  BY <2>2, Zenon DEF Onward
  \* The sends, the answers and the failures.
  <1>QuietRecords. ASSUME CheckLog \/ CloseAnswered \/ AbortSink \/ GiveUpSend \/ FinishLog \/ BeatFails
                   PROVE  RecordsSay'
    <2> USE <1>QuietRecords
    <2>0. DOMAIN run = DOMAIN Down /\ run.out \in Seq(Message)
      BY DEF CopyInv, RunTyped
    <2> DEFINE Quiet == /\ run.pc # "down" /\ run'.pc # "down" /\ UNCHANGED <<part, seg, gen, chan>>
                        /\ run'.todo = run.todo /\ run'.file = run.file /\ run'.read = run.read
                        /\ wal'.pc = wal.pc /\ wal'.pending = wal.pending /\ wal'.batch = wal.batch
                        /\ \A m \in Range(run'.out) : m \in Range(run.out) \/ m.type \in {"close", "discard", "stop"}
    <2>1. ASSUME CheckLog PROVE Quiet
      <3>1. /\ run.pc = "check" /\ UNCHANGED <<part, seg, gen, chan, wal>>
            /\ run' = [run EXCEPT !.pc = "cleanup", !.err = "wal"] \/ run' = [run EXCEPT !.pc = "stream"]
        BY <2>1 DEF CheckLog
      <3> QED  BY <2>0, <3>1, ZenonT(60) DEF Down
    <2>2. ASSUME CloseAnswered PROVE Quiet
      <3>1. /\ run.pc = "await" /\ UNCHANGED <<part, seg, gen, chan, wal>>
            /\ run' = [run EXCEPT !.pc = "staged"] \/ \E e : run' = [run EXCEPT !.pc = "cleanup", !.err = e]
        BY <2>2, Zenon DEF CloseAnswered
      <3> QED  BY <2>0, <3>1, ZenonT(60) DEF Down
    <2>3. ASSUME AbortSink PROVE Quiet
      <3>1. /\ run.pc = "cleanup" /\ UNCHANGED <<part, seg, gen, chan, wal>>
            /\ \E o \in {<<>>, <<[type |-> "discard", file |-> run.file]>>} : run' = [run EXCEPT !.sink = "ended", !.out = o]
        BY <2>3, Zenon DEF AbortSink
      <3>2. PICK o \in {<<>>, <<[type |-> "discard", file |-> run.file]>>} : run' = [run EXCEPT !.sink = "ended", !.out = o]
        BY <3>1, Zenon
      <3>3. \A m \in Range(o) : m.type = "discard"
        BY RangeEmpty, RangeOne
      <3>4. run'.out = o /\ run'.pc = run.pc /\ run'.todo = run.todo /\ run'.file = run.file /\ run'.read = run.read
        BY <2>0, <3>2 DEF Down
      <3> QED  BY <3>1, <3>3, <3>4
    <2>4. ASSUME GiveUpSend PROVE Quiet
      <3>1. run.pc = "cleanup" /\ UNCHANGED <<part, seg, gen, chan, wal>> /\ run' = [run EXCEPT !.out = <<>>]
        BY <2>4 DEF GiveUpSend
      <3>2. run'.out = <<>> /\ run'.pc = run.pc /\ run'.todo = run.todo /\ run'.file = run.file /\ run'.read = run.read
        BY <2>0, <3>1 DEF Down
      <3> QED  BY <3>1, <3>2, RangeEmpty
    <2>5. ASSUME FinishLog PROVE Quiet
      <3>1. /\ run.pc \in {"finish", "next"} /\ UNCHANGED <<part, seg, gen, chan>>
            /\ \/ run' = [run EXCEPT !.pc = "join", !.gone = TRUE] /\ wal' = [wal EXCEPT !.abandoned = TRUE]
               \/ run' = [run EXCEPT !.pc = "join", !.out = <<[type |-> "stop"]>>] /\ UNCHANGED wal
        BY <2>5 DEF FinishLog
      <3>2. run'.pc = "join" /\ run'.todo = run.todo /\ run'.file = run.file /\ run'.read = run.read
            /\ (run'.out = run.out \/ run'.out = <<[type |-> "stop"]>>)
        BY <2>0, <3>1, ZenonT(60) DEF Down
      <3>3. wal'.pc = wal.pc /\ wal'.pending = wal.pending /\ wal'.batch = wal.batch
        BY <3>1 DEF CopyInv, WriterTyped, ThreadTyped, Ended
      <3>4. \A m \in Range(<<[type |-> "stop"]>>) : m.type = "stop"
        BY RangeOne
      <3> QED  BY <3>1, <3>2, <3>3, <3>4
    <2>6. ASSUME BeatFails PROVE Quiet
      <3>1. /\ run.pc \in {"stream", "check", "await", "cleanup", "join", "next", "staged"} /\ UNCHANGED <<part, seg, gen, chan>>
            /\ wal' = [wal EXCEPT !.abandoned = run.log]
            /\ \/ run' = [run EXCEPT !.lost = TRUE, !.out = <<>>, !.gone = TRUE]
               \/ \E s : run' = [run EXCEPT !.lost = TRUE, !.pc = "cleanup", !.err = "beat", !.out = <<>>, !.sink = s]
        BY <2>6, Zenon DEF BeatFails
      <3>2. run'.pc # "down" /\ run'.todo = run.todo /\ run'.file = run.file /\ run'.read = run.read /\ run'.out = <<>>
        BY <2>0, <3>1, ZenonT(60) DEF Down
      <3>3. wal'.pc = wal.pc /\ wal'.pending = wal.pending /\ wal'.batch = wal.batch
        BY <3>1, Zenon DEF CopyInv, WriterTyped, ThreadTyped, Ended
      <3> QED  BY <3>1, <3>2, <3>3, RangeEmpty, Zenon
    <2>7. Quiet
      BY <2>1, <2>2, <2>3, <2>4, <2>5, <2>6
    <2>8. Onward /\ NewMessages
      BY <2>7, <1>OnwardSame, <1>NoMessages, Zenon
    <2> QED  BY <2>7, <2>8, <1>RunKeeps, Zenon
  \* WalSender::send.
  <1>SendMsgRecords. ASSUME SendMsg
                     PROVE  RecordsSay'
    <2> USE <1>SendMsgRecords
    <2>0. DOMAIN run = DOMAIN Down /\ run.out \in Seq(Message) /\ chan \in Seq(Message)
      BY DEF CopyInv, RunTyped, WriterTyped
    <2>1. /\ run.out # <<>> /\ wal.pc # "ended" /\ UNCHANGED <<part, seg, gen, wal>>
          /\ chan' = Append(chan, Head(run.out)) /\ run' = [run EXCEPT !.out = Tail(@)]
      BY DEF SendMsg
    <2>2. /\ run.pc # "down" /\ run'.pc = run.pc /\ run'.todo = run.todo /\ run'.file = run.file /\ run'.read = run.read
          /\ run'.out = Tail(run.out)
      BY <2>0, <2>1 DEF RecordsSay, Down, Ended
    <2>3. Head(run.out) \in Message
      BY <2>0, <2>1
    <2>4. Head(run.out) \in Range(run.out) /\ Range(run'.out) \subseteq Range(run.out)
      BY <2>0, <2>1, <2>2, RangeTail
    <2>5. Range(chan') = Range(chan) \cup {Head(run.out)}
      BY <2>0, <2>1, <2>3, RangeAppend
    <2>6. NewMessages
      BY <2>4, <2>5 DEF NewMessages
    <2> QED  BY <2>1, <2>2, <2>6, <1>OnwardSame, <1>RunKeeps
  \* The publication and the end of a failed file: nothing is being copied.
  <1>DropRecords. ASSUME Publish \/ DropFile
                  PROVE  RecordsSay'
    <2> USE <1>DropRecords
    <2>1. /\ run.pc # "down" /\ run'.pc # "down" /\ UNCHANGED <<seg, gen, chan, wal>>
          /\ run'.todo \subseteq run.todo /\ run'.file = None /\ run'.out = <<>>
      <3>1. CASE Publish
        <4>1. /\ run.pc = "staged" /\ UNCHANGED <<seg, gen, chan, wal>>
              /\ run' = [Down EXCEPT !.pc = "next", !.todo = run.todo, !.log = run.log, !.cells = run.cells]
          BY <3>1 DEF Publish
        <4> QED  BY <4>1 DEF Down
      <3>2. CASE DropFile
        <4>1. /\ run.pc = "cleanup" /\ UNCHANGED <<seg, gen, chan, wal>>
              /\ \E p \in {"next", "finish"}, t \in {{}, run.todo} :
                   run' = [Down EXCEPT !.pc = p, !.todo = t, !.log = run.log, !.cells = run.cells, !.lost = run.lost]
          BY <3>2, Zenon DEF DropFile
        <4> QED  BY <4>1 DEF Down
      <3> QED  BY <3>1, <3>2
    <2>2. Onward
      BY <2>1, Zenon DEF Onward
    <2>3. NewMessages
      BY <2>1, <1>NoMessages, RangeEmpty
    <2> QED  BY <2>1, <2>2, <2>3, <1>RunKeeps
  \* The plan: the records of the run are of files it has begun, none of the one it begins.
  <1>PlanFileRecords. ASSUME NEW f \in Files, PlanFile(f)
                      PROVE  RecordsSay'
    <2> USE <1>PlanFileRecords
    <2>1. /\ run.pc = "next" /\ f \in run.todo /\ UNCHANGED <<seg, gen, chan, wal>>
          /\ \E s, v, r, c : run' = [run EXCEPT !.pc = "begin", !.file = f, !.todo = @ \ {f}, !.seen = s, !.reused = v,
                                                !.read = r, !.carry = c]
      BY ZenonT(60) DEF PlanFile
    <2>2. run'.pc = "begin" /\ run'.file = f /\ run'.todo = run.todo \ {f} /\ run'.out = run.out
      BY <2>1 DEF CopyInv, RunTyped, Down
    <2>3. run.file = None
      BY <2>1 DEF CopyInv, CopySays
    <2>4. Onward
      BY <2>1, <2>2, <2>3 DEF Onward
    <2>5. NewMessages
      BY <2>1, <2>2, <1>NoMessages, Zenon
    <2> QED  BY <2>1, <2>2, <2>4, <2>5, <1>RunKeeps
  \* FileSink::begin and record_proven.
  <1>BeginSinkRecords. ASSUME BeginSink
                       PROVE  RecordsSay'
    <2> USE <1>BeginSinkRecords
    <2> DEFINE body == [kind |-> "begin", len |-> run.seen.len, stamp |-> run.seen.stamp, through |-> run.reused]
               begin == [type |-> "begin", file |-> run.file, body |-> body]
               proven == IF Verify = "full" THEN ProvenRanges(run.file, run.reused, run.read) ELSE <<>>
    <2>1. /\ run.pc = "begin" /\ UNCHANGED <<part, seg, gen, chan, wal>>
          /\ \/ run' = [run EXCEPT !.pc = "stream"]
             \/ run' = [run EXCEPT !.pc = "stream", !.sink = "on", !.index = Chunks(run.reused), !.start = run.reused,
                                   !.out = <<begin>> \o proven]
             \/ run' = [run EXCEPT !.pc = "cleanup", !.err = "data"]
      BY DEF BeginSink
    <2>2. /\ run.file \in Files /\ run.seen \in [len : Nat, stamp : Nat] /\ run.file \notin run.todo
          /\ run.read \in Seq(Nat) /\ run.reused \in Nat /\ run.reused = Len(run.read) /\ DOMAIN run = DOMAIN Down
      <3>1. run.file \in Files /\ run.seen \in [len : Nat, stamp : Nat] /\ run.file \notin run.todo
        BY <2>1 DEF CopyInv, RunTyped, CopySays
      <3>2. run.read \in Seq(Nat) /\ run.reused \in Nat /\ DOMAIN run = DOMAIN Down
        BY DEF CopyInv, RunTyped
      <3>3. run.reused = Len(run.read)
        BY <2>1 DEF SinkSays
      <3> QED  BY <3>1, <3>2, <3>3
    <2>3. /\ proven \in Seq(Message)
          /\ \A m \in Range(proven) : m.file = run.file /\ WellFormed(m.body) /\ Describes(m.body, run.read)
      <3>1. /\ ProvenRanges(run.file, run.reused, run.read) \in Seq(Message)
            /\ \A m \in Range(ProvenRanges(run.file, run.reused, run.read)) :
                  m.file = run.file /\ WellFormed(m.body) /\ Describes(m.body, run.read)
        BY <2>2, ProvenIs, SMTT(60)
      <3>2. <<>> \in Seq(Message) /\ Range(<<>>) = {}
        BY RangeEmpty
      <3> QED  BY <3>1, <3>2, Zenon
    <2> HIDE DEF proven
    <2>4. begin \in Message /\ begin.file = run.file /\ begin.body = body /\ body.kind = "begin"
      <3>1. run.seen.len \in Nat /\ run.seen.stamp \in Nat
        BY <2>2
      <3>2. body \in BeginBody
        BY <2>2, <3>1 DEF BeginBody
      <3> HIDE DEF body
      <3>3. begin \in Message
        BY <2>2, <3>2, MessagesTyped, Zenon
      <3>4. body.kind = "begin"
        BY <3>2 DEF BeginBody
      <3> QED  BY <3>3, <3>4
    <2> HIDE DEF begin, body
    <2>5. WellFormed(body) /\ Describes(body, run.read)
      BY <2>4 DEF WellFormed, Describes
    <2>6. Range(<<begin>> \o proven) = {begin} \cup Range(proven)
      <3>1. <<begin>> \in Seq(Message)
        BY <2>4
      <3>2. PICK s \in Seq(Message) : s = <<begin>> /\ Range(s) = {begin}
        BY <3>1, RangeOne, Zenon
      <3>3. Range(s \o proven) = Range(s) \cup Range(proven)
        BY <2>3, RangeConcat, ZenonT(60)
      <3> QED  BY <3>2, <3>3, Zenon
    <2>7. /\ run'.pc # "down" /\ run'.todo = run.todo /\ run'.file = run.file /\ run'.read = run.read
          /\ run'.out = run.out \/ run'.out = <<begin>> \o proven
      BY <2>1, <2>2, ZenonT(60) DEF Down
    <2>8. ASSUME NEW m \in {begin} \cup Range(proven) PROVE Fits(m.file, m.body)'
      <3>1. m.file = run.file /\ WellFormed(m.body) /\ Describes(m.body, run.read)
        BY <2>3, <2>4, <2>5
      <3>2. m.file \notin run'.todo /\ WellFormed(m.body) /\ Describes(m.body, run'.read)
        BY <2>2, <2>7, <3>1
      <3> QED  BY <3>2 DEF Fits, WellFormed, Describes
    <2>9. NewMessages
      BY <2>1, <2>6, <2>7, <2>8, Zenon DEF NewMessages
    <2> QED  BY <2>1, <2>7, <2>9, <1>OnwardSame, <1>RunKeeps
  \* One buffer: the unit is in the partial before the sink hashes it.
  <1>StreamUnitRecords. ASSUME StreamUnit
                        PROVE  RecordsSay'
    <2> USE <1>StreamUnitRecords
    <2>1. /\ run.pc = "stream" /\ run.out = <<>> /\ UNCHANGED <<src, seg, gen, chan, wal>> /\ run.file \in Files
          /\ run.carry # <<>> \/ Len(run.read) < Len(src[run.file].data)
          /\ \/ run' = [run EXCEPT !.pc = "cleanup", !.err = "data"] /\ UNCHANGED part
             \/ \E u \in Nat :
                  /\ part' = [part EXCEPT ![run.file].data = Append(@, u)]
                  /\ LET r == [run EXCEPT !.read = Append(@, u), !.carry = IF @ = <<>> THEN @ ELSE Tail(@)]
                     IN  run' = IF run.sink = "on" THEN Hashed(r, u) ELSE r
      BY StreamUnitIs, Zenon
    <2>2. DOMAIN run = DOMAIN Down /\ RunTyped
      BY SMTT(60) DEF CopyInv, RunTyped
    <2>3. CASE run' = [run EXCEPT !.pc = "cleanup", !.err = "data"] /\ UNCHANGED part
      <3>1. run'.pc # "down" /\ run'.todo = run.todo /\ run'.file = run.file /\ run'.read = run.read /\ run'.out = run.out
        BY <2>2, <2>3 DEF Down
      <3>2. NewMessages
        BY <2>1, <3>1, <1>NoMessages, Zenon
      <3> QED  BY <2>1, <2>3, <3>1, <3>2, <1>OnwardSame, <1>RunKeeps
    <2>4. ASSUME NEW u \in Nat, NEW r, r = [run EXCEPT !.read = Append(@, u), !.carry = IF @ = <<>> THEN @ ELSE Tail(@)],
                 part' = [part EXCEPT ![run.file].data = Append(@, u)], run' = IF run.sink = "on" THEN Hashed(r, u) ELSE r
          PROVE  RecordsSay'
      <3>1. /\ run'.pc # "down" /\ run'.todo = run.todo /\ run'.file = run.file /\ run'.read = Append(run.read, u)
            /\ run.sink # "on" => run'.out = <<>>
        <4>1. CASE run.sink = "on"
          BY <2>1, <2>2, <2>4, <4>1, HashedIs, Zenon
        <4>2. CASE run.sink # "on"
          BY <2>1, <2>2, <2>4, <4>2, Zenon DEF Down
        <4> QED  BY <4>1, <4>2
      <3>2. part'[run.file].safe >= part[run.file].safe
        <4>1. part[run.file] \in Partial /\ run.file \in DOMAIN part
          BY <2>1, Zenon DEF CopyInv, FilesTyped, CopySays
        <4>2. part'[run.file].safe = part[run.file].safe /\ part[run.file].safe \in Nat
          BY <2>4, <4>1 DEF Partial
        <4> QED  BY <4>2
      <3>3. Onward
        BY <3>1, <3>2, Zenon DEF Onward
      <3>4. ASSUME NEW m \in Range(run'.out) PROVE Fits(m.file, m.body)'
        <4>1. run.sink = "on"
          BY <3>1, <3>4, RangeEmpty
        <4>2. HashSays /\ (run.carry # <<>> \/ Len(run.read) # InitLen)
          <5>1. Len(src[run.file].data) = InitLen /\ HashSays
            BY <2>1, <4>1, Zenon DEF SinkSays
          <5>2. Len(run.read) \in Nat /\ InitLen \in Nat
            <6>1. run.read \in Seq(Nat)
              BY <2>2 DEF RunTyped
            <6> QED  BY <6>1 DEF LogConstants
          <5>3. run.carry # <<>> \/ Len(run.read) < InitLen
            BY <2>1, <5>1, Zenon
          <5> QED  BY <5>1, <5>2, <5>3
        <4>3. m.file = run.file /\ WellFormed(m.body) /\ Describes(m.body, run'.read)
          BY <2>1, <2>2, <2>4, <4>1, <4>2, HashedSays, Zenon
        <4>4. run.file \notin run'.todo
          BY <2>1, <3>1, Zenon DEF CopyInv, CopySays
        <4> QED  BY <4>3, <4>4 DEF Fits, WellFormed, Describes
      <3>5. NewMessages
        BY <2>1, <3>4, Zenon DEF NewMessages
      <3> QED  BY <2>1, <3>1, <3>3, <3>5, <1>RunKeeps, Zenon
    <2> QED  BY <2>1, <2>3, <2>4, Zenon
  \* FileSink::complete.
  <1>CompleteRecords. ASSUME Complete
                      PROVE  RecordsSay'
    <2> USE <1>CompleteRecords
    <2> DEFINE digs == IF run.chunk = <<>> THEN run.digests ELSE Append(run.digests, run.chunk)
               end  == run.index * Chunk + Len(run.chunk)
               body == [kind |-> "range", start |-> run.start, end |-> end, digests |-> digs]
               last == IF digs = <<>> THEN <<>> ELSE <<RangeMsg(run.file, run.start, end, digs)>>
               close == [type |-> "close", file |-> run.file]
    <2>1. /\ run.pc = "stream" /\ UNCHANGED <<part, seg, gen, chan, wal>>
          /\ \/ run.sink = "none" /\ run' = [run EXCEPT !.pc = "staged"]
             \/ run.sink # "none" /\ run' = [run EXCEPT !.pc = "await", !.sink = "ended", !.chunk = <<>>, !.digests = <<>>,
                                                        !.out = last \o <<close>>]
      BY Zenon DEF Complete
    <2>2. /\ DOMAIN run = DOMAIN Down /\ run.sink \in {"none", "on", "ended"} /\ run.read \in Seq(Nat) /\ run.chunk \in Seq(Nat)
          /\ run.index \in Nat /\ run.digests \in Seq(Seq(Nat)) /\ run.start \in Nat
      BY DEF CopyInv, RunTyped
    <2>3. run.file \in Files /\ run.file \notin run.todo
      BY <2>1 DEF CopyInv, RunTyped, CopySays
    <2>4. ASSUME run.sink # "none", digs # <<>> PROVE WellFormed(body) /\ Describes(body, run.read)
      <3>1. HashSays
        BY <2>1, <2>2, <2>4 DEF SinkSays
      <3>2. Hashing(run.read, run.chunk, run.index, run.digests, run.start)
        BY <2>4, <3>1 DEF HashSays
      <3> QED  BY <2>2, <2>4, <3>2, HashingSends, Zenon
    <2>5. digs \in Seq(Seq(Nat)) /\ end \in Nat
      <3>1. run.index * Chunk \in Nat /\ Len(run.chunk) \in Nat
        BY <2>2 DEF LogConstants
      <3>2. end \in Nat
        BY <3>1
      <3>3. digs \in Seq(Seq(Nat))
        BY <2>2, DigestsMore
      <3> QED  BY <3>2, <3>3
    <2> HIDE DEF digs, end
    <2>6. /\ last \in Seq(Message) /\ <<close>> \in Seq(Message)
          /\ \A m \in Range(last) : digs # <<>> /\ m.file = run.file /\ m.body = body
      <3>1. RangeMsg(run.file, run.start, end, digs) \in Message /\ close \in Message
        BY <2>2, <2>3, <2>5, MessagesTyped, Zenon
      <3>2. RangeMsg(run.file, run.start, end, digs).file = run.file /\ RangeMsg(run.file, run.start, end, digs).body = body
        BY DEF RangeMsg
      <3>3. PICK x \in Message : x = RangeMsg(run.file, run.start, end, digs) /\ x.file = run.file /\ x.body = body
        BY <3>1, <3>2
      <3>4. <<x>> \in Seq(Message) /\ <<>> \in Seq(Message) /\ <<close>> \in Seq(Message)
        BY <3>1
      <3>5. last = IF digs = <<>> THEN <<>> ELSE <<x>>
        BY <3>3
      <3> HIDE DEF last, close, body
      <3> QED  BY <3>3, <3>4, <3>5, RangeOne, RangeEmpty
    <2> HIDE DEF last, body
    <2>7. Range(last \o <<close>>) = Range(last) \cup {close} /\ close.type = "close"
      <3>1. close.type = "close"
        OBVIOUS
      <3> HIDE DEF close
      <3>2. PICK s \in Seq(Message) : s = <<close>> /\ Range(s) = {close}
        BY <2>6, RangeOne, Zenon
      <3>3. Range(last \o s) = Range(last) \cup Range(s)
        BY <2>6, RangeConcat, ZenonT(60)
      <3> QED  BY <3>1, <3>2, <3>3, Zenon
    <2> HIDE DEF close
    <2>8. /\ run'.pc # "down" /\ run'.todo = run.todo /\ run'.file = run.file /\ run'.read = run.read
          /\ run'.out = run.out \/ (run.sink # "none" /\ run'.out = last \o <<close>>)
      BY <2>1, <2>2, ZenonT(60) DEF Down
    <2>9. ASSUME run.sink # "none", NEW m \in Range(last) PROVE Fits(m.file, m.body)'
      <3>1. m.file = run.file /\ WellFormed(m.body) /\ Describes(m.body, run.read)
        BY <2>4, <2>6, <2>9
      <3>2. m.file \notin run'.todo /\ WellFormed(m.body) /\ Describes(m.body, run'.read)
        BY <2>3, <2>8, <3>1
      <3> QED  BY <3>2 DEF Fits, WellFormed, Describes
    <2>10. NewMessages
      BY <2>1, <2>7, <2>8, <2>9, Zenon DEF NewMessages
    <2> QED  BY <2>1, <2>8, <2>10, <1>OnwardSame, <1>RunKeeps
  \* The writer thread lives only within a run; it leaves what the run copies.
  <1>WriterOnward. ASSUME wal.pc # "ended", Answered, UNCHANGED <<part, chan>>
                   PROVE  run.pc # "down" /\ run'.pc # "down" /\ Onward /\ NewMessages
    <2> USE <1>WriterOnward
    <2>1. RunTyped
      BY DEF CopyInv
    <2>2. run'.pc = run.pc /\ run'.todo = run.todo /\ run'.file = run.file /\ run'.read = run.read /\ run'.out = run.out
      BY <2>1, AnsweredSame
    <2>3. run.pc # "down"
      BY DEF RecordsSay, Ended
    <2>4. NewMessages
      BY <2>2, <1>NoMessages, Zenon
    <2> QED  BY <2>2, <2>3, <2>4, <1>OnwardSame, Zenon
  \* A message is taken from the channel.
  <1>ReceiveRecords. ASSUME Receive
                     PROVE  RecordsSay'
    <2> USE <1>ReceiveRecords
    <2>0. RunTyped /\ WriterTyped
      BY DEF CopyInv
    <2>1. /\ chan # <<>> /\ chan' = Tail(chan) /\ UNCHANGED <<part, seg, gen>>
          /\ wal.pc = "recv" /\ wal'.pc \in {"recv", "flush", "ended"} /\ Answered /\ wal'.batch = wal.batch
          /\ \A e \in Range(wal'.pending) : \/ e \in Range(wal.pending)
                                            \/ Head(chan).type \in {"begin", "range"} /\ e = RecordOf(Head(chan))
      BY <2>0, ReceiveIs, Zenon
    <2>2. Head(chan) \in Range(chan) /\ Range(chan') \subseteq Range(chan)
      <3>1. chan \in Seq(Message)
        BY <2>0 DEF WriterTyped
      <3> QED  BY <2>1, <3>1, RangeTail
    <2>3. /\ run'.pc = run.pc /\ run'.todo = run.todo /\ run'.file = run.file /\ run'.read = run.read /\ run'.out = run.out
      BY <2>0, <2>1, AnsweredSame
    <2>4. run.pc # "down"
      BY <2>1 DEF RecordsSay, Ended
    <2>5. NewMessages
      BY <2>2, <2>3 DEF NewMessages
    <2>6. ASSUME NEW e \in Range(wal'.pending) \cup Range(wal'.batch)
          PROVE  \/ e \in Range(wal.pending) \cup Range(wal.batch)
                 \/ \E m \in Range(chan) : m.type \in {"begin", "range"} /\ e.file = m.file /\ e.body = m.body
      <3>1. CASE e = RecordOf(Head(chan)) /\ Head(chan).type \in {"begin", "range"}
        <4>1. e.file = Head(chan).file /\ e.body = Head(chan).body
          BY <3>1 DEF RecordOf
        <4> QED  BY <2>2, <3>1, <4>1, Zenon
      <3>2. CASE e \in Range(wal.pending) \cup Range(wal.batch)
        BY <3>2
      <3> QED  BY <2>1, <3>1, <3>2, Zenon
    <2>7. NewEntries /\ NewBatch /\ NewCells
      BY <2>1, <2>6 DEF NewEntries, NewBatch, NewCells
    <2> QED  BY <2>1, <2>3, <2>4, <2>5, <2>7, <1>OnwardSame, <1>StepKeeps
  \* The timer, the end of the channel, the begin of a flush.
  <1>FlushRecords. ASSUME FlushTimer \/ Disconnected \/ BeginFlush
                   PROVE  RecordsSay'
    <2> USE <1>FlushRecords
    <2>0. WriterTyped
      BY DEF CopyInv
    <2>1. /\ UNCHANGED <<part, seg, gen, chan>> /\ Answered /\ wal.pc # "ended" /\ wal'.pc # "append"
          /\ Range(wal'.pending) \subseteq Range(wal.pending)
          /\ Range(wal'.batch) \subseteq Range(wal.pending) \cup Range(wal.batch)
      <3>1. CASE FlushTimer \/ Disconnected
        <4>1. /\ UNCHANGED <<part, seg, gen, run, chan>> /\ wal.pc = "recv" /\ wal'.pc \in {"flush", "ended"}
              /\ wal'.batch = wal.batch /\ Range(wal'.pending) \subseteq Range(wal.pending)
          BY <2>0, <3>1, WaitIs, Zenon
        <4> QED  BY <4>1 DEF Answered
      <3>2. CASE BeginFlush
        <4>1. /\ UNCHANGED <<part, seg, gen, chan>> /\ Answered /\ wal.pc = "flush" /\ wal'.pending = <<>>
              /\ \/ wal'.pc \in {"recv", "ended"} /\ wal'.batch = wal.batch
                 \/ wal'.pc = "sync" /\ wal'.batch = wal.pending
          BY <2>0, <3>2, BeginFlushIs, Zenon
        <4> QED  BY <4>1, RangeEmpty
      <3> QED  BY <3>1, <3>2
    <2>2. run.pc # "down" /\ run'.pc # "down" /\ Onward /\ NewMessages
      BY <2>1, <1>WriterOnward
    <2>3. NewEntries /\ NewBatch /\ NewCells
      BY <2>1 DEF NewEntries, NewBatch, NewCells
    <2> QED  BY <2>1, <2>2, <2>3, <1>StepKeeps
  \* Data before checkpoint: the batch that goes on is of files whose partials were synced.
  <1>SyncDataRecords. ASSUME SyncData
                      PROVE  RecordsSay'
    <2> USE <1>SyncDataRecords
    <2>0. FilesTyped /\ RunTyped /\ WriterTyped
      BY DEF CopyInv
    <2>1. /\ UNCHANGED <<seg, gen, chan>> /\ Answered /\ wal.pc = "sync"
          /\ wal'.pending = wal.pending /\ Range(wal'.batch) \subseteq Range(wal.batch)
      BY <2>0, SyncDataIs, Zenon
    <2>2. PICK files : part' = SyncedParts(files) /\ (Strict => \A e \in Range(wal'.batch) : e.file \in files)
      BY <2>0, SyncDataIs, Zenon
    <2>3. /\ run'.pc = run.pc /\ run'.todo = run.todo /\ run'.file = run.file /\ run'.read = run.read /\ run'.out = run.out
      BY <2>0, <2>1, AnsweredSame
    <2>4. run.pc # "down"
      BY <2>1 DEF RecordsSay, Ended
    <2>5. NewMessages
      BY <2>1, <2>3, <1>NoMessages, Zenon
    <2>6. ASSUME run.file # None
          PROVE  /\ run.file \in Files /\ part[run.file].data = run.read /\ part'[run.file].safe >= part[run.file].safe
                 /\ run.file \in files => part'[run.file].safe = Len(run.read)
      <3>1. run.file \in Files /\ part[run.file] # None /\ part[run.file].data = run.read
        BY <2>6, Zenon DEF CopyInv, RunTyped, CopySays
      <3>2. /\ part'[run.file].safe >= part[run.file].safe
            /\ run.file \in files => part'[run.file].safe = Len(part[run.file].data)
        BY <2>0, <2>2, <3>1, SyncedPartsIs
      <3> QED  BY <3>1, <3>2
    <2>7. Onward
      BY <2>3, <2>6, Zenon DEF Onward
    <2>8. ASSUME Strict, NEW e \in Range(wal'.batch) PROVE Durable(e.file, e.body)'
      <3>1. SUFFICES ASSUME e.file = run'.file, e.body.kind = "range" PROVE e.body.end <= part'[e.file].safe
        BY Zenon DEF Durable
      <3>2. e \in Range(wal.pending) \cup Range(wal.batch)
        BY <2>1, <2>8, Zenon
      <3>3. Fits(e.file, e.body) /\ e.file \in Files /\ e.file \in files
        BY <2>2, <2>8, <3>2, TypedRecords, Zenon DEF RecordsSay
      <3>4. e.body.end <= Len(run.read)
        BY <2>3, <3>1, <3>3 DEF Fits, Describes
      <3>5. e.file = run.file /\ run.file # None
        BY <2>3, <3>1, <3>3 DEF LogConstants
      <3> QED  BY <2>6, <3>3, <3>4, <3>5
    <2>9. NewEntries /\ NewBatch /\ NewCells
      BY <2>1, <2>8 DEF NewEntries, NewBatch, NewCells
    <2> QED  BY <2>1, <2>3, <2>4, <2>5, <2>7, <2>9, <1>StepKeeps
  \* The cells an append may leave are those of the segment and of the batch, or damage.
  <1>EncodedCells. ASSUME wal.pc # "ended", NEW t \in Seq(Cell), NEW n \in 0 .. Len(Encoded(wal)),
                          t = SubSeq(Encoded(wal), 1, n) \/ t = SubSeq(Encoded(wal), 1, n) \o <<Damage("torn")>>
                   PROVE  \A c \in Range(t) : Damaged(c) \/ (c.gen = gen /\ \E e \in Range(wal.batch) : c.file = e.file /\ c.body = e.body)
    <2> USE <1>EncodedCells
    <2>1. ThreadTyped(wal) /\ gen \in Nat \ {0}
      BY DEF CopyInv, WriterTyped, FilesTyped
    <2>2. /\ Encoded(wal) \in Seq(Cell) /\ Len(Encoded(wal)) = Len(wal.batch)
          /\ \A i \in 1 .. Len(wal.batch) :
               /\ wal.batch[i] \in Range(wal.batch)
               /\ Encoded(wal)[i] = [gen |-> gen, seq |-> wal.next + i - 1, file |-> wal.batch[i].file, body |-> wal.batch[i].body]
      BY <2>1, EncodedIs, Zenon
    <2>3. ASSUME NEW c \in Range(Encoded(wal)) PROVE c.gen = gen /\ \E e \in Range(wal.batch) : c.file = e.file /\ c.body = e.body
      <3>1. PICK i \in 1 .. Len(wal.batch) : c = Encoded(wal)[i]
        BY <2>2, <2>3 DEF Range
      <3>2. c = [gen |-> gen, seq |-> wal.next + i - 1, file |-> wal.batch[i].file, body |-> wal.batch[i].body]
        BY <2>2, <3>1, Zenon
      <3>3. c.gen = gen /\ c.file = wal.batch[i].file /\ c.body = wal.batch[i].body
        BY <3>2, Zenon
      <3> QED  BY <2>2, <3>3, Zenon
    <2>4. SubSeq(Encoded(wal), 1, n) \in Seq(Cell) /\ Range(SubSeq(Encoded(wal), 1, n)) \subseteq Range(Encoded(wal))
      BY <2>2, RangePrefix
    <2>5. Damage("torn") \in Cell /\ Damaged(Damage("torn"))
      BY DEF Cell, Damaged, Damage
    <2>6. Range(SubSeq(Encoded(wal), 1, n) \o <<Damage("torn")>>) = Range(SubSeq(Encoded(wal), 1, n)) \cup {Damage("torn")}
      <3> HIDE DEF Damage
      <3>1. PICK d \in Seq(Cell) : d = <<Damage("torn")>> /\ Range(d) = {Damage("torn")}
        <4>1. <<Damage("torn")>> \in Seq(Cell)
          BY <2>5
        <4> QED  BY <4>1, RangeOne, Zenon
      <3>2. PICK a \in Seq(Cell) : a = SubSeq(Encoded(wal), 1, n)
        BY <2>4, Zenon
      <3>3. Range(a \o d) = Range(a) \cup Range(d)
        BY RangeConcat
      <3> QED  BY <3>1, <3>2, <3>3, Zenon
    <2> QED  BY <2>3, <2>4, <2>5, <2>6, Zenon
  \* What an append made of a segment.
  <1>AppendedCells. ASSUME wal.pc # "ended", NEW t \in Seq(Cell), NEW n \in 0 .. Len(Encoded(wal)),
                           t = SubSeq(Encoded(wal), 1, n) \/ t = SubSeq(Encoded(wal), 1, n) \o <<Damage("torn")>>,
                           NEW cells, cells = Segment(wal).cells \o t
                    PROVE  \A c \in Range(cells) : \/ Damaged(c) \/ (seg # None /\ c \in Range(seg.cells))
                                                   \/ c.gen = gen /\ \E e \in Range(wal.batch) : c.file = e.file /\ c.body = e.body
    <2> USE <1>AppendedCells
    <2>1. /\ Segment(wal) \in Log /\ Segment(wal).safe <= Len(Segment(wal).cells)
          /\ wal.open => Segment(wal) = seg /\ seg # None
          /\ ~wal.open => Segment(wal).cells = <<>>
      BY SegmentIs DEF CopyInv
    <2>3. Segment(wal).cells \in Seq(Cell)
      BY <2>1 DEF Log
    <2>4. Range(cells) = Range(Segment(wal).cells) \cup Range(t)
      <3>1. PICK a \in Seq(Cell) : a = Segment(wal).cells
        BY <2>3, Zenon
      <3>2. Range(a \o t) = Range(a) \cup Range(t)
        BY RangeConcat
      <3> QED  BY <3>1, <3>2, Zenon
    <2>5. \A c \in Range(Segment(wal).cells) : seg # None /\ c \in Range(seg.cells)
      <3>1. CASE wal.open
        BY <2>1, <3>1, Zenon
      <3>2. CASE ~wal.open
        BY <2>1, <3>2, RangeEmpty
      <3> QED  BY <3>1, <3>2
    <2>6. \A c \in Range(t) : Damaged(c) \/ (c.gen = gen /\ \E e \in Range(wal.batch) : c.file = e.file /\ c.body = e.body)
      BY <1>EncodedCells, Zenon
    <2>7. \A c \in Range(cells) : c \in Range(Segment(wal).cells) \/ c \in Range(t)
      BY <2>4
    <2> HIDE DEF Damaged
    <2> QED  BY <2>5, <2>6, <2>7, Zenon
  \* A batch reaches the log, whole or in part.
  <1>AppendNewCells. ASSUME wal.pc = "append",
                            \/ seg' = [Segment(wal) EXCEPT !.cells = @ \o Encoded(wal)]
                            \/ \E t \in Torn(Encoded(wal)) : seg' = [Segment(wal) EXCEPT !.cells = @ \o t]
                            \/ seg' = seg
                     PROVE  NewCells
    <2> USE <1>AppendNewCells
    <2>0. ThreadTyped(wal) /\ gen \in Nat \ {0} /\ wal.pc # "ended"
      BY DEF CopyInv, WriterTyped, FilesTyped
    <2>1. Encoded(wal) \in Seq(Cell)
      BY <2>0, EncodedIs, Zenon
    <2>2. ASSUME NEW t \in Seq(Cell), NEW n \in 0 .. Len(Encoded(wal)),
                 t = SubSeq(Encoded(wal), 1, n) \/ t = SubSeq(Encoded(wal), 1, n) \o <<Damage("torn")>>,
                 seg' = [Segment(wal) EXCEPT !.cells = @ \o t]
          PROVE  NewCells
      <3>1. PICK cells : cells = seg'.cells /\ cells = Segment(wal).cells \o t
        <4>1. Segment(wal) \in Log /\ Segment(wal).safe <= Len(Segment(wal).cells)
          BY SegmentIs DEF CopyInv
        <4> QED  BY <2>2, <4>1, LongerLog, Zenon
      <3>2. \A c \in Range(cells) : \/ Damaged(c) \/ (seg # None /\ c \in Range(seg.cells))
                                    \/ c.gen = gen /\ \E e \in Range(wal.batch) : c.file = e.file /\ c.body = e.body
        BY <2>0, <2>2, <3>1, <1>AppendedCells, ZenonT(60)
      <3> QED  BY <3>1, <3>2, Zenon DEF NewCells
    <2>3. CASE seg' = [Segment(wal) EXCEPT !.cells = @ \o Encoded(wal)]
      <3>1. PICK r \in Seq(Cell) : r = Encoded(wal)
        BY <2>1, Zenon
      <3>2. r = SubSeq(r, 1, Len(r)) /\ Len(r) \in 0 .. Len(r)
        <4>1. SubSeq(r, 1, Len(r)) \in Seq(Cell) /\ Len(SubSeq(r, 1, Len(r))) = Len(r) /\ Len(r) \in Nat
          OBVIOUS
        <4>2. \A i \in 1 .. Len(r) : SubSeq(r, 1, Len(r))[i] = r[i]
          OBVIOUS
        <4> QED  BY <4>1, <4>2, SameSeq
      <3> QED  BY <2>2, <2>3, <3>1, <3>2, Zenon
    <2>4. CASE \E t \in Torn(Encoded(wal)) : seg' = [Segment(wal) EXCEPT !.cells = @ \o t]
      <3>1. PICK t \in Torn(Encoded(wal)) : seg' = [Segment(wal) EXCEPT !.cells = @ \o t]
        BY <2>4, Zenon
      <3>2. t \in Seq(Cell) /\ \E n \in 0 .. Len(Encoded(wal)) : t = SubSeq(Encoded(wal), 1, n) \/ t = SubSeq(Encoded(wal), 1, n) \o <<Damage("torn")>>
        BY <2>1, <3>1, TornIs, Zenon
      <3> QED  BY <2>2, <3>1, <3>2, Zenon
    <2>5. CASE seg' = seg
      BY <2>5, Zenon DEF NewCells
    <2> QED  BY <2>3, <2>4, <2>5, Zenon
  <1>AppendRecordsSay. ASSUME AppendRecords
                       PROVE  RecordsSay'
    <2> USE <1>AppendRecordsSay
    <2>0. FilesTyped /\ LogTyped /\ WriterTyped
      BY DEF CopyInv
    <2>1. /\ UNCHANGED <<part, gen, chan>> /\ Answered /\ wal.pc = "append" /\ wal'.pc # "append"
          /\ wal'.pending \in {wal.pending, <<>>} /\ wal'.batch = <<>>
          /\ \/ seg' = [Segment(wal) EXCEPT !.cells = @ \o Encoded(wal)]
             \/ \E t \in Torn(Encoded(wal)) : seg' = [Segment(wal) EXCEPT !.cells = @ \o t]
             \/ seg' = seg
      <3> HIDE DEF AppendRecords
      <3>1. AppendRecords
        OBVIOUS
      <3> QED  BY <2>0, <3>1, AppendIs, Zenon DEF Died
    <2>2. run.pc # "down" /\ run'.pc # "down" /\ Onward /\ NewMessages
      BY <2>1, <1>WriterOnward
    <2>3. NewEntries
      BY <2>1, RangeEmpty DEF NewEntries
    <2>4. NewBatch
      BY <2>1, Zenon DEF NewBatch
    <2>5. NewCells
      BY <2>1, <1>AppendNewCells, Zenon
    <2> QED  BY <2>1, <2>2, <2>3, <2>4, <2>5, <1>StepKeeps
  \* The log is synced.
  <1>SyncLogRecords. ASSUME SyncLog
                     PROVE  RecordsSay'
    <2> USE <1>SyncLogRecords
    <2>0. LogTyped /\ WriterTyped
      BY DEF CopyInv
    <2>1. /\ UNCHANGED <<part, gen, chan>> /\ Answered /\ wal.pc = "walsync" /\ wal'.pc # "append" /\ seg # None
          /\ wal'.pending \in {wal.pending, <<>>} /\ wal'.batch \in {wal.batch, <<>>}
          /\ seg' = [seg EXCEPT !.safe = Len(seg.cells), !.named = @ \/ wal.created] \/ seg' = seg
      BY <2>0, SyncLogIs, Zenon DEF Died
    <2>2. run.pc # "down" /\ run'.pc # "down" /\ Onward /\ NewMessages
      BY <2>1, <1>WriterOnward
    <2>3. NewEntries
      BY <2>1, RangeEmpty DEF NewEntries
    <2>4. NewBatch
      BY <2>1, Zenon DEF NewBatch
    <2>5. seg'.cells = seg.cells
      BY <2>0, <2>1, Zenon DEF LogTyped, Log
    <2>6. NewCells
      BY <2>1, <2>5 DEF NewCells
    <2> QED  BY <2>1, <2>2, <2>3, <2>4, <2>6, <1>StepKeeps
  \* Nothing is on its way, and no record of the log is of this generation and run.
  <1>NothingSent. ASSUME run'.out = <<>>, chan' = <<>>, wal'.pending = <<>>, wal'.batch = <<>>, run'.pc = "down" => wal' = Ended,
                         Strict /\ seg' # None => \A c \in Range(seg'.cells) :
                           ~Damaged(c) => c.gen <= gen' /\ (c.gen = gen' => run'.pc = "down")
                  PROVE  RecordsSay'
    <2> USE <1>NothingSent
    <2>1. Range(run'.out) \cup Range(chan') = {} /\ Range(wal'.pending) \cup Range(wal'.batch) = {}
      BY RangeEmpty
    <2> QED  BY <2>1, Zenon DEF RecordsSay
  \* A new run finds records of earlier generations only.
  <1>OpenLogRecords. ASSUME OpenLog
                     PROVE  RecordsSay'
    <2> USE <1>OpenLogRecords
    <2>0. LogTyped /\ RunTyped /\ gen \in Nat
      BY DEF CopyInv, FilesTyped
    <2> DEFINE cells == IF seg = None THEN <<>> ELSE seg.cells
               n     == Decoded(cells)
    <2>1. /\ run.pc = "down" /\ gen' = gen + 1 /\ chan' = chan
          /\ \/ seg' = IF seg = None THEN None ELSE [seg EXCEPT !.cells = SubSeq(cells, 1, n), !.safe = MinOf(@, n)]
             \/ seg' = None
             \/ seg' = seg
          /\ wal'.pending = wal.pending /\ wal'.batch = wal.batch
          /\ run'.pc = "next" /\ run'.out = run.out
      <3>1. wal = Ended
        BY DEF OpenLog, RecordsSay
      <3>2. \A x, b : LET live == [Ended EXCEPT !.pc = "recv"]
                      IN  /\ [live EXCEPT !.open = b, !.next = x].pending = Ended.pending
                          /\ [live EXCEPT !.open = b, !.next = x].batch = Ended.batch
                          /\ live.pending = Ended.pending /\ live.batch = Ended.batch
        BY DEF Ended
      <3>3. wal'.pending = wal.pending /\ wal'.batch = wal.batch
        <4>1. \/ \E x, b : wal' = [[Ended EXCEPT !.pc = "recv"] EXCEPT !.open = b, !.next = x]
              \/ wal' = [Ended EXCEPT !.pc = "recv"]
              \/ wal' = wal
          BY ZenonT(60) DEF OpenLog
        <4> QED  BY <3>1, <3>2, <4>1, ZenonT(60)
      <3>4. run'.pc = "next" /\ run'.out = run.out
        BY <2>0, ZenonT(60) DEF OpenLog, RunTyped, Down
      <3>5. /\ run.pc = "down" /\ gen' = gen + 1 /\ chan' = chan
            /\ \/ seg' = IF seg = None THEN None ELSE [seg EXCEPT !.cells = SubSeq(cells, 1, n), !.safe = MinOf(@, n)]
               \/ seg' = None
               \/ seg' = seg
        BY DEF OpenLog
      <3> QED  BY <3>3, <3>4, <3>5
    <2>2. chan = <<>> /\ wal = Ended /\ run.out = <<>>
      BY <2>1 DEF RecordsSay, SinkSays
    <2>3. ASSUME seg' # None PROVE seg # None /\ Range(seg'.cells) \subseteq Range(seg.cells)
      <3>1. CASE seg' = seg
        BY <2>3, <3>1
      <3>2. CASE seg # None /\ seg' = [seg EXCEPT !.cells = SubSeq(cells, 1, n), !.safe = MinOf(@, n)]
        <4>1. seg.cells \in Seq(Cell) /\ cells = seg.cells /\ DOMAIN seg = {"cells", "safe", "named"}
          BY <2>0, <3>2 DEF LogTyped, Log
        <4>2. n \in 0 .. Len(seg.cells)
          BY <4>1, DecodedIs
        <4> HIDE DEF n, cells
        <4>3. seg'.cells = SubSeq(seg.cells, 1, n)
          BY <3>2, <4>1, Zenon
        <4>4. Range(SubSeq(seg.cells, 1, n)) \subseteq Range(seg.cells)
          BY <4>1, <4>2, RangePrefix
        <4> QED  BY <3>2, <4>3, <4>4, Zenon
      <3> QED  BY <2>1, <2>3, <3>1, <3>2, Zenon
    <2>4. ASSUME Strict, seg' # None, NEW c \in Range(seg'.cells), ~Damaged(c)
          PROVE  c.gen <= gen' /\ c.gen # gen'
      <3>1. c.gen <= gen /\ c.gen \in Nat
        BY <2>3, <2>4, TypedRecords DEF RecordsSay
      <3> QED  BY <2>0, <2>1, <3>1
    <2>5. wal'.pending = <<>> /\ wal'.batch = <<>> /\ run'.out = <<>> /\ chan' = <<>>
      BY <2>1, <2>2 DEF Ended
    <2> HIDE DEF cells, n
    <2> QED  BY <2>1, <2>4, <2>5, <1>NothingSent, Zenon
  \* The end of a run leaves its records in the log.
  <1>JoinLogRecords. ASSUME JoinLog
                     PROVE  RecordsSay'
    <2> USE <1>JoinLogRecords
    <2>1. run' = [Down EXCEPT !.todo = Unpublished] /\ chan' = <<>> /\ wal' = Ended /\ UNCHANGED <<seg, gen>>
      BY DEF JoinLog
    <2>2. run'.pc = "down" /\ run'.out = <<>> /\ wal'.pending = <<>> /\ wal'.batch = <<>>
      BY <2>1 DEF Down, Ended
    <2>3. Strict /\ seg' # None => \A c \in Range(seg'.cells) : ~Damaged(c) => c.gen <= gen'
      BY <2>1, Zenon DEF RecordsSay
    <2> QED  BY <2>1, <2>2, <2>3, <1>NothingSent, Zenon
  \* The records of a log that a crash leaves are of the generations there were.
  <1>CrashRecords. ASSUME NEW kind, Crash(kind)
                   PROVE  RecordsSay'
    <2> USE <1>CrashRecords
    <2>0. FilesTyped /\ LogTyped /\ WriterTyped /\ gen \in Nat
      BY DEF CopyInv, FilesTyped
    <2>1. /\ run' = [Down EXCEPT !.todo = Unpublished] /\ chan' = <<>> /\ wal' = Ended /\ (Strict => gen' = gen)
          /\ \E s : /\ Torned(s)
                    /\ \/ kind = "process" /\ seg' = s
                       \/ kind = "power" /\ seg' \in IF s = None THEN {None} ELSE SegmentsAfterLoss(s)
      BY <2>0, CrashIs
    <2>2. run'.pc = "down" /\ run'.out = <<>> /\ wal'.pending = <<>> /\ wal'.batch = <<>>
      BY <2>1 DEF Down, Ended
    <2>3. PICK s : /\ Torned(s)
                   /\ \/ seg' = s
                      \/ seg' = None
                      \/ s # None /\ seg' \in SegmentsAfterLoss(s)
      BY <2>1
    <2>4. s # None => s \in Log /\ s.safe <= Len(s.cells)
      BY <2>0, <2>3, TornedTyped, Zenon
    <2>5. ASSUME Strict, s # None, NEW c \in Range(s.cells), ~Damaged(c) PROVE c.gen <= gen
      <3>1. ASSUME seg # None, c \in Range(seg.cells) PROVE c.gen <= gen
        BY <2>5, <3>1, Zenon DEF RecordsSay
      <3>2. ASSUME NEW t \in Torn(Encoded(wal)), wal.pc = "append", s = [Segment(wal) EXCEPT !.cells = @ \o t]
            PROVE  c.gen <= gen
        <4>1. wal.pc # "ended" /\ ThreadTyped(wal) /\ gen \in Nat \ {0}
          BY <2>0, <3>2 DEF WriterTyped
        <4>2. Encoded(wal) \in Seq(Cell)
          BY <4>1, EncodedIs, Zenon
        <4>3. t \in Seq(Cell) /\ \E n \in 0 .. Len(Encoded(wal)) : t = SubSeq(Encoded(wal), 1, n) \/ t = SubSeq(Encoded(wal), 1, n) \o <<Damage("torn")>>
          BY <3>2, <4>2, TornIs, Zenon
        <4>4. s.cells = Segment(wal).cells \o t
          <5>1. Segment(wal) \in Log /\ Segment(wal).safe <= Len(Segment(wal).cells)
            BY SegmentIs DEF CopyInv
          <5> QED  BY <3>2, <4>3, <5>1, LongerLog, Zenon
        <4>5. \/ Damaged(c) \/ (seg # None /\ c \in Range(seg.cells)) \/ c.gen = gen
          BY <2>5, <4>1, <4>3, <4>4, <1>AppendedCells, Zenon
        <4> QED  BY <2>0, <2>5, <3>1, <4>5
      <3> QED  BY <2>3, <2>5, <3>1, <3>2, Zenon DEF Torned
    <2>6. ASSUME seg' # None, NEW c \in Range(seg'.cells), ~Damaged(c) PROVE s # None /\ c \in Range(s.cells)
      <3>1. CASE seg' = s
        BY <2>6, <3>1
      <3>2. CASE s # None /\ seg' \in SegmentsAfterLoss(s)
        <4>1. PICK r : r = seg'
          OBVIOUS
        <4>2. /\ r \in Log /\ Len(r.cells) <= Len(s.cells)
              /\ \A i \in 1 .. Len(r.cells) : r.cells[i] = s.cells[i] \/ r.cells[i] \in {Damage("torn"), Damage("zero")}
          BY <2>4, <2>6, <3>2, <4>1, SegmentLossIs, Zenon
        <4>3. r.cells \in Seq(Cell) /\ s.cells \in Seq(Cell)
          BY <2>4, <3>2, <4>2 DEF Log
        <4>4. PICK i \in 1 .. Len(r.cells) : c = r.cells[i]
          BY <2>6, <4>1, <4>3 DEF Range
        <4>5. c = s.cells[i]
          BY <2>6, <4>2, <4>4 DEF Damaged, Damage
        <4>6. i \in DOMAIN s.cells
          BY <4>2, <4>3
        <4> QED  BY <3>2, <4>5, <4>6 DEF Range
      <3> QED  BY <2>3, <2>6, <3>1, <3>2
    <2>7. Strict /\ seg' # None => \A c \in Range(seg'.cells) : ~Damaged(c) => c.gen <= gen'
      BY <2>1, <2>5, <2>6, Zenon
    <2> QED  BY <2>1, <2>2, <2>7, <1>NothingSent, Zenon
  <1>1. CASE Main
    BY <1>1, <1>OpenLogRecords, <1>BeginSinkRecords, <1>SendMsgRecords, <1>StreamUnitRecords, <1>QuietRecords, <1>CompleteRecords,
       <1>DropRecords, <1>JoinLogRecords, <1>PlanFileRecords, Zenon DEF Main
  <1>2. CASE Writer
    BY <1>2, <1>ReceiveRecords, <1>FlushRecords, <1>SyncDataRecords, <1>AppendRecordsSay, <1>SyncLogRecords, Zenon DEF Writer
  <1>3. CASE BeatFails
    BY <1>3, <1>QuietRecords, Zenon
  <1>4. CASE \E k \in CrashKinds : Crash(k)
    BY <1>4, <1>CrashRecords, Zenon
  <1>5. ASSUME UNCHANGED <<part, seg, gen, run, chan, wal>> PROVE RecordsSay'
    BY <1>5, Zenon DEF RecordsSay, Fits, Durable
  <1>6. CASE Done \/ UNCHANGED vars
    BY <1>5, <1>6, Zenon DEF Done, vars
  <1>7. CASE \E f \in Files, k \in ChangeKinds : SourceChange(f, k)
    <2>1. UNCHANGED <<part, seg, gen, run, chan, wal>>
      BY <1>7 DEF SourceChange
    <2> QED  BY <1>5, <2>1
  <1> QED  BY <1>1, <1>2, <1>3, <1>4, <1>6, <1>7, Zenon DEF Next

\* The inductive invariant behind DataBeforeCheckpoint.
DataInv == CopyInv /\ SinkSays /\ RecordsSay

\* The invariant holds at first.
LEMMA InitData ==
    ASSUME LogConstants, Init
    PROVE  DataInv
  <1>1. CopyInv
    BY InitCopies
  <1>2. SinkSays
    <2>1. Len([i \in 1 .. InitLen |-> i]) = InitLen
      BY DEF LogConstants
    <2>2. \A f \in Files : Len(src[f].data) = InitLen
      BY <2>1, Zenon DEF Init
    <2>3. /\ run.pc = "down" /\ run.sink = "none" /\ run.chunk = <<>> /\ run.digests = <<>> /\ run.out = <<>>
      BY DEF Init, Down
    <2> QED  BY <2>2, <2>3 DEF SinkSays
  <1>3. RecordsSay
    <2>1. /\ run.out = <<>> /\ chan = <<>> /\ wal = Ended /\ wal.pending = <<>> /\ wal.batch = <<>> /\ seg = None
      BY DEF Init, Down, Ended
    <2>2. Range(run.out) \cup Range(chan) = {} /\ Range(wal.pending) \cup Range(wal.batch) = {}
      BY <2>1, RangeEmpty
    <2> QED  BY <2>1, <2>2 DEF RecordsSay
  <1> QED  BY <1>1, <1>2, <1>3 DEF DataInv

\* The invariant gives the property.
LEMMA DataInvImplies ==
    ASSUME LogConstants, DataInv
    PROVE  DataBeforeCheckpoint
  \* The digests of a range, counted in chunks of the file.
  <1>DigestsOfRange. ASSUME NEW data \in Seq(Nat), NEW body \in RangeBody, WellFormed(body), Describes(body, data),
                            NEW j \in DOMAIN body.digests
                     PROVE  body.digests[j] = DigestOf(SubSeq(data, 1, body.end), body.start \div Chunk + j - 1)
    <2> USE <1>DigestsOfRange
    \* The j-th digest from a chunk boundary on is of the chunk j - 1 further.
    <2>ChunkFrom. ASSUME NEW d \in Seq(Nat), NEW start \in Nat, NEW end \in Nat, NEW c \in Nat \ {0},
                         start % Chunk = 0, end <= Len(d)
                  PROVE  SubSeq(d, start + (c - 1) * Chunk + 1, MinOf(start + c * Chunk, end))
                           = DigestOf(SubSeq(d, 1, end), start \div Chunk + c - 1)
      <3> USE <2>ChunkFrom
      \* A slice of a prefix.
      <3>SliceOfPrefix. ASSUME NEW a \in Seq(Nat), NEW e \in Nat, e <= Len(a), NEW m \in Nat \ {0}, NEW n \in Nat, n <= e
                        PROVE  SubSeq(SubSeq(a, 1, e), m, n) = SubSeq(a, m, n)
        <4> USE <3>SliceOfPrefix
        <4>0. /\ SubSeq(a, 1, e) \in Seq(Nat) /\ Len(SubSeq(a, 1, e)) = e
              /\ \A i \in 1 .. e : SubSeq(a, 1, e)[i] = a[i]
          BY SMTT(60)
        <4>1. PICK b \in Seq(Nat) : b = SubSeq(a, 1, e) /\ Len(b) = e /\ \A i \in 1 .. e : b[i] = a[i]
          BY <4>0, Zenon
        <4>2. \A i \in m .. n : b[i] = a[i]
          BY <4>1
        <4> QED  BY <4>1, <4>2, SlicesEqual
      <3>1. Chunk \in Nat /\ Chunk > 0
        BY DEF LogConstants
      <3>2. PICK q \in Nat : start = q * Chunk /\ start \div Chunk = q
        <4>1. PICK q \in Nat, r \in 0 .. Chunk - 1 : start = q * Chunk + r
          BY <3>1, BlockOf, ZenonT(60)
        <4>2. q \in Int /\ r \in Int /\ Chunk \in Int /\ 0 <= r /\ r < Chunk
          BY <3>1
        <4>3. (q * Chunk + r) \div Chunk = q /\ (q * Chunk + r) % Chunk = r
          BY <4>2, DivIs, Zenon
        <4>4. r = 0 /\ start \div Chunk = q
          BY <4>1, <4>3, Zenon
        <4>5. PICK s \in Nat : s = q * Chunk
          BY <3>1
        <4> QED  BY <4>1, <4>4, <4>5
      <3>3. PICK l \in Nat : l = c - 1 /\ c = l + 1
        OBVIOUS
      <3>4. PICK m \in Nat : m = l * Chunk
        BY <3>1
      <3>5. (q + l) * Chunk = start + m /\ (q + l + 1) * Chunk = start + m + Chunk /\ c * Chunk = m + Chunk
        <4>1. q \in Int /\ l \in Int /\ q + l \in Int /\ Chunk \in Int
          BY <3>1
        <4>2. (q + l) * Chunk = q * Chunk + l * Chunk
          BY <4>1, Distribute
        <4>3. (q + l + 1) * Chunk = (q + l) * Chunk + Chunk
          BY <4>1, OneMore
        <4>4. (l + 1) * Chunk = l * Chunk + Chunk
          BY <4>1, OneMore
        <4> QED  BY <3>2, <3>3, <3>4, <4>2, <4>3, <4>4, Zenon
      <3>6. PICK p \in Seq(Nat) : p = SubSeq(d, 1, end) /\ Len(p) = end
        <4>1. SubSeq(d, 1, end) \in Seq(Nat) /\ Len(SubSeq(d, 1, end)) = end
          OBVIOUS
        <4> QED  BY <4>1, Zenon
      <3>7. PICK a \in Nat \ {0}, e \in Nat : a = start + m + 1 /\ e = MinOf(start + m + Chunk, end) /\ e <= end
        <4>1. MinOf(start + m + Chunk, end) \in Nat /\ MinOf(start + m + Chunk, end) <= end /\ start + m + 1 \in Nat \ {0}
          BY <3>1 DEF MinOf
        <4> QED  BY <4>1, Zenon
      <3>8. start + (c - 1) * Chunk + 1 = a /\ MinOf(start + c * Chunk, end) = e
        <4>1. start + (m + Chunk) = start + m + Chunk
          BY <3>1
        <4> QED  BY <3>3, <3>4, <3>5, <3>7, <4>1, Zenon
      <3>9. DigestOf(p, q + l) = SubSeq(p, a, e)
        BY <3>5, <3>6, <3>7, Zenon DEF DigestOf
      <3>10. SubSeq(p, a, e) = SubSeq(d, a, e)
        <4>1. SubSeq(SubSeq(d, 1, end), a, e) = SubSeq(d, a, e)
          BY <3>7, <3>SliceOfPrefix, SMTT(60)
        <4> QED  BY <3>6, <4>1, Zenon
      <3>11. start \div Chunk + c - 1 = q + l
        BY <3>2, <3>3
      <3> QED  BY <3>6, <3>8, <3>9, <3>10, <3>11, Zenon
    <2>1. body.kind = "range" /\ body.start \in Nat /\ body.end \in Nat /\ j \in Nat \ {0}
      BY DEF RangeBody
    <2>2. /\ body.start % Chunk = 0 /\ body.end <= Len(data)
          /\ body.digests[j] = SubSeq(data, body.start + (j - 1) * Chunk + 1, MinOf(body.start + j * Chunk, body.end))
      BY <2>1, Zenon DEF WellFormed, Describes
    <2>3. PICK start \in Nat, end \in Nat : start = body.start /\ end = body.end
      BY <2>1
    <2>4. start % Chunk = 0 /\ end <= Len(data)
      BY <2>2, <2>3, Zenon
    <2>5. SubSeq(data, start + (j - 1) * Chunk + 1, MinOf(start + j * Chunk, end))
            = DigestOf(SubSeq(data, 1, end), start \div Chunk + j - 1)
      BY <2>1, <2>4, <2>ChunkFrom, SMTT(60)
    <2> QED  BY <2>2, <2>3, <2>5, Zenon
  <1>1. SUFFICES ASSUME Strict, seg # None, run.file # None, run.pc # "down", NEW c \in Range(seg.cells),
                        ~Damaged(c), c.gen = gen, c.file = run.file, c.body.kind = "range"
                 PROVE  /\ c.body.end <= part[run.file].safe
                        /\ \A j \in DOMAIN c.body.digests :
                             c.body.digests[j] = DigestOf(SubSeq(part[run.file].data, 1, c.body.end), c.body.start \div Chunk + j - 1)
    <2>1. ASSUME seg # None, NEW i \in DOMAIN seg.cells PROVE seg.cells[i] \in Range(seg.cells)
      BY DEF Range
    <2> QED  BY <2>1, Zenon DEF DataBeforeCheckpoint
  <1>2. Fits(c.file, c.body) /\ Durable(c.file, c.body) /\ c.body \in Body
    BY <1>1, TypedRecords, Zenon DEF DataInv, RecordsSay
  <1>3. WellFormed(c.body) /\ Describes(c.body, run.read) /\ c.body.end <= part[run.file].safe
    BY <1>1, <1>2, Zenon DEF Fits, Durable
  <1>4. c.body \in RangeBody
    BY <1>1, <1>2 DEF Body, BeginBody
  <1>5. run.read \in Seq(Nat) /\ part[run.file].data = run.read
    BY <1>1 DEF DataInv, CopyInv, RunTyped, CopySays
  <1>6. \A j \in DOMAIN c.body.digests :
          c.body.digests[j] = DigestOf(SubSeq(run.read, 1, c.body.end), c.body.start \div Chunk + j - 1)
    BY <1>3, <1>4, <1>5, <1>DigestsOfRange, Zenon
  <1> QED  BY <1>3, <1>5, <1>6, Zenon

(* Data before checkpoint: under Strict a range that a run has appended    *)
(* for the file it is copying describes chunks that are in the partial and *)
(* already synced, with exactly that content - for every number of files,  *)
(* chunk size, channel capacity, batch size, and every crash, fault and    *)
(* edit of a source that does not grow.                                    *)
THEOREM DataFirst ==
    ASSUME LogConstants, "grow" \notin ChangeKinds
    PROVE  Spec => []DataBeforeCheckpoint
  <1>1. Init => DataInv
    BY InitData
  <1>2. DataInv /\ [Next]_vars => DataInv'
    BY NextCopies, NextSinks, NextRecords, Zenon DEF DataInv
  <1>3. DataInv => DataBeforeCheckpoint
    BY DataInvImplies
  <1> QED  BY <1>1, <1>2, <1>3, PTL DEF Spec

-----------------------------------------------------------------------------
(* The log scans.                                                          *)

\* Cells that agree up to n are sound up to n together.
LEMMA SoundSame ==
    ASSUME NEW a \in Seq(Cell), NEW b \in Seq(Cell), NEW n \in Nat, n <= Len(a), n <= Len(b),
           \A i \in 1 .. n : a[i] = b[i], NEW m \in 0 .. n, Sound(a, n)
    PROVE  Sound(b, m)
  <1>1. ASSUME NEW i \in 1 .. m PROVE Decodes(b[i]) /\ InOrder(b, i)
    <2>1. i \in 1 .. n /\ i \in Nat /\ (i # 1 => i - 1 \in 1 .. n) /\ 1 \in 1 .. n
      OBVIOUS
    <2>2. Decodes(a[i]) /\ InOrder(a, i) /\ a[i] = b[i] /\ a[1] = b[1] /\ (i # 1 => a[i - 1] = b[i - 1])
      BY <2>1 DEF Sound
    <2> QED  BY <2>2, Zenon DEF InOrder
  <1> QED  BY <1>1 DEF Sound

\* What follows the log: its last record, and the number the next one gets.
Follows(cells, next) ==
    IF cells = <<>> THEN next = 1
    ELSE LET last == cells[Len(cells)]
         IN  (last.gen = gen /\ next = last.seq + 1) \/ (last.gen < gen /\ next = 1)

\* A sound log, or one that a torn record ends.
TornEnd(cells) ==
    \/ Sound(cells, Len(cells))
    \/ cells # <<>> /\ cells[Len(cells)] = Damage("torn") /\ Sound(cells, Len(cells) - 1)

\* What LogSays says of the segment alone.
SegmentSays(s) == /\ s # None => Sound(s.cells, s.safe)
                  /\ "power" \notin CrashKinds /\ s # None => TornEnd(s.cells)

\* Every step keeps LogSays.
LEMMA NextLog ==
    ASSUME LogConstants, CopyInv, RecordsSay, LogSays, [Next]_vars
    PROVE  LogSays'
  \* A step that leaves the log as it is.
  <1>LogKept. ASSUME UNCHANGED <<seg, gen>>, wal'.pc # "ended" => wal.pc # "ended",
                     wal'.open = wal.open, wal'.dead = wal.dead, wal'.next = wal.next, wal'.late = FALSE,
                     wal'.pc \in {"sync", "append", "walsync"} => ~wal.dead
              PROVE  LogSays'
    <2> USE <1>LogKept
    <2>1. wal'.pc # "ended" /\ wal'.open => Sound(seg.cells, Len(seg.cells)) /\ Continues'
      BY Zenon DEF LogSays, Continues
    <2> QED  BY <2>1, Zenon DEF LogSays
  \* A step that leaves no thread with an open log.
  <1>LogClosed. ASSUME wal'.pc = "ended" \/ (wal'.open = FALSE /\ (wal'.dead \/ wal'.next = 1)),
                       wal'.pc \in {"recv", "ended"}, wal'.late = FALSE, SegmentSays(seg)'
                PROVE  LogSays'
    BY <1>LogClosed DEF LogSays, SegmentSays, TornEnd
  \* The log after an append, whole or torn.
  <1>AppendSays. ASSUME wal.pc = "append",
                        NEW t \in Seq(Cell), NEW n \in 0 .. Len(Encoded(wal)), NEW cells, cells = Segment(wal).cells \o t,
                        t = SubSeq(Encoded(wal), 1, n) \/ t = SubSeq(Encoded(wal), 1, n) \o <<Damage("torn")>>
                 PROVE  /\ Sound(cells, Segment(wal).safe) /\ TornEnd(cells)
                        /\ t = SubSeq(Encoded(wal), 1, n) => /\ Len(t) = n /\ Sound(cells, Len(cells))
                                                             /\ Follows(cells, wal.next + n)
    <2> USE <1>AppendSays
    \* Records that go on where a sound log ends leave it sound.
    <2>SoundMore. ASSUME NEW a \in Seq(Cell), NEW recs \in Seq(Cell), NEW next \in Nat \ {0}, Sound(a, Len(a)), Follows(a, next),
                         \A i \in 1 .. Len(recs) : Decodes(recs[i]) /\ recs[i].gen = gen /\ recs[i].seq = next + i - 1
                  PROVE  Sound(a \o recs, Len(a) + Len(recs)) /\ Follows(a \o recs, next + Len(recs))
      <3> USE <2>SoundMore
      <3>1. PICK b \in Seq(Cell) : /\ b = a \o recs /\ Len(b) = Len(a) + Len(recs)
                                   /\ \A i \in 1 .. Len(a) : b[i] = a[i]
                                   /\ \A i \in 1 .. Len(recs) : b[Len(a) + i] = recs[i]
        <4>1. /\ a \o recs \in Seq(Cell) /\ Len(a \o recs) = Len(a) + Len(recs)
              /\ \A i \in 1 .. Len(a) : (a \o recs)[i] = a[i]
              /\ \A i \in 1 .. Len(recs) : (a \o recs)[Len(a) + i] = recs[i]
          OBVIOUS
        <4> QED  BY <4>1, Zenon
      <3>2. Len(a) \in Nat /\ Len(recs) \in Nat /\ (Len(a) = 0 <=> a = <<>>) /\ (Len(b) = 0 <=> b = <<>>)
        OBVIOUS
      <3>3. ASSUME NEW i \in 1 .. Len(a) PROVE Decodes(b[i]) /\ InOrder(b, i)
        <4>1. Len(a) <= Len(a) /\ Len(a) <= Len(b) /\ Len(a) \in 0 .. Len(a)
          BY <3>1, <3>2
        <4>2. Sound(b, Len(a))
          BY <3>1, <3>2, <4>1, SoundSame, Zenon
        <4> QED  BY <4>2 DEF Sound
      <3>4. ASSUME NEW i \in 1 .. Len(recs) PROVE Decodes(b[Len(a) + i]) /\ InOrder(b, Len(a) + i)
        <4>1. Decodes(recs[i]) /\ recs[i].gen = gen /\ recs[i].seq = next + i - 1 /\ b[Len(a) + i] = recs[i]
          BY <3>1, Zenon
        <4>2. CASE i = 1 /\ a = <<>>
          <5>1. next = 1 /\ Len(a) + i = 1 /\ recs[i].seq = 1
            BY <3>2, <4>1, <4>2 DEF Follows
          <5> QED  BY <4>1, <5>1 DEF InOrder
        <4>3. CASE i = 1 /\ a # <<>>
          <5>1. /\ Len(a) + i # 1 /\ Len(a) + i - 1 = Len(a) /\ b[Len(a)] = a[Len(a)] /\ recs[i].seq = next
            BY <3>1, <3>2, <4>1, <4>3
          <5>2. (a[Len(a)].gen = gen /\ next = a[Len(a)].seq + 1) \/ (a[Len(a)].gen < gen /\ next = 1)
            BY <4>3 DEF Follows
          <5> QED  BY <4>1, <5>1, <5>2 DEF InOrder
        <4>4. CASE i # 1
          <5>1. PICK j \in 1 .. Len(recs) : i = j + 1
            <6>1. i - 1 \in 1 .. Len(recs) /\ i = (i - 1) + 1
              BY <3>2, <4>4
            <6> QED  BY <6>1
          <5>2. recs[j].gen = gen /\ recs[j].seq = next + j - 1 /\ b[Len(a) + j] = recs[j]
            BY <3>1
          <5>3. Len(a) + i # 1 /\ Len(a) + i - 1 = Len(a) + j /\ next + i - 1 = next + j - 1 + 1
            BY <3>2, <5>1
          <5>4. PICK k : k = Len(a) + i /\ k # 1 /\ b[k] = recs[i] /\ b[k - 1] = recs[j]
            BY <4>1, <5>2, <5>3
          <5>5. b[k].gen = b[k - 1].gen /\ b[k].seq = b[k - 1].seq + 1
            BY <4>1, <5>2, <5>3, <5>4, Zenon
          <5> QED  BY <4>1, <5>4, <5>5, Zenon DEF InOrder
        <4> QED  BY <4>2, <4>3, <4>4
      <3>5. Sound(b, Len(b))
        <4>1. ASSUME NEW k \in 1 .. Len(b) PROVE Decodes(b[k]) /\ InOrder(b, k)
          <5>1. CASE k <= Len(a)
            BY <3>2, <3>3, <5>1
          <5>2. CASE k > Len(a)
            <6>1. PICK i \in 1 .. Len(recs) : k = Len(a) + i
              <7>1. k - Len(a) \in 1 .. Len(recs) /\ k = Len(a) + (k - Len(a))
                BY <3>1, <3>2, <5>2
              <7> QED  BY <7>1, Zenon
            <6> QED  BY <3>4, <6>1
          <5> QED  BY <3>2, <5>1, <5>2
        <4> QED  BY <4>1 DEF Sound
      <3>6. Follows(b, next + Len(recs))
        <4>1. CASE Len(recs) = 0
          <5>1. b = a
            BY <3>1, <3>2, <4>1, SameSeq
          <5>2. next + Len(recs) = next
            BY <4>1
          <5> QED  BY <5>1, <5>2, Zenon
        <4>2. CASE Len(recs) # 0
          <5>1. Len(recs) \in 1 .. Len(recs) /\ b # <<>>
            BY <3>1, <3>2, <4>2
          <5>2. b[Len(b)] = recs[Len(recs)] /\ recs[Len(recs)].gen = gen /\ recs[Len(recs)].seq = next + Len(recs) - 1
            BY <3>1, <5>1
          <5>3. next + Len(recs) = next + Len(recs) - 1 + 1
            BY <3>2
          <5>4. b[Len(b)].gen = gen /\ next + Len(recs) = b[Len(b)].seq + 1
            BY <5>2, <5>3, Zenon
          <5> QED  BY <5>1, <5>4, Zenon DEF Follows
        <4> QED  BY <4>1, <4>2
      <3> QED  BY <3>1, <3>5, <3>6, Zenon
    \* What an append continues.
    <2>SegmentSound. /\ Segment(wal).cells \in Seq(Cell) /\ Segment(wal).safe \in 0 .. Len(Segment(wal).cells)
                     /\ Sound(Segment(wal).cells, Len(Segment(wal).cells)) /\ Follows(Segment(wal).cells, wal.next)
                     /\ wal.next \in Nat \ {0}
      \* The empty prefix is sound.
      <3>SoundNone. ASSUME NEW a
                    PROVE  Sound(a, 0)
        BY <3>SoundNone DEF Sound
      <3>1. /\ Segment(wal) \in Log /\ Segment(wal).safe <= Len(Segment(wal).cells)
            /\ wal.open => Segment(wal) = seg /\ seg # None
            /\ ~wal.open => Segment(wal).cells = <<>>
        BY SegmentIs DEF CopyInv
      <3>2. Segment(wal).cells \in Seq(Cell) /\ Segment(wal).safe \in 0 .. Len(Segment(wal).cells) /\ wal.next \in Nat \ {0}
        BY <3>1 DEF Log, CopyInv, WriterTyped, ThreadTyped
      <3>3. CASE wal.open
        <4>1. Sound(seg.cells, Len(seg.cells)) /\ Continues
          BY <3>3 DEF LogSays
        <4> QED  BY <3>1, <3>2, <3>3, <4>1, Zenon DEF Continues, Follows
      <3>4. CASE ~wal.open
        <4>1. wal.next = 1
          BY <3>4 DEF LogSays
        <4>2. Sound(<<>>, 0) /\ Len(<<>>) = 0
          BY <3>SoundNone
        <4> QED  BY <3>1, <3>2, <3>4, <4>1, <4>2 DEF Follows
      <3> QED  BY <3>3, <3>4
    \* The records of a batch go on with the log.
    <2>EncodedSound. ASSUME NEW k \in 0 .. Len(Encoded(wal))
                     PROVE  \E recs \in Seq(Cell) :
                              /\ recs = SubSeq(Encoded(wal), 1, k) /\ Len(recs) = k
                              /\ \A i \in 1 .. k : Decodes(recs[i]) /\ recs[i].gen = gen /\ recs[i].seq = wal.next + i - 1
      <3> USE <2>EncodedSound
      <3>1. ThreadTyped(wal) /\ gen \in Nat \ {0}
        BY DEF CopyInv, WriterTyped, FilesTyped
      <3>2. /\ Encoded(wal) \in Seq(Cell) /\ Len(Encoded(wal)) = Len(wal.batch)
            /\ \A i \in 1 .. Len(wal.batch) :
                 /\ wal.batch[i] \in Range(wal.batch)
                 /\ Encoded(wal)[i] = [gen |-> gen, seq |-> wal.next + i - 1, file |-> wal.batch[i].file, body |-> wal.batch[i].body]
        BY <3>1, EncodedIs, Zenon
      <3>3. PICK all \in Seq(Cell) : all = Encoded(wal)
        BY <3>2, Zenon
      <3>4. PICK recs \in Seq(Cell) : recs = SubSeq(all, 1, k) /\ Len(recs) = k /\ \A i \in 1 .. k : recs[i] = all[i]
        <4>1. k \in 0 .. Len(all)
          BY <3>3
        <4>2. SubSeq(all, 1, k) \in Seq(Cell) /\ Len(SubSeq(all, 1, k)) = k /\ \A i \in 1 .. k : SubSeq(all, 1, k)[i] = all[i]
          BY <4>1
        <4> QED  BY <4>2, Zenon
      <3>5. ASSUME NEW i \in 1 .. k PROVE Decodes(recs[i]) /\ recs[i].gen = gen /\ recs[i].seq = wal.next + i - 1
        <4>1. i \in 1 .. Len(wal.batch)
          BY <3>2
        <4>2. PICK e : e = wal.batch[i] /\ e \in Range(wal.batch)
          BY <3>2, <4>1, Zenon
        <4>3. recs[i] = [gen |-> gen, seq |-> wal.next + i - 1, file |-> e.file, body |-> e.body]
          BY <3>2, <3>3, <3>4, <4>1, <4>2, Zenon
        <4>4. WellFormed(e.body) /\ e.body \in Body
          BY <4>2, TypedRecords, Zenon DEF RecordsSay, Fits
        <4>5. e.body.kind \notin {"torn", "zero"}
          BY <4>4 DEF Body, BeginBody, RangeBody
        <4>6. recs[i].gen = gen /\ recs[i].seq = wal.next + i - 1 /\ recs[i].body = e.body
          <5>1. PICK q, r : q = wal.next + i - 1 /\ r = recs[i] /\ r = [gen |-> gen, seq |-> q, file |-> e.file, body |-> e.body]
            BY <4>3, Zenon
          <5>2. r.gen = gen /\ r.seq = q /\ r.body = e.body
            BY <5>1
          <5> QED  BY <5>1, <5>2, Zenon
        <4> QED  BY <4>4, <4>5, <4>6, Zenon DEF Decodes, Damaged, WellFormed
      <3> QED  BY <3>3, <3>4, <3>5, Zenon
    <2>1. PICK a \in Seq(Cell), next \in Nat \ {0} :
            a = Segment(wal).cells /\ next = wal.next /\ Segment(wal).safe \in 0 .. Len(a) /\ Sound(a, Len(a)) /\ Follows(a, next)
      BY <2>SegmentSound, Zenon
    <2>2. PICK recs \in Seq(Cell) :
            /\ recs = SubSeq(Encoded(wal), 1, n) /\ Len(recs) = n
            /\ \A i \in 1 .. n : Decodes(recs[i]) /\ recs[i].gen = gen /\ recs[i].seq = next + i - 1
      BY <2>1, <2>EncodedSound, Zenon
    <2>3. Sound(a \o recs, Len(a) + n) /\ Follows(a \o recs, next + n)
      <3>1. \A i \in 1 .. Len(recs) : Decodes(recs[i]) /\ recs[i].gen = gen /\ recs[i].seq = next + i - 1
        BY SMTT(60), <2>2
      <3>2. Sound(a \o recs, Len(a) + Len(recs)) /\ Follows(a \o recs, next + Len(recs))
        BY <2>1, <3>1, <2>SoundMore, Zenon
      <3> QED  BY <2>2, <3>2, Zenon
    <2>4. PICK b \in Seq(Cell) : b = a \o recs /\ Len(b) = Len(a) + n
      <3>1. a \o recs \in Seq(Cell) /\ Len(a \o recs) = Len(a) + Len(recs)
        OBVIOUS
      <3> QED  BY <2>2, <3>1, Zenon
    <2>5. PICK c \in Seq(Cell) : c = a \o t /\ Len(c) = Len(a) + Len(t) /\ \A i \in 1 .. Len(a) : c[i] = a[i]
      <3>1. a \o t \in Seq(Cell) /\ Len(a \o t) = Len(a) + Len(t) /\ \A i \in 1 .. Len(a) : (a \o t)[i] = a[i]
        OBVIOUS
      <3> QED  BY <3>1, Zenon
    <2>6. cells = c
      BY <2>1, <2>5, Zenon
    <2>7. Sound(c, Segment(wal).safe)
      <3>1. Len(a) \in Nat /\ Len(a) <= Len(a) /\ Len(a) <= Len(c)
        BY <2>5
      <3> QED  BY <2>1, <2>5, <3>1, SoundSame, Zenon
    <2>8. CASE t = SubSeq(Encoded(wal), 1, n)
      <3>1. t = recs /\ c = b
        BY <2>2, <2>4, <2>5, <2>8, Zenon
      <3>2. Sound(c, Len(c)) /\ Follows(c, wal.next + n) /\ Len(t) = n
        BY <2>1, <2>2, <2>3, <2>4, <3>1, Zenon
      <3> QED  BY <2>6, <2>7, <3>2, Zenon DEF TornEnd
    <2>9. CASE t # SubSeq(Encoded(wal), 1, n)
      <3>1. t = recs \o <<Damage("torn")>>
        BY <2>2, <2>9, Zenon
      <3> HIDE DEF Damage
      <3>2. PICK d \in Cell : d = Damage("torn")
        <4>1. Damage("torn") \in Cell
          BY DEF Cell
        <4> QED  BY <4>1, Zenon
      <3>3. t = recs \o <<d>>
        BY <3>1, <3>2, Zenon
      <3>4. Len(t) = n + 1 /\ t[n + 1] = d /\ \A i \in 1 .. n : t[i] = recs[i]
        BY <2>2, <3>3
      <3>5. /\ Len(c) = Len(a) + n + 1 /\ c[Len(a) + n + 1] = d
            /\ \A i \in 1 .. Len(a) + n : c[i] = b[i]
        BY <2>2, <2>4, <2>5, <3>4
      <3>6. Sound(c, Len(a) + n)
        <4>1. Len(a) + n \in Nat /\ Len(a) + n <= Len(b) /\ Len(a) + n <= Len(c) /\ Len(a) + n \in 0 .. Len(a) + n
          BY <2>4, <3>5
        <4> QED  BY <2>3, <2>4, <3>5, <4>1, SoundSame, Zenon
      <3>7. Len(c) - 1 = Len(a) + n /\ c # <<>> /\ c[Len(c)] = d
        BY <3>5
      <3>8. TornEnd(c)
        BY <3>2, <3>6, <3>7, Zenon DEF TornEnd
      <3> QED  BY <2>6, <2>7, <2>9, <3>8, Zenon
    <2> QED  BY <2>8, <2>9, Zenon
  \* A batch is appended, or the log dies.
  <1>AppendLog. ASSUME AppendRecords
                PROVE  LogSays'
    <2> USE <1>AppendLog
    <2>0. FilesTyped /\ LogTyped /\ WriterTyped
      BY DEF CopyInv
    <2>1. /\ gen' = gen /\ wal.pc = "append"
          /\ \/ /\ seg' = [Segment(wal) EXCEPT !.cells = @ \o Encoded(wal)]
                /\ wal'.pc \in {"walsync", "recv", "ended"} /\ wal'.dead = wal.dead
                /\ wal'.next = wal.next + Len(Encoded(wal)) /\ wal'.late = wal.late /\ wal'.open = TRUE
             \/ /\ Died
                /\ \/ \E t \in Torn(Encoded(wal)) : seg' = [Segment(wal) EXCEPT !.cells = @ \o t]
                   \/ ~wal.open /\ seg' = seg
      BY <2>0, AppendIs, Zenon
    <2>2. Segment(wal) \in Log /\ Segment(wal).safe <= Len(Segment(wal).cells)
      BY <2>0, SegmentIs
    <2>3. ThreadTyped(wal) /\ gen \in Nat \ {0} /\ wal.late = FALSE /\ ~wal.dead
      BY <2>0, <2>1 DEF WriterTyped, FilesTyped, LogSays
    <2>4. Encoded(wal) \in Seq(Cell)
      BY <2>3, EncodedIs, Zenon
    <2>5. ASSUME NEW t \in Seq(Cell), seg' = [Segment(wal) EXCEPT !.cells = @ \o t]
          PROVE  seg'.cells = Segment(wal).cells \o t /\ seg'.safe = Segment(wal).safe /\ seg' # None
      <3>1. PICK s : s = seg' /\ s = [Segment(wal) EXCEPT !.cells = @ \o t]
        BY <2>5, Zenon
      <3>2. s \in Log /\ s.cells = Segment(wal).cells \o t /\ s.safe = Segment(wal).safe
        BY <2>2, <3>1, LongerLog, Zenon
      <3> QED  BY <3>1, <3>2, Zenon DEF LogConstants
    <2>6. CASE /\ seg' = [Segment(wal) EXCEPT !.cells = @ \o Encoded(wal)]
               /\ wal'.pc \in {"walsync", "recv", "ended"} /\ wal'.dead = wal.dead
               /\ wal'.next = wal.next + Len(Encoded(wal)) /\ wal'.late = wal.late /\ wal'.open = TRUE
      <3>1. PICK t \in Seq(Cell), n \in 0 .. Len(Encoded(wal)) : t = Encoded(wal) /\ t = SubSeq(Encoded(wal), 1, n) /\ n = Len(Encoded(wal))
        <4>1. PICK r \in Seq(Cell) : r = Encoded(wal)
          BY <2>4, Zenon
        <4>2. SubSeq(r, 1, Len(r)) \in Seq(Cell) /\ Len(SubSeq(r, 1, Len(r))) = Len(r) /\ Len(r) \in 0 .. Len(r)
          OBVIOUS
        <4>3. \A i \in 1 .. Len(r) : SubSeq(r, 1, Len(r))[i] = r[i]
          OBVIOUS
        <4>4. SubSeq(r, 1, Len(r)) = r
          BY <4>2, <4>3, SameSeq
        <4> QED  BY <4>1, <4>2, <4>4, Zenon
      <3>2. seg'.cells = Segment(wal).cells \o t /\ seg'.safe = Segment(wal).safe /\ seg' # None
        BY <2>5, <2>6, <3>1, Zenon
      <3>3. PICK cells : cells = seg'.cells /\ cells = Segment(wal).cells \o t
        BY <3>2, Zenon
      <3>4. Sound(cells, Segment(wal).safe) /\ Sound(cells, Len(cells)) /\ Follows(cells, wal.next + n)
        BY <2>1, <3>1, <3>3, <1>AppendSays, Zenon
      <3>5. Continues'
        BY <2>1, <2>6, <3>1, <3>3, <3>4, Zenon DEF Follows, Continues
      <3>6. wal'.late = FALSE /\ ~wal'.dead
        BY <2>3, <2>6
      <3>7. /\ Sound(seg'.cells, seg'.safe) /\ Sound(seg'.cells, Len(seg'.cells))
        BY <3>2, <3>3, <3>4, Zenon
      <3> QED  BY <2>6, <3>5, <3>6, <3>7, Zenon DEF LogSays
    <2>7. CASE Died /\ \E t \in Torn(Encoded(wal)) : seg' = [Segment(wal) EXCEPT !.cells = @ \o t]
      <3>1. PICK t \in Torn(Encoded(wal)) : seg' = [Segment(wal) EXCEPT !.cells = @ \o t]
        BY <2>7, Zenon
      <3>2. t \in Seq(Cell) /\ \E n \in 0 .. Len(Encoded(wal)) : t = SubSeq(Encoded(wal), 1, n) \/ t = SubSeq(Encoded(wal), 1, n) \o <<Damage("torn")>>
        BY <2>4, <3>1, TornIs, Zenon
      <3>3. seg'.cells = Segment(wal).cells \o t /\ seg'.safe = Segment(wal).safe
        BY <2>5, <3>1, <3>2, Zenon
      <3>4. PICK cells : cells = seg'.cells /\ cells = Segment(wal).cells \o t
        BY <3>3, Zenon
      <3>5. Sound(cells, Segment(wal).safe) /\ TornEnd(cells)
        BY <2>1, <3>2, <3>4, <1>AppendSays, Zenon
      <3>6. SegmentSays(seg)'
        BY <3>3, <3>4, <3>5, Zenon DEF SegmentSays
      <3> QED  BY <2>3, <2>7, <3>6, <1>LogClosed, Zenon DEF Died
    <2>8. CASE Died /\ seg' = seg
      <3>1. SegmentSays(seg)'
        BY <2>8, Zenon DEF LogSays, SegmentSays, TornEnd
      <3> QED  BY <2>3, <2>8, <3>1, <1>LogClosed, Zenon DEF Died
    <2> QED  BY <2>1, <2>6, <2>7, <2>8, Zenon
  \* The log is synced, or dies.
  <1>SyncLogSays. ASSUME SyncLog
                  PROVE  LogSays'
    <2> USE <1>SyncLogSays
    <2>0. LogTyped /\ WriterTyped
      BY DEF CopyInv
    <2>1. /\ gen' = gen /\ wal.pc = "walsync" /\ seg # None
          /\ \/ /\ seg' = [seg EXCEPT !.safe = Len(seg.cells), !.named = @ \/ wal.created]
                /\ wal'.pc \in {"recv", "ended"} /\ Steady(wal, wal')
             \/ Died /\ seg' = seg
      BY <2>0, SyncLogIs
    <2>2. wal.open /\ wal.late = FALSE /\ Sound(seg.cells, Len(seg.cells)) /\ Continues
      BY <2>0, <2>1 DEF WriterTyped, LogSays
    <2>3. CASE /\ seg' = [seg EXCEPT !.safe = Len(seg.cells), !.named = @ \/ wal.created]
               /\ wal'.pc \in {"recv", "ended"} /\ Steady(wal, wal')
      <3>1. seg'.cells = seg.cells /\ seg'.safe = Len(seg.cells)
        BY <2>0, <2>1, <2>3 DEF LogTyped, Log
      <3>2. Continues'
        BY <2>1, <2>2, <2>3, <3>1, Zenon DEF Continues, Steady
      <3>3. wal'.late = FALSE /\ wal'.open /\ wal'.pc \notin {"sync", "append", "walsync"}
        BY <2>2, <2>3 DEF Steady
      <3> QED  BY <2>2, <3>1, <3>2, <3>3, Zenon DEF LogSays
    <2>4. CASE Died /\ seg' = seg
      <3>1. SegmentSays(seg)'
        BY <2>4, Zenon DEF LogSays, SegmentSays, TornEnd
      <3> QED  BY <2>2, <2>4, <3>1, <1>LogClosed, Zenon DEF Died
    <2> QED  BY <2>1, <2>3, <2>4, Zenon
  \* The other steps of the thread.
  <1>ThreadLog. ASSUME Receive \/ FlushTimer \/ Disconnected \/ BeginFlush \/ SyncData
                PROVE  LogSays'
    <2> USE <1>ThreadLog
    <2>0. FilesTyped /\ RunTyped /\ WriterTyped /\ wal.late = FALSE
      BY DEF CopyInv, LogSays
    <2>1. /\ UNCHANGED <<seg, gen>> /\ wal.pc # "ended"
          /\ wal'.open = wal.open /\ wal'.dead = wal.dead /\ wal'.next = wal.next /\ wal'.late = FALSE
          /\ wal'.pc \in {"sync", "append", "walsync"} => ~wal.dead
      <3>1. CASE Receive
        <4>1. UNCHANGED <<seg, gen>> /\ wal.pc = "recv" /\ wal'.pc \in {"recv", "flush", "ended"} /\ Steady(wal, wal')
          BY <2>0, <3>1, ReceiveIs, Zenon
        <4> QED  BY <2>0, <4>1 DEF Steady
      <3>2. CASE FlushTimer \/ Disconnected
        <4>1. UNCHANGED <<seg, gen>> /\ wal.pc = "recv" /\ wal'.pc \in {"flush", "ended"} /\ Steady(wal, wal')
          BY <2>0, <3>2, WaitIs, Zenon
        <4> QED  BY <2>0, <4>1 DEF Steady
      <3>3. CASE BeginFlush
        <4>1. /\ UNCHANGED <<seg, gen>> /\ wal.pc = "flush"
              /\ wal'.open = wal.open /\ wal'.dead = wal.dead /\ wal'.next = wal.next
              /\ \/ wal'.pc \in {"recv", "ended"} /\ wal'.late = wal.late
                 \/ wal'.pc = "sync" /\ wal'.late = FALSE /\ ~wal.dead
          BY <2>0, <3>3, BeginFlushIs, Zenon
        <4> QED  BY <2>0, <4>1
      <3>4. CASE SyncData
        <4>1. UNCHANGED <<seg, gen>> /\ wal.pc = "sync" /\ wal'.pc \in {"append", "recv", "ended"} /\ Steady(wal, wal')
          BY <2>0, <3>4, SyncDataIs, Zenon
        <4>2. ~wal.dead
          BY <4>1 DEF LogSays
        <4> QED  BY <2>0, <4>1, <4>2 DEF Steady
      <3> QED  BY <3>1, <3>2, <3>3, <3>4, Zenon
    <2> QED  BY <2>1, <1>LogKept, Zenon
  \* A run that opens the log cuts it where the scan stops, and goes on from its last record.
  <1>OpenLogSays. ASSUME OpenLog
                  PROVE  LogSays'
    <2> USE <1>OpenLogSays
    <2> DEFINE cells == IF seg = None THEN <<>> ELSE seg.cells
               n     == Decoded(cells)
               last  == IF n = 0 THEN [gen |-> 0, seq |-> 0] ELSE cells[n]
               good  == Scan(cells) = "ok" /\ last.gen <= gen + 1
               live  == [Ended EXCEPT !.pc = "recv"]
    <2>1. /\ run.pc = "down" /\ gen' = gen + 1
          /\ \/ /\ good
                /\ seg' = IF seg = None THEN None ELSE [seg EXCEPT !.cells = SubSeq(cells, 1, n), !.safe = MinOf(@, n)]
                /\ wal' = [live EXCEPT !.open = seg # None, !.next = IF last.gen = gen' THEN last.seq + 1 ELSE 1]
             \/ seg' = None /\ wal' = live
             \/ UNCHANGED <<seg, wal>>
      BY DEF OpenLog
    <2>2. wal = Ended /\ gen \in Nat /\ LogTyped
      BY <2>1 DEF RecordsSay, CopyInv, FilesTyped
    <2>3. live.pc = "recv" /\ live.open = FALSE /\ live.next = 1 /\ live.late = FALSE
      BY DEF Ended
    <2>4. cells \in Seq(Cell) /\ n \in 0 .. Len(cells) /\ \A i \in 1 .. n : Decodes(cells[i])
      <3>1. cells \in Seq(Cell)
        BY <2>2 DEF LogTyped, Log
      <3> HIDE DEF cells
      <3> QED  BY <3>1, DecodedIs
    <2>5. good => Sound(cells, n)
      <3> HIDE DEF cells
      <3> QED  BY <2>4 DEF Scan, Sound
    <2>6. CASE UNCHANGED <<seg, wal>>
      <3>1. SegmentSays(seg)'
        BY <2>6, Zenon DEF LogSays, SegmentSays, TornEnd
      <3>2. wal'.pc = "ended" /\ wal'.late = FALSE
        BY <2>2, <2>6 DEF Ended
      <3> QED  BY <3>1, <3>2, <1>LogClosed, Zenon
    <2>7. CASE seg' = None /\ wal' = live
      <3>1. SegmentSays(seg)'
        BY <2>7, Zenon DEF SegmentSays
      <3> HIDE DEF live
      <3> QED  BY <2>3, <2>7, <3>1, <1>LogClosed, Zenon
    <2>8. ASSUME good, seg = None, seg' = None, wal' = [live EXCEPT !.open = seg # None, !.next = IF last.gen = gen' THEN last.seq + 1 ELSE 1]
          PROVE  LogSays'
      <3>1. n = 0 /\ last.gen = 0
        BY <2>4, <2>8
      <3>2. last.gen # gen'
        BY <2>1, <2>2, <3>1
      <3>3. wal'.pc = "recv" /\ wal'.open = FALSE /\ wal'.next = 1 /\ wal'.late = FALSE
        <4> HIDE DEF last, cells, n, good
        <4>1. PICK b, x : /\ b = (seg # None) /\ x = (IF last.gen = gen' THEN last.seq + 1 ELSE 1)
                          /\ wal' = [live EXCEPT !.open = b, !.next = x]
          BY <2>8, Zenon
        <4>2. wal'.pc = "recv" /\ wal'.open = b /\ wal'.next = x /\ wal'.late = FALSE
          BY <4>1 DEF Ended
        <4> QED  BY <2>8, <3>2, <4>1, <4>2, Zenon
      <3>4. SegmentSays(seg)'
        BY <2>8, Zenon DEF SegmentSays
      <3> QED  BY <3>3, <3>4, <1>LogClosed, Zenon
    <2>9. ASSUME good, seg # None, seg' = [seg EXCEPT !.cells = SubSeq(cells, 1, n), !.safe = MinOf(@, n)],
                 wal' = [live EXCEPT !.open = seg # None, !.next = IF last.gen = gen' THEN last.seq + 1 ELSE 1]
          PROVE  LogSays'
      <3>1. cells = seg.cells /\ seg.safe \in Nat /\ DOMAIN seg = {"cells", "safe", "named"}
        BY <2>2, <2>9 DEF LogTyped, Log
      <3>2. PICK cut \in Seq(Cell) : cut = SubSeq(cells, 1, n) /\ Len(cut) = n /\ \A i \in 1 .. n : cut[i] = cells[i]
        <4> HIDE DEF cells, n
        <4>1. SubSeq(cells, 1, n) \in Seq(Cell) /\ Len(SubSeq(cells, 1, n)) = n /\ \A i \in 1 .. n : SubSeq(cells, 1, n)[i] = cells[i]
          BY <2>4
        <4> QED  BY <4>1, Zenon
      <3>3. seg'.cells = cut /\ seg'.safe \in 0 .. n
        <4> HIDE DEF cells, n
        <4>1. seg'.cells = cut /\ seg'.safe = MinOf(seg.safe, n)
          BY <2>9, <3>1, <3>2
        <4> QED  BY <2>4, <3>1, <4>1 DEF MinOf
      <3>4. Sound(cut, n) /\ Sound(cut, seg'.safe)
        <4> HIDE DEF cells, n, good, last
        <4>1. n \in Nat /\ n <= Len(cells) /\ n <= Len(cut) /\ n \in 0 .. n
          BY <2>4, <3>2
        <4>2. \A i \in 1 .. n : cells[i] = cut[i]
          BY <3>2
        <4> QED  BY <2>4, <2>5, <2>9, <3>3, <4>1, <4>2, SoundSame
      <3>5. wal'.pc = "recv" /\ wal'.open /\ wal'.next = (IF last.gen = gen' THEN last.seq + 1 ELSE 1) /\ wal'.late = FALSE
        <4> HIDE DEF last, cells, n, good
        <4>1. PICK b, x : /\ b = (seg # None) /\ x = (IF last.gen = gen' THEN last.seq + 1 ELSE 1)
                          /\ wal' = [live EXCEPT !.open = b, !.next = x]
          BY <2>9, Zenon
        <4>2. wal'.pc = "recv" /\ wal'.open = b /\ wal'.next = x /\ wal'.late = FALSE
          BY <4>1 DEF Ended
        <4> QED  BY <2>9, <4>1, <4>2, Zenon
      <3>6. Continues'
        <4>1. CASE n = 0
          <5>1. cut = <<>> /\ last.gen # gen'
            BY <2>1, <2>2, <3>2, <4>1
          <5> HIDE DEF last
          <5> QED  BY <3>3, <3>5, <5>1, Zenon DEF Continues
        <4>2. CASE n # 0
          <5>1. PICK l : l = cells[n] /\ l = last /\ l = cut[n] /\ cut # <<>> /\ l \in Cell
            <6> HIDE DEF cells
            <6> QED  BY <2>4, <3>2, <4>2
          <5>2. l.gen <= gen' /\ l.gen \in Nat
            <6>1. l.gen <= gen'
              <7> HIDE DEF last, cells, n
              <7> QED  BY <2>1, <2>9, <5>1
            <6> HIDE DEF last, cells, n
            <6> QED  BY <5>1, <6>1 DEF Cell, Damage
          <5>3. (l.gen = gen' /\ wal'.next = l.seq + 1) \/ (l.gen < gen' /\ wal'.next = 1)
            <6> HIDE DEF last, cells, n
            <6>1. wal'.next = IF l.gen = gen' THEN l.seq + 1 ELSE 1
              BY <3>5, <5>1, Zenon
            <6> QED  BY <2>1, <2>2, <5>2, <6>1
          <5>4. seg'.cells # <<>> /\ seg'.cells[Len(seg'.cells)] = l
            BY <3>2, <3>3, <5>1, Zenon
          <5> HIDE DEF last, cells, n
          <5> QED  BY <5>3, <5>4, Zenon DEF Continues
        <4> QED  BY <4>1, <4>2
      <3>7. Len(seg'.cells) = n
        BY <3>2, <3>3, Zenon
      <3> HIDE DEF cells, n, good, last, live
      <3>8. Sound(seg'.cells, seg'.safe) /\ Sound(seg'.cells, Len(seg'.cells))
        BY <3>3, <3>4, <3>7, Zenon
      <3>9. wal'.pc \notin {"sync", "append", "walsync"}
        BY <3>5
      <3> QED  BY <3>5, <3>6, <3>8, <3>9, Zenon DEF LogSays
    <2>10. CASE /\ good
                /\ seg' = IF seg = None THEN None ELSE [seg EXCEPT !.cells = SubSeq(cells, 1, n), !.safe = MinOf(@, n)]
                /\ wal' = [live EXCEPT !.open = seg # None, !.next = IF last.gen = gen' THEN last.seq + 1 ELSE 1]
      <3> HIDE DEF cells, n, good, last, live
      <3> QED  BY <2>8, <2>9, <2>10
    <2> HIDE DEF cells, n, good, last, live
    <2> QED  BY <2>1, <2>6, <2>7, <2>10, Zenon
  \* What a crash makes of the log.
  <1>CrashLog. ASSUME NEW kind \in CrashKinds, Crash(kind)
               PROVE  LogSays'
    <2> USE <1>CrashLog
    <2>0. FilesTyped /\ LogTyped /\ WriterTyped
      BY DEF CopyInv
    <2>1. /\ wal' = Ended
          /\ \E s : /\ Torned(s)
                    /\ \/ kind = "process" /\ seg' = s
                       \/ kind = "power" /\ seg' \in IF s = None THEN {None} ELSE SegmentsAfterLoss(s)
      BY <2>0, CrashIs
    <2>2. PICK s : /\ Torned(s)
                   /\ \/ seg' = s
                      \/ seg' = None
                      \/ kind = "power" /\ s # None /\ seg' \in SegmentsAfterLoss(s)
      BY <2>1
    <2>3. s # None => s \in Log /\ s.safe <= Len(s.cells)
      BY <2>0, <2>2, TornedTyped, Zenon
    <2>4. SegmentSays(s)
      <3>1. CASE s = seg
        BY <3>1, Zenon DEF LogSays, SegmentSays, TornEnd
      <3>2. ASSUME NEW t \in Torn(Encoded(wal)), wal.pc = "append", s = [Segment(wal) EXCEPT !.cells = @ \o t]
            PROVE  SegmentSays(s)
        <4>1. ThreadTyped(wal) /\ gen \in Nat \ {0}
          BY <2>0, <3>2 DEF WriterTyped, FilesTyped
        <4>2. Encoded(wal) \in Seq(Cell)
          BY <4>1, EncodedIs, Zenon
        <4>3. t \in Seq(Cell) /\ \E n \in 0 .. Len(Encoded(wal)) : t = SubSeq(Encoded(wal), 1, n) \/ t = SubSeq(Encoded(wal), 1, n) \o <<Damage("torn")>>
          BY <3>2, <4>2, TornIs, Zenon
        <4>4. s.cells = Segment(wal).cells \o t /\ s.safe = Segment(wal).safe
          <5>1. Segment(wal) \in Log /\ Segment(wal).safe <= Len(Segment(wal).cells)
            BY SegmentIs DEF CopyInv
          <5> QED  BY <3>2, <4>3, <5>1, LongerLog, Zenon
        <4>5. Sound(s.cells, Segment(wal).safe) /\ TornEnd(s.cells)
          BY <3>2, <4>3, <4>4, <1>AppendSays, Zenon
        <4> QED  BY <4>4, <4>5, Zenon DEF SegmentSays
      <3> QED  BY <2>2, <3>1, <3>2, Zenon DEF Torned
    <2>5. SegmentSays(seg)'
      <3>1. CASE seg' = s
        BY <2>4, <3>1, Zenon DEF SegmentSays
      <3>2. CASE seg' = None
        BY <3>2, Zenon DEF SegmentSays
      <3>3. CASE kind = "power" /\ s # None /\ seg' \in SegmentsAfterLoss(s) /\ seg' # None
        <4>1. PICK r : r = seg'
          OBVIOUS
        <4>2. /\ r \in Log /\ r.safe = s.safe /\ r.safe <= Len(r.cells) /\ Len(r.cells) <= Len(s.cells)
              /\ \A i \in 1 .. Len(r.cells) : \/ r.cells[i] = s.cells[i]
                                              \/ i > s.safe /\ r.cells[i] \in {Damage("torn"), Damage("zero")}
          BY <2>3, <3>3, <4>1, SegmentLossIs, Zenon
        <4>3. r.cells \in Seq(Cell) /\ s.cells \in Seq(Cell) /\ s.safe \in Nat /\ Sound(s.cells, s.safe)
          BY <2>3, <2>4, <3>3, <4>2 DEF Log, SegmentSays
        <4>4. s.safe <= Len(s.cells) /\ s.safe <= Len(r.cells) /\ s.safe \in 0 .. s.safe /\ \A i \in 1 .. s.safe : s.cells[i] = r.cells[i]
          BY <2>3, <3>3, <4>2, <4>3
        <4>5. Sound(r.cells, s.safe)
          BY <4>3, <4>4, SoundSame
        <4>6. "power" \in CrashKinds
          BY <3>3
        <4> QED  BY <4>1, <4>2, <4>5, <4>6, Zenon DEF SegmentSays
      <3> QED  BY <2>2, <3>1, <3>2, <3>3, Zenon
    <2>6. wal'.pc = "ended" /\ wal'.late = FALSE
      BY <2>1 DEF Ended
    <2> QED  BY <2>5, <2>6, <1>LogClosed, Zenon
  <1>0. ThreadTyped(wal) /\ DOMAIN wal = DOMAIN Ended /\ wal.late = FALSE
    BY DEF CopyInv, WriterTyped, ThreadTyped, LogSays
  <1>1. ASSUME UNCHANGED <<seg, gen>>, wal' = wal \/ \E b : wal' = [wal EXCEPT !.abandoned = b] PROVE LogSays'
    <2>1. wal'.pc = wal.pc /\ wal'.open = wal.open /\ wal'.dead = wal.dead /\ wal'.next = wal.next /\ wal'.late = wal.late
      BY <1>0, <1>1 DEF Ended
    <2>2. wal'.pc \in {"sync", "append", "walsync"} => ~wal.dead
      BY <2>1, Zenon DEF LogSays
    <2> QED  BY <1>0, <1>1, <2>1, <2>2, <1>LogKept, Zenon
  <1>2. CASE BeginSink \/ SendMsg \/ StreamUnit \/ CheckLog \/ Complete \/ CloseAnswered \/ Publish \/ AbortSink
               \/ GiveUpSend \/ DropFile \/ \E f \in Files : PlanFile(f)
    <2>1. UNCHANGED <<seg, gen, wal>>
      BY <1>2, Zenon DEF BeginSink, SendMsg, StreamUnit, CheckLog, Complete, CloseAnswered, Publish, AbortSink,
                         GiveUpSend, DropFile, PlanFile
    <2> QED  BY <1>1, <2>1
  <1>3. CASE FinishLog \/ BeatFails
    <2>1. UNCHANGED <<seg, gen>> /\ (wal' = wal \/ \E b : wal' = [wal EXCEPT !.abandoned = b])
      BY <1>3, Zenon DEF FinishLog, BeatFails
    <2> QED  BY <1>1, <2>1
  <1>4. CASE JoinLog
    <2>1. wal' = Ended /\ seg' = seg
      BY <1>4 DEF JoinLog
    <2>2. wal'.pc = "ended" /\ wal'.late = FALSE
      BY <2>1 DEF Ended
    <2>3. SegmentSays(seg)'
      BY <2>1, Zenon DEF LogSays, SegmentSays, TornEnd
    <2> QED  BY <2>2, <2>3, <1>LogClosed, Zenon
  <1>5. CASE Done \/ UNCHANGED vars \/ \E f \in Files, k \in ChangeKinds : SourceChange(f, k)
    <2>1. UNCHANGED <<seg, gen, wal>>
      BY <1>5, Zenon DEF Done, vars, SourceChange
    <2> QED  BY <1>1, <2>1
  <1>6. CASE Writer
    BY <1>6, <1>ThreadLog, <1>AppendLog, <1>SyncLogSays, Zenon DEF Writer
  <1>7. CASE \E k \in CrashKinds : Crash(k)
    BY <1>7, <1>CrashLog, Zenon
  <1>8. CASE OpenLog
    BY <1>8, <1>OpenLogSays, Zenon
  <1> QED  BY <1>2, <1>3, <1>4, <1>5, <1>6, <1>7, <1>8, Zenon DEF Next, Main

\* What LogSays makes of a scan.
LEMMA LogSaysScans ==
    ASSUME LogConstants, CopyInv, LogSays
    PROVE  SyncedScans /\ LogScans /\ NothingAfterAbandon
  \* All of a sound log decodes, and it scans.
  <1>SoundScans. ASSUME NEW cells \in Seq(Cell), NEW n \in 0 .. Len(cells), Sound(cells, n)
                 PROVE  /\ Decoded(cells) >= n
                        /\ n = Len(cells) => Scan(cells) = "ok"
                        /\ n = Len(cells) - 1 /\ ~Decodes(cells[Len(cells)]) => Scan(cells) = "ok"
    <2> USE <1>SoundScans
    <2>1. /\ Decoded(cells) \in 0 .. Len(cells)
          /\ \A i \in 1 .. Decoded(cells) : Decodes(cells[i])
          /\ Decoded(cells) < Len(cells) => ~Decodes(cells[Decoded(cells) + 1])
      BY DecodedIs
    <2>2. PICK d \in 0 .. Len(cells) : d = Decoded(cells)
      BY <2>1
    <2>3. d >= n
      <3>1. SUFFICES ASSUME d < n PROVE FALSE
        OBVIOUS
      <3>2. d + 1 \in 1 .. n /\ d < Len(cells)
        BY <3>1
      <3> QED  BY <2>1, <2>2, <3>2 DEF Sound
    <2>4. ASSUME d = n, d >= Len(cells) - 1 PROVE Scan(cells) = "ok"
      <3>1. TrailingDamage(cells, d)
        BY <2>4 DEF TrailingDamage
      <3>2. \A i \in 1 .. d : InOrder(cells, i)
        BY <2>4 DEF Sound
      <3> QED  BY <2>2, <3>1, <3>2 DEF Scan
    <2>5. ASSUME n = Len(cells) PROVE Scan(cells) = "ok"
      BY <2>3, <2>4, <2>5
    <2>6. ASSUME n = Len(cells) - 1, ~Decodes(cells[Len(cells)]) PROVE Scan(cells) = "ok"
      <3>1. d # Len(cells)
        <4>1. SUFFICES ASSUME d = Len(cells) PROVE FALSE
          OBVIOUS
        <4>2. Len(cells) \in 1 .. d
          BY <2>6, <4>1
        <4> QED  BY <2>1, <2>2, <2>6, <4>2
      <3> QED  BY <2>3, <2>4, <2>6, <3>1
    <2> QED  BY <2>2, <2>3, <2>5, <2>6
  <1>1. ASSUME seg # None PROVE seg.cells \in Seq(Cell) /\ seg.safe \in 0 .. Len(seg.cells) /\ Sound(seg.cells, seg.safe)
    BY <1>1 DEF CopyInv, LogTyped, Log, LogSays
  <1>2. ASSUME seg # None
        PROVE  Scan(SubSeq(seg.cells, 1, seg.safe)) = "ok" /\ Decoded(seg.cells) >= seg.safe
    <2>1. PICK a \in Seq(Cell), n \in Nat : a = seg.cells /\ n = seg.safe /\ n \in 0 .. Len(a) /\ Sound(a, n)
      BY <1>1, <1>2
    <2>2. PICK b \in Seq(Cell) : b = SubSeq(a, 1, n) /\ Len(b) = n /\ \A i \in 1 .. n : b[i] = a[i]
      <3>1. SubSeq(a, 1, n) \in Seq(Cell) /\ Len(SubSeq(a, 1, n)) = n /\ \A i \in 1 .. n : SubSeq(a, 1, n)[i] = a[i]
        BY <2>1
      <3> QED  BY <3>1, Zenon
    <2>3. Sound(b, n)
      <3>1. n \in Nat /\ n <= Len(a) /\ n <= Len(b) /\ n \in 0 .. n /\ \A i \in 1 .. n : a[i] = b[i]
        BY <2>1, <2>2
      <3> QED  BY SMTT(60), <2>1, <3>1, SoundSame
    <2>4. Scan(b) = "ok"
      <3>1. n \in 0 .. Len(b) /\ n = Len(b)
        BY <2>2
      <3> QED  BY <2>3, <3>1, <1>SoundScans
    <2>5. Decoded(a) >= n
      BY <2>1, <1>SoundScans
    <2> QED  BY <2>1, <2>2, <2>4, <2>5, Zenon
  <1>3. SyncedScans
    BY <1>2, Zenon DEF SyncedScans
  <1>4. LogScans
    <2>1. SUFFICES ASSUME "power" \notin CrashKinds, seg # None PROVE Scan(seg.cells) = "ok"
      BY DEF LogScans
    <2>2. PICK a \in Seq(Cell) : a = seg.cells
      BY <1>1, <2>1
    <2>3. \/ Sound(a, Len(a))
          \/ a # <<>> /\ a[Len(a)] = Damage("torn") /\ Sound(a, Len(a) - 1)
      BY <2>1, <2>2, Zenon DEF LogSays
    <2>4. CASE Sound(a, Len(a))
      <3>1. Len(a) \in 0 .. Len(a)
        OBVIOUS
      <3> QED  BY <2>2, <2>4, <3>1, <1>SoundScans
    <2>5. CASE a # <<>> /\ a[Len(a)] = Damage("torn") /\ Sound(a, Len(a) - 1)
      <3>1. Len(a) - 1 \in 0 .. Len(a)
        BY <2>5
      <3>2. ~Decodes(a[Len(a)])
        BY <2>5 DEF Decodes, Damaged, Damage
      <3>3. Scan(a) = "ok"
        BY <2>5, <3>1, <3>2, <1>SoundScans
      <3> QED  BY <2>2, <3>3
    <2> QED  BY <2>3, <2>4, <2>5, Zenon
  <1>5. NothingAfterAbandon
    BY Zenon DEF LogSays, NothingAfterAbandon
  <1> QED  BY <1>3, <1>4, <1>5

(* The log scans: what was synced reads back in order whatever a crash     *)
(* makes of the rest; without power losses the whole log does, but for one *)
(* torn record at its end; and a flush that begins once the run is flagged *)
(* as abandoned appends nothing.  So a resume never sets a log aside for   *)
(* what a run itself appended.                                             *)
THEOREM LogAlwaysScans ==
    ASSUME LogConstants, "grow" \notin ChangeKinds
    PROVE  Spec => [](SyncedScans /\ LogScans /\ NothingAfterAbandon)
  <1>1. Init => DataInv /\ LogSays
    <2>1. ASSUME Init PROVE LogSays
      <3>1. seg = None /\ wal = Ended
        BY <2>1 DEF Init
      <3>2. wal.pc = "ended" /\ wal.late = FALSE
        BY <3>1 DEF Ended
      <3> QED  BY <3>1, <3>2 DEF LogSays
    <2> QED  BY <2>1, InitData
  <1>2. DataInv /\ LogSays /\ [Next]_vars => (DataInv /\ LogSays)'
    BY NextCopies, NextSinks, NextRecords, NextLog, Zenon DEF DataInv
  <1>3. DataInv /\ LogSays => SyncedScans /\ LogScans /\ NothingAfterAbandon
    BY LogSaysScans DEF DataInv
  <1> QED  BY <1>1, <1>2, <1>3, PTL DEF Spec

=============================================================================
