---------------------------- MODULE CheckpointLog ----------------------------
(***************************************************************************)
(* The chunk checkpoints of a tree copy: the write-ahead log of the        *)
(* workspace, its writer thread, the copy of a file that feeds it, and the *)
(* resume that trusts it again (wal/, checkpoint/ and stage_file of        *)
(* copy.rs).                                                               *)
(*                                                                         *)
(* A file is a sequence of units; Chunk units make one checkpointed chunk, *)
(* and the copy buffer holds one unit.  The digest of a chunk is the tuple *)
(* of its units.  The log is a sequence of cells: a record, or the damage  *)
(* a crash left where a record was being written.  A cell or a unit past   *)
(* `safe' has not been synced: a power loss may lose or damage it, the     *)
(* death of the process alone may not.                                     *)
(*                                                                         *)
(* Hashing is inline here (the only mode under Strict); the hashing worker *)
(* has its own module, HashWorker.  No record the sink builds comes near   *)
(* MAX_PAYLOAD, so the oversize refusal of a flush is left out.            *)
(***************************************************************************)
EXTENDS Integers, Sequences, Functions

CONSTANTS
    None,         \* no value: absent, not set
    Files,        \* the files of the tree that are long enough to be checkpointed
    InitLen,      \* the units of every source file at the start
    Chunk,        \* units per chunk (CHUNK_SIZE)
    RangeChunks,  \* chunks per Range record (CheckpointPolicy.range_chunks)
    FlushUnits,   \* units pending that start a flush (WalConfig.flush_bytes)
    Cap,          \* capacity of the channel (WalConfig.channel_cap)
    Strict,       \* TRUE for Durability::Strict
    Verify,       \* "chunks" or "full" (ResumeVerify)
    CrashKinds,   \* the crashes that may happen: "process", "power"
    ChangeKinds,  \* the source changes that may happen: "edit", "silent", "grow"
    MaxRuns,      \* bound on the runs of the operation
    MaxCrashes, MaxFaults, MaxChanges    \* bounds on crashes, I/O failures, source changes

VARIABLES
    src,      \* src[f]: the source's units and its modification stamp
    part,     \* part[f]: the partial file, or None
    dest,     \* dest[f]: what was published for f and what its run had read, or None
    seg,      \* the log segment wal/000001, or None
    gen,      \* the wal_generation of the operation's state record
    run,      \* the main thread of the current run
    chan,     \* the channel from the run to the writer thread
    wal,      \* the writer thread
    left      \* what remains of the bounds on crashes, failures and changes

vars == <<src, part, dest, seg, gen, run, chan, wal, left>>

Lost == 0            \* a unit whose content a power loss replaced
MinOf(a, b) == IF a < b THEN a ELSE b
Chunks(len) == (len + Chunk - 1) \div Chunk

\* The entries that are not of these files, in their order.
Without(entries, files) ==
    LET kept == {i \in DOMAIN entries : entries[i].file \notin files}
        at   == CHOOSE g \in UNION {[1 .. n -> kept] : n \in 0 .. Len(entries)} :
                   Range(g) = kept /\ \A i, j \in DOMAIN g : i < j => g[i] < g[j]
    IN  [i \in DOMAIN at |-> entries[at[i]]]

DigestOf(data, k) == SubSeq(data, k * Chunk + 1, MinOf((k + 1) * Chunk, Len(data)))

-----------------------------------------------------------------------------
(* Replay: scan indexes the log, load_file rebuilds one file's state.      *)

\* What a crash leaves in the place of a record: part of it, or zeros.
Damage(kind) == [gen |-> 0, seq |-> 0, file |-> None, body |-> [kind |-> kind]]
Damaged(c)   == c.body.kind \in {"torn", "zero"}

\* A range that decode_next accepts: chunk aligned, not empty, one digest per chunk.
Decodes(c) ==
    /\ ~Damaged(c)
    /\ c.body.kind = "range" =>
         /\ c.body.start % Chunk = 0
         /\ c.body.end > c.body.start
         /\ Len(c.body.digests) = Chunks(c.body.end - c.body.start)

\* The number of leading cells that decode.
Decoded(cells) ==
    CHOOSE n \in 0 .. Len(cells) :
        /\ \A i \in 1 .. n : Decodes(cells[i])
        /\ n < Len(cells) => ~Decodes(cells[n + 1])

\* What the scan cuts: zeros to the end, or one damaged record that ends the log.
TrailingDamage(cells, n) ==
    \/ Len(cells) <= n + 1
    \/ \A i \in n + 1 .. Len(cells) : cells[i] = Damage("zero")

InOrder(cells, i) ==
    IF i = 1 THEN cells[1].seq = 1
    ELSE \/ cells[i].gen = cells[i - 1].gen /\ cells[i].seq = cells[i - 1].seq + 1
         \/ cells[i].gen > cells[i - 1].gen /\ cells[i].seq = 1

\* "ok", or why the segment is not usable.
Scan(cells) ==
    LET n == Decoded(cells)
    IN  IF ~TrailingDamage(cells, n) THEN "corrupt"
        ELSE IF \A i \in 1 .. n : InOrder(cells, i) THEN "ok" ELSE "corrupt"

\* The state a file's records leave, applied in order: its last FileBegin and the
\* digests in force.  A FileBegin keeps the digests below its valid_through.
ApplyRecord(st, body) ==
    IF body.kind = "begin"
    THEN [begin |-> body,
          digests |-> [k \in {j \in DOMAIN st.digests : j * Chunk < body.through} |-> st.digests[k]]]
    ELSE IF st.begin = None THEN st
    ELSE LET first == body.start \div Chunk
             added == first .. first + Len(body.digests) - 1
         IN  [st EXCEPT !.digests =
                [k \in DOMAIN st.digests \cup added |->
                    IF k \in added THEN body.digests[k - first + 1] ELSE st.digests[k]]]

LoadFile(cells, f) ==
    LET after[n \in 0 .. Len(cells)] ==
          IF n = 0 THEN [begin |-> None, digests |-> <<>>]
          ELSE IF cells[n].file = f THEN ApplyRecord(after[n - 1], cells[n].body)
          ELSE after[n - 1]
    IN  after[Len(cells)]

-----------------------------------------------------------------------------
(* The resume decision: how many units of the partial to keep, and the     *)
(* source units already read past them (carry).                            *)

Fresh == [keep |-> 0, carry |-> <<>>]

\* mutant: the source is not re-read, only the partial is compared with the recorded digest
Decide_partial_only(st, s, p) ==
    IF st.begin = None \/ p = None \/ DOMAIN st.digests = {} THEN Fresh
    ELSE IF st.begin.len # Len(s.data) \/ st.begin.stamp # s.stamp THEN Fresh
    ELSE LET good(k) == k \in DOMAIN st.digests /\ k < Chunks(Len(p.data)) /\ DigestOf(p.data, k) = st.digests[k]
             stop == CHOOSE k \in 0 .. Chunks(Len(s.data)) : ~good(k) /\ \A j \in 0 .. k - 1 : good(j)
         IN  [keep |-> MinOf(stop * Chunk, Len(s.data)), carry |-> <<>>]

\* decide: both sides must match the recorded digest, chunk after chunk.
Decide(st, s, p) ==
    IF \/ st.begin = None
       \/ st.begin.len # Len(s.data)
       \/ st.begin.stamp # s.stamp
       \/ p = None
       \/ DOMAIN st.digests = {}
    THEN Fresh
    ELSE LET \* The loop leaves chunk k without reading it.  The chunk after the last digest has none, so
             \* the code's bound by the last digest needs no case of its own.
             ends(k) == \/ k = Chunks(Len(p.data))
                        \/ k \notin DOMAIN st.digests
                        \/ k * Chunk >= Len(s.data)
                        \/ Len(p.data) < MinOf((k + 1) * Chunk, Len(s.data))
             matches(k) ==
                 LET size == MinOf((k + 1) * Chunk, Len(s.data)) - k * Chunk
                 IN  /\ DigestOf(s.data, k) = st.digests[k]
                     /\ SubSeq(p.data, k * Chunk + 1, k * Chunk + size) = st.digests[k]
             stop == CHOOSE k \in 0 .. Chunks(Len(p.data)) :
                        /\ ends(k) \/ ~matches(k)
                        /\ \A j \in 0 .. k - 1 : ~ends(j) /\ matches(j)
         IN  [keep  |-> MinOf(stop * Chunk, Len(s.data)),
              carry |-> IF ends(stop) THEN <<>> ELSE DigestOf(s.data, stop)]

\* decide_full: the source is the only oracle; the log is not consulted.
DecideFull(s, p) ==
    IF p = None THEN Fresh
    ELSE LET ends(k) == \/ k * Chunk >= Len(s.data)
                        \/ Len(p.data) < MinOf((k + 1) * Chunk, Len(s.data))
             matches(k) ==
                 SubSeq(p.data, k * Chunk + 1, MinOf((k + 1) * Chunk, Len(s.data)))
                     = DigestOf(s.data, k)
             stop == CHOOSE k \in 0 .. Chunks(Len(s.data)) :
                        /\ ends(k) \/ ~matches(k)
                        /\ \A j \in 0 .. k - 1 : ~ends(j) /\ matches(j)
         IN  [keep  |-> MinOf(stop * Chunk, Len(s.data)),
              carry |-> IF ends(stop) THEN <<>> ELSE DigestOf(s.data, stop)]

\* plan_resume for a file of a run whose log was opened over `cells'.
PlanResume(cells, f) ==
    IF Verify = "chunks" THEN Decide(LoadFile(cells, f), src[f], part[f])
                         ELSE DecideFull(src[f], part[f])

-----------------------------------------------------------------------------
(* Types and initial state.                                                *)

Down == [pc |-> "down", todo |-> {}, file |-> None, log |-> FALSE, cells |-> <<>>,
         read |-> <<>>, carry |-> <<>>, seen |-> None, reused |-> 0, chunk |-> <<>>, index |-> 0,
         digests |-> <<>>, start |-> 0, out |-> <<>>, sink |-> "none", ack |-> None,
         err |-> None, lost |-> FALSE, gone |-> FALSE]

Ended == [pc |-> "ended", pending |-> <<>>, dups |-> {}, bad |-> {}, fault |-> FALSE,
          dead |-> FALSE, open |-> FALSE, created |-> FALSE, next |-> 1, abandoned |-> FALSE,
          batch |-> <<>>, late |-> FALSE, cont |-> "loop", closing |-> None]

Init ==
    /\ src  = [f \in Files |-> [data |-> [i \in 1 .. InitLen |-> i], stamp |-> 0]]
    /\ part = [f \in Files |-> None]
    /\ dest = [f \in Files |-> None]
    /\ seg  = None
    /\ gen  = 0
    /\ run  = [Down EXCEPT !.todo = Files]
    /\ chan = <<>>
    /\ wal  = Ended
    /\ left = [runs |-> MaxRuns, crashes |-> MaxCrashes, faults |-> MaxFaults, changes |-> MaxChanges]

Partial   == [data : Seq(Nat), safe : Nat]
BeginBody == [kind : {"begin"}, len : Nat, stamp : Nat, through : Nat]
RangeBody == [kind : {"range"}, start : Nat, end : Nat, digests : Seq(Seq(Nat))]
Body      == BeginBody \cup RangeBody
Entry     == [file : Files, body : Body]
Message   == [type : {"begin", "range"}, file : Files, body : Body]
                \cup [type : {"close", "discard"}, file : Files] \cup [type : {"stop"}]
Cell      == [gen : Nat \ {0}, seq : Nat \ {0}, file : Files, body : Body] \cup {Damage("torn"), Damage("zero")}
Log       == [cells : Seq(Cell), safe : Nat, named : BOOLEAN]

FilesTyped ==
    /\ src \in [Files -> [data : Seq(Nat), stamp : Nat]]
    /\ part \in [Files -> Partial \cup {None}]
    /\ \A f \in Files : part[f] # None => part[f].safe <= Len(part[f].data)
    /\ DOMAIN dest = Files
    /\ gen \in Nat
LogTyped ==
    /\ seg \in Log \cup {None}
    /\ seg # None => seg.safe <= Len(seg.cells)
RunTyped ==
    /\ DOMAIN run = DOMAIN Down
    /\ run.pc \in {"down", "next", "begin", "stream", "check", "await", "staged", "cleanup", "finish", "join"}
    /\ run.todo \subseteq Files /\ run.file \in Files \cup {None}
    /\ run.log \in BOOLEAN /\ run.cells \in Seq(Cell)
    /\ run.read \in Seq(Nat) /\ run.carry \in Seq(Nat) /\ run.reused \in Nat
    /\ run.chunk \in Seq(Nat) /\ run.index \in Nat /\ run.digests \in Seq(Seq(Nat)) /\ run.start \in Nat
    /\ run.out \in Seq(Message) /\ run.sink \in {"none", "on", "ended"}
    /\ run.ack \in {None, "ok", "fault"} /\ run.lost \in BOOLEAN /\ run.gone \in BOOLEAN
ThreadTyped(w) ==
    /\ DOMAIN w = DOMAIN Ended
    /\ w.pc \in {"recv", "flush", "sync", "append", "walsync", "ended"}
    /\ w.pending \in Seq(Entry) /\ w.batch \in Seq(Entry)
    /\ w.dups \subseteq Files /\ w.bad \subseteq Files
    /\ w.open \in BOOLEAN /\ w.dead \in BOOLEAN /\ w.fault \in BOOLEAN /\ w.abandoned \in BOOLEAN
    /\ w.created \in BOOLEAN /\ w.late \in BOOLEAN
    /\ w.next \in Nat \ {0} /\ w.cont \in {"loop", "close", "stop"}
WriterTyped ==
    /\ chan \in Seq(Message) /\ Len(chan) <= Cap
    /\ ThreadTyped(wal)
    /\ wal.pc # "ended" => gen # 0
    /\ wal.open => seg # None
    /\ wal.pc = "walsync" => wal.open

(* The type invariant.                                                     *)
TypeOK == FilesTyped /\ LogTyped /\ RunTyped /\ WriterTyped

-----------------------------------------------------------------------------
(* The run opens the log.                                                  *)

\* open_checkpoints: an adoption has raised the generation first (session.rs).  A log the scan
\* refuses, or one of a later generation, is set aside and a fresh one is started; any other
\* failure leaves the run without checkpoints.
OpenLog ==
    LET cells == IF seg = None THEN <<>> ELSE seg.cells
        n     == Decoded(cells)
        last  == IF n = 0 THEN [gen |-> 0, seq |-> 0] ELSE cells[n]
        good  == Scan(cells) = "ok" /\ last.gen <= gen + 1
        live  == [Ended EXCEPT !.pc = "recv"]
    IN
    /\ run.pc = "down" /\ left.runs > 0 /\ run.todo # {}
    /\ gen' = gen + 1
    /\ \/ /\ good
          /\ seg' = IF seg = None THEN None
                    ELSE [seg EXCEPT !.cells = SubSeq(cells, 1, n), !.safe = MinOf(@, n)]
          /\ wal' = [live EXCEPT !.open = seg # None,
                                 !.next = IF last.gen = gen' THEN last.seq + 1 ELSE 1]
          /\ run' = [run EXCEPT !.pc = "next", !.log = TRUE, !.cells = SubSeq(cells, 1, n)]
          /\ left' = [left EXCEPT !.runs = @ - 1]
       \/ /\ ~good
          /\ seg' = None
          /\ wal' = live
          /\ run' = [run EXCEPT !.pc = "next", !.log = TRUE]
          /\ left' = [left EXCEPT !.runs = @ - 1]
       \/ /\ left.faults > 0
          /\ run' = [run EXCEPT !.pc = "next"]
          /\ left' = [left EXCEPT !.runs = @ - 1, !.faults = @ - 1]
          /\ UNCHANGED <<seg, wal>>
    /\ UNCHANGED <<src, part, dest, chan>>

-----------------------------------------------------------------------------
(* The copy of one file (stage_file).                                      *)

\* Up to the open partial: the decision, then the reopened and cut partial, or a new one.
PlanFile(f) ==
    LET verdict == IF run.log THEN PlanResume(run.cells, f) ELSE Fresh
    IN
    /\ run.pc = "next" /\ f \in run.todo
    /\ part' = [part EXCEPT ![f] =
                  IF verdict.keep = 0 THEN [data |-> <<>>, safe |-> 0]
                  ELSE [data |-> SubSeq(@.data, 1, verdict.keep), safe |-> MinOf(@.safe, verdict.keep)]]
    /\ run' = [run EXCEPT !.pc = "begin", !.file = f, !.todo = @ \ {f},
                          !.seen = [len |-> Len(src[f].data), stamp |-> src[f].stamp],
                          !.reused = verdict.keep,
                          !.read = SubSeq(src[f].data, 1, verdict.keep), !.carry = verdict.carry]
    /\ UNCHANGED <<src, dest, seg, gen, chan, wal, left>>

RangeMsg(f, from, to, digs) ==
    [type |-> "range", file |-> f, body |-> [kind |-> "range", start |-> from, end |-> to, digests |-> digs]]

\* record_proven: one Range per RangeChunks chunks of the prefix decide_full proved.
ProvenRanges(f, keep, data) ==
    LET per == RangeChunks * Chunk
    IN  [g \in 1 .. (keep + per - 1) \div per |->
           LET from == (g - 1) * per
               to   == MinOf(g * per, keep)
           IN  RangeMsg(f, from, to, [i \in 1 .. Chunks(to - from) |-> DigestOf(data, (g - 1) * RangeChunks + i - 1)])]

\* FileSink::begin and record_proven; a Strict file registers a duplicate of its writer, which
\* may fail before anything is queued.
BeginSink ==
    LET f == run.file
        begin == [type |-> "begin", file |-> f,
                  body |-> [kind |-> "begin", len |-> run.seen.len, stamp |-> run.seen.stamp, through |-> run.reused]]
    IN
    /\ run.pc = "begin"
    /\ \/ /\ ~run.log
          /\ run' = [run EXCEPT !.pc = "stream"]
          /\ UNCHANGED left
       \/ /\ run.log
          /\ run' = [run EXCEPT !.pc = "stream", !.sink = "on",
                                !.index = Chunks(run.reused), !.start = run.reused,
                                !.out = <<begin>> \o IF Verify = "full" THEN ProvenRanges(f, run.reused, run.read) ELSE <<>>]
          /\ UNCHANGED left
       \/ /\ run.log /\ Strict /\ left.faults > 0
          /\ run' = [run EXCEPT !.pc = "cleanup", !.err = "data"]
          /\ left' = [left EXCEPT !.faults = @ - 1]
    /\ UNCHANGED <<src, part, dest, seg, gen, chan, wal>>

\* WalSender::send of the next queued message.
SendMsg ==
    /\ run.out # <<>> /\ ~run.gone /\ wal.pc # "ended" /\ Len(chan) < Cap
    /\ chan' = Append(chan, Head(run.out))
    /\ run' = [run EXCEPT !.out = Tail(@)]
    /\ UNCHANGED <<src, part, dest, seg, gen, wal, left>>

\* The sink after one more unit of the source: the hasher, and the Range a full set of digests makes.
Hashed(r, unit) ==
    LET chunk == Append(r.chunk, unit)
        full  == Len(chunk) = Chunk
        digs  == IF full THEN Append(r.digests, chunk) ELSE r.digests
        send  == full /\ Len(digs) >= RangeChunks
        end   == (r.index + 1) * Chunk
    IN  [r EXCEPT !.chunk = IF full THEN <<>> ELSE chunk,
                  !.index = IF full THEN @ + 1 ELSE @,
                  !.digests = IF send THEN <<>> ELSE digs,
                  !.start = IF send THEN end ELSE @,
                  !.out = IF send THEN <<RangeMsg(r.file, r.start, end, digs)>> ELSE <<>>,
                  !.pc = IF full THEN "check" ELSE "stream"]

\* One buffer: read (the carry first), written to the partial, then handed to the sink.
StreamUnit ==
    LET f == run.file
        unit == IF run.carry # <<>> THEN Head(run.carry) ELSE src[f].data[Len(run.read) + 1]
        r == [run EXCEPT !.read = Append(@, unit), !.carry = IF @ = <<>> THEN @ ELSE Tail(@)]
    IN
    /\ run.pc = "stream" /\ run.out = <<>>
    /\ run.carry # <<>> \/ Len(run.read) < Len(src[f].data)
    /\ \/ /\ part' = [part EXCEPT ![f].data = Append(@, unit)]
          /\ run' = IF run.sink = "on" THEN Hashed(r, unit) ELSE r
          /\ UNCHANGED left
       \/ /\ left.faults > 0
          /\ run' = [run EXCEPT !.pc = "cleanup", !.err = "data"]
          /\ left' = [left EXCEPT !.faults = @ - 1]
          /\ UNCHANGED part
    /\ UNCHANGED <<src, dest, seg, gen, chan, wal>>

\* After each completed chunk the sink asks the log for its fault.
CheckLog ==
    /\ run.pc = "check" /\ run.out = <<>>
    /\ run' = IF wal.fault THEN [run EXCEPT !.pc = "cleanup", !.err = "wal"] ELSE [run EXCEPT !.pc = "stream"]
    /\ UNCHANGED <<src, part, dest, seg, gen, chan, wal, left>>

\* FileSink::complete: the final short chunk, the last Range, and Close.
Complete ==
    LET f == run.file
        digs == IF run.chunk = <<>> THEN run.digests ELSE Append(run.digests, run.chunk)
        end  == run.index * Chunk + Len(run.chunk)
    IN
    /\ run.pc = "stream" /\ run.out = <<>> /\ run.carry = <<>>
    /\ Len(run.read) >= Len(src[f].data)
    /\ run' = IF run.sink = "none" THEN [run EXCEPT !.pc = "staged"]
              ELSE [run EXCEPT !.pc = "await", !.sink = "ended", !.chunk = <<>>, !.digests = <<>>,
                               !.out = (IF digs = <<>> THEN <<>> ELSE <<RangeMsg(f, run.start, end, digs)>>)
                                       \o <<[type |-> "close", file |-> f]>>]
    /\ UNCHANGED <<src, part, dest, seg, gen, chan, wal, left>>

\* The answer to Close; a fault is the log's when the log has one.
CloseAnswered ==
    /\ run.pc = "await" /\ run.ack # None
    /\ run' = IF run.ack = "ok" THEN [run EXCEPT !.pc = "staged"]
              ELSE [run EXCEPT !.pc = "cleanup", !.err = IF wal.fault THEN "wal" ELSE "data"]
    /\ UNCHANGED <<src, part, dest, seg, gen, chan, wal, left>>

\* The rest of stage_file and the publication: the Strict sync, the re-check of the source, the
\* rename.  A failure discards the partial.
Publish ==
    LET f == run.file
        same == Len(src[f].data) = run.seen.len /\ src[f].stamp = run.seen.stamp
    IN
    /\ run.pc = "staged"
    /\ \/ /\ same
          /\ dest' = [dest EXCEPT ![f] = [data |-> part[f].data, read |-> run.read]]
          /\ UNCHANGED left
       \/ ~same /\ UNCHANGED <<dest, left>>
       \/ /\ left.faults > 0
          /\ left' = [left EXCEPT !.faults = @ - 1]
          /\ UNCHANGED dest
    /\ part' = [part EXCEPT ![f] = None]
    /\ run' = [Down EXCEPT !.pc = "next", !.todo = run.todo, !.log = run.log, !.cells = run.cells]
    /\ UNCHANGED <<src, seg, gen, chan, wal>>

\* A beat that fails: once per buffer, while the channel is full, while an answer is awaited,
\* and before the publication.  The run's closure flags the log at that moment.
BeatFails ==
    /\ left.faults > 0 /\ ~run.lost
    /\ \/ run.pc \in {"stream", "check", "await", "cleanup", "join"} /\ run.out # <<>> /\ Len(chan) = Cap
       \/ run.pc \in {"stream", "next", "staged"} /\ run.out = <<>>
       \/ run.pc = "await" /\ run.out = <<>> /\ run.ack = None
    /\ left' = [left EXCEPT !.faults = @ - 1]
    /\ wal' = [wal EXCEPT !.abandoned = run.log]
    /\ run' = IF run.pc = "join" THEN [run EXCEPT !.lost = TRUE, !.out = <<>>, !.gone = TRUE]
              ELSE [run EXCEPT !.lost = TRUE, !.pc = "cleanup", !.err = "beat", !.out = <<>>,
                               !.sink = IF run.out # <<>> /\ Head(run.out).type = "begin" THEN "none" ELSE @]
    /\ UNCHANGED <<src, part, dest, seg, gen, chan>>

\* FileSink::abort: a sink that has not ended discards its pending records.  The message is
\* given up when the thread is gone or when the channel is full and the beat fails.
AbortSink ==
    /\ run.pc = "cleanup" /\ run.out = <<>> /\ run.sink = "on"
    /\ run' = [run EXCEPT !.sink = "ended",
                          !.out = IF wal.pc = "ended" \/ (run.lost /\ Len(chan) = Cap) THEN <<>>
                                  ELSE <<[type |-> "discard", file |-> run.file]>>]
    /\ UNCHANGED <<src, part, dest, seg, gen, chan, wal, left>>

GiveUpSend ==
    /\ run.pc = "cleanup" /\ run.out # <<>>
    /\ wal.pc = "ended" \/ (run.lost /\ Len(chan) = Cap)
    /\ run' = [run EXCEPT !.out = <<>>]
    /\ UNCHANGED <<src, part, dest, seg, gen, chan, wal, left>>

\* The end of a failed file: the partial stays for a log failure and for a lost lock, otherwise
\* it is removed.  A log or lock failure ends the walk, any other failure only the file.
DropFile ==
    LET f == run.file
        stops == run.err \in {"wal", "beat"}
    IN
    /\ run.pc = "cleanup" /\ run.out = <<>> /\ run.sink # "on"
    /\ part' = IF f = None \/ run.err = "wal" \/ run.lost THEN part ELSE [part EXCEPT ![f] = None]
    /\ run' = [Down EXCEPT !.pc = IF stops THEN "finish" ELSE "next", !.todo = IF stops THEN {} ELSE run.todo,
                           !.log = run.log, !.cells = run.cells, !.lost = run.lost]
    /\ UNCHANGED <<src, dest, seg, gen, chan, wal, left>>

\* Checkpoints::finish sends Stop; a run that lost its lock drops the sender instead (abandon).
FinishLog ==
    /\ run.pc = "finish" \/ (run.pc = "next" /\ run.todo = {})
    /\ IF run.lost \/ ~run.log
       THEN run' = [run EXCEPT !.pc = "join", !.gone = TRUE] /\ wal' = [wal EXCEPT !.abandoned = TRUE]
       ELSE run' = [run EXCEPT !.pc = "join", !.out = <<[type |-> "stop"]>>] /\ UNCHANGED wal
    /\ UNCHANGED <<src, part, dest, seg, gen, chan, left>>

Unpublished == {f \in Files : dest[f] = None}

\* The writer thread is joined and the run ends; what it did not publish is left to a resume.
JoinLog ==
    /\ run.pc = "join" /\ run.out = <<>> /\ wal.pc = "ended"
    /\ run' = [Down EXCEPT !.todo = Unpublished]
    /\ chan' = <<>>
    /\ wal' = Ended
    /\ UNCHANGED <<src, part, dest, seg, gen, left>>

-----------------------------------------------------------------------------
(* The writer thread (writer.rs).                                          *)

Abandon(w) == [w EXCEPT !.pending = <<>>, !.dups = {}]

\* mutant: a log that died does not answer Close
Continue_silent(w, r) ==
    /\ wal' = CASE w.cont = "loop"  -> [w EXCEPT !.pc = "recv"]
                [] w.cont = "close" -> [w EXCEPT !.pc = "recv", !.dups = @ \ {w.closing}, !.cont = "loop", !.closing = None]
                [] w.cont = "stop"  -> [w EXCEPT !.pc = "ended", !.dups = {}]
    /\ run' = IF w.cont = "close" /\ ~w.dead
              THEN [r EXCEPT !.ack = IF w.closing \in w.bad THEN "fault" ELSE "ok"] ELSE r

\* Where a flush returns to: the loop, the answer to Close, or the end.
Continue(w, r) ==
    /\ wal' = CASE w.cont = "loop"  -> [w EXCEPT !.pc = "recv"]
                [] w.cont = "close" -> [w EXCEPT !.pc = "recv", !.dups = @ \ {w.closing}, !.cont = "loop", !.closing = None]
                [] w.cont = "stop"  -> [w EXCEPT !.pc = "ended", !.dups = {}]
    /\ run' = IF w.cont = "close"
              THEN [r EXCEPT !.ack = IF w.closing \in w.bad \/ w.fault THEN "fault" ELSE "ok"]
              ELSE r

PendingUnits(w) ==
    SumFunction([i \in DOMAIN w.pending |->
                   LET body == w.pending[i].body IN IF body.kind = "range" THEN body.end - body.start ELSE 0])

Push(w, m) == [w EXCEPT !.pending = Append(@, [file |-> m.file, body |-> m.body])]

\* The loop after a message: flush when enough is pending.  (The timer is FlushTimer.)
Looped(w) == IF PendingUnits(w) >= FlushUnits THEN [w EXCEPT !.pc = "flush", !.cont = "loop"] ELSE w

Receive ==
    LET m == Head(chan) IN
    /\ wal.pc = "recv" /\ chan # <<>>
    /\ chan' = Tail(chan)
    /\ IF wal.abandoned
       THEN wal' = [Abandon(wal) EXCEPT !.pc = "ended"] /\ UNCHANGED run
       ELSE CASE m.type = "begin" ->
                   /\ wal' = IF wal.dead THEN wal
                             ELSE Looped(Push([wal EXCEPT !.dups = IF Strict THEN @ \cup {m.file} ELSE @ \ {m.file},
                                                          !.bad = @ \ {m.file}], m))
                   /\ UNCHANGED run
              [] m.type = "range" ->
                   /\ wal' = IF wal.dead THEN wal ELSE Looped(Push(wal, m))
                   /\ UNCHANGED run
              [] m.type = "close" ->
                   LET w == [wal EXCEPT !.cont = "close", !.closing = m.file]
                   IN  IF \E i \in DOMAIN wal.pending : wal.pending[i].file = m.file
                       THEN wal' = [w EXCEPT !.pc = "flush"] /\ UNCHANGED run
                       ELSE Continue(w, run)
              [] m.type = "discard" ->
                   /\ wal' = Looped([wal EXCEPT !.pending = Without(@, {m.file}), !.dups = @ \ {m.file}])
                   /\ UNCHANGED run
              [] m.type = "stop" ->
                   /\ wal' = [wal EXCEPT !.pc = "flush", !.cont = "stop"]
                   /\ UNCHANGED run
    /\ UNCHANGED <<src, part, dest, seg, gen, left>>

\* recv_timeout ran out with records pending, or the check after a message found the timer due.
FlushTimer ==
    /\ wal.pc = "recv" /\ wal.pending # <<>>
    /\ wal' = IF wal.abandoned THEN [Abandon(wal) EXCEPT !.pc = "ended"] ELSE [wal EXCEPT !.pc = "flush", !.cont = "loop"]
    /\ UNCHANGED <<src, part, dest, seg, gen, run, chan, left>>

\* The sender is gone and the channel is empty.
Disconnected ==
    /\ wal.pc = "recv" /\ chan = <<>> /\ run.gone
    /\ wal' = [Abandon(wal) EXCEPT !.pc = "ended"]
    /\ UNCHANGED <<src, part, dest, seg, gen, run, chan, left>>

\* mutant: the log goes on after a failed append
FailWal_goes_on(w) == [w EXCEPT !.fault = TRUE, !.pending = <<>>, !.batch = <<>>]

\* The log is dead: every later message and flush is ignored.
FailWal(w) == [w EXCEPT !.fault = TRUE, !.dead = TRUE, !.dups = {}, !.open = FALSE, !.pending = <<>>, !.batch = <<>>]

\* flush, first part: nothing begins once the run is abandoned or the log is dead.
BeginFlush ==
    /\ wal.pc = "flush"
    /\ IF wal.abandoned THEN Continue(Abandon(wal), run)
       ELSE IF wal.dead \/ wal.pending = <<>> THEN Continue([wal EXCEPT !.pending = <<>>], run)
       ELSE /\ wal' = [wal EXCEPT !.pc = "sync", !.batch = wal.pending, !.pending = <<>>, !.late = wal.abandoned]
            /\ UNCHANGED run
    /\ UNCHANGED <<src, part, dest, seg, gen, chan, left>>

\* mutant: the duplicates are not synced
SyncedParts_not(files) == part

\* The partials after the duplicates of `files' were synced.
SyncedParts(files) ==
    [f \in Files |-> IF f \in files /\ part[f] # None THEN [part[f] EXCEPT !.safe = Len(part[f].data)] ELSE part[f]]

\* Data before checkpoint: under Strict each file's duplicate is synced; a file that has none,
\* or whose sync fails now or failed before, gets no record.
SyncData ==
    LET files == {wal.batch[i].file : i \in DOMAIN wal.batch} IN
    /\ wal.pc = "sync"
    /\ \E failed \in IF Strict /\ left.faults > 0 THEN SUBSET (files \cap wal.dups) ELSE {{}} :
         LET bad  == wal.bad \cup failed \cup (IF Strict THEN files \ wal.dups ELSE {})
             keep == Without(wal.batch, bad)
             w    == [wal EXCEPT !.bad = bad, !.batch = keep]
         IN
         /\ part' = SyncedParts(IF Strict THEN files \ bad ELSE {})
         /\ left' = [left EXCEPT !.faults = IF failed = {} THEN @ ELSE @ - 1]
         /\ IF keep = <<>> THEN Continue(w, run) ELSE wal' = [w EXCEPT !.pc = "append"] /\ UNCHANGED run
    /\ UNCHANGED <<src, dest, seg, gen, chan>>

\* The records a batch is encoded to.
Encoded(w) == [i \in DOMAIN w.batch |-> [gen |-> gen, seq |-> w.next + i - 1, file |-> w.batch[i].file, body |-> w.batch[i].body]]

\* What an append that does not finish leaves of its records.
Torn(recs) ==
    LET whole == {SubSeq(recs, 1, n) : n \in 0 .. Len(recs) - 1}
    IN  whole \cup {r \o <<Damage("torn")>> : r \in whole}

Segment(w) == IF w.open THEN seg ELSE [cells |-> <<>>, safe |-> 0, named |-> FALSE]

\* ensure_wal and the append: the segment is created by the first flush that has a record.
AppendRecords ==
    LET recs == Encoded(wal)
        s    == Segment(wal)
        done == [wal EXCEPT !.created = ~wal.open, !.open = TRUE, !.next = @ + Len(recs), !.batch = <<>>]
    IN
    /\ wal.pc = "append"
    /\ \/ /\ seg' = [s EXCEPT !.cells = @ \o recs]
          /\ IF Strict THEN wal' = [done EXCEPT !.pc = "walsync"] /\ UNCHANGED run
                       ELSE Continue([done EXCEPT !.created = FALSE], run)
          /\ UNCHANGED left
       \/ /\ left.faults > 0
          /\ left' = [left EXCEPT !.faults = @ - 1]
          /\ seg' \in {[s EXCEPT !.cells = @ \o t] : t \in Torn(recs)} \cup (IF wal.open THEN {} ELSE {seg})
          /\ Continue(FailWal(wal), run)
    /\ UNCHANGED <<src, part, dest, gen, chan>>

\* Strict: the log is synced, and the flush that created the segment syncs its directory entries.
SyncLog ==
    /\ wal.pc = "walsync"
    /\ \/ /\ seg' = [seg EXCEPT !.safe = Len(seg.cells), !.named = @ \/ wal.created]
          /\ Continue([wal EXCEPT !.created = FALSE], run)
          /\ UNCHANGED left
       \/ /\ left.faults > 0
          /\ left' = [left EXCEPT !.faults = @ - 1]
          /\ Continue(FailWal(wal), run)
          /\ UNCHANGED seg
    /\ UNCHANGED <<src, part, dest, gen, chan>>

-----------------------------------------------------------------------------
(* The environment: crashes and changes of the source.                     *)

\* A power loss: what was not synced is lost, damaged or kept, from its end or in the middle; an
\* entry that was never synced may be gone with its file.
SegmentsAfterLoss(s) ==
    LET ruined(n, d) == {[cells |-> [i \in 1 .. n |-> IF i \in D THEN Damage(d) ELSE s.cells[i]],
                          safe |-> s.safe, named |-> TRUE] : D \in SUBSET (s.safe + 1 .. n)}
    IN  (IF s.named THEN {} ELSE {None})
            \cup UNION {ruined(n, "torn") \cup ruined(n, "zero") : n \in s.safe .. Len(s.cells)}

PartialsAfterLoss(p) ==
    {None} \cup
    UNION {{[data |-> [i \in 1 .. n |-> IF i \in D THEN Lost ELSE p.data[i]], safe |-> n] :
              D \in SUBSET (p.safe + 1 .. n)} : n \in p.safe .. Len(p.data)}

\* The death of the process leaves the files as they are, an append in flight torn; a power loss
\* also loses what was not synced, the last writes of the state record among it (Normal).
Crash(kind) ==
    /\ left.crashes > 0
    /\ kind = "process" => run.pc # "down"
    /\ left' = [left EXCEPT !.crashes = @ - 1]
    /\ LET torn == IF wal.pc # "append" THEN {seg}
                   ELSE {seg} \cup {[Segment(wal) EXCEPT !.cells = @ \o t] : t \in Torn(Encoded(wal))}
       IN  \/ /\ kind = "process"
              /\ seg' \in torn
              /\ UNCHANGED <<part, gen>>
           \/ /\ kind = "power"
              /\ \E s \in torn : seg' \in IF s = None THEN {None} ELSE SegmentsAfterLoss(s)
              /\ \E f \in Files : part' \in {[part EXCEPT ![f] = p] : p \in IF part[f] = None THEN {None} ELSE PartialsAfterLoss(part[f])}
              /\ gen' \in IF Strict THEN {gen} ELSE 0 .. gen
    /\ run' = [Down EXCEPT !.todo = Unpublished]
    /\ chan' = <<>>
    /\ wal' = Ended
    /\ UNCHANGED <<src, dest>>

\* The source is edited (a new stamp), edited within one tick of its clock, or grows.
SourceChange(f, kind) ==
    /\ left.changes > 0 /\ dest[f] = None
    /\ left' = [left EXCEPT !.changes = @ - 1]
    /\ \/ /\ kind \in {"edit", "silent"}
          /\ \E i \in DOMAIN src[f].data :
               src' = [src EXCEPT ![f].data[i] = @ + 10, ![f].stamp = IF kind = "edit" THEN @ + 1 ELSE @]
       \/ /\ kind = "grow"
          /\ src' = [src EXCEPT ![f].data = Append(@, Len(@) + 1), ![f].stamp = @ + 1]
    /\ UNCHANGED <<part, dest, seg, gen, run, chan, wal>>

\* Every source file was published, or no run remains.
Finished == run.pc = "down" /\ (run.todo = {} \/ left.runs = 0)

Done == Finished /\ UNCHANGED vars

Main ==
    \/ OpenLog \/ BeginSink \/ SendMsg \/ StreamUnit \/ CheckLog \/ Complete \/ CloseAnswered
    \/ Publish \/ AbortSink \/ GiveUpSend \/ DropFile \/ FinishLog \/ JoinLog
    \/ \E f \in Files : PlanFile(f)

Writer == Receive \/ FlushTimer \/ Disconnected \/ BeginFlush \/ SyncData \/ AppendRecords \/ SyncLog

Next ==
    \/ Main \/ Writer \/ BeatFails \/ Done
    \/ \E k \in CrashKinds : Crash(k)
    \/ \E f \in Files, k \in ChangeKinds : SourceChange(f, k)

Spec == Init /\ [][Next]_vars

-----------------------------------------------------------------------------
(* Properties.                                                             *)

(* What is published is, unit for unit, what its run read from the source: *)
(* the prefix a resume keeps (decide, decide_full), the carry and the      *)
(* streamed rest never mix two contents, whatever the log, a crash or a    *)
(* change of the source left behind.                                       *)
PublishedIsRead ==
    \A f \in Files : dest[f] # None => dest[f].data = dest[f].read

(* Data before checkpoint (flush under Strict): a range this run appended  *)
(* for the file it is copying describes chunks that are in the partial and *)
(* already synced, with exactly that content.                              *)
DataBeforeCheckpoint ==
    Strict /\ seg # None /\ run.file # None /\ run.pc # "down" =>
      \A i \in DOMAIN seg.cells :
        LET c == seg.cells[i] IN
        ~Damaged(c) /\ c.gen = gen /\ c.file = run.file /\ c.body.kind = "range" =>
          /\ c.body.end <= part[run.file].safe
          /\ \A j \in DOMAIN c.body.digests :
               c.body.digests[j] = DigestOf(SubSeq(part[run.file].data, 1, c.body.end), c.body.start \div Chunk + j - 1)

(* A file whose close the writer answered without a fault is described by  *)
(* the log completely: replaying it gives the digest of every chunk of the *)
(* partial, and of no other, synced under Strict.  Only a run that lost    *)
(* its lock may be answered without its records.                           *)
CompleteIsLogged ==
    run.pc = "staged" /\ run.log /\ ~wal.abandoned =>
      LET cells == IF Strict THEN SubSeq(seg.cells, 1, seg.safe) ELSE seg.cells
          st    == LoadFile(cells, run.file)
          data  == part[run.file].data
      IN  /\ st.begin # None
          /\ DOMAIN st.digests = 0 .. Chunks(Len(data)) - 1
          /\ \A k \in DOMAIN st.digests : st.digests[k] = DigestOf(data, k)

(* The records synced so far always scan: the sequence goes on correctly   *)
(* over runs, generations, torn tails and logs that died, so a resume      *)
(* never sets aside a log because of what a run itself appended.           *)
SyncedScans ==
    seg # None => /\ Scan(SubSeq(seg.cells, 1, seg.safe)) = "ok"
                  /\ Scan(seg.cells) = "ok" => Decoded(seg.cells) >= seg.safe

(* With crashes of the process only, the whole log always scans: a run     *)
(* that died in an append leaves at most one torn record at the end.       *)
LogScans ==
    "power" \notin CrashKinds /\ seg # None => Scan(seg.cells) = "ok"

(* A flush that begins after the run was flagged as abandoned appends      *)
(* nothing (mark_abandoned; ruling 11).                                    *)
NothingAfterAbandon == wal.pc \in {"append", "walsync"} => ~wal.late

-----------------------------------------------------------------------------
(* What holds on the way: the inductive invariants behind the properties.  *)

\* What a proof needs to know of the constants.
LogConstants ==
    /\ None \notin Files /\ None \notin Partial /\ None \notin Log
    /\ InitLen \in Nat /\ Chunk \in Nat \ {0} /\ RangeChunks \in Nat \ {0} /\ Cap \in Nat

(* While a file is copied its partial is, unit for unit, what was read.    *)
CopySays ==
    /\ run.pc \in {"down", "next", "finish", "join"} => run.file = None
    /\ run.pc \in {"begin", "stream", "check", "await", "staged"} => run.file # None
    /\ run.sink = "on" => run.file # None
    /\ run.file # None => /\ part[run.file] # None /\ part[run.file].data = run.read
                          /\ run.file \notin run.todo /\ run.seen \in [len : Nat, stamp : Nat]

\* The digests are those of the whole chunks of `read' from `start' on.
Tiles(read, digests, start) ==
    \A j \in 1 .. Len(digests) : digests[j] = SubSeq(read, start + (j - 1) * Chunk + 1, start + j * Chunk)

\* The digests of the whole chunks since `start', then the units of an unfinished one.
Hashing(read, chunk, index, digests, start) ==
    /\ Len(digests) <= index /\ start = (index - Len(digests)) * Chunk
    /\ Len(read) = index * Chunk + Len(chunk) /\ Len(chunk) < Chunk
    /\ chunk = SubSeq(read, index * Chunk + 1, Len(read))
    /\ Tiles(read, digests, start)

\* A file whose length ends inside a chunk has nothing left to hash; any other is hashed from a chunk on.
HashSays ==
    \/ Len(run.read) = InitLen /\ run.carry = <<>> /\ run.chunk = <<>> /\ run.digests = <<>>
    \/ Hashing(run.read, run.chunk, run.index, run.digests, run.start)

(* The sink of the file being copied, where no source grows.               *)
SinkSays ==
    /\ \A f \in Files : Len(src[f].data) = InitLen
    /\ run.pc \in {"down", "next", "begin"} =>
         run.sink = "none" /\ run.chunk = <<>> /\ run.digests = <<>> /\ run.out = <<>>
    /\ run.pc = "begin" => /\ run.reused = Len(run.read)
                           /\ run.reused % Chunk = 0 \/ (run.reused = InitLen /\ run.carry = <<>>)
    /\ run.pc \in {"stream", "check"} => run.sink # "ended"
    /\ run.pc = "finish" => run.out = <<>>
    /\ run.sink = "on" => HashSays

\* A range as the scan accepts it, and one that describes the units of `data'.
WellFormed(body) ==
    body.kind = "range" => /\ body.start % Chunk = 0 /\ body.end > body.start
                           /\ Len(body.digests) = Chunks(body.end - body.start)
Describes(body, data) ==
    body.kind = "range" =>
      /\ body.end <= Len(data)
      /\ \A j \in DOMAIN body.digests :
           body.digests[j] = SubSeq(data, body.start + (j - 1) * Chunk + 1, MinOf(body.start + j * Chunk, body.end))

\* A record of this run: of a file it has begun, and true of the one it is copying.
Fits(file, body) == file \notin run.todo /\ WellFormed(body) /\ (file = run.file => Describes(body, run.read))
Durable(file, body) == file = run.file /\ body.kind = "range" => body.end <= part[file].safe

(* Every record on its way from the sink to the log fits.  Under Strict it *)
(* is durable once its batch was synced.                                   *)
RecordsSay ==
    /\ \A m \in Range(run.out) \cup Range(chan) : m.type \in {"begin", "range"} => Fits(m.file, m.body)
    /\ \A e \in Range(wal.pending) \cup Range(wal.batch) : Fits(e.file, e.body)
    /\ run.pc = "down" => chan = <<>> /\ wal = Ended
    /\ Strict /\ wal.pc = "append" => \A e \in Range(wal.batch) : Durable(e.file, e.body)
    /\ Strict /\ seg # None => \A c \in Range(seg.cells) :
         ~Damaged(c) => /\ c.gen <= gen
                        /\ c.gen = gen /\ run.pc # "down" => Fits(c.file, c.body) /\ Durable(c.file, c.body)

\* The first n cells are records in order.
Sound(cells, n) == \A i \in 1 .. n : Decodes(cells[i]) /\ InOrder(cells, i)

\* The next record continues the log.
Continues ==
    IF seg.cells = <<>> THEN wal.next = 1
    ELSE LET last == seg.cells[Len(seg.cells)]
         IN  \/ last.gen = gen /\ wal.next = last.seq + 1
             \/ last.gen < gen /\ wal.next = 1

(* What was synced is sound; a log a run appends to is sound to its end.   *)
LogSays ==
    /\ seg # None => Sound(seg.cells, seg.safe)
    /\ wal.pc # "ended" /\ wal.open => Sound(seg.cells, Len(seg.cells)) /\ Continues
    /\ wal.pc # "ended" /\ ~wal.open /\ ~wal.dead => wal.next = 1
    /\ wal.pc \in {"sync", "append", "walsync"} => ~wal.dead
    /\ wal.late = FALSE
    /\ "power" \notin CrashKinds /\ seg # None =>
         \/ Sound(seg.cells, Len(seg.cells))
         \/ /\ seg.cells # <<>> /\ seg.cells[Len(seg.cells)] = Damage("torn")
            /\ Sound(seg.cells, Len(seg.cells) - 1)

(* An acknowledged Strict checkpoint is durable by name as well as by      *)
(* content.                                                                *)
AckedNameDurable ==
    Strict /\ run.pc = "staged" /\ run.ack = "ok" /\ ~wal.abandoned => seg.named
=============================================================================
