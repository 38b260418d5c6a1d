----------------------------- MODULE HashWorker -----------------------------
(***************************************************************************)
(* The hashing worker of a checkpointed file under Normal durability       *)
(* (checkpoint/worker.rs), the sink that feeds it (checkpoint/sink.rs) and *)
(* the log thread as both see it: a bounded channel, a fault that may      *)
(* appear at any moment, and an end once the run is flagged as abandoned.  *)
(*                                                                         *)
(* Three threads: the copy (main), the worker and the log.  One buffer     *)
(* holds one unit of the source.  The Pool buffers circulate: the copy's   *)
(* own, the queue of jobs, the worker's and the free list.                 *)
(***************************************************************************)
EXTENDS Integers, Sequences, FiniteSets

CONSTANTS
    Units, Chunk, RangeChunks, Start,    \* as in FileRecords
    Carry,        \* units after the prefix that the resume decision had already read
    Pool,         \* buffers of the file (POOL)
    Cap,          \* capacity of the channel to the log
    MaxFaults     \* bound on failing beats, reads, writes and log appends

ASSUME WorkerConstants ==
    /\ Units \in Nat /\ Start \in 0 .. Units /\ Carry \in 0 .. Units - Start
    /\ {Chunk, RangeChunks, Pool, Cap} \subseteq Nat \ {0}
    /\ Start % Chunk = 0 /\ Carry <= Chunk /\ MaxFaults \in Nat

VARIABLES
    main,     \* the copy thread: where it is and its sink
    work,     \* the worker thread
    jobs,     \* the queue of filled buffers (the unit each holds)
    free,     \* the number of buffers in the free list
    chan,     \* the channel to the log
    log,      \* what the log thread received
    wal,      \* the log thread: alive, faulty, told to abandon
    faults    \* failures that may still happen

vars == <<main, work, jobs, free, chan, log, wal, faults>>

R == INSTANCE FileRecords WITH sent <- log \o chan

-----------------------------------------------------------------------------
(* Hashing: ChunkHasher and the digests not yet sent.                      *)

\* The hashing state after one more unit, and the Range it completes, if any.
Hashed(h, unit) ==
    LET chunk == Append(h.chunk, unit)
        full  == Len(chunk) = Chunk
        digs  == IF full THEN Append(h.digests, chunk) ELSE h.digests
        send  == full /\ Len(digs) >= RangeChunks
        end   == (h.index + 1) * Chunk
    IN  [state |-> [chunk |-> IF full THEN <<>> ELSE chunk,
                    index |-> IF full THEN h.index + 1 ELSE h.index,
                    digests |-> IF send THEN <<>> ELSE digs,
                    start |-> IF send THEN end ELSE h.start],
         full  |-> full,
         range |-> IF send THEN <<R!Range(h.start, end, digs)>> ELSE <<>>]

NoHash == [chunk |-> <<>>, index |-> 0, digests |-> <<>>, start |-> 0]

\* complete: the final short chunk joins the digests and the last Range is made.
LastRange(h) ==
    LET digs == IF h.chunk = <<>> THEN h.digests ELSE Append(h.digests, h.chunk)
    IN  IF digs = <<>> THEN <<>> ELSE <<R!Range(h.start, h.index * Chunk + Len(h.chunk), digs)>>

-----------------------------------------------------------------------------
Init ==
    /\ main = [pc |-> "carry", written |-> Start, mode |-> "pending",
               hash |-> [chunk |-> <<>>, index |-> Start \div Chunk, digests |-> <<>>, start |-> Start],
               out |-> <<>>, ended |-> FALSE, open |-> FALSE, lost |-> FALSE, ok |-> FALSE, then |-> "carry", since |-> 0]
    /\ work = [pc |-> "none", hash |-> NoHash, range |-> <<>>, cancel |-> FALSE, faulted |-> FALSE, result |-> "none"]
    /\ jobs = <<>> /\ free = 0
    /\ chan = <<R!Begin>> /\ log = <<>>
    /\ wal  = [alive |-> TRUE, fault |-> FALSE, abandoned |-> FALSE, acked |-> FALSE]
    /\ faults = MaxFaults

(* The type invariant.                                                     *)
Messages == {R!Begin, R!Close, R!Discard} \cup [type : {"range"}, start : Nat, end : Nat, digests : Seq(Seq(Nat))]
HashStates == [chunk : Seq(Nat), index : Nat, digests : Seq(Seq(Nat)), start : Nat]
MainStates ==
    [pc : {"carry", "read", "written", "queue", "free", "send", "asked", "finish", "drop", "close", "ack",
           "abort", "join", "discard", "done"},
     written : Start .. Units, mode : {"pending", "inline", "worker"}, hash : HashStates, out : Seq(Messages),
     ended : BOOLEAN, open : BOOLEAN, lost : BOOLEAN, ok : BOOLEAN, then : {"carry", "read"}, since : Nat]
WorkStates ==
    [pc : {"none", "check", "recv", "send", "try", "ask", "fault", "result", "ended"}, hash : HashStates,
     range : Seq(Messages), cancel : BOOLEAN, faulted : BOOLEAN, result : {"none", "end", "fault"}]
LogStates == [alive : BOOLEAN, fault : BOOLEAN, abandoned : BOOLEAN, acked : BOOLEAN]
TypeOK ==
    /\ main \in MainStates /\ work \in WorkStates /\ wal \in LogStates
    /\ jobs \in Seq(1 .. Units) /\ Len(jobs) <= Pool /\ free \in 0 .. Pool
    /\ chan \in Seq(Messages) /\ Len(chan) <= Cap /\ log \in Seq(Messages)
    /\ faults \in Nat

\* The worker thread is not running: never spawned, or at its end.
Gone == work.pc \in {"none", "ended"}

-----------------------------------------------------------------------------
(* The copy thread.                                                        *)

\* Where a failure leads: a sink that has ended has nothing left to discard (abort is a no-op).
Fails(r) == [r EXCEPT !.pc = IF r.ended THEN "done" ELSE "abort", !.out = <<>>]

\* A unit hashed on this thread (wrote): its Range is sent, then the log is asked for its fault.
Inline(r, unit, back) ==
    LET h == Hashed(r.hash, unit)
    IN  [r EXCEPT !.hash = h.state, !.out = h.range,
                  !.pc = IF h.range # <<>> THEN "send" ELSE IF h.full THEN "asked" ELSE back, !.then = back]

\* The carry is written and hashed inline before the first buffer.
FeedCarry ==
    /\ main.pc = "carry"
    /\ main' = IF main.written < Start + Carry THEN Inline([main EXCEPT !.written = @ + 1], main.written + 1, "carry")
                                               ELSE [main EXCEPT !.pc = "read"]
    /\ UNCHANGED <<work, jobs, free, chan, log, wal, faults>>

\* One buffer is read and written; at the end of the source the sink completes.
ReadBuffer ==
    /\ main.pc = "read"
    /\ \/ /\ main' = IF main.written < Units THEN [main EXCEPT !.written = @ + 1, !.pc = "written"]
                     ELSE IF main.mode = "worker" THEN [main EXCEPT !.pc = "finish", !.ended = TRUE, !.open = FALSE]
                     ELSE [main EXCEPT !.pc = "close", !.ended = TRUE, !.out = LastRange(main.hash) \o <<R!Close>>]
          /\ UNCHANGED faults
       \/ faults > 0 /\ faults' = faults - 1 /\ main' = Fails(main)
    /\ UNCHANGED <<work, jobs, free, chan, log, wal>>

\* submit: the first one spawns the worker with a copy of the hashing state, or falls back to
\* inline; then the log's fault and the worker's are checked.
Submit ==
    /\ main.pc = "written"
    /\ \/ /\ main.mode = "pending"
          /\ work' = [work EXCEPT !.pc = "check", !.hash = main.hash]
          /\ free' = Pool - 1
          /\ main' = [main EXCEPT !.mode = "worker", !.open = TRUE, !.hash = NoHash]
       \/ /\ main.mode = "pending"
          /\ main' = [main EXCEPT !.mode = "inline"]
          /\ UNCHANGED <<work, free>>
       \/ /\ main.mode = "inline"
          /\ main' = Inline(main, main.written, "read")
          /\ UNCHANGED <<work, free>>
       \/ /\ main.mode = "worker"
          /\ main' = IF wal.fault \/ work.faulted THEN Fails(main) ELSE [main EXCEPT !.pc = "queue"]
          /\ UNCHANGED <<work, free>>
    /\ UNCHANGED <<jobs, chan, log, wal, faults>>

\* mutant: the buffer is handed over while the pool still lends one more
QueueJob_extra ==
    /\ main.pc = "queue"
    /\ IF Gone THEN main' = Fails(main) /\ UNCHANGED jobs
       ELSE /\ jobs' = Append(jobs, main.written)
            /\ main' = [main EXCEPT !.pc = "read", !.since = IF wal.fault THEN @ + 1 ELSE @]
    /\ UNCHANGED <<work, free, chan, log, wal, faults>>

\* Worker::submit: the queue holds Pool jobs, so it never blocks; it fails when the worker is gone.
QueueJob ==
    /\ main.pc = "queue"
    /\ IF Gone THEN main' = Fails(main) /\ UNCHANGED jobs
       ELSE /\ jobs' = Append(jobs, main.written)
            /\ main' = [main EXCEPT !.pc = "free", !.since = IF wal.fault THEN @ + 1 ELSE @]
    /\ UNCHANGED <<work, free, chan, log, wal, faults>>

\* recv_free: a buffer to read into, a timeout that checks the faults again, or no worker.
TakeFree ==
    /\ main.pc = "free"
    /\ \/ /\ free > 0
          /\ free' = free - 1 /\ main' = [main EXCEPT !.pc = "read"]
       \/ /\ free = 0 /\ (Gone \/ wal.fault \/ work.faulted)
          /\ main' = Fails(main) /\ UNCHANGED free
    /\ UNCHANGED <<work, jobs, chan, log, wal, faults>>

\* WalSender::send of the next message; it fails when the log thread is gone, and gives up when
\* the channel is full and the lock is lost.
SendNext ==
    /\ main.pc \in {"send", "close", "discard"} /\ main.out # <<>>
    /\ IF ~wal.alive \/ (main.lost /\ Len(chan) = Cap)
       THEN /\ main' = IF main.pc = "discard" THEN [main EXCEPT !.pc = "done", !.out = <<>>] ELSE Fails(main)
            /\ UNCHANGED chan
       ELSE /\ Len(chan) < Cap
            /\ chan' = Append(chan, Head(main.out))
            /\ main' = [main EXCEPT !.out = Tail(@),
                                    !.pc = CASE @ = "send" -> "asked"
                                             [] @ = "discard" -> "done"
                                             [] OTHER -> IF Len(main.out) = 1 THEN "ack" ELSE "close"]
    /\ UNCHANGED <<work, jobs, free, log, wal, faults>>

\* wrote, after a completed chunk: a dead log stops the file at once.
AskLog ==
    /\ main.pc = "asked"
    /\ main' = IF wal.fault THEN Fails(main) ELSE [main EXCEPT !.pc = main.then]
    /\ UNCHANGED <<work, jobs, free, chan, log, wal, faults>>

\* complete: the worker drained its queue and hands the hashing state back, or ended with a fault.
FinishWorker ==
    /\ main.pc = "finish" /\ work.pc = "ended"
    /\ main' = IF work.result = "end"
               THEN [main EXCEPT !.pc = "close", !.hash = work.hash, !.out = LastRange(work.hash) \o <<R!Close>>]
               ELSE Fails(main)
    /\ UNCHANGED <<work, jobs, free, chan, log, wal, faults>>

\* finish returned early and dropped the worker, which cancels and joins it.
DropWorker ==
    /\ main.pc = "drop" /\ Gone
    /\ main' = [main EXCEPT !.pc = "done"]
    /\ UNCHANGED <<work, jobs, free, chan, log, wal, faults>>

\* The answer to Close; the channel of the answer is gone with the log thread.
CloseAnswered ==
    /\ main.pc = "ack" /\ (wal.acked \/ ~wal.alive)
    /\ main' = [main EXCEPT !.pc = "done", !.ok = wal.acked /\ ~wal.fault]
    /\ UNCHANGED <<work, jobs, free, chan, log, wal, faults>>

\* abort: the worker is told to stop ...
Abort ==
    /\ main.pc = "abort"
    /\ main' = [main EXCEPT !.ended = TRUE, !.open = FALSE, !.pc = "join"]
    /\ work' = [work EXCEPT !.cancel = TRUE]
    /\ UNCHANGED <<jobs, free, chan, log, wal, faults>>

\* mutant: the pending records are discarded without waiting for the worker
JoinWorker_not ==
    /\ main.pc = "join"
    /\ main' = [main EXCEPT !.pc = "discard", !.out = <<R!Discard>>]
    /\ UNCHANGED <<work, jobs, free, chan, log, wal, faults>>

\* ... and joined, before the pending records are discarded.
JoinWorker ==
    /\ main.pc = "join" /\ Gone
    /\ main' = [main EXCEPT !.pc = "discard", !.out = <<R!Discard>>]
    /\ UNCHANGED <<work, jobs, free, chan, log, wal, faults>>

\* A beat fails: once per buffer, and in every wait.  The run's closure flags the log.
BeatFails ==
    /\ faults > 0 /\ ~main.lost
    /\ \/ main.pc = "free" /\ free = 0
       \/ main.pc = "read"
       \/ main.pc \in {"send", "close", "discard"} /\ Len(chan) = Cap
       \/ main.pc \in {"finish", "ack", "join"}
    /\ faults' = faults - 1
    /\ wal' = [wal EXCEPT !.abandoned = TRUE]
    /\ main' = [(CASE main.pc = "finish"              -> [main EXCEPT !.pc = "drop"]
                   [] main.pc \in {"join", "discard"} -> main
                   [] OTHER                           -> Fails(main)) EXCEPT !.lost = TRUE]
    /\ work' = IF main.pc = "finish" THEN [work EXCEPT !.cancel = TRUE] ELSE work
    /\ UNCHANGED <<jobs, free, chan, log>>

-----------------------------------------------------------------------------
(* The worker thread (State::run, State::send).                            *)

CheckCancel ==
    /\ work.pc = "check"
    /\ work' = [work EXCEPT !.pc = IF work.cancel THEN "ended" ELSE "recv"]
    /\ UNCHANGED <<main, jobs, free, chan, log, wal, faults>>

\* A job is hashed and its buffer goes back before any send can block.
HashJob ==
    LET h == Hashed(work.hash, Head(jobs)) IN
    /\ work.pc = "recv" /\ jobs # <<>>
    /\ jobs' = Tail(jobs) /\ free' = free + 1
    /\ work' = [work EXCEPT !.hash = h.state, !.range = h.range,
                            !.pc = IF h.range # <<>> THEN "send" ELSE IF h.full THEN "ask" ELSE "check"]
    /\ UNCHANGED <<main, chan, log, wal, faults>>

\* The queue is closed and drained: the hashing state goes back.
EndOfJobs ==
    /\ work.pc = "recv" /\ jobs = <<>> /\ ~main.open
    /\ work' = [work EXCEPT !.pc = "ended", !.result = "end"]
    /\ UNCHANGED <<main, jobs, free, chan, log, wal, faults>>

\* The flag is read before every attempt ...
CheckSend ==
    /\ work.pc = "send"
    /\ work' = [work EXCEPT !.pc = IF work.cancel THEN "ended" ELSE "try"]
    /\ UNCHANGED <<main, jobs, free, chan, log, wal, faults>>

\* ... and the attempt lands, finds the thread gone, or finds the channel full: then the log's
\* fault is asked for and the attempt is made again.
TrySend ==
    /\ work.pc = "try"
    /\ \/ /\ wal.alive /\ Len(chan) < Cap
          /\ chan' = Append(chan, Head(work.range))
          /\ work' = [work EXCEPT !.pc = "ask", !.range = <<>>]
       \/ /\ ~wal.alive \/ (Len(chan) = Cap /\ wal.fault)
          /\ work' = [work EXCEPT !.pc = "fault"]
          /\ UNCHANGED chan
       \/ /\ wal.alive /\ Len(chan) = Cap /\ ~wal.fault
          /\ work' = [work EXCEPT !.pc = "send"]
          /\ UNCHANGED chan
    /\ UNCHANGED <<main, jobs, free, log, wal, faults>>

\* After every chunk the log is asked for its fault.
AskFault ==
    /\ work.pc = "ask"
    /\ work' = [work EXCEPT !.pc = IF wal.fault THEN "fault" ELSE "check"]
    /\ UNCHANGED <<main, jobs, free, chan, log, wal, faults>>

RecordFault ==
    /\ work.pc = "fault"
    /\ work' = [work EXCEPT !.pc = "result", !.faulted = TRUE]
    /\ UNCHANGED <<main, jobs, free, chan, log, wal, faults>>

SendFault ==
    /\ work.pc = "result"
    /\ work' = [work EXCEPT !.pc = "ended", !.result = "fault"]
    /\ UNCHANGED <<main, jobs, free, chan, log, wal, faults>>

-----------------------------------------------------------------------------
(* The log thread, as the sink and the worker see it.                      *)

LogReceive ==
    /\ wal.alive /\ (chan # <<>> \/ wal.abandoned)
    /\ IF wal.abandoned THEN wal' = [wal EXCEPT !.alive = FALSE] /\ UNCHANGED <<chan, log>>
       ELSE /\ log' = Append(log, Head(chan)) /\ chan' = Tail(chan)
            /\ wal' = IF Head(chan) = R!Close THEN [wal EXCEPT !.acked = TRUE] ELSE wal
    /\ UNCHANGED <<main, work, jobs, free, faults>>

LogFails ==
    /\ wal.alive /\ ~wal.fault /\ faults > 0
    /\ wal' = [wal EXCEPT !.fault = TRUE]
    /\ faults' = faults - 1
    /\ UNCHANGED <<main, work, jobs, free, chan, log>>

Done == main.pc = "done" /\ Gone /\ (chan = <<>> \/ ~wal.alive) /\ UNCHANGED vars

Main == FeedCarry \/ ReadBuffer \/ Submit \/ QueueJob \/ TakeFree \/ SendNext \/ AskLog \/ FinishWorker \/ DropWorker
        \/ CloseAnswered \/ Abort \/ JoinWorker
Work == CheckCancel \/ HashJob \/ EndOfJobs \/ CheckSend \/ TrySend \/ AskFault \/ RecordFault \/ SendFault

Next == Main \/ Work \/ LogReceive \/ BeatFails \/ LogFails \/ Done

Spec == Init /\ [][Next]_vars

-----------------------------------------------------------------------------
(* Properties.                                                             *)

(* With or without a worker, the messages of a file are those FileRecords  *)
(* promises: the ranges in order, without a gap, with the digests of the   *)
(* chunks; Close only behind all of them; and no Range behind a Discard,   *)
(* although the worker may still be sending when the copy fails.           *)
SinkKeepsPromise == R!Spec

(* A buffer is lent once: the copy, the queue, the worker and the free     *)
(* list never hold more than Pool buffers, so the queue of Pool jobs never *)
(* blocks the copy.                                                        *)
PoolConserved ==
    main.mode = "worker" =>
      Len(jobs) + free + (IF main.pc \in {"read", "written", "queue"} THEN 1 ELSE 0) <= Pool

(* When the copy is done with the file its worker has ended: nothing of it *)
(* runs, or sends, behind complete and abort.                              *)
WorkerJoined == main.pc = "done" => Gone

(* A log fault stops the file within one buffer (submit): at most one more *)
(* is queued once the log has failed.                                      *)
StopsWithinOne == main.since <= 1

-----------------------------------------------------------------------------
(* The inductive invariant behind them.                                    *)

\* No buffer before there is a worker, nothing ends while the worker runs, and a
\* fault that was there when a buffer was queued keeps the next one out of the queue.
BuffersSay ==
    /\ main.mode # "worker" => work.pc = "none" /\ jobs = <<>> /\ free = 0 /\ main.since = 0
    /\ main.mode = "worker" => work.pc # "none"
    /\ main.pc \in {"queue", "free", "finish", "drop"} => main.mode = "worker"
    /\ main.pc \in {"carry", "send", "asked"} => main.mode # "worker"
    /\ main.pc \in {"close", "ack", "discard", "done"} => Gone
    /\ main.ended <=> main.pc \in {"finish", "drop", "close", "ack", "join", "discard", "done"}
    /\ main.open <=> main.mode = "worker" /\ ~main.ended
    /\ main.since > 0 => wal.fault
    /\ main.pc = "queue" => main.since = 0

\* The hashing state once n ranges are made: whole chunks behind the last range
\* wait as digests, and the units behind the last whole chunk in the open one.
HashSays(h, n) ==
    /\ Len(h.chunk) < Chunk /\ Len(h.digests) < RangeChunks
    /\ n \in Nat /\ h.start = Start + n * R!Span
    /\ h.index * Chunk = h.start + Len(h.digests) * Chunk
    /\ \A i \in 1 .. Len(h.chunk) : h.chunk[i] = h.index * Chunk + i
    /\ \A i \in 1 .. Len(h.digests) :
         Len(h.digests[i]) = Chunk /\ \A j \in 1 .. Chunk : h.digests[i][j] = h.start + (i - 1) * Chunk + j

\* The units hashed, and the messages the log was sent.
Until(h) == h.index * Chunk + Len(h.chunk)
Sent == log \o chan

\* What the copy has hashed itself is what it has written, and what it is about to
\* send is what comes next.
SinkSays ==
    /\ main.pc \in {"carry", "read", "written", "send", "asked"} /\ main.mode # "worker" =>
         /\ HashSays(main.hash, IF main.pc = "send" THEN Len(Sent) ELSE Len(Sent) - 1)
         /\ Until(main.hash) = IF main.pc = "written" THEN main.written - 1 ELSE main.written
    /\ main.pc \in {"carry", "send", "asked"} /\ main.then = "carry" =>
         main.mode = "pending" /\ main.written <= Start + Carry
    /\ main.pc = "carry" => main.then = "carry"
    /\ main.pc = "send" => main.out = <<R!RangeAt(Len(Sent))>> /\ Len(Sent) <= R!Ranges
    /\ main.pc = "close" => \/ main.out = <<R!Close>> /\ Len(Sent) = R!Ranges + 1
                            \/ main.out = <<R!RangeAt(Len(Sent)), R!Close>> /\ Len(Sent) = R!Ranges
    /\ main.pc = "discard" => main.out = <<R!Discard>>
    /\ main.pc \in {"written", "queue"} => main.written > Start
    /\ main.pc \notin {"ack", "done"} => R!Open
    /\ Len(Sent) > 0

\* The jobs in the queue are the units that come next, up to what the copy has written.
WorkSays ==
    /\ work.pc \in {"check", "recv", "send", "try", "ask"} \/ (work.result = "end" /\ main.pc = "finish") =>
         /\ HashSays(work.hash, IF work.pc \in {"send", "try"} THEN Len(Sent) ELSE Len(Sent) - 1)
         /\ \A i \in 1 .. Len(jobs) : jobs[i] = Until(work.hash) + i
         /\ main.pc \in {"read", "free", "finish"} => Until(work.hash) + Len(jobs) = main.written
         /\ main.pc \in {"written", "queue"} => Until(work.hash) + Len(jobs) = main.written - 1
         /\ Until(work.hash) + Len(jobs) <= Units
    /\ work.pc \in {"send", "try"} => work.range = <<R!RangeAt(Len(Sent))>> /\ Len(Sent) <= R!Ranges
    /\ work.result = "end" => work.pc = "ended" /\ jobs = <<>> /\ main.ended
    /\ main.pc = "finish" => main.written = Units

WorkerInv ==
    /\ TypeOK /\ BuffersSay /\ SinkSays /\ WorkSays
    /\ PoolConserved /\ WorkerJoined /\ StopsWithinOne
=============================================================================
