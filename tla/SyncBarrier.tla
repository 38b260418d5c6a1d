---------------------------- MODULE SyncBarrier ----------------------------
(***************************************************************************)
(* The data-sync barrier of a batch: `sync_staged_many` (copy.rs).         *)
(*                                                                         *)
(* Worker threads take indices from a shared counter, sync that writer and *)
(* send the result over a channel; the calling thread receives the results *)
(* and beats the lock whenever the barrier's clock passes a deadline on an *)
(* absolute grid.  The system may refuse any thread; with none started the *)
(* calling thread syncs the writers itself.  Time is a counter that moves  *)
(* on at any moment, so every step may be arbitrarily late.                *)
(***************************************************************************)
EXTENDS Naturals, Sequences, FiniteSets

CONSTANTS
    N,          \* the number of pending writers
    Threads,    \* the worker limit (BatchPolicy.sync_threads)
    BeatEvery,  \* the heartbeat interval, in clock units
    MaxNow,     \* bound: the clock stops here
    None

ASSUME NAssumption == N \in Nat /\ Threads \in Nat
ASSUME BeatAssumption == BeatEvery \in Nat \ {0} /\ MaxNow \in Nat
ASSUME NoneAssumption == None \notin {"ok", "failed"}

VARIABLES
    pc,         \* where the calling thread is
    spawned,    \* worker threads started
    next,       \* the shared index counter (AtomicUsize)
    worker,     \* each worker thread: its step, index and result
    chan,       \* the channel of (index, result), and its senders
    slots,      \* what the caller has received, per writer
    received,   \* how many results it has received
    at,         \* the writer the caller syncs next on the main-thread path
    now,        \* the clock
    deadline,   \* the next wake
    heartbeat,  \* the first beat failure, if one happened
    beats,      \* when the last beat was made, and by which count
    synced      \* what each writer's sync_all really answered

thread == <<spawned, next, worker>>
caller == <<pc, slots, received, at>>
clock  == <<now, deadline, heartbeat, beats>>
vars == <<thread, caller, clock, chan, synced>>

Writer == 0 .. N - 1
Answer == {"ok", "failed"}
Lesser(a, b) == IF a <= b THEN a ELSE b

\* One writer syncs on the calling thread whatever the limit is.
Workers == IF N = 1 THEN 0 ELSE Lesser(Threads, N)
Worker == 1 .. Workers

TypeOK ==
    /\ pc \in {"spawn", "serial", "wait", "join", "done"}
    /\ spawned \in 0 .. Workers
    /\ next \in Nat
    /\ worker \in [Worker -> [step : {"unborn", "fetch", "sync", "send", "ended"},
                              i : Nat, r : Answer \cup {None}]]
    /\ chan \in Seq(Writer \X Answer)
    /\ slots \in [Writer -> Answer \cup {None}]
    /\ received \in Nat /\ at \in Nat
    /\ now \in Nat /\ deadline \in Nat
    /\ heartbeat \in {None, "failed"}
    /\ beats \in [n : Nat, last : Nat]
    /\ synced \in [Writer -> Answer \cup {None}]

\* N = 0 returns at once with nothing in hand.
Init ==
    /\ pc = IF N = 0 THEN "done" ELSE "spawn"
    /\ spawned = 0 /\ next = 0
    /\ worker = [w \in Worker |-> [step |-> "unborn", i |-> 0, r |-> None]]
    /\ chan = << >>
    /\ slots = [i \in Writer |-> None] /\ received = 0 /\ at = 0
    /\ now = 0 /\ deadline = BeatEvery
    /\ heartbeat = None /\ beats = [n |-> 0, last |-> 0]
    /\ synced = [i \in Writer |-> None]

----------------------------------------------------------------------------
\* The caller starts its workers

\* The loop over 0..workers: one more thread, running at once.
Spawn ==
    /\ pc = "spawn" /\ spawned < Workers
    /\ spawned' = spawned + 1
    /\ worker' = [worker EXCEPT ![spawned + 1].step = "fetch"]
    /\ UNCHANGED <<next, chan, caller, clock, synced>>

\* mutant: a refused thread sends the caller to the main-thread path.
Started_refused(n) == pc' = IF n < Workers \/ n = 0 THEN "serial" ELSE "wait"

\* After the loop: the caller's own sender is dropped, and the path chosen by
\* how many threads there are.
Started(n) == pc' = IF n = 0 THEN "serial" ELSE "wait"

\* Every worker was started, or the system refused one and the loop breaks.
SpawnEnds ==
    /\ pc = "spawn"
    /\ Started(spawned)
    /\ deadline' = now + BeatEvery
    /\ UNCHANGED <<thread, slots, received, at, now, heartbeat, beats, chan, synced>>

----------------------------------------------------------------------------
\* A worker thread

\* fetch_add: the index this worker takes, or its end.
WorkerFetch(w) ==
    /\ worker[w].step = "fetch"
    /\ next' = next + 1
    /\ worker' = [worker EXCEPT ![w] = [step |-> IF next >= N THEN "ended" ELSE "sync",
                                        i |-> next, r |-> @.r]]
    /\ UNCHANGED <<spawned, chan, caller, clock, synced>>

\* sync_all on that writer, with whatever answer the system gives.
WorkerSync(w) ==
    /\ worker[w].step = "sync"
    /\ \E r \in Answer :
          /\ worker' = [worker EXCEPT ![w] = [step |-> "send", i |-> @.i, r |-> r]]
          /\ synced' = [synced EXCEPT ![worker[w].i] = r]
    /\ UNCHANGED <<spawned, next, chan, caller, clock>>

WorkerSend(w) ==
    /\ worker[w].step = "send"
    /\ worker' = [worker EXCEPT ![w].step = "fetch"]
    /\ chan' = Append(chan, <<worker[w].i, worker[w].r>>)
    /\ UNCHANGED <<spawned, next, caller, clock, synced>>

----------------------------------------------------------------------------
\* The calling thread

\* next_wake: the first point of the grid after t.
NextWake(d, t) == IF d > t THEN d ELSE d + (((t - d) \div BeatEvery) + 1) * BeatEvery

\* beat_if_due's body: one beat unless one has failed, which may itself take
\* time, then the first point of the grid after the beat's end.
BeatIfDue ==
    /\ now' \in {now, Lesser(now + 1, MaxNow)}
    /\ IF heartbeat = None
         THEN /\ \E e \in {None, "failed"} : heartbeat' = e
              /\ beats' = [n |-> beats.n + 1, last |-> now]
         ELSE UNCHANGED <<heartbeat, beats>>
    /\ deadline' = NextWake(deadline, now')

\* The main-thread path: sync the next writer, then beat if the deadline passed.
SerialSync ==
    /\ pc = "serial" /\ at < N
    /\ \E r \in Answer :
          /\ slots' = [slots EXCEPT ![at] = r]
          /\ synced' = [synced EXCEPT ![at] = r]
    /\ at' = at + 1
    /\ IF now >= deadline THEN BeatIfDue ELSE UNCHANGED clock
    /\ UNCHANGED <<pc, received, thread, chan>>

SerialEnds ==
    /\ pc = "serial" /\ at >= N
    /\ pc' = "join"
    /\ UNCHANGED <<slots, received, at, thread, clock, chan, synced>>

\* recv_timeout answers a waiting result before it looks at the clock.
Receive ==
    /\ pc = "wait" /\ received < N /\ chan # << >>
    /\ slots' = [slots EXCEPT ![Head(chan)[1]] = Head(chan)[2]]
    /\ received' = received + 1
    /\ chan' = Tail(chan)
    /\ UNCHANGED <<pc, at, thread, clock, synced>>

\* mutant: one thread that ends counts for all.
Disconnected_one == \E w \in 1 .. spawned : worker[w].step = "ended"

\* Every sender is gone: the threads that were started have ended.
Disconnected == \A w \in 1 .. spawned : worker[w].step = "ended"

Timeout ==
    /\ pc = "wait" /\ received < N /\ chan = << >> /\ ~Disconnected
    /\ now >= deadline
    /\ BeatIfDue
    /\ UNCHANGED <<caller, thread, chan, synced>>

WaitEnds ==
    /\ pc = "wait"
    /\ received >= N \/ (chan = << >> /\ Disconnected)
    /\ pc' = "join"
    /\ UNCHANGED <<slots, received, at, thread, clock, chan, synced>>

\* The scope joins every thread before the results are taken out of the slots.
Join ==
    /\ pc = "join" /\ Disconnected
    /\ pc' = "done"
    /\ UNCHANGED <<slots, received, at, thread, clock, chan, synced>>

\* Time passes whatever the threads do.
Pass ==
    /\ now < MaxNow
    /\ now' = now + 1
    /\ UNCHANGED <<deadline, heartbeat, beats, caller, thread, chan, synced>>

CallerStep ==
    \/ Spawn \/ SpawnEnds \/ SerialSync \/ SerialEnds
    \/ Receive \/ Timeout \/ WaitEnds \/ Join

WorkerStep(w) == WorkerFetch(w) \/ WorkerSync(w) \/ WorkerSend(w)

Next == CallerStep \/ Pass \/ \E w \in Worker : WorkerStep(w)

Spec == Init /\ [][Next]_vars

----------------------------------------------------------------------------
\* Properties

\* The `expect` that takes the results out never fails, and each result is the
\* one its own writer's sync gave: sync_staged_many's "every index is sent
\* exactly once", whichever threads were refused and in whatever order.
ResultsComplete ==
    pc = "done" => \A i \in Writer : slots[i] # None /\ slots[i] = synced[i]

\* No writer is synced twice, and no result is overwritten by another.
SyncedOnce ==
    [][\A i \in Writer : /\ synced[i] # None => synced'[i] = synced[i]
                         /\ slots[i] # None => slots'[i] = slots[i]]_vars

\* The interval of the barrier's grid that t is in.
Interval(t) == (t + BeatEvery - (deadline % BeatEvery)) \div BeatEvery

\* After one heartbeat failure no further beat is made, and no two beats fall
\* in one interval of the grid however long the caller was held up.
BeatsOnGrid ==
    [][beats' # beats => /\ heartbeat = None
                         /\ beats.n > 0 => Interval(now) > Interval(beats.last)]_vars

\* A stream of results never pushes the deadline back: it moves only when the
\* clock has reached it, or when the barrier starts its wait.
DeadlineKept == [][deadline' # deadline => pc = "spawn" \/ now >= deadline]_vars

\* The steps of the barrier: what was synced or answered stays so, beats keep to
\* the grid, and results do not push the deadline back.
BarrierSteps == SyncedOnce /\ BeatsOnGrid /\ DeadlineKept

----------------------------------------------------------------------------
\* The inductive invariant behind ResultsComplete

\* A worker that took an index and has not sent its result.
Busy(w) == worker[w].step \in {"sync", "send"}

\* The writers with a worker that is not through with them, or a result on its way.
Held(i) == \E w \in Worker : Busy(w) /\ worker[w].i = i
Queued(i) == \E k \in 1 .. Len(chan) : chan[k][1] = i

\* An index is with one worker or once in the channel, and its result is not
\* yet received; its sync has answered unless it is about to be made.
WorkersSay ==
    /\ \A w \in Worker : worker[w].step = "unborn" <=> spawned < w
    /\ \A w \in Worker : worker[w].step = "ended" => next >= N
    /\ \A w \in Worker : Busy(w) =>
         /\ worker[w].i < next /\ worker[w].i < N /\ slots[worker[w].i] = None
         /\ worker[w].step = "sync" => synced[worker[w].i] = None
         /\ worker[w].step = "send" => worker[w].r # None /\ synced[worker[w].i] = worker[w].r
         /\ \A k \in 1 .. Len(chan) : chan[k][1] # worker[w].i
    /\ \A w, v \in Worker : Busy(w) /\ Busy(v) /\ worker[w].i = worker[v].i => w = v
ChannelSays ==
    /\ \A k \in 1 .. Len(chan) : /\ chan[k][1] < next /\ slots[chan[k][1]] = None
                                 /\ synced[chan[k][1]] = chan[k][2]
    /\ \A k, l \in 1 .. Len(chan) : chan[k][1] = chan[l][1] => k = l

\* What was received is what was answered; with workers every index taken is
\* held, on its way or received, without them the caller goes through the
\* writers in order; and only a full set of slots is joined.
CallerSays ==
    /\ \A i \in Writer : slots[i] # None => slots[i] = synced[i]
    /\ spawned > 0 => \A i \in Writer : IF i < next THEN slots[i] # None \/ Held(i) \/ Queued(i)
                                                    ELSE slots[i] = None /\ synced[i] = None
    /\ spawned = 0 => /\ next = 0 /\ received = 0 /\ chan = << >> /\ at <= N
                      /\ \A i \in Writer : IF i < at THEN slots[i] # None
                                                     ELSE slots[i] = None /\ synced[i] = None
    /\ spawned > 0 => received = Cardinality({i \in Writer : slots[i] # None})
    /\ pc = "spawn" => at = 0 /\ N > 0
    /\ pc = "serial" => spawned = 0
    /\ pc = "wait" => spawned > 0
    /\ pc \in {"join", "done"} => \A i \in Writer : slots[i] # None

\* The last beat was made before the deadline in force: what keeps beats to the grid.
ClockSays ==
    /\ now <= MaxNow
    /\ pc = "spawn" => beats.n = 0
    /\ beats.n > 0 => beats.last < deadline

\* No index is lost or doubled between the shared counter, the workers, the
\* channel and the slots, whichever threads were refused: so the results are
\* complete when the barrier is done.
BarrierInv ==
    /\ TypeOK /\ WorkersSay /\ ChannelSays /\ CallerSays /\ ClockSays
    /\ ResultsComplete
=============================================================================
