---------------------------- MODULE WorkerProofs ----------------------------
(***************************************************************************)
(* The two places where a run starts threads and waits for them.           *)
(*                                                                         *)
(* The barrier of sync_staged_many is correct for any number of writers,   *)
(* any worker limit, any beat interval and however threads, refusals and   *)
(* the clock interleave: BarrierInv is inductive, so every writer's result *)
(* is in its slot when the barrier is done, and every step keeps what was  *)
(* synced and answered, and the grid of the heartbeats (BarrierSteps).     *)
(*                                                                         *)
(* build_two is safe for any families and any order of its threads: the    *)
(* invariant BuildInv is inductive, so no lane is cut under its writer,    *)
(* either every family is handed on or none, and the scratch space is      *)
(* poisoned exactly by a worker's own failure; and the listing thread ticks*)
(* between two waits and does not wait once a failure is joined.           *)
(***************************************************************************)
EXTENDS SyncBarrier, IndexBuild, FiniteSetTheorems, SequenceTheorems, TLAPS

\* A worker thread's step, index and result.
Step == {"unborn", "fetch", "sync", "send", "ended"}
Thread == [step : Step, i : Nat, r : Answer \cup {None}]

\* The slots that hold a result.
Filled == {i \in Writer : slots[i] # None}

----------------------------------------------------------------------------
(* Numbers, sets and the channel. *)

\* The worker threads are numbered by naturals.
LEMMA WorkersNat == Workers \in Nat /\ \A w \in Worker : w \in Nat /\ w >= 1 /\ w <= Workers
  BY NAssumption DEF Workers, Worker, Lesser

\* Filled is finite, and full when it counts N.
LEMMA FilledFinite ==
    ASSUME TypeOK
    PROVE  /\ IsFiniteSet(Filled) /\ Cardinality(Filled) \in Nat
           /\ Cardinality(Filled) >= N => \A i \in Writer : slots[i] # None
  <1>1. IsFiniteSet(Writer) /\ Cardinality(Writer) = N
    BY FS_Interval, NAssumption DEF Writer
  <1>2. Filled \in SUBSET Writer
    BY DEF Filled
  <1>3. /\ IsFiniteSet(Filled) /\ Cardinality(Filled) <= N
        /\ Cardinality(Filled) = N => Filled = Writer
    BY <1>1, <1>2, FS_Subset
  <1>4. Cardinality(Filled) \in Nat
    BY <1>3, FS_CardinalityType
  <1> QED  BY <1>3, <1>4, NAssumption DEF Filled

\* next_wake is after the time it is asked for, and not before the old deadline.
LEMMA NextWakeLater ==
    ASSUME NEW d \in Nat, NEW t \in Nat
    PROVE  NextWake(d, t) \in Nat /\ NextWake(d, t) > t /\ NextWake(d, t) >= d
  <1>1. CASE d > t
    BY <1>1 DEF NextWake
  <1>2. CASE d <= t
    <2> DEFINE q == (t - d) \div BeatEvery
    <2>1. t - d \in Nat /\ q \in Nat
      BY <1>2, BeatAssumption
    <2>2. t - d = BeatEvery * q + ((t - d) % BeatEvery) /\ (t - d) % BeatEvery < BeatEvery
      BY <2>1, BeatAssumption
    <2>3. NextWake(d, t) = d + (q + 1) * BeatEvery
      BY <1>2 DEF NextWake
    <2>4. (q + 1) * BeatEvery = BeatEvery * q + BeatEvery /\ BeatEvery * q \in Nat
      BY <2>1, BeatAssumption
    <2> HIDE DEF q
    <2> QED  BY <1>2, <2>1, <2>2, <2>3, <2>4, BeatAssumption
  <1> QED  BY <1>1, <1>2

\* A beat moves the clock and the deadline as the grid wants.
LEMMA BeatEffect ==
    ASSUME TypeOK, ClockSays, now >= deadline, BeatIfDue
    PROVE  /\ now' \in Nat /\ now' >= now /\ now' <= MaxNow
           /\ deadline' \in Nat /\ deadline' > now' /\ deadline' >= deadline
           /\ heartbeat' \in {None, "failed"}
           /\ beats' \in [n : Nat, last : Nat]
           /\ beats' # beats => heartbeat = None /\ beats'.last = now /\ beats'.n = beats.n + 1
  <1>1. now' \in Nat /\ now' >= now /\ now' <= MaxNow
    BY BeatAssumption DEF BeatIfDue, TypeOK, ClockSays, Lesser
  <1>2. deadline' \in Nat /\ deadline' > now' /\ deadline' >= deadline
    BY <1>1, NextWakeLater DEF BeatIfDue, TypeOK
  <1>3. heartbeat' \in {None, "failed"} /\ beats' \in [n : Nat, last : Nat]
    BY SMTT(60) DEF BeatIfDue, TypeOK
  <1>4. beats' # beats => heartbeat = None /\ beats'.last = now /\ beats'.n = beats.n + 1
    BY DEF BeatIfDue
  <1> QED  BY <1>1, <1>2, <1>3, <1>4

\* The first result of a channel that is not empty, and what is left of it.
LEMMA ChanHead ==
    ASSUME TypeOK, chan # << >>
    PROVE  /\ Len(chan) \in Nat \ {0} /\ Head(chan) = chan[1]
           /\ chan[1][1] \in Writer /\ chan[1][2] \in Answer
           /\ Tail(chan) \in Seq(Writer \X Answer) /\ Len(Tail(chan)) = Len(chan) - 1
           /\ \A k \in 1 .. Len(chan) - 1 : Tail(chan)[k] = chan[k + 1]
  <1>1. chan \in Seq(Writer \X Answer)
    BY DEF TypeOK
  <1>2. /\ Len(chan) \in Nat \ {0} /\ Head(chan) = chan[1] /\ chan[1] \in Writer \X Answer
        /\ Tail(chan) \in Seq(Writer \X Answer) /\ Len(Tail(chan)) = Len(chan) - 1
        /\ \A k \in 1 .. Len(chan) - 1 : Tail(chan)[k] = chan[k + 1]
    BY <1>1
  <1> QED  BY <1>2

\* A result appended to the channel.
LEMMA ChanAppend ==
    ASSUME TypeOK, NEW i \in Writer, NEW r \in Answer
    PROVE  /\ Append(chan, <<i, r>>) \in Seq(Writer \X Answer)
           /\ Len(chan) \in Nat /\ Len(Append(chan, <<i, r>>)) = Len(chan) + 1
           /\ \A k \in 1 .. Len(chan) : Append(chan, <<i, r>>)[k] = chan[k]
           /\ Append(chan, <<i, r>>)[Len(chan) + 1] = <<i, r>>
  BY DEF TypeOK

\* The worker that takes an index, syncs its writer or sends the result.
LEMMA WorkerEffect ==
    ASSUME BarrierInv, NEW w \in Worker, WorkerStep(w)
    PROVE  /\ w <= spawned /\ spawned > 0
           /\ worker' \in [Worker -> Thread]
           /\ \A v \in Worker \ {w} : worker'[v] = worker[v]
           /\ UNCHANGED <<spawned, caller, clock>>
  <1> USE DEF BarrierInv, TypeOK
  <1>1. worker[w].step # "unborn" /\ UNCHANGED <<spawned, caller, clock>>
    BY SMTT(60) DEF WorkerStep, WorkerFetch, WorkerSync, WorkerSend
  <1>2. w <= spawned /\ spawned > 0
    BY <1>1, WorkersNat DEF WorkersSay
  <1>3. \A v \in Worker \ {w} : worker'[v] = worker[v]
    BY SMTT(60) DEF WorkerStep, WorkerFetch, WorkerSync, WorkerSend
  <1>4. worker' \in [Worker -> Thread]
    <2>1. worker \in [Worker -> Thread] /\ next \in Nat
      BY DEF Thread, Step
    <2> HIDE DEF BarrierInv, TypeOK
    <2>2. CASE WorkerFetch(w)
      BY <2>1, <2>2 DEF WorkerFetch, Thread, Step
    <2>3. CASE WorkerSync(w)
      BY <2>1, <2>3 DEF WorkerSync, Thread, Step
    <2>4. CASE WorkerSend(w)
      BY <2>1, <2>4 DEF WorkerSend, Thread, Step
    <2> QED  BY <2>2, <2>3, <2>4 DEF WorkerStep
  <1> QED  BY <1>1, <1>2, <1>3, <1>4

----------------------------------------------------------------------------
(* The steps of a worker. *)

\* What the proofs need of the types.
LEMMA Types ==
    ASSUME BarrierInv
    PROVE  /\ N \in Nat /\ next \in Nat /\ spawned \in Nat /\ Len(chan) \in Nat
           /\ worker \in [Worker -> Thread]
           /\ \A w \in Worker : worker[w].i \in Nat
           /\ \A i \in Nat : i < N => i \in Writer
           /\ \A i \in Writer : i \in Nat /\ i < N
           /\ \A k \in 1 .. Len(chan) : chan[k][1] \in Writer /\ chan[k][2] \in Answer
  <1>1. /\ next \in Nat /\ spawned \in Nat
        /\ worker \in [Worker -> Thread] /\ chan \in Seq(Writer \X Answer)
    BY WorkersNat DEF BarrierInv, TypeOK, Thread, Step
  <1>2. \A w \in Worker : worker[w].i \in Nat
    BY <1>1 DEF Thread
  <1>3. N \in Nat /\ (\A i \in Nat : i < N => i \in Writer) /\ (\A i \in Writer : i \in Nat /\ i < N)
    BY NAssumption DEF Writer
  <1>4. Len(chan) \in Nat /\ \A k \in 1 .. Len(chan) : chan[k] \in Writer \X Answer
    BY <1>1
  <1> QED  BY <1>1, <1>2, <1>3, <1>4

\* A worker takes the next index: it is with this worker and nobody else.
LEMMA FetchKeeps ==
    ASSUME BarrierInv, NEW w \in Worker, WorkerFetch(w)
    PROVE  TypeOK' /\ WorkersSay' /\ ChannelSays' /\ CallerSays'
  <1>1. /\ w <= spawned /\ spawned > 0 /\ worker' \in [Worker -> Thread]
        /\ UNCHANGED <<spawned, pc, slots, received, at, clock, chan, synced>>
        /\ \A v \in Worker \ {w} : worker'[v] = worker[v]
    <2>1. WorkerStep(w) /\ UNCHANGED <<chan, synced>>
      BY DEF WorkerStep, WorkerFetch
    <2> QED  BY <2>1, WorkerEffect DEF caller
  <1>2. /\ worker'[w].step = (IF next >= N THEN "ended" ELSE "sync") /\ worker'[w].i = next
        /\ ~Busy(w) /\ next' = next + 1
    <2>1. worker \in [Worker -> Thread]
      BY Types
    <2> QED  BY <2>1 DEF WorkerFetch, Busy
  <1>3. WorkersSay /\ ChannelSays /\ CallerSays
    BY DEF BarrierInv
  <1>4. \A v \in Worker : Busy(v)' <=> IF v = w THEN next < N ELSE Busy(v)
    BY <1>1, <1>2, Types DEF Busy
  <1>5. TypeOK'
    BY <1>1, <1>2 DEF BarrierInv, TypeOK, Thread, Step, clock
  <1>6. \A i : Queued(i)' = Queued(i)
    BY <1>1 DEF Queued
  <1>7. next < N => /\ slots[next] = None /\ synced[next] = None
                    /\ \A k \in 1 .. Len(chan) : chan[k][1] # next
                    /\ \A v \in Worker : Busy(v) => worker[v].i # next
    BY <1>1, <1>3, Types DEF CallerSays, ChannelSays, WorkersSay
  <1>8. WorkersSay'
    <2>1. ASSUME NEW v \in Worker
          PROVE  /\ worker'[v].step = "unborn" <=> spawned' < v
                 /\ worker'[v].step = "ended" => next' >= N
      <3>1. CASE v = w
        BY <1>1, <1>2, <3>1, WorkersNat, Types
      <3>2. CASE v # w
        BY <1>1, <1>2, <1>3, <3>2, Types DEF WorkersSay
      <3> QED  BY <3>1, <3>2
    <2>2. ASSUME NEW v \in Worker, Busy(v)'
          PROVE  /\ worker'[v].i < next' /\ worker'[v].i < N /\ slots'[worker'[v].i] = None
                 /\ worker'[v].step = "sync" => synced'[worker'[v].i] = None
                 /\ worker'[v].step = "send" =>
                      worker'[v].r # None /\ synced'[worker'[v].i] = worker'[v].r
                 /\ \A k \in 1 .. Len(chan') : chan'[k][1] # worker'[v].i
      <3>1. CASE v = w
        BY SMTT(30), <1>1, <1>2, <1>4, <1>7, <2>2, <3>1, Types
      <3>2. CASE v # w
        BY SMTT(30), <1>1, <1>2, <1>3, <1>4, <2>2, <3>2, Types DEF WorkersSay
      <3> QED  BY <3>1, <3>2
    <2>3. ASSUME NEW u \in Worker, NEW v \in Worker, Busy(u)', Busy(v)',
                 worker'[u].i = worker'[v].i
          PROVE  u = v
      BY SMTT(30), <1>1, <1>2, <1>3, <1>4, <1>7, <2>3 DEF WorkersSay
    <2> QED  BY <2>1, <2>2, <2>3 DEF WorkersSay
  <1>9. ChannelSays'
    <2>1. UNCHANGED <<chan, slots, synced>>
      BY <1>1
    <2>2. \A k \in 1 .. Len(chan) : chan[k][1] \in Nat /\ chan[k][1] < next
      BY <1>3, Types DEF ChannelSays
    <2>3. \A k \in 1 .. Len(chan) : chan[k][1] < next'
      BY <1>2, <2>2, Types
    <2> QED  BY <1>3, <2>1, <2>3 DEF ChannelSays
  <1>10. CallerSays'
    <2>1. \A i \in Writer : Held(i) => Held(i)'
      BY <1>1, <1>2, <1>4 DEF Held
    <2>2. \A i \in Writer : i = next => Held(i)'
      BY <1>2, <1>4, Types DEF Held
    <2>3. ASSUME NEW i \in Writer
          PROVE  IF i < next' THEN slots'[i] # None \/ Held(i)' \/ Queued(i)'
                              ELSE slots'[i] = None /\ synced'[i] = None
      BY SMTT(30), <1>1, <1>2, <1>3, <1>6, <2>1, <2>2, Types DEF CallerSays
    <2> QED  BY <1>1, <1>3, <2>3 DEF CallerSays
  <1> QED  BY <1>5, <1>8, <1>9, <1>10

\* A worker syncs the writer it holds: nobody else has synced it.
LEMMA SyncKeeps ==
    ASSUME BarrierInv, NEW w \in Worker, WorkerSync(w)
    PROVE  /\ TypeOK' /\ WorkersSay' /\ ChannelSays' /\ CallerSays'
           /\ UNCHANGED slots
           /\ \A i \in Writer : synced[i] # None => synced'[i] = synced[i]
  <1>1. /\ worker' \in [Worker -> Thread]
        /\ UNCHANGED <<spawned, next, pc, slots, received, at, clock, chan>>
        /\ \A v \in Worker \ {w} : worker'[v] = worker[v]
    <2>1. WorkerStep(w) /\ UNCHANGED <<next, chan>>
      BY Zenon DEF WorkerStep, WorkerSync
    <2> QED  BY <2>1, WorkerEffect DEF caller
  <1>2. PICK i \in Nat, r \in Answer :
          /\ i = worker[w].i /\ worker'[w] = [step |-> "send", i |-> i, r |-> r]
          /\ worker[w].step = "sync" /\ synced' = [synced EXCEPT ![i] = r]
    <2>1. worker[w].i \in Nat /\ w \in DOMAIN worker
      BY Types
    <2>2. PICK r \in Answer :
            /\ worker' = [worker EXCEPT ![w] = [step |-> "send", i |-> @.i, r |-> r]]
            /\ synced' = [synced EXCEPT ![worker[w].i] = r]
      BY Zenon DEF WorkerSync
    <2>3. worker[w].step = "sync" /\ worker'[w] = [step |-> "send", i |-> worker[w].i, r |-> r]
      BY <2>1, <2>2 DEF WorkerSync
    <2> QED  BY Zenon, <2>1, <2>2, <2>3
  <1>3. WorkersSay /\ ChannelSays /\ CallerSays
    BY DEF BarrierInv
  <1>4. /\ i \in Writer /\ synced[i] = None /\ slots[i] = None /\ i < next /\ r # None
        /\ \A k \in 1 .. Len(chan) : chan[k][1] # i
        /\ \A v \in Worker \ {w} : Busy(v) => worker[v].i # i
    BY <1>2, <1>3, Types, NoneAssumption DEF WorkersSay, Busy, Answer
  <1>5. \A v \in Worker : Busy(v)' <=> Busy(v)
    BY <1>1, <1>2 DEF Busy
  <1>6. /\ synced' \in [Writer -> Answer \cup {None}] /\ synced'[i] = r
        /\ \A j \in Writer \ {i} : synced'[j] = synced[j]
    BY <1>2, <1>4 DEF BarrierInv, TypeOK
  <1>7. TypeOK'
    BY <1>1, <1>6 DEF BarrierInv, TypeOK, Thread, Step, clock
  <1>8. WorkersSay'
    <2>1. ASSUME NEW v \in Worker
          PROVE  /\ worker'[v].step = "unborn" <=> spawned' < v
                 /\ worker'[v].step = "ended" => next' >= N
      BY <1>1, <1>2, <1>3 DEF WorkersSay
    <2>2. ASSUME NEW v \in Worker, Busy(v)'
          PROVE  /\ worker'[v].i < next' /\ worker'[v].i < N /\ slots'[worker'[v].i] = None
                 /\ worker'[v].step = "sync" => synced'[worker'[v].i] = None
                 /\ worker'[v].step = "send" =>
                      worker'[v].r # None /\ synced'[worker'[v].i] = worker'[v].r
                 /\ \A k \in 1 .. Len(chan') : chan'[k][1] # worker'[v].i
      <3>1. CASE v = w
        BY SMTT(30), <1>1, <1>2, <1>4, <1>6, <3>1, Types
      <3>2. CASE v # w
        <4>1. worker[v].i \in Writer \ {i}
          BY <1>3, <1>4, <1>5, <2>2, <3>2, Types DEF WorkersSay
        <4> QED  BY <1>1, <1>3, <1>5, <1>6, <2>2, <3>2, <4>1 DEF WorkersSay
      <3> QED  BY SMTT(30), <3>1, <3>2
    <2>3. ASSUME NEW u \in Worker, NEW v \in Worker, Busy(u)', Busy(v)',
                 worker'[u].i = worker'[v].i
          PROVE  u = v
      BY <1>1, <1>2, <1>3, <1>5, <2>3 DEF WorkersSay
    <2> QED  BY <2>1, <2>2, <2>3 DEF WorkersSay
  <1>9. ChannelSays'
    BY <1>1, <1>3, <1>4, <1>6, Types DEF ChannelSays
  <1>10. CallerSays'
    <2>1. \A j \in Writer : Held(j)' <=> Held(j)
      BY <1>1, <1>2, <1>5 DEF Held
    <2>2. \A j \in Writer : Queued(j)' <=> Queued(j)
      BY SMTT(30), <1>1 DEF Queued
    <2>3. ASSUME NEW j \in Writer
          PROVE  /\ slots'[j] # None => slots'[j] = synced'[j]
                 /\ spawned' > 0 => IF j < next' THEN slots'[j] # None \/ Held(j)' \/ Queued(j)'
                                                ELSE slots'[j] = None /\ synced'[j] = None
      BY <1>1, <1>3, <1>4, <1>6, <2>1, <2>2, Types DEF CallerSays
    <2>4. spawned > 0
      BY WorkerEffect DEF WorkerStep
    <2> QED  BY <1>1, <1>3, <2>3, <2>4 DEF CallerSays
  <1> QED  BY <1>1, <1>4, <1>6, <1>7, <1>8, <1>9, <1>10

\* A worker sends the result of the writer it holds, and lets go of it.
LEMMA SendKeeps ==
    ASSUME BarrierInv, NEW w \in Worker, WorkerSend(w)
    PROVE  TypeOK' /\ WorkersSay' /\ ChannelSays' /\ CallerSays'
  <1>1. /\ worker' \in [Worker -> Thread]
        /\ UNCHANGED <<spawned, next, pc, slots, received, at, clock, synced>>
        /\ \A v \in Worker \ {w} : worker'[v] = worker[v]
    <2>1. WorkerStep(w) /\ UNCHANGED <<next, synced>>
      BY Zenon DEF WorkerStep, WorkerSend
    <2> QED  BY <2>1, WorkerEffect DEF caller
  <1>2. WorkersSay /\ ChannelSays /\ CallerSays
    BY DEF BarrierInv
  <1>3. /\ worker[w].step = "send" /\ worker'[w].step = "fetch" /\ Busy(w) /\ ~Busy(w)'
        /\ chan' = Append(chan, <<worker[w].i, worker[w].r>>)
    BY Types DEF WorkerSend, Busy
  <1>4. PICK i \in Writer, r \in Answer :
          /\ i = worker[w].i /\ r = worker[w].r /\ i < next /\ slots[i] = None
          /\ synced[i] = r
          /\ \A k \in 1 .. Len(chan) : chan[k][1] # i
          /\ \A v \in Worker \ {w} : Busy(v) => worker[v].i # i
    <2>1. worker[w].i \in Writer /\ worker[w].r \in Answer
      BY <1>2, <1>3, Types DEF WorkersSay, Thread
    <2> QED  BY <1>2, <1>3, <2>1 DEF WorkersSay
  <1>5. /\ chan' \in Seq(Writer \X Answer) /\ Len(chan) \in Nat /\ Len(chan') = Len(chan) + 1
        /\ \A k \in 1 .. Len(chan) : chan'[k] = chan[k]
        /\ chan'[Len(chan) + 1] = <<i, r>>
    BY <1>3, <1>4, ChanAppend DEF BarrierInv
  <1>6. \A v \in Worker : Busy(v)' <=> v # w /\ Busy(v)
    BY <1>1, <1>3 DEF Busy
  <1>7. TypeOK'
    BY SMTT(30), <1>1, <1>5 DEF BarrierInv, TypeOK, Thread, Step, clock
  <1>8. WorkersSay'
    <2>1. ASSUME NEW v \in Worker
          PROVE  /\ worker'[v].step = "unborn" <=> spawned' < v
                 /\ worker'[v].step = "ended" => next' >= N
      BY <1>1, <1>2, <1>3 DEF WorkersSay
    <2>2. ASSUME NEW v \in Worker, Busy(v)'
          PROVE  /\ worker'[v].i < next' /\ worker'[v].i < N /\ slots'[worker'[v].i] = None
                 /\ worker'[v].step = "sync" => synced'[worker'[v].i] = None
                 /\ worker'[v].step = "send" =>
                      worker'[v].r # None /\ synced'[worker'[v].i] = worker'[v].r
                 /\ \A k \in 1 .. Len(chan') : chan'[k][1] # worker'[v].i
      <3>1. v # w /\ Busy(v) /\ worker'[v] = worker[v]
        BY SMTT(30), <1>1, <1>6, <2>2
      <3>2. \A k \in 1 .. Len(chan') : chan'[k][1] # worker'[v].i
        BY SMTT(90), <1>2, <1>4, <1>5, <3>1 DEF WorkersSay
      <3> QED  BY <1>1, <1>2, <3>1, <3>2 DEF WorkersSay
    <2>3. ASSUME NEW u \in Worker, NEW v \in Worker, Busy(u)', Busy(v)',
                 worker'[u].i = worker'[v].i
          PROVE  u = v
      BY <1>1, <1>2, <1>6, <2>3 DEF WorkersSay
    <2> QED  BY <2>1, <2>2, <2>3 DEF WorkersSay
  <1>9. ChannelSays'
    <2>1. ASSUME NEW k \in 1 .. Len(chan')
          PROVE  /\ chan'[k][1] < next' /\ slots'[chan'[k][1]] = None
                 /\ synced'[chan'[k][1]] = chan'[k][2]
      BY <1>1, <1>2, <1>4, <1>5, SMTT(30) DEF ChannelSays
    <2>2. ASSUME NEW k \in 1 .. Len(chan'), NEW l \in 1 .. Len(chan'), chan'[k][1] = chan'[l][1]
          PROVE  k = l
      BY <1>2, <1>4, <1>5, <2>2, SMTT(90) DEF ChannelSays
    <2> QED  BY <2>1, <2>2 DEF ChannelSays
  <1>10. CallerSays'
    <2>1. \A j \in Writer : Held(j) => Held(j)' \/ j = i
      BY <1>1, <1>4, <1>6 DEF Held
    <2>2. \A j \in Writer : Queued(j) => Queued(j)'
      BY <1>5 DEF Queued
    <2>3. Queued(i)'
      BY SMTT(30), <1>5 DEF Queued
    <2>4. ASSUME NEW j \in Writer
          PROVE  /\ slots'[j] # None => slots'[j] = synced'[j]
                 /\ spawned' > 0 => IF j < next' THEN slots'[j] # None \/ Held(j)' \/ Queued(j)'
                                                ELSE slots'[j] = None /\ synced'[j] = None
      BY <1>1, <1>2, <2>1, <2>2, <2>3 DEF CallerSays
    <2>5. spawned > 0
      BY WorkerEffect DEF WorkerStep
    <2> QED  BY <1>1, <1>2, <2>4, <2>5 DEF CallerSays
  <1> QED  BY <1>7, <1>8, <1>9, <1>10

----------------------------------------------------------------------------
(* The steps of the calling thread. *)

\* One more worker starts, while nothing was taken or answered without one.
LEMMA SpawnKeeps ==
    ASSUME BarrierInv, Spawn
    PROVE  TypeOK' /\ WorkersSay' /\ ChannelSays' /\ CallerSays'
  <1>1. /\ pc = "spawn" /\ spawned' = spawned + 1 /\ spawned + 1 \in Worker
        /\ UNCHANGED <<next, chan, pc, slots, received, at, clock, synced>>
    BY WorkersNat, Types DEF Spawn, caller, Worker
  <1>2. /\ worker' \in [Worker -> Thread] /\ worker'[spawned + 1].step = "fetch"
        /\ worker[spawned + 1].step = "unborn"
        /\ \A v \in Worker : worker'[v].i = worker[v].i /\ worker'[v].r = worker[v].r
        /\ \A v \in Worker \ {spawned + 1} : worker'[v] = worker[v]
    <2>1. worker \in [Worker -> Thread] /\ worker' = [worker EXCEPT ![spawned + 1].step = "fetch"]
      BY Types DEF Spawn
    <2>2. worker[spawned + 1].step = "unborn"
      BY <1>1, Types DEF BarrierInv, WorkersSay
    <2> QED  BY <1>1, <2>1, <2>2 DEF Thread, Step
  <1>3. WorkersSay /\ ChannelSays /\ CallerSays
    BY DEF BarrierInv
  <1>4. \A v \in Worker : Busy(v)' <=> Busy(v)
    BY <1>1, <1>2 DEF Busy
  <1>5. TypeOK'
    BY SMTT(30), <1>1, <1>2, WorkersNat, Types DEF BarrierInv, TypeOK, Thread, Step, clock, Worker
  <1>6. WorkersSay'
    <2>1. ASSUME NEW v \in Worker
          PROVE  /\ worker'[v].step = "unborn" <=> spawned' < v
                 /\ worker'[v].step = "ended" => next' >= N
      <3>1. CASE v = spawned + 1
        BY <1>1, <1>2, <3>1, Types
      <3>2. CASE v # spawned + 1
        BY SMTT(30), <1>1, <1>2, <1>3, <3>2, Types, WorkersNat DEF WorkersSay
      <3> QED  BY <3>1, <3>2
    <2>2. ASSUME NEW v \in Worker, Busy(v)'
          PROVE  /\ worker'[v].i < next' /\ worker'[v].i < N /\ slots'[worker'[v].i] = None
                 /\ worker'[v].step = "sync" => synced'[worker'[v].i] = None
                 /\ worker'[v].step = "send" =>
                      worker'[v].r # None /\ synced'[worker'[v].i] = worker'[v].r
                 /\ \A k \in 1 .. Len(chan') : chan'[k][1] # worker'[v].i
      <3>1. Busy(v) /\ v # spawned + 1
        BY SMTT(30), <1>2, <1>4, <2>2 DEF Busy
      <3> QED  BY <1>1, <1>2, <1>3, <3>1 DEF WorkersSay
    <2>3. ASSUME NEW u \in Worker, NEW v \in Worker, Busy(u)', Busy(v)',
                 worker'[u].i = worker'[v].i
          PROVE  u = v
      BY SMTT(30), <1>2, <1>3, <1>4, <2>3 DEF WorkersSay
    <2> QED  BY <2>1, <2>2, <2>3 DEF WorkersSay
  <1>7. ChannelSays'
    BY SMTT(30), <1>1, <1>3 DEF ChannelSays
  <1>8. CallerSays'
    <2>1. \A j \in Writer : (Held(j)' <=> Held(j)) /\ (Queued(j)' <=> Queued(j))
      BY SMTT(30), <1>1, <1>2, <1>4 DEF Held, Queued
    <2>2. CASE spawned > 0
      BY SMTT(30), <1>1, <1>3, <2>1, <2>2, Types DEF CallerSays
    <2>3. CASE spawned = 0
      <3>1. next = 0 /\ received = 0 /\ at = 0 /\ \A i \in Writer : slots[i] = None /\ synced[i] = None
        BY <1>1, <1>3, <2>3, Types DEF CallerSays
      <3>2. Cardinality({i \in Writer : slots[i] # None}) = 0
        <4>1. {i \in Writer : slots[i] # None} = {}
          BY SMTT(30), <3>1
        <4> QED  BY <4>1, FS_EmptySet
      <3> QED  BY SMTT(30), <1>1, <1>3, <2>3, <3>1, <3>2, Types DEF CallerSays
    <2> QED  BY <2>2, <2>3, Types
  <1> QED  BY <1>5, <1>6, <1>7, <1>8

\* Without workers the caller syncs the next writer itself.
LEMMA SerialKeeps ==
    ASSUME BarrierInv, SerialSync
    PROVE  /\ TypeOK' /\ WorkersSay' /\ ChannelSays' /\ CallerSays'
           /\ \A i \in Writer : /\ synced[i] # None => synced'[i] = synced[i]
                                /\ slots[i] # None => slots'[i] = slots[i]
  <1>1. WorkersSay /\ ChannelSays /\ CallerSays /\ at \in Nat
    BY DEF BarrierInv, TypeOK
  <1>2. /\ pc = "serial" /\ at < N /\ at' = at + 1
        /\ UNCHANGED <<pc, received, spawned, next, worker, chan>>
    BY DEF SerialSync, thread
  <1>3. at \in Writer /\ spawned = 0 /\ next = 0 /\ chan = << >> /\ slots[at] = None /\ synced[at] = None
    BY <1>1, <1>2, Types DEF CallerSays
  <1>4. PICK r \in Answer : slots' = [slots EXCEPT ![at] = r] /\ synced' = [synced EXCEPT ![at] = r]
    BY Zenon DEF SerialSync
  <1>5. /\ slots' \in [Writer -> Answer \cup {None}] /\ synced' \in [Writer -> Answer \cup {None}]
        /\ slots'[at] = r /\ synced'[at] = r /\ r # None
        /\ \A j \in Writer \ {at} : slots'[j] = slots[j] /\ synced'[j] = synced[j]
    BY <1>3, <1>4, NoneAssumption DEF BarrierInv, TypeOK, Answer
  <1>6. now' \in Nat /\ deadline' \in Nat /\ heartbeat' \in {None, "failed"} /\ beats' \in [n : Nat, last : Nat]
    <2>1. CASE now >= deadline
      BY <2>1, BeatEffect DEF SerialSync, BarrierInv
    <2>2. CASE ~(now >= deadline)
      BY <2>2 DEF SerialSync, clock, BarrierInv, TypeOK
    <2> QED  BY <2>1, <2>2
  <1>7. TypeOK'
    BY SMTT(30), <1>1, <1>2, <1>5, <1>6 DEF BarrierInv, TypeOK
  <1>8. WorkersSay'
    <2>1. \A w \in Worker : worker[w].step = "unborn"
      BY <1>1, <1>3, WorkersNat DEF WorkersSay
    <2> QED  BY <1>1, <1>2, <1>3, <2>1 DEF WorkersSay, Busy
  <1>9. ChannelSays'
    BY <1>2, <1>3 DEF ChannelSays
  <1>10. CallerSays'
    BY SMTT(30), <1>1, <1>2, <1>3, <1>5, Types DEF CallerSays
  <1> QED  BY <1>3, <1>5, <1>7, <1>8, <1>9, <1>10

\* The caller takes the first result of the channel: its slot was empty.
LEMMA ReceiveKeeps ==
    ASSUME BarrierInv, Receive
    PROVE  /\ TypeOK' /\ WorkersSay' /\ ChannelSays' /\ CallerSays'
           /\ UNCHANGED synced /\ \A i \in Writer : slots[i] # None => slots'[i] = slots[i]
  <1>1. WorkersSay /\ ChannelSays /\ CallerSays /\ received \in Nat
    BY DEF BarrierInv, TypeOK
  <1>2. /\ pc = "wait" /\ received' = received + 1 /\ chan # << >> /\ chan' = Tail(chan)
        /\ UNCHANGED <<pc, at, spawned, next, worker, clock, synced>>
    BY DEF Receive, thread
  <1>3. /\ Len(chan) \in Nat \ {0} /\ chan' \in Seq(Writer \X Answer)
        /\ Len(chan') = Len(chan) - 1 /\ \A k \in 1 .. Len(chan) - 1 : chan'[k] = chan[k + 1]
    BY <1>2, ChanHead DEF BarrierInv
  <1>4. PICK h \in Writer, r \in Answer : h = chan[1][1] /\ r = chan[1][2] /\ slots' = [slots EXCEPT ![h] = r]
    <2>1. chan[1][1] \in Writer /\ chan[1][2] \in Answer /\ Head(chan) = chan[1]
      BY <1>2, ChanHead DEF BarrierInv
    <2>2. slots' = [slots EXCEPT ![Head(chan)[1]] = Head(chan)[2]]
      BY Zenon DEF Receive
    <2> QED  BY Zenon, <2>1, <2>2
  <1>5. /\ slots[h] = None /\ synced[h] = r /\ r # None /\ h < next
        /\ \A k \in 1 .. Len(chan') : chan'[k][1] # h
        /\ \A w \in Worker : Busy(w) => worker[w].i # h
    BY SMTT(30), <1>1, <1>3, <1>4, NoneAssumption DEF ChannelSays, WorkersSay, Answer
  <1>6. /\ slots' \in [Writer -> Answer \cup {None}] /\ slots'[h] = r
        /\ \A j \in Writer \ {h} : slots'[j] = slots[j]
    BY <1>4 DEF BarrierInv, TypeOK
  <1>7. TypeOK'
    BY SMTT(30), <1>1, <1>2, <1>3, <1>6 DEF BarrierInv, TypeOK, clock
  <1>8. WorkersSay'
    <2>1. \A w \in Worker : Busy(w)' <=> Busy(w)
      BY SMTT(30), <1>2 DEF Busy
    <2>2. ASSUME NEW w \in Worker, Busy(w)
          PROVE  /\ slots'[worker[w].i] = None
                 /\ \A k \in 1 .. Len(chan') : chan'[k][1] # worker[w].i
      <3>1. /\ worker[w].i \in Writer \ {h} /\ slots[worker[w].i] = None
            /\ \A k \in 1 .. Len(chan) : chan[k][1] # worker[w].i
        BY <1>1, <1>5, <2>2, Types DEF WorkersSay
      <3>2. \A k \in 1 .. Len(chan') : k + 1 \in 1 .. Len(chan) /\ chan'[k] = chan[k + 1]
        BY SMTT(60), <1>3
      <3> QED  BY <1>6, <3>1, <3>2
    <2> QED  BY <1>1, <1>2, <2>1, <2>2 DEF WorkersSay
  <1>9. ChannelSays'
    <2>1. ASSUME NEW k \in 1 .. Len(chan')
          PROVE  /\ chan'[k][1] < next' /\ slots'[chan'[k][1]] = None
                 /\ synced'[chan'[k][1]] = chan'[k][2]
      <3>1. k + 1 \in 1 .. Len(chan) /\ chan'[k] = chan[k + 1]
        BY <1>3
      <3> QED  BY SMTT(30), <1>1, <1>2, <1>5, <1>6, <3>1, Types DEF ChannelSays
    <2>2. ASSUME NEW k \in 1 .. Len(chan'), NEW l \in 1 .. Len(chan'), chan'[k][1] = chan'[l][1]
          PROVE  k = l
      <3>1. /\ k + 1 \in 1 .. Len(chan) /\ chan'[k] = chan[k + 1]
            /\ l + 1 \in 1 .. Len(chan) /\ chan'[l] = chan[l + 1]
        BY <1>3
      <3>2. k + 1 = l + 1
        BY SMTT(30), <1>1, <2>2, <3>1 DEF ChannelSays
      <3> QED  BY SMTT(30), <1>3, <3>2
    <2> QED  BY SMTT(30), <2>1, <2>2 DEF ChannelSays
  <1>10. CallerSays'
    <2>1. \A j \in Writer : Held(j)' <=> Held(j)
      BY <1>2 DEF Held, Busy
    <2>2. \A j \in Writer : Queued(j) => Queued(j)' \/ j = h
      <3> SUFFICES ASSUME NEW j \in Writer, NEW k \in 1 .. Len(chan), chan[k][1] = j, j # h
                   PROVE  Queued(j)'
        BY DEF Queued
      <3>1. k - 1 \in 1 .. Len(chan') /\ chan'[k - 1] = chan[k]
        BY SMTT(30), <1>3, <1>4
      <3> QED  BY <3>1 DEF Queued
    <2>3. spawned > 0
      BY SMTT(30), <1>1, <1>2 DEF CallerSays
    <2>4. ASSUME NEW j \in Writer
          PROVE  /\ slots'[j] # None => slots'[j] = synced'[j]
                 /\ IF j < next' THEN slots'[j] # None \/ Held(j)' \/ Queued(j)'
                                ELSE slots'[j] = None /\ synced'[j] = None
      <3>1. /\ slots[j] # None => slots[j] = synced[j]
            /\ IF j < next THEN slots[j] # None \/ Held(j) \/ Queued(j)
                           ELSE slots[j] = None /\ synced[j] = None
        BY Zenon, <1>1, <2>3 DEF CallerSays
      <3>2. CASE j = h
        BY Zenon, <1>2, <1>5, <1>6, <3>2
      <3>3. CASE j # h
        <4>1. slots'[j] = slots[j]
          BY Zenon, <1>6, <3>3
        <4> QED  BY Zenon, <1>2, <2>1, <2>2, <3>1, <3>3, <4>1
      <3> QED  BY Zenon, <3>2, <3>3
    <2>5. received' = Cardinality({i \in Writer : slots'[i] # None})
      <3>1. {i \in Writer : slots'[i] # None} = Filled \cup {h} /\ h \notin Filled
        BY SMTT(30), <1>5, <1>6 DEF Filled
      <3>2. IsFiniteSet(Filled) /\ received = Cardinality(Filled)
        BY SMTT(30), <1>1, <2>3, FilledFinite DEF BarrierInv, CallerSays, Filled
      <3>3. Cardinality(Filled \cup {h}) = Cardinality(Filled) + 1
        BY <3>1, <3>2, FS_AddElement
      <3> QED  BY ZenonT(30), <1>2, <3>1, <3>2, <3>3
    <2> QED  BY SMTT(30), <1>1, <1>2, <2>3, <2>4, <2>5, Types DEF CallerSays
  <1> QED  BY <1>2, <1>5, <1>6, <1>7, <1>8, <1>9, <1>10

\* The wait ends only with every slot filled: all results are in, or every
\* worker has ended and nothing is on its way.
LEMMA WaitEndsFull ==
    ASSUME BarrierInv, WaitEnds
    PROVE  \A i \in Writer : slots[i] # None
  <1>1. WorkersSay /\ CallerSays /\ spawned > 0
    BY DEF BarrierInv, WaitEnds, CallerSays
  <1>2. CASE received >= N
    <2>1. received = Cardinality(Filled)
      BY SMTT(30), <1>1 DEF CallerSays, Filled
    <2> QED  BY <1>2, <2>1, FilledFinite DEF BarrierInv
  <1>3. CASE chan = << >> /\ Disconnected
    <2>1. 1 \in Worker /\ 1 \in 1 .. spawned /\ spawned <= Workers
      BY SMTT(30), <1>1, WorkersNat DEF BarrierInv, TypeOK, Worker
    <2>2. next >= N
      BY SMTT(30), <1>1, <1>3, <2>1 DEF WorkersSay, Disconnected
    <2>3. \A w \in Worker : ~Busy(w)
      BY <1>1, <1>3, WorkersNat, Types DEF WorkersSay, Disconnected, Busy
    <2>4. \A i \in Writer : i < next /\ ~Held(i) /\ ~Queued(i)
      BY <1>3, <2>2, <2>3, Types DEF Held, Queued
    <2> QED  BY SMTT(30), <1>1, <2>4 DEF CallerSays
  <1> QED  BY SMTT(30), <1>2, <1>3 DEF WaitEnds

\* A step that moves only the caller's pc, as its code does, or the clock.
LEMMA RestKeeps ==
    ASSUME BarrierInv, SpawnEnds \/ SerialEnds \/ Timeout \/ WaitEnds \/ Join \/ Pass \/ UNCHANGED vars
    PROVE  /\ TypeOK' /\ WorkersSay' /\ ChannelSays' /\ CallerSays'
           /\ UNCHANGED <<slots, synced>>
  <1>1. UNCHANGED <<spawned, next, worker, chan, slots, received, at, synced>>
    BY Zenon DEF SpawnEnds, SerialEnds, Timeout, WaitEnds, Join, Pass, vars, thread, caller
  <1>2. WorkersSay /\ ChannelSays /\ CallerSays
    BY SMTT(30) DEF BarrierInv
  <1>3. WorkersSay' /\ ChannelSays'
    BY <1>1, <1>2 DEF WorkersSay, ChannelSays, Busy
  <1>4. /\ pc' \in {"spawn", "serial", "wait", "join", "done"}
        /\ pc' = "spawn" => pc = "spawn"
        /\ pc' = "serial" => spawned = 0
        /\ pc' = "wait" => spawned > 0
        /\ pc' \in {"join", "done"} => \A i \in Writer : slots[i] # None
    <2>1. CASE SpawnEnds
      BY SMTT(30), <2>1, Types DEF SpawnEnds, Started
    <2>2. CASE SerialEnds
      <3>1. pc = "serial" /\ at >= N /\ pc' = "join"
        BY Zenon, <2>2 DEF SerialEnds
      <3>2. spawned = 0 /\ \A i \in Writer : i < at => slots[i] # None
        BY Zenon, <1>2, <3>1 DEF CallerSays
      <3>3. at \in Nat
        BY Zenon DEF BarrierInv, TypeOK
      <3>4. \A i \in Writer : i < at
        BY <3>1, <3>3, Types
      <3> QED  BY Zenon, <3>1, <3>2, <3>4
    <2>3. CASE WaitEnds
      BY SMTT(30), <2>3, WaitEndsFull DEF WaitEnds
    <2>4. CASE Join
      BY SMTT(30), <1>2, <2>4 DEF Join, CallerSays
    <2>5. CASE Timeout \/ Pass \/ UNCHANGED vars
      <3>1. pc' = pc
        BY SMTT(30), <2>5 DEF Timeout, Pass, caller, vars
      <3> QED  BY SMTT(30), <1>2, <3>1 DEF CallerSays, BarrierInv, TypeOK
    <2> QED  BY SMTT(30), <2>1, <2>2, <2>3, <2>4, <2>5
  <1>5. CallerSays'
    <2>1. \A j \in Writer : (Held(j)' <=> Held(j)) /\ (Queued(j)' <=> Queued(j))
      BY <1>1 DEF Held, Queued, Busy
    <2> QED  BY SMTT(30), <1>1, <1>2, <1>4, <2>1 DEF CallerSays
  <1>6. now' \in Nat /\ deadline' \in Nat /\ heartbeat' \in {None, "failed"} /\ beats' \in [n : Nat, last : Nat]
    <2>1. now \in Nat /\ deadline \in Nat /\ heartbeat \in {None, "failed"} /\ beats \in [n : Nat, last : Nat]
      BY DEF BarrierInv, TypeOK
    <2>2. CASE Timeout
      BY <2>2, BeatEffect DEF Timeout, BarrierInv
    <2>3. CASE SpawnEnds
      BY <2>1, <2>3, BeatAssumption DEF SpawnEnds
    <2>4. CASE Pass
      BY <2>1, <2>4 DEF Pass
    <2>5. CASE SerialEnds \/ WaitEnds \/ Join \/ UNCHANGED vars
      BY <2>1, <2>5 DEF SerialEnds, WaitEnds, Join, vars, clock
    <2> QED  BY <2>2, <2>3, <2>4, <2>5
  <1>7. TypeOK'
    BY SMTT(30), <1>1, <1>4, <1>6 DEF BarrierInv, TypeOK
  <1> QED  BY <1>1, <1>3, <1>5, <1>7

----------------------------------------------------------------------------
(* The invariant. *)

\* A full set of slots is what the syncs answered.
LEMMA ResultsFollow == CallerSays => ResultsComplete
  BY DEF CallerSays, ResultsComplete

\* A beat is made when its deadline has passed, and the next one is set after it.
LEMMA ClockStep ==
    ASSUME BarrierInv, [Next]_vars
    PROVE  /\ ClockSays'
           /\ beats' # beats => heartbeat = None /\ now >= deadline
           /\ deadline' # deadline => pc = "spawn" \/ now >= deadline
  <1>1. /\ TypeOK /\ ClockSays /\ now \in Nat /\ deadline \in Nat /\ MaxNow \in Nat
        /\ beats.n \in Nat /\ beats.last \in Nat
    BY BeatAssumption DEF BarrierInv, TypeOK
  <1>2. CASE Timeout \/ (SerialSync /\ now >= deadline)
    <2>1. now >= deadline /\ BeatIfDue /\ pc' = pc /\ pc # "spawn"
      BY <1>2 DEF Timeout, SerialSync, caller
    <2>2. /\ now' >= now /\ now' <= MaxNow /\ deadline' > now' /\ deadline' >= deadline
          /\ now' \in Nat /\ deadline' \in Nat
          /\ beats' # beats => heartbeat = None /\ beats'.last = now /\ beats'.n = beats.n + 1
      BY <1>1, <2>1, BeatEffect
    <2>3. beats'.n > 0 => beats'.last < deadline'
      BY <1>1, <2>2 DEF ClockSays
    <2> QED  BY <2>1, <2>2, <2>3 DEF ClockSays
  <1>3. CASE SpawnEnds
    BY <1>1, <1>3 DEF SpawnEnds, Started, ClockSays
  <1>4. CASE Pass
    BY <1>1, <1>4 DEF Pass, ClockSays, caller
  <1>5. CASE \/ Spawn \/ (SerialSync /\ ~(now >= deadline)) \/ SerialEnds \/ Receive \/ WaitEnds
             \/ Join \/ (\E w \in Worker : WorkerStep(w)) \/ UNCHANGED vars
    <2>1. UNCHANGED clock /\ (pc' = "spawn" => pc = "spawn")
      BY <1>5 DEF Spawn, SerialSync, SerialEnds, Receive, WaitEnds, Join, WorkerStep, WorkerFetch,
         WorkerSync, WorkerSend, vars, caller
    <2> QED  BY <1>1, <2>1 DEF ClockSays, clock
  <1> QED  BY <1>2, <1>3, <1>4, <1>5 DEF Next, CallerStep

\* Every step keeps the invariant and what was synced and received.
LEMMA BarrierStep ==
    ASSUME BarrierInv, [Next]_vars
    PROVE  /\ BarrierInv'
           /\ \A i \in Writer : /\ synced[i] # None => synced'[i] = synced[i]
                                /\ slots[i] # None => slots'[i] = slots[i]
  <1> DEFINE DataKept ==
        /\ TypeOK' /\ WorkersSay' /\ ChannelSays' /\ CallerSays'
        /\ \A i \in Writer : /\ synced[i] # None => synced'[i] = synced[i]
                             /\ slots[i] # None => slots'[i] = slots[i]
  <1>1. DataKept
    <2>1. ASSUME NEW w \in Worker, WorkerFetch(w) PROVE DataKept
      <3>1. UNCHANGED <<slots, synced>>
        BY Zenon, <2>1 DEF WorkerFetch, caller
      <3> QED  BY Zenon, <2>1, <3>1, FetchKeeps
    <2>2. ASSUME NEW w \in Worker, WorkerSync(w) PROVE DataKept
      BY <2>2, SyncKeeps
    <2>3. ASSUME NEW w \in Worker, WorkerSend(w) PROVE DataKept
      <3>1. UNCHANGED <<slots, synced>>
        BY Zenon, <2>3 DEF WorkerSend, caller
      <3> QED  BY Zenon, <2>3, <3>1, SendKeeps
    <2>4. CASE Spawn
      BY <2>4, SpawnKeeps DEF Spawn, caller
    <2>5. CASE SerialSync
      BY SMTT(30), <2>5, SerialKeeps
    <2>6. CASE Receive
      BY <2>6, ReceiveKeeps
    <2>7. CASE SpawnEnds \/ SerialEnds \/ Timeout \/ WaitEnds \/ Join \/ Pass \/ UNCHANGED vars
      BY <2>7, RestKeeps
    <2> QED  BY Zenon, <2>1, <2>2, <2>3, <2>4, <2>5, <2>6, <2>7 DEF Next, CallerStep, WorkerStep
  <1>2. ClockSays'
    BY SMTT(30), ClockStep
  <1>3. ResultsComplete'
    BY <1>1, ResultsFollow DEF CallerSays, ResultsComplete
  <1> QED  BY <1>1, <1>2, <1>3 DEF BarrierInv

\* The barrier starts with nothing taken, synced or received.
LEMMA BarrierStart == Init => BarrierInv
  <1> SUFFICES ASSUME Init
               PROVE  BarrierInv
    BY SMTT(30)
  <1>1. TypeOK
    <2>1. worker \in [Worker -> Thread]
      BY DEF Init, Thread, Step
    <2>2. chan \in Seq(Writer \X Answer)
      BY DEF Init
    <2>3. /\ pc \in {"spawn", "serial", "wait", "join", "done"}
          /\ spawned \in 0 .. Workers /\ next \in Nat /\ received \in Nat /\ at \in Nat
          /\ now \in Nat /\ deadline \in Nat /\ heartbeat \in {None, "failed"}
      BY WorkersNat, BeatAssumption DEF Init
    <2>4. beats \in [n : Nat, last : Nat]
      BY DEF Init
    <2>5. slots \in [Writer -> Answer \cup {None}] /\ synced \in [Writer -> Answer \cup {None}]
      BY Zenon DEF Init
    <2> QED  BY Zenon, <2>1, <2>2, <2>3, <2>4, <2>5 DEF TypeOK, Thread, Step
  <1>2. \A w \in Worker : worker[w].step = "unborn" /\ spawned < w
    BY WorkersNat DEF Init
  <1>3. WorkersSay
    BY SMTT(30), <1>2 DEF WorkersSay, Busy
  <1>4. ChannelSays
    BY SMTT(30) DEF Init, ChannelSays
  <1>5. CallerSays
    BY NAssumption DEF Init, CallerSays, Writer
  <1>6. ClockSays
    BY BeatAssumption DEF Init, ClockSays
  <1> QED  BY <1>1, <1>3, <1>4, <1>5, <1>6, ResultsFollow DEF BarrierInv

\* No index is lost or doubled, whichever threads are refused and in whatever
\* order they run: every writer's result is in its slot when the barrier of
\* sync_staged_many is done, for any number of writers and any thread limit.
THEOREM BarrierHolds == Spec => []BarrierInv
  BY BarrierStart, BarrierStep, PTL DEF Spec

\* The grid: a deadline on it is in a later interval than any time before it.
LEMMA LaterInterval ==
    ASSUME deadline \in Nat, NEW t \in Nat, NEW u \in Nat, t < deadline, deadline <= u
    PROVE  Interval(t) < Interval(u)
  <1> DEFINE q == deadline \div BeatEvery
             r == deadline % BeatEvery
             a == (t + BeatEvery - r) \div BeatEvery
             b == (u + BeatEvery - r) \div BeatEvery
  <1>1. deadline = BeatEvery * q + r /\ q \in Nat /\ r \in Nat /\ r < BeatEvery
    BY BeatAssumption
  <1>2. t + BeatEvery - r \in Nat /\ u + BeatEvery - r \in Nat
    BY <1>1, BeatAssumption
  <1>3. a \in Nat /\ BeatEvery * a <= t + BeatEvery - r
    BY <1>2, BeatAssumption
  <1>4. b \in Nat /\ u + BeatEvery - r < BeatEvery * (b + 1)
    BY <1>2, BeatAssumption
  <1>5. BeatEvery * a < BeatEvery * (q + 1) /\ BeatEvery * (q + 1) < BeatEvery * (b + 1)
    BY SMTT(30), <1>1, <1>3, <1>4, BeatAssumption
  <1>6. a < q + 1 /\ q + 1 < b + 1
    BY <1>1, <1>3, <1>4, <1>5, BeatAssumption
  <1>7. Interval(t) = a /\ Interval(u) = b
    BY DEF Interval
  <1> HIDE DEF q, r, a, b
  <1> QED  BY <1>1, <1>3, <1>4, <1>6, <1>7

\* What was synced or received stays so, beats stop at the first failure and
\* keep to the grid, and a stream of results never pushes the deadline back.
THEOREM BarrierStepsKept == Spec => BarrierSteps
  <1>1. BarrierInv /\ [Next]_vars =>
          \A i \in Writer : /\ synced[i] # None => synced'[i] = synced[i]
                            /\ slots[i] # None => slots'[i] = slots[i]
    BY BarrierStep
  <1>2. BarrierInv /\ [Next]_vars =>
          (beats' # beats => /\ heartbeat = None
                             /\ beats.n > 0 => Interval(now) > Interval(beats.last))
    <2> SUFFICES ASSUME BarrierInv, [Next]_vars, beats' # beats
                 PROVE  /\ heartbeat = None
                        /\ beats.n > 0 => Interval(now) > Interval(beats.last)
      OBVIOUS
    <2>1. heartbeat = None /\ now >= deadline
      BY ClockStep
    <2>2. now \in Nat /\ deadline \in Nat /\ beats.last \in Nat /\ (beats.n > 0 => beats.last < deadline)
      BY DEF BarrierInv, TypeOK, ClockSays
    <2>3. beats.n > 0 => Interval(beats.last) < Interval(now)
      BY <2>1, <2>2, LaterInterval
    <2>4. \A t \in Nat : Interval(t) \in Int
      BY <2>2, BeatAssumption DEF Interval
    <2> QED  BY <2>1, <2>2, <2>3, <2>4
  <1>3. BarrierInv /\ [Next]_vars =>
          (deadline' # deadline => pc = "spawn" \/ now >= deadline)
    BY ClockStep
  <1>4. Spec => SyncedOnce
    BY <1>1, BarrierHolds, PTL DEF Spec, SyncedOnce
  <1>5. Spec => BeatsOnGrid
    BY <1>2, BarrierHolds, PTL DEF Spec, BeatsOnGrid
  <1>6. Spec => DeadlineKept
    BY <1>3, BarrierHolds, PTL DEF Spec, DeadlineKept
  <1> QED  BY <1>4, <1>5, <1>6 DEF BarrierSteps

----------------------------------------------------------------------------
(* The build of the indexes *)

\* The part of BuildInv that is inductive; the promises follow from it.
Says == BuildTypeOK /\ FamiliesSay /\ ListingSays

----------------------------------------------------------------------------
(* The promises. *)

\* A set of families is finite.
LEMMA FamiliesFinite ==
    ASSUME NEW S \in SUBSET Families
    PROVE  IsFiniteSet(S) /\ Cardinality(S) \in Nat
  BY BuildAssumption, FS_Subset, FS_CardinalityType

\* Says implies the promises of the build.
LEMMA Promises ==
    ASSUME Says
    PROVE  SignalsAreEndings /\ RegionOutlivesWriter /\ AllOrNothing /\ PoisonIsTheWorkers
  <1> USE DEF Says
  <1>1. SignalsAreEndings
    <2>1. Ended \in SUBSET Families /\ signals \in Nat /\ buildChan \in Nat
      BY DEF Ended, BuildTypeOK
    <2>2. Cardinality(Ended) \in Nat
      BY <2>1, FamiliesFinite
    <2>3. signals + buildChan = Cardinality(Ended)
      BY DEF ListingSays
    <2> QED  BY <2>1, <2>2, <2>3 DEF SignalsAreEndings, Ended
  <1>2. RegionOutlivesWriter
    <2> SUFFICES ASSUME NEW w \in Families, regions[w] \in {"kept", "cut"}
                 PROVE  wpc[w] \in {"none", "finished"}
      BY DEF RegionOutlivesWriter
    <2>1. buildPc = "returned"
      BY DEF ListingSays
    <2>2. CASE answer = "scratch"
      BY <2>2 DEF FamiliesSay
    <2>3. CASE answer # "scratch"
      BY <2>1, <2>3 DEF ListingSays, FamiliesSay, Unjoined, Joined
    <2> QED  BY <2>2, <2>3
  <1>3. ASSUME buildPc = "returned", answer # "scratch"
        PROVE  /\ stop /\ answer = BuildAnswer /\ \A w \in Families : results[w] \in Returns
               /\ tickError \/ (\E w \in Families : Failed(results[w]))
                            \/ \A w \in Families : results[w] = "family"
    <2>1. stop /\ answer = BuildAnswer /\ Unjoined = {}
      BY Zenon, <1>3 DEF ListingSays
    <2>2. \A w \in Families : results[w] \in Returns
      BY <2>1 DEF Unjoined, Joined, BuildTypeOK
    <2>3. tickError \/ (\E w \in Families : Failed(results[w]))
                    \/ \A w \in Families : results[w] = "family"
      BY Zenon, <2>1 DEF ListingSays
    <2> QED  BY Zenon, <2>1, <2>2, <2>3
  <1>4. ASSUME buildPc = "returned", answer = "scratch"
        PROVE  ~stop /\ ~tickError /\ \A w \in Families : results[w] = "none"
    <2>1. ~stop /\ ~tickError
      BY Zenon, <1>4 DEF ListingSays
    <2>2. \A w \in Families : results[w] = "none"
      BY SMTT(30), <1>4 DEF FamiliesSay
    <2> QED  BY Zenon, <2>1, <2>2
  <1>5. AllOrNothing
    <2> SUFFICES ASSUME buildPc = "returned"
                 PROVE  /\ answer # "nocause"
                        /\ answer = "families" =>
                             \A w \in Families : results[w] = "family" /\ regions[w] = "kept"
                        /\ answer # "families" => \A w \in Families : regions[w] = "cut"
      BY DEF AllOrNothing
    <2>1. \A w \in Families : regions[w] = IF answer = "families" THEN "kept" ELSE "cut"
      BY DEF ListingSays
    <2>2. CASE answer = "scratch"
      BY <2>1, <2>2
    <2>3. CASE answer # "scratch"
      <3>1. answer # "nocause"
        BY <1>3, <2>3 DEF BuildAnswer, Failure, Panicked, Failed
      <3>2. answer = "families" => \A w \in Families : results[w] = "family"
        BY <1>3, <2>3 DEF BuildAnswer, Failure, Panicked, Failed, Returns
      <3> QED  BY <2>1, <3>1, <3>2
    <2> QED  BY <2>2, <2>3
  <1>6. PoisonIsTheWorkers
    <2> SUFFICES ASSUME buildPc = "returned"
                 PROVE  /\ poisoned <=> answer \in {"failed", "panic"}
                        /\ tickError => answer = "tick" /\ ~poisoned
                        /\ ~tickError => (poisoned <=> Failure \/ Panicked)
      BY Zenon DEF PoisonIsTheWorkers
    <2>1. poisoned <=> answer \in {"failed", "panic"}
      BY Zenon DEF ListingSays
    <2>2. CASE answer = "scratch"
      BY <1>4, <2>1, <2>2 DEF Failure, Panicked
    <2>3. CASE answer # "scratch"
      BY <1>3, <2>1, <2>3 DEF BuildAnswer
    <2> QED  BY Zenon, <2>2, <2>3
  <1> QED  BY Zenon, <1>1, <1>2, <1>5, <1>6

----------------------------------------------------------------------------
(* The steps of a worker. *)

\* What a worker's step leaves to the listing thread.
LEMMA ListingKept ==
    ASSUME Says, UNCHANGED <<signals, results, stop, tickError, buildPc, ending>>,
           signals' + buildChan' = Cardinality(Ended')
    PROVE  ListingSays'
  <1>1. Joined' = Joined /\ Unjoined' = Unjoined /\ BuildAnswer' = BuildAnswer
    BY Zenon DEF Joined, Unjoined, BuildAnswer, Failure, Panicked, ending
  <1> QED  BY Zenon, <1>1 DEF Says, ListingSays, Ended, ending, Failed

\* A look at the stop flag, or the end of the work, is no ending yet.
LEMMA WorkKeeps ==
    ASSUME Says, NEW w \in Families, Work(w) \/ Ends(w)
    PROVE  Says'
  <1>1. /\ UNCHANGED <<buildChan, signals, results, stop, tickError, buildPc, looking, ending>>
        /\ wpc[w] = "working"
    BY Zenon DEF Work, Ends
  <1>2. BuildTypeOK'
    <2>1. CASE Work(w)
      BY SMTT(30), <1>1, <2>1, BuildAssumption DEF Says, BuildTypeOK, Work, ending
    <2>2. CASE Ends(w)
      BY SMTT(30), <1>1, <2>2 DEF Says, BuildTypeOK, Ends, ending, Returns
    <2> QED  BY SMTT(30), <2>1, <2>2
  <1>3. FamiliesSay'
    <2>1. CASE Work(w)
      BY ZenonT(30), <1>1, <2>1 DEF Says, FamiliesSay, Work, ending
    <2>2. CASE Ends(w)
      <3>1. PICK r \in Returns : wresult' = [wresult EXCEPT ![w] = r] /\ (r = "stopped" => stop)
        BY Zenon, <2>2 DEF Ends, Returns
      <3>2. wpc' = [wpc EXCEPT ![w] = "signalling"]
        BY <2>2 DEF Ends
      <3>3. results[w] = "none" /\ w \in DOMAIN wpc /\ w \in DOMAIN wresult
        BY <1>1 DEF Says, FamiliesSay, BuildTypeOK
      <3>4. r # "none"
        BY DEF Returns
      <3> SUFFICES ASSUME NEW v \in Families
                   PROVE  /\ wpc'[v] \in {"none", "working"} <=> wresult'[v] = "none"
                          /\ results'[v] # "none" => wpc'[v] = "finished" /\ results'[v] = wresult'[v]
                          /\ wresult'[v] = "stopped" => stop'
                          /\ wpc'[v] = "none" <=> buildPc' = "begin" \/ answer' = "scratch"
        BY DEF FamiliesSay
      <3>5. CASE v = w
        <4>1. wpc'[v] = "signalling" /\ wresult'[v] = r /\ results'[v] = "none"
          BY SMTT(30), <1>1, <3>1, <3>2, <3>3, <3>5
        <4>2. ~(buildPc' = "begin" \/ answer' = "scratch")
          BY <1>1 DEF Says, FamiliesSay, ending
        <4> QED  BY Zenon, <1>1, <3>1, <3>4, <4>1, <4>2
      <3>6. CASE v # w
        <4>1. wpc'[v] = wpc[v] /\ wresult'[v] = wresult[v]
          BY <3>1, <3>2, <3>3, <3>6 DEF Says, BuildTypeOK
        <4> QED  BY Zenon, <1>1, <4>1 DEF Says, FamiliesSay, ending
      <3> QED  BY <3>5, <3>6
    <2> QED  BY <2>1, <2>2
  <1>4. ListingSays'
    <2>1. Ended' = Ended
      BY <1>1 DEF Says, BuildTypeOK, Work, Ends, Ended
    <2>2. signals' + buildChan' = Cardinality(Ended')
      BY Zenon, <1>1, <2>1 DEF Says, ListingSays
    <2> QED  BY Zenon, <1>1, <2>2, ListingKept
  <1> QED  BY <1>2, <1>3, <1>4 DEF Says

\* A signal is one more worker at its end; a thread that exits is one already.
LEMMA SignalKeeps ==
    ASSUME Says, NEW w \in Families, Signal(w) \/ Exit(w)
    PROVE  Says'
  <1>1. /\ UNCHANGED <<wresult, done, signals, results, stop, tickError, buildPc, looking, ending>>
        /\ buildChan' = IF wpc[w] = "signalling" THEN buildChan + 1 ELSE buildChan
        /\ wpc[w] \in {"signalling", "exiting"}
        /\ wpc' = [wpc EXCEPT ![w] = IF wpc[w] = "signalling" THEN "exiting" ELSE "finished"]
    BY DEF Signal, Exit
  <1>2. /\ wpc'[w] = (IF wpc[w] = "signalling" THEN "exiting" ELSE "finished")
        /\ \A v \in Families \ {w} : wpc'[v] = wpc[v]
        /\ wpc' \in [Families -> {"none", "working", "signalling", "exiting", "finished"}]
    BY <1>1 DEF Says, BuildTypeOK
  <1>3. BuildTypeOK'
    BY SMTT(30), <1>1, <1>2 DEF Says, BuildTypeOK, ending
  <1>4. FamiliesSay'
    BY <1>1, <1>2 DEF Says, FamiliesSay, ending
  <1>5. ListingSays'
    <2>1. /\ Ended \in SUBSET Families /\ IsFiniteSet(Ended) /\ Cardinality(Ended) \in Nat
          /\ signals + buildChan = Cardinality(Ended) /\ signals \in Nat /\ buildChan \in Nat
      BY FamiliesFinite DEF Ended, Says, ListingSays, BuildTypeOK
    <2>2. CASE wpc[w] = "signalling"
      <3>1. Ended' = Ended \cup {w} /\ w \notin Ended
        BY <1>2, <2>2 DEF Ended
      <3>2. Cardinality(Ended \cup {w}) = Cardinality(Ended) + 1
        BY <2>1, <3>1, FS_AddElement
      <3>3. signals' + buildChan' = Cardinality(Ended')
        BY <1>1, <2>1, <2>2, <3>1, <3>2
      <3> QED  BY Zenon, <1>1, <3>3, ListingKept
    <2>3. CASE wpc[w] = "exiting"
      <3>1. Ended' = Ended
        BY <1>2, <2>3 DEF Ended
      <3>2. signals' + buildChan' = Cardinality(Ended')
        BY <1>1, <2>1, <2>3, <3>1
      <3> QED  BY Zenon, <1>1, <3>2, ListingKept
    <2> QED  BY SMTT(30), <1>1, <2>2, <2>3
  <1> QED  BY <1>3, <1>4, <1>5 DEF Says

----------------------------------------------------------------------------
(* The steps of the listing thread. *)

\* The threads are started, or the lanes could not be begun.
LEMMA BeginKeeps ==
    ASSUME Says, Begin \/ BeginFails
    PROVE  Says'
  <1>1. /\ buildPc = "begin"
        /\ UNCHANGED <<wresult, done, buildChan, signals, results, stop, tickError, looking, poisoned>>
        /\ regions' \in [Families -> {"begun", "cut"}]
    BY SMTT(30) DEF Begin, BeginFails, workerVars
  <1>2. /\ answer = "none" /\ ~stop /\ ~tickError /\ ~poisoned
        /\ \A w \in Families : wpc[w] = "none" /\ wresult[w] = "none" /\ results[w] = "none"
    BY SMTT(30), <1>1 DEF Says, FamiliesSay, ListingSays
  <1>3. Families # {} /\ Ended = {} /\ signals + buildChan = Cardinality({})
    BY <1>1, <1>2, BuildAssumption DEF Says, ListingSays, Ended
  <1>4. CASE Begin
    <2>1. /\ buildPc' = "tick" /\ answer' = "none" /\ wpc' = [w \in Families |-> "working"]
          /\ \A w \in Families : regions'[w] = "begun"
      BY <1>2, <1>4 DEF Begin
    <2>2. BuildTypeOK'
      BY SMTT(30), <1>1, <2>1 DEF Says, BuildTypeOK
    <2>3. FamiliesSay'
      BY <1>1, <1>2, <2>1 DEF FamiliesSay
    <2>4. Ended' = {}
      BY SMTT(30), <2>1 DEF Ended
    <2>5. ListingSays'
      BY SMTT(30), <1>1, <1>2, <1>3, <2>1, <2>4 DEF ListingSays, Failed
    <2> QED  BY SMTT(30), <2>2, <2>3, <2>5 DEF Says
  <1>5. CASE BeginFails
    <2>1. /\ buildPc' = "returned" /\ answer' = "scratch" /\ UNCHANGED wpc
          /\ \A w \in Families : regions'[w] = "cut"
      BY <1>5 DEF BeginFails, workerVars
    <2>2. BuildTypeOK'
      BY SMTT(30), <1>1, <2>1 DEF Says, BuildTypeOK
    <2>3. FamiliesSay'
      BY <1>1, <1>2, <2>1 DEF FamiliesSay
    <2>4. Ended' = {}
      BY SMTT(30), <1>3, <2>1 DEF Ended
    <2>5. ListingSays'
      BY SMTT(30), <1>1, <1>2, <1>3, <2>1, <2>4 DEF ListingSays
    <2> QED  BY <2>2, <2>3, <2>5 DEF Says
  <1> QED  BY <1>4, <1>5

\* A joined result is the one the ended thread returned.
LEMMA JoinKeeps ==
    ASSUME Says, NEW w \in Families, Look(w) \/ JoinWorker(w)
    PROVE  Says'
  <1>1. /\ UNCHANGED <<wpc, wresult, done, buildChan, signals, stop, tickError, buildPc, ending>>
        /\ buildPc \in {"poll", "join"} /\ looking' \subseteq Families
        /\ buildPc = "join" => w \in Unjoined
    BY DEF Look, JoinWorker, workerVars, Says, BuildTypeOK
  <1>2. \/ UNCHANGED results
        \/ wpc[w] = "finished" /\ results' = [results EXCEPT ![w] = wresult[w]]
    BY Zenon DEF Look, JoinWorker
  <1>3. results' \in [Families -> Returns \cup {"none"}]
    BY SMTT(30), <1>2 DEF Says, BuildTypeOK
  <1>4. BuildTypeOK'
    BY SMTT(30), <1>1, <1>3 DEF Says, BuildTypeOK, ending
  <1>5. FamiliesSay'
    BY SMTT(30), <1>1, <1>2 DEF Says, FamiliesSay, ending, BuildTypeOK
  <1>6. ListingSays'
    <2>1. Ended' = Ended /\ signals' + buildChan' = Cardinality(Ended') /\ buildPc # "returned" /\ answer = "none"
      BY <1>1 DEF Ended, Says, ListingSays
    <2>2. ASSUME stop
          PROVE  \/ tickError \/ (\E v \in Families : Failed(results'[v]))
                 \/ \A v \in Families : results'[v] = "family"
      <3>1. buildPc = "join" /\ w \in Unjoined
        BY Zenon, <1>1, <2>1, <2>2 DEF Says, ListingSays
      <3>2. \A v \in Families \ {w} : results'[v] = results[v]
        BY <1>2 DEF Says, BuildTypeOK
      <3>3. results[w] = "none"
        BY <3>1 DEF Unjoined, Joined
      <3>4. tickError \/ (\E v \in Families : Failed(results[v]))
        <4>1. ~\A v \in Families : results[v] = "family"
          BY <3>3
        <4> QED  BY Zenon, <2>2, <4>1 DEF Says, ListingSays
      <3>5. ~Failed(results[w])
        BY SMTT(30), <3>3 DEF Failed
      <3> QED  BY Zenon, <3>2, <3>4, <3>5
    <2>3. /\ stop <=> buildPc \in {"join", "returned"}
          /\ tickError => stop /\ ~poisoned
          /\ \A v \in Families : buildPc # "begin" => regions[v] = "begun"
      BY <1>1, <2>1 DEF Says, ListingSays
    <2> QED  BY ZenonT(30), <1>1, <2>1, <2>2, <2>3 DEF Says, ListingSays, ending
  <1> QED  BY <1>4, <1>5, <1>6 DEF Says

\* The loop of the listing thread: it leaves the workers alone, goes on while
\* nothing has failed, and sets the flag as it leaves the loop.
LEMMA LoopKeeps ==
    ASSUME Says, Tick \/ Looked \/ Decide \/ ReceiveSignal \/ SignalTimeout \/ UNCHANGED buildVars
    PROVE  Says'
  <1>1. UNCHANGED <<wpc, wresult, done, results, regions, poisoned, answer>>
    BY DEF Tick, Looked, Decide, ReceiveSignal, SignalTimeout, buildVars, workerVars, ending
  <1>2. CASE UNCHANGED buildVars
    <2>1. BuildTypeOK' /\ FamiliesSay'
      BY Zenon, <1>2 DEF Says, BuildTypeOK, FamiliesSay, buildVars
    <2> QED  BY Zenon, <1>2, <2>1, ListingKept DEF Says, buildVars, ending, Ended, ListingSays
  <1>3. CASE Tick \/ Looked \/ Decide \/ ReceiveSignal \/ SignalTimeout
    <2>1. buildPc \in {"tick", "poll", "decide", "wait"} /\ buildPc' \in {"tick", "poll", "decide", "wait", "join"}
      BY SMTT(30), <1>3 DEF Tick, Looked, Decide, ReceiveSignal, SignalTimeout
    <2>2. answer = "none" /\ ~stop /\ ~tickError /\ ~poisoned /\ \A w \in Families : regions[w] = "begun"
      BY <2>1 DEF Says, ListingSays
    <2>a. stop = FALSE /\ tickError = FALSE
      BY ZenonT(30), <2>2 DEF Says, BuildTypeOK
    <2>3. /\ signals' + buildChan' = signals + buildChan /\ buildChan' \in Nat /\ signals' \in Nat
          /\ looking' \subseteq Families
      BY SMTT(30), <1>3 DEF Tick, Looked, Decide, ReceiveSignal, SignalTimeout, Says, BuildTypeOK, Unjoined
    <2>4. /\ stop' <=> buildPc' = "join"
          /\ tickError' => stop'
          /\ stop' \in BOOLEAN /\ tickError' \in BOOLEAN
          /\ stop' => \/ tickError' \/ (\E w \in Families : Failed(results[w]))
                      \/ \A w \in Families : results[w] = "family"
          /\ buildPc' \in {"tick", "wait"} => \A w \in Families : ~Failed(results[w])
      <3>1. CASE Tick
        <4>1. \/ buildPc' = "poll" /\ tickError' = FALSE /\ stop' = FALSE
              \/ buildPc' = "join" /\ tickError' = TRUE /\ stop' = TRUE
          BY SMTT(30), <2>a, <3>1 DEF Tick
        <4> QED  BY Zenon, <4>1
      <3>2. CASE Decide
        <4>1. \A w \in Families : results[w] # "stopped"
          BY <2>2 DEF Says, FamiliesSay
        <4> DEFINE over == (\E w \in Joined : Failed(results[w])) \/ Unjoined = {}
        <4>2. tickError' = FALSE /\ buildPc' = (IF over THEN "join" ELSE "wait") /\ stop' = over
          BY Zenon, <2>a, <3>2 DEF Decide
        <4>7. over \in BOOLEAN
          BY DEF over
        <4>3. \A w \in Families : results[w] \in Returns \/ w \in Unjoined
          BY DEF Says, BuildTypeOK, Unjoined, Joined
        <4>4. \A w \in Families : Failed(results[w]) => w \in Joined
          BY DEF Failed, Joined
        <4>5. ASSUME Unjoined = {}, \A w \in Families : ~Failed(results[w])
              PROVE  \A w \in Families : results[w] = "family"
          BY <4>1, <4>3, <4>5 DEF Returns, Failed
        <4>6. Joined \subseteq Families
          BY DEF Joined
        <4>8. CASE over
          <5>1. tickError' = FALSE /\ buildPc' = "join" /\ stop' = TRUE
            BY Zenon, <4>2, <4>7, <4>8
          <5>2. (\E w \in Families : Failed(results[w])) \/ \A w \in Families : results[w] = "family"
            BY <4>5, <4>6, <4>8
          <5> QED  BY Zenon, <5>1, <5>2
        <4>9. CASE ~over
          <5>1. tickError' = FALSE /\ buildPc' = "wait" /\ stop' = FALSE
            BY Zenon, <4>2, <4>7, <4>9
          <5>2. \A w \in Families : ~Failed(results[w])
            BY <4>4, <4>9
          <5> QED  BY Zenon, <5>1, <5>2
        <4> QED  BY <4>8, <4>9
      <3>3. CASE Looked
        <4>1. tickError' = FALSE /\ stop' = FALSE /\ buildPc' \in {"decide", "poll"}
          BY <2>a, <3>3 DEF Looked
        <4> QED  BY Zenon, <4>1
      <3>4. CASE ReceiveSignal \/ SignalTimeout
        <4>1. tickError' = FALSE /\ stop' = FALSE /\ buildPc' = "tick" /\ buildPc = "wait"
          BY <2>a, <3>4 DEF ReceiveSignal, SignalTimeout
        <4>2. \A w \in Families : ~Failed(results[w])
          BY Zenon, <4>1 DEF Says, ListingSays
        <4> QED  BY Zenon, <4>1, <4>2
      <3> QED  BY <1>3, <3>1, <3>2, <3>3, <3>4
    <2>5. BuildTypeOK'
      BY SMTT(30), <1>1, <2>1, <2>2, <2>3, <2>4 DEF Says, BuildTypeOK
    <2>6. FamiliesSay'
      BY SMTT(30), <1>1, <2>1, <2>2 DEF Says, FamiliesSay
    <2>7. ListingSays'
      <3>1. Ended' = Ended /\ signals' + buildChan' = Cardinality(Ended')
        BY <1>1, <2>3 DEF Ended, Says, ListingSays
      <3> QED  BY SMTT(30), <1>1, <2>1, <2>2, <2>4, <3>1 DEF ListingSays
    <2> QED  BY SMTT(30), <2>5, <2>6, <2>7 DEF Says
  <1> QED  BY SMTT(30), <1>2, <1>3

\* The answer is made of the results of all threads, and the lanes are handed
\* on or cut by it.
LEMMA ReturnKeeps ==
    ASSUME Says, Return
    PROVE  Says'
  <1>1. /\ buildPc = "join" /\ buildPc' = "returned" /\ Unjoined = {} /\ answer' = BuildAnswer
        /\ poisoned' = (answer' \in {"failed", "panic"})
        /\ regions' = [w \in Families |-> IF answer' = "families" THEN "kept" ELSE "cut"]
        /\ UNCHANGED <<wpc, wresult, done, buildChan, signals, results, stop, tickError, looking>>
    BY SMTT(30) DEF Return, workerVars
  <1>2. /\ BuildAnswer \in {"tick", "failed", "panic", "nocause", "families"} /\ BuildAnswer # "none"
        /\ BuildAnswer # "scratch" /\ answer = "none"
    BY SMTT(30), <1>1 DEF BuildAnswer, Says, ListingSays
  <1>3. BuildTypeOK'
    BY SMTT(30), <1>1, <1>2 DEF Says, BuildTypeOK
  <1>4. FamiliesSay'
    BY <1>1, <1>2 DEF Says, FamiliesSay
  <1>5. ListingSays'
    <2>1. Ended' = Ended /\ Unjoined' = Unjoined /\ BuildAnswer' = BuildAnswer
      BY Zenon, <1>1 DEF Ended, Unjoined, Joined, BuildAnswer, Failure, Panicked
    <2>2. stop = TRUE /\ stop' = TRUE /\ UNCHANGED <<tickError, results>>
      <3>1. answer # "scratch"
        BY <1>2
      <3>2. stop
        BY Zenon, <1>1, <3>1 DEF Says, ListingSays
      <3> QED  BY Zenon, <1>1, <3>2 DEF Says, BuildTypeOK
    <2>3. \/ tickError \/ (\E w \in Families : Failed(results[w]))
          \/ \A w \in Families : results[w] = "family"
      BY Zenon, <2>2 DEF Says, ListingSays
    <2>4. signals' + buildChan' = Cardinality(Ended')
      BY <1>1, <2>1 DEF Says, ListingSays
    <2>5. answer' # "none" /\ answer' # "scratch" /\ answer' = BuildAnswer'
      BY <1>1, <1>2, <2>1
    <2> HIDE DEF BuildAnswer
    <2>6. buildPc' = "returned" /\ Unjoined' = {} /\ (poisoned' <=> answer' \in {"failed", "panic"})
      BY Zenon, <1>1, <2>1
    <2>7. \A w \in Families : regions'[w] = IF answer' = "families" THEN "kept" ELSE "cut"
      BY <1>1
    <2>8. \/ tickError' \/ (\E w \in Families : Failed(results'[w]))
          \/ \A w \in Families : results'[w] = "family"
      BY Zenon, <2>2, <2>3
    <2> QED  BY Zenon, <2>2, <2>4, <2>5, <2>6, <2>7, <2>8 DEF ListingSays
  <1> QED  BY SMTT(30), <1>3, <1>4, <1>5 DEF Says

----------------------------------------------------------------------------
(* The theorems. *)

\* The build starts with nothing begun.
LEMMA BuildStart == BuildInit => Says
  <1> SUFFICES ASSUME BuildInit
               PROVE  Says
    OBVIOUS
  <1>1. BuildTypeOK
    <2>1. Items \in Nat
      BY BuildAssumption
    <2>2. done \in [Families -> 0 .. Items]
      <3>1. 0 \in 0 .. Items
        BY <2>1
      <3> QED  BY <3>1 DEF BuildInit
    <2>3. {stop, tickError, poisoned} \subseteq BOOLEAN
      BY Zenon DEF BuildInit
    <2> QED  BY <2>2, <2>3 DEF BuildInit, BuildTypeOK
  <1>2. FamiliesSay
    BY DEF BuildInit, FamiliesSay
  <1>3. ListingSays
    <2>1. Ended = {}
      BY DEF BuildInit, Ended
    <2> QED  BY <2>1, FS_EmptySet, BuildAssumption DEF BuildInit, ListingSays, Failed
  <1> QED  BY <1>1, <1>2, <1>3 DEF Says

\* Every step keeps it.
LEMMA BuildStep == Says /\ [BuildNext]_buildVars => Says'
  <1> SUFFICES ASSUME Says, [BuildNext]_buildVars
               PROVE  Says'
    OBVIOUS
  <1>1. ASSUME NEW w \in Families, BuildThread(w) PROVE Says'
    BY Zenon, <1>1, WorkKeeps, SignalKeeps DEF BuildThread
  <1>2. CASE Listing
    BY Zenon, <1>2, BeginKeeps, JoinKeeps, LoopKeeps, ReturnKeeps DEF Listing
  <1>3. CASE UNCHANGED buildVars
    BY Zenon, <1>3, LoopKeeps
  <1> QED  BY Zenon, <1>1, <1>2, <1>3 DEF BuildNext, Finished

\* build_two in any order of its threads, for any families: a lane is not cut
\* or handed on under its writer, either every family is handed on or every
\* lane is cut, no build stops without a cause, and the scratch space is
\* poisoned exactly by a worker's own failure.
THEOREM BuildIsSafe == BuildSpec => []BuildInv
  <1>1. BuildSpec => []Says
    BY BuildStart, BuildStep, PTL DEF BuildSpec
  <1>2. Says => BuildInv
    BY Zenon, Promises DEF Says, BuildInv
  <1> QED  BY <1>1, <1>2, PTL

\* The listing thread beats the lock between two waits, and does not wait once
\* it has joined a failure.
THEOREM BuildStepsKept == BuildSpec => BuildSteps
  <1>1. Says /\ [BuildNext]_buildVars => (buildPc = "wait" /\ buildPc' # "wait" => buildPc' = "tick")
    BY ZenonT(30) DEF BuildNext, Listing, BuildThread, Finished, Begin, BeginFails, Tick, Look, JoinWorker, Looked, Decide,
       ReceiveSignal, SignalTimeout, Return, Work, Ends, Signal, Exit, buildVars
  <1>2. Says /\ [BuildNext]_buildVars => ((\E w \in Families : Failed(results[w])) => buildPc' # "wait")
    <2> SUFFICES ASSUME Says, [BuildNext]_buildVars, \E w \in Families : Failed(results[w])
                 PROVE  buildPc' # "wait"
      BY SMTT(30)
    <2>1. buildPc # "wait"
      BY DEF Says, ListingSays
    <2>2. \E w \in Joined : Failed(results[w])
      BY DEF Joined, Failed
    <2> QED  BY <2>1, <2>2 DEF BuildNext, Listing, BuildThread, Finished, Begin, BeginFails, Tick, Look, JoinWorker,
                Looked, Decide, ReceiveSignal, SignalTimeout, Return, Work, Ends, Signal, Exit, buildVars
  <1>3. BuildSpec => []Says
    BY BuildStart, BuildStep, PTL DEF BuildSpec
  <1>4. BuildSpec => TickBetweenWaits
    BY <1>1, <1>3, PTL DEF BuildSpec, TickBetweenWaits
  <1>5. BuildSpec => FailureIsNoticed
    BY <1>2, <1>3, PTL DEF BuildSpec, FailureIsNoticed
  <1> QED  BY SMTT(30), <1>4, <1>5 DEF BuildSteps

=============================================================================
