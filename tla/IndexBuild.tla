----------------------------- MODULE IndexBuild -----------------------------
(***************************************************************************)
(* build_two (index.rs): the families of a directory are finished on       *)
(* worker threads while the listing thread keeps beating the operation     *)
(* lock.  A worker signals on a channel as its last act and its thread     *)
(* ends a little later; the listing thread ticks, collects ended threads,  *)
(* waits for a signal or for 250 ms, and tells every worker to stop as     *)
(* soon as one fails or a tick does.                                       *)
(***************************************************************************)
EXTENDS Naturals, Sequences, FiniteSets

CONSTANTS
    Families,   \* the families that are not empty: a subset of {"names", "inodes"}
    Items       \* bound: checks of the stop flag a worker makes

ASSUME BuildAssumption == IsFiniteSet(Families) /\ Families # {} /\ Items \in Nat

VARIABLES
    wpc, wresult, done,   \* a worker: where it is, what it returns, items done
    buildChan, signals,   \* signals sent and not received; received
    results,              \* the results joined
    stop, tickError,
    buildPc, looking,     \* the listing thread; the handles left to look at
    regions,              \* lane -> "begun", "kept" or "cut"
    poisoned, answer

buildVars == <<wpc, wresult, done, buildChan, signals, results, stop, tickError, buildPc, looking,
               regions, poisoned, answer>>
workerVars == <<wpc, wresult, done>>
ending == <<regions, poisoned, answer>>

----------------------------------------------------------------------------
\* A worker: PendingRuns::finish between two looks at the stop flag

Work(w) ==
    /\ wpc[w] = "working" /\ ~ stop /\ done[w] < Items
    /\ done' = [done EXCEPT ![w] = @ + 1]
    /\ UNCHANGED <<wpc, wresult, buildChan, signals, results, stop, tickError, buildPc, looking, ending>>

\* It ends: with a family, an error or a panic of its own, or because it saw
\* the flag.
Ends(w) ==
    /\ wpc[w] = "working"
    /\ \E r \in {"family", "failed", "panic", "stopped"} :
         /\ r = "stopped" => stop
         /\ r = "family" => done[w] = Items
         /\ wresult' = [wresult EXCEPT ![w] = r]
    /\ wpc' = [wpc EXCEPT ![w] = "signalling"]
    /\ UNCHANGED <<done, buildChan, signals, results, stop, tickError, buildPc, looking, ending>>

\* Done::drop, on every way out of the closure.
\* mutant: the guard is dropped as the closure starts.
Signal_dropped(w) ==
    \/ /\ wpc[w] = "signalling"
       /\ wpc' = [wpc EXCEPT ![w] = "exiting"]
       /\ buildChan' = IF done[w] > 0 THEN buildChan ELSE buildChan + 1
       /\ UNCHANGED <<wresult, done, signals, results, stop, tickError, buildPc, looking, ending>>
    \/ /\ wpc[w] = "working" /\ done[w] = 0 /\ done' = [done EXCEPT ![w] = 1]
       /\ buildChan' = buildChan + 1
       /\ UNCHANGED <<wpc, wresult, signals, results, stop, tickError, buildPc, looking, ending>>
Signal(w) ==
    /\ wpc[w] = "signalling"
    /\ wpc' = [wpc EXCEPT ![w] = "exiting"]
    /\ buildChan' = buildChan + 1
    /\ UNCHANGED <<wresult, done, signals, results, stop, tickError, buildPc, looking, ending>>
Exit(w) ==
    /\ wpc[w] = "exiting"
    /\ wpc' = [wpc EXCEPT ![w] = "finished"]
    /\ UNCHANGED <<wresult, done, buildChan, signals, results, stop, tickError, buildPc, looking, ending>>

----------------------------------------------------------------------------
\* The listing thread

Joined == {w \in Families : results[w] # "none"}
Unjoined == Families \ Joined

\* The regions are begun in order, before any thread; begin or lane_file may fail.
Begin ==
    /\ buildPc = "begin"
    /\ buildPc' = "tick"
    /\ regions' = [w \in Families |-> "begun"]
    /\ wpc' = [w \in Families |-> "working"]
    /\ UNCHANGED <<wresult, done, buildChan, signals, results, stop, tickError, looking, poisoned, answer>>
BeginFails ==
    /\ buildPc = "begin"
    /\ buildPc' = "returned" /\ answer' = "scratch"
    /\ regions' = [w \in Families |-> "cut"]
    /\ UNCHANGED <<workerVars, buildChan, signals, results, stop, tickError, looking, poisoned>>

Tick ==
    /\ buildPc = "tick"
    /\ \/ buildPc' = "poll" /\ looking' = Unjoined /\ UNCHANGED <<tickError, stop>>
       \/ buildPc' = "join" /\ tickError' = TRUE /\ stop' = TRUE /\ UNCHANGED looking
    /\ UNCHANGED <<workerVars, buildChan, signals, results, ending>>

\* A look at one handle: an ended thread is joined.
Look(w) ==
    /\ buildPc = "poll" /\ w \in looking
    /\ looking' = looking \ {w}
    /\ results' = IF wpc[w] = "finished" THEN [results EXCEPT ![w] = wresult[w]] ELSE results
    /\ UNCHANGED <<workerVars, buildChan, signals, stop, tickError, buildPc, ending>>

\* Every handle looked at: again while a signalled worker's thread has not ended.
Looked ==
    /\ buildPc = "poll" /\ looking = {}
    /\ IF Cardinality(Joined) >= signals
       THEN buildPc' = "decide" /\ UNCHANGED looking
       ELSE looking' = Unjoined /\ UNCHANGED buildPc
    /\ UNCHANGED <<workerVars, buildChan, signals, results, stop, tickError, ending>>

Failed(r) == r \in {"failed", "panic"}
\* mutant: a panic is not looked for while another worker runs.
Decide_errors ==
    /\ buildPc = "decide"
    /\ LET over == (\E w \in Joined : results[w] = "failed") \/ Unjoined = {}
       IN  /\ buildPc' = IF over THEN "join" ELSE "wait"
           /\ stop' = over
    /\ UNCHANGED <<workerVars, buildChan, signals, results, tickError, looking, ending>>
Decide ==
    /\ buildPc = "decide"
    /\ LET over == (\E w \in Joined : Failed(results[w])) \/ Unjoined = {}
       IN  /\ buildPc' = IF over THEN "join" ELSE "wait"
           /\ stop' = over
    /\ UNCHANGED <<workerVars, buildChan, signals, results, tickError, looking, ending>>

\* recv_timeout.
ReceiveSignal ==
    /\ buildPc = "wait" /\ buildChan > 0
    /\ buildChan' = buildChan - 1 /\ signals' = signals + 1 /\ buildPc' = "tick"
    /\ UNCHANGED <<workerVars, results, stop, tickError, looking, ending>>
SignalTimeout ==
    /\ buildPc = "wait" /\ buildChan = 0
    /\ buildPc' = "tick"
    /\ UNCHANGED <<workerVars, buildChan, signals, results, stop, tickError, looking, ending>>

\* The handles left are joined, whatever they return.
JoinWorker(w) ==
    /\ buildPc = "join" /\ w \in Unjoined /\ wpc[w] = "finished"
    /\ results' = [results EXCEPT ![w] = wresult[w]]
    /\ UNCHANGED <<workerVars, buildChan, signals, stop, tickError, buildPc, looking, ending>>

\* What the results say: a tick error first, then a worker's error, then a
\* panic; only a worker's own failure poisons the scratch space.
Failure == \E w \in Families : results[w] = "failed"
Panicked == \E w \in Families : results[w] = "panic"
BuildAnswer ==
    IF tickError THEN "tick"
    ELSE IF Failure THEN "failed"
    ELSE IF Panicked THEN "panic"
    ELSE IF \E w \in Families : results[w] = "stopped" THEN "nocause"
    ELSE "families"
Return ==
    /\ buildPc = "join" /\ Unjoined = {}
    /\ answer' = BuildAnswer
    /\ poisoned' = (answer' \in {"failed", "panic"})
    /\ regions' = [w \in Families |-> IF answer' = "families" THEN "kept" ELSE "cut"]
    /\ buildPc' = "returned"
    /\ UNCHANGED <<workerVars, buildChan, signals, results, stop, tickError, looking>>

----------------------------------------------------------------------------
BuildInit ==
    /\ wpc = [w \in Families |-> "none"] /\ wresult = [w \in Families |-> "none"]
    /\ done = [w \in Families |-> 0]
    /\ buildChan = 0 /\ signals = 0 /\ results = [w \in Families |-> "none"]
    /\ stop = FALSE /\ tickError = FALSE /\ buildPc = "begin" /\ looking = {}
    /\ regions = [w \in Families |-> "none"] /\ poisoned = FALSE /\ answer = "none"

Listing == Begin \/ BeginFails \/ Tick \/ (\E w \in Families : Look(w) \/ JoinWorker(w)) \/ Looked
           \/ Decide \/ ReceiveSignal \/ SignalTimeout \/ Return
BuildThread(w) == Work(w) \/ Ends(w) \/ Signal(w) \/ Exit(w)
Finished == buildPc = "returned" /\ UNCHANGED buildVars

BuildNext == Listing \/ (\E w \in Families : BuildThread(w)) \/ Finished

BuildSpec == BuildInit /\ [][BuildNext]_buildVars

----------------------------------------------------------------------------
\* What the build promises

Returns == {"family", "failed", "panic", "stopped"}
BuildTypeOK ==
    /\ wpc \in [Families -> {"none", "working", "signalling", "exiting", "finished"}]
    /\ wresult \in [Families -> Returns \cup {"none"}] /\ results \in [Families -> Returns \cup {"none"}]
    /\ done \in [Families -> 0 .. Items]
    /\ buildChan \in Nat /\ signals \in Nat /\ {stop, tickError, poisoned} \subseteq BOOLEAN
    /\ buildPc \in {"begin", "tick", "poll", "decide", "wait", "join", "returned"} /\ looking \subseteq Families
    /\ regions \in [Families -> {"none", "begun", "kept", "cut"}]
    /\ answer \in {"none", "scratch", "tick", "failed", "panic", "nocause", "families"}

\* The listing thread never waits in the inner loop for a thread that is still
\* working: whatever it counted as signalled is about to end.
SignalsAreEndings ==
    signals <= Cardinality({w \in Families : wpc[w] \in {"exiting", "finished"}})

\* A lane is cut back, or handed on, only once no thread writes to it.
RegionOutlivesWriter ==
    \A w \in Families : regions[w] \in {"kept", "cut"} => wpc[w] \in {"none", "finished"}

\* Either both families are handed on, each finished by its worker, or every
\* lane is back at its start; and a build that is not told to stop by an error
\* of its own is never told "stopped without a cause".
AllOrNothing ==
    buildPc = "returned" =>
        /\ answer # "nocause"
        /\ answer = "families" => \A w \in Families : results[w] = "family" /\ regions[w] = "kept"
        /\ answer # "families" => \A w \in Families : regions[w] = "cut"

\* The space is poisoned exactly when a worker's own failure is what the caller
\* is told; a failed tick stops the run and leaves the scratch usable.
PoisonIsTheWorkers ==
    buildPc = "returned" => /\ poisoned <=> answer \in {"failed", "panic"}
                            /\ tickError => answer = "tick" /\ ~ poisoned
                            /\ ~ tickError => (poisoned <=> Failure \/ Panicked)

\* The lock is beaten between any two waits of the listing thread.
TickBetweenWaits == [][buildPc = "wait" /\ buildPc' # "wait" => buildPc' = "tick"]_buildVars

\* Once a worker's failure has been joined the listing thread waits no more:
\* the other worker is stopped, not waited for.
FailureIsNoticed == [][(\E w \in Families : Failed(results[w])) => buildPc' # "wait"]_buildVars

\* The steps of the build: a tick between two waits, and no wait after a failure.
BuildSteps == TickBetweenWaits /\ FailureIsNoticed

----------------------------------------------------------------------------
\* The inductive invariant behind the promises

\* A worker has a result once it signals, and what is joined is the result of a
\* thread that ended.
FamiliesSay ==
    \A w \in Families :
        /\ wpc[w] \in {"none", "working"} <=> wresult[w] = "none"
        /\ results[w] # "none" => wpc[w] = "finished" /\ results[w] = wresult[w]
        /\ wresult[w] = "stopped" => stop
        /\ wpc[w] = "none" <=> buildPc = "begin" \/ answer = "scratch"

\* Every signal is a worker at its end; the flag is set on the way out, for a
\* reason that the results show.
Ended == {w \in Families : wpc[w] \in {"exiting", "finished"}}
ListingSays ==
    /\ signals + buildChan = Cardinality(Ended)
    /\ buildPc = "returned" <=> answer # "none"
    /\ stop <=> buildPc \in {"join", "returned"} /\ answer # "scratch"
    /\ tickError => stop
    /\ stop => \/ tickError \/ (\E w \in Families : Failed(results[w]))
               \/ \A w \in Families : results[w] = "family"
    /\ buildPc = "returned" /\ answer # "scratch" => Unjoined = {} /\ answer = BuildAnswer
    /\ poisoned <=> answer \in {"failed", "panic"}
    /\ buildPc \in {"tick", "wait"} => \A w \in Families : ~ Failed(results[w])
    /\ \A w \in Families :
         /\ buildPc = "begin" => regions[w] = "none"
         /\ buildPc \notin {"begin", "returned"} => regions[w] = "begun"
         /\ buildPc = "returned" => regions[w] = IF answer = "families" THEN "kept" ELSE "cut"

\* The build is safe in every order of its threads.
BuildInv ==
    /\ BuildTypeOK /\ FamiliesSay /\ ListingSays
    /\ SignalsAreEndings /\ RegionOutlivesWriter /\ AllOrNothing /\ PoisonIsTheWorkers
=============================================================================
