----------------------------- MODULE MCContend -----------------------------
\* Runs that contend for one destination, for TLC: whoever comes to be alone gets through in the end.
EXTENDS Naturals, TLC

CONSTANTS Unused, first, second

\* The scenario is chosen once; the variables of the components it does not use keep one value.
VARIABLES scenario, lockPath, broken, content, osLock, lockPc, handle, old, seen, tries, attempts, rounds, dest,
          late, lockRemovals, holder, lockFile, op, opPc, ok, job, outcome, faults, opRemovals

lockVars == <<lockPath, broken, content, osLock, lockPc, handle, old, seen, tries, attempts, rounds, dest, late,
    lockRemovals>>
opVars == <<holder, lockFile, op, opPc, ok, job, outcome, faults, opRemovals>>

\* The runs that share a destination: one plain, one that breaks locks.
Pair == {first, second}
Asked == first :> "plain" @@ second :> "break"

Lock == INSTANCE DestLock WITH Proc <- Pair, File <- {"f1", "f2", "f3"}, Mode <- Asked, Verdicts <- {"Trusted"},
    DirLock <- {FALSE}, OwnLockTries <- 2, MaxAttempts <- 2, MaxRemovals <- 0, pc <- lockPc,
    removals <- lockRemovals
Operations ==
    [failing |-> [MaxFaults |-> 1, MaxRemovals |-> 0],
     removed |-> [MaxFaults |-> 0, MaxRemovals |-> 1]]
Op(s) == INSTANCE Operation WITH Run <- Pair, Flag <- Asked, Kind <- "tree", MaxRounds <- 2,
    MaxFaults <- Operations[s].MaxFaults, MaxRemovals <- Operations[s].MaxRemovals, pc <- opPc,
    removals <- opRemovals

LockIdle == lockPath = Unused /\ broken = Unused /\ content = Unused /\ osLock = Unused /\ lockPc = Unused /\
    handle = Unused /\ old = Unused /\ seen = Unused /\ tries = Unused /\ attempts = Unused /\ rounds = Unused
    /\ dest = Unused /\ late = Unused /\ lockRemovals = Unused
OpIdle == holder = Unused /\ lockFile = Unused /\ op = Unused /\ opPc = Unused /\ ok = Unused /\ job = Unused /\
    outcome = Unused /\ faults = Unused /\ opRemovals = Unused
Now(table) == {scenario} \cap DOMAIN table

Init ==
    \/ scenario = "lock" /\ Lock!Init /\ OpIdle
    \/ \E s \in DOMAIN Operations : scenario = s /\ Op(s)!Init /\ LockIdle

Next ==
    \/ scenario = "lock" /\ Lock!Next /\ UNCHANGED <<scenario, opVars>>
    \/ (\E s \in Now(Operations) : Op(s)!Next) /\ UNCHANGED <<scenario, lockVars>>

vars == <<scenario, lockVars, opVars>>
Spec == Init /\ [][Next]_vars

\* A run that can take its next step takes it, and its copy ends: the lock code never waits for another run, it only
\* tries again a bounded number of times, and the source is finite.  Nothing forces a failure, a crash or a removal.
FairSpec ==
    /\ Spec
    /\ \A p \in Pair : WF_lockVars(scenario = "lock" /\ Lock!Step(p))
    /\ \A p \in Pair : WF_opVars(\E s \in Now(Operations) : Op(s)!Proceed(p))
    /\ \A p \in Pair : WF_opVars(\E s \in Now(Operations) : Op(s)!copy_ends(p))

-----------------------------------------------------------------------------
\* Wherever the other run died or stopped, a run that starts alone gets the lock: over a free path, over a dead owner's
\* record with a trusted workspace, and with --break-lock over an unreadable lock.  Unless it dies itself, or another
\* program's file takes the path.
LoneRunObtains ==
    \A p \in Pair : scenario = "lock" /\ Lock!LoneStart(p) ~> scenario = "lock" /\ Lock!Obtained(p)

\* Every run of an operation ends: no refusal, retry or lost lock leaves it turning.  And whatever crashes, failures and
\* lost locks left behind, --restart --break-lock gets a copy through once nothing else runs, unless a call fails or a
\* lock is removed meanwhile.
RunsGetThrough ==
    /\ []<>(scenario \in DOMAIN Operations => \A p \in Pair : opPc[p] \in {"ended", "dead"})
    /\ \A n \in 0..1 : (\E s \in Now(Operations) : Op(s)!LoneStart(second, n))
                          ~> \E s \in Now(Operations) : Op(s)!GotThrough(second, n)
=============================================================================
