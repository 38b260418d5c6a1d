---------------------------- MODULE MCDestLock ----------------------------
\* The destination lock for TLC: three runs on an undisturbed lock path, and two whose lock file may be removed
\* by hand.
EXTENDS DestLock, TLC

CONSTANTS p1, p2, p3

\* The scenario is chosen once; the variables of the components it does not use keep one value.
VARIABLES scenario, removedLockPath, removedBroken, removedContent, removedOsLock, removedPc, removedHandle,
          removedOld, removedSeen, removedTries, removedAttempts, removedRounds, removedDest, removedLate,
          removedRemovals

removedVars == <<removedLockPath, removedBroken, removedContent, removedOsLock, removedPc, removedHandle,
    removedOld, removedSeen, removedTries, removedAttempts, removedRounds, removedDest, removedLate,
    removedRemovals>>

\* A plain run, a --break-lock run and a cleanup on a path nobody disturbs; and the last two under whose hands the lock
\* file is removed.
PlainBreakCleanup == p1 :> "plain" @@ p2 :> "break" @@ p3 :> "cleanup"
BreakAndCleanup == p2 :> "break" @@ p3 :> "cleanup"

Removed == INSTANCE DestLock WITH Proc <- {p2, p3}, Mode <- BreakAndCleanup, OwnLockTries <- 1,
    MaxAttempts <- 2, MaxRemovals <- 1, lockPath <- removedLockPath, broken <- removedBroken,
    content <- removedContent, osLock <- removedOsLock, pc <- removedPc, handle <- removedHandle,
    old <- removedOld, seen <- removedSeen, tries <- removedTries, attempts <- removedAttempts,
    rounds <- removedRounds, dest <- removedDest, late <- removedLate, removals <- removedRemovals

RemovedIdle == removedLockPath = None /\ removedBroken = None /\ removedContent = None /\ removedOsLock = None
    /\ removedPc = None /\ removedHandle = None /\ removedOld = None /\ removedSeen = None /\
    removedTries = None /\ removedAttempts = None /\ removedRounds = None /\ removedDest = None /\
    removedLate = None /\ removedRemovals = None
DestLockIdle == Init /\ lockPath = None

MCInit ==
    \/ scenario = "kept" /\ Init /\ RemovedIdle
    \/ scenario = "removed" /\ Removed!Init /\ DestLockIdle

MCNext ==
    \/ scenario = "kept" /\ Next /\ UNCHANGED <<scenario, removedVars>>
    \/ scenario = "removed" /\ Removed!Next /\ UNCHANGED <<scenario, vars>>

MCvars == <<scenario, removedVars, vars>>
MCSpec == MCInit /\ [][MCNext]_MCvars

-----------------------------------------------------------------------------
\* When a lock file is removed by hand under a live run, that run's guard lets
\* at most the one write through that it had already allowed.
RemovedLateWritesBounded ==
    scenario = "removed" => Removed!LateWritesBounded /\ Removed!StaleBounded

\* Lock files are interchangeable.
FileSymmetry == Permutations(File)
=============================================================================
