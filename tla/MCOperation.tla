---------------------------- MODULE MCOperation ----------------------------
\* The lifecycle of an operation for TLC: a plain run, a resume and a restart of one tree; and, on variables of
\* their own, runs with a cleanup among them, the copy of a single file, and a --break-lock run under removals by
\* hand.
EXTENDS Operation, TLC

CONSTANTS a, b, c

\* The scenario is chosen once; the variables of the components it does not use keep one value.
VARIABLES scenario, besideHolder, besideLockFile, besideOp, besidePc, besideOk, besideJob, besideOutcome,
          besideFaults, besideRemovals

besideVars == <<besideHolder, besideLockFile, besideOp, besidePc, besideOk, besideJob, besideOutcome,
    besideFaults, besideRemovals>>

PlainResumeRestart == a :> "plain" @@ b :> "resume" @@ c :> "restart"
PlainResumeCleanup == a :> "plain" @@ b :> "resume" @@ c :> "cleanup"
PlainBreak         == a :> "plain" @@ b :> "break"

Besides ==
    [cleanup |-> [Run |-> {a, b, c}, Flag |-> PlainResumeCleanup, Kind |-> "tree", MaxRounds |-> 1,
                  MaxRemovals |-> 0],
     file |-> [Run |-> {a, b, c}, Flag |-> PlainResumeRestart, Kind |-> "file", MaxRounds |-> 1,
               MaxRemovals |-> 0],
     removed |-> [Run |-> {a, b}, Flag |-> PlainBreak, Kind |-> "tree", MaxRounds |-> 1, MaxRemovals |-> 1]]
Beside(s) == INSTANCE Operation WITH Run <- Besides[s].Run, Flag <- Besides[s].Flag, Kind <- Besides[s].Kind,
    MaxRounds <- Besides[s].MaxRounds, MaxFaults <- 1, MaxRemovals <- Besides[s].MaxRemovals,
    holder <- besideHolder, lockFile <- besideLockFile, op <- besideOp, pc <- besidePc, ok <- besideOk,
    job <- besideJob, outcome <- besideOutcome, faults <- besideFaults, removals <- besideRemovals

BesideIdle == besideHolder = None /\ besideLockFile = None /\ besideOp = None /\ besidePc = None /\
    besideOk = None /\ besideJob = None /\ besideOutcome = None /\ besideFaults = None /\ besideRemovals = None
Now(table) == {scenario} \cap DOMAIN table

MCInit ==
    \/ scenario = "tree" /\ Init /\ BesideIdle
    \/ \E s \in DOMAIN Besides : scenario = s /\ Beside(s)!Init /\ Init

MCNext ==
    \/ scenario = "tree" /\ Next /\ UNCHANGED <<scenario, besideVars>>
    \/ (\E s \in Now(Besides) : Beside(s)!Next) /\ UNCHANGED <<scenario, vars>>

MCvars == <<scenario, besideVars, vars>>
MCSpec == MCInit /\ [][MCNext]_MCvars

-----------------------------------------------------------------------------
\* The same promises where a cleanup is among the runs, for the copy of a single file, and, as far as they hold
\* there, under removals by hand: records name state that is there, published state has its manifest, and beside a
\* cleanup temporaries stay named (among copies alone this follows from LifeInv).
BesidesPromise ==
    /\ \A s \in Now(Besides) :
          /\ Beside(s)!PublishedHasManifest /\ Beside(s)!StoreBeforeTransfer
    /\ \A s \in {scenario} \cap {"cleanup"} : Beside(s)!PartialsNamed
    /\ \A s \in {scenario} \cap {"cleanup", "file"} :
          /\ Beside(s)!RecordNamesState /\ Beside(s)!CompletedStays
=============================================================================
