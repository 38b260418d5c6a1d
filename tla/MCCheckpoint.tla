--------------------------- MODULE MCCheckpoint ---------------------------
\* Checkpoints for TLC: the hashing worker of one file, and the log of an operation under process deaths, power
\* losses and changes of the source, with each durability and each way to verify a resume.
EXTENDS HashWorker

CONSTANTS None, f1

\* The scenario is chosen once; the variables of the components it does not use keep one value.
VARIABLES scenario, src, part, dest, seg, gen, run, logChan, logWal, left

logVars == <<src, part, dest, seg, gen, run, logChan, logWal, left>>



Logs ==
    [normal |-> [Strict |-> FALSE, Verify |-> "chunks", CrashKinds |-> {"process"},
                 ChangeKinds |-> {"edit", "silent"}, MaxRuns |-> 2, MaxCrashes |-> 1, MaxFaults |-> 1,
                 MaxChanges |-> 1],
     strict |-> [Strict |-> TRUE, Verify |-> "chunks", CrashKinds |-> {"power"}, ChangeKinds |-> {},
                 MaxRuns |-> 3, MaxCrashes |-> 2, MaxFaults |-> 1, MaxChanges |-> 0],
     full |-> [Strict |-> FALSE, Verify |-> "full", CrashKinds |-> {"power"},
               ChangeKinds |-> {"edit", "silent"}, MaxRuns |-> 2, MaxCrashes |-> 1, MaxFaults |-> 0,
               MaxChanges |-> 1]]
Log(s) == INSTANCE CheckpointLog WITH Files <- {f1}, InitLen <- 3, Chunk <- 2, RangeChunks <- 1,
    FlushUnits <- 2, Cap <- 1, Strict <- Logs[s].Strict, Verify <- Logs[s].Verify,
    CrashKinds <- Logs[s].CrashKinds, ChangeKinds <- Logs[s].ChangeKinds, MaxRuns <- Logs[s].MaxRuns,
    MaxCrashes <- Logs[s].MaxCrashes, MaxFaults <- Logs[s].MaxFaults, MaxChanges <- Logs[s].MaxChanges,
    chan <- logChan, wal <- logWal

LogIdle == src = None /\ part = None /\ dest = None /\ seg = None /\ gen = None /\ run = None /\ logChan = None
    /\ logWal = None /\ left = None
Now(table) == {scenario} \cap DOMAIN table

MCInit ==
    \/ scenario = "worker" /\ Init /\ LogIdle
    \/ \E s \in DOMAIN Logs : scenario = s /\ Log(s)!Init /\ Init

MCNext ==
    \/ scenario = "worker" /\ Next /\ UNCHANGED <<scenario, logVars>>
    \/ (\E s \in Now(Logs) : Log(s)!Next) /\ UNCHANGED <<scenario, vars>>

MCvars == <<scenario, logVars, vars>>
MCSpec == MCInit /\ [][MCNext]_MCvars

-----------------------------------------------------------------------------
(* What is published is, unit for unit, what its run read from the source: *)
(* the prefix a resume keeps (decide, decide_full), the carry and the      *)
(* streamed rest never mix two contents, whatever the log, a crash or a    *)
(* change of the source left behind.                                       *)
PublishedIsRead == \A s \in Now(Logs) : Log(s)!PublishedIsRead

(* Data before checkpoint (flush under Strict): a range this run appended  *)
(* for the file it is copying describes chunks that are in the partial and *)
(* already synced, with exactly that content.                              *)
DataBeforeCheckpoint == \A s \in Now(Logs) : Log(s)!DataBeforeCheckpoint

\* Whatever crashes and fails, the log can be scanned: a file that is complete has its records, a synced prefix
\* reads back, and nothing is appended by a flush that begins after the run was flagged as abandoned.
LogPromise ==
    /\ \A s \in Now(Logs) :
          /\ Log(s)!LogConstants
          /\ Log(s)!CopySays /\ Log(s)!SinkSays /\ Log(s)!RecordsSay /\ Log(s)!LogSays
          /\ Log(s)!TypeOK /\ Log(s)!CompleteIsLogged /\ Log(s)!SyncedScans /\ Log(s)!NothingAfterAbandon
    /\ \A s \in {scenario} \cap {"normal"} : Log(s)!LogScans
=============================================================================
