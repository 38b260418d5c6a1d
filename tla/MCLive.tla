------------------------------ MODULE MCLive ------------------------------
\* What must happen in the end, for TLC: each component that waits, retries or loops, alone, under the fairness
\* its threads have.
EXTENDS Naturals, TLC

CONSTANTS None, Unknown, Other

\* The scenario is chosen once; the variables of the components it does not use keep one value.
VARIABLES scenario, logSrc, part, logDest, seg, gen, logRun, logChan, logWal, logLeft, main, work, jobs, free,
          workerChan, workerLog, workerWal, faults, barrierPc, spawned, next, worker, barrierChan, slots,
          received, at, now, deadline, heartbeat, beats, synced, wpc, wresult, buildDone, buildChan, signals,
          results, stop, tickError, buildPc, looking, regions, poisoned, answer, pubDest, temp, claims, notes,
          dirs, pubRun, pubOut, pubEnv, copySrc, dir, lock, opts, copyLog, copyRun, seen, copyLeft, framesDest,
          visited, framesStack, said, entered, unsynced, files, framesDone, framesRun, framesEnv, kids, mounts,
          opt, walkPc, walkStack, ancestors, excluded, laneEnd, walkDone, walkOut, listed, walkLeft

logVars == <<logSrc, part, logDest, seg, gen, logRun, logChan, logWal, logLeft>>
workerVars == <<main, work, jobs, free, workerChan, workerLog, workerWal, faults>>
barrierVars == <<barrierPc, spawned, next, worker, barrierChan, slots, received, at, now, deadline, heartbeat,
    beats, synced>>
buildVars == <<wpc, wresult, buildDone, buildChan, signals, results, stop, tickError, buildPc, looking, regions,
    poisoned, answer>>
pubVars == <<pubDest, temp, claims, notes, dirs, pubRun, pubOut, pubEnv>>
copyVars == <<copySrc, dir, lock, opts, copyLog, copyRun, seen, copyLeft>>
framesVars == <<framesDest, visited, framesStack, said, entered, unsynced, files, framesDone, framesRun,
    framesEnv>>
walkVars == <<kids, mounts, opt, walkPc, walkStack, ancestors, excluded, laneEnd, walkDone, walkOut, listed,
    walkLeft>>

\* CopyFile: two units, nothing or a good prefix left by an earlier run.
Shape == INSTANCE CopyFile WITH Options <- {}, Starts <- {}, Logs <- {}, Original <- << >>, Edits <- 0,
    Stamped <- TRUE, Faults <- 0, MayLose <- FALSE, src <- copySrc,
    log <- copyLog, run <- copyRun, left <- copyLeft
CopyOptions ==
    {[hook |-> h, min |-> 1, verify |-> v, times |-> "default", perms |-> "off", durability |-> "strict",
      at |-> "staging", publish |-> "replace", safety |-> "default", existing |-> "overwrite", newer |-> FALSE,
      weak |-> FALSE, corrupt |-> TRUE] : h \in {"none", "chunks", "full", "logfree"}, v \in {"none", "full"}}
CopyStarts == {[temp |-> t, name |-> None] : t \in {None, Shape!Object(<<1>>, 2, 1)}}
NoLog == [kind |-> "none", len |-> 0, stamp |-> 0, digests |-> << >>]

\* Publication: a directory inside the root, with a file before it, in it and after it, the last one large.
Event(k, x) == [kind |-> k, at |-> x]
Abc == {"a", "b", "c"}
Itself == [t \in Abc |-> t]
Script == <<Event("file", "a"), Event("dir", "sub"), Event("file", "b"), Event("end", "sub"), Event("file", "c")>>
InDir == [t \in Abc |-> IF t = "b" THEN "sub" ELSE "root"]
StoredC == [c \in Abc |-> IF c = "c" THEN "c" ELSE None]

\* TreeFrames: a folder, a file and another folder, each with something in it.
Node == {"R", "f", "d", "fd", "q", "S", "e", "fe"}
KindOf == [n \in Node |-> IF n \in {"R", "d", "S", "e"} THEN "dir" ELSE "file"]
ParentOf == [n \in Node |-> CASE n \in {"R", "q", "S"} -> None [] n \in {"f", "d"} -> "R" [] n = "fd" -> "d"
                              [] n = "fe" -> "e" [] OTHER -> "S"]
Place == Node \cup {"top"}
Befores == {[p \in Place |-> CASE p = "top" -> "dir" [] p = "R" -> k [] OTHER -> "none"] : k \in {"none", "file"}}

\* Walk: two directories whose entries may lead back up, with no identity to tell a cycle by.
Graphs ==
    {[x \in {"r", "d"} |-> IF x = "r" THEN k ELSE m] :
        k \in {k \in [{1, 2} -> {"d", "f", None}] : "d" \in {k[1], k[2]}}, m \in [{1, 2} -> {"r", "d", "f", None}]}

Log == INSTANCE CheckpointLog WITH Files <- {1, 2}, InitLen <- 3, Chunk <- 2, RangeChunks <- 1, FlushUnits <- 2,
    Cap <- 1, Strict <- TRUE, Verify <- "chunks", CrashKinds <- {}, ChangeKinds <- {"grow"}, MaxRuns <- 1,
    MaxCrashes <- 0, MaxFaults <- 1, MaxChanges <- 1, src <- logSrc, dest <- logDest, run <- logRun,
    chan <- logChan, wal <- logWal, left <- logLeft
Hash == INSTANCE HashWorker WITH Units <- 7, Chunk <- 2, RangeChunks <- 2, Start <- 2, Carry <- 2, Pool <- 3,
    Cap <- 1, MaxFaults <- 2, chan <- workerChan, log <- workerLog, wal <- workerWal
Barrier == INSTANCE SyncBarrier WITH N <- 3, Threads <- 2, BeatEvery <- 1, MaxNow <- 2, pc <- barrierPc,
    chan <- barrierChan
Build == INSTANCE IndexBuild WITH Families <- {"names", "inodes"}, Items <- 2, done <- buildDone
Tree == INSTANCE Publication WITH Target <- Abc, Spelling <- {}, Entry <- Abc, Dir <- {"root", "sub"},
    Root <- "root", ClassOf <- Itself, FoldOf <- Itself, DirOf <- InDir, Before <- StoredC, Large <- {"c"},
    Logged <- {"c"}, Strict <- TRUE, BatchFiles <- 3, WriterCap <- 2, Policy <- "skip", MaxRuns <- 2, MaxFaults <- 1,
    MaxForeign <- 0, MaxLosses <- 1, dest <- pubDest, run <- pubRun, out <- pubOut, env <- pubEnv
Copy == INSTANCE CopyFile WITH Options <- CopyOptions, Starts <- CopyStarts, Logs <- {NoLog},
    Original <- <<1, 2>>, Edits <- 1, Stamped <- TRUE, Faults <- 1, MayLose <- TRUE, src <- copySrc,
    log <- copyLog, run <- copyRun, left <- copyLeft
Frames == INSTANCE TreeFrames WITH Roots <- <<"R", "q", "S">>, Dest <- "top", At <- [n \in Node |-> n],
    Weak <- {}, Alias <- {}, Reserved <- {}, Several <- TRUE, Strict <- FALSE, BatchFiles <- 0,
    OpenWriters <- 2, MaxFaults <- 1, MaxLosses <- 1, dest <- framesDest, stack <- framesStack,
    done <- framesDone, run <- framesRun, env <- framesEnv
Source == INSTANCE Walk WITH Dirs <- {"r", "d"}, Files <- {"f"}, Links <- {}, Others <- {}, Root <- "r",
    Names <- {1, 2}, Strong <- {}, MountSets <- {{}},
    Options <- {[cross |-> TRUE, scratch |-> TRUE, patterns |-> {}, norecurse |-> FALSE]}, MaxDepth <- 2,
    Inline <- 1, Edits <- 1, Faults <- 0, pc <- walkPc, stack <- walkStack, done <- walkDone, out <- walkOut,
    left <- walkLeft

LogIdle == logSrc = None /\ part = None /\ logDest = None /\ seg = None /\ gen = None /\ logRun = None /\
    logChan = None /\ logWal = None /\ logLeft = None
WorkerIdle == main = None /\ work = None /\ jobs = None /\ free = None /\ workerChan = None /\ workerLog = None
    /\ workerWal = None /\ faults = None
BarrierIdle == barrierPc = None /\ spawned = None /\ next = None /\ worker = None /\ barrierChan = None /\
    slots = None /\ received = None /\ at = None /\ now = None /\ deadline = None /\ heartbeat = None /\
    beats = None /\ synced = None
BuildIdle == wpc = None /\ wresult = None /\ buildDone = None /\ buildChan = None /\ signals = None /\
    results = None /\ stop = None /\ tickError = None /\ buildPc = None /\ looking = None /\ regions = None /\
    poisoned = None /\ answer = None
PubIdle == pubDest = None /\ temp = None /\ claims = None /\ notes = None /\ dirs = None /\ pubRun = None /\
    pubOut = None /\ pubEnv = None
CopyIdle == copySrc = None /\ dir = None /\ lock = None /\ opts = None /\ copyLog = None /\ copyRun = None /\
    seen = None /\ copyLeft = None
FramesIdle == framesDest = None /\ visited = None /\ framesStack = None /\ said = None /\ entered = None /\
    unsynced = None /\ files = None /\ framesDone = None /\ framesRun = None /\ framesEnv = None
WalkIdle == kids = None /\ mounts = None /\ opt = None /\ walkPc = None /\ walkStack = None /\ ancestors = None
    /\ excluded = None /\ laneEnd = None /\ walkDone = None /\ walkOut = None /\ listed = None /\
    walkLeft = None

\* Components other than the active one are idle and stay so.
Components == {"log", "worker", "barrier", "build", "pub", "copy", "frames", "walk"}
Idle(c) ==
    CASE c = "log"     -> LogIdle
      [] c = "worker"  -> WorkerIdle
      [] c = "barrier" -> BarrierIdle
      [] c = "build"   -> BuildIdle
      [] c = "pub"     -> PubIdle
      [] c = "copy"    -> CopyIdle
      [] c = "frames"  -> FramesIdle
      [] c = "walk"    -> WalkIdle
Still(c) ==
    CASE c = "log"     -> UNCHANGED logVars
      [] c = "worker"  -> UNCHANGED workerVars
      [] c = "barrier" -> UNCHANGED barrierVars
      [] c = "build"   -> UNCHANGED buildVars
      [] c = "pub"     -> UNCHANGED pubVars
      [] c = "copy"    -> UNCHANGED copyVars
      [] c = "frames"  -> UNCHANGED framesVars
      [] c = "walk"    -> UNCHANGED walkVars
Rest(c) == \A d \in Components \ {c} : Idle(d)
Kept(c) == UNCHANGED scenario /\ \A d \in Components \ {c} : Still(d)

Init ==
    \/ scenario = "log" /\ Log!Init /\ Rest("log")
    \/ scenario = "worker" /\ Hash!Init /\ Rest("worker")
    \/ scenario = "barrier" /\ Barrier!Init /\ Rest("barrier")
    \/ scenario = "build" /\ Build!BuildInit /\ Rest("build")
    \/ scenario = "publication" /\ Tree!Init /\ Rest("pub")
    \/ scenario = "copy" /\ Copy!Init /\ Rest("copy")
    \/ scenario = "frames" /\ Frames!Init /\ Rest("frames")
    \/ scenario = "walk" /\ Source!Init /\ Rest("walk")

Next ==
    \/ scenario = "log" /\ Log!Next /\ Kept("log")
    \/ scenario = "worker" /\ Hash!Next /\ Kept("worker")
    \/ scenario = "barrier" /\ Barrier!Next /\ Kept("barrier")
    \/ scenario = "build" /\ Build!BuildNext /\ Kept("build")
    \/ scenario = "publication" /\ Tree!Next /\ Kept("pub")
    \/ scenario = "copy" /\ Copy!Next /\ Kept("copy")
    \/ scenario = "frames" /\ Frames!Next /\ Kept("frames")
    \/ scenario = "walk" /\ Source!Next /\ Kept("walk")

vars == <<scenario, logVars, workerVars, barrierVars, buildVars, pubVars, copyVars, framesVars, walkVars>>
Spec == Init /\ [][Next]_vars

\* Each thread that can go on does: the program's threads are scheduled, none waits for ever inside a call, and nothing
\* forces a failure, a crash, a change by another process or the clock.
FairSpec ==
    /\ Spec
    /\ WF_logVars(scenario = "log" /\ Log!Main)
    /\ WF_logVars(scenario = "log" /\ Log!Writer)
    /\ WF_workerVars(scenario = "worker" /\ Hash!Main)
    /\ WF_workerVars(scenario = "worker" /\ Hash!Work)
    /\ WF_workerVars(scenario = "worker" /\ Hash!LogReceive)
    /\ WF_barrierVars(scenario = "barrier" /\ Barrier!CallerStep)
    /\ \A w \in 1..2 : WF_barrierVars(scenario = "barrier" /\ Barrier!WorkerStep(w))
    /\ WF_buildVars(scenario = "build" /\ Build!Listing)
    /\ \A w \in {"names", "inodes"} : WF_buildVars(scenario = "build" /\ Build!BuildThread(w))
    /\ WF_pubVars(scenario = "publication" /\ Tree!Copy)
    /\ WF_copyVars(scenario = "copy" /\ Copy!Copy)
    /\ WF_framesVars(scenario = "frames" /\ Frames!Run)
    /\ WF_walkVars(scenario = "walk" /\ Source!Step)

-----------------------------------------------------------------------------
\* Every component comes to its end, whatever fails on the way: the run that logs (channel, Close answer and join do not
\* wait on each other for ever), a file's hashing (buffers, queue, channel, result and join), the barrier (whoever is
\* refused a thread), the index build (it waits for no worker that will not answer), the publication (walk, flushes and
\* drain), one file's copy, the frames of a tree, and the walk (the depth cap stops a cycle no identity tells).
EachEnds ==
    []<>(CASE scenario = "log"         -> logRun.pc = "down"
           [] scenario = "worker"      -> main.pc = "done"
           [] scenario = "barrier"     -> barrierPc = "done"
           [] scenario = "build"       -> buildPc = "returned"
           [] scenario = "publication" -> ~Tree!Active
           [] scenario = "copy"        -> copyRun.pc = "ended"
           [] scenario = "frames"      -> framesRun.pc = "done"
           [] scenario = "walk"        -> walkPc.at = "ended")
=============================================================================
