------------------------------ MODULE MCCopy ------------------------------
\* Copying one file and publishing a tree of files, for TLC: the sync barrier's threads, one file's copy under
\* three families of options, and the batches of a tree under crashes, failures, lost locks and other processes.
EXTENDS SyncBarrier

CONSTANTS Unknown, Other

\* The scenario is chosen once; the variables of the components it does not use keep one value.
VARIABLES scenario, src, dir, lock, opts, log, copyRun, seen, left, dest, temp, claims, notes, dirs, pubRun,
          out, env

copyVars == <<src, dir, lock, opts, log, copyRun, seen, left>>
pubVars == <<dest, temp, claims, notes, dirs, pubRun, out, env>>

\* CopyFile: the source's two units, and what an earlier run left.
Shape == INSTANCE CopyFile WITH Options <- {}, Starts <- {}, Logs <- {}, Original <- << >>, Edits <- 0,
    Stamped <- TRUE, Faults <- 0, MayLose <- FALSE, run <- copyRun
Source == <<1, 2>>
Asked == [hook |-> "none", min |-> 1, verify |-> "none", times |-> "default", perms |-> "default",
          durability |-> "strict", at |-> "staging", publish |-> "replace", safety |-> "default",
          existing |-> "overwrite", newer |-> FALSE, weak |-> FALSE, corrupt |-> FALSE]
Partial(data, links) == Shape!Object(data, 2, links)
Begun(t) == [temp |-> t, name |-> None]
NoLog == [kind |-> "none", len |-> 0, stamp |-> 0, digests |-> << >>]
Began(stamp, digests) == [kind |-> "began", len |-> 2, stamp |-> stamp, digests |-> digests]

\* Content: every hook with every level of verification, over a partial that is a good prefix, a bad one, one longer
\* than the source or one with a second name, and a log that fits it or does not.
ContentOptions ==
    {[Asked EXCEPT !.hook = h, !.verify = v, !.corrupt = TRUE, !.perms = "off", !.min = m] :
        h \in {"none", "chunks", "full", "logfree"}, v \in {"none", "stream", "destination", "full"}, m \in {1, 3}}
ContentStarts ==
    {Begun(t) : t \in {None, Partial(<<1>>, 1), Partial(<<1, 3>>, 1), Partial(<<1, 2, 4>>, 1), Partial(<<1>>, 2)}}
ContentLogs ==
    {NoLog, [NoLog EXCEPT !.kind = "unreadable"], Began(0, <<1>>), Began(0, <<1, 2>>), Began(7, <<1, 3>>),
     Began(0, <<1, 3>>)}

\* Quiet: edits that leave the source's time alone.
QuietOptions ==
    {[Asked EXCEPT !.hook = h, !.verify = "full", !.times = "off", !.perms = "off"] : h \in {"none", "full", "chunks"}}
QuietStarts == {Begun(None), Begun(Partial(<<1>>, 1))}

\* Policy: what is asked about metadata, durability and an existing target; the target may be the source itself.
PolicyOptions ==
    {[Asked EXCEPT !.times = t, !.perms = p, !.durability = d, !.at = a] :
        t \in {"off", "default", "strict"}, p \in {"default", "strict"}, d \in {"normal", "strict"},
        a \in {"staging", "barrier"}}
    \cup
    {[Asked EXCEPT !.publish = p, !.safety = s, !.existing = e, !.newer = n, !.weak = w, !.hook = h] :
        p \in {"replace", "noreplace"}, s \in {"default", "strict"},
        e \in {"overwrite", "skip", "update"}, n \in BOOLEAN, w \in BOOLEAN, h \in {"none", "logfree"}}
PolicyStarts ==
    {[temp |-> t, name |-> n] :
        t \in {None, Partial(<<1>>, 1)},
        n \in {None, Shape!Object(<<5, 5>>, 1, 1), Shape!Object(<<5>>, 1, 1),
               Shape!Object(<<1, 2>>, Shape!SrcObj, 2), Shape!Object(<< >>, Shape!DirObj, 1)}}

\* Publication: one directory in which "a" and "b" fold together and an entry stored as "A" may be there first; the
\* operation's own folding sees that they collide, or does not (it folds ASCII only).
File(t) == [kind |-> "file", at |-> t]
Abc == {"a", "b", "c"}
FoldClasses == [n \in Abc \cup {"A"} |-> IF n = "c" THEN "other" ELSE "folded"]
SeenFold == [t \in Abc |-> IF t = "c" THEN "c" ELSE "a"]
Itself == [t \in Abc |-> t]
OneDir == [t \in Abc |-> "root"]
FoldScript == <<File("a"), File("c"), File("b")>>
NothingBefore == [c \in {"folded", "other"} |-> None]
StoredBefore == [c \in {"folded", "other"} |-> IF c = "folded" THEN "A" ELSE None]

\* A directory inside the root, with a file before it, in it and after it.
TreeDirs == [t \in Abc |-> IF t = "b" THEN "sub" ELSE "root"]
TreeScript == <<File("a"), [kind |-> "dir", at |-> "sub"], File("b"), [kind |-> "end", at |-> "sub"], File("c")>>
TreeBefore == [c \in Abc |-> IF c = "c" THEN "c" ELSE None]

Copies ==
    [content |-> [Options |-> ContentOptions, Starts |-> ContentStarts, Logs |-> ContentLogs, Edits |-> 2,
                  Stamped |-> TRUE, Faults |-> 1, MayLose |-> FALSE],
     quiet |-> [Options |-> QuietOptions, Starts |-> QuietStarts, Logs |-> ContentLogs, Edits |-> 3,
                Stamped |-> FALSE, Faults |-> 0, MayLose |-> FALSE],
     policy |-> [Options |-> PolicyOptions, Starts |-> PolicyStarts, Logs |-> {NoLog}, Edits |-> 1,
                 Stamped |-> TRUE, Faults |-> 2, MayLose |-> TRUE]]
Copy(s) == INSTANCE CopyFile WITH Options <- Copies[s].Options, Starts <- Copies[s].Starts,
    Logs <- Copies[s].Logs, Original <- Source, Edits <- Copies[s].Edits, Stamped <- Copies[s].Stamped,
    Faults <- Copies[s].Faults, MayLose <- Copies[s].MayLose, run <- copyRun
Trees ==
    LET Usual == [Spelling |-> {"A"}, Entry |-> {"folded", "other"}, Dir |-> {"root"}, ClassOf |-> FoldClasses,
                  FoldOf |-> None, DirOf |-> OneDir, Script |-> FoldScript, Before |-> None, Strict |-> None,
                  BatchFiles |-> 2, WriterCap |-> 3, Policy |-> "overwrite", MaxRuns |-> None, MaxForeign |-> 1,
                  MaxLosses |-> 1]
    IN  [batch |-> [Spelling |-> {}, Entry |-> Abc, Dir |-> {"root", "sub"}, ClassOf |-> Itself, FoldOf |-> Itself,
                    DirOf |-> TreeDirs, Script |-> TreeScript, Before |-> TreeBefore, Strict |-> TRUE,
                    BatchFiles |-> 2, WriterCap |-> 2, Policy |-> "overwrite", MaxRuns |-> 3, MaxForeign |-> 0,
                    MaxLosses |-> 1],
         fold |-> [Usual EXCEPT !.FoldOf = Itself, !.Before = NothingBefore, !.Strict = TRUE, !.MaxRuns = 3,
                   !.MaxLosses = 0],
         single |-> [Usual EXCEPT !.FoldOf = SeenFold, !.Before = StoredBefore, !.Strict = TRUE, !.BatchFiles = 1,
                     !.MaxRuns = 2],
         unrecorded |-> [Usual EXCEPT !.FoldOf = Itself, !.Before = NothingBefore, !.Strict = FALSE, !.MaxRuns = 1],
         normal |-> [Usual EXCEPT !.FoldOf = SeenFold, !.Before = StoredBefore, !.Strict = FALSE,
                     !.Policy = "update", !.MaxRuns = 2]]
Tree(s) == INSTANCE Publication WITH Target <- Abc, Spelling <- Trees[s].Spelling, Entry <- Trees[s].Entry,
    Dir <- Trees[s].Dir, Root <- "root", ClassOf <- Trees[s].ClassOf, FoldOf <- Trees[s].FoldOf,
    DirOf <- Trees[s].DirOf, Script <- Trees[s].Script, Before <- Trees[s].Before, Large <- {},
    Logged <- {"c"},
    Strict <- Trees[s].Strict, BatchFiles <- Trees[s].BatchFiles, WriterCap <- Trees[s].WriterCap,
    Policy <- Trees[s].Policy, MaxRuns <- Trees[s].MaxRuns, MaxFaults <- 2, MaxForeign <- Trees[s].MaxForeign,
    MaxLosses <- Trees[s].MaxLosses, run <- pubRun

CopyIdle == src = None /\ dir = None /\ lock = None /\ opts = None /\ log = None /\ copyRun = None /\
    seen = None /\ left = None
PubIdle == dest = None /\ temp = None /\ claims = None /\ notes = None /\ dirs = None /\ pubRun = None /\
    out = None /\ env = None
Now(table) == {scenario} \cap DOMAIN table

MCInit ==
    \/ scenario = "barrier" /\ Init /\ CopyIdle /\ PubIdle
    \/ \E s \in DOMAIN Copies : scenario = s /\ Copy(s)!Init /\ PubIdle /\ Init
    \/ \E s \in DOMAIN Trees : scenario = s /\ Tree(s)!Init /\ CopyIdle /\ Init

MCNext ==
    \/ scenario = "barrier" /\ Next /\ UNCHANGED <<scenario, copyVars, pubVars>>
    \/ (\E s \in Now(Copies) : Copy(s)!Next) /\ UNCHANGED <<scenario, pubVars, vars>>
    \/ (\E s \in Now(Trees) : Tree(s)!Next) /\ UNCHANGED <<scenario, copyVars, vars>>

MCvars == <<scenario, copyVars, pubVars, vars>>
MCSpec == MCInit /\ [][MCNext]_MCvars

-----------------------------------------------------------------------------
\* What the proof of the copy asks of its constants holds of these.
CopiesAsAsked == \A s \in DOMAIN Copies : Copy(s)!CopyConstants

\* What is at a target is one version of the source as it was read; a failure is answered and leaves what it says
\* it leaves; strict means synced; metadata that was not kept is told; and reused, copied and cut lengths add up:
\* these are conjuncts of CopyInv, which also says why no step can break them.
CopyPromise == CopiesAsAsked /\ \A s \in Now(Copies) : Copy(s)!CopyInv

\* What is at a target is what a run published there or was there before; a claim names the object that was
\* published under it; temporaries left behind are reported; every file has one answer; and every note has its
\* cause.
PublicationPromise ==
    \A s \in Now(Trees) :
        /\ Tree(s)!TypeOK /\ Tree(s)!PublishedIsKnown /\ Tree(s)!ClaimNamesItsObject
        /\ Tree(s)!LeftoversReported /\ Tree(s)!EveryFileAnswered /\ Tree(s)!NotesAreExplained

\* The destination is written only while the lock is held, and nothing changes once it is lost; an object with a
\* second name is never written through, a copy onto itself is told before anything is opened, no target replaces
\* another of the same run, and nothing is published twice.
CopySteps ==
    [][/\ \A s \in Now(Copies) :
             /\ Copy(s)!LockedWrites /\ Copy(s)!SecondNameUntouched /\ Copy(s)!SelfCopyTold
       /\ \A s \in Now(Trees) :
             /\ Tree(s)!NoTargetReplacesAnother /\ Tree(s)!NothingPublishedTwice /\ Tree(s)!LostLockIsFinal]_MCvars
=============================================================================
