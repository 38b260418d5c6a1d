------------------------------ MODULE MCIndex ------------------------------
\* The indexes of a large directory, for TLC: the two workers that build them, the runs a worker merges, the
\* lookups in what it packed, and the name index that copies and resumes ask; the scratch space they work in, the
\* store of rows beside it, and the external sort of a listing that spills into a lane.
EXTENDS IndexBuild

CONSTANT None

\* The scenario is chosen once; the variables of the components it does not use keep one value.
VARIABLES scenario, disk, weak, hint, renames, inline, moving, spilled, plan, steps, nameFaults, familyInput,
          familyRest, frame, frames, levels, familyPc, query, place, out, runsInput, runsRest, runsPc, runsBuf,
          files, runsRuns, next, cur, lone, pos, lane, spill, runsStop, result, home, made, backing, created,
          spaceFile, end, live, holder, spaceRegions, unwinding, slots, map, hand, spacePoison, spaceAnswer,
          begun, spaceFaults, rows, committed, txn, since, storePoison, storePc, job, calls, storeFaults, gone,
          listing, sortPc, sortBuf, sortRuns, region, sortFile, merged, merger, writer, sorted, ticks, read,
          left, sortInput

nameVars == <<disk, weak, hint, renames, inline, moving, spilled, plan, steps, nameFaults>>
familyVars == <<familyInput, familyRest, frame, frames, levels, familyPc, query, place, out>>
runsVars == <<runsInput, runsRest, runsPc, runsBuf, files, runsRuns, next, cur, lone, pos, lane, spill,
    runsStop, result>>
spaceVars == <<home, made, backing, created, spaceFile, end, live, holder, spaceRegions, unwinding, slots, map,
    hand, spacePoison, spaceAnswer, begun, spaceFaults>>
storeVars == <<rows, committed, txn, since, storePoison, storePc, job, calls, storeFaults, gone>>
sortVars == <<listing, sortPc, sortBuf, sortRuns, region, sortFile, merged, merger, writer, sorted, ticks, read,
    left, sortInput>>

\* NameIndex: five names over three slots; 1 and 2 fold together, 3 and 4 do, 5 stands alone. Every directory of two
\* or three entries over two objects, hard links included; hints that are the object's own d_ino, none, one that is
\* nobody's, or another object's.
Lead == <<1, 3, 5>>
Directories ==
    {[s \in 1 .. 3 |-> IF f[s] = 0 THEN None ELSE [name |-> Lead[s], id |-> f[s]]] :
        f \in {g \in [1 .. 3 -> 0 .. 2] : Cardinality({s \in 1 .. 3 : g[s] = 0}) <= 1}}
TrueHint == [id \in 1 .. 3 |-> id]
SomeHints ==
    {TrueHint, [id \in 1 .. 3 |-> None], [id \in 1 .. 3 |-> 1], [TrueHint EXCEPT ![1] = 9],
     [TrueHint EXCEPT ![1] = None]}

\* FamilyIndex: names that agree past the capped key, one too long for a block, and the same names under two keys.
PlainNames == {<<1>>, <<1, 1>>, <<1, 1, 1>>, <<1, 1, 2>>, <<1, 1, 2, 1>>, <<1, 1, 3>>, <<1, 2>>,
               <<1, 1, 1, 1, 1, 1, 1, 1>>, <<2>>, <<2, 1, 1, 1>>}
PlainFamilies == {{[key |-> << >>, name |-> n] : n \in ns} : ns \in (SUBSET PlainNames) \ {{}}}
KeyedNames == {<<1>>, <<1, 1>>, <<1, 1, 1, 1>>, <<2>>, <<2, 2, 2>>, <<3>>}
KeyedFamilies == {{[key |-> k[n], name |-> n] : n \in DOMAIN k} :
                    k \in UNION {[ns -> {<<1>>, <<2>>}] : ns \in (SUBSET KeyedNames) \ {{}}}}

\* FamilyRuns: records in every order, as many as make two passes with a lone run.
AnyPushes == UNION {[1 .. n -> 0 .. 1] : n \in 0 .. 9}

\* Store: two digits to a byte. The prefixes are neighbours: the second's successor carries into the tag, which is the
\* third's own.
Neighbours == {<<0, 1, 0>>, <<0, 1, 1>>, <<1, 0, 0>>}

\* Spill: names of one and two bytes that share their first byte, with and without keys longer than a cached word.
Item(k, n) == [key |-> k, name |-> n]
PlainItems == {Item(<< >>, n) : n \in {<<1>>, <<1, 1>>, <<2>>}}
KeyedItems == {Item(<<0, 1>>, <<1>>), Item(<<0, 0>>, <<2>>), Item(<<1, 0>>, <<1, 1>>)}
ListingsOf(items, lengths) == UNION {[1 .. n -> items] : n \in lengths}

Copies ==
    [copy |-> [Resume |-> FALSE, Steps |-> 3],
     resume |-> [Resume |-> TRUE, Steps |-> 2]]
Index(s) == INSTANCE NameIndex WITH Names <- 1 .. 5, Fold <- <<1, 1, 2, 2, 3>>, Ids <- 1 .. 3,
    Starts <- Directories, Hints <- SomeHints, WeakSets <- {{}, {2}}, IndexInline <- 2, MaxCandidates <- 1,
    Resume <- Copies[s].Resume, Steps <- Copies[s].Steps, Faults <- 1, faults <- nameFaults
Lookups ==
    [names |-> [Families |-> PlainFamilies, Names |-> PlainNames, Keys |-> {<< >>}],
     keys |-> [Families |-> KeyedFamilies, Names |-> KeyedNames, Keys |-> {<<1>>, <<2>>, <<3>>}]]
Family(s) == INSTANCE FamilyIndex WITH Families <- Lookups[s].Families, Names <- Lookups[s].Names,
    Keys <- Lookups[s].Keys, B <- 5, CapLength <- 2, RecordHead <- 0, EntryHead <- 0, CountUnits <- 1,
    MaxCount <- 3, Limit <- 1, input <- familyInput, rest <- familyRest, pc <- familyPc
Runs == INSTANCE FamilyRuns WITH Pushes <- AnyPushes, RunEntries <- 2, FanIn <- 2, TickEntries <- 1,
    FrameRecords <- 2, input <- runsInput, rest <- runsRest, pc <- runsPc, buf <- runsBuf, runs <- runsRuns,
    stop <- runsStop
Space == INSTANCE Scratch WITH Lanes <- {"walk", "names"}, Walk <- "walk", Owners <- {1, 2}, CacheBlocks <- 2,
    Cells <- 2, Begins <- 2, Faults <- 1, file <- spaceFile, regions <- spaceRegions, poison <- spacePoison,
    answer <- spaceAnswer, faults <- spaceFaults
Rows == INSTANCE Store WITH Base <- 2, Dirs <- Neighbours, Data <- {<<0>>, <<0, 1>>},
    Tables <- <<"names2", "learned">>, CommitEvery <- 2, Batch <- 1, Writes <- 4, Faults <- 1,
    poison <- storePoison, pc <- storePc, faults <- storeFaults
Sorts ==
    [plain |-> [Items |-> PlainItems, Listings |-> ListingsOf(PlainItems, 0 .. 6), K |-> 0,
                InlineEntries |-> 1, RunEntries |-> 2, FanIn |-> 3, MergeBuffer |-> 1, Faults |-> 1],
     keyed |-> [Items |-> KeyedItems, Listings |-> ListingsOf(KeyedItems, 0 .. 5), K |-> 2,
                InlineEntries |-> 2, RunEntries |-> 2, FanIn |-> 2, MergeBuffer |-> 2, Faults |-> 0],
     long |-> [Items |-> PlainItems, Listings |-> ListingsOf({Item(<< >>, <<1>>), Item(<< >>, <<2>>)}, {7}),
               K |-> 0, InlineEntries |-> 1, RunEntries |-> 1, FanIn |-> 2, MergeBuffer |-> 3, Faults |-> 0]]
Sort(s) == INSTANCE Spill WITH Items <- Sorts[s].Items, Listings <- Sorts[s].Listings, K <- Sorts[s].K,
    Word <- 1, InlineEntries <- Sorts[s].InlineEntries, RunEntries <- Sorts[s].RunEntries,
    FanIn <- Sorts[s].FanIn, MergeBuffer <- Sorts[s].MergeBuffer, TickEntries <- 3, Outer <- 2,
    Faults <- Sorts[s].Faults, pc <- sortPc, buf <- sortBuf, runs <- sortRuns, file <- sortFile,
    input <- sortInput

NameIdle == disk = None /\ weak = None /\ hint = None /\ renames = None /\ inline = None /\ moving = None /\
    spilled = None /\ plan = None /\ steps = None /\ nameFaults = None
FamilyIdle == familyInput = None /\ familyRest = None /\ frame = None /\ frames = None /\ levels = None /\
    familyPc = None /\ query = None /\ place = None /\ out = None
RunsIdle == runsInput = None /\ runsRest = None /\ runsPc = None /\ runsBuf = None /\ files = None /\
    runsRuns = None /\ next = None /\ cur = None /\ lone = None /\ pos = None /\ lane = None /\ spill = None /\
    runsStop = None /\ result = None
SpaceIdle == home = None /\ made = None /\ backing = None /\ created = None /\ spaceFile = None /\ end = None /\
    live = None /\ holder = None /\ spaceRegions = None /\ unwinding = None /\ slots = None /\ map = None /\
    hand = None /\ spacePoison = None /\ spaceAnswer = None /\ begun = None /\ spaceFaults = None
StoreIdle == rows = None /\ committed = None /\ txn = None /\ since = None /\ storePoison = None /\
    storePc = None /\ job = None /\ calls = None /\ storeFaults = None /\ gone = None
SortIdle == listing = None /\ sortPc = None /\ sortBuf = None /\ sortRuns = None /\ region = None /\
    sortFile = None /\ merged = None /\ merger = None /\ writer = None /\ sorted = None /\ ticks = None /\
    read = None /\ left = None /\ sortInput = None
Now(table) == {scenario} \cap DOMAIN table

\* Components other than the active one are idle and stay so.
Components == {"build", "name", "family", "runs", "space", "store", "sort"}
Idle(c) ==
    CASE c = "build"  -> BuildInit
      [] c = "name"   -> NameIdle
      [] c = "family" -> FamilyIdle
      [] c = "runs"   -> RunsIdle
      [] c = "space"  -> SpaceIdle
      [] c = "store"  -> StoreIdle
      [] c = "sort"   -> SortIdle
Still(c) ==
    CASE c = "build"  -> UNCHANGED buildVars
      [] c = "name"   -> UNCHANGED nameVars
      [] c = "family" -> UNCHANGED familyVars
      [] c = "runs"   -> UNCHANGED runsVars
      [] c = "space"  -> UNCHANGED spaceVars
      [] c = "store"  -> UNCHANGED storeVars
      [] c = "sort"   -> UNCHANGED sortVars
Rest(c) == \A d \in Components \ {c} : Idle(d)
Kept(c) == UNCHANGED scenario /\ \A d \in Components \ {c} : Still(d)

MCInit ==
    \/ scenario = "build" /\ BuildInit /\ Rest("build")
    \/ \E s \in DOMAIN Copies : scenario = s /\ Index(s)!Init /\ Rest("name")
    \/ \E s \in DOMAIN Lookups : scenario = s /\ Family(s)!Init /\ Rest("family")
    \/ scenario = "runs" /\ Runs!Init /\ Rest("runs")
    \/ scenario = "space" /\ Space!Init /\ Rest("space")
    \/ scenario = "store" /\ Rows!Init /\ Rest("store")
    \/ \E s \in DOMAIN Sorts : scenario = s /\ Sort(s)!Init /\ Rest("sort")

MCNext ==
    \/ scenario = "build" /\ BuildNext /\ Kept("build")
    \/ (\E s \in Now(Copies) : Index(s)!Next) /\ Kept("name")
    \/ (\E s \in Now(Lookups) : Family(s)!Next) /\ Kept("family")
    \/ scenario = "runs" /\ Runs!Next /\ Kept("runs")
    \/ scenario = "space" /\ Space!Next /\ Kept("space")
    \/ scenario = "store" /\ Rows!Next /\ Kept("store")
    \/ (\E s \in Now(Sorts) : Sort(s)!Next) /\ Kept("sort")

MCvars == <<scenario, nameVars, familyVars, runsVars, spaceVars, storeVars, sortVars, buildVars>>
MCSpec == MCInit /\ [][MCNext]_MCvars

-----------------------------------------------------------------------------
\* The index on disk answers what the one in memory would, for names, owners and entries, whatever hints it was
\* given, and through the migration from one to the other.
NamesPromise ==
    /\ \A s \in Now(Copies) :
          /\ Index(s)!TypeOK /\ Index(s)!HonestHintsAgree /\ Index(s)!EntryIsRight
    /\ \A s \in {scenario} \cap {"copy"} :
          /\ Index(s)!AnswersAgree /\ Index(s)!OwnersAgree

\* The external sort yields its input in order, through runs that hold everything between passes, with no merge
\* wider than the fan-in, no spill of a small input and no gap between ticks. A finished family has every entry
\* that was pushed, in order, under levels that cover it: lookups and scans answer what a search of the entries
\* would.
RunsPromise ==
    /\ \A s \in Now(Sorts) :
          /\ Sort(s)!TypeOK /\ Sort(s)!SortedUnion /\ Sort(s)!RunsHoldEverything /\ Sort(s)!FanInKept
          /\ Sort(s)!SmallStaysInline /\ Sort(s)!OuterIntact /\ Sort(s)!TickGap
    /\ scenario = "runs" =>
          /\ Runs!TypeOK /\ Runs!RunsHold /\ Runs!LaneIsSorted /\ Runs!EntriesReadBack
          /\ Runs!SecondFileExists
    /\ \A s \in Now(Lookups) :
          /\ Family(s)!TypeOK /\ Family(s)!NothingLost /\ Family(s)!LevelsCover /\ Family(s)!LookupsAreRight
          /\ Family(s)!ScanSeesAll

\* The scratch space is made once and only when something spills; a cached block is what its file holds; files
\* hold only what live regions wrote; and two walks never share the walk lane.
ScratchPromise ==
    scenario = "space" =>
        /\ Space!TypeOK /\ Space!MadeOnce /\ Space!CacheCurrent /\ Space!MapIsSlots
        /\ Space!RegionsOwnTheirCells /\ Space!OneWalk

\* A directory's range is its rows; pages show each of its names once, in order; retiring takes all of its rows
\* and no other; and a failure loses fewer than commit_every changes.
StorePromise ==
    scenario = "store" =>
        /\ Rows!TypeOK /\ Rows!RangeIsPrefix /\ Rows!PagesAreComplete /\ Rows!RetireIsExact
        /\ Rows!UncommittedBounded

\* The first cause of a poisoned scratch space is the one every later call is told; a closed one is not opened
\* again; and a store that failed is neither written nor read.
PoisonSteps ==
    [][/\ scenario = "space" =>
             /\ Space!FirstCauseKept /\ Space!ClosedStaysClosed
       /\ scenario = "store" => Rows!PoisonIsFinal]_MCvars
=============================================================================
