----------------------------- MODULE FamilyRuns -----------------------------
(***************************************************************************)
(* How the records of a family are sorted before they are packed           *)
(* (index.rs FamilyBuilder, PendingRuns, copy_run): runs in a transient    *)
(* file, passes that merge them back and forth between two files, and a    *)
(* last merge that feeds the packer while the packer parks its level-0     *)
(* entries in whichever file no run is read from.                          *)
(*                                                                         *)
(* A record is a number and takes one cell of a file; a level-0 entry is   *)
(* the number of records up to its frame's end, tagged.                    *)
(***************************************************************************)
EXTENDS Naturals, Sequences, SequencesExt, FiniteSets, TLC

CONSTANTS
    Pushes,       \* the sequences of records tried
    RunEntries, FanIn, TickEntries,   \* Thresholds
    FrameRecords, \* records to a frame of the packer
    None

VARIABLES
    input, rest,  \* every record, and those still to be pushed
    pc,           \* where the builder, then the worker, is
    buf,          \* the arena and its descriptors
    files,        \* the two transient files; None before creation
    runs,         \* the runs of the pass being read: start and length in files[cur]
    next,         \* the runs the pass has written
    cur, lone,    \* which file the runs are in; the trailing run set aside
    pos,          \* cells merged of each run by the last merge
    lane,         \* the records the packer has been given
    spill,        \* the packer's parked entries: file, first cell and count
    stop, result

vars == <<input, rest, pc, buf, files, runs, next, cur, lone, pos, lane, spill, stop, result>>

Sorted(s) == SortSeq(s, LAMBDA a, b : a < b)
Cells(f, run) == SubSeq(files[f], run.start + 1, run.start + run.len)

\* Writes cells at a place of a file, over what is there and past its end.
Written(content, at, cells) ==
    [i \in 1 .. (IF at + Len(cells) > Len(content) THEN at + Len(cells) ELSE Len(content)) |->
        IF i > at /\ i <= at + Len(cells) THEN cells[i - at] ELSE content[i]]

----------------------------------------------------------------------------
\* FamilyBuilder: on the listing thread

\* write_buffer: the buffered records become a sorted run at the file's end.
RunAt(content, records) == [start |-> Len(content), len |-> Len(records)]

Push ==
    /\ pc = "push" /\ rest # << >>
    /\ LET first == IF files[1] = None THEN << >> ELSE files[1]
           held == Append(buf, Head(rest))
           full == Len(held) >= RunEntries
       IN  /\ files' = [files EXCEPT ![1] = IF full THEN first \o Sorted(held) ELSE first]
           /\ runs' = IF full THEN Append(runs, RunAt(first, held)) ELSE runs
           /\ buf' = IF full THEN << >> ELSE held
    /\ rest' = Tail(rest)
    /\ UNCHANGED <<input, pc, next, cur, lone, pos, lane, spill, stop, result>>

\* transient(), a run's write or a tick may fail: the caller drops the builder.
PushFails ==
    /\ pc = "push" /\ rest # << >>
    /\ pc' = "returned" /\ result' = "failed"
    /\ UNCHANGED <<input, rest, buf, files, runs, next, cur, lone, pos, lane, spill, stop>>

\* into_pending: the last run, and a second file when a pass will be needed.
NeedsPass(rs) == Len(rs) > FanIn
IntoPending ==
    /\ pc = "push" /\ rest = << >>
    /\ IF files[1] = None
       THEN pc' = "returned" /\ result' = "empty" /\ UNCHANGED <<files, runs, buf>>
       ELSE LET all == IF buf = << >> THEN runs ELSE Append(runs, RunAt(files[1], buf)) IN
            /\ runs' = all
            /\ files' = [files EXCEPT ![1] = @ \o Sorted(buf),
                                      ![2] = IF NeedsPass(all) THEN << >> ELSE None]
            /\ buf' = << >> /\ pc' = "passes" /\ UNCHANGED result
    /\ UNCHANGED <<input, rest, next, cur, lone, pos, lane, spill, stop>>

----------------------------------------------------------------------------
\* PendingRuns::finish_with: on a worker thread

Other == 3 - cur

\* check(): the stop flag, looked at every TickEntries records, ends it.
Stopped ==
    /\ pc \in {"passes", "group", "merge"} /\ stop
    /\ pc' = "returned" /\ result' = "stopped"
    /\ UNCHANGED <<input, rest, buf, files, runs, next, cur, lone, pos, lane, spill, stop>>
SetStop ==
    /\ ~ stop /\ stop' = TRUE
    /\ pc \in {"passes", "group", "merge"}
    /\ UNCHANGED <<input, rest, pc, buf, files, runs, next, cur, lone, pos, lane, spill, result>>
WorkerFails ==
    /\ pc \in {"passes", "group", "merge"}
    /\ pc' = "returned" /\ result' = "failed"
    /\ UNCHANGED <<input, rest, buf, files, runs, next, cur, lone, pos, lane, spill, stop>>

\* A pass begins: a run that would be a group of its own is set aside.
StartPass ==
    /\ pc = "passes" /\ Len(runs) > FanIn
    /\ LET alone == Len(runs) % FanIn = 1
       IN  /\ lone' = IF alone THEN Last(runs) ELSE None
           /\ runs' = IF alone THEN Front(runs) ELSE runs
    /\ pc' = "group" /\ next' = << >>
    /\ UNCHANGED <<input, rest, buf, files, cur, pos, lane, spill, stop, result>>

\* cascade_pass: a group is merged to the end of the other file; a group of one
\* run is carried over as it stands.
MergeGroup ==
    /\ pc = "group" /\ runs # << >>
    /\ LET n == IF Len(runs) < FanIn THEN Len(runs) ELSE FanIn
           group == SubSeq(runs, 1, n)
           merged == Sorted(FlattenSeq([i \in 1 .. n |-> Cells(cur, group[i])]))
       IN  /\ runs' = SubSeq(runs, n + 1, Len(runs))
           /\ IF n = 1
              THEN next' = Append(next, group[1]) /\ UNCHANGED files
              ELSE /\ next' = Append(next, RunAt(files[Other], merged))
                   /\ files' = [files EXCEPT ![Other] = @ \o merged]
    /\ UNCHANGED <<input, rest, pc, buf, cur, lone, pos, lane, spill, stop, result>>

\* copy_run, and the files change places.
EndPass ==
    /\ pc = "group" /\ runs = << >>
    /\ runs' = IF lone = None THEN next ELSE Append(next, RunAt(files[Other], Cells(cur, lone)))
    /\ files' = IF lone = None THEN files ELSE [files EXCEPT ![Other] = @ \o Cells(cur, lone)]
    /\ cur' = Other /\ next' = << >> /\ lone' = None /\ pc' = "passes"
    /\ UNCHANGED <<input, rest, buf, pos, lane, spill, stop, result>>

\* The file the packer parks its entries in: the one no run is in, else past
\* the runs of the only one.
SpillAt == IF files[2] = None THEN [file |-> 1, at |-> Len(files[1]), n |-> 0]
           ELSE [file |-> Other, at |-> Len(files[Other]), n |-> 0]
StartMerge ==
    /\ pc = "passes" /\ Len(runs) <= FanIn
    /\ spill' = SpillAt
    /\ pos' = [i \in 1 .. Len(runs) |-> 0]
    /\ pc' = "merge"
    /\ UNCHANGED <<input, rest, buf, files, runs, next, cur, lone, lane, stop, result>>

\* The least of the runs' next records goes to the packer, which parks an entry
\* whenever a frame is full.
HeadsOf == {i \in 1 .. Len(runs) : pos[i] < runs[i].len}
HeadCell(i) == files[cur][runs[i].start + pos[i] + 1]
EntryTag == 1000
EntryFor(n) == EntryTag + n
Parked(n) == IF n % FrameRecords = 0
             THEN [files EXCEPT ![spill.file] = Written(@, spill.at + spill.n, <<EntryFor(n)>>)]
             ELSE files
MergeRecord ==
    /\ pc = "merge" /\ HeadsOf # {}
    /\ \E i \in HeadsOf :
         /\ \A j \in HeadsOf : HeadCell(i) < HeadCell(j) \/ (HeadCell(i) = HeadCell(j) /\ i <= j)
         /\ pos' = [pos EXCEPT ![i] = @ + 1]
         /\ lane' = Append(lane, HeadCell(i))
    /\ files' = Parked(Len(lane'))
    /\ spill' = [spill EXCEPT !.n = @ + (IF Len(lane') % FrameRecords = 0 THEN 1 ELSE 0)]
    /\ UNCHANGED <<input, rest, pc, buf, runs, next, cur, lone, stop, result>>

\* Packer::finish: the last frame's entry, then level 0 is read back.
FinishMerge ==
    /\ pc = "merge" /\ HeadsOf = {}
    /\ LET open == Len(lane) % FrameRecords # 0 IN
       /\ files' = IF open THEN [files EXCEPT ![spill.file] = Written(@, spill.at + spill.n, <<EntryFor(Len(lane))>>)]
                   ELSE files
       /\ spill' = [spill EXCEPT !.n = @ + (IF open THEN 1 ELSE 0)]
    /\ pc' = "returned" /\ result' = "family"
    /\ UNCHANGED <<input, rest, buf, runs, next, cur, lone, pos, lane, stop>>

----------------------------------------------------------------------------
Init ==
    /\ input \in Pushes /\ rest = input
    /\ pc = "push" /\ buf = << >> /\ files = <<None, None>>
    /\ runs = << >> /\ next = << >> /\ cur = 1 /\ lone = None /\ pos = << >>
    /\ lane = << >> /\ spill = None /\ stop = FALSE /\ result = None

Next == \/ Push \/ PushFails \/ IntoPending
        \/ Stopped \/ SetStop \/ WorkerFails
        \/ StartPass \/ MergeGroup \/ EndPass
        \/ StartMerge \/ MergeRecord \/ FinishMerge

Spec == Init /\ [][Next]_vars

----------------------------------------------------------------------------
\* What the family's records must be

TypeOK ==
    /\ pc \in {"push", "passes", "group", "merge", "returned"}
    /\ pc = "returned" <=> result # None
    /\ cur \in 1 .. 2 /\ stop \in BOOLEAN
    /\ \A r \in ToSet(runs \o next) : r.len >= 1

\* The runs to be read, those written and the lone one hold, each sorted and
\* whole, every record pushed: nothing is read from the file a pass does not
\* read, and nothing parked by the packer lies over a run still being merged.
RunsHold ==
    pc \in {"passes", "group", "merge"} =>
        LET read == [i \in 1 .. Len(runs) |-> Cells(cur, runs[i])]
            written == [i \in 1 .. Len(next) |-> Cells(Other, next[i])]
            alone == IF lone = None THEN << >> ELSE <<Cells(cur, lone)>>
            in(f, r) == r.start + r.len <= Len(files[f])
        IN  /\ \A r \in ToSet(runs) : in(cur, r)
            /\ \A r \in ToSet(next) : in(Other, r)
            /\ \A s \in ToSet(read \o written \o alone) : \A i \in 1 .. Len(s) : s[i] < EntryTag
            /\ Sorted(FlattenSeq(read \o written \o alone)) = Sorted(input)

\* The packer is given the records in order, and all of them.
LaneIsSorted ==
    /\ \A i \in 1 .. Len(lane) - 1 : lane[i] <= lane[i + 1]
    /\ result = "family" => lane = Sorted(input)

\* Reading level 0 back finds an entry for every frame, in order, as parked.
EntriesReadBack ==
    result = "family" =>
        /\ spill.at + spill.n <= Len(files[spill.file])
        /\ LET read == SubSeq(files[spill.file], spill.at + 1, spill.at + spill.n)
           IN  read = [j \in 1 .. (Len(lane) + FrameRecords - 1) \div FrameRecords |->
                         EntryFor(IF j * FrameRecords <= Len(lane) THEN j * FrameRecords ELSE Len(lane))]

\* A second file is created only for a pass, and a pass never needs one that
\* into_pending did not create (the worker cannot reach the scratch space).
SecondFileExists == pc = "group" => files[2] # None
=============================================================================
