------------------------------ MODULE Scratch ------------------------------
(***************************************************************************)
(* The scratch space (scratch.rs): one anonymous file to a lane, carved    *)
(* into regions that are cut back in stack order; a home that is found and *)
(* made only when something spills; a block cache in front of the files;   *)
(* and the poison that ends it all.                                        *)
(*                                                                         *)
(* A file is a sequence of cells, each the number of the region that wrote *)
(* it; a block is one cell.                                                *)
(***************************************************************************)
EXTENDS Naturals, Sequences, FiniteSets, SequencesExt

CONSTANTS
    Lanes, Walk,       \* the lanes; the one only one walk may use at a time
    Owners,            \* walks
    CacheBlocks,       \* Thresholds.index_cache_blocks
    Cells, Begins,     \* bounds: cells of a file; regions begun
    Faults,            \* bound: failed calls
    None

ScratchAssumption == Walk \in Lanes /\ CacheBlocks \in Nat \ {0}

VARIABLES
    home,              \* "unplaced", "deferred", "placed", "failed" or "closed"
    made,              \* how often the home was looked for
    backing,           \* lane -> "none", "open", "failed" or "closed"
    created,           \* lane -> files made for it
    file, end,         \* lane -> its cells; its logical end
    live, holder,      \* lane -> regions not dropped; the walk that began the last one
    regions,           \* the regions not dropped, oldest first
    unwinding,         \* an error is being returned: regions are only dropped
    slots, map, hand,  \* the block cache
    poison,            \* the first cause, None while the space is usable
    answer,            \* what the last call returned
    begun, faults

vars == <<home, made, backing, created, file, end, live, holder, regions, unwinding,
          slots, map, hand, poison, answer, begun, faults>>
placing == <<home, made, backing, created>>
lanes == <<file, end, live, holder>>
cache == <<slots, map, hand>>

Ok == [kind |-> "ok"]
Refused(why) == [kind |-> why]
Fault == faults < Faults /\ faults' = faults + 1

----------------------------------------------------------------------------
\* The home

\* place / place_deferred: the first placement counts.
Place(how) ==
    /\ home = "unplaced" /\ how \in {"deferred", "placed"}
    /\ home' = how /\ answer' = Ok
    /\ UNCHANGED <<made, backing, created, lanes, regions, unwinding, cache, poison, begun, faults>>
PlaceAgain ==
    /\ home # "unplaced" /\ answer' = Ok
    /\ UNCHANGED <<placing, lanes, regions, unwinding, cache, poison, begun, faults>>

\* resolve_home and ensure_open: the home the call leaves and the backing of its
\* lane; what was found, or failed, is kept.
Resolved(ok) == IF home # "deferred" THEN home ELSE IF ok THEN "placed" ELSE "failed"
Tries(lane, homeNow) == backing[lane] = "none" /\ homeNow = "placed"
EnsureOpen(lane, homeOk, fileOk) ==
    LET homeNow == Resolved(homeOk)
        tries == Tries(lane, homeNow)
    IN  /\ home' = homeNow
        /\ made' = made + (IF homeNow # home THEN 1 ELSE 0)
        /\ backing' = [backing EXCEPT ![lane] = IF ~ tries THEN @ ELSE IF fileOk THEN "open" ELSE "failed"]
        /\ created' = [created EXCEPT ![lane] = @ + (IF tries THEN 1 ELSE 0)]

\* Which outcomes of the calls it makes are possible: a failure costs a fault.
Outcomes(lane) ==
    {<<h, f>> \in BOOLEAN \X BOOLEAN :
        /\ ~ h => home = "deferred" /\ backing[lane] = "none"
        /\ ~ f => h /\ backing[lane] = "none" /\ home \in {"deferred", "placed"}}
Charged(o) == IF o = <<TRUE, TRUE>> THEN UNCHANGED faults ELSE Fault

----------------------------------------------------------------------------
\* Regions

TwoWalks(lane, owner) == lane = Walk /\ live[lane] > 0 /\ holder[lane] # owner

\* begin().
Begin(lane, owner) ==
    /\ begun < Begins /\ ~ unwinding
    /\ IF poison # None
       THEN answer' = Refused(poison) /\ UNCHANGED <<placing, lanes, regions, begun, faults>>
       ELSE IF TwoWalks(lane, owner)
       THEN answer' = Refused("two walks") /\ UNCHANGED <<placing, lanes, regions, begun, faults>>
       ELSE \E o \in Outcomes(lane) :
              /\ EnsureOpen(lane, o[1], o[2]) /\ Charged(o)
              /\ IF backing'[lane] # "open"
                 THEN answer' = Refused("not open") /\ UNCHANGED <<lanes, regions, begun>>
                 ELSE /\ holder' = [holder EXCEPT ![lane] = owner]
                      /\ live' = [live EXCEPT ![lane] = @ + 1]
                      /\ regions' = Append(regions, [lane |-> lane, start |-> end[lane], id |-> begun + 1, owner |-> owner])
                      /\ begun' = begun + 1 /\ answer' = Ok
                      /\ UNCHANGED <<file, end>>
    /\ UNCHANGED <<unwinding, cache, poison>>

\* The region a lane's bytes are written for: its innermost.
Innermost(lane) == LET own == {i \in 1 .. Len(regions) : regions[i].lane = lane}
                   IN  regions[CHOOSE i \in own : \A j \in own : j <= i]
InUse(lane) == \E i \in 1 .. Len(regions) : regions[i].lane = lane

\* write_at at the end: a cell more; a failed write may leave one past the end.
Write(lane) ==
    /\ InUse(lane) /\ ~ unwinding /\ Len(file[lane]) < Cells
    /\ IF poison # None THEN answer' = Refused(poison) /\ UNCHANGED <<file, end, faults>>
       ELSE \/ /\ file' = [file EXCEPT ![lane] = Append(SubSeq(@, 1, end[lane]), Innermost(lane).id)]
               /\ end' = [end EXCEPT ![lane] = @ + 1]
               /\ answer' = Ok /\ UNCHANGED faults
            \/ /\ Fault /\ answer' = Refused("io") /\ UNCHANGED end
               /\ file' = [file EXCEPT ![lane] = IF Len(@) > end[lane] THEN @ ELSE Append(@, Innermost(lane).id)]
            \/ /\ Fault /\ answer' = Refused("io") /\ UNCHANGED <<file, end>>
    /\ UNCHANGED <<placing, live, holder, regions, unwinding, cache, poison, begun>>

\* A worker writes through lane_file; the listing thread raises the end after.
SetEnd(lane) ==
    /\ InUse(lane) /\ ~ unwinding /\ poison = None /\ backing[lane] = "open"
    /\ end[lane] < Cells
    /\ file' = [file EXCEPT ![lane] = Append(SubSeq(@, 1, end[lane]), Innermost(lane).id)]
    /\ end' = [end EXCEPT ![lane] = @ + 1] /\ answer' = Ok
    /\ UNCHANGED <<placing, live, holder, regions, unwinding, cache, poison, begun, faults>>

----------------------------------------------------------------------------
\* The block cache

\* BlockCache::invalidate_from.
\* mutant: a block that only ends past the cut is kept; blocks are one cell, so
\* the comparison is off by one.
Invalidated_above(lane, start) ==
    [i \in 1 .. Len(slots) |->
        IF slots[i] # None /\ slots[i].lane = lane /\ slots[i].offset > start THEN None ELSE slots[i]]
Invalidated(lane, start) ==
    [i \in 1 .. Len(slots) |->
        IF slots[i] # None /\ slots[i].lane = lane /\ slots[i].offset + 1 > start THEN None ELSE slots[i]]
\* The map loses the key of every block dropped.
Unmapped(now) == {m \in map : now[m.index] # None}

\* The clock: the first slot from the hand that is empty or not referenced,
\* once every referenced one passed has lost its mark.
ClockOrder == [i \in 1 .. Len(slots) |-> ((hand + i - 1) % Len(slots)) + 1]
Victim ==
    LET free(i) == slots[i] = None \/ ~ slots[i].referenced
        order == ClockOrder
        at == {k \in 1 .. Len(slots) : free(order[k])}
    IN  IF at = {} THEN hand + 1
        ELSE order[CHOOSE k \in at : \A j \in at : k <= j]
Passed(v) ==
    {i \in 1 .. Len(slots) : LET k(n) == CHOOSE j \in 1 .. Len(slots) : ClockOrder[j] = n
                             IN  (\A j \in 1 .. Len(slots) : slots[j] # None /\ slots[j].referenced) \/ k(i) < k(v)}
Inserted(lane, offset, data) ==
    LET block == [lane |-> lane, offset |-> offset, data |-> data, referenced |-> FALSE] IN
    IF Len(slots) < CacheBlocks
    THEN /\ slots' = Append(slots, block)
         /\ map' = map \cup {[lane |-> lane, offset |-> offset, index |-> Len(slots) + 1]}
         /\ UNCHANGED hand
    ELSE LET v == Victim
             cleared == [i \in 1 .. Len(slots) |->
                           IF i \in Passed(v) /\ slots[i] # None THEN [slots[i] EXCEPT !.referenced = FALSE]
                           ELSE slots[i]]
         IN  /\ slots' = [cleared EXCEPT ![v] = block]
             /\ hand' = v % Len(slots)
             /\ map' = {m \in map : m.index # v} \cup {[lane |-> lane, offset |-> offset, index |-> v]}

\* read_block(): a hit is marked; a miss is read and kept.
ReadBlock(lane, offset) ==
    /\ InUse(lane) /\ ~ unwinding /\ offset < end[lane]
    /\ LET hit == {m \in map : m.lane = lane /\ m.offset = offset} IN
       IF poison # None THEN answer' = Refused(poison) /\ UNCHANGED <<cache, faults>>
       ELSE IF hit # {}
       THEN LET i == (CHOOSE m \in hit : TRUE).index IN
            /\ slots' = IF slots[i] = None THEN slots ELSE [slots EXCEPT ![i].referenced = TRUE]
            /\ answer' = [kind |-> "block", lane |-> lane, offset |-> offset, data |-> IF slots[i] = None THEN None ELSE slots[i].data]
            /\ UNCHANGED <<map, hand, faults>>
       ELSE \/ /\ Inserted(lane, offset, file[lane][offset + 1])
               /\ answer' = [kind |-> "block", lane |-> lane, offset |-> offset, data |-> file[lane][offset + 1]]
               /\ UNCHANGED faults
            \/ Fault /\ answer' = Refused("io") /\ UNCHANGED cache
    /\ UNCHANGED <<placing, lanes, regions, unwinding, poison, begun>>

----------------------------------------------------------------------------
\* Dropping, failing and closing

\* Region::drop: the newest one, or while an error is returned any of them.
Reaches(r) == r.start <= end[r.lane]
Truncated(r) == Reaches(r)
LiveAfter(r) == live[r.lane] - 1
DropRegion(i) ==
    /\ i \in 1 .. Len(regions) /\ (unwinding \/ i = Len(regions))
    /\ LET r == regions[i]
           cut == Truncated(r) /\ backing[r.lane] = "open"
       IN  /\ live' = [live EXCEPT ![r.lane] = LiveAfter(r)]
           /\ regions' = RemoveAt(regions, i)
           /\ end' = IF Reaches(r) THEN [end EXCEPT ![r.lane] = r.start] ELSE end
           /\ slots' = IF Reaches(r) THEN Invalidated(r.lane, r.start) ELSE slots
           /\ map' = IF Reaches(r) THEN Unmapped(Invalidated(r.lane, r.start)) ELSE map
           /\ \/ /\ file' = IF ~ cut THEN file
                            ELSE [file EXCEPT ![r.lane] = [k \in 1 .. r.start |->
                                                             IF k <= Len(@) THEN @[k] ELSE 0]]
                 /\ UNCHANGED <<poison, faults>>
              \/ /\ cut /\ Fault /\ UNCHANGED file
                 /\ poison' = IF poison = None THEN "truncate" ELSE poison
    /\ unwinding' = (unwinding /\ Len(regions) > 1)
    /\ answer' = Ok
    /\ UNCHANGED <<placing, holder, hand, begun>>

Unwind ==
    /\ ~ unwinding /\ regions # << >> /\ answer.kind \notin {"ok", "block"}
    /\ unwinding' = TRUE
    /\ UNCHANGED <<placing, lanes, regions, cache, poison, answer, begun, faults>>

\* poison(): by the store or by a failed build, with a cause of their own.
\* mutant: the last cause is kept.
Poisoned_last(cause) == cause
Poisoned(cause) == IF poison = None THEN cause ELSE poison
Poison(cause) ==
    /\ IF poison = None THEN Fault ELSE UNCHANGED faults
    /\ poison' = Poisoned(cause) /\ answer' = Refused(cause)
    /\ UNCHANGED <<placing, lanes, regions, unwinding, cache, begun>>

\* close(): every file and the home are let go.
Close ==
    /\ home # "closed" /\ regions = << >>
    /\ home' = "closed" /\ backing' = [l \in Lanes |-> "closed"]
    /\ file' = [l \in Lanes |-> << >>] /\ answer' = Ok
    /\ UNCHANGED <<made, created, end, live, holder, regions, unwinding, cache, poison, begun, faults>>

----------------------------------------------------------------------------
Init ==
    /\ home = "unplaced" /\ made = 0
    /\ backing = [l \in Lanes |-> "none"] /\ created = [l \in Lanes |-> 0]
    /\ file = [l \in Lanes |-> << >>] /\ end = [l \in Lanes |-> 0]
    /\ live = [l \in Lanes |-> 0] /\ holder = [l \in Lanes |-> 0]
    /\ regions = << >> /\ unwinding = FALSE
    /\ slots = << >> /\ map = {} /\ hand = 0
    /\ poison = None /\ answer = Ok /\ begun = 0 /\ faults = 0

Next ==
    \/ \E how \in {"deferred", "placed"} : Place(how)
    \/ PlaceAgain
    \/ \E l \in Lanes, w \in Owners : Begin(l, w)
    \/ \E l \in Lanes : Write(l) \/ SetEnd(l)
    \/ \E l \in Lanes, o \in 0 .. Cells - 1 : ReadBlock(l, o)
    \/ \E i \in 1 .. Begins : DropRegion(i)
    \/ Unwind
    \/ \E c \in {"store", "worker"} : Poison(c)
    \/ Close

Spec == Init /\ [][Next]_vars

----------------------------------------------------------------------------
\* What the space promises

TypeOK ==
    /\ home \in {"unplaced", "deferred", "placed", "failed", "closed"}
    /\ \A l \in Lanes : /\ backing[l] \in {"none", "open", "failed", "closed"}
                        /\ live[l] = Cardinality({i \in 1 .. Len(regions) : regions[i].lane = l})
    /\ Len(slots) <= CacheBlocks /\ hand \in 0 .. CacheBlocks - 1

\* Nothing is looked for before something spills, the home is found once, and
\* a lane's file is made, or fails to be made, once.
MadeOnce == /\ made <= 1
            /\ \A l \in Lanes : created[l] <= 1
            /\ home \in {"unplaced", "deferred"} => \A l \in Lanes : created[l] = 0

\* A cached block is what its file holds there: a region built where another
\* was cut is never answered with the old one's bytes.
CacheCurrent ==
    poison = None /\ home # "closed" =>
        \A m \in map : m.offset < Len(file[m.lane]) /\ slots[m.index] # None
                       /\ slots[m.index].data = file[m.lane][m.offset + 1]

\* The map and the slots agree: no block is in two slots, none is unreachable.
MapIsSlots ==
    /\ \A i \in 1 .. Len(slots) : slots[i] # None =>
         \E m \in map : m = [lane |-> slots[i].lane, offset |-> slots[i].offset, index |-> i]
    /\ \A m \in map : slots[m.index] # None
    /\ \A m, n \in map : m.index = n.index \/ (m.lane = n.lane /\ m.offset = n.offset) => m = n

\* Up to its logical end a file holds only what live regions wrote, each from
\* its start on; past the end only what a failed write left, until its region
\* is dropped.
RegionsOwnTheirCells ==
    poison = None /\ home # "closed" /\ ~ unwinding =>
        \A l \in Lanes :
            /\ Len(file[l]) >= end[l]
            /\ ~ InUse(l) => file[l] = << >> /\ end[l] = 0
            /\ \A k \in 1 .. Len(file[l]) :
                 \E i \in 1 .. Len(regions) : regions[i].lane = l /\ regions[i].id = file[l][k] /\ regions[i].start < k

\* Two walks never hold regions of the walk lane at once: the second is refused.
OneWalk ==
    \A i, j \in 1 .. Len(regions) :
        regions[i].lane = Walk /\ regions[j].lane = Walk => regions[i].owner = regions[j].owner

\* The first cause is the one every later call is told, and a poisoned space
\* hands nothing out.
FirstCauseKept ==
    poison # None => /\ poison' = poison /\ begun' = begun
                     /\ answer'.kind \in {"ok", "store", "worker", poison} /\ Len(slots') = Len(slots)

\* After a close nothing is opened again.
ClosedStaysClosed == home = "closed" => home' = "closed" /\ created' = created /\ begun' = begun
=============================================================================
