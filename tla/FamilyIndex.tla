---------------------------- MODULE FamilyIndex ----------------------------
(***************************************************************************)
(* A packed family of the destination index (index.rs): sorted records in  *)
(* frames of whole blocks, a static index of block levels above them, and  *)
(* the lookups that descend the levels and walk the frames.                *)
(*                                                                         *)
(* A record is a key and a name; a frame, an index block and an entry take *)
(* the sizes the code gives them, in units small enough for a few records  *)
(* to fill several levels.  A frame is found by its block offset, an index *)
(* block by its place in its level.                                        *)
(***************************************************************************)
EXTENDS Naturals, Sequences, SequencesExt, FiniteSets, FiniteSetsExt

CONSTANTS
    Families,     \* the sets of records tried
    Names, Keys,  \* the names and keys looked up
    B,            \* units of a block (index_block)
    CapLength,    \* units of a capped key (B / 8 in the code)
    RecordHead,   \* units of a record beside its key and name
    EntryHead,    \* units of a level entry beside its capped key
    CountUnits,   \* units of the count at the head of a block
    MaxCount,     \* records a frame's count can express (u16::MAX)
    Limit,        \* the limit of names_with_key
    None

VARIABLES
    input,    \* the records, in the merger's order
    rest,     \* those the packer has not been given
    frame,    \* Packer.frame
    frames,   \* the frames written
    levels,   \* the index levels, level 0 first; each a sequence of blocks
    pc,       \* where the packer, or the lookup, is
    query,    \* the lookup: its mode, key and name
    place,    \* the level, block and entry a descent is at, or the offset of a scan
    out       \* what the lookup has collected or answered

vars == <<input, rest, frame, frames, levels, pc, query, place, out>>
packed == <<input, rest, frame, frames, levels>>

BytesLess(a, b) ==
    \/ IsStrictPrefix(a, b)
    \/ \E i \in 1 .. Len(a) : /\ i <= Len(b) /\ a[i] < b[i]
                              /\ SubSeq(a, 1, i - 1) = SubSeq(b, 1, i - 1)
RecordLess(a, b) == BytesLess(a.key, b.key) \/ (a.key = b.key /\ BytesLess(a.name, b.name))

\* The merger's order: a record goes after every record less than it.
Inserted(r, s) == LET less == SelectSeq(s, LAMBDA q : RecordLess(q, r))
                  IN  Append(less, r) \o SubSeq(s, Len(less) + 1, Len(s))
Merged(f) == FoldSet(Inserted, << >>, f)

Units(record) == RecordHead + Len(record.key) + Len(record.name)
UnitsOf(records) == FoldLeft(LAMBDA n, r : n + Units(r), 0, records)
CeilDiv(n, d) == (n + d - 1) \div d
Lesser(m, n) == IF m <= n THEN m ELSE n
Cap(bytes) == SubSeq(bytes, 1, Lesser(Len(bytes), CapLength))

----------------------------------------------------------------------------
\* Packing

End(fs) == IF fs = << >> THEN 0 ELSE Last(fs).off + Last(fs).blocks

\* flush_frame: the records become a frame of whole blocks after the last one.
FlushFrame(fs, held) ==
    IF held = << >> THEN fs
    ELSE Append(fs, [off |-> End(fs), blocks |-> CeilDiv(CountUnits + UnitsOf(held), B),
                     records |-> held, key |-> Cap(Head(held).key \o Head(held).name)])

\* A record that does not fit starts a frame; one that fits none has a frame
\* of its own.
Fits(held, record) == /\ CountUnits + UnitsOf(held) + Units(record) <= B
                      /\ Len(held) < MaxCount
PushRecord ==
    /\ pc = "pack" /\ rest # << >>
    /\ LET record == Head(rest)
           kept == frame = << >> \/ Fits(frame, record)
           held == IF kept THEN Append(frame, record) ELSE <<record>>
           before == IF kept THEN frames ELSE FlushFrame(frames, frame)
           over == CountUnits + UnitsOf(held) > B
       IN  /\ frames' = IF over THEN FlushFrame(before, held) ELSE before
           /\ frame' = IF over THEN << >> ELSE held
    /\ rest' = Tail(rest)
    /\ UNCHANGED <<input, levels, pc, query, place, out>>

\* pack_level: entries in order, as many to a block as fit.
EntryUnits(entry) == EntryHead + Len(entry.key)
BlockUnits(block) == CountUnits + FoldLeft(LAMBDA n, e : n + EntryUnits(e), 0, block)
AddEntry(blocks, entry) ==
    IF blocks # << >> /\ BlockUnits(Last(blocks)) + EntryUnits(entry) <= B
    THEN Append(Front(blocks), Append(Last(blocks), entry))
    ELSE Append(blocks, <<entry>>)
PackLevel(entries) == FoldLeft(AddEntry, << >>, entries)

\* The entry a level has for each block of the level below.
UpperEntries(blocks) == [j \in 1 .. Len(blocks) |-> [key |-> Head(blocks[j]).key, at |-> j]]

\* Packer::finish: the last frame, and level 0 from the spilled entries.
FinishData ==
    /\ pc = "pack" /\ rest = << >>
    /\ frames' = FlushFrame(frames, frame)
    /\ frame' = << >>
    /\ levels' = << PackLevel([j \in 1 .. Len(frames') |-> [key |-> frames'[j].key, at |-> j]]) >>
    /\ pc' = "levels"
    /\ UNCHANGED <<input, rest, query, place, out>>

AddLevel ==
    /\ pc = "levels"
    /\ IF Len(Last(levels)) = 1
       THEN pc' = "ready" /\ UNCHANGED levels
       ELSE levels' = Append(levels, PackLevel(UpperEntries(Last(levels)))) /\ UNCHANGED pc
    /\ UNCHANGED <<input, rest, frame, frames, query, place, out>>

----------------------------------------------------------------------------
\* Looking up

\* contains_name and names_with_key start at the top block; names() at the
\* first frame.
Lookup(mode, key, name) ==
    /\ pc = "ready"
    /\ query' = [mode |-> mode, key |-> key, name |-> name]
    /\ out' = << >>
    /\ IF mode = "scan"
       THEN pc' = "scan" /\ place' = [off |-> 0]
       ELSE pc' = "descend" /\ place' = [level |-> Len(levels), block |-> 1, entry |-> 0]
    /\ UNCHANGED packed

CappedTarget == Cap(query.key \o query.name)

\* The entry a descent takes: the last strictly below the target, else the first.
Chosen(block) ==
    LET below == {i \in 1 .. Len(block) : \A j \in 1 .. i : BytesLess(block[j].key, CappedTarget)}
    IN  IF below = {} THEN 1 ELSE Cardinality(below)

Descend ==
    /\ pc = "descend"
    /\ LET entry == Chosen(levels[place.level][place.block]) IN
       IF place.level = 1
       THEN pc' = "frame" /\ place' = [place EXCEPT !.entry = entry]
       ELSE /\ place' = [level |-> place.level - 1, entry |-> 0,
                         block |-> levels[place.level][place.block][entry].at]
            /\ UNCHANGED pc
    /\ UNCHANGED <<packed, query, out>>

\* next_frame: the level-0 entry after this one, if there is one.
NextPlace ==
    IF place.entry < Len(levels[1][place.block])
    THEN [place EXCEPT !.entry = @ + 1]
    ELSE IF place.block < Len(levels[1])
         THEN [place EXCEPT !.block = @ + 1, !.entry = 1]
         ELSE None
EntryAt(p) == levels[1][p.block][p.entry]

\* The records of a frame, compared with the target in turn: those below it
\* are passed, the first above it ends the lookup.
Below(record) == IF query.mode = "keys" THEN BytesLess(record.key, query.key)
                 ELSE RecordLess(record, [key |-> query.key, name |-> query.name])
Matches(record) == record.key = query.key /\ (query.mode = "keys" \/ record.name = query.name)
Hits(records) == SelectSeq(records, Matches)
Above(records) == \E r \in ToSet(records) : ~ Below(r) /\ ~ Matches(r)

\* search(): one frame; the next one is read while its first key may still
\* hold the target.
GoesOn(p) == p # None /\ IsPrefix(CappedTarget, EntryAt(p).key)
SearchFrame ==
    /\ pc = "frame"
    /\ LET records == frames[EntryAt(place).at].records
           hits == [i \in 1 .. Len(Hits(records)) |-> Hits(records)[i].name]
           found == out \o hits
           full == IF query.mode = "keys" THEN Len(found) > Limit ELSE hits # << >>
           goesOn == ~ full /\ ~ Above(records) /\ GoesOn(NextPlace)
       IN  /\ out' = IF query.mode = "keys" THEN SubSeq(found, 1, Lesser(Len(found), Limit + 1))
                     ELSE found
           /\ pc' = IF goesOn THEN "frame" ELSE "answered"
           /\ place' = IF goesOn THEN NextPlace ELSE place
    /\ UNCHANGED <<packed, query>>

\* frames(): the frame at the offset says itself how many blocks it spans, by
\* the length of its first record.
SelfBlocks(f) == CeilDiv(CountUnits + Units(Head(f.records)), B)
ScanFrame ==
    /\ pc = "scan"
    /\ IF place.off >= End(frames)
       THEN pc' = "answered" /\ UNCHANGED <<place, out>>
       ELSE \E f \in ToSet(frames) :
              /\ f.off = place.off
              /\ out' = out \o f.records
              /\ place' = [off |-> place.off + SelfBlocks(f)]
              /\ UNCHANGED pc
    /\ UNCHANGED <<packed, query>>

Answered ==
    /\ pc = "answered"
    /\ pc' = "ready" /\ query' = None /\ place' = None /\ out' = << >>
    /\ UNCHANGED packed

----------------------------------------------------------------------------
Init ==
    /\ input \in {Merged(f) : f \in Families}
    /\ rest = input /\ frame = << >> /\ frames = << >> /\ levels = << >>
    /\ pc = "pack" /\ query = None /\ place = None /\ out = << >>

Next ==
    \/ PushRecord
    \/ FinishData
    \/ AddLevel
    \/ \E key \in Keys, name \in Names : Lookup("exact", key, name)
    \/ \E key \in Keys : Lookup("keys", key, << >>)
    \/ Lookup("scan", << >>, << >>)
    \/ Descend
    \/ SearchFrame
    \/ ScanFrame
    \/ Answered

Spec == Init /\ [][Next]_vars

----------------------------------------------------------------------------
\* What the index promises

TypeOK ==
    /\ pc \in {"pack", "levels", "ready", "descend", "frame", "scan", "answered"}
    /\ \A j \in 1 .. Len(frames) : frames[j].records # << >> /\ frames[j].blocks >= 1
    /\ pc \in {"pack"} <=> levels = << >>
    /\ pc \in {"pack", "levels", "ready"} <=> query = None

\* The frames written, the one being filled and the records to come are the
\* input, in order: packing loses, repeats and moves nothing.
NothingLost ==
    FoldLeft(LAMBDA s, f : s \o f.records, << >>, frames) \o frame \o rest = input

\* Every level points, in order and exactly once, at every block of the one
\* below (level 0: at every frame), under the first key of what it points at,
\* and is a block at the top; no block is larger than B.
LevelsCover ==
    pc \notin {"pack", "levels"} =>
        /\ Len(Last(levels)) = 1
        /\ \A l \in 1 .. Len(levels) :
             LET entries == FlattenSeq(levels[l])
             IN  /\ \A j \in 1 .. Len(levels[l]) : BlockUnits(levels[l][j]) <= B
                 /\ Len(entries) = IF l = 1 THEN Len(frames) ELSE Len(levels[l - 1])
                 /\ \A j \in 1 .. Len(entries) :
                      /\ entries[j].at = j
                      /\ entries[j].key = IF l = 1 THEN frames[j].key
                                          ELSE Head(levels[l - 1][j]).key

\* A lookup of one record answers whether the family holds it, and a lookup by
\* key returns the first Limit + 1 names with that key: equal capped keys,
\* frames that start inside a key and the walk across blocks never hide one.
LookupsAreRight ==
    pc = "answered" =>
        /\ query.mode = "exact" =>
             (out # << >> <=> [key |-> query.key, name |-> query.name] \in ToSet(input))
        /\ query.mode = "keys" =>
             LET all == Hits(input)
             IN  out = [i \in 1 .. Lesser(Len(all), Limit + 1) |-> all[i].name]

\* A scan finds a frame at every offset it computes and returns the input: the
\* size a frame says of itself is the size it was written with.
ScanSeesAll ==
    /\ pc = "scan" /\ place.off < End(frames) =>
         \E f \in ToSet(frames) : f.off = place.off /\ SelfBlocks(f) = f.blocks
    /\ pc = "answered" /\ query.mode = "scan" => out = input

=============================================================================
