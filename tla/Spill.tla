------------------------------- MODULE Spill -------------------------------
(***************************************************************************)
(* A directory listing that is too large for memory (walk.rs Listing,      *)
(* spill.rs): entries are collected into sorted runs in a region of the    *)
(* scratch file, runs are merged in passes until few enough are left, and  *)
(* the rest is merged while the consumer pulls.                            *)
(*                                                                         *)
(* An item is a key of K bytes and a name; its record takes K + 1 +        *)
(* Len(name) units of the file, which is a sequence of units.  The file    *)
(* already holds an outer directory's region.  Comparisons use the cached  *)
(* words of the code: the first Word bytes, zero padded, as one number.    *)
(***************************************************************************)
EXTENDS Naturals, Sequences, SequencesExt, FiniteSets, TLC

CONSTANTS
    Items,        \* the items a directory may hold
    Listings,     \* the listings tried: sequences of items
    K,            \* key bytes
    Word,         \* bytes of a cached word (eight in the code)
    InlineEntries, RunEntries, FanIn, MergeBuffer, TickEntries,  \* Thresholds
    Outer,        \* units of the outer region
    Faults,       \* bound: failed writes, reads and ticks
    None

VARIABLES
    listing,    \* the entries still to come from read_dir_each
    pc,         \* where list_sorted, or the consumer of its result, is
    buf,        \* Listing.buf
    runs,       \* Listing.runs, then the runs of the pass being read
    region,     \* the region's start, or None
    file,       \* the lane's file
    merged,     \* the pass: runs already written, entries merged, passes made
    merger,     \* cursors and heap
    writer,     \* RunWriter: start, buffer, count
    sorted,     \* what the consumer has pulled
    ticks,      \* entries handled since the last tick
    read,       \* Listing.read
    left, input

vars == <<listing, pc, buf, runs, region, file, merged, merger, writer, sorted, ticks, read, left, input>>
history == <<left, input>>

Lesser(a, b) == IF a <= b THEN a ELSE b
Size(item) == K + 1 + Len(item.name)
Record(item) == [u \in 1 .. Size(item) |-> [item |-> item, u |-> u]]
OuterUnits == [u \in 1 .. Outer |-> [item |-> None, u |-> u]]

----------------------------------------------------------------------------
\* The order of the records

\* Byte order of two sequences.
BytesLess(a, b) ==
    \/ IsStrictPrefix(a, b)
    \/ \E i \in 1 .. Len(a) : /\ i <= Len(b) /\ a[i] < b[i]
                              /\ SubSeq(a, 1, i - 1) = SubSeq(b, 1, i - 1)

\* The order the merge must produce: by key, then by name.
Less(a, b) == BytesLess(a.key, b.key) \/ (a.key = b.key /\ BytesLess(a.name, b.name))

\* prefix(): the first Word bytes as a big-endian number, zero padded.
Byte(s, i) == IF i <= Len(s) THEN s[i] ELSE 0
Prefix(s) == FoldLeft(LAMBDA n, i : n * 256 + Byte(s, i), 0, [i \in 1 .. Word |-> i])
KeyWord(a) == Prefix(SubSeq(a.key, 1, Lesser(K, Word)))

\* A name must not count before the rest of the key.
NameWord(a) == IF K > Word THEN 0 ELSE Prefix(a.name)

\* sort_keyed and head_cmp: the cached words, then the bytes.
CachedLess(a, b) ==
    \/ KeyWord(a) < KeyWord(b)
    \/ KeyWord(a) = KeyWord(b) /\ NameWord(a) < NameWord(b)
    \/ KeyWord(a) = KeyWord(b) /\ NameWord(a) = NameWord(b) /\ Less(a, b)

\* sort_keyed of the buffer; equal items may land in either order.
SortKeyed(s) == SortSeq(s, CachedLess)

----------------------------------------------------------------------------
NoMerger == [cursors |-> << >>, heap |-> << >>]
NoWriter == [start |-> 0, buf |-> << >>, count |-> 0, on |-> FALSE]
NoPass == [next |-> << >>, at |-> 0, count |-> 0, passes |-> 0]
Span == [start : Nat, len : Nat]

TypeOK ==
    /\ pc \in {"read", "flush", "cascade", "merging", "open", "pull", "end", "inline", "failed"}
    /\ \A i \in 1 .. Len(buf) : buf[i] \in Items
    /\ \A i \in 1 .. Len(runs) : runs[i] \in Span
    /\ region \in Nat \cup {None}
    /\ merged.count \in Nat /\ ticks \in Nat /\ read \in Nat
    /\ Len(merger.heap) <= Len(merger.cursors) /\ Len(merger.cursors) <= FanIn

Init ==
    /\ input \in Listings /\ listing = input
    /\ pc = "read" /\ buf = << >> /\ runs = << >> /\ region = None
    /\ file = OuterUnits
    /\ merged = NoPass /\ merger = NoMerger /\ writer = NoWriter
    /\ sorted = << >> /\ ticks = 0 /\ read = 0 /\ left = Faults

Works == UNCHANGED history
Fault == left > 0 /\ left' = left - 1 /\ UNCHANGED input

\* An error anywhere is fatal: the region is dropped and the file cut back.
Fail == /\ pc' = "failed" /\ region' = None
        /\ file' = IF region = None THEN file ELSE SubSeq(file, 1, region)
        /\ UNCHANGED <<listing, buf, runs, merged, merger, writer, sorted, ticks, read>>

\* An operation that ticks fails when the tick does.
FailsOnTick(due) == due /\ Fault /\ Fail
Ticked(due) == ticks' = IF due THEN 0 ELSE ticks + 1
Due(n) == TickEntries > 0 /\ n % TickEntries = 0

----------------------------------------------------------------------------
\* Listing: push and flush

\* The buffer, sorted, is one run of the region, which begins with the first.
Flushed == /\ region' = IF region = None THEN Len(file) ELSE region
           /\ LET units == FlattenSeq([i \in 1 .. Len(buf) |-> Record(SortKeyed(buf)[i])])
              IN  /\ file' = file \o units
                  /\ runs' = Append(runs, [start |-> Len(file), len |-> Len(units)])

\* A full buffer is written only when another entry arrives.
Full == Len(buf) >= RunEntries /\ listing # << >>

\* push begins with the flush of a full buffer.
PushFlush ==
    /\ pc = "read" /\ Full
    /\ \/ /\ Works /\ Flushed /\ buf' = << >>
          /\ UNCHANGED <<listing, pc, merged, merger, writer, sorted, ticks, read>>
       \/ Fault /\ Fail

PushRead == read + 1

\* The entry joins the buffer; every TickEntries entries the tick is called.
Push ==
    /\ pc = "read" /\ listing # << >> /\ Len(buf) < RunEntries
    /\ \/ /\ Works
          /\ buf' = Append(buf, Head(listing)) /\ listing' = Tail(listing)
          /\ read' = PushRead /\ Ticked(Due(PushRead))
          /\ UNCHANGED <<pc, runs, region, file, merged, merger, writer, sorted>>
       \/ FailsOnTick(Due(PushRead))

Spills == runs # << >> \/ Len(buf) > InlineEntries

\* read_dir_each is through, or its own error ends the listing: then the region
\* is dropped and only this directory is lost.
Listed ==
    /\ pc = "read" /\ listing = << >> /\ ~Full
    /\ \/ /\ Works
          /\ pc' = IF Spills THEN "flush" ELSE "inline"
          /\ sorted' = IF Spills THEN sorted ELSE SortKeyed(buf)
          /\ UNCHANGED <<listing, buf, runs, region, file, merged, merger, writer, ticks, read>>
       \/ Fault /\ Fail

\* The last run, if entries are left in the buffer.
LastFlush ==
    /\ pc = "flush"
    /\ \/ /\ Works
          /\ IF buf = << >> THEN UNCHANGED <<region, file, runs>> ELSE Flushed
          /\ buf' = << >> /\ pc' = "cascade"
          /\ UNCHANGED <<listing, merged, merger, writer, sorted, ticks, read>>
       \/ Fault /\ Fail

----------------------------------------------------------------------------
\* The cursors and the heap of a merge

\* The run's next record, made whole by reading MergeBuffer units at a time:
\* as few reads as that takes, none past the end of the run.
Filled(c) ==
    LET After(n) == LET to == Lesser(c.off + n * MergeBuffer, c.end)
                    IN  IF n = 0 THEN c
                        ELSE [off |-> to, end |-> c.end, pos |-> 0,
                              buf |-> SubSeq(c.buf, c.pos + 1, Len(c.buf))
                                        \o SubSeq(file, c.off + 1, to)]
        Enough(n) == LET d == After(n)
                     IN  \/ d.off >= d.end
                         \/ d.pos < Len(d.buf) /\ Len(d.buf) - d.pos >= Size(d.buf[d.pos + 1].item)
    IN  After(CHOOSE n \in 0 .. c.end - c.off : Enough(n) /\ \A m \in 0 .. n - 1 : ~Enough(m))

HasRecord(c) == c.pos < Len(c.buf)
HeadOf(c) == c.buf[c.pos + 1].item
Cursor(span) == [off |-> span.start, end |-> span.start + span.len, buf |-> << >>, pos |-> 0]

\* head_cmp: the cached order, then the run's place.
HeadLess(cursors, a, b) ==
    \/ CachedLess(HeadOf(cursors[a]), HeadOf(cursors[b]))
    \/ HeadOf(cursors[a]) = HeadOf(cursors[b]) /\ a < b

Swap(h, i, j) == [h EXCEPT ![i] = h[j], ![j] = h[i]]

\* sift_up from place i (counted from 1).
SiftUp(cursors, heap, i) ==
    LET S[n \in 0 .. Len(heap)] ==
            IF n = 0 THEN [h |-> heap, i |-> i]
            ELSE LET s == S[n - 1]
                     parent == s.i \div 2
                 IN  IF s.i > 1 /\ HeadLess(cursors, s.h[s.i], s.h[parent])
                     THEN [h |-> Swap(s.h, s.i, parent), i |-> parent] ELSE s
    IN  S[Len(heap)].h

\* mutant: only the left child is looked at.
Least_left(cursors, h, i) ==
    IF 2 * i <= Len(h) /\ HeadLess(cursors, h[2 * i], h[i]) THEN 2 * i ELSE i

\* The smallest of a place and its children.
Least(cursors, h, i) ==
    LET c == {j \in {i, 2 * i, 2 * i + 1} : j <= Len(h)}
    IN  CHOOSE j \in c : \A k \in c : k = j \/ HeadLess(cursors, h[j], h[k])

\* sift_down from the root.
SiftDown(cursors, heap) ==
    LET S[n \in 0 .. Len(heap)] ==
            IF n = 0 THEN [h |-> heap, i |-> 1]
            ELSE LET s == S[n - 1]
                     j == IF s.i <= Len(s.h) THEN Least(cursors, s.h, s.i) ELSE s.i
                 IN  [h |-> Swap(s.h, s.i, j), i |-> j]
    IN  IF heap = << >> THEN heap ELSE S[Len(heap)].h

\* Merger::new: every run that has a record joins the heap.
NewMerger(spans) ==
    LET cursors == [i \in 1 .. Len(spans) |-> Filled(Cursor(spans[i]))]
    IN  [cursors |-> cursors,
         heap |-> FoldLeft(LAMBDA h, i : IF HasRecord(cursors[i])
                                         THEN SiftUp(cursors, Append(h, i), Len(h) + 1) ELSE h,
                           << >>, [i \in 1 .. Len(spans) |-> i])]

\* next_record_into: the top run advances; an exhausted one is swapped out.
Advanced(m) ==
    LET run == Head(m.heap)
        c   == m.cursors[run]
        d   == Filled([c EXCEPT !.pos = @ + Size(HeadOf(c))])
        cs  == [m.cursors EXCEPT ![run] = d]
        h   == IF HasRecord(d) THEN m.heap
               ELSE IF Len(m.heap) = 1 THEN << >>
               ELSE Front([m.heap EXCEPT ![1] = Last(m.heap)])
    IN  [cursors |-> cs, heap |-> SiftDown(cs, h)]

TopItem(m) == HeadOf(m.cursors[Head(m.heap)])

----------------------------------------------------------------------------
\* cascade: passes over groups of FanIn runs

Group == SubSeq(runs, merged.at + 1, Lesser(merged.at + FanIn, Len(runs)))

MorePasses == Len(runs) > FanIn

\* A group is opened; a lone run is carried over as it is.
OpenGroup ==
    /\ pc = "cascade" /\ MorePasses /\ merged.at < Len(runs)
    /\ IF Len(Group) = 1
       THEN /\ merged' = [merged EXCEPT !.next = Append(@, Group[1]), !.at = @ + 1]
            /\ UNCHANGED <<pc, merger, writer>>
       ELSE /\ merger' = NewMerger(Group)
            /\ writer' = [start |-> Len(file), buf |-> << >>, count |-> 0, on |-> TRUE]
            /\ pc' = "merging" /\ UNCHANGED merged
    /\ UNCHANGED <<listing, buf, runs, region, file, sorted, ticks, read, history>>

\* RunWriter: the buffer holds four merge buffers and is written as it fills,
\* up to the record that no longer fits.
Cap == 4 * MergeBuffer
Buffered(item) ==
    LET all == writer.buf \o Record(item)
        n   == IF writer.buf # << >> /\ Len(all) > Cap THEN Len(writer.buf) ELSE 0
        m   == IF Len(all) - n >= Cap THEN Len(all) ELSE n
    IN  /\ file' = file \o SubSeq(all, 1, m)
        /\ writer' = [writer EXCEPT !.buf = SubSeq(all, m + 1, Len(all)), !.count = @ + 1]

\* One record of the group is written behind the runs that are being read.
MergeOne ==
    /\ pc = "merging" /\ merger.heap # << >>
    /\ \/ /\ Works
          /\ Buffered(TopItem(merger))
          /\ merger' = Advanced(merger)
          /\ merged' = [merged EXCEPT !.count = @ + 1]
          /\ Ticked(Due(merged.count + 1))
          /\ UNCHANGED <<listing, pc, buf, runs, region, sorted, read>>
       \/ Fault /\ Fail

\* finish: the rest of the buffer is written and the group is one run.
CloseGroup ==
    /\ pc = "merging" /\ merger.heap = << >>
    /\ \/ /\ Works
          /\ file' = file \o writer.buf
          /\ merged' = [merged EXCEPT !.next = Append(@, [start |-> writer.start,
                                                          len |-> Len(file') - writer.start]),
                                      !.at = Lesser(@ + FanIn, Len(runs))]
          /\ merger' = NoMerger /\ writer' = NoWriter /\ pc' = "cascade"
          /\ UNCHANGED <<listing, buf, runs, region, sorted, ticks, read>>
       \/ Fault /\ Fail

\* The pass is through: it ticks, and its runs are the next pass's.
PassEnds ==
    /\ pc = "cascade" /\ MorePasses /\ merged.at = Len(runs)
    /\ \/ /\ Works
          /\ runs' = merged.next
          /\ merged' = [merged EXCEPT !.next = << >>, !.at = 0, !.passes = @ + 1]
          /\ ticks' = 0
          /\ UNCHANGED <<listing, pc, buf, region, file, merger, writer, sorted, read>>
       \/ FailsOnTick(TRUE)

----------------------------------------------------------------------------
\* MergeReader: the consumer pulls

Open ==
    /\ pc = "cascade" /\ ~MorePasses
    /\ \/ /\ Works
          /\ merger' = NewMerger(runs) /\ pc' = "pull"
          /\ UNCHANGED <<listing, buf, runs, region, file, merged, writer, sorted, ticks, read>>
       \/ Fault /\ Fail

Pull ==
    /\ pc = "pull" /\ merger.heap # << >>
    /\ \/ /\ Works
          /\ sorted' = Append(sorted, TopItem(merger))
          /\ merger' = Advanced(merger)
          /\ Ticked(Due(Len(sorted) + 1))
          /\ UNCHANGED <<listing, pc, buf, runs, region, file, merged, writer, read>>
       \/ Fault /\ Fail

\* The reader is dropped, at its end or before: the file is cut back.
DropReader ==
    /\ pc = "pull"
    /\ pc' = "end" /\ region' = None /\ file' = SubSeq(file, 1, region)
    /\ UNCHANGED <<listing, buf, runs, merged, merger, writer, sorted, ticks, read, history>>

Next == \/ PushFlush \/ Push \/ Listed \/ LastFlush \/ OpenGroup \/ MergeOne \/ CloseGroup
        \/ PassEnds \/ Open \/ Pull \/ DropReader
Spec == Init /\ [][Next]_vars

----------------------------------------------------------------------------
\* Properties

ItemCount(s, x) == Cardinality({i \in 1 .. Len(s) : s[i] = x})
RunItems(span) ==
    LET units == SubSeq(file, span.start + 1, span.start + span.len)
        heads == SelectSeq(units, LAMBDA u : u.u = 1)
    IN  [i \in 1 .. Len(heads) |-> heads[i].item]
InOrder(s) == \A i, j \in 1 .. Len(s) : i < j => ~Less(s[j], s[i])
FlushedItems == FlattenSeq([i \in 1 .. Len(runs) |-> RunItems(runs[i])])

\* What the consumer receives is the listing, sorted: in order at every moment,
\* nothing twice, and complete once the merge has run dry or the listing fitted
\* in memory.  The walk's component order rests on it.
SortedUnion ==
    /\ InOrder(sorted)
    /\ \A x \in Items : ItemCount(sorted, x) <= ItemCount(input, x)
    /\ (pc = "inline" \/ (pc = "pull" /\ merger.heap = << >>)) =>
          \A x \in Items : ItemCount(sorted, x) = ItemCount(input, x)

\* Between two passes the runs hold exactly the entries read so far, each run in
\* order: a pass loses nothing although it appends to the file it reads.
RunsHoldEverything ==
    pc \in {"read", "flush", "cascade"} =>
       /\ \A i \in 1 .. Len(runs) : InOrder(RunItems(runs[i]))
       /\ \A x \in Items : ItemCount(FlushedItems, x) + ItemCount(buf, x) + ItemCount(listing, x)
                           = ItemCount(input, x)

\* The outer directory's runs are never touched, and whatever way the listing
\* goes the file ends with them again.
OuterIntact ==
    /\ SubSeq(file, 1, Outer) = OuterUnits
    /\ pc \in {"end", "failed", "inline"} => file = OuterUnits

\* passes_for: the number of passes the code announces.
PassesFor(n) ==
    LET P[m \in 0 .. n] == IF m <= FanIn THEN 0 ELSE 1 + P[(m + FanIn - 1) \div FanIn]
    IN  P[n]

\* The merge that is pulled from never reads more than FanIn runs, and the passes
\* made are as many as the code announced.
FanInKept ==
    pc = "pull" =>
       /\ Len(runs) <= FanIn
       /\ merged.passes = PassesFor(IF Len(input) <= RunEntries THEN 1
                                    ELSE (Len(input) + RunEntries - 1) \div RunEntries)

\* A directory that fits in memory never touches the scratch file.
SmallStaysInline == (Len(input) <= InlineEntries /\ pc # "failed") => file = OuterUnits

\* The heartbeat: fewer than two intervals of entries pass between two ticks,
\* also where reading turns into merging and merging into pulling.
TickGap == TickEntries > 0 => ticks < 2 * TickEntries

=============================================================================
