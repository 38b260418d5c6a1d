-------------------------------- MODULE Walk --------------------------------
(***************************************************************************)
(* The source walk (walk.rs): a pull iterator over a tree that others may  *)
(* change while it is read.                                                *)
(*                                                                         *)
(* The source is a graph of objects: a directory names other objects, and  *)
(* a bind mount makes a directory appear below itself.  A path is the      *)
(* sequence of names from the root, and every call on a path resolves it   *)
(* anew, so what a listing said may be false when the entry is entered.    *)
(* The walk keeps a stack of frames (one per open directory), the strong   *)
(* identities of the open path, and the end of the scratch file that the   *)
(* large listings spill into.  `out` is what the consumer has received.    *)
(***************************************************************************)
EXTENDS Naturals, Sequences, SequencesExt, FiniteSets

CONSTANTS
    Dirs, Files, Links, Others,  \* the objects, by type
    Root,                        \* the walk root
    Names,                       \* entry names; their order is the byte order
    Strong,                      \* directories with a strong identity
    Graphs,                      \* the trees a behaviour may start from
    MountSets,                   \* sets of edges that are mount roots
    Options,                     \* how the walk may be configured
    MaxDepth,                    \* max_depth
    Inline,                      \* inline_entries
    Edits,                       \* bound: changes made by others
    Faults,                      \* bound: failed calls
    None

VARIABLES
    kids,       \* what each directory names
    mounts,     \* the edges that are mount roots
    opt,        \* the walk's configuration
    pc,         \* where next_with is: step, path, identity seen, mount note
    stack,      \* the frames
    ancestors,  \* strong identities of the open path
    excluded,   \* entries a pattern removed
    laneEnd,    \* the logical end of the walk's scratch file
    done,       \* nothing more is yielded
    out,        \* the events and errors yielded
    listed,     \* every entry a listing of this walk reported: path and type
    left        \* what is left of the bounds

state == <<stack, ancestors, excluded, laneEnd, done>>
vars == <<kids, mounts, opt, pc, state, out, listed, left>>

Objects == Dirs \cup Files \cup Links \cup Others
Types == {"dir", "file", "symlink", "other"}
TypeOf(o) == IF o \in Dirs THEN "dir" ELSE IF o \in Files THEN "file"
             ELSE IF o \in Links THEN "symlink" ELSE "other"
Notes == {"none", "skipped", "unknown"}
Region == [start : Nat, len : Nat]
Frame == [rel : Seq(Names), entries : Seq(Names \X Types), pushed : BOOLEAN,
          emitEnd : BOOLEAN, mount : Notes, region : Region \cup {None}]

TypeOK ==
    /\ kids \in [Dirs -> [Names -> Objects \cup {None}]]
    /\ pc.at \in {"unstarted", "next", "stat", "mount", "list", "ended"}
    /\ \A i \in 1 .. Len(stack) :
          /\ stack[i].mount \in Notes /\ stack[i].pushed \in BOOLEAN
          /\ stack[i].emitEnd = (i > 1)
          /\ Len(stack[i].rel) = i - 1
    /\ Range(ancestors) \subseteq Strong
    /\ excluded \in Nat /\ laneEnd \in Nat /\ done \in BOOLEAN
    /\ \A i \in 1 .. Len(out) :
          out[i].ev \in Types \cup {"end", "mountskip", "mountunknown", "error", "fatal"}

Idle == [at |-> "next", path |-> << >>, id |-> None, note |-> "none"]

----------------------------------------------------------------------------
\* The source filesystem

\* What the path names now.
Resolve(p) == FoldLeft(LAMBDA o, n : IF o \in Dirs THEN kids[o][n] ELSE None, Root, p)

\* The entries of a directory in name order, each with the type it has now.
Sorted(d) ==
    LET present == {n \in Names : kids[d][n] # None}
    IN  [i \in 1 .. Cardinality(present) |->
           LET n == SetToSortSeq(present, <)[i] IN <<n, TypeOf(kids[d][n])>>]

\* What the filesystem answers of an edge, when it can tell.
IsMount(p) == LET parent == Resolve(Front(p))
              IN  parent \in Dirs /\ <<parent, Last(p)>> \in mounts

\* Somebody else changes what a directory names.
Edit ==
    /\ left.edits > 0 /\ pc.at # "ended"
    /\ left' = [left EXCEPT !.edits = @ - 1]
    /\ \E d \in Dirs, n \in Names, o \in Objects \cup {None} :
          /\ kids[d][n] # o
          /\ kids' = [kids EXCEPT ![d][n] = o]
    /\ UNCHANGED <<mounts, opt, pc, state, out, listed>>

Fails == left.faults > 0 /\ left' = [left EXCEPT !.faults = @ - 1]
Works == UNCHANGED left

----------------------------------------------------------------------------
\* Frames and the scratch regions they own

\* Selection::select: a pattern comes before --no-recursive.
Select(p, t) ==
    IF Last(p) \in opt.patterns THEN "excluded"
    ELSE IF opt.norecurse /\ t = "dir" THEN "skipped" ELSE "keep"

\* Drop for Region: the file is cut back to the region's start, unless an outer
\* region already cut it further.
Dropped(end, f) ==
    IF f.region # None /\ f.region.start <= end THEN f.region.start ELSE end

\* One frame is closed, with its ancestor and its region.
Popped == /\ stack' = Front(stack)
          /\ ancestors' = IF Last(stack).pushed THEN Front(ancestors) ELSE ancestors
          /\ laneEnd' = Dropped(laneEnd, Last(stack))

\* Every frame is closed, innermost first, so the regions end in stack order.
Release ==
    /\ stack' = << >>
    /\ ancestors' = SubSeq(ancestors, 1, Len(ancestors)
                              - Cardinality({i \in 1 .. Len(stack) : stack[i].pushed}))
    /\ laneEnd' = FoldRight(LAMBDA f, end : Dropped(end, f), stack, laneEnd)

Yield(e, p) == out' = Append(out, [ev |-> e, path |-> p])

\* A fatal error: everything is released and nothing more is yielded.
Fatal(p) == /\ Release
            /\ done' = TRUE
            /\ pc' = Idle
            /\ Yield("fatal", p)
            /\ UNCHANGED excluded

\* An error of one entry: it is yielded and the walk goes on with the next one.
Refuse(p) == /\ Yield("error", p)
             /\ pc' = Idle
             /\ UNCHANGED <<state, listed>>

\* A listing of more than Inline entries is kept in a region of the scratch
\* file, when the walk has one.
Listing(p, entries, pushed, note) ==
    LET spilled == opt.scratch /\ Len(entries) > Inline
    IN  [rel |-> p, entries |-> entries, pushed |-> pushed, emitEnd |-> p # << >>,
         mount |-> note,
         region |-> IF spilled THEN [start |-> laneEnd, len |-> Len(entries)] ELSE None]

Opened(f) ==
    /\ stack' = Append(stack, f)
    /\ laneEnd' = IF f.region = None THEN laneEnd ELSE laneEnd + f.region.len
    /\ listed' = listed \cup {<<Append(f.rel, e[1]), e[2]>> : e \in Range(f.entries)}

----------------------------------------------------------------------------
\* start: the root is listed once

Start ==
    /\ pc.at = "unstarted"
    /\ \/ /\ Works
          /\ Opened(Listing(<< >>, Sorted(Root), Root \in Strong, "none"))
          /\ pc' = Idle
          /\ UNCHANGED <<ancestors, excluded, done, out>>
       \/ \E e \in {"error", "fatal"} :
             /\ Fails
             /\ ancestors' = << >>
             /\ done' = TRUE
             /\ pc' = Idle
             /\ Yield(e, << >>)
             /\ UNCHANGED <<stack, excluded, laneEnd, listed>>
    /\ UNCHANGED <<kids, mounts, opt>>

----------------------------------------------------------------------------
\* next_with: one turn of its loop

Top == Last(stack)
CanPull == pc.at = "next" /\ ~done /\ stack # << >> /\ Top.mount = "none"
SetTop(f) == stack' = [stack EXCEPT ![Len(stack)] = f]

\* A mount note is yielded once, before the frame's first entry.
TakeNote ==
    /\ pc.at = "next" /\ ~done /\ stack # << >> /\ Top.mount # "none"
    /\ SetTop([Top EXCEPT !.mount = "none"])
    /\ Yield(IF Top.mount = "skipped" THEN "mountskip" ELSE "mountunknown", Top.rel)
    /\ UNCHANGED <<kids, mounts, opt, pc, ancestors, excluded, laneEnd, done, listed, left>>

\* The next entry leaves its frame, passes the selection, and is yielded; a
\* directory is entered first.
Pull ==
    /\ CanPull /\ Top.entries # << >>
    /\ LET e == Head(Top.entries)
           p == Append(Top.rel, e[1])
           verdict == Select(p, e[2])
       IN  /\ SetTop([Top EXCEPT !.entries = Tail(@)])
           /\ excluded' = excluded + (IF verdict = "excluded" THEN 1 ELSE 0)
           /\ IF verdict = "keep" /\ e[2] # "dir" THEN Yield(e[2], p) ELSE UNCHANGED out
           /\ pc' = IF verdict = "keep" /\ e[2] = "dir"
                    THEN [Idle EXCEPT !.at = "stat", !.path = p] ELSE pc
    /\ UNCHANGED <<kids, mounts, opt, ancestors, laneEnd, done, listed, left>>

\* A spilled frame can fail to give its next entry, and every so many entries
\* pulled from one the tick can fail: both end the walk.
PullFails ==
    /\ CanPull /\ Top.region # None
    /\ Fails
    /\ Fatal(Top.rel)
    /\ UNCHANGED <<kids, mounts, opt, listed>>

\* A directory with no entry left is closed post-order; the root is silent.
Exhausted ==
    /\ CanPull /\ Top.entries = << >>
    /\ Popped
    /\ IF Top.emitEnd THEN Yield("end", Top.rel) ELSE UNCHANGED out
    /\ UNCHANGED <<kids, mounts, opt, pc, excluded, done, listed, left>>

\* The iterator is exhausted: next returns None from here on.
NextIsNone ==
    /\ pc.at = "next" /\ (done \/ stack = << >>)
    /\ pc' = [Idle EXCEPT !.at = "ended"]
    /\ UNCHANGED <<kids, mounts, opt, state, out, listed, left>>

----------------------------------------------------------------------------
\* enter: the checks on one directory, in their order

TooDeep == Len(stack) > MaxDepth

\* The depth cap, then the type and identity the path has now.
Stat ==
    /\ pc.at = "stat"
    /\ LET o == Resolve(pc.path)
       IN  \/ /\ TooDeep
              /\ Refuse(pc.path) /\ Works
           \/ /\ ~TooDeep /\ o \in Dirs /\ Works
              /\ pc' = [pc EXCEPT !.at = IF opt.cross THEN "list" ELSE "mount", !.id = o]
              /\ UNCHANGED <<state, out, listed>>
           \/ ~TooDeep /\ o \notin Dirs /\ Works /\ Refuse(pc.path)
           \/ ~TooDeep /\ Fails /\ Refuse(pc.path)
    /\ UNCHANGED <<kids, mounts, opt>>

\* A mount root: a frame with no entries and no identity, so that its end comes.
MountYes(p) ==
    /\ stack' = Append(stack, [rel |-> p, entries |-> << >>, pushed |-> FALSE,
                               emitEnd |-> TRUE, mount |-> "skipped", region |-> None])
    /\ Yield("dir", p)
    /\ pc' = Idle
    /\ UNCHANGED <<ancestors, excluded, laneEnd, done, listed>>

\* Under Stay the filesystem is asked whether the directory is a mount root; it
\* may not know, and the call may fail.
Mount ==
    /\ pc.at = "mount"
    /\ \/ IsMount(pc.path) /\ Works /\ MountYes(pc.path)
       \/ /\ ~IsMount(pc.path) /\ Works
          /\ pc' = [pc EXCEPT !.at = "list"]
          /\ UNCHANGED <<state, out, listed>>
       \/ /\ Fails
          /\ pc' = [pc EXCEPT !.at = "list", !.note = "unknown"]
          /\ UNCHANGED <<state, out, listed>>
       \/ Fails /\ Refuse(pc.path)
    /\ UNCHANGED <<kids, mounts, opt>>

\* mutant: only the parent is compared.
Cycle_parent(id) == ancestors # << >> /\ Last(ancestors) = id

\* The directory is one of the directories that are open above it.
Cycle(id) == id \in Range(ancestors)

\* Only a strong identity is kept.
Pushed(id) == ancestors' = IF id \in Strong THEN Append(ancestors, id) ELSE ancestors

\* The directory cannot be listed: its identity is taken back.
ListFails(p) == Refuse(p)

\* The cycle check, the listing, and the frame.  The path may name another
\* object than the one whose identity was read.
List ==
    /\ pc.at = "list"
    /\ LET o == Resolve(pc.path)
       IN  \/ Cycle(pc.id) /\ Works /\ Refuse(pc.path)
           \/ /\ ~Cycle(pc.id) /\ o \in Dirs /\ Works
              /\ Pushed(pc.id)
              /\ Opened(Listing(pc.path, Sorted(o), pc.id \in Strong, pc.note))
              /\ Yield("dir", pc.path)
              /\ pc' = Idle
              /\ UNCHANGED <<excluded, done>>
           \/ ~Cycle(pc.id) /\ o \notin Dirs /\ Works /\ ListFails(pc.path)
           \/ ~Cycle(pc.id) /\ Fails /\ ListFails(pc.path)
           \/ ~Cycle(pc.id) /\ Fails /\ Fatal(pc.path) /\ UNCHANGED listed
    /\ UNCHANGED <<kids, mounts, opt>>

----------------------------------------------------------------------------
Init ==
    /\ kids \in Graphs /\ mounts \in MountSets /\ opt \in Options
    /\ pc = [Idle EXCEPT !.at = "unstarted"]
    /\ stack = << >>
    /\ ancestors = IF Root \in Strong THEN <<Root>> ELSE << >>
    /\ excluded = 0 /\ laneEnd = 0 /\ done = FALSE
    /\ out = << >> /\ listed = {}
    /\ left = [edits |-> Edits, faults |-> Faults]

Step == \/ Start \/ TakeNote \/ Pull \/ PullFails \/ Exhausted \/ NextIsNone
        \/ Stat \/ Mount \/ List
Next == Step \/ Edit

Spec == Init /\ [][Next]_vars

----------------------------------------------------------------------------
\* Properties

EntryEvents == Types \cup {"error", "fatal"}
Closed(p, n) == \E i \in n + 1 .. Len(out) : out[i] = [ev |-> "end", path |-> p]
OpenDirs == {i \in 1 .. Len(out) : out[i].ev = "dir" /\ ~Closed(out[i].path, i)}

\* Component-wise order of two paths: by the first name they differ in, a
\* directory before what is below it.
Before(p, q) ==
    \/ IsStrictPrefix(p, q)
    \/ \E i \in 1 .. Len(p) : /\ i <= Len(q) /\ p[i] < q[i]
                              /\ SubSeq(p, 1, i - 1) = SubSeq(q, 1, i - 1)

\* Entries come in component-wise order whatever is edited meanwhile: the
\* consumer's frames and the destination's name lookup rely on it, and no entry
\* is met twice.
ComponentOrder ==
    \A i, j \in 1 .. Len(out) :
       (i < j /\ out[i].ev \in EntryEvents \ {"fatal"} /\ out[j].ev \in EntryEvents \ {"fatal"})
          => Before(out[i].path, out[j].path)

\* The open directories of the event stream are exactly the frames, so the
\* consumer that opens on Dir and closes on DirEnd is always where the walk is.
StackIsOpenPath ==
    done \/ {out[i].path : i \in OpenDirs}
            = {stack[i].rel : i \in {j \in 1 .. Len(stack) : stack[j].emitEnd}}

\* The ancestor set is the open path's strong identities, no more and no fewer:
\* a stale one would call an innocent directory a cycle, a missing one would
\* copy a bind mount into itself.
AncestorsBalanced ==
    Len(ancestors) = Cardinality({i \in 1 .. Len(stack) : stack[i].pushed})
                     + (IF pc.at = "unstarted" /\ Root \in Strong THEN 1 ELSE 0)

\* A strong directory is never open twice: no object is copied into itself.
NoCycle == \A i, j \in 1 .. Len(ancestors) : i # j => ancestors[i] # ancestors[j]

\* Regions of the scratch file lie one above the other in stack order and the
\* file ends with the last of them, so closing a directory never cuts another's
\* runs and a finished walk leaves the file empty for the next one.
RegionsStacked ==
    LET spilled == {i \in 1 .. Len(stack) : stack[i].region # None}
        EndOf(i) == stack[i].region.start + stack[i].region.len
    IN  /\ \A i, j \in spilled : i < j => EndOf(i) <= stack[j].region.start
        /\ \A i \in spilled : EndOf(i) <= laneEnd
        /\ laneEnd = IF spilled = {} THEN 0
                     ELSE EndOf(CHOOSE i \in spilled : \A j \in spilled : j <= i)

\* Under Stay nothing below a directory that was a mount root when it was asked
\* is ever yielded.
MountsNotEntered ==
    \A i \in 1 .. Len(out) : out[i].ev = "mountskip" =>
       \A j \in 1 .. Len(out) : ~IsStrictPrefix(out[i].path, out[j].path)

\* No directory is open deeper than the cap, at any identity strength.
DepthCapped == \A i \in 1 .. Len(out) : out[i].ev = "dir" => Len(out[i].path) <= MaxDepth

Kept(e) == Select(e[1], e[2]) = "keep"
Yielded(e) == \E i \in 1 .. Len(out) : out[i].ev \in {e[2], "error"} /\ out[i].path = e[1]

\* A walk that ends without a fatal error has yielded every entry its listings
\* reported and the selection keeps, as that entry or as its error, and counted
\* every entry a pattern removed.
NothingForgotten ==
    (pc.at = "ended" /\ \A i \in 1 .. Len(out) : out[i].ev # "fatal") =>
       /\ \A e \in listed : Kept(e) => Yielded(e)
       /\ excluded = Cardinality({e \in listed : Select(e[1], e[2]) = "excluded"})

\* Nothing is yielded after a fatal error.
FatalIsLast ==
    \A i \in 1 .. Len(out) : out[i].ev = "fatal" => i = Len(out)

=============================================================================
