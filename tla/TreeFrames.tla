----------------------------- MODULE TreeFrames -----------------------------
(***************************************************************************)
(* How a tree copy follows its walk: flux-core tree.rs, from copy_roots_at *)
(* (several sources) and copy_tree_frames (one) down to walk_into,         *)
(* enter_dir and the drain.  One frame is kept per open directory of the   *)
(* walk; a directory that cannot be entered is a skipped frame and so is   *)
(* everything below it.  The staged files of a frame wait in its batch.    *)
(*                                                                         *)
(* What one file's copy or one batch's flush does inside is Publication's  *)
(* subject; here each ends in one of its outcomes.  The walk itself is     *)
(* Walk's: here it is any order of the entries of each source directory.   *)
(***************************************************************************)
EXTENDS Naturals, Sequences, FiniteSets, SequencesExt, FiniteSetsExt

CONSTANTS
    Node,       \* the entries of the sources, the roots among them
    Roots,      \* the roots, in the order they are copied
    KindOf,     \* [Node -> {"dir", "file", "other", "mount"}]
    ParentOf,   \* [Node -> Node \cup {None}]; None for a root
    Place,      \* the destination's entries: names it folds together are one
    Dest,       \* the place of the destination directory itself
    At,         \* [Node -> Place]
    Befores,    \* the destinations the run may find: a set of [Place -> kind]
    Weak,       \* the places whose identity is not strong
    Alias,      \* the source directories that are the destination, by identity
    Reserved,   \* the entries whose destination is a reserved control path
    Several,    \* copy_roots_at: several sources
    Strict,     \* Safety::Strict
    BatchFiles, \* BatchPolicy.files; 0 for a copy that stages no batch
    OpenWriters,\* BatchPolicy.open_writers
    MaxFaults, MaxLosses,
    None

VARIABLES
    dest,     \* [Place -> [kind, mine]]: the destination
    visited,  \* the entries the walk has yielded
    stack,    \* the frames
    said,     \* [Node -> what became of the file]
    entered,  \* the source directories a live frame was made for
    unsynced, \* the published files whose claims are not flushed
    files,    \* the DEST-level state the file roots share
    done,     \* RootDone, per root
    run,      \* the rest of the run's memory
    env       \* the lock, the scratch space's poison, and the bounds left

vars == <<dest, visited, stack, said, entered, unsynced, files, done, run, env>>

Kinds == {"none", "dir", "mount", "unsure", "source", "file"}
Directories == {"dir", "mount", "unsure", "source"}
Verdicts == {"none", "published", "failed", "kept", "removed"}
Causes == {"lost", "beat", "primitive", "refused", "scratch", "source", "create"}

Frame == [node : Node, place : Place, live : BOOLEAN, created : SUBSET Place,
          claim : BOOLEAN, fresh : BOOLEAN, pending : Seq(Node)]
Live(n, p, claim, fresh) ==
    [node |-> n, place |-> p, live |-> TRUE, created |-> {}, claim |-> claim, fresh |-> fresh, pending |-> <<>>]
Skipped(n, p) == [Live(n, p, FALSE, FALSE) EXCEPT !.live = FALSE]

Init ==
    /\ \E b \in Befores : dest = [p \in Place |-> [kind |-> b[p], mine |-> FALSE]]
    /\ visited = {} /\ stack = <<>> /\ entered = {} /\ unsynced = {} /\ done = <<>>
    /\ said = [n \in Node |-> "none"]
    /\ files = None
    /\ run = [pc |-> "root", at |-> 0, stop |-> None, mode |-> "publish", first |-> None,
              file |-> None, bad |-> FALSE, abort |-> None]
    /\ env = [lock |-> TRUE, poison |-> FALSE, faults |-> MaxFaults, losses |-> MaxLosses]

-----------------------------------------------------------------------------
\* The environment's answers.

Calm == UNCHANGED env
Spend(k) == env.faults >= k /\ env' = [env EXCEPT !.faults = @ - k]
Fault == Spend(1)

LoseLock ==
    /\ env.lock /\ env.losses > 0 /\ run.pc # "done"
    /\ env' = [env EXCEPT !.lock = FALSE, !.losses = @ - 1]
    /\ UNCHANGED <<dest, visited, stack, said, entered, unsynced, files, done, run>>

\* beat_and_guard: it passes, or it stops the caller with the cause.
Passes == env.lock /\ Calm
Fails(cause) == \/ cause = "beat" /\ Fault
                \/ cause = "lost" /\ ~env.lock /\ Calm

Top == stack[Len(stack)]
Root == Roots[Len(done) + 1]
SetTop(f) == [stack EXCEPT ![Len(stack)] = f]
Waiting(s) == FoldSeq(LAMBDA f, n : n + Len(f.pending), 0, s)

\* drain_mode: a lost lock first, then a failed heartbeat or a missing primitive; else the batches are published.
DrainMode(cause) == CASE cause = "lost" -> "keep"
                      [] cause \in {"beat", "primitive"} -> "remove"
                      [] OTHER -> "publish"

\* The walk returns an error; what is staged is drained from the top of s down.
Stopped(s, cause) ==
    /\ stack' = s
    /\ run' = [run EXCEPT !.pc = "drain", !.at = Len(s), !.stop = cause, !.mode = DrainMode(cause)]

-----------------------------------------------------------------------------
\* flush_batch: every staged file of a frame is published or fails; or a stop keeps or removes their temporaries.

\* A file can be published: the name is free, or holds a file of another run that a claim lets it replace.
Ready(f, n) ==
    LET d == dest[At[n]] IN d.kind = "none" \/ (d.kind = "file" /\ ~d.mine /\ f.claim)

Quiet == [pub |-> {}, failed |-> {}, kept |-> {}, removed |-> {}, stop |-> None, cost |-> 0, poison |-> FALSE]

Flushes(f) ==
    LET ps == ToSet(f.pending)
        good == {n \in ps : Ready(f, n)}
        ended == {[Quiet EXCEPT !.pub = good \ x, !.failed = (ps \ good) \cup x, !.cost = Cardinality(x)]
                     : x \in {{}} \cup {{n} : n \in good}}
        stops == {[Quiet EXCEPT !.removed = ps, !.stop = c, !.cost = 1] : c \in {"beat", "primitive"}}
                     \cup {[Quiet EXCEPT !.kept = ps, !.stop = "beat", !.cost = 2]}
        poisons == {[o EXCEPT !.poison = TRUE, !.cost = @ + 1] : o \in {e \in ended : ~f.fresh /\ e.pub # {}}}
    IN IF f.pending = <<>> THEN {Quiet}
       ELSE IF ~env.lock THEN {[Quiet EXCEPT !.kept = ps, !.stop = "lost"]}
       ELSE ended \cup stops \cup poisons

\* What an outcome leaves behind; a Strict publication's claim is durable at once.
Settle(o) ==
    /\ dest' = [p \in Place |-> IF \E n \in o.pub : At[n] = p THEN [kind |-> "file", mine |-> TRUE] ELSE dest[p]]
    /\ said' = [n \in Node |-> CASE n \in o.pub -> "published" [] n \in o.failed -> "failed"
                                 [] n \in o.kept -> "kept" [] n \in o.removed -> "removed" [] OTHER -> said[n]]
    /\ env.faults >= o.cost
    /\ env' = [env EXCEPT !.faults = @ - o.cost, !.poison = @ \/ o.poison]

\* A failure of an outcome that report() counts: failed and kept files, each in FailureTally.copy.
Counted(o) == o.failed # {} \/ o.kept # {}

\* std::mem::take: the frame's batch is empty from here on, whatever the flush ends in.
Emptied(s, i) == [s EXCEPT ![i].pending = <<>>]

\* The frame at i is flushed and the copy goes on at pc.
FlushFrame(i, pc) ==
    \E o \in Flushes(stack[i]) :
        LET s == Emptied(stack, i) IN
        /\ Settle(o)
        /\ \/ o.stop = None /\ stack' = s
              /\ run' = [run EXCEPT !.pc = pc, !.bad = @ \/ Counted(o)]
           \/ o.stop # None /\ stack' = s
              /\ run' = [run EXCEPT !.pc = "drain", !.at = Len(s), !.stop = o.stop,
                                    !.mode = DrainMode(o.stop), !.bad = @ \/ Counted(o)]
        /\ UNCHANGED <<visited, entered, unsynced, files, done>>

-----------------------------------------------------------------------------
\* copy_one and link_one, by what they end in.

Copies(f, n) ==
    LET batched == BatchFiles > 0
        fails == [v |-> "failed", stop |-> None, cost |-> 0, poison |-> FALSE]
        stops(c, k) == [fails EXCEPT !.v = "none", !.stop = c, !.cost = k]
        good == [fails EXCEPT !.v = IF batched THEN "staged" ELSE "published"]
    IN IF n \in Reserved THEN {fails}
       ELSE IF env.poison /\ ~f.fresh THEN {stops("scratch", 0)}
       ELSE IF ~Ready(f, n) THEN {fails}
       ELSE IF ~env.lock THEN {stops("lost", 0)}
       ELSE {good, [fails EXCEPT !.cost = 1], stops("beat", 1)}
            \cup (IF batched THEN {} ELSE {stops("primitive", 1)})
            \cup (IF batched \/ f.fresh THEN {} ELSE {[good EXCEPT !.cost = 1, !.poison = TRUE]})

\* One file goes through the top frame; after is where a copy that does not stop goes on.
CopyOne(n, after) ==
    \E c \in Copies(Top, n) :
        /\ Settle([Quiet EXCEPT !.pub = IF c.v = "published" THEN {n} ELSE {},
                                !.failed = IF c.v = "failed" THEN {n} ELSE {},
                                !.cost = c.cost, !.poison = c.poison])
        /\ unsynced' = IF c.v = "published" /\ Top.claim THEN unsynced \cup {n} ELSE unsynced
        /\ LET s == IF c.v = "staged" THEN [stack EXCEPT ![Len(stack)].pending = Append(@, n)] ELSE stack
               full == c.v = "staged" /\ Len(Top.pending) + 1 >= BatchFiles
           IN \/ c.stop = None /\ stack' = s
                 /\ run' = [run EXCEPT !.pc = IF full THEN "full" ELSE after, !.bad = @ \/ c.v = "failed"]
              \/ c.stop # None /\ Stopped(stack, c.stop)
        /\ UNCHANGED <<visited, entered, files, done>>

\* A batch that reached its size is flushed before the walk goes on.
FlushFull ==
    /\ run.pc = "full"
    /\ FlushFrame(Len(stack), IF KindOf[Root] = "file" THEN "drain" ELSE "walk")

-----------------------------------------------------------------------------
\* walk_into: one event of the walk, and its handler.

Children(n) == {m \in Node : ParentOf[m] = n}
Unvisited == Children(Top.node) \ visited
Walking == run.pc = "walk"
Yields(n) == visited' = visited \cup {n}

\* A file, link or other non-directory entry: note_discovered, then the cap, the copy and the batch.
WalkFile(n) ==
    /\ Walking /\ n \in Unvisited /\ KindOf[n] = "file"
    /\ Yields(n)
    /\ run' = [run EXCEPT !.pc = "file", !.file = n]
    /\ UNCHANGED <<dest, stack, said, entered, unsynced, files, done, env>>

\* pending_total: the writers held open across every frame of the stack.
AtCap == Waiting(stack) >= OpenWriters

\* At the cap the shallowest frame with a staged file is flushed first.
CapFlush ==
    /\ run.pc = "file" /\ AtCap
    /\ LET i == Min({j \in DOMAIN stack : stack[j].pending # <<>>}) IN FlushFrame(i, "file")

\* A staged sibling whose name folds onto this one is published first.
Crowded(n) == \E m \in ToSet(Top.pending) : At[m] = At[n]
CrowdFlush ==
    /\ run.pc = "file" /\ ~AtCap /\ Top.live /\ run.file \notin Reserved /\ Crowded(run.file)
    /\ FlushFrame(Len(stack), "file")

CopyFile ==
    /\ run.pc = "file" /\ ~AtCap
    /\ \/ Top.live /\ (run.file \in Reserved \/ ~Crowded(run.file)) /\ CopyOne(run.file, "walk")
       \/ ~Top.live /\ run' = [run EXCEPT !.pc = "walk"]
          /\ UNCHANGED <<dest, visited, stack, said, entered, unsynced, files, done, env>>

\* A device, socket or FIFO, or a source mount left out: reported, not a failure.
WalkOther(n) ==
    /\ Walking /\ n \in Unvisited /\ KindOf[n] \in {"other", "mount"}
    /\ Yields(n)
    /\ UNCHANGED <<dest, stack, said, entered, unsynced, files, done, run, env>>

\* The walk cannot read an entry: reported, unless it lies under a directory already reported.
WalkError(n) ==
    /\ Walking /\ n \in Unvisited /\ Fault
    /\ Yields(n)
    /\ run' = [run EXCEPT !.bad = @ \/ Top.live]
    /\ said' = IF Top.live THEN [said EXCEPT ![n] = "failed"] ELSE said
    /\ UNCHANGED <<dest, stack, entered, unsynced, files, done>>

\* A tick of the walk fails, or its scratch space does.
WalkFatal(cause) ==
    /\ Walking
    /\ \/ cause = "scratch" /\ Fault
       \/ Fails(cause)
    /\ Stopped(stack, cause)
    /\ UNCHANGED <<dest, visited, said, entered, unsynced, files, done>>

\* Whether a source directory is a mount root cannot be told: noted, or refused under --safety strict.
WalkUnknown ==
    /\ Walking /\ Strict /\ Top.live /\ Unvisited # {} /\ Fault
    /\ Stopped(stack, "refused")
    /\ UNCHANGED <<dest, visited, said, entered, unsynced, files, done>>

Folds(n) == Top.live /\ n \notin Reserved /\ Crowded(n)

\* A directory whose name a staged file folds onto: that batch is published first.
WalkDirFlush(n) ==
    /\ Walking /\ n \in Unvisited /\ KindOf[n] = "dir" /\ Folds(n)
    /\ Yields(n)
    /\ \E o \in Flushes(Top) :
        LET s == Emptied(stack, Len(stack)) IN
        /\ Settle(o)
        /\ stack' = s
        /\ run' = IF o.stop = None
                  THEN [run EXCEPT !.pc = "dir", !.file = n, !.bad = @ \/ Counted(o)]
                  ELSE [run EXCEPT !.pc = "drain", !.at = Len(s), !.stop = o.stop,
                                   !.mode = DrainMode(o.stop), !.bad = @ \/ Counted(o)]
    /\ UNCHANGED <<entered, unsynced, files, done>>

WalkDir(n) ==
    /\ Walking /\ n \in Unvisited /\ KindOf[n] = "dir" /\ ~Folds(n)
    /\ Yields(n)
    /\ run' = [run EXCEPT !.pc = "dir", !.file = n]
    /\ UNCHANGED <<dest, stack, said, entered, unsynced, files, done, env>>

\* The directory is not entered: its subtree is skipped, and reported once unless it already was.
Skip(n) ==
    /\ stack' = Append(stack, Skipped(n, At[n]))
    /\ run' = [run EXCEPT !.pc = "walk", !.bad = @ \/ Top.live]
    /\ UNCHANGED <<dest, visited, said, entered, unsynced, files, done>>

\* A directory under a skipped one, or at a reserved path.
SkipDir ==
    /\ run.pc = "dir" /\ (~Top.live \/ run.file \in Reserved)
    /\ Skip(run.file) /\ Calm

\* The heartbeat or the guard fails before the directory is made.
DirStops(cause) ==
    /\ run.pc = "dir" /\ Top.live /\ run.file \notin Reserved
    /\ Fails(cause)
    /\ Stopped(stack, cause)
    /\ UNCHANGED <<dest, visited, said, entered, unsynced, files, done>>

-----------------------------------------------------------------------------
\* enter_dir: the directory is refused, skipped, or made or merged into.

Entering == run.pc = "dir" /\ Top.live /\ run.file \notin Reserved /\ env.lock

\* The directory is the destination by identity, or Strict cannot tell.
Refused(n) == IF stack[1].place \in Weak THEN Strict ELSE n \in Alias

\* The operation created the entry, under another source name of the same directory.
Collides(p) == p \in Top.created

\* Part M: a pre-existing mount root is not merged into; Strict also needs to know that it is none.
Merges(p) == dest[p].kind = "dir" \/ (dest[p].kind = "unsure" /\ ~Strict)

\* A directory whose identity cannot key claims gets none; Strict skips it.
Keys(p) == p \notin Weak

RefuseDir ==
    /\ Entering /\ Calm
    /\ \/ Refused(run.file)
       \/ dest[At[run.file]].kind = "source" /\ Keys(At[run.file])
    /\ Stopped(stack, "refused")
    /\ UNCHANGED <<dest, visited, said, entered, unsynced, files, done>>

\* The frame of a directory that was made (fresh) or merged into.
Enter(n, fresh) ==
    /\ entered' = entered \cup {n}
    /\ stack' = Append(SetTop([Top EXCEPT !.created = IF fresh /\ Keys(At[n]) THEN @ \cup {At[n]} ELSE @]),
                       Live(n, At[n], Keys(At[n]), fresh))
    /\ run' = [run EXCEPT !.pc = "walk"]
    /\ UNCHANGED <<visited, said, unsynced, files, done>>

\* create_dir makes it. Under Strict a directory that cannot key claims is skipped, though it was made.
MakeDir ==
    /\ Entering /\ ~Refused(run.file)
    /\ LET n == run.file IN LET p == At[n] IN
       /\ dest[p].kind = "none"
       /\ \/ Calm /\ dest' = [dest EXCEPT ![p] = [kind |-> "dir", mine |-> TRUE]]
             /\ \/ ~(Strict /\ ~Keys(p)) /\ Enter(n, TRUE)
                \/ Strict /\ ~Keys(p)
                   /\ stack' = Append(stack, Skipped(n, p))
                   /\ run' = [run EXCEPT !.pc = "walk", !.bad = TRUE]
                   /\ UNCHANGED <<visited, said, entered, unsynced, files, done>>
          \/ Fault /\ Skip(n)

\* It exists: open_dir, the collision, the mount query, the claim key and the listing, in turn.
MergeDir ==
    /\ Entering /\ ~Refused(run.file)
    /\ LET n == run.file IN LET p == At[n] IN
       /\ dest[p].kind # "none" /\ ~(dest[p].kind = "source" /\ Keys(p))
       /\ \/ /\ dest[p].kind \notin Directories \/ Collides(p) \/ ~Merges(p) \/ (Strict /\ ~Keys(p))
             /\ Calm /\ Skip(n)
          \/ /\ ~Collides(p) /\ Merges(p) /\ (Keys(p) \/ ~Strict)
             /\ \/ Calm /\ UNCHANGED dest /\ Enter(n, FALSE)
                \/ Fault /\ Skip(n)
                \/ Fault /\ Stopped(stack, "scratch")
                   /\ UNCHANGED <<dest, visited, said, entered, unsynced, files, done>>

-----------------------------------------------------------------------------
\* DirEnd: the frame is popped, its batch published, its index retired and its claims flushed.

\* mutant: a frame that ends drops its batch
EndFlushes_none(f) == {Quiet}

EndFlushes(f) == Flushes(f)

Poisoned(e) == e.poison

\* claims.flush, after the heartbeat and the guard; its failure is reported.
ClaimsFlushed(claim) == claim

DirEnd ==
    /\ Walking /\ Len(stack) > 1 /\ Unvisited = {}
    /\ LET f == Top  s == Front(stack) IN
       \/ ~f.live /\ stack' = s /\ UNCHANGED <<dest, said, unsynced, run, env>>
       \/ /\ f.live
          /\ \E o \in EndFlushes(f) :
                /\ Settle(o)
                /\ stack' = s
                /\ LET bad == run.bad \/ Counted(o)
                       stopped(c) == [run EXCEPT !.pc = "drain", !.at = Len(s), !.stop = c,
                                                 !.mode = DrainMode(c), !.bad = bad]
                   IN IF o.stop # None THEN run' = stopped(o.stop) /\ UNCHANGED unsynced
                      ELSE IF Poisoned(env') THEN run' = stopped("scratch") /\ UNCHANGED unsynced
                      ELSE IF ClaimsFlushed(f.claim) THEN run' = [run EXCEPT !.pc = "claims", !.bad = bad]
                                                          /\ UNCHANGED unsynced
                      ELSE run' = [run EXCEPT !.bad = bad] /\ UNCHANGED unsynced
    /\ UNCHANGED <<visited, entered, files, done>>

FlushClaims ==
    /\ run.pc = "claims"
    /\ LET after == IF KindOf[Root] = "file" THEN "rootEnd" ELSE "walk" IN
       \/ Passes /\ unsynced' = {} /\ run' = [run EXCEPT !.pc = after] /\ UNCHANGED stack
       \/ env.lock /\ Fault /\ UNCHANGED unsynced /\ run' = [run EXCEPT !.pc = after, !.bad = TRUE]
          /\ UNCHANGED stack
       \/ \E c \in {"beat", "lost"} :
             /\ Fails(c) /\ UNCHANGED unsynced
             /\ IF KindOf[Root] = "file"
                THEN run' = [run EXCEPT !.pc = "rootEnd", !.first = c] /\ UNCHANGED stack
                ELSE Stopped(stack, c)
    /\ UNCHANGED <<dest, visited, said, entered, files, done>>

\* The walk's last event: the drain flushes what the root frame still holds.
WalkEnds ==
    /\ Walking /\ Len(stack) = 1 /\ Unvisited = {}
    /\ run' = [run EXCEPT !.pc = "drain", !.at = Len(stack), !.mode = "publish"]
    /\ UNCHANGED <<dest, visited, stack, said, entered, unsynced, files, done, env>>

-----------------------------------------------------------------------------
\* drain_batches and drain_one: every live frame's batch, from the top down; a stop switches the mode for the rest.

DrainSwitch(mode, cause) == IF cause = None THEN mode ELSE DrainMode(cause)

Below(i) == i - 1

DrainOne ==
    /\ run.pc = "drain" /\ run.at > 0
    /\ LET f == stack[run.at]  ps == ToSet(f.pending)
           outcomes == CASE run.mode = "publish" -> Flushes(f)
                         [] run.mode = "keep" -> {[Quiet EXCEPT !.kept = ps]}
                         [] OTHER -> IF env.lock THEN {[Quiet EXCEPT !.removed = ps], [Quiet EXCEPT !.kept = ps, !.cost = 1]}
                                     ELSE {[Quiet EXCEPT !.kept = ps]}
       IN \E o \in outcomes :
            /\ Settle(o)
            /\ stack' = Emptied(stack, run.at)
            /\ run' = [run EXCEPT !.at = Below(@), !.mode = DrainSwitch(@, o.stop), !.bad = @ \/ Counted(o),
                                  !.first = IF run.stop = None /\ @ = None THEN o.stop ELSE @]
    /\ UNCHANGED <<visited, entered, unsynced, files, done>>

\* After the drain: a folder root's index is retired, a file root's claims are flushed, unless there is an error.
AfterDrain ==
    /\ run.pc = "drain" /\ run.at = 0
    /\ LET ended == run.stop = None /\ run.first = None IN
       \/ ~ended /\ Calm /\ run' = [run EXCEPT !.pc = "rootEnd"]
       \/ ended /\ KindOf[Root] = "file" /\ Calm
          /\ run' = [run EXCEPT !.pc = IF files.claim THEN "claims" ELSE "rootEnd"]
       \/ /\ ended /\ KindOf[Root] = "dir"
          /\ \/ Calm /\ run' = [run EXCEPT !.pc = "rootEnd", !.first = IF Poisoned(env) THEN "scratch" ELSE None]
             \/ \E c \in {"beat", "lost"} : Fails(c) /\ run' = [run EXCEPT !.pc = "rootEnd", !.first = c]
    /\ UNCHANGED <<dest, visited, stack, said, entered, unsynced, files, done>>

-----------------------------------------------------------------------------
\* The roots: copy_roots_at, folder_root and file_root; one root alone goes through copy_tree_at.

\* root_state and the walk's start fail: the root ends before it has a frame.
Unopened(p, fresh, cause) ==
    /\ \/ cause = "refused" /\ Strict /\ ~Keys(p) /\ Calm
       \/ cause = "scratch" /\ ~fresh /\ Fault
    /\ run' = [run EXCEPT !.pc = "rootEnd", !.first = cause]

RootPending == run.pc = "root" /\ Len(done) < Len(Roots)

\* A root after an abort is not begun.
NotBegun == run.abort # None

NotStarted ==
    /\ RootPending /\ Several
    /\ \/ NotBegun /\ Calm /\ UNCHANGED run
       \/ ~NotBegun /\ \E c \in {"beat", "lost"} : Fails(c) /\ run' = [run EXCEPT !.abort = c]
    /\ done' = Append(done, "notStarted")
    /\ UNCHANGED <<dest, visited, stack, said, entered, unsynced, files>>

\* The root's directory: the run made DEST for a single root; several roots make or merge DEST/<name>.
FolderRoot ==
    /\ RootPending /\ ~NotBegun /\ KindOf[Root] = "dir"
    /\ Several => env.lock
    /\ LET n == Root  p == At[Root]  fresh == dest[At[Root]].kind = "none" IN
       \/ /\ fresh \/ dest[p].kind \in Directories
          /\ dest' = IF fresh THEN [dest EXCEPT ![p] = [kind |-> "dir", mine |-> TRUE]] ELSE dest
          /\ \/ /\ Keys(p) \/ ~Strict
                /\ Calm
                /\ stack' = <<Live(n, p, Keys(p), fresh)>>
                /\ entered' = entered \cup {n}
                /\ run' = [run EXCEPT !.pc = "walk"]
             \/ /\ \/ \E c \in {"refused", "scratch"} : Unopened(p, fresh, c)
                   \/ Fault /\ run' = [run EXCEPT !.pc = "rootEnd", !.first = "source"]
                /\ UNCHANGED <<stack, entered>>
       \/ /\ Several /\ (~fresh => dest[p].kind \notin Directories)
          /\ IF fresh THEN Fault ELSE Calm
          /\ run' = [run EXCEPT !.pc = "rootEnd", !.first = "create"]
          /\ UNCHANGED <<dest, stack, entered>>
    /\ UNCHANGED <<visited, said, unsynced, files, done>>

\* A file root is copied into DEST with DEST-level state that the file roots share.
FileRoot ==
    /\ RootPending /\ ~NotBegun /\ KindOf[Root] = "file" /\ env.lock
    /\ LET st == [claim |-> Keys(Dest), fresh |-> dest[Dest].mine]
           use == IF files = None THEN st ELSE files
       IN \/ /\ files # None \/ ~(Strict /\ ~Keys(Dest))
             /\ Calm
             /\ files' = use
             /\ stack' = <<Live(Root, Dest, use.claim, use.fresh)>>
             /\ run' = [run EXCEPT !.pc = "fileRoot", !.at = 1, !.mode = "publish"]
          \/ /\ files = None
             /\ \E c \in {"refused", "scratch"} : Unopened(Dest, st.fresh, c)
             /\ UNCHANGED <<files, stack>>
    /\ visited' = visited \cup {Root}
    /\ UNCHANGED <<dest, said, entered, unsynced, done>>

CopyRoot == run.pc = "fileRoot" /\ CopyOne(Root, "drain")

Result == IF run.stop # None THEN run.stop ELSE run.first

\* RootStatus: Failed when anything was counted over the root, or it ended in an error.
Status == IF Result # None \/ run.bad THEN "failed" ELSE "completed"

RootEnd ==
    /\ run.pc = "rootEnd"
    /\ done' = Append(done, Status)
    /\ run' = [run EXCEPT !.pc = "root", !.abort = Result, !.stop = None, !.first = None,
                          !.bad = FALSE, !.mode = "publish", !.file = None]
    /\ stack' = <<>>
    /\ UNCHANGED <<dest, visited, said, entered, unsynced, files, env>>

\* copy_roots_at ends: the file roots' index is retired unless a root aborted, and the scratch space is asked.
Finish ==
    /\ run.pc = "root" /\ Len(done) = Len(Roots)
    /\ \/ /\ Calm
          /\ run' = [run EXCEPT !.pc = "done",
                                !.abort = IF @ = None /\ Several /\ Poisoned(env) THEN "scratch" ELSE @]
       \/ \E c \in {"beat", "lost"} :
             /\ run.abort = None /\ Several /\ files # None
             /\ Fails(c) /\ run' = [run EXCEPT !.pc = "done", !.abort = c]
    /\ UNCHANGED <<dest, visited, stack, said, entered, unsynced, files, done>>

-----------------------------------------------------------------------------

WalkStep ==
    \/ \E n \in Node : WalkFile(n) \/ WalkOther(n) \/ WalkError(n) \/ WalkDirFlush(n) \/ WalkDir(n)
    \/ \E c \in {"scratch", "beat", "lost"} : WalkFatal(c)
    \/ WalkUnknown \/ DirEnd \/ WalkEnds

HandlerStep ==
    \/ CapFlush \/ CrowdFlush \/ CopyFile \/ FlushFull
    \/ SkipDir \/ (\E c \in {"beat", "lost"} : DirStops(c)) \/ RefuseDir \/ MakeDir \/ MergeDir
    \/ FlushClaims \/ DrainOne \/ AfterDrain

RootStep == NotStarted \/ FolderRoot \/ FileRoot \/ CopyRoot \/ RootEnd \/ Finish

Run == WalkStep \/ HandlerStep \/ RootStep
Next == Run \/ LoseLock

Spec == Init /\ [][Next]_vars

-----------------------------------------------------------------------------
\* The types of the variables, and one frame per open directory.
TypeOK ==
    /\ \A p \in Place : dest[p].kind \in Kinds /\ dest[p].mine \in BOOLEAN
    /\ visited \subseteq Node /\ entered \subseteq Node /\ unsynced \subseteq Node
    /\ \A i \in DOMAIN stack : stack[i].node \in Node /\ stack[i].place \in Place
    /\ \A n \in Node : said[n] \in Verdicts
    /\ \A i \in DOMAIN stack : \A n \in ToSet(stack[i].pending) : said[n] = "none"
    /\ run.stop \in Causes \cup {None} /\ run.first \in Causes \cup {None} /\ run.abort \in Causes \cup {None}
    /\ Len(done) <= Len(Roots)

\* The source directories above an entry, up to its root.
Ancestors(n) ==
    LET up[m \in Node] == IF ParentOf[m] = None THEN {} ELSE {ParentOf[m]} \cup up[ParentOf[m]]
    IN up[n]
Visible(n) == Ancestors(n) \subseteq entered

\* Nothing below a directory that was not entered is written: no file of it is published, staged or failed, no
\* directory of it entered (Frame::Skipped: "everything below it is skipped, and was reported once").
NothingUnderSkipped ==
    \A n \in Node : ParentOf[n] # None /\ ~Visible(n) =>
        said[n] = "none" /\ n \notin entered /\ \A i \in DOMAIN stack : n \notin ToSet(stack[i].pending)

\* Cut 9e, decision 7: the writers held open across the stack never exceed the cap.
CapHolds == Waiting(stack) <= OpenWriters

\* Cut 9d, decision 6: no directory of this run takes the name a staged file waits for.
StagedNamesKept ==
    \A i \in DOMAIN stack : \A n \in ToSet(stack[i].pending) :
        ~(dest[At[n]].mine /\ dest[At[n]].kind = "dir")

\* The files of a finished root are accounted for; where the operation stopped, the one file that stopped it may
\* have the returned error for its answer.
Answered(i) ==
    LET mine == {n \in visited : KindOf[n] = "file" /\ Visible(n) /\ (n = Roots[i] \/ Roots[i] \in Ancestors(n))}
        stopped == run.abort # None /\ (i = Len(done) \/ done[i + 1] = "notStarted")
    IN  IF stopped THEN Cardinality({n \in mine : said[n] = "none"}) <= 1
        ELSE \A n \in mine : said[n] \in {"published", "failed"}

\* Decision 5(e): when a root is done nothing of it is left staged: every file the walk yielded in an entered directory
\* was published or reported, and in the root that a stop ended every file but one was published, reported, kept with
\* a report or removed.
EveryFileAnswered ==
    \A i \in DOMAIN done : done[i] # "notStarted" => Answered(i)

Under(i) == {n \in Node : n = Roots[i] \/ Roots[i] \in Ancestors(n)}
\* RootStatus: a Completed root has every file published that it holds and every directory entered; a NotStarted
\* root has none begun.
StatusIsRight ==
    \A i \in DOMAIN done :
        /\ done[i] = "completed" =>
              \A n \in Under(i) : /\ KindOf[n] = "file" => said[n] = "published"
                                  /\ KindOf[n] = "dir" => n \in entered
        /\ done[i] = "notStarted" => Under(i) \cap (visited \cup entered) = {}

\* DESTINATION_NAMESPACE_COLLISION between directories: a directory this operation created, with a strong
\* identity, is entered for one source directory only.
CreatedForOne ==
    \A m, n \in entered : m # n /\ At[m] = At[n] => ~dest[At[n]].mine \/ At[n] \in Weak

\* Sections 129 and 42: a live frame below a root is no mount root, not the source, and is not entered from a source
\* directory that is the destination.
NeverIntoForbidden ==
    \A i \in 2..Len(stack) : stack[i].live =>
        /\ dest[stack[i].place].kind # "mount"
        /\ dest[stack[i].place].kind = "source" => stack[i].place \in Weak
        /\ stack[i].node \in Alias => stack[1].place \in Weak

\* A scratch space that was poisoned does not end in a run that reports no error.
PoisonIsReported == run.pc = "done" /\ env.poison => run.abort # None

\* Cut 8b, claim syncing: when a root is Completed the claims of its files are flushed, but for those directly in a
\* folder root, which the run's finish flushes.
ClaimsSynced ==
    \A i \in DOMAIN done : done[i] = "completed" =>
        \A n \in unsynced \cap Under(i) : ParentOf[n] = Roots[i]

\* Section 99: nothing is created, published or removed at the destination by a step that does not hold the lock.
WritesHoldTheLock ==
    dest' # dest \/ (\E n \in Node : said'[n] = "removed" /\ said[n] # "removed") => env.lock

\* Cut 9e, ruling B2': once a stop removed what was staged, nothing more is published.
StopIsFinal ==
    \A n \in Node : said[n] = "removed" =>
       \A m \in Node : said'[m] = "published" => said[m] = "published"

=============================================================================
