------------------------------ MODULE MCTree ------------------------------
\* Trees, for TLC. The source walk: a tree that is edited under it, one whose calls fail, one with mount points. The
\* patterns that select from it: every short pattern against paths and against long names. A tree's frames: one root
\* whose names fold together, the same under Safety::Strict, several roots. One group of hard links: under every
\* policy, under crashes, and of sources that never link. And the verification that merges two walks: of two trees, of
\* control names, of trees others edit, and of several roots.
EXTENDS Naturals, TLC

CONSTANTS None, root, upper, lower, leaf, link, n1, n2, n3

\* The scenario is chosen once; the variables of the components it does not use keep one value.
VARIABLES scenario, frameDest, visited, stack, said, entered, unsynced, files, done, frameRun, env, opt,
          linkDest, temp, body, claims, notes, slot, index, linkRun, out, touched, ignored, left, kids, mounts, walkOpt,
          pc, walkStack, ancestors, excluded, laneEnd, walkDone, walkOut, listed, walkLeft, typed, rel, ft,
          recursive, pat, selAt, segs, glob, steps, verdict, verifyOpt, roots, tree, verifyAt, verdicts, side, cmp,
          verifyOut, sum, total, result, edited, verifyLeft

frameVars == <<frameDest, visited, stack, said, entered, unsynced, files, done, frameRun, env>>
linkVars == <<opt, linkDest, temp, body, claims, notes, slot, index, linkRun, out, touched, ignored, left>>
walkVars == <<kids, mounts, walkOpt, pc, walkStack, ancestors, excluded, laneEnd, walkDone, walkOut, listed, walkLeft>>
selVars == <<typed, rel, ft, recursive, pat, selAt, segs, glob, steps, verdict>>
verifyVars == <<verifyOpt, roots, tree, verifyAt, verdicts, side, cmp, verifyOut, sum, total, result, edited,
    verifyLeft>>

\* TreeFrames. One root r: directories a and A and a file g, one destination name; a file h; and in a two files of one
\* name and a directory.
OneNode == {"r", "a", "A", "g", "h", "fa", "fA", "x", "fx"}
OneKind == [n \in OneNode |-> IF n \in {"r", "a", "A", "x"} THEN "dir" ELSE "file"]
OneParent == [n \in OneNode |-> CASE n = "r" -> None [] n \in {"a", "A", "g", "h"} -> "r"
                                  [] n = "fx" -> "x" [] OTHER -> "a"]
OnePlace == {"top", "p", "ph", "pf", "px", "pxf"}
OneAt == [n \in OneNode |-> CASE n = "r" -> "top" [] n \in {"a", "A", "g"} -> "p" [] n = "h" -> "ph"
                              [] n \in {"fa", "fA"} -> "pf" [] n = "x" -> "px" [] OTHER -> "pxf"]
OneBefore(k) == [p \in OnePlace |-> IF p = "top" THEN "dir" ELSE IF p = "p" THEN k ELSE "none"]
OneBefores == {OneBefore(k) : k \in {"none", "dir", "mount"}}
StrictBefores == {OneBefore(k) : k \in {"none", "dir", "unsure", "source", "file"}}

\* Several roots: two folders and a file between them. o is a device, z has a reserved name, e is another directory.
ManyNode == {"R", "f", "d", "fd", "q", "S", "o", "z", "e", "fe"}
ManyKind == [n \in ManyNode |-> CASE n \in {"R", "d", "S", "e"} -> "dir" [] n = "o" -> "other" [] OTHER -> "file"]
ManyParent == [n \in ManyNode |-> CASE n \in {"R", "q", "S"} -> None [] n \in {"f", "d"} -> "R" [] n = "fd" -> "d"
                                    [] n = "fe" -> "e" [] OTHER -> "S"]
ManyPlace == ManyNode \cup {"top"}
ManyAt == [n \in ManyNode |-> n]
ManyBefores == {[p \in ManyPlace |-> CASE p = "top" -> "dir" [] p = "R" -> k [] p = "q" -> l [] OTHER -> "none"]
                   : k \in {"none", "dir", "file"}, l \in {"none", "file", "dir"}}

\* HardLinks. Three names of one object, over an empty destination, one with a stale file, one with two names of one
\* stale object, one already copied as two objects.
Trio == {n1, n2, n3}
TrioKind == [n \in Trio |-> "linked"]
TrioSource == [n \in Trio |-> "g"]
Found(x, y, z, objects) == [dest |-> n1 :> x @@ n2 :> y @@ n3 :> z, body |-> objects]
Untouched == Found(0, 0, 0, << >>)
HalfCopied == Found(1, 1, 2, <<"g", "old">>)
AnyBefore == {Untouched, HalfCopied, Found(1, 0, 0, <<"old">>), Found(1, 1, 0, <<"old">>),
              Found(1, 2, 0, <<"g", "g">>), Found(1, 1, 0, <<"g">>)}

\* The kinds that never link: a multiply-linked file without a strong identity, one whose link count is unknown, and a
\* symbolic link.
OddKind == n1 :> "weak" @@ n2 :> "unchecked" @@ n3 :> "symlink"
OddSource == n1 :> "w" @@ n2 :> "u" @@ n3 :> "s"
OddBefore == {Found(0, 1, 2, <<"old", "s">>), Found(1, 0, 2, <<"w", "old">>)}

Trees ==
    LET Usual == [Node |-> OneNode, Roots |-> <<"r">>, KindOf |-> OneKind, ParentOf |-> OneParent,
                  Place |-> OnePlace, At |-> OneAt, Befores |-> None, Weak |-> None, Alias |-> None,
                  Reserved |-> {}, Several |-> FALSE, Strict |-> None, BatchFiles |-> 2, MaxFaults |-> 1]
    IN  [one |-> [Usual EXCEPT !.Befores = OneBefores, !.Weak = {}, !.Alias = {}, !.Strict = FALSE, !.MaxFaults = 2],
         strict |-> [Usual EXCEPT !.Befores = StrictBefores, !.Weak = {"px"}, !.Alias = {"A"}, !.Strict = TRUE],
         roots |-> [Usual EXCEPT !.Node = ManyNode, !.Roots = <<"R", "q", "S">>, !.KindOf = ManyKind,
                    !.ParentOf = ManyParent, !.Place = ManyPlace, !.At = ManyAt, !.Befores = ManyBefores,
                    !.Weak = {}, !.Alias = {}, !.Reserved = {"z"}, !.Several = TRUE, !.Strict = FALSE,
                    !.BatchFiles = 0]]
Frames(s) == INSTANCE TreeFrames WITH Node <- Trees[s].Node, Roots <- Trees[s].Roots, KindOf <- Trees[s].KindOf,
    ParentOf <- Trees[s].ParentOf, Place <- Trees[s].Place, Dest <- "top", At <- Trees[s].At,
    Befores <- Trees[s].Befores, Weak <- Trees[s].Weak, Alias <- Trees[s].Alias, Reserved <- Trees[s].Reserved,
    Several <- Trees[s].Several, Strict <- Trees[s].Strict, BatchFiles <- Trees[s].BatchFiles, OpenWriters <- 2,
    MaxFaults <- Trees[s].MaxFaults, MaxLosses <- 1, dest <- frameDest, run <- frameRun
Groups ==
    [index |-> [Kind |-> TrioKind, Source |-> TrioSource, Before |-> AnyBefore,
                Modes |-> {"auto", "preserve", "copy"}, Policies |-> {"overwrite", "skip", "update"},
                Durable |-> {TRUE}, Strongs |-> {TRUE, FALSE}, MaxRuns |-> 1, MaxFaults |-> 2, MaxSwaps |-> 0],
     crash |-> [Kind |-> TrioKind, Source |-> TrioSource, Before |-> {Untouched, HalfCopied},
                Modes |-> {"preserve"}, Policies |-> {"overwrite"}, Durable |-> {TRUE, FALSE},
                Strongs |-> {TRUE}, MaxRuns |-> 2, MaxFaults |-> 1, MaxSwaps |-> 1],
     odd |-> [Kind |-> OddKind, Source |-> OddSource, Before |-> OddBefore, Modes |-> {"auto", "preserve"},
              Policies |-> {"overwrite", "update"}, Durable |-> {TRUE}, Strongs |-> {FALSE}, MaxRuns |-> 1,
              MaxFaults |-> 1, MaxSwaps |-> 1]]
Linking(s) == INSTANCE HardLinks WITH Name <- Trio, Kind <- Groups[s].Kind, Source <- Groups[s].Source,
    Before <- Groups[s].Before, Modes <- Groups[s].Modes, Policies <- Groups[s].Policies,
    Durable <- Groups[s].Durable, Strongs <- Groups[s].Strongs, MaxRuns <- Groups[s].MaxRuns,
    MaxFaults <- Groups[s].MaxFaults, MaxSwaps <- Groups[s].MaxSwaps, dest <- linkDest, run <- linkRun

\* Walk: a root, two directories that may contain one another or the root, a file and a symbolic link. First `upper'
\* below the root and anything below it, the root included; then two entries per directory and a third level.
Dirs == {root, upper, lower}
Leaf == [n \in {1, 2} |-> None]
Kids(D) == [{1, 2} -> D \cup {None}]
WithUpper(D) == {k \in Kids(D) : upper \in {k[1], k[2]}}
Shallow ==
    {[x \in Dirs |-> CASE x = root -> k [] x = upper -> m [] OTHER -> Leaf] :
        k \in WithUpper({upper, leaf, link}), m \in Kids({root, upper, lower, leaf})}
Deep ==
    {[x \in Dirs |-> CASE x = root -> k [] x = upper -> m [] OTHER -> q] :
        k \in WithUpper({upper, leaf}), m \in Kids({root, lower, leaf}), q \in Kids({upper, lower, leaf})}
Mounts == {{}} \cup {{<<x, n>>} : x \in {root, upper}, n \in {1, 2}}
Opt(c, s, pats, nr) == [cross |-> c, scratch |-> s, patterns |-> pats, norecurse |-> nr]
Selected == {Opt(TRUE, s, pats, nr) : s \in BOOLEAN, pats \in {{}, {2}}, nr \in BOOLEAN}

\* Select: "b" takes two bytes, and one name holds a byte that is not text.
Stray == <<"a", "~">>
Short == {<<"a">>, <<"b">>, <<"b", "a">>, Stray}
SmallPaths == {<<x>> : x \in Short} \cup {<<x, y>> : x \in {<<"a">>, <<"b">>}, y \in {<<"b", "a">>, Stray}}
                 \cup {<<<<"a">>, <<"b">>, <<"a">>>>}
LongNames == {<<w>> : w \in {<<"a", "b", "a", "a">>, <<"b", "b", "a", "b">>, <<"a", "a", "b">>}}

\* Verify: names by their bytes, and what a path may be.
a == <<2>>
ab == <<2, 1>>
b == <<3>>
flux == <<1>>
lock == <<1, 1>>
part == <<4>>
E(k, content, bad, mount) == [kind |-> k, body |-> content, bad |-> bad, mount |-> mount]
F0 == E("file", 0, FALSE, FALSE)
F1 == E("file", 1, FALSE, FALSE)
FBad == E("file", 0, TRUE, FALSE)
D0 == E("dir", 0, FALSE, FALSE)
DBad == E("dir", 0, TRUE, FALSE)
DMount == E("dir", 0, FALSE, TRUE)
L0 == E("symlink", 0, FALSE, FALSE)
L1 == E("symlink", 1, FALSE, FALSE)
O0 == E("other", 0, FALSE, FALSE)
Present(c) == [p \in {q \in DOMAIN c : c[q] # None} |-> c[p]]

\* The trees with these choices at a, a/b and ab; None leaves a path out.
Shapes(tops, atA, atB, atAB) ==
    {Present((<< >> :> t) @@ (<<a>> :> x) @@ (<<a, b>> :> IF x # None /\ x.kind = "dir" THEN y ELSE None) @@ (<<ab>> :> z)) :
        t \in tops, x \in atA, y \in atB, z \in atAB}

World(rs, s, d) == [roots |-> rs, tree |-> [src |-> s, dst |-> d]]
OneRoot(s, d) == World(<<[kind |-> "folder", check |-> "distinct", id |-> 1]>>, <<s>>, <<d>>)

\* Every shape at a and below it, against every other.
Merged ==
    {OneRoot(s, d) : s \in Shapes({D0}, {None, F0, D0, DBad, DMount, L0, O0}, {None, F0, FBad}, {None, F0}),
                     d \in Shapes({D0}, {None, F0, F1, D0, DBad, DMount, L0, L1, O0}, {None, F0, F1, FBad}, {None, F0})}
    \cup {OneRoot(s, d) : s \in Shapes({D0, DBad}, {F0}, {None}, {None}) \cup {<< >>},
                          d \in Shapes({D0, DBad, F0}, {F0}, {None}, {None}) \cup {<< >>}}

\* Control names at the top and one level down.
ControlTree(x, y, z, w) ==
    Present((<< >> :> D0) @@ (<<flux>> :> x) @@ (<<flux, a>> :> IF x = D0 THEN F0 ELSE None) @@ (<<lock>> :> y)
              @@ (<<a>> :> D0) @@ (<<a, flux>> :> z) @@ (<<a, part>> :> w) @@ (<<part>> :> w))
Controlled ==
    {OneRoot(ControlTree(x, None, z, w), ControlTree(v, y, z, w)) :
        x \in {None, D0, F0}, v \in {None, D0, DBad, F0}, y \in {None, F0, D0}, z \in {None, F0}, w \in {None, F0, L0, D0}}

\* Two or three roots of one file each, or a file root.
Tiny(x) == << >> :> x
With(x) == (<< >> :> D0) @@ (<<a>> :> x)
Folder(checks) ==
    [root : [kind : {"folder"}, check : checks, id : {1, None}], src : {With(F0)},
     dst : {With(F0), With(F1), Tiny(F0), << >>}]
FileRoot ==
    [root : [kind : {"file"}, check : {"distinct"}, id : {None}], src : {Tiny(F0), Tiny(L0), Tiny(FBad), Tiny(O0), << >>},
     dst : {Tiny(F0), Tiny(F1), Tiny(L1), Tiny(O0), With(F0), << >>}]
Many(rs) == World([i \in DOMAIN rs |-> rs[i].root], [i \in DOMAIN rs |-> rs[i].src], [i \in DOMAIN rs |-> rs[i].dst])
Multi ==
    {Many(<<x, y>>) : x, y \in Folder({"distinct", "refused", "unreadable"}) \cup FileRoot}
    \cup {Many(<<x, y, z>>) : x, y, z \in {c \in Folder({"distinct"}) : c.dst # << >>}}

Ask(several, skip, stay, pats, nr) ==
    [several |-> several, skip |-> skip, stay |-> stay, patterns |-> pats, norecurse |-> nr]
MergeOptions == {Ask(FALSE, skip, stay, {}, FALSE) : skip, stay \in BOOLEAN}
ControlOptions == {Ask(FALSE, FALSE, TRUE, pats, nr) : pats \in {{}, {part}, {flux}}, nr \in BOOLEAN}
                  \cup {Ask(TRUE, FALSE, TRUE, {}, FALSE)}
EditedTrees == {OneRoot(s, d) : s \in Shapes({D0}, {None, F0, D0}, {None, F0}, {F0, D0}),
                                d \in Shapes({D0}, {F0, D0}, {None, F0}, {F0})}
SomeEdits == [path : {<<a>>, <<a, b>>, <<ab>>}, entry : {None, F0, D0}]

Walks ==
    [edited |-> [Strong |-> {root, upper}, Graphs |-> Shallow, MountSets |-> {{}}, Options |-> Selected,
                 MaxDepth |-> 2, Edits |-> 1, Faults |-> 0],
     faulty |-> [Strong |-> Dirs, Graphs |-> Deep, MountSets |-> {{}},
                 Options |-> {Opt(TRUE, TRUE, {}, FALSE)}, MaxDepth |-> 3, Edits |-> 0, Faults |-> 2],
     mounts |-> [Strong |-> Dirs, Graphs |-> Shallow, MountSets |-> Mounts,
                 Options |-> {Opt(FALSE, FALSE, {}, FALSE)}, MaxDepth |-> 2, Edits |-> 0, Faults |-> 1]]
Walk(s) == INSTANCE Walk WITH Files <- {leaf}, Links <- {link}, Others <- {}, Root <- root, Names <- {1, 2},
    Strong <- Walks[s].Strong, Graphs <- Walks[s].Graphs, MountSets <- Walks[s].MountSets,
    Options <- Walks[s].Options, MaxDepth <- Walks[s].MaxDepth, Inline <- 1, Edits <- Walks[s].Edits,
    Faults <- Walks[s].Faults, opt <- walkOpt, stack <- walkStack, done <- walkDone, out <- walkOut,
    left <- walkLeft
Patterns ==
    [paths |-> [MaxPattern |-> 4, Paths |-> SmallPaths],
     names |-> [MaxPattern |-> 4, Paths |-> LongNames]]
Select(s) == INSTANCE Select WITH Letters <- {"a", "b"}, Wide <- {"b"}, MaxPattern <- Patterns[s].MaxPattern,
    Paths <- Patterns[s].Paths, Broken <- {Stray}, at <- selAt
Verifies ==
    [merge |-> [Worlds |-> Merged, Options |-> MergeOptions, Edits |-> {}, MaxEdits |-> 0, Faults |-> 1],
     control |-> [Worlds |-> Controlled, Options |-> ControlOptions, Edits |-> {}, MaxEdits |-> 0, Faults |-> 0],
     several |-> [Worlds |-> Multi, Options |-> {Ask(several, FALSE, TRUE, {}, FALSE) : several \in BOOLEAN},
                  Edits |-> {}, MaxEdits |-> 0, Faults |-> 1],
     edits |-> [Worlds |-> EditedTrees, Options |-> {Ask(FALSE, FALSE, TRUE, {}, FALSE)}, Edits |-> SomeEdits,
                MaxEdits |-> 2, Faults |-> 0]]
Verify(s) == INSTANCE Verify WITH Names <- {a, ab, b, flux, lock, part}, FluxDir <- flux, RootLock <- lock,
    Partials <- {part}, Worlds <- Verifies[s].Worlds, Options <- Verifies[s].Options,
    Edits <- Verifies[s].Edits, MaxEdits <- Verifies[s].MaxEdits, Faults <- Verifies[s].Faults,
    opt <- verifyOpt, at <- verifyAt, out <- verifyOut, left <- verifyLeft

FrameIdle == frameDest = None /\ visited = None /\ stack = None /\ said = None /\ entered = None /\
    unsynced = None /\ files = None /\ done = None /\ frameRun = None /\ env = None
LinkIdle == opt = None /\ linkDest = None /\ temp = None /\ body = None /\ claims = None /\ notes = None /\
    slot = None /\ index = None /\ linkRun = None /\ out = None /\ touched = None /\ ignored = None /\ left = None
WalkIdle == kids = None /\ mounts = None /\ walkOpt = None /\ pc = None /\ walkStack = None /\ ancestors = None /\
    excluded = None /\ laneEnd = None /\ walkDone = None /\ walkOut = None /\ listed = None /\ walkLeft = None
SelIdle == typed = None /\ rel = None /\ ft = None /\ recursive = None /\ pat = None /\ selAt = None /\
    segs = None /\ glob = None /\ steps = None /\ verdict = None
VerifyIdle == verifyOpt = None /\ roots = None /\ tree = None /\ verifyAt = None /\ verdicts = None /\
    side = None /\ cmp = None /\ verifyOut = None /\ sum = None /\ total = None /\ result = None /\
    edited = None /\ verifyLeft = None
Now(table) == {scenario} \cap DOMAIN table

\* Components other than the active one are idle and stay so.
Components == {"frames", "links", "walk", "select", "verify"}
Idle(c) ==
    CASE c = "frames" -> FrameIdle
      [] c = "links"  -> LinkIdle
      [] c = "walk"   -> WalkIdle
      [] c = "select" -> SelIdle
      [] c = "verify" -> VerifyIdle
Still(c) ==
    CASE c = "frames" -> UNCHANGED frameVars
      [] c = "links"  -> UNCHANGED linkVars
      [] c = "walk"   -> UNCHANGED walkVars
      [] c = "select" -> UNCHANGED selVars
      [] c = "verify" -> UNCHANGED verifyVars
Rest(c) == \A d \in Components \ {c} : Idle(d)
Kept(c) == UNCHANGED scenario /\ \A d \in Components \ {c} : Still(d)

Init ==
    \/ \E s \in DOMAIN Trees : scenario = s /\ Frames(s)!Init /\ Rest("frames")
    \/ \E s \in DOMAIN Groups : scenario = s /\ Linking(s)!Init /\ Rest("links")
    \/ \E s \in DOMAIN Walks : scenario = s /\ Walk(s)!Init /\ Rest("walk")
    \/ \E s \in DOMAIN Patterns : scenario = s /\ Select(s)!Init /\ Rest("select")
    \/ \E s \in DOMAIN Verifies : scenario = s /\ Verify(s)!Init /\ Rest("verify")

Next ==
    \/ (\E s \in Now(Trees) : Frames(s)!Next) /\ Kept("frames")
    \/ (\E s \in Now(Groups) : Linking(s)!Next) /\ Kept("links")
    \/ (\E s \in Now(Walks) : Walk(s)!Next) /\ Kept("walk")
    \/ (\E s \in Now(Patterns) : Select(s)!Next) /\ Kept("select")
    \/ (\E s \in Now(Verifies) : Verify(s)!Next) /\ Kept("verify")

vars == <<scenario, frameVars, linkVars, walkVars, selVars, verifyVars>>
Spec == Init /\ [][Next]_vars

-----------------------------------------------------------------------------
\* Nothing is written under a directory that was skipped, nor into one that is reserved, another's or a mount;
\* open files stay under the cap; names staged in a batch stay theirs and a directory is created for one source;
\* every file is answered, with the right status; a poisoned frame is reported; and claims are synced before they
\* count.
FramesPromise ==
    \A s \in Now(Trees) :
        /\ Frames(s)!TypeOK /\ Frames(s)!NothingUnderSkipped /\ Frames(s)!CapHolds
        /\ Frames(s)!StagedNamesKept /\ Frames(s)!CreatedForOne /\ Frames(s)!NeverIntoForbidden
        /\ Frames(s)!EveryFileAnswered /\ Frames(s)!StatusIsRight /\ Frames(s)!PoisonIsReported
        /\ Frames(s)!ClaimsSynced

\* A link that was split is counted, and once; a name said to be created was; no temporary is left unreported;
\* and under preserve every name is linked to its group or reported.
LinksPromise ==
    \A s \in Now(Groups) :
        /\ Linking(s)!TypeOK /\ Linking(s)!SplitsCounted /\ Linking(s)!CountedOnce /\ Linking(s)!CreatedIsTrue
        /\ Linking(s)!NoTempBehind /\ Linking(s)!PreserveOrReported

\* Whatever is edited or fails under it, the walk yields its entries in component-wise order, each once; the open
\* directories of the stream are its frames, and its ancestors and scratch regions are theirs; no directory is
\* entered inside itself, below the cap or through a mount it was told to stay out of; a walk that ends has
\* answered for every entry its listings reported; and a fatal error is its last word.
WalkPromise ==
    \A s \in Now(Walks) :
        /\ Walk(s)!TypeOK /\ Walk(s)!ComponentOrder /\ Walk(s)!StackIsOpenPath /\ Walk(s)!AncestorsBalanced
        /\ Walk(s)!RegionsStacked /\ Walk(s)!NoCycle /\ Walk(s)!DepthCapped /\ Walk(s)!NothingForgotten
        /\ Walk(s)!MountsNotEntered /\ Walk(s)!FatalIsLast

\* The two-pointer loops decide exactly what a pattern means, by scalars and by bytes, within the advertised
\* number of turns, and a trailing `**` keeps the directory itself.
PatternsPromise ==
    \A s \in Now(Patterns) :
        /\ Select(s)!TypeOK /\ Select(s)!VerdictIsMeaning /\ Select(s)!CostBounded
        /\ Select(s)!TrailingKeepsTheDirectory /\ Select(s)!EncodingsAgree

\* While nobody changes the trees the records are those of the reference, all of them when the root was walked to
\* its end, and a pass means the source's files are there; a listing cut short gives no verdict. Whatever others
\* change, records come in path order and count, aliases and refusals are silent, and a file that lies equal in
\* both trees is not accused.
VerifyPromise ==
    /\ \A s \in Now(Verifies) :
          /\ Verify(s)!TypeOK /\ Verify(s)!FailureIsNoVerdict /\ Verify(s)!SilentRefusal
          /\ Verify(s)!NoAliasWalked /\ Verify(s)!CountsAreRecords /\ Verify(s)!PathOrder
    /\ \A s \in {scenario} \cap {"merge", "control", "several"} :
          /\ Verify(s)!RecordsTrue /\ Verify(s)!RecordsComplete /\ Verify(s)!PassMeansSame
    /\ \A s \in {scenario} \cap {"control"} : Verify(s)!ExcludedOfSource
    /\ \A s \in {scenario} \cap {"edits"} : Verify(s)!StableNotAccused

\* Frames and links write only while the lock is held, a run that stops stays stopped, and a link publishes the
\* object its source had.
TreeSteps ==
    [][/\ \A s \in Now(Trees) :
             /\ Frames(s)!WritesHoldTheLock /\ Frames(s)!StopIsFinal
       /\ \A s \in Now(Groups) :
             /\ Linking(s)!PublishesTheSource /\ Linking(s)!LostLockIsFinal]_vars
=============================================================================
