------------------------------- MODULE Verify -------------------------------
(***************************************************************************)
(* `flux verify` (verify.rs): the trees of one or several sources are      *)
(* compared with DEST, nothing is written.                                 *)
(*                                                                         *)
(* Every root is checked before any root is walked.  Then, root by root,   *)
(* two walks are merged in lockstep by FluxPathKey bytes and a record is   *)
(* emitted as soon as a path is decided.  A walk lists a directory when it *)
(* enters it, so others may change both trees between any two steps.       *)
(*                                                                         *)
(* A tree maps paths (sequences of names) to entries; the path << >> is    *)
(* the root.  A name is a sequence of bytes, none of them zero.            *)
(***************************************************************************)
EXTENDS Naturals, Sequences, FiniteSets, SequencesExt

CONSTANTS
    Names,      \* entry names: sequences of bytes
    FluxDir,    \* the name `.flux`
    RootLock,   \* the name `.flux-root.lock`
    Partials,   \* the names `<name>.flux-partial.<id>`
    Worlds,     \* the roots and trees a behaviour may start from
    Options,    \* how the run may be configured
    Edits,      \* what others may write at which path
    MaxEdits,   \* bound: changes made by others
    Faults,     \* bound: failures of a scratch file
    None

VARIABLES
    opt,        \* the run's configuration: several, skip, stay, patterns, norecurse
    roots,      \* the planned roots: folder or file, what the root check says, identity
    tree,       \* tree[side][root]: what is on disk
    at,         \* the phase and the root it is about
    verdicts,   \* what the root checks decided
    side,       \* the two walks and what the merge holds of them
    cmp,        \* the pair of files or links being read, or None
    out,        \* the records, in the order they were sent
    sum,        \* the counts of the root being walked
    total,      \* the counts of the finished roots
    result,     \* what the run returned
    edited,     \* history: the paths others wrote or removed, per side and root
    left        \* what is left of the bounds

vars == <<opt, roots, tree, at, verdicts, side, cmp, out, sum, total, result, edited, left>>
disk == <<opt, roots, tree, edited>>

Sides == {"src", "dst"}
Kinds == {"file", "dir", "symlink", "other"}
Outcomes == {"match", "missing", "mismatched", "extra", "unreadable"}
Counters == Outcomes \cup {"not_entered", "excluded", "bytes"}
Zero == [c \in Counters |-> 0]
R == at.root

----------------------------------------------------------------------------
\* Names, keys and the trees

\* Byte order of two names or two keys.
Less(s, t) == \/ IsStrictPrefix(s, t)
              \/ \E i \in 1 .. Len(s) : /\ i <= Len(t) /\ s[i] < t[i]
                                        /\ SubSeq(s, 1, i - 1) = SubSeq(t, 1, i - 1)

\* FluxPathKey: the components joined by 0x00, which no name holds.
Key(p) == FoldLeft(LAMBDA k, n : IF k = << >> THEN n ELSE k \o <<0>> \o n, << >>, p)

Within(p, d) == IsPrefix(d, p)
Exists(t, p) == p \in DOMAIN t
Is(t, p, k) == p \in DOMAIN t /\ t[p].kind = k

\* Selection: both walks leave out what a pattern or --no-recursive removes.
Selected(t, p) == /\ Last(p) \notin opt.patterns
                  /\ ~(opt.norecurse /\ t[p].kind = "dir")

Kids(t, p) == {q \in DOMAIN t : Len(q) = Len(p) + 1 /\ Front(q) = p}

\* A directory's listing in name order, as the walk keeps it.
Listing(t, p) ==
    LET in == {q \in Kids(t, p) : Selected(t, q)}
    IN  [i \in 1 .. Cardinality(in) |->
           LET q == CHOOSE x \in in : Cardinality({y \in in : Less(Last(y), Last(x))}) = i - 1
           IN  [ev |-> "entry", path |-> q, kind |-> t[q].kind]]

Excluded(t, p) == Cardinality({q \in Kids(t, p) : Last(q) \in opt.patterns})

----------------------------------------------------------------------------
\* The filters

IsPartialTemporary(i) == i.kind \in {"file", "symlink"} /\ Last(i.path) \in Partials

\* `.flux` with all it holds, the root lock, and a copy's temporaries.
IsRootControlState(i) ==
    \/ Head(i.path) = FluxDir /\ (Len(i.path) > 1 \/ i.kind = "dir")
    \/ i.path = <<RootLock>> /\ i.kind = "file"
    \/ IsPartialTemporary(i)

\* Only the destination is filtered; a root of several is nested in the
\* destination, and a `.flux` in it is the user's.
IsControlState(s, i) ==
    /\ s = "dst"
    /\ IF opt.several THEN IsPartialTemporary(i) ELSE IsRootControlState(i)

UnderPruned(s, p) == side[s].pruned # None /\ Within(p, side[s].pruned)

----------------------------------------------------------------------------
\* The root checks, one root after the other, before anything is listed

Unwalked == [todo |-> << >>, cur |-> None, peeked |-> None, held |-> None, done |-> TRUE,
             fatal |-> FALSE, pruned |-> None, excluded |-> 0]

Present(s, r) == Exists(tree[s][r], << >>)

\* check_pair: whether the roots lie inside one another is Containment's matter.
CheckPair(r) ==
    CASE roots[r].check = "refused" -> "refused"
      [] roots[r].check = "unreadable" -> "unreadable"
      [] roots[r].check = "distinct" ->
            IF ~Present("dst", r) THEN "absent"
            ELSE IF Is(tree["dst"][r], << >>, "dir") /\ Present("src", r)
                 THEN "checked" ELSE "unreadable"

\* With several roots the type at DEST/<name> is looked at first.
Verdict(r) ==
    IF roots[r].kind = "file" THEN "file"
    ELSE IF opt.several /\ Present("dst", r) /\ ~Is(tree["dst"][r], << >>, "dir")
         THEN "wrongtype" ELSE CheckPair(r)

\* A refusal ends the run before the next root is looked at.
Check ==
    /\ at.phase = "check"
    /\ verdicts' = Append(verdicts, Verdict(R))
    /\ IF Verdict(R) = "refused"
       THEN at' = [at EXCEPT !.phase = "ended"] /\ result' = "refused"
       ELSE /\ at' = IF R < Len(roots) THEN [at EXCEPT !.root = @ + 1]
                     ELSE [phase |-> "alias", root |-> 1]
            /\ UNCHANGED result
    /\ UNCHANGED <<disk, side, cmp, out, sum, total, left>>

\* Two folder roots with one strong identity at the destination.
Aliased == \E i, j \in DOMAIN roots :
    /\ i < j /\ verdicts[i] = "checked" /\ verdicts[j] = "checked"
    /\ roots[i].id = roots[j].id /\ roots[i].id # None

Alias ==
    /\ at.phase = "alias"
    /\ IF Aliased THEN at' = [at EXCEPT !.phase = "ended"] /\ result' = "refused"
                  ELSE at' = [at EXCEPT !.phase = "open"] /\ UNCHANGED result
    /\ UNCHANGED <<disk, verdicts, side, cmp, out, sum, total, left>>

----------------------------------------------------------------------------
\* The emitter

Record(p, outcome, kind, code) ==
    [root |-> R, path |-> p, outcome |-> outcome, kind |-> kind, code |-> code]

\* The single place where a record is counted and sent.
Emit(rec, more) ==
    /\ out' = Append(out, rec)
    /\ sum' = [c \in Counters |-> sum[c] + more[c] + (IF c = rec.outcome THEN 1 ELSE 0)]

Plus(c, n) == [Zero EXCEPT ![c] = n]

\* The counts of the root are added to the totals and the next root is opened.
RootDone(s) ==
    /\ total' = [c \in Counters |-> total[c] + s[c]]
    /\ sum' = Zero
    /\ side' = [x \in Sides |-> Unwalked]
    /\ IF R < Len(roots) THEN at' = [phase |-> "open", root |-> R + 1] /\ UNCHANGED result
                         ELSE at' = [at EXCEPT !.phase = "ended"] /\ result' = "ok"

\* A root of one record, reported without a walk.
OneRecord(rec) ==
    /\ out' = Append(out, rec)
    /\ RootDone([sum EXCEPT ![rec.outcome] = @ + 1])

\* A fatal failure ends the run: no verdict is given.
Failed == /\ result' = "failed"
          /\ at' = [at EXCEPT !.phase = "ended"]
          /\ UNCHANGED <<out, sum, total>>

----------------------------------------------------------------------------
\* Opening the two sides of a root

\* A root that is not walked: a wrong type or an unreadable root.
Report ==
    /\ at.phase = "open" /\ verdicts[R] \in {"wrongtype", "unreadable"}
    /\ OneRecord(IF verdicts[R] = "wrongtype" THEN Record(<< >>, "mismatched", "dir", "mismatch")
                 ELSE Record(<< >>, "unreadable", "dir", "error"))
    /\ UNCHANGED <<disk, verdicts, cmp, left>>

Listed(s) == LET t == tree[s][R] IN Is(t, << >>, "dir") /\ ~t[<< >>].bad
Opened(s) == [Unwalked EXCEPT !.todo = Listing(tree[s][R], << >>), !.done = FALSE,
                              !.excluded = Excluded(tree[s][R], << >>)]

Works == UNCHANGED left
Fails == left.faults > 0 /\ left' = [left EXCEPT !.faults = @ - 1]

\* The source root is listed first; a scratch failure is held for the merge.
OpenSource ==
    /\ at.phase = "open" /\ verdicts[R] \in {"absent", "checked"}
    /\ \/ /\ Listed("src") /\ \/ Works /\ side' = [side EXCEPT !["src"] = Opened("src")]
                              \/ Fails /\ side' = [side EXCEPT !["src"].fatal = TRUE]
          /\ at' = [at EXCEPT !.phase = IF verdicts[R] = "absent" THEN "merge" ELSE "opendst"]
          /\ UNCHANGED <<out, sum, total, result>>
       \/ ~Listed("src") /\ Works /\ OneRecord(Record(<< >>, "unreadable", "dir", "error"))
    /\ UNCHANGED <<disk, verdicts, cmp>>

\* A failure the source side holds is not lost to an unreadable destination.
OpenDest ==
    /\ at.phase = "opendst"
    /\ \/ /\ Listed("dst") /\ \/ Works /\ side' = [side EXCEPT !["dst"] = Opened("dst")]
                              \/ Fails /\ side' = [side EXCEPT !["dst"].fatal = TRUE]
          /\ at' = [at EXCEPT !.phase = "merge"]
          /\ UNCHANGED <<out, sum, total, result>>
       \/ ~Listed("dst") /\ side["src"].fatal /\ Works /\ Failed /\ UNCHANGED side
       \/ /\ ~Listed("dst") /\ ~side["src"].fatal /\ Works
          /\ OneRecord(Record(<< >>, "unreadable", "dir", "error"))
    /\ UNCHANGED <<disk, verdicts, cmp>>

----------------------------------------------------------------------------
\* The walk of one side, one raw event at a time

Peeked(s) == side[s].held # None \/ side[s].done

\* peek: the source side first.
Turn(s) == /\ at.phase = "merge" /\ cmp = None /\ ~Peeked(s)
           /\ s = "dst" => Peeked("src")

Event(ev, p, k) == [ev |-> ev, path |-> p, kind |-> k]
Got(s, e, todo, ex) ==
    side' = [side EXCEPT ![s].peeked = e, ![s].todo = todo, ![s].excluded = @ + ex]

\* The walk enters a directory: what the path is now decides, not the listing
\* that named it.
Enter(s, p, rest) ==
    LET t == tree[s][R]
    IN  IF ~Is(t, p, "dir") THEN Got(s, Event("error", p, "dir"), rest, 0)
        ELSE IF opt.stay /\ t[p].mount
        THEN Got(s, Event("entry", p, "dir"), <<Event("mountskip", p, "dir")>> \o rest, 0)
        ELSE IF t[p].bad THEN Got(s, Event("error", p, "dir"), rest, 0)
        ELSE Got(s, Event("entry", p, "dir"), Listing(t, p) \o rest, Excluded(t, p))

\* raw, peek_raw: the walk's next event.
Pull(s) ==
    /\ Turn(s) /\ side[s].peeked = None
    /\ LET todo == side[s].todo
       IN  \/ /\ todo = << >> /\ Works
              /\ Got(s, Event("end", << >>, "dir"), todo, 0)
           \/ /\ todo # << >> /\ Works
              /\ IF Head(todo).kind = "dir" /\ Head(todo).ev = "entry"
                 THEN Enter(s, Head(todo).path, Tail(todo))
                 ELSE Got(s, Head(todo), Tail(todo), 0)
           \/ /\ todo # << >> /\ Fails
              /\ Got(s, Event("fatal", << >>, "dir"), << >>, 0)
    /\ UNCHANGED <<disk, at, verdicts, cmp, out, sum, total, result>>

Item(e, notEntered) == [path |-> e.path, kind |-> e.kind, notEntered |-> notEntered,
                        failed |-> e.ev = "error"]

\* What the merge sees of an item: nothing of what a prune or a filter covers.
Kept(s, i) == IF UnderPruned(s, i.path) \/ IsControlState(s, i) THEN None ELSE i

\* mutant: a scratch failure ends the side like its last entry.
Take_end(s) ==
    /\ Turn(s) /\ side[s].peeked # None /\ side[s].cur = None
    /\ LET e == side[s].peeked
           now == [side[s] EXCEPT !.peeked = None]
       IN  side' = [side EXCEPT ![s] =
             CASE e.ev \in {"end", "fatal"} -> [now EXCEPT !.done = TRUE]
               [] e.ev = "mountskip" -> now
               [] e.ev = "error" -> [now EXCEPT !.held = Kept(s, Item(e, FALSE))]
               [] e.ev = "entry" ->
                    IF e.kind = "dir" THEN [now EXCEPT !.cur = e]
                    ELSE IF e.kind = "symlink" /\ s = "src" /\ opt.skip THEN now
                    ELSE [now EXCEPT !.held = Kept(s, Item(e, FALSE))]]
    /\ UNCHANGED <<disk, at, verdicts, cmp, out, sum, total, result, left>>

\* advance: one event becomes an item, or is passed over.  A directory waits
\* for the event after it.
Take(s) ==
    /\ Turn(s) /\ side[s].peeked # None /\ side[s].cur = None
    /\ LET e == side[s].peeked
           now == [side[s] EXCEPT !.peeked = None]
       IN  side' = [side EXCEPT ![s] =
             CASE e.ev = "end" -> [now EXCEPT !.done = TRUE]
               [] e.ev = "fatal" -> [now EXCEPT !.done = TRUE, !.fatal = TRUE]
               [] e.ev = "mountskip" -> now
               [] e.ev = "error" -> [now EXCEPT !.held = Kept(s, Item(e, FALSE))]
               [] e.ev = "entry" ->
                    IF e.kind = "dir" THEN [now EXCEPT !.cur = e]
                    ELSE IF e.kind = "symlink" /\ s = "src" /\ opt.skip THEN now
                    ELSE [now EXCEPT !.held = Kept(s, Item(e, FALSE))]]
    /\ UNCHANGED <<disk, at, verdicts, cmp, out, sum, total, result, left>>

\* A directory followed by its own mount note was not entered.
Look(s) ==
    /\ Turn(s) /\ side[s].peeked # None /\ side[s].cur # None
    /\ LET e == side[s].cur
           skipped == side[s].peeked.ev = "mountskip" /\ side[s].peeked.path = e.path
       IN  side' = [side EXCEPT ![s].cur = None,
                                ![s].peeked = IF skipped THEN None ELSE @,
                                ![s].held = Kept(s, Item(e, skipped))]
    /\ UNCHANGED <<disk, at, verdicts, cmp, out, sum, total, result, left>>

----------------------------------------------------------------------------
\* The merge

Ready == at.phase = "merge" /\ cmp = None /\ Peeked("src") /\ Peeked("dst")
Fatal == side["src"].fatal \/ side["dst"].fatal
X == side["src"].held
Y == side["dst"].held

\* A side that ended early must not make the other's items missing or extra.
StopFatal == /\ Ready /\ Fatal
             /\ Failed
             /\ UNCHANGED <<disk, verdicts, side, cmp, left>>

\* Which side comes next.
Order == CASE Y = None -> "less"
           [] X = None -> "greater"
           [] X # None /\ Y # None -> IF Key(X.path) = Key(Y.path) THEN "equal"
                                      ELSE IF Less(Key(X.path), Key(Y.path)) THEN "less" ELSE "greater"

\* The sides after `gone` gave up their held items, and `p` is pruned on both
\* (None: nothing is).
Without(gone, p) ==
    [s \in Sides |->
       LET held == IF s \in gone THEN None ELSE side[s].held
       IN  [side[s] EXCEPT !.pruned = IF p = None THEN @ ELSE p,
                           !.held = IF p # None /\ held # None /\ Within(held.path, p)
                                    THEN None ELSE held]]

\* An item of one side only.  A failed one is unreadable on the source side;
\* on the destination side it stays extra and carries the error.
Alone(i, s) ==
    Emit(Record(i.path, IF s = "dst" THEN "extra" ELSE IF i.failed THEN "unreadable" ELSE "missing",
                i.kind, IF i.failed THEN "error" ELSE "none"), Zero)

Single(s, i) ==
    /\ Alone(i, s)
    /\ side' = Without({s}, IF i.failed THEN i.path ELSE None)
    /\ UNCHANGED <<disk, at, verdicts, cmp, total, result, left>>

Missing == Ready /\ ~Fatal /\ X # None /\ Order = "less" /\ Single("src", X)
Extra == Ready /\ ~Fatal /\ Y # None /\ Order = "greater" /\ Single("dst", Y)

NotEntered == X.notEntered \/ Y.notEntered

\* pair, compare_pair: the kinds decide; files and links are read next.
Pair ==
    /\ Ready /\ ~Fatal /\ X # None /\ Y # None /\ Order = "equal"
    /\ \/ /\ X.failed \/ Y.failed
          /\ Emit(Record(X.path, "unreadable", X.kind, "error"), Zero)
          /\ side' = Without(Sides, X.path)
          /\ UNCHANGED cmp
       \/ /\ ~X.failed /\ ~Y.failed /\ X.kind = "dir" /\ Y.kind = "dir"
          /\ Emit(Record(X.path, "match", "dir", IF NotEntered THEN "mount" ELSE "none"),
                  IF NotEntered THEN Plus("not_entered", 1) ELSE Zero)
          /\ side' = Without(Sides, IF NotEntered THEN X.path ELSE None)
          /\ UNCHANGED cmp
       \/ /\ ~X.failed /\ ~Y.failed /\ X.kind = Y.kind /\ X.kind \in {"file", "symlink"}
          /\ cmp' = [path |-> X.path, kind |-> X.kind, body |-> None]
          /\ side' = Without(Sides, None)
          /\ UNCHANGED <<out, sum>>
       \/ /\ ~X.failed /\ ~Y.failed /\ X.kind = "other" /\ Y.kind = "other"
          /\ Emit(Record(X.path, "unreadable", "other", "special"), Zero)
          /\ side' = Without(Sides, None)
          /\ UNCHANGED cmp
       \/ /\ ~X.failed /\ ~Y.failed /\ X.kind # Y.kind
          /\ Emit(Record(X.path, "mismatched", X.kind, "mismatch"), Zero)
          /\ side' = Without(Sides, None)
          /\ UNCHANGED cmp
    /\ UNCHANGED <<disk, at, verdicts, total, result, left>>

\* A file root is one record: its two types, either of which may not be told, then the pair.
VerifyFile ==
    /\ at.phase = "open" /\ verdicts[R] = "file"
    /\ LET s == tree["src"][R]
           d == tree["dst"][R]
           k == s[<< >>].kind
       IN  \/ /\ OneRecord(Record(<< >>, "unreadable", "file", "error"))
              /\ UNCHANGED cmp
           \/ /\ Exists(s, << >>)
              /\ OneRecord(Record(<< >>, "unreadable", k, "error"))
              /\ UNCHANGED cmp
           \/ /\ Exists(s, << >>) /\ ~Exists(d, << >>)
              /\ OneRecord(Record(<< >>, "missing", k, "none"))
              /\ UNCHANGED cmp
           \/ /\ Exists(s, << >>) /\ Exists(d, << >>)
              /\ d[<< >>].kind = k /\ k \in {"file", "symlink"}
              /\ cmp' = [path |-> << >>, kind |-> k, body |-> None]
              /\ at' = [at EXCEPT !.phase = "merge"]
              /\ UNCHANGED <<side, out, sum, total, result>>
           \/ /\ Exists(s, << >>) /\ Exists(d, << >>)
              /\ d[<< >>].kind # k \/ k \notin {"file", "symlink"}
              /\ OneRecord(IF k = "other" /\ d[<< >>].kind = "other"
                           THEN Record(<< >>, "unreadable", "other", "special")
                           ELSE Record(<< >>, "mismatched", k, "mismatch"))
              /\ UNCHANGED cmp
    /\ UNCHANGED <<disk, verdicts, left>>

Readable(s) == LET t == tree[s][R] IN Is(t, cmp.path, cmp.kind) /\ ~t[cmp.path].bad
Bytes == Plus("bytes", IF cmp.kind = "file" THEN 1 ELSE 0)

\* The source is read in full before the destination is opened.
ReadSource ==
    /\ cmp # None /\ cmp.body = None
    /\ IF Readable("src")
       THEN /\ cmp' = [cmp EXCEPT !.body = tree["src"][R][cmp.path].body]
            /\ sum' = [sum EXCEPT !["bytes"] = @ + Bytes["bytes"]]
            /\ UNCHANGED out
       ELSE /\ cmp' = None
            /\ Emit(Record(cmp.path, "unreadable", cmp.kind, "error"), Zero)
    /\ UNCHANGED <<disk, at, verdicts, side, total, result, left>>

ReadDest ==
    /\ cmp # None /\ cmp.body # None
    /\ cmp' = None
    /\ IF ~Readable("dst") THEN Emit(Record(cmp.path, "unreadable", cmp.kind, "error"), Zero)
       ELSE IF tree["dst"][R][cmp.path].body = cmp.body
       THEN Emit(Record(cmp.path, "match", cmp.kind, "none"), Bytes)
       ELSE Emit(Record(cmp.path, "mismatched", cmp.kind, "mismatch"), Bytes)
    /\ UNCHANGED <<disk, at, verdicts, side, total, result, left>>

\* Both sides are exhausted; only the source's excluded entries are counted.
FinishRoot ==
    /\ Ready /\ ~Fatal /\ X = None /\ Y = None
    /\ RootDone([sum EXCEPT !["excluded"] = @ + side["src"].excluded])
    /\ UNCHANGED <<disk, verdicts, cmp, out, left>>

----------------------------------------------------------------------------
\* Somebody else writes or removes an entry of either tree.
Edit ==
    /\ left.edits > 0 /\ at.phase # "ended"
    /\ left' = [left EXCEPT !.edits = @ - 1]
    /\ \E s \in Sides, e \in Edits :
          LET t == tree[s][R]
              kept == {p \in DOMAIN t : ~Within(p, e.path)}
          IN  /\ Is(t, Front(e.path), "dir")
              /\ tree' = [tree EXCEPT ![s][R] =
                            [p \in kept \cup (IF e.entry = None THEN {} ELSE {e.path}) |->
                               IF p = e.path THEN e.entry ELSE t[p]]]
              /\ tree' # tree
              /\ edited' = edited \cup {<<s, R, e.path>>}
    /\ UNCHANGED <<opt, roots, at, verdicts, side, cmp, out, sum, total, result>>

Init ==
    /\ opt \in Options
    /\ \E w \in Worlds : roots = w.roots /\ tree = w.tree
    /\ ~opt.several => Len(roots) = 1
    /\ at = [phase |-> IF opt.several \/ roots[1].kind = "folder" THEN "check" ELSE "open",
             root |-> 1]
    /\ verdicts = IF at.phase = "open" THEN <<"file">> ELSE << >>
    /\ side = [s \in Sides |-> Unwalked]
    /\ cmp = None /\ out = << >> /\ sum = Zero /\ total = Zero /\ result = "none"
    /\ edited = {}
    /\ left = [edits |-> MaxEdits, faults |-> Faults]

Step == \/ Check \/ Alias \/ Report \/ OpenSource \/ OpenDest
        \/ \E s \in Sides : Pull(s) \/ Take(s) \/ Look(s)
        \/ StopFatal \/ Missing \/ Extra \/ Pair \/ VerifyFile
        \/ ReadSource \/ ReadDest \/ FinishRoot
Next == Step \/ Edit

Spec == Init /\ [][Next]_vars

----------------------------------------------------------------------------
\* The non-streaming reference: what a run over trees that nobody changes says

Failing(t, p) == Is(t, p, "dir") /\ t[p].bad /\ ~(opt.stay /\ t[p].mount)
Hides(t, p) == opt.stay /\ Is(t, p, "dir") /\ t[p].mount
Above(p) == {SubSeq(p, 1, n) : n \in 1 .. Len(p) - 1}

\* The paths of a side that the merge is to see.
View(s, r) ==
    LET t == tree[s][r]
    IN  {p \in DOMAIN t \ {<< >>} :
           /\ \A q \in Above(p) \cup {p} : Selected(t, q)
           /\ \A q \in Above(p) : ~Hides(t, q)
           /\ ~(s = "src" /\ opt.skip /\ t[p].kind = "symlink")
           /\ ~(s = "dst" /\ \/ Last(p) \in Partials /\ t[p].kind \in {"file", "symlink"}
                             \/ /\ ~opt.several
                                /\ \/ Head(p) = FluxDir /\ (Len(p) > 1 \/ t[p].kind = "dir")
                                   \/ p = <<RootLock>> /\ t[p].kind = "file")}

\* A directory whose contents are not compared.
Blocks(r, p) ==
    LET s == tree["src"][r]
        d == tree["dst"][r]
    IN  \/ p \in View("src", r) /\ Failing(s, p)
        \/ p \in View("dst", r) /\ Failing(d, p)
        \/ /\ p \in View("src", r) \cap View("dst", r)
           /\ Is(s, p, "dir") /\ Is(d, p, "dir") /\ (Hides(s, p) \/ Hides(d, p))

Expected(r, p) ==
    LET s == tree["src"][r]
        d == tree["dst"][r]
    IN  IF p \notin View("dst", r) THEN IF Failing(s, p) THEN "unreadable" ELSE "missing"
        ELSE IF p \notin View("src", r) THEN "extra"
        ELSE IF Failing(s, p) \/ Failing(d, p) THEN "unreadable"
        ELSE IF s[p].kind # d[p].kind THEN "mismatched"
        ELSE IF s[p].kind = "dir" THEN "match"
        ELSE IF s[p].kind = "other" \/ s[p].bad \/ d[p].bad THEN "unreadable"
        ELSE IF s[p].body = d[p].body THEN "match" ELSE "mismatched"

Reference(r) ==
    {<<p, Expected(r, p)>> : p \in {q \in View("src", r) \cup View("dst", r) :
                                      \A a \in Above(q) : ~Blocks(r, a)}}

----------------------------------------------------------------------------
\* Properties

TypeOK ==
    /\ at.phase \in {"check", "alias", "open", "opendst", "merge", "ended"}
    /\ at.root \in DOMAIN roots /\ Len(verdicts) <= Len(roots)
    /\ result \in {"none", "ok", "refused", "failed"}
    /\ (at.phase = "ended") = (result # "none")
    /\ \A s \in Sides : side[s].held # None => side[s].cur = None
    /\ \A i \in DOMAIN out : out[i].outcome \in Outcomes /\ out[i].kind \in Kinds

Of(r) == {i \in DOMAIN out : out[i].root = r /\ out[i].path # << >>}
IsWalked(r) == r \in DOMAIN verdicts /\ verdicts[r] \in {"absent", "checked"}
Over(r) == result = "ok" \/ (at.phase \in {"open", "opendst", "merge"} /\ r < R)

\* While nobody changes the trees, every record sent is one the reference
\* gives, whatever fails later: a walk that ends early accuses nobody.
RecordsTrue ==
    \A r \in DOMAIN roots : IsWalked(r) =>
       \A i \in Of(r) : <<out[i].path, out[i].outcome>> \in Reference(r)

\* While nobody changes the trees, a root that was walked to its end has every
\* record of the reference.
RecordsComplete ==
    \A r \in DOMAIN roots :
       (IsWalked(r) /\ Over(r) /\ ~\E i \in DOMAIN out : out[i].root = r /\ out[i].path = << >>)
          => \A x \in Reference(r) : \E i \in Of(r) : x = <<out[i].path, out[i].outcome>>

Before(p, q) ==
    \/ IsStrictPrefix(p, q)
    \/ \E i \in 1 .. Len(p) : /\ i <= Len(q) /\ Less(p[i], q[i])
                              /\ SubSeq(p, 1, i - 1) = SubSeq(q, 1, i - 1)

\* Whatever others change, the records of a root come in component-wise path
\* order, so no path is reported twice and the two walks stay aligned.
PathOrder ==
    \A i, j \in DOMAIN out :
       (i < j /\ out[i].root = out[j].root) => Before(out[i].path, out[j].path)

Untouched(s, r, p) == ~\E q \in Above(p) \cup {p} : <<s, r, q>> \in edited

\* A file that lies unchanged and equal in both trees is never accused because
\* of what others change around it.
StableNotAccused ==
    \A i \in DOMAIN out :
       LET p == out[i].path
           s == tree["src"][out[i].root]
           d == tree["dst"][out[i].root]
       IN  (/\ p # << >> /\ \A x \in Sides : Untouched(x, out[i].root, p)
            /\ Is(s, p, "file") /\ Is(d, p, "file") /\ s[p] = d[p] /\ ~s[p].bad)
              => out[i].outcome = "match"

\* Totals and the open root's counts add up to the records sent: the exit
\* status is that of the lines the operator saw.
CountsAreRecords ==
    /\ \A c \in Outcomes :
          total[c] + sum[c] = Cardinality({i \in DOMAIN out : out[i].outcome = c})
    /\ total["not_entered"] + sum["not_entered"]
          = Cardinality({i \in DOMAIN out : out[i].code = "mount"})

\* Only source entries are counted as excluded.
ExcludedOfSource ==
    result = "ok" /\ MaxEdits = 0 =>
       total["excluded"] <= Cardinality(UNION {
          {<<r, p>> : p \in {q \in DOMAIN tree["src"][r] : q # << >> /\ Last(q) \in opt.patterns}}
             : r \in DOMAIN roots})

\* No record precedes a refusal: every root is checked before any is walked.
SilentRefusal == result = "refused" => out = << >>

\* A run in which a listing was cut short by a scratch failure gives no verdict.
FailureIsNoVerdict == left.faults < Faults => result # "ok"

\* Two roots that are one directory by a strong identity are never walked.
NoAliasWalked ==
    \A i, j \in DOMAIN roots :
       (i < j /\ roots[i].id # None /\ roots[i].id = roots[j].id
          /\ at.phase \in {"open", "opendst", "merge"})
          => ~(verdicts[i] = "checked" /\ verdicts[j] = "checked")

\* While nobody changes the trees, a pass means the source's files are there: nothing selected is missing or
\* different outside the mount points the records name, nor is a root that is a file.
PassMeansSame ==
    (result = "ok" /\ total["missing"] + total["mismatched"] + total["unreadable"] = 0) =>
       \A r \in DOMAIN roots :
          \A p \in IF IsWalked(r) THEN View("src", r) ELSE {<< >>} :
             \/ \E i \in Of(r) : out[i].code = "mount" /\ IsStrictPrefix(out[i].path, p)
             \/ /\ Exists(tree["src"][r], p) /\ Exists(tree["dst"][r], p)
                /\ tree["dst"][r][p].kind = tree["src"][r][p].kind
                /\ tree["dst"][r][p].body = tree["src"][r][p].body

====
