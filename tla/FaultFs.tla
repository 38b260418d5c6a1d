------------------------------ MODULE FaultFs ------------------------------
(***************************************************************************)
(* `FaultFs`, the in-memory file system the engine is tested against       *)
(* (crates/flux-core/src/fault_fs.rs): its maps are keyed by path, its     *)
(* directory handles are nodes of a graph, and every operation of a handle *)
(* goes through the path its node remembers.  The question is whether that *)
(* implements DirContract, in which handles hold objects.                  *)
(*                                                                         *)
(* A path is a sequence of names, the root << >>.  `g` is `Inner`: files   *)
(* (path -> bytes), dirs, types, ids (path -> object number), links (path  *)
(* -> payload), attr (times and permissions: two maps that every operation *)
(* treats alike), pending, the directory nodes, and the lock holders.      *)
(* `hs`, `ws` and `ks` are the directory handles, writers and lock handles *)
(* the caller has open.  `ho` and `wo` remember which object a handle was  *)
(* opened on: they are for the comparison, no operation reads them.        *)
(***************************************************************************)
EXTENDS Integers, FiniteSets, Sequences, SequencesExt, Functions, TLC

CONSTANTS
    Names, Handles, RootHandle, Writers, Locks, None,
    Fold,              \* set_case_insensitive: name -> the spelling it is looked up by
    replace_renames,
    legacy_delete,
    Payload,           \* the payload of the links that are made
    Bytes,             \* what a write appends
    Times,
    MaxDepth,          \* bound: names on a path
    MaxObjects,        \* bound: objects made
    MaxLen,            \* bound: bytes of a file
    Ops,               \* the operations the caller uses
    StaleHandles,      \* a directory that a handle holds may be removed
    LateWriters,       \* a writer may be used after its file was renamed or removed
    OverDirectory,     \* a replacing rename may name a directory
    Specials           \* names that may be seeded with a special file

VARIABLES g, hs, ws, ks, ho, wo, ans

vars == <<g, hs, ws, ks, ho, wo, ans>>

Put(f, k, v) == (k :> v) @@ f
Drop(f, ps) == [k \in DOMAIN f \ ps |-> f[k]]

----------------------------------------------------------------------------
(* The helpers.                                                            *)

Occupied(i, p) == p \in DOMAIN i.files \/ p \in i.dirs

\* Each component in the spelling an entry already has, an exact match first.
Stored(i, p) ==
    LET entries == DOMAIN i.files \union i.dirs
        Step(at, name) ==
            LET same == {q \in entries : q # << >> /\ Front(q) = at /\ Fold[Last(q)] = Fold[name]} IN
            IF same = {} \/ Append(at, name) \in same THEN Append(at, name)
            ELSE CHOOSE q \in same : TRUE
    IN  FoldLeft(Step, << >>, p)

LinkCount(i, p) ==
    LET names == {q \in DOMAIN i.files : q \notin i.pending /\ i.ids[q] = i.ids[p]} IN
    IF names = {} THEN 1 ELSE Cardinality(names)

SameObject(i, from, to) ==
    /\ from \in DOMAIN i.files /\ to \in DOMAIN i.files
    /\ to \notin i.pending
    /\ i.ids[from] = i.ids[to]

MintIdentity(i, p) ==
    IF p \in DOMAIN i.ids THEN i
    ELSE [i EXCEPT !.next = @ + 1, !.ids = Put(@, p, i.next + 1)]

Purge(i, p) ==
    [i EXCEPT !.files = Drop(@, {p}), !.ids = Drop(@, {p}), !.attr = Drop(@, {p}),
              !.types = Drop(@, {p}), !.links = Drop(@, {p})]

\* The value follows the object; where it has none, the old one at `to` goes.
MoveKey(f, from, to) ==
    IF from \in DOMAIN f THEN Put(Drop(f, {from}), to, f[from]) ELSE Drop(f, {to})

Rekey(f, from, to) ==
    LET Moved(p) == IF IsPrefix(from, p) THEN to \o SubSeq(p, Len(from) + 1, Len(p)) ELSE p IN
    [q \in {Moved(p) : p \in DOMAIN f} |-> f[CHOOSE p \in DOMAIN f : Moved(p) = q]]

\* A directory takes its whole subtree and every node on it along; the name binding
\* goes from the old parent's node to the new parent's.
MoveDirectory(i, from, to) ==
    LET Moved(p) == IF IsPrefix(from, p) THEN to \o SubSeq(p, Len(from) + 1, Len(p)) ELSE p
        nodeAt == Rekey(i.nodeAt, from, to)
        unbound == [k \in DOMAIN i.nodes |->
            [path |-> Moved(i.nodes[k].path),
             children |-> IF Front(from) \in DOMAIN nodeAt /\ nodeAt[Front(from)] = k
                          THEN Drop(i.nodes[k].children, {Last(from)}) ELSE i.nodes[k].children]]
        nodes == [k \in DOMAIN unbound |->
            [unbound[k] EXCEPT !.children =
                IF Front(to) \in DOMAIN nodeAt /\ nodeAt[Front(to)] = k /\ to \in DOMAIN nodeAt
                THEN Put(@, Last(to), nodeAt[to]) ELSE @]]
    IN  [i EXCEPT !.files = Rekey(@, from, to), !.ids = Rekey(@, from, to), !.types = Rekey(@, from, to),
                  !.links = Rekey(@, from, to), !.attr = Rekey(@, from, to),
                  !.dirs = {Moved(d) : d \in @}, !.nodeAt = nodeAt, !.nodes = nodes]

MoveObject(i, from, to) ==
    IF from \in i.dirs THEN MoveDirectory(i, from, to)
    ELSE [i EXCEPT !.files = MoveKey(@, from, to), !.ids = MoveKey(@, from, to),
                   !.types = MoveKey(@, from, to), !.links = MoveKey(@, from, to),
                   !.attr = MoveKey(@, from, to)]

\* The node of a path, made when there is none.
NodeFor(i, p) == IF p \in DOMAIN i.nodeAt THEN i.nodeAt[p] ELSE i.nextNode + 1

WithNode(i, p) ==
    IF p \in DOMAIN i.nodeAt THEN i
    ELSE [i EXCEPT !.nextNode = @ + 1, !.nodeAt = Put(@, p, i.nextNode + 1),
                   !.nodes = Put(@, i.nextNode + 1, [path |-> p, children |-> << >>])]

MyPath(h) == g.nodes[hs[h]].path
Child(h, name) == Append(MyPath(h), name)
NormChild(h, name) == Stored(g, Child(h, name))

TypeOf(i, p) == IF p \in DOMAIN i.types THEN i.types[p] ELSE "file"

\* The object at a path, if there is one.
IdOf(p) == IF p \in DOMAIN g.ids THEN g.ids[p] ELSE None

\* The path that now holds an object.
PathOf(i, o) == {p \in DOMAIN i.ids : i.ids[p] = o}

----------------------------------------------------------------------------
(* One action per operation.  `Failed` is the fault a test injects: the    *)
(* call is recorded and answers it, and nothing else happens.              *)

Empty ==
    [files |-> << >>, dirs |-> {}, types |-> << >>, ids |-> (<< >> :> 0), links |-> << >>,
     attr |-> << >>, pending |-> {}, next |-> 0, nextNode |-> 1, nodeAt |-> (<< >> :> 1),
     nodes |-> (1 :> [path |-> << >>, children |-> << >>]), holders |-> << >>]

AddSpecial(i, p) == MintIdentity([i EXCEPT !.files = Put(@, p, << >>), !.types = Put(@, p, "other")], p)

Init ==
    /\ g \in {Empty} \union {AddSpecial(Empty, <<n>>) : n \in Specials}
    /\ hs = [h \in Handles |-> IF h = RootHandle THEN 1 ELSE None]
    /\ ho = [h \in Handles |-> IF h = RootHandle THEN 0 ELSE None]
    /\ ws = [w \in Writers |-> None]
    /\ wo = [w \in Writers |-> None]
    /\ ks = [k \in Locks |-> None]
    /\ ans = "none"

Answer(a) == ans' = a /\ UNCHANGED <<g, hs, ws, ks, ho, wo>>
Effect(i) == ans' = "ok" /\ g' = i

Open(h) == hs[h] # None
Room == g.next < MaxObjects
Shallow(h) == Len(MyPath(h)) < MaxDepth

Failed == Answer("failed")

\* The node is bound to the name in this handle's node.
Bound(i, h, name, p) ==
    LET j == WithNode(i, p) IN
    [j EXCEPT !.nodes[hs[h]].children = Put(@, name, NodeFor(i, p))]

OpenDir(h, name, into) ==
    LET children == g.nodes[hs[h]].children
        p == NormChild(h, name)
    IN  /\ "open_dir" \in Ops /\ Open(h)
        /\ \/ /\ name \in DOMAIN children
              /\ hs' = [hs EXCEPT ![into] = children[name]]
              /\ ho' = [ho EXCEPT ![into] = IdOf(g.nodes[children[name]].path)]
              /\ Effect(g)
              /\ UNCHANGED <<ws, ks, wo>>
           \/ /\ name \notin DOMAIN children
              /\ \/ p \in g.pending \/ ~Occupied(g, p)
                 \/ p \in DOMAIN g.files /\ TypeOf(g, p) # "link"
              /\ Answer("DestinationError")
           \/ name \notin DOMAIN children /\ TypeOf(g, p) = "link" /\ Answer("SafetyRejected")
           \/ /\ name \notin DOMAIN children /\ p \in g.dirs
              /\ hs' = [hs EXCEPT ![into] = NodeFor(g, p)]
              /\ ho' = [ho EXCEPT ![into] = g.ids[p]]
              /\ Effect(Bound(g, h, name, p))
              /\ UNCHANGED <<ws, ks, wo>>

MakeDir(i, p) == MintIdentity([i EXCEPT !.dirs = @ \union {p}, !.types = Put(@, p, "dir")], p)

CreateDir(h, name, into) ==
    LET p == NormChild(h, name)
        i == MakeDir(g, p)
    IN  /\ "create_dir" \in Ops /\ Open(h) /\ Room /\ Shallow(h)
        /\ \/ Occupied(g, p) /\ Answer("AlreadyExists")
           \/ ~Occupied(g, p) /\ Front(p) # << >> /\ Front(p) \notin g.dirs /\ Answer("NotFound")
           \/ /\ ~Occupied(g, p) /\ (Front(p) = << >> \/ Front(p) \in g.dirs)
              /\ hs' = [hs EXCEPT ![into] = NodeFor(i, Child(h, name))]
              /\ ho' = [ho EXCEPT ![into] = i.next]
              /\ Effect(Bound(i, h, name, Child(h, name)))
              /\ UNCHANGED <<ws, ks, wo>>

Free(i, p) == ~Occupied(i, p)

MakeFile(i, p) == MintIdentity([i EXCEPT !.files = Put(@, p, << >>)], p)

CreateNew(h, name, w) ==
    LET p == NormChild(h, name) IN
    /\ "create_new" \in Ops /\ Open(h) /\ Room /\ ws[w] = None
    /\ \/ ~Free(g, p) /\ Answer("AlreadyExists")
       \/ /\ Free(g, p)
          /\ ws' = [ws EXCEPT ![w] = [path |-> p, pos |-> None]]
          /\ wo' = [wo EXCEPT ![w] = g.next + 1]
          /\ Effect(MakeFile(g, p))
          /\ UNCHANGED <<hs, ks, ho>>

Existing(i, p, expected) ==
    CASE expected = None            -> "InvalidData"
      [] TypeOf(i, p) = "link"      -> "SafetyRejected"
      [] TypeOf(i, p) = "other"     -> "DestinationError"
      [] p \in i.dirs               -> "IsADirectory"
      [] p \notin DOMAIN i.files    -> "NotFound"
      [] LinkCount(i, p) # 1        -> "SafetyRejected"
      [] i.ids[p] # expected        -> "InvalidData"
      [] OTHER                      -> "ok"

OpenExisting(h, name, expected, w) ==
    LET p == NormChild(h, name)
        a == Existing(g, p, expected)
    IN  /\ "open_existing" \in Ops /\ Open(h) /\ ws[w] = None
        /\ \/ a # "ok" /\ Answer(a)
           \/ /\ a = "ok"
              /\ ws' = [ws EXCEPT ![w] = [path |-> p, pos |-> 0]]
              /\ wo' = [wo EXCEPT ![w] = expected]
              /\ Effect(g)
              /\ UNCHANGED <<hs, ks, ho>>

\* On a volume that keeps the name of a file a lock handle has open, it waits.
RemovedAt(i, p) ==
    IF legacy_delete /\ \E k \in Locks : ks[k] = i.ids[p]
    THEN [i EXCEPT !.pending = @ \union {p}] ELSE Purge(i, p)

RemoveFile(h, name) ==
    LET p == NormChild(h, name) IN
    /\ "remove_file" \in Ops /\ Open(h)
    /\ \/ p \in g.dirs /\ TypeOf(g, p) # "link" /\ Answer("IsADirectory")
       \/ (p \in g.pending \/ ~Occupied(g, p)) /\ Answer("NotFound")
       \/ /\ p \in DOMAIN g.files \ g.pending
          /\ Effect(RemovedAt(g, p))
          /\ UNCHANGED <<hs, ws, ks, ho, wo>>

Unlisted(i, node, p, name) ==
    [i EXCEPT !.dirs = @ \ {p}, !.types = Drop(@, {p}), !.ids = Drop(@, {p}), !.attr = Drop(@, {p}),
              !.nodeAt = Drop(@, {p}), !.nodes[node].children = Drop(@, {name})]

\* Not normalised: the spelling asked for.
RemoveDir(h, name) ==
    LET p == Child(h, name) IN
    /\ "remove_dir" \in Ops /\ Open(h)
    /\ \/ p \in DOMAIN g.files /\ Answer("NotADirectory")
       \/ ~Occupied(g, p) /\ Answer("NotFound")
       \/ /\ p \in g.dirs /\ (\E q \in DOMAIN g.files \union g.dirs : q # << >> /\ Front(q) = p)
          /\ Answer("DirectoryNotEmpty")
       \/ /\ p \in g.dirs /\ ~(\E q \in DOMAIN g.files \union g.dirs : q # << >> /\ Front(q) = p)
          /\ StaleHandles \/ \A x \in Handles : ho[x] # g.ids[p]
          /\ Effect(Unlisted(g, hs[h], p, name))
          /\ UNCHANGED <<hs, ws, ks, ho, wo>>

CreateSymlink(h, name) ==
    LET p == NormChild(h, name) IN
    /\ "create_symlink" \in Ops /\ Open(h) /\ Room
    /\ \/ (Occupied(g, p) \/ p \in DOMAIN g.types) /\ Answer("AlreadyExists")
       \/ /\ ~Occupied(g, p) /\ p \notin DOMAIN g.types
          /\ Effect(MintIdentity([g EXCEPT !.files = Put(@, p, << >>), !.types = Put(@, p, "link"),
                                           !.links = Put(@, p, Payload)], p))
          /\ UNCHANGED <<hs, ws, ks, ho, wo>>

SecondName(i, source, p) ==
    LET Also(f) == IF source \in DOMAIN f THEN Put(f, p, f[source]) ELSE f IN
    [i EXCEPT !.files = Also(@), !.types = Also(@), !.links = Also(@), !.attr = Also(@), !.ids = Also(@)]

CreateHardlink(h, name, other, from) ==
    LET p == NormChild(h, name)
        source == NormChild(other, from)
    IN  /\ "create_hardlink" \in Ops /\ Open(h) /\ Open(other)
        /\ \/ (Occupied(g, p) \/ p \in DOMAIN g.types) /\ Answer("AlreadyExists")
           \/ Free(g, p) /\ source \in g.dirs /\ Answer("IsADirectory")
           \/ /\ Free(g, p) /\ source \notin g.dirs
              /\ source \notin DOMAIN g.files \ g.pending
              /\ Answer("NotFound")
           \/ /\ ~Occupied(g, p) /\ p \notin DOMAIN g.types
              /\ source \in DOMAIN g.files \ g.pending
              /\ Effect(SecondName(g, source, p))
              /\ UNCHANGED <<hs, ws, ks, ho, wo>>

RenameNoReplace(h, name, other, to) ==
    LET f == NormChild(h, name)
        t == NormChild(other, to)
    IN  /\ "rename_no_replace" \in Ops /\ Open(h) /\ Open(other)
        \* into itself: a rename no caller makes
        /\ ~(f \in g.dirs /\ IsPrefix(f, t))
        /\ Len(t) + (IF f \in g.dirs THEN 1 ELSE 0) <= MaxDepth + 1
        /\ f \in g.dirs => \A q \in DOMAIN g.ids : IsPrefix(f, q) => Len(t) + Len(q) - Len(f) <= MaxDepth + 1
        /\ \/ ~Occupied(g, f) /\ Answer("NotFound")
           \/ Occupied(g, f) /\ Occupied(g, t) /\ Answer("AlreadyExists")
           \/ /\ Occupied(g, f) /\ ~Occupied(g, t)
              /\ Effect(MoveObject(g, f, t))
              /\ UNCHANGED <<hs, ws, ks, ho, wo>>

\* mutant: the replaced entry keeps its spelling on Windows too
Replaced_kept(i, f, t, requested) == IF SameObject(i, f, t) THEN i ELSE MoveObject(i, f, t)

Replaced(i, f, t, requested) ==
    IF SameObject(i, f, t) THEN i
    ELSE LET j == MoveObject(i, f, t) IN
         IF replace_renames /\ requested # t THEN MoveObject(j, t, requested) ELSE j

RenameReplace(h, name, other, to) ==
    LET f == NormChild(h, name)
        t == NormChild(other, to)
    IN  /\ "rename_replace" \in Ops /\ Open(h) /\ Open(other)
        /\ f \notin g.dirs        \* asserted
        /\ OverDirectory \/ t \notin g.dirs
        /\ \/ ~Occupied(g, f) /\ Answer("NotFound")
           \/ /\ f \in DOMAIN g.files
              /\ Effect(Replaced(g, f, t, Append(Front(t), to)))
              /\ UNCHANGED <<hs, ws, ks, ho, wo>>

----------------------------------------------------------------------------
(* What the reading calls answer.                                          *)

Metadata(i, p) ==
    IF p \in i.pending \/ ~Occupied(i, p) THEN "NotFound"
    ELSE <<TypeOf(i, p), i.ids[p],
           IF p \in DOMAIN i.links THEN Len(i.links[p])
           ELSE IF p \in DOMAIN i.files THEN Len(i.files[p]) ELSE 0,
           IF p \in DOMAIN i.attr THEN i.attr[p] ELSE None, LinkCount(i, p)>>

ReadLink(i, p) ==
    CASE p \in DOMAIN i.links -> i.links[p]
      [] p \notin DOMAIN i.links /\ Occupied(i, p) -> "InvalidInput"
      [] OTHER -> "NotFound"

ReadDir(i, p) ==
    IF p # << >> /\ p \notin i.dirs THEN "NotFound"
    ELSE {<<Last(q), IF q \in i.dirs THEN "dir" ELSE TypeOf(i, q), i.ids[q]>> :
            q \in {x \in DOMAIN i.files \union i.dirs : x # << >> /\ Front(x) = p}}

\* read_file asks for a waiting removal first; open_read does not ask, and takes the spelling it is given.
ReadFile(i, p) ==
    CASE p \in i.pending              -> "NotFound"
      [] TypeOf(i, p) = "link"        -> "SafetyRejected"
      [] TypeOf(i, p) = "other"       -> "DestinationError"
      [] p \in i.dirs                 -> "IsADirectory"
      [] p \notin DOMAIN i.files      -> "NotFound"
      [] OTHER                        -> "ok"

OpenRead(i, p) ==
    CASE TypeOf(i, p) = "link"        -> "SafetyRejected"
      [] TypeOf(i, p) = "other"       -> "DestinationError"
      [] p \in i.dirs                 -> "IsADirectory"
      [] p \notin DOMAIN i.files      -> "NotFound"
      [] OTHER                        -> "ok"

----------------------------------------------------------------------------
(* Writers.                                                                *)

Usable(w) ==
    /\ ws[w] # None
    /\ LateWriters \/ (ws[w].path \in DOMAIN g.files /\ g.ids[ws[w].path] = wo[w])
    \* the fake keeps a copy of the bytes under each name
    /\ LateWriters \/ LinkCount(g, ws[w].path) = 1

Overlaid(old, p, new) ==
    [i \in 1..(IF Len(old) < p + Len(new) THEN p + Len(new) ELSE Len(old)) |->
        IF i \in p + 1..p + Len(new) THEN new[i - p] ELSE IF i <= Len(old) THEN old[i] ELSE 0]

Landed(old, pos, new) == IF pos = None THEN old \o new ELSE Overlaid(old, pos, new)

\* entry(path).or_default(): the file is there or it is made.
Write(w, bytes) ==
    /\ "write" \in Ops /\ Usable(w)
    /\ LET old == IF ws[w].path \in DOMAIN g.files THEN g.files[ws[w].path] ELSE << >> IN
       /\ Len(old) + Len(bytes) <= MaxLen
       /\ Effect([g EXCEPT !.files = Put(@, ws[w].path, Landed(old, ws[w].pos, bytes))])
    /\ ws' = [ws EXCEPT ![w].pos = IF @ = None THEN None ELSE @ + Len(bytes)]
    /\ UNCHANGED <<hs, ks, ho, wo>>

SetTimes(w, t) ==
    /\ "set_times" \in Ops /\ Usable(w)
    /\ Effect([g EXCEPT !.attr = Put(@, ws[w].path, t)])
    /\ UNCHANGED <<hs, ws, ks, ho, wo>>

CutRefused(len, current) == len > current

TruncateTo(w, len) ==
    LET current == IF ws[w].path \in DOMAIN g.files THEN Len(g.files[ws[w].path]) ELSE 0 IN
    /\ "truncate_to" \in Ops /\ Usable(w)
    /\ \/ CutRefused(len, current) /\ Answer("InvalidInput")
       \/ /\ ~CutRefused(len, current)
          /\ Effect([g EXCEPT !.files = IF ws[w].path \in DOMAIN @
                                        THEN [@ EXCEPT ![ws[w].path] = SubSeq(@, 1, len)] ELSE @])
          /\ ws' = [ws EXCEPT ![w].pos = len]
          /\ UNCHANGED <<hs, ks, ho, wo>>

DropWriter(w) ==
    /\ ws[w] # None
    /\ ws' = [ws EXCEPT ![w] = None]
    /\ wo' = [wo EXCEPT ![w] = None]
    /\ Effect(g)
    /\ UNCHANGED <<hs, ks, ho>>

----------------------------------------------------------------------------
(* Lock handles: they address their object, so a rename carries them.      *)

CreateLock(h, name, k) ==
    LET p == NormChild(h, name) IN
    /\ "create_lock" \in Ops /\ Open(h) /\ Room /\ ks[k] = None
    /\ \/ Occupied(g, p) /\ Answer("AlreadyExists")
       \/ /\ ~Occupied(g, p)
          /\ ks' = [ks EXCEPT ![k] = g.next + 1]
          /\ Effect(MakeFile(g, p))
          /\ UNCHANGED <<hs, ws, ho, wo>>

OpenRefusal(i, p) ==
    CASE p \in i.pending              -> "NotFound"
      [] TypeOf(i, p) = "link"        -> "SafetyRejected"
      [] TypeOf(i, p) = "other"       -> "DestinationError"
      [] p \in i.dirs                 -> "IsADirectory"
      [] p \notin DOMAIN i.files      -> "NotFound"
      [] OTHER                        -> "ok"

OpenLock(h, name, k) ==
    LET p == NormChild(h, name)
        a == OpenRefusal(g, p)
    IN  /\ "open_lock" \in Ops /\ Open(h) /\ ks[k] = None
        /\ \/ a # "ok" /\ Answer(a)
           \/ /\ a = "ok"
              /\ ks' = [ks EXCEPT ![k] = g.ids[p]]
              /\ Effect(g)
              /\ UNCHANGED <<hs, ws, ho, wo>>

HeldByOther(i, k) == ks[k] \in DOMAIN i.holders /\ i.holders[ks[k]] # k

TryLock(k) ==
    /\ "try_lock" \in Ops /\ ks[k] # None
    /\ \/ HeldByOther(g, k) /\ Answer("held")
       \/ /\ ~HeldByOther(g, k)
          /\ Effect([g EXCEPT !.holders = Put(@, ks[k], k)])
          /\ UNCHANGED <<hs, ws, ks, ho, wo>>

\* The write in place, then the cut: a fault at the cut leaves the old tail.
WriteAtStart(k, bytes) ==
    /\ "write_at_start" \in Ops /\ ks[k] # None
    /\ \/ PathOf(g, ks[k]) = {} /\ Failed
       \/ \E p \in PathOf(g, ks[k]), cut \in BOOLEAN :
            /\ g' = [g EXCEPT !.files[p] = IF cut THEN bytes ELSE Overlaid(@, 0, bytes)]
            /\ ans' = IF cut THEN "ok" ELSE "failed"
            /\ UNCHANGED <<hs, ws, ks, ho, wo>>

Released(i, k) ==
    IF ks[k] \in DOMAIN i.holders /\ i.holders[ks[k]] = k
    THEN [i EXCEPT !.holders = Drop(@, {ks[k]})] ELSE i

\* mutant: nobody removes the name that waited
LastClosed_never(i, k) == i

\* The last handle on the object: a name that waited goes now. A file that is locked has one name.
LastClosed(i, k) ==
    LET p == CHOOSE p \in PathOf(i, ks[k]) : TRUE IN
    IF (\E j \in Locks \ {k} : ks[j] = ks[k]) \/ PathOf(i, ks[k]) = {} \/ p \notin i.pending THEN i
    ELSE [Purge(i, p) EXCEPT !.pending = @ \ {p}]

CloseLock(k) ==
    /\ ks[k] # None
    /\ ks' = [ks EXCEPT ![k] = None]
    /\ Effect(LastClosed(Released(g, k), k))
    /\ UNCHANGED <<hs, ws, ho, wo>>

Others == Handles \ {RootHandle}

Next ==
    \/ Failed
    \/ \E h \in Handles, name \in Names :
        \/ \E into \in Others : OpenDir(h, name, into) \/ CreateDir(h, name, into)
        \/ \E w \in Writers : CreateNew(h, name, w)
        \/ \E w \in Writers, e \in 1..g.next \union {None} : OpenExisting(h, name, e, w)
        \/ RemoveFile(h, name) \/ RemoveDir(h, name) \/ CreateSymlink(h, name)
        \/ \E k \in Locks : CreateLock(h, name, k) \/ OpenLock(h, name, k)
        \/ \E other \in Handles, to \in Names :
            \/ CreateHardlink(h, name, other, to)
            \/ RenameNoReplace(h, name, other, to) \/ RenameReplace(h, name, other, to)
    \/ \E w \in Writers :
        \/ \E b \in Bytes : Write(w, b)
        \/ \E t \in Times : SetTimes(w, t)
        \/ \E len \in 0..MaxLen : TruncateTo(w, len)
        \/ DropWriter(w)
    \/ \E k \in Locks : TryLock(k) \/ CloseLock(k) \/ \E b \in Bytes : WriteAtStart(k, b)

Spec == Init /\ [][Next]_vars

----------------------------------------------------------------------------
(* The namespace the maps stand for.                                       *)

Live == DOMAIN g.files \union g.dirs

PathsOf(o) == {p \in Live : IdOf(p) = o}

KindOf(p) == IF p \in g.dirs THEN "dir" ELSE TypeOf(g, p)

Namespace ==
    LET objects == {g.ids[p] : p \in Live}
        one == [o \in objects |-> CHOOSE p \in PathsOf(o) : TRUE]
        At(o) == one[o]
    IN  [kind |-> [o \in objects \union {0} |-> IF o = 0 THEN "dir" ELSE KindOf(At(o))],
         data |-> [o \in objects \union {0} |->
                    IF o = 0 \/ At(o) \in g.dirs THEN << >>
                    ELSE IF At(o) \in DOMAIN g.links THEN g.links[At(o)] ELSE g.files[At(o)]],
         attr |-> [o \in objects \union {0} |->
                    IF o # 0 /\ At(o) \in DOMAIN g.attr THEN g.attr[At(o)] ELSE None],
         tree |-> [o \in {IdOf(d) : d \in g.dirs \union {<< >>}} |->
                    LET d == IF o = 0 THEN << >> ELSE At(o) IN
                    [n \in {Last(p) : p \in {q \in Live : Front(q) = d}} |-> g.ids[Append(d, n)]]],
         held |-> ho,
         wr   |-> [w \in Writers |-> IF ws[w] = None THEN None ELSE [obj |-> wo[w], pos |-> ws[w].pos]],
         lk   |-> ks,
         own  |-> g.holders,
         gone |-> {<<IdOf(Front(p)), Last(p)>> : p \in g.pending},
         next |-> g.next]

\* Every call that the operations in use can be.
AllCalls ==
    LET At(op) == [op : {op} \cap Ops, h : Handles, name : Names]
        Two(op) == [op : {op} \cap Ops, h : Handles, name : Names, other : Handles, to : Names]
    IN  UNION {
        [op : {"open_dir", "create_dir"} \cap Ops, h : Handles, name : Names, into : Others],
        [op : {"create_new"} \cap Ops, h : Handles, name : Names, w : Writers],
        [op : {"open_existing"} \cap Ops, h : Handles, name : Names, w : Writers,
         expected : 1..MaxObjects \union {None}],
        At("remove_file"), At("remove_dir"),
        [op : {"create_symlink"} \cap Ops, h : Handles, name : Names, payload : {Payload}],
        [op : {"create_lock", "open_lock"} \cap Ops, h : Handles, name : Names, k : Locks],
        [op : {"create_hardlink"} \cap Ops, h : Handles, name : Names, other : Handles, from : Names],
        Two("rename_no_replace"), Two("rename_replace"),
        [op : {"write"} \cap Ops, w : Writers, bytes : Bytes],
        [op : {"set_times"} \cap Ops, w : Writers, time : Times],
        [op : {"truncate_to"} \cap Ops, w : Writers, len : 0..MaxLen],
        [op : {"drop_writer"}, w : Writers],
        [op : {"try_lock"} \cap Ops, k : Locks],
        [op : {"close_lock"}, k : Locks],
        [op : {"write_at_start"} \cap Ops, k : Locks, bytes : Bytes]}

Contract == INSTANCE DirContract WITH
    ns <- Namespace, ReplaceRenames <- replace_renames, LegacyDelete <- legacy_delete, Calls <- AllCalls

----------------------------------------------------------------------------
(* Properties.                                                             *)

\* The maps have the shapes `Inner` declares, and an answer is one of the kinds.
TypeOK ==
    /\ DOMAIN g.links \subseteq DOMAIN g.types
    /\ Range(g.types) \subseteq {"dir", "link", "other"}
    /\ Range(g.ids) \subseteq 0..g.next
    /\ Range(g.nodeAt) \subseteq DOMAIN g.nodes
    /\ \A h \in Handles : hs[h] # None => hs[h] \in DOMAIN g.nodes

\* Every step of the fake is a step some call may take.
ImplementsContract == Contract!Spec

\* The operation a call asks for.
Do(c) ==
    CASE c.op = "open_dir"          -> OpenDir(c.h, c.name, c.into)
      [] c.op = "create_dir"        -> CreateDir(c.h, c.name, c.into)
      [] c.op = "create_new"        -> CreateNew(c.h, c.name, c.w)
      [] c.op = "open_existing"     -> OpenExisting(c.h, c.name, c.expected, c.w)
      [] c.op = "remove_file"       -> RemoveFile(c.h, c.name)
      [] c.op = "remove_dir"        -> RemoveDir(c.h, c.name)
      [] c.op = "create_symlink"    -> CreateSymlink(c.h, c.name)
      [] c.op = "create_hardlink"   -> CreateHardlink(c.h, c.name, c.other, c.from)
      [] c.op = "rename_no_replace" -> RenameNoReplace(c.h, c.name, c.other, c.to)
      [] c.op = "rename_replace"    -> RenameReplace(c.h, c.name, c.other, c.to)
      [] c.op = "create_lock"       -> CreateLock(c.h, c.name, c.k)
      [] c.op = "open_lock"         -> OpenLock(c.h, c.name, c.k)
      [] c.op = "write"             -> Write(c.w, c.bytes)
      [] c.op = "set_times"         -> SetTimes(c.w, c.time)
      [] c.op = "truncate_to"       -> TruncateTo(c.w, c.len)
      [] c.op = "drop_writer"       -> DropWriter(c.w)
      [] c.op = "try_lock"          -> TryLock(c.k)
      [] c.op = "write_at_start"    -> WriteAtStart(c.k, c.bytes)
      [] c.op = "close_lock"        -> CloseLock(c.k)

\* Every call through a handle answers what `DirHandle` promises of that call and
\* does to the objects what it promises, whatever renames, links and removals came
\* before it: the path a node remembers leads to the object its handle was opened on.
EveryCallAsPromised ==
    LET n == Namespace
        m == Namespace'
    IN  \A c \in AllCalls : Do(c) => Contract!Does(n, m, c)

\* What identity, read_dir, metadata, read_link, read_file, open_read and open_lock
\* answer through a handle is what the contract says of the object the handle was
\* opened on and of the object at the name.  Two calls promise less: open_read finds
\* an entry only by its stored spelling, and neither it nor read_link asks whether a
\* removal waits.
ReadsAgree ==
    LET n == Namespace
        Said(a, refusals) == IF a = "ok" THEN refusals = {} ELSE a \in refusals
    IN  \A h \in {x \in Handles : Open(x)} :
        LET o == ho[h] IN
        /\ MyPath(h) \in DOMAIN g.ids => g.ids[MyPath(h)] = o
        /\ ReadDir(g, MyPath(h)) = Contract!Listing(n, o)
        /\ \A name \in Names :
            LET p == NormChild(h, name) IN
            /\ Metadata(g, p) = Contract!Stat(n, o, name)
            /\ Said(ReadFile(g, p), Contract!RefuseOpen(n, o, name))
            /\ Said(OpenRefusal(g, p), Contract!RefuseOpen(n, o, name))
            /\ p \notin g.pending => ReadLink(g, p) = Contract!LinkAt(n, o, name)
            /\ p \notin g.pending /\ p = Child(h, name) =>
                Said(OpenRead(g, p), Contract!RefuseOpen(n, o, name))

\* Every file and directory has an identity, so no stat of one panics ("a creation
\* path skipped mint_identity").
EveryObjectHasIdentity == Live \subseteq DOMAIN g.ids

\* A name leads to one object: nothing is a file and a directory at once.
OneObjectPerName == DOMAIN g.files \cap g.dirs = {}

\* Folding keeps directories free of two entries that differ only by case, so which
\* of them a lookup finds is never left open.
NoTwins ==
    \A p, q \in Live : p # << >> /\ q # << >> /\ Front(p) = Front(q) /\ Fold[Last(p)] = Fold[Last(q)] => p = q

\* What a directory handle says it holds never changes while it is open.
HandleKeepsItsObject ==
    \A h \in Handles :
     (hs[h] # None /\ hs'[h] = hs[h] /\ ho'[h] = ho[h]) =>
         LET p == g'.nodes[hs'[h]].path IN p \in DOMAIN g'.ids => g'.ids[p] = ho[h]

\* A name whose removal waits is there only as long as a lock handle on its object is
\* open ("until the last such handle closes").  Meanwhile a create finds it occupied,
\* and a stat, a lock's open and read_file find nothing.  (open_existing, open_read,
\* read_link and the renames do not ask whether a removal waits.)
PendingIsHidden ==
    \A p \in g.pending :
        /\ p \in DOMAIN g.files /\ (\E k \in Locks : ks[k] = g.ids[p])
        /\ ~Free(g, p)
        /\ \A a \in {Metadata(g, p), ReadFile(g, p), OpenRefusal(g, p)} : a = "NotFound"

=============================================================================
