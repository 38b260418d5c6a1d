---------------------------- MODULE DirContract ----------------------------
(***************************************************************************)
(* What `DirHandle`, `FileHandle` and `LockFile` promise                   *)
(* (crates/flux-fs/src/fs.rs, crates/flux-fs/src/lock.rs).                 *)
(*                                                                         *)
(* Directories, files and links are objects.  A name is an entry of a      *)
(* directory object and leads to an object; a handle holds an object, never*)
(* a name, so what happens to a name does not change what a handle holds.  *)
(* A call answers "ok" and has its effect, or answers one of the refusals  *)
(* that apply to it and changes nothing.  Any call may fail for a reason   *)
(* of its own ("failed"): an I/O error.                                    *)
(*                                                                         *)
(* `ns` is the namespace:                                                  *)
(*   kind  object -> "dir", "file", "link" or "other" (named objects only) *)
(*   data  object -> a file's bytes, or a link's payload                   *)
(*   attr  object -> the times and permissions last set                    *)
(*   tree  directory object -> its entries, name -> object                 *)
(*   held  directory handle -> the object it holds                         *)
(*   wr    writer -> the object it holds and where it writes next          *)
(*   lk    lock handle -> the object it holds                              *)
(*   own   object -> the lock handle that has it locked                    *)
(*   gone  entries whose removal waits for a lock handle to close          *)
(***************************************************************************)
EXTENDS Integers, FiniteSets, Sequences, SequencesExt, Functions, TLC

CONSTANTS
    None,
    Fold,             \* name -> the spelling it is looked up by
    ReplaceRenames,   \* a replacing rename gives the entry the new spelling
    LegacyDelete,     \* a file removed under an open lock keeps its name
    Calls             \* the calls that are made

VARIABLES ns, ans

vars == <<ns, ans>>

----------------------------------------------------------------------------

Put(f, k, v) == (k :> v) @@ f
Drop(f, ks) == [k \in DOMAIN f \ ks |-> f[k]]

Entries(n, d) == IF d \in DOMAIN n.tree THEN n.tree[d] ELSE << >>

\* The stored spellings a name is looked up as: one of the directory's, or none.
Spelled(n, d, name) == {m \in DOMAIN Entries(n, d) : Fold[m] = Fold[name]}

\* The spelling of an entry that is there, or the one asked for.
Leaf(n, d, name) ==
    IF name \in DOMAIN Entries(n, d) \/ Spelled(n, d, name) = {} THEN name
    ELSE CHOOSE m \in Spelled(n, d, name) : TRUE

Taken(n, d, name) == Spelled(n, d, name) # {}
Gone(n, d, name) == <<d, Leaf(n, d, name)>> \in n.gone
Seen(n, d, name) == Taken(n, d, name) /\ ~Gone(n, d, name)
ObjectAt(n, d, name) == n.tree[d][Leaf(n, d, name)]
KindAt(n, d, name) == IF Seen(n, d, name) THEN n.kind[ObjectAt(n, d, name)] ELSE "none"

\* The names an object has, entries that wait to be removed not counted.
Links(n, o) ==
    {e \in UNION {{d} \X DOMAIN n.tree[d] : d \in DOMAIN n.tree} :
        n.tree[e[1]][e[2]] = o /\ e \notin n.gone}

\* Objects that no entry leads to are gone, whatever handle still holds them.
Named(n) == UNION {Range(n.tree[d]) : d \in DOMAIN n.tree}

Swept(n) ==
    LET dead == DOMAIN n.kind \ (Named(n) \union {0}) IN
    [n EXCEPT !.kind = Drop(@, dead), !.data = Drop(@, dead),
              !.attr = Drop(@, dead), !.tree = Drop(@, dead)]

Bind(n, d, name, o) == [n EXCEPT !.tree[d] = Put(@, name, o)]
Unbind(n, d, name) == [n EXCEPT !.tree[d] = Drop(@, {name})]

\* A new object, numbered after every object there has been.
Made(n, d, name, kind, data) ==
    LET o == n.next + 1 IN
    Bind([n EXCEPT !.next = o, !.kind = Put(@, o, kind), !.data = Put(@, o, data),
                   !.attr = Put(@, o, None),
                   !.tree = IF kind = "dir" THEN Put(@, o, << >>) ELSE @],
         d, name, o)

Overlay(old, p, new) ==
    [i \in 1..(IF Len(old) < p + Len(new) THEN p + Len(new) ELSE Len(old)) |->
        IF i \in p + 1..p + Len(new) THEN new[i - p] ELSE IF i <= Len(old) THEN old[i] ELSE 0]

----------------------------------------------------------------------------
(* The refusals that apply to a call.                                      *)

Because(refusal, applies) == IF applies THEN {refusal} ELSE {}

\* create_dir, create_new, create_symlink, create_lock: the name must be free,
\* "by anything - a file, a directory or a link".
RefuseCreate(n, d, name) ==
    Because("AlreadyExists", Taken(n, d, name)) \union Because("NotFound", d \notin DOMAIN n.tree)

\* open_lock, read_file, open_read: a regular file, never through a link.
RefuseOpen(n, d, name) ==
    CASE KindAt(n, d, name) = "none"  -> {"NotFound"}
      [] KindAt(n, d, name) = "link"  -> {"SafetyRejected"}
      [] KindAt(n, d, name) = "dir"   -> {"IsADirectory"}
      [] KindAt(n, d, name) = "other" -> {"DestinationError"}
      [] OTHER -> {}

RefuseExisting(n, d, name, expected) ==
    Because("InvalidData", expected = None) \union RefuseOpen(n, d, name) \union
    (IF KindAt(n, d, name) # "file" THEN {}
     ELSE Because("SafetyRejected", Cardinality(Links(n, ObjectAt(n, d, name))) # 1) \union
          Because("InvalidData", ObjectAt(n, d, name) # expected))

RefuseOpenDir(n, d, name) ==
    CASE KindAt(n, d, name) = "dir"  -> {}
      [] KindAt(n, d, name) = "link" -> {"SafetyRejected"}
      [] OTHER -> {"DestinationError"}

RefuseRemove(n, d, name) ==
    Because("NotFound", ~Seen(n, d, name)) \union Because("IsADirectory", KindAt(n, d, name) = "dir")

RefuseRemoveDir(n, d, name) ==
    CASE ~Seen(n, d, name)            -> {"NotFound"}
      [] KindAt(n, d, name) # "dir"   -> {"NotADirectory"}
      [] Entries(n, ObjectAt(n, d, name)) # << >> -> {"DirectoryNotEmpty"}
      [] OTHER -> {}

RefuseHardlink(n, c) ==
    RefuseCreate(n, n.held[c.h], c.name) \union
    Because("NotFound", ~Seen(n, n.held[c.other], c.from)) \union
    Because("IsADirectory", KindAt(n, n.held[c.other], c.from) = "dir")

RefuseRename(n, c) ==
    Because("NotFound", ~Seen(n, n.held[c.h], c.name) \/ n.held[c.other] \notin DOMAIN n.tree) \union
    Because("AlreadyExists", c.op = "rename_no_replace" /\ Taken(n, n.held[c.other], c.to)) \union
    Because("IsADirectory", c.op = "rename_replace" /\ KindAt(n, n.held[c.other], c.to) = "dir")

Refusals(n, c) ==
    CASE c.op \in {"create_dir", "create_new", "create_symlink", "create_lock"} ->
            RefuseCreate(n, n.held[c.h], c.name)
      [] c.op = "open_dir"        -> RefuseOpenDir(n, n.held[c.h], c.name)
      [] c.op = "open_existing"   -> RefuseExisting(n, n.held[c.h], c.name, c.expected)
      [] c.op = "open_lock"       -> RefuseOpen(n, n.held[c.h], c.name)
      [] c.op = "remove_file"     -> RefuseRemove(n, n.held[c.h], c.name)
      [] c.op = "remove_dir"      -> RefuseRemoveDir(n, n.held[c.h], c.name)
      [] c.op = "create_hardlink" -> RefuseHardlink(n, c)
      [] c.op \in {"rename_no_replace", "rename_replace"} -> RefuseRename(n, c)
      \* cuts a tail, never extends
      [] c.op = "truncate_to" ->
            Because("InvalidInput", n.wr[c.w].obj \in DOMAIN n.data /\ c.len > Len(n.data[n.wr[c.w].obj]))
      [] c.op = "try_lock" ->
            Because("held", \E k \in DOMAIN n.lk : k # c.k /\ n.lk[c.k] \in DOMAIN n.own
                                                     /\ n.own[n.lk[c.k]] = k)
      [] OTHER -> {}

----------------------------------------------------------------------------
(* What the reading calls answer.                                          *)

\* metadata: the object at the name itself, a link as a link.
Stat(n, d, name) ==
    LET o == ObjectAt(n, d, name) IN
    IF ~Seen(n, d, name) THEN "NotFound"
    ELSE <<n.kind[o], o, Len(n.data[o]), n.attr[o],
           IF n.kind[o] = "dir" THEN 1 ELSE Cardinality(Links(n, o))>>

\* read_link: a link's payload, and nothing else.
LinkAt(n, d, name) ==
    CASE ~Seen(n, d, name)            -> "NotFound"
      [] KindAt(n, d, name) # "link"  -> "InvalidInput"
      [] OTHER                        -> n.data[ObjectAt(n, d, name)]

\* read_dir: every entry once, with the type of the name itself.
Listing(n, d) == {<<name, n.kind[n.tree[d][name]], n.tree[d][name]>> : name \in DOMAIN Entries(n, d)}

----------------------------------------------------------------------------
(* The effect of a call that is not refused.                               *)

Removed(n, d, name) ==
    LET e == <<d, Leaf(n, d, name)>> IN
    IF LegacyDelete /\ \E k \in DOMAIN n.lk : n.lk[k] = ObjectAt(n, d, name)
    THEN [n EXCEPT !.gone = @ \union {e}]
    ELSE Swept(Unbind(n, d, e[2]))

\* Two names of one object: the rename changes nothing.
Renamed(n, c) ==
    LET d == n.held[c.h]
        e == n.held[c.other]
        o == ObjectAt(n, d, c.name)
        to == IF ReplaceRenames /\ c.op = "rename_replace" THEN c.to ELSE Leaf(n, e, c.to)
    IN  IF Seen(n, e, c.to) /\ ObjectAt(n, e, c.to) = o THEN n
        ELSE Swept(Bind(Unbind(IF Taken(n, e, c.to) THEN Unbind(n, e, Leaf(n, e, c.to)) ELSE n,
                               d, Leaf(n, d, c.name)),
                        e, to, o))

\* The last lock handle on an object closes: its lock goes, and so do the entries
\* that waited for it.
LockClosed(n, k) ==
    LET o == n.lk[k]
        m == [n EXCEPT !.lk[k] = None,
                       !.own = IF o \in DOMAIN @ /\ @[o] = k THEN Drop(@, {o}) ELSE @]
        waiting == {e \in m.gone : m.tree[e[1]][e[2]] = o}
    IN  IF \E j \in DOMAIN m.lk : m.lk[j] = o \/ waiting = {} THEN m
        ELSE Swept([m EXCEPT !.gone = @ \ waiting,
                             !.tree = [d \in DOMAIN @ |->
                                Drop(@[d], {e[2] : e \in {w \in waiting : w[1] = d}})]])

Wrote(n, c) ==
    LET w == n.wr[c.w] IN
    IF w.obj \notin DOMAIN n.data THEN n
    ELSE LET p == IF w.pos = None THEN Len(n.data[w.obj]) ELSE w.pos IN
         [n EXCEPT !.data[w.obj] = Overlay(@, p, c.bytes),
                   !.wr[c.w].pos = IF w.pos = None THEN None ELSE p + Len(c.bytes)]

Truncated(n, c) ==
    LET w == n.wr[c.w] IN
    [n EXCEPT !.data = IF w.obj \in DOMAIN @ THEN [@ EXCEPT ![w.obj] = SubSeq(@, 1, c.len)] ELSE @,
              !.wr[c.w].pos = c.len]

After(n, c) ==
    CASE c.op = "create_dir" ->
            [Made(n, n.held[c.h], c.name, "dir", << >>) EXCEPT !.held[c.into] = n.next + 1]
      [] c.op = "create_new" ->
            [Made(n, n.held[c.h], c.name, "file", << >>) EXCEPT
                !.wr[c.w] = [obj |-> n.next + 1, pos |-> None]]
      [] c.op = "create_symlink" -> Made(n, n.held[c.h], c.name, "link", c.payload)
      [] c.op = "create_lock" ->
            [Made(n, n.held[c.h], c.name, "file", << >>) EXCEPT !.lk[c.k] = n.next + 1]
      [] c.op = "open_dir" -> [n EXCEPT !.held[c.into] = ObjectAt(n, n.held[c.h], c.name)]
      [] c.op = "open_existing" -> [n EXCEPT !.wr[c.w] = [obj |-> c.expected, pos |-> 0]]
      [] c.op = "open_lock" -> [n EXCEPT !.lk[c.k] = ObjectAt(n, n.held[c.h], c.name)]
      [] c.op = "remove_file" -> Removed(n, n.held[c.h], c.name)
      [] c.op = "remove_dir" -> Swept(Unbind(n, n.held[c.h], Leaf(n, n.held[c.h], c.name)))
      [] c.op = "create_hardlink" ->
            Bind(n, n.held[c.h], c.name, ObjectAt(n, n.held[c.other], c.from))
      [] c.op \in {"rename_no_replace", "rename_replace"} -> Renamed(n, c)
      [] c.op = "write" -> Wrote(n, c)
      [] c.op = "set_times" ->
            [n EXCEPT !.attr = IF n.wr[c.w].obj \in DOMAIN @ THEN [@ EXCEPT ![n.wr[c.w].obj] = c.time] ELSE @]
      [] c.op = "truncate_to" -> Truncated(n, c)
      [] c.op = "drop_writer" -> [n EXCEPT !.wr[c.w] = None]
      [] c.op = "try_lock" -> [n EXCEPT !.own = Put(@, n.lk[c.k], c.k)]
      [] c.op = "write_at_start" ->
            [n EXCEPT !.data = IF n.lk[c.k] \in DOMAIN @ THEN [@ EXCEPT ![n.lk[c.k]] = c.bytes] ELSE @]
      [] c.op = "close_lock" -> LockClosed(n, c.k)

\* A call through a handle that is open.
Possible(n, c) ==
    /\ "h" \in DOMAIN c => n.held[c.h] # None
    /\ "other" \in DOMAIN c => n.held[c.other] # None
    /\ c.op \in {"write", "set_times", "truncate_to", "drop_writer"} => n.wr[c.w] # None
    /\ c.op \in {"try_lock", "write_at_start", "close_lock"} => n.lk[c.k] # None

\* `n` is the namespace before the call and `m` the one after it.
Refuse(n, m, c) == ans' \in Refusals(n, c) \union {"failed"} /\ m = n

\* A record is written in place and then cut, so a failure between the two leaves
\* the longer tail of the old one.
HalfWritten(n, m, c) ==
    /\ c.op = "write_at_start" /\ ans' = "failed"
    /\ n.lk[c.k] \in DOMAIN n.data
    /\ m = [n EXCEPT !.data[n.lk[c.k]] = Overlay(@, 0, c.bytes)]

Accept(n, m, c) == ans' = "ok" /\ Refusals(n, c) = {} /\ m = After(n, c)

\* What the call may do in the step from `n` to `m`.
Does(n, m, c) == Possible(n, c) /\ (Refuse(n, m, c) \/ HalfWritten(n, m, c) \/ Accept(n, m, c))

Next ==
    LET n == ns
        m == ns'
    IN  \E c \in Calls : Does(n, m, c)

Spec == [][Next]_vars
=============================================================================
