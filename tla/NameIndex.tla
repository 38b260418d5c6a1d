----------------------------- MODULE NameIndex -----------------------------
(***************************************************************************)
(* The destination index of one directory (names.rs, and the rows of       *)
(* store.rs): which stored entry a planned name means on a filesystem that *)
(* may fold names.  Three indexes follow the same run over the same        *)
(* directory: one that stays in memory, one that starts in memory and      *)
(* migrates to the store when it outgrows index_inline, and one that was   *)
(* built from a long listing with its sorted families.                     *)
(*                                                                         *)
(* A name is a number (its byte order); Fold gives the directory slot a    *)
(* name reaches.  Only this run changes the directory.                     *)
(***************************************************************************)
EXTENDS Naturals, Sequences, FiniteSets, FiniteSetsExt, SequencesExt

CONSTANTS
    Names, Fold,       \* the names; name -> slot
    Ids,               \* object identities; a freed one may be used again
    Starts,            \* the directories tried: slot -> entry
    Hints,             \* the hints tried: id -> the d_ino its entries are listed with
    WeakSets,          \* the sets of objects without a trusted identity tried
    IndexInline, MaxCandidates,   \* Thresholds
    Resume,            \* whether the run resumes an earlier one
    Steps, Faults,     \* bounds: entries of the run; failed calls
    None

VARIABLES
    disk,              \* slot -> [name, id] or None
    weak, hint,        \* the filesystem: objects without a trusted identity; d_ino
    renames,           \* whether a replacement takes the planned spelling
    inline, moving, spilled,   \* the three indexes
    plan,              \* the planned name being copied, and the answers it got
    steps, faults

vars == <<disk, weak, hint, renames, inline, moving, spilled, plan, steps, faults>>
world == <<weak, hint, renames>>

Slots == {Fold[n] : n \in Names}
OnDisk == {disk[s].id : s \in {t \in Slots : disk[t] # None}}
Listed == {disk[s].name : s \in {t \in Slots : disk[t] # None}}

\* DirHandle::metadata: the object a name reaches, None when nothing is there.
Metadata(n) == IF disk[Fold[n]] = None THEN None ELSE disk[Fold[n]].id
Strong(id) == id \notin weak
StrongOf(id) == IF id # None /\ Strong(id) THEN id ELSE None

\* A plain publication's spellings: the stored name, if any, and the planned one.
Spellings(stored, planned) == IF stored = None THEN {planned} ELSE {stored, planned}

NoOwners == [n \in Names |-> None]
LeastName(S) == CHOOSE n \in S : \A m \in S : n <= m

\* choose(): the spelling learned first, else the least; several spellings are
\* one entry only when this run wrote every one of them for the same target.
Choose(S, learned, owners) ==
    LET known == {s \in S : learned[s] # None}
        chosen == IF known = {} THEN LeastName(S)
                  ELSE CHOOSE s \in known : \A t \in known :
                         learned[s] < learned[t] \/ (learned[s] = learned[t] /\ s <= t)
    IN  IF Cardinality(S) > 1 /\ (owners[chosen] = None \/ \E s \in S : owners[s] # owners[chosen])
        THEN None ELSE chosen

\* What resolve() answers.
Absent == [kind |-> "absent", stored |-> None]
Unresolvable == [kind |-> "unresolvable", stored |-> None]
Error == [kind |-> "error", stored |-> None]
Entry(n) == [kind |-> "entry", stored |-> n]
Picked(S, learned, owners) ==
    IF S = {} \/ Choose(S, learned, owners) = None THEN Unresolvable
    ELSE Entry(Choose(S, learned, owners))

----------------------------------------------------------------------------
\* The index in memory

EmptyInline(listing) ==
    [form |-> "inline", listing |-> listing, table |-> None, owners |-> NoOwners,
     pending |-> << >>, learned |-> NoOwners, nextSeq |-> 0, wiped |-> << >>]

\* apply(): the replaced object loses every spelling, the published one gains its own.
Apply(table, p) ==
    LET wiped == IF p.replaced = None THEN table ELSE [table EXCEPT ![p.replaced] = {}]
    IN  IF p.published = None THEN wiped ELSE [wiped EXCEPT ![p.published] = @ \cup p.spellings]

\* build_table(): every listed name, then the publications so far, in order.
BuiltTable(x) ==
    FoldLeft(Apply, [id \in Ids |-> {n \in x.listing : Metadata(n) = id /\ Strong(id)}], x.pending)
WithTable(x) == IF x.table # None THEN x
                ELSE [x EXCEPT !.table = BuiltTable(x), !.pending = << >>]

\* Inline::resolve, with the index it leaves.
ResolveInline(x, planned) ==
    LET id == Metadata(planned)
        built == WithTable(x)
    IN  IF planned \in x.listing
        THEN [ans |-> IF id = None THEN Error ELSE Entry(planned), x |-> x]
        ELSE IF id = None THEN [ans |-> Absent, x |-> x]
        ELSE IF ~ Strong(id) THEN [ans |-> Unresolvable, x |-> x]
        ELSE [ans |-> Picked(built.table[id], built.learned, built.owners), x |-> built]

\* Inline::record.
RecordInline(x, target, stored, planned, replaced, published) ==
    LET names == Spellings(stored, planned)
        new == stored # None /\ x.learned[stored] = None
        p == [replaced |-> replaced, published |-> published, spellings |-> names]
    IN  [x EXCEPT
          !.listing = @ \cup names,
          !.owners = [n \in Names |-> IF n \in names THEN target ELSE @[n]],
          !.learned = IF new THEN [@ EXCEPT ![stored] = x.nextSeq] ELSE @,
          !.nextSeq = IF new THEN @ + 1 ELSE @,
          !.wiped = IF replaced = None THEN @ ELSE Append(@, replaced),
          !.table = IF @ = None THEN None ELSE Apply(@, p),
          !.pending = IF x.table = None THEN Append(@, p) ELSE @]

----------------------------------------------------------------------------
\* The index in families and rows

\* An `ids` row: identity, spelling (None: a wipe) -> sequence; 0 is no row.
NoRows == [id \in Ids |-> [n \in Names \cup {None} |-> 0]]

\* for_dir over a long listing: the names, and their hints where there is one.
FromListing(listing) ==
    [form |-> "hybrid", names |-> listing,
     inodes |-> IF \A n \in listing : hint[Metadata(n)] = None THEN None
                ELSE {<<hint[Metadata(n)], n>> : n \in {m \in listing : hint[Metadata(m)] # None}},
     identity |-> {}, built |-> FALSE,
     names2 |-> {}, owners |-> NoOwners, learned |-> NoOwners, ids |-> NoRows,
     nextSeq |-> 0, nextIds |-> 1]

\* candidates(): the names at sequence 0 and the rows at theirs, one each,
\* without those older than the latest wipe.
Candidates(tier1, rows) ==
    {n \in Names : (n \in tier1 \/ rows[n] > 0) /\ rows[n] >= rows[None]}

\* verify(): those that still name the object.
Verify(id, found) == {n \in found : Metadata(n) = id}

\* Step 4: the names listed with the object's hint, when there are few enough.
Hinted(x, id) == {n \in Names : <<id, n>> \in x.inodes}
ByHint(x, id) ==
    IF x.inodes # None /\ Cardinality(Hinted(x, id)) <= MaxCandidates
    THEN Verify(id, Candidates(Hinted(x, id), x.ids[id]))
    ELSE {}

\* identity_pass: every listed name, or every published one of a migrated index.
IdentityPass(x) ==
    LET all == IF x.names # None THEN x.names ELSE x.names2
    IN  [x EXCEPT !.built = TRUE,
                  !.identity = {<<Metadata(n), n>> : n \in {m \in all : Metadata(m) # None /\ Strong(Metadata(m))}}]
WithIdentity(x) == IF x.built THEN x ELSE IdentityPass(x)

\* Hybrid::resolve, steps 1 to 5.
ResolveHybrid(x, planned) ==
    LET id == Metadata(planned)
        known == planned \in x.names2 \/ (x.names # None /\ planned \in x.names)
        hinted == ByHint(x, id)
        built == WithIdentity(x)
    IN  IF known THEN [ans |-> IF id = None THEN Error ELSE Entry(planned), x |-> x]
        ELSE IF id = None THEN [ans |-> Absent, x |-> x]
        ELSE IF ~ Strong(id) THEN [ans |-> Unresolvable, x |-> x]
        ELSE IF hinted # {} THEN [ans |-> Picked(hinted, x.learned, x.owners), x |-> x]
        ELSE [x |-> built,
              ans |-> Picked(Candidates({n \in Names : <<id, n>> \in built.identity}, x.ids[id]),
                             x.learned, x.owners)]

\* Hybrid::write: names, owners, learned, the wipe row, then the spelling rows.
RecordHybrid(x, target, stored, planned, replaced, published) ==
    LET names == Spellings(stored, planned)
        new == stored # None /\ x.learned[stored] = None
        wiping == IF replaced = None THEN 0 ELSE 1
        \* The stored spelling's row is written before the planned one's.
        seq(n) == x.nextIds + wiping + (IF n = planned /\ stored \notin {None, planned} THEN 1 ELSE 0)
    IN  [x EXCEPT
          !.names2 = @ \cup names,
          !.owners = [n \in Names |-> IF n \in names THEN target ELSE @[n]],
          !.learned = IF new THEN [@ EXCEPT ![stored] = x.nextSeq] ELSE @,
          !.nextSeq = IF new THEN @ + 1 ELSE @,
          !.ids = [id \in Ids |-> [n \in Names \cup {None} |->
                     IF id = replaced /\ n = None THEN x.nextIds
                     ELSE IF id = published /\ n \in names THEN seq(n) ELSE @[id][n]]],
          !.nextIds = @ + wiping + (IF published = None THEN 0 ELSE Cardinality(names))]

\* copy_rows: the wipes of a built table are written before its spellings, in
\* the table's own order; without a table the pending publications are replayed.
\* mutant: the wipes of a built table are not copied.
CopiedIds_unwiped(x) ==
    IF x.table # None
    THEN [at |-> 2,
          ids |-> [id \in Ids |-> [n \in Names \cup {None} |->
                     IF n = None THEN 0
                     ELSE IF n \in x.table[id] THEN 1 ELSE 0]]]
    ELSE [at |-> 1, ids |-> NoRows]
Replayed(acc, p) ==
    LET at == acc.at + (IF p.replaced = None THEN 0 ELSE 1) IN
    [at |-> at + (IF p.published = None THEN 0 ELSE Cardinality(p.spellings)),
     ids |-> [id \in Ids |-> [n \in Names \cup {None} |->
                IF id = p.replaced /\ n = None THEN acc.at
                ELSE IF id = p.published /\ n \in p.spellings THEN at ELSE acc.ids[id][n]]]]
CopiedIds(x) ==
    IF x.table = None THEN FoldLeft(Replayed, [at |-> 1, ids |-> NoRows], x.pending)
    ELSE LET after == Len(x.wiped) + 1
             spelled == Cardinality({<<id, n>> \in Ids \X Names : n \in x.table[id]})
         IN  [at |-> after + spelled,
              ids |-> [id \in Ids |-> [n \in Names \cup {None} |->
                         IF n = None
                         THEN FoldLeft(LAMBDA m, i : IF x.wiped[i] = id THEN i ELSE m, 0,
                                       [i \in 1 .. Len(x.wiped) |-> i])
                         ELSE IF n \in x.table[id] THEN after ELSE 0]]]

Migrated(x) ==
    [form |-> "hybrid", names |-> None, inodes |-> None, identity |-> {}, built |-> FALSE,
     names2 |-> x.listing, owners |-> x.owners, learned |-> x.learned,
     ids |-> CopiedIds(x).ids, nextSeq |-> x.nextSeq, nextIds |-> CopiedIds(x).at]

\* record_publication on an index with a site.
Record(x, target, stored, planned, replaced, published) ==
    IF x.form = "hybrid" THEN RecordHybrid(x, target, stored, planned, replaced, published)
    ELSE LET y == RecordInline(x, target, stored, planned, replaced, published)
         IN  IF Cardinality(y.listing) > IndexInline THEN Migrated(y) ELSE y

ResolveAny(x, planned) ==
    IF x.form = "hybrid" THEN ResolveHybrid(x, planned) ELSE ResolveInline(x, planned)

----------------------------------------------------------------------------
\* The run

\* copy_one resolves its planned name before anything else.
Resolve(planned) ==
    /\ plan = None /\ steps < Steps
    /\ LET a == ResolveInline(inline, planned)
           b == ResolveAny(moving, planned)
           c == ResolveAny(spilled, planned)
       IN  /\ inline' = a.x /\ moving' = b.x /\ spilled' = c.x
           /\ plan' = [name |-> planned, inline |-> a.ans, moving |-> b.ans, spilled |-> c.ans]
    /\ steps' = steps + 1
    /\ UNCHANGED <<disk, world, faults>>

\* A stat fails while a table or a family is built: nothing is remembered, and
\* the file is reported.
StatFails(planned) ==
    /\ plan = None /\ steps < Steps /\ faults < Faults
    /\ \/ ResolveInline(inline, planned).x # inline
       \/ ResolveAny(moving, planned).x # moving
       \/ ResolveAny(spilled, planned).x # spilled
    /\ plan' = [name |-> planned, inline |-> Error, moving |-> Error, spilled |-> Error]
    /\ steps' = steps + 1 /\ faults' = faults + 1
    /\ UNCHANGED <<disk, world, inline, moving, spilled>>

Target(planned) == planned
Allowed(stored) == inline.owners[stored] \in {None, Target(plan.name)}

\* The file is published as a new entry, or over the stored one: a new object,
\* or a hard link of one this run published here.
Published(id, stored, replaced) ==
    /\ inline' = RecordInline(inline, Target(plan.name), stored, plan.name, replaced, StrongOf(id))
    /\ moving' = Record(moving, Target(plan.name), stored, plan.name, replaced, StrongOf(id))
    /\ spilled' = Record(spilled, Target(plan.name), stored, plan.name, replaced, StrongOf(id))
Linkable == {disk[s].id : s \in {t \in Slots : disk[t] # None /\ inline.owners[disk[t].name] # None}}
NewObjects == (Ids \ OnDisk) \cup {id \in Linkable : Strong(id)}
PublishNew(id) ==
    /\ plan # None /\ plan.inline = Absent /\ id \in NewObjects
    /\ disk' = [disk EXCEPT ![Fold[plan.name]] = [name |-> plan.name, id |-> id]]
    /\ Published(id, None, None)
    /\ plan' = None
    /\ UNCHANGED <<world, steps, faults>>
PublishOver(id) ==
    /\ plan # None /\ plan.inline.kind = "entry" /\ id \in NewObjects
    /\ LET stored == plan.inline.stored
           slot == Fold[plan.name]
       IN  /\ Allowed(stored) /\ id # disk[slot].id
           /\ disk' = [disk EXCEPT ![slot] =
                         [name |-> IF renames THEN plan.name ELSE @.name, id |-> id]]
           /\ Published(id, stored, StrongOf(disk[slot].id))
    /\ plan' = None
    /\ UNCHANGED <<world, steps, faults>>

\* A resumed run finds the file complete and records it as its own.
Keep ==
    /\ Resume /\ plan # None /\ plan.inline.kind = "entry" /\ Allowed(plan.inline.stored)
    /\ Published(disk[Fold[plan.name]].id, plan.inline.stored, None)
    /\ plan' = None
    /\ UNCHANGED <<disk, world, steps, faults>>

\* Skipped, refused or failed: nothing is recorded.
Leave ==
    /\ plan # None /\ plan' = None
    /\ UNCHANGED <<disk, world, inline, moving, spilled, steps, faults>>

----------------------------------------------------------------------------
Init ==
    /\ disk \in Starts /\ weak \in WeakSets /\ hint \in Hints /\ renames \in BOOLEAN
    /\ inline = EmptyInline(Listed)
    /\ moving = IF Cardinality(Listed) > IndexInline THEN FromListing(Listed) ELSE EmptyInline(Listed)
    /\ spilled = FromListing(Listed)
    /\ plan = None /\ steps = 0 /\ faults = 0

Next ==
    \/ \E n \in Names : Resolve(n) \/ StatFails(n)
    \/ \E id \in Ids : PublishNew(id) \/ PublishOver(id)
    \/ Keep
    \/ Leave

Spec == Init /\ [][Next]_vars

----------------------------------------------------------------------------
\* What the index promises

TypeOK ==
    /\ disk \in [Slots -> [name : Names, id : Ids] \cup {None}]
    /\ \A s \in Slots : disk[s] # None => Fold[disk[s].name] = s
    /\ inline.form = "inline" /\ spilled.form = "hybrid"
    /\ moving.form = "hybrid" \/ Cardinality(moving.listing) <= IndexInline
    /\ inline.table = None \/ inline.pending = << >>

\* The three forms give the same answer to every question of the run: the
\* hints, the lazy families, the wipe rows and the migration change what a
\* lookup costs and nothing else.
AnswersAgree ==
    plan # None => plan.moving = plan.inline /\ plan.spilled = plan.inline

\* The same where every hint is its object's own or none is given, even for a
\* run that records what an earlier one left.
HonestHintsAgree ==
    (hint = [id \in Ids |-> id] \/ hint = [id \in Ids |-> None]) => AnswersAgree

\* ... and the same owner for every name this run wrote.
OwnersAgree == inline.owners = moving.owners /\ inline.owners = spilled.owners

\* Whatever the hints say, an entry the run may replace is a name that reaches
\* the very slot the planned name reaches: no other entry is overwritten.
EntryIsRight ==
    plan # None =>
        \A a \in {plan.inline, plan.moving, plan.spilled} :
            a.kind = "entry" /\ Allowed(a.stored) => Fold[a.stored] = Fold[plan.name]
=============================================================================
