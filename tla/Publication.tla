---------------------------- MODULE Publication ----------------------------
(***************************************************************************)
(* How a tree copy publishes its files: tree.rs (copy_one, the batches,    *)
(* flush_batch, drain_batches), the claim store of flux-platform claims.rs *)
(* and the recovery of run/recover.rs.                                     *)
(*                                                                         *)
(* A run walks a fixed list of events (a file, entering and leaving a      *)
(* directory).  A file is planned, staged to a temporary and published by  *)
(* one rename.  Under Strict durability a note is stored before the rename *)
(* and turned into a claim after it; files are staged into the batch of    *)
(* their directory and a batch is published by one flush.  The process may *)
(* crash between any two steps, its lock may be lost, every call may fail  *)
(* and another process may change a destination entry.  The next run       *)
(* resumes: it first decides every note left behind.                       *)
(*                                                                         *)
(* Names that the destination folds together are one Class: one directory  *)
(* entry, one temporary.                                                   *)
(***************************************************************************)
EXTENDS Naturals, Sequences, FiniteSets, SequencesExt

CONSTANTS
    Target,     \* the files of the source; a target stands for its planned name too
    Spelling,   \* further spellings an entry may be stored under
    Entry,      \* the destination's entries: classes of names it folds together
    Dir,        \* the directories of the tree
    Root,       \* the first of them
    ClassOf,    \* [Target \cup Spelling -> Entry]
    FoldOf,     \* [Target -> a value]: what tree.rs folded() makes of the name
    DirOf,      \* [Target -> Dir]
    Script,     \* the walk: records with kind "file", "dir" or "end" and a field at
    Before,     \* [Entry -> Spelling \cup Target \cup {None}]: the entries there at first
    Large,      \* the targets of at least BatchPolicy.bytes
    Logged,     \* the targets of a length that is checkpointed
    Strict,     \* Durability::Strict, in a store with the prepared table
    BatchFiles, \* BatchPolicy.files; 1 turns batching off
    WriterCap,  \* open_writers_cap
    Policy,     \* ExistingPolicy: "overwrite", "skip" or "update"
    MaxRuns, MaxFaults, MaxForeign, MaxLosses,  \* bounds on the environment
    None, Unknown, Other

VARIABLES
    dest,     \* [Entry -> [name, obj] or None]: the destination's directories
    temp,     \* [Entry -> object or None]: what is at the entry's temporary name
    claims,   \* [Name -> [target, created] or None]: the claim store
    notes,    \* [Name -> note or None]: its prepared table
    dirs,     \* the directories that exist
    run,      \* the memory of the running process
    out,      \* what the run has reported
    env       \* the lock, and what is left of the environment's bounds

vars == <<dest, temp, claims, notes, dirs, run, out, env>>

Name == Target \cup Spelling

\* An object: the target whose bytes it holds (or another process's) and the run that wrote it.
Object == [by : Target \cup {Other}, n : 0..(MaxRuns + MaxForeign)]

Claim == [target : Target, created : BOOLEAN]
Note == [target : Target, id : Object \cup {Unknown}, replace : BOOLEAN]

\* A staged file waiting to be published; job is the file copy_one is working on.
\* old is the object a replacement found in its entry; a new file has none.
Pending == [t : Target, key : Name, old : Object \cup {None}, id : Object \cup {Unknown}]
NoJob == [t |-> None, key |-> None, old |-> None, id |-> Unknown]
Replaces(p) == p.old # None

\* A settled note: commit it as a claim, or discard it.
Op == [p : Pending, commit : BOOLEAN]

NoFlush == [dir |-> Root, todo |-> <<>>, noted |-> <<>>, ops |-> <<>>,
            why |-> "none", bad |-> {}, held |-> None, back |-> "walk"]

\* NameIndex, for one directory: its listing, the spellings of each object (read once, when first needed), the
\* publications not yet in that table, who wrote a spelling, and the stored names learned, in order.
NoNames == [listing |-> {}, built |-> FALSE, table |-> {}, log |-> <<>>,
            owner |-> [n \in Name |-> None], learned |-> <<>>]

Listing(d) == {dest[c].name : c \in {e \in Entry : dest[e] # None /\ \E t \in Target : DirOf[t] = d /\ ClassOf[t] = e}}
Listed(d) == [NoNames EXCEPT !.listing = Listing(d)]

Idle == [pc |-> "off", at |-> 1, stack |-> <<Root>>, fresh |-> {},
         batch |-> [d \in Dir |-> <<>>], names |-> [d \in Dir |-> NoNames],
         job |-> NoJob, fl |-> NoFlush, mode |-> "publish", stop |-> None,
         seen |-> FALSE, resume |-> FALSE, made |-> {}, kept |-> None]

Silent == [said |-> [t \in Target |-> {}], left |-> {}]

Init ==
    /\ dest = [c \in Entry |-> IF Before[c] = None THEN None
                               ELSE [name |-> Before[c], obj |-> [by |-> Other, n |-> 0]]]
    /\ temp = [c \in Entry |-> None]
    /\ claims = [n \in Name |-> None]
    /\ notes = [n \in Name |-> None]
    /\ dirs = {DirOf[t] : t \in {u \in Target : Before[ClassOf[u]] # None}} \cup {Root}
    /\ run = Idle
    /\ out = Silent
    /\ env = [lock |-> TRUE, runs |-> 0, faults |-> MaxFaults, foreign |-> MaxForeign,
              losses |-> MaxLosses, touched |-> {}]

-----------------------------------------------------------------------------
\* The environment's answers.

Calm == UNCHANGED env
Fault == env.faults > 0 /\ env' = [env EXCEPT !.faults = @ - 1]

Said(o, ts, verdict) ==
    [o EXCEPT !.said = [t \in Target |-> IF t \in ts THEN @[t] \cup {verdict} ELSE @[t]]]
Left(o, ts) == [o EXCEPT !.left = @ \cup {ClassOf[t] : t \in ts}]

TargetsOf(ps) == {ps[i].t : i \in 1..Len(ps)}

\* The walk goes on to the next event.
Onward(r) == [r EXCEPT !.pc = "walk", !.at = @ + 1, !.job = NoJob]

\* A stop ends the walk; the drain that follows cleans up as the stop's class says.
Halted(r, cause) ==
    [r EXCEPT !.pc = "drain", !.job = NoJob, !.fl = NoFlush,
              !.stop = IF @ = None THEN cause ELSE @,
              !.mode = IF cause = "lost" THEN "keep" ELSE IF cause = "wal" THEN @ ELSE "remove",
              !.seen = @ \/ cause = "lost"]

\* A flush of directory d, going on at back when it is done.
Flushing(r, d, back) == [r EXCEPT !.pc = "flush", !.fl = [NoFlush EXCEPT !.dir = d, !.back = back]]
Back(r) == [r EXCEPT !.pc = IF r.fl.back = "next" THEN "walk" ELSE r.fl.back,
                     !.at = IF r.fl.back = "next" THEN @ + 1 ELSE @,
                     !.job = IF r.fl.back = "stage" THEN @ ELSE NoJob,
                     !.fl = NoFlush]

\* discard: the temporary of p is removed, unless the lock is lost or the removal fails; then it is a leftover.
Discard(p, gone) ==
    temp' = IF gone THEN [temp EXCEPT ![ClassOf[p.t]] = None] ELSE temp

\* mutant: the temporary is removed without asking the guard
Removal_unguarded(gone) == (gone /\ Calm) \/ (~gone /\ Fault)

\* The discard's outcome: with the lock held the removal may fail.
Removal(gone) == \/ gone /\ env.lock /\ Calm
                 \/ ~gone /\ env.lock /\ Fault
                 \/ ~gone /\ ~env.lock /\ Calm

-----------------------------------------------------------------------------
\* The claim store.

Holds(n, t) == claims[n] # None => claims[n].target = t

\* upgrade_own_claim / commit: the stored name's claim becomes Created, the planned name's is added if absent.
Committed(ps) ==
    [n \in Name |->
        IF \E p \in ps : p.key = n
        THEN [target |-> (CHOOSE p \in ps : p.key = n).t, created |-> TRUE]
        ELSE IF claims[n] = None /\ \E p \in ps : p.t = n THEN [target |-> n, created |-> TRUE]
        ELSE claims[n]]

\* No claim of another target is in the way of a commit, in the store or in the same transaction.
Committable(ps) ==
    /\ \A p \in ps : Holds(p.key, p.t) /\ Holds(p.t, p.t)
    /\ \A p, q \in ps : p.t # q.t => {p.key, p.t} \cap {q.key, q.t} = {}

\* apply_recovery: every operation in one transaction, or none.
Applied(ops) ==
    LET commits == {ops[i].p : i \in {j \in DOMAIN ops : ops[j].commit}}
        keys == {ops[i].p.key : i \in DOMAIN ops}
    IN  /\ Committable(commits)
        /\ claims' = Committed(commits)
        /\ notes' = [n \in Name |-> IF n \in keys THEN None ELSE notes[n]]

Refused(ops) == ~Committable({ops[i].p : i \in {j \in DOMAIN ops : ops[j].commit}})

NoteOf(p) == [target |-> p.t, id |-> p.id, replace |-> Replaces(p)]

-----------------------------------------------------------------------------
\* A run begins, and a resumed one decides the notes it finds.

Unfinished == run.stop # None \/ \E t \in Target : out.said[t] \cap {"failed", "unrecorded"} # {}

Begin ==
    /\ run.pc \in {"off", "refused"} \/ (run.pc = "ended" /\ Unfinished)
    /\ env.runs < MaxRuns
    /\ env' = [env EXCEPT !.runs = @ + 1, !.lock = TRUE]
    /\ run' = [Idle EXCEPT !.pc = IF \A n \in Name : notes[n] = None THEN "walk" ELSE "classify",
                           !.resume = env.runs > 0, !.names[Root] = Listed(Root)]
    /\ out' = Silent
    /\ UNCHANGED <<dest, temp, claims, notes, dirs>>

\* mutant: the row of a temporary that is gone comes first
Decide_goneFirst(t, d, r, replacement) ==
    IF t = None THEN "gone"
    ELSE IF d = None \/ replacement \/ t = r THEN "notRenamed"
    ELSE "uncertain"

\* The matrix: t is at the temporary's name, d in the entry, r the recorded identity.
Decide(t, d, r, replacement) ==
    IF d # None /\ r # Unknown /\ d = r THEN "renamed"
    ELSE IF t # None /\ (d = None \/ replacement \/ t = r) THEN "notRenamed"
    ELSE IF t = None /\ (d = None \/ r # Unknown) THEN "gone"
    ELSE "uncertain"

Verdict(n) ==
    LET c == ClassOf[n]
    IN  Decide(temp[c], IF dest[c] = None THEN None ELSE dest[c].obj, notes[n].id, notes[n].replace)

Noted == {n \in Name : notes[n] # None}

\* recover_publications, phase 1: every note is classified, nothing is changed.
Classify ==
    /\ run.pc = "classify"
    /\ run' = IF \E n \in Noted : Verdict(n) = "uncertain"
              THEN [run EXCEPT !.pc = "refused"]
              ELSE [run EXCEPT !.pc = "recover",
                               !.fl.ops = SetToSeq({[p |-> [t |-> notes[n].target, key |-> n,
                                                            old |-> None, id |-> notes[n].id],
                                                     commit |-> Verdict(n) = "renamed"] : n \in Noted})]
    /\ UNCHANGED <<dest, temp, claims, notes, dirs, out, env>>

\* Phase 2: one transaction. Its failure ends the run with nothing changed.
Recover ==
    /\ run.pc = "recover"
    /\ \/ Applied(run.fl.ops) /\ Calm /\ run' = [run EXCEPT !.pc = "walk", !.fl = NoFlush]
       \/ /\ (Refused(run.fl.ops) /\ Calm) \/ Fault
          /\ run' = [run EXCEPT !.pc = "refused", !.fl = NoFlush]
          /\ UNCHANGED <<claims, notes>>
    /\ UNCHANGED <<dest, temp, dirs, out>>

-----------------------------------------------------------------------------
\* The walk.

Batching == Strict /\ BatchFiles > 1

Event == Script[run.at]
Top == Last(run.stack)
Walking(kind) == run.pc = "walk" /\ run.at <= Len(Script) /\ Event.kind = kind

PendingTotal == FoldSeq(+, 0, [i \in 1..Len(run.stack) |-> Len(run.batch[run.stack[i]])])

\* The beat and the guard before a mutation: the stop they may end the step with.
Stops ==
    \/ /\ env.lock /\ Fault
       /\ run' = Halted(run, "beat")
    \/ /\ ~env.lock /\ Calm
       /\ run' = Halted(run, "lost")

\* enter_dir: a directory that is not there is created, and only then plans every name as new.
EnterDir ==
    /\ Walking("dir")
    /\ \/ Stops /\ UNCHANGED dirs
       \/ /\ env.lock /\ Calm
          /\ dirs' = dirs \cup {Event.at}
          /\ run' = Onward([run EXCEPT !.stack = Append(@, Event.at),
                                       !.names[Event.at] = Listed(Event.at),
                                       !.fresh = IF Event.at \in dirs THEN @ \ {Event.at} ELSE @ \cup {Event.at}])
    /\ UNCHANGED <<dest, temp, claims, notes, out>>

\* A directory's end publishes its batch before the claim store is flushed and the frame popped.
LeaveDir ==
    /\ Walking("end")
    /\ \/ /\ run.batch[Top] # <<>> /\ Calm
          /\ run' = Flushing(run, Top, "walk")
       \/ /\ run.batch[Top] = <<>>
          /\ \/ Stops
             \/ env.lock /\ Calm /\ run' = Onward([run EXCEPT !.stack = Front(@)])
    /\ UNCHANGED <<dest, temp, claims, notes, dirs, out>>

WalkEnds ==
    /\ run.pc = "walk" /\ run.at > Len(Script)
    /\ run' = [run EXCEPT !.pc = "drain"]
    /\ UNCHANGED <<dest, temp, claims, notes, dirs, out, env>>

\* What publishes before the file's name is resolved: the cap on open writers (from the bottom of the stack up),
\* a name the batch holds a fold of, and a batch's age, which may pass at any time.
FlushFirst ==
    /\ Walking("file")
    /\ Calm
    /\ \/ /\ PendingTotal >= WriterCap
          /\ LET i == CHOOSE i \in 1..Len(run.stack) :
                          /\ run.batch[run.stack[i]] # <<>>
                          /\ \A j \in 1..(i - 1) : run.batch[run.stack[j]] = <<>>
             IN  run' = Flushing(run, run.stack[i], "walk")
       \/ /\ Batching /\ run.batch[Top] # <<>>
          /\ run' = Flushing(run, Top, "walk")
    /\ UNCHANGED <<dest, temp, claims, notes, dirs, out>>

FoldPending(t) == \E p \in Range(run.batch[Top]) : FoldOf[p.t] = FoldOf[t]

\* resumed_complete and update_replaces, by what the object in the entry is: only a copy of t matches t's source.
Complete(t, obj) == obj.by = t
Skips(t, obj) == Policy = "skip" \/ (Policy = "update" /\ obj.by = t)

\* record_publication: the stored and the planned spelling are t's, and name the published object from now on.
Applies(tab, e) == {x \in tab : x[1] # e.old} \cup (IF e.id = Unknown THEN {} ELSE {<<e.id, n>> : n \in e.names})

Published(r, p, stored) ==
    LET d == DirOf[p.t]
        e == [old |-> p.old, id |-> p.id, names |-> {p.t} \cup stored]
    IN  IF d \in r.fresh THEN r
        ELSE [r EXCEPT !.names[d].listing = @ \cup e.names,
                       !.names[d].owner = [n \in Name |-> IF n \in e.names THEN p.t ELSE @[n]],
                       !.names[d].learned = @ \o SetToSeq(stored \ Range(@)),
                       !.names[d].table = IF r.names[d].built THEN Applies(@, e) ELSE @,
                       !.names[d].log = IF r.names[d].built THEN @ ELSE Append(@, e)]

StoredOf(p) == IF Replaces(p) THEN {p.key} ELSE {}

\* build_table: every listed name is read once, then the publications so far are applied.
Built(ix) ==
    LET read == {<<dest[ClassOf[n]].obj, n>> : n \in {m \in ix.listing : dest[ClassOf[m]] # None}}
    IN  IF ix.built THEN ix
        ELSE [ix EXCEPT !.built = TRUE, !.log = <<>>, !.table = FoldLeft(Applies, read, ix.log)]

\* choose: of an object's spellings the one learned first, else the least; several are one entry only when one target
\* of this run wrote them all.
Chosen(ix, spellings) ==
    LET learned == SelectSeq(ix.learned, LAMBDA n : n \in spellings)
        best == IF learned # <<>> THEN Head(learned) ELSE CHOOSE n \in spellings : TRUE
        writers == {ix.owner[n] : n \in spellings}
    IN  IF spellings = {} \/ (Cardinality(spellings) > 1 /\ (Cardinality(writers) > 1 \/ None \in writers))
        THEN {} ELSE {best}

\* resolve: "absent", or the set with the stored name of t's entry (empty: it failed), and the index afterwards.
Resolve(ix, t) ==
    LET e == dest[ClassOf[t]]
        b == Built(ix)
    IN  IF t \in ix.listing THEN [absent |-> FALSE, stored |-> IF e = None THEN {} ELSE {t}, ix |-> ix]
        ELSE IF e = None THEN [absent |-> TRUE, stored |-> {}, ix |-> ix]
        ELSE [absent |-> FALSE, stored |-> Chosen(b, {x[2] : x \in {y \in b.table : y[1] = e.obj}}), ix |-> b]

\* The entry is another target's: one of this run published it, even if its claim was not recorded, or a claim says so.
AnotherTargets(ix, stored, t) ==
    \/ ix.owner[stored] \notin {None, t}
    \/ run.resume /\ claims[stored] # None /\ claims[stored].target # t

\* copy_one: resolve the name, refuse another target's entry, resume, skip, or plan a new file or a replacement.
PlanFile ==
    /\ Walking("file")
    /\ PendingTotal < WriterCap
    /\ Batching => ~FoldPending(Event.at)
    /\ LET t == Event.at
           found == IF Top \in run.fresh THEN [absent |-> TRUE, stored |-> {}, ix |-> run.names[Top]]
                    ELSE Resolve(run.names[Top], t)
           r == [run EXCEPT !.names[Top] = found.ix]
           obj == dest[ClassOf[t]].obj
           stored == CHOOSE n \in found.stored : TRUE
           claim == claims[stored]
           job(key, old) == [r EXCEPT !.pc = "stage", !.job = [t |-> t, key |-> key, old |-> old, id |-> Unknown]]
       IN  IF found.absent THEN run' = job(t, None) /\ UNCHANGED out
           ELSE IF found.stored = {} \/ AnotherTargets(found.ix, stored, t)
           THEN run' = Onward(r) /\ out' = Said(out, {t}, "failed")
           ELSE IF run.resume /\ claim # None /\ claim.created /\ Complete(t, obj)
           THEN /\ run' = Onward(Published(r, [t |-> t, old |-> None, id |-> obj], {stored}))
                /\ out' = Said(out, {t}, "resumed")
           ELSE IF Skips(t, obj)
           THEN run' = Onward(r) /\ out' = Said(out, {t}, "skipped")
           ELSE run' = job(stored, obj) /\ UNCHANGED out
    /\ UNCHANGED <<dest, temp, claims, notes, dirs, env>>

Crowded == Batching /\ run.batch[Top] # <<>> /\ (run.job.t \in Large \/ temp[ClassOf[run.job.t]] # None)

\* stage_into_batch, 5(b) and decision 6: a large file, or one whose temporary name is taken, publishes what is pending.
MakeRoom ==
    /\ run.pc = "stage" /\ Crowded
    /\ run' = Flushing(run, Top, "stage")
    /\ UNCHANGED <<dest, temp, claims, notes, dirs, out, env>>

\* stage_file, step 1 to the gate: the leftover under the temporary's name is swept; a new name that is taken by now
\* is refused; the source may fail.
Sweep ==
    /\ run.pc = "stage" /\ ~Crowded
    /\ LET c == ClassOf[run.job.t]
       IN  \/ Stops /\ UNCHANGED <<temp, out>>
           \/ /\ env.lock
              /\ temp' = [temp EXCEPT ![c] = None]
              /\ \/ /\ (~Replaces(run.job) /\ dest[c] # None /\ Calm) \/ Fault
                    /\ run' = Onward(run) /\ out' = Said(out, {run.job.t}, "failed")
                 \/ /\ Replaces(run.job) \/ dest[c] = None
                    /\ Calm /\ run' = [run EXCEPT !.pc = "claim"] /\ UNCHANGED out
    /\ UNCHANGED <<dest, claims, notes, dirs>>

\* before_create: a replacement claims the stored name before its temporary exists.
ClaimExisting ==
    /\ run.pc = "claim"
    /\ LET p == run.job
           next == [run EXCEPT !.pc = "create"]
       IN  \/ Stops /\ UNCHANGED <<claims, out>>
           \/ /\ env.lock
              /\ \/ ~Replaces(p) /\ Calm /\ run' = next /\ UNCHANGED <<claims, out>>
                 \/ /\ Replaces(p) /\ Holds(p.key, p.t) /\ Calm
                    /\ claims' = IF claims[p.key] = None
                                 THEN [claims EXCEPT ![p.key] = [target |-> p.t, created |-> FALSE]]
                                 ELSE claims
                    /\ run' = next /\ UNCHANGED out
                 \/ /\ Replaces(p) /\ ((~Holds(p.key, p.t) /\ Calm) \/ Fault)
                    /\ run' = Onward(run) /\ out' = Said(out, {p.t}, "failed")
                    /\ UNCHANGED claims
    /\ UNCHANGED <<dest, temp, notes, dirs>>

\* The exclusive create fails because the name is taken: with entries pending, they are published and it is staged again.
CreateRefused ==
    /\ run.pc = "create" /\ Fault
    /\ IF Batching /\ run.batch[Top] # <<>>
       THEN run' = Flushing(run, Top, "stage") /\ UNCHANGED out
       ELSE run' = Onward(run) /\ out' = Said(out, {run.job.t}, "failed")
    /\ UNCHANGED <<dest, temp, claims, notes, dirs>>

Staged(id) ==
    LET p == [run.job EXCEPT !.id = id]
        r == [run EXCEPT !.made = @ \cup {ClassOf[p.t]}]
        b == Append(run.batch[Top], p)
        q == [r EXCEPT !.batch[Top] = b]
    IN  IF ~Batching THEN [r EXCEPT !.pc = IF Strict THEN "note" ELSE "publish", !.job = p]
        ELSE IF Len(b) >= BatchFiles \/ p.t \in Large THEN Flushing(q, Top, "next")
        ELSE Onward(q)

\* The rest of stage_file: the temporary is created and filled. Its identity may be unavailable.
Stage ==
    /\ run.pc = "create"
    /\ LET p == run.job
           obj == [by |-> p.t, n |-> env.runs]
       IN  /\ temp' = [temp EXCEPT ![ClassOf[p.t]] = obj]
           /\ \/ Calm /\ run' = Staged(obj)
              \/ Fault /\ run' = Staged(Unknown)
    /\ UNCHANGED <<dest, claims, notes, dirs, out>>

\* The copy fails after its temporary was created, which is discarded unless the lock is lost or the removal fails
\* too; a heartbeat failure stops the walk as well. A checkpoint or its writer that fails stops it with the temporary
\* kept for a resume (StreamFail::Keep), which is no leftover.
StageFails ==
    /\ run.pc = "create" /\ Fault
    /\ LET p == run.job
           c == ClassOf[p.t]
           obj == [by |-> p.t, n |-> env.runs]
           made == [run EXCEPT !.made = @ \cup {c}, !.seen = @ \/ ~env.lock]
       IN  \/ \E gone \in IF env.lock THEN BOOLEAN ELSE {FALSE} :
                LET kept == IF gone THEN out ELSE Left(out, {p.t})
                IN  /\ temp' = [temp EXCEPT ![c] = IF gone THEN None ELSE obj]
                    /\ \/ run' = Onward(made) /\ out' = Said(kept, {p.t}, "failed")
                       \/ run' = Halted(made, "beat") /\ out' = kept
           \/ /\ p.t \in Logged
              /\ temp' = [temp EXCEPT ![c] = obj]
              /\ run' = Halted([run EXCEPT !.made = @ \cup {c}, !.kept = c], "wal")
              /\ UNCHANGED out
    /\ UNCHANGED <<dest, claims, notes, dirs>>

-----------------------------------------------------------------------------
\* A file published on its own.

WriteNote ==
    /\ run.pc = "note"
    /\ LET p == run.job
       IN  \/ /\ notes[p.key] = None /\ Calm
              /\ notes' = [notes EXCEPT ![p.key] = NoteOf(p)]
              /\ run' = [run EXCEPT !.pc = "publish"]
           \/ /\ (notes[p.key] # None /\ Calm) \/ Fault
              /\ run' = [run EXCEPT !.pc = "undo", !.fl.why = "claim"]
              /\ UNCHANGED notes
    /\ UNCHANGED <<dest, temp, claims, dirs, out>>

\* The rename: an entry that is replaced keeps its stored spelling or takes the planned one.
Rename(p) ==
    LET c == ClassOf[p.t]
    IN  /\ temp[c] # None
        /\ Replaces(p) \/ dest[c] = None
        /\ \E n \in (IF dest[c] = None THEN {p.t} ELSE {dest[c].name, p.t}) :
              dest' = [dest EXCEPT ![c] = [name |-> n, obj |-> temp[c]]]
        /\ temp' = [temp EXCEPT ![c] = None]

\* The rename is refused: the name is taken, the temporary is not there, or the file system fails.
RenameRefused(p) ==
    \/ Calm /\ (temp[ClassOf[p.t]] = None \/ (~Replaces(p) /\ dest[ClassOf[p.t]] # None))
    \/ Fault

\* publish_staged after the note: the beat, the guard and the rename.
PublishOne ==
    /\ run.pc = "publish"
    /\ LET p == run.job
       IN  \/ /\ env.lock /\ Calm /\ Rename(p)
              /\ run' = Published([run EXCEPT !.pc = "commit"], p, StoredOf(p))
              /\ out' = Said(out, {p.t}, "copied")
           \/ /\ env.lock /\ RenameRefused(p)
              /\ run' = [run EXCEPT !.pc = "undo", !.fl.why = "rename"]
              /\ UNCHANGED <<dest, temp, out>>
           \/ /\ env.lock /\ Fault /\ \E why \in {"beat", "noprim"} :
                     run' = [run EXCEPT !.pc = "undo", !.fl.why = why]
              /\ UNCHANGED <<dest, temp, out>>
           \/ /\ ~env.lock /\ Calm
              /\ run' = Halted(run, "lost")
              /\ out' = Left(out, {p.t})
              /\ UNCHANGED <<dest, temp>>
    /\ UNCHANGED <<claims, notes, dirs>>

\* A failure before or at the rename discards the temporary ...
UndoStage ==
    /\ run.pc = "undo"
    /\ \E gone \in BOOLEAN :
          /\ Removal(gone) /\ Discard(run.job, gone)
          /\ out' = IF gone THEN out ELSE Left(out, {run.job.t})
          /\ run' = [run EXCEPT !.pc = "unnote", !.seen = @ \/ ~env.lock]
    /\ UNCHANGED <<dest, claims, notes, dirs>>

\* ... and then its note, but only under the lock: discard_note_on_failure. A heartbeat failure, a missing primitive
\* and a lost lock stop the walk, any other failure is the file's own.
UndoNote ==
    /\ run.pc = "unnote"
    /\ LET p == run.job
           noted == Strict /\ run.fl.why # "claim"
           ended == IF run.fl.why \in {"beat", "noprim"} THEN Halted(run, run.fl.why)
                    ELSE Onward([run EXCEPT !.fl = NoFlush])
           own == IF run.fl.why \in {"beat", "noprim"} THEN out ELSE Said(out, {p.t}, "failed")
       IN  \/ ~noted /\ Calm /\ run' = ended /\ out' = own /\ UNCHANGED notes
           \/ noted /\ ~env.lock /\ Calm
              /\ run' = Halted(run, "lost") /\ out' = Said(out, {p.t}, "failed") /\ UNCHANGED notes
           \/ /\ noted /\ env.lock
              /\ \/ Calm /\ notes' = [notes EXCEPT ![p.key] = None]
                 \/ Fault /\ UNCHANGED notes
              /\ run' = ended /\ out' = own
    /\ UNCHANGED <<dest, temp, claims, dirs>>

\* record_new and record_replace: the note becomes the claim (Strict), or the claim is recorded alone.
CommitOne ==
    /\ run.pc = "commit"
    /\ LET p == run.job
       IN  \/ /\ Committable({p}) /\ Calm
              /\ claims' = Committed({p})
              /\ notes' = [notes EXCEPT ![p.key] = None]
              /\ UNCHANGED out
           \/ /\ (~Committable({p}) /\ Calm) \/ Fault
              /\ out' = Said(out, {p.t}, "unrecorded")
              /\ UNCHANGED <<claims, notes>>
    /\ run' = Onward(run)
    /\ UNCHANGED <<dest, temp, dirs>>

-----------------------------------------------------------------------------
\* flush_batch: a directory's batch is published.

Entries == run.batch[run.fl.dir]
Taken(r) == [r EXCEPT !.batch[r.fl.dir] = <<>>]

\* The data barrier, then the opening beat and guard: nothing is noted yet. A failed sync is discarded before the notes.
Barrier ==
    /\ run.pc = "flush"
    /\ LET r == Taken(run)
       IN  \/ /\ env.lock /\ Calm
              /\ run' = [r EXCEPT !.pc = "notes", !.fl.todo = Entries] /\ UNCHANGED out
           \/ \E i \in DOMAIN Entries :
                 /\ env.lock /\ Fault
                 /\ run' = [r EXCEPT !.pc = "clean", !.fl.why = "sync", !.fl.bad = {Entries[i].t},
                                     !.fl.todo = <<Entries[i]>>,
                                     !.fl.noted = SelectSeq(Entries, LAMBDA p : p # Entries[i])]
                 /\ UNCHANGED out
           \/ /\ Fault
              /\ run' = [r EXCEPT !.pc = "clean", !.fl.why = "beat", !.fl.todo = Entries]
              /\ UNCHANGED out
           \/ /\ ~env.lock /\ Calm
              /\ run' = Halted(r, "lost")
              /\ out' = Said(Left(out, TargetsOf(Entries)), TargetsOf(Tail(Entries)), "failed")
    /\ UNCHANGED <<dest, temp, claims, notes, dirs>>

\* Where a round of discards goes on: to the notes after failed syncs, to the settling of a held stop, to the stop.
Cleaned(r) ==
    CASE r.fl.why = "sync" -> IF r.fl.noted = <<>> THEN Back(r)
                              ELSE [r EXCEPT !.pc = "notes", !.fl.todo = r.fl.noted, !.fl.noted = <<>>]
      [] r.fl.why = "beat" -> Halted(r, "beat")
      [] r.fl.why = "drain" -> [r EXCEPT !.pc = "drain", !.fl = NoFlush]
      [] r.fl.why \in {"heldBeat", "heldNoprim"} -> [r EXCEPT !.pc = "held"]

\* One entry of a round of discards. Only a failed sync is a failure of the entry; the others are reported when their
\* temporary stays.
Clean ==
    /\ run.pc = "clean"
    /\ \E gone \in BOOLEAN :
          LET p == Head(run.fl.todo)
              held == run.fl.why \in {"heldBeat", "heldNoprim"}
              r == [run EXCEPT !.fl.todo = Tail(@), !.seen = @ \/ ~env.lock,
                               !.fl.ops = IF held THEN Append(@, [p |-> p, commit |-> FALSE]) ELSE @]
              kept == IF gone THEN out ELSE Left(out, {p.t})
          IN  /\ Removal(gone) /\ Discard(p, gone)
              /\ out' = IF p.t \in run.fl.bad \/ (~gone /\ p.t # run.fl.held) THEN Said(kept, {p.t}, "failed") ELSE kept
              /\ run' = IF r.fl.todo = <<>> THEN Cleaned(r) ELSE r
    /\ UNCHANGED <<dest, claims, notes, dirs>>

\* prepare_many: every note in one transaction. Its failure wrote none, and each entry is then noted on its own.
PrepareMany ==
    /\ run.pc = "notes"
    /\ LET ps == Range(run.fl.todo)
       IN  \/ /\ Calm /\ \A p \in ps : notes[p.key] = None
              /\ notes' = [n \in Name |-> IF \E p \in ps : p.key = n THEN NoteOf(CHOOSE p \in ps : p.key = n)
                                          ELSE notes[n]]
              /\ run' = [run EXCEPT !.pc = "rename"]
           \/ /\ (Calm /\ \E p \in ps : notes[p.key] # None) \/ Fault
              /\ run' = [run EXCEPT !.pc = "noteOne", !.fl.noted = <<>>]
              /\ UNCHANGED notes
    /\ UNCHANGED <<dest, temp, claims, dirs, out>>

NextNote(r) == IF r.fl.todo = <<>> THEN [r EXCEPT !.pc = "rename", !.fl.todo = r.fl.noted, !.fl.noted = <<>>] ELSE r

PrepareOne ==
    /\ run.pc = "noteOne"
    /\ LET p == Head(run.fl.todo)
           rest == [run EXCEPT !.fl.todo = Tail(@)]
       IN  \/ /\ Calm /\ notes[p.key] = None
              /\ notes' = [notes EXCEPT ![p.key] = NoteOf(p)]
              /\ run' = NextNote([rest EXCEPT !.fl.noted = Append(@, p)])
              /\ UNCHANGED <<temp, out>>
           \/ /\ (Calm /\ notes[p.key] # None) \/ Fault
              /\ Discard(p, env.lock)
              /\ out' = Said(IF env.lock THEN out ELSE Left(out, {p.t}), {p.t}, "failed")
              /\ run' = NextNote([rest EXCEPT !.seen = @ \/ ~env.lock])
              /\ UNCHANGED notes
    /\ UNCHANGED <<dest, claims, dirs>>

\* Each entry's rename, in order. A lost lock stops the flush with nothing more written or removed; a failed beat or a
\* missing primitive removes the later temporaries and settles what was done.
RenameEntry ==
    /\ run.pc = "rename" /\ run.fl.todo # <<>>
    /\ LET p == Head(run.fl.todo)
           rest == [run EXCEPT !.fl.todo = Tail(@)]
       IN  \/ /\ env.lock /\ Calm /\ Rename(p)
              /\ run' = Published([rest EXCEPT !.fl.ops = Append(@, [p |-> p, commit |-> TRUE])], p, StoredOf(p))
              /\ out' = Said(out, {p.t}, "copied")
           \/ /\ env.lock /\ RenameRefused(p)
              /\ run' = [run EXCEPT !.pc = "undoEntry"]
              /\ UNCHANGED <<dest, temp, out>>
           \/ /\ env.lock /\ Fault
              /\ \E why \in {"heldBeat", "heldNoprim"} : 
                    run' = [run EXCEPT !.pc = "clean", !.fl.why = why, !.fl.held = p.t]
              /\ UNCHANGED <<dest, temp, out>>
           \/ /\ ~env.lock /\ Calm
              /\ run' = Halted(run, "lost")
              /\ out' = Said(Left(out, TargetsOf(run.fl.todo)), TargetsOf(rest.fl.todo), "failed")
              /\ UNCHANGED <<dest, temp>>
    /\ UNCHANGED <<claims, notes, dirs>>

\* publish_staged discards the temporary of a refused rename; the entry's note is discarded with the batch.
UndoEntry ==
    /\ run.pc = "undoEntry"
    /\ \E gone \in BOOLEAN :
          LET p == Head(run.fl.todo)
          IN  /\ Removal(gone) /\ Discard(p, gone)
              /\ out' = Said(IF gone THEN out ELSE Left(out, {p.t}), {p.t}, "failed")
              /\ run' = [run EXCEPT !.pc = "rename", !.fl.todo = Tail(@), !.seen = @ \/ ~env.lock,
                                    !.fl.ops = Append(@, [p |-> p, commit |-> FALSE])]
    /\ UNCHANGED <<dest, claims, notes, dirs>>

\* A held stop settles its notes once, best effort, unless the lock went meanwhile.
SettleHeld ==
    /\ run.pc = "held"
    /\ \/ /\ ~env.lock /\ Calm
          /\ run' = Halted(run, "lost")
          /\ out' = Said(out, {run.fl.held}, "failed")
          /\ UNCHANGED <<claims, notes>>
       \/ /\ env.lock
          /\ run' = Halted(run, IF run.fl.why = "heldBeat" THEN "beat" ELSE "noprim")
          /\ UNCHANGED out
          /\ \/ Applied(run.fl.ops) /\ Calm
             \/ ((Refused(run.fl.ops) /\ Calm) \/ Fault) /\ UNCHANGED <<claims, notes>>
    /\ UNCHANGED <<dest, temp, dirs>>

\* One transaction settles the batch. With a failed entry the lock is checked first.
Settle ==
    /\ run.pc = "rename" /\ run.fl.todo = <<>>
    /\ LET ops == run.fl.ops
           failed == \E i \in DOMAIN ops : ~ops[i].commit
       IN  \/ /\ failed /\ ~env.lock /\ Calm
              /\ run' = Halted(run, "lost") /\ UNCHANGED <<claims, notes>>
           \/ /\ failed => env.lock
              /\ \/ Applied(ops) /\ Calm /\ run' = Back(run)
                 \/ /\ (Refused(ops) /\ Calm) \/ (ops # <<>> /\ Fault)
                    /\ run' = [run EXCEPT !.pc = "settleOne"]
                    /\ UNCHANGED <<claims, notes>>
    /\ UNCHANGED <<dest, temp, dirs, out>>

\* The fallback: each operation on its own. A commit that fails is reported and its note left for recovery.
SettleOne ==
    /\ run.pc = "settleOne"
    /\ LET op == Head(run.fl.ops)
           rest == [run EXCEPT !.fl.ops = Tail(@)]
       IN  /\ \/ Applied(<<op>>) /\ Calm /\ UNCHANGED out
              \/ /\ (Refused(<<op>>) /\ Calm) \/ Fault
                 /\ out' = IF op.commit THEN Said(out, {op.p.t}, "unrecorded") ELSE out
                 /\ UNCHANGED <<claims, notes>>
           /\ run' = IF rest.fl.ops = <<>> THEN Back(rest) ELSE rest
    /\ UNCHANGED <<dest, temp, dirs>>

-----------------------------------------------------------------------------
\* drain_batches: every frame's batch, from the top down, as the walk ended.
Drain ==
    /\ run.pc = "drain"
    /\ IF run.stack = <<>>
       THEN run' = [run EXCEPT !.pc = "ended"] /\ UNCHANGED out
       ELSE LET entries == run.batch[Top]
                r == [run EXCEPT !.batch[Top] = <<>>]
            IN  \/ /\ entries = <<>>
                   /\ run' = [run EXCEPT !.stack = Front(@)] /\ UNCHANGED out
                \/ /\ entries # <<>> /\ run.mode = "publish"
                   /\ run' = Flushing(run, Top, "drain") /\ UNCHANGED out
                \/ /\ entries # <<>> /\ run.mode = "keep"
                   /\ run' = r
                   /\ out' = Said(Left(out, TargetsOf(entries)), TargetsOf(entries), "failed")
                \/ /\ entries # <<>> /\ run.mode = "remove"
                   /\ run' = [r EXCEPT !.pc = "clean", !.fl = [NoFlush EXCEPT !.why = "drain", !.todo = entries]]
                   /\ UNCHANGED out
    /\ UNCHANGED <<dest, temp, claims, notes, dirs, env>>

-----------------------------------------------------------------------------
\* The environment.

Active == run.pc \notin {"off", "ended", "refused"}

\* The process dies; what is on disk stays.
Crash ==
    /\ Active /\ env.runs < MaxRuns
    /\ run' = Idle /\ out' = Silent
    /\ UNCHANGED <<dest, temp, claims, notes, dirs, env>>

LoseLock ==
    /\ Active /\ env.lock /\ env.losses > 0
    /\ env' = [env EXCEPT !.lock = FALSE, !.losses = @ - 1]
    /\ UNCHANGED <<dest, temp, claims, notes, dirs, run, out>>

\* Another process writes or removes an entry, as the operator told to move one does.
Foreign(c) ==
    /\ env.foreign > 0
    /\ env' = [env EXCEPT !.foreign = @ - 1, !.touched = @ \cup {c}]
    /\ \/ dest[c] # None /\ dest' = [dest EXCEPT ![c] = None]
       \/ \E n \in {m \in Name : ClassOf[m] = c} :
             dest' = [dest EXCEPT ![c] = [name |-> n, obj |-> [by |-> Other, n |-> env.foreign]]]
    /\ UNCHANGED <<temp, claims, notes, dirs, run, out>>

Copy ==
    \/ Classify \/ Recover
    \/ EnterDir \/ LeaveDir \/ WalkEnds \/ FlushFirst \/ PlanFile
    \/ MakeRoom \/ Sweep \/ ClaimExisting \/ CreateRefused \/ Stage \/ StageFails
    \/ WriteNote \/ PublishOne \/ UndoStage \/ UndoNote \/ CommitOne
    \/ Barrier \/ Clean \/ PrepareMany \/ PrepareOne \/ RenameEntry \/ UndoEntry
    \/ SettleHeld \/ Settle \/ SettleOne
    \/ Drain

Next == Begin \/ Copy \/ Crash \/ LoseLock \/ \E c \in Entry : Foreign(c)

Spec == Init /\ [][Next]_vars

-----------------------------------------------------------------------------
Pcs == {"off", "refused", "ended", "classify", "recover", "walk", "stage", "claim", "create", "note", "publish",
        "undo", "unnote", "commit", "flush", "clean", "notes", "noteOne", "rename", "undoEntry", "held",
        "settleOne", "drain"}

\* The variables keep the shapes the code gives them.
TypeOK ==
    /\ dest \in [Entry -> [name : Name, obj : Object] \cup {None}]
    /\ temp \in [Entry -> Object \cup {None}]
    /\ claims \in [Name -> Claim \cup {None}]
    /\ notes \in [Name -> Note \cup {None}]
    /\ dirs \subseteq Dir
    /\ run.pc \in Pcs
    /\ \A d \in Dir : run.batch[d] \in Seq(Pending) /\ Len(run.batch[d]) <= BatchFiles
    /\ run.job \in Pending \cup {NoJob}
    /\ run.fl.ops \in Seq(Op)
    /\ out.left \subseteq Entry

\* Strict: whatever the order of crashes, failures and lost locks, an entry that holds an object this operation
\* published is known to the claim store: by a Created claim of its target, or by a note a resume will decide.
PublishedIsKnown ==
    Strict => \A c \in Entry :
        dest[c] # None /\ dest[c].obj.by \in Target =>
            \E n \in Name : /\ ClassOf[n] = c
                            /\ \/ claims[n] = [target |-> dest[c].obj.by, created |-> TRUE]
                               \/ notes[n] # None /\ notes[n].target = dest[c].obj.by

\* In an entry no other process touched, a Created claim names the target whose bytes are there: the batch, the sweep
\* of temporaries and recovery never publish one file under another's claim, and never claim what was not published.
ClaimNamesItsObject ==
    \A n \in Name : claims[n] # None /\ claims[n].created /\ ClassOf[n] \notin env.touched =>
        dest[ClassOf[n]] # None /\ dest[ClassOf[n]].obj.by = claims[n].target

\* In an entry no other process touched, a target never replaces what another target of the first run published: the
\* name index knows it whatever became of the claim. (A resumed run knows only the claims that were recorded.)
NoTargetReplacesAnother ==
    ~run.resume => \A c \in Entry :
       /\ dest[c] # None /\ dest[c].obj.by \in Target
       /\ dest'[c] # None /\ dest'[c].obj.by \in Target
       /\ c \notin env.touched
       => dest'[c].obj.by = dest[c].obj.by

\* Strict: a file that was published is not published again by a resume, unless another process touched its entry:
\* a crash between the rename and the claim costs no copy.
NothingPublishedTwice ==
    Strict /\ Policy = "overwrite" => \A c \in Entry :
       /\ dest[c] # None /\ dest'[c] # None /\ dest[c] # dest'[c] /\ c \notin env.touched
       => dest[c].obj.by = Other \/ dest'[c].obj.by # dest[c].obj.by

\* An orderly end names every temporary it leaves behind: each temporary this run made and that is still there was
\* reported as a leftover, except the one a failure of the checkpoint log keeps for the resume.
LeftoversReported ==
    run.pc = "ended" =>
        \A c \in run.made \ {run.kept} : temp[c] # None /\ temp[c].n = env.runs => c \in out.left

\* Section 99: once a run has seen that its lock is lost it renames nothing, removes nothing and claims nothing.
LostLockIsFinal ==
    run.seen /\ run'.seen /\ env'.foreign = env.foreign => UNCHANGED <<dest, temp, claims>>

\* An end without a stop has an answer for every file: exactly one of copied, resumed, skipped or failed, and no
\* batch still pending.
EveryFileAnswered ==
    run.pc = "ended" /\ run.stop = None =>
        /\ \A t \in Target : Cardinality(out.said[t] \cap {"copied", "resumed", "skipped", "failed"}) = 1
        /\ \A d \in Dir : run.batch[d] = <<>>

\* An end without a stop and without a failed record leaves no note behind: what is left in the prepared table belongs
\* to a file reported as failed or unrecorded.
NotesAreExplained ==
    run.pc = "ended" /\ run.stop = None =>
        \A n \in Noted : out.said[notes[n].target] \cap {"failed", "unrecorded"} # {}

=============================================================================
