------------------------------- MODULE Store -------------------------------
(***************************************************************************)
(* Tier 2 of the destination index (store.rs): four tables of rows keyed   *)
(* by a directory's prefix and a datum, written in transactions that are   *)
(* rotated every commit_every writes, read in pages, and removed a         *)
(* directory at a time by ranges.  redb is external: a table is a set of   *)
(* keys in byte order, a transaction may fail.                             *)
(*                                                                         *)
(* A key is a sequence of digits below Base: the byte, small enough that a *)
(* carry happens.                                                          *)
(***************************************************************************)
EXTENDS Naturals, Sequences, FiniteSets, FiniteSetsExt, SequencesExt

CONSTANTS
    Base,              \* digits of a byte
    Dirs,              \* directory prefixes: a tag (0 or 1) and the identity or ordinal
    Data,              \* the datums: spellings, ids with or without a spelling
    Tables,            \* in the order retire goes through them
    CommitEvery, Batch,
    Writes, Faults,    \* bounds: calls; failures
    None

VARIABLES
    rows,              \* table -> its keys, as the live transaction sees them
    committed,         \* ... as the last commit left them
    txn,               \* whether a transaction is live
    since,             \* writes_since_commit
    poison,
    pc, job,           \* "idle", "page" or "retire", and the call under way
    calls, faults, gone    \* gone: directories retired

vars == <<rows, committed, txn, since, poison, pc, job, calls, faults, gone>>
call == <<pc, job>>

----------------------------------------------------------------------------
\* Keys

Less(a, b) ==
    \E i \in 1 .. Len(b) : /\ \A j \in 1 .. i - 1 : j <= Len(a) /\ a[j] = b[j]
                           /\ i > Len(a) \/ a[i] < b[i]

\* increment(): one more, carried from the last digit.
Increment(key) ==
    LET full == {i \in 1 .. Len(key) : \A j \in i .. Len(key) : key[j] = Base - 1}
        at == Len(key) - Cardinality(full)
    IN  [i \in 1 .. Len(key) |-> IF i > at THEN 0 ELSE IF i = at THEN key[i] + 1 ELSE key[i]]

\* The directory's range [prefix, successor).
InRange(key, lo, hi) == ~ Less(key, lo) /\ Less(key, hi)
RowKey(dir, datum) == dir \o datum

\* keys_in: the first keys of a range, in order.
FirstKeys(keys, lo, hi, limit) ==
    LET found == {k \in keys : InRange(k, lo, hi)}
        rank(k) == Cardinality({m \in found : Less(m, k)})
    IN  {k \in found : rank(k) < limit}
LastKey(keys) == CHOOSE k \in keys : \A m \in keys : m = k \/ Less(m, k)

----------------------------------------------------------------------------
\* Transactions

Fault == faults < Faults /\ faults' = faults + 1

\* rotate(): commit, then begin; a failure on either side leaves none live.
Rotated(now) ==
    \/ committed' = now /\ txn' = TRUE /\ since' = 0 /\ UNCHANGED <<poison, faults>>
    \/ Fault /\ poison' = "commit" /\ txn' = FALSE /\ UNCHANGED <<committed, since>>
    \/ Fault /\ poison' = "begin" /\ committed' = now /\ txn' = FALSE /\ since' = 0

\* after_write.
Due == since + 1 >= CommitEvery
AfterWrite(now) ==
    IF Due THEN Rotated(now)
    ELSE since' = since + 1 /\ UNCHANGED <<committed, txn, poison, faults>>

\* publish_name, set_owner, learn and ids_row: a row more.
Writable == poison = None
Insert(table, dir, datum) ==
    /\ pc = "idle" /\ calls < Writes /\ calls' = calls + 1
    /\ IF ~ Writable THEN UNCHANGED <<rows, committed, txn, since, poison, faults>>
       ELSE IF ~ txn THEN poison' = "none live" /\ UNCHANGED <<rows, committed, txn, since, faults>>
       ELSE LET now == [rows EXCEPT ![table] = @ \cup {RowKey(dir, datum)}] IN
            \/ /\ rows' = now
               /\ IF table = "learned" /\ RowKey(dir, datum) \in rows[table]
                  THEN UNCHANGED <<committed, txn, since, poison, faults>>
                  ELSE AfterWrite(now)
            \/ Fault /\ poison' = "storage" /\ UNCHANGED <<rows, committed, txn, since>>
    /\ gone' = gone \ {dir}
    /\ UNCHANGED call

----------------------------------------------------------------------------
\* Pages

StartPages(dir) ==
    /\ pc = "idle" /\ poison = None /\ txn /\ calls < Writes /\ calls' = calls + 1
    /\ pc' = "page"
    /\ job' = [dir |-> dir, lo |-> dir, seen |-> << >>]
    /\ UNCHANGED <<rows, committed, txn, since, poison, faults, gone>>

\* One page of for_each_name2: the visitor is called for each, the next page
\* starts at the smallest key after the last.
\* mutant: the next page starts at the last key itself.
After_same(key) == key
After(key) == Append(key, 0)
Sorted(keys) == FoldSet(LAMBDA k, s : LET less == SelectSeq(s, LAMBDA q : Less(q, k))
                                      IN  less \o <<k>> \o SubSeq(s, Len(less) + 1, Len(s)),
                        << >>, keys)
Page ==
    /\ pc = "page"
    /\ LET keys == FirstKeys(rows["names2"], job.lo, Increment(job.dir), Batch)
           over == Cardinality(keys) < Batch \/ Len(job.seen) > Cardinality(rows["names2"])
       IN  \/ /\ job' = [job EXCEPT !.seen = @ \o Sorted(keys),
                                    !.lo = IF over THEN @ ELSE After(LastKey(keys))]
              /\ pc' = IF over THEN "paged" ELSE "page"
              /\ UNCHANGED <<poison, faults>>
           \/ Fault /\ poison' = "storage" /\ pc' = "idle" /\ job' = None
    /\ UNCHANGED <<rows, committed, txn, since, calls, gone>>
Paged ==
    /\ pc = "paged" /\ pc' = "idle" /\ job' = None
    /\ UNCHANGED <<rows, committed, txn, since, poison, calls, faults, gone>>

----------------------------------------------------------------------------
\* Retiring a directory

StartRetire(dir) ==
    /\ pc = "idle" /\ calls < Writes /\ calls' = calls + 1 /\ poison = None /\ txn
    /\ pc' = "retire" /\ job' = [dir |-> dir, before |-> rows]
    /\ UNCHANGED <<rows, committed, txn, since, poison, faults, gone>>

\* One pass: up to commit_every keys, table after table; then commit and tick.
Room(table, taken) == CommitEvery - taken
PassOf(dir) ==
    LET at(i) == Tables[i]
        pass[i \in 0 .. Len(Tables)] ==
            IF i = 0 THEN [rows |-> rows, taken |-> 0]
            ELSE LET so == pass[i - 1]
                     keys == FirstKeys(so.rows[at(i)], dir, Increment(dir), Room(at(i), so.taken))
                 IN  [rows |-> [so.rows EXCEPT ![at(i)] = @ \ keys], taken |-> so.taken + Cardinality(keys)]
    IN  pass[Len(Tables)]
Finished(pass) == pass.taken = 0
RetirePass ==
    /\ pc = "retire"
    /\ LET pass == PassOf(job.dir) IN
       IF Finished(pass)
       THEN /\ pc' = "idle" /\ job' = None /\ gone' = gone \cup {job.dir}
            /\ UNCHANGED <<rows, committed, txn, since, poison, faults>>
       ELSE \/ /\ rows' = pass.rows /\ Rotated(pass.rows)
               /\ pc' = IF poison' = None THEN "retire" ELSE "idle"
               /\ job' = IF poison' = None THEN job ELSE None
               /\ UNCHANGED gone
            \/ /\ rows' = pass.rows /\ committed' = pass.rows /\ since' = 0   \* the tick after the commit fails
               /\ Fault /\ poison' = "tick" /\ pc' = "idle" /\ job' = None /\ UNCHANGED <<txn, gone>>
    /\ UNCHANGED calls

\* finish(): the run's last commit.
Finish ==
    /\ pc = "idle" /\ poison = None /\ txn
    /\ txn' = FALSE
    /\ \/ committed' = rows /\ UNCHANGED <<poison, faults>>
       \/ Fault /\ poison' = "commit" /\ UNCHANGED committed
    /\ UNCHANGED <<rows, since, call, calls, gone>>

----------------------------------------------------------------------------
Init ==
    /\ rows = [t \in ToSet(Tables) |-> {}] /\ committed = rows
    /\ txn = TRUE /\ since = 0 /\ poison = None /\ pc = "idle" /\ job = None
    /\ calls = 0 /\ faults = 0 /\ gone = {}

Next ==
    \/ \E t \in ToSet(Tables), d \in Dirs, x \in Data : Insert(t, d, x)
    \/ \E d \in Dirs : StartPages(d) \/ StartRetire(d)
    \/ Page
    \/ Paged
    \/ RetirePass
    \/ Finish

Spec == Init /\ [][Next]_vars

----------------------------------------------------------------------------
\* What the store promises

TypeOK ==
    /\ pc \in {"idle", "page", "paged", "retire"} /\ (pc = "idle" <=> job = None)
    /\ since \in 0 .. CommitEvery - 1
    /\ poison # None => pc = "idle"

\* A directory's range is its rows: the successor of a prefix of all-ones digits
\* carries into the tag and still keeps every other directory out.
RangeIsPrefix ==
    \A d \in Dirs : \A k \in UNION {rows[t] : t \in DOMAIN rows} :
        InRange(k, d, Increment(d)) <=> IsPrefix(d, k)

\* A visit of the published names sees each of the directory's once, in order,
\* however the pages fall.
PagesAreComplete ==
    pc = "paged" => job.seen = Sorted({k \in rows["names2"] : IsPrefix(job.dir, k)})

\* A retired directory has no row left in any table, and its retirement took
\* no row of another.
RetireIsExact ==
    /\ \A d \in gone : \A t \in DOMAIN rows : \A k \in rows[t] : ~ IsPrefix(d, k)
    /\ pc = "retire" => \A t \in DOMAIN rows :
         {k \in job.before[t] : ~ IsPrefix(job.dir, k)} = {k \in rows[t] : ~ IsPrefix(job.dir, k)}

\* What a failure can lose is bounded: a live transaction never holds more than
\* commit_every changes.
UncommittedBounded ==
    poison = None /\ txn =>
        Cardinality(UNION {{<<t, k>> : k \in (rows[t] \ committed[t]) \cup (committed[t] \ rows[t])} : t \in DOMAIN rows})
            < CommitEvery

\* Nothing is written or read once an error was returned.
PoisonIsFinal == poison # None => UNCHANGED <<rows, committed, txn, poison>>

=============================================================================
